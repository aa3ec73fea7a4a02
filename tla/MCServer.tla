------------------------------ MODULE MCServer ------------------------------
(* Instances of Server for TLC. *)
EXTENDS Server, TLC

Symmetry == Permutations(Actors) \cup Permutations(Reqs)

Request(m, i, n) == [method |-> m, id |-> i, frames |-> n]

\* Requests of every kind.
MixedLoad ==
    { Request(m, i, 1) : m \in {"POST", "PATCH"}, i \in Ids } \cup
    { Request("GET", i, 0) : i \in Ids } \cup
    { Request("POST", None, 1), Request("OTHER", CHOOSE i \in Ids : TRUE, 0) }

\* Long polls, with a write that keeps the actor busy or fills its mailbox.
ReadLoad == { Request("GET", i, 0) : i \in Ids } \cup { Request("PATCH", i, 1) : i \in Ids }

\* Writes of up to two frames.
WriteLoad == { Request(m, i, n) : m \in {"POST", "PATCH"}, i \in Ids, n \in 0..2 }

\* Requests of every method, with up to two frames.
SessionLoad == MixedLoad \cup WriteLoad
=============================================================================
