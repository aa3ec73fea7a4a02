---------------------------- MODULE MCTimedServer ----------------------------
(* Instances of TimedServer for TLC. *)
EXTENDS TimedServer, TLC

Symmetry == Permutations(Reqs)

\* Long polls, and writes into the session that one of them created.
TimedLoad ==
    { [method |-> "GET", id |-> i, frames |-> 0] : i \in Ids } \cup
    { [method |-> "PATCH", id |-> i, frames |-> 1] : i \in Ids }
=============================================================================
