----------------------------- MODULE MCConnect ------------------------------
(* The instance of Connect for TLC. *)
EXTENDS Connect
=============================================================================
