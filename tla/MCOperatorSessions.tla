------------------------- MODULE MCOperatorSessions -------------------------
(* OperatorSessions on small instances. *)
EXTENDS OperatorSessions, TLC

\* Requests, pairs and passwords are interchangeable.
Symmetry == Permutations(Pairs) \cup Permutations(Requests) \cup Permutations(Passwords)
=============================================================================
