----------------------------- MODULE MCMessaging -----------------------------
(* Messaging on small instances. *)
EXTENDS Messaging, TLC

\* Every centre has the same operator, if there is one.
MCOperatorOf == [s \in Centers |-> IF Operators = {} THEN None ELSE CHOOSE o \in Operators : TRUE]

Symmetry == Permutations(Users) \cup Permutations(Requests)
=============================================================================
