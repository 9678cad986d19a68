---------------------------- MODULE MCSosAlerts ----------------------------
(* SosAlerts on small instances. *)
EXTENDS SosAlerts, TLC

\* Users, alerts, requests and operators are interchangeable.
Symmetry == Permutations(Users) \cup Permutations(Alerts)
              \cup Permutations(Requests) \cup Permutations(Operators)
=============================================================================
