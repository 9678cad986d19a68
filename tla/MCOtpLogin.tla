----------------------------- MODULE MCOtpLogin -----------------------------
(* OtpLogin on small instances. *)
EXTENDS OtpLogin, TLC

MCStatuses == {Active, Suspended}

Symmetry == Permutations(Requests) \cup Permutations(Users) \cup Permutations(Codes)
=============================================================================
