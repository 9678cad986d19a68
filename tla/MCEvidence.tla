----------------------------- MODULE MCEvidence -----------------------------
(* Evidence on small instances.  No symmetry: the run checks RequestsEnd. *)
EXTENDS Evidence
=============================================================================
