--------------------------- MODULE MCPermissionCache ---------------------------
(* PermissionCache on small instances. *)
EXTENDS PermissionCache, TLC

\* Operators, roles, permissions and requests are interchangeable.
Symmetry == Permutations(Users) \cup Permutations(Roles) \cup Permutations(Perms)
              \cup Permutations(Checks) \cup Permutations(Changes)
=============================================================================
