------------------------ MODULE MCConnectionManager ------------------------
(* ConnectionManager on small instances. *)
EXTENDS ConnectionManager, TLC

CONSTANTS u1, u2, u3, s1, s2, s3, c1

\* Two devices and one (u3 only uses HTTP), three of one user, one of two users.
TwoAndOne == s1 :> u1 @@ s2 :> u1 @@ s3 :> u2
AllOfOne  == s1 :> u1 @@ s2 :> u1 @@ s3 :> u1
OneEach   == s1 :> u1 @@ s2 :> u2

\* The devices of u1 are interchangeable.
Symmetry == Permutations({s1, s2})
=============================================================================
