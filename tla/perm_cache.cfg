\* One operator, one role, one permission: a change overtakes two checks at any of
\* their reads.  Everything may end up deleted, after which nothing happens.
CONSTANTS
  None = None
  Empty = Empty
  Users = {u1}
  Roles = {r1}
  Perms = {p1}
  Checks = {k1, k2}
  Changes = {c1}
SPECIFICATION FairSpec
INVARIANTS
  TypeOK
  CacheFollowsRows
PROPERTIES
  CacheSettles
CHECK_DEADLOCK FALSE
