\* One number, three codes, two accounts of it in turn, three overlapping requests.
CONSTANTS
  None = None
  Active = Active
  Suspended = Suspended
  Statuses <- MCStatuses
  Phones = {p1}
  Codes = {k1, k2, k3}
  Users = {u1, u2}
  Requests = {r1, r2, r3}
SPECIFICATION Spec
INVARIANTS TypeOK CodeOpensOneSession LastCodeWorks SessionHasAccount OneAccountPerPhone
PROPERTIES StatusOnlyAsked
SYMMETRY Symmetry
CHECK_DEADLOCK FALSE
