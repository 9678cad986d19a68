\* Two requests of one operator or about them; a login and a rotation, or two logins.
CONSTANTS
  None = None
  Operators = {o1}
  Pairs = {p1, p2}
  Requests = {r1, r2}
  Passwords = {w1, w2}
SPECIFICATION Spec
INVARIANTS TypeOK OneLivePerLogin SessionContinues
PROPERTIES NothingRevived OnlyAskedChanges
SYMMETRY Symmetry
CHECK_DEADLOCK FALSE
