\* A login and a change of password.
CONSTANTS
  None = None
  Operators = {o1}
  Pairs = {p1}
  Requests = {r1, r2}
  Passwords = {w1, w2}
SPECIFICATION Spec
PROPERTIES PasswordChangeLogsOut
CHECK_DEADLOCK FALSE
