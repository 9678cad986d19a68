\* Two survivors, an operator of a centre, two overlapping requests.
CONSTANTS
  None = None
  Users = {u1, u2}
  Operators = {o1}
  Centers = {s1}
  OperatorOf <- MCOperatorOf
  Convs = {c1}
  Messages = {m1}
  Requests = {r1, r2}
  MaxRows = 3
SPECIFICATION Spec
INVARIANTS TypeOK NobodyMissed NobodyLeftTold OneRowPerOperator
PROPERTIES ImplementsLog
SYMMETRY Symmetry
CHECK_DEADLOCK FALSE
