\* Four locations arrive in any order while two requests read, update and delete.
CONSTANTS
  None = None
  Users = {u1}
  Operators = {o1}
  Alerts = {a1}
  Requests = {r1, r2}
  Times = {1, 2, 3, 4}
  HistoryLimit = 3
  MonitorLimit = 2
  MaxRetries = 0
  UserStatuses = {"resolved"}
  OperatorStatuses = {"assigned"}
SPECIFICATION Spec
SYMMETRY Symmetry
INVARIANTS RecentPingsKept RespondersExist
PROPERTY ImplementsLedger
