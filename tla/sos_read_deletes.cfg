\* Reads of an alert with more locations than the limit.
CONSTANTS
  None = None
  Users = {u1}
  Operators = {}
  Alerts = {a1}
  Requests = {r1}
  Times = {1, 2, 3}
  HistoryLimit = 2
  MonitorLimit = 1
  MaxRetries = 0
  UserStatuses = {}
  OperatorStatuses = {}
SPECIFICATION Spec
PROPERTY ReadsDeleteNothing
\* The instance may run out of users and alerts.
CHECK_DEADLOCK FALSE
