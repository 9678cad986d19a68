\* Two triggers of one survivor overlap.
CONSTANTS
  None = None
  Users = {u1}
  Operators = {}
  Alerts = {a1, a2}
  Requests = {r1, r2}
  Times = {}
  HistoryLimit = 2
  MonitorLimit = 1
  MaxRetries = 0
  UserStatuses = {"resolved"}
  OperatorStatuses = {}
SPECIFICATION Spec
INVARIANT OneOpenAlertPerUser
\* The instance may run out of users and alerts.
CHECK_DEADLOCK FALSE
