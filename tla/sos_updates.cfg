\* Two requests trigger, update and wait for one row; tasks are retried.
CONSTANTS
  None = None
  Users = {u1}
  Operators = {o1}
  Alerts = {a1}
  Requests = {r1, r2}
  Times = {}
  HistoryLimit = 2
  MonitorLimit = 1
  MaxRetries = 1
  UserStatuses = {"active", "resolved"}
  OperatorStatuses = {"resolved"}
SPECIFICATION FairSpec
INVARIANTS TypeOK CacheFollowsRow NoUnannouncedAlert
PROPERTIES RequestsEnd NotificationsHandled
