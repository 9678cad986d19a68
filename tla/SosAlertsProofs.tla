-------------------------- MODULE SosAlertsProofs --------------------------
(***************************************************************************)
(* Theorems about SosAlerts, for any number of users, operators, alerts,   *)
(* requests, locations and any limits.                                     *)
(***************************************************************************)
EXTENDS SosAlerts, TLAPS

-----------------------------------------------------------------------------
(* What a read cuts off.                                                   *)

\* A truncation only names pairs of an alert and a location.
LEMMA BeyondLimitTyped ==
    ASSUME TypeOK, NEW a \in Alerts, NEW limit
    PROVE  BeyondLimit(a, limit) \subseteq Alerts \X Times
  BY DEF BeyondLimit, TypeOK

-----------------------------------------------------------------------------
(* Type correctness                                                        *)

LEMMA InitTypeOK == Init => TypeOK
  BY SosAssumption DEF Init, TypeOK, Idle, Request, Status

-----------------------------------------------------------------------------
(* Requests are where their handler can be                                 *)

\* TypeOK is not inductive by itself: a handler puts req.alert into sets of
\* alerts, and into the domain of alerts, at points where it is not None.
Shape(q) ==
    \/ q.op = "none" /\ q.pc = "idle"
    \/ q.op = "read" /\ q.pc = "commit"
    \/ q.op = "ping" /\ q.pc = "commit" /\ q.alert \in Alerts
    \/ q.op = "trigger" /\ q.pc = "insert" /\ q.user \in Users
    \/ /\ q.op = "trigger" /\ q.pc \in {"cache", "contacts", "centers", "commit"}
       /\ q.user \in Users /\ q.alert \in Alerts
    \/ /\ \/ q.op = "user" /\ q.pc \in {"update", "cache", "commit"}
          \/ q.op = "operator" /\ q.pc \in {"update", "refetch", "commit"}
       /\ q.alert \in Alerts /\ q.status \in Status /\ Exists(q.alert)

TypeInv == TypeOK /\ \A r \in Requests : Shape(req[r])

\* No record is None, so an alert is there exactly when it has a row.
LEMMA RowIsNotNone == None \notin AlertRow
  BY SosAssumption DEF AlertRow

\* A shape only depends on the request and on which alerts exist.
LEMMA ShapeKept ==
    ASSUME TypeInv, NEW r \in Requests, NEW x, Shape(x)',
           req' = [req EXCEPT ![r] = x],
           \A a \in Alerts : Exists(a) => Exists(a)'
    PROVE  \A p \in Requests : Shape(req[p])'
  <1>1. ASSUME NEW p \in Requests PROVE Shape(req[p])'
    <2>1. CASE p = r
      <3>1. req'[p] = x
        BY <2>1 DEF TypeInv, TypeOK
      <3>2. QED
        BY <3>1 DEF Shape
    <2>2. CASE p # r
      <3>1. req'[p] = req[p]
        BY <2>2 DEF TypeInv, TypeOK
      <3>2. Shape(req[p])
        BY DEF TypeInv
      <3>3. QED
        BY <3>1, <3>2 DEF Shape
    <2>3. QED
      BY <2>1, <2>2
  <1>2. QED
    BY <1>1

\* The variables a request leaves alone when it starts.
Stores == <<accounts, staff, alerts, pings, cache, tasks, drawn, fanned, sent, diverged>>

\* What a request is after its first step.
Started(x) ==
    /\ x \in Request /\ Shape(x)
    /\ ~(x.op = "trigger" /\ x.pc = "commit")

LEMMA BeginStarted ==
    ASSUME TypeOK, NEW r \in Requests, Begin(r)
    PROVE  UNCHANGED Stores /\ \E x : req' = [req EXCEPT ![r] = x] /\ Started(x)
  <1>1. UNCHANGED Stores
    BY DEF Begin, TriggerLookup, UpdateLocation, ProcessOfflineLocations, GetSosStatus,
           ListMonitorAlerts, UserUpdateLoad, OperatorUpdateLoad, Stores
  <1> DEFINE P == \E x : req' = [req EXCEPT ![r] = x] /\ Started(x)
  <1>a. \A a \in Alerts : Exists(a) => alerts[a].owner \in Users \cup {None}
    BY DEF TypeOK, Exists, AlertRow
  <1>b. \A a \in Alerts : \A limit : BeyondLimit(a, limit) \subseteq Alerts \X Times
    BY BeyondLimitTyped
  <1>2. ASSUME NEW u \in Users, TriggerLookup(r, u) PROVE P
    <2>1. Started([Idle EXCEPT !.op = "trigger", !.pc = "insert", !.user = u])
      BY DEF Started, Shape, Idle, Request
    <2>2. \A a \in Alerts, t \in Times :
            Started([Idle EXCEPT !.op = "ping", !.pc = "commit", !.user = u,
                                 !.alert = a, !.add = {t}])
      <3> TAKE a \in Alerts, t \in Times
      <3> DEFINE x == [Idle EXCEPT !.op = "ping", !.pc = "commit", !.user = u,
                                   !.alert = a, !.add = {t}]
      <3>1. x \in Request
        BY DEF Idle, Request
      <3>2. Shape(x) /\ x.op = "ping"
        BY DEF Idle, Shape
      <3>3. QED
        BY ONLY <3>1, <3>2 DEF Started
    <2>3. CASE \E a \in Alerts, t \in Times :
                 req' = [req EXCEPT ![r] = [Idle EXCEPT !.op = "ping", !.pc = "commit",
                           !.user = u, !.alert = a, !.add = {t}]]
      BY ONLY <2>3, <2>2
    <2>4. CASE req' = [req EXCEPT ![r] = [Idle EXCEPT !.op = "trigger", !.pc = "insert",
                                                      !.user = u]]
      BY ONLY <2>4, <2>1
    <2>5. QED
      BY ONLY <1>2, <2>3, <2>4 DEF TriggerLookup
  <1>3. ASSUME NEW a \in Alerts, NEW t \in Times, UpdateLocation(r, a, t) PROVE P
    <2>1. Started([Idle EXCEPT !.op = "ping", !.pc = "commit", !.alert = a,
                               !.user = alerts[a].owner, !.add = {t}])
      BY <1>a, <1>3 DEF UpdateLocation, Started, Shape, Idle, Request
    <2>2. QED
      BY ONLY <1>3, <2>1 DEF UpdateLocation
  <1>4. ASSUME NEW a \in Alerts, NEW T \in SUBSET Times, ProcessOfflineLocations(r, a, T) PROVE P
    <2>1. Started([Idle EXCEPT !.op = "ping", !.pc = "commit", !.alert = a, !.add = T])
      BY DEF Started, Shape, Idle, Request
    <2>2. QED
      BY ONLY <1>4, <2>1 DEF ProcessOfflineLocations
  <1>5. ASSUME NEW u \in Users, NEW a \in Alerts, GetSosStatus(r, u, a) PROVE P
    <2>1. Started([Idle EXCEPT !.op = "read", !.pc = "commit",
                               !.drop = BeyondLimit(a, HistoryLimit)])
      BY <1>b DEF Started, Shape, Idle, Request
    <2>2. QED
      BY ONLY <1>5, <2>1 DEF GetSosStatus
  <1>6. ASSUME ListMonitorAlerts(r) PROVE P
    <2>1. \A S \in SUBSET Alerts :
            Started([Idle EXCEPT !.op = "read", !.pc = "commit",
                       !.drop = UNION {BeyondLimit(a, MonitorLimit) : a \in S}])
      <3> SUFFICES ASSUME NEW S \in SUBSET Alerts
                   PROVE  Started([Idle EXCEPT !.op = "read", !.pc = "commit",
                                     !.drop = UNION {BeyondLimit(a, MonitorLimit) : a \in S}])
        OBVIOUS
      <3> DEFINE D == UNION {BeyondLimit(a, MonitorLimit) : a \in S}
      <3>1. D \subseteq Alerts \X Times
        BY <1>b
      <3> HIDE DEF D
      <3>2. Started([Idle EXCEPT !.op = "read", !.pc = "commit", !.drop = D])
        BY <3>1 DEF Started, Shape, Idle, Request
      <3>3. QED
        BY ONLY <3>2 DEF D
    <2>2. \A recent : Monitored(alerts, recent) \in SUBSET Alerts
      BY DEF Monitored
    <2>3. QED
      BY ONLY <1>6, <2>1, <2>2 DEF ListMonitorAlerts
  <1>7. ASSUME NEW u \in Users, NEW a \in Alerts, NEW s \in UserStatuses,
               UserUpdateLoad(r, u, a, s)
        PROVE  P
    <2>1. Started([Idle EXCEPT !.op = "user", !.pc = "update",
                               !.alert = a, !.user = u, !.status = s])
      BY <1>7 DEF UserUpdateLoad, Started, Shape, Idle, Request, Status
    <2>2. QED
      BY ONLY <1>7, <2>1 DEF UserUpdateLoad
  <1>8. ASSUME NEW o \in Operators, NEW a \in Alerts, NEW s \in OperatorStatuses,
               OperatorUpdateLoad(r, o, a, s)
        PROVE  P
    <2>1. Started([Idle EXCEPT !.op = "operator", !.pc = "update", !.alert = a, !.by = o,
                               !.status = s, !.user = alerts[a].owner])
      BY <1>a, <1>8 DEF OperatorUpdateLoad, Started, Shape, Idle, Request, Status
    <2>2. QED
      BY ONLY <1>8, <2>1 DEF OperatorUpdateLoad
  <1>9. QED
    BY <1>1, <1>2, <1>3, <1>4, <1>5, <1>6, <1>7, <1>8 DEF Begin

LEMMA BeginTypeInv ==
    ASSUME TypeInv, NEW r \in Requests, Begin(r)
    PROVE  TypeInv'
  <1>1. UNCHANGED Stores
    BY BeginStarted DEF TypeInv
  <1>2. PICK x : req' = [req EXCEPT ![r] = x] /\ Started(x)
    BY BeginStarted DEF TypeInv
  <1>3. TypeOK'
    BY <1>1, <1>2 DEF TypeInv, TypeOK, Stores, Started
  <1>4. Shape(x)' /\ \A a \in Alerts : Exists(a) => Exists(a)'
    BY <1>1, <1>2 DEF Shape, Exists, Stores, Started
  <1>5. QED
    BY <1>2, <1>3, <1>4, ShapeKept DEF TypeInv

\* A step that moves one request on and leaves the database alone.
LEMMA RequestMoved ==
    ASSUME TypeInv, NEW r \in Requests, NEW x \in Request, Shape(x),
           req' = [req EXCEPT ![r] = x],
           cache' \in [Alerts -> Status \cup {None}], tasks' \subseteq Task,
           drawn' \subseteq Alerts, fanned' \subseteq Alerts, diverged' \subseteq Alerts,
           UNCHANGED <<accounts, staff, alerts, pings, sent>>
    PROVE  TypeInv'
  <1>1. TypeOK'
    BY DEF TypeInv, TypeOK
  <1>2. Shape(x)' /\ \A a \in Alerts : Exists(a) => Exists(a)'
    BY DEF Shape, Exists
  <1>3. QED
    BY <1>1, <1>2, ShapeKept DEF TypeInv

\* The effects between the start of a handler and its end.
LEMMA EffectTypeInv ==
    ASSUME TypeInv, NEW r \in Requests,
           \/ TriggerInsert(r) \/ CacheNewAlert(r) \/ QueueContacts(r) \/ QueueCenters(r)
           \/ UpdateRow(r) \/ CacheStatus(r) \/ RefetchMonitor(r)
    PROVE  TypeInv'
  <1> DEFINE q == req[r]
  <1>1. q \in Request /\ Shape(q) /\ req \in [Requests -> Request]
    BY DEF TypeInv, TypeOK
  <1>2. /\ cache \in [Alerts -> Status \cup {None}] /\ tasks \subseteq Task
        /\ drawn \subseteq Alerts /\ fanned \subseteq Alerts /\ diverged \subseteq Alerts
    BY DEF TypeInv, TypeOK
  <1>3. CASE TriggerInsert(r)
    <2>1. PICK a \in Alerts : /\ req' = [req EXCEPT ![r].alert = a, ![r].pc = "cache"]
                              /\ drawn' = drawn \cup {a}
      BY <1>3 DEF TriggerInsert
    <2> DEFINE x == [q EXCEPT !.alert = a, !.pc = "cache"]
    <2>2. x \in Request /\ req' = [req EXCEPT ![r] = x]
      BY <1>1, <2>1 DEF Request
    <2>3. Shape(x)
      BY <1>1, <1>3 DEF TriggerInsert, Shape, Request
    <2> HIDE DEF x
    <2>4. QED
      BY <1>2, <1>3, <2>1, <2>2, <2>3, RequestMoved DEF TriggerInsert
  <1>4. CASE CacheNewAlert(r)
    <2> DEFINE x == [q EXCEPT !.pc = "contacts"]
    <2>1. x \in Request /\ req' = [req EXCEPT ![r] = x]
      BY <1>1, <1>4 DEF Request, CacheNewAlert, Goto
    <2>2. Shape(x)
      BY <1>1, <1>4 DEF CacheNewAlert, Shape, Request
    <2>3. cache' \in [Alerts -> Status \cup {None}]
      BY <1>2, <1>4 DEF CacheNewAlert, Status
    <2> HIDE DEF x
    <2>4. QED
      BY <1>2, <1>4, <2>1, <2>2, <2>3, RequestMoved DEF CacheNewAlert
  <1>5. CASE QueueContacts(r)
    <2> DEFINE x == [q EXCEPT !.pc = "centers"]
    <2>1. x \in Request /\ req' = [req EXCEPT ![r] = x]
      BY <1>1, <1>5 DEF Request, QueueContacts, Goto
    <2>2. Shape(x) /\ q.alert \in Alerts
      BY <1>1, <1>5 DEF QueueContacts, Shape, Request
    <2>3. tasks' \subseteq Task
      BY <1>2, <1>5, <2>2, SosAssumption DEF QueueContacts, Task
    <2> HIDE DEF x
    <2>4. QED
      BY <1>2, <1>5, <2>1, <2>2, <2>3, RequestMoved DEF QueueContacts
  <1>6. CASE QueueCenters(r)
    <2> DEFINE x == [q EXCEPT !.pc = "commit"]
    <2>1. x \in Request /\ req' = [req EXCEPT ![r] = x]
      BY <1>1, <1>6 DEF Request, QueueCenters, Goto
    <2>2. Shape(x) /\ q.alert \in Alerts
      BY <1>1, <1>6 DEF QueueCenters, Shape, Request
    <2>3. tasks' \subseteq Task /\ fanned' \subseteq Alerts
      BY <1>2, <1>6, <2>2, SosAssumption DEF QueueCenters, Task
    <2> HIDE DEF x
    <2>4. QED
      BY <1>2, <1>6, <2>1, <2>2, <2>3, RequestMoved DEF QueueCenters
  <1>7. CASE UpdateRow(r)
    <2> DEFINE x == [q EXCEPT !.pc = IF q.op = "user" THEN "cache" ELSE "refetch"]
    <2>1. x \in Request /\ req' = [req EXCEPT ![r] = x]
      BY <1>1, <1>7 DEF Request, UpdateRow, Goto
    <2>2. Shape(x)
      BY <1>1, <1>7 DEF UpdateRow, Shape, Request
    <2> HIDE DEF x
    <2>3. QED
      BY <1>2, <1>7, <2>1, <2>2, RequestMoved DEF UpdateRow
  <1>8. CASE CacheStatus(r)
    <2> DEFINE x == [q EXCEPT !.pc = "commit"]
    <2>1. x \in Request /\ req' = [req EXCEPT ![r] = x]
      BY <1>1, <1>8 DEF Request, CacheStatus, Goto
    <2>2. Shape(x) /\ q.status \in Status
      BY <1>1, <1>8 DEF CacheStatus, Shape, Request
    <2>3. cache' \in [Alerts -> Status \cup {None}] /\ diverged' \subseteq Alerts
      BY <1>2, <1>8, <2>2 DEF CacheStatus
    <2> HIDE DEF x
    <2>4. QED
      BY <1>2, <1>8, <2>1, <2>2, <2>3, RequestMoved DEF CacheStatus
  <1>9. CASE RefetchMonitor(r)
    <2>1. PICK S \in SUBSET Alerts :
            req' = [req EXCEPT ![r].pc = "commit",
                               ![r].drop = UNION {BeyondLimit(b, MonitorLimit) : b \in S}]
      <3>1. q.alert \in Alerts
        BY <1>1, <1>9 DEF RefetchMonitor, Shape
      <3>2. \A row, recent : Monitored(row, recent) \cup {q.alert} \in SUBSET Alerts
        BY <3>1 DEF Monitored
      <3>3. QED
        BY <1>9, <3>2 DEF RefetchMonitor
    <2>2. UNION {BeyondLimit(b, MonitorLimit) : b \in S} \in SUBSET (Alerts \X Times)
      BY BeyondLimitTyped DEF TypeInv
    <2> DEFINE D == UNION {BeyondLimit(b, MonitorLimit) : b \in S}
               x == [q EXCEPT !.pc = "commit", !.drop = D]
    <2>3. D \in SUBSET (Alerts \X Times) /\ req' = [req EXCEPT ![r].pc = "commit", ![r].drop = D]
      BY <2>1, <2>2
    <2> HIDE DEF D
    <2>4. x \in Request /\ req' = [req EXCEPT ![r] = x]
      BY <1>1, <2>3 DEF Request
    <2>5. Shape(x)
      BY <1>1, <1>9 DEF RefetchMonitor, Shape, Request
    <2> HIDE DEF x
    <2>6. QED
      BY <1>2, <1>9, <2>4, <2>5, RequestMoved DEF RefetchMonitor
  <1>10. QED
    BY <1>3, <1>4, <1>5, <1>6, <1>7, <1>8, <1>9

\* What a commit writes are rows, and it removes none.
LEMMA CommittedRowsTyped ==
    ASSUME TypeInv, NEW r \in Requests, req[r].pc = "commit"
    PROVE  /\ CommittedRows(r) \in [Alerts -> AlertRow \cup {None}]
           /\ \A a \in Alerts : Exists(a) => CommittedRows(r)[a] # None
           /\ req[r].op \notin {"trigger", "user", "operator"} => CommittedRows(r) = alerts
           /\ req[r].op = "trigger" =>
                CommittedRows(r) = [alerts EXCEPT ![req[r].alert] = NewAlert(req[r].user)]
           /\ req[r].op \in {"user", "operator"} =>
                \A a \in Alerts : CommittedRows(r)[a] # None => Exists(a)
  <1> DEFINE q == req[r]
  <1>1. /\ alerts \in [Alerts -> AlertRow \cup {None}]
        /\ q \in Request /\ Shape(q)
    BY DEF TypeInv, TypeOK
  <1>2. CASE q.op = "trigger"
    <2>1. NewAlert(q.user) \in AlertRow /\ q.alert \in Alerts
      BY <1>1, <1>2 DEF NewAlert, AlertRow, Shape, Status
    <2>2. CommittedRows(r) = [alerts EXCEPT ![q.alert] = NewAlert(q.user)]
      BY <1>2 DEF CommittedRows
    <2>3. QED
      BY <1>1, <1>2, <2>1, <2>2, RowIsNotNone DEF Exists
  <1>3. CASE q.op \in {"user", "operator"}
    <2>1. /\ q.alert \in Alerts /\ q.status \in Status /\ Exists(q.alert)
          /\ q.by \in Operators \cup {None}
      BY <1>1, <1>3 DEF Shape, Request
    <2>2. alerts[q.alert] \in AlertRow
      BY <1>1, <2>1 DEF Exists
    <2>3. StatusUpdate(alerts[q.alert], q.status, q.by) \in AlertRow
      BY <2>1, <2>2 DEF StatusUpdate, AlertRow
    <2>4. CommittedRows(r) =
            [alerts EXCEPT ![q.alert] = StatusUpdate(alerts[q.alert], q.status, q.by)]
      BY <1>1, <1>3, <2>1 DEF CommittedRows
    <2>5. QED
      BY <1>1, <1>3, <2>1, <2>3, <2>4, RowIsNotNone DEF Exists
  <1>4. CASE q.op \notin {"trigger", "user", "operator"}
    <2>1. CommittedRows(r) = alerts
      BY <1>4 DEF CommittedRows
    <2>2. QED
      BY <1>1, <1>4, <2>1 DEF Exists
  <1>5. QED
    BY <1>2, <1>3, <1>4

LEMMA IdleIsRequest == Idle \in Request /\ Shape(Idle) /\ Shape(Idle)'
  BY DEF Idle, Request, Shape

LEMMA EndTypeInv ==
    ASSUME TypeInv, NEW r \in Requests, Commit(r) \/ Abort(r)
    PROVE  TypeInv'
  <1> DEFINE q == req[r]
  <1>1. /\ q \in Request /\ Shape(q) /\ TypeOK
    BY DEF TypeInv, TypeOK
  <1>2. req' = [req EXCEPT ![r] = Idle]
    BY DEF Commit, Abort
  <1>3. CASE Commit(r)
    <2>1. q.pc = "commit" /\ alerts' = CommittedRows(r)
      BY <1>3 DEF Commit
    <2>2. alerts' \in [Alerts -> AlertRow \cup {None}] /\ \A a \in Alerts : Exists(a) => Exists(a)'
      BY <2>1, CommittedRowsTyped DEF Exists
    <2>3. \A a \in Alerts : Inserted(r, a) \subseteq Times
      BY <1>1 DEF Inserted, Request
    <2>4. pings' \in [Alerts -> SUBSET Times] /\ sent' \in [Alerts -> SUBSET Times]
      BY <1>1, <1>3, <2>3 DEF Commit, TypeOK
    <2>5. diverged' \subseteq Alerts
      BY <1>1, <1>3 DEF Commit, Shape, TypeOK
    <2>6. TypeOK'
      BY <1>1, <1>2, <1>3, <2>2, <2>4, <2>5, IdleIsRequest DEF TypeOK, Commit
    <2>7. QED
      BY <1>2, <2>2, <2>6, IdleIsRequest, ShapeKept DEF TypeInv
  <1>4. CASE Abort(r)
    <2>1. diverged' \subseteq Alerts
      BY <1>1, <1>4 DEF Abort, Shape, TypeOK
    <2>2. TypeOK' /\ \A a \in Alerts : Exists(a) => Exists(a)'
      BY <1>1, <1>2, <1>4, <2>1, IdleIsRequest DEF TypeOK, Abort, Exists
    <2>3. QED
      BY <1>2, <2>2, IdleIsRequest, ShapeKept DEF TypeInv
  <1>5. QED
    BY <1>3, <1>4

\* A step that leaves the requests alone keeps their shape if alerts survive it.
LEMMA ShapesUnmoved ==
    ASSUME TypeInv, UNCHANGED req, \A a \in Alerts : Exists(a) => Exists(a)'
    PROVE  \A r \in Requests : Shape(req[r])'
  BY DEF TypeInv, Shape

\* A row that an operator is taken out of stays as it was otherwise.
LEMMA WithoutOperatorIs ==
    ASSUME NEW row \in AlertRow, NEW o \in Operators
    PROVE  LET new == WithoutOperator(row, o) IN
           /\ new \in AlertRow
           /\ new.owner = row.owner /\ new.status = row.status /\ new.resolved = row.resolved
           /\ new.assigned = IF row.assigned = o THEN None ELSE row.assigned
           /\ new.resolver = IF row.resolver = o THEN None ELSE row.resolver
  BY DEF WithoutOperator, AlertRow

LEMMA AroundTypeInv ==
    ASSUME TypeInv,
           \/ \E u \in Users : DeleteMobileUser(u)
           \/ \E o \in Operators : DeleteOperator(o)
           \/ \E a \in Alerts : CacheExpire(a)
           \/ \E k \in tasks : RunTask(k) \/ RetryTask(k)
           \/ UNCHANGED vars
    PROVE  TypeInv'
  <1>1. TypeOK
    BY DEF TypeInv
  <1>2. ASSUME NEW u \in Users, DeleteMobileUser(u) PROVE TypeInv'
    <2>1. \A a \in Alerts : Exists(a) => [alerts[a] EXCEPT !.owner = None] \in AlertRow
      BY <1>1 DEF TypeOK, Exists, AlertRow
    <2>2. alerts' \in [Alerts -> AlertRow \cup {None}] /\ \A a \in Alerts : Exists(a) => Exists(a)'
      BY <1>1, <1>2, <2>1, RowIsNotNone DEF TypeOK, DeleteMobileUser, Exists
    <2>3. TypeOK'
      BY <1>1, <1>2, <2>2 DEF TypeOK, DeleteMobileUser
    <2>4. QED
      BY <1>2, <2>2, <2>3, ShapesUnmoved DEF TypeInv, DeleteMobileUser
  <1>3. ASSUME NEW a \in Alerts, CacheExpire(a) PROVE TypeInv'
    BY <1>1, <1>3, ShapesUnmoved DEF TypeInv, TypeOK, CacheExpire, Exists
  <1>4. ASSUME NEW k \in tasks, RunTask(k) \/ RetryTask(k) PROVE TypeInv'
    <2>1. tasks' \subseteq Task
      BY <1>1, <1>4, SosAssumption DEF TypeOK, RunTask, RetryTask, Task
    <2>2. QED
      BY <1>1, <1>4, <2>1, ShapesUnmoved DEF TypeInv, TypeOK, RunTask, RetryTask, Exists
  <1>5. ASSUME UNCHANGED vars PROVE TypeInv'
    BY <1>1, <1>5, ShapesUnmoved DEF TypeInv, TypeOK, vars, Exists
  <1>6. ASSUME NEW o \in Operators, DeleteOperator(o) PROVE TypeInv'
    <2>1. \A a \in Alerts : Exists(a) => WithoutOperator(alerts[a], o) \in AlertRow
      BY <1>1, WithoutOperatorIs DEF TypeOK, Exists
    <2>2. alerts' \in [Alerts -> AlertRow \cup {None}] /\ \A a \in Alerts : Exists(a) => Exists(a)'
      BY <1>1, <1>6, <2>1, RowIsNotNone DEF TypeOK, DeleteOperator, Exists
    <2>3. TypeOK'
      BY <1>1, <1>6, <2>2 DEF TypeOK, DeleteOperator
    <2>4. QED
      BY <1>6, <2>2, <2>3, ShapesUnmoved DEF TypeInv, DeleteOperator
  <1>7. QED
    BY <1>2, <1>3, <1>4, <1>5, <1>6

LEMMA InitTypeInv == Init => TypeInv
  BY InitTypeOK, IdleIsRequest DEF TypeInv, Init

LEMMA NextTypeInv == TypeInv /\ [Next]_vars => TypeInv'
  BY BeginTypeInv, EffectTypeInv, EndTypeInv, AroundTypeInv DEF Next, Step

\* The variables keep their types, whatever requests, workers and deletions do:
\* in particular no handler uses an alert it has not got.
THEOREM SosTypeCorrect == Spec => []TypeOK
  <1>1. TypeInv => TypeOK
    BY DEF TypeInv
  <1>2. QED
    BY InitTypeInv, NextTypeInv, <1>1, PTL DEF Spec

-----------------------------------------------------------------------------
(* Every visible alert was announced                                       *)

\* NoUnannouncedAlert is not inductive: a commit makes an alert visible, so the
\* request that is about to commit it must have queued its task already.
AnnouncedInv ==
    /\ NoUnannouncedAlert
    /\ \A r \in Requests : req[r].op = "trigger" /\ req[r].pc = "commit" => req[r].alert \in fanned

LEMMA NextAnnounced ==
    ASSUME TypeInv, AnnouncedInv, [Next]_vars
    PROVE  AnnouncedInv'
  <1>0. /\ req \in [Requests -> Request] /\ \A r \in Requests : Shape(req[r])
    BY DEF TypeInv, TypeOK
  <1>1. ASSUME NEW r \in Requests, Begin(r) PROVE AnnouncedInv'
    <2>1. PICK x : req' = [req EXCEPT ![r] = x] /\ ~(x.op = "trigger" /\ x.pc = "commit")
      BY <1>1, BeginStarted DEF TypeInv, Started
    <2>2. UNCHANGED <<alerts, fanned>>
      BY <1>1, BeginStarted DEF TypeInv, Stores
    <2>3. QED
      BY <1>0, <2>1, <2>2 DEF AnnouncedInv, NoUnannouncedAlert, Exists
  <1>2. ASSUME NEW r \in Requests, QueueCenters(r) PROVE AnnouncedInv'
    <2>1. \A p \in Requests : p # r => req'[p] = req[p]
      BY <1>0, <1>2 DEF QueueCenters, Goto
    <2>2. req'[r].alert \in fanned'
      BY <1>0, <1>2 DEF QueueCenters, Goto, Request
    <2>3. QED
      BY <1>0, <1>2, <2>1, <2>2 DEF QueueCenters, AnnouncedInv, NoUnannouncedAlert, Exists
  <1>3. ASSUME NEW r \in Requests,
               \/ TriggerInsert(r) \/ CacheNewAlert(r) \/ QueueContacts(r)
               \/ UpdateRow(r) \/ CacheStatus(r) \/ RefetchMonitor(r)
        PROVE  AnnouncedInv'
    <2>1. \A p \in Requests : p # r => req'[p] = req[p]
      BY <1>0, <1>3 DEF TriggerInsert, CacheNewAlert, QueueContacts, UpdateRow, CacheStatus,
                        RefetchMonitor, Goto
    <2>2. ~(req'[r].op = "trigger" /\ req'[r].pc = "commit")
      <3>0. req[r] \in Request /\ Shape(req[r])
        BY <1>0
      <3>1. CASE TriggerInsert(r)
        <4>1. PICK a : req' = [req EXCEPT ![r].alert = a, ![r].pc = "cache"]
          BY <3>1 DEF TriggerInsert
        <4>2. req'[r].pc = "cache"
          BY <1>0, <3>0, <4>1 DEF Request
        <4>3. QED
          BY <4>2
      <3>2. CASE CacheNewAlert(r) \/ QueueContacts(r) \/ UpdateRow(r)
        <4>1. \E pc \in {"contacts", "centers", "cache", "refetch"} : Goto(r, pc)
          BY <3>2 DEF CacheNewAlert, QueueContacts, UpdateRow
        <4>2. req'[r].pc # "commit"
          BY <1>0, <3>0, <4>1 DEF Goto, Request
        <4>3. QED
          BY <4>2
      <3>3. CASE CacheStatus(r)
        BY <1>0, <3>0, <3>3 DEF CacheStatus, Goto, Request
      <3>4. CASE RefetchMonitor(r)
        <4>1. req[r].op = "operator"
          BY <3>0, <3>4 DEF RefetchMonitor, Shape
        <4>2. req'[r].op = req[r].op
          BY <1>0, <3>0, <3>4 DEF RefetchMonitor, Request
        <4>3. QED
          BY <4>1, <4>2
      <3>5. QED
        BY <1>3, <3>1, <3>2, <3>3, <3>4
    <2>3. UNCHANGED <<alerts, fanned>>
      BY <1>3 DEF TriggerInsert, CacheNewAlert, QueueContacts, UpdateRow, CacheStatus,
                  RefetchMonitor
    <2>4. QED
      BY <2>1, <2>2, <2>3 DEF AnnouncedInv, NoUnannouncedAlert, Exists
  <1>4. ASSUME NEW r \in Requests, Commit(r) PROVE AnnouncedInv'
    <2>1. \A p \in Requests : req'[p] = IF p = r THEN Idle ELSE req[p]
      BY <1>0, <1>4 DEF Commit
    <2>2. alerts' = CommittedRows(r) /\ fanned' = fanned /\ req[r].pc = "commit"
      BY <1>4 DEF Commit
    <2>3. \A a \in Alerts : alerts'[a] # None => a \in fanned
      <3>1. CASE req[r].op = "trigger"
        <4>1. req[r].alert \in fanned
          BY <2>2, <3>1 DEF AnnouncedInv
        <4>2. \A a \in Alerts : a # req[r].alert => alerts'[a] = alerts[a]
          BY <2>2, <3>1, CommittedRowsTyped DEF TypeInv, TypeOK
        <4>3. QED
          BY <4>1, <4>2 DEF AnnouncedInv, NoUnannouncedAlert, Exists
      <3>2. CASE req[r].op # "trigger"
        BY <2>2, <3>2, CommittedRowsTyped DEF AnnouncedInv, NoUnannouncedAlert, Exists
      <3>3. QED
        BY <3>1, <3>2
    <2>4. Idle.op # "trigger"
      BY DEF Idle
    <2>5. QED
      BY <2>1, <2>2, <2>3, <2>4 DEF AnnouncedInv, NoUnannouncedAlert, Exists
  <1>5. ASSUME NEW r \in Requests, Abort(r) PROVE AnnouncedInv'
    <2>1. \A p \in Requests : req'[p] = IF p = r THEN Idle ELSE req[p]
      BY <1>0, <1>5 DEF Abort
    <2>2. QED
      BY <1>5, <2>1 DEF Abort, Idle, AnnouncedInv, NoUnannouncedAlert, Exists
  <1>6. ASSUME NEW u \in Users, DeleteMobileUser(u) PROVE AnnouncedInv'
    BY <1>6 DEF DeleteMobileUser, AnnouncedInv, NoUnannouncedAlert, Exists
  <1>7. ASSUME NEW a \in Alerts, CacheExpire(a) PROVE AnnouncedInv'
    BY <1>7 DEF CacheExpire, AnnouncedInv, NoUnannouncedAlert, Exists
  <1>8. ASSUME NEW k \in tasks, RunTask(k) \/ RetryTask(k) PROVE AnnouncedInv'
    BY <1>8 DEF RunTask, RetryTask, AnnouncedInv, NoUnannouncedAlert, Exists
  <1>9. ASSUME UNCHANGED vars PROVE AnnouncedInv'
    BY <1>9 DEF vars, AnnouncedInv, NoUnannouncedAlert, Exists
  <1>10. ASSUME NEW o \in Operators, DeleteOperator(o) PROVE AnnouncedInv'
    BY <1>10 DEF DeleteOperator, AnnouncedInv, NoUnannouncedAlert, Exists
  <1>11. QED
    BY <1>1, <1>2, <1>3, <1>4, <1>5, <1>6, <1>7, <1>8, <1>9, <1>10 DEF Next, Step

\* No crash, failed commit or interleaving makes an alert visible whose
\* support-centre notification was never queued.
THEOREM SosNoUnannouncedAlert == Spec => []NoUnannouncedAlert
  <1>1. Init => AnnouncedInv
    BY DEF Init, AnnouncedInv, NoUnannouncedAlert, Exists, Idle
  <1>2. AnnouncedInv => NoUnannouncedAlert
    BY DEF AnnouncedInv
  <1>3. TypeInv /\ AnnouncedInv /\ [Next]_vars => AnnouncedInv'
    BY NextAnnounced
  <1>4. QED
    BY InitTypeInv, NextTypeInv, <1>1, <1>2, <1>3, PTL DEF Spec

=============================================================================
