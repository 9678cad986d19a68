-------------------------- MODULE SosLedgerProofs --------------------------
(***************************************************************************)
(* Theorems about SosAlerts that take what requests know of each other:    *)
(* the cache entry follows the row, alerts name operators who exist, the   *)
(* recent positions are kept, the requests implement AlertLedger and end.  *)
(***************************************************************************)
EXTENDS SosAlertsProofs, FiniteSetTheorems, WellFoundedInduction, NaturalsInduction

-----------------------------------------------------------------------------
(* Steps of a request                                                      *)

\* What a request can be after its first step.
Opened(x) ==
    /\ x.by # None => x.op = "operator" /\ x.pc = "update"
    /\ \/ x.op = "trigger" /\ x.pc = "insert" /\ x.drop = {} /\ x.add = {}
       \/ x.op \in {"user", "operator"} /\ x.pc = "update" /\ x.drop = {} /\ x.add = {}
       \/ x.op = "ping" /\ x.drop = {} /\ x.alert \in Alerts /\ Exists(x.alert)
       \/ /\ x.op = "read" /\ x.add = {}
          /\ \E S \in SUBSET Alerts, limit \in {HistoryLimit, MonitorLimit} :
               x.drop = UNION {BeyondLimit(a, limit) : a \in S}

LEMMA BeginOpens ==
    ASSUME NEW r \in Requests, Begin(r)
    PROVE  \E x : req' = [req EXCEPT ![r] = x] /\ Opened(x)
  <1> DEFINE P == \E x : req' = [req EXCEPT ![r] = x] /\ Opened(x)
  <1>1. ASSUME NEW u \in Users, TriggerLookup(r, u) PROVE P
    <2>1. Opened([Idle EXCEPT !.op = "trigger", !.pc = "insert", !.user = u])
      BY DEF Opened, Idle
    <2>2. ASSUME NEW a \in Alerts, NEW t \in Times, OpenAlertsOf(u) = {a}
          PROVE  Opened([Idle EXCEPT !.op = "ping", !.pc = "commit", !.user = u,
                                     !.alert = a, !.add = {t}])
      <3>1. Exists(a)
        BY <2>2 DEF OpenAlertsOf
      <3>2. QED
        BY <3>1 DEF Opened, Idle
    <2>3. CASE \E a \in Alerts, t \in Times :
                 /\ OpenAlertsOf(u) = {a}
                 /\ req' = [req EXCEPT ![r] = [Idle EXCEPT !.op = "ping", !.pc = "commit",
                              !.user = u, !.alert = a, !.add = {t}]]
      BY ONLY <2>3, <2>2
    <2>4. CASE req' = [req EXCEPT ![r] = [Idle EXCEPT !.op = "trigger", !.pc = "insert",
                                                      !.user = u]]
      BY ONLY <2>4, <2>1
    <2>5. QED
      BY ONLY <1>1, <2>3, <2>4 DEF TriggerLookup
  <1>2. ASSUME NEW a \in Alerts, NEW t \in Times, UpdateLocation(r, a, t) PROVE P
    <2>1. Opened([Idle EXCEPT !.op = "ping", !.pc = "commit", !.alert = a,
                              !.user = alerts[a].owner, !.add = {t}])
      BY <1>2 DEF UpdateLocation, Opened, Idle
    <2>2. QED
      BY ONLY <1>2, <2>1 DEF UpdateLocation
  <1>3. ASSUME NEW a \in Alerts, NEW T \in SUBSET Times, ProcessOfflineLocations(r, a, T) PROVE P
    <2>1. Opened([Idle EXCEPT !.op = "ping", !.pc = "commit", !.alert = a, !.add = T])
      BY <1>3 DEF ProcessOfflineLocations, Opened, Idle
    <2>2. QED
      BY ONLY <1>3, <2>1 DEF ProcessOfflineLocations
  <1>4. ASSUME NEW u \in Users, NEW a \in Alerts, GetSosStatus(r, u, a) PROVE P
    <2> DEFINE x == [Idle EXCEPT !.op = "read", !.pc = "commit",
                                 !.drop = BeyondLimit(a, HistoryLimit)]
    <2>1. /\ x.op = "read" /\ x.add = {} /\ x.by = None
          /\ x.drop = UNION {BeyondLimit(b, HistoryLimit) : b \in {a}}
      BY DEF Idle
    <2>2. Opened(x)
      BY <2>1 DEF Opened
    <2>3. QED
      BY ONLY <1>4, <2>2 DEF GetSosStatus
  <1>5. ASSUME ListMonitorAlerts(r) PROVE P
    <2>1. ASSUME NEW S \in SUBSET Alerts
          PROVE  Opened([Idle EXCEPT !.op = "read", !.pc = "commit",
                           !.drop = UNION {BeyondLimit(a, MonitorLimit) : a \in S}])
      <3> DEFINE x == [Idle EXCEPT !.op = "read", !.pc = "commit",
                                   !.drop = UNION {BeyondLimit(a, MonitorLimit) : a \in S}]
      <3>1. /\ x.op = "read" /\ x.add = {} /\ x.by = None
            /\ x.drop = UNION {BeyondLimit(b, MonitorLimit) : b \in S}
        BY DEF Idle
      <3> HIDE DEF x
      <3>2. Opened(x)
        BY <3>1 DEF Opened
      <3>3. QED
        BY ONLY <3>2 DEF x
    <2>2. \A recent : Monitored(alerts, recent) \in SUBSET Alerts
      BY DEF Monitored
    <2>3. QED
      BY ONLY <1>5, <2>1, <2>2 DEF ListMonitorAlerts
  <1>6. ASSUME NEW u \in Users, NEW a \in Alerts, NEW s \in UserStatuses,
               UserUpdateLoad(r, u, a, s)
        PROVE  P
    <2>1. Opened([Idle EXCEPT !.op = "user", !.pc = "update",
                              !.alert = a, !.user = u, !.status = s])
      BY DEF Opened, Idle
    <2>2. QED
      BY ONLY <1>6, <2>1 DEF UserUpdateLoad
  <1>7. ASSUME NEW o \in Operators, NEW a \in Alerts, NEW s \in OperatorStatuses,
               OperatorUpdateLoad(r, o, a, s)
        PROVE  P
    <2>1. Opened([Idle EXCEPT !.op = "operator", !.pc = "update", !.alert = a, !.by = o,
                              !.status = s, !.user = alerts[a].owner])
      BY DEF Opened, Idle
    <2>2. QED
      BY ONLY <1>7, <2>1 DEF OperatorUpdateLoad
  <1>8. QED
    BY <1>1, <1>2, <1>3, <1>4, <1>5, <1>6, <1>7 DEF Begin

\* Request r moved to pc; alert and deletions as given, the rest as it was.
Moved(r, pc, a, D) ==
    /\ req'[r].op = req[r].op /\ req'[r].pc = pc /\ req'[r].alert = a
    /\ req'[r].status = req[r].status /\ req'[r].user = req[r].user /\ req'[r].by = req[r].by
    /\ req'[r].add = req[r].add /\ req'[r].drop = D
    /\ \A p \in Requests : p # r => req'[p] = req[p]

LEMMA GotoMoves ==
    ASSUME TypeOK, NEW r \in Requests, NEW pc, Goto(r, pc)
    PROVE  Moved(r, pc, req[r].alert, req[r].drop)
  BY DEF TypeOK, Goto, Moved, Request

LEMMA InsertMoves ==
    ASSUME TypeInv, NEW r \in Requests, TriggerInsert(r)
    PROVE  /\ req[r].op = "trigger"
           /\ \E a \in Alerts \ drawn : /\ drawn' = drawn \cup {a}
                                        /\ Moved(r, "cache", a, req[r].drop)
  <1>1. req[r] \in Request /\ Shape(req[r]) /\ req \in [Requests -> Request]
    BY DEF TypeInv, TypeOK
  <1>2. PICK a \in Alerts \ drawn : /\ drawn' = drawn \cup {a}
                                    /\ req' = [req EXCEPT ![r].alert = a, ![r].pc = "cache"]
    BY DEF TriggerInsert
  <1>3. Moved(r, "cache", a, req[r].drop)
    BY <1>1, <1>2 DEF Moved, Request
  <1>4. req[r].op = "trigger"
    BY <1>1 DEF TriggerInsert, Shape
  <1>5. QED
    BY <1>2, <1>3, <1>4

LEMMA RefetchMoves ==
    ASSUME TypeInv, NEW r \in Requests, RefetchMonitor(r)
    PROVE  \E S \in SUBSET Alerts :
             Moved(r, "commit", req[r].alert, UNION {BeyondLimit(b, MonitorLimit) : b \in S})
  <1>1. req[r] \in Request /\ Shape(req[r]) /\ req \in [Requests -> Request]
    BY DEF TypeInv, TypeOK
  <1>2. PICK S \in SUBSET Alerts :
          req' = [req EXCEPT ![r].pc = "commit",
                             ![r].drop = UNION {BeyondLimit(b, MonitorLimit) : b \in S}]
    <2>1. req[r].alert \in Alerts
      BY <1>1 DEF RefetchMonitor, Shape
    <2>2. \A row, recent : Monitored(row, recent) \cup {req[r].alert} \in SUBSET Alerts
      BY <2>1 DEF Monitored
    <2>3. QED
      BY <2>2 DEF RefetchMonitor
  <1> DEFINE D == UNION {BeyondLimit(b, MonitorLimit) : b \in S}
  <1>3. req' = [req EXCEPT ![r].pc = "commit", ![r].drop = D]
    BY <1>2
  <1> HIDE DEF D
  <1>4. Moved(r, "commit", req[r].alert, D)
    BY <1>1, <1>3 DEF Moved, Request
  <1>5. QED
    BY <1>4 DEF D

LEMMA EndMoves ==
    ASSUME TypeOK, NEW r \in Requests, Commit(r) \/ Abort(r)
    PROVE  req'[r] = Idle /\ \A p \in Requests : p # r => req'[p] = req[p]
  BY DEF TypeOK, Commit, Abort

-----------------------------------------------------------------------------
(* What requests know of each other                                        *)

\* A request that holds the row of its alert, and one whose alert is not
\* committed yet.
Locks(q) == q.op \in {"user", "operator"} /\ q.pc \in {"cache", "refetch", "commit"}
Fresh(q) == q.op = "trigger" /\ q.pc \in {"cache", "contacts", "centers", "commit"}

\* Rows have one holder, new alerts have one request and are nobody else's, only
\* reads and operators delete positions, and only pings add them.
OwnInv ==
    /\ \A r, p \in Requests :
         r # p /\ Locks(req[r]) /\ Locks(req[p]) => req[r].alert # req[p].alert
    /\ \A r, p \in Requests :
         r # p /\ Fresh(req[r]) /\ Fresh(req[p]) => req[r].alert # req[p].alert
    /\ \A r \in Requests : Fresh(req[r]) => req[r].alert \in drawn /\ ~Exists(req[r].alert)
    /\ \A a \in Alerts : Exists(a) => a \in drawn
    /\ \A r \in Requests :
         req[r].op = "ping" => req[r].alert \in Alerts /\ Exists(req[r].alert)
    /\ \A r \in Requests : req[r].op \in {"ping", "trigger", "user"} => req[r].drop = {}
    /\ \A r \in Requests : req[r].op # "ping" => req[r].add = {}

LEMMA BeginOwn ==
    ASSUME TypeInv, OwnInv, NEW r \in Requests, Begin(r)
    PROVE  OwnInv'
  <1>1. PICK x : req' = [req EXCEPT ![r] = x] /\ Opened(x)
    BY BeginOpens
  <1>2. UNCHANGED Stores
    BY BeginStarted DEF TypeInv
  <1>3. /\ ~Locks(x) /\ ~Fresh(x)
        /\ x.op = "ping" => x.alert \in Alerts /\ Exists(x.alert)
        /\ x.op \in {"ping", "trigger", "user"} => x.drop = {}
        /\ x.op # "ping" => x.add = {}
    BY <1>1 DEF Opened, Locks, Fresh
  <1>4. \A p \in Requests : req'[p] = IF p = r THEN x ELSE req[p]
    BY <1>1 DEF TypeInv, TypeOK
  <1>5. QED
    BY <1>2, <1>3, <1>4 DEF OwnInv, Stores, Exists, Locks, Fresh

\* A request that moves on with the alert it had.
LEMMA MovedOwn ==
    ASSUME OwnInv, NEW r \in Requests, NEW pc, NEW D,
           Moved(r, pc, req[r].alert, D), UNCHANGED <<alerts, drawn>>,
           req[r].op \in {"ping", "trigger", "user"} => D = {},
           Fresh(req[r]') => Fresh(req[r]),
           Locks(req[r]') => \A p \in Requests :
                               p # r /\ Locks(req[p]) => req[p].alert # req[r].alert
    PROVE  OwnInv'
  <1> DEFINE q == req[r]'
  <1>1. /\ q.op = req[r].op /\ q.alert = req[r].alert /\ q.drop = D /\ q.add = req[r].add
        /\ \A p \in Requests : req'[p] = IF p = r THEN q ELSE req[p]
        /\ alerts' = alerts /\ drawn' = drawn
    BY DEF Moved
  <1> HIDE DEF q
  <1>2. /\ Fresh(q) => Fresh(req[r])
        /\ Locks(q) => \A p \in Requests : p # r /\ Locks(req[p]) => req[p].alert # req[r].alert
    BY DEF q
  <1>3. \A s, p \in Requests :
          s # p /\ Locks(req'[s]) /\ Locks(req'[p]) => req'[s].alert # req'[p].alert
    BY <1>1, <1>2 DEF OwnInv
  <1>4. \A s, p \in Requests :
          s # p /\ Fresh(req'[s]) /\ Fresh(req'[p]) => req'[s].alert # req'[p].alert
    BY <1>1, <1>2 DEF OwnInv
  <1>5. \A s \in Requests : Fresh(req'[s]) => req'[s].alert \in drawn /\ ~Exists(req'[s].alert)
    BY <1>1, <1>2 DEF OwnInv
  <1>6. \A s \in Requests :
          /\ req'[s].op = "ping" => req'[s].alert \in Alerts /\ Exists(req'[s].alert)
          /\ req'[s].op \in {"ping", "trigger", "user"} => req'[s].drop = {}
          /\ req'[s].op # "ping" => req'[s].add = {}
    BY <1>1 DEF OwnInv
  <1>7. QED
    BY <1>1, <1>3, <1>4, <1>5, <1>6 DEF OwnInv, Exists, Locks, Fresh

LEMMA EffectOwn ==
    ASSUME TypeInv, OwnInv, NEW r \in Requests,
           \/ TriggerInsert(r) \/ CacheNewAlert(r) \/ QueueContacts(r) \/ QueueCenters(r)
           \/ UpdateRow(r) \/ CacheStatus(r) \/ RefetchMonitor(r)
    PROVE  OwnInv'
  <1>0. Shape(req[r]) /\ TypeOK
    BY DEF TypeInv
  <1>1. CASE TriggerInsert(r)
    <2>1. PICK a \in Alerts \ drawn : drawn' = drawn \cup {a} /\ Moved(r, "cache", a, req[r].drop)
      BY <1>1, InsertMoves
    <2>2. req[r].op = "trigger" /\ alerts' = alerts
      BY <1>1, InsertMoves DEF TriggerInsert
    <2> DEFINE q == req[r]'
    <2>3. /\ q.op = "trigger" /\ q.alert = a /\ q.drop = {} /\ q.add = {} /\ ~Locks(q)
          /\ \A p \in Requests : req'[p] = IF p = r THEN q ELSE req[p]
      BY <2>1, <2>2 DEF Moved, OwnInv, Locks
    <2> HIDE DEF q
    <2>4. a \notin drawn /\ ~Exists(a)
      BY DEF OwnInv
    <2>5. \A s, p \in Requests :
            s # p /\ Locks(req'[s]) /\ Locks(req'[p]) => req'[s].alert # req'[p].alert
      BY <2>3 DEF OwnInv
    <2>6. \A s, p \in Requests :
            s # p /\ Fresh(req'[s]) /\ Fresh(req'[p]) => req'[s].alert # req'[p].alert
      BY <2>3, <2>4 DEF OwnInv
    <2>7. \A s \in Requests : Fresh(req'[s]) => req'[s].alert \in drawn' /\ ~Exists(req'[s].alert)
      BY <2>1, <2>3, <2>4 DEF OwnInv
    <2>8. \A s \in Requests :
            /\ req'[s].op = "ping" => req'[s].alert \in Alerts /\ Exists(req'[s].alert)
            /\ req'[s].op \in {"ping", "trigger", "user"} => req'[s].drop = {}
            /\ req'[s].op # "ping" => req'[s].add = {}
      BY <2>3 DEF OwnInv
    <2>9. QED
      BY <2>1, <2>2, <2>5, <2>6, <2>7, <2>8 DEF OwnInv, Exists, Locks, Fresh
  <1>2. CASE CacheNewAlert(r) \/ QueueContacts(r) \/ QueueCenters(r)
    <2>1. PICK pc \in {"contacts", "centers", "commit"} : Goto(r, pc)
      BY <1>2 DEF CacheNewAlert, QueueContacts, QueueCenters
    <2>2. Fresh(req[r]) /\ UNCHANGED <<alerts, drawn>>
      BY <1>0, <1>2 DEF CacheNewAlert, QueueContacts, QueueCenters, Shape, Fresh
    <2>3. Moved(r, pc, req[r].alert, req[r].drop)
      BY <1>0, <2>1, GotoMoves
    <2>4. ~Locks(req[r]') /\ req[r].drop = {}
      BY <2>2, <2>3 DEF Moved, Locks, Fresh, OwnInv
    <2>5. QED
      BY <2>2, <2>3, <2>4, MovedOwn
  <1>3. CASE UpdateRow(r)
    <2>1. PICK pc \in {"cache", "refetch"} : Goto(r, pc)
      BY <1>3 DEF UpdateRow
    <2>2. req[r].op \in {"user", "operator"} /\ UNCHANGED <<alerts, drawn>>
      BY <1>0, <1>3 DEF UpdateRow, Shape
    <2>3. Moved(r, pc, req[r].alert, req[r].drop)
      BY <1>0, <2>1, GotoMoves
    <2>4. \A p \in Requests : p # r /\ Locks(req[p]) => req[p].alert # req[r].alert
      BY <1>3 DEF UpdateRow, RowLocked, Locks
    <2>5. ~Fresh(req[r]') /\ (req[r].op = "user" => req[r].drop = {})
      BY <2>2, <2>3 DEF Moved, Fresh, OwnInv
    <2>6. QED
      BY <2>2, <2>3, <2>4, <2>5, MovedOwn
  <1>4. CASE CacheStatus(r)
    <2>1. Moved(r, "commit", req[r].alert, req[r].drop) /\ UNCHANGED <<alerts, drawn>>
      BY <1>0, <1>4, GotoMoves DEF CacheStatus
    <2>2. Locks(req[r]) /\ ~Fresh(req[r]') /\ req[r].drop = {}
      BY <1>4, <2>1 DEF CacheStatus, Locks, Fresh, Moved, OwnInv
    <2>3. \A p \in Requests : p # r /\ Locks(req[p]) => req[p].alert # req[r].alert
      BY <2>2 DEF OwnInv
    <2>4. QED
      BY <2>1, <2>2, <2>3, MovedOwn
  <1>5. CASE RefetchMonitor(r)
    <2>1. PICK D : Moved(r, "commit", req[r].alert, D)
      BY <1>5, RefetchMoves
    <2>2. Locks(req[r]) /\ req[r].op = "operator" /\ UNCHANGED <<alerts, drawn>>
      BY <1>0, <1>5 DEF RefetchMonitor, Shape, Locks
    <2>3. ~Fresh(req[r]') /\ req[r].op \notin {"ping", "trigger", "user"}
      BY <2>1, <2>2 DEF Moved, Fresh
    <2>4. \A p \in Requests : p # r /\ Locks(req[p]) => req[p].alert # req[r].alert
      BY <2>2 DEF OwnInv
    <2>5. QED
      BY <2>1, <2>2, <2>3, <2>4, MovedOwn
  <1>6. QED
    BY <1>1, <1>2, <1>3, <1>4, <1>5

\* A commit makes its own new alert visible and hides none.
LEMMA CommitExists ==
    ASSUME TypeInv, NEW r \in Requests, Commit(r)
    PROVE  /\ \A a \in Alerts : Exists(a) => Exists(a)'
           /\ \A a \in Alerts : Exists(a)' /\ ~Exists(a) => Fresh(req[r]) /\ a = req[r].alert
  <1>1. req[r].pc = "commit" /\ alerts' = CommittedRows(r)
    BY DEF Commit
  <1>2. \A a \in Alerts : Exists(a) => Exists(a)'
    BY <1>1, CommittedRowsTyped DEF Exists
  <1>3. ASSUME NEW a \in Alerts, Exists(a)', ~Exists(a)
        PROVE  Fresh(req[r]) /\ a = req[r].alert
    <2>1. req[r].op = "trigger"
      BY <1>1, <1>3, CommittedRowsTyped DEF Exists
    <2>2. CommittedRows(r) = [alerts EXCEPT ![req[r].alert] = NewAlert(req[r].user)]
      BY <1>1, <2>1, CommittedRowsTyped
    <2>3. QED
      BY <1>1, <1>3, <2>1, <2>2 DEF Fresh, Exists, TypeInv, TypeOK
  <1>4. QED
    BY <1>2, <1>3

LEMMA EndOwn ==
    ASSUME TypeInv, OwnInv, NEW r \in Requests, Commit(r) \/ Abort(r)
    PROVE  OwnInv'
  <1>1. req'[r] = Idle /\ (\A p \in Requests : p # r => req'[p] = req[p]) /\ drawn' = drawn
    BY EndMoves DEF TypeInv, Commit, Abort
  <1>2. ~Locks(Idle) /\ ~Fresh(Idle) /\ Idle.op = "none" /\ Idle.add = {}
    BY DEF Idle, Locks, Fresh
  <1>3. /\ \A a \in Alerts : Exists(a) => Exists(a)'
        /\ \A a \in Alerts : Exists(a)' /\ ~Exists(a) => Fresh(req[r]) /\ a = req[r].alert
    BY CommitExists DEF Abort, Exists
  <1>4. \A s, p \in Requests :
          s # p /\ Locks(req'[s]) /\ Locks(req'[p]) => req'[s].alert # req'[p].alert
    BY <1>1, <1>2 DEF OwnInv
  <1>5. \A s, p \in Requests :
          s # p /\ Fresh(req'[s]) /\ Fresh(req'[p]) => req'[s].alert # req'[p].alert
    BY <1>1, <1>2 DEF OwnInv
  <1>6. ASSUME NEW s \in Requests, Fresh(req'[s])
        PROVE  req'[s].alert \in drawn' /\ alerts'[req'[s].alert] = None
    <2>1. s # r /\ req'[s] = req[s]
      BY <1>1, <1>2, <1>6
    <2>2. req[s].alert \in drawn /\ ~Exists(req[s].alert) /\ req[s].alert \in Alerts
      BY <1>6, <2>1 DEF OwnInv, TypeInv, TypeOK
    <2>3. Fresh(req[r]) => req[s].alert # req[r].alert
      BY <1>6, <2>1 DEF OwnInv
    <2>4. QED
      BY <1>1, <1>3, <2>1, <2>2, <2>3 DEF Exists
  <1>7. \A a \in Alerts : Exists(a)' => a \in drawn'
    BY <1>1, <1>3 DEF OwnInv
  <1>8. \A s \in Requests :
          /\ req'[s].op = "ping" => req'[s].alert \in Alerts /\ alerts'[req'[s].alert] # None
          /\ req'[s].op \in {"ping", "trigger", "user"} => req'[s].drop = {}
          /\ req'[s].op # "ping" => req'[s].add = {}
    BY <1>1, <1>2, <1>3 DEF OwnInv, Exists
  <1>9. QED
    BY <1>4, <1>5, <1>6, <1>7, <1>8 DEF OwnInv, Exists, Locks, Fresh

\* Steps that are no request's keep the set of alerts.
LEMMA AroundStays ==
    ASSUME TypeInv,
           \/ \E u \in Users : DeleteMobileUser(u)
           \/ \E o \in Operators : DeleteOperator(o)
           \/ \E a \in Alerts : CacheExpire(a)
           \/ \E k \in tasks : RunTask(k) \/ RetryTask(k)
           \/ UNCHANGED vars
    PROVE  /\ UNCHANGED <<req, drawn, pings, sent, diverged>>
           /\ \A a \in Alerts : Exists(a)' <=> Exists(a)
           /\ \A a \in Alerts : Exists(a) => alerts'[a].status = alerts[a].status
           /\ \A a \in Alerts : cache'[a] \in {None, cache[a]}
  <1>1. ASSUME NEW u \in Users, DeleteMobileUser(u)
        PROVE  /\ UNCHANGED <<req, drawn, pings, sent, diverged, cache>>
               /\ \A a \in Alerts : Exists(a)' <=> Exists(a)
               /\ \A a \in Alerts : Exists(a) => alerts'[a].status = alerts[a].status
    <2>1. \A a \in Alerts : Exists(a) =>
            /\ alerts[a] \in AlertRow
            /\ [alerts[a] EXCEPT !.owner = None] \in AlertRow
            /\ [alerts[a] EXCEPT !.owner = None].status = alerts[a].status
      BY DEF TypeInv, TypeOK, Exists, AlertRow
    <2>2. \A a \in Alerts : alerts'[a] = IF Exists(a) /\ alerts[a].owner = u
                                         THEN [alerts[a] EXCEPT !.owner = None] ELSE alerts[a]
      BY <1>1 DEF DeleteMobileUser
    <2>3. UNCHANGED <<req, drawn, pings, sent, diverged, cache>>
      BY <1>1 DEF DeleteMobileUser
    <2>4. QED
      BY <2>1, <2>2, <2>3, RowIsNotNone DEF Exists
  <1>2. ASSUME NEW a \in Alerts, CacheExpire(a)
        PROVE  /\ UNCHANGED <<req, drawn, pings, sent, diverged, alerts>>
               /\ \A b \in Alerts : cache'[b] \in {None, cache[b]}
    BY <1>2 DEF CacheExpire, TypeInv, TypeOK
  <1>3. ASSUME \/ \E k \in tasks : RunTask(k) \/ RetryTask(k)
               \/ UNCHANGED vars
        PROVE  UNCHANGED <<req, drawn, pings, sent, diverged, alerts, cache>>
    BY <1>3 DEF RunTask, RetryTask, vars
  <1>4. ASSUME NEW o \in Operators, DeleteOperator(o)
        PROVE  /\ UNCHANGED <<req, drawn, pings, sent, diverged, cache>>
               /\ \A a \in Alerts : Exists(a)' <=> Exists(a)
               /\ \A a \in Alerts : Exists(a) => alerts'[a].status = alerts[a].status
    <2>1. \A a \in Alerts : Exists(a) => /\ WithoutOperator(alerts[a], o) # None
                                         /\ WithoutOperator(alerts[a], o).status = alerts[a].status
      BY WithoutOperatorIs, RowIsNotNone DEF TypeInv, TypeOK, Exists
    <2>2. \A a \in Alerts : alerts'[a] = IF Exists(a) THEN WithoutOperator(alerts[a], o) ELSE None
      BY <1>4 DEF DeleteOperator
    <2>3. UNCHANGED <<req, drawn, pings, sent, diverged, cache>>
      BY <1>4 DEF DeleteOperator
    <2>4. QED
      BY <2>1, <2>2, <2>3 DEF Exists
  <1>5. cache' = cache => \A a \in Alerts : cache'[a] \in {None, cache[a]}
    OBVIOUS
  <1>6. QED
    BY <1>1, <1>2, <1>3, <1>4, <1>5 DEF Exists

LEMMA NextOwn == TypeInv /\ OwnInv /\ [Next]_vars => OwnInv'
  <1> SUFFICES ASSUME TypeInv, OwnInv, [Next]_vars PROVE OwnInv'
    OBVIOUS
  <1>1. ASSUME \/ \E u \in Users : DeleteMobileUser(u)
               \/ \E o \in Operators : DeleteOperator(o)
               \/ \E a \in Alerts : CacheExpire(a)
               \/ \E k \in tasks : RunTask(k) \/ RetryTask(k)
               \/ UNCHANGED vars
        PROVE  OwnInv'
    <2>1. /\ UNCHANGED <<req, drawn>>
          /\ \A a \in Alerts : alerts'[a] # None <=> alerts[a] # None
      BY <1>1, AroundStays DEF Exists
    <2>2. \A r \in Requests : Fresh(req[r]) => req[r].alert \in Alerts
      BY DEF OwnInv, TypeInv, TypeOK
    <2>3. QED
      BY <2>1, <2>2 DEF OwnInv, Exists, Locks, Fresh
  <1>2. QED
    BY <1>1, BeginOwn, EffectOwn, EndOwn DEF Next, Step

LEMMA InitOwn == Init => OwnInv
  BY DEF Init, OwnInv, Idle, Locks, Fresh, Exists

-----------------------------------------------------------------------------
(* The cache entry follows the row                                         *)

Writes(q) == q.op = "user" /\ q.pc = "commit"

\* CacheFollowsRow is not inductive: a commit changes the row, so the entry must
\* say beforehand what the request that is about to commit will write.
CacheInv ==
    /\ CacheFollowsRow
    /\ \A r \in Requests :
         Fresh(req[r]) /\ req[r].pc # "cache" => cache[req[r].alert] \in {None, "active"}
    /\ \A r \in Requests : Writes(req[r]) => cache[req[r].alert] \in {None, req[r].status}

\* CacheFollowsRow of one alert, in terms of the entry, the row and the writers.
Follows(a, entry, row, div, q) ==
    \/ row = None \/ entry = None \/ a \in div
    \/ entry = row.status
    \/ \E r \in Requests : Writes(q[r]) /\ q[r].alert = a /\ q[r].status = entry

LEMMA FollowsIs ==
    /\ CacheFollowsRow <=> \A a \in Alerts : Follows(a, cache[a], alerts[a], diverged, req)
    /\ CacheFollowsRow' <=> \A a \in Alerts : Follows(a, cache'[a], alerts'[a], diverged', req')
  BY DEF CacheFollowsRow, Follows, Writes, Exists

\* The row that the request leaves.
LEMMA CommitWrites ==
    ASSUME TypeInv, NEW r \in Requests, Commit(r)
    PROVE  /\ \A a \in Alerts : a # req[r].alert => alerts'[a] = alerts[a]
           /\ req[r].op = "trigger" => alerts'[req[r].alert] = NewAlert(req[r].user)
           /\ req[r].op \in {"user", "operator"} =>
                /\ req[r].alert \in Alerts /\ Exists(req[r].alert)
                /\ alerts'[req[r].alert] =
                     StatusUpdate(alerts[req[r].alert], req[r].status, req[r].by)
           /\ req[r].op \in {"read", "ping"} => alerts' = alerts
           /\ req[r].op # "none"
  <1>1. Shape(req[r]) /\ req[r].pc = "commit" /\ alerts' = CommittedRows(r) /\ TypeOK
    BY DEF Commit, TypeInv
  <1>2. CASE req[r].op = "trigger"
    <2>1. alerts' = [alerts EXCEPT ![req[r].alert] = NewAlert(req[r].user)]
      BY <1>1, <1>2, CommittedRowsTyped
    <2>2. req[r].alert \in Alerts
      BY <1>1, <1>2 DEF Shape
    <2>3. QED
      BY <1>1, <1>2, <2>1, <2>2 DEF TypeOK
  <1>3. CASE req[r].op \in {"user", "operator"}
    <2>1. alerts' = [alerts EXCEPT ![req[r].alert] =
                       StatusUpdate(alerts[req[r].alert], req[r].status, req[r].by)]
      BY <1>1, <1>3 DEF CommittedRows
    <2>2. req[r].alert \in Alerts /\ Exists(req[r].alert)
      BY <1>1, <1>3 DEF Shape
    <2>3. QED
      BY <1>1, <1>3, <2>1, <2>2 DEF TypeOK
  <1>4. CASE req[r].op \in {"read", "ping"}
    BY <1>1, <1>4, CommittedRowsTyped
  <1>5. QED
    BY <1>1, <1>2, <1>3, <1>4 DEF Shape

LEMMA BeginIdle == ASSUME NEW r \in Requests, Begin(r) PROVE req[r] = Idle
  BY DEF Begin, TriggerLookup, UpdateLocation, ProcessOfflineLocations, GetSosStatus,
         ListMonitorAlerts, UserUpdateLoad, OperatorUpdateLoad

LEMMA BeginCache ==
    ASSUME TypeInv, CacheInv, NEW r \in Requests, Begin(r)
    PROVE  CacheInv'
  <1>1. PICK x : req' = [req EXCEPT ![r] = x] /\ Opened(x)
    BY BeginOpens
  <1>2. UNCHANGED <<alerts, cache, diverged>> /\ req[r] = Idle
    BY BeginStarted, BeginIdle DEF TypeInv, Stores
  <1>3. ~Fresh(x) /\ ~Writes(x) /\ ~Writes(req[r])
    BY <1>1, <1>2 DEF Opened, Fresh, Writes, Idle
  <1>4. \A p \in Requests : req'[p] = IF p = r THEN x ELSE req[p]
    BY <1>1 DEF TypeInv, TypeOK
  <1>5. \A a \in Alerts : Follows(a, cache'[a], alerts'[a], diverged', req')
    BY <1>2, <1>3, <1>4, FollowsIs DEF CacheInv, Follows
  <1>6. \A p \in Requests :
          Fresh(req'[p]) /\ req'[p].pc # "cache" => cache'[req'[p].alert] \in {None, "active"}
    BY <1>2, <1>3, <1>4 DEF CacheInv
  <1>7. \A p \in Requests : Writes(req'[p]) => cache'[req'[p].alert] \in {None, req'[p].status}
    BY <1>2, <1>3, <1>4 DEF CacheInv
  <1>8. QED
    BY <1>5, <1>6, <1>7, FollowsIs DEF CacheInv, Fresh, Writes

\* A request that moves on and leaves the entries alone.
LEMMA MovedCache ==
    ASSUME CacheInv, NEW r \in Requests, NEW pc, NEW b, NEW D, Moved(r, pc, b, D),
           UNCHANGED <<alerts, cache, diverged>>,
           ~Writes(req[r]), ~Writes(req[r]'),
           Fresh(req[r]') /\ pc # "cache" => Fresh(req[r]) /\ req[r].pc # "cache" /\ b = req[r].alert
    PROVE  CacheInv'
  <1> DEFINE q == req[r]'
  <1>1. /\ q.pc = pc /\ q.alert = b
        /\ \A p \in Requests : req'[p] = IF p = r THEN q ELSE req[p]
        /\ alerts' = alerts /\ cache' = cache /\ diverged' = diverged
    BY DEF Moved
  <1> HIDE DEF q
  <1>2. /\ ~Writes(q)
        /\ Fresh(q) /\ q.pc # "cache" =>
             Fresh(req[r]) /\ req[r].pc # "cache" /\ q.alert = req[r].alert
    BY <1>1 DEF q
  <1>5. \A a \in Alerts : Follows(a, cache'[a], alerts'[a], diverged', req')
    BY <1>1, <1>2, FollowsIs DEF CacheInv, Follows
  <1>6. \A p \in Requests :
          Fresh(req'[p]) /\ req'[p].pc # "cache" => cache'[req'[p].alert] \in {None, "active"}
    BY <1>1, <1>2 DEF CacheInv
  <1>7. \A p \in Requests : Writes(req'[p]) => cache'[req'[p].alert] \in {None, req'[p].status}
    BY <1>1, <1>2 DEF CacheInv
  <1>8. QED
    BY <1>5, <1>6, <1>7, FollowsIs DEF CacheInv, Fresh, Writes

LEMMA EffectCache ==
    ASSUME TypeInv, OwnInv, CacheInv, NEW r \in Requests,
           \/ TriggerInsert(r) \/ CacheNewAlert(r) \/ QueueContacts(r) \/ QueueCenters(r)
           \/ UpdateRow(r) \/ CacheStatus(r) \/ RefetchMonitor(r)
    PROVE  CacheInv'
  <1>0. /\ Shape(req[r]) /\ TypeOK
        /\ \A p \in Requests : Writes(req[p]) => req[p].alert \in Alerts /\ Exists(req[p].alert)
        /\ \A p \in Requests : Fresh(req[p]) => ~Exists(req[p].alert)
    BY DEF TypeInv, Shape, Writes, OwnInv
  <1>1. CASE TriggerInsert(r)
    <2>1. PICK a : Moved(r, "cache", a, req[r].drop)
      BY <1>1, InsertMoves
    <2>2. req[r].op = "trigger" /\ UNCHANGED <<alerts, cache, diverged>>
      BY <1>1, InsertMoves DEF TriggerInsert
    <2>3. ~Writes(req[r]) /\ ~Writes(req[r]')
      BY <2>1, <2>2 DEF Moved, Writes
    <2>4. QED
      BY <2>1, <2>2, <2>3, MovedCache
  <1>2. CASE QueueContacts(r) \/ QueueCenters(r)
    <2>1. PICK pc \in {"centers", "commit"} : Goto(r, pc)
      BY <1>2 DEF QueueContacts, QueueCenters
    <2>2. /\ Fresh(req[r]) /\ req[r].pc # "cache" /\ req[r].op = "trigger"
          /\ UNCHANGED <<alerts, cache, diverged>>
      BY <1>0, <1>2 DEF QueueContacts, QueueCenters, Shape, Fresh
    <2>3. Moved(r, pc, req[r].alert, req[r].drop)
      BY <1>0, <2>1, GotoMoves
    <2>4. ~Writes(req[r]) /\ ~Writes(req[r]')
      BY <2>2, <2>3 DEF Moved, Writes
    <2>5. QED
      BY <2>2, <2>3, <2>4, MovedCache
  <1>3. CASE UpdateRow(r)
    <2>1. PICK pc \in {"cache", "refetch"} : Goto(r, pc)
      BY <1>3 DEF UpdateRow
    <2>2. /\ req[r].op \in {"user", "operator"} /\ req[r].pc = "update"
          /\ UNCHANGED <<alerts, cache, diverged>>
      BY <1>0, <1>3 DEF UpdateRow, Shape
    <2>3. Moved(r, pc, req[r].alert, req[r].drop)
      BY <1>0, <2>1, GotoMoves
    <2>4. ~Writes(req[r]) /\ ~Writes(req[r]') /\ ~Fresh(req[r]')
      BY <2>1, <2>2, <2>3 DEF Moved, Writes, Fresh
    <2>5. QED
      BY <2>2, <2>3, <2>4, MovedCache
  <1>4. CASE RefetchMonitor(r)
    <2>1. PICK D : Moved(r, "commit", req[r].alert, D)
      BY <1>4, RefetchMoves
    <2>2. req[r].op = "operator" /\ UNCHANGED <<alerts, cache, diverged>>
      BY <1>0, <1>4 DEF RefetchMonitor, Shape
    <2>3. ~Writes(req[r]) /\ ~Writes(req[r]') /\ ~Fresh(req[r]')
      BY <2>1, <2>2 DEF Moved, Writes, Fresh
    <2>4. QED
      BY <2>1, <2>2, <2>3, MovedCache
  <1>5. CASE CacheNewAlert(r) \/ CacheStatus(r)
    <2> DEFINE b == req[r].alert
               v == IF req[r].op = "user" THEN req[r].status ELSE "active"
    <2>1. PICK pc \in {"contacts", "commit"} : Goto(r, pc)
      BY <1>5 DEF CacheNewAlert, CacheStatus
    <2>2. Moved(r, pc, b, req[r].drop)
      BY <1>0, <2>1, GotoMoves
    <2>3. /\ req[r].pc = "cache" /\ req[r].op \in {"trigger", "user"}
          /\ alerts' = alerts /\ cache' = [cache EXCEPT ![b] = v]
          /\ req[r].op = "trigger" => diverged' = diverged
          /\ req[r].op = "user" => diverged' = diverged \ {b}
      BY <1>5 DEF CacheNewAlert, CacheStatus
    <2>p. req'[r].pc = pc /\ (req[r].op = "user" => pc = "commit")
                          /\ (req[r].op = "trigger" => pc = "contacts")
      <3>1. CASE CacheNewAlert(r)
        <4>1. Moved(r, "contacts", b, req[r].drop) /\ req[r].op = "trigger"
          BY <1>0, <3>1, GotoMoves DEF CacheNewAlert
        <4>2. QED
          BY <2>2, <4>1 DEF Moved
      <3>2. CASE CacheStatus(r)
        <4>1. Moved(r, "commit", b, req[r].drop) /\ req[r].op = "user"
          BY <1>0, <3>2, GotoMoves DEF CacheStatus
        <4>2. QED
          BY <2>2, <4>1 DEF Moved
      <3>3. QED
        BY <1>5, <3>1, <3>2
    <2>4. b \in Alerts /\ (req[r].op = "trigger" => Fresh(req[r]) /\ ~Exists(b))
                       /\ (req[r].op = "user" => Locks(req[r]) /\ Exists(b))
      BY <1>0, <2>3 DEF Shape, Fresh, Locks
    <2>5. cache'[b] = v /\ \A a \in Alerts : a # b => cache'[a] = cache[a]
      <3> HIDE DEF v
      <3>1. QED
        BY <1>0, <2>3, <2>4 DEF TypeOK
    <2> DEFINE q == req[r]'
    <2>6. /\ q.op = req[r].op /\ q.alert = b /\ q.pc = pc /\ q.status = req[r].status
          /\ \A p \in Requests : req'[p] = IF p = r THEN q ELSE req[p]
      BY <2>2 DEF Moved
    <2> HIDE DEF q
    <2>7. ASSUME NEW a \in Alerts PROVE Follows(a, cache'[a], alerts'[a], diverged', req')
      <3>1. CASE a # b
        <4>1. Follows(a, cache[a], alerts[a], diverged, req)
          BY FollowsIs DEF CacheInv
        <4>2. (a \in diverged' <=> a \in diverged) /\ ~Writes(req[r])
          BY <2>3, <3>1 DEF Writes
        <4>3. QED
          BY <2>3, <2>5, <2>6, <3>1, <4>1, <4>2 DEF Follows
      <3>2. CASE a = b /\ req[r].op = "trigger"
        BY <2>3, <2>4, <3>2 DEF Follows, Exists
      <3>3. CASE a = b /\ req[r].op = "user"
        <4>1. Writes(req'[r]) /\ req'[r].alert = a /\ req'[r].status = cache'[a]
          BY <2>5, <2>6, <2>p, <3>3 DEF Writes, q
        <4>2. QED
          BY <4>1 DEF Follows
      <3>4. QED
        BY <2>3, <3>1, <3>2, <3>3
    <2>8. ASSUME NEW p \in Requests, Fresh(req'[p]), req'[p].pc # "cache"
          PROVE  cache'[req'[p].alert] \in {None, "active"}
      <3>1. CASE p = r
        BY <2>3, <2>5, <2>6, <2>8, <3>1 DEF Fresh
      <3>2. CASE p # r
        <4>1. Fresh(req[p]) /\ req[p].pc # "cache" /\ req'[p] = req[p]
          BY <2>6, <2>8, <3>2
        <4>2. req[p].alert # b /\ req[p].alert \in Alerts
          BY <1>0, <2>3, <2>4, <3>2, <4>1 DEF OwnInv, TypeOK
        <4>3. QED
          BY <2>5, <4>1, <4>2 DEF CacheInv
      <3>3. QED
        BY <3>1, <3>2
    <2>9. ASSUME NEW p \in Requests, Writes(req'[p])
          PROVE  cache'[req'[p].alert] \in {None, req'[p].status}
      <3>1. CASE p = r
        BY <2>5, <2>6, <2>9, <3>1 DEF Writes
      <3>2. CASE p # r
        <4>1. Writes(req[p]) /\ req'[p] = req[p] /\ Locks(req[p])
          BY <2>6, <2>9, <3>2 DEF Writes, Locks
        <4>2. req[p].alert # b /\ req[p].alert \in Alerts
          BY <1>0, <2>3, <2>4, <3>2, <4>1 DEF OwnInv
        <4>3. QED
          BY <2>5, <4>1, <4>2 DEF CacheInv
      <3>3. QED
        BY <3>1, <3>2
    <2>10. QED
      BY <2>7, <2>8, <2>9, FollowsIs DEF CacheInv, Fresh, Writes
  <1>6. QED
    BY <1>1, <1>2, <1>3, <1>4, <1>5

LEMMA EndCache ==
    ASSUME TypeInv, OwnInv, CacheInv, NEW r \in Requests, Commit(r) \/ Abort(r)
    PROVE  CacheInv'
  <1> DEFINE b == req[r].alert
  <1>1. /\ \A p \in Requests : req'[p] = IF p = r THEN Idle ELSE req[p]
        /\ cache' = cache
    BY EndMoves DEF TypeInv, Commit, Abort
  <1>2. ~Fresh(Idle) /\ ~Writes(Idle)
    BY DEF Idle, Fresh, Writes
  <1>3. ASSUME Commit(r), NEW a \in Alerts
        PROVE  Follows(a, cache'[a], alerts'[a], diverged', req')
    <2>0. /\ req[r].pc = "commit"
          /\ diverged' = IF req[r].op = "operator" THEN diverged \cup {b} ELSE diverged
          /\ Follows(a, cache[a], alerts[a], diverged, req)
      BY <1>3, FollowsIs DEF Commit, CacheInv
    <2>1. CASE a # b \/ req[r].op \in {"read", "ping"}
      <3>1. alerts'[a] = alerts[a]
        BY <1>3, <2>1, CommitWrites
      <3>2. a \in diverged => a \in diverged'
        BY <2>0
      <3>3. ~(Writes(req[r]) /\ b = a)
        BY <2>1 DEF Writes
      <3>4. QED
        BY <1>1, <2>0, <3>1, <3>2, <3>3 DEF Follows
    <2>2. CASE a = b /\ req[r].op = "trigger"
      <3>0. alerts'[a] = NewAlert(req[r].user)
        BY <1>3, <2>2, CommitWrites
      <3>1. alerts'[a].status = "active"
        BY <3>0 DEF NewAlert
      <3>2. Fresh(req[r]) /\ req[r].pc # "cache"
        BY <2>0, <2>2 DEF Fresh
      <3>3. cache'[a] \in {None, "active"}
        BY <1>1, <2>2, <3>2 DEF CacheInv
      <3>4. QED
        BY <3>1, <3>3 DEF Follows
    <2>3. CASE a = b /\ req[r].op = "user"
      <3>1. Exists(b) /\ alerts'[b] = StatusUpdate(alerts[b], req[r].status, req[r].by)
        BY <1>3, <2>3, CommitWrites
      <3>2. alerts[b] \in AlertRow
        BY <2>3, <3>1 DEF TypeInv, TypeOK, Exists
      <3>3. alerts'[b].status = req[r].status
        BY <3>1, <3>2 DEF StatusUpdate, AlertRow
      <3>4. Writes(req[r])
        BY <2>0, <2>3 DEF Writes
      <3>5. cache'[a] \in {None, req[r].status}
        BY <1>1, <2>3, <3>4 DEF CacheInv
      <3>6. QED
        BY <2>3, <3>3, <3>5 DEF Follows
    <2>4. CASE a = b /\ req[r].op = "operator"
      BY <2>0, <2>4 DEF Follows
    <2>5. QED
      BY <1>3, <2>1, <2>2, <2>3, <2>4, CommitWrites DEF TypeInv, TypeOK, Request
  <1>4. ASSUME Abort(r), NEW a \in Alerts
        PROVE  Follows(a, cache'[a], alerts'[a], diverged', req')
    <2>1. /\ alerts' = alerts /\ Follows(a, cache[a], alerts[a], diverged, req)
          /\ a \in diverged => a \in diverged'
          /\ Writes(req[r]) => b \in diverged'
      BY <1>4, FollowsIs DEF Abort, CacheInv, Writes
    <2>2. QED
      BY <1>1, <2>1 DEF Follows
  <1>5. \A p \in Requests :
          Fresh(req'[p]) /\ req'[p].pc # "cache" => cache'[req'[p].alert] \in {None, "active"}
    BY <1>1, <1>2 DEF CacheInv
  <1>6. \A p \in Requests : Writes(req'[p]) => cache'[req'[p].alert] \in {None, req'[p].status}
    BY <1>1, <1>2 DEF CacheInv
  <1>7. \A a \in Alerts : Follows(a, cache'[a], alerts'[a], diverged', req')
    BY <1>3, <1>4
  <1>8. QED
    BY <1>5, <1>6, <1>7, FollowsIs DEF CacheInv, Fresh, Writes

LEMMA NextCache == TypeInv /\ OwnInv /\ CacheInv /\ [Next]_vars => CacheInv'
  <1> SUFFICES ASSUME TypeInv, OwnInv, CacheInv, [Next]_vars PROVE CacheInv'
    OBVIOUS
  <1>1. ASSUME \/ \E u \in Users : DeleteMobileUser(u)
               \/ \E o \in Operators : DeleteOperator(o)
               \/ \E a \in Alerts : CacheExpire(a)
               \/ \E k \in tasks : RunTask(k) \/ RetryTask(k)
               \/ UNCHANGED vars
        PROVE  CacheInv'
    <2>1. /\ req' = req /\ diverged' = diverged
          /\ \A a \in Alerts : alerts'[a] = None <=> alerts[a] = None
          /\ \A a \in Alerts : alerts[a] # None => alerts'[a].status = alerts[a].status
          /\ \A a \in Alerts : cache'[a] \in {None, cache[a]}
      BY <1>1, AroundStays DEF Exists
    <2>2. \A a \in Alerts : Follows(a, cache'[a], alerts'[a], diverged', req')
      <3>1. SUFFICES ASSUME NEW a \in Alerts
                     PROVE  Follows(a, cache'[a], alerts'[a], diverged', req')
        OBVIOUS
      <3>2. Follows(a, cache[a], alerts[a], diverged, req)
        BY FollowsIs DEF CacheInv
      <3>3. QED
        BY <2>1, <3>2 DEF Follows
    <2>3. \A p \in Requests : Fresh(req[p]) \/ Writes(req[p]) => req[p].alert \in Alerts
      BY DEF TypeInv, Shape, Fresh, Writes
    <2>4. QED
      BY <2>1, <2>2, <2>3, FollowsIs DEF CacheInv, Fresh, Writes
  <1>2. QED
    BY <1>1, BeginCache, EffectCache, EndCache DEF Next, Step

\* For any number of requests in any order, with failures at every step: an entry
\* in Redis that disagrees with its row is one an operator's update or a rolled
\* back request left, or one whose request is about to commit.
THEOREM SosCacheFollowsRow == Spec => []CacheFollowsRow
  <1>1. Init => CacheInv
    BY DEF Init, CacheInv, CacheFollowsRow, Exists, Idle, Fresh, Writes
  <1>2. CacheInv => CacheFollowsRow
    BY DEF CacheInv
  <1>3. QED
    BY InitTypeInv, NextTypeInv, InitOwn, NextOwn, <1>1, NextCache, <1>2, PTL DEF Spec

-----------------------------------------------------------------------------
(* Alerts name operators who exist                                         *)

\* The request has put the operator it names into a row.
Writing(q) == NamesOperator(q) /\ q.pc \in {"refetch", "commit"}

\* RespondersExist is not inductive: a commit makes visible what was checked when
\* the row was updated, so the operator must have been held since.
StaffInv ==
    /\ RespondersExist
    /\ \A r \in Requests : req[r].by # None => req[r].op = "operator"
    /\ \A r \in Requests : Writing(req[r]) => req[r].by \in staff

\* A request that moves on holds the operator it has written, if any.
LEMMA MovedStaff ==
    ASSUME StaffInv, NEW r \in Requests, NEW pc, NEW a, NEW D, Moved(r, pc, a, D),
           UNCHANGED <<alerts, staff>>,
           Writing(req[r]') => req[r].by \in staff
    PROVE  StaffInv'
  <1> DEFINE q == req[r]'
  <1>1. /\ q.op = req[r].op /\ q.by = req[r].by
        /\ \A p \in Requests : req'[p] = IF p = r THEN q ELSE req[p]
        /\ alerts' = alerts /\ staff' = staff
    BY DEF Moved
  <1> HIDE DEF q
  <1>2. Writing(q) => q.by \in staff
    BY <1>1 DEF q
  <1>3. QED
    BY <1>1, <1>2 DEF StaffInv, RespondersExist, Exists, Writing, NamesOperator

LEMMA EffectStaff ==
    ASSUME TypeInv, StaffInv, NEW r \in Requests,
           \/ TriggerInsert(r) \/ CacheNewAlert(r) \/ QueueContacts(r) \/ QueueCenters(r)
           \/ UpdateRow(r) \/ CacheStatus(r) \/ RefetchMonitor(r)
    PROVE  StaffInv'
  <1>0. Shape(req[r]) /\ TypeOK /\ (req[r].by # None => req[r].op = "operator")
    BY DEF TypeInv, StaffInv
  <1>1. CASE TriggerInsert(r)
    <2>1. PICK a : Moved(r, "cache", a, req[r].drop)
      BY <1>1, InsertMoves
    <2>2. ~Writing(req[r]') /\ UNCHANGED <<alerts, staff>>
      BY <1>1, <2>1 DEF TriggerInsert, Moved, Writing
    <2>3. QED
      BY <2>1, <2>2, MovedStaff
  <1>2. CASE CacheNewAlert(r) \/ QueueContacts(r) \/ QueueCenters(r) \/ CacheStatus(r)
    <2>1. PICK pc : Goto(r, pc)
      BY <1>2 DEF CacheNewAlert, QueueContacts, QueueCenters, CacheStatus
    <2>2. req[r].op # "operator" /\ UNCHANGED <<alerts, staff>>
      BY <1>0, <1>2 DEF CacheNewAlert, QueueContacts, QueueCenters, CacheStatus, Shape
    <2>3. Moved(r, pc, req[r].alert, req[r].drop)
      BY <1>0, <2>1, GotoMoves
    <2>4. ~Writing(req[r]')
      BY <1>0, <2>2, <2>3 DEF Moved, Writing, NamesOperator
    <2>5. QED
      BY <2>2, <2>3, <2>4, MovedStaff
  <1>3. CASE UpdateRow(r)
    <2>1. PICK pc : Goto(r, pc)
      BY <1>3 DEF UpdateRow
    <2>2. ~OperatorGone(r) /\ UNCHANGED <<alerts, staff>>
      BY <1>3 DEF UpdateRow
    <2>3. Moved(r, pc, req[r].alert, req[r].drop)
      BY <1>0, <2>1, GotoMoves
    <2>4. Writing(req[r]') => req[r].by \in staff
      BY <2>2, <2>3 DEF Moved, Writing, NamesOperator, OperatorGone
    <2>5. QED
      BY <2>2, <2>3, <2>4, MovedStaff
  <1>4. CASE RefetchMonitor(r)
    <2>1. PICK D : Moved(r, "commit", req[r].alert, D)
      BY <1>4, RefetchMoves
    <2>2. req[r].pc = "refetch" /\ UNCHANGED <<alerts, staff>>
      BY <1>4 DEF RefetchMonitor
    <2>3. Writing(req[r]') => req[r].by \in staff
      BY <2>1, <2>2 DEF Moved, Writing, NamesOperator, StaffInv
    <2>4. QED
      BY <2>1, <2>2, <2>3, MovedStaff
  <1>5. QED
    BY <1>1, <1>2, <1>3, <1>4

LEMMA EndStaff ==
    ASSUME TypeInv, StaffInv, NEW r \in Requests, Commit(r) \/ Abort(r)
    PROVE  StaffInv'
  <1>1. /\ \A p \in Requests : req'[p] = IF p = r THEN Idle ELSE req[p]
        /\ staff' = staff
    BY EndMoves DEF TypeInv, Commit, Abort
  <1>2. Idle.by = None /\ ~Writing(Idle)
    BY DEF Idle, Writing, NamesOperator
  <1>3. ASSUME NEW a \in Alerts, alerts'[a] # None
        PROVE  {alerts'[a].assigned, alerts'[a].resolver} \subseteq staff \cup {None}
    <2>1. alerts[a] # None => {alerts[a].assigned, alerts[a].resolver} \subseteq staff \cup {None}
      BY DEF StaffInv, RespondersExist, Exists
    <2>2. CASE alerts'[a] = alerts[a]
      BY <1>3, <2>1, <2>2
    <2>3. CASE alerts'[a] # alerts[a]
      <3>1. Commit(r)
        BY <2>3 DEF Abort
      <3>2. a = req[r].alert /\ req[r].op \in {"trigger", "user", "operator"}
        BY <2>3, <3>1, CommitWrites DEF TypeInv, TypeOK, Request
      <3>3. CASE req[r].op = "trigger"
        <4>1. PICK new : new = alerts'[a]
          OBVIOUS
        <4>2. new = NewAlert(req[r].user)
          BY <3>1, <3>2, <3>3, <4>1, CommitWrites
        <4>3. new.assigned = None /\ new.resolver = None
          BY <4>2 DEF NewAlert
        <4>4. QED
          BY <4>1, <4>3
      <3>4. CASE req[r].op \in {"user", "operator"}
        <4>1. /\ alerts[a] # None
              /\ alerts'[a] = StatusUpdate(alerts[a], req[r].status, req[r].by)
          BY <3>1, <3>2, <3>4, CommitWrites DEF Exists
        <4>2. alerts[a] \in AlertRow /\ req[r].pc = "commit"
          BY <3>1, <4>1 DEF TypeInv, TypeOK, Commit
        <4>3. /\ alerts'[a].assigned # alerts[a].assigned =>
                   alerts'[a].assigned = req[r].by /\ NamesOperator(req[r])
              /\ alerts'[a].resolver # alerts[a].resolver =>
                   alerts'[a].resolver = req[r].by /\ NamesOperator(req[r])
          BY <4>1, <4>2 DEF StatusUpdate, AlertRow, NamesOperator
        <4>4. NamesOperator(req[r]) => req[r].by \in staff
          BY <4>2 DEF StaffInv, Writing
        <4>5. QED
          BY <2>1, <4>1, <4>3, <4>4
      <3>5. QED
        BY <3>2, <3>3, <3>4
    <2>4. QED
      BY <2>2, <2>3
  <1>4. QED
    BY <1>1, <1>2, <1>3 DEF StaffInv, RespondersExist, Exists, Writing, NamesOperator

\* A deletion takes its operator out of the committed rows, and waits for the
\* requests that have put them into one.
LEMMA DeleteStaff ==
    ASSUME TypeInv, StaffInv, NEW o \in Operators, DeleteOperator(o)
    PROVE  StaffInv'
  <1>1. /\ staff' = staff \ {o} /\ req' = req /\ ~OperatorReferenced(o)
        /\ \A a \in Alerts : alerts'[a] = IF Exists(a) THEN WithoutOperator(alerts[a], o) ELSE None
    BY DEF DeleteOperator
  <1>2. ASSUME NEW a \in Alerts, alerts'[a] # None
        PROVE  {alerts'[a].assigned, alerts'[a].resolver} \subseteq staff' \cup {None}
    <2>1. /\ alerts[a] \in AlertRow /\ alerts'[a] = WithoutOperator(alerts[a], o)
          /\ {alerts[a].assigned, alerts[a].resolver} \subseteq staff \cup {None}
      BY <1>1, <1>2 DEF Exists, StaffInv, RespondersExist, TypeInv, TypeOK
    <2>2. QED
      BY <1>1, <2>1, WithoutOperatorIs
  <1>3. \A r \in Requests : Writing(req[r]) => req[r].by \in staff'
    BY <1>1 DEF StaffInv, Writing, NamesOperator, OperatorReferenced
  <1>4. QED
    BY <1>1, <1>2, <1>3 DEF StaffInv, RespondersExist, Exists, Writing, NamesOperator

LEMMA NextStaff == TypeInv /\ StaffInv /\ [Next]_vars => StaffInv'
  <1> SUFFICES ASSUME TypeInv, StaffInv, [Next]_vars PROVE StaffInv'
    OBVIOUS
  <1>1. ASSUME NEW r \in Requests, Begin(r) PROVE StaffInv'
    <2>1. PICK x : req' = [req EXCEPT ![r] = x] /\ Opened(x)
      BY <1>1, BeginOpens
    <2>2. (x.by # None => x.op = "operator") /\ ~Writing(x)
      BY <2>1 DEF Opened, Writing, NamesOperator
    <2>3. UNCHANGED <<alerts, staff>>
      BY <1>1, BeginStarted DEF TypeInv, Stores
    <2>4. \A p \in Requests : req'[p] = IF p = r THEN x ELSE req[p]
      BY <2>1 DEF TypeInv, TypeOK
    <2>5. QED
      BY <2>2, <2>3, <2>4 DEF StaffInv, RespondersExist, Exists, Writing, NamesOperator
  <1>2. ASSUME NEW u \in Users, DeleteMobileUser(u) PROVE StaffInv'
    <2>1. \A a \in Alerts : alerts'[a] = IF Exists(a) /\ alerts[a].owner = u
                                         THEN [alerts[a] EXCEPT !.owner = None] ELSE alerts[a]
      BY <1>2 DEF DeleteMobileUser
    <2>2. \A a \in Alerts : alerts'[a] # None => /\ alerts[a] # None
                                                /\ alerts'[a].assigned = alerts[a].assigned
                                                /\ alerts'[a].resolver = alerts[a].resolver
      BY <2>1 DEF Exists, TypeInv, TypeOK, AlertRow
    <2>3. UNCHANGED <<req, staff>>
      BY <1>2 DEF DeleteMobileUser
    <2>4. QED
      BY <2>2, <2>3 DEF StaffInv, RespondersExist, Exists, Writing, NamesOperator
  <1>3. ASSUME \/ \E a \in Alerts : CacheExpire(a)
               \/ \E k \in tasks : RunTask(k) \/ RetryTask(k)
               \/ UNCHANGED vars
        PROVE  StaffInv'
    <2>1. UNCHANGED <<alerts, req, staff>>
      BY <1>3 DEF CacheExpire, RunTask, RetryTask, vars
    <2>2. QED
      BY <2>1 DEF StaffInv, RespondersExist, Exists, Writing, NamesOperator
  <1>4. QED
    BY <1>1, <1>2, <1>3, EffectStaff, EndStaff, DeleteStaff DEF Next, Step

\* Whichever updates name operators, existing or not, while operators are deleted:
\* whoever a visible alert is assigned to, or closed by, is there.
THEOREM SosRespondersExist == Spec => []RespondersExist
  <1>1. Init => StaffInv
    BY DEF Init, StaffInv, RespondersExist, Exists, Idle, Writing, NamesOperator
  <1>2. StaffInv => RespondersExist
    BY DEF StaffInv
  <1>3. QED
    BY InitTypeInv, NextTypeInv, <1>1, NextStaff, <1>2, PTL DEF Spec

-----------------------------------------------------------------------------
(* The recent positions                                                    *)

\* The members of S after t.
Above(S, t) == {q \in S : q > t}

LEMMA AboveFinite ==
    ASSUME NEW S \in SUBSET Times, NEW t
    PROVE  IsFiniteSet(Above(S, t)) /\ Cardinality(Above(S, t)) \in Nat
  <1>1. Above(S, t) \subseteq Times
    BY DEF Above
  <1>2. QED
    BY <1>1, TrailAssumption, FS_Subset, FS_CardinalityType

LEMMA AboveGrows ==
    ASSUME NEW T \in SUBSET Times, NEW S \in SUBSET T, NEW t
    PROVE  Cardinality(Above(S, t)) <= Cardinality(Above(T, t))
  <1>1. Above(S, t) \subseteq Above(T, t)
    BY DEF Above
  <1>2. QED
    BY <1>1, AboveFinite, FS_Subset

LEMMA KeptIs ==
    KeptPings \in Nat \ {0} /\ KeptPings <= HistoryLimit /\ KeptPings <= MonitorLimit
  BY SosAssumption DEF KeptPings

\* Behind a position that has K after it there are K among the K most recent.
LEMMA MostRecentEnough ==
    ASSUME NEW S \in SUBSET Times, NEW K \in Nat, NEW t \in Times,
           Cardinality(Above(S, t)) >= K
    PROVE  Cardinality(Above(MostRecent(S, K), t)) >= K
  <1> DEFINE M == Above(MostRecent(S, K), t)
             A == Above(S, t)
  <1>0. S \subseteq Nat /\ t \in Nat
    BY SosAssumption
  <1>1. M \subseteq A /\ A \subseteq S /\ M \subseteq Times
    BY DEF Above, MostRecent
  <1>2. /\ IsFiniteSet(M) /\ Cardinality(M) \in Nat /\ Cardinality(A) \in Nat
        /\ \A m \in S : IsFiniteSet(Above(S, m)) /\ Cardinality(Above(S, m)) \in Nat
    BY <1>1, AboveFinite, TrailAssumption, FS_Subset, FS_CardinalityType
  <1>3. SUFFICES ASSUME Cardinality(M) < K PROVE FALSE
    BY <1>2
  <1>4. A \ M # {}
    <2>1. SUFFICES ASSUME A = M PROVE FALSE
      BY <1>1
    <2>2. QED
      BY <1>2, <1>3, <2>1
  <1> DEFINE N == {Cardinality(Above(S, m)) : m \in A \ M}
  <1>5. PICK n \in N : \A k \in N : ~(k < n)
    <2> DEFINE R == {ss \in Nat \X Nat : ss[1] < ss[2]}
    <2>1. IsWellFoundedOn(R, Nat)
      BY NatLessThanWellFounded DEF OpToRel
    <2>2. N \subseteq Nat /\ N # {}
      BY <1>1, <1>2, <1>4
    <2>3. \A k \in N, m \in N : k < m => <<k, m>> \in R
      BY <2>2
    <2> HIDE DEF R, N
    <2>4. \E m \in N : \A k \in N : ~(<<k, m>> \in R)
      BY <2>1, <2>2, WFMin
    <2>5. QED
      BY <2>3, <2>4
  <1>6. PICK m \in A \ M : Cardinality(Above(S, m)) = n
    BY <1>5
  <1>7. m \in S /\ m \in Nat /\ m > t
    BY <1>0, <1>1 DEF Above
  <1>8. ASSUME NEW q \in Above(S, m) PROVE q \in M
    <2>1. q \in S /\ q > m /\ q \in Nat /\ q \in A
      BY <1>0, <1>7, <1>8 DEF Above
    <2>2. SUFFICES ASSUME q \notin M PROVE FALSE
      OBVIOUS
    <2>3. Cardinality(Above(S, q)) \in N
      BY <2>1, <2>2
    <2>4. Above(S, q) \subseteq Above(S, m) /\ q \notin Above(S, q)
      <3>1. q > m /\ q \in Nat /\ m \in Nat
        BY <1>7, <2>1
      <3>2. ASSUME NEW p \in S, p > q PROVE p > m
        BY <1>0, <3>1, <3>2
      <3>3. ~(q > q)
        BY <3>1
      <3>4. QED
        BY <3>2, <3>3 DEF Above
    <2>5. /\ Cardinality(Above(S, q)) <= Cardinality(Above(S, m))
          /\ Cardinality(Above(S, q)) = Cardinality(Above(S, m)) => Above(S, q) = Above(S, m)
      BY <1>2, <1>7, <2>4, FS_Subset
    <2>6. Cardinality(Above(S, q)) < n
      BY <1>2, <1>6, <1>7, <1>8, <2>1, <2>4, <2>5
    <2>7. QED
      BY <1>5, <2>3, <2>6
  <1>9. Cardinality(Above(S, m)) <= Cardinality(M)
    BY <1>2, <1>8, FS_Subset
  <1>10. Cardinality(Above(S, m)) < K
    BY <1>2, <1>3, <1>7, <1>9
  <1>11. m \in MostRecent(S, K)
    BY <1>7, <1>10 DEF MostRecent, Above
  <1>12. QED
    BY <1>6, <1>7, <1>11 DEF Above

\* What is stored was sent.
TrailInv == \A a \in Alerts : pings[a] \subseteq sent[a]

LEMMA NextTrail == TypeInv /\ TrailInv /\ [Next]_vars => TrailInv'
  <1> SUFFICES ASSUME TypeInv, TrailInv, [Next]_vars PROVE TrailInv'
    OBVIOUS
  <1>1. ASSUME NEW r \in Requests, Begin(r) PROVE UNCHANGED <<pings, sent>>
    BY <1>1, BeginStarted DEF TypeInv, Stores
  <1>2. ASSUME NEW r \in Requests, Commit(r) PROVE TrailInv'
    BY <1>2 DEF Commit, TrailInv
  <1>3. ASSUME NEW r \in Requests,
               \/ TriggerInsert(r) \/ CacheNewAlert(r) \/ QueueContacts(r) \/ QueueCenters(r)
               \/ UpdateRow(r) \/ CacheStatus(r) \/ RefetchMonitor(r) \/ Abort(r)
        PROVE  UNCHANGED <<pings, sent>>
    BY <1>3 DEF TriggerInsert, CacheNewAlert, QueueContacts, QueueCenters, UpdateRow,
                CacheStatus, RefetchMonitor, Abort
  <1>4. ASSUME \/ \E u \in Users : DeleteMobileUser(u)
               \/ \E o \in Operators : DeleteOperator(o)
               \/ \E a \in Alerts : CacheExpire(a)
               \/ \E k \in tasks : RunTask(k) \/ RetryTask(k)
               \/ UNCHANGED vars
        PROVE  UNCHANGED <<pings, sent>>
    BY <1>4, AroundStays
  <1>5. UNCHANGED <<pings, sent>> => TrailInv'
    BY DEF TrailInv
  <1>6. QED
    BY <1>1, <1>2, <1>3, <1>4, <1>5 DEF Next, Step

\* What a request chose to delete has enough positions after it, among all that
\* were ever sent; that stays true however old the read is.
RecentInv ==
    /\ RecentPingsKept
    /\ \A r \in Requests, a \in Alerts, t \in Times :
         <<a, t>> \in req[r].drop => Cardinality(Above(sent[a], t)) >= KeptPings

LEMMA ReadsSpare ==
    ASSUME TypeInv, TrailInv, NEW S \in SUBSET Alerts, NEW limit \in {HistoryLimit, MonitorLimit},
           NEW a \in Alerts, NEW t \in Times, <<a, t>> \in UNION {BeyondLimit(b, limit) : b \in S}
    PROVE  Cardinality(Above(sent[a], t)) >= KeptPings
  <1>1. PICK b \in S : <<a, t>> \in BeyondLimit(b, limit)
    OBVIOUS
  <1>2. Cardinality(Above(pings[a], t)) >= limit
    BY <1>1 DEF BeyondLimit, Above
  <1>3. pings[a] \subseteq sent[a] /\ sent[a] \subseteq Times
    BY DEF TypeInv, TypeOK, TrailInv
  <1>4. /\ Cardinality(Above(pings[a], t)) <= Cardinality(Above(sent[a], t))
        /\ Cardinality(Above(pings[a], t)) \in Nat /\ Cardinality(Above(sent[a], t)) \in Nat
    BY <1>3, AboveGrows, AboveFinite
  <1>5. limit \in Nat /\ KeptPings \in Nat /\ KeptPings <= limit
    BY KeptIs, SosAssumption
  <1>6. QED
    BY <1>2, <1>4, <1>5

\* A step of the requests that commits nothing.
LEMMA RecentUncommitted ==
    ASSUME TypeInv, TrailInv, RecentInv, UNCHANGED sent, UNCHANGED pings,
           \A r \in Requests :
              \/ req'[r].drop \subseteq req[r].drop
              \/ \E S \in SUBSET Alerts, limit \in {HistoryLimit, MonitorLimit} :
                    req'[r].drop = UNION {BeyondLimit(b, limit) : b \in S}
    PROVE  RecentInv'
  <1>1. ASSUME NEW r \in Requests, NEW a \in Alerts, NEW t \in Times, <<a, t>> \in req'[r].drop
        PROVE  Cardinality(Above(sent[a], t)) >= KeptPings
    <2>1. CASE <<a, t>> \in req[r].drop
      BY <2>1 DEF RecentInv
    <2>2. CASE \E S \in SUBSET Alerts, limit \in {HistoryLimit, MonitorLimit} :
                  req'[r].drop = UNION {BeyondLimit(b, limit) : b \in S}
      BY <1>1, <2>2, ReadsSpare
    <2>3. QED
      BY <1>1, <2>1, <2>2
  <1>2. sent' = sent /\ pings' = pings
    OBVIOUS
  <1>3. QED
    BY <1>1, <1>2 DEF RecentInv, RecentPingsKept, Above, MostRecent

LEMMA CommitRecent ==
    ASSUME TypeInv, TrailInv, RecentInv, NEW r \in Requests, Commit(r)
    PROVE  RecentInv'
  <1> DEFINE gone(a) == {t \in Times : <<a, t>> \in req[r].drop}
  <1>1. \A a \in Alerts : /\ pings'[a] = (pings[a] \cup Inserted(r, a)) \ gone(a)
                          /\ sent'[a] = sent[a] \cup Inserted(r, a)
    BY DEF Commit
  <1>2. \A a \in Alerts : sent[a] \subseteq Times /\ sent'[a] \subseteq Times
    BY <1>1 DEF Inserted, Request, TypeInv, TypeOK
  <1>3. \A p \in Requests : req'[p] = IF p = r THEN Idle ELSE req[p]
    BY DEF Commit, TypeInv, TypeOK
  <1>4. \A a \in Alerts, t \in Times :
          /\ Cardinality(Above(sent[a], t)) <= Cardinality(Above(sent'[a], t))
          /\ Cardinality(Above(sent[a], t)) \in Nat /\ Cardinality(Above(sent'[a], t)) \in Nat
    <2>1. SUFFICES ASSUME NEW a \in Alerts, NEW t \in Times
                   PROVE  /\ Cardinality(Above(sent[a], t)) <= Cardinality(Above(sent'[a], t))
                          /\ Cardinality(Above(sent[a], t)) \in Nat
                          /\ Cardinality(Above(sent'[a], t)) \in Nat
      OBVIOUS
    <2>2. PICK T : T = sent'[a]
      OBVIOUS
    <2>3. T \in SUBSET Times /\ sent[a] \in SUBSET T
      BY <1>1, <1>2, <2>2
    <2>4. QED
      BY <2>2, <2>3, AboveGrows, AboveFinite
  <1>5. ASSUME NEW a \in Alerts, NEW t \in MostRecent(sent'[a], KeptPings)
        PROVE  t \in pings'[a]
    <2>1. t \in sent'[a] /\ t \in Times /\ Cardinality(Above(sent'[a], t)) < KeptPings
      BY <1>2, <1>5 DEF MostRecent, Above
    <2>2. Cardinality(Above(sent[a], t)) < KeptPings
      BY <1>4, <2>1, KeptIs
    <2>3. t \notin gone(a)
      BY <1>4, <2>2, KeptIs DEF RecentInv
    <2>4. t \in sent[a] => t \in pings[a]
      BY <2>2 DEF RecentInv, RecentPingsKept, MostRecent, Above
    <2>5. QED
      BY <1>1, <2>1, <2>3, <2>4
  <1>6. ASSUME NEW p \in Requests, NEW a \in Alerts, NEW t \in Times, <<a, t>> \in req'[p].drop
        PROVE  Cardinality(Above(sent'[a], t)) >= KeptPings
    <2>1. <<a, t>> \in req[p].drop
      BY <1>3, <1>6 DEF Idle
    <2>2. QED
      BY <1>4, <2>1, KeptIs DEF RecentInv
  <1>7. QED
    BY <1>5, <1>6 DEF RecentInv, RecentPingsKept, Above, MostRecent

\* The effects that choose nothing to delete.
LEMMA OtherEffects ==
    ASSUME TypeInv, NEW r \in Requests,
           \/ TriggerInsert(r) \/ CacheNewAlert(r) \/ QueueContacts(r) \/ QueueCenters(r)
           \/ UpdateRow(r) \/ CacheStatus(r)
    PROVE  \A p \in Requests : req'[p].drop = req[p].drop
  <1>0. TypeOK
    BY DEF TypeInv
  <1>1. CASE TriggerInsert(r)
    BY <1>1, InsertMoves DEF Moved
  <1>2. CASE ~TriggerInsert(r)
    <2>1. PICK pc : Goto(r, pc)
      BY <1>2 DEF CacheNewAlert, QueueContacts, QueueCenters, UpdateRow, CacheStatus
    <2>2. Moved(r, pc, req[r].alert, req[r].drop)
      BY <1>0, <2>1, GotoMoves
    <2>3. QED
      BY <2>2 DEF Moved
  <1>3. QED
    BY <1>1, <1>2

LEMMA NextRecent == TypeInv /\ TrailInv /\ RecentInv /\ [Next]_vars => RecentInv'
  <1> SUFFICES ASSUME TypeInv, TrailInv, RecentInv, [Next]_vars PROVE RecentInv'
    OBVIOUS
  <1>1. ASSUME NEW r \in Requests, Begin(r) PROVE RecentInv'
    <2>1. PICK x : req' = [req EXCEPT ![r] = x] /\ Opened(x)
      BY <1>1, BeginOpens
    <2>2. UNCHANGED sent /\ UNCHANGED pings
      BY <1>1, BeginStarted DEF TypeInv, Stores
    <2>3. \A p \in Requests : req'[p] = IF p = r THEN x ELSE req[p]
      BY <2>1 DEF TypeInv, TypeOK
    <2>4. \/ x.drop = {}
          \/ \E S \in SUBSET Alerts, limit \in {HistoryLimit, MonitorLimit} :
               x.drop = UNION {BeyondLimit(b, limit) : b \in S}
      BY <2>1 DEF Opened
    <2>5. \A p \in Requests :
             \/ req'[p].drop \subseteq req[p].drop
             \/ \E S \in SUBSET Alerts, limit \in {HistoryLimit, MonitorLimit} :
                  req'[p].drop = UNION {BeyondLimit(b, limit) : b \in S}
      BY <2>3, <2>4
    <2>6. QED
      BY <2>2, <2>5, RecentUncommitted
  <1>2. ASSUME NEW r \in Requests,
               \/ TriggerInsert(r) \/ CacheNewAlert(r) \/ QueueContacts(r) \/ QueueCenters(r)
               \/ UpdateRow(r) \/ CacheStatus(r)
        PROVE  RecentInv'
    <2>1. UNCHANGED sent /\ UNCHANGED pings
      BY <1>2 DEF TriggerInsert, CacheNewAlert, QueueContacts, QueueCenters, UpdateRow,
                  CacheStatus
    <2>2. \A p \in Requests : req'[p].drop = req[p].drop
      BY <1>2, OtherEffects
    <2>3. QED
      BY <2>1, <2>2, RecentUncommitted
  <1>3. ASSUME NEW r \in Requests, RefetchMonitor(r) PROVE RecentInv'
    <2>1. PICK S \in SUBSET Alerts :
            Moved(r, "commit", req[r].alert, UNION {BeyondLimit(b, MonitorLimit) : b \in S})
      BY <1>3, RefetchMoves
    <2>2. /\ req'[r].drop = UNION {BeyondLimit(b, MonitorLimit) : b \in S}
          /\ \A p \in Requests : p # r => req'[p] = req[p]
      BY <2>1 DEF Moved
    <2>3. UNCHANGED sent /\ UNCHANGED pings
      BY <1>3 DEF RefetchMonitor
    <2>4. \A p \in Requests :
             \/ req'[p].drop \subseteq req[p].drop
             \/ \E Q \in SUBSET Alerts, limit \in {HistoryLimit, MonitorLimit} :
                  req'[p].drop = UNION {BeyondLimit(b, limit) : b \in Q}
      BY <2>2
    <2>5. QED
      BY <2>3, <2>4, RecentUncommitted
  <1>4. ASSUME NEW r \in Requests, Abort(r) PROVE RecentInv'
    <2>1. UNCHANGED sent /\ UNCHANGED pings
      BY <1>4 DEF Abort
    <2>2. \A p \in Requests : req'[p].drop \subseteq req[p].drop
      BY <1>4, EndMoves DEF TypeInv, Idle
    <2>3. QED
      BY <2>1, <2>2, RecentUncommitted
  <1>5. ASSUME \/ \E u \in Users : DeleteMobileUser(u)
               \/ \E o \in Operators : DeleteOperator(o)
               \/ \E a \in Alerts : CacheExpire(a)
               \/ \E k \in tasks : RunTask(k) \/ RetryTask(k)
               \/ UNCHANGED vars
        PROVE  RecentInv'
    <2>1. UNCHANGED sent /\ UNCHANGED pings /\ req' = req
      BY <1>5, AroundStays
    <2>2. QED
      BY <2>1, RecentUncommitted
  <1>6. QED
    BY <1>1, <1>2, <1>3, <1>4, <1>5, CommitRecent DEF Next, Step

LEMMA InitRecent == Init => TrailInv /\ RecentInv
  BY DEF Init, TrailInv, RecentInv, RecentPingsKept, MostRecent, Idle

\* Whichever reads truncate the trail that they read earlier, while positions old
\* and new arrive: the most recent ones, as many as the smaller limit, are stored.
THEOREM SosRecentPingsKept == Spec => []RecentPingsKept
  <1>1. RecentInv => RecentPingsKept
    BY DEF RecentInv
  <1>2. TypeInv /\ TrailInv /\ [Next]_vars => TrailInv'
    BY NextTrail
  <1>3. QED
    BY InitTypeInv, NextTypeInv, InitRecent, <1>1, <1>2, NextRecent, PTL DEF Spec

-----------------------------------------------------------------------------
(* The ledger                                                              *)

LedgerInv == TypeInv /\ OwnInv /\ TrailInv /\ RecentInv

\* What a commit that adds nothing does to the trails.
LEMMA CommitPrunes ==
    ASSUME LedgerInv, LedgerInv', NEW r \in Requests, Commit(r), req[r].add = {}
    PROVE  Ledger!Prune /\ DOMAIN pings' = Alerts
  <1>1. \A a \in Alerts : pings'[a] = pings[a] \ {t \in Times : <<a, t>> \in req[r].drop}
    BY DEF Commit, Inserted
  <1>2. DOMAIN pings' = Alerts
    BY DEF Commit
  <1>3. ASSUME NEW a \in Alerts PROVE pings'[a] \in Ledger!Prunings(pings[a])
    <2>1. PICK P : P = pings'[a]
      OBVIOUS
    <2>2. PICK S : S = sent'[a]
      OBVIOUS
    <2>3. P \subseteq pings[a] /\ P \in SUBSET Times /\ S \in SUBSET Times
      BY <1>1, <2>1, <2>2 DEF LedgerInv, TypeInv, TypeOK
    <2>4. MostRecent(S, KeptPings) \subseteq P
      <3>1. RecentPingsKept'
        BY DEF LedgerInv, RecentInv
      <3>2. \A t \in S : Cardinality({q \in S : q > t}) < KeptPings => t \in P
        BY <2>1, <2>2, <3>1 DEF RecentPingsKept, MostRecent
      <3>3. QED
        BY <3>2 DEF MostRecent
    <2>5. ASSUME NEW t \in pings[a] \ P PROVE Cardinality({q \in P : q > t}) >= KeptPings
      <3>1. <<a, t>> \in req[r].drop /\ t \in Times
        BY <1>1, <2>1, <2>5 DEF LedgerInv, TypeInv, TypeOK
      <3>2. Cardinality(Above(sent[a], t)) >= KeptPings
        BY <3>1 DEF LedgerInv, RecentInv
      <3>3. sent[a] \in SUBSET S
        BY <2>2 DEF Commit
      <3>4. Cardinality(Above(S, t)) >= KeptPings
        BY <2>3, <3>2, <3>3, AboveGrows, AboveFinite, KeptIs
      <3>5. Cardinality(Above(MostRecent(S, KeptPings), t)) >= KeptPings
        BY <2>3, <3>1, <3>4, MostRecentEnough, KeptIs
      <3>6. MostRecent(S, KeptPings) \in SUBSET P
        BY <2>4
      <3>7. Cardinality(Above(P, t)) >= KeptPings
        BY <2>3, <3>5, <3>6, AboveGrows, AboveFinite, KeptIs
      <3>8. QED
        BY <3>7 DEF Above
    <2>6. \A t \in pings[a] \ P :
            Ledger!Cardinality({q \in P : q > t}) >= KeptPings
      BY <2>5 DEF Ledger!Cardinality, Cardinality
    <2>7. P \in Ledger!Prunings(pings[a])
      BY <2>3, <2>6 DEF Ledger!Prunings
    <2>8. QED
      BY <2>1, <2>7
  <1>4. QED
    BY <1>2, <1>3 DEF Ledger!Prune

\* What a request's commit is to the ledger.
Requested ==
    \/ \E a \in Alerts : (\E u \in Users : Ledger!Open(a, u)) \/ Ledger!Change(a) \/ Ledger!Extend(a)
    \/ Ledger!Read

LEMMA CommitLedger ==
    ASSUME LedgerInv, LedgerInv', NEW r \in Requests, Commit(r)
    PROVE  Requested
  <1> DEFINE q == req[r]
             a == req[r].alert
  <1>1. /\ TypeOK /\ Shape(q) /\ q \in Request /\ q.pc = "commit"
        /\ alerts \in [Alerts -> AlertRow \cup {None}]
        /\ pings' = [b \in Alerts |-> (pings[b] \cup Inserted(r, b))
                                        \ {t \in Times : <<b, t>> \in q.drop}]
    BY DEF LedgerInv, TypeInv, TypeOK, Commit
  <1>2. CASE q.op = "trigger"
    <2>1. a \in Alerts /\ q.user \in Users /\ alerts[a] = None /\ q.add = {} /\ q.drop = {}
      BY <1>1, <1>2 DEF LedgerInv, OwnInv, Fresh, Shape, Exists
    <2>2. alerts' = [alerts EXCEPT ![a] = NewAlert(q.user)]
      BY <1>1, <1>2, CommittedRowsTyped DEF LedgerInv, Commit
    <2>3. pings' = pings
      BY <1>1, <2>1 DEF Inserted, TypeOK
    <2>4. Ledger!Open(a, q.user)
      BY <2>1, <2>2, <2>3 DEF Ledger!Open, NewAlert
    <2>5. QED
      BY <2>1, <2>4 DEF Requested
  <1>3. CASE q.op \in {"user", "operator"}
    <2>1. /\ a \in Alerts /\ Exists(a) /\ q.status \in Status /\ q.by \in Operators \cup {None}
          /\ q.add = {}
      BY <1>1, <1>3 DEF Shape, LedgerInv, OwnInv, Request
    <2>2. PICK old : old = alerts[a]
      OBVIOUS
    <2>3. old \in AlertRow /\ old # None
      BY <1>1, <2>1, <2>2 DEF Exists
    <2>4. PICK new : new = StatusUpdate(old, q.status, q.by)
      OBVIOUS
    <2>5. alerts' = [alerts EXCEPT ![a] = new]
      BY <1>1, <1>3, <2>1, <2>2, <2>4 DEF Commit, CommittedRows
    <2>6. /\ new = [owner |-> old.owner, status |-> q.status, assigned |-> new.assigned,
                    resolved |-> new.resolved, resolver |-> new.resolver]
          /\ new.assigned \in Operators \cup {None} /\ new.resolver \in Operators \cup {None}
          /\ new.resolved \in BOOLEAN
          /\ q.status \in ClosedStatus \/ old.resolved => new.resolved
          /\ old.assigned # None => new.assigned # None
          /\ old.resolver # None => new.resolver # None
      BY <2>1, <2>3, <2>4 DEF StatusUpdate, AlertRow
    <2>7. Ledger!Update(a, new)
      <3>1. new.owner = old.owner /\ new.status = q.status
        BY <2>6
      <3>2. QED
        BY <2>2, <2>5, <2>6, <3>1 DEF Ledger!Update
    <2>8. \E s \in Status, o1, o2 \in Operators \cup {None}, b \in BOOLEAN :
            Ledger!Update(a, [owner |-> alerts[a].owner, status |-> s, assigned |-> o1,
                              resolved |-> b, resolver |-> o2])
      <3>1. new = [owner |-> alerts[a].owner, status |-> q.status, assigned |-> new.assigned,
                   resolved |-> new.resolved, resolver |-> new.resolver]
        BY <2>2, <2>6
      <3>2. Ledger!Update(a, [owner |-> alerts[a].owner, status |-> q.status,
                              assigned |-> new.assigned, resolved |-> new.resolved,
                              resolver |-> new.resolver])
        BY <2>7, <3>1
      <3>3. QED
        BY <2>1, <2>6, <3>2
    <2>9. Ledger!Prune /\ DOMAIN pings' = Alerts
      BY <2>1, CommitPrunes
    <2>10. Ledger!Change(a)
      BY <2>2, <2>3, <2>8, <2>9 DEF Ledger!Change
    <2>11. QED
      BY <2>1, <2>10 DEF Requested
  <1>4. CASE q.op = "ping"
    <2>1. a \in Alerts /\ alerts[a] # None /\ q.drop = {} /\ q.add \in SUBSET Times
      BY <1>1, <1>4 DEF LedgerInv, OwnInv, Exists, Request
    <2>2. alerts' = alerts
      BY <1>1, <1>4, CommittedRowsTyped DEF LedgerInv, Commit
    <2>3. pings' = [pings EXCEPT ![a] = @ \cup q.add]
      BY <1>1, <2>1 DEF Inserted, TypeOK
    <2>4. Ledger!Extend(a)
      BY <2>1, <2>2, <2>3 DEF Ledger!Extend
    <2>5. QED
      BY <2>1, <2>4 DEF Requested
  <1>5. CASE q.op = "read"
    <2>1. q.add = {} /\ alerts' = alerts
      BY <1>1, <1>5, CommittedRowsTyped DEF LedgerInv, OwnInv, Commit
    <2>2. Ledger!Prune /\ DOMAIN pings' = Alerts
      BY <2>1, CommitPrunes
    <2>3. QED
      BY <2>1, <2>2 DEF Ledger!Read, Requested
  <1>6. QED
    BY <1>1, <1>2, <1>3, <1>4, <1>5 DEF Shape

LEMMA StepImplementsLedger ==
    ASSUME LedgerInv, LedgerInv', [Next]_vars
    PROVE  [Ledger!Next]_Ledger!lvars
  <1>1. ASSUME NEW r \in Requests, Begin(r) PROVE UNCHANGED <<alerts, pings>>
    BY <1>1, BeginStarted DEF LedgerInv, TypeInv, Stores
  <1>2. ASSUME NEW r \in Requests,
               \/ TriggerInsert(r) \/ CacheNewAlert(r) \/ QueueContacts(r) \/ QueueCenters(r)
               \/ UpdateRow(r) \/ CacheStatus(r) \/ RefetchMonitor(r) \/ Abort(r)
        PROVE  UNCHANGED <<alerts, pings>>
    BY <1>2 DEF TriggerInsert, CacheNewAlert, QueueContacts, QueueCenters, UpdateRow,
                CacheStatus, RefetchMonitor, Abort
  <1>3. ASSUME NEW r \in Requests, Commit(r) PROVE Ledger!Next
    BY <1>3, CommitLedger DEF Requested, Ledger!Next
  <1>4. ASSUME NEW u \in Users, DeleteMobileUser(u) PROVE Ledger!Next
    <2>1. Ledger!Forget(u)
      BY <1>4 DEF DeleteMobileUser, Ledger!Forget, Exists
    <2>2. QED
      BY <2>1 DEF Ledger!Next
  <1>5. ASSUME NEW a \in Alerts, CacheExpire(a) PROVE UNCHANGED <<alerts, pings>>
    BY <1>5 DEF CacheExpire
  <1>6. ASSUME NEW k \in tasks, RunTask(k) \/ RetryTask(k) PROVE UNCHANGED <<alerts, pings>>
    BY <1>6 DEF RunTask, RetryTask
  <1>7. UNCHANGED vars => UNCHANGED <<alerts, pings>>
    BY DEF vars
  <1>8. UNCHANGED <<alerts, pings>> => [Ledger!Next]_Ledger!lvars
    BY DEF Ledger!lvars
  <1>9. ASSUME NEW o \in Operators, DeleteOperator(o) PROVE Ledger!Next
    <2>1. Ledger!Dismiss(o)
      BY <1>9 DEF DeleteOperator, WithoutOperator, Ledger!Dismiss, Exists
    <2>2. QED
      BY <2>1 DEF Ledger!Next
  <1>10. QED
    BY <1>1, <1>2, <1>3, <1>4, <1>5, <1>6, <1>7, <1>8, <1>9 DEF Next, Step

LEMMA LedgerAlways == Spec => []LedgerInv
  <1>1. TypeInv /\ TrailInv /\ [Next]_vars => TrailInv'
    BY NextTrail
  <1>2. Init => LedgerInv
    BY InitTypeInv, InitOwn, InitRecent DEF LedgerInv
  <1>3. LedgerInv /\ [Next]_vars => LedgerInv'
    BY NextTypeInv, NextOwn, NextRecent, <1>1 DEF LedgerInv
  <1> QED BY <1>2, <1>3, PTL DEF Spec

\* The requests with their transactions, the cache and the queue do to the rows and
\* trails what the ledger allows, one alert at a time: nothing is opened twice, no
\* stamp of a closing is taken back, only the deletion of an operator takes their name
\* out of an alert, and no pruning touches the recent positions.
THEOREM SosLedgerImplemented == Spec => ImplementsLedger
  <1>1. Init => Ledger!Init
    BY DEF Init, Ledger!Init
  <1>2. LedgerInv /\ LedgerInv' /\ [Next]_vars => [Ledger!Next]_Ledger!lvars
    BY StepImplementsLedger
  <1> QED BY <1>1, <1>2, LedgerAlways, PTL DEF Spec, ImplementsLedger, Ledger!Spec

-----------------------------------------------------------------------------
(* What an alert keeps: from the steps of the ledger and the deletions     *)

\* Closed alerts are stamped.
Stamped(a) == Exists(a) /\ alerts[a].status \in ClosedStatus => alerts[a].resolved

\* What a step leaves of an alert: its owner, its responder and who closed it are
\* forgotten only by the step that deletes the person.
Continues(a) ==
    /\ Exists(a)'
    /\ \/ alerts'[a].owner = alerts[a].owner
       \/ alerts'[a].owner = None /\ alerts[a].owner \in accounts \ accounts'
    /\ alerts[a].resolved => alerts'[a].resolved
    /\ alerts[a].assigned # None /\ alerts'[a].assigned = None => alerts[a].assigned \in staff \ staff'
    /\ alerts[a].resolver # None /\ alerts'[a].resolver = None => alerts[a].resolver \in staff \ staff'

LEMMA RequestedKeeps ==
    ASSUME LedgerInv, Requested, NEW a \in Alerts
    PROVE  /\ Exists(a) => Continues(a)
           /\ Stamped(a) => Stamped(a)'
  <1>1. alerts \in [Alerts -> AlertRow \cup {None}] /\ None \notin AlertRow
    BY RowIsNotNone DEF LedgerInv, TypeInv, TypeOK
  <1>2. ASSUME NEW b \in Alerts, NEW u \in Users, Ledger!Open(b, u)
        PROVE  /\ Exists(a) => alerts'[a] = alerts[a]
               /\ Stamped(a) => Stamped(a)'
    <2>1. CASE a = b
      BY <1>1, <1>2, <2>1 DEF Ledger!Open, Stamped, Exists, ClosedStatus
    <2>2. CASE a # b
      BY <1>1, <1>2, <2>2 DEF Ledger!Open, Stamped, Exists
    <2> QED BY <2>1, <2>2
  <1>3. ASSUME NEW b \in Alerts, Ledger!Change(b)
        PROVE  /\ Exists(a) => Continues(a)
               /\ Stamped(a) => Stamped(a)'
    <2>1. alerts[b] # None /\ alerts[b] \in AlertRow
      BY <1>1, <1>3 DEF Ledger!Change
    <2>2. PICK s \in Status, o1, o2 \in Operators \cup {None}, d \in BOOLEAN :
            Ledger!Update(b, [owner |-> alerts[b].owner, status |-> s, assigned |-> o1,
                              resolved |-> d, resolver |-> o2])
      BY <1>3 DEF Ledger!Change
    <2>3. PICK row \in AlertRow :
            row = [owner |-> alerts[b].owner, status |-> s, assigned |-> o1,
                   resolved |-> d, resolver |-> o2]
      BY <2>1 DEF AlertRow
    <2>4. /\ row.owner = alerts[b].owner
          /\ row.status \in ClosedStatus \/ alerts[b].resolved => row.resolved
          /\ alerts[b].assigned # None => row.assigned # None
          /\ alerts[b].resolver # None => row.resolver # None
          /\ alerts' = [alerts EXCEPT ![b] = row]
      BY <2>2, <2>3 DEF Ledger!Update
    <2> QED BY <1>1, <2>4 DEF Continues, Stamped, Exists
  <1>4. alerts' = alerts => (Exists(a) => Continues(a)) /\ (Stamped(a) => Stamped(a)')
    BY DEF Continues, Stamped, Exists
  <1>5. alerts'[a] = alerts[a] => (Exists(a) => Continues(a))
    BY DEF Continues, Exists
  <1> QED BY <1>2, <1>3, <1>4, <1>5 DEF Requested, Ledger!Extend, Ledger!Read

LEMMA DeletionKeeps ==
    ASSUME LedgerInv, NEW a \in Alerts,
           \/ \E u \in Users : DeleteMobileUser(u)
           \/ \E o \in Operators : DeleteOperator(o)
    PROVE  /\ Exists(a) => Continues(a)
           /\ Stamped(a) => Stamped(a)'
  <1>1. /\ ~Exists(a) => alerts[a] = None
        /\ Exists(a) => alerts[a] \in AlertRow
        /\ None \notin AlertRow
    BY RowIsNotNone DEF LedgerInv, TypeInv, TypeOK, Exists
  <1>2. ASSUME NEW u \in Users, DeleteMobileUser(u)
        PROVE  /\ Exists(a) => Continues(a)
               /\ Stamped(a) => Stamped(a)'
    <2>1. /\ alerts'[a] = IF Exists(a) /\ alerts[a].owner = u
                          THEN [alerts[a] EXCEPT !.owner = None] ELSE alerts[a]
          /\ u \in accounts \ accounts'
      BY <1>2 DEF DeleteMobileUser
    <2>2. PICK new : new = alerts'[a]
      OBVIOUS
    <2>3. CASE Exists(a) /\ alerts[a].owner = u
      <3>1. PICK old \in AlertRow : old = alerts[a]
        BY <1>1, <2>3
      <3>2. new = [old EXCEPT !.owner = None]
        BY <2>1, <2>2, <2>3, <3>1
      <3>3. /\ new.owner = None /\ new.resolved = old.resolved /\ new.assigned = old.assigned
            /\ new.resolver = old.resolver /\ new.status = old.status /\ new \in AlertRow
        BY <3>2 DEF AlertRow
      <3> QED BY <1>1, <2>1, <2>2, <2>3, <3>1, <3>3 DEF Continues, Stamped, Exists
    <2>4. CASE ~(Exists(a) /\ alerts[a].owner = u)
      BY <2>1, <2>4 DEF Continues, Stamped, Exists
    <2> QED BY <2>3, <2>4
  <1>3. ASSUME NEW o \in Operators, DeleteOperator(o)
        PROVE  /\ Exists(a) => Continues(a)
               /\ Stamped(a) => Stamped(a)'
    <2>1. /\ alerts'[a] = IF Exists(a) THEN WithoutOperator(alerts[a], o) ELSE None
          /\ o \in staff \ staff'
      BY <1>3 DEF DeleteOperator
    <2>2. CASE Exists(a)
      <3>1. PICK old \in AlertRow : old = alerts[a]
        BY <1>1, <2>2
      <3>2. PICK new : new = alerts'[a]
        OBVIOUS
      <3>3. /\ new.owner = old.owner /\ new.status = old.status /\ new.resolved = old.resolved
            /\ new.assigned = IF old.assigned = o THEN None ELSE old.assigned
            /\ new.resolver = IF old.resolver = o THEN None ELSE old.resolver
            /\ new \in AlertRow
        BY <2>1, <2>2, <3>1, <3>2, WithoutOperatorIs
      <3> QED BY <1>1, <2>1, <2>2, <3>1, <3>2, <3>3 DEF Continues, Stamped, Exists
    <2>3. CASE ~Exists(a)
      BY <1>1, <2>1, <2>3 DEF Stamped, Exists
    <2> QED BY <2>2, <2>3
  <1> QED BY <1>2, <1>3

LEMMA LedgerKeeps ==
    ASSUME LedgerInv, LedgerInv', [Next]_vars, NEW a \in Alerts
    PROVE  /\ Exists(a) => Continues(a)
           /\ Stamped(a) => Stamped(a)'
  <1>1. alerts' = alerts => (Exists(a) => Continues(a)) /\ (Stamped(a) => Stamped(a)')
    BY DEF Continues, Stamped, Exists
  <1>2. ASSUME NEW r \in Requests, Begin(r) PROVE alerts' = alerts
    BY <1>2, BeginStarted DEF LedgerInv, TypeInv, Stores
  <1>3. ASSUME NEW r \in Requests,
               \/ TriggerInsert(r) \/ CacheNewAlert(r) \/ QueueContacts(r) \/ QueueCenters(r)
               \/ UpdateRow(r) \/ CacheStatus(r) \/ RefetchMonitor(r) \/ Abort(r)
        PROVE  alerts' = alerts
    BY <1>3 DEF TriggerInsert, CacheNewAlert, QueueContacts, QueueCenters, UpdateRow,
                CacheStatus, RefetchMonitor, Abort
  <1>4. ASSUME NEW r \in Requests, Commit(r) PROVE Requested
    BY <1>4, CommitLedger
  <1>5. ASSUME \/ \E b \in Alerts : CacheExpire(b)
               \/ \E k \in tasks : RunTask(k) \/ RetryTask(k)
               \/ UNCHANGED vars
        PROVE  alerts' = alerts
    BY <1>5 DEF CacheExpire, RunTask, RetryTask, vars
  <1> QED BY <1>1, <1>2, <1>3, <1>4, <1>5, RequestedKeeps, DeletionKeeps DEF Next, Step

ClosedAreStamped == \A a \in Alerts : Stamped(a)

\* update_sos_status and update_alert_status: an alert that reads resolved or cancelled
\* carries the time of its closing, whichever of the survivor and the operators closed
\* it, and keeps it when the operator who did is deleted.
THEOREM SosClosedAreStamped == Spec => []ClosedAreStamped
  <1>1. Init => ClosedAreStamped
    BY DEF Init, ClosedAreStamped, Stamped, Exists
  <1>2. LedgerInv /\ LedgerInv' /\ [Next]_vars /\ ClosedAreStamped => ClosedAreStamped'
    BY LedgerKeeps DEF ClosedAreStamped
  <1> QED BY <1>1, <1>2, LedgerAlways, PTL DEF Spec

AlertsContinue == [][\A a \in Alerts : Exists(a) => Continues(a)]_vars

\* An alert that was opened is never removed or handed to another survivor, and no
\* overlapping update takes back the time of its closing, its responder or who closed
\* it: a name goes out of an alert only in the step that deletes that survivor or that
\* operator.
THEOREM SosAlertsContinue == Spec => AlertsContinue
  <1>1. LedgerInv /\ LedgerInv' /\ [Next]_vars =>
          [\A a \in Alerts : Exists(a) => Continues(a)]_vars
    BY LedgerKeeps
  <1> QED BY <1>1, LedgerAlways, PTL DEF Spec, AlertsContinue

-----------------------------------------------------------------------------
(* Every request ends                                                      *)

\* tlapm proves nothing of WF, SF and ENABLED, so the fairness of FairSpec is
\* stated once more with the guard of each action where WF and SF say ENABLED.
\* Ready(r) is when Step(r) can be taken, Granted(r) when UpdateRow(r) can, or its
\* operator is gone and RefuseUpdate(r) can.
Granted(r) == req[r].pc = "update" /\ ~RowLocked(req[r].alert)

Ready(r) ==
    \/ req[r].pc \in {"contacts", "centers", "commit"}
    \/ req[r].pc = "cache" /\ req[r].op \in {"trigger", "user"}
    \/ req[r].pc = "insert" /\ req[r].user \in accounts /\ ~(Alerts \subseteq drawn)
    \/ req[r].pc = "refetch" /\ req[r].user # None
    \/ Granted(r) /\ ~OperatorGone(r)

\* WF_vars(Step(r)), WF_vars(MustFail(r) /\ Abort(r)) and
\* SF_vars(UpdateRow(r) \/ RefuseUpdate(r)).
Runs(r)  == []<>~Ready(r) \/ []<><<Step(r)>>_vars
Fails(r) == []<>~MustFail(r) \/ []<><<MustFail(r) /\ Abort(r)>>_vars
Turn(r)  == <>[]~Granted(r) \/ []<><<UpdateRow(r) \/ RefuseUpdate(r)>>_vars

\* The event loop runs every request, and a row lock goes to each of its waiters
\* in turn.
Fair    == \A r \in Requests : Runs(r) /\ Fails(r) /\ Turn(r)
Service == []Fair

EndInv == TypeInv /\ OwnInv /\ \A r \in Requests : req[r].pc = "idle" => req[r] = Idle

\* A behaviour of the specification under that fairness, seen from any moment on.
Always == []EndInv /\ [][Next]_vars /\ Service

At(r, c)    == req[r].pc = c
Ended(r)    == req[r] = Idle
Holds(s, a) == Locks(req[s]) /\ req[s].alert = a
Waits(r, a) == req[r].pc = "update" /\ req[r].alert = a

\* A request moves by its own steps only, and they move no other.
LEMMA Alone ==
    ASSUME TypeInv, NEW p \in Requests, Begin(p) \/ Step(p) \/ Abort(p)
    PROVE  \A r \in Requests : r # p => req'[r] = req[r]
  <1>1. TypeOK
    BY DEF TypeInv
  <1>2. CASE Begin(p)
    <2>1. PICK x : req' = [req EXCEPT ![p] = x]
      BY <1>2, BeginOpens
    <2>2. QED
      BY <1>1, <2>1 DEF TypeOK
  <1>3. CASE Commit(p) \/ Abort(p)
    BY <1>1, <1>3, EndMoves
  <1>4. CASE TriggerInsert(p)
    BY <1>4, InsertMoves DEF Moved
  <1>5. CASE RefetchMonitor(p)
    BY <1>5, RefetchMoves DEF Moved
  <1>6. CASE CacheNewAlert(p) \/ QueueContacts(p) \/ QueueCenters(p) \/ UpdateRow(p)
             \/ CacheStatus(p)
    <2>1. PICK pc : Goto(p, pc)
      BY <1>6 DEF CacheNewAlert, QueueContacts, QueueCenters, UpdateRow, CacheStatus
    <2>2. QED
      BY <1>1, <2>1, GotoMoves DEF Moved
  <1>7. QED
    BY <1>2, <1>3, <1>4, <1>5, <1>6 DEF Step

LEMMA OwnSteps ==
    ASSUME TypeInv, NEW r \in Requests, [Next]_vars
    PROVE  \/ req'[r] = req[r]
           \/ Begin(r) \/ Step(r) \/ Abort(r)
  <1>1. ASSUME \/ \E u \in Users : DeleteMobileUser(u)
               \/ \E o \in Operators : DeleteOperator(o)
               \/ \E a \in Alerts : CacheExpire(a)
               \/ \E k \in tasks : RunTask(k) \/ RetryTask(k)
               \/ UNCHANGED vars
        PROVE  req'[r] = req[r]
    BY <1>1, AroundStays
  <1>2. QED
    BY <1>1, Alone DEF Next

LEMMA AccountsShrink ==
    ASSUME [Next]_vars, TypeInv PROVE accounts' \subseteq accounts /\ drawn \subseteq drawn'
  <1>1. ASSUME NEW r \in Requests, Begin(r)
        PROVE  accounts' \subseteq accounts /\ drawn \subseteq drawn'
    BY <1>1, BeginStarted DEF Stores, TypeInv
  <1>2. ASSUME NEW r \in Requests, Step(r) \/ Abort(r)
        PROVE  accounts' \subseteq accounts /\ drawn \subseteq drawn'
    BY <1>2 DEF Step, TriggerInsert, CacheNewAlert, QueueContacts, QueueCenters, UpdateRow,
                CacheStatus, RefetchMonitor, Commit, Abort
  <1>3. QED
    BY <1>1, <1>2 DEF Next, DeleteMobileUser, DeleteOperator, CacheExpire, RunTask, RetryTask, vars

\* Where each step takes its request.
LEMMA StepGoes ==
    ASSUME TypeInv, NEW r \in Requests, Step(r)
    PROVE  \/ At(r, "insert") /\ At(r, "cache")'
           \/ At(r, "update") /\ (At(r, "cache") \/ At(r, "refetch"))'
           \/ At(r, "cache") /\ (At(r, "contacts") \/ At(r, "commit"))'
           \/ At(r, "contacts") /\ At(r, "centers")'
           \/ At(r, "centers") /\ At(r, "commit")'
           \/ At(r, "refetch") /\ At(r, "commit")'
           \/ At(r, "commit") /\ Ended(r)'
  <1>1. TypeOK
    BY DEF TypeInv
  <1>2. CASE TriggerInsert(r)
    BY <1>2, InsertMoves DEF TriggerInsert, Moved, At
  <1>3. CASE RefetchMonitor(r)
    BY <1>3, RefetchMoves DEF RefetchMonitor, Moved, At
  <1>4. CASE Commit(r)
    BY <1>1, <1>4, EndMoves DEF Commit, At, Ended
  <1>5. ASSUME NEW pc, Goto(r, pc) PROVE At(r, pc)'
    BY <1>1, <1>5, GotoMoves DEF Moved, At
  <1>6. CASE UpdateRow(r)
    BY <1>5, <1>6 DEF UpdateRow, At
  <1>7. CASE CacheNewAlert(r) \/ QueueContacts(r) \/ QueueCenters(r) \/ CacheStatus(r)
    BY <1>5, <1>7 DEF CacheNewAlert, QueueContacts, QueueCenters, CacheStatus, At
  <1>8. QED
    BY <1>2, <1>3, <1>4, <1>6, <1>7 DEF Step

\* A request in progress stays where it is, takes its step or is over.
LEMMA Progress ==
    ASSUME EndInv, NEW r \in Requests, [Next]_vars, ~Ended(r)
    PROVE  req'[r] = req[r] \/ Step(r) \/ Ended(r)'
  <1>1. TypeInv /\ TypeOK
    BY DEF EndInv, TypeInv
  <1>2. Abort(r) => Ended(r)'
    BY <1>1, EndMoves DEF Ended
  <1>3. QED
    BY <1>1, <1>2, OwnSteps, BeginIdle DEF Ended

LEMMA NextEndInv == EndInv /\ [Next]_vars => EndInv'
  <1> SUFFICES ASSUME EndInv, [Next]_vars PROVE EndInv'
    OBVIOUS
  <1>1. TypeInv /\ OwnInv /\ TypeInv' /\ OwnInv'
    BY NextTypeInv, NextOwn DEF EndInv
  <1>2. ASSUME NEW r \in Requests PROVE req'[r].pc = "idle" => req'[r] = Idle
    <2>1. CASE req'[r] = req[r]
      BY <2>1 DEF EndInv
    <2>2. CASE Begin(r)
      <3>1. PICK x : req' = [req EXCEPT ![r] = x] /\ Opened(x)
        BY <1>1, <2>2, BeginOpens
      <3>2. req'[r] = x /\ x.op # "none"
        BY <1>1, <3>1 DEF TypeInv, TypeOK, Opened
      <3>3. Shape(req[r])'
        BY <1>1 DEF TypeInv
      <3>4. QED
        BY <3>2, <3>3 DEF Shape
    <2>3. CASE Step(r)
      BY <1>1, <2>3, StepGoes DEF At, Ended
    <2>4. CASE Abort(r)
      BY <1>1, <2>4, EndMoves DEF TypeInv
    <2>5. QED
      BY <1>1, <2>1, <2>2, <2>3, <2>4, OwnSteps
  <1>3. QED
    BY <1>1, <1>2 DEF EndInv

LEMMA SpecAlways == Spec /\ Service => Always
  <1>1. Init => EndInv
    BY InitTypeInv, InitOwn DEF Init, EndInv
  <1>2. QED
    BY <1>1, NextEndInv, PTL DEF Spec, Always

LEMMA AlwaysAlways == Always => []Always
  BY PTL DEF Always, Service

LEMMA Served == ASSUME NEW s \in Requests PROVE Service => Runs(s) /\ Fails(s) /\ Turn(s)
  <1>1. Fair => Runs(s) /\ Fails(s) /\ Turn(s)
    BY DEF Fair
  <1>2. QED
    BY <1>1, PTL DEF Service

\* A request that is bound to fail is over in the end: accounts and UUIDs do not
\* come back, and the session keeps the missing owner it read.
GivesUp(r) == MustFail(r) ~> Ended(r)

LEMMA FailsEnd == ASSUME NEW r \in Requests PROVE Always => GivesUp(r)
  <1>1. EndInv /\ [Next]_vars /\ MustFail(r) => MustFail(r)' \/ Ended(r)'
    <2> SUFFICES ASSUME EndInv, [Next]_vars, MustFail(r) PROVE MustFail(r)' \/ Ended(r)'
      OBVIOUS
    <2>1. ~Ended(r)
      BY DEF MustFail, Ended, Idle
    <2>2. ~Step(r)
      BY DEF MustFail, Step, TriggerInsert, CacheNewAlert, QueueContacts, QueueCenters,
             UpdateRow, CacheStatus, RefetchMonitor, Commit
    <2>3. req'[r] = req[r] \/ Ended(r)'
      BY <2>1, <2>2, Progress
    <2>4. accounts' \subseteq accounts /\ drawn \subseteq drawn'
      BY AccountsShrink DEF EndInv
    <2>5. req'[r] = req[r] => MustFail(r)'
      BY <2>4 DEF MustFail
    <2>6. QED
      BY <2>3, <2>5
  <1>2. EndInv /\ <<MustFail(r) /\ Abort(r)>>_vars => Ended(r)'
    BY EndMoves DEF EndInv, TypeInv, Ended
  <1>3. Service => Fails(r)
    BY Served
  <1>4. QED
    BY <1>1, <1>2, <1>3, PTL DEF Always, Fails, GivesUp

\* A request leaves every stage but the wait for a row by itself.
Moving == {"insert", "cache", "contacts", "centers", "refetch", "commit"}

Passes(r, c) == At(r, c) ~> ~At(r, c)

LEMMA StageEnds ==
    ASSUME NEW r \in Requests, NEW c \in Moving
    PROVE  Always => Passes(r, c)
  <1>1. EndInv /\ At(r, c) => Ready(r) \/ MustFail(r)
    BY DEF EndInv, TypeInv, Shape, At, Ready, MustFail, Moving
  <1>2. EndInv /\ At(r, c) /\ <<Step(r)>>_vars => ~At(r, c)'
    <2> SUFFICES ASSUME EndInv, At(r, c), Step(r) PROVE ~At(r, c)'
      OBVIOUS
    <2>1. QED
      BY StepGoes DEF EndInv, At, Ended, Idle, Moving
  <1>3. Ended(r) => ~At(r, c)
    BY DEF Ended, At, Idle, Moving
  <1>4. Service => Runs(r)
    BY Served
  <1>5. Always => GivesUp(r)
    BY FailsEnd
  <1>6. QED
    BY <1>1, <1>2, <1>3, <1>4, <1>5, PTL DEF Always, Runs, Passes, GivesUp

\* What may come after a stage.
LEMMA StageGoes ==
    ASSUME NEW r \in Requests
    PROVE  /\ EndInv /\ [Next]_vars /\ At(r, "insert")
                => (At(r, "insert") \/ At(r, "cache") \/ Ended(r))'
           /\ EndInv /\ [Next]_vars /\ At(r, "update")
                => (At(r, "update") \/ At(r, "cache") \/ At(r, "refetch") \/ Ended(r))'
           /\ EndInv /\ [Next]_vars /\ At(r, "cache")
                => (At(r, "cache") \/ At(r, "contacts") \/ At(r, "commit") \/ Ended(r))'
           /\ EndInv /\ [Next]_vars /\ At(r, "contacts")
                => (At(r, "contacts") \/ At(r, "centers") \/ Ended(r))'
           /\ EndInv /\ [Next]_vars /\ At(r, "centers")
                => (At(r, "centers") \/ At(r, "commit") \/ Ended(r))'
           /\ EndInv /\ [Next]_vars /\ At(r, "refetch")
                => (At(r, "refetch") \/ At(r, "commit") \/ Ended(r))'
           /\ EndInv /\ [Next]_vars /\ At(r, "commit") => (At(r, "commit") \/ Ended(r))'
  <1>1. ASSUME EndInv, [Next]_vars, req[r].pc # "idle"
        PROVE  req'[r] = req[r] \/ Step(r) \/ Ended(r)'
    BY <1>1, Progress DEF Ended, Idle
  <1>2. EndInv => TypeInv
    BY DEF EndInv
  <1>3. QED
    BY <1>1, <1>2, StepGoes DEF At

\* Once past the wait for a row, a request ends without waiting for anybody.
Under(r)    == req[r].pc \in Moving
Finishes(r) == Under(r) ~> Ended(r)

LEMMA PastTheWait == ASSUME NEW r \in Requests PROVE Always => Finishes(r)
  <1>1. Always => (At(r, "commit") ~> Ended(r))
    <2>1. Always => Passes(r, "commit")
      BY StageEnds DEF Moving
    <2>2. EndInv /\ [Next]_vars /\ At(r, "commit") => At(r, "commit")' \/ Ended(r)'
      BY StageGoes
    <2>3. QED
      BY <2>1, <2>2, PTL DEF Always, Passes
  <1>2. Always => (At(r, "refetch") ~> Ended(r))
    <2>1. Always => Passes(r, "refetch")
      BY StageEnds DEF Moving
    <2>2. EndInv /\ [Next]_vars /\ At(r, "refetch") => At(r, "refetch")' \/ At(r, "commit")' \/ Ended(r)'
      BY StageGoes
    <2>3. QED
      BY <1>1, <2>1, <2>2, PTL DEF Always, Passes
  <1>3. Always => (At(r, "centers") ~> Ended(r))
    <2>1. Always => Passes(r, "centers")
      BY StageEnds DEF Moving
    <2>2. EndInv /\ [Next]_vars /\ At(r, "centers") => At(r, "centers")' \/ At(r, "commit")' \/ Ended(r)'
      BY StageGoes
    <2>3. QED
      BY <1>1, <2>1, <2>2, PTL DEF Always, Passes
  <1>4. Always => (At(r, "contacts") ~> Ended(r))
    <2>1. Always => Passes(r, "contacts")
      BY StageEnds DEF Moving
    <2>2. EndInv /\ [Next]_vars /\ At(r, "contacts") => At(r, "contacts")' \/ At(r, "centers")' \/ Ended(r)'
      BY StageGoes
    <2>3. QED
      BY <1>3, <2>1, <2>2, PTL DEF Always, Passes
  <1>5. Always => (At(r, "cache") ~> Ended(r))
    <2>1. Always => Passes(r, "cache")
      BY StageEnds DEF Moving
    <2>2. EndInv /\ [Next]_vars /\ At(r, "cache")
            => At(r, "cache")' \/ At(r, "contacts")' \/ At(r, "commit")' \/ Ended(r)'
      BY StageGoes
    <2>3. QED
      BY <1>1, <1>4, <2>1, <2>2, PTL DEF Always, Passes
  <1>6. Always => (At(r, "insert") ~> Ended(r))
    <2>1. Always => Passes(r, "insert")
      BY StageEnds DEF Moving
    <2>2. EndInv /\ [Next]_vars /\ At(r, "insert") => At(r, "insert")' \/ At(r, "cache")' \/ Ended(r)'
      BY StageGoes
    <2>3. QED
      BY <1>5, <2>1, <2>2, PTL DEF Always, Passes
  <1>7. Under(r) => \/ At(r, "insert") \/ At(r, "cache") \/ At(r, "contacts")
                    \/ At(r, "centers") \/ At(r, "refetch") \/ At(r, "commit")
    BY DEF Under, At, Moving
  <1>8. QED
    BY <1>1, <1>2, <1>3, <1>4, <1>5, <1>6, <1>7, PTL DEF Finishes

\* Whoever holds a row lets go of it, and nobody takes it from them before.
Freed(a) == RowLocked(a) ~> ~RowLocked(a)

LEMMA RowsAreReleased == ASSUME NEW a \in Alerts PROVE Always => Freed(a)
  <1>1. ASSUME NEW s \in Requests PROVE Always => (Holds(s, a) => <>~RowLocked(a))
    <2>1. EndInv /\ [Next]_vars /\ Holds(s, a) => Holds(s, a)' \/ ~RowLocked(a)'
      <3> SUFFICES ASSUME EndInv, [Next]_vars, Holds(s, a), RowLocked(a)' PROVE Holds(s, a)'
        OBVIOUS
      <3>1. TypeInv /\ TypeOK /\ OwnInv /\ OwnInv' /\ Shape(req[s])
        BY NextOwn DEF EndInv, TypeInv
      <3>2. req'[s] = req[s] \/ Step(s) \/ Ended(s)'
        BY Progress DEF Ended, Idle, Holds, Locks
      <3>3. ASSUME Step(s), ~Ended(s)' PROVE Holds(s, a)'
        <4>1. CASE RefetchMonitor(s)
          BY <4>1, <3>1, RefetchMoves DEF Moved, RefetchMonitor, Holds, Locks
        <4>2. CASE CacheStatus(s)
          BY <4>2, <3>1, GotoMoves DEF Moved, CacheStatus, Holds, Locks
        <4>3. CASE Commit(s)
          BY <3>1, <3>3, <4>3, EndMoves DEF Ended
        <4>4. QED
          BY <3>3, <4>1, <4>2, <4>3 DEF Step, TriggerInsert, CacheNewAlert, QueueContacts,
             QueueCenters, UpdateRow, Holds, Locks
      <3>4. ASSUME Ended(s)' PROVE FALSE
        <4>1. PICK p \in Requests : Locks(req'[p]) /\ req'[p].alert = a
          BY DEF RowLocked, Locks
        <4>2. p # s
          BY <3>4, <4>1 DEF Ended, Idle, Locks
        <4>3. req[p] = req'[p]
          <5>1. req'[s] # req[s]
            BY <3>4 DEF Ended, Idle, Holds, Locks
          <5>2. QED
            BY <3>1, <4>2, <5>1, OwnSteps, Alone
        <4>4. QED
          BY <3>1, <4>1, <4>2, <4>3 DEF OwnInv, Holds
      <3>5. QED
        BY <3>2, <3>3, <3>4 DEF Holds
    <2>2. Holds(s, a) => Under(s)
      BY DEF Holds, Locks, Under, Moving
    <2>3. Ended(s) => ~Holds(s, a)
      BY DEF Ended, Idle, Holds, Locks
    <2>4. Always => Finishes(s)
      BY PastTheWait
    <2>5. QED
      BY <2>1, <2>2, <2>3, <2>4, PTL DEF Always, Finishes
  <1>2. Always => (RowLocked(a) => <>~RowLocked(a))
    BY <1>1 DEF RowLocked, Holds, Locks
  <1>3. QED
    BY <1>2, AlwaysAlways, PTL DEF Freed

\* Who waits for a row gets it in turn, or fails, then too if the operator it names
\* is gone: the row is free again and again.
LEMMA WaitEnds ==
    ASSUME NEW r \in Requests, NEW a \in Alerts
    PROVE  Always => (Waits(r, a) => <>Ended(r))
  <1>1. EndInv /\ [Next]_vars /\ Waits(r, a) => Waits(r, a)' \/ Under(r)' \/ Ended(r)'
    <2> SUFFICES ASSUME EndInv, [Next]_vars, Waits(r, a)
                 PROVE  Waits(r, a)' \/ Under(r)' \/ Ended(r)'
      OBVIOUS
    <2>1. req'[r] = req[r] \/ Step(r) \/ Ended(r)'
      BY Progress DEF Waits, Ended, Idle
    <2>2. Step(r) => Under(r)'
      BY StepGoes DEF EndInv, Waits, At, Under, Moving
    <2>3. QED
      BY <2>1, <2>2 DEF Waits
  <1>2. EndInv /\ Waits(r, a) /\ <<UpdateRow(r) \/ RefuseUpdate(r)>>_vars => Under(r)' \/ Ended(r)'
    <2> SUFFICES ASSUME EndInv, UpdateRow(r) \/ RefuseUpdate(r) PROVE Under(r)' \/ Ended(r)'
      OBVIOUS
    <2>1. CASE UpdateRow(r)
      <3>1. PICK pc \in {"cache", "refetch"} : Goto(r, pc)
        BY <2>1 DEF UpdateRow
      <3>2. QED
        BY <3>1, GotoMoves DEF EndInv, TypeInv, Moved, Under, Moving
    <2>2. CASE RefuseUpdate(r)
      BY <2>2, EndMoves DEF RefuseUpdate, EndInv, TypeInv, Ended
    <2>3. QED
      BY <2>1, <2>2
  <1>3. Waits(r, a) /\ ~RowLocked(a) => Granted(r)
    BY DEF Waits, Granted
  <1>4. Under(r) => ~Waits(r, a)
    BY DEF Under, Waits, Moving
  <1>5. Always => Freed(a)
    BY RowsAreReleased
  <1>6. Always => Finishes(r)
    BY PastTheWait
  <1>7. Service => Turn(r)
    BY Served
  <1>8. QED
    BY <1>1, <1>2, <1>3, <1>4, <1>5, <1>6, <1>7, PTL DEF Always, Turn, Finishes, Freed

\* Every request that started is over in the end, whatever the others do, those
\* that wait for a row too: no two wait for each other, for who holds a row waits
\* for nothing.
THEOREM SosRequestsEnd == Spec /\ Service => RequestsEnd
  <1> SUFFICES ASSUME NEW r \in Requests
               PROVE  Spec /\ Service => (req[r] # Idle ~> req[r] = Idle)
    BY DEF RequestsEnd
  <1>1. Always => (At(r, "update") /\ EndInv => <>Ended(r))
    <2>1. At(r, "update") /\ EndInv => \E a \in Alerts : Waits(r, a)
      BY DEF At, EndInv, TypeInv, Shape, Waits
    <2>2. \A a \in Alerts : Always => (Waits(r, a) => <>Ended(r))
      BY WaitEnds
    <2>3. QED
      BY <2>1, <2>2
  <1>2. Always => Finishes(r)
    BY PastTheWait
  <1>3. EndInv => At(r, "update") \/ Under(r) \/ Ended(r)
    BY DEF EndInv, TypeInv, Shape, At, Under, Moving, Ended
  <1>4. req[r] = Idle <=> Ended(r)
    BY DEF Ended
  <1>5. QED
    BY <1>1, <1>2, <1>3, <1>4, SpecAlways, AlwaysAlways, PTL DEF Finishes, Always
=============================================================================
