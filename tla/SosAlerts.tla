------------------------------ MODULE SosAlerts ------------------------------
(***************************************************************************)
(* Emergency alerts: sos_service, sos_alert_repo / location_ping_repo, the *)
(* survivor and operator endpoints over them, the Redis state cache, the   *)
(* Celery notification queue and the deletion of survivors and operators.  *)
(*                                                                         *)
(* A request is one HTTP request with one database session (get_db): it    *)
(* reads committed rows, writes rows nobody else sees, and either commits  *)
(* once after its handler returned or rolls everything back when anything  *)
(* raised.  Redis and the broker are outside that transaction: what was    *)
(* sent to them stays.  Every await between two of those effects is an     *)
(* interleaving point, so every effect is an action of its own.            *)
(***************************************************************************)
EXTENDS Naturals, FiniteSets

CONSTANTS Users,            \* survivors
          Operators,        \* the operators that alerts can be given to
          Alerts,           \* the UUIDs sos_alerts rows may draw
          Requests,         \* HTTP requests that can be in progress at once
          Times,            \* recorded_at of location pings (one ping per value)
          HistoryLimit,     \* location_limit of GET /sos/status (20)
          MonitorLimit,     \* pings kept by the operator monitor (10)
          MaxRetries,       \* max_retries of the notification tasks (3)
          UserStatuses,     \* statuses survivors send in PATCH /sos/status
          OperatorStatuses, \* statuses operators send
          None              \* SQL NULL, a missing row, a missing cache key

OpenStatus   == {"active", "assigned", "escalated"}
ClosedStatus == {"resolved", "cancelled"}
Status       == {"active"} \cup UserStatuses \cup OperatorStatuses

ASSUME SosAssumption ==
    /\ Times \subseteq Nat
    /\ HistoryLimit \in Nat \ {0}
    /\ MonitorLimit \in Nat \ {0}
    /\ MaxRetries \in Nat
    /\ None \notin Users \cup Operators \cup Alerts
    /\ None \notin Status
    /\ None \notin [owner: Users \cup {None}, status: Status,
                    assigned: Operators \cup {None}, resolved: BOOLEAN,
                    resolver: Operators \cup {None}]

\* Trails are finite: what a read keeps is counted.
ASSUME TrailAssumption == IsFiniteSet(Times)

\* The definitions marked "Faulty" are not part of the specification: each is
\* the definition that follows it with a bug the code could have had, and shows
\* which property would notice.

VARIABLES accounts,  \* rows of users
          staff,     \* rows of operator_users
          alerts,    \* committed rows of sos_alerts
          pings,     \* committed rows of location_pings, by alert
          cache,     \* Redis sos:{id}: the status it holds
          tasks,     \* Celery queue "notifications"
          req,       \* the requests in progress
          drawn,     \* UUIDs already drawn for an alert
          fanned,    \* history: alerts whose support-centre task was queued
          sent,      \* history: every ping that was ever committed
          diverged   \* history: alerts whose cache entry lost its row (see below)

vars == <<accounts, staff, alerts, pings, cache, tasks, req, drawn, fanned, sent, diverged>>

AlertRow == [owner: Users \cup {None}, status: Status,
             assigned: Operators \cup {None}, resolved: BOOLEAN,
             resolver: Operators \cup {None}]

Task == [kind: {"contacts", "centers"}, alert: Alerts, tries: 0..MaxRetries]

\* "pc" names the effect a request performs next.
Request ==
    [op: {"none", "trigger", "ping", "read", "user", "operator"},
     pc: {"idle", "insert", "cache", "contacts", "centers", "update", "refetch", "commit"},
     user: Users \cup {None}, alert: Alerts \cup {None},
     status: Status \cup {None}, by: Operators \cup {None},
     add: SUBSET Times, drop: SUBSET (Alerts \X Times)]

Idle == [op |-> "none", pc |-> "idle", user |-> None, alert |-> None,
         status |-> None, by |-> None, add |-> {}, drop |-> {}]

TypeOK ==
    /\ accounts \subseteq Users
    /\ staff \subseteq Operators
    /\ alerts \in [Alerts -> AlertRow \cup {None}]
    /\ pings \in [Alerts -> SUBSET Times]
    /\ cache \in [Alerts -> Status \cup {None}]
    /\ tasks \subseteq Task
    /\ req \in [Requests -> Request]
    /\ drawn \subseteq Alerts
    /\ fanned \subseteq Alerts
    /\ sent \in [Alerts -> SUBSET Times]
    /\ diverged \subseteq Alerts

Init ==
    /\ accounts = Users
    /\ staff = Operators
    /\ alerts = [a \in Alerts |-> None]
    /\ pings = [a \in Alerts |-> {}]
    /\ cache = [a \in Alerts |-> None]
    /\ tasks = {}
    /\ req = [r \in Requests |-> Idle]
    /\ drawn = {}
    /\ fanned = {}
    /\ sent = [a \in Alerts |-> {}]
    /\ diverged = {}

-----------------------------------------------------------------------------
(* What a request reads.                                                   *)

Exists(a) == alerts[a] # None

\* The rows get_active_by_user selects; scalar_one_or_none raises on two or more.
OpenAlertsOf(u) ==
    {a \in Alerts : Exists(a) /\ alerts[a].owner = u /\ alerts[a].status \in OpenStatus}

\* Faulty: the slice ends one short.
BeyondLimitShort(a, limit) ==
    {a} \X {t \in pings[a] : Cardinality({q \in pings[a] : q > t}) + 1 >= limit}

\* The pings a read of alert a drops from location_pings when it assigns the
\* "limit" most recent ones back to the delete-orphan relationship.
BeyondLimit(a, limit) ==
    {a} \X {t \in pings[a] : Cardinality({q \in pings[a] : q > t}) >= limit}

\* get_monitor_alerts over the rows "row": every open alert, and the resolved
\* ones younger than a day, "recent".
Monitored(row, recent) ==
    {a \in Alerts : /\ row[a] # None
                    /\ \/ row[a].status \in OpenStatus
                       \/ row[a].status = "resolved" /\ a \in recent}

\* Faulty: the status is set on the object and flushed at the commit only.
RowLockedAtCommit(a) == FALSE

\* An UPDATE of a row waits for the transaction that updated it to end.
RowLocked(a) ==
    \E r \in Requests : /\ req[r].op \in {"user", "operator"}
                        /\ req[r].alert = a
                        /\ req[r].pc \in {"cache", "refetch", "commit"}

\* A row that references user u was inserted by a request in progress: the
\* foreign key holds u's row until that request ends.
OwnerReferenced(u) ==
    \E r \in Requests : /\ req[r].op \in {"trigger", "ping"} /\ req[r].user = u
                        /\ req[r].pc \in {"cache", "contacts", "centers", "commit"}

\* An update with this status writes the operator it carries into the row.
NamesOperator(q) == q.by # None /\ q.status \in {"assigned"} \cup ClosedStatus

\* The foreign key refuses the update: the operator it names is gone.
OperatorGone(r) == NamesOperator(req[r]) /\ req[r].by \notin staff

\* Faulty: the column has no foreign key, so nothing holds the operator's row.
OperatorNotHeld(o) == FALSE

\* A request that has written operator o into a row holds o's row until it ends.
OperatorReferenced(o) ==
    \E r \in Requests : /\ req[r].op = "operator" /\ req[r].by = o
                        /\ NamesOperator(req[r])
                        /\ req[r].pc \in {"refetch", "commit"}

Goto(r, pc) == req' = [req EXCEPT ![r].pc = pc]

-----------------------------------------------------------------------------
(* POST /sos/trigger                                                       *)

\* get_active_by_user: with no open alert a new one is created, with one its
\* location is updated; with two or more the request fails and changes nothing.
TriggerLookup(r, u) ==
    /\ req[r] = Idle
    /\ u \in accounts
    /\ \/ /\ OpenAlertsOf(u) = {}
          /\ req' = [req EXCEPT ![r] = [Idle EXCEPT !.op = "trigger", !.pc = "insert",
                                                    !.user = u]]
       \/ \E a \in Alerts, t \in Times :
            /\ OpenAlertsOf(u) = {a}
            /\ t \notin sent[a]
            /\ req' = [req EXCEPT ![r] = [Idle EXCEPT !.op = "ping", !.pc = "commit", !.user = u,
                                                      !.alert = a, !.add = {t}]]
    /\ UNCHANGED <<accounts, staff, alerts, pings, cache, tasks, drawn, fanned, sent, diverged>>

\* sos_alert_repo.create: the flushed row is invisible to others.  The foreign
\* key fails when the user is gone (that request can only Abort).
TriggerInsert(r) ==
    /\ req[r].pc = "insert"
    /\ req[r].user \in accounts
    /\ \E a \in Alerts \ drawn :
         /\ drawn' = drawn \cup {a}
         /\ req' = [req EXCEPT ![r].alert = a, ![r].pc = "cache"]
    /\ UNCHANGED <<accounts, staff, alerts, pings, cache, tasks, fanned, sent, diverged>>

\* sos_cache.cache_alert of a new alert, before its row is committed.
CacheNewAlert(r) ==
    /\ req[r].op = "trigger" /\ req[r].pc = "cache"
    /\ cache' = [cache EXCEPT ![req[r].alert] = "active"]
    /\ Goto(r, "contacts")
    /\ UNCHANGED <<accounts, staff, alerts, pings, tasks, drawn, fanned, sent, diverged>>

\* Faulty: the method returns early for a user without trusted contacts.
QueueContactsOrReturn(r) ==
    /\ req[r].pc = "contacts"
    /\ \/ Goto(r, "commit") /\ UNCHANGED tasks
       \/ /\ tasks' = tasks \cup {[kind |-> "contacts", alert |-> req[r].alert, tries |-> 0]}
          /\ Goto(r, "centers")
    /\ UNCHANGED <<accounts, staff, alerts, pings, cache, drawn, fanned, sent, diverged>>

\* _queue_notifications, trusted contacts: a task only if the user has any.
QueueContacts(r) ==
    /\ req[r].pc = "contacts"
    /\ tasks' \in {tasks, tasks \cup {[kind |-> "contacts", alert |-> req[r].alert, tries |-> 0]}}
    /\ Goto(r, "centers")
    /\ UNCHANGED <<accounts, staff, alerts, pings, cache, drawn, fanned, sent, diverged>>

\* _queue_notifications, support centres: always a task.
QueueCenters(r) ==
    /\ req[r].pc = "centers"
    /\ tasks' = tasks \cup {[kind |-> "centers", alert |-> req[r].alert, tries |-> 0]}
    /\ fanned' = fanned \cup {req[r].alert}
    /\ Goto(r, "commit")
    /\ UNCHANGED <<accounts, staff, alerts, pings, cache, drawn, sent, diverged>>

-----------------------------------------------------------------------------
(* Locations and reads                                                     *)

\* POST /sos/location-update: the alert must exist; neither its status nor who
\* owns it is looked at.  The ping row references the alert's owner.
UpdateLocation(r, a, t) ==
    /\ req[r] = Idle
    /\ accounts # {}
    /\ Exists(a)
    /\ t \notin sent[a]
    /\ req' = [req EXCEPT ![r] = [Idle EXCEPT !.op = "ping", !.pc = "commit", !.alert = a,
                                              !.user = alerts[a].owner, !.add = {t}]]
    /\ UNCHANGED <<accounts, staff, alerts, pings, cache, tasks, drawn, fanned, sent, diverged>>

\* POST /sos/location-batch: several pings at once, checked by the foreign key
\* to the alert only.
ProcessOfflineLocations(r, a, T) ==
    /\ req[r] = Idle
    /\ accounts # {}
    /\ Exists(a)
    /\ T \cap sent[a] = {}
    /\ req' = [req EXCEPT ![r] = [Idle EXCEPT !.op = "ping", !.pc = "commit", !.alert = a,
                                              !.add = T]]
    /\ UNCHANGED <<accounts, staff, alerts, pings, cache, tasks, drawn, fanned, sent, diverged>>

\* GET /sos/status/{id} by the owner: anybody else gets an error and a rollback.
GetSosStatus(r, u, a) ==
    /\ req[r] = Idle
    /\ u \in accounts
    /\ Exists(a) /\ alerts[a].owner = u
    /\ req' = [req EXCEPT ![r] = [Idle EXCEPT !.op = "read", !.pc = "commit",
                                              !.drop = BeyondLimit(a, HistoryLimit)]]
    /\ UNCHANGED <<accounts, staff, alerts, pings, cache, tasks, drawn, fanned, sent, diverged>>

\* GET /sos-monitor/alerts: fails as a whole when one alert has no owner left,
\* because SOSResponse.user_id is not optional.
ListMonitorAlerts(r) ==
    /\ req[r] = Idle
    /\ \E recent \in SUBSET Alerts :
         LET shown == Monitored(alerts, recent) IN
         /\ \A a \in shown : alerts[a].owner # None
         /\ req' = [req EXCEPT ![r] =
                      [Idle EXCEPT !.op = "read", !.pc = "commit",
                                   !.drop = UNION {BeyondLimit(a, MonitorLimit) : a \in shown}]]
    /\ UNCHANGED <<accounts, staff, alerts, pings, cache, tasks, drawn, fanned, sent, diverged>>

-----------------------------------------------------------------------------
(* PATCH /sos/status/{id} and PATCH /sos-monitor/alerts/{id}/status        *)

\* update_sos_status: the owner may send any status.
UserUpdateLoad(r, u, a, s) ==
    /\ req[r] = Idle
    /\ u \in accounts
    /\ Exists(a) /\ alerts[a].owner = u
    /\ req' = [req EXCEPT ![r] = [Idle EXCEPT !.op = "user", !.pc = "update",
                                              !.alert = a, !.user = u, !.status = s]]
    /\ UNCHANGED <<accounts, staff, alerts, pings, cache, tasks, drawn, fanned, sent, diverged>>

\* update_alert_status: o is the responder sent, whom nobody looks up, or the
\* operator calling.  The session keeps the row it read, its owner included,
\* until the request ends.
OperatorUpdateLoad(r, o, a, s) ==
    /\ req[r] = Idle
    /\ Exists(a)
    /\ req' = [req EXCEPT ![r] = [Idle EXCEPT !.op = "operator", !.pc = "update",
                                              !.alert = a, !.by = o, !.status = s,
                                              !.user = alerts[a].owner]]
    /\ UNCHANGED <<accounts, staff, alerts, pings, cache, tasks, drawn, fanned, sent, diverged>>

\* sos_alert_repo.update_status, the row lock it takes; then the foreign key is
\* checked (when it fails, that request can only Abort).
UpdateRow(r) ==
    /\ req[r].pc = "update"
    /\ ~RowLocked(req[r].alert)
    /\ ~OperatorGone(r)
    /\ Goto(r, IF req[r].op = "user" THEN "cache" ELSE "refetch")
    /\ UNCHANGED <<accounts, staff, alerts, pings, cache, tasks, drawn, fanned, sent, diverged>>

\* sos_alert_repo.update_status, the columns it sets.
StatusUpdate(row, status, by) ==
    [row EXCEPT !.status   = status,
                !.assigned = IF status = "assigned" /\ by # None THEN by ELSE @,
                !.resolved = @ \/ status \in ClosedStatus,
                !.resolver = IF status \in ClosedStatus /\ by # None THEN by ELSE @]

\* The survivor's handler rewrites the cache entry while it holds the row.
CacheStatus(r) ==
    /\ req[r].op = "user" /\ req[r].pc = "cache"
    /\ cache' = [cache EXCEPT ![req[r].alert] = req[r].status]
    /\ diverged' = diverged \ {req[r].alert}
    /\ Goto(r, "commit")
    /\ UNCHANGED <<accounts, staff, alerts, pings, tasks, drawn, fanned, sent>>

\* Faulty: the re-read asks for the row lock in a session of its own.
RefetchMonitorLocking(r) ==
    /\ req[r].pc = "refetch"
    /\ ~RowLocked(req[r].alert)
    /\ Goto(r, "commit")
    /\ UNCHANGED <<accounts, staff, alerts, pings, cache, tasks, drawn, fanned, sent, diverged>>

\* The operator's handler re-reads the monitor list, its own update included,
\* and converts the updated alert as the session holds it: no owner raises.
RefetchMonitor(r) ==
    LET a   == req[r].alert
        row == [alerts EXCEPT ![a] = StatusUpdate(@, req[r].status, req[r].by)]
    IN  /\ req[r].pc = "refetch"
        /\ req[r].user # None
        /\ \E recent \in SUBSET Alerts :
             req' = [req EXCEPT ![r].pc = "commit",
                                ![r].drop = UNION {BeyondLimit(b, MonitorLimit) :
                                                     b \in Monitored(row, recent) \cup {a}}]
        /\ UNCHANGED <<accounts, staff, alerts, pings, cache, tasks, drawn, fanned, sent, diverged>>

-----------------------------------------------------------------------------
(* The end of a request                                                    *)

\* Faulty: the status is left to a default that the column does not have.
NewAlertNoStatus(u) == [owner |-> u, status |-> None, assigned |-> None,
                        resolved |-> FALSE, resolver |-> None]

NewAlert(u) == [owner |-> u, status |-> "active", assigned |-> None,
                resolved |-> FALSE, resolver |-> None]

CommittedRows(r) ==
    CASE req[r].op = "trigger" -> [alerts EXCEPT ![req[r].alert] = NewAlert(req[r].user)]
      [] req[r].op \in {"user", "operator"} ->
           [alerts EXCEPT ![req[r].alert] = StatusUpdate(@, req[r].status, req[r].by)]
      [] OTHER -> alerts

Inserted(r, a) == IF a = req[r].alert THEN req[r].add ELSE {}

\* get_db commits after the handler returned: rows and pings become visible and
\* the pings beyond the limit of a read are deleted.
Commit(r) ==
    /\ req[r].pc = "commit"
    /\ alerts' = CommittedRows(r)
    /\ pings' = [a \in Alerts |-> (pings[a] \cup Inserted(r, a))
                                    \ {t \in Times : <<a, t>> \in req[r].drop}]
    /\ sent' = [a \in Alerts |-> sent[a] \cup Inserted(r, a)]
    /\ diverged' = IF req[r].op = "operator" THEN diverged \cup {req[r].alert} ELSE diverged
    /\ req' = [req EXCEPT ![r] = Idle]
    /\ UNCHANGED <<accounts, staff, cache, tasks, drawn, fanned>>

\* Redis, the broker, a constraint, the response conversion or the commit raised,
\* or the process died: get_db rolls back.  Redis and the broker keep what they got.
Abort(r) ==
    /\ req[r].pc # "idle"
    /\ req' = [req EXCEPT ![r] = Idle]
    /\ diverged' = IF \/ req[r].op = "user" /\ req[r].pc = "commit"
                      \/ req[r].op = "trigger" /\ req[r].pc \in {"contacts", "centers", "commit"}
                   THEN diverged \cup {req[r].alert} ELSE diverged
    /\ UNCHANGED <<accounts, staff, alerts, pings, cache, tasks, drawn, fanned, sent>>

-----------------------------------------------------------------------------
(* Around the requests                                                     *)

\* Faulty: the foreign key cascades.
DeleteMobileUserCascade(u) ==
    /\ u \in accounts
    /\ ~OwnerReferenced(u)
    /\ \A a \in Alerts : Exists(a) /\ alerts[a].owner = u => ~RowLocked(a)
    /\ accounts' = accounts \ {u}
    /\ alerts' = [a \in Alerts |-> IF Exists(a) /\ alerts[a].owner = u THEN None ELSE alerts[a]]
    /\ UNCHANGED <<staff, pings, cache, tasks, req, drawn, fanned, sent, diverged>>

\* DELETE mobile user: sos_alerts.user_id is set to NULL (ondelete SET NULL).
\* It waits for the transactions that hold the rows it writes.
DeleteMobileUser(u) ==
    /\ u \in accounts
    /\ ~OwnerReferenced(u)
    /\ \A a \in Alerts : Exists(a) /\ alerts[a].owner = u => ~RowLocked(a)
    /\ accounts' = accounts \ {u}
    /\ alerts' = [a \in Alerts |->
                    IF Exists(a) /\ alerts[a].owner = u
                    THEN [alerts[a] EXCEPT !.owner = None] ELSE alerts[a]]
    /\ UNCHANGED <<staff, pings, cache, tasks, req, drawn, fanned, sent, diverged>>

\* ON DELETE SET NULL of assigned_to and resolved_by; the times they go with stay.
WithoutOperator(row, o) ==
    [row EXCEPT !.assigned = IF @ = o THEN None ELSE @,
                !.resolver = IF @ = o THEN None ELSE @]

\* operator_user_service.delete_user, called by an operator other than o.  It waits
\* for the transactions that hold the rows it writes, and for those that hold o.
DeleteOperator(o) ==
    /\ o \in staff
    /\ ~OperatorReferenced(o)
    /\ \A a \in Alerts :
         Exists(a) /\ o \in {alerts[a].assigned, alerts[a].resolver} => ~RowLocked(a)
    /\ staff' = staff \ {o}
    /\ alerts' = [a \in Alerts |-> IF Exists(a) THEN WithoutOperator(alerts[a], o) ELSE None]
    /\ UNCHANGED <<accounts, pings, cache, tasks, req, drawn, fanned, sent, diverged>>

\* The entry's time to live, an hour, is over.
CacheExpire(a) ==
    /\ cache[a] # None
    /\ cache' = [cache EXCEPT ![a] = None]
    /\ UNCHANGED <<accounts, staff, alerts, pings, tasks, req, drawn, fanned, sent, diverged>>

\* A notification task leaves the queue: a worker ran it, it failed for the last
\* time, or the worker died with it (a task is acknowledged when it is taken).
RunTask(k) ==
    /\ k \in tasks
    /\ tasks' = tasks \ {k}
    /\ UNCHANGED <<accounts, staff, alerts, pings, cache, req, drawn, fanned, sent, diverged>>

\* Faulty: max_retries=None.
RetryTaskForever(k) ==
    /\ k \in tasks
    /\ tasks' = (tasks \ {k}) \cup {[k EXCEPT !.tries = IF @ < MaxRetries THEN @ + 1 ELSE 0]}
    /\ UNCHANGED <<accounts, staff, alerts, pings, cache, req, drawn, fanned, sent, diverged>>

\* The task raised: self.retry queues it again, at most MaxRetries times.
RetryTask(k) ==
    /\ k \in tasks
    /\ k.tries < MaxRetries
    /\ tasks' = (tasks \ {k}) \cup {[k EXCEPT !.tries = @ + 1]}
    /\ UNCHANGED <<accounts, staff, alerts, pings, cache, req, drawn, fanned, sent, diverged>>

Begin(r) ==
    \/ \E u \in Users : TriggerLookup(r, u)
    \/ \E a \in Alerts, t \in Times : UpdateLocation(r, a, t)
    \/ \E a \in Alerts, T \in SUBSET Times : ProcessOfflineLocations(r, a, T)
    \/ \E u \in Users, a \in Alerts : GetSosStatus(r, u, a)
    \/ ListMonitorAlerts(r)
    \/ \E u \in Users, a \in Alerts, s \in UserStatuses : UserUpdateLoad(r, u, a, s)
    \/ \E o \in Operators, a \in Alerts, s \in OperatorStatuses : OperatorUpdateLoad(r, o, a, s)

Step(r) ==
    \/ TriggerInsert(r) \/ CacheNewAlert(r) \/ QueueContacts(r) \/ QueueCenters(r)
    \/ UpdateRow(r) \/ CacheStatus(r) \/ RefetchMonitor(r) \/ Commit(r)

Next ==
    \/ \E r \in Requests : Begin(r) \/ Step(r) \/ Abort(r)
    \/ \E u \in Users : DeleteMobileUser(u)
    \/ \E o \in Operators : DeleteOperator(o)
    \/ \E a \in Alerts : CacheExpire(a)
    \/ \E k \in tasks : RunTask(k) \/ RetryTask(k)

Spec == Init /\ [][Next]_vars

\* The failures that are certain: the user's row is gone (foreign key), the
\* response cannot name an owner; or (a bound of the model) no UUID is left.
MustFail(r) ==
    \/ req[r].pc = "insert" /\ (req[r].user \notin accounts \/ Alerts \subseteq drawn)
    \/ req[r].pc = "refetch" /\ req[r].user = None

\* The row is granted and the update raises, because its operator is gone.
RefuseUpdate(r) ==
    /\ req[r].pc = "update"
    /\ ~RowLocked(req[r].alert)
    /\ OperatorGone(r)
    /\ Abort(r)

\* The event loop runs every request on until it ends, PostgreSQL grants a row
\* lock to its waiters in turn, and the workers take every task.
Fairness ==
    /\ \A r \in Requests : /\ WF_vars(Step(r))
                           /\ WF_vars(MustFail(r) /\ Abort(r))
                           /\ SF_vars(UpdateRow(r) \/ RefuseUpdate(r))
    /\ WF_vars(\E k \in tasks : RunTask(k) \/ RetryTask(k))

FairSpec == Spec /\ Fairness

-----------------------------------------------------------------------------
(* Properties                                                              *)

\* An alert anybody can see has had its support-centre task queued: trigger_sos
\* queues before get_db commits, so no failure between the two leaves a
\* committed alert that nobody was told about.
NoUnannouncedAlert == \A a \in Alerts : Exists(a) => a \in fanned

\* The MonitorLimit most recent pings an alert ever had are still stored,
\* whatever reads truncated location_pings while older ones were arriving
\* (get_by_id_with_locations, get_monitor_alerts delete what they cut off).
KeptPings == IF HistoryLimit < MonitorLimit THEN HistoryLimit ELSE MonitorLimit

MostRecent(S, n) == {t \in S : Cardinality({q \in S : q > t}) < n}

RecentPingsKept == \A a \in Alerts : MostRecent(sent[a], KeptPings) \subseteq pings[a]

\* Whoever an alert is assigned to, and whoever is said to have closed it, is an
\* operator who is there, though the responder of an update is sent by the client
\* and operators are deleted while updates that name them are in progress.
RespondersExist ==
    \A a \in Alerts :
        Exists(a) => {alerts[a].assigned, alerts[a].resolver} \subseteq staff \cup {None}

\* What Redis says of an alert is its committed status, unless an operator
\* changed the row (sos_monitor never writes the cache), a request failed after
\* it had written the entry ("diverged"), or the survivor's update that wrote it
\* is about to commit: the row lock orders the entries of concurrent updates as
\* it orders their commits.
CacheFollowsRow ==
    \A a \in Alerts :
        \/ ~Exists(a) \/ cache[a] = None \/ a \in diverged
        \/ cache[a] = alerts[a].status
        \/ \E r \in Requests : /\ req[r].op = "user" /\ req[r].alert = a
                               /\ req[r].pc = "commit" /\ req[r].status = cache[a]

\* A user has at most one open alert (trigger_sos returns the existing one).
OneOpenAlertPerUser ==
    \A a, b \in Alerts :
        /\ Exists(a) /\ alerts[a].status \in OpenStatus /\ alerts[a].owner # None
        /\ Exists(b) /\ alerts[b].status \in OpenStatus /\ alerts[b].owner = alerts[a].owner
        => a = b

\* Reading an alert or the monitor deletes no location.
ReadsDeleteNothing ==
    [][\A a \in Alerts : pings[a] \subseteq pings'[a]]_vars

\* What the requests, the cache and the queue together implement: AlertLedger.
Ledger == INSTANCE AlertLedger WITH Kept <- KeptPings

ImplementsLedger == Ledger!Spec

\* Every request ends, those that wait for a row too.
RequestsEnd == \A r \in Requests : req[r] # Idle ~> req[r] = Idle

\* The notification of a visible alert leaves the queue: it is run, or its
\* retries are spent.
NotificationsHandled ==
    \A a \in Alerts : Exists(a) ~> \A k \in tasks : k.alert # a
=============================================================================
