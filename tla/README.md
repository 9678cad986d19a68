# SafeNest backend: TLA+ models, model checking and proofs

SafeNest is a FastAPI backend for survivors of violence (mobile application) and
the operators who support them (administration panel). It runs on one asyncio
event loop per process, keeps rows in PostgreSQL (SQLAlchemy async sessions),
short-lived state in Redis, queues background work with Celery and pushes events
over WebSockets. This directory holds models of it, the TLC runs that check them
and the TLAPS proofs of what matters most.

## 1. The system

| Component | State | Operations | Interacts with |
|---|---|---|---|
| SOS alerts (`services/sos_service.py`, `repositories/sos.py`, `endpoints/sos.py`, `admin_api/sos_monitor.py`) | tables `sos_alerts`, `location_pings` | trigger, location update, offline batch, status read, history, survivor and operator status updates, operator monitor | Redis `sos:{id}`, Celery queue `notifications`, `users` |
| Database session (`db/database.py`, `repositories/base.py`) | one transaction per request | commit after the handler returned, rollback when anything raised | every handler |
| Redis stores (`db/redis.py`) | OTPs, revoked token ids, SOS states, sessions | set / get / delete with expiry | authentication, SOS |
| Background tasks (`workers/`) | Celery queues | notify contacts, notify centres, retry | SOS |
| Survivor authentication (`services/auth_service.py`, `core/security.py`, `api/deps.py`) | OTP and attempts in Redis, `users` | request OTP, verify OTP, anonymous session, refresh | Redis, messaging identity |
| Operator authentication (`operator_services/operator_auth_service.py`, `operator_auth/dependencies.py`) | `operator_users` (lockout, `current_jti`), refresh and revoked ids in Redis | login, refresh, logout, password change and reset | Redis, permissions |
| Roles and permissions (`rbac/`, `operator_services/*`, `operator_repositories/*`) | roles, role and user links, overrides, cached effective permissions in Redis | create / change / delete roles and operators, assign, override, resolve | every operator endpoint |
| Messaging (`services/messaging_service.py`, `repositories/messaging.py`) | `conversations`, `conversation_participants`, `messages` | create, send, read, mark read, join, leave, typing | WebSockets |
| WebSocket connections (`websocket/`) | in-memory maps user -> sockets, conversation -> users, user -> conversations | connect, disconnect, subscribe, unsubscribe, send to user / conversation / all | messaging |
| Reports and evidence (`services/reporting_service.py`, `storage_service.py`) | `incident_reports`, `evidence_files`, files on disk | create report, upload, download, reads | the disk; deletion of users |
| Training, support centres, profile, dashboard, audit, configuration | single rows, or none | CRUD | - |

What is hard here:

* **Requests interleave** at every `await`. Rows read before an await are used
  after it (double trigger, refresh rotation, participants), and nothing but a
  few unique constraints and the row lock of an `UPDATE` orders them.
* **Redis, the broker, the disk and WebSockets are outside the transaction.**
  What was sent to them stays when `get_db` rolls back, and is visible before
  `get_db` commits.
* **The in-memory connection maps** are changed by one coroutine while another
  iterates over them across an `await`.
* **Caches** (SOS states, effective permissions) can be refilled from a read
  that is older than the invalidation.
* **Retries and deletions** (Celery tasks; users, roles and operators that go
  away while something refers to them).

The hazards with their lines are listed in `PROJECT.json`, each with the
properties that cover it, or why none does.

## 2. Plan

In the order in which the modules are written, the most important behaviour first:

1. `SosAlerts`, with the abstract `AlertLedger` it implements: the emergency
   path. *Done*, with proofs in `SosAlertsProofs` and `SosLedgerProofs`.
2. `ConnectionManager`, with the abstract `Presence` it implements: sockets and
   subscriptions under interleaved coroutines. *Done*, with proofs in
   `ConnectionManagerProofs`.
3. `PermissionCache`: effective permissions in Redis against roles, links and
   overrides, with the fill that races the invalidation. *Done*, with proofs in
   `PermissionCacheProofs`.
4. `OperatorSessions`: login, rotation, logout, change of password, suspension and
   deletion over the operator's row and the ids in Redis. *Done*, with proofs in
   `OperatorSessionsProofs`.
5. `Messaging`, with the abstract `ConversationLog` it implements: conversations,
   participants, and messages whose participants are told before the commit. *Done*,
   with proofs in `MessagingProofs`.
6. `Evidence`, with the abstract `CaseRegister` it implements: report numbers that are
   counted before they are inserted, and files on disk against the rows that name them.
   *Done*, with proofs in `EvidenceProofs`.
7. `OtpLogin`: codes in Redis, the first login of a number, and the requests that
   change or delete its user meanwhile. *Done*, with proofs in `OtpLoginProofs`.

What is left of the plan:
runs with two changes of one operator's overrides (3) and with two direct conversations
(5), with which the instances are too large at present; that the requests of
`Messaging` end, which needs that a loop over the participants does.

### Liveness in the proofs

`WF`, `SF` and `ENABLED` are beyond the prover, so each theorem on liveness states the
fairness of the code a second time, with the condition under which an action is enabled
in place of `ENABLED`:

* `Runs(r)` is `WF` of the steps of a request: it stops being `Ready` again and again,
  or takes a step again and again. `Turn(r)` is `SF` of the step that waits: from some
  time on it is never `Granted` (in `Evidence`, `Admitted`), or it happens again and again.
  Failures that are certain have the fairness of steps. `Service` is all of this for each
  actor, always.
* `Ready` and `Granted` are the guards of the actions, written out; that they hold
  exactly when the action is enabled was confirmed with TLC on the bounds of the
  component's run (`OtpLogin`: with two codes and two requests). The property itself
  holds there under `WF` and `SF`: the runs of `SosAlerts`, `Evidence` and `PermissionCache`
  check it; for `OtpLogin` and `OperatorSessions`, whose runs use symmetry, it was tried on
  smaller instances, and fails in both without `SF`.
* The argument is the same in each module. `StageEnds`: at a `pc` whose step waits for
  nothing, a request is `Ready` until it moves, so it moves. `StageGoes`: where it moves
  to. `Finishes`: so past its wait it comes to the end. `Freed`: who holds what others wait
  for is past its own wait, so what it holds is released again and again. `WaitEnds`: so
  `Turn` serves the one that waits.

What remains out of reach is a temporal induction: that finitely many requests which
each are late for a last time are late for a last time together (the premise
`AllLateStop` of `PermCacheSettles`), or that a bounded number of retries comes to an end
(`NotificationsHandled`, which stays with TLC). `IdsLast`, the premise that random ids do not
run out, is not of this kind: it is what finite instances take away, and `OtpIdsLast` and
`SessIdsLast` derive it for an infinite set of ids.

## 3. SosAlerts

A *request* is one HTTP request with its session. `req[r]` is what the handler
carries between awaits: the operation, the effect it performs next (`pc`), the
rows it read, the pings it will insert (`add`) and delete (`drop`). Uncommitted
rows are not in `alerts` or `pings`; `Commit` publishes them, as `get_db` does
after the handler returned, and `Abort` is the rollback of `get_db`, which can
follow any effect (Redis or the broker failed, a constraint was violated, the
response could not be built, the process died).

| Model | Code |
|---|---|
| `accounts`, `staff` | rows of `users`, of `operator_users` |
| `alerts` | committed `sos_alerts`: owner, status, `assigned_to`, whether `resolved_at` is set, `resolved_by` |
| `pings` | committed `location_pings` by alert; a ping is its `recorded_at` |
| `cache` | the status in Redis `sos:{id}` |
| `tasks` | Celery queue `notifications` |
| `drawn`, `fanned`, `sent`, `diverged` | history: UUIDs drawn, alerts announced, pings ever committed, alerts whose cache entry lost its row |
| `TriggerLookup`, `TriggerInsert`, `CacheNewAlert`, `QueueContacts`, `QueueCenters` | `trigger_sos`, one action per effect |
| `UpdateLocation`, `ProcessOfflineLocations` | the two location endpoints |
| `GetSosStatus`, `ListMonitorAlerts` | the reads, which assign a truncated list to a delete-orphan relationship and so delete rows at the commit |
| `UserUpdateLoad`, `UpdateRow`, `CacheStatus` | `PATCH /sos/status/{id}` |
| `OperatorUpdateLoad`, `UpdateRow`, `RefetchMonitor` | `PATCH /sos-monitor/alerts/{id}/status` |
| `RefuseUpdate` | the foreign key of `assigned_to` and `resolved_by` fails: the operator named is gone |
| `DeleteMobileUser` | deletion of a survivor: `user_id` becomes NULL |
| `DeleteOperator` | deletion of an operator: `assigned_to` and `resolved_by` become NULL, the times that go with them stay |
| `CacheExpire`, `RunTask`, `RetryTask` | expiry in Redis, the Celery worker |

PostgreSQL is modelled as READ COMMITTED with the row lock an `UPDATE` holds
until its transaction ends (`RowLocked`) and the key-share lock a foreign key
takes on the row of the user (`OwnerReferenced`) or the operator
(`OperatorReferenced`) that is named. A deletion waits for both kinds of locks and is one
step: it has no effect before its commit. Where a deletion and an update wait for each
other, PostgreSQL fails one of them, which is an `Abort` or a deletion that does not
happen. What the deletion of an operator does to tokens and permissions is in
`OperatorSessions` and `PermissionCache`.

### Runs

| Run | Checks | Shows |
|---|---|---|
| `sos_updates` | `TypeOK`, `CacheFollowsRow`, `NoUnannouncedAlert`, `RequestsEnd`, `NotificationsHandled` | the row lock is what keeps Redis and the row in the same order when two updates race; only an operator's update or a failed request separates them. Announcing before committing never leaves a visible alert nobody was told of. Waiting for row locks ends, retries end |
| `sos_trail` | `RecentPingsKept`, `RespondersExist`, `ImplementsLedger` | deletions chosen from an old read never reach the most recent locations; an alert names no operator who is gone, though updates name whom they like while operators are deleted; rows and trails change only as `AlertLedger` allows: an alert never disappears, the stamp of its closing is never taken back, and its owner, its responder and who closed it are forgotten only when that person is deleted |
| `sos_double` | `OneOpenAlertPerUser` (violated) | two overlapping triggers open two alerts, after which `scalar_one_or_none` raises for that survivor |
| `sos_read_deletes` | `ReadsDeleteNothing` (violated) | reading the status deletes the location history beyond the limit |

Five more disagreements between the code and its own words, or cases it does not
provide for, show in the model and
have no run of their own: `PATCH /sos/status/{id}` ("resolve or cancel",
`endpoints/sos.py:111`) takes any status and reopens closed alerts
(`sos_service.py:133`); locations are stored for closed alerts
(`sos_service.py:88`, against `endpoints/sos.py:43`, "Update location for an active SOS alert."); and the open
alert of a deleted user makes the operators' list fail, because its schema
requires a user (`schemas/sos.py:39`); an alert stays `assigned` with nobody responsible
when its responder is deleted (`models/sos.py:47`), and nothing reassigns it; the
responder a client sends is not looked up (`sos_monitor.py:64`), so one who does not
exist fails on the foreign key, as an error of the database, answered with 500.

Bounds: one user, one operator, two requests. The administrator who deletes
(`delete_user` refuses one's own account) and the caller who sends somebody else's id are
operators outside the instance, whose rows play no part. `sos_updates` closes alerts in an
operator's name and `sos_trail` gives them to one; both columns are in the proofs. `sos_updates` has one alert and no
locations, a retry limit of 1; `sos_trail` has up to four locations with limits 3 and
2 in place of 20 and 10. Two requests are enough for each race here: every conflict
is between two transactions over one row or one cache entry, and a third would wait
as the second does. Four locations are more than either limit, so both cut, and an
old read can miss new rows. `Alerts` bounds the UUIDs ever drawn; a trigger that
finds none left ends by `Abort`. `CHECK_DEADLOCK FALSE` is set where the instance
can run dry: all users deleted and no work left. Symmetry is used in safety runs
only.

Fairness (`FairSpec`): the event loop runs a request on until it ends (`WF` on
its steps, and on the failure when it is certain), PostgreSQL grants a row lock
to its waiters in turn (`SF` on `UpdateRow` or its refusal, because a lock is taken and
released by others in between), and a worker takes queued tasks (`WF`). Nothing is assumed
of new requests, expiry or deletions.

### Proofs (`SosAlertsProofs`, `SosLedgerProofs`)

For every value of the constants that satisfies `SosAssumption`. `SosRecentPingsKept`,
`SosLedgerImplemented`, `SosClosedAreStamped` and `SosAlertsContinue` also take
`TrailAssumption`, that the times of locations are a finite set, so that what a read
keeps can be counted:

* `SosTypeCorrect`: `Spec => []TypeOK`. `TypeOK` alone is not inductive: a request
  about to write an alert must have one, so `TypeInv` adds `Shape`, which says
  what each kind of request carries at each `pc`.
* `SosNoUnannouncedAlert`: `Spec => []NoUnannouncedAlert`. `AnnouncedInv` adds that
  a trigger about to commit has queued its task.
* `SosCacheFollowsRow`: `Spec => []CacheFollowsRow`. `OwnInv` says what requests know
  of each other: one holds the row of an alert at a time (`Locks`), an alert not yet
  committed belongs to one trigger and nobody else has it (`Fresh`). With it,
  `CacheInv` says that the entry holds, before the commit of a trigger or of a
  survivor's update, what that commit will write; the entry of a second update cannot
  come between, because it would need the row.
* `SosRespondersExist`: `Spec => []RespondersExist`. `StaffInv` adds that a request which
  has written an operator's name, and holds the row of the alert for it, names one who is
  there: the foreign key asked when it wrote, and the deletion waits for it since.
* `SosRecentPingsKept`: `Spec => []RecentPingsKept`. `TrailInv` says that what is stored
  was sent, `RecentInv` that whatever a request will delete has at least `KeptPings`
  locations after it among all that were sent; more may arrive, none is ever unsent.
* `SosLedgerImplemented`: `Spec => ImplementsLedger`, step by step: a commit is one of
  `Open`, `Change`, `Extend` or `Read` (`Requested`), the deletion of a user is `Forget`,
  that of an operator `Dismiss`, everything else stutters. That a commit only prunes what
  the ledger allows needs `RecentInv` and `MostRecentEnough`: behind a location that has K
  after it, K of the K most recent are stored.
* `SosClosedAreStamped`, `SosAlertsContinue`: what the steps mean for one alert. An alert
  that reads closed carries the time of its closing, whoever closed or reopened it, and
  whoever is deleted. It is never removed; no update takes back the time of its closing,
  its responder or who closed it; and its owner, its responder and who closed it become
  NULL only in the step that deletes that person (`Continues`). `RequestedKeeps` has it from
  the steps of the ledger, `DeletionKeeps` from the two deletions.
* `SosRequestsEnd`: `Spec /\ Service => RequestsEnd` (section 2, liveness). A request waits
  only for the row lock of `UpdateRow`; granted, it is refused when its operator is gone,
  and otherwise only steps that wait for nothing are left to it.

Only model-checked: `NotificationsHandled`, an induction over retries.
`OneOpenAlertPerUser` and `ReadsDeleteNothing` do not hold.

### Left out

The Redis list of locations (written, never read), the 100-row limit of the
monitor, suspension of users (a request of a suspended one does not start),
coordinates, messages and notes. The notification tasks' bodies are placeholders
in the code; the model keeps their queueing and retrying.

## 4. ConnectionManager

One process: the event loop, one `chat_handler` per socket, and the HTTP requests
whose `messaging_service` sends. Code between two awaits that can suspend is one
step. The awaits that suspend are a handler's receive and every `send_json` (under
backpressure); acquiring nothing, the rest of the class runs to its end.

| Model | Code |
|---|---|
| `conns`, `since` | `active_connections`: members and order of each user's list |
| `subs`, `convs` | `conversation_subscribers`, `user_conversations` |
| `phase` | where the handler of a socket is: not connected, in receive, inside a message, over |
| `broken` | sockets a send failed on: Starlette marks them disconnected, and their next receive raises |
| `out` | the send a coroutine awaits: to which element of whose list, the subscribers left, the failures so far |
| `Connect`, `Refuse`, `Disconnect` | `connect`, `disconnect` |
| `Visit`, `Following`, `Sent` | the nested loops of `broadcast_to_conversation` and `send_personal_message`, and the clean-up of failed sockets |
| `Subscribe`, `Unsubscribe`, `Relay`, `Answer`, `Disconnected`, `InvalidJson` | the messages of `chat_handler` and its two exits |
| `NotifyUser`, `NotifyConversation` | `_notify_participants`, `_notify_support_operators`, `send_typing_indicator` |
| `Shutdown` | the end of `lifespan` |

The lists are only appended to and removed from, so their order is the order of
connection, and an iteration is its index: when an earlier element is removed, the
next element moves below the index and is passed over.

| Run | Checks | Shows |
|---|---|---|
| `ws_maps` | `TypeOK`, `MapsAgree`, `SubscribersConnected`, `AtMostOncePerDevice`, `ReachesAllWhenCalm`, `BrokenBeingRemoved`, `ImplementsPresence` | whichever sends fail while others are awaited, the two subscription maps stay inverse, only connected users are subscribed, no device is sent a message twice, a device is left out only if the list shrank meanwhile, and a socket that is broken is listed only while the coroutine whose send failed is still sending, and will remove it |
| `ws_skip` | `ReachesAllDevices` (violated) | the device behind one that another coroutine disconnects is passed over, though the docstring says "all their connected devices" |

Bounds: two devices of one user and one of another, a third user only a request
sends to, one conversation, one request (`ws_skip`: three devices of
one user). Two devices are the least at which one can be removed in front
of another; two users the least at which a broadcast goes from one list to the next.

No fairness is assumed here, and nothing is claimed to happen: how long a send may take
is up to the peer and the keepalive of the server. `BrokenBeingRemoved` says instead
what the clean-up needs: no broken socket is listed that nobody is about to remove.

Proofs (`ConnectionManagerProofs`), for any users, conversations, requests and any
finite set of sockets; `ConnectionAssumption` says that handlers are not requests and
that `None` is no user or socket, `SendAssumption` that it is no send.

- `ConnTypeCorrect`, `ConnMapsAgree`, `ConnSubscribersConnected`. None of the three is
  inductive. `ConnInv` adds that a list holds only sockets of its user (`Owned`), that
  a running handler whose socket is no longer listed has a broken socket
  (`Registered`), that a task's failures are broken (`FailedBroken`) and that a
  handler that sends is busy (`SendersBusy`): only together do they say that a handler
  whose socket another coroutine removed, and which goes on to subscribe its user,
  disconnects the user again in the same step.
- `ConnAtMostOncePerDevice`, `ConnBrokenBeingRemoved`. `OrderInv` adds to `ConnInv`
  that what has begun is ordered and what has not is untouched (`Touched`), and that
  the sends of a coroutine went to sockets before the present one, which stands at or
  below the index of the iteration (`SendsOrdered`): lists shrink in front of it and
  grow behind it, so the element at the next index is a later one, whatever happened
  during the send.
- `ConnPresenceImplemented`: every step is a step of `Presence` or none. `OrderInv`
  is what makes a connection an arrival (its socket was in no list) and the
  subscription by a handler whose socket is gone a stutter.
- `ConnReachesAllWhenCalm`: no two sockets of a list were appended at once
  (`Distinct`), and an iteration over a list nobody was removed from stands at its
  index and has been to all that is in front of it (`Steady`). A connection is
  appended behind every element (`ConnectSteady`), a removal ends the calm
  (`DisconnectSteady`), and an iteration that moves on moves to the next element
  (`FollowingSteady`), so it ends only when everybody owed has had the message.

Known and modelled, without a run: a message that is not JSON ends the handler
without `disconnect`, so its socket stays listed until a send to it fails
(`chat_handler.py:41`); `connect` means to subscribe operators to their
conversations, but `async with get_db()` raises on an async generator
(`connection_manager.py:83`), so it subscribes nobody. Left out: `broadcast`,
`handle_sos_update` and `handle_location_update`, which nothing calls; other
processes, which have maps of their own and share nothing.

## 5. PermissionCache

A *check* is a request that resolves an operator's permissions, a *change* one that
an administrator sends. All reads of a check happen in `get_current_operator`, in
separate statements, and all of them *before* Redis is asked: the query in the
resolver finds the operator's objects in the session and does not refresh them.

| Model | Code |
|---|---|
| `rows` | `operator_user_role_links`, `operator_role_permission_links`, `operator_user_permission_overrides`, one set of records |
| `super`, `state`, `roles` | `is_super_admin`; an operator or role that is not created yet, there (active or not), deleted |
| `cache` | Redis `operator:permissions:{id}`: no key, a set, or the string `empty` |
| `check` | the statements of a check: `LoadUser`, `LoadLinks`, `LoadGrants`, `LoadOverrides`, then `GetCached` and `Fill` |
| `change` | rows to insert and delete, then the operators to invalidate: `AssignRoles`, `AssignDirect`, `AssignGrants`, `UpdateSuperAdmin`, `UpdateUser`, `DeleteUser`, `DeleteRole`; `Commit`, `FindUsers`, `Invalidate`, `Invalidated`, `Fail` |
| `suspect` | history: operators whose entry a check wrote that a change had overtaken, or whose deletion was lost |

`Stored` is what `SADD` and `SETEX` leave: `SADD` adds to a set that is there and is
refused by a string, and `SMEMBERS` of the string fails, which the resolver takes for
a miss: an operator without permissions is never served from the cache. PostgreSQL
(`Allowed`, `Referable`, `Remaining`) is external: foreign keys without `ON DELETE`
refuse to delete a role with permissions and an operator with roles or overrides, and
under READ COMMITTED a `DELETE` takes the rows that were there when it ran.

| Run | Checks | Shows |
|---|---|---|
| `perm_cache` | `TypeOK`, `CacheFollowsRows`, `CacheSettles` | a cached set differs from the rows only while its deletion is under way, when that was lost, or when a check that had read before the change stored it; a change of a role reaches whoever holds it by then; when changes stop, every entry comes to agree with the rows and stays so |

Bounds: one operator, one role, one permission, two checks and one change at a time. One permission tells a grant from a
denial; two checks are the least at which `SADD` adds to what another check stored
after this one looked. What two overlapping changes do to the cache, and what `SADD` makes
of two different sets, is proved (`PermCacheFollowsRows`), for any number of them. The instance stops when everything has been deleted.

Fairness: the event loop ends a check, and Redis expires a set. Nothing is assumed of
the string `empty`: `EXPIRE`, which follows the refused `SADD` in one transaction,
renews it with every check.

Proofs (`PermissionCacheProofs`), for any operators, roles, permissions and requests:
`PermTypeCorrect`, `PermCacheFollowsRows`, `PermChecksSee`. The inductive `PermInv`
adds to the types and to `CacheFollowsRows`: what a check has read so far is what
the rows still say, unless a change overtook it (`ChecksSee`); a change writes only
rows of the operators it will invalidate (`Shaped`); rows of one that is not created
yet are not there (`NothingOfNew`). The central lemmas are `OwnRows` and
`CommitUntouched`: an operator whom a commit does not affect reads the same before and
after it, and `AffectedPending`: one whom it affects is about to be invalidated.

Liveness (section 2): `PermChecksEnd`, every check ends, whatever overtakes it;
`PermLateChecksEnd`, each check is late for a last time once changes have stopped, since
only a commit makes it late and its end ends it; `PermEntriesAgree`, once no change is
under way and no check of an operator is late, its entry agrees with the rows for good:
an entry that a late check left behind expires, after which only right ones are stored. They
combine to `PermCacheSettles`, `Spec /\ Service /\ AllLateStop => CacheSettles`.
`AllLateStop` is the conjunction of what `PermLateChecksEnd` says of each check: true of
finitely many, by an induction over the set of checks that temporal formulas do not admit here.

Known, without a run: two requests to override one permission of one operator both
find no override and both insert one (`permission.py:64`, `:67`), though the docstring
says that it updates the existing one; from then on setting that code fails.

Left out: requests for several overrides are several of one code; names and
descriptions; the functions that remove roles, permissions and overrides and
`initialize_system_roles`, which nothing calls. `assign_roles_to_user` with
`replace_existing` loses the roles that are both held and asked for, because the
roles held are read before they are deleted (`operator_user_service.py:175-190`); the
model does the same.

## 6. OperatorSessions

A login and a rotation issue a *pair*, an access and a refresh token with an id each.
The refresh token works while its id is in Redis, the access token unless its id is
there. A request is as in section 3; what it writes to Redis is seen at once, what it
writes to the row after its commit.

| Model | Code |
|---|---|
| `account` | rows of `operator_users`: `is_active`, `password_hash`, `current_jti` |
| `token` | of a pair that was drawn: its operator, the login it descends from, its age |
| `store`, `revoked` | Redis `operator:refresh:{jti}` and `operator:blacklist:{jti}` |
| `LoginLoad`, `UpdateForLogin`, `StoreRefresh` | `login`: `authenticate`, the tokens and `update_last_login`, the `SETEX` |
| `RefreshLookup`, `LoadOperator`, `RevokeRefresh`, `StoreRefresh`, `UpdateRow` | `refresh_token`, one action per effect |
| `Authenticate`, `LoadOperator`, `UpdateRow`, `RevokeAccess` | `get_current_operator`, then `logout` (row before Redis) or `change_password` (Redis before row) |
| `ActiveLoad`, `DropLoad` | `update_user` with `is_active`, `delete_user` |
| `Writes`, `Written` | the flush of SQLAlchemy: no `UPDATE` when nothing differs from the loaded row, and only the columns that differ |
| `Commit`, `Abort` | `get_db`; `Abort` also stands for a refusal after the first step |
| `Age`, `RevokedExpire` | time |
| `delivered`, `spent`, `raced`, `cut` | history: pairs a client was answered with, tokens a rotation has revoked, logins of which two rotations used one token at once, logins of which a rotation failed after its `DEL` |

Time is the age of a pair: 0, both tokens valid; 1, the access token has expired (an
hour); 2, the refresh token as well (7 days), and its id with it. A blacklisted id is
kept for 24 hours, longer than an access token lives, which is the guard of
`RevokedExpire`.

| Run | Checks | Shows |
|---|---|---|
| `ops_sessions` | `TypeOK`, `OneLivePerLogin`, `SessionContinues`, `NothingRevived`, `OnlyAskedChanges` | wherever overlapping requests are interrupted, a rotation never leaves two working refresh tokens of one login, and leaves none only when it failed between its first write to Redis and its commit; what was revoked stays revoked; a row loaded before another request changed it does not carry old columns back |
| `ops_password` | `PasswordChangeLogsOut` (violated) | after a change of password the refresh token of the session still works, though `auth.py:265` says "Logs out all existing sessions." |

`raced` is the exception the code makes room for: it looks the presented id up and
deletes it in two calls, so two requests that present one token at once are both
given a pair. `OneLivePerLogin` says that this is the only way.

More disagreements that the model has and no run of its own shows:

* The lockout never happens. `increment_failed_attempts` ("Lock account after 5 failed
  attempts for 30 minutes", `operator_user.py:156`) writes the row in the transaction
  that the 401 of the same request rolls back. The model keeps the request (`fail`),
  which waits for the row, writes it and can only end by `Abort`; it needs no
  variables for the counter and `locked_until`, whose committed values never change.
* Logout blacklists `current_jti`, the access token issued last, whichever one was
  presented, and leaves the refresh tokens (`auth.py:226`, "Logout operator and revoke
  tokens."). When Redis fails it still answers that it succeeded.

Bounds: one operator, two pairs, two requests, two passwords: a login and a rotation,
or two logins; 1.1 million states. Sessions of different operators share nothing. Two
pairs are the least at which a rotation replaces one; two rotations of one
token at once are reached (both have looked it up; the second finds no id left to draw
and ends by `Abort`), and two pairs out of them are covered by the proofs.
`CHECK_DEADLOCK FALSE`: the instance stops when the ids are used up or the operator
was deleted. The run assumes no fairness; that requests end is proved instead.

Proofs (`OperatorSessionsProofs`), for any operators, pairs and requests:
`SessTypeCorrect`, `SessOneLivePerLogin`, `SessContinues`, `SessNothingRevived`,
`SessOnlyAskedChanges`, so everything `ops_sessions` checks, and three facts more. `SessRowsNameOwn`:
`current_jti` names a token its operator was given, although the id a commit writes was
drawn before others wrote; `SessRevokedByOwner`: only the owner's logout or
change of password blacklists a token; `SessDeletionIsFinal`: no request that had loaded a
deleted operator writes it back. `NamesInv` is behind the first two: the ids in the row
and in what requests have loaded of it are tokens of that operator. The inductive `SessInv`:
`Shaped` (what a request carries at each `pc`), `Locked` (a row has at most one request
that has written it), `Issued` (a pair that was drawn is delivered, or being
carried by exactly one request, or lost; what is spent was delivered and is in Redis no more), `OneClaim` (of a
login that was not raced, the tokens in Redis and the rotations that will add one are
at most one together), and `Continues`, `SessionContinues` in its inductive form. The argument
for one rotation: as it revokes, its claim on the login passes from the stored id
to the request, and as it stores, from the request to the new id.

Liveness (section 2): `SessRequestsEnd`, `Spec /\ Service /\ IdsLast => RequestsEnd`. A
rotation and a change of password write to Redis before they take the row, a login and a
logout after it, so some hold the row across calls to Redis; `Past` are the stages
after the wait, and `PastEnds` that no row is waited for in them, so nobody waits in a
circle. A waiting request whose operator is deleted fails or passes over the missing row, by
`OperatorsStayGone` for good. `SessIdsLast` derives `IdsLast` from an infinite set of ids.

Left out: `POST /auth/password-reset-request`, which writes a reset token that nothing reads
(`reset_password` is never called); the strength of passwords; permissions (section
5); IP addresses and the time of the last login.

## 7. Messaging

A request is as in section 3: it reads what is committed, keeps its rows to itself
until `Commit`, and what it sends over sockets is gone whatever becomes of it. The
participations are those the migrations create: `(conversation_id, user_id)` is
unique, and the second constraint the model class declares
(`models/messaging.py:103`) exists in no migration, so nothing keeps two rows of one
operator apart.

| Model | Code |
|---|---|
| `users` | rows of `users` that have not been deleted |
| `convs` | committed `conversations`: centre, whether direct |
| `rows`, `left` | committed `conversation_participants`; those whose `left_at` is set |
| `messages` | committed `messages`: conversation and sender |
| `req` | what a handler carries: the ids it drew, whom it still has to tell (`todo`) and whom it told; for a message also who took part and who had left when its sender was verified (`present`, `gone`, history) |
| `raced` | history: operators of whom two requests to join a conversation overlapped |
| `CreateLookup`, `FindDirect`, `InsertConversation` | `create_conversation`: an existing conversation with the centre, with each of the invited, then the rows |
| `SendVerify`, `InsertMessage`, `ReadOthers`, `Tell` | `send_message` and `_notify_participants` |
| `JoinLookup`, `JoinInsert` | `join_conversation` |
| `LeaveLookup`, `UpdateParticipant` | `leave_conversation` |
| `Commit`, `Abort` | `get_db` |
| `DeleteUser` | `delete_mobile_user`: participations and messages lose their user |

`Tell` hands over to `NotifyUser` of `ConnectionManager` (section 4), which says what
reaches which device. The `UPDATE` of `last_message_at` and the query for the other
participants are one step: nothing of the request is visible between them, and
the first, which waits for the lock on the conversation (`ConvLocked`), decides when
both happen. The locks of PostgreSQL (`ConvLocked`, `RowLocked`, `Refers`) are external; its unique
index (`Unique`) is the one the migrations create.

`ConversationLog` is what the tables promise with no word about requests: a
conversation is opened with all its members; somebody joins, but no user who was a
member before; somebody leaves; a message is posted by a present or past member, once,
and loses its sender only with the user.

| Run | Checks | Shows |
|---|---|---|
| `msg_requests` | `TypeOK`, `NobodyMissed`, `NobodyLeftTold`, `OneRowPerOperator`, `ImplementsLog` | whoever takes part from the sender's verification to the commit is told before it, and no user who had left is; an operator has two participations only if two requests to join overlapped; a sender who leaves, or is deleted, between verification and commit never posts as somebody who was not a member |

Bounds: two survivors, one operator, one centre, one conversation, one message, two
requests, three participations (`MaxRows`, counted over committed and inserted rows);
890 000 states. One conversation is enough because no query relates two of them but
those of `create_conversation`, of which the instance opens one; the second user is the least for a
conversation in which somebody leaves while another writes; two requests are the least
that overlap, and what three do is proved. `Opens` bounds the shapes of new
conversations: direct, with invited users, or with a centre. `CHECK_DEADLOCK FALSE`:
ids run out. No fairness is assumed, and nothing is claimed to happen.

More disagreements that the model has and no run of its own shows:

* Leaving is final for a survivor: `join_conversation` (`messaging_service.py:235`)
  finds no *active* row, inserts a second and violates the unique constraint, though
  the route says "Join a conversation." (`endpoints/messaging.py:76`). A direct conversation that was left is still found by
  `get_direct_conversation`, which does not look at `left_at`, and returned instead of
  a new one.
* Operators cannot create conversations: `created_by` refers to `users`. The route for
  them exists (`admin_api/messaging.py:26`).
* Two creations of the same conversation at once make two, after which the
  look-up (`scalar_one_or_none`) raises. The same holds for two participations of one
  operator.
* A survivor is never shown the first page of a conversation ("Get messages in a
  conversation.", `endpoints/messaging.py:110`): the route passes `skip` and `limit` by
  position (`:115`), where the service has `operator_user_id` and `skip`
  (`messaging_service.py:187`), so the limit is the offset. Reading changes nothing and
  is not in the model.
* Participants are told of a message before the commit. When the request then fails,
  they were told of a message that does not exist; the model keeps it as `Abort` after
  `Tell`.

Proofs (`MessagingProofs`), for any users, operators, centres, ids and requests:
`MsgTypeCorrect`, `MsgNobodyMissed`, `MsgNobodyLeftTold`, `MsgOneRowPerOperator` and
`MsgImplementsLog`, so everything `msg_requests` checks, the refinement included, and
three facts of the tables that follow from the log's steps: `MsgPeopleThere`, nobody who was
deleted is left as participant or sender, and who wrote a message takes or took part;
`MsgMessagesStay`, a message never changes but loses its sender with that user;
`MsgLeavingIsFinal`, a user who left or was deleted never takes part again. The
inductive `MsgInv` has a part for what each kind of request relies on while
others commit: `Opener` (its conversation is nobody's, its users exist), `Joiner` (no
row of the user is there), `Sender` (who has a row, or was deleted), `Audience` (those who
had left have only marked rows; those who took part are told, to be told, or gone),
and `Apart` (what two requests drew or inserted differs). `Once` is
`OneRowPerOperator` with the requests that will add a row. A row that is committed by a
join can neither be of somebody who had left nor be missed, because its person had
none: for a user by the unique index, for a message because `present` was read before
it. For the refinement, every action but `Commit` and `DeleteUser` is a stutter.

Left out: `get_messages` and `get_conversation`, reading marks and unread counts,
typing, deletion of centres and operators, contents, attachments and the order of messages.

## 8. OtpLogin

A survivor logs in with a code sent to a telephone number. The code is in Redis and the
user in a row, and `verify_otp` goes from the one to the other in separate calls:
`GET`, `DEL`, the query for the user, the insertion or the touch of the row, the
commit, the answer. What it does to Redis stays when it fails. A request is as in
section 3.

| Model | Code |
|---|---|
| `otp` | Redis `otp:{phone}` |
| `account` | committed rows of `users` that have a number: the number and `status` |
| `drawn` | the ids that were ever drawn |
| `req` | what a handler carries: code, number, user, the row as it was loaded (`seen`), the status to be set |
| `sent`, `valid` | history: the codes sent; of each number the last one, until it expires or a verification accepts it |
| `met` | history: codes that were sent between the `GET` and the `DEL` of a verification of their number |
| `raced` | history: codes that two verifications had read before either deleted it |
| `opened` | history: codes of which a client has been answered with a session |
| `RequestOtp`, `OtpExpire` | `request_otp` with `OTPStorage.store`, and the expiry it sets |
| `ReadOtp`, `DeleteOtp` | `OTPStorage.verify`: a code that does not match changes nothing |
| `FindUser`, `InsertUser`, `UpdateUser` | the rest of `verify_otp`; `InsertUser` also sets `last_login_at`, in a row nobody else sees |
| `StatusLoad`, `ProfileLoad`, `UpdateUser` | `update_mobile_user_status`; `get_current_user` and `PATCH /auth/me` |
| `Written` | the flush of SQLAlchemy: only the columns that the request has set |
| `Commit`, `Abort` | `get_db`; FastAPI ends it before the response is sent |
| `DeleteUser` | `delete_mobile_user` |

`last_login_at`, the profile and `is_verified` (true from the insertion on, for rows with a
number) are not told apart. When the row of a request has gone, the request fails: the
flush of a loaded row finds that it updated none, and `verify_otp`, which updates by a
query, loads the user again and gets None; in the model it can only `Abort`.
`RowLocked` is the lock of PostgreSQL.

| Run | Checks | Shows |
|---|---|---|
| `otp_login` | `TypeOK`, `CodeOpensOneSession`, `LastCodeWorks`, `SessionHasAccount`, `OneAccountPerPhone`, `StatusOnlyAsked` | a code is used twice only by two verifications that read it before either deleted it; a code is lost only when it expires, when somebody verifies it, or when it was sent during another verification; nobody is answered with a session of a deleted user; two first logins make one account; a suspension is not undone by a login or a change of profile that loaded the row before it |

Bounds: one number, three codes, two users (the second id for an account that comes
after a deletion), three requests; 673 000 states. Numbers share nothing but the index.
Three requests are the least at which a verification meets two others that have read
its code, and at which a login and a suspension both wait for a third holder of the row.
Three codes let one be sent before, one during and one after a verification.
The codes drawn are assumed to differ (`RequestOtp`): a number that is sent the same
digits again within the expiry has in effect the same code. `CHECK_DEADLOCK FALSE`: codes
and ids run out. The run assumes no fairness; that requests end is proved instead.

Proofs (`OtpLoginProofs`), for any numbers, codes, users, statuses and requests:
`OtpTypeCorrect`, `OtpCodeOpensOneSession`, `OtpLastCodeWorks`, `OtpSessionHasAccount`,
`OtpOneAccountPerPhone`, `OtpStatusOnlyAsked`, so everything `otp_login` checks, and
`OtpDeletionIsFinal`: whatever had loaded or found a user that is then deleted, no request
writes the row back, and no insertion takes its id. The
inductive `OtpInv` has two halves. Of codes (`CodesInv`): a code is under one key and
is the last of its number (`Keys`); while a code is being verified, the last code of the
number was sent meanwhile or is none (`Overtakes`), which is what `LastCodeWorks` needs
when the `DEL` comes; and a code that was not raced has at most one request that carries
it or has opened its session, and is out of Redis once one has passed the `DEL` (`Sole`). Of
accounts (`AccountsInv`): an insertion is new to everybody (`Fresh`, by the unique index
and the id drawn), a row that is held stays and has one writer (`Held`), and a row
that was found keeps its number (`Found`). Two lemmas, `CodesKeep` and `AccountsKeep`,
carry each half over any step that only moves a request on; the actions that remain
touch one half each, but for `Commit`.

Liveness (section 2): `OtpRequestsEnd`, `Spec /\ Service /\ IdsLast => RequestsEnd`. There are
two waits, for a row and for the unique index. Whoever holds either is about to commit and waits
for nothing, so both are released again and again. A wait for a row ends with the
row or, when the user was deleted, in a failure for good. A first login that waits for
another of its number is served when that one rolls back and refused when it commits;
`OthersInsert` says that no third can come between without a moment at which it
could have been served itself. `OtpIdsLast` derives `IdsLast` from an infinite set of ids.

Disagreements that the model has and no run of its own shows:

* Two verifications of one code at once both log in: `raced` is not empty in reachable
  states. The code is "used" by `DEL`, whose result nobody looks at (`db/redis.py:119`).
* The `DEL` names the key. A code requested while an older one is being verified is
  deleted unused (`met`).
* A code is spent before the database is asked. When the insertion then violates the
  unique index (two first logins at once), or anything else fails, the survivor needs a
  new code.
* The limit of attempts is not enforced: nothing calls `get_remaining_attempts` or
  `increment_attempts` (`db/redis.py:123`, `:128`).
* `verify_otp` logs suspended users in; only `get_current_user` refuses them.
  `refresh_token` asks neither the database nor Redis, and answers for a deleted or suspended user with
  one it makes up, "active" (`auth_service.py:186-195`).

Left out: anonymous sessions (`POST /auth/anonymous`), whose session token and Redis entry
nothing reads; the refresh of tokens, which changes no state; trusted contacts; the
blacklist `get_current_user` asks, which nothing writes.

## 9. Evidence

A report is counted, inserted and committed; evidence is checked against its report,
opened, written, inserted and committed, and each of these steps is separated from the
next by an await. The disk is not part of the transaction.

| Model | Code |
|---|---|
| `account` | committed rows of `users` |
| `report` | committed `incident_reports`: `user_id`, and the number as month and count |
| `evidence` | committed `evidence_files`, each under its `storage_path`: report, `uploaded_by`, `file_size_bytes` |
| `disk` | what is under `upload_dir`: the bytes in each file |
| `month` | the prefix `datetime.utcnow()` gives |
| `req` | what a request carries from await to await |
| `CreateReport`, `CountReports` | `POST /reports` up to and with the count of `generate_report_number` |
| `EnterReport`, `CommitReport` | the insertion, and `get_db` after the handler |
| `UploadEvidence` | `POST /reports/upload-evidence` up to the check of the report |
| `OpenFile`, `WriteFile` | `store_evidence` |
| `AttachFile`, `CommitFile` | the insertion of the row, and its commit |
| `Abort` | any exception, or the end of the process: the rollback of `get_db`; what was written of the file stays |
| `DeleteUser` | `delete_mobile_user`, and `ON DELETE SET NULL` of `user_id` and `uploaded_by` |
| `UniqueNumber`, `Pending` | the unique index `ix_incident_reports_report_number`: an insertion waits for an uncommitted one of the same number, then succeeds or raises |
| `UserExists`, `Referenced` | the foreign keys of the two tables and the row lock they take |
| `Served` | `download_evidence`, which takes a file without bytes for one that is not there |

Nothing deletes a report or a file: the relationship `User.incident_reports` has no
cascade, and `delete_file` has no caller. Deleting a user is the only change of a row.

`CaseRegister` is what the two tables promise, without requests and disk: a report is
entered by somebody who has an account and takes the next number of its month in the
same step; an exhibit is attached to a report by the user the report belongs to.
That `Evidence` implements it says that the gap between count and insertion, and between
check and insertion, cannot be seen in the tables.

| Run | Checks | Shows |
|---|---|---|
| `evidence` | `TypeOK`, `NumbersContiguous`, `FilesServed`, `EvidenceOfOwner`, `ImplementsRegister`, `RequestsEnd` | a month's numbers are 1, 2, ... without gap or double; a row names a file that is whole, whatever failed before; evidence and its report have the same user, or both none; the tables implement the register; every request ends |

Bounds: one user, three reports, one path, an empty and a non-empty upload, two months,
two requests; 191 000 states. Two requests are the least at which two have counted the
same; with three reports a number that was lost or repeated is followed by another. Two
months let a report counted in one be inserted in the next. What a second user would
add (a report that belongs to somebody else) is in the proofs. `CHECK_DEADLOCK FALSE`:
reports, paths and accounts run out.

Fairness: a request that can go on does (`WF` on `Step` and on the exceptions that are certain,
`Fails`): asyncio runs every ready task. `SF` on `EnterReport`: PostgreSQL queues the
transactions that wait for an index entry. Without it others that insert the
same number and fail could come first for ever. `Exhausted` ends requests for which the
instance has no id left; it is about the instance only.

Proofs (`EvidenceProofs`), for any users, sizes, paths and months, any finite set of reports and any
number of requests: `EvidenceTypeCorrect`, `NumbersAreContiguous`, `FilesAreServed`,
`EvidenceStaysWithOwner` and the refinement, `RegisterImplemented`; `EvidenceEntriesStay`,
that a row never changes but for losing its user, and no upload writes to a file that a
row names; and `EvidenceRequestsEnd`, `Spec /\ Service /\ IdsLast => RequestsEnd`
(section 2). `IdsLast` says that an id for a report is always left: they are random UUIDs, and
the model's set is finite only for TLC, which has `Exhausted` instead. `EvidenceInv` has one part for
each safety property. `NumbersInv`: a number that
was drawn is at most one ahead of the month's count, since the count only grows, and one
that is being inserted is taken by nobody, by the index. Both together leave exactly the
next number (`NextNumber`): an insertion with a stale count fails, so no gap can come.
`FilesInv`: a request has its path to itself from the opening to the commit, and past the write
the file has all its bytes. `OwnersInv`: an upload's report stays, and names the
uploader as long as the uploader exists; the row an insertion refers to is locked, so a
deletion comes before the insertion, which then fails, or after the commit, and
then takes the name from both.

Disagreements that the model has and no run of its own shows:

* A failed upload, or one whose process died, leaves its file on disk and no row names
  it; nothing ever removes it.
* An empty file is accepted and stored, and then answered with 404 "File not found in
  storage" (`endpoints/evidence.py:81`, `if not file_content`).
* Creations that overlap draw the same number; all but one fail with an error of the
  database, which is not a `ValueError` and is answered with 500. The client has to try again.

Not in the model: `offline_id` is stored and never looked up, so a client that repeats a
creation or an upload whose answer was lost makes a second one; the hash the client
sends is ignored for one the server computes (`reporting_service.py:112`); a crash of the
machine (nothing is synced to the disk); `download_evidence` by the old file name;
operators' reads of reports; `store_temp`, `delete_temp`, `delete_file` and
`utils/encryption.py`, which nothing calls. Evidence tasks of the workers are
placeholders.

## 10. Not modelled

Training content and support centres: reads and writes of single rows; the distance
to a centre is floating-point arithmetic, which TLC has not. Operator profile and
dashboard: reads, but for one request that creates or overwrites the operator's own
support centre. Audit: writes log lines nothing reads. Configuration, logging and health
keep no state. Migrations and scripts run outside the program; the tables they create
are in the models that use them, where they differ from the declarations in `models/`
the migrations count.
