--------------------------- MODULE OperatorSessions ---------------------------
(***************************************************************************)
(* Sessions of operators: operator_auth_service (login, refresh rotation,  *)
(* logout, password change), get_current_operator, and the administrators' *)
(* changes of the same row.                                                *)
(*                                                                         *)
(* A login and a rotation each issue a pair of tokens, access and refresh. *)
(* A refresh token is accepted while its id is in Redis (operator:refresh),*)
(* an access token unless its id is (operator:blacklist).  The row of the  *)
(* operator names the access token issued last (current_jti); what a       *)
(* request writes to the row is seen after its commit, what it writes to   *)
(* Redis at once.                                                          *)
(*                                                                         *)
(* failed_login_attempts and locked_until have no variable: the only       *)
(* request that raises them is answered 401, which rolls it back, so every *)
(* committed row holds their defaults and is_locked is false.              *)
(***************************************************************************)
EXTENDS Naturals, FiniteSets

CONSTANTS Operators,  \* rows of operator_users
          Pairs,      \* the ids (jti) that the tokens of a pair may draw
          Requests,   \* HTTP requests that can be in progress at once
          Passwords,  \* values of password_hash
          None        \* SQL NULL, a missing row, a pair not drawn

ASSUME SessionAssumption ==
    /\ None \notin Pairs \cup Operators \cup Passwords
    /\ None \notin [active: BOOLEAN, password: Passwords, jti: Pairs \cup {None}]
    /\ None \notin [owner: Operators, login: Pairs, age: 0..2]

VARIABLES account,    \* committed rows
          token,      \* of a pair: whose it is, the login it descends from, its age
          store,      \* Redis operator:refresh:{jti}
          revoked,    \* Redis operator:blacklist:{jti}
          req,        \* the requests in progress
          delivered,  \* history: pairs a committed request answered with
          spent,      \* history: pairs a rotation has revoked
          raced,      \* history: logins of which two rotations used one token at once
          cut         \* history: logins of which a rotation failed after it had revoked

vars == <<account, token, store, revoked, req, delivered, spent, raced, cut>>
histories == <<delivered, spent, raced, cut>>

Account == [active: BOOLEAN, password: Passwords, jti: Pairs \cup {None}]

\* Age 0: both tokens are valid; 1: the access token has expired (an hour);
\* 2: the refresh token too (7 days).
Token == [owner: Operators, login: Pairs, age: 0..2]

\* "old": the pair the request presents; "pair": the one it issues; "row": the
\* row its session loaded; "locks": it has written the row and holds its lock.
Request ==
    [op: {"none", "login", "fail", "refresh", "logout", "password", "active", "drop"},
     pc: {"idle", "load", "revoke", "store", "update", "commit", "refused"},
     user: Operators \cup {None}, old: Pairs \cup {None}, pair: Pairs \cup {None},
     row: Account \cup {None}, password: Passwords \cup {None}, flag: BOOLEAN,
     locks: BOOLEAN]

Idle == [op |-> "none", pc |-> "idle", user |-> None, old |-> None, pair |-> None,
         row |-> None, password |-> None, flag |-> FALSE, locks |-> FALSE]

TypeOK ==
    /\ account \in [Operators -> Account \cup {None}]
    /\ token \in [Pairs -> Token \cup {None}]
    /\ store \subseteq Pairs
    /\ revoked \subseteq Pairs
    /\ req \in [Requests -> Request]
    /\ delivered \subseteq Pairs
    /\ spent \subseteq Pairs
    /\ raced \subseteq Pairs
    /\ cut \subseteq Pairs

\* create_user has made the operators' rows; nobody has logged in yet.
Init ==
    /\ account \in [Operators -> [active: {TRUE}, password: Passwords, jti: {None}]]
    /\ token = [p \in Pairs |-> None]
    /\ store = {} /\ revoked = {}
    /\ req = [r \in Requests |-> Idle]
    /\ delivered = {} /\ spent = {} /\ raced = {} /\ cut = {}

-----------------------------------------------------------------------------
(* What a request starts from                                              *)

Exists(u) == account[u] # None

Drawn(p) == token[p] # None

\* An UPDATE or DELETE of a row waits for the transaction that wrote it.
RowLocked(u) == \E r \in Requests : req[r].user = u /\ req[r].locks

\* The client holds the refresh token of p, and its JWT has not expired.
Presentable(p) == p \in delivered /\ token[p].age < 2

\* verify_access_token: not expired, not blacklisted.
Accepted(p) == p \in delivered /\ token[p].age = 0 /\ p \notin revoked

Start(r, q) ==
    /\ req[r] = Idle
    /\ req' = [req EXCEPT ![r] = q]
    /\ UNCHANGED <<account, token, store, revoked, delivered, spent, cut>>

\* authenticate: the right password of an active operator goes on to the tokens,
\* a wrong one to the counter of failures; the inactive are refused.
LoginLoad(r, u) ==
    /\ Exists(u) /\ account[u].active
    /\ \E op \in {"login", "fail"} :
         Start(r, [Idle EXCEPT !.op = op, !.pc = "update", !.user = u])
    /\ UNCHANGED raced

\* Rotations of p that have found it in Redis and not revoked it yet.
Rotating(p) == {r \in Requests : req[r].op = "refresh" /\ req[r].old = p
                                   /\ req[r].pc \in {"load", "revoke"}}

\* Faulty: the token is consumed where it is checked (GETDEL).
RefreshLookupConsuming(r, p) ==
    /\ Presentable(p) /\ p \in store
    /\ req[r] = Idle
    /\ req' = [req EXCEPT ![r] = [Idle EXCEPT !.op = "refresh", !.pc = "load",
                                              !.user = token[p].owner, !.old = p]]
    /\ store' = store \ {p}
    /\ spent' = spent \cup {p}
    /\ UNCHANGED <<account, token, revoked, delivered, raced, cut>>

\* refresh_token: the JWT is valid and its id is in Redis.
RefreshLookup(r, p) ==
    /\ Presentable(p) /\ p \in store
    /\ Start(r, [Idle EXCEPT !.op = "refresh", !.pc = "load", !.user = token[p].owner, !.old = p])
    /\ raced' = IF Rotating(p) = {} THEN raced ELSE raced \cup {token[p].login}

\* get_current_operator before logout or a change of password: the token.
Authenticate(r, p) ==
    /\ Accepted(p)
    /\ \E op \in {"logout", "password"} :
         Start(r, [Idle EXCEPT !.op = op, !.pc = "load", !.user = token[p].owner, !.old = p])
    /\ UNCHANGED raced

\* update_user with is_active, by an administrator.
ActiveLoad(r, u, b) ==
    /\ Exists(u)
    /\ Start(r, [Idle EXCEPT !.op = "active", !.pc = "update", !.user = u, !.row = account[u],
                             !.flag = b])
    /\ UNCHANGED raced

\* delete_user, by an administrator.
DropLoad(r, u) ==
    /\ Exists(u)
    /\ Start(r, [Idle EXCEPT !.op = "drop", !.pc = "update", !.user = u])
    /\ UNCHANGED raced

-----------------------------------------------------------------------------
(* The steps of a request                                                  *)

\* Logout writes the row before Redis, a change of password after it.
AfterLoad(op) == IF op = "logout" THEN "update" ELSE "revoke"

\* The row of the presented token's operator: gone or inactive ends the request
\* in a failure.  A change of password verifies the current one against this
\* row, a wrong one fails too; its later get_by_id does not refresh the row.
LoadOperator(r) ==
    LET q == req[r] IN
    /\ q.pc = "load"
    /\ Exists(q.user) /\ account[q.user].active
    /\ req' = [req EXCEPT ![r].pc = AfterLoad(q.op),
                          ![r].row = IF q.op = "refresh" THEN None ELSE account[q.user]]
    /\ UNCHANGED <<account, token, store, revoked, histories>>

\* A new pair for u, of the login l (a login's pair descends from itself).
Draw(r, u, l) ==
    \E p \in Pairs :
      /\ ~Drawn(p)
      /\ token' = [token EXCEPT ![p] = [owner |-> u, login |-> IF l = None THEN p ELSE l, age |-> 0]]
      /\ req' = [req EXCEPT ![r].pc = "store", ![r].pair = p,
                            ![r].locks = req[r].op = "login" /\ Exists(u)]

\* Faulty: "Revoke old refresh token" is forgotten.
RevokeRefreshNot(r) ==
    LET q == req[r] IN
    /\ q.op = "refresh" /\ q.pc = "revoke"
    /\ Draw(r, q.user, token[q.old].login)
    /\ spent' = spent \cup {q.old}
    /\ UNCHANGED <<account, store, revoked, delivered, raced, cut>>

\* A rotation creates its tokens and deletes the id it was presented.
RevokeRefresh(r) ==
    LET q == req[r] IN
    /\ q.op = "refresh" /\ q.pc = "revoke"
    /\ Draw(r, q.user, token[q.old].login)
    /\ store' = store \ {q.old}
    /\ spent' = spent \cup {q.old}
    /\ UNCHANGED <<account, revoked, delivered, raced, cut>>

\* Faulty: SETEX with the id of the presented token.
StoredOld(q) == q.old

\* The id under which a new refresh token is stored.
Stored(q) == q.pair

StoreRefresh(r) ==
    LET q == req[r] IN
    /\ q.pc = "store"
    /\ store' = store \cup {Stored(q)}
    /\ req' = [req EXCEPT ![r].pc = IF q.op = "login" THEN "commit" ELSE "update"]
    /\ UNCHANGED <<account, token, revoked, histories>>

\* Logout and a change of password blacklist the access token the loaded row
\* names; logout goes on when Redis failed (its exceptions are caught).
RevokeAccess(r) ==
    LET q == req[r] IN
    /\ q.op \in {"logout", "password"} /\ q.pc = "revoke"
    /\ revoked' \in {revoked \cup ({q.row.jti} \ {None})}
                      \cup (IF q.op = "logout" THEN {revoked} ELSE {})
    /\ req' = [req EXCEPT ![r].pc = IF q.op = "logout" THEN "commit" ELSE "update"]
    /\ UNCHANGED <<account, token, store, histories>>

\* SQLAlchemy sends no UPDATE for values equal to the loaded ones.
Writes(q) ==
    /\ q.op = "logout" => q.row.jti # None
    /\ q.op = "active" => q.row.active # q.flag

AfterUpdate(op) == CASE op = "logout" -> "revoke" [] op = "fail" -> "refused" [] OTHER -> "commit"

\* login: update_last_login with a new access token (reset_failed_attempts, just
\* before, finds nothing to reset).  An operator deleted since is not found,
\* which does not stop the login.
UpdateForLogin(r) ==
    LET q == req[r] IN
    /\ q.op = "login" /\ q.pc = "update"
    /\ ~RowLocked(q.user)
    /\ Draw(r, q.user, None)
    /\ UNCHANGED <<account, store, revoked, histories>>

\* The flush of every other request.  Rotation, logout, the counter of failures
\* and a deletion pass over a row that is gone, an UPDATE of it raises.
UpdateRow(r) ==
    LET q == req[r] IN
    /\ q.op # "login" /\ q.pc = "update"
    /\ Writes(q) => ~RowLocked(q.user)
    /\ Writes(q) => Exists(q.user) \/ q.op \in {"refresh", "logout", "fail", "drop"}
    /\ \E w \in IF q.op = "password" THEN Passwords \ {q.row.password} ELSE {None} :
         req' = [req EXCEPT ![r].pc = AfterUpdate(q.op), ![r].password = w,
                            ![r].locks = Writes(q) /\ Exists(q.user)]
    /\ UNCHANGED <<account, token, store, revoked, histories>>

-----------------------------------------------------------------------------
(* The end of a request                                                    *)

\* Faulty: the UPDATE carries every column as the session loaded it.
WrittenWhole(q, a) ==
    CASE q.op \in {"login", "refresh"} -> [a EXCEPT !.jti = q.pair]
      [] q.op = "logout"               -> [q.row EXCEPT !.jti = None]
      [] q.op = "password"             -> [q.row EXCEPT !.password = q.password, !.jti = None]
      [] q.op = "active"               -> [q.row EXCEPT !.active = q.flag]
      [] OTHER                         -> None

\* The row a after the UPDATE of request q, which names the changed columns only.
Written(q, a) ==
    CASE q.op \in {"login", "refresh"} -> [a EXCEPT !.jti = q.pair]
      [] q.op = "logout"               -> [a EXCEPT !.jti = None]
      [] q.op = "password"             -> [a EXCEPT !.password = q.password,
                                             !.jti = IF q.row.jti = None THEN @ ELSE None]
      [] q.op = "active"               -> [a EXCEPT !.active = q.flag]
      [] OTHER                         -> None

\* get_db (or the service itself) commits, and the response goes out.
Commit(r) ==
    LET q == req[r] IN
    /\ q.pc = "commit"
    /\ account' = IF q.locks THEN [account EXCEPT ![q.user] = Written(q, @)] ELSE account
    /\ delivered' = delivered \cup ({q.pair} \ {None})
    /\ req' = [req EXCEPT ![r] = Idle]
    /\ UNCHANGED <<token, store, revoked, spent, raced, cut>>

\* Redis or the database failed, the handler refused, or the process died: get_db
\* rolls back, and Redis keeps what it got.
Abort(r) ==
    LET q == req[r] IN
    /\ q # Idle
    /\ req' = [req EXCEPT ![r] = Idle]
    /\ cut' = IF q.op = "refresh" /\ q.pc \in {"store", "update", "commit"}
              THEN cut \cup {token[q.old].login} ELSE cut
    /\ UNCHANGED <<account, token, store, revoked, delivered, spent, raced>>

-----------------------------------------------------------------------------
(* Time                                                                    *)

\* An hour, or the rest of 7 days, passes for a pair that somebody has; the id of
\* a refresh token goes with it (SETEX for as long as the JWT is valid).
Age(p) ==
    /\ p \in delivered /\ token[p].age < 2
    /\ token' = [token EXCEPT ![p].age = @ + 1]
    /\ store' = IF token[p].age = 1 THEN store \ {p} ELSE store
    /\ UNCHANGED <<account, revoked, req, histories>>

\* Faulty: a revoked id is kept for minutes.
RevokedExpireEarly(p) ==
    /\ p \in revoked
    /\ revoked' = revoked \ {p}
    /\ UNCHANGED <<account, token, store, req, histories>>

\* A revoked id is kept for 24 hours, an access token lives for one.
RevokedExpire(p) ==
    /\ p \in revoked /\ token[p].age > 0
    /\ revoked' = revoked \ {p}
    /\ UNCHANGED <<account, token, store, req, histories>>

Begin(r) ==
    \/ \E u \in Operators : LoginLoad(r, u) \/ DropLoad(r, u)
    \/ \E u \in Operators, b \in BOOLEAN : ActiveLoad(r, u, b)
    \/ \E p \in Pairs : RefreshLookup(r, p) \/ Authenticate(r, p)

Step(r) ==
    \/ LoadOperator(r) \/ RevokeRefresh(r) \/ StoreRefresh(r) \/ RevokeAccess(r)
    \/ UpdateForLogin(r) \/ UpdateRow(r) \/ Commit(r)

Next ==
    \/ \E r \in Requests : Begin(r) \/ Step(r) \/ Abort(r)
    \/ \E p \in Pairs : Age(p) \/ RevokedExpire(p)

Spec == Init /\ [][Next]_vars

-----------------------------------------------------------------------------
(* Properties                                                              *)

\* The refresh tokens of the login f that Redis would accept.
Live(f) == {p \in store : token[p].login = f}

\* Rotation replaces a refresh token, it never adds one: whatever fails between
\* its two writes to Redis, one login has at most one token that works, unless
\* two rotations used the same token at once.
OneLivePerLogin == \A f \in Pairs \ raced : Cardinality(Live(f)) <= 1

\* A login the client was told of goes on: some token of it, that the client has
\* and has not used, still works or has expired, or a rotation is about to
\* answer with the next one.  Only a rotation that failed after it had revoked
\* the old token ("cut") leaves a client that has to log in again; a refusal, as
\* for an inactive operator, consumes nothing.
SessionContinues ==
    \A f \in delivered \ cut :
        token[f].login = f =>
            \/ \E p \in delivered \ spent :
                 token[p].login = f /\ (p \in store \/ token[p].age = 2)
            \/ \E r \in Requests : /\ req[r].op = "refresh"
                                   /\ token[req[r].old].login = f
                                   /\ req[r].pc \in {"store", "update", "commit"}

\* A refresh token that was revoked is never accepted again, and an access token
\* that was blacklisted not before it has expired.
NothingRevived ==
    [][\A p \in Pairs : /\ p \in spent => p \notin store'
                        /\ p \in revoked /\ p \notin revoked' => token[p].age > 0]_vars

\* Requests that overlap leave each other's columns alone: the password and
\* is_active of a row change only in the step of a request that asked for that
\* value, and current_jti becomes a token only as that token is delivered.
OnlyAskedChanges ==
    [][\A u \in Operators : Exists(u) /\ account'[u] # None =>
         /\ account'[u].password # account[u].password =>
              \E r \in Requests : /\ req[r].op = "password" /\ req[r].user = u
                                  /\ req[r].password = account'[u].password
                                  /\ req'[r] = Idle
         /\ account'[u].active # account[u].active =>
              \E r \in Requests : /\ req[r].op = "active" /\ req[r].user = u
                                  /\ req[r].flag = account'[u].active
                                  /\ req'[r] = Idle
         /\ account'[u].jti \notin {account[u].jti, None} =>
              account'[u].jti \in delivered' \ delivered]_vars

\* A change of password ends the operator's sessions: as it commits, no refresh
\* token the operator was given works.
PasswordChangeLogsOut ==
    [][\A u \in Operators :
         Exists(u) /\ account'[u] # None /\ account'[u].password # account[u].password =>
           \A p \in delivered : token[p].owner = u => p \notin store']_vars
=============================================================================
