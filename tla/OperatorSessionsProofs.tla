------------------------ MODULE OperatorSessionsProofs ------------------------
(***************************************************************************)
(* Theorems about OperatorSessions, for any operators, pairs, passwords    *)
(* and overlapping requests.                                               *)
(*                                                                         *)
(* None of the properties is inductive.  What they need besides is what    *)
(* the record of a request holds at each step (Shaped), that a row lock    *)
(* has one holder and keeps the row (Locked), which ids are known to whom  *)
(* (Issued), and that of a login whose tokens were never used twice at     *)
(* once at most one request is between the check of a token and the        *)
(* storing of the next (OneClaim).                                         *)
(***************************************************************************)
EXTENDS OperatorSessions, FiniteSetTheorems, TLAPS

\* The pairs a request q has drawn and not delivered.
Carries(q) ==
    \/ q.op = "login" /\ q.pc \in {"store", "commit"}
    \/ q.op = "refresh" /\ q.pc \in {"store", "update", "commit"}

\* The row a request q loaded and uses.
Loaded(q) == q.op = "active" \/ (q.op \in {"logout", "password"} /\ q.pc # "load")

Steps(op) ==
    CASE op = "none"     -> {"idle"}
      [] op = "login"    -> {"update", "store", "commit"}
      [] op = "refresh"  -> {"load", "revoke", "store", "update", "commit"}
      [] op = "logout"   -> {"load", "update", "revoke", "commit"}
      [] op = "password" -> {"load", "revoke", "update", "commit"}
      [] op = "fail"     -> {"update", "refused"}
      [] OTHER           -> {"update", "commit"}

Shape(q) ==
    /\ q.pc \in Steps(q.op)
    /\ q.op # "none" => q.user \in Operators
    /\ q.old # None <=> q.op \in {"refresh", "logout", "password"}
    /\ q.pair # None <=> Carries(q)
    /\ Loaded(q) => q.row \in Account
    /\ q.op = "password" /\ q.pc = "commit" => q.password \in Passwords
    /\ q.locks => /\ q.op # "none" /\ q.pc \notin {"load", "update"}
                  /\ q.op \in {"password", "refresh"} => q.pc = "commit"

Shaped == \A r \in Requests : Shape(req[r])

Locked ==
    \A r \in Requests : req[r].locks =>
        /\ Exists(req[r].user)
        /\ \A s \in Requests : req[s].locks /\ req[s].user = req[r].user => s = r

\* What is known of the pair p that request q presents or carries.
Presents(q) == q.old # None => q.old \in delivered

Carried(q) ==
    q.pair # None =>
        /\ Drawn(q.pair)
        /\ q.pair \notin delivered
        /\ q.pair \in store <=> q.pc # "store"
        /\ q.op = "refresh" => token[q.pair].login = token[q.old].login

Issued ==
    /\ \A p \in delivered \cup store : Drawn(p)
    /\ \A p \in Pairs : Drawn(p) => Drawn(token[p].login)
    /\ spent \subseteq delivered
    /\ spent \cap store = {}
    /\ \A r \in Requests : Presents(req[r]) /\ Carried(req[r])
    /\ \A r, s \in Requests : req[r].pair # None /\ req[r].pair = req[s].pair => r = s

\* A token that was delivered and not used is in Redis until it expires.
Unused == \A p \in delivered \ spent : token[p].age < 2 => p \in store

\* A login goes on with a token nobody has used or with a rotation under way.
Goes(f) ==
    \/ \E p \in delivered \ spent : token[p].login = f
    \/ \E r \in Requests : /\ req[r].op = "refresh"
                           /\ token[req[r].old].login = f
                           /\ req[r].pc \in {"store", "update", "commit"}

Continues == Unused /\ \A f \in delivered \ cut : token[f].login = f => Goes(f)

\* Request q is about to replace, or to store, a token of login f.
Claims(q, f) ==
    \/ /\ q.op = "refresh" /\ q.pc \in {"load", "revoke", "store"}
       /\ token[q.old].login = f
    \/ /\ q.op = "login" /\ q.pc = "store"
       /\ token[q.pair].login = f

Single(f) == \A p, s \in Live(f) : p = s

Sole(r, f) ==
    /\ req[r].pc = "store" => Live(f) = {}
    /\ req[r].pc # "store" => Live(f) \subseteq {req[r].old}
    /\ \A s \in Requests : Claims(req[s], f) => s = r

OneClaim ==
    \A f \in Pairs \ raced :
        /\ Single(f)
        /\ \A r \in Requests : Claims(req[r], f) => Sole(r, f)

SessInv == TypeOK /\ Shaped /\ Locked /\ Issued /\ Continues /\ OneClaim

-----------------------------------------------------------------------------
(* A request starts                                                        *)

LEMMA IdleRecord == Idle \in Request /\ Shape(Idle)
  BY SessionAssumption DEF Idle, Request, Shape, Steps, Carries, Loaded

\* A request that carries nothing yet and that, if it rotates a token of a login
\* not raced, is alone with it, disturbs nothing.
LEMMA StartKeeps ==
    ASSUME SessInv, NEW r \in Requests, NEW n \in Request, Start(r, n), Shape(n),
           ~n.locks, n.pair = None, n.pc # "store", n.op # "none",
           n.old # None => n.old \in delivered,
           raced \subseteq raced', raced' \subseteq Pairs,
           \A f \in Pairs \ raced' : Claims(n, f) =>
             Live(f) \subseteq {n.old} /\ \A s \in Requests : ~Claims(req[s], f)
    PROVE  SessInv'
  <1>1. /\ req[r] = Idle /\ req'[r] = n
        /\ \A s \in Requests : s # r => req'[s] = req[s]
        /\ req' \in [Requests -> Request]
    BY DEF Start, SessInv, TypeOK
  <1>2. UNCHANGED <<account, token, store, revoked, delivered, spent, cut>>
    BY DEF Start
  <1>3. TypeOK'
    BY <1>1, <1>2 DEF SessInv, TypeOK
  <1>4. Shaped'
    BY <1>1 DEF SessInv, Shaped
  <1>5. Locked'
    BY <1>1, <1>2 DEF SessInv, Locked, Exists
  <1>6. Issued'
    <2>1. \A s \in Requests : Presents(req[s])' /\ Carried(req[s])'
      BY <1>1, <1>2 DEF SessInv, Issued, Presents, Carried, Drawn
    <2>2. \A s, t \in Requests : req'[s].pair # None /\ req'[s].pair = req'[t].pair => s = t
      BY <1>1 DEF SessInv, Issued
    <2> QED BY <1>2, <2>1, <2>2 DEF SessInv, Issued, Drawn
  <1>7. Continues'
    <2>1. \A f : Goes(f) => Goes(f)'
      BY <1>1, <1>2 DEF Goes, Idle
    <2> QED BY <1>2, <2>1 DEF SessInv, Continues, Unused
  <1>8. OneClaim'
    <2> SUFFICES ASSUME NEW f \in Pairs \ raced'
                 PROVE  Single(f)' /\ \A s \in Requests : Claims(req[s], f)' => Sole(s, f)'
      BY DEF OneClaim
    <2>1. Live(f)' = Live(f)
      BY <1>2 DEF Live
    <2>2. /\ Single(f)
          /\ \A s \in Requests : Claims(req[s], f) => Sole(s, f)
      BY DEF SessInv, OneClaim
    <2>3. \A s \in Requests : s # r => (Claims(req[s], f)' <=> Claims(req[s], f))
      BY <1>1, <1>2 DEF Claims
    <2>4. Claims(req[r], f)' <=> Claims(n, f)
      BY <1>1, <1>2 DEF Claims
    <2>5. ASSUME NEW s \in Requests, Claims(req[s], f)'
          PROVE  Sole(s, f)'
      <3>1. CASE s = r
        BY <1>1, <2>1, <2>3, <2>4, <2>5, <3>1 DEF Sole
      <3>2. CASE s # r
        <4>1. Claims(req[s], f) /\ Sole(s, f) /\ ~Claims(n, f)
          BY <2>2, <2>3, <2>5, <3>2
        <4> QED BY <1>1, <2>1, <2>3, <2>4, <3>2, <4>1 DEF Sole
      <3> QED BY <3>1, <3>2
    <2> QED BY <2>1, <2>2, <2>5 DEF Single
  <1> QED BY <1>3, <1>4, <1>5, <1>6, <1>7, <1>8 DEF SessInv

LEMMA LoginLoadKeeps ==
    ASSUME SessInv, NEW r \in Requests, NEW u \in Operators, LoginLoad(r, u)
    PROVE  SessInv'
  <1>1. PICK op \in {"login", "fail"} :
          Start(r, [Idle EXCEPT !.op = op, !.pc = "update", !.user = u])
    BY DEF LoginLoad
  <1> DEFINE n == [Idle EXCEPT !.op = op, !.pc = "update", !.user = u]
  <1>2. n \in Request /\ Shape(n) /\ n.op = op /\ n.pc = "update" /\ ~n.locks
          /\ n.pair = None /\ n.old = None
    BY SessionAssumption DEF Idle, Request, Shape, Steps, Carries, Loaded
  <1>3. raced' = raced /\ raced \subseteq Pairs
    BY DEF LoginLoad, SessInv, TypeOK
  <1> HIDE DEF n
  <1>4. \A f \in Pairs : ~Claims(n, f)
    BY <1>2 DEF Claims
  <1> QED BY <1>1, <1>2, <1>3, <1>4, StartKeeps DEF n

LEMMA DropLoadKeeps ==
    ASSUME SessInv, NEW r \in Requests, NEW u \in Operators, DropLoad(r, u)
    PROVE  SessInv'
  <1> DEFINE n == [Idle EXCEPT !.op = "drop", !.pc = "update", !.user = u]
  <1>1. Start(r, n) /\ raced' = raced /\ raced \subseteq Pairs
    BY DEF DropLoad, SessInv, TypeOK
  <1>2. n \in Request /\ Shape(n) /\ n.op = "drop" /\ n.pc = "update" /\ ~n.locks
          /\ n.pair = None /\ n.old = None
    BY SessionAssumption DEF Idle, Request, Shape, Steps, Carries, Loaded
  <1> HIDE DEF n
  <1>3. \A f \in Pairs : ~Claims(n, f)
    BY <1>2 DEF Claims
  <1> QED BY <1>1, <1>2, <1>3, StartKeeps

LEMMA ActiveLoadKeeps ==
    ASSUME SessInv, NEW r \in Requests, NEW u \in Operators, NEW b \in BOOLEAN, ActiveLoad(r, u, b)
    PROVE  SessInv'
  <1> DEFINE n == [Idle EXCEPT !.op = "active", !.pc = "update", !.user = u, !.row = account[u],
                               !.flag = b]
  <1>1. Start(r, n) /\ raced' = raced /\ raced \subseteq Pairs
    BY DEF ActiveLoad, SessInv, TypeOK
  <1>2. account[u] \in Account
    BY DEF ActiveLoad, Exists, SessInv, TypeOK
  <1>3. n \in Request /\ Shape(n) /\ n.op = "active" /\ n.pc = "update" /\ ~n.locks
          /\ n.pair = None /\ n.old = None
    BY <1>2, SessionAssumption DEF Idle, Request, Shape, Steps, Carries, Loaded
  <1> HIDE DEF n
  <1>4. \A f \in Pairs : ~Claims(n, f)
    BY <1>3 DEF Claims
  <1> QED BY <1>1, <1>3, <1>4, StartKeeps

LEMMA DeliveredToken ==
    ASSUME SessInv, NEW p \in delivered
    PROVE  p \in Pairs /\ p # None /\ token[p] \in Token
  BY SessionAssumption DEF SessInv, TypeOK, Issued, Drawn

LEMMA AuthenticateKeeps ==
    ASSUME SessInv, NEW r \in Requests, NEW p \in Pairs, Authenticate(r, p)
    PROVE  SessInv'
  <1>1. PICK op \in {"logout", "password"} :
          Start(r, [Idle EXCEPT !.op = op, !.pc = "load", !.user = token[p].owner, !.old = p])
    BY DEF Authenticate
  <1> DEFINE n == [Idle EXCEPT !.op = op, !.pc = "load", !.user = token[p].owner, !.old = p]
  <1>2. p \in delivered /\ p # None /\ token[p].owner \in Operators
    BY DeliveredToken DEF Authenticate, Accepted, Token
  <1>3. n \in Request /\ Shape(n) /\ n.op = op /\ n.pc = "load" /\ ~n.locks
          /\ n.pair = None /\ n.old = p
    BY <1>2, SessionAssumption DEF Idle, Request, Shape, Steps, Carries, Loaded
  <1>4. raced' = raced /\ raced \subseteq Pairs
    BY DEF Authenticate, SessInv, TypeOK
  <1> HIDE DEF n
  <1>5. \A f \in Pairs : ~Claims(n, f)
    BY <1>3 DEF Claims
  <1> QED BY <1>1, <1>2, <1>3, <1>4, <1>5, StartKeeps DEF n

\* A rotation that finds its token in Redis and nobody else with it is the only
\* one of its login: any other would hold the same token, or none would be there.
LEMMA RefreshLookupKeeps ==
    ASSUME SessInv, NEW r \in Requests, NEW p \in Pairs, RefreshLookup(r, p)
    PROVE  SessInv'
  <1> DEFINE n == [Idle EXCEPT !.op = "refresh", !.pc = "load", !.user = token[p].owner, !.old = p]
             g == token[p].login
  <1>1. Start(r, n)
    BY DEF RefreshLookup
  <1>2. p \in delivered /\ p # None /\ p \in store /\ token[p].owner \in Operators /\ g \in Pairs
    BY DeliveredToken DEF RefreshLookup, Presentable, Token
  <1>3. n \in Request /\ Shape(n) /\ n.op = "refresh" /\ n.pc = "load" /\ ~n.locks
          /\ n.pair = None /\ n.old = p
    BY <1>2, SessionAssumption DEF Idle, Request, Shape, Steps, Carries, Loaded
  <1>4. /\ raced \subseteq raced' /\ raced' \subseteq Pairs
        /\ g \notin raced' => Rotating(p) = {}
    BY <1>2 DEF RefreshLookup, SessInv, TypeOK
  <1> HIDE DEF n
  <1>5. ASSUME NEW f \in Pairs \ raced', Claims(n, f)
        PROVE  Live(f) \subseteq {p} /\ \A s \in Requests : ~Claims(req[s], f)
    <2>1. f = g /\ f \in Pairs \ raced
      BY <1>3, <1>4, <1>5 DEF Claims
    <2>2. p \in Live(f) /\ Rotating(p) = {}
      BY <1>2, <1>4, <1>5, <2>1 DEF Live
    <2>3. Single(f) /\ \A s \in Requests : Claims(req[s], f) => Sole(s, f)
      BY <2>1 DEF SessInv, OneClaim
    <2>4. ASSUME NEW s \in Requests, Claims(req[s], f)
          PROVE  FALSE
      <3>1. req[s].pc # "store" /\ req[s].old = p
        BY <2>2, <2>3, <2>4 DEF Sole
      <3>2. s \in Rotating(p)
        BY <2>4, <3>1 DEF Claims, Rotating
      <3> QED BY <2>2, <3>2
    <2> QED BY <2>2, <2>3, <2>4 DEF Single
  <1> QED BY <1>1, <1>2, <1>3, <1>4, <1>5, StartKeeps

-----------------------------------------------------------------------------
(* A request goes on                                                       *)

\* A step of a request that neither draws, stores nor delivers.
LEMMA MoveKeeps ==
    ASSUME SessInv, NEW r \in Requests, NEW n \in Request, req' = [req EXCEPT ![r] = n],
           UNCHANGED <<account, token, store, delivered, spent, raced, cut>>,
           revoked' \subseteq Pairs, Shape(n), req[r].op # "none",
           n.op = req[r].op, n.user = req[r].user, n.old = req[r].old, n.pair = req[r].pair,
           n.locks => req[r].locks \/ (Exists(req[r].user) /\ ~RowLocked(req[r].user)),
           req[r].pc # "store", n.pc # "store",
           req[r].pc \in {"update", "commit"} => n.pc \notin {"load", "revoke"} \/ n.op # "refresh"
    PROVE  SessInv'
  <1>1. /\ req'[r] = n
        /\ \A s \in Requests : s # r => req'[s] = req[s]
        /\ req' \in [Requests -> Request]
    BY DEF SessInv, TypeOK
  <1>2. Shape(req[r])
    BY DEF SessInv, Shaped
  <1>3. TypeOK'
    BY <1>1 DEF SessInv, TypeOK
  <1>4. Shaped'
    BY <1>1 DEF SessInv, Shaped
  <1>5. Locked'
    <2>1. ASSUME NEW s \in Requests, req'[s].locks
          PROVE  account'[req'[s].user] # None
      BY <1>1, <2>1 DEF SessInv, Locked, Exists
    <2>2. ASSUME NEW s \in Requests, NEW t \in Requests, req'[s].locks, req'[t].locks,
                 req'[t].user = req'[s].user
          PROVE  t = s
      BY <1>1, <2>2 DEF SessInv, Locked, RowLocked
    <2> QED BY <2>1, <2>2 DEF Locked, Exists
  <1>6. Issued'
    <2>1. \A s \in Requests : Presents(req[s])' /\ Carried(req[s])'
      BY <1>1 DEF SessInv, Issued, Presents, Carried, Drawn
    <2>2. \A s, t \in Requests : req'[s].pair # None /\ req'[s].pair = req'[t].pair => s = t
      BY <1>1 DEF SessInv, Issued
    <2> QED BY <2>1, <2>2 DEF SessInv, Issued, Drawn
  <1>7. Continues'
    <2>1. req[r].op = "refresh" /\ req[r].pc \in {"update", "commit"} => n.pc \in {"update", "commit"}
      BY <1>4, <1>1 DEF Shaped, Shape, Steps
    <2>2. \A f : Goes(f) => Goes(f)'
      BY <1>1, <2>1 DEF Goes
    <2> QED BY <2>2 DEF SessInv, Continues, Unused
  <1>8. OneClaim'
    <2> SUFFICES ASSUME NEW f \in Pairs \ raced
                 PROVE  Single(f)' /\ \A s \in Requests : Claims(req[s], f)' => Sole(s, f)'
      BY DEF OneClaim
    <2>1. Live(f)' = Live(f)
      BY DEF Live
    <2>2. /\ Single(f)
          /\ \A s \in Requests : Claims(req[s], f) => Sole(s, f)
      BY DEF SessInv, OneClaim
    <2>3. req[r].op = "refresh" /\ n.pc \in {"load", "revoke"} => req[r].pc \in {"load", "revoke"}
      BY <1>2 DEF Shape, Steps
    <2>4. \A s \in Requests : Claims(req[s], f)' => Claims(req[s], f)
      BY <1>1, <2>3 DEF Claims
    <2>5. \A s \in Requests : Claims(req[s], f)' => Sole(s, f)'
      BY <1>1, <2>1, <2>2, <2>4 DEF Sole
    <2> QED BY <2>1, <2>2, <2>5 DEF Single
  <1> QED BY <1>3, <1>4, <1>5, <1>6, <1>7, <1>8 DEF SessInv

LEMMA LoadOperatorKeeps ==
    ASSUME SessInv, NEW r \in Requests, LoadOperator(r)
    PROVE  SessInv'
  <1> DEFINE q == req[r]
             n == [q EXCEPT !.pc = AfterLoad(q.op),
                            !.row = IF q.op = "refresh" THEN None ELSE account[q.user]]
  <1>1. req' = [req EXCEPT ![r] = n]
    BY DEF LoadOperator, SessInv, TypeOK, Request
  <1>2. q \in Request /\ Shape(q) /\ q.pc = "load" /\ account[q.user] # None
    BY DEF LoadOperator, Exists, SessInv, TypeOK, Shaped
  <1>3. q.op \in {"refresh", "logout", "password"} /\ q.user \in Operators /\ ~q.locks
    BY <1>2 DEF Shape, Steps
  <1>4. account[q.user] \in Account
    BY <1>2, <1>3 DEF SessInv, TypeOK
  <1>5. /\ n \in Request /\ n.op = q.op /\ n.user = q.user /\ n.old = q.old /\ n.pair = q.pair
        /\ ~n.locks /\ n.pc = AfterLoad(q.op)
        /\ n.row = IF q.op = "refresh" THEN None ELSE account[q.user]
    BY <1>2, <1>3, <1>4 DEF Request, AfterLoad
  <1>6. Shape(n)
    BY <1>2, <1>3, <1>4, <1>5 DEF Shape, Steps, Carries, Loaded, AfterLoad
  <1>7. UNCHANGED <<account, token, store, delivered, spent, raced, cut>> /\ revoked' \subseteq Pairs
    BY DEF LoadOperator, histories, SessInv, TypeOK
  <1> HIDE DEF n
  <1> QED BY <1>1, <1>2, <1>3, <1>5, <1>6, <1>7, MoveKeeps DEF AfterLoad

LEMMA RevokeAccessKeeps ==
    ASSUME SessInv, NEW r \in Requests, RevokeAccess(r)
    PROVE  SessInv'
  <1> DEFINE q == req[r]
             n == [q EXCEPT !.pc = IF q.op = "logout" THEN "commit" ELSE "update"]
  <1>1. req' = [req EXCEPT ![r] = n]
    BY DEF RevokeAccess, SessInv, TypeOK, Request
  <1>2. q \in Request /\ Shape(q) /\ q.op \in {"logout", "password"} /\ q.pc = "revoke"
    BY DEF RevokeAccess, SessInv, TypeOK, Shaped
  <1>3. q.row \in Account /\ q.user \in Operators
    BY <1>2 DEF Shape, Loaded
  <1>4. /\ n \in Request /\ n.op = q.op /\ n.user = q.user /\ n.old = q.old /\ n.pair = q.pair
        /\ n.locks = q.locks /\ n.pc = IF q.op = "logout" THEN "commit" ELSE "update"
        /\ n.row = q.row /\ n.password = q.password
    BY <1>2 DEF Request
  <1>5. Shape(n)
    BY <1>2, <1>3, <1>4 DEF Shape, Steps, Carries, Loaded
  <1>6. UNCHANGED <<account, token, store, delivered, spent, raced, cut>> /\ revoked' \subseteq Pairs
    BY <1>3 DEF RevokeAccess, histories, SessInv, TypeOK, Account
  <1> HIDE DEF n
  <1> QED BY <1>1, <1>2, <1>4, <1>5, <1>6, MoveKeeps

LEMMA UpdateRowKeeps ==
    ASSUME SessInv, NEW r \in Requests, UpdateRow(r)
    PROVE  SessInv'
  <1> DEFINE q == req[r]
  <1>1. q \in Request /\ Shape(q) /\ q.op \notin {"none", "login"} /\ q.pc = "update"
    BY DEF UpdateRow, SessInv, TypeOK, Shaped, Shape, Steps
  <1>2. /\ q.op \in {"refresh", "logout", "password", "active", "fail", "drop"}
        /\ q.user \in Operators
        /\ q.op = "password" => q.row \in Account
    BY <1>1 DEF Shape, Loaded, Request
  <1>3. PICK w \in IF q.op = "password" THEN Passwords \ {q.row.password} ELSE {None} :
          req' = [req EXCEPT ![r].pc = AfterUpdate(q.op), ![r].password = w,
                             ![r].locks = Writes(q) /\ Exists(q.user)]
    BY DEF UpdateRow
  <1> DEFINE b == Writes(q) /\ Exists(q.user)
             n == [q EXCEPT !.pc = AfterUpdate(q.op), !.password = w, !.locks = b]
  <1>4. req' = [req EXCEPT ![r] = n]
    BY <1>3 DEF SessInv, TypeOK, Request
  <1>5. b \in BOOLEAN /\ (b => ~RowLocked(q.user))
    BY DEF UpdateRow, Writes, Exists
  <1> HIDE DEF b
  <1>6. w \in Passwords \cup {None} /\ (q.op = "password" => w \in Passwords)
    BY <1>3
  <1>7. /\ n \in Request /\ n.op = q.op /\ n.user = q.user /\ n.old = q.old /\ n.pair = q.pair
        /\ n.locks = b /\ n.pc = AfterUpdate(q.op) /\ n.row = q.row /\ n.password = w
    BY <1>1, <1>2, <1>5, <1>6 DEF Request, AfterUpdate
  <1>8. Shape(n)
    BY <1>1, <1>2, <1>6, <1>7 DEF Shape, Steps, Carries, Loaded, AfterUpdate
  <1>9. UNCHANGED <<account, token, store, delivered, spent, raced, cut>> /\ revoked' \subseteq Pairs
    BY DEF UpdateRow, histories, SessInv, TypeOK
  <1>10. n.locks => Exists(q.user) /\ ~RowLocked(q.user)
    BY <1>5, <1>7 DEF b
  <1> HIDE DEF n
  <1> QED BY <1>1, <1>2, <1>4, <1>7, <1>8, <1>9, <1>10, MoveKeeps DEF AfterUpdate

-----------------------------------------------------------------------------
(* Pairs are drawn and stored                                              *)

\* What a draw of the pair p for user u, of login l (None: its own), does.
DrawsPair(r, u, l, p) ==
    /\ ~Drawn(p)
    /\ token' = [token EXCEPT ![p] = [owner |-> u, login |-> IF l = None THEN p ELSE l, age |-> 0]]
    /\ req' = [req EXCEPT ![r].pc = "store", ![r].pair = p,
                          ![r].locks = req[r].op = "login" /\ Exists(u)]

\* The record of request q after the draw.
WithPair(q, p, b) == [q EXCEPT !.pc = "store", !.pair = p, !.locks = b]

LEMMA DrawnRecord ==
    ASSUME NEW q \in Request, Shape(q), NEW p \in Pairs, NEW b \in BOOLEAN,
           (q.op = "login" /\ q.pc = "update") \/ (q.op = "refresh" /\ q.pc = "revoke" /\ ~b)
    PROVE  /\ WithPair(q, p, b) \in Request /\ Shape(WithPair(q, p, b))
           /\ WithPair(q, p, b).op = q.op /\ WithPair(q, p, b).pc = "store"
           /\ WithPair(q, p, b).user = q.user /\ WithPair(q, p, b).old = q.old
           /\ WithPair(q, p, b).pair = p /\ WithPair(q, p, b).locks = b
  <1> DEFINE n == WithPair(q, p, b)
  <1>1. /\ n \in Request /\ n.op = q.op /\ n.pc = "store" /\ n.user = q.user /\ n.old = q.old
        /\ n.pair = p /\ n.locks = b
    BY DEF Request, WithPair
  <1>2. p # None
    BY SessionAssumption
  <1> HIDE DEF n
  <1>3. Shape(n)
    BY <1>1, <1>2 DEF Shape, Steps, Carries, Loaded
  <1> QED BY <1>1, <1>3 DEF n

\* Drawing a new pair keeps types, shapes, locks and what is known of ids, if the
\* store loses at most tokens that become spent.
LEMMA DrawKeeps ==
    ASSUME SessInv, NEW r \in Requests, NEW p \in Pairs, NEW l \in Pairs \cup {None},
           NEW G \in SUBSET delivered,
           DrawsPair(r, req[r].user, l, p), l # None => Drawn(l),
           \/ /\ req[r].op = "login" /\ req[r].pc = "update" /\ l = None
              /\ ~RowLocked(req[r].user)
           \/ /\ req[r].op = "refresh" /\ req[r].pc = "revoke" /\ l = token[req[r].old].login,
           store' = store \ G, spent' = spent \cup G,
           UNCHANGED <<account, revoked, delivered, raced, cut>>
    PROVE  /\ TypeOK' /\ Shaped' /\ Locked' /\ Issued'
           /\ req'[r].op = req[r].op /\ req'[r].pc = "store" /\ req'[r].old = req[r].old
           /\ req'[r].pair = p /\ token'[p].login = IF l = None THEN p ELSE l
           /\ \A s \in Requests : s # r => req'[s] = req[s]
           /\ \A s \in Pairs : Drawn(s) => s # p /\ token'[s] = token[s]
  <1> DEFINE q == req[r]
             b == req[r].op = "login" /\ Exists(req[r].user)
             n == WithPair(q, p, b)
             t == [owner |-> q.user, login |-> IF l = None THEN p ELSE l, age |-> 0]
  <1>1. q \in Request /\ Shape(q) /\ b \in BOOLEAN
    BY DEF SessInv, TypeOK, Shaped
  <1>2. req' = [req EXCEPT ![r] = n]
    BY DEF DrawsPair, WithPair, SessInv, TypeOK, Request
  <1>3. q.op = "refresh" => ~b
    OBVIOUS
  <1>4. b => Exists(q.user) /\ ~RowLocked(q.user)
    OBVIOUS
  <1> HIDE DEF b
  <1>5. /\ n \in Request /\ Shape(n) /\ n.op = q.op /\ n.pc = "store" /\ n.user = q.user
        /\ n.old = q.old /\ n.pair = p /\ n.locks = b
    BY <1>1, <1>3, DrawnRecord
  <1> HIDE DEF n
  <1>6. /\ req'[r] = n
        /\ \A s \in Requests : s # r => req'[s] = req[s]
        /\ req' \in [Requests -> Request]
    BY <1>2, <1>5 DEF SessInv, TypeOK
  <1>7. q.user \in Operators
    BY <1>1 DEF Shape
  <1>8. t \in Token /\ t.login = IF l = None THEN p ELSE l
    BY <1>7 DEF Token
  <1>9. /\ ~Drawn(p) /\ token' = [token EXCEPT ![p] = t]
    BY DEF DrawsPair
  <1>10. t # None
    BY <1>8, SessionAssumption DEF Token
  <1> HIDE DEF t
  <1>11. /\ token' \in [Pairs -> Token \cup {None}] /\ token'[p] = t
         /\ \A s \in Pairs : s # p => token'[s] = token[s]
         /\ \A s \in Pairs : Drawn(s) => s # p /\ token'[s] = token[s]
    BY <1>8, <1>9 DEF SessInv, TypeOK, Drawn
  <1>12. \A s \in Pairs : Drawn(s) => token'[s] # None
    BY <1>11 DEF Drawn
  <1>13. p # None /\ p \notin delivered \cup store
    BY <1>9, SessionAssumption DEF SessInv, Issued
  <1>14. TypeOK'
    BY <1>6, <1>11 DEF SessInv, TypeOK
  <1>15. Shaped'
    BY <1>5, <1>6 DEF SessInv, Shaped
  <1>16. Locked'
    <2>1. ASSUME NEW s \in Requests, req'[s].locks
          PROVE  account'[req'[s].user] # None
      BY <1>4, <1>5, <1>6, <2>1 DEF SessInv, Locked, Exists
    <2>2. ASSUME NEW s \in Requests, NEW x \in Requests, req'[s].locks, req'[x].locks,
                 req'[x].user = req'[s].user
          PROVE  x = s
      BY <1>4, <1>5, <1>6, <2>2 DEF SessInv, Locked, RowLocked
    <2> QED BY <2>1, <2>2 DEF Locked, Exists
  <1>17. Issued'
    <2>1. \A s \in delivered' \cup store' : token'[s] # None
      BY <1>12 DEF SessInv, TypeOK, Issued
    <2>2. \A s \in Pairs : token'[s] # None => token'[token'[s].login] # None
      <3>1. token'[t.login] # None
        BY <1>8, <1>10, <1>11, <1>12
      <3>2. ASSUME NEW s \in Pairs, s # p, token'[s] # None
            PROVE  token'[token'[s].login] # None
        <4>1. token[s] \in Token /\ Drawn(s) /\ token'[s] = token[s]
          BY <1>11, <3>2 DEF SessInv, TypeOK, Drawn
        <4>2. token[s].login \in Pairs /\ Drawn(token[s].login)
          BY <4>1 DEF SessInv, Issued, Token
        <4> QED BY <1>12, <4>1, <4>2
      <3> QED BY <1>11, <3>1, <3>2
    <2>3. spent' \subseteq delivered' /\ spent' \cap store' = {}
      BY DEF SessInv, Issued
    <2>4. \A s \in Requests : Presents(req[s])'
      BY <1>5, <1>6 DEF SessInv, Issued, Presents
    <2>5. Carried(req[r])'
      <3>1. q.op = "refresh" => q.old \in delivered /\ Drawn(q.old) /\ l # None
        <4>1. q.op = "refresh" => q.old # None
          BY <1>1 DEF Shape
        <4>2. q.op = "refresh" => q.old \in delivered
          BY <4>1 DEF SessInv, Issued, Presents
        <4>3. q.op = "refresh" => token[q.old] \in Token
          BY <4>2, DeliveredToken
        <4> QED BY <4>2, <4>3, SessionAssumption DEF SessInv, Issued, Token
      <3>2. q.op = "refresh" => token'[p].login = token'[q.old].login
        BY <1>8, <1>11, <3>1 DEF SessInv, TypeOK
      <3> QED BY <1>5, <1>6, <1>10, <1>11, <1>13, <3>2 DEF Carried, Drawn
    <2>6. ASSUME NEW s \in Requests, s # r
          PROVE  Carried(req[s])'
      <3>1. CASE req[s].pair = None
        BY <1>6, <2>6, <3>1 DEF Carried
      <3>2. CASE req[s].pair # None
        <4>1. /\ Drawn(req[s].pair) /\ req[s].pair \notin delivered /\ req[s].pair \in Pairs
              /\ req[s].pair \in store <=> req[s].pc # "store"
              /\ req[s].op = "refresh" => token[req[s].pair].login = token[req[s].old].login
          BY <3>2 DEF SessInv, Issued, Carried, TypeOK, Request
        <4>2. req[s].op = "refresh" => req[s].old \in Pairs /\ Drawn(req[s].old)
          <5>1. req[s].op = "refresh" => req[s].old # None
            BY DEF SessInv, Shaped, Shape
          <5> QED BY <5>1 DEF SessInv, Issued, Presents, TypeOK
        <4> QED BY <1>6, <1>11, <1>12, <2>6, <4>1, <4>2 DEF Carried, Drawn
      <3> QED BY <3>1, <3>2
    <2>7. \A s, x \in Requests : req'[s].pair # None /\ req'[s].pair = req'[x].pair => s = x
      <3>1. \A s \in Requests : req[s].pair # p
        BY <1>9, <1>13 DEF SessInv, Issued, Carried
      <3> QED BY <1>5, <1>6, <3>1 DEF SessInv, Issued
    <2> QED BY <2>1, <2>2, <2>3, <2>4, <2>5, <2>6, <2>7 DEF Issued, Drawn
  <1> QED BY <1>5, <1>6, <1>8, <1>11, <1>14, <1>15, <1>16, <1>17

\* A login draws the first pair of a login that nobody can be rotating.
LEMMA UpdateForLoginKeeps ==
    ASSUME SessInv, NEW r \in Requests, UpdateForLogin(r)
    PROVE  SessInv'
  <1>1. PICK p \in Pairs : DrawsPair(r, req[r].user, None, p)
    BY DEF UpdateForLogin, Draw, DrawsPair
  <1>2. /\ req[r].op = "login" /\ req[r].pc = "update" /\ ~RowLocked(req[r].user)
        /\ UNCHANGED <<account, store, revoked, delivered, spent, raced, cut>>
    BY DEF UpdateForLogin, histories
  <1> DEFINE G == {}
  <1>3. store' = store \ G /\ spent' = spent \cup G /\ G \in SUBSET delivered
    BY <1>2
  <1> HIDE DEF G
  <1>4. /\ TypeOK' /\ Shaped' /\ Locked' /\ Issued'
        /\ req'[r].op = "login" /\ req'[r].pc = "store" /\ req'[r].pair = p
        /\ token'[p].login = p
        /\ \A s \in Requests : s # r => req'[s] = req[s]
        /\ \A s \in Pairs : Drawn(s) => s # p /\ token'[s] = token[s]
    BY <1>1, <1>2, <1>3, DrawKeeps
  <1>5. /\ \A s \in delivered \cup store : s \in Pairs /\ token'[s] = token[s]
        /\ ~Drawn(p)
    BY <1>1, <1>4 DEF SessInv, Issued, TypeOK, DrawsPair
  <1>6. \A s \in Requests : s # r /\ req[s].op = "refresh" =>
          /\ req[s].old \in delivered /\ token'[req[s].old] = token[req[s].old]
          /\ token[req[s].old].login # p
    <2>1. \A s \in Requests : req[s].op = "refresh" => req[s].old # None
      BY DEF SessInv, Shaped, Shape
    <2>2. \A s \in Requests : req[s].op = "refresh" => req[s].old \in delivered
      BY <2>1 DEF SessInv, Issued, Presents
    <2>3. \A s \in delivered : token[s] \in Token /\ Drawn(token[s].login)
      BY DeliveredToken DEF SessInv, Issued
    <2> QED BY <1>5, <2>2, <2>3
  <1>7. Continues'
    <2>1. Unused'
      BY <1>2, <1>5 DEF SessInv, Continues, Unused
    <2>2. \A f : Goes(f) => Goes(f)'
      BY <1>2, <1>4, <1>5, <1>6 DEF Goes
    <2> QED BY <1>2, <1>5, <2>1, <2>2 DEF SessInv, Continues
  <1>8. OneClaim'
    <2> SUFFICES ASSUME NEW f \in Pairs \ raced
                 PROVE  Single(f)' /\ \A s \in Requests : Claims(req[s], f)' => Sole(s, f)'
      BY <1>2 DEF OneClaim
    <2>1. Live(f)' = Live(f)
      BY <1>2, <1>5 DEF Live
    <2>2. /\ Single(f)
          /\ \A s \in Requests : Claims(req[s], f) => Sole(s, f)
      BY DEF SessInv, OneClaim
    <2>3. Claims(req[r], f)' <=> f = p
      BY <1>4 DEF Claims
    <2>4. ASSUME NEW s \in Requests, s # r
          PROVE  (Claims(req[s], f)' <=> Claims(req[s], f)) /\ ~Claims(req[s], p)
      <3>1. CASE req[s].op = "refresh"
        BY <1>4, <1>6, <2>4, <3>1 DEF Claims
      <3>2. CASE req[s].op = "login" /\ req[s].pc = "store"
        <4>1. req[s].pair # None
          BY <3>2 DEF SessInv, Shaped, Shape, Carries
        <4>2. req[s].pair \in Pairs /\ Drawn(req[s].pair)
          BY <4>1 DEF SessInv, Issued, Carried, TypeOK, Request
        <4>3. token'[req[s].pair] = token[req[s].pair] /\ token[req[s].pair].login # p
          BY <1>4, <1>5, <4>2 DEF SessInv, Issued
        <4> QED BY <1>4, <2>4, <3>2, <4>3 DEF Claims
      <3>3. CASE req[s].op # "refresh" /\ ~(req[s].op = "login" /\ req[s].pc = "store")
        BY <1>4, <2>4, <3>3 DEF Claims
      <3> QED BY <3>1, <3>2, <3>3
    <2>5. f = p => Live(f) = {}
      BY <1>5, <2>1 DEF Live, SessInv, Issued, Drawn
    <2>6. ASSUME NEW s \in Requests, Claims(req[s], f)'
          PROVE  Sole(s, f)'
      <3>1. CASE f = p
        BY <1>4, <2>1, <2>3, <2>4, <2>5, <2>6, <3>1 DEF Sole
      <3>2. CASE f # p
        BY <1>4, <2>1, <2>2, <2>3, <2>4, <2>6, <3>2 DEF Sole
      <3> QED BY <3>1, <3>2
    <2> QED BY <2>1, <2>2, <2>6 DEF Single
  <1> QED BY <1>4, <1>7, <1>8 DEF SessInv

\* A rotation revokes the only live token of its login and goes on alone.
LEMMA RevokeRefreshKeeps ==
    ASSUME SessInv, NEW r \in Requests, RevokeRefresh(r)
    PROVE  SessInv'
  <1> DEFINE o == req[r].old
             g == token[o].login
             G == {o}
  <1>1. PICK p \in Pairs : DrawsPair(r, req[r].user, g, p)
    BY DEF RevokeRefresh, Draw, DrawsPair
  <1>2. /\ req[r].op = "refresh" /\ req[r].pc = "revoke"
        /\ store' = store \ G /\ spent' = spent \cup G
        /\ UNCHANGED <<account, revoked, delivered, raced, cut>>
    BY DEF RevokeRefresh
  <1>3. \A s \in Requests : req[s].op = "refresh" =>
          /\ req[s].old \in delivered /\ token[req[s].old] \in Token
          /\ token[req[s].old].login \in Pairs /\ Drawn(token[req[s].old].login)
    <2>1. \A s \in Requests : req[s].op = "refresh" => req[s].old # None
      BY DEF SessInv, Shaped, Shape
    <2>2. \A s \in Requests : req[s].op = "refresh" => req[s].old \in delivered
      BY <2>1 DEF SessInv, Issued, Presents
    <2>3. \A s \in delivered : token[s] \in Token /\ token[s].login \in Pairs /\ Drawn(token[s].login)
      BY DeliveredToken DEF SessInv, Issued, Token
    <2> QED BY <2>2, <2>3
  <1>4. o \in delivered /\ g \in Pairs /\ Drawn(g) /\ g # None /\ G \in SUBSET delivered
    BY <1>2, <1>3, SessionAssumption
  <1>5. g = token[req[r].old].login
    OBVIOUS
  <1> HIDE DEF g, G
  <1>6. /\ TypeOK' /\ Shaped' /\ Locked' /\ Issued'
        /\ req'[r].op = "refresh" /\ req'[r].pc = "store" /\ req'[r].old = o /\ req'[r].pair = p
        /\ token'[p].login = g
        /\ \A s \in Requests : s # r => req'[s] = req[s]
        /\ \A s \in Pairs : Drawn(s) => s # p /\ token'[s] = token[s]
    BY <1>1, <1>2, <1>4, <1>5, DrawKeeps
  <1>7. \A s \in delivered \cup store : s \in Pairs /\ token'[s] = token[s]
    BY <1>6 DEF SessInv, Issued, TypeOK
  <1>8. Continues'
    <2>1. Unused'
      BY <1>2, <1>7 DEF SessInv, Continues, Unused
    <2>2. ASSUME NEW f, Goes(f)
          PROVE  Goes(f)'
      <3>1. CASE f = g
        BY <1>4, <1>5, <1>6, <1>7, <3>1 DEF Goes
      <3>2. CASE f # g
        <4>1. CASE \E s \in delivered \ spent : token[s].login = f
          <5>1. PICK s \in delivered \ spent : token[s].login = f
            BY <4>1
          <5>2. s # o
            BY <1>5, <3>2, <5>1
          <5> QED BY <1>2, <1>7, <5>1, <5>2 DEF Goes, G
        <4>2. CASE \E s \in Requests : /\ req[s].op = "refresh"
                                       /\ token[req[s].old].login = f
                                       /\ req[s].pc \in {"store", "update", "commit"}
          <5>1. PICK s \in Requests : /\ req[s].op = "refresh"
                                      /\ token[req[s].old].login = f
                                      /\ req[s].pc \in {"store", "update", "commit"}
            BY <4>2
          <5>2. s # r /\ token'[req[s].old] = token[req[s].old]
            BY <1>2, <1>3, <1>7, <5>1
          <5> QED BY <1>6, <5>1, <5>2 DEF Goes
        <4> QED BY <2>2, <4>1, <4>2 DEF Goes
      <3> QED BY <3>1, <3>2
    <2> QED BY <1>2, <1>7, <2>1, <2>2 DEF SessInv, Continues
  <1>9. OneClaim'
    <2> SUFFICES ASSUME NEW f \in Pairs \ raced
                 PROVE  Single(f)' /\ \A s \in Requests : Claims(req[s], f)' => Sole(s, f)'
      BY <1>2 DEF OneClaim
    <2>1. Live(f)' = Live(f) \ {o}
      BY <1>2, <1>7 DEF Live, G
    <2>2. /\ Single(f)
          /\ \A s \in Requests : Claims(req[s], f) => Sole(s, f)
      BY DEF SessInv, OneClaim
    <2>3. (Claims(req[r], f)' <=> f = g) /\ (Claims(req[r], f) <=> f = g)
      BY <1>2, <1>4, <1>5, <1>6, <1>7 DEF Claims
    <2>4. ASSUME NEW s \in Requests, s # r
          PROVE  Claims(req[s], f)' <=> Claims(req[s], f)
      <3>1. CASE req[s].op = "refresh"
        BY <1>3, <1>6, <1>7, <2>4, <3>1 DEF Claims
      <3>2. CASE req[s].op = "login" /\ req[s].pc = "store"
        <4>1. req[s].pair # None
          BY <3>2 DEF SessInv, Shaped, Shape, Carries
        <4>2. req[s].pair \in Pairs /\ Drawn(req[s].pair)
          BY <4>1 DEF SessInv, Issued, Carried, TypeOK, Request
        <4>3. token'[req[s].pair] = token[req[s].pair]
          BY <1>6, <4>2
        <4> QED BY <1>6, <2>4, <3>2, <4>3 DEF Claims
      <3>3. CASE req[s].op # "refresh" /\ ~(req[s].op = "login" /\ req[s].pc = "store")
        BY <1>6, <2>4, <3>3 DEF Claims
      <3> QED BY <3>1, <3>2, <3>3
    <2>5. f = g => Live(f)' = {}
      BY <1>2, <2>1, <2>2, <2>3 DEF Sole
    <2>6. ASSUME NEW s \in Requests, Claims(req[s], f)'
          PROVE  Sole(s, f)'
      <3>1. Claims(req[s], f) /\ Sole(s, f)
        BY <2>2, <2>3, <2>4, <2>6
      <3>2. \A x \in Requests : Claims(req[x], f)' => x = s
        BY <2>3, <2>4, <3>1 DEF Sole
      <3>3. CASE s = r
        BY <2>3, <2>5, <2>6, <3>2, <3>3 DEF Sole
      <3>4. CASE s # r
        BY <1>6, <2>1, <3>1, <3>2, <3>4 DEF Sole
      <3> QED BY <3>3, <3>4
    <2> QED BY <2>1, <2>2, <2>6 DEF Single
  <1> QED BY <1>6, <1>8, <1>9 DEF SessInv

LEMMA StoreRefreshKeeps ==
    ASSUME SessInv, NEW r \in Requests, StoreRefresh(r)
    PROVE  SessInv'
  <1> DEFINE q == req[r]
             p == req[r].pair
             n == [q EXCEPT !.pc = IF q.op = "login" THEN "commit" ELSE "update"]
  <1>1. req' = [req EXCEPT ![r] = n] /\ store' = store \cup {p}
    BY DEF StoreRefresh, Stored, SessInv, TypeOK, Request
  <1>2. UNCHANGED <<account, token, revoked, delivered, spent, raced, cut>>
    BY DEF StoreRefresh, histories
  <1>3. q \in Request /\ Shape(q) /\ q.pc = "store"
    BY DEF StoreRefresh, SessInv, TypeOK, Shaped
  <1>4. q.op \in {"login", "refresh"} /\ p # None
    BY <1>3 DEF Shape, Steps, Carries, Request
  <1>5. /\ n \in Request /\ n.op = q.op /\ n.user = q.user /\ n.old = q.old /\ n.pair = p
        /\ n.locks = q.locks /\ n.pc = IF q.op = "login" THEN "commit" ELSE "update"
    BY <1>3 DEF Request
  <1>6. Shape(n)
    <2>1. q.op = "refresh" => ~q.locks
      BY <1>3 DEF Shape
    <2> QED BY <1>3, <1>4, <1>5, <2>1 DEF Shape, Steps, Carries, Loaded
  <1> HIDE DEF n
  <1>7. /\ req'[r] = n
        /\ \A s \in Requests : s # r => req'[s] = req[s]
        /\ req' \in [Requests -> Request]
    BY <1>1, <1>5 DEF SessInv, TypeOK
  <1>8. /\ p \in Pairs /\ Drawn(p) /\ p \notin delivered /\ p \notin store
        /\ q.op = "refresh" => token[p].login = token[q.old].login
    BY <1>3, <1>4 DEF SessInv, Issued, Carried, Request
  <1>9. TypeOK'
    BY <1>1, <1>2, <1>7, <1>8 DEF SessInv, TypeOK
  <1>10. Shaped'
    BY <1>6, <1>7 DEF SessInv, Shaped
  <1>11. Locked'
    BY <1>2, <1>5, <1>7 DEF SessInv, Locked, Exists
  <1>12. Issued'
    <2>1. \A s \in Requests : Presents(req[s])'
      BY <1>2, <1>5, <1>7 DEF SessInv, Issued, Presents
    <2>2. \A s, x \in Requests : req'[s].pair # None /\ req'[s].pair = req'[x].pair => s = x
      BY <1>5, <1>7 DEF SessInv, Issued
    <2>3. Carried(req[r])'
      BY <1>1, <1>2, <1>4, <1>5, <1>7, <1>8 DEF Carried, Drawn
    <2>4. \A s \in Requests : s # r => Carried(req[s])'
      BY <1>1, <1>2, <1>4, <1>7 DEF SessInv, Issued, Carried, Drawn
    <2>5. spent' \cap store' = {}
      BY <1>1, <1>2, <1>8 DEF SessInv, Issued
    <2> QED BY <1>1, <1>2, <1>8, <2>1, <2>2, <2>3, <2>4, <2>5 DEF SessInv, Issued, Drawn
  <1>13. Continues'
    <2>1. \A f : Goes(f) => Goes(f)'
      BY <1>2, <1>5, <1>7 DEF Goes
    <2> QED BY <1>1, <1>2, <2>1 DEF SessInv, Continues, Unused
  <1>14. OneClaim'
    <2> SUFFICES ASSUME NEW f \in Pairs \ raced
                 PROVE  Single(f)' /\ \A s \in Requests : Claims(req[s], f)' => Sole(s, f)'
      BY <1>2 DEF OneClaim
    <2>1. /\ Single(f)
          /\ \A s \in Requests : Claims(req[s], f) => Sole(s, f)
      BY DEF SessInv, OneClaim
    <2>2. /\ ~Claims(req[r], f)'
          /\ \A s \in Requests : s # r => (Claims(req[s], f)' <=> Claims(req[s], f))
      BY <1>2, <1>5, <1>7 DEF Claims
    <2>3. CASE token[p].login = f
      <3>1. Claims(req[r], f)
        BY <1>3, <1>4, <1>8, <2>3 DEF Claims
      <3>2. Live(f) = {} /\ \A s \in Requests : Claims(req[s], f) => s = r
        BY <1>3, <2>1, <3>1 DEF Sole
      <3>3. Live(f)' = {p}
        BY <1>1, <1>2, <2>3, <3>2 DEF Live
      <3> QED BY <2>2, <3>2, <3>3 DEF Single
    <2>4. CASE token[p].login # f
      <3>1. Live(f)' = Live(f)
        BY <1>1, <1>2, <2>4 DEF Live
      <3> QED BY <1>7, <2>1, <2>2, <3>1 DEF Single, Sole
    <2> QED BY <2>3, <2>4
  <1> QED BY <1>9, <1>10, <1>11, <1>12, <1>13, <1>14 DEF SessInv

-----------------------------------------------------------------------------
(* A request ends                                                          *)

\* What a commit writes is a row of the operator, or none; only the operations
\* that ask for it change a column.
LEMMA WrittenRow ==
    ASSUME NEW q \in Request, Shape(q), q.locks, q.pc = "commit", NEW a \in Account
    PROVE  /\ Written(q, a) \in Account \cup {None}
           /\ Written(q, a) \in Account =>
                /\ Written(q, a).password # a.password =>
                     q.op = "password" /\ Written(q, a).password = q.password
                /\ Written(q, a).active # a.active =>
                     q.op = "active" /\ Written(q, a).active = q.flag
                /\ Written(q, a).jti \notin {a.jti, None} =>
                     q.pair # None /\ Written(q, a).jti = q.pair
  <1>1. q.op = "password" => q.password \in Passwords
    BY DEF Shape
  <1>2. None \notin Account
    BY SessionAssumption DEF Account
  <1>3. CASE q.op \in {"login", "refresh"}
    <2>1. q.pair # None
      BY <1>3 DEF Shape, Carries
    <2> QED BY <1>3, <2>1 DEF Written, Account, Request
  <1>4. CASE q.op = "logout"
    BY <1>4 DEF Written, Account
  <1>5. CASE q.op = "password"
    BY <1>1, <1>5 DEF Written, Account
  <1>6. CASE q.op = "active"
    BY <1>6 DEF Written, Account, Request
  <1>7. CASE q.op \notin {"login", "refresh", "logout", "password", "active"}
    BY <1>2, <1>7 DEF Written
  <1> QED BY <1>3, <1>4, <1>5, <1>6, <1>7

LEMMA CommitKeeps ==
    ASSUME SessInv, NEW r \in Requests, Commit(r)
    PROVE  SessInv'
  <1> DEFINE q == req[r]
             p == req[r].pair
             D == {p} \ {None}
  <1>1. /\ q.pc = "commit" /\ req' = [req EXCEPT ![r] = Idle] /\ delivered' = delivered \cup D
        /\ account' = IF q.locks THEN [account EXCEPT ![q.user] = Written(q, account[q.user])] ELSE account
        /\ UNCHANGED <<token, store, revoked, spent, raced, cut>>
    BY DEF Commit
  <1>2. /\ req'[r] = Idle
        /\ \A s \in Requests : s # r => req'[s] = req[s]
        /\ req' \in [Requests -> Request]
    BY <1>1, IdleRecord DEF SessInv, TypeOK
  <1>3. q \in Request /\ Shape(q)
    BY DEF SessInv, TypeOK, Shaped
  <1>4. /\ Idle.op = "none" /\ Idle.pc = "idle" /\ Idle.old = None /\ Idle.pair = None
        /\ ~Idle.locks
    BY DEF Idle
  <1>5. /\ D \subseteq Pairs
        /\ p # None => Drawn(p) /\ p \notin delivered /\ p \in store
    BY <1>1, <1>3 DEF SessInv, Issued, Carried, Request
  <1>6. q.locks => /\ q.user \in Operators /\ account[q.user] \in Account
                   /\ Written(q, account[q.user]) \in Account \cup {None}
    <2>1. q.locks => q.user \in Operators /\ account[q.user] # None
      BY <1>3 DEF Shape, SessInv, Locked, Exists
    <2>2. q.locks => account[q.user] \in Account
      BY <2>1 DEF SessInv, TypeOK
    <2> QED BY <1>1, <1>3, <2>1, <2>2, WrittenRow
  <1>7. TypeOK'
    <2>1. account' \in [Operators -> Account \cup {None}]
      BY <1>1, <1>6 DEF SessInv, TypeOK
    <2> QED BY <1>1, <1>2, <1>5, <2>1 DEF SessInv, TypeOK
  <1>8. Shaped'
    BY <1>2, IdleRecord DEF SessInv, Shaped
  <1>9. Locked'
    <2>1. ASSUME NEW s \in Requests, req'[s].locks
          PROVE  account'[req'[s].user] # None
      <3>1. s # r /\ req'[s] = req[s] /\ account[req[s].user] # None
        BY <1>2, <1>4, <2>1 DEF SessInv, Locked, Exists
      <3>2. q.locks => q.user # req[s].user
        BY <2>1, <3>1 DEF SessInv, Locked
      <3>3. account'[req[s].user] = account[req[s].user]
        BY <1>1, <3>2 DEF SessInv, TypeOK
      <3> QED BY <3>1, <3>3
    <2>2. ASSUME NEW s \in Requests, NEW x \in Requests, req'[s].locks, req'[x].locks,
                 req'[x].user = req'[s].user
          PROVE  x = s
      BY <1>2, <1>4, <2>2 DEF SessInv, Locked
    <2> QED BY <2>1, <2>2 DEF Locked, Exists
  <1>10. Issued'
    <2>1. \A s \in Requests : Presents(req[s])'
      BY <1>1, <1>2, <1>4 DEF SessInv, Issued, Presents
    <2>2. \A s \in Requests : s # r /\ req[s].pair # None => req[s].pair # p
      BY DEF SessInv, Issued
    <2>3. \A s \in Requests : Carried(req[s])'
      BY <1>1, <1>2, <1>4, <2>2 DEF SessInv, Issued, Carried, Drawn
    <2>4. \A s, x \in Requests : req'[s].pair # None /\ req'[s].pair = req'[x].pair => s = x
      BY <1>2, <1>4 DEF SessInv, Issued
    <2>5. \A s \in delivered' \cup store' : Drawn(s)'
      BY <1>1, <1>5 DEF SessInv, Issued, Drawn
    <2>6. spent' \subseteq delivered' /\ spent' \cap store' = {}
      BY <1>1 DEF SessInv, Issued
    <2> QED BY <1>1, <2>1, <2>3, <2>4, <2>5, <2>6 DEF SessInv, Issued, Drawn
  <1>11. Continues'
    <2>1. Unused'
      BY <1>1, <1>5 DEF SessInv, Continues, Unused
    <2>2. p # None => p \in delivered' \ spent'
      BY <1>1, <1>5 DEF SessInv, Issued
    <2>3. ASSUME NEW f, Goes(f)
          PROVE  Goes(f)'
      <3>1. CASE \E s \in delivered \ spent : token[s].login = f
        BY <1>1, <3>1 DEF Goes
      <3>2. CASE \E s \in Requests : /\ req[s].op = "refresh"
                                     /\ token[req[s].old].login = f
                                     /\ req[s].pc \in {"store", "update", "commit"}
        <4>1. PICK s \in Requests : /\ req[s].op = "refresh"
                                    /\ token[req[s].old].login = f
                                    /\ req[s].pc \in {"store", "update", "commit"}
          BY <3>2
        <4>2. CASE s = r
          <5>1. p # None
            BY <1>1, <1>3, <4>1, <4>2 DEF Shape, Carries
          <5>2. token[p].login = f
            BY <4>1, <4>2, <5>1 DEF SessInv, Issued, Carried
          <5> QED BY <1>1, <2>2, <5>1, <5>2 DEF Goes
        <4>3. CASE s # r
          BY <1>1, <1>2, <4>1, <4>3 DEF Goes
        <4> QED BY <4>2, <4>3
      <3> QED BY <2>3, <3>1, <3>2 DEF Goes
    <2>4. \A f \in D : token[f].login = f => Goes(f)'
      BY <1>1, <2>2 DEF Goes
    <2> QED BY <1>1, <2>1, <2>3, <2>4 DEF SessInv, Continues
  <1>12. OneClaim'
    <2> SUFFICES ASSUME NEW f \in Pairs \ raced
                 PROVE  Single(f)' /\ \A s \in Requests : Claims(req[s], f)' => Sole(s, f)'
      BY <1>1 DEF OneClaim
    <2>1. Live(f)' = Live(f)
      BY <1>1 DEF Live
    <2>2. /\ Single(f)
          /\ \A s \in Requests : Claims(req[s], f) => Sole(s, f)
      BY DEF SessInv, OneClaim
    <2>3. \A s \in Requests : Claims(req[s], f)' => s # r /\ Claims(req[s], f)
      BY <1>1, <1>2, <1>4 DEF Claims
    <2> QED BY <1>2, <2>1, <2>2, <2>3 DEF Single, Sole
  <1> QED BY <1>7, <1>8, <1>9, <1>10, <1>11, <1>12 DEF SessInv

LEMMA AbortKeeps ==
    ASSUME SessInv, NEW r \in Requests, Abort(r)
    PROVE  SessInv'
  <1> DEFINE q == req[r]
  <1>1. /\ req' = [req EXCEPT ![r] = Idle]
        /\ cut' = IF q.op = "refresh" /\ q.pc \in {"store", "update", "commit"}
                  THEN cut \cup {token[q.old].login} ELSE cut
        /\ UNCHANGED <<account, token, store, revoked, delivered, spent, raced>>
    BY DEF Abort
  <1>2. /\ req'[r] = Idle
        /\ \A s \in Requests : s # r => req'[s] = req[s]
        /\ req' \in [Requests -> Request]
    BY <1>1, IdleRecord DEF SessInv, TypeOK
  <1>3. /\ Idle.op = "none" /\ Idle.pc = "idle" /\ Idle.old = None /\ Idle.pair = None
        /\ ~Idle.locks
    BY DEF Idle
  <1>4. q.op = "refresh" => token[q.old].login \in Pairs
    <2>1. q.op = "refresh" => q.old # None
      BY DEF SessInv, Shaped, Shape
    <2>2. q.op = "refresh" => q.old \in delivered
      BY <2>1 DEF SessInv, Issued, Presents
    <2> QED BY <2>2, DeliveredToken DEF Token
  <1>5. TypeOK'
    BY <1>1, <1>2, <1>4 DEF SessInv, TypeOK
  <1>6. Shaped'
    BY <1>2, IdleRecord DEF SessInv, Shaped
  <1>7. Locked'
    BY <1>1, <1>2, <1>3 DEF SessInv, Locked, Exists
  <1>8. Issued'
    <2>1. \A s \in Requests : Presents(req[s])' /\ Carried(req[s])'
      BY <1>1, <1>2, <1>3 DEF SessInv, Issued, Presents, Carried, Drawn
    <2>2. \A s, x \in Requests : req'[s].pair # None /\ req'[s].pair = req'[x].pair => s = x
      BY <1>2, <1>3 DEF SessInv, Issued
    <2> QED BY <1>1, <2>1, <2>2 DEF SessInv, Issued, Drawn
  <1>9. Continues'
    <2>1. Unused'
      BY <1>1 DEF SessInv, Continues, Unused
    <2>2. ASSUME NEW f, Goes(f), f \notin cut'
          PROVE  Goes(f)'
      BY <1>1, <1>2, <2>2 DEF Goes
    <2>3. cut \subseteq cut'
      BY <1>1
    <2> QED BY <1>1, <2>1, <2>2, <2>3 DEF SessInv, Continues
  <1>10. OneClaim'
    <2> SUFFICES ASSUME NEW f \in Pairs \ raced
                 PROVE  Single(f)' /\ \A s \in Requests : Claims(req[s], f)' => Sole(s, f)'
      BY <1>1 DEF OneClaim
    <2>1. Live(f)' = Live(f)
      BY <1>1 DEF Live
    <2>2. /\ Single(f)
          /\ \A s \in Requests : Claims(req[s], f) => Sole(s, f)
      BY DEF SessInv, OneClaim
    <2>3. \A s \in Requests : Claims(req[s], f)' => s # r /\ Claims(req[s], f)
      BY <1>1, <1>2, <1>3 DEF Claims
    <2> QED BY <1>2, <2>1, <2>2, <2>3 DEF Single, Sole
  <1> QED BY <1>5, <1>6, <1>7, <1>8, <1>9, <1>10 DEF SessInv

-----------------------------------------------------------------------------
(* Time                                                                    *)

LEMMA AgeKeeps ==
    ASSUME SessInv, NEW p \in Pairs, Age(p)
    PROVE  SessInv'
  <1> DEFINE t == [token[p] EXCEPT !.age = @ + 1]
  <1>1. /\ p \in delivered /\ token' = [token EXCEPT ![p] = t]
        /\ store' = IF token[p].age = 1 THEN store \ {p} ELSE store
        /\ UNCHANGED <<account, revoked, req, delivered, spent, raced, cut>>
    BY DEF Age, histories
  <1>2. token[p] \in Token /\ token[p].age \in 0..2 /\ token[p].age < 2
    BY <1>1, DeliveredToken DEF Age, Token
  <1>3. /\ t \in Token /\ t.login = token[p].login /\ t.age = token[p].age + 1
    BY <1>2 DEF Token
  <1>4. t # None
    BY <1>3, SessionAssumption DEF Token
  <1> HIDE DEF t
  <1>5. /\ token' \in [Pairs -> Token \cup {None}] /\ token'[p] = t
        /\ \A s \in Pairs : s # p => token'[s] = token[s]
    BY <1>1, <1>3 DEF SessInv, TypeOK
  <1>6. \A s \in Pairs : (token'[s] # None <=> Drawn(s)) /\ token'[s].login = token[s].login
    BY <1>2, <1>3, <1>4, <1>5, SessionAssumption DEF Drawn, Token
  <1>7. TypeOK'
    BY <1>1, <1>5 DEF SessInv, TypeOK
  <1>8. Shaped' /\ Locked'
    BY <1>1 DEF SessInv, Shaped, Locked, Exists
  <1>9. \A s \in Requests :
          /\ req[s].pair # None => req[s].pair \in Pairs
          /\ req[s].op = "refresh" => req[s].old \in delivered /\ req[s].old \in Pairs
    <2>1. \A s \in Requests : req[s].op = "refresh" => req[s].old # None
      BY DEF SessInv, Shaped, Shape
    <2>2. \A s \in Requests : req[s].op = "refresh" => req[s].old \in delivered
      BY <2>1 DEF SessInv, Issued, Presents
    <2> QED BY <2>2 DEF SessInv, TypeOK, Request
  <1>10. Issued'
    <2>1. \A s \in Requests : Presents(req[s])'
      BY <1>1 DEF SessInv, Issued, Presents
    <2>2. \A s \in Requests : Carried(req[s])'
      BY <1>1, <1>6, <1>9 DEF SessInv, Issued, Carried, Drawn
    <2>3. \A s \in delivered' \cup store' : token'[s] # None
      BY <1>1, <1>6 DEF SessInv, Issued, TypeOK
    <2>4. ASSUME NEW s \in Pairs, token'[s] # None
          PROVE  token'[token'[s].login] # None
      <3>1. token[s] \in Token /\ Drawn(token[s].login)
        BY <1>6, <2>4 DEF SessInv, Issued, TypeOK, Drawn
      <3> QED BY <1>6, <3>1 DEF Token
    <2>5. spent' \cap store' = {} /\ spent' \subseteq delivered'
      BY <1>1 DEF SessInv, Issued
    <2> QED BY <1>1, <2>1, <2>2, <2>3, <2>4, <2>5 DEF SessInv, Issued, Drawn
  <1>11. Continues'
    <2>1. Unused'
      BY <1>1, <1>2, <1>3, <1>5 DEF SessInv, Continues, Unused, TypeOK
    <2>2. \A f : Goes(f) => Goes(f)'
      BY <1>1, <1>6, <1>9 DEF Goes, SessInv, TypeOK
    <2> QED BY <1>1, <1>6, <2>1, <2>2 DEF SessInv, Continues, TypeOK
  <1>12. OneClaim'
    <2> SUFFICES ASSUME NEW f \in Pairs \ raced
                 PROVE  Single(f)' /\ \A s \in Requests : Claims(req[s], f)' => Sole(s, f)'
      BY <1>1 DEF OneClaim
    <2>1. Live(f)' \subseteq Live(f)
      BY <1>1, <1>6 DEF Live, SessInv, TypeOK
    <2>2. /\ Single(f)
          /\ \A s \in Requests : Claims(req[s], f) => Sole(s, f)
      BY DEF SessInv, OneClaim
    <2>3. \A s \in Requests : req[s].op = "login" /\ req[s].pc = "store" => req[s].pair \in Pairs
      BY <1>9 DEF SessInv, Shaped, Shape, Carries
    <2>4. \A s \in Requests : Claims(req[s], f)' <=> Claims(req[s], f)
      BY <1>1, <1>6, <1>9, <2>3 DEF Claims
    <2> QED BY <1>1, <2>1, <2>2, <2>4 DEF Single, Sole
  <1> QED BY <1>7, <1>8, <1>10, <1>11, <1>12 DEF SessInv

\* Nothing in the invariant depends on what is revoked, beyond its type.
LEMMA QuietKeeps ==
    ASSUME SessInv, UNCHANGED <<account, token, store, req, histories>>, revoked' \subseteq Pairs
    PROVE  SessInv'
  <1>1. TypeOK'
    BY DEF SessInv, TypeOK, histories
  <1>2. Shaped' /\ Locked'
    BY DEF SessInv, Shaped, Locked, Exists
  <1>3. Issued'
    BY DEF SessInv, Issued, Presents, Carried, Drawn, histories
  <1>4. Continues'
    BY DEF SessInv, Continues, Unused, Goes, histories
  <1>5. OneClaim'
    BY DEF SessInv, OneClaim, Single, Sole, Claims, Live, histories
  <1> QED BY <1>1, <1>2, <1>3, <1>4, <1>5 DEF SessInv

-----------------------------------------------------------------------------
(* The invariant                                                           *)

LEMMA SessInit == Init => SessInv
  <1> SUFFICES ASSUME Init PROVE SessInv
    OBVIOUS
  <1>1. TypeOK
    <2>1. account \in [Operators -> Account]
      BY DEF Init, Account
    <2> QED BY <2>1, IdleRecord DEF Init, TypeOK
  <1>2. Shaped
    BY IdleRecord DEF Init, Shaped
  <1>3. Locked
    BY DEF Init, Locked, Idle
  <1>4. Issued
    BY DEF Init, Issued, Presents, Carried, Drawn, Idle
  <1>5. Continues
    BY DEF Init, Continues, Unused
  <1>6. OneClaim
    BY DEF Init, OneClaim, Single, Claims, Live, Idle
  <1> QED BY <1>1, <1>2, <1>3, <1>4, <1>5, <1>6 DEF SessInv

LEMMA SessNext == SessInv /\ [Next]_vars => SessInv'
  <1> SUFFICES ASSUME SessInv, [Next]_vars PROVE SessInv'
    OBVIOUS
  <1>1. ASSUME NEW r \in Requests, Begin(r)
        PROVE  SessInv'
    BY <1>1, LoginLoadKeeps, DropLoadKeeps, ActiveLoadKeeps, RefreshLookupKeeps, AuthenticateKeeps
    DEF Begin
  <1>2. ASSUME NEW r \in Requests, Step(r)
        PROVE  SessInv'
    BY <1>2, LoadOperatorKeeps, RevokeRefreshKeeps, StoreRefreshKeeps, RevokeAccessKeeps,
       UpdateForLoginKeeps, UpdateRowKeeps, CommitKeeps DEF Step
  <1>3. ASSUME NEW p \in Pairs, RevokedExpire(p)
        PROVE  SessInv'
    BY <1>3, QuietKeeps DEF RevokedExpire, SessInv, TypeOK
  <1>4. CASE UNCHANGED vars
    BY <1>4, QuietKeeps DEF vars, histories, SessInv, TypeOK
  <1> QED BY <1>1, <1>2, <1>3, <1>4, AbortKeeps, AgeKeeps DEF Next

LEMMA SessAlways == Spec => []SessInv
  BY SessInit, SessNext, PTL DEF Spec

-----------------------------------------------------------------------------
(* The theorems                                                            *)

\* Rows, tokens, ids in Redis and requests keep their types.
THEOREM SessTypeCorrect == Spec => []TypeOK
  BY SessAlways, PTL DEF SessInv

\* One login has at most one refresh token that works, unless two rotations used
\* the same one at once: refresh_token deletes before it stores.
THEOREM SessOneLivePerLogin == Spec => []OneLivePerLogin
  <1>1. ASSUME SessInv, NEW f \in Pairs \ raced
        PROVE  Cardinality(Live(f)) <= 1
    <2>1. CASE Live(f) = {}
      BY <2>1, FS_EmptySet
    <2>2. CASE Live(f) # {}
      <3>1. PICK p : p \in Live(f)
        BY <2>2
      <3>2. Live(f) = {p}
        BY <1>1, <3>1 DEF SessInv, OneClaim, Single
      <3> QED BY <3>2, FS_Singleton
    <2> QED BY <2>1, <2>2
  <1>2. SessInv => OneLivePerLogin
    BY <1>1 DEF OneLivePerLogin
  <1> QED BY <1>2, SessAlways, PTL

\* A login goes on with a token the client has not used, or with the answer of a
\* rotation; only a rotation that failed after its DEL ends it.
THEOREM SessContinues == Spec => []SessionContinues
  <1>1. ASSUME SessInv, NEW f \in delivered \ cut, token[f].login = f
        PROVE  \/ \E p \in delivered \ spent :
                    token[p].login = f /\ (p \in store \/ token[p].age = 2)
               \/ \E r \in Requests : /\ req[r].op = "refresh"
                                      /\ token[req[r].old].login = f
                                      /\ req[r].pc \in {"store", "update", "commit"}
    <2>1. Goes(f)
      BY <1>1 DEF SessInv, Continues
    <2>2. ASSUME NEW p \in delivered \ spent
          PROVE  p \in store \/ token[p].age = 2
      <3>1. token[p].age \in 0..2
        BY <1>1, DeliveredToken DEF Token
      <3> QED BY <1>1, <3>1 DEF SessInv, Continues, Unused
    <2> QED BY <2>1, <2>2 DEF Goes
  <1>2. SessInv => SessionContinues
    BY <1>1 DEF SessionContinues
  <1> QED BY <1>2, SessAlways, PTL

\* A revoked refresh token never works again, a blacklisted access token not
\* before it has expired (Draw gives new ids, and Redis keeps an id long enough).
THEOREM SessNothingRevived == Spec => NothingRevived
  <1>1. ASSUME SessInv, SessInv', [Next]_vars
        PROVE  [\A p \in Pairs : /\ p \in spent => p \notin store'
                                 /\ p \in revoked /\ p \notin revoked' => token[p].age > 0]_vars
    <2> SUFFICES ASSUME NEW p \in Pairs, Next
                 PROVE  /\ p \in spent => p \notin store'
                        /\ p \in revoked /\ p \notin revoked' => token[p].age > 0
      BY <1>1
    <2>1. spent \subseteq spent'
      BY DEF Next, Begin, Step, LoginLoad, DropLoad, ActiveLoad, RefreshLookup, Authenticate, Start,
             LoadOperator, RevokeRefresh, StoreRefresh, RevokeAccess, UpdateForLogin, UpdateRow,
             Commit, Abort, Age, RevokedExpire, histories
    <2>2. p \in spent => p \notin store'
      BY <1>1, <2>1 DEF SessInv, Issued
    <2>3. ASSUME p \in revoked, p \notin revoked'
          PROVE  token[p].age > 0
      <3>1. ASSUME NEW r \in Requests, Begin(r) \/ Step(r) \/ Abort(r)
            PROVE  revoked \subseteq revoked'
        BY <3>1 DEF Begin, Step, LoginLoad, DropLoad, ActiveLoad, RefreshLookup, Authenticate, Start,
               LoadOperator, RevokeRefresh, StoreRefresh, RevokeAccess, UpdateForLogin, UpdateRow,
               Commit, Abort
      <3>2. \A s \in Pairs : Age(s) => revoked' = revoked
        BY DEF Age
      <3>3. \A s \in Pairs : RevokedExpire(s) => revoked' = revoked \ {s} /\ token[s].age > 0
        BY DEF RevokedExpire
      <3> QED BY <2>3, <3>1, <3>2, <3>3 DEF Next
    <2> QED BY <2>2, <2>3
  <1> QED BY <1>1, SessNext, SessAlways, PTL DEF Spec, NothingRevived

\* Overlapping requests change only the columns they were asked to change, and
\* current_jti names a token only from its delivery on.
THEOREM SessOnlyAskedChanges == Spec => OnlyAskedChanges
  <1> DEFINE Asked(u) ==
        /\ account'[u].password # account[u].password =>
             \E r \in Requests : /\ req[r].op = "password" /\ req[r].user = u
                                 /\ req[r].password = account'[u].password
                                 /\ req'[r] = Idle
        /\ account'[u].active # account[u].active =>
             \E r \in Requests : /\ req[r].op = "active" /\ req[r].user = u
                                 /\ req[r].flag = account'[u].active
                                 /\ req'[r] = Idle
        /\ account'[u].jti \notin {account[u].jti, None} =>
             account'[u].jti \in delivered' \ delivered
  <1>1. ASSUME SessInv, Next, NEW u \in Operators, Exists(u), account'[u] # None
        PROVE  Asked(u)
    <2>1. CASE account'[u] = account[u]
      BY <2>1
    <2>2. CASE account'[u] # account[u]
      <3>1. PICK r \in Requests : Commit(r)
        BY <1>1, <2>2 DEF Next, Begin, Step, LoginLoad, DropLoad, ActiveLoad, RefreshLookup,
           Authenticate, Start, LoadOperator, RevokeRefresh, StoreRefresh, RevokeAccess,
           UpdateForLogin, UpdateRow, Abort, Age, RevokedExpire
      <3>2. /\ req[r].pc = "commit" /\ delivered' = delivered \cup ({req[r].pair} \ {None})
            /\ req' = [req EXCEPT ![r] = Idle]
            /\ account' = IF req[r].locks
                          THEN [account EXCEPT ![req[r].user] = Written(req[r], account[req[r].user])]
                          ELSE account
        BY <3>1 DEF Commit
      <3>3. account[u] \in Account /\ account \in [Operators -> Account \cup {None}]
            /\ req[r] \in Request /\ Shape(req[r]) /\ req'[r] = Idle
        BY <1>1, <3>2 DEF SessInv, TypeOK, Exists, Shaped
      <3>4. req[r].locks /\ req[r].user = u /\ account'[u] = Written(req[r], account[u])
        BY <2>2, <3>2, <3>3
      <3>5. /\ account'[u].password # account[u].password =>
                 req[r].op = "password" /\ account'[u].password = req[r].password
            /\ account'[u].active # account[u].active =>
                 req[r].op = "active" /\ account'[u].active = req[r].flag
            /\ account'[u].jti \notin {account[u].jti, None} =>
                 req[r].pair # None /\ account'[u].jti = req[r].pair
        BY <1>1, <3>2, <3>3, <3>4, WrittenRow
      <3>6. req[r].pair # None => req[r].pair \in delivered' \ delivered
        BY <1>1, <3>2 DEF SessInv, Issued, Carried
      <3> QED BY <3>3, <3>4, <3>5, <3>6
    <2> QED BY <2>1, <2>2
  <1>2. SessInv /\ [Next]_vars =>
          [\A u \in Operators : Exists(u) /\ account'[u] # None => Asked(u)]_vars
    BY <1>1
  <1> QED BY <1>2, SessAlways, PTL DEF Spec, OnlyAskedChanges

-----------------------------------------------------------------------------
(***************************************************************************)
(* Whose tokens a request names.  A request works on the row of the        *)
(* operator its token was issued to, and that row names no one else's.     *)
(***************************************************************************)

\* The access token a row of u names was delivered, to u.
Names(u, row) == row.jti # None => row.jti \in delivered /\ token[row.jti].owner = u

OwnTokens(q) ==
    /\ q.pair # None => token[q.pair].owner = q.user
    /\ q.old # None => token[q.old].owner = q.user
    /\ Loaded(q) => Names(q.user, q.row)

NamesInv ==
    /\ \A u \in Operators : Exists(u) => Names(u, account[u])
    /\ \A r \in Requests : OwnTokens(req[r])

\* A pair keeps its owner and login for ever.
LEMMA OwnersStay ==
    ASSUME SessInv, [Next]_vars, NEW p \in Pairs, Drawn(p)
    PROVE  Drawn(p)' /\ token'[p].owner = token[p].owner
  <1>1. token \in [Pairs -> Token \cup {None}] /\ None \notin Token
    BY SessionAssumption DEF SessInv, TypeOK, Token
  <1>2. CASE \E s \in Pairs : Age(s)
    <2>1. PICK s \in Pairs : Age(s)
      BY <1>2
    <2>2. token[s] \in Token /\ token[s].age < 2 /\ token' = [token EXCEPT ![s].age = @ + 1]
      BY <2>1, <1>1 DEF Age, SessInv, Issued, Drawn
    <2>3. CASE p = s
      BY <1>1, <2>2, <2>3 DEF Drawn, Token
    <2>4. CASE p # s
      BY <1>1, <2>2, <2>4 DEF Drawn
    <2> QED BY <2>3, <2>4
  <1>3. ASSUME NEW r \in Requests, NEW u, NEW l, Draw(r, u, l)
        PROVE  token'[p] = token[p]
    BY <1>1, <1>3 DEF Draw, Drawn
  <1>4. ASSUME NEW r \in Requests, RevokeRefresh(r) \/ UpdateForLogin(r)
        PROVE  token'[p] = token[p]
    BY <1>3, <1>4 DEF RevokeRefresh, UpdateForLogin
  <1>5. CASE UNCHANGED token
    BY <1>5 DEF Drawn
  <1> QED BY <1>2, <1>4, <1>5 DEF Next, Begin, Step, LoginLoad, DropLoad, ActiveLoad, RefreshLookup,
        Authenticate, Start, LoadOperator, StoreRefresh, RevokeAccess, UpdateRow, Commit, Abort,
        RevokedExpire, vars, Drawn

LEMMA DeliveredStays ==
    ASSUME [Next]_vars
    PROVE  delivered \subseteq delivered'
  BY DEF Next, Begin, Step, LoginLoad, DropLoad, ActiveLoad, RefreshLookup, Authenticate, Start,
     LoadOperator, RevokeRefresh, StoreRefresh, RevokeAccess, UpdateForLogin, UpdateRow, Commit,
     Abort, Age, RevokedExpire, vars, histories

\* What a row names it goes on naming.
LEMMA NamesStay ==
    ASSUME SessInv, [Next]_vars, NEW u, NEW row, row.jti \in Pairs \cup {None}, Names(u, row)
    PROVE  Names(u, row)'
  <1>1. row.jti # None => Drawn(row.jti)
    BY DEF Names, SessInv, Issued
  <1> QED BY <1>1, OwnersStay, DeliveredStays DEF Names

\* What a request carries stays its operator's own.
LEMMA OwnStay ==
    ASSUME SessInv, [Next]_vars, NEW r \in Requests, NEW q, q = req[r], OwnTokens(q)
    PROVE  OwnTokens(q)'
  <1>1. /\ q.pair # None => q.pair \in Pairs /\ Drawn(q.pair)
        /\ q.old # None => q.old \in Pairs /\ Drawn(q.old)
    BY DEF SessInv, TypeOK, Issued, Carried, Presents, Request
  <1>2. Loaded(q) => q.row.jti \in Pairs \cup {None} /\ Names(q.user, q.row)
    BY DEF SessInv, Shaped, Shape, Account, OwnTokens
  <1>3. Loaded(q) => Names(q.user, q.row)'
    BY <1>2, NamesStay
  <1> QED BY <1>1, <1>3, OwnersStay DEF OwnTokens, Loaded

\* So do the rows that stay.
LEMMA RowsName ==
    ASSUME SessInv, NamesInv, [Next]_vars, UNCHANGED account, NEW u \in Operators, account[u] # None
    PROVE  Names(u, account[u])'
  <1>1. PICK row : row = account[u]
    OBVIOUS
  <1>2. row.jti \in Pairs \cup {None} /\ Names(u, row)
    BY <1>1 DEF SessInv, TypeOK, Account, NamesInv, Exists
  <1>3. Names(u, row)'
    BY <1>2, NamesStay
  <1> QED BY <1>1, <1>3 DEF Names

\* A request becomes n.
LEMMA MoveNames ==
    ASSUME SessInv, NamesInv, [Next]_vars, UNCHANGED account,
           NEW r \in Requests, NEW n, n = req'[r], OwnTokens(n)',
           \A s \in Requests : s # r => req'[s] = req[s]
    PROVE  NamesInv'
  <1>1. /\ req'[r] = n
        /\ \A s \in Requests : s # r => req'[s] = req[s]
    OBVIOUS
  <1>2. ASSUME NEW s \in Requests
        PROVE  OwnTokens(req[s])'
    <2>1. PICK q : q = req'[s]
      OBVIOUS
    <2>2. CASE s = r
      <3>1. OwnTokens(q)'
        BY <1>1, <2>1, <2>2
      <3> QED BY <2>1, <3>1 DEF OwnTokens, Loaded, Names
    <2>3. CASE s # r
      <3>1. q = req[s] /\ OwnTokens(q)
        BY <1>1, <2>1, <2>3 DEF NamesInv
      <3>2. OwnTokens(q)'
        BY <3>1, OwnStay
      <3> QED BY <2>1, <3>2 DEF OwnTokens, Loaded, Names
    <2> QED BY <2>2, <2>3
  <1> QED BY <1>2, RowsName DEF NamesInv, Exists

LEMMA BeginNames ==
    ASSUME SessInv, NamesInv, [Next]_vars, NEW r \in Requests, Begin(r)
    PROVE  NamesInv'
  <1>1. PICK n : n = req'[r]
    OBVIOUS
  <1>2. /\ \A s \in Requests : s # r => req'[s] = req[s]
        /\ UNCHANGED <<account, token, delivered>>
    BY DEF Begin, LoginLoad, DropLoad, ActiveLoad, RefreshLookup, Authenticate, Start, SessInv, TypeOK
  <1>3. req \in [Requests -> Request]
    BY DEF SessInv, TypeOK
  <1>4. ASSUME NEW u \in Operators, LoginLoad(r, u) \/ DropLoad(r, u)
        PROVE  OwnTokens(n)'
    <2>1. \E op \in {"login", "fail", "drop"} :
            req' = [req EXCEPT ![r] = [Idle EXCEPT !.op = op, !.pc = "update", !.user = u]]
      BY <1>4 DEF LoginLoad, DropLoad, Start
    <2>2. n.pair = None /\ n.old = None /\ ~Loaded(n)
      BY <1>1, <1>3, <2>1 DEF Idle, Loaded
    <2> QED BY <2>2 DEF OwnTokens, Loaded
  <1>5. ASSUME NEW u \in Operators, NEW b \in BOOLEAN, ActiveLoad(r, u, b)
        PROVE  OwnTokens(n)'
    <2>1. n.pair = None /\ n.old = None /\ n.user = u /\ Exists(u) /\ n.row = account[u]
      BY <1>1, <1>3, <1>5 DEF ActiveLoad, Start, Idle
    <2>2. Names(n.user, n.row)
      BY <2>1 DEF NamesInv
    <2> QED BY <1>2, <2>1, <2>2 DEF OwnTokens, Names
  <1>6. ASSUME NEW p \in Pairs, RefreshLookup(r, p) \/ Authenticate(r, p)
        PROVE  OwnTokens(n)'
    <2>1. \E op \in {"refresh", "logout", "password"} :
            req' = [req EXCEPT ![r] = [Idle EXCEPT !.op = op, !.pc = "load",
                                                   !.user = token[p].owner, !.old = p]]
      BY <1>6 DEF RefreshLookup, Authenticate, Start
    <2>2. n.pair = None /\ n.old = p /\ n.user = token[p].owner /\ ~Loaded(n)
      BY <1>1, <1>3, <2>1 DEF Idle, Loaded
    <2> QED BY <1>2, <2>2 DEF OwnTokens, Loaded
  <1>7. OwnTokens(n)'
    BY <1>4, <1>5, <1>6 DEF Begin
  <1> QED BY <1>1, <1>2, <1>7, MoveNames

LEMMA LoadNames ==
    ASSUME SessInv, NamesInv, [Next]_vars, NEW r \in Requests, LoadOperator(r)
    PROVE  NamesInv'
  <1>1. PICK q, n : q = req[r] /\ n = req'[r]
    OBVIOUS
  <1>2. q \in Request /\ Shape(q) /\ OwnTokens(q)
    BY <1>1 DEF SessInv, TypeOK, Shaped, NamesInv
  <1>3. /\ \A s \in Requests : s # r => req'[s] = req[s]
        /\ UNCHANGED <<account, token, delivered>>
        /\ q.pc = "load" /\ Exists(q.user)
        /\ n.op = q.op /\ n.user = q.user /\ n.pair = q.pair /\ n.old = q.old
        /\ n.row = IF q.op = "refresh" THEN None ELSE account[q.user]
    BY <1>1, <1>2 DEF LoadOperator, histories, SessInv, TypeOK, Request
  <1>4. q.op # "none" /\ q.op # "active" /\ q.user \in Operators
    BY <1>2, <1>3 DEF Shape, Steps, Request
  <1>5. Loaded(n) => Names(n.user, n.row)
    BY <1>3, <1>4 DEF Loaded, NamesInv
  <1>6. OwnTokens(n)'
    BY <1>2, <1>3, <1>5 DEF OwnTokens, Loaded, Names
  <1> QED BY <1>1, <1>3, <1>6, MoveNames

\* A pair is drawn for the request's operator.
LEMMA DrawNames ==
    ASSUME SessInv, NamesInv, [Next]_vars, NEW r \in Requests,
           RevokeRefresh(r) \/ UpdateForLogin(r)
    PROVE  NamesInv'
  <1>1. PICK q, n : q = req[r] /\ n = req'[r]
    OBVIOUS
  <1>2. q \in Request /\ Shape(q) /\ OwnTokens(q)
    BY <1>1 DEF SessInv, TypeOK, Shaped, NamesInv
  <1>3. q.op \in {"refresh", "login"} /\ UNCHANGED <<account, delivered>> /\ \E l : Draw(r, q.user, l)
    BY <1>1 DEF RevokeRefresh, UpdateForLogin, histories
  <1>4. PICK l : Draw(r, q.user, l)
    BY <1>3
  <1>5. /\ \A s \in Requests : s # r => req'[s] = req[s]
        /\ n.op = q.op /\ n.user = q.user /\ n.old = q.old
        /\ token'[n.pair].owner = q.user
    BY <1>1, <1>2, <1>4 DEF Draw, SessInv, TypeOK, Request
  <1>6. OwnTokens(q)'
    BY <1>1, <1>2, OwnStay
  <1>7. OwnTokens(n)'
    BY <1>3, <1>5, <1>6 DEF OwnTokens, Loaded
  <1> QED BY <1>1, <1>3, <1>5, <1>7, MoveNames

\* The other steps change neither the row nor the pairs of the request.
LEMMA GoNames ==
    ASSUME SessInv, NamesInv, [Next]_vars, NEW r \in Requests,
           StoreRefresh(r) \/ RevokeAccess(r) \/ UpdateRow(r)
    PROVE  NamesInv'
  <1>1. PICK q, n : q = req[r] /\ n = req'[r]
    OBVIOUS
  <1>2. q \in Request /\ Shape(q) /\ OwnTokens(q)
    BY <1>1 DEF SessInv, TypeOK, Shaped, NamesInv
  <1>3. q.pc # "load" /\ UNCHANGED <<account, delivered, token>>
    BY <1>1 DEF StoreRefresh, RevokeAccess, UpdateRow, histories
  <1>4. /\ \A s \in Requests : s # r => req'[s] = req[s]
        /\ n.op = q.op /\ n.user = q.user /\ n.pair = q.pair /\ n.old = q.old /\ n.row = q.row
    <2>1. CASE StoreRefresh(r)
      BY <1>1, <1>2, <2>1 DEF StoreRefresh, SessInv, TypeOK, Request
    <2>2. CASE RevokeAccess(r)
      BY <1>1, <1>2, <2>2 DEF RevokeAccess, SessInv, TypeOK, Request
    <2>3. CASE UpdateRow(r)
      <3>1. PICK w : req' = [req EXCEPT ![r].pc = AfterUpdate(req[r].op), ![r].password = w,
                                        ![r].locks = Writes(req[r]) /\ Exists(req[r].user)]
        BY <2>3 DEF UpdateRow
      <3> DEFINE b == Writes(req[r]) /\ Exists(req[r].user)
      <3>2. req' = [req EXCEPT ![r] = [req[r] EXCEPT !.pc = AfterUpdate(req[r].op), !.password = w,
                                                     !.locks = b]]
        BY <3>1 DEF SessInv, TypeOK, Request
      <3> HIDE DEF b
      <3> QED BY <1>1, <1>2, <3>2 DEF SessInv, TypeOK, Request
    <2> QED BY <2>1, <2>2, <2>3
  <1>5. OwnTokens(q)'
    BY <1>1, <1>2, OwnStay
  <1>6. OwnTokens(n)'
    BY <1>3, <1>4, <1>5 DEF OwnTokens, Loaded, Names
  <1> QED BY <1>1, <1>3, <1>4, <1>6, MoveNames

\* The commit of a request writes a token only of the operator whose row it is.
LEMMA CommitNames ==
    ASSUME SessInv, NamesInv, [Next]_vars, NEW r \in Requests, Commit(r)
    PROVE  NamesInv'
  <1>1. PICK q : q = req[r]
    OBVIOUS
  <1>2. q \in Request /\ Shape(q) /\ OwnTokens(q) /\ q.pc = "commit"
    BY <1>1 DEF SessInv, TypeOK, Shaped, NamesInv, Commit
  <1>3. /\ req'[r] = Idle
        /\ \A s \in Requests : s # r => req'[s] = req[s]
        /\ token' = token /\ delivered' = delivered \cup ({q.pair} \ {None})
        /\ account' = IF q.locks THEN [account EXCEPT ![q.user] = Written(q, account[q.user])]
                      ELSE account
    BY <1>1 DEF Commit, SessInv, TypeOK
  <1>4. ASSUME NEW u \in Operators, account'[u] # None
        PROVE  Names(u, account[u])'
    <2>1. CASE account'[u] = account[u]
      BY <1>3, <1>4, <2>1 DEF NamesInv, Exists, Names
    <2>2. CASE account'[u] # account[u]
      <3>1. q.locks /\ q.user = u /\ account'[u] = Written(q, account[u])
        BY <1>3, <2>2 DEF SessInv, TypeOK
      <3>2. Exists(u) /\ account[u] \in Account
        BY <1>1, <3>1 DEF SessInv, Locked, TypeOK, Exists
      <3>3. account'[u].jti \notin {account[u].jti, None} => q.pair # None /\ account'[u].jti = q.pair
        BY <1>2, <1>4, <3>1, <3>2, WrittenRow
      <3>4. Names(u, account[u])
        BY <3>2 DEF NamesInv
      <3> QED BY <1>2, <1>3, <3>1, <3>3, <3>4 DEF Names, OwnTokens
    <2> QED BY <2>1, <2>2
  <1>5. ASSUME NEW s \in Requests
        PROVE  OwnTokens(req[s])'
    <2>1. CASE s = r
      BY <1>3, <2>1 DEF OwnTokens, Loaded, Idle
    <2>2. CASE s # r
      BY <1>3, <2>2 DEF NamesInv, OwnTokens, Loaded, Names
    <2> QED BY <2>1, <2>2
  <1> QED BY <1>4, <1>5 DEF NamesInv, Exists

LEMMA NamesNext == SessInv /\ NamesInv /\ [Next]_vars => NamesInv'
  <1> SUFFICES ASSUME SessInv, NamesInv, [Next]_vars PROVE NamesInv'
    OBVIOUS
  <1>1. ASSUME NEW r \in Requests, Abort(r)
        PROVE  NamesInv'
    <2>1. /\ req'[r] = Idle /\ account' = account
          /\ \A s \in Requests : s # r => req'[s] = req[s]
      BY <1>1 DEF Abort, SessInv, TypeOK
    <2>2. PICK n : n = Idle
      OBVIOUS
    <2>3. OwnTokens(n)'
      BY <2>2 DEF OwnTokens, Loaded, Idle
    <2> QED BY <2>1, <2>2, <2>3, MoveNames
  <1>2. CASE UNCHANGED <<account, req>>
    <2>1. ASSUME NEW s \in Requests
          PROVE  OwnTokens(req[s])'
      <3>1. PICK q : q = req[s]
        OBVIOUS
      <3>2. OwnTokens(q)'
        BY <3>1, OwnStay DEF NamesInv
      <3> QED BY <1>2, <3>1, <3>2 DEF OwnTokens, Loaded, Names
    <2> QED BY <1>2, <2>1, RowsName DEF NamesInv, Exists
  <1> QED BY <1>1, <1>2, BeginNames, LoadNames, DrawNames, GoNames, CommitNames
          DEF Next, Step, Age, RevokedExpire, vars, histories

LEMMA NamesAlways == Spec => []NamesInv
  <1>1. Init => NamesInv
    <2> SUFFICES ASSUME Init PROVE NamesInv
      OBVIOUS
    <2>1. \A u \in Operators : account[u].jti = None
      BY DEF Init
    <2>2. \A r \in Requests : req[r] = Idle
      BY DEF Init
    <2>3. \A r \in Requests : OwnTokens(req[r])
      BY <2>2 DEF OwnTokens, Loaded, Idle
    <2> QED BY <2>1, <2>3 DEF NamesInv, Names
  <1> QED BY <1>1, NamesNext, SessAlways, PTL DEF Spec

RowsNameOwn == \A u \in Operators : Exists(u) => Names(u, account[u])

\* current_jti: a row names an access token its operator was given, or none, though a
\* commit writes the id its request drew long before and others wrote meanwhile.
THEOREM SessRowsNameOwn == Spec => []RowsNameOwn
  <1>1. NamesInv => RowsNameOwn
    BY DEF NamesInv, RowsNameOwn
  <1> QED BY <1>1, NamesAlways, PTL

RevokedByOwner ==
    [][\A p \in revoked' \ revoked :
         \E r \in Requests : /\ req[r].op \in {"logout", "password"}
                             /\ req[r].user = token[p].owner
                             /\ req'[r] # req[r]]_vars

\* logout and change_password: a request blacklists a token of the
\* operator who asked for it and never another's, however stale the row it loaded.
THEOREM SessRevokedByOwner == Spec => RevokedByOwner
  <1>1. ASSUME SessInv, NamesInv, [Next]_vars, NEW p \in revoked' \ revoked
        PROVE  \E r \in Requests : /\ req[r].op \in {"logout", "password"}
                                   /\ req[r].user = token[p].owner
                                   /\ req'[r] # req[r]
    <2>1. PICK r \in Requests : RevokeAccess(r)
      BY <1>1 DEF Next, Begin, Step, LoginLoad, DropLoad, ActiveLoad, RefreshLookup, Authenticate,
         Start, LoadOperator, RevokeRefresh, StoreRefresh, UpdateForLogin, UpdateRow, Commit, Abort,
         Age, RevokedExpire, vars
    <2>2. /\ req[r].op \in {"logout", "password"} /\ req[r].pc = "revoke"
          /\ p = req[r].row.jti /\ p # None
      BY <1>1, <2>1 DEF RevokeAccess
    <2>3. Loaded(req[r]) /\ Names(req[r].user, req[r].row)
      BY <1>1, <2>2 DEF Loaded, NamesInv, OwnTokens
    <2>4. req'[r].pc # "revoke"
      BY <1>1, <2>1 DEF RevokeAccess, SessInv, TypeOK, Request
    <2> QED BY <2>2, <2>3, <2>4 DEF Names
  <1>2. SessInv /\ NamesInv /\ [Next]_vars =>
          [\A p \in revoked' \ revoked :
             \E r \in Requests : /\ req[r].op \in {"logout", "password"}
                                 /\ req[r].user = token[p].owner
                                 /\ req'[r] # req[r]]_vars
    BY <1>1
  <1> QED BY <1>2, SessAlways, NamesAlways, PTL DEF Spec, RevokedByOwner

\* The row of an operator who was deleted is not written again.
LEMMA OperatorsStayGone ==
    ASSUME SessInv, [Next]_vars, NEW u \in Operators, ~Exists(u)
    PROVE  ~Exists(u)'
  <1>1. ASSUME NEW r \in Requests, Commit(r)
        PROVE  account'[u] = account[u]
    <2>1. req[r].locks => Exists(req[r].user)
      BY DEF SessInv, Locked
    <2> QED BY <1>1, <2>1 DEF Commit, SessInv, TypeOK
  <1> QED BY <1>1 DEF Next, Begin, Step, LoginLoad, DropLoad, ActiveLoad, RefreshLookup, Authenticate,
         Start, LoadOperator, RevokeRefresh, StoreRefresh, RevokeAccess, UpdateForLogin, UpdateRow,
         Abort, Age, RevokedExpire, vars, Exists

StaysDeleted(u) == [](~Exists(u) => []~Exists(u))

\* delete_user is final: no login, rotation, logout or change that had loaded the
\* operator writes the row back.
THEOREM SessDeletionIsFinal == Spec => \A u \in Operators : StaysDeleted(u)
  <1> SUFFICES ASSUME NEW u \in Operators PROVE Spec => StaysDeleted(u)
    OBVIOUS
  <1>1. SessInv /\ ~Exists(u) /\ [Next]_vars => ~Exists(u)'
    BY OperatorsStayGone
  <1> QED BY <1>1, SessAlways, PTL DEF Spec, StaysDeleted

-----------------------------------------------------------------------------
(* Every request ends                                                      *)

\* A change of password has another one to change to.
Changes(q) == q.op = "password" => Passwords \ {q.row.password} # {}

\* What can only fail: an operator who is gone or inactive, a wrong password at login,
\* the UPDATE of a row that is gone.
MustFail(r) ==
    LET q == req[r] IN
    \/ q.pc = "load" /\ ~(Exists(q.user) /\ account[q.user].active)
    \/ q.pc = "refused"
    \/ q.pc = "update" /\ q.op \in {"password", "active"} /\ Writes(q) /\ ~Exists(q.user)
    \/ q.pc = "update" /\ ~Changes(q)

Fails(r) == MustFail(r) /\ Abort(r)

\* tlapm proves nothing of WF, SF and ENABLED, so fairness is stated with the guard of
\* each action where WF and SF say ENABLED.  Granted(r) is when UpdateForLogin(r) or
\* UpdateRow(r) can be taken, Ready(r) when Step(r) or Fails(r) can.
IdLeft == \E p \in Pairs : ~Drawn(p)

Granted(r) ==
    LET q == req[r] IN
    /\ q.pc = "update"
    /\ q.op = "login" \/ Writes(q) => ~RowLocked(q.user)
    /\ q.op = "login" => IdLeft
    /\ q.op \in {"password", "active"} /\ Writes(q) => Exists(q.user)
    /\ Changes(q)

Ready(r) ==
    \/ req[r].pc \in {"load", "store", "commit", "refused"}
    \/ req[r].pc = "revoke" /\ (req[r].op = "refresh" => IdLeft)
    \/ MustFail(r) \/ Granted(r)

\* WF_vars(Step(r) \/ Fails(r)) and SF_vars(UpdateForLogin(r) \/ UpdateRow(r)): the event
\* loop runs every request, and PostgreSQL grants a row lock to its waiters in turn.
Runs(r) == []<>~Ready(r) \/ []<><<Step(r) \/ Fails(r)>>_vars
Turn(r) == <>[]~Granted(r) \/ []<><<UpdateForLogin(r) \/ UpdateRow(r)>>_vars

Fair    == \A r \in Requests : Runs(r) /\ Turn(r)
Service == []Fair

\* The ids of tokens are random and do not run out.
IdsLast == []IdLeft

RequestsEnd == \A r \in Requests : req[r].pc # "idle" ~> req[r].pc = "idle"

\* A behaviour of the specification under these, seen from any moment on.
Always == []SessInv /\ [][Next]_vars /\ Service /\ IdsLast

LEMMA SpecAlways == Spec /\ Service /\ IdsLast => Always
  BY SessAlways, PTL DEF Spec, Always

LEMMA AlwaysAlways == Always => []Always
  BY PTL DEF Always, Service, IdsLast

LEMMA Served == ASSUME NEW s \in Requests PROVE Service => Runs(s) /\ Turn(s)
  <1>1. Fair => Runs(s) /\ Turn(s)
    BY DEF Fair
  <1> QED BY <1>1, PTL DEF Service

\* Where a request is: before the row (a rotation and a change of password write to
\* Redis first), waiting for it, past it (a login and a logout write to Redis last).
At(r, c)     == req[r].pc = c
Ended(r)     == At(r, "idle")
Loads(r)     == At(r, "load")
Spends(r)    == At(r, "revoke") /\ req[r].op # "logout"
Issues(r)    == At(r, "store") /\ req[r].op # "login"
Waits(r)     == At(r, "update")
Hands(r)     == At(r, "store") /\ req[r].op = "login"
Blocks(r)    == At(r, "revoke") /\ req[r].op = "logout"
Past(r)      == Hands(r) \/ Blocks(r) \/ At(r, "commit") \/ At(r, "refused")

\* Where each step takes its request.
LEMMA StepGoes ==
    ASSUME SessInv, NEW r \in Requests, Step(r)
    PROVE  \/ At(r, "commit") /\ Ended(r)'
           \/ /\ req'[r].op = req[r].op /\ req'[r].user = req[r].user
              /\ \/ Loads(r) /\ (Spends(r)' \/ Waits(r)')
                 \/ Spends(r) /\ (Issues(r)' \/ Waits(r)')
                 \/ Issues(r) /\ Waits(r)'
                 \/ Waits(r) /\ Past(r)'
                 \/ Hands(r) /\ At(r, "commit")' /\ req'[r].locks = req[r].locks
                 \/ Blocks(r) /\ At(r, "commit")' /\ req'[r].locks = req[r].locks
  <1> DEFINE q == req[r]
  <1>1. req \in [Requests -> Request] /\ q \in Request /\ Shape(q)
    BY DEF SessInv, TypeOK, Shaped
  <1>2. CASE LoadOperator(r)
    <2>1. q.pc = "load" /\ q.op \in {"refresh", "logout", "password"}
      BY <1>1, <1>2 DEF LoadOperator, Shape, Steps, Request
    <2>2. req'[r].op = q.op /\ req'[r].user = q.user /\ req'[r].pc = AfterLoad(q.op)
      BY <1>1, <1>2 DEF LoadOperator, Request
    <2> QED BY <2>1, <2>2 DEF AfterLoad, Loads, Spends, Waits, At
  <1>3. CASE RevokeRefresh(r)
    <2>1. PICK p \in Pairs : req' = [req EXCEPT ![r].pc = "store", ![r].pair = p,
                                         ![r].locks = q.op = "login" /\ Exists(q.user)]
      BY <1>3 DEF RevokeRefresh, Draw
    <2>2. req'[r].op = q.op /\ req'[r].user = q.user /\ req'[r].pc = "store"
      BY <1>1, <2>1 DEF Request
    <2> QED BY <1>3, <2>2 DEF RevokeRefresh, Spends, Issues, At
  <1>4. CASE StoreRefresh(r)
    <2>1. /\ req'[r].op = q.op /\ req'[r].user = q.user /\ req'[r].locks = q.locks
          /\ req'[r].pc = IF q.op = "login" THEN "commit" ELSE "update"
      BY <1>1, <1>4 DEF StoreRefresh, Request
    <2> QED BY <1>4, <2>1 DEF StoreRefresh, Issues, Hands, Waits, At
  <1>5. CASE RevokeAccess(r)
    <2>1. /\ req'[r].op = q.op /\ req'[r].user = q.user /\ req'[r].locks = q.locks
          /\ req'[r].pc = IF q.op = "logout" THEN "commit" ELSE "update"
      BY <1>1, <1>5 DEF RevokeAccess, Request
    <2> QED BY <1>5, <2>1 DEF RevokeAccess, Spends, Blocks, Waits, At
  <1>6. CASE UpdateForLogin(r)
    <2>1. PICK p \in Pairs : req' = [req EXCEPT ![r].pc = "store", ![r].pair = p,
                                         ![r].locks = q.op = "login" /\ Exists(q.user)]
      BY <1>6 DEF UpdateForLogin, Draw
    <2>2. req'[r].op = q.op /\ req'[r].user = q.user /\ req'[r].pc = "store"
      BY <1>1, <2>1 DEF Request
    <2> QED BY <1>6, <2>2 DEF UpdateForLogin, Waits, Past, Hands, At
  <1>7. CASE UpdateRow(r)
    <2>1. PICK w : req' = [req EXCEPT ![r].pc = AfterUpdate(q.op), ![r].password = w,
                                      ![r].locks = Writes(q) /\ Exists(q.user)]
      BY <1>7 DEF UpdateRow
    <2>2. req'[r].op = q.op /\ req'[r].user = q.user /\ req'[r].pc = AfterUpdate(q.op)
      BY <1>1, <2>1 DEF Request
    <2>3. AfterUpdate(q.op) = IF q.op = "logout" THEN "revoke"
                              ELSE IF q.op = "fail" THEN "refused" ELSE "commit"
      BY DEF AfterUpdate
    <2> QED BY <1>7, <2>2, <2>3 DEF UpdateRow, Waits, Past, Blocks, At
  <1>8. CASE Commit(r)
    BY <1>1, <1>8 DEF Commit, At, Ended, Idle
  <1> QED BY <1>2, <1>3, <1>4, <1>5, <1>6, <1>7, <1>8 DEF Step

\* One request changes in a step.
LEMMA OneMoves ==
    ASSUME SessInv, [Next]_vars
    PROVE  \/ req' = req
           \/ \E s \in Requests : \E q : /\ req' = [req EXCEPT ![s] = q]
                                         /\ Ended(s) \/ Step(s) \/ q = Idle
  <1>1. ASSUME NEW s \in Requests, Begin(s)
        PROVE  \E q : req' = [req EXCEPT ![s] = q] /\ Ended(s)
    <2>1. req[s] = Idle /\ \E q : req' = [req EXCEPT ![s] = q]
      BY <1>1 DEF Begin, LoginLoad, DropLoad, ActiveLoad, RefreshLookup, Authenticate, Start
    <2>2. Idle.pc = "idle"
      BY DEF Idle
    <2> QED BY <2>1, <2>2 DEF Ended, At
  <1>2. ASSUME NEW s \in Requests, Step(s) \/ Abort(s)
        PROVE  \E q : req' = [req EXCEPT ![s] = q] /\ (Step(s) \/ q = Idle)
    <2>1. CASE RevokeRefresh(s) \/ UpdateForLogin(s)
      BY <2>1 DEF RevokeRefresh, UpdateForLogin, Draw, Step
    <2>2. CASE UpdateRow(s)
      BY <2>2 DEF UpdateRow, Step
    <2>3. CASE LoadOperator(s) \/ StoreRefresh(s) \/ RevokeAccess(s) \/ Commit(s) \/ Abort(s)
      BY <2>3 DEF LoadOperator, StoreRefresh, RevokeAccess, Commit, Abort, Step
    <2> QED BY <1>2, <2>1, <2>2, <2>3 DEF Step
  <1>3. ASSUME (\E p \in Pairs : Age(p) \/ RevokedExpire(p)) \/ UNCHANGED vars
        PROVE  req' = req
    BY <1>3 DEF Age, RevokedExpire, vars
  <1> QED BY <1>1, <1>2, <1>3 DEF Next

\* A request in progress stays as it is, takes its step or is over.
LEMMA Progress ==
    ASSUME SessInv, NEW r \in Requests, [Next]_vars, ~Ended(r)
    PROVE  req'[r] = req[r] \/ Step(r) \/ Ended(r)'
  <1>1. req \in [Requests -> Request] /\ Idle.pc = "idle"
    BY DEF SessInv, TypeOK, Idle
  <1>2. CASE req' = req
    BY <1>2
  <1>3. ASSUME NEW s \in Requests, NEW q, req' = [req EXCEPT ![s] = q],
               Ended(s) \/ Step(s) \/ q = Idle
        PROVE  req'[r] = req[r] \/ Step(r) \/ Ended(r)'
    BY <1>1, <1>3 DEF Ended, At
  <1> QED BY <1>2, <1>3, OneMoves

\* No step moves two requests.
LEMMA Lone ==
    ASSUME SessInv, NEW r \in Requests, NEW s \in Requests, r # s, [Next]_vars, req'[s] # req[s]
    PROVE  req'[r] = req[r]
  <1>1. req \in [Requests -> Request]
    BY DEF SessInv, TypeOK
  <1> QED BY <1>1, OneMoves

\* A step or a certain failure takes a request out of its stage.
LEMMA StepLeaves ==
    ASSUME SessInv, NEW r \in Requests, Step(r) \/ Fails(r), NEW c, c # "idle", At(r, c)
    PROVE  ~At(r, c)'
  <1>1. Fails(r) => Ended(r)'
    BY DEF Fails, Abort, SessInv, TypeOK, Ended, At, Idle
  <1> QED BY <1>1, StepGoes
         DEF At, Ended, Loads, Spends, Issues, Waits, Hands, Blocks, Past

\* A request leaves every stage but the wait for the row by itself.
Moving == {"load", "revoke", "store", "commit", "refused"}

Passes(r, c) == At(r, c) ~> ~At(r, c)

LEMMA StageEnds ==
    ASSUME NEW r \in Requests, NEW c \in Moving
    PROVE  Always => Passes(r, c)
  <1>1. At(r, c) /\ IdLeft => Ready(r)
    BY DEF At, Ready, Moving
  <1>2. SessInv /\ At(r, c) /\ <<Step(r) \/ Fails(r)>>_vars => ~At(r, c)'
    BY StepLeaves DEF Moving
  <1>3. Service => Runs(r)
    BY Served
  <1> QED BY <1>1, <1>2, <1>3, PTL DEF Always, IdsLast, Runs, Passes

\* What may come after a stage.
LEMMA StageGoes ==
    ASSUME NEW r \in Requests
    PROVE  /\ SessInv /\ [Next]_vars /\ Loads(r)
                => Loads(r)' \/ Spends(r)' \/ Waits(r)' \/ Ended(r)'
           /\ SessInv /\ [Next]_vars /\ Spends(r)
                => Spends(r)' \/ Issues(r)' \/ Waits(r)' \/ Ended(r)'
           /\ SessInv /\ [Next]_vars /\ Issues(r) => Issues(r)' \/ Waits(r)' \/ Ended(r)'
           /\ SessInv /\ [Next]_vars /\ Hands(r) => Hands(r)' \/ At(r, "commit")' \/ Ended(r)'
           /\ SessInv /\ [Next]_vars /\ Blocks(r) => Blocks(r)' \/ At(r, "commit")' \/ Ended(r)'
           /\ SessInv /\ [Next]_vars /\ At(r, "commit") => At(r, "commit")' \/ Ended(r)'
           /\ SessInv /\ [Next]_vars /\ At(r, "refused") => At(r, "refused")' \/ Ended(r)'
           /\ SessInv /\ [Next]_vars /\ Waits(r) => Waits(r)' \/ Past(r)' \/ Ended(r)'
  <1>1. ASSUME SessInv, [Next]_vars, ~Ended(r)
        PROVE  req'[r] = req[r] \/ Step(r) \/ Ended(r)'
    BY <1>1, Progress
  <1> QED BY <1>1, StepGoes
         DEF At, Ended, Loads, Spends, Issues, Waits, Hands, Blocks, Past

\* Past the row a request waits for nothing.
Finishes(r) == Past(r) ~> Ended(r)

LEMMA PastEnds == ASSUME NEW r \in Requests PROVE Always => Finishes(r)
  <1>1. Always => (At(r, "commit") ~> Ended(r))
    <2>1. Always => Passes(r, "commit")
      BY StageEnds DEF Moving
    <2>2. SessInv /\ [Next]_vars /\ At(r, "commit") => At(r, "commit")' \/ Ended(r)'
      BY StageGoes
    <2> QED BY <2>1, <2>2, PTL DEF Always, Passes
  <1>2. Always => (At(r, "refused") ~> Ended(r))
    <2>1. Always => Passes(r, "refused")
      BY StageEnds DEF Moving
    <2>2. SessInv /\ [Next]_vars /\ At(r, "refused") => At(r, "refused")' \/ Ended(r)'
      BY StageGoes
    <2> QED BY <2>1, <2>2, PTL DEF Always, Passes
  <1>3. Always => (Hands(r) ~> Ended(r))
    <2>1. Always => Passes(r, "store")
      BY StageEnds DEF Moving
    <2>2. SessInv /\ [Next]_vars /\ Hands(r) => Hands(r)' \/ At(r, "commit")' \/ Ended(r)'
      BY StageGoes
    <2>3. Hands(r) => At(r, "store")
      BY DEF Hands
    <2> QED BY <1>1, <2>1, <2>2, <2>3, PTL DEF Always, Passes
  <1>4. Always => (Blocks(r) ~> Ended(r))
    <2>1. Always => Passes(r, "revoke")
      BY StageEnds DEF Moving
    <2>2. SessInv /\ [Next]_vars /\ Blocks(r) => Blocks(r)' \/ At(r, "commit")' \/ Ended(r)'
      BY StageGoes
    <2>3. Blocks(r) => At(r, "revoke")
      BY DEF Blocks
    <2> QED BY <1>1, <2>1, <2>2, <2>3, PTL DEF Always, Passes
  <1>5. Past(r) => Hands(r) \/ Blocks(r) \/ At(r, "commit") \/ At(r, "refused")
    BY DEF Past
  <1> QED BY <1>1, <1>2, <1>3, <1>4, <1>5, PTL DEF Finishes

Holds(s, u) == req[s].locks /\ req[s].user = u
Freed(u)    == RowLocked(u) ~> ~RowLocked(u)

\* A row has one holder, which waits for nothing.
LEMMA RowsAreReleased == ASSUME NEW u \in Operators PROVE Always => Freed(u)
  <1>1. ASSUME NEW s \in Requests PROVE Always => (Holds(s, u) => <>~RowLocked(u))
    <2>1. SessInv /\ Holds(s, u) => Past(s)
      <3> SUFFICES ASSUME SessInv, Holds(s, u) PROVE Past(s)
        OBVIOUS
      <3>1. Shape(req[s]) /\ req[s] \in Request
        BY DEF SessInv, Shaped, TypeOK
      <3> QED BY <3>1 DEF Holds, Shape, Steps, Request, Past, Hands, Blocks, At
    <2>2. SessInv /\ [Next]_vars /\ Holds(s, u) => Holds(s, u)' \/ ~RowLocked(u)'
      <3> SUFFICES ASSUME SessInv, [Next]_vars, Holds(s, u), RowLocked(u)'
                   PROVE  Holds(s, u)'
        OBVIOUS
      <3>1. PICK p \in Requests : req'[p].user = u /\ req'[p].locks
        BY DEF RowLocked
      <3>2. Past(s) /\ ~Ended(s)
        BY <2>1 DEF Past, Hands, Blocks, Ended, At
      <3>3. Step(s) => Holds(s, u)' \/ Ended(s)'
        BY <3>2, StepGoes DEF Past, Hands, Blocks, Loads, Spends, Issues, Waits, At, Holds
      <3>4. Holds(s, u)' \/ Ended(s)'
        BY <3>2, <3>3, Progress DEF Holds
      <3>5. ASSUME p # s, Ended(s)' PROVE FALSE
        <4>1. req'[p] = req[p]
          BY <3>2, <3>5, Lone DEF Ended, At
        <4> QED BY <3>1, <3>5, <4>1 DEF SessInv, Locked, Holds
      <3> QED BY <3>1, <3>4, <3>5 DEF Holds
    <2>3. SessInv /\ Ended(s) => ~Holds(s, u)
      BY <2>1 DEF Past, Hands, Blocks, Ended, At
    <2>4. Always => Finishes(s)
      BY PastEnds
    <2> QED BY <2>1, <2>2, <2>3, <2>4, PTL DEF Always, Finishes
  <1>2. Always => (RowLocked(u) => <>~RowLocked(u))
    BY <1>1 DEF RowLocked, Holds
  <1> QED BY <1>2, AlwaysAlways, PTL DEF Freed

WaitsFor(r, u) == Waits(r) /\ req[r].user = u

\* Who waits for a row is served in turn, or finds it gone for good.
LEMMA WaitEnds ==
    ASSUME NEW r \in Requests, NEW u \in Operators
    PROVE  Always => (WaitsFor(r, u) => <>(Past(r) \/ Ended(r)))
  <1>1. SessInv /\ [Next]_vars /\ WaitsFor(r, u) =>
          \/ WaitsFor(r, u)' /\ (MustFail(r) => MustFail(r)')
          \/ Past(r)' \/ Ended(r)'
    <2> SUFFICES ASSUME SessInv, [Next]_vars, WaitsFor(r, u), ~Past(r)', ~Ended(r)'
                 PROVE  WaitsFor(r, u)' /\ (MustFail(r) => MustFail(r)')
      OBVIOUS
    <2>1. ~Step(r)
      BY StepGoes DEF WaitsFor, Loads, Spends, Issues, Waits, Hands, Blocks, At
    <2>2. req'[r] = req[r]
      BY <2>1, Progress DEF WaitsFor, Waits, Ended, At
    <2>3. ~Exists(u) => ~Exists(u)'
      BY OperatorsStayGone
    <2> QED BY <2>2, <2>3 DEF WaitsFor, Waits, At, MustFail, Changes, Writes
  <1>2. WaitsFor(r, u) /\ ~RowLocked(u) /\ IdLeft => Granted(r) \/ MustFail(r)
    BY DEF WaitsFor, Waits, At, Granted, MustFail
  <1>3. MustFail(r) => Ready(r)
    BY DEF Ready
  <1>4. SessInv /\ WaitsFor(r, u) /\ <<Step(r) \/ Fails(r)>>_vars => ~WaitsFor(r, u)'
    BY StepLeaves DEF WaitsFor, Waits
  <1>5. SessInv /\ WaitsFor(r, u) /\ <<UpdateForLogin(r) \/ UpdateRow(r)>>_vars
          => ~WaitsFor(r, u)'
    BY StepLeaves DEF WaitsFor, Waits, Step
  <1>6. Always => Freed(u)
    BY RowsAreReleased
  <1>7. Service => Runs(r) /\ Turn(r)
    BY Served
  <1> QED
    BY <1>1, <1>2, <1>3, <1>4, <1>5, <1>6, <1>7, PTL DEF Always, IdsLast, Freed, Runs, Turn

\* Every request ends: a login, rotation, logout or change that waits for the row of an
\* operator another request holds gets it in turn or fails.  No two wait for each other,
\* though some hold the row while they write to Redis: who holds it waits for no row.
THEOREM SessRequestsEnd == Spec /\ Service /\ IdsLast => RequestsEnd
  <1> SUFFICES ASSUME NEW r \in Requests
               PROVE  Spec /\ Service /\ IdsLast => (req[r].pc # "idle" ~> req[r].pc = "idle")
    BY DEF RequestsEnd
  <1>1. Always => (Waits(r) => <>(Past(r) \/ Ended(r)))
    <2>1. SessInv /\ Waits(r) => \E u \in Operators : WaitsFor(r, u)
      <3> SUFFICES ASSUME SessInv, Waits(r) PROVE req[r].user \in Operators
        BY DEF WaitsFor
      <3>1. Shape(req[r]) /\ req[r] \in Request
        BY DEF SessInv, Shaped, TypeOK
      <3> QED BY <3>1 DEF Shape, Steps, Waits, At
    <2>2. \A u \in Operators : Always => (WaitsFor(r, u) => <>(Past(r) \/ Ended(r)))
      BY WaitEnds
    <2>3. Always => SessInv
      BY PTL DEF Always
    <2> QED BY <2>1, <2>2, <2>3
  <1>2. Always => Finishes(r)
    BY PastEnds
  <1>3. Always => Passes(r, "load") /\ Passes(r, "revoke") /\ Passes(r, "store")
    BY StageEnds DEF Moving
  <1>4. /\ SessInv /\ [Next]_vars /\ Loads(r)
             => Loads(r)' \/ Spends(r)' \/ Waits(r)' \/ Ended(r)'
        /\ SessInv /\ [Next]_vars /\ Spends(r)
             => Spends(r)' \/ Issues(r)' \/ Waits(r)' \/ Ended(r)'
        /\ SessInv /\ [Next]_vars /\ Issues(r) => Issues(r)' \/ Waits(r)' \/ Ended(r)'
    BY StageGoes
  <1>5. /\ Loads(r) => At(r, "load")
        /\ Spends(r) => At(r, "revoke")
        /\ Issues(r) => At(r, "store")
    BY DEF Loads, Spends, Issues
  <1>6. SessInv => Loads(r) \/ Spends(r) \/ Issues(r) \/ Waits(r) \/ Past(r) \/ Ended(r)
    BY DEF SessInv, TypeOK, Request, Loads, Spends, Issues, Waits, Past, Hands, Blocks, Ended, At
  <1>7. req[r].pc = "idle" <=> Ended(r)
    BY DEF Ended, At
  <1>8. Always => (Issues(r) ~> Waits(r) \/ Ended(r))
    BY <1>3, <1>4, <1>5, PTL DEF Always, Passes
  <1>9. Always => (Spends(r) ~> Waits(r) \/ Ended(r))
    BY <1>3, <1>4, <1>5, <1>8, PTL DEF Always, Passes
  <1>10. Always => (Loads(r) ~> Waits(r) \/ Ended(r))
    BY <1>3, <1>4, <1>5, <1>9, PTL DEF Always, Passes
  <1> QED
    BY <1>1, <1>2, <1>6, <1>7, <1>8, <1>9, <1>10, SpecAlways, AlwaysAlways, PTL
       DEF Finishes, Always

\* One id is drawn at a time, so infinitely many do not run out.
DrawnPairs == {p \in Pairs : Drawn(p)}

LEMMA SessIdsLast == ASSUME ~IsFiniteSet(Pairs) PROVE Spec => IdsLast
  <1>1. Init => IsFiniteSet(DrawnPairs)
    <2>1. Init => DrawnPairs = {}
      BY DEF Init, DrawnPairs, Drawn
    <2> QED BY <2>1, FS_EmptySet
  <1>2. SessInv /\ IsFiniteSet(DrawnPairs) /\ [Next]_vars => IsFiniteSet(DrawnPairs)'
    <2> SUFFICES ASSUME SessInv, IsFiniteSet(DrawnPairs), [Next]_vars
                 PROVE  IsFiniteSet(DrawnPairs')
      OBVIOUS
    <2>1. \E p : DrawnPairs' \subseteq DrawnPairs \cup {p}
      <3>1. ASSUME NEW r \in Requests, NEW u, NEW l, Draw(r, u, l)
            PROVE  \E p : DrawnPairs' \subseteq DrawnPairs \cup {p}
        BY <3>1 DEF Draw, DrawnPairs, Drawn, SessInv, TypeOK
      <3>2. ASSUME NEW p \in Pairs, Age(p) PROVE DrawnPairs' \subseteq DrawnPairs \cup {p}
        BY <3>2 DEF Age, DrawnPairs, Drawn, SessInv, TypeOK
      <3>3. CASE UNCHANGED token
        BY <3>3 DEF DrawnPairs, Drawn
      <3> QED BY <3>1, <3>2, <3>3
           DEF Next, Begin, Step, LoginLoad, DropLoad, ActiveLoad, RefreshLookup, Authenticate,
               Start, LoadOperator, RevokeRefresh, StoreRefresh, RevokeAccess, UpdateForLogin,
               UpdateRow, Commit, Abort, RevokedExpire, vars
    <2>2. PICK p : DrawnPairs' \subseteq DrawnPairs \cup {p}
      BY <2>1
    <2>3. IsFiniteSet(DrawnPairs \cup {p})
      BY FS_AddElement
    <2> QED BY <2>2, <2>3, FS_Subset
  <1>3. IsFiniteSet(DrawnPairs) => IdLeft
    <2>1. ~IdLeft => DrawnPairs = Pairs
      BY DEF IdLeft, DrawnPairs
    <2> QED BY <2>1
  <1> QED BY <1>1, <1>2, <1>3, SessAlways, PTL DEF Spec, IdsLast
=============================================================================
