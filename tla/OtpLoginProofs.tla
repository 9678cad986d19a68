---------------------------- MODULE OtpLoginProofs ----------------------------
(***************************************************************************)
(* Theorems about OtpLogin, for any numbers, codes, users, statuses and    *)
(* any number of overlapping requests.                                     *)
(*                                                                         *)
(* The inductive invariant has two halves that do not meet: what is known  *)
(* of codes (CodesInv) and of accounts (AccountsInv).                      *)
(***************************************************************************)
EXTENDS OtpLogin, FiniteSetTheorems, TLAPS

\* What a request carries.
Shape(q) ==
    /\ q.op = "none" => q = Idle
    /\ q.op = "verify" => /\ q.pc # "idle" /\ q.phone \in Phones /\ q.code \in Codes
                          /\ q.pc \in {"update", "commit"} => q.user \in Users
                          /\ q.pc = "update" => ~q.new
    /\ q.op \in {"status", "profile"} =>
          /\ q.pc \in {"update", "commit"} /\ q.user \in Users /\ ~q.new
          /\ q.code = None /\ q.phone = None
    /\ q.op = "status" => q.status \in Statuses

Shaped == \A r \in Requests : Shape(req[r])

(* Codes *)

\* A stored code was sent, is the last one, and has one number; requests carry codes
\* that were sent.
Keys ==
    /\ \A p \in Phones : otp[p] # None => otp[p] \in sent /\ valid[p] \in {otp[p], None}
    /\ \A p, t \in Phones : otp[p] # None /\ otp[p] = otp[t] => p = t
    /\ \A r \in Requests : req[r].code # None =>
          /\ req[r].code \in sent
          /\ \A p \in Phones : otp[p] = req[r].code => p = req[r].phone

\* While a code is being verified the last one of the number is not another, unless
\* it was sent meanwhile.
Overtakes ==
    \A r \in Requests : req[r].op = "verify" /\ req[r].pc = "delete" =>
        valid[req[r].phone] \in met \cup {None}

\* Code c is used up.
Gone(c) == \A p \in Phones : otp[p] # c

Sole(c) ==
    /\ \A r, s \in Requests : req[r].code = c /\ req[s].code = c => r = s
    /\ \A r \in Past(c) : Gone(c)
    /\ c \in opened => Gone(c) /\ \A r \in Requests : req[r].code # c

CodesInv == Keys /\ Overtakes /\ LastCodeWorks /\ \A c \in sent \ raced : Sole(c)

(* Accounts *)

\* An account that is being inserted is new in every respect.
Fresh(r) ==
    req[r].new =>
        /\ req[r].pc = "commit" /\ req[r].op = "verify" /\ ~Exists(req[r].user)
        /\ \A u \in Users : ~HasPhone(u, req[r].phone)
        /\ \A s \in Requests : s # r => /\ req[s].user # req[r].user
                                        /\ req[s].new => req[s].phone # req[r].phone

\* One that is being written stays until the commit, and has one writer.
Held(r) ==
    req[r].pc = "commit" =>
        /\ req[r].new \/ Exists(req[r].user)
        /\ \A s \in Requests : req[s].pc = "commit" /\ req[s].user = req[r].user => s = r

\* An account that a verification found keeps its number.
Found(r) ==
    req[r].op = "verify" /\ req[r].pc \in {"update", "commit"} /\ Exists(req[r].user) =>
        account[req[r].user].phone = req[r].phone

AccountsInv ==
    /\ \A u \in Users : Exists(u) => u \in drawn
    /\ \A r \in Requests : req[r].user # None => req[r].user \in drawn
    /\ \A r \in Requests : Fresh(r) /\ Held(r) /\ Found(r)
    /\ \A p \in Phones, u, v \in Users : HasPhone(u, p) /\ HasPhone(v, p) => u = v

OtpInv == TypeOK /\ Shaped /\ CodesInv /\ AccountsInv

-----------------------------------------------------------------------------
(* Steps of a request                                                      *)

LEMMA IdleRecord == Idle \in Request /\ Shape(Idle) /\ Idle.code = None /\ Idle.user = None
                    /\ Idle.op = "none" /\ Idle.pc = "idle" /\ ~Idle.new
  BY DEF Idle, Request, Shape

\* A request becomes n: with the code it had, past the DEL if it was, or with none.
LEMMA CodesKeep ==
    ASSUME OtpInv, NEW r \in Requests, NEW n \in Request, req' = [req EXCEPT ![r] = n],
           UNCHANGED <<otp, sent, valid, met, raced>>,
           n.pc # "delete",
           \/ n.code = None /\ opened' \subseteq opened \cup ({req[r].code} \ {None})
              /\ (req[r].pc = "delete" => opened' = opened)
           \/ n.code = req[r].code /\ n.phone = req[r].phone /\ req[r].pc # "delete" /\ opened' = opened,
           opened \subseteq opened'
    PROVE  CodesInv'
  <1>1. /\ req'[r] = n
        /\ \A s \in Requests : s # r => req'[s] = req[s]
    BY DEF OtpInv, TypeOK
  <1>2. n.code # None => n.code = req[r].code /\ n.phone = req[r].phone /\ req[r].pc # "delete"
                         /\ opened' = opened
    OBVIOUS
  <1>3. Keys'
    BY <1>1, <1>2 DEF OtpInv, CodesInv, Keys
  <1>4. Overtakes'
    BY <1>1 DEF OtpInv, CodesInv, Overtakes
  <1>5. LastCodeWorks'
    BY DEF OtpInv, CodesInv, LastCodeWorks
  <1>6. ASSUME NEW c \in sent \ raced
        PROVE  Sole(c)'
    <2>1. Sole(c) /\ c # None
      BY OtpAssumption DEF OtpInv, CodesInv, TypeOK
    <2>2. \A s \in Requests : req'[s].code = c => req[s].code = c
      BY <1>1, <1>2, <2>1
    <2>3. \A s \in Past(c)' : s \in Past(c)
      BY <1>1, <1>2, <2>1, <2>2 DEF Past
    <2>4. c \in opened' => Gone(c) /\ \A s \in Requests : req'[s].code # c
      <3>1. CASE c \in opened
        BY <2>1, <2>2, <3>1 DEF Sole
      <3>2. CASE c \in opened' /\ c \notin opened
        <4>1. n.code = None /\ req[r].code = c /\ r \in Past(c)
          BY <1>2, <2>1, <3>2 DEF Past
        <4> QED BY <1>1, <2>1, <4>1 DEF Sole
      <3> QED BY <3>1, <3>2
    <2> QED BY <2>1, <2>2, <2>3, <2>4 DEF Sole, Gone
  <1> QED BY <1>3, <1>4, <1>5, <1>6 DEF CodesInv

\* A request becomes n, which inserts nothing: with the user it had or with one that
\* exists, and about to commit only when it has just taken the lock on the row.
LEMMA AccountsKeep ==
    ASSUME OtpInv, NEW r \in Requests, NEW n \in Request, req' = [req EXCEPT ![r] = n],
           UNCHANGED <<account, drawn>>,
           ~n.new,
           n.user # None => n.user = req[r].user \/ Exists(n.user),
           n.pc = "commit" => Exists(n.user) /\ ~RowLocked(n.user),
           n.op = "verify" /\ n.pc \in {"update", "commit"} /\ Exists(n.user) =>
             account[n.user].phone = n.phone
    PROVE  AccountsInv'
  <1>1. /\ req'[r] = n
        /\ \A s \in Requests : s # r => req'[s] = req[s]
    BY DEF OtpInv, TypeOK
  <1>2. n.user # None => n.user \in drawn
    BY DEF OtpInv, AccountsInv, Exists, TypeOK, Request
  <1>3. ASSUME NEW s \in Requests
        PROVE  Fresh(s)'
    <2>1. CASE s = r
      BY <1>1, <2>1 DEF Fresh
    <2>2. CASE s # r
      <3> SUFFICES ASSUME req[s].new PROVE Fresh(s)'
        BY <1>1, <2>2 DEF Fresh
      <3>1. Fresh(s) /\ req[s].user # None
        BY OtpAssumption DEF OtpInv, AccountsInv, Shaped, Shape, Fresh
      <3>2. n.user # req[s].user
        BY <2>2, <3>1 DEF Fresh, Exists
      <3> QED BY <1>1, <2>2, <3>1, <3>2 DEF Fresh, Exists, HasPhone
    <2> QED BY <2>1, <2>2
  <1>4. ASSUME NEW s \in Requests
        PROVE  Held(s)'
    BY <1>1 DEF OtpInv, AccountsInv, Held, Exists, RowLocked
  <1>5. ASSUME NEW s \in Requests
        PROVE  Found(s)'
    BY <1>1 DEF OtpInv, AccountsInv, Found, Exists
  <1>6. \A s \in Requests : req'[s].user # None => req'[s].user \in drawn
    BY <1>1, <1>2 DEF OtpInv, AccountsInv
  <1> QED BY <1>3, <1>4, <1>5, <1>6 DEF OtpInv, AccountsInv, Exists, HasPhone

LEMMA TypesKeep ==
    ASSUME OtpInv, NEW r \in Requests, NEW n \in Request, req' = [req EXCEPT ![r] = n], Shape(n),
           UNCHANGED <<otp, account, drawn, sent, valid, met, raced, opened>>
    PROVE  TypeOK' /\ Shaped'
  <1>1. TypeOK'
    BY DEF OtpInv, TypeOK
  <1>2. Shaped'
    BY DEF OtpInv, TypeOK, Shaped
  <1> QED BY <1>1, <1>2

LEMMA AbortKeeps ==
    ASSUME OtpInv, NEW r \in Requests, Abort(r)
    PROVE  OtpInv'
  <1>1. req' = [req EXCEPT ![r] = Idle]
        /\ UNCHANGED <<otp, account, drawn, sent, valid, met, raced, opened>>
    BY DEF Abort
  <1>2. CodesInv'
    BY <1>1, IdleRecord, CodesKeep
  <1>3. AccountsInv'
    BY <1>1, IdleRecord, AccountsKeep
  <1> QED BY <1>1, <1>2, <1>3, IdleRecord, TypesKeep DEF OtpInv

LEMMA StatusLoadKeeps ==
    ASSUME OtpInv, NEW r \in Requests, NEW u \in Users, NEW t \in Statuses, StatusLoad(r, u, t)
    PROVE  OtpInv'
  <1> DEFINE n == [Idle EXCEPT !.op = "status", !.pc = "update", !.user = u, !.seen = account[u],
                               !.status = t]
  <1>1. /\ Exists(u) /\ req[r] = Idle /\ req' = [req EXCEPT ![r] = n]
        /\ UNCHANGED <<otp, account, drawn, sent, valid, met, raced, opened>>
    BY DEF StatusLoad, Start
  <1>2. account[u] \in Account
    BY <1>1 DEF Exists, OtpInv, TypeOK
  <1>3. n \in Request /\ n.op = "status" /\ n.pc = "update" /\ n.user = u /\ ~n.new
        /\ n.code = None /\ n.phone = None /\ n.status = t
    BY <1>2 DEF Idle, Request
  <1> HIDE DEF n
  <1>4. Shape(n)
    BY <1>3 DEF Shape
  <1>5. CodesInv'
    BY <1>1, <1>3, CodesKeep
  <1>6. AccountsInv'
    BY <1>1, <1>3, AccountsKeep
  <1> QED BY <1>1, <1>3, <1>4, <1>5, <1>6, TypesKeep DEF OtpInv

LEMMA ProfileLoadKeeps ==
    ASSUME OtpInv, NEW r \in Requests, NEW u \in Users, ProfileLoad(r, u)
    PROVE  OtpInv'
  <1> DEFINE n == [Idle EXCEPT !.op = "profile", !.pc = "update", !.user = u, !.seen = account[u]]
  <1>1. /\ Exists(u) /\ req[r] = Idle /\ req' = [req EXCEPT ![r] = n]
        /\ UNCHANGED <<otp, account, drawn, sent, valid, met, raced, opened>>
    BY DEF ProfileLoad, Start
  <1>2. account[u] \in Account
    BY <1>1 DEF Exists, OtpInv, TypeOK
  <1>3. n \in Request /\ n.op = "profile" /\ n.pc = "update" /\ n.user = u /\ ~n.new
        /\ n.code = None /\ n.phone = None
    BY <1>2 DEF Idle, Request
  <1> HIDE DEF n
  <1>4. Shape(n)
    BY <1>3 DEF Shape
  <1>5. CodesInv'
    BY <1>1, <1>3, CodesKeep
  <1>6. AccountsInv'
    BY <1>1, <1>3, AccountsKeep
  <1> QED BY <1>1, <1>3, <1>4, <1>5, <1>6, TypesKeep DEF OtpInv

\* Only verifications insert, find and delete.
LEMMA VerifyingShape ==
    ASSUME OtpInv, NEW r \in Requests, req[r].pc \in {"delete", "find", "insert"}
    PROVE  req[r].op = "verify" /\ ~req[r].new /\ req[r].phone \in Phones /\ req[r].code \in Codes
           /\ req[r] \in Request
  <1>1. Shape(req[r]) /\ req[r] \in Request /\ Fresh(r)
    BY DEF OtpInv, Shaped, TypeOK, AccountsInv
  <1> QED BY <1>1 DEF Shape, Request, Idle, Fresh

LEMMA FindUserKeeps ==
    ASSUME OtpInv, NEW r \in Requests, FindUser(r)
    PROVE  OtpInv'
  <1> DEFINE q == req[r]
  <1>1. /\ q.pc = "find" /\ q.op = "verify" /\ ~q.new /\ q.phone \in Phones /\ q.code \in Codes
        /\ q \in Request
    BY VerifyingShape DEF FindUser
  <1>2. UNCHANGED <<otp, account, drawn, sent, valid, met, raced, opened>>
    BY DEF FindUser
  <1>3. CASE req' = [req EXCEPT ![r].pc = "insert"]
    <2> DEFINE n == [q EXCEPT !.pc = "insert"]
    <2>1. req' = [req EXCEPT ![r] = n]
      BY <1>3
    <2>2. n \in Request /\ n.op = "verify" /\ n.pc = "insert" /\ n.user = q.user /\ ~n.new
          /\ n.code = q.code /\ n.phone = q.phone
      BY <1>1 DEF Request
    <2> HIDE DEF n
    <2>3. Shape(n)
      BY <1>1, <2>2 DEF Shape
    <2>4. CodesInv'
      BY <1>1, <1>2, <2>1, <2>2, CodesKeep
    <2>5. AccountsInv'
      BY <1>1, <1>2, <2>1, <2>2, AccountsKeep
    <2> QED BY <1>2, <2>1, <2>2, <2>3, <2>4, <2>5, TypesKeep DEF OtpInv
  <1>4. ASSUME NEW u \in Users, HasPhone(u, q.phone),
               req' = [req EXCEPT ![r].pc = "update", ![r].user = u, ![r].seen = account[u]]
        PROVE  OtpInv'
    <2> DEFINE n == [q EXCEPT !.pc = "update", !.user = u, !.seen = account[u]]
    <2>1. req' = [req EXCEPT ![r] = n]
      BY <1>1, <1>4 DEF OtpInv, TypeOK
    <2>2. account[u] \in Account /\ Exists(u) /\ account[u].phone = q.phone
      BY <1>4 DEF HasPhone, Exists, OtpInv, TypeOK
    <2>3. n \in Request /\ n.op = "verify" /\ n.pc = "update" /\ n.user = u /\ ~n.new
          /\ n.code = q.code /\ n.phone = q.phone
      BY <1>1, <2>2 DEF Request
    <2> HIDE DEF n
    <2>4. Shape(n)
      BY <1>1, <2>3 DEF Shape
    <2>5. CodesInv'
      BY <1>1, <1>2, <2>1, <2>3, CodesKeep
    <2>6. AccountsInv'
      BY <1>1, <1>2, <2>1, <2>2, <2>3, AccountsKeep
    <2> QED BY <1>2, <2>1, <2>3, <2>4, <2>5, <2>6, TypesKeep DEF OtpInv
  <1> QED BY <1>3, <1>4 DEF FindUser

LEMMA UpdateUserKeeps ==
    ASSUME OtpInv, NEW r \in Requests, UpdateUser(r)
    PROVE  OtpInv'
  <1> DEFINE q == req[r]
             n == [q EXCEPT !.pc = "commit"]
  <1>1. /\ q.pc = "update" /\ Exists(q.user) /\ ~RowLocked(q.user)
        /\ UNCHANGED <<otp, account, drawn, sent, valid, met, raced, opened>>
    BY DEF UpdateUser
  <1>2. q \in Request /\ Shape(q) /\ Found(r)
    BY DEF OtpInv, TypeOK, Shaped, AccountsInv
  <1>3. req' = [req EXCEPT ![r] = n]
    BY DEF UpdateUser
  <1>4. n \in Request /\ n.op = q.op /\ n.pc = "commit" /\ n.user = q.user /\ n.new = q.new
        /\ n.code = q.code /\ n.phone = q.phone /\ n.status = q.status
    BY <1>2 DEF Request
  <1>5. q.op # "none"
    BY <1>1, <1>2 DEF Shape, Idle
  <1> HIDE DEF n
  <1>6. Shape(n) /\ ~n.new
    BY <1>1, <1>2, <1>4, <1>5 DEF Shape, Request
  <1>7. CodesInv'
    BY <1>1, <1>3, <1>4, CodesKeep
  <1>8. AccountsInv'
    BY <1>1, <1>2, <1>3, <1>4, <1>6, AccountsKeep DEF Found
  <1> QED BY <1>1, <1>3, <1>4, <1>6, <1>7, <1>8, TypesKeep DEF OtpInv

\* The unique index and the id drawn make the insertion new to all others.
LEMMA InsertUserKeeps ==
    ASSUME OtpInv, NEW r \in Requests, InsertUser(r)
    PROVE  OtpInv'
  <1> DEFINE q == req[r]
  <1>1. PICK u \in Users \ drawn :
          /\ req' = [req EXCEPT ![r].pc = "commit", ![r].user = u, ![r].new = TRUE]
          /\ drawn' = drawn \cup {u}
    BY DEF InsertUser
  <1> DEFINE n == [q EXCEPT !.pc = "commit", !.user = u, !.new = TRUE]
  <1>1a. u \in Users /\ u \notin drawn /\ drawn' = drawn \cup {u}
    BY <1>1
  <1>2. /\ q.pc = "insert" /\ q.op = "verify" /\ ~q.new /\ q.phone \in Phones /\ q.code \in Codes
        /\ q \in Request /\ Unique(q.phone)
        /\ UNCHANGED <<otp, account, sent, valid, met, raced, opened>>
    BY VerifyingShape DEF InsertUser
  <1>3. req' = [req EXCEPT ![r] = n]
    BY <1>1, <1>2 DEF OtpInv, TypeOK
  <1>4. n \in Request /\ n.op = "verify" /\ n.pc = "commit" /\ n.user = u /\ n.new
        /\ n.code = q.code /\ n.phone = q.phone
    BY <1>2 DEF Request
  <1> HIDE DEF n
  <1>5. /\ req'[r] = n
        /\ \A s \in Requests : s # r => req'[s] = req[s]
    BY <1>3 DEF OtpInv, TypeOK
  <1>6. TypeOK' /\ Shaped'
    <2>1. Shape(n)
      BY <1>2, <1>4 DEF Shape
    <2>2. TypeOK'
      BY <1>1a, <1>2, <1>3, <1>4 DEF OtpInv, TypeOK
    <2>3. Shaped'
      BY <1>5, <2>1 DEF OtpInv, Shaped
    <2> QED BY <2>2, <2>3
  <1>7. CodesInv'
    BY <1>2, <1>3, <1>4, CodesKeep
  <1>8. ~Exists(u) /\ \A s \in Requests : req[s].user # u
    BY OtpAssumption DEF OtpInv, AccountsInv
  <1>9. ASSUME NEW s \in Requests
        PROVE  Fresh(s)'
    <2>1. CASE s = r
      BY <1>2, <1>4, <1>5, <1>8, <2>1 DEF Fresh, Exists, HasPhone, Unique
    <2>2. CASE s # r
      BY <1>2, <1>4, <1>5, <1>8, <2>2 DEF OtpInv, AccountsInv, Fresh, Exists, HasPhone, Unique
    <2> QED BY <2>1, <2>2
  <1>10. ASSUME NEW s \in Requests
         PROVE  Held(s)'
    BY <1>2, <1>4, <1>5, <1>8 DEF OtpInv, AccountsInv, Held, Exists
  <1>11. ASSUME NEW s \in Requests
         PROVE  Found(s)'
    BY <1>2, <1>4, <1>5, <1>8 DEF OtpInv, AccountsInv, Found, Exists
  <1>12. \A s \in Requests : req'[s].user # None => req'[s].user \in drawn'
    BY <1>1a, <1>4, <1>5 DEF OtpInv, AccountsInv
  <1>13. AccountsInv'
    BY <1>1a, <1>2, <1>9, <1>10, <1>11, <1>12 DEF OtpInv, AccountsInv, Exists, HasPhone
  <1> QED BY <1>6, <1>7, <1>13 DEF OtpInv

-----------------------------------------------------------------------------
(* Codes                                                                   *)

\* The accounts are none of a code's business.
LEMMA AccountsQuiet ==
    ASSUME OtpInv, UNCHANGED <<account, drawn, req>>
    PROVE  AccountsInv' /\ Shaped'
  <1>1. Shaped'
    BY DEF OtpInv, Shaped
  <1>2. AccountsInv'
    BY DEF OtpInv, AccountsInv, Fresh, Held, Found, Exists, HasPhone
  <1> QED BY <1>1, <1>2

LEMMA RequestOtpKeeps ==
    ASSUME OtpInv, NEW p \in Phones, NEW c \in Codes, RequestOtp(p, c)
    PROVE  OtpInv'
  <1>1. /\ c \notin sent /\ c # None
        /\ otp' = [otp EXCEPT ![p] = c] /\ sent' = sent \cup {c} /\ valid' = [valid EXCEPT ![p] = c]
        /\ met' = IF Verifying(p) THEN met \cup {c} ELSE met
        /\ UNCHANGED <<account, drawn, req, raced, opened>>
    BY OtpAssumption DEF RequestOtp
  <1>2. TypeOK'
    BY <1>1 DEF OtpInv, TypeOK
  <1>3. Keys'
    BY <1>1 DEF OtpInv, TypeOK, CodesInv, Keys
  <1>4. Overtakes'
    <2> SUFFICES ASSUME NEW r \in Requests, req[r].op = "verify", req[r].pc = "delete"
                 PROVE  valid'[req[r].phone] \in met' \cup {None}
      BY <1>1 DEF Overtakes
    <2>1. valid[req[r].phone] \in met \cup {None} /\ req[r].phone \in Phones
      BY VerifyingShape DEF OtpInv, CodesInv, Overtakes
    <2>2. CASE req[r].phone = p
      BY <1>1, <2>2 DEF Verifying, OtpInv, TypeOK
    <2>3. CASE req[r].phone # p
      BY <1>1, <2>1, <2>3 DEF OtpInv, TypeOK
    <2> QED BY <2>2, <2>3
  <1>5. LastCodeWorks'
    BY <1>1 DEF OtpInv, TypeOK, CodesInv, LastCodeWorks
  <1>6. ASSUME NEW d \in sent' \ raced'
        PROVE  Sole(d)'
    <2>1. CASE d = c
      BY <1>1, <2>1 DEF OtpInv, TypeOK, CodesInv, Keys, Sole, Past
    <2>2. CASE d # c
      BY <1>1, <2>2 DEF OtpInv, TypeOK, CodesInv, Sole, Past, Gone
    <2> QED BY <2>1, <2>2
  <1> QED BY <1>1, <1>2, <1>3, <1>4, <1>5, <1>6, AccountsQuiet DEF OtpInv, CodesInv

LEMMA OtpExpireKeeps ==
    ASSUME OtpInv, NEW p \in Phones, OtpExpire(p)
    PROVE  OtpInv'
  <1>1. /\ otp' = [otp EXCEPT ![p] = None] /\ valid' = [valid EXCEPT ![p] = None]
        /\ UNCHANGED <<account, drawn, req, sent, met, raced, opened>>
    BY DEF OtpExpire
  <1>2. TypeOK'
    BY <1>1 DEF OtpInv, TypeOK
  <1>3. Keys'
    BY <1>1 DEF OtpInv, TypeOK, CodesInv, Keys
  <1>4. Overtakes'
    BY <1>1, VerifyingShape DEF OtpInv, TypeOK, CodesInv, Overtakes
  <1>5. LastCodeWorks'
    BY <1>1 DEF OtpInv, TypeOK, CodesInv, LastCodeWorks
  <1>6. ASSUME NEW d \in sent \ raced
        PROVE  Sole(d)'
    BY <1>1, OtpAssumption DEF OtpInv, TypeOK, CodesInv, Sole, Past, Gone
  <1> QED BY <1>1, <1>2, <1>3, <1>4, <1>5, <1>6, AccountsQuiet DEF OtpInv, CodesInv

\* A code that is in Redis has been used by nobody; the first who reads it is alone
\* with it until somebody else does.
LEMMA ReadOtpKeeps ==
    ASSUME OtpInv, NEW r \in Requests, NEW p \in Phones, NEW c \in sent, ReadOtp(r, p, c)
    PROVE  OtpInv'
  <1> DEFINE n == [Idle EXCEPT !.op = "verify", !.pc = "delete", !.phone = p, !.code = c]
  <1>1. /\ otp[p] = c /\ req[r] = Idle /\ req' = [req EXCEPT ![r] = n]
        /\ raced' = IF Contends(c) THEN raced \cup {c} ELSE raced
        /\ valid' = [valid EXCEPT ![p] = IF valid[p] = c THEN None ELSE valid[p]]
        /\ UNCHANGED <<otp, account, drawn, sent, met, opened>>
    BY DEF ReadOtp, Accept, Start, OtpInv, TypeOK
  <1>2. c \in Codes /\ c # None
    BY OtpAssumption DEF OtpInv, TypeOK
  <1>3. n \in Request /\ n.op = "verify" /\ n.pc = "delete" /\ n.user = None /\ ~n.new
        /\ n.code = c /\ n.phone = p
    BY <1>2 DEF Idle, Request
  <1> HIDE DEF n
  <1>4. /\ req'[r] = n
        /\ \A s \in Requests : s # r => req'[s] = req[s]
    BY <1>1 DEF OtpInv, TypeOK
  <1>5. TypeOK' /\ Shaped'
    <2>1. Shape(n)
      BY <1>2, <1>3 DEF Shape
    <2>2. TypeOK'
      BY <1>1, <1>3 DEF OtpInv, TypeOK
    <2>3. Shaped'
      BY <1>4, <2>1 DEF OtpInv, Shaped
    <2> QED BY <2>2, <2>3
  <1>6. AccountsInv'
    BY <1>1, <1>3, AccountsKeep
  <1>7. valid'[p] = None /\ \A t \in Phones : t # p => valid'[t] = valid[t]
    BY <1>1, <1>2 DEF OtpInv, TypeOK, CodesInv, Keys
  <1>8. Keys'
    BY <1>1, <1>3, <1>4, <1>7 DEF OtpInv, CodesInv, Keys
  <1>9. Overtakes'
    <2> SUFFICES ASSUME NEW s \in Requests, req'[s].op = "verify", req'[s].pc = "delete"
                 PROVE  valid'[req'[s].phone] \in met \cup {None}
      BY <1>1 DEF Overtakes
    <2>1. CASE s = r
      BY <1>3, <1>4, <1>7, <2>1
    <2>2. CASE s # r
      BY <1>4, <1>7, <2>2, VerifyingShape DEF OtpInv, CodesInv, Overtakes
    <2> QED BY <2>1, <2>2
  <1>10. LastCodeWorks'
    BY <1>1, <1>7 DEF OtpInv, CodesInv, LastCodeWorks
  <1>11. ASSUME NEW d \in sent \ raced'
         PROVE  Sole(d)'
    <2>1. Sole(d)
      BY <1>1, <1>11 DEF OtpInv, CodesInv
    <2>2. CASE d = c
      <3>1. Past(c) = {} /\ c \notin opened
        BY <1>1, <2>1, <2>2 DEF Sole, Gone
      <3>2. \A s \in Requests : req[s].code # c
        BY <1>1, <1>11, <2>2, <3>1 DEF Contends, Past
      <3> QED BY <1>1, <1>3, <1>4, <2>2, <3>1, <3>2 DEF Sole, Past, Gone
    <2>3. CASE d # c
      <3>1. \A s \in Requests : req'[s].code = d => s # r /\ req[s].code = d
        BY <1>3, <1>4, <2>3
      <3> QED BY <1>1, <1>4, <2>1, <3>1 DEF Sole, Past, Gone
    <2> QED BY <2>2, <2>3
  <1> QED BY <1>1, <1>5, <1>6, <1>8, <1>9, <1>10, <1>11 DEF OtpInv, CodesInv

\* The DEL takes the code that was read, or one sent since.
LEMMA DeleteOtpKeeps ==
    ASSUME OtpInv, NEW r \in Requests, DeleteOtp(r)
    PROVE  OtpInv'
  <1> DEFINE q == req[r]
             n == [q EXCEPT !.pc = "find"]
             p == q.phone
  <1>1. /\ q.pc = "delete" /\ otp' = [otp EXCEPT ![p] = None] /\ req' = [req EXCEPT ![r] = n]
        /\ UNCHANGED <<account, drawn, sent, valid, met, raced, opened>>
    BY DEF DeleteOtp, OtpDeleted
  <1>2. q.op = "verify" /\ ~q.new /\ p \in Phones /\ q.code \in Codes /\ q \in Request
    BY <1>1, VerifyingShape
  <1>3. n \in Request /\ n.op = "verify" /\ n.pc = "find" /\ n.user = q.user /\ ~n.new
        /\ n.code = q.code /\ n.phone = p
    BY <1>2 DEF Request
  <1>4. /\ req'[r] = n
        /\ \A s \in Requests : s # r => req'[s] = req[s]
    BY <1>1 DEF OtpInv, TypeOK
  <1> HIDE DEF n
  <1>5. TypeOK' /\ Shaped'
    <2>1. Shape(n)
      BY <1>2, <1>3 DEF Shape
    <2>2. TypeOK'
      BY <1>1, <1>3 DEF OtpInv, TypeOK
    <2>3. Shaped'
      BY <1>4, <2>1 DEF OtpInv, Shaped
    <2> QED BY <2>2, <2>3
  <1>6. AccountsInv'
    BY <1>1, <1>3, AccountsKeep
  <1>7. \A t \in Phones : otp'[t] = IF t = p THEN None ELSE otp[t]
    BY <1>1 DEF OtpInv, TypeOK
  <1>8. \A s \in Requests : req'[s].code = req[s].code /\ req'[s].phone = req[s].phone
    BY <1>3, <1>4
  <1>9. Keys'
    BY <1>1, <1>7, <1>8, OtpAssumption DEF OtpInv, TypeOK, CodesInv, Keys
  <1>10. Overtakes'
    BY <1>1, <1>3, <1>4 DEF OtpInv, CodesInv, Overtakes
  <1>11. LastCodeWorks'
    <2> SUFFICES ASSUME NEW t \in Phones, valid[t] \notin met \cup {None}
                 PROVE  otp'[t] = valid[t]
      BY <1>1 DEF LastCodeWorks
    <2>1. valid[p] \in met \cup {None}
      BY <1>1, <1>2 DEF OtpInv, CodesInv, Overtakes
    <2> QED BY <1>7, <2>1 DEF OtpInv, CodesInv, LastCodeWorks
  <1>12. ASSUME NEW d \in sent \ raced
         PROVE  Sole(d)'
    <2>1. Sole(d) /\ d # None
      BY OtpAssumption DEF OtpInv, CodesInv, TypeOK
    <2>2. CASE q.code = d
      <3>1. Gone(d)'
        BY <1>1, <1>2, <1>7, <2>1, <2>2 DEF OtpInv, CodesInv, Keys, Gone
      <3> QED BY <1>1, <1>8, <2>1, <3>1 DEF Sole, Past
    <2>3. CASE q.code # d
      <3>1. \A s \in Past(d)' : s \in Past(d)
        BY <1>4, <1>8, <2>3 DEF Past
      <3>2. Gone(d) => Gone(d)'
        BY <1>7, <2>1 DEF Gone
      <3> QED BY <1>1, <1>8, <2>1, <3>1, <3>2 DEF Sole, Past
    <2> QED BY <2>2, <2>3
  <1> QED BY <1>1, <1>5, <1>6, <1>9, <1>10, <1>11, <1>12 DEF OtpInv, CodesInv

-----------------------------------------------------------------------------
(* Rows                                                                    *)

\* What is about to be written in the row of a request.
LEMMA RowWritten ==
    ASSUME OtpInv, NEW r \in Requests, Commit(r)
    PROVE  LET q == req[r]  row == account'[q.user] IN
           /\ q \in Request /\ Shape(q) /\ q.op # "none" /\ q.user \in Users
           /\ row \in Account
           /\ row.phone = IF q.new THEN q.phone ELSE account[q.user].phone
           /\ row.status = IF q.new THEN Active
                           ELSE IF q.op = "status" THEN q.status ELSE account[q.user].status
           /\ account' = [account EXCEPT ![q.user] = row]
  <1> DEFINE q == req[r]
             row == IF q.new THEN NewRow(q.phone)
                    ELSE Written(q, account[q.user])
  <1>1. q.pc = "commit" /\ account' = [account EXCEPT ![q.user] = row]
    BY DEF Commit
  <1>2. q \in Request /\ Shape(q) /\ Fresh(r) /\ Held(r)
    BY DEF OtpInv, TypeOK, Shaped, AccountsInv
  <1>3. q.op # "none" /\ q.user \in Users
    BY <1>1, <1>2 DEF Shape, Idle, Request
  <1>4. q.new => q.phone \in Phones /\ Active \in Statuses
    BY <1>1, <1>2, OtpAssumption DEF Shape, Fresh
  <1>5. ~q.new => account[q.user] \in Account
    BY <1>1, <1>2, <1>3 DEF Held, Exists, OtpInv, TypeOK
  <1>6. /\ row \in Account
        /\ row.phone = IF q.new THEN q.phone ELSE account[q.user].phone
        /\ row.status = IF q.new THEN Active
                        ELSE IF q.op = "status" THEN q.status ELSE account[q.user].status
    <2>1. CASE q.new
      BY <1>4, <2>1 DEF Account, NewRow
    <2>2. CASE ~q.new
      BY <1>2, <1>5, <2>2 DEF Account, Written, Shape
    <2> QED BY <2>1, <2>2
  <1> HIDE DEF row
  <1>7. account'[q.user] = row
    BY <1>1, <1>3 DEF OtpInv, TypeOK
  <1> QED BY <1>1, <1>2, <1>3, <1>6, <1>7

LEMMA CommitKeeps ==
    ASSUME OtpInv, NEW r \in Requests, Commit(r)
    PROVE  OtpInv'
  <1> DEFINE q == req[r]
             w == q.user
             row == account'[w]
  <1>1. /\ q.pc = "commit" /\ req' = [req EXCEPT ![r] = Idle]
        /\ opened' = opened \cup ({q.code} \ {None})
        /\ UNCHANGED <<otp, drawn, sent, valid, met, raced>>
    BY DEF Commit
  <1>2. /\ w \in Users /\ row \in Account /\ account' = [account EXCEPT ![w] = row]
        /\ row.phone = IF q.new THEN q.phone ELSE account[w].phone
    BY RowWritten
  <1>3. row # None
    BY <1>2, OtpAssumption DEF Account
  <1>4. \A u \in Users : u # w => account'[u] = account[u]
    BY <1>2 DEF OtpInv, TypeOK
  <1> HIDE DEF row
  <1>5. /\ req'[r] = Idle
        /\ \A s \in Requests : s # r => req'[s] = req[s]
    BY <1>1 DEF OtpInv, TypeOK
  <1>6. TypeOK'
    <2>1. opened' \subseteq sent
      BY <1>1 DEF OtpInv, TypeOK, CodesInv, Keys
    <2>2. account' \in [Users -> Account \cup {None}]
      BY <1>2 DEF OtpInv, TypeOK
    <2> QED BY <1>1, <2>1, <2>2, IdleRecord DEF OtpInv, TypeOK
  <1>7. Shaped'
    BY <1>5, IdleRecord DEF OtpInv, Shaped
  <1>8. CodesInv'
    BY <1>1, IdleRecord, CodesKeep
  <1>9. Fresh(r) /\ Held(r)
    BY DEF OtpInv, AccountsInv
  <1>10. q.new \/ Exists(w)
    BY <1>1, <1>9 DEF Held
  <1>11. ASSUME NEW u \in Users, NEW p \in Phones \cup {None}
         PROVE  HasPhone(u, p)' <=> IF u = w /\ q.new THEN p = q.phone ELSE HasPhone(u, p)
    BY <1>2, <1>3, <1>4, <1>10 DEF HasPhone, Exists, row
  <1>12. ASSUME NEW s \in Requests
         PROVE  Fresh(s)'
    <2>1. CASE s = r
      BY <1>5, <2>1, IdleRecord DEF Fresh
    <2>2. CASE s # r
      <3> SUFFICES ASSUME req[s].new PROVE Fresh(s)'
        BY <1>5, <2>2 DEF Fresh
      <3>1. Fresh(s) /\ req[s].user \in Users /\ req[s].phone \in Phones \cup {None}
        BY DEF OtpInv, AccountsInv, Shaped, Shape, Fresh, TypeOK, Request
      <3>2. req[s].user # w /\ (q.new => q.phone # req[s].phone)
        BY <2>2, <3>1 DEF Fresh
      <3>3. account'[req[s].user] = None
        BY <1>4, <3>1, <3>2 DEF Fresh, Exists
      <3>4. \A u \in Users : ~HasPhone(u, req[s].phone)'
        BY <1>5, <1>11, <2>2, <3>1, <3>2 DEF Fresh, HasPhone, Exists
      <3>5. \A t \in Requests : t # s => /\ req'[t].user # req[s].user
                                         /\ req'[t].new => req'[t].phone # req[s].phone
        BY <1>5, <3>1, IdleRecord, OtpAssumption DEF Fresh
      <3> QED BY <1>5, <2>2, <3>1, <3>3, <3>4, <3>5 DEF Fresh, Exists, HasPhone
    <2> QED BY <2>1, <2>2
  <1>13. ASSUME NEW s \in Requests
         PROVE  Held(s)'
    <2>1. CASE s = r
      BY <1>5, <2>1, IdleRecord DEF Held
    <2>2. CASE s # r
      <3> SUFFICES ASSUME req[s].pc = "commit" PROVE Held(s)'
        BY <1>5, <2>2 DEF Held
      <3>1. Held(s) /\ req[s].user \in Users
        BY DEF OtpInv, AccountsInv, Shaped, Shape, Idle, TypeOK, Request
      <3>2. req[s].user # w
        BY <1>1, <1>9, <2>2 DEF Held
      <3>3. account'[req[s].user] = account[req[s].user]
        BY <1>4, <3>1, <3>2
      <3> QED BY <1>5, <2>2, <3>1, <3>3, IdleRecord DEF Held, Exists
    <2> QED BY <2>1, <2>2
  <1>14. ASSUME NEW s \in Requests
         PROVE  Found(s)'
    <2>1. CASE s = r
      BY <1>5, <2>1, IdleRecord DEF Found
    <2>2. CASE s # r
      <3> SUFFICES ASSUME req[s].op = "verify", req[s].pc \in {"update", "commit"},
                          account'[req[s].user] # None
                   PROVE  account'[req[s].user].phone = req[s].phone
        BY <1>5, <2>2 DEF Found, Exists
      <3>1. req[s].user \in Users /\ Found(s)
        BY DEF OtpInv, AccountsInv, Shaped, Shape
      <3>2. CASE req[s].user = w
        <4>1. ~q.new
          BY <1>9, <2>2, <3>2 DEF Fresh
        <4> QED BY <1>2, <1>10, <3>1, <3>2, <4>1 DEF Found, row
      <3>3. CASE req[s].user # w
        BY <1>4, <3>1, <3>3 DEF Found, Exists
      <3> QED BY <3>2, <3>3
    <2> QED BY <2>1, <2>2
  <1>15. \A s \in Requests : req'[s].user # None => req'[s].user \in drawn'
    BY <1>1, <1>5, IdleRecord DEF OtpInv, AccountsInv
  <1>16. \A u \in Users : Exists(u)' => u \in drawn'
    <2>1. w \in drawn
      BY <1>2, OtpAssumption DEF OtpInv, AccountsInv
    <2> QED BY <1>1, <1>4, <2>1 DEF OtpInv, AccountsInv, Exists
  <1>17. \A p \in Phones, u, v \in Users : HasPhone(u, p)' /\ HasPhone(v, p)' => u = v
    <2> SUFFICES ASSUME NEW p \in Phones, NEW u \in Users, NEW v \in Users,
                        HasPhone(u, p)', HasPhone(v, p)'
                 PROVE  u = v
      OBVIOUS
    <2>1. HasPhone(u, p) /\ HasPhone(v, p) => u = v
      BY DEF OtpInv, AccountsInv
    <2>2. q.new => ~HasPhone(u, q.phone) /\ ~HasPhone(v, q.phone)
      BY <1>9 DEF Fresh
    <2> QED BY <1>11, <2>1, <2>2
  <1>18. AccountsInv'
    BY <1>12, <1>13, <1>14, <1>15, <1>16, <1>17 DEF AccountsInv
  <1> QED BY <1>6, <1>7, <1>8, <1>18 DEF OtpInv

\* A row that is held is not deleted.
LEMMA DeleteUserKeeps ==
    ASSUME OtpInv, NEW u \in Users, DeleteUser(u)
    PROVE  OtpInv'
  <1>1. /\ ~RowLocked(u) /\ account' = [account EXCEPT ![u] = None]
        /\ UNCHANGED <<otp, drawn, req, sent, valid, met, raced, opened>>
    BY DEF DeleteUser
  <1>2. account'[u] = None /\ \A v \in Users : v # u => account'[v] = account[v]
    BY <1>1 DEF OtpInv, TypeOK
  <1>3. TypeOK' /\ Shaped'
    BY <1>1 DEF OtpInv, TypeOK, Shaped
  <1>4. CodesInv'
    BY <1>1 DEF OtpInv, CodesInv, Keys, Overtakes, LastCodeWorks, Sole, Past, Gone
  <1>5. \A v \in Users : Exists(v)' => Exists(v) /\ account'[v] = account[v]
    BY <1>2 DEF Exists
  <1>6. ASSUME NEW s \in Requests
        PROVE  Fresh(s)'
    BY <1>1, <1>2 DEF OtpInv, AccountsInv, Fresh, Exists, HasPhone
  <1>7. ASSUME NEW s \in Requests
        PROVE  Held(s)'
    <2>1. req[s].pc = "commit" => req[s].user \in Users /\ req[s].user # u
      BY <1>1 DEF OtpInv, Shaped, Shape, Idle, RowLocked, TypeOK, Request
    <2> QED BY <1>1, <1>2, <2>1 DEF OtpInv, AccountsInv, Held, Exists
  <1>8. ASSUME NEW s \in Requests
        PROVE  Found(s)'
    <2>1. req[s].op = "verify" /\ req[s].pc \in {"update", "commit"} => req[s].user \in Users
      BY DEF OtpInv, Shaped, Shape
    <2> QED BY <1>1, <1>2, <2>1 DEF OtpInv, AccountsInv, Found, Exists
  <1>9. AccountsInv'
    BY <1>1, <1>2, <1>6, <1>7, <1>8 DEF OtpInv, AccountsInv, Exists, HasPhone
  <1> QED BY <1>3, <1>4, <1>9 DEF OtpInv

-----------------------------------------------------------------------------
(* Induction                                                               *)

LEMMA OtpInit == Init => OtpInv
  <1> SUFFICES ASSUME Init PROVE OtpInv
    OBVIOUS
  <1>1. \A r \in Requests : req[r] = Idle
    BY DEF Init
  <1>2. TypeOK
    BY IdleRecord DEF Init, TypeOK
  <1>3. Shaped
    BY <1>1, IdleRecord DEF Shaped
  <1>4. CodesInv
    BY <1>1, IdleRecord DEF Init, CodesInv, Keys, Overtakes, LastCodeWorks
  <1>5. AccountsInv
    BY <1>1, IdleRecord DEF Init, AccountsInv, Fresh, Held, Found, Exists, HasPhone
  <1> QED BY <1>2, <1>3, <1>4, <1>5 DEF OtpInv

LEMMA OtpQuiet ==
    ASSUME OtpInv, UNCHANGED vars
    PROVE  OtpInv'
  <1>1. TypeOK'
    BY DEF OtpInv, TypeOK, vars
  <1>2. CodesInv'
    BY DEF OtpInv, CodesInv, Keys, Overtakes, LastCodeWorks, Sole, Past, Gone, vars
  <1> QED BY <1>1, <1>2, AccountsQuiet DEF OtpInv, vars

LEMMA OtpNext == OtpInv /\ [Next]_vars => OtpInv'
  <1> SUFFICES ASSUME OtpInv, Next PROVE OtpInv'
    BY OtpQuiet
  <1>1. ASSUME NEW r \in Requests, Begin(r)
        PROVE  OtpInv'
    BY <1>1, ReadOtpKeeps, ProfileLoadKeeps, StatusLoadKeeps DEF Begin
  <1>2. ASSUME NEW r \in Requests, Step(r)
        PROVE  OtpInv'
    BY <1>2, DeleteOtpKeeps, FindUserKeeps, InsertUserKeeps, UpdateUserKeeps, CommitKeeps DEF Step
  <1>3. ASSUME NEW r \in Requests, Abort(r)
        PROVE  OtpInv'
    BY <1>3, AbortKeeps
  <1>4. ASSUME NEW p \in Phones, OtpExpire(p) \/ \E c \in Codes : RequestOtp(p, c)
        PROVE  OtpInv'
    BY <1>4, OtpExpireKeeps, RequestOtpKeeps
  <1>5. ASSUME NEW u \in Users, DeleteUser(u)
        PROVE  OtpInv'
    BY <1>5, DeleteUserKeeps
  <1> QED BY <1>1, <1>2, <1>3, <1>4, <1>5 DEF Next

LEMMA OtpAlways == Spec => []OtpInv
  BY OtpInit, OtpNext, PTL DEF Spec

\* The steps that write rows.
LEMMA RowWriters ==
    Next => \/ UNCHANGED account
            \/ \E r \in Requests : Commit(r)
            \/ \E u \in Users : DeleteUser(u)
  BY DEF Next, Begin, Step, ReadOtp, Accept, Start, ProfileLoad, StatusLoad, DeleteOtp, FindUser,
         InsertUser, UpdateUser, Abort, OtpExpire, RequestOtp

-----------------------------------------------------------------------------
(* Theorems                                                                *)

\* Redis, the rows and the requests under way are what the handlers of auth.py and
\* mobile_users.py make them.
THEOREM OtpTypeCorrect == Spec => []TypeOK
  <1>1. OtpInv => TypeOK
    BY DEF OtpInv
  <1> QED BY <1>1, OtpAlways, PTL

\* verify_otp: however many verifications, requests for codes and expiries overlap, a
\* code that was not read twice before its DEL opens at most one session.
THEOREM OtpCodeOpensOneSession == Spec => []CodeOpensOneSession
  <1>1. ASSUME OtpInv, NEW c \in sent \ raced
        PROVE  Cardinality(Past(c)) + (IF c \in opened THEN 1 ELSE 0) <= 1
    <2>1. Sole(c)
      BY <1>1 DEF OtpInv, CodesInv
    <2>2. CASE Past(c) = {}
      BY <2>2, FS_EmptySet
    <2>3. CASE Past(c) # {}
      <3>1. PICK r \in Past(c) : TRUE
        BY <2>3
      <3>2. Past(c) = {r} /\ c \notin opened
        BY <2>1, <3>1 DEF Sole, Past
      <3>3. Cardinality({r}) = 1
        BY FS_Singleton
      <3> QED BY <3>2, <3>3
    <2> QED BY <2>2, <2>3
  <1>2. OtpInv => CodeOpensOneSession
    BY <1>1 DEF CodeOpensOneSession
  <1> QED BY <1>2, OtpAlways, PTL

\* OTPStorage: the code sent last stays in Redis until it is read or expires, unless
\* the DEL of an earlier verification came after it.
THEOREM OtpLastCodeWorks == Spec => []LastCodeWorks
  <1>1. OtpInv => LastCodeWorks
    BY DEF OtpInv, CodesInv
  <1> QED BY <1>1, OtpAlways, PTL

\* verify_otp: no session is answered for an account that was deleted, or for the
\* account of another number.
THEOREM OtpSessionHasAccount == Spec => []SessionHasAccount
  <1>1. OtpInv => SessionHasAccount
    BY DEF OtpInv, AccountsInv, SessionHasAccount, Held, Found, HasPhone
  <1> QED BY <1>1, OtpAlways, PTL

\* get_by_phone finds one row or none, however first logins of one number overlap.
THEOREM OtpOneAccountPerPhone == Spec => []OneAccountPerPhone
  <1>1. ASSUME OtpInv, NEW p \in Phones
        PROVE  Cardinality({u \in Users : HasPhone(u, p)}) <= 1
    <2> DEFINE S == {u \in Users : HasPhone(u, p)}
    <2>1. CASE S = {}
      BY <2>1, FS_EmptySet
    <2>2. CASE S # {}
      <3>1. PICK u \in S : TRUE
        BY <2>2
      <3>2. S = {u}
        BY <1>1, <3>1 DEF OtpInv, AccountsInv
      <3>3. Cardinality({u}) = 1
        BY FS_Singleton
      <3> QED BY <3>2, <3>3
    <2> QED BY <2>1, <2>2
  <1>2. OtpInv => OneAccountPerPhone
    BY <1>1 DEF OneAccountPerPhone
  <1> QED BY <1>2, OtpAlways, PTL

\* update_mobile_user_status is the only writer of users.status: a login or a change
\* of profile that loaded the row before a suspension does not undo it.
THEOREM OtpStatusOnlyAsked == Spec => StatusOnlyAsked
  <1> DEFINE Asked(u) ==
        Exists(u) /\ account'[u] # None /\ account'[u].status # account[u].status =>
          \E r \in Requests : /\ req[r].op = "status" /\ req[r].user = u
                              /\ req[r].status = account'[u].status
                              /\ req'[r] = Idle
  <1>1. ASSUME OtpInv, NEW u \in Users, NEW r \in Requests, Commit(r)
        PROVE  Asked(u)
    <2> DEFINE q == req[r]
    <2>1. /\ q.user \in Users /\ account' = [account EXCEPT ![q.user] = account'[q.user]]
          /\ account'[q.user].status = IF q.new THEN Active
                                       ELSE IF q.op = "status" THEN q.status
                                       ELSE account[q.user].status
      BY <1>1, RowWritten
    <2>2. q.pc = "commit" /\ req'[r] = Idle /\ Fresh(r)
      BY <1>1 DEF Commit, OtpInv, TypeOK, AccountsInv
    <2>3. u # q.user => account'[u] = account[u]
      BY <1>1, <2>1 DEF OtpInv, TypeOK
    <2>4. Exists(u) /\ u = q.user => ~q.new
      BY <2>2 DEF Fresh
    <2> QED BY <2>1, <2>2, <2>3, <2>4
  <1>2. ASSUME OtpInv, NEW u \in Users, NEW v \in Users, DeleteUser(v)
        PROVE  Asked(u)
    BY <1>2 DEF DeleteUser, OtpInv, TypeOK
  <1>3. ASSUME NEW u \in Users, UNCHANGED account
        PROVE  Asked(u)
    BY <1>3
  <1>4. OtpInv /\ [Next]_vars => [\A u \in Users : Asked(u)]_vars
    BY <1>1, <1>2, <1>3, RowWriters DEF vars
  <1> QED BY <1>4, OtpAlways, PTL DEF Spec, StatusOnlyAsked
-----------------------------------------------------------------------------
(* What becomes of an account                                              *)

\* A row that appears is the insertion of a request.
LEMMA RowsInserted ==
    ASSUME OtpInv, [Next]_vars, NEW u \in Users, ~Exists(u), Exists(u)'
    PROVE  \E r \in Requests : req[r].new /\ req[r].user = u
  <1>1. ASSUME NEW r \in Requests, Commit(r)
        PROVE  req[r].new /\ req[r].user = u
    <2> DEFINE q == req[r]
    <2>1. account' = [account EXCEPT ![q.user] = account'[q.user]]
      BY <1>1, RowWritten
    <2>2. Held(r) /\ q.pc = "commit"
      BY <1>1 DEF Commit, OtpInv, AccountsInv
    <2>3. CASE u # q.user
      BY <2>1, <2>3 DEF OtpInv, TypeOK, Exists
    <2>4. CASE u = q.user
      BY <2>2, <2>4 DEF Held
    <2> QED BY <2>3, <2>4
  <1>2. ASSUME NEW v \in Users, DeleteUser(v)
        PROVE  account'[u] \in {account[u], None}
    BY <1>2 DEF DeleteUser, OtpInv, TypeOK
  <1>3. CASE UNCHANGED vars
    BY <1>3 DEF vars, Exists
  <1> QED BY <1>1, <1>2, <1>3, RowWriters DEF Exists

\* The user is known: no insertion under way can make the row.
Known(u) == u \in drawn /\ \A r \in Requests : req[r].new => req[r].user # u

LEMMA KnownStays ==
    ASSUME OtpInv, [Next]_vars, NEW u \in Users, Known(u)
    PROVE  Known(u)'
  <1>1. CASE \E r \in Requests : InsertUser(r)
    <2>1. PICK r \in Requests : InsertUser(r)
      BY <1>1
    <2>2. PICK v \in Users \ drawn :
            /\ req' = [req EXCEPT ![r].pc = "commit", ![r].user = v, ![r].new = TRUE]
            /\ drawn' = drawn \cup {v}
      BY <2>1 DEF InsertUser
    <2>3. /\ req'[r].user = v
          /\ \A s \in Requests : s # r => req'[s] = req[s]
      BY <2>2 DEF OtpInv, TypeOK, Request
    <2> QED BY <2>2, <2>3 DEF Known
  <1>2. CASE ~\E r \in Requests : InsertUser(r)
    <2>1. drawn' = drawn
      BY <1>2 DEF Next, Begin, Step, ReadOtp, Accept, Start, ProfileLoad, StatusLoad, DeleteOtp,
         FindUser, UpdateUser, Commit, Abort, OtpExpire, RequestOtp, DeleteUser, vars
    <2>2. ASSUME NEW s \in Requests, req'[s] # req[s]
          PROVE  ~req'[s].new
      <3>1. CASE \E r \in Requests : Begin(r)
        <4>1. PICK r \in Requests : Begin(r)
          BY <3>1
        <4>2. \E q : ~q.new /\ req' = [req EXCEPT ![r] = q]
          BY <4>1 DEF Begin, ReadOtp, Accept, ProfileLoad, StatusLoad, Start, Idle
        <4> QED BY <2>2, <4>2 DEF OtpInv, TypeOK
      <3>2. CASE \E r \in Requests : DeleteOtp(r) \/ FindUser(r) \/ UpdateUser(r)
        <4>1. PICK r \in Requests : DeleteOtp(r) \/ FindUser(r) \/ UpdateUser(r)
          BY <3>2
        <4>2. req[r].pc \in {"delete", "find", "update"}
          BY <4>1 DEF DeleteOtp, FindUser, UpdateUser
        <4>3. ~req[r].new
          BY <4>2 DEF OtpInv, AccountsInv, Fresh
        <4>4. \A t \in Requests : t # r => req'[t] = req[t]
          BY <4>1 DEF DeleteOtp, FindUser, UpdateUser, OtpInv, TypeOK
        <4>5. req'[r].new = req[r].new
          <5>1. req[r] \in Request
            BY DEF OtpInv, TypeOK
          <5>2. CASE DeleteOtp(r) \/ UpdateUser(r)
            BY <5>1, <5>2 DEF DeleteOtp, UpdateUser, OtpInv, TypeOK, Request
          <5>3. CASE FindUser(r)
            <6>1. \E q : q.new = req[r].new /\ req' = [req EXCEPT ![r] = q]
              BY <5>1, <5>3 DEF FindUser, Request
            <6> QED BY <6>1 DEF OtpInv, TypeOK
          <5> QED BY <4>1, <5>2, <5>3
        <4> QED BY <2>2, <4>3, <4>4, <4>5
      <3>3. CASE \E r \in Requests : Commit(r) \/ Abort(r)
        BY <2>2, <3>3 DEF Commit, Abort, Idle, OtpInv, TypeOK
      <3>4. CASE UNCHANGED req
        BY <2>2, <3>4
      <3> QED BY <1>2, <3>1, <3>2, <3>3, <3>4 DEF Next, Step, OtpExpire, RequestOtp, DeleteUser, vars
    <2> QED BY <2>1, <2>2 DEF Known
  <1> QED BY <1>1, <1>2

\* Once the row was there and is not, it is not again.
StaysDeleted(u) == [](Exists(u) => [](~Exists(u) => []~Exists(u)))

\* delete_mobile_user is final: no verification, change of status or change of profile
\* that had loaded the user writes the row back, and no insertion takes its id.
THEOREM OtpDeletionIsFinal == Spec => \A u \in Users : StaysDeleted(u)
  <1> SUFFICES ASSUME NEW u \in Users PROVE Spec => StaysDeleted(u)
    OBVIOUS
  <1>1. OtpInv /\ Exists(u) => Known(u)
    BY DEF OtpInv, AccountsInv, Fresh, Known
  <1>2. OtpInv /\ [Next]_vars /\ Known(u) => Known(u)'
    BY KnownStays
  <1>3. OtpInv /\ [Next]_vars /\ Known(u) /\ ~Exists(u) => ~Exists(u)'
    BY RowsInserted DEF Known
  <1> QED BY <1>1, <1>2, <1>3, OtpAlways, PTL DEF Spec, StaysDeleted
-----------------------------------------------------------------------------
(* Every request ends                                                      *)

\* A request runs on, or fails where it can only fail: the unique index refuses a second
\* row of a number, and a row that has gone is not updated.
MustFail(r) ==
    \/ req[r].pc = "insert" /\ \E u \in Users : HasPhone(u, req[r].phone)
    \/ req[r].pc = "update" /\ ~Exists(req[r].user)

Fails(r) == MustFail(r) /\ Abort(r)

\* tlapm proves nothing of WF, SF and ENABLED, so fairness is stated with the guard of
\* each action where WF and SF say ENABLED.  Granted(r) is when InsertUser(r) or
\* UpdateUser(r) can be taken, Ready(r) when Step(r) or Fails(r) can.
IdLeft == Users \ drawn # {}

Granted(r) ==
    \/ req[r].pc = "insert" /\ Unique(req[r].phone) /\ IdLeft
    \/ req[r].pc = "update" /\ Exists(req[r].user) /\ ~RowLocked(req[r].user)

Ready(r) == req[r].pc \in {"delete", "find", "commit"} \/ MustFail(r) \/ Granted(r)

\* WF_vars(Step(r) \/ Fails(r)) and SF_vars(InsertUser(r) \/ UpdateUser(r)): the event
\* loop runs every request, and PostgreSQL serves those that wait in turn.
Runs(r) == []<>~Ready(r) \/ []<><<Step(r) \/ Fails(r)>>_vars
Turn(r) == <>[]~Granted(r) \/ []<><<InsertUser(r) \/ UpdateUser(r)>>_vars

Fair    == \A r \in Requests : Runs(r) /\ Turn(r)
Service == []Fair

\* The ids of users are random and do not run out.
IdsLast == []IdLeft

RequestsEnd == \A r \in Requests : req[r].pc # "idle" ~> req[r].pc = "idle"

\* A behaviour of the specification under these, seen from any moment on.
Always == []OtpInv /\ [][Next]_vars /\ Service /\ IdsLast

At(r, c) == req[r].pc = c
Ended(r) == req[r].pc = "idle"

LEMMA SpecAlways == Spec /\ Service /\ IdsLast => Always
  BY OtpAlways, PTL DEF Spec, Always

LEMMA AlwaysAlways == Always => []Always
  BY PTL DEF Always, Service, IdsLast

LEMMA Served == ASSUME NEW s \in Requests PROVE Service => Runs(s) /\ Turn(s)
  <1>1. Fair => Runs(s) /\ Turn(s)
    BY DEF Fair
  <1> QED BY <1>1, PTL DEF Service

\* Where each step takes its request.
LEMMA StepGoes ==
    ASSUME OtpInv, NEW r \in Requests, Step(r)
    PROVE  \/ At(r, "delete") /\ At(r, "find")'
           \/ At(r, "find") /\ (At(r, "insert") \/ At(r, "update"))'
           \/ (At(r, "insert") \/ At(r, "update")) /\ At(r, "commit")'
           \/ At(r, "commit") /\ Ended(r)'
  <1>1. req \in [Requests -> Request]
    BY DEF OtpInv, TypeOK
  <1>2. CASE DeleteOtp(r)
    BY <1>1, <1>2 DEF DeleteOtp, At, Request
  <1>3. CASE FindUser(r)
    <2>1. CASE req' = [req EXCEPT ![r].pc = "insert"]
      BY <1>1, <1>3, <2>1 DEF FindUser, At, Request
    <2>2. ASSUME NEW u \in Users,
                 req' = [req EXCEPT ![r].pc = "update", ![r].user = u, ![r].seen = account[u]]
          PROVE  At(r, "update")'
      BY <1>1, <2>2 DEF At, Request
    <2> QED BY <1>3, <2>1, <2>2 DEF FindUser, At
  <1>4. CASE InsertUser(r)
    BY <1>1, <1>4 DEF InsertUser, At, Request
  <1>5. CASE UpdateUser(r)
    BY <1>1, <1>5 DEF UpdateUser, At, Request
  <1>6. CASE Commit(r)
    BY <1>1, <1>6 DEF Commit, At, Ended, Idle
  <1> QED BY <1>2, <1>3, <1>4, <1>5, <1>6 DEF Step

\* One request changes in a step: one that was idle, or the one that steps or fails.
LEMMA OneMoves ==
    ASSUME OtpInv, [Next]_vars
    PROVE  \/ req' = req
           \/ \E s \in Requests : \E q : /\ req' = [req EXCEPT ![s] = q]
                                         /\ Ended(s) \/ Step(s) \/ q = Idle
  <1>1. ASSUME NEW s \in Requests, Begin(s)
        PROVE  \E q : req' = [req EXCEPT ![s] = q] /\ Ended(s)
    <2>1. req[s] = Idle /\ \E q : req' = [req EXCEPT ![s] = q]
      BY <1>1 DEF Begin, ReadOtp, Accept, ProfileLoad, StatusLoad, Start
    <2> QED BY <2>1, IdleRecord DEF Ended
  <1>2. ASSUME NEW s \in Requests, Step(s) \/ Abort(s)
        PROVE  \E q : req' = [req EXCEPT ![s] = q] /\ (Step(s) \/ q = Idle)
    <2>1. CASE FindUser(s) \/ InsertUser(s)
      BY <2>1 DEF FindUser, InsertUser, Step
    <2>2. CASE DeleteOtp(s) \/ UpdateUser(s) \/ Commit(s) \/ Abort(s)
      BY <2>2 DEF DeleteOtp, UpdateUser, Commit, Abort, Step
    <2> QED BY <1>2, <2>1, <2>2 DEF Step
  <1>3. ASSUME \/ \E p \in Phones : OtpExpire(p) \/ \E c \in Codes : RequestOtp(p, c)
               \/ \E u \in Users : DeleteUser(u)
               \/ UNCHANGED vars
        PROVE  req' = req
    BY <1>3 DEF OtpExpire, RequestOtp, DeleteUser, vars
  <1> QED BY <1>1, <1>2, <1>3 DEF Next

\* A request in progress stays as it is, takes its step or is over.
LEMMA Progress ==
    ASSUME OtpInv, NEW r \in Requests, [Next]_vars, ~Ended(r)
    PROVE  req'[r] = req[r] \/ Step(r) \/ Ended(r)'
  <1>1. req \in [Requests -> Request]
    BY DEF OtpInv, TypeOK
  <1>2. CASE req' = req
    BY <1>2
  <1>3. ASSUME NEW s \in Requests, NEW q, req' = [req EXCEPT ![s] = q],
               Ended(s) \/ Step(s) \/ q = Idle
        PROVE  req'[r] = req[r] \/ Step(r) \/ Ended(r)'
    BY <1>1, <1>3, IdleRecord DEF Ended
  <1> QED BY <1>2, <1>3, OneMoves

\* What a request that was idle becomes is its beginning.
LEMMA StartsFromIdle ==
    ASSUME OtpInv, NEW r \in Requests, [Next]_vars, Ended(r), req'[r] # req[r]
    PROVE  ~req'[r].new
  <1>1. req \in [Requests -> Request] /\ req[r].pc = "idle"
    BY DEF OtpInv, TypeOK, Ended
  <1>2. ASSUME NEW s \in Requests, Step(s) \/ Abort(s) PROVE req'[r] = req[r]
    <2>1. req[s] # req[r]
      <3>1. req[r] = Idle
        BY <1>1 DEF OtpInv, TypeOK, Shaped, Shape, Request
      <3>2. Step(s) => req[s].pc # "idle"
        BY StepGoes DEF At
      <3> QED BY <1>1, <1>2, <3>1, <3>2 DEF Abort
    <2>2. \E q : req' = [req EXCEPT ![s] = q]
      BY <1>2 DEF Step, DeleteOtp, FindUser, InsertUser, UpdateUser, Commit, Abort
    <2> QED BY <1>1, <2>1, <2>2
  <1>3. ASSUME NEW s \in Requests, Begin(s)
        PROVE  \E q : ~q.new /\ req' = [req EXCEPT ![s] = q]
    BY <1>3 DEF Begin, ReadOtp, Accept, ProfileLoad, StatusLoad, Start, Idle
  <1>4. ASSUME \/ \E p \in Phones : OtpExpire(p) \/ \E c \in Codes : RequestOtp(p, c)
               \/ \E u \in Users : DeleteUser(u)
               \/ UNCHANGED vars
        PROVE  req' = req
    BY <1>4 DEF OtpExpire, RequestOtp, DeleteUser, vars
  <1>5. PICK s \in Requests : Begin(s)
    BY <1>2, <1>4 DEF Next
  <1> QED BY <1>1, <1>3, <1>5

\* No step moves two requests.
LEMMA Lone ==
    ASSUME OtpInv, NEW r \in Requests, NEW s \in Requests, r # s, [Next]_vars, req'[s] # req[s]
    PROVE  req'[r] = req[r]
  <1>1. req \in [Requests -> Request]
    BY DEF OtpInv, TypeOK
  <1> QED BY <1>1, OneMoves

\* A request leaves every stage but the waits for the index and for the row by itself.
Moving == {"delete", "find", "commit"}

Passes(r, c) == At(r, c) ~> ~At(r, c)

\* Either way, a step or a certain failure takes a request elsewhere.
LEMMA StepLeaves ==
    ASSUME OtpInv, NEW r \in Requests, Step(r) \/ Fails(r), NEW c, c # "idle", At(r, c)
    PROVE  ~At(r, c)'
  <1>1. Fails(r) => Ended(r)'
    BY IdleRecord DEF Fails, Abort, OtpInv, TypeOK, Ended
  <1> QED BY <1>1, StepGoes DEF At, Ended

LEMMA StageEnds ==
    ASSUME NEW r \in Requests, NEW c \in Moving
    PROVE  Always => Passes(r, c)
  <1>1. At(r, c) => Ready(r)
    BY DEF At, Ready, Moving
  <1>2. OtpInv /\ At(r, c) /\ <<Step(r) \/ Fails(r)>>_vars => ~At(r, c)'
    BY StepLeaves DEF Moving
  <1>3. Service => Runs(r)
    BY Served
  <1> QED BY <1>1, <1>2, <1>3, PTL DEF Always, Runs, Passes

\* What may come after a stage.
LEMMA StageGoes ==
    ASSUME NEW r \in Requests
    PROVE  /\ OtpInv /\ [Next]_vars /\ At(r, "delete")
                => (At(r, "delete") \/ At(r, "find") \/ Ended(r))'
           /\ OtpInv /\ [Next]_vars /\ At(r, "find")
                => (At(r, "find") \/ At(r, "insert") \/ At(r, "update") \/ Ended(r))'
           /\ OtpInv /\ [Next]_vars /\ At(r, "insert")
                => (At(r, "insert") \/ At(r, "commit") \/ Ended(r))'
           /\ OtpInv /\ [Next]_vars /\ At(r, "update")
                => (At(r, "update") \/ At(r, "commit") \/ Ended(r))'
           /\ OtpInv /\ [Next]_vars /\ At(r, "commit") => (At(r, "commit") \/ Ended(r))'
  <1>1. ASSUME OtpInv, [Next]_vars, ~Ended(r)
        PROVE  req'[r] = req[r] \/ Step(r) \/ Ended(r)'
    BY <1>1, Progress
  <1> QED BY <1>1, StepGoes DEF At, Ended

\* What is written is committed or rolled back without waiting.
Finishes(r) == At(r, "commit") ~> Ended(r)

LEMMA CommitEnds == ASSUME NEW r \in Requests PROVE Always => Finishes(r)
  <1>1. Always => Passes(r, "commit")
    BY StageEnds DEF Moving
  <1>2. OtpInv /\ [Next]_vars /\ At(r, "commit") => At(r, "commit")' \/ Ended(r)'
    BY StageGoes
  <1> QED BY <1>1, <1>2, PTL DEF Always, Passes, Finishes

-----------------------------------------------------------------------------
(* The row                                                                 *)

HoldsRow(s, u) == req[s].pc = "commit" /\ req[s].user = u
FreedRow(u)    == RowLocked(u) ~> ~RowLocked(u)

\* A row has one holder, which waits for nothing.
LEMMA RowsAreReleased == ASSUME NEW u \in Users PROVE Always => FreedRow(u)
  <1>1. ASSUME NEW s \in Requests PROVE Always => (HoldsRow(s, u) => <>~RowLocked(u))
    <2>1. OtpInv /\ [Next]_vars /\ HoldsRow(s, u) => HoldsRow(s, u)' \/ ~RowLocked(u)'
      <3> SUFFICES ASSUME OtpInv, [Next]_vars, HoldsRow(s, u), RowLocked(u)'
                   PROVE  HoldsRow(s, u)'
        OBVIOUS
      <3>1. PICK p \in Requests : req'[p].pc = "commit" /\ req'[p].user = u
        BY DEF RowLocked
      <3>2. req'[s] = req[s] \/ Ended(s)'
        BY Progress, StepGoes DEF HoldsRow, At, Ended
      <3>3. ASSUME p # s, Ended(s)' PROVE FALSE
        <4>1. req'[p] = req[p]
          BY <3>3, Lone DEF HoldsRow, Ended
        <4> QED BY <3>1, <3>3, <4>1 DEF OtpInv, AccountsInv, Held, HoldsRow
      <3> QED BY <3>1, <3>2, <3>3 DEF HoldsRow, Ended
    <2>2. HoldsRow(s, u) => At(s, "commit")
      BY DEF HoldsRow, At
    <2>3. Ended(s) => ~HoldsRow(s, u)
      BY DEF Ended, HoldsRow
    <2>4. Always => Finishes(s)
      BY CommitEnds
    <2> QED BY <2>1, <2>2, <2>3, <2>4, PTL DEF Always, Finishes
  <1>2. Always => (RowLocked(u) => <>~RowLocked(u))
    BY <1>1 DEF RowLocked, HoldsRow
  <1> QED BY <1>2, AlwaysAlways, PTL DEF FreedRow

WaitsRow(r, u) == req[r].pc = "update" /\ req[r].user = u

\* Who waits for a row is served in turn, or finds it gone for good.
LEMMA RowWaitEnds ==
    ASSUME NEW r \in Requests, NEW u \in Users
    PROVE  Always => (WaitsRow(r, u) => <>(At(r, "commit") \/ Ended(r)))
  <1>1. OtpInv /\ [Next]_vars /\ WaitsRow(r, u)
          => WaitsRow(r, u)' \/ At(r, "commit")' \/ Ended(r)'
    <2> SUFFICES ASSUME OtpInv, [Next]_vars, WaitsRow(r, u)
                 PROVE  WaitsRow(r, u)' \/ At(r, "commit")' \/ Ended(r)'
      OBVIOUS
    <2>1. req'[r] = req[r] \/ Step(r) \/ Ended(r)'
      BY Progress DEF WaitsRow, Ended
    <2>2. Step(r) => At(r, "commit")'
      BY StepGoes DEF WaitsRow, At
    <2> QED BY <2>1, <2>2 DEF WaitsRow
  <1>2. OtpInv /\ [Next]_vars /\ WaitsRow(r, u) /\ ~Exists(u) => ~Exists(u)'
    <2> SUFFICES ASSUME OtpInv, [Next]_vars, WaitsRow(r, u), ~Exists(u), Exists(u)' PROVE FALSE
      OBVIOUS
    <2>1. PICK s \in Requests : req[s].new /\ req[s].user = u
      BY RowsInserted
    <2>2. Fresh(s) /\ s # r
      BY <2>1 DEF OtpInv, AccountsInv, Fresh, WaitsRow
    <2> QED BY <2>1, <2>2 DEF Fresh, WaitsRow
  <1>3. WaitsRow(r, u) /\ ~Exists(u) => Ready(r)
    BY DEF WaitsRow, Ready, MustFail
  <1>4. WaitsRow(r, u) /\ Exists(u) /\ ~RowLocked(u) => Granted(r)
    BY DEF WaitsRow, Granted
  <1>5. OtpInv /\ WaitsRow(r, u) /\ <<Step(r) \/ Fails(r)>>_vars => ~WaitsRow(r, u)'
    BY StepLeaves DEF WaitsRow, At
  <1>6. OtpInv /\ WaitsRow(r, u) /\ <<InsertUser(r) \/ UpdateUser(r)>>_vars => ~WaitsRow(r, u)'
    BY StepLeaves DEF WaitsRow, At, Step
  <1>7. Always => FreedRow(u)
    BY RowsAreReleased
  <1>8. Service => Runs(r) /\ Turn(r)
    BY Served
  <1> QED
    BY <1>1, <1>2, <1>3, <1>4, <1>5, <1>6, <1>7, <1>8, PTL DEF Always, FreedRow, Runs, Turn

-----------------------------------------------------------------------------
(* The number                                                              *)

\* A row of the number is inserted and not yet committed, or committed.
Pending(p)     == \E s \in Requests : req[s].new /\ req[s].phone = p
Taken(p)       == \E u \in Users : HasPhone(u, p)
Inserts(s, p)  == req[s].new /\ req[s].phone = p
FreedNumber(p) == Pending(p) ~> ~Pending(p)

\* One request inserts a row of a number at a time, and waits for nothing.
LEMMA NumbersAreReleased == ASSUME NEW p \in Phones PROVE Always => FreedNumber(p)
  <1>1. ASSUME NEW s \in Requests PROVE Always => (Inserts(s, p) => <>~Pending(p))
    <2>1. OtpInv /\ Inserts(s, p) => At(s, "commit")
      BY DEF OtpInv, AccountsInv, Fresh, Inserts, At
    <2>2. OtpInv /\ [Next]_vars /\ Inserts(s, p) => Inserts(s, p)' \/ ~Pending(p)'
      <3> SUFFICES ASSUME OtpInv, [Next]_vars, Inserts(s, p), Pending(p)'
                   PROVE  Inserts(s, p)'
        OBVIOUS
      <3>1. PICK t \in Requests : req'[t].new /\ req'[t].phone = p
        BY DEF Pending
      <3>2. req'[s] = req[s] \/ Ended(s)'
        BY <2>1, Progress, StepGoes DEF At, Ended
      <3>3. Ended(s)' => ~req'[s].new /\ req'[s] # req[s]
        BY <2>1, OtpNext DEF OtpInv, AccountsInv, Fresh, Ended, At
      <3>4. ASSUME t # s, Ended(s)' PROVE FALSE
        <4>1. req'[t] = req[t]
          BY <3>3, <3>4, Lone
        <4> QED BY <3>1, <3>4, <4>1 DEF OtpInv, AccountsInv, Fresh, Inserts
      <3> QED BY <3>1, <3>2, <3>3, <3>4 DEF Inserts
    <2>3. OtpInv /\ Ended(s) => ~Inserts(s, p)
      BY <2>1 DEF Ended, At
    <2>4. Always => Finishes(s)
      BY CommitEnds
    <2> QED BY <2>1, <2>2, <2>3, <2>4, PTL DEF Always, Finishes
  <1>2. Always => (Pending(p) => <>~Pending(p))
    BY <1>1 DEF Pending, Inserts
  <1> QED BY <1>2, AlwaysAlways, PTL DEF FreedNumber

WaitsNumber(r, p) == req[r].pc = "insert" /\ req[r].phone = p

\* Who could begin to insert a row of the number could have been the one that waits.
LEMMA OthersInsert ==
    ASSUME OtpInv, [Next]_vars, NEW r \in Requests, NEW p \in Phones, WaitsNumber(r, p),
           ~Pending(p), IdLeft, ~Granted(r)
    PROVE  ~Pending(p)'
  <1> SUFFICES ASSUME NEW s \in Requests, Inserts(s, p)' PROVE FALSE
    BY DEF Pending, Inserts
  <1>1. OtpInv'
    BY OtpNext
  <1>2. At(s, "commit")' /\ ~Inserts(s, p) /\ req'[s] # req[s]
    BY <1>1 DEF OtpInv, AccountsInv, Fresh, Inserts, Pending, At
  <1>3. ~InsertUser(s)
    <2> SUFFICES ASSUME InsertUser(s) PROVE FALSE
      OBVIOUS
    <2>1. req'[s].phone = req[s].phone
      BY DEF InsertUser, OtpInv, TypeOK, Request
    <2>2. Unique(p)
      BY <2>1 DEF InsertUser, Inserts
    <2> QED BY <2>2 DEF Granted, WaitsNumber
  <1>4. PICK t \in Requests : \E q : /\ req' = [req EXCEPT ![t] = q]
                                     /\ Ended(t) \/ Step(t) \/ q = Idle
    BY <1>2, OneMoves
  <1>5. t = s /\ (Ended(s) \/ Step(s))
    BY <1>2, <1>4, IdleRecord DEF OtpInv, TypeOK, At
  <1>6. CASE Step(s)
    <2>1. req[s].pc = "update"
      BY <1>2, <1>3, <1>6, StepGoes DEF Step, At, Ended, DeleteOtp, FindUser, UpdateUser, Commit
    <2>2. UpdateUser(s) /\ ~req[s].new
      BY <1>6, <2>1 DEF Step, DeleteOtp, FindUser, InsertUser, Commit, OtpInv, AccountsInv, Fresh
    <2>3. req'[s].new = req[s].new
      BY <2>2 DEF UpdateUser, OtpInv, TypeOK, Request
    <2> QED BY <2>2, <2>3 DEF Inserts
  <1>7. CASE ~Step(s)
    <2>1. Ended(s)
      BY <1>4, <1>5, <1>7
    <2> QED BY <1>2, <2>1, StartsFromIdle DEF Inserts
  <1> QED BY <1>6, <1>7

\* Who waits for the index gets the number in turn, or is refused.
LEMMA NumberWaitEnds ==
    ASSUME NEW r \in Requests, NEW p \in Phones
    PROVE  Always => (WaitsNumber(r, p) => <>(At(r, "commit") \/ Ended(r)))
  <1>1. OtpInv /\ [Next]_vars /\ WaitsNumber(r, p)
          => WaitsNumber(r, p)' \/ At(r, "commit")' \/ Ended(r)'
    <2> SUFFICES ASSUME OtpInv, [Next]_vars, WaitsNumber(r, p)
                 PROVE  WaitsNumber(r, p)' \/ At(r, "commit")' \/ Ended(r)'
      OBVIOUS
    <2>1. req'[r] = req[r] \/ Step(r) \/ Ended(r)'
      BY Progress DEF WaitsNumber, Ended
    <2>2. Step(r) => At(r, "commit")'
      BY StepGoes DEF WaitsNumber, At
    <2> QED BY <2>1, <2>2 DEF WaitsNumber
  <1>2. OtpInv /\ [Next]_vars /\ WaitsNumber(r, p) /\ ~Pending(p) /\ IdLeft
          => ~Pending(p)' \/ Granted(r)
    BY OthersInsert
  <1>3. WaitsNumber(r, p) /\ ~Pending(p) /\ IdLeft => Ready(r)
    BY DEF WaitsNumber, Pending, Ready, MustFail, Granted, Unique
  <1>4. OtpInv /\ WaitsNumber(r, p) /\ <<Step(r) \/ Fails(r)>>_vars => ~WaitsNumber(r, p)'
    BY StepLeaves DEF WaitsNumber, At
  <1>5. OtpInv /\ WaitsNumber(r, p) /\ <<InsertUser(r) \/ UpdateUser(r)>>_vars
          => ~WaitsNumber(r, p)'
    BY StepLeaves DEF WaitsNumber, At, Step
  <1>6. Always => FreedNumber(p)
    BY NumbersAreReleased
  <1>7. Service => Runs(r) /\ Turn(r)
    BY Served
  <1> QED
    BY <1>1, <1>2, <1>3, <1>4, <1>5, <1>6, <1>7, PTL
       DEF Always, IdsLast, FreedNumber, Runs, Turn

\* Every request ends: a first login that waits for another of its number, and a login,
\* suspension or change of profile that waits for a row another holds, are served in turn
\* or fail.  No two wait for each other: who holds a row or a number waits for nothing.
THEOREM OtpRequestsEnd == Spec /\ Service /\ IdsLast => RequestsEnd
  <1> SUFFICES ASSUME NEW r \in Requests
               PROVE  Spec /\ Service /\ IdsLast => (req[r].pc # "idle" ~> req[r].pc = "idle")
    BY DEF RequestsEnd
  <1>1. Always => (At(r, "update") => <>(At(r, "commit") \/ Ended(r)))
    <2>1. OtpInv /\ At(r, "update") => \E u \in Users : WaitsRow(r, u)
      BY DEF OtpInv, Shaped, Shape, TypeOK, Request, Idle, At, WaitsRow
    <2>2. \A u \in Users : Always => (WaitsRow(r, u) => <>(At(r, "commit") \/ Ended(r)))
      BY RowWaitEnds
    <2>3. Always => OtpInv
      BY PTL DEF Always
    <2> QED BY <2>1, <2>2, <2>3
  <1>2. Always => (At(r, "insert") => <>(At(r, "commit") \/ Ended(r)))
    <2>1. OtpInv /\ At(r, "insert") => \E p \in Phones : WaitsNumber(r, p)
      BY VerifyingShape DEF At, WaitsNumber
    <2>2. \A p \in Phones : Always => (WaitsNumber(r, p) => <>(At(r, "commit") \/ Ended(r)))
      BY NumberWaitEnds
    <2>3. Always => OtpInv
      BY PTL DEF Always
    <2> QED BY <2>1, <2>2, <2>3
  <1>3. Always => Finishes(r)
    BY CommitEnds
  <1>4. Always => Passes(r, "delete") /\ Passes(r, "find")
    BY StageEnds DEF Moving
  <1>5. /\ OtpInv /\ [Next]_vars /\ At(r, "delete")
             => At(r, "delete")' \/ At(r, "find")' \/ Ended(r)'
        /\ OtpInv /\ [Next]_vars /\ At(r, "find")
             => At(r, "find")' \/ At(r, "insert")' \/ At(r, "update")' \/ Ended(r)'
    BY StageGoes
  <1>6. OtpInv => \/ At(r, "delete") \/ At(r, "find") \/ At(r, "insert") \/ At(r, "update")
                  \/ At(r, "commit") \/ Ended(r)
    BY DEF OtpInv, TypeOK, Request, At, Ended
  <1>7. req[r].pc = "idle" <=> Ended(r)
    BY DEF Ended
  <1> QED
    BY <1>1, <1>2, <1>3, <1>4, <1>5, <1>6, <1>7, SpecAlways, AlwaysAlways, PTL
       DEF Finishes, Passes, Always

\* One id is drawn at a time, so infinitely many do not run out.
LEMMA OtpIdsLast == ASSUME ~IsFiniteSet(Users) PROVE Spec => IdsLast
  <1>1. Init => IsFiniteSet(drawn)
    BY FS_EmptySet DEF Init
  <1>2. IsFiniteSet(drawn) /\ [Next]_vars => IsFiniteSet(drawn)'
    <2> SUFFICES ASSUME IsFiniteSet(drawn), [Next]_vars PROVE IsFiniteSet(drawn')
      OBVIOUS
    <2>1. drawn' = drawn \/ \E u : drawn' = drawn \cup {u}
      BY DEF Next, Begin, Step, ReadOtp, Accept, Start, ProfileLoad, StatusLoad, DeleteOtp,
         FindUser, InsertUser, UpdateUser, Commit, Abort, OtpExpire, RequestOtp, DeleteUser, vars
    <2> QED BY <2>1, FS_AddElement
  <1>3. IsFiniteSet(drawn) => IdLeft
    <2>1. Users \ drawn = {} => Users \subseteq drawn
      OBVIOUS
    <2> QED BY <2>1, FS_Subset DEF IdLeft
  <1> QED BY <1>1, <1>2, <1>3, PTL DEF Spec, IdsLast
=============================================================================
