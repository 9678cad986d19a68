------------------------------ MODULE OtpLogin ------------------------------
(***************************************************************************)
(* Survivors who log in by telephone number: auth_service, OTPStorage, the *)
(* rows of users, and the requests that change such a row meanwhile.       *)
(*                                                                         *)
(* A code is in Redis under its number, one at a time.  A verification     *)
(* reads it, deletes it, looks the user up, inserts or touches the row,    *)
(* and answers after its commit; other requests run between any two of     *)
(* these.  What it does to Redis stays when it fails.                      *)
(*                                                                         *)
(* Tokens are signed and kept nowhere: refresh_token changes no state.     *)
(***************************************************************************)
EXTENDS Naturals, FiniteSets

CONSTANTS Phones, Codes,  \* numbers, and the codes that may be drawn for them
          Users,          \* the ids users may draw
          Statuses,       \* users.status: active, suspended and the like
          Active, Suspended,
          Requests,       \* HTTP requests that can be in progress at once
          None            \* SQL NULL, a missing row or key

ASSUME OtpAssumption ==
    /\ {Active, Suspended} \subseteq Statuses /\ Active # Suspended
    /\ None \notin Phones \cup Codes \cup Users \cup Statuses
    /\ None \notin [phone: Phones, status: Statuses]

VARIABLES otp,      \* Redis otp:{phone}: the code
          account,  \* committed users
          drawn,    \* their ids, of rolled back and deleted ones too
          req,      \* the requests in progress
          sent,     \* history: the codes that were sent
          valid,    \* history: of each number, the last code sent, until it expires or is read
          met,      \* history: codes sent between the GET and the DEL of a verification
          raced,    \* history: codes two verifications had read before either deleted
          opened    \* history: codes a client has been answered with a session for

vars == <<otp, account, drawn, req, sent, valid, met, raced, opened>>

Account == [phone: Phones, status: Statuses]

\* "new": the user is the request's own insertion.  "seen": the row as it was loaded.
Request ==
    [op: {"none", "verify", "status", "profile"},
     pc: {"idle", "delete", "find", "insert", "update", "commit"},
     phone: Phones \cup {None}, code: Codes \cup {None}, user: Users \cup {None},
     new: BOOLEAN, seen: Account \cup {None}, status: Statuses \cup {None}]

Idle == [op |-> "none", pc |-> "idle", phone |-> None, code |-> None, user |-> None,
         new |-> FALSE, seen |-> None, status |-> None]

TypeOK ==
    /\ otp \in [Phones -> Codes \cup {None}]
    /\ account \in [Users -> Account \cup {None}]
    /\ drawn \subseteq Users
    /\ req \in [Requests -> Request]
    /\ sent \subseteq Codes /\ met \subseteq sent /\ raced \subseteq sent /\ opened \subseteq sent
    /\ valid \in [Phones -> sent \cup {None}]

Init ==
    /\ otp = [p \in Phones |-> None]
    /\ account = [u \in Users |-> None]
    /\ drawn = {}
    /\ req = [r \in Requests |-> Idle]
    /\ sent = {} /\ met = {} /\ raced = {} /\ opened = {}
    /\ valid = [p \in Phones |-> None]

Exists(u) == account[u] # None
HasPhone(u, p) == Exists(u) /\ account[u].phone = p

-----------------------------------------------------------------------------
(* PostgreSQL                                                              *)

\* Whoever has updated a row holds it until the transaction ends.
RowLocked(u) == \E r \in Requests : req[r].pc = "commit" /\ req[r].user = u

\* Faulty: there is no unique index.
NotUnique(p) == TRUE

\* ix_users_phone_number; an insertion waits for one of the same number.
Unique(p) ==
    /\ \A u \in Users : ~HasPhone(u, p)
    /\ \A r \in Requests : ~(req[r].new /\ req[r].phone = p)

-----------------------------------------------------------------------------
(* request_otp                                                             *)

\* Reading and deleting one code of the number.
Verifying(p) == \E r \in Requests : req[r].op = "verify" /\ req[r].pc = "delete" /\ req[r].phone = p

\* The codes drawn differ: a number that is sent the same digits again within the
\* expiry has in effect the same code.
RequestOtp(p, c) ==
    /\ c \notin sent
    /\ otp' = [otp EXCEPT ![p] = c]
    /\ sent' = sent \cup {c}
    /\ valid' = [valid EXCEPT ![p] = c]
    /\ met' = IF Verifying(p) THEN met \cup {c} ELSE met
    /\ UNCHANGED <<account, drawn, req, raced, opened>>

\* otp_expiry_minutes
OtpExpire(p) ==
    /\ otp[p] # None
    /\ otp' = [otp EXCEPT ![p] = None]
    /\ valid' = [valid EXCEPT ![p] = None]
    /\ UNCHANGED <<account, drawn, req, sent, met, raced, opened>>

-----------------------------------------------------------------------------
(* verify_otp                                                              *)

Start(r, q) ==
    /\ req[r] = Idle
    /\ req' = [req EXCEPT ![r] = q]
    /\ UNCHANGED <<account, drawn, sent, met, opened>>

\* Two requests read code c and neither has deleted it.
Contends(c) == \E r \in Requests : req[r].pc = "delete" /\ req[r].code = c

Accept(r, p, c) ==
    /\ Start(r, [Idle EXCEPT !.op = "verify", !.pc = "delete", !.phone = p, !.code = c])
    /\ raced' = IF Contends(c) THEN raced \cup {c} ELSE raced
    /\ valid' = [valid EXCEPT ![p] = IF @ = c THEN None ELSE @]
    /\ UNCHANGED otp

\* Faulty: the code is taken out of Redis before it is compared.
TakeOtp(r, p, c) ==
    \/ otp[p] = c /\ Accept(r, p, c)
    \/ /\ otp[p] # c /\ req[r] = Idle
       /\ otp' = [otp EXCEPT ![p] = None]
       /\ UNCHANGED <<account, drawn, req, sent, valid, met, raced, opened>>

\* OTPStorage.verify: the GET.  Another code is refused, and nothing changes.
ReadOtp(r, p, c) == otp[p] = c /\ Accept(r, p, c)

\* Faulty: another key is deleted.
OtpKept(p) == otp

\* The DEL: of the key, whatever code is there by now.
OtpDeleted(p) == [otp EXCEPT ![p] = None]

DeleteOtp(r) ==
    /\ req[r].pc = "delete"
    /\ otp' = OtpDeleted(req[r].phone)
    /\ req' = [req EXCEPT ![r].pc = "find"]
    /\ UNCHANGED <<account, drawn, sent, valid, met, raced, opened>>

\* get_by_phone.  An account that has a number is verified, from its insertion on.
FindUser(r) ==
    LET p == req[r].phone
        Found == {u \in Users : HasPhone(u, p)}
    IN
    /\ req[r].pc = "find"
    /\ \/ /\ Found = {}
          /\ req' = [req EXCEPT ![r].pc = "insert"]
       \/ \E u \in Found : req' = [req EXCEPT ![r].pc = "update", ![r].user = u, ![r].seen = account[u]]
    /\ UNCHANGED <<otp, account, drawn, sent, valid, met, raced, opened>>

\* _create_verified_user; last_login_at is then set in the same row.  With a row of
\* the number the request fails.
InsertUser(r) ==
    /\ req[r].pc = "insert"
    /\ Unique(req[r].phone)
    /\ \E u \in Users \ drawn :
         /\ req' = [req EXCEPT ![r].pc = "commit", ![r].user = u, ![r].new = TRUE]
         /\ drawn' = drawn \cup {u}
    /\ UNCHANGED <<otp, account, sent, valid, met, raced, opened>>

-----------------------------------------------------------------------------
(* update_mobile_user_status, update_current_user                          *)

\* With the status it has already nothing is written.
StatusLoad(r, u, s) ==
    /\ Exists(u) /\ s # account[u].status
    /\ Start(r, [Idle EXCEPT !.op = "status", !.pc = "update", !.user = u, !.seen = account[u],
                             !.status = s])
    /\ UNCHANGED <<otp, valid, raced>>

\* get_current_user, with a token of the user.
ProfileLoad(r, u) ==
    /\ Exists(u) /\ account[u].status # Suspended
    /\ Start(r, [Idle EXCEPT !.op = "profile", !.pc = "update", !.user = u, !.seen = account[u]])
    /\ UNCHANGED <<otp, valid, raced>>

\* Faulty: verify_otp goes on with the user as it was found.
UpdateAnyway(r) ==
    /\ req[r].pc = "update"
    /\ req[r].op = "verify" \/ Exists(req[r].user)
    /\ ~RowLocked(req[r].user)
    /\ req' = [req EXCEPT ![r].pc = "commit"]
    /\ UNCHANGED <<otp, account, drawn, sent, valid, met, raced, opened>>

\* The UPDATE of status, profile or last_login_at waits for the row.  When the row
\* has gone the request fails: the flush notices, or the user loaded again is None.
UpdateUser(r) ==
    /\ req[r].pc = "update"
    /\ Exists(req[r].user) /\ ~RowLocked(req[r].user)
    /\ req' = [req EXCEPT ![r].pc = "commit"]
    /\ UNCHANGED <<otp, account, drawn, sent, valid, met, raced, opened>>

-----------------------------------------------------------------------------
(* The end of a request, and deletion                                      *)

\* _create_verified_user
NewRow(p) == [phone |-> p, status |-> Active]

\* Faulty: all columns are written, as they were loaded.
WrittenWhole(q, row) == IF q.op = "status" THEN [row EXCEPT !.status = q.status] ELSE q.seen

\* Faulty: columns that the request leaves open are written as NULL.
WrittenUnset(q, row) == [row EXCEPT !.status = q.status]

\* Columns are written that the request has set.
Written(q, row) == IF q.op = "status" THEN [row EXCEPT !.status = q.status] ELSE row

Commit(r) ==
    LET q == req[r] IN
    /\ q.pc = "commit"
    /\ account' = [account EXCEPT ![q.user] = IF q.new THEN NewRow(q.phone)
                                              ELSE Written(q, @)]
    /\ opened' = opened \cup ({q.code} \ {None})
    /\ req' = [req EXCEPT ![r] = Idle]
    /\ UNCHANGED <<otp, drawn, sent, valid, met, raced>>

\* The request failed, or the process died.
Abort(r) ==
    /\ req[r] # Idle
    /\ req' = [req EXCEPT ![r] = Idle]
    /\ UNCHANGED <<otp, account, drawn, sent, valid, met, raced, opened>>

\* delete_mobile_user
DeleteUser(u) ==
    /\ Exists(u) /\ ~RowLocked(u)
    /\ account' = [account EXCEPT ![u] = None]
    /\ UNCHANGED <<otp, drawn, req, sent, valid, met, raced, opened>>

Begin(r) ==
    \/ \E p \in Phones, c \in sent : ReadOtp(r, p, c)
    \/ \E u \in Users : ProfileLoad(r, u) \/ \E s \in Statuses : StatusLoad(r, u, s)

Step(r) == DeleteOtp(r) \/ FindUser(r) \/ InsertUser(r) \/ UpdateUser(r) \/ Commit(r)

Next ==
    \/ \E r \in Requests : Begin(r) \/ Step(r) \/ Abort(r)
    \/ \E p \in Phones : OtpExpire(p) \/ \E c \in Codes : RequestOtp(p, c)
    \/ \E u \in Users : DeleteUser(u)

Spec == Init /\ [][Next]_vars

-----------------------------------------------------------------------------
(* Properties                                                              *)

\* The verifications under way that have used up code c.
Past(c) == {r \in Requests : req[r].code = c /\ req[r].pc # "delete"}

\* A code opens one session, unless two verifications had read it before either
\* deleted it: GET and DEL are two calls.
CodeOpensOneSession ==
    \A c \in sent \ raced : Cardinality(Past(c)) + (IF c \in opened THEN 1 ELSE 0) <= 1

\* The code a survivor was sent last can be used, whatever was tried meanwhile,
\* unless it was sent while an older one was being verified, whose DEL then takes it.
LastCodeWorks == \A p \in Phones : valid[p] \notin met \cup {None} => otp[p] = valid[p]

\* A session that is about to be answered names the account of its number, and
\* nothing can take that away before the commit.
SessionHasAccount ==
    \A r \in Requests : req[r].op = "verify" /\ req[r].pc = "commit" /\ ~req[r].new =>
        HasPhone(req[r].user, req[r].phone)

\* Two first logins of one number make one account.
OneAccountPerPhone == \A p \in Phones : Cardinality({u \in Users : HasPhone(u, p)}) <= 1

\* The status of a user changes by a request to change it and by no other that had
\* loaded the row before: no login or change of profile takes a suspension back.
StatusOnlyAsked ==
    [][\A u \in Users : Exists(u) /\ account'[u] # None /\ account'[u].status # account[u].status =>
          \E r \in Requests : /\ req[r].op = "status" /\ req[r].user = u
                              /\ req[r].status = account'[u].status
                              /\ req'[r] = Idle]_vars
=============================================================================
