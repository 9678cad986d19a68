--------------------------- MODULE MessagingProofs ---------------------------
(***************************************************************************)
(* Proofs about Messaging, for any users, operators, centres, ids and any  *)
(* number of overlapping requests.                                         *)
(***************************************************************************)
EXTENDS Messaging, FiniteSetTheorems, TLAPS

(***************************************************************************)
(* The inductive invariant.                                                *)
(***************************************************************************)

\* The participation a request holds is one of its person in its conversation.
Holds(q) == q.row \in Row /\ q.row.conv = q.conv /\ q.row.who = q.who

\* What a request carries.
Shape(q) ==
    /\ q.op = "none" => q = Idle
    /\ q.op # "send" => q.gone = {}
    /\ q.op = "create" => /\ q.pc \in {"direct", "commit"} /\ q.who \in Users
                          /\ q.row = None /\ q.msg = None
                          /\ q.pc = "direct" => q.conv = None
                          /\ q.pc = "commit" => q.conv \in Convs
    /\ q.op = "send" => /\ q.pc \in {"insert", "others", "tell", "commit"} /\ q.who \in People
                        /\ q.conv \in Convs /\ q.row = None
                        /\ q.pc \in {"tell", "commit"} => q.todo \subseteq Row
                        /\ q.pc = "insert" => q.msg = None
                        /\ q.pc # "insert" => q.msg \in Messages
    /\ q.op = "join" => /\ q.pc \in {"insert", "commit"} /\ q.who \in People
                        /\ q.conv \in Convs /\ q.msg = None
                        /\ q.pc = "insert" => q.row = None
                        /\ q.pc = "commit" => Holds(q)
    /\ q.op = "leave" => /\ q.pc \in {"update", "commit"} /\ q.who \in People
                         /\ q.conv \in Convs /\ q.msg = None /\ Holds(q)

Was(c, p) == \E w \in rows : w.conv = c /\ w.who = p

\* What a request that will open a conversation, or add a participant, relies on.
Opener(q) ==
    q.op = "create" /\ q.pc = "commit" =>
        convs[q.conv] = None /\ q.invited \cup {q.who} \subseteq users

Joiner(q) ==
    q.op = "join" =>
        /\ convs[q.conv] # None
        /\ q.pc = "commit" => /\ Present(q.who) /\ q.row \notin rows
                              /\ q.who \in Users => ~Was(q.conv, q.who)

\* The sender of a message has a row, or has been deleted.
Sender(q) ==
    q.op = "send" =>
        /\ convs[q.conv] # None
        /\ Was(q.conv, q.who) \/ ~Present(q.who)
        /\ q.pc # "insert" => Present(q.who) /\ messages[q.msg] = None

\* Who is to be told: nobody who had left, and everybody who still takes part is
\* told or about to be.
Heard(q, w) == w.who \in q.told \/ (q.pc = "tell" /\ w \in q.todo)

Audience(q) ==
    q.op = "send" =>
        /\ \A w \in q.present : w.conv = q.conv /\ (w \in rows \/ ~Present(w.who))
        /\ \A u \in q.gone : /\ \A w \in rows : w.conv = q.conv /\ w.who = u => w \in left
                             /\ Was(q.conv, u) \/ ~Present(u)
        /\ q.gone \cap q.told = {}
        /\ q.pc = "tell" => \A w \in q.todo : w.who \notin q.gone
        /\ q.pc \in {"tell", "commit"} =>
             \A w \in (q.present \cap rows) \ left : w.who # q.who => Heard(q, w)

Good(q) == Shape(q) /\ Opener(q) /\ Joiner(q) /\ Sender(q) /\ Audience(q)

\* What two requests have drawn or inserted differs.
Apart(q, s) ==
    /\ q.msg # None => q.msg # s.msg
    /\ q.op = "create" /\ s.op = "create" /\ q.conv # None => q.conv # s.conv
    /\ q.op = "join" /\ s.op = "join" /\ q.pc = "commit" /\ s.pc = "commit" =>
         /\ q.row # s.row
         /\ q.who \in Users => ~(q.conv = s.conv /\ q.who = s.who)

Tables == \A w \in rows : convs[w.conv] # None

\* Of an operator and a conversation: one participation, or one request to join.
Once(c, o) ==
    /\ \A v, w \in Participations(c, o) : v = w
    /\ \A r \in Requests : req[r].op = "join" /\ req[r].who = o /\ req[r].conv = c =>
         /\ Participations(c, o) = {}
         /\ \A s \in Requests : req[s].op = "join" /\ req[s].who = o /\ req[s].conv = c => s = r

Joins == \A c \in Convs, o \in Operators : <<o, c>> \notin raced => Once(c, o)

MsgInv ==
    /\ TypeOK /\ Tables /\ Joins
    /\ \A r \in Requests : Good(req[r])
    /\ \A r, s \in Requests : r # s => Apart(req[r], req[s])

-----------------------------------------------------------------------------
(* A request takes a step of its own                                       *)

LEMMA NoneIsNoRecord == None \notin Row /\ None \notin Message /\ None \notin Conversation
  BY MessagingAssumption DEF Row, Message, Conversation

LEMMA IdleRecord == Idle \in Request /\ Good(Idle)
  <1>1. Idle \in Request
    BY DEF Idle, Request
  <1>2. Good(Idle)
    BY DEF Idle, Good, Shape, Opener, Joiner, Sender, Audience
  <1> QED BY <1>1, <1>2

\* A request that keeps to itself what it does disturbs nothing, unless it begins
\* to join.
LEMMA LocalKeeps ==
    ASSUME MsgInv, NEW r \in Requests, NEW n \in Request, req' = [req EXCEPT ![r] = n],
           UNCHANGED <<users, convs, rows, left, messages, raced>>,
           Good(n),
           \A s \in Requests : s # r => Apart(n, req[s]) /\ Apart(req[s], n),
           n.op = "join" => req[r].op = "join" /\ n.who = req[r].who /\ n.conv = req[r].conv
    PROVE  MsgInv'
  <1>1. /\ req'[r] = n
        /\ \A s \in Requests : s # r => req'[s] = req[s]
        /\ req' \in [Requests -> Request]
    BY DEF MsgInv, TypeOK
  <1>2. TypeOK' /\ Tables'
    BY <1>1 DEF MsgInv, TypeOK, Tables
  <1>3. Joins'
    BY <1>1 DEF MsgInv, Joins, Once, Participations, Active
  <1>4. \A s \in Requests : Good(req[s])'
    <2> TAKE s \in Requests
    <2>1. Good(req[s]) \/ (s = r /\ Good(n))
      BY DEF MsgInv
    <2>2. CASE s = r
      BY <1>1, <2>2 DEF Good, Opener, Joiner, Sender, Audience, Was, Present, Heard
    <2>3. CASE s # r
      <3>1. Good(req[s]) /\ req'[s] = req[s]
        BY <1>1, <2>1, <2>3
      <3> QED BY <3>1 DEF Good, Opener, Joiner, Sender, Audience, Was, Present, Heard
    <2> QED BY <2>2, <2>3
  <1>5. \A s, t \in Requests : s # t => Apart(req[s], req[t])'
    BY <1>1 DEF MsgInv, Apart
  <1> QED BY <1>2, <1>3, <1>4, <1>5 DEF MsgInv

LEMMA AbortKeeps ==
    ASSUME MsgInv, NEW r \in Requests, Abort(r)
    PROVE  MsgInv'
  <1>1. \A s \in Requests : Apart(Idle, req[s]) /\ Apart(req[s], Idle)
    BY DEF Apart, Idle
  <1>2. Idle.op = "none"
    BY DEF Idle
  <1> QED BY <1>1, <1>2, IdleRecord, LocalKeeps DEF Abort

LEMMA CreateLookupKeeps ==
    ASSUME MsgInv, NEW r \in Requests, NEW p \in People, Opens(r, p)
    PROVE  MsgInv'
  <1>1. PICK d \in BOOLEAN, s \in Centers \cup {None}, I \in SUBSET Users : CreateLookup(r, p, d, s, I)
    BY DEF Opens
  <1> DEFINE n == [Idle EXCEPT !.op = "create", !.pc = "direct", !.who = p, !.direct = d,
                               !.center = s, !.invited = I, !.todo = IF d THEN I ELSE {}]
  <1>2. p \in Users /\ req' = [req EXCEPT ![r] = n]
        /\ UNCHANGED <<users, convs, rows, left, messages, raced>>
    BY <1>1 DEF CreateLookup, Start, MsgInv, TypeOK
  <1>3. n \in Request /\ n.op = "create" /\ n.pc = "direct" /\ n.who = p /\ n.msg = None
        /\ n.conv = None /\ n.row = None /\ n.gone = {}
    BY <1>2 DEF Idle, Request, People
  <1> HIDE DEF n
  <1>4. Good(n)
    BY <1>2, <1>3 DEF Good, Shape, Opener, Joiner, Sender, Audience
  <1>5. \A t \in Requests : Apart(n, req[t]) /\ Apart(req[t], n)
    BY <1>3 DEF Apart
  <1> QED BY <1>2, <1>3, <1>4, <1>5, LocalKeeps

LEMMA FindDirectKeeps ==
    ASSUME MsgInv, NEW r \in Requests, FindDirect(r)
    PROVE  MsgInv'
  <1>1. PICK u \in req[r].todo :
          req' = [req EXCEPT ![r] = IF Between(req[r].who, u) = {}
                                    THEN [req[r] EXCEPT !.todo = req[r].todo \ {u}] ELSE Idle]
    BY DEF FindDirect
  <1> DEFINE n == [req[r] EXCEPT !.todo = req[r].todo \ {u}]
             q == req[r]
  <1>2. q \in Request /\ Good(q)
    BY DEF MsgInv, TypeOK
  <1>3. q.pc = "direct" /\ UNCHANGED <<users, convs, rows, left, messages, raced>>
    BY DEF FindDirect
  <1>4. q.op = "create" /\ q.who \in Users /\ q.row = None /\ q.msg = None /\ q.conv = None /\ q.gone = {}
    BY <1>2, <1>3 DEF Good, Shape, Request, Idle
  <1>5. n \in Request /\ n.op = "create" /\ n.pc = "direct" /\ n.who = q.who /\ n.msg = None
        /\ n.conv = None /\ n.row = None /\ n.gone = {}
    BY <1>2, <1>3, <1>4 DEF Request
  <1>6. req' = [req EXCEPT ![r] = n] \/ req' = [req EXCEPT ![r] = Idle]
    BY <1>1
  <1> HIDE DEF n, q
  <1>7. Good(n)
    BY <1>4, <1>5 DEF Good, Shape, Opener, Joiner, Sender, Audience
  <1>8. \A t \in Requests : Apart(n, req[t]) /\ Apart(req[t], n)
    BY <1>5 DEF Apart
  <1>9. \A s \in Requests : Apart(Idle, req[s]) /\ Apart(req[s], Idle)
    BY DEF Apart, Idle
  <1>10. Idle.op = "none"
    BY DEF Idle
  <1> QED BY <1>3, <1>5, <1>6, <1>7, <1>8, <1>9, <1>10, IdleRecord, LocalKeeps

LEMMA InsertConversationKeeps ==
    ASSUME MsgInv, NEW r \in Requests, InsertConversation(r)
    PROVE  MsgInv'
  <1> DEFINE q == req[r]
  <1>1. PICK c \in Convs : /\ convs[c] = None
                           /\ \A s \in Requests : req[s].conv # c
                           /\ req' = [req EXCEPT ![r].pc = "commit", ![r].conv = c]
    BY DEF InsertConversation
  <1> DEFINE n == [q EXCEPT !.pc = "commit", !.conv = c]
  <1>2. /\ q \in Request /\ Good(q) /\ q.pc = "direct" /\ q.invited \cup {q.who} \subseteq users
        /\ UNCHANGED <<users, convs, rows, left, messages, raced>>
    BY DEF InsertConversation, MsgInv, TypeOK
  <1>3. q.op = "create" /\ q.who \in Users /\ q.row = None /\ q.msg = None /\ q.gone = {}
    BY <1>2 DEF Good, Shape, Request, Idle
  <1>4. n \in Request /\ n.op = "create" /\ n.pc = "commit" /\ n.who = q.who /\ n.msg = None
        /\ n.conv = c /\ n.row = None /\ n.invited = q.invited /\ n.gone = {}
    BY <1>2, <1>3 DEF Request
  <1>5. req' = [req EXCEPT ![r] = n]
    BY <1>1, <1>2 DEF MsgInv, TypeOK, Request
  <1> HIDE DEF n, q
  <1>6. Good(n)
    BY <1>1, <1>2, <1>3, <1>4 DEF Good, Shape, Opener, Joiner, Sender, Audience
  <1>7. \A t \in Requests : Apart(n, req[t]) /\ Apart(req[t], n)
    BY <1>1, <1>4 DEF Apart
  <1> QED BY <1>2, <1>4, <1>5, <1>6, <1>7, LocalKeeps

\* Those who had left when the sender was verified have rows, all marked.
LEMMA SendVerifyKeeps ==
    ASSUME MsgInv, NEW r \in Requests, NEW p \in People, NEW c \in Convs, SendVerify(r, p, c)
    PROVE  MsgInv'
  <1> DEFINE P == RowsOf(c) \ left
             G == (EverIn(c) \ MembersOf(c)) \cap Users
             n == [Idle EXCEPT !.op = "send", !.pc = "insert", !.who = p, !.conv = c,
                               !.present = P, !.gone = G]
  <1>1. req' = [req EXCEPT ![r] = n] /\ UNCHANGED <<users, convs, rows, left, messages, raced>>
    BY DEF SendVerify, Start
  <1>2. P \subseteq Row /\ G \subseteq Users /\ \A w \in P : w \in rows /\ w.conv = c
    BY DEF MsgInv, TypeOK, RowsOf
  <1>3. \A u \in G : Was(c, u) /\ \A w \in rows : w.conv = c /\ w.who = u => w \in left
    BY DEF EverIn, MembersOf, RowsOf, Was
  <1>4. Was(c, p) /\ convs[c] # None
    BY DEF SendVerify, Participates, Participations, Active, Was, MsgInv, Tables
  <1>5. n \in Request /\ n.op = "send" /\ n.pc = "insert" /\ n.who = p /\ n.msg = None
        /\ n.conv = c /\ n.row = None /\ n.present = P /\ n.gone = G /\ n.told = {}
    BY <1>2 DEF Idle, Request
  <1> HIDE DEF n, P, G
  <1>6. Good(n)
    BY <1>2, <1>3, <1>4, <1>5 DEF Good, Shape, Opener, Joiner, Sender, Audience
  <1>7. \A t \in Requests : Apart(n, req[t]) /\ Apart(req[t], n)
    BY <1>5 DEF Apart
  <1> QED BY <1>1, <1>5, <1>6, <1>7, LocalKeeps

LEMMA InsertMessageKeeps ==
    ASSUME MsgInv, NEW r \in Requests, InsertMessage(r)
    PROVE  MsgInv'
  <1> DEFINE q == req[r]
  <1>1. PICK m \in Messages : /\ messages[m] = None
                              /\ \A s \in Requests : req[s].msg # m
                              /\ req' = [req EXCEPT ![r].pc = "others", ![r].msg = m]
    BY DEF InsertMessage
  <1> DEFINE n == [q EXCEPT !.pc = "others", !.msg = m]
  <1>2. /\ q \in Request /\ Good(q) /\ q.op = "send" /\ q.pc = "insert" /\ Present(q.who)
        /\ UNCHANGED <<users, convs, rows, left, messages, raced>>
    BY DEF InsertMessage, MsgInv, TypeOK
  <1>3. /\ n \in Request /\ n.op = "send" /\ n.pc = "others" /\ n.msg = m
        /\ n.who = q.who /\ n.conv = q.conv /\ n.row = q.row /\ n.present = q.present
        /\ n.gone = q.gone /\ n.told = q.told
    BY <1>2 DEF Request
  <1>4. req' = [req EXCEPT ![r] = n]
    BY <1>1, <1>2 DEF MsgInv, TypeOK, Request
  <1> HIDE DEF n, q
  <1>5. Good(n)
    BY <1>1, <1>2, <1>3 DEF Good, Shape, Opener, Joiner, Sender, Audience
  <1>6. \A t \in Requests : Apart(n, req[t]) /\ Apart(req[t], n)
    BY <1>1, <1>3 DEF Apart
  <1> QED BY <1>2, <1>3, <1>4, <1>5, <1>6, LocalKeeps

\* The query passes all rows that are still there and none of somebody who had
\* left.
LEMMA ReadOthersKeeps ==
    ASSUME MsgInv, NEW r \in Requests, ReadOthers(r)
    PROVE  MsgInv'
  <1> DEFINE q == req[r]
             T == Others(q.conv, q.who)
             n == [q EXCEPT !.todo = T, !.pc = AfterTelling(T)]
  <1>1. /\ q \in Request /\ Good(q) /\ q.pc = "others"
        /\ UNCHANGED <<users, convs, rows, left, messages, raced>>
    BY DEF ReadOthers, MsgInv, TypeOK
  <1>2. q.op = "send"
    BY <1>1 DEF Good, Shape, Request, Idle
  <1>3. T \subseteq Row /\ \A w \in rows \ left : w.conv = q.conv /\ w.who # q.who <=> w \in T
    BY DEF Others, Active, MsgInv, TypeOK
  <1>4. T \subseteq rows \ left /\ \A w \in T : w.conv = q.conv
    BY DEF Others, Active
  <1>5. AfterTelling(T) \in {"commit", "tell"} /\ (AfterTelling(T) = "commit" <=> T = {})
    BY DEF AfterTelling
  <1>6. /\ n \in Request /\ n.op = "send" /\ n.pc = AfterTelling(T) /\ n.todo = T /\ n.msg = q.msg
        /\ n.who = q.who /\ n.conv = q.conv /\ n.row = q.row /\ n.present = q.present
        /\ n.gone = q.gone /\ n.told = q.told
    BY <1>1, <1>2, <1>3, <1>5 DEF Request
  <1>7. req' = [req EXCEPT ![r] = n]
    BY <1>1 DEF ReadOthers, MsgInv, TypeOK, Request
  <1> HIDE DEF n, q, T
  <1>8. Shape(n) /\ Opener(n) /\ Joiner(n) /\ Sender(n)
    BY <1>1, <1>2, <1>3, <1>5, <1>6 DEF Good, Shape, Opener, Joiner, Sender
  <1>9. Audience(n)
    <2>1. \A w \in n.todo : w.who \notin n.gone
      BY <1>1, <1>2, <1>4, <1>6 DEF Good, Audience
    <2>2. \A w \in (n.present \cap rows) \ left : w.who # n.who => w \in T /\ n.pc = "tell"
      BY <1>1, <1>2, <1>3, <1>5, <1>6 DEF Good, Audience
    <2> QED BY <1>1, <1>2, <1>6, <2>1, <2>2 DEF Good, Audience, Heard
  <1>10. \A t \in Requests : t # r => Apart(n, req[t]) /\ Apart(req[t], n)
    <2> TAKE t \in Requests
    <2>1. t # r => Apart(q, req[t]) /\ Apart(req[t], q)
      BY DEF MsgInv, q
    <2> QED BY <1>2, <1>6, <2>1 DEF Apart
  <1> QED BY <1>1, <1>6, <1>7, <1>8, <1>9, <1>10, LocalKeeps DEF Good

LEMMA TellKeeps ==
    ASSUME MsgInv, NEW r \in Requests, Tell(r)
    PROVE  MsgInv'
  <1> DEFINE q == req[r]
  <1>1. PICK v \in q.todo : req' = [req EXCEPT ![r].told = @ \cup {v.who}, ![r].todo = @ \ {v},
                                               ![r].pc = AfterTelling(q.todo \ {v})]
    BY DEF Tell
  <1> DEFINE T == q.todo \ {v}
             n == [q EXCEPT !.told = q.told \cup {v.who}, !.todo = T, !.pc = AfterTelling(T)]
  <1>2. /\ q \in Request /\ Good(q) /\ q.pc = "tell"
        /\ UNCHANGED <<users, convs, rows, left, messages, raced>>
    BY DEF Tell, MsgInv, TypeOK
  <1>3. q.op = "send" /\ q.todo \subseteq Row
    BY <1>2 DEF Good, Shape, Request, Idle
  <1>4. v.who \in People
    BY <1>1, <1>3 DEF Row
  <1>5. AfterTelling(T) \in {"commit", "tell"} /\ (AfterTelling(T) = "commit" <=> T = {})
    BY DEF AfterTelling
  <1>6. /\ n \in Request /\ n.op = "send" /\ n.pc = AfterTelling(T) /\ n.todo = T /\ n.msg = q.msg
        /\ n.who = q.who /\ n.conv = q.conv /\ n.row = q.row /\ n.present = q.present
        /\ n.gone = q.gone /\ n.told = q.told \cup {v.who}
    BY <1>2, <1>3, <1>4, <1>5 DEF Request
  <1>7. req' = [req EXCEPT ![r] = n]
    BY <1>1 DEF MsgInv, TypeOK, Request
  <1> HIDE DEF n, q
  <1>8. Shape(n) /\ Opener(n) /\ Joiner(n) /\ Sender(n)
    BY <1>2, <1>3, <1>5, <1>6 DEF Good, Shape, Opener, Joiner, Sender
  <1>9. Audience(n)
    <2>1. n.gone \cap n.told = {} /\ \A w \in n.todo : w.who \notin n.gone
      BY <1>1, <1>2, <1>3, <1>6 DEF Good, Audience
    <2>2. \A w \in (n.present \cap rows) \ left : w.who # n.who => Heard(n, w)
      BY <1>1, <1>2, <1>3, <1>5, <1>6 DEF Good, Audience, Heard
    <2> QED BY <1>2, <1>3, <1>6, <2>1, <2>2 DEF Good, Audience
  <1>10. \A t \in Requests : t # r => Apart(n, req[t]) /\ Apart(req[t], n)
    <2> TAKE t \in Requests
    <2>1. t # r => Apart(q, req[t]) /\ Apart(req[t], q)
      BY DEF MsgInv, q
    <2> QED BY <1>3, <1>6, <2>1 DEF Apart
  <1> QED BY <1>2, <1>6, <1>7, <1>8, <1>9, <1>10, LocalKeeps DEF Good

\* Of an operator who has a participation no request to join begins, and of one who
\* is joining only with the history saying so.
LEMMA JoinLookupKeeps ==
    ASSUME MsgInv, NEW r \in Requests, NEW p \in People, NEW c \in Convs, JoinLookup(r, p, c)
    PROVE  MsgInv'
  <1> DEFINE n == [Idle EXCEPT !.op = "join", !.pc = "insert", !.who = p, !.conv = c]
  <1>1. /\ req[r] = Idle /\ req' = [req EXCEPT ![r] = n]
        /\ UNCHANGED <<users, convs, rows, left, messages>>
        /\ convs[c] # None /\ Participations(c, p) = {}
        /\ raced' = IF Joining(p, c) THEN raced \cup {<<p, c>>} ELSE raced
    BY DEF JoinLookup, Start
  <1>2. n \in Request /\ n.op = "join" /\ n.pc = "insert" /\ n.who = p /\ n.msg = None
        /\ n.conv = c /\ n.row = None /\ n.gone = {}
    BY DEF Idle, Request
  <1> HIDE DEF n
  <1>3. /\ req'[r] = n
        /\ \A s \in Requests : s # r => req'[s] = req[s]
        /\ req' \in [Requests -> Request]
    BY <1>1, <1>2 DEF MsgInv, TypeOK
  <1>4. TypeOK' /\ Tables'
    BY <1>1, <1>3 DEF MsgInv, TypeOK, Tables
  <1>5. Joins'
    <2> SUFFICES ASSUME NEW d \in Convs, NEW o \in Operators, <<o, d>> \notin raced'
                 PROVE  Once(d, o)'
      BY DEF Joins
    <2>1. Once(d, o)
      BY <1>1 DEF MsgInv, Joins
    <2>2. Participations(d, o)' = Participations(d, o)
      BY <1>1 DEF Participations, Active
    <2>3. CASE o = p /\ d = c
      <3>1. ~Joining(p, c)
        BY <1>1, <2>3
      <3>2. \A s \in Requests : s # r => ~(req'[s].op = "join" /\ req'[s].who = o /\ req'[s].conv = d)
        BY <1>3, <2>3, <3>1 DEF Joining
      <3> QED BY <1>1, <2>1, <2>2, <2>3, <3>2 DEF Once
    <2>4. CASE ~(o = p /\ d = c)
      BY <1>2, <1>3, <2>1, <2>2, <2>4 DEF Once
    <2> QED BY <2>3, <2>4
  <1>6. \A s \in Requests : Good(req[s])'
    <2>1. Good(n)
      BY <1>1, <1>2 DEF Good, Shape, Opener, Joiner, Sender, Audience
    <2> TAKE s \in Requests
    <2>2. CASE s = r
      BY <1>1, <1>3, <2>1, <2>2 DEF Good, Opener, Joiner, Sender, Audience, Was, Present, Heard
    <2>3. CASE s # r
      <3>1. Good(req[s]) /\ req'[s] = req[s]
        BY <1>3, <2>3 DEF MsgInv
      <3> QED BY <1>1, <3>1 DEF Good, Opener, Joiner, Sender, Audience, Was, Present, Heard
    <2> QED BY <2>2, <2>3
  <1>7. \A s, t \in Requests : s # t => Apart(req[s], req[t])'
    BY <1>2, <1>3 DEF MsgInv, Apart
  <1> QED BY <1>4, <1>5, <1>6, <1>7 DEF MsgInv

\* The unique index keeps a user's row from being inserted twice.
LEMMA JoinInsertKeeps ==
    ASSUME MsgInv, NEW r \in Requests, JoinInsert(r)
    PROVE  MsgInv'
  <1> DEFINE q == req[r]
  <1>1. PICK k \in 1..MaxRows :
          /\ [conv |-> q.conv, who |-> q.who, n |-> k] \notin rows \cup Inserted
          /\ req' = [req EXCEPT ![r].pc = "commit",
                                ![r].row = [conv |-> q.conv, who |-> q.who, n |-> k]]
    BY DEF JoinInsert
  <1> DEFINE w == [conv |-> q.conv, who |-> q.who, n |-> k]
             n == [q EXCEPT !.pc = "commit", !.row = w]
  <1>2. /\ q \in Request /\ Good(q) /\ q.op = "join" /\ q.pc = "insert" /\ Present(q.who)
        /\ Unique(q.conv, q.who)
        /\ UNCHANGED <<users, convs, rows, left, messages, raced>>
    BY DEF JoinInsert, MsgInv, TypeOK
  <1>3. q.who \in People /\ q.conv \in Convs /\ q.msg = None /\ q.gone = {}
    BY <1>2 DEF Good, Shape
  <1>4. w \in Row /\ w.conv = q.conv /\ w.who = q.who /\ w \notin rows
    BY <1>1, <1>3 DEF Row
  <1>5. /\ n \in Request /\ n.op = "join" /\ n.pc = "commit" /\ n.row = w
        /\ n.who = q.who /\ n.conv = q.conv /\ n.msg = None /\ n.gone = {}
    BY <1>2, <1>3, <1>4 DEF Request
  <1>6. req' = [req EXCEPT ![r] = n]
    BY <1>1, <1>2 DEF MsgInv, TypeOK, Request
  <1>7. \A t \in Requests : req[t].op = "join" /\ req[t].pc = "commit" =>
          req[t].row \in Inserted /\ req[t].row.conv = req[t].conv /\ req[t].row.who = req[t].who
    BY NoneIsNoRecord DEF MsgInv, Good, Shape, Holds, Inserted
  <1>8. \A t \in Requests : req[t].op = "join" /\ req[t].pc = "commit" =>
          /\ req[t].row # w
          /\ q.who \in Users => ~(q.conv = req[t].conv /\ q.who = req[t].who)
    BY <1>1, <1>2, <1>7 DEF Unique
  <1>9. q.who \in Users => ~Was(q.conv, q.who)
    BY <1>2 DEF Unique, Was
  <1> HIDE DEF n, q, w
  <1>10. Good(n)
    BY <1>2, <1>3, <1>4, <1>5, <1>9 DEF Good, Shape, Opener, Joiner, Sender, Audience, Holds
  <1>11. \A t \in Requests : t # r => Apart(n, req[t]) /\ Apart(req[t], n)
    BY <1>5, <1>8 DEF Apart
  <1> QED BY <1>2, <1>5, <1>6, <1>10, <1>11, LocalKeeps DEF q

LEMMA LeaveLookupKeeps ==
    ASSUME MsgInv, NEW r \in Requests, NEW p \in People, NEW c \in Convs, LeaveLookup(r, p, c)
    PROVE  MsgInv'
  <1>1. PICK w \in Active :
          /\ Participations(c, p) = {w}
          /\ Start(r, [Idle EXCEPT !.op = "leave", !.pc = "update", !.who = p, !.conv = c, !.row = w])
    BY DEF LeaveLookup
  <1> DEFINE n == [Idle EXCEPT !.op = "leave", !.pc = "update", !.who = p, !.conv = c, !.row = w]
  <1>2. req' = [req EXCEPT ![r] = n] /\ UNCHANGED <<users, convs, rows, left, messages, raced>>
    BY <1>1 DEF LeaveLookup, Start
  <1>3. w \in Row /\ w.conv = c /\ w.who = p
    BY <1>1 DEF Participations, Active, MsgInv, TypeOK
  <1>4. n \in Request /\ n.op = "leave" /\ n.pc = "update" /\ n.who = p /\ n.msg = None
        /\ n.conv = c /\ n.row = w /\ n.gone = {}
    BY <1>3 DEF Idle, Request
  <1> HIDE DEF n
  <1>5. Good(n)
    BY <1>3, <1>4 DEF Good, Shape, Opener, Joiner, Sender, Audience, Holds
  <1>6. \A t \in Requests : Apart(n, req[t]) /\ Apart(req[t], n)
    BY <1>4 DEF Apart
  <1> QED BY <1>2, <1>4, <1>5, <1>6, LocalKeeps

LEMMA UpdateParticipantKeeps ==
    ASSUME MsgInv, NEW r \in Requests, UpdateParticipant(r)
    PROVE  MsgInv'
  <1> DEFINE q == req[r]
             n == [q EXCEPT !.pc = "commit"]
  <1>1. /\ q \in Request /\ Good(q) /\ q.pc = "update"
        /\ UNCHANGED <<users, convs, rows, left, messages, raced>>
    BY DEF UpdateParticipant, MsgInv, TypeOK
  <1>2. q.op = "leave" /\ q.who \in People /\ q.conv \in Convs /\ q.msg = None /\ Holds(q) /\ q.gone = {}
    BY <1>1 DEF Good, Shape, Request, Idle
  <1>3. /\ n \in Request /\ n.op = "leave" /\ n.pc = "commit" /\ n.row = q.row
        /\ n.who = q.who /\ n.conv = q.conv /\ n.msg = None /\ n.gone = {}
    BY <1>1, <1>2 DEF Request
  <1>4. req' = [req EXCEPT ![r] = n]
    BY <1>1 DEF UpdateParticipant, MsgInv, TypeOK, Request
  <1> HIDE DEF n, q
  <1>5. Good(n)
    BY <1>2, <1>3 DEF Good, Shape, Opener, Joiner, Sender, Audience, Holds
  <1>6. \A t \in Requests : Apart(n, req[t]) /\ Apart(req[t], n)
    BY <1>3 DEF Apart
  <1> QED BY <1>1, <1>3, <1>4, <1>5, <1>6, LocalKeeps

-----------------------------------------------------------------------------
(* A request commits                                                       *)

\* It is over, and the others are as they were: what is left to show is that the
\* tables keep what is said of them and what the others rely on.
LEMMA EndKeeps ==
    ASSUME MsgInv, NEW r \in Requests, req' = [req EXCEPT ![r] = Idle],
           TypeOK', Tables', Joins',
           \A s \in Requests : s # r => Opener(req[s])' /\ Joiner(req[s])' /\ Sender(req[s])' /\ Audience(req[s])'
    PROVE  MsgInv'
  <1>1. /\ req'[r] = Idle
        /\ \A s \in Requests : s # r => req'[s] = req[s]
    BY DEF MsgInv, TypeOK
  <1>2. \A s \in Requests : Good(req[s])'
    <2> TAKE s \in Requests
    <2>1. CASE s = r
      BY <1>1, <2>1 DEF Good, Shape, Opener, Joiner, Sender, Audience, Idle
    <2>2. CASE s # r
      <3>1. Shape(req[s])'
        BY <1>1, <2>2 DEF MsgInv, Good, Shape, Holds
      <3> QED BY <2>2, <3>1 DEF Good
    <2> QED BY <2>1, <2>2
  <1>3. \A s, t \in Requests : s # t => Apart(req[s], req[t])'
    BY <1>1 DEF MsgInv, Apart, Idle
  <1> QED BY <1>2, <1>3 DEF MsgInv

LEMMA EndFacts ==
    ASSUME MsgInv, NEW r \in Requests, Commit(r)
    PROVE  /\ req[r] \in Request /\ Good(req[r]) /\ req[r].pc = "commit"
           /\ req' = [req EXCEPT ![r] = Idle] /\ req' \in [Requests -> Request]
           /\ req'[r] = Idle
           /\ \A s \in Requests : s # r => req'[s] = req[s] /\ Good(req[s]) /\ req[s] \in Request
                                           /\ Apart(req[r], req[s]) /\ Apart(req[s], req[r])
           /\ UNCHANGED <<users, raced>>
  BY IdleRecord DEF Commit, MsgInv, TypeOK

LEMMA CommitSendKeeps ==
    ASSUME MsgInv, NEW r \in Requests, Commit(r), req[r].op = "send"
    PROVE  MsgInv'
  <1> DEFINE q == req[r]
  <1>1. UNCHANGED <<users, convs, rows, left, raced>>
        /\ messages' = [messages EXCEPT ![q.msg] = [conv |-> q.conv, sender |-> q.who]]
    BY DEF Commit
  <1>2. q.msg \in Messages /\ q.conv \in Convs /\ q.who \in People
    BY EndFacts DEF Good, Shape
  <1>3. TypeOK' /\ Tables'
    BY <1>1, <1>2, EndFacts DEF MsgInv, TypeOK, Tables, Message
  <1>4. Joins'
    BY <1>1, EndFacts DEF MsgInv, Joins, Once, Participations, Active, Idle
  <1>5. ASSUME NEW s \in Requests, s # r
        PROVE  Opener(req[s])' /\ Joiner(req[s])' /\ Sender(req[s])' /\ Audience(req[s])'
    <2>1. req'[s] = req[s] /\ Good(req[s]) /\ Apart(q, req[s])
      BY <1>5, EndFacts
    <2>2. q.msg # req[s].msg
      BY <1>2, <2>1, MessagingAssumption DEF Apart
    <2>3. Opener(req[s])' /\ Joiner(req[s])' /\ Audience(req[s])'
      BY <1>1, <2>1 DEF Good, Opener, Joiner, Audience, Was, Present, Heard
    <2>4. Sender(req[s])'
      BY <1>1, <2>1, <2>2 DEF Good, Shape, Sender, Was, Present, MsgInv, TypeOK
    <2> QED BY <2>3, <2>4
  <1> QED BY <1>3, <1>4, <1>5, EndFacts, EndKeeps

LEMMA CommitLeaveKeeps ==
    ASSUME MsgInv, NEW r \in Requests, Commit(r), req[r].op = "leave"
    PROVE  MsgInv'
  <1> DEFINE q == req[r]
  <1>1. UNCHANGED <<users, convs, rows, messages, raced>> /\ left' = left \cup Leaving(q)
    BY DEF Commit
  <1>2. TypeOK' /\ Tables'
    BY <1>1, EndFacts DEF MsgInv, TypeOK, Tables, Leaving
  <1>3. Joins'
    BY <1>1, EndFacts DEF MsgInv, Joins, Once, Participations, Active, Idle
  <1>4. ASSUME NEW s \in Requests, s # r
        PROVE  Opener(req[s])' /\ Joiner(req[s])' /\ Sender(req[s])' /\ Audience(req[s])'
    <2>1. req'[s] = req[s] /\ Good(req[s])
      BY <1>4, EndFacts
    <2> QED BY <1>1, <2>1 DEF Good, Opener, Joiner, Sender, Audience, Was, Present, Heard
  <1> QED BY <1>2, <1>3, <1>4, EndFacts, EndKeeps

\* A row nobody counted on: its person had none, so had not left and has no
\* message to miss.
LEMMA CommitJoinKeeps ==
    ASSUME MsgInv, NEW r \in Requests, Commit(r), req[r].op = "join"
    PROVE  MsgInv'
  <1> DEFINE q == req[r]
             w == req[r].row
  <1>1. UNCHANGED <<users, convs, left, messages, raced>> /\ rows' = rows \cup {w}
    BY DEF Commit
  <1>2. /\ q.who \in People /\ q.conv \in Convs /\ w \in Row /\ w.conv = q.conv /\ w.who = q.who
        /\ convs[q.conv] # None /\ Present(q.who) /\ w \notin rows
        /\ q.who \in Users => ~Was(q.conv, q.who)
    BY EndFacts DEF Good, Shape, Holds, Joiner
  <1>3. TypeOK' /\ Tables'
    BY <1>1, <1>2, EndFacts DEF MsgInv, TypeOK, Tables
  <1>4. Joins'
    <2> SUFFICES ASSUME NEW d \in Convs, NEW o \in Operators, <<o, d>> \notin raced
                 PROVE  Once(d, o)'
      BY <1>1 DEF Joins
    <2>1. Once(d, o)
      BY DEF MsgInv, Joins
    <2>2. w \notin left
      BY <1>2 DEF MsgInv, TypeOK
    <2>3. CASE o = q.who /\ d = q.conv
      <3>1. Participations(d, o) = {} /\ \A s \in Requests :
              req[s].op = "join" /\ req[s].who = o /\ req[s].conv = d => s = r
        BY <2>1, <2>3 DEF Once
      <3>2. Participations(d, o)' = {w}
        BY <1>1, <1>2, <2>2, <2>3, <3>1 DEF Participations, Active
      <3>3. \A s \in Requests : ~(req'[s].op = "join" /\ req'[s].who = o /\ req'[s].conv = d)
        BY <3>1, EndFacts DEF Idle
      <3> QED BY <3>2, <3>3 DEF Once
    <2>4. CASE ~(o = q.who /\ d = q.conv)
      <3>1. Participations(d, o)' = Participations(d, o)
        BY <1>1, <1>2, <2>4 DEF Participations, Active
      <3> QED BY <2>1, <3>1, EndFacts DEF Once, Idle
    <2> QED BY <2>3, <2>4
  <1>5. ASSUME NEW s \in Requests, s # r
        PROVE  Opener(req[s])' /\ Joiner(req[s])' /\ Sender(req[s])' /\ Audience(req[s])'
    <2>1. req'[s] = req[s] /\ Good(req[s]) /\ Apart(q, req[s]) /\ req[s] \in Request
      BY <1>5, EndFacts
    <2>2. Opener(req[s])' /\ Sender(req[s])'
      BY <1>1, <2>1 DEF Good, Opener, Sender, Was, Present
    <2>3. Joiner(req[s])'
      <3> SUFFICES ASSUME req[s].op = "join" PROVE Joiner(req[s])'
        BY <2>1 DEF Joiner
      <3>1. req[s].pc = "commit" => /\ req[s].row # w
                                    /\ req[s].who \in Users => ~(q.conv = req[s].conv /\ q.who = req[s].who)
        BY <2>1, EndFacts DEF Apart
      <3> QED BY <1>1, <1>2, <2>1, <3>1 DEF Good, Joiner, Was, Present
    <2>4. Audience(req[s])'
      <3> SUFFICES ASSUME req[s].op = "send" PROVE Audience(req[s])'
        BY <2>1 DEF Audience
      <3> DEFINE b == req[s]
      <3>1. Audience(b) /\ b.gone \subseteq Users
        BY <2>1 DEF Good, Request
      <3>2. w \notin b.present
        BY <1>2, <3>1 DEF Audience
      <3>3. \A u \in b.gone : ~(q.conv = b.conv /\ q.who = u)
        BY <1>2, <3>1 DEF Audience
      <3> QED BY <1>1, <1>2, <2>1, <3>1, <3>2, <3>3 DEF Audience, Was, Present, Heard
    <2> QED BY <2>2, <2>3, <2>4
  <1> QED BY <1>3, <1>4, <1>5, EndFacts, EndKeeps

\* A conversation nobody else knows of.
LEMMA CommitCreateKeeps ==
    ASSUME MsgInv, NEW r \in Requests, Commit(r), req[r].op = "create"
    PROVE  MsgInv'
  <1> DEFINE q == req[r]
             c == req[r].conv
             F == FirstRows(req[r])
  <1>1. /\ UNCHANGED <<users, left, messages, raced>> /\ rows' = rows \cup F
        /\ convs' = [convs EXCEPT ![c] = [center |-> q.center, direct |-> q.direct]]
    BY DEF Commit
  <1>2. /\ c \in Convs /\ convs[c] = None /\ q.who \in Users /\ q.invited \subseteq Users
        /\ q.center \in Centers \cup {None} /\ q.direct \in BOOLEAN
    BY EndFacts DEF Good, Shape, Opener, Request
  <1>3. F \subseteq Row /\ \A w \in F : w.conv = c /\ w.n = 1
    BY <1>2, MessagingAssumption DEF FirstRows, Row, People
  <1>4. \A w \in rows : w.conv # c
    BY <1>2 DEF MsgInv, Tables
  <1>5. convs'[c] # None /\ \A d \in Convs : d # c => convs'[d] = convs[d]
    BY <1>1, <1>2, MessagingAssumption DEF MsgInv, TypeOK
  <1>6. TypeOK'
    BY <1>1, <1>2, <1>3, EndFacts DEF MsgInv, TypeOK, Conversation
  <1>7. Tables'
    BY <1>1, <1>3, <1>4, <1>5 DEF MsgInv, TypeOK, Tables, Row
  <1>8. Joins'
    <2> SUFFICES ASSUME NEW d \in Convs, NEW o \in Operators, <<o, d>> \notin raced
                 PROVE  Once(d, o)'
      BY <1>1 DEF Joins
    <2>1. Once(d, o)
      BY DEF MsgInv, Joins
    <2>2. CASE d = c
      <3>1. \A s \in Requests : ~(req[s].op = "join" /\ req[s].conv = c)
        BY <1>2 DEF MsgInv, Good, Joiner
      <3>2. \A v, w \in F : v.who = w.who => v = w
        BY DEF FirstRows
      <3>3. \A v, w \in Participations(d, o)' : v = w
        BY <1>1, <1>4, <2>2, <3>2 DEF Participations, Active
      <3> QED BY <2>2, <3>1, <3>3, EndFacts DEF Once, Idle
    <2>3. CASE d # c
      <3>1. Participations(d, o)' = Participations(d, o)
        BY <1>1, <1>3, <2>3 DEF Participations, Active
      <3> QED BY <2>1, <3>1, EndFacts DEF Once, Idle
    <2> QED BY <2>2, <2>3
  <1>9. ASSUME NEW s \in Requests, s # r
        PROVE  Opener(req[s])' /\ Joiner(req[s])' /\ Sender(req[s])' /\ Audience(req[s])'
    <2> DEFINE b == req[s]
    <2>1. req'[s] = b /\ Good(b) /\ Shape(b) /\ Apart(q, b) /\ Apart(b, q) /\ b \in Request
      BY <1>9, EndFacts DEF Good
    <2>2. b.op = "create" /\ b.pc = "commit" => b.conv # c /\ b.conv \in Convs
      BY <1>2, <2>1, MessagingAssumption DEF Apart, Shape
    <2>3. b.op \in {"join", "send"} => b.conv # c /\ b.conv \in Convs
      BY <1>2, <2>1 DEF Good, Joiner, Sender, Shape
    <2>4. Opener(req[s])'
      BY <1>1, <1>5, <2>1, <2>2 DEF Good, Opener
    <2>5. Joiner(req[s])'
      <3> SUFFICES ASSUME b.op = "join" PROVE Joiner(req[s])'
        BY <2>1 DEF Joiner
      <3>1. b.pc = "commit" => b.row.conv # c
        BY <2>1, <2>3 DEF Shape, Holds
      <3> QED BY <1>1, <1>3, <1>5, <2>1, <2>3, <3>1 DEF Good, Joiner, Was, Present
    <2>6. Sender(req[s])'
      BY <1>1, <1>5, <2>1, <2>3 DEF Good, Sender, Was, Present
    <2>7. Audience(req[s])'
      <3> SUFFICES ASSUME b.op = "send" PROVE Audience(req[s])'
        BY <2>1 DEF Audience
      <3>1. Audience(b) /\ \A w \in F : w.conv # b.conv
        BY <1>3, <2>1, <2>3 DEF Good
      <3> QED BY <1>1, <2>1, <3>1 DEF Audience, Was, Present, Heard
    <2> QED BY <2>4, <2>5, <2>6, <2>7
  <1> QED BY <1>6, <1>7, <1>8, <1>9, EndFacts, EndKeeps

LEMMA CommitKeeps ==
    ASSUME MsgInv, NEW r \in Requests, Commit(r)
    PROVE  MsgInv'
  <1>1. req[r].op \in {"create", "send", "join", "leave"}
    BY EndFacts DEF Good, Shape, Idle, Request
  <1> QED BY <1>1, CommitCreateKeeps, CommitSendKeeps, CommitJoinKeeps, CommitLeaveKeeps

-----------------------------------------------------------------------------
(* A user is deleted                                                       *)

\* Rows and names go; what a request holds a lock for cannot.
LEMMA DeleteUserKeeps ==
    ASSUME MsgInv, NEW u \in Users, DeleteUser(u)
    PROVE  MsgInv'
  <1>1. /\ \A r \in Requests : ~Refers(req[r], u)
        /\ users' = users \ {u}
        /\ rows' = {w \in rows : w.who # u}
        /\ left' = {w \in left : w.who # u}
        /\ messages' = [m \in Messages |-> IF messages[m] # None /\ messages[m].sender = u
                                           THEN [messages[m] EXCEPT !.sender = None]
                                           ELSE messages[m]]
        /\ UNCHANGED <<convs, req, raced>>
    BY DEF DeleteUser
  <1>2. \A m \in Messages : /\ messages'[m] \in Message \cup {None}
                            /\ messages[m] = None => messages'[m] = None
    BY <1>1 DEF MsgInv, TypeOK, Message
  <1>3. TypeOK'
    <2>1. messages' \in [Messages -> Message \cup {None}]
      BY <1>1, <1>2
    <2> QED BY <1>1, <2>1 DEF MsgInv, TypeOK
  <1>4. Tables'
    BY <1>1 DEF MsgInv, Tables
  <1>5. Joins'
    BY <1>1 DEF MsgInv, Joins, Once, Participations, Active
  <1>6. Present(u)' = FALSE
    BY <1>1, MessagingAssumption DEF Present
  <1>7. \A s \in Requests : Good(req[s])'
    <2> TAKE s \in Requests
    <2> DEFINE q == req[s]
    <2>1. req'[s] = q /\ Good(q) /\ Shape(q) /\ ~Refers(q, u) /\ q \in Request
      BY <1>1 DEF MsgInv, TypeOK, Good
    <2>2. Shape(req[s])'
      BY <1>1, <2>1 DEF Shape, Holds
    <2>3. Opener(req[s])'
      BY <1>1, <2>1 DEF Good, Opener, Refers
    <2>4. Joiner(req[s])'
      BY <1>1, <2>1 DEF Good, Joiner, Refers, Was, Present
    <2>5. Sender(req[s])'
      <3> SUFFICES ASSUME q.op = "send" PROVE Sender(req[s])'
        BY <2>1 DEF Sender
      <3>1. Sender(q) /\ (q.pc # "insert" => q.who # u /\ q.msg \in Messages)
        BY <2>1 DEF Good, Refers, Shape
      <3>2. q.who = u \/ (Was(q.conv, q.who) => Was(q.conv, q.who)')
        BY <1>1 DEF Was
      <3>3. ~Present(q.who) => ~Present(q.who)'
        BY <1>1 DEF Present
      <3>4. q.who = u => ~Present(q.who)'
        BY <1>1, MessagingAssumption DEF Present
      <3>5. q.who # u => (Present(q.who) => Present(q.who)')
        BY <1>1 DEF Present
      <3> QED BY <1>1, <1>2, <2>1, <3>1, <3>2, <3>3, <3>4, <3>5 DEF Sender, Was, Present
    <2>6. Audience(req[s])'
      <3> SUFFICES ASSUME q.op = "send" PROVE Audience(req[s])'
        BY <2>1 DEF Audience
      <3>1. Audience(q)
        BY <2>1 DEF Good
      <3>2. \A w \in q.present : w.conv = q.conv /\ (w \in rows' \/ ~Present(w.who)')
        BY <1>1, <3>1, MessagingAssumption DEF Audience, Present
      <3>3. \A v \in q.gone : /\ \A w \in rows' : w.conv = q.conv /\ w.who = v => w \in left'
                              /\ Was(q.conv, v)' \/ ~Present(v)'
        BY <1>1, <3>1, MessagingAssumption DEF Audience, Present, Was
      <3>4. \A w \in (q.present \cap rows') \ left' : w \in (q.present \cap rows) \ left
        BY <1>1
      <3> QED BY <2>1, <3>1, <3>2, <3>3, <3>4 DEF Audience, Was, Present, Heard
    <2> QED BY <2>2, <2>3, <2>4, <2>5, <2>6 DEF Good
  <1>8. \A s, t \in Requests : s # t => Apart(req[s], req[t])'
    BY <1>1 DEF MsgInv, Apart
  <1> QED BY <1>3, <1>4, <1>5, <1>7, <1>8 DEF MsgInv

-----------------------------------------------------------------------------
(* The invariant                                                           *)

LEMMA MsgInit == Init => MsgInv
  <1> SUFFICES ASSUME Init PROVE MsgInv
    OBVIOUS
  <1>1. TypeOK
    BY IdleRecord DEF Init, TypeOK
  <1>2. Tables /\ Joins
    BY DEF Init, Tables, Joins, Once, Participations, Active, Idle
  <1>3. \A r \in Requests : Good(req[r])
    BY IdleRecord DEF Init
  <1>4. \A r, s \in Requests : r # s => Apart(req[r], req[s])
    BY DEF Init, Apart, Idle
  <1> QED BY <1>1, <1>2, <1>3, <1>4 DEF MsgInv

LEMMA MsgQuiet ==
    ASSUME MsgInv, UNCHANGED vars
    PROVE  MsgInv'
  <1>1. TypeOK' /\ Tables'
    BY DEF MsgInv, TypeOK, Tables, vars
  <1>2. Joins'
    BY DEF MsgInv, Joins, Once, Participations, Active, vars
  <1>3. \A s \in Requests : Good(req[s])'
    BY DEF MsgInv, Good, Shape, Holds, Opener, Joiner, Sender, Audience, Was, Present, Heard, vars
  <1>4. \A s, t \in Requests : s # t => Apart(req[s], req[t])'
    BY DEF MsgInv, Apart, vars
  <1> QED BY <1>1, <1>2, <1>3, <1>4 DEF MsgInv

LEMMA MsgNext == MsgInv /\ [Next]_vars => MsgInv'
  <1> SUFFICES ASSUME MsgInv, [Next]_vars PROVE MsgInv'
    OBVIOUS
  <1>1. ASSUME NEW r \in Requests, Begin(r)
        PROVE  MsgInv'
    BY <1>1, CreateLookupKeeps, SendVerifyKeeps, JoinLookupKeeps, LeaveLookupKeeps DEF Begin
  <1>2. ASSUME NEW r \in Requests, Step(r)
        PROVE  MsgInv'
    BY <1>2, FindDirectKeeps, InsertConversationKeeps, InsertMessageKeeps, ReadOthersKeeps, TellKeeps,
       JoinInsertKeeps, UpdateParticipantKeeps, CommitKeeps DEF Step
  <1> QED BY <1>1, <1>2, AbortKeeps, DeleteUserKeeps, MsgQuiet DEF Next

LEMMA MsgAlways == Spec => []MsgInv
  BY MsgInit, MsgNext, PTL DEF Spec

-----------------------------------------------------------------------------
(* The theorems                                                            *)

\* Tables and requests keep their types, and only rows that are there are marked
\* as left, whatever is deleted while somebody leaves.
THEOREM MsgTypeCorrect == Spec => []TypeOK
  BY MsgAlways, PTL DEF MsgInv

\* A message about to be committed was sent to everybody else who took part when
\* its sender was verified and still does (send_message, _notify_participants).
THEOREM MsgNobodyMissed == Spec => []NobodyMissed
  <1>1. MsgInv => NobodyMissed
    BY DEF MsgInv, Good, Audience, Heard, NobodyMissed
  <1> QED BY <1>1, MsgAlways, PTL

\* No message is sent to a user who had left (get_other_participants).
THEOREM MsgNobodyLeftTold == Spec => []NobodyLeftTold
  <1>1. ASSUME MsgInv, NEW r \in Requests
        PROVE  req[r].gone \cap req[r].told = {}
    <2>1. CASE req[r].op = "send"
      BY <1>1, <2>1 DEF MsgInv, Good, Audience
    <2>2. CASE req[r].op # "send"
      BY <1>1, <2>2 DEF MsgInv, Good, Shape
    <2> QED BY <2>1, <2>2
  <1>2. MsgInv => NobodyLeftTold
    BY <1>1 DEF NobodyLeftTold
  <1> QED BY <1>2, MsgAlways, PTL

\* An operator takes part in a conversation once, unless two requests of the
\* operator to join it overlapped (join_conversation).
THEOREM MsgOneRowPerOperator == Spec => []OneRowPerOperator
  <1>1. ASSUME MsgInv, NEW c \in Convs, NEW o \in Operators, <<o, c>> \notin raced
        PROVE  Cardinality(Participations(c, o)) <= 1
    <2>1. CASE Participations(c, o) = {}
      BY <2>1, FS_EmptySet
    <2>2. CASE Participations(c, o) # {}
      <3>1. PICK w : w \in Participations(c, o)
        BY <2>2
      <3>2. Participations(c, o) = {w}
        BY <1>1, <3>1 DEF MsgInv, Joins, Once
      <3>3. Cardinality({w}) = 1
        BY FS_Singleton
      <3> QED BY <3>2, <3>3
    <2> QED BY <2>1, <2>2
  <1>2. MsgInv => OneRowPerOperator
    BY <1>1 DEF OneRowPerOperator
  <1> QED BY <1>2, MsgAlways, PTL

-----------------------------------------------------------------------------
(* Messaging implements the log of conversations                           *)

LEMMA LogQuiet == UNCHANGED <<rows, left, messages>> => UNCHANGED Log!cvars
  BY DEF Log!cvars, MembersOf, EverIn, RowsOf

LEMMA LogOpens ==
    ASSUME MsgInv, NEW r \in Requests, Commit(r), req[r].op = "create"
    PROVE  Log!Next
  <1> DEFINE q == req[r]
             c == req[r].conv
             F == FirstRows(req[r])
             P == {w.who : w \in F}
  <1>1. UNCHANGED <<left, messages>> /\ rows' = rows \cup F
    BY DEF Commit
  <1>2. /\ c \in Convs /\ convs[c] = None /\ q.who \in Users /\ q.invited \subseteq Users
        /\ q.center \in Centers \cup {None}
    BY EndFacts DEF Good, Shape, Opener, Request
  <1>3. F \subseteq Row /\ \A w \in F : w.conv = c
    BY <1>2, MessagingAssumption DEF FirstRows, Row, People
  <1>4. \A w \in rows \cup left : w.conv # c
    BY <1>2 DEF MsgInv, Tables, TypeOK
  <1> HIDE DEF F
  <1>5. P \subseteq Users \cup Operators
    BY <1>3 DEF Row, People
  <1>6. \A d \in Convs : EverIn(d)' = IF d = c THEN P ELSE EverIn(d)
    BY <1>1, <1>3, <1>4 DEF EverIn, RowsOf
  <1>7. \A d \in Convs : MembersOf(d)' = IF d = c THEN P ELSE MembersOf(d)
    BY <1>1, <1>3, <1>4 DEF MembersOf, RowsOf
  <1>8. EverIn(c) = {}
    BY <1>4 DEF EverIn, RowsOf
  <1> HIDE DEF P, c
  <1>9. Log!Open(c)
    BY <1>1, <1>2, <1>5, <1>6, <1>7, <1>8 DEF Log!Open
  <1> QED BY <1>2, <1>9 DEF Log!Next

LEMMA LogJoins ==
    ASSUME MsgInv, NEW r \in Requests, Commit(r), req[r].op = "join"
    PROVE  Log!Next
  <1> DEFINE q == req[r]
             w == req[r].row
             c == req[r].conv
             p == req[r].who
  <1>1. UNCHANGED <<left, messages>> /\ rows' = rows \cup {w}
    BY DEF Commit
  <1>2. /\ p \in Users \cup Operators /\ c \in Convs /\ w.conv = c /\ w.who = p /\ w \notin rows
        /\ p \in Users => ~Was(c, p)
    BY EndFacts DEF Good, Shape, Holds, Joiner, People
  <1>3. w \notin left
    BY <1>2 DEF MsgInv, TypeOK
  <1> HIDE DEF w, c, p
  <1>4. \A d \in Convs : EverIn(d)' = IF d = c THEN EverIn(c) \cup {p} ELSE EverIn(d)
    BY <1>1, <1>2 DEF EverIn, RowsOf
  <1>5. \A d \in Convs : MembersOf(d)' = IF d = c THEN MembersOf(c) \cup {p} ELSE MembersOf(d)
    BY <1>1, <1>2, <1>3 DEF MembersOf, RowsOf
  <1>6. p \in Users => p \notin EverIn(c)
    BY <1>2 DEF Was, EverIn, RowsOf
  <1>7. Log!Join(c, p)
    BY <1>1, <1>2, <1>4, <1>5, <1>6 DEF Log!Join
  <1> QED BY <1>2, <1>7 DEF Log!Next

\* Marking one row of an operator who has two changes no member.
LEMMA LogLeaves ==
    ASSUME MsgInv, NEW r \in Requests, Commit(r), req[r].op = "leave"
    PROVE  Log!Next \/ UNCHANGED Log!cvars
  <1>1. /\ UNCHANGED <<rows, messages>> /\ left' = left \cup ({req[r].row} \cap rows)
        /\ req[r].who \in Users \cup Operators /\ req[r].conv \in Convs /\ Holds(req[r])
    BY EndFacts DEF Commit, Leaving, Good, Shape, People
  <1>2. PICK c \in Convs, p \in Users \cup Operators, w \in Row :
          w.conv = c /\ w.who = p /\ left' = left \cup ({w} \cap rows)
    BY <1>1 DEF Holds
  <1>3. \A d \in Convs : EverIn(d)' = EverIn(d)
    BY <1>1 DEF EverIn, RowsOf
  <1>4. \A d \in Convs : d # c => MembersOf(d)' = MembersOf(d)
    BY <1>1, <1>2 DEF MembersOf, RowsOf
  <1>5. MembersOf(c)' \subseteq MembersOf(c) /\ MembersOf(c) \ {p} \subseteq MembersOf(c)'
    BY <1>1, <1>2 DEF MembersOf, RowsOf
  <1>6. CASE p \in MembersOf(c)'
    <2>1. \A d \in Convs : MembersOf(d)' = MembersOf(d)
      BY <1>4, <1>5, <1>6
    <2> QED BY <1>1, <1>3, <2>1 DEF Log!cvars
  <1>7. CASE p \notin MembersOf(c)'
    <2>1. \A d \in Convs : MembersOf(d)' = IF d = c THEN MembersOf(c) \ {p} ELSE MembersOf(d)
      BY <1>4, <1>5, <1>7
    <2>2. Log!Leave(c, p)
      BY <1>1, <1>2, <1>3, <2>1 DEF Log!Leave
    <2> QED BY <1>2, <2>2 DEF Log!Next
  <1> QED BY <1>6, <1>7

LEMMA LogPosts ==
    ASSUME MsgInv, NEW r \in Requests, Commit(r), req[r].op = "send"
    PROVE  Log!Next
  <1> DEFINE m == req[r].msg
             c == req[r].conv
             p == req[r].who
  <1>1. UNCHANGED <<rows, left>> /\ messages' = [messages EXCEPT ![m] = [conv |-> c, sender |-> p]]
    BY DEF Commit
  <1>2. /\ m \in Messages /\ c \in Convs /\ p \in Users \cup Operators
        /\ messages[m] = None /\ Was(c, p)
    BY EndFacts DEF Good, Shape, Sender, People
  <1> HIDE DEF m, c, p
  <1>3. p \in EverIn(c)
    BY <1>2 DEF Was, EverIn, RowsOf
  <1>4. \A d \in Convs : EverIn(d)' = EverIn(d) /\ MembersOf(d)' = MembersOf(d)
    BY <1>1 DEF EverIn, MembersOf, RowsOf
  <1>5. Log!Post(m, c, p)
    BY <1>1, <1>2, <1>3, <1>4 DEF Log!Post
  <1> QED BY <1>2, <1>5 DEF Log!Next

LEMMA LogForgets ==
    ASSUME MsgInv, NEW u \in Users, DeleteUser(u)
    PROVE  Log!Next
  <1>1. /\ rows' = {w \in rows : w.who # u}
        /\ left' = {w \in left : w.who # u}
        /\ messages' = [m \in Messages |-> IF messages[m] # None /\ messages[m].sender = u
                                           THEN [messages[m] EXCEPT !.sender = None]
                                           ELSE messages[m]]
    BY DEF DeleteUser
  <1>2. \A d \in Convs : EverIn(d)' = EverIn(d) \ {u}
    BY <1>1 DEF EverIn, RowsOf
  <1>3. \A d \in Convs : MembersOf(d)' = MembersOf(d) \ {u}
    BY <1>1 DEF MembersOf, RowsOf
  <1>4. Log!Forget(u)
    BY <1>1, <1>2, <1>3 DEF Log!Forget
  <1> QED BY <1>4 DEF Log!Next

LEMMA LogStep == MsgInv /\ [Next]_vars => [Log!Next]_Log!cvars
  <1> SUFFICES ASSUME MsgInv, [Next]_vars PROVE Log!Next \/ UNCHANGED Log!cvars
    OBVIOUS
  <1>1. ASSUME NEW r \in Requests, Begin(r) \/ Abort(r)
        PROVE  UNCHANGED <<rows, left, messages>>
    BY <1>1 DEF Begin, Opens, CreateLookup, SendVerify, JoinLookup, LeaveLookup, Start, Abort
  <1>2. ASSUME NEW r \in Requests, Step(r), ~Commit(r)
        PROVE  UNCHANGED <<rows, left, messages>>
    BY <1>2 DEF Step, FindDirect, InsertConversation, InsertMessage, ReadOthers, Tell,
       JoinInsert, UpdateParticipant
  <1>3. ASSUME NEW r \in Requests, Commit(r)
        PROVE  Log!Next \/ UNCHANGED Log!cvars
    <2>1. req[r].op \in {"create", "send", "join", "leave"}
      BY <1>3, EndFacts DEF Good, Shape, Idle, Request
    <2> QED BY <1>3, <2>1, LogOpens, LogJoins, LogLeaves, LogPosts
  <1>4. CASE UNCHANGED vars
    BY <1>4, LogQuiet DEF vars
  <1> QED BY <1>1, <1>2, <1>3, <1>4, LogQuiet, LogForgets DEF Next

\* Overlapping, failing and half-done requests never show in the tables as anything
\* but conversations opened, joined, left and written to one after the other, by
\* their members (messaging_service, delete_mobile_user).
THEOREM MsgImplementsLog == Spec => ImplementsLog
  <1>1. Init => Log!Init
    BY DEF Init, Log!Init, MembersOf, EverIn, RowsOf
  <1> QED BY <1>1, LogStep, MsgAlways, PTL DEF Spec, ImplementsLog, Log!Spec

-----------------------------------------------------------------------------
(***************************************************************************)
(* What the tables say of people.  PeopleInv rests on MsgInv, which knows  *)
(* what the requests under way will still write.                           *)
(***************************************************************************)

\* Who takes part or took part has an account, and a user has one row for a conversation.
LivingRows ==
    /\ \A w \in rows : Present(w.who)
    /\ \A v, w \in rows : v.conv = w.conv /\ v.who = w.who /\ v.who \in Users => v = w

\* The sender of a message is there, and takes or took part in its conversation.
LivingSenders ==
    \A m \in Messages : messages[m] # None /\ messages[m].sender # None =>
        /\ Present(messages[m].sender)
        /\ Was(messages[m].conv, messages[m].sender)

PeopleInv == LivingRows /\ LivingSenders

\* Another step than a deletion keeps the rows, and adds some of people who have an
\* account; none for a user who has one.
LEMMA RowsGrow ==
    ASSUME MsgInv, [Next]_vars, \A u \in Users : ~DeleteUser(u)
    PROVE  /\ users' = users /\ rows \subseteq rows' /\ left \subseteq left'
           /\ \A w \in rows' \ rows :
                Present(w.who) /\ (w.who \in Users => ~Was(w.conv, w.who))
           /\ \A v, w \in rows' \ rows : v.conv = w.conv /\ v.who = w.who => v = w
  <1>1. ASSUME NEW r \in Requests, Begin(r) \/ Abort(r)
        PROVE  UNCHANGED <<users, rows, left>>
    BY <1>1 DEF Begin, Opens, CreateLookup, SendVerify, JoinLookup, LeaveLookup, Start, Abort
  <1>2. ASSUME NEW r \in Requests, Step(r), ~Commit(r)
        PROVE  UNCHANGED <<users, rows, left>>
    BY <1>2 DEF Step, FindDirect, InsertConversation, InsertMessage, ReadOthers, Tell,
       JoinInsert, UpdateParticipant
  <1>3. CASE \E r \in Requests : Commit(r)
    <2>1. PICK r \in Requests : Commit(r)
      BY <1>3
    <2>2. users' = users /\ left \subseteq left'
      BY <2>1 DEF Commit
    <2>3. Good(req[r]) /\ req[r].pc = "commit" /\ req[r] \in Request
      BY <2>1, EndFacts
    <2>4. CASE req[r].op = "create"
      <3> DEFINE q == req[r]
                 F == FirstRows(req[r])
      <3>1. rows' = rows \cup F
        BY <2>1, <2>4 DEF Commit
      <3>2. /\ q.conv \in Convs /\ convs[q.conv] = None /\ q.invited \cup {q.who} \subseteq users
            /\ q.center \in Centers \cup {None}
        BY <2>3, <2>4 DEF Good, Shape, Opener, Request
      <3>3. \A w \in F : w.conv = q.conv /\ w.n = 1 /\ Present(w.who) /\ w \in Row
        BY <3>2, MessagingAssumption DEF FirstRows, Row, People, Present, MsgInv, TypeOK
      <3>4. \A p \in People : ~Was(q.conv, p)
        BY <3>2 DEF Was, MsgInv, Tables
      <3> HIDE DEF F
      <3>5. \A v, w \in F : v.conv = w.conv /\ v.who = w.who => v = w
        BY <3>3 DEF Row
      <3> QED BY <2>2, <3>1, <3>3, <3>4, <3>5 DEF Row
    <2>5. CASE req[r].op = "join"
      <3>1. rows' = rows \cup {req[r].row}
        BY <2>1, <2>5 DEF Commit
      <3>2. /\ req[r].row.conv = req[r].conv /\ req[r].row.who = req[r].who
            /\ Present(req[r].who) /\ (req[r].who \in Users => ~Was(req[r].conv, req[r].who))
        BY <2>3, <2>5 DEF Good, Shape, Holds, Joiner
      <3> QED BY <2>2, <3>1, <3>2
    <2>6. CASE req[r].op \notin {"create", "join"}
      <3>1. rows' = rows
        BY <2>1, <2>6 DEF Commit
      <3> QED BY <2>2, <3>1
    <2> QED BY <2>4, <2>5, <2>6
  <1>4. CASE UNCHANGED vars
    BY <1>4 DEF vars
  <1>5. CASE UNCHANGED <<users, rows, left>>
    BY <1>5
  <1> QED BY <1>1, <1>2, <1>3, <1>4, <1>5 DEF Next

\* A message that is there stays as it is until its sender is deleted; a new one has a
\* sender who is there and has a row.
LEMMA MessagesGrow ==
    ASSUME MsgInv, [Next]_vars, NEW m \in Messages, \A u \in Users : ~DeleteUser(u)
    PROVE  \/ messages'[m] = messages[m]
           \/ /\ messages[m] = None
              /\ Present(messages'[m].sender) /\ Was(messages'[m].conv, messages'[m].sender)
  <1>1. ASSUME NEW r \in Requests, Begin(r) \/ Abort(r)
        PROVE  UNCHANGED messages
    BY <1>1 DEF Begin, Opens, CreateLookup, SendVerify, JoinLookup, LeaveLookup, Start, Abort
  <1>2. ASSUME NEW r \in Requests, Step(r), ~Commit(r)
        PROVE  UNCHANGED messages
    BY <1>2 DEF Step, FindDirect, InsertConversation, InsertMessage, ReadOthers, Tell,
       JoinInsert, UpdateParticipant
  <1>3. ASSUME NEW r \in Requests, Commit(r)
        PROVE  \/ messages'[m] = messages[m]
               \/ /\ messages[m] = None
                  /\ Present(messages'[m].sender) /\ Was(messages'[m].conv, messages'[m].sender)
    <2>1. CASE req[r].op # "send"
      BY <1>3, <2>1 DEF Commit
    <2>2. CASE req[r].op = "send"
      <3>1. messages' = [messages EXCEPT ![req[r].msg] = [conv |-> req[r].conv, sender |-> req[r].who]]
        BY <1>3, <2>2 DEF Commit
      <3>2. /\ messages[req[r].msg] = None /\ Present(req[r].who) /\ Was(req[r].conv, req[r].who)
            /\ req[r].msg \in Messages
        BY <1>3, <2>2, EndFacts DEF Good, Shape, Sender
      <3>3. messages \in [Messages -> Message \cup {None}]
        BY DEF MsgInv, TypeOK
      <3>4. CASE m = req[r].msg
        <4>1. messages'[m] = [conv |-> req[r].conv, sender |-> req[r].who]
          BY <3>1, <3>3, <3>4
        <4> QED BY <3>2, <3>4, <4>1
      <3>5. CASE m # req[r].msg
        BY <3>1, <3>3, <3>5
      <3> QED BY <3>4, <3>5
    <2> QED BY <2>1, <2>2
  <1>4. CASE UNCHANGED vars
    BY <1>4 DEF vars
  <1> QED BY <1>1, <1>2, <1>3, <1>4 DEF Next

\* A deletion takes the user's rows, and the name off the messages.
LEMMA DeletionTakes ==
    ASSUME MsgInv, NEW u \in Users, DeleteUser(u)
    PROVE  /\ u \in users /\ users' = users \ {u}
           /\ rows' = {w \in rows : w.who # u} /\ left' = {w \in left : w.who # u}
           /\ \A m \in Messages :
                IF messages[m] # None /\ messages[m].sender = u
                THEN messages'[m] = [messages[m] EXCEPT !.sender = None]
                ELSE messages'[m] = messages[m]
  BY DEF DeleteUser

LEMMA PeopleNext == PeopleInv /\ MsgInv /\ [Next]_vars => PeopleInv'
  <1> SUFFICES ASSUME PeopleInv, MsgInv, [Next]_vars PROVE PeopleInv'
    OBVIOUS
  <1>1. CASE \E u \in Users : DeleteUser(u)
    <2>1. PICK u \in Users : DeleteUser(u)
      BY <1>1
    <2>2. LivingRows'
      BY <2>1, DeletionTakes DEF PeopleInv, LivingRows, Present
    <2>3. ASSUME NEW m \in Messages, messages'[m] # None, messages'[m].sender # None
          PROVE  (Present(messages[m].sender) /\ Was(messages[m].conv, messages[m].sender))'
      <3>1. messages[m] \in Message \cup {None}
        BY DEF MsgInv, TypeOK
      <3>2. messages'[m] = messages[m] /\ messages[m].sender # u
        BY <2>1, <2>3, <3>1, DeletionTakes DEF Message
      <3>3. Present(messages[m].sender) /\ Was(messages[m].conv, messages[m].sender)
        BY <2>3, <3>2 DEF PeopleInv, LivingSenders
      <3> QED BY <2>1, <3>2, <3>3, DeletionTakes DEF Present, Was
    <2> QED BY <2>2, <2>3 DEF PeopleInv, LivingSenders
  <1>2. CASE \A u \in Users : ~DeleteUser(u)
    <2>1. LivingRows'
      BY <1>2, RowsGrow DEF PeopleInv, LivingRows, Present, Was
    <2>2. ASSUME NEW m \in Messages, messages'[m] # None, messages'[m].sender # None
          PROVE  (Present(messages[m].sender) /\ Was(messages[m].conv, messages[m].sender))'
      <3>1. Present(messages'[m].sender) /\ Was(messages'[m].conv, messages'[m].sender)
        BY <1>2, <2>2, MessagesGrow DEF PeopleInv, LivingSenders
      <3> QED BY <1>2, <3>1, RowsGrow DEF Present, Was
    <2> QED BY <2>1, <2>2 DEF PeopleInv, LivingSenders
  <1> QED BY <1>1, <1>2

\* messaging_service and delete_mobile_user: nobody who was deleted is left as a
\* participant or as a sender, a user takes part in a conversation in one row, and
\* who wrote a message takes or took part in its conversation.
THEOREM MsgPeopleThere == Spec => []PeopleInv
  <1>1. Init => PeopleInv
    BY DEF Init, PeopleInv, LivingRows, LivingSenders
  <1> QED BY <1>1, PeopleNext, MsgAlways, PTL DEF Spec

MessagesStay ==
    [][\A m \in Messages : messages[m] # None =>
         \/ messages'[m] = messages[m]
         \/ /\ messages[m].sender \in users \ users'
            /\ messages'[m] = [messages[m] EXCEPT !.sender = None]]_vars

\* A message that was committed is never changed, moved or removed; it loses its
\* sender in the step that deletes that user (models/messaging.py, delete_mobile_user).
THEOREM MsgMessagesStay == Spec => MessagesStay
  <1>1. ASSUME MsgInv, [Next]_vars, NEW m \in Messages, messages[m] # None
        PROVE  \/ messages'[m] = messages[m]
               \/ /\ messages[m].sender \in users \ users'
                  /\ messages'[m] = [messages[m] EXCEPT !.sender = None]
    <2>1. CASE \E u \in Users : DeleteUser(u)
      BY <1>1, <2>1, DeletionTakes
    <2> QED BY <1>1, <2>1, MessagesGrow
  <1>2. MsgInv /\ [Next]_vars =>
          [\A m \in Messages : messages[m] # None =>
             \/ messages'[m] = messages[m]
             \/ /\ messages[m].sender \in users \ users'
                /\ messages'[m] = [messages[m] EXCEPT !.sender = None]]_vars
    BY <1>1
  <1> QED BY <1>2, MsgAlways, PTL DEF Spec, MessagesStay

\* The user left the conversation, or has no account any more.
Out(c, u) == u \notin users \/ u \in EverIn(c) \ MembersOf(c)

StaysOut(c, u) == [](Out(c, u) => [](u \notin MembersOf(c)))

\* join_conversation, get_participant: a user who left a conversation, or was deleted,
\* never takes part in it again, whatever requests were under way.
THEOREM MsgLeavingIsFinal == Spec => \A c \in Convs, u \in Users : StaysOut(c, u)
  <1> SUFFICES ASSUME NEW c \in Convs, NEW u \in Users PROVE Spec => StaysOut(c, u)
    OBVIOUS
  <1>1. Out(c, u) /\ MsgInv /\ [Next]_vars => Out(c, u)'
    <2> SUFFICES ASSUME Out(c, u), MsgInv, [Next]_vars PROVE Out(c, u)'
      OBVIOUS
    <2>1. CASE \E v \in Users : DeleteUser(v)
      <3>1. PICK v \in Users : DeleteUser(v)
        BY <2>1
      <3>2. v # u => EverIn(c)' = EverIn(c) \ {v} /\ MembersOf(c)' = MembersOf(c) \ {v}
        BY <3>1, DeletionTakes DEF EverIn, MembersOf, RowsOf
      <3> QED BY <3>1, <3>2, DeletionTakes DEF Out
    <2>2. CASE \A v \in Users : ~DeleteUser(v)
      <3>1. users' = users
        BY <2>2, RowsGrow
      <3>2. CASE u \in EverIn(c) \ MembersOf(c)
        <4>1. Was(c, u) /\ \A w \in rows : w.conv = c /\ w.who = u => w \in left
          BY <3>2 DEF Was, EverIn, MembersOf, RowsOf
        <4>2. Was(c, u)' /\ \A w \in rows' : w.conv = c /\ w.who = u => w \in left'
          BY <2>2, <4>1, RowsGrow DEF Was
        <4>3. u \in EverIn(c)' /\ u \notin MembersOf(c)'
          BY <4>2 DEF Was, EverIn, MembersOf, RowsOf
        <4> QED BY <4>3 DEF Out
      <3> QED BY <3>1, <3>2 DEF Out
    <2> QED BY <2>1, <2>2
  <1>2. Out(c, u) /\ PeopleInv => u \notin MembersOf(c)
    BY MessagingAssumption DEF Out, PeopleInv, LivingRows, Present, MembersOf, RowsOf
  <1> QED BY <1>1, <1>2, MsgAlways, MsgPeopleThere, PTL DEF Spec, StaysOut
=============================================================================
