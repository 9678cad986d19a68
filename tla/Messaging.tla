------------------------------ MODULE Messaging ------------------------------
(***************************************************************************)
(* Conversations, participants and messages: messaging_service, its        *)
(* repositories and the routes of survivors and operators.                 *)
(*                                                                         *)
(* A request is a transaction: it reads what others have committed, keeps  *)
(* what it writes to itself until its commit, and tells participants over  *)
(* their sockets before it.  A conversation keeps a row for each           *)
(* participation; leaving marks the row and does not remove it.            *)
(*                                                                         *)
(* The tables are those the migrations create.  They make (conversation,   *)
(* user) unique, and not (conversation, operator), which the model class   *)
(* declares.                                                               *)
(***************************************************************************)
EXTENDS Naturals, FiniteSets

CONSTANTS Users,       \* rows of users
          Operators,   \* rows of operator_users
          Centers,     \* rows of support_centers
          OperatorOf,  \* support_centers.operator_id
          Convs,       \* the ids conversations may draw
          Messages,    \* the ids messages may draw
          Requests,    \* HTTP requests that can be in progress at once
          MaxRows,     \* a bound: joining stops at as many participations
          None         \* SQL NULL, a missing row

People == Users \cup Operators

ASSUME MessagingAssumption ==
    /\ Users \cap Operators = {}
    /\ OperatorOf \in [Centers -> Operators \cup {None}]
    /\ MaxRows \in Nat \ {0}
    /\ None \notin People \cup Centers \cup Convs \cup Messages
    /\ None \notin [center: Centers \cup {None}, direct: BOOLEAN]
    /\ None \notin [conv: Convs, sender: People \cup {None}]
    /\ None \notin [conv: Convs, who: People, n: 1..MaxRows]

VARIABLES users,     \* the users that have not been deleted
          convs,     \* committed conversations
          rows,      \* committed conversation_participants
          left,      \* those whose left_at is set
          messages,  \* committed messages
          req,       \* the requests in progress
          raced      \* history: who joined what in two requests at once

vars == <<users, convs, rows, left, messages, req, raced>>

Conversation == [center: Centers \cup {None}, direct: BOOLEAN]
Message == [conv: Convs, sender: People \cup {None}]

\* n tells the rows of one person apart.
Row == [conv: Convs, who: People, n: 1..MaxRows]

\* "todo": invited users to look up (create), rows to tell (send); "present" and
\* "gone": the conversation's active rows, and the users who had left it, when the
\* sender of a message was verified.
Request ==
    [op: {"none", "create", "send", "join", "leave"},
     pc: {"idle", "direct", "insert", "others", "tell", "update", "commit"},
     who: People \cup {None}, conv: Convs \cup {None}, msg: Messages \cup {None},
     row: Row \cup {None}, direct: BOOLEAN, center: Centers \cup {None},
     invited: SUBSET Users, todo: SUBSET (Users \cup Row), told: SUBSET People,
     present: SUBSET Row, gone: SUBSET Users]

Idle == [op |-> "none", pc |-> "idle", who |-> None, conv |-> None, msg |-> None,
         row |-> None, direct |-> FALSE, center |-> None, invited |-> {}, todo |-> {},
         told |-> {}, present |-> {}, gone |-> {}]

TypeOK ==
    /\ users \subseteq Users
    /\ convs \in [Convs -> Conversation \cup {None}]
    /\ rows \subseteq Row
    /\ left \subseteq rows
    /\ messages \in [Messages -> Message \cup {None}]
    /\ req \in [Requests -> Request]
    /\ raced \subseteq People \X Convs

Init ==
    /\ users = Users
    /\ convs = [c \in Convs |-> None]
    /\ rows = {} /\ left = {}
    /\ messages = [m \in Messages |-> None]
    /\ req = [r \in Requests |-> Idle]
    /\ raced = {}

-----------------------------------------------------------------------------
(* Queries                                                                 *)

Active == rows \ left
RowsOf(c) == {w \in rows : w.conv = c}

\* Who takes part in c, and who does or did.
MembersOf(c) == {w.who : w \in RowsOf(c) \ left}
EverIn(c) == {w.who : w \in RowsOf(c)}

\* get_participant, get_active_participant: its scalar_one_or_none raises when
\* there are several.
Participations(c, p) == {w \in Active : w.conv = c /\ w.who = p}

\* Faulty: whoever knows the conversation may send to it.
AnyoneParticipates(c, p) == convs[c] # None

Participates(c, p) == \E w \in Active : Participations(c, p) = {w}

\* Faulty: user_id != x alone, which is not true of an operator's NULL.
OthersNotNull(c, p) == {w \in Active : w.conv = c /\ w.who # p /\ (p \in Users <=> w.who \in Users)}

\* Faulty: left_at is not looked at.
OthersEver(c, p) == {w \in rows : w.conv = c /\ w.who # p}

\* get_other_participants
Others(c, p) == {w \in Active : w.conv = c /\ w.who # p}

\* get_by_support_center_and_user
ByCenter(s, u) ==
    {c \in Convs : convs[c] # None /\ convs[c].center = s /\ Participations(c, u) # {}}

\* get_direct_conversation: exactly two rows, active or not, of the two.
Between(p, u) ==
    {c \in Convs : /\ convs[c] # None /\ convs[c].direct
                   /\ Cardinality({w \in rows : w.conv = c /\ w.who \in {p, u}}) = 2}

Present(p) == p \in users \cup Operators

-----------------------------------------------------------------------------
(* Locks of PostgreSQL                                                     *)

\* The UPDATE of last_message_at holds the conversation until the sender commits.
ConvLocked(c) ==
    \E r \in Requests : /\ req[r].op = "send" /\ req[r].conv = c
                        /\ req[r].pc \in {"tell", "commit"}

\* So does that of left_at, the participant.
RowLocked(w) == \E r \in Requests : req[r].row = w /\ req[r].pc = "commit"

\* Request q has inserted a row that refers to user u.
Refers(q, u) ==
    \/ q.op = "create" /\ q.pc = "commit" /\ u \in q.invited \cup {q.who}
    \/ q.op = "send" /\ q.pc # "insert" /\ q.who = u
    \/ q.op = "join" /\ q.pc = "commit" /\ q.who = u

\* Participations a request has inserted and not committed.
Inserted == {req[r].row : r \in {s \in Requests : req[s].op = "join"}} \ {None}

\* unique_conversation_participant
Unique(c, p) == p \in Users => \A w \in rows \cup Inserted : ~(w.conv = c /\ w.who = p)

-----------------------------------------------------------------------------
(* create_conversation                                                     *)

Start(r, q) ==
    /\ req[r] = Idle
    /\ Present(q.who)
    /\ req' = [req EXCEPT ![r] = q]
    /\ UNCHANGED <<users, convs, rows, left, messages>>

\* p is joining c already.
Joining(p, c) == \E r \in Requests : req[r].op = "join" /\ req[r].who = p /\ req[r].conv = c

\* The conversation that p has with the centre is returned (several are an
\* error): nothing changes.  Without one the request goes on.  Requests that can
\* only fail later leave nothing either: those of operators, because created_by
\* refers to users, and those that invite their creator, twice a participant.
CreateLookup(r, p, d, s, I) ==
    /\ p \in users /\ p \notin I
    /\ s # None => ByCenter(s, p) = {}
    /\ Start(r, [Idle EXCEPT !.op = "create", !.pc = "direct", !.who = p, !.direct = d,
                             !.center = s, !.invited = I, !.todo = IF d THEN I ELSE {}])
    /\ UNCHANGED raced

\* A direct conversation with one of the invited is returned (several: error).
FindDirect(r) ==
    LET q == req[r] IN
    /\ q.pc = "direct"
    /\ \E u \in q.todo :
         req' = [req EXCEPT ![r] = IF Between(q.who, u) = {} THEN [q EXCEPT !.todo = q.todo \ {u}]
                                   ELSE Idle]
    /\ UNCHANGED <<users, convs, rows, left, messages, raced>>

\* The conversation, the creator, the invited and the operator of the centre, who
\* is then sent a notification.
InsertConversation(r) ==
    LET q == req[r] IN
    /\ q.pc = "direct" /\ q.todo = {}
    /\ q.invited \cup {q.who} \subseteq users
    /\ \E c \in Convs :
         /\ convs[c] = None
         /\ \A s \in Requests : req[s].conv # c
         /\ req' = [req EXCEPT ![r].pc = "commit", ![r].conv = c]
    /\ UNCHANGED <<users, convs, rows, left, messages, raced>>

-----------------------------------------------------------------------------
(* send_message                                                            *)

SendVerify(r, p, c) ==
    /\ Participates(c, p)
    /\ Start(r, [Idle EXCEPT !.op = "send", !.pc = "insert", !.who = p, !.conv = c,
                             !.present = RowsOf(c) \ left, !.gone = (EverIn(c) \ MembersOf(c)) \cap Users])
    /\ UNCHANGED raced

InsertMessage(r) ==
    /\ req[r].op = "send" /\ req[r].pc = "insert"
    /\ Present(req[r].who)
    /\ \E m \in Messages :
         /\ messages[m] = None
         /\ \A s \in Requests : req[s].msg # m
         /\ req' = [req EXCEPT ![r].pc = "others", ![r].msg = m]
    /\ UNCHANGED <<users, convs, rows, left, messages, raced>>

AfterTelling(T) == IF T = {} THEN "commit" ELSE "tell"

\* The UPDATE of last_message_at, then _notify_participants: the query, and one
\* send after the other.
ReadOthers(r) ==
    /\ req[r].pc = "others"
    /\ ~ConvLocked(req[r].conv)
    /\ LET T == Others(req[r].conv, req[r].who) IN
       req' = [req EXCEPT ![r].todo = T, ![r].pc = AfterTelling(T)]
    /\ UNCHANGED <<users, convs, rows, left, messages, raced>>

Tell(r) ==
    /\ req[r].pc = "tell"
    /\ \E w \in req[r].todo :
         req' = [req EXCEPT ![r].told = @ \cup {w.who}, ![r].todo = @ \ {w},
                            ![r].pc = AfterTelling(req[r].todo \ {w})]
    /\ UNCHANGED <<users, convs, rows, left, messages, raced>>

-----------------------------------------------------------------------------
(* join_conversation, leave_conversation                                   *)

\* Faulty: the row is inserted without a look for one that is there.
JoinBlindly(r, p, c) ==
    /\ convs[c] # None
    /\ Start(r, [Idle EXCEPT !.op = "join", !.pc = "insert", !.who = p, !.conv = c])
    /\ raced' = IF Joining(p, c) THEN raced \cup {<<p, c>>} ELSE raced

\* An active participant is answered with success at once.
JoinLookup(r, p, c) ==
    /\ convs[c] # None
    /\ Participations(c, p) = {}
    /\ Start(r, [Idle EXCEPT !.op = "join", !.pc = "insert", !.who = p, !.conv = c])
    /\ raced' = IF Joining(p, c) THEN raced \cup {<<p, c>>} ELSE raced

\* A user who has left violates the unique constraint: the request fails.
JoinInsert(r) ==
    LET q == req[r]
        Free(n) == [conv |-> q.conv, who |-> q.who, n |-> n] \notin rows \cup Inserted
    IN
    /\ q.op = "join" /\ q.pc = "insert"
    /\ Present(q.who)
    /\ Unique(q.conv, q.who)
    /\ Cardinality(rows \cup Inserted) < MaxRows
    /\ \E n \in 1..MaxRows :
         /\ Free(n) /\ \A k \in 1..(n - 1) : ~Free(k)
         /\ req' = [req EXCEPT ![r].pc = "commit",
                               ![r].row = [conv |-> q.conv, who |-> q.who, n |-> n]]
    /\ UNCHANGED <<users, convs, rows, left, messages, raced>>

LeaveLookup(r, p, c) ==
    /\ \E w \in Active :
         /\ Participations(c, p) = {w}
         /\ Start(r, [Idle EXCEPT !.op = "leave", !.pc = "update", !.who = p, !.conv = c, !.row = w])
    /\ UNCHANGED raced

\* left_at
UpdateParticipant(r) ==
    /\ req[r].pc = "update"
    /\ ~RowLocked(req[r].row)
    /\ req' = [req EXCEPT ![r].pc = "commit"]
    /\ UNCHANGED <<users, convs, rows, left, messages, raced>>

-----------------------------------------------------------------------------
(* The end of a request, and deletion                                      *)

\* The participants of the conversation that q has created.
FirstRows(q) ==
    {[conv |-> q.conv, who |-> p, n |-> 1] :
       p \in {q.who} \cup q.invited
             \cup (IF q.center = None THEN {} ELSE {OperatorOf[q.center]} \ {None})}

\* Faulty: the participation is written again as it was read.
LeavingAsRead(q) == {q.row}

\* The UPDATE of left_at marks the row if it is still the participant's.
Leaving(q) == {q.row} \cap rows

Commit(r) ==
    LET q == req[r] IN
    /\ q.pc = "commit"
    /\ convs' = IF q.op = "create"
                THEN [convs EXCEPT ![q.conv] = [center |-> q.center, direct |-> q.direct]]
                ELSE convs
    /\ rows' = CASE q.op = "create" -> rows \cup FirstRows(q)
                 [] q.op = "join" -> rows \cup {q.row}
                 [] OTHER -> rows
    /\ left' = IF q.op = "leave" THEN left \cup Leaving(q) ELSE left
    /\ messages' = IF q.op = "send"
                   THEN [messages EXCEPT ![q.msg] = [conv |-> q.conv, sender |-> q.who]]
                   ELSE messages
    /\ req' = [req EXCEPT ![r] = Idle]
    /\ UNCHANGED <<users, raced>>

\* The request failed, or the process died: what it told stays told.
Abort(r) ==
    /\ req[r] # Idle
    /\ req' = [req EXCEPT ![r] = Idle]
    /\ UNCHANGED <<users, convs, rows, left, messages, raced>>

\* delete_mobile_user: participations of the user become nobody's (the ORM sets
\* user_id to NULL before the foreign key could cascade), as do messages.
DeleteUser(u) ==
    /\ u \in users
    /\ \A r \in Requests : ~Refers(req[r], u)
    /\ \A w \in rows : w.who = u => ~RowLocked(w)
    /\ users' = users \ {u}
    /\ rows' = {w \in rows : w.who # u}
    /\ left' = {w \in left : w.who # u}
    /\ messages' = [m \in Messages |-> IF messages[m] # None /\ messages[m].sender = u
                                       THEN [messages[m] EXCEPT !.sender = None]
                                       ELSE messages[m]]
    /\ UNCHANGED <<convs, req, raced>>

\* A bound: a conversation that is opened is direct, with the invited, or with a
\* centre; others join it later.
Opens(r, p) ==
    \/ \E I \in SUBSET Users : CreateLookup(r, p, TRUE, None, I)
    \/ \E s \in Centers : CreateLookup(r, p, FALSE, s, {})

Begin(r) ==
    \E p \in People :
      \/ Opens(r, p)
      \/ \E c \in Convs : SendVerify(r, p, c) \/ JoinLookup(r, p, c) \/ LeaveLookup(r, p, c)

Step(r) ==
    \/ FindDirect(r) \/ InsertConversation(r) \/ InsertMessage(r) \/ ReadOthers(r) \/ Tell(r)
    \/ JoinInsert(r) \/ UpdateParticipant(r) \/ Commit(r)

Next ==
    \/ \E r \in Requests : Begin(r) \/ Step(r) \/ Abort(r)
    \/ \E u \in Users : DeleteUser(u)

Spec == Init /\ [][Next]_vars

-----------------------------------------------------------------------------
(* Properties                                                              *)

\* A message that is about to be committed has been sent to everybody else who
\* took part in the conversation when its sender was verified and still does,
\* whoever joined, left or was deleted in between.
NobodyMissed ==
    \A r \in Requests : req[r].op = "send" /\ req[r].pc = "commit" =>
        \A w \in (req[r].present \cap rows) \ left :
            w.conv = req[r].conv /\ w.who # req[r].who => w.who \in req[r].told

\* No message is sent to a user who left the conversation before it, however many
\* rows the query for the others passes.
NobodyLeftTold == \A r \in Requests : req[r].gone \cap req[r].told = {}

\* An operator takes part in a conversation once, unless two requests to join it
\* overlapped; with two rows every other request of the operator about it fails.
OneRowPerOperator ==
    \A c \in Convs, o \in Operators : <<o, c>> \notin raced => Cardinality(Participations(c, o)) <= 1

\* What the requests together implement: ConversationLog.
Log == INSTANCE ConversationLog WITH members <- [c \in Convs |-> MembersOf(c)],
                                     ever <- [c \in Convs |-> EverIn(c)],
                                     log <- messages

ImplementsLog == Log!Spec
=============================================================================
