--------------------------- MODULE ConnectionManager ---------------------------
(***************************************************************************)
(* app/websocket: connection_manager's three in-memory maps, and the       *)
(* coroutines of one event loop that share them: one chat_handler per      *)
(* socket, and the HTTP requests whose messaging_service sends.            *)
(*                                                                         *)
(* Code between two awaits that suspend is one step.  Those that suspend   *)
(* are the receive of a handler and every send_json: while a coroutine     *)
(* waits for a send, the list it is iterating over can change.             *)
(***************************************************************************)
EXTENDS Naturals, FiniteSets

CONSTANTS Users,      \* subjects of tokens, survivors and operators
          Convs,      \* conversation ids
          Sockets,    \* WebSockets, each used for one connection
          Requests,   \* HTTP requests that send
          Owner,      \* the user each socket's token names
          None

Tasks == Sockets \cup Requests

ASSUME ConnectionAssumption ==
    /\ IsFiniteSet(Sockets)
    /\ Sockets \cap Requests = {}
    /\ Owner \in [Sockets -> Users]
    /\ None \notin Users \cup Sockets

VARIABLES conns,   \* active_connections: the members of each user's list
          since,   \* when a socket was appended: the order of the lists
          subs,    \* conversation_subscribers
          convs,   \* user_conversations
          phase,   \* what the handler of a socket does
          broken,  \* sockets a send failed on (application_state DISCONNECTED)
          out      \* what a task is sending

vars == <<conns, since, subs, convs, phase, broken, out>>

\* A task that awaits the send to "ws", the element at index "at" of its user's
\* list.  "live": that list is still the one in active_connections; "left": the
\* subscribers not visited yet; "failed": the sockets to disconnect at the end.
\* History: "tried", the sockets already sent to; "owed", the list as the
\* iteration found it; "calm", nobody was removed from it meanwhile.
Send == [user: Users, ws: Sockets, at: Nat, live: BOOLEAN, left: SUBSET Users,
         failed: SUBSET Sockets, tried: SUBSET Sockets, owed: SUBSET Sockets, calm: BOOLEAN]

ASSUME SendAssumption == None \notin Send

TypeOK ==
    /\ conns \in [Users -> SUBSET Sockets]
    /\ since \in [Sockets -> Nat]
    /\ subs \in [Convs -> SUBSET Users]
    /\ convs \in [Users -> SUBSET Convs]
    /\ phase \in [Sockets -> {"new", "receive", "busy", "done"}]
    /\ broken \subseteq Sockets
    /\ out \in [Tasks -> Send \cup {None}]

Init ==
    /\ conns = [u \in Users |-> {}]
    /\ since = [w \in Sockets |-> 0]
    /\ subs = [c \in Convs |-> {}]
    /\ convs = [u \in Users |-> {}]
    /\ phase = [w \in Sockets |-> "new"]
    /\ broken = {}
    /\ out = [t \in Tasks |-> None]

Running(w) == phase[w] \in {"receive", "busy"}

\* Faulty: new connections are inserted at the front of the list.
AtFromNewest(u, i) == {w \in conns[u] : Cardinality({v \in conns[u] : since[v] > since[w]}) = i}

\* The element at index i of user u's list, if it is that long: lists are only
\* appended to and removed from, so their order is that of connection.
At(u, i) == {w \in conns[u] : Cardinality({v \in conns[u] : since[v] < since[w]}) = i}

-----------------------------------------------------------------------------
(* connect and disconnect                                                  *)

\* connect, after the token was verified: accept and append.  An operator gets no
\* subscription: "async with get_db()" raises, and the error is caught.
Connect(w) ==
    /\ phase[w] = "new"
    /\ phase' = [phase EXCEPT ![w] = "receive"]
    /\ conns' = [conns EXCEPT ![Owner[w]] = @ \cup {w}]
    /\ since' = [since EXCEPT ![w] = Cardinality({v \in Sockets : phase[v] # "new"})]
    /\ UNCHANGED <<subs, convs, broken, out>>

\* connect refused the token, or accept failed.
Refuse(w) ==
    /\ phase[w] = "new"
    /\ phase' = [phase EXCEPT ![w] = "done"]
    /\ UNCHANGED <<conns, since, subs, convs, broken, out>>

\* Faulty: a call for a user who has no list any more returns early.
ForgottenIfLast(F) == {u \in Users : conns[u] # {} /\ conns[u] \subseteq F}

\* Faulty: subscriptions go with any connection of the user.
ForgottenOnAny(F) == {u \in Users : \E w \in F : Owner[w] = u}

\* The users whose last connection disconnect removed, or who had none left.
Forgotten(F) == {u \in Users : (\E w \in F : Owner[w] = u) /\ conns[u] \subseteq F}

\* disconnect(Owner[w], w) for every w in F, by task t, when the subscription
\* maps hold S and C.  An iteration over a list that was emptied and deleted
\* finds its end; one over a list that shrinks keeps its index.
Disconnect(t, F, S, C) ==
    /\ conns' = [u \in Users |-> conns[u] \ F]
    /\ subs' = [c \in Convs |-> S[c] \ {u \in Forgotten(F) : c \in C[u]}]
    /\ convs' = [u \in Users |-> IF u \in Forgotten(F) THEN {} ELSE C[u]]
    /\ out' = [p \in Tasks |->
                 IF p = t \/ out[p] = None THEN (IF p = t THEN None ELSE out[p])
                 ELSE [out[p] EXCEPT !.live = @ /\ ~(conns[out[p].user] \subseteq F),
                                     !.calm = @ /\ conns[out[p].user] \cap F = {}]]

-----------------------------------------------------------------------------
(* Sending                                                                 *)

\* Faulty: the test that the user is connected is missing.
VisitAnyone(L, F) ==
    {[user |-> u, ws |-> w, at |-> 0, live |-> TRUE, left |-> L \ {u}, failed |-> F,
      tried |-> {}, owed |-> conns[u], calm |-> TRUE] :
         u \in L, w \in UNION {At(v, 0) : v \in L} \cup {None}}

\* Faulty: the list of failures is reset for every subscriber.
VisitAnew(L, F) ==
    UNION {{[user |-> u, ws |-> w, at |-> 0, live |-> TRUE, left |-> L \ ({u} \cup skip),
             failed |-> {}, tried |-> {}, owed |-> conns[u], calm |-> TRUE] :
                w \in At(u, 0), skip \in SUBSET {v \in L : conns[v] = {}}} : u \in L}

\* The first send to some user of L, the failures so far being F: subscribers
\* are a set, visited in any order, and those who are not connected when their
\* turn comes are passed over.
Visit(L, F) ==
    UNION {{[user |-> u, ws |-> w, at |-> 0, live |-> TRUE, left |-> L \ ({u} \cup skip),
             failed |-> F, tried |-> {}, owed |-> conns[u], calm |-> TRUE] :
                w \in At(u, 0), skip \in SUBSET {v \in L : conns[v] = {}}} : u \in L}

\* Faulty: the first failure ends it.
FollowingUntilFailure(s, F) ==
    LET same == IF s.live THEN At(s.user, s.at + 1) ELSE {}
    IN  IF F # {} THEN {}
        ELSE IF same # {}
        THEN {[s EXCEPT !.ws = w, !.at = @ + 1, !.failed = F, !.tried = @ \cup {s.ws}] : w \in same}
        ELSE Visit(s.left, F)

\* The sends that can follow s, whose outcome is in F.
Following(s, F) ==
    LET same == IF s.live THEN At(s.user, s.at + 1) ELSE {}
    IN  IF same # {}
        THEN {[s EXCEPT !.ws = w, !.at = @ + 1, !.failed = F, !.tried = @ \cup {s.ws}] : w \in same}
        ELSE Visit(s.left, F)

\* Task t goes on with the sends N, or ends: it disconnects what failed, and a
\* handler receives again, which raises on a socket that is broken, so that its
\* own socket is disconnected too.
Proceed(t, N, F, S, C) ==
    \/ /\ \E s \in N : out' = [out EXCEPT ![t] = s]
       /\ phase' = IF t \in Sockets THEN [phase EXCEPT ![t] = "busy"] ELSE phase
       /\ subs' = S /\ convs' = C
       /\ UNCHANGED conns
    \/ /\ N = {}
       /\ Disconnect(t, F \cup ({t} \cap broken'), S, C)
       /\ phase' = IF t \in Sockets
                   THEN [phase EXCEPT ![t] = IF t \in broken' THEN "done" ELSE "receive"]
                   ELSE phase

\* The send that t awaits ends.  It fails on a socket that failed before or whose
\* handler is over, and can fail on any.
Sent(t) ==
    /\ out[t] # None
    /\ LET s == out[t] IN
       \/ /\ s.ws \notin broken /\ phase[s.ws] # "done"
          /\ broken' = broken
          /\ Proceed(t, Following(s, s.failed), s.failed, subs, convs)
       \/ /\ broken' = broken \cup {s.ws}
          /\ Proceed(t, Following(s, s.failed \cup {s.ws}), s.failed \cup {s.ws}, subs, convs)
    /\ UNCHANGED since

\* send_personal_message by a request (_notify_participants, new conversation).
NotifyUser(t, u) ==
    /\ out[t] = None
    /\ broken' = broken
    /\ Proceed(t, Visit({u}, {}), {}, subs, convs)
    /\ UNCHANGED since

\* broadcast_to_conversation by a request (send_typing_indicator).
NotifyConversation(t, c, u) ==
    /\ out[t] = None
    /\ broken' = broken
    /\ Proceed(t, Visit(subs[c] \ {u}, {}), {}, subs, convs)
    /\ UNCHANGED since

-----------------------------------------------------------------------------
(* The handler of a socket                                                 *)

\* subscribe_conversation: confirmed to every device of the user.
Subscribe(w, c) ==
    /\ phase[w] = "receive"
    /\ broken' = broken
    /\ Proceed(w, Visit({Owner[w]}, {}), {},
               [subs EXCEPT ![c] = @ \cup {Owner[w]}], [convs EXCEPT ![Owner[w]] = @ \cup {c}])
    /\ UNCHANGED since

\* Faulty: only the set of the conversation is updated.
UnsubscribeOneSide(w, c) ==
    /\ phase[w] = "receive"
    /\ broken' = broken
    /\ Proceed(w, {}, {}, [subs EXCEPT ![c] = @ \ {Owner[w]}], convs)
    /\ UNCHANGED since

\* unsubscribe_conversation: not confirmed.
Unsubscribe(w, c) ==
    /\ phase[w] = "receive"
    /\ broken' = broken
    /\ Proceed(w, {}, {},
               [subs EXCEPT ![c] = @ \ {Owner[w]}], [convs EXCEPT ![Owner[w]] = @ \ {c}])
    /\ UNCHANGED since

\* typing, message_status: to the other subscribers.
Relay(w, c) ==
    /\ phase[w] = "receive"
    /\ broken' = broken
    /\ Proceed(w, Visit(subs[c] \ {Owner[w]}, {}), {}, subs, convs)
    /\ UNCHANGED since

\* ping, an unknown type, a missing conversation_id: an answer to the user.
Answer(w) ==
    /\ phase[w] = "receive"
    /\ broken' = broken
    /\ Proceed(w, Visit({Owner[w]}, {}), {}, subs, convs)
    /\ UNCHANGED since

\* WebSocketDisconnect, or any error but the one below.
Disconnected(w) ==
    /\ phase[w] = "receive"
    /\ Disconnect(w, {w}, subs, convs)
    /\ phase' = [phase EXCEPT ![w] = "done"]
    /\ UNCHANGED <<since, broken>>

\* The message is not JSON: the handler answers and returns, without disconnect.
InvalidJson(w) ==
    /\ phase[w] = "receive"
    /\ phase' = [phase EXCEPT ![w] = "done"]
    /\ UNCHANGED <<conns, since, subs, convs, broken, out>>

\* The end of lifespan: the server has waited for its handlers and requests, and
\* disconnect(user_id) is called for every user still listed.
Shutdown ==
    /\ \A w \in Sockets : ~Running(w)
    /\ \A t \in Tasks : out[t] = None
    /\ phase' = [w \in Sockets |-> "done"]
    /\ conns' = [u \in Users |-> {}]
    /\ subs' = [c \in Convs |-> subs[c] \ {u \in Users : conns[u] # {} /\ c \in convs[u]}]
    /\ convs' = [u \in Users |-> IF conns[u] # {} THEN {} ELSE convs[u]]
    /\ UNCHANGED <<since, broken, out>>

Handle(w) ==
    \/ Connect(w) \/ Refuse(w)
    \/ \E c \in Convs : Subscribe(w, c) \/ Unsubscribe(w, c) \/ Relay(w, c)
    \/ Answer(w) \/ Disconnected(w) \/ InvalidJson(w)

Request(t) ==
    \/ \E u \in Users : NotifyUser(t, u)
    \/ \E c \in Convs, u \in Users : NotifyConversation(t, c, u)

Next ==
    \/ \E w \in Sockets : Handle(w)
    \/ \E t \in Requests : Request(t)
    \/ \E t \in Tasks : Sent(t)
    \/ Shutdown

Spec == Init /\ [][Next]_vars

-----------------------------------------------------------------------------
(* Properties                                                              *)

\* conversation_subscribers and user_conversations are inverse to each other:
\* disconnect finds every subscription of a user through the latter.
MapsAgree == \A u \in Users, c \in Convs : u \in subs[c] <=> c \in convs[u]

\* Only connected users are subscribed, whatever a handler does between the
\* failure of its socket and its own end.
SubscribersConnected == \A c \in Convs, u \in Users : u \in subs[c] => conns[u] # {}

\* No device is sent the same message twice, though lists change under the
\* iteration.
AtMostOncePerDevice == \A t \in Tasks : out[t] # None => out[t].ws \notin out[t].tried

\* Task t is through with the list it was iterating over.
Leaves(t) == out[t] # None /\ (out'[t] = None \/ out'[t].user # out[t].user)

\* send_personal_message reaches "all their connected devices": those connected
\* from its beginning to its end.
ReachesAllDevices ==
    [][\A t \in Tasks : Leaves(t) =>
          out[t].owed \cap conns[out[t].user] \subseteq out[t].tried \cup {out[t].ws}]_vars

\* It does reach them if no device of the user is disconnected meanwhile.
ReachesAllWhenCalm ==
    [][\A t \in Tasks : Leaves(t) /\ out[t].calm =>
          out[t].owed \subseteq out[t].tried \cup {out[t].ws}]_vars

\* A socket a send failed on stays listed only while the task that has found out is
\* still sending: it goes with the others at the end of that, whoever else is
\* disconnected, connects or subscribes meanwhile.
BrokenBeingRemoved ==
    \A w \in broken : w \in conns[Owner[w]] =>
        \E t \in Tasks : out[t] # None /\ w \in out[t].failed

\* What the three maps implement: one relation between connected users and
\* conversations.
Directory == INSTANCE Presence WITH topics <- {x \in Users \X Convs : x[2] \in convs[x[1]]}

ImplementsPresence == Directory!Spec
=============================================================================
