------------------------ MODULE ConnectionManagerProofs ------------------------
(***************************************************************************)
(* Proofs about ConnectionManager, for any number of users, sockets,       *)
(* conversations and sending requests.                                     *)
(***************************************************************************)
EXTENDS ConnectionManager, FiniteSetTheorems, WellFoundedInduction, NaturalsInduction, TLAPS

\* SubscribersConnected is not inductive: a handler whose socket was disconnected
\* by another task can still subscribe.  It ends at once, because its socket is
\* broken (Registered), and what it failed to send on is broken (FailedBroken).
Owned == \A u \in Users : \A w \in conns[u] : Owner[w] = u

Registered == \A w \in Sockets : Running(w) => w \in conns[Owner[w]] \cup broken

FailedBroken == \A t \in Tasks : out[t] # None => out[t].failed \subseteq broken

SendersBusy == \A w \in Sockets : out[w] # None => phase[w] = "busy"

ConnInv ==
    /\ TypeOK /\ Owned /\ Registered /\ FailedBroken /\ SendersBusy
    /\ MapsAgree /\ SubscribersConnected

-----------------------------------------------------------------------------
(* Lists                                                                   *)

\* The list of a connected user has a first element.
LEMMA FirstExists ==
    ASSUME TypeOK, NEW u \in Users, conns[u] # {}
    PROVE  At(u, 0) # {}
  <1> DEFINE T == {since[w] : w \in conns[u]}
  <1>1. T \subseteq Nat /\ T # {}
    BY DEF TypeOK
  <1>2. PICK n \in T : \A m \in T : ~(m < n)
    <2> DEFINE R == {ss \in Nat \X Nat : ss[1] < ss[2]}
    <2>1. IsWellFoundedOn(R, Nat)
      BY NatLessThanWellFounded DEF OpToRel
    <2>2. \A m \in T, n \in T : m < n => <<m, n>> \in R
      BY <1>1
    <2> HIDE DEF R, T
    <2>3. \E n \in T : \A m \in T : ~(<<m, n>> \in R)
      BY <1>1, <2>1, WFMin
    <2>4. QED
      BY <2>2, <2>3
  <1>3. PICK w \in conns[u] : since[w] = n
    BY <1>2
  <1>4. {v \in conns[u] : since[v] < since[w]} = {}
    BY <1>2, <1>3
  <1>5. Cardinality({v \in conns[u] : since[v] < since[w]}) = 0
    BY <1>4, FS_EmptySet
  <1>6. QED
    BY <1>3, <1>5 DEF At

\* What a task sends next is a send, and carries the failures so far.
LEMMA VisitTyped ==
    ASSUME TypeOK, NEW L \in SUBSET Users, NEW F \in SUBSET Sockets, NEW s \in Visit(L, F)
    PROVE  s \in Send /\ s.failed = F
  <1>0. PICK u \in L : s \in {[user |-> u, ws |-> w, at |-> 0, live |-> TRUE,
                               left |-> L \ ({u} \cup skip), failed |-> F, tried |-> {},
                               owed |-> conns[u], calm |-> TRUE] :
                            w \in At(u, 0), skip \in SUBSET {v \in L : conns[v] = {}}}
    BY DEF Visit
  <1>1. PICK w \in At(u, 0), skip \in SUBSET {v \in L : conns[v] = {}} :
          s = [user |-> u, ws |-> w, at |-> 0, live |-> TRUE, left |-> L \ ({u} \cup skip),
               failed |-> F, tried |-> {}, owed |-> conns[u], calm |-> TRUE]
    BY <1>0
  <1>2. w \in Sockets /\ conns[u] \in SUBSET Sockets
    BY DEF TypeOK, At
  <1>3. QED
    BY <1>1, <1>2 DEF Send

LEMMA FollowingTyped ==
    ASSUME TypeOK, NEW s0 \in Send, NEW F \in SUBSET Sockets, NEW s \in Following(s0, F)
    PROVE  s \in Send /\ s.failed = F
  <1>1. CASE s \in Visit(s0.left, F)
    BY <1>1, VisitTyped DEF Send
  <1>2. CASE \E w \in At(s0.user, s0.at + 1) :
               s = [s0 EXCEPT !.ws = w, !.at = @ + 1, !.failed = F, !.tried = @ \cup {s0.ws}]
    <2>1. PICK w \in At(s0.user, s0.at + 1) :
            s = [s0 EXCEPT !.ws = w, !.at = @ + 1, !.failed = F, !.tried = @ \cup {s0.ws}]
      BY <1>2
    <2>2. w \in Sockets /\ s0.at + 1 \in Nat /\ s0.tried \cup {s0.ws} \in SUBSET Sockets
      BY DEF TypeOK, At, Send
    <2>3. s = [user |-> s0.user, ws |-> w, at |-> s0.at + 1, live |-> s0.live,
               left |-> s0.left, failed |-> F, tried |-> s0.tried \cup {s0.ws},
               owed |-> s0.owed, calm |-> s0.calm]
      BY <2>1 DEF Send
    <2>4. QED
      BY <2>2, <2>3 DEF Send
  <1>3. QED
    BY <1>1, <1>2 DEF Following

LEMMA VisitNone ==
    ASSUME TypeOK, NEW u \in Users, Visit({u}, {}) = {}
    PROVE  conns[u] = {}
  <1>1. SUFFICES ASSUME conns[u] # {} PROVE FALSE
    OBVIOUS
  <1>2. PICK w : w \in At(u, 0)
    BY <1>1, FirstExists
  <1> DEFINE s == [user |-> u, ws |-> w, at |-> 0, live |-> TRUE, left |-> {u} \ ({u} \cup {}),
                   failed |-> {}, tried |-> {}, owed |-> conns[u], calm |-> TRUE]
  <1>3. s \in Visit({u}, {})
    BY <1>2 DEF Visit
  <1>4. QED
    BY <1>3

-----------------------------------------------------------------------------
(* disconnect and Proceed                                                  *)

\* The maps S and C that a task continues with agree, and a user in S without a
\* connection is the one whose handler is about to end.
Continues(t, S, C) ==
    /\ S \in [Convs -> SUBSET Users] /\ C \in [Users -> SUBSET Convs]
    /\ \A u \in Users, c \in Convs : u \in S[c] <=> c \in C[u]
    /\ \A u \in Users, c \in Convs :
         u \in S[c] => conns[u] # {} \/ (t \in Sockets \cap broken' /\ Owner[t] = u)

\* Those of the sockets G are the only connections a user of S may lack.
Removes(G, S, C) ==
    /\ S \in [Convs -> SUBSET Users] /\ C \in [Users -> SUBSET Convs]
    /\ \A u \in Users, c \in Convs : u \in S[c] <=> c \in C[u]
    /\ \A u \in Users, c \in Convs :
         u \in S[c] => conns[u] # {} \/ \E w \in G : Owner[w] = u

\* The part of ConnInv that does not speak of phase, after t has disconnected.
Disposed(t) ==
    /\ conns' \in [Users -> SUBSET Sockets] /\ Owned'
    /\ subs' \in [Convs -> SUBSET Users] /\ convs' \in [Users -> SUBSET Convs]
    /\ MapsAgree' /\ SubscribersConnected'
    /\ out' \in [Tasks -> Send \cup {None}]
    /\ FailedBroken'
    /\ out'[t] = None /\ \A p \in Tasks : out[p] = None => out'[p] = None

\* What disconnect keeps, whoever calls it.
LEMMA DisconnectKeeps ==
    ASSUME ConnInv, NEW t \in Tasks, NEW G \in SUBSET Sockets, NEW S, NEW C,
           Removes(G, S, C), broken \subseteq broken', Disconnect(t, G, S, C)
    PROVE  Disposed(t)
  <1>0. /\ S \in [Convs -> SUBSET Users] /\ C \in [Users -> SUBSET Convs]
        /\ \A u \in Users, c \in Convs : u \in S[c] <=> c \in C[u]
        /\ \A u \in Users, c \in Convs :
             u \in S[c] => conns[u] # {} \/ \E w \in G : Owner[w] = u
    BY DEF Removes
  <1>1. TypeOK /\ Owned /\ FailedBroken
    BY DEF ConnInv
  <1>2. /\ conns' = [u \in Users |-> conns[u] \ G]
        /\ subs' = [c \in Convs |-> S[c] \ {u \in Forgotten(G) : c \in C[u]}]
        /\ convs' = [u \in Users |-> IF u \in Forgotten(G) THEN {} ELSE C[u]]
    BY DEF Disconnect
  <1>3. /\ conns' \in [Users -> SUBSET Sockets] /\ Owned'
        /\ subs' \in [Convs -> SUBSET Users] /\ convs' \in [Users -> SUBSET Convs]
    BY <1>0, <1>1, <1>2 DEF TypeOK, Owned
  <1>4. MapsAgree'
    BY <1>0, <1>2 DEF MapsAgree
  <1>5. SubscribersConnected'
    <2>1. SUFFICES ASSUME NEW c \in Convs, NEW u \in Users, u \in subs'[c], conns'[u] = {}
                   PROVE  FALSE
      BY DEF SubscribersConnected
    <2>2. u \in S[c] /\ c \in C[u] /\ conns[u] \subseteq G
      BY <1>0, <1>2, <2>1
    <2>3. \E w \in G : Owner[w] = u
      BY <1>0, <1>1, <2>2 DEF Owned
    <2>4. QED
      BY <1>0, <1>2, <2>1, <2>2, <2>3 DEF Forgotten
  <1>6. \A p \in Tasks : /\ out'[p] \in Send \cup {None}
                         /\ out'[p] # None => out[p] # None /\ out'[p].failed = out[p].failed
    <2>1. SUFFICES ASSUME NEW p \in Tasks, p # t, out[p] # None
                   PROVE  out'[p] \in Send /\ out'[p].failed = out[p].failed
      BY DEF Disconnect
    <2> DEFINE b1 == out[p].live /\ ~(conns[out[p].user] \subseteq G)
               b2 == out[p].calm /\ conns[out[p].user] \cap G = {}
    <2>2. out'[p] = [out[p] EXCEPT !.live = b1, !.calm = b2]
      BY <2>1 DEF Disconnect
    <2>3. out[p] \in Send /\ b1 \in BOOLEAN /\ b2 \in BOOLEAN
      BY <1>1, <2>1 DEF TypeOK
    <2> HIDE DEF b1, b2
    <2>4. QED
      BY <2>2, <2>3 DEF Send
  <1>7. out' \in [Tasks -> Send \cup {None}]
    BY <1>6 DEF Disconnect
  <1>8. FailedBroken'
    BY <1>1, <1>6 DEF FailedBroken
  <1>9. out'[t] = None /\ \A p \in Tasks : out[p] = None => out'[p] = None
    BY <1>6 DEF Disconnect
  <1>10. QED
    BY <1>3, <1>4, <1>5, <1>7, <1>8, <1>9 DEF Disposed

LEMMA ProceedKeeps ==
    ASSUME ConnInv, NEW t \in Tasks, NEW N, NEW F \in SUBSET Sockets, NEW S, NEW C,
           broken' \in SUBSET Sockets, broken \subseteq broken', F \subseteq broken',
           \A s \in N : s \in Send /\ s.failed \subseteq broken',
           Continues(t, S, C),
           N # {} => \A u \in Users, c \in Convs : u \in S[c] => conns[u] # {},
           t \in Sockets => Running(t),
           since' = since, Proceed(t, N, F, S, C)
    PROVE  ConnInv'
  <1>0. TypeOK /\ Owned /\ Registered /\ FailedBroken /\ SendersBusy
    BY DEF ConnInv
  <1>1. CASE /\ \E s \in N : out' = [out EXCEPT ![t] = s]
             /\ phase' = IF t \in Sockets THEN [phase EXCEPT ![t] = "busy"] ELSE phase
             /\ subs' = S /\ convs' = C
             /\ UNCHANGED conns
    <2>1. PICK s \in N : out' = [out EXCEPT ![t] = s]
      BY <1>1
    <2>2. \A p \in Tasks : out'[p] = IF p = t THEN s ELSE out[p]
      BY <1>0, <2>1 DEF TypeOK
    <2>3. TypeOK'
      BY <1>0, <1>1, <2>1 DEF TypeOK, Continues
    <2>4. FailedBroken'
      BY <1>0, <2>2 DEF FailedBroken
    <2>5. Registered' /\ SendersBusy'
      BY <1>0, <1>1, <2>2 DEF Registered, SendersBusy, Running, TypeOK, Tasks
    <2>6. Owned' /\ MapsAgree' /\ SubscribersConnected'
      BY <1>0, <1>1 DEF Owned, MapsAgree, SubscribersConnected, Continues
    <2>7. QED
      BY <2>3, <2>4, <2>5, <2>6 DEF ConnInv
  <1>2. CASE /\ N = {}
             /\ Disconnect(t, F \cup ({t} \cap broken'), S, C)
             /\ phase' = IF t \in Sockets
                         THEN [phase EXCEPT ![t] = IF t \in broken' THEN "done" ELSE "receive"]
                         ELSE phase
    <2> DEFINE G == F \cup ({t} \cap broken')
    <2>1. G \in SUBSET Sockets /\ G \subseteq broken' /\ Disconnect(t, G, S, C)
      BY <1>2
    <2>2. Removes(G, S, C)
      BY DEF Continues, Removes
    <2> HIDE DEF G
    <2>3. Disposed(t)
      BY <2>1, <2>2, DisconnectKeeps
    <2>4. phase' \in [Sockets -> {"new", "receive", "busy", "done"}]
      BY <1>0, <1>2 DEF TypeOK
    <2>5. TypeOK'
      BY <1>0, <2>3, <2>4 DEF TypeOK, Disposed
    <2>6. \A w \in Sockets : w # t => phase'[w] = phase[w]
      BY <1>0, <1>2 DEF TypeOK
    <2>7. SendersBusy'
      BY <1>0, <2>3, <2>6 DEF SendersBusy, Tasks, Disposed
    <2>8. Registered'
      <3>1. SUFFICES ASSUME NEW w \in Sockets, Running(w)', w \notin broken'
                     PROVE  w \in conns'[Owner[w]]
        BY DEF Registered
      <3>2. Running(w)
        BY <2>6, <3>1 DEF Running
      <3>3. w \in conns[Owner[w]] /\ Owner[w] \in Users
        BY <1>0, <3>1, <3>2, ConnectionAssumption DEF Registered
      <3>4. conns'[Owner[w]] = conns[Owner[w]] \ G
        BY <2>1, <3>3 DEF Disconnect
      <3>5. QED
        BY <2>1, <3>1, <3>3, <3>4
    <2>9. QED
      BY <2>3, <2>5, <2>7, <2>8 DEF ConnInv, Disposed
  <1>3. QED
    BY <1>1, <1>2 DEF Proceed

\* A coroutine that goes on without a failure of its own.
LEMMA CleanProceed ==
    ASSUME ConnInv, NEW t \in Tasks, NEW N, NEW S, NEW C,
           broken' = broken, since' = since, Continues(t, S, C),
           \A s \in N : s \in Send /\ s.failed \subseteq broken',
           N # {} => \A u \in Users, c \in Convs : u \in S[c] => conns[u] # {},
           t \in Sockets => Running(t), Proceed(t, N, {}, S, C)
    PROVE  ConnInv'
  <1> DEFINE F == {}
  <1>1. F \in SUBSET Sockets /\ F \subseteq broken' /\ Proceed(t, N, F, S, C)
    OBVIOUS
  <1>2. broken' \in SUBSET Sockets /\ broken \subseteq broken'
    BY DEF ConnInv, TypeOK
  <1> HIDE DEF F
  <1>3. QED
    BY <1>1, <1>2, ProceedKeeps

-----------------------------------------------------------------------------
(* Every step                                                              *)

LEMMA SentKeeps ==
    ASSUME ConnInv, NEW t \in Tasks, Sent(t)
    PROVE  ConnInv'
  <1>0. TypeOK /\ FailedBroken /\ SendersBusy /\ MapsAgree /\ SubscribersConnected
    BY DEF ConnInv
  <1> DEFINE s == out[t]
  <1>1. s \in Send /\ s.failed \subseteq broken /\ (t \in Sockets => Running(t))
    BY <1>0 DEF Sent, TypeOK, FailedBroken, SendersBusy, Running
  <1>2. PICK F \in SUBSET Sockets : /\ F \subseteq broken'
                                   /\ broken' \in SUBSET Sockets /\ broken \subseteq broken'
                                   /\ Proceed(t, Following(s, F), F, subs, convs)
    <2>1. s.ws \in Sockets /\ s.failed \in SUBSET Sockets
      BY <1>1 DEF Send
    <2>2. CASE /\ broken' = broken
               /\ Proceed(t, Following(s, s.failed), s.failed, subs, convs)
      BY <1>0, <1>1, <2>1, <2>2 DEF TypeOK
    <2>3. CASE /\ broken' = broken \cup {s.ws}
               /\ Proceed(t, Following(s, s.failed \cup {s.ws}), s.failed \cup {s.ws}, subs, convs)
      BY <1>0, <1>1, <2>1, <2>3 DEF TypeOK
    <2>4. QED
      BY <2>2, <2>3 DEF Sent
  <1>3. Continues(t, subs, convs) /\ \A u \in Users, c \in Convs : u \in subs[c] => conns[u] # {}
    BY <1>0 DEF Continues, TypeOK, MapsAgree, SubscribersConnected
  <1> HIDE DEF s
  <1>4. \A n \in Following(s, F) : n \in Send /\ n.failed = F
    BY <1>0, <1>1, FollowingTyped
  <1>5. since' = since
    BY DEF Sent
  <1>6. QED
    BY <1>1, <1>2, <1>3, <1>4, <1>5, ProceedKeeps

\* The sends that begin: to users L, nothing else changing.
LEMMA NotifyKeeps ==
    ASSUME ConnInv, NEW t \in Tasks, NEW L \in SUBSET Users, t \in Sockets => Running(t),
           broken' = broken, since' = since, Proceed(t, Visit(L, {}), {}, subs, convs)
    PROVE  ConnInv'
  <1>0. TypeOK /\ MapsAgree /\ SubscribersConnected
    BY DEF ConnInv
  <1>1. Continues(t, subs, convs) /\ \A u \in Users, c \in Convs : u \in subs[c] => conns[u] # {}
    BY <1>0 DEF Continues, TypeOK, MapsAgree, SubscribersConnected
  <1>2. \A n \in Visit(L, {}) : n \in Send /\ n.failed \subseteq broken'
    BY <1>0, VisitTyped
  <1>3. QED
    BY <1>1, <1>2, CleanProceed

LEMMA SubscribeKeeps ==
    ASSUME ConnInv, NEW w \in Sockets, NEW c \in Convs, Subscribe(w, c)
    PROVE  ConnInv'
  <1> DEFINE u == Owner[w]
             N == Visit({u}, {})
             S == [subs EXCEPT ![c] = @ \cup {u}]
             C == [convs EXCEPT ![u] = @ \cup {c}]
  <1>0. /\ TypeOK /\ Registered /\ MapsAgree /\ SubscribersConnected
        /\ u \in Users /\ w \in Tasks /\ phase[w] = "receive"
    BY ConnectionAssumption DEF ConnInv, Subscribe, Tasks
  <1>1. N = {} => w \in broken
    BY <1>0, VisitNone DEF Registered, Running
  <1>2. N # {} => conns[u] # {}
    BY DEF Visit, At
  <1>3. /\ S \in [Convs -> SUBSET Users] /\ C \in [Users -> SUBSET Convs]
        /\ \A v \in Users, d \in Convs : v \in S[d] <=> d \in C[v]
    BY <1>0 DEF TypeOK, MapsAgree
  <1>4. \A v \in Users, d \in Convs : v \in S[d] => conns[v] # {} \/ v = u
    BY <1>0 DEF TypeOK, SubscribersConnected
  <1>5. \A n \in N : n \in Send /\ n.failed \subseteq broken'
    BY <1>0, VisitTyped
  <1>6. broken' = broken /\ since' = since /\ Running(w)
    BY <1>0 DEF Subscribe, Running
  <1>7. Proceed(w, N, {}, S, C)
    BY DEF Subscribe
  <1>8. \A v \in Users : v = u => Owner[w] = v
    OBVIOUS
  <1>9. conns[u] # {} \/ w \in broken
    BY <1>1, <1>2
  <1> HIDE DEF N, S, C, u
  <1>10. Continues(w, S, C)
    BY <1>3, <1>4, <1>6, <1>8, <1>9 DEF Continues
  <1>11. N # {} => \A v \in Users, d \in Convs : v \in S[d] => conns[v] # {}
    BY <1>2, <1>4
  <1>12. QED
    BY <1>0, <1>5, <1>6, <1>7, <1>10, <1>11, CleanProceed

LEMMA UnsubscribeKeeps ==
    ASSUME ConnInv, NEW w \in Sockets, NEW c \in Convs, Unsubscribe(w, c)
    PROVE  ConnInv'
  <1> DEFINE S == [subs EXCEPT ![c] = @ \ {Owner[w]}]
             C == [convs EXCEPT ![Owner[w]] = @ \ {c}]
  <1>0. /\ TypeOK /\ MapsAgree /\ SubscribersConnected
        /\ Owner[w] \in Users /\ w \in Tasks /\ Running(w)
    BY ConnectionAssumption DEF ConnInv, Unsubscribe, Tasks, Running
  <1>1. /\ S \in [Convs -> SUBSET Users] /\ C \in [Users -> SUBSET Convs]
        /\ \A v \in Users, d \in Convs : v \in S[d] <=> d \in C[v]
        /\ \A v \in Users, d \in Convs : v \in S[d] => conns[v] # {}
    BY <1>0 DEF TypeOK, MapsAgree, SubscribersConnected
  <1>2. broken' = broken /\ since' = since /\ Proceed(w, {}, {}, S, C)
    BY DEF Unsubscribe
  <1> HIDE DEF S, C
  <1>3. Continues(w, S, C)
    BY <1>1 DEF Continues
  <1>4. QED
    BY <1>0, <1>1, <1>2, <1>3, CleanProceed

LEMMA DisconnectedKeeps ==
    ASSUME ConnInv, NEW w \in Sockets, Disconnected(w)
    PROVE  ConnInv'
  <1>0. /\ TypeOK /\ Registered /\ SendersBusy /\ MapsAgree /\ SubscribersConnected
        /\ w \in Tasks /\ phase[w] = "receive"
    BY DEF ConnInv, Disconnected, Tasks
  <1>1. /\ Disconnect(w, {w}, subs, convs) /\ broken' = broken /\ since' = since
        /\ phase' = [phase EXCEPT ![w] = "done"]
    BY DEF Disconnected
  <1>2. Removes({w}, subs, convs)
    BY <1>0 DEF TypeOK, MapsAgree, SubscribersConnected, Removes
  <1>3. Disposed(w)
    <2> DEFINE G == {w}
    <2>1. G \in SUBSET Sockets /\ broken \subseteq broken'
      BY <1>1
    <2>2. Removes(G, subs, convs) /\ Disconnect(w, G, subs, convs)
      BY <1>1, <1>2
    <2> HIDE DEF G
    <2>3. QED
      BY <1>0, <2>1, <2>2, DisconnectKeeps
  <1>4. TypeOK'
    BY <1>0, <1>1, <1>3 DEF TypeOK, Disposed
  <1>5. SendersBusy'
    BY <1>0, <1>1, <1>3 DEF SendersBusy, TypeOK, Tasks, Disposed
  <1>6. Registered'
    <2>1. SUFFICES ASSUME NEW v \in Sockets, Running(v)', v \notin broken
                   PROVE  v \in conns'[Owner[v]]
      BY <1>1 DEF Registered
    <2>2. v # w /\ Running(v)
      BY <1>0, <1>1, <2>1 DEF Running, TypeOK
    <2>3. v \in conns[Owner[v]] /\ Owner[v] \in Users
      BY <1>0, <2>1, <2>2, ConnectionAssumption DEF Registered
    <2>4. QED
      BY <1>1, <2>2, <2>3 DEF Disconnect
  <1>7. QED
    BY <1>3, <1>4, <1>5, <1>6 DEF ConnInv, Disposed

\* A handler that starts, is refused or returns without disconnect.
LEMMA PhaseKeeps ==
    ASSUME ConnInv, NEW w \in Sockets, Connect(w) \/ Refuse(w) \/ InvalidJson(w)
    PROVE  ConnInv'
  <1>0. /\ TypeOK /\ Owned /\ Registered /\ FailedBroken /\ SendersBusy
        /\ MapsAgree /\ SubscribersConnected /\ Owner[w] \in Users
    BY ConnectionAssumption DEF ConnInv
  <1>1. UNCHANGED <<subs, convs, broken, out>>
    BY DEF Connect, Refuse, InvalidJson
  <1>2. phase[w] # "busy" /\ \A v \in Sockets : v # w => phase'[v] = phase[v]
    BY <1>0 DEF Connect, Refuse, InvalidJson, TypeOK
  <1>3. SendersBusy' /\ FailedBroken' /\ MapsAgree'
    BY <1>0, <1>1, <1>2 DEF SendersBusy, FailedBroken, MapsAgree
  <1>4. CASE Connect(w)
    <2>1. conns' = [conns EXCEPT ![Owner[w]] = @ \cup {w}]
      BY <1>4 DEF Connect
    <2>2. Cardinality({v \in Sockets : phase[v] # "new"}) \in Nat
      BY ConnectionAssumption, FS_Subset, FS_CardinalityType
    <2>3. TypeOK'
      BY <1>0, <1>1, <1>4, <2>2 DEF TypeOK, Connect
    <2>4. Owned' /\ SubscribersConnected'
      BY <1>0, <1>1, <2>1 DEF TypeOK, Owned, SubscribersConnected
    <2>5. Registered'
      BY <1>0, <1>1, <1>2, <2>1, ConnectionAssumption DEF TypeOK, Registered, Running
    <2>6. QED
      BY <1>3, <2>3, <2>4, <2>5 DEF ConnInv
  <1>5. CASE Refuse(w) \/ InvalidJson(w)
    <2>1. conns' = conns /\ since' = since /\ phase' = [phase EXCEPT ![w] = "done"]
      BY <1>5 DEF Refuse, InvalidJson
    <2>2. TypeOK' /\ Owned' /\ SubscribersConnected'
      BY <1>0, <1>1, <2>1 DEF TypeOK, Owned, SubscribersConnected
    <2>3. Registered'
      BY <1>0, <1>1, <2>1 DEF TypeOK, Registered, Running
    <2>4. QED
      BY <1>3, <2>2, <2>3 DEF ConnInv
  <1>6. QED
    BY <1>4, <1>5

LEMMA ShutdownKeeps ==
    ASSUME ConnInv, Shutdown
    PROVE  ConnInv'
  <1>0. TypeOK /\ MapsAgree /\ SubscribersConnected
    BY DEF ConnInv
  <1>1. /\ conns' = [u \in Users |-> {}]
        /\ subs' = [c \in Convs |-> subs[c] \ {u \in Users : conns[u] # {} /\ c \in convs[u]}]
        /\ convs' = [u \in Users |-> IF conns[u] # {} THEN {} ELSE convs[u]]
        /\ phase' = [w \in Sockets |-> "done"]
        /\ UNCHANGED <<since, broken, out>> /\ \A t \in Tasks : out[t] = None
    BY DEF Shutdown
  <1>2. TypeOK'
    BY <1>0, <1>1 DEF TypeOK
  <1>3. MapsAgree' /\ SubscribersConnected'
    BY <1>0, <1>1 DEF TypeOK, MapsAgree, SubscribersConnected
  <1>4. Owned' /\ Registered' /\ FailedBroken' /\ SendersBusy'
    BY <1>1 DEF Owned, Registered, FailedBroken, SendersBusy, Running, Tasks
  <1>5. QED
    BY <1>2, <1>3, <1>4 DEF ConnInv

LEMMA NextConnInv == ConnInv /\ [Next]_vars => ConnInv'
  <1> SUFFICES ASSUME ConnInv, [Next]_vars PROVE ConnInv'
    OBVIOUS
  <1>0. /\ subs \in [Convs -> SUBSET Users]
        /\ \A w \in Sockets : w \in Tasks /\ Owner[w] \in Users
        /\ \A t \in Requests : t \in Tasks /\ t \notin Sockets
    BY ConnectionAssumption DEF ConnInv, TypeOK, Tasks
  <1>1. ASSUME NEW w \in Sockets, NEW c \in Convs, Subscribe(w, c) \/ Unsubscribe(w, c)
        PROVE  ConnInv'
    BY <1>1, SubscribeKeeps, UnsubscribeKeeps
  <1>2. ASSUME NEW w \in Sockets, Answer(w) PROVE ConnInv'
    BY <1>0, <1>2, NotifyKeeps DEF Answer, Running
  <1>3. ASSUME NEW w \in Sockets, NEW c \in Convs, Relay(w, c) PROVE ConnInv'
    BY <1>0, <1>3, NotifyKeeps DEF Relay, Running
  <1>4. ASSUME NEW t \in Requests, NEW u \in Users, NotifyUser(t, u) PROVE ConnInv'
    BY <1>0, <1>4, NotifyKeeps DEF NotifyUser
  <1>5. ASSUME NEW t \in Requests, NEW c \in Convs, NEW u \in Users, NotifyConversation(t, c, u)
        PROVE  ConnInv'
    BY <1>0, <1>5, NotifyKeeps DEF NotifyConversation
  <1>6. ASSUME UNCHANGED vars PROVE ConnInv'
    BY <1>6 DEF vars, ConnInv, TypeOK, Owned, Registered, FailedBroken, SendersBusy, MapsAgree,
                SubscribersConnected, Running
  <1>7. QED
    BY <1>1, <1>2, <1>3, <1>4, <1>5, <1>6, SentKeeps, PhaseKeeps, DisconnectedKeeps, ShutdownKeeps
       DEF Next, Handle, Request

LEMMA InitConnInv == Init => ConnInv
  BY DEF Init, ConnInv, TypeOK, Owned, Registered, FailedBroken, SendersBusy, MapsAgree,
         SubscribersConnected, Running, Tasks

-----------------------------------------------------------------------------
(* Theorems                                                                *)

\* The maps keep their types; in particular no task ever waits for a send to
\* something that is no socket.
THEOREM ConnTypeCorrect == Spec => []TypeOK
  <1>1. ConnInv => TypeOK
    BY DEF ConnInv
  <1>2. QED
    BY InitConnInv, NextConnInv, <1>1, PTL DEF Spec

\* The two subscription maps are inverse to each other after every step.
THEOREM ConnMapsAgree == Spec => []MapsAgree
  <1>1. ConnInv => MapsAgree
    BY DEF ConnInv
  <1>2. QED
    BY InitConnInv, NextConnInv, <1>1, PTL DEF Spec

\* Whatever fails under a handler, a user without connections is subscribed to
\* nothing.
THEOREM ConnSubscribersConnected == Spec => []SubscribersConnected
  <1>1. ConnInv => SubscribersConnected
    BY DEF ConnInv
  <1>2. QED
    BY InitConnInv, NextConnInv, <1>1, PTL DEF Spec

-----------------------------------------------------------------------------
(* The order of the lists, and broken sockets                              *)

\* The sockets whose connection has begun.
Begun == {v \in Sockets : phase[v] # "new"}

\* Whatever was touched has begun, and what begins is the last in every list.
Touched ==
    /\ \A w \in Sockets : w \notin Begun =>
         w \notin broken /\ since[w] = 0 /\ \A u \in Users : w \notin conns[u]
    /\ \A w \in Begun : since[w] < Cardinality(Begun)

\* The sends so far went to sockets before the present one, which has not moved
\* beyond the index of the iteration: lists shrink in front of it and grow behind it.
Ordered(s) ==
    /\ s.ws \in Begun
    /\ \A v \in s.tried : v \in Begun /\ since[v] < since[s.ws]
    /\ s.live => Cardinality({v \in conns[s.user] : since[v] < since[s.ws]}) <= s.at

SendsOrdered == \A t \in Tasks : out[t] # None => Ordered(out[t])

OrderInv == ConnInv /\ Touched /\ SendsOrdered /\ BrokenBeingRemoved

LEMMA BeforeFinite ==
    ASSUME TypeOK, NEW u \in Users, NEW n
    PROVE  /\ IsFiniteSet({v \in conns[u] : since[v] < n})
           /\ Cardinality({v \in conns[u] : since[v] < n}) \in Nat
  <1>1. {v \in conns[u] : since[v] < n} \subseteq Sockets
    BY DEF TypeOK
  <1>2. QED
    BY <1>1, ConnectionAssumption, FS_Subset, FS_CardinalityType

LEMMA VisitOrdered ==
    ASSUME TypeOK, Touched, NEW L \in SUBSET Users, NEW F \in SUBSET Sockets, NEW s \in Visit(L, F)
    PROVE  Ordered(s)
  <1>0. PICK u \in L : s \in {[user |-> u, ws |-> w, at |-> 0, live |-> TRUE,
                               left |-> L \ ({u} \cup skip), failed |-> F, tried |-> {},
                               owed |-> conns[u], calm |-> TRUE] :
                            w \in At(u, 0), skip \in SUBSET {v \in L : conns[v] = {}}}
    BY DEF Visit
  <1>1. PICK w \in At(u, 0) : s.user = u /\ s.ws = w /\ s.at = 0 /\ s.tried = {}
    BY <1>0
  <1>2. w \in conns[u] /\ w \in Sockets
        /\ Cardinality({v \in conns[u] : since[v] < since[w]}) = 0
    BY DEF At, TypeOK
  <1>3. QED
    BY <1>1, <1>2 DEF Ordered, Touched

\* The next element of the list is behind the present one.
LEMMA FollowingOrdered ==
    ASSUME TypeOK, Touched, NEW s0 \in Send, Ordered(s0), NEW F \in SUBSET Sockets,
           NEW s \in Following(s0, F)
    PROVE  Ordered(s)
  <1>1. CASE s \in Visit(s0.left, F)
    BY <1>1, VisitOrdered DEF Send
  <1>2. CASE s0.live /\ \E w \in At(s0.user, s0.at + 1) :
               s = [s0 EXCEPT !.ws = w, !.at = @ + 1, !.failed = F, !.tried = @ \cup {s0.ws}]
    <2>1. PICK w \in At(s0.user, s0.at + 1) :
            s = [s0 EXCEPT !.ws = w, !.at = @ + 1, !.failed = F, !.tried = @ \cup {s0.ws}]
      BY <1>2
    <2>2. /\ s.user = s0.user /\ s.ws = w /\ s.at = s0.at + 1 /\ s.tried = s0.tried \cup {s0.ws}
          /\ s0.user \in Users /\ s0.at \in Nat
      BY <2>1 DEF Send
    <2> DEFINE B(x) == {v \in conns[s0.user] : since[v] < since[x]}
    <2>3. w \in conns[s0.user] /\ w \in Sockets /\ w \in Begun /\ Cardinality(B(w)) = s0.at + 1
      BY <2>2 DEF At, TypeOK, Touched
    <2>4. Cardinality(B(s0.ws)) <= s0.at
      BY <1>2 DEF Ordered
    <2>5. s0.ws \in Sockets /\ since[s0.ws] \in Nat /\ since[w] \in Nat
      BY <2>3 DEF Send, TypeOK
    <2>6. since[s0.ws] < since[w]
      <3>1. SUFFICES ASSUME since[w] <= since[s0.ws] PROVE FALSE
        BY <2>5
      <3>2. B(w) \subseteq B(s0.ws)
        BY <2>2, <2>5, <3>1 DEF TypeOK
      <3>3. IsFiniteSet(B(s0.ws)) /\ Cardinality(B(s0.ws)) \in Nat /\ Cardinality(B(w)) \in Nat
        BY <2>2, BeforeFinite
      <3>4. Cardinality(B(w)) <= Cardinality(B(s0.ws))
        BY <3>2, <3>3, FS_Subset
      <3>5. QED
        BY <2>2, <2>3, <2>4, <3>3, <3>4
    <2>7. \A v \in s.tried : v \in Begun /\ since[v] < since[w]
      <3>1. \A v \in s0.tried : v \in Begun /\ since[v] < since[s0.ws] /\ since[v] \in Nat
        BY DEF Ordered, Begun, TypeOK
      <3>2. QED
        BY <2>2, <2>5, <2>6, <3>1 DEF Ordered
    <2>8. QED
      BY <2>2, <2>3, <2>7 DEF Ordered
  <1>3. QED
    BY <1>1, <1>2 DEF Following

\* A send stays ordered when its list only shrinks.
LEMMA OrderedKeep ==
    ASSUME TypeOK, NEW s \in Send, Ordered(s), NEW n, n.user = s.user, n.ws = s.ws, n.tried = s.tried,
           n.at = s.at, n.live => s.live,
           since' = since, Begun' = Begun, conns'[s.user] \subseteq conns[s.user]
    PROVE  Ordered(n)'
  <1>1. n.ws \in Begun' /\ \A v \in n.tried : v \in Begun' /\ since'[v] < since'[n.ws]
    BY DEF Ordered
  <1>2. ASSUME n.live
        PROVE  Cardinality({v \in conns'[n.user] : since'[v] < since'[n.ws]}) <= n.at
    <2> DEFINE B == {v \in conns[s.user] : since[v] < since[s.ws]}
               D == {v \in conns'[n.user] : since'[v] < since'[n.ws]}
    <2>1. D \subseteq B
      OBVIOUS
    <2>2. s.user \in Users /\ s.at \in Nat
      BY DEF Send
    <2>3. IsFiniteSet(B) /\ Cardinality(B) \in Nat /\ Cardinality(B) <= s.at
      BY <1>2, <2>2, BeforeFinite DEF Ordered
    <2> HIDE DEF B, D
    <2>4. Cardinality(D) <= Cardinality(B) /\ Cardinality(D) \in Nat
      BY <2>1, <2>3, FS_Subset, FS_CardinalityType
    <2>5. Cardinality(D) <= n.at
      BY <2>2, <2>3, <2>4
    <2>6. QED
      BY <2>5 DEF D
  <1>3. QED
    BY <1>1, <1>2 DEF Ordered

\* What disconnect does to the sends of others.
LEMMA DisconnectOthers ==
    ASSUME TypeOK, NEW t \in Tasks, NEW G \in SUBSET Sockets, NEW S, NEW C, Disconnect(t, G, S, C),
           NEW p \in Tasks
    PROVE  /\ out'[p] # None => p # t /\ out[p] # None
           /\ p # t /\ out[p] # None =>
                /\ out'[p] # None
                /\ out'[p].user = out[p].user /\ out'[p].ws = out[p].ws /\ out'[p].tried = out[p].tried
                /\ out'[p].at = out[p].at /\ (out'[p].live => out[p].live)
                /\ out'[p].failed = out[p].failed
  <1>1. p = t \/ out[p] = None => out'[p] = None
    BY DEF Disconnect
  <1>2. ASSUME p # t, out[p] # None
        PROVE  /\ out'[p] # None
               /\ out'[p].user = out[p].user /\ out'[p].ws = out[p].ws /\ out'[p].tried = out[p].tried
               /\ out'[p].at = out[p].at /\ (out'[p].live => out[p].live)
               /\ out'[p].failed = out[p].failed
    <2> DEFINE b1 == out[p].live /\ ~(conns[out[p].user] \subseteq G)
               b2 == out[p].calm /\ conns[out[p].user] \cap G = {}
    <2>1. out'[p] = [out[p] EXCEPT !.live = b1, !.calm = b2]
      BY <1>2 DEF Disconnect
    <2>2. out[p] \in Send /\ (b1 => out[p].live)
      BY <1>2 DEF TypeOK
    <2>3. b1 \in BOOLEAN /\ b2 \in BOOLEAN
      BY <2>2 DEF Send
    <2> HIDE DEF b1, b2
    <2>4. out'[p] \in Send
      BY <2>1, <2>2, <2>3 DEF Send
    <2>5. QED
      BY <2>1, <2>2, <2>4, SendAssumption DEF Send
  <1>3. QED
    BY <1>1, <1>2

\* A task that goes on or ends.
LEMMA ProceedOrders ==
    ASSUME OrderInv, NEW t \in Tasks, NEW N, NEW F \in SUBSET Begun, NEW S, NEW C,
           broken' \in SUBSET Sockets, broken \subseteq broken', broken' \subseteq broken \cup F,
           out[t] # None => out[t].failed \subseteq F,
           \A s \in N : s \in Send /\ s.failed = F /\ Ordered(s),
           t \in Sockets => Running(t),
           since' = since, Proceed(t, N, F, S, C)
    PROVE  Touched' /\ SendsOrdered' /\ BrokenBeingRemoved'
  <1>0. TypeOK /\ Touched /\ SendsOrdered /\ BrokenBeingRemoved
    BY DEF OrderInv, ConnInv
  <1>1. phase' \in [Sockets -> {"new", "receive", "busy", "done"}]
        /\ \A w \in Sockets : phase'[w] = "new" <=> phase[w] = "new"
    BY <1>0 DEF Proceed, TypeOK, Running
  <1>2. Begun' = Begun
    BY <1>1 DEF Begun
  <1>3. F \subseteq Sockets
    BY DEF Begun
  <1>4. CASE (\E s \in N : out' = [out EXCEPT ![t] = s]) /\ conns' = conns
    <2>1. PICK s \in N : out' = [out EXCEPT ![t] = s]
      BY <1>4
    <2>2. s \in Send /\ s.failed = F /\ Ordered(s) /\ s # None
      BY <2>1, SendAssumption
    <2>3. \A p \in Tasks : out'[p] = IF p = t THEN s ELSE out[p]
      BY <1>0, <2>1 DEF TypeOK
    <2>4. Touched'
      BY <1>0, <1>2, <1>4 DEF Touched
    <2>5. SendsOrdered'
      BY <1>0, <1>2, <1>4, <2>2, <2>3 DEF SendsOrdered, Ordered
    <2>6. BrokenBeingRemoved'
      <3>1. SUFFICES ASSUME NEW w \in broken', w \in conns[Owner[w]]
                     PROVE  \E p \in Tasks : out'[p] # None /\ w \in out'[p].failed
        BY <1>4 DEF BrokenBeingRemoved
      <3>2. CASE w \in F
        BY <2>2, <2>3, <3>2
      <3>3. CASE w \notin F
        <4>1. w \in broken
          BY <3>1, <3>3
        <4>2. PICK p \in Tasks : out[p] # None /\ w \in out[p].failed
          BY <1>0, <3>1, <4>1 DEF BrokenBeingRemoved
        <4>3. p # t
          BY <3>3, <4>2
        <4>4. QED
          BY <2>3, <4>2, <4>3
      <3>4. QED
        BY <3>2, <3>3
    <2>7. QED
      BY <2>4, <2>5, <2>6
  <1>5. CASE Disconnect(t, F \cup ({t} \cap broken'), S, C)
    <2> DEFINE G == F \cup ({t} \cap broken')
    <2>1. G \in SUBSET Sockets /\ F \subseteq G /\ Disconnect(t, G, S, C)
      BY <1>3, <1>5
    <2> HIDE DEF G
    <2>2. \A u \in Users : conns'[u] = conns[u] \ G
      BY <2>1 DEF Disconnect
    <2>3. Touched'
      BY <1>0, <1>2, <1>3, <2>2 DEF Touched
    <2>4. SendsOrdered'
      <3>1. SUFFICES ASSUME NEW p \in Tasks, out'[p] # None PROVE Ordered(out[p])'
        BY DEF SendsOrdered
      <3>2. PICK n : n = out'[p]
        OBVIOUS
      <3>3. PICK s : s = out[p]
        OBVIOUS
      <3>4. /\ s # None /\ n.user = s.user /\ n.ws = s.ws /\ n.tried = s.tried
            /\ n.at = s.at /\ (n.live => s.live)
        BY <1>0, <2>1, <3>1, <3>2, <3>3, DisconnectOthers
      <3>5. s \in Send /\ Ordered(s) /\ s.user \in Users
        BY <1>0, <3>3, <3>4 DEF TypeOK, SendsOrdered, Send
      <3>6. conns'[s.user] \subseteq conns[s.user]
        BY <2>2, <3>5
      <3>7. Ordered(n)'
        BY <1>0, <1>2, <3>4, <3>5, <3>6, OrderedKeep
      <3>8. QED
        BY <3>2, <3>7 DEF Ordered
    <2>5. BrokenBeingRemoved'
      <3>1. SUFFICES ASSUME NEW w \in broken', w \in conns'[Owner[w]]
                     PROVE  \E p \in Tasks : out'[p] # None /\ w \in out'[p].failed
        BY DEF BrokenBeingRemoved
      <3>2. w \notin G /\ w \in conns[Owner[w]]
        BY <2>2, <3>1, ConnectionAssumption
      <3>3. w \notin F /\ w \in broken
        BY <2>1, <3>1, <3>2
      <3>4. PICK p \in Tasks : out[p] # None /\ w \in out[p].failed
        BY <1>0, <3>2, <3>3 DEF BrokenBeingRemoved
      <3>5. p # t
        BY <3>3, <3>4
      <3>6. out'[p] # None /\ out'[p].failed = out[p].failed
        BY <1>0, <2>1, <3>4, <3>5, DisconnectOthers
      <3>7. QED
        BY <3>4, <3>6
    <2>6. QED
      BY <2>3, <2>4, <2>5
  <1>6. QED
    BY <1>4, <1>5 DEF Proceed

LEMMA SentOrders ==
    ASSUME OrderInv, NEW t \in Tasks, Sent(t)
    PROVE  Touched' /\ SendsOrdered' /\ BrokenBeingRemoved'
  <1>0. TypeOK /\ FailedBroken /\ SendersBusy /\ Touched /\ SendsOrdered
    BY DEF OrderInv, ConnInv
  <1>1. PICK s : s = out[t]
    OBVIOUS
  <1>2. /\ s \in Send /\ s.failed \subseteq broken /\ Ordered(s) /\ s.ws \in Begun
        /\ (t \in Sockets => Running(t))
    BY <1>0, <1>1 DEF Sent, TypeOK, FailedBroken, SendersBusy, Running, SendsOrdered, Ordered
  <1>3. s.failed \subseteq Begun
    BY <1>0, <1>2 DEF Touched, TypeOK
  <1>4. PICK F \in SUBSET Begun : /\ s.failed \subseteq F /\ broken' \subseteq broken \cup F
                                  /\ broken' \in SUBSET Sockets /\ broken \subseteq broken'
                                  /\ Proceed(t, Following(s, F), F, subs, convs)
    <2>1. s.ws \in Sockets /\ s.failed \cup {s.ws} \in SUBSET Begun
      BY <1>2, <1>3 DEF Send
    <2>2. CASE /\ broken' = broken
               /\ Proceed(t, Following(s, s.failed), s.failed, subs, convs)
      BY <1>0, <1>3, <2>2 DEF TypeOK
    <2>3. CASE /\ broken' = broken \cup {s.ws}
               /\ Proceed(t, Following(s, s.failed \cup {s.ws}), s.failed \cup {s.ws}, subs, convs)
      BY <1>0, <2>1, <2>3 DEF TypeOK
    <2>4. QED
      BY <1>1, <2>2, <2>3 DEF Sent
  <1>5. F \in SUBSET Sockets
    BY DEF Begun
  <1>6. \A n \in Following(s, F) : n \in Send /\ n.failed = F /\ Ordered(n)
    BY <1>0, <1>2, <1>5, FollowingTyped, FollowingOrdered
  <1>7. since' = since
    BY DEF Sent
  <1>8. QED
    BY <1>1, <1>2, <1>4, <1>6, <1>7, ProceedOrders

\* The sends that begin.
LEMMA BeginOrders ==
    ASSUME OrderInv, NEW t \in Tasks, NEW N, NEW S, NEW C, out[t] = None,
           \A s \in N : s \in Send /\ s.failed = {} /\ Ordered(s),
           t \in Sockets => Running(t),
           broken' = broken, since' = since, Proceed(t, N, {}, S, C)
    PROVE  Touched' /\ SendsOrdered' /\ BrokenBeingRemoved'
  <1> DEFINE F == {}
  <1>1. F \in SUBSET Begun /\ Proceed(t, N, F, S, C) /\ \A s \in N : s.failed = F
    OBVIOUS
  <1>2. broken' \in SUBSET Sockets /\ broken \subseteq broken' /\ broken' \subseteq broken \cup F
    BY DEF OrderInv, ConnInv, TypeOK
  <1> HIDE DEF F
  <1>3. QED
    BY <1>1, <1>2, ProceedOrders

LEMMA VisitBegins ==
    ASSUME OrderInv, NEW L \in SUBSET Users, NEW s \in Visit(L, {})
    PROVE  s \in Send /\ s.failed = {} /\ Ordered(s)
  <1> DEFINE F == {}
  <1>1. F \in SUBSET Sockets /\ s \in Visit(L, F)
    OBVIOUS
  <1> HIDE DEF F
  <1>2. s \in Send /\ s.failed = F /\ Ordered(s)
    BY <1>1, VisitTyped, VisitOrdered DEF OrderInv, ConnInv
  <1>3. QED
    BY <1>2 DEF F

LEMMA DisconnectedOrders ==
    ASSUME OrderInv, NEW w \in Sockets, Disconnected(w)
    PROVE  Touched' /\ SendsOrdered' /\ BrokenBeingRemoved'
  <1>0. /\ TypeOK /\ Touched /\ SendsOrdered /\ BrokenBeingRemoved /\ SendersBusy
        /\ w \in Tasks /\ phase[w] = "receive"
    BY DEF OrderInv, ConnInv, Disconnected, Tasks
  <1>1. /\ Disconnect(w, {w}, subs, convs) /\ broken' = broken /\ since' = since
        /\ phase' = [phase EXCEPT ![w] = "done"]
    BY DEF Disconnected
  <1>2. Begun' = Begun
    BY <1>0, <1>1 DEF Begun, TypeOK
  <1>3. \A u \in Users : conns'[u] = conns[u] \ {w}
    BY <1>1 DEF Disconnect
  <1>4. out[w] = None
    BY <1>0 DEF SendersBusy
  <1>5. \A p \in Tasks :
          /\ out'[p] # None => p # w /\ out[p] # None
          /\ p # w /\ out[p] # None =>
                /\ out'[p] # None
                /\ out'[p].user = out[p].user /\ out'[p].ws = out[p].ws /\ out'[p].tried = out[p].tried
                /\ out'[p].at = out[p].at /\ (out'[p].live => out[p].live)
                /\ out'[p].failed = out[p].failed
    <2> DEFINE G == {w}
    <2>1. G \in SUBSET Sockets /\ Disconnect(w, G, subs, convs)
      BY <1>1
    <2> HIDE DEF G
    <2>2. QED
      BY <1>0, <2>1, DisconnectOthers
  <1>6. Touched'
    BY <1>0, <1>1, <1>2, <1>3 DEF Touched
  <1>7. SendsOrdered'
    <2>1. SUFFICES ASSUME NEW p \in Tasks, out'[p] # None PROVE Ordered(out[p])'
      BY DEF SendsOrdered
    <2>2. PICK n : n = out'[p]
      OBVIOUS
    <2>3. PICK s : s = out[p]
      OBVIOUS
    <2>4. /\ s # None /\ n.user = s.user /\ n.ws = s.ws /\ n.tried = s.tried
          /\ n.at = s.at /\ (n.live => s.live)
      BY <1>5, <2>1, <2>2, <2>3
    <2>5. s \in Send /\ Ordered(s) /\ s.user \in Users
      BY <1>0, <2>3, <2>4 DEF TypeOK, SendsOrdered, Send
    <2>6. conns'[s.user] \subseteq conns[s.user]
      BY <1>3, <2>5
    <2>7. Ordered(n)'
      BY <1>0, <1>1, <1>2, <2>4, <2>5, <2>6, OrderedKeep
    <2>8. QED
      BY <2>2, <2>7 DEF Ordered
  <1>8. BrokenBeingRemoved'
    <2>1. SUFFICES ASSUME NEW v \in broken, v \in conns'[Owner[v]]
                   PROVE  \E p \in Tasks : out'[p] # None /\ v \in out'[p].failed
      BY <1>1 DEF BrokenBeingRemoved
    <2>2. v \in conns[Owner[v]]
      BY <1>0, <1>3, <2>1, ConnectionAssumption DEF TypeOK
    <2>3. PICK p \in Tasks : out[p] # None /\ v \in out[p].failed
      BY <1>0, <2>2 DEF BrokenBeingRemoved
    <2>4. QED
      BY <1>4, <1>5, <2>3
  <1>9. QED
    BY <1>6, <1>7, <1>8

LEMMA BegunFinite == IsFiniteSet(Begun) /\ Cardinality(Begun) \in Nat
  BY ConnectionAssumption, FS_Subset, FS_CardinalityType DEF Begun

\* A connection begins behind all others.
LEMMA ConnectOrders ==
    ASSUME OrderInv, NEW w \in Sockets, Connect(w)
    PROVE  Touched' /\ SendsOrdered' /\ BrokenBeingRemoved'
  <1>0. /\ TypeOK /\ Touched /\ SendsOrdered /\ BrokenBeingRemoved /\ Owner[w] \in Users
    BY ConnectionAssumption DEF OrderInv, ConnInv
  <1>k. PICK k \in Nat : k = Cardinality(Begun)
    BY BegunFinite
  <1>1. /\ phase' = [phase EXCEPT ![w] = "receive"] /\ w \notin Begun /\ phase[w] = "new"
        /\ conns' = [conns EXCEPT ![Owner[w]] = @ \cup {w}]
        /\ since' = [since EXCEPT ![w] = k]
        /\ UNCHANGED <<subs, convs, broken, out>>
    BY <1>k DEF Connect, Begun
  <1>2. /\ since'[w] = k /\ \A v \in Sockets : v # w => since'[v] = since[v]
        /\ conns'[Owner[w]] = conns[Owner[w]] \cup {w}
        /\ \A u \in Users : u # Owner[w] => conns'[u] = conns[u]
    BY <1>0, <1>1 DEF TypeOK
  <1>3. Begun' = Begun \cup {w}
    BY <1>0, <1>1 DEF Begun, TypeOK
  <1>4. Cardinality(Begun') = k + 1
    BY <1>k, <1>1, <1>3, BegunFinite, FS_AddElement
  <1>5. \A v \in Begun : v \in Sockets /\ v # w /\ since[v] < k /\ since[v] \in Nat
    BY <1>0, <1>k, <1>1 DEF Touched, Begun, TypeOK
  <1>6. Touched'
    <2>1. \A v \in Sockets : v \notin Begun' =>
            v \notin broken' /\ since'[v] = 0 /\ \A u \in Users : v \notin conns'[u]
      BY <1>0, <1>1, <1>2, <1>3 DEF Touched
    <2>2. \A v \in Begun' : since'[v] < Cardinality(Begun')
      BY <1>2, <1>3, <1>4, <1>5
    <2>3. QED
      BY <2>1, <2>2 DEF Touched
  <1>7. SendsOrdered'
    <2>1. SUFFICES ASSUME NEW p \in Tasks, out[p] # None PROVE Ordered(out[p])'
      BY <1>1 DEF SendsOrdered
    <2>2. PICK s : s = out[p] /\ s = out'[p]
      BY <1>1
    <2>3. s \in Send /\ Ordered(s) /\ s.user \in Users /\ s.ws \in Begun /\ s.tried \subseteq Begun
      BY <1>0, <2>1, <2>2 DEF TypeOK, SendsOrdered, Send, Ordered
    <2>4. \A v \in Begun : since'[v] = since[v]
      BY <1>2, <1>5
    <2>5. {v \in conns'[s.user] : since'[v] < since'[s.ws]} = {v \in conns[s.user] : since[v] < since[s.ws]}
      <3>1. since'[s.ws] = since[s.ws] /\ since[s.ws] < k /\ since[s.ws] \in Nat
        BY <1>5, <2>3, <2>4
      <3>2. ~(since'[w] < since'[s.ws])
        BY <1>2, <3>1
      <3>3. \A v \in conns[s.user] : v \in Sockets /\ v # w
        BY <1>0, <1>1, <2>3 DEF TypeOK, Touched
      <3>4. \A v \in conns[s.user] : since'[v] = since[v]
        BY <1>2, <3>3
      <3>5. conns'[s.user] = conns[s.user] \/ conns'[s.user] = conns[s.user] \cup {w}
        BY <1>2, <2>3
      <3>6. QED
        BY <3>1, <3>2, <3>4, <3>5
    <2>6. Ordered(s)'
      BY <1>3, <2>3, <2>4, <2>5 DEF Ordered
    <2>7. QED
      BY <2>2, <2>6 DEF Ordered
  <1>8. BrokenBeingRemoved'
    <2>1. w \notin broken
      BY <1>0, <1>1 DEF Touched
    <2>2. \A v \in broken : v \in conns'[Owner[v]] => v \in conns[Owner[v]]
      BY <1>0, <1>2, <2>1, ConnectionAssumption DEF TypeOK
    <2>3. QED
      BY <1>0, <1>1, <2>2 DEF BrokenBeingRemoved
  <1>9. QED
    BY <1>6, <1>7, <1>8

\* Handlers end, and nothing is sent or listed anew.
LEMMA EndOrders ==
    ASSUME OrderInv, phase' \in [Sockets -> {"new", "receive", "busy", "done"}],
           \A w \in Sockets : phase'[w] = "new" => phase[w] = "new",
           \A u \in Users : conns'[u] \subseteq conns[u],
           \/ conns' = conns
           \/ (\A t \in Tasks : out[t] = None) /\ \A u \in Users : conns'[u] = {},
           UNCHANGED <<since, broken, out>>
    PROVE  Touched' /\ SendsOrdered' /\ BrokenBeingRemoved'
  <1>0. /\ TypeOK /\ Touched /\ SendsOrdered /\ BrokenBeingRemoved
    BY DEF OrderInv, ConnInv
  <1>1. Begun \subseteq Begun' /\ Begun' \subseteq Sockets
    BY DEF Begun
  <1>2. IsFiniteSet(Begun') /\ Cardinality(Begun') \in Nat /\ Cardinality(Begun) \in Nat
        /\ Cardinality(Begun) <= Cardinality(Begun')
    BY <1>1, BegunFinite, ConnectionAssumption, FS_Subset, FS_CardinalityType
  <1>3. ASSUME NEW v \in Begun' PROVE since[v] < Cardinality(Begun')
    <2>1. CASE v \in Begun
      BY <1>0, <1>2, <2>1 DEF Touched, Begun, TypeOK
    <2>2. CASE v \notin Begun
      <3>1. since[v] = 0
        BY <1>0, <1>1, <2>2 DEF Touched
      <3>2. Cardinality(Begun') # 0
        BY <1>2, FS_EmptySet
      <3>3. QED
        BY <1>2, <3>1, <3>2
    <2>3. QED
      BY <2>1, <2>2
  <1>4. Touched'
    BY <1>0, <1>1, <1>3 DEF Touched
  <1>5. SendsOrdered' /\ BrokenBeingRemoved'
    <2>1. CASE conns' = conns
      <3>1. BrokenBeingRemoved'
        BY <1>0, <2>1 DEF BrokenBeingRemoved
      <3>2. SendsOrdered'
        BY <1>0, <1>1, <2>1 DEF SendsOrdered, Ordered
      <3>3. QED
        BY <3>1, <3>2
    <2>2. CASE (\A t \in Tasks : out[t] = None) /\ \A u \in Users : conns'[u] = {}
      BY <1>0, <2>2, ConnectionAssumption DEF SendsOrdered, BrokenBeingRemoved, TypeOK
    <2>3. QED
      BY <2>1, <2>2
  <1>6. QED
    BY <1>4, <1>5

LEMMA NextOrders == OrderInv /\ [Next]_vars => OrderInv'
  <1> SUFFICES ASSUME OrderInv, [Next]_vars PROVE OrderInv'
    OBVIOUS
  <1>0. /\ TypeOK /\ SendersBusy /\ subs \in [Convs -> SUBSET Users]
        /\ \A w \in Sockets : w \in Tasks /\ Owner[w] \in Users
        /\ \A w \in Sockets : phase[w] = "receive" => out[w] = None /\ Running(w)
        /\ \A t \in Requests : t \in Tasks /\ t \notin Sockets
    BY ConnectionAssumption DEF OrderInv, ConnInv, TypeOK, Tasks, SendersBusy, Running
  <1>1. ConnInv'
    BY NextConnInv DEF OrderInv
  <1> DEFINE More == Touched' /\ SendsOrdered' /\ BrokenBeingRemoved'
  <1>2. ASSUME NEW t \in Tasks, NEW L \in SUBSET Users, NEW S, NEW C, out[t] = None,
               t \in Sockets => Running(t), broken' = broken, since' = since,
               Proceed(t, Visit(L, {}), {}, S, C)
        PROVE  More
    <2>1. \A s \in Visit(L, {}) : s \in Send /\ s.failed = {} /\ Ordered(s)
      BY VisitBegins
    <2>2. QED
      BY <1>2, <2>1, BeginOrders
  <1>3. ASSUME NEW w \in Sockets, NEW c \in Convs, Subscribe(w, c) PROVE More
    <2>1. {Owner[w]} \in SUBSET Users
      BY <1>0
    <2>2. QED
      BY <1>0, <1>2, <1>3, <2>1 DEF Subscribe
  <1>4. ASSUME NEW w \in Sockets, NEW c \in Convs, Unsubscribe(w, c) PROVE More
    <2>1. /\ phase[w] = "receive" /\ broken' = broken /\ since' = since
          /\ Proceed(w, {}, {}, [subs EXCEPT ![c] = @ \ {Owner[w]}],
                                [convs EXCEPT ![Owner[w]] = @ \ {c}])
      BY <1>4 DEF Unsubscribe
    <2>2. QED
      BY <1>0, <2>1, BeginOrders
  <1>5. ASSUME NEW w \in Sockets, NEW c \in Convs, Relay(w, c) PROVE More
    <2>1. subs[c] \ {Owner[w]} \in SUBSET Users
      BY <1>0
    <2>2. QED
      BY <1>0, <1>2, <1>5, <2>1 DEF Relay
  <1>6. ASSUME NEW w \in Sockets, Answer(w) PROVE More
    <2>1. {Owner[w]} \in SUBSET Users
      BY <1>0
    <2>2. QED
      BY <1>0, <1>2, <1>6, <2>1 DEF Answer
  <1>7. ASSUME NEW t \in Requests, NEW u \in Users, NotifyUser(t, u) PROVE More
    BY <1>0, <1>2, <1>7 DEF NotifyUser
  <1>8. ASSUME NEW t \in Requests, NEW c \in Convs, NEW u \in Users, NotifyConversation(t, c, u)
        PROVE  More
    <2>1. subs[c] \ {u} \in SUBSET Users
      BY <1>0
    <2>2. QED
      BY <1>0, <1>2, <1>8, <2>1 DEF NotifyConversation
  <1>9. ASSUME NEW w \in Sockets, Refuse(w) \/ InvalidJson(w) PROVE More
    <2>1. phase' = [phase EXCEPT ![w] = "done"] /\ UNCHANGED <<conns, since, broken, out>>
      BY <1>9 DEF Refuse, InvalidJson
    <2>2. QED
      BY <1>0, <2>1, EndOrders DEF TypeOK
  <1>10. ASSUME Shutdown PROVE More
    <2>1. /\ phase' = [w \in Sockets |-> "done"] /\ conns' = [u \in Users |-> {}]
          /\ UNCHANGED <<since, broken, out>> /\ \A t \in Tasks : out[t] = None
      BY <1>10 DEF Shutdown
    <2>2. QED
      BY <1>0, <2>1, EndOrders DEF TypeOK
  <1>11. ASSUME UNCHANGED vars PROVE More
    BY <1>0, <1>11, EndOrders DEF vars, TypeOK
  <1>12. More
    <2> HIDE DEF More
    <2>1. ASSUME NEW w \in Sockets, Handle(w) PROVE More
      BY <1>3, <1>4, <1>5, <1>6, <1>9, <2>1, ConnectOrders, DisconnectedOrders DEF Handle, More
    <2>2. ASSUME NEW t \in Requests, Request(t) PROVE More
      BY <1>7, <1>8, <2>2 DEF Request
    <2>3. ASSUME NEW t \in Tasks, Sent(t) PROVE More
      BY <2>3, SentOrders DEF More
    <2>4. QED
      BY <1>10, <1>11, <2>1, <2>2, <2>3 DEF Next
  <1>13. QED
    BY <1>1, <1>12 DEF OrderInv

LEMMA InitOrderInv == Init => OrderInv
  <1> SUFFICES ASSUME Init PROVE OrderInv
    OBVIOUS
  <1>1. Begun = {}
    BY DEF Init, Begun
  <1>2. Touched /\ SendsOrdered /\ BrokenBeingRemoved
    BY <1>1 DEF Init, Touched, SendsOrdered, BrokenBeingRemoved
  <1>3. QED
    BY <1>2, InitConnInv DEF OrderInv

\* No device is sent a message twice, whatever is removed from its user's list or
\* appended to it between two sends (send_personal_message).
THEOREM ConnAtMostOncePerDevice == Spec => []AtMostOncePerDevice
  <1>1. OrderInv => AtMostOncePerDevice
    <2>1. SUFFICES ASSUME OrderInv, NEW t \in Tasks, out[t] # None, out[t].ws \in out[t].tried
                   PROVE  FALSE
      BY DEF AtMostOncePerDevice
    <2>2. out[t].ws \in Sockets /\ since[out[t].ws] < since[out[t].ws]
      BY <2>1 DEF OrderInv, SendsOrdered, Ordered, Begun
    <2>3. since[out[t].ws] \in Nat
      BY <2>1, <2>2 DEF OrderInv, ConnInv, TypeOK
    <2>4. QED
      BY <2>2, <2>3
  <1>2. QED
    BY InitOrderInv, NextOrders, <1>1, PTL DEF Spec

\* A socket a send failed on is listed only while the task that found out is still
\* sending (broadcast_to_conversation, disconnect).
THEOREM ConnBrokenBeingRemoved == Spec => []BrokenBeingRemoved
  <1>1. OrderInv => BrokenBeingRemoved
    BY DEF OrderInv
  <1>2. QED
    BY InitOrderInv, NextOrders, <1>1, PTL DEF Spec

-----------------------------------------------------------------------------
(* Iterations nobody disturbs                                              *)

\* No two sockets of a list were appended at once.
Distinct == \A u \in Users : \A v, w \in conns[u] : since[v] = since[w] => v = w

Before(u, w) == {v \in conns[u] : since[v] < since[w]}

\* An iteration over a list that nobody was removed from stands at its index, and
\* has been to all that is in front of it.
Steady(s) ==
    /\ s.live /\ s.ws \in conns[s.user] /\ s.owed \subseteq conns[s.user]
    /\ Cardinality(Before(s.user, s.ws)) = s.at
    /\ Before(s.user, s.ws) \subseteq s.tried

SteadyInv ==
    /\ Distinct
    /\ \A t \in Tasks : out[t] # None /\ out[t].calm => Steady(out[t])

\* Finitely many sockets are in front of another.
LEMMA BeforeCounted ==
    ASSUME TypeOK, NEW u \in Users, NEW w
    PROVE  IsFiniteSet(Before(u, w)) /\ Cardinality(Before(u, w)) \in Nat
  BY BeforeFinite DEF Before

\* Between a socket and the next there is none: who is behind s0.ws, with one more
\* socket in front of them, has all of these in front.
LEMMA NextInList ==
    ASSUME TypeOK, Distinct, NEW u \in Users, NEW x \in conns[u], NEW w \in conns[u],
           NEW n \in Nat, Cardinality(Before(u, x)) = n, Cardinality(Before(u, w)) = n + 1
    PROVE  Before(u, w) \subseteq Before(u, x) \cup {x}
  <1>0. /\ conns[u] \subseteq Sockets /\ \A v \in conns[u] : since[v] \in Nat
        /\ IsFiniteSet(Before(u, x)) /\ IsFiniteSet(Before(u, w))
    BY BeforeCounted DEF TypeOK
  <1>1. SUFFICES ASSUME NEW v \in Before(u, w), v \notin Before(u, x) \cup {x} PROVE FALSE
    OBVIOUS
  <1>2. v \in conns[u] /\ since[v] < since[w] /\ since[x] < since[v]
    BY <1>0, <1>1 DEF Before, Distinct
  <1>3. x \notin Before(u, x) /\ v \notin Before(u, x) \cup {x}
    BY <1>0, <1>1 DEF Before
  <1>4. Before(u, x) \cup {x} \cup {v} \subseteq Before(u, w)
    BY <1>0, <1>2 DEF Before
  <1>5. Cardinality(Before(u, x) \cup {x}) = n + 1 /\ IsFiniteSet(Before(u, x) \cup {x})
    BY <1>0, <1>3, FS_AddElement
  <1>6. Cardinality(Before(u, x) \cup {x} \cup {v}) = n + 1 + 1
    BY <1>3, <1>5, FS_AddElement
  <1>7. Cardinality(Before(u, x) \cup {x} \cup {v}) <= Cardinality(Before(u, w))
    BY <1>0, <1>4, FS_Subset
  <1>8. QED
    BY <1>6, <1>7

\* If nobody has one more socket in front, the list is at its end.
LEMMA EndOfList ==
    ASSUME TypeOK, Distinct, NEW u \in Users, NEW x \in conns[u], NEW n \in Nat,
           Cardinality(Before(u, x)) = n, At(u, n + 1) = {}
    PROVE  conns[u] \subseteq Before(u, x) \cup {x}
  <1>0. /\ conns[u] \subseteq Sockets /\ \A v \in conns[u] : since[v] \in Nat
        /\ IsFiniteSet(Before(u, x))
    BY BeforeCounted DEF TypeOK
  <1> DEFINE B == {v \in conns[u] : since[x] < since[v]}
  <1>1. SUFFICES ASSUME B # {} PROVE FALSE
    BY <1>0 DEF Before, Distinct
  <1> DEFINE T == {since[v] : v \in B}
  <1>2. T \subseteq Nat /\ T # {}
    BY <1>0, <1>1
  <1>3. PICK m \in T : \A k \in T : ~(k < m)
    <2> DEFINE R == {ss \in Nat \X Nat : ss[1] < ss[2]}
    <2>1. IsWellFoundedOn(R, Nat)
      BY NatLessThanWellFounded DEF OpToRel
    <2>2. \A k \in T, m \in T : k < m => <<k, m>> \in R
      BY <1>2
    <2> HIDE DEF R, T
    <2>3. \E m \in T : \A k \in T : ~(<<k, m>> \in R)
      BY <1>2, <2>1, WFMin
    <2>4. QED
      BY <2>2, <2>3
  <1>4. PICK w \in B : since[w] = m
    BY <1>3
  <1>5. w \in conns[u] /\ since[x] < since[w]
    BY <1>4
  <1>6. \A v \in conns[u] : since[x] < since[v] => ~(since[v] < since[w])
    BY <1>3, <1>4
  <1>7. Before(u, w) = Before(u, x) \cup {x}
    BY <1>0, <1>5, <1>6 DEF Before, Distinct
  <1>8. x \notin Before(u, x)
    BY <1>0 DEF Before
  <1>9. Cardinality(Before(u, w)) = n + 1
    BY <1>0, <1>7, <1>8, FS_AddElement
  <1>10. QED
    BY <1>5, <1>9 DEF At, Before

\* A send that begins stands at the first socket, with nobody in front.
LEMMA VisitSteady ==
    ASSUME TypeOK, NEW L \in SUBSET Users, NEW F, NEW s \in Visit(L, F)
    PROVE  Steady(s) /\ s.user \in L
  <1>0. PICK u \in L : s \in {[user |-> u, ws |-> w, at |-> 0, live |-> TRUE,
                               left |-> L \ ({u} \cup skip), failed |-> F, tried |-> {},
                               owed |-> conns[u], calm |-> TRUE] :
                            w \in At(u, 0), skip \in SUBSET {v \in L : conns[v] = {}}}
    BY DEF Visit
  <1>1. PICK w \in At(u, 0) : /\ s.user = u /\ s.ws = w /\ s.at = 0 /\ s.tried = {}
                              /\ s.live = TRUE /\ s.owed = conns[u]
    BY <1>0
  <1>2. w \in conns[u] /\ Cardinality(Before(u, w)) = 0
    BY DEF At, Before
  <1>3. Before(u, w) = {}
    BY <1>2, BeforeCounted, FS_EmptySet
  <1>4. QED
    BY <1>1, <1>2, <1>3 DEF Steady

\* A send that moves on within a list stands at the next socket.
LEMMA FollowingSteady ==
    ASSUME TypeOK, Distinct, NEW s0 \in Send, s0.calm => Steady(s0), NEW F,
           NEW s \in Following(s0, F), s.calm
    PROVE  Steady(s)
  <1>1. CASE s \in Visit(s0.left, F)
    BY <1>1, VisitSteady DEF Send
  <1>2. CASE s0.live /\ \E w \in At(s0.user, s0.at + 1) :
               s = [s0 EXCEPT !.ws = w, !.at = @ + 1, !.failed = F, !.tried = @ \cup {s0.ws}]
    <2>1. PICK w \in At(s0.user, s0.at + 1) :
            s = [s0 EXCEPT !.ws = w, !.at = @ + 1, !.failed = F, !.tried = @ \cup {s0.ws}]
      BY <1>2
    <2>2. /\ s.user = s0.user /\ s.ws = w /\ s.at = s0.at + 1 /\ s.tried = s0.tried \cup {s0.ws}
          /\ s.live = s0.live /\ s.owed = s0.owed /\ s.calm = s0.calm
          /\ s0.user \in Users /\ s0.at \in Nat
      BY <2>1 DEF Send
    <2>3. w \in conns[s0.user] /\ Cardinality(Before(s0.user, w)) = s0.at + 1
      BY DEF At, Before
    <2>4. Steady(s0)
      BY <2>2
    <2>5. Before(s0.user, w) \subseteq Before(s0.user, s0.ws) \cup {s0.ws}
      BY <2>2, <2>3, <2>4, NextInList DEF Steady
    <2>6. QED
      BY <1>2, <2>2, <2>3, <2>4, <2>5 DEF Steady
  <1>3. QED
    BY <1>1, <1>2 DEF Following

\* A task leaves its list at the end only.
LEMMA FollowingLeaves ==
    ASSUME TypeOK, Distinct, NEW s0 \in Send, Steady(s0), NEW F,
           \/ Following(s0, F) = {}
           \/ \E s \in Following(s0, F) : s.user # s0.user
    PROVE  s0.owed \subseteq s0.tried \cup {s0.ws}
  <1>0. s0.user \in Users /\ s0.at \in Nat
    BY DEF Send
  <1>1. At(s0.user, s0.at + 1) = {}
    <2>1. SUFFICES ASSUME NEW w0 \in At(s0.user, s0.at + 1) PROVE FALSE
      OBVIOUS
    <2>2. Following(s0, F) =
            {[s0 EXCEPT !.ws = w, !.at = @ + 1, !.failed = F, !.tried = @ \cup {s0.ws}] :
               w \in At(s0.user, s0.at + 1)}
      BY DEF Following, Steady
    <2>3. \A s \in Following(s0, F) : s.user = s0.user
      BY <2>2 DEF Send
    <2>4. Following(s0, F) # {}
      BY <2>2
    <2>5. QED
      BY <2>3, <2>4
  <1>2. conns[s0.user] \subseteq Before(s0.user, s0.ws) \cup {s0.ws}
    BY <1>0, <1>1, EndOfList DEF Steady
  <1>3. QED
    BY <1>2 DEF Steady

\* A disconnect that removes nobody from the list of a send leaves it steady.
LEMMA DisconnectSteady ==
    ASSUME TypeOK, NEW t \in Tasks, NEW G \in SUBSET Sockets, NEW S, NEW C, Disconnect(t, G, S, C),
           since' = since, NEW p \in Tasks, out'[p] # None, out'[p].calm,
           out[p] # None /\ out[p].calm => Steady(out[p])
    PROVE  Steady(out[p])'
  <1>1. p # t /\ out[p] # None
    BY DisconnectOthers
  <1>2. PICK s : s = out[p]
    OBVIOUS
  <1>3. s \in Send /\ s.user \in Users /\ out[p] = s /\ s # None
    BY <1>1, <1>2 DEF TypeOK, Send
  <1> DEFINE b1 == s.live /\ ~(conns[s.user] \subseteq G)
             b2 == s.calm /\ conns[s.user] \cap G = {}
  <1>4. out'[p] = [s EXCEPT !.live = b1, !.calm = b2]
    BY <1>1, <1>2 DEF Disconnect
  <1>5. PICK n : n = out'[p]
    OBVIOUS
  <1>6. /\ n.user = s.user /\ n.ws = s.ws /\ n.at = s.at /\ n.tried = s.tried /\ n.owed = s.owed
        /\ n.live = b1 /\ n.calm = b2
    BY <1>3, <1>4, <1>5 DEF Send
  <1>7. s.calm /\ conns[s.user] \cap G = {}
    BY <1>5, <1>6
  <1>8. Steady(s)
    BY <1>2, <1>3, <1>7
  <1>9. n.live
    BY <1>6, <1>7, <1>8 DEF Steady
  <1>10. conns'[s.user] = conns[s.user]
    BY <1>3, <1>7 DEF Disconnect
  <1>11. Steady(n)'
    BY <1>6, <1>8, <1>9, <1>10 DEF Steady, Before
  <1>12. QED
    BY <1>5, <1>11 DEF Steady, Before

\* A task that goes on or ends, its next sends being steady.
LEMMA ProceedSteady ==
    ASSUME TypeOK, SteadyInv, NEW t \in Tasks, NEW N, NEW F \in SUBSET Sockets, NEW S, NEW C,
           broken' \subseteq Sockets,
           \A s \in N : s.calm => Steady(s),
           since' = since, Proceed(t, N, F, S, C)
    PROVE  SteadyInv'
  <1>1. CASE (\E s \in N : out' = [out EXCEPT ![t] = s]) /\ conns' = conns
    <2>1. PICK s \in N : out' = [out EXCEPT ![t] = s]
      BY <1>1
    <2>2. \A p \in Tasks : out'[p] = IF p = t THEN s ELSE out[p]
      BY <2>1 DEF TypeOK
    <2>3. QED
      BY <1>1, <2>2 DEF SteadyInv, Distinct, Steady, Before
  <1>2. CASE Disconnect(t, F \cup ({t} \cap broken'), S, C)
    <2> DEFINE G == F \cup ({t} \cap broken')
    <2>1. G \in SUBSET Sockets /\ Disconnect(t, G, S, C)
      BY <1>2
    <2> HIDE DEF G
    <2>2. \A p \in Tasks : out'[p] # None /\ out'[p].calm => Steady(out[p])'
      BY <2>1, DisconnectSteady DEF SteadyInv
    <2>3. \A u \in Users : conns'[u] \subseteq conns[u]
      BY <2>1 DEF Disconnect
    <2>4. Distinct'
      BY <2>3 DEF SteadyInv, Distinct
    <2>5. QED
      BY <2>2, <2>4 DEF SteadyInv
  <1>3. QED
    BY <1>1, <1>2 DEF Proceed

\* The task goes on with the same list, as far as the others are concerned.
Undisturbed(t) == out'[t] # None /\ out'[t].user = out[t].user

\* The sends of the other tasks stay where they are.
LEMMA ProceedOthers ==
    ASSUME TypeOK, NEW t \in Tasks, NEW N, NEW F \in SUBSET Sockets, NEW S, NEW C,
           broken' \subseteq Sockets, Proceed(t, N, F, S, C),
           NEW p \in Tasks, p # t, out[p] # None
    PROVE  Undisturbed(p)
  <1>1. CASE \E s \in N : out' = [out EXCEPT ![t] = s]
    BY <1>1 DEF TypeOK, Undisturbed
  <1>2. CASE Disconnect(t, F \cup ({t} \cap broken'), S, C)
    <2> DEFINE G == F \cup ({t} \cap broken')
    <2>1. G \in SUBSET Sockets /\ Disconnect(t, G, S, C)
      BY <1>2
    <2> HIDE DEF G
    <2>2. QED
      BY <2>1, DisconnectOthers DEF Undisturbed
  <1>3. QED
    BY <1>1, <1>2 DEF Proceed

\* What a step keeps: whoever sends does so until a step of its own.
SendersStay == \A p \in Tasks : out[p] # None => Sent(p) \/ Undisturbed(p)

\* A task begins to send to the users L, or has nobody to send to.
LEMMA BeginSteady ==
    ASSUME TypeOK, SteadyInv, NEW t \in Tasks, NEW L \in SUBSET Users, NEW S, NEW C,
           out[t] = None, broken' = broken, since' = since,
           \/ Proceed(t, Visit(L, {}), {}, S, C)
           \/ Proceed(t, {}, {}, S, C)
    PROVE  SteadyInv' /\ SendersStay
  <1> DEFINE F == {}
  <1>1. PICK N : N \in {Visit(L, F), {}} /\ Proceed(t, N, F, S, C)
    OBVIOUS
  <1>2. F \in SUBSET Sockets /\ broken' \subseteq Sockets
    BY DEF TypeOK
  <1> HIDE DEF F
  <1>3. \A s \in N : s.calm => Steady(s)
    BY <1>1, VisitSteady
  <1>4. SteadyInv'
    BY <1>1, <1>2, <1>3, ProceedSteady
  <1>5. SendersStay
    BY <1>1, <1>2, ProceedOthers DEF SendersStay
  <1>6. QED
    BY <1>4, <1>5

\* After a calm send the task is at the next socket, or leaves the list with nobody left
\* out.
LEMMA SentSteady ==
    ASSUME TypeOK, SteadyInv, NEW t \in Tasks, Sent(t)
    PROVE  /\ SteadyInv' /\ SendersStay
           /\ Leaves(t) /\ out[t].calm => out[t].owed \subseteq out[t].tried \cup {out[t].ws}
  <1>1. PICK s : s = out[t]
    OBVIOUS
  <1>2. s \in Send /\ since' = since /\ out[t] # None /\ (s.calm => Steady(s))
    BY <1>1 DEF Sent, TypeOK, SteadyInv
  <1>3. PICK F \in SUBSET Sockets : /\ broken' \in SUBSET Sockets
                                    /\ Proceed(t, Following(s, F), F, subs, convs)
    <2>1. s.failed \in SUBSET Sockets /\ s.failed \cup {s.ws} \in SUBSET Sockets
      BY <1>2 DEF Send
    <2>2. CASE /\ broken' = broken
               /\ Proceed(t, Following(s, s.failed), s.failed, subs, convs)
      BY <2>1, <2>2 DEF TypeOK
    <2>3. CASE /\ broken' = broken \cup {s.ws}
               /\ Proceed(t, Following(s, s.failed \cup {s.ws}), s.failed \cup {s.ws}, subs, convs)
      BY <1>2, <2>1, <2>3 DEF TypeOK, Send
    <2>4. QED
      BY <1>1, <2>2, <2>3 DEF Sent
  <1>4. PICK N : N = Following(s, F)
    OBVIOUS
  <1>5. \A n \in N : n.calm => Steady(n)
    BY <1>2, <1>4, FollowingSteady DEF SteadyInv
  <1>6. SteadyInv'
    BY <1>2, <1>3, <1>4, <1>5, ProceedSteady
  <1>7. SendersStay
    BY <1>3, <1>4, ProceedOthers DEF SendersStay
  <1>8. ASSUME Leaves(t), out[t].calm PROVE s.owed \subseteq s.tried \cup {s.ws}
    <2>1. N = {} \/ \E n \in N : n.user # s.user
      <3>1. CASE \E n \in N : out' = [out EXCEPT ![t] = n]
        <4>1. PICK n \in N : out' = [out EXCEPT ![t] = n]
          BY <3>1
        <4>2. out'[t] = n
          BY <4>1 DEF TypeOK
        <4>3. n \in Send
          BY <1>2, <1>4, FollowingTyped
        <4>4. n.user # s.user
          BY <1>1, <1>8, <4>2, <4>3, SendAssumption DEF Leaves
        <4>5. QED
          BY <4>4
      <3>2. CASE N = {}
        BY <3>2
      <3>3. QED
        BY <1>3, <1>4, <3>1, <3>2 DEF Proceed
    <2>2. Steady(s)
      BY <1>1, <1>2, <1>8
    <2>3. QED
      BY <1>2, <1>4, <2>1, <2>2, FollowingLeaves DEF SteadyInv
  <1>9. QED
    BY <1>1, <1>6, <1>7, <1>8

\* A connection begins behind the sockets that are listed.
LEMMA ConnectSteady ==
    ASSUME OrderInv, SteadyInv, NEW w \in Sockets, Connect(w)
    PROVE  SteadyInv' /\ SendersStay
  <1>0. TypeOK /\ Touched /\ Owner[w] \in Users
    BY ConnectionAssumption DEF OrderInv, ConnInv
  <1>k. PICK k \in Nat : k = Cardinality(Begun)
    BY BegunFinite
  <1>1. /\ w \notin Begun /\ conns' = [conns EXCEPT ![Owner[w]] = @ \cup {w}]
        /\ since' = [since EXCEPT ![w] = k] /\ out' = out
    BY <1>k DEF Connect, Begun
  <1>2. /\ since'[w] = k
        /\ \A u \in Users, v \in Sockets : v \in conns[u] =>
             v # w /\ since'[v] = since[v] /\ since[v] \in Nat /\ since[v] < k
    <2>1. \A v \in Sockets : v # w => since'[v] = since[v]
      BY <1>0, <1>1 DEF TypeOK
    <2>2. \A u \in Users, v \in Sockets : v \in conns[u] => v \in Begun
      BY <1>0 DEF Touched
    <2>3. QED
      BY <1>0, <1>1, <1>k, <2>1, <2>2 DEF TypeOK, Touched
  <1>3. \A u \in Users : /\ conns[u] \subseteq conns'[u] /\ conns'[u] \subseteq conns[u] \cup {w}
                         /\ conns[u] \subseteq Sockets
    BY <1>0, <1>1 DEF TypeOK
  <1>4. Distinct'
    <2>1. SUFFICES ASSUME NEW u \in Users, NEW v \in conns'[u], NEW x \in conns'[u],
                          since'[v] = since'[x]
                   PROVE  v = x
      BY DEF Distinct
    <2>2. QED
      BY <1>2, <1>3, <2>1 DEF SteadyInv, Distinct
  <1>5. ASSUME NEW p \in Tasks, out[p] # None, out[p].calm PROVE Steady(out[p])'
    <2>1. PICK s : s = out[p] /\ s = out'[p]
      BY <1>1
    <2>2. s.user \in Users /\ Steady(s) /\ s.ws \in conns[s.user]
      BY <1>0, <1>5, <2>1 DEF TypeOK, Send, SteadyInv, Steady
    <2>3. \A v : v \in conns'[s.user] /\ since'[v] < since'[s.ws]
                   <=> v \in conns[s.user] /\ since[v] < since[s.ws]
      BY <1>2, <1>3, <2>2
    <2>4. {v \in conns'[s.user] : since'[v] < since'[s.ws]} = Before(s.user, s.ws)
      BY <2>3 DEF Before
    <2>5. Steady(s)'
      BY <1>3, <2>2, <2>4 DEF Steady, Before
    <2>6. QED
      BY <2>1, <2>5 DEF Steady, Before
  <1>6. QED
    BY <1>1, <1>4, <1>5 DEF SteadyInv, SendersStay, Undisturbed

\* A handler that ends takes its socket out of one list, whose sends are no longer
\* calm.
LEMMA DisconnectedSteady ==
    ASSUME ConnInv, SteadyInv, NEW w \in Sockets, Disconnected(w)
    PROVE  SteadyInv' /\ SendersStay
  <1>1. /\ TypeOK /\ w \in Tasks /\ out[w] = None /\ since' = since
        /\ Disconnect(w, {w}, subs, convs)
    BY DEF ConnInv, Disconnected, SendersBusy, Tasks
  <1> DEFINE G == {w}
  <1>2. G \in SUBSET Sockets /\ Disconnect(w, G, subs, convs)
    BY <1>1
  <1> HIDE DEF G
  <1>3. \A p \in Tasks : out'[p] # None /\ out'[p].calm => Steady(out[p])'
    BY <1>1, <1>2, DisconnectSteady DEF SteadyInv
  <1>4. \A u \in Users : conns'[u] \subseteq conns[u]
    BY <1>2 DEF Disconnect
  <1>5. Distinct'
    BY <1>1, <1>4 DEF SteadyInv, Distinct
  <1>6. SendersStay
    BY <1>1, <1>2, DisconnectOthers DEF SendersStay, Undisturbed
  <1>7. QED
    BY <1>3, <1>5, <1>6 DEF SteadyInv

\* SteadyInv is inductive, and nobody but a task itself moves its send.
LEMMA NextSteady ==
    ASSUME OrderInv, SteadyInv, [Next]_vars
    PROVE  SteadyInv' /\ SendersStay
  <1>0. /\ TypeOK /\ ConnInv /\ subs \in [Convs -> SUBSET Users]
        /\ \A w \in Sockets : w \in Tasks /\ {Owner[w]} \in SUBSET Users
        /\ \A w \in Sockets : phase[w] = "receive" => out[w] = None
        /\ \A t \in Requests : t \in Tasks
    BY ConnectionAssumption DEF OrderInv, ConnInv, TypeOK, Tasks, SendersBusy
  <1> DEFINE More == SteadyInv' /\ SendersStay
  <1>b. ASSUME NEW t \in Tasks, NEW L \in SUBSET Users, NEW S, NEW C,
               out[t] = None, broken' = broken, since' = since,
               \/ Proceed(t, Visit(L, {}), {}, S, C)
               \/ Proceed(t, {}, {}, S, C)
        PROVE  More
    BY <1>0, <1>b, BeginSteady
  <1>s. ASSUME UNCHANGED <<conns, since, out>> PROVE More
    BY <1>s DEF SteadyInv, Distinct, Steady, Before, SendersStay, Undisturbed
  <1> HIDE DEF More
  <1>1. ASSUME NEW w \in Sockets, Handle(w) PROVE More
    <2>1. CASE Connect(w)
      BY <2>1, ConnectSteady DEF More
    <2>2. CASE Refuse(w) \/ InvalidJson(w)
      BY <1>s, <2>2 DEF Refuse, InvalidJson
    <2>3. CASE \E c \in Convs : Subscribe(w, c)
      BY <1>0, <1>b, <2>3 DEF Subscribe
    <2>4. CASE \E c \in Convs : Unsubscribe(w, c)
      <3>1. PICK c \in Convs : Unsubscribe(w, c)
        BY <2>4
      <3>2. /\ phase[w] = "receive" /\ broken' = broken /\ since' = since
            /\ Proceed(w, {}, {}, [subs EXCEPT ![c] = @ \ {Owner[w]}],
                                  [convs EXCEPT ![Owner[w]] = @ \ {c}])
        BY <3>1 DEF Unsubscribe
      <3>3. QED
        BY <1>0, <1>b, <3>2
    <2>5. CASE \E c \in Convs : Relay(w, c)
      <3>1. PICK c \in Convs : Relay(w, c)
        BY <2>5
      <3>2. subs[c] \ {Owner[w]} \in SUBSET Users
        BY <1>0
      <3>3. QED
        BY <1>0, <1>b, <3>1, <3>2 DEF Relay
    <2>6. CASE Answer(w)
      BY <1>0, <1>b, <2>6 DEF Answer
    <2>7. CASE Disconnected(w)
      BY <1>0, <2>7, DisconnectedSteady DEF More
    <2>8. QED
      BY <1>1, <2>1, <2>2, <2>3, <2>4, <2>5, <2>6, <2>7 DEF Handle
  <1>2. ASSUME NEW t \in Requests, Request(t) PROVE More
    <2>1. CASE \E u \in Users : NotifyUser(t, u)
      <3>1. PICK u \in Users : NotifyUser(t, u)
        BY <2>1
      <3>2. {u} \in SUBSET Users
        OBVIOUS
      <3>3. QED
        BY <1>0, <1>b, <3>1, <3>2 DEF NotifyUser
    <2>2. CASE \E c \in Convs, u \in Users : NotifyConversation(t, c, u)
      <3>1. PICK c \in Convs, u \in Users : NotifyConversation(t, c, u)
        BY <2>2
      <3>2. subs[c] \ {u} \in SUBSET Users
        BY <1>0
      <3>3. QED
        BY <1>0, <1>b, <3>1, <3>2 DEF NotifyConversation
    <2>3. QED
      BY <1>2, <2>1, <2>2 DEF Request
  <1>3. ASSUME NEW t \in Tasks, Sent(t) PROVE More
    BY <1>0, <1>3, SentSteady DEF More
  <1>4. ASSUME Shutdown PROVE More
    <2>1. /\ \A u \in Users : conns'[u] = {}
          /\ out' = out
          /\ \A t \in Tasks : out[t] = None
      BY <1>4 DEF Shutdown
    <2>2. QED
      BY <2>1 DEF More, SteadyInv, Distinct, SendersStay
  <1>5. ASSUME UNCHANGED vars PROVE More
    BY <1>s, <1>5 DEF vars
  <1>6. More
    BY <1>1, <1>2, <1>3, <1>4, <1>5 DEF Next
  <1>7. QED
    BY <1>6 DEF More

\* send_personal_message reaches every device that was connected when it began,
\* if none of that user's devices is disconnected meanwhile, whoever connects and
\* whatever happens to the devices of others.
THEOREM ConnReachesAllWhenCalm == Spec => ReachesAllWhenCalm
  <1> DEFINE Reaches == \A t \in Tasks : Leaves(t) /\ out[t].calm =>
                          out[t].owed \subseteq out[t].tried \cup {out[t].ws}
  <1>1. Init => SteadyInv
    BY DEF Init, SteadyInv, Distinct
  <1>2. OrderInv /\ SteadyInv /\ [Next]_vars => SteadyInv'
    BY NextSteady
  <1>3. OrderInv /\ SteadyInv /\ [Next]_vars => [Reaches]_vars
    <2>1. SUFFICES ASSUME OrderInv, SteadyInv, [Next]_vars,
                          NEW t \in Tasks, Leaves(t), out[t].calm
                   PROVE  out[t].owed \subseteq out[t].tried \cup {out[t].ws}
      OBVIOUS
    <2>2. Sent(t)
      BY <2>1, NextSteady DEF SendersStay, Undisturbed, Leaves
    <2>3. QED
      BY <2>1, <2>2, SentSteady DEF OrderInv, ConnInv
  <1>4. QED
    BY InitOrderInv, NextOrders, <1>1, <1>2, <1>3, PTL DEF Spec, ReachesAllWhenCalm

-----------------------------------------------------------------------------
(* Presence                                                                *)

\* What the users follow when the map of their conversations is C.
Topics(C) == {x \in Users \X Convs : x[2] \in C[x[1]]}

\* Who follows anything is connected.
LEMMA FollowersConnected ==
    ASSUME ConnInv, NEW x \in Topics(convs)
    PROVE  x[1] \in Users /\ conns[x[1]] # {}
  <1>1. x[1] \in Users /\ x[2] \in Convs /\ x[2] \in convs[x[1]]
    BY DEF Topics
  <1>2. x[1] \in subs[x[2]]
    BY <1>1 DEF ConnInv, MapsAgree
  <1>3. QED
    BY <1>1, <1>2 DEF ConnInv, SubscribersConnected

LEMMA LeaveStep ==
    ASSUME ConnInv, NEW t \in Tasks, NEW G \in SUBSET Sockets, Disconnect(t, G, subs, convs)
    PROVE  Directory!Leave(G)
  <1>1. /\ conns' = [u \in Users |-> conns[u] \ G]
        /\ convs' = [u \in Users |-> IF u \in Forgotten(G) THEN {} ELSE convs[u]]
    BY DEF Disconnect
  <1>2. ASSUME NEW u \in Users, conns[u] # {}
        PROVE  u \in Forgotten(G) <=> conns[u] \ G = {}
    BY <1>2 DEF Forgotten, ConnInv, Owned
  <1>3. Topics(convs') = {x \in Topics(convs) : conns[x[1]] \ G # {}}
    <2>1. ASSUME NEW x \in Topics(convs')
          PROVE  x \in Topics(convs) /\ conns[x[1]] \ G # {}
      <3>1. x \in Users \X Convs /\ x[1] \in Users /\ x[2] \in convs'[x[1]]
        BY DEF Topics
      <3>2. x[1] \notin Forgotten(G) /\ x[2] \in convs[x[1]]
        BY <1>1, <3>1
      <3>3. x \in Topics(convs)
        BY <3>1, <3>2 DEF Topics
      <3>4. QED
        BY <1>2, <3>1, <3>2, <3>3, FollowersConnected
    <2>2. ASSUME NEW x \in Topics(convs), conns[x[1]] \ G # {}
          PROVE  x \in Topics(convs')
      <3>1. x \in Users \X Convs /\ x[1] \in Users /\ x[2] \in convs[x[1]]
        BY DEF Topics
      <3>2. x[1] \notin Forgotten(G)
        BY <1>2, <2>2, <3>1, FollowersConnected
      <3>3. QED
        BY <1>1, <3>1, <3>2 DEF Topics
    <2>3. QED
      BY <2>1, <2>2
  <1>4. QED
    BY <1>1, <1>3 DEF Directory!Leave, Topics

\* A task that goes on without a change of the subscriptions.
LEMMA ProceedSteps ==
    ASSUME ConnInv, NEW t \in Tasks, NEW N, NEW F \in SUBSET Sockets,
           broken' \subseteq Sockets,
           Proceed(t, N, F, subs, convs)
    PROVE  [Directory!Next]_Directory!pvars
  <1>1. CASE convs' = convs /\ conns' = conns
    BY <1>1 DEF Directory!pvars
  <1>2. CASE Disconnect(t, F \cup ({t} \cap broken'), subs, convs)
    <2> DEFINE G == F \cup ({t} \cap broken')
    <2>1. G \in SUBSET Sockets /\ Disconnect(t, G, subs, convs)
      BY <1>2
    <2> HIDE DEF G
    <2>2. QED
      BY <2>1, LeaveStep DEF Directory!Next
  <1>3. QED
    BY <1>1, <1>2 DEF Proceed

LEMMA SubscribeFollows ==
    ASSUME ConnInv, NEW w \in Sockets, NEW c \in Convs, Subscribe(w, c)
    PROVE  [Directory!Next]_Directory!pvars
  <1> DEFINE u == Owner[w]
             S == [subs EXCEPT ![c] = @ \cup {u}]
             C == [convs EXCEPT ![u] = @ \cup {c}]
  <1>0. /\ TypeOK /\ Registered /\ w \in Tasks /\ u \in Users
        /\ phase[w] = "receive" /\ broken' = broken
    BY ConnectionAssumption DEF ConnInv, Subscribe, Tasks
  <1>1. CASE Visit({u}, {}) # {} /\ convs' = C /\ conns' = conns
    <2>1. conns[u] # {}
      BY <1>1 DEF Visit, At
    <2>2. \A v \in Users, d \in Convs :
            d \in convs'[v] <=> (d \in convs[v] \/ (v = u /\ d = c))
      BY <1>0, <1>1 DEF TypeOK
    <2>3. Topics(convs') = Topics(convs) \cup {<<u, c>>}
      BY <1>0, <2>2 DEF Topics
    <2>4. Directory!Follow(u, c)
      BY <1>1, <2>1, <2>3 DEF Directory!Follow, Topics
    <2>5. QED
      BY <1>0, <2>4 DEF Directory!Next
  <1>2. CASE /\ Visit({u}, {}) = {}
             /\ Disconnect(w, {} \cup ({w} \cap broken'), S, C)
    <2>c. C \in [Users -> SUBSET Convs] /\ \A v \in Users : v # u => C[v] = convs[v]
      BY <1>0 DEF TypeOK
    <2> HIDE DEF S, C
    <2>1. conns[u] = {} /\ w \in broken
      BY <1>0, <1>2, VisitNone DEF Registered, Running
    <2>2. {} \cup ({w} \cap broken') = {w}
      BY <1>0, <2>1
    <2>3. /\ conns' = [v \in Users |-> conns[v] \ {w}]
          /\ convs' = [v \in Users |-> IF v \in Forgotten({w}) THEN {} ELSE C[v]]
      <3>1. Disconnect(w, {w}, S, C)
        BY <1>2, <2>2
      <3>2. QED
        BY <3>1 DEF Disconnect
    <2>4. \A v \in Users : v \in Forgotten({w}) <=> v = u
      BY <1>0, <2>1 DEF Forgotten
    <2>5. \A v \in Users : w \notin conns[v]
      BY <1>0, <2>1 DEF ConnInv, Owned
    <2>6. conns' = conns
      BY <1>0, <2>3, <2>5 DEF TypeOK
    <2>7. convs[u] = {}
      BY <1>0, <2>1 DEF ConnInv, MapsAgree, SubscribersConnected, TypeOK
    <2>8. \A v \in Users : convs'[v] = convs[v]
      BY <2>3, <2>4, <2>7, <2>c
    <2>9. convs' = convs
      BY <1>0, <2>3, <2>8 DEF TypeOK
    <2>10. QED
      BY <2>6, <2>9 DEF Directory!pvars
  <1>3. QED
    BY <1>1, <1>2 DEF Subscribe, Proceed

LEMMA UnsubscribeParts ==
    ASSUME ConnInv, NEW w \in Sockets, NEW c \in Convs, Unsubscribe(w, c)
    PROVE  [Directory!Next]_Directory!pvars
  <1> DEFINE u == Owner[w]
             S == [subs EXCEPT ![c] = @ \ {u}]
             C == [convs EXCEPT ![u] = @ \ {c}]
  <1>0. /\ TypeOK /\ Owned /\ u \in Users /\ w \in Tasks /\ broken' = broken
        /\ Disconnect(w, {} \cup ({w} \cap broken), S, C)
    BY ConnectionAssumption DEF ConnInv, Unsubscribe, Proceed, Tasks
  <1>c. \A v \in Users, d \in Convs : d \in C[v] <=> (d \in convs[v] /\ ~(v = u /\ d = c))
    BY <1>0 DEF TypeOK
  <1> HIDE DEF S, C
  <1>1. CASE w \notin broken
    <2>1. {} \cup ({w} \cap broken) = {}
      BY <1>1
    <2>2. /\ conns' = [v \in Users |-> conns[v] \ {}]
          /\ convs' = [v \in Users |-> IF v \in Forgotten({}) THEN {} ELSE C[v]]
      <3>1. Disconnect(w, {}, S, C)
        BY <1>0, <2>1
      <3>2. QED
        BY <3>1 DEF Disconnect
    <2>3. Forgotten({}) = {}
      BY DEF Forgotten
    <2>4. conns' = conns
      BY <1>0, <2>2 DEF TypeOK
    <2>5. Topics(convs') = Topics(convs) \ {<<u, c>>}
      BY <1>c, <2>2, <2>3 DEF Topics
    <2>6. Directory!Unfollow(u, c)
      BY <2>4, <2>5 DEF Directory!Unfollow, Topics
    <2>7. QED
      BY <1>0, <2>6 DEF Directory!Next
  <1>2. CASE w \in broken
    <2>1. {} \cup ({w} \cap broken) = {w}
      BY <1>2
    <2>2. /\ conns' = [v \in Users |-> conns[v] \ {w}]
          /\ convs' = [v \in Users |-> IF v \in Forgotten({w}) THEN {} ELSE C[v]]
      <3>1. Disconnect(w, {w}, S, C)
        BY <1>0, <2>1
      <3>2. QED
        BY <3>1 DEF Disconnect
    <2>3. \A v \in Users : v # u => conns[v] \ {w} = conns[v]
      BY <1>0 DEF Owned
    <2>4. conns' = [conns EXCEPT ![u] = @ \ {w}]
      BY <1>0, <2>2, <2>3 DEF TypeOK
    <2>5. \A v \in Users : v \in Forgotten({w}) <=> (v = u /\ conns[u] \ {w} = {})
      BY <1>0 DEF Forgotten
    <2>6. \A v \in Users, d \in Convs :
            d \in convs'[v] <=> /\ d \in convs[v] /\ ~(v = u /\ d = c)
                                /\ (v = u => conns[u] \ {w} # {})
      BY <1>c, <2>2, <2>5
    <2>7. Topics(convs') = {x \in Topics(convs) \ {<<u, c>>} : x[1] = u => conns[u] \ {w} # {}}
      BY <2>6 DEF Topics
    <2>8. Directory!Part(u, c, w)
      BY <2>4, <2>7 DEF Directory!Part, Topics
    <2>9. QED
      BY <1>0, <2>8 DEF Directory!Next
  <1>3. QED
    BY <1>1, <1>2

LEMMA ConnectArrives ==
    ASSUME OrderInv, NEW w \in Sockets, Connect(w)
    PROVE  Directory!Arrive(w)
  <1>1. w \notin Begun /\ Owner[w] \in Users
    BY ConnectionAssumption DEF Connect, Begun
  <1>2. w \notin conns[Owner[w]]
    BY <1>1 DEF OrderInv, Touched
  <1>3. QED
    BY <1>2 DEF Connect, Directory!Arrive

\* Shutdown is the departure of every socket.
LEMMA ShutdownLeaves ==
    ASSUME ConnInv, Shutdown
    PROVE  Directory!Leave(Sockets)
  <1>1. /\ conns' = [u \in Users |-> {}]
        /\ convs' = [u \in Users |-> IF conns[u] # {} THEN {} ELSE convs[u]]
    BY DEF Shutdown
  <1>2. \A u \in Users : conns[u] \ Sockets = {}
    BY DEF ConnInv, TypeOK
  <1>3. conns' = [u \in Users |-> conns[u] \ Sockets]
    BY <1>1, <1>2
  <1>4. \A u \in Users, c \in Convs : c \in convs[u] => conns[u] # {}
    BY DEF ConnInv, MapsAgree, SubscribersConnected
  <1>5. \A u \in Users, c \in Convs : c \notin convs'[u]
    BY <1>1, <1>4
  <1>6. Topics(convs') = {}
    BY <1>5 DEF Topics
  <1>7. {x \in Topics(convs) : conns[x[1]] \ Sockets # {}} = {}
    BY <1>2 DEF Topics
  <1>8. QED
    BY <1>3, <1>6, <1>7 DEF Directory!Leave, Topics

LEMMA StepImplementsPresence ==
    ASSUME OrderInv, [Next]_vars, broken' \subseteq Sockets
    PROVE  [Directory!Next]_Directory!pvars
  <1>0. /\ ConnInv /\ TypeOK
        /\ \A w \in Sockets : w \in Tasks /\ Owner[w] \in Users
        /\ \A t \in Requests : t \in Tasks
        /\ {} \in SUBSET Sockets
    BY ConnectionAssumption DEF OrderInv, ConnInv, Tasks
  <1>1. ASSUME NEW w \in Sockets, Handle(w) PROVE [Directory!Next]_Directory!pvars
    <2>1. CASE Connect(w)
      BY <2>1, ConnectArrives DEF Directory!Next
    <2>2. CASE Refuse(w) \/ InvalidJson(w)
      BY <2>2 DEF Refuse, InvalidJson, Directory!pvars
    <2>3. CASE \E c \in Convs : Subscribe(w, c)
      BY <1>0, <2>3, SubscribeFollows
    <2>4. CASE \E c \in Convs : Unsubscribe(w, c)
      BY <1>0, <2>4, UnsubscribeParts
    <2>5. CASE (\E c \in Convs : Relay(w, c)) \/ Answer(w)
      BY <1>0, <2>5, ProceedSteps DEF Relay, Answer
    <2>6. CASE Disconnected(w)
      <3>1. Disconnect(w, {w}, subs, convs) /\ {w} \in SUBSET Sockets
        BY <2>6 DEF Disconnected
      <3>2. Directory!Leave({w})
        BY <1>0, <3>1, LeaveStep
      <3>3. QED
        BY <3>1, <3>2 DEF Directory!Next
    <2>7. QED
      BY <1>1, <2>1, <2>2, <2>3, <2>4, <2>5, <2>6 DEF Handle
  <1>2. ASSUME NEW t \in Requests, Request(t) PROVE [Directory!Next]_Directory!pvars
    BY <1>0, <1>2, ProceedSteps DEF Request, NotifyUser, NotifyConversation
  <1>3. ASSUME NEW t \in Tasks, Sent(t) PROVE [Directory!Next]_Directory!pvars
    <2>1. out[t] \in Send
      BY <1>0, <1>3 DEF Sent, TypeOK
    <2>2. out[t].failed \in SUBSET Sockets /\ out[t].failed \cup {out[t].ws} \in SUBSET Sockets
      BY <2>1 DEF Send
    <2>3. \/ Proceed(t, Following(out[t], out[t].failed), out[t].failed, subs, convs)
          \/ Proceed(t, Following(out[t], out[t].failed \cup {out[t].ws}),
                     out[t].failed \cup {out[t].ws}, subs, convs)
      BY <1>3 DEF Sent
    <2>4. QED
      BY <1>0, <2>2, <2>3, ProceedSteps
  <1>4. CASE Shutdown
    <2>1. Directory!Leave(Sockets)
      BY <1>0, <1>4, ShutdownLeaves
    <2>2. QED
      BY <2>1 DEF Directory!Next
  <1>5. CASE UNCHANGED vars
    BY <1>5 DEF vars, Directory!pvars
  <1>6. QED
    BY <1>1, <1>2, <1>3, <1>4, <1>5 DEF Next

\* The three maps, with every coroutine that reads and writes them between its
\* sends, implement the directory: whoever disconnects which sockets, a user's
\* subscriptions last exactly until the last connection (ConnectionManager).
THEOREM ConnPresenceImplemented == Spec => ImplementsPresence
  <1>1. Init => Directory!Init
    BY DEF Init, Directory!Init
  <1>2. OrderInv /\ OrderInv' /\ [Next]_vars => [Directory!Next]_Directory!pvars
    BY StepImplementsPresence DEF OrderInv, ConnInv, TypeOK
  <1>3. QED
    BY <1>1, <1>2, InitOrderInv, NextOrders, PTL DEF Spec, ImplementsPresence, Directory!Spec
=============================================================================
