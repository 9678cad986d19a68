------------------------------ MODULE Presence ------------------------------
(***************************************************************************)
(* What the connection manager promises: who is connected, and which       *)
(* conversations each connected user follows.  Nobody follows anything     *)
(* without a connection, and a user's topics last exactly until their last *)
(* connection goes, unless they are given up before.                       *)
(***************************************************************************)
CONSTANTS Users, Convs, Sockets, Owner

VARIABLES conns,   \* the connections of each user
          topics   \* who follows what

pvars == <<conns, topics>>

Init == conns = [u \in Users |-> {}] /\ topics = {}

Arrive(w) ==
    /\ w \notin conns[Owner[w]]
    /\ conns' = [conns EXCEPT ![Owner[w]] = @ \cup {w}]
    /\ UNCHANGED topics

\* Some connections go, and with the last one of a user all that they follow.
Leave(F) ==
    /\ conns' = [u \in Users |-> conns[u] \ F]
    /\ topics' = {x \in topics : conns[x[1]] \ F # {}}

Follow(u, c) ==
    /\ conns[u] # {}
    /\ topics' = topics \cup {<<u, c>>}
    /\ UNCHANGED conns

Unfollow(u, c) ==
    /\ topics' = topics \ {<<u, c>>}
    /\ UNCHANGED conns

\* A user's last message and the end of the connection it came from.
Part(u, c, w) ==
    /\ Owner[w] = u
    /\ conns' = [conns EXCEPT ![u] = @ \ {w}]
    /\ topics' = {x \in topics \ {<<u, c>>} : x[1] = u => conns[u] \ {w} # {}}

Next == \/ \E w \in Sockets : Arrive(w)
        \/ \E F \in SUBSET Sockets : Leave(F)
        \/ \E u \in Users, c \in Convs : Follow(u, c) \/ Unfollow(u, c)
        \/ \E u \in Users, c \in Convs, w \in Sockets : Part(u, c, w)

Spec == Init /\ [][Next]_pvars
=============================================================================
