-------------------------- MODULE ConversationLog --------------------------
(***************************************************************************)
(* What messaging promises about its durable state, with no word about     *)
(* requests: conversations with their members and a log that only grows.   *)
(* A message is posted by somebody who is, or has been, a member; a user   *)
(* who left does not come back; a message loses its sender only when that  *)
(* user is deleted, and is otherwise never changed or moved.               *)
(***************************************************************************)
EXTENDS FiniteSets

CONSTANTS Users, Operators, Convs, Messages, None

VARIABLES members,  \* of each conversation
          ever,     \* who is or has been a member of it
          log       \* the messages: where each was posted and by whom

cvars == <<members, ever, log>>

Init == /\ members = [c \in Convs |-> {}]
        /\ ever = [c \in Convs |-> {}]
        /\ log = [m \in Messages |-> None]

\* A conversation is opened with its members at once.
Open(c) ==
    /\ ever[c] = {}
    /\ \E P \in SUBSET (Users \cup Operators) :
         /\ members' = [members EXCEPT ![c] = P]
         /\ ever' = [ever EXCEPT ![c] = P]
    /\ UNCHANGED log

Join(c, p) ==
    /\ p \in Users => p \notin ever[c]
    /\ members' = [members EXCEPT ![c] = @ \cup {p}]
    /\ ever' = [ever EXCEPT ![c] = @ \cup {p}]
    /\ UNCHANGED log

Leave(c, p) ==
    /\ members' = [members EXCEPT ![c] = @ \ {p}]
    /\ UNCHANGED <<ever, log>>

Post(m, c, p) ==
    /\ log[m] = None
    /\ p \in ever[c]
    /\ log' = [log EXCEPT ![m] = [conv |-> c, sender |-> p]]
    /\ UNCHANGED <<members, ever>>

Forget(u) ==
    /\ members' = [c \in Convs |-> members[c] \ {u}]
    /\ ever' = [c \in Convs |-> ever[c] \ {u}]
    /\ log' = [m \in Messages |-> IF log[m] # None /\ log[m].sender = u
                                  THEN [log[m] EXCEPT !.sender = None] ELSE log[m]]

Next == \/ \E c \in Convs : Open(c)
        \/ \E c \in Convs, p \in Users \cup Operators : Join(c, p) \/ Leave(c, p)
        \/ \E m \in Messages, c \in Convs, p \in Users \cup Operators : Post(m, c, p)
        \/ \E u \in Users : Forget(u)

Spec == Init /\ [][Next]_cvars
=============================================================================
