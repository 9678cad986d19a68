---------------------------- MODULE AlertLedger ----------------------------
(***************************************************************************)
(* What the SOS component promises about its durable state, with no word   *)
(* about requests, Redis or the queue: a ledger of alerts and the trail of *)
(* positions of each.  One step opens one alert, changes one alert, or     *)
(* extends and prunes trails; an alert never disappears, is only opened in *)
(* a user's name and changes hands only when that user is deleted; who is  *)
(* responsible for it, and who closed it, is forgotten only when that      *)
(* operator is deleted; pruning never touches the Kept most recent         *)
(* positions.                                                              *)
(***************************************************************************)
EXTENDS Naturals, FiniteSets

CONSTANTS Users, Operators, Alerts, Times, ClosedStatus, Status, Kept, None

VARIABLES alerts,  \* the alerts, None before they are opened
          pings    \* the trail of each

lvars == <<alerts, pings>>

Init == /\ alerts = [a \in Alerts |-> None]
        /\ pings = [a \in Alerts |-> {}]

\* The rows an alert's trail may be pruned to when it held S.
Prunings(S) == {P \in SUBSET S : \A t \in S \ P : Cardinality({q \in P : q > t}) >= Kept}

Open(a, u) ==
    /\ alerts[a] = None
    /\ alerts' = [alerts EXCEPT ![a] = [owner |-> u, status |-> "active", assigned |-> None,
                                        resolved |-> FALSE, resolver |-> None]]
    /\ UNCHANGED pings

\* A closed alert carries the stamp of its closing, and an update never takes a
\* stamp back; it only replaces a responder by another.
Update(a, row) ==
    /\ row.owner = alerts[a].owner
    /\ row.status \in ClosedStatus \/ alerts[a].resolved => row.resolved
    /\ alerts[a].assigned # None => row.assigned # None
    /\ alerts[a].resolver # None => row.resolver # None
    /\ alerts' = [alerts EXCEPT ![a] = row]

Prune == \A a \in Alerts : pings'[a] \in Prunings(pings[a])

Change(a) ==
    /\ alerts[a] # None
    /\ \E s \in Status, o1, o2 \in Operators \cup {None}, b \in BOOLEAN :
         Update(a, [owner |-> alerts[a].owner, status |-> s, assigned |-> o1,
                    resolved |-> b, resolver |-> o2])
    /\ DOMAIN pings' = Alerts
    /\ Prune

Extend(a) ==
    /\ alerts[a] # None
    /\ \E T \in SUBSET Times : pings' = [pings EXCEPT ![a] = @ \cup T]
    /\ UNCHANGED alerts

Read == /\ DOMAIN pings' = Alerts
        /\ Prune
        /\ UNCHANGED alerts

Forget(u) ==
    /\ alerts' = [a \in Alerts |-> IF alerts[a] # None /\ alerts[a].owner = u
                                   THEN [alerts[a] EXCEPT !.owner = None] ELSE alerts[a]]
    /\ UNCHANGED pings

\* An operator is deleted: no alert names them any more, stamps stay.
Dismiss(o) ==
    /\ alerts' = [a \in Alerts |->
                    IF alerts[a] = None THEN None
                    ELSE [alerts[a] EXCEPT !.assigned = IF @ = o THEN None ELSE @,
                                           !.resolver = IF @ = o THEN None ELSE @]]
    /\ UNCHANGED pings

Next == \/ \E a \in Alerts : (\E u \in Users : Open(a, u)) \/ Change(a) \/ Extend(a)
        \/ Read
        \/ \E u \in Users : Forget(u)
        \/ \E o \in Operators : Dismiss(o)

Spec == Init /\ [][Next]_lvars
=============================================================================
