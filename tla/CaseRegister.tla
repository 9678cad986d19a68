---------------------------- MODULE CaseRegister ----------------------------
(***************************************************************************)
(* What reporting promises about its durable state, with no word about     *)
(* requests or the disk: a register of reports, each entered with the next *)
(* number of its month, and the exhibits attached to them.  A report is    *)
(* entered by a user who has an account, an exhibit is attached to a report *)
(* by the user it belongs to; neither disappears or changes, except that   *)
(* both lose their user when the account goes.                             *)
(***************************************************************************)
EXTENDS Naturals, FiniteSets

CONSTANTS Users, Reports, Paths, Months, Sizes, None

VARIABLES holders,  \* the users with an account
          entries,  \* the reports, None before they are entered
          exhibits  \* the files attached to them, None before they are

rvars == <<holders, entries, exhibits>>

Init == /\ holders = Users
        /\ entries = [c \in Reports |-> None]
        /\ exhibits = [p \in Paths |-> None]

InMonth(m) == {c \in Reports : entries[c] # None /\ entries[c].month = m}

Enter(c, u, m) ==
    /\ entries[c] = None
    /\ u \in holders
    /\ entries' = [entries EXCEPT ![c] =
                     [user |-> u, month |-> m, number |-> Cardinality(InMonth(m)) + 1]]
    /\ UNCHANGED <<holders, exhibits>>

Attach(p, c, n) ==
    /\ exhibits[p] = None
    /\ entries[c] # None /\ entries[c].user \in holders
    /\ exhibits' = [exhibits EXCEPT ![p] = [report |-> c, by |-> entries[c].user, size |-> n]]
    /\ UNCHANGED <<holders, entries>>

Forget(u) ==
    /\ holders' = holders \ {u}
    /\ entries' = [c \in Reports |-> IF entries[c] # None /\ entries[c].user = u
                                     THEN [entries[c] EXCEPT !.user = None] ELSE entries[c]]
    /\ exhibits' = [p \in Paths |-> IF exhibits[p] # None /\ exhibits[p].by = u
                                    THEN [exhibits[p] EXCEPT !.by = None] ELSE exhibits[p]]

Next == \/ \E c \in Reports, u \in Users, m \in Months : Enter(c, u, m)
        \/ \E p \in Paths, c \in Reports, n \in Sizes : Attach(p, c, n)
        \/ \E u \in Users : Forget(u)

Spec == Init /\ [][Next]_rvars
=============================================================================
