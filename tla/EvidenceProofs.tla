---------------------------- MODULE EvidenceProofs ----------------------------
(***************************************************************************)
(* Theorems about Evidence, for any users, reports, paths, sizes and       *)
(* months, and any number of overlapping requests.                         *)
(*                                                                         *)
(* The inductive invariant has one part for the numbers, one for the disk  *)
(* and one for the users of the rows; each says what a request that has    *)
(* not committed may rely on.                                              *)
(***************************************************************************)
EXTENDS Evidence, FiniteSetTheorems, TLAPS

Entering  == {"enter", "entered"}
Storing   == {"write", "attach", "attached"}
Uploading == {"open"} \cup Storing

\* What a request carries.
Shape(q) ==
    /\ q.pc \in {"count"} \cup Entering => q.user \in Users /\ q.month \in Months
    /\ q.pc \in Entering => q.number \in Nat \ {0}
    /\ q.pc = "entered" => q.report \in Reports
    /\ q.pc \in Uploading => q.user \in Users /\ q.report \in Reports /\ q.size \in Sizes
    /\ q.pc \in Storing => q.path \in Paths

Typed == TypeOK /\ \A r \in Requests : Shape(req[r])

\* A number is at most one ahead of its month.  One that is being inserted is free,
\* and its report new; no other insertion has either.
NumberKept(r) ==
    /\ req[r].pc \in Entering => req[r].number <= Cardinality(InMonth(req[r].month)) + 1
    /\ req[r].pc = "entered" =>
         /\ Numbered(req[r].month, req[r].number) = {}
         /\ report[req[r].report] = None
         /\ \A s \in Requests : s # r /\ req[s].pc = "entered" =>
              /\ req[s].report # req[r].report
              /\ req[s].month = req[r].month => req[s].number # req[r].number

NumbersInv == NumbersContiguous /\ \A r \in Requests : NumberKept(r)

\* A request has its path to itself, until a row names it.
PathKept(r) ==
    req[r].pc \in Storing =>
        /\ evidence[req[r].path] = None /\ disk[req[r].path] # None
        /\ req[r].pc # "write" => disk[req[r].path] = req[r].size
        /\ \A s \in Requests : s # r /\ req[s].pc \in Storing => req[s].path # req[r].path

FilesInv ==
    /\ \A p \in Paths : evidence[p] # None => disk[p] = evidence[p].size
    /\ \A r \in Requests : PathKept(r)

\* The report of an upload stays, and with its user, as long as that user stays.
OwnerKept(r) ==
    /\ req[r].pc \in {"entered", "attached"} => req[r].user \in account
    /\ req[r].pc \in Uploading =>
         /\ report[req[r].report] # None
         /\ req[r].user \in account => report[req[r].report].user = req[r].user

OwnersInv ==
    /\ \A c \in Reports : report[c] # None => report[c].user \in account \cup {None}
    /\ EvidenceOfOwner
    /\ \A r \in Requests : OwnerKept(r)

EvidenceInv == Typed /\ NumbersInv /\ FilesInv /\ OwnersInv

-----------------------------------------------------------------------------
(* A request that changes nothing but itself                               *)

LEMMA IdleRecord == Idle \in Request /\ Shape(Idle) /\ Idle.pc = "idle"
  BY DEF Idle, Request, Shape, Entering, Storing, Uploading

LEMMA TypedKeep ==
    ASSUME Typed, NEW r \in Requests, NEW n \in Request, Shape(n), req' = [req EXCEPT ![r] = n],
           UNCHANGED <<account, report, evidence, month>>,
           disk' \in [Paths -> Nat \cup {None}]
    PROVE  Typed'
  BY DEF Typed, TypeOK

\* No number is inserted, and one that is drawn is at most one ahead.
LEMMA NumbersKeep ==
    ASSUME EvidenceInv, NEW r \in Requests, NEW n \in Request, req' = [req EXCEPT ![r] = n],
           report' = report, n.pc # "entered",
           n.pc = "enter" => n.number <= Cardinality(InMonth(n.month)) + 1
    PROVE  NumbersInv'
  <1>1. req'[r] = n /\ \A s \in Requests : s # r => req'[s] = req[s]
    BY DEF EvidenceInv, Typed, TypeOK
  <1>2. InMonth(n.month)' = InMonth(n.month) /\ NumbersContiguous'
    BY DEF EvidenceInv, NumbersInv, NumbersContiguous, InMonth
  <1>3. ASSUME NEW s \in Requests PROVE NumberKept(s)'
    <2>1. CASE s = r
      BY <1>1, <1>2, <2>1 DEF NumberKept, InMonth, Numbered, Entering
    <2>2. CASE s # r
      <3>1. NumberKept(s)
        BY DEF EvidenceInv, NumbersInv
      <3>2. QED
        BY <1>1, <2>2, <3>1 DEF NumberKept, InMonth, Numbered, Entering
    <2>3. QED
      BY <2>1, <2>2
  <1>4. QED
    BY <1>2, <1>3 DEF NumbersInv

\* The disk stays, and the request has the path it had, or none.
LEMMA FilesKeep ==
    ASSUME EvidenceInv, NEW r \in Requests, NEW n \in Request, req' = [req EXCEPT ![r] = n],
           UNCHANGED <<disk, evidence>>,
           n.pc \in Storing => /\ n.pc # "write" /\ req[r].pc \in Storing \ {"write"}
                               /\ n.path = req[r].path /\ n.size = req[r].size
    PROVE  FilesInv'
  <1>1. req'[r] = n /\ \A s \in Requests : s # r => req'[s] = req[s]
    BY DEF EvidenceInv, Typed, TypeOK
  <1>2. \A s \in Requests : PathKept(s)
    BY DEF EvidenceInv, FilesInv
  <1>3. \A s \in Requests : req'[s].pc \in Storing =>
          /\ req[s].pc \in Storing /\ req'[s].path = req[s].path /\ req'[s].size = req[s].size
          /\ req'[s].pc # "write" => req[s].pc # "write"
    BY <1>1
  <1>4. \A s \in Requests : PathKept(s)'
    BY <1>2, <1>3 DEF PathKept
  <1>5. QED
    BY <1>4 DEF EvidenceInv, FilesInv

\* The rows stay, and the request refers to an account that is there and, when it
\* uploads, to a report of it.
LEMMA OwnersKeep ==
    ASSUME EvidenceInv, NEW r \in Requests, NEW n \in Request, req' = [req EXCEPT ![r] = n],
           UNCHANGED <<account, report, evidence>>,
           n.pc \in {"entered", "attached"} => n.user \in account,
           n.pc \in Uploading =>
             /\ report[n.report] # None
             /\ n.user \in account => report[n.report].user = n.user
    PROVE  OwnersInv'
  <1>1. req'[r] = n /\ \A s \in Requests : s # r => req'[s] = req[s]
    BY DEF EvidenceInv, Typed, TypeOK
  <1>2. \A s \in Requests : OwnerKept(s)'
    BY <1>1 DEF EvidenceInv, OwnersInv, OwnerKept
  <1>3. QED
    BY <1>2 DEF EvidenceInv, OwnersInv, EvidenceOfOwner

-----------------------------------------------------------------------------
(* create_report                                                           *)

LEMMA CreateKeeps ==
    ASSUME EvidenceInv, NEW r \in Requests, NEW u \in Users, CreateReport(r, u)
    PROVE  EvidenceInv'
  <1> DEFINE n == [Idle EXCEPT !.pc = "count", !.user = u, !.month = month]
  <1>1. n \in Request /\ Shape(n) /\ n.pc = "count"
    BY DEF EvidenceInv, Typed, TypeOK, Request, Idle, Shape, Entering, Storing, Uploading
  <1>2. req' = [req EXCEPT ![r] = n] /\ UNCHANGED <<account, report, evidence, disk, month>>
    BY DEF CreateReport
  <1> HIDE DEF n
  <1>3. disk' \in [Paths -> Nat \cup {None}]
    BY <1>2 DEF EvidenceInv, Typed, TypeOK
  <1>4. Typed'
    BY <1>1, <1>2, <1>3, TypedKeep DEF EvidenceInv
  <1>5. NumbersInv' /\ FilesInv' /\ OwnersInv'
    BY <1>1, <1>2, NumbersKeep, FilesKeep, OwnersKeep DEF Storing, Uploading
  <1>6. QED
    BY <1>4, <1>5 DEF EvidenceInv

LEMMA MonthFinite ==
    ASSUME EvidenceInv, NEW m
    PROVE  IsFiniteSet(InMonth(m)) /\ Cardinality(InMonth(m)) \in Nat
  BY EvidenceAssumption, FS_Subset, FS_CardinalityType DEF InMonth

LEMMA CountKeeps ==
    ASSUME EvidenceInv, NEW r \in Requests, CountReports(r)
    PROVE  EvidenceInv'
  <1> DEFINE n == [req[r] EXCEPT !.pc = "enter", !.number = NumberOf(req[r].month)]
  <1>0. req[r] \in Request /\ Shape(req[r]) /\ req[r].pc = "count"
    BY DEF EvidenceInv, Typed, TypeOK, CountReports
  <1>1. NumberOf(req[r].month) \in Nat \ {0}
    BY MonthFinite DEF NumberOf
  <1>2. /\ n \in Request /\ Shape(n) /\ n.pc = "enter" /\ n.month = req[r].month
        /\ n.number = Cardinality(InMonth(n.month)) + 1
    BY <1>0, <1>1 DEF Request, Shape, Entering, Storing, Uploading, NumberOf
  <1>3. req' = [req EXCEPT ![r] = n] /\ UNCHANGED <<account, report, evidence, disk, month>>
    BY DEF CountReports
  <1> HIDE DEF n
  <1>4. disk' \in [Paths -> Nat \cup {None}]
    BY <1>3 DEF EvidenceInv, Typed, TypeOK
  <1>5. Typed'
    BY <1>2, <1>3, <1>4, TypedKeep DEF EvidenceInv
  <1>6. n.number <= Cardinality(InMonth(n.month)) + 1
    BY <1>2, MonthFinite
  <1>7. NumbersInv' /\ FilesInv' /\ OwnersInv'
    BY <1>2, <1>3, <1>6, NumbersKeep, FilesKeep, OwnersKeep DEF Storing, Uploading
  <1>8. QED
    BY <1>5, <1>7 DEF EvidenceInv

LEMMA EnterKeeps ==
    ASSUME EvidenceInv, NEW r \in Requests, EnterReport(r)
    PROVE  EvidenceInv'
  <1>1. PICK c \in Reports : Fresh(c) /\ req' = [req EXCEPT ![r].pc = "entered", ![r].report = c]
    BY DEF EnterReport
  <1> DEFINE n == [req[r] EXCEPT !.pc = "entered", !.report = c]
  <1>0. /\ req[r] \in Request /\ Shape(req[r]) /\ req[r].pc = "enter" /\ req[r].user \in account
        /\ UniqueNumber(req[r].month, req[r].number)
    BY DEF EvidenceInv, Typed, TypeOK, EnterReport, UserExists
  <1>2. /\ n \in Request /\ Shape(n) /\ n.pc = "entered" /\ n.report = c
        /\ n.month = req[r].month /\ n.number = req[r].number /\ n.user = req[r].user
    BY <1>0 DEF Request, Shape, Entering, Storing, Uploading
  <1>3. req' = [req EXCEPT ![r] = n] /\ UNCHANGED <<account, report, evidence, disk, month>>
    BY <1>1 DEF EnterReport
  <1> HIDE DEF n
  <1>4. disk' \in [Paths -> Nat \cup {None}]
    BY <1>3 DEF EvidenceInv, Typed, TypeOK
  <1>5. Typed'
    BY <1>2, <1>3, <1>4, TypedKeep DEF EvidenceInv
  <1>6. FilesInv' /\ OwnersInv'
    BY <1>0, <1>2, <1>3, FilesKeep, OwnersKeep DEF Storing, Uploading
  <1>7. req'[r] = n /\ \A s \in Requests : s # r => req'[s] = req[s]
    BY <1>3 DEF EvidenceInv, Typed, TypeOK
  <1>8. ASSUME NEW s \in Requests PROVE NumberKept(s)'
    <2>1. \A t \in Requests : NumberKept(t)
      BY DEF EvidenceInv, NumbersInv
    <2>2. /\ report[c] = None /\ Numbered(n.month, n.number) = {}
          /\ \A t \in Requests : req[t].pc = "entered" =>
               req[t].report # c /\ ~(req[t].month = n.month /\ req[t].number = n.number)
      BY <1>0, <1>1, <1>2 DEF Fresh, UniqueNumber, Pending
    <2>3. CASE s = r
      BY <1>0, <1>2, <1>3, <1>7, <2>1, <2>2, <2>3 DEF NumberKept, InMonth, Numbered, Entering
    <2>4. CASE s # r
      <3>1. /\ NumberKept(s) /\ req'[s] = req[s] /\ report' = report
        BY <1>3, <1>7, <2>1, <2>4
      <3>2. \A t \in Requests : t # s /\ req'[t].pc = "entered" /\ req[s].pc = "entered" =>
              /\ req'[t].report # req[s].report
              /\ req'[t].month = req[s].month => req'[t].number # req[s].number
        BY <1>2, <1>7, <2>2, <3>1 DEF NumberKept
      <3>3. QED
        BY <3>1, <3>2 DEF NumberKept, InMonth, Numbered, Entering
    <2>5. QED
      BY <2>3, <2>4
  <1>9. NumbersInv'
    <2>1. report' = report
      BY <1>3
    <2>2. NumbersContiguous'
      BY <2>1 DEF EvidenceInv, NumbersInv, NumbersContiguous, InMonth
    <2>3. QED
      BY <1>8, <2>2 DEF NumbersInv
  <1>10. QED
    BY <1>5, <1>6, <1>9 DEF EvidenceInv

\* The number that is committed is the next of its month: it is free and at most one
\* ahead.
LEMMA NextNumber ==
    ASSUME EvidenceInv, NEW r \in Requests, req[r].pc = "entered"
    PROVE  req[r].number = Cardinality(InMonth(req[r].month)) + 1
  <1> DEFINE m == req[r].month
             k == Cardinality(InMonth(m))
  <1>1. /\ m \in Months /\ req[r].number \in Nat \ {0}
        /\ req[r].number <= k + 1
        /\ Numbered(m, req[r].number) = {}
    BY DEF EvidenceInv, Typed, Shape, NumbersInv, NumberKept, Entering
  <1>2. {report[c].number : c \in InMonth(m)} = 1..k
    BY <1>1 DEF EvidenceInv, NumbersInv, NumbersContiguous
  <1>3. req[r].number \notin {report[c].number : c \in InMonth(m)}
    BY <1>1 DEF Numbered
  <1>4. k \in Nat
    BY MonthFinite
  <1> HIDE DEF k, m
  <1>5. QED
    BY <1>1, <1>2, <1>3, <1>4 DEF k, m

\* The month of the report grows by it, and the others stay.
LEMMA MonthGrows ==
    ASSUME EvidenceInv, NEW q \in Request, NEW row \in Report,
           q.report \in Reports, report[q.report] = None, row.month = q.month,
           report' = [report EXCEPT ![q.report] = row], NEW m
    PROVE  /\ m = q.month => /\ InMonth(m)' = InMonth(m) \cup {q.report}
                             /\ Cardinality(InMonth(m)') = Cardinality(InMonth(m)) + 1
           /\ m # q.month => InMonth(m)' = InMonth(m)
           /\ q.report \notin InMonth(m)
  <1>1. row # None
    BY EvidenceAssumption DEF Report
  <1>2. report'[q.report] = row /\ \A c \in Reports : c # q.report => report'[c] = report[c]
    BY DEF EvidenceInv, Typed, TypeOK
  <1>3. q.report \notin InMonth(m)
    BY DEF InMonth
  <1>4. m # q.month => InMonth(m)' = InMonth(m)
    BY <1>1, <1>2 DEF InMonth
  <1>5. m = q.month => InMonth(m)' = InMonth(m) \cup {q.report}
    BY <1>1, <1>2 DEF InMonth
  <1>6. Cardinality(InMonth(m) \cup {q.report}) = Cardinality(InMonth(m)) + 1
    BY <1>3, MonthFinite, FS_AddElement
  <1>7. QED
    BY <1>3, <1>4, <1>5, <1>6

LEMMA CommitReportKeeps ==
    ASSUME EvidenceInv, NEW r \in Requests, CommitReport(r)
    PROVE  EvidenceInv'
  <1>q. req[r] \in Request
    BY DEF EvidenceInv, Typed, TypeOK
  <1> PICK q \in Request : q = req[r]
    BY <1>q
  <1> DEFINE row == [user |-> q.user, month |-> q.month, number |-> q.number]
  <1>0. /\ Shape(q) /\ q.pc = "entered" /\ NumberKept(r) /\ OwnerKept(r)
        /\ q.report \in Reports /\ q.user \in Users /\ q.user \in account /\ q.month \in Months
        /\ q.number \in Nat \ {0} /\ report[q.report] = None
    BY DEF EvidenceInv, Typed, TypeOK, CommitReport, NumbersInv, OwnersInv, Shape, Entering,
           NumberKept, OwnerKept
  <1>1. /\ report' = [report EXCEPT ![q.report] = row] /\ req' = [req EXCEPT ![r] = Idle]
        /\ UNCHANGED <<account, evidence, disk, month>>
    BY DEF CommitReport
  <1>2. row \in Report /\ row # None /\ row.user = q.user /\ row.month = q.month /\ row.number = q.number
    BY <1>0, EvidenceAssumption DEF Report
  <1>3. /\ report'[q.report] = row /\ \A c \in Reports : c # q.report => report'[c] = report[c]
        /\ req'[r] = Idle /\ \A s \in Requests : s # r => req'[s] = req[s]
    BY <1>0, <1>1 DEF EvidenceInv, Typed, TypeOK
  <1> HIDE DEF row
  <1>4. Typed'
    <2>1. report' \in [Reports -> Report \cup {None}]
      BY <1>1, <1>2 DEF EvidenceInv, Typed, TypeOK
    <2>2. req' \in [Requests -> Request] /\ \A s \in Requests : Shape(req'[s])
      BY <1>1, <1>3, IdleRecord DEF EvidenceInv, Typed, TypeOK
    <2>3. QED
      BY <1>1, <2>1, <2>2 DEF EvidenceInv, Typed, TypeOK
  <1>5. ASSUME NEW m
        PROVE  /\ m = q.month => /\ InMonth(m)' = InMonth(m) \cup {q.report}
                                 /\ Cardinality(InMonth(m)') = Cardinality(InMonth(m)) + 1
               /\ m # q.month => InMonth(m)' = InMonth(m)
               /\ q.report \notin InMonth(m)
    BY <1>0, <1>1, <1>2, MonthGrows
  <1>7. q.number = Cardinality(InMonth(q.month)) + 1
    BY <1>0, NextNumber
  <1>8. NumbersContiguous'
    <2>1. SUFFICES ASSUME NEW m \in Months
                   PROVE  /\ {report'[c].number : c \in InMonth(m)'} = 1..Cardinality(InMonth(m)')
                          /\ \A c, d \in InMonth(m)' : report'[c].number = report'[d].number => c = d
      BY DEF NumbersContiguous
    <2>2. /\ {report[c].number : c \in InMonth(m)} = 1..Cardinality(InMonth(m))
          /\ \A c, d \in InMonth(m) : report[c].number = report[d].number => c = d
      BY DEF EvidenceInv, NumbersInv, NumbersContiguous
    <2>3. \A c \in InMonth(m) : c # q.report /\ report'[c] = report[c]
      BY <1>0, <1>3 DEF InMonth
    <2>4. PICK old, new : old = InMonth(m) /\ new = InMonth(m)'
      OBVIOUS
    <2>5. CASE m # q.month
      <3>1. new = old /\ \A c \in old : report'[c] = report[c]
        BY <1>5, <2>3, <2>4, <2>5
      <3>2. {report'[c].number : c \in new} = {report[c].number : c \in old}
        BY <3>1
      <3>3. QED
        BY <2>2, <2>4, <3>1, <3>2
    <2>6. CASE m = q.month
      <3>1. PICK k \in Nat : k = Cardinality(old)
        BY <2>4, MonthFinite
      <3>2. new = old \cup {q.report} /\ Cardinality(new) = k + 1
        BY <1>5, <2>4, <2>6, <3>1
      <3>3. report'[q.report].number = k + 1
        BY <1>2, <1>3, <1>7, <2>4, <2>6, <3>1
      <3>4. {report'[c].number : c \in new} = {report[c].number : c \in old} \cup {k + 1}
        BY <2>3, <2>4, <3>2, <3>3
      <3>5. (1..k) \cup {k + 1} = 1..(k + 1)
        OBVIOUS
      <3>6. \A c \in old : report[c].number \in 1..k
        BY <2>2, <2>4, <3>1
      <3>7. \A c \in old : report'[c].number \in 1..k /\ report'[c].number = report[c].number
        BY <2>3, <2>4, <3>6
      <3>8. \A c, d \in new : report'[c].number = report'[d].number => c = d
        <4>1. SUFFICES ASSUME NEW c \in new, NEW d \in new, report'[c].number = report'[d].number
                       PROVE  c = d
          OBVIOUS
        <4>2. CASE c \in old /\ d \in old
          BY <2>2, <2>4, <3>7, <4>1, <4>2
        <4>3. CASE c \notin old \/ d \notin old
          BY <3>2, <3>3, <3>7, <4>1, <4>3
        <4>4. QED
          BY <4>2, <4>3
      <3>9. QED
        BY <2>2, <2>4, <3>1, <3>2, <3>4, <3>5, <3>8
    <2>7. QED
      BY <2>5, <2>6
  <1>9. ASSUME NEW s \in Requests PROVE NumberKept(s)'
    <2>1. CASE s = r
      BY <1>3, <2>1, IdleRecord DEF NumberKept, Entering
    <2>2. CASE s # r
      <3>1. /\ NumberKept(s) /\ req'[s] = req[s]
            /\ \A t \in Requests : req'[t].pc = "entered" => req[t].pc = "entered" /\ req'[t] = req[t]
        BY <1>3, <2>2, IdleRecord DEF EvidenceInv, NumbersInv
      <3>m. PICK v : v = req[s]
        OBVIOUS
      <3>2. v.pc \in Entering =>
              v.number \in Nat /\ v.month \in Months /\ Cardinality(InMonth(v.month)) \in Nat
        BY <3>m, MonthFinite DEF EvidenceInv, Typed, Shape
      <3>3. v.pc \in Entering => v.number <= Cardinality(InMonth(v.month)') + 1
        <4>1. SUFFICES ASSUME v.pc \in Entering PROVE v.number <= Cardinality(InMonth(v.month)') + 1
          OBVIOUS
        <4>2. v.number <= Cardinality(InMonth(v.month)) + 1
          BY <3>1, <3>m, <4>1 DEF NumberKept
        <4>3. \/ Cardinality(InMonth(v.month)') = Cardinality(InMonth(v.month)) + 1
              \/ Cardinality(InMonth(v.month)') = Cardinality(InMonth(v.month))
          BY <1>5
        <4>4. QED
          BY <3>2, <4>1, <4>2, <4>3
      <3>4. ASSUME v.pc = "entered"
            PROVE  Numbered(v.month, v.number)' = {} /\ report'[v.report] = None
        <4>1. v.report # q.report /\ (v.month = q.month => v.number # q.number)
          BY <1>0, <2>2, <3>4, <3>m DEF NumberKept
        <4>2. v.report \in Reports
          BY <3>4, <3>m DEF EvidenceInv, Typed, Shape, Entering
        <4>3. Numbered(v.month, v.number) = {} /\ report[v.report] = None
          BY <3>1, <3>4, <3>m DEF NumberKept
        <4>4. QED
          BY <1>2, <1>3, <4>1, <4>2, <4>3 DEF Numbered, InMonth
      <3>5. req'[s] = v
        BY <3>1, <3>m
      <3>6. QED
        BY <3>1, <3>3, <3>4, <3>5, <3>m DEF NumberKept, InMonth, Numbered, Entering
    <2>3. QED
      BY <2>1, <2>2
  <1>10. FilesInv'
    BY <1>1, IdleRecord, FilesKeep DEF Storing
  <1>11. OwnersInv'
    <2>1. \A c \in Reports : report'[c] # None => report'[c].user \in account \cup {None}
      BY <1>0, <1>2, <1>3 DEF EvidenceInv, OwnersInv
    <2>2. \A p \in Paths : evidence[p] # None => evidence[p].report \in Reports
      BY EvidenceAssumption DEF EvidenceInv, Typed, TypeOK, File
    <2>3. EvidenceOfOwner'
      BY <1>0, <1>1, <1>3, <2>2 DEF EvidenceInv, OwnersInv, EvidenceOfOwner
    <2>4. ASSUME NEW s \in Requests PROVE OwnerKept(s)'
      <3>1. OwnerKept(s) /\ Shape(req[s])
        BY DEF EvidenceInv, OwnersInv, Typed
      <3>2. QED
        BY <1>0, <1>1, <1>3, <3>1, IdleRecord DEF OwnerKept, Shape, Uploading, Storing
    <2>5. QED
      BY <1>1, <2>1, <2>3, <2>4 DEF OwnersInv
  <1>12. QED
    BY <1>4, <1>8, <1>9, <1>10, <1>11 DEF EvidenceInv, NumbersInv

-----------------------------------------------------------------------------
(* process_evidence_upload                                                 *)

LEMMA UploadKeeps ==
    ASSUME EvidenceInv, NEW r \in Requests, NEW u \in Users, NEW c \in Reports, NEW b \in Sizes,
           UploadEvidence(r, u, c, b)
    PROVE  EvidenceInv'
  <1> DEFINE n == [Idle EXCEPT !.pc = "open", !.user = u, !.report = c, !.size = b]
  <1>1. /\ n \in Request /\ Shape(n) /\ n.pc = "open" /\ n.report = c /\ n.user = u
    BY DEF Request, Idle, Shape, Entering, Storing, Uploading
  <1>2. /\ req' = [req EXCEPT ![r] = n] /\ UNCHANGED <<account, report, evidence, disk, month>>
        /\ report[c] # None /\ report[c].user = u
    BY DEF UploadEvidence, OwnReport
  <1> HIDE DEF n
  <1>3. disk' \in [Paths -> Nat \cup {None}]
    BY <1>2 DEF EvidenceInv, Typed, TypeOK
  <1>4. Typed'
    BY <1>1, <1>2, <1>3, TypedKeep DEF EvidenceInv
  <1>5. NumbersInv' /\ FilesInv' /\ OwnersInv'
    BY <1>1, <1>2, NumbersKeep, FilesKeep, OwnersKeep DEF Storing, Uploading
  <1>6. QED
    BY <1>4, <1>5 DEF EvidenceInv

LEMMA OpenKeeps ==
    ASSUME EvidenceInv, NEW r \in Requests, OpenFile(r)
    PROVE  EvidenceInv'
  <1>1. PICK p \in Paths : /\ disk[p] = None /\ disk' = [disk EXCEPT ![p] = 0]
                           /\ req' = [req EXCEPT ![r].pc = "write", ![r].path = p]
    BY DEF OpenFile
  <1> DEFINE n == [req[r] EXCEPT !.pc = "write", !.path = p]
  <1>0. req[r] \in Request /\ Shape(req[r]) /\ req[r].pc = "open" /\ OwnerKept(r)
    BY DEF EvidenceInv, Typed, TypeOK, OpenFile, OwnersInv
  <1>2. /\ n \in Request /\ Shape(n) /\ n.pc = "write" /\ n.path = p
        /\ n.report = req[r].report /\ n.user = req[r].user
    BY <1>0 DEF Request, Shape, Entering, Storing, Uploading
  <1>3. req' = [req EXCEPT ![r] = n] /\ UNCHANGED <<account, report, evidence, month>>
    BY <1>1 DEF OpenFile
  <1> HIDE DEF n
  <1>4. /\ disk' \in [Paths -> Nat \cup {None}] /\ disk'[p] = 0
        /\ \A o \in Paths : o # p => disk'[o] = disk[o]
        /\ req'[r] = n /\ \A s \in Requests : s # r => req'[s] = req[s]
    BY <1>1, <1>3 DEF EvidenceInv, Typed, TypeOK
  <1>5. Typed'
    BY <1>2, <1>3, <1>4, TypedKeep DEF EvidenceInv
  <1>6. NumbersInv' /\ OwnersInv'
    BY <1>0, <1>2, <1>3, NumbersKeep, OwnersKeep DEF Storing, Uploading, OwnerKept
  <1>7. evidence[p] = None
    BY <1>1, EvidenceAssumption DEF EvidenceInv, FilesInv, Typed, TypeOK, File
  <1>8. \A o \in Paths : evidence'[o] # None => disk'[o] = evidence'[o].size
    BY <1>3, <1>4, <1>7 DEF EvidenceInv, FilesInv
  <1>9. ASSUME NEW s \in Requests, s # r, req[s].pc \in Storing PROVE req[s].path # p /\ req[s].path \in Paths
    BY <1>1, <1>9 DEF EvidenceInv, FilesInv, PathKept, Typed, Shape
  <1>10. ASSUME NEW s \in Requests PROVE PathKept(s)'
    <2>1. CASE s = r
      BY <1>2, <1>3, <1>4, <1>7, <1>9, <2>1, EvidenceAssumption DEF PathKept, Storing
    <2>2. CASE s # r
      <3>1. PathKept(s) /\ req'[s] = req[s] /\ evidence' = evidence
        BY <1>3, <1>4, <2>2 DEF EvidenceInv, FilesInv
      <3>2. QED
        BY <1>2, <1>4, <1>9, <2>2, <3>1 DEF PathKept
    <2>3. QED
      BY <2>1, <2>2
  <1>11. QED
    BY <1>5, <1>6, <1>8, <1>10 DEF EvidenceInv, FilesInv

\* The file at the path of a request that writes may change; no row names it.
LEMMA FilesAfterWrite ==
    ASSUME EvidenceInv, NEW r \in Requests, req[r].pc = "write",
           NEW n \in Request, req' = [req EXCEPT ![r] = n],
           NEW b \in Nat, disk' = [disk EXCEPT ![req[r].path] = b], evidence' = evidence,
           n.pc \in Storing => n.path = req[r].path /\ b = n.size
    PROVE  FilesInv' /\ disk' \in [Paths -> Nat \cup {None}]
  <1>1. /\ req[r].path \in Paths /\ evidence[req[r].path] = None /\ PathKept(r)
    BY DEF EvidenceInv, Typed, Shape, FilesInv, PathKept, Storing
  <1>2. PICK p \in Paths : p = req[r].path
    BY <1>1
  <1>3. /\ disk' \in [Paths -> Nat \cup {None}] /\ disk'[p] = b
        /\ \A o \in Paths : o # p => disk'[o] = disk[o]
        /\ req'[r] = n /\ \A s \in Requests : s # r => req'[s] = req[s]
    BY <1>2 DEF EvidenceInv, Typed, TypeOK
  <1>4. \A o \in Paths : evidence'[o] # None => disk'[o] = evidence'[o].size
    BY <1>1, <1>2, <1>3 DEF EvidenceInv, FilesInv
  <1>5. \A s \in Requests : s # r /\ req[s].pc \in Storing => req[s].path # p /\ req[s].path \in Paths
    BY <1>1, <1>2 DEF PathKept, EvidenceInv, Typed, Shape, Storing
  <1>6. b # None
    BY EvidenceAssumption
  <1>7. ASSUME NEW s \in Requests PROVE PathKept(s)'
    <2>1. CASE s = r
      BY <1>1, <1>2, <1>3, <1>5, <1>6, <2>1 DEF PathKept
    <2>2. CASE s # r
      <3>1. PathKept(s) /\ req'[s] = req[s]
        BY <1>3, <2>2 DEF EvidenceInv, FilesInv
      <3>2. QED
        BY <1>2, <1>3, <1>5, <2>2, <3>1 DEF PathKept
    <2>3. QED
      BY <2>1, <2>2
  <1>8. QED
    BY <1>3, <1>4, <1>7 DEF FilesInv

LEMMA WriteKeeps ==
    ASSUME EvidenceInv, NEW r \in Requests, WriteFile(r)
    PROVE  EvidenceInv'
  <1> DEFINE n == [req[r] EXCEPT !.pc = "attach"]
  <1>0. /\ req[r] \in Request /\ Shape(req[r]) /\ req[r].pc = "write" /\ OwnerKept(r)
        /\ req[r].size \in Nat
    BY EvidenceAssumption DEF EvidenceInv, Typed, TypeOK, WriteFile, OwnersInv, Shape, Uploading, Storing
  <1>2. /\ n \in Request /\ Shape(n) /\ n.pc = "attach" /\ n.path = req[r].path
        /\ n.report = req[r].report /\ n.user = req[r].user /\ n.size = req[r].size
    BY <1>0 DEF Request, Shape, Entering, Storing, Uploading
  <1>3. /\ req' = [req EXCEPT ![r] = n] /\ UNCHANGED <<account, report, evidence, month>>
        /\ disk' = [disk EXCEPT ![req[r].path] = req[r].size]
    BY DEF WriteFile, BytesWritten
  <1> HIDE DEF n
  <1>4. FilesInv' /\ disk' \in [Paths -> Nat \cup {None}]
    BY <1>0, <1>2, <1>3, FilesAfterWrite
  <1>5. Typed'
    BY <1>2, <1>3, <1>4, TypedKeep DEF EvidenceInv
  <1>6. NumbersInv' /\ OwnersInv'
    BY <1>0, <1>2, <1>3, NumbersKeep, OwnersKeep DEF Storing, Uploading, OwnerKept
  <1>7. QED
    BY <1>4, <1>5, <1>6 DEF EvidenceInv

LEMMA AttachKeeps ==
    ASSUME EvidenceInv, NEW r \in Requests, AttachFile(r)
    PROVE  EvidenceInv'
  <1> DEFINE n == [req[r] EXCEPT !.pc = "attached"]
  <1>0. /\ req[r] \in Request /\ Shape(req[r]) /\ req[r].pc = "attach" /\ OwnerKept(r)
        /\ req[r].user \in account
    BY DEF EvidenceInv, Typed, TypeOK, AttachFile, OwnersInv, UserExists
  <1>2. /\ n \in Request /\ Shape(n) /\ n.pc = "attached" /\ n.path = req[r].path
        /\ n.report = req[r].report /\ n.user = req[r].user /\ n.size = req[r].size
    BY <1>0 DEF Request, Shape, Entering, Storing, Uploading
  <1>3. req' = [req EXCEPT ![r] = n] /\ UNCHANGED <<account, report, evidence, disk, month>>
    BY DEF AttachFile
  <1> HIDE DEF n
  <1>4. disk' \in [Paths -> Nat \cup {None}]
    BY <1>3 DEF EvidenceInv, Typed, TypeOK
  <1>5. Typed'
    BY <1>2, <1>3, <1>4, TypedKeep DEF EvidenceInv
  <1>6. NumbersInv' /\ FilesInv' /\ OwnersInv'
    BY <1>0, <1>2, <1>3, NumbersKeep, FilesKeep, OwnersKeep DEF Storing, Uploading, OwnerKept
  <1>7. QED
    BY <1>5, <1>6 DEF EvidenceInv

LEMMA CommitFileKeeps ==
    ASSUME EvidenceInv, NEW r \in Requests, CommitFile(r)
    PROVE  EvidenceInv'
  <1>q. req[r] \in Request
    BY DEF EvidenceInv, Typed, TypeOK
  <1> PICK q \in Request : q = req[r]
    BY <1>q
  <1> DEFINE row == [report |-> q.report, by |-> q.user, size |-> q.size]
  <1>0. /\ Shape(q) /\ q.pc = "attached" /\ PathKept(r) /\ OwnerKept(r)
        /\ q.report \in Reports /\ q.user \in Users /\ q.user \in account
        /\ q.size \in Sizes /\ q.path \in Paths
        /\ report[q.report] # None /\ report[q.report].user = q.user
        /\ evidence[q.path] = None /\ disk[q.path] = q.size
    BY DEF EvidenceInv, Typed, TypeOK, CommitFile, FilesInv, OwnersInv, Shape, Uploading, Storing,
           PathKept, OwnerKept
  <1>1. /\ evidence' = [evidence EXCEPT ![q.path] = row] /\ req' = [req EXCEPT ![r] = Idle]
        /\ UNCHANGED <<account, report, disk, month>>
    BY DEF CommitFile
  <1>2. row \in File /\ row.report = q.report /\ row.by = q.user /\ row.size = q.size
    BY <1>0 DEF File
  <1>3. /\ evidence'[q.path] = row /\ \A p \in Paths : p # q.path => evidence'[p] = evidence[p]
        /\ req'[r] = Idle /\ \A s \in Requests : s # r => req'[s] = req[s]
    BY <1>0, <1>1 DEF EvidenceInv, Typed, TypeOK
  <1> HIDE DEF row
  <1>4. Typed'
    <2>1. evidence' \in [Paths -> File \cup {None}]
      BY <1>1, <1>2 DEF EvidenceInv, Typed, TypeOK
    <2>2. req' \in [Requests -> Request] /\ \A s \in Requests : Shape(req'[s])
      BY <1>1, <1>3, IdleRecord DEF EvidenceInv, Typed, TypeOK
    <2>3. QED
      BY <1>1, <2>1, <2>2 DEF EvidenceInv, Typed, TypeOK
  <1>5. NumbersInv'
    BY <1>1, IdleRecord, NumbersKeep
  <1>6. FilesInv'
    <2>1. \A p \in Paths : evidence'[p] # None => disk'[p] = evidence'[p].size
      BY <1>0, <1>1, <1>2, <1>3 DEF EvidenceInv, FilesInv
    <2>2. ASSUME NEW s \in Requests PROVE PathKept(s)'
      <3>1. CASE s = r
        BY <1>3, <3>1, IdleRecord DEF PathKept, Storing
      <3>2. CASE s # r
        <4>1. PathKept(s) /\ req'[s] = req[s] /\ (req[s].pc \in Storing => req[s].path \in Paths)
          BY <1>3, <3>2 DEF EvidenceInv, FilesInv, Typed, Shape
        <4>2. req[s].pc \in Storing => req[s].path # q.path
          BY <1>0, <3>2, <4>1 DEF PathKept, Storing
        <4>3. \A t \in Requests : req'[t].pc \in Storing => req[t].pc \in Storing /\ req'[t] = req[t]
          BY <1>3, IdleRecord DEF Storing
        <4>4. QED
          BY <1>1, <1>3, <4>1, <4>2, <4>3 DEF PathKept
      <3>3. QED
        BY <3>1, <3>2
    <2>3. QED
      BY <2>1, <2>2 DEF FilesInv
  <1>7. OwnersInv'
    <2>1. EvidenceOfOwner'
      BY <1>0, <1>1, <1>2, <1>3 DEF EvidenceInv, OwnersInv, EvidenceOfOwner
    <2>2. ASSUME NEW s \in Requests PROVE OwnerKept(s)'
      <3>1. OwnerKept(s)
        BY DEF EvidenceInv, OwnersInv
      <3>2. QED
        BY <1>1, <1>3, <3>1, IdleRecord DEF OwnerKept, Uploading, Storing
    <2>3. QED
      BY <1>1, <2>1, <2>2 DEF EvidenceInv, OwnersInv
  <1>8. QED
    BY <1>4, <1>5, <1>6, <1>7 DEF EvidenceInv

-----------------------------------------------------------------------------
(* Failures, deletion and the end of a month                               *)

LEMMA AbortKeeps ==
    ASSUME EvidenceInv, NEW r \in Requests, Abort(r)
    PROVE  EvidenceInv'
  <1>1. req' = [req EXCEPT ![r] = Idle] /\ UNCHANGED <<account, report, evidence, month>>
    BY DEF Abort
  <1>2. NumbersInv' /\ OwnersInv'
    BY <1>1, IdleRecord, NumbersKeep, OwnersKeep DEF Uploading, Storing
  <1>3. FilesInv' /\ disk' \in [Paths -> Nat \cup {None}]
    <2>1. CASE disk' = disk
      <3>1. FilesInv'
        BY <1>1, <2>1, IdleRecord, FilesKeep DEF Storing
      <3>2. QED
        BY <2>1, <3>1 DEF EvidenceInv, Typed, TypeOK
    <2>2. CASE req[r].pc = "write" /\ \E n \in 0..req[r].size : disk' = [disk EXCEPT ![req[r].path] = n]
      <3>1. PICK n \in 0..req[r].size : disk' = [disk EXCEPT ![req[r].path] = n]
        BY <2>2
      <3>2. n \in Nat
        BY <3>1
      <3>3. QED
        BY <1>1, <2>2, <3>1, <3>2, IdleRecord, FilesAfterWrite DEF Storing
    <2>3. QED
      BY <2>1, <2>2 DEF Abort
  <1>4. Typed'
    BY <1>1, <1>3, IdleRecord, TypedKeep DEF EvidenceInv
  <1>5. QED
    BY <1>2, <1>3, <1>4 DEF EvidenceInv

\* A deletion takes the user from the rows, and nothing else.
LEMMA DeleteUserKeeps ==
    ASSUME EvidenceInv, NEW u \in Users, DeleteUser(u)
    PROVE  EvidenceInv'
  <1>1. /\ account' = account \ {u} /\ ~Referenced(u) /\ UNCHANGED <<disk, month, req>>
        /\ report' = [c \in Reports |-> IF report[c] # None /\ report[c].user = u
                                        THEN [report[c] EXCEPT !.user = None] ELSE report[c]]
        /\ evidence' = [p \in Paths |-> IF evidence[p] # None /\ evidence[p].by = u
                                        THEN [evidence[p] EXCEPT !.by = None] ELSE evidence[p]]
    BY DEF DeleteUser, FilesWithout
  <1>2. \A c \in Reports :
          /\ report[c] \in Report \cup {None}
          /\ report'[c] = IF report[c] # None /\ report[c].user = u
                          THEN [report[c] EXCEPT !.user = None] ELSE report[c]
    BY <1>1 DEF EvidenceInv, Typed, TypeOK
  <1>3. \A p \in Paths :
          /\ evidence[p] \in File \cup {None}
          /\ evidence'[p] = IF evidence[p] # None /\ evidence[p].by = u
                            THEN [evidence[p] EXCEPT !.by = None] ELSE evidence[p]
    BY <1>1 DEF EvidenceInv, Typed, TypeOK
  <1>4. ASSUME NEW c \in Reports
        PROVE  /\ report'[c] \in Report \cup {None} /\ (report'[c] = None <=> report[c] = None)
               /\ report[c] # None =>
                    /\ report'[c].month = report[c].month /\ report'[c].number = report[c].number
                    /\ report'[c].user = IF report[c].user = u THEN None ELSE report[c].user
    <2>1. None \notin Report
      BY EvidenceAssumption DEF Report
    <2>2. report[c] # None => /\ [report[c] EXCEPT !.user = None] \in Report
                              /\ [report[c] EXCEPT !.user = None].month = report[c].month
                              /\ [report[c] EXCEPT !.user = None].number = report[c].number
                              /\ [report[c] EXCEPT !.user = None].user = None
      BY <1>2 DEF Report
    <2>3. QED
      BY <1>2, <2>1, <2>2
  <1>5. ASSUME NEW p \in Paths
        PROVE  /\ evidence'[p] \in File \cup {None} /\ (evidence'[p] = None <=> evidence[p] = None)
               /\ evidence[p] # None =>
                    /\ evidence'[p].report = evidence[p].report /\ evidence'[p].size = evidence[p].size
                    /\ evidence[p].report \in Reports
                    /\ evidence'[p].by = IF evidence[p].by = u THEN None ELSE evidence[p].by
    <2>1. None \notin File
      BY EvidenceAssumption DEF File
    <2>2. evidence[p] # None => /\ [evidence[p] EXCEPT !.by = None] \in File
                                /\ [evidence[p] EXCEPT !.by = None].report = evidence[p].report
                                /\ [evidence[p] EXCEPT !.by = None].size = evidence[p].size
                                /\ [evidence[p] EXCEPT !.by = None].by = None
                                /\ evidence[p].report \in Reports
      BY <1>3 DEF File
    <2>3. QED
      BY <1>3, <2>1, <2>2
  <1>6. Typed'
    <2>1. report' \in [Reports -> Report \cup {None}] /\ evidence' \in [Paths -> File \cup {None}]
      BY <1>1, <1>4, <1>5
    <2>2. QED
      BY <1>1, <2>1 DEF EvidenceInv, Typed, TypeOK
  <1>7. NumbersInv'
    <2>1. ASSUME NEW m PROVE InMonth(m)' = InMonth(m) /\ \A n : Numbered(m, n)' = Numbered(m, n)
      BY <1>4 DEF InMonth, Numbered
    <2>2. NumbersContiguous'
      <3>1. SUFFICES ASSUME NEW m \in Months
                     PROVE  /\ {report'[c].number : c \in InMonth(m)'} = 1..Cardinality(InMonth(m)')
                            /\ \A c, d \in InMonth(m)' : report'[c].number = report'[d].number => c = d
        BY DEF NumbersContiguous
      <3>2. \A c \in InMonth(m) : report'[c].number = report[c].number
        BY <1>4 DEF InMonth
      <3>3. {report'[c].number : c \in InMonth(m)} = {report[c].number : c \in InMonth(m)}
        BY <3>2
      <3>4. QED
        BY <2>1, <3>2, <3>3 DEF EvidenceInv, NumbersInv, NumbersContiguous
    <2>3. ASSUME NEW s \in Requests PROVE NumberKept(s)'
      <3>1. PICK v : v = req[s]
        OBVIOUS
      <3>2. NumberKept(s) /\ (v.pc = "entered" => v.report \in Reports) /\ req' = req
        BY <1>1, <3>1 DEF EvidenceInv, NumbersInv, Typed, Shape, Entering
      <3>3. InMonth(v.month)' = InMonth(v.month) /\ Numbered(v.month, v.number)' = Numbered(v.month, v.number)
        BY <2>1
      <3>4. v.pc = "entered" => report'[v.report] = report[v.report] \/ report[v.report] # None
        BY <1>4, <3>2
      <3>5. QED
        BY <3>1, <3>2, <3>3, <3>4 DEF NumberKept, InMonth, Numbered, Entering
    <2>4. QED
      BY <2>2, <2>3 DEF NumbersInv
  <1>8. FilesInv'
    BY <1>1, <1>5 DEF EvidenceInv, FilesInv, PathKept, Typed, Shape
  <1>9. OwnersInv'
    <2>1. \A c \in Reports : report'[c] # None => report'[c].user \in account' \cup {None}
      BY <1>1, <1>4 DEF EvidenceInv, OwnersInv
    <2>2. EvidenceOfOwner'
      BY <1>4, <1>5 DEF EvidenceInv, OwnersInv, EvidenceOfOwner
    <2>3. ASSUME NEW s \in Requests PROVE OwnerKept(s)'
      <3>1. OwnerKept(s) /\ Shape(req[s]) /\ req' = req
        BY <1>1 DEF EvidenceInv, OwnersInv, Typed
      <3>2. req[s].pc \in {"entered", "attached"} => req[s].user # u
        BY <1>1 DEF Referenced
      <3>3. req[s].pc \in Uploading => req[s].report \in Reports
        BY <3>1 DEF Shape
      <3>4. QED
        BY <1>1, <1>4, <3>1, <3>2, <3>3 DEF OwnerKept
    <2>4. QED
      BY <2>1, <2>2, <2>3 DEF OwnersInv
  <1>10. QED
    BY <1>6, <1>7, <1>8, <1>9 DEF EvidenceInv

LEMMA RestKeeps ==
    ASSUME EvidenceInv, UNCHANGED <<account, report, evidence, disk, req>>, month' \in Months
    PROVE  EvidenceInv'
  <1>1. Typed' /\ FilesInv' /\ OwnersInv'
    BY DEF EvidenceInv, Typed, TypeOK, FilesInv, PathKept, OwnersInv, OwnerKept, EvidenceOfOwner
  <1>2. NumbersContiguous'
    BY DEF EvidenceInv, NumbersInv, NumbersContiguous, InMonth
  <1>3. \A r \in Requests : NumberKept(r)'
    BY DEF EvidenceInv, NumbersInv, NumberKept, InMonth, Numbered
  <1>4. QED
    BY <1>1, <1>2, <1>3 DEF EvidenceInv, NumbersInv

-----------------------------------------------------------------------------
(* The invariant                                                           *)

LEMMA InitInv == Init => EvidenceInv
  <1> SUFFICES ASSUME Init PROVE EvidenceInv
    OBVIOUS
  <1>1. Typed
    BY EvidenceAssumption, IdleRecord DEF Init, Typed, TypeOK, Months
  <1>2. NumbersInv
    <2>1. \A m : InMonth(m) = {}
      BY DEF Init, InMonth
    <2>2. Cardinality({}) = 0
      BY FS_EmptySet
    <2>3. ASSUME NEW m \in Months
          PROVE  /\ {report[c].number : c \in InMonth(m)} = 1..Cardinality(InMonth(m))
                 /\ \A c, d \in InMonth(m) : report[c].number = report[d].number => c = d
      <3>1. {report[c].number : c \in {}} = {} /\ 1..0 = {}
        OBVIOUS
      <3>2. QED
        BY <2>1, <2>2, <3>1
    <2>4. QED
      BY <2>3, IdleRecord DEF Init, NumbersInv, NumbersContiguous, NumberKept, Entering
  <1>3. FilesInv /\ OwnersInv
    BY IdleRecord DEF Init, FilesInv, PathKept, Storing, Uploading, OwnersInv, OwnerKept, EvidenceOfOwner
  <1>4. QED
    BY <1>1, <1>2, <1>3 DEF EvidenceInv

LEMMA NextInv == EvidenceInv /\ [Next]_vars => EvidenceInv'
  <1> SUFFICES ASSUME EvidenceInv, [Next]_vars PROVE EvidenceInv'
    OBVIOUS
  <1>1. ASSUME NEW r \in Requests, NEW u \in Users, CreateReport(r, u) PROVE EvidenceInv'
    BY <1>1, CreateKeeps
  <1>2. ASSUME NEW r \in Requests, NEW u \in Users, NEW c \in Reports, NEW n \in Sizes,
               UploadEvidence(r, u, c, n)
        PROVE  EvidenceInv'
    BY <1>2, UploadKeeps
  <1>3. ASSUME NEW r \in Requests, Step(r) PROVE EvidenceInv'
    BY <1>3, CountKeeps, EnterKeeps, CommitReportKeeps, OpenKeeps, WriteKeeps, AttachKeeps,
       CommitFileKeeps DEF Step
  <1>4. ASSUME NEW r \in Requests, Abort(r) PROVE EvidenceInv'
    BY <1>4, AbortKeeps
  <1>5. ASSUME NEW u \in Users, DeleteUser(u) PROVE EvidenceInv'
    BY <1>5, DeleteUserKeeps
  <1>6. CASE NextMonth
    <2>1. month' \in Months
      BY <1>6, EvidenceAssumption DEF NextMonth, EvidenceInv, Typed, TypeOK, Months
    <2>2. QED
      BY <1>6, <2>1, RestKeeps DEF NextMonth
  <1>7. CASE UNCHANGED vars
    BY <1>7, RestKeeps DEF vars, EvidenceInv, Typed, TypeOK
  <1>8. QED
    BY <1>1, <1>2, <1>3, <1>4, <1>5, <1>6, <1>7 DEF Next

\* EvidenceInv holds in every state: see its parts.
THEOREM EvidenceInvariant == Spec => []EvidenceInv
  BY InitInv, NextInv, PTL DEF Spec

\* The tables, the disk and the requests keep their types: in particular a month has
\* one count, so that a number is a positive integer (create_report, store_evidence).
THEOREM EvidenceTypeCorrect == Spec => []TypeOK
  <1>1. EvidenceInv => TypeOK
    BY DEF EvidenceInv, Typed
  <1>2. QED
    BY <1>1, EvidenceInvariant, PTL

\* The numbers of a month are 1, 2, ... without gap or double: a number that was
\* counted too early is taken, and the index refuses it (generate_report_number).
THEOREM NumbersAreContiguous == Spec => []NumbersContiguous
  <1>1. EvidenceInv => NumbersContiguous
    BY DEF EvidenceInv, NumbersInv
  <1>2. QED
    BY <1>1, EvidenceInvariant, PTL

\* A committed row names a file that was written to its end (process_evidence_upload,
\* store_evidence, download_evidence).
THEOREM FilesAreServed == Spec => []FilesServed
  <1>1. EvidenceInv => FilesServed
    <2>1. SUFFICES ASSUME EvidenceInv, NEW p \in Paths, evidence[p] # None, evidence[p].size # 0
                   PROVE  Served(p) = evidence[p].size
      BY DEF FilesServed
    <2>2. disk[p] = evidence[p].size /\ evidence[p].size \in Nat
      BY <2>1, EvidenceAssumption DEF EvidenceInv, FilesInv, Typed, TypeOK, File
    <2>3. QED
      BY <2>1, <2>2, EvidenceAssumption DEF Served
  <1>2. QED
    BY <1>1, EvidenceInvariant, PTL

\* Evidence keeps the user of its report, through deletions (the SET NULL of both
\* columns, and the checks of process_evidence_upload).
THEOREM EvidenceStaysWithOwner == Spec => []EvidenceOfOwner
  <1>1. EvidenceInv => EvidenceOfOwner
    BY DEF EvidenceInv, OwnersInv
  <1>2. QED
    BY <1>1, EvidenceInvariant, PTL

-----------------------------------------------------------------------------
(* The register                                                            *)

LEMMA RegisterInit == Init => Register!Init
  BY DEF Init, Register!Init

\* The two commits and the deletion are steps of the register; the rest is invisible.
LEMMA RegisterStep == EvidenceInv /\ [Next]_vars => [Register!Next]_Register!rvars
  <1> SUFFICES ASSUME EvidenceInv, [Next]_vars PROVE [Register!Next]_Register!rvars
    OBVIOUS
  <1>1. ASSUME UNCHANGED <<account, report, evidence>> PROVE [Register!Next]_Register!rvars
    BY <1>1 DEF Register!rvars
  <1>2. ASSUME NEW r \in Requests, CommitReport(r) PROVE Register!Next
    <2>q. req[r] \in Request
      BY DEF EvidenceInv, Typed, TypeOK
    <2> PICK q \in Request : q = req[r]
      BY <2>q
    <2>1. /\ q.pc = "entered" /\ q.report \in Reports /\ q.user \in Users /\ q.user \in account
          /\ q.month \in Months /\ report[q.report] = None
      BY <1>2 DEF CommitReport, EvidenceInv, Typed, Shape, Entering, NumbersInv, NumberKept,
             OwnersInv, OwnerKept
    <2>2. q.number = Cardinality(InMonth(q.month)) + 1
      BY <2>1, NextNumber
    <2>3. Register!InMonth(q.month) = InMonth(q.month)
      BY DEF InMonth, Register!InMonth
    <2>c. Register!Cardinality(InMonth(q.month)) = Cardinality(InMonth(q.month))
      BY DEF Register!Cardinality, Cardinality
    <2>4. report' = [report EXCEPT ![q.report] =
                       [user |-> q.user, month |-> q.month,
                        number |-> Register!Cardinality(Register!InMonth(q.month)) + 1]]
      BY <1>2, <2>2, <2>3, <2>c DEF CommitReport
    <2>5. Register!Enter(q.report, q.user, q.month)
      BY <1>2, <2>1, <2>4 DEF CommitReport, Register!Enter
    <2>6. QED
      BY <2>1, <2>5 DEF Register!Next
  <1>3. ASSUME NEW r \in Requests, CommitFile(r) PROVE Register!Next
    <2>q. req[r] \in Request
      BY DEF EvidenceInv, Typed, TypeOK
    <2> PICK q \in Request : q = req[r]
      BY <2>q
    <2>1. /\ q.path \in Paths /\ q.report \in Reports /\ q.size \in Sizes /\ evidence[q.path] = None
          /\ report[q.report] # None /\ report[q.report].user = q.user /\ q.user \in account
      BY <1>3 DEF CommitFile, EvidenceInv, Typed, Shape, Uploading, Storing, FilesInv, PathKept,
             OwnersInv, OwnerKept
    <2>2. Register!Attach(q.path, q.report, q.size)
      BY <1>3, <2>1 DEF CommitFile, Register!Attach
    <2>3. QED
      BY <2>1, <2>2 DEF Register!Next
  <1>4. ASSUME NEW u \in Users, DeleteUser(u) PROVE Register!Next
    BY <1>4 DEF DeleteUser, FilesWithout, Register!Next, Register!Forget
  <1>5. CASE UNCHANGED vars
    BY <1>1, <1>5 DEF vars
  <1>6. ASSUME NEW r \in Requests, Step(r) PROVE [Register!Next]_Register!rvars
    BY <1>1, <1>2, <1>3, <1>6
       DEF Step, CountReports, EnterReport, OpenFile, WriteFile, AttachFile
  <1>7. ASSUME NEW r \in Requests, NEW u \in Users,
               CreateReport(r, u) \/ \E c \in Reports, n \in Sizes : UploadEvidence(r, u, c, n)
        PROVE  [Register!Next]_Register!rvars
    BY <1>1, <1>7 DEF CreateReport, UploadEvidence
  <1>8. ASSUME NEW r \in Requests, Abort(r) PROVE [Register!Next]_Register!rvars
    BY <1>1, <1>8 DEF Abort
  <1>9. ASSUME NextMonth PROVE [Register!Next]_Register!rvars
    BY <1>1, <1>9 DEF NextMonth
  <1>10. QED
    BY <1>4, <1>5, <1>6, <1>7, <1>8, <1>9 DEF Next

\* The tables implement the register: a report has the number it would have had if it
\* had been counted and entered at once, and evidence is attached by the owner of its
\* report (create_report, process_evidence_upload, delete_mobile_user).
THEOREM RegisterImplemented == Spec => ImplementsRegister
  BY RegisterInit, RegisterStep, EvidenceInvariant, PTL DEF Spec, ImplementsRegister, Register!Spec

-----------------------------------------------------------------------------
(* What is entered stays: from the steps of the register                   *)

LEMMA RegisterKeeps ==
    ASSUME EvidenceInv, [Next]_vars
    PROVE  /\ \A c \in Reports : report[c] # None =>
                report'[c] \in {report[c], [report[c] EXCEPT !.user = None]}
           /\ \A p \in Paths : evidence[p] # None =>
                evidence'[p] \in {evidence[p], [evidence[p] EXCEPT !.by = None]}
  <1>1. report \in [Reports -> Report \cup {None}] /\ evidence \in [Paths -> File \cup {None}]
    BY DEF EvidenceInv, Typed, TypeOK
  <1>2. ASSUME NEW c \in Reports, NEW u \in Users, NEW m \in Months, Register!Enter(c, u, m)
        PROVE  evidence' = evidence /\ \A d \in Reports : report[d] # None => report'[d] = report[d]
    BY <1>1, <1>2 DEF Register!Enter
  <1>3. ASSUME NEW p \in Paths, NEW c \in Reports, NEW n \in Sizes, Register!Attach(p, c, n)
        PROVE  report' = report /\ \A q \in Paths : evidence[q] # None => evidence'[q] = evidence[q]
    BY <1>1, <1>3 DEF Register!Attach
  <1> QED BY <1>2, <1>3, RegisterStep DEF Register!Next, Register!Forget, Register!rvars

\* No step takes back or changes an entry, the name of its user apart, or the file
\* that an entry names.
EntriesStay ==
    [][/\ \A c \in Reports : report[c] # None =>
            report'[c] \in {report[c], [report[c] EXCEPT !.user = None]}
       /\ \A p \in Paths : evidence[p] # None =>
            /\ evidence'[p] \in {evidence[p], [evidence[p] EXCEPT !.by = None]}
            /\ disk'[p] = disk[p]]_vars

\* A report keeps its number and month, a row of evidence its report and its bytes: no
\* later upload, however it fails, writes to a file that a row names (store_evidence,
\* delete_mobile_user).
THEOREM EvidenceEntriesStay == Spec => EntriesStay
  <1>1. ASSUME EvidenceInv, [Next]_vars, NEW p \in Paths, evidence[p] # None
        PROVE  disk'[p] = disk[p]
    <2>1. disk[p] # None
      BY <1>1, EvidenceAssumption DEF EvidenceInv, FilesInv, Typed, TypeOK, File
    <2>2. ASSUME NEW r \in Requests, req[r].pc = "write"
          PROVE  req[r].path # p
      BY <1>1, <2>2 DEF EvidenceInv, FilesInv, PathKept, Storing
    <2>3. disk \in [Paths -> Nat \cup {None}]
      BY <1>1 DEF EvidenceInv, Typed, TypeOK
    <2>4. ASSUME NEW r \in Requests, OpenFile(r)
          PROVE  disk'[p] = disk[p]
      BY <2>1, <2>3, <2>4 DEF OpenFile
    <2>5. ASSUME NEW r \in Requests, WriteFile(r) \/ Abort(r)
          PROVE  disk'[p] = disk[p]
      BY <2>2, <2>3, <2>5 DEF WriteFile, Abort
    <2> QED BY <1>1, <2>4, <2>5 DEF Next, Step, CreateReport, UploadEvidence, CountReports, EnterReport,
         CommitReport, AttachFile, CommitFile, DeleteUser, NextMonth, vars
  <1>2. EvidenceInv /\ [Next]_vars =>
          [/\ \A c \in Reports : report[c] # None =>
                report'[c] \in {report[c], [report[c] EXCEPT !.user = None]}
           /\ \A p \in Paths : evidence[p] # None =>
                /\ evidence'[p] \in {evidence[p], [evidence[p] EXCEPT !.by = None]}
                /\ disk'[p] = disk[p]]_vars
    BY <1>1, RegisterKeeps
  <1> QED BY <1>2, EvidenceInvariant, PTL DEF Spec, EntriesStay

-----------------------------------------------------------------------------
(* Every request ends                                                      *)

\* tlapm proves nothing of WF, SF and ENABLED, so the fairness of FairSpec is
\* stated once more with the guard of each action where WF and SF say ENABLED.
\* Admitted(r) is when EnterReport(r) can be taken, Ready(r) when Step(r) or
\* Fails(r) can: OpenFile and AttachFile fail where they cannot succeed.
IdLeft == \E c \in Reports : Fresh(c)

Admitted(r) ==
    /\ req[r].pc = "enter"
    /\ UserExists(req[r].user)
    /\ UniqueNumber(req[r].month, req[r].number)
    /\ IdLeft

Ready(r) ==
    \/ req[r].pc \in {"count", "entered", "open", "write", "attach", "attached"}
    \/ req[r].pc = "enter" /\ (Doomed(r) \/ Exhausted(r) \/ Admitted(r))

\* WF_vars(Step(r) \/ Fails(r)) and SF_vars(EnterReport(r)).
Runs(r) == []<>~Ready(r) \/ []<><<Step(r) \/ Fails(r)>>_vars
Turn(r) == <>[]~Admitted(r) \/ []<><<EnterReport(r)>>_vars

\* The event loop runs every request, and the index admits its waiters in turn.
Fair    == \A r \in Requests : Runs(r) /\ Turn(r)
Service == []Fair

\* Random ids do not run out (the bound of the model that Exhausted is about).
IdsLast == []IdLeft

\* A behaviour of the specification under these, seen from any moment on.
Always == []EvidenceInv /\ [][Next]_vars /\ Service /\ IdsLast

At(r, c)       == req[r].pc = c
Ended(r)       == req[r].pc = "idle"
Waits(r, m, n) == req[r].pc = "enter" /\ req[r].month = m /\ req[r].number = n
Holds(s, m, n) == req[s].pc = "entered" /\ req[s].month = m /\ req[s].number = n

LEMMA SpecAlways == Spec /\ Service /\ IdsLast => Always
  BY EvidenceInvariant, PTL DEF Spec, Always

LEMMA AlwaysAlways == Always => []Always
  BY PTL DEF Always, Service, IdsLast

LEMMA Granted == ASSUME NEW s \in Requests PROVE Service => Runs(s) /\ Turn(s)
  <1>1. Fair => Runs(s) /\ Turn(s)
    BY DEF Fair
  <1>2. QED
    BY <1>1, PTL DEF Service

\* Where each step takes its request.
LEMMA StepGoes ==
    ASSUME EvidenceInv, NEW r \in Requests, Step(r)
    PROVE  \/ At(r, "count") /\ At(r, "enter")'
           \/ At(r, "enter") /\ At(r, "entered")'
           \/ At(r, "entered") /\ Ended(r)'
           \/ At(r, "open") /\ At(r, "write")'
           \/ At(r, "write") /\ At(r, "attach")'
           \/ At(r, "attach") /\ At(r, "attached")'
           \/ At(r, "attached") /\ Ended(r)'
  <1>1. req \in [Requests -> Request]
    BY DEF EvidenceInv, Typed, TypeOK
  <1>2. CASE CountReports(r)
    BY <1>1, <1>2 DEF CountReports, At, Request
  <1>3. CASE EnterReport(r)
    BY <1>1, <1>3 DEF EnterReport, At, Request
  <1>4. CASE CommitReport(r) \/ CommitFile(r)
    BY <1>1, <1>4 DEF CommitReport, CommitFile, At, Ended, Idle
  <1>5. CASE OpenFile(r)
    BY <1>1, <1>5 DEF OpenFile, At, Request
  <1>6. CASE WriteFile(r) \/ AttachFile(r)
    BY <1>1, <1>6 DEF WriteFile, AttachFile, At, Request
  <1>7. QED
    BY <1>2, <1>3, <1>4, <1>5, <1>6 DEF Step

\* No step moves two requests.
LEMMA Lone ==
    ASSUME EvidenceInv, NEW r \in Requests, NEW s \in Requests, r # s, [Next]_vars,
           req'[s] # req[s]
    PROVE  req'[r] = req[r]
  <1>1. req \in [Requests -> Request]
    BY DEF EvidenceInv, Typed, TypeOK
  <1>2. ASSUME NEW p \in Requests, NEW x, req' = [req EXCEPT ![p] = x] PROVE req'[r] = req[r]
    BY <1>1, <1>2
  <1>3. ASSUME NEW p \in Requests, Step(p) \/ Abort(p) PROVE \E x : req' = [req EXCEPT ![p] = x]
    BY <1>3 DEF Step, CountReports, EnterReport, CommitReport, OpenFile, WriteFile,
       AttachFile, CommitFile, Abort
  <1>4. ASSUME NEW p \in Requests, NEW u \in Users,
               CreateReport(p, u) \/ \E c \in Reports, n \in Sizes : UploadEvidence(p, u, c, n)
        PROVE  \E x : req' = [req EXCEPT ![p] = x]
    BY <1>4 DEF CreateReport, UploadEvidence
  <1>5. ASSUME (\E u \in Users : DeleteUser(u)) \/ NextMonth \/ UNCHANGED vars
        PROVE  req' = req
    BY <1>5 DEF DeleteUser, NextMonth, vars
  <1>6. QED
    BY <1>2, <1>3, <1>4, <1>5 DEF Next

\* A request in progress stays where it is, takes its step or is over.
LEMMA Progress ==
    ASSUME EvidenceInv, NEW r \in Requests, [Next]_vars, ~Ended(r)
    PROVE  \/ req'[r] = req[r]
           \/ Step(r) \/ Ended(r)'
  <1>1. req \in [Requests -> Request]
    BY DEF EvidenceInv, Typed, TypeOK
  <1>2. ASSUME NEW s \in Requests, s # r, Step(s) \/ Abort(s) PROVE req'[r] = req[r]
    BY <1>1, <1>2 DEF Step, CountReports, EnterReport, CommitReport, OpenFile, WriteFile,
       AttachFile, CommitFile, Abort
  <1>3. ASSUME NEW s \in Requests, NEW u \in Users,
               CreateReport(s, u) \/ \E c \in Reports, n \in Sizes : UploadEvidence(s, u, c, n)
        PROVE  req'[r] = req[r]
    <2>0. req[s] = Idle
      BY <1>3 DEF CreateReport, UploadEvidence
    <2>1. req[s].pc = "idle"
      BY <2>0, IdleRecord
    <2>2. \E x : req' = [req EXCEPT ![s] = x]
      BY <1>3 DEF CreateReport, UploadEvidence
    <2>3. QED
      BY <1>1, <2>1, <2>2 DEF Ended
  <1>4. Abort(r) => Ended(r)'
    BY <1>1 DEF Abort, Ended, Idle
  <1>5. ASSUME (\E u \in Users : DeleteUser(u)) \/ NextMonth \/ UNCHANGED vars
        PROVE  req' = req
    BY <1>5 DEF DeleteUser, NextMonth, vars
  <1>6. QED
    BY <1>2, <1>3, <1>4, <1>5 DEF Next

\* A request leaves every stage but the wait for the index by itself.
Moving == {"count", "entered", "open", "write", "attach", "attached"}

Passes(r, c) == At(r, c) ~> ~At(r, c)

LEMMA StageEnds ==
    ASSUME NEW r \in Requests, NEW c \in Moving
    PROVE  Always => Passes(r, c)
  <1>1. At(r, c) => Ready(r)
    BY DEF At, Ready, Moving
  <1>2. EvidenceInv /\ At(r, c) /\ <<Step(r) \/ Fails(r)>>_vars => ~At(r, c)'
    <2> SUFFICES ASSUME EvidenceInv, At(r, c), Step(r) \/ Fails(r) PROVE ~At(r, c)'
      OBVIOUS
    <2>1. Fails(r) => Ended(r)'
      BY DEF Fails, Abort, EvidenceInv, Typed, TypeOK, Ended, Idle
    <2>2. QED
      BY <2>1, StepGoes DEF At, Ended, Moving
  <1>3. Service => Runs(r)
    BY Granted
  <1>4. QED
    BY <1>1, <1>2, <1>3, PTL DEF Always, Runs, Passes

\* What may come after a stage.
LEMMA StageGoes ==
    ASSUME NEW r \in Requests
    PROVE  /\ EvidenceInv /\ [Next]_vars /\ At(r, "count")
                => (At(r, "count") \/ At(r, "enter") \/ Ended(r))'
           /\ EvidenceInv /\ [Next]_vars /\ At(r, "enter")
                => (At(r, "enter") \/ At(r, "entered") \/ Ended(r))'
           /\ EvidenceInv /\ [Next]_vars /\ At(r, "entered") => (At(r, "entered") \/ Ended(r))'
           /\ EvidenceInv /\ [Next]_vars /\ At(r, "open")
                => (At(r, "open") \/ At(r, "write") \/ Ended(r))'
           /\ EvidenceInv /\ [Next]_vars /\ At(r, "write")
                => (At(r, "write") \/ At(r, "attach") \/ Ended(r))'
           /\ EvidenceInv /\ [Next]_vars /\ At(r, "attach")
                => (At(r, "attach") \/ At(r, "attached") \/ Ended(r))'
           /\ EvidenceInv /\ [Next]_vars /\ At(r, "attached")
                => (At(r, "attached") \/ Ended(r))'
  <1>1. ASSUME EvidenceInv, [Next]_vars, ~Ended(r)
        PROVE  req'[r] = req[r] \/ Step(r) \/ Ended(r)'
    BY <1>1, Progress
  <1>2. QED
    BY <1>1, StepGoes DEF At, Ended

\* An upload, and an insertion the index has admitted, end without waiting.
Stores(r)   == req[r].pc \in {"open", "write", "attach", "attached", "entered"}
Finishes(r) == Stores(r) ~> Ended(r)

LEMMA UploadsEnd == ASSUME NEW r \in Requests PROVE Always => Finishes(r)
  <1>1. Always => (At(r, "attached") ~> Ended(r))
    <2>1. Always => Passes(r, "attached")
      BY StageEnds DEF Moving
    <2>2. EvidenceInv /\ [Next]_vars /\ At(r, "attached") => At(r, "attached")' \/ Ended(r)'
      BY StageGoes
    <2>3. QED
      BY <2>1, <2>2, PTL DEF Always, Passes
  <1>2. Always => (At(r, "attach") ~> Ended(r))
    <2>1. Always => Passes(r, "attach")
      BY StageEnds DEF Moving
    <2>2. EvidenceInv /\ [Next]_vars /\ At(r, "attach")
            => At(r, "attach")' \/ At(r, "attached")' \/ Ended(r)'
      BY StageGoes
    <2>3. QED
      BY <1>1, <2>1, <2>2, PTL DEF Always, Passes
  <1>3. Always => (At(r, "write") ~> Ended(r))
    <2>1. Always => Passes(r, "write")
      BY StageEnds DEF Moving
    <2>2. EvidenceInv /\ [Next]_vars /\ At(r, "write")
            => At(r, "write")' \/ At(r, "attach")' \/ Ended(r)'
      BY StageGoes
    <2>3. QED
      BY <1>2, <2>1, <2>2, PTL DEF Always, Passes
  <1>4. Always => (At(r, "open") ~> Ended(r))
    <2>1. Always => Passes(r, "open")
      BY StageEnds DEF Moving
    <2>2. EvidenceInv /\ [Next]_vars /\ At(r, "open")
            => At(r, "open")' \/ At(r, "write")' \/ Ended(r)'
      BY StageGoes
    <2>3. QED
      BY <1>3, <2>1, <2>2, PTL DEF Always, Passes
  <1>5. Always => (At(r, "entered") ~> Ended(r))
    <2>1. Always => Passes(r, "entered")
      BY StageEnds DEF Moving
    <2>2. EvidenceInv /\ [Next]_vars /\ At(r, "entered") => At(r, "entered")' \/ Ended(r)'
      BY StageGoes
    <2>3. QED
      BY <2>1, <2>2, PTL DEF Always, Passes
  <1>6. Stores(r) => \/ At(r, "open") \/ At(r, "write") \/ At(r, "attach")
                     \/ At(r, "attached") \/ At(r, "entered")
    BY DEF Stores, At
  <1>7. QED
    BY <1>1, <1>2, <1>3, <1>4, <1>5, <1>6, PTL DEF Finishes

\* A creation that is bound to fail is over in the end: a number that is taken stays
\* taken, and an account does not come back.
Refused(r) == req[r].pc = "enter" /\ Doomed(r)
GivesUp(r) == Refused(r) ~> Ended(r)

LEMMA NumbersStay ==
    ASSUME EvidenceInv, [Next]_vars, NEW m \in Months, NEW n \in Nat, Numbered(m, n) # {}
    PROVE  Numbered(m, n)' # {}
  <1>1. [Register!Next]_Register!rvars
    BY RegisterStep
  <1>2. PICK c \in Reports : report[c] # None /\ report[c].month = m /\ report[c].number = n
    BY DEF Numbered, InMonth
  <1>3. report' \in [Reports -> Report \cup {None}]
    BY NextInv DEF EvidenceInv, Typed, TypeOK
  <1>4. report'[c] # None /\ report'[c].month = m /\ report'[c].number = n
    <2>0. report \in [Reports -> Report \cup {None}] /\ report[c] \in Report
      BY <1>2 DEF EvidenceInv, Typed, TypeOK
    <2>1. CASE UNCHANGED report
      BY <1>2, <2>1
    <2>2. ASSUME NEW u \in Users, DeleteUser(u) PROVE report'[c] # None /\ report'[c].month = m /\ report'[c].number = n
      <3>1. [report[c] EXCEPT !.user = None] \in Report
        BY <2>0 DEF Report
      <3>2. None \notin Report
        BY EvidenceAssumption DEF Report
      <3>3. report'[c] \in {report[c], [report[c] EXCEPT !.user = None]}
        BY <2>2 DEF DeleteUser
      <3>4. QED
        BY <1>2, <2>0, <3>1, <3>2, <3>3 DEF Report
    <2>3. ASSUME NEW s \in Requests, CommitReport(s) PROVE report'[c] = report[c]
      <3>1. report[req[s].report] = None
        BY <2>3 DEF CommitReport, EvidenceInv, NumbersInv, NumberKept
      <3>2. QED
        BY <1>2, <2>0, <2>3, <3>1 DEF CommitReport
    <2>4. QED
      BY <1>2, <2>1, <2>2, <2>3 DEF Next, Step, CreateReport, UploadEvidence, CountReports,
         EnterReport, OpenFile, WriteFile, AttachFile, CommitFile, Abort, NextMonth, vars
  <1>5. QED
    BY <1>4 DEF Numbered, InMonth

LEMMA RefusedEnds == ASSUME NEW r \in Requests PROVE Always => GivesUp(r)
  <1>1. EvidenceInv /\ [Next]_vars /\ Refused(r) => Refused(r)' \/ Ended(r)'
    <2> SUFFICES ASSUME EvidenceInv, [Next]_vars, Refused(r) PROVE Refused(r)' \/ Ended(r)'
      OBVIOUS
    <2>1. ~Step(r)
      BY DEF Refused, Doomed, Step, CountReports, EnterReport, CommitReport, OpenFile, WriteFile,
         AttachFile, CommitFile, UniqueNumber
    <2>2. req'[r] = req[r] \/ Ended(r)'
      BY <2>1, Progress DEF Refused, Ended
    <2>3. account' \subseteq account
      BY DEF Next, Step, CreateReport, UploadEvidence, CountReports, EnterReport, CommitReport,
         OpenFile, WriteFile, AttachFile, CommitFile, Abort, DeleteUser, NextMonth, vars
    <2>4. req[r].month \in Months /\ req[r].number \in Nat
      BY DEF Refused, EvidenceInv, Typed, Shape, Entering
    <2>5. Numbered(req[r].month, req[r].number) # {}
            => Numbered(req[r].month, req[r].number)' # {} \/ req'[r] # req[r]
      <3> PICK m \in Months, n \in Nat : m = req[r].month /\ n = req[r].number
        BY <2>4
      <3>1. Numbered(m, n) # {} => Numbered(m, n)' # {}
        BY NumbersStay
      <3>2. QED
        BY <3>1 DEF Numbered, InMonth
    <2>6. req'[r] = req[r] => Refused(r)'
      BY <2>3, <2>5 DEF Refused, Doomed, UserExists
    <2>7. QED
      BY <2>2, <2>6
  <1>2. EvidenceInv /\ Refused(r) /\ <<Step(r) \/ Fails(r)>>_vars => Ended(r)'
    <2> SUFFICES ASSUME EvidenceInv, Refused(r), Step(r) \/ Fails(r) PROVE Ended(r)'
      OBVIOUS
    <2>1. ~Step(r)
      BY DEF Refused, Doomed, Step, CountReports, EnterReport, CommitReport, OpenFile, WriteFile,
         AttachFile, CommitFile, UniqueNumber
    <2>2. QED
      BY <2>1 DEF Fails, Abort, EvidenceInv, Typed, TypeOK, Ended, Idle
  <1>3. Refused(r) => Ready(r)
    BY DEF Refused, Ready
  <1>4. Service => Runs(r)
    BY Granted
  <1>5. QED
    BY <1>1, <1>2, <1>3, <1>4, PTL DEF Always, Runs, GivesUp

\* A number that is being inserted is inserted by one request, which waits for nothing.
Freed(m, n) == Pending(m, n) ~> ~Pending(m, n)

LEMMA NumbersAreReleased ==
    ASSUME NEW m \in Months, NEW n \in Nat PROVE Always => Freed(m, n)
  <1>1. ASSUME NEW s \in Requests PROVE Always => (Holds(s, m, n) => <>~Pending(m, n))
    <2>1. EvidenceInv /\ [Next]_vars /\ Holds(s, m, n) => Holds(s, m, n)' \/ ~Pending(m, n)'
      <3> SUFFICES ASSUME EvidenceInv, [Next]_vars, Holds(s, m, n), Pending(m, n)'
                   PROVE  Holds(s, m, n)'
        OBVIOUS
      <3>1. PICK p \in Requests :
              req'[p].pc = "entered" /\ req'[p].month = m /\ req'[p].number = n
        BY DEF Pending
      <3>2. CASE p = s
        BY <3>1, <3>2 DEF Holds
      <3>3. CASE p # s
        <4>1. EvidenceInv'
          BY NextInv
        <4>2. req'[s] = req[s] \/ Step(s) \/ Ended(s)'
          BY Progress DEF Holds, Ended
        <4>3. Step(s) => Ended(s)'
          BY StepGoes DEF Holds, At
        <4>4. ~(EvidenceInv' /\ req'[s] = req[s])
          BY <3>1, <3>3 DEF EvidenceInv, NumbersInv, NumberKept, Holds
        <4>5. Ended(s)' => req'[p] = req[p]
          BY <3>3, Lone DEF Holds, Ended
        <4>6. req[p].pc = "entered" /\ req[p].month = m /\ req[p].number = n
          BY <3>1, <4>1, <4>2, <4>3, <4>4, <4>5
        <4>7. QED
          BY <3>3, <4>6 DEF EvidenceInv, NumbersInv, NumberKept, Holds
      <3>4. QED
        BY <3>2, <3>3
    <2>2. Holds(s, m, n) => Stores(s)
      BY DEF Holds, Stores
    <2>3. Ended(s) => ~Holds(s, m, n)
      BY DEF Ended, Holds
    <2>4. Always => Finishes(s)
      BY UploadsEnd
    <2>5. QED
      BY <2>1, <2>2, <2>3, <2>4, PTL DEF Always, Finishes
  <1>2. Always => (Pending(m, n) => <>~Pending(m, n))
    BY <1>1 DEF Pending, Holds
  <1>3. QED
    BY <1>2, AlwaysAlways, PTL DEF Freed

\* Who waits for a number gets it in turn, or finds it taken.
LEMMA WaitEnds ==
    ASSUME NEW r \in Requests, NEW m \in Months, NEW n \in Nat
    PROVE  Always => (Waits(r, m, n) => <>Ended(r))
  <1>1. EvidenceInv /\ [Next]_vars /\ Waits(r, m, n) => Waits(r, m, n)' \/ Stores(r)' \/ Ended(r)'
    <2> SUFFICES ASSUME EvidenceInv, [Next]_vars, Waits(r, m, n)
                 PROVE  Waits(r, m, n)' \/ Stores(r)' \/ Ended(r)'
      OBVIOUS
    <2>1. req'[r] = req[r] \/ Step(r) \/ Ended(r)'
      BY Progress DEF Waits, Ended
    <2>2. Step(r) => Stores(r)'
      BY StepGoes DEF Waits, At, Stores
    <2>3. QED
      BY <2>1, <2>2 DEF Waits
  <1>2. EvidenceInv /\ Waits(r, m, n) /\ <<EnterReport(r)>>_vars => Stores(r)'
    BY DEF EvidenceInv, Typed, TypeOK, Request, EnterReport, Stores
  <1>3. Waits(r, m, n) /\ ~Pending(m, n) /\ IdLeft => Admitted(r) \/ Refused(r)
    BY DEF Waits, Admitted, Refused, Doomed, UniqueNumber
  <1>4. Stores(r) => ~Waits(r, m, n)
    BY DEF Stores, Waits
  <1>5. Always => Freed(m, n)
    BY NumbersAreReleased
  <1>6. Always => Finishes(r)
    BY UploadsEnd
  <1>7. Always => GivesUp(r)
    BY RefusedEnds
  <1>8. Service => Turn(r)
    BY Granted
  <1>9. QED
    BY <1>1, <1>2, <1>3, <1>4, <1>5, <1>6, <1>7, <1>8, PTL
       DEF Always, IdsLast, Turn, Finishes, Freed, GivesUp

\* Every request ends, a creation that waits for the number of another too: it gets
\* the number when the other rolls back, and is refused when the other commits.  The
\* ids of reports are random and do not run out.
THEOREM EvidenceRequestsEnd == Spec /\ Service /\ IdsLast => RequestsEnd
  <1> SUFFICES ASSUME NEW r \in Requests
               PROVE  Spec /\ Service /\ IdsLast => (req[r].pc # "idle" ~> req[r].pc = "idle")
    BY DEF RequestsEnd
  <1>1. Always => (At(r, "enter") /\ EvidenceInv => <>Ended(r))
    <2>1. At(r, "enter") /\ EvidenceInv => \E m \in Months, n \in Nat : Waits(r, m, n)
      BY DEF At, EvidenceInv, Typed, Shape, Entering, Waits
    <2>2. \A m \in Months, n \in Nat : Always => (Waits(r, m, n) => <>Ended(r))
      BY WaitEnds
    <2>3. QED
      BY <2>1, <2>2
  <1>2. Always => (At(r, "count") ~> At(r, "enter") \/ Ended(r))
    <2>1. Always => Passes(r, "count")
      BY StageEnds DEF Moving
    <2>2. EvidenceInv /\ [Next]_vars /\ At(r, "count")
            => At(r, "count")' \/ At(r, "enter")' \/ Ended(r)'
      BY StageGoes
    <2>3. QED
      BY <2>1, <2>2, PTL DEF Always, Passes
  <1>3. Always => Finishes(r)
    BY UploadsEnd
  <1>4. EvidenceInv => At(r, "count") \/ At(r, "enter") \/ Stores(r) \/ Ended(r)
    BY DEF EvidenceInv, Typed, TypeOK, Request, At, Stores, Ended
  <1>5. req[r].pc = "idle" <=> Ended(r)
    BY DEF Ended
  <1>6. QED
    BY <1>1, <1>2, <1>3, <1>4, <1>5, SpecAlways, AlwaysAlways, PTL DEF Finishes, Always
=============================================================================
