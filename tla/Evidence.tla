------------------------------ MODULE Evidence ------------------------------
(***************************************************************************)
(* Incident reports and their evidence: reporting_service, the tables      *)
(* incident_reports and evidence_files, and the directory of uploads.      *)
(*                                                                         *)
(* The disk is outside the transaction: a file is opened, written, then    *)
(* named by a row, and stays when the request fails.  A report number is a *)
(* count read before the insertion.                                        *)
(***************************************************************************)
EXTENDS Naturals, FiniteSets

CONSTANTS Users,     \* survivors
          Reports,   \* the ids reports may draw
          Paths,     \* the storage paths uploads may draw: date, uuid, hash
          Sizes,     \* numbers of bytes of an upload, 0 among them
          Requests,  \* HTTP requests that can be in progress at once
          MaxMonth,  \* the months that pass: 1..MaxMonth
          None       \* SQL NULL, a missing row or file

Months == 1..MaxMonth

ASSUME EvidenceAssumption ==
    /\ IsFiniteSet(Reports)
    /\ MaxMonth \in Nat \ {0}
    /\ Sizes \subseteq Nat
    /\ None \notin Users \cup Reports \cup Paths \cup Nat
    /\ None \notin [user: Users \cup {None}, month: Months, number: Nat]
    /\ None \notin [report: Reports, by: Users \cup {None}, size: Sizes]

VARIABLES account,  \* committed users
          report,   \* committed incident_reports
          evidence, \* committed evidence_files, each under the path it names
          disk,     \* the bytes of each file under upload_dir
          month,    \* what datetime.utcnow() says
          req       \* the requests in progress

vars == <<account, report, evidence, disk, month, req>>

Report == [user: Users \cup {None}, month: Months, number: Nat \ {0}]
File   == [report: Reports, by: Users \cup {None}, size: Sizes]

Request ==
    [pc: {"idle", "count", "enter", "entered", "open", "write", "attach", "attached"},
     user: Users \cup {None}, report: Reports \cup {None}, month: Months \cup {None},
     number: Nat \cup {None}, path: Paths \cup {None}, size: Sizes \cup {None}]

Idle == [pc |-> "idle", user |-> None, report |-> None, month |-> None,
         number |-> None, path |-> None, size |-> None]

TypeOK ==
    /\ account \subseteq Users
    /\ report \in [Reports -> Report \cup {None}]
    /\ evidence \in [Paths -> File \cup {None}]
    /\ disk \in [Paths -> Nat \cup {None}]
    /\ month \in Months
    /\ req \in [Requests -> Request]

Init ==
    /\ account = Users
    /\ report = [c \in Reports |-> None]
    /\ evidence = [p \in Paths |-> None]
    /\ disk = [p \in Paths |-> None]
    /\ month = 1
    /\ req = [r \in Requests |-> Idle]

-----------------------------------------------------------------------------
(* PostgreSQL                                                              *)

\* The row user_id and uploaded_by refer to is locked until the insertion ends.
Referenced(u) == \E r \in Requests : req[r].pc \in {"entered", "attached"} /\ req[r].user = u

\* Faulty: the column refers to nothing.
AnyUser(u) == TRUE

\* The foreign key of an insertion.
UserExists(u) == u \in account

\* The reports whose number has the prefix of month m.
InMonth(m) == {c \in Reports : report[c] # None /\ report[c].month = m}

Numbered(m, n) == {c \in InMonth(m) : report[c].number = n}

\* An insertion of the same number has not ended yet.
Pending(m, n) == \E r \in Requests : req[r].pc = "entered" /\ req[r].month = m /\ req[r].number = n

\* Faulty: the index is not unique.
AnyNumber(m, n) == TRUE

\* ix_incident_reports_report_number: an insertion waits for one of the same number.
UniqueNumber(m, n) == Numbered(m, n) = {} /\ ~Pending(m, n)

-----------------------------------------------------------------------------
(* create_report                                                           *)

\* Month m has passed.
NextMonth ==
    /\ month < MaxMonth
    /\ month' = month + 1
    /\ UNCHANGED <<account, report, evidence, disk, req>>

\* get_current_user; the prefix is taken from the clock, and the count is awaited.
CreateReport(r, u) ==
    /\ req[r] = Idle
    /\ u \in account
    /\ req' = [req EXCEPT ![r] = [Idle EXCEPT !.pc = "count", !.user = u, !.month = month]]
    /\ UNCHANGED <<account, report, evidence, disk, month>>

\* Faulty: the count itself.
CountOf(m) == Cardinality(InMonth(m))

\* generate_report_number, for the prefix of month m.
NumberOf(m) == Cardinality(InMonth(m)) + 1

CountReports(r) ==
    /\ req[r].pc = "count"
    /\ req' = [req EXCEPT ![r].pc = "enter", ![r].number = NumberOf(req[r].month)]
    /\ UNCHANGED <<account, report, evidence, disk, month>>

\* An id nobody has seen: those of insertions rolled back may be drawn again.
Fresh(c) == report[c] = None /\ \A r \in Requests : req[r].pc = "entered" => req[r].report # c

EnterReport(r) ==
    /\ req[r].pc = "enter"
    /\ UserExists(req[r].user)
    /\ UniqueNumber(req[r].month, req[r].number)
    /\ \E c \in Reports : Fresh(c) /\ req' = [req EXCEPT ![r].pc = "entered", ![r].report = c]
    /\ UNCHANGED <<account, report, evidence, disk, month>>

CommitReport(r) ==
    LET q == req[r] IN
    /\ q.pc = "entered"
    /\ report' = [report EXCEPT ![q.report] = [user |-> q.user, month |-> q.month, number |-> q.number]]
    /\ req' = [req EXCEPT ![r] = Idle]
    /\ UNCHANGED <<account, evidence, disk, month>>

-----------------------------------------------------------------------------
(* process_evidence_upload                                                 *)

OwnReport(c, u) == report[c] # None /\ report[c].user = u

\* The user and the report are read in turn; a user deleted in between has no report,
\* so that one step does.  Any other upload is refused here, before anything is stored.
UploadEvidence(r, u, c, n) ==
    /\ req[r] = Idle
    /\ u \in account
    /\ OwnReport(c, u)
    /\ req' = [req EXCEPT ![r] = [Idle EXCEPT !.pc = "open", !.user = u, !.report = c, !.size = n]]
    /\ UNCHANGED <<account, report, evidence, disk, month>>

\* store_evidence: the file is there, and empty.
OpenFile(r) ==
    /\ req[r].pc = "open"
    /\ \E p \in Paths :
         /\ disk[p] = None
         /\ disk' = [disk EXCEPT ![p] = 0]
         /\ req' = [req EXCEPT ![r].pc = "write", ![r].path = p]
    /\ UNCHANGED <<account, report, evidence, month>>

\* Faulty: the write is not awaited.
BytesBuffered(q) == 0

BytesWritten(q) == q.size

WriteFile(r) ==
    /\ req[r].pc = "write"
    /\ disk' = [disk EXCEPT ![req[r].path] = BytesWritten(req[r])]
    /\ req' = [req EXCEPT ![r].pc = "attach"]
    /\ UNCHANGED <<account, report, evidence, month>>

\* The row of the file.  Reports are never deleted, so that its report is there.
AttachFile(r) ==
    /\ req[r].pc = "attach"
    /\ UserExists(req[r].user)
    /\ req' = [req EXCEPT ![r].pc = "attached"]
    /\ UNCHANGED <<account, report, evidence, disk, month>>

CommitFile(r) ==
    LET q == req[r] IN
    /\ q.pc = "attached"
    /\ evidence' = [evidence EXCEPT ![q.path] = [report |-> q.report, by |-> q.user, size |-> q.size]]
    /\ req' = [req EXCEPT ![r] = Idle]
    /\ UNCHANGED <<account, report, disk, month>>

-----------------------------------------------------------------------------
(* Failures, and deletion                                                  *)

\* The request failed or its process died: the transaction is rolled back, the file
\* is not removed, and has what was written of it.
Abort(r) ==
    /\ req[r].pc # "idle"
    /\ \/ req[r].pc # "write" /\ disk' = disk
       \/ req[r].pc = "write" /\ \E n \in 0..req[r].size : disk' = [disk EXCEPT ![req[r].path] = n]
    /\ req' = [req EXCEPT ![r] = Idle]
    /\ UNCHANGED <<account, report, evidence, month>>

\* Faulty: uploaded_by keeps the user.
FilesKept(u) == evidence

\* ON DELETE SET NULL of uploaded_by.
FilesWithout(u) ==
    [p \in Paths |-> IF evidence[p] # None /\ evidence[p].by = u
                     THEN [evidence[p] EXCEPT !.by = None] ELSE evidence[p]]

\* delete_mobile_user: waits for insertions that refer to the user.
DeleteUser(u) ==
    /\ u \in account /\ ~Referenced(u)
    /\ account' = account \ {u}
    /\ report' = [c \in Reports |-> IF report[c] # None /\ report[c].user = u
                                    THEN [report[c] EXCEPT !.user = None] ELSE report[c]]
    /\ evidence' = FilesWithout(u)
    /\ UNCHANGED <<disk, month, req>>

Step(r) == \/ CountReports(r) \/ EnterReport(r) \/ CommitReport(r)
           \/ OpenFile(r) \/ WriteFile(r) \/ AttachFile(r) \/ CommitFile(r)

Next ==
    \/ \E r \in Requests, u \in Users :
         CreateReport(r, u) \/ \E c \in Reports, n \in Sizes : UploadEvidence(r, u, c, n)
    \/ \E r \in Requests : Step(r) \/ Abort(r)
    \/ \E u \in Users : DeleteUser(u)
    \/ NextMonth

Spec == Init /\ [][Next]_vars

\* Faulty: an insertion of a number that is taken is tried again.
DoomedUnlessTaken(r) ==
    req[r].pc \in {"enter", "attach"} /\ ~UserExists(req[r].user)

\* The insertion of request r raises.
Doomed(r) ==
    \/ req[r].pc \in {"enter", "attach"} /\ ~UserExists(req[r].user)
    \/ req[r].pc = "enter" /\ Numbered(req[r].month, req[r].number) # {}

\* Ids run out in the model only.
Exhausted(r) ==
    \/ req[r].pc = "enter" /\ \A c \in Reports : report[c] # None
    \/ req[r].pc = "open" /\ \A p \in Paths : disk[p] # None

Fails(r) == (Doomed(r) \/ Exhausted(r)) /\ Abort(r)

\* The event loop runs a request on; those that wait for the index take turns.
Fairness == \A r \in Requests : WF_vars(Step(r) \/ Fails(r)) /\ SF_vars(EnterReport(r))

FairSpec == Spec /\ Fairness

-----------------------------------------------------------------------------
(* Properties                                                              *)

\* The numbers of a month are 1, 2, ... without a gap and without a double, though
\* each is a count that was read before, and creations overlap, fail or straddle the
\* end of the month.
NumbersContiguous ==
    \A m \in Months :
      /\ {report[c].number : c \in InMonth(m)} = 1..Cardinality(InMonth(m))
      /\ \A c, d \in InMonth(m) : report[c].number = report[d].number => c = d

\* What download_evidence finds under a path: a file without bytes is taken for none.
Served(p) == IF disk[p] \in {None, 0} THEN None ELSE disk[p]

\* Every file a row names is served with all its bytes, whatever failed and whenever
\* the process died, unless it was uploaded empty.
FilesServed == \A p \in Paths : evidence[p] # None /\ evidence[p].size # 0 => Served(p) = evidence[p].size

\* Evidence and its report have the same user, or both have none: a deletion between
\* the check of the report and the commit of the row does not come between them.
EvidenceOfOwner ==
    \A p \in Paths : evidence[p] # None =>
      /\ report[evidence[p].report] # None
      /\ evidence[p].by = report[evidence[p].report].user

\* What the tables implement: a register where a number is given at the entry.
Register == INSTANCE CaseRegister
              WITH holders <- account, entries <- report, exhibits <- evidence

ImplementsRegister == Register!Spec

\* A request ends: whoever waits for a number that another is inserting gets it or
\* fails.
RequestsEnd == \A r \in Requests : req[r].pc # "idle" ~> req[r].pc = "idle"
=============================================================================
