\* Three reports of one user and one file, by two overlapping requests, across the end
\* of a month; one upload is empty.  In the end ids and accounts have run out.
CONSTANTS
  None = None
  Users = {u1}
  Reports = {c1, c2, c3}
  Paths = {f1}
  Sizes = {0, 2}
  Requests = {r1, r2}
  MaxMonth = 2
SPECIFICATION FairSpec
INVARIANTS TypeOK NumbersContiguous FilesServed EvidenceOfOwner
PROPERTIES ImplementsRegister RequestsEnd
CHECK_DEADLOCK FALSE
