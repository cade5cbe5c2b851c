CONSTANTS
  c1 = c1
  c2 = c2
  a = a
  b = b
  f1 = f1
  f2 = f2
  f3 = f3
  p1 = p1
  p2 = p2
  p3 = p3
  c = c
  NULL = NULL
  Clients = {c1}
  Names = {a, b}
  FileIds = {f1, f2, f3}
  Pages = {p1, p2}
  c_file_max = 2
  Calls <- SequentialCalls
  MaxCalls <- SequentialMax
SPECIFICATION FairSpec
INVARIANT StoredEvictable
INVARIANT ReadsAll
INVARIANT ReadsOnce
INVARIANT NoRaceFault
PROPERTY AloneCompletes
CHECK_DEADLOCK FALSE
