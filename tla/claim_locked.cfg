CONSTANTS
  c1 = c1
  c2 = c2
  a = a
  b = b
  c = c
  f1 = f1
  f2 = f2
  f3 = f3
  p1 = p1
  p2 = p2
  p3 = p3
  NULL = NULL
  Clients = {c1, c2}
  Names = {a, b}
  FileIds = {f1, f2, f3}
  Pages = {p1, p2}
  c_file_max = 2
  Calls <- SharedCalls
  MaxCalls <- SharedMax
SPECIFICATION Spec
INVARIANT NotFreedWhileLocked
SYMMETRY Interchangeable
CHECK_DEADLOCK FALSE
