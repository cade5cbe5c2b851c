CONSTANTS
  NULL = NULL
  NoValue = NoValue
  c1 = c1
  c2 = c2
  a = a
  b = b
  Clients = {c1, c2}
  Names = {a, b}
  FileIds = {11, 12}
  Cells = {1, 2, 3, 4}
  Buckets <- TwoBuckets
  Pos <- SameBucket
  MaxOpens = 3
  Configs <- ConfigFiles
  Number <- NumberOf
  ListOf <- NamesIn
  DirectoryOf <- DirectoryNamed
  Directories <- AllDirectories
  Cases <- SendLines
SPECIFICATION PartsSpec
INVARIANT SendsUpTo
CHECK_DEADLOCK FALSE
