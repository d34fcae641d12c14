\* Two peers, two threads at once; register() waits for select(), as in the
\* runtimes of the pom's 1.7 target.
CONSTANTS
  Clients = {c1, c2}
  Threads = {t1, t2}
  AcceptKey = acceptKey
  InCap = 1
  MaxSent = 1
  RegisterBlocks = TRUE
SPECIFICATION FairSpec
INVARIANTS
  SelectedHasHandler
PROPERTIES
  WatchedUnlessWaiting
\* The server may block in select() for good.
CHECK_DEADLOCK FALSE
