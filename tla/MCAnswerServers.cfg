\* Two clients that compete for two threads, one at a time queued; an answer
\* that takes several reads.
CONSTANTS
  Clients = {c1, c2}
  Threads = {t0, t1}
  Main = t0
  NoClient = NoClient
  PageSize = 3
  Backlog = 1
SPECIFICATION FairSpec
INVARIANTS
  TypeOK
  WholeAnswer
PROPERTIES
  ClientsEnd
\* The server waits for connections, and the clients end.
CHECK_DEADLOCK FALSE
