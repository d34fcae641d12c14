\* One peer whose request may overfill the buffer, three threads at once;
\* register() does not wait, as since JDK 11.
CONSTANTS
  Clients = {c1}
  Threads = {t1, t2, t3}
  AcceptKey = acceptKey
  InCap = 2
  MaxSent = 3
  RegisterBlocks = FALSE
SPECIFICATION FairSpec
INVARIANTS
  NoUnaskedReply
PROPERTIES
  ImplementsOneShot
  AnsweredUnlessStale
  ClosedIsAnswered
\* The server may block in select() for good.
CHECK_DEADLOCK FALSE
