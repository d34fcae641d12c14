\* Two peers; a request of three units overfills the buffer of two.
CONSTANTS
  Clients = {c1, c2}
  AcceptKey = acceptKey
  BufCap = 2
  MaxSent = 3
SPECIFICATION FairSpec
INVARIANTS
  MessagesMatchKeys
  EndsOnlyByReset
  LeaksOnlySilentPeers
PROPERTIES
  ImplementsOneShot
  RequestAnswered
\* The server may block in select() for good, or end.
CHECK_DEADLOCK FALSE
