\* Two peers with texts of up to three pieces.
CONSTANTS
  Peers = {p1, p2}
  Texts <- SomeTexts
SPECIFICATION FairSpec
INVARIANTS
  EchoesAreDue
  EndedHasEchoed
PROPERTIES
  HandlersEnd
\* The server waits for connections.
CHECK_DEADLOCK FALSE
