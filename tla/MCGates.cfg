\* Four tasks that draw one of two numbers; both programs.
CONSTANTS
  N = 4
  Numbers = {1, 2}
  Main = main
  WaitTask = waitTask
SPECIFICATION GatesFairSpec
INVARIANTS
  TotalIsOfAll
PROPERTIES
  ImplementsRendezvous
  EverybodyPasses
\* The programs end.
CHECK_DEADLOCK FALSE
