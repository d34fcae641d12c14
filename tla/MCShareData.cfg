\* The two threads of ThreadScopeShareData.
CONSTANTS
  Threads = {t1, t2}
  Null = Null
SPECIFICATION ShareSpec
SYMMETRY Symmetry
INVARIANTS
  UndisturbedReturnsOwn
  ScopedUnlessRaced
PROPERTIES
  SettledForGood
\* The program ends.
CHECK_DEADLOCK FALSE
