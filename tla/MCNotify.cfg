\* Three workers; wait() may return spuriously.
CONSTANTS
  Workers = {w1, w2, w3}
  Spurious = TRUE
SPECIFICATION NotifyFairSpec
INVARIANTS
  CountCoversWorkers
PROPERTIES
  EndsUnlessEarlyWakeup
  EveryWorkerEnds
\* The program ends.
CHECK_DEADLOCK FALSE
