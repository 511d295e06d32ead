SPECIFICATION FairHttpSpec
CONSTANTS
  Query = {q1, q2}
  Threads = 2
INVARIANTS QueryInv
PROPERTIES LeaverIsNotCalled HeldIsAnswered
CHECK_DEADLOCK FALSE
