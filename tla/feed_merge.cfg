SPECIFICATION FairSpec
CONSTANTS
  Sort = {1, 2, 3}
  Key = {a, b, c}
  Unmatched = c
  Matching <- MCMatching
  Batch <- MCBatch
  MaxBatch = 2
  Subscriber = {p1, p2}
  SameThread = TRUE
  MaxCache = 3
INVARIANTS TypeOK NothingLost ViewsCurrent
PROPERTIES StaysSorted LateInsertIsNew ImplementsContract EventuallyDelivered
CHECK_DEADLOCK FALSE
