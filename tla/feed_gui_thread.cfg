SPECIFICATION Spec
CONSTANTS
  Sort = {1, 2, 3}
  Key = {a, b, c}
  Unmatched = c
  Matching <- MCMatching
  Batch <- MCBatch
  MaxBatch = 2
  Subscriber = {p1, p2}
  SameThread = FALSE
  MaxCache = 4
INVARIANTS ViewsCurrent
CHECK_DEADLOCK FALSE
