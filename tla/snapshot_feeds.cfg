SPECIFICATION Spec
CONSTANTS
  Sort = {1, 2, 3}
  Key = {a, b, c}
  Unmatched = c
  Matching <- MCMatching
  Batch <- MCBatch
  MaxBatch = 2
  Subscriber = {p1}
  MaxCache = 4
INVARIANTS CacheInv SnapshotsCurrent LatestPerKey
PROPERTIES PositionsStable
CHECK_DEADLOCK FALSE
