SPECIFICATION FairSpec
CONSTANTS
  Capacity = 2
  MaxPayloads = 4
INVARIANTS TypeOK PayloadsInOrder
PROPERTIES WritesStartReady EventuallySent
CHECK_DEADLOCK FALSE
