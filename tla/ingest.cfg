SPECIFICATION FairSpec
CONSTANTS
  trades = trades
  garbage = garbage
  r1 = r1
  r2 = r2
  Source = {public, private}
  Message <- MCMessage
  Adapters = 2
  Parser <- MCParser
  Records <- MCRecords
  Capacity = 1
  IoThreads = 2
  MaxReceived = 2
INVARIANTS TypeOK ExactlyOnceInOrder NoLostWakeup FedIsKept
PROPERTIES EventuallyHandled
CHECK_DEADLOCK FALSE
