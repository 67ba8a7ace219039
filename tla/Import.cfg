CONSTANTS
  Paths = {a, e, f}
  Batches = {b1, b2}
  Selected <- MCTwice
  Leaves = {l1}
  Executable = {e}
  BatchLimit = 2
  PendingLimit = 2
  None = None
  a = a  e = e  f = f  b1 = b1  b2 = b2  l1 = l1
SPECIFICATION FairSpec
INVARIANTS TypeOK NoFalseSuccess ImportNotDiscarded NothingLeaks ReadyIsKept AckIsForShown
PROPERTIES PublishingEnds LeavingEnds ReviewEnds
CHECK_DEADLOCK FALSE
