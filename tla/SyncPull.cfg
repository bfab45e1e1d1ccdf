\* Three notes, pages of two rows, batches of two, two instants in a millisecond.
SPECIFICATION FairSpec
CONSTANTS
  w1 = w1  w2 = w2
  Writers = {w1}
  MaxNote = 3
  Limit = 2
  MaxBatch = 2
  MaxPurge = 2
  Micro = 2
  MaxMs = 2
  MaxEdits = 3
  None = None
INVARIANTS DeltaNeverSkips SnapshotSkipsRounded
PROPERTIES NoResurrection CatchesUp
CHECK_DEADLOCK FALSE
