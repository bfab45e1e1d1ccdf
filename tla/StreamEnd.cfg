\* Every completion of up to four frames, two tool calls, in both routes.
SPECIFICATION FairSpec
CONSTANTS
  Indices <- MCIndices
  MaxFrames = 4
INVARIANTS CallsWhole ChargedWhole EndTold
PROPERTIES LastWord Settles
CHECK_DEADLOCK FALSE
