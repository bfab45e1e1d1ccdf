\* Interval, timeout and handshake ceiling of one unit, two frames.
SPECIFICATION FairRelaySpec
CONSTANTS
  Interval = 1
  Timeout = 1
  Handshake = 1
  MaxHeard = 2
  Rejects = FALSE
INVARIANTS TimerWhileUp DeadNoticed RejectionKept AnswersOwn
PROPERTIES HeartbeatJust FramesInOrder SessionEnds
CHECK_DEADLOCK FALSE
