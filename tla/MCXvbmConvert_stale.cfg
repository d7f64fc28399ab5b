\* Torn down after a flush that returned early.
CONSTANTS
  ReqCap = 2
  RspCap = 2
  MaxFrames = 3
SPECIFICATION Spec
INVARIANTS ReleasedOnce
CHECK_DEADLOCK FALSE
