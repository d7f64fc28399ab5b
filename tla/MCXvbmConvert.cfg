\* Equal capacities as in the code (20 and 20), reduced to 3 and 3; eight frames
\* fill both queues and the worker.
CONSTANTS
  ReqCap = 3
  RspCap = 3
  MaxFrames = 8
SPECIFICATION FairSpec
INVARIANTS
  TypeOK InFlightBound NeverMutuallyBlocked OutputInOrder FlushDeliversAll
  NoInputLeft FramesAccounted HangNeedsFullPipeline
PROPERTIES
  CallsReturn UninitReturnsIfRoom
\* uninit may hang in pthread_join: see MCXvbmConvert_teardown.cfg
CHECK_DEADLOCK FALSE
