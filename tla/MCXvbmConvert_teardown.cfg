\* Torn down with every slot of the pipeline in use.
CONSTANTS
  ReqCap = 2
  RspCap = 2
  MaxFrames = 4
SPECIFICATION FairSpec
PROPERTIES UninitReturns
CHECK_DEADLOCK FALSE
