\* The device may refuse the end of stream as it may refuse a packet.
CONSTANTS
  Watermark = 1
  FifoAlloc = 3
  InCap = 1
  OutBufs = 2
  EofNeedsRoom = TRUE
  Idr <- MCIdr
  MaxPkts = 3
  MaxFaults = 0
  MaxLoops = 0
SPECIFICATION FairSpec
PROPERTIES DrainTerminates
