\* A device that takes one packet at a time, three times the packets the
\* watermark allows, one fault and one rewind.
CONSTANTS
  Watermark = 1
  FifoAlloc = 3
  InCap = 1
  OutBufs = 2
  EofNeedsRoom = FALSE
  Idr <- MCIdr
  MaxPkts = 6
  MaxFaults = 1
  MaxLoops = 1
SPECIFICATION FairSpec
INVARIANTS TypeOK EofIsLast DrainComplete BuffersConserved
PROPERTIES FedInOrder GrowsOnlyWhenRefused DrainTerminates
