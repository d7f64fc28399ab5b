\* Three frames share two buffers.
CONSTANTS
  Frames = {f1, f2, f3}
  Bufs = {b1, b2}
  NoBuf = NoBuf
  MaxDev = 2
  MaxFaults = 2
SPECIFICATION FairSpec
INVARIANTS CountIsExact
PROPERTY ReturnsToPool
