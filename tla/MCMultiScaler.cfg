\* Two sessions, any call may fail, any number of times.
CONSTANTS
  Rates <- MCMixed
  Depth = 2
  MaxFrames = 7
  MaxFaults = 3
SPECIFICATION FairSpec
INVARIANTS OutputsInOrder NoFrameTwice FlushLeavesFew RateAsConfigured
PROPERTY FlushEnds
