\* A half-rate output before a full-rate one.
CONSTANTS
  Rates <- MCHalfFirst
  Depth = 2
  MaxFrames = 8
  MaxFaults = 1
SPECIFICATION Spec
INVARIANT RateAsConfigured
