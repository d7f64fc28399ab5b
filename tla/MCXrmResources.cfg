\* Two encoders, a decoder and a scaler compete for the CUs.
CONSTANTS
  Decoders = {d1}
  Encoders = {e1, e2}
  Scalers = {s1}
  Cap = 5
  MaxFaults = 1
SPECIFICATION Spec
INVARIANTS ClosedHoldsNothing FailedKeepsOne
