\* The encoder asks for more data in a drain; the other answers of a drained
\* device that has nothing now are left out.
CONSTANTS
  LaDepth = 1
  LaCap = 2
  BFrames = 1
  Reorder = 1
  EncCap = 3
  QueueCap = 3
  TsMin <- MCTsMin
  TsMax = 5
  MaxFrames = 5
  MaxGap = 2
  Lags = {"more_data"}
  Faults = {}
SPECIFICATION Spec
INVARIANT EofIsTheEnd
