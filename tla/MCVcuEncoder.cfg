\* Lookahead and B-frames, lagging devices, a fault anywhere, more frames than
\* pts_queue has entries.
CONSTANTS
  LaDepth = 1
  LaCap = 2
  BFrames = 1
  Reorder = 1
  EncCap = 2
  QueueCap = 5
  TsMin <- MCTsMin
  TsMax = 5
  MaxFrames = 6
  MaxGap = 2
  Lags = {"more_data", "flush_again", "nothing"}
  Faults = {"lookahead", "encoder", "memory"}
SPECIFICATION FairSpec
INVARIANTS DtsMonotone DtsNotAbovePts QueueFits EofMeansFlushed ReleasedOnce FrameHome
PROPERTY DrainEnds
