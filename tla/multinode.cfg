CONSTANTS
  Workers <- TwoWorkers
  Singles = {"s"}
  Boot = 1
  Load = 1
  Wait = 3
  Health = 6
  Skew = 1
  Mishaps = 1
SPECIFICATION MnSpec
INVARIANT MnTypeOK
INVARIANT OnTime
PROPERTY StartReturns
PROPERTY ComesUp
PROPERTY NoRankGivesUp
PROPERTY WorkersStopWithHead
PROPERTY HeadOutlastsLaunches
