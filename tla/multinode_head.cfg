CONSTANTS
  Workers <- TwoWorkers
  Singles = {"s"}
  Boot = 1
  Load = 1
  Wait = 3
  Health = 6
  Skew = 1
  Mishaps = 0
SPECIFICATION MnSpec
PROPERTY ServingHeadIsKept
