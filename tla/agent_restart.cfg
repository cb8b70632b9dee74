CONSTANTS
  Deployments <- PodAndInference
  Devices = {0, 1}
  Routes = {}
  Kind <- KindPQ
  Need <- NeedPQ
  Budget <- BudgetRestart
SPECIFICATION Spec
INVARIANT ReadyExclusive
INVARIANT ReadyOwnsItsGpus
INVARIANT LedgerFollowsRecords
INVARIANT LeaksAreUnrecorded
INVARIANT PodHasVolume
PROPERTY OnlyRestartOverlaps
PROPERTY NeverKillsElsewhere
PROPERTY KeepsItsPromise
