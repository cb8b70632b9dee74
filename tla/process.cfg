CONSTANTS
  Deployments <- Two
  Budgets <- PairsOfFaults
SPECIFICATION FairSpec
INVARIANT ProcTypeOK
INVARIANT ProcessesAreKnown
INVARIANT ReadyServes
INVARIANT ErasedWithProcess
PROPERTY ReportsAreDurable
PROPERTY EndedIsStopped
