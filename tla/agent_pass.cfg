CONSTANTS
  Deployments <- PodAndInference
  Devices = {0, 1}
  Routes = {}
  Kind <- KindPQ
  Need <- NeedPQ
  Budget <- BudgetPass
SPECIFICATION Spec
INVARIANT AgentTypeOK
INVARIANT NoDoubleAllocation
INVARIANT NoSharedGpu
INVARIANT ReadyIsRunning
INVARIANT NothingLeftBehind
PROPERTY SuspendedKept
CONSTRAINT SquatterAndOne
