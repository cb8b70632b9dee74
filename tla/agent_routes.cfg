CONSTANTS
  Deployments <- PodAndInference
  Devices = {0, 1}
  Routes = {"r"}
  Kind <- KindPQ
  Need <- NeedPQ
  Budget <- BudgetRoutes
SPECIFICATION Spec
INVARIANT NoDoubleAllocation
