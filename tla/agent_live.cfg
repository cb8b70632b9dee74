CONSTANTS
  Deployments <- PodAndInference
  Devices = {0, 1}
  Routes = {}
  Kind <- KindPQ
  Need <- NeedPQ
  Budget <- BudgetLive
SPECIFICATION FairSpec
CONSTRAINT OneLease
PROPERTY LeaseSettles
PROPERTY EndedIsReclaimed
PROPERTY SuspensionTakesEffect
