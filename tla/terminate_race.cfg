CONSTANTS
  Deployments <- PodAndInference
  Devices = {0, 1}
  Routes = {"r"}
  Kind <- KindPQ
  Need <- NeedPQ
  Budget <- OneTerminate
SPECIFICATION Spec
INVARIANT NoSharedGpu
