CONSTANTS
  Deployments <- PodAndInference
  Devices = {0, 1}
  Routes = {}
  Kind <- KindPQ
  Need <- NeedPQ
  Budget <- OneOutage
SPECIFICATION Spec
PROPERTY UnreachableKeepsRunning
