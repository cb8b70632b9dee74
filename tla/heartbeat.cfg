CONSTANTS
  Deployments <- PodAndInference
  Devices = {0, 1}
  Routes = {}
  Kind <- KindPQ
  Need <- NeedPQ
  Budget <- OneSquatter
SPECIFICATION HbSpec
INVARIANT HbTypeOK
PROPERTY ExactAtRest
