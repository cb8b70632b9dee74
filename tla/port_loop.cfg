CONSTANTS
  Pods <- TwoPods
  SshPorts = {30000, 30001}
  UserPorts = {31001, 31002}
  UserEnd = 31003
  Requested <- RequestedPQ
  SeesHost = FALSE
  Budgets <- JustPods
SPECIFICATION FairSpec
PROPERTY ExhaustionIsNoticed
