---------------------------- MODULE MCNodeAgent ----------------------------
(* Instances of NodeAgent for TLC: a pod and an inference deployment of one *)
(* card each on a node with two, and which faults a run allows, how often.  *)
EXTENDS NodeAgentProps, TLC

PodAndInference == {"p", "q"}
KindPQ == "p" :> "pod" @@ "q" :> "inference"
NeedPQ == "p" :> 1 @@ "q" :> 1

(* A node that gets a lease for one of the two only. No action the code is  *)
(* fair to creates a lease, so the constraint cuts no fair step.            *)
OneLease == Cardinality({d \in Deployments : lease[d] # "none"}) <= 1

NoFault == [f \in Faults |-> 0]

(* The pass alone: an outage, a suspension, a start that cannot be prepared,*)
(* a card somebody else takes.                                              *)
BudgetPass == [NoFault EXCEPT !["outage"] = 1, !["suspend"] = 1, !["prepare"] = 1,
                              !["squat"] = 1]

(* The squatter comes beside one of the other faults at a time.             *)
SquatterAndOne == Spent("squat") => Cardinality({f \in Faults : Spent(f)}) <= 2

(* The process dies once, anywhere; a recovery may run at any time.         *)
BudgetRestart == [NoFault EXCEPT !["crash"] = 1, !["suspend"] = 1, !["recovery"] = 1]

(* A terminate request beside the pass, and docker commands that fail.      *)
BudgetRoutes == [NoFault EXCEPT !["terminate"] = 1, !["rm"] = 1, !["run"] = 1]

(* One of each, for the liveness properties, and a second suspension.       *)
BudgetLive == [NoFault EXCEPT !["crash"] = 1, !["outage"] = 1, !["suspend"] = 2,
                              !["recovery"] = 1, !["run"] = 1]

(* One fault of one kind.                                                   *)
OneOutage    == [NoFault EXCEPT !["outage"] = 1]
OneTerminate == [NoFault EXCEPT !["terminate"] = 1]

=============================================================================
