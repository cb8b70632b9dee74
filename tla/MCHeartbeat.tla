---------------------------- MODULE MCHeartbeat ----------------------------
(* The heartbeat beside a node agent with two cards: a pod of one card and  *)
(* an inference deployment of two, and one squatter.                        *)
EXTENDS Heartbeat, TLC

PodAndInference == {"p", "q"}
KindPQ == "p" :> "pod" @@ "q" :> "inference"
NeedPQ == "p" :> 1 @@ "q" :> 2

NoFault == [f \in Faults |-> 0]
OneSquatter == [NoFault EXCEPT !["squat"] = 1]

=============================================================================
