----------------------------- MODULE MCPodHost -----------------------------
(* Two pods on a host with two SSH ports and two ports for users: one asks  *)
(* for the end of the range and a port outside it, the other for a port     *)
(* outside it and then one inside, which may be taken by then.              *)
EXTENDS PodHost, TLC

TwoPods == {"p", "q"}
RequestedPQ == "p" :> <<31003, 8080>> @@ "q" :> <<8080, 31001>>

NoEvent == [e \in Events |-> 0]
JustPods == {NoEvent}

(* One suspension, and faults of one kind: two of the disk, so that a       *)
(* roll-back or both halves of a teardown may fail too.                     *)
OneKindOfFault ==
  {[NoEvent EXCEPT !["suspend"] = 1, ![e] = 1] : e \in {"crash", "docker", "grab"}}
    \cup {[NoEvent EXCEPT !["suspend"] = 1, !["disk"] = 2]}

=============================================================================
