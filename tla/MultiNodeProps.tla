--------------------------- MODULE MultiNodeProps ---------------------------
(* What bring-up promises, stated over MultiNode.                           *)
EXTENDS MultiNode

(* Places, verdicts and timers stay in their ranges.                        *)
MnTypeOK ==
  /\ ctr \in [Ranks -> Places]
  /\ agent \in [Ranks -> {"idle", "waiting", "ready", "failed"}]
  /\ work \in [Ranks -> 0 .. (Boot + Load)]
  /\ window \in [Ranks -> 0 .. Wait]
  /\ left \in [Ranks -> 0 .. Health]
  /\ skew \in 0 .. Skew
  /\ mishaps \in 0 .. Mishaps

(* The start handler, which holds its agent's reconcile lock, returns with  *)
(* a verdict.                                                               *)
StartReturns == \A r \in Ranks : agent[r] = "waiting" ~> agent[r] \in {"ready", "failed"}

(* The launches lie within the cluster wait, and the health timeout covers  *)
(* the boot, the wait and the load.                                         *)
InWindow == Skew + Boot < Wait
Patient == InWindow /\ Boot + Wait + Load < Health

(* Whatever the order in which the ranks of a patient replica start, its    *)
(* head gets to serve, unless a container died or a docker command failed.  *)
ComesUp == <>(ctr[Head] = "serve" \/ mishaps < Mishaps \/ ~Patient)

(* ... and until its agent has given the head up, no rank of a replica      *)
(* launched in the window leaves by itself.                                 *)
NoRankGivesUp ==
  [][ \A r \in Ranks :
        InWindow /\ mishaps' = Mishaps /\ ctr'[r] = "exited" /\ ctr[r] # "exited"
        => agent[Head] = "failed" ]_mnVars

(* Why: a rank that waits for the others has more time left than the last   *)
(* of them can take (the inductive invariant behind NoRankGivesUp).         *)
Members == Workers \cup {Head}
Settled(r) == ctr[r] \in {"joining", "ray"}
NobodyGone ==
  /\ \A r \in Ranks : ctr[r] # "exited"
  /\ \A r \in Members : ctr[r] = "none" => agent[r] = "idle"
  /\ \A r \in Ranks : agent[r] = "idle" => ctr[r] = "none"
ScriptsOfRole ==
  /\ \A w \in Workers : ctr[w] \notin {"ray", "load", "serve"}
  /\ ctr[Head] \notin {"joining", "joined"}
  /\ \A s \in Singles : ctr[s] \notin {"joining", "joined", "ray"}
ClusterHolds ==
  /\ \A w \in Workers : ctr[w] = "joined" => HeadUp
  /\ ctr[Head] \in {"load", "serve"} => ClusterComplete
TimeEnough ==
  /\ \A r, q \in Members : Settled(r) /\ ctr[q] = "none" => window[r] > skew + Boot
  /\ \A r, q \in Members : Settled(r) /\ ctr[q] = "boot" => window[r] > work[q]
  /\ \A w \in Workers : ctr[Head] = "ray" /\ ctr[w] = "joining" => window[Head] > 0
  /\ \A q \in Members : ctr[q] = "boot" => work[q] <= Boot
OnTime ==
  InWindow /\ mishaps = Mishaps /\ agent[Head] # "failed"
    => NobodyGone /\ ScriptsOfRole /\ ClusterHolds /\ TimeEnough

(* ... nor does its agent take the head away from ranks on their way to it, *)
(* as long as the launches and a boot fit into the head's health timeout,   *)
(* which runs from the head's own docker run. (The defaults, 1200 s against *)
(* a wait of 1800 s, do not give that for every launch in the window.)      *)
HeadOutlastsLaunches ==
  [][ InWindow /\ Skew + Boot < Health /\ mishaps' = Mishaps /\ HealthTimeout(Head)
      => ClusterComplete ]_mnVars

(* A replica that failed does not go on holding cards in half its ranks:    *)
(* once its head is given up and the container gone, every worker's stops   *)
(* for good, on nodes that nobody tells.                                    *)
WorkersStopWithHead ==
  agent[Head] = "failed" /\ ~Running(Head) ~> [](\A w \in Workers : ~Running(w))

-----------------------------------------------------------------------------
(* What a comment or a test says and the code does not do *)

(* multinode_launch.py:374-375: "The head's API port is reachable directly  *)
(* on the host": a head that serves is not torn down as unhealthy.          *)
ServingHeadIsKept ==
  [][ \A r \in Ranks : HealthTimeout(r) => ctr[r] # "serve" ]_mnVars

=============================================================================
