----------------------------- MODULE MultiNode -----------------------------
(***************************************************************************)
(* Bring-up of inference containers, from docker run to the verdict of the  *)
(* agent that started them: single-node runtimes, and one replica whose     *)
(* head and worker ranks run on nodes of their own (multinode_launch.py,    *)
(* DockerInferenceBackend). NodeAgent has one start handler as RunOk or     *)
(* RunFails; here is what decides between the two.                          *)
(*                                                                         *)
(* Time passes in ticks that are long against every polling period (2, 5    *)
(* and 10 s), so a poll that has something to see sees it before the next   *)
(* tick; Boot, Load, Wait, Health and Skew are counted in ticks.            *)
(***************************************************************************)
EXTENDS Integers, FiniteSets

CONSTANTS
  Workers,   \* worker ranks of the replica
  Singles,   \* single-node inference runtimes beside it
  Boot,      \* longest a script takes before its ray start (pip install, NIC probe)
  Load,      \* longest vLLM takes to load the model
  Wait,      \* cluster_wait_seconds
  Health,    \* health_timeout_seconds
  Skew,      \* from the first docker run to the last
  Mishaps    \* containers that may die by themselves, docker commands that may fail

Head == "head"
Ranks == Workers \cup Singles \cup {Head}

ASSUME MultiNodeAssumption ==
  /\ Head \notin Workers \cup Singles /\ Workers \cap Singles = {} /\ Workers # {}
  /\ {Boot, Load, Wait, Health, Skew, Mishaps} \subseteq Nat

VARIABLES
  ctr,     \* where the script of each container is
  agent,   \* the agent's verdict on each runtime
  work,    \* ticks left to the boot or the load under way
  window,  \* ticks left to the head's cluster wait or the worker's join loop
  left,    \* ticks left to _wait_for_health
  skew,    \* ticks left to the launches that have not happened
  mishaps  \* mishaps still allowed

mnVars == <<ctr, agent, work, window, left, skew, mishaps>>

Places == {"none", "boot", "joining", "joined", "ray", "load", "serve", "exited"}
Running(r) == ctr[r] \notin {"none", "exited"}

(* Ray's GCS accepts joins from ray start --head on.                        *)
HeadUp == ctr[Head] \in {"ray", "load", "serve"}

(* ray.cluster_resources() has every rank's GPUs.                           *)
ClusterComplete == \A w \in Workers : ctr[w] = "joined"

(* runtime_url names the port published with -p. The rewrite for several    *)
(* nodes drops -p (host networking) and leaves vLLM on port 8000: nothing   *)
(* listens where the agent polls.                                           *)
Published(r) == r \in Singles

-----------------------------------------------------------------------------
(* The scripts inside the containers *)

To(r, place) == ctr' = [ctr EXCEPT ![r] = place]

(* docker run -d has returned; the agent starts to wait.                    *)
Launch(r) ==
  /\ agent[r] = "idle"
  /\ To(r, "boot")
  /\ agent' = [agent EXCEPT ![r] = "waiting"]
  /\ work' = [work EXCEPT ![r] = Boot]
  /\ left' = [left EXCEPT ![r] = Health]
  /\ UNCHANGED <<window, skew, mishaps>>

BeginLoad(r) == To(r, "load") /\ work' = [work EXCEPT ![r] = Load]

(* What the rewritten command runs once its prelude is done.                *)
AfterBoot(r) == IF r = Head THEN "ray" ELSE "joining"

BootDone(r) ==
  /\ ctr[r] = "boot"
  /\ \/ r \in Singles /\ BeginLoad(r) /\ UNCHANGED window
     \/ /\ r \notin Singles
        /\ To(r, AfterBoot(r))
        /\ window' = [window EXCEPT ![r] = Wait]
        /\ UNCHANGED work
  /\ UNCHANGED <<agent, left, skew, mishaps>>

(* until ray start --address --block: tried first, the deadline is checked  *)
(* only after a failed attempt.                                             *)
Join(w) ==
  /\ ctr[w] = "joining" /\ HeadUp
  /\ To(w, "joined")
  /\ UNCHANGED <<agent, work, window, left, skew, mishaps>>

OneShotJoin(w) == ctr[w] = "joining" /\ ~HeadUp
NeverGivesUp(w) == FALSE
JoinWindowClosed(w) == ctr[w] = "joining" /\ ~HeadUp /\ window[w] = 0

GiveUp(w) ==
  /\ JoinWindowClosed(w)
  /\ To(w, "exited")
  /\ UNCHANGED <<agent, work, window, left, skew, mishaps>>

(* The head is gone: --block returns. Status 0 ends the loop and the        *)
(* container, any other is one more failed attempt.                         *)
SessionEnds(w) ==
  /\ ctr[w] = "joined" /\ ~HeadUp
  /\ To(w, "exited") \/ To(w, "joining")
  /\ UNCHANGED <<agent, work, window, left, skew, mishaps>>

ClusterReady ==
  /\ ctr[Head] = "ray" /\ ClusterComplete
  /\ BeginLoad(Head)
  /\ UNCHANGED <<agent, window, left, skew, mishaps>>

ClusterTimeout ==
  /\ ctr[Head] = "ray" /\ ~ClusterComplete /\ window[Head] = 0
  /\ To(Head, "exited")
  /\ UNCHANGED <<agent, work, window, left, skew, mishaps>>

Loaded(r) ==
  /\ ctr[r] = "load"
  /\ r = Head => \A w \in Workers : ctr[w] = "joined"
  /\ To(r, "serve")
  /\ UNCHANGED <<agent, work, window, left, skew, mishaps>>

(* vLLM loses a rank it needs.                                              *)
RankLost == ctr[Head] \in {"load", "serve"} /\ \E w \in Workers : ctr[w] # "joined"

EngineDies ==
  /\ RankLost
  /\ To(Head, "exited")
  /\ UNCHANGED <<agent, work, window, left, skew, mishaps>>

Dies(r) ==
  /\ Running(r) /\ mishaps > 0
  /\ To(r, "exited")
  /\ mishaps' = mishaps - 1
  /\ UNCHANGED <<agent, work, window, left, skew>>

-----------------------------------------------------------------------------
(* The agent of each node, inside start_runtime *)

Verdict(r, v) == agent' = [agent EXCEPT ![r] = v]
Waiting(r) == agent[r] = "waiting"

(* _wait_for_container_running: running is enough, joined or not.           *)
WorkerReady(w) ==
  /\ w \in Workers /\ Waiting(w) /\ Running(w)
  /\ Verdict(w, "ready")
  /\ UNCHANGED <<ctr, work, window, left, skew, mishaps>>

Answers(r) == ctr[r] = "serve" /\ Published(r)

Healthy(r) ==
  /\ r \notin Workers /\ Waiting(r) /\ Answers(r)
  /\ Verdict(r, "ready")
  /\ UNCHANGED <<ctr, work, window, left, skew, mishaps>>

(* The start fails after n mishaps. stop_runtime removes the container; if  *)
(* docker rm -f fails as well, nobody hears of it.                          *)
StartFails(r, n) ==
  /\ Verdict(r, "failed")
  /\ \/ To(r, "none") /\ mishaps >= n /\ mishaps' = mishaps - n
     \/ UNCHANGED ctr /\ mishaps > n /\ mishaps' = mishaps - n - 1
  /\ UNCHANGED <<work, window, left, skew>>

(* The container has exited.                                                *)
SeesExit(r) == Waiting(r) /\ ctr[r] = "exited" /\ StartFails(r, 0)

(* A docker inspect that fails counts as one that finds nothing running:    *)
(* six in a row and the worker is taken for dead.                           *)
WorkerUnseen(w) == w \in Workers /\ Waiting(w) /\ Running(w) /\ StartFails(w, 1)

HealthNeverExpires(r) == FALSE
HealthPolledOnce(r) == r \notin Workers /\ Waiting(r) /\ ~Answers(r)
HealthExpired(r) == r \notin Workers /\ Waiting(r) /\ left[r] = 0 /\ ~Answers(r)

HealthTimeout(r) == HealthExpired(r) /\ StartFails(r, 0)

-----------------------------------------------------------------------------
(* Time *)

(* What a script or a poll does before the next tick.                       *)
ScriptDue ==
  \/ \E w \in Workers : \/ ctr[w] = "joining" /\ HeadUp
                        \/ JoinWindowClosed(w)
                        \/ ctr[w] = "joined" /\ ~HeadUp
  \/ ctr[Head] = "ray" /\ (ClusterComplete \/ window[Head] = 0)
  \/ RankLost
  \/ \E r \in Ranks : ctr[r] \in {"boot", "load"} /\ work[r] = 0

AgentDue ==
  \E r \in Ranks : Waiting(r) /\ \/ ctr[r] = "exited" \/ HealthExpired(r)
                                 \/ r \in Workers \/ Answers(r)

LaunchDue == skew = 0 /\ \E r \in Ranks : agent[r] = "idle"

(* No timer runs below zero: a deadline that has passed stays passed.       *)
LessUnclamped(f) == [r \in Ranks |-> f[r] - 1]
Less(f) == [r \in Ranks |-> IF f[r] > 0 THEN f[r] - 1 ELSE 0]

Tick ==
  /\ ~ScriptDue /\ ~AgentDue /\ ~LaunchDue
  /\ work' = Less(work) /\ window' = Less(window) /\ left' = Less(left)
  /\ skew' = IF skew > 0 /\ \E r \in Ranks : agent[r] # "idle" THEN skew - 1 ELSE skew
  /\ UNCHANGED <<ctr, agent, mishaps>>

-----------------------------------------------------------------------------
MnInit ==
  /\ ctr = [r \in Ranks |-> "none"]
  /\ agent = [r \in Ranks |-> "idle"]
  /\ work = [r \in Ranks |-> 0]
  /\ window = [r \in Ranks |-> 0]
  /\ left = [r \in Ranks |-> 0]
  /\ skew = Skew
  /\ mishaps = Mishaps

Progress ==
  \/ \E r \in Ranks : Launch(r) \/ BootDone(r) \/ Loaded(r)
  \/ \E w \in Workers : Join(w) \/ GiveUp(w) \/ SessionEnds(w) \/ WorkerReady(w)
  \/ \E r \in Ranks : Healthy(r) \/ SeesExit(r) \/ HealthTimeout(r)
  \/ ClusterReady \/ ClusterTimeout \/ EngineDies
  \/ Tick

MnNext == Progress \/ \E r \in Ranks : Dies(r) \/ WorkerUnseen(r)

(* Time passes, scripts run on, agents poll.                                *)
MnSpec == MnInit /\ [][MnNext]_mnVars /\ WF_mnVars(Progress)

=============================================================================
