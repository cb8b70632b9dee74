--------------------------- MODULE NodeAgentProps ---------------------------
(***************************************************************************)
(* What the node agent promises, stated over NodeAgent.                     *)
(***************************************************************************)
EXTENDS NodeAgent

-----------------------------------------------------------------------------
(* Types *)

(* Every variable holds what the code can put in it; in particular a ledger *)
(* entry or a record never names a card the node does not have.             *)
AgentTypeOK ==
  /\ AllocatorTypeOK
  /\ runtimes \in [Deployments -> Record]
  /\ volRecords \subseteq Deployments /\ volDirs \subseteq Deployments
  /\ pc \in [Actors -> Labels]
  /\ call \in [Actors -> CallFrame]
  /\ mode \in {"leases", "orphans", "recovery"}
  /\ view \in [Deployments -> Lease]
  /\ todo \subseteq Deployments
  /\ snap \in [Deployments -> Record]
  /\ seen \in [at : {"unseen", "probed", "known"}, cards : SUBSET Devices]
  /\ cont \in [Deployments -> Container]
  /\ runs \in [Deployments -> Nat]
  /\ foreign \subseteq Devices
  /\ cpUp \in BOOLEAN
  /\ lease \in [Deployments -> Lease]
  /\ dstate \in [Deployments -> DState]
  /\ budget \in [Faults -> Nat]

-----------------------------------------------------------------------------
(* Safety *)

InHands(d, labels) == \E a \in Actors : call[a].dep = d /\ pc[a] \in labels

(* Some thread has dropped d's ledger entry and not yet rewritten its record. *)
Released(d) == InHands(d, {"stop", "volume", "mark", "susStop", "susMark"})
Busy(d)     == InHands(d, Labels)

(* Until the process has been restarted, no two deployments are recorded on *)
(* one card, whatever the terminate route interleaves (GpuAllocator).       *)
NoDoubleAllocation == budget["crash"] = Budget["crash"] => Disjoint

(* Only a restart can put two deployments on one card in the ledger: no     *)
(* start, resume, suspend, teardown or failure path adds an overlap, also   *)
(* when the rehydrated ledger already holds some.                           *)
OnlyRestartOverlaps == [][ Overlaps' \subseteq Overlaps \/ Restart ]_vars

(* Two containers that run at the same time never have a card in common.    *)
NoSharedGpu == \A d, e \in Deployments : d # e => InUse(d) \cap InUse(e) = {}

(* Two runtimes recorded ready never name a common card, restarts included. *)
ReadyExclusive ==
  \A d, e \in Deployments :
    d # e /\ runtimes[d].status = "ready" /\ runtimes[e].status = "ready" =>
      runtimes[d].devs \cap runtimes[e].devs = {}

(* A runtime recorded ready holds, in the ledger, exactly the cards its     *)
(* metadata names, unless a teardown or suspend has begun to release it.    *)
ReadyOwnsItsGpus ==
  \A d \in Deployments :
    runtimes[d].status = "ready" /\ ~Released(d) => alloc[d] = runtimes[d].devs

(* A runtime recorded ready has the container its record names, running.    *)
ReadyIsRunning ==
  \A d \in Deployments :
    runtimes[d].status = "ready" /\ ~Released(d) /\ Kind[d] # "vm" =>
      cont[d].st = "running" /\ cont[d].id = runtimes[d].cid

(* A deployment that failed, was terminated or has no record, and that no   *)
(* thread is working on, keeps neither a container nor a card, and a        *)
(* terminated one no volume.                                                *)
NothingLeftBehind ==
  \A d \in Deployments :
    runtimes[d].status \in {"none", "failed", "terminated"} /\ ~Busy(d) =>
      /\ cont[d].st = "none" /\ alloc[d] = {}
      /\ runtimes[d].status = "terminated" => d \notin volDirs

(* The volume a pod's container mounts is there as long as the container.   *)
PodHasVolume ==
  \A d \in Deployments : Kind[d] = "pod" /\ cont[d].st # "none" => d \in volDirs

(* A card stays in the ledger only for a runtime in flight or serving:      *)
(* whichever path fails or is cut by a restart, none leaks.                 *)
LedgerFollowsRecords ==
  \A d \in Deployments :
    alloc[d] # {} /\ ~Busy(d) => runtimes[d].status \in Active

(* The only container a finished runtime can leave behind is one whose id   *)
(* was never saved: the process died between docker run and the save.       *)
LeaksAreUnrecorded ==
  \A d \in Deployments :
    runtimes[d].status \in {"failed", "terminated"} /\ ~Busy(d) /\ cont[d].st # "none" =>
      cont[d].id # runtimes[d].cid

(* The container of a suspended pod is removed only for a deployment the    *)
(* control plane has terminated or deleted: neither a missing lease nor an  *)
(* unreachable control plane destroys it. A recovery can, when the reports  *)
(* that would have told the control plane better were lost.                 *)
SuspendedKept ==
  [][ \A d \in Deployments :
        /\ Kind[d] = "pod" /\ runtimes[d].status = "suspended"
        /\ cont[d].st # "none" /\ cont'[d].st = "none"
        => dstate[d] \in {"terminated", "missing"} ]_vars

(* A deployment whose lease lives on another node is never reported         *)
(* TERMINATED by the clean-up loop that sheds the local duplicate, as long  *)
(* as the control plane has answered: an outage empties the lease list the  *)
(* loop decides by. The recovery goes by the deployment's state, not by its *)
(* lease, and is left out.                                                  *)
NeverKillsElsewhere ==
  [][ \A d \in Deployments :
        /\ mode = "orphans" /\ budget["outage"] = Budget["outage"]
        /\ lease[d] = "elsewhere" /\ TellTerminated(Pass) /\ call[Pass].dep = d
        => dstate'[d] = dstate[d] ]_vars

-----------------------------------------------------------------------------
(* The promise the agent implements: a deployment serves from the moment    *)
(* its record is saved as ready until a teardown or a suspension releases   *)
(* its cards.                                                               *)

Served == {d \in Deployments : runtimes[d].status = "ready" /\ ~Released(d)}

Promise == INSTANCE Serving
             WITH Owners <- Deployments, Cards <- Devices, held <- alloc, serving <- Served,
                  restarts <- Budget["crash"] - budget["crash"]

(* The handlers implement Serving (gpu_allocator.py together with every     *)
(* start, suspend, resume, failure, teardown and restart of services.py):   *)
(* each step takes free cards for one deployment, begins to serve on cards  *)
(* no other server has, gives cards back, or is invisible; and a restart    *)
(* leaves every server its cards.                                           *)
KeepsItsPromise == Promise!Spec

-----------------------------------------------------------------------------
(* Liveness. The worker loop ticks for ever and every call of a handler has *)
(* a timeout, so a pass always takes its next step; the terminate route     *)
(* runs to its end; an outage ends. Nothing else is assumed.                *)

PassProgress ==
  \/ BeginReconcile \/ BeginOrphans \/ EndPass
  \/ \E d \in Deployments : VisitLease(d) \/ VisitOrphan(d) \/ RecoverRuntime(d)
  \/ StartStep \/ SuspendStep \/ ResumeStep \/ Probing \/ Teardown(Pass)

Fairness ==
  /\ WF_vars(PassProgress)
  /\ \A a \in Routes : WF_vars(Teardown(a))
  /\ WF_vars(Reconnect)

FairSpec == Spec /\ Fairness

(* A suspended runtime waits while another deployment holds its cards, and  *)
(* while a container whose card the ledger has given up still runs (the     *)
(* probe takes that one for a squatter); a pod waits for ever if a restart  *)
(* cut a teardown after it removed the container.                           *)
Untracked(d) == ~(InUse(d) \subseteq alloc[d])
Blocked(d) ==
  /\ runtimes[d].status = "suspended"
  /\ \/ ~CanReserve(d, runtimes[d].devs)
     \/ \E e \in Deployments : Untracked(e)
     \/ Kind[d] = "pod" /\ runtimes[d].cid # 0 /\ cont[d].id # runtimes[d].cid

(* Every active lease is eventually served, or failed, or terminated, or    *)
(* waits for its cards: no runtime is stuck in accepted, starting or        *)
(* suspended, across a restart and an outage.                               *)
LeaseSettles ==
  \A d \in Deployments :
    lease[d] = "active" ~>
      (lease[d] # "active" \/ runtimes[d].status \in {"ready", "failed", "terminated"} \/ Blocked(d))

(* A container no record can name runs on: the process died between docker  *)
(* run and the save of its id, or docker run timed out with it up.          *)
Spent(f) == budget[f] < Budget[f]
Unnamed(d) == cont[d].id # runtimes[d].cid /\ (Spent("crash") \/ Spent("run"))

(* A suspended pod's container that a resume has started without saying so: *)
(* docker start timed out and took effect late, or the process died before  *)
(* the record was saved. It is kept, as any suspended pod, until the        *)
(* control plane says TERMINATED.                                           *)
StartedUnsaved(d) ==
  /\ Kind[d] = "pod" /\ (Spent("crash") \/ Spent("run"))
  /\ runtimes[d].status = "suspended" /\ dstate[d] # "terminated"

Unused(d) == alloc[d] = {} /\ (InUse(d) = {} \/ Unnamed(d) \/ StartedUnsaved(d))

(* After its lease has ended everywhere, a deployment stops using cards,    *)
(* and for good: none in the ledger, and no container of its own on any but *)
(* the two that are named above.                                            *)
EndedIsReclaimed ==
  \A d \in Deployments : lease[d] = "ended" ~> []Unused(d)

(* An inference runtime whose resume was cut by a restart: its record is    *)
(* 'accepted' and still names the cards it had, the rehydrated ledger gives *)
(* them back to it, and a suspension leaves 'accepted' records alone.       *)
HeldWhileAccepted(d) ==
  /\ Kind[d] # "pod" /\ Spent("crash") /\ ~Busy(d)
  /\ runtimes[d].status = "accepted" /\ alloc[d] = runtimes[d].devs

(* A lease the control plane suspends frees its cards, in the ledger and of *)
(* its container, unless it is resumed or ended first, or the runtime is    *)
(* one the suspension passes over.                                          *)
SuspensionTakesEffect ==
  \A d \in Deployments :
    lease[d] = "suspended" ~> (lease[d] # "suspended" \/ Unused(d) \/ HeldWhileAccepted(d))

-----------------------------------------------------------------------------
(* What a comment says and the code does not do *)

(* services.py:282-289: with an unreachable control plane "the runtime      *)
(* KEEPS RUNNING by default".                                               *)
UnreachableKeepsRunning ==
  [][ \A d \in Deployments :
        ~cpUp /\ lease[d] = "active" /\ runtimes[d].status = "ready" /\ cont[d].st = "running"
        => cont'[d].st = "running" ]_vars

=============================================================================
