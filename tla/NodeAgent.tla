------------------------------ MODULE NodeAgent ------------------------------
(***************************************************************************)
(* One node agent: the runtime repository, the GPU ledger, the pass that    *)
(* holds the reconcile lock (reconcile_once or recover_runtime_state), the  *)
(* DELETE .../terminate requests that do not take that lock, and around     *)
(* them the docker daemon, the control plane and agent restarts.            *)
(*                                                                         *)
(* An action is one call with an outside effect (repository, ledger,        *)
(* docker, volume, control plane) with the local computation next to it,    *)
(* so two threads interleave, and the process dies, between any two calls.  *)
(***************************************************************************)
EXTENDS GpuAllocator

CONSTANTS
  Routes,      \* FastAPI threads that can be inside terminate_deployment
  Kind,        \* workload_kind of each deployment
  Need,        \* GPUs its start handler asks for (0: a no-GPU pod template)
  Budget       \* bound on each fault or request of the environment

Pass == "pass"
Actors == Routes \cup {Pass}
Faults == {"outage", "crash", "rm", "run", "prepare", "suspend", "terminate", "recovery", "squat"}

ASSUME NodeAssumption ==
  /\ Pass \notin Routes
  /\ Kind \in [Deployments -> {"pod", "inference", "vm"}]
  /\ Need \in [Deployments -> Nat]
  /\ \A d \in Deployments : Kind[d] # "pod" => Need[d] > 0
  /\ Budget \in [Faults -> Nat]

VARIABLES
  runtimes,    \* repository: memory and disk agree, upsert saves under the lock
  volRecords,  \* _volume_records (memory only)
  pc, call,    \* per actor: the next call, and the locals of the handler it is in
  mode, view, todo, snap, \* locals of the pass: phase, lease list, what is left, snapshot
  seen,        \* the same, inside _foreign_busy_devices: what it has read so far
  cont, runs,  \* docker: the container of each deterministic name; ids handed out
  volDirs,     \* volume directories on disk
  foreign,     \* devices a non-GreenCompute process is using
  cpUp, lease, dstate, \* control plane: reachable, leases, deployment states
  budget       \* environment faults still allowed

threads == <<pc, call>>
plan    == <<mode, view, todo, snap>>
pass    == <<mode, view, todo, snap, seen>>
docker  == <<cont, runs>>
cp      == <<cpUp, lease, dstate>>
vars    == <<alloc, runtimes, volRecords, volDirs, threads, pass, docker, foreign, cp, budget>>

-----------------------------------------------------------------------------
(* Records *)

Statuses == {"none", "accepted", "starting", "ready", "suspended", "failed", "terminated"}
Active   == {"accepted", "starting", "ready"}  \* "preparing" is never assigned

(* status, metadata.gpu_devices and container_id / vm_id (0: None).         *)
(* metadata.gpu_count is the number of devices wherever both are set.       *)
Record     == [status : Statuses, devs : SUBSET Devices, cid : Nat]
NoRecord   == [status |-> "none", devs |-> {}, cid |-> 0]
With(r, s) == [r EXCEPT !.status = s]

Container   == [st : {"none", "running", "stopped"}, devs : SUBSET Devices, id : Nat]
NoContainer == [st |-> "none", devs |-> {}, id |-> 0]

(* Locals of a handler: its runtime copy, report=, and what follows a       *)
(* teardown: nothing, remove_runtime, or remove_runtime and re-dispatch.    *)
NoDep     == "nodep"
CallFrame == [dep : Deployments \cup {NoDep}, rt : Record, report : BOOLEAN,
              then : {"done", "remove", "dispatch"}]
NoCall    == [dep |-> NoDep, rt |-> NoRecord, report |-> FALSE, then |-> "done"]
Frame(d, r, rep, th) == [dep |-> d, rt |-> r, report |-> rep, then |-> th]

TeardownLabels == {"release", "stop", "volume", "mark", "tellTerminated", "remove"}
SuspendLabels  == {"susRelease", "susStop", "susMark", "tellSuspended"}
ResumeLabels   == {"resAlloc", "resStart", "resMark", "resUndo", "resKeep", "resGiveBack", "resFetch"}
StartLabels    == {"dispatch", "allocate", "prepare", "markStarting", "run", "markReady", "tellReady"}
FailLabels     == {"failRelease", "failMark", "tellFailed"}
Labels == {"idle", "next"} \cup TeardownLabels \cup SuspendLabels
            \cup ResumeLabels \cup StartLabels \cup FailLabels

Lease  == {"none", "active", "suspended", "elsewhere", "ended"}
DState == {"none", "scheduled", "ready", "suspended", "failed", "terminated", "missing"}

-----------------------------------------------------------------------------
(* Control flow of an actor *)

Goto(a, l)    == pc' = [pc EXCEPT ![a] = l] /\ UNCHANGED call
GotoRt(a, l, r) == /\ pc' = [pc EXCEPT ![a] = l]
                   /\ call' = [call EXCEPT ![a].rt = r]
Enter(a, l, f) == pc' = [pc EXCEPT ![a] = l] /\ call' = [call EXCEPT ![a] = f]
Return(a)     == Enter(a, IF a = Pass THEN "next" ELSE "idle", NoCall)

Spend(k) == budget[k] > 0 /\ budget' = [budget EXCEPT ![k] = @ - 1]

Upsert(d, r) == runtimes' = [runtimes EXCEPT ![d] = r]

(* update_deployment_status: lost when the call fails (the exception is     *)
(* logged), and refused for a deployment the control plane has deleted.     *)
Report(d, s) ==
  dstate' = IF cpUp /\ dstate[d] # "missing" THEN [dstate EXCEPT ![d] = s] ELSE dstate

(* docker rm -f <id>, its failure or timeout swallowed; an id of an earlier *)
(* container of that name removes nothing.                                  *)
RemoveNothing(d, id) == UNCHANGED <<cont, budget>>
RemoveContainer(d, id) ==
  \/ /\ cont' = IF cont[d].id = id THEN [cont EXCEPT ![d] = NoContainer] ELSE cont
     /\ UNCHANGED budget
  \/ /\ cont[d].id = id
     /\ Spend("rm")
     /\ UNCHANGED cont

-----------------------------------------------------------------------------
(* _terminate_runtime: ledger first, backend second, record third, report   *)
(* last. Run by the pass and, without the lock, by terminate_deployment.    *)

TerminateRelease(a) ==
  /\ pc[a] = "release"
  /\ Release(call[a].dep)
  /\ Goto(a, "stop")
  /\ UNCHANGED <<runtimes, volRecords, volDirs, pass, docker, foreign, cp, budget>>

TerminateStop(a) ==
  LET d == call[a].dep
      r == call[a].rt
  IN /\ pc[a] = "stop"
     /\ IF r.cid # 0 /\ Kind[d] # "vm" THEN RemoveContainer(d, r.cid)
                                       ELSE UNCHANGED <<cont, budget>>
     /\ Goto(a, IF r.cid # 0 /\ Kind[d] = "pod" THEN "volume" ELSE "mark")
     /\ UNCHANGED <<alloc, runtimes, volRecords, volDirs, pass, runs, foreign, cp>>

(* The volume goes with its pod if this process still has its record.       *)
DeleteVolumes(ds) == volDirs' = volDirs \ ds

TerminateVolume(a) ==
  LET mine == {call[a].dep} \cap volRecords
  IN /\ pc[a] = "volume"
     /\ volRecords' = volRecords \ mine
     /\ DeleteVolumes(mine)
     /\ Goto(a, "mark")
     /\ UNCHANGED <<alloc, runtimes, pass, docker, foreign, cp, budget>>

AfterTeardown(a) == IF call[a].then = "done" THEN Return(a) ELSE Goto(a, "remove")

TerminateMark(a) ==
  /\ pc[a] = "mark"
  /\ Upsert(call[a].dep, With(call[a].rt, "terminated"))
  /\ IF call[a].report THEN Goto(a, "tellTerminated") ELSE AfterTeardown(a)
  /\ UNCHANGED <<alloc, volRecords, volDirs, pass, docker, foreign, cp, budget>>

TellTerminated(a) ==
  /\ pc[a] = "tellTerminated"
  /\ Report(call[a].dep, "terminated")
  /\ AfterTeardown(a)
  /\ UNCHANGED <<alloc, runtimes, volRecords, volDirs, pass, docker, foreign, cpUp, lease, budget>>

(* remove_runtime after a reap, or before a stuck runtime is re-dispatched. *)
RemoveRuntime(a) ==
  /\ pc[a] = "remove"
  /\ Upsert(call[a].dep, NoRecord)
  /\ IF call[a].then = "dispatch"
       THEN Enter(a, "dispatch", Frame(call[a].dep, NoRecord, FALSE, "done"))
       ELSE Return(a)
  /\ UNCHANGED <<alloc, volRecords, volDirs, pass, docker, foreign, cp, budget>>

(* DELETE /agent/v1/deployments/{id}/terminate: get_runtime, then teardown. *)
TerminateRequest(a, d) ==
  /\ a \in Routes /\ pc[a] = "idle"
  /\ runtimes[d].status # "none"
  /\ Spend("terminate")
  /\ Enter(a, "release", Frame(d, runtimes[d], TRUE, "done"))
  /\ UNCHANGED <<alloc, runtimes, volRecords, volDirs, pass, docker, foreign, cp>>

-----------------------------------------------------------------------------
(* _reconcile_workload and the _start_*_runtime handlers *)

Dep == call[Pass].dep
Rt  == call[Pass].rt

(* get_workload: raises, finds nothing, or finds the spec. The first two    *)
(* leave no record and report FAILED; the third saves 'accepted'.           *)
DispatchFails ==
  /\ pc[Pass] = "dispatch"
  /\ \/ ~cpUp /\ UNCHANGED budget
     \/ cpUp /\ Spend("prepare")
  /\ Goto(Pass, "tellFailed")
  /\ UNCHANGED <<alloc, runtimes, volRecords, volDirs, pass, docker, foreign, cp>>

DispatchAccepts ==
  /\ pc[Pass] = "dispatch"
  /\ cpUp
  /\ Upsert(Dep, With(NoRecord, "accepted"))
  /\ GotoRt(Pass, "allocate", With(NoRecord, "accepted"))
  /\ UNCHANGED <<alloc, volRecords, volDirs, pass, docker, foreign, cp, budget>>

(* _foreign_busy_devices: nvidia-smi is run, then the ledger is read, and   *)
(* only then does the allocator look for free cards, under its own lock. A  *)
(* reading shows the cards squatters and our own containers keep busy, less *)
(* those below the VRAM threshold, and none when the probe fails.           *)
InUse(d) == IF cont[d].st = "running" THEN cont[d].devs ELSE {}
Readings == SUBSET (foreign \cup UNION {InUse(d) : d \in Deployments})
NotSeen  == [at |-> "unseen", cards |-> {}]

(* A resumed pod takes exactly its original cards, whoever else is on them; *)
(* everything else takes any.                                               *)
PinnedNever == FALSE
Pinned == Kind[Dep] = "pod" /\ Rt.devs # {}
ChoosesCards == pc[Pass] = "allocate" \/ (pc[Pass] = "resAlloc" /\ ~Pinned)

ProbeGpus ==
  /\ ChoosesCards /\ seen.at = "unseen"
  /\ \E s \in Readings : seen' = [at |-> "probed", cards |-> s]
  /\ UNCHANGED <<alloc, runtimes, volRecords, volDirs, threads, plan, docker, foreign, cp, budget>>

ReadLedger ==
  /\ seen.at = "probed"
  /\ seen' = [at |-> "known", cards |-> seen.cards \ AllocatedDevices]
  /\ UNCHANGED <<alloc, runtimes, volRecords, volDirs, threads, plan, docker, foreign, cp, budget>>

AllocateGpus ==
  /\ pc[Pass] = "allocate" /\ seen.at = "known"
  /\ \/ /\ Allocate(Dep, Need[Dep], seen.cards)
        /\ GotoRt(Pass, IF Kind[Dep] = "vm" THEN "markStarting" ELSE "prepare",
                  [Rt EXCEPT !.devs = IF Need[Dep] = 0 THEN {} ELSE Chosen(Need[Dep], seen.cards)])
     \/ /\ ~CanAllocate(Need[Dep], seen.cards)
        /\ Goto(Pass, "failRelease")
        /\ UNCHANGED alloc
  /\ seen' = NotSeen
  /\ UNCHANGED <<runtimes, volRecords, volDirs, plan, docker, foreign, cp, budget>>

(* A pod's volume. An SSH port or key that could not be had, before the      *)
(* allocation, ends the same way: a record without devices, in              *)
(* _fail_runtime.                                                           *)
MakeVolume(d) == volDirs' = volDirs \cup {d}

CreateVolume ==
  /\ pc[Pass] = "prepare" /\ Kind[Dep] = "pod"
  /\ \/ /\ MakeVolume(Dep)
        /\ volRecords' = volRecords \cup {Dep}
        /\ Goto(Pass, "markStarting")
        /\ UNCHANGED budget
     \/ /\ Spend("prepare")
        /\ GotoRt(Pass, "failRelease", [Rt EXCEPT !.devs = {}])
        /\ UNCHANGED <<volRecords, volDirs>>
  /\ UNCHANGED <<alloc, runtimes, pass, docker, foreign, cp>>

(* An inference runtime's artifact, staged or not.                          *)
StageArtifact ==
  /\ pc[Pass] = "prepare" /\ Kind[Dep] = "inference"
  /\ \/ Goto(Pass, "markStarting") /\ UNCHANGED budget
     \/ Spend("prepare") /\ Goto(Pass, "failRelease")
  /\ UNCHANGED <<alloc, runtimes, volRecords, volDirs, pass, docker, foreign, cp>>

MarkStarting ==
  /\ pc[Pass] = "markStarting"
  /\ Upsert(Dep, With(Rt, "starting"))
  /\ GotoRt(Pass, "run", With(Rt, "starting"))
  /\ UNCHANGED <<alloc, volRecords, volDirs, pass, docker, foreign, cp, budget>>

(* start_pod / DockerInferenceBackend.start_runtime up to the health wait:  *)
(* rm -f the deterministic name, then docker run. VM backends start nothing.*)
NewContainer == [st |-> "running", devs |-> Rt.devs, id |-> runs[Dep] + 1]

RunOk ==
  /\ pc[Pass] = "run"
  /\ cont' = IF Kind[Dep] = "vm" THEN cont ELSE [cont EXCEPT ![Dep] = NewContainer]
  /\ runs' = [runs EXCEPT ![Dep] = @ + 1]
  /\ GotoRt(Pass, "markReady", [Rt EXCEPT !.cid = runs[Dep] + 1])
  /\ UNCHANGED <<alloc, runtimes, volRecords, volDirs, pass, foreign, cp, budget>>

(* docker run fails, or a failed health wait removes the container again;   *)
(* docker run times out with the container up; the rm -f times out, and the *)
(* name of the old container is still taken.                                *)
RunFails ==
  /\ pc[Pass] = "run"
  /\ \/ /\ Spend("run")
        /\ cont' = [cont EXCEPT ![Dep] = NoContainer]
        /\ UNCHANGED runs
     \/ /\ Kind[Dep] # "vm"
        /\ Spend("run")
        /\ cont' = [cont EXCEPT ![Dep] = NewContainer]
        /\ runs' = [runs EXCEPT ![Dep] = @ + 1]
     \/ /\ cont[Dep].st # "none"
        /\ Spend("rm")
        /\ UNCHANGED docker
  /\ Goto(Pass, "failRelease")
  /\ UNCHANGED <<alloc, runtimes, volRecords, volDirs, pass, foreign, cp>>

MarkReady ==
  /\ pc[Pass] = "markReady"
  /\ Upsert(Dep, With(Rt, "ready"))
  /\ GotoRt(Pass, "tellReady", With(Rt, "ready"))
  /\ UNCHANGED <<alloc, volRecords, volDirs, pass, docker, foreign, cp, budget>>

TellReady ==
  /\ pc[Pass] = "tellReady"
  /\ Report(Dep, "ready")
  /\ Return(Pass)
  /\ UNCHANGED <<alloc, runtimes, volRecords, volDirs, pass, docker, foreign, cpUp, lease, budget>>

(* _fail_runtime *)
FailRelease ==
  /\ pc[Pass] = "failRelease"
  /\ Release(Dep)
  /\ Goto(Pass, "failMark")
  /\ UNCHANGED <<runtimes, volRecords, volDirs, pass, docker, foreign, cp, budget>>

FailMark ==
  /\ pc[Pass] = "failMark"
  /\ Upsert(Dep, With(Rt, "failed"))
  /\ Goto(Pass, "tellFailed")
  /\ UNCHANGED <<alloc, volRecords, volDirs, pass, docker, foreign, cp, budget>>

TellFailed ==
  /\ pc[Pass] = "tellFailed"
  /\ Report(Dep, "failed")
  /\ Return(Pass)
  /\ UNCHANGED <<alloc, runtimes, volRecords, volDirs, pass, docker, foreign, cpUp, lease, budget>>

-----------------------------------------------------------------------------
(* _suspend_runtime: release, docker stop (pod) or rm -f (inference), save,  *)
(* report.                                                                  *)

SuspendRelease ==
  /\ pc[Pass] = "susRelease"
  /\ Release(Dep)
  /\ Goto(Pass, "susStop")
  /\ UNCHANGED <<runtimes, volRecords, volDirs, pass, docker, foreign, cp, budget>>

PauseContainer ==
  \/ /\ cont' = IF cont[Dep].id = Rt.cid THEN [cont EXCEPT ![Dep].st = "stopped"] ELSE cont
     /\ UNCHANGED budget
  \/ Spend("rm") /\ UNCHANGED cont

SuspendedStillReady(r) == [r EXCEPT !.cid = IF Kind[Dep] = "inference" THEN 0 ELSE @]
SuspendedRecord(r) ==
  [With(r, "suspended") EXCEPT !.cid = IF Kind[Dep] = "inference" THEN 0 ELSE @]

SuspendStop ==
  /\ pc[Pass] = "susStop"
  /\ CASE Rt.cid = 0 \/ Kind[Dep] = "vm" -> UNCHANGED <<cont, budget>>
       [] Rt.cid # 0 /\ Kind[Dep] = "pod" -> PauseContainer
       [] Rt.cid # 0 /\ Kind[Dep] = "inference" -> RemoveContainer(Dep, Rt.cid)
  /\ GotoRt(Pass, "susMark", SuspendedRecord(Rt))
  /\ UNCHANGED <<alloc, runtimes, volRecords, volDirs, pass, runs, foreign, cp>>

SuspendMark ==
  /\ pc[Pass] = "susMark"
  /\ Upsert(Dep, Rt)
  /\ Goto(Pass, "tellSuspended")
  /\ UNCHANGED <<alloc, volRecords, volDirs, pass, docker, foreign, cp, budget>>

TellSuspended ==
  /\ pc[Pass] = "tellSuspended"
  /\ Report(Dep, "suspended")
  /\ Return(Pass)
  /\ UNCHANGED <<alloc, runtimes, volRecords, volDirs, pass, docker, foreign, cpUp, lease, budget>>

-----------------------------------------------------------------------------
(* _resume_runtime *)

(* gpu_count = int(metadata.gpu_count or 1): a no-GPU pod asks for one.     *)
ResumeCount == IF Rt.devs = {} THEN 1 ELSE Cardinality(Rt.devs)

(* No capacity leaves the runtime suspended.                                *)
ResumeAllocate ==
  LET next == IF Kind[Dep] = "pod" THEN "resStart" ELSE "resGiveBack"
  IN /\ pc[Pass] = "resAlloc"
     /\ Pinned \/ seen.at = "known"
     /\ \/ /\ Pinned
           /\ AllocateSpecific(Dep, Rt.devs)
           /\ Goto(Pass, next)
        \/ /\ ~Pinned
           /\ Allocate(Dep, ResumeCount, seen.cards)
           /\ GotoRt(Pass, next,
                     IF Kind[Dep] = "pod" THEN [Rt EXCEPT !.devs = Chosen(1, seen.cards)] ELSE Rt)
        \/ /\ IF Pinned THEN ~CanReserve(Dep, Rt.devs)
                        ELSE ~CanAllocate(ResumeCount, seen.cards)
           /\ Return(Pass)
           /\ UNCHANGED alloc
     /\ seen' = NotSeen
     /\ UNCHANGED <<runtimes, volRecords, volDirs, plan, docker, foreign, cp, budget>>

(* resume_pod: docker start of the container the record names; a record     *)
(* without container_id is returned as ready without any docker call.       *)
ResumeStart ==
  LET known == cont[Dep].id = Rt.cid
  IN /\ pc[Pass] = "resStart"
     /\ \/ /\ Rt.cid = 0
           /\ GotoRt(Pass, "resMark", With(Rt, "ready"))
           /\ UNCHANGED <<cont, budget>>
        \/ /\ Rt.cid # 0 /\ known
           /\ cont' = [cont EXCEPT ![Dep].st = "running"]
           /\ GotoRt(Pass, "resMark", With(Rt, "ready"))
           /\ UNCHANGED budget
        \/ /\ Rt.cid # 0 /\ ~known
           /\ Goto(Pass, "resUndo")
           /\ UNCHANGED <<cont, budget>>
        \/ /\ Rt.cid # 0 /\ known
           /\ Spend("run")
           /\ Goto(Pass, "resUndo")
           /\ \/ UNCHANGED cont
              \/ cont' = [cont EXCEPT ![Dep].st = "running"]  \* timed out, started late
     /\ UNCHANGED <<alloc, runtimes, volRecords, volDirs, pass, runs, foreign, cp>>

ResumeMark ==
  /\ pc[Pass] = "resMark"
  /\ Upsert(Dep, Rt)
  /\ Goto(Pass, "tellReady")
  /\ UNCHANGED <<alloc, volRecords, volDirs, pass, docker, foreign, cp, budget>>

(* PodError: release, then save the record as suspended again.              *)
ResumeUndo ==
  /\ pc[Pass] = "resUndo"
  /\ Release(Dep)
  /\ Goto(Pass, "resKeep")
  /\ UNCHANGED <<runtimes, volRecords, volDirs, pass, docker, foreign, cp, budget>>

ResumeKeep ==
  /\ pc[Pass] = "resKeep"
  /\ Upsert(Dep, With(Rt, "suspended"))
  /\ Return(Pass)
  /\ UNCHANGED <<alloc, volRecords, volDirs, pass, docker, foreign, cp, budget>>

(* Inference and VM: give the placeholder back, fetch the spec, re-dispatch *)
(* as 'accepted' (a record that still names its former devices). No spec:   *)
(* stay suspended.                                                          *)
ResumeGiveBack ==
  /\ pc[Pass] = "resGiveBack"
  /\ Release(Dep)
  /\ Goto(Pass, "resFetch")
  /\ UNCHANGED <<runtimes, volRecords, volDirs, pass, docker, foreign, cp, budget>>

ResumeFetch ==
  /\ pc[Pass] = "resFetch"
  /\ \/ /\ cpUp
        /\ Upsert(Dep, With(Rt, "accepted"))
        /\ GotoRt(Pass, "allocate", With(Rt, "accepted"))
        /\ UNCHANGED budget
     \/ /\ \/ ~cpUp /\ UNCHANGED budget
           \/ cpUp /\ Spend("prepare")
        /\ Return(Pass)
        /\ UNCHANGED runtimes
  /\ UNCHANGED <<alloc, volRecords, volDirs, pass, docker, foreign, cp>>

-----------------------------------------------------------------------------
(* reconcile_once: one pass under the lock *)

(* Leases of this node_id (or of none); every other one is another box's.   *)
LeasesIgnored(v) == {d \in Deployments : v[d] = "suspended"}
MyLeases(v) == {d \in Deployments : v[d] \in {"active", "suspended"}}

(* sync_leases: a failed call looks like an empty list.                     *)
BeginReconcile ==
  /\ pc[Pass] = "idle"
  /\ mode' = "leases"
  /\ view' = IF cpUp THEN [d \in Deployments |-> IF lease[d] = "ended" THEN "none" ELSE lease[d]]
                     ELSE [d \in Deployments |-> "none"]
  /\ todo' = MyLeases(view')
  /\ Return(Pass)
  /\ UNCHANGED <<alloc, runtimes, volRecords, volDirs, snap, seen, docker, foreign, cp, budget>>

SuspendableStarting == {"starting"}
Suspendable == {"ready", "starting"}

VisitLease(d) ==
  LET r == runtimes[d]
      go(l, th) == Enter(Pass, l, Frame(d, r, FALSE, th))
  IN /\ pc[Pass] = "next" /\ mode = "leases" /\ d \in todo
     /\ todo' = todo \ {d}
     /\ \/ view[d] = "suspended" /\ r.status \in Suspendable /\ go("susRelease", "done")
        \/ view[d] = "suspended" /\ r.status \notin Suspendable /\ UNCHANGED threads
        \/ view[d] = "active" /\ r.status = "suspended" /\ go("resAlloc", "done")
        \/ view[d] = "active" /\ r.status \in {"accepted", "starting"} /\ go("release", "dispatch")
        \/ view[d] = "active" /\ r.status = "none" /\ go("dispatch", "done")
        \/ view[d] = "active" /\ r.status \in {"ready", "failed", "terminated"} /\ UNCHANGED threads
     /\ UNCHANGED <<alloc, runtimes, volRecords, volDirs, mode, view, snap, seen, docker, foreign, cp, budget>>

(* The clean-up loop iterates over a snapshot taken once; entries it would  *)
(* skip whatever happens are left out of todo.                              *)
Kept(d) == IF d \in todo' THEN runtimes[d] ELSE NoRecord

OrphansExceptReady ==
  {d \in Deployments : runtimes[d].status \notin {"none", "terminated", "ready"}} \ MyLeases(view)
OrphanCandidates ==
  {d \in Deployments : runtimes[d].status \notin {"none", "terminated"}} \ MyLeases(view)

BeginOrphans ==
  /\ pc[Pass] = "next" /\ mode = "leases" /\ todo = {}
  /\ mode' = "orphans"
  /\ todo' = OrphanCandidates
  /\ snap' = [d \in Deployments |-> Kept(d)]
  /\ UNCHANGED <<alloc, runtimes, volRecords, volDirs, threads, view, seen, docker, foreign, cp, budget>>

(* A suspended runtime is reaped only if get_deployment says TERMINATED.    *)
ConfirmedOrUnreachable(d) == cpUp => dstate[d] = "terminated"
ConfirmedTerminated(d) == cpUp /\ dstate[d] = "terminated"

(* A runtime shed because its lease is another node's is torn down without  *)
(* a report: the deployment goes on over there.                             *)
ReportsAlways(d) == TRUE
ReportsOrphan(d) == view[d] # "elsewhere"

VisitOrphan(d) ==
  LET r == snap[d]
      dead == ConfirmedTerminated(d)
  IN /\ pc[Pass] = "next" /\ mode = "orphans" /\ d \in todo
     /\ todo' = todo \ {d}
     /\ snap' = [snap EXCEPT ![d] = NoRecord]
     /\ \/ r.status # "suspended" /\ Enter(Pass, "release", Frame(d, r, ReportsOrphan(d), "done"))
        \/ r.status = "suspended" /\ dead /\ Enter(Pass, "release", Frame(d, r, TRUE, "remove"))
        \/ r.status = "suspended" /\ ~dead /\ UNCHANGED threads
     /\ UNCHANGED <<alloc, runtimes, volRecords, volDirs, mode, view, seen, docker, foreign, cp, budget>>

(* recover_runtime_state: at bootstrap, or from POST /agent/v1/recovery.    *)
BeginRecovery ==
  /\ pc[Pass] = "idle"
  /\ Spend("recovery")
  /\ mode' = "recovery"
  /\ todo' = {d \in Deployments : runtimes[d].status \notin {"none", "terminated", "failed"}}
  /\ snap' = [d \in Deployments |-> Kept(d)]
  /\ Return(Pass)
  /\ UNCHANGED <<alloc, runtimes, volRecords, volDirs, view, seen, docker, foreign, cp>>

RecoveryKeepStates == {"ready", "scheduled", "suspended"}

RecoverRuntime(d) ==
  LET keep == ~cpUp \/ dstate[d] \in RecoveryKeepStates
  IN /\ pc[Pass] = "next" /\ mode = "recovery" /\ d \in todo
     /\ todo' = todo \ {d}
     /\ snap' = [snap EXCEPT ![d] = NoRecord]
     /\ \/ keep /\ UNCHANGED threads
        \/ ~keep /\ Enter(Pass, "release",
                          Frame(d, snap[d], dstate[d] \in {"terminated", "failed"}, "done"))
     /\ UNCHANGED <<alloc, runtimes, volRecords, volDirs, mode, view, seen, docker, foreign, cp, budget>>

EndPass ==
  /\ pc[Pass] = "next" /\ mode \in {"orphans", "recovery"} /\ todo = {}
  /\ Enter(Pass, "idle", NoCall)
  /\ mode' = "leases"
  /\ view' = [d \in Deployments |-> "none"]
  /\ UNCHANGED <<alloc, runtimes, volRecords, volDirs, todo, snap, seen, docker, foreign, cp, budget>>

-----------------------------------------------------------------------------
(* The process dies and is started again: threads, ledger and volume        *)
(* records are lost, the repository file and the containers are not;        *)
(* __init__ rebuilds the ledger from the persisted records.                 *)

ClaimUnlessReady(d) ==
  IF runtimes[d].status \in Active \ {"ready"} THEN runtimes[d].devs ELSE {}
ClaimUnlessEnded(d) ==
  IF runtimes[d].status \in Active \cup {"suspended"} THEN runtimes[d].devs ELSE {}
PersistedClaim(d) == IF runtimes[d].status \in Active THEN runtimes[d].devs ELSE {}

Restart ==
  /\ Spend("crash")
  /\ Rehydrate([d \in Deployments |-> PersistedClaim(d)])
  /\ volRecords' = {}
  /\ pc' = [a \in Actors |-> "idle"]
  /\ call' = [a \in Actors |-> NoCall]
  /\ mode' = "leases" /\ todo' = {}
  /\ view' = [d \in Deployments |-> "none"]
  /\ snap' = [d \in Deployments |-> NoRecord]
  /\ seen' = NotSeen
  /\ UNCHANGED <<runtimes, volDirs, docker, foreign, cp>>

-----------------------------------------------------------------------------
(* Environment: the control plane, its reachability, other tenants *)

agent == <<alloc, runtimes, volRecords, volDirs, threads, pass, docker>>

CreateLease(d) ==
  /\ lease[d] = "none"
  /\ lease' = [lease EXCEPT ![d] = "active"]
  /\ dstate' = [dstate EXCEPT ![d] = "scheduled"]
  /\ UNCHANGED <<agent, foreign, cpUp, budget>>

SuspendLease(d) ==
  /\ lease[d] = "active"
  /\ Spend("suspend")
  /\ lease' = [lease EXCEPT ![d] = "suspended"]
  /\ UNCHANGED <<agent, foreign, cpUp, dstate>>

ResumeLease(d) ==
  /\ lease[d] = "suspended"
  /\ lease' = [lease EXCEPT ![d] = "active"]
  /\ UNCHANGED <<agent, foreign, cpUp, dstate, budget>>

(* Re-pinned to another node_id of the same hotkey. *)
MoveLease(d) ==
  /\ lease[d] = "active"
  /\ lease' = [lease EXCEPT ![d] = "elsewhere"]
  /\ UNCHANGED <<agent, foreign, cpUp, dstate, budget>>

(* The lease expires; the deployment is terminated, deleted or left as is.  *)
EndLease(d) ==
  /\ lease[d] \in {"active", "suspended", "elsewhere"}
  /\ lease' = [lease EXCEPT ![d] = "ended"]
  /\ \E s \in {"terminated", "missing", dstate[d]} : dstate' = [dstate EXCEPT ![d] = s]
  /\ UNCHANGED <<agent, foreign, cpUp, budget>>

Outage ==
  /\ cpUp /\ Spend("outage")
  /\ cpUp' = FALSE
  /\ UNCHANGED <<agent, foreign, lease, dstate>>

Reconnect ==
  /\ ~cpUp
  /\ cpUp' = TRUE
  /\ UNCHANGED <<agent, foreign, lease, dstate, budget>>

Squat(g) ==
  /\ g \notin foreign /\ Spend("squat")
  /\ foreign' = foreign \cup {g}
  /\ UNCHANGED <<agent, cp>>

-----------------------------------------------------------------------------
Init ==
  /\ AllocatorInit
  /\ runtimes = [d \in Deployments |-> NoRecord]
  /\ volRecords = {} /\ volDirs = {}
  /\ pc = [a \in Actors |-> "idle"]
  /\ call = [a \in Actors |-> NoCall]
  /\ mode = "leases" /\ todo = {}
  /\ view = [d \in Deployments |-> "none"]
  /\ snap = [d \in Deployments |-> NoRecord]
  /\ seen = NotSeen
  /\ cont = [d \in Deployments |-> NoContainer]
  /\ runs = [d \in Deployments |-> 0]
  /\ foreign = {}
  /\ cpUp = TRUE
  /\ lease = [d \in Deployments |-> "none"]
  /\ dstate = [d \in Deployments |-> "none"]
  /\ budget = Budget

Teardown(a) ==
  \/ TerminateRelease(a) \/ TerminateStop(a) \/ TerminateVolume(a)
  \/ TerminateMark(a) \/ TellTerminated(a) \/ RemoveRuntime(a)

StartStep ==
  \/ DispatchFails \/ DispatchAccepts \/ AllocateGpus \/ CreateVolume \/ StageArtifact
  \/ MarkStarting
  \/ RunOk \/ RunFails \/ MarkReady \/ TellReady
  \/ FailRelease \/ FailMark \/ TellFailed

SuspendStep == SuspendRelease \/ SuspendStop \/ SuspendMark \/ TellSuspended

ResumeStep ==
  \/ ResumeAllocate \/ ResumeStart \/ ResumeMark \/ ResumeUndo \/ ResumeKeep
  \/ ResumeGiveBack \/ ResumeFetch

PassStep ==
  \/ BeginReconcile \/ BeginRecovery \/ BeginOrphans \/ EndPass
  \/ \E d \in Deployments : VisitLease(d) \/ VisitOrphan(d) \/ RecoverRuntime(d)

Probing == ProbeGpus \/ ReadLedger

ControlPlane ==
  \/ Outage \/ Reconnect
  \/ \E d \in Deployments :
       CreateLease(d) \/ SuspendLease(d) \/ ResumeLease(d) \/ MoveLease(d) \/ EndLease(d)

Next ==
  \/ \E a \in Actors : Teardown(a)
  \/ \E a \in Routes, d \in Deployments : TerminateRequest(a, d)
  \/ StartStep \/ SuspendStep \/ ResumeStep \/ PassStep \/ Probing
  \/ Restart
  \/ ControlPlane
  \/ \E g \in Devices : Squat(g)

Spec == Init /\ [][Next]_vars

=============================================================================
