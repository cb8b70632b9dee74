--------------------------- MODULE Containers_proofs ---------------------------
(***************************************************************************)
(* Records, containers, volumes and cards of the node agent agree: proofs   *)
(* for any set of deployments and cards, any kinds and needs, and any       *)
(* number of outages, suspensions, recoveries, failed preparations and      *)
(* cards taken by others, of a process that is not killed, gets no          *)
(* terminate request, and whose docker commands succeed.                    *)
(***************************************************************************)
EXTENDS Serving_proofs

(* The assumption of the theorems: none of these faults is allowed.         *)
Calm == Routes = {} /\ \A k \in {"crash", "rm", "run"} : Budget[k] = 0

NoFaultLeft == \A k \in {"crash", "rm", "run"} : budget[k] = 0

-----------------------------------------------------------------------------
(* What a record implies about docker and the volume *)

Bare(d)      == cont[d].st = "none" /\ d \notin volDirs
Furnished(d) == IF Kind[d] = "pod" THEN d \in volDirs /\ d \in volRecords ELSE d \notin volDirs

(* The container r names, in state s; a VM has none.                        *)
Equipped(d, r, s) ==
  /\ Furnished(d)
  /\ IF Kind[d] = "vm"
       THEN cont[d].st = "none"
       ELSE cont[d].st = s /\ cont[d].id = r.cid /\ r.cid # 0 /\ cont[d].devs \subseteq r.devs

(* A suspended pod keeps its stopped container, everything else nothing.    *)
Parked(d, r) == IF Kind[d] = "pod" THEN Equipped(d, r, "stopped") ELSE Bare(d)

Settled(d) ==
  /\ runtimes[d].status \notin {"accepted", "starting"}
  /\ runtimes[d].status = "ready" => Equipped(d, runtimes[d], "running")
  /\ runtimes[d].status = "suspended" => Parked(d, runtimes[d])
  /\ runtimes[d].status \in {"none", "failed", "terminated"} => Bare(d)

(* Stages of a handler at which its deployment is not settled.              *)
MidLabels ==
  {"volume", "mark", "allocate", "prepare", "markStarting", "run", "markReady", "failRelease",
   "failMark", "susMark", "resStart", "resMark"}

OthersSettled == \A d \in Deployments : Settled(d) \/ (d = Dep /\ At(MidLabels))

(* The runtime copy of a handler is still the record.                       *)
CopiedStage == At({"release", "stop", "susRelease", "susStop", "resAlloc"}) => Rt = runtimes[Dep]

RecordStage ==
  /\ At({"susRelease", "susStop"}) => runtimes[Dep].status = "ready"
  /\ At({"resAlloc", "resGiveBack", "resFetch"}) => runtimes[Dep].status = "suspended"
  /\ At({"resGiveBack", "resFetch"}) => Kind[Dep] # "pod"
  /\ At({"tellTerminated", "remove"}) => runtimes[Dep].status = "terminated"
  /\ At({"dispatch"}) => runtimes[Dep].status = "none"

(* What is there while a deployment is started, resumed or torn down.       *)
MidStage ==
  /\ At({"volume"}) => cont[Dep].st = "none" /\ (Dep \in volDirs => Dep \in volRecords)
  /\ At({"mark", "allocate", "prepare", "failRelease", "failMark"}) => Bare(Dep)
  /\ At({"markStarting", "run"}) => cont[Dep].st = "none" /\ Furnished(Dep)
  /\ At({"markReady", "resMark"}) => Equipped(Dep, Rt, "running")
  /\ At({"susMark"}) => Parked(Dep, Rt)
  /\ At({"resStart"}) => Kind[Dep] = "pod" /\ Equipped(Dep, Rt, "stopped")
  /\ ~At({"resUndo", "resKeep"})

(* The snapshot of the clean-up and recovery loops is current for every     *)
(* deployment still to be visited, which is not the one in hand.            *)
SnapCurrent ==
  mode # "leases" =>
    \A d \in todo : snap[d] = runtimes[d] /\ (InHandler(Pass) => d # Dep)

(* Between release and stop the cards a container still uses are nobody's.  *)
StopStage ==
  At({"stop", "susStop"}) =>
    \A e \in Deployments : e # Dep => InUse(Dep) \cap alloc[e] = {}

Agrees ==
  OthersSettled /\ CopiedStage /\ RecordStage /\ MidStage /\ SnapCurrent /\ StopStage

(* The inductive invariant.                                                 *)
ContInv == TypeInv /\ ServeInv /\ NoOverlapInv /\ NoFaultLeft /\ Agrees

-----------------------------------------------------------------------------
(* No fault that is not allowed ever becomes possible.                      *)
LEMMA NoFaultStays ==
  ASSUME TypeInv, NoFaultLeft, [Next]_vars
  PROVE  NoFaultLeft' /\ \A k \in {"crash", "rm", "run"} : ~Spend(k)
<1>1. \A k \in {"crash", "rm", "run"} : ~Spend(k)
  BY DEF NoFaultLeft, Spend
<1>2. UNCHANGED budget \/ \E k \in Faults \ {"crash", "rm", "run"} : Spend(k)
  BY <1>1, SpendsOne
<1> QED
  BY <1>1, <1>2 DEF NoFaultLeft, Spend, TypeInv, AgentTypeOK, Faults

(* The types that matter here.                                              *)
Ground ==
  /\ Core /\ Pass \in Actors /\ Kind \in [Deployments -> {"pod", "inference", "vm"}]
  /\ cont \in [Deployments -> Container] /\ runs \in [Deployments -> Nat]
  /\ (InHandler(Pass) => Dep \in Deployments /\ Rt \in Record)

LEMMA GroundTypes == TypeInv => Ground
BY CoreTypes, NodeAssumption DEF Ground, TypeInv, AgentTypeOK

(* A handler changes only what belongs to its deployment ...                *)
OnlyOwn(d) ==
  \A e \in Deployments \ {d} :
    /\ runtimes'[e] = runtimes[e] /\ cont'[e] = cont[e]
    /\ e \in volDirs' <=> e \in volDirs
    /\ e \in volRecords' <=> e \in volRecords

(* ... and leaves every other deployment settled, and the snapshot current, *)
(* which has no entry for its own.                                          *)
LEMMA HandlerKeeps ==
  ASSUME TypeInv, OthersSettled, SnapCurrent, InHandler(Pass), NEW d \in Deployments, d = Dep,
         OnlyOwn(d), UNCHANGED <<mode, todo, snap>>,
         Dep' = d \/ pc'[Pass] = "next",
         Settled(d)' \/ (Dep' = d /\ At(MidLabels)')
  PROVE  OthersSettled' /\ SnapCurrent'
<1>1. ASSUME NEW e \in Deployments PROVE Settled(e)' \/ (e = Dep' /\ At(MidLabels)')
  <2>1. CASE e # d
    BY <2>1 DEF OthersSettled, OnlyOwn, Settled, Parked, Equipped, Furnished, Bare
  <2> QED
    BY <2>1
<1>2. \A e \in todo : e \in Deployments
  BY DEF TypeInv, AgentTypeOK
<1>3. SnapCurrent'
  BY <1>2 DEF SnapCurrent, OnlyOwn, InHandler
<1> QED
  BY <1>1, <1>3 DEF OthersSettled

(* A container uses only cards the ledger has for its deployment, unless    *)
(* they have just been released.                                            *)
LEMMA InUseIsOwned ==
  ASSUME Ground, Stages, OthersSettled, MidStage, NEW d \in Deployments,
         ~(d = Dep /\ At({"stop", "susStop"}))
  PROVE  InUse(d) \subseteq alloc[d]
<1>1. CASE Settled(d) /\ ~(d = Dep /\ At(MidLabels))
  <2>1. runtimes[d].status \in Statuses
    BY DEF Ground, Core, Record
  <2>2. CASE runtimes[d].status = "ready"
    <3>1. cont[d].st = "running" => cont[d].devs \subseteq runtimes[d].devs
      BY <1>1, <2>2 DEF Settled, Equipped
    <3>2. alloc[d] = runtimes[d].devs
      BY <1>1, <2>2 DEF Stages, OwnStage, DownHere, At, Down, MidLabels
    <3> QED
      BY <3>1, <3>2 DEF InUse
  <2>3. CASE runtimes[d].status # "ready"
    <3>1. cont[d].st # "running"
      BY <1>1, <2>1, <2>3 DEF Settled, Parked, Equipped, Bare, Statuses
    <3> QED
      BY <3>1 DEF InUse
  <2> QED
    BY <2>2, <2>3
<1>2. CASE d = Dep /\ At(MidLabels)
  <2>1. CASE At({"markReady", "resMark"})
    <3>1. Rt.devs = alloc[d]
      BY <1>2, <2>1 DEF Stages, HeldStage, At, HeldLabels
    <3> QED
      BY <1>2, <2>1, <3>1 DEF MidStage, Equipped, InUse
  <2>2. CASE ~At({"markReady", "resMark"})
    <3>1. cont[d].st # "running"
      BY <1>2, <2>2 DEF MidStage, At, MidLabels, Bare, Parked, Equipped
    <3> QED
      BY <3>1 DEF InUse
  <2> QED
    BY <2>1, <2>2
<1> QED
  BY <1>1, <1>2 DEF OthersSettled

(* _terminate_runtime: the container of a settled deployment is the one its *)
(* record names, and a pod's volume goes with it.                           *)
LEMMA TeardownAgrees ==
  ASSUME Ground, TypeInv, Agrees, Disjoint, Stages, Teardown(Pass), \A k \in {"crash", "rm", "run"} : ~Spend(k)
  PROVE  Agrees'
<1> USE DEF Agrees, Ground, Core, CopiedStage, RecordStage, MidStage, StopStage, At, MidLabels
<1>0. Dep = call[Pass].dep /\ Rt = call[Pass].rt
  BY DEF Dep, Rt
<1>d. PICK d \in Deployments : d = Dep
  BY DEF Teardown, TerminateRelease, TerminateStop, TerminateVolume, TerminateMark, TellTerminated,
         RemoveRuntime, InHandler
<1>1. CASE TerminateRelease(Pass)
  <2>1. /\ pc'[Pass] = "stop" /\ Dep' = d /\ Rt' = Rt /\ OnlyOwn(d) /\ InHandler(Pass)
        /\ UNCHANGED <<runtimes, volDirs, volRecords, cont, mode, todo, snap>>
    BY <1>0, <1>d, <1>1, PassMoves DEF TerminateRelease, OnlyOwn, InHandler, pass, docker
  <2>2. Settled(d)'
    BY <1>d, <1>1, <2>1 DEF TerminateRelease, OthersSettled, Settled, Parked, Equipped, Furnished, Bare
  <2>3. OthersSettled' /\ SnapCurrent'
    BY <1>d, <2>1, <2>2, HandlerKeeps
  <2>4. InUse(d) \subseteq alloc[d]
    BY <1>d, <1>1, InUseIsOwned DEF TerminateRelease
  <2>5. StopStage'
    BY <1>0, <1>d, <1>1, <2>1, <2>4 DEF TerminateRelease, Release, InUse, Disjoint
  <2> QED
    BY <1>d, <1>1, <2>1, <2>3, <2>5 DEF TerminateRelease
<1>2. CASE TerminateStop(Pass)
  <2>1. /\ pc'[Pass] = IF Rt.cid # 0 /\ Kind[d] = "pod" THEN "volume" ELSE "mark"
        /\ Dep' = d /\ Rt' = Rt /\ OnlyOwn(d) /\ InHandler(Pass)
        /\ UNCHANGED <<runtimes, volDirs, volRecords, mode, todo, snap>>
    BY <1>0, <1>d, <1>2, PassMoves DEF TerminateStop, RemoveContainer, OnlyOwn, InHandler, pass
  <2>2. Settled(d) /\ Rt = runtimes[d] /\ runtimes[d].status \in Statuses
    BY <1>d, <1>2 DEF TerminateStop, OthersSettled, Record
  <2>3. cont'[d].st = "none"
    <3>1. CASE Rt.cid # 0 /\ Kind[d] # "vm"
      <4>1. cont[d].id = Rt.cid \/ cont[d].st = "none"
        BY <2>2 DEF Settled, Parked, Equipped, Bare, Statuses
      <4>2. cont' = IF cont[d].id = Rt.cid THEN [cont EXCEPT ![d] = NoContainer] ELSE cont
        BY <1>0, <1>d, <1>2, <3>1 DEF TerminateStop, RemoveContainer
      <4> QED
        BY <1>d, <4>1, <4>2 DEF NoContainer
    <3>2. CASE ~(Rt.cid # 0 /\ Kind[d] # "vm")
      BY <1>0, <1>d, <1>2, <2>2, <3>2 DEF TerminateStop, Settled, Parked, Equipped, Bare, Statuses
    <3> QED
      BY <3>1, <3>2
  <2>4. Rt.cid # 0 /\ Kind[d] = "pod" => (d \in volDirs => d \in volRecords)
    BY <2>2 DEF Settled, Parked, Equipped, Furnished, Bare, Statuses
  <2>5. ~(Rt.cid # 0 /\ Kind[d] = "pod") => d \notin volDirs
    BY <2>2 DEF Settled, Parked, Equipped, Furnished, Bare, Statuses
  <2>6. OthersSettled' /\ SnapCurrent'
    BY <1>d, <2>1, HandlerKeeps
  <2> QED
    BY <2>1, <2>3, <2>4, <2>5, <2>6 DEF Bare
<1>3. CASE TerminateVolume(Pass)
  <2>1. /\ pc'[Pass] = "mark" /\ Dep' = d /\ Rt' = Rt /\ OnlyOwn(d) /\ InHandler(Pass)
        /\ UNCHANGED <<runtimes, cont, mode, todo, snap>>
    BY <1>0, <1>d, <1>3, PassMoves DEF TerminateVolume, DeleteVolumes, OnlyOwn, InHandler, pass, docker
  <2>2. OthersSettled' /\ SnapCurrent'
    BY <1>d, <2>1, HandlerKeeps
  <2>3. Bare(d)'
    BY <1>0, <1>d, <1>3, <2>1 DEF TerminateVolume, DeleteVolumes, Bare
  <2> QED
    BY <1>d, <1>3, <2>1, <2>2, <2>3 DEF Bare
<1>4. CASE TerminateMark(Pass)
  <2>1. /\ pc'[Pass] \in {"tellTerminated", "remove", "next"} /\ (Dep' = d \/ pc'[Pass] = "next")
        /\ OnlyOwn(d) /\ InHandler(Pass) /\ runtimes'[d].status = "terminated"
        /\ UNCHANGED <<volDirs, volRecords, cont, mode, todo, snap>>
    BY <1>0, <1>d, <1>4, PassMoves, WithFields
    DEF TerminateMark, AfterTeardown, Upsert, OnlyOwn, InHandler, pass, docker
  <2>2. Settled(d)'
    BY <1>d, <1>4, <2>1 DEF TerminateMark, Settled, Bare
  <2>3. OthersSettled' /\ SnapCurrent'
    BY <1>d, <2>1, <2>2, HandlerKeeps
  <2> QED
    BY <2>1, <2>3
<1>5. CASE TellTerminated(Pass)
  <2>1. /\ pc'[Pass] \in {"remove", "next"} /\ (Dep' = d \/ pc'[Pass] = "next")
        /\ OnlyOwn(d) /\ InHandler(Pass)
        /\ UNCHANGED <<runtimes, volDirs, volRecords, cont, mode, todo, snap>>
    BY <1>0, <1>d, <1>5, PassMoves DEF TellTerminated, AfterTeardown, OnlyOwn, InHandler, pass, docker
  <2>2. Settled(d)'
    BY <1>d, <1>5, <2>1 DEF TellTerminated, OthersSettled, Settled, Parked, Equipped, Furnished, Bare
  <2>3. OthersSettled' /\ SnapCurrent'
    BY <1>d, <2>1, <2>2, HandlerKeeps
  <2> QED
    BY <1>d, <1>5, <2>1, <2>3 DEF TellTerminated
<1>6. CASE RemoveRuntime(Pass)
  <2>1. /\ pc'[Pass] \in {"dispatch", "next"} /\ (Dep' = d \/ pc'[Pass] = "next")
        /\ OnlyOwn(d) /\ InHandler(Pass) /\ runtimes'[d].status = "none"
        /\ UNCHANGED <<volDirs, volRecords, cont, mode, todo, snap>>
    BY <1>0, <1>d, <1>6, PassMoves, RecordTypes
    DEF RemoveRuntime, Upsert, Frame, NoRecord, OnlyOwn, InHandler, pass, docker
  <2>2. Settled(d)'
    BY <1>d, <1>6, <2>1 DEF RemoveRuntime, OthersSettled, Settled, Bare
  <2>3. OthersSettled' /\ SnapCurrent'
    BY <1>d, <2>1, <2>2, HandlerKeeps
  <2> QED
    BY <2>1, <2>3
<1> QED
  BY <1>1, <1>2, <1>3, <1>4, <1>5, <1>6 DEF Teardown

(* The start handlers and _fail_runtime: a container and a volume come with *)
(* their record, and a preparation that fails leaves neither.               *)
LEMMA StartAgrees ==
  ASSUME Ground, TypeInv, Agrees, Stages, StartStep, \A k \in {"crash", "rm", "run"} : ~Spend(k)
  PROVE  Agrees'
<1> USE DEF Agrees, Ground, Core, CopiedStage, RecordStage, MidStage, StopStage, At, MidLabels
<1>d. PICK d \in Deployments : d = Dep
  BY DEF StartStep, DispatchFails, DispatchAccepts, AllocateGpus, CreateVolume, StageArtifact,
         MarkStarting, RunOk, RunFails, MarkReady, TellReady, FailRelease, FailMark, TellFailed, InHandler
<1>1. CASE DispatchFails
  <2>1. /\ pc'[Pass] = "tellFailed" /\ Dep' = d /\ OnlyOwn(d) /\ InHandler(Pass)
        /\ UNCHANGED <<runtimes, volDirs, volRecords, cont, mode, todo, snap>>
    BY <1>d, <1>1, PassMoves DEF DispatchFails, OnlyOwn, InHandler, pass, docker
  <2>2. Settled(d)'
    BY <1>d, <1>1, <2>1 DEF DispatchFails, OthersSettled, Settled, Parked, Equipped, Furnished, Bare
  <2>3. OthersSettled' /\ SnapCurrent'
    BY <1>d, <2>1, <2>2, HandlerKeeps
  <2> QED
    BY <1>d, <1>1, <2>1, <2>3 DEF DispatchFails
<1>2. CASE DispatchAccepts
  <2>1. /\ pc'[Pass] = "allocate" /\ Dep' = d /\ OnlyOwn(d) /\ InHandler(Pass)
        /\ UNCHANGED <<volDirs, volRecords, cont, mode, todo, snap>>
    BY <1>d, <1>2, PassMoves DEF DispatchAccepts, Upsert, OnlyOwn, InHandler, pass, docker
  <2>2. Bare(d)
    BY <1>d, <1>2 DEF DispatchAccepts, OthersSettled, Settled
  <2>3. OthersSettled' /\ SnapCurrent'
    BY <1>d, <2>1, HandlerKeeps
  <2> QED
    BY <2>1, <2>2, <2>3 DEF Bare
<1>3. CASE AllocateGpus
  <2>1. /\ pc'[Pass] \in {"markStarting", "prepare", "failRelease"}
        /\ pc'[Pass] = "markStarting" => Kind[d] = "vm"
        /\ Dep' = d /\ OnlyOwn(d) /\ InHandler(Pass)
        /\ UNCHANGED <<runtimes, volDirs, volRecords, cont, mode, todo, snap>>
    BY <1>d, <1>3, PassMoves DEF AllocateGpus, OnlyOwn, InHandler, pass, docker, plan
  <2>2. OthersSettled' /\ SnapCurrent'
    BY <1>d, <2>1, HandlerKeeps
  <2>3. Bare(d)' /\ (Kind[d] = "vm" => Furnished(d)')
    BY <1>d, <1>3, <2>1 DEF AllocateGpus, Bare, Furnished
  <2> QED
    BY <2>1, <2>2, <2>3 DEF Bare
<1>4. CASE CreateVolume
  <2>1. /\ pc'[Pass] \in {"markStarting", "failRelease"} /\ Dep' = d /\ OnlyOwn(d) /\ InHandler(Pass)
        /\ UNCHANGED <<runtimes, cont, mode, todo, snap>>
    BY <1>d, <1>4, PassMoves DEF CreateVolume, MakeVolume, OnlyOwn, InHandler, pass, docker
  <2>2. OthersSettled' /\ SnapCurrent'
    BY <1>d, <2>1, HandlerKeeps
  <2>3. cont'[d].st = "none"
    BY <1>d, <1>4, <2>1 DEF CreateVolume, Bare
  <2>4. pc'[Pass] = "markStarting" => Furnished(d)'
    BY <1>d, <1>4, PassMoves DEF CreateVolume, MakeVolume, Furnished
  <2>5. pc'[Pass] = "failRelease" => d \notin volDirs'
    BY <1>d, <1>4, PassMoves DEF CreateVolume, Bare
  <2> QED
    BY <2>1, <2>2, <2>3, <2>4, <2>5 DEF Bare
<1>5. CASE StageArtifact
  <2>1. /\ pc'[Pass] \in {"markStarting", "failRelease"} /\ Dep' = d /\ OnlyOwn(d) /\ InHandler(Pass)
        /\ UNCHANGED <<runtimes, volDirs, volRecords, cont, mode, todo, snap>>
    BY <1>d, <1>5, PassMoves DEF StageArtifact, OnlyOwn, InHandler, pass, docker
  <2>2. OthersSettled' /\ SnapCurrent'
    BY <1>d, <2>1, HandlerKeeps
  <2>3. Bare(d)' /\ Furnished(d)'
    BY <1>d, <1>5, <2>1 DEF StageArtifact, Bare, Furnished
  <2> QED
    BY <2>1, <2>2, <2>3 DEF Bare
<1>6. CASE MarkStarting
  <2>1. /\ pc'[Pass] = "run" /\ Dep' = d /\ OnlyOwn(d) /\ InHandler(Pass)
        /\ UNCHANGED <<volDirs, volRecords, cont, mode, todo, snap>>
    BY <1>d, <1>6, PassMoves DEF MarkStarting, Upsert, OnlyOwn, InHandler, pass, docker
  <2>2. OthersSettled' /\ SnapCurrent'
    BY <1>d, <2>1, HandlerKeeps
  <2>3. Furnished(d)'
    BY <1>d, <1>6, <2>1 DEF MarkStarting, Furnished
  <2> QED
    BY <1>d, <1>6, <2>1, <2>2, <2>3 DEF MarkStarting
<1>7. CASE RunOk
  <2>1. /\ pc'[Pass] = "markReady" /\ Dep' = d /\ OnlyOwn(d) /\ InHandler(Pass)
        /\ UNCHANGED <<runtimes, volDirs, volRecords, mode, todo, snap>>
    BY <1>d, <1>7, PassMoves DEF RunOk, OnlyOwn, InHandler, pass, docker
  <2>2. OthersSettled' /\ SnapCurrent'
    BY <1>d, <2>1, HandlerKeeps
  <2>3. Rt'.cid = runs[d] + 1 /\ Rt'.devs = Rt.devs /\ runs[d] + 1 # 0
    <3>1. Rt' = [Rt EXCEPT !.cid = runs[d] + 1] /\ Rt \in Record
      BY <1>d, <1>7, PassMoves DEF RunOk, InHandler
    <3> QED
      BY <3>1 DEF Record
  <2>4. Furnished(d)'
    BY <1>d, <1>7, <2>1 DEF RunOk, Furnished
  <2>5. Equipped(d, Rt, "running")'
    BY <1>d, <1>7, <2>3, <2>4 DEF RunOk, NewContainer, Equipped
  <2> QED
    BY <2>1, <2>2, <2>5
<1>8. CASE RunFails
  BY <1>d, <1>8 DEF RunFails
<1>9. CASE MarkReady
  <2>1. /\ pc'[Pass] = "tellReady" /\ Dep' = d /\ OnlyOwn(d) /\ InHandler(Pass)
        /\ runtimes'[d] = With(Rt, "ready") /\ Rt \in Record
        /\ UNCHANGED <<volDirs, volRecords, cont, mode, todo, snap>>
    BY <1>d, <1>9, PassMoves DEF MarkReady, Upsert, OnlyOwn, InHandler, pass, docker
  <2>2. Settled(d)'
    BY <1>d, <1>9, <2>1, WithFields DEF MarkReady, Settled, Equipped, Furnished
  <2>3. OthersSettled' /\ SnapCurrent'
    BY <1>d, <2>1, <2>2, HandlerKeeps
  <2> QED
    BY <2>1, <2>3
<1>10. CASE TellReady
  <2>1. /\ pc'[Pass] = "next" /\ OnlyOwn(d) /\ InHandler(Pass)
        /\ UNCHANGED <<runtimes, volDirs, volRecords, cont, mode, todo, snap>>
    BY <1>d, <1>10, PassMoves DEF TellReady, OnlyOwn, InHandler, pass, docker
  <2>2. Settled(d)'
    BY <1>d, <1>10, <2>1 DEF TellReady, OthersSettled, Settled, Parked, Equipped, Furnished, Bare
  <2>3. OthersSettled' /\ SnapCurrent'
    BY <1>d, <2>1, <2>2, HandlerKeeps
  <2> QED
    BY <2>1, <2>3
<1>11. CASE FailRelease
  <2>1. /\ pc'[Pass] = "failMark" /\ Dep' = d /\ OnlyOwn(d) /\ InHandler(Pass)
        /\ UNCHANGED <<runtimes, volDirs, volRecords, cont, mode, todo, snap>>
    BY <1>d, <1>11, PassMoves DEF FailRelease, OnlyOwn, InHandler, pass, docker
  <2>2. OthersSettled' /\ SnapCurrent'
    BY <1>d, <2>1, HandlerKeeps
  <2>3. Bare(d)'
    BY <1>d, <1>11, <2>1 DEF FailRelease, Bare
  <2> QED
    BY <2>1, <2>2, <2>3 DEF Bare
<1>12. CASE FailMark
  <2>1. /\ pc'[Pass] = "tellFailed" /\ Dep' = d /\ OnlyOwn(d) /\ InHandler(Pass)
        /\ runtimes'[d].status = "failed"
        /\ UNCHANGED <<volDirs, volRecords, cont, mode, todo, snap>>
    BY <1>d, <1>12, PassMoves, WithFields DEF FailMark, Upsert, OnlyOwn, InHandler, pass, docker
  <2>2. Settled(d)'
    BY <1>d, <1>12, <2>1 DEF FailMark, Settled, Bare
  <2>3. OthersSettled' /\ SnapCurrent'
    BY <1>d, <2>1, <2>2, HandlerKeeps
  <2> QED
    BY <2>1, <2>3
<1>13. CASE TellFailed
  <2>1. /\ pc'[Pass] = "next" /\ OnlyOwn(d) /\ InHandler(Pass)
        /\ UNCHANGED <<runtimes, volDirs, volRecords, cont, mode, todo, snap>>
    BY <1>d, <1>13, PassMoves DEF TellFailed, OnlyOwn, InHandler, pass, docker
  <2>2. Settled(d)'
    BY <1>d, <1>13, <2>1 DEF TellFailed, OthersSettled, Settled, Parked, Equipped, Furnished, Bare
  <2>3. OthersSettled' /\ SnapCurrent'
    BY <1>d, <2>1, <2>2, HandlerKeeps
  <2> QED
    BY <2>1, <2>3
<1> QED
  BY <1>1, <1>2, <1>3, <1>4, <1>5, <1>6, <1>7, <1>8, <1>9, <1>10, <1>11, <1>12, <1>13 DEF StartStep

(* _suspend_runtime: the container of a ready record is stopped, or removed *)
(* with its id taken out of the record.                                     *)
LEMMA SuspendAgrees ==
  ASSUME Ground, TypeInv, Agrees, Disjoint, Stages, SuspendStep, \A k \in {"crash", "rm", "run"} : ~Spend(k)
  PROVE  Agrees'
<1> USE DEF Agrees, Ground, Core, CopiedStage, RecordStage, MidStage, StopStage, At, MidLabels
<1>d. PICK d \in Deployments : d = Dep
  BY DEF SuspendStep, SuspendRelease, SuspendStop, SuspendMark, TellSuspended, InHandler
<1>1. CASE SuspendRelease
  <2>1. /\ pc'[Pass] = "susStop" /\ Dep' = d /\ Rt' = Rt /\ OnlyOwn(d) /\ InHandler(Pass)
        /\ UNCHANGED <<runtimes, volDirs, volRecords, cont, mode, todo, snap>>
    BY <1>d, <1>1, PassMoves DEF SuspendRelease, OnlyOwn, InHandler, pass, docker
  <2>2. Settled(d)'
    BY <1>d, <1>1, <2>1 DEF SuspendRelease, OthersSettled, Settled, Parked, Equipped, Furnished, Bare
  <2>3. OthersSettled' /\ SnapCurrent'
    BY <1>d, <2>1, <2>2, HandlerKeeps
  <2>4. InUse(d) \subseteq alloc[d]
    BY <1>d, <1>1, InUseIsOwned DEF SuspendRelease
  <2>5. StopStage'
    BY <1>d, <1>1, <2>1, <2>4 DEF SuspendRelease, Release, InUse, Disjoint
  <2> QED
    BY <1>d, <1>1, <2>1, <2>3, <2>5 DEF SuspendRelease
<1>2. CASE SuspendStop
  <2>1. /\ pc'[Pass] = "susMark" /\ Dep' = d /\ Rt' = SuspendedRecord(Rt) /\ OnlyOwn(d) /\ InHandler(Pass)
        /\ UNCHANGED <<runtimes, volDirs, volRecords, mode, todo, snap>>
    BY <1>d, <1>2, PassMoves DEF SuspendStop, PauseContainer, RemoveContainer, OnlyOwn, InHandler, pass
  <2>2. OthersSettled' /\ SnapCurrent'
    BY <1>d, <2>1, HandlerKeeps
  <2>3. Equipped(d, Rt, "running") /\ Rt \in Record
    BY <1>d, <1>2 DEF SuspendStop, OthersSettled, Settled, InHandler
  <2>4. CASE Kind[d] = "pod"
    <3>1. Rt'.cid = Rt.cid /\ Rt'.devs = Rt.devs
      BY <1>d, <2>1, <2>3, <2>4 DEF SuspendedRecord, With, Record
    <3>2. cont' = [cont EXCEPT ![d].st = "stopped"]
      BY <1>d, <1>2, <2>3, <2>4 DEF SuspendStop, PauseContainer, Equipped
    <3>3. cont'[d] = [cont[d] EXCEPT !.st = "stopped"]
      BY <3>2
    <3>4. cont'[d].st = "stopped" /\ cont'[d].id = cont[d].id /\ cont'[d].devs = cont[d].devs
      BY <3>3 DEF Container
    <3>5. Equipped(d, Rt, "stopped")'
      BY <2>1, <2>3, <2>4, <3>1, <3>4 DEF Equipped, Furnished
    <3> QED
      BY <2>1, <2>2, <2>4, <3>5 DEF Parked
  <2>5. CASE Kind[d] # "pod"
    <3>1. ASSUME Kind[d] = "inference" PROVE Bare(d)'
      <4>1. cont' = [cont EXCEPT ![d] = NoContainer]
        BY <1>d, <1>2, <2>3, <3>1 DEF SuspendStop, RemoveContainer, Equipped
      <4> QED
        BY <2>1, <2>3, <3>1, <4>1 DEF NoContainer, Bare, Equipped, Furnished
    <3>2. ASSUME Kind[d] = "vm" PROVE Bare(d)'
      BY <1>d, <1>2, <2>1, <2>3, <3>2 DEF SuspendStop, Bare, Equipped, Furnished
    <3>3. Bare(d)'
      BY <2>5, <3>1, <3>2
    <3> QED
      BY <2>1, <2>2, <2>5, <3>3 DEF Parked
  <2> QED
    BY <2>4, <2>5
<1>3. CASE SuspendMark
  <2>1. /\ pc'[Pass] = "tellSuspended" /\ Dep' = d /\ OnlyOwn(d) /\ InHandler(Pass) /\ runtimes'[d] = Rt
        /\ UNCHANGED <<volDirs, volRecords, cont, mode, todo, snap>>
    BY <1>d, <1>3, PassMoves DEF SuspendMark, Upsert, OnlyOwn, InHandler, pass, docker
  <2>2. Rt.status = "suspended"
    BY <1>3 DEF SuspendMark, Stages, CopyStage
  <2>3. Settled(d)'
    BY <1>d, <1>3, <2>1, <2>2 DEF SuspendMark, Settled, Parked, Equipped, Furnished, Bare
  <2>4. OthersSettled' /\ SnapCurrent'
    BY <1>d, <2>1, <2>3, HandlerKeeps
  <2> QED
    BY <2>1, <2>4
<1>4. CASE TellSuspended
  <2>1. /\ pc'[Pass] = "next" /\ OnlyOwn(d) /\ InHandler(Pass)
        /\ UNCHANGED <<runtimes, volDirs, volRecords, cont, mode, todo, snap>>
    BY <1>d, <1>4, PassMoves DEF TellSuspended, OnlyOwn, InHandler, pass, docker
  <2>2. Settled(d)'
    BY <1>d, <1>4, <2>1 DEF TellSuspended, OthersSettled, Settled, Parked, Equipped, Furnished, Bare
  <2>3. OthersSettled' /\ SnapCurrent'
    BY <1>d, <2>1, <2>2, HandlerKeeps
  <2> QED
    BY <2>1, <2>3
<1> QED
  BY <1>1, <1>2, <1>3, <1>4 DEF SuspendStep

(* _resume_runtime: docker start finds the stopped container of the record, *)
(* so nothing has to be undone; without a container it starts over.         *)
LEMMA ResumeAgrees ==
  ASSUME Ground, TypeInv, Agrees, Stages, ResumeStep, \A k \in {"crash", "rm", "run"} : ~Spend(k)
  PROVE  Agrees'
<1> USE DEF Agrees, Ground, Core, CopiedStage, RecordStage, MidStage, StopStage, At, MidLabels
<1>d. PICK d \in Deployments : d = Dep
  BY DEF ResumeStep, ResumeAllocate, ResumeStart, ResumeMark, ResumeUndo, ResumeKeep, ResumeGiveBack,
         ResumeFetch, InHandler
<1>1. CASE ResumeAllocate
  <2>1. Settled(d) /\ Rt = runtimes[d] /\ Rt \in Record /\ runtimes[d].status = "suspended"
    BY <1>d, <1>1 DEF ResumeAllocate, OthersSettled, InHandler
  <2>2. /\ \/ pc'[Pass] = "next"
           \/ Dep' = d /\ pc'[Pass] = IF Kind[d] = "pod" THEN "resStart" ELSE "resGiveBack"
        /\ OnlyOwn(d) /\ InHandler(Pass)
        /\ UNCHANGED <<runtimes, volDirs, volRecords, cont, mode, todo, snap>>
    BY <1>d, <1>1, PassMoves DEF ResumeAllocate, OnlyOwn, InHandler, pass, docker, plan
  <2>3. Settled(d)'
    BY <2>1, <2>2 DEF Settled, Parked, Equipped, Furnished, Bare
  <2>4. OthersSettled' /\ SnapCurrent'
    BY <1>d, <2>2, <2>3, HandlerKeeps
  <2>5. ASSUME pc'[Pass] = "resStart" PROVE Kind[d] = "pod" /\ Equipped(d, Rt, "stopped")'
    <3>1. Rt'.cid = Rt.cid /\ (Rt.devs = {} \/ Rt'.devs = Rt.devs)
      <4>1. CASE Goto(Pass, "resStart")
        BY <4>1, PassMoves
      <4>2. ASSUME NEW avoid, ~Pinned, GotoRt(Pass, "resStart", [Rt EXCEPT !.devs = Chosen(1, avoid)]),
                   Kind[d] = "pod"
            PROVE  Rt'.cid = Rt.cid /\ Rt.devs = {}
        <5>1. Rt' = [Rt EXCEPT !.devs = Chosen(1, avoid)]
          BY <4>2, PassMoves
        <5> QED
          BY <1>d, <2>1, <4>2, <5>1 DEF Pinned, Record
      <4> QED
        BY <1>d, <1>1, <2>2, <2>5, <4>1, <4>2, PassMoves DEF ResumeAllocate
    <3>2. Kind[d] = "pod" /\ Equipped(d, Rt, "stopped")
      BY <2>1, <2>2, <2>5 DEF Settled, Parked
    <3> QED
      BY <2>2, <3>1, <3>2 DEF Equipped, Furnished
  <2>6. pc'[Pass] = "resGiveBack" => Kind[d] # "pod"
    BY <2>2
  <2> QED
    BY <2>1, <2>2, <2>4, <2>5, <2>6
<1>2. CASE ResumeStart
  <2>1. Equipped(d, Rt, "stopped") /\ Kind[d] = "pod" /\ Rt \in Record
    BY <1>d, <1>2 DEF ResumeStart, InHandler
  <2>2. cont' = [cont EXCEPT ![d].st = "running"] /\ GotoRt(Pass, "resMark", With(Rt, "ready"))
    BY <1>d, <1>2, <2>1 DEF ResumeStart, Equipped
  <2>3. /\ pc'[Pass] = "resMark" /\ Dep' = d /\ Rt' = With(Rt, "ready") /\ OnlyOwn(d) /\ InHandler(Pass)
        /\ UNCHANGED <<runtimes, volDirs, volRecords, mode, todo, snap>>
    BY <1>d, <1>2, <2>2, PassMoves DEF ResumeStart, OnlyOwn, InHandler, pass
  <2>4. OthersSettled' /\ SnapCurrent'
    BY <1>d, <2>3, HandlerKeeps
  <2>5. cont'[d].st = "running" /\ cont'[d].id = cont[d].id /\ cont'[d].devs = cont[d].devs
    <3>1. cont'[d] = [cont[d] EXCEPT !.st = "running"]
      BY <2>2
    <3> QED
      BY <3>1 DEF Container
  <2>6. Equipped(d, Rt, "running")'
    BY <2>1, <2>3, <2>5, WithFields DEF Equipped, Furnished
  <2> QED
    BY <2>3, <2>4, <2>6
<1>3. CASE ResumeMark
  <2>1. /\ pc'[Pass] = "tellReady" /\ Dep' = d /\ OnlyOwn(d) /\ InHandler(Pass) /\ runtimes'[d] = Rt
        /\ UNCHANGED <<volDirs, volRecords, cont, mode, todo, snap>>
    BY <1>d, <1>3, PassMoves DEF ResumeMark, Upsert, OnlyOwn, InHandler, pass, docker
  <2>2. Rt.status = "ready"
    BY <1>3 DEF ResumeMark, Stages, CopyStage
  <2>3. Settled(d)'
    BY <1>d, <1>3, <2>1, <2>2 DEF ResumeMark, Settled, Equipped, Furnished
  <2>4. OthersSettled' /\ SnapCurrent'
    BY <1>d, <2>1, <2>3, HandlerKeeps
  <2> QED
    BY <2>1, <2>4
<1>4. CASE ResumeUndo \/ ResumeKeep
  BY <1>4 DEF ResumeUndo, ResumeKeep
<1>5. CASE ResumeGiveBack
  <2>1. /\ pc'[Pass] = "resFetch" /\ Dep' = d /\ OnlyOwn(d) /\ InHandler(Pass)
        /\ UNCHANGED <<runtimes, volDirs, volRecords, cont, mode, todo, snap>>
    BY <1>d, <1>5, PassMoves DEF ResumeGiveBack, OnlyOwn, InHandler, pass, docker
  <2>2. Settled(d)'
    BY <1>d, <1>5, <2>1 DEF ResumeGiveBack, OthersSettled, Settled, Parked, Equipped, Furnished, Bare
  <2>3. OthersSettled' /\ SnapCurrent'
    BY <1>d, <2>1, <2>2, HandlerKeeps
  <2> QED
    BY <1>d, <1>5, <2>1, <2>3 DEF ResumeGiveBack
<1>6. CASE ResumeFetch
  <2>1. Bare(d) /\ Settled(d)
    BY <1>d, <1>6 DEF ResumeFetch, OthersSettled, Settled, Parked
  <2>2. /\ \/ pc'[Pass] = "next" /\ runtimes' = runtimes
           \/ pc'[Pass] = "allocate" /\ Dep' = d
        /\ OnlyOwn(d) /\ InHandler(Pass)
        /\ UNCHANGED <<volDirs, volRecords, cont, mode, todo, snap>>
    BY <1>d, <1>6, PassMoves DEF ResumeFetch, Upsert, OnlyOwn, InHandler, pass, docker
  <2>3. pc'[Pass] = "next" /\ runtimes' = runtimes => Settled(d)'
    BY <2>1, <2>2 DEF Settled, Parked, Equipped, Furnished, Bare
  <2>4. OthersSettled' /\ SnapCurrent'
    BY <1>d, <2>2, <2>3, HandlerKeeps
  <2> QED
    BY <2>1, <2>2, <2>4 DEF Bare
<1> QED
  BY <1>1, <1>2, <1>3, <1>4, <1>5, <1>6 DEF ResumeStep

(* Between two handlers every deployment is settled; a handler is entered   *)
(* with the current record.                                                 *)
LEMMA EnterAgrees ==
  ASSUME Ground, Agrees, pc[Pass] \in {"idle", "next"},
         UNCHANGED <<runtimes, volDirs, volRecords, cont>>, SnapCurrent',
         NEW l, NEW f, Enter(Pass, l, f),
         \/ l \in {"idle", "next"}
         \/ l = "release" /\ f.rt = runtimes[f.dep]
         \/ l = "susRelease" /\ f.rt = runtimes[f.dep] /\ runtimes[f.dep].status = "ready"
         \/ l = "resAlloc" /\ f.rt = runtimes[f.dep] /\ runtimes[f.dep].status = "suspended"
         \/ l = "dispatch" /\ runtimes[f.dep].status = "none"
  PROVE  Agrees'
<1>1. pc'[Pass] = l /\ Dep' = f.dep /\ Rt' = f.rt
  BY PassMoves DEF Ground
<1>2. OthersSettled'
  BY DEF Agrees, OthersSettled, At, MidLabels, Settled, Parked, Equipped, Furnished, Bare
<1>3. CopiedStage' /\ RecordStage'
  BY <1>1 DEF CopiedStage, RecordStage, At
<1>4. MidStage' /\ StopStage'
  BY <1>1 DEF MidStage, StopStage, At
<1> QED
  BY <1>2, <1>3, <1>4 DEF Agrees

(* Where control, ledger, records, containers and volumes stay as they are, *)
(* so does their agreement.                                                 *)
LEMMA StillAgrees ==
  ASSUME Agrees, SnapCurrent', UNCHANGED <<alloc, runtimes, volDirs, volRecords, cont, pc, call>>
  PROVE  Agrees'
<1>1. Dep' = Dep /\ Rt' = Rt
  BY DEF Dep, Rt
<1>2. OthersSettled' /\ CopiedStage' /\ RecordStage'
  BY <1>1 DEF Agrees, OthersSettled, CopiedStage, RecordStage, At, Settled, Parked, Equipped, Furnished, Bare
<1>3. MidStage' /\ StopStage'
  BY <1>1 DEF Agrees, MidStage, StopStage, At, InUse, Parked, Equipped, Furnished, Bare
<1> QED
  BY <1>2, <1>3 DEF Agrees

(* The loops of the pass: no runtime is ever found in the middle of a       *)
(* start, and what the snapshot says of a runtime is still so when its turn *)
(* comes.                                                                   *)
LEMMA PassAgrees ==
  ASSUME Ground, TypeInv, Agrees, PassStep
  PROVE  Agrees'
<1>0. UNCHANGED <<alloc, runtimes, volDirs, volRecords, cont>> /\ pc[Pass] \in {"idle", "next"}
  BY DEF PassStep, BeginReconcile, BeginRecovery, BeginOrphans, EndPass, VisitLease, VisitOrphan,
         RecoverRuntime, docker
<1>s. \A d \in Deployments : Settled(d)
  BY <1>0 DEF Agrees, OthersSettled, At, MidLabels
<1>1. CASE BeginReconcile
  <2>1. SnapCurrent'
    BY <1>1 DEF BeginReconcile, SnapCurrent
  <2> QED
    BY <1>0, <1>1, <2>1, EnterAgrees DEF BeginReconcile, Return
<1>2. CASE BeginRecovery
  <2>1. pc'[Pass] = "next" /\ snap' = [d \in Deployments |-> Kept(d)] /\ todo' \subseteq Deployments
    BY <1>2, PassMoves DEF BeginRecovery, Ground
  <2>2. SnapCurrent'
    BY <1>0, <2>1 DEF SnapCurrent, Kept, InHandler
  <2> QED
    BY <1>0, <1>2, <2>2, EnterAgrees DEF BeginRecovery, Return
<1>3. CASE BeginOrphans
  <2>1. pc' = pc /\ call' = call /\ snap' = [d \in Deployments |-> Kept(d)] /\ todo' \subseteq Deployments
    BY <1>3 DEF BeginOrphans, OrphanCandidates, threads
  <2>2. SnapCurrent'
    BY <1>0, <2>1 DEF SnapCurrent, Kept, InHandler
  <2> QED
    BY <1>0, <2>1, <2>2, StillAgrees
<1>4. CASE EndPass
  <2>1. SnapCurrent'
    BY <1>4 DEF EndPass, SnapCurrent
  <2> QED
    BY <1>0, <1>4, <2>1, EnterAgrees DEF EndPass
<1>5. ASSUME NEW d \in Deployments, VisitLease(d) PROVE Agrees'
  <2>1. SnapCurrent'
    BY <1>5 DEF VisitLease, SnapCurrent
  <2>2. \A rep, th : Frame(d, runtimes[d], rep, th).dep = d /\ Frame(d, runtimes[d], rep, th).rt = runtimes[d]
    BY DEF Frame
  <2>3. runtimes[d].status \notin {"accepted", "starting"}
    BY <1>s DEF Settled
  <2>4. \/ runtimes[d].status = "ready" /\ Enter(Pass, "susRelease", Frame(d, runtimes[d], FALSE, "done"))
        \/ runtimes[d].status = "suspended" /\ Enter(Pass, "resAlloc", Frame(d, runtimes[d], FALSE, "done"))
        \/ runtimes[d].status = "none" /\ Enter(Pass, "dispatch", Frame(d, runtimes[d], FALSE, "done"))
        \/ UNCHANGED <<pc, call>>
    BY <1>5, <2>3 DEF VisitLease, Suspendable, threads
  <2> QED
    BY <1>0, <2>1, <2>2, <2>4, EnterAgrees, StillAgrees
<1>6. ASSUME NEW d \in Deployments, VisitOrphan(d) \/ RecoverRuntime(d) PROVE Agrees'
  <2>1. snap[d] = runtimes[d]
    BY <1>6 DEF VisitOrphan, RecoverRuntime, Agrees, SnapCurrent
  <2>2. \A rep, th : Frame(d, snap[d], rep, th).dep = d /\ Frame(d, snap[d], rep, th).rt = runtimes[d]
    BY <2>1 DEF Frame
  <2>3. (\E rep, th : Enter(Pass, "release", Frame(d, snap[d], rep, th))) \/ UNCHANGED <<pc, call>>
    BY <1>6 DEF VisitOrphan, RecoverRuntime, threads
  <2>4. /\ todo' = todo \ {d} /\ snap' = [snap EXCEPT ![d] = NoRecord] /\ mode' = mode
        /\ snap \in [Deployments -> Record] /\ todo \subseteq Deployments /\ mode # "leases"
    BY <1>6 DEF VisitOrphan, RecoverRuntime, TypeInv, AgentTypeOK
  <2>5. Dep' = d \/ ~InHandler(Pass)'
    BY <1>0, <2>2, <2>3, PassMoves DEF InHandler, Ground
  <2>6. SnapCurrent'
    BY <1>0, <2>4, <2>5 DEF Agrees, SnapCurrent
  <2> QED
    BY <1>0, <2>2, <2>3, <2>6, EnterAgrees, StillAgrees
<1> QED
  BY <1>1, <1>2, <1>3, <1>4, <1>5, <1>6 DEF PassStep

(* The control plane and other tenants touch neither records nor docker.    *)
LEMMA EnvironmentAgrees ==
  ASSUME Agrees, Probing \/ ControlPlane \/ \E g \in Devices : Squat(g)
  PROVE  Agrees'
<1>1. UNCHANGED <<alloc, runtimes, volDirs, volRecords, cont, pc, call, mode, todo, snap>>
  BY ProbingReads
  DEF ControlPlane, Outage, Reconnect, CreateLease, SuspendLease, ResumeLease, MoveLease, EndLease,
         Squat, agent, threads, pass, docker
<1>2. SnapCurrent'
  BY <1>1 DEF Agrees, SnapCurrent, InHandler, Dep
<1> QED
  BY <1>1, <1>2, StillAgrees

-----------------------------------------------------------------------------
(* ContInv is inductive, and what it implies *)

(* A fresh agent has no records, no containers and no volumes.              *)
LEMMA InitCont == ASSUME Calm PROVE Init => ContInv
<1> SUFFICES ASSUME Init PROVE ContInv
  OBVIOUS
<1>1. NoOverlapInv
  BY InitNoOverlap
<1>2. NoFaultLeft
  BY DEF Init, Calm, NoFaultLeft
<1>3. pc[Pass] = "idle" /\ mode = "leases"
  BY DEF Init, Actors
<1>4. \A d \in Deployments : Settled(d)
  BY DEF Init, Settled, Bare, NoRecord, NoContainer
<1>5. CopiedStage /\ RecordStage /\ MidStage /\ StopStage /\ SnapCurrent
  BY <1>3 DEF CopiedStage, RecordStage, MidStage, StopStage, SnapCurrent, At
<1> QED
  BY <1>1, <1>2, <1>4, <1>5, InitTypeInv, InitServe DEF ContInv, Agrees, OthersSettled

(* One step per part of the next-state relation; a restart would be a crash.*)
LEMMA ContInductive == ASSUME Calm PROVE ContInv /\ [Next]_vars => ContInv'
<1> SUFFICES ASSUME ContInv, [Next]_vars PROVE ContInv'
  OBVIOUS
<1>1. TypeInv' /\ ServeInv' /\ NoOverlapInv'
  BY TypeInvInductive, ServeInductive, NoOverlapInductive DEF ContInv, Calm
<1>2. NoFaultLeft' /\ \A k \in {"crash", "rm", "run"} : ~Spend(k)
  BY NoFaultStays DEF ContInv
<1>3. Ground /\ Stages /\ Agrees /\ Disjoint /\ Routes = {}
  <2>1. Stages
    BY OwnStageIsOwnership DEF ContInv, ServeInv, Stages, Calm
  <2>2. Disjoint
    BY DEF ContInv, NoOverlapInv, NoDoubleAllocation, NoFaultLeft, Calm
  <2> QED
    BY <2>1, <2>2, GroundTypes DEF ContInv, Calm
<1>4. CASE UNCHANGED vars
  <2>1. SnapCurrent'
    BY <1>3, <1>4 DEF vars, threads, pass, Agrees, SnapCurrent, InHandler, Dep
  <2>2. Agrees'
    BY <1>3, <1>4, <2>1, StillAgrees DEF vars, threads, docker
  <2> QED
    BY <1>1, <1>2, <2>2 DEF ContInv
<1>5. CASE Next
  <2>1. ~Restart
    BY <1>2 DEF Restart
  <2>2. Agrees'
    BY <1>2, <1>3, <1>5, <2>1, OnlyThePass, TeardownAgrees, StartAgrees, SuspendAgrees, ResumeAgrees,
       PassAgrees, EnvironmentAgrees DEF Next, ContInv
  <2> QED
    BY <1>1, <1>2, <2>2 DEF ContInv
<1> QED
  BY <1>4, <1>5

LEMMA ContHolds == ASSUME Calm PROVE Spec => []ContInv
BY InitCont, ContInductive, PTL DEF Spec

(* Two containers that run at the same time never have a card in common:    *)
(* whatever the busy probe reports, and while a teardown or a suspension    *)
(* has released the cards of a container it has not stopped yet.            *)
THEOREM NoSharedGpuHolds == ASSUME Calm PROVE Spec => []NoSharedGpu
<1>1. ContInv => NoSharedGpu
  <2> SUFFICES ASSUME ContInv, NEW d \in Deployments, NEW e \in Deployments, d # e
               PROVE  InUse(d) \cap InUse(e) = {}
    BY DEF NoSharedGpu
  <2>1. Ground /\ Stages /\ Agrees /\ Disjoint
    <3>1. Stages
      BY OwnStageIsOwnership DEF ContInv, ServeInv, Stages, Calm
    <3>2. Disjoint
      BY DEF ContInv, NoOverlapInv, NoDoubleAllocation, NoFaultLeft, Calm
    <3> QED
      BY <3>1, <3>2, GroundTypes DEF ContInv
  <2>2. \A c \in {d, e} : ~(c = Dep /\ At({"stop", "susStop"})) => InUse(c) \subseteq alloc[c]
    BY <2>1, InUseIsOwned DEF Agrees
  <2>3. \A c, o \in {d, e} : c # o /\ c = Dep /\ At({"stop", "susStop"}) => InUse(c) \cap alloc[o] = {}
    BY <2>1 DEF Agrees, StopStage
  <2> QED
    BY <2>1, <2>2, <2>3 DEF Disjoint
<1> QED
  BY <1>1, ContHolds, PTL

(* A deployment that failed, was terminated or has no record, and that no   *)
(* handler works on, keeps neither a container nor a card nor a volume.     *)
THEOREM NothingLeftBehindHolds == ASSUME Calm PROVE Spec => []NothingLeftBehind
<1>1. ContInv => NothingLeftBehind
  <2> SUFFICES ASSUME ContInv, NEW d \in Deployments, ~Busy(d),
                      runtimes[d].status \in {"none", "failed", "terminated"}
               PROVE  /\ cont[d].st = "none" /\ alloc[d] = {}
                      /\ runtimes[d].status = "terminated" => d \notin volDirs
    BY DEF NothingLeftBehind
  <2>1. d # Dep
    BY GroundTypes DEF ContInv, Ground, Core, Busy, InHands, Dep
  <2>2. Settled(d)
    BY <2>1 DEF ContInv, Agrees, OthersSettled
  <2>3. alloc[d] = {}
    BY <2>1 DEF ContInv, ServeInv, OnlyLiveRecordsHold, Active
  <2> QED
    BY <2>2, <2>3 DEF Settled, Bare
<1> QED
  BY <1>1, ContHolds, PTL

=============================================================================
