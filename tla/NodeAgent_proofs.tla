--------------------------- MODULE NodeAgent_proofs ---------------------------
(***************************************************************************)
(* Proofs about one node agent, for any set of deployments, cards, routes   *)
(* and faults: its state is well typed, and only a restart can put two      *)
(* deployments on one card in the ledger.                                   *)
(***************************************************************************)
EXTENDS NodeAgentProps, TLAPS

(* The deployment of a call is a deployment whenever a handler is running.  *)
InHandler(a) == pc[a] \notin {"idle", "next"}
CallNamesDep == \A a \in Actors : InHandler(a) => call[a].dep \in Deployments

CtlOK == pc \in [Actors -> Labels] /\ call \in [Actors -> CallFrame] /\ CallNamesDep

TypeInv == AgentTypeOK /\ CallNamesDep

-----------------------------------------------------------------------------
(* What the building blocks of the actions do to the types *)

(* Cards picked for an allocation are free cards outside the avoided set.   *)
LEMMA ChosenIsFree ==
  ASSUME NEW n, NEW avoid
  PROVE  Chosen(n, avoid) \subseteq FreeDevices \ avoid
BY DEF Chosen, Lowest

(* Records and locals that the handlers pass around keep their types.       *)
LEMMA RecordTypes ==
  /\ NoRecord \in Record /\ NoContainer \in Container /\ NoCall \in CallFrame
  /\ \A r \in Record, s \in Statuses : With(r, s) \in Record
  /\ \A d \in Deployments, r \in Record, rep \in BOOLEAN, th \in {"done", "remove", "dispatch"} :
       Frame(d, r, rep, th) \in CallFrame /\ Frame(d, r, rep, th).dep = d
BY DEF NoRecord, NoContainer, Record, Container, With, Statuses, NoCall, CallFrame, Frame, NoDep

(* A handler that moves on, with or without a new runtime copy, keeps the   *)
(* control state well typed.                                                *)
LEMMA GotoTypes ==
  ASSUME CtlOK, NEW a \in Actors, InHandler(a), NEW l \in Labels, Goto(a, l)
  PROVE  CtlOK'
BY DEF CtlOK, CallNamesDep, InHandler, Goto

(* ... and with a new runtime copy among its locals.                        *)
LEMMA GotoRtTypes ==
  ASSUME CtlOK, NEW a \in Actors, InHandler(a), NEW l \in Labels, NEW r \in Record, GotoRt(a, l, r)
  PROVE  CtlOK'
BY DEF CtlOK, CallNamesDep, InHandler, GotoRt, CallFrame

(* So does entering a handler for a deployment, and returning from it.      *)
LEMMA EnterTypes ==
  ASSUME CtlOK, NEW a \in Actors, NEW l \in Labels, NEW f \in CallFrame,
         f.dep \in Deployments \/ l \in {"idle", "next"}, Enter(a, l, f)
  PROVE  CtlOK'
BY DEF CtlOK, CallNamesDep, InHandler, Enter

(* Leaving a handler clears its locals (Return).                            *)
LEMMA ReturnTypes ==
  ASSUME CtlOK, NEW a \in Actors, Return(a)
  PROVE  CtlOK'
<1>1. NoCall \in CallFrame /\ {"idle", "next"} \subseteq Labels
  BY RecordTypes DEF Labels
<1> QED
  BY <1>1, EnterTypes DEF Return

(* Effects on the repository, docker, the control plane and the budget.     *)
LEMMA EffectTypes ==
  ASSUME AgentTypeOK
  PROVE  /\ \A d \in Deployments, r \in Record : Upsert(d, r) => runtimes' \in [Deployments -> Record]
         /\ \A k \in Faults : Spend(k) => budget' \in [Faults -> Nat]
         /\ \A d \in Deployments, s \in DState : Report(d, s) => dstate' \in [Deployments -> DState]
         /\ \A d \in Deployments : Release(d) => AllocatorTypeOK'
         /\ \A d \in Deployments, id \in Nat : RemoveContainer(d, id) =>
              cont' \in [Deployments -> Container] /\ budget' \in [Faults -> Nat]
<1> USE DEF AgentTypeOK
<1>1. \A d \in Deployments, r \in Record : Upsert(d, r) => runtimes' \in [Deployments -> Record]
  BY DEF Upsert
<1>2. \A k \in Faults : Spend(k) => budget' \in [Faults -> Nat]
  BY DEF Spend
<1>3. \A d \in Deployments, s \in DState : Report(d, s) => dstate' \in [Deployments -> DState]
  BY DEF Report
<1>4. \A d \in Deployments : Release(d) => AllocatorTypeOK'
  BY DEF Release, AllocatorTypeOK
<1>5. \A d \in Deployments, id \in Nat : RemoveContainer(d, id) =>
        cont' \in [Deployments -> Container] /\ budget' \in [Faults -> Nat]
  <2>1. \A d \in Deployments : [cont EXCEPT ![d] = NoContainer] \in [Deployments -> Container]
    BY RecordTypes
  <2> QED
    BY <1>2, <2>1 DEF RemoveContainer, Faults
<1> QED
  BY <1>1, <1>2, <1>3, <1>4, <1>5

(* Reading nvidia-smi and the ledger changes nothing but what is known.     *)
LEMMA ProbingReads ==
  ASSUME Probing
  PROVE  UNCHANGED <<alloc, runtimes, volRecords, volDirs, pc, call, mode, view, todo, snap,
                     cont, runs, foreign, cpUp, lease, dstate, budget>>
BY DEF Probing, ProbeGpus, ReadLedger, threads, plan, docker, cp

-----------------------------------------------------------------------------
(* TypeInv is inductive: one lemma per group of actions *)

(* A fresh agent is well typed, and no handler runs.                        *)
LEMMA InitTypeInv == Init => TypeInv
BY NodeAssumption, RecordTypes
DEF Init, AllocatorInit, TypeInv, AgentTypeOK, AllocatorTypeOK, CallNamesDep, InHandler,
    Labels, Lease, DState, NotSeen

(* _terminate_runtime, in the pass or in a terminate request, keeps the     *)
(* types: it writes back the record it was called with.                     *)
LEMMA TeardownTypeInv ==
  ASSUME TypeInv, NEW a \in Actors, Teardown(a)
  PROVE  TypeInv'
<1> USE DEF TypeInv, AgentTypeOK, AllocatorTypeOK, CtlOK, pass, docker, cp
<1>0. CtlOK /\ InHandler(a) /\ call[a].dep \in Deployments /\ call[a].rt \in Record
  BY DEF Teardown, CallNamesDep, InHandler, CallFrame, TerminateRelease, TerminateStop,
         TerminateVolume, TerminateMark, TellTerminated, RemoveRuntime
<1>1. CASE TerminateRelease(a)
  BY <1>0, <1>1, GotoTypes, EffectTypes DEF TerminateRelease, Labels, TeardownLabels
<1>6. CASE TerminateVolume(a)
  BY <1>0, <1>6, GotoTypes DEF TerminateVolume, DeleteVolumes, Labels, TeardownLabels
<1>2. CASE TerminateStop(a)
  BY <1>0, <1>2, GotoTypes, EffectTypes DEF TerminateStop, Labels, TeardownLabels, Record
<1>3. CASE TerminateMark(a)
  BY <1>0, <1>3, GotoTypes, ReturnTypes, EffectTypes, RecordTypes
  DEF TerminateMark, AfterTeardown, Labels, TeardownLabels, Statuses
<1>4. CASE TellTerminated(a)
  BY <1>0, <1>4, GotoTypes, ReturnTypes, EffectTypes
  DEF TellTerminated, AfterTeardown, Labels, TeardownLabels, DState
<1>5. CASE RemoveRuntime(a)
  <2>1. Frame(call[a].dep, NoRecord, FALSE, "done") \in CallFrame
        /\ Frame(call[a].dep, NoRecord, FALSE, "done").dep = call[a].dep
    BY <1>0, RecordTypes
  <2>2. "dispatch" \in Labels /\ NoRecord \in Record
    BY RecordTypes DEF Labels, StartLabels
  <2>3. CtlOK'
    BY <1>0, <1>5, <2>1, <2>2, EnterTypes, ReturnTypes DEF RemoveRuntime
  <2> QED
    BY <1>0, <1>5, <2>2, <2>3, EffectTypes DEF RemoveRuntime
<1> QED
  BY <1>1, <1>2, <1>3, <1>4, <1>5, <1>6 DEF Teardown

(* The start handlers and _fail_runtime keep the types: the cards they      *)
(* record are those the allocator chose.                                    *)
LEMMA StartTypeInv ==
  ASSUME TypeInv, StartStep
  PROVE  TypeInv'
<1> USE DEF TypeInv, AgentTypeOK, AllocatorTypeOK, CtlOK, pass, docker, cp
<1>0. Pass \in Actors /\ CtlOK /\ InHandler(Pass) /\ Dep \in Deployments /\ Rt \in Record
  BY DEF StartStep, CallNamesDep, InHandler, CallFrame, Actors, Dep, Rt, DispatchFails,
         DispatchAccepts, AllocateGpus, CreateVolume, StageArtifact, MarkStarting, RunOk, RunFails, MarkReady,
         TellReady, FailRelease, FailMark, TellFailed
<1>l. StartLabels \cup FailLabels \subseteq Labels
  BY DEF Labels
<1>1. CASE DispatchFails
  BY <1>0, <1>1, <1>l, GotoTypes, EffectTypes DEF DispatchFails, FailLabels, Faults
<1>2. CASE DispatchAccepts
  <2>1. With(NoRecord, "accepted") \in Record
    BY RecordTypes DEF Statuses
  <2> QED
    BY <1>0, <1>2, <1>l, <2>1, GotoRtTypes, EffectTypes DEF DispatchAccepts, StartLabels
<1>3. CASE AllocateGpus
  <2> DEFINE avoid == seen.cards
  <2>1. Chosen(Need[Dep], avoid) \in SUBSET Devices
    BY ChosenIsFree DEF FreeDevices
  <2>2. [Rt EXCEPT !.devs = IF Need[Dep] = 0 THEN {} ELSE Chosen(Need[Dep], avoid)] \in Record
    BY <1>0, <2>1 DEF Record
  <2>3. AllocatorTypeOK'
    BY <1>3, <2>1 DEF AllocateGpus, Allocate
  <2>4. CtlOK'
    BY <1>0, <1>3, <1>l, <2>2, GotoTypes, GotoRtTypes DEF AllocateGpus, StartLabels, FailLabels
  <2> QED
    BY <1>3, <2>3, <2>4 DEF AllocateGpus, NotSeen, plan
<1>4. CASE CreateVolume
  <2>1. [Rt EXCEPT !.devs = {}] \in Record
    BY <1>0 DEF Record
  <2> QED
    BY <1>0, <1>4, <1>l, <2>1, GotoTypes, GotoRtTypes, EffectTypes
    DEF CreateVolume, MakeVolume, StartLabels, FailLabels, Faults
<1>13. CASE StageArtifact
  BY <1>0, <1>13, <1>l, GotoTypes, EffectTypes DEF StageArtifact, StartLabels, FailLabels, Faults
<1>5. CASE MarkStarting
  <2>1. With(Rt, "starting") \in Record
    BY <1>0, RecordTypes DEF Statuses
  <2> QED
    BY <1>0, <1>5, <1>l, <2>1, GotoRtTypes, EffectTypes DEF MarkStarting, StartLabels
<1>6. CASE RunOk
  <2>0. runs[Dep] + 1 \in Nat
    BY <1>0
  <2>1. [Rt EXCEPT !.cid = runs[Dep] + 1] \in Record
    BY <1>0, <2>0 DEF Record
  <2>3. NewContainer \in Container
    BY <1>0, <2>0 DEF Record, NewContainer, Container
  <2>2. cont' \in [Deployments -> Container] /\ runs' \in [Deployments -> Nat]
    BY <1>0, <1>6, <2>3 DEF RunOk
  <2> QED
    BY <1>0, <1>6, <1>l, <2>1, <2>2, GotoRtTypes DEF RunOk, StartLabels
<1>7. CASE RunFails
  <2>1. NewContainer \in Container /\ NoContainer \in Container
    BY <1>0, RecordTypes DEF Record, NewContainer, Container
  <2>2. cont' \in [Deployments -> Container] /\ runs' \in [Deployments -> Nat]
    BY <1>0, <1>7, <2>1 DEF RunFails
  <2>3. budget' \in [Faults -> Nat]
    BY <1>7, EffectTypes DEF RunFails, Faults
  <2> QED
    BY <1>0, <1>7, <1>l, <2>2, <2>3, GotoTypes DEF RunFails, FailLabels
<1>8. CASE MarkReady
  <2>1. With(Rt, "ready") \in Record
    BY <1>0, RecordTypes DEF Statuses
  <2> QED
    BY <1>0, <1>8, <1>l, <2>1, GotoRtTypes, EffectTypes DEF MarkReady, StartLabels
<1>9. CASE TellReady
  BY <1>0, <1>9, ReturnTypes, EffectTypes DEF TellReady, DState
<1>10. CASE FailRelease
  BY <1>0, <1>10, <1>l, GotoTypes, EffectTypes DEF FailRelease, FailLabels
<1>11. CASE FailMark
  <2>1. With(Rt, "failed") \in Record
    BY <1>0, RecordTypes DEF Statuses
  <2> QED
    BY <1>0, <1>11, <1>l, <2>1, GotoTypes, EffectTypes DEF FailMark, FailLabels
<1>12. CASE TellFailed
  BY <1>0, <1>12, ReturnTypes, EffectTypes DEF TellFailed, DState
<1> QED
  BY <1>1, <1>2, <1>3, <1>4, <1>5, <1>6, <1>7, <1>8, <1>9, <1>10, <1>11, <1>12, <1>13 DEF StartStep

(* _suspend_runtime keeps the types.                                        *)
LEMMA SuspendTypeInv ==
  ASSUME TypeInv, SuspendStep
  PROVE  TypeInv'
<1> USE DEF TypeInv, AgentTypeOK, AllocatorTypeOK, CtlOK, pass, docker, cp
<1>0. Pass \in Actors /\ CtlOK /\ InHandler(Pass) /\ Dep \in Deployments /\ Rt \in Record
  BY DEF SuspendStep, CallNamesDep, InHandler, CallFrame, Actors, Dep, Rt, SuspendRelease,
         SuspendStop, SuspendMark, TellSuspended
<1>l. SuspendLabels \subseteq Labels
  BY DEF Labels
<1>1. CASE SuspendRelease
  BY <1>0, <1>1, <1>l, GotoTypes, EffectTypes DEF SuspendRelease, SuspendLabels
<1>2. CASE SuspendStop
  <2>1. SuspendedRecord(Rt) \in Record
    BY <1>0 DEF SuspendedRecord, With, Record, Statuses
  <2>2. Rt.cid \in Nat
    BY <1>0 DEF Record
  <2>3. PauseContainer => cont' \in [Deployments -> Container] /\ budget' \in [Faults -> Nat]
    <3>1. [cont[Dep] EXCEPT !.st = "stopped"] \in Container
      BY <1>0 DEF Container
    <3>2. [cont EXCEPT ![Dep].st = "stopped"] \in [Deployments -> Container]
      BY <1>0, <3>1
    <3> QED
      BY <1>0, <3>2, EffectTypes DEF PauseContainer, Faults
  <2>4. cont' \in [Deployments -> Container] /\ budget' \in [Faults -> Nat]
    BY <1>0, <1>2, <2>2, <2>3, EffectTypes, NodeAssumption DEF SuspendStop
  <2> QED
    BY <1>0, <1>2, <1>l, <2>1, <2>4, GotoRtTypes DEF SuspendStop, SuspendLabels
<1>3. CASE SuspendMark
  BY <1>0, <1>3, <1>l, GotoTypes, EffectTypes DEF SuspendMark, SuspendLabels
<1>4. CASE TellSuspended
  BY <1>0, <1>4, ReturnTypes, EffectTypes DEF TellSuspended, DState
<1> QED
  BY <1>1, <1>2, <1>3, <1>4 DEF SuspendStep

(* _resume_runtime keeps the types, with the pinned cards or with new ones. *)
LEMMA ResumeTypeInv ==
  ASSUME TypeInv, ResumeStep
  PROVE  TypeInv'
<1> USE DEF TypeInv, AgentTypeOK, AllocatorTypeOK, CtlOK, pass, docker, cp
<1>0. Pass \in Actors /\ CtlOK /\ InHandler(Pass) /\ Dep \in Deployments /\ Rt \in Record
  BY DEF ResumeStep, CallNamesDep, InHandler, CallFrame, Actors, Dep, Rt, ResumeAllocate,
         ResumeStart, ResumeMark, ResumeUndo, ResumeKeep, ResumeGiveBack, ResumeFetch
<1>l. ResumeLabels \cup StartLabels \subseteq Labels
  BY DEF Labels
<1>1. CASE ResumeAllocate
  <2>1. \A n, avoid : Chosen(n, avoid) \in SUBSET Devices
    BY ChosenIsFree DEF FreeDevices
  <2>2. \A avoid : [Rt EXCEPT !.devs = Chosen(1, avoid)] \in Record
    BY <1>0, <2>1 DEF Record
  <2>3. Rt.devs \in SUBSET Devices
    BY <1>0 DEF Record
  <2>4. AllocatorTypeOK'
    <3>1. \/ UNCHANGED alloc
          \/ AllocateSpecific(Dep, Rt.devs)
          \/ \E avoid : Allocate(Dep, ResumeCount, avoid)
      BY <1>1 DEF ResumeAllocate
    <3>2. AllocateSpecific(Dep, Rt.devs) => AllocatorTypeOK'
      BY <1>0, <2>3 DEF AllocateSpecific
    <3>3. \A avoid : Allocate(Dep, ResumeCount, avoid) => AllocatorTypeOK'
      BY <1>0, <2>1 DEF Allocate
    <3> QED
      BY <3>1, <3>2, <3>3
  <2>5. CtlOK'
    BY <1>0, <1>1, <1>l, <2>2, GotoTypes, GotoRtTypes, ReturnTypes DEF ResumeAllocate, ResumeLabels
  <2> QED
    BY <1>1, <2>4, <2>5 DEF ResumeAllocate, NotSeen, plan
<1>2. CASE ResumeStart
  <2>1. With(Rt, "ready") \in Record
    BY <1>0, RecordTypes DEF Statuses
  <2>2. [cont[Dep] EXCEPT !.st = "running"] \in Container
    BY <1>0 DEF Container
  <2>3. [cont EXCEPT ![Dep].st = "running"] \in [Deployments -> Container]
    BY <1>0, <2>2
  <2>4. cont' \in [Deployments -> Container] /\ budget' \in [Faults -> Nat]
    BY <1>2, <2>3, EffectTypes DEF ResumeStart, Faults
  <2>5. CtlOK'
    BY <1>0, <1>2, <1>l, <2>1, GotoTypes, GotoRtTypes DEF ResumeStart, ResumeLabels
  <2> QED
    BY <1>2, <2>4, <2>5 DEF ResumeStart
<1>3. CASE ResumeMark
  BY <1>0, <1>3, <1>l, GotoTypes, EffectTypes DEF ResumeMark, StartLabels
<1>6. CASE ResumeUndo
  BY <1>0, <1>6, <1>l, GotoTypes, EffectTypes DEF ResumeUndo, ResumeLabels
<1>7. CASE ResumeGiveBack
  BY <1>0, <1>7, <1>l, GotoTypes, EffectTypes DEF ResumeGiveBack, ResumeLabels
<1>4. CASE ResumeKeep
  <2>1. With(Rt, "suspended") \in Record
    BY <1>0, RecordTypes DEF Statuses
  <2> QED
    BY <1>0, <1>4, <2>1, ReturnTypes, EffectTypes DEF ResumeKeep
<1>5. CASE ResumeFetch
  <2>1. With(Rt, "accepted") \in Record
    BY <1>0, RecordTypes DEF Statuses
  <2>2. CtlOK'
    BY <1>0, <1>5, <1>l, <2>1, GotoRtTypes, ReturnTypes DEF ResumeFetch, StartLabels
  <2>3. runtimes' \in [Deployments -> Record] /\ budget' \in [Faults -> Nat]
    BY <1>0, <1>5, <2>1, EffectTypes DEF ResumeFetch, Faults
  <2> QED
    BY <1>5, <2>2, <2>3 DEF ResumeFetch
<1> QED
  BY <1>1, <1>2, <1>3, <1>4, <1>5, <1>6, <1>7 DEF ResumeStep

(* What a probe shows, and what is left of it, are cards of the node.       *)
LEMMA ProbingTypeInv ==
  ASSUME TypeInv, Probing
  PROVE  TypeInv'
<1> USE DEF TypeInv, AgentTypeOK
<1>1. ASSUME NEW r \in Readings PROVE r \subseteq Devices
  BY <1>1 DEF Readings, InUse, Container
<1>2. seen' \in [at : {"unseen", "probed", "known"}, cards : SUBSET Devices]
  BY <1>1 DEF Probing, ProbeGpus, ReadLedger
<1> QED
  BY <1>2, ProbingReads DEF AllocatorTypeOK, CallNamesDep, InHandler

(* The clean-up and recovery loops walk over typed snapshots.               *)
LEMMA KeptTypes ==
  ASSUME TypeInv, NEW d \in Deployments
  PROVE  Kept(d) \in Record
BY RecordTypes DEF TypeInv, AgentTypeOK, Kept

(* Entering a handler from a loop of the pass hands it a record of this     *)
(* node, so the types hold and the call names a deployment.                 *)
LEMMA PassTypeInv ==
  ASSUME TypeInv, PassStep
  PROVE  TypeInv'
<1> USE DEF TypeInv, AgentTypeOK, AllocatorTypeOK, CtlOK, docker, cp, threads
<1>0. Pass \in Actors /\ CtlOK
  BY DEF Actors
<1>l. {"idle", "next"} \cup TeardownLabels \cup SuspendLabels \cup ResumeLabels \cup StartLabels
        \subseteq Labels
  BY DEF Labels
<1>1. CASE BeginReconcile
  <2>1. view' \in [Deployments -> Lease]
    BY <1>1 DEF BeginReconcile, Lease
  <2>2. todo' \subseteq Deployments
    BY <1>1 DEF BeginReconcile, MyLeases
  <2> QED
    BY <1>0, <1>1, <2>1, <2>2, ReturnTypes DEF BeginReconcile
<1>2. CASE BeginRecovery
  <2>1. snap' \in [Deployments -> Record]
    BY <1>2, KeptTypes DEF BeginRecovery
  <2>2. budget' \in [Faults -> Nat]
    BY <1>2, EffectTypes DEF BeginRecovery, Faults
  <2> QED
    BY <1>0, <1>2, <2>1, <2>2, ReturnTypes DEF BeginRecovery
<1>3. CASE BeginOrphans
  <2>1. snap' \in [Deployments -> Record]
    BY <1>3, KeptTypes DEF BeginOrphans
  <2>2. todo' \subseteq Deployments
    BY <1>3 DEF BeginOrphans, OrphanCandidates
  <2>3. UNCHANGED <<pc, call>> /\ CallNamesDep'
    BY <1>3 DEF BeginOrphans, CallNamesDep, InHandler
  <2> QED
    BY <1>3, <2>1, <2>2, <2>3 DEF BeginOrphans
<1>4. CASE EndPass
  <2>1. CtlOK'
    BY <1>0, <1>4, <1>l, EnterTypes, RecordTypes DEF EndPass
  <2>2. view' \in [Deployments -> Lease]
    BY <1>4 DEF EndPass, Lease
  <2> QED
    BY <1>4, <2>1, <2>2 DEF EndPass
<1>5. ASSUME NEW d \in Deployments, VisitLease(d) PROVE TypeInv'
  <2>1. \A rep \in BOOLEAN, th \in {"done", "remove", "dispatch"} :
          /\ Frame(d, runtimes[d], rep, th) \in CallFrame
          /\ Frame(d, runtimes[d], rep, th).dep \in Deployments
    BY RecordTypes
  <2>2. "susRelease" \in Labels /\ "resAlloc" \in Labels /\ "release" \in Labels /\ "dispatch" \in Labels
    BY DEF Labels, SuspendLabels, ResumeLabels, TeardownLabels, StartLabels
  <2>3. CASE UNCHANGED <<pc, call>>
    BY <1>5, <2>3 DEF VisitLease, CallNamesDep, InHandler
  <2>4. CASE \E l \in Labels, th \in {"done", "remove", "dispatch"} :
               Enter(Pass, l, Frame(d, runtimes[d], FALSE, th))
    <3>1. CtlOK'
      BY <1>0, <2>1, <2>4, EnterTypes
    <3> QED
      BY <1>5, <3>1 DEF VisitLease
  <2> QED
    BY <1>5, <2>2, <2>3, <2>4 DEF VisitLease
<1>6. ASSUME NEW d \in Deployments, VisitOrphan(d) PROVE TypeInv'
  <2>1. snap' \in [Deployments -> Record]
    BY <1>6, RecordTypes DEF VisitOrphan
  <2>2. \A rep \in BOOLEAN, th \in {"done", "remove", "dispatch"} :
          Frame(d, snap[d], rep, th) \in CallFrame /\ Frame(d, snap[d], rep, th).dep \in Deployments
    BY RecordTypes
  <2>3. "release" \in Labels /\ ReportsOrphan(d) \in BOOLEAN
    BY DEF Labels, TeardownLabels, ReportsOrphan
  <2>4. CASE UNCHANGED <<pc, call>>
    BY <1>6, <2>1, <2>4 DEF VisitOrphan, CallNamesDep, InHandler
  <2>5. CASE \E rep \in BOOLEAN, th \in {"done", "remove", "dispatch"} :
               Enter(Pass, "release", Frame(d, snap[d], rep, th))
    <3>1. CtlOK'
      BY <1>0, <2>2, <2>3, <2>5, EnterTypes
    <3> QED
      BY <1>6, <2>1, <3>1 DEF VisitOrphan
  <2> QED
    BY <1>6, <2>3, <2>4, <2>5 DEF VisitOrphan
<1>7. ASSUME NEW d \in Deployments, RecoverRuntime(d) PROVE TypeInv'
  <2>1. snap' \in [Deployments -> Record]
    BY <1>7, RecordTypes DEF RecoverRuntime
  <2>2. \A rep \in BOOLEAN :
          Frame(d, snap[d], rep, "done") \in CallFrame /\ Frame(d, snap[d], rep, "done").dep \in Deployments
    BY RecordTypes
  <2>3. "release" \in Labels
    BY DEF Labels, TeardownLabels
  <2>4. CASE UNCHANGED <<pc, call>>
    BY <1>7, <2>1, <2>4 DEF RecoverRuntime, CallNamesDep, InHandler
  <2>5. CASE \E rep \in BOOLEAN : Enter(Pass, "release", Frame(d, snap[d], rep, "done"))
    <3>1. CtlOK'
      BY <1>0, <2>2, <2>3, <2>5, EnterTypes
    <3> QED
      BY <1>7, <2>1, <3>1 DEF RecoverRuntime
  <2>6. (dstate[d] \in {"terminated", "failed"}) \in BOOLEAN
    OBVIOUS
  <2> QED
    BY <1>7, <2>4, <2>5, <2>6 DEF RecoverRuntime
<1> QED
  BY <1>1, <1>2, <1>3, <1>4, <1>5, <1>6, <1>7 DEF PassStep

(* A terminate request, a restart, the control plane and other tenants keep *)
(* the types; a restart leaves no handler running.                          *)
LEMMA EnvironmentTypeInv ==
  ASSUME TypeInv,
         \/ Restart \/ ControlPlane
         \/ \E a \in Routes, d \in Deployments : TerminateRequest(a, d)
         \/ \E g \in Devices : Squat(g)
  PROVE  TypeInv'
<1> USE DEF TypeInv, AgentTypeOK, AllocatorTypeOK, CtlOK, agent, threads, pass, docker, cp
<1>1. CASE Restart
  <2>1. alloc' \in [Deployments -> SUBSET Devices]
    <3>1. \A d \in Deployments : PersistedClaim(d) \in SUBSET Devices
      BY DEF PersistedClaim, Record
    <3> QED
      BY <1>1, <3>1 DEF Restart, Rehydrate
  <2>2. CtlOK'
    BY <1>1, RecordTypes DEF Restart, CallNamesDep, InHandler, Labels
  <2>3. view' \in [Deployments -> Lease] /\ snap' \in [Deployments -> Record]
    BY <1>1, RecordTypes DEF Restart, Lease
  <2>4. seen' \in [at : {"unseen", "probed", "known"}, cards : SUBSET Devices]
    BY <1>1 DEF Restart, NotSeen
  <2>5. budget' \in [Faults -> Nat]
    BY <1>1, EffectTypes DEF Restart, Faults
  <2>6. /\ mode' = "leases" /\ todo' = {} /\ volRecords' = {}
        /\ UNCHANGED <<runtimes, volDirs, cont, runs, foreign, cpUp, lease, dstate>>
    BY <1>1 DEF Restart
  <2>7. AgentTypeOK'
    BY <2>1, <2>2, <2>3, <2>4, <2>5, <2>6
  <2> QED
    BY <2>2, <2>7
<1>2. CASE ControlPlane
  <2>1. lease' \in [Deployments -> Lease] /\ dstate' \in [Deployments -> DState]
    BY <1>2 DEF ControlPlane, Lease, DState, Outage, Reconnect, CreateLease, SuspendLease,
                ResumeLease, MoveLease, EndLease
  <2>2. cpUp' \in BOOLEAN /\ budget' \in [Faults -> Nat]
    BY <1>2, EffectTypes DEF ControlPlane, Faults, Outage, Reconnect, CreateLease, SuspendLease,
                ResumeLease, MoveLease, EndLease
  <2>3. UNCHANGED <<agent, foreign>>
    BY <1>2 DEF ControlPlane, Outage, Reconnect, CreateLease, SuspendLease, ResumeLease,
                MoveLease, EndLease
  <2> QED
    BY <2>1, <2>2, <2>3 DEF CallNamesDep, InHandler
<1>3. ASSUME NEW a \in Routes, NEW d \in Deployments, TerminateRequest(a, d) PROVE TypeInv'
  <2>1. Frame(d, runtimes[d], TRUE, "done") \in CallFrame
        /\ Frame(d, runtimes[d], TRUE, "done").dep \in Deployments
    <3>1. runtimes[d] \in Record
      OBVIOUS
    <3> QED
      BY ONLY <3>1, RecordTypes, d \in Deployments
  <2>2. a \in Actors /\ CtlOK /\ "release" \in Labels
    BY DEF Actors, Labels, TeardownLabels
  <2>3. CtlOK'
    BY <1>3, <2>1, <2>2, EnterTypes DEF TerminateRequest
  <2> QED
    BY <1>3, <2>3, EffectTypes DEF TerminateRequest, Faults
<1>4. ASSUME NEW g \in Devices, Squat(g) PROVE TypeInv'
  BY <1>4, EffectTypes DEF Squat, Faults, CallNamesDep, InHandler
<1> QED
  BY <1>1, <1>2, <1>3, <1>4

(* TypeInv is inductive: one step per action of the agent and around it.    *)
LEMMA TypeInvInductive == TypeInv /\ [Next]_vars => TypeInv'
<1> SUFFICES ASSUME TypeInv, [Next]_vars PROVE TypeInv'
  OBVIOUS
<1>1. CASE UNCHANGED vars
  BY <1>1 DEF vars, threads, pass, docker, cp, TypeInv, AgentTypeOK, AllocatorTypeOK,
              CallNamesDep, InHandler
<1>2. CASE Next
  BY <1>2, TeardownTypeInv, StartTypeInv, SuspendTypeInv, ResumeTypeInv, PassTypeInv,
     ProbingTypeInv, EnvironmentTypeInv DEF Next
<1> QED
  BY <1>1, <1>2

(* Every reachable state is well typed: in particular no ledger entry and   *)
(* no record ever names a card the node does not have.                      *)
THEOREM TypeCorrect == Spec => []AgentTypeOK
<1>1. Spec => []TypeInv
  BY InitTypeInv, TypeInvInductive, PTL DEF Spec
<1>2. TypeInv => AgentTypeOK
  BY DEF TypeInv
<1> QED
  BY <1>1, <1>2, PTL

-----------------------------------------------------------------------------
(* The ledger *)

(* What a step that calls at most one method of the allocator, other than   *)
(* rehydrate, does to the ledger.                                           *)
LedgerMove ==
  \/ UNCHANGED alloc
  \/ \E d \in Deployments : Release(d)
  \/ \E d \in Deployments : \E n, avoid : Allocate(d, n, avoid)
  \/ \E d \in Deployments : \E want : AllocateSpecific(d, want)

(* A card given to d was free, or was d's own: no move adds an overlap.     *)
LEMMA MoveAddsNoOverlap ==
  ASSUME AllocatorTypeOK, LedgerMove
  PROVE  Overlaps' \subseteq Overlaps
<1> USE DEF AllocatorTypeOK, Overlaps
<1>1. CASE UNCHANGED alloc
  BY <1>1
<1>2. ASSUME NEW d \in Deployments, NEW got, alloc' = [alloc EXCEPT ![d] = got],
             \A e \in Deployments :
               e # d /\ got \cap alloc[e] # {} => alloc[d] \cap alloc[e] # {}
      PROVE  Overlaps' \subseteq Overlaps
  <2> SUFFICES ASSUME NEW p \in Deployments \X Deployments,
                      p[1] # p[2], alloc'[p[1]] \cap alloc'[p[2]] # {}
               PROVE  alloc[p[1]] \cap alloc[p[2]] # {}
    OBVIOUS
  <2> QED
    BY <1>2
<1>3. ASSUME NEW d \in Deployments, Release(d) PROVE Overlaps' \subseteq Overlaps
  BY <1>2, <1>3 DEF Release
<1>4. ASSUME NEW d \in Deployments, NEW n, NEW avoid, Allocate(d, n, avoid)
      PROVE  Overlaps' \subseteq Overlaps
  <2>1. \A e \in Deployments : e # d => Chosen(n, avoid) \cap alloc[e] = {}
    BY ChosenIsFree DEF FreeDevices, AllocatedDevices
  <2> QED
    BY <1>1, <1>2, <1>4, <2>1 DEF Allocate
<1>5. ASSUME NEW d \in Deployments, NEW want, AllocateSpecific(d, want)
      PROVE  Overlaps' \subseteq Overlaps
  <2>1. \A e \in Deployments :
          e # d /\ want \cap alloc[e] # {} => alloc[d] \cap alloc[e] # {}
    BY <1>5 DEF AllocateSpecific, CanReserve, FreeDevices, AllocatedDevices
  <2> QED
    BY <1>1, <1>2, <1>5, <2>1 DEF AllocateSpecific
<1> QED
  BY <1>1, <1>3, <1>4, <1>5 DEF LedgerMove

(* Every step of the node agent is one ledger move, or a restart.           *)
LEMMA OneMovePerStep == TypeInv /\ [Next]_vars => LedgerMove \/ Restart
<1> SUFFICES ASSUME TypeInv, [Next]_vars, ~Restart PROVE LedgerMove
  OBVIOUS
<1> USE DEF TypeInv, AgentTypeOK, LedgerMove
<1>0. Pass \in Actors /\ (InHandler(Pass) => Dep \in Deployments)
  BY DEF CallNamesDep, Actors, Dep
<1>1. CASE UNCHANGED vars
  BY <1>1 DEF vars
<1>2. ASSUME NEW a \in Actors, Teardown(a) PROVE LedgerMove
  <2>1. TerminateRelease(a) => call[a].dep \in Deployments
    BY DEF CallNamesDep, InHandler, TerminateRelease
  <2> QED
    BY <1>2, <2>1 DEF Teardown, TerminateRelease, TerminateStop, TerminateVolume, TerminateMark, TellTerminated,
                      RemoveRuntime
<1>3. CASE StartStep
  <2>1. Dep \in Deployments
    BY <1>0, <1>3 DEF InHandler, StartStep, DispatchFails, DispatchAccepts, AllocateGpus, CreateVolume, StageArtifact,
         MarkStarting, RunOk, RunFails, MarkReady, TellReady, FailRelease, FailMark, TellFailed
  <2>2. AllocateGpus \/ FailRelease \/ UNCHANGED alloc
    BY <1>3 DEF StartStep, DispatchFails, DispatchAccepts, CreateVolume, StageArtifact, MarkStarting, RunOk, RunFails,
         MarkReady, TellReady, FailMark, TellFailed
  <2> QED
    BY <2>1, <2>2 DEF AllocateGpus, FailRelease
<1>4. CASE SuspendStep
  <2>1. SuspendRelease => Dep \in Deployments
    BY <1>0 DEF InHandler, SuspendRelease
  <2> QED
    BY <1>4, <2>1 DEF SuspendStep, SuspendRelease, SuspendStop, SuspendMark, TellSuspended
<1>5. CASE ResumeStep
  <2>1. Dep \in Deployments
    BY <1>0, <1>5 DEF InHandler, ResumeStep, ResumeAllocate, ResumeStart, ResumeMark, ResumeUndo,
                      ResumeKeep, ResumeGiveBack, ResumeFetch
  <2> QED
    BY <1>5, <2>1 DEF ResumeStep, ResumeAllocate, ResumeStart, ResumeMark, ResumeUndo, ResumeKeep, ResumeGiveBack, ResumeFetch
<1>6. CASE PassStep
  BY <1>6 DEF PassStep, BeginReconcile, BeginRecovery, BeginOrphans, EndPass, VisitLease,
              VisitOrphan, RecoverRuntime
<1>7. CASE ControlPlane
  BY <1>7 DEF ControlPlane, agent, Outage, Reconnect, CreateLease, SuspendLease, ResumeLease,
              MoveLease, EndLease
<1>8. CASE \/ \E a \in Routes, d \in Deployments : TerminateRequest(a, d)
           \/ \E g \in Devices : Squat(g)
  BY <1>8 DEF TerminateRequest, Squat, agent
<1>9. CASE Probing
  BY <1>9, ProbingReads
<1> QED
  BY <1>1, <1>2, <1>3, <1>4, <1>5, <1>6, <1>7, <1>8, <1>9 DEF Next

(* No path of the agent, whatever the terminate route interleaves with the  *)
(* pass and whichever docker command fails, adds two deployments to one     *)
(* card: only a restart, which takes the persisted claims as they are, can. *)
THEOREM OverlapsOnlyByRestart == Spec => OnlyRestartOverlaps
<1>1. TypeInv /\ [Next]_vars => [Overlaps' \subseteq Overlaps \/ Restart]_vars
  BY OneMovePerStep, MoveAddsNoOverlap DEF TypeInv, AgentTypeOK
<1>2. Spec => [][Overlaps' \subseteq Overlaps \/ Restart]_vars
  BY <1>1, InitTypeInv, TypeInvInductive, PTL DEF Spec
<1> QED
  BY <1>2 DEF OnlyRestartOverlaps

(* Inductive form of NoDoubleAllocation: a restart uses up a crash, and     *)
(* none is ever given back.                                                 *)
NoOverlapInv ==
  /\ TypeInv
  /\ budget["crash"] <= Budget["crash"]
  /\ NoDoubleAllocation

(* A step uses up at most one of the faults and requests still allowed, and *)
(* never gives one back.                                                    *)
LEMMA SpendsOne ==
  ASSUME TypeInv, [Next]_vars
  PROVE  UNCHANGED budget \/ \E k \in Faults : Spend(k)
<1>1. CASE UNCHANGED vars
  BY <1>1 DEF vars
<1>2. ASSUME NEW a \in Actors, Teardown(a) PROVE UNCHANGED budget \/ \E k \in Faults : Spend(k)
  BY <1>2 DEF Teardown, TerminateRelease, TerminateStop, TerminateVolume, TerminateMark, TellTerminated,
              RemoveRuntime, RemoveContainer, Faults
<1>3. CASE StartStep
  BY <1>3 DEF Faults, StartStep, DispatchFails, DispatchAccepts, AllocateGpus, CreateVolume, StageArtifact,
       MarkStarting, RunOk, RunFails, MarkReady, TellReady, FailRelease, FailMark, TellFailed
<1>4. CASE SuspendStep
  <2>1. SuspendStop => Kind[Dep] \in {"pod", "inference", "vm"}
    BY NodeAssumption DEF TypeInv, CallNamesDep, InHandler, SuspendStop, Dep, Actors
  <2>2. SuspendStop => UNCHANGED budget \/ Spend("rm")
    BY <2>1 DEF SuspendStop, PauseContainer, RemoveContainer
  <2> QED
    BY <1>4, <2>2 DEF Faults, SuspendStep, SuspendRelease, SuspendMark, TellSuspended
<1>5. CASE ResumeStep
  BY <1>5 DEF Faults, ResumeStep, ResumeAllocate, ResumeStart, ResumeMark, ResumeUndo, ResumeKeep, ResumeGiveBack, ResumeFetch
<1>6. CASE PassStep
  BY <1>6 DEF Faults, PassStep, BeginReconcile, BeginRecovery, BeginOrphans, EndPass,
              VisitLease, VisitOrphan, RecoverRuntime
<1>7. CASE Restart \/ ControlPlane
  BY <1>7 DEF Faults, Restart, ControlPlane, Outage, Reconnect, CreateLease, SuspendLease,
              ResumeLease, MoveLease, EndLease
<1>8. CASE \/ \E a \in Routes, d \in Deployments : TerminateRequest(a, d)
           \/ \E g \in Devices : Squat(g)
  BY <1>8 DEF Faults, TerminateRequest, Squat
<1>9. CASE Probing
  BY <1>9, ProbingReads
<1> QED
  BY <1>1, <1>2, <1>3, <1>4, <1>5, <1>6, <1>7, <1>8, <1>9 DEF Next

(* The crashes allowed are never raised, and a restart uses one.            *)
LEMMA BudgetOnlyShrinks ==
  ASSUME TypeInv, [Next]_vars
  PROVE  budget'["crash"] <= budget["crash"] /\ (Restart => budget'["crash"] < budget["crash"])
<1>1. UNCHANGED budget \/ \E k \in Faults : Spend(k)
  BY SpendsOne
<1>2. budget \in [Faults -> Nat] /\ "crash" \in Faults
  BY DEF TypeInv, AgentTypeOK, Faults
<1>3. \A k \in Faults : Spend(k) => budget'["crash"] <= budget["crash"]
  BY <1>2 DEF Spend
<1>4. Restart => budget'["crash"] < budget["crash"]
  BY <1>2 DEF Restart, Spend
<1> QED
  BY <1>1, <1>2, <1>3, <1>4

(* The two ways to say that no card is allocated twice.                     *)
LEMMA DisjointIsNoOverlap == Disjoint <=> Overlaps = {}
<1>1. ASSUME Disjoint PROVE Overlaps = {}
  BY <1>1 DEF Disjoint, Overlaps
<1>2. ASSUME Overlaps = {}, NEW d \in Deployments, NEW e \in Deployments, d # e,
             alloc[d] \cap alloc[e] # {}
      PROVE  FALSE
  <2>1. <<d, e>> \in Deployments \X Deployments /\ <<d, e>>[1] = d /\ <<d, e>>[2] = e
    OBVIOUS
  <2>2. <<d, e>> \in Overlaps
    BY <1>2, <2>1 DEF Overlaps
  <2> QED
    BY <1>2, <2>2
<1> QED
  BY <1>1, <1>2 DEF Disjoint

(* Until the first restart every ledger move keeps the ledger exclusive.    *)
LEMMA NoOverlapInductive == NoOverlapInv /\ [Next]_vars => NoOverlapInv'
<1> SUFFICES ASSUME NoOverlapInv, [Next]_vars PROVE NoOverlapInv'
  OBVIOUS
<1>1. TypeInv' /\ AllocatorTypeOK /\ AllocatorTypeOK'
  BY TypeInvInductive DEF NoOverlapInv, TypeInv, AgentTypeOK
<1>2. budget'["crash"] <= budget["crash"] /\ (Restart => budget'["crash"] < budget["crash"])
  BY BudgetOnlyShrinks DEF NoOverlapInv
<1>3. budget["crash"] \in Nat /\ budget'["crash"] \in Nat /\ Budget["crash"] \in Nat
  BY <1>1, NodeAssumption DEF NoOverlapInv, TypeInv, AgentTypeOK, Faults
<1>4. budget'["crash"] <= Budget["crash"]
  BY <1>2, <1>3 DEF NoOverlapInv
<1>5. ASSUME budget'["crash"] = Budget["crash"] PROVE Disjoint'
  <2>1. budget["crash"] = Budget["crash"] /\ ~Restart
    BY <1>2, <1>3, <1>5 DEF NoOverlapInv
  <2>2. Overlaps = {}
    BY <1>1, <2>1, DisjointIsNoOverlap DEF NoOverlapInv, NoDoubleAllocation
  <2>3. Overlaps' = {}
    BY <1>1, <2>1, <2>2, OneMovePerStep, MoveAddsNoOverlap DEF NoOverlapInv
  <2> QED
    <3> SUFFICES ASSUME NEW d \in Deployments, NEW e \in Deployments, d # e,
                        alloc'[d] \cap alloc'[e] # {}
                 PROVE  FALSE
      BY DEF Disjoint
    <3>1. <<d, e>> \in Deployments \X Deployments /\ <<d, e>>[1] = d /\ <<d, e>>[2] = e
      OBVIOUS
    <3> QED
      BY <2>3, <3>1 DEF Overlaps
<1> QED
  BY <1>1, <1>4, <1>5 DEF NoOverlapInv, NoDoubleAllocation

LEMMA InitNoOverlap == Init => NoOverlapInv
<1> SUFFICES ASSUME Init PROVE NoOverlapInv
  OBVIOUS
<1>1. budget["crash"] <= Budget["crash"]
  BY NodeAssumption DEF Init, Faults
<1>2. Disjoint
  BY DEF Init, AllocatorInit, Disjoint
<1> QED
  BY <1>1, <1>2, InitTypeInv DEF NoOverlapInv, NoDoubleAllocation

(* As long as the process has not been restarted, the ledger never records  *)
(* two deployments on one card.                                             *)
THEOREM NoDoubleAllocationHolds == Spec => []NoDoubleAllocation
<1>1. Spec => []NoOverlapInv
  BY InitNoOverlap, NoOverlapInductive, PTL DEF Spec
<1> QED
  BY <1>1, PTL DEF NoOverlapInv

=============================================================================
