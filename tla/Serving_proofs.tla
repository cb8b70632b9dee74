---------------------------- MODULE Serving_proofs ----------------------------
(***************************************************************************)
(* The node agent without terminate requests implements Serving: proofs for *)
(* any set of deployments and cards, any kinds and needs, and any number of *)
(* restarts, outages and docker failures.                                   *)
(***************************************************************************)
EXTENDS NodeAgent_proofs

(* Stages of the handlers, by what they know of their deployment's cards.   *)

(* The ledger has no entry for it.                                          *)
FreeLabels ==
  {"stop", "volume", "mark", "tellTerminated", "remove", "dispatch", "allocate", "resAlloc",
   "susStop", "susMark", "tellSuspended", "failMark", "tellFailed", "resKeep", "resFetch"}

(* Its record is not ready.                                                 *)
NotReadyLabels ==
  {"dispatch", "allocate", "prepare", "markStarting", "run", "markReady", "failRelease", "failMark",
   "tellFailed", "resAlloc", "resStart", "resMark", "resUndo", "resKeep", "resGiveBack", "resFetch"}

(* The runtime copy names the cards the ledger has for it.                  *)
HeldLabels == {"prepare", "markStarting", "run", "markReady", "resStart", "resMark"}

(* The ledger may have an entry while the record is still suspended.        *)
ResumeHolds == {"resStart", "resMark", "resUndo", "resGiveBack"}

At(labels) == pc[Pass] \in labels

OnlyLiveRecordsHold ==
  \A d \in Deployments :
    alloc[d] # {} => runtimes[d].status \in Active \/ (d = Dep /\ At(ResumeHolds))

FreeStage  == At(FreeLabels) => alloc[Dep] = {}
NotReadyStage == At(NotReadyLabels) => runtimes[Dep].status # "ready"
AcceptedStage == At({"allocate"}) => runtimes[Dep].status = "accepted"
CopyStage ==
  /\ At({"susMark"}) => Rt.status = "suspended"
  /\ At({"resMark"}) => Rt.status = "ready"
HeldStage ==
  At(HeldLabels) =>
    /\ Rt.devs = alloc[Dep]
    /\ \A e \in Deployments \ {Dep} :
         runtimes[e].status = "ready" => alloc[Dep] \cap runtimes[e].devs = {}

(* Ready records own their cards and share none; a handler that is about to *)
(* make one ready holds cards no ready record names.                        *)
ServeInv ==
  /\ ReadyOwnsItsGpus /\ ReadyExclusive
  /\ OnlyLiveRecordsHold
  /\ FreeStage /\ NotReadyStage /\ AcceptedStage /\ CopyStage /\ HeldStage

-----------------------------------------------------------------------------
(* Without terminate requests the pass is the only actor.                   *)

Down == {"stop", "volume", "mark", "susStop", "susMark"}
DownHere(d) == d = Dep /\ At(Down)

(* So a deployment is being released only by the handler of the pass.       *)
LEMMA OnlyThePass ==
  ASSUME Routes = {}
  PROVE  /\ Actors = {Pass}
         /\ \A d : Released(d) <=> DownHere(d)
         /\ \A d : Released(d)' <=> DownHere(d)'
BY DEF Actors, Released, InHands, DownHere, At, Down, Dep

(* ReadyOwnsItsGpus with the pass as the only actor.                        *)
OwnStage ==
  \A d \in Deployments :
    runtimes[d].status = "ready" /\ ~DownHere(d) => alloc[d] = runtimes[d].devs

LEMMA OwnStageIsOwnership ==
  ASSUME Routes = {}
  PROVE  (ReadyOwnsItsGpus <=> OwnStage) /\ (ReadyOwnsItsGpus' <=> OwnStage')
BY OnlyThePass DEF ReadyOwnsItsGpus, OwnStage

(* The conjuncts of ServeInv, spelled out for the leaves.                   *)
Stages ==
  /\ OwnStage /\ ReadyExclusive /\ OnlyLiveRecordsHold
  /\ FreeStage /\ NotReadyStage /\ AcceptedStage /\ CopyStage /\ HeldStage

(* Initially nobody holds a card and no record is ready.                    *)
LEMMA InitServe == Init => ServeInv
BY DEF Init, AllocatorInit, ServeInv, ReadyOwnsItsGpus, ReadyExclusive, OnlyLiveRecordsHold, FreeStage,
       NotReadyStage, AcceptedStage, CopyStage, HeldStage, At, NoRecord, FreeLabels, NotReadyLabels,
       HeldLabels, Actors

(* The types that matter here.                                              *)
Core ==
  /\ alloc \in [Deployments -> SUBSET Devices] /\ runtimes \in [Deployments -> Record]
  /\ pc \in [Actors -> Labels] /\ call \in [Actors -> CallFrame]

LEMMA CoreTypes ==
  ASSUME TypeInv
  PROVE  Core /\ Pass \in Actors /\ (InHandler(Pass) => Dep \in Deployments /\ Rt \in Record)
BY DEF Core, TypeInv, AgentTypeOK, AllocatorTypeOK, CallNamesDep, Actors, InHandler, CallFrame, Dep, Rt

(* Where the pass is after a move within a handler, or out of it.           *)
LEMMA PassMoves ==
  ASSUME Core, Pass \in Actors
  PROVE  /\ \A l : Goto(Pass, l) => pc'[Pass] = l /\ Dep' = Dep /\ Rt' = Rt
         /\ \A l, r : GotoRt(Pass, l, r) => pc'[Pass] = l /\ Dep' = Dep /\ Rt' = r
         /\ \A l, f : Enter(Pass, l, f) => pc'[Pass] = l /\ Dep' = f.dep /\ Rt' = f.rt
         /\ Return(Pass) => pc'[Pass] = "next" /\ Dep' = NoDep
BY DEF Core, CallFrame, Goto, GotoRt, Enter, Return, NoCall, Dep, Rt

(* The record a handler goes on with.                                       *)
LEMMA WithFields ==
  ASSUME NEW r \in Record, NEW s
  PROVE  With(r, s).status = s /\ With(r, s).devs = r.devs /\ With(r, s).cid = r.cid
BY DEF With, Record

(* _terminate_runtime.                                                      *)
LEMMA TeardownServe ==
  ASSUME TypeInv, TypeInv', Stages, Teardown(Pass)
  PROVE  Stages'
<1> USE DEF Stages, OwnStage, DownHere, ReadyExclusive, OnlyLiveRecordsHold,
       FreeStage, NotReadyStage, AcceptedStage, CopyStage, HeldStage, At,
       Down, FreeLabels, NotReadyLabels, HeldLabels, ResumeHolds, Active, Core
<1>0. Core /\ Pass \in Actors /\ (InHandler(Pass) => Dep \in Deployments /\ Rt \in Record)
  BY CoreTypes
<1>d. Dep = call[Pass].dep /\ Rt = call[Pass].rt
  BY DEF Dep, Rt
<1>1. CASE TerminateRelease(Pass)
  BY <1>0, <1>d, <1>1, PassMoves DEF TerminateRelease, Release, InHandler
<1>2. CASE TerminateStop(Pass)
  BY <1>0, <1>d, <1>2, PassMoves DEF TerminateStop, InHandler
<1>3. CASE TerminateVolume(Pass)
  BY <1>0, <1>d, <1>3, PassMoves DEF TerminateVolume, InHandler
<1>4. CASE TerminateMark(Pass)
  BY <1>0, <1>d, <1>4, PassMoves, WithFields DEF TerminateMark, Upsert, AfterTeardown, InHandler, NoDep, NoRecord
<1>5. CASE TellTerminated(Pass)
  BY <1>0, <1>d, <1>5, PassMoves DEF TellTerminated, AfterTeardown, InHandler, NoDep
<1>6. CASE RemoveRuntime(Pass)
  BY <1>0, <1>d, <1>6, PassMoves, RecordTypes DEF RemoveRuntime, Upsert, Frame, InHandler, NoDep, NoRecord
<1> QED
  BY <1>1, <1>2, <1>3, <1>4, <1>5, <1>6 DEF Teardown

(* Cards the allocator chooses belong to no ready record.                   *)
LEMMA ChosenIsNobodys ==
  ASSUME Stages, NEW d \in Deployments, d = Dep, ~At(Down), NEW S, S \subseteq FreeDevices \cup alloc[d],
         NEW e \in Deployments \ {d}, runtimes[e].status = "ready", alloc[d] = {}
  PROVE  S \cap runtimes[e].devs = {}
<1>1. alloc[e] = runtimes[e].devs
  BY DEF Stages, OwnStage, DownHere
<1> QED
  BY <1>1 DEF FreeDevices, AllocatedDevices

(* The start handlers and _fail_runtime.                                    *)
LEMMA StartServe ==
  ASSUME TypeInv, TypeInv', Stages, StartStep
  PROVE  Stages'
<1> USE DEF Stages, OwnStage, DownHere, ReadyExclusive, OnlyLiveRecordsHold,
       FreeStage, NotReadyStage, AcceptedStage, CopyStage, HeldStage, At,
       Down, FreeLabels, NotReadyLabels, HeldLabels, ResumeHolds, Active, Core
<1>0. Core /\ Pass \in Actors /\ (InHandler(Pass) => Dep \in Deployments /\ Rt \in Record)
  BY CoreTypes
<1>1. CASE DispatchFails
  BY <1>0, <1>1, PassMoves DEF DispatchFails, InHandler
<1>2. CASE DispatchAccepts
  <2>1. With(NoRecord, "accepted").status = "accepted"
    BY RecordTypes, WithFields
  <2> QED
    BY <1>0, <1>2, <2>1, PassMoves DEF DispatchAccepts, Upsert, InHandler
<1>3. CASE AllocateGpus
  <2>1. Dep \in Deployments /\ Rt \in Record /\ Need[Dep] \in Nat /\ ~At(Down) /\ alloc[Dep] = {}
        /\ runtimes[Dep].status = "accepted"
    BY <1>0, <1>3, NodeAssumption DEF AllocateGpus, InHandler
  <2>2. CASE Goto(Pass, "failRelease") /\ UNCHANGED <<alloc, runtimes>>
    BY <1>0, <2>1, <2>2, PassMoves DEF Goto
  <2>3. ASSUME NEW avoid, NEW l \in {"markStarting", "prepare"}, Allocate(Dep, Need[Dep], avoid), UNCHANGED runtimes,
               GotoRt(Pass, l, [Rt EXCEPT !.devs = IF Need[Dep] = 0 THEN {} ELSE Chosen(Need[Dep], avoid)])
        PROVE  Stages'
    <3> DEFINE got == IF Need[Dep] = 0 THEN {} ELSE Chosen(Need[Dep], avoid)
    <3>1. alloc' = [alloc EXCEPT ![Dep] = got]
      BY <1>0, <2>1, <2>3 DEF Allocate
    <3>2. \A e \in Deployments \ {Dep} : runtimes[e].status = "ready" => got \cap runtimes[e].devs = {}
      <4>1. got \subseteq FreeDevices \cup alloc[Dep]
        BY ChosenIsFree
      <4> QED
        BY <2>1, <4>1, ChosenIsNobodys
    <3>3. pc' = [pc EXCEPT ![Pass] = l] /\ Dep' = Dep /\ Rt'.devs = got
      <4>1. [Rt EXCEPT !.devs = got].devs = got
        BY <2>1 DEF Record
      <4>2. pc' = [pc EXCEPT ![Pass] = l]
        BY <2>3 DEF GotoRt
      <4> QED
        BY <1>0, <2>3, <4>1, <4>2, PassMoves
    <3> HIDE DEF got
    <3> QED
      BY <1>0, <2>1, <2>3, <3>1, <3>2, <3>3
  <2> QED
    BY <1>3, <2>2, <2>3 DEF AllocateGpus
<1>4. CASE CreateVolume
  BY <1>0, <1>4, PassMoves DEF CreateVolume, InHandler, Record
<1>5. CASE StageArtifact
  BY <1>0, <1>5, PassMoves DEF StageArtifact, InHandler
<1>6. CASE MarkStarting
  BY <1>0, <1>6, PassMoves, WithFields DEF MarkStarting, Upsert, InHandler
<1>7. CASE RunOk
  BY <1>0, <1>7, PassMoves DEF RunOk, InHandler, Record
<1>8. CASE RunFails
  BY <1>0, <1>8, PassMoves DEF RunFails, InHandler
<1>9. CASE MarkReady
  BY <1>0, <1>9, PassMoves, WithFields DEF MarkReady, Upsert, InHandler
<1>10. CASE TellReady
  BY <1>0, <1>10, PassMoves DEF TellReady, InHandler, NoDep
<1>11. CASE FailRelease
  BY <1>0, <1>11, PassMoves DEF FailRelease, Release, InHandler
<1>12. CASE FailMark
  BY <1>0, <1>12, PassMoves, WithFields DEF FailMark, Upsert, InHandler
<1>13. CASE TellFailed
  BY <1>0, <1>13, PassMoves DEF TellFailed, InHandler, NoDep
<1> QED
  BY <1>1, <1>2, <1>3, <1>4, <1>5, <1>6, <1>7, <1>8, <1>9, <1>10, <1>11, <1>12, <1>13 DEF StartStep

(* _suspend_runtime.                                                        *)
LEMMA SuspendServe ==
  ASSUME TypeInv, TypeInv', Stages, SuspendStep
  PROVE  Stages'
<1> USE DEF Stages, OwnStage, DownHere, ReadyExclusive, OnlyLiveRecordsHold,
       FreeStage, NotReadyStage, AcceptedStage, CopyStage, HeldStage, At,
       Down, FreeLabels, NotReadyLabels, HeldLabels, ResumeHolds, Active, Core
<1>0. Core /\ Pass \in Actors /\ (InHandler(Pass) => Dep \in Deployments /\ Rt \in Record)
  BY CoreTypes
<1>1. CASE SuspendRelease
  BY <1>0, <1>1, PassMoves DEF SuspendRelease, Release, InHandler
<1>2. CASE SuspendStop
  <2>1. Rt \in Record /\ pc[Pass] = "susStop" /\ GotoRt(Pass, "susMark", SuspendedRecord(Rt)) /\ UNCHANGED <<alloc, runtimes>>
    BY <1>0, <1>2 DEF SuspendStop, InHandler
  <2>2. SuspendedRecord(Rt).status = "suspended"
    BY <2>1 DEF SuspendedRecord, With, Record
  <2> QED
    BY <1>0, <2>1, <2>2, PassMoves DEF InHandler
<1>3. CASE SuspendMark
  BY <1>0, <1>3, PassMoves DEF SuspendMark, Upsert, InHandler
<1>4. CASE TellSuspended
  BY <1>0, <1>4, PassMoves DEF TellSuspended, InHandler, NoDep
<1> QED
  BY <1>1, <1>2, <1>3, <1>4 DEF SuspendStep

(* _resume_runtime.                                                         *)
LEMMA ResumeServe ==
  ASSUME TypeInv, TypeInv', Stages, ResumeStep
  PROVE  Stages'
<1> USE DEF Stages, OwnStage, DownHere, ReadyExclusive, OnlyLiveRecordsHold,
       FreeStage, NotReadyStage, AcceptedStage, CopyStage, HeldStage, At,
       Down, FreeLabels, NotReadyLabels, HeldLabels, ResumeHolds, Active, Core
<1>0. Core /\ Pass \in Actors /\ (InHandler(Pass) => Dep \in Deployments /\ Rt \in Record)
  BY CoreTypes
<1>1. CASE ResumeAllocate
  <2>1. Dep \in Deployments /\ Rt \in Record /\ ~At(Down) /\ alloc[Dep] = {} /\ runtimes[Dep].status # "ready"
    BY <1>0, <1>1 DEF ResumeAllocate, InHandler
  <2>2. CASE Return(Pass) /\ UNCHANGED <<alloc, runtimes>>
    BY <1>0, <2>1, <2>2, PassMoves DEF NoDep
  <2>3. ASSUME NEW got, got \subseteq FreeDevices \cup alloc[Dep], alloc' = [alloc EXCEPT ![Dep] = got],
               Kind[Dep] = "pod" => Rt'.devs = got, UNCHANGED runtimes, Dep' = Dep,
               pc' = [pc EXCEPT ![Pass] = IF Kind[Dep] = "pod" THEN "resStart" ELSE "resGiveBack"]
        PROVE  Stages'
    <3>1. \A e \in Deployments \ {Dep} : runtimes[e].status = "ready" => got \cap runtimes[e].devs = {}
      BY <2>1, <2>3, ChosenIsNobodys
    <3> QED
      BY <1>0, <2>1, <2>3, <3>1
  <2>4. CASE Pinned /\ AllocateSpecific(Dep, Rt.devs) /\ UNCHANGED <<call, runtimes>>
             /\ pc' = [pc EXCEPT ![Pass] = IF Kind[Dep] = "pod" THEN "resStart" ELSE "resGiveBack"]
    <3>1. Dep' = Dep /\ Rt' = Rt
      BY <2>4 DEF Dep, Rt
    <3> QED
      BY <2>3, <2>4, <3>1 DEF Pinned, AllocateSpecific, CanReserve
  <2>5. ASSUME NEW avoid, ~Pinned, Allocate(Dep, ResumeCount, avoid), UNCHANGED runtimes,
               GotoRt(Pass, IF Kind[Dep] = "pod" THEN "resStart" ELSE "resGiveBack",
                      IF Kind[Dep] = "pod" THEN [Rt EXCEPT !.devs = Chosen(1, avoid)] ELSE Rt)
        PROVE  Stages'
    <3>1. Kind[Dep] = "pod" => ResumeCount = 1
      BY <2>5 DEF Pinned, ResumeCount
    <3>2. PICK got : /\ got = {} \/ got = Chosen(ResumeCount, avoid)
                     /\ ResumeCount # 0 => got = Chosen(ResumeCount, avoid)
                     /\ alloc' = [alloc EXCEPT ![Dep] = got]
      BY <1>0, <2>1, <2>5 DEF Allocate
    <3>3. got \subseteq FreeDevices \cup alloc[Dep]
      BY <3>2, ChosenIsFree
    <3>4. Kind[Dep] = "pod" => Rt'.devs = got
      <4>1. [Rt EXCEPT !.devs = Chosen(1, avoid)].devs = Chosen(1, avoid)
        BY <2>1 DEF Record
      <4>2. Kind[Dep] = "pod" => Rt' = [Rt EXCEPT !.devs = Chosen(1, avoid)]
        BY <1>0, <2>5, PassMoves
      <4>3. Kind[Dep] = "pod" => got = Chosen(1, avoid)
        BY <3>1, <3>2
      <4> QED
        BY <4>1, <4>2, <4>3
    <3>5. Dep' = Dep
      BY <1>0, <2>5, PassMoves
    <3>6. pc' = [pc EXCEPT ![Pass] = IF Kind[Dep] = "pod" THEN "resStart" ELSE "resGiveBack"]
      BY <2>5 DEF GotoRt
    <3> QED
      BY <2>3, <2>5, <3>2, <3>3, <3>4, <3>5, <3>6
  <2> QED
    BY <1>1, <2>2, <2>4, <2>5 DEF ResumeAllocate, Goto
<1>2. CASE ResumeStart
  BY <1>0, <1>2, PassMoves, WithFields DEF ResumeStart, InHandler
<1>3. CASE ResumeMark
  BY <1>0, <1>3, PassMoves DEF ResumeMark, Upsert, InHandler
<1>4. CASE ResumeUndo
  BY <1>0, <1>4, PassMoves DEF ResumeUndo, Release, InHandler
<1>5. CASE ResumeKeep
  BY <1>0, <1>5, PassMoves, WithFields DEF ResumeKeep, Upsert, InHandler, NoDep, NoRecord
<1>6. CASE ResumeGiveBack
  BY <1>0, <1>6, PassMoves DEF ResumeGiveBack, Release, InHandler
<1>7. CASE ResumeFetch
  <2>1. CASE Upsert(Dep, With(Rt, "accepted")) /\ GotoRt(Pass, "allocate", With(Rt, "accepted"))
    BY <1>0, <1>7, <2>1, PassMoves, WithFields DEF ResumeFetch, Upsert, InHandler
  <2>2. CASE Return(Pass) /\ UNCHANGED runtimes
    BY <1>0, <1>7, <2>2, PassMoves DEF ResumeFetch, InHandler, NoDep
  <2> QED
    BY <1>7, <2>1, <2>2 DEF ResumeFetch
<1> QED
  BY <1>1, <1>2, <1>3, <1>4, <1>5, <1>6, <1>7 DEF ResumeStep

(* Nothing is known of the stages at which the pass enters a handler, but   *)
(* what holds of the record it enters with.                                 *)
LEMMA EnterServe ==
  ASSUME TypeInv, Stages, pc[Pass] \in {"idle", "next"}, UNCHANGED <<alloc, runtimes>>,
         NEW l, NEW f, Enter(Pass, l, f),
         \/ l \in {"idle", "next"} /\ f = NoCall
         \/ l \in {"release", "susRelease"} /\ f.dep \in Deployments
         \/ l = "resAlloc" /\ f.dep \in Deployments /\ runtimes[f.dep].status = "suspended"
         \/ l = "dispatch" /\ f.dep \in Deployments /\ runtimes[f.dep].status = "none"
  PROVE  Stages'
<1>0. Core /\ Pass \in Actors
  BY CoreTypes
<1>1. pc'[Pass] = l /\ Dep' = f.dep
  BY <1>0, PassMoves
<1>2. \A d \in Deployments : alloc[d] # {} => runtimes[d].status \in Active
  BY DEF Stages, OnlyLiveRecordsHold, At, ResumeHolds
<1>3. \A d \in Deployments : runtimes[d].status = "ready" => alloc[d] = runtimes[d].devs
  BY DEF Stages, OwnStage, DownHere, At, Down
<1>4. OwnStage' /\ OnlyLiveRecordsHold' /\ ReadyExclusive'
  BY <1>2, <1>3 DEF Stages, OwnStage, OnlyLiveRecordsHold, ReadyExclusive
<1>5. FreeStage'
  BY <1>1, <1>2 DEF FreeStage, At, FreeLabels, Active
<1>6. NotReadyStage'
  BY <1>1 DEF NotReadyStage, At, NotReadyLabels
<1>7. AcceptedStage' /\ CopyStage' /\ HeldStage'
  BY <1>1 DEF AcceptedStage, CopyStage, HeldStage, At, HeldLabels
<1> QED
  BY <1>4, <1>5, <1>6, <1>7 DEF Stages

(* The loops of the pass: a handler is entered with the current record      *)
(* (leases) or with one of the snapshot (clean-up, recovery).               *)
LEMMA PassServe ==
  ASSUME TypeInv, Stages, PassStep
  PROVE  Stages'
<1>1. CASE UNCHANGED <<pc, call, alloc, runtimes>>
  BY <1>1
  DEF Stages, OwnStage, DownHere, ReadyExclusive, OnlyLiveRecordsHold, FreeStage, NotReadyStage,
      AcceptedStage, CopyStage, HeldStage, At, Dep, Rt
<1>2. CASE BeginReconcile \/ BeginRecovery
  BY <1>2, EnterServe DEF BeginReconcile, BeginRecovery, Return
<1>3. CASE BeginOrphans
  BY <1>1, <1>3 DEF BeginOrphans, threads
<1>4. CASE EndPass
  BY <1>4, EnterServe DEF EndPass
<1>5. ASSUME NEW d \in Deployments, VisitLease(d) PROVE Stages'
  <2>1. \A rep, th : Frame(d, runtimes[d], rep, th).dep = d
    BY DEF Frame
  <2>2. \/ Enter(Pass, "susRelease", Frame(d, runtimes[d], FALSE, "done"))
        \/ runtimes[d].status = "suspended" /\ Enter(Pass, "resAlloc", Frame(d, runtimes[d], FALSE, "done"))
        \/ runtimes[d].status = "none" /\ Enter(Pass, "dispatch", Frame(d, runtimes[d], FALSE, "done"))
        \/ Enter(Pass, "release", Frame(d, runtimes[d], FALSE, "dispatch"))
        \/ UNCHANGED <<pc, call>>
    BY <1>5 DEF VisitLease, threads
  <2>3. pc[Pass] = "next" /\ UNCHANGED <<alloc, runtimes>>
    BY <1>5 DEF VisitLease
  <2> QED
    BY <1>1, <2>1, <2>2, <2>3, EnterServe
<1>6. ASSUME NEW d \in Deployments, VisitOrphan(d) \/ RecoverRuntime(d) PROVE Stages'
  <2>1. \A rep, th : Frame(d, snap[d], rep, th).dep = d
    BY DEF Frame
  <2>2. (\E rep, th : Enter(Pass, "release", Frame(d, snap[d], rep, th))) \/ UNCHANGED <<pc, call>>
    BY <1>6 DEF VisitOrphan, RecoverRuntime, threads
  <2>3. pc[Pass] = "next" /\ UNCHANGED <<alloc, runtimes>>
    BY <1>6 DEF VisitOrphan, RecoverRuntime
  <2> QED
    BY <1>1, <2>1, <2>2, <2>3, EnterServe
<1> QED
  BY <1>2, <1>3, <1>4, <1>5, <1>6 DEF PassStep

(* A restart claims the cards of every ready record, and no handler runs;   *)
(* a probe and the environment touch neither records nor ledger.            *)
LEMMA EnvironmentServe ==
  ASSUME TypeInv, TypeInv', Stages, Restart \/ Probing \/ ControlPlane \/ \E g \in Devices : Squat(g)
  PROVE  Stages'
<1> USE DEF Stages, OwnStage, DownHere, ReadyExclusive, OnlyLiveRecordsHold,
       FreeStage, NotReadyStage, AcceptedStage, CopyStage, HeldStage, At,
       Down, FreeLabels, NotReadyLabels, HeldLabels, ResumeHolds, Active, Core
<1>0. Core /\ Pass \in Actors /\ (InHandler(Pass) => Dep \in Deployments /\ Rt \in Record)
  BY CoreTypes
<1>1. CASE Restart
  BY <1>0, <1>1 DEF Restart, Rehydrate, PersistedClaim, NoCall
<1>2. CASE Probing \/ ControlPlane \/ \E g \in Devices : Squat(g)
  <2>1. UNCHANGED <<alloc, runtimes, pc, call>>
    BY <1>2, ProbingReads
    DEF ControlPlane, Outage, Reconnect, CreateLease, SuspendLease, ResumeLease, MoveLease,
                EndLease, Squat, agent, threads
  <2> QED
    BY <1>0, <2>1 DEF Dep, Rt
<1> QED
  BY <1>1, <1>2

(* ServeInv is inductive when no terminate request can come in.             *)
LEMMA ServeInductive ==
  ASSUME Routes = {}
  PROVE  TypeInv /\ ServeInv /\ [Next]_vars => ServeInv'
<1> SUFFICES ASSUME TypeInv, ServeInv, [Next]_vars PROVE ServeInv'
  OBVIOUS
<1>1. TypeInv' /\ Stages
  BY TypeInvInductive, OwnStageIsOwnership DEF ServeInv, Stages
<1>2. ASSUME UNCHANGED vars PROVE Stages'
  BY <1>1, <1>2 DEF vars, threads, Stages, OwnStage, DownHere, ReadyExclusive, OnlyLiveRecordsHold,
     FreeStage, NotReadyStage, AcceptedStage, CopyStage, HeldStage, At, Dep, Rt
<1>3. ASSUME Next PROVE Stages'
  BY <1>1, <1>3, OnlyThePass, TeardownServe, StartServe, SuspendServe, ResumeServe, PassServe, EnvironmentServe
  DEF Next
<1>4. Stages'
  BY <1>2, <1>3
<1> QED
  BY <1>4, OwnStageIsOwnership DEF ServeInv, Stages

(* Without terminate requests: a runtime recorded ready holds in the ledger *)
(* exactly the cards its metadata names, whatever fails or restarts.        *)
THEOREM ReadyOwnsItsGpusHolds ==
  ASSUME Routes = {}
  PROVE  Spec => []ReadyOwnsItsGpus
<1>1. Spec => [](TypeInv /\ ServeInv)
  BY InitTypeInv, InitServe, TypeInvInductive, ServeInductive, PTL DEF Spec
<1>2. ServeInv => ReadyOwnsItsGpus
  BY DEF ServeInv
<1> QED
  BY <1>1, <1>2, PTL

(* Likewise: two runtimes recorded ready never name a common card.          *)
THEOREM ReadyExclusiveHolds ==
  ASSUME Routes = {}
  PROVE  Spec => []ReadyExclusive
<1>1. Spec => [](TypeInv /\ ServeInv)
  BY InitTypeInv, InitServe, TypeInvInductive, ServeInductive, PTL DEF Spec
<1>2. ServeInv => ReadyExclusive
  BY DEF ServeInv
<1> QED
  BY <1>1, <1>2, PTL

(* Likewise: a card stays in the ledger only for a runtime in flight or     *)
(* serving, so no path leaks one. A handler still at work is Busy with Dep. *)
THEOREM LedgerFollowsRecordsHolds ==
  ASSUME Routes = {}
  PROVE  Spec => []LedgerFollowsRecords
<1>1. Spec => [](TypeInv /\ ServeInv)
  BY InitTypeInv, InitServe, TypeInvInductive, ServeInductive, PTL DEF Spec
<1>2. TypeInv /\ ServeInv => LedgerFollowsRecords
  <2> SUFFICES ASSUME TypeInv, ServeInv, NEW d \in Deployments, alloc[d] # {}, ~Busy(d)
               PROVE  runtimes[d].status \in Active
    BY DEF LedgerFollowsRecords
  <2>1. CASE d = Dep /\ At(ResumeHolds)
    <3>1. Pass \in Actors /\ pc[Pass] \in Labels
      BY DEF TypeInv, AgentTypeOK, Actors
    <3> QED
      BY <2>1, <3>1 DEF Busy, InHands, Dep
  <2> QED
    BY <2>1 DEF ServeInv, OnlyLiveRecordsHold
<1> QED
  BY <1>1, <1>2, PTL

-----------------------------------------------------------------------------
(* The refinement: what a step is for somebody who sees only who holds      *)
(* which cards, who serves on them, and how often the agent was restarted.  *)

Servers == {d \in Deployments : runtimes[d].status = "ready" /\ ~DownHere(d)}
Crashes == budget["crash"]

Unseen == alloc' = alloc /\ Servers' = Servers /\ Crashes' = Crashes
GivesBack(d) ==
  alloc' = [alloc EXCEPT ![d] = {}] /\ Servers' = Servers \ {d} /\ Crashes' = Crashes
Serves(d) ==
  /\ d \notin Servers /\ Servers' = Servers \cup {d}
  /\ \A e \in Servers : alloc[d] \cap alloc[e] = {}
  /\ alloc' = alloc /\ Crashes' = Crashes
Takes(d, cards) ==
  /\ d \notin Servers /\ Servers' = Servers
  /\ cards \subseteq Devices /\ \A e \in Deployments \ {d} : cards \cap alloc[e] = {}
  /\ alloc' = [alloc EXCEPT ![d] = cards] /\ Crashes' = Crashes

Seen ==
  \/ Unseen
  \/ \E d \in Deployments : GivesBack(d) \/ Serves(d) \/ \E cards : Takes(d, cards)

(* Only a restart counts as one.                                            *)
LEMMA OthersSpend ==
  ASSUME TypeInv, NEW k \in Faults \ {"crash"}
  PROVE  (Spend(k) \/ UNCHANGED budget) => Crashes' = Crashes
BY DEF TypeInv, AgentTypeOK, Spend, Crashes, Faults

(* Cards the allocator chooses belong to nobody else.                       *)
LEMMA ChosenIsOthersFree ==
  ASSUME NEW d \in Deployments, alloc[d] = {}, NEW n, NEW avoid
  PROVE  /\ Chosen(n, avoid) \subseteq Devices
         /\ \A e \in Deployments \ {d} : Chosen(n, avoid) \cap alloc[e] = {}
BY DEF Chosen, Lowest, FreeDevices, AllocatedDevices


(* Saving a record of somebody who does not serve changes nothing for the   *)
(* others; saving it as ready adds a server.                                *)
LEMMA SavedSeen ==
  ASSUME Core, Dep \in Deployments, NEW r, Upsert(Dep, r), ~At(Down)', Dep \notin Servers
  PROVE  Servers' = IF r.status = "ready" THEN Servers \cup {Dep} ELSE Servers
<1>1. runtimes'[Dep] = r /\ \A e \in Deployments \ {Dep} : runtimes'[e] = runtimes[e]
  BY DEF Core, Upsert
<1>2. \A e : ~DownHere(e)'
  BY DEF DownHere
<1>3. \A e \in Deployments : e \in Servers' <=> runtimes'[e].status = "ready"
  BY <1>2 DEF Servers
<1>4. CASE \A e \in Deployments \ {Dep} : ~DownHere(e)
  BY <1>1, <1>3, <1>4 DEF Servers
<1> QED
  BY <1>4 DEF DownHere

(* A teardown gives the cards back with its first step.                     *)
LEMMA TeardownSeen ==
  ASSUME TypeInv, Stages, Teardown(Pass)
  PROVE  Seen
<1> USE DEF Unseen, GivesBack, Serves, Takes, Servers, DownHere, At, Down
<1>0. Core /\ Pass \in Actors /\ (InHandler(Pass) => Dep \in Deployments /\ Rt \in Record)
  BY CoreTypes
<1>c. \A k \in Faults \ {"crash"} : Spend(k) \/ UNCHANGED budget => Crashes' = Crashes
  BY OthersSpend
<1>d. Dep = call[Pass].dep /\ Rt = call[Pass].rt
  BY DEF Dep, Rt
<1>1. CASE TerminateRelease(Pass)
  <2>1. GivesBack(Dep) /\ Dep \in Deployments
    BY <1>0, <1>c, <1>d, <1>1, PassMoves DEF TerminateRelease, InHandler, Release, Faults
  <2> QED
    BY <2>1 DEF Seen
<1>2. CASE TerminateStop(Pass)
  <2>1. Unseen
    BY <1>0, <1>c, <1>d, <1>2, PassMoves DEF TerminateStop, InHandler, Faults, RemoveContainer
  <2> QED
    BY <2>1 DEF Seen
<1>3. CASE TerminateVolume(Pass)
  <2>1. Unseen
    BY <1>0, <1>c, <1>d, <1>3, PassMoves DEF TerminateVolume, InHandler, Faults
  <2> QED
    BY <2>1 DEF Seen
<1>4. CASE TerminateMark(Pass)
  <2>1. Dep \in Deployments /\ Upsert(Dep, With(Rt, "terminated")) /\ ~At(Down)' /\ alloc' = alloc
    BY <1>0, <1>d, <1>4, PassMoves DEF TerminateMark, InHandler, AfterTeardown
  <2>2. Dep \notin Servers
    BY <1>4 DEF TerminateMark, InHandler
  <2>3. Crashes' = Crashes
    BY <1>c, <1>4 DEF TerminateMark, Faults
  <2>4. With(Rt, "terminated").status = "terminated"
    BY <1>0, <1>4, WithFields DEF TerminateMark, InHandler
  <2>5. Unseen
    BY <1>0, <2>1, <2>2, <2>3, <2>4, SavedSeen
  <2> QED
    BY <2>5 DEF Seen
<1>5. CASE TellTerminated(Pass)
  <2>1. Unseen
    BY <1>0, <1>c, <1>d, <1>5, PassMoves DEF TellTerminated, InHandler, Faults, AfterTeardown
  <2> QED
    BY <2>1 DEF Seen
<1>6. CASE RemoveRuntime(Pass)
  <2>1. Dep \in Deployments /\ Upsert(Dep, NoRecord) /\ ~At(Down)' /\ alloc' = alloc
    BY <1>0, <1>d, <1>6, PassMoves DEF RemoveRuntime, InHandler
  <2>2. Crashes' = Crashes
    BY <1>c, <1>6 DEF RemoveRuntime, Faults
  <2>3. alloc[Dep] = {}
    BY <1>6 DEF RemoveRuntime, Stages, FreeStage, FreeLabels
  <2>4. alloc' = [alloc EXCEPT ![Dep] = {}]
    BY <1>0, <2>1, <2>3 DEF Core
  <2>5. Servers' = Servers \ {Dep}
    <3>1. runtimes'[Dep].status = "none" /\ \A e \in Deployments \ {Dep} : runtimes'[e] = runtimes[e]
      BY <1>0, <2>1 DEF Core, Upsert, NoRecord
    <3>2. \A e : ~DownHere(e) /\ ~DownHere(e)'
      BY <1>6, <2>1 DEF RemoveRuntime
    <3> QED
      BY <3>1, <3>2
  <2>6. GivesBack(Dep)
    BY <2>2, <2>4, <2>5
  <2> QED
    BY <2>1, <2>6 DEF Seen
<1> QED
  BY <1>1, <1>2, <1>3, <1>4, <1>5, <1>6 DEF Teardown

(* A start takes free cards, and serves once its record is saved as ready.  *)
LEMMA StartSeen ==
  ASSUME TypeInv, Stages, StartStep
  PROVE  Seen
<1> USE DEF Unseen, GivesBack, Serves, Takes, Servers, DownHere, At, Down
<1>0. Core /\ Pass \in Actors /\ (InHandler(Pass) => Dep \in Deployments /\ Rt \in Record)
  BY CoreTypes
<1>c. \A k \in Faults \ {"crash"} : Spend(k) \/ UNCHANGED budget => Crashes' = Crashes
  BY OthersSpend
<1>d. Dep = call[Pass].dep /\ Rt = call[Pass].rt
  BY DEF Dep, Rt
<1>1. CASE DispatchFails
  <2>1. Unseen
    BY <1>0, <1>c, <1>d, <1>1, PassMoves DEF DispatchFails, InHandler, Faults
  <2> QED
    BY <2>1 DEF Seen
<1>2. CASE DispatchAccepts
  <2>1. Unseen
    BY <1>0, <1>c, <1>d, <1>2, PassMoves, RecordTypes, WithFields DEF DispatchAccepts, InHandler, Faults, Upsert, Stages, NotReadyStage, NotReadyLabels
  <2> QED
    BY <2>1 DEF Seen
<1>3. CASE AllocateGpus
  <2>1. /\ Dep \in Deployments /\ Rt \in Record /\ Need[Dep] \in Nat
        /\ pc[Pass] = "allocate" /\ alloc[Dep] = {} /\ runtimes[Dep].status # "ready"
        /\ Crashes' = Crashes /\ runtimes' = runtimes
    BY <1>0, <1>c, <1>3, NodeAssumption
    DEF AllocateGpus, InHandler, Faults, Stages, FreeStage, FreeLabels, NotReadyStage, NotReadyLabels
  <2>2. CASE Goto(Pass, "failRelease") /\ alloc' = alloc
    <3>1. Unseen
      BY <1>0, <2>1, <2>2, PassMoves
    <3> QED
      BY <3>1 DEF Seen
  <2>3. ASSUME NEW avoid, NEW l \in {"markStarting", "prepare"}, NEW r,
               Allocate(Dep, Need[Dep], avoid), GotoRt(Pass, l, r)
        PROVE  Seen
    <3>1. Servers' = Servers /\ Dep \notin Servers
      BY <1>0, <2>1, <2>3, PassMoves
    <3>2. CASE Need[Dep] = 0
      <4>1. Unseen
        BY <2>1, <2>3, <3>1, <3>2 DEF Allocate
      <4> QED
        BY <4>1 DEF Seen
    <3>3. CASE Need[Dep] # 0
      <4>1. Takes(Dep, Chosen(Need[Dep], avoid))
        BY <2>1, <2>3, <3>1, <3>3, ChosenIsOthersFree DEF Allocate
      <4> QED
        BY <2>1, <4>1 DEF Seen
    <3> QED
      BY <3>2, <3>3
  <2> QED
    BY <1>3, <2>2, <2>3 DEF AllocateGpus
<1>4. CASE CreateVolume
  <2>1. Unseen
    BY <1>0, <1>c, <1>d, <1>4, PassMoves DEF CreateVolume, InHandler, Faults
  <2> QED
    BY <2>1 DEF Seen
<1>5. CASE StageArtifact
  <2>1. Unseen
    BY <1>0, <1>c, <1>d, <1>5, PassMoves DEF StageArtifact, InHandler, Faults
  <2> QED
    BY <2>1 DEF Seen
<1>6. CASE MarkStarting
  <2>1. Unseen
    BY <1>0, <1>c, <1>d, <1>6, PassMoves, WithFields DEF MarkStarting, InHandler, Faults, Upsert, Stages, NotReadyStage, NotReadyLabels
  <2> QED
    BY <2>1 DEF Seen
<1>7. CASE RunOk
  <2>1. Unseen
    BY <1>0, <1>c, <1>d, <1>7, PassMoves DEF RunOk, InHandler, Faults
  <2> QED
    BY <2>1 DEF Seen
<1>8. CASE RunFails
  <2>1. Unseen
    BY <1>0, <1>c, <1>d, <1>8, PassMoves DEF RunFails, InHandler, Faults
  <2> QED
    BY <2>1 DEF Seen
<1>9. CASE MarkReady
  <2>1. Dep \in Deployments /\ Rt \in Record /\ Upsert(Dep, With(Rt, "ready")) /\ ~At(Down)' /\ alloc' = alloc
    BY <1>0, <1>d, <1>9, PassMoves DEF MarkReady, InHandler
  <2>2. Dep \notin Servers
    BY <1>9 DEF MarkReady, Stages, NotReadyStage, NotReadyLabels
  <2>3. Crashes' = Crashes
    BY <1>c, <1>9 DEF MarkReady, Faults
  <2>4. With(Rt, "ready").status = "ready"
    BY <2>1, WithFields
  <2>5. \A e \in Servers : alloc[Dep] \cap alloc[e] = {}
    BY <1>9, <2>2 DEF MarkReady, Stages, OwnStage, HeldStage, HeldLabels
  <2>6. Servers' = Servers \cup {Dep}
    BY <1>0, <2>1, <2>2, <2>4, SavedSeen
  <2>7. Serves(Dep)
    BY <2>1, <2>2, <2>3, <2>5, <2>6
  <2> QED
    BY <2>1, <2>7 DEF Seen
<1>10. CASE TellReady
  <2>1. Unseen
    BY <1>0, <1>c, <1>d, <1>10, PassMoves DEF TellReady, InHandler, Faults
  <2> QED
    BY <2>1 DEF Seen
<1>11. CASE FailRelease
  <2>1. GivesBack(Dep) /\ Dep \in Deployments
    BY <1>0, <1>c, <1>d, <1>11, PassMoves DEF FailRelease, InHandler, Release, Faults, Stages, NotReadyStage, NotReadyLabels
  <2> QED
    BY <2>1 DEF Seen
<1>12. CASE FailMark
  <2>1. Unseen
    BY <1>0, <1>c, <1>d, <1>12, PassMoves, WithFields DEF FailMark, InHandler, Faults, Upsert, Stages, NotReadyStage, NotReadyLabels
  <2> QED
    BY <2>1 DEF Seen
<1>13. CASE TellFailed
  <2>1. Unseen
    BY <1>0, <1>c, <1>d, <1>13, PassMoves DEF TellFailed, InHandler, Faults
  <2> QED
    BY <2>1 DEF Seen
<1> QED
  BY <1>1, <1>2, <1>3, <1>4, <1>5, <1>6, <1>7, <1>8, <1>9, <1>10, <1>11, <1>12, <1>13 DEF StartStep

(* A suspension gives the cards back with its first step.                   *)
LEMMA SuspendSeen ==
  ASSUME TypeInv, Stages, SuspendStep
  PROVE  Seen
<1> USE DEF Unseen, GivesBack, Serves, Takes, Servers, DownHere, At, Down
<1>0. Core /\ Pass \in Actors /\ (InHandler(Pass) => Dep \in Deployments /\ Rt \in Record)
  BY CoreTypes
<1>c. \A k \in Faults \ {"crash"} : Spend(k) \/ UNCHANGED budget => Crashes' = Crashes
  BY OthersSpend
<1>d. Dep = call[Pass].dep /\ Rt = call[Pass].rt
  BY DEF Dep, Rt
<1>1. CASE SuspendRelease
  <2>1. GivesBack(Dep) /\ Dep \in Deployments
    BY <1>0, <1>c, <1>d, <1>1, PassMoves DEF SuspendRelease, InHandler, Release, Faults
  <2> QED
    BY <2>1 DEF Seen
<1>2. CASE SuspendStop
  <2>1. pc[Pass] = "susStop" /\ GotoRt(Pass, "susMark", SuspendedRecord(Rt)) /\ alloc' = alloc /\ runtimes' = runtimes
    BY <1>2 DEF SuspendStop
  <2>2. Crashes' = Crashes
    <3>1. Spend("rm") \/ UNCHANGED budget
      <4>1. Kind[Dep] \in {"pod", "inference", "vm"}
        BY <1>0, <1>2, NodeAssumption DEF SuspendStop, InHandler
      <4> QED
        BY <1>2, <4>1 DEF SuspendStop, PauseContainer, RemoveContainer
    <3> QED
      BY <1>c, <3>1 DEF Faults
  <2>3. Unseen
    BY <1>0, <2>1, <2>2, PassMoves
  <2> QED
    BY <2>3 DEF Seen
<1>3. CASE SuspendMark
  <2>1. Dep \in Deployments /\ Upsert(Dep, Rt) /\ At(Down) /\ Dep' = Dep /\ ~At(Down)' /\ alloc' = alloc
    BY <1>0, <1>3, PassMoves DEF SuspendMark, InHandler
  <2>2. Rt.status = "suspended"
    BY <1>3 DEF SuspendMark, Stages, CopyStage
  <2>3. Crashes' = Crashes
    BY <1>c, <1>3 DEF SuspendMark, Faults
  <2>4. Servers' = Servers
    BY <1>0, <2>1, <2>2, SavedSeen
  <2>5. Unseen
    BY <2>1, <2>3, <2>4
  <2> QED
    BY <2>5 DEF Seen
<1>4. CASE TellSuspended
  <2>1. Unseen
    BY <1>0, <1>c, <1>d, <1>4, PassMoves DEF TellSuspended, InHandler, Faults
  <2> QED
    BY <2>1 DEF Seen
<1> QED
  BY <1>1, <1>2, <1>3, <1>4 DEF SuspendStep

(* A resumption takes free cards, its own ones or others, serves once its   *)
(* record is saved, or gives them back.                                     *)
LEMMA ResumeSeen ==
  ASSUME TypeInv, Stages, ResumeStep
  PROVE  Seen
<1> USE DEF Unseen, GivesBack, Serves, Takes, Servers, DownHere, At, Down
<1>0. Core /\ Pass \in Actors /\ (InHandler(Pass) => Dep \in Deployments /\ Rt \in Record)
  BY CoreTypes
<1>c. \A k \in Faults \ {"crash"} : Spend(k) \/ UNCHANGED budget => Crashes' = Crashes
  BY OthersSpend
<1>d. Dep = call[Pass].dep /\ Rt = call[Pass].rt
  BY DEF Dep, Rt
<1>1. CASE ResumeAllocate
  <2>1. /\ Dep \in Deployments /\ Rt \in Record
        /\ pc[Pass] = "resAlloc" /\ alloc[Dep] = {} /\ runtimes[Dep].status # "ready"
        /\ Crashes' = Crashes /\ runtimes' = runtimes
    BY <1>0, <1>c, <1>1
    DEF ResumeAllocate, InHandler, Faults, Stages, FreeStage, FreeLabels, NotReadyStage, NotReadyLabels
  <2>2. CASE Return(Pass) /\ alloc' = alloc
    <3>1. Unseen
      BY <1>0, <2>1, <2>2, PassMoves
    <3> QED
      BY <3>1 DEF Seen
  <2>3. Dep \notin Servers
    BY <2>1
  <2>4. CASE AllocateSpecific(Dep, Rt.devs) /\ Goto(Pass, IF Kind[Dep] = "pod" THEN "resStart" ELSE "resGiveBack")
    <3>1. Servers' = Servers
      BY <1>0, <2>1, <2>4, PassMoves
    <3>2. CASE Rt.devs = {}
      <4>1. Unseen
        BY <2>1, <2>4, <3>1, <3>2 DEF AllocateSpecific
      <4> QED
        BY <4>1 DEF Seen
    <3>3. CASE Rt.devs # {}
      <4>1. Takes(Dep, Rt.devs)
        BY <2>1, <2>3, <2>4, <3>1, <3>3 DEF AllocateSpecific, CanReserve, FreeDevices, AllocatedDevices, Record
      <4> QED
        BY <2>1, <4>1 DEF Seen
    <3> QED
      BY <3>2, <3>3
  <2>5. ASSUME NEW avoid, NEW r, Allocate(Dep, ResumeCount, avoid),
               GotoRt(Pass, IF Kind[Dep] = "pod" THEN "resStart" ELSE "resGiveBack", r)
        PROVE  Seen
    <3>1. Servers' = Servers
      BY <1>0, <2>1, <2>5, PassMoves
    <3>2. CASE ResumeCount = 0
      <4>1. Unseen
        BY <2>1, <2>5, <3>1, <3>2 DEF Allocate
      <4> QED
        BY <4>1 DEF Seen
    <3>3. CASE ResumeCount # 0
      <4>1. Takes(Dep, Chosen(ResumeCount, avoid))
        BY <2>1, <2>3, <2>5, <3>1, <3>3, ChosenIsOthersFree DEF Allocate
      <4> QED
        BY <2>1, <4>1 DEF Seen
    <3> QED
      BY <3>2, <3>3
  <2> QED
    BY <1>1, <2>2, <2>4, <2>5 DEF ResumeAllocate
<1>2. CASE ResumeStart
  <2>1. Unseen
    BY <1>0, <1>c, <1>d, <1>2, PassMoves DEF ResumeStart, InHandler, Faults
  <2> QED
    BY <2>1 DEF Seen
<1>3. CASE ResumeMark
  <2>1. Dep \in Deployments /\ Rt \in Record /\ Upsert(Dep, Rt) /\ ~At(Down)' /\ alloc' = alloc
    BY <1>0, <1>d, <1>3, PassMoves DEF ResumeMark, InHandler
  <2>2. Dep \notin Servers
    BY <1>3 DEF ResumeMark, Stages, NotReadyStage, NotReadyLabels
  <2>3. Crashes' = Crashes
    BY <1>c, <1>3 DEF ResumeMark, Faults
  <2>4. Rt.status = "ready"
    BY <1>3 DEF ResumeMark, Stages, CopyStage
  <2>5. \A e \in Servers : alloc[Dep] \cap alloc[e] = {}
    BY <1>3, <2>2 DEF ResumeMark, Stages, OwnStage, HeldStage, HeldLabels
  <2>6. Servers' = Servers \cup {Dep}
    BY <1>0, <2>1, <2>2, <2>4, SavedSeen
  <2>7. Serves(Dep)
    BY <2>1, <2>2, <2>3, <2>5, <2>6
  <2> QED
    BY <2>1, <2>7 DEF Seen
<1>4. CASE ResumeUndo
  <2>1. GivesBack(Dep) /\ Dep \in Deployments
    BY <1>0, <1>c, <1>d, <1>4, PassMoves DEF ResumeUndo, InHandler, Release, Faults, Stages, NotReadyStage, NotReadyLabels
  <2> QED
    BY <2>1 DEF Seen
<1>5. CASE ResumeKeep
  <2>1. Unseen
    BY <1>0, <1>c, <1>d, <1>5, PassMoves, WithFields DEF ResumeKeep, InHandler, Faults, Upsert, Stages, NotReadyStage, NotReadyLabels
  <2> QED
    BY <2>1 DEF Seen
<1>6. CASE ResumeGiveBack
  <2>1. GivesBack(Dep) /\ Dep \in Deployments
    BY <1>0, <1>c, <1>d, <1>6, PassMoves DEF ResumeGiveBack, InHandler, Release, Faults, Stages, NotReadyStage, NotReadyLabels
  <2> QED
    BY <2>1 DEF Seen
<1>7. CASE ResumeFetch
  <2>1. Dep \in Deployments /\ Rt \in Record /\ ~At(Down)' /\ alloc' = alloc /\ Dep \notin Servers
    BY <1>0, <1>7, PassMoves DEF ResumeFetch, InHandler, Stages, NotReadyStage, NotReadyLabels
  <2>2. Crashes' = Crashes
    BY <1>c, <1>7 DEF ResumeFetch, Faults
  <2>3. CASE Upsert(Dep, With(Rt, "accepted"))
    <3>1. Servers' = Servers
      BY <1>0, <2>1, <2>3, SavedSeen, WithFields
    <3> QED
      BY <2>1, <2>2, <3>1 DEF Seen
  <2>4. CASE UNCHANGED runtimes
    <3>1. Servers' = Servers
      BY <1>7, <2>1, <2>4 DEF ResumeFetch
    <3> QED
      BY <2>1, <2>2, <3>1 DEF Seen
  <2> QED
    BY <1>7, <2>3, <2>4 DEF ResumeFetch
<1> QED
  BY <1>1, <1>2, <1>3, <1>4, <1>5, <1>6, <1>7 DEF ResumeStep

(* The loops of the pass move between handlers and touch nothing visible.   *)
LEMMA PassSeen ==
  ASSUME TypeInv, PassStep
  PROVE  Seen
<1> USE DEF Unseen, Servers, DownHere, At, Down
<1>0. Core /\ Pass \in Actors /\ (InHandler(Pass) => Dep \in Deployments /\ Rt \in Record)
  BY CoreTypes
<1>1. alloc' = alloc /\ runtimes' = runtimes
  BY DEF PassStep, BeginReconcile, BeginRecovery, BeginOrphans, EndPass, VisitLease, VisitOrphan, RecoverRuntime
<1>2. Crashes' = Crashes
  <2>1. Spend("recovery") \/ UNCHANGED budget
    BY DEF PassStep, BeginReconcile, BeginRecovery, BeginOrphans, EndPass, VisitLease, VisitOrphan, RecoverRuntime
  <2> QED
    BY <2>1, OthersSpend DEF Faults
<1>3. pc[Pass] \in {"idle", "next"}
  BY DEF PassStep, BeginReconcile, BeginRecovery, BeginOrphans, EndPass, VisitLease, VisitOrphan, RecoverRuntime
<1>4. pc'[Pass] \in {"idle", "next", "susRelease", "resAlloc", "release", "dispatch"}
  <2>1. CASE UNCHANGED pc
    BY <1>3, <2>1
  <2>2. CASE \E l \in {"idle", "next", "susRelease", "resAlloc", "release", "dispatch"} : \E f : Enter(Pass, l, f)
    BY <1>0, <2>2, PassMoves
  <2> QED
    BY <2>1, <2>2
    DEF PassStep, BeginReconcile, BeginRecovery, BeginOrphans, EndPass, VisitLease, VisitOrphan,
        RecoverRuntime, Return, threads
<1>5. Unseen
  BY <1>1, <1>2, <1>3, <1>4
<1> QED
  BY <1>5 DEF Seen

(* So do the probe, the control plane and the other tenants.                *)
LEMMA EnvironmentSeen ==
  ASSUME TypeInv, Probing \/ ControlPlane \/ \E g \in Devices : Squat(g)
  PROVE  Seen
<1>1. UNCHANGED <<alloc, runtimes, pc, call>>
  BY ProbingReads
  DEF ControlPlane, Outage, Reconnect, CreateLease, SuspendLease, ResumeLease, MoveLease, EndLease,
         Squat, agent, threads
<1>2. Crashes' = Crashes
  <2>1. \/ Spend("outage") \/ Spend("suspend") \/ Spend("squat") \/ UNCHANGED budget
    BY ProbingReads
    DEF ControlPlane, Outage, Reconnect, CreateLease, SuspendLease, ResumeLease, MoveLease, EndLease, Squat
  <2> QED
    BY <2>1, OthersSpend DEF Faults
<1>3. Unseen
  BY <1>1, <1>2 DEF Unseen, Servers, DownHere, At, Dep
<1> QED
  BY <1>3 DEF Seen

(* What is seen is a step of Serving, or nothing.                           *)
LEMMA SeenIsPromised ==
  ASSUME Routes = {}, Seen
  PROVE  [Promise!Next]_(Promise!vars)
<1>1. Served = Servers /\ Served' = Servers'
  BY OnlyThePass DEF Served, Servers
<1>2. ASSUME NEW d \in Deployments, GivesBack(d) PROVE Promise!GiveBack(d)
  BY <1>1, <1>2 DEF GivesBack, Promise!GiveBack, Crashes
<1>3. ASSUME NEW d \in Deployments, Serves(d) PROVE Promise!Serve(d)
  BY <1>1, <1>3 DEF Serves, Promise!Serve, Crashes
<1>4. ASSUME NEW d \in Deployments, NEW cards, Takes(d, cards)
      PROVE  cards \in SUBSET Devices /\ Promise!Take(d, cards)
  BY <1>1, <1>4 DEF Takes, Promise!Take, Crashes
<1>5. CASE Unseen
  BY <1>1, <1>5 DEF Unseen, Promise!vars, Crashes
<1> QED
  BY <1>2, <1>3, <1>4, <1>5 DEF Seen, Promise!Next

(* A restart leaves every server its cards: the claims that overlap belong  *)
(* to records that are not ready.                                           *)
LEMMA RestartIsPromised ==
  ASSUME Routes = {}, TypeInv, TypeInv', Stages, Stages', Restart
  PROVE  Promise!Restart
<1>1. Served = Servers /\ Served' = Servers'
  BY OnlyThePass DEF Served, Servers
<1>2. Budget["crash"] - budget'["crash"] = Budget["crash"] - budget["crash"] + 1
  <2>1. Budget["crash"] \in Nat /\ budget["crash"] \in Nat /\ budget'["crash"] = budget["crash"] - 1
    BY NodeAssumption DEF TypeInv, AgentTypeOK, Restart, Spend, Faults
  <2> QED
    BY <2>1
<1>3. alloc' \in [Deployments -> SUBSET Devices]
  BY DEF TypeInv, AgentTypeOK, AllocatorTypeOK
<1>4. ~At(Down)' /\ runtimes' = runtimes
  BY DEF Restart, At, Down, Actors
<1>5. Servers \subseteq Servers' /\ Servers' \subseteq Deployments
  BY <1>4 DEF Servers, DownHere
<1>6. \A d \in Servers' : alloc'[d] = runtimes[d].devs
  BY <1>4 DEF Servers, Stages, OwnStage
<1>7. \A d \in Servers : alloc'[d] = alloc[d]
  BY <1>5, <1>6 DEF Servers, Stages, OwnStage
<1>8. \A d, e \in Servers' : d # e => alloc'[d] \cap alloc'[e] = {}
  BY <1>4, <1>6 DEF Servers, Stages, ReadyExclusive
<1> QED
  BY <1>1, <1>2, <1>3, <1>5, <1>7, <1>8 DEF Promise!Restart, Promise!Exclusive

(* gpu_allocator.py and the handlers of services.py implement Serving, for  *)
(* every set of deployments and cards and every bound on the faults.        *)
THEOREM ImplementsServing ==
  ASSUME Routes = {}
  PROVE  Spec => KeepsItsPromise
<1>1. Init => Promise!Init
  <2> SUFFICES ASSUME Init PROVE Promise!Init
    OBVIOUS
  <2>1. Served = {}
    BY DEF Init, Served, NoRecord
  <2>2. Budget["crash"] - budget["crash"] = 0
    BY NodeAssumption DEF Init, Faults
  <2> QED
    BY <2>1, <2>2 DEF Init, AllocatorInit, Promise!Init
<1>2. TypeInv /\ ServeInv /\ [Next]_vars => [Promise!Next]_(Promise!vars)
  <2> SUFFICES ASSUME TypeInv, ServeInv, [Next]_vars PROVE [Promise!Next]_(Promise!vars)
    OBVIOUS
  <2>1. TypeInv' /\ ServeInv' /\ Stages /\ Stages'
    BY TypeInvInductive, ServeInductive, OwnStageIsOwnership DEF ServeInv, Stages
  <2>2. CASE UNCHANGED vars
    <3>1. Unseen
      BY <2>2 DEF vars, threads, Unseen, Servers, DownHere, At, Dep, Crashes
    <3> QED
      BY <3>1, SeenIsPromised DEF Seen
  <2>3. CASE Restart
    BY <2>1, <2>3, RestartIsPromised DEF Promise!Next
  <2>4. CASE Next /\ ~Restart
    <3>1. Seen
      BY <2>1, <2>4, OnlyThePass, TeardownSeen, StartSeen, SuspendSeen, ResumeSeen, PassSeen, EnvironmentSeen
      DEF Next
    <3> QED
      BY <3>1, SeenIsPromised
  <2> QED
    BY <2>2, <2>3, <2>4
<1>3. Spec => [](TypeInv /\ ServeInv)
  BY InitTypeInv, InitServe, TypeInvInductive, ServeInductive, PTL DEF Spec
<1> QED
  BY <1>1, <1>2, <1>3, PTL DEF Spec, KeepsItsPromise, Promise!Spec

=============================================================================
