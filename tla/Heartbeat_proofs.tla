---------------------------- MODULE Heartbeat_proofs ----------------------------
(***************************************************************************)
(* The capacity tick beside the node agent: proofs for any finite set of    *)
(* deployments, any cards and any number of squatters. At rest the two      *)
(* books of the node, the records and the ledger, count the same cards.     *)
(***************************************************************************)
EXTENDS Heartbeat, Restarts_proofs, FiniteSetTheorems, WellFoundedInduction

-----------------------------------------------------------------------------
(* Types *)

(* Sets of cards are finite, and the slots the tick counts are as many as   *)
(* the records and their cards allow.                                       *)
LEMMA FiniteCards ==
  /\ TotalGpus \in Nat
  /\ \A S \in SUBSET Devices : IsFiniteSet(S) /\ Cardinality(S) \in Nat /\ Cardinality(S) <= TotalGpus
<1>1. IsFiniteSet(Devices) /\ TotalGpus \in Nat
  BY DevicesAssumption, FS_CardinalityType DEF TotalGpus
<1>2. ASSUME NEW S \in SUBSET Devices
      PROVE  IsFiniteSet(S) /\ Cardinality(S) \in Nat /\ Cardinality(S) <= TotalGpus
  BY <1>1, FS_Subset, FS_CardinalityType DEF TotalGpus
<1> QED
  BY <1>1, <1>2

LEMMA FiniteReserved ==
  ASSUME runtimes \in [Deployments -> Record]
  PROVE  IsFiniteSet(Reserved) /\ ReservedGpus \in Nat
<1>1. IsFiniteSet(Devices \cup {"unnamed"})
  BY FiniteCards, DevicesAssumption, FS_AddElement
<1>2. IsFiniteSet(Deployments \X (Devices \cup {"unnamed"}))
  BY <1>1, HeartbeatAssumption, FS_Product
<1>3. Reserved \subseteq Deployments \X (Devices \cup {"unnamed"})
  BY DEF Reserved, Counted, Record
<1> QED
  BY <1>2, <1>3, FS_Subset, FS_CardinalityType DEF ReservedGpus

(* What is advertised: the node's cards less two counts, never below zero.  *)
LEMMA AvailableInRange ==
  ASSUME HbTypeOK
  PROVE  Available \in 0 .. TotalGpus
<1>1. tick.reserved \in Nat /\ Cardinality(tick.busy \ AllocatedDevices) \in Nat /\ TotalGpus \in Nat
  BY FiniteCards DEF HbTypeOK
<1> QED
  BY <1>1 DEF Available

LEMMA InUseIsCards ==
  ASSUME TypeInv, NEW d \in Deployments
  PROVE  InUse(d) \subseteq Devices
BY DEF TypeInv, AgentTypeOK, Container, InUse

(* Every step of the node with its tick is a step of the node, or leaves it *)
(* alone.                                                                   *)
LEMMA HbStepsNode == [HbNext]_<<vars, hbVars>> => [Next]_vars
BY DEF HbNext, ReadRecords, Probe, Publish, Elsewhere

(* HbTypeOK holds in every step: what the tick has read stays in range.     *)
LEMMA HbTypesInductive ==
  ASSUME TypeInv, HbTypeOK, [HbNext]_<<vars, hbVars>>
  PROVE  HbTypeOK'
<1>1. CASE ReadRecords
  <2>1. ReservedGpus \in Nat
    BY FiniteReserved DEF TypeInv, AgentTypeOK
  <2> QED
    BY <1>1, <2>1 DEF ReadRecords, HbTypeOK, TotalGpus
<1>2. CASE Probe
  <2>1. PICK r \in Readings : tick' = [tick EXCEPT !.at = "publish", !.busy = r]
    BY <1>2 DEF Probe
  <2>2. r \subseteq Devices
    BY <2>1, InUseIsCards DEF Readings, TypeInv, AgentTypeOK
  <2> QED
    BY <1>2, <2>1, <2>2 DEF Probe, HbTypeOK, TotalGpus
<1>3. CASE Publish
  BY <1>3, AvailableInRange DEF Publish, HbTypeOK, NoTick, TotalGpus
<1>4. CASE Elsewhere
  BY <1>4 DEF Elsewhere, HbTypeOK, NoTick, TotalGpus
<1>5. CASE UNCHANGED <<vars, hbVars>>
  BY <1>5 DEF hbVars, HbTypeOK, TotalGpus
<1> QED
  BY <1>1, <1>2, <1>3, <1>4, <1>5 DEF HbNext

(* What a tick has read stays in range, and what is advertised is neither   *)
(* negative nor more than the node has.                                     *)
THEOREM HbTypesHold == HbSpec => []HbTypeOK
<1>1. HbInit => TypeInv /\ HbTypeOK
  BY InitTypeInv, FiniteCards DEF HbInit, HbTypeOK, NoTick
<1>2. TypeInv /\ HbTypeOK /\ [HbNext]_<<vars, hbVars>> => TypeInv' /\ HbTypeOK'
  BY HbStepsNode, TypeInvInductive, HbTypesInductive
<1> QED
  BY <1>1, <1>2, PTL DEF HbSpec

-----------------------------------------------------------------------------
(* Every runtime that serves, or can be resumed, names a card, if every     *)
(* deployment asks for one; no fault is excluded.                           *)

NeedsCards == \A d \in Deployments : Need[d] > 0

CardStatuses == {"starting", "ready", "suspended"}
CardLabels ==
  {"prepare", "markStarting", "run", "markReady", "susRelease", "susStop", "susMark", "resAlloc",
   "resStart", "resMark", "resUndo", "resKeep"}

NamesCards ==
  /\ \A d \in Deployments : runtimes[d].status \in CardStatuses => runtimes[d].devs # {}
  /\ At(CardLabels) => Rt.devs # {}

(* A successful allocation of at least one card yields one: the lowest card *)
(* of a set has none below it.                                              *)
LEMMA ChosenIsSome ==
  ASSUME NEW n \in Nat \ {0}, NEW avoid, CanAllocate(n, avoid)
  PROVE  Chosen(n, avoid) # {}
<1> DEFINE S == FreeDevices \ avoid
<1>1. S \subseteq Nat /\ S # {}
  <2>1. S \subseteq Nat
    BY DevicesAssumption DEF FreeDevices
  <2>2. ASSUME S = {} PROVE FALSE
    <3>1. n <= Cardinality(S) /\ Cardinality({}) = 0
      BY FS_EmptySet DEF CanAllocate
    <3>2. n <= 0
      BY <2>2, <3>1
    <3> QED
      BY <3>2
  <2> QED
    BY <2>1, <2>2
<1>2. PICK g \in S : \A h \in S : ~(h < g)
  <2>1. PICK g \in S : \A h \in S : <<h, g>> \notin OpToRel(<, Nat)
    BY <1>1, NatLessThanWellFounded, WFMin
  <2> QED
    BY <1>1, <2>1 DEF OpToRel
<1>3. {h \in S : h < g} = {}
  BY <1>2
<1>4. Cardinality({h \in S : h < g}) < n
  BY <1>3, FS_EmptySet
<1>5. g \in Chosen(n, avoid)
  BY <1>2, <1>4 DEF Chosen, Lowest
<1> QED
  BY <1>5

LEMMA NamesInductive ==
  ASSUME NeedsCards, Routes = {}, TypeInv, NamesCards, [Next]_vars
  PROVE  NamesCards'
<1> USE DEF NamesCards, CardStatuses, CardLabels, At, Core, InHandler
<1>0. Core /\ Pass \in Actors /\ (InHandler(Pass) => Dep \in Deployments /\ Rt \in Record)
  BY CoreTypes
<1>d. Dep = call[Pass].dep /\ Rt = call[Pass].rt
  BY DEF Dep, Rt
<1>1. CASE Teardown(Pass)
  <2>1. CASE TerminateRelease(Pass) \/ TerminateStop(Pass) \/ TerminateVolume(Pass)
    BY <1>0, <2>1, PassMoves DEF TerminateRelease, TerminateStop, TerminateVolume
  <2>2. CASE TerminateMark(Pass)
    BY <1>0, <1>d, <2>2, PassMoves, WithFields DEF TerminateMark, AfterTeardown, Upsert
  <2>3. CASE TellTerminated(Pass)
    BY <1>0, <2>3, PassMoves DEF TellTerminated, AfterTeardown
  <2>4. CASE RemoveRuntime(Pass)
    <3>1. runtimes' = [runtimes EXCEPT ![Dep] = NoRecord] /\ pc'[Pass] \in {"dispatch", "next"}
      BY <1>0, <1>d, <2>4, PassMoves DEF RemoveRuntime, Upsert
    <3> QED
      BY <1>0, <3>1 DEF NoRecord
  <2> QED
    BY <1>1, <2>1, <2>2, <2>3, <2>4 DEF Teardown
<1>2. CASE StartStep
  <2>1. CASE AllocateGpus
    <3> DEFINE avoid == seen.cards
    <3>1. \/ /\ Allocate(Dep, Need[Dep], avoid)
             /\ GotoRt(Pass, IF Kind[Dep] = "vm" THEN "markStarting" ELSE "prepare",
                       [Rt EXCEPT !.devs = IF Need[Dep] = 0 THEN {} ELSE Chosen(Need[Dep], avoid)])
          \/ Goto(Pass, "failRelease")
      BY <2>1 DEF AllocateGpus
    <3>2. Dep \in Deployments /\ Rt \in Record /\ Need[Dep] \in Nat \ {0}
      BY <1>0, <2>1, NodeAssumption DEF AllocateGpus, NeedsCards
    <3>3. CASE Goto(Pass, "failRelease")
      BY <1>0, <2>1, <3>3, PassMoves DEF AllocateGpus
    <3>4. CASE Allocate(Dep, Need[Dep], avoid)
               /\ GotoRt(Pass, IF Kind[Dep] = "vm" THEN "markStarting" ELSE "prepare",
                         [Rt EXCEPT !.devs = IF Need[Dep] = 0 THEN {} ELSE Chosen(Need[Dep], avoid)])
      <4>1. Chosen(Need[Dep], avoid) # {}
        BY <3>2, <3>4, ChosenIsSome DEF Allocate
      <4>2. Rt' = [Rt EXCEPT !.devs = Chosen(Need[Dep], avoid)]
        BY <1>0, <3>2, <3>4, PassMoves
      <4>3. Rt'.devs # {}
        BY <3>2, <4>1, <4>2 DEF Record
      <4> QED
        BY <2>1, <4>3 DEF AllocateGpus
    <3> QED
      BY <3>1, <3>3, <3>4
  <2>2. CASE CreateVolume \/ StageArtifact \/ DispatchFails \/ TellReady \/ FailRelease \/ TellFailed
    BY <1>0, <2>2, PassMoves
    DEF CreateVolume, StageArtifact, DispatchFails, TellReady, FailRelease, TellFailed
  <2>3. CASE DispatchAccepts \/ FailMark
    BY <1>0, <2>3, PassMoves, WithFields, RecordTypes DEF DispatchAccepts, FailMark, Upsert
  <2>4. CASE MarkStarting \/ MarkReady
    BY <1>0, <2>4, PassMoves, WithFields DEF MarkStarting, MarkReady, Upsert
  <2>5. CASE RunOk \/ RunFails
    BY <1>0, <2>5, PassMoves DEF RunOk, RunFails, Record
  <2> QED
    BY <1>2, <2>1, <2>2, <2>3, <2>4, <2>5 DEF StartStep
<1>3. CASE SuspendStep
  <2>1. InHandler(Pass) => SuspendedRecord(Rt).devs = Rt.devs
    BY <1>0 DEF SuspendedRecord, With, Record
  <2> QED
    BY <1>0, <1>3, <2>1, PassMoves
    DEF SuspendStep, SuspendRelease, SuspendStop, SuspendMark, TellSuspended, Upsert
<1>4. CASE ResumeStep
  <2>1. CASE ResumeAllocate
    BY <1>0, <2>1, PassMoves DEF ResumeAllocate, Pinned
  <2>2. CASE ResumeStart
    BY <1>0, <2>2, PassMoves, WithFields DEF ResumeStart
  <2>3. CASE ResumeMark \/ ResumeKeep \/ ResumeFetch
    BY <1>0, <2>3, PassMoves, WithFields DEF ResumeMark, ResumeKeep, ResumeFetch, Upsert
  <2>4. CASE ResumeUndo \/ ResumeGiveBack
    BY <1>0, <2>4, PassMoves DEF ResumeUndo, ResumeGiveBack
  <2> QED
    BY <1>4, <2>1, <2>2, <2>3, <2>4 DEF ResumeStep
<1>5. CASE PassStep
  <2>1. UNCHANGED runtimes
    BY <1>5
    DEF PassStep, BeginReconcile, BeginRecovery, BeginOrphans, EndPass, VisitLease, VisitOrphan, RecoverRuntime
  <2>2. CASE \E d \in Deployments : VisitLease(d)
    <3>1. PICK d \in Deployments : VisitLease(d)
      BY <2>2
    <3>2. \A th : Frame(d, runtimes[d], FALSE, th).rt = runtimes[d]
      BY DEF Frame
    <3>3. \/ UNCHANGED <<pc, call>>
          \/ /\ runtimes[d].status \in CardStatuses
             /\ \E l, th : Enter(Pass, l, Frame(d, runtimes[d], FALSE, th))
          \/ \E l \in {"release", "dispatch"} : \E th : Enter(Pass, l, Frame(d, runtimes[d], FALSE, th))
      BY <3>1 DEF VisitLease, Suspendable, threads
    <3>4. CASE UNCHANGED <<pc, call>>
      BY <2>1, <3>4 DEF Rt
    <3>5. ASSUME NEW l, NEW th, Enter(Pass, l, Frame(d, runtimes[d], FALSE, th))
          PROVE  pc'[Pass] = l /\ Rt' = runtimes[d]
      BY <1>0, <3>2, <3>5, PassMoves
    <3>6. CASE ~UNCHANGED <<pc, call>>
      <4>1. pc'[Pass] \in {"release", "dispatch"} \/ Rt'.devs # {}
        BY <3>3, <3>5, <3>6
      <4> QED
        BY <2>1, <4>1
    <3> QED
      BY <3>4, <3>6
  <2>3. CASE ~\E d \in Deployments : VisitLease(d)
    <3>1. UNCHANGED <<pc, call>> \/ Return(Pass) \/ \E l \in {"idle", "release"} : \E f : Enter(Pass, l, f)
      BY <1>5, <2>3
      DEF PassStep, BeginReconcile, BeginRecovery, BeginOrphans, EndPass, VisitOrphan, RecoverRuntime, threads
    <3>2. UNCHANGED <<pc, call>> \/ pc'[Pass] \in {"next", "idle", "release"}
      BY <1>0, <3>1, PassMoves
    <3> QED
      BY <2>1, <3>2 DEF Rt
  <2> QED
    BY <2>2, <2>3
<1>6. CASE Restart
  BY <1>0, <1>6 DEF Restart
<1>7. CASE Probing \/ ControlPlane \/ (\E g \in Devices : Squat(g)) \/ UNCHANGED vars
  BY <1>7, ProbingReads
  DEF ControlPlane, Outage, Reconnect, CreateLease, SuspendLease, ResumeLease, MoveLease, EndLease, Squat,
      agent, threads, vars, Rt
<1> QED
  BY <1>1, <1>2, <1>3, <1>4, <1>5, <1>6, <1>7, OnlyThePass DEF Next

-----------------------------------------------------------------------------
(* Records and ledger count the same cards at rest *)

(* A card is on one record only, and every card of the ledger is on one:    *)
(* naming a slot's card pairs the slots of the records with the cards of    *)
(* the ledger.                                                              *)
LEMMA BooksAgree ==
  ASSUME NoDeath, AliveInv, NamesCards, AtRest
  PROVE  ReservedGpus = Cardinality(AllocatedDevices)
<1>1. pc[Pass] \in {"idle", "next"} /\ Stages /\ Ground /\ Disjoint
  BY OwnStageIsOwnership, GroundTypes
  DEF AliveInv, ServeInv, Stages, Ground, AtRest, NoOverlapInv, NoDoubleAllocation, NoDeath
<1>2. \A d \in Deployments : runtimes[d].status \notin {"accepted", "starting"}
  BY <1>1 DEF AliveInv, StartsInHand, At, StartingLabels
<1>3. \A d \in Deployments : runtimes[d].status \in Active => Counted(runtimes[d]) = alloc[d]
  <2> SUFFICES ASSUME NEW d \in Deployments, runtimes[d].status \in Active
               PROVE  Counted(runtimes[d]) = alloc[d]
    OBVIOUS
  <2>1. runtimes[d].status = "ready"
    BY <1>2 DEF Active
  <2>2. alloc[d] = runtimes[d].devs
    BY <1>1, <2>1 DEF Stages, OwnStage, DownHere, At, Down
  <2> QED
    BY <2>1, <2>2 DEF NamesCards, CardStatuses, Counted
<1>4. \A d \in Deployments : runtimes[d].status \notin Active => alloc[d] = {}
  BY <1>1 DEF Stages, OnlyLiveRecordsHold, At, ResumeHolds
<1>5. \A d, c : <<d, c>> \in Reserved <=> d \in Deployments /\ c \in alloc[d]
  BY <1>3, <1>4 DEF Reserved
<1>6. \A p \in Reserved : p = <<p[1], p[2]>>
  BY DEF Reserved
<1> DEFINE card == [p \in Reserved |-> p[2]]
<1>7. card \in [Reserved -> AllocatedDevices]
  BY <1>5, <1>6 DEF AllocatedDevices
<1>8. \A p, q \in Reserved : card[p] = card[q] => p = q
  BY <1>1, <1>5, <1>6 DEF Disjoint
<1>9. \A c \in AllocatedDevices : \E p \in Reserved : card[p] = c
  <2> SUFFICES ASSUME NEW c \in AllocatedDevices PROVE \E p \in Reserved : card[p] = c
    OBVIOUS
  <2>1. PICK d \in Deployments : c \in alloc[d]
    BY DEF AllocatedDevices
  <2>2. <<d, c>> \in Reserved
    BY <1>5, <2>1
  <2> QED
    BY <2>2
<1>10. IsFiniteSet(AllocatedDevices)
  BY <1>1, FiniteCards DEF AllocatedDevices, Ground, Core
<1> HIDE DEF card
<1>11. card \in Injection(Reserved, AllocatedDevices) /\ card \in Surjection(Reserved, AllocatedDevices)
  BY <1>7, <1>8, <1>9 DEF Injection, Surjection, IsInjective
<1> QED
  BY <1>10, <1>11, FS_Injection DEF ReservedGpus

(* The cards that are neither in the ledger nor busy, counted as the tick   *)
(* counts them.                                                             *)
LEMMA AvailableIsFree ==
  ASSUME HbTypeOK, AllocatedDevices \subseteq Devices, tick.reserved = Cardinality(AllocatedDevices)
  PROVE  Available = Cardinality(FreeDevices \ tick.busy)
<1> DEFINE strange == tick.busy \ AllocatedDevices
<1>1. strange \subseteq Devices /\ AllocatedDevices \cup strange \subseteq Devices
  BY DEF HbTypeOK
<1>2. Cardinality(AllocatedDevices \cup strange) = Cardinality(AllocatedDevices) + Cardinality(strange)
  <2>1. Cardinality(AllocatedDevices \cap strange) = 0
    <3>1. AllocatedDevices \cap strange = {}
      OBVIOUS
    <3> QED
      BY <3>1, FS_EmptySet
  <2>2. IsFiniteSet(AllocatedDevices) /\ IsFiniteSet(strange)
    BY <1>1, FiniteCards
  <2>3. Cardinality(AllocatedDevices) \in Nat /\ Cardinality(strange) \in Nat
    BY <1>1, FiniteCards
  <2> HIDE DEF strange
  <2>4. Cardinality(AllocatedDevices \cup strange)
          = Cardinality(AllocatedDevices) + Cardinality(strange) - Cardinality(AllocatedDevices \cap strange)
    BY <2>2, FS_Union
  <2> QED
    BY <2>1, <2>3, <2>4
<1>3. Cardinality(FreeDevices \ tick.busy) = TotalGpus - Cardinality(AllocatedDevices \cup strange)
  <2>1. FreeDevices \ tick.busy = Devices \ (AllocatedDevices \cup strange)
    BY DEF FreeDevices
  <2>2. Devices \cap (AllocatedDevices \cup strange) = AllocatedDevices \cup strange
    BY <1>1
  <2> DEFINE taken == AllocatedDevices \cup strange
  <2> HIDE DEF strange, taken
  <2>3. Cardinality(Devices \ taken) = Cardinality(Devices) - Cardinality(Devices \cap taken)
    BY DevicesAssumption, FS_Difference
  <2> USE DEF taken
  <2> QED
    BY <2>1, <2>2, <2>3 DEF TotalGpus
<1>4. /\ Cardinality(AllocatedDevices) \in Nat /\ Cardinality(strange) \in Nat /\ TotalGpus \in Nat
      /\ Cardinality(AllocatedDevices \cup strange) <= TotalGpus
  BY <1>1, FiniteCards
<1> QED
  BY <1>2, <1>3, <1>4 DEF Available

(* A tick that has seen nothing move still has the count of the records.    *)
QuietTick == tick.at # "idle" /\ tick.quiet => tick.reserved = ReservedGpus

HbInv == AliveInv /\ NamesCards /\ HbTypeOK /\ QuietTick

LEMMA HbInductive ==
  ASSUME NoDeath, NeedsCards, HbInv, [HbNext]_<<vars, hbVars>>
  PROVE  HbInv'
<1>1. AliveInv' /\ NamesCards' /\ HbTypeOK'
  BY HbStepsNode, AliveInductive, NamesInductive, HbTypesInductive DEF HbInv, AliveInv, NoDeath
<1>2. runtimes' = runtimes => ReservedGpus' = ReservedGpus
  BY DEF ReservedGpus, Reserved
<1>3. QuietTick'
  <2>1. CASE ReadRecords
    BY <1>2, <2>1 DEF ReadRecords, QuietTick, vars
  <2>2. CASE Probe
    BY <1>2, <2>2 DEF Probe, QuietTick, vars, HbInv, HbTypeOK
  <2>3. CASE Publish
    BY <2>3 DEF Publish, QuietTick, NoTick
  <2>4. CASE Elsewhere
    BY <1>2, <2>4 DEF Elsewhere, QuietTick, NoTick, HbInv, HbTypeOK
  <2>5. CASE UNCHANGED <<vars, hbVars>>
    BY <1>2, <2>5 DEF vars, hbVars, QuietTick, HbInv
  <2> QED
    BY <2>1, <2>2, <2>3, <2>4, <2>5 DEF HbNext
<1> QED
  BY <1>1, <1>3 DEF HbInv

(* A tick that ran while no handler was in flight advertises exactly the    *)
(* cards that are free in the ledger and not busy with someone else's work, *)
(* whatever docker, the network and squatters do, if every deployment asks  *)
(* for a card, until the process dies: after that, a record cut off in its  *)
(* start holds cards of which another record may name some too.             *)
THEOREM ExactAtRestHolds ==
  ASSUME NoDeath, NeedsCards
  PROVE  HbSpec => ExactAtRest
<1>1. HbInit => HbInv
  <2>1. Init => NamesCards
    BY DEF Init, NamesCards, CardStatuses, CardLabels, At, NoRecord, Actors
  <2> QED
    BY <2>1, InitAlive, FiniteCards DEF HbInit, HbInv, HbTypeOK, QuietTick, NoTick
<1>2. HbInv /\ [HbNext]_<<vars, hbVars>> => HbInv'
  BY HbInductive
<1>3. HbInv =>
        [ Publish /\ cpUp /\ tick.quiet /\ AtRest
          => advertised' = Cardinality(FreeDevices \ tick.busy) ]_<<vars, hbVars>>
  <2> SUFFICES ASSUME HbInv, Publish, cpUp, tick.quiet, AtRest
               PROVE  advertised' = Cardinality(FreeDevices \ tick.busy)
    OBVIOUS
  <2>1. tick.reserved = Cardinality(AllocatedDevices)
    BY BooksAgree DEF HbInv, QuietTick, Publish
  <2>2. AllocatedDevices \subseteq Devices
    BY GroundTypes DEF HbInv, AliveInv, Ground, Core, AllocatedDevices
  <2> QED
    BY <2>1, <2>2, AvailableIsFree DEF HbInv, Publish
<1>4. HbSpec => [][ Publish /\ cpUp /\ tick.quiet /\ AtRest
                    => advertised' = Cardinality(FreeDevices \ tick.busy) ]_<<vars, hbVars>>
  BY <1>1, <1>2, <1>3, PTL DEF HbSpec
<1> QED
  BY <1>4 DEF ExactAtRest

=============================================================================
