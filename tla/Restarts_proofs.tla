---------------------------- MODULE Restarts_proofs ----------------------------
(***************************************************************************)
(* What the node agent keeps across restarts, the process dying between any *)
(* two calls, any number of times; and what it keeps until it dies while    *)
(* docker commands fail.                                                    *)
(***************************************************************************)
EXTENDS Containers_proofs

-----------------------------------------------------------------------------
(* Leases of other nodes. No fault and no request is excluded.              *)

(* An outage has not yet falsified the lease list of a pass.                *)
NoOutageYet == budget["outage"] = Budget["outage"]

Engaged(d) == \E a \in Actors : InHandler(a) /\ call[a].dep = d
Unknown(d) == runtimes[d].status = "none" /\ ~Engaged(d)

(* The node knows nothing of a deployment without a lease: leases end, but  *)
(* are never taken back.                                                    *)
OnlyLeased ==
  \A d \in Deployments : lease[d] = "none" => Unknown(d) /\ d \notin todo /\ view[d] = "none"

(* A deployment that the lease list of a reconcile pass does not name has   *)
(* none any more, or has not come to this node.                             *)
ListedIsLeased ==
  /\ mode = "leases" => todo \subseteq MyLeases(view)
  /\ \A d \in Deployments : view[d] # "ended"
  /\ budget["outage"] <= Budget["outage"] /\ (NoOutageYet => cpUp)
  /\ NoOutageYet /\ mode = "leases" /\ pc[Pass] # "idle" =>
       \A d \in Deployments : view[d] = "none" => lease[d] = "ended" \/ Unknown(d)

(* So the clean-up loop goes on to a deployment whose lease has ended, or   *)
(* is on another node as far as the list knows.                             *)
SheddingIsDue ==
  NoOutageYet /\ mode = "orphans" =>
    \A d \in todo : d \notin MyLeases(view) /\ (view[d] = "none" => lease[d] = "ended")

(* Its teardowns report only what has ended or is known to be terminated.   *)
Ended(d) == lease[d] = "ended" \/ dstate[d] \in {"terminated", "missing"}
ReportLabels == {"release", "stop", "volume", "mark", "tellTerminated"}
ReportStage ==
  /\ NoOutageYet /\ mode = "orphans" /\ At(ReportLabels) /\ call[Pass].report => Ended(Dep)
  /\ At({"tellTerminated"}) => call[Pass].report

LeaseInv == TypeInv /\ OnlyLeased /\ ListedIsLeased /\ SheddingIsDue /\ ReportStage

(* A move of an actor leaves the others where they are, and it goes on with *)
(* its deployment or ends.                                                  *)
Stays(a) ==
  /\ \A b \in Actors : b # a => pc'[b] = pc[b] /\ call'[b] = call[b]
  /\ InHandler(a)' => call'[a].dep = call[a].dep

LEMMA ActorMoves ==
  ASSUME Core, NEW a \in Actors
  PROVE  /\ \A l : Goto(a, l) => Stays(a) /\ pc'[a] = l /\ call'[a] = call[a]
         /\ \A l, r : GotoRt(a, l, r) => Stays(a) /\ pc'[a] = l
         /\ \A l, f : Enter(a, l, f) /\ f.dep = call[a].dep => Stays(a) /\ pc'[a] = l
         /\ Return(a) => Stays(a) /\ pc'[a] = IF a = Pass THEN "next" ELSE "idle"
<1> USE DEF Core, CallFrame, Stays, InHandler
<1>1. \A l : Goto(a, l) => Stays(a) /\ pc'[a] = l /\ call'[a] = call[a]
  BY DEF Goto
<1>2. \A l, r : GotoRt(a, l, r) => Stays(a) /\ pc'[a] = l
  BY DEF GotoRt
<1>3. \A l, f : Enter(a, l, f) /\ f.dep = call[a].dep => Stays(a) /\ pc'[a] = l
  BY DEF Enter
<1>4. Return(a) => Stays(a) /\ pc'[a] = IF a = Pass THEN "next" ELSE "idle"
  BY DEF Return, Enter
<1> QED
  BY <1>1, <1>2, <1>3, <1>4

(* A step of a handler: only its deployment's record changes.               *)
HandlerMove(a) == Teardown(a) \/ (a = Pass /\ (StartStep \/ SuspendStep \/ ResumeStep))

LEMMA HandlerFrames ==
  ASSUME TypeInv, NEW a \in Actors, HandlerMove(a)
  PROVE  /\ InHandler(a) /\ UNCHANGED <<mode, view, todo, snap, cpUp, lease>>
         /\ \A e \in Deployments : e # call[a].dep => runtimes'[e] = runtimes[e]
         /\ Stays(a) /\ (a = Pass => pc'[Pass] # "idle")
<1> USE DEF InHandler, Upsert, pass, cp, Core
<1>0. Core /\ Pass \in Actors /\ Dep = call[Pass].dep
  BY CoreTypes DEF Dep
<1>1. CASE Teardown(a)
  <2>1. Frame(call[a].dep, NoRecord, FALSE, "done").dep = call[a].dep
    BY DEF Frame
  <2>2. CASE TerminateRelease(a) \/ TerminateStop(a) \/ TerminateVolume(a)
    BY <1>0, <2>2, ActorMoves DEF TerminateRelease, TerminateStop, TerminateVolume
  <2>3. CASE TerminateMark(a) \/ TellTerminated(a)
    BY <1>0, <2>3, ActorMoves DEF TerminateMark, TellTerminated, AfterTeardown
  <2>4. CASE RemoveRuntime(a)
    BY <1>0, <2>1, <2>4, ActorMoves DEF RemoveRuntime
  <2> QED
    BY <1>1, <2>2, <2>3, <2>4 DEF Teardown
<1>2. CASE a = Pass /\ StartStep
  <2>1. \/ \E l : l # "idle" /\ (Goto(Pass, l) \/ \E r : GotoRt(Pass, l, r))
        \/ Return(Pass)
    BY <1>2
    DEF StartStep, DispatchFails, DispatchAccepts, AllocateGpus, CreateVolume, StageArtifact, MarkStarting,
        RunOk, RunFails, MarkReady, TellReady, FailRelease, FailMark, TellFailed
  <2>2. InHandler(Pass) /\ UNCHANGED <<mode, view, todo, snap, cpUp, lease>>
    BY <1>2
    DEF plan, StartStep, DispatchFails, DispatchAccepts, AllocateGpus, CreateVolume, StageArtifact, MarkStarting,
        RunOk, RunFails, MarkReady, TellReady, FailRelease, FailMark, TellFailed
  <2>3. \A e \in Deployments : e # call[Pass].dep => runtimes'[e] = runtimes[e]
    BY <1>0, <1>2
    DEF StartStep, DispatchFails, DispatchAccepts, AllocateGpus, CreateVolume, StageArtifact, MarkStarting,
        RunOk, RunFails, MarkReady, TellReady, FailRelease, FailMark, TellFailed
  <2>4. Stays(Pass) /\ pc'[Pass] # "idle"
    BY <1>0, <2>1, ActorMoves
  <2> QED
    BY <1>2, <2>2, <2>3, <2>4
<1>3. CASE a = Pass /\ SuspendStep
  <2>1. \/ \E l : l # "idle" /\ (Goto(Pass, l) \/ \E r : GotoRt(Pass, l, r))
        \/ Return(Pass)
    BY <1>3
    DEF SuspendStep, SuspendRelease, SuspendStop, SuspendMark, TellSuspended
  <2>2. InHandler(Pass) /\ UNCHANGED <<mode, view, todo, snap, cpUp, lease>>
    BY <1>3
    DEF SuspendStep, SuspendRelease, SuspendStop, SuspendMark, TellSuspended
  <2>3. \A e \in Deployments : e # call[Pass].dep => runtimes'[e] = runtimes[e]
    BY <1>0, <1>3
    DEF SuspendStep, SuspendRelease, SuspendStop, SuspendMark, TellSuspended
  <2>4. Stays(Pass) /\ pc'[Pass] # "idle"
    BY <1>0, <2>1, ActorMoves
  <2> QED
    BY <1>3, <2>2, <2>3, <2>4
<1>4. CASE a = Pass /\ ResumeStep
  <2>1. \/ \E l : l # "idle" /\ (Goto(Pass, l) \/ \E r : GotoRt(Pass, l, r))
        \/ Return(Pass)
    BY <1>4
    DEF ResumeStep, ResumeAllocate, ResumeStart, ResumeMark, ResumeUndo, ResumeKeep, ResumeGiveBack,
        ResumeFetch
  <2>2. InHandler(Pass) /\ UNCHANGED <<mode, view, todo, snap, cpUp, lease>>
    BY <1>4
    DEF plan, ResumeStep, ResumeAllocate, ResumeStart, ResumeMark, ResumeUndo, ResumeKeep, ResumeGiveBack,
        ResumeFetch
  <2>3. \A e \in Deployments : e # call[Pass].dep => runtimes'[e] = runtimes[e]
    BY <1>0, <1>4
    DEF ResumeStep, ResumeAllocate, ResumeStart, ResumeMark, ResumeUndo, ResumeKeep, ResumeGiveBack,
        ResumeFetch
  <2>4. Stays(Pass) /\ pc'[Pass] # "idle"
    BY <1>0, <2>1, ActorMoves
  <2> QED
    BY <1>4, <2>2, <2>3, <2>4
<1> QED
  BY <1>1, <1>2, <1>3, <1>4 DEF HandlerMove

(* A teardown reports terminated or nothing, and its report comes last.     *)
LEMMA TeardownTells ==
  ASSUME TypeInv, NEW a \in Actors, Teardown(a)
  PROVE  \A e \in Deployments : dstate'[e] \in {dstate[e], "terminated"}
BY DEF TypeInv, AgentTypeOK, Teardown, TerminateRelease, TerminateStop, TerminateVolume, TerminateMark,
       TellTerminated, RemoveRuntime, Report, cp

LEMMA ReportComesLast ==
  ASSUME TypeInv, HandlerMove(Pass), At(ReportLabels)'
  PROVE  /\ At(ReportLabels) /\ call'[Pass] = call[Pass] /\ dstate' = dstate
         /\ At({"tellTerminated"})' => call[Pass].report
<1> USE DEF At, ReportLabels, Core
<1>0. Core /\ Pass \in Actors
  BY CoreTypes
<1>1. CASE Teardown(Pass)
  <2>1. CASE TerminateRelease(Pass) \/ TerminateStop(Pass) \/ TerminateVolume(Pass) \/ TerminateMark(Pass)
    BY <1>0, <2>1, ActorMoves
    DEF TerminateRelease, TerminateStop, TerminateVolume, TerminateMark, AfterTeardown, cp
  <2>2. CASE TellTerminated(Pass) \/ RemoveRuntime(Pass)
    <3>1. pc'[Pass] \in {"remove", "dispatch", "next"}
      BY <1>0, <2>2, PassMoves DEF TellTerminated, RemoveRuntime, AfterTeardown
    <3> QED
      BY <3>1
  <2> QED
    BY <1>1, <2>1, <2>2 DEF Teardown
<1>2. CASE StartStep \/ SuspendStep \/ ResumeStep
  <2>1. \/ \E l \in StartLabels \cup FailLabels \cup SuspendLabels \cup ResumeLabels :
              Goto(Pass, l) \/ \E r : GotoRt(Pass, l, r)
        \/ Return(Pass)
    BY <1>2
    DEF StartStep, DispatchFails, DispatchAccepts, AllocateGpus, CreateVolume, StageArtifact, MarkStarting,
        RunOk, RunFails, MarkReady, TellReady, FailRelease, FailMark, TellFailed,
        SuspendStep, SuspendRelease, SuspendStop, SuspendMark, TellSuspended,
        ResumeStep, ResumeAllocate, ResumeStart, ResumeMark, ResumeUndo, ResumeKeep, ResumeGiveBack,
        ResumeFetch, StartLabels, FailLabels, SuspendLabels, ResumeLabels
  <2>2. pc'[Pass] \in StartLabels \cup FailLabels \cup SuspendLabels \cup ResumeLabels \cup {"next"}
    BY <1>0, <2>1, PassMoves
  <2> QED
    BY <2>2 DEF StartLabels, FailLabels, SuspendLabels, ResumeLabels
<1> QED
  BY <1>1, <1>2 DEF HandlerMove

(* The allowance of outages only shrinks, and an outage uses it.            *)
LEMMA OutageSpends ==
  ASSUME TypeInv, budget["outage"] <= Budget["outage"], [Next]_vars
  PROVE  budget'["outage"] <= Budget["outage"] /\ (NoOutageYet' => NoOutageYet /\ ~Outage)
<1>1. UNCHANGED budget \/ \E k \in Faults : Spend(k)
  BY SpendsOne
<1>2. budget \in [Faults -> Nat] /\ "outage" \in Faults /\ Budget["outage"] \in Nat
  BY NodeAssumption DEF TypeInv, AgentTypeOK, Faults
<1>3. budget'["outage"] <= budget["outage"] /\ (Outage => budget'["outage"] < budget["outage"])
  BY <1>1, <1>2 DEF Spend, Outage
<1>4. budget'["outage"] \in Nat
  BY <1>1, <1>2 DEF Spend
<1> QED
  BY <1>2, <1>3, <1>4 DEF NoOutageYet

LEMMA HandlerLease ==
  ASSUME LeaseInv, NEW a \in Actors, HandlerMove(a), [Next]_vars
  PROVE  OnlyLeased' /\ ListedIsLeased' /\ SheddingIsDue' /\ ReportStage'
<1>1. TypeInv /\ Pass \in Actors
  BY DEF LeaseInv, Actors
<1>2. /\ InHandler(a) /\ UNCHANGED <<mode, view, todo, snap, cpUp, lease>>
      /\ \A e \in Deployments : e # call[a].dep => runtimes'[e] = runtimes[e]
      /\ Stays(a) /\ (a = Pass => pc'[Pass] # "idle")
  BY <1>1, HandlerFrames
<1>3. \A d \in Deployments : Unknown(d) => Unknown(d)'
  BY <1>2 DEF Unknown, Engaged, Stays, InHandler
<1>4. OnlyLeased'
  BY <1>2, <1>3 DEF LeaseInv, OnlyLeased
<1>5. budget'["outage"] <= Budget["outage"] /\ (NoOutageYet' => NoOutageYet)
  BY <1>1, OutageSpends DEF LeaseInv, ListedIsLeased
<1>6. ListedIsLeased'
  <2>1. pc'[Pass] # "idle" => pc[Pass] # "idle"
    BY <1>1, <1>2 DEF InHandler, Stays
  <2> QED
    BY <1>2, <1>3, <1>5, <2>1 DEF LeaseInv, ListedIsLeased, MyLeases
<1>7. SheddingIsDue'
  BY <1>2, <1>5 DEF LeaseInv, SheddingIsDue, MyLeases
<1>8. ReportStage'
  <2>1. CASE a = Pass
    <3>1. At(ReportLabels)' => At(ReportLabels) /\ call'[Pass] = call[Pass] /\ dstate' = dstate
      BY <1>1, <2>1, ReportComesLast
    <3>2. At({"tellTerminated"})' => call'[Pass].report
      BY <1>1, <2>1, ReportComesLast DEF At, ReportLabels
    <3> QED
      BY <1>2, <1>5, <3>1, <3>2 DEF LeaseInv, ReportStage, Ended, Dep
  <2>2. CASE a # Pass
    <3>1. pc'[Pass] = pc[Pass] /\ call'[Pass] = call[Pass]
      BY <1>1, <1>2, <2>2 DEF Stays
    <3>2. At(ReportLabels) => Dep \in Deployments
      BY <1>1, CoreTypes DEF At, ReportLabels, InHandler
    <3>3. \A e \in Deployments : dstate'[e] \in {dstate[e], "terminated"}
      BY <1>1, <2>2, TeardownTells DEF HandlerMove
    <3> QED
      BY <1>2, <1>5, <3>1, <3>2, <3>3 DEF LeaseInv, ReportStage, Ended, Dep, At
  <2> QED
    BY <2>1, <2>2
<1> QED
  BY <1>4, <1>6, <1>7, <1>8

(* The loops of the pass: an entry of a list or of a snapshot is about a    *)
(* deployment that has or had a lease.                                      *)
LEMMA PassLease ==
  ASSUME LeaseInv, PassStep, [Next]_vars
  PROVE  OnlyLeased' /\ ListedIsLeased' /\ SheddingIsDue' /\ ReportStage'
<1> USE DEF InHandler
<1>0. Core /\ Pass \in Actors /\ TypeInv /\ todo \subseteq Deployments /\ view \in [Deployments -> Lease]
  BY CoreTypes DEF LeaseInv, TypeInv, AgentTypeOK
<1>1. /\ budget'["outage"] <= Budget["outage"] /\ (NoOutageYet' => NoOutageYet /\ cpUp)
      /\ UNCHANGED <<runtimes, lease, cpUp, dstate>> /\ pc[Pass] \in {"idle", "next"}
  BY <1>0, OutageSpends
  DEF LeaseInv, ListedIsLeased, PassStep, BeginReconcile, BeginRecovery, BeginOrphans, EndPass, VisitLease,
      VisitOrphan, RecoverRuntime, cp
<1>2. ASSUME NEW l \in {"idle", "next"}, Enter(Pass, l, NoCall) \/ (UNCHANGED <<pc, call>> /\ pc[Pass] = l)
      PROVE  /\ pc'[Pass] = l /\ \A d \in Deployments : Unknown(d) => Unknown(d)'
             /\ ReportStage'
  <2>1. pc'[Pass] = l /\ \A b \in Actors : b # Pass => pc'[b] = pc[b] /\ call'[b] = call[b]
    BY <1>0, <1>2 DEF Enter, Core
  <2> QED
    BY <1>1, <2>1 DEF Unknown, Engaged, ReportStage, At, ReportLabels
<1>3. CASE BeginReconcile
  <2>1. pc'[Pass] = "next" /\ (\A d \in Deployments : Unknown(d) => Unknown(d)') /\ ReportStage'
    BY <1>2, <1>3 DEF BeginReconcile, Return
  <2>2. \A d \in Deployments :
          view'[d] = IF cpUp THEN IF lease[d] = "ended" THEN "none" ELSE lease[d] ELSE "none"
    BY <1>3 DEF BeginReconcile
  <2>3. mode' = "leases" /\ todo' = MyLeases(view')
    BY <1>3 DEF BeginReconcile
  <2>4. OnlyLeased'
    BY <1>1, <2>1, <2>2, <2>3 DEF OnlyLeased, LeaseInv, MyLeases
  <2>5. ListedIsLeased'
    BY <1>1, <2>1, <2>2, <2>3 DEF ListedIsLeased, LeaseInv, OnlyLeased, MyLeases
  <2> QED
    BY <2>1, <2>3, <2>4, <2>5 DEF SheddingIsDue
<1>4. CASE BeginRecovery
  <2>1. (\A d \in Deployments : Unknown(d) => Unknown(d)') /\ ReportStage'
    BY <1>2, <1>4 DEF BeginRecovery, Return
  <2>2. mode' = "recovery" /\ view' = view /\ \A d \in todo' : runtimes[d].status # "none"
    BY <1>4 DEF BeginRecovery
  <2> QED
    BY <1>1, <2>1, <2>2 DEF OnlyLeased, ListedIsLeased, SheddingIsDue, LeaseInv, Unknown
<1>5. CASE BeginOrphans
  <2>1. (\A d \in Deployments : Unknown(d) => Unknown(d)') /\ ReportStage'
    BY <1>2, <1>5 DEF BeginOrphans, threads
  <2>2. /\ pc[Pass] = "next" /\ mode = "leases" /\ mode' = "orphans" /\ view' = view
        /\ \A d \in todo' : d \in Deployments /\ runtimes[d].status # "none" /\ d \notin MyLeases(view)
    BY <1>5 DEF BeginOrphans, OrphanCandidates
  <2> QED
    BY <1>1, <2>1, <2>2 DEF OnlyLeased, ListedIsLeased, SheddingIsDue, LeaseInv, Unknown
<1>6. CASE EndPass
  <2>1. pc'[Pass] = "idle" /\ (\A d \in Deployments : Unknown(d) => Unknown(d)') /\ ReportStage'
    BY <1>2, <1>6 DEF EndPass
  <2>2. mode' = "leases" /\ todo' = {} /\ \A d \in Deployments : view'[d] = "none"
    BY <1>6 DEF EndPass
  <2> QED
    BY <1>1, <2>1, <2>2 DEF OnlyLeased, ListedIsLeased, SheddingIsDue, LeaseInv
<1>7. ASSUME NEW d \in Deployments, VisitLease(d) \/ VisitOrphan(d) \/ RecoverRuntime(d)
      PROVE  OnlyLeased' /\ ListedIsLeased' /\ SheddingIsDue' /\ ReportStage'
  <2>1. d \in todo /\ todo' = todo \ {d} /\ mode' = mode /\ view' = view /\ pc[Pass] = "next"
    BY <1>7 DEF VisitLease, VisitOrphan, RecoverRuntime
  <2>2. UNCHANGED <<pc, call>> \/ \E l, f : Enter(Pass, l, f) /\ f.dep = d
    <3>1. \A r, rep, th : Frame(d, r, rep, th).dep = d
      BY DEF Frame
    <3>2. CASE VisitLease(d)
      BY <3>1, <3>2 DEF VisitLease, threads
    <3>3. CASE VisitOrphan(d)
      BY <3>1, <3>3 DEF VisitOrphan, threads
    <3>4. CASE RecoverRuntime(d)
      BY <3>1, <3>4 DEF RecoverRuntime, threads
    <3> QED
      BY <1>7, <3>2, <3>3, <3>4
  <2>3. \A e \in Deployments : e # d /\ Unknown(e) => Unknown(e)'
    BY <1>0, <1>1, <2>2 DEF Enter, Core, Unknown, Engaged
  <2>4. OnlyLeased'
    BY <1>1, <2>1, <2>3 DEF OnlyLeased, LeaseInv
  <2>5. ListedIsLeased'
    <3>1. mode = "leases" => view[d] # "none"
      BY <2>1 DEF LeaseInv, ListedIsLeased, MyLeases
    <3> QED
      BY <1>1, <2>1, <2>3, <3>1 DEF ListedIsLeased, LeaseInv, MyLeases
  <2>6. SheddingIsDue'
    BY <1>1, <2>1 DEF SheddingIsDue, LeaseInv, MyLeases
  <2>7. ReportStage'
    <3>0. pc'[Pass] # "tellTerminated"
      BY <1>0, <1>7, <2>1 DEF VisitLease, VisitOrphan, RecoverRuntime, Enter, Core, threads
    <3> SUFFICES ASSUME NoOutageYet', mode = "orphans", At(ReportLabels)', call'[Pass].report
                 PROVE  Ended(Dep)'
      BY <2>1, <3>0 DEF ReportStage, At
    <3>1. VisitOrphan(d)
      BY <1>7 DEF VisitLease, RecoverRuntime
    <3>2. ~UNCHANGED <<pc, call>>
      BY <2>1 DEF At, ReportLabels
    <3>3. PICK rep \in BOOLEAN, th \in {"done", "remove"} :
            /\ Enter(Pass, "release", Frame(d, snap[d], rep, th))
            /\ rep => view[d] # "elsewhere" \/ dstate[d] = "terminated"
      BY <3>1, <3>2 DEF VisitOrphan, ReportsOrphan, ConfirmedTerminated, threads
    <3>4. Dep' = d /\ call'[Pass].report = rep
      BY <1>0, <3>3 DEF Enter, Frame, Core, Dep
    <3>5. view[d] # "elsewhere" => lease[d] = "ended"
      BY <1>0, <1>1, <2>1 DEF LeaseInv, SheddingIsDue, ListedIsLeased, MyLeases, Lease
    <3> QED
      BY <1>1, <3>3, <3>4, <3>5 DEF Ended
  <2> QED
    BY <2>4, <2>5, <2>6, <2>7
<1> QED
  BY <1>3, <1>4, <1>5, <1>6, <1>7 DEF PassStep

(* Requests, restarts, the control plane and other tenants: a request is    *)
(* for a runtime the node has, and a lease that has ended stays so.         *)
LEMMA EnvironmentLease ==
  ASSUME LeaseInv, [Next]_vars,
         \/ \E a \in Routes, d \in Deployments : TerminateRequest(a, d)
         \/ Restart \/ Probing \/ ControlPlane \/ \E g \in Devices : Squat(g)
  PROVE  OnlyLeased' /\ ListedIsLeased' /\ SheddingIsDue' /\ ReportStage'
<1> USE DEF InHandler
<1>0. /\ Core /\ Pass \in Actors /\ TypeInv /\ lease \in [Deployments -> Lease]
      /\ dstate \in [Deployments -> DState]
  BY CoreTypes DEF LeaseInv, TypeInv, AgentTypeOK
<1>1. budget'["outage"] <= Budget["outage"] /\ (NoOutageYet' => NoOutageYet /\ cpUp /\ ~Outage)
  BY <1>0, OutageSpends DEF LeaseInv, ListedIsLeased
<1>2. ASSUME NEW a \in Routes, NEW d \in Deployments, TerminateRequest(a, d)
      PROVE  OnlyLeased' /\ ListedIsLeased' /\ SheddingIsDue' /\ ReportStage'
  <2>1. /\ a \in Actors /\ a # Pass /\ runtimes[d].status # "none"
        /\ UNCHANGED <<runtimes, mode, view, todo, lease, cpUp, dstate>>
    BY <1>2, NodeAssumption DEF TerminateRequest, Actors, pass, cp
  <2>2. /\ \A b \in Actors : b # a => pc'[b] = pc[b] /\ call'[b] = call[b]
        /\ call'[a].dep = d
    <3>1. Frame(d, runtimes[d], TRUE, "done").dep = d
      BY DEF Frame
    <3> QED
      BY <1>0, <1>2, <2>1, <3>1 DEF TerminateRequest, Enter, Core
  <2>3. \A e \in Deployments : Unknown(e) => Unknown(e)'
    BY <2>1, <2>2 DEF Unknown, Engaged
  <2>4. OnlyLeased'
    BY <2>1, <2>3 DEF OnlyLeased, LeaseInv
  <2>5. ListedIsLeased'
    BY <1>0, <1>1, <2>1, <2>2, <2>3 DEF ListedIsLeased, LeaseInv, MyLeases
  <2>6. SheddingIsDue'
    BY <1>1, <2>1 DEF SheddingIsDue, LeaseInv, MyLeases
  <2>7. ReportStage'
    BY <1>0, <1>1, <2>1, <2>2 DEF ReportStage, LeaseInv, Ended, At, Dep
  <2> QED
    BY <2>4, <2>5, <2>6, <2>7
<1>3. CASE Restart
  <2>1. /\ UNCHANGED <<runtimes, lease, cpUp>> /\ mode' = "leases" /\ todo' = {} /\ pc'[Pass] = "idle"
        /\ (\A a \in Actors : pc'[a] = "idle") /\ \A d \in Deployments : view'[d] = "none"
    BY <1>0, <1>3 DEF Restart, cp
  <2>2. \A d \in Deployments : Unknown(d) => Unknown(d)'
    BY <2>1 DEF Unknown, Engaged
  <2> QED
    BY <1>1, <2>1, <2>2
    DEF OnlyLeased, ListedIsLeased, SheddingIsDue, ReportStage, At, ReportLabels, LeaseInv
<1>4. CASE Probing \/ ControlPlane \/ \E g \in Devices : Squat(g)
  <2>1. UNCHANGED <<runtimes, pc, call, mode, view, todo>>
    BY <1>4, ProbingReads
    DEF ControlPlane, Outage, Reconnect, CreateLease, SuspendLease, ResumeLease, MoveLease, EndLease,
                Squat, agent, threads, pass
  <2>2. \A d \in Deployments :
          /\ lease'[d] = "none" => lease[d] = "none"
          /\ lease[d] = "ended" => lease'[d] = "ended"
          /\ dstate'[d] \in {dstate[d], "terminated", "missing"} \/ lease[d] = "none"
    BY <1>0, <1>4, ProbingReads
    DEF ControlPlane, Outage, Reconnect, CreateLease, SuspendLease, ResumeLease, MoveLease, EndLease,
                Squat, cp
  <2>3. NoOutageYet' => cpUp'
    BY <1>1, <1>4, ProbingReads
    DEF ControlPlane, Reconnect, CreateLease, SuspendLease, ResumeLease, MoveLease, EndLease,
                Squat, cp
  <2>4. \A d \in Deployments : Unknown(d)' <=> Unknown(d)
    BY <2>1 DEF Unknown, Engaged
  <2>5. OnlyLeased'
    BY <2>1, <2>2, <2>4 DEF OnlyLeased, LeaseInv
  <2>6. ListedIsLeased'
    BY <1>1, <2>1, <2>2, <2>3, <2>4 DEF ListedIsLeased, LeaseInv, MyLeases
  <2>7. SheddingIsDue'
    BY <1>0, <1>1, <2>1, <2>2 DEF SheddingIsDue, LeaseInv, MyLeases, TypeInv, AgentTypeOK
  <2>8. ReportStage'
    <3>1. At(ReportLabels) => Dep \in Deployments /\ lease[Dep] # "none"
      <4>1. At(ReportLabels) => Dep \in Deployments /\ Engaged(Dep)
        BY <1>0, CoreTypes DEF At, ReportLabels, Engaged, Dep
      <4> QED
        BY <4>1 DEF LeaseInv, OnlyLeased, Unknown
    <3> QED
      BY <1>1, <2>1, <2>2, <3>1 DEF ReportStage, LeaseInv, Ended, At, Dep
  <2> QED
    BY <2>5, <2>6, <2>7, <2>8
<1> QED
  BY <1>2, <1>3, <1>4

LEMMA InitLease == Init => LeaseInv
<1> SUFFICES ASSUME Init PROVE LeaseInv
  OBVIOUS
<1>1. Budget["outage"] \in Nat
  BY NodeAssumption DEF Faults
<1>2. \A a \in Actors : pc[a] = "idle"
  BY DEF Init
<1>3. pc[Pass] = "idle"
  BY <1>2 DEF Actors
<1>4. \A d \in Deployments : Unknown(d)
  BY <1>2 DEF Init, Unknown, Engaged, InHandler, NoRecord
<1>5. OnlyLeased
  BY <1>4 DEF Init, OnlyLeased
<1>6. ListedIsLeased /\ SheddingIsDue /\ ReportStage
  BY <1>1, <1>3 DEF Init, ListedIsLeased, SheddingIsDue, ReportStage, At, ReportLabels, NoOutageYet
<1> QED
  BY <1>5, <1>6, InitTypeInv DEF LeaseInv

(* LeaseInv is inductive.                                                   *)
LEMMA LeaseInductive == LeaseInv /\ [Next]_vars => LeaseInv'
<1> SUFFICES ASSUME LeaseInv, [Next]_vars PROVE LeaseInv'
  OBVIOUS
<1>1. TypeInv /\ TypeInv' /\ Pass \in Actors
  BY TypeInvInductive DEF LeaseInv, Actors
<1>2. OnlyLeased' /\ ListedIsLeased' /\ SheddingIsDue' /\ ReportStage'
  <2>1. CASE UNCHANGED vars
    BY <2>1
    DEF vars, threads, pass, cp, LeaseInv, OnlyLeased, Unknown, Engaged, InHandler, ListedIsLeased,
        NoOutageYet, MyLeases, SheddingIsDue, ReportStage, At, Ended, Dep
  <2>2. CASE \E a \in Actors : HandlerMove(a)
    BY <2>2, HandlerLease
  <2>3. CASE ~UNCHANGED vars /\ ~\E a \in Actors : HandlerMove(a)
    BY <1>1, <2>3, PassLease, EnvironmentLease DEF Next, HandlerMove
  <2> QED
    BY <2>1, <2>2, <2>3
<1> QED
  BY <1>1, <1>2 DEF LeaseInv

(* A deployment whose lease lives on another node is never reported         *)
(* TERMINATED by the clean-up loop, until the first outage: with any number *)
(* of restarts, recoveries, terminate requests and docker failures.         *)
THEOREM NeverKillsElsewhereHolds == Spec => NeverKillsElsewhere
<1>1. LeaseInv /\ [Next]_vars =>
        [ \A d \in Deployments :
            /\ mode = "orphans" /\ budget["outage"] = Budget["outage"]
            /\ lease[d] = "elsewhere" /\ TellTerminated(Pass) /\ call[Pass].dep = d
            => dstate'[d] = dstate[d] ]_vars
  <2> SUFFICES ASSUME LeaseInv, NEW d \in Deployments, mode = "orphans", NoOutageYet,
                      lease[d] = "elsewhere", TellTerminated(Pass), call[Pass].dep = d
               PROVE  dstate'[d] = dstate[d]
    BY DEF NoOutageYet
  <2>1. call[Pass].report => dstate[d] \in {"terminated", "missing"}
    BY DEF LeaseInv, ReportStage, Ended, At, ReportLabels, TellTerminated, Dep
  <2>2. call[Pass].report
    BY DEF LeaseInv, ReportStage, At, TellTerminated
  <2> QED
    BY <2>1, <2>2 DEF TellTerminated, Report, LeaseInv, TypeInv, AgentTypeOK
<1>2. Spec => [][ \A d \in Deployments :
                    /\ mode = "orphans" /\ budget["outage"] = Budget["outage"]
                    /\ lease[d] = "elsewhere" /\ TellTerminated(Pass) /\ call[Pass].dep = d
                    => dstate'[d] = dstate[d] ]_vars
  BY <1>1, InitLease, LeaseInductive, PTL DEF Spec
<1> QED
  BY <1>2 DEF NeverKillsElsewhere

-----------------------------------------------------------------------------
(* Containers of a process that dies. Failing docker removals are excluded,  *)
(* terminate requests and failing runs are not.                             *)

RemovalsWork == Budget["rm"] = 0

(* A container has an id docker has given out, and a VM has no container.   *)
Docker ==
  \A d \in Deployments :
    /\ cont[d].st = "none" <=> cont[d].id = 0
    /\ cont[d].id <= runs[d]
    /\ Kind[d] = "vm" => cont[d].st = "none"

(* What is not started names no container, and neither does a suspended     *)
(* inference runtime; what is finished names none that is there.            *)
Unstarted(d, r) == Kind[d] # "vm" => r.cid = 0
Removed(d, r)   == Kind[d] = "inference" => r.cid = 0
Gone(d, r)      == cont[d].st = "none" \/ cont[d].id # r.cid

RecordNames(d, r) ==
  /\ r.cid <= runs[d]
  /\ r.status \in {"none", "accepted", "starting"} => Unstarted(d, r)
  /\ r.status = "suspended" => Removed(d, r)
  /\ r.status \in {"failed", "terminated"} => Gone(d, r)

(* What the runtime copy of a handler names at its next call l.             *)
CopyNames(l, d, r) ==
  /\ r.cid <= runs[d]
  /\ l \in {"allocate", "prepare", "markStarting", "run", "failRelease", "failMark"} => Unstarted(d, r)
  /\ l \in {"resAlloc", "resGiveBack", "resFetch", "susMark"} => Removed(d, r)
  /\ l \in {"resGiveBack", "resFetch"} => Kind[d] # "pod"
  /\ l \in {"resStart", "resMark", "resUndo", "resKeep"} => Kind[d] = "pod"
  /\ l = "susMark" => r.status = "suspended"
  /\ l = "resMark" => r.status = "ready"
  /\ l = "volume" => r.cid # 0 /\ Kind[d] = "pod"
  /\ l \in {"volume", "mark"} => Gone(d, r)

LeakInv ==
  /\ TypeInv /\ Docker /\ budget["rm"] = 0
  /\ \A d \in Deployments : RecordNames(d, runtimes[d]) /\ snap[d].cid <= runs[d]
  /\ \A a \in Actors : InHandler(a) => CopyNames(pc[a], call[a].dep, call[a].rt)

(* Docker's side of a step: nothing happens to the container of a           *)
(* deployment, or it is removed, or stopped or started, or run anew with    *)
(* the next id.                                                             *)
DockerStep(d) ==
  /\ runs[d] <= runs'[d]
  /\ \/ cont'[d] = cont[d]
     \/ cont'[d] = NoContainer
     \/ cont[d].st # "none" /\ cont'[d].st # "none" /\ cont'[d].id = cont[d].id
     \/ /\ Kind[d] # "vm" /\ cont'[d].st # "none"
        /\ cont'[d].id = runs[d] + 1 /\ runs'[d] = runs[d] + 1

LEMMA DockerSteps ==
  ASSUME TypeInv, Docker, [Next]_vars
  PROVE  \A d \in Deployments : DockerStep(d)
<1> USE DEF DockerStep, docker
<1>0. Ground /\ runs \in [Deployments -> Nat]
  BY GroundTypes DEF Ground
<1>1. ASSUME UNCHANGED docker PROVE \A d \in Deployments : DockerStep(d)
  BY <1>0, <1>1
<1>2. ASSUME NEW a \in Actors, TerminateStop(a) PROVE \A d \in Deployments : DockerStep(d)
  BY <1>0, <1>2 DEF TerminateStop, RemoveContainer, Ground
<1>3. CASE SuspendStop
  <2>1. Dep \in Deployments
    BY <1>0, <1>3 DEF SuspendStop, Ground, InHandler
  <2>2. \/ runs' = runs /\ cont' = cont
        \/ runs' = runs /\ cont' = [cont EXCEPT ![Dep] = NoContainer]
        \/ runs' = runs /\ cont[Dep].id = Rt.cid /\ Rt.cid # 0 /\ cont' = [cont EXCEPT ![Dep].st = "stopped"]
    <3>1. Kind[Dep] \in {"pod", "inference", "vm"}
      BY <1>0, <2>1 DEF Ground
    <3>2. CASE Rt.cid = 0 \/ Kind[Dep] = "vm"
      BY <1>3, <3>2 DEF SuspendStop
    <3>3. CASE Rt.cid # 0 /\ Kind[Dep] = "pod"
      BY <1>3, <3>3 DEF SuspendStop, PauseContainer
    <3>4. CASE Rt.cid # 0 /\ Kind[Dep] = "inference"
      BY <1>3, <3>4 DEF SuspendStop, RemoveContainer
    <3> QED
      BY <3>1, <3>2, <3>3, <3>4
  <2> QED
    BY <1>0, <2>1, <2>2 DEF Docker, Ground, Container
<1>4. CASE ResumeStart
  <2>1. Dep \in Deployments
    BY <1>0, <1>4 DEF ResumeStart, Ground, InHandler
  <2>2. \/ runs' = runs /\ cont' = cont
        \/ runs' = runs /\ cont[Dep].id = Rt.cid /\ Rt.cid # 0 /\ cont' = [cont EXCEPT ![Dep].st = "running"]
    BY <1>4 DEF ResumeStart
  <2> QED
    BY <1>0, <2>1, <2>2 DEF Docker, Ground, Container
<1>5. CASE RunOk \/ RunFails
  <2>1. Dep \in Deployments
    BY <1>0, <1>5 DEF RunOk, RunFails, Ground, InHandler
  <2>2. \/ UNCHANGED docker
        \/ cont' = cont /\ runs' = [runs EXCEPT ![Dep] = @ + 1]
        \/ cont' = [cont EXCEPT ![Dep] = NoContainer] /\ runs' = runs
        \/ /\ Kind[Dep] # "vm" /\ cont' = [cont EXCEPT ![Dep] = NewContainer]
           /\ runs' = [runs EXCEPT ![Dep] = @ + 1]
    BY <1>5 DEF RunOk, RunFails
  <2>3. NewContainer.st = "running" /\ NewContainer.id = runs[Dep] + 1
    BY DEF NewContainer
  <2> QED
    BY <1>0, <2>1, <2>2, <2>3 DEF Ground
<1>6. CASE [Next]_vars /\ ~UNCHANGED docker
  <2>1. ASSUME NEW a \in Actors, Teardown(a), ~TerminateStop(a) PROVE UNCHANGED docker
    BY <2>1 DEF Teardown, TerminateRelease, TerminateVolume, TerminateMark, TellTerminated, RemoveRuntime
  <2>2. ASSUME StartStep, ~RunOk, ~RunFails PROVE UNCHANGED docker
    BY <2>2
    DEF StartStep, DispatchFails, DispatchAccepts, AllocateGpus, CreateVolume, StageArtifact, MarkStarting,
        MarkReady, TellReady, FailRelease, FailMark, TellFailed
  <2>3. ASSUME SuspendStep, ~SuspendStop PROVE UNCHANGED docker
    BY <2>3 DEF SuspendStep, SuspendRelease, SuspendMark, TellSuspended
  <2>4. ASSUME ResumeStep, ~ResumeStart PROVE UNCHANGED docker
    BY <2>4 DEF ResumeStep, ResumeAllocate, ResumeMark, ResumeUndo, ResumeKeep, ResumeGiveBack, ResumeFetch
  <2>5. ASSUME \/ UNCHANGED vars \/ PassStep \/ Restart \/ Probing \/ ControlPlane \/ (\E g \in Devices : Squat(g))
               \/ \E a \in Routes, d \in Deployments : TerminateRequest(a, d)
        PROVE  UNCHANGED docker
    BY <2>5, ProbingReads
    DEF vars, PassStep, BeginReconcile, BeginRecovery, BeginOrphans, EndPass, VisitLease, VisitOrphan,
        RecoverRuntime, Restart, ControlPlane, Outage, Reconnect, CreateLease, SuspendLease, ResumeLease,
        MoveLease, EndLease, Squat, agent, TerminateRequest
  <2> QED
    BY <1>2, <1>3, <1>4, <1>5, <1>6, <2>1, <2>2, <2>3, <2>4, <2>5 DEF Next
<1> QED
  BY <1>1, <1>6

(* Ids are not given out twice, so what a record or a copy says of its      *)
(* container stays so, whatever happens to docker.                          *)
LEMMA NamesStay ==
  ASSUME TypeInv, Docker, \A d \in Deployments : DockerStep(d), TypeInv'
  PROVE  /\ Docker'
         /\ \A d \in Deployments, r \in Record :
              /\ RecordNames(d, r) => RecordNames(d, r)'
              /\ \A l : CopyNames(l, d, r) => CopyNames(l, d, r)'
<1>1. /\ runs \in [Deployments -> Nat] /\ runs' \in [Deployments -> Nat]
      /\ cont \in [Deployments -> Container] /\ cont' \in [Deployments -> Container]
  BY DEF TypeInv, AgentTypeOK
<1>2. ASSUME NEW d \in Deployments
      PROVE  /\ cont'[d].st = "none" <=> cont'[d].id = 0
             /\ cont'[d].id <= runs'[d]
             /\ Kind[d] = "vm" => cont'[d].st = "none"
  BY <1>1, <1>2 DEF Docker, DockerStep, NoContainer, Container
<1>3. ASSUME NEW d \in Deployments, NEW r \in Record, r.cid <= runs[d]
      PROVE  /\ r.cid <= runs'[d]
             /\ Gone(d, r) => Gone(d, r)'
  <2>1. DockerStep(d) /\ r.cid \in Nat /\ runs[d] \in Nat /\ runs'[d] \in Nat
    BY <1>1 DEF Record
  <2>2. r.cid <= runs'[d]
    BY <1>3, <2>1 DEF DockerStep
  <2>3. Gone(d, r) => Gone(d, r)'
    BY <1>3, <2>1 DEF DockerStep, Gone, NoContainer
  <2> QED
    BY <2>2, <2>3
<1>4. \A d \in Deployments, r \in Record : RecordNames(d, r) => RecordNames(d, r)'
  BY <1>3 DEF RecordNames, Unstarted, Removed
<1>5. \A d \in Deployments, r \in Record : \A l : CopyNames(l, d, r) => CopyNames(l, d, r)'
  BY <1>3 DEF CopyNames, Unstarted, Removed
<1> QED
  BY <1>2, <1>4, <1>5 DEF Docker

(* What a move of actor a leaves in its deployment's record and its copy.   *)
NamesAfter(a, d) ==
  /\ \E q \in Record : runtimes'[d] = q /\ RecordNames(d, q)'
  /\ InHandler(a)' =>
       \E l \in Labels, r \in Record : pc'[a] = l /\ call'[a].rt = r /\ CopyNames(l, d, r)'

LEMMA TeardownNames ==
  ASSUME LeakInv, TypeInv', NEW a \in Actors, NEW d \in Deployments, d = call[a].dep, Teardown(a),
         \A e \in Deployments : DockerStep(e), ~Spend("rm")
  PROVE  NamesAfter(a, d)
<1> USE DEF NamesAfter
<1>0. /\ Core /\ TypeInv /\ runtimes[d] \in Record /\ runs \in [Deployments -> Nat]
      /\ call[a].rt \in Record /\ cont \in [Deployments -> Container] /\ cont' \in [Deployments -> Container]
      /\ pc'[a] \in Labels
  BY CoreTypes DEF LeakInv, TypeInv, AgentTypeOK, CallFrame, Core
<1>r. PICK r \in Record : r = call[a].rt
  BY <1>0
<1>q. PICK q \in Record : q = runtimes[d]
  BY <1>0
<1>1. RecordNames(d, q)' /\ \A l : CopyNames(l, d, r) => CopyNames(l, d, r)'
  BY <1>0, <1>q, NamesStay DEF LeakInv
<1>2. CopyNames(pc[a], d, r) /\ InHandler(a)
  BY <1>0, <1>r, HandlerFrames DEF LeakInv, HandlerMove
<1>3. CASE TerminateRelease(a)
  <2>1. pc'[a] = "stop" /\ call'[a] = call[a] /\ runtimes' = runtimes
    BY <1>0, <1>3, ActorMoves DEF TerminateRelease
  <2>2. CopyNames("stop", d, r)
    BY <1>2 DEF CopyNames
  <2> QED
    BY <1>0, <1>r, <1>q, <1>1, <2>1, <2>2
<1>4. CASE TerminateStop(a)
  <2>1. /\ pc'[a] = IF r.cid # 0 /\ Kind[d] = "pod" THEN "volume" ELSE "mark"
        /\ call'[a] = call[a] /\ runtimes' = runtimes
    BY <1>0, <1>r, <1>4, ActorMoves DEF TerminateStop
  <2>2. Gone(d, r)'
    BY <1>0, <1>r, <1>4 DEF TerminateStop, RemoveContainer, Gone, NoContainer, LeakInv, Docker
  <2>3. CopyNames("stop", d, r)
    BY <1>2 DEF CopyNames
  <2>4. CopyNames("stop", d, r)'
    BY <1>1, <2>3
  <2>5. \A l : l = pc'[a] => CopyNames(l, d, r)'
    BY <2>1, <2>2, <2>4 DEF CopyNames
  <2> QED
    BY <1>0, <1>r, <1>q, <1>1, <2>1, <2>5
<1>5. CASE TerminateVolume(a)
  <2>1. pc'[a] = "mark" /\ call'[a] = call[a] /\ runtimes' = runtimes
    BY <1>0, <1>5, ActorMoves DEF TerminateVolume
  <2>2. CopyNames("mark", d, r)
    BY <1>2, <1>5 DEF TerminateVolume, CopyNames
  <2> QED
    BY <1>0, <1>r, <1>q, <1>1, <2>1, <2>2
<1>6. CASE TerminateMark(a)
  <2>1. /\ pc'[a] \in {"tellTerminated", "remove", "next", "idle"}
        /\ InHandler(a)' => call'[a] = call[a]
        /\ runtimes'[d] = With(r, "terminated") /\ With(r, "terminated") \in Record
    BY <1>0, <1>r, <1>6, ActorMoves, RecordTypes
    DEF TerminateMark, AfterTeardown, Upsert, Core, InHandler, Statuses
  <2>2. CopyNames("mark", d, r)'
    BY <1>1, <1>2, <1>6 DEF TerminateMark
  <2>3. RecordNames(d, With(r, "terminated"))'
    BY <2>2, WithFields DEF CopyNames, RecordNames, Gone
  <2>4. \A l : l = pc'[a] => CopyNames(l, d, r)'
    BY <2>1, <2>2 DEF CopyNames
  <2> QED
    BY <1>0, <1>r, <2>1, <2>3, <2>4
<1>7. CASE TellTerminated(a)
  <2>1. /\ pc'[a] \in {"remove", "next", "idle"}
        /\ InHandler(a)' => call'[a] = call[a]
        /\ runtimes' = runtimes
    BY <1>0, <1>7, ActorMoves DEF TellTerminated, AfterTeardown, InHandler
  <2>2. CopyNames("remove", d, r)
    BY <1>2 DEF CopyNames
  <2> QED
    BY <1>0, <1>r, <1>q, <1>1, <2>1, <2>2 DEF InHandler
<1>8. CASE RemoveRuntime(a)
  <2>1. /\ pc'[a] \in {"dispatch", "next", "idle"}
        /\ InHandler(a)' => call'[a].dep = d /\ call'[a].rt = NoRecord
        /\ runtimes'[d] = NoRecord /\ NoRecord \in Record
    BY <1>0, <1>8, RecordTypes DEF RemoveRuntime, Enter, Return, Frame, Upsert, Core, InHandler
  <2>2. NoRecord.cid = 0 /\ NoRecord.status = "none" /\ runs'[d] \in Nat
    BY DEF NoRecord, TypeInv, AgentTypeOK
  <2>3. RecordNames(d, NoRecord)' /\ CopyNames("dispatch", d, NoRecord)'
    BY <2>2 DEF RecordNames, CopyNames, Unstarted
  <2> QED
    BY <1>0, <2>1, <2>3 DEF InHandler
<1> QED
  BY <1>3, <1>4, <1>5, <1>6, <1>7, <1>8 DEF Teardown

(* The start handlers and _fail_runtime: only a run that succeeds writes an *)
(* id, into a record that is ready.                                         *)
LEMMA StartNames ==
  ASSUME LeakInv, TypeInv', NEW d \in Deployments, d = Dep, StartStep,
         \A e \in Deployments : DockerStep(e)
  PROVE  NamesAfter(Pass, d)
<1> USE DEF NamesAfter
<1>0. /\ Core /\ Pass \in Actors /\ TypeInv /\ runtimes[d] \in Record /\ runs \in [Deployments -> Nat]
      /\ pc'[Pass] \in Labels
  BY CoreTypes DEF LeakInv, TypeInv, AgentTypeOK, CallFrame, Core
<1>2. InHandler(Pass) /\ Rt \in Record
  BY <1>0, CoreTypes, HandlerFrames DEF HandlerMove
<1>r. PICK r \in Record : r = Rt
  BY <1>2
<1>q. PICK q \in Record : q = runtimes[d]
  BY <1>0
<1>1. RecordNames(d, q)' /\ \A l : CopyNames(l, d, r) => CopyNames(l, d, r)'
  BY <1>0, <1>q, NamesStay DEF LeakInv
<1>c. CopyNames(pc[Pass], d, r)
  BY <1>0, <1>r, <1>2 DEF LeakInv, Dep, Rt
<1>t. Rt' = call'[Pass].rt
  BY DEF Rt
<1>3. CASE UNCHANGED runtimes /\ \E l : pc'[Pass] = l /\ (InHandler(Pass)' => Rt' = Rt /\ CopyNames(l, d, r))
  BY <1>0, <1>r, <1>q, <1>1, <1>3, <1>t
<1>4. CASE DispatchFails \/ FailRelease \/ StageArtifact
  <2>1. UNCHANGED runtimes /\ pc'[Pass] \in {"tellFailed", "failMark", "markStarting", "failRelease"} /\ Rt' = Rt
    BY <1>0, <1>4, PassMoves DEF DispatchFails, FailRelease, StageArtifact
  <2>2. pc'[Pass] # "tellFailed" => pc[Pass] \in {"failRelease", "prepare"}
    BY <1>0, <1>4, PassMoves DEF DispatchFails, FailRelease, StageArtifact
  <2>3. PICK l : l = pc'[Pass]
    OBVIOUS
  <2>4. CopyNames(l, d, r)
    BY <1>c, <2>1, <2>2, <2>3 DEF CopyNames
  <2> QED
    BY <1>3, <2>1, <2>3, <2>4
<1>5. CASE TellReady \/ TellFailed
  <2>1. UNCHANGED runtimes /\ pc'[Pass] = "next"
    BY <1>0, <1>5, PassMoves DEF TellReady, TellFailed
  <2> QED
    BY <1>3, <2>1 DEF InHandler
<1>6. CASE DispatchAccepts
  <2>1. PICK w \in Record : w = With(NoRecord, "accepted")
    BY RecordTypes DEF Statuses
  <2>2. pc'[Pass] = "allocate" /\ Rt' = w /\ runtimes'[d] = w
    BY <1>0, <1>6, <2>1, PassMoves DEF DispatchAccepts, Upsert, Core
  <2>3. w.cid = 0 /\ w.status = "accepted" /\ runs'[d] \in Nat
    BY <2>1, RecordTypes, WithFields DEF NoRecord, TypeInv, AgentTypeOK
  <2>4. RecordNames(d, w)' /\ CopyNames("allocate", d, w)'
    BY <2>3 DEF RecordNames, CopyNames, Unstarted
  <2> QED
    BY <1>0, <1>t, <2>2, <2>4
<1>7. CASE AllocateGpus \/ CreateVolume
  <2>1. /\ UNCHANGED runtimes /\ pc'[Pass] \in {"markStarting", "prepare", "failRelease"}
        /\ Rt' = Rt \/ \E c : Rt' = [Rt EXCEPT !.devs = c]
    BY <1>0, <1>7, PassMoves DEF AllocateGpus, CreateVolume
  <2>2. PICK w : w = Rt' /\ w.cid = r.cid
    BY <1>r, <2>1 DEF Record
  <2>3. w \in Record
    BY <1>0, <1>t, <2>2 DEF TypeInv, AgentTypeOK, CallFrame
  <2>4. \A l \in {"markStarting", "prepare", "failRelease"} : CopyNames(l, d, w)
    BY <1>7, <1>c, <2>2 DEF AllocateGpus, CreateVolume, CopyNames, Unstarted
  <2>5. \A l \in {"markStarting", "prepare", "failRelease"} : CopyNames(l, d, w)'
    BY <1>0, <2>3, <2>4, NamesStay DEF LeakInv
  <2> QED
    BY <1>0, <1>q, <1>1, <1>t, <2>1, <2>2, <2>3, <2>5
<1>8. CASE MarkStarting
  <2>1. PICK w \in Record : w = With(r, "starting")
    BY RecordTypes DEF Statuses
  <2>2. pc'[Pass] = "run" /\ Rt' = w /\ runtimes'[d] = w
    BY <1>0, <1>r, <1>8, <2>1, PassMoves DEF MarkStarting, Upsert, Core
  <2>3. w.cid = r.cid /\ w.status = "starting"
    BY <2>1, WithFields
  <2>4. RecordNames(d, w) /\ CopyNames("run", d, w)
    BY <1>8, <1>c, <2>3 DEF MarkStarting, RecordNames, CopyNames, Unstarted
  <2>5. RecordNames(d, w)' /\ CopyNames("run", d, w)'
    BY <1>0, <2>4, NamesStay DEF LeakInv
  <2> QED
    BY <1>0, <1>t, <2>2, <2>5
<1>9. CASE RunOk
  <2>1. /\ UNCHANGED runtimes /\ pc'[Pass] = "markReady" /\ Rt' = [Rt EXCEPT !.cid = runs[Dep] + 1]
        /\ runs'[d] = runs[d] + 1
    BY <1>0, <1>9, PassMoves DEF RunOk
  <2>2. PICK w : w = Rt' /\ w.cid = runs[d] + 1
    BY <1>2, <2>1 DEF Record
  <2>3. w \in Record
    BY <1>0, <1>t, <2>2 DEF TypeInv, AgentTypeOK, CallFrame
  <2>4. CopyNames("markReady", d, w)'
    BY <1>0, <2>1, <2>2 DEF CopyNames
  <2> QED
    BY <1>0, <1>q, <1>1, <1>t, <2>1, <2>2, <2>3, <2>4
<1>10. CASE RunFails
  <2>1. UNCHANGED runtimes /\ pc'[Pass] = "failRelease" /\ Rt' = Rt
    BY <1>0, <1>10, PassMoves DEF RunFails
  <2>2. CopyNames("failRelease", d, r)
    BY <1>10, <1>c DEF RunFails, CopyNames
  <2> QED
    BY <1>3, <2>1, <2>2
<1>11. CASE MarkReady
  <2>1. PICK w \in Record : w = With(r, "ready")
    BY RecordTypes DEF Statuses
  <2>2. pc'[Pass] = "tellReady" /\ Rt' = w /\ runtimes'[d] = w
    BY <1>0, <1>r, <1>11, <2>1, PassMoves DEF MarkReady, Upsert, Core
  <2>3. w.cid = r.cid /\ w.status = "ready"
    BY <2>1, WithFields
  <2>4. RecordNames(d, w) /\ CopyNames("tellReady", d, w)
    BY <1>c, <2>3 DEF RecordNames, CopyNames
  <2>5. RecordNames(d, w)' /\ CopyNames("tellReady", d, w)'
    BY <1>0, <2>4, NamesStay DEF LeakInv
  <2> QED
    BY <1>0, <1>t, <2>2, <2>5
<1>12. CASE FailMark
  <2>1. PICK w \in Record : w = With(r, "failed")
    BY RecordTypes DEF Statuses
  <2>2. pc'[Pass] = "tellFailed" /\ Rt' = r /\ runtimes'[d] = w
    BY <1>0, <1>r, <1>12, <2>1, PassMoves DEF FailMark, Upsert, Core
  <2>3. w.cid = r.cid /\ w.status = "failed"
    BY <2>1, WithFields
  <2>4. Gone(d, w)
    BY <1>12, <1>c, <2>3 DEF FailMark, CopyNames, Unstarted, Gone, LeakInv, Docker
  <2>5. RecordNames(d, w) /\ CopyNames("tellFailed", d, r)
    BY <1>c, <2>3, <2>4 DEF RecordNames, CopyNames
  <2>6. RecordNames(d, w)' /\ CopyNames("tellFailed", d, r)'
    BY <1>0, <2>5, NamesStay DEF LeakInv
  <2> QED
    BY <1>0, <1>t, <2>2, <2>6
<1> QED
  BY <1>4, <1>5, <1>6, <1>7, <1>8, <1>9, <1>10, <1>11, <1>12 DEF StartStep

(* Suspending and resuming: an inference runtime forgets the container that *)
(* was removed, a pod keeps the one it has.                                 *)
LEMMA PauseNames ==
  ASSUME LeakInv, TypeInv', NEW d \in Deployments, d = Dep, SuspendStep \/ ResumeStep,
         \A e \in Deployments : DockerStep(e)
  PROVE  NamesAfter(Pass, d)
<1> USE DEF NamesAfter
<1>0. /\ Core /\ Pass \in Actors /\ TypeInv /\ runtimes[d] \in Record /\ runs \in [Deployments -> Nat]
      /\ pc'[Pass] \in Labels /\ Kind[d] \in {"pod", "inference", "vm"}
  BY CoreTypes, NodeAssumption DEF LeakInv, TypeInv, AgentTypeOK, CallFrame, Core
<1>2. InHandler(Pass) /\ Rt \in Record
  BY <1>0, CoreTypes, HandlerFrames DEF HandlerMove
<1>r. PICK r \in Record : r = Rt
  BY <1>2
<1>q. PICK q \in Record : q = runtimes[d]
  BY <1>0
<1>1. RecordNames(d, q)'
  BY <1>0, <1>q, NamesStay DEF LeakInv
<1>c. CopyNames(pc[Pass], d, r)
  BY <1>0, <1>r, <1>2 DEF LeakInv, Dep, Rt
<1>t. Rt' = call'[Pass].rt
  BY DEF Rt
<1>3. ASSUME NEW l \in Labels, NEW w \in Record, UNCHANGED runtimes \/ (runtimes'[d] = w /\ RecordNames(d, w)),
             pc'[Pass] = l, Rt' = w, CopyNames(l, d, w)
      PROVE  NamesAfter(Pass, d)
  <2>1. CopyNames(l, d, w)' /\ (RecordNames(d, w) => RecordNames(d, w)')
    BY <1>0, <1>3, NamesStay DEF LeakInv
  <2> QED
    BY <1>0, <1>q, <1>1, <1>3, <1>t, <2>1
<1>4. CASE pc'[Pass] = "next" /\ (UNCHANGED runtimes \/ \E w \in Record : runtimes'[d] = w /\ RecordNames(d, w))
  <2>1. \A w \in Record : RecordNames(d, w) => RecordNames(d, w)'
    BY <1>0, NamesStay DEF LeakInv
  <2> QED
    BY <1>0, <1>q, <1>1, <1>4, <2>1 DEF InHandler
<1>5. CASE SuspendRelease
  <2>1. UNCHANGED runtimes /\ pc'[Pass] = "susStop" /\ Rt' = r
    BY <1>0, <1>r, <1>5, PassMoves DEF SuspendRelease
  <2>2. CopyNames("susStop", d, r)
    BY <1>c DEF CopyNames
  <2> QED
    BY <1>0, <1>3, <2>1, <2>2
<1>6. CASE SuspendStop
  <2>1. UNCHANGED runtimes /\ pc'[Pass] = "susMark" /\ Rt' = SuspendedRecord(Rt)
    BY <1>0, <1>6, PassMoves DEF SuspendStop
  <2>s. PICK v \in Record : v = With(r, "suspended") /\ v.status = "suspended" /\ v.cid = r.cid
    BY RecordTypes, WithFields DEF Statuses
  <2>2. PICK w : w = Rt' /\ w.status = "suspended" /\ w.cid = IF Kind[d] = "inference" THEN 0 ELSE r.cid
    <3>1. Rt' = [v EXCEPT !.cid = IF Kind[Dep] = "inference" THEN 0 ELSE @]
      BY <1>r, <2>1, <2>s DEF SuspendedRecord
    <3> QED
      BY <2>s, <3>1 DEF Record
  <2>3. w \in Record
    BY <1>0, <1>t, <2>2 DEF TypeInv, AgentTypeOK, CallFrame
  <2>4. CopyNames("susMark", d, w)
    BY <1>0, <1>c, <2>2 DEF CopyNames, Removed
  <2> QED
    BY <1>0, <1>3, <2>1, <2>2, <2>3, <2>4
<1>7. CASE SuspendMark
  <2>1. runtimes'[d] = r /\ pc'[Pass] = "tellSuspended" /\ Rt' = r
    BY <1>0, <1>r, <1>7, PassMoves DEF SuspendMark, Upsert, Core
  <2>2. RecordNames(d, r) /\ CopyNames("tellSuspended", d, r)
    BY <1>c, <1>7 DEF SuspendMark, CopyNames, RecordNames
  <2> QED
    BY <1>0, <1>3, <2>1, <2>2
<1>8. CASE TellSuspended
  <2>1. UNCHANGED runtimes /\ pc'[Pass] = "next"
    BY <1>0, <1>8, PassMoves DEF TellSuspended
  <2> QED
    BY <1>4, <2>1
<1>9. CASE ResumeAllocate
  <2>1. UNCHANGED runtimes
    BY <1>9 DEF ResumeAllocate
  <2>2. \/ pc'[Pass] = "next"
        \/ /\ pc'[Pass] = IF Kind[d] = "pod" THEN "resStart" ELSE "resGiveBack"
           /\ Rt' = Rt \/ \E c : Rt' = [Rt EXCEPT !.devs = c]
    BY <1>0, <1>9, PassMoves DEF ResumeAllocate
  <2>3. CASE pc'[Pass] # "next"
    <3>1. PICK w : w = Rt' /\ w.cid = r.cid
      BY <1>r, <2>2, <2>3 DEF Record
    <3>2. w \in Record
      BY <1>0, <1>t, <3>1 DEF TypeInv, AgentTypeOK, CallFrame
    <3>3. PICK l \in Labels : l = pc'[Pass]
      BY <1>0
    <3>4. CopyNames(l, d, w)
      BY <1>c, <1>9, <2>2, <2>3, <3>1, <3>3 DEF ResumeAllocate, CopyNames, Removed
    <3> QED
      BY <1>3, <2>1, <3>1, <3>2, <3>3, <3>4
  <2> QED
    BY <1>4, <2>1, <2>3
<1>10. CASE ResumeStart
  <2>1. PICK w \in Record : w = With(r, "ready")
    BY RecordTypes DEF Statuses
  <2>2. UNCHANGED runtimes /\ \/ pc'[Pass] = "resMark" /\ Rt' = w
                              \/ pc'[Pass] = "resUndo" /\ Rt' = r
    BY <1>0, <1>r, <1>10, <2>1, PassMoves DEF ResumeStart
  <2>3. w.cid = r.cid /\ w.status = "ready"
    BY <2>1, WithFields
  <2>4. CopyNames("resMark", d, w) /\ CopyNames("resUndo", d, r)
    BY <1>c, <1>10, <2>3 DEF ResumeStart, CopyNames
  <2> QED
    BY <1>0, <1>3, <2>2, <2>4
<1>11. CASE ResumeMark
  <2>1. runtimes'[d] = r /\ pc'[Pass] = "tellReady" /\ Rt' = r
    BY <1>0, <1>r, <1>11, PassMoves DEF ResumeMark, Upsert, Core
  <2>2. RecordNames(d, r) /\ CopyNames("tellReady", d, r)
    BY <1>c, <1>11 DEF ResumeMark, CopyNames, RecordNames
  <2> QED
    BY <1>0, <1>3, <2>1, <2>2
<1>12. CASE ResumeUndo \/ ResumeGiveBack
  <2>1. UNCHANGED runtimes /\ Rt' = r
    BY <1>0, <1>r, <1>12, PassMoves DEF ResumeUndo, ResumeGiveBack
  <2>2. \/ pc[Pass] = "resUndo" /\ pc'[Pass] = "resKeep"
        \/ pc[Pass] = "resGiveBack" /\ pc'[Pass] = "resFetch"
    BY <1>0, <1>12, PassMoves DEF ResumeUndo, ResumeGiveBack
  <2>3. CASE pc[Pass] = "resUndo" /\ pc'[Pass] = "resKeep"
    <3>1. CopyNames("resKeep", d, r)
      BY <1>c, <2>3 DEF CopyNames
    <3> QED
      BY <1>0, <1>3, <2>1, <2>3, <3>1
  <2>4. CASE pc[Pass] = "resGiveBack" /\ pc'[Pass] = "resFetch"
    <3>1. CopyNames("resFetch", d, r)
      BY <1>c, <2>4 DEF CopyNames
    <3> QED
      BY <1>0, <1>3, <2>1, <2>4, <3>1
  <2> QED
    BY <2>2, <2>3, <2>4
<1>13. CASE ResumeKeep
  <2>1. PICK w \in Record : w = With(r, "suspended")
    BY RecordTypes DEF Statuses
  <2>2. runtimes'[d] = w /\ pc'[Pass] = "next"
    BY <1>0, <1>r, <1>13, <2>1, PassMoves DEF ResumeKeep, Upsert, Core
  <2>3. w.cid = r.cid /\ w.status = "suspended"
    BY <2>1, WithFields
  <2>4. RecordNames(d, w)
    BY <1>c, <1>13, <2>3 DEF ResumeKeep, CopyNames, RecordNames, Removed
  <2> QED
    BY <1>4, <2>2, <2>4
<1>14. CASE ResumeFetch
  <2>1. PICK w \in Record : w = With(r, "accepted")
    BY RecordTypes DEF Statuses
  <2>2. \/ runtimes'[d] = w /\ pc'[Pass] = "allocate" /\ Rt' = w
        \/ UNCHANGED runtimes /\ pc'[Pass] = "next"
    BY <1>0, <1>r, <1>14, <2>1, PassMoves DEF ResumeFetch, Upsert, Core
  <2>3. w.cid = r.cid /\ w.status = "accepted"
    BY <2>1, WithFields
  <2>4. Unstarted(d, w)
    BY <1>0, <1>c, <1>14, <2>3 DEF ResumeFetch, CopyNames, Removed, Unstarted
  <2>5. RecordNames(d, w) /\ CopyNames("allocate", d, w)
    BY <1>c, <2>3, <2>4 DEF CopyNames, RecordNames
  <2> QED
    BY <1>0, <1>3, <1>4, <2>2, <2>5
<1> QED
  BY <1>5, <1>6, <1>7, <1>8, <1>9, <1>10, <1>11, <1>12, <1>13, <1>14 DEF SuspendStep, ResumeStep

(* The loops of the pass and terminate requests: a handler starts with the  *)
(* record, or with the snapshot of it, which may be out of date.            *)
CopyAfter(b) ==
  InHandler(b)' => \E l \in Labels, e \in Deployments, r \in Record :
                     pc'[b] = l /\ call'[b].dep = e /\ call'[b].rt = r /\ CopyNames(l, e, r)'

LEMMA EnterNames ==
  ASSUME LeakInv, TypeInv', NEW a \in Actors, NEW d \in Deployments, NEW l \in Labels, NEW r \in Record,
         NEW rep, NEW th, Enter(a, l, Frame(d, r, rep, th)), \A e \in Deployments : DockerStep(e),
         \/ l \in {"release", "susRelease"} /\ r.cid <= runs[d]
         \/ l = "resAlloc" /\ r = runtimes[d] /\ r.status = "suspended"
         \/ l = "dispatch" /\ r = runtimes[d]
  PROVE  CopyAfter(a)
<1>0. Core /\ TypeInv /\ runtimes[d] \in Record
  BY CoreTypes DEF LeakInv, Core
<1>1. pc'[a] = l /\ call'[a].dep = d /\ call'[a].rt = r
  BY <1>0 DEF Enter, Frame, Core
<1>2. CopyNames(l, d, r)
  BY <1>0 DEF CopyNames, LeakInv, RecordNames
<1>3. CopyNames(l, d, r)'
  BY <1>0, <1>2, NamesStay DEF LeakInv
<1> QED
  BY <1>1, <1>3 DEF CopyAfter

(* An actor that does not move keeps its copy.                              *)
LEMMA OtherNames ==
  ASSUME LeakInv, TypeInv', NEW b \in Actors, pc'[b] = pc[b], call'[b] = call[b],
         \A e \in Deployments : DockerStep(e)
  PROVE  CopyAfter(b)
<1> SUFFICES ASSUME InHandler(b) PROVE CopyAfter(b)
  BY DEF CopyAfter, InHandler
<1>1. pc[b] \in Labels /\ call[b].dep \in Deployments /\ call[b].rt \in Record
  BY DEF LeakInv, TypeInv, AgentTypeOK, CallNamesDep, CallFrame
<1>2. PICK l \in Labels, e \in Deployments, r \in Record : l = pc[b] /\ e = call[b].dep /\ r = call[b].rt
  BY <1>1
<1>3. CopyNames(l, e, r)
  BY <1>2 DEF LeakInv
<1>4. CopyNames(l, e, r)'
  BY <1>3, NamesStay DEF LeakInv
<1> QED
  BY <1>2, <1>4 DEF CopyAfter

(* The loops of the pass read records and snapshots; a terminate request    *)
(* reads the record; a restart forgets every copy.                          *)
LEMMA VisitNames ==
  ASSUME LeakInv, [Next]_vars, ~\E a \in Actors : HandlerMove(a), \A e \in Deployments : DockerStep(e)
  PROVE  /\ UNCHANGED runtimes
         /\ \A d \in Deployments : snap'[d] \in {snap[d], runtimes[d], NoRecord}
         /\ \A b \in Actors : CopyAfter(b)
<1>0. /\ TypeInv /\ TypeInv' /\ Core /\ Pass \in Actors
      /\ snap \in [Deployments -> Record] /\ runtimes \in [Deployments -> Record]
  BY TypeInvInductive, CoreTypes DEF LeakInv, TypeInv, AgentTypeOK
<1>1. ASSUME UNCHANGED threads PROVE \A b \in Actors : CopyAfter(b)
  BY <1>0, <1>1, OtherNames DEF threads
<1>2. ASSUME NEW a \in Actors, NEW l, NEW f, Enter(a, l, f), CopyAfter(a)
      PROVE  \A b \in Actors : CopyAfter(b)
  <2>1. \A b \in Actors : b # a => pc'[b] = pc[b] /\ call'[b] = call[b]
    BY <1>0, <1>2 DEF Enter, Core
  <2> QED
    BY <1>0, <1>2, <2>1, OtherNames
<1>3. ASSUME NEW l \in {"idle", "next"}, Enter(Pass, l, NoCall) PROVE CopyAfter(Pass)
  BY <1>0, <1>3 DEF CopyAfter, Enter, InHandler, Core
<1>4. CASE UNCHANGED <<runtimes, snap, threads>>
  BY <1>1, <1>4
<1>5. CASE BeginReconcile \/ EndPass
  BY <1>0, <1>2, <1>3, <1>5 DEF BeginReconcile, EndPass, Return
<1>6. CASE BeginRecovery \/ BeginOrphans
  <2>1. UNCHANGED runtimes /\ snap' = [d \in Deployments |-> Kept(d)]
    BY <1>6 DEF BeginRecovery, BeginOrphans
  <2>2. \A b \in Actors : CopyAfter(b)
    BY <1>0, <1>1, <1>2, <1>3, <1>6 DEF BeginRecovery, BeginOrphans, Return
  <2> QED
    BY <2>1, <2>2 DEF Kept
<1>7. ASSUME NEW d \in Deployments, VisitLease(d)
      PROVE  UNCHANGED <<runtimes, snap>> /\ \A b \in Actors : CopyAfter(b)
  <2>1. /\ UNCHANGED <<runtimes, snap>>
        /\ \/ UNCHANGED threads
           \/ \E l, th :
                /\ Enter(Pass, l, Frame(d, runtimes[d], FALSE, th))
                /\ \/ l \in {"release", "susRelease", "dispatch"}
                   \/ l = "resAlloc" /\ runtimes[d].status = "suspended"
    BY <1>7 DEF VisitLease
  <2>2. runtimes[d].cid <= runs[d] /\ runtimes[d] \in Record
    BY <1>0 DEF LeakInv, RecordNames
  <2>3. CASE ~UNCHANGED threads
    <3>1. PICK l, th : /\ Enter(Pass, l, Frame(d, runtimes[d], FALSE, th))
                       /\ \/ l \in {"release", "susRelease", "dispatch"}
                          \/ l = "resAlloc" /\ runtimes[d].status = "suspended"
      BY <2>1, <2>3
    <3>2. l \in Labels
      BY <3>1 DEF Labels, TeardownLabels, SuspendLabels, StartLabels, ResumeLabels
    <3>3. PICK r \in Record : r = runtimes[d]
      BY <2>2
    <3>4. CopyAfter(Pass)
      BY <1>0, <2>2, <3>1, <3>2, <3>3, EnterNames
    <3> QED
      BY <1>0, <1>2, <2>1, <3>1, <3>4
  <2> QED
    BY <1>1, <2>1, <2>3
<1>8. ASSUME NEW d \in Deployments, VisitOrphan(d) \/ RecoverRuntime(d)
      PROVE  /\ UNCHANGED runtimes /\ snap' = [snap EXCEPT ![d] = NoRecord]
             /\ \A b \in Actors : CopyAfter(b)
  <2>1. /\ UNCHANGED runtimes /\ snap' = [snap EXCEPT ![d] = NoRecord]
        /\ UNCHANGED threads \/ \E rep, th : Enter(Pass, "release", Frame(d, snap[d], rep, th))
    BY <1>8 DEF VisitOrphan, RecoverRuntime
  <2>2. snap[d].cid <= runs[d] /\ snap[d] \in Record
    BY <1>0 DEF LeakInv
  <2>3. CASE ~UNCHANGED threads
    <3>1. PICK rep, th : Enter(Pass, "release", Frame(d, snap[d], rep, th))
      BY <2>1, <2>3
    <3>2. "release" \in Labels
      BY DEF Labels, TeardownLabels
    <3>3. PICK r \in Record : r = snap[d]
      BY <2>2
    <3>4. CopyAfter(Pass)
      BY <1>0, <2>2, <3>1, <3>2, <3>3, EnterNames
    <3> QED
      BY <1>0, <1>2, <2>1, <3>1, <3>4
  <2> QED
    BY <1>1, <2>1, <2>3
<1>9. ASSUME NEW a \in Routes, NEW d \in Deployments, TerminateRequest(a, d)
      PROVE  UNCHANGED <<runtimes, snap>> /\ \A b \in Actors : CopyAfter(b)
  <2>1. a \in Actors /\ UNCHANGED <<runtimes, snap>> /\ Enter(a, "release", Frame(d, runtimes[d], TRUE, "done"))
    BY <1>9 DEF TerminateRequest, Actors, pass
  <2>2. PICK r \in Record : r = runtimes[d] /\ r.cid <= runs[d]
    BY <1>0 DEF LeakInv, RecordNames
  <2>3. "release" \in Labels
    BY DEF Labels, TeardownLabels
  <2>4. CopyAfter(a)
    BY <1>0, <2>1, <2>2, <2>3, EnterNames
  <2> QED
    BY <1>0, <1>2, <2>1, <2>4
<1>10. CASE Restart
  BY <1>0, <1>10 DEF Restart, CopyAfter, InHandler
<1>11. CASE UNCHANGED vars \/ Probing \/ ControlPlane \/ \E g \in Devices : Squat(g)
  BY <1>4, <1>11, ProbingReads
  DEF threads, vars, ControlPlane, Outage, Reconnect, CreateLease, SuspendLease, ResumeLease, MoveLease, EndLease,
      Squat, agent, pass
<1>12. CASE PassStep
  BY <1>0, <1>5, <1>6, <1>7, <1>8, <1>12 DEF PassStep
<1> QED
  BY <1>0, <1>9, <1>10, <1>11, <1>12 DEF Next, HandlerMove

(* LeakInv is inductive.                                                    *)
LEMMA LeakInductive == LeakInv /\ [Next]_vars => LeakInv'
<1> SUFFICES ASSUME LeakInv, [Next]_vars PROVE LeakInv'
  OBVIOUS
<1>1. /\ TypeInv /\ TypeInv' /\ Core /\ Pass \in Actors /\ (\A e \in Deployments : DockerStep(e))
      /\ runs \in [Deployments -> Nat] /\ runs' \in [Deployments -> Nat]
  BY TypeInvInductive, CoreTypes, DockerSteps DEF LeakInv, TypeInv, AgentTypeOK
<1>2. ~Spend("rm") /\ budget'["rm"] = 0
  <2>1. ~Spend("rm")
    BY DEF LeakInv, Spend
  <2>2. UNCHANGED budget \/ \E k \in Faults \ {"rm"} : Spend(k)
    BY <1>1, <2>1, SpendsOne
  <2> QED
    BY <1>1, <2>1, <2>2 DEF LeakInv, Spend, TypeInv, AgentTypeOK, Faults
<1>3. /\ Docker'
      /\ \A d \in Deployments, r \in Record : RecordNames(d, r) => RecordNames(d, r)'
  BY <1>1, NamesStay DEF LeakInv
<1>4. /\ \A d \in Deployments : \E q \in Record : runtimes'[d] = q /\ RecordNames(d, q)'
      /\ \A d \in Deployments : snap'[d] \in {snap[d], runtimes[d], NoRecord}
      /\ \A b \in Actors : CopyAfter(b)
  <2>1. \A d \in Deployments : runtimes[d] \in Record /\ RecordNames(d, runtimes[d])
    BY <1>1 DEF LeakInv, Core
  <2>2. \A d \in Deployments : runtimes'[d] = runtimes[d] =>
                                 \E q \in Record : runtimes'[d] = q /\ RecordNames(d, q)'
    BY <1>3, <2>1
  <2>3. ASSUME NEW a \in Actors, HandlerMove(a)
        PROVE  /\ \A d \in Deployments : \E q \in Record : runtimes'[d] = q /\ RecordNames(d, q)'
               /\ snap' = snap
               /\ \A b \in Actors : CopyAfter(b)
    <3>1. /\ InHandler(a) /\ snap' = snap /\ Stays(a)
          /\ \A e \in Deployments : e # call[a].dep => runtimes'[e] = runtimes[e]
      BY <1>1, <2>3, HandlerFrames
    <3>2. PICK d \in Deployments : d = call[a].dep
      BY <1>1, <3>1 DEF TypeInv, CallNamesDep
    <3>3. NamesAfter(a, d)
      BY <1>1, <1>2, <2>3, <3>2, TeardownNames, StartNames, PauseNames DEF HandlerMove, Dep
    <3>4. CopyAfter(a)
      BY <3>1, <3>2, <3>3 DEF NamesAfter, CopyAfter, Stays
    <3>5. \A b \in Actors : b # a => CopyAfter(b)
      BY <1>1, <3>1, OtherNames DEF Stays
    <3> QED
      BY <2>2, <3>1, <3>2, <3>3, <3>4, <3>5 DEF NamesAfter
  <2>4. CASE ~\E a \in Actors : HandlerMove(a)
    BY <1>1, <2>2, <2>4, VisitNames
  <2> QED
    BY <2>3, <2>4
<1>5. \A d \in Deployments : RecordNames(d, runtimes[d])'
  BY <1>4 DEF RecordNames, Unstarted, Removed, Gone
<1>6. \A d \in Deployments : snap'[d].cid <= runs'[d]
  <2>1. ASSUME NEW d \in Deployments
        PROVE  snap[d].cid \in Nat /\ runtimes[d].cid \in Nat /\ NoRecord.cid = 0 /\ runs[d] <= runs'[d]
               /\ snap[d].cid <= runs[d] /\ runtimes[d].cid <= runs[d]
    BY <1>1 DEF LeakInv, RecordNames, TypeInv, AgentTypeOK, Record, NoRecord, DockerStep
  <2> QED
    BY <1>1, <1>4, <2>1
<1>7. \A a \in Actors : InHandler(a)' => CopyNames(pc[a], call[a].dep, call[a].rt)'
  BY <1>4 DEF CopyAfter, CopyNames, Unstarted, Removed, Gone
<1> QED
  BY <1>1, <1>2, <1>3, <1>5, <1>6, <1>7 DEF LeakInv

LEMMA InitLeak == ASSUME RemovalsWork PROVE Init => LeakInv
<1> SUFFICES ASSUME Init PROVE LeakInv
  OBVIOUS
<1>1. TypeInv /\ budget["rm"] = 0
  BY InitTypeInv DEF Init, RemovalsWork
<1>2. Docker /\ \A d \in Deployments : RecordNames(d, runtimes[d]) /\ snap[d].cid <= runs[d]
  BY DEF Init, Docker, RecordNames, Unstarted, NoRecord, NoContainer
<1>3. \A a \in Actors : ~InHandler(a)
  BY DEF Init, InHandler
<1> QED
  BY <1>1, <1>2, <1>3 DEF LeakInv

(* The only container a finished runtime can leave behind is one whose id   *)
(* was never saved, as long as docker rm succeeds: whatever terminate       *)
(* requests interleave, whichever runs fail, and wherever the process dies. *)
THEOREM LeaksAreUnrecordedHolds ==
  ASSUME RemovalsWork
  PROVE  Spec => []LeaksAreUnrecorded
<1>1. LeakInv => LeaksAreUnrecorded
  BY DEF LeakInv, RecordNames, Gone, LeaksAreUnrecorded
<1> QED
  BY <1>1, InitLeak, LeakInductive, PTL DEF Spec

-----------------------------------------------------------------------------
(* The snapshot of the clean-up and recovery loops. Only the pass changes    *)
(* records, when there are no terminate requests; so what the snapshot says *)
(* of a deployment still to be visited is so.                               *)

LEMMA SnapshotStays ==
  ASSUME Routes = {}, TypeInv, SnapCurrent, [Next]_vars
  PROVE  SnapCurrent'
<1>0. Ground /\ todo \subseteq Deployments
  BY GroundTypes DEF TypeInv, AgentTypeOK
<1>1. CASE HandlerMove(Pass)
  <2>1. /\ InHandler(Pass) /\ UNCHANGED <<mode, todo, snap>>
        /\ \A e \in Deployments : e # Dep => runtimes'[e] = runtimes[e]
        /\ InHandler(Pass)' => Dep' = Dep
    BY <1>0, <1>1, HandlerFrames DEF Ground, Stays, Dep
  <2> QED
    BY <1>0, <2>1 DEF SnapCurrent
<1>2. CASE BeginReconcile \/ EndPass \/ Restart
  BY <1>2 DEF BeginReconcile, EndPass, Restart, SnapCurrent
<1>3. CASE BeginRecovery \/ BeginOrphans
  <2>1. UNCHANGED runtimes /\ snap' = [d \in Deployments |-> Kept(d)] /\ todo' \subseteq Deployments
    BY <1>3 DEF BeginRecovery, BeginOrphans, OrphanCandidates
  <2>2. ~InHandler(Pass)'
    BY <1>0, <1>3, PassMoves DEF BeginRecovery, BeginOrphans, threads, InHandler, Ground
  <2> QED
    BY <2>1, <2>2 DEF SnapCurrent, Kept
<1>4. ASSUME NEW d \in Deployments, VisitLease(d) PROVE SnapCurrent'
  BY <1>4 DEF VisitLease, SnapCurrent
<1>5. ASSUME NEW d \in Deployments, VisitOrphan(d) \/ RecoverRuntime(d) PROVE SnapCurrent'
  <2>1. /\ todo' = todo \ {d} /\ snap' = [snap EXCEPT ![d] = NoRecord] /\ UNCHANGED <<runtimes, mode>>
        /\ snap \in [Deployments -> Record] /\ mode # "leases"
    BY <1>5 DEF VisitOrphan, RecoverRuntime, TypeInv, AgentTypeOK
  <2>2. UNCHANGED threads \/ \E rep, th : Enter(Pass, "release", Frame(d, snap[d], rep, th))
    BY <1>5 DEF VisitOrphan, RecoverRuntime
  <2>3. ~InHandler(Pass) /\ \A rep, th : Frame(d, snap[d], rep, th).dep = d
    BY <1>5 DEF VisitOrphan, RecoverRuntime, InHandler, Frame
  <2>4. Dep' = d \/ ~InHandler(Pass)'
    BY <1>0, <2>2, <2>3, PassMoves DEF InHandler, Ground, threads
  <2> QED
    BY <1>0, <2>1, <2>4 DEF SnapCurrent
<1>6. CASE UNCHANGED vars \/ Probing \/ ControlPlane \/ \E g \in Devices : Squat(g)
  <2>1. UNCHANGED <<runtimes, pc, call, mode, todo, snap>>
    BY <1>6, ProbingReads
    DEF vars, threads, pass, ControlPlane, Outage, Reconnect, CreateLease, SuspendLease, ResumeLease,
                MoveLease, EndLease, Squat, agent
  <2> QED
    BY <2>1 DEF SnapCurrent, InHandler, Dep
<1> QED
  BY <1>1, <1>2, <1>3, <1>4, <1>5, <1>6, OnlyThePass DEF Next, HandlerMove, PassStep

-----------------------------------------------------------------------------
(* The container of a suspended pod, without terminate requests and without *)
(* recoveries. A handler is in the way of one only if the clean-up loop has *)
(* had the termination confirmed, and the control plane never takes that    *)
(* back: it creates a lease only for a deployment the node knows nothing of. *)

KillStage ==
  /\ At({"release", "stop"}) /\ runtimes[Dep].status = "suspended" =>
       dstate[Dep] \in {"terminated", "missing"}
  /\ At({"run"}) => runtimes[Dep].status = "starting"

KeptInv ==
  LeaseInv /\ SnapCurrent /\ KillStage /\ budget["recovery"] = 0 /\ mode # "recovery"

(* Handlers: the report that could change the deployment's state comes      *)
(* after the container is gone, and a record that is run is starting.       *)
LEMMA HandlerKept ==
  ASSUME TypeInv, KillStage, HandlerMove(Pass)
  PROVE  KillStage'
<1> USE DEF KillStage, At
<1>0. Ground /\ InHandler(Pass) /\ Dep = call[Pass].dep
  BY GroundTypes, HandlerFrames DEF Ground, Dep
<1>c. Core /\ Pass \in Actors
  BY CoreTypes
<1>1. CASE TerminateRelease(Pass)
  BY <1>0, <1>1, PassMoves DEF TerminateRelease, Ground, cp
<1>2. CASE MarkStarting
  <2>1. pc'[Pass] = "run" /\ Dep' = Dep /\ runtimes'[Dep].status = "starting"
    BY <1>0, <1>2, PassMoves, WithFields DEF MarkStarting, Upsert, Ground, Core
  <2> QED
    BY <2>1
<1>3. CASE ~TerminateRelease(Pass) /\ ~MarkStarting
  <2> DEFINE Elsewhere == (StartLabels \ {"run"}) \cup FailLabels \cup SuspendLabels \cup ResumeLabels
                            \cup {"volume", "mark", "tellTerminated", "remove", "next"}
  <2>1. CASE TerminateStop(Pass) \/ TerminateVolume(Pass) \/ TerminateMark(Pass)
    <3>1. pc'[Pass] \in {"volume", "mark", "tellTerminated", "remove", "next"}
      BY <1>c, <2>1, PassMoves DEF TerminateStop, TerminateVolume, TerminateMark, AfterTeardown
    <3> QED
      BY <3>1
  <2>2. CASE TellTerminated(Pass) \/ RemoveRuntime(Pass)
    <3>1. pc'[Pass] \in {"remove", "dispatch", "next"}
      BY <1>c, <2>2, PassMoves DEF TellTerminated, RemoveRuntime, AfterTeardown
    <3> QED
      BY <3>1
  <2>3. CASE StartStep \/ SuspendStep \/ ResumeStep
    <3>1. \/ \E l \in Elsewhere : Goto(Pass, l) \/ \E r : GotoRt(Pass, l, r)
          \/ Return(Pass)
      BY <1>3, <2>3
      DEF StartStep, DispatchFails, DispatchAccepts, AllocateGpus, CreateVolume, StageArtifact,
          RunOk, RunFails, MarkReady, TellReady, FailRelease, FailMark, TellFailed,
          SuspendStep, SuspendRelease, SuspendStop, SuspendMark, TellSuspended,
          ResumeStep, ResumeAllocate, ResumeStart, ResumeMark, ResumeUndo, ResumeKeep, ResumeGiveBack,
          ResumeFetch, StartLabels, FailLabels, SuspendLabels, ResumeLabels
    <3>2. pc'[Pass] \in Elsewhere
      BY <1>c, <3>1, PassMoves
    <3> QED
      BY <3>2 DEF StartLabels, FailLabels, SuspendLabels, ResumeLabels
  <2> QED
    BY <1>3, <2>1, <2>2, <2>3 DEF HandlerMove, Teardown
<1> QED
  BY <1>1, <1>2, <1>3

(* The loops: a teardown of a suspended runtime starts only after the       *)
(* control plane has said that the deployment is terminated.                *)
LEMMA PassKept ==
  ASSUME KeptInv, ~Spend("recovery"), PassStep
  PROVE  KillStage' /\ mode' # "recovery"
<1>0. /\ Ground /\ SnapCurrent /\ UNCHANGED <<runtimes, dstate>> /\ pc[Pass] \in {"idle", "next"}
      /\ mode # "recovery"
  BY GroundTypes
  DEF KeptInv, LeaseInv, PassStep, BeginReconcile, BeginRecovery, BeginOrphans, EndPass, VisitLease,
      VisitOrphan, RecoverRuntime, cp
<1>1. CASE BeginReconcile \/ BeginOrphans \/ EndPass
  <2>1. pc'[Pass] \in {"idle", "next"} /\ mode' # "recovery"
    BY <1>0, <1>1, PassMoves DEF BeginReconcile, BeginOrphans, EndPass, threads, Ground
  <2> QED
    BY <2>1 DEF KillStage, At
<1>2. ASSUME NEW d \in Deployments, VisitLease(d) \/ VisitOrphan(d) PROVE KillStage' /\ mode' # "recovery"
  <2>1. mode' # "recovery"
    BY <1>0, <1>2 DEF VisitLease, VisitOrphan
  <2>2. UNCHANGED <<pc, call>> => KillStage'
    BY <1>0 DEF KillStage, At
  <2>3. ASSUME NEW l, NEW f, Enter(Pass, l, f), f.dep = d, l # "run",
               \/ l \notin {"release", "stop"} \/ runtimes[d].status # "suspended"
               \/ dstate[d] = "terminated"
        PROVE  KillStage'
    <3>1. pc'[Pass] = l /\ Dep' = d
      BY <1>0, <2>3, PassMoves DEF Ground
    <3> QED
      BY <1>0, <2>3, <3>1 DEF KillStage, At
  <2>4. CASE VisitLease(d)
    <3>1. \A rep, th : Frame(d, runtimes[d], rep, th).dep = d
      BY DEF Frame
    <3>2. \/ UNCHANGED <<pc, call>>
          \/ \E l \in {"susRelease", "resAlloc", "dispatch"} : \E th : Enter(Pass, l, Frame(d, runtimes[d], FALSE, th))
          \/ runtimes[d].status # "suspended" /\ Enter(Pass, "release", Frame(d, runtimes[d], FALSE, "dispatch"))
      BY <2>4 DEF VisitLease, threads
    <3> QED
      BY <2>1, <2>2, <2>3, <3>1, <3>2
  <2>5. CASE VisitOrphan(d)
    <3>1. \A rep, th : Frame(d, snap[d], rep, th).dep = d
      BY DEF Frame
    <3>2. snap[d] = runtimes[d]
      BY <1>0, <2>5 DEF VisitOrphan, SnapCurrent
    <3>3. \/ UNCHANGED <<pc, call>>
          \/ /\ runtimes[d].status # "suspended" \/ dstate[d] = "terminated"
             /\ \E rep, th : Enter(Pass, "release", Frame(d, snap[d], rep, th))
      BY <2>5, <3>2 DEF VisitOrphan, ConfirmedTerminated, threads
    <3> QED
      BY <2>1, <2>2, <2>3, <3>1, <3>3
  <2> QED
    BY <1>2, <2>4, <2>5
<1>3. ~BeginRecovery /\ \A d \in Deployments : ~RecoverRuntime(d)
  BY <1>0 DEF BeginRecovery, RecoverRuntime
<1> QED
  BY <1>1, <1>2, <1>3 DEF PassStep

(* The control plane: a deployment in hand has a lease, so it is never      *)
(* scheduled anew; an ended one stays terminated or is deleted.             *)
LEMMA EnvironmentKept ==
  ASSUME KeptInv, Probing \/ ControlPlane \/ \E g \in Devices : Squat(g)
  PROVE  KillStage' /\ mode' = mode
<1>0. Ground /\ lease \in [Deployments -> Lease] /\ dstate \in [Deployments -> DState]
  BY GroundTypes DEF KeptInv, LeaseInv, TypeInv, AgentTypeOK
<1>1. UNCHANGED <<runtimes, pc, call, mode, todo>>
  BY ProbingReads
  DEF ControlPlane, Outage, Reconnect, CreateLease, SuspendLease, ResumeLease, MoveLease, EndLease,
         Squat, agent, threads, pass
<1>2. Dep' = Dep
  BY <1>1 DEF Dep
<1>3. \A d \in Deployments :
        dstate[d] \in {"terminated", "missing"} /\ lease[d] # "none" => dstate'[d] \in {"terminated", "missing"}
  BY <1>0, ProbingReads
  DEF ControlPlane, Outage, Reconnect, CreateLease, SuspendLease, ResumeLease, MoveLease, EndLease,
         Squat, cp
<1>4. InHandler(Pass) => Dep \in Deployments /\ lease[Dep] # "none"
  BY <1>0 DEF Ground, KeptInv, LeaseInv, OnlyLeased, Unknown, Engaged, Dep
<1> QED
  BY <1>1, <1>2, <1>3, <1>4 DEF KeptInv, KillStage, At, InHandler

(* KeptInv is inductive.                                                    *)
LEMMA KeptInductive == ASSUME Routes = {} PROVE KeptInv /\ [Next]_vars => KeptInv'
<1> SUFFICES ASSUME KeptInv, [Next]_vars PROVE KeptInv'
  OBVIOUS
<1>1. LeaseInv' /\ SnapCurrent' /\ TypeInv
  BY LeaseInductive, SnapshotStays DEF KeptInv, LeaseInv
<1>2. ~Spend("recovery") /\ budget'["recovery"] = 0
  <2>1. ~Spend("recovery")
    BY DEF KeptInv, Spend
  <2>2. UNCHANGED budget \/ \E k \in Faults \ {"recovery"} : Spend(k)
    BY <1>1, <2>1, SpendsOne
  <2> QED
    BY <1>1, <2>2 DEF KeptInv, Spend, TypeInv, AgentTypeOK, Faults
<1>3. KillStage' /\ mode' # "recovery"
  <2>1. CASE UNCHANGED vars
    BY <2>1 DEF vars, threads, pass, cp, KeptInv, KillStage, At, Dep
  <2>2. CASE HandlerMove(Pass)
    BY <1>1, <2>2, HandlerKept, HandlerFrames DEF KeptInv, Actors
  <2>3. CASE Restart
    BY <2>3 DEF Restart, KillStage, At, Actors
  <2> QED
    BY <1>2, <2>1, <2>2, <2>3, PassKept, EnvironmentKept, OnlyThePass DEF Next, HandlerMove, KeptInv
<1> QED
  BY <1>1, <1>2, <1>3 DEF KeptInv

(* The only command that removes the container of a suspended pod is the    *)
(* stop of a confirmed teardown.                                            *)
LEMMA RemovalIsConfirmed ==
  ASSUME Routes = {}, KeptInv, [Next]_vars, NEW d \in Deployments, Kind[d] = "pod",
         runtimes[d].status = "suspended", cont[d].st # "none", cont'[d].st = "none"
  PROVE  dstate[d] \in {"terminated", "missing"}
<1>1. Ground /\ TypeInv /\ KillStage
  BY GroundTypes DEF KeptInv, LeaseInv
<1>2. TerminateStop(Pass) \/ RunOk \/ RunFails \/ SuspendStop \/ ResumeStart
  <2>1. ASSUME Teardown(Pass), ~TerminateStop(Pass) PROVE UNCHANGED cont
    BY <2>1 DEF Teardown, TerminateRelease, TerminateVolume, TerminateMark, TellTerminated, RemoveRuntime, docker
  <2>2. ASSUME StartStep, ~RunOk, ~RunFails PROVE UNCHANGED cont
    BY <2>2
    DEF StartStep, DispatchFails, DispatchAccepts, AllocateGpus, CreateVolume, StageArtifact, MarkStarting,
        MarkReady, TellReady, FailRelease, FailMark, TellFailed, docker
  <2>3. ASSUME SuspendStep, ~SuspendStop PROVE UNCHANGED cont
    BY <2>3 DEF SuspendStep, SuspendRelease, SuspendMark, TellSuspended, docker
  <2>4. ASSUME ResumeStep, ~ResumeStart PROVE UNCHANGED cont
    BY <2>4 DEF ResumeStep, ResumeAllocate, ResumeMark, ResumeUndo, ResumeKeep, ResumeGiveBack, ResumeFetch, docker
  <2>5. ASSUME UNCHANGED vars \/ PassStep \/ Restart \/ Probing \/ ControlPlane \/ \E g \in Devices : Squat(g)
        PROVE  UNCHANGED cont
    BY <2>5, ProbingReads
    DEF vars, docker, PassStep, BeginReconcile, BeginRecovery, BeginOrphans, EndPass, VisitLease, VisitOrphan,
        RecoverRuntime, Restart, ControlPlane, Outage, Reconnect, CreateLease, SuspendLease, ResumeLease,
        MoveLease, EndLease, Squat, agent
  <2> QED
    BY <1>1, <2>1, <2>2, <2>3, <2>4, <2>5, OnlyThePass DEF Next
<1>3. CASE TerminateStop(Pass)
  <2>1. d = Dep /\ pc[Pass] = "stop"
    BY <1>1, <1>3 DEF TerminateStop, RemoveContainer, Ground, Dep
  <2> QED
    BY <1>1, <2>1 DEF KillStage, At
<1>4. CASE RunOk \/ RunFails
  <2>1. d = Dep /\ pc[Pass] = "run"
    BY <1>1, <1>4 DEF RunOk, RunFails, Ground, docker
  <2> QED
    BY <1>1, <2>1 DEF KillStage, At
<1>5. CASE SuspendStop
  <2>1. d = Dep => cont'[d] = cont[d] \/ cont'[d] = [cont[d] EXCEPT !.st = "stopped"]
    BY <1>1, <1>5 DEF SuspendStop, PauseContainer, Ground
  <2>2. d # Dep => cont'[d] = cont[d]
    BY <1>1, <1>5 DEF SuspendStop, PauseContainer, RemoveContainer, Ground, InHandler
  <2> QED
    BY <1>1, <2>1, <2>2 DEF Ground, Container
<1>6. CASE ResumeStart
  BY <1>1, <1>6 DEF ResumeStart, Ground, Container
<1> QED
  BY <1>2, <1>3, <1>4, <1>5, <1>6

(* The container of a suspended pod is removed only for a deployment the    *)
(* control plane has terminated or deleted: with outages, lost reports,     *)
(* failing docker commands and processes that die anywhere, as long as      *)
(* recover_runtime_state is not called.                                     *)
THEOREM SuspendedKeptHolds ==
  ASSUME Routes = {}, Budget["recovery"] = 0
  PROVE  Spec => SuspendedKept
<1>1. Init => KeptInv
  <2> SUFFICES ASSUME Init PROVE KeptInv
    OBVIOUS
  <2>1. pc[Pass] = "idle" /\ budget["recovery"] = 0 /\ mode = "leases"
    BY DEF Init, Actors
  <2> QED
    BY <2>1, InitLease DEF KeptInv, SnapCurrent, KillStage, At
<1>2. KeptInv /\ [Next]_vars =>
        [ \A d \in Deployments :
            /\ Kind[d] = "pod" /\ runtimes[d].status = "suspended"
            /\ cont[d].st # "none" /\ cont'[d].st = "none"
            => dstate[d] \in {"terminated", "missing"} ]_vars
  BY RemovalIsConfirmed
<1>3. Spec => [][ \A d \in Deployments :
                    /\ Kind[d] = "pod" /\ runtimes[d].status = "suspended"
                    /\ cont[d].st # "none" /\ cont'[d].st = "none"
                    => dstate[d] \in {"terminated", "missing"} ]_vars
  BY <1>1, <1>2, KeptInductive, PTL DEF Spec
<1> QED
  BY <1>3 DEF SuspendedKept

-----------------------------------------------------------------------------
(* The volume of a pod. Terminate requests are excluded too: one may delete  *)
(* the volume of a pod that the pass is about to run.                       *)

(* A container has the volume it mounts; and a volume that this process has *)
(* a record of belongs to the container that the deployment's record names, *)
(* if it names one. After a restart no volume is on record.                 *)
VolumeKept(d) ==
  Kind[d] = "pod" /\ cont[d].st # "none" =>
    d \in volDirs /\ (d \in volRecords /\ runtimes[d].cid # 0 => cont[d].id = runtimes[d].cid)

(* The copy of a handler names the container the record names, a volume is  *)
(* there before the run, and its removal comes after the container's.       *)
SameIdLabels ==
  {"release", "stop", "volume", "mark", "susRelease", "susStop", "susMark", "resAlloc",
   "resStart", "resMark", "resUndo", "resKeep"}
VolumeStage ==
  /\ At(SameIdLabels) /\ Kind[Dep] = "pod" => Rt.cid = runtimes[Dep].cid
  /\ At({"allocate", "prepare", "markStarting"}) => runtimes[Dep].status = "accepted"
  /\ At({"run", "markReady"}) => runtimes[Dep].status = "starting"
  /\ At({"markStarting", "run"}) /\ Kind[Dep] = "pod" => Dep \in volDirs
  /\ At({"markReady"}) /\ Kind[Dep] = "pod" => cont[Dep].id = Rt.cid
  /\ At({"volume"}) /\ Dep \in volRecords => cont[Dep].st = "none"

VolumeInv == LeakInv /\ VolumeStage /\ SnapCurrent /\ \A d \in Deployments : VolumeKept(d)

(* A handler disturbs only the volume of its deployment.                    *)
LEMMA HandlerVolumes ==
  ASSUME VolumeInv, InHandler(Pass), NEW d \in Deployments, d = Dep, OnlyOwn(d),
         VolumeKept(d)'
  PROVE  \A e \in Deployments : VolumeKept(e)'
BY DEF VolumeInv, VolumeKept, OnlyOwn

(* _terminate_runtime: the volume goes after the container it belongs to.   *)
LEMMA TeardownVolumes ==
  ASSUME VolumeInv, Teardown(Pass), ~Spend("rm")
  PROVE  VolumeStage' /\ \A e \in Deployments : VolumeKept(e)'
<1> USE DEF VolumeStage, At, SameIdLabels, Ground, Core
<1>0. Ground /\ Dep = call[Pass].dep /\ Rt = call[Pass].rt
  BY GroundTypes DEF VolumeInv, LeakInv, Dep, Rt
<1>h. InHandler(Pass)
  BY DEF Teardown, TerminateRelease, TerminateStop, TerminateVolume, TerminateMark, TellTerminated,
         RemoveRuntime, InHandler
<1>d. PICK d \in Deployments : d = Dep
  BY <1>0, <1>h
<1>k. VolumeKept(d) /\ VolumeStage
  BY DEF VolumeInv
<1>1. CASE TerminateRelease(Pass)
  <2>1. /\ pc'[Pass] = "stop" /\ Dep' = d /\ Rt' = Rt /\ OnlyOwn(d)
        /\ UNCHANGED <<runtimes, volDirs, volRecords, cont>>
    BY <1>0, <1>d, <1>1, PassMoves DEF TerminateRelease, OnlyOwn, pass, docker
  <2>2. VolumeKept(d)'
    BY <1>k, <2>1 DEF VolumeKept
  <2> QED
    BY <1>d, <1>h, <1>k, <1>1, <2>1, <2>2, HandlerVolumes DEF TerminateRelease
<1>2. CASE TerminateStop(Pass)
  <2>1. /\ pc'[Pass] = IF Rt.cid # 0 /\ Kind[d] = "pod" THEN "volume" ELSE "mark"
        /\ Dep' = d /\ Rt' = Rt /\ OnlyOwn(d)
        /\ UNCHANGED <<runtimes, volDirs, volRecords>>
        /\ cont'[d] = IF Rt.cid # 0 /\ Kind[d] # "vm" /\ cont[d].id = Rt.cid THEN NoContainer ELSE cont[d]
    BY <1>0, <1>d, <1>2, PassMoves DEF TerminateStop, RemoveContainer, OnlyOwn, pass
  <2>2. VolumeKept(d)'
    BY <1>k, <2>1 DEF VolumeKept, NoContainer
  <2>3. Kind[d] = "pod" => Rt.cid = runtimes[d].cid
    BY <1>d, <1>k, <1>2 DEF TerminateStop
  <2>4. pc'[Pass] = "volume" /\ d \in volRecords => cont'[d].st = "none"
    BY <1>k, <2>1, <2>3 DEF VolumeKept, NoContainer
  <2> QED
    BY <1>d, <1>h, <2>1, <2>2, <2>3, <2>4, HandlerVolumes
<1>3. CASE TerminateVolume(Pass)
  <2>1. /\ pc'[Pass] = "mark" /\ Dep' = d /\ Rt' = Rt /\ OnlyOwn(d)
        /\ UNCHANGED <<runtimes, cont>>
        /\ d \notin volRecords'
        /\ d \notin volRecords /\ d \in volDirs => d \in volDirs'
    BY <1>0, <1>d, <1>3, PassMoves DEF TerminateVolume, DeleteVolumes, OnlyOwn, pass, docker
  <2>2. d \in volRecords => cont[d].st = "none"
    BY <1>d, <1>k, <1>3 DEF TerminateVolume
  <2>3. VolumeKept(d)'
    BY <1>k, <2>1, <2>2 DEF VolumeKept
  <2> QED
    BY <1>d, <1>h, <1>k, <1>3, <2>1, <2>3, HandlerVolumes DEF TerminateVolume
<1>4. CASE TerminateMark(Pass)
  <2>1. /\ pc'[Pass] \in {"tellTerminated", "remove", "next"} /\ (Dep' = d \/ pc'[Pass] = "next")
        /\ OnlyOwn(d) /\ runtimes'[d].cid = Rt.cid
        /\ UNCHANGED <<volDirs, volRecords, cont>>
    BY <1>0, <1>d, <1>h, <1>4, PassMoves, WithFields
    DEF TerminateMark, AfterTeardown, Upsert, OnlyOwn, pass, docker
  <2>2. VolumeKept(d)'
    BY <1>d, <1>k, <1>4, <2>1 DEF TerminateMark, VolumeKept
  <2> QED
    BY <1>d, <1>h, <2>1, <2>2, HandlerVolumes
<1>5. CASE TellTerminated(Pass) \/ RemoveRuntime(Pass)
  <2>1. /\ pc'[Pass] \in {"remove", "dispatch", "next"} /\ (Dep' = d \/ pc'[Pass] = "next")
        /\ OnlyOwn(d) /\ (runtimes'[d] = runtimes[d] \/ runtimes'[d].cid = 0)
        /\ UNCHANGED <<volDirs, volRecords, cont>>
    <3>1. CASE TellTerminated(Pass)
      BY <1>0, <1>d, <3>1, PassMoves DEF TellTerminated, AfterTeardown, OnlyOwn, pass, docker
    <3>2. CASE RemoveRuntime(Pass)
      BY <1>0, <1>d, <3>2, PassMoves DEF RemoveRuntime, Upsert, Frame, NoRecord, OnlyOwn, pass, docker
    <3> QED
      BY <1>5, <3>1, <3>2
  <2>2. VolumeKept(d)'
    BY <1>k, <2>1 DEF VolumeKept
  <2> QED
    BY <1>d, <1>h, <2>1, <2>2, HandlerVolumes
<1> QED
  BY <1>1, <1>2, <1>3, <1>4, <1>5 DEF Teardown

(* The start handlers: the volume is there before the container is run, and *)
(* a container that was left running is replaced or kept with it.           *)
LEMMA StartVolumes ==
  ASSUME VolumeInv, StartStep
  PROVE  VolumeStage' /\ \A e \in Deployments : VolumeKept(e)'
<1> USE DEF VolumeStage, At, SameIdLabels, Ground, Core
<1>0. Ground
  BY GroundTypes DEF VolumeInv, LeakInv
<1>h. InHandler(Pass)
  BY DEF StartStep, DispatchFails, DispatchAccepts, AllocateGpus, CreateVolume, StageArtifact,
         MarkStarting, RunOk, RunFails, MarkReady, TellReady, FailRelease, FailMark, TellFailed, InHandler
<1>d. PICK d \in Deployments : d = Dep
  BY <1>0, <1>h
<1>k. VolumeKept(d) /\ VolumeStage
  BY DEF VolumeInv
<1>n. RecordNames(d, runtimes[d]) /\ CopyNames(pc[Pass], d, Rt)
  BY <1>0, <1>d, <1>h DEF VolumeInv, LeakInv, Dep, Rt
<1>1. CASE DispatchFails \/ TellReady \/ FailRelease \/ TellFailed
  <2>1. /\ pc'[Pass] \in {"tellFailed", "failMark", "next"} /\ (Dep' = d \/ pc'[Pass] = "next")
        /\ OnlyOwn(d) /\ UNCHANGED <<runtimes, volDirs, volRecords, cont>>
    BY <1>0, <1>d, <1>1, PassMoves DEF DispatchFails, TellReady, FailRelease, TellFailed, OnlyOwn, pass, docker
  <2>2. VolumeKept(d)'
    BY <1>k, <2>1 DEF VolumeKept
  <2> QED
    BY <1>d, <1>h, <2>1, <2>2, HandlerVolumes
<1>2. CASE DispatchAccepts
  <2>1. /\ pc'[Pass] = "allocate" /\ Dep' = d /\ OnlyOwn(d)
        /\ runtimes'[d].status = "accepted" /\ runtimes'[d].cid = 0
        /\ UNCHANGED <<volDirs, volRecords, cont>>
    BY <1>0, <1>d, <1>2, PassMoves, WithFields, RecordTypes
    DEF DispatchAccepts, Upsert, NoRecord, OnlyOwn, pass, docker
  <2>2. VolumeKept(d)'
    BY <1>k, <2>1 DEF VolumeKept
  <2> QED
    BY <1>d, <1>h, <2>1, <2>2, HandlerVolumes
<1>3. CASE AllocateGpus \/ StageArtifact
  <2>1. /\ pc'[Pass] \in {"markStarting", "prepare", "failRelease"}
        /\ pc'[Pass] = "markStarting" => Kind[d] # "pod"
        /\ Dep' = d /\ OnlyOwn(d) /\ pc[Pass] \in {"allocate", "prepare"}
        /\ UNCHANGED <<runtimes, volDirs, volRecords, cont>>
    <3>1. CASE AllocateGpus
      BY <1>0, <1>d, <3>1, PassMoves DEF AllocateGpus, OnlyOwn, pass, docker, plan
    <3>2. CASE StageArtifact
      BY <1>0, <1>d, <3>2, PassMoves DEF StageArtifact, OnlyOwn, pass, docker
    <3> QED
      BY <1>3, <3>1, <3>2
  <2>2. VolumeKept(d)'
    BY <1>k, <2>1 DEF VolumeKept
  <2> QED
    BY <1>d, <1>h, <1>k, <2>1, <2>2, HandlerVolumes
<1>4. CASE CreateVolume
  <2>1. /\ pc'[Pass] \in {"markStarting", "failRelease"} /\ Dep' = d /\ OnlyOwn(d)
        /\ pc'[Pass] = "markStarting" => d \in volDirs'
        /\ (d \in volDirs => d \in volDirs')
        /\ UNCHANGED <<runtimes, cont>>
    BY <1>0, <1>d, <1>4, PassMoves DEF CreateVolume, MakeVolume, OnlyOwn, pass, docker
  <2>2. Kind[d] = "pod" /\ runtimes[d].status = "accepted" /\ runtimes[d].cid = 0
    BY <1>d, <1>k, <1>n, <1>4 DEF CreateVolume, RecordNames, Unstarted
  <2>3. VolumeKept(d)'
    BY <1>k, <2>1, <2>2 DEF VolumeKept
  <2> QED
    BY <1>d, <1>h, <2>1, <2>2, <2>3, HandlerVolumes
<1>5. CASE MarkStarting
  <2>1. /\ pc'[Pass] = "run" /\ Dep' = d /\ OnlyOwn(d)
        /\ runtimes'[d].status = "starting" /\ runtimes'[d].cid = Rt.cid
        /\ UNCHANGED <<volDirs, volRecords, cont>>
    BY <1>0, <1>d, <1>h, <1>5, PassMoves, WithFields DEF MarkStarting, Upsert, OnlyOwn, pass, docker
  <2>2. Kind[d] = "pod" => Rt.cid = 0 /\ d \in volDirs
    BY <1>d, <1>k, <1>n, <1>5 DEF MarkStarting, CopyNames, Unstarted
  <2>3. VolumeKept(d)'
    BY <1>k, <2>1, <2>2 DEF VolumeKept
  <2> QED
    BY <1>d, <1>h, <2>1, <2>2, <2>3, HandlerVolumes
<1>6. CASE RunOk \/ RunFails
  <2>1. /\ pc'[Pass] \in {"markReady", "failRelease"} /\ Dep' = d /\ OnlyOwn(d)
        /\ UNCHANGED <<runtimes, volDirs, volRecords>>
    <3>1. CASE RunOk
      BY <1>0, <1>d, <3>1, PassMoves DEF RunOk, OnlyOwn, pass
    <3>2. CASE RunFails
      BY <1>0, <1>d, <3>2, PassMoves DEF RunFails, OnlyOwn, pass, docker
    <3> QED
      BY <1>6, <3>1, <3>2
  <2>2. runtimes[d].status = "starting" /\ (Kind[d] = "pod" => d \in volDirs /\ runtimes[d].cid = 0)
    BY <1>d, <1>k, <1>n, <1>6 DEF RunOk, RunFails, RecordNames, Unstarted
  <2>3. VolumeKept(d)'
    BY <2>1, <2>2 DEF VolumeKept
  <2>4. pc'[Pass] = "markReady" /\ Kind[d] = "pod" => cont'[d].id = Rt'.cid
    <3>1. CASE RunOk
      <4>1. Rt' = [Rt EXCEPT !.cid = runs[Dep] + 1]
        BY <1>0, <3>1, PassMoves DEF RunOk
      <4>2. Kind[d] = "pod" => cont'[d].id = runs[d] + 1
        BY <1>0, <1>d, <3>1 DEF RunOk, NewContainer
      <4> QED
        BY <1>0, <1>d, <1>h, <4>1, <4>2 DEF Record
    <3>2. CASE RunFails
      BY <1>0, <3>2, PassMoves DEF RunFails
    <3> QED
      BY <1>6, <3>1, <3>2
  <2> QED
    BY <1>d, <1>h, <2>1, <2>2, <2>3, <2>4, HandlerVolumes
<1>7. CASE MarkReady \/ FailMark
  <2>1. /\ pc'[Pass] \in {"tellReady", "tellFailed"} /\ Dep' = d /\ OnlyOwn(d)
        /\ runtimes'[d].cid = Rt.cid
        /\ UNCHANGED <<volDirs, volRecords, cont>>
    BY <1>0, <1>d, <1>h, <1>7, PassMoves, WithFields DEF MarkReady, FailMark, Upsert, OnlyOwn, pass, docker
  <2>2. Kind[d] = "pod" => cont[d].id = Rt.cid \/ Rt.cid = 0
    BY <1>d, <1>k, <1>n, <1>7 DEF MarkReady, FailMark, CopyNames, Unstarted
  <2>3. VolumeKept(d)'
    BY <1>k, <2>1, <2>2 DEF VolumeKept
  <2> QED
    BY <1>d, <1>h, <2>1, <2>3, HandlerVolumes
<1> QED
  BY <1>1, <1>2, <1>3, <1>4, <1>5, <1>6, <1>7 DEF StartStep

(* Suspending and resuming leave the volume and the id of a pod alone.      *)
LEMMA PauseVolumes ==
  ASSUME VolumeInv, SuspendStep \/ ResumeStep, \A e \in Deployments : DockerStep(e)
  PROVE  VolumeStage' /\ \A e \in Deployments : VolumeKept(e)'
<1> USE DEF VolumeStage, At, SameIdLabels, Ground, Core
<1>0. Ground
  BY GroundTypes DEF VolumeInv, LeakInv
<1>h. InHandler(Pass) /\ Rt \in Record
  BY <1>0 DEF InHandler, SuspendStep, SuspendRelease, SuspendStop, SuspendMark, TellSuspended,
       ResumeStep, ResumeAllocate, ResumeStart, ResumeMark, ResumeUndo, ResumeKeep, ResumeGiveBack, ResumeFetch
<1>d. PICK d \in Deployments : d = Dep
  BY <1>0, <1>h
<1>k. VolumeKept(d) /\ VolumeStage
  BY DEF VolumeInv
<1>n. CopyNames(pc[Pass], d, Rt)
  BY <1>0, <1>d, <1>h DEF VolumeInv, LeakInv, Dep, Rt
<1>1. CASE SuspendRelease \/ ResumeUndo \/ ResumeGiveBack \/ TellSuspended
  <2>1. /\ \/ pc'[Pass] = "susStop" /\ pc[Pass] = "susRelease"
           \/ pc'[Pass] = "resKeep" /\ pc[Pass] = "resUndo"
           \/ pc'[Pass] \in {"resFetch", "next"}
        /\ ((Dep' = d /\ Rt' = Rt) \/ pc'[Pass] = "next")
        /\ OnlyOwn(d) /\ UNCHANGED <<runtimes, volDirs, volRecords, cont>>
    BY <1>0, <1>d, <1>1, PassMoves
    DEF SuspendRelease, ResumeUndo, ResumeGiveBack, TellSuspended, OnlyOwn, pass, docker
  <2>2. VolumeKept(d)'
    BY <1>k, <2>1 DEF VolumeKept
  <2> QED
    BY <1>d, <1>h, <1>k, <2>1, <2>2, HandlerVolumes
<1>2. CASE SuspendStop \/ ResumeStart
  <2>1. /\ pc'[Pass] \in {"susMark", "resMark", "resUndo"} /\ Dep' = d
        /\ UNCHANGED <<runtimes, volDirs, volRecords, runs>>
        /\ pc[Pass] \in {"susStop", "resStart"}
    BY <1>0, <1>d, <1>2, PassMoves DEF SuspendStop, ResumeStart, pass
  <2>2. Kind[d] = "pod" => Rt'.cid = Rt.cid
    <3>1. CASE SuspendStop
      <4>1. Rt' = SuspendedRecord(Rt)
        BY <1>0, <3>1, PassMoves DEF SuspendStop
      <4>2. PICK v \in Record : v = With(Rt, "suspended") /\ v.cid = Rt.cid
        BY <1>h, RecordTypes, WithFields DEF Statuses
      <4>3. Rt' = [v EXCEPT !.cid = IF Kind[Dep] = "inference" THEN 0 ELSE @]
        BY <4>1, <4>2 DEF SuspendedRecord
      <4> QED
        BY <1>d, <4>2, <4>3 DEF Record
    <3>2. CASE ResumeStart
      BY <1>0, <1>h, <3>2, PassMoves, WithFields DEF ResumeStart
    <3> QED
      BY <1>2, <3>1, <3>2
  <2>3. OnlyOwn(d)
    <3>1. \A e \in Deployments : e # d => cont'[e] = cont[e]
      <4>1. CASE SuspendStop
        BY <1>0, <1>d, <4>1 DEF SuspendStop, PauseContainer, RemoveContainer
      <4>2. CASE ResumeStart
        BY <1>0, <1>d, <4>2 DEF ResumeStart
      <4> QED
        BY <1>2, <4>1, <4>2
    <3> QED
      BY <2>1, <3>1 DEF OnlyOwn
  <2>4. cont'[d].st # "none" => cont[d].st # "none" /\ cont'[d].id = cont[d].id
    <3>1. runs'[d] = runs[d] /\ runs[d] \in Nat
      BY <1>0, <2>1
    <3> QED
      BY <3>1 DEF DockerStep, NoContainer
  <2>5. VolumeKept(d)'
    BY <1>k, <2>1, <2>4 DEF VolumeKept
  <2> QED
    BY <1>d, <1>h, <1>k, <2>1, <2>2, <2>3, <2>5, HandlerVolumes
<1>3. CASE SuspendMark \/ ResumeMark \/ ResumeKeep
  <2>1. /\ pc'[Pass] \in {"tellSuspended", "tellReady", "next"} /\ (Dep' = d \/ pc'[Pass] = "next")
        /\ OnlyOwn(d) /\ runtimes'[d].cid = Rt.cid
        /\ UNCHANGED <<volDirs, volRecords, cont>>
    BY <1>0, <1>d, <1>h, <1>3, PassMoves, WithFields
    DEF SuspendMark, ResumeMark, ResumeKeep, Upsert, OnlyOwn, pass, docker
  <2>2. VolumeKept(d)'
    BY <1>d, <1>k, <1>3, <2>1 DEF SuspendMark, ResumeMark, ResumeKeep, VolumeKept
  <2> QED
    BY <1>d, <1>h, <2>1, <2>2, HandlerVolumes
<1>4. CASE ResumeAllocate
  <2>1. /\ \/ pc'[Pass] = "next"
           \/ /\ pc'[Pass] \in {"resStart", "resGiveBack"} /\ Dep' = d
              /\ Rt' = Rt \/ \E c : Rt' = [Rt EXCEPT !.devs = c]
        /\ OnlyOwn(d) /\ UNCHANGED <<runtimes, volDirs, volRecords, cont>>
    BY <1>0, <1>d, <1>4, PassMoves DEF ResumeAllocate, OnlyOwn, pass, docker, plan
  <2>2. pc'[Pass] # "next" => Rt'.cid = Rt.cid
    BY <1>h, <2>1 DEF Record
  <2>3. VolumeKept(d)'
    BY <1>k, <2>1 DEF VolumeKept
  <2> QED
    BY <1>d, <1>h, <1>k, <1>4, <2>1, <2>2, <2>3, HandlerVolumes DEF ResumeAllocate
<1>5. CASE ResumeFetch
  <2>1. /\ \/ pc'[Pass] = "next"
           \/ pc'[Pass] = "allocate" /\ Dep' = d /\ runtimes'[d].status = "accepted"
        /\ OnlyOwn(d) /\ UNCHANGED <<volDirs, volRecords, cont>>
    BY <1>0, <1>d, <1>h, <1>5, PassMoves, WithFields DEF ResumeFetch, Upsert, OnlyOwn, pass, docker
  <2>2. Kind[d] # "pod"
    BY <1>n, <1>5 DEF ResumeFetch, CopyNames
  <2>3. VolumeKept(d)'
    BY <2>2 DEF VolumeKept
  <2> QED
    BY <1>d, <1>h, <2>1, <2>3, HandlerVolumes
<1> QED
  BY <1>1, <1>2, <1>3, <1>4, <1>5 DEF SuspendStep, ResumeStep

(* The loops of the pass enter a handler with the current record.           *)
LEMMA PassVolumes ==
  ASSUME VolumeInv, PassStep
  PROVE  VolumeStage' /\ \A e \in Deployments : VolumeKept(e)'
<1>0. /\ Ground /\ TypeInv /\ SnapCurrent
      /\ UNCHANGED <<runtimes, volDirs, volRecords, cont>> /\ pc[Pass] \in {"idle", "next"}
  BY GroundTypes
  DEF VolumeInv, LeakInv, PassStep, BeginReconcile, BeginRecovery, BeginOrphans, EndPass, VisitLease,
      VisitOrphan, RecoverRuntime, docker
<1>1. \A e \in Deployments : VolumeKept(e)'
  BY <1>0 DEF VolumeInv, VolumeKept
<1>2. ASSUME NEW l, NEW f, Enter(Pass, l, f),
             \/ l \in {"idle", "next", "dispatch"}
             \/ l \in {"release", "susRelease", "resAlloc"} /\ f.rt = runtimes[f.dep]
      PROVE  VolumeStage'
  <2>1. pc'[Pass] = l /\ Dep' = f.dep /\ Rt' = f.rt
    BY <1>0, <1>2, PassMoves DEF Ground
  <2> QED
    BY <1>0, <1>2, <2>1 DEF VolumeStage, At, SameIdLabels
<1>3. ASSUME UNCHANGED <<pc, call>> PROVE VolumeStage'
  BY <1>0, <1>3 DEF VolumeStage, At, SameIdLabels
<1>4. CASE BeginReconcile \/ EndPass
  BY <1>1, <1>2, <1>4 DEF BeginReconcile, EndPass, Return
<1>5. CASE BeginRecovery
  BY <1>1, <1>2, <1>5 DEF BeginRecovery, Return
<1>6. CASE BeginOrphans
  BY <1>1, <1>3, <1>6 DEF BeginOrphans, threads
<1>7. ASSUME NEW d \in Deployments, VisitLease(d) PROVE VolumeStage'
  <2>1. \A rep, th : Frame(d, runtimes[d], rep, th).dep = d /\ Frame(d, runtimes[d], rep, th).rt = runtimes[d]
    BY DEF Frame
  <2>2. \/ UNCHANGED <<pc, call>>
        \/ \E l \in {"release", "susRelease", "resAlloc", "dispatch"} : \E th :
             Enter(Pass, l, Frame(d, runtimes[d], FALSE, th))
    BY <1>7 DEF VisitLease, threads
  <2> QED
    BY <1>2, <1>3, <2>1, <2>2
<1>8. ASSUME NEW d \in Deployments, VisitOrphan(d) \/ RecoverRuntime(d) PROVE VolumeStage'
  <2>1. snap[d] = runtimes[d]
    BY <1>0, <1>8 DEF VisitOrphan, RecoverRuntime, SnapCurrent
  <2>2. \A rep, th : Frame(d, snap[d], rep, th).dep = d /\ Frame(d, snap[d], rep, th).rt = runtimes[d]
    BY <2>1 DEF Frame
  <2>3. (\E rep, th : Enter(Pass, "release", Frame(d, snap[d], rep, th))) \/ UNCHANGED <<pc, call>>
    BY <1>8 DEF VisitOrphan, RecoverRuntime, threads
  <2> QED
    BY <1>2, <1>3, <2>2, <2>3
<1> QED
  BY <1>1, <1>4, <1>5, <1>6, <1>7, <1>8 DEF PassStep

(* VolumeInv is inductive.                                                  *)
LEMMA VolumeInductive == ASSUME Routes = {} PROVE VolumeInv /\ [Next]_vars => VolumeInv'
<1> SUFFICES ASSUME VolumeInv, [Next]_vars PROVE VolumeInv'
  OBVIOUS
<1>1. LeakInv /\ LeakInv' /\ ~Spend("rm") /\ Pass \in Actors /\ \A e \in Deployments : DockerStep(e)
  BY LeakInductive, DockerSteps DEF VolumeInv, LeakInv, Spend, Actors
<1>2. VolumeStage' /\ \A e \in Deployments : VolumeKept(e)'
  <2>1. CASE Restart
    <3>1. pc'[Pass] = "idle" /\ volRecords' = {} /\ UNCHANGED <<volDirs, cont>>
      BY <1>1, <2>1 DEF Restart, docker
    <3> QED
      BY <3>1 DEF VolumeStage, At, SameIdLabels, VolumeKept, VolumeInv
  <2>2. CASE UNCHANGED vars \/ Probing \/ ControlPlane \/ \E g \in Devices : Squat(g)
    <3>1. UNCHANGED <<runtimes, volRecords, volDirs, pc, call, cont>>
      BY <2>2, ProbingReads
      DEF vars, threads, pass, docker, ControlPlane, Outage, Reconnect, CreateLease, SuspendLease,
                  ResumeLease, MoveLease, EndLease, Squat, agent
    <3>2. Dep' = Dep /\ Rt' = Rt
      BY <3>1 DEF Dep, Rt
    <3> QED
      BY <3>1, <3>2 DEF VolumeInv, VolumeStage, At, VolumeKept
  <2> QED
    BY <1>1, <2>1, <2>2, OnlyThePass, TeardownVolumes, StartVolumes, PauseVolumes, PassVolumes DEF Next
<1>3. SnapCurrent'
  BY SnapshotStays DEF VolumeInv, LeakInv
<1> QED
  BY <1>1, <1>2, <1>3 DEF VolumeInv

(* The volume a pod's container mounts is there as long as the container:   *)
(* also for a container left behind by a process that died, when its        *)
(* deployment is started, recovered or torn down by the next one.           *)
THEOREM PodHasVolumeHolds ==
  ASSUME Routes = {}, RemovalsWork
  PROVE  Spec => []PodHasVolume
<1>1. Init => VolumeInv
  <2> SUFFICES ASSUME Init PROVE VolumeInv
    OBVIOUS
  <2>1. LeakInv
    BY InitLeak
  <2>2. VolumeStage /\ SnapCurrent /\ \A d \in Deployments : VolumeKept(d)
    BY DEF Init, VolumeStage, At, SameIdLabels, SnapCurrent, VolumeKept, NoContainer, Actors
  <2> QED
    BY <2>1, <2>2 DEF VolumeInv
<1>2. VolumeInv => PodHasVolume
  BY DEF VolumeInv, VolumeKept, PodHasVolume
<1> QED
  BY <1>1, <1>2, VolumeInductive, PTL DEF Spec

-----------------------------------------------------------------------------
(* Until the process dies, whatever docker does. A record that says accepted *)
(* or starting is in the hands of its start, which ends in ready or failed. *)

NoDeath == Routes = {} /\ Budget["crash"] = 0

StartingLabels == {"allocate", "prepare", "markStarting", "run", "markReady", "failRelease", "failMark"}
StartsInHand ==
  \A d \in Deployments :
    runtimes[d].status \in {"accepted", "starting"} => d = Dep /\ At(StartingLabels)

(* What a handler leaves behind: its record as it was, one that is neither  *)
(* accepted nor starting, or one that its start goes on with.               *)
LEMMA HandlerStarts ==
  ASSUME TypeInv, CopyStage, StartsInHand, HandlerMove(Pass)
  PROVE  StartsInHand'
<1> USE DEF At, StartingLabels, Core
<1> DEFINE AtRestNow == runtimes'[Dep].status \notin {"accepted", "starting"}
           Working(l) == Dep' = Dep /\ l \in StartingLabels
<1>0. Core /\ Pass \in Actors /\ InHandler(Pass) /\ Dep \in Deployments /\ Rt \in Record
  BY CoreTypes, HandlerFrames
<1>d. Dep = call[Pass].dep /\ Rt = call[Pass].rt
  BY DEF Dep, Rt
<1>1. \A e \in Deployments : e # Dep => runtimes'[e] = runtimes[e] /\ runtimes[e].status \notin {"accepted", "starting"}
  BY <1>0, <1>d, HandlerFrames DEF StartsInHand
<1>2. AtRestNow \/ Working(pc'[Pass])
  <2>1. CASE Teardown(Pass)
    <3>1. runtimes' = runtimes \/ AtRestNow
      <4>1. CASE TerminateMark(Pass)
        BY <1>0, <1>d, <4>1, WithFields DEF TerminateMark, Upsert
      <4>2. CASE RemoveRuntime(Pass)
        BY <1>0, <1>d, <4>2 DEF RemoveRuntime, Upsert, NoRecord
      <4> QED
        BY <2>1, <4>1, <4>2 DEF Teardown, TerminateRelease, TerminateStop, TerminateVolume, TellTerminated
    <3>2. pc[Pass] \notin StartingLabels
      BY <2>1
      DEF Teardown, TerminateRelease, TerminateStop, TerminateVolume, TerminateMark, TellTerminated, RemoveRuntime
    <3> QED
      BY <1>0, <3>1, <3>2 DEF StartsInHand
  <2>2. CASE DispatchFails \/ TellReady \/ TellFailed
    BY <1>0, <2>2 DEF DispatchFails, TellReady, TellFailed, StartsInHand
  <2>3. CASE DispatchAccepts \/ MarkStarting
    BY <1>0, <2>3, PassMoves DEF DispatchAccepts, MarkStarting
  <2>4. CASE AllocateGpus
    <3>1. \E l \in StartingLabels : Goto(Pass, l) \/ \E r : GotoRt(Pass, l, r)
      BY <2>4 DEF AllocateGpus
    <3> QED
      BY <1>0, <3>1, PassMoves
  <2>5. CASE CreateVolume \/ StageArtifact
    <3>1. \E l \in StartingLabels : Goto(Pass, l) \/ \E r : GotoRt(Pass, l, r)
      BY <2>5 DEF CreateVolume, StageArtifact
    <3> QED
      BY <1>0, <3>1, PassMoves
  <2>6. CASE RunOk \/ RunFails \/ FailRelease
    <3>1. \E l \in StartingLabels : Goto(Pass, l) \/ \E r : GotoRt(Pass, l, r)
      BY <2>6 DEF RunOk, RunFails, FailRelease
    <3> QED
      BY <1>0, <3>1, PassMoves
  <2>7. CASE MarkReady \/ FailMark
    BY <1>0, <2>7, WithFields DEF MarkReady, FailMark, Upsert
  <2>8. CASE SuspendStep
    <3>1. runtimes' = runtimes \/ (pc[Pass] = "susMark" /\ runtimes'[Dep] = Rt)
      BY <1>0, <2>8
      DEF SuspendStep, SuspendRelease, SuspendStop, SuspendMark, TellSuspended, Upsert
    <3>2. pc[Pass] \notin StartingLabels
      BY <2>8 DEF SuspendStep, SuspendRelease, SuspendStop, SuspendMark, TellSuspended
    <3> QED
      BY <1>0, <3>1, <3>2 DEF StartsInHand, CopyStage
  <2>9. CASE ResumeStep
    <3>1. \/ runtimes' = runtimes
          \/ pc[Pass] = "resMark" /\ runtimes'[Dep] = Rt
          \/ ResumeKeep
          \/ ResumeFetch /\ GotoRt(Pass, "allocate", With(Rt, "accepted"))
      BY <1>0, <2>9
      DEF ResumeStep, ResumeAllocate, ResumeStart, ResumeMark, ResumeUndo, ResumeGiveBack, ResumeFetch, Upsert
    <3>2. pc[Pass] \notin StartingLabels
      BY <2>9
      DEF ResumeStep, ResumeAllocate, ResumeStart, ResumeMark, ResumeUndo, ResumeKeep, ResumeGiveBack, ResumeFetch
    <3>3. CASE ResumeKeep
      BY <1>0, <3>3, WithFields DEF ResumeKeep, Upsert
    <3>4. CASE ResumeFetch /\ GotoRt(Pass, "allocate", With(Rt, "accepted"))
      BY <1>0, <3>4, PassMoves
    <3> QED
      BY <1>0, <3>1, <3>2, <3>3, <3>4 DEF StartsInHand, CopyStage
  <2> QED
    BY <2>1, <2>2, <2>3, <2>4, <2>5, <2>6, <2>7, <2>8, <2>9 DEF HandlerMove, StartStep
<1> QED
  BY <1>1, <1>2 DEF StartsInHand

LEMMA StartsInductive ==
  ASSUME Routes = {}, TypeInv, CopyStage, StartsInHand, ~Restart, [Next]_vars
  PROVE  StartsInHand'
<1>1. CASE HandlerMove(Pass)
  BY <1>1, HandlerStarts
<1>2. CASE PassStep
  <2>1. UNCHANGED runtimes /\ pc[Pass] \in {"idle", "next"}
    BY <1>2
    DEF PassStep, BeginReconcile, BeginRecovery, BeginOrphans, EndPass, VisitLease, VisitOrphan, RecoverRuntime
  <2> QED
    BY <2>1 DEF StartsInHand, At, StartingLabels
<1>3. CASE Probing \/ ControlPlane \/ (\E g \in Devices : Squat(g)) \/ UNCHANGED vars
  BY <1>3, ProbingReads
  DEF ControlPlane, Outage, Reconnect, CreateLease, SuspendLease, ResumeLease, MoveLease, EndLease, Squat,
      agent, threads, vars, StartsInHand, At, Dep
<1> QED
  BY <1>1, <1>2, <1>3, OnlyThePass DEF Next, HandlerMove

(* The inductive invariant so far.                                          *)
AliveInv == TypeInv /\ ServeInv /\ NoOverlapInv /\ StartsInHand /\ budget["crash"] = 0

LEMMA InitAlive == ASSUME NoDeath PROVE Init => AliveInv
<1>1. Init => StartsInHand /\ budget["crash"] = 0
  BY DEF Init, StartsInHand, NoRecord, NoDeath, Faults
<1> QED
  BY <1>1, InitTypeInv, InitServe, InitNoOverlap DEF AliveInv

LEMMA AliveInductive ==
  ASSUME NoDeath, AliveInv, [Next]_vars
  PROVE  AliveInv' /\ ~Restart
<1>1. Routes = {} /\ TypeInv /\ CopyStage
  BY DEF AliveInv, ServeInv, NoDeath
<1>2. TypeInv' /\ ServeInv' /\ NoOverlapInv'
  BY <1>1, TypeInvInductive, ServeInductive, NoOverlapInductive DEF AliveInv
<1>3. budget'["crash"] = 0 /\ ~Restart
  BY <1>1, <1>2, BudgetOnlyShrinks DEF AliveInv, TypeInv, AgentTypeOK, Faults
<1> QED
  BY <1>1, <1>2, <1>3, StartsInductive DEF AliveInv

-----------------------------------------------------------------------------
(* So ready stays true of docker while its commands fail: a record is made  *)
(* ready only over the container just run or started.                       *)

HasId(d, r) == Kind[d] = "pod" => r.cid # 0
IsUp(d, r)  == Kind[d] # "vm" => cont[d].st = "running" /\ cont[d].id = r.cid

(* A pod that can be resumed names its container, or the resume would       *)
(* report ready without any docker call.                                    *)
UpHere(d) ==
  /\ runtimes[d].status \in {"ready", "suspended"} => HasId(d, runtimes[d])
  /\ runtimes[d].status = "ready" => IsUp(d, runtimes[d]) \/ DownHere(d)

IdLabels ==
  {"markReady", "susRelease", "susStop", "susMark", "resAlloc", "resStart", "resMark", "resUndo", "resKeep"}
UpStage ==
  /\ At(IdLabels) => HasId(Dep, Rt)
  /\ At({"resStart", "resMark", "resUndo", "resKeep"}) => Kind[Dep] = "pod"
  /\ At({"markReady", "resMark"}) => IsUp(Dep, Rt)

UpInv == AliveInv /\ UpStage /\ \A d \in Deployments : UpHere(d)

(* A handler disturbs only the container of its deployment.                 *)
LEMMA UpElsewhere ==
  ASSUME UpInv, HandlerMove(Pass), NEW d \in Deployments, d = Dep, UpHere(d)',
         \A e \in Deployments : e # d => cont'[e] = cont[e]
  PROVE  \A e \in Deployments : UpHere(e)'
<1>1. Dep = call[Pass].dep /\ (Dep' = Dep \/ ~InHandler(Pass)')
  BY CoreTypes, HandlerFrames DEF UpInv, AliveInv, Stays, Dep
<1>2. ASSUME NEW e \in Deployments, e # d PROVE UpHere(e)'
  <2>1. runtimes'[e] = runtimes[e] /\ cont'[e] = cont[e] /\ UpHere(e)
    BY <1>1, <1>2, CoreTypes, HandlerFrames DEF UpInv, AliveInv
  <2>2. ~DownHere(e)
    BY <1>2 DEF DownHere
  <2> QED
    BY <2>1, <2>2 DEF UpHere, HasId, IsUp
<1> QED
  BY <1>2

LEMMA TeardownUp ==
  ASSUME UpInv, Teardown(Pass)
  PROVE  UpStage' /\ \A e \in Deployments : UpHere(e)'
<1> USE DEF At, IdLabels
<1>0. Ground /\ InHandler(Pass) /\ HandlerMove(Pass) /\ Dep \in Deployments
  <2>1. HandlerMove(Pass) /\ Ground /\ Pass \in Actors /\ TypeInv
    BY GroundTypes DEF HandlerMove, UpInv, AliveInv, Ground
  <2> QED
    BY <2>1, HandlerFrames DEF Ground
<1> PICK d \in Deployments : d = Dep
  BY <1>0
<1>d. Dep = call[Pass].dep /\ Rt = call[Pass].rt /\ UpHere(d)
  BY DEF Dep, Rt, UpInv
<1>1. \A e \in Deployments : e # d => cont'[e] = cont[e]
  BY <1>0, <1>d
  DEF Teardown, TerminateRelease, TerminateStop, TerminateVolume, TerminateMark, TellTerminated, RemoveRuntime,
      RemoveContainer, Ground, docker
<1>2. CASE TerminateRelease(Pass) \/ TerminateStop(Pass) \/ TerminateVolume(Pass)
  <2>1. pc'[Pass] \in {"stop", "volume", "mark"} /\ Dep' = Dep /\ UNCHANGED runtimes
    BY <1>0, <1>d, <1>2, PassMoves DEF TerminateRelease, TerminateStop, TerminateVolume, Ground
  <2>2. UpHere(d)'
    BY <1>0, <1>d, <2>1 DEF UpHere, HasId, DownHere, Down
  <2> QED
    BY <1>0, <1>1, <2>1, <2>2, UpElsewhere DEF UpStage
<1>3. CASE TerminateMark(Pass)
  <2>1. pc'[Pass] \in {"tellTerminated", "remove", "next"} /\ runtimes'[d].status = "terminated"
    BY <1>0, <1>d, <1>3, PassMoves, WithFields DEF TerminateMark, AfterTeardown, Upsert, Ground, Core
  <2>2. UpHere(d)'
    BY <2>1 DEF UpHere
  <2> QED
    BY <1>0, <1>1, <2>1, <2>2, UpElsewhere DEF UpStage
<1>4. CASE TellTerminated(Pass)
  <2>1. /\ pc'[Pass] \in {"remove", "next"} /\ pc[Pass] = "tellTerminated"
        /\ UNCHANGED <<runtimes, cont>>
    BY <1>0, <1>d, <1>4, PassMoves DEF TellTerminated, AfterTeardown, Ground, docker
  <2>2. ASSUME NEW e \in Deployments, UpHere(e) PROVE UpHere(e)'
    BY <2>1, <2>2 DEF UpHere, HasId, IsUp, DownHere, Down
  <2> QED
    BY <2>1, <2>2 DEF UpStage, UpInv
<1>5. CASE RemoveRuntime(Pass)
  <2>1. pc'[Pass] \in {"dispatch", "next"} /\ runtimes'[d].status = "none"
    BY <1>0, <1>d, <1>5, PassMoves DEF RemoveRuntime, Upsert, Ground, Core, NoRecord
  <2>2. UpHere(d)'
    BY <2>1 DEF UpHere
  <2> QED
    BY <1>0, <1>1, <2>1, <2>2, UpElsewhere DEF UpStage
<1> QED
  BY <1>2, <1>3, <1>4, <1>5 DEF Teardown

LEMMA StartUp ==
  ASSUME UpInv, StartStep
  PROVE  UpStage' /\ \A e \in Deployments : UpHere(e)'
<1> USE DEF At, IdLabels
<1>0. Ground /\ InHandler(Pass) /\ HandlerMove(Pass) /\ Dep \in Deployments /\ Rt \in Record
  <2>1. HandlerMove(Pass) /\ Ground /\ Pass \in Actors /\ TypeInv
    BY GroundTypes DEF HandlerMove, UpInv, AliveInv, Ground
  <2> QED
    BY <2>1, HandlerFrames DEF Ground
<1> PICK d \in Deployments : d = Dep
  BY <1>0
<1>d. UpHere(d) /\ UpStage /\ NotReadyStage /\ CopyStage
  BY DEF UpInv, AliveInv, ServeInv
<1>1. \A e \in Deployments : e # d => cont'[e] = cont[e]
  BY <1>0
  DEF StartStep, DispatchFails, DispatchAccepts, AllocateGpus, CreateVolume, StageArtifact, MarkStarting,
      RunOk, RunFails, MarkReady, TellReady, FailRelease, FailMark, TellFailed, Ground, docker
<1> DEFINE Others == StartLabels \cup FailLabels \cup {"next"}
<1>2. ASSUME pc'[Pass] \in Others \ {"markReady"}, UpHere(d)'
      PROVE  UpStage' /\ \A e \in Deployments : UpHere(e)'
  BY <1>0, <1>1, <1>2, UpElsewhere DEF UpStage, StartLabels, FailLabels
<1>3. ASSUME UNCHANGED runtimes, pc[Pass] \in NotReadyLabels PROVE UpHere(d)'
  BY <1>0, <1>d, <1>3 DEF NotReadyStage, UpHere, HasId
<1>4. CASE DispatchFails \/ FailRelease \/ RunFails
  <2>1. pc'[Pass] \in {"tellFailed", "failMark", "failRelease"} /\ UNCHANGED runtimes /\ pc[Pass] \in NotReadyLabels
    BY <1>0, <1>4, PassMoves DEF DispatchFails, FailRelease, RunFails, Ground, NotReadyLabels
  <2> QED
    BY <1>2, <1>3, <2>1 DEF StartLabels, FailLabels
<1>5. CASE DispatchAccepts \/ MarkStarting \/ FailMark
  <2>1. /\ pc'[Pass] \in {"allocate", "run", "tellFailed"}
        /\ runtimes'[d].status \in {"accepted", "starting", "failed"}
    BY <1>0, <1>5, PassMoves, WithFields, RecordTypes
    DEF DispatchAccepts, MarkStarting, FailMark, Upsert, Ground, Core
  <2>2. UpHere(d)'
    BY <2>1 DEF UpHere
  <2> QED
    BY <1>2, <2>1, <2>2 DEF StartLabels, FailLabels
<1>6. CASE AllocateGpus \/ CreateVolume \/ StageArtifact
  <2>1. /\ \E l \in {"prepare", "markStarting", "failRelease"} : Goto(Pass, l) \/ \E r : GotoRt(Pass, l, r)
        /\ UNCHANGED runtimes /\ pc[Pass] \in NotReadyLabels
    BY <1>6 DEF AllocateGpus, CreateVolume, StageArtifact, NotReadyLabels
  <2>2. pc'[Pass] \in {"prepare", "markStarting", "failRelease"}
    BY <1>0, <2>1, PassMoves DEF Ground
  <2> QED
    BY <1>2, <1>3, <2>1, <2>2 DEF StartLabels, FailLabels
<1>7. CASE RunOk
  <2>1. /\ pc'[Pass] = "markReady" /\ Dep' = d /\ Rt'.cid = runs[d] + 1 /\ runs[d] \in Nat
        /\ UNCHANGED runtimes /\ pc[Pass] \in NotReadyLabels
        /\ Kind[d] # "vm" => cont'[d].st = "running" /\ cont'[d].id = runs[d] + 1
    BY <1>0, <1>7, PassMoves DEF RunOk, NewContainer, Ground, NotReadyLabels, Record
  <2>2. UpStage'
    BY <2>1 DEF UpStage, HasId, IsUp
  <2> QED
    BY <1>0, <1>1, <1>3, <2>1, <2>2, UpElsewhere
<1>8. CASE MarkReady
  <2>1. /\ pc'[Pass] = "tellReady" /\ runtimes'[d] = With(Rt, "ready") /\ UNCHANGED cont
        /\ HasId(d, Rt) /\ IsUp(d, Rt)
    BY <1>0, <1>d, <1>8, PassMoves DEF MarkReady, Upsert, Ground, Core, UpStage, docker
  <2>2. UpHere(d)'
    BY <1>0, <2>1, WithFields DEF UpHere, HasId, IsUp
  <2> QED
    BY <1>2, <2>1, <2>2 DEF StartLabels, FailLabels
<1>9. CASE TellReady \/ TellFailed
  <2>1. /\ pc'[Pass] = "next" /\ UNCHANGED <<runtimes, cont>> /\ pc[Pass] \in {"tellReady", "tellFailed"}
    BY <1>0, <1>9, PassMoves DEF TellReady, TellFailed, Ground, docker
  <2>2. UpHere(d)'
    BY <1>d, <2>1 DEF UpHere, HasId, IsUp, DownHere, Down
  <2> QED
    BY <1>2, <2>1, <2>2
<1> QED
  BY <1>4, <1>5, <1>6, <1>7, <1>8, <1>9 DEF StartStep

LEMMA PauseUp ==
  ASSUME UpInv, SuspendStep \/ ResumeStep
  PROVE  UpStage' /\ \A e \in Deployments : UpHere(e)'
<1> USE DEF At, IdLabels
<1>0. Ground /\ InHandler(Pass) /\ HandlerMove(Pass) /\ Dep \in Deployments /\ Rt \in Record
  <2>1. HandlerMove(Pass) /\ Ground /\ Pass \in Actors /\ TypeInv
    BY GroundTypes DEF HandlerMove, UpInv, AliveInv, Ground
  <2> QED
    BY <2>1, HandlerFrames DEF Ground
<1> PICK d \in Deployments : d = Dep
  BY <1>0
<1>d. UpHere(d) /\ UpStage /\ NotReadyStage /\ CopyStage
  BY DEF UpInv, AliveInv, ServeInv
<1>1. \A e \in Deployments : e # d => cont'[e] = cont[e]
  <2>1. CASE SuspendStep
    BY <1>0, <2>1
    DEF SuspendStep, SuspendRelease, SuspendStop, SuspendMark, TellSuspended, PauseContainer, RemoveContainer,
        Ground, docker
  <2>2. CASE ResumeStep
    BY <1>0, <2>2
    DEF ResumeStep, ResumeAllocate, ResumeStart, ResumeMark, ResumeUndo, ResumeKeep, ResumeGiveBack,
        ResumeFetch, Ground, docker
  <2> QED
    BY <2>1, <2>2
<1>2. ASSUME UpStage', UpHere(d)' PROVE UpStage' /\ \A e \in Deployments : UpHere(e)'
  BY <1>0, <1>1, <1>2, UpElsewhere
<1>3. ASSUME UNCHANGED runtimes, pc[Pass] \in NotReadyLabels PROVE UpHere(d)'
  BY <1>0, <1>d, <1>3 DEF NotReadyStage, UpHere, HasId
<1>4. CASE SuspendRelease
  <2>1. pc'[Pass] = "susStop" /\ Dep' = d /\ Rt' = Rt /\ HasId(d, Rt) /\ UNCHANGED runtimes
    BY <1>0, <1>d, <1>4, PassMoves DEF SuspendRelease, Ground, UpStage
  <2> QED
    BY <1>2, <1>d, <2>1 DEF UpStage, UpHere, HasId, DownHere, Down
<1>5. CASE SuspendStop
  <2>1. pc'[Pass] = "susMark" /\ Dep' = d /\ Rt' = SuspendedRecord(Rt) /\ HasId(d, Rt) /\ UNCHANGED runtimes
    BY <1>0, <1>d, <1>5, PassMoves DEF SuspendStop, Ground, UpStage
  <2>2. Kind[d] = "pod" => Rt'.cid = Rt.cid
    BY <1>0, <2>1 DEF SuspendedRecord, With, Record
  <2> QED
    BY <1>2, <1>d, <2>1, <2>2 DEF UpStage, UpHere, HasId, DownHere, Down
<1>6. CASE SuspendMark
  <2>1. /\ pc'[Pass] = "tellSuspended" /\ runtimes'[d] = Rt /\ Rt.status = "suspended" /\ HasId(d, Rt)
    BY <1>0, <1>d, <1>6, PassMoves DEF SuspendMark, Upsert, Ground, Core, UpStage, CopyStage
  <2> QED
    BY <1>2, <2>1 DEF UpStage, UpHere, HasId
<1>7. CASE TellSuspended
  <2>1. /\ pc'[Pass] = "next" /\ UNCHANGED <<runtimes, cont>> /\ pc[Pass] = "tellSuspended"
    BY <1>0, <1>7, PassMoves DEF TellSuspended, Ground, docker
  <2>2. UpHere(d)'
    BY <1>d, <2>1 DEF UpHere, HasId, IsUp, DownHere, Down
  <2> QED
    BY <1>2, <2>1, <2>2 DEF UpStage
<1>8. CASE ResumeAllocate
  <2>1. UNCHANGED runtimes /\ pc[Pass] \in NotReadyLabels /\ HasId(d, Rt)
    BY <1>d, <1>8 DEF ResumeAllocate, NotReadyLabels, UpStage
  <2>2. \/ Return(Pass)
        \/ \E l, r : /\ GotoRt(Pass, l, r) \/ (Goto(Pass, l) /\ r = Rt)
                     /\ r.cid = Rt.cid
                     /\ l = "resGiveBack" \/ (l = "resStart" /\ Kind[d] = "pod")
    <3>1. \A g : [Rt EXCEPT !.devs = g].cid = Rt.cid
      BY <1>0 DEF Record
    <3> QED
      BY <1>8, <3>1 DEF ResumeAllocate
  <2>3. UpStage'
    <3>1. CASE Return(Pass)
      BY <1>0, <3>1, PassMoves DEF Ground, UpStage
    <3>2. ASSUME NEW l, NEW r, GotoRt(Pass, l, r) \/ (Goto(Pass, l) /\ r = Rt), r.cid = Rt.cid,
                 l = "resGiveBack" \/ (l = "resStart" /\ Kind[d] = "pod")
          PROVE  UpStage'
      <4>1. pc'[Pass] = l /\ Dep' = d /\ Rt' = r
        BY <1>0, <3>2, PassMoves DEF Ground
      <4> QED
        BY <2>1, <3>2, <4>1 DEF UpStage, HasId
    <3> QED
      BY <2>2, <3>1, <3>2
  <2> QED
    BY <1>2, <1>3, <2>1, <2>3
<1>9. CASE ResumeStart
  <2>1. UNCHANGED runtimes /\ pc[Pass] \in NotReadyLabels /\ Kind[d] = "pod" /\ Rt.cid # 0
    BY <1>d, <1>9 DEF ResumeStart, NotReadyLabels, UpStage, HasId
  <2>2. \/ /\ GotoRt(Pass, "resMark", With(Rt, "ready")) /\ cont'[d].st = "running" /\ cont'[d].id = Rt.cid
        \/ Goto(Pass, "resUndo")
    BY <1>0, <1>9, <2>1 DEF ResumeStart, Ground, Container
  <2>3. \/ pc'[Pass] = "resMark" /\ Dep' = d /\ Rt'.cid = Rt.cid /\ cont'[d].st = "running" /\ cont'[d].id = Rt.cid
        \/ pc'[Pass] = "resUndo" /\ Dep' = d /\ Rt' = Rt
    BY <1>0, <2>2, PassMoves, WithFields DEF Ground
  <2>4. UpStage'
    BY <2>1, <2>3 DEF UpStage, HasId, IsUp
  <2> QED
    BY <1>2, <1>3, <2>1, <2>4
<1>10. CASE ResumeMark
  <2>1. /\ pc'[Pass] = "tellReady" /\ runtimes'[d] = Rt /\ UNCHANGED cont /\ HasId(d, Rt) /\ IsUp(d, Rt)
    BY <1>0, <1>d, <1>10, PassMoves DEF ResumeMark, Upsert, Ground, Core, UpStage, docker
  <2> QED
    BY <1>2, <2>1 DEF UpStage, UpHere, HasId, IsUp
<1>11. CASE ResumeUndo
  <2>1. /\ pc'[Pass] = "resKeep" /\ Dep' = d /\ Rt' = Rt /\ HasId(d, Rt) /\ Kind[d] = "pod"
        /\ UNCHANGED runtimes /\ pc[Pass] \in NotReadyLabels
    BY <1>0, <1>d, <1>11, PassMoves DEF ResumeUndo, Ground, UpStage, NotReadyLabels
  <2> QED
    BY <1>2, <1>3, <2>1 DEF UpStage, HasId
<1>12. CASE ResumeKeep
  <2>1. /\ pc'[Pass] = "next" /\ runtimes'[d] = With(Rt, "suspended") /\ HasId(d, Rt)
    BY <1>0, <1>d, <1>12, PassMoves DEF ResumeKeep, Upsert, Ground, Core, UpStage
  <2> QED
    BY <1>0, <1>2, <2>1, WithFields DEF UpStage, UpHere, HasId
<1>13. CASE ResumeGiveBack
  <2>1. pc'[Pass] = "resFetch" /\ UNCHANGED runtimes /\ pc[Pass] \in NotReadyLabels
    BY <1>0, <1>13, PassMoves DEF ResumeGiveBack, Ground, NotReadyLabels
  <2> QED
    BY <1>2, <1>3, <2>1 DEF UpStage
<1>14. CASE ResumeFetch
  <2>1. /\ pc'[Pass] \in {"allocate", "next"} /\ pc[Pass] \in NotReadyLabels
        /\ UNCHANGED runtimes \/ runtimes'[d].status = "accepted"
    BY <1>0, <1>14, PassMoves, WithFields DEF ResumeFetch, Upsert, Ground, Core, NotReadyLabels
  <2>2. UpHere(d)'
    BY <1>3, <2>1 DEF UpHere
  <2> QED
    BY <1>2, <2>1, <2>2 DEF UpStage
<1> QED
  BY <1>4, <1>5, <1>6, <1>7, <1>8, <1>9, <1>10, <1>11, <1>12, <1>13, <1>14 DEF SuspendStep, ResumeStep

(* The loops: nothing is starting when a handler begins, so a suspension    *)
(* begins with a ready record.                                              *)
LEMMA PassUp ==
  ASSUME UpInv, PassStep
  PROVE  UpStage' /\ \A e \in Deployments : UpHere(e)'
<1> USE DEF At, IdLabels
<1>0. Ground /\ UNCHANGED <<runtimes, cont>> /\ pc[Pass] \in {"idle", "next"}
  BY GroundTypes
  DEF UpInv, AliveInv, PassStep, BeginReconcile, BeginRecovery, BeginOrphans, EndPass, VisitLease,
      VisitOrphan, RecoverRuntime, docker
<1>1. \A e \in Deployments : UpHere(e)'
  BY <1>0 DEF UpInv, UpHere, HasId, IsUp, DownHere, Down
<1>2. ASSUME NEW l, NEW f, Enter(Pass, l, f),
             \/ l \in {"idle", "next", "dispatch", "release"}
             \/ l \in {"susRelease", "resAlloc"} /\ HasId(f.dep, f.rt)
      PROVE  UpStage'
  <2>1. pc'[Pass] = l /\ Dep' = f.dep /\ Rt' = f.rt
    BY <1>0, <1>2, PassMoves DEF Ground
  <2> QED
    BY <1>2, <2>1 DEF UpStage, HasId
<1>3. ASSUME UNCHANGED <<pc, call>> PROVE UpStage'
  BY <1>0, <1>3 DEF UpStage
<1>4. CASE BeginReconcile \/ BeginRecovery \/ BeginOrphans \/ EndPass
  <2>1. UNCHANGED <<pc, call>> \/ \E l \in {"next", "idle"} : \E f : Enter(Pass, l, f)
    BY <1>4 DEF BeginReconcile, BeginRecovery, BeginOrphans, EndPass, Return, threads
  <2> QED
    BY <1>1, <1>2, <1>3, <2>1
<1>5. ASSUME NEW d \in Deployments, VisitOrphan(d) \/ RecoverRuntime(d) PROVE UpStage'
  BY <1>2, <1>3, <1>5 DEF VisitOrphan, RecoverRuntime, threads
<1>6. ASSUME NEW d \in Deployments, VisitLease(d) PROVE UpStage'
  <2>1. \A th : Frame(d, runtimes[d], FALSE, th).dep = d /\ Frame(d, runtimes[d], FALSE, th).rt = runtimes[d]
    BY DEF Frame
  <2>2. runtimes[d].status # "starting" /\ UpHere(d)
    BY <1>0 DEF UpInv, AliveInv, StartsInHand, StartingLabels
  <2>3. \/ UNCHANGED <<pc, call>>
        \/ \E l \in {"release", "dispatch"} : \E th : Enter(Pass, l, Frame(d, runtimes[d], FALSE, th))
        \/ /\ \E l \in {"susRelease", "resAlloc"} : \E th : Enter(Pass, l, Frame(d, runtimes[d], FALSE, th))
           /\ HasId(d, runtimes[d])
    BY <1>6, <2>2 DEF VisitLease, Suspendable, UpHere, threads
  <2> QED
    BY <1>2, <1>3, <2>1, <2>3
<1> QED
  BY <1>1, <1>4, <1>5, <1>6 DEF PassStep

(* UpInv is inductive.                                                      *)
LEMMA UpInductive == ASSUME NoDeath PROVE UpInv /\ [Next]_vars => UpInv'
<1> SUFFICES ASSUME UpInv, [Next]_vars PROVE UpInv'
  OBVIOUS
<1>1. AliveInv' /\ ~Restart
  BY AliveInductive DEF UpInv
<1>2. CASE UNCHANGED vars \/ Probing \/ ControlPlane \/ \E g \in Devices : Squat(g)
  <2>1. UNCHANGED <<runtimes, pc, call, cont>>
    BY <1>2, ProbingReads
    DEF vars, threads, docker, ControlPlane, Outage, Reconnect, CreateLease, SuspendLease,
                ResumeLease, MoveLease, EndLease, Squat, agent
  <2>2. Dep' = Dep /\ Rt' = Rt
    BY <2>1 DEF Dep, Rt
  <2> QED
    BY <1>1, <2>1, <2>2 DEF UpInv, UpStage, At, HasId, IsUp, UpHere, DownHere
<1> QED
  BY <1>1, <1>2, OnlyThePass, TeardownUp, StartUp, PauseUp, PassUp DEF Next, UpInv, NoDeath

(* A runtime recorded ready has the container its record names, running,    *)
(* until a teardown or a suspension begins: whichever docker command fails  *)
(* or times out, and also after a resume, as long as the process lives.     *)
THEOREM ReadyIsRunningHolds ==
  ASSUME NoDeath
  PROVE  Spec => []ReadyIsRunning
<1>1. Init => UpInv
  <2> SUFFICES ASSUME Init PROVE UpInv
    OBVIOUS
  <2>1. pc[Pass] = "idle" /\ \A d \in Deployments : runtimes[d] = NoRecord
    BY DEF Init, Actors
  <2> QED
    BY <2>1, InitAlive DEF UpInv, UpStage, At, IdLabels, UpHere, NoRecord
<1>2. UpInv => ReadyIsRunning
  BY OnlyThePass DEF UpInv, UpHere, IsUp, ReadyIsRunning, NoDeath
<1> QED
  BY <1>1, <1>2, UpInductive, PTL DEF Spec

=============================================================================
