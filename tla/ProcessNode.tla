---------------------------- MODULE ProcessNode ----------------------------
(***************************************************************************)
(* Inference served by processes of the agent itself, and what of it        *)
(* survives: the repository keeps records in memory and in one file, which  *)
(* a save replaces as a whole or not at all; the artifact store keeps two   *)
(* things on disk for each deployment; the backend starts a process, waits  *)
(* for its health, and falls back to serving without one.  Cards, terminate *)
(* requests and an unreachable control plane are NodeAgent's.               *)
(***************************************************************************)
EXTENDS Naturals, Sequences, Functions

CONSTANTS
  Deployments, \* inference deployments of this node
  Budgets      \* what may happen to them, and how often: one of these bounds

Events == {"crash", "disk", "slow", "denied", "exit", "busy", "refuse", "unkilled", "suspend"}

ASSUME ProcessNodeAssumption == Budgets \subseteq [Events -> Nat]

VARIABLES
  mem,    \* NodeAgentRepository.runtimes
  file,   \* what the state file holds
  pc, my, \* the pass: its next call, and the locals of the handler it is in
  view,   \* the leases of this pass still to be visited
  proc,   \* the processes started, by pid: whose, and what became of it
  files,  \* the cache directory: staged artifact and runtime directory of each deployment
  lease,  \* control plane
  told,   \* control plane: the state last reported for each deployment
  budget, \* what may still happen
  lost,   \* pids given up at the health check, by a crash or after a kill that failed (history)
  left,   \* deployments whose files could not be deleted (history)
  stale   \* the agent was started again on records that were not true (history)

store == <<mem, file>>
pass  == <<pc, my, view>>
world == <<proc, files, lease, told, budget, lost, left, stale>>
vars  == <<store, pass, world>>

(* pid 0: None. *)
NoRec == [status |-> "none", pid |-> 0, mode |-> "none"]
Nobody == "nobody"
Idle  == [dep |-> Nobody, rt |-> NoRec, new |-> 0, caught |-> FALSE, after |-> "none"]
Both  == {"artifact", "dir"}

Live(p)    == p \in DOMAIN proc /\ proc[p].st \in {"booting", "serving"}
Running(p) == p \in DOMAIN proc /\ proc[p].st \in {"booting", "serving", "dying"}

SpendAll(E) ==
  /\ \A e \in E : budget[e] > 0
  /\ budget' = [e \in Events |-> IF e \in E THEN budget[e] - 1 ELSE budget[e]]
Spend(e) == SpendAll({e})

Goto(l) == pc' = l /\ UNCHANGED <<my, view>>
Leave   == pc' = "next" /\ my' = Idle /\ UNCHANGED view
Handle(d, l, r) == pc' = l /\ my' = [Idle EXCEPT !.dep = d, !.rt = r]

-----------------------------------------------------------------------------
(* Exceptions that leave a handler. Those of a dispatch are caught, and the *)
(* deployment reported as failed; any other ends the pass.                  *)
Raise ==
  IF my.caught
    THEN told' = [told EXCEPT ![my.dep] = "failed"] /\ Leave
    ELSE pc' = "idle" /\ my' = Idle /\ view' = [d \in Deployments |-> "done"] /\ UNCHANGED told

(* upsert_runtime and remove_runtime: the record in memory, then the whole  *)
(* of memory into the file. A save that fails leaves the file as it was.    *)
Swallowed(l, m) == pc' = l /\ my' = m /\ UNCHANGED <<view, told>>
Unsaved(l, m) == Raise
Upsert(r, l, m) ==
  /\ mem' = [mem EXCEPT ![my.dep] = r]
  /\ \/ /\ file' = mem'
        /\ pc' = l /\ my' = m
        /\ UNCHANGED <<view, told, budget>>
     \/ /\ Spend("disk")
        /\ Unsaved(l, m)
        /\ UNCHANGED file
  /\ UNCHANGED <<proc, files, lease, lost, left, stale>>

Record(r, l) == Upsert(r, l, [my EXCEPT !.rt = r])

-----------------------------------------------------------------------------
BeginPass ==
  /\ pc = "idle"
  /\ view' = [d \in Deployments |-> IF lease[d] = "none" THEN "done" ELSE lease[d]]
  /\ pc' = "next"
  /\ UNCHANGED <<store, my, world>>

Leases == {d \in Deployments : view[d] \in {"active", "suspended"}}
Gone   == {d \in Deployments : view[d] = "ended"}

Dispatches(d) == view[d] = "active" /\ mem[d].status = "none"
Retries(d)    == view[d] = "active" /\ mem[d].status \in {"accepted", "starting"}
Resumes(d)    == view[d] = "active" /\ mem[d].status = "suspended"
Suspends(d)   == view[d] = "suspended" /\ mem[d].status \in {"ready", "starting"}
TearsDownUnready(d) == view[d] = "ended" /\ mem[d].status \notin {"none", "terminated", "ready"}
TearsDown(d)  == view[d] = "ended" /\ mem[d].status \notin {"none", "terminated"}

Visit(d) ==
  /\ pc = "next" /\ d \in Leases \cup (IF Leases = {} THEN Gone ELSE {})
  /\ view' = [view EXCEPT ![d] = "done"]
  /\ \/ Dispatches(d) /\ pc' = "accept" /\ my' = [Idle EXCEPT !.dep = d, !.caught = TRUE]
     \/ Retries(d) /\ pc' = "stop" /\ my' = [Idle EXCEPT !.dep = d, !.rt = mem[d], !.after = "retry"]
     \/ Resumes(d) /\ Handle(d, "accept", mem[d])
     \/ Suspends(d) /\ Handle(d, "pause", mem[d])
     \/ TearsDown(d) /\ Handle(d, "stop", mem[d])
     \/ ~(Dispatches(d) \/ Retries(d) \/ Resumes(d) \/ Suspends(d) \/ TearsDown(d)) /\ UNCHANGED <<pc, my>>
  /\ UNCHANGED <<store, world>>

EndPass ==
  /\ pc = "next" /\ Leases \cup Gone = {}
  /\ Goto("idle")
  /\ UNCHANGED <<store, world>>

-----------------------------------------------------------------------------
(* _start_inference_runtime. A resumed record keeps its fields, a new one   *)
(* has none.                                                                *)
Accept ==
  /\ pc = "accept"
  /\ Record([my.rt EXCEPT !.status = "accepted"], "stage")

StageArtifact ==
  /\ pc = "stage"
  /\ \/ /\ files' = [files EXCEPT ![my.dep] = Both]
        /\ Goto("markStarting")
        /\ UNCHANGED <<told, budget>>
     \/ Spend("refuse") /\ Goto("fail") /\ UNCHANGED <<files, told>>
     \/ /\ Spend("disk") /\ Raise
        /\ \E got \in {{}, {"artifact"}} : files' = [files EXCEPT ![my.dep] = @ \cup got]
  /\ UNCHANGED <<store, proc, lease, lost, left, stale>>

MarkStarting ==
  /\ pc = "markStarting"
  /\ Record([my.rt EXCEPT !.status = "starting", !.mode = "process"], "popen")

(* _start_process_runtime: a record that names a living process is served   *)
(* by it; else a new one is started. A refusal falls back.                  *)
StartProcess ==
  /\ pc = "popen"
  /\ \/ /\ Running(my.rt.pid)
        /\ pc' = "markReady" /\ my' = [my EXCEPT !.new = my.rt.pid]
        /\ UNCHANGED <<view, proc, told, budget>>
     \/ /\ ~Running(my.rt.pid)
        /\ proc' = Append(proc, [dep |-> my.dep, st |-> "booting"])
        /\ pc' = "health" /\ my' = [my EXCEPT !.new = Len(proc')]
        /\ UNCHANGED <<view, told, budget>>
     \/ ~Running(my.rt.pid) /\ Spend("denied") /\ Goto("fallback") /\ UNCHANGED <<proc, told>>
     \/ ~Running(my.rt.pid) /\ Spend("disk") /\ Raise /\ UNCHANGED proc
  /\ UNCHANGED <<store, files, lease, lost, left, stale>>

(* _wait_for_health; when it gives up, the handler has only the record of   *)
(* before the start, which does not name the process.                       *)
NotWaited(p) == proc' = proc
Healthy(p)   == proc' = [proc EXCEPT ![p].st = "serving"]

WaitForHealth ==
  /\ pc = "health"
  /\ \/ /\ Live(my.new) /\ Healthy(my.new)
        /\ Goto("markReady")
        /\ UNCHANGED <<budget, lost>>
     \/ /\ IF Live(my.new) THEN Spend("slow") /\ lost' = lost \cup {my.new}
                           ELSE UNCHANGED <<budget, lost>>
        /\ Goto("fallback")
        /\ UNCHANGED proc
  /\ UNCHANGED <<store, files, lease, told, left, stale>>

(* _terminate_pid waits for the kill command, not for the process, which is *)
(* gone some time later; and nobody hears of a kill that fails. E is what   *)
(* else the step spends.                                                    *)
Kill(p, E) ==
  \/ ~Live(p) /\ SpendAll(E) /\ UNCHANGED <<proc, lost>>
  \/ Live(p) /\ SpendAll(E) /\ proc' = [proc EXCEPT ![p].st = "dying"] /\ UNCHANGED lost
  \/ Live(p) /\ SpendAll(E \cup {"unkilled"}) /\ lost' = lost \cup {p} /\ UNCHANGED proc

Fallback ==
  /\ pc = "fallback"
  /\ \/ /\ Kill(my.rt.pid, {})
        /\ pc' = "markReady" /\ my' = [my EXCEPT !.new = 0, !.rt.mode = "fallback"]
        /\ UNCHANGED view
     \/ Kill(my.rt.pid, {"refuse"}) /\ Goto("fail")
  /\ UNCHANGED <<store, files, lease, told, left, stale>>

MarkReadyAsBefore ==
  /\ pc = "markReady"
  /\ Record([my.rt EXCEPT !.status = "ready"], "report")

MarkReady ==
  /\ pc = "markReady"
  /\ Record([my.rt EXCEPT !.status = "ready", !.pid = my.new], "report")

Fail ==
  /\ pc = "fail"
  /\ Record([my.rt EXCEPT !.status = "failed"], "report")

(* The control plane is told what has just been saved. A record that was   *)
(* suspended before its teardown is removed afterwards.                     *)
Report ==
  /\ pc = "report"
  /\ told' = [told EXCEPT ![my.dep] = my.rt.status]
  /\ IF my.after = "remove" THEN Goto("remove") ELSE Leave
  /\ UNCHANGED <<store, proc, files, lease, budget, lost, left, stale>>

-----------------------------------------------------------------------------
(* _terminate_runtime and _suspend_runtime: stop_runtime is called for a    *)
(* record that names a process.                                             *)
StopProcess ==
  /\ pc = "stop"
  /\ Kill(my.rt.pid, {})
  /\ Goto(IF my.rt.pid = 0 THEN "markTerminated" ELSE "erase")
  /\ UNCHANGED <<store, files, lease, told, left, stale>>

(* The runtime directory, then the artifact; a process that is still        *)
(* writing may keep the directory from being removed.                       *)
ErasedButArtifact == {"artifact"}
Erased == {}

EraseFiles ==
  /\ pc = "erase"
  /\ \/ files' = [files EXCEPT ![my.dep] = Erased] /\ UNCHANGED <<budget, left>>
     \/ Spend("busy") /\ left' = left \cup {my.dep} /\ UNCHANGED files
  /\ Goto("markTerminated")
  /\ UNCHANGED <<store, proc, lease, told, lost, stale>>

MarkTerminated ==
  /\ pc = "markTerminated"
  /\ LET r == [my.rt EXCEPT !.status = "terminated"]
     IN IF my.after = "retry" THEN Record(r, "remove")
        ELSE Upsert(r, "report", [my EXCEPT !.rt = r,
               !.after = IF my.rt.status = "suspended" THEN "remove" ELSE "none"])

(* A retry goes on with a fresh dispatch. *)
Remove ==
  /\ pc = "remove"
  /\ IF my.after = "retry"
       THEN Upsert(NoRec, "accept", [Idle EXCEPT !.dep = my.dep, !.caught = TRUE])
       ELSE Upsert(NoRec, "next", Idle)

StillNamed(r) == r
Unnamed(r) == [r EXCEPT !.pid = 0]

PauseProcess ==
  /\ pc = "pause"
  /\ Kill(my.rt.pid, {})
  /\ pc' = "markSuspended" /\ my' = [my EXCEPT !.rt = Unnamed(@)]
  /\ UNCHANGED <<store, view, files, lease, told, left, stale>>

MarkSuspended ==
  /\ pc = "markSuspended"
  /\ Record([my.rt EXCEPT !.status = "suspended"], "report")

-----------------------------------------------------------------------------
(* The agent dies and loads the file. Its processes go on without it, or,   *)
(* where it runs in a container, die with it, and pids start from 1 again.  *)
Named(p) == file[proc[p].dep].pid = p

Restart ==
  /\ Spend("crash")
  /\ mem' = file
  /\ pc' = "idle" /\ my' = Idle /\ view' = [d \in Deployments |-> "done"]
  /\ \/ /\ lost' = lost \cup {p \in DOMAIN proc : Live(p) /\ ~Named(p)}
        /\ stale' = (stale \/ mem # file \/ pc \notin {"idle", "next"})
        /\ UNCHANGED proc
     \/ proc' = <<>> /\ lost' = {} /\ stale' = TRUE
  /\ UNCHANGED <<file, files, lease, told, left>>

Exit(p) ==
  /\ Live(p) /\ Spend("exit")
  /\ proc' = [proc EXCEPT ![p].st = "exited"]
  /\ UNCHANGED <<store, pass, files, lease, told, lost, left, stale>>

(* The server has no handler for SIGTERM.                                   *)
Die(p) ==
  /\ proc[p].st = "dying"
  /\ proc' = [proc EXCEPT ![p].st = "killed"]
  /\ UNCHANGED <<store, pass, files, lease, told, budget, lost, left, stale>>

LeaseEvent(d) ==
  /\ \/ lease[d] = "none" /\ lease' = [lease EXCEPT ![d] = "active"] /\ UNCHANGED budget
     \/ lease[d] = "active" /\ lease' = [lease EXCEPT ![d] = "suspended"] /\ Spend("suspend")
     \/ lease[d] = "suspended" /\ lease' = [lease EXCEPT ![d] = "active"] /\ UNCHANGED budget
     \/ lease[d] \in {"active", "suspended"} /\ lease' = [lease EXCEPT ![d] = "ended"] /\ UNCHANGED budget
  /\ UNCHANGED <<store, pass, proc, files, told, lost, left, stale>>

Init ==
  /\ mem = [d \in Deployments |-> NoRec] /\ file = mem
  /\ pc = "idle" /\ my = Idle /\ view = [d \in Deployments |-> "done"]
  /\ proc = <<>> /\ files = [d \in Deployments |-> {}]
  /\ lease = [d \in Deployments |-> "none"] /\ told = lease
  /\ budget \in Budgets
  /\ lost = {} /\ left = {} /\ stale = FALSE

Handler ==
  \/ Accept \/ StageArtifact \/ MarkStarting \/ StartProcess \/ WaitForHealth
  \/ Fallback \/ MarkReady \/ Fail \/ Report \/ StopProcess \/ EraseFiles
  \/ MarkTerminated \/ Remove \/ PauseProcess \/ MarkSuspended

PassStep == BeginPass \/ EndPass \/ (\E d \in Deployments : Visit(d)) \/ Handler

Next ==
  \/ PassStep \/ Restart
  \/ \E p \in DOMAIN proc : Exit(p) \/ Die(p)
  \/ \E d \in Deployments : LeaseEvent(d)

Spec == Init /\ [][Next]_vars

(* The worker loop ticks for ever, the wait for a process is bounded, and a *)
(* process that got its SIGTERM dies of it.                                 *)
FairSpec == Spec /\ WF_vars(PassStep) /\ WF_vars(\E p \in DOMAIN proc : Die(p))

-----------------------------------------------------------------------------
(* A start never has a process of before on its hands: its record names     *)
(* none from its acceptance to its readiness, so that the shortcut that     *)
(* serves an old process without asking for its health is never taken       *)
(* (inference.py:296-307).                                                  *)
ProcTypeOK ==
  /\ \A d \in Deployments : /\ mem[d].pid \in Nat /\ file[d].pid \in Nat
                            /\ mem[d].status \in {"accepted", "starting", "suspended"} => mem[d].pid = 0
                            /\ files[d] \subseteq Both
  /\ pc \in {"accept", "stage", "markStarting", "popen", "health", "fallback", "fail"} => my.rt.pid = 0

(* Every process that nobody has told to stop is one that the ready record  *)
(* of its own deployment names, or the pass is about to record, or it was   *)
(* given up at its health check, by a crash, or after a kill that failed    *)
(* (services.py:856-898, inference.py:250-283, 1313-1324): neither a save   *)
(* that fails nor a retry, a suspension or a refused start loses another.   *)
ProcessesAreKnown ==
  \A p \in DOMAIN proc : Live(p) =>
    \/ p \in lost \cup {my.new}
    \/ mem[proc[p].dep].status = "ready" /\ mem[proc[p].dep].pid = p

(* A ready record that nobody is tearing down serves what it promises: its  *)
(* own process, which has answered once and has not been stopped since, on  *)
(* the files it runs on, or none at all in fallback mode; except after a    *)
(* restart that lost processes or found an older file                       *)
(* (services.py:545-583, repository.py:56-67).                              *)
ReadyServes ==
  ~stale =>
    \A d \in Deployments : mem[d].status = "ready" /\ my.dep # d =>
      /\ files[d] = Both
      /\ \/ mem[d].mode = "fallback" /\ mem[d].pid = 0
         \/ /\ mem[d].mode = "process" /\ mem[d].pid \in DOMAIN proc
            /\ proc[mem[d].pid].dep = d /\ proc[mem[d].pid].st \in {"serving", "exited"}

(* A state the control plane is told of, failure apart, is already in the   *)
(* file: no crash takes back a READY, SUSPENDED or TERMINATED               *)
(* (services.py:583-585, 885-898, 957-964).                                 *)
ReportsAreDurable ==
  [][\A d \in Deployments :
       told'[d] # told[d] /\ told'[d] # "failed" => file[d].status = told'[d]]_vars

(* The teardown of a record that names a process leaves none of its files,  *)
(* unless one of them could not be deleted (services.py:869-874).           *)
ErasedWithProcess ==
  \A d \in Deployments \ left :
    mem[d].status = "terminated" /\ mem[d].pid # 0 => files[d] = {}

(* Once the lease of a deployment has ended, its processes are gone in the  *)
(* end, but for those given up (services.py:372-390, 856-883).              *)
EndedIsStopped ==
  \A d \in Deployments :
    lease[d] = "ended" ~> \A p \in DOMAIN proc : proc[p].dep = d => ~Running(p) \/ p \in lost

=============================================================================
