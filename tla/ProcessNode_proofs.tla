------------------------- MODULE ProcessNode_proofs -------------------------
(***************************************************************************)
(* Processes, files and reports of any number of deployments, for any       *)
(* number of failed saves, crashes and failures of processes.               *)
(***************************************************************************)
EXTENDS ProcessNode, TLAPS

Statuses == {"none", "accepted", "starting", "ready", "suspended", "terminated", "failed"}
Starting == {"accept", "stage", "markStarting", "popen", "health", "fallback", "fail", "markReady"}
Leaving  == {"stop", "erase", "markTerminated", "pause", "markSuspended"}
Labels   == Starting \cup Leaving \cup {"idle", "next", "report", "remove"}

Recs   == [status : Statuses, pid : Nat, mode : {"none", "process", "fallback"}]
Frames == [dep : Deployments \cup {Nobody}, rt : Recs, new : Nat, caught : BOOLEAN,
           after : {"none", "retry", "remove"}]
Procs  == [dep : Deployments, st : {"booting", "serving", "dying", "exited", "killed"}]

InHandler == pc \notin {"idle", "next"}

TypeInv ==
  /\ mem \in [Deployments -> Recs] /\ file \in [Deployments -> Recs]
  /\ pc \in Labels /\ my \in Frames /\ (InHandler => my.dep \in Deployments)
  /\ proc \in Seq(Procs) /\ files \in [Deployments -> SUBSET Both]
  /\ view \in [Deployments -> {"active", "suspended", "ended", "done"}]
  /\ lease \in [Deployments -> {"none", "active", "suspended", "ended"}]
  /\ told \in [Deployments -> Statuses \cup {"active", "ended"}]
  /\ stale \in BOOLEAN

-----------------------------------------------------------------------------
(* Records and frames *)

LEMMA OfNothing == NoRec \in Recs /\ Idle \in Frames /\ Idle.rt = NoRec /\ NoRec.status = "none" /\ NoRec.pid = 0
<1>1. NoRec \in Recs /\ NoRec.status = "none" /\ NoRec.pid = 0
  BY DEF NoRec, Recs, Statuses
<1> QED
  BY <1>1 DEF Idle, Frames

LEMMA Marked ==
  ASSUME NEW r \in Recs, NEW s \in Statuses
  PROVE  LET q == [r EXCEPT !.status = s]
         IN q \in Recs /\ q.status = s /\ q.pid = r.pid /\ q.mode = r.mode
BY DEF Recs

LEMMA Framed ==
  ASSUME my \in Frames, NEW r \in Recs
  PROVE  LET m == [my EXCEPT !.rt = r]
         IN m \in Frames /\ m.dep = my.dep /\ m.rt = r /\ m.new = my.new /\ m.after = my.after
BY DEF Frames

LEMMA FramedAfter ==
  ASSUME my \in Frames, NEW r \in Recs, NEW a \in {"none", "retry", "remove"}
  PROVE  LET m == [my EXCEPT !.rt = r, !.after = a]
         IN m \in Frames /\ m.dep = my.dep /\ m.rt = r /\ m.new = my.new /\ m.after = a
BY DEF Frames

LEMMA FramedNew ==
  ASSUME my \in Frames, NEW p \in Nat
  PROVE  LET m == [my EXCEPT !.new = p]
         IN m \in Frames /\ m.dep = my.dep /\ m.rt = my.rt /\ m.new = p /\ m.after = my.after
BY DEF Frames

LEMMA Entered ==
  ASSUME NEW d \in Deployments, NEW r \in Recs, NEW l, Handle(d, l, r)
  PROVE  my' \in Frames /\ my'.dep = d /\ my'.rt = r /\ my'.after = "none" /\ pc' = l
BY DEF Handle, Frames, Idle

-----------------------------------------------------------------------------
(* Saves: what becomes of memory, file and pass when the record r of the    *)
(* deployment in hand is stored, and the pass goes on to l with the frame m *)
(* unless the file could not be written.                                    *)
Views == {"active", "suspended", "ended", "done"}
Saved(r, l, m) ==
  /\ mem' \in [Deployments -> Recs] /\ mem'[my.dep] = r
  /\ \A e \in Deployments \ {my.dep} : mem'[e] = mem[e]
  /\ proc' = proc /\ files' = files /\ lease' = lease /\ lost' = lost /\ left' = left /\ stale' = stale
  /\ \/ file' = mem' /\ pc' = l /\ my' = m /\ view' = view /\ told' = told
     \/ /\ file' = file /\ pc' \in {"idle", "next"} /\ my' = Idle
        /\ view' \in [Deployments -> Views]
        /\ \/ told' = told
           \/ told' = [told EXCEPT ![my.dep] = "failed"]

LEMMA Upserted ==
  ASSUME TypeInv, my.dep \in Deployments, NEW r \in Recs, NEW l, NEW m, Upsert(r, l, m)
  PROVE  Saved(r, l, m)
BY DEF TypeInv, Upsert, Unsaved, Raise, Leave, Saved, Views

(* A handler goes on with the record it has just saved. *)
Carries(m, r) == m.dep = my.dep /\ m.rt = r /\ m.new = my.new

LEMMA Recorded ==
  ASSUME TypeInv, my.dep \in Deployments, NEW r \in Recs, NEW l, Record(r, l)
  PROVE  \E m \in Frames : Saved(r, l, m) /\ Carries(m, r) /\ m.after = my.after
<1> DEFINE m == [my EXCEPT !.rt = r]
<1>1. m \in Frames /\ Carries(m, r) /\ m.after = my.after
  BY Framed DEF TypeInv, Carries
<1>2. Upsert(r, l, m)
  BY DEF Record
<1> HIDE DEF m
<1> QED
  BY <1>1, <1>2, Upserted

(* The records of a start, of its end, and of a suspension. *)
Saving == {"accept", "markStarting", "markReady", "fail", "markSuspended"}

LEMMA StartSaved ==
  ASSUME TypeInv, Accept \/ MarkStarting \/ MarkReady \/ Fail \/ MarkSuspended
  PROVE  /\ my.dep \in Deployments /\ pc \in Saving
         /\ \E r \in Recs, l \in Labels, m \in Frames :
              /\ Saved(r, l, m) /\ Carries(m, r) /\ m.after = my.after
              /\ pc = "accept" => r.status = "accepted" /\ r.pid = my.rt.pid /\ l = "stage"
              /\ pc = "markStarting" => r.status = "starting" /\ r.pid = my.rt.pid /\ r.mode = "process" /\ l = "popen"
              /\ pc = "markReady" => r.status = "ready" /\ r.pid = my.new /\ r.mode = my.rt.mode /\ l = "report"
              /\ pc = "fail" => r.status = "failed" /\ r.pid = my.rt.pid /\ l = "report"
              /\ pc = "markSuspended" => r.status = "suspended" /\ r.pid = my.rt.pid /\ l = "report"
<1> USE DEF Saving, Labels, Starting, Leaving
<1>0. my.dep \in Deployments /\ my.rt \in Recs /\ my.new \in Nat
  BY DEF TypeInv, InHandler, Frames, Accept, MarkStarting, MarkReady, Fail, MarkSuspended
<1> DEFINE Mark(s) == [my.rt EXCEPT !.status = s]
<1>1. \A s \in Statuses : LET q == Mark(s) IN q \in Recs /\ q.status = s /\ q.pid = my.rt.pid
  BY <1>0, Marked
<1>2. CASE Accept
  <2>1. pc = "accept" /\ Record(Mark("accepted"), "stage")
    BY <1>2 DEF Accept
  <2> HIDE DEF Mark
  <2> QED
    BY <1>0, <1>1, <2>1, Recorded DEF Statuses
<1>3. CASE MarkStarting
  <2> DEFINE r == [my.rt EXCEPT !.status = "starting", !.mode = "process"]
  <2>1. r \in Recs /\ r.status = "starting" /\ r.pid = my.rt.pid /\ r.mode = "process"
    BY <1>0 DEF Recs, Statuses
  <2>2. pc = "markStarting" /\ Record(r, "popen")
    BY <1>3 DEF MarkStarting
  <2> HIDE DEF r
  <2> QED
    BY <1>0, <2>1, <2>2, Recorded
<1>4. CASE MarkReady
  <2> DEFINE r == [my.rt EXCEPT !.status = "ready", !.pid = my.new]
  <2>1. r \in Recs /\ r.status = "ready" /\ r.pid = my.new /\ r.mode = my.rt.mode
    BY <1>0 DEF Recs, Statuses
  <2>2. pc = "markReady" /\ Record(r, "report")
    BY <1>4 DEF MarkReady
  <2> HIDE DEF r
  <2> QED
    BY <1>0, <2>1, <2>2, Recorded
<1>5. CASE Fail
  <2>1. pc = "fail" /\ Record(Mark("failed"), "report")
    BY <1>5 DEF Fail
  <2> HIDE DEF Mark
  <2> QED
    BY <1>0, <1>1, <2>1, Recorded DEF Statuses
<1>6. CASE MarkSuspended
  <2>1. pc = "markSuspended" /\ Record(Mark("suspended"), "report")
    BY <1>6 DEF MarkSuspended
  <2> HIDE DEF Mark
  <2> QED
    BY <1>0, <1>1, <2>1, Recorded DEF Statuses
<1> QED
  BY <1>2, <1>3, <1>4, <1>5, <1>6

LEMMA TerminatedSaved ==
  ASSUME TypeInv, MarkTerminated
  PROVE  /\ my.dep \in Deployments /\ pc = "markTerminated" /\ my.rt \in Recs
         /\ \E r \in Recs, l \in Labels, m \in Frames :
              /\ Saved(r, l, m) /\ Carries(m, r)
              /\ r.status = "terminated" /\ r.pid = my.rt.pid
              /\ \/ my.after = "retry" /\ l = "remove" /\ m.after = "retry"
                 \/ my.after # "retry" /\ my.rt.status = "suspended" /\ l = "report" /\ m.after = "remove"
                 \/ my.after # "retry" /\ l = "report" /\ m.after = "none"
<1> USE DEF Labels, Starting, Leaving
<1>0. pc = "markTerminated" /\ my \in Frames /\ my.dep \in Deployments /\ my.rt \in Recs
  BY DEF TypeInv, InHandler, Frames, MarkTerminated
<1> DEFINE r == [my.rt EXCEPT !.status = "terminated"]
<1>1. r \in Recs /\ r.status = "terminated" /\ r.pid = my.rt.pid
  BY <1>0, Marked DEF Statuses
<1>2. CASE my.after = "retry"
  <2>1. Record(r, "remove")
    BY <1>2 DEF MarkTerminated
  <2> HIDE DEF r
  <2> QED
    BY <1>0, <1>1, <1>2, <2>1, Recorded
<1>3. CASE my.after # "retry"
  <2> DEFINE a == IF my.rt.status = "suspended" THEN "remove" ELSE "none"
             m == [my EXCEPT !.rt = r, !.after = a]
  <2>1. Upsert(r, "report", m)
    BY <1>3 DEF MarkTerminated
  <2>2. m \in Frames /\ Carries(m, r) /\ m.after = a
    <3>1. a \in {"none", "retry", "remove"}
      OBVIOUS
    <3> HIDE DEF a, r
    <3> QED
      BY <1>0, <1>1, <3>1, FramedAfter DEF Carries
  <2>3. \/ a = "remove" /\ my.rt.status = "suspended"
        \/ a = "none"
    OBVIOUS
  <2> HIDE DEF r, a, m
  <2>4. Saved(r, "report", m)
    BY <1>0, <1>1, <2>1, Upserted
  <2> QED
    BY <1>0, <1>1, <1>3, <2>2, <2>3, <2>4
<1> QED
  BY <1>2, <1>3

LEMMA RemovalSaved ==
  ASSUME TypeInv, Remove
  PROVE  /\ my.dep \in Deployments /\ pc = "remove"
         /\ \E l \in {"accept", "next"}, m \in Frames :
              /\ Saved(NoRec, l, m) /\ m.rt = NoRec /\ m.after = "none"
              /\ l = "accept" => m.dep = my.dep
<1>0. pc = "remove" /\ my.dep \in Deployments
  BY DEF TypeInv, InHandler, Remove
<1>1. CASE my.after = "retry"
  <2> DEFINE m == [Idle EXCEPT !.dep = my.dep, !.caught = TRUE]
  <2>1. m \in Frames /\ m.rt = NoRec /\ m.after = "none" /\ m.dep = my.dep
    BY <1>0, OfNothing DEF Frames, Idle
  <2>2. Upsert(NoRec, "accept", m)
    BY <1>1 DEF Remove
  <2> HIDE DEF m
  <2> QED
    BY <1>0, <2>1, <2>2, Upserted, OfNothing
<1>2. CASE my.after # "retry"
  <2>1. Upsert(NoRec, "next", Idle) /\ Idle.after = "none"
    BY <1>2 DEF Remove, Idle
  <2> QED
    BY <1>0, <2>1, Upserted, OfNothing
<1> QED
  BY <1>1, <1>2

-----------------------------------------------------------------------------
(* Types *)

LEMMA InitTypes == Init => TypeInv
<1> SUFFICES ASSUME Init PROVE TypeInv
  OBVIOUS
<1>1. proc \in Seq(Procs) /\ files \in [Deployments -> SUBSET Both]
  BY DEF Init
<1> QED
  BY <1>1, OfNothing DEF Init, TypeInv, InHandler, Labels, Statuses

LEMMA Raised ==
  ASSUME TypeInv, my.dep \in Deployments, Raise
  PROVE  /\ pc' \in {"idle", "next"} /\ my' = Idle /\ view' \in [Deployments -> Views]
         /\ told' = told \/ told' = [told EXCEPT ![my.dep] = "failed"]
BY DEF TypeInv, Raise, Leave, Views

LEMMA SavedTypes ==
  ASSUME TypeInv, my.dep \in Deployments, NEW r \in Recs, NEW l \in Labels, NEW m \in Frames,
         l \notin {"idle", "next"} => m.dep \in Deployments, Saved(r, l, m)
  PROVE  TypeInv'
BY OfNothing DEF TypeInv, Saved, InHandler, Labels, Views, Statuses

LEMMA SaveTypes ==
  ASSUME TypeInv,
         Accept \/ MarkStarting \/ MarkReady \/ Fail \/ MarkSuspended \/ MarkTerminated \/ Remove
  PROVE  TypeInv'
<1>1. CASE Accept \/ MarkStarting \/ MarkReady \/ Fail \/ MarkSuspended
  BY <1>1, StartSaved, SavedTypes DEF Carries
<1>2. CASE MarkTerminated
  BY <1>2, TerminatedSaved, SavedTypes DEF Carries
<1>3. CASE Remove
  BY <1>3, RemovalSaved, SavedTypes, OfNothing DEF Labels, Starting
<1> QED
  BY <1>1, <1>2, <1>3

(* Processes. *)
LEMMA ProcessOf ==
  ASSUME TypeInv, NEW p \in DOMAIN proc, NEW s \in {"booting", "serving", "dying", "exited", "killed"},
         proc' = [proc EXCEPT ![p].st = s]
  PROVE  /\ proc' \in Seq(Procs) /\ DOMAIN proc' = DOMAIN proc
         /\ proc'[p].st = s /\ proc'[p].dep = proc[p].dep
         /\ \A x \in DOMAIN proc \ {p} : proc'[x] = proc[x]
<1>1. proc \in Seq(Procs) /\ DOMAIN proc = 1..Len(proc) /\ Len(proc) \in Nat
  BY DEF TypeInv
<1>2. proc[p] \in Procs
  BY <1>1
<1>3. [proc[p] EXCEPT !.st = s] \in Procs /\ [proc[p] EXCEPT !.st = s].st = s
      /\ [proc[p] EXCEPT !.st = s].dep = proc[p].dep
  BY <1>2 DEF Procs
<1> QED
  BY <1>1, <1>3

LEMMA Killed ==
  ASSUME TypeInv, NEW p \in Nat, NEW E, Kill(p, E)
  PROVE  /\ proc' \in Seq(Procs) /\ DOMAIN proc' = DOMAIN proc
         /\ \A x \in DOMAIN proc : proc'[x].dep = proc[x].dep /\ (x # p => proc'[x] = proc[x])
         /\ lost \subseteq lost'
         /\ p \in DOMAIN proc /\ proc'[p].st \in {"booting", "serving"} => p \in lost'
<1>1. CASE Live(p) /\ proc' = [proc EXCEPT ![p].st = "dying"] /\ UNCHANGED lost
  <2>1. p \in DOMAIN proc
    BY <1>1 DEF Live
  <2> QED
    BY <1>1, <2>1, ProcessOf
<1>2. CASE ~Live(p) /\ UNCHANGED <<proc, lost>>
  BY <1>2 DEF Live, TypeInv
<1>3. CASE lost' = lost \cup {p} /\ UNCHANGED proc
  BY <1>3 DEF TypeInv
<1> QED
  BY <1>1, <1>2, <1>3 DEF Kill

(* A handler of a start has no process of before to kill.                   *)
LEMMA NothingToKill ==
  ASSUME TypeInv, Fallback, my.rt.pid = 0
  PROVE  proc' = proc /\ lost' = lost
<1>1. 0 \notin DOMAIN proc
  BY DEF TypeInv
<1> QED
  BY <1>1 DEF Fallback, Kill, Live

LEMMA Waited ==
  ASSUME TypeInv, WaitForHealth
  PROVE  /\ proc' \in Seq(Procs) /\ DOMAIN proc' = DOMAIN proc
         /\ \A x \in DOMAIN proc : proc'[x].dep = proc[x].dep /\ (x # my.new => proc'[x] = proc[x])
         /\ \/ pc' = "markReady" /\ lost' = lost /\ Live(my.new) /\ proc'[my.new].st = "serving"
            \/ pc' = "fallback" /\ proc' = proc /\ lost' \in {lost, lost \cup {my.new}}
               /\ (Live(my.new) => my.new \in lost')
<1>1. CASE Live(my.new) /\ Healthy(my.new) /\ Goto("markReady") /\ UNCHANGED <<budget, lost>>
  <2>1. my.new \in DOMAIN proc /\ proc' = [proc EXCEPT ![my.new].st = "serving"]
    BY <1>1 DEF Live, Healthy
  <2> QED
    BY <1>1, <2>1, ProcessOf DEF Goto
<1>2. CASE /\ IF Live(my.new) THEN Spend("slow") /\ lost' = lost \cup {my.new}
                              ELSE UNCHANGED <<budget, lost>>
           /\ Goto("fallback") /\ UNCHANGED proc
  BY <1>2 DEF Goto, TypeInv
<1> QED
  BY <1>1, <1>2 DEF WaitForHealth

LEMMA Started ==
  ASSUME TypeInv, my.dep \in Deployments,
         proc' = Append(proc, [dep |-> my.dep, st |-> "booting"])
  PROVE  /\ proc' \in Seq(Procs) /\ Len(proc') \in Nat \ {0}
         /\ DOMAIN proc' = DOMAIN proc \cup {Len(proc')} /\ Len(proc') \notin DOMAIN proc
         /\ \A x \in DOMAIN proc : proc'[x] = proc[x]
         /\ proc'[Len(proc')] = [dep |-> my.dep, st |-> "booting"]
<1>1. [dep |-> my.dep, st |-> "booting"] \in Procs
  BY DEF Procs
<1> QED
  BY <1>1 DEF TypeInv

(* The first step of a pass in a handler, on the record of its deployment. *)
LEMMA Visited ==
  ASSUME TypeInv, NEW d \in Deployments, Visit(d)
  PROVE  /\ mem' = mem /\ file' = file /\ proc' = proc /\ files' = files /\ lease' = lease /\ told' = told
         /\ lost' = lost /\ left' = left /\ stale' = stale
         /\ view' \in [Deployments -> Views] /\ pc = "next"
         /\ \/ /\ my' \in Frames /\ my'.dep = d
               /\ \/ pc' = "accept" /\ my'.after = "none" /\ my'.rt = NoRec /\ mem[d].status = "none"
                  \/ pc' = "accept" /\ my'.after = "none" /\ my'.rt = mem[d] /\ mem[d].status = "suspended"
                  \/ pc' = "stop" /\ my'.after = "retry" /\ my'.rt = mem[d]
                     /\ mem[d].status \in {"accepted", "starting"}
                  \/ pc' = "pause" /\ my'.after = "none" /\ my'.rt = mem[d]
                     /\ mem[d].status \in {"ready", "starting"}
                  \/ pc' = "stop" /\ my'.after = "none" /\ my'.rt = mem[d]
                     /\ mem[d].status \notin {"none", "terminated"}
            \/ pc' = pc /\ my' = my
<1>1. mem[d] \in Recs
  BY DEF TypeInv
<1>2. /\ mem' = mem /\ file' = file /\ proc' = proc /\ files' = files /\ lease' = lease /\ told' = told
      /\ lost' = lost /\ left' = left /\ stale' = stale
      /\ view' \in [Deployments -> Views] /\ pc = "next"
  BY DEF Visit, store, world, TypeInv, Views
<1>3. CASE Dispatches(d) /\ pc' = "accept" /\ my' = [Idle EXCEPT !.dep = d, !.caught = TRUE]
  <2>1. my' \in Frames /\ my'.dep = d /\ my'.after = "none" /\ my'.rt = NoRec
    BY <1>3, OfNothing DEF Idle, Frames
  <2> QED
    BY <1>2, <1>3, <2>1 DEF Dispatches
<1>4. CASE Retries(d) /\ pc' = "stop" /\ my' = [Idle EXCEPT !.dep = d, !.rt = mem[d], !.after = "retry"]
  <2>1. my' \in Frames /\ my'.dep = d /\ my'.after = "retry" /\ my'.rt = mem[d]
    BY <1>1, <1>4 DEF Idle, Frames
  <2> QED
    BY <1>2, <1>4, <2>1 DEF Retries
<1>5. CASE Resumes(d) /\ Handle(d, "accept", mem[d])
  BY <1>1, <1>2, <1>5, Entered DEF Resumes
<1>6. CASE Suspends(d) /\ Handle(d, "pause", mem[d])
  BY <1>1, <1>2, <1>6, Entered DEF Suspends
<1>7. CASE TearsDown(d) /\ Handle(d, "stop", mem[d])
  BY <1>1, <1>2, <1>7, Entered DEF TearsDown
<1>8. CASE UNCHANGED <<pc, my>>
  BY <1>2, <1>8
<1> QED
  BY <1>3, <1>4, <1>5, <1>6, <1>7, <1>8 DEF Visit

LEMMA FallenBack ==
  ASSUME my \in Frames, my' = [my EXCEPT !.new = 0, !.rt.mode = "fallback"]
  PROVE  /\ my' \in Frames /\ my'.dep = my.dep /\ my'.new = 0 /\ my'.after = my.after
         /\ my'.rt.pid = my.rt.pid /\ my'.rt.mode = "fallback"
<1>1. my' = [dep |-> my.dep, rt |-> [my.rt EXCEPT !.mode = "fallback"], new |-> 0,
             caught |-> my.caught, after |-> my.after]
  BY DEF Frames
<1> QED
  BY <1>1 DEF Frames, Recs

LEMMA PauseFrame ==
  ASSUME my \in Frames, my' = [my EXCEPT !.rt = Unnamed(@)]
  PROVE  my' \in Frames /\ my'.dep = my.dep /\ my'.after = my.after /\ my'.rt.pid = 0
<1>1. my' = [my EXCEPT !.rt = Unnamed(my.rt)]
  BY DEF Frames
<1>2. Unnamed(my.rt) \in Recs /\ Unnamed(my.rt).pid = 0
  BY DEF Frames, Unnamed, Recs
<1> HIDE DEF Unnamed
<1> QED
  BY <1>1, <1>2, Framed

LEMMA PassTypes ==
  ASSUME TypeInv, BeginPass \/ EndPass \/ \E d \in Deployments : Visit(d)
  PROVE  TypeInv'
<1> USE DEF TypeInv, InHandler, Labels, Starting, Leaving
<1>1. CASE BeginPass \/ EndPass
  BY <1>1 DEF BeginPass, EndPass, Goto, store, world
<1>2. ASSUME NEW d \in Deployments, Visit(d) PROVE TypeInv'
  BY <1>2, Visited DEF Views
<1> QED
  BY <1>1, <1>2

LEMMA StartTypes ==
  ASSUME TypeInv, StageArtifact \/ StartProcess \/ WaitForHealth \/ Fallback
  PROVE  TypeInv'
<1> USE DEF TypeInv, InHandler, Labels, Starting, Leaving, store
<1>0. my.dep \in Deployments /\ my \in Frames
  BY DEF StageArtifact, StartProcess, WaitForHealth, Fallback
<1>1. CASE Raise /\ UNCHANGED <<mem, file, proc, lease, stale>> /\ files' \in [Deployments -> SUBSET Both]
  BY <1>0, <1>1, Raised, OfNothing DEF Views, Statuses
<1>2. CASE StageArtifact
  <2>1. files' \in [Deployments -> SUBSET Both]
    BY <1>2 DEF StageArtifact, Both
  <2> QED
    BY <1>0, <1>1, <1>2, <2>1 DEF StageArtifact, Goto
<1>3. CASE StartProcess
  <2>1. CASE Running(my.rt.pid) /\ pc' = "markReady" /\ my' = [my EXCEPT !.new = my.rt.pid] /\ UNCHANGED <<view, proc, told>>
    <3>1. my.rt.pid \in Nat
      BY <1>0 DEF Frames, Recs
    <3> QED
      BY <1>0, <1>3, <2>1, <3>1, FramedNew DEF StartProcess
  <2>2. CASE /\ proc' = Append(proc, [dep |-> my.dep, st |-> "booting"])
             /\ pc' = "health" /\ my' = [my EXCEPT !.new = Len(proc')] /\ UNCHANGED <<view, told>>
    BY <1>0, <1>3, <2>2, Started, FramedNew DEF StartProcess
  <2>3. CASE Goto("fallback") /\ UNCHANGED <<proc, told>>
    BY <1>0, <1>3, <2>3 DEF StartProcess, Goto
  <2>4. CASE Raise /\ UNCHANGED proc
    BY <1>1, <1>3, <2>4 DEF StartProcess
  <2> QED
    BY <1>3, <2>1, <2>2, <2>3, <2>4 DEF StartProcess
<1>4. CASE WaitForHealth
  <2>1. proc' \in Seq(Procs)
    BY <1>4, Waited
  <2> QED
    BY <1>0, <1>4, <2>1 DEF WaitForHealth, Goto
<1>5. CASE Fallback
  <2>1. my.rt.pid \in Nat
    BY <1>0 DEF Frames, Recs
  <2>2. proc' \in Seq(Procs)
    BY <1>5, <2>1, Killed DEF Fallback
  <2> QED
    BY <1>0, <1>5, <2>2, FallenBack DEF Fallback, Goto
<1> QED
  BY <1>2, <1>3, <1>4, <1>5

LEMMA EndTypes ==
  ASSUME TypeInv, Report \/ StopProcess \/ EraseFiles \/ PauseProcess
  PROVE  TypeInv'
<1> USE DEF TypeInv, InHandler, Labels, Starting, Leaving, store
<1>0. my.dep \in Deployments /\ my \in Frames /\ my.rt.pid \in Nat /\ my.rt.status \in Statuses
  <2>1. my.dep \in Deployments /\ my \in Frames
    BY DEF Report, StopProcess, EraseFiles, PauseProcess
  <2> QED
    BY <2>1 DEF Frames, Recs
<1>1. CASE Report
  BY <1>0, <1>1, OfNothing DEF Report, Goto, Leave
<1>2. CASE StopProcess
  BY <1>0, <1>2, Killed DEF StopProcess, Goto
<1>3. CASE EraseFiles
  BY <1>0, <1>3 DEF EraseFiles, Erased, Goto
<1>4. CASE PauseProcess
  BY <1>0, <1>4, Killed, PauseFrame DEF PauseProcess
<1> QED
  BY <1>1, <1>2, <1>3, <1>4

LEMMA WorldTypes ==
  ASSUME TypeInv,
         \/ Restart \/ UNCHANGED vars
         \/ \E p \in DOMAIN proc : Exit(p) \/ Die(p)
         \/ \E d \in Deployments : LeaseEvent(d)
  PROVE  TypeInv'
<1> USE DEF TypeInv, InHandler
<1>1. CASE Restart
  <2>1. proc' \in Seq(Procs)
    <3>1. <<>> \in Seq(Procs)
      OBVIOUS
    <3> QED
      BY <1>1, <3>1 DEF Restart
  <2>2. stale' \in BOOLEAN
    BY <1>1 DEF Restart
  <2> QED
    BY <1>1, <2>1, <2>2, OfNothing DEF Restart, Labels
<1>2. CASE UNCHANGED vars
  BY <1>2 DEF vars, store, pass, world
<1>3. ASSUME NEW p \in DOMAIN proc, Exit(p) \/ Die(p) PROVE TypeInv'
  BY <1>3, ProcessOf DEF Exit, Die, store, pass
<1>4. ASSUME NEW d \in Deployments, LeaseEvent(d) PROVE TypeInv'
  BY <1>4 DEF LeaseEvent, store, pass
<1> QED
  BY <1>1, <1>2, <1>3, <1>4

LEMMA StepTypes == TypeInv /\ [Next]_vars => TypeInv'
BY PassTypes, StartTypes, EndTypes, SaveTypes, WorldTypes DEF Next, PassStep, Handler

LEMMA Types == Spec => []TypeInv
BY InitTypes, StepTypes, PTL DEF Spec

-----------------------------------------------------------------------------
(* Only ready and terminated records name a process.                        *)
Nameless == {"none", "accepted", "starting", "suspended", "failed"}

PidInv ==
  /\ \A d \in Deployments : /\ mem[d].status \in Nameless => mem[d].pid = 0
                            /\ file[d].status \in Nameless => file[d].pid = 0
  /\ pc \in (Starting \ {"markReady"}) \cup {"markSuspended"} => my.rt.pid = 0

LEMMA InitPids == Init => PidInv
BY OfNothing DEF Init, PidInv, Starting

LEMMA SavedPids ==
  ASSUME TypeInv, PidInv, my.dep \in Deployments, NEW r, NEW l, NEW m, Saved(r, l, m),
         r.status \in Nameless => r.pid = 0,
         l \in (Starting \ {"markReady"}) \cup {"markSuspended"} => m.rt.pid = 0
  PROVE  PidInv'
<1>1. \A d \in Deployments : mem'[d].status \in Nameless => mem'[d].pid = 0
  BY DEF Saved, PidInv
<1>2. CASE file' = mem' /\ pc' = l /\ my' = m
  BY <1>1, <1>2 DEF PidInv
<1>3. CASE file' = file /\ pc' \in {"idle", "next"}
  BY <1>1, <1>3 DEF PidInv, Starting
<1> QED
  BY <1>2, <1>3 DEF Saved

LEMMA StepPids ==
  ASSUME TypeInv, PidInv, [Next]_vars
  PROVE  PidInv'
<1>1. CASE Accept \/ MarkStarting \/ MarkReady \/ Fail \/ MarkSuspended
  <2>1. PICK r \in Recs, l \in Labels, m \in Frames :
              /\ my.dep \in Deployments /\ pc \in Saving
              /\ Saved(r, l, m) /\ m.rt = r
              /\ pc = "markReady" => r.status = "ready" /\ l = "report"
              /\ pc \in Saving \ {"markReady"} => r.pid = my.rt.pid
    BY <1>1, StartSaved DEF Carries, Saving
  <2>2. pc = "markReady" \/ my.rt.pid = 0
    BY <2>1 DEF PidInv, Saving, Starting
  <2>3. r.status \in Nameless => r.pid = 0
    BY <2>1, <2>2 DEF Nameless
  <2>4. l \in (Starting \ {"markReady"}) \cup {"markSuspended"} => m.rt.pid = 0
    BY <2>1, <2>2 DEF Starting
  <2> QED
    BY <2>1, <2>3, <2>4, SavedPids
<1>2. CASE MarkTerminated
  <2>1. PICK r \in Recs, l \in {"remove", "report"}, m \in Frames :
              my.dep \in Deployments /\ Saved(r, l, m) /\ r.status = "terminated"
    BY <1>2, TerminatedSaved
  <2> QED
    BY <2>1, SavedPids DEF Nameless, Starting
<1>3. CASE Remove
  BY <1>3, RemovalSaved, SavedPids, OfNothing
<1>4. CASE BeginPass \/ EndPass \/ Report \/ StopProcess \/ EraseFiles
  BY <1>4 DEF BeginPass, EndPass, Report, StopProcess, EraseFiles, Goto, Leave, PidInv, Starting, store
<1>5. ASSUME NEW d \in Deployments, Visit(d) PROVE PidInv'
  BY <1>5, Visited, OfNothing DEF PidInv, Nameless, Starting
<1>6. CASE StageArtifact \/ StartProcess \/ WaitForHealth
  <2>1. UNCHANGED store /\ my.dep \in Deployments /\ my.rt.pid = 0
    BY <1>6 DEF StageArtifact, StartProcess, WaitForHealth, TypeInv, InHandler, PidInv, Starting
  <2>2. CASE Raise
    BY <2>1, <2>2, Raised DEF PidInv, Starting, store
  <2>3. CASE my' = my
    BY <2>1, <2>3 DEF PidInv, store
  <2>4. CASE my' = [my EXCEPT !.new = Len(proc')] \/ pc' = "markReady"
    <3>1. my \in Frames
      BY DEF TypeInv
    <3>2. pc' = "markReady" \/ my'.rt = my.rt
      BY <2>4, <3>1 DEF Frames
    <3> QED
      BY <2>1, <3>2 DEF PidInv, Starting, store
  <2> QED
    BY <1>6, <2>2, <2>3, <2>4 DEF StageArtifact, StartProcess, WaitForHealth, Goto
<1>7. CASE Fallback
  <2>1. pc' = "markReady" \/ (my' = my /\ pc' = "fail")
    BY <1>7 DEF Fallback, Goto
  <2> QED
    BY <1>7, <2>1 DEF Fallback, PidInv, Starting, store
<1>8. CASE PauseProcess
  BY <1>8, PauseFrame DEF PauseProcess, PidInv, Starting, store, TypeInv
<1>9. CASE Restart
  BY <1>9 DEF Restart, PidInv, Starting
<1>10. CASE UNCHANGED <<store, pass>>
  BY <1>10 DEF PidInv, store, pass
<1> QED
  BY <1>1, <1>2, <1>3, <1>4, <1>5, <1>6, <1>7, <1>8, <1>9, <1>10
     DEF Next, PassStep, Handler, vars, Exit, Die, LeaseEvent

-----------------------------------------------------------------------------
(* What a handler knows of the record of its deployment.                    *)
StageInv ==
  /\ pc \in Starting => /\ mem[my.dep].status \in {"none", "accepted", "starting", "suspended"}
                        /\ my.after = "none"
  /\ pc \in {"stop", "erase", "markTerminated", "pause"} => my.rt = mem[my.dep]
  /\ pc \in Leaving => /\ mem[my.dep].status \notin {"none", "terminated"}
                       /\ my.after # "remove"
                       /\ my.after = "retry" => mem[my.dep].status \in {"accepted", "starting"}
  /\ pc = "report" => my.rt = mem[my.dep] /\ my.rt = file[my.dep]
  /\ pc = "remove" \/ (pc = "report" /\ my.after = "remove") =>
       mem[my.dep].status = "terminated" /\ mem[my.dep].pid = 0

LEMMA InitStage == Init => StageInv
BY DEF Init, StageInv, Starting, Leaving

LEMMA SavedStage ==
  ASSUME TypeInv, my.dep \in Deployments, NEW r, NEW l \in Starting \cup {"report", "remove", "next"}, NEW m,
         Saved(r, l, m), l # "next" => m.rt = r /\ m.dep = my.dep,
         l \in Starting => r.status \in {"none", "accepted", "starting", "suspended"} /\ m.after = "none",
         l = "remove" \/ (l = "report" /\ m.after = "remove") => r.status = "terminated" /\ r.pid = 0
  PROVE  StageInv'
<1>1. CASE file' = mem' /\ pc' = l /\ my' = m
  BY <1>1 DEF Saved, StageInv, Starting, Leaving
<1>2. CASE pc' \in {"idle", "next"}
  BY <1>2 DEF StageInv, Starting, Leaving
<1> QED
  BY <1>1, <1>2 DEF Saved

LEMMA StepStage ==
  ASSUME TypeInv, PidInv, StageInv, [Next]_vars
  PROVE  StageInv'
<1>1. CASE Accept \/ MarkStarting \/ MarkReady \/ Fail \/ MarkSuspended
  <2>1. PICK r \in Recs, l \in {"stage", "popen", "report"}, m \in Frames :
              /\ my.dep \in Deployments /\ pc \in Saving
              /\ Saved(r, l, m) /\ m.rt = r /\ m.dep = my.dep /\ m.after = my.after
              /\ l = "stage" => pc = "accept" /\ r.status = "accepted"
              /\ l = "popen" => pc = "markStarting" /\ r.status = "starting"
    BY <1>1, StartSaved DEF Carries, Saving
  <2>2. m.after # "remove" /\ (l # "report" => m.after = "none")
    BY <2>1 DEF StageInv, Saving, Starting, Leaving
  <2> QED
    BY <2>1, <2>2, SavedStage DEF Starting
<1>2. CASE MarkTerminated
  <2>1. my.rt = mem[my.dep] /\ my.dep \in Deployments
        /\ (my.after = "retry" => my.rt.status \in {"accepted", "starting"})
    BY <1>2, TerminatedSaved DEF StageInv, MarkTerminated, Leaving
  <2>2. PICK r \in Recs, l \in {"remove", "report"}, m \in Frames :
              /\ Saved(r, l, m) /\ r.status = "terminated" /\ m.rt = r /\ m.dep = my.dep /\ r.pid = my.rt.pid
              /\ l = "remove" => my.after = "retry"
              /\ l = "report" /\ m.after = "remove" => my.rt.status = "suspended"
    BY <1>2, TerminatedSaved DEF Carries
  <2>3. l = "remove" \/ (l = "report" /\ m.after = "remove") => r.pid = 0
    BY <2>1, <2>2 DEF PidInv, Nameless
  <2> QED
    BY <2>1, <2>2, <2>3, SavedStage DEF Starting
<1>3. CASE Remove
  BY <1>3, RemovalSaved, SavedStage, OfNothing DEF Starting
<1>4. CASE BeginPass \/ EndPass
  BY <1>4 DEF BeginPass, EndPass, Goto, StageInv, Starting, Leaving
<1>5. ASSUME NEW d \in Deployments, Visit(d) PROVE StageInv'
  BY <1>5, Visited DEF StageInv, Starting, Leaving
<1>6. CASE StageArtifact \/ StartProcess \/ WaitForHealth \/ Fallback
  <2>1. UNCHANGED store /\ pc \in Starting /\ my.dep \in Deployments /\ my \in Frames
    BY <1>6 DEF StageArtifact, StartProcess, WaitForHealth, Fallback, TypeInv, InHandler, Starting
  <2>2. CASE Raise
    BY <2>1, <2>2, Raised DEF StageInv, Starting, Leaving
  <2>3. CASE pc' \in Starting /\ my'.dep = my.dep /\ my'.after = my.after
    BY <2>1, <2>3 DEF StageInv, Starting, Leaving, store
  <2>4. Raise \/ (pc' \in Starting /\ my' = my)
              \/ (pc' = "markReady" /\ my' = [my EXCEPT !.new = my.rt.pid])
              \/ (pc' = "health" /\ my' = [my EXCEPT !.new = Len(proc')])
              \/ (pc' = "markReady" /\ my' = [my EXCEPT !.new = 0, !.rt.mode = "fallback"])
    BY <1>6 DEF StageArtifact, StartProcess, WaitForHealth, Fallback, Goto, Starting
  <2>5. Raise \/ (pc' \in Starting /\ my'.dep = my.dep /\ my'.after = my.after)
    BY <2>1, <2>4 DEF Frames, Starting
  <2> QED
    BY <2>2, <2>3, <2>5
<1>7. CASE Report
  <2>1. my.dep \in Deployments /\ UNCHANGED store
    BY <1>7 DEF Report, TypeInv, InHandler
  <2> QED
    BY <1>7, <2>1 DEF Report, Goto, Leave, StageInv, Starting, Leaving, store
<1>8. CASE StopProcess \/ EraseFiles
  BY <1>8 DEF StopProcess, EraseFiles, Goto, StageInv, Starting, Leaving, store
<1>9. CASE PauseProcess
  BY <1>9, PauseFrame DEF PauseProcess, StageInv, Starting, Leaving, store, TypeInv
<1>10. CASE Restart
  BY <1>10 DEF Restart, StageInv, Starting, Leaving
<1>11. CASE UNCHANGED <<store, pass>>
  BY <1>11 DEF StageInv, store, pass
<1> QED
  BY <1>1, <1>2, <1>3, <1>4, <1>5, <1>6, <1>7, <1>8, <1>9, <1>10, <1>11
     DEF Next, PassStep, Handler, vars, Exit, Die, LeaseEvent

-----------------------------------------------------------------------------
(* No living process is forgotten, and the file names one of its own only   *)
(* with a ready record.                                                     *)
Names(s, p) == s[proc[p].dep].status = "ready" /\ s[proc[p].dep].pid = p
Fresh(p) == p = my.new /\ pc \in {"health", "markReady"}

KnownInv ==
  /\ \A p \in DOMAIN proc : Live(p) /\ p \notin lost =>
       /\ Fresh(p) \/ Names(mem, p)
       /\ mem[proc[p].dep].pid = p => mem[proc[p].dep].status = "ready"
       /\ file[proc[p].dep].pid = p => file[proc[p].dep].status = "ready"
  /\ pc \in {"health", "markReady"} /\ my.new # 0 => my.new \in DOMAIN proc /\ proc[my.new].dep = my.dep
  /\ pc = "popen" => mem[my.dep].pid = 0 /\ file[my.dep].pid = 0
  /\ pc \in {"erase", "markTerminated", "markSuspended"} /\ Live(mem[my.dep].pid) => mem[my.dep].pid \in lost

LEMMA NoPidZero == TypeInv => 0 \notin DOMAIN proc
BY DEF TypeInv

LEMMA OfDeployment ==
  ASSUME TypeInv, NEW p \in DOMAIN proc
  PROVE  proc[p].dep \in Deployments
<1>1. proc \in Seq(Procs) /\ DOMAIN proc = 1..Len(proc)
  BY DEF TypeInv
<1>2. proc[p] \in Procs
  BY <1>1
<1> QED
  BY <1>2 DEF Procs

LEMMA InitKnown == Init => KnownInv
BY DEF Init, KnownInv

LEMMA SavedKnown ==
  ASSUME TypeInv, KnownInv, my.dep \in Deployments, NEW r \in Recs, NEW m,
         NEW l \in {"accept", "stage", "popen", "report", "remove", "next"}, Saved(r, l, m),
         \A p \in DOMAIN proc : Live(p) /\ p \notin lost /\ proc[p].dep = my.dep =>
            r.status = "ready" /\ r.pid = p,
         l = "popen" => r.pid = 0 /\ m.dep = my.dep
  PROVE  KnownInv'
<1>0. proc' = proc /\ lost' = lost /\ 0 \notin DOMAIN proc
  BY NoPidZero DEF Saved
<1>1. ASSUME NEW p \in DOMAIN proc, Live(p), p \notin lost
      PROVE  /\ Names(mem, p)'
             /\ mem'[proc[p].dep].pid = p => mem'[proc[p].dep].status = "ready"
             /\ file'[proc[p].dep].pid = p => file'[proc[p].dep].status = "ready"
  <2>1. proc[p].dep \in Deployments
    BY OfDeployment
  <2>2. CASE proc[p].dep = my.dep
    BY <1>0, <1>1, <2>2 DEF Saved, Names, KnownInv
  <2>3. CASE proc[p].dep # my.dep
    <3>1. ~Fresh(p)
      BY <1>0, <2>3 DEF KnownInv, Fresh
    <3>2. mem'[proc[p].dep] = mem[proc[p].dep]
      BY <2>1, <2>3 DEF Saved
    <3> QED
      BY <1>0, <1>1, <3>1, <3>2 DEF Saved, Names, KnownInv
  <2> QED
    BY <2>2, <2>3
<1>2. pc' \in {"accept", "stage", "popen", "report", "remove", "next", "idle"}
  BY DEF Saved
<1>3. pc' = "popen" => mem'[my'.dep].pid = 0 /\ file'[my'.dep].pid = 0
  BY DEF Saved
<1> QED
  BY <1>0, <1>1, <1>2, <1>3 DEF KnownInv, Live

LEMMA StepKnown ==
  ASSUME TypeInv, PidInv, StageInv, KnownInv, [Next]_vars
  PROVE  KnownInv'
<1>0. 0 \notin DOMAIN proc
  BY NoPidZero
<1>1. CASE Accept \/ MarkStarting \/ MarkReady \/ Fail \/ MarkSuspended
  <2>1. PICK r \in Recs, l \in {"stage", "popen", "report"}, m \in Frames :
              /\ my.dep \in Deployments /\ pc \in Saving
              /\ Saved(r, l, m) /\ m.dep = my.dep
              /\ l = "popen" => pc = "markStarting"
              /\ pc = "markReady" => r.status = "ready" /\ r.pid = my.new
              /\ pc # "markReady" => r.pid = my.rt.pid
    BY <1>1, StartSaved DEF Carries, Saving
  <2>2. pc # "markReady" => r.pid = 0
    BY <2>1 DEF PidInv, Saving, Starting
  <2>3. ASSUME NEW p \in DOMAIN proc, Live(p), p \notin lost, proc[p].dep = my.dep
        PROVE  r.status = "ready" /\ r.pid = p
    <3>1. ~Names(mem, p)
      BY <2>1, <2>3 DEF Names, StageInv, KnownInv, Saving, Starting
    <3> QED
      BY <1>0, <2>1, <2>2, <2>3, <3>1 DEF KnownInv, Fresh, Saving
  <2> QED
    BY <2>1, <2>2, <2>3, SavedKnown
<1>2. CASE MarkTerminated
  <2>1. PICK r \in Recs, l \in {"remove", "report"}, m \in Frames :
              my.dep \in Deployments /\ Saved(r, l, m) /\ r.pid = my.rt.pid
    BY <1>2, TerminatedSaved
  <2>2. r.pid = mem[my.dep].pid /\ (Live(r.pid) => r.pid \in lost)
    BY <1>2, <2>1 DEF MarkTerminated, StageInv, KnownInv
  <2>3. ASSUME NEW p \in DOMAIN proc, Live(p), p \notin lost, proc[p].dep = my.dep PROVE FALSE
    BY <1>2, <2>2, <2>3 DEF KnownInv, Names, Fresh, MarkTerminated
  <2> QED
    BY <2>1, <2>3, SavedKnown
<1>3. CASE Remove
  <2>1. PICK l \in {"accept", "next"}, m \in Frames : my.dep \in Deployments /\ Saved(NoRec, l, m)
    BY <1>3, RemovalSaved
  <2>2. ASSUME NEW p \in DOMAIN proc, Live(p), p \notin lost, proc[p].dep = my.dep PROVE FALSE
    BY <1>0, <1>3, <2>2, OfNothing DEF KnownInv, Names, Fresh, StageInv, Remove
  <2> QED
    BY <2>1, <2>2, SavedKnown, OfNothing
<1>4. CASE BeginPass \/ EndPass \/ Report
  BY <1>4 DEF BeginPass, EndPass, Report, Goto, Leave, KnownInv, Live, Names, Fresh, store, world
<1>5. ASSUME NEW d \in Deployments, Visit(d) PROVE KnownInv'
  BY <1>5, Visited DEF KnownInv, Live, Names, Fresh
<1>6. CASE StageArtifact
  <2>1. CASE Raise
    BY <1>6, <2>1, Raised DEF StageArtifact, TypeInv, InHandler, KnownInv, Live, Names, Fresh, store
  <2> QED
    BY <1>6, <2>1 DEF StageArtifact, Goto, KnownInv, Live, Names, Fresh, store
<1>7. CASE StartProcess
  <2>1. my.rt.pid = 0 /\ my.dep \in Deployments /\ ~Running(my.rt.pid) /\ pc = "popen"
        /\ mem' = mem /\ file' = file /\ lost' = lost
        /\ mem[my.dep].pid = 0 /\ file[my.dep].pid = 0
    BY <1>0, <1>7 DEF StartProcess, PidInv, Starting, TypeInv, InHandler, Running, KnownInv, store
  <2>2. CASE /\ proc' = Append(proc, [dep |-> my.dep, st |-> "booting"])
             /\ pc' = "health" /\ my' = [my EXCEPT !.new = Len(proc')]
    <3>1. my'.dep = my.dep /\ my'.new = Len(proc')
      BY <2>2 DEF TypeInv, Frames
    <3>2. ASSUME NEW p \in DOMAIN proc', Live(p)', p \notin lost'
          PROVE  /\ Fresh(p)' \/ Names(mem, p)'
                 /\ mem'[proc'[p].dep].pid = p => mem'[proc'[p].dep].status = "ready"
                 /\ file'[proc'[p].dep].pid = p => file'[proc'[p].dep].status = "ready"
      <4>1. CASE p = Len(proc')
        BY <2>1, <2>2, <3>1, <4>1, Started DEF Fresh
      <4>2. CASE p # Len(proc')
        <5>1. p \in DOMAIN proc /\ proc'[p] = proc[p] /\ Live(p) /\ p \notin lost /\ ~Fresh(p)
          BY <2>1, <2>2, <3>2, <4>2, Started DEF Live, Fresh
        <5> QED
          BY <2>1, <5>1 DEF KnownInv, Names
      <4> QED
        BY <4>1, <4>2
    <3>3. my'.new \in DOMAIN proc' /\ proc'[my'.new].dep = my'.dep
      BY <2>1, <2>2, <3>1, Started
    <3> QED
      BY <2>2, <3>2, <3>3 DEF KnownInv
  <2>3. CASE proc' = proc /\ pc' \in {"fallback", "idle", "next"}
    BY <2>1, <2>3 DEF KnownInv, Live, Names, Fresh
  <2>4. Raise => pc' \in {"idle", "next"}
    BY <2>1, Raised
  <2> QED
    BY <1>7, <2>1, <2>2, <2>3, <2>4 DEF StartProcess, Goto
<1>8. CASE WaitForHealth
  <2>1. mem' = mem /\ file' = file /\ my' = my /\ pc = "health"
    BY <1>8 DEF WaitForHealth, Goto, store
  <2>2. CASE pc' = "markReady" /\ lost' = lost /\ Live(my.new)
    <3>1. \A p \in DOMAIN proc' : proc'[p].dep = proc[p].dep /\ p \in DOMAIN proc
      BY <1>8, Waited
    <3>2. \A p \in DOMAIN proc' : Live(p)' => Live(p)
      BY <1>8, <2>2, Waited DEF Live
    <3>3. my.new \in DOMAIN proc' /\ proc'[my.new].dep = my.dep
      BY <1>0, <2>1, <2>2, <3>1, <1>8, Waited DEF KnownInv, Live
    <3> QED
      BY <2>1, <2>2, <3>1, <3>2, <3>3 DEF KnownInv, Names, Fresh
  <2>3. CASE pc' = "fallback" /\ proc' = proc /\ lost' \in {lost, lost \cup {my.new}} /\ (Live(my.new) => my.new \in lost')
    BY <2>1, <2>3 DEF KnownInv, Live, Names, Fresh
  <2> QED
    BY <1>8, <2>2, <2>3, Waited
<1>9. CASE Fallback
  <2>1. my.rt.pid = 0 /\ pc = "fallback"
    BY <1>9 DEF Fallback, PidInv, Starting
  <2>2. mem' = mem /\ file' = file /\ proc' = proc /\ lost' = lost
    BY <1>9, <2>1, NothingToKill DEF Fallback, store
  <2>3. (pc' = "markReady" /\ my'.new = 0) \/ pc' = "fail"
    BY <1>9, FallenBack DEF Fallback, Goto, TypeInv
  <2> QED
    BY <1>0, <2>1, <2>2, <2>3 DEF KnownInv, Live, Names, Fresh
<1>10. CASE StopProcess \/ PauseProcess
  <2>1. /\ mem' = mem /\ file' = file /\ my'.dep = my.dep /\ pc \in {"stop", "pause"}
        /\ pc' \in {"markTerminated", "erase", "markSuspended"} /\ my.dep \in Deployments
    BY <1>10, PauseFrame DEF StopProcess, PauseProcess, Goto, store, TypeInv, InHandler
  <2>2. my.rt = mem[my.dep] /\ my.rt.pid \in Nat
    BY <2>1 DEF StageInv, TypeInv, Recs
  <2>3. /\ DOMAIN proc' = DOMAIN proc
        /\ \A x \in DOMAIN proc : proc'[x].dep = proc[x].dep /\ (x # my.rt.pid => proc'[x] = proc[x])
        /\ lost \subseteq lost'
        /\ my.rt.pid \in DOMAIN proc /\ proc'[my.rt.pid].st \in {"booting", "serving"} => my.rt.pid \in lost'
    BY <1>10, <2>2, Killed DEF StopProcess, PauseProcess
  <2>4. \A p \in DOMAIN proc' : Live(p)' /\ p \notin lost' => Live(p) /\ p \notin lost /\ p # my.rt.pid
    BY <2>3 DEF Live
  <2>5. (Live(mem[my.dep].pid) => mem[my.dep].pid \in lost)'
    <3>1. (mem[my.dep].pid)' = my.rt.pid
      BY <2>1, <2>2
    <3> QED
      BY <2>3, <3>1 DEF Live
  <2> QED
    BY <2>1, <2>2, <2>3, <2>4, <2>5 DEF KnownInv, Names, Fresh
<1>11. CASE EraseFiles
  BY <1>11 DEF EraseFiles, Goto, KnownInv, Live, Names, Fresh, store
<1>12. CASE Restart
  <2>1. mem' = file /\ file' = file /\ pc' = "idle"
    BY <1>12 DEF Restart
  <2>2. CASE proc' = <<>>
    BY <2>1, <2>2 DEF KnownInv
  <2>3. CASE proc' = proc /\ lost' = lost \cup {p \in DOMAIN proc : Live(p) /\ ~Named(p)}
    BY <2>1, <2>3 DEF KnownInv, Live, Names, Fresh, Named
  <2> QED
    BY <1>12, <2>2, <2>3 DEF Restart
<1>13. ASSUME NEW x \in DOMAIN proc, Exit(x) \/ Die(x) PROVE KnownInv'
  <2>1. DOMAIN proc' = DOMAIN proc /\ proc'[x].st \in {"exited", "killed"} /\ proc'[x].dep = proc[x].dep
        /\ \A p \in DOMAIN proc \ {x} : proc'[p] = proc[p]
    BY <1>13, ProcessOf DEF Exit, Die
  <2>2. mem' = mem /\ file' = file /\ lost' = lost /\ my' = my /\ pc' = pc
    BY <1>13 DEF Exit, Die, store, pass
  <2>3. \A p : Live(p)' => Live(p) /\ p # x
    BY <2>1 DEF Live
  <2>4. \A p \in DOMAIN proc : proc'[p].dep = proc[p].dep
    BY <2>1
  <2> QED
    BY <2>1, <2>2, <2>3, <2>4 DEF KnownInv, Names, Fresh
<1>14. CASE UNCHANGED <<store, pass, proc, lost>>
  BY <1>14 DEF KnownInv, Live, Names, Fresh, store, pass
<1> QED
  BY <1>1, <1>2, <1>3, <1>4, <1>5, <1>6, <1>7, <1>8, <1>9, <1>10, <1>11, <1>12, <1>13, <1>14
     DEF Next, PassStep, Handler, vars, world, LeaseEvent

-----------------------------------------------------------------------------
(* Files of a terminated record that names a process.                       *)
FilesInv ==
  /\ \A d \in Deployments : /\ d \notin left /\ mem[d].status = "terminated" /\ mem[d].pid # 0 => files[d] = {}
                            /\ file[d].status = "terminated" /\ file[d].pid # 0 => mem[d] = file[d]
  /\ pc = "markTerminated" /\ my.rt.pid # 0 /\ my.dep \notin left => files[my.dep] = {}

LEMMA InitFiles == Init => FilesInv
BY OfNothing DEF Init, FilesInv

LEMMA SavedFiles ==
  ASSUME TypeInv, StageInv, FilesInv, my.dep \in Deployments, NEW r \in Recs, NEW l, NEW m, Saved(r, l, m),
         pc \in Starting \cup Leaving \cup {"remove"}, l # "markTerminated",
         r.status = "terminated" /\ r.pid # 0 /\ my.dep \notin left => files[my.dep] = {}
  PROVE  FilesInv'
<1>1. ~(mem[my.dep].status = "terminated" /\ mem[my.dep].pid # 0)
  BY DEF StageInv
<1>2. ~(file[my.dep].status = "terminated" /\ file[my.dep].pid # 0)
  BY <1>1 DEF FilesInv
<1>3. files' = files /\ left' = left /\ pc' # "markTerminated"
  BY DEF Saved
<1>4. ASSUME NEW d \in Deployments
      PROVE  /\ d \notin left /\ mem'[d].status = "terminated" /\ mem'[d].pid # 0 => files[d] = {}
             /\ file'[d].status = "terminated" /\ file'[d].pid # 0 => mem'[d] = file'[d]
  BY <1>2 DEF Saved, FilesInv
<1> QED
  BY <1>3, <1>4 DEF FilesInv

LEMMA StepFiles ==
  ASSUME TypeInv, PidInv, StageInv, FilesInv, [Next]_vars
  PROVE  FilesInv'
<1>1. CASE Accept \/ MarkStarting \/ MarkReady \/ Fail \/ MarkSuspended
  <2>1. PICK r \in Recs, l \in {"stage", "popen", "report"}, m \in Frames :
              /\ my.dep \in Deployments /\ pc \in Saving
              /\ Saved(r, l, m) /\ r.status # "terminated"
    BY <1>1, StartSaved DEF Carries, Saving
  <2> QED
    BY <2>1, SavedFiles DEF Saving, Starting, Leaving
<1>2. CASE MarkTerminated
  <2>1. PICK r \in Recs, l \in {"remove", "report"}, m \in Frames :
              my.dep \in Deployments /\ Saved(r, l, m) /\ r.pid = my.rt.pid
    BY <1>2, TerminatedSaved
  <2>2. pc = "markTerminated"
    BY <1>2 DEF MarkTerminated
  <2>3. r.pid # 0 /\ my.dep \notin left => files[my.dep] = {}
    BY <2>1, <2>2 DEF FilesInv
  <2> QED
    BY <2>1, <2>2, <2>3, SavedFiles DEF Leaving
<1>3. CASE Remove
  BY <1>3, RemovalSaved, SavedFiles, OfNothing
<1>4. CASE BeginPass \/ EndPass \/ Report
  BY <1>4 DEF BeginPass, EndPass, Report, Goto, Leave, FilesInv, store, world
<1>5. ASSUME NEW d \in Deployments, Visit(d) PROVE FilesInv'
  BY <1>5, Visited DEF FilesInv
<1>6. CASE StageArtifact
  <2>1. my.dep \in Deployments /\ mem[my.dep].status # "terminated"
    BY <1>6 DEF StageArtifact, TypeInv, InHandler, StageInv, Starting
  <2>2. UNCHANGED store /\ left' = left /\ \A d \in Deployments \ {my.dep} : files'[d] = files[d]
    BY <1>6 DEF StageArtifact, TypeInv
  <2>3. pc' # "markTerminated"
    BY <1>6, <2>1, Raised DEF StageArtifact, Goto
  <2> QED
    BY <2>1, <2>2, <2>3 DEF FilesInv, store
<1>7. CASE StartProcess \/ WaitForHealth \/ Fallback
  <2>1. my.dep \in Deployments /\ UNCHANGED <<store, files, left>>
    BY <1>7 DEF StartProcess, WaitForHealth, Fallback, TypeInv, InHandler
  <2>2. pc' # "markTerminated"
    BY <1>7, <2>1, Raised DEF StartProcess, WaitForHealth, Fallback, Goto
  <2> QED
    BY <2>1, <2>2 DEF FilesInv, store
<1>8. CASE StopProcess
  <2>1. UNCHANGED <<store, files, left, my>> /\ (pc' = "markTerminated" => my.rt.pid = 0)
    BY <1>8 DEF StopProcess, Goto
  <2> QED
    BY <2>1 DEF FilesInv, store
<1>9. CASE PauseProcess
  BY <1>9 DEF PauseProcess, FilesInv, store
<1>10. CASE EraseFiles
  <2>1. my.dep \in Deployments /\ UNCHANGED <<store, my>>
    BY <1>10 DEF EraseFiles, Goto, TypeInv, InHandler
  <2>2. CASE files' = [files EXCEPT ![my.dep] = {}] /\ left' = left
    <3>1. files'[my.dep] = {} /\ \A d \in Deployments : files'[d] \in {files[d], {}}
      BY <2>1, <2>2 DEF TypeInv
    <3> QED
      BY <2>1, <2>2, <3>1 DEF FilesInv, store
  <2>3. CASE files' = files /\ left' = left \cup {my.dep}
    BY <2>1, <2>3 DEF FilesInv, store
  <2> QED
    BY <1>10, <2>2, <2>3 DEF EraseFiles, Erased
<1>11. CASE Restart
  BY <1>11 DEF Restart, FilesInv
<1>12. CASE UNCHANGED <<store, pass, files, left>>
  BY <1>12 DEF FilesInv, store, pass
<1> QED
  BY <1>1, <1>2, <1>3, <1>4, <1>5, <1>6, <1>7, <1>8, <1>9, <1>10, <1>11, <1>12
     DEF Next, PassStep, Handler, vars, world, LeaseEvent, Exit, Die

-----------------------------------------------------------------------------
(* What a ready record stands on, and what a start has reached.             *)
Serves(d, mode, p) ==
  \/ mode = "fallback" /\ p = 0
  \/ mode = "process" /\ p \in DOMAIN proc /\ proc[p].dep = d /\ proc[p].st \in {"serving", "exited"}

ServesInv ==
  ~stale =>
    /\ \A d \in Deployments :
         /\ mem[d].pid # 0 => mem[d].pid \in DOMAIN proc /\ proc[mem[d].pid].dep = d
         /\ mem[d].status = "ready" /\ ~(my.dep = d /\ pc \in Leaving) =>
              files[d] = Both /\ Serves(d, mem[d].mode, mem[d].pid)
    /\ pc \in {"markStarting", "popen", "health", "fallback", "markReady"} => files[my.dep] = Both
    /\ pc \in {"popen", "health"} => my.rt.mode = "process"
    /\ pc = "markReady" => Serves(my.dep, my.rt.mode, my.new)

LEMMA InitServes == Init => ServesInv
BY OfNothing DEF Init, ServesInv

LEMMA SavedServes ==
  ASSUME TypeInv, ServesInv, my.dep \in Deployments, NEW r \in Recs, NEW m,
         NEW l \in {"accept", "stage", "popen", "report", "remove", "next"}, Saved(r, l, m),
         ~stale /\ r.pid # 0 => r.pid \in DOMAIN proc /\ proc[r.pid].dep = my.dep,
         ~stale /\ r.status = "ready" => files[my.dep] = Both /\ Serves(my.dep, r.mode, r.pid),
         ~stale /\ l = "popen" => files[my.dep] = Both /\ m.dep = my.dep /\ m.rt.mode = "process"
  PROVE  ServesInv'
<1> SUFFICES ASSUME ~stale' PROVE ServesInv'
  BY DEF ServesInv
<1>1. proc' = proc /\ files' = files /\ ~stale
  BY DEF Saved
<1>2. ASSUME NEW d \in Deployments
      PROVE  /\ mem'[d].pid # 0 => mem'[d].pid \in DOMAIN proc /\ proc[mem'[d].pid].dep = d
             /\ mem'[d].status = "ready" /\ ~(my'.dep = d /\ pc' \in Leaving) =>
                  files[d] = Both /\ Serves(d, mem'[d].mode, mem'[d].pid)
  <2>1. CASE d = my.dep
    BY <1>1, <2>1 DEF Saved
  <2>2. CASE d # my.dep
    BY <1>1, <2>2 DEF Saved, ServesInv
  <2> QED
    BY <2>1, <2>2
<1>3. \/ pc' = "popen" /\ l = "popen" /\ my' = m
      \/ pc' \in {"accept", "stage", "report", "remove", "next", "idle"}
  BY DEF Saved
<1> QED
  BY <1>1, <1>2, <1>3 DEF ServesInv, Serves

LEMMA StepServes ==
  ASSUME TypeInv, PidInv, StageInv, KnownInv, ServesInv, [Next]_vars
  PROVE  ServesInv'
<1>0. 0 \notin DOMAIN proc
  BY NoPidZero
<1>1. CASE Accept \/ MarkStarting \/ MarkReady \/ Fail \/ MarkSuspended
  <2>1. PICK r \in Recs, l \in {"stage", "popen", "report"}, m \in Frames :
              /\ my.dep \in Deployments /\ pc \in Saving
              /\ Saved(r, l, m) /\ m.dep = my.dep /\ m.rt = r
              /\ l = "popen" => pc = "markStarting" /\ r.mode = "process"
              /\ pc = "markReady" => r.status = "ready" /\ r.pid = my.new /\ r.mode = my.rt.mode
              /\ pc # "markReady" => r.pid = my.rt.pid /\ r.status # "ready"
    BY <1>1, StartSaved DEF Carries, Saving
  <2>2. pc # "markReady" => r.pid = 0
    BY <2>1 DEF PidInv, Saving, Starting
  <2>3. CASE pc = "markReady"
    <3>1. ~stale => files[my.dep] = Both /\ Serves(my.dep, r.mode, r.pid)
      BY <2>1, <2>3 DEF ServesInv
    <3>2. ~stale /\ r.pid # 0 => r.pid \in DOMAIN proc /\ proc[r.pid].dep = my.dep
      BY <3>1 DEF Serves
    <3> QED
      BY <2>1, <2>3, <3>1, <3>2, SavedServes
  <2>4. CASE pc # "markReady"
    <3>1. ~stale /\ l = "popen" => files[my.dep] = Both
      BY <2>1 DEF ServesInv
    <3> QED
      BY <2>1, <2>2, <2>4, <3>1, SavedServes
  <2> QED
    BY <2>3, <2>4
<1>2. CASE MarkTerminated
  <2>1. PICK r \in Recs, l \in {"remove", "report"}, m \in Frames :
              my.dep \in Deployments /\ Saved(r, l, m) /\ r.pid = my.rt.pid /\ r.status = "terminated"
    BY <1>2, TerminatedSaved
  <2>2. r.pid = mem[my.dep].pid
    BY <1>2, <2>1 DEF MarkTerminated, StageInv
  <2>3. ~stale /\ r.pid # 0 => r.pid \in DOMAIN proc /\ proc[r.pid].dep = my.dep
    BY <2>1, <2>2 DEF ServesInv
  <2> QED
    BY <2>1, <2>3, SavedServes
<1>3. CASE Remove
  BY <1>3, RemovalSaved, SavedServes, OfNothing
<1>4. CASE BeginPass \/ EndPass \/ Report
  <2>1. UNCHANGED <<store, proc, files, stale>> /\ pc \notin Leaving /\ pc' \in {"idle", "next", "remove"}
    BY <1>4 DEF BeginPass, EndPass, Report, Goto, Leave, store, world, Leaving
  <2> QED
    BY <2>1 DEF ServesInv, Serves, store
<1>5. ASSUME NEW d \in Deployments, Visit(d) PROVE ServesInv'
  BY <1>5, Visited DEF ServesInv, Serves, Leaving
<1>6. CASE StageArtifact
  <2>1. /\ my.dep \in Deployments /\ mem[my.dep].status # "ready" /\ pc \notin Leaving
        /\ mem' = mem /\ proc' = proc /\ stale' = stale
    BY <1>6 DEF StageArtifact, TypeInv, InHandler, StageInv, Starting, Leaving, store
  <2>2. \A d \in Deployments \ {my.dep} : files'[d] = files[d]
    BY <1>6 DEF StageArtifact, TypeInv
  <2>3. (pc' = "markStarting" /\ my' = my /\ files'[my.dep] = Both) \/ pc' \in {"fail", "idle", "next"}
    BY <1>6, <2>1, Raised DEF StageArtifact, Goto, TypeInv
  <2> QED
    BY <2>1, <2>2, <2>3 DEF ServesInv, Serves
<1>7. CASE StartProcess
  <2>1. /\ my.dep \in Deployments /\ pc = "popen" /\ ~Running(my.rt.pid) /\ my \in Frames
        /\ mem' = mem /\ files' = files /\ stale' = stale
    BY <1>0, <1>7 DEF StartProcess, PidInv, Starting, TypeInv, InHandler, Running, store
  <2>2. /\ DOMAIN proc \subseteq DOMAIN proc'
        /\ \A p \in DOMAIN proc : proc'[p] = proc[p]
    BY <1>7, <2>1, Started DEF StartProcess
  <2>3. \/ pc' = "health" /\ my'.dep = my.dep /\ my'.rt = my.rt
        \/ pc' = "fallback" /\ my' = my
        \/ pc' \in {"idle", "next"}
    BY <1>7, <2>1, Raised, FramedNew DEF StartProcess, Goto, Frames
  <2>4. ASSUME ~stale, NEW d \in Deployments
        PROVE  /\ mem[d].pid # 0 => mem[d].pid \in DOMAIN proc' /\ proc'[mem[d].pid].dep = d
               /\ mem[d].status = "ready" => files[d] = Both /\ Serves(d, mem[d].mode, mem[d].pid)'
    BY <2>1, <2>2, <2>4 DEF ServesInv, Serves, Leaving
  <2> QED
    BY <2>1, <2>3, <2>4 DEF ServesInv
<1>8. CASE WaitForHealth
  <2>1. /\ my.dep \in Deployments /\ pc = "health" /\ my' = my
        /\ mem' = mem /\ files' = files /\ stale' = stale
    BY <1>8 DEF WaitForHealth, Goto, TypeInv, InHandler, store
  <2>2. /\ DOMAIN proc' = DOMAIN proc
        /\ \A x \in DOMAIN proc : proc'[x].dep = proc[x].dep /\ proc'[x].st \in {proc[x].st, "serving"}
        /\ \/ pc' = "markReady" /\ my.new \in DOMAIN proc /\ proc'[my.new].st = "serving"
           \/ pc' = "fallback"
    BY <1>8, Waited DEF Live
  <2>3. ~stale => my.rt.mode = "process" /\ files[my.dep] = Both
    BY <2>1 DEF ServesInv
  <2>4. my.new \in DOMAIN proc => proc[my.new].dep = my.dep
    BY <1>0, <2>1 DEF KnownInv
  <2> QED
    BY <2>1, <2>2, <2>3, <2>4 DEF ServesInv, Serves, Leaving
<1>9. CASE Fallback
  <2>1. my.rt.pid = 0 /\ pc = "fallback"
    BY <1>9 DEF Fallback, PidInv, Starting
  <2>2. mem' = mem /\ files' = files /\ proc' = proc /\ stale' = stale
    BY <1>9, <2>1, NothingToKill DEF Fallback, store
  <2>3. (pc' = "markReady" /\ my'.new = 0 /\ my'.dep = my.dep /\ my'.rt.mode = "fallback") \/ pc' = "fail"
    BY <1>9, FallenBack DEF Fallback, Goto, TypeInv
  <2> QED
    BY <2>1, <2>2, <2>3 DEF ServesInv, Serves, Leaving
<1>10. CASE StopProcess \/ PauseProcess
  <2>1. /\ mem' = mem /\ files' = files /\ stale' = stale /\ my'.dep = my.dep /\ pc \in {"stop", "pause"}
        /\ pc' \in {"markTerminated", "erase", "markSuspended"} /\ my.dep \in Deployments
    BY <1>10, PauseFrame DEF StopProcess, PauseProcess, Goto, store, TypeInv, InHandler
  <2>2. my.rt = mem[my.dep] /\ my.rt.pid \in Nat
    BY <2>1 DEF StageInv, TypeInv, Recs
  <2>3. /\ DOMAIN proc' = DOMAIN proc
        /\ \A x \in DOMAIN proc : proc'[x].dep = proc[x].dep /\ (x # my.rt.pid => proc'[x] = proc[x])
    BY <1>10, <2>2, Killed DEF StopProcess, PauseProcess
  <2>4. ~stale => \A d \in Deployments \ {my.dep} : mem[d].pid \in DOMAIN proc => mem[d].pid # my.rt.pid
    BY <1>0, <2>1, <2>2 DEF ServesInv
  <2> QED
    BY <2>1, <2>3, <2>4 DEF ServesInv, Serves, Leaving
<1>11. CASE EraseFiles
  <2>1. my.dep \in Deployments /\ UNCHANGED <<store, my, proc, stale>> /\ pc' = "markTerminated" /\ pc = "erase"
    BY <1>11 DEF EraseFiles, Goto, TypeInv, InHandler
  <2>2. \A d \in Deployments \ {my.dep} : files'[d] = files[d]
    BY <1>11 DEF EraseFiles, TypeInv
  <2> QED
    BY <2>1, <2>2 DEF ServesInv, Serves, Leaving, store
<1>12. CASE Restart
  <2>1. CASE proc' = proc /\ (stale \/ mem # file \/ pc \notin {"idle", "next"} <=> stale')
    BY <1>12, <2>1 DEF Restart, ServesInv, Serves, Leaving
  <2> QED
    BY <1>12, <2>1 DEF Restart, ServesInv
<1>13. ASSUME NEW x \in DOMAIN proc, Exit(x) \/ Die(x) PROVE ServesInv'
  <2>1. /\ DOMAIN proc' = DOMAIN proc
        /\ \A p \in DOMAIN proc : proc'[p].dep = proc[p].dep
        /\ \A p \in DOMAIN proc : proc[p].st \in {"serving", "exited"} => proc'[p].st \in {"serving", "exited"}
    BY <1>13, ProcessOf DEF Exit, Die
  <2>2. mem' = mem /\ my' = my /\ pc' = pc /\ files' = files /\ stale' = stale
    BY <1>13 DEF Exit, Die, store, pass
  <2>3. ASSUME NEW d, NEW mode, NEW p, Serves(d, mode, p) PROVE Serves(d, mode, p)'
    BY <2>1, <2>3 DEF Serves
  <2>4. \A p \in DOMAIN proc : p \in DOMAIN proc' /\ proc'[p].dep = proc[p].dep
    BY <2>1
  <2>5. Serves(my.dep, my.rt.mode, my.new) => Serves(my.dep, my.rt.mode, my.new)'
    BY <2>2, <2>3
  <2>6. \A d \in Deployments :
          Serves(d, mem[d].mode, mem[d].pid) => Serves(d, mem[d].mode, mem[d].pid)'
    BY <2>2, <2>3
  <2> QED
    BY <2>2, <2>4, <2>5, <2>6 DEF ServesInv
<1>14. CASE UNCHANGED <<store, pass, proc, files, stale>>
  BY <1>14 DEF ServesInv, Serves, store, pass
<1> QED
  BY <1>1, <1>2, <1>3, <1>4, <1>5, <1>6, <1>7, <1>8, <1>9, <1>10, <1>11, <1>12, <1>13, <1>14
     DEF Next, PassStep, Handler, vars, world, LeaseEvent

-----------------------------------------------------------------------------
(* Theorems *)

ProcInv == TypeInv /\ PidInv /\ StageInv /\ KnownInv /\ FilesInv /\ ServesInv

THEOREM ProcInvHolds == Spec => []ProcInv
<1>1. Init => ProcInv
  BY InitTypes, InitPids, InitStage, InitKnown, InitFiles, InitServes DEF ProcInv
<1>2. ProcInv /\ [Next]_vars => ProcInv'
  BY StepTypes, StepPids, StepStage, StepKnown, StepFiles, StepServes DEF ProcInv
<1> QED
  BY <1>1, <1>2, PTL DEF Spec

(* The values of the records, and that a start never has a process of       *)
(* before on its hands (inference.py:296-307).                              *)
THEOREM ProcessTypes == Spec => []ProcTypeOK
<1>1. ProcInv => ProcTypeOK
  BY DEF ProcInv, TypeInv, PidInv, ProcTypeOK, Recs, Nameless, Starting
<1> QED
  BY <1>1, ProcInvHolds, PTL

(* No process lives on unknown, whatever saves, retries, suspensions and    *)
(* restarts do (services.py:856-898, inference.py:250-283).                 *)
THEOREM ProcessesAreKnownHolds == Spec => []ProcessesAreKnown
<1>1. ProcInv => ProcessesAreKnown
  BY DEF ProcInv, KnownInv, ProcessesAreKnown, Names, Fresh
<1> QED
  BY <1>1, ProcInvHolds, PTL

(* A ready record serves what it promises, until a restart that lost        *)
(* something (services.py:545-583, repository.py:56-67).                    *)
THEOREM ReadyServesHolds == Spec => []ReadyServes
<1>1. ProcInv => ReadyServes
  BY DEF ProcInv, ServesInv, ReadyServes, Serves
<1> QED
  BY <1>1, ProcInvHolds, PTL

(* A teardown that had a process to stop erases what it ran on              *)
(* (services.py:869-874).                                                   *)
THEOREM ErasedWithProcessHolds == Spec => []ErasedWithProcess
<1>1. ProcInv => ErasedWithProcess
  BY DEF ProcInv, FilesInv, ErasedWithProcess
<1> QED
  BY <1>1, ProcInvHolds, PTL

(* The control plane is told of nothing but failure that is not in the file *)
(* yet (services.py:583-585, 885-898, 957-964).                             *)
LEMMA StepReports ==
  ASSUME ProcInv, [Next]_vars, NEW d \in Deployments, told'[d] # told[d], told'[d] # "failed"
  PROVE  file[d].status = told'[d]
<1> USE DEF ProcInv
<1>1. CASE Report
  <2>1. my.dep \in Deployments /\ told' = [told EXCEPT ![my.dep] = my.rt.status]
        /\ my.rt = file[my.dep]
    BY <1>1 DEF Report, TypeInv, InHandler, StageInv
  <2> QED
    BY <2>1 DEF TypeInv
<1>2. CASE Accept \/ MarkStarting \/ MarkReady \/ Fail \/ MarkSuspended \/ MarkTerminated \/ Remove
  <2>1. my.dep \in Deployments /\ \E r, l, m : Saved(r, l, m)
    BY <1>2, StartSaved, TerminatedSaved, RemovalSaved
  <2>2. told' = told \/ told' = [told EXCEPT ![my.dep] = "failed"]
    BY <2>1 DEF Saved
  <2> QED
    BY <2>1, <2>2 DEF TypeInv
<1>3. CASE Raise /\ InHandler
  BY <1>3, Raised DEF TypeInv
<1>4. CASE told' = told
  BY <1>4
<1>5. ASSUME NEW e \in Deployments, Visit(e) PROVE told' = told
  BY <1>5, Visited
<1> QED
  BY <1>1, <1>2, <1>3, <1>4, <1>5
     DEF Next, PassStep, Handler, BeginPass, EndPass, StageArtifact, StartProcess, WaitForHealth, Fallback,
         StopProcess, EraseFiles, PauseProcess, Restart, Exit, Die, LeaseEvent, vars, world, InHandler

THEOREM ReportsAreDurableHolds == Spec => ReportsAreDurable
<1>1. ProcInv /\ [Next]_vars =>
        [\A d \in Deployments : told'[d] # told[d] /\ told'[d] # "failed" => file[d].status = told'[d]]_vars
  BY StepReports
<1> QED
  BY <1>1, ProcInvHolds, PTL DEF Spec, ReportsAreDurable

=============================================================================
