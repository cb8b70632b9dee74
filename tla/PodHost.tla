------------------------------ MODULE PodHost ------------------------------
(***************************************************************************)
(* What a pod needs of its host: an SSH port, ports of its own, and a       *)
(* loop-mounted volume.  The pass chooses ports by probing, binds them much *)
(* later with docker run, unbinds them when the pod is suspended, and binds *)
(* the same ones again when it resumes.  Cards, terminate requests and the  *)
(* control plane's failures are NodeAgent's.                                *)
(***************************************************************************)
EXTENDS Naturals, Sequences, FiniteSets, Functions

CONSTANTS
  Pods,
  SshPorts, UserPorts, \* range(start, end) of the two settings, end excluded
  UserEnd,             \* user_port_range_end itself
  Requested,           \* the container ports each pod asks for, deduplicated
  SeesHost,            \* the agent runs in the network namespace of the host
  Budgets              \* what may happen to the pods, and how often: one of these bounds

Events == {"crash", "disk", "docker", "grab", "suspend"}

ASSUME PodHostAssumption ==
  /\ SshPorts \cap (UserPorts \cup {UserEnd}) = {} /\ UserEnd \notin UserPorts
  /\ \A d \in Pods : Requested[d] \in Seq(Nat) /\ IsInjective(Requested[d])
  /\ SeesHost \in BOOLEAN
  /\ Budgets \subseteq [Events -> Nat]

VARIABLES
  rec,      \* repository: status, ssh_port (0: None), port_mappings, container_id or None
  known,    \* _volume_records (memory only)
  pc, my,   \* the pass: its next call, and the locals of the handler it is in
  view,     \* the leases of this pass still to be visited
  ctr,      \* docker: the container of each pod's name and the host ports it publishes
  host,     \* ports other processes of the host listen on
  vol,      \* the ext4 image of each pod on disk, and how often it is mounted
  lease,    \* control plane
  budget,   \* what may still happen
  swallowed, \* the clean-up commands that failed unheard and left their object (history)
  restarted \* the agent was started again (history)

agent  == <<rec, known, pc, my, view>>
world  == <<ctr, host, vol, lease, swallowed, restarted>>
outer  == <<world, budget>>
vars   == <<agent, outer>>

NoMap  == [c \in {} |-> 0]
NoRec  == [status |-> "none", ssh |-> 0, map |-> NoMap, cid |-> FALSE]
NoCtr  == [st |-> "none", ports |-> {}]
NoVol  == [image |-> FALSE, mounts |-> 0]
NoPod  == "nopod"
Idle   == [pod |-> NoPod, rt |-> NoRec, left |-> <<>>]

SpendN(e, n) == budget[e] >= n /\ budget' = [budget EXCEPT ![e] = @ - n]
Spend(e) == SpendN(e, 1)
Save(d, r) == rec' = [rec EXCEPT ![d] = r]
Goto(l)    == pc' = l /\ UNCHANGED my
Leave      == pc' = "next" /\ my' = Idle
Handle(d, l, r) == pc' = l /\ my' = [pod |-> d, rt |-> r, left |-> Requested[d]]

-----------------------------------------------------------------------------
(* The pass over the leases it has read *)

BeginPass ==
  /\ pc = "idle"
  /\ view' = lease
  /\ pc' = "next"
  /\ UNCHANGED <<rec, known, my, outer>>

(* A lease that goes on dispatches or resumes; a suspended one suspends; one *)
(* that has ended is torn down. The teardown before a retry finds a record  *)
(* without container_id: it leaves container and volume alone.              *)
Dispatches(d) == view[d] = "active" /\ rec[d].status \in {"none", "accepted", "starting"}
ResumesNever(d) == FALSE
Resumes(d)    == view[d] = "active" /\ rec[d].status = "suspended"
Suspends(d)   == view[d] = "suspended" /\ rec[d].status \in {"ready", "starting"}
TearsDown(d)  == view[d] = "ended" /\ rec[d].status \notin {"none", "terminated"}

Visit(d) ==
  /\ pc = "next" /\ view[d] # "none"
  /\ view' = [view EXCEPT ![d] = "none"]
  /\ \/ /\ Dispatches(d)
        /\ Save(d, [NoRec EXCEPT !.status = "accepted"])
        /\ Handle(d, "ssh", rec'[d])
     \/ Resumes(d) /\ Handle(d, "start", rec[d]) /\ UNCHANGED rec
     \/ Suspends(d) /\ Handle(d, "pause", rec[d]) /\ UNCHANGED rec
     \/ TearsDown(d) /\ Handle(d, "stop", rec[d]) /\ UNCHANGED rec
     \/ /\ ~(Dispatches(d) \/ Resumes(d) \/ Suspends(d) \/ TearsDown(d))
        /\ UNCHANGED <<rec, pc, my>>
  /\ UNCHANGED <<known, outer>>

EndPass ==
  /\ pc = "next" /\ \A d \in Pods : view[d] = "none"
  /\ Goto("idle")
  /\ UNCHANGED <<rec, known, view, outer>>

(* _fail_runtime: the record as it was saved last, ports chosen since lost. *)
Fail ==
  /\ Save(my.pod, [rec[my.pod] EXCEPT !.status = "failed"])
  /\ Leave

-----------------------------------------------------------------------------
(* Choosing ports: docker ps lists running containers only, and nothing if  *)
(* it fails; the socket test sees the processes of the agent's own network  *)
(* namespace.                                                               *)

Published(d) == IF ctr[d].st = "running" THEN ctr[d].ports ELSE {}
InDocker     == UNION {Published(d) : d \in Pods}
Free(S, bound) == S \ (bound \cup (IF SeesHost THEN host ELSE {}))
Mine         == Range(my.rt.map)

Listed(bound) ==
  \/ bound = InDocker /\ UNCHANGED budget
  \/ bound = {} /\ Spend("docker")

ChooseSsh ==
  /\ pc = "ssh"
  /\ \E bound \in {InDocker, {}} :
       /\ Listed(bound)
       /\ \/ /\ \E p \in Free(SshPorts, bound) : my' = [my EXCEPT !.rt.ssh = p]
             /\ pc' = "user" /\ UNCHANGED rec
          \/ Free(SshPorts, bound) = {} /\ Fail
  /\ UNCHANGED <<known, view, world>>

Map(c, p) == my' = [my EXCEPT !.left = Tail(@),
                              !.rt.map = [x \in DOMAIN @ \cup {c} |-> IF x = c THEN p ELSE @[x]]]

(* A container port inside the range, its end included, is published under  *)
(* its own number if it can be.                                             *)
SameNumber(c, bound) == c \in Free(UserPorts \cup {UserEnd}, bound) \ Mine

ChooseSame ==
  /\ pc = "user"
  /\ \/ my.left = <<>> /\ Goto("format") /\ UNCHANGED budget
     \/ \E bound \in {InDocker, {}} :
          /\ my.left # <<>> /\ Listed(bound)
          /\ \/ SameNumber(Head(my.left), bound) /\ Map(Head(my.left), Head(my.left)) /\ UNCHANGED pc
             \/ ~SameNumber(Head(my.left), bound) /\ Goto("any")
  /\ UNCHANGED <<rec, known, view, world>>

(* Any other free port of the range, or, if there is none at all, no more   *)
(* ports for this pod.                                                      *)
CandidatesByDefault(bound) == Free(SshPorts, bound) \ Mine
CandidatesRepeated(bound) == Free(UserPorts, bound)
Candidates(bound) == Free(UserPorts, bound) \ Mine

KeepAsking(left) == left
GiveUp(left) == <<>>

ChooseAny ==
  /\ pc = "any"
  /\ \E bound \in {InDocker, {}} :
       /\ Listed(bound)
       /\ \/ \E p \in Candidates(bound) : Map(Head(my.left), p)
          \/ Free(UserPorts, bound) = {} /\ my' = [my EXCEPT !.left = GiveUp(@)]
  /\ pc' = "user"
  /\ UNCHANGED <<rec, known, view, world>>

(* A port this pod has chosen before is free as far as the probe can tell:  *)
(* the loop asks for another one.                                           *)
AskAgain ==
  /\ pc = "any"
  /\ Free(UserPorts, InDocker) \cap Mine # {}
  /\ UNCHANGED vars

-----------------------------------------------------------------------------
(* create_loop_volume: truncate and mkfs.ext4 -F (which may refuse an image *)
(* that is mounted), then mount.  Any failure, also of a command that timed *)
(* out after taking effect, unmounts once and deletes the image, as the     *)
(* teardown does.  A failing umount is swallowed by both; a failing unlink  *)
(* only by the teardown: it leaves the roll-back as an error that no handler *)
(* expects, and the record as it is.                                        *)

Less(n) == IF n = 0 THEN 0 ELSE n - 1
DestroyedNotUnmounted(v, failed) == [v EXCEPT !.image = IF "unlink" \in failed THEN @ ELSE FALSE]
Destroyed(v, failed) ==
  [image |-> IF "unlink" \in failed THEN v.image ELSE FALSE,
   mounts |-> IF "umount" \in failed THEN v.mounts ELSE Less(v.mounts)]

(* The commands of a clean-up of v that can leave something behind.         *)
Cleanups(v) ==
  (IF v.mounts > 0 THEN {"umount"} ELSE {}) \cup (IF v.image THEN {"unlink"} ELSE {})

Destroy(d, v, failed) ==
  /\ vol' = [vol EXCEPT ![d] = Destroyed(v, failed)]
  /\ swallowed' = swallowed \cup ({d} \X failed)

DiskFails(d, v) ==
  \E failed \in SUBSET Cleanups(v), n \in {0, 1} :
    /\ n = 0 => vol[d].mounts > 0
    /\ SpendN("disk", n + Cardinality(failed))
    /\ Destroy(d, v, failed)
    /\ IF "unlink" \in failed THEN Leave /\ UNCHANGED rec ELSE Fail
    /\ UNCHANGED known

FormatVolume ==
  LET d == my.pod
      v == [vol[d] EXCEPT !.image = TRUE]
  IN /\ pc = "format"
     /\ \/ /\ vol' = [vol EXCEPT ![d] = v]
           /\ Goto("mount")
           /\ UNCHANGED <<rec, known, budget, swallowed>>
        \/ DiskFails(d, vol[d])
        \/ DiskFails(d, v)
     /\ UNCHANGED <<view, ctr, host, lease, restarted>>

MountVolume ==
  LET d == my.pod
      v == [vol[d] EXCEPT !.mounts = @ + 1]
  IN /\ pc = "mount"
     /\ \/ /\ vol' = [vol EXCEPT ![d] = v]
           /\ known' = known \cup {d}
           /\ Goto("save")
           /\ UNCHANGED <<rec, budget, swallowed>>
        \/ DiskFails(d, vol[d])
        \/ DiskFails(d, v)
     /\ UNCHANGED <<view, ctr, host, lease, restarted>>

MarkStarting ==
  /\ pc = "save"
  /\ Save(my.pod, [my.rt EXCEPT !.status = "starting", !.map = NoMap])
  /\ Goto("run")
  /\ UNCHANGED <<known, view, outer>>

-----------------------------------------------------------------------------
(* start_pod: rm -f the name, then docker run, which binds every port or    *)
(* fails and leaves a container that never ran; then the record names the   *)
(* container and its ports.  A run may also be given up after it has taken  *)
(* effect, or fail because the rm -f before it failed unheard.              *)

Taken(d) == host \cup UNION {Published(e) : e \in Pods \ {d}}
Asked    == {my.rt.ssh} \cup Mine
AsksTwice == my.rt.ssh \in Mine \/ ~IsInjective(my.rt.map)
Binds    == Asked \cap Taken(my.pod) = {} /\ ~AsksTwice
Runs     == [st |-> "running", ports |-> Asked]
Created  == [st |-> "stopped", ports |-> Asked]

RunFails(d) ==
  /\ \/ ~Binds /\ ctr' = [ctr EXCEPT ![d] = Created] /\ UNCHANGED budget
     \/ /\ Spend("docker")
        /\ \E c \in {NoCtr, ctr[d], Created} \cup (IF Binds THEN {Runs} ELSE {}) : ctr' = [ctr EXCEPT ![d] = c]
  /\ Fail

RunPod ==
  LET d == my.pod
  IN /\ pc = "run"
     /\ \/ /\ Binds
           /\ ctr' = [ctr EXCEPT ![d] = Runs]
           /\ Goto("markReady")
           /\ UNCHANGED <<rec, budget>>
        \/ RunFails(d)
     /\ UNCHANGED <<known, view, host, vol, lease, swallowed, restarted>>

MarkReady ==
  /\ pc = "markReady"
  /\ Save(my.pod, [my.rt EXCEPT !.status = "ready", !.cid = TRUE])
  /\ Leave
  /\ UNCHANGED <<known, view, outer>>

(* pause_pod: docker stop, whose failure goes unheard, then the record.      *)
PausePod ==
  LET d == my.pod
  IN /\ pc = "pause"
     /\ \/ /\ ctr' = IF my.rt.cid /\ ctr[d].st = "running" THEN [ctr EXCEPT ![d].st = "stopped"] ELSE ctr
           /\ UNCHANGED budget
        \/ my.rt.cid /\ Spend("docker") /\ UNCHANGED ctr
     /\ Goto("markSuspended")
     /\ UNCHANGED <<rec, known, view, host, vol, lease, swallowed, restarted>>

MarkSuspended ==
  /\ pc = "markSuspended"
  /\ Save(my.pod, [my.rt EXCEPT !.status = "suspended"])
  /\ Leave
  /\ UNCHANGED <<known, view, outer>>

(* resume_pod: docker start binds the same ports again, or fails and leaves *)
(* the pod suspended, also when it has taken effect before it is given up;  *)
(* a record without container_id starts nothing.                            *)
StartsUnchecked(d) == TRUE
Starts(d) == ctr[d].st # "none" /\ ctr[d].ports \cap Taken(d) = {}

ResumePod ==
  LET d == my.pod
      up == [ctr EXCEPT ![d].st = "running"]
  IN /\ pc = "start"
     /\ \/ ~my.rt.cid /\ Goto("markResumed") /\ UNCHANGED <<ctr, budget>>
        \/ /\ my.rt.cid /\ Starts(d)
           /\ ctr' = IF ctr[d].ports \cap Taken(d) = {} THEN up ELSE ctr
           /\ Goto("markResumed") /\ UNCHANGED budget
        \/ my.rt.cid /\ ~Starts(d) /\ Goto("markSuspended") /\ UNCHANGED <<ctr, budget>>
        \/ /\ my.rt.cid /\ Spend("docker")
           /\ ctr' = ctr \/ (Starts(d) /\ ctr' = up)
           /\ Goto("markSuspended")
     /\ UNCHANGED <<rec, known, view, host, vol, lease, swallowed, restarted>>

MarkResumed ==
  /\ pc = "markResumed"
  /\ Save(my.pod, [my.rt EXCEPT !.status = "ready"])
  /\ Leave
  /\ UNCHANGED <<known, view, outer>>

(* _terminate_runtime: the container and the volume only of a record with a *)
(* container_id, whatever becomes of docker rm, umount and unlink; a        *)
(* suspended record is removed altogether.                                  *)
StopPod ==
  LET d == my.pod
  IN /\ pc = "stop"
     /\ \/ /\ ctr' = IF my.rt.cid THEN [ctr EXCEPT ![d] = NoCtr] ELSE ctr
           /\ UNCHANGED <<budget, swallowed>>
        \/ /\ my.rt.cid /\ ctr[d].st # "none" /\ Spend("docker")
           /\ swallowed' = swallowed \cup {<<d, "rm">>}
           /\ UNCHANGED ctr
     /\ Goto(IF my.rt.cid THEN "delete" ELSE "markTerminated")
     /\ UNCHANGED <<rec, known, view, host, vol, lease, restarted>>

DeleteVolume ==
  LET d == my.pod
  IN /\ pc = "delete"
     /\ known' = known \ {d}
     /\ IF d \in known
          THEN \E failed \in SUBSET Cleanups(vol[d]) :
                 SpendN("disk", Cardinality(failed)) /\ Destroy(d, vol[d], failed)
          ELSE UNCHANGED <<vol, swallowed, budget>>
     /\ Goto("markTerminated")
     /\ UNCHANGED <<rec, view, ctr, host, lease, restarted>>

MarkTerminated ==
  /\ pc = "markTerminated"
  /\ Save(my.pod, IF my.rt.status = "suspended" THEN NoRec
                  ELSE [my.rt EXCEPT !.status = "terminated"])
  /\ Leave
  /\ UNCHANGED <<known, view, outer>>

-----------------------------------------------------------------------------
(* The agent dies and starts again; leases; other processes of the host.    *)

Restart ==
  /\ Spend("crash")
  /\ restarted' = TRUE
  /\ known' = {} /\ pc' = "idle" /\ my' = Idle
  /\ view' = [d \in Pods |-> "none"]
  /\ UNCHANGED <<rec, ctr, host, vol, lease, swallowed>>

LeaseEvent(d) ==
  /\ \/ lease[d] = "none" /\ lease' = [lease EXCEPT ![d] = "active"] /\ UNCHANGED budget
     \/ lease[d] = "active" /\ lease' = [lease EXCEPT ![d] = "suspended"] /\ Spend("suspend")
     \/ lease[d] = "suspended" /\ lease' = [lease EXCEPT ![d] = "active"] /\ UNCHANGED budget
     \/ lease[d] \in {"active", "suspended"} /\ lease' = [lease EXCEPT ![d] = "ended"] /\ UNCHANGED budget
  /\ UNCHANGED <<agent, ctr, host, vol, swallowed, restarted>>

GrabPort(p) ==
  /\ p \notin host \cup InDocker /\ Spend("grab")
  /\ host' = host \cup {p}
  /\ UNCHANGED <<agent, ctr, vol, lease, swallowed, restarted>>

Init ==
  /\ rec = [d \in Pods |-> NoRec] /\ known = {}
  /\ pc = "idle" /\ my = Idle /\ view = [d \in Pods |-> "none"]
  /\ ctr = [d \in Pods |-> NoCtr] /\ host = {} /\ vol = [d \in Pods |-> NoVol]
  /\ lease = [d \in Pods |-> "none"] /\ budget \in Budgets
  /\ swallowed = {} /\ restarted = FALSE

Handler ==
  \/ ChooseSsh \/ ChooseSame \/ ChooseAny \/ FormatVolume \/ MountVolume
  \/ MarkStarting \/ RunPod \/ MarkReady \/ PausePod \/ MarkSuspended
  \/ ResumePod \/ MarkResumed \/ StopPod \/ DeleteVolume \/ MarkTerminated

PassStep == BeginPass \/ EndPass \/ (\E d \in Pods : Visit(d)) \/ Handler

Next ==
  \/ PassStep \/ AskAgain \/ Restart
  \/ \E d \in Pods : LeaseEvent(d)
  \/ \E p \in SshPorts \cup UserPorts : GrabPort(p)

Spec == Init /\ [][Next]_vars

(* The worker loop ticks for ever, and every call of a handler has a        *)
(* timeout. A loop that keeps drawing finds any port it may still draw.     *)
FairSpec == Spec /\ WF_vars(PassStep)

-----------------------------------------------------------------------------
(* Chosen ports are free ones, records name the ports of their pod, and a   *)
(* volume is mounted twice only over a mount whose umount failed.           *)
PodHostTypeOK ==
  /\ \A d \in Pods : /\ rec[d].ssh \in SshPorts \cup {0}
                     /\ DOMAIN rec[d].map \subseteq Range(Requested[d])
                     /\ Range(rec[d].map) \subseteq UserPorts \cup {UserEnd}
                     /\ vol[d].mounts \in Nat
                     /\ restarted \/ <<d, "umount">> \in swallowed \/ vol[d].mounts <= 1
  /\ known \subseteq Pods /\ my.pod \in Pods \cup {NoPod}
  /\ swallowed \subseteq Pods \X {"rm", "umount", "unlink"}

(* With disjoint ranges no pod is ever run with the same host port twice,   *)
(* whatever mix of same-number and drawn ports its requests led to: docker  *)
(* would refuse that run (services.py:611-635, the used_host_ports set).    *)
NoPortTwice == pc \in {"format", "mount", "save", "run"} => ~AsksTwice

(* Until the agent is restarted, the ports a ready record names are all     *)
(* bound by its own running container, also after any number of suspensions *)
(* during which its ports were free for everybody (services.py:743-761,     *)
(* pod.py:351-385): no customer is given the address of another one's pod.  *)
ReadyIsReachable ==
  ~restarted =>
    \A d \in Pods : rec[d].status = "ready" /\ ~(my.pod = d /\ pc \in {"delete", "markTerminated", "markSuspended"}) =>
      {rec[d].ssh} \cup Range(rec[d].map) = Published(d)

(* What is left of a pod that had a container, once it is torn down and for *)
(* good, is what a command of its own start or teardown failed to remove:   *)
(* umount and unlink undo everything a start did, once each, whatever       *)
(* failed before, as long as the process that made the volume lives         *)
(* (services.py:872-883, pod.py: stop_pod, disk.py: destroy_loop_volume).   *)
TornDown(d) ==
  \/ my.pod = d /\ pc = "markTerminated" /\ my.rt.cid
  \/ rec[d].status = "terminated" /\ rec[d].cid

VolumeIsReclaimed ==
  ~restarted =>
    \A d \in Pods : TornDown(d) =>
      /\ ctr[d] = NoCtr \/ <<d, "rm">> \in swallowed
      /\ vol[d].mounts = 0 \/ <<d, "umount">> \in swallowed
      /\ ~vol[d].image \/ <<d, "unlink">> \in swallowed

(* All the free ports of the range are ports this pod has chosen already.   *)
Choosing == pc \in {"ssh", "user", "any"}
Exhausted == pc = "any" /\ Free(UserPorts, InDocker) # {} /\ Candidates(InDocker) = {}

(* The choice of ports comes to an end, with ports or with a failure, except *)
(* when the range runs out in the middle of one pod's requests.             *)
ChoosingEnds == Choosing ~> (~Choosing \/ Exhausted)

(* A suspended pod whose lease is active again resumes, or its ports have   *)
(* been given away, or the pass is caught in the loop.                      *)
ResumesOnItsPorts ==
  \A d \in Pods :
    lease[d] = "active" /\ rec[d].status = "suspended" ~>
      (lease[d] # "active" \/ rec[d].status = "ready" \/ ~Starts(d) \/ Exhausted)

(* services.py:628-633: when the range is exhausted the pod goes on with    *)
(* the ports it has ("exhausted user port range for %s — allocated %d/%d    *)
(* requested"): the choice always ends.                                     *)
ExhaustionIsNoticed == Choosing ~> ~Choosing

=============================================================================
