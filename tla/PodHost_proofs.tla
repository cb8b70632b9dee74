--------------------------- MODULE PodHost_proofs ---------------------------
(***************************************************************************)
(* The ports and volumes of any number of pods, on a host with any ports    *)
(* and with any number of crashes, disk failures and ports taken by others. *)
(***************************************************************************)
EXTENDS PodHost, TLAPS

Statuses == {"none", "accepted", "starting", "ready", "suspended", "terminated", "failed"}
Phases   == {"none", "active", "suspended", "ended"}
Labels   ==
  {"idle", "next", "ssh", "user", "any", "format", "mount", "save", "run", "markReady", "pause",
   "markSuspended", "start", "markResumed", "stop", "delete", "markTerminated"}

Ports  == UserPorts \cup {UserEnd}
Maps   == UNION {[C -> Ports] : C \in SUBSET Nat}
Recs   == [status : Statuses, ssh : SshPorts \cup {0}, map : Maps, cid : BOOLEAN]
Frames == [pod : Pods \cup {NoPod}, rt : Recs, left : Seq(Nat)]
Ctrs   == [st : {"none", "running", "stopped"}, ports : SUBSET (SshPorts \cup {0} \cup Ports)]
Vols   == [image : BOOLEAN, mounts : Nat]

InHandler == pc \notin {"idle", "next"}

(* Whoever is in a handler has a pod in its frame, and draws a port for a  *)
(* request that is left.                                                   *)
TypeInv ==
  /\ rec \in [Pods -> Recs] /\ known \subseteq Pods
  /\ pc \in Labels /\ my \in Frames /\ (InHandler => my.pod \in Pods)
  /\ (pc = "any" => my.left # <<>>)
  /\ view \in [Pods -> Phases] /\ lease \in [Pods -> Phases]
  /\ ctr \in [Pods -> Ctrs] /\ vol \in [Pods -> Vols] /\ restarted \in BOOLEAN
  /\ swallowed \subseteq Pods \X {"rm", "umount", "unlink"}

-----------------------------------------------------------------------------
(* Port mappings *)

(* A mapping with one more container port. *)
With(f, c, p) == [x \in DOMAIN f \cup {c} |-> IF x = c THEN p ELSE f[x]]

LEMMA EmptyMap == NoMap \in Maps /\ IsInjective(NoMap) /\ DOMAIN NoMap = {} /\ Range(NoMap) = {}
<1>1. NoMap \in [{} -> Ports]
  BY DEF NoMap
<1> QED
  BY <1>1 DEF Maps, NoMap, IsInjective, Range

LEMMA MapParts ==
  ASSUME NEW f \in Maps
  PROVE  DOMAIN f \subseteq Nat /\ Range(f) \subseteq Ports
<1>1. PICK C \in SUBSET Nat : f \in [C -> Ports]
  BY DEF Maps
<1> QED
  BY <1>1 DEF Range

LEMMA OneMore ==
  ASSUME NEW f \in Maps, NEW c \in Nat, NEW p \in Ports
  PROVE  /\ With(f, c, p) \in Maps
         /\ DOMAIN With(f, c, p) = DOMAIN f \cup {c}
         /\ Range(With(f, c, p)) \subseteq Range(f) \cup {p}
         /\ IsInjective(f) /\ p \notin Range(f) => IsInjective(With(f, c, p))
<1>1. With(f, c, p) \in [DOMAIN f \cup {c} -> Ports]
  BY DEF Maps, With
<1>2. DOMAIN f \cup {c} \in SUBSET Nat
  BY MapParts
<1>3. With(f, c, p) \in Maps
  BY <1>1, <1>2 DEF Maps
<1> QED
  BY <1>3 DEF With, Range, IsInjective

LEMMA RecordsOfNothing == NoRec \in Recs /\ Idle \in Frames
<1>1. <<>> \in Seq(Nat)
  OBVIOUS
<1> QED
  BY <1>1, EmptyMap DEF NoRec, Idle, Recs, Frames, Statuses

(* The requests of a pod still to be served are among those it made. *)
LEMMA Requests ==
  ASSUME NEW d \in Pods
  PROVE  Requested[d] \in Seq(Nat) /\ Requested[d] \in Seq(Range(Requested[d]))
BY PodHostAssumption DEF Range

LEMMA HeadAndTail ==
  ASSUME NEW S, NEW s \in Seq(S), s # <<>>
  PROVE  Head(s) \in S /\ Tail(s) \in Seq(S)
OBVIOUS

(* What a step of the port loop does to the frame. *)
LEMMA Mapped ==
  ASSUME my \in Frames, my.left # <<>>, NEW p \in Ports, Map(Head(my.left), p)
  PROVE  /\ my' \in Frames /\ my'.pod = my.pod /\ my'.left = Tail(my.left)
         /\ my'.rt \in Recs
         /\ my'.rt.status = my.rt.status /\ my'.rt.ssh = my.rt.ssh /\ my'.rt.cid = my.rt.cid
         /\ my'.rt.map = With(my.rt.map, Head(my.left), p)
<1>1. Head(my.left) \in Nat /\ Tail(my.left) \in Seq(Nat)
  BY HeadAndTail DEF Frames
<1>2. my.rt \in Recs /\ my.rt.map \in Maps
  BY DEF Frames, Recs
<1>3. With(my.rt.map, Head(my.left), p) \in Maps
  BY <1>1, <1>2, OneMore
<1>4. my' = [my EXCEPT !.left = Tail(my.left), !.rt.map = With(my.rt.map, Head(my.left), p)]
  BY DEF Map, With
<1>5. my' = [pod |-> my.pod, left |-> Tail(my.left),
             rt |-> [my.rt EXCEPT !.map = With(my.rt.map, Head(my.left), p)]]
  BY <1>4 DEF Frames
<1> QED
  BY <1>1, <1>2, <1>3, <1>5 DEF Frames, Recs

-----------------------------------------------------------------------------
(* Types *)

LEMMA InitTypes == Init => TypeInv
<1> SUFFICES ASSUME Init PROVE TypeInv
  OBVIOUS
<1>1. NoCtr \in Ctrs /\ NoVol \in Vols
  BY DEF NoCtr, NoVol, Ctrs, Vols
<1> QED
  BY <1>1, RecordsOfNothing DEF Init, TypeInv, Phases, Labels, InHandler

(* Moves within a handler, into it and out of it. *)
LEMMA Saved ==
  ASSUME rec \in [Pods -> Recs], NEW d \in Pods, NEW r \in Recs, Save(d, r)
  PROVE  /\ rec' \in [Pods -> Recs] /\ rec'[d] = r
         /\ \A e \in Pods \ {d} : rec'[e] = rec[e]
BY DEF Save

LEMMA Entered ==
  ASSUME NEW d \in Pods, NEW r \in Recs, NEW l, Handle(d, l, r)
  PROVE  /\ my' \in Frames /\ my'.pod = d /\ my'.rt = r /\ my'.left = Requested[d]
         /\ pc' = l
BY Requests DEF Handle, Frames

LEMMA SshChosen ==
  ASSUME my \in Frames, NEW p \in SshPorts, my' = [my EXCEPT !.rt.ssh = p]
  PROVE  /\ my' \in Frames /\ my'.pod = my.pod /\ my'.left = my.left
         /\ my'.rt \in Recs
         /\ my'.rt.status = my.rt.status /\ my'.rt.ssh = p /\ my'.rt.cid = my.rt.cid
         /\ my'.rt.map = my.rt.map
<1>1. my' = [pod |-> my.pod, left |-> my.left, rt |-> [my.rt EXCEPT !.ssh = p]]
  BY DEF Frames
<1> QED
  BY <1>1 DEF Frames, Recs

LEMMA WithStatus ==
  ASSUME NEW r \in Recs, NEW s \in Statuses
  PROVE  /\ [r EXCEPT !.status = s] \in Recs
         /\ [r EXCEPT !.status = s].status = s /\ [r EXCEPT !.status = s].cid = r.cid
         /\ [r EXCEPT !.status = s].ssh = r.ssh /\ [r EXCEPT !.status = s].map = r.map
BY DEF Recs

LEMMA Failed ==
  ASSUME TypeInv, my.pod \in Pods, Fail
  PROVE  /\ rec' \in [Pods -> Recs] /\ my' \in Frames /\ pc' = "next" /\ my' = Idle
         /\ rec'[my.pod].status = "failed" /\ rec'[my.pod].ssh = rec[my.pod].ssh
         /\ rec'[my.pod].map = rec[my.pod].map /\ rec'[my.pod].cid = rec[my.pod].cid
         /\ \A e \in Pods \ {my.pod} : rec'[e] = rec[e]
<1>1. [rec[my.pod] EXCEPT !.status = "failed"] \in Recs
  BY WithStatus DEF TypeInv, Statuses
<1>2. rec' \in [Pods -> Recs] /\ rec'[my.pod] = [rec[my.pod] EXCEPT !.status = "failed"]
      /\ \A e \in Pods \ {my.pod} : rec'[e] = rec[e]
  BY <1>1, Saved DEF Fail, TypeInv
<1>3. rec[my.pod] \in Recs /\ "failed" \in Statuses
  BY DEF TypeInv, Statuses
<1> QED
  BY <1>2, <1>3, WithStatus, RecordsOfNothing DEF Fail, Leave

LEMMA VisitTypes ==
  ASSUME TypeInv, NEW d \in Pods, Visit(d)
  PROVE  TypeInv'
<1> USE DEF TypeInv, InHandler, Labels
<1>1. view' \in [Pods -> Phases]
  BY DEF Visit, Phases
<1>2. rec' \in [Pods -> Recs] /\ my' \in Frames /\ pc' \in Labels \ {"any"} /\ (InHandler' => my'.pod \in Pods)
  <2>0. rec[d] \in Recs /\ [NoRec EXCEPT !.status = "accepted"] \in Recs
    BY WithStatus, RecordsOfNothing DEF Statuses
  <2>1. CASE Save(d, [NoRec EXCEPT !.status = "accepted"]) /\ Handle(d, "ssh", rec'[d])
    BY <2>0, <2>1, Saved, Entered
  <2>2. CASE UNCHANGED rec /\ \E l \in {"start", "pause", "stop"} : Handle(d, l, rec[d])
    BY <2>0, <2>2, Entered
  <2>3. CASE UNCHANGED <<rec, pc, my>>
    BY <2>3 DEF Visit
  <2> QED
    BY <2>1, <2>2, <2>3 DEF Visit
<1> QED
  BY <1>1, <1>2 DEF Visit, outer, world

LEMMA PassTypes ==
  ASSUME TypeInv, BeginPass \/ EndPass
  PROVE  TypeInv'
BY DEF TypeInv, InHandler, Labels, BeginPass, EndPass, Goto, outer, world

(* The five things a choosing step may do.                                  *)
GotPort(p) == my' = [my EXCEPT !.rt.ssh = p] /\ pc' = "user" /\ UNCHANGED rec
MapsOne(p) == my.left # <<>> /\ Map(Head(my.left), p) /\ pc' = "user" /\ UNCHANGED rec
MovesOn    == (Goto("format") \/ (my.left # <<>> /\ Goto("any"))) /\ UNCHANGED rec
GivesUp    == my' = [my EXCEPT !.left = <<>>] /\ pc' = "user" /\ UNCHANGED rec

LEMMA Choices ==
  ASSUME TypeInv, ChooseSsh \/ ChooseSame \/ ChooseAny
  PROVE  /\ my.pod \in Pods /\ my \in Frames /\ InHandler
         /\ UNCHANGED <<known, view, world>>
         /\ \/ pc = "ssh" /\ (Fail \/ \E p \in SshPorts : GotPort(p))
            \/ /\ pc \in {"user", "any"}
               /\ MovesOn \/ GivesUp \/ \E p \in Ports \ Mine : MapsOne(p)
<1>1. CASE ChooseSsh
  BY <1>1 DEF ChooseSsh, Free, GotPort, TypeInv, InHandler
<1>2. CASE ChooseSame
  BY <1>2 DEF ChooseSame, SameNumber, Free, Ports, MovesOn, MapsOne, Goto, TypeInv, InHandler
<1>3. CASE ChooseAny
  BY <1>3 DEF ChooseAny, Candidates, Free, Ports, MapsOne, GivesUp, GiveUp, TypeInv, InHandler
<1> QED
  BY <1>1, <1>2, <1>3

LEMMA Forgotten ==
  ASSUME my \in Frames, GivesUp
  PROVE  my' \in Frames /\ my'.pod = my.pod /\ my'.rt = my.rt /\ my'.left = <<>>
<1>1. <<>> \in Seq(Nat)
  OBVIOUS
<1> QED
  BY <1>1 DEF GivesUp, Frames

LEMMA ChoiceTypes ==
  ASSUME TypeInv, ChooseSsh \/ ChooseSame \/ ChooseAny
  PROVE  TypeInv'
<1> USE DEF TypeInv, InHandler, Labels
<1>0. my.pod \in Pods /\ my \in Frames /\ UNCHANGED <<known, view, world>>
  BY Choices
<1>1. CASE Fail
  BY <1>0, <1>1, Failed DEF world
<1>2. ASSUME NEW p \in SshPorts, GotPort(p) PROVE TypeInv'
  <2>1. my' \in Frames /\ my'.pod = my.pod
    BY <1>0, <1>2, SshChosen DEF GotPort
  <2> QED
    BY <1>0, <1>2, <2>1 DEF GotPort, world
<1>3. CASE MovesOn
  BY <1>0, <1>3 DEF MovesOn, Goto, world
<1>4. CASE GivesUp
  <2>1. my' \in Frames /\ my'.pod = my.pod
    BY <1>0, <1>4, Forgotten
  <2> QED
    BY <1>0, <1>4, <2>1 DEF GivesUp, world
<1>5. ASSUME NEW p \in Ports, MapsOne(p) PROVE TypeInv'
  BY <1>0, <1>5, Mapped DEF MapsOne, world
<1> QED
  BY <1>1, <1>2, <1>3, <1>4, <1>5, Choices

LEMMA Volumes ==
  ASSUME NEW v \in Vols, NEW failed \in SUBSET Cleanups(v)
  PROVE  Destroyed(v, failed) \in Vols /\ failed \subseteq {"umount", "unlink"}
<1>1. v.image \in BOOLEAN /\ v.mounts \in Nat /\ Less(v.mounts) \in Nat
  BY DEF Vols, Less
<1>2. (IF "unlink" \in failed THEN v.image ELSE FALSE) \in BOOLEAN
  BY <1>1
<1>3. (IF "umount" \in failed THEN v.mounts ELSE Less(v.mounts)) \in Nat
  BY <1>1
<1>4. Destroyed(v, failed) \in Vols
  BY <1>2, <1>3 DEF Destroyed, Vols
<1> QED
  BY <1>4 DEF Cleanups

(* A roll-back or a teardown of a volume of one pod.                         *)
LEMMA DestroyTypes ==
  ASSUME TypeInv, NEW d \in Pods, NEW v \in Vols, NEW failed \in SUBSET Cleanups(v), Destroy(d, v, failed)
  PROVE  /\ vol' \in [Pods -> Vols] /\ vol'[d] = Destroyed(v, failed)
         /\ \A e \in Pods \ {d} : vol'[e] = vol[e]
         /\ swallowed' = swallowed \cup ({d} \X failed)
         /\ swallowed' \subseteq Pods \X {"rm", "umount", "unlink"}
BY Volumes DEF Destroy, TypeInv

(* The volume a failing start rolls back, and how it ends.                   *)
RollsBack(d, v, failed) ==
  /\ Destroy(d, v, failed) /\ UNCHANGED known
  /\ Fail \/ ("unlink" \in failed /\ Leave /\ UNCHANGED rec)

LEMMA NextVolumes ==
  ASSUME NEW v \in Vols
  PROVE  /\ [v EXCEPT !.image = TRUE] \in Vols /\ [v EXCEPT !.image = TRUE].mounts = v.mounts
         /\ [v EXCEPT !.mounts = @ + 1] \in Vols /\ [v EXCEPT !.mounts = @ + 1].mounts = v.mounts + 1
<1>1. [v EXCEPT !.image = TRUE] \in Vols
  BY DEF Vols
<1>2. [v EXCEPT !.image = TRUE].mounts = v.mounts
  BY DEF Vols
<1>3. [v EXCEPT !.mounts = @ + 1].mounts = v.mounts + 1
  BY DEF Vols
<1>4. [v EXCEPT !.mounts = @ + 1] \in Vols
  BY DEF Vols
<1> QED
  BY <1>1, <1>2, <1>3, <1>4

LEMMA VolumeSteps ==
  ASSUME TypeInv, FormatVolume \/ MountVolume
  PROVE  /\ my.pod \in Pods /\ InHandler /\ vol[my.pod] \in Vols
         /\ UNCHANGED <<view, ctr, lease, restarted>>
         /\ \/ \E v \in Vols : \E failed \in SUBSET Cleanups(v) :
                 /\ RollsBack(my.pod, v, failed)
                 /\ v.mounts = vol[my.pod].mounts \/ (v.mounts = vol[my.pod].mounts + 1 /\ pc = "mount")
            \/ /\ pc = "format" /\ vol' = [vol EXCEPT ![my.pod] = [vol[my.pod] EXCEPT !.image = TRUE]]
               /\ Goto("mount") /\ UNCHANGED <<rec, known, swallowed>>
            \/ /\ pc = "mount" /\ vol' = [vol EXCEPT ![my.pod] = [vol[my.pod] EXCEPT !.mounts = @ + 1]]
               /\ known' = known \cup {my.pod}
               /\ Goto("save") /\ UNCHANGED <<rec, swallowed>>
<1> DEFINE d == my.pod
           f == [vol[d] EXCEPT !.image = TRUE]
           m == [vol[d] EXCEPT !.mounts = @ + 1]
<1>1. d \in Pods /\ InHandler /\ vol[d] \in Vols /\ UNCHANGED <<view, ctr, lease, restarted>>
  BY DEF TypeInv, FormatVolume, MountVolume, InHandler
<1>2. f \in Vols /\ m \in Vols /\ f.mounts = vol[d].mounts /\ m.mounts = vol[d].mounts + 1
  BY <1>1, NextVolumes
<1>3. ASSUME NEW v \in Vols, DiskFails(d, v)
      PROVE  \E failed \in SUBSET Cleanups(v) : RollsBack(d, v, failed)
  BY <1>3 DEF DiskFails, RollsBack
<1>4. CASE FormatVolume
  <2>1. CASE DiskFails(d, vol[d]) \/ DiskFails(d, f)
    BY <1>1, <1>2, <1>3, <2>1
  <2> QED
    BY <1>1, <1>4, <2>1 DEF FormatVolume
<1>5. CASE MountVolume
  <2>1. CASE DiskFails(d, vol[d]) \/ DiskFails(d, m)
    BY <1>1, <1>2, <1>3, <1>5, <2>1 DEF MountVolume
  <2> QED
    BY <1>1, <1>5, <2>1 DEF MountVolume
<1> QED
  BY <1>1, <1>4, <1>5

LEMMA RolledBack ==
  ASSUME TypeInv, my.pod \in Pods, NEW v \in Vols, NEW failed \in SUBSET Cleanups(v), RollsBack(my.pod, v, failed)
  PROVE  /\ rec' \in [Pods -> Recs] /\ my' = Idle /\ my' \in Frames /\ pc' = "next" /\ UNCHANGED known
         /\ \A e \in Pods \ {my.pod} : rec'[e] = rec[e] /\ vol'[e] = vol[e]
         /\ vol' \in [Pods -> Vols] /\ vol'[my.pod] = Destroyed(v, failed)
         /\ swallowed' = swallowed \cup ({my.pod} \X failed)
         /\ swallowed' \subseteq Pods \X {"rm", "umount", "unlink"}
<1>1. CASE Fail
  BY <1>1, Failed, DestroyTypes DEF RollsBack
<1>2. CASE Leave /\ UNCHANGED rec
  BY <1>2, RecordsOfNothing, DestroyTypes DEF RollsBack, Leave, TypeInv
<1> QED
  BY <1>1, <1>2 DEF RollsBack

LEMMA VolumeTypes ==
  ASSUME TypeInv, FormatVolume \/ MountVolume
  PROVE  TypeInv'
<1> USE DEF TypeInv, InHandler, Labels
<1>0. my.pod \in Pods /\ vol[my.pod] \in Vols /\ UNCHANGED <<view, ctr, lease, restarted>>
  BY VolumeSteps
<1>1. ASSUME NEW v \in Vols, NEW failed \in SUBSET Cleanups(v), RollsBack(my.pod, v, failed) PROVE TypeInv'
  BY <1>0, <1>1, RolledBack
<1>2. ASSUME NEW v \in Vols, vol' = [vol EXCEPT ![my.pod] = v], known' \subseteq known \cup {my.pod},
             Goto("mount") \/ Goto("save"), UNCHANGED <<rec, swallowed>>, InHandler
      PROVE  TypeInv'
  BY <1>0, <1>2 DEF Goto
<1>3. /\ [vol[my.pod] EXCEPT !.image = TRUE] \in Vols
      /\ [vol[my.pod] EXCEPT !.mounts = @ + 1] \in Vols
  BY <1>0, NextVolumes
<1> QED
  BY <1>1, <1>2, <1>3, VolumeSteps

(* The record as a step of a handler saves it before it leaves. *)
LEMMA MarkTypes ==
  ASSUME TypeInv, MarkStarting \/ MarkReady \/ MarkSuspended \/ MarkResumed \/ MarkTerminated
  PROVE  TypeInv'
<1> USE DEF TypeInv, InHandler, Labels
<1>0. my.pod \in Pods /\ my.rt \in Recs
  BY DEF MarkStarting, MarkReady, MarkSuspended, MarkResumed, MarkTerminated, Frames
<1>1. /\ [my.rt EXCEPT !.status = "starting", !.map = NoMap] \in Recs
      /\ [my.rt EXCEPT !.status = "ready", !.cid = TRUE] \in Recs
      /\ \A s \in Statuses : [my.rt EXCEPT !.status = s] \in Recs
  BY <1>0, EmptyMap, WithStatus DEF Recs, Statuses
<1>2. CASE MarkStarting
  BY <1>0, <1>1, <1>2, Saved DEF MarkStarting, Goto, outer, world
<1>3. CASE MarkReady \/ MarkSuspended \/ MarkResumed \/ MarkTerminated
  <2>1. PICK r \in Recs : Save(my.pod, r)
    BY <1>1, <1>3, RecordsOfNothing DEF MarkReady, MarkSuspended, MarkResumed, MarkTerminated, Statuses
  <2> QED
    BY <1>0, <1>3, <2>1, Saved, RecordsOfNothing
       DEF MarkReady, MarkSuspended, MarkResumed, MarkTerminated, Leave, outer, world
<1> QED
  BY <1>2, <1>3

(* What a docker call of a handler does to the container of its pod.        *)
LEMMA ContainerTypes ==
  ASSUME TypeInv, RunPod \/ PausePod \/ ResumePod \/ StopPod
  PROVE  /\ my.pod \in Pods /\ my.rt \in Recs /\ InHandler
         /\ ctr' \in [Pods -> Ctrs] /\ \A e \in Pods \ {my.pod} : ctr'[e] = ctr[e]
         /\ swallowed' \subseteq Pods \X {"rm", "umount", "unlink"}
<1>0. my.pod \in Pods /\ my.rt \in Recs /\ InHandler /\ ctr \in [Pods -> Ctrs]
  BY DEF TypeInv, RunPod, PausePod, ResumePod, StopPod, Frames, InHandler
<1>1. Asked \subseteq SshPorts \cup {0} \cup Ports
  BY <1>0, MapParts DEF Asked, Mine, Recs
<1>2. Runs \in Ctrs /\ Created \in Ctrs /\ NoCtr \in Ctrs
  BY <1>1 DEF Runs, Created, NoCtr, Ctrs
<1>3. CASE RunPod
  <2>1. PICK c \in Ctrs : ctr' = [ctr EXCEPT ![my.pod] = c]
    BY <1>0, <1>2, <1>3 DEF RunPod, RunFails
  <2> QED
    BY <1>0, <1>3, <2>1 DEF RunPod, TypeInv
<1>4. CASE PausePod \/ ResumePod \/ StopPod
  BY <1>0, <1>2, <1>4 DEF PausePod, ResumePod, StopPod, Ctrs, TypeInv
<1> QED
  BY <1>0, <1>3, <1>4

LEMMA DockerTypes ==
  ASSUME TypeInv, RunPod \/ PausePod \/ ResumePod \/ StopPod \/ DeleteVolume
  PROVE  TypeInv'
<1> USE DEF TypeInv, InHandler, Labels
<1>1. CASE RunPod
  <2>1. CASE Goto("markReady") /\ UNCHANGED rec
    BY <1>1, <2>1, ContainerTypes DEF RunPod, Goto
  <2>2. CASE Fail
    BY <1>1, <2>2, ContainerTypes, Failed DEF RunPod
  <2> QED
    BY <1>1, <2>1, <2>2 DEF RunPod, RunFails
<1>2. CASE PausePod \/ ResumePod \/ StopPod
  BY <1>2, ContainerTypes DEF PausePod, ResumePod, StopPod, Goto
<1>3. CASE DeleteVolume
  <2>1. my.pod \in Pods /\ pc' = "markTerminated" /\ UNCHANGED <<rec, view, ctr, lease, restarted, my>>
        /\ known' = known \ {my.pod}
    BY <1>3 DEF DeleteVolume, Goto
  <2>2. CASE UNCHANGED <<vol, swallowed>>
    BY <2>1, <2>2
  <2>3. CASE \E failed \in SUBSET Cleanups(vol[my.pod]) : Destroy(my.pod, vol[my.pod], failed)
    BY <2>1, <2>3, DestroyTypes
  <2> QED
    BY <1>3, <2>2, <2>3 DEF DeleteVolume
<1> QED
  BY <1>1, <1>2, <1>3

LEMMA WorldTypes ==
  ASSUME TypeInv,
         \/ Restart \/ AskAgain \/ UNCHANGED vars
         \/ \E d \in Pods : LeaseEvent(d)
         \/ \E p \in SshPorts \cup UserPorts : GrabPort(p)
  PROVE  TypeInv'
<1> USE DEF TypeInv, InHandler, Labels
<1>1. CASE Restart
  BY <1>1, RecordsOfNothing DEF Restart, Phases
<1>2. CASE AskAgain \/ UNCHANGED vars
  BY <1>2 DEF AskAgain, vars, agent, outer, world
<1>3. ASSUME NEW d \in Pods, LeaseEvent(d) PROVE TypeInv'
  BY <1>3 DEF LeaseEvent, agent, Phases
<1>4. ASSUME NEW p \in SshPorts \cup UserPorts, GrabPort(p) PROVE TypeInv'
  BY <1>4 DEF GrabPort, agent
<1> QED
  BY <1>1, <1>2, <1>3, <1>4

LEMMA StepTypes == TypeInv /\ [Next]_vars => TypeInv'
BY VisitTypes, PassTypes, ChoiceTypes, VolumeTypes, MarkTypes, DockerTypes, WorldTypes
   DEF Next, PassStep, Handler

LEMMA Types == Spec => []TypeInv
BY InitTypes, StepTypes, PTL DEF Spec

-----------------------------------------------------------------------------
(* Ports: the pod in hand has an SSH port of the one range and a mapping    *)
(* without repetition into the other, for container ports it asked for.     *)

Chosen == {"user", "any", "format", "mount", "save", "run"}

MapsFit ==
  /\ \A d \in Pods : DOMAIN rec[d].map \subseteq Range(Requested[d])
  /\ InHandler => /\ DOMAIN my.rt.map \subseteq Range(Requested[my.pod])
                  /\ my.left \in Seq(Range(Requested[my.pod]))
PortsFit ==
  /\ pc = "ssh" => my.rt.map = NoMap
  /\ pc \in Chosen => my.rt.ssh \in SshPorts /\ IsInjective(my.rt.map)

PortInv == MapsFit /\ PortsFit

LEMMA InitPorts == Init => PortInv
BY EmptyMap DEF Init, PortInv, MapsFit, PortsFit, NoRec, InHandler, Chosen

LEMMA ChoicePorts ==
  ASSUME TypeInv, PortInv, ChooseSsh \/ ChooseSame \/ ChooseAny
  PROVE  PortInv'
<1> USE DEF PortInv, MapsFit, PortsFit, Chosen, InHandler
<1>0. my.pod \in Pods /\ my \in Frames /\ rec \in [Pods -> Recs] /\ InHandler
  BY Choices DEF TypeInv
<1>1. CASE Fail
  BY <1>0, <1>1, Failed
<1>2. ASSUME NEW p \in SshPorts, GotPort(p), pc = "ssh" PROVE PortInv'
  BY <1>0, <1>2, SshChosen, EmptyMap DEF GotPort
<1>3. ASSUME NEW p \in Ports \ Mine, MapsOne(p), pc \in {"user", "any"} PROVE PortInv'
  <2>1. my.left \in Seq(Range(Requested[my.pod])) /\ my.left \in Seq(Nat) /\ my.left # <<>>
    BY <1>0, <1>3 DEF Frames, MapsOne
  <2>2. Head(my.left) \in Range(Requested[my.pod]) /\ Tail(my.left) \in Seq(Range(Requested[my.pod]))
    BY <2>1, HeadAndTail
  <2>3. Head(my.left) \in Nat /\ my.rt.map \in Maps
    BY <1>0, <2>1, HeadAndTail DEF Frames, Recs
  <2>4. /\ DOMAIN With(my.rt.map, Head(my.left), p) = DOMAIN my.rt.map \cup {Head(my.left)}
        /\ IsInjective(With(my.rt.map, Head(my.left), p))
    <3>1. p \in Ports /\ p \notin Range(my.rt.map) /\ IsInjective(my.rt.map)
      BY <1>3 DEF Mine
    <3> HIDE DEF PortInv, MapsFit, PortsFit
    <3> QED
      BY <2>3, <3>1, OneMore
  <2> QED
    BY <1>0, <1>3, <2>1, <2>2, <2>4, Mapped DEF MapsOne
<1>4. CASE MovesOn /\ pc \in {"user", "any"}
  BY <1>0, <1>4 DEF MovesOn, Goto
<1>5. CASE GivesUp /\ pc \in {"user", "any"}
  <2>1. <<>> \in Seq(Range(Requested[my.pod]))
    OBVIOUS
  <2> QED
    BY <1>0, <1>5, <2>1, Forgotten DEF GivesUp
<1> QED
  BY <1>1, <1>2, <1>3, <1>4, <1>5, Choices

LEMMA OtherPorts ==
  ASSUME TypeInv, PortInv, [Next]_vars, ~(ChooseSsh \/ ChooseSame \/ ChooseAny)
  PROVE  PortInv'
<1> USE DEF PortInv, MapsFit, PortsFit, Chosen, InHandler
<1>0. my \in Frames /\ rec \in [Pods -> Recs] /\ (InHandler => my.pod \in Pods /\ my.rt \in Recs)
  BY DEF TypeInv, Frames
<1>1. CASE BeginPass \/ EndPass \/ PausePod \/ ResumePod \/ StopPod \/ DeleteVolume
  BY <1>1 DEF BeginPass, EndPass, PausePod, ResumePod, StopPod, DeleteVolume, Goto
<1>2. ASSUME NEW d \in Pods, Visit(d) PROVE PortInv'
  <2>1. [NoRec EXCEPT !.status = "accepted"] \in Recs
        /\ [NoRec EXCEPT !.status = "accepted"].map = NoMap
    BY RecordsOfNothing, WithStatus DEF Statuses, NoRec
  <2>2. CASE Save(d, [NoRec EXCEPT !.status = "accepted"]) /\ Handle(d, "ssh", rec'[d])
    <3>1. /\ rec'[d] \in Recs /\ rec'[d].map = NoMap
          /\ \A e \in Pods \ {d} : rec'[e] = rec[e]
      BY <1>0, <2>1, <2>2, Saved
    <3>2. my'.pod = d /\ my'.rt = rec'[d] /\ my'.left = Requested[d] /\ pc' = "ssh"
      BY <2>2, <3>1, Entered
    <3> QED
      BY <3>1, <3>2, Requests, EmptyMap
  <2>3. CASE UNCHANGED rec /\ \E l \in {"start", "pause", "stop"} : Handle(d, l, rec[d])
    BY <1>0, <2>3, Entered, Requests
  <2>4. CASE UNCHANGED <<rec, pc, my>>
    BY <2>4
  <2> QED
    BY <1>2, <2>2, <2>3, <2>4 DEF Visit
<1>3. CASE (FormatVolume \/ MountVolume \/ RunPod) /\ Fail
  <2>1. my.pod \in Pods /\ rec[my.pod] \in Recs
    BY <1>0, <1>3 DEF FormatVolume, MountVolume, RunPod
  <2> QED
    BY <1>3, <2>1, Failed
<1>4. CASE (FormatVolume \/ MountVolume \/ RunPod) /\ ~Fail
  <2>1. CASE RunPod
    BY <1>4, <2>1 DEF RunPod, RunFails, Goto
  <2>2. CASE FormatVolume \/ MountVolume
    <3>1. ASSUME NEW v \in Vols, NEW failed \in SUBSET Cleanups(v), RollsBack(my.pod, v, failed) PROVE PortInv'
      BY <1>4, <3>1 DEF RollsBack, Leave
    <3> QED
      BY <1>4, <2>2, <3>1, VolumeSteps DEF Goto
  <2> QED
    BY <1>4, <2>1, <2>2
<1>5. CASE MarkStarting \/ MarkReady \/ MarkSuspended \/ MarkResumed \/ MarkTerminated
  <2>0. my.pod \in Pods /\ my.rt \in Recs /\ InHandler
    BY <1>0, <1>5 DEF MarkStarting, MarkReady, MarkSuspended, MarkResumed, MarkTerminated
  <2>1. PICK r \in Recs : Save(my.pod, r) /\ DOMAIN r.map \subseteq DOMAIN my.rt.map
    <3>1. CASE MarkStarting
      <4>1. LET r == [my.rt EXCEPT !.status = "starting", !.map = NoMap]
            IN r \in Recs /\ r.map = NoMap
        BY <2>0, EmptyMap DEF Recs, Statuses
      <4> QED
        BY <3>1, <4>1, EmptyMap DEF MarkStarting
    <3>2. CASE MarkReady
      <4>1. LET r == [my.rt EXCEPT !.status = "ready", !.cid = TRUE]
            IN r \in Recs /\ r.map = my.rt.map
        BY <2>0 DEF Recs, Statuses
      <4> QED
        BY <3>2, <4>1 DEF MarkReady
    <3>3. CASE \E s \in Statuses : Save(my.pod, [my.rt EXCEPT !.status = s])
      <4>1. PICK s \in Statuses : Save(my.pod, [my.rt EXCEPT !.status = s])
        BY <3>3
      <4>2. LET r == [my.rt EXCEPT !.status = s]
            IN r \in Recs /\ r.map = my.rt.map
        BY <2>0, WithStatus
      <4> QED
        BY <4>1, <4>2
    <3>4. CASE Save(my.pod, NoRec)
      BY <3>4, EmptyMap, RecordsOfNothing DEF NoRec
    <3> QED
      BY <1>5, <3>1, <3>2, <3>3, <3>4 DEF MarkSuspended, MarkResumed, MarkTerminated, Statuses
  <2>2. /\ UNCHANGED my /\ pc = "save" /\ pc' = "run"
        \/ pc' = "next"
    BY <1>5 DEF MarkStarting, MarkReady, MarkSuspended, MarkResumed, MarkTerminated, Goto, Leave
  <2>3. /\ rec'[my.pod] = r /\ \A e \in Pods \ {my.pod} : rec'[e] = rec[e]
    BY <1>0, <2>0, <2>1, Saved
  <2> QED
    BY <2>0, <2>1, <2>2, <2>3
<1>6. CASE Restart
  BY <1>6 DEF Restart
<1>7. CASE AskAgain \/ UNCHANGED vars
  BY <1>7 DEF AskAgain, vars, agent
<1>8. CASE \/ \E d \in Pods : LeaseEvent(d)
           \/ \E p \in SshPorts \cup UserPorts : GrabPort(p)
  BY <1>8 DEF LeaseEvent, GrabPort, agent
<1> QED
  BY <1>1, <1>2, <1>3, <1>4, <1>5, <1>6, <1>7, <1>8 DEF Next, PassStep, Handler

LEMMA PortsStay == Spec => []PortInv
<1>1. TypeInv /\ PortInv /\ [Next]_vars => PortInv'
  BY ChoicePorts, OtherPorts
<1> QED
  BY <1>1, InitPorts, Types, PTL DEF Spec

(* For any ranges of ports, as long as they are disjoint, and any requests, *)
(* no pod is run with the same host port twice.                             *)
THEOREM NoPortTwiceHolds == Spec => []NoPortTwice
<1>1. TypeInv /\ PortInv => NoPortTwice
  <2> SUFFICES ASSUME TypeInv, PortInv, pc \in {"format", "mount", "save", "run"} PROVE ~AsksTwice
    BY DEF NoPortTwice
  <2>1. my.rt.ssh \in SshPorts /\ IsInjective(my.rt.map)
    BY DEF PortInv, PortsFit, Chosen
  <2>2. Mine \subseteq Ports
    BY MapParts DEF TypeInv, Frames, Recs, Mine
  <2> QED
    BY <2>1, <2>2, PodHostAssumption DEF AsksTwice, Ports
<1> QED
  BY <1>1, Types, PortsStay, PTL

-----------------------------------------------------------------------------
(* Until the first restart: what record, volume and container of a pod say  *)
(* of one another.                                                          *)

At(d, labels) == my.pod = d /\ pc \in labels

Starting == {"ssh", "user", "any", "format", "mount", "save", "run", "markReady"}
Copying  == {"pause", "markSuspended", "start", "markResumed", "stop", "delete", "markTerminated"}

(* A start works on a record without a container, everything else on a copy *)
(* of the record as it is.                                                  *)
Copies ==
  /\ pc \in Starting => ~my.rt.cid /\ rec[my.pod].status \in {"accepted", "starting"}
  /\ pc \in {"ssh", "user", "any", "format", "mount"} => rec[my.pod].status = "accepted"
  /\ pc \in Copying => my.rt = rec[my.pod]
  /\ pc \in {"pause", "markSuspended", "start", "markResumed"} => my.rt.status \in {"ready", "suspended"}

(* A record stays accepted without a handler only after a roll-back that    *)
(* ended in an error.                                                       *)
RecordOf(d) ==
  /\ rec[d].status = "starting" => At(d, Starting)
  /\ rec[d].status = "accepted" => At(d, Starting) \/ d \notin known
  /\ rec[d].status \in {"ready", "suspended"} => rec[d].cid
  /\ rec[d].status \in {"none", "accepted", "starting", "failed"} => ~rec[d].cid

(* The process that made a volume knows it until it has unmounted it; what  *)
(* it does not know of has been cleaned up, as far as the commands worked.  *)
Left(d, command) == <<d, command>> \in swallowed
Unmounted(d) == vol[d].mounts = 0 \/ Left(d, "umount")
Unlinked(d)  == ~vol[d].image \/ Left(d, "unlink")
Removed(d)   == ctr[d] = NoCtr \/ Left(d, "rm")

VolumeOf(d) ==
  /\ vol[d].mounts <= 1 \/ Left(d, "umount")
  /\ d \notin known => Unmounted(d)
  /\ d \notin known /\ ~At(d, {"mount"}) => Unlinked(d)
  /\ rec[d].status = "none" \/ At(d, {"ssh", "user", "any", "format", "mount"}) => d \notin known
  /\ At(d, {"markTerminated"}) /\ my.rt.cid => d \notin known
  /\ rec[d].status = "terminated" /\ rec[d].cid => d \notin known

(* The container of a ready or suspended record has the ports it names.     *)
ContainerOf(d) ==
  /\ At(d, {"markReady"}) => ctr[d] = [st |-> "running", ports |-> Asked]
  /\ At(d, {"markResumed"}) => ctr[d].st = "running"
  /\ rec[d].status \in {"ready", "suspended"} /\ ~At(d, {"delete", "markTerminated"}) =>
       ctr[d].st # "none" /\ ctr[d].ports = {rec[d].ssh} \cup Range(rec[d].map)
  /\ rec[d].status = "ready" /\ ~At(d, {"delete", "markTerminated", "markSuspended"}) =>
       ctr[d].st = "running"
  /\ At(d, {"delete", "markTerminated"}) /\ my.rt.cid => Removed(d)
  /\ rec[d].status = "terminated" /\ rec[d].cid => Removed(d)

LifeInv ==
  ~restarted => Copies /\ \A d \in Pods : RecordOf(d) /\ VolumeOf(d) /\ ContainerOf(d)

LEMMA InitLife == Init => LifeInv
BY DEF Init, LifeInv, Copies, RecordOf, VolumeOf, ContainerOf, At, NoRec, NoVol, NoCtr, Starting, Copying,
       Unmounted, Unlinked

(* A pod no handler is at, before and after a step that leaves it alone.    *)
LEMMA OthersStay ==
  ASSUME NEW e \in Pods, RecordOf(e), VolumeOf(e), ContainerOf(e),
         rec'[e] = rec[e], vol'[e] = vol[e], ctr'[e] = ctr[e], e \in known' <=> e \in known,
         swallowed \subseteq swallowed',
         my.pod # e \/ ~InHandler, my'.pod # e \/ ~InHandler'
  PROVE  RecordOf(e)' /\ VolumeOf(e)' /\ ContainerOf(e)'
BY DEF RecordOf, VolumeOf, ContainerOf, At, InHandler, Starting, Unmounted, Unlinked, Removed, Left

(* A start that gives up, after anything it may have done before: the record *)
(* fails, or stays accepted after a roll-back that ended in an error.       *)
LEMMA GivenUp ==
  ASSUME TypeInv, LifeInv, pc \in Starting, ~restarted, pc' = "next",
         UNCHANGED known, swallowed \subseteq swallowed',
         \A e \in Pods \ {my.pod} : rec'[e] = rec[e] /\ vol'[e] = vol[e] /\ ctr'[e] = ctr[e],
         rec'[my.pod].cid = rec[my.pod].cid,
         \/ rec'[my.pod].status = "failed"
         \/ rec'[my.pod].status = "accepted" /\ my.pod \notin known,
         vol'[my.pod].mounts <= 1 \/ <<my.pod, "umount">> \in swallowed',
         my.pod \notin known => \A d : d = my.pod => Unmounted(d)' /\ Unlinked(d)'
  PROVE  LifeInv'
<1>0. my.pod \in Pods /\ InHandler
  BY DEF TypeInv, InHandler, Starting
<1>2. Copies'
  BY DEF Copies, Starting, Copying
<1>3. \A e \in Pods \ {my.pod} : RecordOf(e)' /\ VolumeOf(e)' /\ ContainerOf(e)'
  BY OthersStay DEF LifeInv, InHandler
<1>4. RecordOf(my.pod) /\ rec[my.pod].status \in {"accepted", "starting"}
  BY <1>0 DEF LifeInv, Copies
<1>5. ~rec'[my.pod].cid
  BY <1>4 DEF RecordOf
<1>6. ASSUME NEW d, d = my.pod PROVE RecordOf(d)' /\ VolumeOf(d)' /\ ContainerOf(d)'
  <2>1. \A labels : ~At(d, labels)' \/ "next" \in labels
    BY DEF At
  <2>2. /\ rec'[d].status \in {"failed", "accepted"} /\ ~rec'[d].cid
        /\ rec'[d].status = "accepted" => d \notin known'
    BY <1>5, <1>6
  <2>3. (vol'[d].mounts <= 1 \/ Left(d, "umount")') /\ (d \notin known' => Unmounted(d)' /\ Unlinked(d)')
    BY <1>6 DEF Left
  <2> QED
    BY <2>1, <2>2, <2>3 DEF RecordOf, VolumeOf, ContainerOf
<1> QED
  BY <1>0, <1>2, <1>3, <1>6 DEF LifeInv

LEMMA VisitLife ==
  ASSUME TypeInv, LifeInv, NEW d \in Pods, Visit(d)
  PROVE  LifeInv'
<1> SUFFICES ASSUME ~restarted'
             PROVE  Copies' /\ \A e \in Pods : RecordOf(e)' /\ VolumeOf(e)' /\ ContainerOf(e)'
  BY DEF LifeInv
<1>0. /\ pc = "next" /\ ~restarted /\ UNCHANGED <<known, ctr, vol>> /\ rec[d] \in Recs
      /\ Copies /\ \A e \in Pods : RecordOf(e) /\ VolumeOf(e) /\ ContainerOf(e)
  BY DEF Visit, LifeInv, outer, world, TypeInv
<1>7. swallowed' = swallowed
  BY DEF Visit, outer, world
<1>1. CASE Dispatches(d) /\ Save(d, [NoRec EXCEPT !.status = "accepted"]) /\ Handle(d, "ssh", rec'[d])
  <2>1. /\ [NoRec EXCEPT !.status = "accepted"] \in Recs
        /\ [NoRec EXCEPT !.status = "accepted"].status = "accepted"
        /\ ~[NoRec EXCEPT !.status = "accepted"].cid
    BY RecordsOfNothing, WithStatus DEF Statuses, NoRec
  <2>2. /\ rec'[d] \in Recs /\ rec'[d].status = "accepted" /\ ~rec'[d].cid
        /\ \A e \in Pods \ {d} : rec'[e] = rec[e]
    BY <1>1, <2>1, Saved DEF TypeInv
  <2>3. my'.pod = d /\ my'.rt = rec'[d] /\ pc' = "ssh"
    BY <1>1, <2>2, Entered
  <2>4. d \notin known
    BY <1>0, <1>1 DEF Dispatches, RecordOf, VolumeOf, At, Starting
  <2>5. \A e \in Pods \ {d} : RecordOf(e)' /\ VolumeOf(e)' /\ ContainerOf(e)'
    BY <1>0, <2>2, <2>3, OthersStay, <1>7 DEF InHandler
  <2>6. RecordOf(d)' /\ VolumeOf(d)' /\ ContainerOf(d)'
    BY <1>0, <2>2, <2>3, <2>4, <1>7 DEF RecordOf, VolumeOf, ContainerOf, At, Starting, Unmounted, Unlinked, Removed, Left
  <2>7. Copies'
    BY <2>2, <2>3 DEF Copies, Starting, Copying
  <2> QED
    BY <2>5, <2>6, <2>7
<1>2. ASSUME UNCHANGED rec, NEW l \in {"start", "pause", "stop"}, Handle(d, l, rec[d]),
             l \in {"start", "pause"} => rec[d].status \in {"ready", "suspended"}
      PROVE  Copies' /\ \A e \in Pods : RecordOf(e)' /\ VolumeOf(e)' /\ ContainerOf(e)'
  <2>1. my'.pod = d /\ my'.rt = rec[d] /\ pc' = l
    BY <1>0, <1>2, Entered
  <2>2. \A e \in Pods \ {d} : RecordOf(e)' /\ VolumeOf(e)' /\ ContainerOf(e)'
    BY <1>0, <1>2, <2>1, OthersStay, <1>7 DEF InHandler
  <2>3. RecordOf(d)' /\ VolumeOf(d)' /\ ContainerOf(d)'
    BY <1>0, <1>2, <2>1, <1>7 DEF RecordOf, VolumeOf, ContainerOf, At, Starting, Unmounted, Unlinked, Removed, Left
  <2>4. Copies'
    BY <1>2, <2>1 DEF Copies, Starting, Copying
  <2> QED
    BY <2>2, <2>3, <2>4
<1>3. CASE UNCHANGED <<rec, pc, my>>
  BY <1>0, <1>3, OthersStay, <1>7 DEF InHandler, Copies, Starting, Copying
<1>4. CASE Resumes(d) /\ Handle(d, "start", rec[d]) /\ UNCHANGED rec
  BY <1>2, <1>4 DEF Resumes
<1>5. CASE Suspends(d) /\ Handle(d, "pause", rec[d]) /\ UNCHANGED rec
  BY <1>0, <1>2, <1>5 DEF Suspends, RecordOf, At, Starting
<1>6. CASE TearsDown(d) /\ Handle(d, "stop", rec[d]) /\ UNCHANGED rec
  BY <1>2, <1>6
<1> QED
  BY <1>1, <1>3, <1>4, <1>5, <1>6 DEF Visit

(* What every step of a handler that stays in it has to show.               *)
LEMMA HandlerLife ==
  ASSUME LifeInv, InHandler, my'.pod = my.pod \/ ~InHandler',
         UNCHANGED restarted,
         \A e \in Pods \ {my.pod} :
            /\ rec'[e] = rec[e] /\ vol'[e] = vol[e] /\ ctr'[e] = ctr[e]
            /\ e \in known' <=> e \in known,
         swallowed \subseteq swallowed',
         ~restarted /\ Copies /\ RecordOf(my.pod) /\ VolumeOf(my.pod) /\ ContainerOf(my.pod) =>
           \A d : d = my.pod => Copies' /\ RecordOf(d)' /\ VolumeOf(d)' /\ ContainerOf(d)',
         my.pod \in Pods
  PROVE  LifeInv'
<1> SUFFICES ASSUME ~restarted'
             PROVE  Copies' /\ \A e \in Pods : RecordOf(e)' /\ VolumeOf(e)' /\ ContainerOf(e)'
  BY DEF LifeInv
<1>1. Copies /\ \A e \in Pods : RecordOf(e) /\ VolumeOf(e) /\ ContainerOf(e)
  BY DEF LifeInv
<1>2. \A e \in Pods \ {my.pod} : RecordOf(e)' /\ VolumeOf(e)' /\ ContainerOf(e)'
  BY <1>1, OthersStay
<1> QED
  BY <1>1, <1>2

LEMMA ChoiceLife ==
  ASSUME TypeInv, TypeInv', LifeInv, ChooseSsh \/ ChooseSame \/ ChooseAny
  PROVE  LifeInv'
<1>0. /\ my.pod \in Pods /\ InHandler /\ my \in Frames /\ pc \in {"ssh", "user", "any"}
      /\ UNCHANGED <<known, vol, ctr, restarted, swallowed>>
  BY Choices DEF world
<1>1. CASE Fail
  <2>1. CASE ~restarted
    <3>1. VolumeOf(my.pod) /\ my.pod \notin known
      BY <1>0, <2>1 DEF LifeInv, VolumeOf, At
    <3>2. vol'[my.pod].mounts <= 1 \/ <<my.pod, "umount">> \in swallowed'
      BY <1>0, <3>1 DEF VolumeOf, Left
    <3>3. \A d : d = my.pod => Unmounted(d)' /\ Unlinked(d)'
      BY <1>0, <3>1 DEF VolumeOf, At, Unmounted, Unlinked, Left
    <3> QED
      BY <1>0, <1>1, <2>1, <3>2, <3>3, GivenUp, Failed DEF Starting
  <2> QED
    BY <1>0, <2>1 DEF LifeInv
<1>2. CASE ~Fail
  <2>1. /\ UNCHANGED rec /\ my'.pod = my.pod /\ my'.rt.cid = my.rt.cid
        /\ pc' \in {"user", "any", "format"}
    <3>1. ASSUME NEW p \in SshPorts, GotPort(p)
          PROVE  UNCHANGED rec /\ my'.pod = my.pod /\ my'.rt.cid = my.rt.cid /\ pc' = "user"
      BY <1>0, <3>1, SshChosen DEF GotPort
    <3>2. ASSUME NEW p \in Ports, MapsOne(p)
          PROVE  UNCHANGED rec /\ my'.pod = my.pod /\ my'.rt.cid = my.rt.cid /\ pc' = "user"
      BY <1>0, <3>2, Mapped DEF MapsOne
    <3>3. CASE MovesOn
      BY <3>3 DEF MovesOn, Goto
    <3>4. CASE GivesUp
      BY <1>0, <3>4, Forgotten DEF GivesUp
    <3> QED
      BY <1>2, <3>1, <3>2, <3>3, <3>4, Choices
  <2>2. ~restarted /\ Copies /\ RecordOf(my.pod) /\ VolumeOf(my.pod) /\ ContainerOf(my.pod) =>
           \A d : d = my.pod => Copies' /\ RecordOf(d)' /\ VolumeOf(d)' /\ ContainerOf(d)'
    BY <1>0, <2>1 DEF Copies, RecordOf, VolumeOf, ContainerOf, At, Starting, Copying,
                      Unmounted, Unlinked, Removed, Left
  <2> QED
    BY <1>0, <2>1, <2>2, HandlerLife
<1> QED
  BY <1>1, <1>2

(* The roll-back of a start that has mounted at most once leaves no more    *)
(* than its own commands failed to remove.                                  *)
LEMMA RollBackLeaves ==
  ASSUME TypeInv, NEW d \in Pods, NEW v \in Vols, NEW failed \in SUBSET Cleanups(v),
         vol'[d] = Destroyed(v, failed), swallowed' = swallowed \cup ({d} \X failed),
         v.mounts <= 1 \/ Left(d, "umount")
  PROVE  (vol'[d].mounts <= 1 \/ Left(d, "umount")') /\ Unmounted(d)' /\ Unlinked(d)'
<1>1. Left(d, "umount") => Left(d, "umount")'
  BY DEF Left
<1>2. \A c \in failed : Left(d, c)'
  BY DEF Left
<1>3. v.mounts \in Nat
  BY DEF Vols
<1>4. Unlinked(d)'
  <2>1. CASE "unlink" \in failed
    BY <1>2, <2>1 DEF Unlinked
  <2>2. CASE "unlink" \notin failed
    <3>1. vol'[d].image = FALSE
      BY <2>2 DEF Destroyed
    <3> QED
      BY <3>1 DEF Unlinked
  <2> QED
    BY <2>1, <2>2
<1>5. (vol'[d].mounts <= 1 \/ Left(d, "umount")') /\ Unmounted(d)'
  <2>1. CASE "umount" \in failed
    BY <1>2, <2>1 DEF Unmounted
  <2>2. CASE "umount" \notin failed
    <3>1. vol'[d].mounts = Less(v.mounts)
      BY <2>2 DEF Destroyed
    <3>2. v.mounts <= 1 => Less(v.mounts) = 0
      BY <1>3 DEF Less
    <3> QED
      BY <1>1, <3>1, <3>2 DEF Unmounted
  <2> QED
    BY <2>1, <2>2
<1> QED
  BY <1>4, <1>5

LEMMA VolumeLife ==
  ASSUME TypeInv, TypeInv', LifeInv, FormatVolume \/ MountVolume
  PROVE  LifeInv'
<1>0. /\ my.pod \in Pods /\ InHandler /\ UNCHANGED <<ctr, restarted>> /\ vol \in [Pods -> Vols]
      /\ vol[my.pod] \in Vols /\ pc \in {"format", "mount"}
  BY VolumeSteps DEF TypeInv, FormatVolume, MountVolume
<1>1. restarted => LifeInv'
  BY <1>0 DEF LifeInv
<1>2. ~restarted => VolumeOf(my.pod) /\ Unmounted(my.pod) /\ my.pod \notin known
                    /\ RecordOf(my.pod) /\ rec[my.pod].status = "accepted"
  BY <1>0 DEF LifeInv, VolumeOf, At, Copies
<1>3. ASSUME ~restarted, NEW v \in Vols, NEW failed \in SUBSET Cleanups(v), RollsBack(my.pod, v, failed),
             v.mounts = vol[my.pod].mounts \/ v.mounts = vol[my.pod].mounts + 1
      PROVE  LifeInv'
  <2>1. v.mounts <= 1 \/ Left(my.pod, "umount")
    BY <1>0, <1>2, <1>3 DEF Unmounted, Vols
  <2>2. /\ pc' = "next" /\ UNCHANGED known /\ swallowed \subseteq swallowed'
        /\ vol'[my.pod] = Destroyed(v, failed) /\ swallowed' = swallowed \cup ({my.pod} \X failed)
        /\ \A e \in Pods \ {my.pod} : rec'[e] = rec[e] /\ vol'[e] = vol[e]
    BY <1>0, <1>3, RolledBack
  <2>3. (vol'[my.pod].mounts <= 1 \/ <<my.pod, "umount">> \in swallowed')
        /\ \A d : d = my.pod => Unmounted(d)' /\ Unlinked(d)'
    <3>1. ASSUME NEW d, d = my.pod
          PROVE  (vol'[d].mounts <= 1 \/ Left(d, "umount")') /\ Unmounted(d)' /\ Unlinked(d)'
      BY <1>0, <1>3, <2>1, <2>2, <3>1, RollBackLeaves
    <3> QED
      BY <3>1 DEF Left
  <2>4. /\ rec'[my.pod].cid = rec[my.pod].cid
        /\ rec'[my.pod].status = "failed" \/ (rec'[my.pod].status = "accepted" /\ my.pod \notin known)
    BY <1>0, <1>2, <1>3, Failed DEF RollsBack
  <2> QED
    BY <1>0, <1>3, <2>2, <2>3, <2>4, GivenUp DEF Starting
<1>4. CASE pc = "format" /\ vol' = [vol EXCEPT ![my.pod] = [vol[my.pod] EXCEPT !.image = TRUE]]
           /\ Goto("mount") /\ UNCHANGED <<rec, known, swallowed>>
  <2>1. vol'[my.pod].mounts = vol[my.pod].mounts /\ \A e \in Pods \ {my.pod} : vol'[e] = vol[e]
    BY <1>0, <1>4 DEF Vols
  <2>2. ~restarted /\ Copies /\ RecordOf(my.pod) /\ VolumeOf(my.pod) /\ ContainerOf(my.pod) =>
           \A d : d = my.pod => Copies' /\ RecordOf(d)' /\ VolumeOf(d)' /\ ContainerOf(d)'
    BY <1>0, <1>2, <1>4, <2>1 DEF Goto, Copies, RecordOf, VolumeOf, ContainerOf, At, Starting, Copying,
                                  Unmounted, Unlinked, Removed, Left
  <2> QED
    BY <1>0, <1>4, <2>1, <2>2, HandlerLife DEF Goto
<1>5. CASE pc = "mount" /\ vol' = [vol EXCEPT ![my.pod] = [vol[my.pod] EXCEPT !.mounts = @ + 1]]
           /\ known' = known \cup {my.pod} /\ Goto("save") /\ UNCHANGED <<rec, swallowed>>
  <2>1. vol'[my.pod].mounts = vol[my.pod].mounts + 1 /\ \A e \in Pods \ {my.pod} : vol'[e] = vol[e]
    BY <1>0, <1>5 DEF Vols
  <2>2. ~restarted => vol'[my.pod].mounts <= 1 \/ Left(my.pod, "umount")
    BY <1>0, <1>2, <2>1 DEF Unmounted, Vols
  <2>3. ~restarted /\ Copies /\ RecordOf(my.pod) /\ VolumeOf(my.pod) /\ ContainerOf(my.pod) =>
           \A d : d = my.pod => Copies' /\ RecordOf(d)' /\ VolumeOf(d)' /\ ContainerOf(d)'
    BY <1>0, <1>2, <1>5, <2>2 DEF Goto, Copies, RecordOf, VolumeOf, ContainerOf, At, Starting, Copying, Removed, Left
  <2> QED
    BY <1>0, <1>5, <2>1, <2>3, HandlerLife DEF Goto
<1> QED
  BY <1>0, <1>1, <1>3, <1>4, <1>5, VolumeSteps

LEMMA MarkLife ==
  ASSUME TypeInv, TypeInv', LifeInv,
         MarkStarting \/ MarkReady \/ MarkSuspended \/ MarkResumed \/ MarkTerminated
  PROVE  LifeInv'
<1> DEFINE d == my.pod
           Here == RecordOf(d) /\ VolumeOf(d) /\ ContainerOf(d)
           Kept == \A e : e = d => Copies' /\ RecordOf(e)' /\ VolumeOf(e)' /\ ContainerOf(e)'
<1>0. /\ d \in Pods /\ InHandler /\ my.rt \in Recs /\ rec \in [Pods -> Recs]
      /\ UNCHANGED <<known, vol, ctr, swallowed, restarted>>
  BY DEF TypeInv, MarkStarting, MarkReady, MarkSuspended, MarkResumed, MarkTerminated, InHandler, Frames, outer, world
<1>1. ASSUME NEW r \in Recs, Save(d, r), my'.pod = d \/ ~InHandler', ~restarted /\ Copies /\ Here => Kept
      PROVE  LifeInv'
  <2> HIDE DEF Kept
  <2>1. \A e \in Pods \ {d} : rec'[e] = rec[e]
    BY <1>0, <1>1, Saved
  <2> QED
    BY <1>0, <1>1, <2>1, HandlerLife DEF Kept
<1>2. CASE MarkStarting
  <2> DEFINE r == [my.rt EXCEPT !.status = "starting", !.map = NoMap]
  <2>1. r \in Recs /\ r.status = "starting" /\ r.cid = my.rt.cid
    BY <1>0, EmptyMap DEF Recs, Statuses
  <2>2. Save(d, r) /\ UNCHANGED my /\ pc = "save" /\ pc' = "run"
    BY <1>2 DEF MarkStarting, Goto
  <2>3. rec'[d] = r
    BY <1>0, <2>1, <2>2, Saved
  <2> HIDE DEF r
  <2>4. ~restarted /\ Copies /\ Here => Kept
    BY <1>0, <2>1, <2>2, <2>3 DEF Copies, RecordOf, VolumeOf, ContainerOf, At, Starting, Copying, Unmounted, Unlinked, Removed, Left
  <2> QED
    BY <1>1, <2>1, <2>2, <2>4
<1>3. CASE MarkReady
  <2> DEFINE r == [my.rt EXCEPT !.status = "ready", !.cid = TRUE]
  <2>1. r \in Recs /\ r.status = "ready" /\ r.cid /\ r.ssh = my.rt.ssh /\ r.map = my.rt.map
    BY <1>0 DEF Recs, Statuses
  <2>2. Save(d, r) /\ pc = "markReady" /\ pc' = "next"
    BY <1>3 DEF MarkReady, Leave
  <2>3. rec'[d] = r
    BY <1>0, <2>1, <2>2, Saved
  <2> HIDE DEF r
  <2>4. ~restarted /\ Copies /\ Here => Kept
    BY <1>0, <2>1, <2>2, <2>3 DEF Copies, RecordOf, VolumeOf, ContainerOf, At, Starting, Copying, Asked, Mine, Unmounted, Unlinked, Removed, Left
  <2> QED
    BY <1>1, <2>1, <2>2, <2>4 DEF InHandler
<1>4. ASSUME NEW s \in Statuses, Save(d, [my.rt EXCEPT !.status = s]), Leave,
             \/ pc = "markSuspended" /\ s = "suspended"
             \/ pc = "markResumed" /\ s = "ready"
             \/ pc = "markTerminated" /\ s = "terminated"
      PROVE  LifeInv'
  <2> DEFINE r == [my.rt EXCEPT !.status = s]
  <2>1. r \in Recs /\ r.status = s /\ r.cid = my.rt.cid /\ r.ssh = my.rt.ssh /\ r.map = my.rt.map
    BY <1>0, WithStatus
  <2>2. Save(d, r) /\ pc' = "next"
    BY <1>4 DEF Leave
  <2>3. rec'[d] = r
    BY <1>0, <2>1, <2>2, Saved
  <2> HIDE DEF r
  <2>4. ~restarted /\ Copies /\ Here => Kept
    BY <1>0, <1>4, <2>1, <2>2, <2>3 DEF Copies, RecordOf, VolumeOf, ContainerOf, At, Starting, Copying, Unmounted, Unlinked, Removed, Left
  <2> QED
    BY <1>1, <2>1, <2>2, <2>4 DEF InHandler
<1>5. CASE MarkTerminated /\ Save(d, NoRec) /\ my.rt.status = "suspended"
  <2>1. NoRec \in Recs /\ NoRec.status = "none" /\ ~NoRec.cid /\ pc = "markTerminated" /\ pc' = "next"
    BY <1>5, RecordsOfNothing DEF MarkTerminated, Leave, NoRec
  <2>3. rec'[d] = NoRec
    BY <1>0, <1>5, <2>1, Saved
  <2>4. ~restarted /\ Copies /\ Here => Kept
    BY <1>0, <1>5, <2>1, <2>3 DEF Copies, RecordOf, VolumeOf, ContainerOf, At, Starting, Copying, Unmounted, Unlinked, Removed, Left
  <2> QED
    BY <1>1, <1>5, <2>1, <2>4 DEF InHandler
<1> QED
  BY <1>2, <1>3, <1>4, <1>5 DEF MarkSuspended, MarkResumed, MarkTerminated, Statuses

LEMMA DockerLife ==
  ASSUME TypeInv, TypeInv', LifeInv, RunPod \/ PausePod \/ ResumePod \/ StopPod \/ DeleteVolume
  PROVE  LifeInv'
<1> DEFINE d == my.pod
           Here == RecordOf(d) /\ VolumeOf(d) /\ ContainerOf(d)
           Kept == \A e : e = d => Copies' /\ RecordOf(e)' /\ VolumeOf(e)' /\ ContainerOf(e)'
<1>0. /\ d \in Pods /\ InHandler /\ my.rt \in Recs /\ ctr \in [Pods -> Ctrs] /\ vol \in [Pods -> Vols]
      /\ UNCHANGED restarted
  BY DEF TypeInv, RunPod, PausePod, ResumePod, StopPod, DeleteVolume, InHandler, Frames
<1>1. CASE RunPod
  <2>0. /\ pc = "run" /\ UNCHANGED <<known, vol, swallowed>>
        /\ \A e \in Pods \ {d} : ctr'[e] = ctr[e]
    BY <1>1, ContainerTypes DEF RunPod
  <2>1. CASE Fail
    <3>1. restarted => LifeInv'
      BY <1>0 DEF LifeInv
    <3>2. ~restarted => VolumeOf(d)
      BY <1>0 DEF LifeInv
    <3>3. ~restarted => /\ vol'[d].mounts <= 1 \/ <<d, "umount">> \in swallowed'
                        /\ d \notin known => \A e : e = d => Unmounted(e)' /\ Unlinked(e)'
      BY <2>0, <3>2 DEF VolumeOf, At, Unmounted, Unlinked, Left
    <3>4. /\ pc' = "next" /\ rec'[d].status = "failed" /\ rec'[d].cid = rec[d].cid
          /\ \A e \in Pods \ {d} : rec'[e] = rec[e]
      BY <1>0, <2>1, Failed
    <3> QED
      BY <1>0, <2>0, <3>1, <3>3, <3>4, GivenUp DEF Starting
  <2>2. CASE ~Fail
    <3>1. /\ pc' = "markReady" /\ UNCHANGED <<rec, my>>
          /\ ctr'[d] = [st |-> "running", ports |-> Asked]
      BY <1>0, <1>1, <2>2 DEF RunPod, RunFails, Runs, Goto
    <3>2. Asked' = Asked
      BY <3>1 DEF Asked, Mine
    <3>3. ~restarted /\ Copies /\ Here => Kept
      BY <1>0, <2>0, <3>1, <3>2 DEF Copies, RecordOf, VolumeOf, ContainerOf, At, Starting, Copying,
                                    Unmounted, Unlinked, Removed, Left
    <3> QED
      BY <1>0, <2>0, <3>1, <3>3, HandlerLife
  <2> QED
    BY <2>1, <2>2
<1>2. CASE PausePod
  <2>1. /\ pc = "pause" /\ pc' = "markSuspended" /\ UNCHANGED <<rec, known, vol, my, swallowed>>
        /\ ctr'[d].ports = ctr[d].ports /\ (ctr[d].st # "none" => ctr'[d].st # "none")
        /\ \A e \in Pods \ {d} : ctr'[e] = ctr[e]
    BY <1>0, <1>2 DEF PausePod, Goto, Ctrs
  <2>2. ~restarted /\ Copies /\ Here => Kept
    BY <1>0, <2>1 DEF Copies, RecordOf, VolumeOf, ContainerOf, At, Starting, Copying,
                      Unmounted, Unlinked, Removed, Left
  <2> QED
    BY <1>0, <2>1, <2>2, HandlerLife
<1>3. CASE ResumePod
  <2>1. /\ pc = "start" /\ UNCHANGED <<rec, known, vol, my, swallowed>>
        /\ \A e \in Pods \ {d} : ctr'[e] = ctr[e]
        /\ ctr'[d].ports = ctr[d].ports
        /\ \/ ~my.rt.cid /\ pc' = "markResumed" /\ ctr'[d] = ctr[d]
           \/ pc' = "markResumed" /\ ctr'[d].st = "running"
           \/ pc' = "markSuspended" /\ (ctr'[d] = ctr[d] \/ ctr'[d].st = "running")
    BY <1>0, <1>3 DEF ResumePod, Starts, Goto, Ctrs
  <2>2. ~restarted /\ Copies /\ Here => Kept
    BY <1>0, <2>1 DEF Copies, RecordOf, VolumeOf, ContainerOf, At, Starting, Copying,
                      Unmounted, Unlinked, Removed, Left
  <2> QED
    BY <1>0, <2>1, <2>2, HandlerLife
<1>4. CASE StopPod
  <2>1. /\ pc = "stop" /\ UNCHANGED <<rec, known, vol, my>> /\ swallowed \subseteq swallowed'
        /\ IF my.rt.cid
             THEN pc' = "delete" /\ \A e : e = d => Removed(e)'
             ELSE pc' = "markTerminated" /\ ctr'[d] = ctr[d]
        /\ \A e \in Pods \ {d} : ctr'[e] = ctr[e]
    BY <1>0, <1>4 DEF StopPod, Goto, Removed, Left
  <2>2. ~restarted /\ Copies /\ Here => Kept
    BY <1>0, <2>1 DEF Copies, RecordOf, VolumeOf, ContainerOf, At, Starting, Copying,
                      Unmounted, Unlinked, Left
  <2> QED
    BY <1>0, <2>1, <2>2, HandlerLife
<1>5. CASE DeleteVolume
  <2>1. /\ pc = "delete" /\ pc' = "markTerminated" /\ UNCHANGED <<rec, ctr, my>>
        /\ known' = known \ {d} /\ swallowed \subseteq swallowed'
        /\ \A e \in Pods \ {d} : vol'[e] = vol[e]
    BY <1>0, <1>5 DEF DeleteVolume, Destroy, Goto, TypeInv
  <2>2. ~restarted => /\ vol'[d].mounts <= 1 \/ <<d, "umount">> \in swallowed'
                      /\ \A e : e = d => Unmounted(e)' /\ Unlinked(e)'
    <3> SUFFICES ASSUME ~restarted, NEW e, e = d
                 PROVE  (vol'[e].mounts <= 1 \/ Left(e, "umount")') /\ Unmounted(e)' /\ Unlinked(e)'
      BY DEF Left
    <3>1. VolumeOf(e) /\ e \in Pods /\ vol[e] \in Vols
      BY <1>0 DEF LifeInv
    <3>2. CASE UNCHANGED <<vol, swallowed>> /\ e \notin known
      BY <2>1, <3>1, <3>2 DEF VolumeOf, At, Unmounted, Unlinked, Left
    <3>3. ASSUME NEW failed \in SUBSET Cleanups(vol[e]), Destroy(e, vol[e], failed)
          PROVE  (vol'[e].mounts <= 1 \/ Left(e, "umount")') /\ Unmounted(e)' /\ Unlinked(e)'
      <4>1. vol'[e] = Destroyed(vol[e], failed) /\ swallowed' = swallowed \cup ({e} \X failed)
        BY <3>1, <3>3, DestroyTypes
      <4> QED
        BY <3>1, <4>1, RollBackLeaves DEF VolumeOf
    <3> QED
      BY <1>5, <3>2, <3>3 DEF DeleteVolume
  <2>3. ~restarted /\ Copies /\ Here => Kept
    BY <1>0, <2>1, <2>2 DEF Copies, RecordOf, VolumeOf, ContainerOf, At, Starting, Copying, Removed, Left
  <2> QED
    BY <1>0, <2>1, <2>3, HandlerLife
<1> QED
  BY <1>1, <1>2, <1>3, <1>4, <1>5

LEMMA WorldLife ==
  ASSUME TypeInv, TypeInv', LifeInv,
         \/ BeginPass \/ EndPass \/ Restart \/ AskAgain \/ UNCHANGED vars
         \/ \E d \in Pods : LeaseEvent(d)
         \/ \E p \in SshPorts \cup UserPorts : GrabPort(p)
  PROVE  LifeInv'
<1>1. CASE Restart
  BY <1>1 DEF Restart, LifeInv
<1>2. CASE ~Restart
  <2>1. /\ UNCHANGED <<rec, known, my, ctr, vol, swallowed, restarted>>
        /\ pc' = pc \/ (~InHandler /\ ~InHandler')
    BY <1>2 DEF BeginPass, EndPass, AskAgain, LeaseEvent, GrabPort, Goto, vars, agent, outer, world, InHandler
  <2>2. Asked' = Asked
    BY <2>1 DEF Asked, Mine
  <2> QED
    BY <2>1, <2>2 DEF LifeInv, Copies, RecordOf, VolumeOf, ContainerOf, At, Starting, Copying, InHandler,
                       Unmounted, Unlinked, Removed, Left
<1> QED
  BY <1>1, <1>2

LEMMA LifeStays == Spec => []LifeInv
<1>1. TypeInv /\ TypeInv' /\ LifeInv /\ [Next]_vars => LifeInv'
  BY VisitLife, ChoiceLife, VolumeLife, MarkLife, DockerLife, WorldLife DEF Next, PassStep, Handler
<1> QED
  BY <1>1, InitLife, Types, PTL DEF Spec

(* For any pods, ports and faults: chosen ports are of the right range and  *)
(* asked for, and until a restart no volume is mounted twice.               *)
THEOREM PodHostTypes == Spec => []PodHostTypeOK
<1>1. TypeInv /\ PortInv /\ LifeInv => PodHostTypeOK
  <2> SUFFICES ASSUME TypeInv, PortInv, LifeInv PROVE PodHostTypeOK
    OBVIOUS
  <2>1. \A d \in Pods : rec[d] \in Recs /\ vol[d] \in Vols /\ rec[d].map \in Maps
    BY DEF TypeInv, Recs
  <2>2. \A d \in Pods : Range(rec[d].map) \subseteq UserPorts \cup {UserEnd}
    BY <2>1, MapParts DEF Ports
  <2>3. \A d \in Pods : restarted \/ <<d, "umount">> \in swallowed \/ vol[d].mounts <= 1
    BY DEF LifeInv, VolumeOf, Left
  <2> QED
    BY <2>1, <2>2, <2>3 DEF PodHostTypeOK, TypeInv, PortInv, MapsFit, Recs, Vols, Frames
<1> QED
  BY <1>1, Types, PortsStay, LifeStays, PTL

(* For any pods, ports and faults, until a restart: a ready pod owns the    *)
(* ports its record names.                                                  *)
THEOREM ReadyIsReachableHolds == Spec => []ReadyIsReachable
<1>1. LifeInv => ReadyIsReachable
  BY DEF LifeInv, RecordOf, ContainerOf, ReadyIsReachable, Published, At
<1> QED
  BY <1>1, LifeStays, PTL

(* For any pods, ports and faults, until a restart: what a teardown leaves  *)
(* of a pod that had a container is what a command failed to remove.        *)
THEOREM VolumeIsReclaimedHolds == Spec => []VolumeIsReclaimed
<1>1. LifeInv => VolumeIsReclaimed
  <2> SUFFICES ASSUME LifeInv, ~restarted, NEW d \in Pods, TornDown(d)
               PROVE  Removed(d) /\ Unmounted(d) /\ Unlinked(d)
    BY DEF VolumeIsReclaimed, Removed, Unmounted, Unlinked, Left
  <2>1. d \notin known /\ Removed(d) /\ ~At(d, {"mount"})
    BY DEF LifeInv, Copies, RecordOf, VolumeOf, ContainerOf, TornDown, At, Starting
  <2> QED
    BY <2>1 DEF LifeInv, VolumeOf
<1> QED
  BY <1>1, LifeStays, PTL

=============================================================================
