------------------------------ MODULE Heartbeat ------------------------------
(***************************************************************************)
(* The heartbeat thread beside the node agent: build_capacity_update reads  *)
(* the records, then the GPU probe, then the ledger, none of them under a   *)
(* common lock, and publishes the number of cards it believes free.         *)
(***************************************************************************)
EXTENDS NodeAgent

(* The repository's dictionary is finite.                                   *)
ASSUME HeartbeatAssumption == IsFiniteSet(Deployments)

VARIABLES
  tick,       \* locals of the tick under way
  advertised  \* available_gpus of the last update the control plane accepted

hbVars == <<tick, advertised>>

(* quiet: neither the records nor the ledger have moved since the tick read *)
(* the records (a history variable, for the properties).                    *)
NoTick == [at |-> "idle", reserved |-> 0, busy |-> {}, quiet |-> TRUE]

(* The cards reserved_gpus counts a record for, len(gpu_devices) or         *)
(* int(gpu_count or 1) of them: those it names, or one more for a record    *)
(* that names none.                                                         *)
Counted(r) == IF r.devs = {} THEN {"unnamed"} ELSE r.devs

(* The sum over the active records: a card that two of them name is counted *)
(* twice.                                                                   *)
Reserved     == UNION {{d} \X Counted(runtimes[d]) : d \in {e \in Deployments : runtimes[e].status \in Active}}
ReservedGpus == Cardinality(Reserved)

ReadRecords ==
  /\ tick.at = "idle"
  /\ tick' = [at |-> "probe", reserved |-> ReservedGpus, busy |-> {}, quiet |-> TRUE]
  /\ UNCHANGED <<vars, advertised>>

(* nvidia-smi, as the start handlers see it.                                *)
Probe ==
  /\ tick.at = "probe"
  /\ \E s \in Readings : tick' = [tick EXCEPT !.at = "publish", !.busy = s]
  /\ UNCHANGED <<vars, advertised>>

AvailableTheftBlind == IF TotalGpus > tick.reserved THEN TotalGpus - tick.reserved ELSE 0
AvailableUnclamped == TotalGpus - (tick.reserved + Cardinality(tick.busy \ AllocatedDevices))
Available ==
  LET taken == tick.reserved + Cardinality(tick.busy \ AllocatedDevices)
  IN IF TotalGpus > taken THEN TotalGpus - taken ELSE 0

Publish ==
  /\ tick.at = "publish"
  /\ advertised' = IF cpUp THEN Available ELSE advertised
  /\ tick' = NoTick
  /\ UNCHANGED vars

(* Anything else the node does; a restart loses the tick.                   *)
Elsewhere ==
  /\ Next
  /\ tick' = IF budget'["crash"] # budget["crash"] THEN NoTick
             ELSE [tick EXCEPT !.quiet = @ /\ runtimes' = runtimes /\ alloc' = alloc]
  /\ UNCHANGED advertised

HbInit == Init /\ tick = NoTick /\ advertised = 0
HbNext == ReadRecords \/ Probe \/ Publish \/ Elsewhere
HbSpec == HbInit /\ [][HbNext]_<<vars, hbVars>>

-----------------------------------------------------------------------------
(* The tick's locals are in range, and what is advertised is never negative *)
(* nor more than the node has.                                              *)
HbTypeOK ==
  /\ tick \in [at : {"idle", "probe", "publish"}, reserved : Nat, busy : SUBSET Devices, quiet : BOOLEAN]
  /\ advertised \in 0 .. TotalGpus

AtRest == \A a \in Actors : pc[a] \in {"idle", "next"}

(* A tick that ran while no handler was in flight advertises exactly the    *)
(* cards that are free in the ledger and not busy with someone else's work: *)
(* the records and the ledger, two books kept by different code, agree.     *)
ExactAtRest ==
  [][ Publish /\ cpUp /\ tick.quiet /\ AtRest
      => advertised' = Cardinality(FreeDevices \ tick.busy) ]_<<vars, hbVars>>

=============================================================================
