---------------------------- MODULE GpuAllocator ----------------------------
(***************************************************************************)
(* The whole-device GPU ledger of one node (domain/gpu_allocator.py).       *)
(*                                                                         *)
(* alloc[d] is the set of device indices recorded for deployment d.  A      *)
(* deployment the dictionary does not hold and one it holds with an empty   *)
(* set are the same here: no method distinguishes them.  Every method runs  *)
(* under the allocator's own lock, so each is one atomic action; what is    *)
(* NOT atomic is a caller's sequence of them (see NodeAgent).               *)
(***************************************************************************)
EXTENDS Integers, FiniteSets

CONSTANTS
  Deployments,  \* deployment ids
  Devices       \* device_ids = {0 .. total_gpus - 1}

ASSUME DevicesAssumption == Devices \subseteq Nat /\ IsFiniteSet(Devices)

VARIABLE alloc

TotalGpus == Cardinality(Devices)

AllocatedDevices == UNION {alloc[d] : d \in Deployments}

FreeDevices == Devices \ AllocatedDevices

(* sorted(S)[:n] as a set: the n smallest members of S. *)
Lowest(S, n) == {g \in S : Cardinality({h \in S : h < g}) < n}

CanAllocate(n, avoid) ==
  n = 0 \/ (n <= TotalGpus /\ n <= Cardinality(FreeDevices \ avoid))

(* A request for no device returns [] and records nothing. *)
ChosenFromTop(n, avoid) == {TotalGpus - i : i \in 0 .. (n - 1)}
ChosenIgnoringLedger(n, avoid) == Lowest(Devices \ avoid, n)
Chosen(n, avoid) == Lowest(FreeDevices \ avoid, n)

Allocate(d, n, avoid) ==
  /\ CanAllocate(n, avoid)
  /\ alloc' = IF n = 0 THEN alloc
              ELSE [alloc EXCEPT ![d] = Chosen(n, avoid)]

(* The devices d itself holds count as available to it. *)
CanReserveAny(d, want) == want \subseteq Devices
CanReserve(d, want) == want \subseteq FreeDevices \cup alloc[d]

AllocateSpecific(d, want) ==
  /\ CanReserve(d, want)
  /\ alloc' = IF want = {} THEN alloc ELSE [alloc EXCEPT ![d] = want]

Release(d) == alloc' = [alloc EXCEPT ![d] = {}]

(* rehydrate(), once per persisted runtime and before anything else: each   *)
(* claim is recorded as it is, overlaps included.                           *)
Rehydrate(claims) == alloc' = claims

AllocatorInit == alloc = [d \in Deployments |-> {}]

-----------------------------------------------------------------------------
AllocatorTypeOK == alloc \in [Deployments -> SUBSET Devices]

(* Pairs of deployments that claim a common device. *)
Overlaps == {p \in Deployments \X Deployments :
               p[1] # p[2] /\ alloc[p[1]] \cap alloc[p[2]] # {}}

(* No two deployments are recorded on one card ("prevents double-           *)
(* allocation", class docstring).                                           *)
Disjoint == \A d, e \in Deployments : d # e => alloc[d] \cap alloc[e] = {}

=============================================================================
