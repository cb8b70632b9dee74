# Verification of the GreenCompute node agent

The repository is the agent a miner runs on each GPU box: it takes leases from
a control plane, starts inference containers, pods and VMs for them on the
box's cards, suspends, resumes and tears them down, and reports what it did and
what is free. This directory holds TLA+ models of that agent, TLC
configurations that check them, and TLAPS proofs about them.

Paths below are relative to
`services/node-agent/src/greencompute_node_agent/` unless they start with
`tests/`.

## 1. Inventory

### Components, state, operations

| Component | State | Operations | Modelled in |
|---|---|---|---|
| GPU ledger (`domain/gpu_allocator.py`) | deployment -> device indices | `allocate` (lowest free, avoiding a set), `allocate_specific`, `release`, `rehydrate`, counts | `GpuAllocator` |
| Runtime repository (`infrastructure/repository.py`) | runtime record per deployment, in memory and in a JSON file | `upsert_runtime` (saves under the lock), `remove_runtime`, snapshots, `_load` | `NodeAgent` (one variable), `ProcessNode` (memory and file apart) |
| Reconcile pass (`application/services.py`) | reconcile lock; lease list, snapshot | `reconcile_once`: lease loop, then clean-up loop | `NodeAgent` |
| Start handlers | record in accepted / starting / ready / failed | `_reconcile_workload`, `_start_{inference,pod,vm}_runtime`, `_fail_runtime` | `NodeAgent`, `PodHost`, `ProcessNode` |
| Suspend and resume | record in suspended | `_suspend_runtime`, `_resume_runtime` | `NodeAgent` |
| Teardown | - | `_terminate_runtime`, by the pass and by `DELETE .../terminate` | `NodeAgent` |
| Recovery and restart | - | `__init__` (ledger rebuilt from records), `recover_runtime_state` | `NodeAgent` |
| Heartbeat (`main.py`, `build_capacity_update`) | locals of a tick | read records, probe, ledger; publish | `Heartbeat` |
| Pod / inference backends (`domain/pod.py`, `domain/inference.py`) | docker containers by deterministic name | `rm -f`, `run`, `stop`, `start`, each with a failure and a timeout | `NodeAgent`, `MultiNode` |
| Multi-node launch (`domain/multinode_launch.py`) | shell scripts inside the containers of a head and its workers | Ray start, join loop, cluster wait, serve | `MultiNode` |
| Volumes (`domain/volume.py`, `domain/disk.py`) | ext4 images, loop mounts, in-memory records | create, delete | `PodHost`; `NodeAgent` (presence) |
| Ports and SSH (`domain/ssh.py`) | host ports docker and other processes hold | probe and choose | `PodHost` |
| Process / fallback inference backend (`domain/inference.py`) | pids | start, health wait, fall back, stop | `ProcessNode` |
| Artifact store (`domain/inference.py`) | two things on disk per deployment | stage, make the runtime directory, delete | `ProcessNode` |
| Telemetry, attestation, templates, configuration, docker flag building, runtime server, diffusion server | none shared | reads and string building | not modelled |

`PROJECT.json` lists every component with its status.

### How they interact

Two loops of `main.py` run in executor threads of their own: `_worker_loop` runs
passes, `_heartbeat_loop` publishes the capacity. A FastAPI thread per request
may call `terminate_deployment`, `reconcile_once` or
`recover_runtime_state`. `reconcile_once` and `recover_runtime_state` exclude
each other by `_reconcile_lock`; `terminate_deployment` takes no lock, and the
heartbeat takes none either. All of them share the repository and the ledger,
each of which has a lock for single calls only. The docker daemon and the JSON
file survive an agent restart; the ledger and the volume records do not.

### Hard behaviour

* The terminate route and the pass interleave between any two calls.
* The process can die between any two calls; the ledger is then rebuilt from
  records that were written at different moments of different handlers.
* A docker command can fail, or time out and have its effect all the same; most
  of those failures are swallowed.
* The control plane can be unreachable, delete a deployment, move its lease to
  another box, suspend and resume it, while a pass works on the lease list it
  read.
* Two books count the same cards: the records (`metadata.gpu_devices`) and the
  ledger. A third observer, `nvidia-smi`, sees what really runs.
* The ranks of a distributed replica start in any order on different boxes,
  each with its own deadline for the others.
* A host port is probed, released, and bound much later; a suspended pod gives
  its ports up without knowing it, and asks for the same ones again.
* The repository may fail to save what it has already changed in memory, in the
  middle of a handler; the exception ends the pass, or, from a dispatch, is
  reported as a failure.
* A process is started before its pid is recorded, and forgotten when its health
  check fails.

### What makes each component correct

* Ledger: exclusive, for whatever sequence of calls; nothing of a failed start
  stays in it; after a restart it agrees with the records.
* Records: ready means the named container runs on the named cards.
* Containers: no two that run share a card; a deployment that ended uses none.
* Suspension: frees the cards, keeps a pod's container and volume, and the
  resume gets the same cards or waits.
* Passes: every lease settles; an ended lease is reclaimed; a local duplicate of
  another box's deployment is not reported dead.
* Heartbeat: a tick that overlaps no handler advertises the free cards, no more and
  no fewer.
* Ports: no pod is run with a port twice or handed the address of another one;
  the choice ends.
* Volumes: an image and its mount go with the pod, but for what a failing command
  left.
* Processes: each living one is named by somebody, ready means it has answered,
  an ended deployment has none.
* Reports: what the control plane was told, no crash takes back.
* Bring-up: ranks may start in any order; every start handler returns with a
  verdict; workers go with their head.

## 2. Modules

    GpuAllocator                    the ledger
      NodeAgent                     the agent, docker, the control plane, restarts
        NodeAgentProps              what it promises; a refinement of Serving
          NodeAgent_proofs          TLAPS: types, the ledger
            Serving_proofs          TLAPS: records and ledger, the refinement
              Containers_proofs     TLAPS: what holds while no docker command fails
                Restarts_proofs     TLAPS: what holds when they fail and processes die
          MCNodeAgent               instances for TLC
        Heartbeat                   the capacity tick beside the agent
          Heartbeat_proofs          TLAPS, over Restarts_proofs
          MCHeartbeat
    Serving                         abstract: cards are taken, served on, given back
    PodHost                         host ports and volumes of pods
      PodHost_proofs                TLAPS
      MCPodHost
    ProcessNode                     inference by processes; the repository's file
      ProcessNode_proofs            TLAPS
      MCProcessNode
    MultiNode                       bring-up of inference containers, in time
      MultiNodeProps
        MultiNode_proofs            TLAPS
        MCMultiNode

**GpuAllocator.** `alloc` is the allocator's dict. `Allocate`,
`AllocateSpecific`, `Release`, `Rehydrate` are its methods; `Chosen` is the
lowest-first choice with the avoided devices removed.

**NodeAgent.** An action is one call with an outside effect (repository,
ledger, docker, volume, control plane) together with the computation next to it.
`pc[a]` names the next call of thread `a`, `call[a]` the locals of the handler
it is in. The thread `Pass` is whoever holds the reconcile lock; `Routes` are
request threads inside `terminate_deployment`. So two threads interleave, and
`Restart` strikes, between any two calls. `cont` holds the container of each
deployment's deterministic name with an id, so that an `rm -f` of an old id, or
a `docker start` of a container that was replaced, does what docker does. The
busy probe is read before the ledger (`ProbeGpus`, `ReadLedger`, with `seen` between
them), and the allocator looks for cards only then. A reading is any subset of the
cards our own containers and other tenants keep busy: a container may not have
touched its card yet, and a probe that fails shows nothing. The control plane is a lease and a state per deployment.

**Serving.** What a node promises the deployments it serves, without records,
handlers, docker or a control plane: `Take`, `Serve`, `GiveBack`, and a
`Restart` that leaves everybody who serves its cards and may bring back claims
of the others. `NodeAgentProps` maps `held` to the ledger, `serving` to the
deployments whose record is ready and whose teardown or suspension has not
released yet (`Served`), and `restarts` to the crashes used up; `NodeAgent`
implements it (`KeepsItsPromise`), which TLC checks as a property and TLAPS
proves without terminate requests.

**PodHost.** What `NodeAgent` has as one step (`Prepare`) and one bit (the
volume): the choice of an SSH port and of the requested ports, one loop
iteration an action (`ChooseSame`, `ChooseAny`, `AskAgain`), `create_loop_volume`
in its two commands that leave something behind, the `docker run` that binds the
ports, suspension, resume and teardown with what each does to ports and volume.
Every docker and disk command may fail where the code goes on, swallows it or
raises: `docker ps`, `run`, `stop`, `start` and `rm`, `mkfs`, `mount`, and the `umount`
and `unlink` of the roll-back and of the teardown. The history variable `swallowed`
names the clean-up commands that failed and left their object.
`ctr` holds the ports docker publishes or would bind again, `host` those of other
processes, `vol` image and mounts. `SeesHost` says whether the socket test of the
agent sees the host's listeners; in a container it does not. Cards are left out.

**ProcessNode.** The process backend, the artifact store and the repository with
memory (`mem`) and file (`file`) apart. `Upsert` changes memory and then the
file, or fails in between; `Raise` is where such an exception goes, which is the
end of the pass or, in a dispatch, a report of failure. `proc` lists the
processes by pid; `Restart` loads the file and either leaves the processes alone
or, where the agent runs in a container, loses them and starts the pids from one
again. `Kill` is `_terminate_pid`: the process is `dying` until `Die`, since nobody waits
for it, or the kill fails and nobody hears of it. The history variables `lost`, `left` and `stale` say what the code has no
means to know any more, so that the properties can speak of everything else.

**Heartbeat.** Adds a tick in three steps (records, probe, publish) to every
behaviour of `NodeAgent`. The sum over the records is the number of pairs of an
active deployment and a card its record counts for (`Reserved`), so that a card
two records name is counted twice, as in the code.

**MultiNode.** `NodeAgent` has a start as one step, `RunOk` or `RunFails`;
`MultiNode` is what decides between them. `ctr[r]` is where the shell script of
a container is, `agent[r]` the verdict of the agent that started it, and `work`,
`window`, `left` count down the script's own work, its deadline for the others
and the agent's health timeout. Polling periods (2, 5, 10 s) are short against
these, so a tick passes only when nobody has anything to do (`ScriptDue`,
`AgentDue`, `LaunchDue`). A mishap is a container that dies by itself or a docker
command that fails: an `inspect` taken for a container that is not running, an
`rm -f` that leaves the container behind a failed start. Single-node runtimes are in the model too: the same
`_wait_for_health` serves them.

## 3. Runs

| Run | Question | Result |
|---|---|---|
| `agent_pass` | The pass alone with an outage, a suspension, a start that cannot be prepared and a card somebody else takes: are cards and containers exclusive, is ready true, is anything left behind? | holds |
| `agent_restart` | The process dies anywhere, a recovery runs at any time: what of the exclusivity survives, what can leak, and is it `Serving` all the same? | holds |
| `agent_routes` | A terminate request beside the pass, docker commands fail: does the ledger itself stay exclusive? | holds |
| `agent_live` | Of one lease, of a pod or an inference deployment suspended up to twice: does it settle, does each suspension free its cards, and does an ended deployment stop using cards, with its container as well as in the ledger? | holds |
| `heartbeat` | Does a tick that overlaps no handler advertise exactly the free cards? | holds |
| `multinode` | Ranks in any order in the window, one container may die or one docker command fail: a verdict for each start, nobody gives up or is given up early, workers go with their head? | holds |
| `pods` | Two pods, few ports, a suspension and faults of one kind: does a ready pod own its address, does a teardown leave only what a failing command left, and does the choice of ports end? | holds |
| `process` | A save or a kill that fails, processes that are slow or exit, files in use, a crash: is every process known, ready true, every report durable, and is the process of an ended deployment gone in the end? | holds |
| `port_loop` | Does the choice of ports notice that the range is exhausted? | violated |
| `outage_teardown` | Does a runtime survive an unreachable control plane? | violated |
| `terminate_race` | Do containers stay exclusive beside a terminate request? | violated |
| `multinode_head` | Is a head that serves kept? | violated |

### Bounds

The agent runs have two deployments, a pod and an inference runtime, of one
card each on a node of two cards: enough for each to run, for one to take the
other's card (allocation is lowest-first, so a freed card 0 is what the next
start gets), and for a resume to find its card taken. VMs take the same code
path with a backend that starts nothing; the proofs cover them.
Container ids are bounded by the faults, which are budgeted (`Budget`): each run
names which may happen and how often. Lease events are bounded by their order: a
lease is created once, moved or ended once, suspended as often as the budget says.
There is one request thread, since the terminate request races with the pass, not
with another terminate. Otherwise a run of the agent allows at most one fault of a
kind: the violations need no more; in `agent_pass` the squatter comes beside at most
one of the others (`SquatterAndOne`). `agent_live` has the same two deployments, of
which at most one gets a lease (`OneLease`, a constraint that cuts no step the code
is fair to): a pod's life cycle and an inference runtime's, each with a crash, an
outage, a failed `docker run`, a recovery and two suspensions, the second of which
may find the runtime `accepted`. No run has symmetry. The passing runs reach 1.6
million distinct states (`agent_pass`), 1.5 (`agent_restart`), 2.2 (`agent_routes`,
`heartbeat`) and 0.34 (`agent_live`).

Several properties are about what is left when nothing failed, and stop holding
under a fault the run that checks them leaves out. Each was tried with every
fault of `Faults`, added alone to a pass that suspends once:

| Added fault | Properties that no longer hold | Why |
|---|---|---|
| a preparation that fails, a recovery, a squatter | none | |
| an outage | `NeverKillsElsewhere` without its premise on the outage | an empty lease list makes an orphan of every runtime |
| a crash | `NothingLeftBehind`, `ReadyIsRunning`, `NoSharedGpu` | a container runs before its id is saved; the record forgets it |
| a `docker rm` or `stop` that fails | `PodHasVolume`, `NothingLeftBehind`, `LeaksAreUnrecorded`, `NoSharedGpu` | the teardown releases the cards first and goes on after the failure |
| a `docker run` that fails or times out | `NothingLeftBehind`, `NoSharedGpu` | a timed-out `run` may have started the container |
| a terminate request | `ReadyOwnsItsGpus`, `LedgerFollowsRecords`, `ReadyExclusive`, `SuspendedKept`, `ReadyIsRunning`, `NothingLeftBehind`, `NoSharedGpu` | it takes no lock and works on a record it read before |

`NoDoubleAllocation` and `OnlyRestartOverlaps` hold under all of them, which the
proofs show for every instance.
`multinode` has two workers, so that the first may join long before the second;
`Wait` 3 is just above `Skew + Boot`, `Health` 6 just above `Boot + Wait + Load`.

`pods` has two pods on two ports of each range, the end of the user range and
one container port outside it, so that the range runs out, a same-number mapping
is refused because the port was drawn before, and a resume finds its port taken.
`OneKindOfFault` allows one suspension and faults of one kind: a crash, a docker
command that fails, a port another process takes, or two disk commands that fail, so
that a roll-back fails after its `mount`, or both halves of a teardown (0.65 million
states). `port_loop` is the same instance without faults.
`process` has two deployments; `PairsOfFaults` takes a crash, a failed save and a
suspension two at a time, and one suspension with a pair of faults where one leads
into the other (a slow process and one that exits, a refused start and a refused
fallback, files in use and a kill that fails; 0.42 million states). Pids
count starts, which lease events and faults bound.

Deadlock is checked in every run.

### Fairness

`FairSpec`: weak fairness of the next step of the pass, of a teardown in a
request thread, and of the end of an outage. The code justifies the first by
`_worker_loop` in `main.py`, which calls `reconcile_once` forever and catches
whatever it raises, and by the timeouts on every subprocess and HTTP call; the
second by the same timeouts; the third is an assumption on the network without
which no lease can be read. Nothing is assumed about leases, about resumes, or
about the order of passes and requests. `PodHost` and `ProcessNode` assume weak
fairness of the pass, for the same reason, and `ProcessNode` that a process which got
its SIGTERM dies of it (`runtime_server.py` has no handler for it). `AskAgain` is not part of it,
that is: a loop that keeps drawing finds a port it may draw, which random draws
do, and it draws for ever when there is none. `MnSpec`: weak fairness of "a
script, an agent or the clock moves".

## 4. What the violations say

* **An outage tears live runtimes down** (`outage_teardown`,
  `application/services.py:232`). `sync_leases` answers an empty list when the
  call fails, and the clean-up loop of the same pass then takes every runtime
  that is not suspended for an orphan. A comment (285-288) says such a runtime
  keeps running.
* **A terminate request can hand out a card in use** (`terminate_race`, 1060).
  The request reads the record of a start that is still running, before its
  container is named: it releases the cards that start has just allocated, and
  removes no container. The start goes on, runs its container and reports ready, and
  the pass gives the card to the next deployment.
* **A head that serves is removed** (`multinode_head`,
  `domain/inference.py:847`). The agent polls the ephemeral port of `-p`, which
  host networking dropped; vLLM listens on 8000.
* **A pod can hang the agent** (`port_loop`, `application/services.py:627`).
  `choose_free_port` cannot know the ports chosen for this pod a moment ago: when
  they are all that is free, the loop draws them for ever, inside the reconcile
  lock. The branch for an exhausted range (629-634) is reached only if not one
  port is free.

Some behaviour is in the models without a property of its own, because the
properties had to be stated around it:

* A resume of an inference runtime saves it as `accepted` with its former devices
  (1045-1050). If the agent dies there, the ledger is rebuilt with them (125-136), and
  if the lease is suspended again before a pass has retried it, the suspend branch
  passes over the record, which is neither `ready` nor `starting` (294): the cards stay
  in the ledger as long as the lease is suspended (`HeldWhileAccepted`, an exception of
  `SuspensionTakesEffect` which `agent_live` reaches).
* A record left `starting` by a crash names no container. If its lease is suspended
  before it is retried, its resume starts nothing and reports ready
  (`domain/pod.py:358`), so `ReadyIsReachable` stops at the first restart.
* A worker is ready as soon as its container runs (`domain/inference.py:917`); when it
  gives up its join, with a status meant for the agent
  (`domain/multinode_launch.py:297-298`), nobody looks any more.
* By default a head's agent waits 1200 s for its health and the ranks 1800 s for each
  other (`domain/inference.py:623`): a head that still waits, inside the window, for a
  rank launched late is removed. `HeadOutlastsLaunches` needs the launches and a boot to
  fit into the health timeout.
* A container that survives a crash between `docker run` and the save keeps its
  card busy; the probe takes it for a squatter's (`services.py:166`), the retry's
  allocation fails, and the `rm -f` that is there "so pods self-heal too"
  (`domain/pod.py:88`) is not reached.
* While a resume holds its placeholder, the capacity, which counts records
  (184), is one card above the ledger that it "matches" (174-179).
* The ports of a suspended pod look free, and go to whoever asks first; its
  resume is then refused for as long as they are taken.
* A start that fails after its volume was made leaves image and mount, because
  the teardown deletes the volume of a record with a container only (872). The
  next start formats the image again and mounts it a second time on top if a
  crash came in between; the roll-back unmounts once.
* With the two port ranges configured to overlap, an SSH port and a user port
  may be the same and `docker run` refuses the pod; the model assumes they are
  disjoint, as the defaults are.
* A process given up at its health check runs on, without a record that names
  it; so does one whose start a crash cut before the save.
* The files of a failed start, of a fallback and of a runtime that was suspended
  when its lease ended stay; `evict_stale_cache` is called by nobody.
* A retry saves `terminated` and then removes the record (319-322): if the
  removal is not saved, the lease is active and no pass dispatches it again.
* Where the agent runs in a container, a restart starts the pids again, and a
  record of before may name a process of another deployment.
* A ready record is never checked again; `allow_runtime_fallback` of the settings
  is read by nobody.
* After a crash two records can claim one card, one saved `starting`, the other
  saved `accepted` by a resume with its former devices: the rebuilt ledger then
  overlaps (`OnlyRestartOverlaps`, `ReadyExclusive` say how far that goes).
* A pod whose container was removed by a teardown that a restart cut stays
  suspended for ever, and an inference runtime whose former container leaked
  blocks its own resume (`Blocked`).
* A teardown after a restart deletes no volume: `_volume_records` is in memory.
* A report made during an outage is lost.
* A container whose id was never saved, because the process died between `docker run`
  and the save or `docker run` timed out with it up, runs on after its lease has ended
  (`Unnamed`). So does a suspended pod whose resume was cut short after its
  `docker start`, until the control plane says TERMINATED (`StartedUnsaved`).
* A teardown forgets container, volume and process whether or not `docker rm`,
  `umount`, `unlink` and `kill` worked. Only in the roll-back of a start is a failing
  `unlink` an error: of a kind no handler expects, so that it ends the pass with the
  record still `accepted`.

## 5. Proofs

Assumptions on the constants: `DevicesAssumption` and `NodeAssumption` (finite
card set of the node, kinds, budgets are naturals, no route thread is the pass),
`HeartbeatAssumption` (finitely many deployments, as in any dictionary),
`MultiNodeAssumption` (the head is no worker, timeouts are naturals),
`PodHostAssumption` (disjoint port ranges, requests are sequences of numbers,
budgets are naturals) and `ProcessNodeAssumption` (budgets are naturals). TLC
evaluates them in every run that extends their modules.

Some theorems about the agent exclude a fault, because the property is false with
it (the table of section 3). Their assumptions say so by name:

| Assumption | Excludes | Theorems |
|---|---|---|
| none | | `TypeCorrect`, `OverlapsOnlyByRestart`, `NoDoubleAllocationHolds`, `NeverKillsElsewhereHolds`, `HbTypesHold` |
| `RemovalsWork` | `docker rm` / `stop` that fail | `LeaksAreUnrecordedHolds` |
| `Routes = {}` | terminate requests | `ReadyOwnsItsGpusHolds`, `ReadyExclusiveHolds`, `LedgerFollowsRecordsHolds`, `ImplementsServing` |
| `Routes = {}`, `RemovalsWork` | terminate requests, `docker rm` / `stop` that fail | `PodHasVolumeHolds` |
| `Routes = {}`, `Budget["recovery"] = 0` | terminate requests, recoveries | `SuspendedKeptHolds` |
| `NoDeath` | terminate requests, process deaths | `ReadyIsRunningHolds`, and with `NeedsCards` `ExactAtRestHolds` |
| `Calm` | terminate requests, process deaths, `docker rm` / `stop` and `run` that fail | `NoSharedGpuHolds`, `NothingLeftBehindHolds` |

`NodeAgent_proofs`, for every set of deployments, cards, routes and any budget:

* `TypeCorrect`: `Spec => []AgentTypeOK`. Not inductive by itself: a handler that
  runs writes `runtimes[call[a].dep]`, so `TypeInv` adds that whoever is in a
  handler has a deployment in its frame (`CallNamesDep`). One lemma per group of
  actions (`ProbingTypeInv` for the two reads before a choice of cards).
* `OverlapsOnlyByRestart`: `Spec => OnlyRestartOverlaps`. Each step but `Restart`
  makes at most one ledger move (`OneMovePerStep`), and no move adds an overlap
  (`MoveAddsNoOverlap`), because a card that is given was free or the receiver's.
* `NoDoubleAllocationHolds`: `Spec => []NoDoubleAllocation`, from the former and
  the fact that a restart uses up a crash (`NoOverlapInv`).

`Serving_proofs`, for every set of deployments and cards and any budget, without
terminate requests (`Routes = {}`; `terminate_race` shows why):

* `ReadyOwnsItsGpusHolds`, `ReadyExclusiveHolds`, `LedgerFollowsRecordsHolds`, the
  properties of the same names, and `ImplementsServing`: `Spec => KeepsItsPromise`,
  every step of the agent is `Take`, `Serve`, `GiveBack` or `Restart` of `Serving`,
  or changes nothing it can see.
* The properties are not inductive. `ServeInv` adds that only records that may
  serve hold cards (`OnlyLiveRecordsHold`) and what a handler relies on between
  two calls: who is about to allocate, or has released, holds nothing
  (`FreeStage`); who has allocated holds the cards it is about to save, and no
  ready record names one of them (`HeldStage`); the record of a
  start, a failure or a resume is not ready, and a copy about to be saved carries
  the state it is saved for (`NotReadyStage`, `AcceptedStage`, `CopyStage`). A restart keeps it because the ledger is rebuilt from the very
  records the invariant speaks of.

`Containers_proofs`, for every set of deployments, cards and kinds and any budget
of outages, suspensions, recoveries, failed preparations and cards taken by
others (`Calm`):

* `NoSharedGpuHolds`, `NothingLeftBehindHolds`. `ContInv` adds to `ServeInv` what
  a record at rest says of docker and disk (`Settled`: a ready record has its
  container running on cards it names, a suspended pod has it stopped, everything
  else nothing) and what holds of the one deployment a handler is in the middle of
  (`MidStage`). The clean-up and recovery loops act on a snapshot, so `SnapCurrent`
  says that it is still right for what they have not visited. A teardown releases
  the cards before it stops the container: `StopStage` says that nobody else has
  them in between. `NoSharedGpu` then follows from the exclusive ledger, because a
  container uses only cards the ledger has for its deployment (`InUseIsOwned`), or
  is about to be stopped.

`Restarts_proofs`, for every set of deployments, cards and kinds, with the process
dying between any two calls in all but the last:

* `NeverKillsElsewhereHolds`, with any number of route threads and every fault.
  The clean-up loop decides by a lease list that may be old when it acts.
  `LeaseInv` says why it is right all the same: the control plane never takes a
  lease back and gives one only for a deployment the node knows nothing of
  (`OnlyLeased`), so a deployment the list does not name has ended, or has not come
  to this node (`ListedIsLeased`), until an outage empties the list. What the loop
  goes on to is therefore due (`SheddingIsDue`), and what it reports has ended
  (`ReportStage`); the premise of the property on the outage is needed just there.
* `LeaksAreUnrecordedHolds`, with terminate requests and runs that fail. Docker
  gives out no id twice, so what a record says of an id once, it says for ever
  (`NamesStay`): `RecordNames` says that a failed or terminated record names
  nothing that is still there (`Gone`), a starting one nothing at all
  (`Unstarted`); `CopyNames` says the same of the copy each handler, of the pass or
  of a request, will save. A restart loses the copies and keeps the records.
* `SuspendedKeptHolds`, with outages, lost reports and docker failures. `KillStage`
  says that a teardown of a suspended runtime under way was confirmed by the
  control plane; `OnlyLeased` that it cannot schedule the deployment in hand anew
  in the meantime; `SnapshotStays` that the loop saw the record as it is. With
  recoveries the property is false: after a start that failed and a second one that
  succeeded, with the reports of READY and of SUSPENDED both lost to outages, the
  control plane still has the deployment as failed, and the recovery tears the
  suspended pod down (TLC finds it with budgets of one failed preparation, one
  suspension, one recovery, two outages).
* `PodHasVolumeHolds`. A teardown deletes the volume after its `rm -f`, of the
  container its record names. `VolumeKept` says that this is the container that is
  there, whenever this process made the volume (`volRecords`); after a restart
  nothing is on record, and nothing is deleted. `VolumeStage` has the stages, and
  that a start makes the volume before the container.
* `ReadyIsRunningHolds`, until the process dies (`NoDeath`), with every docker
  failure. `StartsInHand` says that a record `accepted` or `starting` is in the
  hands of its start, so that a suspension begins with a ready record; `UpInv` that
  a pod that can be resumed names a container, since a resume of a record without
  one reports ready without any docker call, which is how a crash breaks it.

`Heartbeat_proofs`, for any finite set of deployments:

* `HbTypesHold`, under every fault: the advertised number lies between zero and
  the node's cards.
* `ExactAtRestHolds`, until the process dies. At rest the active records are the
  ready ones (`StartsInHand`), each names at least one card (`NamesCards`, which is
  where `NeedsCards` is used: a record without cards counts as one) and holds
  exactly those (`ServeInv`). `BooksAgree` counts: taking each pair of `Reserved`
  to its card is a bijection onto the cards of the ledger, because the ledger is
  exclusive. `AvailableIsFree` is the arithmetic of the tick. After a restart it is
  false: a record cut off in its start is counted, and may name a card of another.

`PodHost_proofs`, for any pods, port ranges, requests and budgets:

* `PodHostTypes`, `NoPortTwiceHolds`: `PortInv` says that a mapping under
  construction is injective into the user range and has only requested ports in
  its domain; `OneMore` is the step of the loop.
* `ReadyIsReachableHolds`, `VolumeIsReclaimedHolds`: `LifeInv` relates, for each
  pod, the record in memory, the handler's copy of it, the container and the
  volume, stage by stage: where a clean-up command has failed, the object it was to
  remove may be there, and `swallowed` says so; everywhere else it is gone. It is
  required until the first restart only: after one, a record may say `ready` of a
  container nobody looked at again, and the volume records are gone. So
  `VolumeIsReclaimed` does not say that nothing is left; it says that nothing is left
  for another reason than a command that failed: `umount` and `unlink`, once each, undo
  whatever a start did, also one that came after a failed roll-back.

`ProcessNode_proofs`, for any deployments and budgets, whatever saves fail and
wherever the agent dies:

* `ProcessTypes`, `ProcessesAreKnownHolds`, `ReadyServesHolds`,
  `ErasedWithProcessHolds` and the action property `ReportsAreDurableHolds`, from
  one inductive invariant `ProcInv`. `Saved` is the one fact about every save: the
  record is in memory, and either in the file too or the handler is over.
  `PidInv` says which records can name a process, `StageInv` what the handler
  knows of the record it works on, `KnownInv` that a record in memory or in the
  file that names a living process is ready (so a restart forgets none that it
  does not put into `lost`, where a process whose kill failed is too; one that was
  told to stop is `dying` and nobody's any more), `FilesInv` and `ServesInv` what the files and the
  ready records stand on.

`MultiNode_proofs`, for every set of ranks and all timeouts:

* `BringUpTypes`: `MnSpec => []MnTypeOK`.
* `RanksAreOnTime`: `MnSpec => []OnTime`. As long as the launches lie in the
  window (`Skew + Boot < Wait`), there was no mishap and the head is not given up, a rank
  that waits has more time left than the launch and the boot of any rank still
  away can take. A tick takes as much from one as from the other; a rank that
  begins to wait has the whole window.
* `HeadOutlastsLaunchesHolds`: `MnSpec => HeadOutlastsLaunches`. `HeadHasTime` is the
  same comparison for the timer of the head's agent, which has the whole health
  timeout when the head is launched, against what is still away.
* `NobodyLeavesEarly`: `MnSpec => NoRankGivesUp`. Under `OnTime` neither the
  worker's join loop nor the head's cluster wait can run out, no worker can lose
  its head and no engine a worker (`NoReasonToLeave`).

Only model-checked:

* Liveness, which is outside what the provers do, as is `ENABLED`: `LeaseSettles`,
  `EndedIsReclaimed`, `SuspensionTakesEffect` of the agent, `StartReturns`,
  `ComesUp`, `WorkersStopWithHead` of the bring-up, `ChoosingEnds`,
  `ResumesOnItsPorts` of the pods, `EndedIsStopped` of the processes.

Every invariant and every action property of a passing run is stated by a theorem,
under the assumptions above. The runs go beyond the theorems nowhere but in
liveness. There is no recursion over data in the models.

## 6. Not modelled, and why

* The sets of exceptions the HTTP client raises: its code is not in the
  repository. Exceptions other than those the handlers catch are modelled where
  the repository raises them (`Raise` in `ProcessNode`): they leave the loop, and
  the worker loop begins the pass again.
* `StartProcess` has the branch that serves an old process without asking for its
  health; it is never taken, as `ProcTypeOK` shows (a start has no pid).
* Volume backup and restore and `evict_stale_cache`
  (called by nobody), `exec`, logs, `invoke`, `stream`, telemetry, attestation, docker flags,
  templates, configuration, bootstrap registration: reads, root-only I/O or string
  building without shared state.
* The topology a distributed lease names (`parse_multi_node_params`,
  `validate_params`): pure functions on a payload, `MultiNode` starts from a valid
  one.
* What happens inside Ray, vLLM and docker: external, from how the code uses it.

## 7. Plan

Done, in this order: ledger, agent, properties, proofs of types and exclusivity,
heartbeat, bring-up in time and its proofs, `Serving` and its refinement (checked
and proved), ports and volumes, processes and the repository's file, the proofs
of both, the proofs that relate records to containers and volumes, those of what
survives restarts and docker failures, and those of the heartbeat.

What is left:

1. The refinement with terminate requests: `Serving` would have to allow a
   request to give back what another deployment has just taken.
2. `LifeCycle`, the states a deployment's record may go through, as an abstract
   specification of its own.
3. `Topology`: `validate_params` against a reference definition over bounded
   payloads; the argument rewriting of `build_docker_command` as sequences.
4. CPU-only pods in the heartbeat (the `or 1` of the capacity and of the resume).
