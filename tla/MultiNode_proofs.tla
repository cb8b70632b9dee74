-------------------------- MODULE MultiNode_proofs --------------------------
(***************************************************************************)
(* For every set of ranks and every choice of the timeouts: the types, and  *)
(* that the ranks of a replica launched in its window come together in any  *)
(* order.                                                                   *)
(***************************************************************************)
EXTENDS MultiNodeProps, TLAPS

USE MultiNodeAssumption

(* The head is a rank of its own, never a worker or a single-node runtime.  *)
LEMMA HeadIsARank == Head \in Ranks /\ Head \notin Workers /\ Head \notin Singles
  BY DEF Ranks, Head

(* Counting a timer down leaves it in its range (Less).                     *)
LEMMA LessTypes ==
  ASSUME NEW N \in Nat, NEW f \in [Ranks -> 0 .. N]
  PROVE  Less(f) \in [Ranks -> 0 .. N]
  BY DEF Less

(* A container that moves is the only one that moves (To).                  *)
LEMMA ToTypes ==
  ASSUME ctr \in [Ranks -> Places], NEW r \in Ranks, NEW p \in Places, To(r, p)
  PROVE  /\ ctr' \in [Ranks -> Places]
         /\ ctr'[r] = p
         /\ \A q \in Ranks : q # r => ctr'[q] = ctr[q]
  BY DEF To

(* Init establishes the types.                                              *)
LEMMA InitTypes == MnInit => MnTypeOK
  BY DEF MnInit, MnTypeOK, Places

(* Every step of a script, of an agent and of time keeps the types.         *)
LEMMA StepTypes == MnTypeOK /\ [MnNext]_mnVars => MnTypeOK'
<1> SUFFICES ASSUME MnTypeOK, [MnNext]_mnVars PROVE MnTypeOK'
  OBVIOUS
<1>h. Head \in Ranks /\ Workers \subseteq Ranks
  BY HeadIsARank DEF Ranks
<1> DEFINE Verdicts == {"idle", "waiting", "ready", "failed"}
<1>n. Boot \in Nat /\ Load \in Nat /\ Wait \in Nat /\ Health \in Nat /\ Skew \in Nat /\ Mishaps \in Nat
  OBVIOUS
<1>1. ASSUME NEW r \in Ranks, Launch(r) PROVE MnTypeOK'
  BY <1>1, <1>n DEF Launch, To, MnTypeOK, Places
<1>2. ASSUME NEW r \in Ranks, BootDone(r) PROVE MnTypeOK'
  <2>1. CASE r \in Singles
    BY <1>2, <1>n, <2>1 DEF BootDone, BeginLoad, To, MnTypeOK, Places
  <2>2. CASE r \notin Singles
    <3>1. ctr' \in [Ranks -> Places] /\ window' \in [Ranks -> 0 .. Wait]
      BY <1>2, <1>n, <2>2 DEF BootDone, AfterBoot, To, MnTypeOK, Places
    <3>2. UNCHANGED <<work, agent, left, skew, mishaps>>
      BY <1>2, <2>2 DEF BootDone
    <3>3. QED
      BY <3>1, <3>2 DEF MnTypeOK
  <2>3. QED
    BY <2>1, <2>2
<1>3. ASSUME NEW r \in Ranks, Loaded(r) PROVE MnTypeOK'
  BY <1>3 DEF Loaded, To, MnTypeOK, Places
<1>4. ASSUME NEW w \in Workers, Join(w) \/ GiveUp(w) \/ SessionEnds(w) PROVE MnTypeOK'
  <2>1. w \in Ranks
    BY <1>h
  <2>2. ctr' \in [Ranks -> Places]
    BY <1>4, <2>1 DEF Join, GiveUp, SessionEnds, To, MnTypeOK, Places
  <2>3. QED
    BY <1>4, <2>2 DEF Join, GiveUp, SessionEnds, MnTypeOK
<1>5. ASSUME NEW r \in Ranks, WorkerReady(r) \/ Healthy(r) PROVE MnTypeOK'
  BY <1>5 DEF WorkerReady, Healthy, Verdict, MnTypeOK
<1>6. ASSUME NEW r \in Ranks, SeesExit(r) \/ HealthTimeout(r) \/ WorkerUnseen(r) PROVE MnTypeOK'
  <2>1. PICK n \in {0, 1} : StartFails(r, n)
    BY <1>6 DEF SeesExit, HealthTimeout, WorkerUnseen
  <2>2. ctr' \in [Ranks -> Places]
    BY <2>1 DEF StartFails, To, MnTypeOK, Places
  <2>3. mishaps' \in 0 .. Mishaps
    BY <2>1, <1>n DEF StartFails, MnTypeOK
  <2>4. QED
    BY <2>1, <2>2, <2>3 DEF StartFails, Verdict, MnTypeOK
<1>7. ASSUME ClusterReady PROVE MnTypeOK'
  BY <1>7, <1>h, <1>n DEF ClusterReady, BeginLoad, To, MnTypeOK, Places
<1>8. ASSUME ClusterTimeout \/ EngineDies PROVE MnTypeOK'
  BY <1>8, <1>h DEF ClusterTimeout, EngineDies, To, MnTypeOK, Places
<1>9. ASSUME Tick PROVE MnTypeOK'
  <2>1. Boot + Load \in Nat
    BY <1>n
  <2>2. work' \in [Ranks -> 0 .. (Boot + Load)]
    BY <1>9, <2>1, LessTypes DEF Tick, MnTypeOK
  <2>3. window' \in [Ranks -> 0 .. Wait] /\ left' \in [Ranks -> 0 .. Health]
    BY <1>9, <1>n, LessTypes DEF Tick, MnTypeOK
  <2>4. skew' \in 0 .. Skew
    BY <1>9, <1>n DEF Tick, MnTypeOK
  <2>5. QED
    BY <1>9, <2>2, <2>3, <2>4 DEF Tick, MnTypeOK
<1>10. ASSUME NEW r \in Ranks, Dies(r) PROVE MnTypeOK'
  BY <1>10, <1>n DEF Dies, To, MnTypeOK, Places
<1>11. CASE UNCHANGED mnVars
  BY <1>11 DEF mnVars, MnTypeOK
<1>12. QED
  BY <1>1, <1>2, <1>3, <1>4, <1>5, <1>6, <1>7, <1>8, <1>9, <1>10, <1>11, <1>h DEF MnNext, Progress

(* Bring-up keeps its types whatever the ranks and the timeouts.            *)
THEOREM BringUpTypes == MnSpec => []MnTypeOK
  BY InitTypes, StepTypes, PTL DEF MnSpec

-----------------------------------------------------------------------------
(* The premise of OnTime: launched in the window, nobody died, the head not *)
(* given up. Once false it stays false.                                     *)
Hopeful == InWindow /\ mishaps = Mishaps /\ agent[Head] # "failed"

(* No step restores the hope: mishaps are never handed back, and a verdict   *)
(* is given to a runtime whose start is waiting, never to a failed one.     *)
LEMMA HopeIsNotRestored == MnTypeOK /\ MnNext /\ Hopeful' => Hopeful
<1> SUFFICES ASSUME MnTypeOK, MnNext, Hopeful' PROVE Hopeful
  OBVIOUS
<1>h. Head \in Ranks /\ Workers \subseteq Ranks
  BY HeadIsARank DEF Ranks
<1>t. agent \in [Ranks -> {"idle", "waiting", "ready", "failed"}] /\ mishaps \in 0 .. Mishaps /\ Mishaps \in Nat
  BY DEF MnTypeOK
<1>1. InWindow
  BY DEF Hopeful, InWindow
<1>2. ASSUME agent[Head] = "failed" PROVE agent'[Head] = "failed"
  <2>1. ASSUME NEW r \in Ranks, agent[r] \in {"idle", "waiting"}, NEW v, agent' = [agent EXCEPT ![r] = v]
        PROVE  agent'[Head] = "failed"
    BY <2>1, <1>2, <1>t, <1>h
  <2>2. ASSUME NEW r \in Ranks,
               \/ Launch(r) \/ WorkerReady(r) \/ Healthy(r)
               \/ SeesExit(r) \/ HealthTimeout(r) \/ WorkerUnseen(r)
        PROVE  agent'[Head] = "failed"
    BY <2>1, <2>2 DEF Launch, WorkerReady, Healthy, SeesExit, HealthTimeout, HealthExpired, WorkerUnseen,
         StartFails, Verdict, Waiting
  <2>3. ASSUME NEW r \in Ranks, BootDone(r) \/ Loaded(r) \/ Dies(r) PROVE agent' = agent
    BY <2>3 DEF BootDone, Loaded, Dies
  <2>4. ASSUME NEW w \in Workers, Join(w) \/ GiveUp(w) \/ SessionEnds(w) PROVE agent' = agent
    BY <2>4 DEF Join, GiveUp, SessionEnds
  <2>5. ASSUME ClusterReady \/ ClusterTimeout \/ EngineDies \/ Tick PROVE agent' = agent
    BY <2>5 DEF ClusterReady, ClusterTimeout, EngineDies, Tick
  <2>6. QED
    BY <2>2, <2>3, <2>4, <2>5, <1>2, <1>h DEF MnNext, Progress
<1>3. mishaps' = mishaps \/ mishaps' < mishaps
  <2>1. ASSUME NEW r \in Ranks, Launch(r) \/ BootDone(r) \/ Loaded(r) \/ Healthy(r)
        PROVE  mishaps' = mishaps
    BY <2>1 DEF Launch, BootDone, Loaded, Healthy
  <2>2. ASSUME NEW w \in Workers, Join(w) \/ GiveUp(w) \/ SessionEnds(w) \/ WorkerReady(w)
        PROVE  mishaps' = mishaps
    BY <2>2 DEF Join, GiveUp, SessionEnds, WorkerReady
  <2>3. ASSUME ClusterReady \/ ClusterTimeout \/ EngineDies \/ Tick PROVE mishaps' = mishaps
    BY <2>3 DEF ClusterReady, ClusterTimeout, EngineDies, Tick
  <2>4. ASSUME NEW r \in Ranks, Dies(r) PROVE mishaps' < mishaps
    BY <2>4, <1>t DEF Dies
  <2>5. ASSUME NEW r \in Ranks, SeesExit(r) \/ HealthTimeout(r) \/ WorkerUnseen(r)
        PROVE  mishaps' = mishaps \/ mishaps' < mishaps
    <3>1. PICK n \in {0, 1} : StartFails(r, n)
      BY <2>5 DEF SeesExit, HealthTimeout, WorkerUnseen
    <3>2. QED
      BY <3>1, <1>t DEF StartFails
  <2>6. QED
    BY <2>1, <2>2, <2>3, <2>4, <2>5 DEF MnNext, Progress
<1>4. mishaps = Mishaps
  BY <1>3, <1>t DEF Hopeful
<1>5. QED
  BY <1>1, <1>2, <1>4 DEF Hopeful

Punctual == NobodyGone /\ ScriptsOfRole /\ ClusterHolds /\ TimeEnough

(* While everybody is there, each member of the replica is at a place of    *)
(* its own script.                                                          *)
LEMMA WhereMembersAre ==
  ASSUME MnTypeOK, NobodyGone, ScriptsOfRole
  PROVE  /\ HeadUp \/ ctr[Head] \in {"none", "boot"}
         /\ \A w \in Workers : ctr[w] \in {"none", "boot", "joining", "joined"}
<1>1. Head \in Ranks /\ Workers \subseteq Ranks
  BY HeadIsARank DEF Ranks
<1>2. QED
  BY <1>1 DEF MnTypeOK, NobodyGone, ScriptsOfRole, HeadUp, Places

(* No script has a reason to leave: whatever it waits for comes first.      *)
LEMMA NoReasonToLeave ==
  ASSUME MnTypeOK, Hopeful, Punctual
  PROVE  /\ \A w \in Workers : ~GiveUp(w) /\ ~SessionEnds(w)
         /\ ~ClusterTimeout /\ ~EngineDies
         /\ \A r \in Ranks : ~SeesExit(r)
<1>h. Head \in Ranks /\ Head \in Members /\ Workers \subseteq Ranks /\ Workers \subseteq Members
  BY HeadIsARank DEF Ranks, Members
<1>t. /\ work \in [Ranks -> 0 .. (Boot + Load)] /\ window \in [Ranks -> 0 .. Wait]
      /\ skew \in 0 .. Skew /\ Boot \in Nat /\ Load \in Nat /\ Skew \in Nat /\ Wait \in Nat
  BY DEF MnTypeOK
<1>p. /\ HeadUp \/ ctr[Head] \in {"none", "boot"}
      /\ \A w \in Workers : ctr[w] \in {"none", "boot", "joining", "joined"}
  BY WhereMembersAre DEF Punctual
<1>1. ASSUME NEW w \in Workers, GiveUp(w) PROVE FALSE
  <2>1. ctr[w] = "joining" /\ window[w] = 0 /\ ctr[Head] \in {"none", "boot"}
    BY <1>1, <1>p DEF GiveUp, JoinWindowClosed
  <2>2. CASE ctr[Head] = "none"
    <3>1. window[w] > skew + Boot
      BY <2>1, <2>2, <1>h DEF Punctual, TimeEnough, Settled
    <3>2. QED
      BY <3>1, <2>1, <1>t
  <2>3. CASE ctr[Head] = "boot"
    <3>1. window[w] > work[Head] /\ work[Head] \in 0 .. (Boot + Load)
      BY <2>1, <2>3, <1>h, <1>t DEF Punctual, TimeEnough, Settled
    <3>2. QED
      BY <3>1, <2>1, <1>t
  <2>4. QED
    BY <2>1, <2>2, <2>3
<1>2. ASSUME NEW w \in Workers, SessionEnds(w) PROVE FALSE
  BY <1>2 DEF SessionEnds, Punctual, ClusterHolds
<1>3. ASSUME ClusterTimeout PROVE FALSE
  <2>1. ctr[Head] = "ray" /\ window[Head] = 0
    BY <1>3 DEF ClusterTimeout
  <2>2. PICK w \in Workers : ctr[w] \in {"none", "boot", "joining"}
    BY <1>3, <1>p DEF ClusterTimeout, ClusterComplete
  <2>3. CASE ctr[w] = "none"
    <3>1. window[Head] > skew + Boot
      BY <2>1, <2>3, <1>h DEF Punctual, TimeEnough, Settled
    <3>2. QED
      BY <3>1, <2>1, <1>t
  <2>4. CASE ctr[w] = "boot"
    <3>1. window[Head] > work[w] /\ work[w] \in 0 .. (Boot + Load)
      BY <2>1, <2>4, <1>h, <1>t DEF Punctual, TimeEnough, Settled
    <3>2. QED
      BY <3>1, <2>1, <1>t
  <2>5. CASE ctr[w] = "joining"
    BY <2>1, <2>5 DEF Punctual, TimeEnough
  <2>6. QED
    BY <2>2, <2>3, <2>4, <2>5
<1>4. ASSUME EngineDies PROVE FALSE
  BY <1>4 DEF EngineDies, RankLost, Punctual, ClusterHolds, ClusterComplete
<1>5. ASSUME NEW r \in Ranks, SeesExit(r) PROVE FALSE
  BY <1>5 DEF SeesExit, Punctual, NobodyGone
<1>6. QED
  BY <1>1, <1>2, <1>3, <1>4, <1>5

(* A rank launched inside the window still has its boot before it, and the  *)
(* ranks that wait for it time for that.                                    *)
LEMMA LaunchIsPunctual ==
  ASSUME MnTypeOK, Hopeful, Punctual, NEW r \in Ranks, Launch(r) PROVE Punctual'
<1>h. Head \in Ranks /\ Head \in Members /\ Workers \subseteq Ranks /\ Members \subseteq Ranks
      /\ Workers \subseteq Members /\ Singles \subseteq Ranks
  BY HeadIsARank DEF Ranks, Members
<1>t. /\ ctr \in [Ranks -> Places] /\ agent \in [Ranks -> {"idle", "waiting", "ready", "failed"}]
      /\ work \in [Ranks -> 0 .. (Boot + Load)] /\ window \in [Ranks -> 0 .. Wait]
      /\ skew \in 0 .. Skew /\ Boot \in Nat /\ Load \in Nat /\ Skew \in Nat /\ Wait \in Nat
  BY DEF MnTypeOK
<1>1. /\ ctr[r] = "none" /\ ctr'[r] = "boot" /\ agent'[r] = "waiting" /\ work'[r] = Boot
      /\ \A q \in Ranks : q # r => ctr'[q] = ctr[q] /\ agent'[q] = agent[q] /\ work'[q] = work[q]
      /\ UNCHANGED <<window, skew>>
  BY <1>t DEF Launch, To, Punctual, NobodyGone
<1>2. NobodyGone'
  BY <1>1, <1>h DEF Punctual, NobodyGone
<1>3. ScriptsOfRole'
  BY <1>1, <1>h DEF Punctual, ScriptsOfRole
<1>4. ClusterHolds'
  BY <1>1, <1>h, HeadIsARank DEF Punctual, ClusterHolds, HeadUp, ClusterComplete
<1>5. TimeEnough'
  <2>1. \A p, q \in Members : Settled(p)' /\ ctr'[q] = "none" => window'[p] > skew' + Boot
    BY <1>1, <1>h DEF Punctual, TimeEnough, Settled
  <2>2. ASSUME NEW p \in Members, NEW q \in Members, Settled(p)', ctr'[q] = "boot" PROVE window'[p] > work'[q]
    <3>1. Settled(p)
      BY <2>2, <1>1, <1>h DEF Settled
    <3>2. CASE q = r
      <4>1. window[p] > skew + Boot
        BY <1>1, <3>1, <3>2 DEF Punctual, TimeEnough
      <4>2. QED
        BY <4>1, <1>1, <3>2, <1>t, <1>h
    <3>3. CASE q # r
      BY <3>1, <3>3, <2>2, <1>1, <1>h DEF Punctual, TimeEnough
    <3>4. QED
      BY <3>2, <3>3
  <2>3. \A w \in Workers : ctr'[Head] = "ray" /\ ctr'[w] = "joining" => window'[Head] > 0
    BY <1>1, <1>h DEF Punctual, TimeEnough
  <2>4. \A q \in Members : ctr'[q] = "boot" => work'[q] <= Boot
    BY <1>1, <1>h, <1>t DEF Punctual, TimeEnough
  <2>5. QED
    BY <2>1, <2>2, <2>3, <2>4 DEF TimeEnough, Settled
<1>6. QED
  BY <1>2, <1>3, <1>4, <1>5 DEF Punctual

(* A member that reaches its wait gets the whole window, which is longer    *)
(* than what the others can still take.                                     *)
LEMMA BootDoneIsPunctual ==
  ASSUME MnTypeOK, Hopeful, Punctual, NEW r \in Ranks, BootDone(r) PROVE Punctual'
<1>h. Head \in Ranks /\ Head \in Members /\ Workers \subseteq Ranks /\ Members \subseteq Ranks
      /\ Workers \subseteq Members /\ Singles \subseteq Ranks /\ Members \cap Singles = {}
      /\ Head \notin Workers
  BY HeadIsARank DEF Ranks, Members
<1>t. /\ ctr \in [Ranks -> Places] /\ agent \in [Ranks -> {"idle", "waiting", "ready", "failed"}]
      /\ work \in [Ranks -> 0 .. (Boot + Load)] /\ window \in [Ranks -> 0 .. Wait]
      /\ skew \in 0 .. Skew /\ Boot \in Nat /\ Load \in Nat /\ Skew \in Nat /\ Wait \in Nat
      /\ Skew + Boot < Wait
  BY DEF MnTypeOK, Hopeful, InWindow
<1>b. ctr[r] = "boot" /\ UNCHANGED <<agent, left, skew, mishaps>>
  BY DEF BootDone
<1>c. agent[r] # "idle"
  BY <1>b DEF Punctual, NobodyGone
<1>1. CASE r \in Singles
  <2>1. /\ ctr'[r] = "load" /\ UNCHANGED <<window, skew, agent>>
        /\ \A q \in Ranks : q # r => ctr'[q] = ctr[q] /\ work'[q] = work[q]
    BY <1>1, <1>t, <1>h, HeadIsARank DEF BootDone, BeginLoad, To
  <2>2. \A q \in Members : ctr'[q] = ctr[q] /\ work'[q] = work[q]
    BY <2>1, <1>1, <1>h
  <2>3. NobodyGone'
    BY <2>1, <1>b, <1>c, <1>h DEF Punctual, NobodyGone
  <2>4. ScriptsOfRole'
    BY <2>1, <2>2, <1>h DEF Punctual, ScriptsOfRole
  <2>5. ClusterHolds'
    BY <2>2, <1>h DEF Punctual, ClusterHolds, HeadUp, ClusterComplete
  <2>6. TimeEnough'
    BY <2>1, <2>2, <1>h DEF Punctual, TimeEnough, Settled
  <2>7. QED
    BY <2>3, <2>4, <2>5, <2>6 DEF Punctual
<1>2. CASE r \notin Singles
  <2>m. r \in Members
    BY <1>2 DEF Ranks, Members
  <2>1. /\ ctr'[r] = IF r = Head THEN "ray" ELSE "joining"
        /\ \A q \in Ranks : q # r => ctr'[q] = ctr[q] /\ window'[q] = window[q]
        /\ window'[r] = Wait /\ UNCHANGED <<work, skew, agent>>
    BY <1>2, <1>t DEF BootDone, AfterBoot, To
  <2>3. NobodyGone'
    BY <2>1, <1>c, <1>h DEF Punctual, NobodyGone
  <2>4. ScriptsOfRole'
    BY <2>1, <2>m, <1>h, HeadIsARank DEF Punctual, ScriptsOfRole, Members
  <2>5. ClusterHolds'
    <3>1. ASSUME NEW w \in Workers, ctr'[w] = "joined" PROVE HeadUp'
      <4>1. ctr[w] = "joined" /\ HeadUp
        BY <3>1, <2>1, <1>h DEF Punctual, ClusterHolds
      <4>2. ctr[Head] # "boot"
        BY <4>1 DEF HeadUp
      <4>3. QED
        BY <4>1, <4>2, <2>1, <1>b, <1>h DEF HeadUp
    <3>2. ASSUME ctr'[Head] \in {"load", "serve"} PROVE ClusterComplete'
      <4>1. ctr[Head] \in {"load", "serve"} /\ ClusterComplete
        BY <3>2, <2>1, <1>h DEF Punctual, ClusterHolds
      <4>2. QED
        BY <4>1, <2>1, <1>b, <1>h DEF ClusterComplete
    <3>3. QED
      BY <3>1, <3>2 DEF ClusterHolds
  <2>6. TimeEnough'
    <3>1. ASSUME NEW p \in Members, NEW q \in Members, Settled(p)', ctr'[q] = "none"
          PROVE  window'[p] > skew' + Boot
      <4>1. q # r /\ ctr[q] = "none"
        BY <3>1, <2>1, <1>h
      <4>2. CASE p = r
        BY <4>2, <2>1, <1>t
      <4>3. CASE p # r
        BY <4>1, <4>3, <3>1, <2>1, <1>h DEF Punctual, TimeEnough, Settled
      <4>4. QED
        BY <4>2, <4>3
    <3>2. ASSUME NEW p \in Members, NEW q \in Members, Settled(p)', ctr'[q] = "boot"
          PROVE  window'[p] > work'[q]
      <4>1. q # r /\ ctr[q] = "boot"
        BY <3>2, <2>1, <1>h
      <4>2. CASE p = r
        <5>1. work[q] <= Boot /\ work[q] \in 0 .. (Boot + Load)
          BY <4>1, <1>h, <1>t DEF Punctual, TimeEnough
        <5>2. QED
          BY <5>1, <4>2, <2>1, <1>t
      <4>3. CASE p # r
        BY <4>1, <4>3, <3>2, <2>1, <1>h DEF Punctual, TimeEnough, Settled
      <4>4. QED
        BY <4>2, <4>3
    <3>3. ASSUME NEW w \in Workers, ctr'[Head] = "ray", ctr'[w] = "joining" PROVE window'[Head] > 0
      <4>1. CASE r = Head
        BY <4>1, <2>1, <1>t
      <4>2. CASE r # Head
        <5>1. ctr[Head] = "ray" /\ window'[Head] = window[Head]
          BY <3>3, <4>2, <2>1, <1>h
        <5>2. CASE w = r
          <6>1. window[Head] > work[r] /\ work[r] \in 0 .. (Boot + Load) /\ window[Head] \in 0 .. Wait
            BY <5>1, <1>b, <2>m, <1>h, <1>t DEF Punctual, TimeEnough, Settled
          <6>2. QED
            BY <6>1, <5>1, <1>t
        <5>3. CASE w # r
          BY <5>1, <5>3, <3>3, <2>1, <1>h DEF Punctual, TimeEnough
        <5>4. QED
          BY <5>2, <5>3
      <4>3. QED
        BY <4>1, <4>2
    <3>4. \A q \in Members : ctr'[q] = "boot" => work'[q] <= Boot
      BY <2>1, <1>h DEF Punctual, TimeEnough
    <3>5. QED
      BY <3>1, <3>2, <3>3, <3>4 DEF TimeEnough, Settled
  <2>7. QED
    BY <2>3, <2>4, <2>5, <2>6 DEF Punctual
<1>3. QED
  BY <1>1, <1>2

(* The other steps of the scripts: a join, a complete cluster, a load that  *)
(* ends. Each waits for nobody that is still away.                          *)
LEMMA ScriptsArePunctual ==
  ASSUME MnTypeOK, Hopeful, Punctual,
         \/ \E w \in Workers : Join(w)
         \/ ClusterReady
         \/ \E r \in Ranks : Loaded(r)
  PROVE  Punctual'
<1>h. Head \in Ranks /\ Head \in Members /\ Workers \subseteq Ranks /\ Members \subseteq Ranks
      /\ Workers \subseteq Members /\ Singles \subseteq Ranks /\ Members \cap Singles = {}
      /\ Head \notin Workers
  BY HeadIsARank DEF Ranks, Members
<1>t. /\ ctr \in [Ranks -> Places] /\ work \in [Ranks -> 0 .. (Boot + Load)]
      /\ window \in [Ranks -> 0 .. Wait] /\ skew \in 0 .. Skew
  BY DEF MnTypeOK
<1>p. \A r \in Ranks : ctr[r] \notin {"none", "exited"} => agent[r] # "idle"
  BY DEF Punctual, NobodyGone
<1>1. ASSUME NEW w \in Workers, Join(w) PROVE Punctual'
  <2>1. /\ ctr[w] = "joining" /\ ctr'[w] = "joined" /\ HeadUp
        /\ \A q \in Ranks : q # w => ctr'[q] = ctr[q]
        /\ UNCHANGED <<agent, work, window, skew>>
    BY <1>1, <1>h, <1>t DEF Join, To
  <2>2. ctr'[Head] = ctr[Head] /\ w \in Ranks /\ w \notin Singles
    BY <2>1, <1>h
  <2>3. NobodyGone'
    BY <2>1, <2>2, <1>p, <1>h DEF Punctual, NobodyGone
  <2>4. ScriptsOfRole'
    BY <2>1, <2>2, <1>h DEF Punctual, ScriptsOfRole
  <2>5. ClusterHolds'
    BY <2>1, <2>2, <1>h DEF Punctual, ClusterHolds, HeadUp, ClusterComplete
  <2>6. TimeEnough'
    BY <2>1, <2>2, <1>h DEF Punctual, TimeEnough, Settled
  <2>7. QED
    BY <2>3, <2>4, <2>5, <2>6 DEF Punctual
<1>2. ASSUME ClusterReady PROVE Punctual'
  <2>1. /\ ctr[Head] = "ray" /\ ctr'[Head] = "load" /\ ClusterComplete
        /\ \A q \in Ranks : q # Head => ctr'[q] = ctr[q] /\ work'[q] = work[q]
        /\ UNCHANGED <<agent, window, skew>>
    BY <1>2, <1>h, <1>t DEF ClusterReady, BeginLoad, To
  <2>2. NobodyGone'
    BY <2>1, <1>p, <1>h DEF Punctual, NobodyGone
  <2>3. ScriptsOfRole'
    BY <2>1, <1>h DEF Punctual, ScriptsOfRole
  <2>4. ClusterHolds'
    BY <2>1, <1>h DEF Punctual, ClusterHolds, HeadUp, ClusterComplete
  <2>5. TimeEnough'
    BY <2>1, <1>h DEF Punctual, TimeEnough, Settled
  <2>6. QED
    BY <2>2, <2>3, <2>4, <2>5 DEF Punctual
<1>3. ASSUME NEW r \in Ranks, Loaded(r) PROVE Punctual'
  <2>1. /\ ctr[r] = "load" /\ ctr'[r] = "serve"
        /\ \A q \in Ranks : q # r => ctr'[q] = ctr[q]
        /\ UNCHANGED <<agent, work, window, skew>>
    BY <1>3, <1>t DEF Loaded, To
  <2>2. r \notin Workers
    BY <2>1 DEF Punctual, ScriptsOfRole
  <2>3. NobodyGone'
    BY <2>1, <1>p, <1>h DEF Punctual, NobodyGone
  <2>4. ScriptsOfRole'
    BY <2>1, <2>2, <1>h DEF Punctual, ScriptsOfRole
  <2>5. ClusterHolds'
    BY <2>1, <2>2, <1>h DEF Punctual, ClusterHolds, HeadUp, ClusterComplete
  <2>6. TimeEnough'
    BY <2>1, <2>2, <1>h DEF Punctual, TimeEnough, Settled
  <2>7. QED
    BY <2>3, <2>4, <2>5, <2>6 DEF Punctual
<1>4. QED
  BY <1>1, <1>2, <1>3

(* The verdicts: none of them touches a member while the head is not given  *)
(* up. A health timeout then is one of a single-node runtime.               *)
LEMMA VerdictsArePunctual ==
  ASSUME MnTypeOK, Hopeful, Punctual, agent'[Head] # "failed", NEW r \in Ranks,
         mishaps' = Mishaps, WorkerReady(r) \/ Healthy(r) \/ HealthTimeout(r)
  PROVE  Punctual'
<1>h. Head \in Ranks /\ Head \in Members /\ Workers \subseteq Ranks /\ Members \subseteq Ranks
      /\ Workers \subseteq Members /\ Singles \subseteq Ranks /\ Members \cap Singles = {}
  BY HeadIsARank DEF Ranks, Members
<1>t. /\ ctr \in [Ranks -> Places] /\ agent \in [Ranks -> {"idle", "waiting", "ready", "failed"}]
  BY DEF MnTypeOK
<1>1. UNCHANGED <<work, window, skew>>
  BY DEF WorkerReady, Healthy, HealthTimeout, StartFails
<1>2. CASE WorkerReady(r) \/ Healthy(r)
  <2>1. UNCHANGED ctr /\ agent'[r] = "ready" /\ agent[r] = "waiting"
        /\ \A q \in Ranks : q # r => agent'[q] = agent[q]
    BY <1>2, <1>t DEF WorkerReady, Healthy, Verdict, Waiting
  <2>2. NobodyGone'
    BY <2>1, <1>h DEF Punctual, NobodyGone
  <2>3. QED
    BY <2>1, <2>2, <1>1 DEF Punctual, ScriptsOfRole, ClusterHolds, HeadUp, ClusterComplete, TimeEnough, Settled
<1>3. CASE HealthTimeout(r)
  <2>0. To(r, "none")
    BY <1>3 DEF HealthTimeout, StartFails, Hopeful
  <2>1. /\ r \notin Workers /\ agent'[r] = "failed" /\ ctr'[r] = "none"
        /\ \A q \in Ranks : q # r => agent'[q] = agent[q] /\ ctr'[q] = ctr[q]
    BY <1>3, <1>t, <2>0 DEF HealthTimeout, HealthExpired, StartFails, Verdict, To
  <2>2. r # Head /\ r \notin Members
    BY <2>1, <1>h DEF Members
  <2>3. \A q \in Members : ctr'[q] = ctr[q] /\ agent'[q] = agent[q]
    BY <2>1, <2>2, <1>h
  <2>4. NobodyGone'
    BY <2>1, <2>3, <1>h DEF Punctual, NobodyGone
  <2>5. ScriptsOfRole'
    BY <2>1, <2>3, <1>h DEF Punctual, ScriptsOfRole
  <2>6. ClusterHolds'
    BY <2>3, <1>h DEF Punctual, ClusterHolds, HeadUp, ClusterComplete
  <2>7. TimeEnough'
    BY <2>3, <1>1, <1>h DEF Punctual, TimeEnough, Settled
  <2>8. QED
    BY <2>4, <2>5, <2>6, <2>7 DEF Punctual
<1>4. QED
  BY <1>2, <1>3

(* A tick takes as much from a window as from what the window waits for:    *)
(* the launches left run down with it, and no boot is due.                  *)
LEMMA TickIsPunctual ==
  ASSUME MnTypeOK, Hopeful, Punctual, Tick PROVE Punctual'
<1>h. Head \in Ranks /\ Head \in Members /\ Workers \subseteq Ranks /\ Members \subseteq Ranks
      /\ Workers \subseteq Members
  BY HeadIsARank DEF Ranks, Members
<1>t. /\ work \in [Ranks -> 0 .. (Boot + Load)] /\ window \in [Ranks -> 0 .. Wait]
      /\ skew \in 0 .. Skew /\ Boot \in Nat /\ Load \in Nat /\ Skew \in Nat /\ Wait \in Nat
  BY DEF MnTypeOK
<1>1. UNCHANGED <<ctr, agent>>
  BY DEF Tick
<1>2. NobodyGone' /\ ScriptsOfRole' /\ ClusterHolds'
  BY <1>1 DEF Punctual, NobodyGone, ScriptsOfRole, ClusterHolds, HeadUp, ClusterComplete
<1>3. \A q \in Ranks : /\ work'[q] = IF work[q] > 0 THEN work[q] - 1 ELSE 0
                       /\ window'[q] = IF window[q] > 0 THEN window[q] - 1 ELSE 0
  BY DEF Tick, Less
<1>4. ASSUME NEW r \in Members, NEW q \in Members, Settled(r)', ctr'[q] = "none"
      PROVE  window'[r] > skew' + Boot
  <2>1. Settled(r) /\ ctr[q] = "none"
    BY <1>4, <1>1 DEF Settled
  <2>2. window[r] > skew + Boot
    BY <2>1 DEF Punctual, TimeEnough
  <2>3. agent[q] = "idle" /\ agent[r] # "idle" /\ q \in Ranks /\ r \in Ranks
    BY <2>1, <1>h DEF Punctual, NobodyGone, Settled
  <2>4. skew # 0
    BY <2>3 DEF Tick, LaunchDue
  <2>5. skew' = skew - 1
    BY <2>3, <2>4, <1>t DEF Tick
  <2>6. window'[r] = window[r] - 1
    BY <2>2, <2>3, <1>3, <1>t
  <2>7. window[r] \in 0 .. Wait
    BY <2>3, <1>t
  <2>8. QED
    BY <2>2, <2>5, <2>6, <2>7, <1>t
<1>5. ASSUME NEW r \in Members, NEW q \in Members, Settled(r)', ctr'[q] = "boot"
      PROVE  window'[r] > work'[q]
  <2>1. Settled(r) /\ ctr[q] = "boot" /\ q \in Ranks /\ r \in Ranks
    BY <1>5, <1>1, <1>h DEF Settled
  <2>2. window[r] > work[q]
    BY <2>1 DEF Punctual, TimeEnough
  <2>3. work[q] # 0
    BY <2>1 DEF Tick, ScriptDue
  <2>4. window[r] \in 0 .. Wait /\ work[q] \in 0 .. (Boot + Load)
    BY <2>1, <1>t
  <2>5. QED
    BY <2>1, <2>2, <2>3, <2>4, <1>3, <1>t
<1>6. \A w \in Workers : ~(ctr[Head] = "ray" /\ ctr[w] = "joining")
  BY DEF Tick, ScriptDue, HeadUp
<1>7. ASSUME NEW q \in Members, ctr'[q] = "boot" PROVE work'[q] <= Boot
  <2>1. work[q] <= Boot /\ work[q] \in 0 .. (Boot + Load) /\ q \in Ranks
    BY <1>7, <1>1, <1>h, <1>t DEF Punctual, TimeEnough
  <2>2. QED
    BY <2>1, <1>3, <1>t
<1>8. TimeEnough'
  BY <1>1, <1>4, <1>5, <1>6, <1>7 DEF TimeEnough, Settled
<1>9. QED
  BY <1>2, <1>8 DEF Punctual

(* OnTime is inductive relative to the types.                               *)
LEMMA OnTimeInductive == MnTypeOK /\ OnTime /\ [MnNext]_mnVars => OnTime'
<1> SUFFICES ASSUME MnTypeOK, OnTime, [MnNext]_mnVars, Hopeful' PROVE Punctual'
  BY DEF OnTime, Hopeful, Punctual
<1>1. CASE UNCHANGED mnVars
  <2>1. UNCHANGED <<ctr, agent, work, window, left, skew, mishaps>>
    BY <1>1 DEF mnVars
  <2>2. Punctual
    BY <2>1 DEF OnTime, Hopeful, Punctual
  <2>3. QED
    BY <2>1, <2>2 DEF Punctual, NobodyGone, ScriptsOfRole, ClusterHolds, HeadUp, ClusterComplete, TimeEnough, Settled
<1>2. CASE MnNext
  <2>1. Hopeful
    BY <1>2, HopeIsNotRestored
  <2>2. Punctual
    BY <2>1 DEF OnTime, Hopeful, Punctual
  <2>3. agent'[Head] # "failed" /\ mishaps' = Mishaps
    BY DEF Hopeful
  <2>4. ASSUME NEW r \in Ranks PROVE ~Dies(r) /\ ~WorkerUnseen(r)
    BY <2>1, <2>3 DEF Dies, WorkerUnseen, StartFails, Hopeful, MnTypeOK
  <2>5. QED
    BY <1>2, <2>1, <2>2, <2>3, <2>4, NoReasonToLeave, LaunchIsPunctual, BootDoneIsPunctual,
       ScriptsArePunctual, VerdictsArePunctual, TickIsPunctual, HeadIsARank DEF MnNext, Progress, Ranks
<1>3. QED
  BY <1>1, <1>2

(* Before the first launch nothing is settled and nobody has left.          *)
LEMMA InitOnTime == MnInit => OnTime
<1> SUFFICES ASSUME MnInit PROVE Punctual
  BY DEF OnTime, Punctual
<1>1. Head \in Ranks /\ Workers \subseteq Ranks /\ Singles \subseteq Ranks /\ Members \subseteq Ranks
  BY HeadIsARank DEF Ranks, Members
<1>2. QED
  BY <1>1 DEF MnInit, Punctual, NobodyGone, ScriptsOfRole, ClusterHolds, HeadUp, ClusterComplete, TimeEnough, Settled

(* A rank that waits for the others has more time left than the last of     *)
(* them can take, whatever the timeouts, as long as the launches lie in the *)
(* window.                                                                  *)
THEOREM RanksAreOnTime == MnSpec => []OnTime
  BY InitOnTime, OnTimeInductive, BringUpTypes, PTL DEF MnSpec

(* A replica launched within its cluster wait comes together in any order:  *)
(* no rank gives up on another (build_worker_entrypoint, the head's wait).  *)
THEOREM NobodyLeavesEarly == MnSpec => NoRankGivesUp
<1> DEFINE Leaves == \A r \in Ranks :
        InWindow /\ mishaps' = Mishaps /\ ctr'[r] = "exited" /\ ctr[r] # "exited"
        => agent[Head] = "failed"
<1>1. MnTypeOK /\ OnTime /\ [MnNext]_mnVars => [Leaves]_mnVars
  <2>1. ASSUME MnTypeOK, OnTime, MnNext, NEW r \in Ranks,
               InWindow, mishaps' = Mishaps, ctr'[r] = "exited", ctr[r] # "exited", agent[Head] # "failed"
        PROVE  FALSE
    <3>t. /\ ctr \in [Ranks -> Places] /\ mishaps \in 0 .. Mishaps /\ Mishaps \in Nat
          /\ Head \in Ranks /\ Workers \subseteq Ranks
      BY <2>1, HeadIsARank DEF MnTypeOK, Ranks
    <3>1. ASSUME NEW q \in Ranks, NEW p \in Places, p # "exited", To(q, p) PROVE FALSE
      BY <3>1, <2>1, <3>t DEF To
    <3>2. ASSUME NEW q \in Ranks, Launch(q) \/ BootDone(q) \/ Loaded(q) PROVE FALSE
      BY <3>2, <3>1 DEF Launch, BootDone, AfterBoot, BeginLoad, Loaded, Places
    <3>3. ASSUME NEW q \in Ranks, Healthy(q) \/ HealthTimeout(q) \/ SeesExit(q) \/ WorkerUnseen(q)
          PROVE  FALSE
      BY <3>3, <3>1, <2>1 DEF Healthy, HealthTimeout, SeesExit, WorkerUnseen, StartFails, Places
    <3>4. ASSUME NEW w \in Workers, Join(w) \/ WorkerReady(w) PROVE FALSE
      BY <3>4, <3>1, <2>1, <3>t DEF Join, WorkerReady, Places
    <3>5. ASSUME ClusterReady \/ Tick PROVE FALSE
      BY <3>5, <3>1, <2>1, <3>t DEF ClusterReady, BeginLoad, Tick, Places
    <3>6. ASSUME NEW q \in Ranks, Dies(q) PROVE FALSE
      BY <3>6, <2>1, <3>t DEF Dies
    <3>7. (\E w \in Workers : GiveUp(w) \/ SessionEnds(w)) \/ ClusterTimeout \/ EngineDies
      BY <2>1, <3>2, <3>3, <3>4, <3>5, <3>6 DEF MnNext, Progress
    <3>8. mishaps = Mishaps
      BY <3>7, <2>1 DEF GiveUp, SessionEnds, ClusterTimeout, EngineDies
    <3>9. Hopeful /\ Punctual
      BY <3>8, <2>1 DEF OnTime, Hopeful, Punctual
    <3>10. QED
      BY <3>7, <3>9, <2>1, NoReasonToLeave
  <2>2. QED
    BY <2>1
<1>2. QED
  BY <1>1, RanksAreOnTime, BringUpTypes, PTL DEF MnSpec, NoRankGivesUp

-----------------------------------------------------------------------------
(* What keeps the head from its health timeout while a rank is on its way:  *)
(* the invariant behind HeadOutlastsLaunches, TimeEnough for the timer of   *)
(* the head's agent.                                                        *)
LeftEnough ==
  agent[Head] = "waiting" =>
    /\ \A q \in Members : ctr[q] = "none" => left[Head] > skew + Boot
    /\ \A q \in Members : ctr[q] = "boot" => left[Head] > work[q]
    /\ \A w \in Workers : HeadUp /\ ctr[w] = "joining" => left[Head] > 0
HeadHasTime == Skew + Boot < Health /\ Hopeful => LeftEnough

(* A launch gives the head its whole health timeout, and a rank launched    *)
(* later has its boot before it.                                            *)
LEMMA LaunchLeavesEnough ==
  ASSUME MnTypeOK, Hopeful, Punctual, Skew + Boot < Health, LeftEnough,
         NEW r \in Ranks, Launch(r)
  PROVE  LeftEnough'
<1>h. Head \in Ranks /\ Workers \subseteq Ranks /\ Members \subseteq Ranks /\ Head \notin Workers
  BY HeadIsARank DEF Ranks, Members
<1>t. /\ ctr \in [Ranks -> Places] /\ agent \in [Ranks -> {"idle", "waiting", "ready", "failed"}]
      /\ work \in [Ranks -> 0 .. (Boot + Load)] /\ left \in [Ranks -> 0 .. Health]
      /\ skew \in 0 .. Skew /\ Boot \in Nat /\ Load \in Nat /\ Skew \in Nat /\ Health \in Nat
  BY DEF MnTypeOK
<1>1. /\ ctr[r] = "none" /\ ctr'[r] = "boot" /\ work'[r] = Boot /\ left'[r] = Health
      /\ \A q \in Ranks : q # r => /\ ctr'[q] = ctr[q] /\ work'[q] = work[q]
                                   /\ agent'[q] = agent[q] /\ left'[q] = left[q]
      /\ UNCHANGED skew
  BY <1>t DEF Launch, To, Punctual, NobodyGone
<1>2. \A q \in Members : ctr[q] = "boot" => work[q] <= Boot
  BY DEF Punctual, TimeEnough
<1>3. CASE r = Head
  <2>1. left'[Head] = Health
    BY <1>1, <1>3
  <2>2. \A q \in Members : ctr'[q] = "none" => left'[Head] > skew' + Boot
    BY <2>1, <1>1, <1>t
  <2>3. ASSUME NEW q \in Members, ctr'[q] = "boot" PROVE left'[Head] > work'[q]
    <3>1. work'[q] <= Boot
      BY <2>3, <1>1, <1>2, <1>h, <1>t
    <3>2. work'[q] \in Int
      BY <1>1, <1>h, <1>t
    <3>3. QED
      BY <2>1, <3>1, <3>2, <1>t
  <2>4. ~HeadUp'
    BY <1>1, <1>3 DEF HeadUp
  <2>5. QED
    BY <2>2, <2>3, <2>4 DEF LeftEnough, HeadUp
<1>4. CASE r # Head
  <2>1. ctr'[Head] = ctr[Head] /\ agent'[Head] = agent[Head] /\ left'[Head] = left[Head]
    BY <1>1, <1>4, <1>h
  <2>2. SUFFICES ASSUME agent[Head] = "waiting" PROVE LeftEnough'
    BY <2>1 DEF LeftEnough
  <2>3. \A q \in Members : ctr'[q] = "none" => left'[Head] > skew' + Boot
    BY <2>1, <2>2, <1>1, <1>h DEF LeftEnough
  <2>4. ASSUME NEW q \in Members, ctr'[q] = "boot" PROVE left'[Head] > work'[q]
    <3>1. CASE q = r
      <4>1. left[Head] > skew + Boot
        BY <3>1, <2>2, <1>1 DEF LeftEnough
      <4>2. QED
        BY <4>1, <3>1, <2>1, <1>1, <1>h, <1>t
    <3>2. CASE q # r
      BY <3>2, <2>4, <2>1, <2>2, <1>1, <1>h DEF LeftEnough
    <3>3. QED
      BY <3>1, <3>2
  <2>5. \A w \in Workers : HeadUp' /\ ctr'[w] = "joining" => left'[Head] > 0
    BY <2>1, <2>2, <1>1, <1>h DEF LeftEnough, HeadUp
  <2>6. QED
    BY <2>3, <2>4, <2>5 DEF LeftEnough, HeadUp
<1>5. QED
  BY <1>3, <1>4

(* A boot that ends had less before it than the head's agent has left, and  *)
(* the other steps of the scripts only bring ranks together.                *)
LEMMA ScriptsLeaveEnough ==
  ASSUME MnTypeOK, Hopeful, Punctual, LeftEnough,
         \/ \E r \in Ranks : BootDone(r) \/ Loaded(r)
         \/ \E w \in Workers : Join(w)
         \/ ClusterReady
  PROVE  LeftEnough'
<1>h. Head \in Ranks /\ Head \in Members /\ Workers \subseteq Ranks /\ Members \subseteq Ranks
      /\ Workers \subseteq Members /\ Head \notin Workers /\ Members \cap Singles = {}
  BY HeadIsARank DEF Ranks, Members
<1>t. /\ ctr \in [Ranks -> Places] /\ work \in [Ranks -> 0 .. (Boot + Load)]
      /\ left \in [Ranks -> 0 .. Health] /\ Boot \in Nat /\ Load \in Nat
  BY DEF MnTypeOK
<1>u. UNCHANGED <<agent, left, skew>>
  BY DEF BootDone, Loaded, Join, ClusterReady
<1>s. SUFFICES ASSUME agent[Head] = "waiting" PROVE LeftEnough'
  BY <1>u DEF LeftEnough
<1>e. /\ \A q \in Members : ctr[q] = "none" => left[Head] > skew + Boot
      /\ \A q \in Members : ctr[q] = "boot" => left[Head] > work[q]
      /\ \A w \in Workers : HeadUp /\ ctr[w] = "joining" => left[Head] > 0
  BY <1>s DEF LeftEnough
<1>r. \A q \in Members : ctr[q] = "boot" => left[Head] > 0
  BY <1>e, <1>h, <1>t
<1>1. ASSUME NEW r \in Ranks, BootDone(r) PROVE LeftEnough'
  <2>1. ctr[r] = "boot" /\ ctr'[r] \in {"load", "ray", "joining"}
    BY <1>1, <1>t DEF BootDone, BeginLoad, AfterBoot, To
  <2>2. /\ \A q \in Ranks : q # r => ctr'[q] = ctr[q] /\ work'[q] = work[q]
    BY <1>1, <1>t DEF BootDone, BeginLoad, To
  <2>3. ASSUME NEW q \in Members, ctr'[q] \in {"none", "boot"} PROVE ctr[q] = ctr'[q] /\ work'[q] = work[q]
    BY <2>1, <2>2, <2>3, <1>h
  <2>4. ASSUME NEW w \in Workers, HeadUp', ctr'[w] = "joining" PROVE left[Head] > 0
    <3>1. CASE r \in {w, Head}
      BY <3>1, <2>1, <1>r, <1>h
    <3>2. CASE r \notin {w, Head}
      BY <3>2, <2>2, <2>4, <1>e, <1>h DEF HeadUp
    <3>3. QED
      BY <3>1, <3>2
  <2>5. QED
    BY <1>u, <1>e, <2>3, <2>4 DEF LeftEnough, HeadUp
<1>2. ASSUME NEW r \in Ranks, Loaded(r) PROVE LeftEnough'
  <2>1. /\ ctr[r] = "load" /\ ctr'[r] = "serve" /\ UNCHANGED work
        /\ \A q \in Ranks : q # r => ctr'[q] = ctr[q]
    BY <1>2, <1>t DEF Loaded, To
  <2>2. QED
    BY <2>1, <1>u, <1>e, <1>h DEF LeftEnough, HeadUp
<1>3. ASSUME NEW w \in Workers, Join(w) PROVE LeftEnough'
  <2>1. /\ ctr'[w] = "joined" /\ UNCHANGED work
        /\ \A q \in Ranks : q # w => ctr'[q] = ctr[q]
    BY <1>3, <1>h, <1>t DEF Join, To
  <2>2. QED
    BY <2>1, <1>u, <1>e, <1>h DEF LeftEnough, HeadUp
<1>4. ASSUME ClusterReady PROVE LeftEnough'
  <2>1. /\ ctr[Head] = "ray" /\ ctr'[Head] = "load"
        /\ \A q \in Ranks : q # Head => ctr'[q] = ctr[q] /\ work'[q] = work[q]
    BY <1>4, <1>h, <1>t DEF ClusterReady, BeginLoad, To
  <2>2. QED
    BY <2>1, <1>u, <1>e, <1>h DEF LeftEnough, HeadUp
<1>5. QED
  BY <1>1, <1>2, <1>3, <1>4

(* A tick takes as much from the head's agent as from what it waits for.    *)
LEMMA TickLeavesEnough ==
  ASSUME MnTypeOK, Hopeful, Punctual, LeftEnough, Tick PROVE LeftEnough'
<1>h. Head \in Ranks /\ Members \subseteq Ranks /\ Workers \subseteq Ranks
  BY HeadIsARank DEF Ranks, Members
<1>t. /\ work \in [Ranks -> 0 .. (Boot + Load)] /\ left \in [Ranks -> 0 .. Health]
      /\ skew \in 0 .. Skew /\ Boot \in Nat /\ Load \in Nat /\ Skew \in Nat
  BY DEF MnTypeOK
<1>u. UNCHANGED <<ctr, agent>>
  BY DEF Tick
<1>s. SUFFICES ASSUME agent[Head] = "waiting" PROVE LeftEnough'
  BY <1>u DEF LeftEnough
<1>3. \A q \in Ranks : /\ work'[q] = IF work[q] > 0 THEN work[q] - 1 ELSE 0
                       /\ left'[q] = IF left[q] > 0 THEN left[q] - 1 ELSE 0
  BY DEF Tick, Less
<1>4. ASSUME NEW q \in Members, ctr[q] = "none" PROVE left'[Head] > skew' + Boot
  <2>1. left[Head] > skew + Boot
    BY <1>4, <1>s DEF LeftEnough
  <2>2. agent[q] = "idle" /\ q \in Ranks
    BY <1>4, <1>h DEF Punctual, NobodyGone
  <2>3. skew # 0
    BY <2>2 DEF Tick, LaunchDue
  <2>4. skew' = skew - 1
    BY <2>3, <1>s, <1>h, <1>t DEF Tick
  <2>5. QED
    BY <2>1, <2>4, <1>3, <1>h, <1>t
<1>5. ASSUME NEW q \in Members, ctr[q] = "boot" PROVE left'[Head] > work'[q]
  <2>1. left[Head] > work[q] /\ q \in Ranks
    BY <1>5, <1>s, <1>h DEF LeftEnough
  <2>2. work[q] # 0
    BY <1>5, <2>1 DEF Tick, ScriptDue
  <2>3. left[Head] \in Int /\ work[q] \in Nat
    BY <2>1, <1>h, <1>t
  <2>4. QED
    BY <2>1, <2>2, <2>3, <1>3, <1>h
<1>6. \A w \in Workers : ~(HeadUp /\ ctr[w] = "joining")
  BY DEF Tick, ScriptDue
<1>7. QED
  BY <1>4, <1>5, <1>6, <1>u DEF LeftEnough, HeadUp

(* A verdict other than on the head changes neither its wait nor a member;  *)
(* one on the head ends the wait.                                           *)
LEMMA VerdictsLeaveEnough ==
  ASSUME MnTypeOK, Hopeful, Hopeful', LeftEnough, NEW r \in Ranks,
         WorkerReady(r) \/ Healthy(r) \/ HealthTimeout(r)
  PROVE  LeftEnough'
<1>h. Head \in Ranks /\ Members \subseteq Ranks /\ Workers \subseteq Ranks
  BY HeadIsARank DEF Ranks, Members
<1>t. /\ ctr \in [Ranks -> Places] /\ agent \in [Ranks -> {"idle", "waiting", "ready", "failed"}]
  BY DEF MnTypeOK
<1>u. UNCHANGED <<work, left, skew>>
  BY DEF WorkerReady, Healthy, HealthTimeout, StartFails
<1>1. CASE r = Head
  <2>1. agent'[Head] # "waiting"
    BY <1>1, <1>h, <1>t DEF WorkerReady, Healthy, HealthTimeout, StartFails, Verdict
  <2>2. QED
    BY <2>1 DEF LeftEnough
<1>2. CASE r # Head
  <2>1. agent'[Head] = agent[Head]
    BY <1>2, <1>h, <1>t DEF WorkerReady, Healthy, HealthTimeout, StartFails, Verdict
  <2>2. \A q \in Members : ctr'[q] = ctr[q]
    <3>1. CASE WorkerReady(r) \/ Healthy(r)
      BY <3>1 DEF WorkerReady, Healthy
    <3>2. CASE HealthTimeout(r)
      <4>1. r \notin Members
        BY <3>2, <1>2 DEF HealthTimeout, HealthExpired, Members
      <4>2. UNCHANGED ctr \/ To(r, "none")
        BY <3>2 DEF HealthTimeout, StartFails
      <4>3. QED
        BY <4>1, <4>2, <1>h, <1>t DEF To
    <3>3. QED
      BY <3>1, <3>2
  <2>3. QED
    BY <2>1, <2>2, <1>u, <1>h DEF LeftEnough, HeadUp, Members
<1>3. QED
  BY <1>1, <1>2

(* HeadHasTime is inductive relative to the types and OnTime.               *)
LEMMA HeadHasTimeInductive ==
  MnTypeOK /\ OnTime /\ HeadHasTime /\ [MnNext]_mnVars => HeadHasTime'
<1> SUFFICES ASSUME MnTypeOK, OnTime, HeadHasTime, [MnNext]_mnVars,
                    Skew + Boot < Health, Hopeful'
             PROVE  LeftEnough'
  BY DEF HeadHasTime
<1>1. CASE UNCHANGED mnVars
  <2>1. UNCHANGED <<ctr, agent, work, left, skew, mishaps>>
    BY <1>1 DEF mnVars
  <2>2. LeftEnough
    BY <2>1 DEF HeadHasTime, Hopeful
  <2>3. QED
    BY <2>1, <2>2 DEF LeftEnough, HeadUp
<1>2. CASE MnNext
  <2>1. Hopeful
    BY <1>2, HopeIsNotRestored
  <2>2. Punctual /\ LeftEnough
    BY <2>1 DEF OnTime, Hopeful, Punctual, HeadHasTime
  <2>3. ASSUME NEW r \in Ranks PROVE ~Dies(r) /\ ~WorkerUnseen(r)
    BY <2>1 DEF Dies, WorkerUnseen, StartFails, Hopeful, MnTypeOK
  <2>4. QED
    BY <1>2, <2>1, <2>2, <2>3, NoReasonToLeave, LaunchLeavesEnough, ScriptsLeaveEnough,
       VerdictsLeaveEnough, TickLeavesEnough, HeadIsARank DEF MnNext, Progress, Ranks
<1>3. QED
  BY <1>1, <1>2

(* A replica launched in its window has its head kept until its ranks are   *)
(* together, whatever the timeouts, as long as the launches and a boot fit  *)
(* into the head's health timeout (_wait_for_health).                       *)
THEOREM HeadOutlastsLaunchesHolds == MnSpec => HeadOutlastsLaunches
<1> DEFINE Kept == InWindow /\ Skew + Boot < Health /\ mishaps' = Mishaps /\ HealthTimeout(Head)
                   => ClusterComplete
<1>1. MnInit => HeadHasTime
  <2>1. Head \in Ranks
    BY HeadIsARank
  <2>2. QED
    BY <2>1 DEF MnInit, HeadHasTime, LeftEnough
<1>2. MnTypeOK /\ OnTime /\ HeadHasTime /\ [MnNext]_mnVars => [Kept]_mnVars
  <2>1. ASSUME MnTypeOK, OnTime, HeadHasTime, MnNext,
               InWindow, Skew + Boot < Health, mishaps' = Mishaps, HealthTimeout(Head)
        PROVE  ClusterComplete
    <3>h. Head \in Ranks /\ Head \in Members /\ Workers \subseteq Ranks /\ Workers \subseteq Members
      BY HeadIsARank DEF Ranks, Members
    <3>t. /\ work \in [Ranks -> 0 .. (Boot + Load)] /\ skew \in 0 .. Skew
          /\ mishaps \in 0 .. Mishaps /\ Boot \in Nat /\ Load \in Nat /\ Skew \in Nat /\ Mishaps \in Nat
      BY <2>1 DEF MnTypeOK
    <3>1. agent[Head] = "waiting" /\ left[Head] = 0
      BY <2>1 DEF HealthTimeout, HealthExpired, Waiting
    <3>2. mishaps = Mishaps
      BY <2>1, <3>t DEF HealthTimeout, StartFails
    <3>3. Punctual /\ LeftEnough
      BY <2>1, <3>1, <3>2 DEF OnTime, Hopeful, Punctual, HeadHasTime
    <3>4. \A q \in Members : ctr[q] \notin {"none", "boot"}
      <4>1. ASSUME NEW q \in Members, ctr[q] \in {"none", "boot"} PROVE FALSE
        <5>1. q \in Ranks
          BY <3>h DEF Members
        <5>2. 0 > skew + Boot \/ 0 > work[q]
          BY <4>1, <3>1, <3>3 DEF LeftEnough
        <5>3. QED
          BY <5>1, <5>2, <3>t
      <4>2. QED
        BY <4>1
    <3>5. /\ HeadUp
          /\ \A w \in Workers : ctr[w] \in {"joining", "joined"}
      BY <2>1, <3>3, <3>4, <3>h, WhereMembersAre DEF Punctual
    <3>6. \A w \in Workers : ctr[w] # "joining"
      BY <3>1, <3>3, <3>5 DEF LeftEnough
    <3>7. QED
      BY <3>5, <3>6 DEF ClusterComplete
  <2>2. QED
    BY <2>1
<1>3. MnSpec => []HeadHasTime
  BY <1>1, HeadHasTimeInductive, BringUpTypes, RanksAreOnTime, PTL DEF MnSpec
<1>4. QED
  BY <1>2, <1>3, BringUpTypes, RanksAreOnTime, PTL DEF MnSpec, HeadOutlastsLaunches

=============================================================================
