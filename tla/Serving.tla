------------------------------ MODULE Serving ------------------------------
(***************************************************************************)
(* What a node promises the deployments it serves, without records,         *)
(* handlers, docker or a control plane: a deployment takes cards nobody     *)
(* holds, serves on them, and gives them back.  While it serves, its cards  *)
(* are its own, and a restart of the agent takes none of them away.         *)
(*                                                                         *)
(* Nothing is promised to a deployment that holds cards and does not serve  *)
(* yet: a restart may drop its claim, or bring back an older one that       *)
(* somebody else has a claim to as well.                                    *)
(***************************************************************************)
EXTENDS Naturals

CONSTANTS Owners, Cards

VARIABLES
  held,     \* the cards each owner holds
  serving,  \* the owners that serve on the cards they hold
  restarts  \* how often the agent was started again

vars == <<held, serving, restarts>>

Exclusive(S, h) == \A o, p \in S : o # p => h[o] \cap h[p] = {}

Init ==
  /\ held = [o \in Owners |-> {}]
  /\ serving = {}
  /\ restarts = 0

(* Cards are given to somebody who does not serve, and nobody else has them. *)
Take(o, cards) ==
  /\ o \notin serving
  /\ \A p \in Owners \ {o} : cards \cap held[p] = {}
  /\ held' = [held EXCEPT ![o] = cards]
  /\ UNCHANGED <<serving, restarts>>

Serve(o) ==
  /\ o \notin serving
  /\ \A p \in serving : held[o] \cap held[p] = {}
  /\ serving' = serving \cup {o}
  /\ UNCHANGED <<held, restarts>>

GiveBack(o) ==
  /\ held' = [held EXCEPT ![o] = {}]
  /\ serving' = serving \ {o}
  /\ UNCHANGED restarts

(* Whoever serves keeps its cards. One that was being shut down may serve   *)
(* again, on cards no other server has.                                     *)
Restart ==
  /\ restarts' = restarts + 1
  /\ held' \in [Owners -> SUBSET Cards]
  /\ serving \subseteq serving' /\ serving' \subseteq Owners
  /\ \A o \in serving : held'[o] = held[o]
  /\ Exclusive(serving', held')

Next ==
  \/ \E o \in Owners : Serve(o) \/ GiveBack(o) \/ \E cards \in SUBSET Cards : Take(o, cards)
  \/ Restart

Spec == Init /\ [][Next]_vars

-----------------------------------------------------------------------------
ServersAreExclusive == Exclusive(serving, held)

=============================================================================
