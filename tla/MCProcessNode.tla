--------------------------- MODULE MCProcessNode ---------------------------
(* Two deployments of inference on one node, one suspension, and faults in  *)
(* pairs where one leads into the other.                                    *)
EXTENDS ProcessNode

Two == {"p", "q"}

Once(S) == [e \in Events |-> IF e \in S THEN 1 ELSE 0]

Pairs == {{"slow", "exit"}, {"denied", "refuse"}, {"busy", "unkilled"}}

(* A crash, a save that fails and a suspension are taken two at a time.     *)
TwoOfThree == {Once({"crash", "disk", "suspend"} \ {e}) : e \in {"crash", "disk", "suspend"}}
PairsOfFaults == TwoOfThree \cup {Once(pair \cup {"suspend"}) : pair \in Pairs}

=============================================================================
