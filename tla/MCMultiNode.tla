---------------------------- MODULE MCMultiNode ----------------------------
(* A replica of a head and two workers beside a single-node runtime.        *)
EXTENDS MultiNodeProps

TwoWorkers == {"w1", "w2"}

=============================================================================
