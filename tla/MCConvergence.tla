---------------------------- MODULE MCConvergence ----------------------------
(* Instances of Convergence for TLC.                                       *)
EXTENDS Convergence

CONSTANTS c1, c2, k1, k2, context

MC_Mode == [k \in Keys |-> "full"]

\* The second commit changes the message only.
MC_TreeOf == [h \in Commits |-> 0]

\* One caller of the fast mode.
Fast_Mode == [k \in Keys |-> "fast"]

==============================================================================
