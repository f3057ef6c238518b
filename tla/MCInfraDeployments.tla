------------------------- MODULE MCInfraDeployments -------------------------
(* A small instance of InfraDeployments: up to three deployments, so that a *)
(* recovery can fail and be recovered, between two commits, and two callers *)
(* who start at the same time.                                              *)
EXTENDS InfraDeployments, TLC

CONSTANTS b0, b1, u1, u2, down

MC_Deployments == 1 .. 3
MC_Commits == {b0, b1}
MC_Clients == {u1, u2}
MC_Symmetry == Permutations(MC_Clients)
=============================================================================
