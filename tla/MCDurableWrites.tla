-------------------------- MODULE MCDurableWrites --------------------------
(***************************************************************************)
(* A request of any one kind, asked for and repeated by two callers; a     *)
(* prepared one under two keys.                                            *)
(***************************************************************************)
EXTENDS DurableWrites, TLC

CONSTANTS c1, c2, p, d, u, g, f, kp, kr, kd, ku, kg, kf, none

MC_Clients == {c1, c2}
MC_Requests == {p, d, u, g, f}
MC_Kind == p :> "prepared" @@ d :> "direct" @@ u :> "put"
           @@ g :> "generated" @@ f :> "files"
MC_KeysOf == p :> {kp, kr} @@ d :> {kd} @@ u :> {ku} @@ g :> {kg} @@ f :> {kf}
=============================================================================
