----------------------------- MODULE MCPlanesUso ------------------------------
(***************************************************************************)
(* Instance of PlanesUso for TLC: a plan with a limit of one invoice and   *)
(* an unlimited one.                                                       *)
(***************************************************************************)
EXTENDS PlanesUso, TLC

CONSTANTS s1, s2, r1, basico, empresarial

MCDosSolicitudes == {s1, s2}
MCLecturas == {r1}
MCSinCambios == {}
MCPlanes == {basico, empresarial}
MCLimites == {1, SinLimite}
MCLimiteInicial == (basico :> 1) @@ (empresarial :> SinLimite)
=============================================================================
