---------------------------- MODULE MCCicloFactura ----------------------------
(***************************************************************************)
(* Instances of CicloFactura for TLC.                                      *)
(***************************************************************************)
EXTENDS CicloFactura

CONSTANTS f1, f2, c1, c2, a1, a2

MCUnaFactura == {f1}
MCDosFacturas == {f1, f2}
MCDePrueba == {f2}
MCSinPrueba == {}
MCUnCiclo == {c1}
MCDosCiclos == {c1, c2}
MCUnaAnulacion == {a1}
MCDosAnulaciones == {a1, a2}
=============================================================================
