---------------------------- MODULE MCComprobantes ----------------------------
(***************************************************************************)
(* Instance of Comprobantes for TLC: a unit at 1.25 with 18% falls on half *)
(* a cent, 1.5 units at 0.33 below it.                                     *)
(***************************************************************************)
EXTENDS Comprobantes

MCLineasApi == {[cant |-> 10, precio |-> 125, tasa |-> 18],
                [cant |-> 15, precio |-> 33, tasa |-> 18]}
=============================================================================
