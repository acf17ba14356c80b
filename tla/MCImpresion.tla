------------------------------ MODULE MCImpresion -----------------------------
(***************************************************************************)
(* Two tickets for the print bridge, and two templates: one takes the      *)
(* items between two marks and finds them in the first ticket only, the    *)
(* other takes any line that looks like an item.                           *)
(***************************************************************************)
EXTENDS Impresion, TLC

CONSTANTS k1, k2

MCDocumentoDe ==
  (k1 :> <<{}, {"inicio"}, {"articulo"}, {"fin"}>>)
  @@ (k2 :> <<{"articulo"}, {"inicio"}, {}, {"fin"}, {"articulo"}>>)

MCPlantillas ==
  {[patron |-> TRUE, inicio |-> b, fin |-> b, linea |-> 0] : b \in BOOLEAN}
=============================================================================
