----------------------------- MODULE MCFormulario -----------------------------
(***************************************************************************)
(* Instance of FormularioFactura for TLC: one article of 1.00 with 18%.    *)
(***************************************************************************)
EXTENDS FormularioFactura, TLC

CONSTANT articulo

MCPrecioDe == articulo :> 100
MCTasaDe == articulo :> 18
=============================================================================
