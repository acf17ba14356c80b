--------------------------- MODULE MCSecuenciasNcf ---------------------------
(***************************************************************************)
(* Instance of SecuenciasNcf for TLC: two ranges of two numbers for the    *)
(* same tipo_comprobante, so that getOne has two rows to choose from, and  *)
(* a second tipo with no sequence at all.                                  *)
(***************************************************************************)
EXTENDS SecuenciasNcf

CONSTANTS s1, s2, e1, q1, q2

MCSolicitudes == {s1, s2}
MCEdiciones == {e1}
MCSecuencias == {q1, q2}
MCTipos == {"E31", "E32"}
MCAmbientes == {"produccion"}
MCPrefijos == {"E31", "E31B"}

MCAltas == {[tipo |-> "E31", prefijo |-> "E31", inicio |-> 1, fin |-> 2],
            [tipo |-> "E31", prefijo |-> "E31B", inicio |-> 1, fin |-> 2]}

NingunCampo == [activo |-> Nulo, prefijo |-> Nulo, fin |-> Nulo, actual |-> Nulo]

\* The PATCH of requirement 28.4 and its opposite: numero_actual is never named.
MCDtosActivo == {[NingunCampo EXCEPT !.activo = FALSE],
                 [NingunCampo EXCEPT !.activo = TRUE]}

\* Every column a PATCH can name, with values that matter for ranges of 1 .. 2.
MCDtos == MCDtosActivo \union
  {[NingunCampo EXCEPT !.fin = 1], [NingunCampo EXCEPT !.actual = 1],
   [NingunCampo EXCEPT !.prefijo = "E31B"]}
=============================================================================
