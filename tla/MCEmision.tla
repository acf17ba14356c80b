------------------------------- MODULE MCEmision ------------------------------
(***************************************************************************)
(* Issuing invoices, around the sequences and the life of one invoice: the *)
(* quota, the retry queue, the amounts of a document, the form, the        *)
(* certification set, the batch, the RNC of the receiver, the token of the *)
(* DGII and the documents received.  They share no state, so they go in    *)
(* one run: a behaviour moves one of them, and the states of the run are   *)
(* the sum of theirs.                                                      *)
(***************************************************************************)
EXTENDS PlanesUso, ColaReintentos, Comprobantes, FormularioFactura, Certificacion, Lotes,
        Rnc, TokenDgii, Recibidas, TLC

CONSTANTS
  s1, s2, s3, r1, d1, basico, empresarial,   \* quota
  item,                                      \* form
  x1, x2,                                    \* certification
  a1, a2, a3, g1, g2, k1, k2,                \* batch
  t1, t2, b1, b2, b3                         \* token, decisions

\* Quota: a plan with a limit of one invoice and an unlimited one.
MCSolicitudes == {s1, s2, s3}
MCLecturas == {r1}
MCCambios == {d1}
MCPlanes == {basico, empresarial}
MCLimites == {1, SinLimite}
MCLimiteInicial == (basico :> 1) @@ (empresarial :> SinLimite)

\* Documents: 1 unit at 1.25 with 18% falls on half a cent, 1.5 at 0.33 below it.
Linea(c, p, t) == [cant |-> c, precio |-> p, tasa |-> t]
MCLineasApi == {Linea(10, 125, 18), Linea(10, 100, 0), Linea(15, 33, 18), Linea(20, 50, 16)}
MCDesvios == {-4, -1, 0, 1}

\* Form.
MCPrecioDe == item :> 100
MCTasaDe == item :> 18

\* Certification: one run of the fifteen steps, or two at once of those that refer to
\* the first; ranges with just the numbers required, without E31 or E45, or short; and a
\* company in production without E31, that had rows of certification or never did.
RecorridoEntero == [xs |-> {x1}, pasos |-> 1 .. 15]
MCRecorridos == {RecorridoEntero, [xs |-> {x1, x2}, pasos |-> {1, 2, 3, 6, 12}]}
RangoJusto == [t \in TiposSet |-> SECUENCIAS_REQUERIDAS[t]]
Ningunas == [t \in TiposSet |-> SinRango]
EnPruebas(f) == [entorno |-> "certificacion", cert |-> f, prod |-> Ningunas]
EnProduccion(f) ==
  [entorno |-> "produccion", cert |-> f, prod |-> [RangoJusto EXCEPT !["E31"] = SinRango]]
MCSituaciones ==
  {EnPruebas(RangoJusto), EnPruebas([RangoJusto EXCEPT !["E31"] = SinRango]),
   EnPruebas([RangoJusto EXCEPT !["E31"] = 2, !["E45"] = SinRango]),
   EnProduccion(Ningunas), EnProduccion([t \in TiposSet |-> Inactiva])}
MCAjenas == {[Dto(2) EXCEPT !.llave = TRUE], Dto(11)}

\* Batch: a CSV with a blank line and with a cell that its separator cuts; an Excel with
\* a row without data and a column that is twice; and a file without a column.
Cabecera == <<<<"factura">>, <<"rnc_receptor">>, <<"descripcion">>, <<"cantidad">>>>
FilaEscrita(g, r, n) == <<<<g>>, <<r>>, <<"tornillo">>, <<n>>>>
FilaCortada(g, r, n) == <<<<g>>, <<r>>, <<"tornillo", "zinc">>, <<n>>>>
MCMalos == {<<<<"cantidad">>, <<"zinc">>>>, <<<<"cantidad">>, <<"0">>>>}
MCHojaDe ==
  (a1 :> [formato |-> "csv",
          lineas |-> <<Cabecera, FilaEscrita(g1, k1, "1"), <<>>, FilaCortada(g2, k2, "1"),
                       FilaEscrita(g1, k2, "2"), FilaEscrita(g2, k2, "3")>>])
  @@ (a2 :> [formato |-> "xlsx",
             lineas |-> <<Append(Cabecera, <<"cantidad">>), FilaCortada(g2, k1, "1"), <<>>,
                          Append(FilaEscrita(g1, k1, "0"), <<"2">>)>>])
  @@ (a3 :> [formato |-> "xlsx", lineas |-> <<Tail(Cabecera), FilaEscrita(g1, k1, "1")>>])

\* Seed: one that is good, four that are not.
Abre(n) == [nombre |-> n, clase |-> "abre"]
Cierra(n) == [nombre |-> n, clase |-> "cierra"]
Sola(n) == [nombre |-> n, clase |-> "sola"]
MCSemilla == [llega |-> TRUE, ok |-> TRUE, angulo |-> TRUE,
              etiquetas |-> <<Abre("s"), Abre("v"), Cierra("v"), Sola("f"), Cierra("s")>>]
MCRespuestas ==
  {MCSemilla, [MCSemilla EXCEPT !.llega = FALSE], [MCSemilla EXCEPT !.ok = FALSE],
   [MCSemilla EXCEPT !.angulo = FALSE],
   [MCSemilla EXCEPT !.etiquetas = <<Abre("s"), Abre("v"), Cierra("s"), Cierra("v")>>]}

\* The stack of tags accepts just the documents of the grammar: nothing, or a tag alone
\* or a pair with a document inside, and another document.
MCEtiquetas == {Abre("s"), Cierra("s"), Abre("v"), Cierra("v"), Sola("f")}
MCDocumentos == BoundedSeq(MCEtiquetas, 5)
EsDocumento[es \in MCDocumentos] ==
  \/ es = <<>>
  \/ Head(es).clase = "sola" /\ EsDocumento[Tail(es)]
  \/ \E k \in 2 .. Len(es) :
       /\ Head(es) = Abre(es[k].nombre) /\ es[k] = Cierra(es[1].nombre)
       /\ EsDocumento[SubSeq(es, 2, k - 1)] /\ EsDocumento[SubSeq(es, k + 1, Len(es))]
ASSUME PilaAssumption == \A es \in MCDocumentos : BienFormado(es) <=> EsDocumento[es]

VARIABLE parte

\* The quota is run twice: three invoices without the requests that save the row,
\* and two invoices with them.  Invoices are alike, so they arrive in order.
LlegadasEnOrden ==
  /\ paso'[s2] # "inicio" => paso'[s1] # "inicio"
  /\ paso'[s3] # "inicio" => paso'[s2] # "inicio"

SoloFacturas == \A e \in Escritores : paso'[e] = "inicio"

\* The two requests that save the row meet in one month only.
DosFacturas ==
  /\ paso'[s3] = "inicio"
  /\ mes' = 1 \/ \E e \in Escritores : paso'[e] = "inicio"

\* Decisions are alike too.
DecisionesEnOrden ==
  \A p \in {<<b1, b2>>, <<b2, b3>>} :
    pasoDecision'[p[2]] # "reposo" => pasoDecision'[p[1]] # "reposo"

\* Of the other files, one is chosen, once.
UnArchivoMas == elecciones'[a2] + elecciones'[a3] <= 1

\* Companies are alike: x1 is a run of the first one, and the one whose sequences no run
\* uses starts in one way.
EmpresasIguales ==
  /\ duenna[x1] = CHOOSE e \in EmpresasSet : TRUE
  /\ recorrido = RecorridoEntero => duenna[x2] = duenna[x1]
  /\ \A e \in EmpresasSet \ {duenna[x1], duenna[x2]} :
       entorno[e] = "certificacion" /\ rango[e] = RangoJusto

InitEmision ==
  /\ parte \in {"cupo", "cupo_guardados", "reintentos", "montos", "formulario",
               "certificacion", "lotes", "rnc", "token", "recibidas"}
  /\ Init /\ InitReintentos /\ InitComprobantes
  /\ InitFormulario /\ InitCertificacion /\ InitLotes
  /\ InitRnc /\ InitToken /\ InitRecibidas
  \* The components that do not move start in one way.
  /\ parte \notin {"cupo", "cupo_guardados"} => plan = basico
  /\ EmpresasIguales
  /\ parte # "certificacion" =>
       /\ recorrido = RecorridoEntero
       /\ \A e \in EmpresasSet : entorno[e] = "certificacion" /\ rango[e] = RangoJusto
       /\ duenna[x2] = duenna[x1]
  /\ parte # "rnc" =>
       \A n \in RncsReceptor : registroDgii[n] = "activo" /\ padron[n] = "activo"
  /\ parte # "token" => ambiente = "certificacion" /\ vividos = {"certificacion"}

\* Tuples of the variables that stand still when one of the three groups moves.
cupoVars == <<vars, colaReintentosVars, comprobanteVars>>
solicitudVars == <<formVars, certificacionVars, lotesVars>>
dgiiVars == <<rncVars, tokenVars, recibidaVars>>

NextEmision ==
  /\ UNCHANGED parte
  /\ \/ /\ \/ parte = "cupo" /\ Next /\ SoloFacturas
           \/ parte = "cupo_guardados" /\ Next /\ DosFacturas
        /\ LlegadasEnOrden
        /\ UNCHANGED <<colaReintentosVars, comprobanteVars, solicitudVars, dgiiVars>>
     \/ /\ parte = "reintentos" /\ NextReintentos
        /\ UNCHANGED <<vars, comprobanteVars, solicitudVars, dgiiVars>>
     \/ /\ parte = "montos" /\ NextComprobantes
        /\ UNCHANGED <<vars, colaReintentosVars, solicitudVars, dgiiVars>>
     \/ /\ parte = "formulario" /\ NextFormulario
        /\ UNCHANGED <<cupoVars, certificacionVars, lotesVars, dgiiVars>>
     \/ /\ parte = "certificacion" /\ NextCertificacion
        /\ UNCHANGED <<cupoVars, formVars, lotesVars, dgiiVars>>
     \/ /\ parte = "lotes" /\ NextLotes /\ UnArchivoMas
        /\ UNCHANGED <<cupoVars, formVars, certificacionVars, dgiiVars>>
     \/ /\ parte = "rnc" /\ NextRnc
        /\ UNCHANGED <<cupoVars, solicitudVars, tokenVars, recibidaVars>>
     \/ /\ parte = "token" /\ NextToken
        /\ UNCHANGED <<cupoVars, solicitudVars, rncVars, recibidaVars>>
     \/ /\ parte = "recibidas" /\ NextRecibidas /\ DecisionesEnOrden
        /\ UNCHANGED <<cupoVars, solicitudVars, rncVars, tokenVars>>

SpecEmision ==
  InitEmision /\ [][NextEmision]_<<parte, cupoVars, solicitudVars, dgiiVars>>

\* The variables of the component that moves have their types, and so those of each one.
TypeOKEmision ==
  CASE parte \in {"cupo", "cupo_guardados"} -> TypeOK
    [] parte = "reintentos" -> TypeOKReintentos
    [] parte = "montos" -> TypeOKComprobantes
    [] parte = "formulario" -> TypeOKFormulario
    [] parte = "certificacion" -> TypeOKCertificacion
    [] parte = "lotes" -> TypeOKLotes
    [] parte = "rnc" -> TypeOKRnc
    [] parte = "token" -> TypeOKToken
    [] parte = "recibidas" -> TypeOKRecibidas
=============================================================================
