----------------------------- MODULE Comprobantes -----------------------------
(***************************************************************************)
(* The amounts of one POST /facturas on their way to the DGII: the request *)
(* is validated by CreateFacturaSchema, crearFactura fills in the missing  *)
(* amounts, takes the number and saves the row, and ConversorXmlService    *)
(* computes the totals again, from the items, and validates what it wrote. *)
(* The invoice is sent complete, or as a summary (RFCE) when it is an E32  *)
(* whose declared total is below the threshold.                            *)
(***************************************************************************)
EXTENDS Importes

CONSTANTS
  LineasApi,     \* lines a request may have
  MaxLineasApi,  \* bound: lines of a request
  Desvios,       \* bound: cents by which a declared amount may be off
  Umbral,        \* RFCE_UMBRAL_MONTO, in cents
  NoDado         \* an amount the request does not give

ASSUME ComprobantesAssumption ==
  /\ LineasApi \subseteq [cant : Nat, precio : Nat, tasa : Nat]
  /\ MaxLineasApi \in Nat \ {0}
  /\ Desvios \subseteq Int
  /\ Umbral \in Nat
  /\ NoDado \notin Int

VARIABLES
  fase,          \* where the request is
  peticion,      \* the dto: lines, declared amounts in cents, and type
  parcial,       \* history: the request gave one or two of the three amounts
  xml,           \* Totales of the XML
  resumen        \* it goes as RFCE

comprobanteVars == <<fase, peticion, parcial, xml, resumen>>

Montos == {"sub", "itbis", "total"}
PeticionVacia == [lineas |-> <<>>, sub |-> NoDado, itbis |-> NoDado, total |-> NoDado,
                  tipo |-> "E31"]
SinTotales == [gravado |-> 0, itbis |-> 0, total |-> 0]

InitComprobantes ==
  /\ fase = "libre"
  /\ peticion = PeticionVacia
  /\ parcial = FALSE
  /\ xml = SinTotales
  /\ resumen = FALSE

Dados(p) == {m \in Montos : p[m] # NoDado}

\* The amount x, in 1/100000, as a client may declare it.
Declarados(x) == {NoDado} \union {n \in {x \div Centavo + d : d \in Desvios} : n >= 0}

\* POST /facturas with a well-formed body.
Pedir(ls, tipo) ==
  /\ fase = "libre"
  /\ \E s \in Declarados(Subtotal(ls)), i \in Declarados(TotalItbis(ls)),
        t \in Declarados(Total(ls)) :
       /\ t # 0
       /\ peticion' = [lineas |-> ls, sub |-> s, itbis |-> i, total |-> t, tipo |-> tipo]
       /\ parcial' = ({s, i, t} # {NoDado} /\ NoDado \in {s, i, t})
  /\ fase' = "recibida"
  /\ UNCHANGED <<xml, resumen>>

\* The arithmetic is only checked when the three amounts are given.
Validar ==
  /\ fase = "recibida"
  /\ Dados(peticion) = Montos => Cuadra(peticion)
  /\ fase' = "aceptada"
  /\ UNCHANGED <<peticion, parcial, xml, resumen>>

Devolver ==
  /\ fase = "recibida"
  /\ Dados(peticion) = Montos /\ Descuadra(peticion)
  /\ fase' = "rechazada"
  /\ UNCHANGED <<peticion, parcial, xml, resumen>>

\* The missing amounts are computed from the items; those given are kept.
Completado(p, s, i, t) ==
  [lineas |-> p.lineas, tipo |-> p.tipo,
   sub |-> IF p.sub = NoDado THEN s ELSE p.sub,
   itbis |-> IF p.itbis = NoDado THEN i ELSE p.itbis,
   total |-> IF p.total = NoDado THEN t ELSE p.total]

\* crearFactura up to the row: the number of the sequence is spent here.
Numerar ==
  /\ fase = "aceptada"
  /\ \E s \in Redondeos(Subtotal(peticion.lineas)),
        i \in Redondeos(TotalItbis(peticion.lineas)),
        t \in Redondeos(Total(peticion.lineas)) :
       peticion' = Completado(peticion, s, i, t)
  /\ fase' = "numerada"
  /\ UNCHANGED <<parcial, xml, resumen>>

\* convertir; the same check once more in crearFactura has the same result.
Convertir(aprobado) ==
  /\ fase = "numerada"
  /\ \E x \in TotalesXml(peticion.lineas) :
       /\ (~aprobado) \in TotalesRechazados(x)
       /\ xml' = x
  /\ fase' = IF aprobado THEN "convertida" ELSE "sin_xml"
  /\ UNCHANGED <<peticion, parcial, resumen>>

DebeUsarResumen(tipo, monto) == tipo = "E32" /\ monto < Umbral

\* The threshold looks at the declared total; the totals of the summary are those of
\* the XML, and it is not validated again.
Transmitir ==
  /\ fase = "convertida"
  /\ resumen' = DebeUsarResumen(peticion.tipo, peticion.total)
  /\ fase' = "transmitida"
  /\ UNCHANGED <<peticion, parcial, xml>>

NextComprobantes ==
  \/ \E n \in 1 .. MaxLineasApi : \E ls \in [1 .. n -> LineasApi], tipo \in {"E31", "E32"} :
       Pedir(ls, tipo)
  \/ Validar \/ Devolver \/ Numerar
  \/ \E b \in BOOLEAN : Convertir(b)
  \/ Transmitir

SpecComprobantes == InitComprobantes /\ [][NextComprobantes]_comprobanteVars

-----------------------------------------------------------------------------
(* Properties                                                              *)

TypeOKComprobantes ==
  /\ fase \in {"libre", "recibida", "rechazada", "aceptada", "numerada", "convertida",
               "sin_xml", "transmitida"}
  /\ peticion.tipo \in {"E31", "E32"}
  /\ \A m \in Montos : peticion[m] \in Nat \union {NoDado}
  /\ parcial \in BOOLEAN
  /\ xml \in [gravado : Nat, itbis : Nat, total : Nat]
  /\ resumen \in BOOLEAN

\* The three tolerances of the schema add up to 3 cents and no more: except in that
\* band around the threshold, an invoice of consumption goes as a summary exactly when
\* the total the DGII reads in it is below the threshold.  A request that declares only
\* some of its amounts is not covered: nothing compares them with the items.
ResumenSegunUmbral ==
  fase = "transmitida" /\ peticion.tipo = "E32" /\ ~parcial =>
    \/ resumen = (xml.total < Umbral)
    \/ Distancia(xml.total, Umbral) <= 3

\* Requirement 9.1: a payload that passed the validation is converted to XML; it has
\* already taken its number.
AceptadaSeConvierte == fase # "sin_xml"
=============================================================================
