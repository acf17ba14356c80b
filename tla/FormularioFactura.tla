--------------------------- MODULE FormularioFactura ---------------------------
(***************************************************************************)
(* The invoice form of the web client (Facturas.tsx) against the gateway:  *)
(* the name looked up by RNC, the lines, the total shown, and the POST,    *)
(* whose answer may be lost and which the user may repeat.                 *)
(*                                                                         *)
(* Names, descriptions and prices come from the catalogue: a line has the  *)
(* article it was chosen from, or none and then price 0.  A name is that   *)
(* of a taxpayer (its RNC stands for it), typed by hand, or empty.         *)
(***************************************************************************)
EXTENDS Importes

CONSTANTS
  Articulos,     \* items of the catalogue
  PrecioDe,      \* PrecioDe[a]: cents
  TasaDe,        \* TasaDe[a]: percent
  Rncs,          \* well-formed RNCs the user may type
  Descuentos,    \* values of the field descuento_global, in percent
  CantidadesForm,\* bound: quantities the user may type
  MaxLineasForm, \* bound: lines of the form
  MaxEnviosForm, \* bound: POSTs
  Vacio, AMano, SinArticulo

ASSUME FormularioAssumption ==
  /\ PrecioDe \in [Articulos -> Nat]
  /\ TasaDe \in [Articulos -> {0, 16, 18}]
  /\ Descuentos \subseteq 0 .. 100
  /\ 0 \in Descuentos
  /\ CantidadesForm \subseteq Nat \ {0}
  /\ MaxLineasForm \in Nat \ {0}
  /\ MaxEnviosForm \in Nat
  /\ {Vacio, AMano} \intersect Rncs = {}
  /\ SinArticulo \notin Articulos

VARIABLES
  rncForm,       \* rncReceptor; Vacio stands for every value that is not well formed
  nombreForm,    \* nombreReceptor
  busquedas,     \* RNCs whose lookup is in flight
  buscando,      \* rncLookupLoading
  renglones,     \* lines: sequence of [art, cant]
  descuento,     \* descuentoGlobal
  pasoForm,      \* "edicion", "enviando", "emitiendo" or "creada"
  visto,         \* the total shown when the form was submitted
  cuerpo,        \* the body of the POST
  enviosForm,
  emitidasForm,  \* history: invoices the gateway issued: [total, visto, desc]
  tardia,        \* history: a lookup was answered when the form had another RNC
  muda           \* history: a lookup brought no name and no refusal

receptorVars == <<rncForm, nombreForm, busquedas, buscando, tardia, muda>>
formularioVars == <<receptorVars, renglones, descuento>>
envioVars == <<pasoForm, visto, cuerpo, enviosForm, emitidasForm>>
formVars == <<formularioVars, envioVars>>

RenglonVacio == [art |-> SinArticulo, cant |-> 1]
SinCuerpo == [lineas |-> <<>>, desc |-> 0]

FormularioVacio ==
  /\ rncForm' = Vacio /\ nombreForm' = Vacio
  /\ renglones' = <<RenglonVacio>>
  /\ descuento' = 0

InitFormulario ==
  /\ rncForm = Vacio /\ nombreForm = Vacio
  /\ busquedas = {} /\ buscando = FALSE
  /\ renglones = <<RenglonVacio>>
  /\ descuento = 0
  /\ pasoForm = "edicion"
  /\ visto = 0
  /\ cuerpo = SinCuerpo
  /\ enviosForm = 0 /\ emitidasForm = {}
  /\ tardia = FALSE /\ muda = FALSE

\* The fields stay enabled while the POST is in flight, but its body is built already:
\* what the user edits then is edited after the answer here.
Editable == pasoForm = "edicion"

-----------------------------------------------------------------------------
(* The receiver                                                            *)

\* onChange of the RNC: a well-formed one is looked up, any other clears the name.
TeclearRnc(r) ==
  /\ Editable
  /\ rncForm # r
  /\ rncForm' = r
  /\ IF r = Vacio
     THEN nombreForm' = Vacio /\ UNCHANGED <<busquedas, buscando>>
     ELSE /\ busquedas' = busquedas \union {r}
          /\ buscando' = TRUE
          /\ UNCHANGED nombreForm
  /\ UNCHANGED <<tardia, muda, renglones, descuento, envioVars>>

TeclearNombre ==
  /\ Editable /\ ~buscando
  /\ nombreForm' = AMano
  /\ UNCHANGED <<rncForm, busquedas, buscando, tardia, muda, renglones, descuento, envioVars>>

\* Mutant: a refused RNC leaves the name as it was.
NombreRechazadoIntacto == nombreForm

\* The gateway refuses the RNC.
NombreRechazado == Vacio

\* lookupRnc resumes: n is the name to show.  It does not look at the RNC the form has
\* by now, and the first answer ends the waiting of all.
ResolverRnc(r, n, calla) ==
  /\ r \in busquedas
  /\ busquedas' = busquedas \ {r}
  /\ buscando' = FALSE
  /\ nombreForm' = n
  /\ tardia' = (tardia \/ r # rncForm)
  /\ muda' = (muda \/ calla)
  /\ UNCHANGED <<rncForm, renglones, descuento, envioVars>>

\* The name came; the RNC was refused; no connection, or no name in the answer.
Buscar(r) ==
  \/ ResolverRnc(r, r, FALSE)
  \/ ResolverRnc(r, NombreRechazado, FALSE)
  \/ ResolverRnc(r, nombreForm, TRUE)

-----------------------------------------------------------------------------
(* The lines                                                               *)

CambiarRenglones(ls) ==
  /\ Editable
  /\ renglones' = ls
  /\ UNCHANGED <<receptorVars, descuento, envioVars>>

AgregarRenglon ==
  /\ Len(renglones) < MaxLineasForm
  /\ CambiarRenglones(Append(renglones, RenglonVacio))

QuitarRenglon(i) ==
  /\ Len(renglones) > 1
  /\ CambiarRenglones(SubSeq(renglones, 1, i - 1) \o
                      SubSeq(renglones, i + 1, Len(renglones)))

CambiarCantidad(i, n) == CambiarRenglones([renglones EXCEPT ![i].cant = n])

ElegirArticulo(i, a) == CambiarRenglones([renglones EXCEPT ![i].art = a])

CambiarDescuento(d) ==
  /\ Editable
  /\ descuento' = d
  /\ UNCHANGED <<receptorVars, renglones, envioVars>>

-----------------------------------------------------------------------------
(* The total and the POST                                                  *)

LineaDe(l) ==
  [cant |-> 10 * l.cant,
   precio |-> IF l.art = SinArticulo THEN 0 ELSE PrecioDe[l.art],
   tasa |-> IF l.art = SinArticulo THEN 18 ELSE TasaDe[l.art]]

LineasDe(ls) == [i \in DOMAIN ls |-> LineaDe(ls[i])]

\* grandTotal: the discount is taken from the subtotal and not from the ITBIS.
GrandTotal(ls, d) == Total(ls) - (Subtotal(ls) * d) \div 100

\* validate: a well-formed RNC and one complete line.
EnviableForm ==
  /\ rncForm # Vacio
  /\ \E i \in DOMAIN renglones : renglones[i].art # SinArticulo /\ PrecioDe[renglones[i].art] > 0

\* The items of the body: the lines that come from the catalogue.
LineasEnviadas(ls) == SelectSeq(ls, LAMBDA l : l.art # SinArticulo)

\* handleSubmit up to the POST.
Enviar ==
  /\ pasoForm = "edicion"
  /\ EnviableForm
  /\ enviosForm < MaxEnviosForm
  /\ cuerpo' = [lineas |-> LineasDe(LineasEnviadas(renglones)), desc |-> descuento]
  /\ visto' = GrandTotal(LineasDe(renglones), descuento)
  /\ pasoForm' = "enviando"
  /\ enviosForm' = enviosForm + 1
  /\ UNCHANGED <<formularioVars, emitidasForm>>

\* The gateway issues the invoice: crearFactura and the converter compute its total
\* from the items; neither uses descuento_global.
Emitir ==
  /\ pasoForm = "enviando"
  /\ emitidasForm' = emitidasForm \union
       {[total |-> Total(cuerpo.lineas), visto |-> visto, desc |-> cuerpo.desc]}
  /\ pasoForm' = "emitiendo"
  /\ UNCHANGED <<formularioVars, visto, cuerpo, enviosForm>>

\* handleSubmit ends.
CerrarEnvio(p) ==
  /\ pasoForm' = p
  /\ visto' = 0 /\ cuerpo' = SinCuerpo
  /\ UNCHANGED <<formularioVars, enviosForm, emitidasForm>>

Crear ==
  /\ pasoForm = "emitiendo"
  /\ CerrarEnvio("creada")

\* An error of the gateway before the invoice, or of the connection at any time: the
\* form shows it and may be submitted again.
Fallar ==
  /\ pasoForm \in {"enviando", "emitiendo"}
  /\ CerrarEnvio("edicion")

\* handleNewInvoice
NuevaFactura ==
  /\ pasoForm = "creada"
  /\ pasoForm' = "edicion"
  /\ FormularioVacio
  /\ UNCHANGED <<busquedas, buscando, tardia, muda, visto, cuerpo, enviosForm, emitidasForm>>

NextFormulario ==
  \/ \E r \in Rncs \union {Vacio} : TeclearRnc(r)
  \/ TeclearNombre
  \/ \E r \in Rncs : Buscar(r)
  \/ AgregarRenglon
  \/ \E i \in DOMAIN renglones :
       \/ QuitarRenglon(i)
       \/ \E n \in CantidadesForm : CambiarCantidad(i, n)
       \/ \E a \in Articulos : ElegirArticulo(i, a)
  \/ \E d \in Descuentos : CambiarDescuento(d)
  \/ Enviar \/ Emitir \/ Crear \/ Fallar \/ NuevaFactura

SpecFormulario == InitFormulario /\ [][NextFormulario]_formVars

-----------------------------------------------------------------------------
(* Properties                                                              *)

TypeOKFormulario ==
  /\ rncForm \in Rncs \union {Vacio}
  /\ nombreForm \in Rncs \union {Vacio, AMano}
  /\ busquedas \subseteq Rncs
  /\ buscando \in BOOLEAN
  /\ renglones \in Seq([art : Articulos \union {SinArticulo}, cant : Nat \ {0}])
  /\ descuento \in Descuentos
  /\ pasoForm \in {"edicion", "enviando", "emitiendo", "creada"}
  /\ visto \in Nat /\ enviosForm \in Nat
  /\ cuerpo.desc \in Descuentos
  /\ tardia \in BOOLEAN /\ muda \in BOOLEAN

\* With no lookup in flight, the name shown, which goes in the invoice, is not that of
\* another taxpayer, unless an answer came after the RNC had changed or brought neither
\* a name nor a refusal.
NombreCoincide ==
  busquedas = {} /\ ~tardia /\ ~muda => nombreForm \in {rncForm, AMano, Vacio}

\* The user is told a total and the invoice is issued for that total (the form shows
\* "Descuento" and subtracts it from "Total").
TotalMostrado == \A f \in emitidasForm : f.total = f.visto
=============================================================================
