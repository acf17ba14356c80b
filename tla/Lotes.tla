--------------------------------- MODULE Lotes ---------------------------------
(***************************************************************************)
(* Batches of invoices: the page that uploads a file (FacturasBatch.tsx),  *)
(* POST batch/validar and POST batch/emitir (BatchFacturasService).        *)
(*                                                                         *)
(* A file is a sequence of lines, and a line one of cells.  A cell is a    *)
(* sequence of texts, so that CSV can cut it where the separator is inside *)
(* it; Excel cannot.  Four of the seven required columns stand for them.   *)
(***************************************************************************)
EXTENDS Naturals, SequencesExt

CONSTANTS
  Archivos,      \* files the user may choose
  HojaDe,        \* HojaDe[a]: file a: [formato, lineas], formato by its extension
  Malos,         \* <<column, value>> that validarFila refuses, besides the empty ones
  Cargas,        \* POST batch/emitir requests
  MaxElecciones, \* bound: choices of a file
  MaxFallosLote, \* bound: invoices that crearFactura refuses, and answers that are lost
  SinArchivo

ASSUME LotesAssumption ==
  /\ SinArchivo \notin Archivos
  /\ \A a \in Archivos : DOMAIN HojaDe[a].lineas \subseteq Nat
  /\ MaxElecciones \in Nat
  /\ MaxFallosLote \in Nat

VARIABLES
  archivo,       \* file: the one chosen in the page
  validados,     \* files whose validation is in flight
  preview,       \* the file the validation shown is of, or SinArchivo
  emitiendo,     \* emitting: a POST batch/emitir is in flight
  resultadoLote, \* emisionResult is shown
  archivoDe,     \* archivoDe[p]: file of request p, SinArchivo until it is made
  restantesLote, \* restantesLote[p]: groups that p has still to issue
  aciertos, fracasos, \* aciertos[p], fracasos[p]: groups reported as issued and as failed
  sinRespuesta,  \* requests whose answer the page still waits for
  fallosLote,
  emitidasLote,  \* history: invoices: [lote, grupo, filas, receptor]
  elecciones,    \* history: elecciones[a]: times a was chosen
  perdidasLote   \* history: perdidasLote[a]: answers for a that were lost

paginaVars == <<archivo, validados, preview, emitiendo, resultadoLote, elecciones>>
loteVars == <<archivoDe, restantesLote, aciertos, fracasos, sinRespuesta>>
lotesVars == <<paginaVars, loteVars, fallosLote, emitidasLote, perdidasLote>>

InitLotes ==
  /\ archivo = SinArchivo
  /\ validados = {}
  /\ preview = SinArchivo
  /\ emitiendo = FALSE /\ resultadoLote = FALSE
  /\ archivoDe = [p \in Cargas |-> SinArchivo]
  /\ restantesLote = [p \in Cargas |-> {}]
  /\ aciertos = [p \in Cargas |-> {}]
  /\ fracasos = [p \in Cargas |-> {}]
  /\ sinRespuesta = {}
  /\ fallosLote = 0
  /\ emitidasLote = {}
  /\ elecciones = [a \in Archivos |-> 0]
  /\ perdidasLote = [a \in Archivos |-> 0]

-----------------------------------------------------------------------------
(* BatchFacturasService                                                    *)

REQUIRED_COLUMNS == {<<"factura">>, <<"rnc_receptor">>, <<"descripcion">>, <<"cantidad">>}

Vacia == <<"">>

\* The lines that are read: parseCsv drops the blank ones.  The first one has the columns.
LineasEscritas(a) ==
  {i \in DOMAIN HojaDe[a].lineas : HojaDe[a].formato = "csv" => HojaDe[a].lineas[i] # <<>>}

Encabezado(a) == Min(LineasEscritas(a))

\* The cells of line i: parseCsv cuts them at every separator.
Renglon(a, i) ==
  LET l == HojaDe[a].lineas[i]
  IN IF HojaDe[a].formato = "csv" THEN [k \in DOMAIN FlattenSeq(l) |-> <<FlattenSeq(l)[k]>>] ELSE l

Titulos(a) == Renglon(a, Encabezado(a))

Celda(l, k) == IF k <= Len(l) THEN l[k] ELSE Vacia

\* The record of each line: of two columns with one name, the last one counts.
Registros ==
  [a \in Archivos |->
     [i \in LineasEscritas(a) |->
        [c \in Range(Titulos(a)) |->
           Celda(Renglon(a, i), SelectLastInSeq(Titulos(a), LAMBDA d : d = c))]]]

ConDatos(r) == \E c \in DOMAIN r : r[c] # Vacia

\* parseFile: the lines that are rows; a format that is not known (400) counts as none.
Filas(a) ==
  IF HojaDe[a].formato = "otro" THEN {}
  ELSE {i \in LineasEscritas(a) : i # Encabezado(a) /\ ConDatos(Registros[a][i])}

\* columnas_faltantes is empty.
EstructuraValida(a) == Filas(a) # {} /\ REQUIRED_COLUMNS \subseteq Range(Titulos(a))

\* validarFila: a row with a wrong column is left out of the batch.
FilaValida(f) == \A c \in REQUIRED_COLUMNS : f[c] # Vacia /\ <<c, f[c]>> \notin Malos

FilasValidas ==
  [a \in Archivos |->
     IF EstructuraValida(a) THEN {i \in Filas(a) : FilaValida(Registros[a][i])} ELSE {}]

GrupoDe(a, i) == Registros[a][i][<<"factura">>]

\* agruparPorFactura
Grupos(a) == {GrupoDe(a, i) : i \in FilasValidas[a]}

FilasDelGrupo(a, g) == {i \in FilasValidas[a] : GrupoDe(a, i) = g}

\* Its Map has the groups in the order of their first valid row: the next one of gs.
GrupoSiguiente(a, gs) == GrupoDe(a, Min({i \in FilasValidas[a] : GrupoDe(a, i) \in gs}))

\* One invoice per group, with the header of its first valid row.
FacturaDe(p, g) ==
  LET fs == FilasDelGrupo(archivoDe[p], g)
  IN [lote |-> p, grupo |-> g, filas |-> fs,
      receptor |-> Registros[archivoDe[p]][Min(fs)][<<"rnc_receptor">>]]

\* crearFactura returns.
EmitirGrupo(p) ==
  /\ restantesLote[p] # {}
  /\ LET g == GrupoSiguiente(archivoDe[p], restantesLote[p])
     IN /\ emitidasLote' = emitidasLote \union {FacturaDe(p, g)}
        /\ aciertos' = [aciertos EXCEPT ![p] = @ \union {g}]
        /\ restantesLote' = [restantesLote EXCEPT ![p] = @ \ {g}]
  /\ UNCHANGED <<paginaVars, archivoDe, fracasos, sinRespuesta, fallosLote, perdidasLote>>

\* It throws, before or after the row of the invoice was saved; the batch goes on.
FallarGrupo(p) ==
  /\ restantesLote[p] # {}
  /\ fallosLote < MaxFallosLote
  /\ fallosLote' = fallosLote + 1
  /\ LET g == GrupoSiguiente(archivoDe[p], restantesLote[p])
     IN /\ \/ UNCHANGED emitidasLote
           \/ emitidasLote' = emitidasLote \union {FacturaDe(p, g)}
        /\ fracasos' = [fracasos EXCEPT ![p] = @ \union {g}]
        /\ restantesLote' = [restantesLote EXCEPT ![p] = @ \ {g}]
  /\ UNCHANGED <<paginaVars, archivoDe, aciertos, sinRespuesta, perdidasLote>>

-----------------------------------------------------------------------------
(* The page                                                                *)

\* handleFileChange
Elegir(a) ==
  /\ elecciones[a] < MaxElecciones
  /\ archivo' = a
  /\ preview' = SinArchivo
  /\ resultadoLote' = FALSE
  /\ elecciones' = [elecciones EXCEPT ![a] = @ + 1]
  /\ UNCHANGED <<validados, emitiendo, loteVars, fallosLote, emitidasLote, perdidasLote>>

\* handleReset
ReiniciarPagina ==
  /\ resultadoLote
  /\ archivo' = SinArchivo
  /\ preview' = SinArchivo
  /\ resultadoLote' = FALSE
  /\ UNCHANGED <<validados, emitiendo, elecciones, loteVars, fallosLote, emitidasLote,
                 perdidasLote>>

\* handleValidar up to its POST; the button stays disabled until the answer.
PedirValidacion ==
  /\ archivo # SinArchivo /\ ~resultadoLote
  /\ validados = {}
  /\ validados' = {archivo}
  /\ preview' = SinArchivo
  /\ UNCHANGED <<archivo, emitiendo, resultadoLote, elecciones, loteVars, fallosLote,
                 emitidasLote, perdidasLote>>

\* The answer of validarArchivo is shown, for whatever file it was; or an error.
MostrarValidacion(a) ==
  /\ a \in validados
  /\ validados' = {}
  /\ preview' \in {a, preview}
  /\ UNCHANGED <<archivo, emitiendo, resultadoLote, elecciones, loteVars, fallosLote,
                 emitidasLote, perdidasLote>>

\* Mutant: the result of a batch does not hide the button.
BotonSinResultado == archivo # SinArchivo /\ preview # SinArchivo /\ ~emitiendo

\* The button is shown while there is a validation with valid rows and no result.
BotonEmitir ==
  /\ archivo # SinArchivo /\ ~resultadoLote
  /\ preview # SinArchivo /\ FilasValidas[preview] # {}
  /\ ~emitiendo

\* handleEmitir up to its POST: emitirLote validates the file again and begins.
PedirEmision(p) ==
  /\ archivoDe[p] = SinArchivo
  /\ BotonEmitir
  /\ archivoDe' = [archivoDe EXCEPT ![p] = archivo]
  /\ restantesLote' = [restantesLote EXCEPT ![p] = Grupos(archivo)]
  /\ emitiendo' = TRUE
  /\ sinRespuesta' = sinRespuesta \union {p}
  /\ UNCHANGED <<archivo, validados, preview, resultadoLote, elecciones, aciertos, fracasos,
                 fallosLote, emitidasLote, perdidasLote>>

\* The report of the batch, or the 400 of a file without valid rows.
MostrarResultado(p) ==
  /\ p \in sinRespuesta
  /\ restantesLote[p] = {}
  /\ sinRespuesta' = sinRespuesta \ {p}
  /\ emitiendo' = FALSE
  /\ IF Grupos(archivoDe[p]) = {}
     THEN UNCHANGED <<resultadoLote, preview>>
     ELSE resultadoLote' = TRUE /\ preview' = SinArchivo
  /\ UNCHANGED <<archivo, validados, elecciones, archivoDe, restantesLote, aciertos, fracasos,
                 fallosLote, emitidasLote, perdidasLote>>

\* The connection breaks while the server goes on with the batch.
PerderRespuesta(p) ==
  /\ p \in sinRespuesta
  /\ fallosLote < MaxFallosLote
  /\ fallosLote' = fallosLote + 1
  /\ sinRespuesta' = sinRespuesta \ {p}
  /\ emitiendo' = FALSE
  /\ perdidasLote' = [perdidasLote EXCEPT ![archivoDe[p]] = @ + 1]
  /\ UNCHANGED <<archivo, validados, preview, resultadoLote, elecciones, archivoDe,
                 restantesLote, aciertos, fracasos, emitidasLote>>

NextLotes ==
  \/ \E p \in Cargas : \/ EmitirGrupo(p) \/ FallarGrupo(p)
                      \/ PedirEmision(p) \/ MostrarResultado(p) \/ PerderRespuesta(p)
  \/ \E a \in Archivos : Elegir(a) \/ MostrarValidacion(a)
  \/ ReiniciarPagina \/ PedirValidacion

SpecLotes == InitLotes /\ [][NextLotes]_lotesVars

-----------------------------------------------------------------------------
(* Properties                                                              *)

TypeOKLotes ==
  /\ archivo \in Archivos \union {SinArchivo}
  /\ validados \subseteq Archivos
  /\ preview \in Archivos \union {SinArchivo}
  /\ emitiendo \in BOOLEAN /\ resultadoLote \in BOOLEAN
  /\ archivoDe \in [Cargas -> Archivos \union {SinArchivo}]
  /\ sinRespuesta \subseteq Cargas
  /\ fallosLote \in Nat
  /\ elecciones \in [Archivos -> Nat]
  /\ perdidasLote \in [Archivos -> Nat]

Facturas(a, g) == {f \in emitidasLote : archivoDe[f.lote] = a /\ f.grupo = g}

\* A group of a file has one invoice for each time the user chose the file and for each
\* answer that was lost, and no more: the page does not let a batch that was reported be
\* issued again, whatever validations and answers arrive when another file is chosen.
\* A batch that ended reported every group that has an invoice, once, and if nothing
\* failed every valid row of the file is in its invoices, once.
SinRepetir ==
  /\ \A a \in Archivos : \A f \in emitidasLote :
       Cardinality(Facturas(a, f.grupo)) <= elecciones[a] + perdidasLote[a]
  /\ \A f \in emitidasLote : f.grupo \in aciertos[f.lote] \union fracasos[f.lote]
  /\ \A p \in Cargas :
       /\ aciertos[p] \intersect fracasos[p] = {}
       /\ archivoDe[p] # SinArchivo /\ restantesLote[p] = {} /\ fracasos[p] = {} =>
            \A i \in FilasValidas[archivoDe[p]] :
              Cardinality({f \in emitidasLote : f.lote = p /\ i \in f.filas}) = 1
=============================================================================
