------------------------------ MODULE EsquemaXsd ------------------------------
(***************************************************************************)
(* The XSD the XML of the invoices is compared with.  An operator replaces *)
(* the file while the server runs; ConversorXmlService reads it when it    *)
(* starts and looks at it again every XSD_POLL_INTERVAL_MS.                *)
(*                                                                         *)
(* A file is emptied and then written in one go, by another process, so it *)
(* may change between the statSync and the readFileSync of one load.  The  *)
(* version of the schema is the mtime of the load, unless the name of the  *)
(* file gives it.                                                          *)
(***************************************************************************)
EXTENDS Naturals

CONSTANTS
  Esquemas,      \* contents validarContenidoXsd accepts
  OtrosXml,      \* contents it refuses
  MaxEscrituras, \* bound: times the operator writes the file
  MaxArranques,  \* bound: restarts of the server
  Vacia,         \* the file is there, with nothing in it
  SinXsd         \* no file, no schema, nothing to write

ASSUME EsquemaAssumption ==
  /\ MaxEscrituras \in Nat /\ MaxArranques \in Nat
  /\ Esquemas \intersect (OtrosXml \union {Vacia, SinXsd}) = {}

VARIABLES
  disco,         \* content of the file
  mtime,         \* its mtime
  porEscribir,   \* what the operator is about to write
  escrituras,
  xsdContent,
  xsdLastModified,
  leyendo,       \* mtime that the load in progress took, 0 between loads
  arranques

discoVars == <<disco, mtime, porEscribir, escrituras>>
xsdVars == <<xsdContent, xsdLastModified, leyendo>>
esquemaVars == <<discoVars, xsdVars, arranques>>

InitEsquema ==
  /\ disco \in Esquemas \union OtrosXml \union {SinXsd}
  /\ mtime = 1
  /\ porEscribir = SinXsd
  /\ escrituras = 0
  /\ xsdContent = SinXsd /\ xsdLastModified = 0
  /\ leyendo = 0
  /\ arranques = 0

-----------------------------------------------------------------------------
(* The operator                                                            *)

Vaciar(c) ==
  /\ porEscribir = SinXsd
  /\ escrituras < MaxEscrituras
  /\ escrituras' = escrituras + 1
  /\ disco' = Vacia /\ mtime' = mtime + 1
  /\ porEscribir' = c
  /\ UNCHANGED <<xsdVars, arranques>>

\* The clock of the file system may not have moved since the file was emptied.
Escribir ==
  /\ porEscribir # SinXsd
  /\ disco' = porEscribir
  /\ mtime' \in {mtime, mtime + 1}
  /\ porEscribir' = SinXsd
  /\ UNCHANGED <<escrituras, xsdVars, arranques>>

Suprimir ==
  /\ porEscribir = SinXsd /\ disco # SinXsd
  /\ escrituras < MaxEscrituras
  /\ escrituras' = escrituras + 1
  /\ disco' = SinXsd
  /\ UNCHANGED <<mtime, porEscribir, xsdVars, arranques>>

-----------------------------------------------------------------------------
(* ConversorXmlService                                                     *)

Cambiado == mtime # xsdLastModified \/ xsdContent = SinXsd

\* cargarEsquema and recargarEsquema up to statSync.
MirarEsquema ==
  /\ leyendo = 0
  /\ disco # SinXsd
  /\ Cambiado
  /\ leyendo' = mtime
  /\ UNCHANGED <<discoVars, xsdContent, xsdLastModified, arranques>>

\* validarContenidoXsd
Valido(c) == c \in Esquemas

\* Mutant: the mtime is noted before the content is validated.
AnotadaSiempre == leyendo

FechaAnotada == IF Valido(disco) THEN leyendo ELSE xsdLastModified

\* readFileSync and the rest; a file that is not there any more, or is not a schema,
\* leaves what was loaded.
CargarEsquema ==
  /\ leyendo # 0
  /\ xsdContent' = IF Valido(disco) THEN disco ELSE xsdContent
  /\ xsdLastModified' = FechaAnotada
  /\ leyendo' = 0
  /\ UNCHANGED <<discoVars, arranques>>

\* onModuleDestroy, and onModuleInit of the next process.
ReiniciarConversor ==
  /\ arranques < MaxArranques
  /\ arranques' = arranques + 1
  /\ xsdContent' = SinXsd /\ xsdLastModified' = 0
  /\ leyendo' = 0
  /\ UNCHANGED discoVars

NextEsquema ==
  \/ \E c \in Esquemas \union OtrosXml : Vaciar(c)
  \/ Escribir \/ Suprimir
  \/ MirarEsquema \/ CargarEsquema \/ ReiniciarConversor

\* The timer of iniciarPolling keeps looking.
JusticiaEsquema == WF_esquemaVars(MirarEsquema) /\ WF_esquemaVars(CargarEsquema)

-----------------------------------------------------------------------------
(* Properties                                                              *)

TypeOKEsquema ==
  /\ disco \in Esquemas \union OtrosXml \union {Vacia, SinXsd}
  /\ mtime \in Nat
  /\ porEscribir \in Esquemas \union OtrosXml \union {SinXsd}
  /\ xsdContent \in Esquemas \union {SinXsd}
  /\ xsdLastModified \in 0 .. mtime /\ leyendo \in 0 .. mtime
  /\ escrituras \in Nat /\ arranques \in Nat

\* A schema that is in the file and not in use is seen by the next poll: no load, whatever
\* it read between two writes of the same mtime, hides it.
CambioNotado == disco \in Esquemas /\ disco # xsdContent => Cambiado

\* A schema that stays in the file is in the end the one in use, whatever the polls read
\* while it was being written, and stays so: a load that took one mtime and read the
\* content of another, or an empty file, is repaired by a later one.
EsquemaVigente ==
  \A c \in Esquemas : <>[](disco = c) => <>[](xsdContent = c)
=============================================================================
