------------------------------- MODULE Recibidas ------------------------------
(***************************************************************************)
(* The invoices a company receives and the commercial approval it sends    *)
(* for them (FacturasRecibidasService, RecepcionController).  Every row is *)
(* on its own: the table has no key but its id, so what arrives twice is   *)
(* two rows.                                                               *)
(*                                                                         *)
(* aprobar and rechazar read the row in whatever state it is, wait for the *)
(* DGII (up to 50 s) and save the row they read: save re-reads the row and *)
(* writes the columns on which both differ.                                *)
(***************************************************************************)
EXTENDS Naturals

CONSTANTS
  Recibos,       \* rows of facturas_recibidas
  Decisiones,    \* calls of aprobar and rechazar
  SinRecibo, SinTrack

Sentidos == {"aprobada", "rechazada"}

FilaRecibida == [estado : Sentidos \union {"pendiente"}, motivo : BOOLEAN,
                 track : Decisiones \union {SinTrack}]

ASSUME RecibidasAssumption ==
  SinRecibo \notin FilaRecibida \union Recibos /\ SinTrack \notin Decisiones

VARIABLES
  recibida,      \* recibida[r]: [estado_aprobacion, motivo_rechazo, track_id_aprobacion]
  pasoDecision,  \* pasoDecision[c]: where the call is
  reciboDe,      \* reciboDe[c]: its row
  sentido,       \* sentido[c]: "aprobada" for aprobar, "rechazada" for rechazar
  copiaRecibida, \* copiaRecibida[c]: the row in memory
  porGrabar,     \* porGrabar[c]: the columns save has decided to write
  acusada,       \* history: acusada[r]: the last decision the DGII confirmed
  revueltas      \* history: rows of calls that overlapped or ended after the DGII's answer

decisionVars == <<pasoDecision, reciboDe, sentido, copiaRecibida, porGrabar>>
recibidaVars == <<recibida, decisionVars, acusada, revueltas>>

InitRecibidas ==
  /\ recibida = [r \in Recibos |-> SinRecibo]
  /\ pasoDecision = [c \in Decisiones |-> "reposo"]
  /\ reciboDe = [c \in Decisiones |-> SinRecibo]
  /\ sentido = [c \in Decisiones |-> "aprobada"]
  /\ copiaRecibida = [c \in Decisiones |-> SinRecibo]
  /\ porGrabar = [c \in Decisiones |-> {}]
  /\ acusada = [r \in Recibos |-> "pendiente"]
  /\ revueltas = {}

PasarDecision(c, p) == pasoDecision' = [pasoDecision EXCEPT ![c] = p]

Decidiendo(c) == pasoDecision[c] \notin {"reposo", "fin"}

\* registrar, or recibirEcf for a buyer that is a company of the system.
Recibir(r) ==
  /\ recibida[r] = SinRecibo
  /\ recibida' = [recibida EXCEPT
                    ![r] = [estado |-> "pendiente", motivo |-> FALSE, track |-> SinTrack]]
  /\ UNCHANGED <<decisionVars, acusada, revueltas>>

LeerRecibida(c, r, s) ==
  /\ pasoDecision[c] = "reposo"
  /\ recibida[r] # SinRecibo
  /\ reciboDe' = [reciboDe EXCEPT ![c] = r]
  /\ sentido' = [sentido EXCEPT ![c] = s]
  /\ copiaRecibida' = [copiaRecibida EXCEPT ![c] = recibida[r]]
  /\ revueltas' = IF \E x \in Decisiones : Decidiendo(x) /\ reciboDe[x] = r
                  THEN revueltas \union {r} ELSE revueltas
  /\ PasarDecision(c, "enviar")
  /\ UNCHANGED <<recibida, porGrabar, acusada>>

\* The row in memory once the DGII has confirmed: an approval keeps the old reason.
Decidida(fila, c) ==
  [estado |-> sentido[c], motivo |-> fila.motivo \/ sentido[c] = "rechazada", track |-> c]

\* The answer of the DGII to the ACECF is 2xx.
Confirmar(c) ==
  /\ pasoDecision[c] = "enviar"
  /\ copiaRecibida' = [copiaRecibida EXCEPT ![c] = Decidida(@, c)]
  /\ acusada' = [acusada EXCEPT ![reciboDe[c]] = sentido[c]]
  /\ PasarDecision(c, "grabar")
  /\ UNCHANGED <<recibida, reciboDe, sentido, porGrabar, revueltas>>

\* Mutant: exito is not looked at.
GrabaIgual == "grabar"

TrasRechazo == "fin"

\* The answer is a 4xx: exito is false and the call ends with 422.
RechazarAcuse(c) ==
  /\ pasoDecision[c] = "enviar"
  /\ copiaRecibida' = [copiaRecibida EXCEPT ![c] = IF TrasRechazo = "fin" THEN @
                                                   ELSE Decidida(@, c)]
  /\ PasarDecision(c, TrasRechazo)
  /\ UNCHANGED <<recibida, reciboDe, sentido, porGrabar, acusada, revueltas>>

CompararRecibida(c) ==
  LET fila == recibida[reciboDe[c]]
  IN /\ pasoDecision[c] = "grabar"
     /\ porGrabar' = [porGrabar EXCEPT
                        ![c] = {k \in DOMAIN fila : fila[k] # copiaRecibida[c][k]}]
     /\ PasarDecision(c, "comparada")
     /\ UNCHANGED <<recibida, reciboDe, sentido, copiaRecibida, acusada, revueltas>>

EscribirRecibida(c) ==
  /\ pasoDecision[c] = "comparada"
  /\ recibida' = [recibida EXCEPT
                    ![reciboDe[c]] = [k \in DOMAIN @ |-> IF k \in porGrabar[c]
                                                         THEN copiaRecibida[c][k] ELSE @[k]]]
  /\ PasarDecision(c, "fin")
  /\ UNCHANGED <<reciboDe, sentido, copiaRecibida, porGrabar, acusada, revueltas>>

\* No token, no answer, a 5xx, an open circuit breaker, an error of the database or a
\* stop of the server; the DGII may have confirmed an ACECF whose answer is lost.
InterrumpirDecision(c) ==
  /\ Decidiendo(c)
  /\ \/ pasoDecision[c] = "enviar" /\ UNCHANGED <<acusada, revueltas>>
     \/ /\ acusada' = [acusada EXCEPT ![reciboDe[c]] = sentido[c]]
        /\ revueltas' = revueltas \union {reciboDe[c]}
  /\ PasarDecision(c, "fin")
  /\ UNCHANGED <<recibida, reciboDe, sentido, copiaRecibida, porGrabar>>

NextRecibidas ==
  \/ \E r \in Recibos : Recibir(r)
  \/ \E c \in Decisiones :
       \/ \E r \in Recibos, s \in Sentidos : LeerRecibida(c, r, s)
       \/ Confirmar(c) \/ RechazarAcuse(c) \/ CompararRecibida(c) \/ EscribirRecibida(c)
       \/ InterrumpirDecision(c)

SpecRecibidas == InitRecibidas /\ [][NextRecibidas]_recibidaVars

-----------------------------------------------------------------------------
(* Properties                                                              *)

TypeOKRecibidas ==
  /\ recibida \in [Recibos -> FilaRecibida \union {SinRecibo}]
  /\ pasoDecision \in [Decisiones -> {"reposo", "enviar", "grabar", "comparada", "fin"}]
  /\ reciboDe \in [Decisiones -> Recibos \union {SinRecibo}]
  /\ sentido \in [Decisiones -> Sentidos]
  /\ copiaRecibida \in [Decisiones -> FilaRecibida \union {SinRecibo}]
  /\ porGrabar \in [Decisiones -> SUBSET {"estado", "motivo", "track"}]
  /\ acusada \in [Recibos -> Sentidos \union {"pendiente"}]
  /\ revueltas \subseteq Recibos

\* Between calls a row says what the company last told the DGII about it, and its
\* track id is of a call of that kind, however often it changed its mind; only calls
\* that overlapped, or that ended before their save, can leave it otherwise.
DecisionRespaldada ==
  \A r \in Recibos \ revueltas :
    recibida[r] # SinRecibo /\ (\A c \in Decisiones : Decidiendo(c) => reciboDe[c] # r) =>
      /\ recibida[r].estado = acusada[r]
      /\ recibida[r].estado # "pendiente" => sentido[recibida[r].track] = acusada[r]
=============================================================================
