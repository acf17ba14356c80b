---------------------------- MODULE CicloFactura -----------------------------
(***************************************************************************)
(* The life of an electronic invoice in the gateway as it is deployed:     *)
(* FacturasService.crearFactura with TransmisionService.transmitir, the    *)
(* cycles of EstadoPollingService, POST :id/anular with AnulacionService,  *)
(* step 12 of the certification set, and restarts of the server.           *)
(*                                                                         *)
(* The DGII is external: it receives, resolves and annuls documents, and   *)
(* any call to it may fail before it arrives (token, circuit breaker,      *)
(* network, 5xx) or lose its answer (30 s timeout, 5xx).  No module of the *)
(* program provides RETRY_QUEUE_SERVICE, so the queue that transmitir asks *)
(* for is always null and encolarReintento throws.                         *)
(***************************************************************************)
EXTENDS Naturals, Sequences

CONSTANTS
  Facturas,      \* POST /facturas requests, and the invoice each one creates
  DePrueba,      \* those made by the certification test set
  Ciclos,        \* polling cycles: @Interval starts one although another still runs
  Anulaciones,   \* POST :id/anular requests in flight
  Nulo

ASSUME DePruebaAssumption == DePrueba \subseteq Facturas

Estados == {"ENVIADO", "ACEPTADO", "RECHAZADO", "REINTENTANDO", "APROBADO",
            "RECHAZADO_DEFINITIVO", "ANULADO"}

ASSUME NuloAssumption == Nulo \notin Estados /\ Nulo \notin Facturas

Eventos == {"factura_aceptada", "factura_rechazada"}

VARIABLES
  estado,        \* estado[f]: column estado_dgii; Nulo while the row does not exist
  track,         \* track[f]: column track_id is not null
  conXml,        \* invoices whose column xml_s3_url is not null
  fase,          \* fase[f]: where crearFactura is
  resultado,     \* resultado[f]: [estado, track] that transmitir returned or the catch built
  dgii,          \* dgii[f]: what the DGII has done with the document
  rezagadas,     \* invoices with a message to the DGII given up that may still arrive
  pasoC,         \* pasoC[c]: where the polling cycle is
  pendientes,    \* pendientes[c]: invoices of its list not consulted yet
  consultada,    \* consultada[c]: the invoice whose answer it holds
  veredicto,     \* veredicto[c]: the terminal state in that answer
  pasoA,         \* pasoA[a]: where the annulment is
  objetivo,      \* objetivo[a]: the invoice being annulled
  exito,         \* exito[a]: the DGII confirmed
  avisos,        \* avisos[f]: webhook events fired for f, in order
  auditadas      \* invoices with a factura_anulada entry in the audit log

tablaVars == <<estado, track, conXml>>
emisionVars == <<fase, resultado>>
cicloVars == <<pasoC, pendientes, consultada, veredicto>>
anulacionVars == <<pasoA, objetivo, exito>>
registroVars == <<avisos, auditadas>>
dgiiVars == <<dgii, rezagadas>>
vars == <<tablaVars, emisionVars, dgiiVars, cicloVars, anulacionVars, registroVars>>

Vivas == {"nueva", "guardada", "subida", "renovada", "en_dgii", "resuelta"}
Fases == Vivas \union {"respondida", "rechazada", "fallida", "caida"}

\* What transmitir can tell crearFactura; a call that throws is turned by the
\* catch of crearFactura into the last one.
Aceptado(conTrack) == [estado |-> "ACEPTADO", track |-> conTrack]
Rechazado == [estado |-> "RECHAZADO", track |-> FALSE]
Reintentando == [estado |-> "REINTENTANDO", track |-> FALSE]

Resultados == [estado : {"ACEPTADO", "RECHAZADO", "REINTENTANDO"}, track : BOOLEAN]

-----------------------------------------------------------------------------
Init ==
  /\ estado = [f \in Facturas |-> Nulo]
  /\ track = [f \in Facturas |-> FALSE]
  /\ conXml = {}
  /\ fase = [f \in Facturas |-> "nueva"]
  /\ resultado = [f \in Facturas |-> Reintentando]
  /\ dgii = [f \in Facturas |-> "sin_recibir"]
  /\ rezagadas = {}
  /\ pasoC = [c \in Ciclos |-> "reposo"]
  /\ pendientes = [c \in Ciclos |-> {}]
  /\ consultada = [c \in Ciclos |-> Nulo]
  /\ veredicto = [c \in Ciclos |-> Nulo]
  /\ pasoA = [a \in Anulaciones |-> "reposo"]
  /\ objetivo = [a \in Anulaciones |-> Nulo]
  /\ exito = [a \in Anulaciones |-> FALSE]
  /\ avisos = [f \in Facturas |-> <<>>]
  /\ auditadas = {}

-----------------------------------------------------------------------------
(* crearFactura and transmitir                                             *)

PasarA(f, siguiente) == fase' = [fase EXCEPT ![f] = siguiente]

\* 403, 400, 409 or 429 before anything is saved.
Rechazar(f) ==
  /\ fase[f] = "nueva"
  /\ PasarA(f, "rechazada")
  /\ UNCHANGED <<tablaVars, resultado, dgiiVars, cicloVars, anulacionVars, registroVars>>

Guardar(f) ==
  /\ fase[f] = "nueva"
  /\ PasarA(f, "guardada")
  /\ estado' = [estado EXCEPT ![f] = "ENVIADO"]
  /\ UNCHANGED <<track, conXml, resultado, dgiiVars, cicloVars, anulacionVars, registroVars>>

\* XML, signature, upload and the second save; the row keeps estado ENVIADO.
Subir(f) ==
  /\ fase[f] = "guardada"
  /\ PasarA(f, "subida")
  /\ conXml' = conXml \union {f}
  /\ UNCHANGED <<estado, track, resultado, dgiiVars, cicloVars, anulacionVars, registroVars>>

\* An exception outside the try: an invalid XML, no certificate, the storage, or
\* the database at either save.  Nothing undoes what was saved before.
Fallar(f) ==
  /\ fase[f] \in {"guardada", "resuelta"}
  /\ PasarA(f, "fallida")
  /\ UNCHANGED <<tablaVars, resultado, dgiiVars, cicloVars, anulacionVars, registroVars>>

\* The first 401: the cached token is deleted and the transmission tried again.
Renovar(f) ==
  /\ fase[f] = "subida"
  /\ PasarA(f, "renovada")
  /\ UNCHANGED <<tablaVars, resultado, dgiiVars, cicloVars, anulacionVars, registroVars>>

Resolucion(f, r) ==
  /\ PasarA(f, "resuelta")
  /\ resultado' = [resultado EXCEPT ![f] = r]
  /\ UNCHANGED <<tablaVars, dgii, cicloVars, anulacionVars, registroVars>>

\* Token, breaker, network, 5xx or a second 401: the document has not arrived.  The
\* fetch given up after 30 s is aborted, but what was already sent may still arrive.
NoSale(f) ==
  /\ fase[f] \in {"subida", "renovada"}
  /\ Resolucion(f, Reintentando)
  /\ rezagadas' \in {rezagadas, rezagadas \union {f}}

\* The document arrives and the DGII takes it or refuses it.
Llega(f) ==
  /\ fase[f] \in {"subida", "renovada"}
  /\ PasarA(f, "en_dgii")
  /\ \E d \in {"recibida", "rechazada"} : dgii' = [dgii EXCEPT ![f] = d]
  /\ UNCHANGED <<tablaVars, resultado, rezagadas, cicloVars, anulacionVars, registroVars>>

\* A 2xx whose body may hold no TrackId, or a 4xx.
Contesta(f) ==
  /\ fase[f] = "en_dgii"
  /\ IF dgii[f] = "rechazada"
     THEN Resolucion(f, Rechazado)
     ELSE \E conTrack \in BOOLEAN : Resolucion(f, Aceptado(conTrack))
  /\ UNCHANGED rezagadas

\* Mutant: a lost answer is taken for a rejection.
SeCortaEsRechazo(f) ==
  /\ fase[f] = "en_dgii"
  /\ Resolucion(f, Rechazado)
  /\ UNCHANGED rezagadas

\* The answer does not arrive in 30 s, or is a 5xx.
SeCorta(f) ==
  /\ fase[f] = "en_dgii"
  /\ Resolucion(f, Reintentando)
  /\ UNCHANGED rezagadas

GuardarResultado(f) ==
  /\ fase[f] = "resuelta"
  /\ PasarA(f, "respondida")
  /\ estado' = [estado EXCEPT ![f] = resultado[f].estado]
  /\ track' = [track EXCEPT ![f] = resultado[f].track]
  /\ UNCHANGED <<conXml, resultado, dgiiVars, cicloVars, anulacionVars, registroVars>>

-----------------------------------------------------------------------------
(* The DGII                                                                *)

\* What becomes of a document in state d when the message given up arrives.
Tardios(d) ==
  IF d = "sin_recibir" THEN {"recibida", "rechazada"}
  ELSE IF d = "aprobada" THEN {"anulada"} ELSE {}

\* The DGII ends its validation of a document it received.
Resolver(f) ==
  /\ dgii[f] = "recibida"
  /\ \E d \in {"aprobada", "rechazada_def"} : dgii' = [dgii EXCEPT ![f] = d]
  /\ UNCHANGED <<tablaVars, emisionVars, rezagadas, cicloVars, anulacionVars, registroVars>>

\* A document or an annulment that the gateway gave up arrives after all.
LlegarTarde(f) ==
  /\ f \in rezagadas
  /\ \E d \in Tardios(dgii[f]) : dgii' = [dgii EXCEPT ![f] = d]
  /\ rezagadas' = rezagadas \ {f}
  /\ UNCHANGED <<tablaVars, emisionVars, cicloVars, anulacionVars, registroVars>>

-----------------------------------------------------------------------------
(* EstadoPollingService                                                    *)

\* Mutant: the list is not filtered by estado.
ConsultablesTodas == {f \in Facturas : track[f]}

Consultables == {f \in Facturas : estado[f] = "ACEPTADO" /\ track[f]}

Iniciar(c) ==
  /\ pasoC[c] = "reposo"
  /\ Consultables # {}
  /\ pendientes' = [pendientes EXCEPT ![c] = Consultables]
  /\ pasoC' = [pasoC EXCEPT ![c] = "recorriendo"]
  /\ UNCHANGED <<tablaVars, emisionVars, dgiiVars, consultada, veredicto, anulacionVars,
                 registroVars>>

\* Mutant: the loop never notices that its list is empty.
PasoSinFin(c, f) == "recorriendo"

\* Where the loop is once it is done with f.
PasoTras(c, f) == IF pendientes[c] \subseteq {f} THEN "reposo" ELSE "recorriendo"

Seguir(c, f) ==
  /\ pendientes' = [pendientes EXCEPT ![c] = @ \ {f}]
  /\ pasoC' = [pasoC EXCEPT ![c] = PasoTras(c, f)]

\* Breaker, token, network, 4xx, or an answer that is not terminal.
SinCambio(c, f) ==
  /\ pasoC[c] = "recorriendo"
  /\ f \in pendientes[c]
  /\ Seguir(c, f)
  /\ UNCHANGED <<tablaVars, emisionVars, dgiiVars, consultada, veredicto, anulacionVars,
                 registroVars>>

\* Mutant: every 2xx counts as an approval.
VeredictoDeTodo(f) == "APROBADO"

VeredictoDgii(f) == IF dgii[f] = "aprobada" THEN "APROBADO" ELSE "RECHAZADO_DEFINITIVO"

\* A terminal answer; parseStatusResponse knows no other two.
Consultar(c, f) ==
  /\ pasoC[c] = "recorriendo"
  /\ f \in pendientes[c]
  /\ dgii[f] \in {"aprobada", "rechazada_def"}
  /\ consultada' = [consultada EXCEPT ![c] = f]
  /\ veredicto' = [veredicto EXCEPT ![c] = VeredictoDgii(f)]
  /\ pasoC' = [pasoC EXCEPT ![c] = "contestada"]
  /\ UNCHANGED <<tablaVars, emisionVars, dgiiVars, pendientes, anulacionVars, registroVars>>

\* update by id: the row is not read again, nor its estado compared.
ActualizarEstadoTerminal(c) ==
  /\ pasoC[c] = "contestada"
  /\ estado' = [estado EXCEPT ![consultada[c]] = veredicto[c]]
  /\ pasoC' = [pasoC EXCEPT ![c] = "actualizada"]
  /\ UNCHANGED <<track, conXml, emisionVars, dgiiVars, pendientes, consultada, veredicto,
                 anulacionVars, registroVars>>

\* The update fails; the error is logged and the loop goes on.
FallarActualizacion(c) ==
  /\ pasoC[c] = "contestada"
  /\ Seguir(c, consultada[c])
  /\ UNCHANGED <<tablaVars, emisionVars, dgiiVars, consultada, veredicto, anulacionVars,
                 registroVars>>

Evento(v) == IF v = "APROBADO" THEN "factura_aceptada" ELSE "factura_rechazada"

\* The webhook is fired; an error of disparar is logged and nothing is fired.
Disparar(c) ==
  /\ pasoC[c] = "actualizada"
  /\ \/ avisos' = [avisos EXCEPT ![consultada[c]] = Append(@, Evento(veredicto[c]))]
     \/ UNCHANGED avisos
  /\ Seguir(c, consultada[c])
  /\ UNCHANGED <<tablaVars, emisionVars, dgiiVars, consultada, veredicto, anulacionVars,
                 auditadas>>

-----------------------------------------------------------------------------
(* POST :id/anular                                                         *)

PasarAnulacion(a, siguiente) == pasoA' = [pasoA EXCEPT ![a] = siguiente]

\* 409 unless the row read is APROBADO.
LeerAprobada(a, f) ==
  /\ pasoA[a] = "reposo"
  /\ estado[f] = "APROBADO"
  /\ PasarAnulacion(a, "leida")
  /\ objetivo' = [objetivo EXCEPT ![a] = f]
  /\ exito' = [exito EXCEPT ![a] = FALSE]
  /\ UNCHANGED <<tablaVars, emisionVars, dgiiVars, cicloVars, registroVars>>

\* The DGII annuls the invoice, or answers 4xx.
EnviarAnulacion(a) ==
  /\ pasoA[a] = "leida"
  /\ PasarAnulacion(a, "esperando")
  /\ \/ /\ dgii[objetivo[a]] = "aprobada"
        /\ dgii' = [dgii EXCEPT ![objetivo[a]] = "anulada"]
        /\ exito' = [exito EXCEPT ![a] = TRUE]
     \/ UNCHANGED <<dgii, exito>>
  /\ UNCHANGED <<tablaVars, emisionVars, rezagadas, cicloVars, objetivo, registroVars>>

\* Mutant: a 4xx is not told apart from a confirmation.
AnulacionSinComprobar(a) == TRUE

Confirmada(a) == exito[a]

\* 422 when the DGII did not confirm.
ContestaAnulacion(a) ==
  /\ pasoA[a] = "esperando"
  /\ PasarAnulacion(a, IF Confirmada(a) THEN "confirmada" ELSE "reposo")
  /\ UNCHANGED <<tablaVars, emisionVars, dgiiVars, cicloVars, objetivo, exito, registroVars>>

\* actualizarEstadoAnulado: update by id, unconditional.
ActualizarEstadoAnulado(a) ==
  /\ pasoA[a] = "confirmada"
  /\ PasarAnulacion(a, "anulada")
  /\ estado' = [estado EXCEPT ![objetivo[a]] = "ANULADO"]
  /\ UNCHANGED <<track, conXml, emisionVars, dgiiVars, cicloVars, objetivo, exito, registroVars>>

RegistrarAuditoria(a) ==
  /\ pasoA[a] = "anulada"
  /\ PasarAnulacion(a, "reposo")
  /\ auditadas' = auditadas \union {objetivo[a]}
  /\ UNCHANGED <<tablaVars, emisionVars, dgiiVars, cicloVars, objetivo, exito, avisos>>

\* 500: the call failed (it may still arrive) or lost its answer, or the database failed.
AbortarAnulacion(a) ==
  /\ pasoA[a] # "reposo"
  /\ PasarAnulacion(a, "reposo")
  /\ \/ UNCHANGED rezagadas
     \/ pasoA[a] = "leida" /\ rezagadas' = rezagadas \union {objetivo[a]}
  /\ UNCHANGED <<tablaVars, emisionVars, dgii, cicloVars, objetivo, exito, registroVars>>

\* Step 12 of the certification set marks its invoice without asking the DGII.
AnularDePrueba(f) ==
  /\ f \in DePrueba
  /\ estado[f] = "APROBADO"
  /\ estado' = [estado EXCEPT ![f] = "ANULADO"]
  /\ UNCHANGED <<track, conXml, emisionVars, dgiiVars, cicloVars, anulacionVars, registroVars>>

-----------------------------------------------------------------------------
\* Invoices with a message that may be on its way.
Saliendo ==
  {f \in Facturas : fase[f] \in {"subida", "renovada"}} \union
  {objetivo[a] : a \in {b \in Anulaciones : pasoA[b] = "leida"}}

\* The server stops: requests and cycles in flight are lost, the table is not.
Caer ==
  /\ fase' = [f \in Facturas |-> IF fase[f] \in Vivas \ {"nueva"} THEN "caida" ELSE fase[f]]
  /\ pasoC' = [c \in Ciclos |-> "reposo"]
  /\ pendientes' = [c \in Ciclos |-> {}]
  /\ pasoA' = [a \in Anulaciones |-> "reposo"]
  /\ \E salieron \in SUBSET Saliendo : rezagadas' = rezagadas \union salieron
  /\ UNCHANGED <<tablaVars, resultado, dgii, consultada, veredicto, objetivo, exito,
                 registroVars>>

Emitir(f) ==
  \/ Rechazar(f) \/ Guardar(f) \/ Subir(f) \/ Fallar(f) \/ Renovar(f) \/ NoSale(f)
  \/ Llega(f) \/ Contesta(f) \/ SeCorta(f) \/ GuardarResultado(f)

Recorrer(c) ==
  \/ Iniciar(c)
  \/ \E f \in Facturas : SinCambio(c, f) \/ Consultar(c, f)
  \/ ActualizarEstadoTerminal(c) \/ FallarActualizacion(c) \/ Disparar(c)

Anular(a) ==
  \/ \E f \in Facturas : LeerAprobada(a, f)
  \/ EnviarAnulacion(a) \/ ContestaAnulacion(a) \/ ActualizarEstadoAnulado(a)
  \/ RegistrarAuditoria(a) \/ AbortarAnulacion(a)

Next ==
  \/ \E f \in Facturas : Emitir(f) \/ Resolver(f) \/ LlegarTarde(f) \/ AnularDePrueba(f)
  \/ \E c \in Ciclos : Recorrer(c)
  \/ \E a \in Anulaciones : Anular(a)
  \/ Caer

Spec == Init /\ [][Next]_vars

\* The interval timer keeps firing and a cycle goes through its list; the DGII
\* ends its validations, and is not unreachable, nor the database failing, each
\* and every time.  Requests that started go on (every call has a timeout).
Emision(f) ==
  Subir(f) \/ Fallar(f) \/ NoSale(f) \/ Llega(f) \/ Contesta(f) \/ SeCorta(f)
  \/ GuardarResultado(f)

FairSpec ==
  /\ Spec
  /\ \A f \in Facturas : WF_vars(Emision(f)) /\ WF_vars(Resolver(f))
  /\ \A c \in Ciclos :
       /\ WF_vars(Iniciar(c))
       /\ \A f \in Facturas : WF_vars(SinCambio(c, f)) /\ SF_vars(Consultar(c, f))
       /\ SF_vars(ActualizarEstadoTerminal(c))
       /\ WF_vars(Disparar(c))

-----------------------------------------------------------------------------
(* Properties                                                              *)

TypeOK ==
  /\ estado \in [Facturas -> Estados \union {Nulo}]
  /\ track \in [Facturas -> BOOLEAN]
  /\ conXml \subseteq Facturas
  /\ fase \in [Facturas -> Fases]
  /\ resultado \in [Facturas -> Resultados]
  /\ dgii \in [Facturas -> {"sin_recibir", "recibida", "rechazada", "aprobada",
                            "rechazada_def", "anulada"}]
  /\ rezagadas \subseteq Facturas
  /\ pasoC \in [Ciclos -> {"reposo", "recorriendo", "contestada", "actualizada"}]
  /\ pendientes \in [Ciclos -> SUBSET Facturas]
  /\ consultada \in [Ciclos -> Facturas \union {Nulo}]
  /\ veredicto \in [Ciclos -> {"APROBADO", "RECHAZADO_DEFINITIVO", Nulo}]
  /\ pasoA \in [Anulaciones -> {"reposo", "leida", "esperando", "confirmada", "anulada"}]
  /\ objetivo \in [Anulaciones -> Facturas \union {Nulo}]
  /\ exito \in [Anulaciones -> BOOLEAN]
  /\ avisos \in [Facturas -> Seq(Eventos)]
  /\ auditadas \subseteq Facturas

\* What the DGII must have done for each state of the row.
Respaldo(f) ==
  CASE estado[f] = "RECHAZADO" -> dgii[f] = "rechazada"
    [] estado[f] = "ACEPTADO" -> dgii[f] \in {"recibida", "aprobada", "rechazada_def", "anulada"}
    [] estado[f] = "APROBADO" -> dgii[f] \in {"aprobada", "anulada"}
    [] estado[f] = "RECHAZADO_DEFINITIVO" -> dgii[f] = "rechazada_def"
    [] estado[f] = "ANULADO" -> dgii[f] = "anulada" \/ (f \in DePrueba /\ dgii[f] = "aprobada")
    [] OTHER -> TRUE

\* A client is never shown a decision the DGII did not take, however the answers,
\* the cycles, the annulments and the restarts interleave; an audited annulment
\* is one the DGII made; and the DGII holds no document whose XML was not stored.
EstadoRespaldado ==
  /\ \A f \in Facturas : Respaldo(f)
  /\ \A f \in auditadas : dgii[f] = "anulada"
  /\ \A f \in Facturas : dgii[f] # "sin_recibir" => f \in conXml

\* A webhook never tells a company something else than what the DGII decided.
AvisoCierto ==
  \A f \in Facturas : \A i \in 1 .. Len(avisos[f]) :
    IF avisos[f][i] = "factura_aceptada"
    THEN dgii[f] \in {"aprobada", "anulada"}
    ELSE dgii[f] = "rechazada_def"

\* A company is told of the outcome of an invoice at most once, even when the
\* server restarts between the update of the row and the webhook.
AvisoUnico == \A f \in Facturas : Len(avisos[f]) <= 1

\* An invoice the DGII accepted with a TrackId reaches its final state, whatever
\* cycles fail or are lost in a restart (requirements 29.1 and 29.4).
AceptadaConcluye ==
  \A f \in Facturas :
    (estado[f] = "ACEPTADO" /\ track[f]) ~>
      (estado[f] \in {"APROBADO", "RECHAZADO_DEFINITIVO", "ANULADO"})

\* An invoice left in REINTENTANDO "will be retried by queue" (the comment in the
\* catch of crearFactura), so that sooner or later it leaves that state.
ReintentoConcluye ==
  \A f \in Facturas :
    (estado[f] = "REINTENTANDO") ~> (estado[f] \in {"ACEPTADO", "RECHAZADO", "FALLIDO"})

\* ANULADO is terminal: the polling does not touch an invoice that reached it
\* (requirement 29.5 and the comment of esEstadoTerminal).
AnuladoEsFinal ==
  [][\A f \in Facturas : estado[f] = "ANULADO" => estado'[f] = "ANULADO"]_vars

Promesa == INSTANCE EstadoFactura

\* With one polling cycle at a time, the life of an invoice is that of EstadoFactura.
ImplementaEstado == Promesa!Spec
=============================================================================
