---------------------------- MODULE ColaReintentos ----------------------------
(***************************************************************************)
(* The retry queue as it is written: encolarTransmision of                 *)
(* RetryQueueService, the worker of RetryQueueProcessor (concurrency 1) and *)
(* the save of crearFactura that follows.  The deployed program injects no *)
(* RETRY_QUEUE_SERVICE (see CicloFactura), so this is what connecting it   *)
(* would bring.                                                            *)
(*                                                                         *)
(* BullMQ is external: a job stays in Redis, an attempt that throws is     *)
(* followed by another until MaxIntentos have failed, a job whose worker   *)
(* died is taken again, and pause waits for the jobs in progress.          *)
(***************************************************************************)
EXTENDS Naturals

CONSTANTS
  Comprobantes,  \* invoices whose transmission failed
  MaxIntentos,   \* attempts of a job
  MaxAperturas,  \* bound: times the circuit breaker opens
  MaxParadas,    \* bound: restarts of the server
  Ninguno

ASSUME ColaAssumption ==
  /\ MaxIntentos \in Nat \ {0}
  /\ MaxAperturas \in Nat
  /\ MaxParadas \in Nat
  /\ Ninguno \notin Comprobantes

VARIABLES
  fila,          \* fila[c]: estado_dgii of the invoice
  emisor,        \* emisor[c]: crearFactura: "transmitiendo", "marcada", "encolada", "fin"
  trabajo,       \* trabajo[c]: the job in Redis
  fallidos,      \* fallidos[c]: attemptsMade
  atendido,      \* the job the worker runs
  etapa,         \* where processTransmision is
  pausado,       \* the worker is paused
  abierto,       \* the circuit breaker is OPEN
  porMarcar,     \* jobs whose handleMaxRetriesExceeded has not committed yet
  aperturas, paradas,
  respuestas,    \* history: respuestas[c]: what the DGII said of c, ever
  reenvios       \* history: reenvios[c]: transmissions begun when the row of c showed
                 \* an answer of the DGII

obreroVars == <<atendido, etapa, pausado>>
colaReintentosVars == <<fila, emisor, trabajo, fallidos, obreroVars, abierto, porMarcar,
                        aperturas, paradas, respuestas, reenvios>>

Decididos == {"ACEPTADO", "RECHAZADO"}

InitReintentos ==
  /\ fila = [c \in Comprobantes |-> "ENVIADO"]
  /\ emisor = [c \in Comprobantes |-> "transmitiendo"]
  /\ trabajo = [c \in Comprobantes |-> "ninguno"]
  /\ fallidos = [c \in Comprobantes |-> 0]
  /\ atendido = Ninguno /\ etapa = "libre" /\ pausado = FALSE
  /\ abierto = FALSE
  /\ porMarcar = {}
  /\ aperturas = 0 /\ paradas = 0
  /\ respuestas = [c \in Comprobantes |-> {}]
  /\ reenvios = [c \in Comprobantes |-> 0]

-----------------------------------------------------------------------------
(* encolarTransmision, and crearFactura after it                           *)

MarcarReintentando(c) ==
  /\ emisor[c] = "transmitiendo"
  /\ fila' = [fila EXCEPT ![c] = "REINTENTANDO"]
  /\ emisor' = [emisor EXCEPT ![c] = "marcada"]
  /\ UNCHANGED <<trabajo, fallidos, obreroVars, abierto, porMarcar, aperturas, paradas,
                 respuestas, reenvios>>

Encolado(c) ==
  /\ emisor[c] = "marcada"
  /\ trabajo' = [trabajo EXCEPT ![c] = "espera"]
  /\ emisor' = [emisor EXCEPT ![c] = "encolada"]
  /\ UNCHANGED <<fila, fallidos, obreroVars, abierto, porMarcar, aperturas, paradas,
                 respuestas, reenvios>>

\* transmitir answers "reintentando" and crearFactura saves its entity, whose
\* estado_dgii is not what the worker may have written meanwhile.
GuardarReintentando(c) ==
  /\ emisor[c] = "encolada"
  /\ fila' = [fila EXCEPT ![c] = "REINTENTANDO"]
  /\ emisor' = [emisor EXCEPT ![c] = "fin"]
  /\ UNCHANGED <<trabajo, fallidos, obreroVars, abierto, porMarcar, aperturas, paradas,
                 respuestas, reenvios>>

-----------------------------------------------------------------------------
(* The worker                                                              *)

\* processTransmision begins: with the breaker OPEN it pauses its own worker and throws,
\* otherwise it transmits.  BullMQ waits in pause for the jobs in progress, this one too;
\* whether that ends before the worker is closed is its own, so it may or may not.
Atender(c) ==
  /\ etapa = "libre" /\ ~pausado
  /\ trabajo[c] = "espera"
  /\ trabajo' = [trabajo EXCEPT ![c] = "activo"]
  /\ atendido' = c
  /\ IF abierto
     THEN etapa' = "pausando" /\ pausado' = TRUE /\ UNCHANGED reenvios
     ELSE /\ etapa' = "transmitiendo"
          /\ reenvios' = IF fila[c] \in Decididos THEN [reenvios EXCEPT ![c] = @ + 1]
                         ELSE reenvios
          /\ UNCHANGED pausado
  /\ UNCHANGED <<fila, emisor, fallidos, abierto, porMarcar, aperturas, paradas, respuestas>>

\* The DGII accepts or rejects the document and the answer arrives.
Contestar(r) ==
  /\ etapa = "transmitiendo"
  /\ respuestas' = [respuestas EXCEPT ![atendido] = @ \union {r}]
  /\ etapa' = r
  /\ UNCHANGED <<fila, emisor, trabajo, fallidos, atendido, pausado, abierto, porMarcar,
                 aperturas, paradas, reenvios>>

Liberar == atendido' = Ninguno /\ etapa' = "libre"

\* Mutant: attemptsMade is compared before this failure is counted.
AgotadoTarde(c) == fallidos[c] >= MaxIntentos

Agotado(c) == fallidos[c] + 1 >= MaxIntentos

\* The attempt throws: the job waits for its backoff, or ends and the "failed"
\* handler is called.
FallarIntento ==
  LET c == atendido
  IN /\ fallidos' = [fallidos EXCEPT ![c] = @ + 1]
     /\ trabajo' = [trabajo EXCEPT ![c] = IF Agotado(c) THEN "fallido" ELSE "espera"]
     /\ porMarcar' = IF Agotado(c) THEN porMarcar \union {c} ELSE porMarcar
     /\ Liberar

\* No token, no connection, a 5xx or a timeout, which may hide an answer of the DGII;
\* or the update of the row fails after the answer; or pause returns and
\* CircuitBreakerOpenError is thrown, which to BullMQ is an error like the others.
Transitorio ==
  /\ etapa \in {"transmitiendo", "ACEPTADO", "RECHAZADO", "pausando"}
  /\ FallarIntento
  /\ \/ UNCHANGED respuestas
     \/ /\ etapa = "transmitiendo"
        /\ \E r \in Decididos :
             respuestas' = [respuestas EXCEPT ![atendido] = @ \union {r}]
  /\ UNCHANGED <<fila, emisor, pausado, abierto, aperturas, paradas, reenvios>>

\* The update of the row commits; the job is completed in Redis after it.
Anotar ==
  /\ etapa \in Decididos
  /\ fila' = [fila EXCEPT ![atendido] = etapa]
  /\ etapa' = "anotada"
  /\ UNCHANGED <<emisor, trabajo, fallidos, atendido, pausado, abierto, porMarcar, aperturas,
                 paradas, respuestas, reenvios>>

Completar ==
  /\ etapa = "anotada"
  /\ trabajo' = [trabajo EXCEPT ![atendido] = "hecho"]
  /\ Liberar
  /\ UNCHANGED <<fila, emisor, fallidos, pausado, abierto, porMarcar, aperturas, paradas,
                 respuestas, reenvios>>

\* handleMaxRetriesExceeded
MarcarFallido(c) ==
  /\ c \in porMarcar
  /\ porMarcar' = porMarcar \ {c}
  /\ fila' = [fila EXCEPT ![c] = "FALLIDO"]
  /\ UNCHANGED <<emisor, trabajo, fallidos, obreroVars, abierto, aperturas, paradas,
                 respuestas, reenvios>>

-----------------------------------------------------------------------------
(* The circuit breaker and the server                                      *)

Abrirse ==
  /\ ~abierto
  /\ aperturas < MaxAperturas
  /\ abierto' = TRUE
  /\ aperturas' = aperturas + 1
  /\ UNCHANGED <<fila, emisor, trabajo, fallidos, obreroVars, porMarcar, paradas, respuestas,
                 reenvios>>

\* Nothing calls reanudar or resumeWorker: the worker does not notice.
Cerrarse ==
  /\ abierto
  /\ abierto' = FALSE
  /\ UNCHANGED <<fila, emisor, trabajo, fallidos, obreroVars, porMarcar, aperturas, paradas,
                 respuestas, reenvios>>

\* The jobs are in Redis, the rest in memory; onModuleInit starts a worker that runs,
\* since the breaker starts CLOSED, and BullMQ gives it the job that was active.
Reiniciar ==
  /\ paradas < MaxParadas
  /\ paradas' = paradas + 1
  /\ trabajo' = [c \in Comprobantes |-> IF trabajo[c] = "activo" THEN "espera" ELSE trabajo[c]]
  /\ emisor' = [c \in Comprobantes |-> "fin"]
  /\ Liberar /\ pausado' = FALSE /\ abierto' = FALSE
  /\ porMarcar' = {}
  /\ UNCHANGED <<fila, fallidos, aperturas, respuestas, reenvios>>

NextReintentos ==
  \/ \E c \in Comprobantes : \/ MarcarReintentando(c) \/ Encolado(c) \/ GuardarReintentando(c)
                             \/ Atender(c) \/ MarcarFallido(c)
  \/ \E r \in Decididos : Contestar(r)
  \/ Transitorio \/ Anotar \/ Completar
  \/ Abrirse \/ Cerrarse \/ Reiniciar

SpecReintentos == InitReintentos /\ [][NextReintentos]_colaReintentosVars

-----------------------------------------------------------------------------
(* Properties                                                              *)

TypeOKReintentos ==
  /\ fila \in [Comprobantes -> {"ENVIADO", "REINTENTANDO", "FALLIDO"} \union Decididos]
  /\ emisor \in [Comprobantes -> {"transmitiendo", "marcada", "encolada", "fin"}]
  /\ trabajo \in [Comprobantes -> {"ninguno", "espera", "activo", "hecho", "fallido"}]
  /\ fallidos \in [Comprobantes -> 0 .. MaxIntentos]
  /\ atendido \in Comprobantes \union {Ninguno}
  /\ etapa \in {"libre", "pausando", "transmitiendo", "anotada"} \union Decididos
  /\ pausado \in BOOLEAN /\ abierto \in BOOLEAN
  /\ porMarcar \subseteq Comprobantes
  /\ aperturas \in Nat /\ paradas \in Nat
  /\ respuestas \in [Comprobantes -> SUBSET Decididos]
  /\ reenvios \in [Comprobantes -> Nat]

\* The row of an invoice in the queue says ACEPTADO or RECHAZADO only if the DGII said
\* so, FALLIDO only once every attempt failed, and a document whose row shows an answer
\* of the DGII goes to it again only after a restart, which may have caught its job
\* between the update of the row and its completion.  An attempt that found the breaker
\* OPEN is one of those that failed: the comments of CircuitBreakerOpenError and of the
\* worker say that it does not count, and BullMQ counts whatever the processor throws.
FinalJustificado ==
  \A c \in Comprobantes :
    /\ fila[c] \in Decididos => fila[c] \in respuestas[c]
    /\ fila[c] = "FALLIDO" => fallidos[c] = MaxIntentos
    /\ reenvios[c] > 0 => paradas > 0
=============================================================================
