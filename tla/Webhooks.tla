------------------------------- MODULE Webhooks -------------------------------
(***************************************************************************)
(* The webhooks of one company (WebhooksService): disparar delivers an     *)
(* event to every active webhook that listens to it, probar delivers a     *)
(* test event to one, desactivar ends a webhook.                           *)
(*                                                                         *)
(* A delivery keeps in memory the row it was started with through all its  *)
(* attempts (170 s in the worst case) and then saves it.  TypeORM's save   *)
(* re-reads the row and writes the columns on which both differ.           *)
(***************************************************************************)
EXTENDS Naturals

CONSTANTS
  Urls,          \* identifiers of rows of webhooks
  Disparos,      \* calls of disparar
  Pruebas,       \* calls of probar
  Bajas,         \* calls of desactivar
  Reintentos,    \* attempts after the first: the length of retryDelays
  MaxFallos,     \* maxFallosConsecutivos
  SinFila

Avisadores == Disparos \union Pruebas
Entregas == Avisadores \X Urls

ASSUME WebhooksAssumption ==
  /\ Reintentos \in Nat
  /\ MaxFallos \in Nat \ {0}
  /\ Disparos \intersect Pruebas = {}

FilaWebhook == [activo : BOOLEAN, fallos : Nat]

ASSUME SinFilaAssumption == SinFila \notin FilaWebhook /\ SinFila \notin Urls

VARIABLES
  webhook,       \* webhook[w]: [activo, fallos_consecutivos], or SinFila
  llamados,      \* calls of disparar and probar already made
  pasoEntrega,   \* pasoEntrega[e]: where entregarWebhook is
  intento,       \* intento[e]: attempt of the loop
  copia,         \* copia[e]: the row in memory
  porGuardar,    \* porGuardar[e]: columns save has decided to write
  pasoBaja,      \* pasoBaja[b]: where desactivar is
  urlBaja,       \* urlBaja[b]: its webhook
  copiaBaja,     \* copiaBaja[b]: the row in memory, activo already false
  porGuardarBaja,\* porGuardarBaja[b]: columns save has decided to write
  fallidas,      \* history: fallidas[w]: deliveries of w that failed
  dadosDeBaja,   \* history: webhooks some desactivar began to end
  bajasSolas,    \* history: calls of desactivar no delivery of theirs has overlapped
  firmes         \* history: webhooks that such a call ended

entregaVars == <<llamados, pasoEntrega, intento, copia, porGuardar>>
bajaVars == <<pasoBaja, urlBaja, copiaBaja, porGuardarBaja>>
historiaWebhook == <<fallidas, dadosDeBaja, bajasSolas, firmes>>
webhookVars == <<webhook, entregaVars, bajaVars, historiaWebhook>>

InitWebhooks ==
  /\ webhook = [w \in Urls |-> SinFila]
  /\ llamados = {}
  /\ pasoEntrega = [e \in Entregas |-> "reposo"]
  /\ intento = [e \in Entregas |-> 0]
  /\ copia = [e \in Entregas |-> SinFila]
  /\ porGuardar = [e \in Entregas |-> {}]
  /\ pasoBaja = [b \in Bajas |-> "reposo"]
  /\ urlBaja = [b \in Bajas |-> SinFila]
  /\ copiaBaja = [b \in Bajas |-> SinFila]
  /\ porGuardarBaja = [b \in Bajas |-> {}]
  /\ fallidas = [w \in Urls |-> 0]
  /\ dadosDeBaja = {}
  /\ bajasSolas = {}
  /\ firmes = {}

Activos == {w \in Urls : webhook[w] # SinFila /\ webhook[w].activo}

\* Deliveries in progress of webhook w.
EnEntrega(w) == \E a \in Avisadores : pasoEntrega[<<a, w>>] # "reposo"

CrearWebhook(w) ==
  /\ webhook[w] = SinFila
  /\ webhook' = [webhook EXCEPT ![w] = [activo |-> TRUE, fallos |-> 0]]
  /\ UNCHANGED <<entregaVars, bajaVars, historiaWebhook>>

-----------------------------------------------------------------------------
(* disparar, probar and entregarWebhook                                    *)

\* entregarWebhook is called for webhooks ws; each call has the row just read.
Empezar(a, ws) ==
  /\ a \notin llamados
  /\ llamados' = llamados \union {a}
  /\ pasoEntrega' = [e \in Entregas |-> IF e[1] = a /\ e[2] \in ws THEN "enviando"
                                        ELSE pasoEntrega[e]]
  /\ copia' = [e \in Entregas |-> IF e[1] = a /\ e[2] \in ws THEN webhook[e[2]]
                                  ELSE copia[e]]
  /\ bajasSolas' = {b \in bajasSolas : urlBaja[b] \notin ws}
  /\ UNCHANGED <<webhook, intento, porGuardar, bajaVars, fallidas, dadosDeBaja, firmes>>

\* The event goes to the active webhooks that listen to it, whichever they are.
DispararEvento(d) == \E ws \in SUBSET Activos : Empezar(d, ws)

Probar(p) == \E w \in Activos : Empezar(p, {w})

\* The row in memory after the last attempt.
TrasExito(fila) == [activo |-> fila.activo, fallos |-> 0]

\* Mutant: every attempt counts, not every delivery.
TrasFracasoPorIntento(fila) ==
  LET n == fila.fallos + Reintentos + 1
  IN [activo |-> fila.activo /\ n < MaxFallos, fallos |-> n]

TrasFracaso(fila) ==
  LET n == fila.fallos + 1
  IN [activo |-> fila.activo /\ n < MaxFallos, fallos |-> n]

\* A 2xx ends the loop.
Acertar(e) ==
  /\ pasoEntrega[e] = "enviando"
  /\ copia' = [copia EXCEPT ![e] = TrasExito(@)]
  /\ pasoEntrega' = [pasoEntrega EXCEPT ![e] = "guardando"]
  /\ UNCHANGED <<webhook, llamados, intento, porGuardar, bajaVars, historiaWebhook>>

\* Mutant: one attempt too many.
QuedaUnoMas(e) == intento[e] <= Reintentos

QuedanIntentos(e) == intento[e] < Reintentos

\* Another status, an error or no answer in 10 s, with attempts left.
Reintentar(e) ==
  /\ pasoEntrega[e] = "enviando"
  /\ QuedanIntentos(e)
  /\ intento' = [intento EXCEPT ![e] = @ + 1]
  /\ UNCHANGED <<webhook, llamados, pasoEntrega, copia, porGuardar, bajaVars,
                 historiaWebhook>>

\* The last attempt fails too.
FracasarEntrega(e) ==
  /\ pasoEntrega[e] = "enviando"
  /\ intento[e] = Reintentos
  /\ copia' = [copia EXCEPT ![e] = TrasFracaso(@)]
  /\ fallidas' = [fallidas EXCEPT ![e[2]] = @ + 1]
  /\ pasoEntrega' = [pasoEntrega EXCEPT ![e] = "guardando"]
  /\ UNCHANGED <<webhook, llamados, intento, porGuardar, bajaVars, dadosDeBaja, bajasSolas,
                 firmes>>

ColumnasDistintas(fila, otra) ==
  (IF fila.activo # otra.activo THEN {"activo"} ELSE {}) \union
  (IF fila.fallos # otra.fallos THEN {"fallos"} ELSE {})

Fundida(columnas, fila, base) ==
  [activo |-> IF "activo" \in columnas THEN fila.activo ELSE base.activo,
   fallos |-> IF "fallos" \in columnas THEN fila.fallos ELSE base.fallos]

CompararEntrega(e) ==
  /\ pasoEntrega[e] = "guardando"
  /\ porGuardar' = [porGuardar EXCEPT ![e] = ColumnasDistintas(copia[e], webhook[e[2]])]
  /\ pasoEntrega' = [pasoEntrega EXCEPT ![e] = "comparada"]
  /\ UNCHANGED <<webhook, llamados, intento, copia, bajaVars, historiaWebhook>>

\* A delivery that ends forgets its local variables.
Olvidar(e) ==
  /\ pasoEntrega' = [pasoEntrega EXCEPT ![e] = "reposo"]
  /\ intento' = [intento EXCEPT ![e] = 0]
  /\ copia' = [copia EXCEPT ![e] = SinFila]
  /\ porGuardar' = [porGuardar EXCEPT ![e] = {}]

EscribirEntrega(e) ==
  /\ pasoEntrega[e] = "comparada"
  /\ webhook' = [webhook EXCEPT ![e[2]] = Fundida(porGuardar[e], copia[e], @)]
  /\ Olvidar(e)
  /\ UNCHANGED <<llamados, bajaVars, historiaWebhook>>

\* Mutant: a save that fails is tried again until it succeeds.
RepetirGuardado(e) ==
  /\ pasoEntrega[e] = "comparada"
  /\ pasoEntrega' = [pasoEntrega EXCEPT ![e] = "guardando"]
  /\ UNCHANGED <<webhook, llamados, intento, copia, porGuardar, bajaVars, historiaWebhook>>

\* The database fails at either half of the save; allSettled hides the error.
FallarEntrega(e) ==
  /\ pasoEntrega[e] \in {"guardando", "comparada"}
  /\ Olvidar(e)
  /\ UNCHANGED <<webhook, llamados, bajaVars, historiaWebhook>>

-----------------------------------------------------------------------------
(* desactivar                                                              *)

\* Mutant: the entity is saved as it was read.
SinApagar(fila) == fila

Apagada(fila) == [activo |-> FALSE, fallos |-> fila.fallos]

LeerBaja(b, w) ==
  /\ pasoBaja[b] = "reposo"
  /\ webhook[w] # SinFila
  /\ urlBaja' = [urlBaja EXCEPT ![b] = w]
  /\ copiaBaja' = [copiaBaja EXCEPT ![b] = Apagada(webhook[w])]
  /\ pasoBaja' = [pasoBaja EXCEPT ![b] = "leida"]
  /\ dadosDeBaja' = dadosDeBaja \union {w}
  /\ bajasSolas' = IF EnEntrega(w) THEN bajasSolas ELSE bajasSolas \union {b}
  /\ UNCHANGED <<webhook, entregaVars, porGuardarBaja, fallidas, firmes>>

CompararBaja(b) ==
  /\ pasoBaja[b] = "leida"
  /\ porGuardarBaja' = [porGuardarBaja EXCEPT ![b] =
                          ColumnasDistintas(copiaBaja[b], webhook[urlBaja[b]])]
  /\ pasoBaja' = [pasoBaja EXCEPT ![b] = "comparada"]
  /\ UNCHANGED <<webhook, entregaVars, urlBaja, copiaBaja, historiaWebhook>>

EscribirBaja(b) ==
  LET w == urlBaja[b]
  IN /\ pasoBaja[b] = "comparada"
     /\ webhook' = [webhook EXCEPT ![w] = Fundida(porGuardarBaja[b], copiaBaja[b], @)]
     /\ pasoBaja' = [pasoBaja EXCEPT ![b] = "hecha"]
     /\ firmes' = IF b \in bajasSolas THEN firmes \union {w} ELSE firmes
     /\ UNCHANGED <<entregaVars, urlBaja, copiaBaja, porGuardarBaja, fallidas, dadosDeBaja,
                    bajasSolas>>

-----------------------------------------------------------------------------
\* The server stops: what was in progress is lost, the table is not.
CaerWebhooks ==
  /\ \/ \E e \in Entregas : pasoEntrega[e] # "reposo"
     \/ \E b \in Bajas : pasoBaja[b] \in {"leida", "comparada"}
  /\ pasoEntrega' = [e \in Entregas |-> "reposo"]
  /\ intento' = [e \in Entregas |-> 0]
  /\ copia' = [e \in Entregas |-> SinFila]
  /\ porGuardar' = [e \in Entregas |-> {}]
  /\ pasoBaja' = [b \in Bajas |-> IF pasoBaja[b] = "reposo" THEN "reposo" ELSE "hecha"]
  /\ UNCHANGED <<webhook, llamados, urlBaja, copiaBaja, porGuardarBaja, historiaWebhook>>

Entregar(e) ==
  \/ Acertar(e) \/ Reintentar(e) \/ FracasarEntrega(e)
  \/ CompararEntrega(e) \/ EscribirEntrega(e) \/ FallarEntrega(e)

DarDeBaja(b) ==
  \/ \E w \in Urls : LeerBaja(b, w)
  \/ CompararBaja(b) \/ EscribirBaja(b)

NextWebhooks ==
  \/ \E w \in Urls : CrearWebhook(w)
  \/ \E d \in Disparos : DispararEvento(d)
  \/ \E p \in Pruebas : Probar(p)
  \/ \E e \in Entregas : Entregar(e)
  \/ \E b \in Bajas : DarDeBaja(b)
  \/ CaerWebhooks

SpecWebhooks == InitWebhooks /\ [][NextWebhooks]_webhookVars

\* Every attempt is answered or times out, and the event loop goes on.
JusticiaWebhooks == \A e \in Entregas : WF_webhookVars(Entregar(e))

-----------------------------------------------------------------------------
(* Properties                                                              *)

TypeOKWebhooks ==
  /\ webhook \in [Urls -> FilaWebhook \union {SinFila}]
  /\ llamados \subseteq Avisadores
  /\ pasoEntrega \in [Entregas -> {"reposo", "enviando", "guardando", "comparada"}]
  /\ intento \in [Entregas -> 0 .. Reintentos]
  /\ copia \in [Entregas -> FilaWebhook \union {SinFila}]
  /\ porGuardar \in [Entregas -> SUBSET {"activo", "fallos"}]
  /\ pasoBaja \in [Bajas -> {"reposo", "leida", "comparada", "hecha"}]
  /\ urlBaja \in [Bajas -> Urls \union {SinFila}]
  /\ copiaBaja \in [Bajas -> FilaWebhook \union {SinFila}]
  /\ porGuardarBaja \in [Bajas -> SUBSET {"activo", "fallos"}]
  /\ fallidas \in [Urls -> Nat]
  /\ dadosDeBaja \subseteq Urls
  /\ bajasSolas \subseteq Bajas
  /\ firmes \subseteq Urls

\* A webhook that desactivar ended while none of its deliveries was in progress
\* stays ended, whatever events, tests and restarts follow: only the stale save of
\* a delivery that overlapped with desactivar can bring it back.
BajaFirme == \A w \in firmes : webhook[w] # SinFila /\ ~webhook[w].activo

\* The service never gives up a webhook by itself before MaxFallos of its
\* deliveries have failed, in whatever order overlapping deliveries save.
ApagadoJustificado ==
  \A w \in Urls :
    webhook[w] # SinFila =>
      /\ webhook[w].fallos <= fallidas[w]
      /\ ~webhook[w].activo => w \in dadosDeBaja \/ fallidas[w] >= MaxFallos

\* Every delivery ends: disparar, which the polling of states waits for, returns.
TodaEntregaTermina ==
  \A e \in Entregas : (pasoEntrega[e] # "reposo") ~> (pasoEntrega[e] = "reposo")
=============================================================================
