---------------------------- MODULE ServiciosProofs ----------------------------
(***************************************************************************)
(* Proofs about the components of MCServicios, for any number of callers,  *)
(* deliveries, webhooks, tickets, rounds and failures: the circuit breaker *)
(* and the switch it implements (CircuitBreaker, InterruptorDgii), what    *)
(* turns a webhook off and that it stays off (Webhooks), where every       *)
(* printed ticket and every invoice of it went (Impresion), and the types  *)
(* of all of them, each alone and together.                                *)
(*                                                                         *)
(* The invariant of the breaker is LlamadasViejas: a call in progress      *)
(* while the circuit is OPEN is at least as old as the wait, so its        *)
(* timeout has fired when the wait ends.                                   *)
(***************************************************************************)
EXTENDS MCServicios, FiniteSetTheorems, TLAPS

-----------------------------------------------------------------------------
(* The circuit breaker                                                     *)

\* No call is fired while the circuit is OPEN.
LlamadasViejas == estado = "OPEN" => \A l \in enCurso : edad[l] >= espera

\* A trial belongs to a HALF-OPEN period.
PruebaSoloMedioAbierto == estado # "HALF-OPEN" => prueba = Nadie /\ pendingClose = FALSE

IInv == TypeOK /\ PruebaUnica /\ PruebaSoloMedioAbierto /\ LlamadasViejas

\* A call that is due has been given up before the wait ends.
LEMMA NadieEnCursoAlTerminarLaEspera ==
  ASSUME IInv, MedioAbrir
  PROVE  enCurso = {}
<1>1. SUFFICES ASSUME NEW l \in enCurso
               PROVE  FALSE
  OBVIOUS
<1>2. l \in Llamadas /\ edad[l] \in Nat /\ espera \in Nat
  BY TiemposAssumption DEF IInv, TypeOK
<1>3. edad[l] >= espera /\ espera >= ResetTimeout
  BY DEF IInv, LlamadasViejas, MedioAbrir, EsperaCumplida, EsperaDeReset
<1>4. edad[l] >= Timeout
  BY <1>2, <1>3, TiemposAssumption
<1>5. ~Vencida(l)
  BY <1>2 DEF MedioAbrir
<1> QED
  BY <1>4, <1>5 DEF Vencida

\* The ages of the calls in progress have not reached Timeout when time passes.
LEMMA TiposDeTic ==
  ASSUME TypeOK, Tic
  PROVE  TypeOK'
<1> USE TiemposAssumption
<1>1. edad' \in [Llamadas -> 0 .. Timeout]
  <2>1. ASSUME NEW l \in Llamadas
        PROVE  (IF l \in enCurso THEN edad[l] + 1 ELSE edad[l]) \in 0 .. Timeout
    <3>1. edad[l] \in 0 .. Timeout
      BY DEF TypeOK
    <3>2. l \in enCurso => ~(edad[l] >= Timeout)
      BY DEF Tic, Vencida
    <3> QED
      BY <3>1, <3>2
  <2> QED
    BY <2>1 DEF Tic
<1>2. espera' \in 0 .. ResetTimeout
  BY DEF TypeOK, Tic
<1>3. ASSUME NEW cubetas \in [Cubetas -> Nat]
      PROVE  Envejecer(cubetas) \in [Cubetas -> Nat]
  <2>1. \A i \in Cubetas : i # 1 => i - 1 \in Cubetas
    BY DEF Cubetas
  <2> QED
    BY <2>1 DEF Envejecer
<1>4. fires' \in [Cubetas -> Nat] /\ failures' \in [Cubetas -> Nat]
  BY <1>3 DEF TypeOK, Tic
<1> QED
  BY <1>1, <1>2, <1>4 DEF TypeOK, Tic

LEMMA TiposInductivos ==
  ASSUME TypeOK, [Next]_vars
  PROVE  TypeOK'
<1> USE TiemposAssumption DEF TypeOK
<1>0. 1 \in Cubetas /\ 0 \in 0 .. Timeout /\ 0 \in 0 .. ResetTimeout
  BY DEF Cubetas
<1>1. ASSUME NEW l \in Llamadas, Disparar(l) PROVE TypeOK'
  <2>1. fires' \in [Cubetas -> Nat]
    BY <1>0, <1>1 DEF Disparar
  <2>2. edad' \in [Llamadas -> 0 .. Timeout]
    BY <1>0, <1>1 DEF Disparar
  <2> QED
    BY <1>1, <2>1, <2>2 DEF Disparar
<1>2. ASSUME NEW l \in Llamadas, Triunfar(l) PROVE TypeOK'
  BY <1>0, <1>2 DEF Triunfar
<1>3. ASSUME NEW l \in Llamadas, Fracasar(l) PROVE TypeOK'
  <2>1. failures' \in [Cubetas -> Nat]
    BY <1>0, <1>3 DEF Fracasar
  <2>2. edad' \in [Llamadas -> 0 .. Timeout]
    BY <1>0, <1>3 DEF Fracasar
  <2>3. espera' \in 0 .. ResetTimeout
    BY <1>0, <1>3 DEF Fracasar
  <2> QED
    BY <1>3, <2>1, <2>2, <2>3 DEF Fracasar
<1>4. CASE MedioAbrir
  BY <1>4 DEF MedioAbrir
<1>5. CASE Tic
  BY <1>5, TiposDeTic
<1>6. CASE UNCHANGED vars
  BY <1>6 DEF vars
<1> QED
  BY <1>1, <1>2, <1>3, <1>4, <1>5, <1>6 DEF Next

LEMMA PasoDeInv ==
  ASSUME IInv, [Next]_vars
  PROVE  IInv'
<1> USE NadieAssumption, TiemposAssumption
<1>t. TypeOK'
  BY TiposInductivos DEF IInv
<1>1. ASSUME NEW l \in Llamadas, Disparar(l)
      PROVE  IInv'
  <2>1. CASE estado = "CLOSED"
    BY <1>t, <1>1, <2>1 DEF IInv, PruebaUnica, PruebaSoloMedioAbierto, LlamadasViejas, Disparar
  <2>2. CASE estado = "HALF-OPEN" /\ pendingClose
    BY <1>t, <1>1, <2>2
       DEF IInv, PruebaUnica, PruebaSoloMedioAbierto, LlamadasViejas, Disparar, Admite
  <2>3. CASE estado = "HALF-OPEN" /\ ~pendingClose
    BY <1>t, <1>1, <2>3
       DEF IInv, PruebaUnica, PruebaSoloMedioAbierto, LlamadasViejas, Disparar, Admite
  <2> QED
    BY <1>1, <2>1, <2>2, <2>3 DEF IInv, TypeOK, Disparar
<1>2. ASSUME NEW l \in Llamadas, Triunfar(l)
      PROVE  IInv'
  <2>1. CASE estado = "HALF-OPEN"
    BY <1>t, <1>2, <2>1 DEF IInv, PruebaUnica, PruebaSoloMedioAbierto, LlamadasViejas, Triunfar
  <2>2. CASE estado # "HALF-OPEN"
    <3>1. LlamadasViejas'
      BY <1>2, <2>2 DEF IInv, TypeOK, LlamadasViejas, Triunfar
    <3> QED
      BY <1>t, <1>2, <2>2, <3>1 DEF IInv, PruebaUnica, PruebaSoloMedioAbierto, Triunfar
  <2> QED
    BY <2>1, <2>2
<1>3. ASSUME NEW l \in Llamadas, Fracasar(l)
      PROVE  IInv'
  <2>1. CASE Abre /\ estado # "OPEN"
    <3>1. \A k \in Llamadas : edad'[k] >= 0
      BY <1>t DEF TypeOK
    <3>2. LlamadasViejas'
      BY <1>t, <1>3, <2>1, <3>1 DEF LlamadasViejas, Fracasar, TypeOK
    <3> QED
      BY <1>t, <1>3, <2>1, <3>2 DEF IInv, PruebaUnica, PruebaSoloMedioAbierto, Fracasar
  <2>2. CASE ~(Abre /\ estado # "OPEN")
    <3>1. estado # "HALF-OPEN"
      BY <2>2 DEF Abre
    <3>2. LlamadasViejas'
      BY <1>3, <2>2, <3>1 DEF IInv, TypeOK, LlamadasViejas, Fracasar
    <3> QED
      BY <1>t, <1>3, <2>2, <3>1, <3>2
         DEF IInv, PruebaUnica, PruebaSoloMedioAbierto, Fracasar
  <2> QED
    BY <2>1, <2>2
<1>4. CASE MedioAbrir
  <2>1. enCurso = {}
    BY <1>4, NadieEnCursoAlTerminarLaEspera
  <2> QED
    BY <1>t, <1>4, <2>1
       DEF IInv, PruebaUnica, PruebaSoloMedioAbierto, LlamadasViejas, MedioAbrir, EsperaCumplida
<1>5. CASE Tic
  <2>1. LlamadasViejas'
    <3>1. SUFFICES ASSUME estado = "OPEN", NEW l \in enCurso
                   PROVE  edad'[l] >= espera'
      BY <1>5 DEF LlamadasViejas, Tic
    <3>2. edad[l] \in Nat /\ espera \in Nat /\ edad[l] >= espera /\ l \in Llamadas
      BY <3>1 DEF IInv, TypeOK, LlamadasViejas
    <3>3. edad'[l] = edad[l] + 1
      BY <1>5, <3>1, <3>2 DEF Tic
    <3>4. espera' <= espera + 1
      BY <1>5, <3>2 DEF Tic
    <3>5. espera' \in Nat
      BY <1>t DEF TypeOK
    <3> QED
      BY <3>2, <3>3, <3>4, <3>5
  <2> QED
    BY <1>t, <1>5, <2>1 DEF IInv, PruebaUnica, PruebaSoloMedioAbierto, Tic
<1>6. CASE UNCHANGED vars
  BY <1>t, <1>6 DEF IInv, PruebaUnica, PruebaSoloMedioAbierto, LlamadasViejas, vars
<1> QED
  BY <1>1, <1>2, <1>3, <1>4, <1>5, <1>6 DEF Next

LEMMA InvAlInicio ==
  ASSUME Init
  PROVE  IInv
<1>1. 0 \in 0 .. Timeout /\ 0 \in 0 .. ResetTimeout
  BY TiemposAssumption
<1>2. TypeOK
  BY <1>1 DEF Init, TypeOK
<1> QED
  BY <1>2 DEF Init, IInv, PruebaUnica, PruebaSoloMedioAbierto, LlamadasViejas

\* The invariant that the other theorems rest on holds in every reachable state.
THEOREM InterruptorInductivo == Spec => []IInv
BY InvAlInicio, PasoDeInv, PTL DEF Spec

\* The variables of the breaker stay in their types: the timers of CB_OPTIONS are
\* honoured, no call outlives Timeout and no wait ResetTimeout.
THEOREM TiposDelInterruptor == Spec => []TypeOK
<1>1. IInv => TypeOK
  BY DEF IInv
<1> QED
  BY <1>1, InterruptorInductivo, PTL

\* While the circuit is HALF-OPEN the trial is the only call in progress, for any
\* number of callers and any times with Timeout <= ResetTimeout.
THEOREM PruebaSinCompania == Spec => []PruebaUnica
<1>1. IInv => PruebaUnica
  BY DEF IInv
<1> QED
  BY <1>1, InterruptorInductivo, PTL

LEMMA PasoImplementado ==
  ASSUME IInv, [Next]_vars
  PROVE  [Promesa!Next]_(Promesa!interruptorVars)
<1> USE DEF Promesa!interruptorVars
<1>1. ASSUME NEW l \in Llamadas, Disparar(l)
      PROVE  [Promesa!Next]_(Promesa!interruptorVars)
  <2>1. CASE estado = "CLOSED"
    <3>1. Promesa!Llamar(l)
      BY <1>1, <2>1 DEF Disparar, Admite, Promesa!Llamar
    <3> QED
      BY <3>1 DEF Promesa!Next
  <2>2. CASE estado # "CLOSED" /\ pendingClose
    <3>1. estado = "HALF-OPEN" /\ prueba = Nadie
      BY <1>1, <2>2 DEF IInv, TypeOK, PruebaUnica, Disparar
    <3>2. Promesa!Probar(l)
      BY <1>1, <2>2, <3>1 DEF Disparar, Admite, Promesa!Probar
    <3> QED
      BY <3>2 DEF Promesa!Next
  <2>3. CASE estado # "CLOSED" /\ ~pendingClose
    BY <1>1, <2>3 DEF Disparar, Admite
  <2> QED
    BY <2>1, <2>2, <2>3
<1>2. ASSUME NEW l \in Llamadas, Triunfar(l)
      PROVE  [Promesa!Next]_(Promesa!interruptorVars)
  <2>1. CASE estado = "HALF-OPEN"
    <3>1. Promesa!Decidir(l)
      BY <1>2, <2>1 DEF IInv, PruebaUnica, Triunfar, Promesa!Decidir
    <3> QED
      BY <3>1 DEF Promesa!Next
  <2>2. CASE estado # "HALF-OPEN"
    <3>1. Promesa!Terminar(l)
      BY <1>2, <2>2 DEF Triunfar, Promesa!Terminar
    <3> QED
      BY <3>1 DEF Promesa!Next
  <2> QED
    BY <2>1, <2>2
<1>3. ASSUME NEW l \in Llamadas, Fracasar(l)
      PROVE  [Promesa!Next]_(Promesa!interruptorVars)
  <2>1. CASE estado = "HALF-OPEN"
    <3>1. Abre
      BY <2>1 DEF Abre
    <3>2. Promesa!Decidir(l)
      BY <1>3, <2>1, <3>1 DEF IInv, PruebaUnica, Fracasar, Promesa!Decidir
    <3> QED
      BY <3>2 DEF Promesa!Next
  <2>2. CASE estado # "HALF-OPEN"
    <3>1. Promesa!Terminar(l)
      BY <1>3, <2>2 DEF IInv, PruebaSoloMedioAbierto, Fracasar, Promesa!Terminar
    <3> QED
      BY <3>1 DEF Promesa!Next
  <2> QED
    BY <2>1, <2>2
<1>4. CASE MedioAbrir
  <2>1. Promesa!Esperar
    BY <1>4, NadieEnCursoAlTerminarLaEspera DEF MedioAbrir, EsperaCumplida, Promesa!Esperar
  <2> QED
    BY <2>1 DEF Promesa!Next
<1>5. CASE Tic
  BY <1>5 DEF Tic
<1>6. CASE UNCHANGED vars
  BY <1>6 DEF vars
<1> QED
  BY <1>1, <1>2, <1>3, <1>4, <1>5, <1>6 DEF Next

\* The breaker with the options of CB_OPTIONS behaves as InterruptorDgii: one
\* trial per HALF-OPEN period, which alone decides.
THEOREM InterruptorImplementado == Spec => ImplementaInterruptor
<1>1. Init => Promesa!Init
  BY DEF Init, Promesa!Init
<1> QED
  BY <1>1, InterruptorInductivo, PasoImplementado, PTL DEF Spec, ImplementaInterruptor, Promesa!Spec

-----------------------------------------------------------------------------
(* Webhooks                                                                *)

\* What a delivery and a call of desactivar have in memory.
LocalesWebhooks ==
  /\ \A e \in Entregas :
       pasoEntrega[e] # "reposo" => copia[e] \in FilaWebhook /\ webhook[e[2]] \in FilaWebhook
  /\ \A b \in Bajas :
       pasoBaja[b] \in {"leida", "comparada"} =>
         /\ urlBaja[b] \in dadosDeBaja
         /\ copiaBaja[b] \in FilaWebhook /\ ~copiaBaja[b].activo
         /\ webhook[urlBaja[b]] \in FilaWebhook

TiposWebhooks == TypeOKWebhooks /\ LocalesWebhooks

\* Every copy of a row counts at most the deliveries that failed, and is off only if
\* they were enough, or somebody asked for it.
Justifica(w, n, bajas, fila) ==
  /\ fila.fallos <= n
  /\ ~fila.activo => w \in bajas \/ n >= MaxFallos

Justificada(w, fila) == Justifica(w, fallidas[w], dadosDeBaja, fila)

Justificados ==
  /\ \A w \in Urls : webhook[w] # SinFila => Justificada(w, webhook[w])
  /\ \A e \in Entregas : pasoEntrega[e] # "reposo" => Justificada(e[2], copia[e])
  /\ \A b \in Bajas :
       pasoBaja[b] \in {"leida", "comparada"} => Justificada(urlBaja[b], copiaBaja[b])

\* While a call of desactivar that no delivery overlaps is in progress, what it found off
\* stays off; and what it ended has no delivery left that could turn it on.
Solas ==
  /\ \A b \in bajasSolas :
       /\ pasoBaja[b] # "reposo"
       /\ pasoBaja[b] \in {"leida", "comparada"} => ~EnEntrega(urlBaja[b])
       /\ pasoBaja[b] = "comparada" /\ "activo" \notin porGuardarBaja[b]
            => ~webhook[urlBaja[b]].activo
  /\ \A w \in firmes : webhook[w] # SinFila /\ ~webhook[w].activo /\ ~EnEntrega(w)

IInvWebhooks == TiposWebhooks /\ Justificados /\ Solas

LEMMA FilasDeWebhook ==
  /\ \A fila \in FilaWebhook :
       /\ TrasExito(fila) \in FilaWebhook /\ TrasFracaso(fila) \in FilaWebhook
       /\ Apagada(fila) \in FilaWebhook
       /\ \A otra \in FilaWebhook, c \in SUBSET {"activo", "fallos"} :
            Fundida(c, fila, otra) \in FilaWebhook
  /\ \A fila, otra : ColumnasDistintas(fila, otra) \subseteq {"activo", "fallos"}
BY WebhooksAssumption
   DEF TrasExito, TrasFracaso, Apagada, Fundida, ColumnasDistintas, FilaWebhook

LEMMA TiposDeEntregar ==
  ASSUME TiposWebhooks, NEW e \in Entregas, Entregar(e)
  PROVE  TiposWebhooks'
<1> USE WebhooksAssumption, SinFilaAssumption, FilasDeWebhook
    DEF TiposWebhooks, TypeOKWebhooks, LocalesWebhooks, entregaVars, bajaVars, historiaWebhook
<1>1. e[2] \in Urls
  BY DEF Entregas
<1>2. CASE Acertar(e) \/ FracasarEntrega(e)
  BY <1>1, <1>2 DEF Acertar, FracasarEntrega
<1>3. CASE Reintentar(e)
  BY <1>3 DEF Reintentar, QuedanIntentos
<1>4. CASE CompararEntrega(e)
  BY <1>4 DEF CompararEntrega
<1>5. CASE EscribirEntrega(e)
  <2>1. Fundida(porGuardar[e], copia[e], webhook[e[2]]) \in FilaWebhook
    BY <1>1, <1>5 DEF EscribirEntrega
  <2>2. TypeOKWebhooks'
    BY <1>1, <1>5, <2>1 DEF EscribirEntrega, Olvidar
  <2>3. \A w \in Urls : webhook[w] \in FilaWebhook => webhook'[w] \in FilaWebhook
    BY <1>1, <1>5, <2>1 DEF EscribirEntrega
  <2> QED
    BY <1>5, <2>2, <2>3 DEF EscribirEntrega, Olvidar, Entregas
<1>6. CASE FallarEntrega(e)
  BY <1>6 DEF FallarEntrega, Olvidar
<1> QED
  BY <1>2, <1>3, <1>4, <1>5, <1>6 DEF Entregar

LEMMA TiposDeBaja ==
  ASSUME TiposWebhooks, NEW b \in Bajas, DarDeBaja(b)
  PROVE  TiposWebhooks'
<1> USE WebhooksAssumption, SinFilaAssumption, FilasDeWebhook
    DEF TiposWebhooks, TypeOKWebhooks, LocalesWebhooks, entregaVars, bajaVars, historiaWebhook
<1>1. ASSUME NEW w \in Urls, LeerBaja(b, w)
      PROVE  TiposWebhooks'
  <2>1. Apagada(webhook[w]) \in FilaWebhook /\ ~Apagada(webhook[w]).activo
    BY <1>1 DEF LeerBaja, Apagada
  <2> QED
    BY <1>1, <2>1 DEF LeerBaja
<1>2. CASE CompararBaja(b)
  BY <1>2 DEF CompararBaja
<1>3. CASE EscribirBaja(b)
  <2>1. Fundida(porGuardarBaja[b], copiaBaja[b], webhook[urlBaja[b]]) \in FilaWebhook
    BY <1>3 DEF EscribirBaja
  <2>2. TypeOKWebhooks'
    BY <1>3, <2>1 DEF EscribirBaja
  <2>3. \A w \in Urls : webhook[w] \in FilaWebhook => webhook'[w] \in FilaWebhook
    BY <1>3, <2>1 DEF EscribirBaja
  <2> QED
    BY <1>3, <2>2, <2>3 DEF EscribirBaja, Entregas
<1> QED
  BY <1>1, <1>2, <1>3 DEF DarDeBaja

LEMMA TiposDeEmpezar ==
  ASSUME TiposWebhooks, NEW a \in Avisadores, NEW ws \in SUBSET Activos, Empezar(a, ws)
  PROVE  TiposWebhooks'
<1> USE SinFilaAssumption
    DEF TiposWebhooks, TypeOKWebhooks, LocalesWebhooks, entregaVars, bajaVars, historiaWebhook,
        Empezar, Activos
<1>1. TypeOKWebhooks'
  BY DEF Entregas
<1>2. LocalesWebhooks'
  BY DEF Entregas
<1> QED
  BY <1>1, <1>2

LEMMA TiposWebhooksInductivos ==
  ASSUME TiposWebhooks, [NextWebhooks]_webhookVars
  PROVE  TiposWebhooks'
<1> USE DEF entregaVars, bajaVars, historiaWebhook
<1>1. ASSUME NEW w \in Urls, CrearWebhook(w)
      PROVE  TiposWebhooks'
  BY <1>1 DEF CrearWebhook, TiposWebhooks, TypeOKWebhooks, LocalesWebhooks, FilaWebhook, Entregas
<1>2. ASSUME NEW p \in Pruebas, Probar(p)
      PROVE  TiposWebhooks'
  <2>1. PICK w \in Activos : Empezar(p, {w})
    BY <1>2 DEF Probar
  <2>2. {w} \in SUBSET Activos /\ p \in Avisadores
    BY <2>1 DEF Avisadores
  <2> QED
    BY <2>1, <2>2, TiposDeEmpezar
<1>3. ASSUME NEW d \in Disparos, DispararEvento(d)
      PROVE  TiposWebhooks'
  <2>1. PICK ws \in SUBSET Activos : Empezar(d, ws)
    BY <1>3 DEF DispararEvento
  <2>2. d \in Avisadores
    BY DEF Avisadores
  <2> QED
    BY <2>1, <2>2, TiposDeEmpezar
<1>4. CASE CaerWebhooks
  BY <1>4, WebhooksAssumption
     DEF CaerWebhooks, TiposWebhooks, TypeOKWebhooks, LocalesWebhooks
<1>5. CASE UNCHANGED webhookVars
  BY <1>5 DEF webhookVars, TiposWebhooks, TypeOKWebhooks, LocalesWebhooks
<1> QED
  BY <1>1, <1>2, <1>3, <1>4, <1>5, TiposDeEntregar, TiposDeBaja DEF NextWebhooks\* What a step writes in a row is justified when what it mixes is.
LEMMA FundidaJustificada ==
  ASSUME NEW w, NEW n \in Nat, NEW d, NEW c, NEW fila \in FilaWebhook,
         NEW otra \in FilaWebhook, Justifica(w, n, d, fila), Justifica(w, n, d, otra)
  PROVE  Justifica(w, n, d, Fundida(c, fila, otra))
BY DEF Justifica, Fundida, FilaWebhook

LEMMA TrasIntentosJustificada ==
  ASSUME NEW w, NEW n \in Nat, NEW d, NEW fila \in FilaWebhook, Justifica(w, n, d, fila)
  PROVE  /\ Justifica(w, n, d, TrasExito(fila))
         /\ Justifica(w, n + 1, d, TrasFracaso(fila))
         /\ Justifica(w, n, d \union {w}, Apagada(fila))
BY WebhooksAssumption DEF Justifica, TrasExito, TrasFracaso, Apagada, FilaWebhook

\* Failures and calls of desactivar are not forgotten.
LEMMA JustificadaSiempre ==
  ASSUME TypeOKWebhooks, [NextWebhooks]_webhookVars, TypeOKWebhooks',
         NEW w \in Urls, NEW fila \in FilaWebhook, Justificada(w, fila)
  PROVE  Justifica(w, fallidas'[w], dadosDeBaja', fila)
<1>1. dadosDeBaja \subseteq dadosDeBaja' /\ fallidas'[w] >= fallidas[w]
  <2> USE DEF entregaVars, bajaVars, historiaWebhook, TypeOKWebhooks
  <2> QED
    BY DEF NextWebhooks, webhookVars, CrearWebhook, DispararEvento, Probar, Empezar, Entregar,
           Acertar, Reintentar, FracasarEntrega, CompararEntrega, EscribirEntrega, FallarEntrega,
           DarDeBaja, LeerBaja, CompararBaja, EscribirBaja, CaerWebhooks
<1>2. fallidas[w] \in Nat /\ fallidas'[w] \in Nat
  BY DEF TypeOKWebhooks
<1> QED
  BY <1>1, <1>2, WebhooksAssumption DEF Justificada, Justifica, FilaWebhook

\* Who writes the row of a webhook.
LEMMA QuienEscribe ==
  ASSUME TiposWebhooks, [NextWebhooks]_webhookVars, NEW w \in Urls
  PROVE  \/ webhook'[w] = webhook[w]
         \/ CrearWebhook(w)
         \/ \E e \in Entregas : EscribirEntrega(e) /\ e[2] = w
         \/ \E b \in Bajas : EscribirBaja(b) /\ urlBaja[b] = w
BY DEF NextWebhooks, webhookVars, CrearWebhook, DispararEvento, Probar, Empezar, Entregar,
       Acertar, Reintentar, FracasarEntrega, CompararEntrega, EscribirEntrega, FallarEntrega,
       DarDeBaja, LeerBaja, CompararBaja, EscribirBaja, CaerWebhooks,
       TiposWebhooks, TypeOKWebhooks

LEMMA FilasJustificadas ==
  ASSUME TiposWebhooks, Justificados, [NextWebhooks]_webhookVars, TiposWebhooks',
         NEW w \in Urls, webhook'[w] # SinFila
  PROVE  Justifica(w, fallidas'[w], dadosDeBaja', webhook'[w])
<1> USE DEF entregaVars, bajaVars, historiaWebhook
<1>1. webhook[w] \in FilaWebhook \union {SinFila} /\ fallidas[w] \in Nat /\ fallidas'[w] \in Nat
  BY DEF TiposWebhooks, TypeOKWebhooks
<1>2. CASE webhook'[w] = webhook[w]
  BY <1>1, <1>2, JustificadaSiempre DEF Justificados, TiposWebhooks
<1>3. CASE CrearWebhook(w)
  BY <1>1, <1>3, WebhooksAssumption
     DEF CrearWebhook, Justifica, TiposWebhooks, TypeOKWebhooks
<1>4. ASSUME NEW e \in Entregas, EscribirEntrega(e), e[2] = w
      PROVE  Justifica(w, fallidas'[w], dadosDeBaja', webhook'[w])
  <2>1. copia[e] \in FilaWebhook /\ webhook[w] \in FilaWebhook
    BY <1>4 DEF EscribirEntrega, TiposWebhooks, LocalesWebhooks
  <2>2. webhook'[w] = Fundida(porGuardar[e], copia[e], webhook[w])
    BY <1>4 DEF EscribirEntrega, TiposWebhooks, TypeOKWebhooks
  <2>3. Justificada(w, copia[e]) /\ Justificada(w, webhook[w])
    BY <1>4, <2>1, SinFilaAssumption DEF EscribirEntrega, Justificados
  <2>4. UNCHANGED <<fallidas, dadosDeBaja>>
    BY <1>4 DEF EscribirEntrega
  <2> QED
    BY <1>1, <2>1, <2>2, <2>3, <2>4, FundidaJustificada DEF Justificada
<1>5. ASSUME NEW b \in Bajas, EscribirBaja(b), urlBaja[b] = w
      PROVE  Justifica(w, fallidas'[w], dadosDeBaja', webhook'[w])
  <2>1. copiaBaja[b] \in FilaWebhook /\ webhook[w] \in FilaWebhook
    BY <1>5 DEF EscribirBaja, TiposWebhooks, LocalesWebhooks
  <2>2. webhook'[w] = Fundida(porGuardarBaja[b], copiaBaja[b], webhook[w])
    BY <1>5 DEF EscribirBaja, TiposWebhooks, TypeOKWebhooks
  <2>3. Justificada(w, copiaBaja[b]) /\ Justificada(w, webhook[w])
    BY <1>5, <2>1, SinFilaAssumption DEF EscribirBaja, Justificados
  <2>4. UNCHANGED <<fallidas, dadosDeBaja>>
    BY <1>5 DEF EscribirBaja
  <2> QED
    BY <1>1, <2>1, <2>2, <2>3, <2>4, FundidaJustificada DEF Justificada
<1> QED
  BY <1>2, <1>3, <1>4, <1>5, QuienEscribe

LEMMA CopiasJustificadas ==
  ASSUME TiposWebhooks, Justificados, [NextWebhooks]_webhookVars, TiposWebhooks',
         NEW e \in Entregas, pasoEntrega'[e] # "reposo"
  PROVE  Justifica(e[2], fallidas'[e[2]], dadosDeBaja', copia'[e])
<1> USE DEF entregaVars, bajaVars, historiaWebhook
<1>1. e[2] \in Urls /\ fallidas[e[2]] \in Nat
  BY DEF Entregas, TiposWebhooks, TypeOKWebhooks
<1>2. CASE pasoEntrega[e] # "reposo" /\ copia'[e] = copia[e]
  BY <1>1, <1>2, JustificadaSiempre DEF Justificados, TiposWebhooks, LocalesWebhooks
<1>3. CASE Acertar(e)
  <2>1. copia[e] \in FilaWebhook /\ Justificada(e[2], copia[e])
    BY <1>3 DEF Acertar, TiposWebhooks, LocalesWebhooks, Justificados
  <2>2. copia'[e] = TrasExito(copia[e]) /\ UNCHANGED <<fallidas, dadosDeBaja>>
    BY <1>3 DEF Acertar, TiposWebhooks, TypeOKWebhooks
  <2> QED
    BY <1>1, <2>1, <2>2, TrasIntentosJustificada DEF Justificada
<1>4. CASE FracasarEntrega(e)
  <2>1. copia[e] \in FilaWebhook /\ Justificada(e[2], copia[e])
    BY <1>4 DEF FracasarEntrega, TiposWebhooks, LocalesWebhooks, Justificados
  <2>2. /\ copia'[e] = TrasFracaso(copia[e]) /\ UNCHANGED dadosDeBaja
        /\ fallidas'[e[2]] = fallidas[e[2]] + 1
    BY <1>1, <1>4 DEF FracasarEntrega, TiposWebhooks, TypeOKWebhooks
  <2> QED
    BY <1>1, <2>1, <2>2, TrasIntentosJustificada DEF Justificada
<1>5. CASE copia'[e] = webhook[e[2]] /\ webhook[e[2]] \in FilaWebhook
  BY <1>1, <1>5, JustificadaSiempre, SinFilaAssumption DEF Justificados, TiposWebhooks
<1>6. ASSUME NEW a \in Avisadores, NEW ws \in SUBSET Activos, Empezar(a, ws)
      PROVE  \/ pasoEntrega[e] # "reposo" /\ copia'[e] = copia[e]
             \/ copia'[e] = webhook[e[2]] /\ webhook[e[2]] \in FilaWebhook
  BY <1>6 DEF Empezar, Activos, TiposWebhooks, TypeOKWebhooks
<1>7. (\E d \in Disparos : DispararEvento(d)) \/ (\E p \in Pruebas : Probar(p))
        => \E a \in Avisadores : \E ws \in SUBSET Activos : Empezar(a, ws)
  BY DEF DispararEvento, Probar, Avisadores
<1>8. ASSUME NEW z \in Entregas, Entregar(z), ~Acertar(e), ~FracasarEntrega(e)
      PROVE  pasoEntrega[e] # "reposo" /\ copia'[e] = copia[e]
  BY <1>8 DEF Entregar, Acertar, Reintentar, FracasarEntrega, CompararEntrega, EscribirEntrega,
         FallarEntrega, Olvidar, TiposWebhooks, TypeOKWebhooks
<1>9. CASE (\E w \in Urls : CrearWebhook(w)) \/ (\E b \in Bajas : DarDeBaja(b))
           \/ UNCHANGED webhookVars
  BY <1>2, <1>9 DEF CrearWebhook, DarDeBaja, LeerBaja, CompararBaja, EscribirBaja, webhookVars
<1>10. ~CaerWebhooks
  BY DEF CaerWebhooks
<1> QED
  BY <1>2, <1>3, <1>4, <1>5, <1>6, <1>7, <1>8, <1>9, <1>10 DEF NextWebhooks

LEMMA BajasJustificadas ==
  ASSUME TiposWebhooks, Justificados, [NextWebhooks]_webhookVars, TiposWebhooks',
         NEW b \in Bajas, pasoBaja'[b] \in {"leida", "comparada"}
  PROVE  Justifica(urlBaja'[b], fallidas'[urlBaja'[b]], dadosDeBaja', copiaBaja'[b])
<1> USE DEF entregaVars, bajaVars, historiaWebhook
<1>1. CASE /\ pasoBaja[b] \in {"leida", "comparada"}
           /\ urlBaja'[b] = urlBaja[b] /\ copiaBaja'[b] = copiaBaja[b]
  <2>1. urlBaja[b] \in Urls /\ copiaBaja[b] \in FilaWebhook
    BY <1>1 DEF TiposWebhooks, TypeOKWebhooks, LocalesWebhooks
  <2>2. Justificada(urlBaja[b], copiaBaja[b])
    BY <1>1 DEF Justificados
  <2> QED
    BY <1>1, <2>1, <2>2, JustificadaSiempre DEF TiposWebhooks
<1>2. ASSUME NEW w \in Urls, LeerBaja(b, w)
      PROVE  Justifica(urlBaja'[b], fallidas'[urlBaja'[b]], dadosDeBaja', copiaBaja'[b])
  <2>1. webhook[w] \in FilaWebhook /\ Justificada(w, webhook[w]) /\ fallidas[w] \in Nat
    BY <1>2 DEF LeerBaja, Justificados, TiposWebhooks, TypeOKWebhooks
  <2>2. /\ urlBaja'[b] = w /\ copiaBaja'[b] = Apagada(webhook[w])
        /\ dadosDeBaja' = dadosDeBaja \union {w} /\ fallidas' = fallidas
    BY <1>2 DEF LeerBaja, TiposWebhooks, TypeOKWebhooks
  <2>3. Justifica(w, fallidas[w], dadosDeBaja \union {w}, Apagada(webhook[w]))
    BY <2>1, TrasIntentosJustificada DEF Justificada
  <2> QED
    BY <2>2, <2>3
<1>3. ASSUME NEW z \in Bajas, DarDeBaja(z), \A w \in Urls : ~LeerBaja(b, w)
      PROVE  /\ pasoBaja[b] \in {"leida", "comparada"}
             /\ urlBaja'[b] = urlBaja[b] /\ copiaBaja'[b] = copiaBaja[b]
  BY <1>3 DEF DarDeBaja, LeerBaja, CompararBaja, EscribirBaja, TiposWebhooks, TypeOKWebhooks
<1>4. CASE UNCHANGED bajaVars
  BY <1>1, <1>4
<1>5. ~CaerWebhooks
  BY DEF CaerWebhooks, TiposWebhooks, TypeOKWebhooks
<1> QED
  BY <1>1, <1>2, <1>3, <1>4, <1>5
     DEF NextWebhooks, webhookVars, CrearWebhook, DispararEvento, Probar, Empezar, Entregar,
         Acertar, Reintentar, FracasarEntrega, CompararEntrega, EscribirEntrega, FallarEntrega

LEMMA JustificadosInductiva ==
  ASSUME TiposWebhooks, Justificados, [NextWebhooks]_webhookVars, TiposWebhooks'
  PROVE  Justificados'
BY FilasJustificadas, CopiasJustificadas, BajasJustificadas DEF Justificados, Justificada

\* Without deliveries of a webhook in progress, only a call of disparar or probar brings one.
LEMMA QuienEmpieza ==
  ASSUME TiposWebhooks, [NextWebhooks]_webhookVars, NEW w \in Urls, ~EnEntrega(w)
  PROVE  \/ ~EnEntrega(w)'
         \/ \E a \in Avisadores : \E ws \in SUBSET Activos : Empezar(a, ws) /\ w \in ws
<1> USE DEF entregaVars, bajaVars, historiaWebhook, TiposWebhooks, TypeOKWebhooks, EnEntrega
<1>1. CASE UNCHANGED pasoEntrega
  BY <1>1
<1>2. ASSUME NEW z \in Entregas, Entregar(z)
      PROVE  ~EnEntrega(w)'
  <2>1. pasoEntrega[z] # "reposo" /\ \A y \in Entregas : y # z => pasoEntrega'[y] = pasoEntrega[y]
    BY <1>2 DEF Entregar, Acertar, Reintentar, FracasarEntrega, CompararEntrega, EscribirEntrega,
                FallarEntrega, Olvidar
  <2> QED
    BY <2>1 DEF Entregas
<1>3. ASSUME NEW a \in Avisadores, NEW ws \in SUBSET Activos, Empezar(a, ws), w \notin ws
      PROVE  ~EnEntrega(w)'
  BY <1>3 DEF Empezar, Entregas
<1>4. (\E d \in Disparos : DispararEvento(d)) \/ (\E p \in Pruebas : Probar(p))
        => \E a \in Avisadores : \E ws \in SUBSET Activos : Empezar(a, ws)
  BY DEF DispararEvento, Probar, Avisadores
<1>5. CaerWebhooks => ~EnEntrega(w)'
  BY DEF CaerWebhooks, Entregas
<1> QED
  BY <1>1, <1>2, <1>3, <1>4, <1>5
     DEF NextWebhooks, webhookVars, CrearWebhook, DarDeBaja, LeerBaja, CompararBaja, EscribirBaja

\* What is off, and has no delivery in progress, stays off in a step.
LEMMA ApagadoUnPaso ==
  ASSUME TiposWebhooks, [NextWebhooks]_webhookVars, NEW w \in Urls, ~EnEntrega(w),
         webhook[w] # SinFila, ~webhook[w].activo
  PROVE  webhook'[w] # SinFila /\ ~webhook'[w].activo
<1>1. ASSUME NEW e \in Entregas, EscribirEntrega(e), e[2] = w
      PROVE  FALSE
  BY <1>1 DEF EscribirEntrega, EnEntrega, Entregas
<1>2. ASSUME NEW b \in Bajas, EscribirBaja(b), urlBaja[b] = w
      PROVE  webhook'[w] # SinFila /\ ~webhook'[w].activo
  <2>1. webhook'[w] = Fundida(porGuardarBaja[b], copiaBaja[b], webhook[w])
    BY <1>2 DEF EscribirBaja, TiposWebhooks, TypeOKWebhooks
  <2>2. ~copiaBaja[b].activo
    BY <1>2 DEF EscribirBaja, TiposWebhooks, LocalesWebhooks
  <2>3. webhook'[w] # SinFila
    <3>1. /\ copiaBaja[b] \in FilaWebhook /\ webhook[w] \in FilaWebhook
          /\ porGuardarBaja[b] \in SUBSET {"activo", "fallos"}
      BY <1>2 DEF EscribirBaja, TiposWebhooks, TypeOKWebhooks, LocalesWebhooks
    <3>2. webhook'[w] \in FilaWebhook
      BY <2>1, <3>1, FilasDeWebhook
    <3> QED
      BY <3>2, SinFilaAssumption
  <2> QED
    BY <2>1, <2>2, <2>3 DEF Fundida
<1> QED
  BY <1>1, <1>2, QuienEscribe DEF CrearWebhook

LEMMA SolasInductiva ==
  ASSUME TiposWebhooks, Solas, [NextWebhooks]_webhookVars, TiposWebhooks'
  PROVE  Solas'
<1> USE DEF entregaVars, bajaVars, historiaWebhook
<1>1. ASSUME NEW b \in bajasSolas', NEW w \in Urls, LeerBaja(b, w)
      PROVE  /\ pasoBaja'[b] = "leida" /\ ~EnEntrega(urlBaja[b])'
  <2>1. b \in Bajas /\ b \notin bajasSolas
    BY <1>1 DEF LeerBaja, Solas, TiposWebhooks, TypeOKWebhooks
  <2>2. ~EnEntrega(w) /\ urlBaja'[b] = w /\ pasoBaja'[b] = "leida"
    BY <1>1, <2>1 DEF LeerBaja, TiposWebhooks, TypeOKWebhooks
  <2> QED
    BY <1>1, <2>2 DEF LeerBaja, EnEntrega
<1>2. ASSUME NEW b \in bajasSolas', \A w \in Urls : ~LeerBaja(b, w)
      PROVE  /\ b \in Bajas /\ b \in bajasSolas
             /\ urlBaja'[b] = urlBaja[b] /\ pasoBaja'[b] # "reposo"
             /\ \/ pasoBaja'[b] = "hecha"
                \/ /\ pasoBaja'[b] = pasoBaja[b]
                   /\ porGuardarBaja'[b] = porGuardarBaja[b]
                \/ CompararBaja(b)
  BY <1>2 DEF Solas, NextWebhooks, webhookVars, CrearWebhook, DispararEvento, Probar, Empezar, Entregar,
         Acertar, Reintentar, FracasarEntrega, CompararEntrega, EscribirEntrega, FallarEntrega,
         DarDeBaja, LeerBaja, CompararBaja, EscribirBaja, CaerWebhooks,
         TiposWebhooks, TypeOKWebhooks
<1>3. ASSUME NEW b \in bajasSolas', \A w \in Urls : ~LeerBaja(b, w),
             pasoBaja'[b] \in {"leida", "comparada"}
      PROVE  /\ ~EnEntrega(urlBaja[b]) /\ ~EnEntrega(urlBaja[b])'
             /\ urlBaja[b] \in Urls /\ webhook[urlBaja[b]] \in FilaWebhook
  <2>1. pasoBaja[b] \in {"leida", "comparada"}
    BY <1>2, <1>3 DEF CompararBaja
  <2>2. /\ ~EnEntrega(urlBaja[b]) /\ urlBaja[b] \in Urls
        /\ webhook[urlBaja[b]] \in FilaWebhook
    BY <1>2, <1>3, <2>1 DEF Solas, TiposWebhooks, TypeOKWebhooks, LocalesWebhooks
  <2>3. ASSUME NEW a \in Avisadores, NEW ws \in SUBSET Activos, Empezar(a, ws)
        PROVE  urlBaja[b] \notin ws
    BY <1>3, <2>3 DEF Empezar
  <2>4. urlBaja'[b] = urlBaja[b]
    BY <1>2, <1>3
  <2> QED
    BY <2>2, <2>3, <2>4, QuienEmpieza DEF EnEntrega
<1>4. ASSUME NEW b \in bajasSolas', \A w \in Urls : ~LeerBaja(b, w),
             pasoBaja'[b] = "comparada", "activo" \notin porGuardarBaja'[b]
      PROVE  ~webhook'[urlBaja'[b]].activo
  <2>1. CASE CompararBaja(b)
    <3>1. /\ webhook' = webhook /\ "activo" \notin ColumnasDistintas(copiaBaja[b], webhook[urlBaja[b]])
          /\ ~copiaBaja[b].activo /\ copiaBaja[b] \in FilaWebhook
          /\ webhook[urlBaja[b]] \in FilaWebhook
      BY <1>2, <1>4, <2>1 DEF CompararBaja, TiposWebhooks, TypeOKWebhooks, LocalesWebhooks
    <3> QED
      BY <1>2, <1>4, <3>1 DEF ColumnasDistintas, FilaWebhook
  <2>2. CASE ~CompararBaja(b)
    <3>1. pasoBaja[b] = "comparada" /\ "activo" \notin porGuardarBaja[b]
      BY <1>2, <1>4, <2>2
    <3>2. ~webhook[urlBaja[b]].activo
      BY <1>2, <1>4, <3>1 DEF Solas
    <3> QED
      BY <1>2, <1>3, <1>4, <3>2, ApagadoUnPaso, SinFilaAssumption
  <2> QED
    BY <2>1, <2>2
<1>5. ASSUME NEW w \in firmes', w \notin firmes
      PROVE  webhook'[w] # SinFila /\ ~webhook'[w].activo /\ ~EnEntrega(w)'
  <2>1. PICK b \in bajasSolas : EscribirBaja(b) /\ urlBaja[b] = w
    BY <1>5 DEF NextWebhooks, webhookVars, CrearWebhook, DispararEvento, Probar, Empezar, Entregar,
         Acertar, Reintentar, FracasarEntrega, CompararEntrega, EscribirEntrega, FallarEntrega,
         DarDeBaja, LeerBaja, CompararBaja, EscribirBaja, CaerWebhooks
  <2>2. /\ w \in Urls /\ b \in Bajas /\ copiaBaja[b] \in FilaWebhook /\ ~copiaBaja[b].activo
        /\ webhook[w] \in FilaWebhook /\ porGuardarBaja[b] \in SUBSET {"activo", "fallos"}
    BY <2>1 DEF EscribirBaja, TiposWebhooks, TypeOKWebhooks, LocalesWebhooks
  <2>3. ~EnEntrega(w) /\ ("activo" \notin porGuardarBaja[b] => ~webhook[w].activo)
    BY <2>1 DEF EscribirBaja, Solas
  <2>4. webhook'[w] = Fundida(porGuardarBaja[b], copiaBaja[b], webhook[w])
    BY <2>1, <2>2 DEF EscribirBaja, TiposWebhooks, TypeOKWebhooks
  <2>5. webhook'[w] # SinFila
    BY <2>2, <2>4, FilasDeWebhook, SinFilaAssumption
  <2>6. ~EnEntrega(w)'
    BY <2>1, <2>3 DEF EscribirBaja, EnEntrega
  <2> QED
    BY <2>2, <2>3, <2>4, <2>5, <2>6 DEF Fundida
<1>6. ASSUME NEW w \in firmes
      PROVE  webhook'[w] # SinFila /\ ~webhook'[w].activo /\ ~EnEntrega(w)'
  <2>1. w \in Urls /\ webhook[w] # SinFila /\ ~webhook[w].activo /\ ~EnEntrega(w)
    BY DEF Solas, TiposWebhooks, TypeOKWebhooks
  <2>2. ~EnEntrega(w)'
    BY <2>1, QuienEmpieza DEF Activos
  <2> QED
    BY <2>1, <2>2, ApagadoUnPaso
<1>7. ASSUME NEW b \in bajasSolas'
      PROVE  /\ pasoBaja'[b] # "reposo"
             /\ pasoBaja'[b] \in {"leida", "comparada"} => ~EnEntrega(urlBaja[b])'
             /\ (pasoBaja'[b] = "comparada" /\ "activo" \notin porGuardarBaja'[b]
                  => ~webhook'[urlBaja'[b]].activo)
  BY <1>1, <1>2, <1>3, <1>4
<1> QED
  BY <1>5, <1>6, <1>7 DEF Solas

LEMMA InvarianteWebhooksAlInicio == InitWebhooks => IInvWebhooks
<1> SUFFICES ASSUME InitWebhooks PROVE IInvWebhooks
  OBVIOUS
<1> USE WebhooksAssumption DEF InitWebhooks
<1>1. TypeOKWebhooks
  BY DEF TypeOKWebhooks
<1>2. LocalesWebhooks /\ Justificados /\ Solas
  BY DEF LocalesWebhooks, Justificados, Solas
<1> QED
  BY <1>1, <1>2 DEF IInvWebhooks, TiposWebhooks

LEMMA InvarianteWebhooksPaso ==
  ASSUME IInvWebhooks, [NextWebhooks]_webhookVars
  PROVE  IInvWebhooks'
BY TiposWebhooksInductivos, JustificadosInductiva, SolasInductiva DEF IInvWebhooks

LEMMA InvarianteWebhooks == SpecWebhooks => []IInvWebhooks
BY InvarianteWebhooksAlInicio, InvarianteWebhooksPaso, PTL DEF SpecWebhooks

\* A webhook that was ended while none of its deliveries was in progress stays ended:
\* for any number of events, tests, other calls of desactivar and restarts.
THEOREM BajaSiempreFirme == SpecWebhooks => []BajaFirme
<1>1. IInvWebhooks => BajaFirme
  BY DEF IInvWebhooks, Solas, BajaFirme
<1> QED
  BY <1>1, InvarianteWebhooks, PTL

\* A webhook is off only after MaxFallos failed deliveries or a call of desactivar,
\* whatever the stale copies that overlapping deliveries save.
THEOREM ApagadoSiempreJustificado == SpecWebhooks => []ApagadoJustificado
<1>1. IInvWebhooks => ApagadoJustificado
  BY DEF IInvWebhooks, Justificados, Justificada, Justifica, ApagadoJustificado
<1> QED
  BY <1>1, InvarianteWebhooks, PTL

-----------------------------------------------------------------------------
(* Impresion                                                               *)

\* A ticket that no call has left the bridge for.
SinTocar(t) ==
  /\ emitidas[t] = 0
  /\ t \notin Pendientes
  /\ \A h \in Procesadores : t \notin ronda[h] /\ enviado[h] # t

\* Where a ticket is on its way, and that each pending job is in the file of its name.
Camino ==
  /\ lector = "enviando" <=> enMano \in Tickets
  /\ enMano \notin carpeta
  /\ \A t \in Tickets :
       /\ nombre[t] = SinNombre => t \notin carpeta /\ t # enMano
       /\ nombre[t] = SinNombre \/ t \in carpeta \/ t = enMano => SinTocar(t)
  /\ \A n \in Nombres : cola[n] # SinTicket => nombre[cola[n]] = n

\* The rounds that are about to have an invoice of ticket t issued.
EnviosDe(t) == IF Extraible(t) THEN {h \in Procesadores : enviado[h] = t} ELSE {}

\* A pending job that no round is sending can be sent once without anybody repeating it.
PorEnviar(t) ==
  IF nombre[t] \in Nombres /\ cola[nombre[t]] = t /\ EnviosDe(t) = {} THEN 1 ELSE 0

Cuenta(t) == emitidas[t] + Cardinality(EnviosDe(t)) + PorEnviar(t)

Explicadas == \A t \in Tickets : Cuenta(t) <= 1 + cortes[t] + ajenas[t]

IInvImpresion == TypeOKImpresion /\ Camino /\ Explicadas /\ PerdidasExplicadas

LEMMA ExtraibleIgual ==
  ASSUME plantilla' = plantilla
  PROVE  \A t : Extraible(t)' <=> Extraible(t)
BY DEF Extraible

LEMMA TiposDeEncolar ==
  ASSUME TypeOKImpresion, NEW t \in Tickets, nombre[t] \in Nombres, Encolar(t)
  PROVE  /\ cola' \in [Nombres -> Tickets \union {SinTicket}]
         /\ pisados' \subseteq Tickets /\ sinCola' \subseteq Tickets
BY DEF Encolar, Guardado, TypeOKImpresion

LEMMA TiposImpresionInductivos ==
  ASSUME TypeOKImpresion, Camino, [NextImpresion]_impresionVars
  PROVE  TypeOKImpresion'
<1> USE ImpresionAssumption
    DEF TypeOKImpresion, configVars, colaVars, lectorVars, historiaImpresion, Soltar
<1>1. ASSUME NEW t \in Tickets, NEW n \in Nombres, Imprimir(t, n)
      PROVE  TypeOKImpresion'
  BY <1>1 DEF Imprimir
<1>2. ASSUME NEW t \in Tickets, Tomar(t) \/ Descartar(t)
      PROVE  TypeOKImpresion'
  BY <1>2 DEF Tomar, Descartar
<1>3. CASE CortarLectura
  BY <1>3 DEF CortarLectura
<1>4. CASE EnviarConExito \/ EnviarSinClave
  <2>1. enMano \in Tickets
    BY <1>4 DEF EnviarConExito, EnviarSinClave, Camino
  <2> QED
    BY <1>4, <2>1 DEF EnviarConExito, EnviarSinClave
<1>5. CASE EnviarConFallo
  <2>1. enMano \in Tickets /\ nombre[enMano] \in Nombres
    BY <1>5 DEF EnviarConFallo, Camino
  <2>2. /\ cola' \in [Nombres -> Tickets \union {SinTicket}]
        /\ pisados' \subseteq Tickets /\ sinCola' \subseteq Tickets
    BY <1>5, <2>1, TiposDeEncolar DEF EnviarConFallo
  <2> QED
    BY <1>5, <2>1, <2>2 DEF EnviarConFallo, ResultadoIncierto
<1>6. ASSUME NEW h \in Procesadores, Abrir(h)
      PROVE  TypeOKImpresion'
  <2>1. Pendientes \in SUBSET Tickets
    BY DEF Pendientes
  <2> QED
    BY <1>6, <2>1 DEF Abrir
<1>7. ASSUME NEW h \in Procesadores, NEW t \in Tickets, Reenviar(h, t)
      PROVE  TypeOKImpresion'
  BY <1>7 DEF Reenviar
<1>8. ASSUME NEW h \in Procesadores, ReenviarConExito(h)
      PROVE  TypeOKImpresion'
  <2>1. enviado[h] \in Tickets /\ nombre[enviado[h]] \in Nombres
    BY <1>8 DEF ReenviarConExito, Camino, SinTocar
  <2> QED
    BY <1>8, <2>1 DEF ReenviarConExito, Quitado
<1>9. ASSUME NEW h \in Procesadores, ReenviarConFallo(h) \/ ReenviarEnVano(h)
      PROVE  TypeOKImpresion'
  BY <1>9 DEF ReenviarConFallo, ReenviarEnVano, ResultadoIncierto
<1>10. ASSUME NEW p \in Plantillas \union {SinPlantilla}, CaerPuente(p)
       PROVE  TypeOKImpresion'
  BY <1>10 DEF CaerPuente
<1>11. CASE UNCHANGED impresionVars
  BY <1>11 DEF impresionVars
<1> QED
  BY <1>1, <1>2, <1>3, <1>4, <1>5, <1>6, <1>7, <1>8, <1>9, <1>10, <1>11
     DEF NextImpresion, Ronda

\* A pending job is in the file of its name, and nowhere else.
LEMMA DondeEstaPendiente ==
  ASSUME TypeOKImpresion, Camino, NEW t \in Tickets
  PROVE  t \in Pendientes <=> nombre[t] \in Nombres /\ cola[nombre[t]] = t
BY ImpresionAssumption DEF TypeOKImpresion, Camino, Pendientes

LEMMA CaminoInductivo ==
  ASSUME TypeOKImpresion, Camino, [NextImpresion]_impresionVars
  PROVE  Camino'
<1> USE ImpresionAssumption
    DEF TypeOKImpresion, configVars, colaVars, lectorVars, historiaImpresion, Soltar,
        Camino, SinTocar, Pendientes
<1>1. ASSUME NEW t \in Tickets, NEW n \in Nombres, Imprimir(t, n)
      PROVE  Camino'
  BY <1>1 DEF Imprimir
<1>2. ASSUME NEW t \in Tickets, Tomar(t) \/ Descartar(t)
      PROVE  Camino'
  BY <1>2 DEF Tomar, Descartar
<1>3. CASE CortarLectura
  BY <1>3 DEF CortarLectura
<1>4. CASE EnviarConExito \/ EnviarSinClave
  BY <1>4 DEF EnviarConExito, EnviarSinClave
<1>5. CASE EnviarConFallo
  <2>1. \A t \in Tickets : t # enMano => emitidas'[t] = emitidas[t]
    BY <1>5 DEF EnviarConFallo, ResultadoIncierto
  <2>2. \A n \in Nombres : cola'[n] = cola[n] \/ (cola'[n] = enMano /\ nombre[enMano] = n)
    BY <1>5 DEF EnviarConFallo, Encolar, Guardado
  <2> QED
    BY <1>5, <2>1, <2>2 DEF EnviarConFallo
<1>6. ASSUME NEW h \in Procesadores, Abrir(h)
      PROVE  Camino'
  BY <1>6 DEF Abrir
<1>7. ASSUME NEW h \in Procesadores, NEW t \in Tickets, Reenviar(h, t)
      PROVE  Camino'
  BY <1>7 DEF Reenviar
<1>8. ASSUME NEW h \in Procesadores, ReenviarConExito(h)
      PROVE  Camino'
  <2>1. \A t \in Tickets : t # enviado[h] => emitidas'[t] = emitidas[t]
    BY <1>8 DEF ReenviarConExito
  <2>2. \A n \in Nombres : cola'[n] = cola[n] \/ cola'[n] = SinTicket
    BY <1>8 DEF ReenviarConExito, Quitado
  <2> QED
    BY <1>8, <2>1, <2>2 DEF ReenviarConExito
<1>9. ASSUME NEW h \in Procesadores, ReenviarConFallo(h) \/ ReenviarEnVano(h)
      PROVE  Camino'
  <2>1. \A t \in Tickets : t # enviado[h] => emitidas'[t] = emitidas[t]
    BY <1>9 DEF ReenviarConFallo, ReenviarEnVano, ResultadoIncierto
  <2>2. \A i \in Procesadores : ronda'[i] \subseteq ronda[i] /\ enviado'[i] \in {enviado[i], SinTicket}
    BY <1>9 DEF ReenviarConFallo, ReenviarEnVano
  <2>3. UNCHANGED <<nombre, carpeta, lector, enMano, cola>>
    BY <1>9 DEF ReenviarConFallo, ReenviarEnVano
  <2>4. enviado[h] \in Tickets
    BY <1>9 DEF ReenviarConFallo, ReenviarEnVano
  <2> QED
    BY <2>1, <2>2, <2>3, <2>4
<1>10. ASSUME NEW p \in Plantillas \union {SinPlantilla}, CaerPuente(p)
       PROVE  Camino'
  <2>1. \A t \in Tickets :
          t # enMano /\ (\A h \in Procesadores : enviado[h] # t) => emitidas'[t] = emitidas[t]
    BY <1>10 DEF CaerPuente
  <2>2. UNCHANGED <<nombre, carpeta, cola>> /\ lector' = "espera" /\ enMano' = SinTicket
    BY <1>10 DEF CaerPuente
  <2>3. \A h \in Procesadores : ronda'[h] = {} /\ enviado'[h] = SinTicket
    BY <1>10 DEF CaerPuente
  <2> QED
    BY <2>1, <2>2, <2>3
<1>11. CASE UNCHANGED impresionVars
  BY <1>11 DEF impresionVars
<1> QED
  BY <1>1, <1>2, <1>3, <1>4, <1>5, <1>6, <1>7, <1>8, <1>9, <1>10, <1>11
     DEF NextImpresion, Ronda

LEMMA PerdidasInductiva ==
  ASSUME TypeOKImpresion, Camino, PerdidasExplicadas, [NextImpresion]_impresionVars
  PROVE  PerdidasExplicadas'
<1> SUFFICES ASSUME NEW t \in Tickets, nombre'[t] # SinNombre
             PROVE  EnAlgunSitio(t)' \/ t \in caidos' \/ t \in pisados' \/ t \in sinCola'
  BY DEF PerdidasExplicadas
<1> USE ImpresionAssumption
    DEF TypeOKImpresion, configVars, colaVars, lectorVars, historiaImpresion, Soltar,
        EnAlgunSitio, Pendientes
<1>0. nombre[t] # SinNombre =>
        EnAlgunSitio(t) \/ t \in caidos \/ t \in pisados \/ t \in sinCola
  BY DEF PerdidasExplicadas
<1> HIDE DEF EnAlgunSitio
<1> DEFINE Explicado == EnAlgunSitio(t) \/ t \in caidos \/ t \in pisados \/ t \in sinCola
<1>1. ASSUME NEW u \in Tickets, NEW n \in Nombres, Imprimir(u, n)
      PROVE  Explicado'
  BY <1>0, <1>1 DEF Imprimir, EnAlgunSitio
<1>2. ASSUME NEW u \in Tickets, Tomar(u) \/ Descartar(u)
      PROVE  Explicado'
  BY <1>0, <1>2 DEF Tomar, Descartar, EnAlgunSitio, Camino
<1>3. CASE CortarLectura
  BY <1>0, <1>3 DEF CortarLectura, EnAlgunSitio
<1>4. CASE EnviarConExito \/ EnviarSinClave
  <2>1. enMano \in Tickets
    BY <1>4 DEF EnviarConExito, EnviarSinClave, Camino
  <2> QED
    BY <1>0, <1>4, <2>1 DEF EnviarConExito, EnviarSinClave, EnAlgunSitio
<1>5. CASE EnviarConFallo
  <2>1. enMano \in Tickets /\ nombre[enMano] \in Nombres
    BY <1>5 DEF EnviarConFallo, Camino
  <2>2. /\ UNCHANGED <<nombre, carpeta, rechazados, caidos>>
        /\ emitidas[t] > 0 => emitidas'[t] > 0
    BY <1>5, <2>1 DEF EnviarConFallo, ResultadoIncierto
  <2>3. CASE conCola
    <3>1. cola' = Guardado(enMano) /\ sinCola' = sinCola
          /\ pisados' = pisados \union ({cola[nombre[enMano]]} \ {SinTicket})
      BY <1>5, <2>3 DEF EnviarConFallo, Encolar
    <3>2. cola'[nombre[enMano]] = enMano
      BY <2>1, <3>1 DEF Guardado
    <3>3. t \in Pendientes => t \in Pendientes' \/ t \in pisados'
      BY <2>1, <3>1 DEF Guardado
    <3> QED
      BY <1>0, <2>1, <2>2, <3>1, <3>2, <3>3 DEF EnAlgunSitio
  <2>4. CASE ~conCola
    <3>1. cola' = cola /\ sinCola' = sinCola \union {enMano} /\ pisados' = pisados
      BY <1>5, <2>4 DEF EnviarConFallo, Encolar
    <3> QED
      BY <1>0, <2>1, <2>2, <3>1 DEF EnAlgunSitio
  <2> QED
    BY <2>3, <2>4
<1>6. ASSUME NEW h \in Procesadores, Abrir(h) \/ ReenviarConFallo(h) \/ ReenviarEnVano(h)
      PROVE  Explicado'
  <2>1. UNCHANGED <<nombre, carpeta, enMano, cola, rechazados, caidos, pisados, sinCola>>
    BY <1>6 DEF Abrir, ReenviarConFallo, ReenviarEnVano
  <2>2. emitidas[t] > 0 => emitidas'[t] > 0
    BY <1>6 DEF Abrir, ReenviarConFallo, ReenviarEnVano, ResultadoIncierto
  <2> QED
    BY <1>0, <2>1, <2>2 DEF EnAlgunSitio
<1>7. ASSUME NEW h \in Procesadores, NEW u \in Tickets, Reenviar(h, u)
      PROVE  Explicado'
  BY <1>0, <1>7 DEF Reenviar, EnAlgunSitio
<1>8. ASSUME NEW h \in Procesadores, ReenviarConExito(h)
      PROVE  Explicado'
  <2>1. enviado[h] \in Tickets /\ nombre[enviado[h]] \in Nombres
    BY <1>8 DEF ReenviarConExito, Camino, SinTocar
  <2>2. /\ UNCHANGED <<nombre, carpeta, enMano, rechazados, caidos, sinCola>>
        /\ emitidas[t] > 0 \/ t = enviado[h] => emitidas'[t] > 0
    BY <1>8, <2>1 DEF ReenviarConExito
  <2>3. t \in Pendientes => t \in Pendientes' \/ t \in pisados' \/ t = enviado[h]
    BY <1>8, <2>1 DEF ReenviarConExito, Quitado
  <2>4. pisados \subseteq pisados'
    BY <1>8 DEF ReenviarConExito
  <2> QED
    BY <1>0, <2>2, <2>3, <2>4 DEF EnAlgunSitio
<1>9. ASSUME NEW p \in Plantillas \union {SinPlantilla}, CaerPuente(p)
      PROVE  Explicado'
  <2>1. /\ UNCHANGED <<nombre, carpeta, cola, rechazados, pisados, sinCola>>
        /\ caidos' = caidos \union ({enMano} \ {SinTicket})
        /\ emitidas[t] > 0 => emitidas'[t] > 0
    BY <1>9 DEF CaerPuente
  <2> QED
    BY <1>0, <2>1 DEF EnAlgunSitio
<1>10. CASE UNCHANGED impresionVars
  BY <1>0, <1>10 DEF impresionVars, EnAlgunSitio
<1> QED
  BY <1>1, <1>2, <1>3, <1>4, <1>5, <1>6, <1>7, <1>8, <1>9, <1>10
     DEF NextImpresion, Ronda

LEMMA EnviosFinitos ==
  \A t : /\ IsFiniteSet(EnviosDe(t)) /\ Cardinality(EnviosDe(t)) \in Nat
         /\ Cardinality(EnviosDe(t)) = 0 <=> EnviosDe(t) = {}
<1> TAKE t
<1>1. EnviosDe(t) \in SUBSET Procesadores
  BY DEF EnviosDe
<1>2. IsFiniteSet(EnviosDe(t))
  BY <1>1, ImpresionAssumption, FS_Subset
<1> QED
  BY <1>2, FS_CardinalityType, FS_EmptySet

\* A call of a round that ends.
LEMMA EnvioTerminado ==
  ASSUME TypeOKImpresion, plantilla' = plantilla, NEW h \in Procesadores, NEW t \in Tickets,
         enviado' = [enviado EXCEPT ![h] = SinTicket]
  PROVE  /\ EnviosDe(t)' = EnviosDe(t) \ {h}
         /\ Cardinality(EnviosDe(t)')
              = Cardinality(EnviosDe(t)) - (IF h \in EnviosDe(t) THEN 1 ELSE 0)
<1>1. EnviosDe(t)' = EnviosDe(t) \ {h}
  BY ExtraibleIgual, ImpresionAssumption DEF EnviosDe, TypeOKImpresion
<1>2. IsFiniteSet(EnviosDe(t)) /\ Cardinality(EnviosDe(t)) \in Nat
  BY EnviosFinitos
<1>3. Cardinality(EnviosDe(t) \ {h})
        = IF h \in EnviosDe(t) THEN Cardinality(EnviosDe(t)) - 1 ELSE Cardinality(EnviosDe(t))
  BY <1>2, FS_RemoveElement
<1> QED
  BY <1>1, <1>2, <1>3

LEMMA ExplicadasInductiva ==
  ASSUME TypeOKImpresion, Camino, Explicadas, [NextImpresion]_impresionVars
  PROVE  Explicadas'
<1> SUFFICES ASSUME NEW t \in Tickets
             PROVE  Cuenta(t)' <= 1 + cortes'[t] + ajenas'[t]
  BY DEF Explicadas
<1> USE ImpresionAssumption
    DEF configVars, colaVars, lectorVars, historiaImpresion, Soltar
<1> DEFINE N == Cardinality(EnviosDe(t))
<1>0. /\ emitidas[t] \in Nat /\ cortes[t] \in Nat /\ ajenas[t] \in Nat
      /\ N \in Nat /\ (N = 0 <=> EnviosDe(t) = {})
      /\ PorEnviar(t) \in {0, 1} /\ (PorEnviar(t) = 1 => N = 0)
      /\ emitidas[t] + N + PorEnviar(t) <= 1 + cortes[t] + ajenas[t]
  BY EnviosFinitos DEF TypeOKImpresion, Explicadas, Cuenta, PorEnviar
<1>a. /\ PorEnviar(t)' \in {0, 1} /\ (PorEnviar(t)' = 1 => EnviosDe(t)' = {})
      /\ Cuenta(t)' = emitidas'[t] + Cardinality(EnviosDe(t)') + PorEnviar(t)'
  BY DEF PorEnviar, Cuenta
\* Steps that move no call of the rounds.
<1>1. ASSUME UNCHANGED <<plantilla, enviado>>
      PROVE  EnviosDe(t)' = EnviosDe(t)
  BY <1>1, ExtraibleIgual DEF EnviosDe
<1>2. ASSUME UNCHANGED <<plantilla, enviado, emitidas, cortes, ajenas>>,
             PorEnviar(t)' = 1 => PorEnviar(t) = 1
      PROVE  Cuenta(t)' <= 1 + cortes'[t] + ajenas'[t]
  BY <1>0, <1>1, <1>2, <1>a
<1>3. ASSUME UNCHANGED <<nombre, cola>>, UNCHANGED EnviosDe(t)
      PROVE  PorEnviar(t)' = PorEnviar(t)
  BY <1>3 DEF PorEnviar
<1> HIDE DEF N
<1>4. ASSUME NEW u \in Tickets, NEW n \in Nombres, Imprimir(u, n)
      PROVE  Cuenta(t)' <= 1 + cortes'[t] + ajenas'[t]
  <2>1. UNCHANGED <<plantilla, enviado, emitidas, cortes, ajenas, cola>>
    BY <1>4 DEF Imprimir
  <2>2. t # u => nombre'[t] = nombre[t]
    BY <1>4 DEF Imprimir, TypeOKImpresion
  <2>3. t = u => t \notin Pendientes /\ nombre'[t] = n
    BY <1>4 DEF Imprimir, TypeOKImpresion, Camino, SinTocar
  <2>4. t = u => cola[n] # t
    BY <2>3 DEF Pendientes
  <2>5. PorEnviar(t)' = 1 => PorEnviar(t) = 1
    BY <1>1, <2>1, <2>2, <2>3, <2>4 DEF PorEnviar
  <2> QED
    BY <1>2, <2>1, <2>5
<1>5. CASE \/ \E u \in Tickets : Tomar(u) \/ Descartar(u)
           \/ CortarLectura \/ EnviarSinClave \/ UNCHANGED impresionVars
           \/ \E h \in Procesadores : Abrir(h)
  <2>1. UNCHANGED <<plantilla, enviado, emitidas, cortes, ajenas, nombre, cola>>
    BY <1>5 DEF Tomar, Descartar, CortarLectura, EnviarSinClave, impresionVars, Abrir
  <2> QED
    BY <1>1, <1>2, <1>3, <2>1
<1>6. CASE EnviarConExito \/ EnviarConFallo
  <2>1. /\ enMano \in Tickets /\ SinTocar(enMano) /\ nombre[enMano] \in Nombres
    BY <1>6 DEF EnviarConExito, EnviarConFallo, Camino, TypeOKImpresion
  <2>2. UNCHANGED <<plantilla, enviado, nombre, ajenas>>
    BY <1>6 DEF EnviarConExito, EnviarConFallo
  <2>3. CASE t = enMano
    <3>1. emitidas[t] = 0 /\ EnviosDe(t) = {}
      BY <2>1, <2>3 DEF SinTocar, EnviosDe
    <3>a. EnviosDe(t)' = {} /\ Cardinality(EnviosDe(t)') = 0
      BY <1>1, <2>2, <3>1, FS_EmptySet
    <3>2. CASE EnviarConExito
      <4>1. emitidas'[t] = 1 /\ UNCHANGED <<cortes, cola>>
        BY <2>3, <3>1, <3>2 DEF EnviarConExito, TypeOKImpresion
      <4>2. PorEnviar(t) = 0
        BY <2>1, <2>3 DEF SinTocar, Pendientes, PorEnviar
      <4> QED
        BY <1>0, <1>3, <1>a, <2>2, <3>1, <3>a, <4>1, <4>2
    <3>3. CASE EnviarConFallo
      <4>1. \/ emitidas'[t] = 1 /\ cortes'[t] = cortes[t] + 1
            \/ emitidas'[t] = 0 /\ cortes'[t] = cortes[t]
        BY <2>3, <3>1, <3>3 DEF EnviarConFallo, ResultadoIncierto, TypeOKImpresion
      <4> QED
        BY <1>0, <1>a, <2>2, <3>1, <3>a, <4>1
    <3> QED
      BY <1>6, <3>2, <3>3
  <2>4. CASE t # enMano
    <3>1. emitidas'[t] = emitidas[t] /\ cortes'[t] = cortes[t]
      BY <1>6, <2>1, <2>4 DEF EnviarConExito, EnviarConFallo, ResultadoIncierto, TypeOKImpresion
    <3>2. \A n \in Nombres : cola'[n] = t => cola[n] = t
      BY <1>6, <2>1, <2>4 DEF EnviarConExito, EnviarConFallo, Encolar, Guardado, TypeOKImpresion
    <3>3. PorEnviar(t)' = 1 => PorEnviar(t) = 1
      BY <1>1, <2>2, <3>2 DEF PorEnviar
    <3> QED
      BY <1>0, <1>1, <1>a, <2>2, <3>1, <3>3 DEF N
  <2> QED
    BY <2>3, <2>4
<1>7. ASSUME NEW h \in Procesadores, NEW u \in Tickets, Reenviar(h, u)
      PROVE  Cuenta(t)' <= 1 + cortes'[t] + ajenas'[t]
  <2>1. /\ UNCHANGED <<plantilla, nombre, cola, emitidas, cortes>>
        /\ enviado[h] = SinTicket /\ enviado' = [enviado EXCEPT ![h] = u]
        /\ nombre[u] \in Nombres
    BY <1>7 DEF Reenviar, Camino, SinTocar, TypeOKImpresion
  <2>2. CASE t # u \/ ~Extraible(t)
    <3>1. EnviosDe(t)' = EnviosDe(t)
      BY <2>1, <2>2, ExtraibleIgual DEF EnviosDe, TypeOKImpresion
    <3>2. ajenas'[t] = ajenas[t]
      BY <1>7, <2>2 DEF Reenviar, Repartido, TypeOKImpresion
    <3> QED
      BY <1>0, <1>3, <1>a, <2>1, <3>1, <3>2 DEF N
  <2>3. CASE t = u /\ Extraible(t)
    <3>1. EnviosDe(t)' = EnviosDe(t) \union {h} /\ h \notin EnviosDe(t)
      BY <2>1, <2>3, ExtraibleIgual DEF EnviosDe, TypeOKImpresion
    <3>2. Cardinality(EnviosDe(t)') = N + 1
      <4>1. IsFiniteSet(EnviosDe(t))
        BY EnviosFinitos
      <4> QED
        BY <3>1, <4>1, FS_AddElement DEF N
    <3>3. PorEnviar(t)' = 0
      BY <1>a, <3>1
    <3>4. CASE Repartido(t)
      <4>1. ajenas'[t] = ajenas[t] + 1
        BY <1>7, <2>3, <3>4 DEF Reenviar, TypeOKImpresion
      <4> QED
        BY <1>0, <1>a, <2>1, <3>2, <3>3, <4>1
    <3>5. CASE ~Repartido(t)
      <4>1. ajenas'[t] = ajenas[t]
        BY <1>7, <2>3, <3>5 DEF Reenviar
      <4>2. PorEnviar(t) = 1
        BY <2>1, <2>3, <3>5 DEF Repartido, PorEnviar, EnviosDe
      <4> QED
        BY <1>0, <1>a, <2>1, <3>2, <3>3, <4>1, <4>2
    <3> QED
      BY <3>4, <3>5
  <2> QED
    BY <2>2, <2>3
<1>8. ASSUME NEW h \in Procesadores, ReenviarConExito(h)
      PROVE  Cuenta(t)' <= 1 + cortes'[t] + ajenas'[t]
  <2>1. /\ UNCHANGED <<plantilla, nombre, cortes, ajenas>> /\ Extraible(enviado[h])
        /\ enviado' = [enviado EXCEPT ![h] = SinTicket]
        /\ enviado[h] \in Tickets /\ nombre[enviado[h]] \in Nombres
    BY <1>8 DEF ReenviarConExito, Camino, SinTocar, TypeOKImpresion
  <2>2. /\ EnviosDe(t)' = EnviosDe(t) \ {h}
        /\ Cardinality(EnviosDe(t)') = N - (IF h \in EnviosDe(t) THEN 1 ELSE 0)
    BY <2>1, EnvioTerminado DEF N
  <2>3. CASE t = enviado[h]
    <3>1. h \in EnviosDe(t) /\ emitidas'[t] = emitidas[t] + 1
      BY <1>8, <2>1, <2>3 DEF EnviosDe, ReenviarConExito, TypeOKImpresion
    <3>2. PorEnviar(t)' = 0
      BY <1>8, <2>1, <2>3 DEF ReenviarConExito, Quitado, PorEnviar, TypeOKImpresion
    <3> QED
      BY <1>0, <1>a, <2>1, <2>2, <3>1, <3>2
  <2>4. CASE t # enviado[h]
    <3>1. h \notin EnviosDe(t) /\ emitidas'[t] = emitidas[t]
      BY <1>8, <2>1, <2>4 DEF EnviosDe, ReenviarConExito, TypeOKImpresion
    <3>2. \A n \in Nombres : cola'[n] = t => cola[n] = t
      BY <1>8, <2>1 DEF ReenviarConExito, Quitado, TypeOKImpresion
    <3>3. PorEnviar(t)' = 1 => PorEnviar(t) = 1
      BY <2>1, <2>2, <3>1, <3>2 DEF PorEnviar
    <3> QED
      BY <1>0, <1>a, <2>1, <2>2, <3>1, <3>3
  <2> QED
    BY <2>3, <2>4
<1>9. ASSUME NEW h \in Procesadores, ReenviarConFallo(h) \/ ReenviarEnVano(h)
      PROVE  Cuenta(t)' <= 1 + cortes'[t] + ajenas'[t]
  <2>1. /\ UNCHANGED <<plantilla, nombre, cola, ajenas>>
        /\ enviado' = [enviado EXCEPT ![h] = SinTicket] /\ enviado[h] \in Tickets
    BY <1>9 DEF ReenviarConFallo, ReenviarEnVano, TypeOKImpresion
  <2>2. /\ EnviosDe(t)' = EnviosDe(t) \ {h}
        /\ Cardinality(EnviosDe(t)') = N - (IF h \in EnviosDe(t) THEN 1 ELSE 0)
    BY <2>1, EnvioTerminado DEF N
  <2>3. \/ emitidas'[t] = emitidas[t] /\ cortes'[t] = cortes[t]
        \/ emitidas'[t] = emitidas[t] + 1 /\ cortes'[t] = cortes[t] + 1
    BY <1>9, <2>1 DEF ReenviarConFallo, ReenviarEnVano, ResultadoIncierto, TypeOKImpresion
  <2>4. h \notin EnviosDe(t) => PorEnviar(t)' = PorEnviar(t)
    BY <2>1, <2>2 DEF PorEnviar
  <2> QED
    BY <1>0, <1>a, <2>1, <2>2, <2>3, <2>4
<1>10. ASSUME NEW p \in Plantillas \union {SinPlantilla}, CaerPuente(p)
       PROVE  Cuenta(t)' <= 1 + cortes'[t] + ajenas'[t]
  <2>1. \/ emitidas'[t] = emitidas[t] /\ cortes'[t] = cortes[t]
        \/ emitidas'[t] = emitidas[t] + 1 /\ cortes'[t] = cortes[t] + 1
    BY <1>0, <1>10 DEF CaerPuente
  <2>2. UNCHANGED <<nombre, cola, ajenas>> /\ \A h \in Procesadores : enviado'[h] = SinTicket
    BY <1>10 DEF CaerPuente
  <2>3. EnviosDe(t)' = {}
    BY <2>2 DEF EnviosDe
  <2>4. Cardinality(EnviosDe(t)') = 0
    BY <2>3, FS_EmptySet
  <2>5. PorEnviar(t)' = 1 => N # 0 \/ PorEnviar(t) = 1
    BY <1>0, <2>2 DEF PorEnviar
  <2> QED
    BY <1>0, <1>a, <2>1, <2>2, <2>4, <2>5
<1> QED
  BY <1>4, <1>5, <1>6, <1>7, <1>8, <1>9, <1>10 DEF NextImpresion, Ronda

LEMMA InvarianteImpresionAlInicio == InitImpresion => IInvImpresion
<1> SUFFICES ASSUME InitImpresion PROVE IInvImpresion
  OBVIOUS
<1> USE ImpresionAssumption DEF InitImpresion
<1>1. TypeOKImpresion
  BY DEF TypeOKImpresion
<1>2. Camino /\ PerdidasExplicadas
  BY DEF Camino, SinTocar, Pendientes, PerdidasExplicadas
<1>3. ASSUME NEW t \in Tickets
      PROVE  Cuenta(t) <= 1 + cortes[t] + ajenas[t]
  <2>1. EnviosDe(t) = {} /\ PorEnviar(t) = 0
    BY DEF EnviosDe, PorEnviar
  <2> QED
    BY <2>1, FS_EmptySet DEF Cuenta
<1> QED
  BY <1>1, <1>2, <1>3 DEF IInvImpresion, Explicadas

LEMMA InvarianteImpresion == SpecImpresion => []IInvImpresion
<1>1. IInvImpresion /\ [NextImpresion]_impresionVars => IInvImpresion'
  BY TiposImpresionInductivos, CaminoInductivo, PerdidasInductiva, ExplicadasInductiva
     DEF IInvImpresion
<1> QED
  BY <1>1, InvarianteImpresionAlInicio, PTL DEF SpecImpresion

\* What happened to every printed ticket follows from what happened on its way: it has
\* more than one invoice only for answers that were lost and calls that two rounds
\* repeated, and none only if it is on its way, was refused, or was lost in a restart,
\* under a file of its name or in a bridge without a queue.  For any number of tickets,
\* rounds, templates, failures and restarts.
THEOREM TicketsSiempreExplicados == SpecImpresion => []TicketsExplicados
<1>1. IInvImpresion => TicketsExplicados
  <2> SUFFICES ASSUME IInvImpresion, NEW t \in Tickets
               PROVE  emitidas[t] <= 1 + cortes[t] + ajenas[t]
    BY DEF IInvImpresion, TicketsExplicados, FacturasExplicadas
  <2>1. /\ emitidas[t] \in Nat /\ cortes[t] \in Nat /\ ajenas[t] \in Nat
        /\ Cardinality(EnviosDe(t)) \in Nat /\ PorEnviar(t) \in {0, 1}
    BY EnviosFinitos DEF IInvImpresion, TypeOKImpresion, PorEnviar
  <2> QED
    BY <2>1 DEF IInvImpresion, Explicadas, Cuenta
<1> QED
  BY <1>1, InvarianteImpresion, PTL

-----------------------------------------------------------------------------
(* All of them                                                             *)

LEMMA TiposEsquemaInductivos ==
  ASSUME TypeOKEsquema, [NextEsquema]_esquemaVars
  PROVE  TypeOKEsquema'
<1> USE EsquemaAssumption DEF TypeOKEsquema, discoVars, xsdVars
<1>1. ASSUME NEW c \in Esquemas \union OtrosXml, Vaciar(c)
      PROVE  TypeOKEsquema'
  BY <1>1 DEF Vaciar
<1>2. CASE Escribir
  BY <1>2 DEF Escribir
<1>3. CASE Suprimir \/ MirarEsquema \/ ReiniciarConversor
  BY <1>3 DEF Suprimir, MirarEsquema, ReiniciarConversor
<1>4. CASE CargarEsquema
  BY <1>4 DEF CargarEsquema, FechaAnotada, Valido
<1>5. CASE UNCHANGED esquemaVars
  BY <1>5 DEF esquemaVars
<1> QED
  BY <1>1, <1>2, <1>3, <1>4, <1>5 DEF NextEsquema

LEMMA EsquemaAlInicio == InitEsquema => TypeOKEsquema
BY EsquemaAssumption DEF InitEsquema, TypeOKEsquema

LEMMA CadaUnoPorSuLado ==
  /\ InitServicios =>
       /\ InitWebhooks /\ InitImpresion /\ Init /\ InitEsquema
       /\ parte \in {"webhooks", "impresion", "interruptor", "esquema"}
  /\ [NextServicios]_<<parte, webhookVars, impresionVars, vars, esquemaVars>> =>
       /\ UNCHANGED parte
       /\ [NextWebhooks]_webhookVars /\ [NextImpresion]_impresionVars
       /\ [Next]_vars /\ [NextEsquema]_esquemaVars
BY DEF InitServicios, NextServicios

\* Whichever component moves, its variables have their types.
THEOREM TiposDeTodos == SpecServicios => []TypeOKServicios
<1> DEFINE Partes == parte \in {"webhooks", "impresion", "interruptor", "esquema"}
           Todos == IInvWebhooks /\ IInvImpresion /\ IInv /\ TypeOKEsquema /\ Partes
           todas == <<parte, webhookVars, impresionVars, vars, esquemaVars>>
<1>1. InitServicios => Todos
  BY CadaUnoPorSuLado, InvarianteWebhooksAlInicio, InvarianteImpresionAlInicio, InvAlInicio,
     EsquemaAlInicio
<1>2. Todos /\ [NextServicios]_todas => Todos'
  <2>1. IInvImpresion /\ [NextImpresion]_impresionVars => IInvImpresion'
    BY TiposImpresionInductivos, CaminoInductivo, PerdidasInductiva, ExplicadasInductiva
       DEF IInvImpresion
  <2> QED
    BY <2>1, CadaUnoPorSuLado, InvarianteWebhooksPaso, PasoDeInv, TiposEsquemaInductivos
<1>3. Todos => TypeOKServicios
  BY DEF TypeOKServicios, IInvWebhooks, TiposWebhooks, IInvImpresion, IInv
<1> QED
  BY <1>1, <1>2, <1>3, PTL DEF SpecServicios

\* Until the operator has written the file, the mtime it got is not that of the schema in
\* use: an empty file is no schema.
PorAcabar == porEscribir # SinXsd => disco = Vacia /\ xsdLastModified < mtime

LEMMA CambioInductivo ==
  ASSUME TypeOKEsquema, PorAcabar, CambioNotado, [NextEsquema]_esquemaVars
  PROVE  PorAcabar' /\ CambioNotado'
<1> USE EsquemaAssumption
    DEF TypeOKEsquema, PorAcabar, CambioNotado, Cambiado, discoVars, xsdVars
<1>1. ASSUME NEW c \in Esquemas \union OtrosXml, Vaciar(c)
      PROVE  PorAcabar' /\ CambioNotado'
  BY <1>1 DEF Vaciar
<1>2. CASE Escribir
  BY <1>2 DEF Escribir
<1>3. CASE Suprimir \/ MirarEsquema \/ ReiniciarConversor
  BY <1>3 DEF Suprimir, MirarEsquema, ReiniciarConversor
<1>4. CASE CargarEsquema
  BY <1>4 DEF CargarEsquema, FechaAnotada, Valido
<1>5. CASE UNCHANGED esquemaVars
  BY <1>5 DEF esquemaVars
<1> QED
  BY <1>1, <1>2, <1>3, <1>4, <1>5 DEF NextEsquema

\* However often the file is replaced, and whatever falls between the stat and the read of
\* a load, a schema that is not in use is one that the next poll will look at.
THEOREM CambioSiempreNotado == SpecServicios => []CambioNotado
<1> DEFINE Inv == TypeOKEsquema /\ PorAcabar /\ CambioNotado
           todas == <<parte, webhookVars, impresionVars, vars, esquemaVars>>
<1>1. InitServicios => Inv
  <2>1. InitEsquema => PorAcabar /\ CambioNotado
    BY EsquemaAssumption DEF InitEsquema, PorAcabar, CambioNotado, Cambiado
  <2> QED BY <2>1, CadaUnoPorSuLado, EsquemaAlInicio
<1>2. Inv /\ [NextServicios]_todas => Inv'
  BY CadaUnoPorSuLado, TiposEsquemaInductivos, CambioInductivo
<1> QED BY <1>1, <1>2, PTL DEF SpecServicios
=============================================================================
