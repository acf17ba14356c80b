---------------------------- MODULE CircuitBreaker ----------------------------
(***************************************************************************)
(* CircuitBreakerService: one opossum breaker shared by transmissions, the *)
(* polling of states and annulments.  The breaker itself is external and   *)
(* is modelled from the options and events that the service uses.          *)
(*                                                                         *)
(* Time advances in ticks.  A timer that is due fires before the next      *)
(* tick; of two timers due together the older one fires first, so a call   *)
(* that started before the circuit opened times out before the wait ends   *)
(* when Timeout <= ResetTimeout (both are 30 s in CB_OPTIONS).             *)
(***************************************************************************)
EXTENDS Naturals, FiniteSets, Functions

CONSTANTS
  Llamadas,          \* concurrent callers of execute
  Timeout,           \* ticks a call may last
  ResetTimeout,      \* ticks the circuit stays OPEN
  Ventana,           \* ticks of the rolling window
  VolumeThreshold,   \* calls in the window below which it does not open
  MaxPorTick,        \* bound: calls to fire in one tick
  Nadie

ASSUME TiemposAssumption ==
  /\ Timeout \in Nat \ {0}
  /\ ResetTimeout \in Nat
  /\ Timeout <= ResetTimeout
  /\ Ventana \in Nat \ {0}
  /\ VolumeThreshold \in Nat
  /\ MaxPorTick \in Nat

ASSUME NadieAssumption == Nadie \notin Llamadas

VARIABLES
  estado,        \* STATE of the breaker
  pendingClose,  \* PENDING_CLOSE: HALF-OPEN and the trial call not made yet
  enCurso,       \* calls fired and not settled
  edad,          \* edad[l]: ticks since call l started
  espera,        \* ticks since the circuit opened
  fires,         \* fires[i]: calls fired i - 1 ticks ago
  failures,      \* failures[i]: calls failed i - 1 ticks ago
  prueba         \* history: the trial call of this HALF-OPEN period

vars == <<estado, pendingClose, enCurso, edad, espera, fires, failures, prueba>>

Cubetas == 1 .. Ventana

Init ==
  /\ estado = "CLOSED"
  /\ pendingClose = FALSE
  /\ enCurso = {}
  /\ edad = [l \in Llamadas |-> 0]
  /\ espera = 0
  /\ fires = [i \in Cubetas |-> 0]
  /\ failures = [i \in Cubetas |-> 0]
  /\ prueba = Nadie

Total(cubetas) == FoldFunction(LAMBDA x, y : x + y, 0, cubetas)

-----------------------------------------------------------------------------
(* execute                                                                 *)

\* Mutant: HALF-OPEN lets every call through.
AdmiteTodas == estado # "OPEN"

\* fire rejects with EOPENBREAKER unless the circuit is closed or the trial is due.
Admite == estado = "CLOSED" \/ pendingClose

\* A call passes the check of execute (503 while OPEN, and nothing changes) and is
\* fired: it counts even when the breaker then rejects it.
Disparar(l) ==
  /\ l \notin enCurso
  /\ estado # "OPEN"
  /\ fires[1] < MaxPorTick
  /\ fires' = [fires EXCEPT ![1] = @ + 1]
  /\ IF Admite
     THEN /\ enCurso' = enCurso \union {l}
          /\ edad' = [edad EXCEPT ![l] = 0]
          /\ pendingClose' = FALSE
          /\ prueba' = IF estado = "HALF-OPEN" THEN l ELSE prueba
     ELSE UNCHANGED <<enCurso, edad, pendingClose, prueba>>
  /\ UNCHANGED <<estado, espera, failures>>

\* A success closes a HALF-OPEN circuit, whichever call it comes from.
Triunfar(l) ==
  /\ l \in enCurso
  /\ enCurso' = enCurso \ {l}
  /\ IF estado = "HALF-OPEN"
     THEN /\ estado' = "CLOSED"
          /\ pendingClose' = FALSE
          /\ prueba' = Nadie
     ELSE UNCHANGED <<estado, pendingClose, prueba>>
  /\ edad' = [edad EXCEPT ![l] = 0]
  /\ UNCHANGED <<espera, fires, failures>>

\* Mutant: a failed trial is judged by the window, like any other call.
AbreSoloPorVentana ==
  /\ Total(fires) >= VolumeThreshold
  /\ 2 * Total(failures') > Total(fires)

\* fail: HALF-OPEN always opens; CLOSED opens when more than half of at least
\* VolumeThreshold calls of the window failed (errorThresholdPercentage 50).
Abre ==
  \/ estado = "HALF-OPEN"
  \/ /\ Total(fires) >= VolumeThreshold
     /\ 2 * Total(failures') > Total(fires)

\* A network error, a 5xx, a 401 or the timeout of the breaker: the operation
\* throws, and an OPEN circuit stays open without starting a new wait.
Fracasar(l) ==
  /\ l \in enCurso
  /\ enCurso' = enCurso \ {l}
  /\ failures' = [failures EXCEPT ![1] = @ + 1]
  /\ IF Abre /\ estado # "OPEN"
     THEN /\ estado' = "OPEN"
          /\ pendingClose' = FALSE
          /\ espera' = 0
          /\ prueba' = Nadie
     ELSE UNCHANGED <<estado, pendingClose, espera, prueba>>
  /\ edad' = [edad EXCEPT ![l] = 0]
  /\ UNCHANGED fires

-----------------------------------------------------------------------------
(* Timers                                                                  *)

Vencida(l) == l \in enCurso /\ edad[l] >= Timeout

\* Mutant: a resetTimeout shorter than the timeout of a call.
EsperaCorta == ResetTimeout - 1

EsperaDeReset == ResetTimeout

EsperaCumplida == estado = "OPEN" /\ espera >= EsperaDeReset

MedioAbrir ==
  /\ EsperaCumplida
  /\ \A l \in Llamadas : ~Vencida(l)
  /\ estado' = "HALF-OPEN"
  /\ pendingClose' = TRUE
  /\ UNCHANGED <<enCurso, edad, espera, fires, failures, prueba>>

Envejecer(cubetas) == [i \in Cubetas |-> IF i = 1 THEN 0 ELSE cubetas[i - 1]]

Tic ==
  /\ ~EsperaCumplida
  /\ \A l \in Llamadas : ~Vencida(l)
  /\ edad' = [l \in Llamadas |-> IF l \in enCurso THEN edad[l] + 1 ELSE edad[l]]
  /\ espera' = IF estado = "OPEN" /\ espera < ResetTimeout THEN espera + 1 ELSE espera
  /\ fires' = Envejecer(fires)
  /\ failures' = Envejecer(failures)
  /\ UNCHANGED <<estado, pendingClose, enCurso, prueba>>

-----------------------------------------------------------------------------
Next ==
  \/ \E l \in Llamadas : Disparar(l) \/ Triunfar(l) \/ Fracasar(l)
  \/ MedioAbrir
  \/ Tic

Spec == Init /\ [][Next]_vars

\* Time passes and the timers that are due fire.
JusticiaInterruptor ==
  /\ WF_vars(Tic)
  /\ WF_vars(MedioAbrir)
  /\ \A l \in Llamadas : WF_vars(Vencida(l) /\ Fracasar(l))

FairSpec == Spec /\ JusticiaInterruptor

-----------------------------------------------------------------------------
(* Properties                                                              *)

TypeOK ==
  /\ estado \in {"CLOSED", "OPEN", "HALF-OPEN"}
  /\ pendingClose \in BOOLEAN
  /\ enCurso \subseteq Llamadas
  /\ edad \in [Llamadas -> 0 .. Timeout]
  /\ espera \in 0 .. ResetTimeout
  /\ fires \in [Cubetas -> Nat]
  /\ failures \in [Cubetas -> Nat]
  /\ prueba \in Llamadas \union {Nadie}

\* While the circuit is HALF-OPEN the only call that can be reaching the DGII is
\* the trial (requirement 12.3): no call made before it opened is left to close
\* it or open it in the trial's place.
PruebaUnica ==
  estado = "HALF-OPEN" =>
    IF pendingClose THEN prueba = Nadie /\ enCurso = {} ELSE enCurso = {prueba}

\* An OPEN circuit is HALF-OPEN some time later, with or without traffic.
EsperaTermina == (estado = "OPEN") ~> (estado = "HALF-OPEN")

\* A trial always ends in a decision, even when the DGII never answers it.
PruebaDecide == (prueba # Nadie) ~> (estado # "HALF-OPEN")

\* The breaker never stays for good in a state that only it can leave.
NoSeAtasca == EsperaTermina /\ PruebaDecide

Promesa == INSTANCE InterruptorDgii

\* opossum, with the options of CB_OPTIONS, behaves as the breaker that the rest
\* of the gateway was written for.
ImplementaInterruptor == Promesa!Spec
=============================================================================
