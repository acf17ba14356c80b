--------------------------- MODULE LimiteSolicitudes ---------------------------
(***************************************************************************)
(* RateLimitGuard, for the requests of one user or of one API key: a       *)
(* sliding window kept as a sorted set in Redis, which is counted and then *)
(* added to, and a fixed window in memory for when a call to Redis throws. *)
(* No controller uses the guard.                                           *)
(*                                                                         *)
(* The set is the requests in it: the score of each is its own Date.now(). *)
(* The key expires after a window without additions, when every score in   *)
(* it is already outside: the expiry is left out.                          *)
(***************************************************************************)
EXTENDS Naturals, FiniteSets

CONSTANTS
  Solicitantes,  \* requests
  LimiteVentana, \* userLimit or apiKeyLimit
  AnchoVentana,  \* windowSeconds
  MaxInstante    \* bound of the clock

ASSUME LimiteAssumption ==
  /\ LimiteVentana \in Nat \ {0} /\ AnchoVentana \in Nat \ {0} /\ MaxInstante \in Nat \ {0}

VARIABLES
  instante,      \* Date.now()
  pasoLimite,    \* pasoLimite[s]: where request s is
  marca,         \* marca[s]: now, as s read it
  conjunto,      \* the sorted set: requests added and not removed
  cubo,          \* memoryBuckets: [cuenta, hasta], hasta = 0 when there is none
  admitidas,     \* history: requests that passed
  porMemoria,    \* history: those that the bucket let through
  desviadas      \* history: requests that counted while another had counted and not
                 \* added, or had removed what their own window still holds; whose count
                 \* or addition failed within its pipeline; or which came late to a bucket

limiteVars == <<instante, pasoLimite, marca, conjunto, cubo, admitidas, porMemoria, desviadas>>

InitLimite ==
  /\ instante = 1
  /\ pasoLimite = [s \in Solicitantes |-> "reposo"]
  /\ marca = [s \in Solicitantes |-> 0]
  /\ conjunto = {}
  /\ cubo = [cuenta |-> 0, hasta |-> 0]
  /\ admitidas = {} /\ porMemoria = {} /\ desviadas = {}

PasarLimite(s, p) == pasoLimite' = [pasoLimite EXCEPT ![s] = p]

Correr ==
  /\ instante < MaxInstante
  /\ instante' = instante + 1
  /\ UNCHANGED <<pasoLimite, marca, conjunto, cubo, admitidas, porMemoria, desviadas>>

\* canActivate up to its first call to Redis.
Llegar(s) ==
  /\ pasoLimite[s] = "reposo"
  /\ marca' = [marca EXCEPT ![s] = instante]
  /\ PasarLimite(s, "contar")
  /\ UNCHANGED <<instante, conjunto, cubo, admitidas, porMemoria, desviadas>>

\* Mutant: a request is in the set before it is counted, and stays there when it is denied.
DentroConElla(s) == {r \in conjunto : marca[r] + AnchoVentana > marca[s]} \union {s}

\* zremrangebyscore(key, 0, windowStart)
DentroDe(s) == {r \in conjunto : marca[r] + AnchoVentana > marca[s]}

\* Another request may make the count of s fall short.
Solapada(s) ==
  \E r \in Solicitantes \ {s} :
    \/ pasoLimite[r] = "anotar"
    \/ marca[r] > marca[s] /\ pasoLimite[r] # "contar"

\* Mutant: > for >= in the comparison with the limit.
ExcedeEstricto(n) == n > LimiteVentana

Excede(n) == n >= LimiteVentana

\* slidingWindowCheck
Contar(s) ==
  /\ pasoLimite[s] = "contar"
  /\ conjunto' = DentroDe(s)
  /\ PasarLimite(s, IF Excede(Cardinality(DentroDe(s))) THEN "negar" ELSE "anotar")
  /\ desviadas' = IF Solapada(s) THEN desviadas \union {s} ELSE desviadas
  /\ UNCHANGED <<instante, marca, cubo, admitidas, porMemoria>>

\* The commands of the pipeline fail one by one: no count, which reads as 0.
ContarConErrores(s) ==
  /\ pasoLimite[s] = "contar"
  /\ PasarLimite(s, "anotar")
  /\ desviadas' = desviadas \union {s}
  /\ UNCHANGED <<instante, marca, conjunto, cubo, admitidas, porMemoria>>

\* recordRequest, or one whose commands fail.
AnotarSolicitud(s, bien) ==
  /\ pasoLimite[s] = "anotar"
  /\ conjunto' = IF bien THEN DentroDe(s) \union {s} ELSE conjunto
  /\ admitidas' = admitidas \union {s}
  /\ desviadas' = IF bien THEN desviadas ELSE desviadas \union {s}
  /\ PasarLimite(s, "fin")
  /\ UNCHANGED <<instante, marca, cubo, porMemoria>>

\* 429, once calculateRetryAfter has its answer.
Negar(s) ==
  /\ pasoLimite[s] = "negar"
  /\ PasarLimite(s, "negada")
  /\ UNCHANGED <<instante, marca, conjunto, cubo, admitidas, porMemoria, desviadas>>

\* DEGRADED_LIMIT_FACTOR
LimiteDegradado == IF LimiteVentana < 2 THEN 1 ELSE LimiteVentana \div 2

\* inMemoryFallback: one of the three calls to Redis throws.
Degradar(s) ==
  /\ pasoLimite[s] \in {"contar", "anotar", "negar"}
  /\ IF cubo.hasta <= marca[s] \/ cubo.cuenta < LimiteDegradado
     THEN /\ cubo' = IF cubo.hasta <= marca[s]
                     THEN [cuenta |-> 1, hasta |-> marca[s] + AnchoVentana]
                     ELSE [cubo EXCEPT !.cuenta = @ + 1]
          /\ admitidas' = admitidas \union {s}
          /\ porMemoria' = porMemoria \union {s}
          /\ PasarLimite(s, "fin")
     ELSE PasarLimite(s, "negada") /\ UNCHANGED <<cubo, admitidas, porMemoria>>
  /\ desviadas' = IF cubo.hasta > marca[s] + AnchoVentana THEN desviadas \union {s}
                  ELSE desviadas
  /\ UNCHANGED <<instante, marca, conjunto>>

NextLimite ==
  \/ Correr
  \/ \E s \in Solicitantes :
       \/ Llegar(s) \/ Contar(s) \/ ContarConErrores(s) \/ Negar(s) \/ Degradar(s)
       \/ \E bien \in BOOLEAN : AnotarSolicitud(s, bien)

SpecLimite == InitLimite /\ [][NextLimite]_limiteVars

-----------------------------------------------------------------------------
(* Properties                                                              *)

TypeOKLimite ==
  /\ instante \in 1 .. MaxInstante
  /\ pasoLimite \in [Solicitantes -> {"reposo", "contar", "anotar", "negar", "negada", "fin"}]
  /\ marca \in [Solicitantes -> 0 .. MaxInstante]
  /\ conjunto \subseteq admitidas /\ admitidas \subseteq Solicitantes
  /\ cubo \in [cuenta : Nat, hasta : Nat]
  /\ porMemoria \subseteq admitidas /\ desviadas \subseteq Solicitantes

EnVentana(t) == {s \in admitidas : marca[s] <= t /\ t < marca[s] + AnchoVentana}

\* In any window the guard lets through no more than the limit, besides the requests
\* whose count another one, or a failure of Redis, made too small; and the bucket of the
\* process, at most two of its own limits, besides those that were late.
SolicitudesAcotadas ==
  \A t \in 1 .. MaxInstante :
    /\ Cardinality(EnVentana(t) \ (porMemoria \union desviadas)) <= LimiteVentana
    /\ Cardinality((EnVentana(t) \intersect porMemoria) \ desviadas) <= 2 * LimiteDegradado
=============================================================================
