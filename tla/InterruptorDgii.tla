--------------------------- MODULE InterruptorDgii ---------------------------
(***************************************************************************)
(* What the gateway expects of the circuit breaker around the DGII: no     *)
(* call while it is OPEN, one trial call while it is HALF-OPEN, and that   *)
(* trial alone decides.  CircuitBreaker implements this module.            *)
(***************************************************************************)
CONSTANTS
  Llamadas,   \* callers of execute
  Nadie       \* no call

VARIABLES
  estado,     \* "CLOSED", "OPEN" or "HALF-OPEN"
  prueba,     \* the trial call of this HALF-OPEN period, or Nadie
  enCurso     \* calls that are reaching the DGII

interruptorVars == <<estado, prueba, enCurso>>

Init ==
  /\ estado = "CLOSED"
  /\ prueba = Nadie
  /\ enCurso = {}

Llamar(l) ==
  /\ estado = "CLOSED"
  /\ l \notin enCurso
  /\ enCurso' = enCurso \union {l}
  /\ UNCHANGED <<estado, prueba>>

Probar(l) ==
  /\ estado = "HALF-OPEN"
  /\ prueba = Nadie
  /\ enCurso' = enCurso \union {l}
  /\ prueba' = l
  /\ UNCHANGED estado

\* While it is CLOSED a call that ends may open the circuit; while it is OPEN the
\* calls that are left end and change nothing.
Terminar(l) ==
  /\ l \in enCurso
  /\ estado # "HALF-OPEN"
  /\ estado' \in {estado, "OPEN"}
  /\ enCurso' = enCurso \ {l}
  /\ UNCHANGED prueba

Decidir(l) ==
  /\ l \in enCurso
  /\ estado = "HALF-OPEN"
  /\ l = prueba
  /\ estado' \in {"CLOSED", "OPEN"}
  /\ enCurso' = enCurso \ {l}
  /\ prueba' = Nadie

\* No call made before is left when the trial period begins.
Esperar ==
  /\ estado = "OPEN"
  /\ enCurso = {}
  /\ estado' = "HALF-OPEN"
  /\ UNCHANGED <<prueba, enCurso>>

Next ==
  \/ \E l \in Llamadas : Llamar(l) \/ Probar(l) \/ Terminar(l) \/ Decidir(l)
  \/ Esperar

Spec == Init /\ [][Next]_interruptorVars
=============================================================================
