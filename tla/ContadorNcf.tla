----------------------------- MODULE ContadorNcf -----------------------------
(***************************************************************************)
(* What the rest of the gateway relies on when it asks for an e-NCF: a     *)
(* number is read from a sequence and the sequence moves past it in ONE    *)
(* step, so the number handed out is always the current one.  Everything   *)
(* else that happens to a sequence is an adjustment made by an             *)
(* administrator.  SecuenciasNcf, the translation of the code, implements  *)
(* this module.                                                            *)
(***************************************************************************)
EXTENDS Naturals

CONSTANTS
  Solicitudes,   \* invoice requests that ask for a number
  Secuencias,    \* rows of secuencias_ncf
  Nulo           \* "no value"

VARIABLES
  siguiente,     \* siguiente[q]: the next number of sequence q, Nulo if q does not exist
  entregado      \* entregado[s]: <<sequence, number>> handed to s, or Nulo

contadorVars == <<siguiente, entregado>>

Init ==
  /\ siguiente = [q \in Secuencias |-> Nulo]
  /\ entregado = [s \in Solicitudes |-> Nulo]

Abrir(q) ==
  /\ siguiente[q] = Nulo
  /\ siguiente'[q] \in Nat
  /\ siguiente' = [siguiente EXCEPT ![q] = siguiente'[q]]
  /\ UNCHANGED entregado

Entregar(s, q) ==
  /\ entregado[s] = Nulo
  /\ siguiente[q] # Nulo
  /\ entregado' = [entregado EXCEPT ![s] = <<q, siguiente[q]>>]
  /\ siguiente' = [siguiente EXCEPT ![q] = @ + 1]

Reajustar(q) ==
  /\ siguiente[q] # Nulo
  /\ siguiente'[q] \in Nat
  /\ siguiente' = [siguiente EXCEPT ![q] = siguiente'[q]]
  /\ UNCHANGED entregado

Next ==
  \/ \E q \in Secuencias : Abrir(q) \/ Reajustar(q)
  \/ \E s \in Solicitudes, q \in Secuencias : Entregar(s, q)

Spec == Init /\ [][Next]_contadorVars
=============================================================================
