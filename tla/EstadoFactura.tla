---------------------------- MODULE EstadoFactura ----------------------------
(***************************************************************************)
(* What estado_dgii promises: the life of an invoice as its clients see    *)
(* it, next to what the DGII has done with the document.  The gateway may  *)
(* learn of a decision late or not at all, but every state it shows was    *)
(* decided by the DGII first, and a state once left does not come back.    *)
(* CicloFactura implements this module.                                    *)
(***************************************************************************)
CONSTANTS
  Facturas,   \* invoices
  DePrueba,   \* invoices made by the certification test set
  Nulo        \* the invoice does not exist yet

VARIABLES
  estado,     \* estado[f]: the estado_dgii shown to clients, or Nulo
  dgii        \* dgii[f]: what the DGII has done with the document

estadoVars == <<estado, dgii>>

\* States of dgii that have accepted the document.
Admitida == {"recibida", "aprobada", "rechazada_def", "anulada"}

Init ==
  /\ estado = [f \in Facturas |-> Nulo]
  /\ dgii = [f \in Facturas |-> "sin_recibir"]

Mostrar(f, e) ==
  /\ estado' = [estado EXCEPT ![f] = e]
  /\ UNCHANGED dgii

Decidir(f, d) ==
  /\ dgii' = [dgii EXCEPT ![f] = d]
  /\ UNCHANGED estado

Emitir(f) == estado[f] = Nulo /\ Mostrar(f, "ENVIADO")

\* A document that the gateway gave up may still arrive.
Recibir(f) ==
  /\ estado[f] \in {"ENVIADO", "REINTENTANDO"}
  /\ dgii[f] = "sin_recibir"
  /\ \E d \in {"recibida", "rechazada"} : Decidir(f, d)

Resolver(f) ==
  /\ dgii[f] = "recibida"
  /\ \E d \in {"aprobada", "rechazada_def"} : Decidir(f, d)

Responder(f) ==
  /\ estado[f] = "ENVIADO"
  /\ \/ dgii[f] \in Admitida /\ Mostrar(f, "ACEPTADO")
     \/ dgii[f] = "rechazada" /\ Mostrar(f, "RECHAZADO")
     \/ Mostrar(f, "REINTENTANDO")

Concluir(f) ==
  /\ estado[f] = "ACEPTADO"
  /\ \/ dgii[f] = "aprobada" /\ Mostrar(f, "APROBADO")
     \/ dgii[f] = "rechazada_def" /\ Mostrar(f, "RECHAZADO_DEFINITIVO")

\* The DGII annuls an invoice only at the gateway's request.
AnularEnDgii(f) ==
  /\ estado[f] \in {"APROBADO", "ANULADO"}
  /\ dgii[f] = "aprobada"
  /\ Decidir(f, "anulada")

Anular(f) ==
  /\ estado[f] = "APROBADO"
  /\ dgii[f] = "anulada" \/ f \in DePrueba
  /\ Mostrar(f, "ANULADO")

Next ==
  \E f \in Facturas :
    \/ Emitir(f) \/ Recibir(f) \/ Resolver(f) \/ Responder(f)
    \/ Concluir(f) \/ AnularEnDgii(f) \/ Anular(f)

Spec == Init /\ [][Next]_estadoVars
=============================================================================
