------------------------------ MODULE MCServicios -----------------------------
(***************************************************************************)
(* The components that must get something done: webhooks, the print        *)
(* bridge, the circuit breaker and the schema of the XML.  They share no   *)
(* state, so they go in one run: a behaviour moves one of them, and the    *)
(* states of the run are the sum of theirs.                                *)
(*                                                                         *)
(* A tick of the circuit breaker stands for 15 s: a call and the OPEN      *)
(* period last two, the rolling window four, as 30 s and 60 s do.          *)
(***************************************************************************)
EXTENDS Webhooks, MCImpresion, CircuitBreaker, EsquemaXsd

CONSTANTS n1, n2

VARIABLE parte

\* The names of files are alike: the first ticket that is printed takes the first.
NombresEnOrden ==
  (\E t \in Tickets : nombre'[t] = n2) => (\E t \in Tickets : nombre'[t] = n1)

InitServicios ==
  /\ parte \in {"webhooks", "impresion", "interruptor", "esquema"}
  /\ InitWebhooks /\ InitImpresion /\ Init /\ InitEsquema
  \* The bridge starts with the template that reads both tickets, or with none.
  /\ plantilla = SinPlantilla \/ \A t \in Tickets : Extraible(t)
  \* The components that do not move start in one way.
  /\ parte # "impresion" => conCola /\ plantilla = SinPlantilla
  /\ parte # "esquema" => disco = SinXsd

NextServicios ==
  /\ UNCHANGED parte
  /\ \/ /\ parte = "webhooks" /\ NextWebhooks
        /\ UNCHANGED <<impresionVars, vars, esquemaVars>>
     \/ /\ parte = "impresion" /\ NextImpresion /\ NombresEnOrden
        /\ UNCHANGED <<webhookVars, vars, esquemaVars>>
     \/ /\ parte = "interruptor" /\ Next
        /\ UNCHANGED <<webhookVars, impresionVars, esquemaVars>>
     \/ /\ parte = "esquema" /\ NextEsquema
        /\ UNCHANGED <<webhookVars, impresionVars, vars>>

\* The fairness of each component, in the behaviours that move it: JusticiaWebhooks,
\* JusticiaImpresion, JusticiaInterruptor and JusticiaEsquema.
SpecServicios ==
  /\ InitServicios
  /\ [][NextServicios]_<<parte, webhookVars, impresionVars, vars, esquemaVars>>
  /\ \A e \in Entregas : WF_webhookVars(parte = "webhooks" /\ Entregar(e))
  /\ WF_impresionVars(parte = "impresion" /\ Ronda(Reloj))
  /\ WF_vars(parte = "interruptor" /\ Tic)
  /\ WF_vars(parte = "interruptor" /\ MedioAbrir)
  /\ \A l \in Llamadas : WF_vars(parte = "interruptor" /\ Vencida(l) /\ Fracasar(l))
  /\ WF_esquemaVars(parte = "esquema" /\ MirarEsquema)
  /\ WF_esquemaVars(parte = "esquema" /\ CargarEsquema)

\* The variables of the component that moves have their types, and so those of each one.
TypeOKServicios ==
  CASE parte = "webhooks" -> TypeOKWebhooks
    [] parte = "impresion" -> TypeOKImpresion
    [] parte = "interruptor" -> TypeOK
    [] parte = "esquema" -> TypeOKEsquema
=============================================================================
