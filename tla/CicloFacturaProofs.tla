-------------------------- MODULE CicloFacturaProofs --------------------------
(***************************************************************************)
(* Proofs about CicloFactura for any number of invoices, polling cycles    *)
(* (overlapping or not) and annulments: the types, that every state shown  *)
(* was decided by the DGII first, and that every webhook tells the truth.  *)
(*                                                                         *)
(* The properties are inductive once it is known what each local variable  *)
(* in flight entails about the DGII: Emitidas for the answers crearFactura *)
(* holds, Consultas for the verdicts of the cycles, Anulando for the       *)
(* confirmations.  They stay true because the DGII does not go back        *)
(* (Avanza): what was true of a document when an answer left is true when  *)
(* it is used.                                                             *)
(*                                                                         *)
(* The second part is the system as it is scheduled, one cycle at a time   *)
(* (UnCiclo): there the invariant also says what every update still to     *)
(* come knows of its row (InductivoUnCiclo), and from it follow that no    *)
(* webhook repeats itself, and that every step is a step of EstadoFactura  *)
(* or none.                                                                *)
(***************************************************************************)
EXTENDS CicloFactura, TLAPS

\* Where crearFactura is, against the row, the storage and the DGII.
Emitidas ==
  \A f \in Facturas :
    /\ fase[f] \in {"nueva", "rechazada"} => estado[f] = Nulo /\ dgii[f] = "sin_recibir"
    /\ fase[f] \in {"guardada", "subida", "renovada"} =>
         estado[f] = "ENVIADO" /\ dgii[f] = "sin_recibir"
    /\ fase[f] \in {"subida", "renovada"} => f \in conXml
    /\ fase[f] = "en_dgii" => dgii[f] # "sin_recibir"
    /\ fase[f] = "resuelta" =>
         /\ resultado[f].estado = "RECHAZADO" => dgii[f] = "rechazada"
         /\ resultado[f].estado = "ACEPTADO" => dgii[f] \notin {"sin_recibir", "rechazada"}
    /\ f \in rezagadas /\ dgii[f] = "sin_recibir" =>
         /\ f \in conXml
         /\ fase[f] \notin {"nueva", "rechazada", "guardada", "subida", "renovada"}

\* A cycle holds the verdict of the DGII on the invoice it consulted.
Consultas ==
  \A c \in Ciclos :
    pasoC[c] \in {"contestada", "actualizada"} =>
      /\ consultada[c] \in Facturas
      /\ \/ veredicto[c] = "APROBADO" /\ dgii[consultada[c]] \in {"aprobada", "anulada"}
         \/ veredicto[c] = "RECHAZADO_DEFINITIVO" /\ dgii[consultada[c]] = "rechazada_def"

\* An annulment that believes it was confirmed was confirmed.
Anulando ==
  \A a \in Anulaciones :
    /\ pasoA[a] # "reposo" =>
         objetivo[a] \in Facturas /\ dgii[objetivo[a]] \in {"aprobada", "anulada"}
    /\ pasoA[a] = "leida" => exito[a] = FALSE
    /\ pasoA[a] = "esperando" /\ exito[a] => dgii[objetivo[a]] = "anulada"
    /\ pasoA[a] \in {"confirmada", "anulada"} => dgii[objetivo[a]] = "anulada"

IInv == TypeOK /\ Emitidas /\ Consultas /\ Anulando /\ EstadoRespaldado /\ AvisoCierto

\* The DGII never goes back on a document.
AvanzaDe(f) ==
  /\ dgii[f] \in {"aprobada", "anulada"} => dgii'[f] \in {"aprobada", "anulada"}
  /\ dgii[f] \in {"rechazada", "rechazada_def", "anulada"} => dgii'[f] = dgii[f]
  /\ dgii[f] \notin {"sin_recibir", "rechazada"} => dgii'[f] \notin {"sin_recibir", "rechazada"}

Avanza == \A f \in Facturas : AvanzaDe(f)

-----------------------------------------------------------------------------
(* Types                                                                   *)

LEMMA TiposDeEmitir ==
  ASSUME TypeOK, NEW f \in Facturas, Emitir(f)
  PROVE  TypeOK'
<1> USE DEF TypeOK, tablaVars, emisionVars, dgiiVars, cicloVars, anulacionVars, registroVars,
        PasarA, Fases, Vivas, Estados
<1>1. CASE Rechazar(f)
  BY <1>1 DEF Rechazar
<1>2. CASE Guardar(f)
  BY <1>2 DEF Guardar
<1>3. CASE Subir(f)
  BY <1>3 DEF Subir
<1>4. CASE Fallar(f)
  BY <1>4 DEF Fallar
<1>5. CASE Renovar(f)
  BY <1>5 DEF Renovar
<1>6. ASSUME NEW r \in Resultados, Resolucion(f, r), rezagadas' \subseteq Facturas
      PROVE  TypeOK'
  BY <1>6 DEF Resolucion
<1>7. /\ Rechazado \in Resultados /\ Reintentando \in Resultados
      /\ \A t \in BOOLEAN : Aceptado(t) \in Resultados
  BY DEF Resultados, Aceptado, Rechazado, Reintentando
<1>8. CASE NoSale(f) \/ Contesta(f) \/ SeCorta(f)
  BY <1>6, <1>7, <1>8 DEF NoSale, Contesta, SeCorta
<1>9. CASE Llega(f)
  BY <1>9 DEF Llega
<1>10. CASE GuardarResultado(f)
  <2>1. resultado[f].estado \in Estados /\ resultado[f].track \in BOOLEAN
    BY DEF Resultados
  <2> QED
    BY <1>10, <2>1 DEF GuardarResultado
<1> QED
  BY <1>1, <1>2, <1>3, <1>4, <1>5, <1>8, <1>9, <1>10 DEF Emitir

LEMMA TiposDeRecorrer ==
  ASSUME TypeOK, Consultas, NEW c \in Ciclos, Recorrer(c)
  PROVE  TypeOK'
<1> USE DEF TypeOK, tablaVars, emisionVars, dgiiVars, cicloVars, anulacionVars, registroVars
<1>1. CASE Iniciar(c)
  BY <1>1 DEF Iniciar, Consultables
<1>2. ASSUME NEW f \in Facturas, SinCambio(c, f)
      PROVE  TypeOK'
  BY <1>2 DEF SinCambio, Seguir, PasoTras
<1>3. ASSUME NEW f \in Facturas, Consultar(c, f)
      PROVE  TypeOK'
  BY <1>3 DEF Consultar, VeredictoDgii
<1>4. CASE ActualizarEstadoTerminal(c)
  BY <1>4 DEF ActualizarEstadoTerminal, Consultas, Estados
<1>5. CASE FallarActualizacion(c)
  BY <1>5 DEF FallarActualizacion, Seguir, PasoTras
<1>6. CASE Disparar(c)
  <2>1. consultada[c] \in Facturas
    BY <1>6 DEF Disparar, Consultas
  <2>2. Append(avisos[consultada[c]], Evento(veredicto[c])) \in Seq(Eventos)
    BY <2>1 DEF Evento, Eventos
  <2>3. avisos' \in [Facturas -> Seq(Eventos)]
    BY <1>6, <2>1, <2>2 DEF Disparar
  <2> QED
    BY <1>6, <2>3 DEF Disparar, Seguir, PasoTras
<1> QED
  BY <1>1, <1>2, <1>3, <1>4, <1>5, <1>6 DEF Recorrer

LEMMA TiposDeAnular ==
  ASSUME TypeOK, Anulando, NEW a \in Anulaciones, Anular(a)
  PROVE  TypeOK'
<1> USE DEF TypeOK, tablaVars, emisionVars, dgiiVars, cicloVars, anulacionVars, registroVars,
        PasarAnulacion
<1>1. ASSUME NEW f \in Facturas, LeerAprobada(a, f)
      PROVE  TypeOK'
  BY <1>1 DEF LeerAprobada
<1>2. CASE EnviarAnulacion(a)
  BY <1>2 DEF EnviarAnulacion
<1>3. CASE ContestaAnulacion(a)
  BY <1>3 DEF ContestaAnulacion
<1>4. CASE ActualizarEstadoAnulado(a)
  BY <1>4 DEF ActualizarEstadoAnulado, Estados
<1>5. CASE RegistrarAuditoria(a)
  BY <1>5 DEF RegistrarAuditoria, Anulando
<1>6. CASE AbortarAnulacion(a)
  BY <1>6 DEF AbortarAnulacion, Anulando
<1> QED
  BY <1>1, <1>2, <1>3, <1>4, <1>5, <1>6 DEF Anular

LEMMA TiposInductivos ==
  ASSUME TypeOK, Consultas, Anulando, [Next]_vars
  PROVE  TypeOK'
<1> USE DEF tablaVars, emisionVars, dgiiVars, cicloVars, anulacionVars, registroVars
<1>1. ASSUME NEW f \in Facturas, Resolver(f)
      PROVE  TypeOK'
  BY <1>1 DEF Resolver, TypeOK
<1>2. ASSUME NEW f \in Facturas, AnularDePrueba(f)
      PROVE  TypeOK'
  BY <1>2 DEF AnularDePrueba, TypeOK, Estados
<1>3. CASE Caer
  BY <1>3 DEF Caer, Saliendo, TypeOK, Anulando, Fases
<1>4. CASE UNCHANGED vars
  BY <1>4 DEF vars, TypeOK
<1>5. ASSUME NEW f \in Facturas, LlegarTarde(f)
      PROVE  TypeOK'
  BY <1>5 DEF LlegarTarde, Tardios, TypeOK
<1> QED
  BY <1>1, <1>2, <1>3, <1>4, <1>5, TiposDeEmitir, TiposDeRecorrer, TiposDeAnular DEF Next

-----------------------------------------------------------------------------
(* The DGII does not go back                                               *)

LEMMA DgiiAvanza ==
  ASSUME TypeOK, Emitidas, Anulando, [Next]_vars
  PROVE  Avanza
<1> USE DEF Avanza, AvanzaDe, TypeOK, tablaVars, emisionVars, dgiiVars, cicloVars, anulacionVars,
        registroVars
<1>1. ASSUME dgii' = dgii
      PROVE  Avanza
  BY <1>1
<1>2. ASSUME NEW f \in Facturas, Llega(f)
      PROVE  Avanza
  <2>1. dgii[f] = "sin_recibir"
    BY <1>2 DEF Llega, Emitidas
  <2> QED
    BY <1>2, <2>1 DEF Llega
<1>3. ASSUME NEW f \in Facturas, Emitir(f), ~Llega(f)
      PROVE  dgii' = dgii
  BY <1>3 DEF Emitir, Rechazar, Guardar, Subir, Fallar, Renovar, NoSale, Contesta, SeCorta,
              GuardarResultado, Resolucion
<1>4. ASSUME NEW f \in Facturas, Resolver(f)
      PROVE  Avanza
  BY <1>4 DEF Resolver
<1>5. ASSUME NEW f \in Facturas, AnularDePrueba(f)
      PROVE  dgii' = dgii
  BY <1>5 DEF AnularDePrueba
<1>6. ASSUME NEW c \in Ciclos, Recorrer(c)
      PROVE  dgii' = dgii
  BY <1>6 DEF Recorrer, Iniciar, SinCambio, Consultar, ActualizarEstadoTerminal,
              FallarActualizacion, Disparar
<1>7. ASSUME NEW a \in Anulaciones, EnviarAnulacion(a)
      PROVE  Avanza
  BY <1>7 DEF EnviarAnulacion, Anulando
<1>8. ASSUME NEW a \in Anulaciones, Anular(a), ~EnviarAnulacion(a)
      PROVE  dgii' = dgii
  BY <1>8 DEF Anular, LeerAprobada, ContestaAnulacion, ActualizarEstadoAnulado,
              RegistrarAuditoria, AbortarAnulacion
<1>9. CASE Caer \/ UNCHANGED vars
  BY <1>1, <1>9 DEF Caer, vars
<1>10. ASSUME NEW f \in Facturas, LlegarTarde(f)
       PROVE  Avanza
  BY <1>10 DEF LlegarTarde, Tardios
<1> QED
  BY <1>1, <1>2, <1>3, <1>4, <1>5, <1>6, <1>7, <1>8, <1>9, <1>10 DEF Next

-----------------------------------------------------------------------------
(* What the local variables entail                                         *)

LEMMA PasoDeEmitidas ==
  ASSUME TypeOK, Emitidas, Consultas, Anulando, EstadoRespaldado, Avanza, [Next]_vars
  PROVE  Emitidas'
<1> USE DEF Emitidas, TypeOK, tablaVars, emisionVars, dgiiVars, cicloVars, anulacionVars,
        registroVars
<1>1. ASSUME NEW f \in Facturas, Emitir(f)
      PROVE  Emitidas'
  <2> USE DEF PasarA
  <2>1. CASE Rechazar(f) \/ Guardar(f) \/ Subir(f) \/ Fallar(f) \/ Renovar(f)
    BY <2>1 DEF Rechazar, Guardar, Subir, Fallar, Renovar
  <2>2. CASE NoSale(f) \/ SeCorta(f)
    BY <2>2 DEF NoSale, SeCorta, Resolucion, Reintentando
  <2>3. CASE Contesta(f)
    <3>1. ASSUME dgii[f] = "rechazada", Resolucion(f, Rechazado), UNCHANGED rezagadas
          PROVE  Emitidas'
      BY <3>1 DEF Resolucion, Rechazado
    <3>2. ASSUME dgii[f] # "rechazada", NEW t \in BOOLEAN, Resolucion(f, Aceptado(t)),
                 fase[f] = "en_dgii", UNCHANGED rezagadas
          PROVE  Emitidas'
      BY <3>2 DEF Resolucion, Aceptado
    <3> QED
      BY <2>3, <3>1, <3>2 DEF Contesta
  <2>4. CASE Llega(f)
    BY <2>4 DEF Llega
  <2>5. CASE GuardarResultado(f)
    BY <2>5 DEF GuardarResultado
  <2> QED
    BY <1>1, <2>1, <2>2, <2>3, <2>4, <2>5 DEF Emitir
<1>2. ASSUME NEW f \in Facturas, Resolver(f)
      PROVE  Emitidas'
  BY <1>2 DEF Resolver
<1>3. ASSUME NEW f \in Facturas, AnularDePrueba(f)
      PROVE  Emitidas'
  BY <1>3, NuloAssumption DEF AnularDePrueba, Estados
<1>4. ASSUME NEW c \in Ciclos, Recorrer(c)
      PROVE  Emitidas'
  <2>1. ASSUME estado' = estado, dgii' = dgii, fase' = fase, conXml' = conXml,
               resultado' = resultado, rezagadas' = rezagadas
        PROVE  Emitidas'
    BY <2>1
  <2>2. CASE ActualizarEstadoTerminal(c)
    <3>1. PICK g \in Facturas : g = consultada[c]
      BY <2>2 DEF ActualizarEstadoTerminal, Consultas
    <3>2. dgii[g] \in {"aprobada", "anulada", "rechazada_def"}
      BY <2>2, <3>1 DEF ActualizarEstadoTerminal, Consultas
    <3>3. fase[g] \notin {"nueva", "rechazada", "guardada", "subida", "renovada"}
      BY <3>2
    <3>4. /\ \A f \in Facturas \ {g} : estado'[f] = estado[f]
          /\ UNCHANGED <<fase, dgii, conXml, resultado, rezagadas>>
      BY <2>2, <3>1 DEF ActualizarEstadoTerminal
    <3> QED
      BY <3>3, <3>4
  <2>3. CASE ~ActualizarEstadoTerminal(c)
    BY <1>4, <2>1, <2>3
       DEF Recorrer, Iniciar, SinCambio, Consultar, FallarActualizacion, Disparar
  <2> QED
    BY <2>2, <2>3
<1>5. ASSUME NEW a \in Anulaciones, Anular(a)
      PROVE  Emitidas'
  <2>1. CASE EnviarAnulacion(a)
    BY <2>1 DEF EnviarAnulacion, Anulando
  <2>2. CASE ActualizarEstadoAnulado(a)
    BY <2>2 DEF ActualizarEstadoAnulado, Anulando
  <2>3. CASE ~EnviarAnulacion(a) /\ ~ActualizarEstadoAnulado(a)
    BY <1>5, <2>3
       DEF Anular, LeerAprobada, ContestaAnulacion, RegistrarAuditoria, AbortarAnulacion,
           Anulando
  <2> QED
    BY <2>1, <2>2, <2>3
<1>6. CASE Caer
  <2>1. /\ UNCHANGED <<estado, conXml, resultado, dgii>>
        /\ \A f \in Facturas :
             /\ fase'[f] \in {"nueva", "rechazada"} => fase'[f] = fase[f]
             /\ fase'[f] \notin {"guardada", "subida", "renovada", "en_dgii", "resuelta"}
    BY <1>6 DEF Caer, Vivas
  <2>2. ASSUME NEW f \in Facturas, f \in rezagadas', dgii[f] = "sin_recibir"
        PROVE  /\ f \in conXml
               /\ fase[f] \notin {"nueva", "rechazada"}
    <3>1. f \in rezagadas \/ f \in Saliendo
      BY <1>6, <2>2 DEF Caer
    <3>2. f \notin {objetivo[a] : a \in {b \in Anulaciones : pasoA[b] = "leida"}}
      BY <2>2 DEF Anulando
    <3> QED
      BY <2>2, <3>1, <3>2 DEF Saliendo
  <2> QED
    BY <2>1, <2>2
<1>7. CASE UNCHANGED vars
  BY <1>7 DEF vars
<1>8. ASSUME NEW f \in Facturas, LlegarTarde(f)
      PROVE  Emitidas'
  BY <1>8 DEF LlegarTarde, Tardios
<1> QED
  BY <1>1, <1>2, <1>3, <1>4, <1>5, <1>6, <1>7, <1>8 DEF Next

LEMMA PasoDeConsultas ==
  ASSUME TypeOK, Consultas, Avanza, [Next]_vars
  PROVE  Consultas'
<1> USE DEF Consultas, TypeOK, Avanza, AvanzaDe, tablaVars, emisionVars, dgiiVars, cicloVars,
        anulacionVars, registroVars
<1>1. ASSUME UNCHANGED <<pasoC, consultada, veredicto>>
      PROVE  Consultas'
  BY <1>1
<1>2. ASSUME NEW f \in Facturas, Emitir(f)
      PROVE  Consultas'
  BY <1>1, <1>2 DEF Emitir, Rechazar, Guardar, Subir, Fallar, Renovar, NoSale, Contesta,
                    SeCorta, Llega, GuardarResultado, Resolucion
<1>3. ASSUME NEW f \in Facturas, Resolver(f) \/ LlegarTarde(f) \/ AnularDePrueba(f)
      PROVE  Consultas'
  BY <1>1, <1>3 DEF Resolver, LlegarTarde, AnularDePrueba
<1>4. ASSUME NEW c \in Ciclos, Recorrer(c)
      PROVE  Consultas'
  <2>1. ASSUME NEW f \in Facturas, Consultar(c, f)
        PROVE  Consultas'
    BY <2>1 DEF Consultar, VeredictoDgii
  <2>2. CASE ActualizarEstadoTerminal(c)
    BY <2>2 DEF ActualizarEstadoTerminal
  <2>3. ASSUME NEW f \in Facturas, SinCambio(c, f)
        PROVE  Consultas'
    BY <2>3 DEF SinCambio, Seguir, PasoTras
  <2>4. CASE Iniciar(c) \/ FallarActualizacion(c) \/ Disparar(c)
    BY <2>4 DEF Iniciar, FallarActualizacion, Disparar, Seguir, PasoTras
  <2> QED
    BY <1>4, <2>1, <2>2, <2>3, <2>4 DEF Recorrer
<1>5. ASSUME NEW a \in Anulaciones, Anular(a)
      PROVE  Consultas'
  BY <1>1, <1>5 DEF Anular, LeerAprobada, EnviarAnulacion, ContestaAnulacion,
                    ActualizarEstadoAnulado, RegistrarAuditoria, AbortarAnulacion
<1>6. CASE Caer
  BY <1>6 DEF Caer
<1>7. CASE UNCHANGED vars
  BY <1>1, <1>7 DEF vars
<1> QED
  BY <1>2, <1>3, <1>4, <1>5, <1>6, <1>7 DEF Next

LEMMA PasoDeAnulando ==
  ASSUME TypeOK, Anulando, EstadoRespaldado, Avanza, [Next]_vars
  PROVE  Anulando'
<1> USE DEF Anulando, TypeOK, Avanza, AvanzaDe, tablaVars, emisionVars, dgiiVars, cicloVars,
        anulacionVars, registroVars
<1>1. ASSUME UNCHANGED anulacionVars
      PROVE  Anulando'
  BY <1>1
<1>2. ASSUME NEW f \in Facturas, Emitir(f)
      PROVE  Anulando'
  BY <1>1, <1>2 DEF Emitir, Rechazar, Guardar, Subir, Fallar, Renovar, NoSale, Contesta,
                    SeCorta, Llega, GuardarResultado, Resolucion
<1>3. ASSUME NEW f \in Facturas, Resolver(f) \/ LlegarTarde(f) \/ AnularDePrueba(f)
      PROVE  Anulando'
  BY <1>1, <1>3 DEF Resolver, LlegarTarde, AnularDePrueba
<1>4. ASSUME NEW c \in Ciclos, Recorrer(c)
      PROVE  Anulando'
  BY <1>1, <1>4 DEF Recorrer, Iniciar, SinCambio, Consultar, ActualizarEstadoTerminal,
                    FallarActualizacion, Disparar
<1>5. ASSUME NEW a \in Anulaciones, Anular(a)
      PROVE  Anulando'
  <2> USE DEF PasarAnulacion
  <2>1. ASSUME NEW f \in Facturas, LeerAprobada(a, f)
        PROVE  Anulando'
    BY ZenonT(60), <2>1 DEF LeerAprobada, EstadoRespaldado, Respaldo
  <2>2. CASE EnviarAnulacion(a)
    BY <2>2 DEF EnviarAnulacion
  <2>3. CASE ContestaAnulacion(a)
    BY <2>3 DEF ContestaAnulacion, Confirmada
  <2>4. CASE ActualizarEstadoAnulado(a) \/ RegistrarAuditoria(a) \/ AbortarAnulacion(a)
    BY <2>4 DEF ActualizarEstadoAnulado, RegistrarAuditoria, AbortarAnulacion
  <2> QED
    BY <1>5, <2>1, <2>2, <2>3, <2>4 DEF Anular
<1>6. CASE Caer
  BY <1>6 DEF Caer
<1>7. CASE UNCHANGED vars
  BY <1>1, <1>7 DEF vars
<1> QED
  BY <1>2, <1>3, <1>4, <1>5, <1>6, <1>7 DEF Next

-----------------------------------------------------------------------------
(* EstadoRespaldado                                                        *)

LEMMA RespaldoEstable ==
  ASSUME TypeOK', NEW f \in Facturas, estado'[f] = estado[f], AvanzaDe(f), Respaldo(f)
  PROVE  Respaldo(f)'
<1>1. dgii'[f] \in {"sin_recibir", "recibida", "rechazada", "aprobada", "rechazada_def",
                    "anulada"}
  BY DEF TypeOK
<1> QED
  BY <1>1 DEF AvanzaDe, Respaldo

\* Only the steps that write estado_dgii have something to show.
LEMMA PasoDeRespaldo ==
  ASSUME IInv, TypeOK', Avanza, [Next]_vars
  PROVE  \A f \in Facturas : Respaldo(f)'
<1> USE DEF tablaVars, emisionVars, dgiiVars, cicloVars, anulacionVars, registroVars
<1>1. ASSUME estado' = estado
      PROVE  \A f \in Facturas : Respaldo(f)'
  BY <1>1, RespaldoEstable DEF IInv, EstadoRespaldado, Avanza
<1>2. ASSUME NEW g \in Facturas, NEW e, estado' = [estado EXCEPT ![g] = e], Respaldo(g)'
      PROVE  \A f \in Facturas : Respaldo(f)'
  <2>1. ASSUME NEW f \in Facturas, f # g
        PROVE  Respaldo(f)'
    <3>1. estado'[f] = estado[f]
      BY <1>2, <2>1 DEF IInv, TypeOK
    <3> QED
      BY <3>1, RespaldoEstable DEF IInv, EstadoRespaldado, Avanza
  <2> QED
    BY <1>2, <2>1
<1>3. ASSUME NEW g \in Facturas, Guardar(g)
      PROVE  \A f \in Facturas : Respaldo(f)'
  <2>1. Respaldo(g)'
    BY <1>3 DEF Guardar, Respaldo, IInv, TypeOK
  <2> QED
    BY <1>2, <1>3, <2>1 DEF Guardar
<1>4. ASSUME NEW g \in Facturas, GuardarResultado(g)
      PROVE  \A f \in Facturas : Respaldo(f)'
  <2>1. estado'[g] = resultado[g].estado /\ dgii'[g] = dgii[g]
    BY <1>4 DEF GuardarResultado, IInv, TypeOK
  <2>2. resultado[g].estado \in {"ACEPTADO", "RECHAZADO", "REINTENTANDO"}
    BY DEF IInv, TypeOK, Resultados
  <2>3. CASE resultado[g].estado = "RECHAZADO"
    BY <1>2, <1>4, <2>1, <2>3 DEF GuardarResultado, IInv, Emitidas, Respaldo
  <2>4. CASE resultado[g].estado = "ACEPTADO"
    <3>1. dgii[g] \in {"recibida", "aprobada", "rechazada_def", "anulada"}
      BY <1>4, <2>4 DEF GuardarResultado, IInv, Emitidas, TypeOK
    <3> QED
      BY <1>2, <1>4, <2>1, <2>4, <3>1 DEF GuardarResultado, Respaldo
  <2>5. CASE resultado[g].estado = "REINTENTANDO"
    BY <1>2, <1>4, <2>1, <2>5 DEF GuardarResultado, Respaldo
  <2> QED
    BY <2>2, <2>3, <2>4, <2>5
<1>5. ASSUME NEW g \in Facturas, Emitir(g), ~Guardar(g), ~GuardarResultado(g)
      PROVE  estado' = estado
  BY <1>5 DEF Emitir, Rechazar, Subir, Fallar, Renovar, NoSale, Contesta, SeCorta, Llega,
              Resolucion
<1>6. ASSUME NEW g \in Facturas, Resolver(g) \/ LlegarTarde(g)
      PROVE  estado' = estado
  BY <1>6 DEF Resolver, LlegarTarde
<1>7. ASSUME NEW g \in Facturas, AnularDePrueba(g)
      PROVE  \A f \in Facturas : Respaldo(f)'
  <2>1. dgii[g] \in {"aprobada", "anulada"} /\ g \in DePrueba
    BY <1>7 DEF AnularDePrueba, IInv, EstadoRespaldado, Respaldo
  <2>2. estado'[g] = "ANULADO" /\ dgii'[g] = dgii[g]
    BY <1>7 DEF AnularDePrueba, IInv, TypeOK
  <2> QED
    BY <1>2, <1>7, <2>1, <2>2 DEF AnularDePrueba, Respaldo
<1>8. ASSUME NEW c \in Ciclos, ActualizarEstadoTerminal(c)
      PROVE  \A f \in Facturas : Respaldo(f)'
  <2>1. PICK g \in Facturas : g = consultada[c]
    BY <1>8 DEF ActualizarEstadoTerminal, IInv, Consultas
  <2>2. estado'[g] = veredicto[c] /\ dgii'[g] = dgii[g]
    BY <1>8, <2>1 DEF ActualizarEstadoTerminal, IInv, TypeOK
  <2>3. \/ veredicto[c] = "APROBADO" /\ dgii[g] \in {"aprobada", "anulada"}
        \/ veredicto[c] = "RECHAZADO_DEFINITIVO" /\ dgii[g] = "rechazada_def"
    BY <1>8, <2>1 DEF ActualizarEstadoTerminal, IInv, Consultas
  <2> QED
    BY <1>2, <1>8, <2>1, <2>2, <2>3 DEF ActualizarEstadoTerminal, Respaldo
<1>9. ASSUME NEW c \in Ciclos, Recorrer(c), ~ActualizarEstadoTerminal(c)
      PROVE  estado' = estado
  BY <1>9 DEF Recorrer, Iniciar, SinCambio, Consultar, FallarActualizacion, Disparar
<1>10. ASSUME NEW a \in Anulaciones, ActualizarEstadoAnulado(a)
       PROVE  \A f \in Facturas : Respaldo(f)'
  <2>1. PICK g \in Facturas : g = objetivo[a]
    BY <1>10 DEF ActualizarEstadoAnulado, IInv, Anulando
  <2>2. estado'[g] = "ANULADO" /\ dgii'[g] = "anulada"
    BY <1>10, <2>1 DEF ActualizarEstadoAnulado, IInv, Anulando, TypeOK
  <2> QED
    BY <1>2, <1>10, <2>1, <2>2 DEF ActualizarEstadoAnulado, Respaldo
<1>11. ASSUME NEW a \in Anulaciones, Anular(a), ~ActualizarEstadoAnulado(a)
       PROVE  estado' = estado
  BY <1>11 DEF Anular, LeerAprobada, EnviarAnulacion, ContestaAnulacion, RegistrarAuditoria,
               AbortarAnulacion
<1>12. CASE Caer \/ UNCHANGED vars
  BY <1>1, <1>12 DEF Caer, vars
<1> QED
  BY <1>1, <1>3, <1>4, <1>5, <1>6, <1>7, <1>8, <1>9, <1>10, <1>11, <1>12 DEF Next

LEMMA PasoDeAuditadas ==
  ASSUME IInv, Avanza, [Next]_vars
  PROVE  \A f \in auditadas' : dgii'[f] = "anulada"
<1> USE DEF tablaVars, emisionVars, dgiiVars, cicloVars, anulacionVars, registroVars
<1>1. \A f \in auditadas : dgii'[f] = "anulada"
  BY DEF IInv, TypeOK, EstadoRespaldado, Avanza, AvanzaDe
<1>2. ASSUME NEW a \in Anulaciones, RegistrarAuditoria(a)
      PROVE  auditadas' = auditadas \union {objetivo[a]} /\ dgii'[objetivo[a]] = "anulada"
  BY <1>2 DEF RegistrarAuditoria, IInv, Anulando
<1>3. ASSUME NEW f \in Facturas, Emitir(f) \/ Resolver(f) \/ LlegarTarde(f) \/ AnularDePrueba(f)
      PROVE  auditadas' = auditadas
  BY <1>3 DEF Emitir, Rechazar, Guardar, Subir, Fallar, Renovar, NoSale, Contesta, SeCorta,
              Llega, GuardarResultado, Resolucion, Resolver, LlegarTarde,
              AnularDePrueba
<1>4. ASSUME NEW c \in Ciclos, Recorrer(c)
      PROVE  auditadas' = auditadas
  BY <1>4 DEF Recorrer, Iniciar, SinCambio, Consultar, ActualizarEstadoTerminal,
              FallarActualizacion, Disparar
<1>5. ASSUME NEW a \in Anulaciones, Anular(a), ~RegistrarAuditoria(a)
      PROVE  auditadas' = auditadas
  BY <1>5 DEF Anular, LeerAprobada, EnviarAnulacion, ContestaAnulacion,
              ActualizarEstadoAnulado, AbortarAnulacion
<1>6. CASE Caer \/ UNCHANGED vars
  BY <1>1, <1>6 DEF Caer, vars
<1> QED
  BY <1>1, <1>2, <1>3, <1>4, <1>5, <1>6 DEF Next

\* The XML is stored before the document leaves, and stays stored.
LEMMA PasoDeXml ==
  ASSUME IInv, [Next]_vars
  PROVE  \A f \in Facturas : dgii'[f] # "sin_recibir" => f \in conXml'
<1> USE DEF tablaVars, emisionVars, dgiiVars, cicloVars, anulacionVars, registroVars, IInv, TypeOK,
        EstadoRespaldado
<1>1. ASSUME conXml \subseteq conXml',
             \A f \in Facturas : dgii[f] = "sin_recibir" => dgii'[f] = "sin_recibir"
      PROVE  \A f \in Facturas : dgii'[f] # "sin_recibir" => f \in conXml'
  BY <1>1
<1>2. ASSUME NEW g \in Facturas, Llega(g)
      PROVE  \A f \in Facturas : dgii'[f] # "sin_recibir" => f \in conXml'
  <2>1. g \in conXml
    BY <1>2 DEF Llega, Emitidas
  <2>2. conXml' = conXml /\ \A f \in Facturas \ {g} : dgii'[f] = dgii[f]
    BY <1>2 DEF Llega
  <2> QED
    BY <2>1, <2>2
<1>3. ASSUME NEW g \in Facturas, Emitir(g), ~Llega(g)
      PROVE  conXml \subseteq conXml' /\ dgii' = dgii
  BY <1>3 DEF Emitir, Rechazar, Guardar, Subir, Fallar, Renovar, NoSale, Contesta, SeCorta,
              GuardarResultado, Resolucion
<1>4. ASSUME NEW g \in Facturas, Resolver(g)
      PROVE  /\ conXml' = conXml
             /\ \A f \in Facturas : dgii[f] = "sin_recibir" => dgii'[f] = "sin_recibir"
  BY <1>4 DEF Resolver
<1>5. ASSUME NEW g \in Facturas, AnularDePrueba(g)
      PROVE  conXml' = conXml /\ dgii' = dgii
  BY <1>5 DEF AnularDePrueba
<1>6. ASSUME NEW c \in Ciclos, Recorrer(c)
      PROVE  conXml' = conXml /\ dgii' = dgii
  BY <1>6 DEF Recorrer, Iniciar, SinCambio, Consultar, ActualizarEstadoTerminal,
              FallarActualizacion, Disparar
<1>7. ASSUME NEW a \in Anulaciones, EnviarAnulacion(a)
      PROVE  /\ conXml' = conXml
             /\ \A f \in Facturas : dgii[f] = "sin_recibir" => dgii'[f] = "sin_recibir"
  BY <1>7 DEF EnviarAnulacion
<1>8. ASSUME NEW a \in Anulaciones, Anular(a), ~EnviarAnulacion(a)
      PROVE  conXml' = conXml /\ dgii' = dgii
  BY <1>8 DEF Anular, LeerAprobada, ContestaAnulacion, ActualizarEstadoAnulado,
              RegistrarAuditoria, AbortarAnulacion
<1>9. CASE Caer \/ UNCHANGED vars
  BY <1>1, <1>9 DEF Caer, vars
<1>10. ASSUME NEW g \in Facturas, LlegarTarde(g)
       PROVE  \A f \in Facturas : dgii'[f] # "sin_recibir" => f \in conXml'
  <2>1. conXml' = conXml /\ \A f \in Facturas \ {g} : dgii'[f] = dgii[f]
    BY <1>10 DEF LlegarTarde
  <2>2. g \in conXml
    BY <1>10 DEF LlegarTarde, Emitidas
  <2> QED
    BY <2>1, <2>2
<1> QED
  BY <1>1, <1>2, <1>3, <1>4, <1>5, <1>6, <1>7, <1>8, <1>9, <1>10 DEF Next

-----------------------------------------------------------------------------
(* AvisoCierto                                                             *)

LEMMA PasoDeAvisos ==
  ASSUME IInv, Avanza, [Next]_vars
  PROVE  AvisoCierto'
<1> USE DEF tablaVars, emisionVars, dgiiVars, cicloVars, anulacionVars, registroVars
<1>2. \A f \in Facturas : \A i \in 1 .. Len(avisos[f]) :
        IF avisos[f][i] = "factura_aceptada"
        THEN dgii'[f] \in {"aprobada", "anulada"}
        ELSE dgii'[f] = "rechazada_def"
  BY DEF IInv, AvisoCierto, Avanza, AvanzaDe
<1>3. ASSUME avisos' = avisos
      PROVE  AvisoCierto'
  BY <1>2, <1>3 DEF AvisoCierto
<1>4. ASSUME NEW c \in Ciclos, Disparar(c)
      PROVE  AvisoCierto'
  <2>1. PICK g \in Facturas : g = consultada[c]
    BY <1>4 DEF Disparar, IInv, Consultas
  <2> DEFINE nuevo == Evento(veredicto[c])
  <2>2. IF nuevo = "factura_aceptada"
        THEN dgii'[g] \in {"aprobada", "anulada"}
        ELSE dgii'[g] = "rechazada_def"
    BY <1>4, <2>1 DEF Disparar, IInv, Consultas, Evento
  <2>3. CASE avisos' = [avisos EXCEPT ![g] = Append(@, nuevo)]
    <3>1. SUFFICES ASSUME NEW f \in Facturas, NEW i \in 1 .. Len(avisos'[f])
                   PROVE  IF avisos'[f][i] = "factura_aceptada"
                          THEN dgii'[f] \in {"aprobada", "anulada"}
                          ELSE dgii'[f] = "rechazada_def"
      BY DEF AvisoCierto
    <3>2. CASE f # g
      <4>1. avisos'[f] = avisos[f]
        BY <2>3, <3>2 DEF IInv, TypeOK
      <4> QED
        BY <1>2, <3>1, <4>1
    <3>3. CASE f = g
      <4>1. avisos[g] \in Seq(Eventos) /\ avisos'[g] = Append(avisos[g], nuevo)
        BY <2>3 DEF IInv, TypeOK
      <4>2. CASE i = Len(avisos[g]) + 1
        <5>1. avisos'[g][i] = nuevo
          BY <4>1, <4>2
        <5> QED
          BY <2>2, <3>3, <5>1
      <4>3. CASE i # Len(avisos[g]) + 1
        <5>1. i \in 1 .. Len(avisos[g]) /\ avisos'[g][i] = avisos[g][i]
          BY <3>1, <3>3, <4>1, <4>3
        <5> QED
          BY <1>2, <3>3, <5>1
      <4> QED
        BY <4>2, <4>3
    <3> QED
      BY <3>2, <3>3
  <2> QED
    BY <1>3, <1>4, <2>1, <2>3 DEF Disparar
<1>5. ASSUME NEW f \in Facturas, Emitir(f) \/ Resolver(f) \/ LlegarTarde(f) \/ AnularDePrueba(f)
      PROVE  avisos' = avisos
  BY <1>5 DEF Emitir, Rechazar, Guardar, Subir, Fallar, Renovar, NoSale, Contesta, SeCorta,
              Llega, GuardarResultado, Resolucion, Resolver, LlegarTarde,
              AnularDePrueba
<1>6. ASSUME NEW c \in Ciclos, Recorrer(c), ~Disparar(c)
      PROVE  avisos' = avisos
  BY <1>6 DEF Recorrer, Iniciar, SinCambio, Consultar, ActualizarEstadoTerminal,
              FallarActualizacion
<1>7. ASSUME NEW a \in Anulaciones, Anular(a)
      PROVE  avisos' = avisos
  BY <1>7 DEF Anular, LeerAprobada, EnviarAnulacion, ContestaAnulacion,
              ActualizarEstadoAnulado, RegistrarAuditoria, AbortarAnulacion
<1>8. CASE Caer \/ UNCHANGED vars
  BY <1>3, <1>8 DEF Caer, vars
<1> QED
  BY <1>3, <1>4, <1>5, <1>6, <1>7, <1>8 DEF Next

-----------------------------------------------------------------------------
(* The theorems                                                            *)

LEMMA InvAlInicio ==
  ASSUME Init
  PROVE  IInv
<1>1. TypeOK
  BY DEF Init, TypeOK, Fases, Vivas, Resultados, Reintentando
<1>2. Emitidas /\ Consultas /\ Anulando
  BY DEF Init, Emitidas, Consultas, Anulando
<1>3. EstadoRespaldado
  BY NuloAssumption DEF Init, EstadoRespaldado, Respaldo, Estados
<1>4. AvisoCierto
  BY DEF Init, AvisoCierto
<1> QED
  BY <1>1, <1>2, <1>3, <1>4 DEF IInv

LEMMA PasoDeInv ==
  ASSUME IInv, [Next]_vars
  PROVE  IInv'
<1>1. TypeOK' /\ Avanza
  BY TiposInductivos, DgiiAvanza DEF IInv
<1>2. Emitidas' /\ Consultas' /\ Anulando'
  BY <1>1, PasoDeEmitidas, PasoDeConsultas, PasoDeAnulando DEF IInv
<1>3. EstadoRespaldado'
  BY <1>1, PasoDeRespaldo, PasoDeAuditadas, PasoDeXml DEF EstadoRespaldado
<1>4. AvisoCierto'
  BY <1>1, PasoDeAvisos
<1> QED
  BY <1>1, <1>2, <1>3, <1>4 DEF IInv

\* The invariant that the other theorems rest on holds in every reachable state.
THEOREM Inductivo == Spec => []IInv
BY InvAlInicio, PasoDeInv, PTL DEF Spec

\* The rows, the requests, the cycles and the annulments stay in their types.
THEOREM TipoCorrecto == Spec => []TypeOK
<1>1. IInv => TypeOK
  BY DEF IInv
<1> QED
  BY <1>1, Inductivo, PTL

\* Every state the gateway shows was decided by the DGII first, for any number of
\* invoices, of annulments and of polling cycles, even when these overlap.
THEOREM EstadosRespaldados == Spec => []EstadoRespaldado
<1>1. IInv => EstadoRespaldado
  BY DEF IInv
<1> QED
  BY <1>1, Inductivo, PTL

\* No webhook of the polling tells something else than what the DGII decided.
THEOREM AvisosCiertos == Spec => []AvisoCierto
<1>1. IInv => AvisoCierto
  BY DEF IInv
<1> QED
  BY <1>1, Inductivo, PTL

-----------------------------------------------------------------------------
(* One polling cycle at a time                                             *)

\* No cycle starts while another still runs: which @Interval does not ensure.
UnCiclo == \A c, d \in Ciclos : c = d

Concluida == {"APROBADO", "RECHAZADO_DEFINITIVO", "ANULADO"}

\* While crearFactura works, nobody else writes the row.
EmisionEnCurso ==
  \A f \in Facturas :
    /\ estado[f] = Nulo => fase[f] \in {"nueva", "rechazada"}
    /\ fase[f] \in Vivas \ {"nueva"} => estado[f] = "ENVIADO"

\* The DGII is only asked to annul what is shown as approved.
AnulablesMostradas ==
  /\ \A f \in Facturas :
       dgii[f] = "anulada" \/ (f \in rezagadas /\ dgii[f] # "sin_recibir") =>
         estado[f] \in {"APROBADO", "ANULADO"}
  /\ \A a \in Anulaciones :
       pasoA[a] # "reposo" => estado[objetivo[a]] \in {"APROBADO", "ANULADO"}

\* What is on the list of the cycle is still as it was read, except the invoice whose
\* outcome it has just written, of which nobody has been told.
ListaVigente ==
  \A c \in Ciclos :
    /\ pasoC[c] \in {"recorriendo", "contestada"} =>
         \A f \in pendientes[c] : estado[f] = "ACEPTADO"
    /\ pasoC[c] = "contestada" => consultada[c] \in pendientes[c]
    /\ pasoC[c] = "actualizada" =>
         /\ \A f \in pendientes[c] \ {consultada[c]} : estado[f] = "ACEPTADO"
         /\ estado[consultada[c]] \in Concluida
         /\ avisos[consultada[c]] = <<>>

AvisadaConcluida ==
  \A f \in Facturas :
    avisos[f] # <<>> => estado[f] \in Concluida /\ Len(avisos[f]) = 1

Vida == EmisionEnCurso /\ AnulablesMostradas /\ ListaVigente /\ AvisadaConcluida

\* Each step of the gateway and of the DGII is one that EstadoFactura allows.
LEMMA PasoPrometido ==
  ASSUME IInv, Vida, [Next]_vars
  PROVE  [Promesa!Next]_(Promesa!estadoVars)
<1> USE DEF tablaVars, emisionVars, dgiiVars, cicloVars, anulacionVars, registroVars,
        Promesa!estadoVars
<1>1. ASSUME UNCHANGED <<estado, dgii>>
      PROVE  [Promesa!Next]_(Promesa!estadoVars)
  BY <1>1
<1>2. ASSUME NEW f \in Facturas, Guardar(f)
      PROVE  [Promesa!Next]_(Promesa!estadoVars)
  <2>1. Promesa!Emitir(f)
    BY <1>2 DEF Guardar, IInv, Emitidas, Promesa!Emitir, Promesa!Mostrar
  <2> QED
    BY <2>1 DEF Promesa!Next
<1>3. ASSUME NEW f \in Facturas, Llega(f)
      PROVE  [Promesa!Next]_(Promesa!estadoVars)
  <2>1. estado[f] = "ENVIADO" /\ dgii[f] = "sin_recibir"
    BY <1>3 DEF Llega, IInv, Emitidas
  <2>2. Promesa!Recibir(f)
    BY <1>3, <2>1 DEF Llega, Promesa!Recibir, Promesa!Decidir
  <2> QED
    BY <2>2 DEF Promesa!Next
<1>4. ASSUME NEW f \in Facturas, GuardarResultado(f)
      PROVE  [Promesa!Next]_(Promesa!estadoVars)
  <2>1. estado[f] = "ENVIADO"
    BY <1>4 DEF GuardarResultado, Vida, EmisionEnCurso, Vivas
  <2>2. \/ resultado[f].estado = "REINTENTANDO"
        \/ resultado[f].estado = "RECHAZADO" /\ dgii[f] = "rechazada"
        \/ resultado[f].estado = "ACEPTADO" /\ dgii[f] \in Promesa!Admitida
    BY <1>4 DEF GuardarResultado, IInv, Emitidas, TypeOK, Resultados, Promesa!Admitida
  <2>3. Promesa!Responder(f)
    BY <1>4, <2>1, <2>2 DEF GuardarResultado, Promesa!Responder, Promesa!Mostrar
  <2> QED
    BY <2>3 DEF Promesa!Next
<1>5. ASSUME NEW f \in Facturas, Emitir(f), ~Guardar(f), ~Llega(f), ~GuardarResultado(f)
      PROVE  UNCHANGED <<estado, dgii>>
  BY <1>5 DEF Emitir, Rechazar, Subir, Fallar, Renovar, NoSale, Contesta, SeCorta, Resolucion
<1>6. ASSUME NEW f \in Facturas, Resolver(f)
      PROVE  [Promesa!Next]_(Promesa!estadoVars)
  <2>1. Promesa!Resolver(f)
    BY <1>6 DEF Resolver, Promesa!Resolver, Promesa!Decidir
  <2> QED
    BY <2>1 DEF Promesa!Next
<1>7. ASSUME NEW f \in Facturas, LlegarTarde(f)
      PROVE  [Promesa!Next]_(Promesa!estadoVars)
  <2>1. CASE dgii[f] = "sin_recibir"
    <3>1. estado[f] \in {"ENVIADO", "REINTENTANDO"}
      <4>1. estado[f] # Nulo
        BY <1>7, <2>1 DEF LlegarTarde, IInv, Emitidas, Vida, EmisionEnCurso
      <4>2. estado[f] \notin {"RECHAZADO", "ACEPTADO", "APROBADO", "RECHAZADO_DEFINITIVO",
                              "ANULADO"}
        BY <2>1 DEF IInv, EstadoRespaldado, Respaldo
      <4> QED
        BY <4>1, <4>2 DEF IInv, TypeOK, Estados
    <3>2. Promesa!Recibir(f)
      BY <1>7, <2>1, <3>1 DEF LlegarTarde, Tardios, Promesa!Recibir, Promesa!Decidir
    <3> QED
      BY <3>2 DEF Promesa!Next
  <2>2. CASE dgii[f] # "sin_recibir"
    <3>1. dgii[f] = "aprobada" /\ dgii' = [dgii EXCEPT ![f] = "anulada"]
      BY <1>7, <2>2 DEF LlegarTarde, Tardios
    <3>2. estado[f] \in {"APROBADO", "ANULADO"}
      BY <1>7, <2>2 DEF LlegarTarde, Vida, AnulablesMostradas
    <3>3. Promesa!AnularEnDgii(f)
      BY <1>7, <3>1, <3>2 DEF LlegarTarde, Promesa!AnularEnDgii, Promesa!Decidir
    <3> QED
      BY <3>3 DEF Promesa!Next
  <2> QED
    BY <2>1, <2>2
<1>8. ASSUME NEW f \in Facturas, AnularDePrueba(f)
      PROVE  [Promesa!Next]_(Promesa!estadoVars)
  <2>1. Promesa!Anular(f)
    BY <1>8 DEF AnularDePrueba, Promesa!Anular, Promesa!Mostrar
  <2> QED
    BY <2>1 DEF Promesa!Next
<1>9. ASSUME NEW c \in Ciclos, ActualizarEstadoTerminal(c)
      PROVE  [Promesa!Next]_(Promesa!estadoVars)
  <2>1. PICK f \in Facturas : f = consultada[c]
    BY <1>9 DEF ActualizarEstadoTerminal, IInv, Consultas
  <2>2. estado[f] = "ACEPTADO"
    BY <1>9, <2>1 DEF ActualizarEstadoTerminal, Vida, ListaVigente
  <2>3. \/ veredicto[c] = "APROBADO" /\ dgii[f] = "aprobada"
        \/ veredicto[c] = "RECHAZADO_DEFINITIVO" /\ dgii[f] = "rechazada_def"
    BY <1>9, <2>1, <2>2 DEF ActualizarEstadoTerminal, IInv, Consultas, Vida, AnulablesMostradas
  <2>4. Promesa!Concluir(f)
    BY <1>9, <2>1, <2>2, <2>3
       DEF ActualizarEstadoTerminal, Promesa!Concluir, Promesa!Mostrar
  <2> QED
    BY <2>4 DEF Promesa!Next
<1>10. ASSUME NEW c \in Ciclos, Recorrer(c), ~ActualizarEstadoTerminal(c)
       PROVE  UNCHANGED <<estado, dgii>>
  BY <1>10 DEF Recorrer, Iniciar, SinCambio, Consultar, FallarActualizacion, Disparar
<1>11. ASSUME NEW a \in Anulaciones, EnviarAnulacion(a)
       PROVE  [Promesa!Next]_(Promesa!estadoVars)
  <2>1. PICK f \in Facturas : f = objetivo[a]
    BY <1>11 DEF EnviarAnulacion, IInv, Anulando
  <2>2. estado[f] \in {"APROBADO", "ANULADO"}
    BY <1>11, <2>1 DEF EnviarAnulacion, Vida, AnulablesMostradas
  <2>3. CASE UNCHANGED dgii
    BY <1>1, <1>11, <2>3 DEF EnviarAnulacion
  <2>4. CASE dgii[f] = "aprobada" /\ dgii' = [dgii EXCEPT ![f] = "anulada"]
    <3>1. Promesa!AnularEnDgii(f)
      BY <1>11, <2>2, <2>4 DEF EnviarAnulacion, Promesa!AnularEnDgii, Promesa!Decidir
    <3> QED
      BY <3>1 DEF Promesa!Next
  <2> QED
    BY <1>11, <2>1, <2>3, <2>4 DEF EnviarAnulacion
<1>12. ASSUME NEW a \in Anulaciones, ActualizarEstadoAnulado(a)
       PROVE  [Promesa!Next]_(Promesa!estadoVars)
  <2>1. PICK f \in Facturas : f = objetivo[a]
    BY <1>12 DEF ActualizarEstadoAnulado, IInv, Anulando
  <2>2. dgii[f] = "anulada" /\ estado[f] \in {"APROBADO", "ANULADO"}
    BY <1>12, <2>1 DEF ActualizarEstadoAnulado, IInv, Anulando, Vida, AnulablesMostradas
  <2>3. CASE estado[f] = "APROBADO"
    <3>1. Promesa!Anular(f)
      BY <1>12, <2>1, <2>2, <2>3 DEF ActualizarEstadoAnulado, Promesa!Anular, Promesa!Mostrar
    <3> QED
      BY <3>1 DEF Promesa!Next
  <2>4. CASE estado[f] = "ANULADO"
    <3>1. estado' = estado
      BY <1>12, <2>1, <2>4 DEF ActualizarEstadoAnulado, IInv, TypeOK
    <3> QED
      BY <1>1, <1>12, <3>1 DEF ActualizarEstadoAnulado
  <2> QED
    BY <2>2, <2>3, <2>4
<1>13. ASSUME NEW a \in Anulaciones, Anular(a), ~EnviarAnulacion(a),
              ~ActualizarEstadoAnulado(a)
       PROVE  UNCHANGED <<estado, dgii>>
  BY <1>13 DEF Anular, LeerAprobada, ContestaAnulacion, RegistrarAuditoria, AbortarAnulacion
<1>14. CASE Caer \/ UNCHANGED vars
  BY <1>1, <1>14 DEF Caer, vars
<1> QED
  BY <1>1, <1>2, <1>3, <1>4, <1>5, <1>6, <1>7, <1>8, <1>9, <1>10, <1>11, <1>12, <1>13, <1>14
     DEF Next

\* What EstadoFactura promises of the states it has left behind.
MostradoAvanza ==
  \A f \in Facturas :
    /\ estado[f] # Nulo => estado'[f] # Nulo
    /\ estado[f] \in {"APROBADO", "ANULADO"} => estado'[f] \in {"APROBADO", "ANULADO"}
    /\ estado[f] = "ANULADO" => estado'[f] = "ANULADO"
    /\ estado[f] \in Concluida => estado'[f] \in Concluida

LEMMA EstadoAvanza ==
  ASSUME TypeOK, [Promesa!Next]_(Promesa!estadoVars)
  PROVE  MostradoAvanza
<1> USE NuloAssumption DEF MostradoAvanza, TypeOK, Estados, Concluida, Promesa!Mostrar,
        Promesa!Decidir
<1>1. CASE UNCHANGED Promesa!estadoVars
  BY <1>1 DEF Promesa!estadoVars
<1>2. ASSUME NEW f \in Facturas, Promesa!Emitir(f)
      PROVE  MostradoAvanza
  BY <1>2 DEF Promesa!Emitir
<1>3. ASSUME NEW f \in Facturas,
             Promesa!Recibir(f) \/ Promesa!Resolver(f) \/ Promesa!AnularEnDgii(f)
      PROVE  MostradoAvanza
  BY <1>3 DEF Promesa!Recibir, Promesa!Resolver, Promesa!AnularEnDgii
<1>4. ASSUME NEW f \in Facturas, Promesa!Responder(f)
      PROVE  MostradoAvanza
  BY <1>4 DEF Promesa!Responder
<1>5. ASSUME NEW f \in Facturas, Promesa!Concluir(f)
      PROVE  MostradoAvanza
  BY <1>5 DEF Promesa!Concluir
<1>6. ASSUME NEW f \in Facturas, Promesa!Anular(f)
      PROVE  MostradoAvanza
  BY <1>6 DEF Promesa!Anular
<1> QED
  BY <1>1, <1>2, <1>3, <1>4, <1>5, <1>6 DEF Promesa!Next

LEMMA PasoDeEmisionEnCurso ==
  ASSUME IInv, Vida, MostradoAvanza, [Next]_vars
  PROVE  EmisionEnCurso'
<1> USE NuloAssumption DEF IInv, TypeOK, Vida, EmisionEnCurso, MostradoAvanza, Vivas, Estados,
        tablaVars, emisionVars, dgiiVars, cicloVars, anulacionVars, registroVars, PasarA
<1>1. ASSUME fase' = fase, \A f \in Facturas : fase[f] \in Vivas \ {"nueva"} => estado'[f] = estado[f]
      PROVE  EmisionEnCurso'
  BY <1>1
<1>2. ASSUME fase' = fase, estado' = estado
      PROVE  EmisionEnCurso'
  BY <1>2
<1>3. ASSUME NEW f \in Facturas, Emitir(f)
      PROVE  EmisionEnCurso'
  <2>1. CASE Rechazar(f) \/ Guardar(f) \/ Subir(f) \/ Fallar(f) \/ Renovar(f)
    BY <2>1 DEF Rechazar, Guardar, Subir, Fallar, Renovar
  <2>2. CASE NoSale(f) \/ SeCorta(f) \/ Contesta(f)
    BY <2>2 DEF NoSale, SeCorta, Contesta, Resolucion
  <2>3. CASE Llega(f)
    BY <2>3 DEF Llega
  <2>4. CASE GuardarResultado(f)
    <3>1. resultado[f].estado # Nulo
      BY DEF Resultados
    <3> QED
      BY <2>4, <3>1 DEF GuardarResultado
  <2> QED
    BY <1>3, <2>1, <2>2, <2>3, <2>4 DEF Emitir
<1>4. ASSUME NEW f \in Facturas, Resolver(f) \/ LlegarTarde(f)
      PROVE  EmisionEnCurso'
  BY <1>2, <1>4 DEF Resolver, LlegarTarde
<1>5. ASSUME NEW f \in Facturas, AnularDePrueba(f)
      PROVE  EmisionEnCurso'
  BY <1>1, <1>5 DEF AnularDePrueba
<1>6. ASSUME NEW c \in Ciclos, Recorrer(c)
      PROVE  EmisionEnCurso'
  <2>1. CASE ActualizarEstadoTerminal(c)
    <3>1. estado[consultada[c]] = "ACEPTADO" /\ consultada[c] \in Facturas
      BY <2>1 DEF ActualizarEstadoTerminal, ListaVigente, Consultas
    <3> QED
      BY <1>1, <2>1, <3>1 DEF ActualizarEstadoTerminal
  <2>2. CASE ~ActualizarEstadoTerminal(c)
    BY <1>2, <1>6, <2>2
       DEF Recorrer, Iniciar, SinCambio, Consultar, FallarActualizacion, Disparar
  <2> QED
    BY <2>1, <2>2
<1>7. ASSUME NEW a \in Anulaciones, Anular(a)
      PROVE  EmisionEnCurso'
  <2>1. CASE ActualizarEstadoAnulado(a)
    <3>1. estado[objetivo[a]] \in {"APROBADO", "ANULADO"} /\ objetivo[a] \in Facturas
      BY <2>1 DEF ActualizarEstadoAnulado, AnulablesMostradas, Anulando
    <3> QED
      BY <1>1, <2>1, <3>1 DEF ActualizarEstadoAnulado
  <2>2. CASE ~ActualizarEstadoAnulado(a)
    BY <1>2, <1>7, <2>2 DEF Anular, LeerAprobada, EnviarAnulacion, ContestaAnulacion,
                            RegistrarAuditoria, AbortarAnulacion
  <2> QED
    BY <2>1, <2>2
<1>8. CASE Caer
  <2>1. estado' = estado /\ \A f \in Facturas : fase'[f] \notin Vivas \ {"nueva"}
    BY <1>8 DEF Caer
  <2>2. \A f \in Facturas : fase[f] \in {"nueva", "rechazada"} => fase'[f] = fase[f]
    BY <1>8 DEF Caer
  <2> QED
    BY <2>1, <2>2
<1>9. CASE UNCHANGED vars
  BY <1>2, <1>9 DEF vars
<1> QED
  BY <1>3, <1>4, <1>5, <1>6, <1>7, <1>8, <1>9 DEF Next

LEMMA PasoDeAnulablesMostradas ==
  ASSUME IInv, TypeOK', Vida, Avanza, MostradoAvanza, [Next]_vars
  PROVE  AnulablesMostradas'
<1> USE DEF IInv, TypeOK, Vida, AnulablesMostradas, MostradoAvanza, tablaVars, emisionVars,
        dgiiVars, cicloVars, anulacionVars, registroVars
<1> DEFINE Anulable(f) == dgii[f] = "anulada" \/ (f \in rezagadas /\ dgii[f] # "sin_recibir")
           Mostrada(f) == estado[f] \in {"APROBADO", "ANULADO"}
<1>1. ASSUME \A f \in Facturas : Anulable(f)' => Anulable(f) \/ Mostrada(f),
             \A a \in Anulaciones :
               pasoA'[a] # "reposo" =>
                 objetivo'[a] \in Facturas /\
                 (Mostrada(objetivo'[a]) \/ (pasoA[a] # "reposo" /\ objetivo'[a] = objetivo[a]))
      PROVE  AnulablesMostradas'
  BY <1>1
<1>2. \A a \in Anulaciones : pasoA[a] # "reposo" => objetivo[a] \in Facturas
  BY DEF Anulando
<1>3. ASSUME UNCHANGED <<dgii, rezagadas, pasoA, objetivo>>
      PROVE  AnulablesMostradas'
  BY <1>1, <1>2, <1>3
<1>4. ASSUME NEW f \in Facturas, Emitir(f)
      PROVE  AnulablesMostradas'
  <2>1. CASE NoSale(f)
    <3>1. dgii[f] = "sin_recibir" /\ dgii' = dgii /\ rezagadas' \subseteq rezagadas \union {f}
          /\ UNCHANGED <<pasoA, objetivo>>
      BY <2>1 DEF NoSale, Resolucion, Emitidas
    <3> QED
      BY <1>1, <1>2, <3>1
  <2>2. CASE Llega(f)
    <3>1. dgii[f] = "sin_recibir" /\ fase[f] \in {"subida", "renovada"}
      BY <2>2 DEF Llega, Emitidas
    <3>2. f \notin rezagadas
      BY <3>1 DEF Emitidas
    <3> QED
      BY <1>1, <1>2, <2>2, <3>2 DEF Llega
  <2>3. CASE ~NoSale(f) /\ ~Llega(f)
    BY <1>3, <1>4, <2>3 DEF Emitir, Rechazar, Guardar, Subir, Fallar, Renovar, Contesta, SeCorta,
                            GuardarResultado, Resolucion
  <2> QED
    BY <2>1, <2>2, <2>3
<1>5. ASSUME NEW f \in Facturas, Resolver(f)
      PROVE  AnulablesMostradas'
  BY <1>1, <1>2, <1>5 DEF Resolver
<1>6. ASSUME NEW f \in Facturas, LlegarTarde(f)
      PROVE  AnulablesMostradas'
  BY <1>1, <1>2, <1>6 DEF LlegarTarde, Tardios
<1>7. ASSUME NEW f \in Facturas, AnularDePrueba(f)
      PROVE  AnulablesMostradas'
  BY <1>3, <1>7 DEF AnularDePrueba
<1>8. ASSUME NEW c \in Ciclos, Recorrer(c)
      PROVE  AnulablesMostradas'
  BY <1>3, <1>8 DEF Recorrer, Iniciar, SinCambio, Consultar, ActualizarEstadoTerminal,
                    FallarActualizacion, Disparar
<1>9. ASSUME NEW a \in Anulaciones, Anular(a)
      PROVE  AnulablesMostradas'
  <2> USE DEF PasarAnulacion
  <2>1. ASSUME NEW f \in Facturas, LeerAprobada(a, f)
        PROVE  AnulablesMostradas'
    BY <1>1, <1>2, <2>1 DEF LeerAprobada
  <2>2. CASE EnviarAnulacion(a)
    BY <1>1, <1>2, <2>2 DEF EnviarAnulacion
  <2>3. CASE ContestaAnulacion(a)
    BY <1>1, <1>2, <2>3 DEF ContestaAnulacion
  <2>4. CASE ActualizarEstadoAnulado(a) \/ RegistrarAuditoria(a)
    BY <1>1, <1>2, <2>4 DEF ActualizarEstadoAnulado, RegistrarAuditoria
  <2>5. CASE AbortarAnulacion(a)
    BY <1>1, <1>2, <2>5 DEF AbortarAnulacion
  <2> QED
    BY <1>9, <2>1, <2>2, <2>3, <2>4, <2>5 DEF Anular
<1>10. CASE Caer
  <2>1. \A a \in Anulaciones : pasoA'[a] = "reposo"
    BY <1>10 DEF Caer
  <2>2. ASSUME NEW f \in Facturas, Anulable(f)'
        PROVE  Anulable(f) \/ Mostrada(f)
    <3>1. dgii' = dgii /\ (f \in rezagadas \/ f \in Saliendo \/ dgii[f] = "anulada")
      BY <1>10, <2>2 DEF Caer
    <3>2. fase[f] \in {"subida", "renovada"} => dgii[f] = "sin_recibir"
      BY DEF Emitidas
    <3> QED
      BY <2>2, <3>1, <3>2 DEF Saliendo
  <2> QED
    BY <1>1, <2>1, <2>2
<1>11. CASE UNCHANGED vars
  BY <1>3, <1>11 DEF vars
<1> QED
  BY <1>4, <1>5, <1>6, <1>7, <1>8, <1>9, <1>10, <1>11 DEF Next

\* The rows on the list are not touched: crearFactura is done with them, and nothing
\* annuls what is not shown as approved.
LEMMA PasoDeListaVigente ==
  ASSUME UnCiclo, IInv, Vida, MostradoAvanza, [Next]_vars
  PROVE  ListaVigente'
<1> USE DEF IInv, TypeOK, Vida, tablaVars, emisionVars, dgiiVars, cicloVars, anulacionVars,
        registroVars
<1>1. ASSUME UNCHANGED <<pasoC, pendientes, consultada, avisos>>,
             \A f \in Facturas : estado[f] = "ACEPTADO" => estado'[f] = "ACEPTADO"
      PROVE  ListaVigente'
  <2>1. \A c \in Ciclos : pasoC[c] = "actualizada" => consultada[c] \in Facturas
    BY DEF Consultas
  <2> QED
    BY <1>1, <2>1 DEF ListaVigente, MostradoAvanza
<1>2. ASSUME UNCHANGED <<pasoC, pendientes, consultada, avisos, estado>>
      PROVE  ListaVigente'
  BY <1>1, <1>2
<1>3. ASSUME NEW f \in Facturas, Emitir(f)
      PROVE  ListaVigente'
  <2>1. CASE Guardar(f)
    BY <1>1, <2>1, NuloAssumption DEF Guardar, Emitidas, Estados
  <2>2. CASE GuardarResultado(f)
    BY <1>1, <2>2 DEF GuardarResultado, EmisionEnCurso, Vivas
  <2>3. CASE ~Guardar(f) /\ ~GuardarResultado(f)
    BY <1>2, <1>3, <2>3 DEF Emitir, Rechazar, Subir, Fallar, Renovar, NoSale, Contesta, SeCorta,
                            Llega, Resolucion
  <2> QED
    BY <2>1, <2>2, <2>3
<1>4. ASSUME NEW f \in Facturas, Resolver(f) \/ LlegarTarde(f)
      PROVE  ListaVigente'
  BY <1>2, <1>4 DEF Resolver, LlegarTarde
<1>5. ASSUME NEW f \in Facturas, AnularDePrueba(f)
      PROVE  ListaVigente'
  BY <1>1, <1>5 DEF AnularDePrueba
<1>6. ASSUME NEW a \in Anulaciones, Anular(a)
      PROVE  ListaVigente'
  <2>1. CASE ActualizarEstadoAnulado(a)
    BY <1>1, <2>1 DEF ActualizarEstadoAnulado, AnulablesMostradas, Anulando
  <2>2. CASE ~ActualizarEstadoAnulado(a)
    BY <1>2, <1>6, <2>2 DEF Anular, LeerAprobada, EnviarAnulacion, ContestaAnulacion,
                            RegistrarAuditoria, AbortarAnulacion
  <2> QED
    BY <2>1, <2>2
<1>7. ASSUME NEW c \in Ciclos, Recorrer(c)
      PROVE  ListaVigente'
  <2> USE <1>7 DEF UnCiclo, ListaVigente
  <2>1. CASE Iniciar(c)
    BY <2>1 DEF Iniciar, Consultables
  <2>2. ASSUME NEW f \in Facturas, SinCambio(c, f)
        PROVE  ListaVigente'
    BY <2>2 DEF SinCambio, Seguir, PasoTras
  <2>3. ASSUME NEW f \in Facturas, Consultar(c, f)
        PROVE  ListaVigente'
    BY <2>3 DEF Consultar
  <2>4. CASE ActualizarEstadoTerminal(c)
    <3>1. consultada[c] \in Facturas /\ estado[consultada[c]] = "ACEPTADO"
      BY <2>4 DEF ActualizarEstadoTerminal, Consultas
    <3>2. veredicto[c] \in Concluida
      BY <2>4 DEF ActualizarEstadoTerminal, Consultas, Concluida
    <3>3. avisos[consultada[c]] = <<>>
      BY <3>1 DEF AvisadaConcluida, Concluida
    <3> QED
      BY <2>4, <3>1, <3>2, <3>3 DEF ActualizarEstadoTerminal
  <2>5. CASE FallarActualizacion(c)
    BY <2>5 DEF FallarActualizacion, Seguir, PasoTras
  <2>6. CASE Disparar(c)
    BY <2>6 DEF Disparar, Seguir, PasoTras
  <2> QED
    BY <2>1, <2>2, <2>3, <2>4, <2>5, <2>6 DEF Recorrer
<1>8. CASE Caer
  BY <1>8 DEF Caer, ListaVigente
<1>9. CASE UNCHANGED vars
  BY <1>2, <1>9 DEF vars
<1> QED
  BY <1>3, <1>4, <1>5, <1>6, <1>7, <1>8, <1>9 DEF Next

LEMMA PasoDeAvisadaConcluida ==
  ASSUME IInv, Vida, MostradoAvanza, [Next]_vars
  PROVE  AvisadaConcluida'
<1> USE DEF IInv, TypeOK, Vida, AvisadaConcluida, MostradoAvanza, tablaVars, emisionVars,
        dgiiVars, cicloVars, anulacionVars, registroVars
<1>1. ASSUME avisos' = avisos
      PROVE  AvisadaConcluida'
  BY <1>1
<1>2. ASSUME NEW c \in Ciclos, Disparar(c)
      PROVE  AvisadaConcluida'
  <2>1. PICK g \in Facturas : g = consultada[c]
    BY <1>2 DEF Disparar, Consultas
  <2>2. estado[g] \in Concluida /\ avisos[g] = <<>>
    BY <1>2, <2>1 DEF Disparar, ListaVigente
  <2>3. CASE avisos' = [avisos EXCEPT ![g] = Append(@, Evento(veredicto[c]))]
    <3>1. avisos'[g] = Append(<<>>, Evento(veredicto[c]))
      BY <2>2, <2>3
    <3>2. Len(avisos'[g]) = 1
      BY <3>1
    <3> QED
      BY <2>2, <2>3, <3>2
  <2> QED
    BY <1>1, <1>2, <2>1, <2>3 DEF Disparar
<1>3. ASSUME NEW f \in Facturas, Emitir(f) \/ Resolver(f) \/ LlegarTarde(f) \/ AnularDePrueba(f)
      PROVE  avisos' = avisos
  BY <1>3 DEF Emitir, Rechazar, Guardar, Subir, Fallar, Renovar, NoSale, Contesta, SeCorta,
              Llega, GuardarResultado, Resolucion, Resolver, LlegarTarde, AnularDePrueba
<1>4. ASSUME NEW c \in Ciclos, Recorrer(c), ~Disparar(c)
      PROVE  avisos' = avisos
  BY <1>4 DEF Recorrer, Iniciar, SinCambio, Consultar, ActualizarEstadoTerminal,
              FallarActualizacion
<1>5. ASSUME NEW a \in Anulaciones, Anular(a)
      PROVE  avisos' = avisos
  BY <1>5 DEF Anular, LeerAprobada, EnviarAnulacion, ContestaAnulacion, ActualizarEstadoAnulado,
              RegistrarAuditoria, AbortarAnulacion
<1>6. CASE Caer \/ UNCHANGED vars
  BY <1>1, <1>6 DEF Caer, vars
<1> QED
  BY <1>1, <1>2, <1>3, <1>4, <1>5, <1>6 DEF Next

LEMMA VidaAlInicio ==
  ASSUME Init
  PROVE  Vida
BY DEF Init, Vida, EmisionEnCurso, AnulablesMostradas, ListaVigente, AvisadaConcluida, Vivas

LEMMA PasoDeVida ==
  ASSUME UnCiclo, IInv, Vida, [Next]_vars
  PROVE  Vida'
<1>1. IInv' /\ Avanza
  BY PasoDeInv, DgiiAvanza DEF IInv
<1>2. MostradoAvanza
  BY PasoPrometido, EstadoAvanza DEF IInv
<1> QED
  BY <1>1, <1>2, PasoDeEmisionEnCurso, PasoDeAnulablesMostradas, PasoDeListaVigente,
     PasoDeAvisadaConcluida DEF Vida, IInv

\* The invariant of one cycle at a time.
THEOREM InductivoUnCiclo ==
  ASSUME UnCiclo
  PROVE  Spec => []Vida
<1>1. Init => Vida
  BY VidaAlInicio
<1>2. IInv /\ Vida /\ [Next]_vars => Vida'
  BY PasoDeVida
<1> QED
  BY <1>1, <1>2, Inductivo, PTL DEF Spec

\* With one polling cycle at a time, a company is told of the outcome of an invoice at
\* most once, wherever the server stops between the update and the webhook.
THEOREM AvisosUnicos ==
  ASSUME UnCiclo
  PROVE  Spec => []AvisoUnico
<1>1. IInv /\ Vida => AvisoUnico
  <2> SUFFICES ASSUME IInv, Vida, NEW f \in Facturas
               PROVE  Len(avisos[f]) <= 1
    BY DEF AvisoUnico
  <2>1. CASE avisos[f] = <<>>
    BY <2>1
  <2>2. CASE avisos[f] # <<>>
    <3>1. Len(avisos[f]) = 1
      BY <2>2 DEF Vida, AvisadaConcluida
    <3> QED
      BY <3>1
  <2> QED
    BY <2>1, <2>2
<1> QED
  BY <1>1, Inductivo, InductivoUnCiclo, PTL

\* With one polling cycle at a time, every behaviour of the gateway and the DGII is one
\* of EstadoFactura: each state shown was decided first and none comes back.
THEOREM Refinamiento ==
  ASSUME UnCiclo
  PROVE  Spec => ImplementaEstado
<1>1. Init => Promesa!Init
  BY DEF Init, Promesa!Init
<1>2. IInv /\ Vida /\ [Next]_vars => [Promesa!Next]_(Promesa!estadoVars)
  BY PasoPrometido
<1> QED
  BY <1>1, <1>2, Inductivo, InductivoUnCiclo, PTL DEF Spec, ImplementaEstado, Promesa!Spec

\* With one polling cycle at a time an annulled invoice stays annulled: overlapping
\* cycles are the only way a polling update overwrites it.
THEOREM AnuladoFinal ==
  ASSUME UnCiclo
  PROVE  Spec => AnuladoEsFinal
<1>1. IInv /\ Vida /\ [Next]_vars =>
        [\A f \in Facturas : estado[f] = "ANULADO" => estado'[f] = "ANULADO"]_vars
  <2> SUFFICES ASSUME IInv, Vida, [Next]_vars
               PROVE  \A f \in Facturas : estado[f] = "ANULADO" => estado'[f] = "ANULADO"
    OBVIOUS
  <2>1. MostradoAvanza
    BY PasoPrometido, EstadoAvanza DEF IInv
  <2> QED
    BY <2>1 DEF MostradoAvanza
<1> QED
  BY <1>1, Inductivo, InductivoUnCiclo, PTL DEF Spec, AnuladoEsFinal

=============================================================================
