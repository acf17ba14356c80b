-------------------------------- MODULE Cuentas -------------------------------
(***************************************************************************)
(* The companies that accountants manage and pay for: linking, unlinking   *)
(* and change of plan (ContadorService), the monthly invoice of day 1 and  *)
(* the suspension of day 6 (ContadorCronService), beside the requests that *)
(* save the row of a company and do not know of its link.  No operation    *)
(* registers a payment, so an invoice goes from pendiente to vencida.      *)
(*                                                                         *)
(* TypeORM's save re-reads the row and writes the columns on which it      *)
(* differs from the row in memory.  A run of a job ends long before the    *)
(* next date; several instances of the server may run the same job.        *)
(***************************************************************************)
EXTENDS Naturals

CONSTANTS
  Contadores, Empresas, Planes,
  CambiosPlan,   \* calls of cambiarPlanEmpresa
  Desvinculos,   \* calls of desvincularEmpresa
  Asignaciones,  \* calls of PlanesService.cambiarPlan
  Ediciones,     \* calls of uploadCertificado, updateConfiguracion, promoverAProduccion
  Generaciones,  \* runs of generarFacturasMensuales
  Suspensiones,  \* runs of suspenderPorImpago
  Repartos,      \* bound: the sets of calls and runs that one behaviour may make
  MaxMes,        \* bound of the calendar
  Nulo           \* no row, no plan, no accountant, no invoice

Gestiones == CambiosPlan \union Desvinculos
Guardadas == Asignaciones \union Ediciones
Trabajos == Generaciones \union Suspensiones
Facturas == Generaciones \X Contadores
EmpresaEnMemoria == [empresa : Empresas, plan : Planes]

Vinculo == [contador : Contadores, plan : Planes, activo : BOOLEAN]
FacturaContador == [mes : 1 .. MaxMes, vencida : BOOLEAN, detalle : SUBSET Empresas]

ASSUME CuentasAssumption ==
  /\ MaxMes \in Nat \ {0}
  /\ CambiosPlan \intersect Desvinculos = {}
  /\ Asignaciones \intersect Ediciones = {}
  /\ Generaciones \intersect Suspensiones = {}
  /\ Repartos \subseteq SUBSET (Gestiones \union Guardadas \union Trabajos)
  /\ Nulo \notin Vinculo \union FacturaContador \union Contadores \union Empresas \union Planes
       \union Facturas \union (Contadores \X SUBSET Empresas) \union EmpresaEnMemoria

VARIABLES
  mes, dia,      \* the calendar: day "uno" or "seis" of month mes
  planEmpresa,   \* planEmpresa[e]: plan_id of the company, Nulo while it has no row
  altaDe,        \* altaDe[e]: the link that crearEmpresa is about to insert
  vinculo,       \* vinculo[e]: the row of contador_empresas; a company has at most one
  pasoGestion,   \* pasoGestion[c]: where the call is
  empresaDe,     \* empresaDe[c]: its company
  planNuevo,     \* planNuevo[c]: the plan it asks for
  copiaVinculo,  \* copiaVinculo[c]: the link in memory, changed
  porAnotar,     \* porAnotar[c]: the columns save has decided to write
  pasoGuardada,  \* pasoGuardada[w]: where a save of the row of a company is
  copiaEmpresa,  \* copiaEmpresa[w]: that company and the plan in memory
  facturaContador, \* facturaContador[<<g, k>>]: what run g inserted for accountant k
  pasoTrabajo,   \* pasoTrabajo[j]: where the run of a job is
  porFacturar,   \* porFacturar[g]: accountants left in the loop
  enFactura,     \* enFactura[g]: accountant and companies of the invoice in memory
  porVencer,     \* porVencer[s]: invoices left in the loop
  enVencimiento, \* enVencimiento[s]: the invoice whose links are to be turned off
  simultaneas,   \* history: months with runs of generation that overlapped
  suspendidas,   \* history: companies suspended with no call about them in progress
  previas,       \* history: previas[e]: the invoices there were then
  descuadradas   \* history: companies whose two plans may differ

tablasVars == <<planEmpresa, altaDe, vinculo>>
calendario == <<mes, dia>>
gestionVars == <<pasoGestion, empresaDe, planNuevo, copiaVinculo, porAnotar>>
guardadaVars == <<pasoGuardada, copiaEmpresa>>
pedidoVars == <<gestionVars, guardadaVars>>
trabajoVars == <<facturaContador, pasoTrabajo, porFacturar, enFactura, porVencer, enVencimiento>>
historiaCuentas == <<simultaneas, suspendidas, previas, descuadradas>>
cuentaVars == <<calendario, tablasVars, pedidoVars, trabajoVars,
                historiaCuentas>>

InitCuentas ==
  /\ mes = 1 /\ dia = "uno"
  /\ planEmpresa = [e \in Empresas |-> Nulo]
  /\ altaDe = [e \in Empresas |-> Nulo]
  /\ vinculo = [e \in Empresas |-> Nulo]
  /\ \E reparto \in Repartos :
       /\ pasoGestion = [c \in Gestiones |-> IF c \in reparto THEN "reposo" ELSE "fin"]
       /\ pasoGuardada = [w \in Guardadas |-> IF w \in reparto THEN "reposo" ELSE "fin"]
       /\ pasoTrabajo = [j \in Trabajos |-> IF j \in reparto THEN "reposo" ELSE "fin"]
  /\ empresaDe = [c \in Gestiones |-> Nulo]
  /\ planNuevo = [c \in Gestiones |-> Nulo]
  /\ copiaVinculo = [c \in Gestiones |-> Nulo]
  /\ porAnotar = [c \in Gestiones |-> {}]
  /\ copiaEmpresa = [w \in Guardadas |-> Nulo]
  /\ facturaContador = [f \in Facturas |-> Nulo]
  /\ porFacturar = [g \in Generaciones |-> {}]
  /\ enFactura = [g \in Generaciones |-> Nulo]
  /\ porVencer = [s \in Suspensiones |-> {}]
  /\ enVencimiento = [s \in Suspensiones |-> Nulo]
  /\ simultaneas = {}
  /\ suspendidas = {}
  /\ previas = [e \in Empresas |-> {}]
  /\ descuadradas = {}

EnGestion(e) == \E c \in Gestiones : /\ pasoGestion[c] \notin {"reposo", "fin"}
                                     /\ empresaDe[c] = e

Trabajando(j) == pasoTrabajo[j] \notin {"reposo", "fin"}

Vinculadas(k) == {e \in Empresas : vinculo[e] # Nulo /\ vinculo[e].contador = k}

\* Mutant: companies that are no longer active are billed too.
FacturablesTodas(k) == Vinculadas(k)

Facturables(k) == {e \in Vinculadas(k) : vinculo[e].activo}

-----------------------------------------------------------------------------
(* crearEmpresa, desvincularEmpresa, cambiarPlanEmpresa                    *)

\* The RNC is new: the company is inserted first, its link later.
InsertarEmpresa(e, k, p) ==
  /\ planEmpresa[e] = Nulo
  /\ planEmpresa' = [planEmpresa EXCEPT ![e] = p]
  /\ altaDe' = [altaDe EXCEPT ![e] = [contador |-> k, plan |-> p, activo |-> TRUE]]
  /\ UNCHANGED <<calendario, vinculo, pedidoVars, trabajoVars, historiaCuentas>>

InsertarVinculo(e) ==
  /\ altaDe[e] # Nulo
  /\ vinculo' = [vinculo EXCEPT ![e] = altaDe[e]]
  /\ altaDe' = [altaDe EXCEPT ![e] = Nulo]
  /\ UNCHANGED <<calendario, planEmpresa, pedidoVars, trabajoVars, historiaCuentas>>

\* Interrupted in between: the RNC is taken and the company has no accountant.
PerderAlta(e) ==
  /\ altaDe[e] # Nulo
  /\ altaDe' = [altaDe EXCEPT ![e] = Nulo]
  /\ UNCHANGED <<calendario, planEmpresa, vinculo, pedidoVars, trabajoVars, historiaCuentas>>

PasarGestion(c, p) == pasoGestion' = [pasoGestion EXCEPT ![c] = p]

\* Mutant: the link keeps its plan.
CambiadoSinPlan(c, fila, p) ==
  IF c \in CambiosPlan THEN fila ELSE [fila EXCEPT !.activo = FALSE]

Cambiado(c, fila, p) ==
  IF c \in CambiosPlan THEN [fila EXCEPT !.plan = p] ELSE [fila EXCEPT !.activo = FALSE]

\* The link has to be active when it is read.
LeerVinculo(c, e, p) ==
  /\ pasoGestion[c] = "reposo"
  /\ vinculo[e] # Nulo /\ vinculo[e].activo
  /\ empresaDe' = [empresaDe EXCEPT ![c] = e]
  /\ planNuevo' = [planNuevo EXCEPT ![c] = p]
  /\ copiaVinculo' = [copiaVinculo EXCEPT ![c] = Cambiado(c, vinculo[e], p)]
  /\ descuadradas' = IF EnGestion(e) THEN descuadradas \union {e} ELSE descuadradas
  /\ PasarGestion(c, "guardar")
  /\ UNCHANGED <<calendario, tablasVars, porAnotar, guardadaVars, trabajoVars, simultaneas,
                 suspendidas, previas>>

CompararVinculo(c) ==
  LET fila == vinculo[empresaDe[c]]
  IN /\ pasoGestion[c] = "guardar"
     /\ porAnotar' = [porAnotar EXCEPT
                        ![c] = {x \in DOMAIN fila : fila[x] # copiaVinculo[c][x]}]
     /\ PasarGestion(c, "comparado")
     /\ UNCHANGED <<calendario, tablasVars, empresaDe, planNuevo, copiaVinculo, guardadaVars,
                    trabajoVars, historiaCuentas>>

EscribirVinculo(c) ==
  /\ pasoGestion[c] = "comparado"
  /\ vinculo' = [vinculo EXCEPT
                   ![empresaDe[c]] = [x \in DOMAIN @ |-> IF x \in porAnotar[c]
                                                         THEN copiaVinculo[c][x] ELSE @[x]]]
  /\ PasarGestion(c, IF c \in CambiosPlan THEN "empresa" ELSE "fin")
  /\ UNCHANGED <<calendario, planEmpresa, altaDe, empresaDe, planNuevo, copiaVinculo,
                 porAnotar, guardadaVars, trabajoVars, historiaCuentas>>

\* The row of the company, with the plan it had, is in the memory of a call that saves
\* it for something else and will see the plan as a difference.
EnMemoria(e) == \E w \in Ediciones : pasoGuardada[w] = "leida" /\ copiaEmpresa[w].empresa = e

ActualizarEmpresa(c) ==
  /\ pasoGestion[c] = "empresa"
  /\ planEmpresa' = [planEmpresa EXCEPT ![empresaDe[c]] = planNuevo[c]]
  /\ descuadradas' = IF EnMemoria(empresaDe[c]) THEN descuadradas \union {empresaDe[c]}
                     ELSE descuadradas
  /\ PasarGestion(c, "fin")
  /\ UNCHANGED <<calendario, altaDe, vinculo, empresaDe, planNuevo, copiaVinculo, porAnotar,
                 guardadaVars, trabajoVars, simultaneas, suspendidas, previas>>

\* A call ends with an error of the database or a stop of the server.
InterrumpirGestion(c) ==
  /\ pasoGestion[c] \notin {"reposo", "fin"}
  /\ descuadradas' = IF pasoGestion[c] = "empresa" THEN descuadradas \union {empresaDe[c]}
                     ELSE descuadradas
  /\ PasarGestion(c, "fin")
  /\ UNCHANGED <<calendario, tablasVars, empresaDe, planNuevo, copiaVinculo, porAnotar,
                 guardadaVars, trabajoVars, simultaneas, suspendidas, previas>>

-----------------------------------------------------------------------------
(* The whole row of a company saved by a request that does not know of its *)
(* link: PlanesService.cambiarPlan, of a super administrator or of the     *)
(* company itself, changes the plan; an upload of the certificate, the     *)
(* configuration and the promotion change other columns.                   *)

PasarGuardada(w, p) == pasoGuardada' = [pasoGuardada EXCEPT ![w] = p]

LeerEmpresa(w, e, p) ==
  /\ pasoGuardada[w] = "reposo"
  /\ planEmpresa[e] # Nulo /\ (w \in Ediciones => p = planEmpresa[e])
  /\ copiaEmpresa' = [copiaEmpresa EXCEPT ![w] = [empresa |-> e, plan |-> p]]
  /\ descuadradas' = IF w \in Asignaciones THEN descuadradas \union {e} ELSE descuadradas
  /\ PasarGuardada(w, "leida")
  /\ UNCHANGED <<calendario, tablasVars, gestionVars, trabajoVars, simultaneas, suspendidas,
                 previas>>

CompararEmpresa(w) ==
  /\ pasoGuardada[w] = "leida"
  /\ PasarGuardada(w, IF copiaEmpresa[w].plan = planEmpresa[copiaEmpresa[w].empresa] THEN "fin"
                      ELSE "distinta")
  /\ UNCHANGED <<calendario, tablasVars, gestionVars, copiaEmpresa, trabajoVars,
                 historiaCuentas>>

EscribirEmpresa(w) ==
  /\ pasoGuardada[w] = "distinta"
  /\ planEmpresa' = [planEmpresa EXCEPT ![copiaEmpresa[w].empresa] = copiaEmpresa[w].plan]
  /\ PasarGuardada(w, "fin")
  /\ UNCHANGED <<calendario, altaDe, vinculo, gestionVars, copiaEmpresa, trabajoVars,
                 historiaCuentas>>

\* An error of the database, a certificate that is refused or a stop of the server.
InterrumpirGuardada(w) ==
  /\ pasoGuardada[w] \in {"leida", "distinta"}
  /\ PasarGuardada(w, "fin")
  /\ UNCHANGED <<calendario, tablasVars, gestionVars, copiaEmpresa, trabajoVars,
                 historiaCuentas>>

-----------------------------------------------------------------------------
(* generarFacturasMensuales: the accountants one by one                    *)

PasarTrabajo(j, p) == pasoTrabajo' = [pasoTrabajo EXCEPT ![j] = p]

EmpezarGeneracion(g) ==
  /\ pasoTrabajo[g] = "reposo" /\ dia = "uno"
  /\ porFacturar' = [porFacturar EXCEPT ![g] = Contadores]
  /\ simultaneas' = IF \E x \in Generaciones : Trabajando(x) THEN simultaneas \union {mes}
                    ELSE simultaneas
  /\ PasarTrabajo(g, "buscar")
  /\ UNCHANGED <<calendario, tablasVars, pedidoVars, facturaContador, enFactura, porVencer,
                 enVencimiento, suspendidas, previas, descuadradas>>

\* Mutant: the period is not looked up.
NuncaFacturado(k) == FALSE

YaFacturado(k) ==
  \E g \in Generaciones : /\ facturaContador[<<g, k>>] # Nulo
                          /\ facturaContador[<<g, k>>].mes = mes

BuscarFactura(g, k) ==
  /\ pasoTrabajo[g] = "buscar" /\ k \in porFacturar[g]
  /\ porFacturar' = [porFacturar EXCEPT ![g] = @ \ {k}]
  /\ IF YaFacturado(k) THEN UNCHANGED <<enFactura, pasoTrabajo>>
     ELSE /\ enFactura' = [enFactura EXCEPT ![g] = <<k, {}>>]
          /\ PasarTrabajo(g, "calcular")
  /\ UNCHANGED <<calendario, tablasVars, pedidoVars, facturaContador, porVencer,
                 enVencimiento, historiaCuentas>>

\* generarFacturaMensual reads the active links; without any there is no invoice.
Calcular(g) ==
  LET k == enFactura[g][1]
  IN /\ pasoTrabajo[g] = "calcular"
     /\ enFactura' = [enFactura EXCEPT ![g] = <<k, Facturables(k)>>]
     /\ PasarTrabajo(g, IF Facturables(k) = {} THEN "buscar" ELSE "insertar")
     /\ UNCHANGED <<calendario, tablasVars, pedidoVars, facturaContador, porFacturar,
                    porVencer, enVencimiento, historiaCuentas>>

\* The e-mail that follows changes nothing, whether it is sent or not.
InsertarFactura(g) ==
  /\ pasoTrabajo[g] = "insertar"
  /\ facturaContador' = [facturaContador EXCEPT
                           ![<<g, enFactura[g][1]>>] = [mes |-> mes, vencida |-> FALSE,
                                                        detalle |-> enFactura[g][2]]]
  /\ PasarTrabajo(g, "buscar")
  /\ UNCHANGED <<calendario, tablasVars, pedidoVars, porFacturar, enFactura, porVencer,
                 enVencimiento, historiaCuentas>>

-----------------------------------------------------------------------------
(* suspenderPorImpago: the pending invoices one by one, all of 5 days      *)

EmpezarSuspension(s) ==
  /\ pasoTrabajo[s] = "reposo" /\ dia = "seis"
  /\ porVencer' = [porVencer EXCEPT
                     ![s] = {f \in Facturas : /\ facturaContador[f] # Nulo
                                              /\ ~facturaContador[f].vencida}]
  /\ PasarTrabajo(s, "buscar")
  /\ UNCHANGED <<calendario, tablasVars, pedidoVars, facturaContador, porFacturar, enFactura,
                 enVencimiento, historiaCuentas>>

\* save of the invoice: its two halves can only differ in writing vencida or nothing.
VencerFactura(s, f) ==
  /\ pasoTrabajo[s] = "buscar" /\ f \in porVencer[s]
  /\ porVencer' = [porVencer EXCEPT ![s] = @ \ {f}]
  /\ enVencimiento' = [enVencimiento EXCEPT ![s] = f]
  /\ facturaContador' = [facturaContador EXCEPT ![f].vencida = TRUE]
  /\ PasarTrabajo(s, "suspender")
  /\ UNCHANGED <<calendario, tablasVars, pedidoVars, porFacturar, enFactura,
                 historiaCuentas>>

SuspenderVinculos(s) ==
  LET es == Facturables(enVencimiento[s][2])
      firmes == {e \in es : ~EnGestion(e)}
  IN /\ pasoTrabajo[s] = "suspender"
     /\ vinculo' = [e \in Empresas |-> IF e \in es THEN [vinculo[e] EXCEPT !.activo = FALSE]
                                       ELSE vinculo[e]]
     /\ suspendidas' = suspendidas \union firmes
     /\ previas' = [e \in Empresas |-> IF e \in firmes
                                       THEN {f \in Facturas : facturaContador[f] # Nulo}
                                       ELSE previas[e]]
     /\ PasarTrabajo(s, "buscar")
     /\ UNCHANGED <<calendario, planEmpresa, altaDe, pedidoVars, facturaContador,
                    porFacturar, enFactura, porVencer, enVencimiento, simultaneas,
                    descuadradas>>

\* The loop has no accountant or invoice left, an error of the database ends it with
\* what was left undone, or the server stops; nothing takes it up again.
TerminarTrabajo(j) ==
  /\ Trabajando(j)
  /\ PasarTrabajo(j, "fin")
  /\ UNCHANGED <<calendario, tablasVars, pedidoVars, facturaContador, porFacturar, enFactura,
                 porVencer, enVencimiento, historiaCuentas>>

AvanzarCalendario ==
  /\ \A j \in Trabajos : ~Trabajando(j)
  /\ \/ dia = "uno" /\ dia' = "seis" /\ UNCHANGED mes
     \/ dia = "seis" /\ mes < MaxMes /\ dia' = "uno" /\ mes' = mes + 1
  /\ UNCHANGED <<tablasVars, pedidoVars, trabajoVars, historiaCuentas>>

NextCuentas ==
  \/ \E e \in Empresas :
       \/ \E k \in Contadores, p \in Planes : InsertarEmpresa(e, k, p)
       \/ InsertarVinculo(e) \/ PerderAlta(e)
  \/ \E w \in Guardadas :
       \/ \E e \in Empresas, p \in Planes : LeerEmpresa(w, e, p)
       \/ CompararEmpresa(w) \/ EscribirEmpresa(w) \/ InterrumpirGuardada(w)
  \/ \E c \in Gestiones :
       \/ \E e \in Empresas, p \in Planes : LeerVinculo(c, e, p)
       \/ CompararVinculo(c) \/ EscribirVinculo(c) \/ ActualizarEmpresa(c)
       \/ InterrumpirGestion(c)
  \/ \E g \in Generaciones :
       \/ EmpezarGeneracion(g) \/ Calcular(g) \/ InsertarFactura(g)
       \/ \E k \in Contadores : BuscarFactura(g, k)
  \/ \E s \in Suspensiones :
       \/ EmpezarSuspension(s) \/ SuspenderVinculos(s)
       \/ \E f \in Facturas : VencerFactura(s, f)
  \/ \E j \in Trabajos : TerminarTrabajo(j)
  \/ AvanzarCalendario

SpecCuentas == InitCuentas /\ [][NextCuentas]_cuentaVars

-----------------------------------------------------------------------------
(* Properties                                                              *)

TypeOKCuentas ==
  /\ mes \in 1 .. MaxMes /\ dia \in {"uno", "seis"}
  /\ planEmpresa \in [Empresas -> Planes \union {Nulo}]
  /\ altaDe \in [Empresas -> Vinculo \union {Nulo}]
  /\ vinculo \in [Empresas -> Vinculo \union {Nulo}]
  /\ pasoGestion \in [Gestiones -> {"reposo", "guardar", "comparado", "empresa", "fin"}]
  /\ empresaDe \in [Gestiones -> Empresas \union {Nulo}]
  /\ planNuevo \in [Gestiones -> Planes \union {Nulo}]
  /\ copiaVinculo \in [Gestiones -> Vinculo \union {Nulo}]
  /\ porAnotar \in [Gestiones -> SUBSET {"contador", "plan", "activo"}]
  /\ pasoGuardada \in [Guardadas -> {"reposo", "leida", "distinta", "fin"}]
  /\ copiaEmpresa \in [Guardadas -> EmpresaEnMemoria \union {Nulo}]
  /\ facturaContador \in [Facturas -> FacturaContador \union {Nulo}]
  /\ pasoTrabajo \in [Trabajos ->
                        {"reposo", "buscar", "calcular", "insertar", "suspender", "fin"}]
  /\ porFacturar \in [Generaciones -> SUBSET Contadores]
  /\ enFactura \in [Generaciones -> (Contadores \X SUBSET Empresas) \union {Nulo}]
  /\ porVencer \in [Suspensiones -> SUBSET Facturas]
  /\ enVencimiento \in [Suspensiones -> Facturas \union {Nulo}]
  /\ simultaneas \subseteq 1 .. MaxMes
  /\ suspendidas \subseteq Empresas /\ descuadradas \subseteq Empresas
  /\ previas \in [Empresas -> SUBSET Facturas]

\* An accountant has one invoice a month, however often the job runs: (contador_id,
\* periodo) has no unique key, so only runs that overlapped can insert two.
FacturaUnica ==
  \A f, f2 \in Facturas :
    /\ f # f2 /\ f[2] = f2[2]
    /\ facturaContador[f] # Nulo /\ facturaContador[f2] # Nulo
    /\ facturaContador[f].mes = facturaContador[f2].mes
    => facturaContador[f].mes \in simultaneas

\* A company that was suspended while no call about it was in progress stays so and
\* is never billed again; a change of plan that overlapped may save it as active.
SuspensionFirme ==
  \A e \in suspendidas :
    /\ ~vinculo[e].activo
    /\ \A f \in Facturas :
         facturaContador[f] # Nulo /\ e \in facturaContador[f].detalle => f \in previas[e]

\* The plan an accountant pays for a company is the plan the company has, but for
\* changes that overlapped or ended half way, that did not go through him, or that were
\* written while another request had the row of the company in memory: its save puts
\* the plan before the change back.
PlanAcorde ==
  \A e \in Empresas \ descuadradas :
    vinculo[e] # Nulo /\ ~EnGestion(e) => vinculo[e].plan = planEmpresa[e]
=============================================================================
