------------------------------ MODULE PlanesUso ------------------------------
(***************************************************************************)
(* The monthly quota of one company (PlanesService): table uso_mensual,    *)
(* the plan of the company and the limits of the plans.                    *)
(*                                                                         *)
(* crearFactura checks the limit before it assigns a number and counts the *)
(* invoice after it was transmitted; each of the two finds or creates the  *)
(* row of the month of its own clock.  GET /me/uso and PATCH plan read the *)
(* row and save it: TypeORM's save re-reads it and writes every column on  *)
(* which the entity in memory differs from the re-read row.                *)
(***************************************************************************)
EXTENDS Integers, FiniteSets

CONSTANTS
  Solicitudes,   \* POST /facturas requests
  Lecturas,      \* GET /empresas/me/uso requests
  Cambios,       \* PATCH .../plan requests
  Planes,
  Limites,       \* values of limite_facturas_mensual; SinLimite is SQL NULL
  SinLimite,
  LimiteInicial, \* limite_facturas_mensual of each plan at the start
  MaxEdiciones,  \* bound: changes of plan that do not go through cambiarPlan
  MaxMes,        \* bound: months the clock goes through
  Conexiones,    \* bound: invoice requests in progress at a time
  Nulo

Escritores == Lecturas \union Cambios
Procesos == Solicitudes \union Escritores
Meses == 1 .. MaxMes

ASSUME LimitesAssumption ==
  /\ Limites \subseteq Nat \union {SinLimite}
  /\ SinLimite \notin Nat
  /\ LimiteInicial \in [Planes -> Limites]
  /\ MaxEdiciones \in Nat
  /\ MaxMes \in Nat \ {0}
  /\ Conexiones \in Nat

Fila == [gen : Nat, lim : Limites, plan : Planes]
Vigencia == [lim : Limites, plan : Planes]

ASSUME ProcesosAssumption ==
  /\ Solicitudes \intersect Escritores = {}
  /\ Lecturas \intersect Cambios = {}
  /\ Nulo \notin Fila
  /\ IsFiniteSet(Solicitudes)

VARIABLES
  mes,           \* the month of the server's clock
  limite,        \* limite[p]: limite_facturas_mensual of plan p
  plan,          \* plan_id of the company
  uso,           \* uso[m]: the row of month m, or Nulo
  paso,          \* paso[p]: where the request is
  mesDe,         \* mesDe[p]: the month it computed from its clock
  vigente,       \* vigente[e]: the plan getUsoActual or cambiarPlan read
  entidad,       \* entidad[p]: the row in memory
  sucias,        \* sucias[e]: columns save has decided to write
  contadas,      \* history: contadas[m]: invoices whose UPDATE counted in month m
  ediciones      \* history: changes of a plan, or of the plan of the company

catalogoVars == <<mes, limite, plan>>
procesoVars == <<paso, mesDe, vigente, entidad, sucias>>
vars == <<catalogoVars, uso, procesoVars, contadas, ediciones>>

PasosSolicitud == {"inicio", "crear_v", "admitida", "crear_i", "contar", "contada",
                   "rechazada", "perdida"}
PasosEscritor == {"inicio", "empresa_leida", "crear_l", "leida", "comparada", "hecha"}

-----------------------------------------------------------------------------
Init ==
  /\ mes = 1
  /\ limite = LimiteInicial
  /\ plan \in Planes
  /\ uso = [m \in Meses |-> Nulo]
  /\ paso = [p \in Procesos |-> "inicio"]
  /\ mesDe = [p \in Procesos |-> 1]
  /\ vigente = [e \in Escritores |-> Nulo]
  /\ entidad = [p \in Procesos |-> Nulo]
  /\ sucias = [e \in Escritores |-> {}]
  /\ contadas = [m \in Meses |-> {}]
  /\ ediciones = 0

PlanVigente == [lim |-> limite[plan], plan |-> plan]

\* Mutant: the invoice that creates the row of the month is counted at once.
FilaYaContada(v) == [gen |-> 1, lim |-> v.lim, plan |-> v.plan]

FilaInicial(v) == [gen |-> 0, lim |-> v.lim, plan |-> v.plan]

\* getOrCreateUsoMensual, first half: the row of the month is not there, the plan
\* of the company is read and the row to insert is built.
NoEncontrar(p, siguiente) ==
  /\ uso[mes] = Nulo
  /\ paso' = [paso EXCEPT ![p] = siguiente]
  /\ mesDe' = [mesDe EXCEPT ![p] = mes]
  /\ entidad' = [entidad EXCEPT ![p] = FilaInicial(PlanVigente)]
  /\ UNCHANGED <<catalogoVars, uso, vigente, sucias, contadas, ediciones>>

\* Its second half: the INSERT, or the row another request inserted meanwhile.
FilaHallada(p) == IF uso[mesDe[p]] = Nulo THEN entidad[p] ELSE uso[mesDe[p]]

InsertarFila(p) == uso' = [uso EXCEPT ![mesDe[p]] = FilaHallada(p)]

\* A request that ends forgets its local variables.
Terminar(p, fin) ==
  /\ paso' = [paso EXCEPT ![p] = fin]
  /\ mesDe' = [mesDe EXCEPT ![p] = 1]
  /\ entidad' = [entidad EXCEPT ![p] = Nulo]

-----------------------------------------------------------------------------
(* verificarLimite and incrementarUso, called by crearFactura              *)

\* Mutant: > instead of >= lets one more invoice through.
AgotadaConUnoDeMas(fila) == fila.lim # SinLimite /\ fila.gen > fila.lim

Agotada(fila) == fila.lim # SinLimite /\ fila.gen >= fila.lim

EnCurso == {"crear_v", "admitida", "crear_i", "contar"}

HayConexion == Cardinality({s \in Solicitudes : paso[s] \in EnCurso}) < Conexiones

Resolver(s, fila) == Terminar(s, IF Agotada(fila) THEN "rechazada" ELSE "admitida")

\* verificarLimite finds the row of the month, or has to create it.
VerificarConFila(s) ==
  /\ paso[s] = "inicio"
  /\ HayConexion
  /\ uso[mes] # Nulo
  /\ Resolver(s, uso[mes])
  /\ UNCHANGED <<catalogoVars, uso, vigente, sucias, contadas, ediciones>>

VerificarSinFila(s) ==
  /\ paso[s] = "inicio"
  /\ HayConexion
  /\ NoEncontrar(s, "crear_v")

VerificarTrasCrear(s) ==
  /\ paso[s] = "crear_v"
  /\ InsertarFila(s)
  /\ Resolver(s, FilaHallada(s))
  /\ UNCHANGED <<catalogoVars, vigente, sucias, contadas, ediciones>>

\* Any exception, or a restart, between the check and the count.
Perder(s) ==
  /\ paso[s] \in EnCurso
  /\ Terminar(s, "perdida")
  /\ UNCHANGED <<catalogoVars, uso, vigente, sucias, contadas, ediciones>>

\* The invoice was saved: incrementarUso takes the month of the clock again and
\* makes sure its row exists.
PrepararConFila(s) ==
  /\ paso[s] = "admitida"
  /\ uso[mes] # Nulo
  /\ mesDe' = [mesDe EXCEPT ![s] = mes]
  /\ paso' = [paso EXCEPT ![s] = "contar"]
  /\ UNCHANGED <<catalogoVars, uso, vigente, entidad, sucias, contadas, ediciones>>

PrepararSinFila(s) ==
  /\ paso[s] = "admitida"
  /\ NoEncontrar(s, "crear_i")

PrepararTrasCrear(s) ==
  /\ paso[s] = "crear_i"
  /\ InsertarFila(s)
  /\ paso' = [paso EXCEPT ![s] = "contar"]
  /\ entidad' = [entidad EXCEPT ![s] = Nulo]
  /\ UNCHANGED <<catalogoVars, mesDe, vigente, sucias, contadas, ediciones>>

\* UPDATE ... SET facturas_generadas = facturas_generadas + 1
Contar(s) ==
  LET m == mesDe[s]
      f == uso[m]
  IN /\ paso[s] = "contar"
     /\ uso' = [uso EXCEPT ![m] = [gen |-> f.gen + 1, lim |-> f.lim, plan |-> f.plan]]
     /\ contadas' = [contadas EXCEPT ![m] = @ \union {s}]
     /\ Terminar(s, "contada")
     /\ UNCHANGED <<catalogoVars, vigente, sucias, ediciones>>

-----------------------------------------------------------------------------
(* getUsoActual                                                            *)

LeerEmpresa(r) ==
  /\ paso[r] = "inicio"
  /\ vigente' = [vigente EXCEPT ![r] = PlanVigente]
  /\ paso' = [paso EXCEPT ![r] = "empresa_leida"]
  /\ UNCHANGED <<catalogoVars, uso, mesDe, entidad, sucias, contadas, ediciones>>

\* Mutant: the limit and the name of the plan are swapped.
ConVigenciaCruzada(fila, v) == [gen |-> fila.gen, lim |-> v.plan, plan |-> v.lim]

ConVigencia(fila, v) == [gen |-> fila.gen, lim |-> v.lim, plan |-> v.plan]

\* The row of month m goes on to be saved only if its limit or plan is out of date.
Contrastar(r, m, fila) ==
  LET alDia == ConVigencia(fila, vigente[r])
  IN /\ IF fila = alDia
        THEN Terminar(r, "hecha")
        ELSE /\ paso' = [paso EXCEPT ![r] = "leida"]
             /\ mesDe' = [mesDe EXCEPT ![r] = m]
             /\ entidad' = [entidad EXCEPT ![r] = alDia]
     /\ vigente' = [vigente EXCEPT ![r] = Nulo]

LeerUsoConFila(r) ==
  /\ paso[r] = "empresa_leida"
  /\ uso[mes] # Nulo
  /\ Contrastar(r, mes, uso[mes])
  /\ UNCHANGED <<catalogoVars, uso, sucias, contadas, ediciones>>

LeerUsoSinFila(r) ==
  /\ paso[r] = "empresa_leida"
  /\ NoEncontrar(r, "crear_l")

LeerUsoTrasCrear(r) ==
  /\ paso[r] = "crear_l"
  /\ InsertarFila(r)
  /\ Contrastar(r, mesDe[r], FilaHallada(r))
  /\ UNCHANGED <<catalogoVars, sucias, contadas, ediciones>>

-----------------------------------------------------------------------------
(* cambiarPlan                                                             *)

\* The plan is read and written in the company.
AsignarPlan(c, p) ==
  /\ paso[c] = "inicio"
  /\ plan' = p
  /\ vigente' = [vigente EXCEPT ![c] = [lim |-> limite[p], plan |-> p]]
  /\ paso' = [paso EXCEPT ![c] = "empresa_leida"]
  /\ ediciones' = ediciones + 1
  /\ UNCHANGED <<mes, limite, uso, mesDe, entidad, sucias, contadas>>

\* The row of the month, if there is one, is read to be synchronised.
LeerUsoParaPlan(c) ==
  /\ paso[c] = "empresa_leida"
  /\ IF uso[mes] = Nulo
     THEN Terminar(c, "hecha")
     ELSE /\ paso' = [paso EXCEPT ![c] = "leida"]
          /\ mesDe' = [mesDe EXCEPT ![c] = mes]
          /\ entidad' = [entidad EXCEPT ![c] = ConVigencia(uso[mes], vigente[c])]
  /\ vigente' = [vigente EXCEPT ![c] = Nulo]
  /\ UNCHANGED <<catalogoVars, uso, sucias, contadas, ediciones>>

-----------------------------------------------------------------------------
(* save of the entity of getUsoActual or of cambiarPlan                    *)

Columnas == {"gen", "lim", "plan"}

Comparar(e) ==
  /\ paso[e] = "leida"
  /\ sucias' = [sucias EXCEPT ![e] =
                  {c \in Columnas : entidad[e][c] # uso[mesDe[e]][c]}]
  /\ paso' = [paso EXCEPT ![e] = "comparada"]
  /\ UNCHANGED <<catalogoVars, uso, mesDe, vigente, entidad, contadas, ediciones>>

FilaGuardada(e) ==
  LET base == uso[mesDe[e]]
  IN [gen |-> IF "gen" \in sucias[e] THEN entidad[e].gen ELSE base.gen,
      lim |-> IF "lim" \in sucias[e] THEN entidad[e].lim ELSE base.lim,
      plan |-> IF "plan" \in sucias[e] THEN entidad[e].plan ELSE base.plan]

Escribir(e) ==
  /\ paso[e] = "comparada"
  /\ uso' = [uso EXCEPT ![mesDe[e]] = FilaGuardada(e)]
  /\ Terminar(e, "hecha")
  /\ sucias' = [sucias EXCEPT ![e] = {}]
  /\ UNCHANGED <<catalogoVars, vigente, contadas, ediciones>>

-----------------------------------------------------------------------------
(* Changes that do not touch uso_mensual                                   *)

\* editarPlan
EditarPlan(p, l) ==
  /\ ediciones < MaxEdiciones
  /\ limite[p] # l
  /\ limite' = [limite EXCEPT ![p] = l]
  /\ ediciones' = ediciones + 1
  /\ UNCHANGED <<mes, plan, uso, procesoVars, contadas>>

\* ContadorService.cambiarPlanEmpresa
CambiarPlanContador(p) ==
  /\ ediciones < MaxEdiciones
  /\ plan # p
  /\ plan' = p
  /\ ediciones' = ediciones + 1
  /\ UNCHANGED <<mes, limite, uso, procesoVars, contadas>>

NuevoMes ==
  /\ mes < MaxMes
  /\ mes' = mes + 1
  /\ UNCHANGED <<limite, plan, uso, procesoVars, contadas, ediciones>>

-----------------------------------------------------------------------------
Facturar(s) ==
  \/ VerificarConFila(s) \/ VerificarSinFila(s) \/ VerificarTrasCrear(s)
  \/ Perder(s)
  \/ PrepararConFila(s) \/ PrepararSinFila(s) \/ PrepararTrasCrear(s) \/ Contar(s)

Next ==
  \/ \E s \in Solicitudes : Facturar(s)
  \/ \E r \in Lecturas : \/ LeerEmpresa(r)
                        \/ LeerUsoConFila(r) \/ LeerUsoSinFila(r) \/ LeerUsoTrasCrear(r)
  \/ \E c \in Cambios : LeerUsoParaPlan(c) \/ \E p \in Planes : AsignarPlan(c, p)
  \/ \E e \in Escritores : Comparar(e) \/ Escribir(e)
  \/ \E p \in Planes : CambiarPlanContador(p) \/ \E l \in Limites : EditarPlan(p, l)
  \/ NuevoMes

Spec == Init /\ [][Next]_vars

-----------------------------------------------------------------------------
(* Properties                                                              *)

TypeOK ==
  /\ mes \in Nat
  /\ limite \in [Planes -> Limites]
  /\ plan \in Planes
  /\ uso \in [Meses -> Fila \union {Nulo}]
  /\ paso \in [Procesos -> PasosSolicitud \union PasosEscritor]
  /\ mesDe \in [Procesos -> Nat]
  /\ vigente \in [Escritores -> Vigencia \union {Nulo}]
  /\ entidad \in [Procesos -> Fila \union {Nulo}]
  /\ sucias \in [Escritores -> SUBSET Columnas]
  /\ contadas \in [Meses -> SUBSET Solicitudes]
  /\ ediciones \in Nat

\* A company is never charged twice for an invoice, nor for one that was not
\* issued: in every month the counter is at most the number of invoices that were
\* saved and counted in it, whatever saves, plan changes and months interleave.
NoSobrecuenta ==
  \A m \in Meses :
    uso[m] # Nulo => uso[m].gen <= Cardinality(contadas[m])

\* The check and the count are apart, so requests in progress at the same time can
\* exceed the limit, but only by as many as they are: with Conexiones requests at
\* a time and no change of plan, the excess stays below Conexiones.
ExcesoAcotado ==
  \A m \in Meses :
    (ediciones = 0 /\ uso[m] # Nulo /\ uso[m].lim # SinLimite /\ uso[m].lim > 0)
      => uso[m].gen <= uso[m].lim - 1 + Conexiones

\* facturas_generadas is incremented atomically (requirement 27.12 and the comment
\* in incrementarUso), so no invoice that was counted is ever missing from it.
ContadorExacto ==
  \A m \in Meses :
    uso[m] # Nulo => uso[m].gen = Cardinality(contadas[m])
=============================================================================
