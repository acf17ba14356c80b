---------------------------- MODULE PlanesUsoProofs ----------------------------
(***************************************************************************)
(* Proofs about PlanesUso for any number of requests, plans, limits and    *)
(* months: that a company is never charged for more invoices than were     *)
(* counted, and by how much overlapping requests can exceed a limit.       *)
(*                                                                         *)
(* The first holds because every copy of a row that a request has in       *)
(* memory was once the row, and what was counted is never uncounted        *)
(* (Copias).  The second, because a request is admitted below the limit    *)
(* only, and from then on the counter of the month plus the requests that  *)
(* may still count in it does not grow (Cuota); it needs that nothing      *)
(* saves a row while no plan has changed (SinEditar), for a save may put   *)
(* an old counter back.                                                    *)
(***************************************************************************)
EXTENDS PlanesUso, FiniteSetTheorems, TLAPS

ConMes == {"crear_v", "crear_i", "contar", "crear_l", "leida", "comparada"}
Creando == {"crear_v", "crear_i", "crear_l"}
Guardando == {"leida", "comparada"}

\* What a request has in memory at each of its steps.
Locales ==
  /\ \A s \in Solicitudes : paso[s] \in PasosSolicitud
  /\ \A e \in Escritores : paso[e] \in PasosEscritor
  /\ \A p \in Procesos :
       /\ paso[p] \in ConMes => mesDe[p] \in 1 .. mes
       /\ paso[p] \in Creando => entidad[p] \in Fila /\ entidad[p].gen = 0
       /\ paso[p] \in Guardando => entidad[p] \in Fila
       /\ paso[p] \in Guardando \union {"contar"} => uso[mesDe[p]] # Nulo
  /\ \A e \in Escritores : paso[e] \in {"empresa_leida", "crear_l"} => vigente[e] \in Vigencia

\* The clock does not go back, and a month has no row before it comes.
Calendario == mes \in Meses /\ \A m \in Meses : m > mes => uso[m] = Nulo

Tipos == TypeOK /\ Locales /\ Calendario

\* A request is counted once, when it ends.
Contadas == \A m \in Meses : \A s \in contadas[m] : paso[s] = "contada"

\* The row that is about to be saved does not have more than was counted.
Copias ==
  \A e \in Escritores :
    paso[e] \in Guardando => entidad[e].gen <= Cardinality(contadas[mesDe[e]])

IInv == Tipos /\ Contadas /\ Copias /\ NoSobrecuenta

-----------------------------------------------------------------------------
(* Types                                                                   *)

LEMMA MesesCrecientes == \A m \in Meses : 1 .. m \subseteq Meses
BY LimitesAssumption DEF Meses

LEMMA VigenteTipada ==
  ASSUME TypeOK
  PROVE  PlanVigente \in Vigencia /\ FilaInicial(PlanVigente) \in Fila
BY DEF TypeOK, PlanVigente, Vigencia, FilaInicial, Fila

LEMMA ConVigenciaTipada ==
  ASSUME NEW fila \in Fila, NEW v \in Vigencia
  PROVE  ConVigencia(fila, v) \in Fila /\ ConVigencia(fila, v).gen = fila.gen
BY DEF ConVigencia, Fila, Vigencia

\* What NoEncontrar leaves behind.
LEMMA TiposDeNoEncontrar ==
  ASSUME Tipos, NEW p \in Procesos, NEW siguiente \in Creando, NoEncontrar(p, siguiente),
         p \in Solicitudes => siguiente \in PasosSolicitud,
         p \in Escritores => siguiente \in PasosEscritor /\ vigente[p] \in Vigencia
  PROVE  Tipos'
<1> USE DEF Tipos, TypeOK, Locales, Calendario, NoEncontrar, catalogoVars, Procesos
<1>1. FilaInicial(PlanVigente) \in Fila /\ FilaInicial(PlanVigente).gen = 0
  BY VigenteTipada DEF FilaInicial
<1>2. TypeOK'
  BY <1>1 DEF Meses
<1>3. mesDe'[p] \in 1 .. mes'
  BY DEF Meses
<1>4. Locales'
  BY <1>1, <1>3 DEF Creando, Guardando, ConMes
<1> QED
  BY <1>2, <1>4

\* A request that ends leaves nothing in memory.
LEMMA TiposDeTerminar ==
  ASSUME Tipos, NEW p \in Procesos, NEW fin, Terminar(p, fin),
         fin \notin ConMes \union {"empresa_leida"},
         p \in Solicitudes => fin \in PasosSolicitud,
         p \in Escritores => fin \in PasosEscritor,
         mes' = mes, limite' \in [Planes -> Limites], plan' \in Planes,
         uso' \in [Meses -> Fila \union {Nulo}],
         \A m \in Meses : uso[m] # Nulo => uso'[m] # Nulo,
         \A m \in Meses : m > mes => uso'[m] = Nulo,
         contadas' \in [Meses -> SUBSET Solicitudes],
         vigente' \in [Escritores -> Vigencia \union {Nulo}],
         \A e \in Escritores \ {p} : vigente'[e] = vigente[e],
         sucias' \in [Escritores -> SUBSET Columnas], ediciones' \in Nat
  PROVE  Tipos'
<1> USE MesesCrecientes DEF Tipos, TypeOK, Locales, Calendario, Terminar, Procesos
<1>1. TypeOK'
  OBVIOUS
<1>2. Locales'
  BY DEF Creando, Guardando, ConMes
<1> QED
  BY <1>1, <1>2

\* The row that InsertarFila leaves in its month.
LEMMA FilaHalladaTipada ==
  ASSUME Tipos, NEW p \in Procesos, paso[p] \in Creando
  PROVE  /\ mesDe[p] \in Meses /\ mesDe[p] \in 1 .. mes
         /\ FilaHallada(p) \in Fila
         /\ uso[mesDe[p]] = Nulo => FilaHallada(p).gen = 0
         /\ uso[mesDe[p]] # Nulo => FilaHallada(p) = uso[mesDe[p]]
<1>1. mesDe[p] \in 1 .. mes
  BY DEF Tipos, Locales, ConMes, Creando
<1>2. mesDe[p] \in Meses
  BY <1>1, MesesCrecientes DEF Tipos, Calendario
<1> QED
  BY <1>1, <1>2 DEF Tipos, TypeOK, Locales, FilaHallada

LEMMA InsertarTipado ==
  ASSUME Tipos, NEW p \in Procesos, paso[p] \in Creando, InsertarFila(p)
  PROVE  /\ uso' \in [Meses -> Fila \union {Nulo}]
         /\ \A m \in Meses : uso[m] # Nulo => uso'[m] = uso[m]
         /\ \A m \in Meses : m > mes => uso'[m] = Nulo
         /\ uso'[mesDe[p]] # Nulo
         /\ \A m \in Meses : uso'[m] # uso[m] => uso'[m].gen = 0
<1>1. uso \in [Meses -> Fila \union {Nulo}] /\ mes \in Nat
  BY DEF Tipos, TypeOK
<1>2. \A m \in Meses : m > mes => uso[m] = Nulo
  BY DEF Tipos, Calendario
<1>3. mesDe[p] <= mes
  BY <1>1, FilaHalladaTipada
<1> QED
  BY <1>1, <1>2, <1>3, FilaHalladaTipada, ProcesosAssumption DEF InsertarFila, Meses

LEMMA TiposDeFacturar ==
  ASSUME Tipos, NEW s \in Solicitudes, Facturar(s)
  PROVE  Tipos'
<1> USE DEF catalogoVars
<1>1. s \in Procesos /\ s \notin Escritores
  BY ProcesosAssumption DEF Procesos
<1>2. CASE VerificarConFila(s) \/ Perder(s)
  <2>1. PICK fin \in {"admitida", "rechazada", "perdida"} : Terminar(s, fin)
    BY <1>2 DEF VerificarConFila, Perder, Resolver
  <2>2. UNCHANGED <<mes, limite, plan, uso, vigente, sucias, contadas, ediciones>>
    BY <1>2 DEF VerificarConFila, Perder
  <2> QED
    BY <1>1, <2>1, <2>2, TiposDeTerminar
       DEF Tipos, TypeOK, Calendario, ConMes, PasosSolicitud
<1>3. CASE VerificarSinFila(s)
  BY <1>1, <1>3, TiposDeNoEncontrar DEF VerificarSinFila, Creando, PasosSolicitud
<1>4. CASE VerificarTrasCrear(s)
  <2>1. PICK fin \in {"admitida", "rechazada"} : Terminar(s, fin)
    BY <1>4 DEF VerificarTrasCrear, Resolver
  <2>2. UNCHANGED <<mes, limite, plan, vigente, sucias, contadas, ediciones>>
    BY <1>4 DEF VerificarTrasCrear
  <2>3. paso[s] \in Creando /\ InsertarFila(s)
    BY <1>4 DEF VerificarTrasCrear, Creando
  <2>4. /\ uso' \in [Meses -> Fila \union {Nulo}]
        /\ \A m \in Meses : uso[m] # Nulo => uso'[m] # Nulo
        /\ \A m \in Meses : m > mes => uso'[m] = Nulo
    BY <1>1, <2>3, InsertarTipado
  <2> QED
    BY <1>1, <2>1, <2>2, <2>4, TiposDeTerminar DEF Tipos, TypeOK, ConMes, PasosSolicitud
<1>5. CASE PrepararConFila(s)
  <2>1. mes \in 1 .. mes /\ uso[mes] # Nulo
    BY <1>5 DEF PrepararConFila, Tipos, Calendario, Meses
  <2>2. TypeOK'
    BY <1>1, <1>5 DEF PrepararConFila, Tipos, TypeOK, PasosSolicitud
  <2>3. Locales'
    BY <1>1, <1>5, <2>1 DEF PrepararConFila, Tipos, TypeOK, Locales, PasosSolicitud, Procesos,
                            Creando, Guardando, ConMes
  <2> QED
    BY <1>5, <2>2, <2>3 DEF PrepararConFila, Tipos, Calendario
<1>6. CASE PrepararSinFila(s)
  BY <1>1, <1>6, TiposDeNoEncontrar DEF PrepararSinFila, Creando, PasosSolicitud
<1>7. CASE PrepararTrasCrear(s)
  <2>1. paso[s] \in Creando /\ InsertarFila(s)
    BY <1>7 DEF PrepararTrasCrear, Creando
  <2>2. /\ uso' \in [Meses -> Fila \union {Nulo}]
        /\ \A m \in Meses : uso[m] # Nulo => uso'[m] # Nulo
        /\ \A m \in Meses : m > mes => uso'[m] = Nulo
        /\ uso'[mesDe[s]] # Nulo
        /\ mesDe[s] \in 1 .. mes
    BY <1>1, <2>1, InsertarTipado, FilaHalladaTipada
  <2>3. TypeOK'
    BY <1>1, <1>7, <2>2 DEF PrepararTrasCrear, Tipos, TypeOK, PasosSolicitud
  <2>4. Locales'
    BY <1>1, <1>7, <2>2, MesesCrecientes
       DEF PrepararTrasCrear, Tipos, TypeOK, Locales, Calendario, PasosSolicitud, Procesos,
           Creando, Guardando, ConMes
  <2> QED
    BY <1>7, <2>2, <2>3, <2>4 DEF PrepararTrasCrear, Tipos, Calendario
<1>8. CASE Contar(s)
  <2>1. Terminar(s, "contada") /\ UNCHANGED <<mes, limite, plan, vigente, sucias, ediciones>>
    BY <1>8 DEF Contar
  <2>2. mesDe[s] \in 1 .. mes /\ mesDe[s] \in Meses /\ uso[mesDe[s]] \in Fila
    BY <1>1, <1>8, MesesCrecientes
       DEF Contar, Tipos, TypeOK, Locales, Calendario, ConMes, Guardando
  <2>3. /\ uso' \in [Meses -> Fila \union {Nulo}]
        /\ \A m \in Meses : uso[m] # Nulo => uso'[m] # Nulo
        /\ \A m \in Meses : m > mes => uso'[m] = Nulo
    BY <1>8, <2>2, ProcesosAssumption DEF Contar, Tipos, TypeOK, Calendario, Fila, Meses
  <2>4. contadas' \in [Meses -> SUBSET Solicitudes]
    BY <1>8, <2>2 DEF Contar, Tipos, TypeOK
  <2> QED
    BY <1>1, <2>1, <2>3, <2>4, TiposDeTerminar DEF Tipos, TypeOK, ConMes, PasosSolicitud
<1> QED
  BY <1>2, <1>3, <1>4, <1>5, <1>6, <1>7, <1>8 DEF Facturar

\* Either the row is up to date and the request ends, or it goes on to be saved.
LEMMA TiposDeContrastar ==
  ASSUME Tipos, NEW r \in Lecturas, NEW m \in 1 .. mes, NEW fila \in Fila,
         Contrastar(r, m, fila), vigente[r] \in Vigencia,
         UNCHANGED <<mes, limite, plan, sucias, contadas, ediciones>>,
         uso' \in [Meses -> Fila \union {Nulo}], uso'[m] # Nulo,
         \A n \in Meses : uso[n] # Nulo => uso'[n] # Nulo,
         \A n \in Meses : n > mes => uso'[n] = Nulo
  PROVE  Tipos'
<1>1. r \in Procesos /\ r \in Escritores /\ r \notin Solicitudes
  BY ProcesosAssumption DEF Procesos, Escritores
<1>2. ConVigencia(fila, vigente[r]) \in Fila
  BY ConVigenciaTipada
<1>3. vigente' = [vigente EXCEPT ![r] = Nulo]
  BY DEF Contrastar
<1>4. CASE fila = ConVigencia(fila, vigente[r])
  <2>1. Terminar(r, "hecha")
    BY <1>4 DEF Contrastar
  <2> QED
    BY <1>1, <1>3, <2>1, TiposDeTerminar DEF Tipos, TypeOK, ConMes, PasosEscritor
<1>5. CASE fila # ConVigencia(fila, vigente[r])
  <2>1. /\ paso' = [paso EXCEPT ![r] = "leida"]
        /\ mesDe' = [mesDe EXCEPT ![r] = m]
        /\ entidad' = [entidad EXCEPT ![r] = ConVigencia(fila, vigente[r])]
    BY <1>5 DEF Contrastar
  <2>2. TypeOK'
    BY <1>1, <1>2, <1>3, <2>1 DEF Tipos, TypeOK, Calendario, Meses, PasosEscritor
  <2>3. Locales'
    BY <1>1, <1>2, <1>3, <2>1, MesesCrecientes
       DEF Tipos, TypeOK, Locales, Calendario, Procesos, PasosEscritor, Creando, Guardando, ConMes
  <2> QED
    BY <2>2, <2>3 DEF Tipos, Calendario
<1> QED
  BY <1>4, <1>5

LEMMA TiposDeLecturas ==
  ASSUME Tipos, NEW r \in Lecturas,
         LeerEmpresa(r) \/ LeerUsoConFila(r) \/ LeerUsoSinFila(r) \/ LeerUsoTrasCrear(r)
  PROVE  Tipos'
<1> USE DEF catalogoVars
<1>1. r \in Procesos /\ r \in Escritores /\ r \notin Solicitudes
  BY ProcesosAssumption DEF Procesos, Escritores
<1>2. CASE LeerEmpresa(r)
  <2>1. TypeOK'
    BY <1>1, <1>2, VigenteTipada DEF LeerEmpresa, Tipos, TypeOK, PasosEscritor
  <2>2. Locales'
    BY <1>1, <1>2, VigenteTipada
       DEF LeerEmpresa, Tipos, TypeOK, Locales, PasosEscritor, Procesos, Creando, Guardando, ConMes
  <2> QED
    BY <1>2, <2>1, <2>2 DEF LeerEmpresa, Tipos, Calendario
<1>3. CASE LeerUsoConFila(r)
  <2>1. mes \in 1 .. mes /\ uso[mes] \in Fila
    BY <1>3 DEF LeerUsoConFila, Tipos, TypeOK, Calendario, Meses
  <2>2. vigente[r] \in Vigencia /\ Contrastar(r, mes, uso[mes])
    BY <1>1, <1>3 DEF LeerUsoConFila, Tipos, Locales
  <2> QED
    BY <1>3, <2>1, <2>2, TiposDeContrastar DEF LeerUsoConFila, Tipos, TypeOK, Calendario
<1>4. CASE LeerUsoSinFila(r)
  BY <1>1, <1>4, TiposDeNoEncontrar DEF LeerUsoSinFila, Creando, PasosEscritor, Tipos, Locales
<1>5. CASE LeerUsoTrasCrear(r)
  <2>1. paso[r] \in Creando /\ InsertarFila(r) /\ vigente[r] \in Vigencia
    BY <1>1, <1>5 DEF LeerUsoTrasCrear, Creando, Tipos, Locales
  <2>2. /\ uso' \in [Meses -> Fila \union {Nulo}]
        /\ \A m \in Meses : uso[m] # Nulo => uso'[m] # Nulo
        /\ \A m \in Meses : m > mes => uso'[m] = Nulo
        /\ uso'[mesDe[r]] # Nulo
        /\ mesDe[r] \in 1 .. mes
        /\ FilaHallada(r) \in Fila
    BY <1>1, <2>1, InsertarTipado, FilaHalladaTipada
  <2> QED
    BY <1>5, <2>1, <2>2, TiposDeContrastar DEF LeerUsoTrasCrear
<1> QED
  BY <1>2, <1>3, <1>4, <1>5

LEMMA TiposDeCambios ==
  ASSUME Tipos, NEW c \in Cambios, LeerUsoParaPlan(c) \/ \E p \in Planes : AsignarPlan(c, p)
  PROVE  Tipos'
<1> USE DEF catalogoVars
<1>1. c \in Procesos /\ c \in Escritores /\ c \notin Solicitudes
  BY ProcesosAssumption DEF Procesos, Escritores
<1>2. ASSUME NEW p \in Planes, AsignarPlan(c, p)
      PROVE  Tipos'
  <2>1. [lim |-> limite[p], plan |-> p] \in Vigencia
    BY DEF Tipos, TypeOK, Vigencia
  <2>2. TypeOK'
    BY <1>1, <1>2, <2>1 DEF AsignarPlan, Tipos, TypeOK, PasosEscritor
  <2>3. Locales'
    BY <1>1, <1>2, <2>1
       DEF AsignarPlan, Tipos, TypeOK, Locales, PasosEscritor, Procesos, Creando, Guardando, ConMes
  <2> QED
    BY <1>2, <2>2, <2>3 DEF AsignarPlan, Tipos, Calendario
<1>3. CASE LeerUsoParaPlan(c)
  <2>1. vigente[c] \in Vigencia
    BY <1>1, <1>3 DEF LeerUsoParaPlan, Tipos, Locales
  <2>2. CASE uso[mes] = Nulo
    <3>1. Terminar(c, "hecha")
      BY <1>3, <2>2 DEF LeerUsoParaPlan
    <3> QED
      BY <1>1, <1>3, <3>1, TiposDeTerminar
         DEF LeerUsoParaPlan, Tipos, TypeOK, Calendario, ConMes, PasosEscritor
  <2>3. CASE uso[mes] # Nulo
    <3>0. mes \in 1 .. mes /\ uso[mes] \in Fila
      BY <2>3 DEF Tipos, TypeOK, Calendario, Meses
    <3>1. ConVigencia(uso[mes], vigente[c]) \in Fila
      BY <2>1, <3>0, ConVigenciaTipada
    <3>2. TypeOK'
      BY <1>1, <1>3, <2>3, <3>1 DEF LeerUsoParaPlan, Tipos, TypeOK, PasosEscritor
    <3>3. Locales'
      BY <1>1, <1>3, <2>3, <3>0, <3>1
         DEF LeerUsoParaPlan, Tipos, TypeOK, Locales, PasosEscritor, Procesos, Creando, Guardando,
             ConMes
    <3> QED
      BY <1>3, <3>2, <3>3 DEF LeerUsoParaPlan, Tipos, Calendario
  <2> QED
    BY <2>2, <2>3
<1> QED
  BY <1>2, <1>3

\* A save mixes the row in memory and the row of the table.
LEMMA FilaGuardadaTipada ==
  ASSUME Tipos, NEW e \in Escritores, paso[e] = "comparada"
  PROVE  /\ mesDe[e] \in Meses /\ mesDe[e] \in 1 .. mes
         /\ entidad[e] \in Fila /\ uso[mesDe[e]] \in Fila
         /\ FilaGuardada(e) \in Fila
         /\ FilaGuardada(e).gen \in {entidad[e].gen, uso[mesDe[e]].gen}
<1>1. mesDe[e] \in 1 .. mes /\ entidad[e] \in Fila /\ uso[mesDe[e]] # Nulo
  BY DEF Tipos, Locales, ConMes, Guardando, Procesos
<1>2. mesDe[e] \in Meses
  BY <1>1, MesesCrecientes DEF Tipos, Calendario
<1>3. uso[mesDe[e]] \in Fila
  BY <1>1, <1>2 DEF Tipos, TypeOK
<1> QED
  BY <1>1, <1>2, <1>3 DEF FilaGuardada, Fila

LEMMA TiposDeGuardar ==
  ASSUME Tipos, NEW e \in Escritores, Comparar(e) \/ Escribir(e)
  PROVE  Tipos'
<1> USE DEF catalogoVars
<1>1. e \in Procesos /\ e \notin Solicitudes
  BY ProcesosAssumption DEF Procesos
<1>2. CASE Comparar(e)
  <2>1. TypeOK'
    BY <1>1, <1>2 DEF Comparar, Tipos, TypeOK, PasosEscritor
  <2>2. Locales'
    BY <1>1, <1>2
       DEF Comparar, Tipos, TypeOK, Locales, PasosEscritor, Procesos, Creando, Guardando, ConMes
  <2> QED
    BY <1>2, <2>1, <2>2 DEF Comparar, Tipos, Calendario
<1>3. CASE Escribir(e)
  <2>1. /\ Terminar(e, "hecha")
        /\ UNCHANGED <<mes, limite, plan, vigente, contadas, ediciones>>
        /\ sucias' \in [Escritores -> SUBSET Columnas]
    BY <1>3 DEF Escribir, Tipos, TypeOK
  <2>2. /\ uso' \in [Meses -> Fila \union {Nulo}]
        /\ \A m \in Meses : uso[m] # Nulo => uso'[m] # Nulo
        /\ \A m \in Meses : m > mes => uso'[m] = Nulo
    BY <1>3, FilaGuardadaTipada, ProcesosAssumption
       DEF Escribir, Tipos, TypeOK, Calendario, Meses
  <2> QED
    BY <1>1, <2>1, <2>2, TiposDeTerminar DEF Tipos, TypeOK, ConMes, PasosEscritor
<1> QED
  BY <1>2, <1>3

LEMMA TiposInductivos ==
  ASSUME Tipos, [Next]_vars
  PROVE  Tipos'
<1> USE DEF catalogoVars, procesoVars
<1>1. ASSUME NEW p \in Planes,
             CambiarPlanContador(p) \/ \E l \in Limites : EditarPlan(p, l)
      PROVE  Tipos'
  BY <1>1 DEF CambiarPlanContador, EditarPlan, Tipos, TypeOK, Locales, Calendario
<1>2. CASE NuevoMes
  <2>1. mes' = mes + 1 /\ mes' \in Meses /\ mes \in Nat
    BY <1>2, LimitesAssumption DEF NuevoMes, Tipos, TypeOK, Calendario, Meses
  <2>2. \A p \in Procesos : mesDe[p] \in 1 .. mes => mesDe[p] \in 1 .. mes'
    BY <2>1
  <2>3. \A m \in Meses : m > mes' => m > mes
    BY <2>1 DEF Meses
  <2> QED
    BY <1>2, <2>1, <2>2, <2>3 DEF NuevoMes, Tipos, TypeOK, Locales, Calendario
<1>3. CASE UNCHANGED vars
  BY <1>3 DEF vars, Tipos, TypeOK, Locales, Calendario
<1> QED
  BY <1>1, <1>2, <1>3, TiposDeFacturar, TiposDeLecturas, TiposDeCambios, TiposDeGuardar DEF Next
-----------------------------------------------------------------------------
(* The counter is at most what was counted                                 *)

LEMMA ContadasFinitas ==
  ASSUME TypeOK, NEW m \in Meses
  PROVE  IsFiniteSet(contadas[m]) /\ Cardinality(contadas[m]) \in Nat
BY ProcesosAssumption, FS_Subset, FS_CardinalityType DEF TypeOK

\* Whoever counts had not been counted.
LEMMA ContadaUnaVez ==
  ASSUME Tipos, Contadas, NEW s \in Solicitudes, Contar(s)
  PROVE  /\ mesDe[s] \in Meses /\ uso[mesDe[s]] \in Fila
         /\ uso' = [uso EXCEPT ![mesDe[s]] = [gen |-> uso[mesDe[s]].gen + 1,
                                              lim |-> uso[mesDe[s]].lim,
                                              plan |-> uso[mesDe[s]].plan]]
         /\ contadas' = [contadas EXCEPT ![mesDe[s]] = @ \union {s}]
         /\ Cardinality(contadas'[mesDe[s]]) = Cardinality(contadas[mesDe[s]]) + 1
<1>1. mesDe[s] \in Meses /\ uso[mesDe[s]] \in Fila
  BY MesesCrecientes
     DEF Contar, Tipos, TypeOK, Locales, Calendario, ConMes, Guardando, Procesos
<1>2. contadas' = [contadas EXCEPT ![mesDe[s]] = @ \union {s}] /\ s \notin contadas[mesDe[s]]
  BY <1>1 DEF Contar, Contadas
<1>3. contadas'[mesDe[s]] = contadas[mesDe[s]] \union {s}
  BY <1>1, <1>2 DEF Tipos, TypeOK
<1>4. IsFiniteSet(contadas[mesDe[s]])
  BY <1>1, ContadasFinitas DEF Tipos
<1>5. Cardinality(contadas[mesDe[s]] \union {s}) = Cardinality(contadas[mesDe[s]]) + 1
  BY <1>2, <1>4, FS_AddElement
<1> QED
  BY <1>1, <1>2, <1>3, <1>5 DEF Contar

\* What was counted stays counted.
LEMMA CuentaCreciente ==
  ASSUME Tipos, Contadas, [Next]_vars, Tipos', NEW m \in Meses
  PROVE  /\ contadas[m] \subseteq contadas'[m]
         /\ Cardinality(contadas[m]) <= Cardinality(contadas'[m])
<1> USE DEF catalogoVars, procesoVars
<1>1. ASSUME NEW s \in Solicitudes, Contar(s)
      PROVE  contadas[m] \subseteq contadas'[m]
  <2>1. contadas' = [contadas EXCEPT ![mesDe[s]] = @ \union {s}]
    BY <1>1 DEF Contar
  <2> QED
    BY <2>1 DEF Tipos, TypeOK
<1>3. contadas[m] \subseteq contadas'[m]
  BY <1>1 DEF Next, vars, Facturar, VerificarConFila, VerificarSinFila, VerificarTrasCrear, Perder,
       PrepararConFila, PrepararSinFila, PrepararTrasCrear, NoEncontrar, LeerEmpresa, LeerUsoConFila,
       LeerUsoSinFila, LeerUsoTrasCrear, LeerUsoParaPlan, AsignarPlan, Comparar, Escribir,
       CambiarPlanContador, EditarPlan, NuevoMes
<1>4. IsFiniteSet(contadas'[m])
  BY ProcesosAssumption, FS_Subset DEF Tipos, TypeOK
<1> QED
  BY <1>3, <1>4, FS_Subset

\* Where the counter that a row has after a step comes from.
DeLaFila(m) == uso[m] # Nulo /\ uso'[m].gen = uso[m].gen
DeContar(m) ==
  /\ \E s \in Solicitudes : Contar(s) /\ mesDe[s] = m
  /\ uso[m] # Nulo /\ uso'[m].gen = uso[m].gen + 1
  /\ Cardinality(contadas'[m]) = Cardinality(contadas[m]) + 1
DeUnaCopia(m) ==
  \E e \in Escritores : paso[e] \in Guardando /\ mesDe[e] = m /\ uso'[m].gen = entidad[e].gen

LEMMA OrigenDelContador ==
  ASSUME Tipos, Contadas, [Next]_vars, NEW m \in Meses, uso'[m] # Nulo
  PROVE  uso'[m].gen = 0 \/ DeLaFila(m) \/ DeContar(m) \/ DeUnaCopia(m)
<1> USE DEF catalogoVars, procesoVars, DeLaFila, DeContar, DeUnaCopia
<1>1. CASE uso'[m] = uso[m]
  BY <1>1
<1>2. CASE \E s \in Solicitudes : Contar(s)
  <2>1. PICK s \in Solicitudes : Contar(s)
    BY <1>2
  <2>2. /\ mesDe[s] \in Meses /\ uso[mesDe[s]] \in Fila
        /\ uso' = [uso EXCEPT ![mesDe[s]] = [gen |-> uso[mesDe[s]].gen + 1,
                                             lim |-> uso[mesDe[s]].lim,
                                             plan |-> uso[mesDe[s]].plan]]
        /\ Cardinality(contadas'[mesDe[s]]) = Cardinality(contadas[mesDe[s]]) + 1
    BY <2>1, ContadaUnaVez
  <2>3. CASE mesDe[s] = m
    BY <2>1, <2>2, <2>3, ProcesosAssumption DEF Tipos, TypeOK
  <2>4. CASE mesDe[s] # m
    BY <1>1, <2>2, <2>4 DEF Tipos, TypeOK
  <2> QED
    BY <2>3, <2>4
<1>3. CASE \E p \in Procesos : paso[p] \in Creando /\ InsertarFila(p)
  BY <1>3, InsertarTipado
<1>4. CASE \E e \in Escritores : Escribir(e)
  <2>1. PICK e \in Escritores : Escribir(e)
    BY <1>4
  <2>2. paso[e] = "comparada" /\ uso' = [uso EXCEPT ![mesDe[e]] = FilaGuardada(e)]
    BY <2>1 DEF Escribir
  <2>3. /\ mesDe[e] \in Meses /\ uso[mesDe[e]] \in Fila
        /\ FilaGuardada(e).gen \in {entidad[e].gen, uso[mesDe[e]].gen}
    BY <2>2, FilaGuardadaTipada
  <2> QED
    BY <1>1, <2>2, <2>3, ProcesosAssumption DEF Tipos, TypeOK, Guardando
<1>5. CASE UNCHANGED uso
  BY <1>5, <1>1
<1> QED
  BY <1>2, <1>3, <1>4, <1>5
     DEF Next, vars, Facturar, VerificarConFila, VerificarSinFila, VerificarTrasCrear, Perder,
       PrepararConFila, PrepararSinFila, PrepararTrasCrear, NoEncontrar, LeerEmpresa, LeerUsoConFila,
       LeerUsoSinFila, LeerUsoTrasCrear, LeerUsoParaPlan, AsignarPlan, Comparar,
       CambiarPlanContador, EditarPlan, NuevoMes, Creando, Procesos, Escritores

LEMMA NoSobrecuentaInductiva ==
  ASSUME IInv, [Next]_vars, Tipos'
  PROVE  NoSobrecuenta'
<1> SUFFICES ASSUME NEW m \in Meses, uso'[m] # Nulo
             PROVE  uso'[m].gen <= Cardinality(contadas'[m])
  BY DEF NoSobrecuenta
<1> USE DEF IInv
<1>1. /\ Cardinality(contadas[m]) \in Nat /\ Cardinality(contadas'[m]) \in Nat
      /\ Cardinality(contadas[m]) <= Cardinality(contadas'[m])
  BY CuentaCreciente, ContadasFinitas, ProcesosAssumption, FS_Subset, FS_CardinalityType
     DEF Tipos, TypeOK
<1>2. uso[m] # Nulo => uso[m].gen \in Nat /\ uso[m].gen <= Cardinality(contadas[m])
  BY DEF NoSobrecuenta, Tipos, TypeOK, Fila
<1>3. CASE DeUnaCopia(m)
  <2>1. PICK e \in Escritores : /\ paso[e] \in Guardando /\ mesDe[e] = m
                                /\ uso'[m].gen = entidad[e].gen
    BY <1>3 DEF DeUnaCopia
  <2>2. entidad[e].gen \in Nat
    BY <2>1 DEF Tipos, Locales, Fila, Procesos
  <2> QED
    BY <1>1, <2>1, <2>2 DEF Copias
<1>4. CASE uso'[m].gen = 0 \/ DeLaFila(m) \/ DeContar(m)
  BY <1>1, <1>2, <1>4 DEF DeLaFila, DeContar
<1> QED
  BY <1>3, <1>4, OrigenDelContador


\* Only an invoice request moves an invoice request, and only it counts.
LEMMA SoloFacturarAvanza ==
  ASSUME Tipos, [Next]_vars, \A s \in Solicitudes : ~Facturar(s)
  PROVE  /\ \A s \in Solicitudes : paso'[s] = paso[s] /\ mesDe'[s] = mesDe[s]
         /\ UNCHANGED contadas
<1> USE DEF catalogoVars, procesoVars, Terminar, Tipos, TypeOK
<1>1. ASSUME NEW e \in Escritores, UNCHANGED contadas,
             paso' = [paso EXCEPT ![e] = paso'[e]], mesDe' = [mesDe EXCEPT ![e] = mesDe'[e]]
      PROVE  /\ \A s \in Solicitudes : paso'[s] = paso[s] /\ mesDe'[s] = mesDe[s]
             /\ UNCHANGED contadas
  BY <1>1, ProcesosAssumption DEF Procesos
<1>2. ASSUME NEW r \in Lecturas,
             LeerEmpresa(r) \/ LeerUsoConFila(r) \/ LeerUsoSinFila(r) \/ LeerUsoTrasCrear(r)
      PROVE  /\ UNCHANGED contadas
             /\ paso' = [paso EXCEPT ![r] = paso'[r]] /\ mesDe' = [mesDe EXCEPT ![r] = mesDe'[r]]
  BY <1>2 DEF LeerEmpresa, LeerUsoConFila, LeerUsoSinFila, LeerUsoTrasCrear, Contrastar,
              NoEncontrar, Procesos, Escritores
<1>3. ASSUME NEW c \in Cambios, LeerUsoParaPlan(c) \/ \E p \in Planes : AsignarPlan(c, p)
      PROVE  /\ UNCHANGED contadas
             /\ paso' = [paso EXCEPT ![c] = paso'[c]] /\ mesDe' = [mesDe EXCEPT ![c] = mesDe'[c]]
  BY <1>3 DEF LeerUsoParaPlan, AsignarPlan, Procesos, Escritores
<1>4. ASSUME NEW e \in Escritores, Comparar(e) \/ Escribir(e)
      PROVE  /\ UNCHANGED contadas
             /\ paso' = [paso EXCEPT ![e] = paso'[e]] /\ mesDe' = [mesDe EXCEPT ![e] = mesDe'[e]]
  BY <1>4 DEF Comparar, Escribir, Procesos, Escritores
<1> QED
  BY <1>1, <1>2, <1>3, <1>4 DEF Next, vars, CambiarPlanContador, EditarPlan, NuevoMes, Escritores

LEMMA ContadasInductiva ==
  ASSUME Tipos, Contadas, [Next]_vars
  PROVE  Contadas'
<1> SUFFICES ASSUME NEW m \in Meses, NEW s \in contadas'[m]
             PROVE  paso'[s] = "contada"
  BY DEF Contadas
<1> USE DEF catalogoVars, procesoVars, Terminar, Tipos, TypeOK
<1>1. ASSUME NEW z \in Solicitudes, Contar(z)
      PROVE  paso'[s] = "contada"
  <2>1. z \in Procesos /\ contadas' = [contadas EXCEPT ![mesDe[z]] = @ \union {z}]
    BY <1>1 DEF Contar, Procesos
  <2>2. s \in contadas[m] \/ s = z
    BY <2>1
  <2> QED
    BY <1>1, <2>1, <2>2 DEF Contar, Contadas, Procesos
<1>2. ASSUME NEW z \in Solicitudes, Facturar(z), ~Contar(z)
      PROVE  paso'[s] = "contada"
  <2>1. s \in contadas[m] /\ s \in Solicitudes
    BY <1>2 DEF Facturar, VerificarConFila, VerificarSinFila, VerificarTrasCrear, Resolver,
                Perder, PrepararConFila, PrepararSinFila, PrepararTrasCrear, NoEncontrar
  <2>2. paso[s] = "contada" /\ s # z
    BY <1>2, <2>1 DEF Contadas, Facturar, VerificarConFila, VerificarSinFila, VerificarTrasCrear,
                      Perder, PrepararConFila, PrepararSinFila, PrepararTrasCrear, EnCurso
  <2>3. z \in Procesos /\ s \in Procesos
    BY <2>1 DEF Procesos
  <2>4. paso' = [paso EXCEPT ![z] = paso'[z]]
    BY <1>2, <2>3 DEF Facturar, VerificarConFila, VerificarSinFila, VerificarTrasCrear, Resolver,
                Perder, PrepararConFila, PrepararSinFila, PrepararTrasCrear, NoEncontrar
  <2> QED
    BY <2>2, <2>3, <2>4
<1>3. CASE \A z \in Solicitudes : ~Facturar(z)
  BY <1>3, SoloFacturarAvanza DEF Contadas
<1> QED
  BY <1>1, <1>2, <1>3

\* What a request that is about to save has in memory.
Conserva(e) == /\ paso[e] \in Guardando
               /\ mesDe'[e] = mesDe[e] /\ entidad'[e] = entidad[e]
Copia(e) == /\ mesDe'[e] \in Meses /\ uso[mesDe'[e]] # Nulo
            /\ entidad'[e].gen = uso[mesDe'[e]].gen
Nueva(e) == mesDe'[e] \in Meses /\ entidad'[e].gen = 0

LEMMA ContrastarCopia ==
  ASSUME Tipos, NEW r \in Lecturas, NEW m \in Meses, NEW fila \in Fila,
         vigente[r] \in Vigencia, Contrastar(r, m, fila),
         NEW e \in Escritores, paso'[e] \in Guardando
  PROVE  \/ Conserva(e)
         \/ e = r /\ mesDe'[e] = m /\ entidad'[e].gen = fila.gen
<1>1. r \in Procesos /\ e \in Procesos
  BY DEF Procesos, Escritores
<1>2. ConVigencia(fila, vigente[r]).gen = fila.gen
  BY ConVigenciaTipada
<1> QED
  BY <1>1, <1>2 DEF Contrastar, Terminar, Tipos, TypeOK, Guardando, Conserva

LEMMA OrigenDeLaCopia ==
  ASSUME Tipos, [Next]_vars, NEW e \in Escritores, paso'[e] \in Guardando
  PROVE  Conserva(e) \/ Copia(e) \/ Nueva(e)
<1> USE DEF catalogoVars, procesoVars, Guardando
<1>1. e \in Procesos /\ e \notin Solicitudes /\ TypeOK
  BY ProcesosAssumption DEF Procesos, Tipos
<1>2. CASE UNCHANGED <<paso, mesDe, entidad>>
  BY <1>2 DEF Conserva
<1>3. ASSUME NEW s \in Solicitudes, Facturar(s)
      PROVE  Conserva(e)
  BY <1>1, <1>3 DEF Conserva, TypeOK, Terminar, Facturar, VerificarConFila, VerificarSinFila,
     VerificarTrasCrear, Resolver, Perder, PrepararConFila, PrepararSinFila, PrepararTrasCrear,
     Contar, NoEncontrar
<1>4. ASSUME NEW r \in Lecturas, LeerEmpresa(r) \/ LeerUsoSinFila(r)
      PROVE  Conserva(e)
  BY <1>1, <1>4 DEF Conserva, TypeOK, LeerEmpresa, LeerUsoSinFila, NoEncontrar
<1>5. ASSUME NEW r \in Lecturas, LeerUsoConFila(r)
      PROVE  Conserva(e) \/ Copia(e)
  <2>1. mes \in Meses /\ uso[mes] \in Fila /\ Contrastar(r, mes, uso[mes])
    BY <1>5 DEF LeerUsoConFila, Tipos, TypeOK, Calendario
  <2>2. vigente[r] \in Vigencia
    BY <1>5 DEF LeerUsoConFila, Tipos, Locales, Escritores
  <2>3. Conserva(e) \/ (e = r /\ mesDe'[e] = mes /\ entidad'[e].gen = uso[mes].gen)
    BY <2>1, <2>2, ContrastarCopia
  <2> QED
    BY <1>5, <2>1, <2>3 DEF Copia, LeerUsoConFila
<1>6. ASSUME NEW r \in Lecturas, LeerUsoTrasCrear(r)
      PROVE  Conserva(e) \/ Copia(e) \/ Nueva(e)
  <2>1. /\ r \in Procesos /\ paso[r] \in Creando /\ Contrastar(r, mesDe[r], FilaHallada(r))
        /\ vigente[r] \in Vigencia
    BY <1>6 DEF LeerUsoTrasCrear, Tipos, Locales, Procesos, Escritores, Creando
  <2>2. /\ mesDe[r] \in Meses /\ FilaHallada(r) \in Fila
        /\ uso[mesDe[r]] = Nulo => FilaHallada(r).gen = 0
        /\ uso[mesDe[r]] # Nulo => FilaHallada(r) = uso[mesDe[r]]
    BY <2>1, FilaHalladaTipada
  <2>3. Conserva(e) \/ (e = r /\ mesDe'[e] = mesDe[r] /\ entidad'[e].gen = FilaHallada(r).gen)
    BY <2>1, <2>2, ContrastarCopia
  <2> QED
    BY <2>2, <2>3 DEF Copia, Nueva
<1>7. ASSUME NEW c \in Cambios, NEW p \in Planes, AsignarPlan(c, p)
      PROVE  Conserva(e)
  BY <1>1, <1>7 DEF Conserva, TypeOK, AsignarPlan
<1>8. ASSUME NEW c \in Cambios, LeerUsoParaPlan(c)
      PROVE  Conserva(e) \/ Copia(e)
  <2>1. mes \in Meses /\ vigente[c] \in Vigencia /\ c \in Procesos
    BY <1>8 DEF LeerUsoParaPlan, Tipos, Locales, Calendario, Procesos, Escritores
  <2>2. uso[mes] # Nulo => ConVigencia(uso[mes], vigente[c]).gen = uso[mes].gen
    BY <2>1, ConVigenciaTipada DEF Tipos, TypeOK
  <2> QED
    BY <1>1, <1>8, <2>1, <2>2 DEF Conserva, Copia, TypeOK, LeerUsoParaPlan, Terminar
<1>9. ASSUME NEW z \in Escritores, Comparar(z) \/ Escribir(z)
      PROVE  Conserva(e)
  BY <1>1, <1>9 DEF Conserva, TypeOK, Comparar, Escribir, Terminar
<1> QED
  BY <1>2, <1>3, <1>4, <1>5, <1>6, <1>7, <1>8, <1>9
     DEF Next, vars, CambiarPlanContador, EditarPlan, NuevoMes

LEMMA CopiasInductiva ==
  ASSUME IInv, [Next]_vars, Tipos'
  PROVE  Copias'
<1> SUFFICES ASSUME NEW e \in Escritores, paso'[e] \in Guardando
             PROVE  entidad'[e].gen <= Cardinality(contadas'[mesDe'[e]])
  BY DEF Copias
<1> USE DEF IInv
<1>1. mesDe'[e] \in Meses /\ entidad'[e].gen \in Nat
  <2>1. mesDe'[e] \in 1 .. mes' /\ entidad'[e] \in Fila /\ mes' \in Meses
    BY DEF Tipos, Locales, Calendario, ConMes, Guardando, Procesos
  <2> QED
    BY <2>1, MesesCrecientes DEF Fila
<1> DEFINE m == mesDe'[e]
<1>2. /\ Cardinality(contadas[m]) \in Nat /\ Cardinality(contadas'[m]) \in Nat
      /\ Cardinality(contadas[m]) <= Cardinality(contadas'[m])
  BY <1>1, CuentaCreciente, ContadasFinitas, ProcesosAssumption, FS_Subset, FS_CardinalityType
     DEF Tipos, TypeOK
<1>3. CASE Conserva(e)
  BY <1>1, <1>2, <1>3 DEF Conserva, Copias
<1>4. CASE Copia(e)
  BY <1>1, <1>2, <1>4 DEF Copia, NoSobrecuenta
<1>5. CASE Nueva(e)
  BY <1>1, <1>2, <1>5 DEF Nueva
<1> QED
  BY <1>3, <1>4, <1>5, OrigenDeLaCopia

-----------------------------------------------------------------------------

LEMMA InvarianteAlInicio == Init => IInv
<1> SUFFICES ASSUME Init PROVE IInv
  OBVIOUS
<1> USE LimitesAssumption, ProcesosAssumption DEF Init, Procesos
<1>1. TypeOK
  BY DEF TypeOK, PasosSolicitud, Meses
<1>2. Locales
  BY DEF Locales, PasosSolicitud, PasosEscritor, ConMes, Creando, Guardando
<1>3. Calendario
  BY DEF Calendario, Meses
<1>4. Contadas /\ Copias /\ NoSobrecuenta
  BY DEF Contadas, Copias, NoSobrecuenta, Guardando
<1> QED
  BY <1>1, <1>2, <1>3, <1>4 DEF IInv, Tipos

LEMMA Invariante == Spec => []IInv
<1>1. IInv /\ [Next]_vars => IInv'
  BY TiposInductivos, ContadasInductiva, CopiasInductiva, NoSobrecuentaInductiva DEF IInv
<1> QED
  BY <1>1, InvarianteAlInicio, PTL DEF Spec

\* The table, the plan and the requests always have the values the code gives them.
THEOREM TipoCorrecto == Spec => []TypeOK
BY Invariante, PTL DEF IInv, Tipos

\* No company is charged for more invoices than were saved and counted, for any
\* number of requests, of readers and of changes of plan whose saves interleave.
THEOREM SinSobrecuenta == Spec => []NoSobrecuenta
BY Invariante, PTL DEF IInv

-----------------------------------------------------------------------------
(* By how much the limit can be exceeded                                   *)

\* The invoice requests in progress.
Ocupadas == {s \in Solicitudes : paso[s] \in EnCurso}

\* Those of them that may still count in month m.
PorContar(m) ==
  {s \in Ocupadas : IF paso[s] \in {"crear_i", "contar"} THEN mesDe[s] = m ELSE m = mes}

ConexionesAcotadas == Cardinality(Ocupadas) <= Conexiones

\* While no plan has changed, every row has the plan in force and nothing saves one.
SinEditar ==
  ediciones = 0 =>
    /\ \A m \in Meses : uso[m] # Nulo => uso[m].lim = limite[plan] /\ uso[m].plan = plan
    /\ \A p \in Procesos : paso[p] \in Creando => entidad[p] = FilaInicial(PlanVigente)
    /\ \A r \in Lecturas : paso[r] \in {"empresa_leida", "crear_l"} => vigente[r] = PlanVigente
    /\ \A e \in Escritores : paso[e] \notin Guardando
    /\ \A c \in Cambios : paso[c] = "inicio"

\* What was counted and what may still be stay below the limit, but for one request
\* less than may be in progress.
Cuota ==
  \A m \in Meses :
    (ediciones = 0 /\ uso[m] # Nulo /\ uso[m].lim # SinLimite /\ uso[m].lim > 0)
      => uso[m].gen + Cardinality(PorContar(m)) <= uso[m].lim - 1 + Conexiones

IInvCuota == IInv /\ ConexionesAcotadas /\ SinEditar /\ Cuota

LEMMA OcupadasFinitas ==
  /\ IsFiniteSet(Ocupadas) /\ Cardinality(Ocupadas) \in Nat
  /\ \A m : /\ IsFiniteSet(PorContar(m)) /\ Cardinality(PorContar(m)) \in Nat
            /\ Cardinality(PorContar(m)) <= Cardinality(Ocupadas)
<1>1. IsFiniteSet(Ocupadas) /\ Cardinality(Ocupadas) \in Nat
  BY ProcesosAssumption, FS_Subset, FS_CardinalityType DEF Ocupadas
<1>2. ASSUME NEW m
      PROVE  /\ IsFiniteSet(PorContar(m)) /\ Cardinality(PorContar(m)) \in Nat
             /\ Cardinality(PorContar(m)) <= Cardinality(Ocupadas)
  <2>1. PorContar(m) \in SUBSET Ocupadas
    BY DEF PorContar
  <2> QED
    BY <1>1, <2>1, FS_Subset, FS_CardinalityType
<1> QED
  BY <1>1, <1>2

\* A request moves one request, and nobody else's month.
LEMMA FacturarUna ==
  ASSUME Tipos, NEW s \in Solicitudes, Facturar(s)
  PROVE  /\ \A z \in Solicitudes \ {s} : paso'[z] = paso[z] /\ mesDe'[z] = mesDe[z]
         /\ UNCHANGED <<mes, limite, plan, vigente, ediciones>>
<1> USE DEF catalogoVars, procesoVars, Terminar, Tipos, TypeOK, Procesos
<1> QED
  BY DEF Facturar, VerificarConFila, VerificarSinFila, VerificarTrasCrear, Resolver,
         Perder, PrepararConFila, PrepararSinFila, PrepararTrasCrear, NoEncontrar, Contar

LEMMA ConexionesInductiva ==
  ASSUME Tipos, ConexionesAcotadas, [Next]_vars
  PROVE  ConexionesAcotadas'
<1>1. ASSUME NEW s \in Solicitudes, VerificarConFila(s) \/ VerificarSinFila(s)
      PROVE  ConexionesAcotadas'
  <2>1. Facturar(s) /\ HayConexion
    BY <1>1 DEF Facturar, VerificarConFila, VerificarSinFila
  <2>2. Ocupadas' \subseteq Ocupadas \union {s}
    BY <2>1, FacturarUna DEF Ocupadas
  <2>3. Cardinality(Ocupadas) < Conexiones
    BY <2>1 DEF HayConexion, Ocupadas
  <2>4. /\ IsFiniteSet(Ocupadas \union {s})
        /\ Cardinality(Ocupadas \union {s}) <= Cardinality(Ocupadas) + 1
    <3>1. IsFiniteSet(Ocupadas) /\ Cardinality(Ocupadas) \in Nat
      BY OcupadasFinitas
    <3>2. /\ IsFiniteSet(Ocupadas \union {s})
          /\ Cardinality(Ocupadas \union {s})
               = IF s \in Ocupadas THEN Cardinality(Ocupadas) ELSE Cardinality(Ocupadas) + 1
      BY <3>1, FS_AddElement
    <3> QED
      BY <3>1, <3>2
  <2>5. Cardinality(Ocupadas') <= Cardinality(Ocupadas \union {s}) /\ Cardinality(Ocupadas') \in Nat
    BY <2>2, <2>4, FS_Subset, FS_CardinalityType
  <2>6. Cardinality(Ocupadas \union {s}) \in Nat
    BY <2>4, FS_CardinalityType
  <2> QED
    BY <2>3, <2>4, <2>5, <2>6, OcupadasFinitas, LimitesAssumption DEF ConexionesAcotadas
<1>2. CASE \A s \in Solicitudes : ~VerificarConFila(s) /\ ~VerificarSinFila(s)
  <2>1. Ocupadas' \subseteq Ocupadas
    <3>1. ASSUME NEW s \in Solicitudes, Facturar(s)
          PROVE  Ocupadas' \subseteq Ocupadas
      <4>1. paso[s] \in EnCurso
        BY <1>2, <3>1 DEF Facturar, VerificarTrasCrear, Perder, PrepararConFila, PrepararSinFila,
                          PrepararTrasCrear, Contar, EnCurso
      <4> QED
        BY <3>1, <4>1, FacturarUna DEF Ocupadas
    <3>2. CASE \A s \in Solicitudes : ~Facturar(s)
      BY <3>2, SoloFacturarAvanza DEF Ocupadas
    <3> QED
      BY <3>1, <3>2
  <2>2. Cardinality(Ocupadas') <= Cardinality(Ocupadas) /\ Cardinality(Ocupadas') \in Nat
    BY <2>1, OcupadasFinitas, FS_Subset, FS_CardinalityType
  <2> QED
    BY <2>2, OcupadasFinitas, LimitesAssumption DEF ConexionesAcotadas
<1> QED
  BY <1>1, <1>2

\* A step after which no plan has changed did not change one.
LEMMA SinEdicion ==
  ASSUME TypeOK, [Next]_vars, ediciones' = 0
  PROVE  /\ ediciones = 0 /\ UNCHANGED <<limite, plan>>
         /\ \A c \in Cambios, p \in Planes : ~AsignarPlan(c, p)
         /\ \A p \in Planes : ~CambiarPlanContador(p) /\ \A l \in Limites : ~EditarPlan(p, l)
<1> USE DEF catalogoVars, procesoVars, TypeOK
<1>1. ASSUME NEW p \in Planes, CambiarPlanContador(p) \/ \E l \in Limites : EditarPlan(p, l)
      PROVE  FALSE
  BY <1>1 DEF CambiarPlanContador, EditarPlan
<1>2. ASSUME NEW c \in Cambios, NEW p \in Planes, AsignarPlan(c, p)
      PROVE  FALSE
  BY <1>2 DEF AsignarPlan
<1>3. UNCHANGED <<limite, plan, ediciones>>
  BY <1>1, <1>2 DEF Next, vars, Facturar, VerificarConFila, VerificarSinFila, VerificarTrasCrear, Perder,
       PrepararConFila, PrepararSinFila, PrepararTrasCrear, Contar, NoEncontrar, LeerEmpresa,
       LeerUsoConFila, LeerUsoSinFila, LeerUsoTrasCrear, LeerUsoParaPlan, Comparar, Escribir, NuevoMes
<1> QED
  BY <1>1, <1>2, <1>3

\* A row that InsertarFila finds or inserts has the plan in force.
LEMMA HalladaVigente ==
  ASSUME Tipos, SinEditar, ediciones = 0, NEW p \in Procesos, paso[p] \in Creando
  PROVE  /\ FilaHallada(p) \in Fila /\ mesDe[p] \in Meses
         /\ FilaHallada(p).lim = limite[plan] /\ FilaHallada(p).plan = plan
BY FilaHalladaTipada DEF SinEditar, FilaHallada, FilaInicial, PlanVigente

\* A row with the plan in force is not saved.
LEMMA ContrastarVigente ==
  ASSUME NEW r, NEW m, NEW fila \in Fila, Contrastar(r, m, fila), vigente[r] = PlanVigente,
         fila.lim = limite[plan], fila.plan = plan
  PROVE  Terminar(r, "hecha") /\ vigente' = [vigente EXCEPT ![r] = Nulo]
<1>1. fila = ConVigencia(fila, vigente[r])
  BY DEF ConVigencia, PlanVigente, Fila
<1> QED
  BY <1>1 DEF Contrastar

LEMMA SinEditarInductiva ==
  ASSUME Tipos, Contadas, SinEditar, [Next]_vars, Tipos'
  PROVE  SinEditar'
<1> SUFFICES ASSUME ediciones' = 0
             PROVE  SinEditar'
  BY DEF SinEditar
<1>1. /\ ediciones = 0 /\ UNCHANGED <<limite, plan>>
      /\ \A c \in Cambios, p \in Planes : ~AsignarPlan(c, p)
      /\ \A p \in Planes : ~CambiarPlanContador(p) /\ \A l \in Limites : ~EditarPlan(p, l)
  BY SinEdicion DEF Tipos
<1> DEFINE FilasVigentes ==
             \A m \in Meses : uso[m] # Nulo => uso[m].lim = limite[plan] /\ uso[m].plan = plan
           NuevasVigentes ==
             \A p \in Procesos : paso[p] \in Creando => entidad[p] = FilaInicial(PlanVigente)
           LeidasVigentes ==
             \A r \in Lecturas :
               paso[r] \in {"empresa_leida", "crear_l"} => vigente[r] = PlanVigente
           NadaQueGuardar == /\ \A e \in Escritores : paso[e] \notin Guardando
                             /\ \A c \in Cambios : paso[c] = "inicio"
<1>2. FilasVigentes /\ NuevasVigentes /\ LeidasVigentes /\ NadaQueGuardar
  BY <1>1 DEF SinEditar
<1>3. PlanVigente' = PlanVigente
  BY <1>1 DEF PlanVigente
<1>4. ASSUME NEW p \in Procesos, paso[p] \in Creando, InsertarFila(p)
      PROVE  FilasVigentes'
  BY <1>1, <1>2, <1>4, HalladaVigente DEF InsertarFila, Tipos, TypeOK
<1>5. ASSUME UNCHANGED uso
      PROVE  FilasVigentes'
  BY <1>1, <1>2, <1>5
<1> HIDE DEF FilasVigentes
<1>6. ASSUME NEW s \in Solicitudes, Facturar(s)
      PROVE  FilasVigentes'
  <2>1. CASE Contar(s)
    <3>1. /\ mesDe[s] \in Meses /\ uso[mesDe[s]] \in Fila
          /\ uso' = [uso EXCEPT ![mesDe[s]] = [gen |-> uso[mesDe[s]].gen + 1,
                                               lim |-> uso[mesDe[s]].lim,
                                               plan |-> uso[mesDe[s]].plan]]
      BY <2>1, ContadaUnaVez
    <3> QED
      BY <1>1, <1>2, <3>1, ProcesosAssumption DEF FilasVigentes, Tipos, TypeOK
  <2> QED
    BY <1>4, <1>5, <1>6, <2>1
       DEF Facturar, VerificarConFila, VerificarSinFila, VerificarTrasCrear, Perder, Creando,
           PrepararConFila, PrepararSinFila, PrepararTrasCrear, NoEncontrar, Procesos
<1>7. ASSUME NEW s \in Solicitudes, Facturar(s)
      PROVE  NuevasVigentes' /\ LeidasVigentes' /\ NadaQueGuardar'
  <2>1. /\ \A p \in Procesos \ {s} : paso'[p] = paso[p] /\ entidad'[p] = entidad[p]
        /\ UNCHANGED vigente /\ s \notin Escritores /\ s \in Procesos
    BY <1>7, ProcesosAssumption
       DEF Facturar, VerificarConFila, VerificarSinFila, VerificarTrasCrear, Resolver, Perder,
           PrepararConFila, PrepararSinFila, PrepararTrasCrear, NoEncontrar, Contar, Terminar,
           Tipos, TypeOK, Procesos, procesoVars
  <2>2. paso'[s] \in Creando => entidad'[s] = FilaInicial(PlanVigente)
    BY <1>7, <2>1
       DEF Facturar, VerificarConFila, VerificarSinFila, VerificarTrasCrear, Resolver, Perder,
           PrepararConFila, PrepararSinFila, PrepararTrasCrear, NoEncontrar, Contar, Terminar,
           Tipos, TypeOK, Creando
  <2>3. NuevasVigentes'
    BY <1>2, <1>3, <2>1, <2>2 DEF FilaInicial
  <2> QED
    BY <1>2, <1>3, <2>1, <2>3 DEF Procesos, Escritores
<1>8. ASSUME NEW r \in Lecturas, LeerEmpresa(r) \/ LeerUsoSinFila(r)
      PROVE  SinEditar'
  <2>1. r \in Procesos /\ r \in Escritores /\ r \notin Cambios
    BY ProcesosAssumption DEF Procesos, Escritores
  <2>2. FilasVigentes'
    BY <1>5, <1>8 DEF LeerEmpresa, LeerUsoSinFila, NoEncontrar
  <2>3. NuevasVigentes'
    <3>1. \A p \in Procesos \ {r} : paso'[p] = paso[p] /\ entidad'[p] = entidad[p]
      BY <1>8, <2>1 DEF LeerEmpresa, LeerUsoSinFila, NoEncontrar, Tipos, TypeOK
    <3>2. paso'[r] \in Creando => entidad'[r] = FilaInicial(PlanVigente)
      BY <1>8, <2>1 DEF LeerEmpresa, LeerUsoSinFila, NoEncontrar, Tipos, TypeOK, Creando
    <3> QED
      BY <1>2, <1>3, <3>1, <3>2 DEF FilaInicial
  <2>4. LeidasVigentes' /\ NadaQueGuardar'
    BY <1>2, <1>3, <1>8, <2>1
       DEF LeerEmpresa, LeerUsoSinFila, NoEncontrar, Tipos, TypeOK, Guardando, Procesos, Escritores
  <2> QED
    BY <2>2, <2>3, <2>4 DEF SinEditar, FilasVigentes
<1>9. ASSUME NEW r \in Lecturas, LeerUsoConFila(r) \/ LeerUsoTrasCrear(r)
      PROVE  SinEditar'
  <2>1. r \in Procesos /\ r \in Escritores /\ r \notin Cambios
    BY ProcesosAssumption DEF Procesos, Escritores
  <2>2. vigente[r] = PlanVigente
    BY <1>2, <1>9 DEF LeerUsoConFila, LeerUsoTrasCrear
  <2>3. Terminar(r, "hecha") /\ vigente' = [vigente EXCEPT ![r] = Nulo] /\ FilasVigentes'
    <3>1. CASE LeerUsoConFila(r)
      <4>1. uso[mes] \in Fila /\ uso[mes].lim = limite[plan] /\ uso[mes].plan = plan
        BY <1>2, <3>1 DEF LeerUsoConFila, FilasVigentes, Tipos, TypeOK, Calendario
      <4>2. Contrastar(r, mes, uso[mes]) /\ UNCHANGED uso
        BY <3>1 DEF LeerUsoConFila
      <4> QED
        BY <1>5, <2>2, <4>1, <4>2, ContrastarVigente
    <3>2. CASE LeerUsoTrasCrear(r)
      <4>1. paso[r] \in Creando /\ InsertarFila(r) /\ Contrastar(r, mesDe[r], FilaHallada(r))
        BY <3>2 DEF LeerUsoTrasCrear, Creando
      <4>2. /\ FilaHallada(r) \in Fila
            /\ FilaHallada(r).lim = limite[plan] /\ FilaHallada(r).plan = plan
        BY <1>1, <2>1, <4>1, HalladaVigente
      <4> QED
        BY <1>4, <2>1, <2>2, <4>1, <4>2, ContrastarVigente
    <3> QED
      BY <1>9, <3>1, <3>2
  <2>4. NuevasVigentes' /\ LeidasVigentes' /\ NadaQueGuardar'
    BY <1>2, <1>3, <2>1, <2>3 DEF Terminar, Tipos, TypeOK, Creando, Guardando, FilaInicial
  <2> QED
    BY <2>3, <2>4 DEF SinEditar, FilasVigentes
<1>10. ASSUME NEW c \in Cambios
       PROVE  ~LeerUsoParaPlan(c)
  BY <1>2 DEF LeerUsoParaPlan
<1>11. ASSUME NEW e \in Escritores
       PROVE  ~Comparar(e) /\ ~Escribir(e)
  BY <1>2 DEF Comparar, Escribir, Guardando
<1>12. CASE UNCHANGED <<uso, procesoVars>>
  <2>1. FilasVigentes' /\ NuevasVigentes' /\ LeidasVigentes' /\ NadaQueGuardar'
    BY <1>2, <1>3, <1>5, <1>12 DEF procesoVars, FilaInicial
  <2> QED
    BY <2>1 DEF SinEditar, FilasVigentes
<1> QED
  <2>1. ASSUME NEW s \in Solicitudes, Facturar(s)
        PROVE  SinEditar'
    BY <1>6, <1>7, <2>1 DEF SinEditar, FilasVigentes
  <2> QED
    BY <1>1, <1>8, <1>9, <1>10, <1>11, <1>12, <2>1 DEF Next, vars, NuevoMes

\* Who may still count in a month that has a row does not grow, but for a request
\* that is admitted below the limit.
LEMMA PorContarNoCrece ==
  ASSUME Tipos, [Next]_vars, Tipos', NEW m \in Meses, uso[m] # Nulo
  PROVE  \/ PorContar(m)' \subseteq PorContar(m)
         \/ uso'[m] = uso[m] /\ ~Agotada(uso[m])
<1> USE DEF catalogoVars, Terminar
<1>1. ASSUME NEW s \in Solicitudes, Facturar(s)
      PROVE  \/ PorContar(m)' \subseteq PorContar(m)
             \/ uso'[m] = uso[m] /\ ~Agotada(uso[m])
  <2>1. /\ \A z \in Solicitudes \ {s} : paso'[z] = paso[z] /\ mesDe'[z] = mesDe[z]
        /\ mes' = mes /\ s \in Procesos
    BY <1>1, FacturarUna DEF Procesos
  <2>2. /\ PorContar(m)' \subseteq PorContar(m) \union {s}
        /\ s \in PorContar(m) \/ s \notin PorContar(m)' => PorContar(m)' \subseteq PorContar(m)
    BY <2>1 DEF PorContar, Ocupadas
  <2>3. CASE VerificarConFila(s) \/ VerificarSinFila(s)
    <3>1. CASE m # mes \/ VerificarSinFila(s)
      <4>1. s \notin PorContar(m)'
        BY <2>1, <2>3, <3>1 DEF VerificarConFila, VerificarSinFila, Resolver, NoEncontrar, PorContar,
                                Ocupadas, EnCurso, Tipos, TypeOK
      <4> QED
        BY <2>2, <4>1
    <3>2. CASE m = mes /\ VerificarConFila(s) /\ Agotada(uso[m])
      <4>1. s \notin Ocupadas'
        BY <2>1, <3>2 DEF VerificarConFila, Resolver, Ocupadas, EnCurso, Tipos, TypeOK
      <4> QED
        BY <2>2, <4>1 DEF PorContar
    <3>3. CASE m = mes /\ VerificarConFila(s) /\ ~Agotada(uso[m])
      BY <3>3 DEF VerificarConFila
    <3> QED
      BY <2>3, <3>1, <3>2, <3>3
  <2>4. CASE VerificarTrasCrear(s) \/ Perder(s) \/ PrepararConFila(s) \/ PrepararSinFila(s)
             \/ PrepararTrasCrear(s) \/ Contar(s)
    <3>1. s \in PorContar(m)' => s \in PorContar(m)
      BY <2>1, <2>4 DEF VerificarTrasCrear, Resolver, Perder, PrepararConFila, PrepararSinFila,
         PrepararTrasCrear, Contar, NoEncontrar, PorContar, Ocupadas, EnCurso, Tipos, TypeOK
    <3> QED
      BY <2>2, <3>1
  <2> QED
    BY <1>1, <2>3, <2>4 DEF Facturar
<1>2. CASE \A s \in Solicitudes : ~Facturar(s)
  <2>1. m = mes' => m = mes
    <3>1. CASE NuevoMes
      BY <3>1 DEF NuevoMes, Tipos, TypeOK, Calendario
    <3>2. CASE ~NuevoMes
      BY <1>2, <3>2 DEF Next, vars, LeerEmpresa, LeerUsoConFila, LeerUsoSinFila, NoEncontrar,
         LeerUsoTrasCrear, LeerUsoParaPlan, AsignarPlan, Comparar, Escribir,
         CambiarPlanContador, EditarPlan
    <3> QED
      BY <3>1, <3>2
  <2> QED
    BY <1>2, <2>1, SoloFacturarAvanza DEF PorContar, Ocupadas
<1> QED
  BY <1>1, <1>2

LEMMA CuotaInductiva ==
  ASSUME IInvCuota, [Next]_vars, Tipos', ConexionesAcotadas'
  PROVE  Cuota'
<1> SUFFICES ASSUME NEW m \in Meses, ediciones' = 0, uso'[m] # Nulo,
                    uso'[m].lim # SinLimite, uso'[m].lim > 0
             PROVE  uso'[m].gen + Cardinality(PorContar(m)') <= uso'[m].lim - 1 + Conexiones
  BY DEF Cuota
<1> USE DEF IInvCuota, IInv
<1>1. SinEditar' /\ ediciones = 0 /\ UNCHANGED <<limite, plan>>
  BY SinEditarInductiva, SinEdicion DEF Tipos
<1>2. /\ uso'[m].lim \in Nat /\ uso'[m].gen \in Nat
      /\ uso[m] # Nulo => uso[m].lim = uso'[m].lim /\ uso[m].gen \in Nat
  BY <1>1, LimitesAssumption DEF SinEditar, Tipos, TypeOK, Fila
<1>3. /\ Cardinality(PorContar(m)) \in Nat /\ IsFiniteSet(PorContar(m))
      /\ Cardinality(Ocupadas') \in Nat
      /\ Cardinality(PorContar(m)') <= Cardinality(Ocupadas') /\ Cardinality(PorContar(m)') \in Nat
  <2>1. IsFiniteSet(Ocupadas') /\ Cardinality(Ocupadas') \in Nat
    BY ProcesosAssumption, FS_Subset, FS_CardinalityType DEF Ocupadas
  <2>2. PorContar(m)' \in SUBSET Ocupadas'
    BY DEF PorContar
  <2> QED
    BY <2>1, <2>2, OcupadasFinitas, FS_Subset, FS_CardinalityType
<1>4. Cardinality(Ocupadas') <= Conexiones /\ Conexiones \in Nat
  BY LimitesAssumption DEF ConexionesAcotadas
<1>5. CASE uso'[m].gen < uso'[m].lim
  BY <1>2, <1>3, <1>4, <1>5
<1>6. CASE DeLaFila(m)
  <2>1. CASE PorContar(m)' \subseteq PorContar(m)
    <3>1. Cardinality(PorContar(m)') <= Cardinality(PorContar(m))
      BY <1>3, <2>1, FS_Subset
    <3>2. uso[m].gen + Cardinality(PorContar(m)) <= uso[m].lim - 1 + Conexiones
      BY <1>1, <1>2, <1>6 DEF Cuota, DeLaFila
    <3> QED
      BY <1>2, <1>3, <1>4, <1>6, <3>1, <3>2 DEF DeLaFila
  <2>2. CASE uso'[m] = uso[m] /\ ~Agotada(uso[m])
    BY <1>2, <1>5, <2>2 DEF Agotada
  <2> QED
    BY <1>6, <2>1, <2>2, PorContarNoCrece DEF DeLaFila
<1>7. CASE DeContar(m)
  <2>1. PICK s \in Solicitudes : Contar(s) /\ mesDe[s] = m
    BY <1>7 DEF DeContar
  <2>2. s \in PorContar(m) /\ s \notin PorContar(m)'
    BY <2>1 DEF Contar, Terminar, PorContar, Ocupadas, EnCurso, Tipos, TypeOK, Procesos
  <2>3. PorContar(m)' \subseteq PorContar(m)
    BY <2>1, <2>2, FacturarUna DEF Facturar, PorContar, Ocupadas
  <2>4. PorContar(m)' \in SUBSET (PorContar(m) \ {s})
    BY <2>2, <2>3
  <2>5. /\ IsFiniteSet(PorContar(m) \ {s})
        /\ Cardinality(PorContar(m) \ {s}) = Cardinality(PorContar(m)) - 1
    BY <1>3, <2>2, FS_RemoveElement
  <2>6. Cardinality(PorContar(m)') <= Cardinality(PorContar(m)) - 1
    BY <2>4, <2>5, FS_Subset
  <2>7. uso[m].gen + Cardinality(PorContar(m)) <= uso[m].lim - 1 + Conexiones
    BY <1>1, <1>2, <1>7 DEF Cuota, DeContar
  <2> QED
    BY <1>2, <1>3, <1>4, <1>7, <2>6, <2>7 DEF DeContar
<1>8. CASE uso'[m].gen = 0
  BY <1>2, <1>5, <1>8
<1>9. ~DeUnaCopia(m)
  BY <1>1 DEF DeUnaCopia, SinEditar
<1> QED
  BY <1>6, <1>7, <1>8, <1>9, OrigenDelContador

LEMMA CuotaAlInicio == Init => ConexionesAcotadas /\ SinEditar /\ Cuota
<1> SUFFICES ASSUME Init PROVE ConexionesAcotadas /\ SinEditar /\ Cuota
  OBVIOUS
<1>1. Ocupadas = {}
  BY DEF Init, Ocupadas, EnCurso, Procesos
<1>2. ConexionesAcotadas
  BY <1>1, FS_EmptySet, LimitesAssumption DEF ConexionesAcotadas
<1> QED
  BY <1>2 DEF Init, SinEditar, Cuota, Procesos, Escritores, Creando, Guardando

\* Requests that overlap can exceed the limit of the month by less than Conexiones,
\* whatever the limit, for any number of requests in all and of readers meanwhile.
THEOREM ExcesoSiempreAcotado == Spec => []ExcesoAcotado
<1>1. IInvCuota /\ [Next]_vars => IInvCuota'
  BY TiposInductivos, ContadasInductiva, CopiasInductiva, NoSobrecuentaInductiva,
     ConexionesInductiva, SinEditarInductiva, CuotaInductiva DEF IInvCuota, IInv
<1>2. IInvCuota => ExcesoAcotado
  <2> SUFFICES ASSUME IInvCuota, NEW m \in Meses, ediciones = 0, uso[m] # Nulo,
                      uso[m].lim # SinLimite, uso[m].lim > 0
               PROVE  uso[m].gen <= uso[m].lim - 1 + Conexiones
    BY DEF ExcesoAcotado
  <2>1. uso[m].gen \in Nat /\ uso[m].lim \in Nat
    BY LimitesAssumption DEF IInvCuota, IInv, Tipos, TypeOK, Fila
  <2>2. Cardinality(PorContar(m)) \in Nat
    BY OcupadasFinitas
  <2>3. uso[m].gen + Cardinality(PorContar(m)) <= uso[m].lim - 1 + Conexiones
    BY DEF IInvCuota, Cuota
  <2> QED
    BY <2>1, <2>2, <2>3, LimitesAssumption
<1>3. Init => IInvCuota
  BY InvarianteAlInicio, CuotaAlInicio DEF IInvCuota
<1> QED
  BY <1>1, <1>2, <1>3, PTL DEF Spec

=============================================================================
