---------------------------- MODULE SecuenciasNcf ----------------------------
(***************************************************************************)
(* The e-NCF sequences of one company (SecuenciasNcfService).  Every query *)
(* of the service filters by empresa_id, so companies do not interact.     *)
(*                                                                         *)
(* Actors: invoice requests running asignarSiguiente, a transaction around *)
(* SELECT ... FOR UPDATE; and administrators creating sequences (POST) or  *)
(* changing them (PATCH), the latter a findOne followed by a TypeORM save: *)
(* save re-reads the row and then writes every column on which the entity  *)
(* in memory and the re-read row differ.  PostgreSQL runs at READ          *)
(* COMMITTED: plain reads do not wait for row locks, updates do.           *)
(***************************************************************************)
EXTENDS Naturals

CONSTANTS
  Solicitudes,   \* invoice requests, each asking for one number
  Ediciones,     \* PATCH requests
  Secuencias,    \* identifiers of rows of secuencias_ncf
  Tipos,         \* tipo_comprobante
  Ambientes,     \* ambiente of the company when the request runs
  Altas,         \* bodies of POST: records [tipo, prefijo, inicio, fin]
  Dtos,          \* bodies of PATCH: records [activo, prefijo, fin, actual]
  Prefijos,
  Nulo           \* SQL NULL, absent row, nobody

\* The columns a PATCH may change.
Columnas == {"activo", "prefijo", "fin", "actual"}

Fila == [tipo : Tipos, prefijo : Prefijos, ambiente : Ambientes, inicio : Nat,
         fin : Nat, actual : Nat, activo : BOOLEAN]

\* AsignacionResult: the e-NCF is prefijo followed by numero.
Asignacion ==
  [sec : Secuencias, prefijo : Prefijos, numero : Nat, ambiente : Ambientes]

Alta == [tipo : Tipos, prefijo : Prefijos, inicio : Nat, fin : Nat]

\* An absent field of a PATCH is Nulo.
Dto == [activo : BOOLEAN \union {Nulo}, prefijo : Prefijos \union {Nulo},
        fin : Nat \union {Nulo}, actual : Nat \union {Nulo}]

\* CreateSecuenciaNcfSchema and UpdateSecuenciaNcfSchema.
DtosValidos ==
  /\ Altas \subseteq {a \in Alta : a.inicio > 0 /\ a.fin > a.inicio}
  /\ Dtos \subseteq {d \in Dto : d.fin # 0 /\ d.actual # 0}

ASSUME DtosAssumption == DtosValidos

ASSUME NuloAssumption ==
  /\ Nulo \notin Solicitudes
  /\ Nulo \notin Secuencias
  /\ Nulo \notin Fila
  /\ Nulo \notin Nat
  /\ Nulo \notin BOOLEAN
  /\ Nulo \notin Prefijos
  /\ Nulo \notin Asignacion
  /\ Nulo \notin Secuencias \X Nat

VARIABLES
  tabla,         \* tabla[q]: the committed row, or Nulo
  dueno,         \* dueno[q]: the transaction that holds the row lock of q
  fase,          \* fase[s]: where asignarSiguiente is
  candidatas,    \* candidatas[s]: rows of the SELECT's snapshot it has not reached yet
  pedida,        \* pedida[s]: the row it has reached and asks the lock of, or Nulo
  elegida,       \* elegida[s]: the row getOne returns, Nulo while there is none
  leida,         \* leida[s]: its entity in memory
  asignado,      \* asignado[s]: the AsignacionResult, or Nulo
  pasoEd,        \* pasoEd[e]: where update is
  objetivo,      \* objetivo[e]: the row being updated
  entidad,       \* entidad[e]: its entity in memory, the DTO already applied
  sucias,        \* sucias[e]: the columns save has decided to write
  regresadas     \* history: sequences whose numero_actual some UPDATE lowered

varsSolicitud == <<dueno, fase, candidatas, pedida, elegida, leida, asignado>>
varsEdicion == <<pasoEd, objetivo, entidad, sucias>>
vars == <<tabla, varsSolicitud, varsEdicion, regresadas>>

Fases == {"inicio", "abierta", "asignada", "rechazada", "caida", "abortada"}

-----------------------------------------------------------------------------
Init ==
  /\ tabla = [q \in Secuencias |-> Nulo]
  /\ dueno = [q \in Secuencias |-> Nulo]
  /\ fase = [s \in Solicitudes |-> "inicio"]
  /\ candidatas = [s \in Solicitudes |-> {}]
  /\ pedida = [s \in Solicitudes |-> Nulo]
  /\ elegida = [s \in Solicitudes |-> Nulo]
  /\ leida = [s \in Solicitudes |-> Nulo]
  /\ asignado = [s \in Solicitudes |-> Nulo]
  /\ pasoEd = [e \in Ediciones |-> "inicio"]
  /\ objetivo = [e \in Ediciones |-> Nulo]
  /\ entidad = [e \in Ediciones |-> Nulo]
  /\ sucias = [e \in Ediciones |-> {}]
  /\ regresadas = {}

Existe(q) == tabla[q] # Nulo

\* uq_secuencia_empresa_tipo_prefijo_ambiente
ChocaClave(q, fila) ==
  \E p \in Secuencias \ {q} :
    /\ Existe(p)
    /\ tabla[p].tipo = fila.tipo
    /\ tabla[p].prefijo = fila.prefijo
    /\ tabla[p].ambiente = fila.ambiente

-----------------------------------------------------------------------------
(* create: one INSERT, refused by the unique constraint.                   *)

FilaNueva(a, m) ==
  [tipo |-> a.tipo, prefijo |-> a.prefijo, ambiente |-> m, inicio |-> a.inicio,
   fin |-> a.fin, actual |-> a.inicio, activo |-> TRUE]

Crear(q, a, m) ==
  /\ ~Existe(q)
  /\ ~ChocaClave(q, FilaNueva(a, m))
  /\ tabla' = [tabla EXCEPT ![q] = FilaNueva(a, m)]
  /\ UNCHANGED <<varsSolicitud, varsEdicion, regresadas>>

-----------------------------------------------------------------------------
(* asignarSiguiente                                                        *)

Coinciden(t, m) ==
  {q \in Secuencias : Existe(q) /\ tabla[q].tipo = t /\ tabla[q].ambiente = m
                      /\ tabla[q].activo}

\* The transaction opens and its SELECT ... FOR UPDATE takes its snapshot.
Consultar(s, t, m) ==
  /\ fase[s] = "inicio"
  /\ fase' = [fase EXCEPT ![s] = "abierta"]
  /\ candidatas' = [candidatas EXCEPT ![s] = Coinciden(t, m)]
  /\ UNCHANGED <<tabla, dueno, pedida, elegida, leida, asignado, varsEdicion, regresadas>>

\* The scan reaches the next matching row: there is no ORDER BY, and a row that
\* was updated between two snapshots lies elsewhere for the second one, so two
\* statements may meet the same rows in different orders.
Alcanzar(s, q) ==
  /\ fase[s] = "abierta"
  /\ pedida[s] = Nulo
  /\ q \in candidatas[s]
  /\ pedida' = [pedida EXCEPT ![s] = q]
  /\ candidatas' = [candidatas EXCEPT ![s] = @ \ {q}]
  /\ UNCHANGED <<tabla, dueno, fase, elegida, leida, asignado, varsEdicion, regresadas>>

\* Mutant: the condition is not evaluated again once the lock is granted.
VigenteEnLaFoto(q) == TRUE

\* Whether a row still matches once its lock is held; tipo and ambiente never change.
Vigente(q) == tabla[q].activo

\* Mutant: a SELECT without FOR UPDATE does not wait.
LibreSinCerrojo(q) == TRUE

Libre(q) == dueno[q] = Nulo

\* PostgreSQL grants the row lock, one row at a time and while it keeps those it
\* has, and evaluates the condition again; a row that no longer matches is left
\* out of the result but stays locked.  getOne keeps one row of those that do.
Tomar(s) ==
  LET q == pedida[s]
  IN /\ fase[s] = "abierta"
     /\ q # Nulo
     /\ Libre(q)
     /\ dueno' = [dueno EXCEPT ![q] = s]
     /\ pedida' = [pedida EXCEPT ![s] = Nulo]
     /\ IF Vigente(q) /\ elegida[s] = Nulo
        THEN /\ elegida' = [elegida EXCEPT ![s] = q]
             /\ leida' = [leida EXCEPT ![s] = tabla[q]]
        ELSE UNCHANGED <<elegida, leida>>
     /\ UNCHANGED <<tabla, fase, candidatas, asignado, varsEdicion, regresadas>>

\* There is no LIMIT: the statement returns when it has reached every row.
Recorrida(s) == fase[s] = "abierta" /\ candidatas[s] = {} /\ pedida[s] = Nulo

\* Mutant: the transaction ends and its locks stay.
SoltarNada(s) == [p \in Secuencias |-> IF dueno[p] = s THEN s ELSE dueno[p]]

Soltar(s) == [p \in Secuencias |-> IF dueno[p] = s THEN Nulo ELSE dueno[p]]

\* The transaction ends without a number and lets its locks go.
Terminar(s, f) ==
  /\ fase' = [fase EXCEPT ![s] = f]
  /\ dueno' = Soltar(s)
  /\ UNCHANGED <<tabla, candidatas, pedida, elegida, leida, asignado, varsEdicion,
                 regresadas>>

\* 409: none of the rows was active when its lock was granted.
SinSecuencia(s) ==
  /\ Recorrida(s)
  /\ elegida[s] = Nulo
  /\ Terminar(s, "rechazada")

\* 409: the range is exhausted; the transaction rolls back.
Agotada(s) ==
  /\ Recorrida(s)
  /\ elegida[s] # Nulo
  /\ leida[s].actual > leida[s].fin
  /\ Terminar(s, "rechazada")

\* numero_actual + 1 is saved and committed, and the e-NCF is returned.
Confirmar(s) ==
  LET q == elegida[s]
  IN /\ Recorrida(s)
     /\ q # Nulo
     /\ leida[s].actual <= leida[s].fin
     /\ tabla' = [tabla EXCEPT ![q] = [@ EXCEPT !.actual = leida[s].actual + 1]]
     /\ asignado' = [asignado EXCEPT ![s] =
                       [sec |-> q, prefijo |-> leida[s].prefijo,
                        numero |-> leida[s].actual, ambiente |-> leida[s].ambiente]]
     /\ fase' = [fase EXCEPT ![s] = "asignada"]
     /\ dueno' = Soltar(s)
     /\ UNCHANGED <<candidatas, pedida, elegida, leida, varsEdicion, regresadas>>

\* The server stops, or the connection is lost, with the transaction open.
Caer(s) == fase[s] = "abierta" /\ Terminar(s, "caida")

\* The transaction that holds the row s asks for, or Nulo.
Estorba(s) == IF pedida[s] = Nulo THEN Nulo ELSE dueno[pedida[s]]

\* Mutant: nobody looks for circular waits.
EnCicloIgnorado(s) == FALSE

\* s belongs to a set of transactions each of which waits for another of the set.
EnCiclo(s) == \E C \in SUBSET Solicitudes : s \in C /\ C = {Estorba(r) : r \in C}

\* PostgreSQL detects the circular wait and aborts one of its transactions: the
\* QueryFailedError is answered as a 500, and nothing retries it.
Abortar(s) ==
  /\ fase[s] = "abierta"
  /\ EnCiclo(s)
  /\ Terminar(s, "abortada")

-----------------------------------------------------------------------------
(* update, and deactivate, whose DTO is [activo |-> FALSE]                 *)

Definido(valor, omision) == IF valor = Nulo THEN omision ELSE valor

\* fila with its four editable columns replaced.
ConColumnas(fila, activo, prefijo, fin, actual) ==
  [tipo |-> fila.tipo, prefijo |-> prefijo, ambiente |-> fila.ambiente,
   inicio |-> fila.inicio, fin |-> fin, actual |-> actual, activo |-> activo]

Aplicar(fila, d) ==
  ConColumnas(fila, Definido(d.activo, fila.activo), Definido(d.prefijo, fila.prefijo),
              Definido(d.fin, fila.fin), Definido(d.actual, fila.actual))

\* findOne does not lock; the DTO is applied to the entity at once.
Leer(e, q, d) ==
  /\ pasoEd[e] = "inicio"
  /\ Existe(q)
  /\ objetivo' = [objetivo EXCEPT ![e] = q]
  /\ entidad' = [entidad EXCEPT ![e] = Aplicar(tabla[q], d)]
  /\ pasoEd' = [pasoEd EXCEPT ![e] = "leida"]
  /\ UNCHANGED <<tabla, varsSolicitud, sucias, regresadas>>

\* save re-reads the row: the columns that differ are the ones it will write.
Comparar(e) ==
  /\ pasoEd[e] = "leida"
  /\ sucias' = [sucias EXCEPT ![e] =
                  {c \in Columnas : entidad[e][c] # tabla[objetivo[e]][c]}]
  /\ pasoEd' = [pasoEd EXCEPT ![e] = "comparada"]
  /\ UNCHANGED <<tabla, varsSolicitud, objetivo, entidad, regresadas>>

FilaEscrita(e) ==
  LET base == tabla[objetivo[e]]
      Valor(c, enEntidad, enBase) == IF c \in sucias[e] THEN enEntidad ELSE enBase
  IN ConColumnas(base, Valor("activo", entidad[e].activo, base.activo),
                 Valor("prefijo", entidad[e].prefijo, base.prefijo),
                 Valor("fin", entidad[e].fin, base.fin),
                 Valor("actual", entidad[e].actual, base.actual))

\* Mutant: the UPDATE ignores row locks.
UpdateSinEspera(e) == TRUE

\* The UPDATE waits for the row lock; with no column to write there is none.
PuedeEscribir(e) == sucias[e] = {} \/ dueno[objetivo[e]] = Nulo

\* A collision of the unique key is an error and nothing is written.
Escribir(e) ==
  LET q == objetivo[e]
  IN /\ pasoEd[e] = "comparada"
     /\ PuedeEscribir(e)
     /\ pasoEd' = [pasoEd EXCEPT ![e] = "hecha"]
     /\ IF ChocaClave(q, FilaEscrita(e))
        THEN UNCHANGED <<tabla, regresadas>>
        ELSE /\ tabla' = [tabla EXCEPT ![q] = FilaEscrita(e)]
             /\ regresadas' = IF FilaEscrita(e).actual < tabla[q].actual
                              THEN regresadas \union {q} ELSE regresadas
     /\ UNCHANGED <<varsSolicitud, objetivo, entidad, sucias>>

-----------------------------------------------------------------------------
Solicitar(s) ==
  \/ \E t \in Tipos, m \in Ambientes : Consultar(s, t, m)
  \/ \E q \in Secuencias : Alcanzar(s, q)
  \/ Tomar(s)
  \/ SinSecuencia(s)
  \/ Agotada(s)
  \/ Confirmar(s)
  \/ Caer(s)
  \/ Abortar(s)

Editar(e) ==
  \/ \E q \in Secuencias, d \in Dtos : Leer(e, q, d)
  \/ Comparar(e)
  \/ Escribir(e)

Next ==
  \/ \E q \in Secuencias, a \in Altas, m \in Ambientes : Crear(q, a, m)
  \/ \E s \in Solicitudes : Solicitar(s)
  \/ \E e \in Ediciones : Editar(e)

Spec == Init /\ [][Next]_vars

\* A transaction that has been granted what it waits for is not suspended for
\* ever: the event loop and PostgreSQL keep running the steps that are enabled,
\* the deadlock detector of PostgreSQL among them.  Nobody is obliged to send a
\* request.
Avanza(s) ==
  \/ \E q \in Secuencias : Alcanzar(s, q)
  \/ Tomar(s)
  \/ SinSecuencia(s)
  \/ Agotada(s)
  \/ Confirmar(s)
  \/ Abortar(s)

FairSpec ==
  /\ Spec
  /\ \A s \in Solicitudes : SF_vars(Avanza(s))
  /\ \A e \in Ediciones : SF_vars(Comparar(e) \/ Escribir(e))

-----------------------------------------------------------------------------
(* Properties                                                              *)

TypeOK ==
  /\ tabla \in [Secuencias -> Fila \union {Nulo}]
  /\ dueno \in [Secuencias -> Solicitudes \union {Nulo}]
  /\ fase \in [Solicitudes -> Fases]
  /\ candidatas \in [Solicitudes -> SUBSET Secuencias]
  /\ pedida \in [Solicitudes -> Secuencias \union {Nulo}]
  /\ elegida \in [Solicitudes -> Secuencias \union {Nulo}]
  /\ leida \in [Solicitudes -> Fila \union {Nulo}]
  /\ asignado \in [Solicitudes -> Asignacion \union {Nulo}]
  /\ pasoEd \in [Ediciones -> {"inicio", "leida", "comparada", "hecha"}]
  /\ objetivo \in [Ediciones -> Secuencias \union {Nulo}]
  /\ entidad \in [Ediciones -> Fila \union {Nulo}]
  /\ sucias \in [Ediciones -> SUBSET Columnas]
  /\ regresadas \subseteq Secuencias

\* Two requests never receive the same number of a sequence unless an UPDATE has
\* lowered its numero_actual: whatever else administrators do (deactivate and
\* reactivate, move the end of the range, rename the prefix), the row lock of
\* asignarSiguiente hands every number out once.
NumeroUnico ==
  \A s1, s2 \in Solicitudes :
    (s1 # s2 /\ asignado[s1] # Nulo /\ asignado[s2] # Nulo
      /\ asignado[s1].sec = asignado[s2].sec
      /\ asignado[s1].sec \notin regresadas)
    => asignado[s1].numero # asignado[s2].numero

\* A number is handed out only while the row is active, inside the range and at
\* that very number: an administrator cannot deactivate the sequence or shorten
\* its range between the check of asignarSiguiente and its commit.
EntregaVigente ==
  [][\A s \in Solicitudes :
       asignado'[s] # asignado[s] =>
         LET q == asignado'[s].sec
         IN /\ tabla[q].activo
            /\ asignado'[s].numero = tabla[q].actual
            /\ tabla[q].actual <= tabla[q].fin]_vars

\* numero_actual is "the next number to use": it lies beyond every number already
\* handed out from the sequence.  A PATCH that only says activo = false must not
\* change that (requirements 28.1 and 28.4).
ActualEsSiguiente ==
  \A s \in Solicitudes :
    asignado[s] # Nulo => asignado[s].numero < tabla[asignado[s].sec].actual

\* Every request that reached the database is answered, whatever other requests
\* and administrators do: no transaction waits for ever behind another, not even
\* when two of them lock the same rows in opposite orders, one of which is then
\* refused.
TodaSolicitudTermina ==
  \A s \in Solicitudes :
    (fase[s] = "abierta") ~> (fase[s] \in {"asignada", "rechazada", "caida", "abortada"})

\* The abstract counter in terms of the tables.
Siguientes == [q \in Secuencias |-> IF tabla[q] = Nulo THEN Nulo ELSE tabla[q].actual]
Entregados == [s \in Solicitudes |-> IF asignado[s] = Nulo THEN Nulo
                                     ELSE <<asignado[s].sec, asignado[s].numero>>]

Contador == INSTANCE ContadorNcf WITH siguiente <- Siguientes, entregado <- Entregados

\* asignarSiguiente, split into snapshot, one lock per row and commit and interleaved with
\* creates and PATCHes, hands numbers out as if each came from one atomic step.
ImplementaContador == Contador!Spec
=============================================================================
