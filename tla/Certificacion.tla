----------------------------- MODULE Certificacion -----------------------------
(***************************************************************************)
(* The certification set of the DGII (CertificacionService): POST ejecutar *)
(* makes sure the company has numbers and goes through fifteen steps, the  *)
(* first eleven of which issue an invoice; GET progreso-integrador has a   *)
(* criterion for each of those among the invoices a company sent with its  *)
(* API key.  The rows of the sequences belong to an environment: the       *)
(* validation counts any that is active, the missing ones are created for  *)
(* certification, and an invoice takes its number from those of the        *)
(* environment its company is in, which an administrator may change.       *)
(*                                                                         *)
(* An invoice is what the steps and the criteria look at: its type, how    *)
(* many items it has, whether it has a discount, an ITBIS and a reference, *)
(* and whether it came with an API key.  A company has one row of each     *)
(* type and environment, with its type as prefix.  What the polling and    *)
(* the users do to the invoice of step 4 before step 12, and the two       *)
(* statements of step 12, are in CicloFactura.                             *)
(***************************************************************************)
EXTENDS Naturals, FiniteSetsExt

CONSTANTS
  EmpresasSet,    \* companies
  Ejecuciones,    \* runs of the set, each started from the page
  Recorridos,     \* bound: the runs that take place, and the steps they go through
  Situaciones,    \* environment and rows of the sequences a company may start with
  LargoAuto,      \* bound: numbers of an automatic sequence (99999999 in the code)
  MaxIncidentes,  \* bound: steps and creations that fail for another reason, numbers
                  \* taken by requests that are not of the set, and promotions
  Ajenas,         \* bound: the invoices of those requests
  SinRango,       \* no row of the type
  Inactiva,       \* the row of the type is not active
  NoHay

VARIABLES
  recorrido,      \* one of Recorridos
  entorno,        \* entorno[e]: ambiente_dgii of the company
  rango,          \* rango[e][t]: numbers left in the sequence of type t of
                  \* certification, or SinRango or Inactiva
  rangoProd,      \* the same, of those of production
  porDesactivar,  \* companies just promoted whose rows are still active
  ajenas,         \* ajenas[e]: invoices of requests that are not of the set
  faseSet,        \* faseSet[x]: "fuera", "preparando", "creando", "pasos" or "fin"
  duenna,         \* duenna[x]: company of the run
  porCrear,       \* porCrear[x]: sequences to create
  pasoSet,        \* pasoSet[x]: step it is at
  exitosos, omitidos, \* exitosos[x], omitidos[x]: steps; the others failed
  eNcfPaso1,      \* eNcfPaso1[x]: number of the invoice of step 1
  ultimaEjecucion,\* the one result that the service keeps
  incidentes,
  notas,          \* history: notas[x]: references of the notes that were issued
  sinNumero,      \* history: sinNumero[x]: steps that found no number
  mezclada,       \* history: mezclada[x]: others took numbers of its company meanwhile,
                  \* or a sequence it lacked could not be created
  promovidas      \* history: companies that have been in production

ejecucionVars == <<faseSet, duenna, porCrear, pasoSet>>
resultadoVars == <<exitosos, omitidos, eNcfPaso1, notas, sinNumero>>
ambienteVars == <<entorno, porDesactivar, promovidas>>
filasVars == <<rango, rangoProd>>
certificacionVars == <<recorrido, filasVars, ambienteVars, ajenas, ejecucionVars, resultadoVars,
                       ultimaEjecucion, incidentes, mezclada>>

-----------------------------------------------------------------------------
(* The tables of the service                                               *)

TipoDelPaso == <<"E31", "E31", "E31", "E32", "E32", "E33", "E34", "E41", "E43", "E44", "E45">>

DeFactura == DOMAIN TipoDelPaso
Ultimo == 15

\* Mutant: two numbers for the three steps of type E31.
RequeridasCortas == [E31 |-> 2, E32 |-> 2, E33 |-> 1, E34 |-> 1,
                     E41 |-> 1, E43 |-> 1, E44 |-> 1, E45 |-> 1]

SECUENCIAS_REQUERIDAS == [E31 |-> 3, E32 |-> 2, E33 |-> 1, E34 |-> 1,
                          E41 |-> 1, E43 |-> 1, E44 |-> 1, E45 |-> 1]

TiposSet == {TipoDelPaso[n] : n \in DeFactura}

\* What the row of a type may hold.
ValoresDeFila == Nat \union {SinRango, Inactiva}

Entornos == {"certificacion", "produccion"}

Documentos == [tipo : TiposSet, items : Nat, desc : BOOLEAN, itbis : BOOLEAN, ref : BOOLEAN,
               llave : BOOLEAN]

\* A user registers sequences for the environment the company is in.
ASSUME CertificacionAssumption ==
  /\ Recorridos \subseteq [xs : SUBSET Ejecuciones, pasos : (SUBSET (1 .. Ultimo)) \ {{}}]
  /\ {SinRango, Inactiva} \intersect Nat = {} /\ SinRango # Inactiva
  /\ Situaciones \subseteq [entorno : Entornos, cert : [TiposSet -> ValoresDeFila],
                            prod : [TiposSet -> ValoresDeFila]]
  /\ \A s \in Situaciones :
       s.entorno = "certificacion" => \A t \in TiposSet : s.prod[t] \notin Nat
  /\ LargoAuto \in Nat /\ \A t \in TiposSet : LargoAuto >= SECUENCIAS_REQUERIDAS[t]
  /\ MaxIncidentes \in Nat
  /\ Ajenas \subseteq Documentos
  /\ NoHay \notin Ejecuciones

Basica(n) == [tipo |-> TipoDelPaso[n], items |-> 1, desc |-> FALSE, itbis |-> TRUE,
              ref |-> FALSE, llave |-> FALSE]

\* The notes refer to the invoice of step 1.
NotaDebito == [Basica(6) EXCEPT !.ref = TRUE]
NotaCredito == [Basica(7) EXCEPT !.ref = TRUE]

\* buildFacturaDto: the request comes from the session of a user, without an API key.
Dto(n) ==
  CASE n = 6 -> NotaDebito
    [] n = 7 -> NotaCredito
    [] n = 2 -> [Basica(n) EXCEPT !.items = 3]
    [] n = 3 -> [Basica(n) EXCEPT !.desc = TRUE]
    [] n = 5 -> [Basica(n) EXCEPT !.items = 2]
    [] n = 10 -> [Basica(n) EXCEPT !.itbis = FALSE]
    [] OTHER -> Basica(n)

\* Mutant: the criteria do not ask for the API key.
CumpleSinLlave(n, d) ==
  /\ d.tipo = TipoDelPaso[n]
  /\ n = 2 => d.items >= 3
  /\ n = 3 => d.desc
  /\ n = 5 => d.itbis
  /\ n \in {6, 7} => d.ref

\* The query of getProgresoIntegrador for each step that is an invoice.
Cumple(n, d) ==
  /\ d.llave
  /\ d.tipo = TipoDelPaso[n]
  /\ n = 2 => d.items >= 3
  /\ n = 3 => d.desc
  /\ n = 5 => d.itbis
  /\ n \in {6, 7} => d.ref

-----------------------------------------------------------------------------
InitCertificacion ==
  /\ \E f \in [EmpresasSet -> Situaciones] :
       /\ entorno = [e \in EmpresasSet |-> f[e].entorno]
       /\ rango = [e \in EmpresasSet |-> f[e].cert]
       /\ rangoProd = [e \in EmpresasSet |-> f[e].prod]
  /\ porDesactivar = {}
  /\ promovidas = {e \in EmpresasSet : entorno[e] = "produccion"}
  /\ ajenas = [e \in EmpresasSet |-> {}]
  /\ recorrido \in Recorridos
  /\ faseSet = [x \in Ejecuciones |-> IF x \in recorrido.xs THEN "fuera" ELSE "fin"]
  /\ duenna \in [Ejecuciones -> EmpresasSet]
  /\ porCrear = [x \in Ejecuciones |-> {}]
  /\ pasoSet = [x \in Ejecuciones |-> Min(recorrido.pasos)]
  /\ exitosos = [x \in Ejecuciones |-> {}]
  /\ omitidos = [x \in Ejecuciones |-> {}]
  /\ eNcfPaso1 = [x \in Ejecuciones |-> NoHay]
  /\ ultimaEjecucion = NoHay
  /\ incidentes = 0
  /\ notas = [x \in Ejecuciones |-> {}]
  /\ sinNumero = [x \in Ejecuciones |-> {}]
  /\ mezclada = [x \in Ejecuciones |-> FALSE]

\* getEstado has the active rows of both environments; validarRequisitos looks at the
\* first it finds of each type.
Vistos(e, t) ==
  LET activos == {rango[e][t], rangoProd[e][t]} \intersect Nat
  IN IF activos = {} THEN {0} ELSE activos

\* What it may find missing.
Faltantes(e) ==
  {F \in SUBSET TiposSet : \A t \in TiposSet : \E n \in Vistos(e, t) :
                             t \in F <=> n < SECUENCIAS_REQUERIDAS[t]}

\* asignarSiguiente looks at the rows of the environment of the company only.
Restantes(e, t) ==
  LET fila == IF entorno[e] = "certificacion" THEN rango[e][t] ELSE rangoProd[e][t]
  IN IF fila \in Nat THEN fila ELSE 0

Gastar(e, t) ==
  IF entorno[e] = "certificacion"
  THEN rango' = [rango EXCEPT ![e][t] = @ - 1] /\ UNCHANGED rangoProd
  ELSE rangoProd' = [rangoProd EXCEPT ![e][t] = @ - 1] /\ UNCHANGED rango

\* The page found sequences missing and the user has them created: POST preparar.
Preparar(x) ==
  /\ faseSet[x] = "fuera"
  /\ \E F \in Faltantes(duenna[x]) \ {{}} : porCrear' = [porCrear EXCEPT ![x] = F]
  /\ faseSet' = [faseSet EXCEPT ![x] = "preparando"]
  /\ UNCHANGED <<filasVars, ambienteVars, ajenas, duenna, pasoSet, resultadoVars,
                 ultimaEjecucion, incidentes, mezclada>>

\* POST ejecutar: what is missing is created first.  The service validates twice; only
\* the second result counts when the first one lacks something.
Ejecutar(x) ==
  /\ faseSet[x] = "fuera"
  /\ \E F \in Faltantes(duenna[x]) : porCrear' = [porCrear EXCEPT ![x] = F]
  /\ faseSet' = [faseSet EXCEPT ![x] = "creando"]
  /\ UNCHANGED <<filasVars, ambienteVars, ajenas, duenna, pasoSet, resultadoVars,
                 ultimaEjecucion, incidentes, mezclada>>

\* The first of the types of S in the order of the table.
Siguiente(S) ==
  TipoDelPaso[CHOOSE n \in DeFactura :
    TipoDelPaso[n] \in S /\ \A k \in 1 .. n - 1 : TipoDelPaso[k] \notin S]

\* create: the row is of certification, whatever the environment of the company.  Its key
\* is its type as prefix, so a row that is there stays as it is, active or not; that and
\* any other exception is only logged.
CrearFaltante(x) ==
  LET e == duenna[x]
      t == Siguiente(porCrear[x])
  IN /\ porCrear[x] # {}
     /\ porCrear' = [porCrear EXCEPT ![x] = @ \ {t}]
     /\ \/ /\ rango[e][t] = SinRango
           /\ rango' = [rango EXCEPT ![e][t] = LargoAuto]
           /\ UNCHANGED <<incidentes, mezclada>>
        \/ /\ rango[e][t] # SinRango
           /\ mezclada' = [mezclada EXCEPT ![x] = TRUE]
           /\ UNCHANGED <<rango, incidentes>>
        \/ /\ rango[e][t] = SinRango
           /\ incidentes < MaxIncidentes
           /\ incidentes' = incidentes + 1
           /\ mezclada' = [mezclada EXCEPT ![x] = TRUE]
           /\ UNCHANGED rango
     /\ UNCHANGED <<rangoProd, ambienteVars, ajenas, faseSet, duenna, pasoSet, resultadoVars,
                    ultimaEjecucion>>

Preparado(x) ==
  /\ faseSet[x] \in {"preparando", "creando"}
  /\ porCrear[x] = {}
  /\ faseSet' = [faseSet EXCEPT ![x] = IF @ = "creando" THEN "pasos" ELSE "fuera"]
  /\ UNCHANGED <<filasVars, ambienteVars, ajenas, duenna, porCrear, pasoSet, resultadoVars,
                 ultimaEjecucion, incidentes, mezclada>>

-----------------------------------------------------------------------------
(* ejecutarPaso                                                            *)

En(x, pasos) == faseSet[x] = "pasos" /\ pasoSet[x] \in pasos

Avanzar(x) ==
  pasoSet' = [pasoSet EXCEPT ![x] = Min({n \in recorrido.pasos : n > @} \union {Ultimo + 1})]

Anotar1(x, conjunto) == [conjunto EXCEPT ![x] = @ \union {pasoSet[x]}]

\* The other runs of the company that are past their validation.
Vecinas(x) == {y \in Ejecuciones \ {x} : duenna[y] = duenna[x] /\ faseSet[y] # "fuera"}

Mezcladas(ys) == [y \in Ejecuciones |-> mezclada[y] \/ y \in ys]

\* A note without the number of step 1 is not issued.
FaltaReferencia(x) == pasoSet[x] \in {6, 7} /\ eNcfPaso1[x] = NoHay

\* crearFactura returns, whatever the DGII said: the step is a success.
PasoFactura(x) ==
  LET e == duenna[x]
      n == pasoSet[x]
      t == TipoDelPaso[n]
  IN /\ En(x, DeFactura)
     /\ ~FaltaReferencia(x)
     /\ Restantes(e, t) > 0
     /\ Gastar(e, t)
     /\ exitosos' = Anotar1(x, exitosos)
     /\ eNcfPaso1' = IF n = 1 THEN [eNcfPaso1 EXCEPT ![x] = <<e, t, Restantes(e, t)>>] ELSE eNcfPaso1
     /\ notas' = IF Dto(n).ref THEN [notas EXCEPT ![x] = @ \union {eNcfPaso1[x]}] ELSE notas
     /\ mezclada' = Mezcladas(Vecinas(x))
     /\ Avanzar(x)
     /\ UNCHANGED <<ambienteVars, ajenas, faseSet, duenna, porCrear, omitidos, sinNumero,
                    ultimaEjecucion, incidentes>>

\* 409: no active sequence of the environment of the company has a number.
PasoSinNumero(x) ==
  /\ En(x, DeFactura)
  /\ ~FaltaReferencia(x)
  /\ Restantes(duenna[x], TipoDelPaso[pasoSet[x]]) = 0
  /\ sinNumero' = Anotar1(x, sinNumero)
  /\ Avanzar(x)
  /\ UNCHANGED <<filasVars, ambienteVars, ajenas, faseSet, duenna, porCrear, exitosos, omitidos,
                 eNcfPaso1, notas, ultimaEjecucion, incidentes, mezclada>>

\* Any other exception: an invoice that took its number, or one that did not, and
\* whatever fails in steps 12 to 15.
PasoFallido(x) ==
  LET e == duenna[x]
  IN /\ En(x, 1 .. Ultimo)
     /\ ~FaltaReferencia(x)
     /\ incidentes < MaxIncidentes
     /\ incidentes' = incidentes + 1
     /\ \/ UNCHANGED <<filasVars, mezclada>>
        \/ /\ pasoSet[x] \in DeFactura
           /\ Restantes(e, TipoDelPaso[pasoSet[x]]) > 0
           /\ Gastar(e, TipoDelPaso[pasoSet[x]])
           /\ mezclada' = Mezcladas(Vecinas(x))
     /\ Avanzar(x)
     /\ UNCHANGED <<ambienteVars, ajenas, faseSet, duenna, porCrear, resultadoVars,
                    ultimaEjecucion>>

\* Steps 6 and 7 without the number of step 1, step 12 unless the polling has approved
\* the invoice of step 4 by then, step 13 without the invoice of step 1.
PasoOmitido(x) ==
  /\ \/ En(x, {6, 7}) /\ FaltaReferencia(x)
     \/ En(x, {12})
     \/ En(x, {13}) /\ 1 \notin exitosos[x]
  /\ omitidos' = Anotar1(x, omitidos)
  /\ Avanzar(x)
  /\ UNCHANGED <<filasVars, ambienteVars, ajenas, faseSet, duenna, porCrear, exitosos, eNcfPaso1,
                 notas, sinNumero, ultimaEjecucion, incidentes, mezclada>>

\* Step 12 marks the invoice of step 4, 13 reads that of step 1, 14 registers and
\* approves a received invoice, 15 reads the sequences.
PasoDeConsulta(x) ==
  /\ \/ En(x, {12}) /\ 4 \in exitosos[x]
     \/ En(x, {13}) /\ 1 \in exitosos[x]
     \/ En(x, {14, 15})
  /\ exitosos' = Anotar1(x, exitosos)
  /\ Avanzar(x)
  /\ UNCHANGED <<filasVars, ambienteVars, ajenas, faseSet, duenna, porCrear, omitidos, eNcfPaso1,
                 notas, sinNumero, ultimaEjecucion, incidentes, mezclada>>

\* The result replaces that of the last run, of whichever company.
TerminarSet(x) ==
  /\ faseSet[x] = "pasos" /\ pasoSet[x] = Ultimo + 1
  /\ faseSet' = [faseSet EXCEPT ![x] = "fin"]
  /\ ultimaEjecucion' = x
  /\ UNCHANGED <<filasVars, ambienteVars, ajenas, duenna, porCrear, pasoSet, resultadoVars,
                 incidentes, mezclada>>

\* A request of the company that is not of the set issues an invoice.
TomarAjena(e, d) ==
  /\ incidentes < MaxIncidentes
  /\ Restantes(e, d.tipo) > 0
  /\ incidentes' = incidentes + 1
  /\ Gastar(e, d.tipo)
  /\ ajenas' = [ajenas EXCEPT ![e] = @ \union {d}]
  /\ mezclada' = Mezcladas({y \in Ejecuciones : duenna[y] = e /\ faseSet[y] # "fuera"})
  /\ UNCHANGED <<ambienteVars, ejecucionVars, resultadoVars, ultimaEjecucion>>

\* promoverAProduccion, in two statements: the company goes to production, and the rows
\* of certification are no longer active.
PromoverEmpresa(e) ==
  /\ incidentes < MaxIncidentes
  /\ entorno[e] = "certificacion"
  /\ incidentes' = incidentes + 1
  /\ entorno' = [entorno EXCEPT ![e] = "produccion"]
  /\ porDesactivar' = porDesactivar \union {e}
  /\ promovidas' = promovidas \union {e}
  /\ UNCHANGED <<filasVars, ajenas, ejecucionVars, resultadoVars, ultimaEjecucion, mezclada>>

DesactivarRangos(e) ==
  /\ e \in porDesactivar
  /\ porDesactivar' = porDesactivar \ {e}
  /\ rango' = [rango EXCEPT ![e] =
                 [t \in TiposSet |-> IF @[t] = SinRango THEN SinRango ELSE Inactiva]]
  /\ UNCHANGED <<rangoProd, entorno, promovidas, ajenas, ejecucionVars, resultadoVars,
                 ultimaEjecucion, incidentes, mezclada>>

PasoDelSet(x) ==
  \/ Preparar(x) \/ Ejecutar(x) \/ CrearFaltante(x) \/ Preparado(x)
  \/ PasoFactura(x) \/ PasoSinNumero(x) \/ PasoFallido(x) \/ PasoOmitido(x) \/ PasoDeConsulta(x)
  \/ TerminarSet(x)

NextCertificacion ==
  /\ UNCHANGED recorrido
  /\ \/ \E x \in Ejecuciones : PasoDelSet(x)
     \/ \E e \in EmpresasSet, d \in Ajenas : TomarAjena(e, d)
     \/ \E e \in EmpresasSet : PromoverEmpresa(e) \/ DesactivarRangos(e)

SpecCertificacion == InitCertificacion /\ [][NextCertificacion]_certificacionVars

-----------------------------------------------------------------------------
(* Properties                                                              *)

TypeOKCertificacion ==
  /\ entorno \in [EmpresasSet -> Entornos]
  /\ rango \in [EmpresasSet -> [TiposSet -> ValoresDeFila]]
  /\ rangoProd \in [EmpresasSet -> [TiposSet -> ValoresDeFila]]
  /\ porDesactivar \subseteq promovidas /\ promovidas \subseteq EmpresasSet
  /\ ajenas \in [EmpresasSet -> SUBSET Ajenas]
  /\ faseSet \in [Ejecuciones -> {"fuera", "preparando", "creando", "pasos", "fin"}]
  /\ duenna \in [Ejecuciones -> EmpresasSet]
  /\ porCrear \in [Ejecuciones -> SUBSET TiposSet]
  /\ pasoSet \in [Ejecuciones -> 1 .. Ultimo + 1]
  /\ exitosos \in [Ejecuciones -> SUBSET (1 .. Ultimo)]
  /\ omitidos \in [Ejecuciones -> SUBSET (1 .. Ultimo)]
  /\ ultimaEjecucion \in Ejecuciones \union {NoHay}
  /\ incidentes \in Nat
  /\ sinNumero \in [Ejecuciones -> SUBSET DeFactura]
  /\ mezclada \in [Ejecuciones -> BOOLEAN]

\* getProgresoIntegrador: the steps whose criterion an invoice of the company meets.
Progreso(e) ==
  LET propias == UNION {exitosos[x] : x \in {y \in Ejecuciones : duenna[y] = e}}
      facturas == {Dto(n) : n \in propias \intersect DeFactura} \union ajenas[e]
  IN {n \in DeFactura : \E d \in facturas : Cumple(n, d)}

\* A run that nobody disturbs, of a company that has not been in production, never stops
\* for lack of numbers: the quantities it makes sure of beforehand are those its steps
\* take, failures that spend a number included.  Disturbed means that another request
\* took numbers of its company, or that a missing sequence could not be created.  Its
\* notes refer to the invoice of its own step 1.  And what it issues is not taken for the
\* progress of an integrator: that is what the other requests of the company sent.
SetCompleto ==
  /\ \A x \in Ejecuciones :
       /\ sinNumero[x] # {} => mezclada[x] \/ duenna[x] \in promovidas
       /\ notas[x] \subseteq {eNcfPaso1[x]}
  /\ \A e \in EmpresasSet :
       Progreso(e) = {n \in DeFactura : \E d \in ajenas[e] : Cumple(n, d)}
=============================================================================
