# e-NCF gateway: specifications, model checking and proofs

This directory holds TLA+ specifications of the e-NCF gateway (electronic fiscal
invoices for the Dominican DGII), the TLC configurations that check them, and theorems
about them that TLAPS proves. Paths below are relative to the repository. The names of
the modules, actions and variables are the ones of the source, which is in Spanish.

    tlc -workers 2 -config MCSecuenciasNcf.cfg MCSecuenciasNcf.tla     # one run
    tlapm SecuenciasNcfProofs.tla                                      # one proof module

`PROJECT.json` lists components, runs, mutants (the plausible bug each property
detects), the lines every definition stands for, findings, hazards and theorems.

## 1. Inventory

The backend is one NestJS process (several may run) over PostgreSQL (TypeORM, READ
COMMITTED), Redis and S3 storage. The DGII is reached over HTTPS. A web client, a mobile
application and a Windows print bridge call the API. Concurrency is between the `await`s
of requests, timers and instances; the database is the only shared state that survives.

| Component | State | Operations | Interacts with | Hard behaviour | Correct when |
|---|---|---|---|---|---|
| e-NCF sequences (`src/modules/secuencias-ncf`) | rows of `secuencias_ncf` | create, deactivate, update, asignarSiguiente, list, getEstado | invoices, batch, certification ask for numbers | `SELECT ... FOR UPDATE` against unlocked read-modify-save | a number is issued once, from an active row, inside its range; numero_actual is ahead of what was issued |
| Invoice issuing (`src/modules/facturas`, `src/dgii/transmision.service.ts`) | rows of `facturas_electronicas`; local state of a request with 14 steps | crearFactura, transmitir, 401 renewal | plans, sequences, RNC, XML, signature, storage, token, breaker, DGII | every step may fail or lose its answer; nothing is transactional | the row never shows a decision the DGII did not take; a failed transmission is resumed |
| Polling (`src/dgii/estado-polling.service.ts`) | list of the cycle | a cycle every 5 min | DGII status, invoices, webhooks | overlapping cycles, stale list, restarts | accepted invoices reach their final state once; final states stay |
| Annulment (`facturas.controller.ts`, `src/dgii/anulacion.service.ts`) | estado_dgii, audit log | POST :id/anular | breaker, DGII, audit | lost confirmation | ANULADO and its audit entry only if the DGII annulled |
| Circuit breaker (`src/dgii/circuit-breaker.service.ts`) | opossum state, rolling window | execute, getState | transmission, polling, annulment | calls that outlive a state; timers due together | no call while OPEN, one trial in HALF-OPEN, always leaves OPEN |
| Plans and usage (`src/modules/planes`) | `uso_mensual`, plan of the company, limits | verificarLimite, incrementarUso, getUsoActual, cambiarPlan, editarPlan | issuing, administration, accountants | check-then-act, first row of the month, rollover, stale save | never counts more than issued, counts every invoice, bounded excess |
| Token and seed (`token.service.ts`, `semilla.service.ts`) | token cached per company | obtain, invalidate | Redis, DGII, signature | concurrent renewals; one key for calls that may be for two environments | a call is refused for its token only when the DGII, Redis or another call explains it |
| Webhooks (`src/modules/webhooks`) | `webhooks`: activo, fallos_consecutivos | crear, desactivar, probar, disparar | polling | deliveries last up to 170 s and save a stale entity | a deactivated webhook stays so; none is given up before ten failed deliveries; every delivery ends |
| Authentication and users (`src/modules/auth`, `src/modules/users`) | lockout columns, refresh tokens, users | login, refresh, logout, create, update | clients | read-modify-save, find-then-revoke, count-then-save | no lockout before five failures; sessions do not multiply; a deactivated user has none; the company keeps an administrator |
| API keys and devices | `api_keys`, `dispositivos` | create, rotate, revoke, register, deactivate | every request, plans | count-then-insert, rotation in two statements | keys do not multiply; devices stay within the plan |
| Retry queue (`src/infrastructure/queue`) | BullMQ jobs, the worker and its pause | enqueue, process, pause, mark | transmission, breaker | not wired to any module; the worker saves while crearFactura saves | a row that a job made final is backed by the answer of that job |
| Reception, commercial approval | `facturas_recibidas` | receive, approve, reject | DGII | transmit before save, no check of the state | the row says what the DGII was last told |
| Accountants (`src/modules/contador`) | accountants, assignments, monthly invoices | link, unlink, change of plan, billing and suspension jobs | plans, companies | find-then-create, several instances, stale links | one invoice per accountant and month; a suspended company stays so; both plans agree |
| Certification set (`certificacion.service.ts`) | sequences of the company, progress, one result for all companies | ejecutar with 15 steps, progreso-integrador | sequences, issuing, annulment | counts numbers of any environment before it takes those of one; runs that overlap | an undisturbed run of a company in certification has the numbers its steps take; it does not count as the progress of an integrator |
| Batch (`batch-facturas.service.ts`, `FacturasBatch.tsx`) | result per row, the file in the page | validar, emitir | issuing | partial failure, lost answer, a CSV cut at its separators | each valid group is issued once and every row is reported |
| Companies and onboarding (`empresas`, `onboarding`, `Onboarding.tsx`) | row of the company: certificate, configuration, plan, ambiente; its registration | upload, configure, change plan, promote, register | signature, plans | stale saves; registration in one transaction after a look-up | the certificate opens with its own password; a registration is entire |
| Rate limit (`rate-limit.guard.ts`) | window per user in Redis, bucket in memory | canActivate | Redis | counts and then adds | the excess is bounded by the requests that overlap |
| XML conversion and signature (`src/dgii/conversor-xml.service.ts`) | schema in use | convert, choose summary or complete, poll the XSD | issuing | rounding with a tolerance; a file that changes while it is read | a valid request converts; the schema in use is that of the file |
| RNC (`rnc-validator.service.ts`) | cache, local table | validate, import | issuing, catalogue | stale cache, table emptied by its import | a receiver said active was active recently |
| Print bridge (`print-bridge`) | folder, pending queue on disk | pick, send, queue, resend | API | crash between move and send, two processors, timeouts | one invoice per ticket |
| Clients (`client`, `mobile`) | session tokens shared by tabs, forms | pages | API | late answers, tabs, lost answers | what is shown is what is signed, issued and sent |
| Guards, filters, audit, reports, admin, health, adapters | none or append-only | | | | |

## 2. Modules and plan

| Module | Models | State |
|---|---|---|
| `ContadorNcf` | promise of the sequences: a number is read and passed in one step | done |
| `SecuenciasNcf`, `SecuenciasNcfProofs` | the sequences, as coded; implements `ContadorNcf` | done, proved |
| `EstadoFactura` | promise of `estado_dgii` next to the DGII | done |
| `CicloFactura`, `CicloFacturaProofs` | issuing, polling, annulment, restarts; implements `EstadoFactura` with one cycle | done, proved |
| `InterruptorDgii` | promise of the breaker | done |
| `CircuitBreaker` | the breaker, as configured; implements `InterruptorDgii` | done, proved |
| `PlanesUso`, `PlanesUsoProofs` | the monthly quota | done, proved |
| `ColaReintentos` | the retry queue, its worker, and the save of crearFactura around it | done, proved |
| `Importes`, `Comprobantes` | amounts: their arithmetic, and their way from the request to the document sent | done, proved |
| `FormularioFactura` | the invoice form of the web client | done, proved |
| `Certificacion` | the certification set and the criteria of the integrator mode | done, proved |
| `Lotes` | batches: the file, its validation, its issue and the page | done, proved |
| `Rnc` | validation of a receiver with its three sources | done, proved |
| `TokenDgii` | seed, cached token and its renewal after a 401 | done, proved |
| `Recibidas` | received invoices and their commercial approval | done, proved |
| `Webhooks` | deliveries, counter of failures, deactivation | done, proved |
| `Impresion` | the print bridge: folder, pipeline, pending queue, rounds, restarts | done, proved |
| `EsquemaXsd` | the XSD that is replaced while the server polls it | done, proved |
| `Sesiones` | lockout, refresh tokens, users | done, proved |
| `SesionWeb` | the tabs of a browser over one localStorage | done, proved |
| `Equipos`, `LlavesApi` | devices under the limit of the plan; API keys | done, proved |
| `LimiteSolicitudes` | the sliding window of requests | done, proved |
| `Cuentas`, `EquipoContador` | accountants: billing and suspension; registration, team and access | done, proved |
| `Empresa`, `Onboarding` | the row of a company and its writers; its registration | done, proved |
| `ServiciosProofs` | proofs about webhooks, print bridge, breaker and XSD, and `MCServicios` | |
| `DocumentosProofs` | proofs about amounts, form, batch, certification, queue, RNC, token, received | |
| `MCEmisionProofs` | that what is proved of those and of the quota holds in `MCEmision` | |
| `AccesoProofs`, `MCAccesoProofs` | proofs about the components of `MCAcceso`, and together | |

`MCSecuenciasNcf`, `MCCicloFactura`, `MCPlanesUso`, `MCComprobantes`, `MCFormulario` and
`MCImpresion` instantiate one component. `MCEmision` (quota to received invoices in the
table), `MCServicios` (webhooks, print bridge, breaker, XSD) and `MCAcceso` (the last six
rows) put together components that share no variable.

What the plan has left, most important first:

1. Lemmas a reader may want on their own: that `Redondeos` gives the nearest cent, that a
   batch issues its groups in the order of their rows, that the wizard of a registration
   returns to its form only after an answer.
2. The promise of more components as an abstract specification that they implement, as
   the sequences, the invoices and the breaker do: the batch (one invoice per group) and
   the webhooks (on, off, ended) are the next.
3. The amounts of a monthly invoice (`calcularFactura`), a pure sum over the plans.
4. The catalogue and the remaining pages, if they come to keep state over time.

## 3. What each module models

**SecuenciasNcf.** `tabla` is the committed table; a row lock is `dueno[q]`. A request
goes `Consultar` (the statement takes its snapshot) - `Alcanzar` (the scan meets the next
row, in any order: there is no ORDER BY, and an updated row lies elsewhere for a later
snapshot) - `Tomar` (its lock is granted, while the locks it has are kept; PostgreSQL
evaluates the condition again, and a row that no longer matches stays locked; `getOne`
keeps any row that does) - and, when every row has been reached, `Confirmar`, `Agotada` or
`SinSecuencia`. Two requests may hold a row each and wait for the other: PostgreSQL's
detector aborts one of them (`Abortar`), which is a 500 that nobody retries; without the
detector TodaSolicitudTermina fails. A request may die at any point (`Caer`). A PATCH is
`Leer` (findOne and the DTO applied), `Comparar` (TypeORM's save re-reads the row: the
columns that differ are the ones it will write) and `Escribir`, which waits for the row
lock, the only one it asks for, so that it belongs to no circular wait; `deactivate` is
the PATCH `activo = false`.
Numbers are naturals: the columns are bigint and `Number()` is exact below 2^53. Saves of
TypeORM are external and modelled from their use.

**CicloFactura.** `fase[f]` follows crearFactura; the steps before its first save, which
change nothing of the invoice, are `Rechazar` and `Guardar` (the number and the quota they
use up are the two other modules). `transmitir` is `NoSale`, or `Llega` followed by
`Contesta` or `SeCorta`, once more after a 401 (`Renovar`). The DGII is `dgii[f]`;
a message given up may still be processed later (`rezagadas`, `LlegarTarde`). A polling
cycle reads its list once and then, for each invoice, consults, updates by id and fires
the webhook in three steps, any of which may fail. The annulment has five. `Caer` stops
the process at any point and keeps the table. A 4xx of the DGII is taken as its refusal of
the document, as the code does.

**CircuitBreaker.** opossum is external: `fire`, `success`, `fail`, `open`, `halfOpen` and
the rolling window, driven by CB_OPTIONS. Time advances in ticks, and a timer that is due
fires first; of two timers due together the older does (Node runs timers of equal duration
in the order they were set). `Disparar` is `execute`: 503 while OPEN, else `fire`.

**PlanesUso.** `verificarLimite` and `incrementarUso` each find or create the row of the
month of their own clock; creating takes two steps, so that two requests can both find it
missing. The increment is one UPDATE. `getUsoActual` and `cambiarPlan` save an entity
they read before, with the same model of TypeORM's save as in SecuenciasNcf. `editarPlan`
and the accountants' `cambiarPlanEmpresa` change the limits without touching the usage.

**Webhooks.** A delivery (`entregarWebhook`) is the pair of a call and a webhook:
`Empezar` keeps the row the query read, `Reintentar` is one attempt more, `Acertar` or
`Fracasar` changes the row in memory, and save is two steps, `CompararEntrega` and
`EscribirEntrega`. `desactivar` is `LeerBaja`, `CompararBaja`, `EscribirBaja`. The server
may stop at any point. Which webhooks listen to an event is any subset of the active ones.

**TokenDgii.** One company, its cache key and the environment it is in. `AmbientesDe` is
what each call is given: a transmission (`transmitir`) the environment of the company, a
status query or an annulment that of the invoice, which may be an earlier one, and a
direct transmission (`transmitirDirecto`, called only by the worker of the retry queue)
none, which means certification wherever the company is. A call asks (`BuscarToken`),
requests the seed (`PedirSemilla`: an answer is refused unless its tags close in order,
which `PilaAssumption` compares with the grammar), negotiates if the key is missing,
keeps the token and uses it; the answer is a 401 unless the token is of the environment
and of the present `epoca`, the number of times the DGII has ended its tokens. Only
transmissions, direct or not, delete the key and try again. `Promover` changes the
environment and leaves the key where it is, as the code does, and a stale save of the
company (see Empresa) may undo it (`Despromover`). The one key does no harm until calls
for two environments share it or the DGII ends tokens (SinRechazosGratuitos): with a
direct transmission that takes no promotion. TTL, failures of Redis at each of its three
uses and failures of the handshake may happen at any point.

**Recibidas.** Every row is on its own. A decision reads the row, transmits, and saves in
two steps; `acusada` is what the DGII confirmed last, also when the answer was lost.

**Sesiones.** Users of a company and super administrators follow one model of login: the
read with its lockout, the clearing of an expired lockout, the password, the save of the
counters, the new token. `GuardarFicha` revokes before `LeerTitular` looks at the user, as
`refresh` does. `update` counts the administrators in a step of its own, and its
deactivation ends the tokens in the same transaction as the row (`Escribir`). Time passes
in units of 15 minutes, the length of the window and of the lockout. Two updates that
overlap, each seeing the other's administrator, do leave a company without one: the code
does so, and HayAdministrador excludes it (`cruce`) and shows that nothing else does.

**Equipos, LlavesApi.** `registrar` is read of the plan, search, and then reactivation, or
count and insert; the unique key of company and machine refuses a second row. `rotate` is
read, revocation and new key, and may be interrupted between the last two.

**Cuentas.** `crearEmpresa` and `cambiarPlanEmpresa` write two tables in two statements.
The job of day 1 goes through the accountants, searching and inserting in different steps,
in as many instances as run it; the job of day 6 turns an invoice vencida and the active
links of its accountant off. The calendar has the two days on which jobs start and only
advances when none runs. Requests that know nothing of links save the whole row of a
company (`LeerEmpresa`, `CompararEmpresa`, `EscribirEmpresa`): a change of plan of
PlanesService (`Asignaciones`), and an upload of the certificate, the configuration or the
promotion (`Ediciones`), whose stale copy puts the plan of before back over
`cambiarPlanEmpresa`. PlanAcorde excludes the companies where that, or a change outside
the accountant, happened (`descuadradas`). FacturaUnica excludes the months in which two
runs of the job overlapped: they do insert two invoices, as the table has no unique key.

**ColaReintentos.** `fila[c]` is the row, `emisor[c]` where crearFactura is once its
transmission was queued: step 12 saves REINTENTANDO (`GuardarReintentando`) whatever the
worker has written. A job is taken (`Atender`), answered or failed, written (`Anotar`) and
completed; an exhausted job marks its row in a step of its own (`MarcarFallido`). The
worker pauses itself when the breaker opens and nothing resumes it but a restart. An
attempt that finds the breaker OPEN fails like any other, so BullMQ counts it and it may
be the one that exhausts the job: FinalJustificado counts it as the code does, although
two comments say that it must not count (section 5). The
deployed program does not provide the queue, and that is what `CicloFactura` models.

**Importes, Comprobantes.** Amounts are whole numbers of 1/100000 of a peso, so that a
line and its ITBIS are exact. The program computes with doubles: where the exact value
falls on half a cent or on the tolerance, both outcomes are taken. A request declares
any of the three amounts or none, off by the cents of `Desvios`; `Comprobantes` follows
it through CreateFacturaSchema, crearFactura and the totals of the XML to the document
that is sent.

**FormularioFactura.** Lookups of names are in flight while the RNC changes;
`nombreForm` is the taxpayer whose name is in the form. The POST may be refused, or its
answer lost.

**Certificacion.** A run prepares the sequences (it counts numbers, creates what is
missing one by one) and goes through the fifteen steps; other requests take numbers of
the same ranges (`TomarAjena`), and runs of one company may overlap. The rows belong to
an environment: the validation counts an active row of any (`Vistos`), the missing ones
are created for certification (`CrearFaltante`), and an invoice takes its number from
those of the environment its company is in (`Restantes`). An administrator may promote
the company meanwhile, in two statements (`PromoverEmpresa`, `DesactivarRangos`). So the
validation guarantees the numbers of a company in certification only, and SetCompleto
says that (section 5 has the others). An invoice is what the steps and the criteria look
at, the API key included: those of a run have none, so no criterion of
progreso-integrador is met by them. A company has one row of each type and environment,
whose prefix is the type; its mode is automatic; a step reads the environment and takes
its number in one action, and a stale save that restores the environment is left to
`Empresa`.

**Lotes.** A file is a sequence of lines of cells; a cell of a CSV is cut at the
separators inside it, one of an Excel is not. Reading, required columns, validation of
rows, groups and their issue one by one follow the code, and the page keeps the file it
validated. Rows are sets of line numbers, and their order is that of the numbers: the
prover can reason about a least number, and not about `SelectSeq`.

**Rnc.** The DGII changes a contributor at any time, its web service may fail, the import
empties the table and fills it again in two steps, and an answer is cached for 24 h, two
steps of the clock.

**Impresion.** A ticket is in the folder, in the hands of the reader, in a slot of the
pending queue (the file has the JobId of the ticket, so two tickets may share it) or
gone. A round lists the queue once and sends job after job; the timer's and a user's may
overlap. A template is what it takes from the text as items. A failed call may have
issued.

**EsquemaXsd.** A write of the file empties it and then fills it; a load is statSync and
readFileSync, between which the file may change; mtimes may coincide.

**SesionWeb.** localStorage is shared by the tabs, and a tab has three tokens: the one of
AuthContext (`accessToken`), the one the effects of Layout read when `isAuthenticated`
changed (`muestra`: the name, the selector and the state it shows) and the one a page read
when it was drawn (`leido`, with which the panel of accountants, the reports and the batch
sign). A login over an open session changes the first and not the second (`encima`); what
another tab writes reaches none of them (`ajeno`). A change of company stores its token
and goes to `/dashboard`, which is outside the application under `/app` (`IrADashboard`):
the tab shows nothing of it until the user opens it again (`Abrir`). Storing and leaving
are one action. Calls in flight come back in any order, and a 401 or a logout clears the
token of every tab. After an ordinary logout and login the alert of the certificate, the
list of companies and `permiteApi` may stay from the session before when their requests
fail; no property is about them.

**LimiteSolicitudes.** `canActivate` removes, counts and adds in calls of its own, and
falls back to a bucket in memory when one of them throws.

**EquipoContador.** A call about several companies checks each against the links in a step
of its own (`Revisar`), then saves (`GuardarEquipo`) or signs a token (`FirmarContexto`);
links are made by `Enlazar` and ended by `Desenlazar`, those of `Cuentas` without plans.

**Empresa, Onboarding.** Four kinds of writer read the row of a company, change it in
memory and save; the save is that of SecuenciasNcf. A registration looks the RNC and the
e-mail up, and inserts company and user in one transaction that waits for the unique
indexes. `UsersService.create` and the accountants' `crearEmpresa` write to the same two
indexes and are left out of it; the latter inserts a company with no user, so that
AltaEntera is about the companies registered by the wizard and no others.

## 4. Runs

| Run | Shows |
|---|---|
| `secuencias` | numbers are unique unless a PATCH lowers numero_actual; handed out only from active rows and inside the range; every request ends, circular waits for row locks included; the service implements a one-step counter |
| `secuencias_regresion` (violation) | a PATCH of `activo` alone puts an old numero_actual back |
| `ciclo` | states, audit and webhooks agree with the DGII; a single notice; refinement of EstadoFactura; accepted invoices conclude |
| `ciclo_reintento` (violation) | REINTENTANDO is never left |
| `ciclo_solapado` (violation) | overlapping cycles turn ANULADO back into APROBADO |
| `planes_contador` (violation) | a stale save loses an increment |
| `emision` | the counter of the quota and its excess; a row is final only as its job was answered; complete or summary by the threshold; the name belongs to the RNC; a certification run nobody disturbs has the numbers it takes; a batch issues each group once; token failures have a named reason; received invoices agree with the DGII; a receiver was active recently |
| `comprobantes_redondeo` (violation) | a valid request is refused by the check of its own XML |
| `formulario_total` (violation) | the discount the form shows is not in the invoice |
| `servicios` | a webhook ended in peace stays ended, none is given up early, deliveries end; a ticket has two invoices or none only for a named reason, and the pending ones leave; the trial decides alone, the breaker implements its promise and leaves each state; a schema that is not in use is noticed, and comes into use |
| `impresion_sin_cola` (violation) | built as in Program.cs, a ticket whose call fails is nowhere |
| `acceso` | the company keeps an administrator; users, members and accountants lose what was taken from them; sessions, devices, keys and requests exceed their limits only by overlapping calls; one invoice per accountant and month; a suspended company stays so; both plans agree; a company can sign and its registration is entire; a tab signs for the company it shows, but for logins over a session and other tabs |

`emision`, `servicios` and `acceso` compose components that share no variable. The
variable `parte`, chosen at the start, says which of them moves: interleaving them would
only multiply the states, as no property relates two of them, and so the states of the
run are the sum of theirs. The compositions that do share state (issuing with polling
and annulment, requests with PATCHes, the queue with crearFactura) are inside one
module.

Properties that hold but for a race state the race: a history variable (`cruce`, `solas`,
`coladas`, `repetidas`, `revueltas`, `excusadas`, `ajeno`, `mezclada`, `amparadas`,
`cortes`, `pisados`, `encima`, `descuadradas`, `promovidas` and others, each declared with
its meaning) records that calls overlapped, and the property bounds what that can do. They
show that nothing else breaks the promise.

Calls that are alike arrive in order (`LlegadasEnOrden`, `TokensEnOrden`,
`DecisionesEnOrden`, `SesionesEnOrden`, `CuentasEnOrden`, `EnOrden`, and `NombresEnOrden`
of the print bridge): it is the symmetry of their names, taken where some of the set have
a name of their own.

Bounds.

- `secuencias`: two requests, one PATCH, two ranges of two numbers of one type: two
  suffice for a double issue and for a circular wait, and the ranges are exhausted and
  re-used.
- `ciclo`: two invoices share one cycle, so that a list has a rest; two annulments of the
  same invoice; `ciclo_solapado` has the second cycle.
- Quota: three requests, two at a time, a limit of one and none, two months: the first
  excess, a rollover between check and count, and the race to create a row all happen. It
  is run twice, with three requests (`SoloFacturas`) and with two and the saves of the row
  (`DosFacturas`; a change of plan and a reading of the usage meet in one month only).
- Queue: two invoices, two attempts, one opening of the breaker, one stop. Amounts: four
  lines (on half a cent, below it, exempt, 16%), two at most per request, off by -4 to 1
  cents, and a threshold between them. Form: one article, two RNCs, a discount or none.
- Certification: a whole run alone, or two of steps 1, 2, 3, 6 and 12 in one company or
  two (`Recorridos`); a company in certification with the numbers required, without a
  type, or short, and one in production without a type, with inactive rows of
  certification or with none; one incident, which may be a promotion, or an invoice of
  another request, with an API key or without. Batch: a CSV with a cut cell and a blank
  line, an Excel with an empty row and a column twice, a file without a column; two
  uploads, one failure; the first file may be chosen twice and one of the others once
  (`UnArchivoMas`).
- RNC: one receiver, two lookups, five halves of a day, two changes of state. Token: a
  transmission, a direct one and a query, one end of tokens by the DGII (`MaxEpocas`),
  five answers to the seed request; `PilaAssumption` compares the stack of tags with the
  grammar on every sequence of up to five tags. Received: three decisions over two rows.
- `servicios`: one webhook, two events, a test and an end, one retry and a limit of two
  failures, which two overlapping deliveries reach; two tickets, two names, two templates
  (the bridge starts with the one that reads both tickets, and a restart brings any), two
  failed calls and one restart; two callers of the breaker, who reach its volume threshold
  of three over two ticks, of 15 s each, so that timeouts (2) and the window (4) keep the
  proportion of the code; two schemas and another XML, two writes, a restart.
- `acceso`: `Mezclas` and `Repartos` are the sets of calls that one behaviour may make,
  chosen so that the calls that meet are together: a login with two refreshes of its
  token, three logins of one user (a lockout at two failures, an overlap and one after),
  two updates, and three of a login, its refresh, its logout and an update; two runs of
  the monthly job with the suspension, a change of plan and an unlinking with it, and
  two changes of plan with an edition, and one with an assignment and an edition. The
  calendar advances while a job is still to start, as nothing else looks at it. Three
  machines exceed a limit of one; three requests with a limit of two; three writers of a
  company (`TresEscritores`) with two certificates of which one expires; three wizards,
  the second with the RNC and the third with the e-mail of the first; two tabs, two
  tokens (issued in order), two calls in flight in the first tab and one in the second;
  two accountants, a member, two companies, two calls for the team and one change of
  company, in phases (`Fases`): registrations, then companies, then the team.

Fairness. A transaction that PostgreSQL can let go on is not suspended for ever (strong,
since another may take the lock in between). The interval timer keeps firing and a cycle
goes through its list, as every call has a timeout; the DGII is not unreachable every
single time (strong fairness of the terminal query and of the update). Every attempt of a
delivery is answered or aborted after 10 s and the event loop goes on, so each delivery
is weakly fair. The rounds of the bridge's timer go on (`JusticiaImpresion`, weak, over
the timer only: nobody is obliged to ask for a round), and so does the poll of the XSD
(`JusticiaEsquema`). Ticks pass and due timers of the breaker fire. In `servicios` each
fairness is asked of the behaviours that move its component. Nobody is obliged to send a
request, to edit a plan or to write a file.

Deadlock is checked except where the system may really stop: when all the finite requests
of an instance have ended (every run but the three of `CicloFactura`).

## 5. Findings

The seven violations are described in `PROJECT.json`, each with the line of the code and
the line of the document it contradicts: a PATCH that lowers numero_actual, REINTENTANDO
without a queue, ANULADO overwritten by an overlapping cycle, an increment of the quota
lost to a stale save, three totals rounded each by itself, a discount no operation reads,
and a print bridge built without its queue.

Besides, the models show what these lines of the code do against what others say, and the
properties follow the code:

- An attempt of the retry queue that finds the breaker OPEN throws, BullMQ counts it,
  and it may exhaust the job; `retry-queue.interfaces.ts:75` says "Este error NO debe
  contar como intento fallido" and `retry-queue.processor.ts:112` "lanzar error que no
  cuenta como intento" (both in `src/infrastructure/queue`). In `ColaReintentos`,
  `Atender` with the breaker OPEN counts, and FinalJustificado allows a FALLIDO made of
  such attempts. Only the job that trips on it counts: the worker is paused from then
  on.
- `transmitirADgii` (`retry-queue.processor.ts:194-201`) gives `transmitirDirecto` no
  ambiente, so once the queue is connected the invoice of a company in production goes to
  certification, with the token of the shared key; `docs/guia-integracion-api.md:107` says
  that from its promotion on its invoices are sent to the real environment. It is
  `PeticionSinAmbiente` of `TokenDgii`.
- `certificacion.service.ts:72` says that the validation is of all the sequences the
  fifteen tests need. It counts active rows of any ambiente
  (`secuencias-ncf.service.ts:110-114`) and creates the missing ones for certification
  (`certificacion.service.ts:116-121`), while an invoice takes its number from the
  ambiente of the company (`secuencias-ncf.service.ts:151-153`): in production a
  validated run gets 409s. SetCompleto excepts the companies that have been in
  production (`promovidas`).
- Requirement 12.2 asks for five consecutive failures in 60 s, and CB_OPTIONS opens at
  more than half of at least five calls: a difference of policy that no property of the
  breaker depends on.

## 6. Proofs

Every theorem holds for all values of the constants under the assumptions named in each
module (`NuloAssumption` and the like say that SQL NULL is none of the values; in the
breaker `TiemposAssumption` asks Timeout <= ResetTimeout, and CB_OPTIONS has 30 s for
both).

- **SecuenciasNcfProofs.** The inductive invariant adds to TypeOK that an open request
  owns the lock of the row it elected and that the row still is the entity it read,
  whatever other rows it still has to lock, that numbers issued by a sequence that was
  never lowered are below its numero_actual, and what PATCHes in flight refer to. The
  lock keeps the entity fresh; freshness gives EntregaVigente and the refinement; the
  bound gives NumeroUnico.
- **CicloFacturaProofs.** The inductive invariant adds what each place of crearFactura
  knows of the DGII (`Emitidas`), that a terminal answer held by any cycle was given by
  the DGII (`Consultas`: the DGII never goes back on a decision, only annuls), and what
  each place of an annulment knows (`Anulando`). It holds for any number of overlapping
  cycles. With one cycle at a time (`UnCiclo`, as the timer runs while a cycle takes
  less than its interval) the invariant also says what each update still to come knows
  of its row (`Vida`); then a notice is not repeated (AvisoUnico), every step is a step
  of EstadoFactura or none (the refinement), and ANULADO is final. Overlapping cycles
  break the three, which is the finding of `ciclo_solapado`.
- **PlanesUsoProofs.** No overcount: every copy of a row in memory was once the row, and
  what was counted is never uncounted (`Copias`). The excess: the counter of a month plus
  the requests that may still count in it does not grow once the limit is reached
  (`Cuota`), as long as no plan changes, since only then does nobody save a row.
- **ServiciosProofs.** Breaker: the key is `LlamadasViejas`: while OPEN, every call left
  has lasted at least as long as the circuit has been open, so at the end of the wait
  all of them have timed out; it is what makes HALF-OPEN start with no call in progress.
  Webhooks: each copy a delivery holds is justified like the row it would become
  (`Justificados`), and one ended in peace has no copy left (`Solas`). Print bridge:
  what a ticket has issued, has under way and may still send is bounded by its failures
  and its namesakes (`Cuenta`, `Explicadas`). XSD: a writer that has not finished left
  an empty file that is newer than the last load (`PorAcabar`), so a whole schema that
  is not in use has another date (CambioNotado, the safety half of EsquemaVigente, which
  no run checks by itself).
- **DocumentosProofs.** Amounts: a request that declares everything, or nothing, keeps
  its totals within the sum of the tolerances of its items (`Cercania`), and the XML is
  within half a cent of each. Sums and least elements are not computed by induction: a
  finite set without the sum wanted would have a least subset without it (`ParteMinima`,
  by the well-foundedness of strict inclusion), which is a first-order argument. Batch:
  what was reported, what was issued and what is still to issue are apart (`Informado`,
  `Emitidas`), and each request made of a file was paid by a choice of it or a lost
  answer (`Gastadas`). Token: a transmission in its second attempt, unless excused,
  finds the key missing or a token it can use (`SegundoIntento`), and until calls for
  two environments share the key or the DGII ends tokens there is one token
  (`UnSoloToken`). Received: the row, or the call that is about to save it, has what the
  DGII was last told (`Coherente`, `EnMano`). Queue: an answer of the worker was given
  by the DGII and attempts only rise (`RespuestaEscrita`, `IntentosContados`). Form:
  while nothing is in flight the name is that of the RNC. RNC: what is cached, in the
  table or in memory was true within its life (`ActividadReciente`). Certification: a
  run that nobody disturbs, of a company that has not been in production, has, of each
  type, the numbers its remaining steps take in the rows of certification (`Provista`).
- **MCEmisionProofs.** Each component of `MCEmision` takes its own steps or stands
  still, so every theorem above holds in the composition; EmisionCumple lists them.
- **AccesoProofs, MCAccesoProofs.** Sessions: no copy counts failures that did not
  happen, an update alone leaves an administrator, and one alone with its user keeps it
  out. Accountants: which call may still write what, the saves of the row of a company
  included (`PrimeroLaEmpresa`, `PlanesPorCuadrar`). Web session: a tab whose load no
  other tab wrote after, and without a login over a session, has one token in its three
  places. Limits: devices, keys and refresh tokens are paired with the calls that made
  them (`EquiposContados`, `LlavesContadas`, `FichasContadas`), and the requests of a
  window with those that were in the sorted set, or will be, when the last one counted
  (`VentanaContada`, `CuboContado`). Company: certificate and password come from one
  upload in every copy (`DeUnaSubida`). Registration: the rows, the unique indexes and
  the wizard agree (`Indices`, `Filas`, `Asistencia`). Teams: an access that is granted
  was linked when its call began (`Respaldada`). Then the nine components together.

Fifty-two theorems are listed, and the lemmas under them. They are about the components as
modelled, without the orders and mixes of calls the runs choose (`LlegadasEnOrden`,
`parte` and the like), for constants of any size. The TypeOK of `SecuenciasNcf` and of
`CicloFactura` are proved and not checked by a run; the inductive invariants were checked
with TLC before they were proved.

What the proofs assume of the constants, besides distinct null values: finite sets of
companies' users, requests of the quota and processors of the print bridge (Cardinality
means nothing otherwise); disjoint sets of calls of different kinds; bounds that are
natural numbers, positive where zero would leave no first month or instant; lines of an
invoice with natural amounts, which its schema demands; rows numbered by naturals; a batch
of automatic numbers (99999999 in the code) that covers what the certification takes. TLC
evaluates each of them in the run of its component.

Proving found one thing the runs did not: that the failures counted for a user stay within
the limit (`intentos <= MaxIntentos`) held in the instances only. Saves write the columns
that differ, so enough overlapping logins may leave a row with the counter of one and the
lock of another, and it counts on; the bound was dropped from TypeOKSesiones,
and BloqueoJustificado, which says what the code promises, is proved.

Only model-checked: liveness (TodaEntregaTermina, TodaSolicitudTermina, AceptadaConcluye,
PendienteSale, NoSeAtasca, EsquemaVigente), which needs ENABLED and is out of the prover's
reach. Every safety property and refinement of the passing runs is proved. The grammar in
`PilaAssumption` is a recursive function that TLC compares with the stack; no theorem is
about what it computes. The violations of section 5 are TLC's.

## 7. Not modelled

- Formats and layout: the text of the XML, PDF, mail, QR, the template of a batch and its
  download, the receipt and the configuration panel of the bridge. No property is about
  them, and the conversions that matter (totals, cells, items of a ticket, tags of the
  seed) are modelled by what they do.
- Cryptography: a signature or a password is right or wrong.
- The format of an RNC, which the code checks by a pattern and not by its digits.
- Adapters (storage, mail, secrets), audit log, reports, administration queries, health
  and the SQL policies for tenants: pure I/O, append-only or read-only. Their failures
  appear in the modules that call them.
- The other guards, filters and interceptors: decisions on one request, without state.
- In `Onboarding`, the users and companies that `UsersService.create` and the
  accountants' `crearEmpresa` (`contador.service.ts:112-119`, a company without an
  administrator) insert; `Cuentas` has the latter with its link.
- The catalogue and the pages that list and edit one row at a time, `actualizarPerfil`
  and the amounts of `calcularFactura`; `encf-validation`, `validarLimiteApiKeys` and
  the offline queue of the mobile application have no caller.
- The heartbeat of devices and the date of last use of keys: dates that nothing reads.
- Row numbers in the report of a batch; and no property denies that a CSV cell with the
  separator inside shifts the columns after it, which the model does as the code.
- The reporting of the rate limit: its guard is attached to no controller, and the retry
  queue is provided by no module; both are modelled as written. `CicloFactura` is without
  that queue, so the two savers of an invoice it would bring are in `ColaReintentos` only.

A component is called modelled in `PROJECT.json` when every operation of it that changes
state is an action: sequences, polling, annulment, breaker, token, reception, retry queue,
webhooks, rate limit, batch and certification. The notes there say what the partly
modelled ones leave out.
