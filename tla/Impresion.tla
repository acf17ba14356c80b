------------------------------- MODULE Impresion -------------------------------
(***************************************************************************)
(* The print bridge: FolderPrintJobSource takes printed tickets out of a   *)
(* folder, PrintPipeline sends each one to the gateway as an invoice, and  *)
(* what could not be sent is kept on disk (PendingJobsQueue) and sent      *)
(* again by ContingencyProcessor, every 60 s and on POST pending/retry.    *)
(*                                                                         *)
(* The text of a ticket is a sequence of lines, and a line the set of the  *)
(* patterns of a template that match it: "inicio", "fin" and "articulo"    *)
(* (with a description and a quantity).  The order of the files (creation  *)
(* time) is not kept: any of them may be first.                            *)
(***************************************************************************)
EXTENDS Naturals, Sequences, FiniteSets
LOCAL INSTANCE FiniteSetsExt

CONSTANTS
  Tickets,       \* printed documents
  Nombres,       \* names of files without extension: the JobId
  Procesadores,  \* rounds of ContingencyProcessor that may overlap
  Reloj,         \* the one of them that the timer runs
  DocumentoDe,   \* DocumentoDe[t]: the lines of ticket t
  Plantillas,    \* templates: [patron, inicio, fin, linea], which patterns they have and
                 \* the line where the items begin, or 0
  SinPlantilla,  \* the name of a template that is not there
  Cableados,     \* is PrintPipeline built with a queue, and ModoContingencia on?
  MaxFallosEnvio,\* bound: calls to the gateway that fail
  MaxCaidas,     \* bound: restarts of the bridge
  SinTicket,
  SinNombre

ASSUME ImpresionAssumption ==
  /\ Reloj \in Procesadores /\ IsFiniteSet(Procesadores)
  /\ Cableados \subseteq BOOLEAN
  /\ MaxFallosEnvio \in Nat
  /\ MaxCaidas \in Nat
  /\ SinTicket \notin Tickets /\ SinPlantilla \notin Plantillas
  /\ SinNombre \notin Nombres

VARIABLES
  plantilla,     \* PlantillaActiva of the AppConfig in use
  conCola,       \* _contingencyQueue != null && ModoContingencia
  nombre,        \* nombre[t]: JobId of ticket t, SinNombre until it is printed
  carpeta,       \* tickets in the watched folder
  lector,        \* the pipeline: "espera", "enviando", or "cortada" by an exception
  enMano,        \* the ticket the pipeline is sending
  cola,          \* cola[n]: the job in file n of the pending folder
  ronda,         \* ronda[h]: jobs of its GetAll that round h has still to send
  enviado,       \* enviado[h]: the job round h is sending
  fallosEnvio, caidas,
  emitidas,      \* history: emitidas[t]: invoices the gateway issued for t
  cortes,        \* history: cortes[t]: those whose answer never came
  ajenas,        \* history: ajenas[t]: invoices of t sent while it was not pending any
                 \* more, or another round was sending it
  rechazados,    \* history: tickets given up: no items, no template, or a 401
  sinCola,       \* history: tickets whose call failed with nowhere to keep them
  caidos,        \* history: tickets in hand when the bridge stopped
  pisados        \* history: pending jobs that another of the same name replaced

colaVars == <<cola, ronda, enviado>>
lectorVars == <<carpeta, lector, enMano>>
historiaImpresion == <<emitidas, cortes, ajenas, rechazados, sinCola, caidos, pisados>>
configVars == <<plantilla, conCola>>
impresionVars == <<configVars, nombre, lectorVars, colaVars, fallosEnvio, caidas,
                   historiaImpresion>>

InitImpresion ==
  /\ plantilla \in Plantillas \union {SinPlantilla}
  /\ conCola \in Cableados
  /\ nombre = [t \in Tickets |-> SinNombre]
  /\ carpeta = {}
  /\ lector = "espera" /\ enMano = SinTicket
  /\ cola = [n \in Nombres |-> SinTicket]
  /\ ronda = [h \in Procesadores |-> {}]
  /\ enviado = [h \in Procesadores |-> SinTicket]
  /\ fallosEnvio = 0 /\ caidas = 0
  /\ emitidas = [t \in Tickets |-> 0]
  /\ cortes = [t \in Tickets |-> 0]
  /\ ajenas = [t \in Tickets |-> 0]
  /\ rechazados = {} /\ sinCola = {} /\ caidos = {} /\ pisados = {}

Pendientes == {cola[n] : n \in Nombres} \ {SinTicket}

-----------------------------------------------------------------------------
(* TemplateEngine                                                          *)

\* ExtractItems: the lines that are items of template p.
Renglones(p, d) ==
  LET inicios == {i \in DOMAIN d : "inicio" \in d[i]}
      desde == IF p.linea > 0 THEN p.linea
               ELSE IF p.inicio /\ inicios # {} THEN Min(inicios) + 1 ELSE 1
      fines == {i \in desde .. Len(d) : "fin" \in d[i]}
      hasta == IF p.fin /\ fines # {} THEN Min(fines) - 1 ELSE Len(d)
  IN {i \in desde .. hasta : p.patron /\ "articulo" \in d[i]}

\* Does the active template, if it is there, make an invoice of ticket t?
Extraible(t) ==
  /\ plantilla # SinPlantilla
  /\ Renglones(plantilla, DocumentoDe[t]) # {}

\* A printer writes a file; a name may come again, with the other extension or later.
Imprimir(t, n) ==
  /\ nombre[t] = SinNombre
  /\ nombre' = [nombre EXCEPT ![t] = n]
  /\ carpeta' = carpeta \union {t}
  /\ UNCHANGED <<configVars, lector, enMano, colaVars, fallosEnvio, caidas, historiaImpresion>>

-----------------------------------------------------------------------------
(* PrintPipeline                                                           *)

\* WaitForNextJob moves the file to processed, and the call to the gateway begins.
Tomar(t) ==
  /\ lector = "espera"
  /\ t \in carpeta
  /\ Extraible(t)
  /\ carpeta' = carpeta \ {t}
  /\ lector' = "enviando" /\ enMano' = t
  /\ UNCHANGED <<configVars, nombre, colaVars, fallosEnvio, caidas, historiaImpresion>>

\* The active template is not there, or it extracts no items.
Descartar(t) ==
  /\ lector = "espera"
  /\ t \in carpeta
  /\ ~Extraible(t)
  /\ carpeta' = carpeta \ {t}
  /\ rechazados' = rechazados \union {t}
  /\ UNCHANGED <<configVars, nombre, lector, enMano, colaVars, fallosEnvio, caidas, emitidas,
                 cortes, ajenas, sinCola, caidos, pisados>>

\* Reading or moving the file throws: RunAsync has no catch and its task ends.
CortarLectura ==
  /\ lector = "espera"
  /\ carpeta # {}
  /\ lector' = "cortada"
  /\ UNCHANGED <<configVars, nombre, carpeta, enMano, colaVars, fallosEnvio, caidas,
                 historiaImpresion>>

\* The pipeline goes on to the next file.
Soltar == lector' = "espera" /\ enMano' = SinTicket

EnviarConExito ==
  /\ lector = "enviando"
  /\ emitidas' = [emitidas EXCEPT ![enMano] = @ + 1]
  /\ Soltar
  /\ UNCHANGED <<configVars, nombre, carpeta, colaVars, fallosEnvio, caidas, cortes, ajenas,
                 rechazados, sinCola, caidos, pisados>>

\* The gateway answers 401: the key was revoked.
EnviarSinClave ==
  /\ lector = "enviando"
  /\ fallosEnvio < MaxFallosEnvio
  /\ fallosEnvio' = fallosEnvio + 1
  /\ rechazados' = rechazados \union {enMano}
  /\ Soltar
  /\ UNCHANGED <<configVars, nombre, carpeta, colaVars, caidas, emitidas, cortes, ajenas,
                 sinCola, caidos, pisados>>

\* Enqueue: WriteAllText replaces the file of that name.
Guardado(t) == [cola EXCEPT ![nombre[t]] = t]

\* EnqueueForContingency
Encolar(t) ==
  IF conCola
  THEN /\ cola' = Guardado(t)
       /\ pisados' = pisados \union ({cola[nombre[t]]} \ {SinTicket})
       /\ UNCHANGED sinCola
  ELSE /\ sinCola' = sinCola \union {t}
       /\ UNCHANGED <<cola, pisados>>

\* The gateway issues the invoice or not, but the answer is an error, a timeout of
\* 30 s or a broken connection.
ResultadoIncierto(t) ==
  \/ /\ emitidas' = [emitidas EXCEPT ![t] = @ + 1]
     /\ cortes' = [cortes EXCEPT ![t] = @ + 1]
  \/ UNCHANGED <<emitidas, cortes>>

EnviarConFallo ==
  /\ lector = "enviando"
  /\ fallosEnvio < MaxFallosEnvio
  /\ fallosEnvio' = fallosEnvio + 1
  /\ ResultadoIncierto(enMano)
  /\ Encolar(enMano)
  /\ Soltar
  /\ UNCHANGED <<configVars, nombre, carpeta, ronda, enviado, caidas, ajenas, rechazados, caidos>>

-----------------------------------------------------------------------------
(* ContingencyProcessor                                                    *)

\* Mutant: Count > 1 for Count > 0.
HayVarios == \E a, b \in Pendientes : a # b

HayPendientes == Pendientes # {}

\* ProcessPendingJobs: TestConnection succeeds and the jobs are listed once.
Abrir(h) ==
  /\ ronda[h] = {} /\ enviado[h] = SinTicket
  /\ HayPendientes
  /\ ronda' = [ronda EXCEPT ![h] = Pendientes]
  /\ UNCHANGED <<configVars, nombre, lectorVars, cola, enviado, fallosEnvio, caidas,
                 historiaImpresion>>

Repartido(t) ==
  /\ Extraible(t)
  /\ cola[nombre[t]] # t \/ \E h \in Procesadores : enviado[h] = t

Reenviar(h, t) ==
  /\ enviado[h] = SinTicket
  /\ t \in ronda[h]
  /\ enviado' = [enviado EXCEPT ![h] = t]
  /\ ronda' = [ronda EXCEPT ![h] = @ \ {t}]
  /\ ajenas' = IF Repartido(t) THEN [ajenas EXCEPT ![t] = @ + 1] ELSE ajenas
  /\ UNCHANGED <<configVars, nombre, lectorVars, cola, fallosEnvio, caidas, emitidas, cortes,
                 rechazados, sinCola, caidos, pisados>>

\* Mutant: the job is sent and stays pending.
SinQuitar(t) == cola

\* Remove deletes the file of that name, whichever job it holds by now.
Quitado(t) == [cola EXCEPT ![nombre[t]] = SinTicket]

ReenviarConExito(h) ==
  LET t == enviado[h]
  IN /\ t # SinTicket /\ Extraible(t)
     /\ emitidas' = [emitidas EXCEPT ![t] = @ + 1]
     /\ cola' = Quitado(t)
     /\ pisados' = pisados \union ({cola[nombre[t]]} \ {t, SinTicket})
     /\ enviado' = [enviado EXCEPT ![h] = SinTicket]
     /\ UNCHANGED <<configVars, nombre, lectorVars, ronda, fallosEnvio, caidas, cortes, ajenas,
                    rechazados, sinCola, caidos>>

\* A 401 ends the round, any other exception goes on with the next job; the job stays
\* pending.
ReenviarConFallo(h) ==
  LET t == enviado[h]
  IN /\ t # SinTicket
     /\ fallosEnvio < MaxFallosEnvio
     /\ fallosEnvio' = fallosEnvio + 1
     /\ enviado' = [enviado EXCEPT ![h] = SinTicket]
     /\ \/ ronda' = [ronda EXCEPT ![h] = {}] /\ UNCHANGED <<emitidas, cortes>>
        \/ Extraible(t) /\ ResultadoIncierto(t) /\ UNCHANGED ronda
     /\ UNCHANGED <<configVars, nombre, lectorVars, cola, caidas, ajenas, rechazados, sinCola,
                    caidos, pisados>>

\* The round does not look at what was extracted: the template cannot be read, or the
\* gateway refuses an invoice without items.  The job stays pending.
ReenviarEnVano(h) ==
  /\ enviado[h] # SinTicket /\ ~Extraible(enviado[h])
  /\ enviado' = [enviado EXCEPT ![h] = SinTicket]
  /\ UNCHANGED <<configVars, nombre, lectorVars, cola, ronda, fallosEnvio, caidas,
                 historiaImpresion>>

-----------------------------------------------------------------------------
\* The bridge stops and starts again: the folders are kept, what was in memory is not.
\* A call in progress may still be answered by an invoice.  POST /api/config/template
\* writes the file and not the AppConfig in use, so it is now that its template is taken.
CaerPuente(p) ==
  LET enCurso == ({enMano} \union {enviado[h] : h \in Procesadores}) \ {SinTicket}
  IN /\ caidas < MaxCaidas
     /\ caidas' = caidas + 1
     /\ \E hechas \in SUBSET {t \in enCurso : Extraible(t)} :
          /\ emitidas' = [t \in Tickets |-> emitidas[t] + IF t \in hechas THEN 1 ELSE 0]
          /\ cortes' = [t \in Tickets |-> cortes[t] + IF t \in hechas THEN 1 ELSE 0]
     /\ caidos' = caidos \union ({enMano} \ {SinTicket})
     /\ Soltar
     /\ ronda' = [h \in Procesadores |-> {}]
     /\ enviado' = [h \in Procesadores |-> SinTicket]
     /\ plantilla' = p
     /\ UNCHANGED <<conCola, nombre, carpeta, cola, fallosEnvio, ajenas, rechazados, sinCola,
                    pisados>>

Ronda(h) ==
  \/ Abrir(h)
  \/ \E t \in Tickets : Reenviar(h, t)
  \/ ReenviarConExito(h) \/ ReenviarConFallo(h) \/ ReenviarEnVano(h)

NextImpresion ==
  \/ \E t \in Tickets, n \in Nombres : Imprimir(t, n)
  \/ \E t \in Tickets : Tomar(t) \/ Descartar(t)
  \/ CortarLectura
  \/ EnviarConExito \/ EnviarSinClave \/ EnviarConFallo
  \/ \E h \in Procesadores : Ronda(h)
  \/ \E p \in Plantillas \union {SinPlantilla} : CaerPuente(p)

SpecImpresion == InitImpresion /\ [][NextImpresion]_impresionVars

\* The timer keeps running its rounds and every call is answered or times out.
JusticiaImpresion == WF_impresionVars(Ronda(Reloj))

-----------------------------------------------------------------------------
(* Properties                                                              *)

TypeOKImpresion ==
  /\ plantilla \in Plantillas \union {SinPlantilla}
  /\ conCola \in BOOLEAN
  /\ nombre \in [Tickets -> Nombres \union {SinNombre}]
  /\ carpeta \subseteq Tickets
  /\ lector \in {"espera", "enviando", "cortada"}
  /\ enMano \in Tickets \union {SinTicket}
  /\ cola \in [Nombres -> Tickets \union {SinTicket}]
  /\ ronda \in [Procesadores -> SUBSET Tickets]
  /\ enviado \in [Procesadores -> Tickets \union {SinTicket}]
  /\ fallosEnvio \in Nat /\ caidas \in Nat
  /\ emitidas \in [Tickets -> Nat]
  /\ cortes \in [Tickets -> Nat]
  /\ ajenas \in [Tickets -> Nat]
  /\ rechazados \subseteq Tickets /\ sinCola \subseteq Tickets
  /\ caidos \subseteq Tickets /\ pisados \subseteq Tickets

\* The gateway cannot tell a second call for a ticket from a first one, so a ticket
\* has one invoice more for every answer that was lost and for every call two
\* overlapping rounds repeated, and for no other reason: neither failures that issued
\* nothing nor restarts duplicate it.
FacturasExplicadas ==
  \A t \in Tickets : emitidas[t] <= 1 + cortes[t] + ajenas[t]

EnAlgunSitio(t) ==
  t \in carpeta \/ t = enMano \/ t \in Pendientes \/ emitidas[t] > 0 \/ t \in rechazados

\* A printed ticket that is nowhere and has no invoice was in hand when the bridge
\* stopped, or another of the same name took its file, or its call failed in a bridge
\* without a queue.
PerdidasExplicadas ==
  \A t \in Tickets :
    nombre[t] # SinNombre =>
      EnAlgunSitio(t) \/ t \in caidos \/ t \in pisados \/ t \in sinCola

\* Both: what happened to a ticket, issued or not, follows from what happened on its way.
TicketsExplicados == FacturasExplicadas /\ PerdidasExplicadas

\* The manual of the bridge: with the gateway unreachable the tickets wait in a local
\* queue.  Unless the bridge stops or two tickets have the same name, a ticket that
\* was taken is being sent, waits, was refused or has its invoice.
NadaSePierde ==
  \A t \in Tickets :
    nombre[t] # SinNombre => EnAlgunSitio(t) \/ t \in caidos \/ t \in pisados

\* What is pending is sent once the gateway is back, without anybody's help, unless the
\* template that a restart brought makes no invoice of it.
PendienteSale ==
  \A n \in Nombres :
    (cola[n] # SinTicket) ~> (cola[n] = SinTicket \/ ~Extraible(cola[n]))
=============================================================================
