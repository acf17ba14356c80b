---------------------------------- MODULE Rnc ----------------------------------
(***************************************************************************)
(* RncValidatorService: the RNC of the receiver is looked up in the cache  *)
(* (Redis, 24 h), in the web service of the DGII and in the local table    *)
(* rnc_contribuyentes, which scripts/import-rnc.sh empties and fills       *)
(* again.  crearFactura asks before it saves an invoice, and GET           *)
(* /rnc/:rnc/validar asks by hand.                                         *)
(*                                                                         *)
(* The DGII and its file are external: what they say of an RNC changes.    *)
(* The clock goes by halves of the life of a cached answer, and a lookup,  *)
(* whose call has a timeout of 5 s, ends before it moves.                  *)
(***************************************************************************)
EXTENDS Naturals

CONSTANTS
  RncsReceptor,  \* RNCs of receivers
  Preguntas,     \* calls of crearFactura and of GET /rnc/:rnc/validar
  Manuales,      \* those of the controller
  MaxHora,       \* bound: halves of a day the clock goes through
  MaxCambiosRnc, \* bound: changes of state of a contributor
  NoHallado

VidaCache == 2   \* RNC_CACHE_TTL_SECONDS

\* What a source can say: "sin_estado" is an answer of the web service without one.
EstadosRnc == {"activo", "inactivo", "suspendido"}
DichosDgii == EstadosRnc \union {"sin_estado", NoHallado}

ASSUME RncAssumption ==
  /\ Manuales \subseteq Preguntas
  /\ MaxHora \in Nat
  /\ MaxCambiosRnc \in Nat
  /\ NoHallado \notin EstadosRnc \union {"sin_estado"}

VARIABLES
  hora,          \* the clock; it starts late enough for 0 to be "never"
  registroDgii,  \* registroDgii[n]: what the DGII knows of n
  padron,        \* padron[n]: its row in rnc_contribuyentes, or NoHallado
  importando,    \* import-rnc.sh is between its TRUNCATE and its COPY
  cacheRnc,      \* cacheRnc[n]: the cached state and when it was cached
  pasoRnc,       \* pasoRnc[v]: where call v is
  rncDe,         \* rncDe[v]: the RNC it asks about
  respuestaRnc,  \* respuestaRnc[v]: the state it has found
  cambiosRnc,
  ultimaActiva   \* history: ultimaActiva[n]: the last time a source had n as active

preguntaVars == <<pasoRnc, rncDe, respuestaRnc>>
fuenteVars == <<hora, registroDgii, padron, importando, cambiosRnc, ultimaActiva>>
rncVars == <<fuenteVars, cacheRnc, preguntaVars>>

\* normalizeEstado, and body.estado ?? 'activo'
Normalizado(e) == IF e = "sin_estado" THEN "activo" ELSE e

FigurabaActivo(n) ==
  registroDgii[n] \in {"activo", "sin_estado"} \/ padron[n] = "activo"

SinCache == [estado |-> NoHallado, desde |-> 0]

InitRnc ==
  /\ hora = VidaCache
  /\ registroDgii \in [RncsReceptor -> {"activo", "suspendido", "sin_estado", NoHallado}]
  /\ padron \in [RncsReceptor -> {"activo", NoHallado}]
  /\ importando = FALSE
  /\ cacheRnc = [n \in RncsReceptor |-> SinCache]
  /\ pasoRnc = [v \in Preguntas |-> "inicio"]
  /\ rncDe \in [Preguntas -> RncsReceptor]
  /\ respuestaRnc = [v \in Preguntas |-> NoHallado]
  /\ cambiosRnc = 0
  /\ ultimaActiva = [n \in RncsReceptor |-> 0]

-----------------------------------------------------------------------------
(* validarRncParaFactura and validarRnc                                    *)

PasarRnc(v, p) == pasoRnc' = [pasoRnc EXCEPT ![v] = p]

Anotada(v, e, p) ==
  /\ respuestaRnc' = [respuestaRnc EXCEPT ![v] = e]
  /\ PasarRnc(v, p)

\* The company has validar_rnc_receptor off: the invoice goes on, not validated.
NoValidar(v) ==
  /\ v \notin Manuales
  /\ pasoRnc[v] = "inicio"
  /\ PasarRnc(v, "sin_validar")
  /\ UNCHANGED <<fuenteVars, cacheRnc, rncDe, respuestaRnc>>

\* Mutant: SET without EX.
EnCacheSiempre(n) == cacheRnc[n] # SinCache

EnCacheRnc(n) == cacheRnc[n] # SinCache /\ hora < cacheRnc[n].desde + VidaCache

LeerCache(v) ==
  /\ pasoRnc[v] = "inicio"
  /\ EnCacheRnc(rncDe[v])
  /\ Anotada(v, cacheRnc[rncDe[v]].estado, "hallada")
  /\ UNCHANGED <<fuenteVars, cacheRnc, rncDe>>

\* Nothing is cached, or Redis is unreachable.
NoEncontrarEnCache(v) ==
  /\ pasoRnc[v] = "inicio"
  /\ PasarRnc(v, "servicio")
  /\ UNCHANGED <<fuenteVars, cacheRnc, rncDe, respuestaRnc>>

\* consultarWebServiceDgii: the state it answers, or on to the local table: a 404, a
\* timeout, an error of the server, a body that is not JSON.
ConsultarServicio(v) ==
  LET dicho == registroDgii[rncDe[v]]
  IN /\ pasoRnc[v] = "servicio"
     /\ \/ dicho # NoHallado /\ Anotada(v, Normalizado(dicho), "por_guardar")
        \/ PasarRnc(v, "padron") /\ UNCHANGED respuestaRnc
     /\ UNCHANGED <<fuenteVars, cacheRnc, rncDe>>

\* The local table; what is in neither source is refused with 422.
ConsultarPadron(v) ==
  LET dicho == padron[rncDe[v]]
  IN /\ pasoRnc[v] = "padron"
     /\ IF dicho = NoHallado
        THEN PasarRnc(v, "rechazada") /\ UNCHANGED respuestaRnc
        ELSE Anotada(v, Normalizado(dicho), "por_guardar")
     /\ UNCHANGED <<fuenteVars, cacheRnc, rncDe>>

\* cacheRnc, unless Redis is unreachable.
GuardarEnCache(v) ==
  /\ pasoRnc[v] = "por_guardar"
  /\ \/ cacheRnc' = [cacheRnc EXCEPT ![rncDe[v]] = [estado |-> respuestaRnc[v], desde |-> hora]]
     \/ UNCHANGED cacheRnc
  /\ PasarRnc(v, "hallada")
  /\ UNCHANGED <<fuenteVars, rncDe, respuestaRnc>>

\* An invoice needs the receiver to be active; the controller answers whatever it is.
Responder(v) ==
  /\ pasoRnc[v] = "hallada"
  /\ PasarRnc(v, IF v \in Manuales THEN "contestada"
                 ELSE IF respuestaRnc[v] = "activo" THEN "validada" ELSE "rechazada")
  /\ UNCHANGED <<fuenteVars, cacheRnc, rncDe, respuestaRnc>>

-----------------------------------------------------------------------------
(* The sources                                                             *)

\* Who was active up to now.
ActivaHasta == [n \in RncsReceptor |-> IF FigurabaActivo(n) THEN hora ELSE ultimaActiva[n]]

CambiarContribuyente(n, e) ==
  /\ cambiosRnc < MaxCambiosRnc
  /\ cambiosRnc' = cambiosRnc + 1
  /\ ultimaActiva' = ActivaHasta
  /\ registroDgii' = [registroDgii EXCEPT ![n] = e]
  /\ UNCHANGED <<hora, padron, importando, cacheRnc, preguntaVars>>

VaciarPadron ==
  /\ ~importando
  /\ cambiosRnc < MaxCambiosRnc
  /\ cambiosRnc' = cambiosRnc + 1
  /\ importando' = TRUE
  /\ ultimaActiva' = ActivaHasta
  /\ padron' = [n \in RncsReceptor |-> NoHallado]
  /\ UNCHANGED <<hora, registroDgii, cacheRnc, preguntaVars>>

\* The file of the DGII is as of the day it is loaded.
CargarPadron ==
  /\ importando
  /\ importando' = FALSE
  /\ padron' = [n \in RncsReceptor |->
                 IF registroDgii[n] = NoHallado THEN NoHallado ELSE Normalizado(registroDgii[n])]
  /\ UNCHANGED <<hora, registroDgii, cambiosRnc, ultimaActiva, cacheRnc, preguntaVars>>

AvanzarHora ==
  /\ hora < MaxHora
  /\ \A v \in Preguntas : pasoRnc[v] \notin {"servicio", "padron", "por_guardar", "hallada"}
  /\ hora' = hora + 1
  /\ ultimaActiva' = [n \in RncsReceptor |->
                       IF FigurabaActivo(n) THEN hora + 1 ELSE ultimaActiva[n]]
  /\ UNCHANGED <<registroDgii, padron, importando, cambiosRnc, cacheRnc, preguntaVars>>

Preguntar(v) ==
  \/ NoValidar(v) \/ LeerCache(v) \/ NoEncontrarEnCache(v)
  \/ ConsultarServicio(v) \/ ConsultarPadron(v) \/ GuardarEnCache(v) \/ Responder(v)

NextRnc ==
  \/ \E v \in Preguntas : Preguntar(v)
  \/ \E n \in RncsReceptor, e \in DichosDgii : CambiarContribuyente(n, e)
  \/ VaciarPadron \/ CargarPadron \/ AvanzarHora

SpecRnc == InitRnc /\ [][NextRnc]_rncVars

-----------------------------------------------------------------------------
(* Properties                                                              *)

TypeOKRnc ==
  /\ hora \in Nat /\ cambiosRnc \in Nat
  /\ registroDgii \in [RncsReceptor -> DichosDgii]
  /\ padron \in [RncsReceptor -> EstadosRnc \union {NoHallado}]
  /\ importando \in BOOLEAN
  /\ cacheRnc \in [RncsReceptor -> [estado : EstadosRnc \union {NoHallado}, desde : Nat]]
  /\ pasoRnc \in [Preguntas -> {"inicio", "servicio", "padron", "por_guardar", "hallada",
                                "validada", "rechazada", "contestada", "sin_validar"}]
  /\ rncDe \in [Preguntas -> RncsReceptor]
  /\ respuestaRnc \in [Preguntas -> EstadosRnc \union {NoHallado}]
  /\ ultimaActiva \in [RncsReceptor -> Nat]

\* An invoice is marked rnc_validado only if the DGII, or the table loaded from its
\* file, had the receiver as active less than a life of the cache ago, whatever was
\* cached by other calls, however the contributor changed meanwhile, and with Redis or
\* the service away.
ValidadoReciente ==
  [][\A v \in Preguntas :
       (pasoRnc[v] # "validada" /\ pasoRnc'[v] = "validada")
         => FigurabaActivo(rncDe[v]) \/ hora < ultimaActiva[rncDe[v]] + VidaCache]_rncVars
=============================================================================
