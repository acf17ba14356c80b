------------------------------- MODULE TokenDgii ------------------------------
(***************************************************************************)
(* The bearer token of one company for the services of the DGII            *)
(* (DgiiTokenService), kept in Redis under the company's key whatever the  *)
(* environment it was issued for.  Transmissions answer a 401 by deleting  *)
(* the key and trying once more (TransmisionService); status queries,      *)
(* commercial approvals and annulments do not.  Direct transmissions are   *)
(* those of the retry queue, once it is connected (see ColaReintentos).    *)
(*                                                                         *)
(* The DGII is external: a token is good in the environment that issued it *)
(* until the DGII ends it; from then on, and elsewhere, the answer is 401. *)
(***************************************************************************)
EXTENDS Naturals, Sequences

CONSTANTS
  Transmisiones, \* calls of transmitir
  Directas,      \* calls of transmitirDirecto, by the worker of the retry queue
  Consultas,     \* the other calls that use a token
  Respuestas,    \* answers to the request of a seed: [llega, ok, angulo, etiquetas]
  MaxEpocas,     \* bound: times the DGII ends the tokens it has issued
  SinToken

\* The calls that delete the token after a 401, and all the calls.
Renovadoras == Transmisiones \union Directas
Usos == Renovadoras \union Consultas
Ambientes == {"certificacion", "produccion"}
Token == [ambiente : Ambientes, epoca : 0 .. MaxEpocas]

ASSUME TokenAssumption ==
  /\ MaxEpocas \in Nat /\ SinToken \notin Token
  /\ Transmisiones \intersect Directas = {}
  /\ Renovadoras \intersect Consultas = {}

VARIABLES
  ambiente,      \* ambiente_dgii of the company
  vividos,       \* history: the environments it has been in
  epoca,         \* how many times the DGII has ended its tokens
  enCache,       \* the value of dgii_token:{empresa_id}
  pasoUso,       \* pasoUso[c]: where the call is
  ambienteDe,    \* ambienteDe[c]: the environment it was given
  tokenDe,       \* tokenDe[c]: the token in its memory
  segundos,      \* transmissions in their second attempt
  negadas,       \* history: calls that ended with a 401
  excusadas      \* history: transmissions that may meet a bad token again

servicioVars == <<ambiente, vividos, epoca, enCache>>
usoVars == <<pasoUso, ambienteDe, tokenDe, segundos>>
historiaToken == <<negadas, excusadas>>
tokenVars == <<servicioVars, usoVars, historiaToken>>

InitToken ==
  /\ ambiente \in Ambientes
  /\ vividos \in {A \in SUBSET Ambientes : ambiente \in A}
  /\ epoca = 0
  /\ enCache = SinToken
  /\ pasoUso = [c \in Usos |-> "reposo"]
  /\ ambienteDe = [c \in Usos |-> ambiente]
  /\ tokenDe = [c \in Usos |-> SinToken]
  /\ segundos = {}
  /\ negadas = {}
  /\ excusadas = {}

PasarUso(c, p) == pasoUso' = [pasoUso EXCEPT ![c] = p]

\* The worker of the queue gives no environment, which means certification.
PeticionSinAmbiente == {"certificacion"}

\* A transmission goes to the environment of the company; a query, to that of the
\* invoice, which may be an earlier one.
AmbientesDe(c) ==
  CASE c \in Transmisiones -> {ambiente}
    [] c \in Directas -> PeticionSinAmbiente
    [] c \in Consultas -> vividos

PedirToken(c) ==
  /\ pasoUso[c] = "reposo"
  /\ \E a \in AmbientesDe(c) : ambienteDe' = [ambienteDe EXCEPT ![c] = a]
  /\ PasarUso(c, "buscar")
  /\ UNCHANGED <<servicioVars, tokenDe, segundos, historiaToken>>

\* getCachedToken; an error of Redis counts as a miss.
BuscarToken(c, hayRedis) ==
  /\ pasoUso[c] = "buscar"
  /\ IF hayRedis /\ enCache # SinToken
     THEN tokenDe' = [tokenDe EXCEPT ![c] = enCache] /\ PasarUso(c, "usar")
     ELSE PasarUso(c, "sembrar") /\ UNCHANGED tokenDe
  /\ UNCHANGED <<servicioVars, ambienteDe, segundos, historiaToken>>

\* esXmlBienFormado: every tag that closes is that of the last one open.  A tag that
\* does not match leaves in the stack a name that no tag has.
BienFormado(etiquetas) ==
  LET pila[n \in 0 .. Len(etiquetas)] ==
        IF n = 0 THEN <<>>
        ELSE LET p == pila[n - 1]
                 e == etiquetas[n]
             IN CASE e.clase \in {"sola", "instruccion"} -> p
                  [] e.clase = "abre" -> Append(p, e.nombre)
                  [] e.clase = "cierra" ->
                       IF p # <<>> /\ p[Len(p)] = e.nombre
                       THEN SubSeq(p, 1, Len(p) - 1) ELSE Append(p, "?")
  IN pila[Len(etiquetas)] = <<>>

\* validarXml; angulo: the text begins with <.
EsSemilla(r) == r.angulo /\ BienFormado(r.etiquetas)

\* solicitarSemilla: 503 when there is no answer within 10 s or its status is not 2xx,
\* 502 when it is not a document.
PedirSemilla(c, r) ==
  /\ pasoUso[c] = "sembrar"
  /\ PasarUso(c, IF r.llega /\ r.ok /\ EsSemilla(r) THEN "negociar" ELSE "fin")
  /\ UNCHANGED <<servicioVars, ambienteDe, tokenDe, segundos, historiaToken>>

\* Mutant: the seed and its signature always go to the certification service.
SiempreCertificacion(c) == "certificacion"

AmbienteDelHandshake(c) == ambienteDe[c]

\* executeHandshake once it has the seed: signature, token.
Negociar(c) ==
  /\ pasoUso[c] = "negociar"
  /\ tokenDe' = [tokenDe EXCEPT
                   ![c] = [ambiente |-> AmbienteDelHandshake(c), epoca |-> epoca]]
  /\ PasarUso(c, "guardar")
  /\ UNCHANGED <<servicioVars, ambienteDe, segundos, historiaToken>>

\* cacheToken: a late one may follow the deletion of another call, which then
\* finds this token.
GuardarToken(c) ==
  /\ pasoUso[c] = "guardar"
  /\ enCache' = tokenDe[c]
  /\ excusadas' = excusadas \union (segundos \ {c})
  /\ PasarUso(c, "usar")
  /\ UNCHANGED <<ambiente, vividos, epoca, ambienteDe, tokenDe, segundos, negadas>>

\* Redis fails: the token is used and not kept.
GuardarSinRedis(c) ==
  /\ pasoUso[c] = "guardar"
  /\ PasarUso(c, "usar")
  /\ UNCHANGED <<servicioVars, ambienteDe, tokenDe, segundos, historiaToken>>

Sirve(c) == tokenDe[c] = [ambiente |-> ambienteDe[c], epoca |-> epoca]

\* Any answer but a 401 ends the use of the token.
Usar(c) ==
  /\ pasoUso[c] = "usar" /\ Sirve(c)
  /\ PasarUso(c, "fin")
  /\ UNCHANGED <<servicioVars, ambienteDe, tokenDe, segundos, historiaToken>>

\* 401: the first of a transmission leads to another attempt.
Negar(c) ==
  /\ pasoUso[c] = "usar" /\ ~Sirve(c)
  /\ IF c \in Renovadoras \ segundos
     THEN PasarUso(c, "borrar") /\ UNCHANGED negadas
     ELSE PasarUso(c, "fin") /\ negadas' = negadas \union {c}
  /\ UNCHANGED <<servicioVars, ambienteDe, tokenDe, segundos, excusadas>>

\* Mutant: the second attempt begins with the key still there.
CacheIntacta == enCache

CacheBorrada == SinToken

\* redis.del, and the second attempt; an error of Redis is ignored.
BorrarToken(c, hayRedis) ==
  /\ pasoUso[c] = "borrar"
  /\ enCache' = IF hayRedis THEN CacheBorrada ELSE enCache
  /\ segundos' = segundos \union {c}
  /\ excusadas' = IF hayRedis THEN excusadas ELSE excusadas \union {c}
  /\ PasarUso(c, "buscar")
  /\ UNCHANGED <<ambiente, vividos, epoca, ambienteDe, tokenDe, negadas>>

\* The handshake or the service fails, the circuit breaker refuses, the server stops.
FallarUso(c) ==
  /\ pasoUso[c] \notin {"reposo", "fin"}
  /\ PasarUso(c, "fin")
  /\ UNCHANGED <<servicioVars, ambienteDe, tokenDe, segundos, historiaToken>>

-----------------------------------------------------------------------------
\* The TTL of the key.
VencerToken ==
  /\ enCache # SinToken
  /\ enCache' = SinToken
  /\ UNCHANGED <<ambiente, vividos, epoca, usoVars, historiaToken>>

\* promoverAProduccion leaves the token of the other environment in the cache.
Promover ==
  /\ ambiente = "certificacion"
  /\ ambiente' = "produccion"
  /\ vividos' = vividos \union {"produccion"}
  /\ UNCHANGED <<epoca, enCache, usoVars, historiaToken>>

\* A save of the company that read it before the promotion undoes it (see Empresa).
Despromover ==
  /\ ambiente = "produccion" /\ "certificacion" \in vividos
  /\ ambiente' = "certificacion"
  /\ UNCHANGED <<vividos, epoca, enCache, usoVars, historiaToken>>

\* The DGII ends the tokens it has issued.
Caducar ==
  /\ epoca < MaxEpocas
  /\ epoca' = epoca + 1
  /\ excusadas' = excusadas \union segundos
  /\ UNCHANGED <<ambiente, vividos, enCache, usoVars, negadas>>

NextToken ==
  \/ \E c \in Usos :
       \/ PedirToken(c) \/ Negociar(c) \/ GuardarToken(c) \/ GuardarSinRedis(c)
       \/ Usar(c) \/ Negar(c) \/ FallarUso(c)
       \/ \E r \in Respuestas : PedirSemilla(c, r)
       \/ \E hayRedis \in BOOLEAN : BuscarToken(c, hayRedis) \/ BorrarToken(c, hayRedis)
  \/ VencerToken \/ Promover \/ Despromover \/ Caducar

SpecToken == InitToken /\ [][NextToken]_tokenVars

-----------------------------------------------------------------------------
(* Properties                                                              *)

TypeOKToken ==
  /\ ambiente \in Ambientes /\ vividos \subseteq Ambientes
  /\ epoca \in 0 .. MaxEpocas
  /\ enCache \in Token \union {SinToken}
  /\ pasoUso \in [Usos -> {"reposo", "buscar", "sembrar", "negociar", "guardar", "usar", "borrar",
                           "fin"}]
  /\ \A c \in Usos : pasoUso[c] = "borrar" => c \in Renovadoras
  /\ ambienteDe \in [Usos -> Ambientes]
  /\ tokenDe \in [Usos -> Token \union {SinToken}]
  /\ segundos \subseteq Renovadoras
  /\ negadas \subseteq Usos /\ excusadas \subseteq Renovadoras

\* A transmission, direct or not, gives up for its token (two 401s) only if Redis did
\* not delete the key, or another call wrote the key or the DGII ended its tokens after
\* that.
RechazoExplicado == negadas \intersect Renovadoras \subseteq excusadas

\* Sharing one key among all the calls of a company does no harm as long as they are all
\* for one environment and the DGII ends no token: no call gets a 401.  The calls are for
\* two when the company is promoted, when a query is about an invoice of before, and when
\* the retry queue transmits for a company in production.
SinRechazosGratuitos ==
  negadas # {} \/ segundos # {} =>
    \/ epoca > 0
    \/ \E c, d \in Usos : /\ pasoUso[c] # "reposo" /\ pasoUso[d] # "reposo"
                          /\ ambienteDe[c] # ambienteDe[d]
=============================================================================
