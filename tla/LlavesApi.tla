------------------------------ MODULE LlavesApi -------------------------------
(***************************************************************************)
(* The API keys of one company: create, rotate and revoke (ApiKeysService).*)
(* A row has the name of the call that inserts it.  A save only turns      *)
(* activo to false, so it is one step.                                     *)
(***************************************************************************)
EXTENDS Naturals, FiniteSets

CONSTANTS Creaciones, Rotaciones, Revocaciones, SinLlave

Llaves == Creaciones \union Rotaciones
LlamadasLlave == Rotaciones \union Revocaciones

ASSUME LlavesAssumption ==
  /\ Creaciones \intersect Rotaciones = {}
  /\ SinLlave \notin Llaves

VARIABLES
  llave,         \* llave[k]: "ninguna" while there is no row, "activa", "revocada"
  pasoLlave,     \* pasoLlave[c]: where the call is
  llaveDe,       \* llaveDe[c]: the key it has read
  repetidas      \* history: rotations of a key some other rotation had read before

llaveVars == <<llave, pasoLlave, llaveDe, repetidas>>

InitLlaves ==
  /\ llave = [k \in Llaves |-> "ninguna"]
  /\ pasoLlave = [c \in LlamadasLlave |-> "reposo"]
  /\ llaveDe = [c \in LlamadasLlave |-> SinLlave]
  /\ repetidas = {}

PasarLlave(c, p) == pasoLlave' = [pasoLlave EXCEPT ![c] = p]

CrearLlave(k) ==
  /\ llave[k] = "ninguna"
  /\ llave' = [llave EXCEPT ![k] = "activa"]
  /\ UNCHANGED <<pasoLlave, llaveDe, repetidas>>

\* Neither call looks at the activo of the row it reads.
LeerLlave(c, k) ==
  /\ pasoLlave[c] = "reposo"
  /\ llave[k] # "ninguna"
  /\ llaveDe' = [llaveDe EXCEPT ![c] = k]
  /\ repetidas' = IF c \in Rotaciones /\ \/ llave[k] = "revocada"
                                         \/ \E x \in Rotaciones \ {c} : llaveDe[x] = k
                  THEN repetidas \union {c} ELSE repetidas
  /\ PasarLlave(c, "revocar")
  /\ UNCHANGED llave

EstadoTras(c) == "revocada"

RevocarLlave(c) ==
  /\ pasoLlave[c] = "revocar"
  /\ llave' = [llave EXCEPT ![llaveDe[c]] = EstadoTras(c)]
  /\ PasarLlave(c, IF c \in Rotaciones THEN "emitir" ELSE "fin")
  /\ UNCHANGED <<llaveDe, repetidas>>

\* rotate inserts the new key, with the name and the scopes of the old one.
EmitirLlave(c) ==
  /\ pasoLlave[c] = "emitir"
  /\ llave' = [llave EXCEPT ![c] = "activa"]
  /\ PasarLlave(c, "fin")
  /\ UNCHANGED <<llaveDe, repetidas>>

\* A call ends with an error of the database or a stop of the server.
InterrumpirLlave(c) ==
  /\ pasoLlave[c] \notin {"reposo", "fin"}
  /\ PasarLlave(c, "fin")
  /\ UNCHANGED <<llave, llaveDe, repetidas>>

NextLlaves ==
  \/ \E k \in Creaciones : CrearLlave(k)
  \/ \E c \in LlamadasLlave :
       \/ \E k \in Llaves : LeerLlave(c, k)
       \/ RevocarLlave(c) \/ EmitirLlave(c) \/ InterrumpirLlave(c)

SpecLlaves == InitLlaves /\ [][NextLlaves]_llaveVars

-----------------------------------------------------------------------------
TypeOKLlaves ==
  /\ llave \in [Llaves -> {"ninguna", "activa", "revocada"}]
  /\ pasoLlave \in [LlamadasLlave -> {"reposo", "revocar", "emitir", "fin"}]
  /\ llaveDe \in [LlamadasLlave -> Llaves \union {SinLlave}]
  /\ repetidas \subseteq Rotaciones

\* Keys do not multiply: at most one is usable for every key the company created,
\* but for the rotations of a key that was revoked or that another rotation had
\* read.  An interrupted rotation loses a key, it never adds one.
LlavesAcotadas ==
  Cardinality({k \in Llaves : llave[k] = "activa"}) <=
    Cardinality({k \in Creaciones : llave[k] # "ninguna"}) + Cardinality(repetidas)
=============================================================================
