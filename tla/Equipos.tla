------------------------------- MODULE Equipos --------------------------------
(***************************************************************************)
(* The Print Bridge devices of one company, limited by its plan            *)
(* (DispositivosService) and looked at by every print job                  *)
(* (DeviceValidationGuard).  A row has the name of its machine, since      *)
(* (empresa_id, machine_id) is unique.                                     *)
(*                                                                         *)
(* A save only changes activo, to a value its call has fixed, so it is one *)
(* step: whatever happens between its two halves, the result is that of    *)
(* the first half if the column did not differ, else that of the second.   *)
(***************************************************************************)
EXTENDS Naturals, FiniteSets

CONSTANTS
  Maquinas,      \* machine_id
  Registros,     \* calls of registrar
  Retiros,       \* calls of desactivar
  MaxLimite,     \* bound of max_dispositivos
  SinMaquina

LlamadasEquipo == Registros \union Retiros

ASSUME EquiposAssumption == MaxLimite \in Nat /\ SinMaquina \notin Maquinas

VARIABLES
  limite,        \* max_dispositivos of the plan of the company
  equipo,        \* equipo[m]: "ninguno" while there is no row, "activo", "inactivo"
  pasoEquipo,    \* pasoEquipo[c]: where the call is
  maquinaDe,     \* maquinaDe[c]: its machine
  limiteLeido,   \* limiteLeido[c]: max_dispositivos as it read it
  limiteMayor,   \* history: the largest limit so far
  reactivados,   \* history: registrations that turned an inactive row active
  coladas        \* history: registrations that counted with another about to insert

equipoVars == <<limite, equipo, pasoEquipo, maquinaDe, limiteLeido, limiteMayor, reactivados,
                coladas>>

InitEquipos ==
  /\ limite \in 0 .. MaxLimite
  /\ equipo = [m \in Maquinas |-> "ninguno"]
  /\ pasoEquipo = [c \in LlamadasEquipo |-> "reposo"]
  /\ maquinaDe = [c \in LlamadasEquipo |-> SinMaquina]
  /\ limiteLeido = [c \in Registros |-> 0]
  /\ limiteMayor = limite
  /\ reactivados = {}
  /\ coladas = {}

PasarEquipo(c, p) == pasoEquipo' = [pasoEquipo EXCEPT ![c] = p]

EquiposActivos == {m \in Maquinas : equipo[m] = "activo"}

-----------------------------------------------------------------------------
\* registrar reads the company with its plan; a plan without Print Bridge refuses.
LeerPlanEquipo(c, m) ==
  /\ pasoEquipo[c] = "reposo"
  /\ maquinaDe' = [maquinaDe EXCEPT ![c] = m]
  /\ limiteLeido' = [limiteLeido EXCEPT ![c] = limite]
  /\ PasarEquipo(c, IF limite = 0 THEN "fin" ELSE "buscar")
  /\ UNCHANGED <<limite, equipo, limiteMayor, reactivados, coladas>>

BuscarEquipo(c) ==
  /\ pasoEquipo[c] = "buscar"
  /\ PasarEquipo(c, IF equipo[maquinaDe[c]] = "ninguno" THEN "contar" ELSE "reactivar")
  /\ UNCHANGED <<limite, equipo, maquinaDe, limiteLeido, limiteMayor, reactivados, coladas>>

\* save of the row found; the limit is not looked at.
ReactivarEquipo(c) ==
  LET m == maquinaDe[c]
  IN /\ pasoEquipo[c] = "reactivar"
     /\ equipo' = [equipo EXCEPT ![m] = "activo"]
     /\ reactivados' = IF equipo[m] = "inactivo" THEN reactivados \union {c} ELSE reactivados
     /\ PasarEquipo(c, "fin")
     /\ UNCHANGED <<limite, maquinaDe, limiteLeido, limiteMayor, coladas>>

Cabe(c) == Cardinality(EquiposActivos) < limiteLeido[c]

ContarEquipos(c) ==
  /\ pasoEquipo[c] = "contar"
  /\ PasarEquipo(c, IF Cabe(c) THEN "insertar" ELSE "fin")
  /\ coladas' = IF Cabe(c) /\ \E x \in Registros : pasoEquipo[x] = "insertar"
                THEN coladas \union {c} ELSE coladas
  /\ UNCHANGED <<limite, equipo, maquinaDe, limiteLeido, limiteMayor, reactivados>>

\* The unique key refuses a second row of the machine.
InsertarEquipo(c) ==
  /\ pasoEquipo[c] = "insertar"
  /\ equipo' = [equipo EXCEPT ![maquinaDe[c]] = IF @ = "ninguno" THEN "activo" ELSE @]
  /\ PasarEquipo(c, "fin")
  /\ UNCHANGED <<limite, maquinaDe, limiteLeido, limiteMayor, reactivados, coladas>>

\* desactivar
LeerRetiro(c, m) ==
  /\ pasoEquipo[c] = "reposo"
  /\ equipo[m] # "ninguno"
  /\ maquinaDe' = [maquinaDe EXCEPT ![c] = m]
  /\ PasarEquipo(c, "retirar")
  /\ UNCHANGED <<limite, equipo, limiteLeido, limiteMayor, reactivados, coladas>>

RetirarEquipo(c) ==
  /\ pasoEquipo[c] = "retirar"
  /\ equipo' = [equipo EXCEPT ![maquinaDe[c]] = "inactivo"]
  /\ PasarEquipo(c, "fin")
  /\ UNCHANGED <<limite, maquinaDe, limiteLeido, limiteMayor, reactivados, coladas>>

\* The company is assigned another plan.
CambiarLimite(n) ==
  /\ n # limite
  /\ limite' = n
  /\ limiteMayor' = IF n > limiteMayor THEN n ELSE limiteMayor
  /\ UNCHANGED <<equipo, pasoEquipo, maquinaDe, limiteLeido, reactivados, coladas>>

\* A call ends with an error of the database or a stop of the server.
InterrumpirEquipo(c) ==
  /\ pasoEquipo[c] \notin {"reposo", "fin"}
  /\ PasarEquipo(c, "fin")
  /\ UNCHANGED <<limite, equipo, maquinaDe, limiteLeido, limiteMayor, reactivados, coladas>>

NextEquipos ==
  \/ \E c \in Registros :
       \/ \E m \in Maquinas : LeerPlanEquipo(c, m)
       \/ BuscarEquipo(c) \/ ReactivarEquipo(c) \/ ContarEquipos(c) \/ InsertarEquipo(c)
  \/ \E c \in Retiros : (\E m \in Maquinas : LeerRetiro(c, m)) \/ RetirarEquipo(c)
  \/ \E n \in 0 .. MaxLimite : CambiarLimite(n)
  \/ \E c \in LlamadasEquipo : InterrumpirEquipo(c)

SpecEquipos == InitEquipos /\ [][NextEquipos]_equipoVars

-----------------------------------------------------------------------------
TypeOKEquipos ==
  /\ limite \in 0 .. MaxLimite /\ limiteMayor \in 0 .. MaxLimite
  /\ equipo \in [Maquinas -> {"ninguno", "activo", "inactivo"}]
  /\ pasoEquipo \in [LlamadasEquipo -> {"reposo", "buscar", "reactivar", "contar", "insertar",
                                        "retirar", "fin"}]
  /\ maquinaDe \in [LlamadasEquipo -> Maquinas \union {SinMaquina}]
  /\ limiteLeido \in [Registros -> 0 .. MaxLimite]
  /\ reactivados \subseteq Registros /\ coladas \subseteq Registros

\* The active devices exceed what the plan ever allowed by no more than the rows
\* that were reactivated and the registrations that counted while another was
\* about to insert.
EquiposAcotados ==
  Cardinality(EquiposActivos) <=
    limiteMayor + Cardinality(reactivados) + Cardinality(coladas)
=============================================================================
