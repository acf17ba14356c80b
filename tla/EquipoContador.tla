----------------------------- MODULE EquipoContador -----------------------------
(***************************************************************************)
(* Accountants and whom they let in: the page that registers an accountant *)
(* (RegistroContador.tsx), POST contador/registro, the team (POST and      *)
(* DELETE contador/usuarios) and the token with which an accountant acts   *)
(* as administrator of a linked company (POST contador/cambiar-empresa).   *)
(*                                                                         *)
(* The links are those of Cuentas, without their plans: a company is       *)
(* linked at most once, when it is created, and an unlinking is final.     *)
(* actualizarPerfil changes nothing that is read here.                     *)
(***************************************************************************)
EXTENDS Naturals, FiniteSets

CONSTANTS
  Titulares,     \* users who register as accountants
  Miembros,      \* users they give access to
  Clientes,      \* companies
  Incorporaciones, \* calls of crearUsuarioEquipo
  Contextos,     \* calls of cambiarEmpresa
  MaxBajas,      \* bound: calls of eliminarUsuarioEquipo
  SinTitular

ASSUME EquipoContadorAssumption ==
  /\ SinTitular \notin Titulares /\ MaxBajas \in Nat
  /\ Incorporaciones \intersect Contextos = {}

Peticiones == Incorporaciones \union Contextos

VARIABLES
  formulario,    \* formulario[u]: the page of user u
  dadosDeAlta,   \* users that onboarding/registro has created
  buscando,      \* registrar calls that found no row: their users
  perfiles,      \* rows of contadores: their users
  titularDe,     \* titularDe[e]: accountant in the link of company e
  activas,       \* companies whose link is active
  pasoPeticion,  \* pasoPeticion[c]: where the call is
  peticion,      \* peticion[c]: [titular, miembro, empresas]
  porRevisar,    \* porRevisar[c]: companies whose link is still to be read
  filas,         \* rows of contador_usuarios: [titular, miembro, empresa, ficha]
  filasActivas,  \* those with activo
  enUso,         \* calls of cambiarEmpresa whose token is in force
  bajasPedidas,
  perdidas,      \* history: users whose last call of the page failed
  amparadas,     \* history: <<c, e>>: call c began before e was unlinked
  retirados      \* history: <<u, m>>: m removed by u and no call to add it since

altaVars == <<formulario, dadosDeAlta, buscando, perfiles, perdidas>>
enlaceVars == <<titularDe, activas>>
peticionVars == <<pasoPeticion, peticion, porRevisar>>
accesoVars == <<filas, filasActivas, enUso, bajasPedidas>>
historiaEquipo == <<amparadas, retirados>>
equipoContadorVars == <<altaVars, enlaceVars, peticionVars, accesoVars, historiaEquipo>>

SinPeticion == [titular |-> SinTitular, miembro |-> SinTitular, empresas |-> {}]

InitEquipoContador ==
  /\ formulario = [u \in Titulares |-> "datos"]
  /\ dadosDeAlta = {} /\ buscando = {} /\ perfiles = {} /\ perdidas = {}
  /\ titularDe = [e \in Clientes |-> SinTitular]
  /\ activas = {}
  /\ pasoPeticion = [c \in Peticiones |-> "reposo"]
  /\ peticion = [c \in Peticiones |-> SinPeticion]
  /\ porRevisar = [c \in Peticiones |-> {}]
  /\ filas = {} /\ filasActivas = {} /\ enUso = {} /\ bajasPedidas = 0
  /\ amparadas = {} /\ retirados = {}

-----------------------------------------------------------------------------
(* Registration                                                            *)

Avanzar(u, p) == formulario' = [formulario EXCEPT ![u] = p]

\* handleSubmit, its first call: the RNC and the e-mail are taken by an earlier
\* attempt (409), or the user and a company for the firm are created.
AltaDeTitular(u) ==
  /\ formulario[u] = "datos"
  /\ u \notin dadosDeAlta
  /\ dadosDeAlta' = dadosDeAlta \union {u}
  /\ \E p \in {"entrar", "datos"} : Avanzar(u, p)
  /\ UNCHANGED <<buscando, perfiles, perdidas, enlaceVars, peticionVars, accesoVars,
                 historiaEquipo>>

\* The login; when it fails the page goes back to its form.
EntrarTitular(u) ==
  /\ formulario[u] = "entrar"
  /\ \E p \in {"registrar", "datos"} : Avanzar(u, p)
  /\ UNCHANGED <<dadosDeAlta, buscando, perfiles, perdidas, enlaceVars, peticionVars,
                 accesoVars, historiaEquipo>>

\* ContadorService.registrar up to its insertion: 409 when there is a row.
Buscar(u) ==
  /\ u \in dadosDeAlta
  /\ buscando' = IF u \in perfiles THEN buscando ELSE buscando \union {u}
  /\ UNCHANGED <<formulario, dadosDeAlta, perfiles, perdidas, enlaceVars, peticionVars,
                 accesoVars, historiaEquipo>>

\* The insertion; usuario_id is unique.
Inscribir(u) ==
  /\ u \in buscando
  /\ perfiles' = perfiles \union {u}
  /\ UNCHANGED <<formulario, dadosDeAlta, buscando, perdidas, enlaceVars, peticionVars,
                 accesoVars, historiaEquipo>>

\* The page shows the end of the registration, whatever the answer was; a connection
\* that breaks is shown as an error, although the row may be there.
MostrarListo(u) ==
  /\ formulario[u] = "registrar"
  /\ \/ u \in perfiles /\ Avanzar(u, "listo") /\ UNCHANGED perdidas
     \/ Avanzar(u, "listo") /\ perdidas' = perdidas \union {u}
     \/ Avanzar(u, "datos") /\ UNCHANGED perdidas
  /\ UNCHANGED <<dadosDeAlta, buscando, perfiles, enlaceVars, peticionVars, accesoVars,
                 historiaEquipo>>

-----------------------------------------------------------------------------
(* Links                                                                   *)

\* crearEmpresa, when it has inserted the link.
Enlazar(u, e) ==
  /\ u \in perfiles
  /\ titularDe[e] = SinTitular
  /\ titularDe' = [titularDe EXCEPT ![e] = u]
  /\ activas' = activas \union {e}
  /\ UNCHANGED <<altaVars, peticionVars, accesoVars, historiaEquipo>>

\* desvincularEmpresa: neither the team nor the tokens of the company change.
Desenlazar(e) ==
  /\ e \in activas
  /\ activas' = activas \ {e}
  /\ amparadas' = amparadas \union
                    {<<c, e>> : c \in {d \in Peticiones : pasoPeticion[d] # "reposo"}}
  /\ UNCHANGED <<altaVars, titularDe, peticionVars, accesoVars, retirados>>

\* Mutant: the link of the accountant is looked for without activo.
SuyaAlgunaVez(u, e) == titularDe[e] = u

\* where: {contador_id, empresa_id, activo: true}
Suya(u, e) == titularDe[e] = u /\ e \in activas

-----------------------------------------------------------------------------
(* The team and the change of company                                      *)

PasarPeticion(c, p) == pasoPeticion' = [pasoPeticion EXCEPT ![c] = p]

\* obtenerPerfil finds the accountant.
Pedir(c, u, m, es) ==
  /\ pasoPeticion[c] = "reposo"
  /\ u \in perfiles
  /\ peticion' = [peticion EXCEPT ![c] = [titular |-> u, miembro |-> m, empresas |-> es]]
  /\ porRevisar' = [porRevisar EXCEPT ![c] = es]
  /\ PasarPeticion(c, "revisar")
  /\ retirados' = IF c \in Incorporaciones THEN retirados \ {<<u, m>>} ELSE retirados
  /\ UNCHANGED <<altaVars, enlaceVars, accesoVars, amparadas>>

\* One findOne per company, in the order of the request; the first company that is not
\* linked ends the call. validarEmpresaPertenece reads the only one of a change.
Revisar(c, e) ==
  /\ pasoPeticion[c] = "revisar" /\ e \in porRevisar[c]
  /\ IF Suya(peticion[c].titular, e)
     THEN /\ porRevisar' = [porRevisar EXCEPT ![c] = @ \ {e}]
          /\ IF porRevisar[c] = {e} THEN PasarPeticion(c, "conceder") ELSE UNCHANGED pasoPeticion
     ELSE PasarPeticion(c, "fin") /\ UNCHANGED porRevisar
  /\ UNCHANGED <<altaVars, enlaceVars, peticion, accesoVars, historiaEquipo>>

FilasDePeticion(f) ==
  {[titular |-> peticion[f].titular, miembro |-> peticion[f].miembro, empresa |-> e, ficha |-> f] :
    e \in peticion[f].empresas}

\* uq_contador_usuario_empresa: a row that was turned off still counts.
Repetida(r) ==
  \E s \in filas : <<s.titular, s.miembro, s.empresa>> = <<r.titular, r.miembro, r.empresa>>

\* save of the rows, in one transaction.
GuardarEquipo(f) ==
  /\ f \in Incorporaciones /\ pasoPeticion[f] = "conceder"
  /\ IF \E r \in FilasDePeticion(f) : Repetida(r)
     THEN UNCHANGED <<filas, filasActivas>>
     ELSE /\ filas' = filas \union FilasDePeticion(f)
          /\ filasActivas' = filasActivas \union FilasDePeticion(f)
  /\ PasarPeticion(f, "fin")
  /\ UNCHANGED <<altaVars, enlaceVars, peticion, porRevisar, enUso, bajasPedidas,
                 historiaEquipo>>

\* generateAccessTokenForContador
FirmarContexto(c) ==
  /\ c \in Contextos /\ pasoPeticion[c] = "conceder"
  /\ enUso' = enUso \union {c}
  /\ PasarPeticion(c, "fin")
  /\ UNCHANGED <<altaVars, enlaceVars, peticion, porRevisar, filas, filasActivas,
                 bajasPedidas, historiaEquipo>>

\* The 15 minutes of the token pass.
VencerContexto(c) ==
  /\ c \in enUso
  /\ enUso' = enUso \ {c}
  /\ UNCHANGED <<altaVars, enlaceVars, peticionVars, filas, filasActivas, bajasPedidas,
                 historiaEquipo>>

DelMiembro(u, m) == {r \in filas : r.titular = u /\ r.miembro = m}

AnadiendoA(u, m) ==
  \E f \in Incorporaciones : /\ pasoPeticion[f] \in {"revisar", "conceder"}
                    /\ peticion[f].titular = u /\ peticion[f].miembro = m

\* eliminarUsuarioEquipo: one UPDATE.
EliminarMiembro(u, m) ==
  /\ u \in perfiles
  /\ bajasPedidas < MaxBajas
  /\ bajasPedidas' = bajasPedidas + 1
  /\ filasActivas' = filasActivas \ DelMiembro(u, m)
  /\ retirados' = IF AnadiendoA(u, m) THEN retirados ELSE retirados \union {<<u, m>>}
  /\ UNCHANGED <<altaVars, enlaceVars, peticionVars, filas, enUso, amparadas>>

NextEquipoContador ==
  \/ \E u \in Titulares :
       \/ AltaDeTitular(u) \/ EntrarTitular(u) \/ Buscar(u) \/ Inscribir(u) \/ MostrarListo(u)
       \/ \E e \in Clientes : Enlazar(u, e)
       \/ \E m \in Miembros : EliminarMiembro(u, m)
       \/ \E f \in Incorporaciones, m \in Miembros, es \in SUBSET Clientes \ {{}} :
            Pedir(f, u, m, es)
       \/ \E c \in Contextos, e \in Clientes : Pedir(c, u, u, {e})
  \/ \E e \in Clientes : Desenlazar(e)
  \/ \E c \in Peticiones :
       \/ \E e \in Clientes : Revisar(c, e)
       \/ GuardarEquipo(c) \/ FirmarContexto(c) \/ VencerContexto(c)

SpecEquipoContador == InitEquipoContador /\ [][NextEquipoContador]_equipoContadorVars

-----------------------------------------------------------------------------
(* Properties                                                              *)

TypeOKEquipoContador ==
  /\ formulario \in [Titulares -> {"datos", "entrar", "registrar", "listo"}]
  /\ buscando \subseteq dadosDeAlta /\ perfiles \subseteq buscando
  /\ titularDe \in [Clientes -> perfiles \union {SinTitular}]
  /\ activas \subseteq Clientes
  /\ pasoPeticion \in [Peticiones -> {"reposo", "revisar", "conceder", "fin"}]
  /\ filasActivas \subseteq filas
  /\ enUso \subseteq Contextos /\ bajasPedidas \in 0 .. MaxBajas

\* An accountant, or a member of the team, has access only to a company that was linked
\* to that accountant when the call that gave it began; a member who was removed has none
\* unless a call that overlapped, or a later one, gave it back; and the page announces
\* an accountant that does not exist only after a call that failed.
AccesoRespaldado ==
  /\ \A c \in enUso : \A e \in peticion[c].empresas :
       /\ titularDe[e] = peticion[c].titular
       /\ e \in activas \/ <<c, e>> \in amparadas
  /\ \A r \in filasActivas :
       /\ titularDe[r.empresa] = r.titular
       /\ r.empresa \in activas \/ <<r.ficha, r.empresa>> \in amparadas
  /\ \A p \in retirados : DelMiembro(p[1], p[2]) \intersect filasActivas = {}
  /\ \A u \in Titulares : formulario[u] = "listo" => u \in perfiles \union perdidas
=============================================================================
