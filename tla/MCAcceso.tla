------------------------------- MODULE MCAcceso -------------------------------
(***************************************************************************)
(* Who may use the system and who pays for it: sessions, devices, keys,    *)
(* the limit of requests, accounts, the row of a company, its registration *)
(* and the session of the web client.  They share no state, so they go in  *)
(* one run: a behaviour moves one of them, and the states of the run are   *)
(* the sum of theirs.                                                      *)
(***************************************************************************)
EXTENDS Sesiones, Equipos, LlavesApi, Cuentas, Empresa, Onboarding, SesionWeb,
        LimiteSolicitudes, EquipoContador, TLC

CONSTANTS
  l1, l2, l3, r1, r2, o1, u1, u2,   \* logins, refreshes, a logout, updates of users
  p1, p2, x1, y1, y2, g1, g2, s1,   \* changes of plan, an unlinking, an assignment of
                                    \* plan, another save of a company, monthly runs,
                                    \* a suspension
  c1, c2,                           \* uploads of a certificate
  h1, h2, h3, i1, i2, i3, i4,       \* wizards and their registrations
  na, nb, ea, eb,                   \* RNCs and e-mails
  q1, q2, q3,                       \* requests of one user
  b1, b2, d1, d2,                   \* tabs and tokens of the web client
  sol, mar, em1, em2, f1, f2, cx1   \* accountants, their companies, and calls of theirs

\* Which calls of Sesiones, and which of Cuentas, go together.
MezclasElegidas ==
  {{l1, r1, r2}, {l1, l2, l3}, {u1, u2}, {l1, r1, u1}, {l1, o1, u1}, {l1, r1, o1}}
RepartosElegidos == {{g1, g2, s1}, {p1, x1, s1}, {p1, p2, y2}, {p1, y1, y2}}

\* Two certificates, of which the second expires.
MCVenceDe == (c1 :> 2) @@ (c2 :> 1)

\* The second wizard has the RNC of the first, and the third its e-mail.
MCRncDe == (h1 :> na) @@ (h2 :> na) @@ (h3 :> nb)
MCEmailDe == (h1 :> ea) @@ (h2 :> eb) @@ (h3 :> ea)
MCAsistenteDe == (i1 :> h1) @@ (i2 :> h1) @@ (i3 :> h2) @@ (i4 :> h3)

VARIABLE parte

\* At most three requests write the row of a company.
TresEscritores == Cardinality({g \in Guardados : pasoEmpresa'[g] # "inicio"}) <= 3

\* Logins are alike, and so are refreshes, changes of plan, monthly jobs and requests:
\* they arrive in order.  The calendar, which only the jobs look at, advances while one of
\* them is still to start.
SesionesEnOrden ==
  \A p \in {<<l1, l2>>, <<l2, l3>>, <<r1, r2>>} :
    paso'[p[2]] # paso[p[2]] => paso'[p[1]] # "reposo"

CuentasEnOrden ==
  /\ pasoGestion'[p2] # pasoGestion[p2] => pasoGestion'[p1] # "reposo"
  /\ pasoTrabajo'[g2] # pasoTrabajo[g2] => pasoTrabajo'[g1] # "reposo"
  /\ UNCHANGED calendario \/ \E j \in Trabajos : pasoTrabajo[j] = "reposo"

\* Users are rows of their own: the logins of one behaviour are those of one of them.
DeUnUsuario == Cardinality({quien'[l] : l \in Logins} \ {Nadie}) <= 1

\* The tokens of the web client are alike.
TokensEnOrden == d2 \in tokensDados' => d1 \in tokensDados'

\* The second tab has one call in progress, and the first as many as a tab may have.
UnaEnLaSegunda == Cardinality(enVuelo'[b2]) <= 1

EnOrden ==
  \A p \in {<<q1, q2>>, <<q2, q3>>} :
    pasoLimite'[p[2]] # "reposo" => pasoLimite'[p[1]] # "reposo"

\* The accountants register, then have companies, then a team: one call after the
\* other, and the change of company before the second of them.
Fases ==
  \/ /\ \A e \in Clientes : titularDe'[e] = SinTitular
     /\ UNCHANGED pasoPeticion /\ bajasPedidas' = 0
  \/ /\ perdidas = {} /\ \A u \in Titulares : formulario[u] = "listo"
     /\ UNCHANGED altaVars
     /\ titularDe'[em2] # SinTitular => titularDe'[em1] = sol
     /\ pasoPeticion'[f2] # "reposo" =>
          pasoPeticion'[f1] # "reposo" /\ pasoPeticion'[cx1] = "reposo"

InitAcceso ==
  /\ parte \in {"sesiones", "equipos", "llaves", "cuentas", "empresa", "onboarding", "web",
               "limite", "contador"}
  /\ InitSesiones /\ InitEquipos /\ InitLlaves /\ InitCuentas
  /\ InitEmpresa /\ InitOnboarding /\ InitSesionWeb /\ InitLimite
  /\ InitEquipoContador
  \* The components that do not move start in one way.
  /\ parte # "sesiones" => \A c \in Llamadas : paso[c] = "reposo" <=> c \in {l1, l2, l3}
  /\ parte # "equipos" => limite = 0
  /\ parte # "cuentas" =>
       /\ \A c \in Gestiones : pasoGestion[c] = "reposo" <=> c \in {p1, p2}
       /\ \A w \in Guardadas : pasoGuardada[w] = "reposo" <=> w = y2
       /\ \A j \in Trabajos : pasoTrabajo[j] = "fin"

usuarioVars == <<sesionVars, equipoVars, llaveVars>>
cuotaVars == <<cuentaVars, limiteVars, equipoContadorVars>>
portalVars == <<empresaVars, onboardingVars, sesionWebVars>>

NextAcceso ==
  /\ UNCHANGED parte
  /\ \/ /\ parte = "sesiones" /\ NextSesiones /\ SesionesEnOrden /\ DeUnUsuario
        /\ UNCHANGED <<equipoVars, llaveVars, cuotaVars, portalVars>>
     \/ /\ parte = "equipos" /\ NextEquipos
        /\ UNCHANGED <<sesionVars, llaveVars, cuotaVars, portalVars>>
     \/ /\ parte = "llaves" /\ NextLlaves
        /\ UNCHANGED <<sesionVars, equipoVars, cuotaVars, portalVars>>
     \/ /\ parte = "cuentas" /\ NextCuentas /\ CuentasEnOrden
        /\ UNCHANGED <<usuarioVars, limiteVars, equipoContadorVars, portalVars>>
     \/ /\ parte = "limite" /\ NextLimite /\ EnOrden
        /\ UNCHANGED <<usuarioVars, cuentaVars, equipoContadorVars, portalVars>>
     \/ /\ parte = "contador" /\ NextEquipoContador /\ Fases
        /\ UNCHANGED <<usuarioVars, cuentaVars, limiteVars, portalVars>>
     \/ /\ parte = "empresa" /\ NextEmpresa /\ TresEscritores
        /\ UNCHANGED <<usuarioVars, cuotaVars, onboardingVars, sesionWebVars>>
     \/ /\ parte = "onboarding" /\ NextOnboarding
        /\ UNCHANGED <<usuarioVars, cuotaVars, empresaVars, sesionWebVars>>
     \/ /\ parte = "web" /\ NextSesionWeb /\ TokensEnOrden /\ UnaEnLaSegunda
        /\ UNCHANGED <<usuarioVars, cuotaVars, empresaVars, onboardingVars>>

SpecAcceso == InitAcceso /\ [][NextAcceso]_<<parte, usuarioVars, cuotaVars, portalVars>>

\* The variables of the component that moves have their types, and so those of each one.
TypeOKAcceso ==
  CASE parte = "sesiones" -> TypeOKSesiones
    [] parte = "equipos" -> TypeOKEquipos
    [] parte = "llaves" -> TypeOKLlaves
    [] parte = "cuentas" -> TypeOKCuentas
    [] parte = "empresa" -> TypeOKEmpresa
    [] parte = "onboarding" -> TypeOKOnboarding
    [] parte = "web" -> TypeOKSesionWeb
    [] parte = "limite" -> TypeOKLimite
    [] parte = "contador" -> TypeOKEquipoContador

\* A user that is switched off or leaves keeps no session, one is locked only after
\* failed logins of its own, and an accountant or a member of its team acts only for a
\* company that was linked to it.
CuentaProtegida == BajaCierraSesiones /\ BloqueoJustificado /\ AccesoRespaldado

\* The four limits that are counted before an insertion: what overlapping calls can
\* exceed them by.
CuposAcotados == SesionesAcotadas /\ EquiposAcotados /\ LlavesAcotadas /\ SolicitudesAcotadas

\* What a company needs to begin: a certificate that opens, the administrator of its own
\* registration, and a 409 only for an RNC or an e-mail that is registered.
EmpresaCoherente == CertificadoUsable /\ AltaEntera /\ OcupadoExplicado
=============================================================================
