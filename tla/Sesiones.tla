------------------------------- MODULE Sesiones -------------------------------
(***************************************************************************)
(* The users of one company, the super administrators and their refresh    *)
(* tokens: login, refresh and logout (AuthService), create and update      *)
(* (UsersService).                                                         *)
(*                                                                         *)
(* Every call keeps in memory the rows it read.  TypeORM's save re-reads   *)
(* the row and writes the columns on which both differ, so two awaits      *)
(* separate what a call read from what it writes.  Time passes in units of *)
(* 15 minutes, the length of both lockout periods.                         *)
(***************************************************************************)
EXTENDS Naturals, FiniteSets

CONSTANTS
  Usuarios,      \* rows of usuarios and of super_admins
  SuperAdmins,   \* those of super_admins
  Primero,       \* the administrator that the registration of the company created
  Logins, Renovaciones, Salidas, Cambios,   \* calls of login, refresh, logout, update
  Mezclas,       \* bound: the sets of calls that one behaviour may make
  MaxIntentos,   \* MAX_FAILED_ATTEMPTS
  MaxReloj,      \* bound of the clock
  Nunca,         \* a null date
  Nadie          \* a null reference

\* A row of refresh_tokens has the name of the call that inserts it.
Fichas == Logins \union Renovaciones
Llamadas == Logins \union Renovaciones \union Salidas \union Cambios

ASSUME SesionesAssumption ==
  /\ IsFiniteSet(Usuarios)
  /\ SuperAdmins \subseteq Usuarios
  /\ Primero \in Usuarios \ SuperAdmins
  /\ MaxIntentos \in Nat \ {0} /\ MaxReloj \in Nat /\ Nunca \notin Nat
  /\ Nadie \notin Usuarios \union Fichas
  /\ Mezclas \subseteq SUBSET Llamadas
  /\ Logins \intersect (Renovaciones \union Salidas \union Cambios) = {}
  /\ Renovaciones \intersect (Salidas \union Cambios) = {}
  /\ Salidas \intersect Cambios = {}

Fechas == Nat \union {Nunca}
FilaUsuario == [admin : BOOLEAN, activo : BOOLEAN, intentos : Nat, primero : Fechas,
                bloqueo : Fechas]
SinUsuario == [admin |-> FALSE, activo |-> FALSE, intentos |-> 0, primero |-> Nunca,
               bloqueo |-> Nunca]

VARIABLES
  usuario,       \* usuario[u]: [rol = admin, activo, intentos_fallidos, ...]
  creados,       \* the users whose row exists
  ficha,         \* ficha[t]: [estado, dueno]; "libre" while the row does not exist
  vencidas,      \* tokens whose expira_en is past
  reloj,
  paso,          \* paso[c]: where call c is
  quien,         \* quien[c]: the user it is about, Nadie for a super administrator's token
  fichaDe,       \* fichaDe[c]: the token it has read
  copiaUsuario,  \* copiaUsuario[c]: the user in memory
  porPedir,      \* porPedir[c]: the DTO of an update
  comparadas,    \* calls whose save has re-read the row
  columnas,      \* columnas[c]: what that save will write
  fallos,        \* history: fallos[u]: wrong passwords of u
  abiertas,      \* history: logins that were answered with a token
  lectoras,      \* history: lectoras[t]: refreshes that read t while it was active
  cruce,         \* history: an update has overlapped with another update or a login
  solas,         \* history: updates nothing about their user has overlapped
  cerrados       \* history: users such an update deactivated and none activated since

filasVars == <<usuario, creados, ficha, vencidas, reloj>>
llamadaVars == <<paso, quien, fichaDe, copiaUsuario, porPedir, comparadas, columnas>>
historiaSesion == <<fallos, abiertas, lectoras, cruce, solas, cerrados>>
sesionVars == <<filasVars, llamadaVars, historiaSesion>>

Dto == [admin : {{}, {TRUE}, {FALSE}}, activo : {{}, {TRUE}, {FALSE}}]
SinDto == [admin |-> {}, activo |-> {}]

InitSesiones ==
  /\ usuario = [u \in Usuarios |-> [SinUsuario EXCEPT !.admin = (u = Primero),
                                        !.activo = u \in SuperAdmins \union {Primero}]]
  /\ creados = SuperAdmins \union {Primero}
  /\ ficha = [t \in Fichas |-> [estado |-> "libre", dueno |-> Nadie]]
  /\ vencidas = {}
  /\ reloj = 0
  /\ \E mezcla \in Mezclas :
       paso = [c \in Llamadas |-> IF c \in mezcla THEN "reposo" ELSE "fin"]
  /\ quien = [c \in Llamadas |-> Nadie]
  /\ fichaDe = [c \in Llamadas |-> Nadie]
  /\ copiaUsuario = [c \in Llamadas |-> SinUsuario]
  /\ porPedir = [c \in Cambios |-> SinDto]
  /\ comparadas = {}
  /\ columnas = [c \in Llamadas |-> {}]
  /\ fallos = [u \in Usuarios |-> 0]
  /\ abiertas = {}
  /\ lectoras = [t \in Fichas |-> {}]
  /\ cruce = FALSE
  /\ solas = {}
  /\ cerrados = {}

EnCurso(c) == paso[c] \notin {"reposo", "fin"}

Pasar(c, p) == paso' = [paso EXCEPT ![c] = p]

\* History of a call c about user u that begins.
Anotar(c, u) ==
  /\ cruce' = \/ cruce
              \/ c \in Cambios /\ \E x \in Cambios \union Logins : EnCurso(x)
              \/ c \in Logins /\ \E x \in Cambios : EnCurso(x)
  /\ solas' = {x \in solas : quien[x] # u} \union
              (IF c \in Cambios /\ \A x \in Llamadas : EnCurso(x) => quien[x] # u
               THEN {c} ELSE {})

-----------------------------------------------------------------------------
(* login, of a user or of a super administrator                            *)

Bloqueado(fila) == fila.bloqueo # Nunca /\ fila.bloqueo > reloj

SinFallos(fila) == [fila EXCEPT !.intentos = 0, !.primero = Nunca, !.bloqueo = Nunca]

\* One more failure in the window, or the first of a new window.
ConUnFallo(fila) ==
  LET sigue == fila.primero # Nunca /\ reloj - fila.primero <= 1
      n == IF sigue THEN fila.intentos + 1 ELSE 1
  IN [fila EXCEPT !.intentos = n, !.primero = IF sigue THEN @ ELSE reloj,
                  !.bloqueo = IF n >= MaxIntentos THEN reloj + 1 ELSE @]

\* The row is active and not locked; an expired lockout is cleared and saved first.
LeerLogin(c, u) ==
  /\ paso[c] = "reposo"
  /\ u \in creados /\ usuario[u].activo /\ ~Bloqueado(usuario[u])
  /\ quien' = [quien EXCEPT ![c] = u]
  /\ IF usuario[u].bloqueo = Nunca
     THEN Pasar(c, "clave") /\ copiaUsuario' = [copiaUsuario EXCEPT ![c] = usuario[u]]
     ELSE /\ Pasar(c, "limpiar")
          /\ copiaUsuario' = [copiaUsuario EXCEPT ![c] = SinFallos(usuario[u])]
  /\ Anotar(c, u)
  /\ UNCHANGED <<filasVars, fichaDe, porPedir, comparadas, columnas, fallos, abiertas,
                 lectoras, cerrados>>

\* 401 or 429 before the password is looked at.
RechazarLogin(c, u) ==
  /\ paso[c] = "reposo"
  /\ u \in creados => ~usuario[u].activo \/ Bloqueado(usuario[u])
  /\ Pasar(c, "fin")
  /\ UNCHANGED <<filasVars, quien, fichaDe, copiaUsuario, porPedir, comparadas, columnas,
                 historiaSesion>>

ClaveErrada(c) ==
  /\ paso[c] = "clave"
  /\ copiaUsuario' = [copiaUsuario EXCEPT ![c] = ConUnFallo(@)]
  /\ fallos' = [fallos EXCEPT ![quien[c]] = @ + 1]
  /\ Pasar(c, "fallo")
  /\ UNCHANGED <<filasVars, quien, fichaDe, porPedir, comparadas, columnas, abiertas,
                 lectoras, cruce, solas, cerrados>>

ClaveBuena(c) ==
  /\ paso[c] = "clave"
  /\ copiaUsuario' = [copiaUsuario EXCEPT ![c] = SinFallos(@)]
  /\ Pasar(c, IF SinFallos(copiaUsuario[c]) = copiaUsuario[c] THEN "emitir" ELSE "exito")
  /\ UNCHANGED <<filasVars, quien, fichaDe, porPedir, comparadas, columnas, historiaSesion>>

\* The company, read with the user, is inactive: 403.
EmpresaInactiva(c) ==
  /\ paso[c] = "emitir" /\ quien[c] \notin SuperAdmins \union {Nadie}
  /\ Pasar(c, "fin")
  /\ UNCHANGED <<filasVars, quien, fichaDe, copiaUsuario, porPedir, comparadas, columnas,
                 historiaSesion>>

\* createRefreshToken; the token of a super administrator names no user.
Emitir(c) ==
  /\ paso[c] = "emitir"
  /\ ficha' = [ficha EXCEPT ![c] =
                 [estado |-> "activo",
                  dueno |-> IF quien[c] \in SuperAdmins THEN Nadie ELSE quien[c]]]
  /\ abiertas' = abiertas \union ({c} \intersect Logins)
  /\ Pasar(c, "fin")
  /\ UNCHANGED <<usuario, creados, vencidas, reloj, quien, fichaDe, copiaUsuario, porPedir,
                 comparadas, columnas, fallos, lectoras, cruce, solas, cerrados>>

-----------------------------------------------------------------------------
(* refresh and logout                                                      *)

LeerFicha(c, t) ==
  /\ paso[c] = "reposo"
  /\ ficha[t].estado = "activo"
  /\ fichaDe' = [fichaDe EXCEPT ![c] = t]
  /\ quien' = [quien EXCEPT ![c] = ficha[t].dueno]
  /\ Pasar(c, CASE c \in Salidas -> "salir"
                [] t \in vencidas /\ c \in Renovaciones -> "caducar"
                [] OTHER -> "canjear")
  /\ lectoras' = [lectoras EXCEPT ![t] = @ \union ({c} \intersect Renovaciones)]
  /\ Anotar(c, ficha[t].dueno)
  /\ UNCHANGED <<filasVars, copiaUsuario, porPedir, comparadas, columnas, fallos, abiertas,
                 cerrados>>

\* No active row has that hash: refresh answers 401, logout nothing.
SinFicha(c, t) ==
  /\ paso[c] = "reposo"
  /\ ficha[t].estado # "activo"
  /\ Pasar(c, "fin")
  /\ UNCHANGED <<filasVars, quien, fichaDe, copiaUsuario, porPedir, comparadas, columnas,
                 historiaSesion>>

EstadoFinal(c) == IF paso[c] = "caducar" THEN "expirado" ELSE "revocado"

\* Mutant: the token is only revoked by logout.
SoloSiSale(c) == IF paso[c] = "salir" THEN "revocado" ELSE ficha[fichaDe[c]].estado

EstadoGuardado(c) == EstadoFinal(c)

\* save of the token: estado is the only column that changes, and never to active,
\* so what happens between its two halves makes no difference.
GuardarFicha(c) ==
  /\ paso[c] \in {"canjear", "caducar", "salir"}
  /\ ficha' = [ficha EXCEPT ![fichaDe[c]].estado = EstadoGuardado(c)]
  /\ Pasar(c, CASE paso[c] # "canjear" -> "fin"
                [] paso[c] = "canjear" /\ quien[c] = Nadie -> "emitir"
                [] OTHER -> "titular")
  /\ UNCHANGED <<usuario, creados, vencidas, reloj, quien, fichaDe, copiaUsuario, porPedir,
                 comparadas, columnas, historiaSesion>>

\* The user of the token, read after it was revoked.
LeerTitular(c) ==
  /\ paso[c] = "titular"
  /\ Pasar(c, IF usuario[quien[c]].activo THEN "emitir" ELSE "fin")
  /\ UNCHANGED <<filasVars, quien, fichaDe, copiaUsuario, porPedir, comparadas, columnas,
                 historiaSesion>>

-----------------------------------------------------------------------------
(* create and update of users                                              *)

CrearUsuario(u, esAdmin) ==
  /\ u \in Usuarios \ creados
  /\ creados' = creados \union {u}
  /\ usuario' = [usuario EXCEPT ![u] = [SinUsuario EXCEPT !.admin = esAdmin,
                                                         !.activo = TRUE]]
  /\ UNCHANGED <<ficha, vencidas, reloj, llamadaVars, historiaSesion>>

QuitaAdmin(fila, dto) == fila.admin /\ (dto.activo = {FALSE} \/ dto.admin = {FALSE})

ConDto(fila, dto) ==
  [fila EXCEPT !.admin = IF dto.admin = {} THEN @ ELSE TRUE \in dto.admin,
               !.activo = IF dto.activo = {} THEN @ ELSE TRUE \in dto.activo]

LeerCambio(c, u, dto) ==
  /\ paso[c] = "reposo"
  /\ u \in creados \ SuperAdmins
  /\ dto # SinDto
  /\ quien' = [quien EXCEPT ![c] = u]
  /\ porPedir' = [porPedir EXCEPT ![c] = dto]
  /\ copiaUsuario' = [copiaUsuario EXCEPT ![c] = ConDto(usuario[u], dto)]
  /\ Pasar(c, IF QuitaAdmin(usuario[u], dto) THEN "contar" ELSE "guardar")
  /\ Anotar(c, u)
  /\ UNCHANGED <<filasVars, fichaDe, comparadas, columnas, fallos, abiertas, lectoras,
                 cerrados>>

AdminsActivos == {u \in Usuarios \ SuperAdmins : usuario[u].admin /\ usuario[u].activo}

\* Mutant: the last one is counted as one to spare.
SobraSinContarse == Cardinality(AdminsActivos) >= 1

SobraAlguno == Cardinality(AdminsActivos) > 1

\* validateLastAdminProtection
ContarAdmins(c) ==
  /\ paso[c] = "contar"
  /\ Pasar(c, IF SobraAlguno THEN "guardar" ELSE "fin")
  /\ UNCHANGED <<filasVars, quien, fichaDe, copiaUsuario, porPedir, comparadas, columnas,
                 historiaSesion>>

-----------------------------------------------------------------------------
(* save of a user: one step reads the row again, another writes            *)

Guardando(c) == paso[c] \in {"limpiar", "fallo", "exito", "guardar"}

Comparar(c) ==
  /\ Guardando(c) /\ c \notin comparadas
  /\ comparadas' = comparadas \union {c}
  /\ columnas' = [columnas EXCEPT ![c] =
                    LET fila == usuario[quien[c]]
                    IN {k \in DOMAIN fila : fila[k] # copiaUsuario[c][k]}]
  /\ UNCHANGED <<filasVars, paso, quien, fichaDe, copiaUsuario, porPedir, historiaSesion>>

Siguiente(p) == CASE p = "limpiar" -> "clave" [] p = "exito" -> "emitir" [] OTHER -> "fin"

SeDesactiva(c) == c \in Cambios /\ porPedir[c].activo = {FALSE}

\* Mutant: the tokens are not revoked with their user.
NingunaFicha(c) == {}

FichasQueCaen(c) ==
  IF SeDesactiva(c) THEN {t \in Fichas : /\ ficha[t].estado = "activo"
                                         /\ ficha[t].dueno = quien[c]}
  ELSE {}

\* The UPDATE; a deactivation revokes the user's tokens in the same transaction.
Escribir(c) ==
  LET u == quien[c]
  IN /\ c \in comparadas
     /\ usuario' = [usuario EXCEPT ![u] =
                      [k \in DOMAIN @ |-> IF k \in columnas[c] THEN copiaUsuario[c][k] ELSE @[k]]]
     /\ ficha' = [t \in Fichas |-> IF t \in FichasQueCaen(c)
                                   THEN [ficha[t] EXCEPT !.estado = "revocado"] ELSE ficha[t]]
     /\ comparadas' = comparadas \ {c}
     /\ columnas' = [columnas EXCEPT ![c] = {}]
     /\ Pasar(c, Siguiente(paso[c]))
     /\ cerrados' = IF SeDesactiva(c) /\ c \in solas THEN cerrados \union {u}
                    ELSE IF c \in Cambios /\ porPedir[c].activo = {TRUE} THEN cerrados \ {u}
                    ELSE cerrados
     /\ UNCHANGED <<creados, vencidas, reloj, quien, fichaDe, copiaUsuario, porPedir, fallos,
                    abiertas, lectoras, cruce, solas>>

-----------------------------------------------------------------------------
AvanzarReloj ==
  /\ reloj < MaxReloj
  /\ reloj' = reloj + 1
  /\ UNCHANGED <<usuario, creados, ficha, vencidas, llamadaVars, historiaSesion>>

Vencer(t) ==
  /\ ficha[t].estado # "libre" /\ t \notin vencidas
  /\ vencidas' = vencidas \union {t}
  /\ UNCHANGED <<usuario, creados, ficha, reloj, llamadaVars, historiaSesion>>

\* A call ends with an error of the database or a stop of the server.
Interrumpir(c) ==
  /\ EnCurso(c)
  /\ Pasar(c, "fin")
  /\ comparadas' = comparadas \ {c}
  /\ columnas' = [columnas EXCEPT ![c] = {}]
  /\ UNCHANGED <<filasVars, quien, fichaDe, copiaUsuario, porPedir, historiaSesion>>

NextSesiones ==
  \/ \E c \in Logins :
       \/ \E u \in Usuarios : LeerLogin(c, u) \/ RechazarLogin(c, u)
       \/ ClaveErrada(c) \/ ClaveBuena(c)
  \/ \E c \in Renovaciones \union Salidas :
       \/ \E t \in Fichas : LeerFicha(c, t) \/ SinFicha(c, t)
       \/ GuardarFicha(c) \/ LeerTitular(c)
  \/ \E c \in Logins \union Renovaciones :
       EmpresaInactiva(c) \/ Emitir(c)
  \/ \E c \in Cambios :
       (\E u \in Usuarios, dto \in Dto : LeerCambio(c, u, dto)) \/ ContarAdmins(c)
  \/ \E c \in Llamadas : Comparar(c) \/ Escribir(c) \/ Interrumpir(c)
  \/ \E u \in Usuarios, esAdmin \in BOOLEAN : CrearUsuario(u, esAdmin)
  \/ AvanzarReloj
  \/ \E t \in Fichas : Vencer(t)

SpecSesiones == InitSesiones /\ [][NextSesiones]_sesionVars

-----------------------------------------------------------------------------
(* Properties                                                              *)

TypeOKSesiones ==
  /\ usuario \in [Usuarios -> FilaUsuario]
  /\ creados \subseteq Usuarios
  /\ ficha \in [Fichas -> [estado : {"libre", "activo", "revocado", "expirado"},
                           dueno : Usuarios \union {Nadie}]]
  /\ vencidas \subseteq Fichas
  /\ reloj \in 0 .. MaxReloj
  /\ paso \in [Llamadas -> {"reposo", "limpiar", "clave", "fallo", "exito", "emitir",
                            "canjear", "caducar", "salir", "titular", "contar", "guardar",
                            "fin"}]
  /\ quien \in [Llamadas -> Usuarios \union {Nadie}]
  /\ fichaDe \in [Llamadas -> Fichas \union {Nadie}]
  /\ copiaUsuario \in [Llamadas -> FilaUsuario]
  /\ porPedir \in [Cambios -> Dto]
  /\ comparadas \subseteq {c \in Llamadas : Guardando(c)}
  /\ \A c \in Llamadas : columnas[c] \subseteq DOMAIN SinUsuario

\* The company keeps an active administrator whatever its administrators ask,
\* as long as no update has overlapped with another update or with a login: the
\* count that protects the last one is read apart from the row it protects.
HayAdministrador == ~cruce => AdminsActivos # {}

\* Once a user was deactivated with nothing of his in progress, he is inactive and
\* has no active refresh token until an administrator activates him again.
BajaCierraSesiones ==
  \A u \in cerrados :
    /\ ~usuario[u].activo
    /\ \A t \in Fichas : ~(ficha[t].estado = "activo" /\ ficha[t].dueno = u)

\* A row is never locked before MaxIntentos wrong passwords, in whatever order
\* concurrent logins save the counters they read.
BloqueoJustificado ==
  \A u \in Usuarios :
    /\ usuario[u].intentos <= fallos[u]
    /\ usuario[u].bloqueo # Nunca => fallos[u] >= MaxIntentos

\* Sessions do not multiply: there is at most one active refresh token for every
\* login, but for the refreshes that held one token at the same time.
SesionesAcotadas ==
  LET repetidas(t) == IF lectoras[t] = {} THEN {} ELSE lectoras[t] \ {CHOOSE c \in lectoras[t] : TRUE}
  IN Cardinality({t \in Fichas : ficha[t].estado = "activo"}) <=
       Cardinality(abiertas) + Cardinality(UNION {repetidas(t) : t \in Fichas})
=============================================================================
