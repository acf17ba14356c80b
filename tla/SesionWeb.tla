------------------------------- MODULE SesionWeb -------------------------------
(***************************************************************************)
(* The session of the web client: AuthContext, the change of company of an *)
(* accountant (Layout, Contador) and what each tab shows.  localStorage is *)
(* one for all the tabs; every tab has the token of its AuthContext, the   *)
(* one Layout's effects read (the name of the company, its selector, its   *)
(* state with the DGII), and the one its page read when it was drawn       *)
(* (Contador, Reportes, FacturasBatch).  Layout's effects depend on        *)
(* isAuthenticated, not on the token.                                      *)
(*                                                                         *)
(* The server is external: it answers a login with a new token, a change   *)
(* of company with another, and 401 to a token that has expired.  A page   *)
(* that is left or loaded again forgets the calls it had in progress.      *)
(***************************************************************************)
EXTENDS Naturals, FiniteSets

CONSTANTS
  Pestanas,      \* tabs of one browser
  Tokens,        \* access tokens the server will issue, each for a company
  MaxEnVuelo,    \* bound: calls of a tab in progress
  SinSesion

ASSUME SesionWebAssumption ==
  /\ SinSesion \notin Tokens
  /\ MaxEnVuelo \in Nat

VARIABLES
  guardado,      \* access_token in localStorage
  abierta,       \* abierta[p]: the tab has the application loaded
  accessToken,   \* accessToken[p]: the token of its AuthContext
  muestra,       \* muestra[p]: the token Layout's effects read
  leido,         \* leido[p]: the token its page read when it was drawn
  enVuelo,       \* enVuelo[p]: calls of the tab in progress, with their token
  tokensDados,   \* tokens the server has issued
  tokensVencidos,\* tokens whose exp has passed
  ajeno,         \* history: ajeno[p]: another tab wrote localStorage since p loaded
  encima         \* history: encima[p]: a login came in p over a session that was open

pantallaVars == <<abierta, accessToken, muestra, leido>>
sesionWebVars == <<guardado, pantallaVars, enVuelo, tokensDados, tokensVencidos, ajeno, encima>>

Llamada == [que : {"entrada", "cambio", "salida", "auth"}, token : Tokens \union {SinSesion}]

InitSesionWeb ==
  /\ guardado = SinSesion
  /\ abierta = [p \in Pestanas |-> FALSE]
  /\ accessToken = [p \in Pestanas |-> SinSesion]
  /\ muestra = [p \in Pestanas |-> SinSesion]
  /\ leido = [p \in Pestanas |-> SinSesion]
  /\ enVuelo = [p \in Pestanas |-> {}]
  /\ tokensDados = {} /\ tokensVencidos = {}
  /\ ajeno = [p \in Pestanas |-> FALSE]
  /\ encima = [p \in Pestanas |-> FALSE]

\* A tab sets or removes access_token.
EscribirToken(p, t) ==
  /\ guardado' = t
  /\ ajeno' = [q \in Pestanas |-> IF q = p THEN FALSE ELSE TRUE]

\* The page of p goes on with token t and the effects of Layout with token m.
Pintar(p, t, m) ==
  /\ accessToken' = [accessToken EXCEPT ![p] = t]
  /\ muestra' = [muestra EXCEPT ![p] = m]
  /\ leido' = [leido EXCEPT ![p] = SinSesion]

\* The application is opened in the tab, or loaded again.
Abrir(p) ==
  /\ abierta' = [abierta EXCEPT ![p] = TRUE]
  /\ Pintar(p, guardado, guardado)
  /\ enVuelo' = [enVuelo EXCEPT ![p] = {}]
  /\ ajeno' = [ajeno EXCEPT ![p] = FALSE]
  /\ encima' = [encima EXCEPT ![p] = FALSE]
  /\ UNCHANGED <<guardado, tokensDados, tokensVencidos>>

\* A page that reads the token when it is drawn, or drawn again.
DibujarPagina(p) ==
  /\ accessToken[p] # SinSesion
  /\ leido' = [leido EXCEPT ![p] = guardado]
  /\ UNCHANGED <<guardado, abierta, accessToken, muestra, enVuelo, tokensDados, tokensVencidos,
                 ajeno, encima>>

\* The call begins.
Llamar(p, l) ==
  /\ Cardinality(enVuelo[p]) < MaxEnVuelo
  /\ enVuelo' = [enVuelo EXCEPT ![p] = @ \union {l}]
  /\ UNCHANGED <<guardado, pantallaVars, tokensDados, tokensVencidos, ajeno, encima>>

Vale(t) == t # SinSesion /\ t \notin tokensVencidos

\* handleSubmit of Login or RegistroContador: their routes are open, whoever is signed in.
PedirEntrada(p) == abierta[p] /\ Llamar(p, [que |-> "entrada", token |-> SinSesion])

\* login().  Over a session that is open the effects of Layout do not run again.
Entrar(p, t) ==
  LET l == [que |-> "entrada", token |-> SinSesion]
      sobreOtra == accessToken[p] # SinSesion
  IN /\ l \in enVuelo[p]
     /\ t \notin tokensDados
     /\ tokensDados' = tokensDados \union {t}
     /\ enVuelo' = [enVuelo EXCEPT ![p] = @ \ {l}]
     /\ Pintar(p, t, IF sobreOtra THEN muestra[p] ELSE t)
     /\ encima' = [encima EXCEPT ![p] = sobreOtra]
     /\ EscribirToken(p, t)
     /\ UNCHANGED <<abierta, tokensVencidos>>

\* The button of a company: the selector of Layout reads localStorage when it is pressed,
\* the panel of accountants when it was drawn.
PedirCambio(p) ==
  /\ accessToken[p] # SinSesion
  /\ \E t \in {guardado, leido[p]} : Llamar(p, [que |-> "cambio", token |-> t])

\* Mutant: the page stays as it was.
QuedarseEnLaPagina(p) == UNCHANGED pantallaVars

\* /dashboard is not a path of the application, which lives under /app: until the user
\* opens it again the tab shows nothing of it.
IrADashboard(p) ==
  /\ abierta' = [abierta EXCEPT ![p] = FALSE]
  /\ Pintar(p, SinSesion, SinSesion)

\* The new token is stored, and the page left.
CambiarDeEmpresa(p, l, t) ==
  /\ l \in enVuelo[p] /\ l.que = "cambio"
  /\ Vale(l.token)
  /\ t \notin tokensDados
  /\ tokensDados' = tokensDados \union {t}
  /\ enVuelo' = [enVuelo EXCEPT ![p] = {}]
  /\ IrADashboard(p)
  /\ encima' = [encima EXCEPT ![p] = FALSE]
  /\ EscribirToken(p, t)
  /\ UNCHANGED tokensVencidos

\* authFetch, of the pages of the super administrator and of MiPlan.
PedirConAuth(p) ==
  /\ accessToken[p] # SinSesion
  /\ Llamar(p, [que |-> "auth", token |-> guardado])

\* logout: best effort, and one at a time.
PedirSalida(p) ==
  /\ accessToken[p] # SinSesion
  /\ \A l \in enVuelo[p] : l.que # "salida"
  /\ Llamar(p, [que |-> "salida", token |-> guardado])

\* clearSession, whichever session localStorage holds by now.
Limpiar(p, vuelan) ==
  /\ Pintar(p, SinSesion, SinSesion)
  /\ enVuelo' = [enVuelo EXCEPT ![p] = vuelan]
  /\ encima' = [encima EXCEPT ![p] = FALSE]
  /\ EscribirToken(p, SinSesion)
  /\ UNCHANGED <<abierta, tokensDados, tokensVencidos>>

Salir(p, l) ==
  /\ l \in enVuelo[p] /\ l.que = "salida"
  /\ Limpiar(p, enVuelo[p] \ {l})

\* authFetch receives a 401: the session is cleared and the page of login loaded.
Recibir401(p, l) ==
  /\ l \in enVuelo[p] /\ l.que = "auth"
  /\ ~Vale(l.token)
  /\ Limpiar(p, {})

\* A call that changes nothing: another answer, or none.
Ignorar(p, l) ==
  /\ l \in enVuelo[p] /\ l.que # "salida"
  /\ enVuelo' = [enVuelo EXCEPT ![p] = @ \ {l}]
  /\ UNCHANGED <<guardado, pantallaVars, tokensDados, tokensVencidos, ajeno, encima>>

\* checkExpiry, when the tab loads and every 30 s; the page of login is loaded.
RevisarVencimiento(p) ==
  /\ abierta[p]
  /\ guardado \in tokensVencidos
  /\ Limpiar(p, {})

VencerToken(t) ==
  /\ t \in tokensDados \ tokensVencidos
  /\ tokensVencidos' = tokensVencidos \union {t}
  /\ UNCHANGED <<guardado, pantallaVars, enVuelo, tokensDados, ajeno, encima>>

NextSesionWeb ==
  \/ \E p \in Pestanas :
       \/ Abrir(p) \/ DibujarPagina(p)
       \/ PedirEntrada(p) \/ PedirCambio(p) \/ PedirConAuth(p) \/ PedirSalida(p)
       \/ \E t \in Tokens : Entrar(p, t)
       \/ \E l \in enVuelo[p] :
            \/ Salir(p, l) \/ Recibir401(p, l) \/ Ignorar(p, l)
            \/ \E t \in Tokens : CambiarDeEmpresa(p, l, t)
       \/ RevisarVencimiento(p)
  \/ \E t \in Tokens : VencerToken(t)

SpecSesionWeb == InitSesionWeb /\ [][NextSesionWeb]_sesionWebVars

-----------------------------------------------------------------------------
(* Properties                                                              *)

TypeOKSesionWeb ==
  /\ guardado \in Tokens \union {SinSesion}
  /\ abierta \in [Pestanas -> BOOLEAN]
  /\ accessToken \in [Pestanas -> Tokens \union {SinSesion}]
  /\ muestra \in [Pestanas -> Tokens \union {SinSesion}]
  /\ leido \in [Pestanas -> Tokens \union {SinSesion}]
  /\ enVuelo \in [Pestanas -> SUBSET Llamada]
  /\ tokensDados \subseteq Tokens /\ tokensVencidos \subseteq Tokens
  /\ ajeno \in [Pestanas -> BOOLEAN]
  /\ encima \in [Pestanas -> BOOLEAN]

\* Whichever of its three tokens a tab signs with (localStorage at the call, the one its
\* page read, the one of AuthContext), what it sends is for the company whose name it
\* shows, and no tab shows a company with nothing stored: late 401s, slow logouts,
\* changes of company and expiries leave them the same.  It excludes a tab since whose
\* load another one wrote localStorage, and one where a login came over an open session.
EmpresaMostrada ==
  \A p \in Pestanas :
    muestra[p] # SinSesion /\ ~ajeno[p] /\ ~encima[p] =>
      /\ guardado = muestra[p] /\ accessToken[p] = muestra[p]
      /\ leido[p] \in {SinSesion, muestra[p]}
=============================================================================
