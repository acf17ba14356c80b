------------------------------ MODULE AccesoProofs ------------------------------
(***************************************************************************)
(* Proofs about the components of MCAcceso, for any number of users,       *)
(* companies, calls and tabs: the session of the web client (SesionWeb),   *)
(* the billing of accountants (Cuentas) and the users with their sessions  *)
(* (Sesiones).                                                             *)
(*                                                                         *)
(* The three have calls that read a row, decide, and write part of it      *)
(* later, so each invariant says what the copies in memory entail about    *)
(* the rows: in Cuentas, which call may still write what; in Sesiones,     *)
(* that no copy counts failures that did not happen (IndBloqueo), that an  *)
(* update alone leaves an administrator (IndAdmin) and that one alone with *)
(* its user keeps him out (IndBaja).                                       *)
(***************************************************************************)
EXTENDS MCAcceso, FiniteSetTheorems, TLAPS

-----------------------------------------------------------------------------
(* The session of the web client                                           *)

\* A tab where no login came over an open session, and that nobody else has written over
\* since it loaded, shows, holds and has read the token that is stored; what it has in
\* flight carries the tokens of the time it was sent, and does not matter.
IndSesionWeb ==
  /\ guardado \in Tokens \union {SinSesion}
  /\ abierta \in [Pestanas -> BOOLEAN]
  /\ accessToken \in [Pestanas -> Tokens \union {SinSesion}]
  /\ muestra \in [Pestanas -> Tokens \union {SinSesion}]
  /\ leido \in [Pestanas -> Tokens \union {SinSesion}]
  /\ ajeno \in [Pestanas -> BOOLEAN]
  /\ encima \in [Pestanas -> BOOLEAN]
  /\ EmpresaMostrada

LEMMA InicioSesionWeb == InitSesionWeb => IndSesionWeb
<1> SUFFICES ASSUME InitSesionWeb PROVE IndSesionWeb
  OBVIOUS
<1>1. /\ ajeno \in [Pestanas -> BOOLEAN] /\ encima \in [Pestanas -> BOOLEAN]
      /\ abierta \in [Pestanas -> BOOLEAN]
  BY Zenon DEF InitSesionWeb
<1> QED BY <1>1 DEF InitSesionWeb, IndSesionWeb, EmpresaMostrada

\* Who writes the storage shows what it wrote, nothing, or the session its login came
\* over; every other tab is out of date.
LEMMA QuienEscribeMuestra ==
  ASSUME IndSesionWeb, NEW p \in Pestanas, NEW t \in Tokens \union {SinSesion},
         NEW m \in Tokens \union {SinSesion}, NEW b \in BOOLEAN,
         EscribirToken(p, t), Pintar(p, t, m), encima' = [encima EXCEPT ![p] = b],
         abierta' \in [Pestanas -> BOOLEAN],
         b \/ m \in {t, SinSesion}
  PROVE  IndSesionWeb'
<1>1. ajeno' \in [Pestanas -> BOOLEAN]
  BY Zenon DEF EscribirToken
<1>2. guardado' = t /\ \A q \in Pestanas : q # p => ajeno'[q]
  BY Zenon DEF EscribirToken
<1>3. encima' \in [Pestanas -> BOOLEAN] /\ encima'[p] = b
  BY Zenon DEF IndSesionWeb
<1>4. /\ accessToken' \in [Pestanas -> Tokens \union {SinSesion}] /\ accessToken'[p] = t
      /\ muestra' \in [Pestanas -> Tokens \union {SinSesion}] /\ muestra'[p] = m
      /\ leido' \in [Pestanas -> Tokens \union {SinSesion}] /\ leido'[p] = SinSesion
  BY DEF Pintar, IndSesionWeb
<1>5. EmpresaMostrada'
  BY <1>2, <1>3, <1>4 DEF EmpresaMostrada
<1> QED BY <1>1, <1>2, <1>3, <1>4, <1>5 DEF IndSesionWeb

LEMMA PasoSesionWeb ==
  ASSUME IndSesionWeb, [NextSesionWeb]_sesionWebVars
  PROVE  IndSesionWeb'
<1>1. CASE UNCHANGED <<guardado, pantallaVars, ajeno, encima>>
  BY <1>1 DEF IndSesionWeb, EmpresaMostrada, pantallaVars
<1>2. ASSUME NEW p \in Pestanas, NEW t \in Tokens, Entrar(p, t)
      PROVE  IndSesionWeb'
  <2> DEFINE b == accessToken[p] # SinSesion
             m == IF b THEN muestra[p] ELSE t
  <2>1. m \in Tokens \union {SinSesion} /\ (b \/ m = t) /\ b \in BOOLEAN
    BY DEF IndSesionWeb
  <2>2. /\ EscribirToken(p, t) /\ Pintar(p, t, m) /\ encima' = [encima EXCEPT ![p] = b]
        /\ abierta' \in [Pestanas -> BOOLEAN]
    BY <1>2, Zenon DEF Entrar, IndSesionWeb
  <2> HIDE DEF b, m
  <2> QED BY <2>1, <2>2, QuienEscribeMuestra
<1>3. ASSUME NEW p \in Pestanas, NEW l \in enVuelo[p], NEW t \in Tokens,
             CambiarDeEmpresa(p, l, t)
      PROVE  IndSesionWeb'
  \* The tab leaves the application: it shows nothing.
  <2>1. /\ guardado' = t /\ \A q \in Pestanas : q # p => ajeno'[q]
        /\ ajeno' \in [Pestanas -> BOOLEAN]
    BY <1>3, Zenon DEF CambiarDeEmpresa, EscribirToken
  <2>2. abierta' \in [Pestanas -> BOOLEAN] /\ encima' \in [Pestanas -> BOOLEAN]
    BY <1>3, Zenon DEF CambiarDeEmpresa, IrADashboard, IndSesionWeb
  <2>3. /\ accessToken' \in [Pestanas -> Tokens \union {SinSesion}]
        /\ muestra' \in [Pestanas -> Tokens \union {SinSesion}] /\ muestra'[p] = SinSesion
        /\ leido' \in [Pestanas -> Tokens \union {SinSesion}]
    BY <1>3 DEF CambiarDeEmpresa, IrADashboard, Pintar, IndSesionWeb
  <2>4. EmpresaMostrada'
    BY <2>1, <2>3 DEF EmpresaMostrada
  <2> QED BY <2>1, <2>2, <2>3, <2>4 DEF IndSesionWeb
<1>4. ASSUME NEW p \in Pestanas, NEW fs, Limpiar(p, fs)
      PROVE  IndSesionWeb'
  BY <1>4, QuienEscribeMuestra DEF Limpiar, IndSesionWeb
<1>5. ASSUME NEW p \in Pestanas, Abrir(p)
      PROVE  IndSesionWeb'
  <2>1. /\ abierta' \in [Pestanas -> BOOLEAN]
        /\ ajeno' \in [Pestanas -> BOOLEAN] /\ encima' \in [Pestanas -> BOOLEAN]
        /\ \A q \in Pestanas : q # p => ajeno'[q] = ajeno[q] /\ encima'[q] = encima[q]
    BY <1>5, Zenon DEF Abrir, IndSesionWeb
  <2>2. /\ guardado' = guardado /\ guardado \in Tokens \union {SinSesion}
        /\ accessToken' = [accessToken EXCEPT ![p] = guardado]
        /\ muestra' = [muestra EXCEPT ![p] = guardado]
        /\ leido' = [leido EXCEPT ![p] = SinSesion]
        /\ accessToken \in [Pestanas -> Tokens \union {SinSesion}]
        /\ muestra \in [Pestanas -> Tokens \union {SinSesion}]
        /\ leido \in [Pestanas -> Tokens \union {SinSesion}]
    BY <1>5 DEF Abrir, Pintar, IndSesionWeb
  <2>3. EmpresaMostrada'
    BY <2>1, <2>2 DEF EmpresaMostrada, IndSesionWeb
  <2> QED BY <2>1, <2>2, <2>3 DEF IndSesionWeb
<1>6. ASSUME NEW p \in Pestanas, DibujarPagina(p)
      PROVE  IndSesionWeb'
  <2>1. /\ leido' = [leido EXCEPT ![p] = guardado]
        /\ UNCHANGED <<guardado, abierta, accessToken, muestra, ajeno, encima>>
    BY <1>6 DEF DibujarPagina
  <2> QED BY <2>1 DEF IndSesionWeb, EmpresaMostrada
<1> QED
  BY <1>1, <1>2, <1>3, <1>4, <1>5, <1>6
  DEF NextSesionWeb, sesionWebVars, PedirEntrada, PedirCambio, PedirConAuth, PedirSalida, Llamar,
      Salir, Recibir401, Ignorar, RevisarVencimiento, VencerToken

LEMMA TiposSesionWebAlInicio == ASSUME InitSesionWeb PROVE TypeOKSesionWeb
<1>1. IndSesionWeb
  BY InicioSesionWeb
<1> QED BY <1>1 DEF InitSesionWeb, IndSesionWeb, TypeOKSesionWeb

LEMMA PasoTiposSesionWeb ==
  ASSUME IndSesionWeb, TypeOKSesionWeb, [NextSesionWeb]_sesionWebVars
  PROVE  TypeOKSesionWeb'
<1> USE DEF Llamar, Limpiar
<1>1. IndSesionWeb'
  BY PasoSesionWeb
<1>2. /\ guardado \in Tokens \union {SinSesion} /\ enVuelo \in [Pestanas -> SUBSET Llamada]
      /\ leido \in [Pestanas -> Tokens \union {SinSesion}]
      /\ tokensDados \subseteq Tokens /\ tokensVencidos \subseteq Tokens
  BY DEF TypeOKSesionWeb
<1> DEFINE Bien == /\ enVuelo' \in [Pestanas -> SUBSET Llamada]
                   /\ tokensDados' \subseteq Tokens /\ tokensVencidos' \subseteq Tokens
<1>3. Bien
  <2>1. ASSUME NEW p \in Pestanas,
               PedirEntrada(p) \/ PedirCambio(p) \/ PedirConAuth(p) \/ PedirSalida(p)
        PROVE  Bien
    BY <1>2, <2>1 DEF PedirEntrada, PedirCambio, PedirConAuth, PedirSalida, Llamada
  <2>2. ASSUME NEW p \in Pestanas, NEW t \in Tokens, Entrar(p, t)
        PROVE  Bien
    BY <1>2, <2>2 DEF Entrar
  <2>3. ASSUME NEW p \in Pestanas, NEW l \in enVuelo[p],
               Salir(p, l) \/ Recibir401(p, l) \/ Ignorar(p, l)
        PROVE  Bien
    BY <1>2, <2>3 DEF Salir, Recibir401, Ignorar
  <2>4. ASSUME NEW p \in Pestanas, NEW l \in enVuelo[p], NEW t \in Tokens,
               CambiarDeEmpresa(p, l, t)
        PROVE  Bien
    BY <1>2, <2>4 DEF CambiarDeEmpresa
  <2>5. ASSUME NEW p \in Pestanas, RevisarVencimiento(p) \/ Abrir(p) \/ DibujarPagina(p)
        PROVE  Bien
    BY <1>2, <2>5 DEF RevisarVencimiento, Abrir, DibujarPagina
  <2>6. ASSUME NEW t \in Tokens, VencerToken(t)
        PROVE  Bien
    BY <1>2, <2>6 DEF VencerToken
  <2>7. CASE UNCHANGED sesionWebVars
    BY <1>2, <2>7 DEF sesionWebVars
  <2> QED BY <2>1, <2>2, <2>3, <2>4, <2>5, <2>6, <2>7 DEF NextSesionWeb
<1> QED BY <1>1, <1>3 DEF IndSesionWeb, TypeOKSesionWeb

\* For any number of tabs, tokens and calls in progress: what a tab sends is signed for
\* the company it shows, unless another tab wrote the storage since it was loaded or a
\* login came over a session that was open in it.
THEOREM EmpresaSiempreMostrada == SpecSesionWeb => []EmpresaMostrada
<1>1. IndSesionWeb => EmpresaMostrada
  BY DEF IndSesionWeb
<1> QED BY InicioSesionWeb, PasoSesionWeb, <1>1, PTL DEF SpecSesionWeb
-----------------------------------------------------------------------------
(* Accountants and their invoices                                          *)

\* A company has a plan from its row on, and only after it a link or a request that has
\* it in memory; a link that is about to be inserted is the first one of its company.
PrimeroLaEmpresa ==
  /\ \A e \in Empresas :
       /\ altaDe[e] # Nulo => vinculo[e] = Nulo /\ planEmpresa[e] # Nulo
       /\ vinculo[e] # Nulo => planEmpresa[e] # Nulo
  /\ \A w \in Guardadas :
       pasoGuardada[w] \in {"leida", "distinta"} =>
         copiaEmpresa[w] # Nulo /\ planEmpresa[copiaEmpresa[w].empresa] # Nulo

\* What a call that has read its link has in memory.
ConVinculo ==
  \A c \in Gestiones :
    pasoGestion[c] \notin {"reposo", "fin"} =>
      /\ empresaDe[c] \in Empresas /\ vinculo[empresaDe[c]] # Nulo
      /\ planNuevo[c] \in Planes /\ copiaVinculo[c] \in Vinculo

\* Each job works on its own day, and remembers the row it is about to write.
CadaTrabajoEnSuDia ==
  /\ \A g \in Generaciones :
       /\ Trabajando(g) => dia = "uno"
       /\ pasoTrabajo[g] \in {"calcular", "insertar"} => enFactura[g] # Nulo
  /\ \A s \in Suspensiones :
       /\ Trabajando(s) => dia = "seis"
       /\ pasoTrabajo[s] = "suspender" => enVencimiento[s] \in Facturas
       /\ \A f \in porVencer[s] : facturaContador[f] # Nulo

\* In a month without overlapping runs one run works at most, and whom it is about to
\* bill has no invoice of the month.
SinFacturaDelMes ==
  mes \notin simultaneas =>
    /\ \A g, h \in Generaciones : Trabajando(g) /\ Trabajando(h) => g = h
    /\ \A g \in Generaciones :
         pasoTrabajo[g] \in {"calcular", "insertar"} => ~YaFacturado(enFactura[g][1])

\* Nothing in progress can turn a suspended company active, or bill it.
SuspendidasAparte ==
  \A e \in suspendidas :
    /\ vinculo[e] # Nulo /\ ~EnGestion(e)
    /\ \A g \in Generaciones : pasoTrabajo[g] = "insertar" => e \notin enFactura[g][2]

\* The company of call c, while nothing else changes its plans: both are the same until c
\* writes the one of the link, and the link has the new one until c writes the other.
PlanesEnCurso(c) ==
  LET e == empresaDe[c]
  IN /\ pasoGestion[c] \in {"guardar", "comparado"} =>
          /\ vinculo[e].plan = planEmpresa[e]
          /\ copiaVinculo[c].plan = IF c \in CambiosPlan THEN planNuevo[c] ELSE planEmpresa[e]
     /\ pasoGestion[c] = "comparado" =>
          ("plan" \in porAnotar[c] <=> copiaVinculo[c].plan # vinculo[e].plan)
     /\ pasoGestion[c] = "empresa" => vinculo[e].plan = planNuevo[c]

\* A request that has read the row of a company will write its plan only if it is one
\* whose plans may differ.
NoCambiaElPlan(w) ==
  pasoGuardada[w] \in {"leida", "distinta"} /\ copiaEmpresa[w].empresa \notin descuadradas =>
    /\ w \in Ediciones /\ pasoGuardada[w] = "leida"
    /\ copiaEmpresa[w].plan = planEmpresa[copiaEmpresa[w].empresa]

PlanesPorCuadrar ==
  /\ \A e \in Empresas \ descuadradas : altaDe[e] # Nulo => altaDe[e].plan = planEmpresa[e]
  /\ \A c, d \in Gestiones :
       /\ pasoGestion[c] \notin {"reposo", "fin"} /\ pasoGestion[d] \notin {"reposo", "fin"}
       /\ empresaDe[c] = empresaDe[d] /\ empresaDe[c] \notin descuadradas
       => c = d
  /\ \A c \in Gestiones :
       pasoGestion[c] \notin {"reposo", "fin"} /\ empresaDe[c] \notin descuadradas =>
         PlanesEnCurso(c)
  /\ \A w \in Guardadas : NoCambiaElPlan(w)

IndCuentas ==
  /\ TypeOKCuentas /\ PrimeroLaEmpresa /\ ConVinculo /\ CadaTrabajoEnSuDia
  /\ SinFacturaDelMes /\ FacturaUnica
  /\ SuspendidasAparte /\ SuspensionFirme
  /\ PlanesPorCuadrar /\ PlanAcorde

USE DEF calendario, tablasVars, gestionVars, guardadaVars, pedidoVars, trabajoVars,
        historiaCuentas, Gestiones, Guardadas, Trabajos

\* A row of links with some columns of another.
LEMMA Mezcla ==
  ASSUME NEW v \in Vinculo, NEW w \in Vinculo, NEW S,
         NEW m, m = [x \in DOMAIN v |-> IF x \in S THEN w[x] ELSE v[x]]
  PROVE  /\ m \in Vinculo
         /\ m.contador = IF "contador" \in S THEN w.contador ELSE v.contador
         /\ m.plan = IF "plan" \in S THEN w.plan ELSE v.plan
         /\ m.activo = IF "activo" \in S THEN w.activo ELSE v.activo
<1>1. DOMAIN v = {"contador", "plan", "activo"}
  BY DEF Vinculo
<1>2. /\ DOMAIN m = {"contador", "plan", "activo"}
      /\ \A x \in {"contador", "plan", "activo"} : m[x] = IF x \in S THEN w[x] ELSE v[x]
  BY <1>1
<1>3. /\ v.contador \in Contadores /\ v.plan \in Planes /\ v.activo \in BOOLEAN
      /\ w.contador \in Contadores /\ w.plan \in Planes /\ w.activo \in BOOLEAN
  BY DEF Vinculo
<1>4. m.activo \in BOOLEAN
  BY <1>2, <1>3, Zenon
<1>5. m = [contador |-> m.contador, plan |-> m.plan, activo |-> m.activo]
  BY <1>1, <1>2
<1>6. m.contador \in Contadores /\ m.plan \in Planes
  BY <1>2, <1>3
<1>7. m \in Vinculo
  BY <1>4, <1>5, <1>6 DEF Vinculo
<1> QED BY <1>2, <1>7

TiposCuentas == TypeOKCuentas /\ PrimeroLaEmpresa /\ ConVinculo /\ CadaTrabajoEnSuDia

\* What EscribirVinculo(c) makes of the link.
LEMMA FilaEscrita ==
  ASSUME TiposCuentas, NEW c \in Gestiones, EscribirVinculo(c)
  PROVE  LET e == empresaDe[c]
             v == vinculo[e]
             w == copiaVinculo[c]
             S == porAnotar[c]
         IN /\ e \in Empresas /\ v \in Vinculo /\ w \in Vinculo
            /\ vinculo'[e] \in Vinculo
            /\ vinculo'[e].contador = IF "contador" \in S THEN w.contador ELSE v.contador
            /\ vinculo'[e].plan = IF "plan" \in S THEN w.plan ELSE v.plan
            /\ vinculo'[e].activo = IF "activo" \in S THEN w.activo ELSE v.activo
            /\ \A x \in Empresas : x # e => vinculo'[x] = vinculo[x]
            /\ vinculo' \in [Empresas -> Vinculo \union {Nulo}]
<1> DEFINE e == empresaDe[c]
           v == vinculo[e]
           w == copiaVinculo[c]
           S == porAnotar[c]
           m == [x \in DOMAIN v |-> IF x \in S THEN w[x] ELSE v[x]]
<1>1. e \in Empresas /\ v \in Vinculo /\ w \in Vinculo
  BY DEF TiposCuentas, ConVinculo, EscribirVinculo, TypeOKCuentas
<1>2. /\ vinculo' = [vinculo EXCEPT ![e] = m]
      /\ vinculo \in [Empresas -> Vinculo \union {Nulo}]
  BY DEF EscribirVinculo, TiposCuentas, TypeOKCuentas
<1>3. /\ m \in Vinculo
      /\ m.contador = IF "contador" \in S THEN w.contador ELSE v.contador
      /\ m.plan = IF "plan" \in S THEN w.plan ELSE v.plan
      /\ m.activo = IF "activo" \in S THEN w.activo ELSE v.activo
  <2> HIDE DEF e, v, w, S
  <2> QED BY <1>1, Mezcla
<1> HIDE DEF m, v, w, S
<1>4. vinculo'[e] = m /\ \A x \in Empresas : x # e => vinculo'[x] = vinculo[x]
  BY <1>1, <1>2
<1>5. vinculo' \in [Empresas -> Vinculo \union {Nulo}]
  BY <1>1, <1>2, <1>3
<1> QED BY <1>1, <1>3, <1>4, <1>5 DEF v, w, S

LEMMA InicioCuentas ==
  ASSUME InitCuentas PROVE IndCuentas
<1> USE CuentasAssumption DEF InitCuentas
<1>1. TypeOKCuentas
  BY DEF TypeOKCuentas
<1>2. PrimeroLaEmpresa /\ ConVinculo /\ CadaTrabajoEnSuDia
  BY DEF PrimeroLaEmpresa, ConVinculo, CadaTrabajoEnSuDia, Trabajando
<1>3. SinFacturaDelMes /\ FacturaUnica /\ SuspendidasAparte /\ SuspensionFirme
  BY DEF SinFacturaDelMes, FacturaUnica, SuspendidasAparte, SuspensionFirme, Trabajando
<1>4. PlanesPorCuadrar /\ PlanAcorde
  BY DEF PlanesPorCuadrar, NoCambiaElPlan, PlanAcorde
<1> QED BY <1>1, <1>2, <1>3, <1>4 DEF IndCuentas

\* What an assignment to one column leaves in a link, and in an invoice.
LEMMA PlanCambiado ==
  ASSUME NEW v \in Vinculo, NEW p \in Planes, NEW w, w = [v EXCEPT !.plan = p]
  PROVE  w \in Vinculo /\ w.plan = p
<1>1. /\ DOMAIN w = {"contador", "plan", "activo"}
      /\ w.contador = v.contador /\ w.plan = p /\ w.activo = v.activo
  BY DEF Vinculo
<1>2. v.contador \in Contadores /\ v.activo \in BOOLEAN
  BY DEF Vinculo
<1>3. w = [contador |-> w.contador, plan |-> w.plan, activo |-> w.activo]
  BY <1>1 DEF Vinculo
<1> QED BY <1>1, <1>2, <1>3 DEF Vinculo

LEMMA VinculoApagado ==
  ASSUME NEW v \in Vinculo, NEW w, w = [v EXCEPT !.activo = FALSE]
  PROVE  w \in Vinculo /\ ~w.activo /\ w.plan = v.plan
<1>1. /\ DOMAIN w = {"contador", "plan", "activo"}
      /\ w.contador = v.contador /\ w.plan = v.plan /\ w.activo = FALSE
  BY DEF Vinculo
<1>2. v.contador \in Contadores /\ v.plan \in Planes /\ FALSE \in BOOLEAN
  BY DEF Vinculo
<1>3. w = [contador |-> w.contador, plan |-> w.plan, activo |-> w.activo]
  BY <1>1 DEF Vinculo
<1> QED BY <1>1, <1>2, <1>3 DEF Vinculo

LEMMA SoloVencida ==
  ASSUME NEW v \in FacturaContador, NEW w, w = [v EXCEPT !.vencida = TRUE]
  PROVE  w \in FacturaContador /\ w.mes = v.mes /\ w.detalle = v.detalle
<1>1. /\ DOMAIN w = {"mes", "vencida", "detalle"}
      /\ w.mes = v.mes /\ w.vencida = TRUE /\ w.detalle = v.detalle
  BY DEF FacturaContador
<1>2. v.mes \in 1 .. MaxMes /\ v.detalle \in SUBSET Empresas /\ TRUE \in BOOLEAN
  BY DEF FacturaContador
<1>3. w = [mes |-> w.mes, vencida |-> w.vencida, detalle |-> w.detalle]
  BY <1>1 DEF FacturaContador
<1> QED BY <1>1, <1>2, <1>3 DEF FacturaContador

LEMMA PasoTiposCuentas ==
  ASSUME TiposCuentas, [NextCuentas]_cuentaVars
  PROVE  TiposCuentas'
<1> USE CuentasAssumption DEF TiposCuentas, TypeOKCuentas, PasarGestion, PasarGuardada, PasarTrabajo,
    Trabajando
<1>1. ASSUME NEW e \in Empresas, NEW k \in Contadores, NEW p \in Planes,
             InsertarEmpresa(e, k, p)
      PROVE  TiposCuentas'
  <2>1. [contador |-> k, plan |-> p, activo |-> TRUE] \in Vinculo
    BY DEF Vinculo
  <2>2. vinculo[e] = Nulo /\ p # Nulo
    BY <1>1 DEF InsertarEmpresa, PrimeroLaEmpresa
  <2>3. TypeOKCuentas'
    BY <1>1, <2>1 DEF InsertarEmpresa
  <2>4. PrimeroLaEmpresa' /\ ConVinculo'
    BY <1>1, <2>2 DEF InsertarEmpresa, PrimeroLaEmpresa, ConVinculo
  <2>5. CadaTrabajoEnSuDia'
    BY <1>1 DEF InsertarEmpresa, CadaTrabajoEnSuDia
  <2> QED BY <2>3, <2>4, <2>5
<1>2. ASSUME NEW e \in Empresas, InsertarVinculo(e) \/ PerderAlta(e)
      PROVE  TiposCuentas'
  <2>1. TypeOKCuentas'
    BY ZenonT(60), <1>2 DEF InsertarVinculo, PerderAlta
  <2>2. PrimeroLaEmpresa' /\ ConVinculo'
    BY <1>2 DEF InsertarVinculo, PerderAlta, PrimeroLaEmpresa, ConVinculo
  <2>3. CadaTrabajoEnSuDia'
    BY <1>2 DEF InsertarVinculo, PerderAlta, CadaTrabajoEnSuDia
  <2> QED BY <2>1, <2>2, <2>3
<1>3. ASSUME NEW w \in Guardadas, NEW e \in Empresas, NEW p \in Planes, LeerEmpresa(w, e, p)
      PROVE  TiposCuentas'
  <2>0. [empresa |-> e, plan |-> p] \in EmpresaEnMemoria
    BY DEF EmpresaEnMemoria
  <2>1. TypeOKCuentas'
    <3>1. descuadradas' \subseteq Empresas
      BY <1>3 DEF LeerEmpresa
    <3> QED BY <1>3, <2>0, <3>1 DEF LeerEmpresa
  <2>2. PrimeroLaEmpresa'
    BY <1>3, <2>0 DEF LeerEmpresa, PrimeroLaEmpresa
  <2>3. ConVinculo' /\ CadaTrabajoEnSuDia'
    BY <1>3 DEF LeerEmpresa, ConVinculo, CadaTrabajoEnSuDia
  <2> QED BY <2>1, <2>2, <2>3
<1>19. ASSUME NEW w \in Guardadas, CompararEmpresa(w) \/ InterrumpirGuardada(w)
       PROVE  TiposCuentas'
  <2>1. TypeOKCuentas'
    <3>1. pasoGuardada' \in [Guardadas -> {"reposo", "leida", "distinta", "fin"}]
      BY <1>19 DEF CompararEmpresa, InterrumpirGuardada
    <3>2. UNCHANGED <<calendario, tablasVars, gestionVars, copiaEmpresa, trabajoVars,
                      historiaCuentas>>
      BY <1>19 DEF CompararEmpresa, InterrumpirGuardada
    <3> QED
      BY ZenonT(60), <3>1, <3>2 DEF calendario, tablasVars, gestionVars, trabajoVars,
         historiaCuentas
  <2>2. PrimeroLaEmpresa' /\ ConVinculo' /\ CadaTrabajoEnSuDia'
    BY <1>19 DEF CompararEmpresa, InterrumpirGuardada, PrimeroLaEmpresa, ConVinculo,
       CadaTrabajoEnSuDia
  <2> QED BY <2>1, <2>2
<1>20. ASSUME NEW w \in Guardadas, EscribirEmpresa(w)
       PROVE  TiposCuentas'
  <2>0. /\ copiaEmpresa[w].empresa \in Empresas
        /\ copiaEmpresa[w].plan \in Planes /\ copiaEmpresa[w].plan # Nulo
    BY <1>20 DEF EscribirEmpresa, PrimeroLaEmpresa, EmpresaEnMemoria
  <2>1. TypeOKCuentas'
    BY <1>20, <2>0 DEF EscribirEmpresa
  <2>2. PrimeroLaEmpresa'
    BY <1>20, <2>0 DEF EscribirEmpresa, PrimeroLaEmpresa
  <2>3. ConVinculo' /\ CadaTrabajoEnSuDia'
    BY <1>20 DEF EscribirEmpresa, ConVinculo, CadaTrabajoEnSuDia
  <2> QED BY <2>1, <2>2, <2>3
<1>4. ASSUME NEW c \in CambiosPlan \union Desvinculos, NEW e \in Empresas, NEW p \in Planes,
             LeerVinculo(c, e, p)
      PROVE  TiposCuentas'
  <2>1. Cambiado(c, vinculo[e], p) \in Vinculo
    BY <1>4, PlanCambiado, VinculoApagado DEF LeerVinculo, Cambiado
  <2>2. TypeOKCuentas'
    <3>1. descuadradas' \subseteq Empresas
      BY <1>4 DEF LeerVinculo
    <3> QED BY <1>4, <2>1, <3>1 DEF LeerVinculo
  <2>3. PrimeroLaEmpresa' /\ ConVinculo'
    BY <1>4, <2>1 DEF LeerVinculo, PrimeroLaEmpresa, ConVinculo
  <2>4. CadaTrabajoEnSuDia'
    BY <1>4 DEF LeerVinculo, CadaTrabajoEnSuDia
  <2> QED BY <2>2, <2>3, <2>4
<1>5. ASSUME NEW c \in CambiosPlan \union Desvinculos, CompararVinculo(c)
      PROVE  TiposCuentas'
  <2>1. vinculo[empresaDe[c]] \in Vinculo
    BY <1>5 DEF CompararVinculo, ConVinculo
  <2>2. DOMAIN vinculo[empresaDe[c]] = {"contador", "plan", "activo"}
    BY <2>1 DEF Vinculo
  <2>3. TypeOKCuentas'
    BY <1>5, <2>2 DEF CompararVinculo
  <2>4. PrimeroLaEmpresa' /\ ConVinculo' /\ CadaTrabajoEnSuDia'
    BY <1>5 DEF CompararVinculo, PrimeroLaEmpresa, ConVinculo, CadaTrabajoEnSuDia
  <2> QED BY <2>3, <2>4
<1>6. ASSUME NEW c \in CambiosPlan \union Desvinculos, EscribirVinculo(c)
      PROVE  TiposCuentas'
  <2>1. /\ empresaDe[c] \in Empresas /\ vinculo[empresaDe[c]] # Nulo
        /\ vinculo'[empresaDe[c]] # Nulo
        /\ \A x \in Empresas : x # empresaDe[c] => vinculo'[x] = vinculo[x]
        /\ vinculo' \in [Empresas -> Vinculo \union {Nulo}]
    BY <1>6, FilaEscrita
  <2>2. TypeOKCuentas'
    BY <1>6, <2>1 DEF EscribirVinculo
  <2>3. PrimeroLaEmpresa' /\ ConVinculo'
    BY <1>6, <2>1 DEF EscribirVinculo, PrimeroLaEmpresa, ConVinculo
  <2>4. CadaTrabajoEnSuDia'
    BY <1>6 DEF EscribirVinculo, CadaTrabajoEnSuDia
  <2> QED BY <2>2, <2>3, <2>4
<1>7. ASSUME NEW c \in CambiosPlan \union Desvinculos, ActualizarEmpresa(c)
      PROVE  TiposCuentas'
  <2>1. TypeOKCuentas'
    BY <1>7 DEF ActualizarEmpresa, ConVinculo
  <2>2. PrimeroLaEmpresa' /\ ConVinculo' /\ CadaTrabajoEnSuDia'
    BY <1>7 DEF ActualizarEmpresa, PrimeroLaEmpresa, ConVinculo, CadaTrabajoEnSuDia
  <2> QED BY <2>1, <2>2
<1>8. ASSUME NEW c \in CambiosPlan \union Desvinculos, InterrumpirGestion(c)
      PROVE  TiposCuentas'
  <2>1. TypeOKCuentas'
    BY <1>8 DEF InterrumpirGestion, ConVinculo
  <2>2. PrimeroLaEmpresa' /\ ConVinculo' /\ CadaTrabajoEnSuDia'
    BY <1>8 DEF InterrumpirGestion, PrimeroLaEmpresa, ConVinculo, CadaTrabajoEnSuDia
  <2> QED BY <2>1, <2>2
<1>9. ASSUME NEW g \in Generaciones, EmpezarGeneracion(g)
      PROVE  TiposCuentas'
  <2>1. TypeOKCuentas'
    BY <1>9 DEF EmpezarGeneracion
  <2>2. PrimeroLaEmpresa' /\ ConVinculo' /\ CadaTrabajoEnSuDia'
    BY <1>9 DEF EmpezarGeneracion, PrimeroLaEmpresa, ConVinculo, CadaTrabajoEnSuDia
  <2> QED BY <2>1, <2>2
<1>10. ASSUME NEW g \in Generaciones, NEW k \in Contadores, BuscarFactura(g, k)
       PROVE  TiposCuentas'
  <2>0. <<k, {}>> \in Contadores \X SUBSET Empresas
    OBVIOUS
  <2>1. TypeOKCuentas'
    BY <1>10, <2>0 DEF BuscarFactura
  <2>2. PrimeroLaEmpresa' /\ ConVinculo'
    BY <1>10 DEF BuscarFactura, PrimeroLaEmpresa, ConVinculo
  <2>3. CadaTrabajoEnSuDia'
    BY <1>10, <2>0 DEF BuscarFactura, CadaTrabajoEnSuDia
  <2> QED BY <2>1, <2>2, <2>3
<1>11. ASSUME NEW g \in Generaciones, Calcular(g)
       PROVE  TiposCuentas'
  <2>0. <<enFactura[g][1], Facturables(enFactura[g][1])>> \in Contadores \X SUBSET Empresas
    BY <1>11 DEF Calcular, CadaTrabajoEnSuDia, Facturables, Vinculadas
  <2>1. TypeOKCuentas'
    BY <1>11, <2>0 DEF Calcular
  <2>2. PrimeroLaEmpresa' /\ ConVinculo'
    BY <1>11 DEF Calcular, PrimeroLaEmpresa, ConVinculo
  <2>3. CadaTrabajoEnSuDia'
    BY <1>11, <2>0 DEF Calcular, CadaTrabajoEnSuDia
  <2> QED BY <2>1, <2>2, <2>3
<1>12. ASSUME NEW g \in Generaciones, InsertarFactura(g)
       PROVE  TiposCuentas'
  <2>0. /\ enFactura[g] \in Contadores \X SUBSET Empresas
        /\ [mes |-> mes, vencida |-> FALSE, detalle |-> enFactura[g][2]] \in FacturaContador
    BY <1>12 DEF InsertarFactura, CadaTrabajoEnSuDia, FacturaContador
  <2>1. TypeOKCuentas'
    BY <1>12, <2>0 DEF InsertarFactura, Facturas
  <2>2. PrimeroLaEmpresa' /\ ConVinculo'
    BY <1>12 DEF InsertarFactura, PrimeroLaEmpresa, ConVinculo
  <2>3. CadaTrabajoEnSuDia'
    BY <1>12, <2>0 DEF InsertarFactura, CadaTrabajoEnSuDia, Facturas
  <2> QED BY <2>1, <2>2, <2>3
<1>13. ASSUME NEW s \in Suspensiones, EmpezarSuspension(s)
       PROVE  TiposCuentas'
  <2>1. TypeOKCuentas'
    BY <1>13 DEF EmpezarSuspension
  <2>2. PrimeroLaEmpresa' /\ ConVinculo'
    BY <1>13 DEF EmpezarSuspension, PrimeroLaEmpresa, ConVinculo
  <2>3. CadaTrabajoEnSuDia'
    BY <1>13 DEF EmpezarSuspension, CadaTrabajoEnSuDia
  <2> QED BY <2>1, <2>2, <2>3
<1>14. ASSUME NEW s \in Suspensiones, NEW f \in Facturas, VencerFactura(s, f)
       PROVE  TiposCuentas'
  <2>0. /\ facturaContador[f] \in FacturaContador
        /\ [facturaContador[f] EXCEPT !.vencida = TRUE] \in FacturaContador
    BY <1>14, SoloVencida DEF VencerFactura, CadaTrabajoEnSuDia
  <2>1. facturaContador' \in [Facturas -> FacturaContador \union {Nulo}]
    BY <1>14, <2>0 DEF VencerFactura
  <2>2. TypeOKCuentas'
    BY <1>14, <2>1 DEF VencerFactura
  <2>3. PrimeroLaEmpresa' /\ ConVinculo'
    BY <1>14 DEF VencerFactura, PrimeroLaEmpresa, ConVinculo
  <2>4. \A x \in Facturas : facturaContador[x] # Nulo => facturaContador'[x] # Nulo
    BY <1>14, <2>0 DEF VencerFactura
  <2>5. CadaTrabajoEnSuDia'
    BY <1>14, <2>4 DEF VencerFactura, CadaTrabajoEnSuDia
  <2> QED BY <2>2, <2>3, <2>5
<1>15. ASSUME NEW s \in Suspensiones, SuspenderVinculos(s)
       PROVE  TiposCuentas'
  <2>0. ASSUME NEW e \in Empresas
        PROVE  /\ vinculo'[e] \in Vinculo \union {Nulo}
               /\ vinculo[e] # Nulo <=> vinculo'[e] # Nulo
    BY <1>15, VinculoApagado DEF SuspenderVinculos, Facturables, Vinculadas
  <2>1. /\ vinculo' \in [Empresas -> Vinculo \union {Nulo}]
        /\ \A e \in Empresas : vinculo[e] # Nulo <=> vinculo'[e] # Nulo
    BY <1>15, <2>0 DEF SuspenderVinculos
  <2>2. TypeOKCuentas'
    BY <1>15, <2>1 DEF SuspenderVinculos, Facturables, Vinculadas
  <2>3. PrimeroLaEmpresa' /\ ConVinculo'
    BY <1>15, <2>1 DEF SuspenderVinculos, PrimeroLaEmpresa, ConVinculo
  <2>4. CadaTrabajoEnSuDia'
    BY <1>15 DEF SuspenderVinculos, CadaTrabajoEnSuDia
  <2> QED BY <2>2, <2>3, <2>4
<1>16. ASSUME NEW j \in Trabajos, TerminarTrabajo(j)
       PROVE  TiposCuentas'
  <2>1. TypeOKCuentas'
    BY <1>16 DEF TerminarTrabajo
  <2>2. PrimeroLaEmpresa' /\ ConVinculo' /\ CadaTrabajoEnSuDia'
    BY <1>16 DEF TerminarTrabajo, PrimeroLaEmpresa, ConVinculo, CadaTrabajoEnSuDia
  <2> QED BY <2>1, <2>2
<1>17. CASE AvanzarCalendario
  <2>1. TypeOKCuentas'
    BY <1>17 DEF AvanzarCalendario
  <2>2. PrimeroLaEmpresa' /\ ConVinculo' /\ CadaTrabajoEnSuDia'
    BY <1>17 DEF AvanzarCalendario, PrimeroLaEmpresa, ConVinculo, CadaTrabajoEnSuDia
  <2> QED BY <2>1, <2>2
<1>18. CASE UNCHANGED cuentaVars
  BY <1>18 DEF cuentaVars, PrimeroLaEmpresa, ConVinculo, CadaTrabajoEnSuDia
<1> HIDE DEF TiposCuentas
<1> QED
  BY <1>1, <1>2, <1>3, <1>4, <1>5, <1>6, <1>7, <1>8, <1>9, <1>10, <1>11, <1>12, <1>13, <1>14,
     <1>15, <1>16, <1>17, <1>18, <1>19, <1>20
  DEF NextCuentas

\* The steps of the jobs, the only ones that bill.
LEMMA PasoFacturas ==
  ASSUME TiposCuentas, SinFacturaDelMes, FacturaUnica, [NextCuentas]_cuentaVars
  PROVE  SinFacturaDelMes' /\ FacturaUnica'
<1> USE CuentasAssumption DEF PasarTrabajo, Trabajando, SinFacturaDelMes, FacturaUnica
<1>0. /\ facturaContador \in [Facturas -> FacturaContador \union {Nulo}]
      /\ enFactura \in [Generaciones -> (Contadores \X SUBSET Empresas) \union {Nulo}]
      /\ pasoTrabajo \in [Generaciones \union Suspensiones ->
                            {"reposo", "buscar", "calcular", "insertar", "suspender", "fin"}]
  BY DEF TiposCuentas, TypeOKCuentas
<1>1. CASE UNCHANGED <<mes, facturaContador, pasoTrabajo, enFactura, simultaneas>>
  BY <1>1 DEF YaFacturado
<1>2. ASSUME NEW g \in Generaciones, EmpezarGeneracion(g)
      PROVE  SinFacturaDelMes' /\ FacturaUnica'
  BY <1>2, <1>0 DEF EmpezarGeneracion, YaFacturado
<1>3. ASSUME NEW g \in Generaciones, NEW k \in Contadores, BuscarFactura(g, k)
      PROVE  SinFacturaDelMes' /\ FacturaUnica'
  <2>1. ~YaFacturado(k) => /\ enFactura' = [enFactura EXCEPT ![g] = <<k, {}>>]
                           /\ pasoTrabajo' = [pasoTrabajo EXCEPT ![g] = "calcular"]
    BY <1>3 DEF BuscarFactura
  <2>2. UNCHANGED <<mes, facturaContador, simultaneas>>
    BY <1>3 DEF BuscarFactura
  <2>3. CASE YaFacturado(k)
    BY <1>3, <1>1, <2>2, <2>3 DEF BuscarFactura
  <2>4. CASE ~YaFacturado(k)
    <3>1. Trabajando(g)
      BY <1>3 DEF BuscarFactura
    <3>2. \A x : YaFacturado(x) <=> YaFacturado(x)'
      BY <2>2 DEF YaFacturado
    <3>3. SinFacturaDelMes'
      BY <1>0, <2>1, <2>2, <2>4, <3>1, <3>2
    <3> QED BY <2>2, <3>3
  <2> QED BY <2>3, <2>4
<1>4. ASSUME NEW g \in Generaciones, Calcular(g)
      PROVE  SinFacturaDelMes' /\ FacturaUnica'
  <2>1. /\ enFactura'[g][1] = enFactura[g][1]
        /\ \A x \in Generaciones \ {g} : enFactura'[x] = enFactura[x]
    BY <1>0, <1>4 DEF Calcular
  <2>2. UNCHANGED <<mes, facturaContador, simultaneas>>
    BY <1>4 DEF Calcular
  <2>3. \A x : YaFacturado(x) <=> YaFacturado(x)'
    BY <2>2 DEF YaFacturado
  <2>4. \A x \in Generaciones :
          /\ pasoTrabajo'[x] \in {"calcular", "insertar"} =>
               pasoTrabajo[x] \in {"calcular", "insertar"}
          /\ Trabajando(x)' => Trabajando(x)
    BY <1>0, <1>4 DEF Calcular
  <2>5. \A x \in Generaciones : enFactura'[x][1] = enFactura[x][1]
    BY <2>1
  <2> QED BY <2>2, <2>3, <2>4, <2>5
<1>5. ASSUME NEW g \in Generaciones, InsertarFactura(g)
      PROVE  SinFacturaDelMes' /\ FacturaUnica'
  <2> DEFINE k == enFactura[g][1]
             n == [mes |-> mes, vencida |-> FALSE, detalle |-> enFactura[g][2]]
  <2>1. k \in Contadores /\ n \in FacturaContador /\ n.mes = mes
    BY <1>5 DEF InsertarFactura, TiposCuentas, TypeOKCuentas, CadaTrabajoEnSuDia, FacturaContador
  <2>2. /\ facturaContador' = [facturaContador EXCEPT ![<<g, k>>] = n]
        /\ pasoTrabajo' = [pasoTrabajo EXCEPT ![g] = "buscar"]
        /\ pasoTrabajo[g] = "insertar"
        /\ UNCHANGED <<mes, simultaneas, enFactura>>
    BY <1>5 DEF InsertarFactura
  <2> HIDE DEF n, k
  <2>3. mes \notin simultaneas =>
          \A f \in Facturas : f[2] = k /\ facturaContador[f] # Nulo => facturaContador[f].mes # mes
    BY <2>2 DEF YaFacturado, k, Facturas
  <2>4. FacturaUnica'
    BY <1>0, <2>1, <2>2, <2>3 DEF Facturas
  <2>5. mes \notin simultaneas => \A h \in Generaciones : Trabajando(h)' => h = g
    BY <1>0, <2>2
  <2>6. SinFacturaDelMes'
    BY <1>0, <2>2, <2>5
  <2> QED BY <2>4, <2>6
<1>6. ASSUME NEW s \in Suspensiones, NEW f \in Facturas, VencerFactura(s, f)
      PROVE  SinFacturaDelMes' /\ FacturaUnica'
  <2>1. \A x \in Facturas :
          /\ facturaContador'[x] # Nulo <=> facturaContador[x] # Nulo
          /\ facturaContador[x] # Nulo => facturaContador'[x].mes = facturaContador[x].mes
    BY <1>0, <1>6, SoloVencida DEF VencerFactura, TiposCuentas, CadaTrabajoEnSuDia
  <2>2. /\ UNCHANGED <<mes, simultaneas, enFactura>>
        /\ \A x \in Generaciones : pasoTrabajo'[x] = pasoTrabajo[x]
    BY <1>0, <1>6 DEF VencerFactura
  <2>3. \A x \in Contadores : YaFacturado(x) <=> YaFacturado(x)'
    BY <2>1, <2>2 DEF YaFacturado, Facturas
  <2>4. \A g \in Generaciones :
          pasoTrabajo[g] \in {"calcular", "insertar"} => enFactura[g][1] \in Contadores
    BY <1>0 DEF TiposCuentas, CadaTrabajoEnSuDia
  <2> QED BY <2>1, <2>2, <2>3, <2>4
<1>7. ASSUME NEW j \in Trabajos, TerminarTrabajo(j)
      PROVE  SinFacturaDelMes' /\ FacturaUnica'
  BY <1>0, <1>7 DEF TerminarTrabajo, YaFacturado
<1>8. CASE AvanzarCalendario
  BY <1>0, <1>8 DEF AvanzarCalendario
<1>9. ASSUME NEW s \in Suspensiones, EmpezarSuspension(s) \/ SuspenderVinculos(s)
      PROVE  SinFacturaDelMes' /\ FacturaUnica'
  <2>1. /\ UNCHANGED <<mes, simultaneas, enFactura, facturaContador>>
        /\ \A x \in Generaciones : pasoTrabajo'[x] = pasoTrabajo[x]
    BY <1>0, <1>9 DEF EmpezarSuspension, SuspenderVinculos
  <2> QED BY <2>1 DEF YaFacturado
<1> QED
  BY <1>1, <1>2, <1>3, <1>4, <1>5, <1>6, <1>7, <1>8, <1>9
  DEF NextCuentas, cuentaVars, InsertarEmpresa, InsertarVinculo, PerderAlta,
      LeerEmpresa, CompararEmpresa, EscribirEmpresa, InterrumpirGuardada, LeerVinculo, CompararVinculo, EscribirVinculo, ActualizarEmpresa, InterrumpirGestion

\* A suspended company has nothing in progress, and what would begin needs its link.
LEMMA PasoSuspension ==
  ASSUME TiposCuentas, SuspendidasAparte, SuspensionFirme, [NextCuentas]_cuentaVars
  PROVE  SuspendidasAparte' /\ SuspensionFirme'
<1> USE CuentasAssumption DEF PasarTrabajo, PasarGestion, Trabajando, SuspendidasAparte,
    SuspensionFirme
<1>0. /\ facturaContador \in [Facturas -> FacturaContador \union {Nulo}]
      /\ enFactura \in [Generaciones -> (Contadores \X SUBSET Empresas) \union {Nulo}]
      /\ pasoTrabajo \in [Generaciones \union Suspensiones ->
                            {"reposo", "buscar", "calcular", "insertar", "suspender", "fin"}]
      /\ pasoGestion \in [Gestiones -> {"reposo", "guardar", "comparado", "empresa", "fin"}]
      /\ empresaDe \in [Gestiones -> Empresas \union {Nulo}]
      /\ vinculo \in [Empresas -> Vinculo \union {Nulo}]
      /\ suspendidas \subseteq Empresas
      /\ previas \in [Empresas -> SUBSET Facturas]
  BY DEF TiposCuentas, TypeOKCuentas
<1>1. CASE UNCHANGED <<vinculo, pasoGestion, empresaDe, facturaContador, pasoTrabajo, enFactura,
                       suspendidas, previas>>
  BY <1>1 DEF EnGestion
<1>2. ASSUME NEW e \in Empresas, InsertarVinculo(e)
      PROVE  SuspendidasAparte' /\ SuspensionFirme'
  <2>1. e \notin suspendidas /\ \A x \in suspendidas : vinculo'[x] = vinculo[x]
    BY <1>0, <1>2 DEF InsertarVinculo, TiposCuentas, PrimeroLaEmpresa
  <2> QED BY <1>2, <2>1 DEF InsertarVinculo, EnGestion
<1>3. ASSUME NEW c \in Gestiones, NEW e \in Empresas, NEW p \in Planes,
             LeerVinculo(c, e, p)
      PROVE  SuspendidasAparte' /\ SuspensionFirme'
  <2>1. \A x \in suspendidas : ~EnGestion(x)'
    BY <1>0, <1>3 DEF LeerVinculo, EnGestion
  <2>2. UNCHANGED <<vinculo, facturaContador, pasoTrabajo, enFactura, suspendidas, previas>>
    BY <1>3 DEF LeerVinculo
  <2> QED BY <2>1, <2>2
<1>4. ASSUME NEW c \in Gestiones,
             CompararVinculo(c) \/ ActualizarEmpresa(c) \/ InterrumpirGestion(c)
      PROVE  SuspendidasAparte' /\ SuspensionFirme'
  <2>1. \A x \in suspendidas : ~EnGestion(x)'
    BY <1>0, <1>4 DEF CompararVinculo, ActualizarEmpresa, InterrumpirGestion, EnGestion
  <2>2. UNCHANGED <<vinculo, facturaContador, pasoTrabajo, enFactura, suspendidas, previas>>
    BY <1>4 DEF CompararVinculo, ActualizarEmpresa, InterrumpirGestion
  <2> QED BY <2>1, <2>2
<1>5. ASSUME NEW c \in Gestiones, EscribirVinculo(c)
      PROVE  SuspendidasAparte' /\ SuspensionFirme'
  <2>1. EnGestion(empresaDe[c])
    BY <1>0, <1>5 DEF EscribirVinculo, EnGestion
  <2>2. \A x \in Empresas : x # empresaDe[c] => vinculo'[x] = vinculo[x]
    BY <1>5, FilaEscrita
  <2>3. \A x \in suspendidas : ~EnGestion(x)'
    BY <1>0, <1>5 DEF EscribirVinculo, EnGestion
  <2>4. UNCHANGED <<facturaContador, pasoTrabajo, enFactura, suspendidas, previas>>
    BY <1>5 DEF EscribirVinculo
  <2> QED BY <1>0, <2>1, <2>2, <2>3, <2>4
<1>6. ASSUME NEW g \in Generaciones, EmpezarGeneracion(g)
      PROVE  SuspendidasAparte' /\ SuspensionFirme'
  BY <1>0, <1>6 DEF EmpezarGeneracion, EnGestion
<1>7. ASSUME NEW g \in Generaciones, NEW k \in Contadores, BuscarFactura(g, k)
      PROVE  SuspendidasAparte' /\ SuspensionFirme'
  <2>1. \A x \in Generaciones :
          pasoTrabajo'[x] = "insertar" => x # g /\ pasoTrabajo[x] = "insertar"
    BY <1>0, <1>7 DEF BuscarFactura
  <2>2. \A x \in Generaciones : x # g => enFactura'[x] = enFactura[x]
    BY <1>0, <1>7 DEF BuscarFactura
  <2>3. UNCHANGED <<vinculo, pasoGestion, empresaDe, facturaContador, suspendidas, previas>>
    BY <1>7 DEF BuscarFactura
  <2> QED BY <2>1, <2>2, <2>3 DEF EnGestion
<1>8. ASSUME NEW g \in Generaciones, Calcular(g)
      PROVE  SuspendidasAparte' /\ SuspensionFirme'
  <2>1. /\ enFactura'[g][2] \intersect suspendidas = {}
        /\ \A x \in Generaciones \ {g} : enFactura'[x] = enFactura[x]
    BY <1>0, <1>8 DEF Calcular, Facturables, Vinculadas
  <2>2. \A x \in Generaciones \ {g} : pasoTrabajo'[x] = pasoTrabajo[x]
    BY <1>0, <1>8 DEF Calcular
  <2>3. UNCHANGED <<vinculo, pasoGestion, empresaDe, facturaContador, suspendidas, previas>>
    BY <1>8 DEF Calcular
  <2> QED BY <2>1, <2>2, <2>3 DEF EnGestion
<1>9. ASSUME NEW g \in Generaciones, InsertarFactura(g)
      PROVE  SuspendidasAparte' /\ SuspensionFirme'
  <2> DEFINE f == <<g, enFactura[g][1]>>
             n == [mes |-> mes, vencida |-> FALSE, detalle |-> enFactura[g][2]]
  <2>1. f \in Facturas /\ n.detalle = enFactura[g][2]
    BY <1>9 DEF InsertarFactura, TiposCuentas, TypeOKCuentas, CadaTrabajoEnSuDia, Facturas
  <2>2. /\ facturaContador' = [facturaContador EXCEPT ![f] = n]
        /\ pasoTrabajo' = [pasoTrabajo EXCEPT ![g] = "buscar"]
        /\ pasoTrabajo[g] = "insertar"
        /\ UNCHANGED <<vinculo, pasoGestion, empresaDe, enFactura, suspendidas, previas>>
    BY <1>9 DEF InsertarFactura
  <2> HIDE DEF n, f
  <2>3. SuspendidasAparte'
    BY <1>0, <2>2 DEF EnGestion
  <2>4. SuspensionFirme'
    BY <1>0, <2>1, <2>2
  <2> QED BY <2>3, <2>4
<1>10. ASSUME NEW s \in Suspensiones, NEW f \in Facturas, VencerFactura(s, f)
       PROVE  SuspendidasAparte' /\ SuspensionFirme'
  <2>1. \A x \in Facturas :
          /\ facturaContador'[x] # Nulo <=> facturaContador[x] # Nulo
          /\ facturaContador[x] # Nulo => facturaContador'[x].detalle = facturaContador[x].detalle
    BY <1>0, <1>10, SoloVencida DEF VencerFactura, TiposCuentas, CadaTrabajoEnSuDia
  <2>2. /\ UNCHANGED <<vinculo, pasoGestion, empresaDe, enFactura, suspendidas, previas>>
        /\ \A x \in Generaciones : pasoTrabajo'[x] = pasoTrabajo[x]
    BY <1>0, <1>10 DEF VencerFactura
  <2> QED BY <1>0, <2>1, <2>2 DEF EnGestion
<1>11. ASSUME NEW s \in Suspensiones, EmpezarSuspension(s)
       PROVE  SuspendidasAparte' /\ SuspensionFirme'
  BY <1>0, <1>11 DEF EmpezarSuspension, EnGestion
<1>12. ASSUME NEW s \in Suspensiones, SuspenderVinculos(s)
       PROVE  SuspendidasAparte' /\ SuspensionFirme'
  <2> DEFINE es == Facturables(enVencimiento[s][2])
             firmes == {e \in es : ~EnGestion(e)}
  <2>1. \A x \in es : x \in Empresas /\ vinculo[x] \in Vinculo /\ vinculo[x].activo
    BY <1>0 DEF Facturables, Vinculadas
  <2>2. \A x \in Empresas :
          /\ x \in es => vinculo'[x] \in Vinculo /\ ~vinculo'[x].activo
          /\ x \notin es => vinculo'[x] = vinculo[x]
    <3> SUFFICES ASSUME NEW x \in Empresas
                 PROVE  /\ x \in es => vinculo'[x] \in Vinculo /\ ~vinculo'[x].activo
                        /\ x \notin es => vinculo'[x] = vinculo[x]
      OBVIOUS
    <3>1. vinculo'[x] = IF x \in es THEN [vinculo[x] EXCEPT !.activo = FALSE] ELSE vinculo[x]
      BY <1>12 DEF SuspenderVinculos
    <3> HIDE DEF es
    <3> QED BY <2>1, <3>1, VinculoApagado
  <2>3. /\ suspendidas' = suspendidas \union firmes
        /\ previas' = [e \in Empresas |-> IF e \in firmes
                                          THEN {f \in Facturas : facturaContador[f] # Nulo}
                                          ELSE previas[e]]
        /\ UNCHANGED <<pasoGestion, empresaDe, facturaContador, enFactura>>
    BY <1>12 DEF SuspenderVinculos
  <2>4. \A x \in Generaciones : pasoTrabajo'[x] # "insertar"
    BY <1>0, <1>12 DEF SuspenderVinculos, TiposCuentas, CadaTrabajoEnSuDia
  <2>5. \A x : EnGestion(x)' <=> EnGestion(x)
    BY <2>3 DEF EnGestion
  <2> HIDE DEF es
  <2>6. suspendidas \intersect es = {} /\ Nulo \notin Vinculo
    BY <2>1
  <2>7. SuspendidasAparte'
    BY <1>0, <2>1, <2>2, <2>3, <2>4, <2>5, <2>6
  <2>8. SuspensionFirme'
    BY <1>0, <2>1, <2>2, <2>3, <2>6
  <2> QED BY <2>7, <2>8
<1>13. ASSUME NEW j \in Trabajos, TerminarTrabajo(j)
       PROVE  SuspendidasAparte' /\ SuspensionFirme'
  BY <1>0, <1>13 DEF TerminarTrabajo, EnGestion
<1> QED
  BY <1>1, <1>2, <1>3, <1>4, <1>5, <1>6, <1>7, <1>8, <1>9, <1>10, <1>11, <1>12, <1>13
  DEF NextCuentas, cuentaVars, InsertarEmpresa, PerderAlta, LeerEmpresa, CompararEmpresa,
      EscribirEmpresa, InterrumpirGuardada, AvanzarCalendario

\* Nothing but the calls, and the insertion of the company, changes a plan.
LEMMA PasoPlanes ==
  ASSUME TiposCuentas, PlanesPorCuadrar, PlanAcorde, [NextCuentas]_cuentaVars
  PROVE  PlanesPorCuadrar' /\ PlanAcorde'
<1> USE CuentasAssumption DEF PasarGestion, PasarGuardada, PlanesPorCuadrar, PlanAcorde,
    PlanesEnCurso, NoCambiaElPlan
<1>0. /\ planEmpresa \in [Empresas -> Planes \union {Nulo}]
      /\ altaDe \in [Empresas -> Vinculo \union {Nulo}]
      /\ vinculo \in [Empresas -> Vinculo \union {Nulo}]
      /\ pasoGestion \in [Gestiones -> {"reposo", "guardar", "comparado", "empresa", "fin"}]
      /\ empresaDe \in [Gestiones -> Empresas \union {Nulo}]
      /\ planNuevo \in [Gestiones -> Planes \union {Nulo}]
      /\ copiaVinculo \in [Gestiones -> Vinculo \union {Nulo}]
      /\ porAnotar \in [Gestiones -> SUBSET {"contador", "plan", "activo"}]
      /\ pasoGuardada \in [Guardadas -> {"reposo", "leida", "distinta", "fin"}]
      /\ copiaEmpresa \in [Guardadas -> EmpresaEnMemoria \union {Nulo}]
      /\ descuadradas \subseteq Empresas
      /\ PrimeroLaEmpresa /\ ConVinculo
  BY DEF TiposCuentas, TypeOKCuentas
<1>1. CASE UNCHANGED <<planEmpresa, altaDe, vinculo, pedidoVars, descuadradas>>
  BY <1>1 DEF EnGestion
<1>2. ASSUME NEW e \in Empresas, NEW k \in Contadores, NEW p \in Planes,
             InsertarEmpresa(e, k, p)
      PROVE  PlanesPorCuadrar' /\ PlanAcorde'
  <2>1. /\ vinculo[e] = Nulo /\ altaDe'[e].plan = p /\ planEmpresa'[e] = p
        /\ \A x \in Empresas : x # e => altaDe'[x] = altaDe[x] /\ planEmpresa'[x] = planEmpresa[x]
        /\ UNCHANGED <<vinculo, pedidoVars, descuadradas>>
    BY <1>0, <1>2 DEF InsertarEmpresa, PrimeroLaEmpresa
  <2>2. \A c \in Gestiones :
          pasoGestion[c] \notin {"reposo", "fin"} => empresaDe[c] \in Empresas /\ empresaDe[c] # e
    BY <1>0, <2>1 DEF ConVinculo
  <2>3. planEmpresa[e] = Nulo
    BY <1>2 DEF InsertarEmpresa
  <2>4. \A w \in Guardadas :
          pasoGuardada[w] \in {"leida", "distinta"} =>
            copiaEmpresa[w].empresa \in Empresas /\ copiaEmpresa[w].empresa # e
    BY <1>0, <2>3 DEF PrimeroLaEmpresa, EmpresaEnMemoria
  <2>5. \A w \in Guardadas : NoCambiaElPlan(w)'
    BY <2>1, <2>4
  <2> QED BY <2>1, <2>2, <2>5 DEF EnGestion
<1>3. ASSUME NEW e \in Empresas, InsertarVinculo(e) \/ PerderAlta(e)
      PROVE  PlanesPorCuadrar' /\ PlanAcorde'
  <2>1. /\ altaDe[e] # Nulo /\ vinculo[e] = Nulo
        /\ vinculo'[e] \in {altaDe[e], Nulo} /\ altaDe'[e] = Nulo
        /\ \A x \in Empresas : x # e => altaDe'[x] = altaDe[x] /\ vinculo'[x] = vinculo[x]
        /\ UNCHANGED <<planEmpresa, pedidoVars, descuadradas>>
    BY <1>0, <1>3 DEF InsertarVinculo, PerderAlta, PrimeroLaEmpresa
  <2>2. \A c \in Gestiones :
          pasoGestion[c] \notin {"reposo", "fin"} => empresaDe[c] \in Empresas /\ empresaDe[c] # e
    BY <1>0, <2>1 DEF ConVinculo
  <2> QED BY <2>1, <2>2 DEF EnGestion
<1>4. ASSUME NEW w \in Guardadas, NEW e \in Empresas, NEW p \in Planes, LeerEmpresa(w, e, p)
      PROVE  PlanesPorCuadrar' /\ PlanAcorde'
  <2>1. /\ pasoGuardada' = [pasoGuardada EXCEPT ![w] = "leida"]
        /\ copiaEmpresa' = [copiaEmpresa EXCEPT ![w] = [empresa |-> e, plan |-> p]]
        /\ w \in Ediciones => p = planEmpresa[e]
        /\ descuadradas' = IF w \in Asignaciones THEN descuadradas \union {e} ELSE descuadradas
        /\ UNCHANGED <<planEmpresa, altaDe, vinculo, gestionVars>>
    BY <1>4 DEF LeerEmpresa
  <2>2. descuadradas \subseteq descuadradas' /\ \A x : EnGestion(x)' <=> EnGestion(x)
    BY <2>1 DEF EnGestion
  <2>3. /\ copiaEmpresa'[w].empresa = e /\ copiaEmpresa'[w].plan = p /\ pasoGuardada'[w] = "leida"
        /\ \A x \in Guardadas : x # w => /\ copiaEmpresa'[x] = copiaEmpresa[x]
                                         /\ pasoGuardada'[x] = pasoGuardada[x]
    BY <1>0, <2>1
  <2>4. \A x \in Guardadas : NoCambiaElPlan(x)'
    BY <2>1, <2>2, <2>3
  <2>5. PlanesPorCuadrar' /\ PlanAcorde'
    <3>1. \A c \in Gestiones : PlanesEnCurso(c)' <=> PlanesEnCurso(c)
      BY <2>1
    <3> QED BY <2>1, <2>2, <2>4, <3>1
  <2> QED BY <2>5
<1>11. ASSUME NEW w \in Guardadas, CompararEmpresa(w) \/ InterrumpirGuardada(w)
       PROVE  PlanesPorCuadrar' /\ PlanAcorde'
  <2>1. UNCHANGED <<planEmpresa, altaDe, vinculo, gestionVars, copiaEmpresa, descuadradas>>
    BY <1>11 DEF CompararEmpresa, InterrumpirGuardada
  <2>2. /\ \A x \in Guardadas : x # w => pasoGuardada'[x] = pasoGuardada[x]
        /\ pasoGuardada'[w] = "fin"
           \/ /\ pasoGuardada[w] = "leida"
              /\ copiaEmpresa[w].plan # planEmpresa[copiaEmpresa[w].empresa]
    BY <1>0, <1>11 DEF CompararEmpresa, InterrumpirGuardada
  <2>3. \A x \in Guardadas : NoCambiaElPlan(x)'
    BY <2>1, <2>2
  <2> QED BY <2>1, <2>3 DEF EnGestion
<1>12. ASSUME NEW w \in Guardadas, EscribirEmpresa(w)
       PROVE  PlanesPorCuadrar' /\ PlanAcorde'
  <2> DEFINE e == copiaEmpresa[w].empresa
  \* Only a company whose plans may differ is written.
  <2>1. e \in descuadradas
    BY <1>12 DEF EscribirEmpresa
  <2>2. /\ \A x \in Empresas : x # e => planEmpresa'[x] = planEmpresa[x]
        /\ UNCHANGED <<altaDe, vinculo, gestionVars, copiaEmpresa, descuadradas>>
        /\ pasoGuardada'[w] = "fin" /\ \A x \in Guardadas : x # w => pasoGuardada'[x] = pasoGuardada[x]
    BY <1>0, <1>12 DEF EscribirEmpresa
  <2>3. ASSUME NEW x \in Guardadas PROVE NoCambiaElPlan(x)'
    <3>1. pasoGuardada[x] \in {"leida", "distinta"} => copiaEmpresa[x].empresa \in Empresas
      BY <1>0 DEF PrimeroLaEmpresa, EmpresaEnMemoria
    <3> QED BY <2>1, <2>2, <3>1
  <2>4. \A x : EnGestion(x)' <=> EnGestion(x)
    BY <2>2 DEF EnGestion
  <2>5. \A c \in Gestiones :
          pasoGestion[c] \notin {"reposo", "fin"} /\ empresaDe[c] \notin descuadradas =>
            PlanesEnCurso(c)'
    BY <1>0, <2>1, <2>2 DEF ConVinculo
  <2> QED BY <1>0, <2>1, <2>2, <2>3, <2>4, <2>5
<1>5. ASSUME NEW c \in CambiosPlan \union Desvinculos, NEW e \in Empresas, NEW p \in Planes,
             LeerVinculo(c, e, p)
      PROVE  PlanesPorCuadrar' /\ PlanAcorde'
  <2>1. /\ vinculo[e] \in Vinculo
        /\ pasoGestion[c] = "reposo" /\ pasoGestion' = [pasoGestion EXCEPT ![c] = "guardar"]
        /\ empresaDe' = [empresaDe EXCEPT ![c] = e]
        /\ planNuevo' = [planNuevo EXCEPT ![c] = p]
        /\ copiaVinculo' = [copiaVinculo EXCEPT ![c] = Cambiado(c, vinculo[e], p)]
        /\ descuadradas' = IF EnGestion(e) THEN descuadradas \union {e} ELSE descuadradas
        /\ UNCHANGED <<planEmpresa, altaDe, vinculo, porAnotar, guardadaVars>>
    BY <1>0, <1>5 DEF LeerVinculo
  <2>2. Cambiado(c, vinculo[e], p).plan = IF c \in CambiosPlan THEN p ELSE vinculo[e].plan
    <3>1. CASE c \in CambiosPlan
      BY <2>1, <3>1, PlanCambiado DEF Cambiado
    <3>2. CASE c \notin CambiosPlan
      BY <2>1, <3>2, VinculoApagado DEF Cambiado
    <3> QED BY <3>1, <3>2
  <2>3. \A d \in Gestiones : d # c =>
          /\ pasoGestion'[d] = pasoGestion[d] /\ empresaDe'[d] = empresaDe[d]
          /\ planNuevo'[d] = planNuevo[d] /\ copiaVinculo'[d] = copiaVinculo[d]
    BY <1>0, <2>1
  <2>4. /\ pasoGestion'[c] = "guardar" /\ empresaDe'[c] = e /\ planNuevo'[c] = p
        /\ copiaVinculo'[c].plan = IF c \in CambiosPlan THEN p ELSE vinculo[e].plan
    BY <1>0, <2>1, <2>2
  <2>5. \A x : EnGestion(x) => EnGestion(x)'
    BY <2>1, <2>3 DEF EnGestion
  <2>6. e \notin descuadradas' => e \notin descuadradas /\ ~EnGestion(e) /\ vinculo[e].plan = planEmpresa[e]
    BY <1>0, <2>1
  <2>7. \A x \in Empresas : vinculo[x] # Nulo /\ ~EnGestion(x)' /\ x \notin descuadradas' =>
          vinculo[x].plan = planEmpresa[x]
    BY <2>1, <2>5
  <2>8. \A d \in Gestiones :
          pasoGestion'[d] \notin {"reposo", "fin"} /\ d # c /\ empresaDe[d] = e => EnGestion(e)
    BY <2>3 DEF EnGestion
  <2>9. \A x, y \in Gestiones :
          /\ pasoGestion'[x] \notin {"reposo", "fin"} /\ pasoGestion'[y] \notin {"reposo", "fin"}
          /\ empresaDe'[x] = empresaDe'[y] /\ empresaDe'[x] \notin descuadradas'
          => x = y
    BY <2>1, <2>3, <2>4, <2>6, <2>8
  <2>10. \A d \in Gestiones :
           pasoGestion'[d] \notin {"reposo", "fin"} /\ empresaDe'[d] \notin descuadradas' =>
             PlanesEnCurso(d)'
    BY <2>1, <2>3, <2>4, <2>6
  <2>11. \A x \in Empresas \ descuadradas' : altaDe'[x] # Nulo => altaDe'[x].plan = planEmpresa'[x]
    BY <2>1
  <2>12. PlanAcorde'
    BY <2>1, <2>7
  <2>13. \A w \in Guardadas : NoCambiaElPlan(w)'
    BY <2>1
  <2> QED BY <2>9, <2>10, <2>11, <2>12, <2>13
<1>6. ASSUME NEW c \in CambiosPlan \union Desvinculos, CompararVinculo(c)
      PROVE  PlanesPorCuadrar' /\ PlanAcorde'
  <2>1. DOMAIN vinculo[empresaDe[c]] = {"contador", "plan", "activo"}
    BY <1>0, <1>6 DEF CompararVinculo, ConVinculo, Vinculo
  <2>2. /\ pasoGestion[c] = "guardar" /\ pasoGestion' = [pasoGestion EXCEPT ![c] = "comparado"]
        /\ "plan" \in porAnotar'[c] <=> copiaVinculo[c].plan # vinculo[empresaDe[c]].plan
        /\ \A d \in Gestiones : d # c => porAnotar'[d] = porAnotar[d]
        /\ UNCHANGED <<planEmpresa, altaDe, vinculo, empresaDe, planNuevo, copiaVinculo,
                       guardadaVars, descuadradas>>
    BY <1>0, <1>6, <2>1 DEF CompararVinculo
  <2>3. \A d \in Gestiones :
             pasoGestion'[d] \notin {"reposo", "fin"} <=> pasoGestion[d] \notin {"reposo", "fin"}
    BY <1>0, <2>2
  <2>4. \A x : EnGestion(x)' <=> EnGestion(x)
    BY <2>2, <2>3 DEF EnGestion
  <2>5. \A d \in Gestiones :
          pasoGestion[d] \notin {"reposo", "fin"} /\ empresaDe[d] \notin descuadradas =>
            PlanesEnCurso(d)'
    BY <1>0, <2>2
  <2>6. \A w \in Guardadas : NoCambiaElPlan(w)'
    BY <2>2
  <2> QED BY <2>2, <2>3, <2>4, <2>5, <2>6
<1>7. ASSUME NEW c \in CambiosPlan \union Desvinculos, EscribirVinculo(c)
      PROVE  PlanesPorCuadrar' /\ PlanAcorde'
  <2> DEFINE e == empresaDe[c]
  <2>1. /\ e \in Empresas /\ vinculo[e] \in Vinculo
        /\ vinculo'[e].plan = IF "plan" \in porAnotar[c] THEN copiaVinculo[c].plan
                              ELSE vinculo[e].plan
        /\ \A x \in Empresas : x # e => vinculo'[x] = vinculo[x]
    BY <1>7, FilaEscrita
  <2>2. /\ pasoGestion[c] = "comparado"
        /\ pasoGestion' = [pasoGestion EXCEPT ![c] = IF c \in CambiosPlan THEN "empresa" ELSE "fin"]
        /\ UNCHANGED <<planEmpresa, altaDe, empresaDe, planNuevo, copiaVinculo, porAnotar,
                       guardadaVars, descuadradas>>
    BY <1>7 DEF EscribirVinculo
  <2>3. e \notin descuadradas =>
          /\ vinculo'[e].plan = IF c \in CambiosPlan THEN planNuevo[c] ELSE planEmpresa[e]
          /\ \A d \in Gestiones :
               pasoGestion[d] \notin {"reposo", "fin"} /\ empresaDe[d] = e => d = c
    BY <1>0, <2>1, <2>2
  <2>4. /\ c \in CambiosPlan => EnGestion(e)'
        /\ \A x \in Empresas : x # e => (EnGestion(x)' <=> EnGestion(x))
    BY <1>0, <2>2 DEF EnGestion
  <2>5. PlanAcorde'
    BY <2>1, <2>2, <2>3, <2>4
  <2>6. ASSUME NEW d \in Gestiones, pasoGestion'[d] \notin {"reposo", "fin"},
               empresaDe[d] \notin descuadradas
        PROVE  PlanesEnCurso(d)'
    <3>1. CASE d = c
      <4>1. c \in CambiosPlan /\ pasoGestion'[c] = "empresa"
        BY <1>0, <2>2, <2>6, <3>1
      <4> QED BY <2>2, <2>3, <2>6, <3>1, <4>1
    <3>2. CASE d # c
      <4>1. pasoGestion'[d] = pasoGestion[d] /\ empresaDe[d] # e /\ empresaDe[d] \in Empresas
        BY <1>0, <2>2, <2>3, <2>6, <3>2 DEF ConVinculo
      <4> QED BY <2>1, <2>2, <2>6, <4>1
    <3> QED BY <3>1, <3>2
  <2>7. \A x \in Gestiones :
          pasoGestion'[x] \notin {"reposo", "fin"} => pasoGestion[x] \notin {"reposo", "fin"}
    BY <1>0, <2>2
  <2>9. \A w \in Guardadas : NoCambiaElPlan(w)'
    BY <2>2
  <2>8. PlanesPorCuadrar'
    BY <2>2, <2>6, <2>7, <2>9
  <2> QED BY <2>5, <2>8
<1>8. ASSUME NEW c \in CambiosPlan \union Desvinculos, ActualizarEmpresa(c)
      PROVE  PlanesPorCuadrar' /\ PlanAcorde'
  <2> DEFINE e == empresaDe[c]
  <2>1. /\ e \in Empresas /\ planEmpresa'[e] = planNuevo[c] /\ vinculo[e] # Nulo
        /\ \A x \in Empresas : x # e => planEmpresa'[x] = planEmpresa[x]
    BY <1>0, <1>8 DEF ActualizarEmpresa, ConVinculo
  <2>2. /\ pasoGestion[c] = "empresa" /\ pasoGestion' = [pasoGestion EXCEPT ![c] = "fin"]
        /\ UNCHANGED <<vinculo, altaDe, empresaDe, planNuevo, copiaVinculo, porAnotar,
                       guardadaVars>>
        /\ descuadradas' = IF EnMemoria(e) THEN descuadradas \union {e} ELSE descuadradas
    BY <1>8 DEF ActualizarEmpresa
  <2>3. e \notin descuadradas =>
          /\ vinculo[e].plan = planNuevo[c]
          /\ \A d \in Gestiones :
               pasoGestion[d] \notin {"reposo", "fin"} /\ empresaDe[d] = e => d = c
    BY <1>0, <2>1, <2>2
  <2>4. /\ \A d \in Gestiones : pasoGestion'[d] \notin {"reposo", "fin"} =>
             d # c /\ pasoGestion'[d] = pasoGestion[d]
        /\ \A x \in Empresas : x # e => (EnGestion(x)' <=> EnGestion(x))
    BY <1>0, <2>2 DEF EnGestion
  <2>5. PlanAcorde'
    BY <2>1, <2>2, <2>3, <2>4
  <2>6. altaDe[e] = Nulo
    BY <1>0, <2>1 DEF PrimeroLaEmpresa
  <2>7. \A d \in Gestiones : pasoGestion'[d] \notin {"reposo", "fin"} /\ empresaDe[d] \notin descuadradas
          => empresaDe[d] # e /\ empresaDe[d] \in Empresas
    BY <1>0, <2>3, <2>4 DEF ConVinculo
  <2>9. ASSUME NEW w \in Guardadas PROVE NoCambiaElPlan(w)'
    <3>1. pasoGuardada[w] \in {"leida", "distinta"} => copiaEmpresa[w].empresa \in Empresas
      BY <1>0 DEF PrimeroLaEmpresa, EmpresaEnMemoria
    <3>2. CASE copiaEmpresa[w].empresa = e
      BY <2>2, <3>2 DEF EnMemoria
    <3>3. CASE copiaEmpresa[w].empresa # e
      BY <2>1, <2>2, <3>1, <3>3
    <3> QED BY <3>2, <3>3
  <2>8. PlanesPorCuadrar'
    BY <2>1, <2>2, <2>4, <2>6, <2>7, <2>9
  <2> QED BY <2>5, <2>8
<1>9. ASSUME NEW c \in CambiosPlan \union Desvinculos, InterrumpirGestion(c)
      PROVE  PlanesPorCuadrar' /\ PlanAcorde'
  <2> DEFINE e == empresaDe[c]
  <2>1. /\ pasoGestion[c] \in {"guardar", "comparado", "empresa"} /\ e \in Empresas
        /\ pasoGestion' = [pasoGestion EXCEPT ![c] = "fin"]
        /\ descuadradas' = IF pasoGestion[c] = "empresa" THEN descuadradas \union {e}
                           ELSE descuadradas
        /\ UNCHANGED <<planEmpresa, altaDe, vinculo, empresaDe, planNuevo, copiaVinculo, porAnotar,
                       guardadaVars>>
    BY <1>0, <1>9 DEF InterrumpirGestion, ConVinculo
  <2>2. /\ \A d \in Gestiones : pasoGestion'[d] \notin {"reposo", "fin"} =>
             d # c /\ pasoGestion'[d] = pasoGestion[d]
        /\ \A x \in Empresas : x # e => (EnGestion(x)' <=> EnGestion(x))
    BY <1>0, <2>1 DEF EnGestion
  <2>3. e \notin descuadradas' => vinculo[e].plan = planEmpresa[e]
    BY <1>0, <2>1
  <2>4. PlanAcorde'
    BY <2>1, <2>2, <2>3
  <2>6. \A w \in Guardadas : NoCambiaElPlan(w)'
    BY <2>1
  <2>5. PlanesPorCuadrar'
    BY <2>1, <2>2, <2>6
  <2> QED BY <2>4, <2>5
<1>10. ASSUME NEW s \in Suspensiones, SuspenderVinculos(s)
       PROVE  PlanesPorCuadrar' /\ PlanAcorde'
  <2>1. \A x \in Empresas : /\ vinculo'[x] # Nulo <=> vinculo[x] # Nulo
                            /\ vinculo[x] # Nulo => vinculo'[x].plan = vinculo[x].plan
    BY <1>0, <1>10, VinculoApagado DEF SuspenderVinculos, Facturables, Vinculadas
  <2>2. UNCHANGED <<planEmpresa, altaDe, pedidoVars, descuadradas>>
    BY <1>10 DEF SuspenderVinculos
  <2> QED BY <1>0, <2>1, <2>2 DEF EnGestion, ConVinculo
<1> QED
  BY <1>1, <1>2, <1>3, <1>4, <1>5, <1>6, <1>7, <1>8, <1>9, <1>10, <1>11, <1>12
  DEF NextCuentas, cuentaVars, EmpezarGeneracion, BuscarFactura, Calcular, InsertarFactura,
      EmpezarSuspension, VencerFactura, TerminarTrabajo, AvanzarCalendario

LEMMA PasoCuentas ==
  ASSUME IndCuentas, [NextCuentas]_cuentaVars
  PROVE  IndCuentas'
<1>1. TiposCuentas
  BY DEF IndCuentas, TiposCuentas
<1>2. TiposCuentas'
  BY <1>1, PasoTiposCuentas
<1>3. SinFacturaDelMes' /\ FacturaUnica'
  BY <1>1, PasoFacturas DEF IndCuentas
<1>4. SuspendidasAparte' /\ SuspensionFirme'
  BY <1>1, PasoSuspension DEF IndCuentas
<1>5. PlanesPorCuadrar' /\ PlanAcorde'
  BY <1>1, PasoPlanes DEF IndCuentas
<1> QED BY <1>2, <1>3, <1>4, <1>5 DEF IndCuentas, TiposCuentas

LEMMA InvarianteCuentas == SpecCuentas => []IndCuentas
BY InicioCuentas, PasoCuentas, PTL DEF SpecCuentas

\* Whatever calls and runs of the jobs there are: two invoices of one accountant for one
\* month are the work of runs that overlapped.
THEOREM FacturaSiempreUnica == SpecCuentas => []FacturaUnica
<1>1. IndCuentas => FacturaUnica
  BY DEF IndCuentas
<1> QED BY <1>1, InvarianteCuentas, PTL

\* A company suspended with nothing about it in progress stays suspended, and no later
\* invoice has it.
THEOREM SuspensionSiempreFirme == SpecCuentas => []SuspensionFirme
<1>1. IndCuentas => SuspensionFirme
  BY DEF IndCuentas
<1> QED BY <1>1, InvarianteCuentas, PTL

\* The plan of the link is the plan of the company, unless a change of it overlapped with
\* another or with a save of the company's row, ended half way or did not go through the
\* accountant.
THEOREM PlanSiempreAcorde == SpecCuentas => []PlanAcorde
<1>1. IndCuentas => PlanAcorde
  BY DEF IndCuentas
<1> QED BY <1>1, InvarianteCuentas, PTL

-----------------------------------------------------------------------------
(* Users and their sessions                                                *)

USE DEF filasVars, llamadaVars, historiaSesion, Llamadas, Fichas

ColumnasUsuario == {"admin", "activo", "intentos", "primero", "bloqueo"}

\* What a call that has read its user, or its token, has in memory.
ConFilaLeida ==
  /\ columnas \in [Llamadas -> SUBSET ColumnasUsuario]
  /\ \A c \in Llamadas :
       /\ paso[c] \in {"limpiar", "clave", "fallo", "exito"} => c \in Logins /\ quien[c] \in creados
       /\ paso[c] \in {"contar", "guardar"} => c \in Cambios /\ quien[c] \in creados \ SuperAdmins
       /\ paso[c] \in {"canjear", "caducar", "salir"} => fichaDe[c] \in Fichas
       /\ paso[c] = "titular" => quien[c] \in Usuarios

\* The types of the variables that only keep history, and of the rows still to come.
Anotado ==
  /\ fallos \in [Usuarios -> Nat] /\ cruce \in BOOLEAN
  /\ solas \subseteq {c \in Cambios : paso[c] # "reposo"}
  /\ cerrados \subseteq creados
  /\ \A u \in Usuarios \ creados : ~usuario[u].activo

TiposSesiones == TypeOKSesiones /\ ConFilaLeida /\ Anotado

Leido(c) == paso[c] \in {"limpiar", "clave", "fallo", "exito", "contar", "guardar"}

\* A copy, like its row, counts no more failures than there were.
CopiasJustificadas ==
  \A c \in Llamadas : Leido(c) =>
    /\ copiaUsuario[c].intentos <= fallos[quien[c]]
    /\ copiaUsuario[c].bloqueo # Nunca => fallos[quien[c]] >= MaxIntentos

IndBloqueo == CopiasJustificadas /\ BloqueoJustificado

\* Only a save that has compared has columns to write.
SinColumnas == \A c \in Llamadas \ comparadas : columnas[c] = {}

\* While nothing has crossed, an update in progress is alone, a login writes nothing that
\* makes an administrator, an update writes what it was asked, and the one that takes an
\* administrator away leaves another.
CambioSolo ==
  \A c \in Cambios, d \in Cambios \union Logins : EnCurso(c) /\ EnCurso(d) => c = d

LoginsFieles ==
  \A c \in Logins : Leido(c) =>
    /\ copiaUsuario[c].admin = usuario[quien[c]].admin
    /\ copiaUsuario[c].activo = usuario[quien[c]].activo
    /\ "admin" \notin columnas[c] /\ "activo" \notin columnas[c]

CambiosFieles ==
  \A c \in Cambios : Leido(c) /\ c \in comparadas =>
    /\ "admin" \notin columnas[c] => copiaUsuario[c].admin = usuario[quien[c]].admin
    /\ "activo" \notin columnas[c] => copiaUsuario[c].activo = usuario[quien[c]].activo

QuedaOtro ==
  \A c \in Cambios : paso[c] = "guardar" /\ quien[c] \in AdminsActivos =>
    \/ copiaUsuario[c].admin /\ copiaUsuario[c].activo
    \/ \E a \in AdminsActivos : a # quien[c]

SinCruces ==
  ~cruce => CambioSolo /\ LoginsFieles /\ CambiosFieles /\ QuedaOtro /\ AdminsActivos # {}

IndAdmin == SinColumnas /\ SinCruces

\* An update of solas is alone with its user, and will leave him as it was asked.
Solas ==
  \A c \in solas : Leido(c) =>
    /\ \A d \in Llamadas : EnCurso(d) /\ quien[d] = quien[c] => d = c
    /\ c \in comparadas => "activo" \in columnas[c] \/ usuario[quien[c]].activo = copiaUsuario[c].activo

Pedido ==
  \A c \in Cambios : Leido(c) =>
    /\ porPedir[c].activo = {FALSE} => ~copiaUsuario[c].activo
    /\ porPedir[c].activo = {TRUE} => copiaUsuario[c].activo

\* What is in progress about a user who was deactivated does not bring him back unasked.
TrasLaBaja ==
  \A c \in Llamadas : EnCurso(c) /\ quien[c] \in cerrados =>
    c \in Cambios /\ (porPedir[c].activo = {TRUE} \/ ~copiaUsuario[c].activo)

IndBaja == Solas /\ Pedido /\ TrasLaBaja /\ BajaCierraSesiones

\* What the assignments to a user leave in his row.
LEMMA TrasAcierto ==
  ASSUME NEW f \in FilaUsuario, NEW w, w = SinFallos(f)
  PROVE  /\ w \in FilaUsuario /\ w.admin = f.admin /\ w.activo = f.activo
         /\ w.intentos = 0 /\ w.bloqueo = Nunca
<1>1. /\ DOMAIN w = {"admin", "activo", "intentos", "primero", "bloqueo"}
      /\ w.admin = f.admin /\ w.activo = f.activo
      /\ w.intentos = 0 /\ w.primero = Nunca /\ w.bloqueo = Nunca
  BY DEF FilaUsuario, SinFallos
<1>2. f.admin \in BOOLEAN /\ f.activo \in BOOLEAN /\ Nunca \in Fechas /\ 0 \in Nat
  BY DEF FilaUsuario, Fechas
<1>3. w = [admin |-> w.admin, activo |-> w.activo, intentos |-> w.intentos,
           primero |-> w.primero, bloqueo |-> w.bloqueo]
  BY <1>1 DEF FilaUsuario, SinFallos
<1> QED BY <1>1, <1>2, <1>3 DEF FilaUsuario

LEMMA TrasFallo ==
  ASSUME NEW f \in FilaUsuario, reloj \in Nat, NEW w, w = ConUnFallo(f)
  PROVE  /\ w \in FilaUsuario /\ w.admin = f.admin /\ w.activo = f.activo
         /\ w.intentos <= f.intentos + 1
         /\ w.bloqueo # Nunca => f.bloqueo # Nunca \/ w.intentos >= MaxIntentos
<1> DEFINE sigue == f.primero # Nunca /\ reloj - f.primero <= 1
           n == IF sigue THEN f.intentos + 1 ELSE 1
           p == IF sigue THEN f.primero ELSE reloj
           b == IF n >= MaxIntentos THEN reloj + 1 ELSE f.bloqueo
<1>1. w = [f EXCEPT !.intentos = n, !.primero = p, !.bloqueo = b]
  BY DEF ConUnFallo
<1>2. /\ f.admin \in BOOLEAN /\ f.activo \in BOOLEAN /\ f.intentos \in Nat
      /\ f.primero \in Fechas /\ f.bloqueo \in Fechas
  BY DEF FilaUsuario
<1>3. /\ n \in Nat /\ p \in Fechas /\ b \in Fechas /\ n <= f.intentos + 1
      /\ b # Nunca => f.bloqueo # Nunca \/ n >= MaxIntentos
  BY <1>2 DEF Fechas
<1> HIDE DEF n, p, b
<1>4. /\ DOMAIN w = {"admin", "activo", "intentos", "primero", "bloqueo"}
      /\ w.admin = f.admin /\ w.activo = f.activo
      /\ w.intentos = n /\ w.primero = p /\ w.bloqueo = b
  BY <1>1 DEF FilaUsuario
<1>5. w = [admin |-> w.admin, activo |-> w.activo, intentos |-> w.intentos,
           primero |-> w.primero, bloqueo |-> w.bloqueo]
  BY <1>1, <1>4 DEF FilaUsuario
<1>6. w \in FilaUsuario
  BY <1>2, <1>3, <1>4, <1>5 DEF FilaUsuario
<1> QED BY <1>3, <1>4, <1>6

LEMMA TrasDto ==
  ASSUME NEW f \in FilaUsuario, NEW d \in Dto, NEW w, w = ConDto(f, d)
  PROVE  /\ w \in FilaUsuario /\ w.intentos = f.intentos /\ w.bloqueo = f.bloqueo
         /\ d.activo = {FALSE} => ~w.activo
         /\ d.activo = {TRUE} => w.activo
         /\ ~f.activo /\ d.activo # {TRUE} => ~w.activo
         /\ f.admin /\ f.activo /\ ~QuitaAdmin(f, d) => w.admin /\ w.activo
<1> DEFINE a == IF d.admin = {} THEN f.admin ELSE TRUE \in d.admin
           b == IF d.activo = {} THEN f.activo ELSE TRUE \in d.activo
<1>1. w = [f EXCEPT !.admin = a, !.activo = b]
  BY Zenon DEF ConDto
<1>2. /\ f.admin \in BOOLEAN /\ f.activo \in BOOLEAN /\ f.intentos \in Nat
      /\ f.primero \in Fechas /\ f.bloqueo \in Fechas
  BY DEF FilaUsuario
<1>3. d.admin \in {{}, {TRUE}, {FALSE}} /\ d.activo \in {{}, {TRUE}, {FALSE}}
  BY DEF Dto
<1>4. a \in BOOLEAN /\ b \in BOOLEAN
  <2>1. (TRUE \in d.admin) \in BOOLEAN /\ (TRUE \in d.activo) \in BOOLEAN
    BY SMT
  <2>2. a \in BOOLEAN
    <3>1. CASE d.admin = {}
      BY <1>2, <3>1, Zenon
    <3>2. CASE d.admin # {}
      BY <2>1, <3>2, Zenon
    <3> QED BY <3>1, <3>2
  <2>3. b \in BOOLEAN
    <3>1. CASE d.activo = {}
      BY <1>2, <3>1, Zenon
    <3>2. CASE d.activo # {}
      BY <2>1, <3>2, Zenon
    <3> QED BY <3>1, <3>2
  <2> QED BY <2>2, <2>3
<1>5. /\ d.activo = {FALSE} => ~b
      /\ d.activo = {TRUE} => b
      /\ ~f.activo /\ d.activo # {TRUE} => ~b
  BY <1>3, Zenon
<1>6. f.admin /\ f.activo /\ ~QuitaAdmin(f, d) => a /\ b
  BY <1>3, Zenon DEF QuitaAdmin
<1> HIDE DEF a, b
<1>7. /\ DOMAIN w = {"admin", "activo", "intentos", "primero", "bloqueo"}
      /\ w.admin = a /\ w.activo = b /\ w.intentos = f.intentos
      /\ w.primero = f.primero /\ w.bloqueo = f.bloqueo
  BY <1>1 DEF FilaUsuario
<1>8. w = [admin |-> w.admin, activo |-> w.activo, intentos |-> w.intentos,
           primero |-> w.primero, bloqueo |-> w.bloqueo]
  BY <1>1, <1>7 DEF FilaUsuario
<1>9. w \in FilaUsuario
  BY <1>2, <1>4, <1>7, <1>8 DEF FilaUsuario
<1> QED BY <1>5, <1>6, <1>7, <1>9

LEMMA FilasMezcladas ==
  ASSUME NEW v \in FilaUsuario, NEW w \in FilaUsuario, NEW S,
         NEW m, m = [k \in DOMAIN v |-> IF k \in S THEN w[k] ELSE v[k]]
  PROVE  /\ m \in FilaUsuario
         /\ m.admin = IF "admin" \in S THEN w.admin ELSE v.admin
         /\ m.activo = IF "activo" \in S THEN w.activo ELSE v.activo
         /\ m.intentos = IF "intentos" \in S THEN w.intentos ELSE v.intentos
         /\ m.bloqueo = IF "bloqueo" \in S THEN w.bloqueo ELSE v.bloqueo
<1>1. DOMAIN v = ColumnasUsuario
  BY DEF FilaUsuario, ColumnasUsuario
<1>2. /\ DOMAIN m = ColumnasUsuario
      /\ \A x \in ColumnasUsuario : m[x] = IF x \in S THEN w[x] ELSE v[x]
  BY <1>1
<1>3. /\ v.admin \in BOOLEAN /\ v.activo \in BOOLEAN /\ w.admin \in BOOLEAN /\ w.activo \in BOOLEAN
      /\ v.intentos \in Nat /\ v.primero \in Fechas /\ v.bloqueo \in Fechas
      /\ w.intentos \in Nat /\ w.primero \in Fechas /\ w.bloqueo \in Fechas
  BY DEF FilaUsuario
<1>4. m.admin \in BOOLEAN /\ m.activo \in BOOLEAN
  BY <1>2, <1>3, Zenon DEF ColumnasUsuario
<1>5. m = [admin |-> m.admin, activo |-> m.activo, intentos |-> m.intentos,
           primero |-> m.primero, bloqueo |-> m.bloqueo]
  BY <1>1, <1>2 DEF ColumnasUsuario
<1>6. m.intentos \in Nat /\ m.primero \in Fechas /\ m.bloqueo \in Fechas
  BY <1>2, <1>3 DEF ColumnasUsuario
<1>7. m \in FilaUsuario
  BY <1>4, <1>5, <1>6 DEF FilaUsuario
<1> QED BY <1>2, <1>7 DEF ColumnasUsuario

\* What Escribir(c) makes of the row of its user, and leaves alone.
LEMMA UsuarioEscrito ==
  ASSUME TiposSesiones, NEW c \in Llamadas, Escribir(c)
  PROVE  LET u == quien[c]
             v == usuario[u]
             w == copiaUsuario[c]
             S == columnas[c]
         IN /\ u \in creados /\ u \in Usuarios /\ v \in FilaUsuario /\ w \in FilaUsuario
            /\ c \in comparadas /\ Guardando(c) /\ Leido(c)
            /\ usuario'[u] \in FilaUsuario
            /\ usuario'[u].admin = IF "admin" \in S THEN w.admin ELSE v.admin
            /\ usuario'[u].activo = IF "activo" \in S THEN w.activo ELSE v.activo
            /\ usuario'[u].intentos = IF "intentos" \in S THEN w.intentos ELSE v.intentos
            /\ usuario'[u].bloqueo = IF "bloqueo" \in S THEN w.bloqueo ELSE v.bloqueo
            /\ \A x \in Usuarios : x # u => usuario'[x] = usuario[x]
            /\ usuario' \in [Usuarios -> FilaUsuario]
<1> DEFINE u == quien[c]
           v == usuario[u]
           w == copiaUsuario[c]
           S == columnas[c]
           m == [k \in DOMAIN v |-> IF k \in S THEN w[k] ELSE v[k]]
<1>1. c \in comparadas /\ Guardando(c) /\ Leido(c)
  BY DEF Escribir, TiposSesiones, TypeOKSesiones, Guardando, Leido
<1>2. u \in creados /\ u \in Usuarios
  BY <1>1 DEF TiposSesiones, TypeOKSesiones, ConFilaLeida, Guardando
<1>3. v \in FilaUsuario /\ w \in FilaUsuario
  BY <1>2 DEF TiposSesiones, TypeOKSesiones
<1>4. /\ usuario' = [usuario EXCEPT ![u] = m]
      /\ usuario \in [Usuarios -> FilaUsuario]
  BY DEF Escribir, TiposSesiones, TypeOKSesiones
<1>5. /\ m \in FilaUsuario
      /\ m.admin = IF "admin" \in S THEN w.admin ELSE v.admin
      /\ m.activo = IF "activo" \in S THEN w.activo ELSE v.activo
      /\ m.intentos = IF "intentos" \in S THEN w.intentos ELSE v.intentos
      /\ m.bloqueo = IF "bloqueo" \in S THEN w.bloqueo ELSE v.bloqueo
  <2> HIDE DEF u, v, w, S
  <2> QED BY <1>3, FilasMezcladas
<1> HIDE DEF m, v, w, S
<1>6. usuario'[u] = m /\ \A x \in Usuarios : x # u => usuario'[x] = usuario[x]
  BY <1>2, <1>4
<1>7. usuario' \in [Usuarios -> FilaUsuario]
  BY <1>2, <1>4, <1>5
<1> QED BY <1>1, <1>2, <1>3, <1>5, <1>6, <1>7 DEF v, w, S

LEMMA Booleanos ==
  ASSUME NEW x, NEW y PROVE (x = y) \in BOOLEAN /\ (x \in y) \in BOOLEAN
BY SMT

LEMMA FilaReciente ==
  ASSUME NEW a \in BOOLEAN, NEW b \in BOOLEAN,
         NEW w, w = [SinUsuario EXCEPT !.admin = a, !.activo = b]
  PROVE  /\ w \in FilaUsuario /\ w.admin = a /\ w.activo = b
         /\ w.intentos = 0 /\ w.bloqueo = Nunca
<1>1. /\ DOMAIN w = {"admin", "activo", "intentos", "primero", "bloqueo"}
      /\ w.admin = a /\ w.activo = b
      /\ w.intentos = 0 /\ w.primero = Nunca /\ w.bloqueo = Nunca
  BY DEF SinUsuario
<1>2. w = [admin |-> w.admin, activo |-> w.activo, intentos |-> w.intentos,
           primero |-> w.primero, bloqueo |-> w.bloqueo]
  BY <1>1 DEF SinUsuario
<1>3. Nunca \in Fechas /\ 0 \in Nat
  BY DEF Fechas
<1> QED BY <1>1, <1>2, <1>3 DEF FilaUsuario

LEMMA UsuariosIniciales ==
  ASSUME usuario = [u \in Usuarios |-> [SinUsuario EXCEPT !.admin = (u = Primero),
                                          !.activo = u \in SuperAdmins \union {Primero}]]
  PROVE  /\ usuario \in [Usuarios -> FilaUsuario]
         /\ \A u \in Usuarios : /\ usuario[u].intentos = 0 /\ usuario[u].bloqueo = Nunca
                                /\ u \notin SuperAdmins \union {Primero} => ~usuario[u].activo
         /\ usuario[Primero].admin /\ usuario[Primero].activo
<1>1. ASSUME NEW u \in Usuarios
      PROVE  /\ usuario[u] \in FilaUsuario
             /\ usuario[u].admin = (u = Primero)
             /\ usuario[u].activo = (u \in SuperAdmins \union {Primero})
             /\ usuario[u].intentos = 0 /\ usuario[u].bloqueo = Nunca
  <2> DEFINE a == u = Primero
             b == u \in SuperAdmins \union {Primero}
  <2>1. a \in BOOLEAN /\ b \in BOOLEAN
    BY Booleanos, Zenon
  <2>2. usuario[u] = [SinUsuario EXCEPT !.admin = a, !.activo = b]
    BY Zenon
  <2> HIDE DEF a, b
  <2>3. /\ usuario[u] \in FilaUsuario /\ usuario[u].admin = a /\ usuario[u].activo = b
        /\ usuario[u].intentos = 0 /\ usuario[u].bloqueo = Nunca
    BY <2>1, <2>2, FilaReciente
  <2> QED BY <2>3, Zenon DEF a, b
<1>2. usuario = [u \in Usuarios |-> usuario[u]]
  BY Zenon
<1>3. usuario \in [Usuarios -> FilaUsuario]
  BY <1>1, <1>2, Zenon
<1>4. Primero \in Usuarios
  BY SesionesAssumption
<1>5. usuario[Primero].admin /\ usuario[Primero].activo
  BY <1>1, <1>4, Zenon
<1>6. \A u \in Usuarios : u \notin SuperAdmins \union {Primero} => ~usuario[u].activo
  BY <1>1, Zenon
<1> QED BY <1>1, <1>3, <1>5, <1>6, Zenon

LEMMA InicioSesiones ==
  ASSUME InitSesiones PROVE TiposSesiones /\ IndBloqueo /\ IndAdmin /\ IndBaja
<1> USE SesionesAssumption
<1>1. /\ usuario \in [Usuarios -> FilaUsuario]
      /\ \A u \in Usuarios : /\ usuario[u].intentos = 0 /\ usuario[u].bloqueo = Nunca
                             /\ u \notin SuperAdmins \union {Primero} => ~usuario[u].activo
      /\ usuario[Primero].admin /\ usuario[Primero].activo
  BY UsuariosIniciales, Zenon DEF InitSesiones
<1>2. /\ creados = SuperAdmins \union {Primero}
      /\ ficha = [t \in Fichas |-> [estado |-> "libre", dueno |-> Nadie]]
      /\ vencidas = {} /\ reloj = 0
      /\ quien = [c \in Llamadas |-> Nadie] /\ fichaDe = [c \in Llamadas |-> Nadie]
      /\ copiaUsuario = [c \in Llamadas |-> SinUsuario]
      /\ porPedir = [c \in Cambios |-> SinDto]
      /\ comparadas = {} /\ columnas = [c \in Llamadas |-> {}]
      /\ fallos = [u \in Usuarios |-> 0]
      /\ cruce = FALSE /\ solas = {} /\ cerrados = {}
  BY DEF InitSesiones
<1>3. PICK mezcla \in Mezclas :
           paso = [c \in Llamadas |-> IF c \in mezcla THEN "reposo" ELSE "fin"]
  BY DEF InitSesiones
<1>4. /\ paso \in [Llamadas -> {"reposo", "fin"}]
      /\ \A c \in Llamadas : paso[c] \in {"reposo", "fin"}
  BY <1>3
<1>5. SinDto \in Dto
  BY DEF SinDto, Dto
<1>6. SinUsuario \in FilaUsuario
  BY DEF SinUsuario, FilaUsuario, Fechas
<1>7. TypeOKSesiones
  BY <1>1, <1>2, <1>4, <1>5, <1>6 DEF TypeOKSesiones
<1>8. ConFilaLeida
  BY <1>2, <1>4 DEF ConFilaLeida
<1>9. Anotado
  <2>1. cruce \in BOOLEAN
    BY <1>2, Zenon
  <2> QED BY <1>1, <1>2, <2>1 DEF Anotado
<1>10. IndBloqueo
  BY <1>1, <1>2, <1>4 DEF IndBloqueo, CopiasJustificadas, BloqueoJustificado, Leido
<1>11. SinColumnas /\ SinCruces
  <2>1. Primero \in AdminsActivos
    BY <1>1 DEF AdminsActivos
  <2> QED BY <1>2, <1>4, <2>1 DEF SinColumnas, SinCruces, CambioSolo, LoginsFieles, CambiosFieles,
                             QuedaOtro, Leido, EnCurso
<1>12. IndBaja
  BY <1>2, <1>4 DEF IndBaja, Solas, Pedido, TrasLaBaja, BajaCierraSesiones, Leido, EnCurso
<1> QED BY <1>7, <1>8, <1>9, <1>10, <1>11, <1>12 DEF TiposSesiones, IndAdmin

LEMMA PasoTiposSesiones ==
  ASSUME TiposSesiones, [NextSesiones]_sesionVars
  PROVE  TiposSesiones'
<1> USE SesionesAssumption DEF TypeOKSesiones, ConFilaLeida, Pasar, Guardando
<1>0. TypeOKSesiones /\ ConFilaLeida /\ Anotado
  BY DEF TiposSesiones
<1>a. ASSUME NEW c \in Llamadas, NEW u, paso[c] = "reposo", paso'[c] # "reposo",
             \A x \in Llamadas : x # c => paso'[x] = paso[x],
             Anotar(c, u), UNCHANGED <<usuario, creados, fallos, cerrados>>
      PROVE  Anotado'
  <2>1. cruce' \in BOOLEAN
    <3>1. CASE cruce \/ (c \in Cambios /\ \E x \in Cambios \union Logins : EnCurso(x))
               \/ (c \in Logins /\ \E x \in Cambios : EnCurso(x))
      <4>1. cruce' = TRUE
        BY <1>a, <3>1, Zenon DEF Anotar
      <4> QED BY <4>1
    <3>2. CASE ~(cruce \/ (c \in Cambios /\ \E x \in Cambios \union Logins : EnCurso(x))
               \/ (c \in Logins /\ \E x \in Cambios : EnCurso(x)))
      <4>1. cruce' = FALSE
        BY <1>a, <3>2, Zenon DEF Anotar
      <4> QED BY <4>1
    <3> QED BY <3>1, <3>2
  <2>2. solas' \subseteq {x \in Cambios : paso'[x] # "reposo"}
    BY <1>0, <1>a DEF Anotar, Anotado
  <2> QED BY <1>0, <1>a, <2>1, <2>2 DEF Anotado
<1>b. ASSUME UNCHANGED <<usuario, creados, fallos, cerrados, cruce, solas>>,
             \A x \in Llamadas : paso[x] # "reposo" => paso'[x] # "reposo"
      PROVE  Anotado'
  BY <1>0, <1>b DEF Anotado
<1>1. ASSUME NEW c \in Logins, NEW u \in Usuarios, LeerLogin(c, u)
      PROVE  TiposSesiones'
  <2>1. usuario[u] \in FilaUsuario /\ SinFallos(usuario[u]) \in FilaUsuario
    BY <1>0, TrasAcierto
  <2>2. /\ paso[c] = "reposo" /\ u \in creados
        /\ \/ /\ paso' = [paso EXCEPT ![c] = "clave"]
              /\ copiaUsuario' = [copiaUsuario EXCEPT ![c] = usuario[u]]
           \/ /\ paso' = [paso EXCEPT ![c] = "limpiar"]
              /\ copiaUsuario' = [copiaUsuario EXCEPT ![c] = SinFallos(usuario[u])]
        /\ quien' = [quien EXCEPT ![c] = u]
        /\ UNCHANGED <<filasVars, fichaDe, porPedir, comparadas, columnas, fallos, cerrados>>
    BY <1>1 DEF LeerLogin
  <2>3. TypeOKSesiones'
    BY <1>0, <2>1, <2>2
  <2>4. ConFilaLeida'
    BY <1>0, <2>2
  <2>5. Anotado'
    <3>1. Anotar(c, u)
      BY <1>1 DEF LeerLogin
    <3> QED BY <1>0, <1>a, <2>2, <3>1
  <2> QED BY <2>3, <2>4, <2>5 DEF TiposSesiones
<1>2. ASSUME NEW c \in Logins, NEW u \in Usuarios, RechazarLogin(c, u)
      PROVE  TiposSesiones'
  BY <1>0, <1>2, <1>b DEF RechazarLogin, TiposSesiones
<1>3. ASSUME NEW c \in Logins, ClaveErrada(c)
      PROVE  TiposSesiones'
  <2>1. ConUnFallo(copiaUsuario[c]) \in FilaUsuario
    <3>1. reloj \in Nat
      BY <1>0
    <3> QED BY <1>0, <3>1, TrasFallo
  <2>2. /\ paso[c] = "clave" /\ paso' = [paso EXCEPT ![c] = "fallo"]
        /\ copiaUsuario' = [copiaUsuario EXCEPT ![c] = ConUnFallo(copiaUsuario[c])]
        /\ fallos' = [fallos EXCEPT ![quien[c]] = @ + 1]
        /\ UNCHANGED <<filasVars, quien, fichaDe, porPedir, comparadas, columnas, cruce, solas,
                       cerrados>>
    BY <1>3 DEF ClaveErrada
  <2>3. TypeOKSesiones'
    BY <1>0, <2>1, <2>2
  <2>4. ConFilaLeida'
    BY <1>0, <2>2
  <2>5. Anotado'
    BY <1>0, <2>2 DEF Anotado
  <2> QED BY <2>3, <2>4, <2>5 DEF TiposSesiones
<1>4. ASSUME NEW c \in Logins, ClaveBuena(c)
      PROVE  TiposSesiones'
  <2>1. SinFallos(copiaUsuario[c]) \in FilaUsuario
    BY <1>0, TrasAcierto
  <2>2. /\ paso[c] = "clave"
        /\ \/ paso' = [paso EXCEPT ![c] = "emitir"]
           \/ paso' = [paso EXCEPT ![c] = "exito"]
        /\ copiaUsuario' = [copiaUsuario EXCEPT ![c] = SinFallos(copiaUsuario[c])]
        /\ UNCHANGED <<filasVars, quien, fichaDe, porPedir, comparadas, columnas, fallos, cruce,
                       solas, cerrados>>
    BY <1>4 DEF ClaveBuena
  <2>3. TypeOKSesiones'
    BY <1>0, <2>1, <2>2
  <2>4. ConFilaLeida'
    BY <1>0, <2>2
  <2>5. Anotado'
    BY <1>0, <1>b, <2>2
  <2> QED BY <2>3, <2>4, <2>5 DEF TiposSesiones
<1>5. ASSUME NEW c \in Renovaciones \union Salidas, NEW t \in Fichas, LeerFicha(c, t)
      PROVE  TiposSesiones'
  <2>1. /\ paso[c] = "reposo"
        /\ \E p \in {"salir", "caducar", "canjear"} : paso' = [paso EXCEPT ![c] = p]
        /\ quien' = [quien EXCEPT ![c] = ficha[t].dueno]
        /\ fichaDe' = [fichaDe EXCEPT ![c] = t]
        /\ UNCHANGED <<filasVars, copiaUsuario, porPedir, comparadas, columnas, fallos, cerrados>>
    BY <1>5 DEF LeerFicha
  <2>2. TypeOKSesiones'
    BY <1>0, <2>1
  <2>3. ConFilaLeida'
    BY <1>0, <2>1
  <2>4. Anotado'
    <3>1. Anotar(c, ficha[t].dueno)
      BY <1>5 DEF LeerFicha
    <3>2. paso'[c] # "reposo" /\ \A x \in Llamadas : x # c => paso'[x] = paso[x]
      BY <1>0, <2>1
    <3> QED BY <1>0, <1>a, <2>1, <3>1, <3>2
  <2> QED BY <2>2, <2>3, <2>4 DEF TiposSesiones
<1>6. ASSUME NEW c \in Renovaciones \union Salidas, NEW t \in Fichas, SinFicha(c, t)
      PROVE  TiposSesiones'
  BY <1>0, <1>6, <1>b DEF SinFicha, TiposSesiones
<1>7. ASSUME NEW c \in Renovaciones \union Salidas, GuardarFicha(c)
      PROVE  TiposSesiones'
  <2>1. /\ paso[c] \in {"canjear", "caducar", "salir"} /\ fichaDe[c] \in Fichas
        /\ EstadoGuardado(c) \in {"revocado", "expirado"}
        /\ ficha' = [ficha EXCEPT ![fichaDe[c]].estado = EstadoGuardado(c)]
        /\ UNCHANGED <<usuario, creados, vencidas, reloj, quien, fichaDe, copiaUsuario, porPedir,
                       comparadas, columnas, historiaSesion>>
    BY <1>0, <1>7 DEF GuardarFicha, EstadoGuardado, EstadoFinal
  <2>2. \E p \in {"fin", "emitir", "titular"} :
          paso' = [paso EXCEPT ![c] = p] /\ (p = "titular" => quien[c] # Nadie)
    BY <1>7 DEF GuardarFicha
  <2>3. TypeOKSesiones'
    BY <1>0, <2>1, <2>2
  <2>4. ConFilaLeida'
    BY <1>0, <2>1, <2>2
  <2>5. Anotado'
    BY <1>0, <1>b, <2>1, <2>2
  <2> QED BY <2>3, <2>4, <2>5 DEF TiposSesiones
<1>8. ASSUME NEW c \in Renovaciones \union Salidas, LeerTitular(c)
      PROVE  TiposSesiones'
  BY <1>0, <1>8, <1>b DEF LeerTitular, TiposSesiones
<1>9. ASSUME NEW c \in Logins \union Renovaciones, EmpresaInactiva(c)
      PROVE  TiposSesiones'
  BY <1>0, <1>9, <1>b DEF EmpresaInactiva, TiposSesiones
<1>10. ASSUME NEW c \in Logins \union Renovaciones, Emitir(c)
       PROVE  TiposSesiones'
  BY <1>0, <1>10, <1>b DEF Emitir, TiposSesiones
<1>11. ASSUME NEW c \in Cambios, NEW u \in Usuarios, NEW dto \in Dto, LeerCambio(c, u, dto)
       PROVE  TiposSesiones'
  <2>1. ConDto(usuario[u], dto) \in FilaUsuario
    <3>1. usuario[u] \in FilaUsuario
      BY <1>0
    <3> QED BY <3>1, TrasDto, Zenon
  <2>2. /\ paso[c] = "reposo" /\ u \in creados \ SuperAdmins
        /\ \/ paso' = [paso EXCEPT ![c] = "contar"]
           \/ paso' = [paso EXCEPT ![c] = "guardar"]
        /\ copiaUsuario' = [copiaUsuario EXCEPT ![c] = ConDto(usuario[u], dto)]
        /\ quien' = [quien EXCEPT ![c] = u]
        /\ porPedir' = [porPedir EXCEPT ![c] = dto]
        /\ UNCHANGED <<filasVars, fichaDe, comparadas, columnas, fallos, cerrados>>
    BY <1>11 DEF LeerCambio
  <2>3. TypeOKSesiones'
    BY <1>0, <2>1, <2>2
  <2>4. ConFilaLeida'
    BY <1>0, <2>2
  <2>5. Anotado'
    <3>1. Anotar(c, u)
      BY <1>11 DEF LeerCambio
    <3>2. paso'[c] # "reposo" /\ \A x \in Llamadas : x # c => paso'[x] = paso[x]
      BY <1>0, <2>2
    <3> QED BY <1>0, <1>a, <2>2, <3>1, <3>2
  <2> QED BY <2>3, <2>4, <2>5 DEF TiposSesiones
<1>12. ASSUME NEW c \in Cambios, ContarAdmins(c)
       PROVE  TiposSesiones'
  <2>1. /\ paso[c] = "contar"
        /\ \/ paso' = [paso EXCEPT ![c] = "guardar"]
           \/ paso' = [paso EXCEPT ![c] = "fin"]
        /\ UNCHANGED <<filasVars, quien, fichaDe, copiaUsuario, porPedir, comparadas, columnas,
                       historiaSesion>>
    BY <1>12 DEF ContarAdmins
  <2>2. TypeOKSesiones' /\ ConFilaLeida'
    BY <1>0, <2>1
  <2>3. Anotado'
    BY <1>0, <1>b, <2>1
  <2> QED BY <2>2, <2>3 DEF TiposSesiones
<1>13. ASSUME NEW c \in Llamadas, Comparar(c)
       PROVE  TiposSesiones'
  <2>1. quien[c] \in Usuarios /\ usuario[quien[c]] \in FilaUsuario
    BY <1>0, <1>13 DEF Comparar
  <2>2. DOMAIN usuario[quien[c]] = ColumnasUsuario /\ DOMAIN SinUsuario = ColumnasUsuario
    BY <2>1 DEF FilaUsuario, SinUsuario, ColumnasUsuario
  <2>3. /\ columnas' \in [Llamadas -> SUBSET ColumnasUsuario]
    BY <1>0, <1>13, <2>2 DEF Comparar
  <2>4. /\ paso[c] \in {"limpiar", "fallo", "exito", "guardar"}
        /\ comparadas' = comparadas \union {c}
        /\ UNCHANGED <<filasVars, paso, quien, fichaDe, copiaUsuario, porPedir, historiaSesion>>
    BY <1>13 DEF Comparar
  <2>5. TypeOKSesiones' /\ ConFilaLeida'
    BY <1>0, <2>2, <2>3, <2>4
  <2>6. Anotado'
    BY <1>0, <1>b, <2>4
  <2> QED BY <2>5, <2>6 DEF TiposSesiones
<1>14. ASSUME NEW c \in Llamadas, Escribir(c)
       PROVE  TiposSesiones'
  <2>1. /\ usuario' \in [Usuarios -> FilaUsuario]
        /\ quien[c] \in creados
        /\ \A x \in Usuarios : x # quien[c] => usuario'[x] = usuario[x]
        /\ paso[c] \in {"limpiar", "fallo", "exito", "guardar"}
    BY <1>14, UsuarioEscrito
  <2>2. /\ \E p \in {"clave", "emitir", "fin"} :
             /\ paso' = [paso EXCEPT ![c] = p]
             /\ p = "clave" => paso[c] = "limpiar"
        /\ comparadas' = comparadas \ {c}
        /\ columnas' = [columnas EXCEPT ![c] = {}]
        /\ UNCHANGED <<creados, vencidas, reloj, quien, fichaDe, copiaUsuario, porPedir, fallos,
                       cruce, solas>>
    BY <1>14 DEF Escribir, Siguiente
  <2>3. ficha' \in [Fichas -> [estado : {"libre", "activo", "revocado", "expirado"},
                               dueno : Usuarios \union {Nadie}]]
    BY <1>0, <1>14 DEF Escribir
  <2>4. TypeOKSesiones' /\ ConFilaLeida'
    BY <1>0, <2>1, <2>2, <2>3
  <2>5. cerrados' \subseteq creados
    <3>1. cerrados' \in {cerrados, cerrados \union {quien[c]}, cerrados \ {quien[c]}}
      BY <1>14, Zenon DEF Escribir
    <3> QED BY <1>0, <2>1, <3>1 DEF Anotado
  <2>6. Anotado'
    BY <1>0, <2>1, <2>2, <2>5 DEF Anotado
  <2> QED BY <2>4, <2>6 DEF TiposSesiones
<1>15. ASSUME NEW c \in Llamadas, Interrumpir(c)
       PROVE  TiposSesiones'
  <2>1. /\ paso' = [paso EXCEPT ![c] = "fin"]
        /\ comparadas' = comparadas \ {c}
        /\ columnas' = [columnas EXCEPT ![c] = {}]
        /\ UNCHANGED <<filasVars, quien, fichaDe, copiaUsuario, porPedir, historiaSesion>>
    BY <1>15 DEF Interrumpir
  <2>2. TypeOKSesiones' /\ ConFilaLeida'
    BY <1>0, <2>1
  <2>3. Anotado'
    BY <1>0, <1>b, <2>1
  <2> QED BY <2>2, <2>3 DEF TiposSesiones
<1>16. ASSUME NEW u \in Usuarios, NEW esAdmin \in BOOLEAN, CrearUsuario(u, esAdmin)
       PROVE  TiposSesiones'
  <2>1. [SinUsuario EXCEPT !.admin = esAdmin, !.activo = TRUE] \in FilaUsuario
    BY FilaReciente, Zenon
  <2>2. /\ creados' = creados \union {u}
        /\ usuario' = [usuario EXCEPT ![u] = [SinUsuario EXCEPT !.admin = esAdmin, !.activo = TRUE]]
        /\ UNCHANGED <<ficha, vencidas, reloj, llamadaVars, historiaSesion>>
    BY <1>16 DEF CrearUsuario
  <2> HIDE DEF ConFilaLeida
  <2>3. TypeOKSesiones'
    BY <1>0, <2>1, <2>2
  <2>4. ConFilaLeida'
    BY <1>0, <2>2 DEF ConFilaLeida
  <2>5. Anotado'
    BY <1>0, <2>2 DEF Anotado
  <2> QED BY <2>3, <2>4, <2>5 DEF TiposSesiones
<1>17. CASE AvanzarReloj
  BY <1>0, <1>17, <1>b DEF AvanzarReloj, TiposSesiones
<1>18. ASSUME NEW t \in Fichas, Vencer(t)
       PROVE  TiposSesiones'
  BY <1>0, <1>18, <1>b DEF Vencer, TiposSesiones
<1>19. CASE UNCHANGED sesionVars
  BY <1>0, <1>19, <1>b DEF sesionVars, TiposSesiones
<1> QED
  BY <1>1, <1>2, <1>3, <1>4, <1>5, <1>6, <1>7, <1>8, <1>9, <1>10, <1>11, <1>12, <1>13, <1>14,
     <1>15, <1>16, <1>17, <1>18, <1>19
  DEF NextSesiones
\* No order in which logins save what they read locks a row before its time.
LEMMA PasoBloqueo ==
  ASSUME TiposSesiones, IndBloqueo, [NextSesiones]_sesionVars
  PROVE  IndBloqueo'
<1> USE SesionesAssumption DEF Pasar, Leido
<1>0. /\ usuario \in [Usuarios -> FilaUsuario] /\ creados \subseteq Usuarios
      /\ copiaUsuario \in [Llamadas -> FilaUsuario]
      /\ quien \in [Llamadas -> Usuarios \union {Nadie}] /\ paso = [c \in Llamadas |-> paso[c]]
      /\ fallos \in [Usuarios -> Nat] /\ reloj \in Nat
      /\ \A c \in Llamadas : Leido(c) => quien[c] \in creados
  BY DEF TiposSesiones, TypeOKSesiones, ConFilaLeida, Anotado
<1>i. \A u \in Usuarios : usuario[u].intentos \in Nat
  BY <1>0 DEF FilaUsuario
<1>j. \A c \in Llamadas : copiaUsuario[c].intentos \in Nat
  BY <1>0 DEF FilaUsuario
<1>c. CopiasJustificadas /\ BloqueoJustificado
  BY DEF IndBloqueo
<1>a. ASSUME UNCHANGED <<usuario, fallos>>, NEW c \in Llamadas, NEW u \in Usuarios,
             Leido(c)' => /\ quien'[c] = u
                          /\ copiaUsuario'[c].intentos <= fallos[u]
                          /\ copiaUsuario'[c].bloqueo # Nunca => fallos[u] >= MaxIntentos,
             \A x \in Llamadas : x # c /\ Leido(x)' =>
               Leido(x) /\ copiaUsuario'[x] = copiaUsuario[x] /\ quien'[x] = quien[x]
      PROVE  IndBloqueo'
  <2>1. BloqueoJustificado'
    BY <1>c, <1>a DEF BloqueoJustificado
  <2>2. CopiasJustificadas'
    BY <1>c, <1>a DEF CopiasJustificadas
  <2> QED BY <2>1, <2>2 DEF IndBloqueo
<1>b. ASSUME UNCHANGED <<usuario, fallos, copiaUsuario>>,
             \A x \in Llamadas : Leido(x)' => Leido(x) /\ quien'[x] = quien[x]
      PROVE  IndBloqueo'
  <2>1. BloqueoJustificado'
    BY <1>c, <1>b DEF BloqueoJustificado
  <2>2. CopiasJustificadas'
    BY <1>c, <1>b DEF CopiasJustificadas
  <2> QED BY <2>1, <2>2 DEF IndBloqueo
<1>1. ASSUME NEW c \in Logins, NEW u \in Usuarios, LeerLogin(c, u)
      PROVE  IndBloqueo'
  <2>1. /\ usuario[u].intentos <= fallos[u]
        /\ usuario[u].bloqueo # Nunca => fallos[u] >= MaxIntentos
    BY <1>c DEF BloqueoJustificado
  <2>2. SinFallos(usuario[u]).intentos = 0 /\ SinFallos(usuario[u]).bloqueo = Nunca
    <3>1. usuario[u] \in FilaUsuario
      BY <1>0
    <3> QED BY <3>1, TrasAcierto, Zenon
  <2>3. /\ \/ copiaUsuario' = [copiaUsuario EXCEPT ![c] = usuario[u]]
           \/ copiaUsuario' = [copiaUsuario EXCEPT ![c] = SinFallos(usuario[u])]
        /\ \E p : paso' = [paso EXCEPT ![c] = p]
        /\ quien' = [quien EXCEPT ![c] = u]
        /\ UNCHANGED <<usuario, fallos>>
    BY <1>1 DEF LeerLogin
  <2>4. /\ quien'[c] = u /\ copiaUsuario'[c].intentos <= fallos[u]
        /\ copiaUsuario'[c].bloqueo # Nunca => fallos[u] >= MaxIntentos
    BY <1>0, <2>1, <2>2, <2>3
  <2>5. \A x \in Llamadas : x # c =>
          paso'[x] = paso[x] /\ copiaUsuario'[x] = copiaUsuario[x] /\ quien'[x] = quien[x]
    BY <1>0, <2>3
  <2> QED BY <1>a, <2>3, <2>4, <2>5
<1>2. ASSUME NEW c \in Logins, NEW u \in Usuarios, RechazarLogin(c, u)
      PROVE  IndBloqueo'
  BY <1>0, <1>2, <1>b DEF RechazarLogin
<1>3. ASSUME NEW c \in Logins, ClaveErrada(c)
      PROVE  IndBloqueo'
  <2> DEFINE w == ConUnFallo(copiaUsuario[c])
             u == quien[c]
  <2>1. /\ paso[c] = "clave" /\ paso' = [paso EXCEPT ![c] = "fallo"]
        /\ copiaUsuario' = [copiaUsuario EXCEPT ![c] = w]
        /\ fallos' = [fallos EXCEPT ![u] = @ + 1]
        /\ UNCHANGED <<usuario, quien>>
    BY <1>3 DEF ClaveErrada
  <2>2. /\ w \in FilaUsuario /\ w.intentos <= copiaUsuario[c].intentos + 1
        /\ w.bloqueo # Nunca => copiaUsuario[c].bloqueo # Nunca \/ w.intentos >= MaxIntentos
    BY <1>0, TrasFallo
  <2>3. w.intentos \in Nat
    BY <2>2 DEF FilaUsuario
  <2>4. u \in Usuarios /\ fallos[u] \in Nat
    BY <1>0, <2>1
  <2>5. /\ copiaUsuario[c].intentos <= fallos[u]
        /\ copiaUsuario[c].bloqueo # Nunca => fallos[u] >= MaxIntentos
    BY <1>c, <2>1 DEF CopiasJustificadas
  <2> HIDE DEF w
  <2>6. fallos'[u] = fallos[u] + 1 /\ \A x \in Usuarios : fallos'[x] \in Nat /\ fallos'[x] >= fallos[x]
    BY <1>0, <2>1, <2>4
  <2>7. /\ w.intentos <= fallos'[u]
        /\ w.bloqueo # Nunca => fallos'[u] >= MaxIntentos
    BY <1>j, <2>2, <2>3, <2>4, <2>5, <2>6
  <2>8. BloqueoJustificado'
    BY <1>c, <1>0, <1>i, <2>1, <2>6 DEF BloqueoJustificado
  <2>9. CopiasJustificadas'
    <3>1. ASSUME NEW x \in Llamadas, Leido(x)', x # c
          PROVE  /\ copiaUsuario'[x].intentos <= fallos'[quien'[x]]
                 /\ copiaUsuario'[x].bloqueo # Nunca => fallos'[quien'[x]] >= MaxIntentos
      <4>1. /\ Leido(x) /\ copiaUsuario'[x] = copiaUsuario[x] /\ quien'[x] = quien[x]
            /\ quien[x] \in Usuarios /\ fallos[quien[x]] \in Nat
        BY <1>0, <2>1, <3>1
      <4>2. /\ copiaUsuario[x].intentos <= fallos[quien[x]]
            /\ copiaUsuario[x].bloqueo # Nunca => fallos[quien[x]] >= MaxIntentos
        BY <1>c, <4>1 DEF CopiasJustificadas
      <4> QED BY <1>j, <2>6, <4>1, <4>2
    <3>2. copiaUsuario'[c] = w /\ quien'[c] = u
      BY <1>0, <2>1
    <3> QED BY <2>7, <3>1, <3>2 DEF CopiasJustificadas
  <2> QED BY <2>8, <2>9 DEF IndBloqueo
<1>4. ASSUME NEW c \in Logins, ClaveBuena(c)
      PROVE  IndBloqueo'
  <2>1. SinFallos(copiaUsuario[c]).intentos = 0 /\ SinFallos(copiaUsuario[c]).bloqueo = Nunca
    <3>1. copiaUsuario[c] \in FilaUsuario
      BY <1>0
    <3> QED BY <3>1, TrasAcierto, Zenon
  <2>2. /\ paso[c] = "clave" /\ \E p : paso' = [paso EXCEPT ![c] = p]
        /\ copiaUsuario' = [copiaUsuario EXCEPT ![c] = SinFallos(copiaUsuario[c])]
        /\ UNCHANGED <<usuario, quien, fallos>>
    BY <1>4 DEF ClaveBuena
  <2>3. quien[c] \in Usuarios /\ fallos[quien[c]] \in Nat
    BY <1>0, <2>2
  <2>4. copiaUsuario'[c].intentos = 0 /\ copiaUsuario'[c].bloqueo = Nunca
    BY <1>0, <2>1, <2>2
  <2>5. \A x \in Llamadas : x # c => paso'[x] = paso[x] /\ copiaUsuario'[x] = copiaUsuario[x]
    BY <1>0, <2>2
  <2> QED BY <1>a, <2>2, <2>3, <2>4, <2>5
<1>5. ASSUME NEW c \in Renovaciones \union Salidas, NEW t \in Fichas, LeerFicha(c, t)
      PROVE  IndBloqueo'
  <2>1. /\ \E p \in {"salir", "caducar", "canjear"} : paso' = [paso EXCEPT ![c] = p]
        /\ quien' = [quien EXCEPT ![c] = ficha[t].dueno]
        /\ UNCHANGED <<usuario, fallos, copiaUsuario>>
    BY <1>5 DEF LeerFicha
  <2> QED BY <1>0, <1>b, <2>1
<1>6. ASSUME NEW c \in Renovaciones \union Salidas, NEW t \in Fichas, SinFicha(c, t)
      PROVE  IndBloqueo'
  BY <1>0, <1>6, <1>b DEF SinFicha
<1>7. ASSUME NEW c \in Renovaciones \union Salidas, GuardarFicha(c)
      PROVE  IndBloqueo'
  <2>1. /\ \E p \in {"fin", "emitir", "titular"} : paso' = [paso EXCEPT ![c] = p]
        /\ UNCHANGED <<usuario, fallos, copiaUsuario, quien>>
    BY <1>7 DEF GuardarFicha
  <2> QED BY <1>0, <1>b, <2>1
<1>8. ASSUME NEW c \in Renovaciones \union Salidas, LeerTitular(c)
      PROVE  IndBloqueo'
  BY <1>0, <1>8, <1>b DEF LeerTitular
<1>9. ASSUME NEW c \in Logins \union Renovaciones, EmpresaInactiva(c)
      PROVE  IndBloqueo'
  BY <1>0, <1>9, <1>b DEF EmpresaInactiva
<1>10. ASSUME NEW c \in Logins \union Renovaciones, Emitir(c)
       PROVE  IndBloqueo'
  BY <1>0, <1>10, <1>b DEF Emitir
<1>11. ASSUME NEW c \in Cambios, NEW u \in Usuarios, NEW dto \in Dto, LeerCambio(c, u, dto)
       PROVE  IndBloqueo'
  <2> DEFINE w == ConDto(usuario[u], dto)
  <2>1. w.intentos = usuario[u].intentos /\ w.bloqueo = usuario[u].bloqueo
    <3>1. usuario[u] \in FilaUsuario
      BY <1>0
    <3> QED BY <3>1, TrasDto, Zenon
  <2>2. /\ \E p : paso' = [paso EXCEPT ![c] = p]
        /\ copiaUsuario' = [copiaUsuario EXCEPT ![c] = w]
        /\ quien' = [quien EXCEPT ![c] = u]
        /\ UNCHANGED <<usuario, fallos>>
    BY <1>11 DEF LeerCambio
  <2> HIDE DEF w
  <2>3. /\ quien'[c] = u /\ copiaUsuario'[c].intentos = usuario[u].intentos
        /\ copiaUsuario'[c].bloqueo = usuario[u].bloqueo
    BY <1>0, <2>1, <2>2
  <2>4. /\ usuario[u].intentos <= fallos[u]
        /\ usuario[u].bloqueo # Nunca => fallos[u] >= MaxIntentos
    BY <1>c DEF BloqueoJustificado
  <2>5. \A x \in Llamadas : x # c =>
          paso'[x] = paso[x] /\ copiaUsuario'[x] = copiaUsuario[x] /\ quien'[x] = quien[x]
    BY <1>0, <2>2
  <2> QED BY <1>a, <2>2, <2>3, <2>4, <2>5
<1>12. ASSUME NEW c \in Cambios, ContarAdmins(c)
       PROVE  IndBloqueo'
  <2>1. /\ paso[c] = "contar" /\ \E p : paso' = [paso EXCEPT ![c] = p]
        /\ UNCHANGED <<usuario, fallos, copiaUsuario, quien>>
    BY <1>12 DEF ContarAdmins
  <2> QED BY <1>0, <1>b, <2>1
<1>13. ASSUME NEW c \in Llamadas, Comparar(c)
       PROVE  IndBloqueo'
  BY <1>13, <1>b DEF Comparar
<1>14. ASSUME NEW c \in Llamadas, Escribir(c)
       PROVE  IndBloqueo'
  <2> DEFINE u == quien[c]
  <2>1. /\ u \in Usuarios /\ Leido(c)
        /\ usuario'[u].intentos \in {copiaUsuario[c].intentos, usuario[u].intentos}
        /\ usuario'[u].bloqueo \in {copiaUsuario[c].bloqueo, usuario[u].bloqueo}
        /\ \A x \in Usuarios : x # u => usuario'[x] = usuario[x]
    BY <1>14, UsuarioEscrito
  <2>2. /\ copiaUsuario[c].intentos <= fallos[u]
        /\ copiaUsuario[c].bloqueo # Nunca => fallos[u] >= MaxIntentos
    BY <1>c, <2>1 DEF CopiasJustificadas
  <2>3. /\ \E p : paso' = [paso EXCEPT ![c] = p]
        /\ UNCHANGED <<fallos, copiaUsuario, quien>>
    BY <1>14 DEF Escribir
  <2>4. BloqueoJustificado'
    BY <1>c, <2>1, <2>2, <2>3 DEF BloqueoJustificado
  <2>5. \A x \in Llamadas : Leido(x)' => Leido(x)
    BY <1>0, <2>1, <2>3
  <2>6. CopiasJustificadas'
    BY <1>c, <2>3, <2>5 DEF CopiasJustificadas
  <2> QED BY <2>4, <2>6 DEF IndBloqueo
<1>15. ASSUME NEW c \in Llamadas, Interrumpir(c)
       PROVE  IndBloqueo'
  BY <1>0, <1>15, <1>b DEF Interrumpir
<1>16. ASSUME NEW u \in Usuarios, NEW esAdmin \in BOOLEAN, CrearUsuario(u, esAdmin)
       PROVE  IndBloqueo'
  <2> DEFINE w == [SinUsuario EXCEPT !.admin = esAdmin, !.activo = TRUE]
  <2>1. w.intentos = 0 /\ w.bloqueo = Nunca
    BY FilaReciente, Zenon
  <2>2. /\ usuario' = [usuario EXCEPT ![u] = w]
        /\ UNCHANGED <<fallos, copiaUsuario, paso, quien>>
    BY <1>16 DEF CrearUsuario
  <2> HIDE DEF w
  <2>3. usuario'[u] = w /\ \A x \in Usuarios : x # u => usuario'[x] = usuario[x]
    BY <1>0, <2>2
  <2>4. BloqueoJustificado'
    BY <1>c, <1>0, <2>1, <2>2, <2>3 DEF BloqueoJustificado
  <2>5. CopiasJustificadas'
    BY <1>c, <2>2 DEF CopiasJustificadas
  <2> QED BY <2>4, <2>5 DEF IndBloqueo
<1>17. CASE AvanzarReloj
  BY <1>17, <1>b DEF AvanzarReloj
<1>18. ASSUME NEW t \in Fichas, Vencer(t)
       PROVE  IndBloqueo'
  BY <1>18, <1>b DEF Vencer
<1>19. CASE UNCHANGED sesionVars
  BY <1>19, <1>b DEF sesionVars
<1> QED
  BY <1>1, <1>2, <1>3, <1>4, <1>5, <1>6, <1>7, <1>8, <1>9, <1>10, <1>11, <1>12, <1>13, <1>14,
     <1>15, <1>16, <1>17, <1>18, <1>19
  DEF NextSesiones

\* A finite set of more than one element has another one than u.
LEMMA OtroMas ==
  ASSUME NEW S, IsFiniteSet(S), Cardinality(S) > 1, NEW u
  PROVE  \E a \in S : a # u
<1>1. SUFFICES ASSUME S \subseteq {u} PROVE FALSE
  OBVIOUS
<1>2. IsFiniteSet({u}) /\ Cardinality({u}) = 1
  BY FS_Singleton
<1>3. Cardinality(S) <= Cardinality({u})
  BY <1>1, <1>2, FS_Subset
<1>4. Cardinality(S) \in Nat
  BY FS_CardinalityType
<1> QED BY <1>2, <1>3, <1>4

\* Updates that overlap with nothing leave the company an administrator.
LEMMA PasoAdmin ==
  ASSUME TiposSesiones, IndAdmin, [NextSesiones]_sesionVars
  PROVE  IndAdmin'
<1> USE SesionesAssumption DEF Pasar
<1>0. /\ usuario \in [Usuarios -> FilaUsuario] /\ creados \subseteq Usuarios
      /\ copiaUsuario \in [Llamadas -> FilaUsuario]
      /\ quien \in [Llamadas -> Usuarios \union {Nadie}] /\ paso = [c \in Llamadas |-> paso[c]]
      /\ columnas = [c \in Llamadas |-> columnas[c]]
      /\ \A c \in Llamadas : Leido(c) => c \in Logins \union Cambios /\ quien[c] \in creados
      /\ \A c \in comparadas : Guardando(c)
      /\ \A c \in Llamadas : Leido(c) => EnCurso(c)
      /\ \A c \in Cambios : Leido(c) /\ Guardando(c) => paso[c] = "guardar" 
  BY DEF TiposSesiones, TypeOKSesiones, ConFilaLeida, Guardando, Leido, EnCurso
<1>s. SinColumnas
  BY DEF IndAdmin
<1>p. SinColumnas'
  <2>2. ASSUME NEW c \in Llamadas, Comparar(c)
        PROVE  SinColumnas'
    BY <1>0, <1>s, <2>2 DEF SinColumnas, Comparar
  <2>3. ASSUME NEW c \in Llamadas, Escribir(c) \/ Interrumpir(c)
        PROVE  SinColumnas'
    BY <1>0, <1>s, <2>3 DEF SinColumnas, Escribir, Interrumpir
  <2>4. \/ UNCHANGED <<comparadas, columnas>>
        \/ \E c \in Llamadas : Comparar(c) \/ Escribir(c) \/ Interrumpir(c)
    BY ZenonT(60) DEF NextSesiones, sesionVars, LeerLogin, RechazarLogin, ClaveErrada, ClaveBuena, LeerFicha,
           SinFicha, GuardarFicha, LeerTitular, EmpresaInactiva, Emitir, LeerCambio, ContarAdmins,
           CrearUsuario, AvanzarReloj, Vencer
  <2> QED BY <1>s, <2>2, <2>3, <2>4 DEF SinColumnas
<1>n. SUFFICES ASSUME ~cruce'
      PROVE  CambioSolo' /\ LoginsFieles' /\ CambiosFieles' /\ QuedaOtro' /\ AdminsActivos' # {}
  BY <1>p DEF IndAdmin, SinCruces
<1>c. ASSUME ~cruce
      PROVE  CambioSolo /\ LoginsFieles /\ CambiosFieles /\ QuedaOtro /\ AdminsActivos # {}
  BY <1>c DEF IndAdmin, SinCruces
<1>a. ASSUME ~cruce, UNCHANGED <<usuario, copiaUsuario>>, comparadas' \subseteq comparadas,
             \A x \in Llamadas : Leido(x)' => /\ Leido(x) /\ quien'[x] = quien[x]
                                              /\ columnas'[x] = columnas[x],
             \A x \in Cambios : paso'[x] = "guardar" => paso[x] = "guardar",
             \A x \in Cambios \union Logins : EnCurso(x)' => EnCurso(x)
      PROVE  CambioSolo' /\ LoginsFieles' /\ CambiosFieles' /\ QuedaOtro' /\ AdminsActivos' # {}
  <2>1. AdminsActivos' = AdminsActivos
    BY <1>a DEF AdminsActivos
  <2>2. CambioSolo'
    BY <1>a, <1>c DEF CambioSolo
  <2>3. LoginsFieles' /\ CambiosFieles'
    BY <1>a, <1>c DEF LoginsFieles, CambiosFieles
  <2>4. QuedaOtro'
    BY <1>a, <1>c, <2>1 DEF QuedaOtro, Leido
  <2> QED BY <1>a, <1>c, <2>1, <2>2, <2>3, <2>4
<1>b. ASSUME NEW c \in Llamadas, NEW u, Anotar(c, u)
      PROVE  /\ ~cruce
             /\ c \in Cambios => \A x \in Cambios \union Logins : ~EnCurso(x)
             /\ c \in Logins => \A x \in Cambios : ~EnCurso(x)
  BY <1>n, <1>b, Zenon DEF Anotar
<1>1. ASSUME NEW c \in Logins, NEW u \in Usuarios, LeerLogin(c, u)
      PROVE  CambioSolo' /\ LoginsFieles' /\ CambiosFieles' /\ QuedaOtro' /\ AdminsActivos' # {}
  <2>0. ~cruce /\ \A x \in Cambios : ~EnCurso(x)
    BY <1>1, <1>b DEF LeerLogin
  <2>1. /\ paso[c] = "reposo"
        /\ \/ copiaUsuario' = [copiaUsuario EXCEPT ![c] = usuario[u]]
           \/ copiaUsuario' = [copiaUsuario EXCEPT ![c] = SinFallos(usuario[u])]
        /\ \E p : paso' = [paso EXCEPT ![c] = p]
        /\ quien' = [quien EXCEPT ![c] = u]
        /\ UNCHANGED <<usuario, comparadas, columnas>>
    BY <1>1 DEF LeerLogin
  <2>2. SinFallos(usuario[u]).admin = usuario[u].admin /\ SinFallos(usuario[u]).activo = usuario[u].activo
    <3>1. usuario[u] \in FilaUsuario
      BY <1>0
    <3> QED BY <3>1, TrasAcierto, Zenon
  <2>3. /\ quien'[c] = u /\ copiaUsuario'[c].admin = usuario[u].admin
        /\ copiaUsuario'[c].activo = usuario[u].activo
    BY <1>0, <2>1, <2>2
  <2>4. \A x \in Llamadas : x # c =>
          paso'[x] = paso[x] /\ copiaUsuario'[x] = copiaUsuario[x] /\ quien'[x] = quien[x]
    BY <1>0, <2>1
  <2>5. columnas[c] = {}
    BY <1>0, <1>s, <2>1 DEF SinColumnas, Guardando
  <2>6. \A x \in Cambios : ~EnCurso(x)' /\ ~Leido(x)'
    BY <2>0, <2>4 DEF EnCurso, Leido
  <2>7. CambioSolo' /\ CambiosFieles' /\ QuedaOtro'
    BY <2>6 DEF CambioSolo, CambiosFieles, QuedaOtro, Leido
  <2>8. LoginsFieles'
    <3>1. \A x \in Logins : x # c /\ Leido(x)' => Leido(x)
      BY <2>4 DEF Leido
    <3> QED BY <1>c, <2>0, <2>1, <2>3, <2>4, <2>5, <3>1 DEF LoginsFieles
  <2>9. AdminsActivos' = AdminsActivos
    BY <2>1 DEF AdminsActivos
  <2> QED BY <1>c, <2>0, <2>7, <2>8, <2>9
<1>2. ASSUME NEW c \in Logins, NEW u \in Usuarios, RechazarLogin(c, u)
      PROVE  CambioSolo' /\ LoginsFieles' /\ CambiosFieles' /\ QuedaOtro' /\ AdminsActivos' # {}
  BY <1>0, <1>2, <1>a, <1>n DEF RechazarLogin, Leido, EnCurso
<1>d. ASSUME NEW c \in Logins, paso[c] = "clave", NEW p \in {"fallo", "emitir", "exito"},
             paso' = [paso EXCEPT ![c] = p], ~cruce,
             NEW w, copiaUsuario' = [copiaUsuario EXCEPT ![c] = w],
             w.admin = copiaUsuario[c].admin, w.activo = copiaUsuario[c].activo,
             UNCHANGED <<usuario, quien, comparadas, columnas>>
      PROVE  CambioSolo' /\ LoginsFieles' /\ CambiosFieles' /\ QuedaOtro' /\ AdminsActivos' # {}
  <2>1. /\ copiaUsuario'[c].admin = copiaUsuario[c].admin
        /\ copiaUsuario'[c].activo = copiaUsuario[c].activo
    BY <1>0, <1>d
  <2>2. \A x \in Llamadas : x # c => paso'[x] = paso[x] /\ copiaUsuario'[x] = copiaUsuario[x]
    BY <1>0, <1>d
  <2>3. Leido(c) /\ EnCurso(c) /\ c \notin Cambios
    BY <1>d DEF Leido, EnCurso
  <2>4. AdminsActivos' = AdminsActivos
    BY <1>d DEF AdminsActivos
  <2>5. CambioSolo'
    <3>1. \A x \in Llamadas : EnCurso(x)' => EnCurso(x)
      BY <2>2, <2>3 DEF EnCurso
    <3> QED BY <1>c, <1>d, <3>1 DEF CambioSolo
  <2>6. LoginsFieles'
    <3>1. \A x \in Logins : Leido(x)' => Leido(x)
      BY <2>2, <2>3 DEF Leido
    <3> QED BY <1>c, <1>d, <2>1, <2>2, <3>1 DEF LoginsFieles
  <2>7. CambiosFieles' /\ QuedaOtro'
    BY <1>c, <1>d, <2>2, <2>3, <2>4 DEF CambiosFieles, QuedaOtro, Leido
  <2> QED BY <1>c, <1>d, <2>4, <2>5, <2>6, <2>7
<1>3. ASSUME NEW c \in Logins, ClaveErrada(c)
      PROVE  CambioSolo' /\ LoginsFieles' /\ CambiosFieles' /\ QuedaOtro' /\ AdminsActivos' # {}
  <2>1. /\ ConUnFallo(copiaUsuario[c]).admin = copiaUsuario[c].admin
        /\ ConUnFallo(copiaUsuario[c]).activo = copiaUsuario[c].activo
    <3>1. copiaUsuario[c] \in FilaUsuario /\ reloj \in Nat
      BY <1>0 DEF TiposSesiones, TypeOKSesiones
    <3> QED BY <3>1, TrasFallo, Zenon
  <2> QED BY <1>3, <1>d, <1>n, <2>1 DEF ClaveErrada
<1>4. ASSUME NEW c \in Logins, ClaveBuena(c)
      PROVE  CambioSolo' /\ LoginsFieles' /\ CambiosFieles' /\ QuedaOtro' /\ AdminsActivos' # {}
  <2>1. /\ SinFallos(copiaUsuario[c]).admin = copiaUsuario[c].admin
        /\ SinFallos(copiaUsuario[c]).activo = copiaUsuario[c].activo
    <3>1. copiaUsuario[c] \in FilaUsuario
      BY <1>0
    <3> QED BY <3>1, TrasAcierto, Zenon
  <2>2. /\ paso[c] = "clave" /\ ~cruce
        /\ \/ paso' = [paso EXCEPT ![c] = "emitir"]
           \/ paso' = [paso EXCEPT ![c] = "exito"]
        /\ copiaUsuario' = [copiaUsuario EXCEPT ![c] = SinFallos(copiaUsuario[c])]
        /\ UNCHANGED <<usuario, quien, comparadas, columnas>>
    BY <1>4, <1>n DEF ClaveBuena
  <2> QED BY <1>d, <2>1, <2>2
<1>5. ASSUME NEW c \in Renovaciones \union Salidas, NEW t \in Fichas, LeerFicha(c, t)
      PROVE  CambioSolo' /\ LoginsFieles' /\ CambiosFieles' /\ QuedaOtro' /\ AdminsActivos' # {}
  <2>0. ~cruce
    BY <1>5, <1>b DEF LeerFicha
  <2>1. /\ \E p \in {"salir", "caducar", "canjear"} : paso' = [paso EXCEPT ![c] = p]
        /\ quien' = [quien EXCEPT ![c] = ficha[t].dueno]
        /\ UNCHANGED <<usuario, copiaUsuario, comparadas, columnas>>
    BY <1>5 DEF LeerFicha
  <2> QED BY <1>0, <1>a, <2>0, <2>1 DEF Leido, EnCurso
<1>6. ASSUME NEW c \in Renovaciones \union Salidas, NEW t \in Fichas, SinFicha(c, t)
      PROVE  CambioSolo' /\ LoginsFieles' /\ CambiosFieles' /\ QuedaOtro' /\ AdminsActivos' # {}
  BY <1>0, <1>6, <1>a, <1>n DEF SinFicha, Leido, EnCurso
<1>7. ASSUME NEW c \in Renovaciones \union Salidas, GuardarFicha(c)
      PROVE  CambioSolo' /\ LoginsFieles' /\ CambiosFieles' /\ QuedaOtro' /\ AdminsActivos' # {}
  <2>1. /\ \E p \in {"fin", "emitir", "titular"} : paso' = [paso EXCEPT ![c] = p]
        /\ UNCHANGED <<usuario, copiaUsuario, quien, comparadas, columnas, cruce>>
    BY <1>7 DEF GuardarFicha
  <2> QED BY <1>0, <1>a, <1>n, <2>1 DEF Leido, EnCurso
<1>8. ASSUME NEW c \in Renovaciones \union Salidas, LeerTitular(c)
      PROVE  CambioSolo' /\ LoginsFieles' /\ CambiosFieles' /\ QuedaOtro' /\ AdminsActivos' # {}
  BY <1>0, <1>8, <1>a, <1>n DEF LeerTitular, Leido, EnCurso
<1>9. ASSUME NEW c \in Logins \union Renovaciones, EmpresaInactiva(c)
      PROVE  CambioSolo' /\ LoginsFieles' /\ CambiosFieles' /\ QuedaOtro' /\ AdminsActivos' # {}
  BY <1>0, <1>9, <1>a, <1>n DEF EmpresaInactiva, Leido, EnCurso
<1>10. ASSUME NEW c \in Logins \union Renovaciones, Emitir(c)
       PROVE  CambioSolo' /\ LoginsFieles' /\ CambiosFieles' /\ QuedaOtro' /\ AdminsActivos' # {}
  BY <1>0, <1>10, <1>a, <1>n DEF Emitir, Leido, EnCurso
<1>11. ASSUME NEW c \in Cambios, NEW u \in Usuarios, NEW dto \in Dto, LeerCambio(c, u, dto)
       PROVE  CambioSolo' /\ LoginsFieles' /\ CambiosFieles' /\ QuedaOtro' /\ AdminsActivos' # {}
  <2> DEFINE w == ConDto(usuario[u], dto)
  <2>0. ~cruce /\ \A x \in Cambios \union Logins : ~EnCurso(x)
    BY <1>11, <1>b DEF LeerCambio
  <2>1. /\ paso[c] = "reposo"
        /\ \/ paso' = [paso EXCEPT ![c] = "contar"]
           \/ paso' = [paso EXCEPT ![c] = "guardar"] /\ ~QuitaAdmin(usuario[u], dto)
        /\ copiaUsuario' = [copiaUsuario EXCEPT ![c] = w]
        /\ quien' = [quien EXCEPT ![c] = u]
        /\ UNCHANGED <<usuario, comparadas, columnas>>
    BY <1>11 DEF LeerCambio
  <2>2. usuario[u].admin /\ usuario[u].activo /\ ~QuitaAdmin(usuario[u], dto) => w.admin /\ w.activo
    <3>1. usuario[u] \in FilaUsuario
      BY <1>0
    <3> QED BY <3>1, TrasDto, Zenon
  <2> HIDE DEF w
  <2>3. quien'[c] = u /\ copiaUsuario'[c] = w
    BY <1>0, <2>1
  <2>4. \A x \in Llamadas : x # c => paso'[x] = paso[x]
    BY <1>0, <2>1
  <2>5. \A x \in Cambios \union Logins : x # c => ~EnCurso(x)' /\ ~Leido(x)'
    BY <2>0, <2>4 DEF EnCurso, Leido
  <2>6. AdminsActivos' = AdminsActivos
    BY <2>1 DEF AdminsActivos
  <2>7. CambioSolo'
    BY <2>5 DEF CambioSolo
  <2>8. LoginsFieles'
    BY <2>5 DEF LoginsFieles
  <2>9. CambiosFieles'
    <3>1. c \notin comparadas'
      BY <1>0, <2>1 DEF Guardando
    <3> QED BY <2>5, <3>1 DEF CambiosFieles
  <2>10. QuedaOtro'
    <3>1. ASSUME paso'[c] = "guardar", u \in AdminsActivos
          PROVE  w.admin /\ w.activo
      <4>1. usuario[u].admin /\ usuario[u].activo
        BY <3>1 DEF AdminsActivos
      <4>2. ~QuitaAdmin(usuario[u], dto)
        BY <1>0, <2>1, <3>1
      <4> QED BY <2>2, <4>1, <4>2
    <3>2. \A x \in Cambios : x # c => paso'[x] # "guardar"
      BY <2>5 DEF Leido
    <3> QED BY <2>3, <2>6, <3>1, <3>2 DEF QuedaOtro
  <2> QED BY <1>c, <2>0, <2>6, <2>7, <2>8, <2>9, <2>10
<1>12. ASSUME NEW c \in Cambios, ContarAdmins(c)
       PROVE  CambioSolo' /\ LoginsFieles' /\ CambiosFieles' /\ QuedaOtro' /\ AdminsActivos' # {}
  <2>1. /\ paso[c] = "contar" /\ ~cruce
        /\ \/ paso' = [paso EXCEPT ![c] = "guardar"] /\ SobraAlguno
           \/ paso' = [paso EXCEPT ![c] = "fin"]
        /\ UNCHANGED <<usuario, copiaUsuario, quien, comparadas, columnas>>
    BY <1>12, <1>n DEF ContarAdmins
  <2>2. AdminsActivos' = AdminsActivos
    BY <2>1 DEF AdminsActivos
  <2>3. \A x \in Llamadas : (EnCurso(x)' => EnCurso(x)) /\ (Leido(x)' => Leido(x))
    BY ZenonT(60), <1>0, <2>1 DEF EnCurso, Leido
  <2>4. CambioSolo' /\ LoginsFieles' /\ CambiosFieles'
    BY <1>c, <2>1, <2>3 DEF CambioSolo, LoginsFieles, CambiosFieles
  <2>5. QuedaOtro'
    <3>1. ASSUME SobraAlguno
          PROVE  \E a \in AdminsActivos : a # quien[c]
      <4>1. IsFiniteSet(AdminsActivos)
        <5>1. AdminsActivos \subseteq Usuarios
          BY DEF AdminsActivos
        <5> QED BY <5>1, FS_Subset
      <4> QED BY <3>1, <4>1, OtroMas DEF SobraAlguno
    <3>2. \A x \in Cambios : paso'[x] = "guardar" => paso[x] = "guardar" \/ (x = c /\ SobraAlguno)
      BY <1>0, <2>1
    <3> QED BY <1>c, <2>1, <2>2, <3>1, <3>2 DEF QuedaOtro
  <2> QED BY <1>c, <2>1, <2>2, <2>4, <2>5
<1>13. ASSUME NEW c \in Llamadas, Comparar(c)
       PROVE  CambioSolo' /\ LoginsFieles' /\ CambiosFieles' /\ QuedaOtro' /\ AdminsActivos' # {}
  <2> DEFINE v == usuario[quien[c]]
             w == copiaUsuario[c]
  <2>1. /\ ~cruce /\ Guardando(c) /\ c \notin comparadas
        /\ comparadas' = comparadas \union {c}
        /\ columnas' = [columnas EXCEPT ![c] = {k \in DOMAIN v : v[k] # w[k]}]
        /\ UNCHANGED <<usuario, paso, quien, copiaUsuario>>
    BY <1>13, <1>n DEF Comparar
  <2>2. Leido(c) /\ v \in FilaUsuario
    BY <1>0, <2>1 DEF Leido, Guardando
  <2>3. "admin" \in DOMAIN v /\ "activo" \in DOMAIN v
    BY <2>2 DEF FilaUsuario
  <2>4. /\ "admin" \in columnas'[c] <=> v.admin # w.admin
        /\ "activo" \in columnas'[c] <=> v.activo # w.activo
    BY <1>0, <2>1, <2>3
  <2>5. \A x \in Llamadas : x # c => columnas'[x] = columnas[x]
    BY <1>0, <2>1
  <2>6. AdminsActivos' = AdminsActivos /\ CambioSolo'
    BY <1>c, <2>1 DEF AdminsActivos, CambioSolo, EnCurso
  <2>7. QuedaOtro'
    BY <1>c, <2>1, <2>6 DEF QuedaOtro
  <2>8. LoginsFieles'
    BY <1>c, <2>1, <2>2, <2>4, <2>5 DEF LoginsFieles, Leido
  <2>9. CambiosFieles'
    BY <1>c, <2>1, <2>2, <2>4, <2>5 DEF CambiosFieles, Leido
  <2> QED BY <1>c, <2>1, <2>6, <2>7, <2>8, <2>9
<1>14. ASSUME NEW c \in Llamadas, Escribir(c)
       PROVE  CambioSolo' /\ LoginsFieles' /\ CambiosFieles' /\ QuedaOtro' /\ AdminsActivos' # {}
  <2> DEFINE u == quien[c]
             v == usuario[u]
             w == copiaUsuario[c]
  <2>1. /\ u \in Usuarios /\ c \in comparadas /\ Guardando(c) /\ Leido(c) /\ EnCurso(c)
        /\ usuario'[u].admin = IF "admin" \in columnas[c] THEN w.admin ELSE v.admin
        /\ usuario'[u].activo = IF "activo" \in columnas[c] THEN w.activo ELSE v.activo
        /\ \A x \in Usuarios : x # u => usuario'[x] = usuario[x]
    BY <1>0, <1>14, UsuarioEscrito, Zenon
  <2>2. /\ ~cruce /\ paso' = [paso EXCEPT ![c] = Siguiente(paso[c])]
        /\ comparadas' = comparadas \ {c} /\ columnas' = [columnas EXCEPT ![c] = {}]
        /\ UNCHANGED <<quien, copiaUsuario>>
    BY <1>14, <1>n DEF Escribir
  <2>3. \A x \in Llamadas : x # c => paso'[x] = paso[x] /\ columnas'[x] = columnas[x]
    BY <1>0, <2>2
  <2>4. columnas'[c] = {} /\ Siguiente(paso[c]) \in {"clave", "emitir", "fin"} /\ paso'[c] = Siguiente(paso[c])
    BY <1>0, <2>1, <2>2 DEF Siguiente, Guardando
  <2>5. \A x \in Llamadas : (EnCurso(x)' => EnCurso(x)) /\ (Leido(x)' => Leido(x))
    BY <2>1, <2>3 DEF EnCurso, Leido
  <2>6. CambioSolo'
    BY <1>c, <2>2, <2>5 DEF CambioSolo
  <2>7. CASE c \in Logins
    <3>1. usuario'[u].admin = v.admin /\ usuario'[u].activo = v.activo
      BY <1>c, <2>1, <2>2, <2>7 DEF LoginsFieles
    <3>2. \A x \in Usuarios : usuario'[x].admin = usuario[x].admin /\ usuario'[x].activo = usuario[x].activo
      BY <2>1, <3>1
    <3>3. AdminsActivos' = AdminsActivos
      BY <3>2, Zenon DEF AdminsActivos
    <3>4. \A x \in Cambios : ~EnCurso(x)
      BY <1>c, <2>1, <2>2, <2>7 DEF CambioSolo
    <3>5. CambiosFieles' /\ QuedaOtro'
      BY <2>5, <3>4 DEF CambiosFieles, QuedaOtro, EnCurso, Leido
    <3>6. LoginsFieles'
      <4>1. \A x \in Logins : Leido(x)' => quien[x] \in Usuarios /\ columnas'[x] \subseteq columnas[x]
        BY <1>0, <2>3, <2>4, <2>5
      <4> QED BY <1>c, <2>2, <2>5, <3>2, <4>1 DEF LoginsFieles
    <3> QED BY <1>c, <2>2, <2>6, <3>3, <3>5, <3>6
  <2>8. CASE c \in Cambios
    <3>1. paso[c] = "guardar" /\ paso'[c] = "fin"
      BY <1>0, <2>1, <2>4, <2>8 DEF Siguiente
    <3>2. \A x \in Cambios \union Logins : ~EnCurso(x)'
      <4>1. ~EnCurso(c)'
        BY <3>1 DEF EnCurso
      <4>2. \A x \in Cambios \union Logins : x # c => ~EnCurso(x)
        BY <1>c, <2>1, <2>2, <2>8 DEF CambioSolo
      <4> QED BY <2>5, <4>1, <4>2
    <3>3. LoginsFieles' /\ CambiosFieles' /\ QuedaOtro'
      BY <3>2 DEF LoginsFieles, CambiosFieles, QuedaOtro, EnCurso, Leido
    <3>4. usuario'[u].admin = w.admin /\ usuario'[u].activo = w.activo
      BY <1>c, <2>1, <2>2, <2>8 DEF CambiosFieles
    <3>5. ASSUME NEW a \in AdminsActivos, a # u
          PROVE  a \in AdminsActivos'
      BY <2>1, <3>5, Zenon DEF AdminsActivos
    <3>6. AdminsActivos' # {}
      <4>1. CASE u \notin AdminsActivos
        BY <1>c, <2>2, <3>5, <4>1
      <4>2. CASE u \in AdminsActivos /\ \E a \in AdminsActivos : a # u
        BY <3>5, <4>2
      <4>3. CASE u \in AdminsActivos /\ w.admin /\ w.activo
        <5>1. u \in AdminsActivos'
          BY <2>1, <3>4, <4>3, Zenon DEF AdminsActivos
        <5> QED BY <5>1
      <4> QED BY <1>c, <2>2, <2>8, <3>1, <4>1, <4>2, <4>3 DEF QuedaOtro
    <3> QED BY <2>6, <3>3, <3>6
  <2> QED BY <1>0, <2>1, <2>7, <2>8
<1>15. ASSUME NEW c \in Llamadas, Interrumpir(c)
       PROVE  CambioSolo' /\ LoginsFieles' /\ CambiosFieles' /\ QuedaOtro' /\ AdminsActivos' # {}
  BY <1>0, <1>15, <1>a, <1>n DEF Interrumpir, Leido, EnCurso
<1>16. ASSUME NEW u \in Usuarios, NEW esAdmin \in BOOLEAN, CrearUsuario(u, esAdmin)
       PROVE  CambioSolo' /\ LoginsFieles' /\ CambiosFieles' /\ QuedaOtro' /\ AdminsActivos' # {}
  <2>1. /\ ~cruce /\ u \notin creados
        /\ usuario' = [usuario EXCEPT ![u] = [SinUsuario EXCEPT !.admin = esAdmin, !.activo = TRUE]]
        /\ UNCHANGED <<llamadaVars, historiaSesion>>
    BY <1>16, <1>n DEF CrearUsuario
  <2>2. \A x \in Usuarios : x # u => usuario'[x] = usuario[x]
    BY <1>0, <2>1
  <2>3. u \notin AdminsActivos
    BY <2>1, Zenon DEF AdminsActivos, TiposSesiones, Anotado
  <2>4. ASSUME NEW a \in AdminsActivos
        PROVE  a \in AdminsActivos'
    BY <2>2, <2>3, Zenon DEF AdminsActivos
  <2>5. ASSUME NEW a \in Usuarios, a # u, a \in AdminsActivos'
        PROVE  a \in AdminsActivos
    BY <2>2, <2>5, Zenon DEF AdminsActivos
  <2>6. \A x \in Llamadas : Leido(x) => quien[x] # u /\ quien[x] \in Usuarios
    BY <1>0, <2>1
  <2>7. CambioSolo' /\ LoginsFieles' /\ CambiosFieles'
    <3>1. \A x \in Llamadas : Leido(x) => usuario'[quien[x]] = usuario[quien[x]]
      BY <2>2, <2>6
    <3>2. UNCHANGED <<paso, quien, copiaUsuario, comparadas, columnas>>
      BY <2>1
    <3>3. CambioSolo'
      BY <1>c, <2>1, <3>2 DEF CambioSolo, EnCurso
    <3>4. LoginsFieles'
      BY <1>c, <2>1, <3>1, <3>2 DEF LoginsFieles, Leido
    <3>5. CambiosFieles'
      <4>1. ASSUME NEW c \in Cambios, Leido(c), c \in comparadas
            PROVE  /\ "admin" \notin columnas[c] => copiaUsuario[c].admin = usuario'[quien[c]].admin
                   /\ "activo" \notin columnas[c] => copiaUsuario[c].activo = usuario'[quien[c]].activo
        <5>1. usuario'[quien[c]] = usuario[quien[c]]
          BY <3>1, <4>1
        <5> QED BY <1>c, <2>1, <4>1, <5>1, Zenon DEF CambiosFieles
      <4> QED BY <3>2, <4>1 DEF CambiosFieles, Leido
    <3> QED BY <3>3, <3>4, <3>5
  <2>8. QuedaOtro'
    <3>1. \A x \in Cambios : paso[x] = "guardar" => Leido(x)
      BY DEF Leido
    <3> QED BY <1>c, <2>1, <2>4, <2>5, <2>6, <3>1 DEF QuedaOtro
  <2> QED BY <1>c, <2>1, <2>4, <2>7, <2>8
<1>17. CASE AvanzarReloj
  BY <1>17, <1>a, <1>n DEF AvanzarReloj, Leido, EnCurso
<1>18. ASSUME NEW t \in Fichas, Vencer(t)
       PROVE  CambioSolo' /\ LoginsFieles' /\ CambiosFieles' /\ QuedaOtro' /\ AdminsActivos' # {}
  BY <1>18, <1>a, <1>n DEF Vencer, Leido, EnCurso
<1>19. CASE UNCHANGED sesionVars
  BY <1>19, <1>a, <1>n DEF sesionVars, Leido, EnCurso
<1> QED
  BY <1>1, <1>2, <1>3, <1>4, <1>5, <1>6, <1>7, <1>8, <1>9, <1>10, <1>11, <1>12, <1>13, <1>14,
     <1>15, <1>16, <1>17, <1>18, <1>19
  DEF NextSesiones

\* A deactivation alone with its user closes his sessions, and nothing in progress opens
\* another.
LEMMA PasoBaja ==
  ASSUME TiposSesiones, IndBaja, [NextSesiones]_sesionVars
  PROVE  IndBaja'
<1> USE SesionesAssumption DEF Pasar
<1>0. /\ usuario \in [Usuarios -> FilaUsuario] /\ creados \subseteq Usuarios
      /\ ficha \in [Fichas -> [estado : {"libre", "activo", "revocado", "expirado"},
                               dueno : Usuarios \union {Nadie}]]
      /\ copiaUsuario \in [Llamadas -> FilaUsuario] /\ porPedir \in [Cambios -> Dto]
      /\ quien \in [Llamadas -> Usuarios \union {Nadie}] /\ paso = [c \in Llamadas |-> paso[c]]
      /\ columnas = [c \in Llamadas |-> columnas[c]]
      /\ \A c \in Llamadas : Leido(c) => c \in Logins \union Cambios /\ quien[c] \in creados
      /\ \A c \in comparadas : Guardando(c)
      /\ \A c \in Llamadas : Leido(c) => EnCurso(c)
      /\ \A c \in Cambios : Leido(c) /\ Guardando(c) => paso[c] = "guardar"
      /\ solas \subseteq {c \in Cambios : paso[c] # "reposo"} /\ cerrados \subseteq creados
  BY DEF TiposSesiones, TypeOKSesiones, ConFilaLeida, Guardando, Leido, EnCurso, Anotado
<1>c. Solas /\ Pedido /\ TrasLaBaja /\ BajaCierraSesiones
  BY DEF IndBaja
<1>a. ASSUME UNCHANGED <<usuario, copiaUsuario, porPedir, solas, cerrados>>,
             comparadas' \subseteq comparadas,
             \A x \in Llamadas : EnCurso(x)' => EnCurso(x) /\ quien'[x] = quien[x],
             \A x \in Llamadas : Leido(x)' => Leido(x) /\ columnas'[x] = columnas[x],
             \A t \in Fichas : ficha'[t].estado = "activo" =>
               ficha[t].estado = "activo" /\ ficha'[t].dueno = ficha[t].dueno
      PROVE  IndBaja'
  <2>1. Solas'
    <3>1. ASSUME NEW c \in solas, Leido(c)'
          PROVE  /\ \A d \in Llamadas : EnCurso(d)' /\ quien'[d] = quien'[c] => d = c
                 /\ c \in comparadas' => \/ "activo" \in columnas'[c]
                                         \/ usuario'[quien'[c]].activo = copiaUsuario'[c].activo
      <4>1. c \in Llamadas /\ Leido(c) /\ columnas'[c] = columnas[c] /\ quien'[c] = quien[c]
        BY <1>0, <1>a, <3>1 DEF Leido, EnCurso
      <4> QED BY <1>a, <1>c, <3>1, <4>1 DEF Solas
    <3> QED BY <1>a, <3>1 DEF Solas
  <2>2. Pedido'
    BY <1>a, <1>c DEF Pedido
  <2>3. TrasLaBaja'
    BY <1>a, <1>c DEF TrasLaBaja
  <2>4. BajaCierraSesiones'
    BY <1>a, <1>c DEF BajaCierraSesiones
  <2> QED BY <2>1, <2>2, <2>3, <2>4 DEF IndBaja
\* A call c that begins with user u, who was not deactivated or whom it leaves inactive.
<1>b. ASSUME NEW c \in Llamadas, NEW u \in Usuarios \union {Nadie}, Anotar(c, u),
             paso[c] = "reposo", UNCHANGED <<usuario, ficha, comparadas, columnas, cerrados>>,
             quien' = [quien EXCEPT ![c] = u], NEW p, paso' = [paso EXCEPT ![c] = p],
             \A x \in Llamadas : x # c => copiaUsuario'[x] = copiaUsuario[x],
             \A x \in Cambios : x # c => porPedir'[x] = porPedir[x],
             u \in cerrados => c \in Cambios /\ (porPedir'[c].activo = {TRUE} \/ ~copiaUsuario'[c].activo),
             c \in Cambios => /\ porPedir'[c].activo = {FALSE} => ~copiaUsuario'[c].activo
                              /\ porPedir'[c].activo = {TRUE} => copiaUsuario'[c].activo
      PROVE  IndBaja'
  <2>1. quien'[c] = u /\ \A x \in Llamadas : x # c => paso'[x] = paso[x] /\ quien'[x] = quien[x]
    BY <1>0, <1>b
  <2>2. /\ \A x \in solas' : x # c => x \in solas /\ quien[x] # u
        /\ c \in solas' => (c \in solas /\ quien[c] # u) \/
                           (c \in Cambios /\ \A x \in Llamadas : EnCurso(x) => quien[x] # u)
    BY <1>b DEF Anotar
  <2>3. c \notin solas /\ c \notin comparadas
    BY <1>0, <1>b DEF Guardando
  <2>4. \A x \in Llamadas : x # c => (EnCurso(x)' <=> EnCurso(x)) /\ (Leido(x)' <=> Leido(x))
    BY <2>1 DEF EnCurso, Leido
  <2>5. Solas'
    <3>1. ASSUME NEW x \in solas', Leido(x)', x # c
          PROVE  /\ \A d \in Llamadas : EnCurso(d)' /\ quien'[d] = quien'[x] => d = x
                 /\ x \in comparadas' => \/ "activo" \in columnas'[x]
                                         \/ usuario'[quien'[x]].activo = copiaUsuario'[x].activo
      <4>1. x \in solas /\ x \in Llamadas /\ quien[x] # u /\ Leido(x) /\ quien'[x] = quien[x]
            /\ copiaUsuario'[x] = copiaUsuario[x]
        BY <1>0, <1>b, <2>1, <2>2, <2>4, <3>1
      <4>2. /\ \A d \in Llamadas : EnCurso(d) /\ quien[d] = quien[x] => d = x
            /\ x \in comparadas => \/ "activo" \in columnas[x]
                                   \/ usuario[quien[x]].activo = copiaUsuario[x].activo
        BY <1>c, <4>1 DEF Solas
      <4> QED BY <1>b, <2>1, <2>4, <4>1, <4>2
    <3>2. ASSUME c \in solas'
          PROVE  \A d \in Llamadas : EnCurso(d)' /\ quien'[d] = quien'[c] => d = c
      BY <2>1, <2>2, <2>3, <2>4, <3>2
    <3> QED BY <1>b, <2>3, <3>1, <3>2 DEF Solas
  <2>6. Pedido'
    <3>1. ASSUME NEW x \in Cambios, Leido(x)', x # c
          PROVE  /\ porPedir'[x].activo = {FALSE} => ~copiaUsuario'[x].activo
                 /\ porPedir'[x].activo = {TRUE} => copiaUsuario'[x].activo
      BY <1>b, <1>c, <2>4, <3>1 DEF Pedido
    <3> QED BY <1>b, <3>1 DEF Pedido
  <2>7. TrasLaBaja'
    <3>1. ASSUME NEW x \in Llamadas, EnCurso(x)', quien'[x] \in cerrados', x # c
          PROVE  x \in Cambios /\ (porPedir'[x].activo = {TRUE} \/ ~copiaUsuario'[x].activo)
      <4>1. EnCurso(x) /\ quien[x] \in cerrados /\ copiaUsuario'[x] = copiaUsuario[x]
        BY <1>b, <2>1, <2>4, <3>1
      <4>2. x \in Cambios /\ (porPedir[x].activo = {TRUE} \/ ~copiaUsuario[x].activo)
        BY <1>c, <4>1 DEF TrasLaBaja
      <4>3. porPedir'[x] = porPedir[x]
        BY <1>b, <3>1, <4>2
      <4> QED BY <4>1, <4>2, <4>3
    <3>2. ASSUME quien'[c] \in cerrados'
          PROVE  c \in Cambios /\ (porPedir'[c].activo = {TRUE} \/ ~copiaUsuario'[c].activo)
      <4>1. u \in cerrados
        BY <1>b, <2>1, <3>2
      <4> QED BY <1>b, <4>1, Zenon
    <3> QED BY <3>1, <3>2, Zenon DEF TrasLaBaja
  <2>8. BajaCierraSesiones'
    BY <1>b, <1>c DEF BajaCierraSesiones
  <2> QED BY <2>5, <2>6, <2>7, <2>8 DEF IndBaja
<1>1. ASSUME NEW c \in Logins, NEW u \in Usuarios, LeerLogin(c, u)
      PROVE  IndBaja'
  <2>1. /\ paso[c] = "reposo" /\ Anotar(c, u) /\ usuario[u].activo
        /\ \E p : paso' = [paso EXCEPT ![c] = p]
        /\ \E w : copiaUsuario' = [copiaUsuario EXCEPT ![c] = w]
        /\ quien' = [quien EXCEPT ![c] = u]
        /\ UNCHANGED <<usuario, ficha, porPedir, comparadas, columnas, cerrados>>
    BY <1>1 DEF LeerLogin
  <2>2. u \notin cerrados
    BY <1>c, <2>1 DEF BajaCierraSesiones
  <2>3. \A x \in Llamadas : x # c => copiaUsuario'[x] = copiaUsuario[x]
    BY <1>0, <2>1
  <2> QED BY <1>b, <2>1, <2>2, <2>3
<1>2. ASSUME NEW c \in Logins, NEW u \in Usuarios, RechazarLogin(c, u)
      PROVE  IndBaja'
  BY <1>0, <1>2, <1>a DEF RechazarLogin, Leido, EnCurso
<1>3. ASSUME NEW c \in Logins, ClaveErrada(c) \/ ClaveBuena(c)
      PROVE  IndBaja'
  <2>1. /\ paso[c] = "clave" /\ \E p : paso' = [paso EXCEPT ![c] = p]
        /\ \E w : copiaUsuario' = [copiaUsuario EXCEPT ![c] = w]
        /\ UNCHANGED <<usuario, ficha, porPedir, quien, comparadas, columnas, solas, cerrados>>
    BY <1>3 DEF ClaveErrada, ClaveBuena
  <2>2. c \notin Cambios /\ EnCurso(c) /\ c \notin solas
    BY <1>0, <2>1 DEF EnCurso
  <2>3. quien[c] \notin cerrados
    BY <1>c, <2>2 DEF TrasLaBaja
  <2>4. \A x \in Llamadas : x # c => paso'[x] = paso[x] /\ copiaUsuario'[x] = copiaUsuario[x]
    BY <1>0, <2>1
  <2>5. \A x \in Llamadas : (EnCurso(x)' => EnCurso(x)) /\ (x # c /\ Leido(x)' => Leido(x))
    BY <2>2, <2>4 DEF EnCurso, Leido
  <2>6. Solas'
    <3>1. ASSUME NEW x \in solas, Leido(x)'
          PROVE  /\ \A d \in Llamadas : EnCurso(d)' /\ quien[d] = quien[x] => d = x
                 /\ x \in comparadas => \/ "activo" \in columnas[x]
                                        \/ usuario[quien[x]].activo = copiaUsuario'[x].activo
      <4>1. x # c /\ x \in Llamadas /\ Leido(x) /\ copiaUsuario'[x] = copiaUsuario[x]
        BY <1>0, <2>2, <2>4, <2>5, <3>1
      <4> QED BY <1>c, <2>5, <4>1 DEF Solas
    <3> QED BY <2>1, <3>1 DEF Solas
  <2>7. Pedido'
    BY <1>c, <2>1, <2>2, <2>4, <2>5 DEF Pedido
  <2>8. TrasLaBaja'
    BY <1>c, <2>1, <2>3, <2>4, <2>5 DEF TrasLaBaja
  <2>9. BajaCierraSesiones'
    BY <1>c, <2>1 DEF BajaCierraSesiones
  <2> QED BY <2>6, <2>7, <2>8, <2>9 DEF IndBaja
<1>5. ASSUME NEW c \in Renovaciones \union Salidas, NEW t \in Fichas, LeerFicha(c, t)
      PROVE  IndBaja'
  <2> DEFINE u == ficha[t].dueno
  <2>1. /\ paso[c] = "reposo" /\ Anotar(c, u) /\ ficha[t].estado = "activo"
        /\ \E p : paso' = [paso EXCEPT ![c] = p]
        /\ quien' = [quien EXCEPT ![c] = u]
        /\ UNCHANGED <<usuario, ficha, porPedir, copiaUsuario, comparadas, columnas, cerrados>>
    BY <1>5 DEF LeerFicha
  <2>2. u \notin cerrados
    BY <1>c, <2>1 DEF BajaCierraSesiones
  <2>3. u \in Usuarios \union {Nadie} /\ c \notin Cambios
    BY <1>0
  <2> HIDE DEF u
  <2> QED BY <1>b, <2>1, <2>2, <2>3
<1>6. ASSUME NEW c \in Renovaciones \union Salidas, NEW t \in Fichas, SinFicha(c, t)
      PROVE  IndBaja'
  BY <1>0, <1>6, <1>a DEF SinFicha, Leido, EnCurso
<1>7. ASSUME NEW c \in Renovaciones \union Salidas, GuardarFicha(c)
      PROVE  IndBaja'
  <2>1. /\ paso[c] \in {"canjear", "caducar", "salir"}
        /\ \E p \in {"fin", "emitir", "titular"} : paso' = [paso EXCEPT ![c] = p]
        /\ ficha' = [ficha EXCEPT ![fichaDe[c]].estado = EstadoGuardado(c)]
        /\ EstadoGuardado(c) \in {"revocado", "expirado"}
        /\ UNCHANGED <<usuario, copiaUsuario, porPedir, solas, cerrados, quien, comparadas, columnas>>
    BY <1>7 DEF GuardarFicha, EstadoGuardado, EstadoFinal
  <2>2. \A s \in Fichas : ficha'[s].estado = "activo" =>
               ficha[s].estado = "activo" /\ ficha'[s].dueno = ficha[s].dueno
    BY <1>0, <2>1
  <2>3. \A x \in Llamadas : (EnCurso(x)' => EnCurso(x)) /\ (Leido(x)' => Leido(x))
    BY <1>0, <2>1 DEF EnCurso, Leido
  <2> QED BY <1>a, <2>1, <2>2, <2>3
<1>8. ASSUME NEW c \in Renovaciones \union Salidas, LeerTitular(c)
      PROVE  IndBaja'
  BY <1>0, <1>8, <1>a DEF LeerTitular, Leido, EnCurso
<1>9. ASSUME NEW c \in Logins \union Renovaciones, EmpresaInactiva(c)
      PROVE  IndBaja'
  BY <1>0, <1>9, <1>a DEF EmpresaInactiva, Leido, EnCurso
<1>10. ASSUME NEW c \in Logins \union Renovaciones, Emitir(c)
       PROVE  IndBaja'
  <2> DEFINE d == IF quien[c] \in SuperAdmins THEN Nadie ELSE quien[c]
  <2>1. /\ paso[c] = "emitir" /\ paso' = [paso EXCEPT ![c] = "fin"]
        /\ ficha' = [ficha EXCEPT ![c] = [estado |-> "activo", dueno |-> d]]
        /\ UNCHANGED <<usuario, copiaUsuario, porPedir, solas, cerrados, quien, comparadas, columnas>>
    BY <1>10 DEF Emitir
  <2>2. d \notin cerrados
    <3>1. EnCurso(c) /\ c \notin Cambios
      BY <2>1 DEF EnCurso
    <3>2. quien[c] \notin cerrados
      BY <1>c, <3>1 DEF TrasLaBaja
    <3> QED BY <1>0, <3>2
  <2> HIDE DEF d
  <2>3. \A x \in Llamadas : (EnCurso(x)' => EnCurso(x)) /\ (Leido(x)' => Leido(x))
    BY <1>0, <2>1 DEF EnCurso, Leido
  <2>4. Solas'
    BY <1>0, <1>c, <2>1, <2>3 DEF Solas
  <2>5. Pedido' /\ TrasLaBaja'
    BY <1>c, <2>1, <2>3 DEF Pedido, TrasLaBaja
  <2>6. BajaCierraSesiones'
    <3>1. \A s \in Fichas : ficha'[s] = ficha[s] \/ ficha'[s].dueno = d
      BY <1>0, <2>1
    <3> QED BY <1>c, <2>1, <2>2, <3>1 DEF BajaCierraSesiones
  <2> QED BY <2>4, <2>5, <2>6 DEF IndBaja
<1>11. ASSUME NEW c \in Cambios, NEW u \in Usuarios, NEW dto \in Dto, LeerCambio(c, u, dto)
       PROVE  IndBaja'
  <2> DEFINE w == ConDto(usuario[u], dto)
  <2>1. /\ paso[c] = "reposo" /\ Anotar(c, u)
        /\ \E p : paso' = [paso EXCEPT ![c] = p]
        /\ copiaUsuario' = [copiaUsuario EXCEPT ![c] = w]
        /\ porPedir' = [porPedir EXCEPT ![c] = dto]
        /\ quien' = [quien EXCEPT ![c] = u]
        /\ UNCHANGED <<usuario, ficha, comparadas, columnas, cerrados>>
    BY <1>11 DEF LeerCambio
  <2>2. /\ dto.activo = {FALSE} => ~w.activo
        /\ dto.activo = {TRUE} => w.activo
        /\ ~usuario[u].activo /\ dto.activo # {TRUE} => ~w.activo
    <3>1. usuario[u] \in FilaUsuario
      BY <1>0
    <3> QED BY <3>1, TrasDto, Zenon
  <2> HIDE DEF w
  <2>3. u \in cerrados => ~usuario[u].activo
    BY <1>c DEF BajaCierraSesiones
  <2>4. /\ copiaUsuario'[c] = w /\ porPedir'[c] = dto
        /\ \A x \in Llamadas : x # c => copiaUsuario'[x] = copiaUsuario[x]
        /\ \A x \in Cambios : x # c => porPedir'[x] = porPedir[x]
    BY <1>0, <2>1
  <2>5. u \in cerrados => c \in Cambios /\ (porPedir'[c].activo = {TRUE} \/ ~copiaUsuario'[c].activo)
    BY <2>2, <2>3, <2>4
  <2>6. c \in Cambios => /\ porPedir'[c].activo = {FALSE} => ~copiaUsuario'[c].activo
                         /\ porPedir'[c].activo = {TRUE} => copiaUsuario'[c].activo
    BY <2>2, <2>4
  <2>7. PICK p : paso' = [paso EXCEPT ![c] = p]
    BY <2>1
  <2>8. UNCHANGED <<usuario, ficha, comparadas, columnas, cerrados>> /\ quien' = [quien EXCEPT ![c] = u]
        /\ Anotar(c, u) /\ paso[c] = "reposo"
    BY <2>1
  <2> QED BY ONLY <1>b, <2>4, <2>5, <2>6, <2>7, <2>8
<1>12. ASSUME NEW c \in Cambios, ContarAdmins(c)
       PROVE  IndBaja'
  <2>1. /\ paso[c] = "contar" /\ \E p : paso' = [paso EXCEPT ![c] = p]
        /\ UNCHANGED <<usuario, ficha, copiaUsuario, porPedir, solas, cerrados, quien, comparadas,
                       columnas>>
    BY <1>12 DEF ContarAdmins
  <2>2. \A x \in Llamadas : (EnCurso(x)' => EnCurso(x)) /\ (Leido(x)' => Leido(x))
    BY <1>0, <2>1 DEF EnCurso, Leido
  <2> QED BY <1>a, <2>1, <2>2
<1>13. ASSUME NEW c \in Llamadas, Comparar(c)
       PROVE  IndBaja'
  <2> DEFINE v == usuario[quien[c]]
             w == copiaUsuario[c]
  <2>1. /\ Guardando(c) /\ comparadas' = comparadas \union {c}
        /\ columnas' = [columnas EXCEPT ![c] = {k \in DOMAIN v : v[k] # w[k]}]
        /\ UNCHANGED <<usuario, ficha, paso, quien, copiaUsuario, porPedir, solas, cerrados>>
    BY <1>13 DEF Comparar
  <2>2. "activo" \in DOMAIN v
    <3>1. v \in FilaUsuario
      BY <1>0, <2>1 DEF Leido, Guardando
    <3> QED BY <3>1 DEF FilaUsuario
  <2>3. "activo" \in columnas'[c] \/ v.activo = w.activo
    BY <1>0, <2>1, <2>2
  <2>4. \A x \in Llamadas : x # c => columnas'[x] = columnas[x]
    BY <1>0, <2>1
  <2>5. Solas'
    BY <1>0, <1>c, <2>1, <2>3, <2>4 DEF Solas, EnCurso, Leido
  <2>6. Pedido' /\ TrasLaBaja' /\ BajaCierraSesiones'
    BY <1>c, <2>1 DEF Pedido, TrasLaBaja, BajaCierraSesiones, EnCurso, Leido
  <2> QED BY <2>5, <2>6 DEF IndBaja
<1>14. ASSUME NEW c \in Llamadas, Escribir(c)
       PROVE  IndBaja'
  <2> DEFINE u == quien[c]
             v == usuario[u]
             w == copiaUsuario[c]
  <2>1. /\ u \in Usuarios /\ c \in comparadas /\ Guardando(c) /\ Leido(c) /\ EnCurso(c)
        /\ usuario'[u].activo = IF "activo" \in columnas[c] THEN w.activo ELSE v.activo
        /\ \A x \in Usuarios : x # u => usuario'[x] = usuario[x]
    BY <1>0, <1>14, UsuarioEscrito, Zenon
  <2>2. /\ paso' = [paso EXCEPT ![c] = Siguiente(paso[c])]
        /\ comparadas' = comparadas \ {c} /\ columnas' = [columnas EXCEPT ![c] = {}]
        /\ ficha' = [t \in Fichas |-> IF t \in FichasQueCaen(c)
                                   THEN [ficha[t] EXCEPT !.estado = "revocado"] ELSE ficha[t]]
        /\ UNCHANGED <<quien, copiaUsuario, porPedir, solas>>
    BY <1>14 DEF Escribir
  <2>3. \A x \in Llamadas : x # c => paso'[x] = paso[x] /\ columnas'[x] = columnas[x]
    BY <1>0, <2>2
  <2>4. \A x \in Llamadas : (EnCurso(x)' => EnCurso(x)) /\ (Leido(x)' => Leido(x))
    BY <2>1, <2>3 DEF EnCurso, Leido
  <2>5. c \in Cambios => paso[c] = "guardar" /\ ~EnCurso(c)' /\ ~Leido(c)'
    <3>1. ASSUME c \in Cambios
          PROVE  paso[c] = "guardar" /\ paso'[c] = "fin"
      BY <1>0, <2>1, <2>2, <3>1 DEF Siguiente
    <3> QED BY <3>1 DEF EnCurso, Leido
  <2>6. Solas'
    <3>1. ASSUME NEW x \in solas, Leido(x)'
          PROVE  /\ \A d \in Llamadas : EnCurso(d)' /\ quien[d] = quien[x] => d = x
                 /\ x \in comparadas' => \/ "activo" \in columnas'[x]
                                         \/ usuario'[quien[x]].activo = copiaUsuario[x].activo
      <4>1. x # c /\ x \in Llamadas /\ Leido(x) /\ quien[x] \in Usuarios
        BY ZenonT(60), <1>0, <2>4, <2>5, <3>1
      <4>2. /\ \A d \in Llamadas : EnCurso(d) /\ quien[d] = quien[x] => d = x
            /\ x \in comparadas => \/ "activo" \in columnas[x]
                                   \/ usuario[quien[x]].activo = copiaUsuario[x].activo
        BY <1>c, <4>1 DEF Solas
      <4>3. quien[x] # u
        BY <2>1, <4>1, <4>2
      <4> QED BY <2>1, <2>2, <2>3, <2>4, <4>1, <4>2, <4>3
    <3> QED BY <2>2, <3>1 DEF Solas
  <2>7. Pedido'
    BY <1>c, <2>2, <2>4 DEF Pedido
  <2>8. \A t \in Fichas : ficha'[t].estado = "activo" =>
          t \notin FichasQueCaen(c) /\ ficha'[t] = ficha[t]
    BY <1>0, <2>2
  <2>9. CASE SeDesactiva(c) /\ c \in solas
    <3>1. cerrados' = cerrados \union {u}
      BY <1>14, <2>9, Zenon DEF Escribir
    <3>2. ~w.activo /\ c \in Cambios
      BY <1>c, <2>1, <2>9 DEF SeDesactiva, Pedido
    <3>3. ~usuario'[u].activo
      <4>1. "activo" \in columnas[c] \/ v.activo = w.activo
        BY <1>c, <2>1, <2>9 DEF Solas
      <4>2. usuario'[u].activo = w.activo
        BY <2>1, <4>1
      <4> QED BY <3>2, <4>2
    <3>4. \A t \in Fichas : ~(ficha'[t].estado = "activo" /\ ficha'[t].dueno = u)
      BY <2>8, <2>9 DEF FichasQueCaen
    <3>5. BajaCierraSesiones'
      BY <1>0, <1>c, <2>1, <2>8, <3>1, <3>3, <3>4 DEF BajaCierraSesiones
    <3>6. \A d \in Llamadas : EnCurso(d)' => quien[d] # u
      BY <1>c, <2>1, <2>4, <2>5, <2>9, <3>2 DEF Solas
    <3>7. TrasLaBaja'
      BY <1>c, <2>2, <2>4, <3>1, <3>6 DEF TrasLaBaja
    <3> QED BY <2>6, <2>7, <3>5, <3>7 DEF IndBaja
  <2>10. CASE ~(SeDesactiva(c) /\ c \in solas) /\ c \in Cambios /\ porPedir[c].activo = {TRUE}
    <3>1. cerrados' = cerrados \ {u}
      BY <1>14, <2>10, Zenon DEF Escribir
    <3>2. BajaCierraSesiones'
      BY <1>0, <1>c, <2>1, <2>8, <3>1 DEF BajaCierraSesiones
    <3>3. TrasLaBaja'
      BY <1>c, <2>2, <2>4, <3>1 DEF TrasLaBaja
    <3> QED BY <2>6, <2>7, <3>2, <3>3 DEF IndBaja
  <2>11. CASE ~(SeDesactiva(c) /\ c \in solas) /\ ~(c \in Cambios /\ porPedir[c].activo = {TRUE})
    <3>1. cerrados' = cerrados
      BY <1>14, <2>11, Zenon DEF Escribir
    <3>2. u \in cerrados => ~usuario'[u].activo
      <4>1. u \in cerrados => ~w.activo
        BY <1>c, <2>1, <2>11 DEF TrasLaBaja
      <4>2. u \in cerrados => ~v.activo
        BY <1>c DEF BajaCierraSesiones
      <4>3. usuario'[u].activo = w.activo \/ usuario'[u].activo = v.activo
        BY <2>1
      <4> QED BY <4>1, <4>2, <4>3
    <3>3. BajaCierraSesiones'
      BY <1>0, <1>c, <2>1, <2>8, <3>1, <3>2 DEF BajaCierraSesiones
    <3>4. TrasLaBaja'
      BY <1>c, <2>2, <2>4, <3>1 DEF TrasLaBaja
    <3> QED BY <2>6, <2>7, <3>3, <3>4 DEF IndBaja
  <2> QED BY <2>9, <2>10, <2>11
<1>15. ASSUME NEW c \in Llamadas, Interrumpir(c)
       PROVE  IndBaja'
  BY <1>0, <1>15, <1>a DEF Interrumpir, Leido, EnCurso
<1>16. ASSUME NEW u \in Usuarios, NEW esAdmin \in BOOLEAN, CrearUsuario(u, esAdmin)
       PROVE  IndBaja'
  <2>1. /\ u \notin creados
        /\ usuario' = [usuario EXCEPT ![u] = [SinUsuario EXCEPT !.admin = esAdmin, !.activo = TRUE]]
        /\ UNCHANGED <<ficha, paso, quien, copiaUsuario, porPedir, comparadas, columnas, solas,
                       cerrados>>
    BY <1>16 DEF CrearUsuario
  <2>2. \A x \in Usuarios : x # u => usuario'[x] = usuario[x]
    BY <1>0, <2>1
  <2>3. Solas'
    <3>0. \A x \in Llamadas : Leido(x) => quien[x] \in Usuarios /\ quien[x] # u
      BY <1>0, <2>1
    <3>1. \A x \in solas : Leido(x) => usuario'[quien[x]] = usuario[quien[x]]
      BY <1>0, <2>2, <3>0
    <3>2. ASSUME NEW x \in solas, Leido(x)
          PROVE  /\ \A d \in Llamadas : EnCurso(d) /\ quien[d] = quien[x] => d = x
                 /\ x \in comparadas => \/ "activo" \in columnas[x]
                                        \/ usuario'[quien[x]].activo = copiaUsuario[x].activo
      <4>1. usuario'[quien[x]] = usuario[quien[x]]
        BY <3>1, <3>2
      <4> QED BY <1>c, <3>2, <4>1, Zenon DEF Solas
    <3> QED BY <2>1, <3>2 DEF Solas, EnCurso, Leido
  <2>4. Pedido' /\ TrasLaBaja'
    BY <1>c, <2>1 DEF Pedido, TrasLaBaja, EnCurso, Leido
  <2>5. BajaCierraSesiones'
    BY <1>0, <1>c, <2>1, <2>2 DEF BajaCierraSesiones
  <2> QED BY <2>3, <2>4, <2>5 DEF IndBaja
<1>17. CASE AvanzarReloj
  BY <1>17, <1>a DEF AvanzarReloj, Leido, EnCurso
<1>18. ASSUME NEW t \in Fichas, Vencer(t)
       PROVE  IndBaja'
  BY <1>18, <1>a DEF Vencer, Leido, EnCurso
<1>19. CASE UNCHANGED sesionVars
  BY <1>19, <1>a DEF sesionVars, Leido, EnCurso
<1> QED
  BY <1>1, <1>2, <1>3, <1>5, <1>6, <1>7, <1>8, <1>9, <1>10, <1>11, <1>12, <1>13, <1>14,
     <1>15, <1>16, <1>17, <1>18, <1>19
  DEF NextSesiones

IndSesiones == TiposSesiones /\ IndBloqueo /\ IndAdmin /\ IndBaja

LEMMA PasoSesiones ==
  ASSUME IndSesiones, [NextSesiones]_sesionVars
  PROVE  IndSesiones'
BY PasoTiposSesiones, PasoBloqueo, PasoAdmin, PasoBaja DEF IndSesiones

LEMMA InvarianteSesiones == SpecSesiones => []IndSesiones
<1>1. InitSesiones => IndSesiones
  BY InicioSesiones DEF IndSesiones
<1> QED BY <1>1, PasoSesiones, PTL DEF SpecSesiones

\* The company keeps an active administrator, as long as no update of its users overlapped
\* with another update or with a login.
THEOREM SiempreHayAdministrador == SpecSesiones => []HayAdministrador
<1>1. IndSesiones => HayAdministrador
  BY DEF IndSesiones, IndAdmin, SinCruces, HayAdministrador
<1> QED BY <1>1, InvarianteSesiones, PTL

\* However many logins save their counters at once, a row is locked only after MaxIntentos
\* wrong passwords.
THEOREM BloqueoSiempreJustificado == SpecSesiones => []BloqueoJustificado
<1>1. IndSesiones => BloqueoJustificado
  BY DEF IndSesiones, IndBloqueo
<1> QED BY <1>1, InvarianteSesiones, PTL

\* A user whom an update alone with him deactivated stays inactive and without tokens until
\* an update activates him.
THEOREM BajaSiempreCierraSesiones == SpecSesiones => []BajaCierraSesiones
<1>1. IndSesiones => BajaCierraSesiones
  BY DEF IndSesiones, IndBaja
<1> QED BY <1>1, InvarianteSesiones, PTL
=============================================================================
