----------------------------- MODULE MCAccesoProofs -----------------------------
(***************************************************************************)
(* Proofs about the other components of MCAcceso, for any number of rows   *)
(* and of calls (the row of a company, its registration, the accountants   *)
(* and their teams, the four limits that are counted before an insertion)  *)
(* and about all of them together.                                         *)
(***************************************************************************)
EXTENDS AccesoProofs

-----------------------------------------------------------------------------
(* The row of a company                                                    *)

USE DEF guardadoVars

\* The certificate and its password are one upload's in the row and in every copy of it,
\* and a save writes both or none.
DeUnaSubida ==
  /\ fila.clave = fila.cert
  /\ \A g \in Guardados : /\ copia[g].clave = copia[g].cert
                          /\ "clave" \in distintas[g] <=> "cert" \in distintas[g]

IndEmpresa == TypeOKEmpresa /\ DeUnaSubida

LEMMA FilaCargada ==
  ASSUME NEW f \in FilasEmpresa, NEW u \in Subidas, NEW w, w = Cargado(u, f)
  PROVE  w \in FilasEmpresa /\ w.cert = u /\ w.clave = u
BY EmpresaAssumption DEF FilasEmpresa, Cargado

LEMMA FilaCambiada ==
  ASSUME NEW f \in FilasEmpresa,
         NEW w \in {[f EXCEPT !.modo = "manual"], [f EXCEPT !.plan = "empresarial"],
                    [f EXCEPT !.ambiente = "produccion"]}
  PROVE  w \in FilasEmpresa /\ w.cert = f.cert /\ w.clave = f.clave
BY DEF FilasEmpresa

LEMMA FilaGuardada ==
  ASSUME NEW v \in FilasEmpresa, NEW w \in FilasEmpresa, NEW S,
         NEW m, m = [c \in ColumnasEmpresa |-> IF c \in S THEN w[c] ELSE v[c]]
  PROVE  /\ m \in FilasEmpresa
         /\ m.cert = IF "cert" \in S THEN w.cert ELSE v.cert
         /\ m.clave = IF "clave" \in S THEN w.clave ELSE v.clave
<1>1. \A c \in ColumnasEmpresa : m[c] = IF c \in S THEN w[c] ELSE v[c]
  OBVIOUS
<1>2. m = [cert |-> m.cert, clave |-> m.clave, vence |-> m.vence, estado |-> m.estado,
           ambiente |-> m.ambiente, modo |-> m.modo, plan |-> m.plan]
  BY DEF ColumnasEmpresa
<1>3. /\ m.cert \in Subidas \union {Nada} /\ m.clave \in Subidas \union {Nada}
      /\ m.vence \in Nat \union {Nada} /\ m.estado \in {"certificacion", "activo"}
      /\ m.ambiente \in {"certificacion", "produccion"} /\ m.modo \in {"automatico", "manual"}
      /\ m.plan \in {"basico", "empresarial"}
  BY <1>1 DEF ColumnasEmpresa, FilasEmpresa
<1>4. m \in FilasEmpresa
  BY <1>2, <1>3 DEF FilasEmpresa
<1> QED BY <1>1, <1>4 DEF ColumnasEmpresa

LEMMA InicioEmpresa == ASSUME InitEmpresa PROVE IndEmpresa
<1>1. FilaNueva \in FilasEmpresa /\ FilaNueva.clave = FilaNueva.cert
  BY DEF FilaNueva, FilasEmpresa
<1>2. deCertificacion \in BOOLEAN
  BY Zenon DEF InitEmpresa
<1>3. TypeOKEmpresa
  BY <1>1, <1>2 DEF InitEmpresa, TypeOKEmpresa
<1> QED BY <1>1, <1>3 DEF InitEmpresa, IndEmpresa, DeUnaSubida

LEMMA PasoEmpresa ==
  ASSUME IndEmpresa, [NextEmpresa]_empresaVars
  PROVE  IndEmpresa'
<1> USE DEF IndEmpresa, TypeOKEmpresa, DeUnaSubida
<1>1. ASSUME NEW g \in Guardados, NEW w \in FilasEmpresa, w.clave = w.cert, LeerPara(g, w)
      PROVE  IndEmpresa'
  BY <1>1 DEF LeerPara
<1>2. ASSUME NEW u \in Subidas, Subir(u)
      PROVE  IndEmpresa'
  <2>1. Cargado(u, fila) \in FilasEmpresa /\ Cargado(u, fila).clave = Cargado(u, fila).cert
    BY FilaCargada
  <2> QED BY <1>1, <1>2, <2>1 DEF Subir, Guardados
<1>3. ASSUME NEW c \in Ajustes \union PeticionesPlan \union Promociones,
             Ajustar(c) \/ PedirPlan(c) \/ Promover(c)
      PROVE  IndEmpresa'
  <2>1. \A w \in {[fila EXCEPT !.modo = "manual"], [fila EXCEPT !.plan = "empresarial"],
                  [fila EXCEPT !.ambiente = "produccion"]} :
          w \in FilasEmpresa /\ w.clave = w.cert
    BY FilaCambiada
  <2>2. PICK w \in {[fila EXCEPT !.modo = "manual"], [fila EXCEPT !.plan = "empresarial"],
                    [fila EXCEPT !.ambiente = "produccion"]} : LeerPara(c, w)
    BY <1>3 DEF Ajustar, PedirPlan, Promover
  <2> QED BY <1>1, <2>1, <2>2 DEF Guardados
<1>4. ASSUME NEW g \in Guardados, CompararFila(g)
      PROVE  IndEmpresa'
  <2>1. {c \in ColumnasEmpresa : copia[g][c] # fila[c]} \subseteq ColumnasEmpresa
    OBVIOUS
  <2>2. "clave" \in {c \in ColumnasEmpresa : copia[g][c] # fila[c]} <=>
        "cert" \in {c \in ColumnasEmpresa : copia[g][c] # fila[c]}
    BY DEF ColumnasEmpresa
  <2> QED BY <1>4, <2>1, <2>2 DEF CompararFila
<1>5. ASSUME NEW g \in Guardados, GuardarFila(g)
      PROVE  IndEmpresa'
  <2>1. copia[g] \in FilasEmpresa
    OBVIOUS
  <2>2. fila' = [c \in ColumnasEmpresa |-> IF c \in distintas[g] THEN copia[g][c] ELSE fila[c]]
    BY <1>5 DEF GuardarFila
  <2>3. fila' \in FilasEmpresa /\ fila'.clave = fila'.cert
    BY <2>1, <2>2, FilaGuardada
  <2>4. FilaNueva \in FilasEmpresa /\ FilaNueva.clave = FilaNueva.cert
    BY DEF FilaNueva, FilasEmpresa
  <2> QED BY <1>5, <2>3, <2>4 DEF GuardarFila
<1>6. ASSUME NEW p \in Promociones, DesactivarSecuencias(p)
      PROVE  IndEmpresa'
  <2>1. deCertificacion' \in BOOLEAN
    BY <1>6, Zenon DEF DesactivarSecuencias
  <2> QED BY <1>6, <2>1 DEF DesactivarSecuencias, Guardados
<1>7. CASE NuevoDia
  BY <1>7 DEF NuevoDia
<1>8. CASE UNCHANGED empresaVars
  BY <1>8 DEF empresaVars
<1> QED BY <1>2, <1>3, <1>4, <1>5, <1>6, <1>7, <1>8 DEF NextEmpresa, Guardar

\* The certificate of a company opens with the password beside it, whichever saves of its
\* row overlap.
LEMMA CertificadoSiempreUsable == IndEmpresa => CertificadoUsable
BY DEF IndEmpresa, DeUnaSubida, CertificadoUsable, Abre

-----------------------------------------------------------------------------
(* The registration of a company                                           *)

USE DEF servidorVars, asistenteVars, PasarAlta

EnTransaccion == {"empresa", "usuario"}

\* The indexes leave one transaction open for an RNC, or for an e-mail, which nobody has
\* registered; and a row is that of a registration which inserted both.
Indices ==
  /\ \A r \in Altas : registro[r] \in EnTransaccion => empresaDeRnc[Rnc(r)] = SinAlta
  /\ \A r \in Altas : registro[r] = "usuario" => usuarioDeEmail[Email(r)] = SinAlta
  /\ \A r, s \in Altas :
       registro[r] \in EnTransaccion /\ registro[s] \in EnTransaccion /\ Rnc(r) = Rnc(s) => r = s
  /\ \A r, s \in Altas :
       registro[r] = "usuario" /\ registro[s] = "usuario" /\ Email(r) = Email(s) => r = s

Filas ==
  /\ \A r \in Altas : registro[r] = "hecha" =>
       empresaDeRnc[Rnc(r)] = r /\ usuarioDeEmail[Email(r)] = r
  /\ \A n \in RncsPedidos : empresaDeRnc[n] # SinAlta =>
       registro[empresaDeRnc[n]] = "hecha" /\ Rnc(empresaDeRnc[n]) = n
  /\ \A e \in EmailsPedidos : usuarioDeEmail[e] # SinAlta =>
       registro[usuarioDeEmail[e]] = "hecha" /\ Email(usuarioDeEmail[e]) = e

\* What a wizard waits for, where it is, and what became of each request it sent.
Asistencia ==
  /\ \A w \in Asistentes : enEspera[w] # SinAlta =>
       AsistenteDe[enEspera[w]] = w /\ pantalla[w] = "registro"
  /\ \A w \in Asistentes : pantalla[w] # "registro" =>
       \E r \in Altas : registro[r] = "hecha" /\ AsistenteDe[r] = w
  /\ \A r \in Altas : registro[r] # "inicio" =>
       \/ enEspera[AsistenteDe[r]] = r \/ r \in sinNoticia
       \/ registro[r] \in {"ocupada", "fallida"} \/ pantalla[AsistenteDe[r]] # "registro"

\* The company that has the RNC, or the e-mail, of wizard w, if it is not news to it.
Explicado(w) ==
  \E r \in Altas : /\ registro[r] = "hecha"
                   /\ Rnc(r) = RncDe[w] \/ Email(r) = EmailDe[w]
                   /\ AsistenteDe[r] # w \/ r \in sinNoticia

Explicados ==
  /\ \A w \in Asistentes :
       enEspera[w] # SinAlta /\ registro[enEspera[w]] = "ocupada" => Explicado(w)
  /\ \A w \in Asistentes : mensaje[w] = "ocupado" => Explicado(w)

IndOnboarding == TypeOKOnboarding /\ Indices /\ Filas /\ Asistencia /\ Explicados

LEMMA InicioOnboarding == ASSUME InitOnboarding PROVE IndOnboarding
<1> USE OnboardingAssumption DEF InitOnboarding, EnTransaccion
<1>1. conCertificado \in [Asistentes -> BOOLEAN]
  BY Zenon
<1>2. TypeOKOnboarding
  BY <1>1 DEF TypeOKOnboarding
<1>3. Indices
  BY DEF Indices
<1>4. Filas
  BY DEF Filas
<1>5. Asistencia /\ Explicados
  BY DEF Asistencia, Explicados
<1> QED BY <1>2, <1>3, <1>4, <1>5 DEF IndOnboarding

\* An explanation lasts: what is registered stays so, and what was lost stays lost.
LEMMA ExplicacionFirme ==
  ASSUME NEW w, Explicado(w), sinNoticia \subseteq sinNoticia',
         \A r \in Altas : registro[r] = "hecha" => registro'[r] = "hecha"
  PROVE  Explicado(w)'
BY DEF Explicado

\* A request that goes on in the server, without writing a row, and does not end.
LEMMA PasoDeAlta ==
  ASSUME IndOnboarding, NEW r \in Altas, NEW p, registro' = [registro EXCEPT ![r] = p],
         registro[r] \in {"recibida", "comprobada", "empresa", "usuario"},
         p \in {"comprobada", "empresa", "usuario", "fallida", "ocupada"},
         p = "empresa" => /\ empresaDeRnc[Rnc(r)] = SinAlta
                          /\ \A s \in Altas : registro[s] \in EnTransaccion => Rnc(s) # Rnc(r),
         p = "usuario" => /\ registro[r] = "empresa" /\ usuarioDeEmail[Email(r)] = SinAlta
                          /\ \A s \in Altas : registro[s] = "usuario" => Email(s) # Email(r),
         p = "ocupada" /\ enEspera[AsistenteDe[r]] = r => Explicado(AsistenteDe[r]),
         UNCHANGED <<empresaDeRnc, usuarioDeEmail, asistenteVars, sinNoticia>>
  PROVE  IndOnboarding'
<1> USE OnboardingAssumption DEF EnTransaccion
<1>0. TypeOKOnboarding /\ Indices /\ Filas /\ Asistencia /\ Explicados
  BY DEF IndOnboarding
<1>1. /\ registro'[r] = p /\ \A s \in Altas : s # r => registro'[s] = registro[s]
      /\ UNCHANGED <<pantalla, enEspera, mensaje, conCertificado>>
  BY <1>0 DEF TypeOKOnboarding
<1>2. TypeOKOnboarding'
  BY <1>0 DEF TypeOKOnboarding
<1>3. Indices'
  BY <1>0, <1>1 DEF Indices
<1>4. Filas'
  <2>1. \A n \in RncsPedidos : empresaDeRnc[n] # SinAlta => empresaDeRnc[n] \in Altas
    BY <1>0 DEF TypeOKOnboarding
  <2>2. \A e \in EmailsPedidos : usuarioDeEmail[e] # SinAlta => usuarioDeEmail[e] \in Altas
    BY <1>0 DEF TypeOKOnboarding
  <2> QED BY <1>0, <1>1, <2>1, <2>2 DEF Filas
<1>5. Asistencia'
  BY <1>0, <1>1 DEF Asistencia
<1>6. ASSUME NEW w \in Asistentes, Explicado(w)
      PROVE  Explicado(w)'
  BY <1>1, <1>6, ExplicacionFirme
<1>7. Explicados'
  <2>1. ASSUME NEW w \in Asistentes, enEspera[w] # SinAlta, registro'[enEspera[w]] = "ocupada"
        PROVE  Explicado(w)
    <3>1. enEspera[w] \in Altas /\ AsistenteDe[enEspera[w]] = w
      BY <1>0, <2>1 DEF TypeOKOnboarding, Asistencia
    <3>2. CASE enEspera[w] = r
      BY <1>1, <2>1, <3>1, <3>2
    <3>3. CASE enEspera[w] # r
      BY <1>0, <1>1, <2>1, <3>1, <3>3 DEF Explicados
    <3> QED BY <3>2, <3>3
  <2>2. ASSUME NEW w \in Asistentes, mensaje[w] = "ocupado"
        PROVE  Explicado(w)
    BY <1>0, <2>2 DEF Explicados
  <2> QED BY <1>1, <1>6, <2>1, <2>2 DEF Explicados
<1> QED BY <1>2, <1>3, <1>4, <1>5, <1>7 DEF IndOnboarding

\* The wizard w answers what it waited for, which the server is done with, or loses it.
LEMMA PasoDeAsistente ==
  ASSUME IndOnboarding, NEW w \in Asistentes, UNCHANGED servidorVars,
         sinNoticia \subseteq sinNoticia', sinNoticia' \subseteq Altas,
         pantalla' \in [Asistentes -> {"registro", "certificado", "confirmacion"}],
         mensaje' \in [Asistentes -> {"nada", "ocupado", "error"}],
         conCertificado' \in [Asistentes -> BOOLEAN],
         enEspera' = [enEspera EXCEPT ![w] = SinAlta],
         \A x \in Asistentes : x # w => pantalla'[x] = pantalla[x],
         pantalla[w] # "registro" => pantalla'[w] # "registro",
         pantalla'[w] # "registro" => \E r \in Altas : registro[r] = "hecha" /\ AsistenteDe[r] = w,
         \A x \in Asistentes : mensaje'[x] = "ocupado" =>
           mensaje[x] = "ocupado" \/ (enEspera[x] # SinAlta /\ registro[enEspera[x]] = "ocupada"),
         enEspera[w] # SinAlta => \/ enEspera[w] \in sinNoticia' \/ pantalla'[w] # "registro"
                                  \/ registro[enEspera[w]] \in {"ocupada", "fallida"}
  PROVE  IndOnboarding'
<1> USE OnboardingAssumption
<1>0. TypeOKOnboarding /\ Indices /\ Filas /\ Asistencia /\ Explicados
  BY DEF IndOnboarding
<1>1. /\ enEspera'[w] = SinAlta /\ \A x \in Asistentes : x # w => enEspera'[x] = enEspera[x]
      /\ UNCHANGED <<registro, empresaDeRnc, usuarioDeEmail>>
  BY <1>0 DEF TypeOKOnboarding
<1>2. TypeOKOnboarding'
  BY <1>0 DEF TypeOKOnboarding
<1>3. Indices' /\ Filas'
  BY <1>0, <1>1 DEF Indices, Filas
<1>4. Asistencia'
  <2>1. \A x \in Asistentes : enEspera'[x] # SinAlta =>
          AsistenteDe[enEspera'[x]] = x /\ pantalla'[x] = "registro"
    BY <1>0, <1>1 DEF Asistencia
  <2>2. \A x \in Asistentes : pantalla'[x] # "registro" =>
          \E r \in Altas : registro[r] = "hecha" /\ AsistenteDe[r] = x
    BY <1>0 DEF Asistencia
  <2>3. ASSUME NEW r \in Altas, registro[r] # "inicio"
        PROVE  \/ enEspera'[AsistenteDe[r]] = r \/ r \in sinNoticia'
               \/ registro[r] \in {"ocupada", "fallida"} \/ pantalla'[AsistenteDe[r]] # "registro"
    <3>1. \/ enEspera[AsistenteDe[r]] = r \/ r \in sinNoticia
          \/ registro[r] \in {"ocupada", "fallida"} \/ pantalla[AsistenteDe[r]] # "registro"
      BY <1>0, <2>3 DEF Asistencia
    <3>2. AsistenteDe[r] \in Asistentes
      OBVIOUS
    <3> QED BY <1>1, <3>1, <3>2
  <2> QED BY <1>1, <2>1, <2>2, <2>3 DEF Asistencia
<1>5. Explicados'
  <2>1. ASSUME NEW x \in Asistentes, Explicado(x)
        PROVE  Explicado(x)'
    BY <1>1, <2>1, ExplicacionFirme
  <2>2. \A x \in Asistentes : mensaje'[x] = "ocupado" => Explicado(x)
    BY <1>0 DEF Explicados
  <2>3. \A x \in Asistentes : enEspera'[x] # SinAlta /\ registro[enEspera'[x]] = "ocupada" => Explicado(x)
    BY <1>0, <1>1 DEF Explicados
  <2> QED BY <1>1, <2>1, <2>2, <2>3 DEF Explicados
<1> QED BY <1>2, <1>3, <1>4, <1>5 DEF IndOnboarding

LEMMA PasoOnboarding ==
  ASSUME IndOnboarding, [NextOnboarding]_onboardingVars
  PROVE  IndOnboarding'
<1> USE OnboardingAssumption
<1>0. TypeOKOnboarding /\ Indices /\ Filas /\ Asistencia /\ Explicados
  BY DEF IndOnboarding
<1>a. \A r \in Altas : AsistenteDe[r] \in Asistentes /\ Rnc(r) \in RncsPedidos /\ Email(r) \in EmailsPedidos
  BY DEF Rnc, Email, RncsPedidos, EmailsPedidos
<1>b. /\ \A n \in RncsPedidos : empresaDeRnc[n] # SinAlta => empresaDeRnc[n] \in Altas
      /\ \A e \in EmailsPedidos : usuarioDeEmail[e] # SinAlta => usuarioDeEmail[e] \in Altas
  BY <1>0 DEF TypeOKOnboarding
<1>1. ASSUME NEW r \in Altas, Comprobar(r)
      PROVE  IndOnboarding'
  <2>1. ASSUME Ocupado(r), enEspera[AsistenteDe[r]] = r
        PROVE  Explicado(AsistenteDe[r])
    <3> DEFINE w == AsistenteDe[r]
    <3>1. registro[r] = "recibida" /\ pantalla[w] = "registro" /\ w \in Asistentes
      BY <1>0, <1>1, <1>a, <2>1 DEF Comprobar, Asistencia
    <3>2. PICK s \in Altas : registro[s] = "hecha" /\ (Rnc(s) = Rnc(r) \/ Email(s) = Email(r))
      BY <1>0, <1>a, <1>b, <2>1 DEF Ocupado, Filas
    <3>3. s # r
      BY <3>1, <3>2
    <3>4. AsistenteDe[s] # w \/ s \in sinNoticia
      BY <1>0, <2>1, <3>1, <3>2, <3>3 DEF Asistencia
    <3> QED BY <3>2, <3>4 DEF Explicado, Rnc, Email
  <2>2. /\ registro[r] = "recibida"
        /\ \/ registro' = [registro EXCEPT ![r] = "ocupada"] /\ Ocupado(r)
           \/ registro' = [registro EXCEPT ![r] = "comprobada"]
        /\ UNCHANGED <<empresaDeRnc, usuarioDeEmail, asistenteVars, sinNoticia>>
    BY <1>1 DEF Comprobar
  <2> QED BY <2>1, <2>2, PasoDeAlta
<1>2. ASSUME NEW r \in Altas, InsertarNueva(r)
      PROVE  IndOnboarding'
  <2>1. /\ registro[r] = "comprobada"
        /\ \/ registro' = [registro EXCEPT ![r] = "empresa"] /\ empresaDeRnc[Rnc(r)] = SinAlta
           \/ registro' = [registro EXCEPT ![r] = "fallida"]
        /\ \A s \in Altas : registro[s] \in EnTransaccion => Rnc(s) # Rnc(r)
        /\ UNCHANGED <<empresaDeRnc, usuarioDeEmail, asistenteVars, sinNoticia>>
    BY <1>2 DEF InsertarNueva, AbiertasConRnc, EnTransaccion
  <2> QED BY <2>1, PasoDeAlta
<1>3. ASSUME NEW r \in Altas, InsertarAdministrador(r)
      PROVE  IndOnboarding'
  <2>1. /\ registro[r] = "empresa"
        /\ \/ registro' = [registro EXCEPT ![r] = "usuario"] /\ usuarioDeEmail[Email(r)] = SinAlta
           \/ registro' = [registro EXCEPT ![r] = "fallida"]
        /\ \A s \in Altas : registro[s] = "usuario" => Email(s) # Email(r)
        /\ UNCHANGED <<empresaDeRnc, usuarioDeEmail, asistenteVars, sinNoticia>>
    BY <1>3 DEF InsertarAdministrador, AbiertasConEmail, EmailLibre
  <2> QED BY <2>1, PasoDeAlta
<1>4. ASSUME NEW r \in Altas, Deshacer(r)
      PROVE  IndOnboarding'
  <2>1. /\ registro[r] \in {"recibida", "comprobada", "empresa", "usuario"}
        /\ registro' = [registro EXCEPT ![r] = "fallida"]
        /\ UNCHANGED <<empresaDeRnc, usuarioDeEmail, asistenteVars, sinNoticia>>
    BY <1>4 DEF Deshacer
  <2> QED BY <2>1, PasoDeAlta
<1>5. ASSUME NEW r \in Altas, Confirmar(r)
      PROVE  IndOnboarding'
  <2>1. /\ registro[r] = "usuario" /\ registro' = [registro EXCEPT ![r] = "hecha"]
        /\ empresaDeRnc' = [empresaDeRnc EXCEPT ![Rnc(r)] = r]
        /\ usuarioDeEmail' = [usuarioDeEmail EXCEPT ![Email(r)] = r]
        /\ UNCHANGED <<pantalla, enEspera, mensaje, conCertificado, sinNoticia>>
    BY <1>5 DEF Confirmar
  <2>2. /\ registro'[r] = "hecha" /\ \A s \in Altas : s # r => registro'[s] = registro[s]
        /\ empresaDeRnc'[Rnc(r)] = r /\ usuarioDeEmail'[Email(r)] = r
        /\ \A n \in RncsPedidos : n # Rnc(r) => empresaDeRnc'[n] = empresaDeRnc[n]
        /\ \A e \in EmailsPedidos : e # Email(r) => usuarioDeEmail'[e] = usuarioDeEmail[e]
    BY <1>0, <1>a, <2>1 DEF TypeOKOnboarding
  <2>3. empresaDeRnc[Rnc(r)] = SinAlta /\ usuarioDeEmail[Email(r)] = SinAlta
    BY <1>0, <2>1 DEF Indices, EnTransaccion
  <2>4. TypeOKOnboarding'
    BY <1>0, <2>1 DEF TypeOKOnboarding
  <2>5. Indices'
    <3>1. \A s \in Altas : registro'[s] \in EnTransaccion =>
            s # r /\ registro[s] \in EnTransaccion /\ Rnc(s) # Rnc(r)
      BY <1>0, <2>1, <2>2 DEF Indices, EnTransaccion
    <3>2. \A s \in Altas : registro'[s] = "usuario" =>
            s # r /\ registro[s] = "usuario" /\ Email(s) # Email(r)
      BY <1>0, <2>1, <2>2 DEF Indices
    <3> QED BY <1>0, <1>a, <2>2, <3>1, <3>2 DEF Indices
  <2>6. Filas'
    <3>1. ASSUME NEW s \in Altas, registro'[s] = "hecha"
          PROVE  empresaDeRnc'[Rnc(s)] = s /\ usuarioDeEmail'[Email(s)] = s
      <4>1. CASE s = r
        BY <2>2, <4>1
      <4>2. CASE s # r
        <5>1. empresaDeRnc[Rnc(s)] = s /\ usuarioDeEmail[Email(s)] = s
          BY <1>0, <2>2, <3>1, <4>2 DEF Filas
        <5>2. Rnc(s) # Rnc(r) /\ Email(s) # Email(r)
          BY <2>3, <5>1
        <5> QED BY <1>a, <2>2, <5>1, <5>2
      <4> QED BY <4>1, <4>2
    <3>2. ASSUME NEW n \in RncsPedidos, empresaDeRnc'[n] # SinAlta
          PROVE  registro'[empresaDeRnc'[n]] = "hecha" /\ Rnc(empresaDeRnc'[n]) = n
      <4>1. CASE n = Rnc(r)
        BY <2>2, <4>1
      <4>2. CASE n # Rnc(r)
        BY <1>0, <1>b, <2>2, <3>2, <4>2 DEF Filas
      <4> QED BY <4>1, <4>2
    <3>3. ASSUME NEW e \in EmailsPedidos, usuarioDeEmail'[e] # SinAlta
          PROVE  registro'[usuarioDeEmail'[e]] = "hecha" /\ Email(usuarioDeEmail'[e]) = e
      <4>1. CASE e = Email(r)
        BY <2>2, <4>1
      <4>2. CASE e # Email(r)
        BY <1>0, <1>b, <2>2, <3>3, <4>2 DEF Filas
      <4> QED BY <4>1, <4>2
    <3> QED BY <3>1, <3>2, <3>3 DEF Filas
  <2>7. Asistencia'
    <3>1. registro[r] # "inicio" /\ registro[r] \notin {"ocupada", "fallida"}
      BY <2>1
    <3>2. \A w \in Asistentes : pantalla[w] # "registro" =>
            \E s \in Altas : registro'[s] = "hecha" /\ AsistenteDe[s] = w
      BY <1>0, <2>2 DEF Asistencia
    <3> QED BY <1>0, <2>1, <2>2, <3>1, <3>2 DEF Asistencia
  <2>8. Explicados'
    <3>1. ASSUME NEW w \in Asistentes, Explicado(w)
          PROVE  Explicado(w)'
      BY <2>1, <2>2, <3>1, ExplicacionFirme
    <3>2. \A w \in Asistentes : enEspera[w] # SinAlta /\ registro'[enEspera[w]] = "ocupada" =>
            registro[enEspera[w]] = "ocupada"
      BY <1>0, <2>2 DEF TypeOKOnboarding
    <3> QED BY <1>0, <2>1, <3>1, <3>2 DEF Explicados
  <2> QED BY <2>4, <2>5, <2>6, <2>7, <2>8 DEF IndOnboarding
<1>6. ASSUME NEW w \in Asistentes, NEW r \in Altas, EnviarAlta(w, r)
      PROVE  IndOnboarding'
  <2>1. /\ AsistenteDe[r] = w /\ pantalla[w] = "registro" /\ enEspera[w] = SinAlta
        /\ registro[r] = "inicio" /\ registro' = [registro EXCEPT ![r] = "recibida"]
        /\ enEspera' = [enEspera EXCEPT ![w] = r] /\ mensaje' = [mensaje EXCEPT ![w] = "nada"]
        /\ UNCHANGED <<empresaDeRnc, usuarioDeEmail, pantalla, conCertificado, sinNoticia>>
    BY <1>6 DEF EnviarAlta
  <2>2. /\ registro'[r] = "recibida" /\ \A s \in Altas : s # r => registro'[s] = registro[s]
        /\ enEspera'[w] = r /\ \A x \in Asistentes : x # w => enEspera'[x] = enEspera[x]
        /\ mensaje'[w] = "nada" /\ \A x \in Asistentes : x # w => mensaje'[x] = mensaje[x]
    BY <1>0, <2>1 DEF TypeOKOnboarding
  <2>3. TypeOKOnboarding'
    BY <1>0, <2>1 DEF TypeOKOnboarding
  <2>4. Indices'
    BY <1>0, <2>1, <2>2 DEF Indices, EnTransaccion
  <2>5. Filas'
    BY <1>0, <1>b, <2>1, <2>2 DEF Filas
  <2>6. Asistencia'
    <3>1. \A x \in Asistentes : enEspera'[x] # SinAlta =>
            AsistenteDe[enEspera'[x]] = x /\ pantalla[x] = "registro"
      BY <1>0, <2>1, <2>2 DEF Asistencia
    <3>2. \A x \in Asistentes : pantalla[x] # "registro" =>
            \E s \in Altas : registro'[s] = "hecha" /\ AsistenteDe[s] = x
      BY <1>0, <2>1, <2>2 DEF Asistencia
    <3>3. ASSUME NEW s \in Altas, registro'[s] # "inicio"
          PROVE  \/ enEspera'[AsistenteDe[s]] = s \/ s \in sinNoticia
                 \/ registro'[s] \in {"ocupada", "fallida"} \/ pantalla[AsistenteDe[s]] # "registro"
      <4>1. CASE s = r
        BY <2>1, <2>2, <4>1
      <4>2. CASE s # r
        <5>1. \/ enEspera[AsistenteDe[s]] = s \/ s \in sinNoticia
              \/ registro[s] \in {"ocupada", "fallida"} \/ pantalla[AsistenteDe[s]] # "registro"
          BY <1>0, <2>2, <3>3, <4>2 DEF Asistencia
        <5> QED BY <1>a, <2>1, <2>2, <4>2, <5>1
      <4> QED BY <4>1, <4>2
    <3> QED BY <2>1, <3>1, <3>2, <3>3 DEF Asistencia
  <2>7. Explicados'
    <3>1. ASSUME NEW x \in Asistentes, Explicado(x)
          PROVE  Explicado(x)'
      BY <2>1, <2>2, <3>1, ExplicacionFirme
    <3>2. \A x \in Asistentes : enEspera'[x] # SinAlta /\ registro'[enEspera'[x]] = "ocupada" =>
            enEspera[x] # SinAlta /\ registro[enEspera[x]] = "ocupada"
      BY <1>0, <2>2 DEF TypeOKOnboarding
    <3>3. \A x \in Asistentes : mensaje'[x] = "ocupado" => mensaje[x] = "ocupado"
      BY <2>2
    <3> QED BY <1>0, <3>1, <3>2, <3>3 DEF Explicados
  <2> QED BY <2>3, <2>4, <2>5, <2>6, <2>7 DEF IndOnboarding
<1>7. ASSUME NEW w \in Asistentes, RecibirRechazo(w)
      PROVE  IndOnboarding'
  <2>1. /\ \/ registro[enEspera[w]] = "ocupada" /\ mensaje' = [mensaje EXCEPT ![w] = "ocupado"]
           \/ registro[enEspera[w]] = "fallida" /\ mensaje' = [mensaje EXCEPT ![w] = "error"]
        /\ enEspera[w] # SinAlta /\ enEspera' = [enEspera EXCEPT ![w] = SinAlta]
        /\ UNCHANGED <<servidorVars, pantalla, conCertificado, sinNoticia>>
    BY <1>7 DEF RecibirRechazo, Avisar
  <2>2. mensaje' \in [Asistentes -> {"nada", "ocupado", "error"}]
    BY <1>0, <2>1 DEF TypeOKOnboarding
  <2>3. \A x \in Asistentes : mensaje'[x] = "ocupado" =>
          mensaje[x] = "ocupado" \/ (enEspera[x] # SinAlta /\ registro[enEspera[x]] = "ocupada")
    BY <1>0, <2>1 DEF TypeOKOnboarding
  <2>4. pantalla[w] # "registro" => \E r \in Altas : registro[r] = "hecha" /\ AsistenteDe[r] = w
    BY <1>0 DEF Asistencia
  <2>5. /\ sinNoticia \subseteq Altas /\ conCertificado \in [Asistentes -> BOOLEAN]
        /\ pantalla \in [Asistentes -> {"registro", "certificado", "confirmacion"}]
    BY <1>0 DEF TypeOKOnboarding
  <2> QED BY <2>1, <2>2, <2>3, <2>4, <2>5, PasoDeAsistente
<1>8. ASSUME NEW w \in Asistentes, EntrarTrasAlta(w)
      PROVE  IndOnboarding'
  <2>1. /\ enEspera[w] # SinAlta /\ registro[enEspera[w]] = "hecha"
        /\ pantalla' = [pantalla EXCEPT ![w] = "certificado"]
        /\ enEspera' = [enEspera EXCEPT ![w] = SinAlta]
        /\ UNCHANGED <<servidorVars, mensaje, conCertificado, sinNoticia>>
    BY <1>8 DEF EntrarTrasAlta
  <2>2. enEspera[w] \in Altas /\ AsistenteDe[enEspera[w]] = w
    BY <1>0, <2>1 DEF TypeOKOnboarding, Asistencia
  <2>3. /\ pantalla' \in [Asistentes -> {"registro", "certificado", "confirmacion"}]
        /\ pantalla'[w] # "registro" /\ \A x \in Asistentes : x # w => pantalla'[x] = pantalla[x]
    BY <1>0, <2>1 DEF TypeOKOnboarding
  <2>5. /\ sinNoticia \subseteq Altas /\ conCertificado \in [Asistentes -> BOOLEAN]
        /\ mensaje \in [Asistentes -> {"nada", "ocupado", "error"}]
    BY <1>0 DEF TypeOKOnboarding
  <2>6. /\ UNCHANGED servidorVars /\ sinNoticia \subseteq sinNoticia' /\ sinNoticia' \subseteq Altas
        /\ conCertificado' \in [Asistentes -> BOOLEAN]
        /\ mensaje' \in [Asistentes -> {"nada", "ocupado", "error"}]
        /\ \A x \in Asistentes : mensaje'[x] = "ocupado" => mensaje[x] = "ocupado"
    BY <2>1, <2>5
  <2>7. \E r \in Altas : registro[r] = "hecha" /\ AsistenteDe[r] = w
    BY <2>1, <2>2
  <2> QED BY ZenonT(60), <2>1, <2>3, <2>6, <2>7, PasoDeAsistente
<1>9. ASSUME NEW w \in Asistentes, PerderNoticia(w)
      PROVE  IndOnboarding'
  <2>1. /\ enEspera[w] # SinAlta /\ sinNoticia' = sinNoticia \union {enEspera[w]}
        /\ mensaje' = [mensaje EXCEPT ![w] = "error"]
        /\ enEspera' = [enEspera EXCEPT ![w] = SinAlta]
        /\ UNCHANGED <<servidorVars, pantalla, conCertificado>>
    BY <1>9 DEF PerderNoticia, Avisar
  <2>2. enEspera[w] \in Altas
    BY <1>0, <2>1 DEF TypeOKOnboarding
  <2>3. /\ mensaje' \in [Asistentes -> {"nada", "ocupado", "error"}]
        /\ \A x \in Asistentes : mensaje'[x] = "ocupado" => mensaje[x] = "ocupado"
    BY <1>0, <2>1 DEF TypeOKOnboarding
  <2>4. pantalla[w] # "registro" => \E r \in Altas : registro[r] = "hecha" /\ AsistenteDe[r] = w
    BY <1>0 DEF Asistencia
  <2>5. /\ sinNoticia' \subseteq Altas /\ conCertificado \in [Asistentes -> BOOLEAN]
        /\ pantalla \in [Asistentes -> {"registro", "certificado", "confirmacion"}]
    BY <1>0, <2>1, <2>2 DEF TypeOKOnboarding
  <2> QED BY <2>1, <2>3, <2>4, <2>5, PasoDeAsistente
<1>10. ASSUME NEW w \in Asistentes, CargarCertificado(w) \/ OmitirCertificado(w)
       PROVE  IndOnboarding'
  <2>1. /\ pantalla[w] = "certificado"
        /\ UNCHANGED <<servidorVars, enEspera, sinNoticia>>
        /\ \/ pantalla' = [pantalla EXCEPT ![w] = "confirmacion"] /\ UNCHANGED mensaje
           \/ mensaje' = [mensaje EXCEPT ![w] = "error"] /\ UNCHANGED pantalla
    BY <1>10 DEF CargarCertificado, OmitirCertificado
  <2>2. conCertificado' \in [Asistentes -> BOOLEAN]
    <3>1. conCertificado \in [Asistentes -> BOOLEAN]
      BY <1>0 DEF TypeOKOnboarding
    <3>2. \/ conCertificado' = [conCertificado EXCEPT ![w] = TRUE]
          \/ conCertificado' = [conCertificado EXCEPT ![w] = FALSE]
          \/ conCertificado' = conCertificado
      BY <1>10, Zenon DEF CargarCertificado, OmitirCertificado
    <3> QED BY <3>1, <3>2, Zenon
  <2>3. enEspera[w] = SinAlta /\ \E r \in Altas : registro[r] = "hecha" /\ AsistenteDe[r] = w
    BY <1>0, <2>1 DEF Asistencia
  <2>4. enEspera' = [enEspera EXCEPT ![w] = SinAlta]
    BY <1>0, <2>1, <2>3 DEF TypeOKOnboarding
  <2>5. /\ mensaje' \in [Asistentes -> {"nada", "ocupado", "error"}] /\ sinNoticia \subseteq Altas
        /\ pantalla' \in [Asistentes -> {"registro", "certificado", "confirmacion"}]
        /\ pantalla'[w] # "registro" /\ \A x \in Asistentes : x # w => pantalla'[x] = pantalla[x]
        /\ \A x \in Asistentes : mensaje'[x] = "ocupado" => mensaje[x] = "ocupado"
    BY <1>0, <2>1 DEF TypeOKOnboarding
  <2> QED BY <2>1, <2>2, <2>3, <2>4, <2>5, PasoDeAsistente
<1>11. CASE UNCHANGED onboardingVars
  BY <1>0, <1>11 DEF onboardingVars, IndOnboarding, TypeOKOnboarding, Indices, Filas, Asistencia,
                     Explicados, Explicado
<1> QED
  BY <1>1, <1>2, <1>3, <1>4, <1>5, <1>6, <1>7, <1>8, <1>9, <1>10, <1>11 DEF NextOnboarding

LEMMA AltaSiempreEntera == IndOnboarding => AltaEntera /\ OcupadoExplicado
<1> SUFFICES ASSUME IndOnboarding PROVE AltaEntera /\ OcupadoExplicado
  OBVIOUS
<1> USE OnboardingAssumption DEF IndOnboarding
<1>1. OcupadoExplicado
  BY DEF OcupadoExplicado, Explicados, Explicado
<1>2. ASSUME NEW n \in RncsPedidos, empresaDeRnc[n] # SinAlta
      PROVE  usuarioDeEmail[Email(empresaDeRnc[n])] = empresaDeRnc[n]
  BY <1>2 DEF TypeOKOnboarding, Filas
<1>3. ASSUME NEW e \in EmailsPedidos, usuarioDeEmail[e] # SinAlta
      PROVE  empresaDeRnc[Rnc(usuarioDeEmail[e])] = usuarioDeEmail[e]
  BY <1>3 DEF TypeOKOnboarding, Filas
<1>4. ASSUME NEW w \in Asistentes, pantalla[w] # "registro"
      PROVE  empresaDeRnc[RncDe[w]] # SinAlta /\ AsistenteDe[empresaDeRnc[RncDe[w]]] = w
  <2>1. PICK r \in Altas : registro[r] = "hecha" /\ AsistenteDe[r] = w
    BY <1>4 DEF Asistencia
  <2>2. empresaDeRnc[RncDe[w]] = r
    BY <2>1 DEF Filas, Rnc
  <2> QED BY <2>1, <2>2
<1> QED BY <1>1, <1>2, <1>3, <1>4 DEF AltaEntera


-----------------------------------------------------------------------------
(* The accountants and their teams                                         *)

USE DEF Peticiones, altaVars, enlaceVars, peticionVars, accesoVars, historiaEquipo, PasarPeticion

EnMarcha == {"revisar", "conceder"}

\* The company is linked to the accountant of the call, or was when the call began.
Respaldada(c, e) ==
  titularDe[e] = peticion[c].titular /\ (e \in activas \/ <<c, e>> \in amparadas)

FormaContador ==
  /\ dadosDeAlta \subseteq Titulares
  /\ peticion \in [Peticiones -> [titular : Titulares \union {SinTitular},
                                  miembro : Titulares \union Miembros \union {SinTitular},
                                  empresas : SUBSET Clientes]]
  /\ porRevisar \in [Peticiones -> SUBSET Clientes]
  /\ \A p \in retirados : p = <<p[1], p[2]>>

\* A call has an accountant from its start, and what it has read of its companies was so.
Curso ==
  \A c \in Peticiones :
    /\ pasoPeticion[c] # "reposo" => peticion[c].titular # SinTitular
    /\ pasoPeticion[c] \in EnMarcha =>
         \A e \in peticion[c].empresas : e \in porRevisar[c] \/ Respaldada(c, e)
    /\ pasoPeticion[c] = "conceder" => porRevisar[c] = {}

\* A token, and a row of the team, are what a finished call asked for.
Permisos ==
  /\ \A c \in enUso : /\ pasoPeticion[c] = "fin"
                      /\ \A e \in peticion[c].empresas : Respaldada(c, e)
  /\ \A r \in filasActivas : /\ r.ficha \in Incorporaciones /\ r.empresa \in Clientes
                             /\ pasoPeticion[r.ficha] = "fin"
                             /\ r.titular = peticion[r.ficha].titular
                             /\ Respaldada(r.ficha, r.empresa)

\* Nobody is adding a member who was removed, and no row lets that member in.
Retirada ==
  \A p \in retirados :
    /\ \A f \in Incorporaciones : pasoPeticion[f] \in EnMarcha =>
         ~(peticion[f].titular = p[1] /\ peticion[f].miembro = p[2])
    /\ \A r \in filasActivas : ~(r.titular = p[1] /\ r.miembro = p[2])

Anuncio == \A u \in Titulares : formulario[u] = "listo" => u \in perfiles \union perdidas

IndContador ==
  TypeOKEquipoContador /\ FormaContador /\ Curso /\ Permisos /\ Retirada /\ Anuncio

LEMMA InicioContador == ASSUME InitEquipoContador PROVE IndContador
BY EquipoContadorAssumption
DEF InitEquipoContador, IndContador, TypeOKEquipoContador, FormaContador, Curso, Permisos,
    Retirada, Anuncio, SinPeticion, EnMarcha

\* What backs a call that has begun lasts: a link is made once, and an unlinking is noted.
LEMMA RespaldoFirme ==
  ASSUME IndContador, [NextEquipoContador]_equipoContadorVars, NEW c \in Peticiones,
         pasoPeticion[c] # "reposo"
  PROVE  /\ peticion'[c] = peticion[c]
         /\ \A e \in Clientes : Respaldada(c, e) => Respaldada(c, e)'
<1> USE EquipoContadorAssumption
<1>0. TypeOKEquipoContador /\ FormaContador /\ peticion[c].titular # SinTitular
  BY DEF IndContador, Curso
<1>1. CASE UNCHANGED <<titularDe, activas, peticion, amparadas>>
  BY <1>1 DEF Respaldada
<1>2. ASSUME NEW u \in Titulares, NEW e \in Clientes, Enlazar(u, e)
      PROVE  /\ peticion'[c] = peticion[c]
             /\ \A x \in Clientes : Respaldada(c, x) => Respaldada(c, x)'
  BY <1>0, <1>2 DEF Enlazar, Respaldada, TypeOKEquipoContador
<1>3. ASSUME NEW e \in Clientes, Desenlazar(e)
      PROVE  /\ peticion'[c] = peticion[c]
             /\ \A x \in Clientes : Respaldada(c, x) => Respaldada(c, x)'
  BY <1>3 DEF Desenlazar, Respaldada
<1>4. ASSUME NEW d \in Peticiones, NEW u, NEW m, NEW es, Pedir(d, u, m, es)
      PROVE  /\ peticion'[c] = peticion[c]
             /\ \A x \in Clientes : Respaldada(c, x) => Respaldada(c, x)'
  <2>1. peticion'[c] = peticion[c]
    BY <1>0, <1>4 DEF Pedir, FormaContador
  <2>2. UNCHANGED <<titularDe, activas, amparadas>>
    BY <1>4 DEF Pedir
  <2> QED BY <2>1, <2>2 DEF Respaldada
<1>5. CASE UNCHANGED equipoContadorVars
  BY <1>1, <1>5 DEF equipoContadorVars
<1>6. ASSUME NEW u \in Titulares,
             \/ AltaDeTitular(u) \/ EntrarTitular(u) \/ Buscar(u) \/ Inscribir(u) \/ MostrarListo(u)
             \/ \E m \in Miembros : EliminarMiembro(u, m)
      PROVE  UNCHANGED <<titularDe, activas, peticion, amparadas>>
  BY <1>6 DEF AltaDeTitular, EntrarTitular, Buscar, Inscribir, MostrarListo, EliminarMiembro
<1>7. ASSUME NEW d \in Peticiones,
             \/ \E e \in Clientes : Revisar(d, e)
             \/ GuardarEquipo(d) \/ FirmarContexto(d) \/ VencerContexto(d)
      PROVE  UNCHANGED <<titularDe, activas, peticion, amparadas>>
  BY <1>7 DEF Revisar, GuardarEquipo, FirmarContexto, VencerContexto
<1> QED
  BY <1>1, <1>2, <1>3, <1>4, <1>5, <1>6, <1>7 DEF NextEquipoContador

\* A step that begins no call and gives nothing keeps what calls and permissions rest on.
LEMMA ContadorQuieto ==
  ASSUME IndContador, [NextEquipoContador]_equipoContadorVars,
         UNCHANGED <<peticionVars, filasActivas>>, enUso' \subseteq enUso
  PROVE  Curso' /\ Permisos'
<1> USE EquipoContadorAssumption
<1>0. TypeOKEquipoContador /\ FormaContador /\ Curso /\ Permisos
  BY DEF IndContador
<1>1. \A c \in Peticiones : pasoPeticion[c] # "reposo" =>
        \A e \in Clientes : Respaldada(c, e) => Respaldada(c, e)'
  BY RespaldoFirme
<1>2. \A c \in Peticiones : peticion[c].empresas \subseteq Clientes
  BY <1>0 DEF FormaContador
<1>3. Curso'
  BY <1>0, <1>1, <1>2 DEF Curso, EnMarcha
<1>4. Permisos'
  BY <1>0, <1>1, <1>2 DEF Permisos, TypeOKEquipoContador
<1> QED BY <1>3, <1>4

LEMMA PasoContador ==
  ASSUME IndContador, [NextEquipoContador]_equipoContadorVars
  PROVE  IndContador'
<1> USE EquipoContadorAssumption
<1>0. TypeOKEquipoContador /\ FormaContador /\ Curso /\ Permisos /\ Retirada /\ Anuncio
  BY DEF IndContador
<1>a. \A c \in Peticiones : pasoPeticion[c] # "reposo" =>
        /\ peticion'[c] = peticion[c]
        /\ \A e \in Clientes : Respaldada(c, e) => Respaldada(c, e)'
  BY RespaldoFirme
<1>b. \A c \in Peticiones : peticion[c].empresas \subseteq Clientes
  BY <1>0 DEF FormaContador
<1>1. ASSUME NEW u \in Titulares,
             \/ AltaDeTitular(u) \/ EntrarTitular(u) \/ Buscar(u) \/ Inscribir(u) \/ MostrarListo(u)
      PROVE  IndContador'
  <2>1. /\ UNCHANGED <<enlaceVars, peticionVars, accesoVars, historiaEquipo>>
        /\ perfiles \subseteq perfiles' /\ perdidas \subseteq perdidas'
        /\ buscando' \subseteq dadosDeAlta' /\ perfiles' \subseteq buscando'
        /\ dadosDeAlta' \subseteq Titulares
    BY <1>0, <1>1 DEF AltaDeTitular, EntrarTitular, Buscar, Inscribir, MostrarListo,
                      TypeOKEquipoContador, FormaContador
  <2>2. /\ formulario' \in [Titulares -> {"datos", "entrar", "registrar", "listo"}]
        /\ \A x \in Titulares : formulario'[x] = "listo" =>
             formulario[x] = "listo" \/ x \in perfiles' \/ x \in perdidas'
    BY <1>0, <1>1 DEF AltaDeTitular, EntrarTitular, Buscar, Inscribir, MostrarListo, Avanzar,
                      TypeOKEquipoContador
  <2>3. TypeOKEquipoContador' /\ FormaContador'
    BY <1>0, <2>1, <2>2 DEF TypeOKEquipoContador, FormaContador
  <2>4. Curso' /\ Permisos'
    BY <2>1, ContadorQuieto
  <2>5. Retirada' /\ Anuncio'
    BY <1>0, <2>1, <2>2 DEF Retirada, Anuncio
  <2> QED BY <2>3, <2>4, <2>5 DEF IndContador
<1>2. ASSUME NEW u \in Titulares, NEW e \in Clientes, Enlazar(u, e)
      PROVE  IndContador'
  <2>1. /\ UNCHANGED <<altaVars, peticionVars, accesoVars, historiaEquipo>>
        /\ titularDe' = [titularDe EXCEPT ![e] = u] /\ u \in perfiles
        /\ activas' = activas \union {e}
    BY <1>2 DEF Enlazar
  <2>2. TypeOKEquipoContador' /\ FormaContador'
    BY <1>0, <2>1 DEF TypeOKEquipoContador, FormaContador
  <2>3. Curso' /\ Permisos'
    BY <2>1, ContadorQuieto
  <2>4. Retirada' /\ Anuncio'
    BY <1>0, <2>1 DEF Retirada, Anuncio
  <2> QED BY <2>2, <2>3, <2>4 DEF IndContador
<1>3. ASSUME NEW e \in Clientes, Desenlazar(e)
      PROVE  IndContador'
  <2>1. /\ UNCHANGED <<altaVars, titularDe, peticionVars, accesoVars, retirados>>
        /\ activas' \subseteq activas
    BY <1>3 DEF Desenlazar
  <2>2. TypeOKEquipoContador' /\ FormaContador'
    BY <1>0, <2>1 DEF TypeOKEquipoContador, FormaContador
  <2>3. Curso' /\ Permisos'
    BY <2>1, ContadorQuieto
  <2>4. Retirada' /\ Anuncio'
    BY <1>0, <2>1 DEF Retirada, Anuncio
  <2> QED BY <2>2, <2>3, <2>4 DEF IndContador
<1>4. ASSUME NEW c \in Peticiones, NEW u \in Titulares, NEW m \in Titulares \union Miembros,
             NEW es \in SUBSET Clientes, Pedir(c, u, m, es)
      PROVE  IndContador'
  <2>1. /\ pasoPeticion[c] = "reposo"
        /\ peticion' = [peticion EXCEPT ![c] = [titular |-> u, miembro |-> m, empresas |-> es]]
        /\ porRevisar' = [porRevisar EXCEPT ![c] = es]
        /\ pasoPeticion' = [pasoPeticion EXCEPT ![c] = "revisar"]
        /\ UNCHANGED <<altaVars, enlaceVars, accesoVars, amparadas>>
    BY <1>4 DEF Pedir
  <2>2. /\ retirados' \subseteq retirados
        /\ c \in Incorporaciones => <<u, m>> \notin retirados'
    BY <1>4 DEF Pedir
  <2>3. /\ peticion'[c].titular = u /\ peticion'[c].miembro = m /\ peticion'[c].empresas = es
        /\ porRevisar'[c] = es /\ pasoPeticion'[c] = "revisar"
        /\ \A d \in Peticiones : d # c => /\ pasoPeticion'[d] = pasoPeticion[d]
                                          /\ peticion'[d] = peticion[d]
                                          /\ porRevisar'[d] = porRevisar[d]
    BY <1>0, <2>1 DEF TypeOKEquipoContador, FormaContador
  <2>4. TypeOKEquipoContador' /\ FormaContador'
    BY <1>0, <2>1, <2>2 DEF TypeOKEquipoContador, FormaContador
  <2>5. Curso'
    <3>1. u # SinTitular
      OBVIOUS
    <3>2. ASSUME NEW d \in Peticiones, d # c
          PROVE  /\ pasoPeticion'[d] # "reposo" => peticion'[d].titular # SinTitular
                 /\ pasoPeticion'[d] \in EnMarcha =>
                      \A e \in peticion'[d].empresas : e \in porRevisar'[d] \/ Respaldada(d, e)'
                 /\ pasoPeticion'[d] = "conceder" => porRevisar'[d] = {}
      BY <1>0, <1>a, <1>b, <2>3, <3>2 DEF Curso, EnMarcha
    <3> QED BY <2>3, <3>1, <3>2 DEF Curso
  <2>6. Permisos'
    BY <1>0, <1>a, <1>b, <2>1, <2>3 DEF Permisos, TypeOKEquipoContador
  <2>7. Retirada' /\ Anuncio'
    <3>1. \A p \in retirados' : p = <<p[1], p[2]>>
      BY <1>0, <2>2 DEF FormaContador
    <3>2. ASSUME NEW p \in retirados', c \in Incorporaciones
          PROVE  ~(u = p[1] /\ m = p[2])
      BY <2>2, <3>1, <3>2
    <3> QED BY <1>0, <2>1, <2>2, <2>3, <3>2 DEF Retirada, Anuncio
  <2> QED BY <2>4, <2>5, <2>6, <2>7 DEF IndContador
<1>5. ASSUME NEW c \in Peticiones, NEW e \in Clientes, Revisar(c, e)
      PROVE  IndContador'
  <2>1. /\ pasoPeticion[c] = "revisar" /\ e \in porRevisar[c]
        /\ UNCHANGED <<altaVars, enlaceVars, peticion, accesoVars, historiaEquipo>>
        /\ \/ /\ titularDe[e] = peticion[c].titular /\ e \in activas
              /\ porRevisar' = [porRevisar EXCEPT ![c] = porRevisar[c] \ {e}]
              /\ \/ porRevisar[c] = {e} /\ pasoPeticion' = [pasoPeticion EXCEPT ![c] = "conceder"]
                 \/ UNCHANGED pasoPeticion
           \/ pasoPeticion' = [pasoPeticion EXCEPT ![c] = "fin"] /\ UNCHANGED porRevisar
    BY <1>5 DEF Revisar, Suya
  <2>2. TypeOKEquipoContador' /\ FormaContador'
    BY <1>0, <2>1 DEF TypeOKEquipoContador, FormaContador
  <2>3. /\ \A d \in Peticiones : d # c =>
             pasoPeticion'[d] = pasoPeticion[d] /\ porRevisar'[d] = porRevisar[d]
        /\ \/ /\ Respaldada(c, e) /\ porRevisar'[c] = porRevisar[c] \ {e}
              /\ pasoPeticion'[c] = "conceder" => porRevisar[c] = {e}
           \/ pasoPeticion'[c] = "fin"
        /\ pasoPeticion'[c] # "reposo"
    BY <1>0, <2>1 DEF TypeOKEquipoContador, FormaContador, Respaldada
  <2>4. Curso'
    <3>1. ASSUME NEW d \in Peticiones, d # c
          PROVE  /\ pasoPeticion'[d] # "reposo" => peticion'[d].titular # SinTitular
                 /\ pasoPeticion'[d] \in EnMarcha =>
                      \A x \in peticion'[d].empresas : x \in porRevisar'[d] \/ Respaldada(d, x)'
                 /\ pasoPeticion'[d] = "conceder" => porRevisar'[d] = {}
      BY <1>0, <1>a, <1>b, <2>1, <2>3, <3>1 DEF Curso, EnMarcha
    <3>2. /\ pasoPeticion'[c] # "reposo" => peticion'[c].titular # SinTitular
          /\ pasoPeticion'[c] \in EnMarcha =>
               \A x \in peticion'[c].empresas : x \in porRevisar'[c] \/ Respaldada(c, x)'
          /\ pasoPeticion'[c] = "conceder" => porRevisar'[c] = {}
      BY <1>0, <1>a, <1>b, <2>1, <2>3 DEF Curso, EnMarcha
    <3> QED BY <3>1, <3>2 DEF Curso
  <2>5. Permisos'
    BY <1>0, <1>a, <1>b, <2>1, <2>3 DEF Permisos, TypeOKEquipoContador
  <2>6. Retirada' /\ Anuncio'
    BY <1>0, <2>1, <2>3 DEF Retirada, Anuncio, EnMarcha
  <2> QED BY <2>2, <2>4, <2>5, <2>6 DEF IndContador
<1>6. ASSUME NEW f \in Incorporaciones, GuardarEquipo(f)
      PROVE  IndContador'
  <2>1. /\ pasoPeticion[f] = "conceder"
        /\ filasActivas' \subseteq filas' /\ filasActivas' \subseteq filasActivas \union FilasDePeticion(f)
        /\ pasoPeticion' = [pasoPeticion EXCEPT ![f] = "fin"]
        /\ UNCHANGED <<altaVars, enlaceVars, peticion, porRevisar, enUso, bajasPedidas, historiaEquipo>>
    BY <1>0, <1>6 DEF GuardarEquipo, TypeOKEquipoContador
  <2>2. /\ pasoPeticion'[f] = "fin"
        /\ \A d \in Peticiones : d # f => pasoPeticion'[d] = pasoPeticion[d]
    BY <1>0, <2>1 DEF TypeOKEquipoContador
  <2>3. ASSUME NEW r \in FilasDePeticion(f)
        PROVE  /\ r.ficha = f /\ r.empresa \in Clientes /\ Respaldada(f, r.empresa)
               /\ r.titular = peticion[f].titular /\ r.miembro = peticion[f].miembro
    BY <1>0, <1>b, <2>1, <2>3 DEF FilasDePeticion, Curso, EnMarcha
  <2>4. TypeOKEquipoContador' /\ FormaContador'
    BY <1>0, <2>1 DEF TypeOKEquipoContador, FormaContador
  <2>5. Curso'
    BY <1>0, <1>a, <1>b, <2>1, <2>2 DEF Curso, EnMarcha
  <2>6. Permisos'
    <3>1. \A c \in enUso' : /\ pasoPeticion'[c] = "fin"
                            /\ \A e \in peticion'[c].empresas : Respaldada(c, e)'
      BY <1>0, <1>a, <1>b, <2>1, <2>2 DEF Permisos, TypeOKEquipoContador
    <3>2. ASSUME NEW r \in filasActivas'
          PROVE  /\ r.ficha \in Incorporaciones /\ r.empresa \in Clientes
                 /\ pasoPeticion'[r.ficha] = "fin" /\ r.titular = peticion'[r.ficha].titular
                 /\ Respaldada(r.ficha, r.empresa)'
      <4>1. CASE r \in filasActivas
        BY <1>0, <1>a, <2>1, <2>2, <4>1 DEF Permisos
      <4>2. CASE r \in FilasDePeticion(f)
        BY <1>a, <2>1, <2>2, <2>3, <4>2
      <4> QED BY <2>1, <3>2, <4>1, <4>2
    <3> QED BY <3>1, <3>2 DEF Permisos
  <2>7. Retirada' /\ Anuncio'
    BY <1>0, <2>1, <2>2, <2>3 DEF Retirada, Anuncio, EnMarcha
  <2> QED BY <2>4, <2>5, <2>6, <2>7 DEF IndContador
<1>7. ASSUME NEW c \in Contextos, FirmarContexto(c)
      PROVE  IndContador'
  <2>1. /\ pasoPeticion[c] = "conceder" /\ enUso' = enUso \union {c}
        /\ pasoPeticion' = [pasoPeticion EXCEPT ![c] = "fin"]
        /\ UNCHANGED <<altaVars, enlaceVars, peticion, porRevisar, filas, filasActivas,
                       bajasPedidas, historiaEquipo>>
    BY <1>7 DEF FirmarContexto
  <2>2. /\ pasoPeticion'[c] = "fin"
        /\ \A d \in Peticiones : d # c => pasoPeticion'[d] = pasoPeticion[d]
    BY <1>0, <2>1 DEF TypeOKEquipoContador
  <2>3. \A e \in peticion[c].empresas : Respaldada(c, e)
    BY <1>0, <2>1 DEF Curso, EnMarcha
  <2>4. TypeOKEquipoContador' /\ FormaContador'
    BY <1>0, <2>1 DEF TypeOKEquipoContador, FormaContador
  <2>5. Curso'
    BY <1>0, <1>a, <1>b, <2>1, <2>2 DEF Curso, EnMarcha
  <2>6. Permisos'
    BY <1>0, <1>a, <1>b, <2>1, <2>2, <2>3 DEF Permisos, TypeOKEquipoContador
  <2>7. Retirada' /\ Anuncio'
    BY <1>0, <2>1, <2>2 DEF Retirada, Anuncio, EnMarcha
  <2> QED BY <2>4, <2>5, <2>6, <2>7 DEF IndContador
<1>8. ASSUME NEW c \in Contextos, VencerContexto(c)
      PROVE  IndContador'
  <2>1. /\ enUso' = enUso \ {c}
        /\ UNCHANGED <<altaVars, enlaceVars, peticionVars, filas, filasActivas, bajasPedidas,
                       historiaEquipo>>
    BY <1>8 DEF VencerContexto
  <2>2. TypeOKEquipoContador' /\ FormaContador'
    BY <1>0, <2>1 DEF TypeOKEquipoContador, FormaContador
  <2>3. Curso' /\ Permisos'
    BY <2>1, ContadorQuieto
  <2>4. Retirada' /\ Anuncio'
    BY <1>0, <2>1 DEF Retirada, Anuncio
  <2> QED BY <2>2, <2>3, <2>4 DEF IndContador
<1>9. ASSUME NEW u \in Titulares, NEW m \in Miembros, EliminarMiembro(u, m)
      PROVE  IndContador'
  <2>1. /\ bajasPedidas < MaxBajas /\ bajasPedidas' = bajasPedidas + 1
        /\ filasActivas' = filasActivas \ DelMiembro(u, m)
        /\ UNCHANGED <<altaVars, enlaceVars, peticionVars, filas, enUso, amparadas>>
    BY <1>9 DEF EliminarMiembro
  <2>2. retirados' \subseteq retirados \union {<<u, m>>} /\ (AnadiendoA(u, m) => retirados' = retirados)
    BY <1>9 DEF EliminarMiembro
  <2>3. \A r \in filasActivas' : r \in filasActivas /\ ~(r.titular = u /\ r.miembro = m)
    BY <1>0, <2>1 DEF DelMiembro, TypeOKEquipoContador
  <2>4. TypeOKEquipoContador'
    BY <1>0, <2>1 DEF TypeOKEquipoContador
  <2>5. FormaContador' /\ Anuncio'
    BY <1>0, <2>1, <2>2 DEF FormaContador, Anuncio
  <2>6. Curso'
    BY <1>0, <2>1, <1>a, <1>b DEF Curso, EnMarcha
  <2>7. Permisos'
    BY <1>0, <1>a, <1>b, <2>1, <2>3 DEF Permisos, TypeOKEquipoContador
  <2>8. Retirada'
    <3>1. ASSUME NEW p \in retirados', p \notin retirados
          PROVE  p[1] = u /\ p[2] = m /\ ~AnadiendoA(u, m)
      BY <2>2, <3>1
    <3> QED BY <1>0, <2>1, <2>3, <3>1 DEF Retirada, AnadiendoA, EnMarcha
  <2> QED BY <2>4, <2>5, <2>6, <2>7, <2>8 DEF IndContador
<1>10. CASE UNCHANGED equipoContadorVars
  <2>1. UNCHANGED <<altaVars, enlaceVars, peticionVars, accesoVars, historiaEquipo>>
    BY <1>10 DEF equipoContadorVars
  <2>2. Curso' /\ Permisos'
    BY <2>1, ContadorQuieto
  <2>3. TypeOKEquipoContador' /\ FormaContador' /\ Retirada' /\ Anuncio'
    BY <1>0, <2>1 DEF TypeOKEquipoContador, FormaContador, Retirada, Anuncio
  <2> QED BY <2>2, <2>3 DEF IndContador
<1>11. CASE NextEquipoContador
  <2>1. ASSUME NEW u \in Titulares, NEW f \in Incorporaciones, NEW m \in Miembros,
               NEW es \in SUBSET Clientes, Pedir(f, u, m, es)
        PROVE  IndContador'
    BY <1>4, <2>1
  <2>2. ASSUME NEW u \in Titulares, NEW c \in Contextos, NEW e \in Clientes, Pedir(c, u, u, {e})
        PROVE  IndContador'
    BY <1>4, <2>2
  <2>3. ASSUME NEW c \in Peticiones, GuardarEquipo(c) \/ FirmarContexto(c) \/ VencerContexto(c)
        PROVE  IndContador'
    <3>1. VencerContexto(c) => c \in Contextos
      BY <1>0 DEF VencerContexto, TypeOKEquipoContador
    <3> QED BY <1>6, <1>7, <1>8, <2>3, <3>1 DEF GuardarEquipo, FirmarContexto
  <2> QED BY <1>1, <1>2, <1>3, <1>5, <1>9, <1>11, <2>1, <2>2, <2>3 DEF NextEquipoContador
<1> QED BY <1>10, <1>11

LEMMA AccesoSiempreRespaldado == IndContador => AccesoRespaldado
<1> SUFFICES ASSUME IndContador PROVE AccesoRespaldado
  OBVIOUS
<1> USE DEF IndContador
<1>1. \A p \in retirados : DelMiembro(p[1], p[2]) \intersect filasActivas = {}
  BY DEF DelMiembro, Retirada
<1> QED BY <1>1 DEF AccesoRespaldado, Permisos, Anuncio, Respaldada

-----------------------------------------------------------------------------
(* Counting                                                                *)

LEMMA NoCrece ==
  ASSUME NEW S, IsFiniteSet(S), NEW T, T \subseteq S
  PROVE  /\ IsFiniteSet(T) /\ Cardinality(S) \in Nat /\ Cardinality(T) \in Nat
         /\ Cardinality(T) <= Cardinality(S)
BY FS_Subset, FS_CardinalityType

LEMMA UnoMas ==
  ASSUME NEW S, IsFiniteSet(S), NEW x, NEW T, T \subseteq S \union {x}
  PROVE  /\ IsFiniteSet(T) /\ Cardinality(S) \in Nat /\ Cardinality(T) \in Nat
         /\ Cardinality(T) <= Cardinality(S) + 1
<1>a. Cardinality(S) \in Nat
  BY FS_CardinalityType
<1>b. /\ IsFiniteSet(S \union {x})
      /\ Cardinality(S \union {x}) = IF x \in S THEN Cardinality(S) ELSE Cardinality(S) + 1
  BY FS_AddElement
<1>1. IsFiniteSet(S \union {x}) /\ Cardinality(S \union {x}) <= Cardinality(S) + 1
  BY <1>a, <1>b
<1>2. IsFiniteSet(T) /\ Cardinality(T) <= Cardinality(S \union {x})
  BY <1>1, NoCrece
<1>3. Cardinality(S) \in Nat /\ Cardinality(T) \in Nat /\ Cardinality(S \union {x}) \in Nat
  BY <1>1, <1>2, FS_CardinalityType
<1> QED BY <1>1, <1>2, <1>3

LEMMA UnoMenos ==
  ASSUME NEW S, IsFiniteSet(S), NEW x \in S, NEW T, T \subseteq S \ {x}
  PROVE  /\ IsFiniteSet(T) /\ Cardinality(S) \in Nat /\ Cardinality(T) \in Nat
         /\ Cardinality(T) + 1 <= Cardinality(S)
<1>1. IsFiniteSet(S \ {x}) /\ Cardinality(S \ {x}) = Cardinality(S) - 1
  BY FS_RemoveElement
<1>2. IsFiniteSet(T) /\ Cardinality(T) <= Cardinality(S \ {x})
  BY <1>1, NoCrece
<1>3. Cardinality(S) \in Nat /\ Cardinality(T) \in Nat
  BY <1>2, FS_CardinalityType
<1> QED BY <1>1, <1>2, <1>3

LEMMA UnaNueva ==
  ASSUME NEW S, IsFiniteSet(S), NEW x, x \notin S
  PROVE  /\ IsFiniteSet(S \union {x}) /\ Cardinality(S) \in Nat
         /\ Cardinality(S \union {x}) = Cardinality(S) + 1
BY FS_AddElement, FS_CardinalityType

LEMMA Imagen ==
  ASSUME NEW S, IsFiniteSet(S), NEW f, NEW T, T \subseteq {f[x] : x \in S}
  PROVE  /\ IsFiniteSet(T) /\ Cardinality(S) \in Nat /\ Cardinality(T) \in Nat
         /\ Cardinality(T) <= Cardinality(S)
<1> DEFINE g == [x \in S |-> f[x]]
           I == {f[x] : x \in S}
<1>1. g \in Surjection(S, I)
  BY DEF Surjection
<1> HIDE DEF g, I
<1>2. IsFiniteSet(I) /\ Cardinality(I) <= Cardinality(S)
  BY <1>1, FS_Surjection
<1>3. IsFiniteSet(T) /\ Cardinality(T) <= Cardinality(I)
  BY <1>2, NoCrece DEF I
<1>4. Cardinality(S) \in Nat /\ Cardinality(I) \in Nat /\ Cardinality(T) \in Nat
  BY <1>2, <1>3, FS_CardinalityType
<1> QED BY <1>2, <1>3, <1>4

-----------------------------------------------------------------------------
(* The devices of a plan                                                   *)

USE DEF LlamadasEquipo

Insertando == {c \in Registros : pasoEquipo[c] = "insertar"}

\* What a call has read, and when it goes into the history.
TiposEquipos ==
  /\ TypeOKEquipos
  /\ \A c \in LlamadasEquipo : pasoEquipo[c] \notin {"reposo", "fin"} => maquinaDe[c] \in Maquinas
  /\ \A c \in LlamadasEquipo : pasoEquipo[c] = "reactivar" => equipo[maquinaDe[c]] # "ninguno"
  /\ limite <= limiteMayor /\ \A c \in Registros : limiteLeido[c] <= limiteMayor
  /\ \A c \in reactivados : pasoEquipo[c] = "fin"
  /\ \A c \in coladas : pasoEquipo[c] \in {"insertar", "fin"}

\* The rows that are active or about to be are within the limit, as in EquiposAcotados.
EquiposContados ==
  /\ IsFiniteSet(EquiposActivos) /\ IsFiniteSet(Insertando)
  /\ IsFiniteSet(reactivados) /\ IsFiniteSet(coladas)
  /\ Cardinality(EquiposActivos) + Cardinality(Insertando) <=
       limiteMayor + Cardinality(reactivados) + Cardinality(coladas)

IndEquipos == TiposEquipos /\ EquiposContados

LEMMA InicioEquipos == ASSUME InitEquipos PROVE IndEquipos
<1> USE EquiposAssumption DEF InitEquipos
<1>1. TiposEquipos
  BY DEF TiposEquipos, TypeOKEquipos
<1>2. EquiposActivos = {} /\ Insertando = {}
  BY DEF EquiposActivos, Insertando
<1> QED BY <1>1, <1>2, FS_EmptySet DEF IndEquipos, EquiposContados

\* Calls and rows that stay as they were, but for call c and machine m, stay counted.
LEMMA CupoTrasPaso ==
  ASSUME EquiposContados, limiteMayor \in Nat,
         EquiposActivos' \subseteq EquiposActivos, Insertando' \subseteq Insertando,
         UNCHANGED <<limiteMayor, reactivados, coladas>>
  PROVE  EquiposContados'
<1>1. /\ IsFiniteSet(EquiposActivos') /\ Cardinality(EquiposActivos') <= Cardinality(EquiposActivos)
      /\ IsFiniteSet(Insertando') /\ Cardinality(Insertando') <= Cardinality(Insertando)
      /\ Cardinality(EquiposActivos') \in Nat /\ Cardinality(Insertando') \in Nat
      /\ Cardinality(EquiposActivos) \in Nat /\ Cardinality(Insertando) \in Nat
  BY NoCrece DEF EquiposContados
<1>2. Cardinality(reactivados) \in Nat /\ Cardinality(coladas) \in Nat
  BY FS_CardinalityType DEF EquiposContados
<1> QED BY <1>1, <1>2 DEF EquiposContados

LEMMA PasoEquipos ==
  ASSUME IndEquipos, [NextEquipos]_equipoVars
  PROVE  IndEquipos'
<1> USE EquiposAssumption DEF PasarEquipo
<1>0. TiposEquipos /\ TypeOKEquipos /\ EquiposContados /\ limiteMayor \in Nat
  BY DEF IndEquipos, TiposEquipos, TypeOKEquipos
<1>a. /\ IsFiniteSet(EquiposActivos) /\ IsFiniteSet(Insertando)
      /\ IsFiniteSet(reactivados) /\ IsFiniteSet(coladas)
  BY <1>0 DEF EquiposContados
<1>b. /\ Cardinality(EquiposActivos) \in Nat /\ Cardinality(Insertando) \in Nat
      /\ Cardinality(reactivados) \in Nat /\ Cardinality(coladas) \in Nat
  BY <1>a, FS_CardinalityType
\* A call c that only goes on, or ends.
<1>1. ASSUME NEW c \in LlamadasEquipo, NEW p \in {"buscar", "reactivar", "contar", "retirar", "fin"},
             pasoEquipo' = [pasoEquipo EXCEPT ![c] = p],
             UNCHANGED <<limiteMayor, reactivados, coladas>>,
             \A m \in Maquinas : equipo'[m] = "activo" => equipo[m] = "activo"
      PROVE  EquiposContados'
  <2>1. EquiposActivos' \subseteq EquiposActivos
    BY <1>1 DEF EquiposActivos
  <2>2. Insertando' \subseteq Insertando
    BY <1>0, <1>1 DEF Insertando, TypeOKEquipos
  <2> QED BY <1>0, <1>1, <2>1, <2>2, CupoTrasPaso
<1>2. ASSUME NEW c \in Registros, NEW m \in Maquinas, LeerPlanEquipo(c, m)
      PROVE  IndEquipos'
  <2>1. TiposEquipos'
    BY <1>0, <1>2 DEF LeerPlanEquipo, TiposEquipos, TypeOKEquipos
  <2>2. EquiposContados'
    BY <1>1, <1>2 DEF LeerPlanEquipo
  <2> QED BY <2>1, <2>2 DEF IndEquipos
<1>3. ASSUME NEW c \in Registros, BuscarEquipo(c)
      PROVE  IndEquipos'
  <2>1. TiposEquipos'
    BY <1>0, <1>3 DEF BuscarEquipo, TiposEquipos, TypeOKEquipos
  <2>2. EquiposContados'
    BY <1>1, <1>3 DEF BuscarEquipo
  <2> QED BY <2>1, <2>2 DEF IndEquipos
<1>4. ASSUME NEW c \in Registros, ReactivarEquipo(c)
      PROVE  IndEquipos'
  <2> DEFINE m == maquinaDe[c]
  <2>1. /\ pasoEquipo[c] = "reactivar" /\ m \in Maquinas /\ equipo[m] # "ninguno"
        /\ equipo' = [equipo EXCEPT ![m] = "activo"]
        /\ reactivados' = IF equipo[m] = "inactivo" THEN reactivados \union {c} ELSE reactivados
        /\ pasoEquipo' = [pasoEquipo EXCEPT ![c] = "fin"]
        /\ UNCHANGED <<limite, maquinaDe, limiteLeido, limiteMayor, coladas>>
    BY <1>0, <1>4 DEF ReactivarEquipo, TiposEquipos
  <2>2. TiposEquipos'
    BY <1>0, <2>1 DEF TiposEquipos, TypeOKEquipos
  <2>3. EquiposContados'
    <3>1. CASE equipo[m] = "activo"
      BY <1>0, <1>1, <2>1, <3>1 DEF TypeOKEquipos
    <3>2. CASE equipo[m] = "inactivo"
      <4>1. c \notin reactivados /\ reactivados' = reactivados \union {c}
        BY <1>0, <2>1, <3>2 DEF TiposEquipos
      <4>2. /\ IsFiniteSet(reactivados')
            /\ Cardinality(reactivados') = Cardinality(reactivados) + 1
        BY <1>a, <4>1, UnaNueva
      <4>3. EquiposActivos' \subseteq EquiposActivos \union {m} /\ Insertando' \subseteq Insertando
        BY <1>0, <2>1 DEF EquiposActivos, Insertando, TypeOKEquipos
      <4>4. /\ IsFiniteSet(EquiposActivos') /\ Cardinality(EquiposActivos') \in Nat
            /\ Cardinality(EquiposActivos') <= Cardinality(EquiposActivos) + 1
        BY <1>a, <4>3, UnoMas
      <4>5. /\ IsFiniteSet(Insertando') /\ Cardinality(Insertando') \in Nat
            /\ Cardinality(Insertando') <= Cardinality(Insertando)
        BY <1>a, <4>3, NoCrece
      <4> QED BY <1>0, <1>a, <1>b, <2>1, <4>2, <4>4, <4>5 DEF EquiposContados
    <3> QED BY <1>0, <2>1, <3>1, <3>2 DEF TypeOKEquipos
  <2> QED BY <2>2, <2>3 DEF IndEquipos
<1>5. ASSUME NEW c \in Registros, ContarEquipos(c)
      PROVE  IndEquipos'
  <2>1. /\ pasoEquipo[c] = "contar"
        /\ pasoEquipo' = [pasoEquipo EXCEPT ![c] = IF Cabe(c) THEN "insertar" ELSE "fin"]
        /\ coladas' = IF Cabe(c) /\ Insertando # {} THEN coladas \union {c} ELSE coladas
        /\ UNCHANGED <<limite, equipo, maquinaDe, limiteLeido, limiteMayor, reactivados>>
    BY <1>5 DEF ContarEquipos, Insertando
  <2>2. TiposEquipos'
    BY <1>0, <2>1 DEF TiposEquipos, TypeOKEquipos
  <2>3. EquiposContados'
    <3>1. CASE ~Cabe(c)
      BY <1>1, <2>1, <3>1
    <3>2. CASE Cabe(c)
      <4>1. EquiposActivos' = EquiposActivos /\ Insertando' \subseteq Insertando \union {c}
        BY <1>0, <2>1 DEF EquiposActivos, Insertando, TypeOKEquipos
      <4>2. /\ IsFiniteSet(Insertando') /\ Cardinality(Insertando') \in Nat
            /\ Cardinality(Insertando') <= Cardinality(Insertando) + 1
        BY <1>a, <4>1, UnoMas
      <4>3. CASE Insertando # {}
        <5>1. c \notin coladas /\ coladas' = coladas \union {c}
          BY <1>0, <2>1, <3>2, <4>3 DEF TiposEquipos
        <5>2. IsFiniteSet(coladas') /\ Cardinality(coladas') = Cardinality(coladas) + 1
          BY <1>a, <5>1, UnaNueva
        <5> QED BY <1>0, <1>a, <1>b, <2>1, <4>1, <4>2, <5>2 DEF EquiposContados
      <4>4. CASE Insertando = {}
        <5>1. Cardinality(Insertando') <= 1
          BY <4>2, <4>4, FS_EmptySet
        <5>2. limiteLeido[c] <= limiteMayor /\ limiteLeido[c] \in Nat
          BY <1>0 DEF TiposEquipos, TypeOKEquipos
        <5>3. Cardinality(EquiposActivos) + 1 <= limiteMayor
          BY <1>0, <1>b, <3>2, <5>2 DEF Cabe
        <5>4. coladas' = coladas
          BY <2>1, <4>4
        <5> QED BY <1>0, <1>a, <1>b, <2>1, <4>1, <4>2, <5>1, <5>3, <5>4 DEF EquiposContados
      <4> QED BY <4>3, <4>4
    <3> QED BY <3>1, <3>2
  <2> QED BY <2>2, <2>3 DEF IndEquipos
<1>6. ASSUME NEW c \in Registros, InsertarEquipo(c)
      PROVE  IndEquipos'
  <2>1. /\ pasoEquipo[c] = "insertar" /\ maquinaDe[c] \in Maquinas
        /\ equipo' = [equipo EXCEPT ![maquinaDe[c]] = IF equipo[maquinaDe[c]] = "ninguno"
                                                      THEN "activo" ELSE equipo[maquinaDe[c]]]
        /\ pasoEquipo' = [pasoEquipo EXCEPT ![c] = "fin"]
        /\ UNCHANGED <<limite, maquinaDe, limiteLeido, limiteMayor, reactivados, coladas>>
    BY <1>0, <1>6 DEF InsertarEquipo, TiposEquipos
  <2>2. TiposEquipos'
    BY <1>0, <2>1 DEF TiposEquipos, TypeOKEquipos
  <2>3. EquiposContados'
    <3>1. /\ EquiposActivos' \subseteq EquiposActivos \union {maquinaDe[c]}
          /\ c \in Insertando /\ Insertando' \subseteq Insertando \ {c}
      BY <1>0, <2>1 DEF EquiposActivos, Insertando, TypeOKEquipos
    <3>2. /\ IsFiniteSet(EquiposActivos') /\ Cardinality(EquiposActivos') \in Nat
          /\ Cardinality(EquiposActivos') <= Cardinality(EquiposActivos) + 1
      BY <1>a, <3>1, UnoMas
    <3>3. /\ IsFiniteSet(Insertando') /\ Cardinality(Insertando') \in Nat
          /\ Cardinality(Insertando') + 1 <= Cardinality(Insertando)
      BY <1>a, <3>1, UnoMenos
    <3> QED BY <1>0, <1>a, <1>b, <2>1, <3>2, <3>3 DEF EquiposContados
  <2> QED BY <2>2, <2>3 DEF IndEquipos
<1>7. ASSUME NEW c \in Retiros, NEW m \in Maquinas, LeerRetiro(c, m)
      PROVE  IndEquipos'
  <2>1. TiposEquipos'
    BY <1>0, <1>7 DEF LeerRetiro, TiposEquipos, TypeOKEquipos
  <2>2. EquiposContados'
    BY <1>1, <1>7 DEF LeerRetiro
  <2> QED BY <2>1, <2>2 DEF IndEquipos
<1>8. ASSUME NEW c \in Retiros, RetirarEquipo(c)
      PROVE  IndEquipos'
  <2>1. TiposEquipos'
    BY <1>0, <1>8 DEF RetirarEquipo, TiposEquipos, TypeOKEquipos
  <2>2. \A m \in Maquinas : equipo'[m] = "activo" => equipo[m] = "activo"
    BY <1>0, <1>8 DEF RetirarEquipo, TypeOKEquipos
  <2>3. EquiposContados'
    BY <1>1, <1>8, <2>2 DEF RetirarEquipo
  <2> QED BY <2>1, <2>3 DEF IndEquipos
<1>9. ASSUME NEW n \in 0 .. MaxLimite, CambiarLimite(n)
      PROVE  IndEquipos'
  <2>1. TiposEquipos' /\ limiteMayor' \in Nat /\ limiteMayor <= limiteMayor'
    BY <1>0, <1>9 DEF CambiarLimite, TiposEquipos, TypeOKEquipos
  <2>2. EquiposActivos' = EquiposActivos /\ Insertando' = Insertando
        /\ UNCHANGED <<reactivados, coladas>>
    BY <1>9 DEF CambiarLimite, EquiposActivos, Insertando
  <2>3. EquiposContados'
    BY <1>0, <1>a, <1>b, <2>1, <2>2 DEF EquiposContados
  <2> QED BY <2>1, <2>3 DEF IndEquipos
<1>10. ASSUME NEW c \in LlamadasEquipo, InterrumpirEquipo(c)
       PROVE  IndEquipos'
  <2>1. TiposEquipos'
    BY <1>0, <1>10 DEF InterrumpirEquipo, TiposEquipos, TypeOKEquipos
  <2>2. EquiposContados'
    BY <1>1, <1>10 DEF InterrumpirEquipo
  <2> QED BY <2>1, <2>2 DEF IndEquipos
<1>11. CASE UNCHANGED equipoVars
  BY <1>0, <1>11 DEF equipoVars, IndEquipos, TiposEquipos, TypeOKEquipos, EquiposContados,
                     EquiposActivos, Insertando
<1> QED
  BY <1>2, <1>3, <1>4, <1>5, <1>6, <1>7, <1>8, <1>9, <1>10, <1>11 DEF NextEquipos

\* The devices that are active exceed what the plan ever allowed by the reactivations and
\* by the registrations that counted too early, whatever the plan and the calls.
LEMMA EquiposSiempreAcotados == IndEquipos => EquiposAcotados
<1> SUFFICES ASSUME IndEquipos PROVE EquiposAcotados
  OBVIOUS
<1>1. /\ Cardinality(EquiposActivos) \in Nat /\ Cardinality(Insertando) \in Nat
      /\ Cardinality(reactivados) \in Nat /\ Cardinality(coladas) \in Nat /\ limiteMayor \in Nat
  BY FS_CardinalityType DEF IndEquipos, EquiposContados, TiposEquipos, TypeOKEquipos
<1> QED BY <1>1 DEF IndEquipos, EquiposContados, EquiposAcotados

-----------------------------------------------------------------------------
(* The API keys of a company                                               *)

USE DEF Llaves, LlamadasLlave

LlavesActivas == {k \in Llaves : llave[k] = "activa"}
LlavesCreadas == {k \in Creaciones : llave[k] # "ninguna"}

\* Rotations that may still insert a key in exchange for one that is not active, or for
\* one that another rotation exchanges.
PorEmitir ==
  {c \in Rotaciones : /\ pasoLlave[c] \in {"revocar", "emitir"}
                      /\ c \in repetidas \/ llave[llaveDe[c]] = "revocada"}

\* What a call has read, and that a rotation has not inserted its key before it ends.
TiposLlaves ==
  /\ TypeOKLlaves
  /\ \A c \in LlamadasLlave : llaveDe[c] # SinLlave => llave[llaveDe[c]] # "ninguna"
  /\ \A c \in LlamadasLlave : pasoLlave[c] \in {"revocar", "emitir"} => llaveDe[c] \in Llaves
  /\ \A c \in LlamadasLlave : pasoLlave[c] = "reposo" => llaveDe[c] = SinLlave /\ c \notin repetidas
  /\ \A c \in LlamadasLlave : pasoLlave[c] = "emitir" =>
       c \in Rotaciones /\ llave[llaveDe[c]] = "revocada"
  /\ \A c \in Rotaciones : pasoLlave[c] # "fin" => llave[c] = "ninguna"

\* All the rotations of a key but one are repetidas.
UnaPorLlave ==
  \A c, d \in Rotaciones \ repetidas : llaveDe[c] # SinLlave /\ llaveDe[c] = llaveDe[d] => c = d

\* The keys that are active or about to be are within LlavesAcotadas.
LlavesContadas ==
  /\ IsFiniteSet(LlavesActivas) /\ IsFiniteSet(PorEmitir)
  /\ IsFiniteSet(LlavesCreadas) /\ IsFiniteSet(repetidas)
  /\ Cardinality(LlavesActivas) + Cardinality(PorEmitir) <=
       Cardinality(LlavesCreadas) + Cardinality(repetidas)

IndLlaves == TiposLlaves /\ UnaPorLlave /\ LlavesContadas

LEMMA InicioLlaves == ASSUME InitLlaves PROVE IndLlaves
<1> USE LlavesAssumption DEF InitLlaves
<1>1. TiposLlaves /\ UnaPorLlave
  BY DEF TiposLlaves, TypeOKLlaves, UnaPorLlave
<1>2. LlavesActivas = {} /\ LlavesCreadas = {} /\ PorEmitir = {}
  BY DEF LlavesActivas, LlavesCreadas, PorEmitir
<1> QED BY <1>1, <1>2, FS_EmptySet DEF IndLlaves, LlavesContadas

LEMMA PasoTiposLlaves ==
  ASSUME TiposLlaves, UnaPorLlave, [NextLlaves]_llaveVars
  PROVE  TiposLlaves' /\ UnaPorLlave'
<1> USE LlavesAssumption DEF PasarLlave, TiposLlaves, TypeOKLlaves
<1>1. ASSUME NEW k \in Creaciones, CrearLlave(k)
      PROVE  TiposLlaves' /\ UnaPorLlave'
  <2>1. TiposLlaves'
    BY <1>1 DEF CrearLlave
  <2> QED BY <1>1, <2>1 DEF CrearLlave, UnaPorLlave
<1>2. ASSUME NEW c \in LlamadasLlave, NEW k \in Llaves, LeerLlave(c, k)
      PROVE  TiposLlaves' /\ UnaPorLlave'
  <2>1. TiposLlaves'
    BY <1>2 DEF LeerLlave
  <2>2. UnaPorLlave'
    <3>1. llaveDe'[c] = k /\ \A d \in LlamadasLlave : d # c => llaveDe'[d] = llaveDe[d]
      BY <1>2 DEF LeerLlave
    <3>2. ASSUME c \in Rotaciones \ repetidas', NEW d \in Rotaciones, llaveDe[d] = k
          PROVE  d = c
      BY <1>2, <3>2 DEF LeerLlave
    <3>3. repetidas \subseteq repetidas'
      BY <1>2 DEF LeerLlave
    <3> QED BY <3>1, <3>2, <3>3 DEF UnaPorLlave
  <2> QED BY <2>1, <2>2
<1>3. ASSUME NEW c \in LlamadasLlave, RevocarLlave(c)
      PROVE  TiposLlaves' /\ UnaPorLlave'
  <2>1. TiposLlaves'
    BY <1>3 DEF RevocarLlave, EstadoTras
  <2> QED BY <1>3, <2>1 DEF RevocarLlave, UnaPorLlave
<1>4. ASSUME NEW c \in LlamadasLlave, EmitirLlave(c)
      PROVE  TiposLlaves' /\ UnaPorLlave'
  <2>1. TiposLlaves'
    BY <1>4 DEF EmitirLlave
  <2> QED BY <1>4, <2>1 DEF EmitirLlave, UnaPorLlave
<1>5. ASSUME NEW c \in LlamadasLlave, InterrumpirLlave(c)
      PROVE  TiposLlaves' /\ UnaPorLlave'
  <2>1. TiposLlaves'
    BY <1>5 DEF InterrumpirLlave
  <2> QED BY <1>5, <2>1 DEF InterrumpirLlave, UnaPorLlave
<1>6. CASE UNCHANGED llaveVars
  BY <1>6 DEF llaveVars, UnaPorLlave
<1> QED BY <1>1, <1>2, <1>3, <1>4, <1>5, <1>6 DEF NextLlaves

LEMMA PasoLlaves ==
  ASSUME IndLlaves, [NextLlaves]_llaveVars
  PROVE  IndLlaves'
<1> USE LlavesAssumption DEF PasarLlave
<1>0. TiposLlaves /\ TypeOKLlaves /\ UnaPorLlave /\ LlavesContadas
  BY DEF IndLlaves, TiposLlaves
<1>a. /\ IsFiniteSet(LlavesActivas) /\ IsFiniteSet(PorEmitir)
      /\ IsFiniteSet(LlavesCreadas) /\ IsFiniteSet(repetidas)
  BY <1>0 DEF LlavesContadas
<1>b. /\ Cardinality(LlavesActivas) \in Nat /\ Cardinality(PorEmitir) \in Nat
      /\ Cardinality(LlavesCreadas) \in Nat /\ Cardinality(repetidas) \in Nat
      /\ Cardinality(LlavesActivas) + Cardinality(PorEmitir) <=
           Cardinality(LlavesCreadas) + Cardinality(repetidas)
  BY <1>0, <1>a, FS_CardinalityType DEF LlavesContadas
<1>1. ASSUME NEW k \in Creaciones, CrearLlave(k)
      PROVE  LlavesContadas'
  <2>1. /\ llave[k] = "ninguna" /\ llave' = [llave EXCEPT ![k] = "activa"]
        /\ UNCHANGED <<pasoLlave, llaveDe, repetidas>>
    BY <1>1 DEF CrearLlave
  <2>2. /\ LlavesActivas' \subseteq LlavesActivas \union {k} /\ PorEmitir' \subseteq PorEmitir
        /\ k \notin LlavesCreadas /\ LlavesCreadas' = LlavesCreadas \union {k}
    BY <1>0, <2>1 DEF LlavesActivas, LlavesCreadas, PorEmitir, TypeOKLlaves, TiposLlaves
  <2>3. /\ IsFiniteSet(LlavesActivas') /\ Cardinality(LlavesActivas') \in Nat
        /\ Cardinality(LlavesActivas') <= Cardinality(LlavesActivas) + 1
    BY <1>a, <2>2, UnoMas
  <2>4. /\ IsFiniteSet(PorEmitir') /\ Cardinality(PorEmitir') \in Nat
        /\ Cardinality(PorEmitir') <= Cardinality(PorEmitir)
    BY <1>a, <2>2, NoCrece
  <2>5. /\ IsFiniteSet(LlavesCreadas') /\ Cardinality(LlavesCreadas') = Cardinality(LlavesCreadas) + 1
    BY <1>a, <2>2, UnaNueva
  <2> QED BY <1>a, <1>b, <2>1, <2>3, <2>4, <2>5 DEF LlavesContadas
<1>2. ASSUME NEW c \in LlamadasLlave, NEW k \in Llaves, LeerLlave(c, k)
      PROVE  LlavesContadas'
  <2>1. /\ pasoLlave[c] = "reposo" /\ llave[k] # "ninguna" /\ llaveDe' = [llaveDe EXCEPT ![c] = k]
        /\ pasoLlave' = [pasoLlave EXCEPT ![c] = "revocar"] /\ UNCHANGED llave
        /\ \/ c \in Rotaciones /\ repetidas' = repetidas \union {c}
           \/ repetidas' = repetidas /\ (c \in Rotaciones => llave[k] # "revocada")
    BY <1>2 DEF LeerLlave
  <2>2. /\ LlavesActivas' = LlavesActivas /\ LlavesCreadas' = LlavesCreadas
        /\ c \notin repetidas
    BY <1>0, <2>1 DEF LlavesActivas, LlavesCreadas, TiposLlaves
  <2>3. CASE repetidas' = repetidas \union {c}
    <3>1. PorEmitir' \subseteq PorEmitir \union {c}
      BY <1>0, <2>1, <2>3 DEF PorEmitir, TypeOKLlaves
    <3>2. /\ IsFiniteSet(PorEmitir') /\ Cardinality(PorEmitir') \in Nat
          /\ Cardinality(PorEmitir') <= Cardinality(PorEmitir) + 1
      BY <1>a, <3>1, UnoMas
    <3>3. IsFiniteSet(repetidas') /\ Cardinality(repetidas') = Cardinality(repetidas) + 1
      BY <1>a, <2>2, <2>3, UnaNueva
    <3> QED BY <1>a, <1>b, <2>2, <3>2, <3>3 DEF LlavesContadas
  <2>4. CASE repetidas' = repetidas /\ (c \in Rotaciones => llave[k] # "revocada")
    <3>1. PorEmitir' \subseteq PorEmitir
      BY <1>0, <2>1, <2>2, <2>4 DEF PorEmitir, TypeOKLlaves
    <3>2. /\ IsFiniteSet(PorEmitir') /\ Cardinality(PorEmitir') \in Nat
          /\ Cardinality(PorEmitir') <= Cardinality(PorEmitir)
      BY <1>a, <3>1, NoCrece
    <3> QED BY <1>a, <1>b, <2>2, <2>4, <3>2 DEF LlavesContadas
  <2> QED BY <2>1, <2>3, <2>4
<1>3. ASSUME NEW c \in LlamadasLlave, RevocarLlave(c)
      PROVE  LlavesContadas'
  <2> DEFINE k == llaveDe[c]
  <2>1. /\ pasoLlave[c] = "revocar" /\ k \in Llaves /\ llave[k] # "ninguna"
        /\ llave' = [llave EXCEPT ![k] = "revocada"]
        /\ pasoLlave' = [pasoLlave EXCEPT ![c] = IF c \in Rotaciones THEN "emitir" ELSE "fin"]
        /\ UNCHANGED <<llaveDe, repetidas>>
    BY <1>0, <1>3 DEF RevocarLlave, EstadoTras, TiposLlaves
  <2>2. LlavesCreadas' = LlavesCreadas
    BY <1>0, <2>1 DEF LlavesCreadas, TypeOKLlaves
  <2>3. \A d \in Rotaciones : pasoLlave'[d] \in {"revocar", "emitir"} =>
          pasoLlave[d] \in {"revocar", "emitir"}
    BY <1>0, <2>1 DEF TypeOKLlaves
  <2>4. CASE llave[k] = "revocada"
    <3>1. LlavesActivas' \subseteq LlavesActivas /\ PorEmitir' \subseteq PorEmitir
      BY <1>0, <2>1, <2>3, <2>4 DEF LlavesActivas, PorEmitir, TypeOKLlaves
    <3>2. /\ IsFiniteSet(LlavesActivas') /\ Cardinality(LlavesActivas') \in Nat
          /\ Cardinality(LlavesActivas') <= Cardinality(LlavesActivas)
      BY <1>a, <3>1, NoCrece
    <3>3. /\ IsFiniteSet(PorEmitir') /\ Cardinality(PorEmitir') \in Nat
          /\ Cardinality(PorEmitir') <= Cardinality(PorEmitir)
      BY <1>a, <3>1, NoCrece
    <3> QED BY <1>a, <1>b, <2>1, <2>2, <3>2, <3>3 DEF LlavesContadas
  <2>5. CASE llave[k] = "activa"
    <3>1. k \in LlavesActivas /\ LlavesActivas' \subseteq LlavesActivas \ {k}
      BY <1>0, <2>1, <2>5 DEF LlavesActivas, TypeOKLlaves
    <3>2. /\ IsFiniteSet(LlavesActivas') /\ Cardinality(LlavesActivas') \in Nat
          /\ Cardinality(LlavesActivas') + 1 <= Cardinality(LlavesActivas)
      BY <1>a, <3>1, UnoMenos
    <3>3. \E x : PorEmitir' \subseteq PorEmitir \union {x}
      <4>1. ASSUME NEW d \in PorEmitir', d \notin PorEmitir
            PROVE  d \in Rotaciones \ repetidas /\ llaveDe[d] = k
        BY <1>0, <2>1, <2>3, <4>1 DEF PorEmitir, TypeOKLlaves
      <4>2. CASE \E x \in Rotaciones \ repetidas : llaveDe[x] = k
        <5>1. PICK x \in Rotaciones \ repetidas : llaveDe[x] = k
          BY <4>2
        <5>2. \A d \in Rotaciones \ repetidas : llaveDe[d] = k => d = x
          BY <1>0, <2>1, <5>1 DEF UnaPorLlave
        <5> QED BY <4>1, <5>2
      <4>3. CASE ~ \E x \in Rotaciones \ repetidas : llaveDe[x] = k
        BY <4>1, <4>3
      <4> QED BY <4>2, <4>3
    <3>4. /\ IsFiniteSet(PorEmitir') /\ Cardinality(PorEmitir') \in Nat
          /\ Cardinality(PorEmitir') <= Cardinality(PorEmitir) + 1
      BY <1>a, <3>3, UnoMas
    <3> QED BY <1>a, <1>b, <2>1, <2>2, <3>2, <3>4 DEF LlavesContadas
  <2> QED BY <1>0, <2>1, <2>4, <2>5 DEF TypeOKLlaves
<1>4. ASSUME NEW c \in LlamadasLlave, EmitirLlave(c)
      PROVE  LlavesContadas'
  <2>1. /\ pasoLlave[c] = "emitir" /\ c \in Rotaciones /\ llave[llaveDe[c]] = "revocada"
        /\ llave' = [llave EXCEPT ![c] = "activa"]
        /\ pasoLlave' = [pasoLlave EXCEPT ![c] = "fin"] /\ UNCHANGED <<llaveDe, repetidas>>
    BY <1>0, <1>4 DEF EmitirLlave, TiposLlaves
  <2>2. /\ LlavesCreadas' = LlavesCreadas /\ LlavesActivas' \subseteq LlavesActivas \union {c}
        /\ c \in PorEmitir /\ PorEmitir' \subseteq PorEmitir \ {c}
    BY <1>0, <2>1 DEF LlavesCreadas, LlavesActivas, PorEmitir, TypeOKLlaves
  <2>3. /\ IsFiniteSet(LlavesActivas') /\ Cardinality(LlavesActivas') \in Nat
        /\ Cardinality(LlavesActivas') <= Cardinality(LlavesActivas) + 1
    BY <1>a, <2>2, UnoMas
  <2>4. /\ IsFiniteSet(PorEmitir') /\ Cardinality(PorEmitir') \in Nat
        /\ Cardinality(PorEmitir') + 1 <= Cardinality(PorEmitir)
    BY <1>a, <2>2, UnoMenos
  <2> QED BY <1>a, <1>b, <2>1, <2>2, <2>3, <2>4 DEF LlavesContadas
<1>5. ASSUME NEW c \in LlamadasLlave, InterrumpirLlave(c)
      PROVE  LlavesContadas'
  <2>1. /\ LlavesActivas' = LlavesActivas /\ LlavesCreadas' = LlavesCreadas /\ repetidas' = repetidas
        /\ PorEmitir' \subseteq PorEmitir
    BY <1>0, <1>5 DEF InterrumpirLlave, LlavesActivas, LlavesCreadas, PorEmitir, TypeOKLlaves
  <2>2. /\ IsFiniteSet(PorEmitir') /\ Cardinality(PorEmitir') \in Nat
        /\ Cardinality(PorEmitir') <= Cardinality(PorEmitir)
    BY <1>a, <2>1, NoCrece
  <2> QED BY <1>a, <1>b, <2>1, <2>2 DEF LlavesContadas
<1>6. ASSUME UNCHANGED llaveVars
      PROVE  LlavesContadas'
  <2>1. /\ LlavesActivas' = LlavesActivas /\ LlavesCreadas' = LlavesCreadas /\ repetidas' = repetidas
        /\ PorEmitir' = PorEmitir
    BY <1>6 DEF llaveVars, LlavesActivas, LlavesCreadas, PorEmitir
  <2> QED BY <1>0, <2>1 DEF LlavesContadas
<1>7. TiposLlaves' /\ UnaPorLlave'
  BY <1>0, PasoTiposLlaves
<1> QED BY <1>1, <1>2, <1>3, <1>4, <1>5, <1>6, <1>7 DEF NextLlaves, IndLlaves

\* The active keys are at most those the company created and the rotations of a key that
\* was revoked or read before.
LEMMA LlavesSiempreAcotadas == IndLlaves => LlavesAcotadas
<1> SUFFICES ASSUME IndLlaves PROVE LlavesAcotadas
  OBVIOUS
<1>1. /\ Cardinality(LlavesActivas) \in Nat /\ Cardinality(PorEmitir) \in Nat
      /\ Cardinality(LlavesCreadas) \in Nat /\ Cardinality(repetidas) \in Nat
  BY FS_CardinalityType DEF IndLlaves, LlavesContadas
<1>2. Cardinality(LlavesActivas) <= Cardinality(LlavesCreadas) + Cardinality(repetidas)
  BY <1>1 DEF IndLlaves, LlavesContadas
<1> QED BY <1>2 DEF LlavesAcotadas, LlavesActivas, LlavesCreadas

-----------------------------------------------------------------------------
(* The sessions of a login                                                 *)

USE DEF filasVars, llamadaVars, historiaSesion, Llamadas, Fichas

FichasActivas == {t \in Fichas : ficha[t].estado = "activo"}
Lectoras == UNION {lectoras[t] : t \in Fichas}
FichasLeidas == {t \in Fichas : lectoras[t] # {}}
SinLeer == FichasActivas \ FichasLeidas

\* Refreshes that may still insert a token, or whose token is still active.
PorRenovar ==
  {c \in Lectoras : paso[c] \in {"canjear", "titular", "emitir"} \/ ficha[fichaDe[c]].estado = "activo"}

\* A refresh reads one token, and inserts its own only after the one it read is revoked.
Renovada ==
  /\ lectoras \in [Fichas -> SUBSET Renovaciones] /\ abiertas \subseteq Logins
  /\ \A t \in Fichas : \A c \in lectoras[t] : fichaDe[c] = t /\ paso[c] # "reposo"
  /\ \A c \in Llamadas : fichaDe[c] \in Fichas => ficha[fichaDe[c]].estado # "libre"
  /\ \A c \in Renovaciones : paso[c] \in {"canjear", "caducar", "titular", "emitir"} =>
       fichaDe[c] \in Fichas /\ c \in lectoras[fichaDe[c]]
  /\ \A c \in Renovaciones : paso[c] \in {"titular", "emitir"} => ficha[fichaDe[c]].estado # "activo"
  /\ \A c \in Fichas : paso[c] # "fin" => ficha[c].estado = "libre"
  /\ \A c \in Fichas : paso[c] # "fin" => c \notin abiertas

\* The tokens not yet read, and what the refreshes of the others may still insert, are
\* those of the logins and of the refreshes of a token that was read before.
FichasContadas ==
  /\ IsFiniteSet(SinLeer) /\ IsFiniteSet(Lectoras) /\ IsFiniteSet(abiertas)
  /\ Cardinality(SinLeer) + Cardinality(FichasLeidas) + Cardinality(PorRenovar) <=
       Cardinality(abiertas) + Cardinality(Lectoras)

IndFichas == Renovada /\ FichasContadas

LEMMA InicioFichas == ASSUME InitSesiones PROVE IndFichas
<1> USE SesionesAssumption DEF InitSesiones
<1>1. Renovada
  BY DEF Renovada
<1>2. FichasActivas = {} /\ Lectoras = {} /\ FichasLeidas = {}
  BY DEF FichasActivas, Lectoras, FichasLeidas
<1>3. SinLeer = {} /\ PorRenovar = {} /\ abiertas = {}
  BY <1>2 DEF SinLeer, PorRenovar
<1>4. FichasContadas
  BY ONLY <1>2, <1>3, FS_EmptySet DEF FichasContadas
<1> QED BY <1>1, <1>4 DEF IndFichas

\* A refresh has read one token, so the tokens read are no more than the refreshes.
LEMMA LeidasPorLectoras ==
  ASSUME Renovada, IsFiniteSet(Lectoras)
  PROVE  /\ IsFiniteSet(FichasLeidas) /\ Cardinality(FichasLeidas) <= Cardinality(Lectoras)
         /\ IsFiniteSet(PorRenovar)
         /\ Cardinality(FichasLeidas) \in Nat /\ Cardinality(PorRenovar) \in Nat
<1>1. FichasLeidas \subseteq {fichaDe[c] : c \in Lectoras}
  BY DEF FichasLeidas, Lectoras, Renovada
<1>2. IsFiniteSet(FichasLeidas) /\ Cardinality(FichasLeidas) <= Cardinality(Lectoras)
  BY <1>1, Imagen
<1>3. PorRenovar \subseteq Lectoras
  BY DEF PorRenovar
<1> QED BY <1>2, <1>3, NoCrece, FS_CardinalityType

\* What does not read a token, and does not insert one, leaves none more to be inserted.
LEMMA FichasQuietas ==
  ASSUME TypeOKSesiones, IndFichas, UNCHANGED <<lectoras, abiertas>>,
         \A c \in Renovaciones : fichaDe'[c] = fichaDe[c],
         \A c \in Llamadas : fichaDe'[c] \in Fichas =>
           fichaDe'[c] = fichaDe[c] \/ ficha[fichaDe'[c]].estado # "libre",
         \A t \in Fichas : /\ ficha'[t].estado = "activo" => ficha[t].estado = "activo"
                           /\ ficha'[t].estado = "libre" <=> ficha[t].estado = "libre",
         \A c \in Fichas : paso[c] = "fin" => paso'[c] = "fin",
         \A c \in Renovaciones :
           \/ paso'[c] = paso[c] \/ paso'[c] = "fin"
           \/ paso[c] = "titular" /\ paso'[c] = "emitir"
           \/ /\ paso[c] = "canjear" /\ paso'[c] \in {"titular", "emitir"}
              /\ ficha'[fichaDe[c]].estado # "activo"
  PROVE  IndFichas'
<1> USE SesionesAssumption
<1>0. Renovada /\ FichasContadas
  BY DEF IndFichas
<1>1. Lectoras \subseteq Renovaciones /\ \A c \in Lectoras : fichaDe[c] \in Fichas
  BY <1>0 DEF Renovada, Lectoras
<1>2. Renovada'
  BY <1>0 DEF Renovada
<1>3. Lectoras' = Lectoras /\ FichasLeidas' = FichasLeidas
  BY DEF Lectoras, FichasLeidas
<1>4. SinLeer' \subseteq SinLeer /\ PorRenovar' \subseteq PorRenovar
  BY <1>0, <1>1, <1>3 DEF SinLeer, FichasActivas, PorRenovar
<1>5. /\ IsFiniteSet(SinLeer') /\ Cardinality(SinLeer') <= Cardinality(SinLeer)
      /\ Cardinality(SinLeer) \in Nat /\ Cardinality(SinLeer') \in Nat
  BY <1>0, <1>4, NoCrece DEF FichasContadas
<1>6. /\ Cardinality(PorRenovar') <= Cardinality(PorRenovar)
      /\ Cardinality(PorRenovar) \in Nat /\ Cardinality(PorRenovar') \in Nat
      /\ Cardinality(FichasLeidas) \in Nat
  BY <1>0, <1>4, NoCrece, LeidasPorLectoras DEF FichasContadas
<1>7. Cardinality(abiertas) \in Nat /\ Cardinality(Lectoras) \in Nat
  BY <1>0, FS_CardinalityType DEF FichasContadas
<1>8. FichasContadas'
  BY <1>0, <1>3, <1>5, <1>6, <1>7 DEF FichasContadas
<1> QED BY <1>2, <1>8 DEF IndFichas

\* A refresh reads a token: the first one exchanges it for its own.
LEMMA FichaLeida ==
  ASSUME TypeOKSesiones, IndFichas, NEW c \in Renovaciones, NEW t \in Fichas, NEW p,
         paso[c] = "reposo", ficha[t].estado = "activo",
         p \in {"canjear", "caducar"}, paso' = [paso EXCEPT ![c] = p],
         fichaDe' = [fichaDe EXCEPT ![c] = t],
         lectoras' = [lectoras EXCEPT ![t] = @ \union {c}],
         UNCHANGED <<ficha, abiertas>>
  PROVE  IndFichas'
<1> USE SesionesAssumption
<1>0. Renovada /\ FichasContadas
  BY DEF IndFichas
<1>a. /\ paso'[c] = p /\ \A d \in Llamadas : d # c => paso'[d] = paso[d]
      /\ fichaDe'[c] = t /\ \A d \in Llamadas : d # c => fichaDe'[d] = fichaDe[d]
      /\ lectoras'[t] = lectoras[t] \union {c} /\ \A x \in Fichas : x # t => lectoras'[x] = lectoras[x]
  BY <1>0 DEF TypeOKSesiones, Renovada
<1>b. c \notin Lectoras /\ Lectoras \subseteq Renovaciones
  BY <1>0 DEF Lectoras, Renovada
<1>1. Renovada'
  <2>1. /\ lectoras' \in [Fichas -> SUBSET Renovaciones]
        /\ \A x \in Fichas : \A d \in lectoras'[x] : fichaDe'[d] = x /\ paso'[d] # "reposo"
    BY <1>0, <1>a DEF Renovada
  <2>2. \A d \in Llamadas : fichaDe'[d] \in Fichas => ficha[fichaDe'[d]].estado # "libre"
    BY <1>0, <1>a DEF Renovada
  <2>3. \A d \in Renovaciones : paso'[d] \in {"canjear", "caducar", "titular", "emitir"} =>
          fichaDe'[d] \in Fichas /\ d \in lectoras'[fichaDe'[d]]
    BY <1>0, <1>a DEF Renovada
  <2>4. \A d \in Renovaciones : paso'[d] \in {"titular", "emitir"} =>
          ficha[fichaDe'[d]].estado # "activo"
    BY <1>0, <1>a DEF Renovada
  <2>5. \A d \in Fichas : paso'[d] # "fin" => paso[d] # "fin"
    BY <1>a
  <2> QED BY <1>0, <2>1, <2>2, <2>3, <2>4, <2>5 DEF Renovada
<1>2. /\ IsFiniteSet(Lectoras) /\ Lectoras' = Lectoras \union {c} /\ Cardinality(Lectoras) \in Nat
      /\ IsFiniteSet(Lectoras') /\ Cardinality(Lectoras') = Cardinality(Lectoras) + 1
  <2>1. Lectoras' = Lectoras \union {c}
    BY <1>a DEF Lectoras
  <2> QED BY <1>0, <1>b, <2>1, UnaNueva DEF FichasContadas
<1>3. PorRenovar' \subseteq PorRenovar \union {c}
  <2>1. ASSUME NEW d \in PorRenovar', d # c
        PROVE  d \in PorRenovar
    <3>1. d \in Lectoras /\ d \in Llamadas
      BY <1>b, <1>2, <2>1 DEF PorRenovar
    <3> QED BY <1>a, <2>1, <3>1 DEF PorRenovar
  <2> QED BY <2>1
<1>4. /\ IsFiniteSet(PorRenovar) /\ IsFiniteSet(FichasLeidas) /\ IsFiniteSet(SinLeer)
      /\ Cardinality(FichasLeidas) \in Nat /\ Cardinality(SinLeer) \in Nat
      /\ Cardinality(abiertas) \in Nat /\ IsFiniteSet(abiertas)
  BY <1>0, LeidasPorLectoras, FS_CardinalityType DEF FichasContadas
<1>5. /\ Cardinality(PorRenovar) \in Nat /\ Cardinality(PorRenovar') \in Nat
      /\ Cardinality(PorRenovar') <= Cardinality(PorRenovar) + 1
  BY <1>3, <1>4, UnoMas
<1>6. FichasLeidas' = FichasLeidas \union {t} /\ FichasActivas' = FichasActivas
  BY <1>a DEF FichasLeidas, FichasActivas
<1>7. CASE t \in FichasLeidas
  <2>1. FichasLeidas' = FichasLeidas /\ SinLeer' = SinLeer
    BY <1>6, <1>7 DEF SinLeer
  <2>2. FichasContadas'
    BY <1>0, <1>2, <1>4, <1>5, <2>1 DEF FichasContadas
  <2> QED BY <1>1, <2>2 DEF IndFichas
<1>8. CASE t \notin FichasLeidas
  <2>1. Cardinality(FichasLeidas') = Cardinality(FichasLeidas) + 1
    BY <1>4, <1>6, <1>8, UnaNueva
  <2>2. t \in SinLeer /\ SinLeer' \subseteq SinLeer \ {t}
    BY <1>6, <1>8 DEF SinLeer, FichasActivas
  <2>3. /\ IsFiniteSet(SinLeer') /\ Cardinality(SinLeer') \in Nat
        /\ Cardinality(SinLeer') + 1 <= Cardinality(SinLeer)
    BY <1>4, <2>2, UnoMenos
  <2>4. FichasContadas'
    BY <1>0, <1>2, <1>4, <1>5, <2>1, <2>3 DEF FichasContadas
  <2> QED BY <1>1, <2>4 DEF IndFichas
<1> QED BY <1>7, <1>8

\* A login, or a refresh whose token is revoked, inserts its own.
LEMMA FichaEmitida ==
  ASSUME TypeOKSesiones, IndFichas, NEW c \in Fichas, NEW w, paso[c] = "emitir",
         w.estado = "activo", ficha' = [ficha EXCEPT ![c] = w],
         abiertas' = abiertas \union ({c} \intersect Logins),
         paso' = [paso EXCEPT ![c] = "fin"],
         UNCHANGED <<fichaDe, lectoras>>
  PROVE  IndFichas'
<1> USE SesionesAssumption
<1>0. Renovada /\ FichasContadas
  BY DEF IndFichas
<1>a. /\ paso'[c] = "fin" /\ \A d \in Llamadas : d # c => paso'[d] = paso[d]
      /\ ficha'[c].estado = "activo" /\ \A x \in Fichas : x # c => ficha'[x] = ficha[x]
      /\ ficha[c].estado = "libre" /\ c \notin abiertas
  BY <1>0 DEF TypeOKSesiones, Renovada
<1>b. Lectoras \subseteq Renovaciones /\ \A d \in Lectoras : fichaDe[d] \in Fichas \ {c}
  BY <1>0, <1>a DEF Lectoras, Renovada
<1>1. Renovada'
  <2>1. \A d \in Llamadas : fichaDe[d] \in Fichas => ficha'[fichaDe[d]].estado # "libre"
    BY <1>0, <1>a DEF Renovada
  <2>2. \A d \in Renovaciones : paso'[d] \in {"titular", "emitir"} =>
          ficha'[fichaDe[d]].estado # "activo"
    BY <1>0, <1>a, <1>b DEF Renovada, Lectoras
  <2>3. \A d \in Fichas : paso'[d] # "fin" => ficha'[d].estado = "libre" /\ d \notin abiertas'
    BY <1>0, <1>a DEF Renovada
  <2>4. \A d \in Llamadas : paso'[d] # "fin" => paso'[d] = paso[d]
    BY <1>a
  <2>5. abiertas' \subseteq Logins
    BY <1>0 DEF Renovada
  <2>6. \A x \in Fichas : \A d \in lectoras[x] : fichaDe[d] = x /\ paso'[d] # "reposo"
    BY <1>0, <1>a DEF Renovada
  <2> QED BY <1>0, <2>1, <2>2, <2>3, <2>4, <2>5, <2>6 DEF Renovada
<1>2. Lectoras' = Lectoras /\ FichasLeidas' = FichasLeidas /\ c \notin FichasLeidas
  BY <1>0, <1>b DEF Lectoras, FichasLeidas, Renovada
<1>3. SinLeer' \subseteq SinLeer \union {c}
  BY <1>2, <1>a DEF SinLeer, FichasActivas
<1>4. /\ IsFiniteSet(PorRenovar) /\ IsFiniteSet(SinLeer) /\ IsFiniteSet(Lectoras)
      /\ Cardinality(FichasLeidas) \in Nat /\ Cardinality(Lectoras) \in Nat
      /\ Cardinality(abiertas) \in Nat /\ IsFiniteSet(abiertas)
  BY <1>0, LeidasPorLectoras, FS_CardinalityType DEF FichasContadas
<1>5. /\ IsFiniteSet(SinLeer') /\ Cardinality(SinLeer) \in Nat /\ Cardinality(SinLeer') \in Nat
      /\ Cardinality(SinLeer') <= Cardinality(SinLeer) + 1
  BY <1>3, <1>4, UnoMas
<1>6. PorRenovar' \subseteq PorRenovar
  <2>1. ASSUME NEW d \in PorRenovar'
        PROVE  d \in PorRenovar
    <3>1. d \in Lectoras /\ d \in Llamadas /\ fichaDe[d] \in Fichas \ {c}
      BY <1>2, <1>b, <2>1 DEF PorRenovar
    <3>2. paso'[d] \in {"canjear", "titular", "emitir"} => paso'[d] = paso[d]
      BY <1>a, <3>1
    <3> QED BY <1>a, <2>1, <3>1, <3>2 DEF PorRenovar
  <2> QED BY <2>1
<1>7. CASE c \in Logins
  <2>1. abiertas' = abiertas \union {c}
    BY <1>7
  <2>2. IsFiniteSet(abiertas') /\ Cardinality(abiertas') = Cardinality(abiertas) + 1
    BY <1>4, <1>a, <2>1, UnaNueva
  <2>3. /\ Cardinality(PorRenovar) \in Nat /\ Cardinality(PorRenovar') \in Nat
        /\ Cardinality(PorRenovar') <= Cardinality(PorRenovar)
    BY <1>4, <1>6, NoCrece
  <2>4. FichasContadas'
    BY <1>0, <1>2, <1>4, <1>5, <2>2, <2>3 DEF FichasContadas
  <2> QED BY <1>1, <2>4 DEF IndFichas
<1>8. CASE c \in Renovaciones
  <2>1. IsFiniteSet(abiertas') /\ Cardinality(abiertas') = Cardinality(abiertas)
    <3>1. abiertas' = abiertas
      BY <1>8
    <3> QED BY <1>4, <3>1
  <2>2. c \in lectoras[fichaDe[c]] /\ fichaDe[c] \in Fichas /\ ficha[fichaDe[c]].estado # "activo"
    BY <1>0, <1>8 DEF Renovada
  <2>3. c \in PorRenovar /\ fichaDe[c] # c
    BY <1>b, <2>2 DEF PorRenovar, Lectoras
  <2>4. c \notin PorRenovar'
    BY <1>a, <2>2, <2>3 DEF PorRenovar
  <2>5. /\ Cardinality(PorRenovar) \in Nat /\ Cardinality(PorRenovar') \in Nat
        /\ Cardinality(PorRenovar') + 1 <= Cardinality(PorRenovar)
    <3>1. PorRenovar' \subseteq PorRenovar \ {c}
      BY <1>6, <2>4
    <3> QED BY <1>4, <2>3, <3>1, UnoMenos
  <2>6. FichasContadas'
    BY <1>0, <1>2, <1>4, <1>5, <2>1, <2>5 DEF FichasContadas
  <2> QED BY <1>1, <2>6 DEF IndFichas
<1> QED BY <1>7, <1>8

LEMMA PasoFichas ==
  ASSUME TiposSesiones, IndFichas, [NextSesiones]_sesionVars
  PROVE  IndFichas'
<1> USE SesionesAssumption DEF Pasar
<1>0. TypeOKSesiones /\ ConFilaLeida /\ Renovada
  BY DEF TiposSesiones, IndFichas
\* A call c goes on, or ends, and no token is inserted or activated.
<1>1. ASSUME NEW c \in Llamadas, NEW p, paso' = [paso EXCEPT ![c] = p], paso[c] # "fin",
             \/ c \notin Renovaciones \/ p = "fin" \/ (paso[c] = "titular" /\ p = "emitir")
             \/ paso[c] = "canjear" /\ p \in {"titular", "emitir"} /\ ficha'[fichaDe[c]].estado # "activo",
             UNCHANGED <<lectoras, abiertas>>,
             \A d \in Renovaciones : fichaDe'[d] = fichaDe[d],
             \A d \in Llamadas : fichaDe'[d] \in Fichas =>
               fichaDe'[d] = fichaDe[d] \/ ficha[fichaDe'[d]].estado # "libre",
             \A t \in Fichas : /\ ficha'[t].estado = "activo" => ficha[t].estado = "activo"
                               /\ ficha'[t].estado = "libre" <=> ficha[t].estado = "libre"
      PROVE  IndFichas'
  <2>1. paso'[c] = p /\ \A d \in Llamadas : d # c => paso'[d] = paso[d]
    BY <1>0, <1>1 DEF TypeOKSesiones
  <2>2. \A d \in Fichas : paso[d] = "fin" => paso'[d] = "fin"
    BY <1>1, <2>1
  <2>3. \A d \in Renovaciones :
           \/ paso'[d] = paso[d] \/ paso'[d] = "fin"
           \/ paso[d] = "titular" /\ paso'[d] = "emitir"
           \/ /\ paso[d] = "canjear" /\ paso'[d] \in {"titular", "emitir"}
              /\ ficha'[fichaDe[d]].estado # "activo"
    BY <1>1, <2>1
  <2> QED BY <1>0, <1>1, <2>2, <2>3, FichasQuietas
<1>2. ASSUME UNCHANGED <<paso, fichaDe, lectoras, abiertas, ficha>>
      PROVE  IndFichas'
  BY <1>0, <1>2, FichasQuietas
<1>3. ASSUME NEW c \in Logins, NEW u \in Usuarios, LeerLogin(c, u) \/ RechazarLogin(c, u)
      PROVE  IndFichas'
  <2>1. /\ paso[c] = "reposo" /\ UNCHANGED <<ficha, fichaDe, lectoras, abiertas>>
        /\ \E p : paso' = [paso EXCEPT ![c] = p]
    BY <1>3 DEF LeerLogin, RechazarLogin
  <2> QED BY <1>1, <2>1
<1>4. ASSUME NEW c \in Logins, ClaveErrada(c) \/ ClaveBuena(c)
      PROVE  IndFichas'
  <2>1. /\ paso[c] = "clave" /\ UNCHANGED <<ficha, fichaDe, lectoras, abiertas>>
        /\ \E p : paso' = [paso EXCEPT ![c] = p]
    BY <1>4 DEF ClaveErrada, ClaveBuena
  <2> QED BY <1>1, <2>1
<1>5. ASSUME NEW c \in Renovaciones \union Salidas, NEW t \in Fichas, LeerFicha(c, t)
      PROVE  IndFichas'
  <2>1. /\ paso[c] = "reposo" /\ ficha[t].estado = "activo"
        /\ fichaDe' = [fichaDe EXCEPT ![c] = t]
        /\ lectoras' = [lectoras EXCEPT ![t] = @ \union ({c} \intersect Renovaciones)]
        /\ UNCHANGED <<ficha, abiertas>>
        /\ \E p : /\ paso' = [paso EXCEPT ![c] = p]
                  /\ c \in Renovaciones => p \in {"canjear", "caducar"}
    BY <1>5 DEF LeerFicha
  <2>2. CASE c \in Renovaciones
    <3>0. {c} \intersect Renovaciones = {c}
      BY <2>2
    <3>1. lectoras' = [lectoras EXCEPT ![t] = @ \union {c}]
      BY ONLY <2>1, <3>0
    <3> QED BY <1>0, <2>1, <2>2, <3>1, FichaLeida
  <2>3. CASE c \notin Renovaciones
    <3>1. /\ \A d \in Renovaciones : fichaDe'[d] = fichaDe[d]
          /\ \A d \in Llamadas : fichaDe'[d] \in Fichas =>
               fichaDe'[d] = fichaDe[d] \/ ficha[fichaDe'[d]].estado # "libre"
      BY <1>0, <2>1, <2>3 DEF TypeOKSesiones
    <3>2. lectoras' = lectoras
      BY <1>0, <2>1, <2>3 DEF Renovada
    <3> QED BY <1>1, <2>1, <2>3, <3>1, <3>2
  <2> QED BY <2>2, <2>3
<1>6. ASSUME NEW c \in Renovaciones \union Salidas, NEW t \in Fichas, SinFicha(c, t)
      PROVE  IndFichas'
  <2>1. /\ paso[c] = "reposo" /\ UNCHANGED <<ficha, fichaDe, lectoras, abiertas>>
        /\ paso' = [paso EXCEPT ![c] = "fin"]
    BY <1>6 DEF SinFicha
  <2> QED BY <1>1, <2>1
<1>7. ASSUME NEW c \in Renovaciones \union Salidas, GuardarFicha(c)
      PROVE  IndFichas'
  <2> DEFINE t == fichaDe[c]
  <2>1. /\ paso[c] \in {"canjear", "caducar", "salir"} /\ t \in Fichas
        /\ UNCHANGED <<fichaDe, lectoras, abiertas>>
        /\ \E s \in {"revocado", "expirado"} : ficha' = [ficha EXCEPT ![t].estado = s]
        /\ \E p : /\ paso' = [paso EXCEPT ![c] = p]
                  /\ p = "fin" \/ (paso[c] = "canjear" /\ p \in {"titular", "emitir"})
    BY <1>0, <1>7 DEF GuardarFicha, EstadoGuardado, EstadoFinal, ConFilaLeida
  <2>2. ficha[t].estado # "libre"
    BY <1>0, <2>1 DEF Renovada
  <2>3. PICK s \in {"revocado", "expirado"} : ficha' = [ficha EXCEPT ![t].estado = s]
    BY <2>1
  <2>4. ficha'[t].estado = s /\ \A x \in Fichas : x # t => ficha'[x] = ficha[x]
    BY <1>0, <2>1, <2>3 DEF TypeOKSesiones
  <2>5. \A x \in Fichas : /\ ficha'[x].estado = "activo" => ficha[x].estado = "activo"
                          /\ ficha'[x].estado = "libre" <=> ficha[x].estado = "libre"
    BY <2>2, <2>3, <2>4
  <2> QED BY ZenonT(60), <1>1, <2>1, <2>4, <2>5
<1>8. ASSUME NEW c \in Renovaciones \union Salidas, LeerTitular(c)
      PROVE  IndFichas'
  <2>1. /\ paso[c] = "titular" /\ UNCHANGED <<ficha, fichaDe, lectoras, abiertas>>
        /\ \E p \in {"emitir", "fin"} : paso' = [paso EXCEPT ![c] = p]
    BY <1>8 DEF LeerTitular
  <2> QED BY <1>1, <2>1
<1>9. ASSUME NEW c \in Fichas, EmpresaInactiva(c)
      PROVE  IndFichas'
  <2>1. /\ paso[c] = "emitir" /\ UNCHANGED <<ficha, fichaDe, lectoras, abiertas>>
        /\ paso' = [paso EXCEPT ![c] = "fin"]
    BY <1>9 DEF EmpresaInactiva
  <2> QED BY <1>1, <2>1
<1>10. ASSUME NEW c \in Fichas, Emitir(c)
       PROVE  IndFichas'
  <2> DEFINE w == [estado |-> "activo",
                   dueno |-> IF quien[c] \in SuperAdmins THEN Nadie ELSE quien[c]]
  <2>1. /\ paso[c] = "emitir" /\ w.estado = "activo" /\ ficha' = [ficha EXCEPT ![c] = w]
        /\ abiertas' = abiertas \union ({c} \intersect Logins)
        /\ paso' = [paso EXCEPT ![c] = "fin"] /\ UNCHANGED <<fichaDe, lectoras>>
    BY <1>10 DEF Emitir
  <2> HIDE DEF w
  <2> QED BY <1>0, <2>1, FichaEmitida
<1>11. ASSUME NEW c \in Cambios, NEW u \in Usuarios, NEW dto \in Dto, LeerCambio(c, u, dto)
       PROVE  IndFichas'
  <2>1. /\ paso[c] = "reposo" /\ UNCHANGED <<ficha, fichaDe, lectoras, abiertas>>
        /\ \E p : paso' = [paso EXCEPT ![c] = p]
    BY <1>11 DEF LeerCambio
  <2> QED BY <1>1, <2>1
<1>12. ASSUME NEW c \in Cambios, ContarAdmins(c)
       PROVE  IndFichas'
  <2>1. /\ paso[c] = "contar" /\ UNCHANGED <<ficha, fichaDe, lectoras, abiertas>>
        /\ \E p : paso' = [paso EXCEPT ![c] = p]
    BY <1>12 DEF ContarAdmins
  <2> QED BY <1>1, <2>1
<1>13. ASSUME NEW c \in Llamadas, Escribir(c)
       PROVE  IndFichas'
  <2>1. /\ paso[c] \in {"limpiar", "fallo", "exito", "guardar"}
        /\ UNCHANGED <<fichaDe, lectoras, abiertas>>
        /\ ficha' = [t \in Fichas |-> IF t \in FichasQueCaen(c)
                                      THEN [ficha[t] EXCEPT !.estado = "revocado"] ELSE ficha[t]]
        /\ paso' = [paso EXCEPT ![c] = Siguiente(paso[c])]
    BY <1>0, <1>13 DEF Escribir, TypeOKSesiones, Guardando
  <2>2. c \notin Renovaciones
    BY <1>0, <2>1 DEF ConFilaLeida
  <2>3. \A t \in FichasQueCaen(c) : ficha[t].estado = "activo"
    BY DEF FichasQueCaen
  <2>4. \A t \in Fichas : /\ ficha'[t].estado = "activo" => ficha[t].estado = "activo"
                          /\ ficha'[t].estado = "libre" <=> ficha[t].estado = "libre"
    <3>1. ASSUME NEW t \in Fichas, t \in FichasQueCaen(c)
          PROVE  ficha'[t].estado = "revocado"
      BY <1>0, <2>1, <3>1 DEF TypeOKSesiones
    <3> QED BY <2>1, <2>3, <3>1
  <2> QED BY <1>1, <2>1, <2>2, <2>4
<1>14. ASSUME NEW c \in Llamadas, Interrumpir(c)
       PROVE  IndFichas'
  <2>1. /\ paso[c] # "fin" /\ UNCHANGED <<ficha, fichaDe, lectoras, abiertas>>
        /\ paso' = [paso EXCEPT ![c] = "fin"]
    BY <1>14 DEF Interrumpir, EnCurso
  <2> QED BY <1>1, <2>1
<1>15. ASSUME \/ \E c \in Llamadas : Comparar(c)
              \/ \E u \in Usuarios, esAdmin \in BOOLEAN : CrearUsuario(u, esAdmin)
              \/ AvanzarReloj
              \/ \E t \in Fichas : Vencer(t)
       PROVE  IndFichas'
  BY <1>2, <1>15 DEF Comparar, CrearUsuario, AvanzarReloj, Vencer
<1>16. CASE UNCHANGED sesionVars
  BY <1>2, <1>16 DEF sesionVars
<1> QED
  BY <1>3, <1>4, <1>5, <1>6, <1>7, <1>8, <1>9, <1>10, <1>11, <1>12, <1>13, <1>14, <1>15, <1>16
     DEF NextSesiones

\* The active tokens are at most the logins that were answered and the refreshes of a
\* token that another refresh had read.
LEMMA SesionesSiempreAcotadas == IndFichas => SesionesAcotadas
<1> SUFFICES ASSUME IndFichas PROVE SesionesAcotadas
  OBVIOUS
<1> DEFINE elegida == [t \in FichasLeidas |-> CHOOSE c \in lectoras[t] : TRUE]
           repetidasDe(t) == IF lectoras[t] = {} THEN {}
                             ELSE lectoras[t] \ {CHOOSE c \in lectoras[t] : TRUE}
           R == UNION {repetidasDe(t) : t \in Fichas}
           E == {elegida[t] : t \in FichasLeidas}
<1>0. Renovada /\ FichasContadas /\ IsFiniteSet(Lectoras) /\ IsFiniteSet(SinLeer)
  BY DEF IndFichas, FichasContadas
<1>1. /\ IsFiniteSet(FichasLeidas) /\ Cardinality(FichasLeidas) \in Nat
      /\ IsFiniteSet(PorRenovar) /\ Cardinality(PorRenovar) \in Nat
      /\ Cardinality(abiertas) \in Nat /\ Cardinality(SinLeer) \in Nat /\ Cardinality(Lectoras) \in Nat
      /\ Cardinality(SinLeer) + Cardinality(FichasLeidas) + Cardinality(PorRenovar) <=
           Cardinality(abiertas) + Cardinality(Lectoras)
  BY <1>0, LeidasPorLectoras, FS_CardinalityType DEF FichasContadas
<1>2. R \subseteq Lectoras /\ Lectoras \subseteq R \union E
  BY DEF Lectoras, FichasLeidas
<1>3. IsFiniteSet(E) /\ Cardinality(E) \in Nat /\ Cardinality(E) <= Cardinality(FichasLeidas)
  <2> HIDE DEF elegida
  <2> QED BY <1>1, Imagen
<1> HIDE DEF R, E
<1>4. IsFiniteSet(R) /\ Cardinality(R) \in Nat
  BY <1>0, <1>2, NoCrece
<1>5. Cardinality(Lectoras) <= Cardinality(R) + Cardinality(FichasLeidas)
  <2>1. /\ IsFiniteSet(R \union E) /\ Cardinality(R \intersect E) \in Nat
        /\ Cardinality(R \union E) = Cardinality(R) + Cardinality(E) - Cardinality(R \intersect E)
    BY <1>3, <1>4, FS_Union, NoCrece
  <2>2. Cardinality(Lectoras) <= Cardinality(R \union E)
    BY <1>2, <2>1, NoCrece
  <2>3. Cardinality(R \union E) \in Nat
    BY <2>1, FS_CardinalityType
  <2> QED BY <1>1, <1>3, <1>4, <2>1, <2>2, <2>3
<1>6. FichasActivas \subseteq SinLeer \union {fichaDe[c] : c \in PorRenovar}
  BY <1>0 DEF SinLeer, FichasLeidas, PorRenovar, Lectoras, FichasActivas, Renovada
<1>7. /\ IsFiniteSet(FichasActivas) /\ Cardinality(FichasActivas) \in Nat
      /\ Cardinality(FichasActivas) <= Cardinality(SinLeer) + Cardinality(PorRenovar)
  <2> DEFINE I == {fichaDe[c] : c \in PorRenovar}
  <2>1. IsFiniteSet(I) /\ Cardinality(I) \in Nat /\ Cardinality(I) <= Cardinality(PorRenovar)
    BY <1>1, Imagen
  <2> HIDE DEF I
  <2>2. /\ IsFiniteSet(SinLeer \union I) /\ Cardinality(SinLeer \intersect I) \in Nat
        /\ Cardinality(SinLeer \union I) = Cardinality(SinLeer) + Cardinality(I)
                                             - Cardinality(SinLeer \intersect I)
    BY <1>0, <2>1, FS_Union, NoCrece
  <2>3. /\ IsFiniteSet(FichasActivas) /\ Cardinality(FichasActivas) \in Nat
        /\ Cardinality(SinLeer \union I) \in Nat
        /\ Cardinality(FichasActivas) <= Cardinality(SinLeer \union I)
    BY <1>6, <2>2, NoCrece DEF I
  <2> QED BY <1>1, <2>1, <2>2, <2>3
<1>8. Cardinality(FichasActivas) <= Cardinality(abiertas) + Cardinality(R)
  BY <1>1, <1>4, <1>5, <1>7
<1> QED BY <1>8 DEF SesionesAcotadas, FichasActivas, R
-----------------------------------------------------------------------------
(* Requests                                                                *)

\* The requests that the limit of the window counts, of which some have still to be
\* added, and those that the limit of the bucket counts.
Anotadas == admitidas \ (porMemoria \union desviadas)
Contadas == Anotadas \union {s \in Solicitantes \ desviadas : pasoLimite[s] = "anotar"}
Memoria == porMemoria \ desviadas

ContadasEn(t) == {s \in Contadas : marca[s] <= t /\ t < marca[s] + AnchoVentana}
MemoriaEn(t) == {s \in Memoria : marca[s] <= t /\ t < marca[s] + AnchoVentana}

\* What is not in the set any more was removed by a later count, or addition.
VentanaContada ==
  /\ \A s \in admitidas : pasoLimite[s] = "fin"
  /\ IsFiniteSet(conjunto) /\ IsFiniteSet(Contadas)
  /\ \A w \in Anotadas :
       \/ w \in conjunto
       \/ \E r \in Solicitantes : /\ pasoLimite[r] \notin {"reposo", "contar"}
                                  /\ marca[w] + AnchoVentana <= marca[r]
  /\ \A t \in 1 .. MaxInstante : Cardinality(ContadasEn(t)) <= LimiteVentana

\* Those that came in the window of the bucket, and in the one before it.
DelCubo == {s \in Memoria : cubo.hasta <= marca[s] + AnchoVentana}
DelAnterior == {s \in Memoria : /\ marca[s] + AnchoVentana < cubo.hasta
                                /\ cubo.hasta <= marca[s] + AnchoVentana + AnchoVentana}

CuboContado ==
  /\ IsFiniteSet(Memoria)
  /\ \A s \in Memoria : marca[s] < cubo.hasta
  /\ Cardinality(DelCubo) <= cubo.cuenta /\ cubo.cuenta <= LimiteDegradado
  /\ Cardinality(DelAnterior) <= LimiteDegradado
  /\ \A t \in 1 .. MaxInstante : Cardinality(MemoriaEn(t)) <= 2 * LimiteDegradado

IndLimite == TypeOKLimite /\ VentanaContada /\ CuboContado

LEMMA LimiteDegradadoTipo ==
  /\ LimiteDegradado \in Nat /\ 1 <= LimiteDegradado
  /\ LimiteVentana \in Nat /\ 1 <= LimiteVentana /\ AnchoVentana \in Nat /\ 1 <= AnchoVentana
  /\ 1 .. MaxInstante \subseteq Nat
BY LimiteAssumption DEF LimiteDegradado

LEMMA InicioLimite == ASSUME InitLimite PROVE IndLimite
<1> USE DEF InitLimite
<1>1. TypeOKLimite
  BY LimiteAssumption DEF TypeOKLimite
<1>2. /\ conjunto = {} /\ Contadas = {} /\ Anotadas = {} /\ Memoria = {}
      /\ DelCubo = {} /\ DelAnterior = {}
      /\ \A t \in 1 .. MaxInstante : ContadasEn(t) = {} /\ MemoriaEn(t) = {}
  BY DEF Contadas, Anotadas, Memoria, DelCubo, DelAnterior, ContadasEn, MemoriaEn
<1>3. IsFiniteSet({}) /\ Cardinality({}) = 0
  BY FS_EmptySet
<1>4. VentanaContada
  <2>1. \A t \in 1 .. MaxInstante : Cardinality(ContadasEn(t)) <= LimiteVentana
    BY <1>2, <1>3, LimiteDegradadoTipo
  <2> QED BY <1>2, <1>3, <2>1 DEF VentanaContada
<1>5. CuboContado
  <2>1. \A t \in 1 .. MaxInstante : Cardinality(MemoriaEn(t)) <= 2 * LimiteDegradado
    <3>1. 0 <= 2 * LimiteDegradado
      BY ONLY LimiteDegradadoTipo
    <3>2. \A t \in 1 .. MaxInstante : Cardinality(MemoriaEn(t)) = 0
      BY <1>2, <1>3
    <3> QED BY ONLY <3>1, <3>2
  <2>2. cubo.cuenta = 0
    OBVIOUS
  <2> QED BY <1>2, <1>3, <2>1, <2>2, LimiteDegradadoTipo DEF CuboContado
<1> QED BY <1>1, <1>4, <1>5 DEF IndLimite

LEMMA PasoTiposLimite ==
  ASSUME TypeOKLimite, [NextLimite]_limiteVars
  PROVE  TypeOKLimite'
<1> USE DEF TypeOKLimite, PasarLimite
<1>1. CASE Correr
  <2>1. instante' \in 1 .. MaxInstante
    BY <1>1, LimiteAssumption DEF Correr
  <2> QED BY <1>1, <2>1 DEF Correr
<1>2. ASSUME NEW s \in Solicitantes, Llegar(s)
      PROVE  TypeOKLimite'
  <2>1. marca' \in [Solicitantes -> 0 .. MaxInstante]
    BY <1>2, LimiteAssumption DEF Llegar
  <2> QED BY <1>2, <2>1 DEF Llegar
<1>3. ASSUME NEW s \in Solicitantes, Contar(s) \/ ContarConErrores(s) \/ Negar(s)
      PROVE  TypeOKLimite'
  <2>1. conjunto' \subseteq conjunto /\ desviadas' \subseteq desviadas \union {s}
    BY <1>3 DEF Contar, ContarConErrores, Negar, DentroDe
  <2>2. pasoLimite' \in [Solicitantes -> {"reposo", "contar", "anotar", "negar", "negada", "fin"}]
    BY <1>3 DEF Contar, ContarConErrores, Negar
  <2> QED BY <1>3, <2>1, <2>2 DEF Contar, ContarConErrores, Negar
<1>4. ASSUME NEW s \in Solicitantes, Degradar(s)
      PROVE  TypeOKLimite'
  <2>1. cubo' \in [cuenta : Nat, hasta : Nat]
    <3>1. marca[s] + AnchoVentana \in Nat
      BY LimiteAssumption
    <3> QED BY <1>4, <3>1 DEF Degradar
  <2>2. /\ porMemoria' \subseteq admitidas' /\ conjunto' \subseteq admitidas'
        /\ admitidas' \subseteq Solicitantes /\ desviadas' \subseteq Solicitantes
    BY <1>4 DEF Degradar
  <2>3. pasoLimite' \in [Solicitantes -> {"reposo", "contar", "anotar", "negar", "negada", "fin"}]
    BY <1>4 DEF Degradar
  <2> QED BY <1>4, <2>1, <2>2, <2>3 DEF Degradar
<1>5. ASSUME NEW s \in Solicitantes, NEW bien \in BOOLEAN, AnotarSolicitud(s, bien)
      PROVE  TypeOKLimite'
  BY <1>5 DEF AnotarSolicitud, DentroDe
<1>6. CASE UNCHANGED limiteVars
  BY <1>6 DEF limiteVars
<1> QED BY <1>1, <1>2, <1>3, <1>4, <1>5, <1>6 DEF NextLimite

\* A step after which no other request is counted.
LEMMA VentanaQuieta ==
  ASSUME VentanaContada, IsFiniteSet(conjunto'), Contadas' \subseteq Contadas,
         \A s \in Contadas' : marca'[s] = marca[s],
         \A s \in admitidas' : pasoLimite'[s] = "fin",
         \A w \in Anotadas' :
           \/ w \in conjunto'
           \/ \E r \in Solicitantes : /\ pasoLimite'[r] \notin {"reposo", "contar"}
                                      /\ marca'[w] + AnchoVentana <= marca'[r]
  PROVE  VentanaContada'
<1>1. IsFiniteSet(Contadas) /\ IsFiniteSet(Contadas')
  BY NoCrece DEF VentanaContada
<1>2. ASSUME NEW t \in 1 .. MaxInstante
      PROVE  Cardinality(ContadasEn(t)') <= LimiteVentana
  <2>1. ContadasEn(t)' \subseteq ContadasEn(t) /\ ContadasEn(t) \subseteq Contadas
    BY DEF ContadasEn
  <2>2. IsFiniteSet(ContadasEn(t))
    BY <1>1, <2>1, NoCrece
  <2>3. /\ Cardinality(ContadasEn(t)) \in Nat /\ Cardinality(ContadasEn(t)') \in Nat
        /\ Cardinality(ContadasEn(t)') <= Cardinality(ContadasEn(t))
    BY <2>1, <2>2, NoCrece
  <2>4. Cardinality(ContadasEn(t)) <= LimiteVentana
    BY DEF VentanaContada
  <2> QED BY <2>3, <2>4, LimiteDegradadoTipo
<1> QED BY <1>1, <1>2 DEF VentanaContada

\* A count that no other request makes short finds whatever its windows hold.
LEMMA CuentaCompleta ==
  ASSUME TypeOKLimite, VentanaContada, NEW s \in Solicitantes, NEW t \in 1 .. MaxInstante,
         ~Solapada(s), pasoLimite[s] = "contar", marca[s] <= t, t < marca[s] + AnchoVentana
  PROVE  ContadasEn(t) \subseteq DentroDe(s)
<1> SUFFICES ASSUME NEW w \in ContadasEn(t)
             PROVE  w \in DentroDe(s)
  OBVIOUS
<1>a. /\ w \in Contadas /\ marca[w] <= t /\ t < marca[w] + AnchoVentana
      /\ \A r \in Solicitantes : marca[r] \in Nat
  BY DEF ContadasEn, TypeOKLimite
<1>b. /\ w \in Solicitantes /\ AnchoVentana \in Nat /\ t \in Nat
      /\ \A r \in Solicitantes \ {s} :
           pasoLimite[r] # "anotar" /\ (marca[s] < marca[r] => pasoLimite[r] = "contar")
  BY <1>a, LimiteDegradadoTipo DEF Solapada, Contadas, Anotadas, TypeOKLimite
<1>1. w \in Anotadas
  BY <1>a, <1>b DEF Contadas
<1>2. w \in conjunto
  <2>1. SUFFICES ASSUME NEW r \in Solicitantes, pasoLimite[r] \notin {"reposo", "contar"},
                        marca[w] + AnchoVentana <= marca[r]
                 PROVE  FALSE
    BY <1>1 DEF VentanaContada
  <2>2. r # s /\ marca[s] < marca[r]
    BY <1>a, <1>b, <2>1
  <2> QED BY <1>b, <2>1, <2>2
<1> QED BY <1>a, <1>b, <1>2 DEF DentroDe

LEMMA PasoVentana ==
  ASSUME TypeOKLimite, VentanaContada, [NextLimite]_limiteVars
  PROVE  VentanaContada'
<1> USE DEF PasarLimite
<1>a. /\ \A s \in admitidas : pasoLimite[s] = "fin"
      /\ IsFiniteSet(conjunto) /\ IsFiniteSet(Contadas)
      /\ \A w \in Anotadas :
           \/ w \in conjunto
           \/ \E r \in Solicitantes : /\ pasoLimite[r] \notin {"reposo", "contar"}
                                      /\ marca[w] + AnchoVentana <= marca[r]
  BY DEF VentanaContada
<1>b. Anotadas \subseteq admitidas /\ admitidas \subseteq Solicitantes /\ conjunto \subseteq admitidas
  BY DEF Anotadas, TypeOKLimite
\* What a count or an addition of s removes, its own time explains.
<1>c. ASSUME NEW s \in Solicitantes, NEW p, p \notin {"reposo", "contar"},
             pasoLimite' = [pasoLimite EXCEPT ![s] = p], UNCHANGED marca,
             DentroDe(s) \subseteq conjunto', NEW w \in Anotadas
      PROVE  \/ w \in conjunto'
             \/ \E r \in Solicitantes : /\ pasoLimite'[r] \notin {"reposo", "contar"}
                                        /\ marca'[w] + AnchoVentana <= marca'[r]
  <2>1. /\ pasoLimite'[s] = p /\ \A r \in Solicitantes : r # s => pasoLimite'[r] = pasoLimite[r]
        /\ marca[s] \in Nat /\ marca[w] \in Nat /\ AnchoVentana \in Nat
    BY <1>b, <1>c, LimiteDegradadoTipo DEF TypeOKLimite
  <2>2. CASE w \in conjunto
    <3>1. w \in DentroDe(s) \/ marca[w] + AnchoVentana <= marca[s]
      BY <2>1, <2>2 DEF DentroDe
    <3> QED BY <1>c, <2>1, <3>1
  <2>3. CASE w \notin conjunto
    <3>1. PICK r \in Solicitantes : /\ pasoLimite[r] \notin {"reposo", "contar"}
                                    /\ marca[w] + AnchoVentana <= marca[r]
      BY <1>a, <2>3
    <3> QED BY <1>c, <2>1, <3>1
  <2> QED BY <2>2, <2>3
\* A step that leaves the set and the times.
<1>d. ASSUME UNCHANGED <<conjunto, marca>>, Anotadas' \subseteq Anotadas,
             \A r \in Solicitantes : pasoLimite[r] \notin {"reposo", "contar"} =>
                                       pasoLimite'[r] \notin {"reposo", "contar"},
             Contadas' \subseteq Contadas, \A s \in admitidas' : pasoLimite'[s] = "fin"
      PROVE  VentanaContada'
  <2>1. \A w \in Anotadas' :
           \/ w \in conjunto'
           \/ \E r \in Solicitantes : /\ pasoLimite'[r] \notin {"reposo", "contar"}
                                      /\ marca'[w] + AnchoVentana <= marca'[r]
    BY <1>a, <1>d
  <2> QED BY <1>a, <1>d, <2>1, VentanaQuieta
<1>1. CASE Correr
  BY <1>1, <1>a, <1>d DEF Correr, Contadas, Anotadas
<1>2. ASSUME NEW s \in Solicitantes, Llegar(s)
      PROVE  VentanaContada'
  <2>1. /\ pasoLimite[s] = "reposo" /\ pasoLimite'[s] = "contar" /\ UNCHANGED <<conjunto, admitidas>>
        /\ \A r \in Solicitantes : r # s => pasoLimite'[r] = pasoLimite[r] /\ marca'[r] = marca[r]
        /\ Anotadas' = Anotadas /\ s \notin admitidas
    BY <1>2, <1>a DEF Llegar, TypeOKLimite, Anotadas
  <2>2. Contadas' \subseteq Contadas /\ s \notin Contadas
    BY <1>2, <1>b, <2>1 DEF Contadas, Llegar
  <2>3. \A r \in Contadas' : marca'[r] = marca[r]
    BY <1>b, <2>1, <2>2 DEF Contadas
  <2>4. ASSUME NEW w \in Anotadas'
        PROVE  \/ w \in conjunto'
               \/ \E r \in Solicitantes : /\ pasoLimite'[r] \notin {"reposo", "contar"}
                                          /\ marca'[w] + AnchoVentana <= marca'[r]
    <3>1. w \in Anotadas /\ w \in Solicitantes /\ w # s
      BY <1>b, <2>1, <2>4
    <3> QED BY <1>a, <2>1, <3>1
  <2> QED BY <1>a, <1>b, <2>1, <2>2, <2>3, <2>4, VentanaQuieta
<1>3. ASSUME NEW s \in Solicitantes, Contar(s)
      PROVE  VentanaContada'
  <2> DEFINE p == IF Excede(Cardinality(DentroDe(s))) THEN "negar" ELSE "anotar"
  <2>1. /\ pasoLimite[s] = "contar" /\ UNCHANGED <<marca, admitidas, porMemoria>>
        /\ pasoLimite' = [pasoLimite EXCEPT ![s] = p] /\ p \notin {"reposo", "contar"}
        /\ conjunto' = DentroDe(s) /\ desviadas \subseteq desviadas'
        /\ Solapada(s) => s \in desviadas'
    BY <1>3 DEF Contar
  <2>2. pasoLimite'[s] = p /\ \A r \in Solicitantes : r # s => pasoLimite'[r] = pasoLimite[r]
    BY <2>1 DEF TypeOKLimite
  <2>3. s \notin admitidas /\ s \notin Contadas /\ Anotadas' \subseteq Anotadas
    BY <1>a, <1>b, <2>1 DEF Contadas, Anotadas
  <2>4. /\ \A w \in Anotadas' :
             \/ w \in conjunto'
             \/ \E r \in Solicitantes : /\ pasoLimite'[r] \notin {"reposo", "contar"}
                                        /\ marca'[w] + AnchoVentana <= marca'[r]
        /\ \A r \in admitidas' : pasoLimite'[r] = "fin"
    <3>1. ASSUME NEW w \in Anotadas'
          PROVE  \/ w \in conjunto'
                 \/ \E r \in Solicitantes : /\ pasoLimite'[r] \notin {"reposo", "contar"}
                                            /\ marca'[w] + AnchoVentana <= marca'[r]
      <4>1. w \in Anotadas
        BY <2>3
      <4>2. DentroDe(s) \subseteq conjunto'
        BY <2>1
      <4> HIDE DEF p
      <4> QED BY <1>c, <2>1, <4>1, <4>2
    <3>2. \A r \in admitidas' : pasoLimite'[r] = "fin"
      BY <1>a, <1>b, <2>1, <2>2, <2>3
    <3> QED BY <3>1, <3>2
  <2>5. /\ IsFiniteSet(conjunto') /\ Cardinality(conjunto') \in Nat
        /\ IsFiniteSet(DentroDe(s)) /\ Cardinality(DentroDe(s)) \in Nat
    <3>1. DentroDe(s) \subseteq conjunto
      BY DEF DentroDe
    <3> QED BY <1>a, <2>1, <3>1, NoCrece
  <2>6. Contadas' \subseteq Contadas \union {s}
    BY <2>1, <2>2, <2>3 DEF Contadas
  <2>7. CASE p = "negar" \/ Solapada(s)
    <3>1. s \notin Contadas'
      BY <2>1, <2>2, <2>3, <2>7 DEF Contadas
    <3>2. Contadas' \subseteq Contadas /\ \A r \in Contadas' : marca'[r] = marca[r]
      BY <2>1, <2>6, <3>1
    <3> QED BY <2>4, <2>5, <3>2, VentanaQuieta
  <2>8. CASE p = "anotar" /\ ~Solapada(s)
    <3>1. Cardinality(DentroDe(s)) + 1 <= LimiteVentana
      BY <2>5, <2>8, LimiteDegradadoTipo DEF Excede
    <3>2. IsFiniteSet(Contadas')
      BY <1>a, <2>6, UnoMas
    <3>3. ASSUME NEW t \in 1 .. MaxInstante
          PROVE  Cardinality(ContadasEn(t)') <= LimiteVentana
      <4>1. CASE s \in ContadasEn(t)'
        <5>1. marca[s] <= t /\ t < marca[s] + AnchoVentana
          BY <2>1, <4>1 DEF ContadasEn
        <5>2. ContadasEn(t) \subseteq DentroDe(s)
          BY <2>1, <2>8, <5>1, CuentaCompleta
        <5>3. ContadasEn(t)' \subseteq DentroDe(s) \union {s}
          BY <2>1, <2>6, <5>2 DEF ContadasEn
        <5>4. /\ Cardinality(ContadasEn(t)') \in Nat
              /\ Cardinality(ContadasEn(t)') <= Cardinality(DentroDe(s)) + 1
          BY <2>5, <5>3, UnoMas
        <5> QED BY <2>5, <3>1, <5>4, LimiteDegradadoTipo
      <4>2. CASE s \notin ContadasEn(t)'
        <5>1. ContadasEn(t)' \subseteq ContadasEn(t) /\ ContadasEn(t) \subseteq Contadas
          BY <2>1, <2>6, <4>2 DEF ContadasEn
        <5>2. IsFiniteSet(ContadasEn(t)) /\ Cardinality(ContadasEn(t)) <= LimiteVentana
          BY <1>a, <5>1, NoCrece DEF VentanaContada
        <5>3. /\ Cardinality(ContadasEn(t)) \in Nat /\ Cardinality(ContadasEn(t)') \in Nat
              /\ Cardinality(ContadasEn(t)') <= Cardinality(ContadasEn(t))
          BY <5>1, <5>2, NoCrece
        <5> QED BY <5>2, <5>3, LimiteDegradadoTipo
      <4> QED BY <4>1, <4>2
    <3> QED BY <2>4, <2>5, <3>2, <3>3 DEF VentanaContada
  <2> QED BY <2>7, <2>8
<1>4. ASSUME NEW s \in Solicitantes, ContarConErrores(s) \/ Negar(s)
      PROVE  VentanaContada'
  <2>1. /\ pasoLimite[s] \in {"contar", "negar"} /\ pasoLimite'[s] \in {"anotar", "negada"}
        /\ \A r \in Solicitantes : r # s => pasoLimite'[r] = pasoLimite[r]
        /\ pasoLimite'[s] = "anotar" => s \in desviadas'
        /\ desviadas \subseteq desviadas' /\ UNCHANGED <<conjunto, marca, admitidas, porMemoria>>
    BY <1>4 DEF ContarConErrores, Negar, TypeOKLimite
  <2>2. Anotadas' \subseteq Anotadas /\ s \notin admitidas
    BY <1>a, <2>1 DEF Anotadas
  <2>3. Contadas' \subseteq Contadas
    BY <2>1, <2>2 DEF Contadas
  <2> QED BY <1>a, <1>b, <1>d, <2>1, <2>2, <2>3
<1>5. ASSUME NEW s \in Solicitantes, Degradar(s)
      PROVE  VentanaContada'
  <2>1. /\ pasoLimite[s] \in {"contar", "anotar", "negar"} /\ UNCHANGED <<conjunto, marca>>
        /\ \A r \in Solicitantes : r # s => pasoLimite'[r] = pasoLimite[r]
        /\ desviadas \subseteq desviadas'
        /\ \/ /\ pasoLimite'[s] = "fin" /\ admitidas' = admitidas \union {s}
              /\ porMemoria' = porMemoria \union {s}
           \/ pasoLimite'[s] = "negada" /\ UNCHANGED <<admitidas, porMemoria>>
    BY <1>5 DEF Degradar, TypeOKLimite
  <2>2. Anotadas' \subseteq Anotadas /\ s \notin admitidas
    BY <1>a, <2>1 DEF Anotadas
  <2>3. Contadas' \subseteq Contadas
    BY <2>1, <2>2 DEF Contadas
  <2>4. \A r \in admitidas' : pasoLimite'[r] = "fin"
    BY <1>a, <1>b, <2>1, <2>2
  <2> QED BY <1>d, <2>1, <2>2, <2>3, <2>4
<1>6. ASSUME NEW s \in Solicitantes, NEW bien \in BOOLEAN, AnotarSolicitud(s, bien)
      PROVE  VentanaContada'
  <2>1. /\ pasoLimite[s] = "anotar" /\ UNCHANGED <<marca, porMemoria>>
        /\ pasoLimite' = [pasoLimite EXCEPT ![s] = "fin"]
        /\ admitidas' = admitidas \union {s}
        /\ IF bien THEN conjunto' = DentroDe(s) \union {s} /\ desviadas' = desviadas
           ELSE conjunto' = conjunto /\ desviadas' = desviadas \union {s}
    BY <1>6 DEF AnotarSolicitud
  <2>2. pasoLimite'[s] = "fin" /\ \A r \in Solicitantes : r # s => pasoLimite'[r] = pasoLimite[r]
    BY <2>1 DEF TypeOKLimite
  <2>3. Anotadas' \subseteq Anotadas \union {s} /\ (~bien => s \notin Anotadas')
    BY <2>1 DEF Anotadas
  <2>4. Contadas' \subseteq Contadas
    <3>1. ASSUME NEW r \in Contadas' PROVE r \in Contadas
      <4>1. CASE r = s
        <5>1. s \notin desviadas
          BY <2>1, <3>1, <4>1 DEF Contadas, Anotadas
        <5> QED BY <2>1, <4>1, <5>1 DEF Contadas
      <4>2. CASE r # s
        BY <2>1, <2>2, <3>1, <4>2 DEF Contadas, Anotadas
      <4> QED BY <4>1, <4>2
    <3> QED BY <3>1
  <2>5. \A r \in admitidas' : pasoLimite'[r] = "fin"
    BY <1>a, <1>b, <2>1, <2>2
  <2>6. \A r \in Contadas' : marca'[r] = marca[r]
    BY <2>1
  <2>7. CASE bien
    <3>1. conjunto' = DentroDe(s) \union {s} /\ DentroDe(s) \subseteq conjunto
      BY <2>1, <2>7 DEF DentroDe
    <3>2. IsFiniteSet(conjunto')
      <4>1. conjunto' \subseteq conjunto \union {s}
        BY <3>1
      <4> QED BY <1>a, <4>1, UnoMas
    <3>3. ASSUME NEW w \in Anotadas'
          PROVE  \/ w \in conjunto'
                 \/ \E r \in Solicitantes : /\ pasoLimite'[r] \notin {"reposo", "contar"}
                                            /\ marca'[w] + AnchoVentana <= marca'[r]
      <4>1. CASE w = s
        BY <3>1, <4>1
      <4>2. CASE w \in Anotadas
        <5>1. DentroDe(s) \subseteq conjunto' /\ "fin" \notin {"reposo", "contar"}
          BY <3>1
        <5> QED BY <1>c, <2>1, <4>2, <5>1
      <4> QED BY <2>3, <4>1, <4>2
    <3> QED BY <2>4, <2>5, <2>6, <3>2, <3>3, VentanaQuieta
  <2>8. CASE ~bien
    <3>1. Anotadas' \subseteq Anotadas
      BY <2>3, <2>8
    <3> QED BY <1>d, <2>1, <2>2, <2>4, <2>5, <2>8, <3>1
  <2> QED BY <2>7, <2>8
<1>7. CASE UNCHANGED limiteVars
  BY <1>7, <1>a, <1>d DEF limiteVars, Contadas, Anotadas
<1> QED BY <1>1, <1>2, <1>3, <1>4, <1>5, <1>6, <1>7 DEF NextLimite

\* A step that leaves the bucket, and after which no other request counts as its own.
LEMMA CuboQuieto ==
  ASSUME TypeOKLimite, CuboContado, cubo' = cubo, Memoria' \subseteq Memoria,
         \A s \in Memoria' : marca'[s] = marca[s]
  PROVE  CuboContado'
<1>a. /\ IsFiniteSet(Memoria) /\ IsFiniteSet(Memoria')
      /\ cubo.cuenta \in Nat /\ cubo.cuenta <= LimiteDegradado
  BY NoCrece DEF CuboContado, TypeOKLimite
<1>1. /\ Cardinality(DelCubo') <= cubo'.cuenta
      /\ Cardinality(DelAnterior') <= LimiteDegradado
  <2>1. /\ DelCubo' \subseteq DelCubo /\ DelCubo \subseteq Memoria
        /\ DelAnterior' \subseteq DelAnterior /\ DelAnterior \subseteq Memoria
    BY DEF DelCubo, DelAnterior
  <2>2. IsFiniteSet(DelCubo) /\ IsFiniteSet(DelAnterior)
    BY <1>a, <2>1, NoCrece
  <2>3. /\ Cardinality(DelCubo) \in Nat /\ Cardinality(DelCubo') \in Nat
        /\ Cardinality(DelCubo') <= Cardinality(DelCubo)
        /\ Cardinality(DelAnterior) \in Nat /\ Cardinality(DelAnterior') \in Nat
        /\ Cardinality(DelAnterior') <= Cardinality(DelAnterior)
    BY <2>1, <2>2, NoCrece
  <2> QED BY <1>a, <2>3, LimiteDegradadoTipo DEF CuboContado
<1>2. ASSUME NEW t \in 1 .. MaxInstante
      PROVE  Cardinality(MemoriaEn(t)') <= 2 * LimiteDegradado
  <2>1. MemoriaEn(t)' \subseteq MemoriaEn(t) /\ MemoriaEn(t) \subseteq Memoria
    BY DEF MemoriaEn
  <2>2. IsFiniteSet(MemoriaEn(t))
    BY <1>a, <2>1, NoCrece
  <2>3. /\ Cardinality(MemoriaEn(t)) \in Nat /\ Cardinality(MemoriaEn(t)') \in Nat
        /\ Cardinality(MemoriaEn(t)') <= Cardinality(MemoriaEn(t))
    BY <2>1, <2>2, NoCrece
  <2>4. /\ Cardinality(MemoriaEn(t)) <= 2 * LimiteDegradado
        /\ LimiteDegradado \in Nat
    BY LimiteDegradadoTipo DEF CuboContado
  <2> QED BY ONLY <2>3, <2>4
<1>3. \A s \in Memoria' : marca'[s] < cubo'.hasta
  BY DEF CuboContado
<1> QED BY <1>a, <1>1, <1>2, <1>3 DEF CuboContado

\* The bucket lets s through: in any window of its own are those of the bucket and of
\* the one before it.
LEMMA CuboUsado ==
  ASSUME TypeOKLimite, CuboContado, NEW s \in Solicitantes,
         cubo' \in [cuenta : Nat, hasta : Nat], UNCHANGED marca,
         Memoria' \subseteq Memoria \union {s},
         \A w \in Memoria' : marca'[w] < cubo'.hasta,
         Cardinality(DelCubo') <= cubo'.cuenta, cubo'.cuenta <= LimiteDegradado,
         Cardinality(DelAnterior') <= LimiteDegradado,
         cubo'.hasta <= marca[s] + AnchoVentana \/ Memoria' \subseteq Memoria
  PROVE  CuboContado'
<1>a. IsFiniteSet(Memoria) /\ IsFiniteSet(Memoria')
  BY UnoMas DEF CuboContado
<1>b. /\ cubo'.cuenta \in Nat /\ cubo'.hasta \in Nat /\ LimiteDegradado \in Nat
      /\ AnchoVentana \in Nat
  BY LimiteDegradadoTipo
<1>c. \A w \in Memoria' : w \in Solicitantes /\ marca[w] \in Nat
  BY DEF Memoria, TypeOKLimite
<1>1. ASSUME NEW t \in 1 .. MaxInstante
      PROVE  Cardinality(MemoriaEn(t)') <= 2 * LimiteDegradado
  <2>0. t \in Nat
    BY LimiteDegradadoTipo
  <2>1. CASE s \in MemoriaEn(t)' /\ cubo'.hasta <= marca[s] + AnchoVentana
    <3>1. marca[s] <= t /\ marca[s] \in Nat
      BY <1>c, <2>1 DEF MemoriaEn
    <3>2. ASSUME NEW w \in MemoriaEn(t)'
          PROVE  w \in DelCubo' \union DelAnterior'
      <4>1. w \in Memoria' /\ t < marca[w] + AnchoVentana
        BY <3>2 DEF MemoriaEn
      <4>2. cubo'.hasta <= marca[w] + AnchoVentana + AnchoVentana
        BY <1>b, <1>c, <2>0, <2>1, <3>1, <4>1
      <4> QED BY <1>b, <1>c, <4>1, <4>2 DEF DelCubo, DelAnterior
    <3>3. DelCubo' \subseteq Memoria' /\ DelAnterior' \subseteq Memoria'
      BY DEF DelCubo, DelAnterior
    <3>4. /\ IsFiniteSet(DelCubo') /\ IsFiniteSet(DelAnterior')
          /\ Cardinality(DelCubo') \in Nat /\ Cardinality(DelAnterior') \in Nat
      BY <1>a, <3>3, NoCrece
    <3>5. /\ IsFiniteSet(DelCubo' \union DelAnterior')
          /\ Cardinality(DelCubo' \union DelAnterior') \in Nat
          /\ Cardinality(DelCubo' \union DelAnterior') <= Cardinality(DelCubo') + Cardinality(DelAnterior')
      <4>1. /\ IsFiniteSet(DelCubo' \union DelAnterior')
            /\ Cardinality(DelCubo' \union DelAnterior') =
                 Cardinality(DelCubo') + Cardinality(DelAnterior') - Cardinality(DelCubo' \cap DelAnterior')
        BY <3>4, FS_Union
      <4>2. Cardinality(DelCubo' \cap DelAnterior') \in Nat
        <5>1. DelCubo' \cap DelAnterior' \subseteq DelCubo'
          OBVIOUS
        <5> QED BY <3>4, <5>1, NoCrece
      <4>3. Cardinality(DelCubo' \union DelAnterior') \in Nat
        BY <4>1, FS_CardinalityType
      <4> QED BY <3>4, <4>1, <4>2, <4>3
    <3>6. MemoriaEn(t)' \subseteq DelCubo' \union DelAnterior'
      BY <3>2
    <3>7. /\ Cardinality(MemoriaEn(t)') \in Nat
          /\ Cardinality(MemoriaEn(t)') <= Cardinality(DelCubo' \union DelAnterior')
      BY <3>5, <3>6, NoCrece
    <3> QED BY <1>b, <3>4, <3>5, <3>7
  <2>2. CASE s \notin MemoriaEn(t)' \/ Memoria' \subseteq Memoria
    <3>1. MemoriaEn(t)' \subseteq MemoriaEn(t) /\ MemoriaEn(t) \subseteq Memoria
      BY <2>2 DEF MemoriaEn
    <3>2. IsFiniteSet(MemoriaEn(t))
      BY <1>a, <3>1, NoCrece
    <3>3. /\ Cardinality(MemoriaEn(t)) \in Nat /\ Cardinality(MemoriaEn(t)') \in Nat
          /\ Cardinality(MemoriaEn(t)') <= Cardinality(MemoriaEn(t))
      BY <3>1, <3>2, NoCrece
    <3>4. Cardinality(MemoriaEn(t)) <= 2 * LimiteDegradado
      BY DEF CuboContado
    <3> QED BY ONLY <1>b, <3>3, <3>4
  <2> QED BY <2>1, <2>2
<1> QED BY <1>a, <1>1 DEF CuboContado

LEMMA PasoCubo ==
  ASSUME TypeOKLimite, VentanaContada, CuboContado, [NextLimite]_limiteVars
  PROVE  CuboContado'
<1> USE DEF PasarLimite
<1>a. /\ \A s \in Memoria : s \in admitidas /\ s \in Solicitantes /\ pasoLimite[s] = "fin"
      /\ \A s \in Solicitantes : marca[s] \in Nat
      /\ cubo.hasta \in Nat /\ cubo.cuenta \in Nat
  BY DEF Memoria, TypeOKLimite, VentanaContada
<1>1. CASE Correr \/ UNCHANGED limiteVars
  BY <1>1, CuboQuieto DEF Correr, limiteVars, Memoria
<1>2. ASSUME NEW s \in Solicitantes, Llegar(s)
      PROVE  CuboContado'
  <2>1. /\ s \notin Memoria /\ Memoria' = Memoria /\ cubo' = cubo
        /\ \A r \in Solicitantes : r # s => marca'[r] = marca[r]
    BY <1>2, <1>a DEF Llegar, Memoria, TypeOKLimite
  <2>2. \A r \in Memoria' : marca'[r] = marca[r]
    BY <1>a, <2>1
  <2> QED BY <2>1, <2>2, CuboQuieto
<1>3. ASSUME NEW s \in Solicitantes, Contar(s) \/ ContarConErrores(s) \/ Negar(s)
      PROVE  CuboContado'
  <2>1. desviadas \subseteq desviadas' /\ UNCHANGED <<cubo, marca, porMemoria>>
    BY <1>3 DEF Contar, ContarConErrores, Negar
  <2>2. Memoria' \subseteq Memoria
    BY <2>1 DEF Memoria
  <2> QED BY <2>1, <2>2, CuboQuieto
<1>4. ASSUME NEW s \in Solicitantes, NEW bien \in BOOLEAN, AnotarSolicitud(s, bien)
      PROVE  CuboContado'
  <2>1. desviadas \subseteq desviadas' /\ UNCHANGED <<cubo, marca, porMemoria>>
    BY <1>4 DEF AnotarSolicitud
  <2>2. Memoria' \subseteq Memoria
    BY <2>1 DEF Memoria
  <2> QED BY <2>1, <2>2, CuboQuieto
<1>5. ASSUME NEW s \in Solicitantes, Degradar(s)
      PROVE  CuboContado'
  <2>0. /\ UNCHANGED marca /\ pasoLimite[s] \in {"contar", "anotar", "negar"} /\ s \notin Memoria
        /\ desviadas \subseteq desviadas'
        /\ marca[s] + AnchoVentana < cubo.hasta => s \in desviadas'
        /\ marca[s] \in Nat /\ AnchoVentana \in Nat /\ marca[s] + AnchoVentana \in Nat
        /\ 1 <= AnchoVentana
    BY <1>5, <1>a, LimiteDegradadoTipo DEF Degradar
  <2>c. /\ IsFiniteSet(Memoria) /\ \A w \in Memoria : marca[w] < cubo.hasta
        /\ Cardinality(DelCubo) <= cubo.cuenta /\ cubo.cuenta <= LimiteDegradado
        /\ Cardinality(DelAnterior) <= LimiteDegradado
        /\ LimiteDegradado \in Nat /\ 1 <= LimiteDegradado
    BY LimiteDegradadoTipo DEF CuboContado
  <2>d. DelCubo \subseteq Memoria /\ DelAnterior \subseteq Memoria
    BY DEF DelCubo, DelAnterior
  <2>e. /\ IsFiniteSet(DelCubo) /\ Cardinality(DelCubo) \in Nat
        /\ IsFiniteSet(DelAnterior) /\ Cardinality(DelAnterior) \in Nat
    BY <2>c, <2>d, NoCrece
  <2>1. CASE cubo.hasta <= marca[s]
    <3>1. /\ cubo' = [cuenta |-> 1, hasta |-> marca[s] + AnchoVentana]
          /\ porMemoria' = porMemoria \union {s}
      BY <1>5, <2>1 DEF Degradar
    <3>2. /\ cubo'.cuenta = 1 /\ cubo'.hasta = marca[s] + AnchoVentana
          /\ cubo' \in [cuenta : Nat, hasta : Nat]
      BY <2>0, <3>1
    <3>3. Memoria' \subseteq Memoria \union {s}
      BY <2>0, <3>1 DEF Memoria
    <3>4. \A w \in Memoria' : marca'[w] < cubo'.hasta
      BY <1>a, <2>0, <2>1, <2>c, <3>2, <3>3
    <3>5. Cardinality(DelCubo') <= cubo'.cuenta
      <4>1. DelCubo' \subseteq {} \union {s}
        BY <1>a, <2>0, <2>1, <2>c, <3>2, <3>3 DEF DelCubo
      <4>2. IsFiniteSet({}) /\ Cardinality({}) = 0
        BY FS_EmptySet
      <4>3. Cardinality(DelCubo') <= Cardinality({}) + 1
        BY <4>1, <4>2, UnoMas
      <4> QED BY <3>2, <4>2, <4>3
    <3>6. Cardinality(DelAnterior') <= LimiteDegradado
      <4>1. DelAnterior' \subseteq DelCubo
        BY <1>a, <2>0, <2>1, <2>c, <3>2, <3>3 DEF DelCubo, DelAnterior
      <4>2. /\ Cardinality(DelAnterior') \in Nat
            /\ Cardinality(DelAnterior') <= Cardinality(DelCubo)
        BY <2>e, <4>1, NoCrece
      <4> QED BY <1>a, <2>c, <2>e, <4>2
    <3>7. cubo'.hasta <= marca[s] + AnchoVentana /\ cubo'.cuenta <= LimiteDegradado
      BY <2>0, <2>c, <3>2
    <3> QED BY <2>0, <3>2, <3>3, <3>4, <3>5, <3>6, <3>7, CuboUsado
  <2>2. CASE ~(cubo.hasta <= marca[s]) /\ cubo.cuenta < LimiteDegradado
    <3>1. /\ cubo' = [cubo EXCEPT !.cuenta = @ + 1]
          /\ porMemoria' = porMemoria \union {s}
      BY <1>5, <2>2 DEF Degradar
    <3>2. /\ cubo'.cuenta = cubo.cuenta + 1 /\ cubo'.hasta = cubo.hasta
          /\ cubo' \in [cuenta : Nat, hasta : Nat]
      BY <3>1 DEF TypeOKLimite
    <3>3. Memoria' \subseteq Memoria \union {s} /\ (s \in desviadas' => Memoria' \subseteq Memoria)
      BY <2>0, <3>1 DEF Memoria
    <3>4. \A w \in Memoria' : marca'[w] < cubo'.hasta
      BY <1>a, <2>0, <2>2, <2>c, <3>2, <3>3
    <3>5. Cardinality(DelCubo') <= cubo'.cuenta
      <4>1. DelCubo' \subseteq DelCubo \union {s}
        BY <2>0, <3>2, <3>3 DEF DelCubo
      <4>2. /\ Cardinality(DelCubo') \in Nat
            /\ Cardinality(DelCubo') <= Cardinality(DelCubo) + 1
        BY <2>e, <4>1, UnoMas
      <4> QED BY <1>a, <2>c, <2>e, <3>2, <4>2
    <3>6. Cardinality(DelAnterior') <= LimiteDegradado
      <4>1. DelAnterior' \subseteq DelAnterior
        BY <1>a, <2>0, <3>2, <3>3 DEF DelAnterior
      <4>2. /\ Cardinality(DelAnterior') \in Nat
            /\ Cardinality(DelAnterior') <= Cardinality(DelAnterior)
        BY <2>e, <4>1, NoCrece
      <4> QED BY <2>c, <2>e, <4>2
    <3>7. /\ cubo'.hasta <= marca[s] + AnchoVentana \/ Memoria' \subseteq Memoria
          /\ cubo'.cuenta <= LimiteDegradado
      BY <1>a, <2>0, <2>2, <2>c, <3>2, <3>3
    <3> QED BY <2>0, <3>2, <3>3, <3>4, <3>5, <3>6, <3>7, CuboUsado
  <2>3. CASE ~(cubo.hasta <= marca[s]) /\ ~(cubo.cuenta < LimiteDegradado)
    <3>1. UNCHANGED <<cubo, porMemoria>>
      BY <1>5, <2>3 DEF Degradar
    <3>2. Memoria' \subseteq Memoria
      BY <2>0, <3>1 DEF Memoria
    <3> QED BY <2>0, <3>1, <3>2, CuboQuieto
  <2> QED BY <2>1, <2>2, <2>3
<1> QED BY <1>1, <1>2, <1>3, <1>4, <1>5 DEF NextLimite

LEMMA PasoLimite ==
  ASSUME IndLimite, [NextLimite]_limiteVars
  PROVE  IndLimite'
BY PasoTiposLimite, PasoVentana, PasoCubo DEF IndLimite

LEMMA SolicitudesSiempreAcotadas == IndLimite => SolicitudesAcotadas
<1> SUFFICES ASSUME IndLimite, NEW t \in 1 .. MaxInstante
             PROVE  /\ Cardinality(EnVentana(t) \ (porMemoria \union desviadas)) <= LimiteVentana
                    /\ Cardinality((EnVentana(t) \intersect porMemoria) \ desviadas) <= 2 * LimiteDegradado
  BY DEF SolicitudesAcotadas
<1>1. EnVentana(t) \ (porMemoria \union desviadas) \subseteq ContadasEn(t)
  BY DEF EnVentana, ContadasEn, Contadas, Anotadas
<1>2. (EnVentana(t) \intersect porMemoria) \ desviadas \subseteq MemoriaEn(t)
  BY DEF EnVentana, MemoriaEn, Memoria
<1>3. ContadasEn(t) \subseteq Contadas /\ MemoriaEn(t) \subseteq Memoria
  BY DEF ContadasEn, MemoriaEn
<1>4. IsFiniteSet(ContadasEn(t)) /\ IsFiniteSet(MemoriaEn(t))
  BY <1>3, NoCrece DEF IndLimite, VentanaContada, CuboContado
<1>5. /\ Cardinality(ContadasEn(t)) <= LimiteVentana
      /\ Cardinality(MemoriaEn(t)) <= 2 * LimiteDegradado
  BY DEF IndLimite, VentanaContada, CuboContado
<1>6. /\ Cardinality(ContadasEn(t)) \in Nat
      /\ Cardinality(EnVentana(t) \ (porMemoria \union desviadas)) \in Nat
      /\ Cardinality(EnVentana(t) \ (porMemoria \union desviadas)) <= Cardinality(ContadasEn(t))
  BY <1>1, <1>4, NoCrece
<1>7. /\ Cardinality(MemoriaEn(t)) \in Nat
      /\ Cardinality((EnVentana(t) \intersect porMemoria) \ desviadas) \in Nat
      /\ Cardinality((EnVentana(t) \intersect porMemoria) \ desviadas) <= Cardinality(MemoriaEn(t))
  BY <1>2, <1>4, NoCrece
<1>8. LimiteVentana \in Nat /\ LimiteDegradado \in Nat
  BY LimiteDegradadoTipo
<1> QED BY ONLY <1>5, <1>6, <1>7, <1>8

-----------------------------------------------------------------------------
(* All of them: each moves by itself, without the orders in which the run  *)
(* has its calls arrive, and then in its turn                              *)

\* Saves that overlap never leave the certificate of one upload with the password of
\* another (the save() of CompaniesService, its configuration, plans and promotions).
THEOREM EmpresaConCertificado == SpecEmpresa => []CertificadoUsable
BY InicioEmpresa, PasoEmpresa, CertificadoSiempreUsable, PTL DEF SpecEmpresa

\* A company has the administrator of its own registration, whichever registrations
\* overlap or are cut, and a wizard is told that its RNC or its e-mail is taken only when
\* it is (the transaction of the registration and the wizard's screens).
THEOREM AltaCompleta == SpecOnboarding => [](AltaEntera /\ OcupadoExplicado)
BY InicioOnboarding, PasoOnboarding, AltaSiempreEntera, PTL DEF SpecOnboarding

\* The devices exceed what the plan ever allowed by no more than the reactivated and the
\* registrations that counted while another was about to insert.
THEOREM EquiposBajoLimite == SpecEquipos => []EquiposAcotados
BY InicioEquipos, PasoEquipos, EquiposSiempreAcotados, PTL DEF SpecEquipos

\* At most one key is usable for every key created, but for the rotations of one that was
\* revoked or that another rotation had read.
THEOREM LlavesBajoLimite == SpecLlaves => []LlavesAcotadas
BY InicioLlaves, PasoLlaves, LlavesSiempreAcotadas, PTL DEF SpecLlaves

\* At most one refresh token is active for every login, but for the refreshes that held
\* one token at the same time.
THEOREM SesionesBajoLimite == SpecSesiones => []SesionesAcotadas
<1>1. InitSesiones => IndSesiones /\ IndFichas
  BY InicioSesiones, InicioFichas DEF IndSesiones
<1>2. IndSesiones /\ IndFichas /\ [NextSesiones]_sesionVars => (IndSesiones /\ IndFichas)'
  BY PasoSesiones, PasoFichas DEF IndSesiones
<1>3. IndFichas => SesionesAcotadas
  BY SesionesSiempreAcotadas
<1> QED BY <1>1, <1>2, <1>3, PTL DEF SpecSesiones

\* In any window the guard lets through no more than its limit, and the bucket twice its
\* own, besides what overlapped, failed or came late.
THEOREM SolicitudesBajoLimite == SpecLimite => []SolicitudesAcotadas
BY InicioLimite, PasoLimite, SolicitudesSiempreAcotadas, PTL DEF SpecLimite

\* An accountant, or a member of its team, has access only to a company that was linked to
\* it when the call that gave it began, and a removed member has none that a call did not
\* give back.
THEOREM AccesoSiempreConRespaldo == SpecEquipoContador => []AccesoRespaldado
BY InicioContador, PasoContador, AccesoSiempreRespaldado, PTL DEF SpecEquipoContador

LEMMA CadaUnoPorSuParte ==
  /\ InitAcceso =>
       /\ InitSesiones /\ InitEquipos /\ InitLlaves /\ InitCuentas
       /\ InitEmpresa /\ InitOnboarding /\ InitSesionWeb /\ InitLimite /\ InitEquipoContador
       /\ parte \in {"sesiones", "equipos", "llaves", "cuentas", "empresa", "onboarding", "web",
                     "limite", "contador"}
  /\ [NextAcceso]_<<parte, usuarioVars, cuotaVars, portalVars>> =>
       /\ UNCHANGED parte
       /\ [NextSesiones]_sesionVars /\ [NextEquipos]_equipoVars /\ [NextLlaves]_llaveVars
       /\ [NextCuentas]_cuentaVars /\ [NextLimite]_limiteVars
       /\ [NextEquipoContador]_equipoContadorVars
       /\ [NextEmpresa]_empresaVars /\ [NextOnboarding]_onboardingVars
       /\ [NextSesionWeb]_sesionWebVars
BY DEF InitAcceso, NextAcceso, usuarioVars, cuotaVars, portalVars

\* What a company needs to begin: a certificate that opens, the administrator of its own
\* registration, and a 409 only for an RNC or an e-mail that is registered.
THEOREM EmpresaSiempreCoherente == SpecAcceso => []EmpresaCoherente
<1> DEFINE Ambas == IndEmpresa /\ IndOnboarding
           todas == <<parte, usuarioVars, cuotaVars, portalVars>>
<1>1. InitAcceso => Ambas
  BY CadaUnoPorSuParte, InicioEmpresa, InicioOnboarding
<1>2. Ambas /\ [NextAcceso]_todas => Ambas'
  BY CadaUnoPorSuParte, PasoEmpresa, PasoOnboarding
<1>3. Ambas => EmpresaCoherente
  BY CertificadoSiempreUsable, AltaSiempreEntera DEF EmpresaCoherente
<1> QED BY <1>1, <1>2, <1>3, PTL DEF SpecAcceso

\* A user that is switched off keeps no session, one is locked only after failed logins of
\* its own, and an accountant acts only for a company that was linked to it.
THEOREM CuentaSiempreProtegida == SpecAcceso => []CuentaProtegida
<1> DEFINE Ambas == IndSesiones /\ IndContador
           todas == <<parte, usuarioVars, cuotaVars, portalVars>>
<1>1. InitAcceso => Ambas
  BY CadaUnoPorSuParte, InicioSesiones, InicioContador DEF IndSesiones
<1>2. Ambas /\ [NextAcceso]_todas => Ambas'
  BY CadaUnoPorSuParte, PasoSesiones, PasoContador
<1>3. Ambas => CuentaProtegida
  BY AccesoSiempreRespaldado DEF CuentaProtegida, IndSesiones, IndBloqueo, IndBaja
<1> QED BY <1>1, <1>2, <1>3, PTL DEF SpecAcceso

\* The four limits that are counted before an insertion are exceeded only by what
\* overlapping calls account for.
THEOREM CuposSiempreAcotados == SpecAcceso => []CuposAcotados
<1> DEFINE Cuatro == IndSesiones /\ IndFichas /\ IndEquipos /\ IndLlaves /\ IndLimite
           todas == <<parte, usuarioVars, cuotaVars, portalVars>>
<1>1. InitAcceso => Cuatro
  BY CadaUnoPorSuParte, InicioSesiones, InicioFichas, InicioEquipos, InicioLlaves, InicioLimite
     DEF IndSesiones
<1>2. Cuatro /\ [NextAcceso]_todas => Cuatro'
  <2>1. Cuatro => TiposSesiones
    BY DEF IndSesiones
  <2> QED
    BY <2>1, CadaUnoPorSuParte, PasoSesiones, PasoFichas, PasoEquipos, PasoLlaves, PasoLimite
<1>3. Cuatro => CuposAcotados
  BY SesionesSiempreAcotadas, EquiposSiempreAcotados, LlavesSiempreAcotadas,
     SolicitudesSiempreAcotadas DEF CuposAcotados
<1> QED BY <1>1, <1>2, <1>3, PTL DEF SpecAcceso

\* Whichever component moves, its variables have their types.
THEOREM TiposDeAcceso == SpecAcceso => []TypeOKAcceso
<1> DEFINE Partes == parte \in {"sesiones", "equipos", "llaves", "cuentas", "empresa",
                                "onboarding", "web", "limite", "contador"}
           Todos == /\ IndSesiones /\ IndEquipos /\ IndLlaves /\ IndCuentas /\ IndEmpresa
                    /\ IndOnboarding /\ IndSesionWeb /\ TypeOKSesionWeb /\ IndLimite
                    /\ IndContador /\ Partes
           todas == <<parte, usuarioVars, cuotaVars, portalVars>>
<1>1. InitAcceso => Todos
  BY CadaUnoPorSuParte, InicioSesiones, InicioEquipos, InicioLlaves, InicioCuentas,
     InicioEmpresa, InicioOnboarding, InicioSesionWeb, TiposSesionWebAlInicio, InicioLimite,
     InicioContador DEF IndSesiones
<1>2. Todos /\ [NextAcceso]_todas => Todos'
  BY CadaUnoPorSuParte, PasoSesiones, PasoEquipos, PasoLlaves, PasoCuentas, PasoEmpresa,
     PasoOnboarding, PasoSesionWeb, PasoTiposSesionWeb, PasoLimite, PasoContador
<1>3. Todos => TypeOKAcceso
  BY DEF TypeOKAcceso, IndSesiones, TiposSesiones, IndEquipos, TiposEquipos, IndLlaves,
         TiposLlaves, IndCuentas, IndEmpresa, IndOnboarding, IndLimite, IndContador
<1> QED BY <1>1, <1>2, <1>3, PTL DEF SpecAcceso


=============================================================================
