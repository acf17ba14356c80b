------------------------------ MODULE Onboarding ------------------------------
(***************************************************************************)
(* The registration of a company: the wizard of the page Onboarding        *)
(* (registration, certificate, confirmation) and OnboardingService         *)
(* .registrar, which looks the RNC and the e-mail up and then inserts the  *)
(* company and its administrator in one transaction.                       *)
(*                                                                         *)
(* The validation of the fields is left out: what a wizard submits is      *)
(* valid.  Unique indexes are external: who inserts a value that an open   *)
(* transaction has inserted waits for it.                                  *)
(***************************************************************************)
EXTENDS Naturals

CONSTANTS
  Asistentes,    \* browsers with the wizard open
  RncDe,         \* RncDe[w], EmailDe[w]: what wizard w registers
  EmailDe,
  Altas,         \* POST /onboarding/registro requests
  AsistenteDe,   \* AsistenteDe[r]: the wizard that sends request r
  SinAlta

ASSUME OnboardingAssumption ==
  /\ AsistenteDe \in [Altas -> Asistentes]
  /\ SinAlta \notin Altas

VARIABLES
  registro,      \* registro[r]: where registrar is
  empresaDeRnc,  \* rows of empresas: the committed registration of each RNC
  usuarioDeEmail,\* rows of usuarios: the registration of each e-mail
  pantalla,      \* pantalla[w]: the step of the wizard
  enEspera,      \* enEspera[w]: the request whose answer it waits for
  mensaje,       \* mensaje[w]: what it shows: a 409, another error, or nothing
  conCertificado,\* conCertificado[w]: certificadoCargado
  sinNoticia     \* history: requests whose answer, or the login after it, was lost

servidorVars == <<registro, empresaDeRnc, usuarioDeEmail>>
asistenteVars == <<pantalla, enEspera, mensaje, conCertificado>>
onboardingVars == <<servidorVars, asistenteVars, sinNoticia>>

RncsPedidos == {RncDe[w] : w \in Asistentes}
EmailsPedidos == {EmailDe[w] : w \in Asistentes}
Rnc(r) == RncDe[AsistenteDe[r]]
Email(r) == EmailDe[AsistenteDe[r]]

InitOnboarding ==
  /\ registro = [r \in Altas |-> "inicio"]
  /\ empresaDeRnc = [n \in RncsPedidos |-> SinAlta]
  /\ usuarioDeEmail = [e \in EmailsPedidos |-> SinAlta]
  /\ pantalla = [w \in Asistentes |-> "registro"]
  /\ enEspera = [w \in Asistentes |-> SinAlta]
  /\ mensaje = [w \in Asistentes |-> "nada"]
  /\ conCertificado = [w \in Asistentes |-> FALSE]
  /\ sinNoticia = {}

-----------------------------------------------------------------------------
(* OnboardingService.registrar                                             *)

PasarAlta(r, p) == registro' = [registro EXCEPT ![r] = p]

Ocupado(r) == empresaDeRnc[Rnc(r)] # SinAlta \/ usuarioDeEmail[Email(r)] # SinAlta

\* The RNC, then the e-mail, are looked up: 409 if one is taken.
Comprobar(r) ==
  /\ registro[r] = "recibida"
  /\ PasarAlta(r, IF Ocupado(r) THEN "ocupada" ELSE "comprobada")
  /\ UNCHANGED <<empresaDeRnc, usuarioDeEmail, asistenteVars, sinNoticia>>

\* Transactions that have inserted this RNC, or this e-mail, and are still open.
AbiertasConRnc(n) == {r \in Altas : registro[r] \in {"empresa", "usuario"} /\ Rnc(r) = n}
AbiertasConEmail(e) == {r \in Altas : registro[r] = "usuario" /\ Email(r) = e}

InsertarNueva(r) ==
  /\ registro[r] = "comprobada"
  /\ AbiertasConRnc(Rnc(r)) = {}
  /\ PasarAlta(r, IF empresaDeRnc[Rnc(r)] = SinAlta THEN "empresa" ELSE "fallida")
  /\ UNCHANGED <<empresaDeRnc, usuarioDeEmail, asistenteVars, sinNoticia>>

\* Mutant: usuarios has no unique index on the e-mail, which is only looked up before.
EmailSinIndice(r) == TRUE

EmailLibre(r) == usuarioDeEmail[Email(r)] = SinAlta

\* The e-mail may have been committed meanwhile: then rollbackTransaction undoes the
\* insertion of the company.
InsertarAdministrador(r) ==
  /\ registro[r] = "empresa"
  /\ AbiertasConEmail(Email(r)) = {}
  /\ PasarAlta(r, IF EmailLibre(r) THEN "usuario" ELSE "fallida")
  /\ UNCHANGED <<empresaDeRnc, usuarioDeEmail, asistenteVars, sinNoticia>>

Confirmar(r) ==
  /\ registro[r] = "usuario"
  /\ PasarAlta(r, "hecha")
  /\ empresaDeRnc' = [empresaDeRnc EXCEPT ![Rnc(r)] = r]
  /\ usuarioDeEmail' = [usuarioDeEmail EXCEPT ![Email(r)] = r]
  /\ UNCHANGED <<asistenteVars, sinNoticia>>

\* The database fails in the middle, and the transaction is undone.
Deshacer(r) ==
  /\ registro[r] \in {"recibida", "comprobada", "empresa", "usuario"}
  /\ PasarAlta(r, "fallida")
  /\ UNCHANGED <<empresaDeRnc, usuarioDeEmail, asistenteVars, sinNoticia>>

-----------------------------------------------------------------------------
(* The wizard                                                              *)

\* RegistroStep.handleSubmit; its button is disabled while it waits.
EnviarAlta(w, r) ==
  /\ AsistenteDe[r] = w
  /\ pantalla[w] = "registro"
  /\ enEspera[w] = SinAlta
  /\ registro[r] = "inicio"
  /\ PasarAlta(r, "recibida")
  /\ enEspera' = [enEspera EXCEPT ![w] = r]
  /\ mensaje' = [mensaje EXCEPT ![w] = "nada"]
  /\ UNCHANGED <<empresaDeRnc, usuarioDeEmail, pantalla, conCertificado, sinNoticia>>

Avisar(w, m) ==
  /\ mensaje' = [mensaje EXCEPT ![w] = m]
  /\ enEspera' = [enEspera EXCEPT ![w] = SinAlta]
  /\ UNCHANGED <<servidorVars, pantalla, conCertificado>>

RecibirRechazo(w) ==
  /\ enEspera[w] # SinAlta
  /\ \/ registro[enEspera[w]] = "ocupada" /\ Avisar(w, "ocupado")
     \/ registro[enEspera[w]] = "fallida" /\ Avisar(w, "error")
  /\ UNCHANGED sinNoticia

\* 201, and the login that follows it succeeds.
EntrarTrasAlta(w) ==
  /\ enEspera[w] # SinAlta
  /\ registro[enEspera[w]] = "hecha"
  /\ pantalla' = [pantalla EXCEPT ![w] = "certificado"]
  /\ enEspera' = [enEspera EXCEPT ![w] = SinAlta]
  /\ UNCHANGED <<servidorVars, mensaje, conCertificado, sinNoticia>>

\* The connection breaks, or the login fails: the form stays, to be sent again.
PerderNoticia(w) ==
  /\ enEspera[w] # SinAlta
  /\ sinNoticia' = sinNoticia \union {enEspera[w]}
  /\ Avisar(w, "error")

\* CertificadoStep: the upload succeeds, fails, or is skipped.
CargarCertificado(w) ==
  /\ pantalla[w] = "certificado"
  /\ \/ /\ pantalla' = [pantalla EXCEPT ![w] = "confirmacion"]
        /\ conCertificado' = [conCertificado EXCEPT ![w] = TRUE]
        /\ UNCHANGED mensaje
     \/ /\ mensaje' = [mensaje EXCEPT ![w] = "error"]
        /\ UNCHANGED <<pantalla, conCertificado>>
  /\ UNCHANGED <<servidorVars, enEspera, sinNoticia>>

OmitirCertificado(w) ==
  /\ pantalla[w] = "certificado"
  /\ pantalla' = [pantalla EXCEPT ![w] = "confirmacion"]
  /\ conCertificado' = [conCertificado EXCEPT ![w] = FALSE]
  /\ UNCHANGED <<servidorVars, enEspera, mensaje, sinNoticia>>

NextOnboarding ==
  \/ \E r \in Altas : \/ Comprobar(r) \/ InsertarNueva(r) \/ InsertarAdministrador(r)
                      \/ Confirmar(r) \/ Deshacer(r)
  \/ \E w \in Asistentes, r \in Altas : EnviarAlta(w, r)
  \/ \E w \in Asistentes : \/ RecibirRechazo(w) \/ EntrarTrasAlta(w) \/ PerderNoticia(w)
                           \/ CargarCertificado(w) \/ OmitirCertificado(w)

SpecOnboarding == InitOnboarding /\ [][NextOnboarding]_onboardingVars

-----------------------------------------------------------------------------
(* Properties                                                              *)

TypeOKOnboarding ==
  /\ registro \in [Altas -> {"inicio", "recibida", "comprobada", "empresa", "usuario",
                             "hecha", "ocupada", "fallida"}]
  /\ empresaDeRnc \in [RncsPedidos -> Altas \union {SinAlta}]
  /\ usuarioDeEmail \in [EmailsPedidos -> Altas \union {SinAlta}]
  /\ pantalla \in [Asistentes -> {"registro", "certificado", "confirmacion"}]
  /\ enEspera \in [Asistentes -> Altas \union {SinAlta}]
  /\ mensaje \in [Asistentes -> {"nada", "ocupado", "error"}]
  /\ conCertificado \in [Asistentes -> BOOLEAN]
  /\ sinNoticia \subseteq Altas

\* A company has the administrator of its own registration, and no administrator is
\* without a company, whichever registrations of one RNC or one e-mail overlap and
\* wherever a transaction is cut; a wizard that goes on has registered its company.
AltaEntera ==
  /\ \A n \in RncsPedidos :
       empresaDeRnc[n] # SinAlta => usuarioDeEmail[Email(empresaDeRnc[n])] = empresaDeRnc[n]
  /\ \A e \in EmailsPedidos :
       usuarioDeEmail[e] # SinAlta => empresaDeRnc[Rnc(usuarioDeEmail[e])] = usuarioDeEmail[e]
  /\ \A w \in Asistentes :
       pantalla[w] # "registro" =>
         empresaDeRnc[RncDe[w]] # SinAlta /\ AsistenteDe[empresaDeRnc[RncDe[w]]] = w

\* A wizard is told that its RNC or its e-mail is taken by somebody else's company, or
\* by its own when the answer to an earlier request never came.
OcupadoExplicado ==
  \A w \in Asistentes :
    mensaje[w] = "ocupado" =>
      \E r \in Altas :
        /\ registro[r] = "hecha"
        /\ Rnc(r) = RncDe[w] \/ Email(r) = EmailDe[w]
        /\ AsistenteDe[r] # w \/ r \in sinNoticia
=============================================================================
