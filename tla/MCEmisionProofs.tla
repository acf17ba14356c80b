----------------------------- MODULE MCEmisionProofs --------------------------
(***************************************************************************)
(* What the components of the issuing of invoices promise, in the          *)
(* composition that MCEmision checks: each one takes its own steps or      *)
(* stands still, so all that was proved of it alone holds there.           *)
(***************************************************************************)
EXTENDS MCEmision, PlanesUsoProofs, DocumentosProofs

\* A step of the composition is a step of each component or leaves it alone.
THEOREM CadaUnoPorSuLado ==
  SpecEmision => /\ Spec /\ SpecReintentos /\ SpecComprobantes
                 /\ SpecFormulario /\ SpecCertificacion /\ SpecLotes
                 /\ SpecRnc /\ SpecToken /\ SpecRecibidas
<1>1. InitEmision => /\ Init /\ InitReintentos /\ InitComprobantes
                     /\ InitFormulario /\ InitCertificacion /\ InitLotes
                     /\ InitRnc /\ InitToken /\ InitRecibidas
  BY DEF InitEmision
<1>2. [NextEmision]_<<parte, cupoVars, solicitudVars, dgiiVars>> =>
        /\ [Next]_vars /\ [NextReintentos]_colaReintentosVars
        /\ [NextComprobantes]_comprobanteVars
  BY DEF NextEmision, cupoVars
<1>3. [NextEmision]_<<parte, cupoVars, solicitudVars, dgiiVars>> =>
        /\ [NextFormulario]_formVars /\ [NextCertificacion]_certificacionVars
        /\ [NextLotes]_lotesVars
  BY DEF NextEmision, solicitudVars
<1>4. [NextEmision]_<<parte, cupoVars, solicitudVars, dgiiVars>> =>
        /\ [NextRnc]_rncVars /\ [NextToken]_tokenVars /\ [NextRecibidas]_recibidaVars
  BY DEF NextEmision, dgiiVars
<1> QED
  BY <1>1, <1>2, <1>3, <1>4, PTL
  DEF SpecEmision, Spec, SpecReintentos, SpecComprobantes, SpecFormulario, SpecCertificacion,
      SpecLotes, SpecRnc, SpecToken, SpecRecibidas

LEMMA TiposDelFormulario == SpecFormulario => []TypeOKFormulario
<1>1. InitFormulario => TypeOKFormulario
  <2> SUFFICES ASSUME InitFormulario PROVE TypeOKFormulario
    OBVIOUS
  <2>1. <<RenglonVacio>> \in Seq(RenglonForm)
    BY DEF RenglonVacio, RenglonForm
  <2>2. buscando \in BOOLEAN /\ tardia \in BOOLEAN /\ muda \in BOOLEAN
    BY DEF InitFormulario
  <2> QED
    BY <2>1, <2>2, FormularioAssumption
    DEF InitFormulario, TypeOKFormulario, SinCuerpo, RenglonForm
<1> QED BY <1>1, PasoTiposFormulario, PTL DEF SpecFormulario

\* In the composition, whichever component moves, every one of them keeps its types, for
\* any number of requests, retries, documents, keystrokes, certifications, files and calls.
THEOREM TiposDeEmision == SpecEmision => []TypeOKEmision
<1>1. SpecEmision => []TypeOK
  BY CadaUnoPorSuLado, TipoCorrecto, PTL
<1>2. SpecEmision => []TypeOKReintentos
  <2>1. IndReintentos => TypeOKReintentos
    BY DEF IndReintentos
  <2> QED BY CadaUnoPorSuLado, InicioReintentos, PasoReintentos, <2>1, PTL DEF SpecReintentos
<1>3. SpecEmision => []TypeOKComprobantes
  <2>1. IndComprobantes => TypeOKComprobantes
    BY DEF IndComprobantes
  <2> QED BY CadaUnoPorSuLado, InicioComprobantes, PasoComprobantes, <2>1, PTL DEF SpecComprobantes
<1>4. SpecEmision => []TypeOKFormulario
  BY CadaUnoPorSuLado, TiposDelFormulario, PTL
<1>5. SpecEmision => []TypeOKCertificacion
  <2>1. IndCertificacion => TypeOKCertificacion
    BY DEF IndCertificacion, TipoCertificacion
  <2> QED BY CadaUnoPorSuLado, InicioCertificacion, PasoCertificacion, <2>1, PTL
          DEF SpecCertificacion
<1>6. SpecEmision => []TypeOKLotes
  <2>1. IndLotes => TypeOKLotes
    BY DEF IndLotes
  <2> QED BY CadaUnoPorSuLado, InicioLotes, PasoLotes, <2>1, PTL DEF SpecLotes
<1>7. SpecEmision => []TypeOKRnc
  <2>1. IndRnc => TypeOKRnc
    BY DEF IndRnc
  <2> QED BY CadaUnoPorSuLado, InicioRnc, PasoRnc, <2>1, PTL DEF SpecRnc
<1>8. SpecEmision => []TypeOKToken
  BY CadaUnoPorSuLado, TipoCorrectoToken, PTL
<1>9. SpecEmision => []TypeOKRecibidas
  <2>1. IndRecibidas => TypeOKRecibidas
    BY DEF IndRecibidas
  <2> QED BY CadaUnoPorSuLado, InicioRecibidas, PasoRecibidas, <2>1, PTL DEF SpecRecibidas
<1> DEFINE Partes == {"cupo", "cupo_guardados", "reintentos", "montos", "formulario",
                      "certificacion", "lotes", "rnc", "token", "recibidas"}
<1>10. SpecEmision => [](parte \in Partes)
  <2>1. InitEmision => parte \in Partes
    BY DEF InitEmision
  <2>2. parte \in Partes /\ [NextEmision]_<<parte, cupoVars, solicitudVars, dgiiVars>> =>
          (parte \in Partes)'
    BY DEF NextEmision
  <2> HIDE DEF Partes
  <2> QED BY <2>1, <2>2, PTL DEF SpecEmision
<1>11. /\ TypeOK /\ TypeOKReintentos /\ TypeOKComprobantes /\ TypeOKFormulario
       /\ TypeOKCertificacion /\ TypeOKLotes /\ TypeOKRnc /\ TypeOKToken /\ TypeOKRecibidas
       /\ parte \in Partes
       => TypeOKEmision
  BY DEF TypeOKEmision
<1> HIDE DEF Partes
<1> QED BY <1>1, <1>2, <1>3, <1>4, <1>5, <1>6, <1>7, <1>8, <1>9, <1>10, <1>11, PTL

\* And each keeps its promise: no company is charged for more than was counted, no final
\* state without its answer, the summary as the threshold asks, the name of the receiver,
\* the certification set, the batch, the token, the approvals and the validation of RNCs.
THEOREM EmisionCumple ==
  SpecEmision =>
    /\ [](/\ NoSobrecuenta /\ ExcesoAcotado /\ FinalJustificado /\ ResumenSegunUmbral
          /\ NombreCoincide /\ SetCompleto /\ SinRepetir /\ RechazoExplicado
          /\ SinRechazosGratuitos /\ DecisionRespaldada)
    /\ ValidadoReciente
BY CadaUnoPorSuLado, SinSobrecuenta, ExcesoSiempreAcotado, FinalSiempreJustificado,
   ResumenSegunElUmbral, NombreSiempreCoincide, SetSiempreCompleto, NingunLoteRepite,
   RechazosExplicados, UnaClaveBasta, DecisionSiempreRespaldada,
   ValidacionSiempreReciente, PTL
=============================================================================
