-------------------------------- MODULE Empresa --------------------------------
(***************************************************************************)
(* The row of a company: its certificate, configuration, plan and          *)
(* environment (EmpresasService, PlanesService.cambiarPlan,                *)
(* AdminController.promoverAProduccion), and what FirmaService takes of it *)
(* to sign.                                                                *)
(*                                                                         *)
(* Every writer of the row is findOne, changes in memory and save, and     *)
(* TypeORM's save re-reads the row and updates the columns on which the    *)
(* entity in memory differs.  certificado_encriptado, salt_encriptacion    *)
(* and auth_tag are one column here: an upload draws a new IV, so two      *)
(* uploads differ on the three of them.                                    *)
(***************************************************************************)
EXTENDS Naturals

CONSTANTS
  Subidas,       \* POST /empresas/me/certificado requests
  VenceDe,       \* VenceDe[u]: notAfter of the certificate of upload u
  Validas,       \* uploads whose PKCS12 opens and has the RNC of the company
  Ajustes,       \* PATCH /empresas/me/configuracion requests
  PeticionesPlan,\* PATCH /empresas/me/plan requests
  Promociones,   \* PATCH /admin/empresas/:id/promover requests
  MaxDia,        \* bound: days the clock goes through
  Nada           \* SQL NULL

Guardados == Subidas \union Ajustes \union PeticionesPlan \union Promociones

ASSUME EmpresaAssumption ==
  /\ MaxDia \in Nat
  /\ VenceDe \in [Subidas -> Nat]
  /\ Validas \subseteq Subidas
  /\ Nada \notin Subidas \union Nat

VARIABLES
  hoy,           \* the day of the clock
  fila,          \* the row of the company
  pasoEmpresa,   \* pasoEmpresa[g]: where the request is
  copia,         \* copia[g]: the entity in memory
  distintas,     \* distintas[g]: columns save has decided to write
  deCertificacion \* are the certification sequences active?

guardadoVars == <<pasoEmpresa, copia, distintas>>
empresaVars == <<hoy, fila, guardadoVars, deCertificacion>>

ColumnasEmpresa == {"cert", "clave", "vence", "estado", "ambiente", "modo", "plan"}

FilaNueva == [cert |-> Nada, clave |-> Nada, vence |-> Nada, estado |-> "certificacion",
              ambiente |-> "certificacion", modo |-> "automatico", plan |-> "basico"]

InitEmpresa ==
  /\ hoy = 1
  /\ fila = FilaNueva
  /\ pasoEmpresa = [g \in Guardados |-> "inicio"]
  /\ copia = [g \in Guardados |-> FilaNueva]
  /\ distintas = [g \in Guardados |-> {}]
  /\ deCertificacion = TRUE

-----------------------------------------------------------------------------
(* uploadCertificado, updateConfiguracion, cambiarPlan, promoverAProduccion *)

\* validateExpiration, and the rest of what makes a certificate be refused.
Admitida(u) == u \in Validas /\ hoy <= VenceDe[u]

Cargado(u, f) == [f EXCEPT !.cert = u, !.clave = u, !.vence = VenceDe[u],
                    !.estado = IF @ = "certificacion" THEN "activo" ELSE @]

\* findOne, the checks, and the changes in memory.
LeerPara(g, nueva) ==
  /\ pasoEmpresa[g] = "inicio"
  /\ copia' = [copia EXCEPT ![g] = nueva]
  /\ pasoEmpresa' = [pasoEmpresa EXCEPT ![g] = "leida"]
  /\ UNCHANGED <<hoy, fila, distintas, deCertificacion>>

Subir(u) == Admitida(u) /\ LeerPara(u, Cargado(u, fila))
Ajustar(c) == LeerPara(c, [fila EXCEPT !.modo = "manual"])
PedirPlan(c) == LeerPara(c, [fila EXCEPT !.plan = "empresarial"])

\* A company that is in production already is left as it is.
Promover(p) == fila.ambiente # "produccion" /\ LeerPara(p, [fila EXCEPT !.ambiente = "produccion"])

\* save: the row is read again and compared.
CompararFila(g) ==
  /\ pasoEmpresa[g] = "leida"
  /\ distintas' = [distintas EXCEPT ![g] = {c \in ColumnasEmpresa : copia[g][c] # fila[c]}]
  /\ pasoEmpresa' = [pasoEmpresa EXCEPT ![g] = "comparada"]
  /\ UNCHANGED <<hoy, fila, copia, deCertificacion>>

\* Its UPDATE; promoverAProduccion goes on with the sequences.
GuardarFila(g) ==
  /\ pasoEmpresa[g] = "comparada"
  /\ fila' = [c \in ColumnasEmpresa |-> IF c \in distintas[g] THEN copia[g][c] ELSE fila[c]]
  /\ pasoEmpresa' = [pasoEmpresa EXCEPT ![g] = IF g \in Promociones THEN "secuencias" ELSE "fin"]
  /\ copia' = [copia EXCEPT ![g] = FilaNueva]
  /\ distintas' = [distintas EXCEPT ![g] = {}]
  /\ UNCHANGED <<hoy, deCertificacion>>

DesactivarSecuencias(p) ==
  /\ pasoEmpresa[p] = "secuencias"
  /\ pasoEmpresa' = [pasoEmpresa EXCEPT ![p] = "fin"]
  /\ deCertificacion' = FALSE
  /\ UNCHANGED <<hoy, fila, copia, distintas>>

Guardar(g) == CompararFila(g) \/ GuardarFila(g)

\* obtenerCertificado: the certificate opens with the password of its own upload.
Abre(f) == f.cert # Nada /\ f.clave = f.cert

NuevoDia ==
  /\ hoy < MaxDia
  /\ hoy' = hoy + 1
  /\ UNCHANGED <<fila, guardadoVars, deCertificacion>>

NextEmpresa ==
  \/ \E u \in Subidas : Subir(u)
  \/ \E c \in Ajustes : Ajustar(c)
  \/ \E c \in PeticionesPlan : PedirPlan(c)
  \/ \E p \in Promociones : Promover(p) \/ DesactivarSecuencias(p)
  \/ \E g \in Guardados : Guardar(g)
  \/ NuevoDia

SpecEmpresa == InitEmpresa /\ [][NextEmpresa]_empresaVars

-----------------------------------------------------------------------------
(* Properties                                                              *)

FilasEmpresa ==
  [cert : Subidas \union {Nada}, clave : Subidas \union {Nada}, vence : Nat \union {Nada},
   estado : {"certificacion", "activo"}, ambiente : {"certificacion", "produccion"},
   modo : {"automatico", "manual"}, plan : {"basico", "empresarial"}]

TypeOKEmpresa ==
  /\ hoy \in Nat
  /\ fila \in FilasEmpresa
  /\ pasoEmpresa \in [Guardados -> {"inicio", "leida", "comparada", "secuencias", "fin"}]
  /\ copia \in [Guardados -> FilasEmpresa]
  /\ distintas \in [Guardados -> SUBSET ColumnasEmpresa]
  /\ deCertificacion \in BOOLEAN

\* The certificate of a company always opens with the password stored beside it: saves
\* of uploads, of the configuration, of the plan and of a promotion that overlap, each
\* writing only the columns it found different, never leave the certificate of one
\* upload with the password of another, although they may restore an older one.
CertificadoUsable == fila.cert # Nada => Abre(fila)
=============================================================================
