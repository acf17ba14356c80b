------------------------- MODULE SecuenciasNcfProofs -------------------------
(***************************************************************************)
(* Proofs about SecuenciasNcf, for any number of requests, administrators, *)
(* sequences and bodies of POST and PATCH.                                 *)
(***************************************************************************)
EXTENDS SecuenciasNcf, TLAPS

-----------------------------------------------------------------------------
(* The rows the code builds are rows.                                      *)

\* create inserts a well-formed row, whatever its valid body.
LEMMA FilaNuevaTipo ==
  ASSUME NEW a \in Altas, NEW m \in Ambientes
  PROVE  FilaNueva(a, m) \in Fila
  BY DtosAssumption DEF DtosValidos, Alta, FilaNueva, Fila

\* Applying a valid PATCH to an entity leaves it well formed.
LEMMA AplicarTipo ==
  ASSUME NEW fila \in Fila, NEW d \in Dtos
  PROVE  Aplicar(fila, d) \in Fila
  <1>1. d \in Dto
    BY DtosAssumption DEF DtosValidos
  <1>2. /\ Definido(d.activo, fila.activo) \in BOOLEAN
        /\ Definido(d.prefijo, fila.prefijo) \in Prefijos
        /\ Definido(d.fin, fila.fin) \in Nat
        /\ Definido(d.actual, fila.actual) \in Nat
    BY <1>1 DEF Dto, Fila, Definido
  <1> QED
    BY <1>2 DEF Aplicar, ConColumnas, Fila

\* What save writes is well formed, whichever columns it has found dirty.
LEMMA FilaEscritaTipo ==
  ASSUME NEW e \in Ediciones, tabla[objetivo[e]] \in Fila, entidad[e] \in Fila
  PROVE  FilaEscrita(e) \in Fila
  BY DEF FilaEscrita, ConColumnas, Fila

-----------------------------------------------------------------------------
(* The inductive invariant.                                                *)

\* A locked row belongs to an open transaction, and the entity a transaction has
\* chosen is still the committed row: this is what SELECT ... FOR UPDATE buys.
Cerrojo ==
  /\ \A q \in Secuencias : dueno[q] # Nulo => fase[dueno[q]] = "abierta"
  /\ \A s \in Solicitudes : fase[s] = "inicio" => elegida[s] = Nulo
  /\ \A s \in Solicitudes :
       fase[s] = "abierta" /\ elegida[s] # Nulo =>
         /\ dueno[elegida[s]] = s
         /\ leida[s] \in Fila
         /\ leida[s] = tabla[elegida[s]]
         /\ leida[s].activo

\* The rows that requests and PATCHes refer to exist.
Referencias ==
  /\ \A s \in Solicitudes : \A q \in candidatas[s] : tabla[q] \in Fila
  /\ \A s \in Solicitudes : pedida[s] # Nulo => tabla[pedida[s]] \in Fila
  /\ \A s \in Solicitudes : asignado[s] # Nulo => tabla[asignado[s].sec] \in Fila
  /\ \A e \in Ediciones :
       pasoEd[e] \in {"leida", "comparada"} =>
         objetivo[e] \in Secuencias /\ tabla[objetivo[e]] \in Fila /\ entidad[e] \in Fila

\* A number is recorded when, and only when, the transaction has committed.
FaseAsignada ==
  \A s \in Solicitudes : fase[s] # "asignada" => asignado[s] = Nulo

\* Unless an UPDATE lowered it, numero_actual lies beyond the numbers handed out.
Superado ==
  \A s \in Solicitudes :
    (asignado[s] # Nulo /\ asignado[s].sec \notin regresadas)
      => asignado[s].numero < tabla[asignado[s].sec].actual

IInv == TypeOK /\ Cerrojo /\ Referencias /\ FaseAsignada /\ Superado /\ NumeroUnico

LEMMA IInvInit == Init => IInv
  BY NuloAssumption DEF Init, IInv, TypeOK, Cerrojo, Referencias, FaseAsignada, Superado,
     NumeroUnico, Fases

-----------------------------------------------------------------------------
(* One lemma per action.                                                   *)

LEMMA CrearInv ==
  ASSUME IInv, NEW q \in Secuencias, NEW a \in Altas, NEW m \in Ambientes, Crear(q, a, m)
  PROVE  IInv'
  <1> DEFINE f == FilaNueva(a, m)
  <1>1. f \in Fila /\ f # Nulo
    BY FilaNuevaTipo, NuloAssumption
  <1>2. tabla' = [tabla EXCEPT ![q] = f] /\ tabla[q] = Nulo
    BY DEF Crear, Existe
  <1>3. UNCHANGED <<varsSolicitud, varsEdicion, regresadas>>
    BY DEF Crear
  <1> HIDE DEF f
  <1>4. \A p \in Secuencias : tabla[p] \in Fila => p # q /\ tabla'[p] = tabla[p]
    BY <1>2, NuloAssumption DEF IInv, TypeOK
  <1>5. TypeOK'
    BY <1>1, <1>2, <1>3 DEF IInv, TypeOK, varsSolicitud, varsEdicion
  <1>6. Cerrojo'
    BY <1>3, <1>4 DEF IInv, TypeOK, Cerrojo, varsSolicitud
  <1>7. Referencias'
    BY <1>3, <1>4, NuloAssumption DEF IInv, TypeOK, Referencias, varsSolicitud, varsEdicion, Asignacion
  <1>8. Superado'
    BY <1>3, <1>4 DEF IInv, TypeOK, Referencias, Superado, varsSolicitud, Asignacion
  <1>9. FaseAsignada' /\ NumeroUnico'
    BY <1>3 DEF IInv, FaseAsignada, NumeroUnico, varsSolicitud
  <1> QED
    BY <1>5, <1>6, <1>7, <1>8, <1>9 DEF IInv

LEMMA ConsultarInv ==
  ASSUME IInv, NEW s \in Solicitudes, NEW t \in Tipos, NEW m \in Ambientes, Consultar(s, t, m)
  PROVE  IInv'
  <1>1. \A q \in Coinciden(t, m) : q \in Secuencias /\ tabla[q] \in Fila
    BY DEF Coinciden, Existe, IInv, TypeOK
  <1>2. TypeOK'
    BY <1>1 DEF Consultar, IInv, TypeOK, Fases, varsEdicion
  <1>3. Cerrojo' /\ FaseAsignada'
    BY DEF Consultar, IInv, TypeOK, Cerrojo, FaseAsignada
  <1>4. Referencias'
    BY <1>1 DEF Consultar, IInv, TypeOK, Referencias, varsEdicion
  <1>5. Superado' /\ NumeroUnico'
    BY DEF Consultar, IInv, Superado, NumeroUnico
  <1> QED
    BY <1>2, <1>3, <1>4, <1>5 DEF IInv

LEMMA AlcanzarInv ==
  ASSUME IInv, NEW s \in Solicitudes, NEW q \in Secuencias, Alcanzar(s, q)
  PROVE  IInv'
  <1>1. TypeOK'
    BY DEF Alcanzar, IInv, TypeOK, varsEdicion
  <1>2. Referencias'
    <2>1. \A r \in Solicitudes : \A p \in candidatas'[r] : p \in candidatas[r]
      BY DEF Alcanzar, IInv, TypeOK
    <2>2. \A r \in Solicitudes : pedida'[r] # Nulo => tabla[pedida'[r]] \in Fila
      BY DEF Alcanzar, IInv, TypeOK, Referencias
    <2> QED
      BY <2>1, <2>2 DEF Alcanzar, IInv, Referencias, varsEdicion
  <1>3. Cerrojo' /\ FaseAsignada' /\ Superado' /\ NumeroUnico'
    BY DEF Alcanzar, IInv, Cerrojo, FaseAsignada, Superado, NumeroUnico
  <1> QED
    BY <1>1, <1>2, <1>3 DEF IInv

LEMMA TomarInv ==
  ASSUME IInv, NEW s \in Solicitudes, Tomar(s)
  PROVE  IInv'
  <1> DEFINE q == pedida[s]
  <1>1. /\ q \in Secuencias /\ q # Nulo /\ dueno[q] = Nulo /\ tabla[q] \in Fila
        /\ fase[s] = "abierta" /\ s # Nulo
    BY NuloAssumption DEF Tomar, Libre, IInv, TypeOK, Referencias
  <1>2. /\ dueno' = [dueno EXCEPT ![q] = s]
        /\ pedida' = [pedida EXCEPT ![s] = Nulo]
        /\ UNCHANGED <<tabla, fase, candidatas, asignado, varsEdicion, regresadas>>
    BY DEF Tomar
  <1>3. \/ UNCHANGED <<elegida, leida>>
        \/ /\ tabla[q].activo
           /\ elegida' = [elegida EXCEPT ![s] = q]
           /\ leida' = [leida EXCEPT ![s] = tabla[q]]
    BY DEF Tomar, Vigente
  <1>4. TypeOK'
    <2>1. elegida' \in [Solicitudes -> Secuencias \union {Nulo}]
          /\ leida' \in [Solicitudes -> Fila \union {Nulo}]
      BY <1>1, <1>3 DEF IInv, TypeOK
    <2> QED
      BY <1>1, <1>2, <2>1 DEF IInv, TypeOK, varsEdicion
  <1>5. Cerrojo'
    <2>1. ASSUME NEW p \in Secuencias, dueno'[p] # Nulo
          PROVE  fase'[dueno'[p]] = "abierta"
      BY <2>1, <1>1, <1>2 DEF IInv, TypeOK, Cerrojo
    <2>2. ASSUME NEW r \in Solicitudes, fase'[r] = "inicio"
          PROVE  elegida'[r] = Nulo
      BY <2>2, <1>1, <1>2, <1>3 DEF IInv, TypeOK, Cerrojo
    <2>3. ASSUME NEW r \in Solicitudes, fase'[r] = "abierta", elegida'[r] # Nulo
          PROVE  /\ dueno'[elegida'[r]] = r /\ leida'[r] \in Fila
                 /\ leida'[r] = tabla'[elegida'[r]] /\ leida'[r].activo
      <3>1. CASE elegida'[r] = elegida[r] /\ leida'[r] = leida[r]
        <4>1. /\ elegida[r] \in Secuencias /\ dueno[elegida[r]] = r /\ r # Nulo
              /\ leida[r] \in Fila /\ leida[r] = tabla[elegida[r]] /\ leida[r].activo
          BY <2>3, <3>1, <1>2, NuloAssumption DEF IInv, TypeOK, Cerrojo
        <4>2. elegida[r] # q
          BY <4>1, <1>1
        <4> QED
          BY <3>1, <4>1, <4>2, <1>1, <1>2 DEF IInv, TypeOK
      <3>2. CASE ~(elegida'[r] = elegida[r] /\ leida'[r] = leida[r])
        <4>1. r = s /\ elegida'[r] = q /\ leida'[r] = tabla[q] /\ tabla[q].activo
          BY <2>3, <3>2, <1>1, <1>3 DEF IInv, TypeOK
        <4> QED
          BY <4>1, <1>1, <1>2 DEF IInv, TypeOK
      <3> QED
        BY <3>1, <3>2
    <2> QED
      BY <2>1, <2>2, <2>3 DEF Cerrojo
  <1>6. Referencias'
    BY <1>1, <1>2 DEF IInv, TypeOK, Referencias, varsEdicion
  <1>7. FaseAsignada' /\ Superado' /\ NumeroUnico'
    BY <1>2 DEF IInv, FaseAsignada, Superado, NumeroUnico
  <1> QED
    BY <1>4, <1>5, <1>6, <1>7 DEF IInv

\* A transaction that ends without a number, whatever the reason, keeps the
\* invariant.
LEMMA TerminarInv ==
  ASSUME IInv, NEW s \in Solicitudes, fase[s] = "abierta",
         NEW f \in {"rechazada", "caida", "abortada"}, Terminar(s, f)
  PROVE  IInv'
  <1>1. TypeOK'
    BY DEF Terminar, Soltar, IInv, TypeOK, Fases, varsEdicion
  <1>2. Cerrojo'
    <2>1. ASSUME NEW p \in Secuencias, dueno'[p] # Nulo
          PROVE  fase'[dueno'[p]] = "abierta"
      BY <2>1 DEF Terminar, Soltar, IInv, TypeOK, Cerrojo
    <2>2. ASSUME NEW r \in Solicitudes, fase'[r] = "abierta", elegida'[r] # Nulo
          PROVE  /\ dueno'[elegida'[r]] = r /\ leida'[r] \in Fila
                 /\ leida'[r] = tabla'[elegida'[r]] /\ leida'[r].activo
      <3>1. r # s /\ fase[r] = "abierta" /\ elegida[r] \in Secuencias
        BY <2>2 DEF Terminar, IInv, TypeOK
      <3> QED
        BY <2>2, <3>1 DEF Terminar, Soltar, IInv, TypeOK, Cerrojo
    <2>3. ASSUME NEW r \in Solicitudes, fase'[r] = "inicio"
          PROVE  elegida'[r] = Nulo
      BY <2>3 DEF Terminar, IInv, TypeOK, Cerrojo
    <2> QED
      BY <2>1, <2>2, <2>3 DEF Cerrojo
  <1>3. Referencias' /\ FaseAsignada' /\ Superado' /\ NumeroUnico'
    BY DEF Terminar, IInv, TypeOK, Referencias, FaseAsignada, Superado, NumeroUnico, varsEdicion
  <1> QED
    BY <1>1, <1>2, <1>3 DEF IInv

LEMMA ConfirmarInv ==
  ASSUME IInv, NEW s \in Solicitudes, Confirmar(s)
  PROVE  IInv'
  <1> DEFINE q == elegida[s]
  <1>1. /\ q \in Secuencias /\ dueno[q] = s /\ leida[s] = tabla[q] /\ tabla[q] \in Fila
        /\ tabla[q] # Nulo
    BY NuloAssumption DEF Confirmar, Recorrida, IInv, TypeOK, Cerrojo
  <1>2. /\ asignado'[s] \in Asignacion /\ asignado'[s] # Nulo
        /\ asignado'[s].sec = q /\ asignado'[s].numero = tabla[q].actual
    BY <1>1, NuloAssumption DEF Confirmar, IInv, TypeOK, Asignacion, Fila
  <1>3. /\ tabla'[q] \in Fila /\ tabla'[q].actual = tabla[q].actual + 1
        /\ \A p \in Secuencias : p # q => tabla'[p] = tabla[p]
    BY <1>1 DEF Confirmar, IInv, TypeOK, Fila
  <1>4. \A r \in Solicitudes : r # s => asignado'[r] = asignado[r] /\ fase'[r] = fase[r]
    BY DEF Confirmar, IInv, TypeOK
  <1>5. \A p \in Secuencias : tabla[p] \in Fila => tabla'[p] \in Fila
    BY <1>3
  <1>6. TypeOK'
    <2>1. tabla' \in [Secuencias -> Fila \union {Nulo}]
      BY <1>1, <1>3 DEF Confirmar, IInv, TypeOK
    <2>2. asignado' \in [Solicitudes -> Asignacion \union {Nulo}]
      BY <1>2, <1>4 DEF Confirmar, IInv, TypeOK
    <2> QED
      BY <2>1, <2>2 DEF Confirmar, Soltar, IInv, TypeOK, Fases, varsEdicion
  <1>7. Cerrojo'
    <2>1. ASSUME NEW p \in Secuencias, dueno'[p] # Nulo
          PROVE  fase'[dueno'[p]] = "abierta"
      BY <2>1 DEF Confirmar, Soltar, IInv, TypeOK, Cerrojo
    <2>2. ASSUME NEW r \in Solicitudes, fase'[r] = "abierta", elegida'[r] # Nulo
          PROVE  /\ dueno'[elegida'[r]] = r /\ leida'[r] \in Fila
                 /\ leida'[r] = tabla'[elegida'[r]] /\ leida'[r].activo
      <3>1. r # s /\ fase[r] = "abierta" /\ elegida[r] \in Secuencias
        BY <2>2, <1>4 DEF Confirmar, IInv, TypeOK
      <3>2. elegida[r] # q /\ dueno[elegida[r]] = r
        BY <2>2, <3>1, <1>1 DEF Confirmar, IInv, Cerrojo
      <3> QED
        BY <2>2, <3>1, <3>2, <1>3 DEF Confirmar, Soltar, IInv, TypeOK, Cerrojo
    <2>3. ASSUME NEW r \in Solicitudes, fase'[r] = "inicio"
          PROVE  elegida'[r] = Nulo
      BY <2>3 DEF Confirmar, IInv, TypeOK, Cerrojo
    <2> QED
      BY <2>1, <2>2, <2>3 DEF Cerrojo
  <1>8. Referencias'
    BY <1>1, <1>2, <1>3, <1>4, <1>5
       DEF Confirmar, IInv, TypeOK, Referencias, Asignacion, varsEdicion
  <1>9. FaseAsignada'
    BY <1>4 DEF Confirmar, IInv, TypeOK, FaseAsignada
  <1>10. Superado'
    <2>1. ASSUME NEW r \in Solicitudes, asignado'[r] # Nulo, asignado'[r].sec \notin regresadas
          PROVE  asignado'[r].numero < tabla'[asignado'[r].sec].actual
      <3>1. CASE r = s
        BY <3>1, <1>1, <1>2, <1>3 DEF Fila
      <3>2. CASE r # s
        <4>1. /\ asignado'[r] = asignado[r] /\ asignado[r] \in Asignacion
              /\ asignado[r].numero < tabla[asignado[r].sec].actual
          BY <2>1, <3>2, <1>4 DEF IInv, TypeOK, Superado
        <4> QED
          BY <4>1, <1>1, <1>3 DEF Asignacion, Fila
      <3> QED
        BY <3>1, <3>2
    <2> QED
      BY <2>1 DEF Superado, Confirmar
  <1>11. NumeroUnico'
    <2>1. ASSUME NEW r \in Solicitudes, r # s, asignado'[r] # Nulo,
                 asignado'[r].sec = q, q \notin regresadas
          PROVE  asignado'[r].numero # asignado'[s].numero
      <3>1. asignado[r].numero < tabla[q].actual /\ asignado[r] \in Asignacion
        BY <2>1, <1>4 DEF IInv, TypeOK, Superado
      <3> QED
        BY <2>1, <3>1, <1>1, <1>2, <1>4 DEF Asignacion, Fila
    <2> QED
      BY <2>1, <1>2, <1>4 DEF IInv, NumeroUnico, Confirmar
  <1> QED
    BY <1>6, <1>7, <1>8, <1>9, <1>10, <1>11 DEF IInv

LEMMA LeerInv ==
  ASSUME IInv, NEW e \in Ediciones, NEW q \in Secuencias, NEW d \in Dtos, Leer(e, q, d)
  PROVE  IInv'
  <1>1. tabla[q] \in Fila /\ Aplicar(tabla[q], d) \in Fila
    BY AplicarTipo DEF Leer, Existe, IInv, TypeOK
  <1>2. TypeOK'
    BY <1>1 DEF Leer, IInv, TypeOK, varsSolicitud
  <1>3. Referencias'
    BY <1>1 DEF Leer, IInv, TypeOK, Referencias, varsSolicitud
  <1>4. Cerrojo' /\ FaseAsignada' /\ Superado' /\ NumeroUnico'
    BY DEF Leer, IInv, Cerrojo, FaseAsignada, Superado, NumeroUnico, varsSolicitud
  <1> QED
    BY <1>2, <1>3, <1>4 DEF IInv

LEMMA CompararInv ==
  ASSUME IInv, NEW e \in Ediciones, Comparar(e)
  PROVE  IInv'
  <1>1. TypeOK'
    BY DEF Comparar, IInv, TypeOK, varsSolicitud
  <1>2. Referencias'
    BY DEF Comparar, IInv, TypeOK, Referencias, varsSolicitud
  <1>3. Cerrojo' /\ FaseAsignada' /\ Superado' /\ NumeroUnico'
    BY DEF Comparar, IInv, Cerrojo, FaseAsignada, Superado, NumeroUnico, varsSolicitud
  <1> QED
    BY <1>1, <1>2, <1>3 DEF IInv

\* With no dirty column the row that save would write is the committed one.
LEMMA FilaEscritaLimpia ==
  ASSUME NEW e \in Ediciones, tabla[objetivo[e]] \in Fila, sucias[e] = {}
  PROVE  FilaEscrita(e) = tabla[objetivo[e]]
  BY DEF FilaEscrita, ConColumnas, Fila

LEMMA EscribirInv ==
  ASSUME IInv, NEW e \in Ediciones, Escribir(e)
  PROVE  IInv'
  <1> DEFINE q == objetivo[e]
             f == FilaEscrita(e)
  <1>1. q \in Secuencias /\ tabla[q] \in Fila /\ f \in Fila
    BY FilaEscritaTipo DEF Escribir, IInv, Referencias
  <1>2. /\ UNCHANGED <<varsSolicitud, objetivo, entidad, sucias>>
        /\ pasoEd' = [pasoEd EXCEPT ![e] = "hecha"]
    BY DEF Escribir
  <1>3. CASE UNCHANGED <<tabla, regresadas>>
    <2>1. TypeOK'
      BY <1>2, <1>3 DEF IInv, TypeOK, varsSolicitud
    <2>2. Referencias'
      BY <1>2, <1>3 DEF IInv, TypeOK, Referencias, varsSolicitud
    <2>3. Cerrojo' /\ FaseAsignada' /\ Superado' /\ NumeroUnico'
      BY <1>2, <1>3 DEF IInv, Cerrojo, FaseAsignada, Superado, NumeroUnico, varsSolicitud
    <2> QED
      BY <2>1, <2>2, <2>3 DEF IInv
  <1>4. CASE /\ tabla' = [tabla EXCEPT ![q] = f]
             /\ regresadas' = IF f.actual < tabla[q].actual
                              THEN regresadas \union {q} ELSE regresadas
    <2>1. \A p \in Secuencias : dueno[p] # Nulo => tabla'[p] = tabla[p]
      BY <1>1, <1>4, FilaEscritaLimpia DEF Escribir, PuedeEscribir, IInv, TypeOK
    <2>2. \A p \in Secuencias : tabla[p] \in Fila => tabla'[p] \in Fila
      BY <1>1, <1>4 DEF IInv, TypeOK
    <2>3. TypeOK'
      BY <1>1, <1>2, <1>4 DEF IInv, TypeOK, varsSolicitud
    <2>4. Cerrojo'
      BY <1>2, <2>1, NuloAssumption DEF IInv, TypeOK, Cerrojo, varsSolicitud
    <2>5. Referencias'
      BY <1>2, <2>2 DEF IInv, TypeOK, Referencias, varsSolicitud, Asignacion
    <2>6. ASSUME NEW r \in Solicitudes, asignado[r] # Nulo,
                 asignado[r].sec \notin regresadas'
          PROVE  asignado[r].numero < tabla'[asignado[r].sec].actual
      <3>1. /\ asignado[r] \in Asignacion /\ asignado[r].sec \notin regresadas
            /\ asignado[r].numero < tabla[asignado[r].sec].actual
        BY <2>6, <1>4 DEF IInv, TypeOK, Superado
      <3>2. CASE asignado[r].sec = q
        <4>1. ~(f.actual < tabla[q].actual)
          BY <2>6, <3>2, <1>4
        <4>2. f.actual \in Nat /\ tabla[q].actual \in Nat /\ asignado[r].numero \in Nat
          BY <1>1, <3>1 DEF Fila, Asignacion
        <4>3. tabla'[q] = f
          BY <1>1, <1>4 DEF IInv, TypeOK
        <4> QED
          BY <3>1, <3>2, <4>1, <4>2, <4>3
      <3>3. CASE asignado[r].sec # q
        BY <3>1, <3>3, <1>4 DEF Asignacion, IInv, TypeOK
      <3> QED
        BY <3>2, <3>3
    <2>7. Superado'
      BY <1>2, <2>6 DEF Superado, varsSolicitud
    <2>8. FaseAsignada' /\ NumeroUnico'
      BY <1>2, <1>4 DEF IInv, FaseAsignada, NumeroUnico, varsSolicitud
    <2> QED
      BY <2>3, <2>4, <2>5, <2>7, <2>8 DEF IInv
  <1> QED
    BY <1>3, <1>4 DEF Escribir

-----------------------------------------------------------------------------
LEMMA NextInv == IInv /\ [Next]_vars => IInv'
  <1> SUFFICES ASSUME IInv, [Next]_vars
               PROVE  IInv'
    OBVIOUS
  <1>1. ASSUME NEW q \in Secuencias, NEW a \in Altas, NEW m \in Ambientes, Crear(q, a, m)
        PROVE  IInv'
    BY <1>1, CrearInv
  <1>2. ASSUME NEW s \in Solicitudes, Solicitar(s)
        PROVE  IInv'
    <2>1. ASSUME NEW t \in Tipos, NEW m \in Ambientes, Consultar(s, t, m)
          PROVE  IInv'
      BY <2>1, ConsultarInv
    <2>2. ASSUME NEW q \in Secuencias, Alcanzar(s, q)
          PROVE  IInv'
      BY <2>2, AlcanzarInv
    <2>3. CASE Tomar(s)
      BY <2>3, TomarInv
    <2>4. CASE SinSecuencia(s) \/ Agotada(s) \/ Caer(s) \/ Abortar(s)
      BY <2>4, TerminarInv DEF SinSecuencia, Agotada, Caer, Abortar, Recorrida
    <2>5. CASE Confirmar(s)
      BY <2>5, ConfirmarInv
    <2> QED
      BY <1>2, <2>1, <2>2, <2>3, <2>4, <2>5 DEF Solicitar
  <1>3. ASSUME NEW e \in Ediciones, Editar(e)
        PROVE  IInv'
    <2>1. ASSUME NEW q \in Secuencias, NEW d \in Dtos, Leer(e, q, d)
          PROVE  IInv'
      BY <2>1, LeerInv
    <2>2. CASE Comparar(e)
      BY <2>2, CompararInv
    <2>3. CASE Escribir(e)
      BY <2>3, EscribirInv
    <2> QED
      BY <1>3, <2>1, <2>2, <2>3 DEF Editar
  <1>4. CASE UNCHANGED vars
    BY <1>4 DEF vars, varsSolicitud, varsEdicion, IInv, TypeOK, Cerrojo, Referencias,
       FaseAsignada, Superado, NumeroUnico
  <1> QED
    BY <1>1, <1>2, <1>3, <1>4 DEF Next

\* The inductive invariant holds in every reachable state.
THEOREM Inductivo == Spec => []IInv
  BY IInvInit, NextInv, PTL DEF Spec

\* The tables, the transactions and the entities in memory stay well formed.
THEOREM TipoCorrecto == Spec => []TypeOK
  <1>1. IInv => TypeOK
    BY DEF IInv
  <1> QED
    BY <1>1, Inductivo, PTL

\* No number of a sequence is handed out twice, unless an UPDATE lowered its
\* numero_actual.
THEOREM NumerosUnicos == Spec => []NumeroUnico
  <1>1. IInv => NumeroUnico
    BY DEF IInv
  <1> QED
    BY <1>1, Inductivo, PTL

-----------------------------------------------------------------------------
(* What a step may do to an assignment.                                    *)

\* Numbers come only from rows that are active and inside their range when the
\* transaction commits.
THEOREM EntregasVigentes == Spec => EntregaVigente
  <1>1. ASSUME IInv, [Next]_vars, NEW s \in Solicitudes, asignado'[s] # asignado[s]
        PROVE  /\ tabla[asignado'[s].sec].activo
               /\ asignado'[s].numero = tabla[asignado'[s].sec].actual
               /\ tabla[asignado'[s].sec].actual <= tabla[asignado'[s].sec].fin
    <2>1. Confirmar(s)
      BY <1>1 DEF Next, vars, varsSolicitud, Solicitar, Editar, Crear, Consultar, Alcanzar, Tomar,
         SinSecuencia, Agotada, Confirmar, Caer, Abortar, Terminar, Leer, Comparar, Escribir, IInv, TypeOK
    <2>2. leida[s] = tabla[elegida[s]] /\ leida[s].activo
      BY <1>1, <2>1 DEF Confirmar, Recorrida, IInv, Cerrojo
    <2>3. asignado'[s].sec = elegida[s] /\ asignado'[s].numero = leida[s].actual
      BY <1>1, <2>1 DEF Confirmar, IInv, TypeOK
    <2> QED
      BY <2>1, <2>2, <2>3 DEF Confirmar
  <1>2. IInv /\ [Next]_vars =>
          [\A s \in Solicitudes :
             asignado'[s] # asignado[s] =>
               LET q == asignado'[s].sec
               IN /\ tabla[q].activo
                  /\ asignado'[s].numero = tabla[q].actual
                  /\ tabla[q].actual <= tabla[q].fin]_vars
    BY <1>1
  <1> QED
    BY <1>2, Inductivo, PTL DEF Spec, EntregaVigente
-----------------------------------------------------------------------------
(* The refinement of ContadorNcf.                                          *)

\* Only Confirmar assigns a number, and it assigns the current one of a row that
\* it moves forward by one: Entregar of the abstract counter.
LEMMA ConfirmarEntrega ==
  ASSUME IInv, NEW s \in Solicitudes, Confirmar(s)
  PROVE  Contador!Entregar(s, elegida[s])
  <1> DEFINE q == elegida[s]
  <1>1. /\ q \in Secuencias /\ leida[s] = tabla[q] /\ tabla[q] \in Fila
        /\ tabla[q] # Nulo /\ asignado[s] = Nulo
    BY NuloAssumption DEF Confirmar, Recorrida, IInv, TypeOK, Cerrojo, FaseAsignada
  <1>2. /\ asignado'[s] # Nulo
        /\ asignado'[s].sec = q /\ asignado'[s].numero = tabla[q].actual
        /\ \A r \in Solicitudes : r # s => asignado'[r] = asignado[r]
    BY <1>1, NuloAssumption DEF Confirmar, IInv, TypeOK, Asignacion, Fila
  <1>3. /\ tabla'[q] # Nulo /\ tabla'[q].actual = tabla[q].actual + 1
        /\ \A p \in Secuencias : p # q => tabla'[p] = tabla[p]
    BY <1>1, NuloAssumption DEF Confirmar, IInv, TypeOK, Fila
  <1>4. tabla[q].actual \in Nat
    BY <1>1 DEF Fila
  <1>5. Entregados[s] = Nulo /\ Siguientes[q] = tabla[q].actual
    BY <1>1 DEF Entregados, Siguientes
  <1>6. Entregados' = [Entregados EXCEPT ![s] = <<q, Siguientes[q]>>]
    BY <1>2, <1>5 DEF Entregados
  <1>7. Siguientes' = [Siguientes EXCEPT ![q] = @ + 1]
    BY <1>1, <1>3, <1>5 DEF Siguientes
  <1>8. Siguientes[q] # Nulo
    BY <1>4, <1>5, NuloAssumption
  <1> QED
    BY <1>5, <1>6, <1>7, <1>8 DEF Contador!Entregar

\* create opens an abstract sequence.
LEMMA CrearAbre ==
  ASSUME IInv, NEW q \in Secuencias, NEW a \in Altas, NEW m \in Ambientes, Crear(q, a, m)
  PROVE  Contador!Abrir(q)
  <1>1. FilaNueva(a, m) \in Fila /\ FilaNueva(a, m) # Nulo
    BY FilaNuevaTipo, NuloAssumption
  <1>2. /\ tabla[q] = Nulo /\ tabla'[q] # Nulo /\ tabla'[q].actual \in Nat
        /\ \A p \in Secuencias : p # q => tabla'[p] = tabla[p]
        /\ asignado' = asignado
    BY <1>1 DEF Crear, Existe, IInv, TypeOK, Fila, varsSolicitud
  <1> QED
    BY <1>2 DEF Contador!Abrir, Siguientes, Entregados

\* The UPDATE of a PATCH adjusts an abstract sequence.
LEMMA EscribirReajusta ==
  ASSUME IInv, NEW e \in Ediciones, Escribir(e), tabla' # tabla
  PROVE  Contador!Reajustar(objetivo[e])
  <1> DEFINE q == objetivo[e]
  <1>1. q \in Secuencias /\ tabla[q] \in Fila /\ FilaEscrita(e) \in Fila
    BY FilaEscritaTipo DEF Escribir, IInv, Referencias
  <1>2. /\ tabla[q] # Nulo /\ tabla'[q] # Nulo /\ tabla'[q].actual \in Nat
        /\ \A p \in Secuencias : p # q => tabla'[p] = tabla[p]
        /\ asignado' = asignado
    BY <1>1, NuloAssumption DEF Escribir, IInv, TypeOK, Fila, varsSolicitud
  <1> QED
    <2>1. Siguientes[q] = tabla[q].actual /\ tabla[q].actual \in Nat
      BY <1>1, <1>2 DEF Siguientes, Fila
    <2>2. Siguientes[q] # Nulo
      BY <2>1, NuloAssumption
    <2>3. Siguientes'[q] \in Nat /\ Siguientes' = [Siguientes EXCEPT ![q] = Siguientes'[q]]
      BY <1>1, <1>2 DEF Siguientes
    <2>4. UNCHANGED Entregados
      BY <1>2 DEF Entregados
    <2> QED
      BY <2>2, <2>3, <2>4 DEF Contador!Reajustar

\* Every other step leaves the abstract counter where it is.
LEMMA PasoContador ==
  ASSUME IInv, [Next]_vars
  PROVE  [Contador!Next]_(Contador!contadorVars)
  <1>1. CASE UNCHANGED <<tabla, asignado>>
    BY <1>1 DEF Contador!contadorVars, Siguientes, Entregados
  <1>2. CASE ~UNCHANGED <<tabla, asignado>>
    <2>1. ASSUME NEW q \in Secuencias, NEW a \in Altas, NEW m \in Ambientes, Crear(q, a, m)
          PROVE  Contador!Next
      BY <2>1, CrearAbre DEF Contador!Next
    <2>2. ASSUME NEW s \in Solicitudes, Confirmar(s)
          PROVE  Contador!Next
      <3>1. elegida[s] \in Secuencias
        BY <2>2 DEF Confirmar, IInv, TypeOK
      <3>2. Contador!Entregar(s, elegida[s])
        BY <2>2, ConfirmarEntrega
      <3> QED
        BY <3>1, <3>2 DEF Contador!Next
    <2>3. ASSUME NEW e \in Ediciones, Escribir(e)
          PROVE  Contador!Next
      <3>1. objetivo[e] \in Secuencias /\ tabla' # tabla
        BY <1>2, <2>3 DEF Escribir, IInv, Referencias, varsSolicitud
      <3>2. Contador!Reajustar(objetivo[e])
        BY <2>3, <3>1, EscribirReajusta
      <3> QED
        BY <3>1, <3>2 DEF Contador!Next
    <2>4. \/ \E q \in Secuencias, a \in Altas, m \in Ambientes : Crear(q, a, m)
          \/ \E s \in Solicitudes : Confirmar(s)
          \/ \E e \in Ediciones : Escribir(e)
      BY <1>2 DEF Next, vars, varsSolicitud, Solicitar, Editar, Crear, Consultar, Alcanzar, Tomar,
         SinSecuencia, Agotada, Confirmar, Caer, Abortar, Terminar, Leer, Comparar, Escribir
    <2> QED
      BY <2>1, <2>2, <2>3, <2>4
  <1> QED
    BY <1>1, <1>2

\* The service, whatever the number of requests and administrators, hands numbers
\* out as the atomic counter does.
THEOREM Refinamiento == Spec => ImplementaContador
  <1>1. Init => Contador!Init
    BY DEF Init, Contador!Init, Siguientes, Entregados
  <1> QED
    BY <1>1, PasoContador, Inductivo, PTL DEF Spec, ImplementaContador, Contador!Spec
=============================================================================
