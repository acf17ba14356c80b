--------------------------- MODULE DocumentosProofs ---------------------------
(***************************************************************************)
(* Proofs about eight components that write or read a document, for any    *)
(* number of rows, calls, retries, keystrokes and steps: the amounts of an *)
(* invoice (Comprobantes), the batch (Lotes), the token of the DGII        *)
(* (TokenDgii), the commercial approvals of the invoices received          *)
(* (Recibidas), the retry queue (ColaReintentos), the name the invoice     *)
(* form shows (FormularioFactura), the validation of an RNC (Rnc) and the  *)
(* certification set (Certificacion).  Each has an inductive invariant of  *)
(* its own: what a call has in memory at each step, and what it entails    *)
(* about the rows it was read from.                                        *)
(***************************************************************************)
EXTENDS Comprobantes, Lotes, TokenDgii, Recibidas, ColaReintentos, FormularioFactura, Rnc,
        Certificacion, FiniteSetTheorems, SequenceTheorems, WellFoundedInduction, TLAPS

-----------------------------------------------------------------------------
(* The sums over the lines of a document                                   *)

\* The element that MapThenSumSet adds last.
Elegido(s) == CHOOSE x \in s : TRUE

\* g adds w over every part of A.
EsSuma(g, w, A) ==
  \A s \in SUBSET A :
    g[s] = IF s = {} THEN 0 ELSE w[Elegido(s)] + g[s \ {Elegido(s)}]

LEMMA ElegidoDentro == \A s : s # {} => Elegido(s) \in s
BY DEF Elegido

\* Among some parts of a finite set there is a least one: the induction of these proofs,
\* which needs no operator as a parameter.
LEMMA ParteMinima ==
  ASSUME NEW S, IsFiniteSet(S), NEW T, T \subseteq SUBSET S, T # {}
  PROVE  \E x \in T : \A y \in T : y \subseteq x => y = x
<1>1. IsWellFoundedOn(StrictSubsetOrdering(S), FiniteSubsetsOf(S))
  BY FS_StrictSubsetOrderingWellFounded
<1>2. T \subseteq FiniteSubsetsOf(S)
  BY FS_Subset DEF FiniteSubsetsOf
<1>3. \E x \in T : \A y \in T : <<y, x>> \notin StrictSubsetOrdering(S)
  BY <1>1, <1>2, WFMin
<1> QED BY <1>3 DEF StrictSubsetOrdering

\* So a set of numbers has a least one.
LEMMA HayMinimo ==
  ASSUME NEW S, S \subseteq Nat, S # {}
  PROVE  Min(S) \in S /\ \A n \in S : Min(S) <= n
<1>1. PICK k \in S : TRUE
  OBVIOUS
<1> DEFINE Tramo(n) == 0 .. n
           T == {t \in SUBSET Tramo(k) : \E n \in S : n <= k /\ t = Tramo(n)}
<1>2. \E n \in S : \A m \in S : n <= m
  <2>1. IsFiniteSet(Tramo(k))
    BY FS_Interval
  <2>2. Tramo(k) \in T
    OBVIOUS
  <2>3. T \subseteq SUBSET Tramo(k) /\ T # {}
    BY <2>2
  <2>4. PICK t \in T : \A u \in T : u \subseteq t => u = t
    <3> HIDE DEF T, Tramo
    <3> QED BY <2>1, <2>3, ParteMinima
  <2>5. PICK n \in S : n <= k /\ t = Tramo(n)
    OBVIOUS
  <2>6. ASSUME NEW m \in S, m < n PROVE FALSE
    <3>1. Tramo(m) \in T /\ Tramo(m) \subseteq t
      BY <2>5, <2>6
    <3>2. n \in Tramo(n) /\ n \notin Tramo(m)
      BY <2>6
    <3> QED BY <2>4, <2>5, <3>1, <3>2
  <2> QED BY <2>6
<1> QED BY <1>2, Zenon DEF Min

\* Two sums of the same weights agree on the parts they share, or they would differ on
\* a least one.
LEMMA SumaUnica ==
  ASSUME NEW S, IsFiniteSet(S), NEW w, NEW A \in SUBSET S, NEW B \in SUBSET S,
         NEW g, NEW h, EsSuma(g, w, A), EsSuma(h, w, B)
  PROVE  \A s \in SUBSET (A \cap B) : g[s] = h[s]
<1> DEFINE T == {s \in SUBSET (A \cap B) : g[s] # h[s]}
<1>1. SUFFICES ASSUME T # {} PROVE FALSE
  OBVIOUS
<1>2. T \subseteq SUBSET S
  OBVIOUS
<1>3. PICK s \in T : \A y \in T : y \subseteq s => y = s
  <2> HIDE DEF T
  <2> QED BY <1>1, <1>2, ParteMinima
<1>4. s \in SUBSET A /\ s \in SUBSET B /\ g[s] # h[s]
  BY <1>3
<1>5. s # {}
  BY <1>4 DEF EsSuma
<1>6. Elegido(s) \in s
  BY <1>5, ElegidoDentro
<1>7. s \ {Elegido(s)} \notin T
  BY <1>3, <1>6
<1>8. g[s \ {Elegido(s)}] = h[s \ {Elegido(s)}]
  BY <1>4, <1>7
<1> QED BY <1>4, <1>5, <1>8 DEF EsSuma

\* There is a sum over every finite set.
LEMMA HaySuma ==
  ASSUME NEW S, IsFiniteSet(S), NEW w \in [S -> Nat]
  PROVE  \E g \in [SUBSET S -> Nat] : EsSuma(g, w, S)
<1> DEFINE Hay(A) == \E g \in [SUBSET A -> Nat] : EsSuma(g, w, A)
           T == {A \in SUBSET S : ~Hay(A)}
<1>1. SUFFICES ASSUME T # {} PROVE FALSE
  OBVIOUS
<1>2. T \subseteq SUBSET S
  OBVIOUS
<1>3. PICK A \in T : \A y \in T : y \subseteq A => y = A
  <2> HIDE DEF T
  <2> QED BY <1>1, <1>2, ParteMinima
<1>4. A \in SUBSET S /\ ~Hay(A)
  BY <1>3
<1>5. ASSUME NEW B \in SUBSET A, B # A
      PROVE  Hay(B)
  <2>1. B \in SUBSET S /\ B \notin T
    BY <1>3, <1>4, <1>5
  <2> QED BY <2>1
<1> DEFINE G(B) == CHOOSE g : g \in [SUBSET B -> Nat] /\ EsSuma(g, w, B)
           h == [s \in SUBSET A |-> IF s = {} THEN 0 ELSE
                   w[Elegido(s)] + G(s \ {Elegido(s)})[s \ {Elegido(s)}]]
<1>6. ASSUME NEW B \in SUBSET A, B # A
      PROVE  G(B) \in [SUBSET B -> Nat] /\ EsSuma(G(B), w, B)
  <2>1. \E g : g \in [SUBSET B -> Nat] /\ EsSuma(g, w, B)
    BY <1>5, <1>6
  <2> QED BY ONLY <2>1, Zenon
<1> HIDE DEF G, Hay, T
<1>7. ASSUME NEW s \in SUBSET A, s # {}
      PROVE  /\ Elegido(s) \in s /\ s \ {Elegido(s)} \in SUBSET A
             /\ s \ {Elegido(s)} # A /\ w[Elegido(s)] \in Nat
  <2>1. Elegido(s) \in s
    BY <1>7, ElegidoDentro
  <2> QED BY <1>4, <2>1
<1>8. h \in [SUBSET A -> Nat]
  <2>1. ASSUME NEW s \in SUBSET A, s # {}
        PROVE  w[Elegido(s)] + G(s \ {Elegido(s)})[s \ {Elegido(s)}] \in Nat
    <3> DEFINE r == s \ {Elegido(s)}
    <3>1. G(r)[r] \in Nat
      <4>1. r \in SUBSET A /\ r # A
        BY <1>7, <2>1
      <4>2. G(r) \in [SUBSET r -> Nat] /\ r \in SUBSET r
        BY <1>6, <4>1
      <4> HIDE DEF r
      <4> QED BY <4>2
    <3> QED BY <1>7, <2>1, <3>1
  <2> QED BY <2>1
<1>9. ASSUME NEW r \in SUBSET A, r # A
      PROVE  h[r] = G(r)[r]
  <2>1. EsSuma(G(r), w, r) /\ r \in SUBSET r
    BY <1>6, <1>9
  <2>2. CASE r = {}
    BY <2>1, <2>2 DEF EsSuma
  <2>3. CASE r # {}
    <3> DEFINE q == r \ {Elegido(r)}
    <3>1. h[r] = w[Elegido(r)] + G(q)[q] /\ G(r)[r] = w[Elegido(r)] + G(r)[q]
      BY <2>1, <2>3 DEF EsSuma
    <3>2. q \in SUBSET A /\ q # A /\ q \in SUBSET (q \cap r) /\ q \in SUBSET S /\ r \in SUBSET S
      BY <1>4, <1>7, <2>3
    <3>3. EsSuma(G(q), w, q)
      BY <1>6, <3>2
    <3>4. G(q)[q] = G(r)[q]
      <4> DEFINE gq == G(q)
                 gr == G(r)
      <4>1. EsSuma(gq, w, q) /\ EsSuma(gr, w, r)
        BY <2>1, <3>3
      <4> HIDE DEF q, gq, gr
      <4>2. \A s \in SUBSET (q \cap r) : gq[s] = gr[s]
        BY <3>2, <4>1, SumaUnica
      <4>3. gq[q] = gr[q]
        BY <3>2, <4>2
      <4> QED BY <4>3 DEF gq, gr
    <3> QED BY <3>1, <3>4
  <2> QED BY <2>2, <2>3
<1>10. EsSuma(h, w, A)
  <2>1. ASSUME NEW s \in SUBSET A
        PROVE  h[s] = IF s = {} THEN 0 ELSE w[Elegido(s)] + h[s \ {Elegido(s)}]
    <3>1. CASE s = {}
      BY <3>1
    <3>2. CASE s # {}
      <4>1. h[s] = w[Elegido(s)] + G(s \ {Elegido(s)})[s \ {Elegido(s)}]
        BY <3>2
      <4>2. h[s \ {Elegido(s)}] = G(s \ {Elegido(s)})[s \ {Elegido(s)}]
        BY <1>7, <1>9, <3>2
      <4> HIDE DEF h
      <4> QED BY <3>2, <4>1, <4>2
    <3> QED BY <3>1, <3>2
  <2> HIDE DEF h
  <2> QED BY <2>1 DEF EsSuma
<1> QED BY <1>4, <1>8, <1>10 DEF Hay

\* So the CHOOSE of the recursive function in MapThenSumSet names one, and it is a number.
LEMMA SubtotalNatural ==
  ASSUME NEW ls, IsFiniteSet(DOMAIN ls), \A i \in DOMAIN ls : Monto(ls[i]) \in Nat
  PROVE  Subtotal(ls) \in Nat
<1> DEFINE D == DOMAIN ls
           w == [i \in D |-> Monto(ls[i])]
           F(it) == [s \in SUBSET D |-> IF s = {} THEN 0 ELSE Monto(ls[Elegido(s)]) + it[s \ {Elegido(s)}]]
           suma == CHOOSE it : it = F(it)
<1>1. Subtotal(ls) = suma[D]
  BY DEF Subtotal, MapThenSumSet, MapThenFoldSet, Elegido
<1>2. w \in [D -> Nat]
  OBVIOUS
<1>3. PICK g \in [SUBSET D -> Nat] : EsSuma(g, w, D)
  <2> HIDE DEF w, D
  <2> QED BY <1>2, HaySuma DEF D
<1>4. \A s \in SUBSET D : s # {} => w[Elegido(s)] = Monto(ls[Elegido(s)])
  BY ElegidoDentro
<1>5. g = F(g)
  BY <1>3, <1>4 DEF EsSuma
<1>6. suma = F(suma)
  <2> HIDE DEF F
  <2> QED BY <1>5
<1>7. EsSuma(suma, w, D)
  <2> HIDE DEF suma, w
  <2> QED BY <1>4, <1>6 DEF EsSuma
<1>8. suma[D] = g[D]
  <2> HIDE DEF suma, w, D, F
  <2> QED BY <1>3, <1>7, SumaUnica DEF D
<1> QED BY <1>1, <1>3, <1>8

LEMMA TotalItbisNatural ==
  ASSUME NEW ls, IsFiniteSet(DOMAIN ls), \A i \in DOMAIN ls : Itbis(ls[i]) \in Nat
  PROVE  TotalItbis(ls) \in Nat
<1> DEFINE D == DOMAIN ls
           w == [i \in D |-> Itbis(ls[i])]
           F(it) == [s \in SUBSET D |-> IF s = {} THEN 0 ELSE Itbis(ls[Elegido(s)]) + it[s \ {Elegido(s)}]]
           suma == CHOOSE it : it = F(it)
<1>1. TotalItbis(ls) = suma[D]
  BY DEF TotalItbis, MapThenSumSet, MapThenFoldSet, Elegido
<1>2. w \in [D -> Nat]
  OBVIOUS
<1>3. PICK g \in [SUBSET D -> Nat] : EsSuma(g, w, D)
  <2> HIDE DEF w, D
  <2> QED BY <1>2, HaySuma DEF D
<1>4. \A s \in SUBSET D : s # {} => w[Elegido(s)] = Itbis(ls[Elegido(s)])
  BY ElegidoDentro
<1>5. g = F(g)
  BY <1>3, <1>4 DEF EsSuma
<1>6. suma = F(suma)
  <2> HIDE DEF F
  <2> QED BY <1>5
<1>7. EsSuma(suma, w, D)
  <2> HIDE DEF suma, w
  <2> QED BY <1>4, <1>6 DEF EsSuma
<1>8. suma[D] = g[D]
  <2> HIDE DEF suma, w, D, F
  <2> QED BY <1>3, <1>7, SumaUnica DEF D
<1> QED BY <1>1, <1>3, <1>8

-----------------------------------------------------------------------------
(* The amounts of a document                                               *)

LEMMA SumasNaturales ==
  ASSUME NEW n \in Nat, NEW ls \in [1 .. n -> LineasApi]
  PROVE  Subtotal(ls) \in Nat /\ TotalItbis(ls) \in Nat /\ Total(ls) \in Nat
<1>1. IsFiniteSet(DOMAIN ls)
  BY FS_Interval
<1>2. ASSUME NEW i \in DOMAIN ls
      PROVE  Monto(ls[i]) \in Nat /\ Itbis(ls[i]) \in Nat
  <2>1. ls[i].cant \in Nat /\ ls[i].precio \in Nat /\ ls[i].tasa \in Nat
    BY ComprobantesAssumption
  <2>2. \A a, b, c \in Nat : a * b * c \in Nat
    OBVIOUS
  <2> QED BY <2>1, <2>2 DEF Monto, Itbis
<1>3. Subtotal(ls) \in Nat /\ TotalItbis(ls) \in Nat
  BY <1>1, <1>2, SubtotalNatural, TotalItbisNatural
<1> QED BY <1>3 DEF Total

\* The lines of a request, and whether it gave its amounts.
ConLineas == \E n \in 1 .. MaxLineasApi : peticion.lineas \in [1 .. n -> LineasApi]
TodoONada ==
  \/ peticion.sub = NoDado /\ peticion.itbis = NoDado /\ peticion.total = NoDado
  \/ peticion.sub \in Nat /\ peticion.itbis \in Nat /\ peticion.total \in Nat

\* How far from the sum of the lines each amount may be, in each phase.
Cercania ==
  /\ fase # "libre" => ConLineas
  /\ fase \in {"recibida", "aceptada"} /\ ~parcial => TodoONada
  /\ fase = "aceptada" /\ ~parcial /\ peticion.sub # NoDado => Cuadra(peticion)
  /\ fase \in {"numerada", "convertida", "transmitida"} =>
       /\ peticion.total \in Nat
       /\ ~parcial => Distancia(peticion.total * Centavo, Total(peticion.lineas)) <= 3 * Centavo
  /\ fase \in {"convertida", "transmitida"} =>
       2 * Distancia(xml.total * Centavo, Total(peticion.lineas)) <= Centavo
  /\ fase = "transmitida" => resumen = DebeUsarResumen(peticion.tipo, peticion.total)

IndComprobantes == TypeOKComprobantes /\ Cercania

\* toFixed(2) is at most half a cent away.
LEMMA RedondeoCerca ==
  ASSUME NEW x \in Nat, NEW n \in Redondeos(x)
  PROVE  n \in Nat /\ 2 * Distancia(n * Centavo, x) <= Centavo
BY DEF Redondeos, Centavo

LEMMA DeclaradoNatural ==
  ASSUME NEW x \in Nat, NEW n \in Declarados(x)
  PROVE  n \in Nat \union {NoDado}
<1>1. \A d \in Desvios : d \in Int /\ x \div Centavo + d \in Int
  BY ComprobantesAssumption DEF Centavo
<1> QED BY <1>1 DEF Declarados

\* What the schema lets through is at most a cent away.
LEMMA DentroDeTolerancia ==
  ASSUME NEW a \in Int, NEW b \in Int, FALSE \in Excede(a, b)
  PROVE  Distancia(a, b) <= Centavo /\ Distancia(a, b) \in Int
<1>1. Distancia(a, b) \in Int
  BY DEF Distancia
<1>2. CASE Distancia(a, b) = Centavo
  BY <1>1, <1>2 DEF Centavo
<1>3. CASE Distancia(a, b) # Centavo
  <2>1. FALSE \in {Distancia(a, b) > Centavo}
    BY <1>3 DEF Excede
  <2>2. ~(Distancia(a, b) > Centavo)
    BY <2>1, Zenon
  <2> QED BY <1>1, <2>2 DEF Centavo
<1> QED BY <1>2, <1>3

LEMMA InicioComprobantes == ASSUME InitComprobantes PROVE IndComprobantes
<1> USE DEF InitComprobantes, PeticionVacia, SinTotales
<1>1. /\ peticion["sub"] = NoDado /\ peticion["itbis"] = NoDado /\ peticion["total"] = NoDado
      /\ peticion.tipo = "E31"
  OBVIOUS
<1>2. TypeOKComprobantes
  BY <1>1 DEF TypeOKComprobantes, Montos
<1>3. Cercania
  BY DEF Cercania
<1> QED BY <1>2, <1>3 DEF IndComprobantes

LEMMA PasoComprobantes ==
  ASSUME IndComprobantes, [NextComprobantes]_comprobanteVars
  PROVE  IndComprobantes'
<1>a. /\ fase \in {"libre", "recibida", "rechazada", "aceptada", "numerada", "convertida",
                   "sin_xml", "transmitida"}
      /\ peticion.tipo \in {"E31", "E32"}
      /\ peticion.sub \in Nat \union {NoDado} /\ peticion.itbis \in Nat \union {NoDado}
      /\ peticion.total \in Nat \union {NoDado}
      /\ parcial \in BOOLEAN /\ resumen \in BOOLEAN
      /\ xml \in [gravado : Nat, itbis : Nat, total : Nat]
  BY DEF IndComprobantes, TypeOKComprobantes, Montos
<1>b. NoDado \notin Nat
  BY ComprobantesAssumption
<1>c. fase # "libre" => /\ Subtotal(peticion.lineas) \in Nat /\ TotalItbis(peticion.lineas) \in Nat
                        /\ Total(peticion.lineas) \in Nat
  <2>1. SUFFICES ASSUME NEW n \in 1 .. MaxLineasApi, peticion.lineas \in [1 .. n -> LineasApi]
                 PROVE  /\ Subtotal(peticion.lineas) \in Nat /\ TotalItbis(peticion.lineas) \in Nat
                        /\ Total(peticion.lineas) \in Nat
    BY DEF IndComprobantes, Cercania, ConLineas
  <2>2. n \in Nat
    BY ComprobantesAssumption
  <2> QED BY <2>1, <2>2, SumasNaturales
<1>1. ASSUME NEW n \in 1 .. MaxLineasApi, NEW ls \in [1 .. n -> LineasApi],
             NEW tipo \in {"E31", "E32"}, Pedir(ls, tipo)
      PROVE  IndComprobantes'
  <2>1. PICK s \in Declarados(Subtotal(ls)), i \in Declarados(TotalItbis(ls)),
              t \in Declarados(Total(ls)) :
          /\ peticion' = [lineas |-> ls, sub |-> s, itbis |-> i, total |-> t, tipo |-> tipo]
          /\ parcial' = ({s, i, t} # {NoDado} /\ NoDado \in {s, i, t})
    BY <1>1 DEF Pedir
  <2>2. n \in Nat
    BY ComprobantesAssumption
  <2>3. /\ s \in Nat \union {NoDado} /\ i \in Nat \union {NoDado} /\ t \in Nat \union {NoDado}
    BY <2>2, SumasNaturales, DeclaradoNatural
  <2>4. /\ peticion'.sub = s /\ peticion'.itbis = i /\ peticion'.total = t
        /\ peticion'.tipo = tipo /\ peticion'.lineas = ls
        /\ peticion'["sub"] = s /\ peticion'["itbis"] = i /\ peticion'["total"] = t
    BY <2>1
  <2>5. fase' = "recibida" /\ UNCHANGED <<xml, resumen>>
    BY <1>1 DEF Pedir
  <2>6. parcial' \in BOOLEAN /\ (~parcial' => (s = NoDado /\ i = NoDado /\ t = NoDado) \/ NoDado \notin {s, i, t})
    BY <2>1
  <2>7. TypeOKComprobantes'
    BY <1>a, <2>3, <2>4, <2>5, <2>6 DEF TypeOKComprobantes, Montos
  <2>8. ConLineas'
    BY <2>4 DEF ConLineas
  <2>9. ~parcial' => TodoONada'
    BY <2>3, <2>4, <2>6 DEF TodoONada
  <2> QED BY <2>5, <2>7, <2>8, <2>9 DEF IndComprobantes, Cercania
<1>2. CASE Validar
  <2>1. /\ fase = "recibida" /\ fase' = "aceptada" /\ UNCHANGED <<peticion, parcial, xml, resumen>>
        /\ Dados(peticion) = Montos => Cuadra(peticion)
    BY <1>2 DEF Validar
  <2>2. TypeOKComprobantes'
    BY <2>1 DEF IndComprobantes, TypeOKComprobantes
  <2>3. ConLineas /\ (~parcial => TodoONada)
    BY <2>1 DEF IndComprobantes, Cercania
  <2>4. ~parcial /\ peticion.sub # NoDado => Cuadra(peticion)
    <3>1. SUFFICES ASSUME ~parcial, peticion.sub # NoDado
                   PROVE  Dados(peticion) = Montos
      BY <2>1
    <3>2. peticion.sub \in Nat /\ peticion.itbis \in Nat /\ peticion.total \in Nat
      BY <2>3, <3>1 DEF TodoONada
    <3>3. peticion["sub"] # NoDado /\ peticion["itbis"] # NoDado /\ peticion["total"] # NoDado
      BY <1>b, <3>2
    <3> QED BY <3>3 DEF Dados, Montos
  <2> QED BY <2>1, <2>2, <2>3, <2>4 DEF IndComprobantes, Cercania, ConLineas, TodoONada
<1>3. CASE Devolver
  <2>1. fase = "recibida" /\ fase' = "rechazada" /\ UNCHANGED <<peticion, parcial, xml, resumen>>
    BY <1>3 DEF Devolver
  <2> QED BY <2>1 DEF IndComprobantes, TypeOKComprobantes, Cercania, ConLineas
<1>4. CASE Numerar
  <2>1. PICK s \in Redondeos(Subtotal(peticion.lineas)),
              i \in Redondeos(TotalItbis(peticion.lineas)),
              t \in Redondeos(Total(peticion.lineas)) : peticion' = Completado(peticion, s, i, t)
    BY <1>4 DEF Numerar
  <2>2. fase = "aceptada" /\ fase' = "numerada" /\ UNCHANGED <<parcial, xml, resumen>>
    BY <1>4 DEF Numerar
  <2>3. s \in Nat /\ i \in Nat /\ t \in Nat /\ 2 * Distancia(t * Centavo, Total(peticion.lineas)) <= Centavo
    BY <1>c, <2>2, RedondeoCerca
  <2>4. /\ peticion'.lineas = peticion.lineas /\ peticion'.tipo = peticion.tipo
        /\ peticion'.sub = (IF peticion.sub = NoDado THEN s ELSE peticion.sub)
        /\ peticion'.itbis = (IF peticion.itbis = NoDado THEN i ELSE peticion.itbis)
        /\ peticion'.total = (IF peticion.total = NoDado THEN t ELSE peticion.total)
    BY <2>1 DEF Completado
  <2>5. peticion'.sub \in Nat /\ peticion'.itbis \in Nat /\ peticion'.total \in Nat
    BY <1>a, <2>3, <2>4
  <2>6. TypeOKComprobantes'
    <3>1. peticion'["sub"] \in Nat /\ peticion'["itbis"] \in Nat /\ peticion'["total"] \in Nat
      BY <2>5
    <3> QED BY <1>a, <2>2, <2>4, <3>1 DEF TypeOKComprobantes, Montos
  <2>7. ConLineas'
    BY <2>2, <2>4 DEF IndComprobantes, Cercania, ConLineas
  <2>8. ASSUME ~parcial
        PROVE  Distancia(peticion'.total * Centavo, Total(peticion.lineas)) <= 3 * Centavo
    <3>1. TodoONada
      BY <2>2, <2>8 DEF IndComprobantes, Cercania
    <3>2. CASE peticion.total = NoDado
      <4>1. peticion'.total = t
        BY <2>4, <3>2
      <4> QED BY <1>c, <2>2, <2>3, <4>1 DEF Distancia, Centavo
    <3>3. CASE peticion.total # NoDado
      <4>1. peticion.sub \in Nat /\ peticion.itbis \in Nat /\ peticion.total \in Nat
        BY <3>1, <3>3 DEF TodoONada
      <4>2. Cuadra(peticion)
        BY <1>b, <2>2, <2>8, <4>1 DEF IndComprobantes, Cercania
      <4> DEFINE a == peticion.sub * Centavo
                 b == peticion.itbis * Centavo
                 c == peticion.total * Centavo
                 sum == Subtotal(peticion.lineas)
                 imp == TotalItbis(peticion.lineas)
      <4>3. /\ a \in Nat /\ b \in Nat /\ c \in Nat /\ sum \in Nat /\ imp \in Nat
            /\ (peticion.sub + peticion.itbis) * Centavo = a + b
        BY <1>c, <2>2, <4>1 DEF Centavo
      <4>4. Distancia(a, sum) <= Centavo /\ Distancia(b, imp) <= Centavo /\ Distancia(c, a + b) <= Centavo
        <5>1. FALSE \in Excede(a, sum) /\ FALSE \in Excede(b, imp) /\ FALSE \in Excede(c, a + b)
          BY <4>2, <4>3 DEF Cuadra
        <5>2. a \in Int /\ b \in Int /\ c \in Int /\ sum \in Int /\ imp \in Int /\ a + b \in Int
          BY <4>3
        <5> HIDE DEF a, b, c, sum, imp
        <5>3. Distancia(a, sum) <= Centavo
          BY <5>1, <5>2, DentroDeTolerancia
        <5>4. Distancia(b, imp) <= Centavo
          BY <5>1, <5>2, DentroDeTolerancia
        <5>5. Distancia(c, a + b) <= Centavo
          BY <5>1, <5>2, DentroDeTolerancia
        <5> QED BY <5>3, <5>4, <5>5
      <4>5. Distancia(c, sum + imp) <= 3 * Centavo
        <5> HIDE DEF a, b, c, sum, imp
        <5> QED BY <4>3, <4>4 DEF Distancia, Centavo
      <4>6. peticion'.total = peticion.total /\ Total(peticion.lineas) = sum + imp
        BY <2>4, <3>3 DEF Total
      <4> QED BY <4>5, <4>6
    <3> QED BY <3>2, <3>3
  <2> QED BY <2>2, <2>4, <2>5, <2>6, <2>7, <2>8 DEF IndComprobantes, Cercania
<1>5. ASSUME NEW aprobado \in BOOLEAN, Convertir(aprobado)
      PROVE  IndComprobantes'
  <2>1. PICK x \in TotalesXml(peticion.lineas) : xml' = x
    BY <1>5 DEF Convertir
  <2>2. /\ fase = "numerada" /\ fase' \in {"convertida", "sin_xml"}
        /\ UNCHANGED <<peticion, parcial, resumen>>
    BY <1>5 DEF Convertir
  <2>3. /\ x \in [gravado : Nat, itbis : Nat, total : Nat]
        /\ 2 * Distancia(x.total * Centavo, Total(peticion.lineas)) <= Centavo
    <3>1. /\ x \in [gravado : Redondeos(Subtotal(peticion.lineas)),
                    itbis : Redondeos(TotalItbis(peticion.lineas)),
                    total : Redondeos(Total(peticion.lineas))]
      BY DEF TotalesXml
    <3>2. /\ x.gravado \in Redondeos(Subtotal(peticion.lineas))
          /\ x.itbis \in Redondeos(TotalItbis(peticion.lineas))
          /\ x.total \in Redondeos(Total(peticion.lineas))
          /\ x = [gravado |-> x.gravado, itbis |-> x.itbis, total |-> x.total]
      BY <3>1
    <3>3. /\ x.gravado \in Nat /\ x.itbis \in Nat /\ x.total \in Nat
          /\ 2 * Distancia(x.total * Centavo, Total(peticion.lineas)) <= Centavo
      BY <1>c, <2>2, <3>2, RedondeoCerca
    <3> QED BY <3>2, <3>3
  <2>4. TypeOKComprobantes'
    BY <2>1, <2>2, <2>3 DEF IndComprobantes, TypeOKComprobantes
  <2> QED BY <2>1, <2>2, <2>3, <2>4 DEF IndComprobantes, Cercania, ConLineas
<1>6. CASE Transmitir
  <2>1. /\ fase = "convertida" /\ fase' = "transmitida" /\ UNCHANGED <<peticion, parcial, xml>>
        /\ resumen' = DebeUsarResumen(peticion.tipo, peticion.total)
    BY <1>6 DEF Transmitir
  <2>2. resumen' \in BOOLEAN
    BY <2>1 DEF DebeUsarResumen
  <2>3. TypeOKComprobantes'
    BY <2>1, <2>2 DEF IndComprobantes, TypeOKComprobantes
  <2> QED BY <2>1, <2>3 DEF IndComprobantes, Cercania, ConLineas
<1>7. CASE UNCHANGED comprobanteVars
  BY <1>7 DEF comprobanteVars, IndComprobantes, TypeOKComprobantes, Cercania, ConLineas, TodoONada
<1> QED BY <1>1, <1>2, <1>3, <1>4, <1>5, <1>6, <1>7 DEF NextComprobantes

LEMMA ResumenCerca == IndComprobantes => ResumenSegunUmbral
<1> SUFFICES ASSUME IndComprobantes, fase = "transmitida", peticion.tipo = "E32", ~parcial
             PROVE  \/ resumen = (xml.total < Umbral)
                    \/ Distancia(xml.total, Umbral) <= 3
  BY DEF ResumenSegunUmbral
<1> DEFINE total == Total(peticion.lineas)
<1>1. /\ peticion.total \in Nat /\ xml.total \in Nat /\ Umbral \in Nat
      /\ Distancia(peticion.total * Centavo, total) <= 3 * Centavo
      /\ 2 * Distancia(xml.total * Centavo, total) <= Centavo
      /\ resumen = (peticion.total < Umbral)
  BY ComprobantesAssumption DEF IndComprobantes, Cercania, TypeOKComprobantes, DebeUsarResumen
<1>2. total \in Nat
  <2>1. PICK n \in 1 .. MaxLineasApi : peticion.lineas \in [1 .. n -> LineasApi]
    BY DEF IndComprobantes, Cercania, ConLineas
  <2>2. n \in Nat
    BY ComprobantesAssumption
  <2> QED BY <2>1, <2>2, SumasNaturales
<1> HIDE DEF total
<1>3. Distancia(xml.total, peticion.total) <= 3
  BY <1>1, <1>2 DEF Distancia, Centavo
<1>4. CASE (peticion.total < Umbral) = (xml.total < Umbral)
  BY <1>1, <1>4
<1>5. CASE (peticion.total < Umbral) # (xml.total < Umbral)
  BY <1>1, <1>3, <1>5 DEF Distancia
<1> QED BY <1>4, <1>5

\* Whatever the lines, the tolerances and the roundings, the complete invoice or the
\* summary is chosen as the total of the XML would choose it, or that total is within
\* three cents of the threshold.
THEOREM ResumenSegunElUmbral == SpecComprobantes => []ResumenSegunUmbral
BY InicioComprobantes, PasoComprobantes, ResumenCerca, PTL DEF SpecComprobantes

-----------------------------------------------------------------------------
(* Batches of invoices                                                     *)

\* Every file has rows with numbers, and the next group is one of those that are left.
LEMMA GrupoSiguienteDentro ==
  ASSUME NEW a \in Archivos, NEW gs, gs \subseteq Grupos(a), gs # {}
  PROVE  GrupoSiguiente(a, gs) \in gs
<1> DEFINE fs == {i \in FilasValidas[a] : GrupoDe(a, i) \in gs}
<1>1. FilasValidas[a] \subseteq Nat
  BY LotesAssumption DEF FilasValidas, Filas, LineasEscritas
<1>2. fs \subseteq Nat /\ fs # {}
  BY <1>1 DEF Grupos
<1>3. Min(fs) \in fs
  <2> HIDE DEF fs
  <2> QED BY <1>2, HayMinimo
<1>4. GrupoDe(a, Min(fs)) \in gs
  BY <1>3
<1> QED BY <1>4 DEF GrupoSiguiente
\* FacturaDe, with the file given.
Factura(a, p, g) ==
  [lote |-> p, grupo |-> g, filas |-> FilasDelGrupo(a, g),
   receptor |-> Registros[a][Min(FilasDelGrupo(a, g))][<<"rnc_receptor">>]]

Dichos(p) == aciertos[p] \union fracasos[p]

\* What a request reports, besides the groups that it has still to issue.
Informado ==
  /\ restantesLote \in [Cargas -> SUBSET UNION {Grupos(a) : a \in Archivos}]
  /\ DOMAIN aciertos = Cargas /\ DOMAIN fracasos = Cargas
  /\ \A p \in Cargas :
       /\ aciertos[p] \intersect fracasos[p] = {}
       /\ IF archivoDe[p] = SinArchivo THEN restantesLote[p] = {} /\ Dichos(p) = {}
          ELSE /\ restantesLote[p] \intersect Dichos(p) = {}
               /\ restantesLote[p] \union Dichos(p) = Grupos(archivoDe[p])
               /\ \A g \in aciertos[p] : Factura(archivoDe[p], p, g) \in emitidasLote

\* An invoice is the one of its request and its group, and the report has the group.
Emitidas ==
  \A f \in emitidasLote :
    /\ f.lote \in Cargas /\ f.grupo \in Dichos(f.lote)
    /\ f = Factura(archivoDe[f.lote], f.lote, f.grupo)

\* The page waits for one request at most.
EnEspera ==
  /\ emitiendo <=> sinRespuesta # {}
  /\ \A p \in sinRespuesta : archivoDe[p] # SinArchivo /\ sinRespuesta = {p}

Hechas(a) == {p \in Cargas : archivoDe[p] = a}

\* The user may still ask for the file that is chosen.
PorPedir(a) ==
  IF archivo = a /\ ~resultadoLote /\ \A p \in sinRespuesta : archivoDe[p] # a THEN 1 ELSE 0

\* Each request for a file used up a choice of it or an answer that was lost.
Gastadas ==
  \A a \in Archivos :
    /\ IsFiniteSet(Hechas(a))
    /\ Grupos(a) # {} =>
         Cardinality(Hechas(a)) + PorPedir(a) <= elecciones[a] + perdidasLote[a]

IndLotes == TypeOKLotes /\ Informado /\ Emitidas /\ EnEspera /\ Gastadas

LEMMA InicioLotes == ASSUME InitLotes PROVE IndLotes
<1>1. TypeOKLotes
  BY DEF InitLotes, TypeOKLotes
<1>2. Informado /\ Emitidas /\ EnEspera
  BY DEF InitLotes, Informado, Emitidas, EnEspera, Dichos
<1>3. Gastadas
  <2> SUFFICES ASSUME NEW a \in Archivos
               PROVE  /\ IsFiniteSet(Hechas(a))
                      /\ Cardinality(Hechas(a)) + PorPedir(a) <= elecciones[a] + perdidasLote[a]
    BY DEF Gastadas
  <2>1. Hechas(a) = {} /\ PorPedir(a) = 0 /\ elecciones[a] = 0 /\ perdidasLote[a] = 0
    BY LotesAssumption DEF InitLotes, Hechas, PorPedir
  <2> QED BY <2>1, FS_EmptySet
<1> QED BY <1>1, <1>2, <1>3 DEF IndLotes

LEMMA PasoGrupo ==
  ASSUME IndLotes, NEW p \in Cargas, EmitirGrupo(p) \/ FallarGrupo(p)
  PROVE  IndLotes'
<1> DEFINE a == archivoDe[p]
           g == GrupoSiguiente(a, restantesLote[p])
<1>0. /\ UNCHANGED <<paginaVars, archivoDe, sinRespuesta, perdidasLote>>
      /\ fallosLote' \in Nat
      /\ restantesLote' = [restantesLote EXCEPT ![p] = @ \ {g}]
  BY DEF IndLotes, TypeOKLotes, EmitirGrupo, FallarGrupo
<1>1. a \in Archivos /\ restantesLote[p] \subseteq Grupos(a) /\ restantesLote[p] # {}
  BY DEF IndLotes, TypeOKLotes, Informado, EmitirGrupo, FallarGrupo
<1>2. g \in restantesLote[p]
  BY <1>1, GrupoSiguienteDentro
<1>3. FacturaDe(p, g) = Factura(a, p, g)
  BY DEF FacturaDe, Factura
<1>4. \/ /\ emitidasLote' = emitidasLote \union {Factura(a, p, g)}
         /\ aciertos' = [aciertos EXCEPT ![p] = @ \union {g}] /\ fracasos' = fracasos
      \/ /\ emitidasLote' \in {emitidasLote, emitidasLote \union {Factura(a, p, g)}}
         /\ fracasos' = [fracasos EXCEPT ![p] = @ \union {g}] /\ aciertos' = aciertos
  BY <1>3 DEF EmitirGrupo, FallarGrupo
<1>5. a # SinArchivo /\ g \notin Dichos(p) /\ SinArchivo \notin Archivos
  BY <1>1, <1>2, LotesAssumption DEF IndLotes, Informado
<1>6. TypeOKLotes'
  BY <1>0 DEF IndLotes, TypeOKLotes, paginaVars
<1>7. EnEspera' /\ Gastadas'
  BY <1>0 DEF IndLotes, EnEspera, Gastadas, Hechas, PorPedir, paginaVars
<1> HIDE DEF g, a
<1>8. DOMAIN aciertos' = Cargas /\ DOMAIN fracasos' = Cargas
  BY <1>4 DEF IndLotes, Informado
<1>9. \A q \in Cargas : q # p =>
        aciertos'[q] = aciertos[q] /\ fracasos'[q] = fracasos[q] /\ restantesLote'[q] = restantesLote[q]
  BY <1>0, <1>4 DEF IndLotes, Informado
<1>10. /\ restantesLote'[p] = restantesLote[p] \ {g}
       /\ \/ /\ aciertos'[p] = aciertos[p] \union {g} /\ fracasos'[p] = fracasos[p]
             /\ emitidasLote' = emitidasLote \union {Factura(a, p, g)}
          \/ /\ aciertos'[p] = aciertos[p] /\ fracasos'[p] = fracasos[p] \union {g}
             /\ emitidasLote' \in {emitidasLote, emitidasLote \union {Factura(a, p, g)}}
  BY <1>0, <1>4 DEF IndLotes, Informado
<1>11. Informado'
  <2>1. restantesLote' \in [Cargas -> SUBSET UNION {Grupos(b) : b \in Archivos}]
    BY <1>0 DEF IndLotes, Informado
  <2>2. ASSUME NEW q \in Cargas
        PROVE  /\ aciertos'[q] \intersect fracasos'[q] = {}
               /\ IF archivoDe[q] = SinArchivo
                  THEN restantesLote'[q] = {} /\ aciertos'[q] \union fracasos'[q] = {}
                  ELSE /\ restantesLote'[q] \intersect (aciertos'[q] \union fracasos'[q]) = {}
                       /\ restantesLote'[q] \union (aciertos'[q] \union fracasos'[q]) = Grupos(archivoDe[q])
                       /\ \A h \in aciertos'[q] : Factura(archivoDe[q], q, h) \in emitidasLote'
    <3>1. CASE q # p
      BY <1>9, <1>10, <3>1 DEF IndLotes, Informado, Dichos
    <3>2. CASE q = p
      <4>1. /\ aciertos[p] \intersect fracasos[p] = {}
            /\ restantesLote[p] \intersect Dichos(p) = {}
            /\ restantesLote[p] \union Dichos(p) = Grupos(a)
            /\ \A h \in aciertos[p] : Factura(a, p, h) \in emitidasLote
        BY <1>5 DEF IndLotes, Informado, a
      <4>2. /\ aciertos'[p] \intersect fracasos'[p] = {}
            /\ restantesLote'[p] \intersect (aciertos'[p] \union fracasos'[p]) = {}
            /\ restantesLote'[p] \union (aciertos'[p] \union fracasos'[p]) = Grupos(a)
            /\ \A h \in aciertos'[p] : Factura(a, p, h) \in emitidasLote'
        BY ONLY <1>2, <1>5, <1>10, <4>1 DEF Dichos
      <4> QED BY <1>5, <3>2, <4>2 DEF a
    <3> QED BY <3>1, <3>2
  <2> QED BY <1>0, <1>8, <2>1, <2>2 DEF Informado, Dichos
<1>12. Emitidas'
  <2> SUFFICES ASSUME NEW f \in emitidasLote'
               PROVE  /\ f.lote \in Cargas
                      /\ f.grupo \in aciertos'[f.lote] \union fracasos'[f.lote]
                      /\ f = Factura(archivoDe[f.lote], f.lote, f.grupo)
    BY <1>0 DEF Emitidas, Dichos
  <2>1. CASE f \in emitidasLote
    <3>1. /\ f.lote \in Cargas /\ f.grupo \in aciertos[f.lote] \union fracasos[f.lote]
          /\ f = Factura(archivoDe[f.lote], f.lote, f.grupo)
      BY <2>1 DEF IndLotes, Emitidas, Dichos
    <3>2. aciertos[f.lote] \subseteq aciertos'[f.lote] /\ fracasos[f.lote] \subseteq fracasos'[f.lote]
      BY <1>9, <1>10, <3>1
    <3> QED BY <3>1, <3>2
  <2>2. CASE f = Factura(a, p, g)
    <3>1. f.lote = p /\ f.grupo = g
      BY <2>2 DEF Factura
    <3>2. g \in aciertos'[p] \union fracasos'[p]
      BY <1>10
    <3> QED BY <2>2, <3>1, <3>2 DEF a
  <2> QED BY <1>10, <2>1, <2>2
<1> QED BY <1>6, <1>7, <1>11, <1>12 DEF IndLotes

\* The steps of the page that leave the requests and the invoices alone.
LEMMA SinTocarLotes ==
  ASSUME IndLotes, TypeOKLotes', EnEspera', Gastadas',
         UNCHANGED <<archivoDe, restantesLote, aciertos, fracasos, emitidasLote>>
  PROVE  IndLotes'
BY DEF IndLotes, Informado, Emitidas, Dichos

LEMMA PasoElegir ==
  ASSUME IndLotes,
         \/ \E a \in Archivos : Elegir(a) \/ MostrarValidacion(a)
         \/ ReiniciarPagina \/ PedirValidacion
  PROVE  IndLotes'
<1>1. ASSUME NEW a \in Archivos, Elegir(a) PROVE IndLotes'
  <2>1. TypeOKLotes'
    <3>1. elecciones' \in [Archivos -> Nat]
      BY <1>1 DEF Elegir, IndLotes, TypeOKLotes
    <3>2. emitiendo' \in BOOLEAN /\ resultadoLote' \in BOOLEAN
      BY <1>1 DEF Elegir, IndLotes, TypeOKLotes
    <3>3. /\ archivo' = a /\ preview' = SinArchivo
          /\ UNCHANGED <<validados, archivoDe, sinRespuesta, fallosLote, perdidasLote>>
      BY <1>1 DEF Elegir, loteVars
    <3> QED BY <3>1, <3>2, <3>3 DEF IndLotes, TypeOKLotes
  <2>2. EnEspera'
    BY <1>1 DEF Elegir, IndLotes, EnEspera, loteVars
  <2>3. ASSUME NEW b \in Archivos
        PROVE  /\ IsFiniteSet(Hechas(b)) /\ Hechas(b)' = Hechas(b)
               /\ Grupos(b) # {} =>
                    Cardinality(Hechas(b)) + PorPedir(b)' <= elecciones'[b] + perdidasLote'[b]
    <3>1. /\ IsFiniteSet(Hechas(b)) /\ elecciones[b] \in Nat /\ perdidasLote[b] \in Nat
          /\ Grupos(b) # {} =>
               Cardinality(Hechas(b)) + PorPedir(b) <= elecciones[b] + perdidasLote[b]
          /\ perdidasLote' = perdidasLote /\ Hechas(b)' = Hechas(b)
      BY <1>1 DEF Elegir, IndLotes, TypeOKLotes, Gastadas, Hechas, loteVars
    <3>2. Cardinality(Hechas(b)) \in Nat
      BY <3>1, FS_CardinalityType
    <3>3. CASE b = a
      <4>1. elecciones'[b] = elecciones[b] + 1 /\ PorPedir(b) \in {0, 1} /\ PorPedir(b)' \in {0, 1}
        BY <1>1, <3>3 DEF Elegir, IndLotes, TypeOKLotes, PorPedir
      <4> QED BY <3>1, <3>2, <4>1
    <3>4. CASE b # a
      <4>1. elecciones'[b] = elecciones[b] /\ PorPedir(b) \in {0, 1} /\ PorPedir(b)' = 0
        BY <1>1, <3>4 DEF Elegir, IndLotes, TypeOKLotes, PorPedir
      <4> QED BY <3>1, <3>2, <4>1
    <3> QED BY <3>3, <3>4
  <2>4. Gastadas'
    BY <2>3 DEF Gastadas
  <2> QED BY <1>1, <2>1, <2>2, <2>4, SinTocarLotes DEF Elegir, loteVars
<1>2. ASSUME ReiniciarPagina PROVE IndLotes'
  <2>1. TypeOKLotes' /\ EnEspera'
    BY <1>2 DEF ReiniciarPagina, IndLotes, TypeOKLotes, EnEspera, loteVars
  <2>2. \A b \in Archivos : PorPedir(b) \in {0, 1} /\ PorPedir(b)' = 0
    BY <1>2, LotesAssumption DEF ReiniciarPagina, PorPedir
  <2>3. \A b \in Archivos : Hechas(b)' = Hechas(b)
    BY <1>2 DEF ReiniciarPagina, Hechas, loteVars
  <2>4. ASSUME NEW b \in Archivos, Grupos(b) # {}
        PROVE  Cardinality(Hechas(b)) + PorPedir(b)' <= elecciones[b] + perdidasLote[b]
    <3>1. /\ Cardinality(Hechas(b)) \in Nat /\ elecciones[b] \in Nat /\ perdidasLote[b] \in Nat
          /\ Cardinality(Hechas(b)) + PorPedir(b) <= elecciones[b] + perdidasLote[b]
      BY <2>4, FS_CardinalityType DEF IndLotes, TypeOKLotes, Gastadas
    <3> QED BY <2>2, <3>1
  <2>5. Gastadas'
    BY <1>2, <2>3, <2>4 DEF ReiniciarPagina, IndLotes, Gastadas
  <2> QED BY <1>2, <2>1, <2>5, SinTocarLotes DEF ReiniciarPagina, loteVars
<1>3. ASSUME PedirValidacion \/ \E a \in Archivos : MostrarValidacion(a) PROVE IndLotes'
  <2>1. UNCHANGED <<archivo, resultadoLote, emitiendo, elecciones, loteVars, fallosLote,
                    emitidasLote, perdidasLote>>
    BY <1>3 DEF PedirValidacion, MostrarValidacion
  <2>2. TypeOKLotes'
    <3>1. validados' \subseteq Archivos
      BY <1>3 DEF PedirValidacion, MostrarValidacion, IndLotes, TypeOKLotes
    <3>2. preview' \in Archivos \union {SinArchivo}
      BY <1>3 DEF PedirValidacion, MostrarValidacion, IndLotes, TypeOKLotes
    <3>3. emitiendo' \in BOOLEAN /\ resultadoLote' \in BOOLEAN
      BY <2>1 DEF IndLotes, TypeOKLotes
    <3> QED BY <2>1, <3>1, <3>2, <3>3 DEF IndLotes, TypeOKLotes, loteVars
  <2>3. EnEspera' /\ Gastadas'
    BY <2>1 DEF IndLotes, EnEspera, Gastadas, Hechas, PorPedir, loteVars
  <2> QED BY <2>1, <2>2, <2>3, SinTocarLotes DEF loteVars
<1> QED BY <1>1, <1>2, <1>3

\* A request is made only when the page waits for none, and uses up the choice.
LEMMA PasoPedirEmision ==
  ASSUME IndLotes, NEW p \in Cargas, PedirEmision(p)
  PROVE  IndLotes'
<1> DEFINE a == archivo
<1>1. /\ a \in Archivos /\ ~resultadoLote /\ ~emitiendo /\ archivoDe[p] = SinArchivo
      /\ archivoDe' = [archivoDe EXCEPT ![p] = a]
      /\ restantesLote' = [restantesLote EXCEPT ![p] = Grupos(a)]
      /\ emitiendo' = TRUE /\ sinRespuesta' = sinRespuesta \union {p}
      /\ UNCHANGED <<archivo, resultadoLote, elecciones, aciertos, fracasos, emitidasLote,
                     perdidasLote>>
  BY DEF PedirEmision, BotonEmitir, IndLotes, TypeOKLotes
<1>2. sinRespuesta = {}
  BY <1>1 DEF IndLotes, EnEspera
<1>3. TypeOKLotes'
  BY <1>1, <1>2 DEF PedirEmision, IndLotes, TypeOKLotes
<1>4. /\ archivoDe'[p] = a /\ restantesLote'[p] = Grupos(a) /\ a # SinArchivo
      /\ \A q \in Cargas : q # p => archivoDe'[q] = archivoDe[q] /\ restantesLote'[q] = restantesLote[q]
  BY <1>1, LotesAssumption DEF IndLotes, TypeOKLotes, Informado
<1>5. EnEspera'
  BY <1>1, <1>2, <1>4 DEF EnEspera
<1>6. Informado'
  <2>1. restantesLote' \in [Cargas -> SUBSET UNION {Grupos(b) : b \in Archivos}]
    <3>1. Grupos(a) \subseteq UNION {Grupos(b) : b \in Archivos}
      BY <1>1
    <3> QED BY <1>1, <3>1 DEF IndLotes, Informado
  <2>2. ASSUME NEW q \in Cargas
        PROVE  /\ aciertos[q] \intersect fracasos[q] = {}
               /\ IF archivoDe'[q] = SinArchivo THEN restantesLote'[q] = {} /\ Dichos(q) = {}
                  ELSE /\ restantesLote'[q] \intersect Dichos(q) = {}
                       /\ restantesLote'[q] \union Dichos(q) = Grupos(archivoDe'[q])
                       /\ \A g \in aciertos[q] : Factura(archivoDe'[q], q, g) \in emitidasLote
    <3>1. CASE q # p
      BY <1>4, <3>1 DEF IndLotes, Informado
    <3>2. CASE q = p
      <4>1. aciertos[p] \intersect fracasos[p] = {} /\ Dichos(p) = {}
        BY <1>1 DEF IndLotes, Informado
      <4>2. aciertos[p] = {}
        BY <4>1 DEF Dichos
      <4> QED BY <1>4, <3>2, <4>1, <4>2
    <3> QED BY <3>1, <3>2
  <2> QED BY <1>1, <2>1, <2>2 DEF IndLotes, Informado, Dichos
<1>7. Emitidas'
  <2>1. ASSUME NEW f \in emitidasLote
        PROVE  /\ f.lote \in Cargas /\ f.grupo \in Dichos(f.lote)
               /\ f = Factura(archivoDe'[f.lote], f.lote, f.grupo)
    <3>1. /\ f.lote \in Cargas /\ f.grupo \in Dichos(f.lote)
          /\ f = Factura(archivoDe[f.lote], f.lote, f.grupo)
      BY DEF IndLotes, Emitidas
    <3>2. f.lote # p
      BY <1>1, <3>1 DEF IndLotes, Informado
    <3> QED BY <1>4, <3>1, <3>2
  <2> QED BY <1>1, <2>1 DEF Emitidas, Dichos
<1>8. ASSUME NEW b \in Archivos
      PROVE  /\ IsFiniteSet(Hechas(b)')
             /\ Grupos(b) # {} => Cardinality(Hechas(b)') + PorPedir(b)' <= elecciones[b] + perdidasLote[b]
  <2>1. /\ IsFiniteSet(Hechas(b)) /\ elecciones[b] \in Nat /\ perdidasLote[b] \in Nat
        /\ Grupos(b) # {} =>
             Cardinality(Hechas(b)) + PorPedir(b) <= elecciones[b] + perdidasLote[b]
    BY DEF IndLotes, TypeOKLotes, Gastadas
  <2>2. CASE b = a
    <3>1. Hechas(b)' = Hechas(b) \union {p} /\ p \notin Hechas(b)
      BY <1>1, <1>4, <2>2 DEF Hechas
    <3>2. IsFiniteSet(Hechas(b)') /\ Cardinality(Hechas(b)') = Cardinality(Hechas(b)) + 1
      BY <2>1, <3>1, FS_AddElement
    <3>3. PorPedir(b) = 1 /\ PorPedir(b)' = 0
      BY <1>1, <1>2, <1>4, <2>2 DEF PorPedir
    <3>4. Cardinality(Hechas(b)) \in Nat
      BY <2>1, FS_CardinalityType
    <3> QED BY <2>1, <3>2, <3>3, <3>4
  <2>3. CASE b # a
    <3>1. Hechas(b)' = Hechas(b)
      BY <1>1, <1>4, <2>3, LotesAssumption DEF Hechas
    <3>2. PorPedir(b)' = 0 /\ PorPedir(b) = 0
      BY <1>1, <2>3 DEF PorPedir
    <3> QED BY <2>1, <3>1, <3>2
  <2> QED BY <2>2, <2>3
<1>9. Gastadas'
  BY <1>1, <1>8 DEF Gastadas
<1> QED BY <1>3, <1>5, <1>6, <1>7, <1>9 DEF IndLotes

\* The answer ends the wait: the result hides the button until a file is chosen again, or
\* the answer that was lost is counted.
LEMMA PasoRespuesta ==
  ASSUME IndLotes, NEW p \in Cargas, MostrarResultado(p) \/ PerderRespuesta(p)
  PROVE  IndLotes'
<1> DEFINE a == archivoDe[p]
<1>1. /\ p \in sinRespuesta /\ sinRespuesta' = sinRespuesta \ {p} /\ emitiendo' = FALSE
      /\ UNCHANGED <<archivo, validados, elecciones, archivoDe, restantesLote, aciertos, fracasos,
                     emitidasLote>>
  BY DEF MostrarResultado, PerderRespuesta
<1>2. sinRespuesta = {p} /\ a \in Archivos
  BY <1>1 DEF IndLotes, TypeOKLotes, EnEspera
<1>3. EnEspera'
  BY <1>1, <1>2 DEF EnEspera
<1>4. ASSUME NEW b \in Archivos
      PROVE  /\ Hechas(b)' = Hechas(b) /\ IsFiniteSet(Hechas(b))
             /\ Cardinality(Hechas(b)) \in Nat
             /\ elecciones[b] \in Nat /\ perdidasLote[b] \in Nat
             /\ PorPedir(b) \in {0, 1} /\ PorPedir(b)' \in {0, 1}
             /\ Grupos(b) # {} =>
                  Cardinality(Hechas(b)) + PorPedir(b) <= elecciones[b] + perdidasLote[b]
  <2>1. IsFiniteSet(Hechas(b))
    BY DEF IndLotes, Gastadas
  <2>2. Cardinality(Hechas(b)) \in Nat
    BY <2>1, FS_CardinalityType
  <2> QED BY <1>1, <2>1, <2>2 DEF IndLotes, TypeOKLotes, Gastadas, Hechas, PorPedir
<1>5. CASE MostrarResultado(p)
  <2>1. UNCHANGED <<fallosLote, perdidasLote>>
    BY <1>5 DEF MostrarResultado
  <2>2. resultadoLote' \in BOOLEAN /\ preview' \in Archivos \union {SinArchivo}
    <3>1. resultadoLote' \in {resultadoLote, TRUE}
      BY <1>5, Zenon DEF MostrarResultado
    <3>2. preview' \in {preview, SinArchivo}
      BY <1>5 DEF MostrarResultado
    <3> QED BY <3>1, <3>2 DEF IndLotes, TypeOKLotes
  <2>3. TypeOKLotes'
    BY <1>1, <2>1, <2>2 DEF IndLotes, TypeOKLotes
  <2>4. ASSUME NEW b \in Archivos, Grupos(b) # {} PROVE PorPedir(b)' <= PorPedir(b)
    <3>1. CASE Grupos(a) = {}
      <4>1. a # b /\ resultadoLote' = resultadoLote
        BY <1>5, <2>4, <3>1 DEF MostrarResultado
      <4>2. PorPedir(b)' = PorPedir(b)
        BY <1>1, <1>2, <4>1 DEF PorPedir
      <4> QED BY <1>4, <4>2
    <3>2. CASE Grupos(a) # {}
      <4>1. PorPedir(b)' = 0
        BY <1>5, <3>2 DEF MostrarResultado, PorPedir
      <4> QED BY <1>4, <4>1
    <3> QED BY <3>1, <3>2
  <2>5. ASSUME NEW b \in Archivos, Grupos(b) # {}
        PROVE  Cardinality(Hechas(b)) + PorPedir(b)' <= elecciones[b] + perdidasLote[b]
    BY <1>4, <2>4, <2>5
  <2>6. Gastadas'
    BY <1>1, <1>4, <2>1, <2>5 DEF Gastadas
  <2> QED BY <1>1, <1>3, <2>3, <2>6, SinTocarLotes
<1>6. CASE PerderRespuesta(p)
  <2>1. /\ UNCHANGED <<preview, resultadoLote>> /\ fallosLote' = fallosLote + 1
        /\ perdidasLote' = [perdidasLote EXCEPT ![a] = @ + 1]
    BY <1>6 DEF PerderRespuesta
  <2>2. TypeOKLotes'
    <3>1. perdidasLote' \in [Archivos -> Nat] /\ fallosLote' \in Nat
      BY <1>2, <2>1 DEF IndLotes, TypeOKLotes
    <3>2. resultadoLote' \in BOOLEAN
      BY <2>1 DEF IndLotes, TypeOKLotes
    <3> QED BY <1>1, <2>1, <3>1, <3>2 DEF IndLotes, TypeOKLotes
  <2>3. ASSUME NEW b \in Archivos, Grupos(b) # {}
        PROVE  Cardinality(Hechas(b)) + PorPedir(b)' <= elecciones[b] + perdidasLote'[b]
    <3>1. CASE b = a
      <4>1. perdidasLote'[b] = perdidasLote[b] + 1
        BY <2>1, <3>1 DEF IndLotes, TypeOKLotes
      <4> QED BY <1>4, <2>3, <4>1
    <3>2. CASE b # a
      <4>1. perdidasLote'[b] = perdidasLote[b] /\ PorPedir(b)' = PorPedir(b)
        BY <1>1, <1>2, <2>1, <3>2 DEF IndLotes, TypeOKLotes, PorPedir
      <4> QED BY <1>4, <2>3, <4>1
    <3> QED BY <3>1, <3>2
  <2>4. Gastadas'
    BY <1>1, <1>4, <2>3 DEF Gastadas
  <2> QED BY <1>1, <1>3, <2>2, <2>4, SinTocarLotes
<1> QED BY <1>5, <1>6

LEMMA PasoLotes == IndLotes /\ [NextLotes]_lotesVars => IndLotes'
<1> SUFFICES ASSUME IndLotes, [NextLotes]_lotesVars PROVE IndLotes'
  OBVIOUS
<1>1. CASE UNCHANGED lotesVars
  <2>1. UNCHANGED <<archivo, validados, preview, emitiendo, resultadoLote, archivoDe, restantesLote,
                    aciertos, fracasos, sinRespuesta, fallosLote, emitidasLote, elecciones,
                    perdidasLote>>
    BY <1>1 DEF lotesVars, paginaVars, loteVars
  <2>2. TypeOKLotes'
    BY <2>1 DEF IndLotes, TypeOKLotes
  <2>3. EnEspera' /\ Gastadas'
    BY <2>1 DEF IndLotes, EnEspera, Gastadas, Hechas, PorPedir
  <2> QED BY <2>1, <2>2, <2>3, SinTocarLotes
<1>2. CASE NextLotes
  BY <1>2, PasoGrupo, PasoElegir, PasoPedirEmision, PasoRespuesta DEF NextLotes
<1> QED BY <1>1, <1>2

\* Invoices of one group of a file are of different requests for it.
LEMMA UnaPorPedido ==
  ASSUME IndLotes, NEW a \in Archivos, NEW f \in emitidasLote
  PROVE  Cardinality(Facturas(a, f.grupo)) <= elecciones[a] + perdidasLote[a]
<1> DEFINE F == Facturas(a, f.grupo)
           lote == [x \in F |-> x.lote]
<1>1. CASE Grupos(a) # {}
  <2>1. /\ IsFiniteSet(Hechas(a)) /\ elecciones[a] \in Nat /\ perdidasLote[a] \in Nat
        /\ Cardinality(Hechas(a)) + PorPedir(a) <= elecciones[a] + perdidasLote[a]
        /\ PorPedir(a) \in {0, 1}
    BY <1>1 DEF IndLotes, TypeOKLotes, Gastadas, PorPedir
  <2>2. \A x \in F : /\ x.lote \in Hechas(a)
                     /\ x = Factura(a, x.lote, f.grupo)
    BY DEF IndLotes, Emitidas, Facturas, Hechas
  <2>3. lote \in Injection(F, Hechas(a))
    <3>1. lote \in [F -> Hechas(a)]
      BY <2>2
    <3>2. \A x, y \in F : lote[x] = lote[y] => x = y
      BY <2>2
    <3> HIDE DEF lote, F
    <3> QED BY <3>1, <3>2 DEF Injection, IsInjective
  <2>4. IsFiniteSet(F) /\ Cardinality(F) <= Cardinality(Hechas(a))
    <3> HIDE DEF lote, F
    <3> QED BY <2>1, <2>3, FS_Injection
  <2>5. Cardinality(F) \in Nat /\ Cardinality(Hechas(a)) \in Nat
    BY <2>1, <2>4, FS_CardinalityType
  <2> QED BY <2>1, <2>4, <2>5
<1>2. CASE Grupos(a) = {}
  <2>1. F = {}
    BY <1>2, LotesAssumption DEF IndLotes, Informado, Emitidas, Facturas
  <2>2. elecciones[a] \in Nat /\ perdidasLote[a] \in Nat
    BY DEF IndLotes, TypeOKLotes
  <2>3. Cardinality(F) = 0
    BY <2>1, FS_EmptySet
  <2> QED BY <2>2, <2>3
<1> QED BY <1>1, <1>2

\* Whatever the files, the choices, the validations that arrive late and the answers that
\* are lost, no group of a file is issued more often than the user asked for it, and a
\* batch without failures has each valid row of its file in one invoice.
THEOREM NingunLoteRepite == SpecLotes => []SinRepetir
<1>1. ASSUME IndLotes PROVE SinRepetir
  <2>1. \A a \in Archivos : \A f \in emitidasLote :
          Cardinality(Facturas(a, f.grupo)) <= elecciones[a] + perdidasLote[a]
    BY <1>1, UnaPorPedido
  <2>2. \A f \in emitidasLote : f.grupo \in aciertos[f.lote] \union fracasos[f.lote]
    BY <1>1 DEF IndLotes, Emitidas, Dichos
  <2>3. ASSUME NEW p \in Cargas, archivoDe[p] # SinArchivo, restantesLote[p] = {},
               fracasos[p] = {}, NEW i \in FilasValidas[archivoDe[p]]
        PROVE  Cardinality({f \in emitidasLote : f.lote = p /\ i \in f.filas}) = 1
    <3> DEFINE a == archivoDe[p]
               h == Factura(a, p, GrupoDe(a, i))
    <3>1. GrupoDe(a, i) \in aciertos[p]
      BY <1>1, <2>3 DEF IndLotes, Informado, Dichos, Grupos
    <3>2. h \in emitidasLote
      BY <1>1, <2>3, <3>1 DEF IndLotes, Informado
    <3>3. h.lote = p /\ i \in h.filas
      BY DEF Factura, FilasDelGrupo
    <3>4. ASSUME NEW f \in emitidasLote, f.lote = p, i \in f.filas PROVE f = h
      <4>1. f = Factura(a, p, f.grupo)
        BY <1>1, <3>4 DEF IndLotes, Emitidas
      <4>2. i \in FilasDelGrupo(a, f.grupo)
        BY <3>4, <4>1 DEF Factura
      <4>3. f.grupo = GrupoDe(a, i)
        BY <4>2 DEF FilasDelGrupo
      <4> QED BY <4>1, <4>3
    <3> HIDE DEF h
    <3>5. {f \in emitidasLote : f.lote = p /\ i \in f.filas} = {h}
      BY <3>2, <3>3, <3>4
    <3> QED BY <3>5, FS_Singleton
  <2>4. \A p \in Cargas : aciertos[p] \intersect fracasos[p] = {}
    BY <1>1 DEF IndLotes, Informado
  <2> QED BY <2>1, <2>2, <2>3, <2>4 DEF SinRepetir
<1> QED BY InicioLotes, PasoLotes, <1>1, PTL DEF SpecLotes

-----------------------------------------------------------------------------
(* The token of the DGII: its types, that a transmission which gives up was   *)
(* disturbed, and that sharing the key does no harm before anything changes.  *)
(* SegundoIntento says what the deletion is good for: from then on, and as    *)
(* long as nobody disturbs it, the transmission finds no token or its own.    *)

\* The token that the environment of call c takes today.
Bueno(c) == [ambiente |-> ambienteDe[c], epoca |-> epoca]

\* An undisturbed second attempt finds no token in the cache, or a good one.
SegundoIntento ==
  \A c \in segundos \ excusadas :
    /\ pasoUso[c] \notin {"reposo", "borrar"}
    /\ enCache \in {SinToken, Bueno(c)}
    /\ pasoUso[c] \in {"guardar", "usar"} => tokenDe[c] = Bueno(c)

\* The calls that have begun.
Empezada(c) == pasoUso[c] # "reposo"

UnAmbiente ==
  \A c, d \in Usos : Empezada(c) /\ Empezada(d) => ambienteDe[c] = ambienteDe[d]

\* While the calls are for one environment and the DGII ends nothing, every token is
\* good for every call.
UnSoloToken ==
  UnAmbiente /\ epoca = 0 =>
    /\ negadas = {} /\ segundos = {}
    /\ enCache # SinToken => \E d \in Usos : Empezada(d) /\ enCache = Bueno(d)
    /\ \A c \in Usos :
         /\ pasoUso[c] # "borrar"
         /\ pasoUso[c] \in {"guardar", "usar"} => tokenDe[c] = Bueno(c)

IndToken == TypeOKToken /\ RechazoExplicado /\ SegundoIntento /\ UnSoloToken

LEMMA TiposToken ==
  ASSUME TypeOKToken, [NextToken]_tokenVars
  PROVE  TypeOKToken'
<1> USE TokenAssumption DEF TypeOKToken, PasarUso
<1>1. ASSUME NEW c \in Usos, PedirToken(c) PROVE TypeOKToken'
  <2>1. AmbientesDe(c) \subseteq Ambientes
    BY DEF AmbientesDe, PeticionSinAmbiente, Ambientes, Usos, Renovadoras
  <2>2. PICK a \in Ambientes : ambienteDe' = [ambienteDe EXCEPT ![c] = a]
    BY <1>1, <2>1 DEF PedirToken
  <2> QED
    BY <1>1, <2>2 DEF PedirToken, servicioVars, historiaToken
<1>2. ASSUME NEW c \in Usos, Negociar(c) PROVE TypeOKToken'
  <2>1. [ambiente |-> AmbienteDelHandshake(c), epoca |-> epoca] \in Token
    BY DEF Token, AmbienteDelHandshake
  <2>2. tokenDe' \in [Usos -> Token \union {SinToken}]
    BY <1>2, <2>1 DEF Negociar
  <2> QED
    BY <1>2, <2>2 DEF Negociar, servicioVars, historiaToken
<1>3. ASSUME NEW c \in Usos, GuardarToken(c) PROVE TypeOKToken'
  BY <1>3 DEF GuardarToken
<1>4. ASSUME NEW c \in Usos, GuardarSinRedis(c) PROVE TypeOKToken'
  BY <1>4 DEF GuardarSinRedis, servicioVars, historiaToken
<1>5. ASSUME NEW c \in Usos, Usar(c) PROVE TypeOKToken'
  BY <1>5 DEF Usar, servicioVars, historiaToken
<1>6. ASSUME NEW c \in Usos, Negar(c) PROVE TypeOKToken'
  BY <1>6 DEF Negar, servicioVars
<1>7. ASSUME NEW c \in Usos, FallarUso(c) PROVE TypeOKToken'
  BY <1>7 DEF FallarUso, servicioVars, historiaToken
<1>8. ASSUME NEW c \in Usos, NEW hayRedis \in BOOLEAN, BuscarToken(c, hayRedis)
      PROVE  TypeOKToken'
  BY <1>8 DEF BuscarToken, servicioVars, historiaToken
<1>9. ASSUME NEW c \in Usos, NEW hayRedis \in BOOLEAN, BorrarToken(c, hayRedis)
      PROVE  TypeOKToken'
  BY <1>9 DEF BorrarToken, CacheBorrada
<1>10. CASE VencerToken
  BY <1>10 DEF VencerToken, usoVars, historiaToken
<1>11. CASE Promover \/ Despromover
  BY <1>11 DEF Promover, Despromover, usoVars, historiaToken, Ambientes
<1>12. CASE Caducar
  BY <1>12 DEF Caducar, usoVars
<1>13. CASE UNCHANGED tokenVars
  BY <1>13 DEF tokenVars, servicioVars, usoVars, historiaToken
<1>14. ASSUME NEW c \in Usos, NEW r \in Respuestas, PedirSemilla(c, r) PROVE TypeOKToken'
  BY <1>14 DEF PedirSemilla, servicioVars, historiaToken
<1> QED
  BY <1>1, <1>2, <1>3, <1>4, <1>5, <1>6, <1>7, <1>8, <1>9, <1>10, <1>11, <1>12, <1>13, <1>14
     DEF NextToken

-----------------------------------------------------------------------------
\* A step of call c keeps SegundoIntento for every other call, unless it excuses it.
LEMMA SegundoIntentoInductivo ==
  ASSUME TypeOKToken, SegundoIntento, [NextToken]_tokenVars
  PROVE  SegundoIntento'
<1> USE TokenAssumption DEF TypeOKToken, PasarUso, SegundoIntento, Bueno, Usos, Renovadoras
<1>1. ASSUME NEW c \in Usos, PedirToken(c) PROVE SegundoIntento'
  <2>1. c \notin segundos \ excusadas
    BY <1>1 DEF PedirToken
  <2>2. \A d \in Usos : d # c => ambienteDe'[d] = ambienteDe[d] /\ pasoUso'[d] = pasoUso[d]
    BY <1>1 DEF PedirToken
  <2> QED
    BY <1>1, <2>1, <2>2 DEF PedirToken, servicioVars, historiaToken
<1>2. ASSUME NEW c \in Usos, Negociar(c) PROVE SegundoIntento'
  BY <1>2 DEF Negociar, servicioVars, historiaToken, AmbienteDelHandshake
<1>3. ASSUME NEW c \in Usos, GuardarToken(c) PROVE SegundoIntento'
  <2>1. segundos' \ excusadas' \subseteq {c} \intersect (segundos \ excusadas)
    BY <1>3 DEF GuardarToken
  <2> QED
    BY <1>3, <2>1 DEF GuardarToken
<1>4. ASSUME NEW c \in Usos, GuardarSinRedis(c) PROVE SegundoIntento'
  BY <1>4 DEF GuardarSinRedis, servicioVars, historiaToken
<1>5. ASSUME NEW c \in Usos, Usar(c) PROVE SegundoIntento'
  BY <1>5 DEF Usar, servicioVars, historiaToken
<1>6. ASSUME NEW c \in Usos, Negar(c) PROVE SegundoIntento'
  <2>1. c \notin segundos \ excusadas
    BY <1>6 DEF Negar, Sirve
  <2> QED
    BY <1>6, <2>1 DEF Negar, servicioVars
<1>7. ASSUME NEW c \in Usos, FallarUso(c) PROVE SegundoIntento'
  BY <1>7 DEF FallarUso, servicioVars, historiaToken
<1>8. ASSUME NEW c \in Usos, NEW hayRedis \in BOOLEAN, BuscarToken(c, hayRedis)
      PROVE  SegundoIntento'
  BY <1>8 DEF BuscarToken, servicioVars, historiaToken
<1>9. ASSUME NEW c \in Usos, NEW hayRedis \in BOOLEAN, BorrarToken(c, hayRedis)
      PROVE  SegundoIntento'
  BY <1>9 DEF BorrarToken, CacheBorrada
<1>10. CASE VencerToken
  BY <1>10 DEF VencerToken, usoVars, historiaToken
<1>11. CASE Promover \/ Despromover
  BY <1>11 DEF Promover, Despromover, usoVars, historiaToken
<1>12. CASE Caducar
  <2>1. segundos' \ excusadas' = {}
    BY <1>12 DEF Caducar, usoVars
  <2> QED
    BY <2>1
<1>13. CASE UNCHANGED tokenVars
  BY <1>13 DEF tokenVars, servicioVars, usoVars, historiaToken
<1>14. ASSUME NEW c \in Usos, NEW r \in Respuestas, PedirSemilla(c, r) PROVE SegundoIntento'
  BY <1>14 DEF PedirSemilla, servicioVars, historiaToken
<1> QED
  BY <1>1, <1>2, <1>3, <1>4, <1>5, <1>6, <1>7, <1>8, <1>9, <1>10, <1>11, <1>12, <1>13, <1>14
     DEF NextToken

\* Only Negar ends a call with a 401, and not a second attempt without excuse.
LEMMA RechazoInductivo ==
  ASSUME TypeOKToken, SegundoIntento, RechazoExplicado, [NextToken]_tokenVars
  PROVE  RechazoExplicado'
<1> USE DEF RechazoExplicado
<1>1. ASSUME NEW c \in Usos, Negar(c) PROVE RechazoExplicado'
  <2>1. c \in segundos => c \in excusadas
    BY <1>1 DEF Negar, Sirve, SegundoIntento, Bueno
  <2> QED
    BY <1>1, <2>1 DEF Negar
<1>2. CASE negadas' = negadas /\ excusadas \subseteq excusadas'
  BY <1>2
<1>3. ASSUME NEW c \in Usos,
             \/ PedirToken(c) \/ Negociar(c) \/ GuardarToken(c) \/ GuardarSinRedis(c)
             \/ Usar(c) \/ FallarUso(c)
      PROVE  negadas' = negadas /\ excusadas \subseteq excusadas'
  BY <1>3 DEF PedirToken, Negociar, GuardarToken, GuardarSinRedis, Usar, FallarUso,
              historiaToken
<1>4. ASSUME NEW c \in Usos, NEW hayRedis \in BOOLEAN,
             BuscarToken(c, hayRedis) \/ BorrarToken(c, hayRedis)
      PROVE  negadas' = negadas /\ excusadas \subseteq excusadas'
  BY <1>4 DEF BuscarToken, BorrarToken, historiaToken
<1>5. ASSUME NEW c \in Usos, NEW r \in Respuestas, PedirSemilla(c, r)
      PROVE  negadas' = negadas /\ excusadas \subseteq excusadas'
  BY <1>5 DEF PedirSemilla, historiaToken
<1>6. VencerToken \/ Promover \/ Despromover \/ Caducar \/ UNCHANGED tokenVars =>
        negadas' = negadas /\ excusadas \subseteq excusadas'
  BY DEF VencerToken, Promover, Despromover, Caducar, tokenVars, historiaToken
<1> QED
  BY <1>1, <1>2, <1>3, <1>4, <1>5, <1>6 DEF NextToken

-----------------------------------------------------------------------------
\* A call that has begun keeps its environment, so two environments stay two.
LEMMA AmbienteFijo ==
  ASSUME TypeOKToken, [NextToken]_tokenVars,
         NEW c \in Usos, Empezada(c)
  PROVE  Empezada(c)' /\ ambienteDe'[c] = ambienteDe[c]
<1> USE DEF TypeOKToken, PasarUso, Empezada
<1>1. ASSUME NEW d \in Usos, PedirToken(d) PROVE Empezada(c)' /\ ambienteDe'[c] = ambienteDe[c]
  BY <1>1 DEF PedirToken
<1>2. ASSUME NEW d \in Usos,
             \/ Negociar(d) \/ GuardarToken(d) \/ GuardarSinRedis(d)
             \/ Usar(d) \/ Negar(d) \/ FallarUso(d)
      PROVE  Empezada(c)' /\ ambienteDe'[c] = ambienteDe[c]
  BY <1>2 DEF Negociar, GuardarToken, GuardarSinRedis, Usar, Negar, FallarUso
<1>3. ASSUME NEW d \in Usos, NEW hayRedis \in BOOLEAN,
             BuscarToken(d, hayRedis) \/ BorrarToken(d, hayRedis)
      PROVE  Empezada(c)' /\ ambienteDe'[c] = ambienteDe[c]
  BY <1>3 DEF BuscarToken, BorrarToken
<1>4. ASSUME NEW d \in Usos, NEW r \in Respuestas, PedirSemilla(d, r)
      PROVE  Empezada(c)' /\ ambienteDe'[c] = ambienteDe[c]
  BY <1>4 DEF PedirSemilla
<1>5. VencerToken \/ Promover \/ Despromover \/ Caducar \/ UNCHANGED tokenVars =>
        Empezada(c)' /\ ambienteDe'[c] = ambienteDe[c]
  BY DEF VencerToken, Promover, Despromover, Caducar, tokenVars, usoVars
<1> QED
  BY <1>1, <1>2, <1>3, <1>4, <1>5 DEF NextToken

\* Once there are two environments, or a token has ended, it stays so; until then no
\* call has a reason to hold a token that is not good for all.
LEMMA UnSoloTokenInductivo ==
  ASSUME TypeOKToken, UnSoloToken, [NextToken]_tokenVars
  PROVE  UnSoloToken'
<1> SUFFICES ASSUME UnAmbiente', epoca' = 0
             PROVE  /\ negadas' = {} /\ segundos' = {}
                    /\ enCache' # SinToken =>
                         \E d \in Usos : Empezada(d)' /\ enCache' = Bueno(d)'
                    /\ \A c \in Usos :
                         /\ pasoUso'[c] # "borrar"
                         /\ pasoUso'[c] \in {"guardar", "usar"} => tokenDe'[c] = Bueno(c)'
  BY DEF UnSoloToken
<1> DEFINE Hecho(cache) == cache # SinToken =>
                             \E d \in Usos : Empezada(d)' /\ cache = Bueno(d)'
           Manos(c) == /\ pasoUso'[c] # "borrar"
                       /\ pasoUso'[c] \in {"guardar", "usar"} => tokenDe'[c] = Bueno(c)'
<1>1. \A c \in Usos : Empezada(c) => Empezada(c)' /\ ambienteDe'[c] = ambienteDe[c]
  BY AmbienteFijo
<1>2. UnAmbiente
  BY <1>1 DEF UnAmbiente
<1>3. epoca = 0
  BY TokenAssumption
     DEF NextToken, PedirToken, Negociar, GuardarToken, GuardarSinRedis, Usar, Negar, FallarUso,
         PedirSemilla, BuscarToken, BorrarToken, VencerToken, Promover, Despromover, Caducar,
         tokenVars, servicioVars, TypeOKToken
<1>4. /\ negadas = {} /\ segundos = {}
      /\ enCache # SinToken => \E d \in Usos : Empezada(d) /\ enCache = Bueno(d)
      /\ \A c \in Usos :
           /\ pasoUso[c] # "borrar"
           /\ pasoUso[c] \in {"guardar", "usar"} => tokenDe[c] = Bueno(c)
  BY <1>2, <1>3 DEF UnSoloToken
<1>5. \A c \in Usos : Empezada(c) => Bueno(c)' = Bueno(c)
  BY <1>1, <1>3 DEF Bueno
<1>6. Hecho(enCache)
  BY <1>1, <1>4, <1>5
<1>7. \A c, d \in Usos : Empezada(c) /\ Empezada(d) => Bueno(c) = Bueno(d)
  BY <1>2 DEF UnAmbiente, Bueno
<1>8. \A c \in Usos : pasoUso[c] \in {"guardar", "usar"} => Empezada(c)
  BY DEF Empezada
<1> USE TokenAssumption DEF TypeOKToken, PasarUso
<1>9. ASSUME NEW c \in Usos, UNCHANGED <<negadas, segundos>>, Hecho(enCache'),
             \A d \in Usos : d # c => pasoUso'[d] = pasoUso[d] /\ tokenDe'[d] = tokenDe[d],
             Manos(c)
      PROVE  /\ negadas' = {} /\ segundos' = {} /\ Hecho(enCache')
             /\ \A d \in Usos : Manos(d)
  BY <1>4, <1>5, <1>8, <1>9
<1>10. ASSUME NEW c \in Usos, PedirToken(c)
       PROVE  /\ negadas' = {} /\ segundos' = {} /\ Hecho(enCache')
              /\ \A d \in Usos : Manos(d)
  <2>1. Manos(c)
    BY <1>10 DEF PedirToken
  <2> QED
    BY <1>6, <1>9, <1>10, <2>1 DEF PedirToken, servicioVars, historiaToken
<1>11. ASSUME NEW c \in Usos, Negociar(c)
       PROVE  /\ negadas' = {} /\ segundos' = {} /\ Hecho(enCache')
              /\ \A d \in Usos : Manos(d)
  <2>1. Empezada(c)
    BY <1>11 DEF Negociar, Empezada
  <2>2. Manos(c)
    BY <1>5, <1>11, <2>1 DEF Negociar, AmbienteDelHandshake, Bueno
  <2> QED
    BY <1>6, <1>9, <1>11, <2>2 DEF Negociar, servicioVars, historiaToken
<1>12. ASSUME NEW c \in Usos, GuardarToken(c)
       PROVE  /\ negadas' = {} /\ segundos' = {} /\ Hecho(enCache')
              /\ \A d \in Usos : Manos(d)
  <2>1. Empezada(c) /\ tokenDe[c] = Bueno(c)
    BY <1>4, <1>12 DEF GuardarToken, Empezada
  <2>2. Hecho(enCache') /\ Manos(c)
    BY <1>1, <1>5, <1>12, <2>1 DEF GuardarToken
  <2> QED
    BY <1>9, <1>12, <2>2 DEF GuardarToken
<1>13. ASSUME NEW c \in Usos, GuardarSinRedis(c)
       PROVE  /\ negadas' = {} /\ segundos' = {} /\ Hecho(enCache')
              /\ \A d \in Usos : Manos(d)
  <2>1. Empezada(c) /\ tokenDe[c] = Bueno(c)
    BY <1>4, <1>13 DEF GuardarSinRedis, Empezada
  <2>2. Manos(c)
    BY <1>5, <1>13, <2>1 DEF GuardarSinRedis
  <2> QED
    BY <1>6, <1>9, <1>13, <2>2 DEF GuardarSinRedis, servicioVars, historiaToken
<1>14. ASSUME NEW c \in Usos, Usar(c) \/ FallarUso(c)
       PROVE  /\ negadas' = {} /\ segundos' = {} /\ Hecho(enCache')
              /\ \A d \in Usos : Manos(d)
  <2>1. Manos(c)
    BY <1>14 DEF Usar, FallarUso
  <2> QED
    BY <1>6, <1>9, <1>14, <2>1 DEF Usar, FallarUso, servicioVars, historiaToken
<1>15. ASSUME NEW c \in Usos, Negar(c) PROVE FALSE
  BY <1>4, <1>15 DEF Negar, Sirve, Bueno
<1>16. ASSUME NEW c \in Usos, NEW hayRedis \in BOOLEAN, BuscarToken(c, hayRedis)
       PROVE  /\ negadas' = {} /\ segundos' = {} /\ Hecho(enCache')
              /\ \A d \in Usos : Manos(d)
  <2>1. Empezada(c)
    BY <1>16 DEF BuscarToken, Empezada
  <2>2. CASE hayRedis /\ enCache # SinToken
    <3>1. enCache = Bueno(c)
      BY <1>4, <1>7, <2>1, <2>2
    <3>2. Manos(c)
      BY <1>5, <1>16, <2>1, <2>2, <3>1 DEF BuscarToken
    <3> QED
      BY <1>6, <1>9, <1>16, <2>2, <3>2 DEF BuscarToken, servicioVars, historiaToken
  <2>3. CASE ~(hayRedis /\ enCache # SinToken)
    <3>1. Manos(c)
      BY <1>16, <2>3 DEF BuscarToken
    <3> QED
      BY <1>6, <1>9, <1>16, <2>3, <3>1 DEF BuscarToken, servicioVars, historiaToken
  <2> QED
    BY <2>2, <2>3
<1>17. ASSUME NEW c \in Usos, NEW hayRedis \in BOOLEAN, BorrarToken(c, hayRedis) PROVE FALSE
  BY <1>4, <1>17 DEF BorrarToken
<1>18. ASSUME NEW c \in Usos, NEW r \in Respuestas, PedirSemilla(c, r)
       PROVE  /\ negadas' = {} /\ segundos' = {} /\ Hecho(enCache')
              /\ \A d \in Usos : Manos(d)
  <2>1. Manos(c)
    BY <1>18 DEF PedirSemilla
  <2> QED
    BY <1>6, <1>9, <1>18, <2>1 DEF PedirSemilla, servicioVars, historiaToken
<1>19. CASE VencerToken \/ Promover \/ Despromover \/ UNCHANGED tokenVars
  <2>1. UNCHANGED <<usoVars, negadas>> /\ Hecho(enCache')
    BY <1>6, <1>19
       DEF VencerToken, Promover, Despromover, tokenVars, servicioVars, historiaToken
  <2> QED
    BY <1>4, <1>5, <1>8, <2>1 DEF usoVars
<1>20. CASE Caducar
  BY <1>3, <1>20 DEF Caducar
<1> HIDE DEF Hecho, Manos
<1>21. /\ negadas' = {} /\ segundos' = {} /\ Hecho(enCache')
       /\ \A d \in Usos : Manos(d)
  BY <1>10, <1>11, <1>12, <1>13, <1>14, <1>15, <1>16, <1>17, <1>18, <1>19, <1>20
     DEF NextToken, Hecho, Manos
<1> QED
  BY <1>21 DEF Hecho, Manos

-----------------------------------------------------------------------------
LEMMA InvarianteToken == SpecToken => []IndToken
<1>1. InitToken => IndToken
  BY TokenAssumption
     DEF InitToken, IndToken, TypeOKToken, RechazoExplicado, SegundoIntento, UnSoloToken,
         UnAmbiente, Empezada, Renovadoras, Usos
<1>2. IndToken /\ [NextToken]_tokenVars => IndToken'
  BY TiposToken, SegundoIntentoInductivo, RechazoInductivo, UnSoloTokenInductivo DEF IndToken
<1> QED
  BY <1>1, <1>2, PTL DEF SpecToken

\* The variables of TokenDgii have their types, whatever the calls do.
THEOREM TipoCorrectoToken == SpecToken => []TypeOKToken
<1>1. IndToken => TypeOKToken
  BY DEF IndToken
<1> QED
  BY <1>1, InvarianteToken, PTL

\* A transmission gives up after its second 401 only if Redis did not delete the key,
\* or another call wrote it or the DGII ended its tokens after the deletion.
THEOREM RechazosExplicados == SpecToken => []RechazoExplicado
<1>1. IndToken => RechazoExplicado
  BY DEF IndToken
<1> QED
  BY <1>1, InvarianteToken, PTL

\* No call gets a 401 before the DGII ends a token, unless calls for two environments
\* have shared the key.
THEOREM UnaClaveBasta == SpecToken => []SinRechazosGratuitos
<1>1. IndToken => SinRechazosGratuitos
  <2> SUFFICES ASSUME IndToken, negadas # {} \/ segundos # {}, ~(epoca > 0)
               PROVE  ~UnAmbiente
    BY DEF SinRechazosGratuitos, UnAmbiente, Empezada
  <2>1. epoca = 0
    BY TokenAssumption DEF IndToken, TypeOKToken
  <2> QED
    BY <2>1 DEF IndToken, UnSoloToken
<1> QED
  BY <1>1, InvarianteToken, PTL

-----------------------------------------------------------------------------
(* Commercial approvals                                                    *)

USE DEF Sentidos, FilaRecibida, recibidaVars, decisionVars

\* The row r says what the DGII was last told, under the track id of a call that told it.
Coherente(r) ==
  /\ recibida[r].estado = acusada[r]
  /\ recibida[r].estado # "pendiente" =>
       recibida[r].track \in Decisiones /\ sentido[recibida[r].track] = acusada[r]

\* A call that decides has a row of the table and a copy of it.
ConFila ==
  \A c \in Decisiones :
    Decidiendo(c) => /\ reciboDe[c] \in Recibos
                     /\ recibida[reciboDe[c]] \in FilaRecibida
                     /\ copiaRecibida[c] \in FilaRecibida

\* A call that has not begun is nobody's track id, so what it will decide is still free.
SinEmpezar ==
  \A c \in Decisiones : pasoDecision[c] = "reposo" =>
    /\ \A r \in Recibos : recibida[r] # SinRecibo => recibida[r].track # c
    /\ \A x \in Decisiones : copiaRecibida[x] # SinRecibo => copiaRecibida[x].track # c

\* The calls that decide on a row that is not in revueltas take turns.
PorTurnos ==
  \A c, d \in Decisiones :
    /\ Decidiendo(c) /\ Decidiendo(d)
    /\ reciboDe[c] = reciboDe[d] /\ reciboDe[c] \notin revueltas
    => c = d

\* A row nobody decides on is coherent, and one that was not received was not decided.
FilasQuietas ==
  \A r \in Recibos \ revueltas :
    /\ recibida[r] = SinRecibo => acusada[r] = "pendiente"
    /\ recibida[r] # SinRecibo /\ (\A c \in Decisiones : Decidiendo(c) => reciboDe[c] # r)
         => Coherente(r)

\* What a call has in hand at each of its steps.
EnMano ==
  \A c \in Decisiones : Decidiendo(c) /\ reciboDe[c] \notin revueltas =>
    /\ pasoDecision[c] = "enviar" =>
         copiaRecibida[c] = recibida[reciboDe[c]] /\ Coherente(reciboDe[c])
    /\ pasoDecision[c] # "enviar" =>
         /\ acusada[reciboDe[c]] = sentido[c]
         /\ copiaRecibida[c].estado = sentido[c] /\ copiaRecibida[c].track = c
    /\ pasoDecision[c] = "comparada" =>
         porGrabar[c] = {k \in {"estado", "motivo", "track"} :
                           recibida[reciboDe[c]][k] # copiaRecibida[c][k]}

IndRecibidas ==
  TypeOKRecibidas /\ ConFila /\ SinEmpezar /\ PorTurnos /\ FilasQuietas /\ EnMano
LEMMA InicioRecibidas ==
  ASSUME InitRecibidas PROVE IndRecibidas
BY RecibidasAssumption
DEF InitRecibidas, IndRecibidas, TypeOKRecibidas, ConFila, SinEmpezar, PorTurnos,
    FilasQuietas, EnMano, Decidiendo

LEMMA PasoRecibidas ==
  ASSUME IndRecibidas, [NextRecibidas]_recibidaVars
  PROVE  IndRecibidas'
<1> USE RecibidasAssumption
    DEF IndRecibidas, TypeOKRecibidas, Decidiendo, PasarDecision
<1>1. ASSUME NEW r \in Recibos, Recibir(r) PROVE IndRecibidas'
  <2>1. TypeOKRecibidas'
    BY <1>1 DEF Recibir
  <2>2. ConFila' /\ SinEmpezar' /\ PorTurnos'
    BY <1>1 DEF Recibir, ConFila, SinEmpezar, PorTurnos
  <2>3. FilasQuietas' /\ EnMano'
    BY <1>1 DEF Recibir, ConFila, FilasQuietas, EnMano, Coherente
  <2> QED BY <2>1, <2>2, <2>3
<1>2. ASSUME NEW c \in Decisiones, NEW r \in Recibos, NEW s \in Sentidos, LeerRecibida(c, r, s)
      PROVE  IndRecibidas'
  <2>1. TypeOKRecibidas'
    BY <1>2 DEF LeerRecibida
  <2>2. ConFila' /\ SinEmpezar'
    BY <1>2 DEF LeerRecibida, ConFila, SinEmpezar
  <2>3. PorTurnos'
    BY <1>2 DEF LeerRecibida, PorTurnos
  <2>4. FilasQuietas'
    BY <1>2 DEF LeerRecibida, FilasQuietas, SinEmpezar, Coherente
  <2>5. EnMano'
    BY <1>2 DEF LeerRecibida, FilasQuietas, EnMano, SinEmpezar, ConFila, Coherente
  <2> QED BY <2>1, <2>2, <2>3, <2>4, <2>5
<1>3. ASSUME NEW c \in Decisiones, Confirmar(c) PROVE IndRecibidas'
  <2>1. TypeOKRecibidas'
    BY <1>3 DEF Confirmar, Decidida, ConFila
  <2>2. ConFila' /\ SinEmpezar' /\ PorTurnos'
    BY <1>3 DEF Confirmar, Decidida, ConFila, SinEmpezar, PorTurnos
  <2>3. FilasQuietas' /\ EnMano'
    BY <1>3 DEF Confirmar, Decidida, ConFila, PorTurnos, FilasQuietas, EnMano, Coherente
  <2> QED BY <2>1, <2>2, <2>3
<1>4. ASSUME NEW c \in Decisiones, RechazarAcuse(c) PROVE IndRecibidas'
  <2> USE DEF RechazarAcuse, TrasRechazo
  <2>1. TypeOKRecibidas' /\ ConFila' /\ SinEmpezar' /\ PorTurnos'
    BY <1>4 DEF ConFila, SinEmpezar, PorTurnos
  <2>2. FilasQuietas' /\ EnMano'
    BY <1>4 DEF ConFila, FilasQuietas, EnMano, Coherente, PorTurnos
  <2> QED BY <2>1, <2>2
<1>5. ASSUME NEW c \in Decisiones, CompararRecibida(c) PROVE IndRecibidas'
  <2>0. DOMAIN recibida[reciboDe[c]] = {"estado", "motivo", "track"}
    BY <1>5 DEF CompararRecibida, ConFila
  <2>1. TypeOKRecibidas' /\ ConFila' /\ SinEmpezar' /\ PorTurnos'
    BY <1>5, <2>0 DEF CompararRecibida, ConFila, SinEmpezar, PorTurnos
  <2>2. FilasQuietas' /\ EnMano'
    BY <1>5, <2>0 DEF CompararRecibida, ConFila, FilasQuietas, EnMano, Coherente, PorTurnos
  <2> QED BY <2>1, <2>2
<1>6. ASSUME NEW c \in Decisiones, EscribirRecibida(c) PROVE IndRecibidas'
  <2> DEFINE r == reciboDe[c]
  <2>0. /\ r \in Recibos /\ recibida[r] \in FilaRecibida
        /\ recibida[r] # SinRecibo
    BY <1>6 DEF EscribirRecibida, ConFila
  <2>1. /\ recibida'[r] \in FilaRecibida
        /\ \A k \in {"estado", "motivo", "track"} :
             recibida'[r][k] = IF k \in porGrabar[c] THEN copiaRecibida[c][k]
                               ELSE recibida[r][k]
        /\ \A x \in Recibos : x # r => recibida'[x] = recibida[x]
    BY <1>6, <2>0 DEF EscribirRecibida, ConFila
  <2>2. r \notin revueltas => /\ recibida'[r].estado = sentido[c] /\ recibida'[r].track = c
                             /\ acusada[r] = sentido[c]
    BY <1>6, <2>0, <2>1 DEF EscribirRecibida, ConFila, EnMano
  <2>3. UNCHANGED <<reciboDe, sentido, copiaRecibida, porGrabar, acusada, revueltas>>
    BY <1>6 DEF EscribirRecibida
  <2>4. pasoDecision' = [pasoDecision EXCEPT ![c] = "fin"] /\ pasoDecision[c] = "comparada"
    BY <1>6 DEF EscribirRecibida
  <2>5. TypeOKRecibidas'
    <3>1. recibida' \in [Recibos -> FilaRecibida \union {SinRecibo}]
      BY <1>6, <2>0, <2>1 DEF EscribirRecibida
    <3> QED BY <2>3, <2>4, <3>1
  <2>6. ConFila' /\ PorTurnos'
    BY <2>0, <2>1, <2>3, <2>4 DEF ConFila, PorTurnos
  <2>7. SinEmpezar'
    <3>1. \/ recibida'[r].track = recibida[r].track
          \/ recibida'[r].track = copiaRecibida[c].track /\ copiaRecibida[c] \in FilaRecibida
      BY <2>1, <2>4 DEF ConFila
    <3> QED BY <2>0, <2>1, <2>3, <2>4, <3>1 DEF SinEmpezar
  <2>8. FilasQuietas'
    BY <2>0, <2>1, <2>2, <2>3, <2>4 DEF FilasQuietas, Coherente
  <2>9. EnMano'
    <3> SUFFICES ASSUME NEW d \in Decisiones, Decidiendo(d)', reciboDe[d] \notin revueltas
                 PROVE  EnMano!(d)'
      BY <2>3 DEF EnMano
    <3>1. Decidiendo(d) /\ d # c /\ pasoDecision'[d] = pasoDecision[d]
      BY <2>4
    <3>2. reciboDe[d] \in Recibos /\ reciboDe[d] # r
      BY <2>4, <3>1 DEF PorTurnos, ConFila
    <3>3. recibida'[reciboDe[d]] = recibida[reciboDe[d]]
      BY <2>1, <3>2
    <3> QED BY <2>3, <3>1, <3>3 DEF EnMano, Coherente
  <2> QED BY <2>5, <2>6, <2>7, <2>8, <2>9
<1>7. ASSUME NEW c \in Decisiones, InterrumpirDecision(c) PROVE IndRecibidas'
  <2>1. TypeOKRecibidas' /\ ConFila' /\ SinEmpezar' /\ PorTurnos'
    BY <1>7 DEF InterrumpirDecision, ConFila, SinEmpezar, PorTurnos
  <2>2. FilasQuietas' /\ EnMano'
    BY <1>7 DEF InterrumpirDecision, ConFila, FilasQuietas, EnMano, Coherente, PorTurnos
  <2> QED BY <2>1, <2>2
<1>8. CASE UNCHANGED recibidaVars
  BY <1>8 DEF ConFila, SinEmpezar, PorTurnos, FilasQuietas, EnMano, Coherente
<1> QED BY <1>1, <1>2, <1>3, <1>4, <1>5, <1>6, <1>7, <1>8 DEF NextRecibidas

\* Whatever the company decides, and however often, a row whose calls took turns says
\* what the DGII confirmed last, under the track id of the call that told it.
THEOREM DecisionSiempreRespaldada == SpecRecibidas => []DecisionRespaldada
<1>1. IndRecibidas => DecisionRespaldada
  BY DEF IndRecibidas, FilasQuietas, Coherente, DecisionRespaldada
<1> QED BY InicioRecibidas, PasoRecibidas, <1>1, PTL DEF SpecRecibidas

-----------------------------------------------------------------------------
(* The retry queue                                                         *)

USE DEF Decididos, obreroVars, colaReintentosVars

\* The worker runs the one job that is active; a job that is not in the queue yet is of
\* a call of crearFactura that has not reached queue.add.
UnSoloActivo ==
  /\ atendido = Ninguno <=> etapa = "libre"
  /\ \A c \in Comprobantes : /\ trabajo[c] = "activo" <=> atendido = c
                             /\ emisor[c] \in {"transmitiendo", "marcada"} => trabajo[c] = "ninguno"

\* What the worker is about to write, and what is written, is an answer of the DGII.
RespuestaEscrita ==
  /\ etapa \in Decididos => etapa \in respuestas[atendido]
  /\ \A c \in Comprobantes : fila[c] \in Decididos => fila[c] \in respuestas[c]

\* A job has attempts left until it ends as failed, and only then is its row marked.
IntentosContados ==
  \A c \in Comprobantes :
    /\ trabajo[c] \in {"ninguno", "espera", "activo"} => fallidos[c] < MaxIntentos
    /\ trabajo[c] = "fallido" \/ c \in porMarcar \/ fila[c] = "FALLIDO" =>
         fallidos[c] = MaxIntentos

\* While the server has not restarted, a row with an answer is that of a job that is
\* done or about to be.
SinVolver ==
  paradas = 0 =>
    \A c \in Comprobantes :
      /\ reenvios[c] = 0
      /\ fila[c] \in Decididos =>
           trabajo[c] = "hecho" \/ (trabajo[c] = "activo" /\ etapa = "anotada")

IndReintentos ==
  TypeOKReintentos /\ UnSoloActivo /\ RespuestaEscrita /\ IntentosContados /\ SinVolver

LEMMA InicioReintentos ==
  ASSUME InitReintentos PROVE IndReintentos
<1>1. pausado \in BOOLEAN /\ abierto \in BOOLEAN
  BY Zenon DEF InitReintentos
<1>2. TypeOKReintentos
  BY ColaAssumption, <1>1 DEF InitReintentos, TypeOKReintentos
<1>3. UnSoloActivo /\ RespuestaEscrita /\ IntentosContados /\ SinVolver
  BY ColaAssumption
  DEF InitReintentos, UnSoloActivo, RespuestaEscrita, IntentosContados, SinVolver
<1> QED BY <1>2, <1>3 DEF IndReintentos

LEMMA PasoReintentos ==
  ASSUME IndReintentos, [NextReintentos]_colaReintentosVars
  PROVE  IndReintentos'
<1> USE ColaAssumption
    DEF IndReintentos, TypeOKReintentos, UnSoloActivo, RespuestaEscrita, IntentosContados,
        SinVolver
<1>1. ASSUME NEW c \in Comprobantes, MarcarReintentando(c) PROVE IndReintentos'
  BY <1>1 DEF MarcarReintentando
<1>2. ASSUME NEW c \in Comprobantes, Encolado(c) PROVE IndReintentos'
  BY <1>2 DEF Encolado
<1>3. ASSUME NEW c \in Comprobantes, GuardarReintentando(c) PROVE IndReintentos'
  BY <1>3 DEF GuardarReintentando
<1>4. ASSUME NEW c \in Comprobantes, Atender(c) PROVE IndReintentos'
  <2>0. pausado' \in BOOLEAN
    <3>1. CASE abierto
      BY <1>4, <3>1, Zenon DEF Atender
    <3>2. CASE ~abierto
      BY <1>4, <3>2, Zenon DEF Atender
    <3> QED BY <3>1, <3>2
  <2>1. TypeOKReintentos'
    BY <1>4, <2>0 DEF Atender
  <2>2. UnSoloActivo' /\ RespuestaEscrita' /\ IntentosContados'
    BY <1>4 DEF Atender
  <2>3. SinVolver'
    BY <1>4 DEF Atender
  <2> QED BY <2>1, <2>2, <2>3
<1>5. ASSUME NEW r \in Decididos, Contestar(r) PROVE IndReintentos'
  BY <1>5 DEF Contestar
<1>6. CASE Transitorio
  <2> USE DEF Transitorio, FallarIntento, Agotado, Liberar
  <2>1. /\ atendido \in Comprobantes /\ trabajo[atendido] = "activo"
        /\ fallidos[atendido] \in Nat /\ fallidos[atendido] < MaxIntentos
        /\ etapa # "anotada" /\ etapa # "libre"
    BY <1>6
  <2>2. \A c \in Comprobantes : respuestas[c] \subseteq respuestas'[c]
    BY <1>6
  <2>3. TypeOKReintentos'
    BY <1>6, <2>1
  <2>4. UnSoloActivo' /\ RespuestaEscrita'
    BY <1>6, <2>1, <2>2
  <2>5. IntentosContados' /\ SinVolver'
    BY <1>6, <2>1
  <2> QED BY <2>3, <2>4, <2>5
<1>7. CASE Anotar
  BY <1>7 DEF Anotar
<1>8. CASE Completar
  BY <1>8 DEF Completar, Liberar
<1>9. ASSUME NEW c \in Comprobantes, MarcarFallido(c) PROVE IndReintentos'
  BY <1>9 DEF MarcarFallido
<1>10. CASE Abrirse \/ Cerrarse
  <2>1. abierto' \in BOOLEAN
    BY <1>10, Zenon DEF Abrirse, Cerrarse
  <2> QED BY <1>10, <2>1 DEF Abrirse, Cerrarse
<1>11. CASE Reiniciar
  <2>1. pausado' \in BOOLEAN /\ abierto' \in BOOLEAN
    BY <1>11, Zenon DEF Reiniciar
  <2>2. TypeOKReintentos'
    BY <1>11, <2>1 DEF Reiniciar, Liberar
  <2>3. UnSoloActivo' /\ RespuestaEscrita' /\ IntentosContados' /\ SinVolver'
    BY <1>11 DEF Reiniciar, Liberar
  <2> QED BY <2>2, <2>3
<1>12. CASE UNCHANGED colaReintentosVars
  BY <1>12
<1> QED
  BY <1>1, <1>2, <1>3, <1>4, <1>5, <1>6, <1>7, <1>8, <1>9, <1>10, <1>11, <1>12
  DEF NextReintentos

\* An answer in the row is one the DGII gave, FALLIDO means that every attempt failed, and
\* only a restart can send to the DGII a document whose row shows its answer.
THEOREM FinalSiempreJustificado == SpecReintentos => []FinalJustificado
<1>1. IndReintentos => FinalJustificado
  BY DEF IndReintentos, TypeOKReintentos, RespuestaEscrita, IntentosContados, SinVolver,
         FinalJustificado
<1> QED BY InicioReintentos, PasoReintentos, <1>1, PTL DEF SpecReintentos

-----------------------------------------------------------------------------
(* The name in the invoice form                                            *)

USE DEF receptorVars, formularioVars, envioVars, formVars

\* As long as every answer came for the RNC of the form and brought a name or a refusal,
\* a name of another taxpayer is about to be replaced: the lookup of the RNC is in flight.
NombrePorLlegar ==
  ~tardia /\ ~muda => rncForm \in busquedas \/ nombreForm \in {rncForm, AMano, Vacio}

LEMMA PasoFormulario ==
  ASSUME NombrePorLlegar, [NextFormulario]_formVars
  PROVE  NombrePorLlegar'
<1> USE DEF NombrePorLlegar
<1>1. ASSUME NEW r \in Rncs \union {Vacio}, TeclearRnc(r) PROVE NombrePorLlegar'
  BY <1>1 DEF TeclearRnc
<1>2. CASE TeclearNombre
  BY <1>2 DEF TeclearNombre
<1>3. ASSUME NEW r \in Rncs, Buscar(r) PROVE NombrePorLlegar'
  <2>1. CASE r # rncForm
    BY <1>3, <2>1, Zenon DEF Buscar, ResolverRnc
  <2>2. CASE r = rncForm
    <3>1. ~muda' => nombreForm' \in {r, Vacio}
      BY <1>3, Zenon DEF Buscar, ResolverRnc, NombreRechazado
    <3>2. rncForm' = rncForm
      BY <1>3 DEF Buscar, ResolverRnc
    <3> QED BY <2>2, <3>1, <3>2
  <2> QED BY <2>1, <2>2
<1>4. ASSUME NEW ls, CambiarRenglones(ls) PROVE NombrePorLlegar'
  BY <1>4 DEF CambiarRenglones
<1>5. ASSUME NEW d \in Descuentos, CambiarDescuento(d) PROVE NombrePorLlegar'
  BY <1>5 DEF CambiarDescuento
<1>6. CASE Enviar \/ Emitir
  BY <1>6 DEF Enviar, Emitir
<1>7. CASE Crear \/ Fallar
  BY <1>7 DEF Crear, Fallar, CerrarEnvio
<1>8. CASE NuevaFactura
  BY <1>8 DEF NuevaFactura, FormularioVacio
<1>9. CASE UNCHANGED formVars
  BY <1>9
<1> QED
  BY <1>1, <1>2, <1>3, <1>4, <1>5, <1>6, <1>7, <1>8, <1>9
  DEF NextFormulario, AgregarRenglon, QuitarRenglon, CambiarCantidad, ElegirArticulo

\* With no lookup in flight the form shows the name of the RNC it has, one typed by hand
\* or none, unless an answer came late or said nothing.
THEOREM NombreSiempreCoincide == SpecFormulario => []NombreCoincide
<1>1. InitFormulario => NombrePorLlegar
  BY DEF InitFormulario, NombrePorLlegar
<1>2. NombrePorLlegar => NombreCoincide
  BY DEF NombrePorLlegar, NombreCoincide
<1> QED BY PasoFormulario, <1>1, <1>2, PTL DEF SpecFormulario

RenglonForm == [art : Articulos \union {SinArticulo}, cant : Nat \ {0}]

LEMMA LineaNatural ==
  ASSUME NEW l \in RenglonForm
  PROVE  LineaDe(l).cant \in Nat /\ LineaDe(l).precio \in Nat /\ LineaDe(l).tasa \in Nat
<1>1. l.cant \in Nat /\ (l.art = SinArticulo \/ l.art \in Articulos)
  BY DEF RenglonForm
<1>2. l.art \in Articulos => PrecioDe[l.art] \in Nat /\ TasaDe[l.art] \in {0, 16, 18}
  BY FormularioAssumption
<1>3. TasaDe[l.art] \in {0, 16, 18} => TasaDe[l.art] \in Nat
  OBVIOUS
<1>4. /\ LineaDe(l).cant = 10 * l.cant
      /\ LineaDe(l).precio = IF l.art = SinArticulo THEN 0 ELSE PrecioDe[l.art]
      /\ LineaDe(l).tasa = IF l.art = SinArticulo THEN 18 ELSE TasaDe[l.art]
  BY DEF LineaDe
<1> QED BY <1>1, <1>2, <1>3, <1>4

\* A discount of at most 100 % leaves a total that is not negative.
LEMMA VistoNatural ==
  ASSUME NEW ls \in Seq(RenglonForm), NEW d \in Descuentos
  PROVE  GrandTotal(LineasDe(ls), d) \in Nat
<1> DEFINE lineas == LineasDe(ls)
           bruto == Subtotal(lineas)
<1>1. DOMAIN lineas = 1 .. Len(ls) /\ Len(ls) \in Nat
  BY DEF LineasDe
<1>2. IsFiniteSet(DOMAIN lineas)
  BY <1>1, FS_Interval
<1>3. ASSUME NEW i \in DOMAIN lineas
      PROVE  Monto(lineas[i]) \in Nat /\ Itbis(lineas[i]) \in Nat
  <2>1. ls[i] \in RenglonForm /\ lineas[i] = LineaDe(ls[i])
    BY <1>1 DEF LineasDe
  <2>2. lineas[i].cant \in Nat /\ lineas[i].precio \in Nat /\ lineas[i].tasa \in Nat
    BY <2>1, LineaNatural
  <2>3. \A a, b, c \in Nat : a * b * c \in Nat
    OBVIOUS
  <2> QED BY <2>2, <2>3 DEF Monto, Itbis
<1>4. bruto \in Nat /\ TotalItbis(lineas) \in Nat
  BY <1>2, <1>3, SubtotalNatural, TotalItbisNatural
<1>5. d \in 0 .. 100
  BY FormularioAssumption
<1> HIDE DEF bruto, lineas
<1>6. bruto * d \in Nat /\ bruto * d <= bruto * 100
  BY <1>4, <1>5
<1>7. (bruto * d) \div 100 \in Nat /\ (bruto * d) \div 100 <= bruto
  BY <1>4, <1>6
<1> QED BY <1>4, <1>7 DEF GrandTotal, Total, bruto, lineas

LEMMA PasoTiposFormulario ==
  ASSUME TypeOKFormulario, [NextFormulario]_formVars
  PROVE  TypeOKFormulario'
<1> USE DEF receptorVars, formularioVars, envioVars, Editable
<1>0. renglones \in Seq(RenglonForm) /\ RenglonVacio \in RenglonForm
  BY DEF TypeOKFormulario, RenglonForm, RenglonVacio
\* A step that leaves the lines and the POST alone.
<1>a. ASSUME UNCHANGED <<renglones, envioVars>>, descuento' \in Descuentos,
             rncForm' \in Rncs \union {Vacio}, nombreForm' \in Rncs \union {Vacio, AMano},
             busquedas' \subseteq Rncs, buscando' \in BOOLEAN, tardia' \in BOOLEAN, muda' \in BOOLEAN
      PROVE  TypeOKFormulario'
  BY <1>a DEF TypeOKFormulario
\* A step of the POST alone.
<1>b. ASSUME UNCHANGED receptorVars, descuento' \in Descuentos, renglones' \in Seq(RenglonForm),
             pasoForm' \in {"edicion", "enviando", "emitiendo", "creada"},
             visto' \in Nat, enviosForm' \in Nat, cuerpo'.desc \in Descuentos
      PROVE  TypeOKFormulario'
  BY <1>b DEF TypeOKFormulario, RenglonForm
<1>1. ASSUME NEW r \in Rncs \union {Vacio}, TeclearRnc(r) PROVE TypeOKFormulario'
  <2>1. /\ UNCHANGED <<tardia, muda, renglones, descuento, envioVars>> /\ rncForm' = r
        /\ nombreForm' \in {nombreForm, Vacio} /\ busquedas' \subseteq Rncs
    BY <1>1 DEF TypeOKFormulario, TeclearRnc
  <2>2. buscando' \in {TRUE, buscando}
    BY <1>1, Zenon DEF TeclearRnc
  <2>3. buscando' \in BOOLEAN
    BY <2>2 DEF TypeOKFormulario
  <2>4. tardia' \in BOOLEAN /\ muda' \in BOOLEAN
    BY <2>1 DEF TypeOKFormulario
  <2>5. UNCHANGED <<renglones, envioVars>> /\ descuento' \in Descuentos
    BY <2>1 DEF TypeOKFormulario
  <2> QED BY <1>a, <2>1, <2>3, <2>4, <2>5 DEF TypeOKFormulario
<1>2. CASE TeclearNombre
  <2>1. buscando' \in BOOLEAN /\ tardia' \in BOOLEAN /\ muda' \in BOOLEAN
    BY <1>2 DEF TypeOKFormulario, TeclearNombre
  <2> QED BY <1>2, <1>a, <2>1 DEF TypeOKFormulario, TeclearNombre
<1>3. ASSUME NEW r \in Rncs, Buscar(r) PROVE TypeOKFormulario'
  <2>1. /\ UNCHANGED <<rncForm, renglones, descuento, envioVars>> /\ busquedas' \subseteq Rncs
        /\ nombreForm' \in {r, Vacio, nombreForm}
    BY <1>3 DEF TypeOKFormulario, Buscar, ResolverRnc, NombreRechazado
  <2>2. buscando' = FALSE /\ tardia' = (tardia \/ r # rncForm)
    BY <1>3, Zenon DEF Buscar, ResolverRnc
  <2>3. muda' = (muda \/ FALSE) \/ muda' = (muda \/ TRUE)
    BY <1>3, Zenon DEF Buscar, ResolverRnc
  <2>4. buscando' \in BOOLEAN /\ tardia' \in BOOLEAN /\ muda' \in BOOLEAN
    BY <2>2, <2>3, Zenon
  <2> QED BY <1>a, <2>1, <2>4 DEF TypeOKFormulario
<1>4. ASSUME NEW ls \in Seq(RenglonForm), CambiarRenglones(ls) PROVE TypeOKFormulario'
  BY <1>4, <1>b DEF TypeOKFormulario, CambiarRenglones
<1>5. CASE AgregarRenglon
  <2>1. Append(renglones, RenglonVacio) \in Seq(RenglonForm)
    BY <1>0
  <2> QED BY <1>4, <1>5, <2>1 DEF AgregarRenglon
<1>6. ASSUME NEW i \in DOMAIN renglones, QuitarRenglon(i) PROVE TypeOKFormulario'
  <2>1. /\ SubSeq(renglones, 1, i - 1) \in Seq(RenglonForm)
        /\ SubSeq(renglones, i + 1, Len(renglones)) \in Seq(RenglonForm)
    BY <1>0
  <2>2. SubSeq(renglones, 1, i - 1) \o SubSeq(renglones, i + 1, Len(renglones)) \in Seq(RenglonForm)
    BY <2>1
  <2> QED BY <1>4, <1>6, <2>2 DEF QuitarRenglon
<1>7. ASSUME NEW i \in DOMAIN renglones, NEW n \in CantidadesForm, CambiarCantidad(i, n)
      PROVE  TypeOKFormulario'
  <2>1. [renglones[i] EXCEPT !.cant = n] \in RenglonForm
    <3>1. renglones[i] \in RenglonForm /\ n \in Nat \ {0}
      BY <1>0, FormularioAssumption
    <3> QED BY <3>1 DEF RenglonForm
  <2>2. [renglones EXCEPT ![i].cant = n] = [renglones EXCEPT ![i] = [renglones[i] EXCEPT !.cant = n]]
    OBVIOUS
  <2>3. [renglones EXCEPT ![i] = [renglones[i] EXCEPT !.cant = n]] \in Seq(RenglonForm)
    BY <1>0, <2>1, ExceptSeq
  <2> QED BY <1>4, <1>7, <2>2, <2>3 DEF CambiarCantidad
<1>8. ASSUME NEW i \in DOMAIN renglones, NEW a \in Articulos, ElegirArticulo(i, a)
      PROVE  TypeOKFormulario'
  <2>1. [renglones[i] EXCEPT !.art = a] \in RenglonForm
    <3>1. renglones[i] \in RenglonForm
      BY <1>0
    <3> QED BY <3>1 DEF RenglonForm
  <2>2. [renglones EXCEPT ![i].art = a] = [renglones EXCEPT ![i] = [renglones[i] EXCEPT !.art = a]]
    OBVIOUS
  <2>3. [renglones EXCEPT ![i] = [renglones[i] EXCEPT !.art = a]] \in Seq(RenglonForm)
    BY <1>0, <2>1, ExceptSeq
  <2> QED BY <1>4, <1>8, <2>2, <2>3 DEF ElegirArticulo
<1>9. ASSUME NEW d \in Descuentos, CambiarDescuento(d) PROVE TypeOKFormulario'
  BY <1>9, <1>b, <1>0 DEF TypeOKFormulario, CambiarDescuento
<1>10. CASE Enviar
  <2>1. visto' \in Nat
    BY <1>0, <1>10, VistoNatural DEF Enviar, TypeOKFormulario
  <2> QED BY <1>0, <1>10, <1>b, <2>1 DEF TypeOKFormulario, Enviar
<1>11. CASE Emitir
  BY <1>0, <1>11, <1>b DEF TypeOKFormulario, Emitir
<1>12. CASE Crear \/ Fallar
  <2>1. 0 \in Descuentos
    BY FormularioAssumption
  <2> QED BY <1>0, <1>12, <1>b, <2>1 DEF TypeOKFormulario, Crear, Fallar, CerrarEnvio, SinCuerpo
<1>13. CASE NuevaFactura
  <2>1. <<RenglonVacio>> \in Seq(RenglonForm) /\ 0 \in Descuentos
    BY <1>0, FormularioAssumption
  <2>2. /\ rncForm' = Vacio /\ nombreForm' = Vacio /\ renglones' = <<RenglonVacio>> /\ descuento' = 0
        /\ pasoForm' = "edicion"
        /\ UNCHANGED <<busquedas, buscando, tardia, muda, visto, cuerpo, enviosForm, emitidasForm>>
    BY <1>13 DEF NuevaFactura, FormularioVacio
  <2>3. buscando' \in BOOLEAN /\ tardia' \in BOOLEAN /\ muda' \in BOOLEAN
    BY <2>2 DEF TypeOKFormulario
  <2> QED BY <2>1, <2>2, <2>3 DEF TypeOKFormulario, RenglonForm
<1>14. CASE UNCHANGED formVars
  BY <1>0, <1>14, <1>b DEF TypeOKFormulario, formVars
<1> QED
  BY <1>1, <1>2, <1>3, <1>5, <1>6, <1>7, <1>8, <1>9, <1>10, <1>11, <1>12, <1>13, <1>14
  DEF NextFormulario

-----------------------------------------------------------------------------
(* Validation of RNCs                                                      *)

USE DEF EstadosRnc, DichosDgii, preguntaVars, fuenteVars, rncVars, VidaCache

\* What has been cached as active was active when it was cached, and what a call holds
\* as active was active less than a life of the cache ago.
ActividadReciente ==
  /\ \A n \in RncsReceptor :
       /\ ultimaActiva[n] <= hora
       /\ cacheRnc[n].estado = "activo" => cacheRnc[n].desde <= ActivaHasta[n]
  /\ importando => \A n \in RncsReceptor : padron[n] = NoHallado
  /\ \A v \in Preguntas : respuestaRnc[v] = "activo" =>
       /\ pasoRnc[v] = "por_guardar" => ActivaHasta[rncDe[v]] = hora
       /\ pasoRnc[v] = "hallada" => hora < ActivaHasta[rncDe[v]] + VidaCache

IndRnc == TypeOKRnc /\ ActividadReciente

LEMMA InicioRnc ==
  ASSUME InitRnc PROVE IndRnc
<1>1. importando \in BOOLEAN
  BY Zenon DEF InitRnc
<1> QED
  BY <1>1, RncAssumption
  DEF InitRnc, SinCache, IndRnc, TypeOKRnc, ActividadReciente, ActivaHasta, FigurabaActivo

\* The steps of a call leave the sources as they are.
LEMMA PasoPregunta ==
  ASSUME IndRnc, NEW v \in Preguntas, Preguntar(v)
  PROVE  IndRnc'
<1> USE DEF IndRnc, TypeOKRnc, PasarRnc, Anotada
<1>1. ActivaHasta' = ActivaHasta /\ UNCHANGED <<fuenteVars, rncDe>>
  BY DEF Preguntar, NoValidar, LeerCache, NoEncontrarEnCache, ConsultarServicio, ConsultarPadron,
         GuardarEnCache, Responder, ActivaHasta, FigurabaActivo
<1>2. ActivaHasta[rncDe[v]] \in Nat /\ ActivaHasta[rncDe[v]] <= hora
  BY DEF ActivaHasta, ActividadReciente
<1>3. CASE NoValidar(v) \/ NoEncontrarEnCache(v) \/ Responder(v)
  BY <1>1, <1>3 DEF NoValidar, NoEncontrarEnCache, Responder, ActividadReciente
<1>4. CASE LeerCache(v)
  BY <1>1, <1>2, <1>4 DEF LeerCache, EnCacheRnc, ActividadReciente
<1>5. CASE ConsultarServicio(v)
  <2>1. registroDgii[rncDe[v]] # NoHallado /\ Normalizado(registroDgii[rncDe[v]]) = "activo"
          => ActivaHasta[rncDe[v]] = hora
    BY DEF Normalizado, ActivaHasta, FigurabaActivo
  <2>2. registroDgii[rncDe[v]] # NoHallado => Normalizado(registroDgii[rncDe[v]]) \in EstadosRnc
    BY DEF Normalizado
  <2>3. TypeOKRnc'
    BY <1>1, <1>5, <2>2 DEF ConsultarServicio
  <2>4. \/ pasoRnc'[v] = "padron" /\ UNCHANGED respuestaRnc
        \/ pasoRnc'[v] = "rechazada" /\ UNCHANGED respuestaRnc
        \/ pasoRnc'[v] = "por_guardar" /\ (respuestaRnc'[v] = "activo" => ActivaHasta[rncDe[v]] = hora)
    BY <1>5, <2>1 DEF ConsultarServicio
  <2>5. \A w \in Preguntas : w # v => pasoRnc'[w] = pasoRnc[w] /\ respuestaRnc'[w] = respuestaRnc[w]
    BY <1>5 DEF ConsultarServicio
  <2>6. UNCHANGED cacheRnc
    BY <1>5 DEF ConsultarServicio
  <2>7. ActividadReciente'
    BY <1>1, <2>4, <2>5, <2>6 DEF ActividadReciente
  <2> QED BY <2>3, <2>7
<1>6. CASE ConsultarPadron(v)
  <2>1. padron[rncDe[v]] # NoHallado /\ Normalizado(padron[rncDe[v]]) = "activo"
          => ActivaHasta[rncDe[v]] = hora
    BY DEF Normalizado, ActivaHasta, FigurabaActivo
  <2>2. padron[rncDe[v]] # NoHallado => Normalizado(padron[rncDe[v]]) \in EstadosRnc
    BY DEF Normalizado
  <2>3. TypeOKRnc'
    BY <1>1, <1>6, <2>2 DEF ConsultarPadron
  <2>4. \/ pasoRnc'[v] = "padron" /\ UNCHANGED respuestaRnc
        \/ pasoRnc'[v] = "rechazada" /\ UNCHANGED respuestaRnc
        \/ pasoRnc'[v] = "por_guardar" /\ (respuestaRnc'[v] = "activo" => ActivaHasta[rncDe[v]] = hora)
    BY <1>6, <2>1 DEF ConsultarPadron
  <2>5. \A w \in Preguntas : w # v => pasoRnc'[w] = pasoRnc[w] /\ respuestaRnc'[w] = respuestaRnc[w]
    BY <1>6 DEF ConsultarPadron
  <2>6. UNCHANGED cacheRnc
    BY <1>6 DEF ConsultarPadron
  <2>7. ActividadReciente'
    BY <1>1, <2>4, <2>5, <2>6 DEF ActividadReciente
  <2> QED BY <2>3, <2>7
<1>7. CASE GuardarEnCache(v)
  <2>1. TypeOKRnc'
    BY <1>1, <1>7 DEF GuardarEnCache
  <2>2. pasoRnc' = [pasoRnc EXCEPT ![v] = "hallada"] /\ pasoRnc[v] = "por_guardar"
        /\ UNCHANGED respuestaRnc
    BY <1>7 DEF GuardarEnCache
  <2>3. \A n \in RncsReceptor :
          \/ cacheRnc'[n] = cacheRnc[n]
          \/ n = rncDe[v] /\ cacheRnc'[n] = [estado |-> respuestaRnc[v], desde |-> hora]
    BY <1>7 DEF GuardarEnCache
  <2>4. ActividadReciente'
    <3>1. \A n \in RncsReceptor : cacheRnc'[n].estado = "activo" => cacheRnc'[n].desde <= ActivaHasta[n]
      BY <1>2, <2>2, <2>3 DEF ActividadReciente
    <3>2. \A w \in Preguntas : respuestaRnc[w] = "activo" =>
            /\ pasoRnc'[w] = "por_guardar" => ActivaHasta[rncDe[w]] = hora
            /\ pasoRnc'[w] = "hallada" => hora < ActivaHasta[rncDe[w]] + VidaCache
      BY <1>2, <2>2 DEF ActividadReciente
    <3> QED BY <1>1, <2>2, <3>1, <3>2 DEF ActividadReciente
  <2> QED BY <2>1, <2>4
<1> QED BY <1>3, <1>4, <1>5, <1>6, <1>7 DEF Preguntar

\* A source that stops having a contributor as active leaves the hour of it.
LEMMA PasoFuentes ==
  ASSUME IndRnc,
         \/ \E n \in RncsReceptor, e \in DichosDgii : CambiarContribuyente(n, e)
         \/ VaciarPadron \/ CargarPadron \/ AvanzarHora
  PROVE  IndRnc'
<1> USE DEF IndRnc, TypeOKRnc
<1>1. \A n \in RncsReceptor : /\ ActivaHasta[n] \in Nat /\ ActivaHasta[n] <= hora
                              /\ ultimaActiva[n] <= ActivaHasta[n]
  BY DEF ActivaHasta, ActividadReciente
<1>2. UNCHANGED <<cacheRnc, preguntaVars>>
  BY DEF CambiarContribuyente, VaciarPadron, CargarPadron, AvanzarHora
<1>3. TypeOKRnc' /\ (importando => \A n \in RncsReceptor : padron[n] = NoHallado)'
  <2>1. importando' \in BOOLEAN
    BY Zenon DEF CambiarContribuyente, VaciarPadron, CargarPadron, AvanzarHora
  <2>2. \A n \in RncsReceptor :
          registroDgii[n] # NoHallado => Normalizado(registroDgii[n]) \in EstadosRnc
    BY DEF Normalizado
  <2>3. padron' \in [RncsReceptor -> EstadosRnc \union {NoHallado}]
    BY <2>2 DEF CambiarContribuyente, VaciarPadron, CargarPadron, AvanzarHora
  <2>4. ultimaActiva' \in [RncsReceptor -> Nat] /\ hora' \in Nat /\ cambiosRnc' \in Nat
    BY <1>1 DEF CambiarContribuyente, VaciarPadron, CargarPadron, AvanzarHora, ActivaHasta
  <2>5. registroDgii' \in [RncsReceptor -> DichosDgii]
    BY DEF CambiarContribuyente, VaciarPadron, CargarPadron, AvanzarHora
  <2>6. (importando => \A n \in RncsReceptor : padron[n] = NoHallado)'
    <3>1. CASE CargarPadron
      BY <3>1, Zenon DEF CargarPadron
    <3>2. CASE VaciarPadron
      BY <3>2 DEF VaciarPadron
    <3>3. CASE \/ \E n \in RncsReceptor, e \in DichosDgii : CambiarContribuyente(n, e)
               \/ AvanzarHora
      BY <3>3 DEF CambiarContribuyente, AvanzarHora, ActividadReciente
    <3> QED BY <3>1, <3>2, <3>3
  <2> QED BY <1>2, <2>1, <2>3, <2>4, <2>5, <2>6
<1>4. \A n \in RncsReceptor : /\ ActivaHasta[n] <= ActivaHasta'[n]
                              /\ ultimaActiva'[n] <= hora'
  <2> USE DEF ActivaHasta, FigurabaActivo, ActividadReciente
  <2>1. CASE \/ \E n \in RncsReceptor, e \in DichosDgii : CambiarContribuyente(n, e)
             \/ VaciarPadron
    BY <1>1, <1>3, <2>1 DEF CambiarContribuyente, VaciarPadron
  <2>2. CASE CargarPadron
    <3>1. \A n \in RncsReceptor : padron[n] = NoHallado
      BY <2>2, Zenon DEF CargarPadron
    <3>2. UNCHANGED <<hora, registroDgii, ultimaActiva>>
      BY <2>2 DEF CargarPadron
    <3> QED BY <1>1, <1>3, <3>1, <3>2, RncAssumption
  <2>3. CASE AvanzarHora
    BY <1>1, <1>3, <2>3 DEF AvanzarHora
  <2> QED BY <2>1, <2>2, <2>3
<1>5. \/ hora' = hora
      \/ \A v \in Preguntas : pasoRnc[v] \notin {"servicio", "padron", "por_guardar", "hallada"}
  BY DEF CambiarContribuyente, VaciarPadron, CargarPadron, AvanzarHora
<1>6. \A n \in RncsReceptor : ActivaHasta'[n] \in Nat /\ ActivaHasta'[n] <= hora'
  BY <1>3, <1>4 DEF ActivaHasta
<1>7. \A n \in RncsReceptor :
        cacheRnc'[n].estado = "activo" => cacheRnc'[n].desde <= ActivaHasta'[n]
  <2> SUFFICES ASSUME NEW n \in RncsReceptor, cacheRnc[n].estado = "activo"
               PROVE  cacheRnc[n].desde <= ActivaHasta'[n]
    BY <1>2
  <2>1. cacheRnc[n].desde <= ActivaHasta[n] /\ cacheRnc[n].desde \in Nat
    BY DEF ActividadReciente
  <2> QED BY <1>1, <1>4, <1>6, <2>1
<1>8. \A v \in Preguntas : respuestaRnc[v] = "activo" =>
        /\ pasoRnc[v] = "por_guardar" => ActivaHasta'[rncDe[v]] = hora'
        /\ pasoRnc[v] = "hallada" => hora' < ActivaHasta'[rncDe[v]] + VidaCache
  <2> SUFFICES ASSUME NEW v \in Preguntas, respuestaRnc[v] = "activo",
                      pasoRnc[v] \in {"por_guardar", "hallada"}
               PROVE  /\ pasoRnc[v] = "por_guardar" => ActivaHasta'[rncDe[v]] = hora'
                      /\ pasoRnc[v] = "hallada" => hora' < ActivaHasta'[rncDe[v]] + VidaCache
    OBVIOUS
  <2>1. hora' = hora /\ rncDe[v] \in RncsReceptor
    BY <1>5
  <2>2. /\ pasoRnc[v] = "por_guardar" => ActivaHasta[rncDe[v]] = hora
        /\ pasoRnc[v] = "hallada" => hora < ActivaHasta[rncDe[v]] + VidaCache
    BY DEF ActividadReciente
  <2>3. /\ ActivaHasta[rncDe[v]] \in Nat /\ ActivaHasta'[rncDe[v]] \in Nat
        /\ ActivaHasta[rncDe[v]] <= ActivaHasta'[rncDe[v]]
        /\ ActivaHasta'[rncDe[v]] <= hora
    BY <1>1, <1>4, <1>6, <2>1
  <2> HIDE DEF IndRnc, TypeOKRnc
  <2>4. hora \in Nat
    BY DEF IndRnc, TypeOKRnc
  <2> QED BY <2>1, <2>2, <2>3, <2>4
<1> QED BY <1>2, <1>3, <1>4, <1>7, <1>8 DEF ActividadReciente

LEMMA PasoRnc ==
  ASSUME IndRnc, [NextRnc]_rncVars
  PROVE  IndRnc'
<1>1. CASE UNCHANGED rncVars
  BY <1>1 DEF IndRnc, TypeOKRnc, ActividadReciente, ActivaHasta, FigurabaActivo
<1> QED BY <1>1, PasoPregunta, PasoFuentes DEF NextRnc

\* An invoice is marked rnc_validado only for a receiver that was active in a source less
\* than a life of the cache ago, however the sources and the cache changed in between.
THEOREM ValidacionSiempreReciente == SpecRnc => ValidadoReciente
<1>1. IndRnc /\ [NextRnc]_rncVars =>
        [\A v \in Preguntas :
           (pasoRnc[v] # "validada" /\ pasoRnc'[v] = "validada")
             => FigurabaActivo(rncDe[v]) \/ hora < ultimaActiva[rncDe[v]] + VidaCache]_rncVars
  <2> SUFFICES ASSUME IndRnc, NextRnc, NEW v \in Preguntas,
                      pasoRnc[v] # "validada", pasoRnc'[v] = "validada"
               PROVE  FigurabaActivo(rncDe[v]) \/ hora < ultimaActiva[rncDe[v]] + VidaCache
    OBVIOUS
  <2>1. PICK w \in Preguntas : Preguntar(w)
    BY DEF NextRnc, CambiarContribuyente, VaciarPadron, CargarPadron, AvanzarHora
  <2>2. w = v /\ pasoRnc[v] = "hallada" /\ respuestaRnc[v] = "activo"
    BY <2>1
    DEF IndRnc, TypeOKRnc, Preguntar, NoValidar, LeerCache, NoEncontrarEnCache,
        ConsultarServicio, ConsultarPadron, GuardarEnCache, Responder, PasarRnc, Anotada
  <2>3. hora < ActivaHasta[rncDe[v]] + VidaCache /\ rncDe[v] \in RncsReceptor
    BY <2>2 DEF IndRnc, TypeOKRnc, ActividadReciente
  <2> QED BY <2>3 DEF ActivaHasta
<1> QED BY InicioRnc, PasoRnc, <1>1, PTL DEF SpecRnc, ValidadoReciente

-----------------------------------------------------------------------------
(* The certification set                                                   *)

USE DEF ejecucionVars, resultadoVars, ambienteVars, filasVars, certificacionVars

\* The steps of a type follow one another up to this one.
UltimoDe == [E31 |-> 3, E32 |-> 5, E33 |-> 6, E34 |-> 7, E41 |-> 8, E43 |-> 9, E44 |-> 10,
             E45 |-> 11]

\* The numbers of type t that the steps from s on may take.
Falta(t, s) ==
  IF UltimoDe[t] < s THEN 0
  ELSE IF UltimoDe[t] - s + 1 <= SECUENCIAS_REQUERIDAS[t] THEN UltimoDe[t] - s + 1
  ELSE SECUENCIAS_REQUERIDAS[t]

LEMMA Tabla ==
  /\ DeFactura = 1 .. 11
  /\ TiposSet = {"E31", "E32", "E33", "E34", "E41", "E43", "E44", "E45"}
  /\ \A n \in DeFactura :
       /\ TipoDelPaso[n] \in TiposSet
       /\ n <= UltimoDe[TipoDelPaso[n]]
       /\ UltimoDe[TipoDelPaso[n]] - n + 1 <= SECUENCIAS_REQUERIDAS[TipoDelPaso[n]]
  /\ \A t \in TiposSet : SECUENCIAS_REQUERIDAS[t] \in Nat /\ UltimoDe[t] \in Nat
<1>1. DeFactura = 1 .. 11
  BY DEF DeFactura, TipoDelPaso
<1>2. \A n \in 1 .. 11 : n \in {1, 2, 3, 4, 5, 6, 7, 8, 9, 10, 11}
  OBVIOUS
<1>3. TiposSet = {"E31", "E32", "E33", "E34", "E41", "E43", "E44", "E45"}
  <2>1. TiposSet \subseteq {"E31", "E32", "E33", "E34", "E41", "E43", "E44", "E45"}
    BY <1>1, <1>2 DEF TiposSet, TipoDelPaso
  <2>2. /\ TipoDelPaso[1] = "E31" /\ TipoDelPaso[4] = "E32" /\ TipoDelPaso[6] = "E33"
        /\ TipoDelPaso[7] = "E34" /\ TipoDelPaso[8] = "E41" /\ TipoDelPaso[9] = "E43"
        /\ TipoDelPaso[10] = "E44" /\ TipoDelPaso[11] = "E45"
    BY DEF TipoDelPaso
  <2> QED BY <1>1, <2>1, <2>2 DEF TiposSet
<1>4. \A n \in DeFactura :
        /\ TipoDelPaso[n] \in TiposSet
        /\ n <= UltimoDe[TipoDelPaso[n]]
        /\ UltimoDe[TipoDelPaso[n]] - n + 1 <= SECUENCIAS_REQUERIDAS[TipoDelPaso[n]]
  BY <1>1, <1>2, <1>3 DEF TipoDelPaso, UltimoDe, SECUENCIAS_REQUERIDAS
<1>5. \A t \in TiposSet : SECUENCIAS_REQUERIDAS[t] \in Nat /\ UltimoDe[t] \in Nat
  BY <1>3 DEF UltimoDe, SECUENCIAS_REQUERIDAS
<1> QED BY <1>1, <1>3, <1>4, <1>5

\* What is left to take never exceeds what is required, and a step takes one of its type.
LEMMA FaltaDecrece ==
  ASSUME NEW t \in TiposSet, NEW s \in Nat, NEW z \in Nat, s < z
  PROVE  /\ Falta(t, s) \in Nat /\ Falta(t, z) \in Nat
         /\ Falta(t, s) <= SECUENCIAS_REQUERIDAS[t]
         /\ Falta(t, z) <= Falta(t, s)
         /\ s \in DeFactura /\ TipoDelPaso[s] = t => Falta(t, z) + 1 <= Falta(t, s)
<1>1. SECUENCIAS_REQUERIDAS[t] \in Nat /\ UltimoDe[t] \in Nat
  BY Tabla
<1>2. s \in DeFactura /\ TipoDelPaso[s] = t =>
        s <= UltimoDe[t] /\ UltimoDe[t] - s + 1 <= SECUENCIAS_REQUERIDAS[t]
  BY Tabla
<1> QED BY <1>1, <1>2 DEF Falta

\* What the set issues meets no criterion of an integrator.
LEMMA NingunaCumple == \A n, k \in DeFactura : ~Cumple(n, Dto(k))
<1>1. \A k \in DeFactura : ~Dto(k).llave
  BY DEF Dto, NotaDebito, NotaCredito, Basica
<1> QED BY <1>1 DEF Cumple

TipoCertificacion ==
  /\ recorrido \in Recorridos
  /\ TypeOKCertificacion
  /\ eNcfPaso1 = [x \in Ejecuciones |-> eNcfPaso1[x]]
  /\ notas = [x \in Ejecuciones |-> notas[x]]

\* A company that was never in production has all its numbers in certification.
SoloPruebas ==
  \A e \in EmpresasSet \ promovidas :
    entorno[e] = "certificacion" /\ \A t \in TiposSet : rangoProd[e][t] \notin Nat

\* Nobody disturbed the run, and its company was never in production.
Tranquila(x) == ~mezclada[x] /\ duenna[x] \notin promovidas

\* A run like that has the numbers it made sure of, then those its steps may still take;
\* the notes of any refer to the invoice of its step 1, which comes before them.
Provista(x) ==
  /\ Tranquila(x) =>
       /\ sinNumero[x] = {}
       /\ faseSet[x] = "creando" =>
            \A t \in TiposSet \ porCrear[x] :
              Restantes(duenna[x], t) >= SECUENCIAS_REQUERIDAS[t]
       /\ faseSet[x] = "pasos" =>
            \A t \in TiposSet : Restantes(duenna[x], t) >= Falta(t, pasoSet[x])
  /\ notas[x] \subseteq {eNcfPaso1[x]}
  /\ pasoSet[x] = 1 => notas[x] = {}

IndCertificacion ==
  TipoCertificacion /\ SoloPruebas /\ \A x \in Ejecuciones : Provista(x)

LEMMA RestantesNatural ==
  ASSUME NEW e \in EmpresasSet, NEW t \in TiposSet
  PROVE  Restantes(e, t) \in Nat
BY DEF Restantes

\* Until then, what the validation counts is what an invoice may take.
LEMMA VistosRestantes ==
  ASSUME SoloPruebas, NEW e \in EmpresasSet \ promovidas, NEW t \in TiposSet
  PROVE  Vistos(e, t) = {Restantes(e, t)}
<1>1. entorno[e] = "certificacion" /\ rangoProd[e][t] \notin Nat
  BY DEF SoloPruebas
<1>2. CASE rango[e][t] \in Nat
  <2>1. {rango[e][t], rangoProd[e][t]} \intersect Nat = {rango[e][t]}
    BY <1>1, <1>2
  <2> QED BY <1>1, <1>2, <2>1 DEF Vistos, Restantes
<1>3. CASE rango[e][t] \notin Nat
  <2>1. {rango[e][t], rangoProd[e][t]} \intersect Nat = {}
    BY <1>1, <1>3
  <2> QED BY <1>1, <1>3, <2>1 DEF Vistos, Restantes
<1> QED BY <1>2, <1>3

FilasBienTipadas ==
  /\ rango \in [EmpresasSet -> [TiposSet -> ValoresDeFila]]
  /\ rangoProd \in [EmpresasSet -> [TiposSet -> ValoresDeFila]]

\* One number less of type t in company e, and of no other.
LEMMA UnNumeroMenos ==
  ASSUME TipoCertificacion, SoloPruebas, NEW e \in EmpresasSet, NEW t \in TiposSet,
         Restantes(e, t) > 0, Gastar(e, t), UNCHANGED <<entorno, promovidas>>
  PROVE  /\ FilasBienTipadas'
         /\ SoloPruebas'
         /\ Restantes(e, t)' + 1 = Restantes(e, t)
         /\ \A d \in EmpresasSet, u \in TiposSet :
              d # e \/ u # t => Restantes(d, u)' = Restantes(d, u)
<1>0. /\ rango \in [EmpresasSet -> [TiposSet -> ValoresDeFila]]
      /\ rangoProd \in [EmpresasSet -> [TiposSet -> ValoresDeFila]]
      /\ Nat \subseteq ValoresDeFila
  BY DEF TipoCertificacion, TypeOKCertificacion, ValoresDeFila
<1>1. CASE entorno[e] = "certificacion"
  <2>1. rango' = [rango EXCEPT ![e][t] = @ - 1] /\ UNCHANGED rangoProd
    BY <1>1 DEF Gastar
  <2>2. rango[e][t] \in Nat /\ rango[e][t] - 1 \in Nat
    BY <1>1 DEF Restantes
  <2>3. FilasBienTipadas'
    BY <1>0, <2>1, <2>2 DEF FilasBienTipadas
  <2>4. \A d \in EmpresasSet, u \in TiposSet :
          rango'[d][u] = IF d = e /\ u = t THEN rango[e][t] - 1 ELSE rango[d][u]
    BY <1>0, <2>1
  <2>5. Restantes(e, t)' + 1 = Restantes(e, t)
    BY <1>1, <2>2, <2>4 DEF Restantes
  <2>6. \A d \in EmpresasSet, u \in TiposSet :
          d # e \/ u # t => Restantes(d, u)' = Restantes(d, u)
    BY <2>1, <2>4 DEF Restantes
  <2> QED BY <2>1, <2>3, <2>5, <2>6 DEF SoloPruebas
<1>2. CASE entorno[e] # "certificacion"
  <2>1. rangoProd' = [rangoProd EXCEPT ![e][t] = @ - 1] /\ UNCHANGED rango
    BY <1>2 DEF Gastar
  <2>2. rangoProd[e][t] \in Nat /\ rangoProd[e][t] - 1 \in Nat
    BY <1>2 DEF Restantes
  <2>3. FilasBienTipadas'
    BY <1>0, <2>1, <2>2 DEF FilasBienTipadas
  <2>4. \A d \in EmpresasSet, u \in TiposSet :
          rangoProd'[d][u] = IF d = e /\ u = t THEN rangoProd[e][t] - 1 ELSE rangoProd[d][u]
    BY <1>0, <2>1
  <2>5. Restantes(e, t)' + 1 = Restantes(e, t)
    BY <1>2, <2>2, <2>4 DEF Restantes
  <2>6. \A d \in EmpresasSet, u \in TiposSet :
          d # e \/ u # t => Restantes(d, u)' = Restantes(d, u)
    BY <2>1, <2>4 DEF Restantes
  <2>7. e \in promovidas
    BY <1>2 DEF SoloPruebas
  <2> QED BY <2>3, <2>4, <2>5, <2>6, <2>7 DEF SoloPruebas
<1> QED BY <1>1, <1>2

LEMMA SiguientePaso ==
  ASSUME TipoCertificacion, NEW x \in Ejecuciones, En(x, 1 .. Ultimo), Avanzar(x)
  PROVE  /\ pasoSet' \in [Ejecuciones -> 1 .. Ultimo + 1]
         /\ pasoSet[x] < pasoSet'[x]
         /\ \A y \in Ejecuciones : y # x => pasoSet'[y] = pasoSet[y]
<1> DEFINE S == {n \in recorrido.pasos : n > pasoSet[x]} \union {Ultimo + 1}
<1>1. recorrido.pasos \subseteq 1 .. Ultimo /\ pasoSet[x] \in 1 .. Ultimo
  BY CertificacionAssumption DEF TipoCertificacion, En
<1>2. S \subseteq 1 .. Ultimo + 1 /\ S # {} /\ \A n \in S : pasoSet[x] < n
  BY <1>1 DEF Ultimo
<1>3. Min(S) \in S
  BY <1>2, HayMinimo DEF Ultimo
<1>4. pasoSet' = [pasoSet EXCEPT ![x] = Min(S)]
  BY DEF Avanzar
<1> QED BY <1>2, <1>3, <1>4 DEF TipoCertificacion, TypeOKCertificacion

\* What others do keeps a run provided unless it takes numbers and marks it as disturbed.
LEMMA OtraEjecucion ==
  ASSUME TipoCertificacion, NEW y \in Ejecuciones, Provista(y),
         faseSet'[y] = faseSet[y], duenna' = duenna, porCrear'[y] = porCrear[y],
         pasoSet'[y] = pasoSet[y], sinNumero'[y] = sinNumero[y], notas'[y] = notas[y],
         eNcfPaso1'[y] = eNcfPaso1[y],
         Tranquila(y)' => Tranquila(y),
         Tranquila(y)' /\ faseSet[y] # "fuera" =>
           \A t \in TiposSet : /\ Restantes(duenna[y], t)' \in Nat
                               /\ Restantes(duenna[y], t)' >= Restantes(duenna[y], t)
  PROVE  Provista(y)'
<1>1. duenna[y] \in EmpresasSet /\ pasoSet[y] \in 1 .. Ultimo + 1
  BY DEF TipoCertificacion, TypeOKCertificacion
<1>2. \A t \in TiposSet : Restantes(duenna[y], t) \in Nat
  BY <1>1, RestantesNatural
<1>3. \A t \in TiposSet : SECUENCIAS_REQUERIDAS[t] \in Nat /\ Falta(t, pasoSet[y]) \in Nat
  <2> SUFFICES ASSUME NEW t \in TiposSet
               PROVE  SECUENCIAS_REQUERIDAS[t] \in Nat /\ Falta(t, pasoSet[y]) \in Nat
    OBVIOUS
  <2>1. pasoSet[y] \in Nat /\ pasoSet[y] + 1 \in Nat /\ pasoSet[y] < pasoSet[y] + 1
    BY <1>1 DEF Ultimo
  <2> QED BY ZenonT(60), <2>1, Tabla, FaltaDecrece
<1>4. SUFFICES ASSUME Tranquila(y)'
               PROVE  /\ sinNumero'[y] = {}
                      /\ faseSet'[y] = "creando" =>
                           \A t \in TiposSet \ porCrear'[y] :
                             Restantes(duenna[y], t)' >= SECUENCIAS_REQUERIDAS[t]
                      /\ faseSet'[y] = "pasos" =>
                           \A t \in TiposSet : Restantes(duenna[y], t)' >= Falta(t, pasoSet[y])
  BY DEF Provista, Restantes
<1>5. Tranquila(y)
  BY <1>4
<1>6. sinNumero'[y] = {}
  BY <1>5 DEF Provista
<1>7. ASSUME faseSet[y] = "creando", NEW t \in TiposSet \ porCrear[y]
      PROVE  Restantes(duenna[y], t)' >= SECUENCIAS_REQUERIDAS[t]
  <2>1. Restantes(duenna[y], t) >= SECUENCIAS_REQUERIDAS[t]
    BY <1>5, <1>7 DEF Provista
  <2> QED BY <1>2, <1>3, <1>4, <1>7, <2>1
<1>8. ASSUME faseSet[y] = "pasos", NEW t \in TiposSet
      PROVE  Restantes(duenna[y], t)' >= Falta(t, pasoSet[y])
  <2>1. Restantes(duenna[y], t) >= Falta(t, pasoSet[y])
    BY <1>5, <1>8 DEF Provista
  <2> QED BY <1>2, <1>3, <1>4, <1>8, <2>1
<1> QED BY <1>6, <1>7, <1>8

\* Steps that take no number and disturb nobody.
LEMMA PasoSinTomar ==
  ASSUME IndCertificacion, UNCHANGED recorrido, NEW x \in Ejecuciones,
         \/ Preparar(x) \/ Ejecutar(x) \/ Preparado(x)
         \/ PasoSinNumero(x) \/ PasoOmitido(x) \/ PasoDeConsulta(x) \/ TerminarSet(x)
  PROVE  IndCertificacion'
<1> USE DEF IndCertificacion
<1>1. UNCHANGED <<filasVars, ambienteVars, ajenas, duenna, mezclada, notas, eNcfPaso1>>
  BY DEF Preparar, Ejecutar, Preparado, PasoSinNumero, PasoOmitido, PasoDeConsulta, TerminarSet
<1>2. \A e \in EmpresasSet, t \in TiposSet :
        Restantes(e, t)' = Restantes(e, t) /\ Restantes(e, t) \in Nat
  BY <1>1, RestantesNatural DEF Restantes
<1>s. SoloPruebas' /\ \A y \in Ejecuciones : Tranquila(y)' = Tranquila(y)
  BY <1>1 DEF SoloPruebas, Tranquila
<1>3. duenna[x] \in EmpresasSet /\ pasoSet[x] \in 1 .. Ultimo + 1
  BY DEF TipoCertificacion, TypeOKCertificacion
<1>4. \/ UNCHANGED pasoSet
      \/ /\ pasoSet' \in [Ejecuciones -> 1 .. Ultimo + 1]
         /\ pasoSet[x] < pasoSet'[x]
         /\ \A y \in Ejecuciones : y # x => pasoSet'[y] = pasoSet[y]
  <2>1. CASE En(x, 1 .. Ultimo) /\ Avanzar(x)
    BY <2>1, SiguientePaso
  <2>2. CASE ~(En(x, 1 .. Ultimo) /\ Avanzar(x))
    BY <2>2, Tabla
    DEF Preparar, Ejecutar, Preparado, PasoSinNumero, PasoOmitido, PasoDeConsulta, TerminarSet,
        En, Ultimo
  <2> QED BY <2>1, <2>2
<1>5. TipoCertificacion'
  <2>1. pasoSet' \in [Ejecuciones -> 1 .. Ultimo + 1]
    BY <1>4 DEF TipoCertificacion, TypeOKCertificacion
  <2>2. \A e \in EmpresasSet : Faltantes(e) \subseteq SUBSET TiposSet
    BY DEF Faltantes
  <2>3. faseSet' \in [Ejecuciones -> {"fuera", "preparando", "creando", "pasos", "fin"}]
    BY DEF Preparar, Ejecutar, Preparado, PasoSinNumero, PasoOmitido, PasoDeConsulta,
           TerminarSet, TipoCertificacion, TypeOKCertificacion
  <2>4. porCrear' \in [Ejecuciones -> SUBSET TiposSet]
    <3>1. \/ UNCHANGED porCrear
          \/ \E F \in Faltantes(duenna[x]) : porCrear' = [porCrear EXCEPT ![x] = F]
      BY DEF Preparar, Ejecutar, Preparado, PasoSinNumero, PasoOmitido, PasoDeConsulta,
             TerminarSet
    <3>2. porCrear \in [Ejecuciones -> SUBSET TiposSet] /\ Faltantes(duenna[x]) \subseteq SUBSET TiposSet
      BY <1>3, <2>2 DEF TipoCertificacion, TypeOKCertificacion
    <3> QED BY <3>1, <3>2
  <2>5. /\ exitosos' \in [Ejecuciones -> SUBSET (1 .. Ultimo)]
        /\ omitidos' \in [Ejecuciones -> SUBSET (1 .. Ultimo)]
    <3>1. \/ UNCHANGED <<exitosos, omitidos>>
          \/ En(x, 1 .. Ultimo) /\ exitosos' = Anotar1(x, exitosos) /\ UNCHANGED omitidos
          \/ En(x, 1 .. Ultimo) /\ omitidos' = Anotar1(x, omitidos) /\ UNCHANGED exitosos
      BY DEF Preparar, Ejecutar, Preparado, PasoSinNumero, PasoOmitido, PasoDeConsulta,
             TerminarSet, En, Ultimo
    <3>2. /\ exitosos \in [Ejecuciones -> SUBSET (1 .. Ultimo)]
          /\ omitidos \in [Ejecuciones -> SUBSET (1 .. Ultimo)]
      BY DEF TipoCertificacion, TypeOKCertificacion
    <3>3. ASSUME NEW f \in [Ejecuciones -> SUBSET (1 .. Ultimo)], pasoSet[x] \in 1 .. Ultimo
          PROVE  Anotar1(x, f) \in [Ejecuciones -> SUBSET (1 .. Ultimo)]
      BY <3>3 DEF Anotar1
    <3> QED BY <3>1, <3>2, <3>3 DEF En
  <2>6. sinNumero' \in [Ejecuciones -> SUBSET DeFactura]
    BY DEF Preparar, Ejecutar, Preparado, PasoSinNumero, PasoOmitido, PasoDeConsulta,
           TerminarSet, En, Anotar1, TipoCertificacion, TypeOKCertificacion
  <2>7. ultimaEjecucion' \in Ejecuciones \union {NoHay} /\ incidentes' \in Nat
    BY DEF Preparar, Ejecutar, Preparado, PasoSinNumero, PasoOmitido, PasoDeConsulta,
           TerminarSet, TipoCertificacion, TypeOKCertificacion
  <2> QED
    BY <1>1, <2>1, <2>3, <2>4, <2>5, <2>6, <2>7 DEF TipoCertificacion, TypeOKCertificacion
<1>6. ASSUME NEW y \in Ejecuciones, y # x PROVE Provista(y)'
  <2>1. /\ faseSet'[y] = faseSet[y] /\ porCrear'[y] = porCrear[y]
        /\ sinNumero'[y] = sinNumero[y] /\ pasoSet'[y] = pasoSet[y]
    BY <1>4, <1>6
    DEF Preparar, Ejecutar, Preparado, PasoSinNumero, PasoOmitido, PasoDeConsulta, TerminarSet,
        Anotar1, TipoCertificacion, TypeOKCertificacion
  <2>2. \A t \in TiposSet : /\ Restantes(duenna[y], t)' \in Nat
                            /\ Restantes(duenna[y], t)' >= Restantes(duenna[y], t)
    BY <1>1, <1>2 DEF TipoCertificacion, TypeOKCertificacion
  <2>3. Provista(y)
    OBVIOUS
  <2> QED BY <1>1, <1>s, <2>1, <2>2, <2>3, OtraEjecucion
<1>7. Provista(x)'
  <2>1. Provista(x)
    OBVIOUS
  <2>2. notas'[x] \subseteq {eNcfPaso1'[x]} /\ (pasoSet'[x] = 1 => notas'[x] = {})
    BY <1>1, <1>3, <1>4, <2>1 DEF Provista, Ultimo
  <2>3. ASSUME Tranquila(x) PROVE sinNumero'[x] = {}
    <3>1. ~PasoSinNumero(x)
      <4> SUFFICES ASSUME PasoSinNumero(x) PROVE FALSE
        OBVIOUS
      <4>1. /\ faseSet[x] = "pasos" /\ pasoSet[x] \in DeFactura
            /\ Restantes(duenna[x], TipoDelPaso[pasoSet[x]]) = 0
        BY DEF PasoSinNumero, En
      <4>2. pasoSet[x] \in Nat /\ pasoSet[x] + 1 \in Nat /\ TipoDelPaso[pasoSet[x]] \in TiposSet
        BY <1>3, <4>1, Tabla DEF Ultimo
      <4>3. /\ Falta(TipoDelPaso[pasoSet[x]], pasoSet[x]) \in Nat
            /\ Falta(TipoDelPaso[pasoSet[x]], pasoSet[x] + 1) \in Nat
            /\ Falta(TipoDelPaso[pasoSet[x]], pasoSet[x] + 1) + 1
                 <= Falta(TipoDelPaso[pasoSet[x]], pasoSet[x])
        BY <4>1, <4>2, FaltaDecrece
      <4>4. Restantes(duenna[x], TipoDelPaso[pasoSet[x]])
              >= Falta(TipoDelPaso[pasoSet[x]], pasoSet[x])
        BY <2>1, <2>3, <4>1, <4>2 DEF Provista
      <4> QED BY <4>1, <4>3, <4>4
    <3>2. UNCHANGED sinNumero
      BY <3>1 DEF Preparar, Ejecutar, Preparado, PasoOmitido, PasoDeConsulta, TerminarSet
    <3> QED BY <2>1, <2>3, <3>2 DEF Provista
  <2>4. ASSUME Tranquila(x), faseSet'[x] = "creando", NEW t \in TiposSet \ porCrear'[x]
        PROVE  Restantes(duenna[x], t) >= SECUENCIAS_REQUERIDAS[t]
    <3>1. CASE Ejecutar(x)
      <4>1. PICK F \in Faltantes(duenna[x]) : t \notin F
        BY <2>4, <3>1 DEF Ejecutar, TipoCertificacion, TypeOKCertificacion
      <4>2. PICK n \in Vistos(duenna[x], t) : ~(n < SECUENCIAS_REQUERIDAS[t])
        BY <4>1 DEF Faltantes
      <4>3. n = Restantes(duenna[x], t)
        BY <1>3, <2>4, <4>2, VistosRestantes DEF Tranquila
      <4> QED BY <1>2, <1>3, <4>2, <4>3, Tabla
    <3>2. CASE ~Ejecutar(x)
      <4>1. faseSet[x] = "creando" /\ porCrear'[x] = porCrear[x]
        BY <2>4, <3>2
        DEF Preparar, Preparado, PasoSinNumero, PasoOmitido, PasoDeConsulta, TerminarSet,
            TipoCertificacion, TypeOKCertificacion
      <4> QED BY <2>1, <2>4, <4>1 DEF Provista
    <3> QED BY <3>1, <3>2
  <2>5. ASSUME Tranquila(x), faseSet'[x] = "pasos", NEW t \in TiposSet
        PROVE  Restantes(duenna[x], t) >= Falta(t, pasoSet'[x])
    <3>1. pasoSet[x] \in Nat /\ pasoSet'[x] \in Nat /\ pasoSet[x] + 1 \in Nat
      BY <1>3, <1>4 DEF Ultimo
    <3>2. /\ Falta(t, pasoSet[x]) \in Nat /\ Falta(t, pasoSet'[x]) \in Nat
          /\ Falta(t, pasoSet[x]) <= SECUENCIAS_REQUERIDAS[t] /\ SECUENCIAS_REQUERIDAS[t] \in Nat
          /\ Falta(t, pasoSet'[x]) <= Falta(t, pasoSet[x])
      <4>1. pasoSet'[x] = pasoSet[x] \/ pasoSet[x] < pasoSet'[x]
        BY <1>4
      <4>2. /\ Falta(t, pasoSet[x]) \in Nat
            /\ Falta(t, pasoSet[x]) <= SECUENCIAS_REQUERIDAS[t]
        BY <3>1, FaltaDecrece, pasoSet[x] < pasoSet[x] + 1
      <4>3. pasoSet[x] < pasoSet'[x] =>
              Falta(t, pasoSet'[x]) \in Nat /\ Falta(t, pasoSet'[x]) <= Falta(t, pasoSet[x])
        BY <3>1, FaltaDecrece
      <4>4. SECUENCIAS_REQUERIDAS[t] \in Nat
        BY Tabla
      <4> QED BY <4>1, <4>2, <4>3, <4>4
    <3>3. CASE Preparado(x)
      <4>1. faseSet[x] = "creando" /\ porCrear[x] = {}
        BY <2>5, <3>3 DEF Preparado, TipoCertificacion, TypeOKCertificacion
      <4>2. Restantes(duenna[x], t) >= SECUENCIAS_REQUERIDAS[t]
        BY <2>1, <2>5, <4>1 DEF Provista
      <4> QED BY <1>2, <1>3, <3>2, <4>2
    <3>4. CASE ~Preparado(x)
      <4>1. faseSet[x] = "pasos"
        BY <2>5, <3>4
        DEF Preparar, Ejecutar, PasoSinNumero, PasoOmitido, PasoDeConsulta, TerminarSet,
            TipoCertificacion, TypeOKCertificacion
      <4>2. Restantes(duenna[x], t) >= Falta(t, pasoSet[x])
        BY <2>1, <2>5, <4>1 DEF Provista
      <4> QED BY <1>2, <1>3, <3>2, <4>2
    <3> QED BY <3>3, <3>4
  <2>6. \A t \in TiposSet : Restantes(duenna[x], t)' = Restantes(duenna[x], t)
    BY <1>1, <1>2, <1>3
  <2> QED BY <1>1, <1>s, <2>2, <2>3, <2>4, <2>5, <2>6 DEF Provista
<1> QED BY <1>s, <1>5, <1>6, <1>7

LEMMA MarcarMezcladas ==
  ASSUME TipoCertificacion, NEW ys, mezclada' = Mezcladas(ys), UNCHANGED <<duenna, promovidas>>
  PROVE  /\ mezclada' \in [Ejecuciones -> BOOLEAN]
         /\ \A y \in Ejecuciones : /\ Tranquila(y)' => Tranquila(y)
                                   /\ y \in ys => ~Tranquila(y)'
<1>1. mezclada' = [y \in Ejecuciones |-> mezclada[y] \/ y \in ys]
  BY Zenon DEF Mezcladas
<1>2. mezclada' \in [Ejecuciones -> BOOLEAN]
  BY <1>1, Zenon
<1>3. \A y \in Ejecuciones : mezclada'[y] <=> (mezclada[y] \/ y \in ys)
  BY <1>1, Zenon
<1>4. \A y \in Ejecuciones : Tranquila(y)' <=> (~mezclada'[y] /\ duenna[y] \notin promovidas)
  BY Zenon DEF Tranquila
<1> QED BY <1>2, <1>3, <1>4, Zenon DEF Tranquila

\* A step of x that is an invoice takes a number: the other runs of the company are
\* disturbed and x still has those of its next steps.
LEMMA TomarSuNumero ==
  ASSUME IndCertificacion, NEW x \in Ejecuciones, En(x, DeFactura),
         Restantes(duenna[x], TipoDelPaso[pasoSet[x]]) > 0,
         Gastar(duenna[x], TipoDelPaso[pasoSet[x]]),
         mezclada' = Mezcladas(Vecinas(x)),
         Avanzar(x),
         UNCHANGED <<entorno, promovidas, faseSet, duenna, porCrear, sinNumero>>,
         \A y \in Ejecuciones : y # x => notas'[y] = notas[y] /\ eNcfPaso1'[y] = eNcfPaso1[y]
  PROVE  /\ FilasBienTipadas' /\ SoloPruebas'
         /\ \A y \in Ejecuciones : y # x => Provista(y)'
         /\ Tranquila(x)' => /\ Tranquila(x)
                             /\ \A t \in TiposSet :
                                  Restantes(duenna[x], t)' >= Falta(t, pasoSet'[x])
<1> USE DEF IndCertificacion
<1>0. PICK e \in EmpresasSet, t \in TiposSet : e = duenna[x] /\ t = TipoDelPaso[pasoSet[x]]
  BY Tabla DEF En, TipoCertificacion, TypeOKCertificacion
<1>1. /\ pasoSet[x] \in DeFactura /\ pasoSet[x] \in Nat /\ faseSet[x] = "pasos"
      /\ En(x, 1 .. Ultimo)
  BY Tabla DEF En, Ultimo
<1>2. /\ FilasBienTipadas' /\ SoloPruebas'
      /\ Restantes(e, t)' + 1 = Restantes(e, t)
      /\ \A d \in EmpresasSet, u \in TiposSet :
           d # e \/ u # t => Restantes(d, u)' = Restantes(d, u)
  BY <1>0, UnNumeroMenos
<1>3. /\ pasoSet' \in [Ejecuciones -> 1 .. Ultimo + 1]
      /\ pasoSet[x] < pasoSet'[x]
      /\ \A y \in Ejecuciones : y # x => pasoSet'[y] = pasoSet[y]
  BY <1>1, SiguientePaso
<1>4. \A y \in Ejecuciones : /\ Tranquila(y)' => Tranquila(y)
                             /\ y \in Vecinas(x) => ~Tranquila(y)'
  BY MarcarMezcladas
<1>5. \A d \in EmpresasSet, u \in TiposSet : Restantes(d, u) \in Nat
  BY RestantesNatural
<1>6. ASSUME NEW y \in Ejecuciones, y # x PROVE Provista(y)'
  <2>1. Tranquila(y)' /\ faseSet[y] # "fuera" => duenna[y] # e
    BY <1>0, <1>4, <1>6 DEF Vecinas
  <2>2. Tranquila(y)' /\ faseSet[y] # "fuera" =>
          \A u \in TiposSet : /\ Restantes(duenna[y], u)' \in Nat
                              /\ Restantes(duenna[y], u)' >= Restantes(duenna[y], u)
    BY <1>2, <1>5, <2>1 DEF TipoCertificacion, TypeOKCertificacion
  <2>3. Provista(y) /\ (Tranquila(y)' => Tranquila(y))
    BY <1>4
  <2> QED BY <1>3, <1>6, <2>2, <2>3, OtraEjecucion
<1>7. ASSUME Tranquila(x)', NEW u \in TiposSet
      PROVE  Tranquila(x) /\ Restantes(e, u)' >= Falta(u, pasoSet'[x])
  <2>1. Tranquila(x)
    BY <1>4, <1>7
  <2>2. Restantes(e, u) >= Falta(u, pasoSet[x])
    BY <1>0, <1>1, <2>1 DEF Provista
  <2>3. /\ Falta(u, pasoSet[x]) \in Nat /\ Falta(u, pasoSet'[x]) \in Nat
        /\ Falta(u, pasoSet'[x]) <= Falta(u, pasoSet[x])
        /\ u = t => Falta(u, pasoSet'[x]) + 1 <= Falta(u, pasoSet[x])
    <3>1. pasoSet'[x] \in Nat
      BY <1>3 DEF Ultimo
    <3> QED BY <1>0, <1>1, <1>3, <3>1, FaltaDecrece
  <2>4. Restantes(e, u) \in Nat /\ (u # t => Restantes(e, u)' = Restantes(e, u))
    BY <1>1, <1>2, <1>5
  <2>5. u = t => Restantes(e, u)' + 1 = Restantes(e, u) /\ Restantes(e, u)' \in Int
    <3>1. Restantes(e, t)' \in Nat
      BY DEF Restantes
    <3> QED BY <1>2, <3>1
  <2>6. CASE u = t
    BY <2>1, <2>2, <2>3, <2>4, <2>5, <2>6
  <2>7. CASE u # t
    BY <2>1, <2>2, <2>3, <2>4, <2>7
  <2> QED BY <2>1, <2>6, <2>7
<1>8. Tranquila(x)' => Tranquila(x)
  BY <1>4
<1>9. Tranquila(x)' => \A u \in TiposSet : Restantes(e, u)' >= Falta(u, pasoSet'[x])
  BY <1>7
<1> QED BY <1>0, <1>2, <1>6, <1>8, <1>9

LEMMA PasoQueFactura ==
  ASSUME IndCertificacion, UNCHANGED recorrido, NEW x \in Ejecuciones, PasoFactura(x)
  PROVE  IndCertificacion'
<1> USE DEF IndCertificacion
<1>1. /\ En(x, DeFactura) /\ Avanzar(x) /\ mezclada' = Mezcladas(Vecinas(x))
      /\ Restantes(duenna[x], TipoDelPaso[pasoSet[x]]) > 0
      /\ Gastar(duenna[x], TipoDelPaso[pasoSet[x]])
      /\ UNCHANGED <<ambienteVars, ajenas, faseSet, duenna, porCrear, omitidos, sinNumero,
                     ultimaEjecucion, incidentes>>
      /\ exitosos' = [exitosos EXCEPT ![x] = @ \union {pasoSet[x]}]
  BY DEF PasoFactura, Anotar1
<1>2. \A y \in Ejecuciones : y # x => notas'[y] = notas[y] /\ eNcfPaso1'[y] = eNcfPaso1[y]
  BY DEF PasoFactura, TipoCertificacion
<1>3. /\ FilasBienTipadas' /\ SoloPruebas'
      /\ \A y \in Ejecuciones : y # x => Provista(y)'
      /\ Tranquila(x)' => /\ Tranquila(x)
                          /\ \A t \in TiposSet : Restantes(duenna[x], t)' >= Falta(t, pasoSet'[x])
  BY <1>1, <1>2, TomarSuNumero
<1>4. En(x, 1 .. Ultimo) /\ pasoSet[x] \in 1 .. Ultimo /\ pasoSet[x] \in DeFactura
  BY <1>1, Tabla DEF En, Ultimo
<1>5. /\ pasoSet' \in [Ejecuciones -> 1 .. Ultimo + 1]
      /\ pasoSet[x] < pasoSet'[x]
  BY <1>1, <1>4, SiguientePaso
<1>6. mezclada' \in [Ejecuciones -> BOOLEAN]
  BY <1>1, MarcarMezcladas
<1>7. TipoCertificacion'
  <2>1. exitosos' \in [Ejecuciones -> SUBSET (1 .. Ultimo)]
    BY <1>1, <1>4 DEF TipoCertificacion, TypeOKCertificacion
  <2>2. /\ eNcfPaso1' = [y \in Ejecuciones |-> eNcfPaso1'[y]]
        /\ notas' = [y \in Ejecuciones |-> notas'[y]]
    BY DEF PasoFactura, TipoCertificacion
  <2> QED
    BY <1>1, <1>3, <1>5, <1>6, <2>1, <2>2
    DEF TipoCertificacion, TypeOKCertificacion, FilasBienTipadas
<1>8. notas'[x] \subseteq {eNcfPaso1'[x]}
  <2>1. Provista(x)
    OBVIOUS
  <2>2. CASE pasoSet[x] = 1
    <3>1. ~Dto(1).ref
      BY DEF Dto, Basica
    <3>2. notas'[x] = {}
      BY <2>1, <2>2, <3>1 DEF PasoFactura, Provista
    <3> QED BY <3>2
  <2>3. CASE pasoSet[x] # 1
    <3>1. eNcfPaso1' = eNcfPaso1
      BY <2>3 DEF PasoFactura
    <3>2. notas'[x] \subseteq notas[x] \union {eNcfPaso1[x]}
      BY DEF PasoFactura, TipoCertificacion
    <3> QED BY <2>1, <3>1, <3>2 DEF Provista
  <2> QED BY <2>2, <2>3
<1>9. Provista(x)'
  <2>1. Tranquila(x)' => sinNumero'[x] = {}
    BY <1>1, <1>3 DEF Provista
  <2>2. faseSet'[x] = "pasos" /\ duenna' = duenna /\ pasoSet'[x] # 1
    BY <1>1, <1>4, <1>5 DEF En, Ultimo
  <2> QED BY <1>3, <1>8, <2>1, <2>2 DEF Provista
<1> QED BY <1>3, <1>7, <1>9

LEMMA PasoQueFalla ==
  ASSUME IndCertificacion, UNCHANGED recorrido, NEW x \in Ejecuciones, PasoFallido(x)
  PROVE  IndCertificacion'
<1> USE DEF IndCertificacion
<1>1. /\ En(x, 1 .. Ultimo) /\ Avanzar(x) /\ incidentes' = incidentes + 1
      /\ UNCHANGED <<ambienteVars, ajenas, faseSet, duenna, porCrear, resultadoVars, ultimaEjecucion>>
  BY DEF PasoFallido
<1>2. /\ pasoSet' \in [Ejecuciones -> 1 .. Ultimo + 1]
      /\ pasoSet[x] < pasoSet'[x]
      /\ \A y \in Ejecuciones : y # x => pasoSet'[y] = pasoSet[y]
  BY <1>1, SiguientePaso
<1>3. faseSet[x] = "pasos" /\ pasoSet[x] \in 1 .. Ultimo
  BY <1>1 DEF En
<1>4. /\ FilasBienTipadas' /\ SoloPruebas'
      /\ mezclada' \in [Ejecuciones -> BOOLEAN]
      /\ \A y \in Ejecuciones : y # x => Provista(y)'
      /\ Tranquila(x)' => /\ Tranquila(x)
                          /\ \A t \in TiposSet : Restantes(duenna[x], t)' >= Falta(t, pasoSet'[x])
  <2>1. CASE UNCHANGED <<filasVars, mezclada>>
    <3>1. \A e \in EmpresasSet, t \in TiposSet :
            Restantes(e, t)' = Restantes(e, t) /\ Restantes(e, t) \in Nat
      BY <1>1, <2>1, RestantesNatural DEF Restantes
    <3>s. SoloPruebas' /\ \A y \in Ejecuciones : Tranquila(y)' = Tranquila(y)
      BY <1>1, <2>1 DEF SoloPruebas, Tranquila
    <3>2. ASSUME NEW y \in Ejecuciones, y # x PROVE Provista(y)'
      <4>1. \A t \in TiposSet : /\ Restantes(duenna[y], t)' \in Nat
                                /\ Restantes(duenna[y], t)' >= Restantes(duenna[y], t)
        BY <1>1, <3>1 DEF TipoCertificacion, TypeOKCertificacion
      <4>2. Provista(y)
        OBVIOUS
      <4> QED BY <1>1, <1>2, <2>1, <3>s, <3>2, <4>1, <4>2, OtraEjecucion
    <3>3. ASSUME Tranquila(x), NEW t \in TiposSet
          PROVE  Restantes(duenna[x], t)' >= Falta(t, pasoSet'[x])
      <4>1. Restantes(duenna[x], t) >= Falta(t, pasoSet[x])
        BY <1>3, <3>3 DEF Provista
      <4>2. pasoSet[x] \in Nat /\ pasoSet'[x] \in Nat
        BY <1>2, <1>3 DEF Ultimo
      <4>3. /\ Falta(t, pasoSet[x]) \in Nat /\ Falta(t, pasoSet'[x]) \in Nat
            /\ Falta(t, pasoSet'[x]) <= Falta(t, pasoSet[x])
        BY <1>2, <4>2, FaltaDecrece
      <4>4. /\ Restantes(duenna[x], t)' = Restantes(duenna[x], t)
            /\ Restantes(duenna[x], t) \in Nat
        BY <1>1, <3>1 DEF TipoCertificacion, TypeOKCertificacion
      <4> QED BY <4>1, <4>3, <4>4
    <3>4. /\ FilasBienTipadas'
          /\ mezclada' \in [Ejecuciones -> BOOLEAN]
      BY <2>1 DEF TipoCertificacion, TypeOKCertificacion, FilasBienTipadas
    <3> QED BY <2>1, <3>s, <3>2, <3>3, <3>4
  <2>2. CASE /\ pasoSet[x] \in DeFactura
             /\ Restantes(duenna[x], TipoDelPaso[pasoSet[x]]) > 0
             /\ Gastar(duenna[x], TipoDelPaso[pasoSet[x]])
             /\ mezclada' = Mezcladas(Vecinas(x))
    <3>1. En(x, DeFactura)
      BY <1>3, <2>2 DEF En
    <3>2. mezclada' \in [Ejecuciones -> BOOLEAN]
      BY <1>1, <2>2, MarcarMezcladas
    <3> QED BY <1>1, <2>2, <3>1, <3>2, TomarSuNumero
  <2> QED BY <2>1, <2>2 DEF PasoFallido
<1>5. TipoCertificacion'
  BY <1>1, <1>2, <1>4 DEF TipoCertificacion, TypeOKCertificacion, FilasBienTipadas
<1>6. Provista(x)'
  <2>1. Tranquila(x)' => sinNumero'[x] = {}
    BY <1>1, <1>4 DEF Provista
  <2>2. faseSet'[x] = "pasos" /\ duenna' = duenna /\ pasoSet'[x] # 1
    BY <1>1, <1>2, <1>3 DEF Ultimo
  <2>3. notas'[x] \subseteq {eNcfPaso1'[x]}
    BY <1>1 DEF Provista
  <2> QED BY <1>4, <2>1, <2>2, <2>3 DEF Provista
<1> QED BY <1>4, <1>5, <1>6

LEMMA PasoQueCrea ==
  ASSUME IndCertificacion, UNCHANGED recorrido, NEW x \in Ejecuciones, CrearFaltante(x)
  PROVE  IndCertificacion'
<1> USE DEF IndCertificacion
<1>0. PICK e \in EmpresasSet : e = duenna[x]
  BY DEF TipoCertificacion, TypeOKCertificacion
<1>t. PICK t : t = Siguiente(porCrear[x])
  OBVIOUS
<1>1. /\ porCrear' = [porCrear EXCEPT ![x] = @ \ {t}]
      /\ UNCHANGED <<rangoProd, ambienteVars, ajenas, faseSet, duenna, pasoSet, resultadoVars,
                     ultimaEjecucion>>
  BY <1>0, <1>t DEF CrearFaltante
<1>2. /\ mezclada' \in [Ejecuciones -> BOOLEAN]
      /\ \A y \in Ejecuciones : mezclada[y] => mezclada'[y]
      /\ \/ rango[e][t] = SinRango /\ rango' = [rango EXCEPT ![e][t] = LargoAuto]
         \/ mezclada'[x] /\ UNCHANGED rango
  <2>1. mezclada \in [Ejecuciones -> BOOLEAN]
    BY DEF TipoCertificacion, TypeOKCertificacion
  <2>2. CASE UNCHANGED mezclada /\ rango[e][t] = SinRango /\ rango' = [rango EXCEPT ![e][t] = LargoAuto]
    BY <2>1, <2>2
  <2>3. CASE mezclada' = [mezclada EXCEPT ![x] = TRUE] /\ UNCHANGED rango
    <3>1. mezclada' \in [Ejecuciones -> BOOLEAN] /\ mezclada'[x]
      BY <2>1, <2>3, Zenon
    <3>2. \A y \in Ejecuciones : y # x => mezclada'[y] = mezclada[y]
      BY <2>1, <2>3, Zenon
    <3> QED BY <2>3, <3>1, <3>2
  <2> QED BY <1>0, <1>t, <2>2, <2>3 DEF CrearFaltante
<1>s. SoloPruebas' /\ \A y \in Ejecuciones : Tranquila(y)' => Tranquila(y)
  BY <1>1, <1>2 DEF SoloPruebas, Tranquila
<1>m. Tranquila(x)' => ~mezclada'[x] /\ e \notin promovidas
  BY <1>0, <1>1 DEF Tranquila
<1>3. /\ FilasBienTipadas'
      /\ \A d \in EmpresasSet, u \in TiposSet :
           Restantes(d, u)' \in Nat /\ Restantes(d, u)' >= Restantes(d, u)
      /\ Tranquila(x)' /\ t \in TiposSet => Restantes(e, t)' = LargoAuto
  <2>0. /\ LargoAuto \in Nat /\ SinRango \notin Nat
        /\ rango \in [EmpresasSet -> [TiposSet -> ValoresDeFila]]
        /\ rangoProd \in [EmpresasSet -> [TiposSet -> ValoresDeFila]]
        /\ \A d \in EmpresasSet, u \in TiposSet : Restantes(d, u) \in Nat
    BY CertificacionAssumption, RestantesNatural DEF TipoCertificacion, TypeOKCertificacion
  <2>1. CASE rango[e][t] = SinRango /\ rango' = [rango EXCEPT ![e][t] = LargoAuto]
    <3>1. FilasBienTipadas'
      BY <1>1, <2>0, <2>1 DEF FilasBienTipadas, ValoresDeFila
    <3>2. \A d \in EmpresasSet, u \in TiposSet :
            rango'[d][u] = IF d = e /\ u = t THEN LargoAuto ELSE rango[d][u]
      BY <2>0, <2>1
    <3>3. ASSUME NEW d \in EmpresasSet, NEW u \in TiposSet
          PROVE  Restantes(d, u)' \in Nat /\ Restantes(d, u)' >= Restantes(d, u)
      <4>1. CASE d = e /\ u = t /\ entorno[d] = "certificacion"
        <5>1. Restantes(d, u)' = LargoAuto /\ Restantes(d, u) = 0
          BY <1>1, <2>0, <2>1, <3>2, <4>1 DEF Restantes
        <5> QED BY <2>0, <5>1
      <4>2. CASE ~(d = e /\ u = t /\ entorno[d] = "certificacion")
        <5>1. Restantes(d, u)' = Restantes(d, u)
          BY <1>1, <3>2, <4>2 DEF Restantes
        <5> QED BY <2>0, <5>1
      <4> QED BY <4>1, <4>2
    <3>4. Tranquila(x)' /\ t \in TiposSet => Restantes(e, t)' = LargoAuto
      <4>1. Tranquila(x)' => entorno'[e] = "certificacion"
        BY <1>1, <1>m DEF SoloPruebas
      <4> QED BY <2>0, <3>2, <4>1 DEF Restantes
    <3> QED BY <3>1, <3>3, <3>4
  <2>2. CASE mezclada'[x] /\ UNCHANGED rango
    <3>1. \A d \in EmpresasSet, u \in TiposSet : Restantes(d, u)' = Restantes(d, u)
      BY <1>1, <2>2 DEF Restantes
    <3>2. FilasBienTipadas'
      BY <1>1, <2>0, <2>2 DEF FilasBienTipadas
    <3>3. ~Tranquila(x)'
      BY <1>m, <2>2
    <3> QED BY <2>0, <3>1, <3>2, <3>3
  <2> QED BY <1>2, <2>1, <2>2
<1>4. TipoCertificacion'
  <2>1. incidentes' \in Nat
    BY DEF CrearFaltante, TipoCertificacion, TypeOKCertificacion
  <2> QED
    BY <1>1, <1>2, <1>3, <2>1 DEF TipoCertificacion, TypeOKCertificacion, FilasBienTipadas
<1>5. ASSUME NEW y \in Ejecuciones, y # x PROVE Provista(y)'
  <2>1. porCrear'[y] = porCrear[y] /\ duenna[y] \in EmpresasSet /\ Provista(y)
    BY <1>1, <1>5 DEF TipoCertificacion, TypeOKCertificacion
  <2> QED BY <1>1, <1>s, <1>3, <2>1, OtraEjecucion
<1>6. Provista(x)'
  <2>1. Provista(x)
    OBVIOUS
  <2>2. notas'[x] \subseteq {eNcfPaso1'[x]} /\ (pasoSet'[x] = 1 => notas'[x] = {})
    BY <1>1, <2>1 DEF Provista
  <2>3. Tranquila(x)' => Tranquila(x) /\ sinNumero'[x] = {}
    BY <1>1, <1>s, <2>1 DEF Provista
  <2>4. ASSUME Tranquila(x)', faseSet[x] = "creando", NEW u \in TiposSet \ porCrear'[x]
        PROVE  Restantes(e, u)' >= SECUENCIAS_REQUERIDAS[u]
    <3>1. SECUENCIAS_REQUERIDAS[u] \in Nat
      BY Tabla
    <3>2. CASE u = t
      BY <1>3, <2>4, <3>2, CertificacionAssumption
    <3>3. CASE u # t
      <4>1. u \in TiposSet \ porCrear[x]
        BY <1>1, <2>4, <3>3 DEF TipoCertificacion, TypeOKCertificacion
      <4>2. Restantes(e, u) >= SECUENCIAS_REQUERIDAS[u]
        BY <1>0, <1>t, <2>1, <2>3, <2>4, <4>1 DEF Provista
      <4>3. Restantes(e, u) \in Nat
        BY RestantesNatural
      <4> QED BY <1>3, <3>1, <4>2, <4>3
    <3> QED BY <3>2, <3>3
  <2>5. ASSUME Tranquila(x)', faseSet[x] = "pasos", NEW u \in TiposSet
        PROVE  Restantes(e, u)' >= Falta(u, pasoSet[x])
    <3>1. Restantes(e, u) >= Falta(u, pasoSet[x])
      BY <1>0, <1>t, <2>1, <2>3, <2>5 DEF Provista
    <3>2. Restantes(e, u) \in Nat
      BY RestantesNatural
    <3>0. pasoSet[x] \in 1 .. Ultimo + 1
      BY DEF TipoCertificacion, TypeOKCertificacion
    <3>3. pasoSet[x] \in Nat /\ pasoSet[x] + 1 \in Nat /\ pasoSet[x] < pasoSet[x] + 1
      BY <3>0 DEF Ultimo
    <3>4. Falta(u, pasoSet[x]) \in Nat
      BY <3>3, FaltaDecrece
    <3> QED BY <1>3, <3>1, <3>2, <3>4
  <2> QED BY <1>0, <1>t, <1>1, <2>2, <2>3, <2>4, <2>5 DEF Provista
<1> QED BY <1>s, <1>4, <1>5, <1>6

LEMMA PasoAjeno ==
  ASSUME IndCertificacion, UNCHANGED recorrido, NEW e \in EmpresasSet, NEW d \in Ajenas,
         TomarAjena(e, d)
  PROVE  IndCertificacion'
<1> USE DEF IndCertificacion
<1>0. PICK t \in TiposSet : t = d.tipo
  BY CertificacionAssumption DEF Documentos
<1>1. UNCHANGED <<ambienteVars, ejecucionVars, resultadoVars, ultimaEjecucion>>
  BY DEF TomarAjena
<1>2. /\ FilasBienTipadas' /\ SoloPruebas'
      /\ Restantes(e, t)' + 1 = Restantes(e, t)
      /\ \A a \in EmpresasSet, u \in TiposSet :
           a # e \/ u # t => Restantes(a, u)' = Restantes(a, u)
  BY <1>0, UnNumeroMenos DEF TomarAjena
<1>3. /\ mezclada' \in [Ejecuciones -> BOOLEAN]
      /\ \A y \in Ejecuciones : /\ Tranquila(y)' => Tranquila(y)
                                /\ duenna[y] = e /\ faseSet[y] # "fuera" => ~Tranquila(y)'
  <2> DEFINE ys == {y \in Ejecuciones : duenna[y] = e /\ faseSet[y] # "fuera"}
  <2>1. mezclada' = Mezcladas(ys) /\ UNCHANGED <<duenna, promovidas>>
    BY DEF TomarAjena
  <2>2. \A y \in Ejecuciones : duenna[y] = e /\ faseSet[y] # "fuera" => y \in ys
    OBVIOUS
  <2> HIDE DEF ys
  <2> QED BY <2>1, <2>2, MarcarMezcladas
<1>4. TipoCertificacion'
  <2>1. ajenas' \in [EmpresasSet -> SUBSET Ajenas] /\ incidentes' \in Nat
    BY DEF TomarAjena, TipoCertificacion, TypeOKCertificacion
  <2> QED
    BY <1>1, <1>2, <1>3, <2>1 DEF TipoCertificacion, TypeOKCertificacion, FilasBienTipadas
<1>5. ASSUME NEW y \in Ejecuciones PROVE Provista(y)'
  <2>1. duenna[y] \in EmpresasSet /\ Provista(y)
    BY DEF TipoCertificacion, TypeOKCertificacion
  <2>2. \A u \in TiposSet : Restantes(duenna[y], u) \in Nat
    BY <2>1, RestantesNatural
  <2>3. Tranquila(y)' /\ faseSet[y] # "fuera" =>
          \A u \in TiposSet : Restantes(duenna[y], u)' = Restantes(duenna[y], u)
    <3>1. Tranquila(y)' /\ faseSet[y] # "fuera" => duenna[y] # e
      BY <1>3
    <3>2. duenna' = duenna
      BY <1>1
    <3> QED BY <1>2, <2>1, <3>1, <3>2
  <2>4. Tranquila(y)' /\ faseSet[y] # "fuera" =>
          \A u \in TiposSet : /\ Restantes(duenna[y], u)' \in Nat
                              /\ Restantes(duenna[y], u)' >= Restantes(duenna[y], u)
    BY <2>2, <2>3
  <2> QED BY <1>1, <1>3, <2>1, <2>4, OtraEjecucion
<1> QED BY <1>2, <1>4, <1>5

\* A promotion frees its company from the invariant and leaves the others alone.
LEMMA PasoDePromocion ==
  ASSUME IndCertificacion, UNCHANGED recorrido, NEW e \in EmpresasSet,
         PromoverEmpresa(e) \/ DesactivarRangos(e)
  PROVE  IndCertificacion'
<1> USE DEF IndCertificacion
<1>0. /\ entorno \in [EmpresasSet -> Entornos] /\ promovidas \subseteq EmpresasSet
      /\ rango \in [EmpresasSet -> [TiposSet -> ValoresDeFila]]
      /\ porDesactivar \subseteq promovidas /\ incidentes \in Nat
  BY DEF TipoCertificacion, TypeOKCertificacion
<1>1. /\ UNCHANGED <<rangoProd, ajenas, ejecucionVars, resultadoVars, ultimaEjecucion, mezclada>>
      /\ e \in promovidas' /\ promovidas \subseteq promovidas' /\ promovidas' \subseteq EmpresasSet
      /\ porDesactivar' \subseteq promovidas' /\ incidentes' \in Nat
      /\ entorno' \in [EmpresasSet -> Entornos]
      /\ \A d \in EmpresasSet : d # e => entorno'[d] = entorno[d] /\ rango'[d] = rango[d]
  <2>1. CASE PromoverEmpresa(e)
    BY <1>0, <2>1 DEF PromoverEmpresa, Entornos
  <2>2. CASE DesactivarRangos(e)
    <3>1. e \in promovidas
      BY <1>0, <2>2 DEF DesactivarRangos
    <3> QED BY <1>0, <2>2, <3>1 DEF DesactivarRangos
  <2> QED BY <2>1, <2>2
<1>2. rango' \in [EmpresasSet -> [TiposSet -> ValoresDeFila]]
  <2>1. CASE PromoverEmpresa(e)
    BY <1>0, <2>1 DEF PromoverEmpresa
  <2>2. CASE DesactivarRangos(e)
    <3> DEFINE f == [t \in TiposSet |-> IF rango[e][t] = SinRango THEN SinRango ELSE Inactiva]
    <3>1. rango' = [rango EXCEPT ![e] = f]
      BY <2>2 DEF DesactivarRangos
    <3>2. f \in [TiposSet -> ValoresDeFila]
      BY DEF ValoresDeFila
    <3> QED BY <1>0, <3>1, <3>2
  <2> QED BY <2>1, <2>2
<1>3. TipoCertificacion'
  BY <1>1, <1>2 DEF TipoCertificacion, TypeOKCertificacion
<1>4. SoloPruebas'
  BY <1>1 DEF SoloPruebas
<1>5. ASSUME NEW y \in Ejecuciones PROVE Provista(y)'
  <2>1. duenna[y] \in EmpresasSet /\ Provista(y)
    BY DEF TipoCertificacion, TypeOKCertificacion
  <2>2. Tranquila(y)' => Tranquila(y) /\ duenna[y] # e
    BY <1>1 DEF Tranquila
  <2>3. \A u \in TiposSet : Restantes(duenna[y], u) \in Nat
    BY <2>1, RestantesNatural
  <2>4. duenna[y] # e =>
          \A u \in TiposSet : Restantes(duenna[y], u)' = Restantes(duenna[y], u)
    BY <1>1, <2>1 DEF Restantes
  <2> QED BY <1>1, <2>1, <2>2, <2>3, <2>4, OtraEjecucion
<1> QED BY <1>3, <1>4, <1>5

LEMMA InicioCertificacion == ASSUME InitCertificacion PROVE IndCertificacion
<1>1. mezclada \in [Ejecuciones -> BOOLEAN]
  BY Zenon DEF InitCertificacion
<1>2. recorrido.pasos \subseteq 1 .. Ultimo + 1 /\ recorrido.pasos # {}
  BY CertificacionAssumption DEF InitCertificacion, Ultimo
<1>3. Min(recorrido.pasos) \in 1 .. Ultimo + 1
  BY <1>2, HayMinimo DEF Ultimo
<1>e. /\ entorno \in [EmpresasSet -> Entornos]
      /\ rango \in [EmpresasSet -> [TiposSet -> ValoresDeFila]]
      /\ rangoProd \in [EmpresasSet -> [TiposSet -> ValoresDeFila]]
      /\ \A e \in EmpresasSet : entorno[e] = "certificacion" =>
           \A t \in TiposSet : rangoProd[e][t] \notin Nat
  <2>1. PICK f \in [EmpresasSet -> Situaciones] :
          /\ entorno = [e \in EmpresasSet |-> f[e].entorno]
          /\ rango = [e \in EmpresasSet |-> f[e].cert]
          /\ rangoProd = [e \in EmpresasSet |-> f[e].prod]
    BY DEF InitCertificacion
  <2>2. \A e \in EmpresasSet :
          /\ f[e].entorno \in Entornos
          /\ f[e].cert \in [TiposSet -> ValoresDeFila]
          /\ f[e].prod \in [TiposSet -> ValoresDeFila]
          /\ f[e].entorno = "certificacion" => \A t \in TiposSet : f[e].prod[t] \notin Nat
    BY <2>1, CertificacionAssumption
  <2> QED BY <2>1, <2>2
<1>4. TipoCertificacion
  BY <1>1, <1>3, <1>e, CertificacionAssumption
  DEF InitCertificacion, TipoCertificacion, TypeOKCertificacion
<1>s. SoloPruebas
  BY <1>e DEF InitCertificacion, SoloPruebas, Entornos
<1>5. \A x \in Ejecuciones : Provista(x)
  BY DEF InitCertificacion, Provista
<1> QED BY <1>4, <1>s, <1>5 DEF IndCertificacion

LEMMA PasoCertificacion ==
  ASSUME IndCertificacion, [NextCertificacion]_certificacionVars
  PROVE  IndCertificacion'
<1>1. CASE UNCHANGED certificacionVars
  BY <1>1
  DEF IndCertificacion, TipoCertificacion, TypeOKCertificacion, SoloPruebas, Provista, Tranquila,
      Restantes
<1>2. ASSUME UNCHANGED recorrido, NEW x \in Ejecuciones, PasoDelSet(x)
      PROVE  IndCertificacion'
  BY <1>2, PasoSinTomar, PasoQueFactura, PasoQueFalla, PasoQueCrea DEF PasoDelSet
<1>3. ASSUME UNCHANGED recorrido, NEW e \in EmpresasSet, NEW d \in Ajenas, TomarAjena(e, d)
      PROVE  IndCertificacion'
  BY <1>3, PasoAjeno
<1>4. ASSUME UNCHANGED recorrido, NEW e \in EmpresasSet, PromoverEmpresa(e) \/ DesactivarRangos(e)
      PROVE  IndCertificacion'
  BY <1>4, PasoDePromocion
<1> QED BY <1>1, <1>2, <1>3, <1>4 DEF NextCertificacion

\* What the runs issue adds nothing to the progress of an integrator.
LEMMA ProgresoAjeno ==
  ASSUME TypeOKCertificacion, NEW e \in EmpresasSet
  PROVE  Progreso(e) = {n \in DeFactura : \E d \in ajenas[e] : Cumple(n, d)}
BY NingunaCumple DEF Progreso

\* A run of the set that nobody disturbs, of a company that was never in production, never
\* lacks a number; its notes refer to the invoice of its step 1; and the progress of an
\* integrator is that of the invoices that did not come from a run.
THEOREM SetSiempreCompleto == SpecCertificacion => []SetCompleto
<1>1. IndCertificacion => SetCompleto
  <2> SUFFICES ASSUME IndCertificacion PROVE SetCompleto
    OBVIOUS
  <2>1. \A x \in Ejecuciones : /\ sinNumero[x] # {} => mezclada[x] \/ duenna[x] \in promovidas
                               /\ notas[x] \subseteq {eNcfPaso1[x]}
    BY DEF IndCertificacion, Provista, Tranquila
  <2>2. \A e \in EmpresasSet :
          Progreso(e) = {n \in DeFactura : \E d \in ajenas[e] : Cumple(n, d)}
    BY ProgresoAjeno DEF IndCertificacion, TipoCertificacion
  <2> QED BY <2>1, <2>2 DEF SetCompleto
<1> QED BY InicioCertificacion, PasoCertificacion, <1>1, PTL DEF SpecCertificacion

=============================================================================
