------------------------------- MODULE Importes -------------------------------
(***************************************************************************)
(* The arithmetic of an invoice: what CreateFacturaSchema checks, what     *)
(* crearFactura fills in and what ConversorXmlService writes in Totales.   *)
(*                                                                         *)
(* The unit is 1/100000 of a peso, in which cantidad * precio and its      *)
(* ITBIS are whole numbers: a quantity has one decimal, a price two.  The  *)
(* program computes with IEEE doubles; where the exact value lies on a     *)
(* half cent, or a difference is exactly the tolerance, the double may be  *)
(* on either side, and both outcomes are modelled.                         *)
(***************************************************************************)
EXTENDS Integers, Sequences, FiniteSetsExt

Centavo == 1000

\* A line of items: cant in tenths of a unit, precio in cents, tasa in percent.
Monto(l) == l.cant * l.precio * 100

Itbis(l) == l.cant * l.precio * l.tasa

Subtotal(ls) == MapThenSumSet(LAMBDA i : Monto(ls[i]), DOMAIN ls)

TotalItbis(ls) == MapThenSumSet(LAMBDA i : Itbis(ls[i]), DOMAIN ls)

Total(ls) == Subtotal(ls) + TotalItbis(ls)

Distancia(a, b) == IF a < b THEN b - a ELSE a - b

\* toFixed(2) and Math.round(100 * x): the nearest cent, or the two of a half cent.
Redondeos(x) ==
  {n \in {x \div Centavo, x \div Centavo + 1} : 2 * Distancia(n * Centavo, x) <= Centavo}

\* |a - b| > 0.01 in doubles: the outcomes it may have.
Excede(a, b) ==
  IF Distancia(a, b) = Centavo THEN BOOLEAN ELSE {Distancia(a, b) > Centavo}

-----------------------------------------------------------------------------
(* CreateFacturaSchema                                                     *)

\* Mutant: the total is not compared with its parts.
CuadraSinTotal(p) ==
  /\ FALSE \in Excede(p.sub * Centavo, Subtotal(p.lineas))
  /\ FALSE \in Excede(p.itbis * Centavo, TotalItbis(p.lineas))

\* May the three amounts of a request that gives them all, in cents, be accepted?
Cuadra(p) ==
  /\ FALSE \in Excede(p.sub * Centavo, Subtotal(p.lineas))
  /\ FALSE \in Excede(p.itbis * Centavo, TotalItbis(p.lineas))
  /\ FALSE \in Excede(p.total * Centavo, (p.sub + p.itbis) * Centavo)

\* May they be refused?
Descuadra(p) ==
  \/ TRUE \in Excede(p.sub * Centavo, Subtotal(p.lineas))
  \/ TRUE \in Excede(p.itbis * Centavo, TotalItbis(p.lineas))
  \/ TRUE \in Excede(p.total * Centavo, (p.sub + p.itbis) * Centavo)

-----------------------------------------------------------------------------
(* ConversorXmlService                                                     *)

\* computarTotalesPorTasa: MontoGravadoTotal, TotalITBIS and MontoTotal, in cents, each
\* rounded by itself.  The schema only admits the rates 18, 16 and 0, so nothing is
\* exempt.
TotalesXml(ls) ==
  [gravado : Redondeos(Subtotal(ls)), itbis : Redondeos(TotalItbis(ls)),
   total : Redondeos(Total(ls))]

\* validarEstructuraXml: is MontoTotal the sum of its parts?  The outcomes it may have.
TotalesRechazados(x) == Excede(x.total * Centavo, (x.gravado + x.itbis) * Centavo)
=============================================================================
