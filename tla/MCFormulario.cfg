SPECIFICATION SpecFormulario
CONSTANTS
  articulo = articulo
  Articulos = {articulo}
  PrecioDe <- MCPrecioDe
  TasaDe <- MCTasaDe
  Rncs = {n1}
  Descuentos = {0, 10}
  CantidadesForm = {1, 2}
  MaxLineasForm = 2
  MaxEnviosForm = 1
  Vacio = Vacio
  AMano = AMano
  SinArticulo = SinArticulo
INVARIANT TotalMostrado
CHECK_DEADLOCK FALSE
