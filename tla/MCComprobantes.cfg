SPECIFICATION SpecComprobantes
CONSTANTS
  LineasApi <- MCLineasApi
  MaxLineasApi = 2
  Desvios = {0}
  Umbral = 148
  NoDado = NoDado
INVARIANT AceptadaSeConvierte
CHECK_DEADLOCK FALSE
