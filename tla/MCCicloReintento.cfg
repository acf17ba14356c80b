SPECIFICATION FairSpec
CONSTANTS
  f1 = f1
  f2 = f2
  c1 = c1
  c2 = c2
  a1 = a1
  a2 = a2
  Nulo = Nulo
  Facturas <- MCUnaFactura
  DePrueba <- MCSinPrueba
  Ciclos <- MCUnCiclo
  Anulaciones <- MCUnaAnulacion
PROPERTIES
  ReintentoConcluye
