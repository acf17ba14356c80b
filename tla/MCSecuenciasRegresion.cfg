SPECIFICATION Spec
CONSTANTS
  s1 = s1
  s2 = s2
  e1 = e1
  q1 = q1
  q2 = q2
  Nulo = Nulo
  Solicitudes <- MCSolicitudes
  Ediciones <- MCEdiciones
  Secuencias <- MCSecuencias
  Tipos <- MCTipos
  Ambientes <- MCAmbientes
  Prefijos <- MCPrefijos
  Altas <- MCAltas
  Dtos <- MCDtosActivo
INVARIANTS
  ActualEsSiguiente
CHECK_DEADLOCK FALSE
