SPECIFICATION FairSpec
CONSTANTS
  s1 = s1
  s2 = s2
  e1 = e1
  q1 = q1
  q2 = q2
  Nulo = Nulo
  Solicitudes <- MCSolicitudes
  Ediciones <- MCEdiciones
  Secuencias <- MCSecuencias
  Tipos <- MCTipos
  Ambientes <- MCAmbientes
  Prefijos <- MCPrefijos
  Altas <- MCAltas
  Dtos <- MCDtos
INVARIANTS
  NumeroUnico
PROPERTIES
  EntregaVigente
  ImplementaContador
  TodaSolicitudTermina
CHECK_DEADLOCK FALSE
