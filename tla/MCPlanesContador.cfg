SPECIFICATION Spec
CONSTANTS
  s1 = s1
  s2 = s2
  r1 = r1
  basico = basico
  empresarial = empresarial
  Nulo = Nulo
  SinLimite = SinLimite
  Solicitudes <- MCDosSolicitudes
  Lecturas <- MCLecturas
  Cambios <- MCSinCambios
  Planes <- MCPlanes
  Limites <- MCLimites
  LimiteInicial <- MCLimiteInicial
  MaxEdiciones = 1
  MaxMes = 1
  Conexiones = 2
INVARIANTS
  ContadorExacto
CHECK_DEADLOCK FALSE
