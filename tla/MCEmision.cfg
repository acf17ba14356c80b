SPECIFICATION SpecEmision
CONSTANTS
  s1 = s1
  s2 = s2
  s3 = s3
  r1 = r1
  d1 = d1
  basico = basico
  empresarial = empresarial
  item = item
  x1 = x1
  x2 = x2
  a1 = a1
  a2 = a2
  a3 = a3
  g1 = g1
  g2 = g2
  k1 = k1
  k2 = k2
  t1 = t1
  t2 = t2
  b1 = b1
  b2 = b2
  b3 = b3
  Nulo = Nulo
  SinLimite = SinLimite
  Solicitudes <- MCSolicitudes
  Lecturas <- MCLecturas
  Cambios <- MCCambios
  Planes <- MCPlanes
  Limites <- MCLimites
  LimiteInicial <- MCLimiteInicial
  MaxEdiciones = 1
  MaxMes = 2
  Conexiones = 2
  Comprobantes = {c1, c2}
  MaxIntentos = 2
  MaxAperturas = 1
  MaxParadas = 1
  Ninguno = Ninguno
  LineasApi <- MCLineasApi
  MaxLineasApi = 2
  Desvios <- MCDesvios
  Umbral = 144
  NoDado = NoDado
  Articulos = {item}
  PrecioDe <- MCPrecioDe
  TasaDe <- MCTasaDe
  Rncs = {n1, n2}
  Descuentos = {0, 10}
  CantidadesForm = {1, 2}
  MaxLineasForm = 2
  MaxEnviosForm = 1
  Vacio = Vacio
  AMano = AMano
  SinArticulo = SinArticulo
  EmpresasSet = {e1, e2}
  Ejecuciones = {x1, x2}
  Recorridos <- MCRecorridos
  Situaciones <- MCSituaciones
  LargoAuto = 3
  MaxIncidentes = 1
  Ajenas <- MCAjenas
  SinRango = SinRango
  Inactiva = Inactiva
  NoHay = NoHay
  Archivos = {a1, a2, a3}
  HojaDe <- MCHojaDe
  Malos <- MCMalos
  Cargas = {p1, p2}
  MaxElecciones = 2
  MaxFallosLote = 1
  SinArchivo = SinArchivo
  RncsReceptor = {n3}
  Preguntas = {v1, v2}
  Manuales = {v2}
  MaxHora = 5
  MaxCambiosRnc = 2
  NoHallado = NoHallado
  Transmisiones = {t1}
  Directas = {t2}
  Consultas = {q1}
  Respuestas <- MCRespuestas
  MaxEpocas = 1
  SinToken = SinToken
  Recibos = {f1, f2}
  Decisiones = {b1, b2, b3}
  SinRecibo = SinRecibo
  SinTrack = SinTrack
INVARIANTS TypeOKEmision NoSobrecuenta ExcesoAcotado FinalJustificado ResumenSegunUmbral
  NombreCoincide SetCompleto SinRepetir RechazoExplicado SinRechazosGratuitos DecisionRespaldada
PROPERTY ValidadoReciente
CHECK_DEADLOCK FALSE
