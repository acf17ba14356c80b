SPECIFICATION SpecServicios
CONSTANTS
  Urls = {w1}
  Disparos = {d1, d2}
  Pruebas = {p1}
  Bajas = {b1}
  Reintentos = 1
  MaxFallos = 2
  SinFila = SinFila
  k1 = k1
  k2 = k2
  n1 = n1
  n2 = n2
  DocumentoDe <- MCDocumentoDe
  Plantillas <- MCPlantillas
  SinPlantilla = SinPlantilla
  Tickets = {k1, k2}
  Nombres = {n1, n2}
  Procesadores = {reloj, manual}
  Reloj = reloj
  Cableados = {TRUE, FALSE}
  MaxFallosEnvio = 2
  MaxCaidas = 1
  SinTicket = SinTicket
  SinNombre = SinNombre
  Llamadas = {l1, l2}
  Timeout = 2
  ResetTimeout = 2
  Ventana = 4
  VolumeThreshold = 3
  MaxPorTick = 2
  Nadie = Nadie
  Esquemas = {x1, x2}
  OtrosXml = {x3}
  MaxEscrituras = 2
  MaxArranques = 1
  Vacia = Vacia
  SinXsd = SinXsd
INVARIANTS TypeOKServicios BajaFirme ApagadoJustificado TicketsExplicados
  PruebaUnica
PROPERTIES TodaEntregaTermina PendienteSale ImplementaInterruptor NoSeAtasca EsquemaVigente
CHECK_DEADLOCK FALSE
