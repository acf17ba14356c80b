SPECIFICATION SpecImpresion
CONSTANTS
  k1 = k1
  k2 = k2
  DocumentoDe <- MCDocumentoDe
  Plantillas <- MCPlantillas
  SinPlantilla = SinPlantilla
  Tickets = {k1, k2}
  Nombres = {n1, n2}
  Procesadores = {reloj, manual}
  Reloj = reloj
  Cableados = {FALSE}
  MaxFallosEnvio = 2
  MaxCaidas = 0
  SinTicket = SinTicket
  SinNombre = SinNombre
INVARIANT NadaSePierde
CHECK_DEADLOCK FALSE
