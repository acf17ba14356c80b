SPECIFICATION SpecAcceso
CONSTANTS
  c1 = c1
  c2 = c2
  h1 = h1
  h2 = h2
  h3 = h3
  i1 = i1
  i2 = i2
  i3 = i3
  i4 = i4
  na = na
  nb = nb
  ea = ea
  eb = eb
  l1 = l1
  l2 = l2
  l3 = l3
  r1 = r1
  r2 = r2
  o1 = o1
  u1 = u1
  u2 = u2
  p1 = p1
  p2 = p2
  x1 = x1
  g1 = g1
  g2 = g2
  s1 = s1
  y1 = y1
  y2 = y2
  Usuarios = {ana, luis, raiz}
  SuperAdmins = {raiz}
  Primero = ana
  Logins = {l1, l2, l3}
  Renovaciones = {r1, r2}
  Salidas = {o1}
  Cambios = {u1, u2}
  Mezclas <- MezclasElegidas
  MaxIntentos = 2
  MaxReloj = 1
  Nunca = Nunca
  Nadie = Nadie
  Maquinas = {m1, m2, m3}
  Registros = {q1, q2, q3}
  Retiros = {t1}
  MaxLimite = 1
  SinMaquina = SinMaquina
  Creaciones = {k1, k2}
  Rotaciones = {v1, v2}
  Revocaciones = {w1}
  SinLlave = SinLlave
  Contadores = {a1}
  Empresas = {e1, e2}
  Planes = {n1, n2}
  CambiosPlan = {p1, p2}
  Desvinculos = {x1}
  Asignaciones = {y1}
  Ediciones = {y2}
  Generaciones = {g1, g2}
  Suspensiones = {s1}
  Repartos <- RepartosElegidos
  MaxMes = 2
  Nulo = Nulo
  Subidas = {c1, c2}
  VenceDe <- MCVenceDe
  Validas = {c1, c2}
  Ajustes = {j1}
  PeticionesPlan = {j2}
  Promociones = {o2}
  MaxDia = 2
  Nada = Nada
  SinAlta = SinAlta
  Asistentes = {h1, h2, h3}
  RncDe <- MCRncDe
  EmailDe <- MCEmailDe
  Altas = {i1, i2, i3, i4}
  AsistenteDe <- MCAsistenteDe
  Pestanas = {b1, b2}
  Tokens = {d1, d2}
  MaxEnVuelo = 2
  SinSesion = SinSesion
  b1 = b1
  b2 = b2
  d1 = d1
  d2 = d2
  q1 = q1
  q2 = q2
  q3 = q3
  Solicitantes = {q1, q2, q3}
  LimiteVentana = 2
  AnchoVentana = 2
  MaxInstante = 3
  sol = sol
  mar = mar
  em1 = em1
  em2 = em2
  f1 = f1
  f2 = f2
  cx1 = cx1
  Titulares = {sol, mar}
  Miembros = {teo}
  Clientes = {em1, em2}
  Incorporaciones = {f1, f2}
  Contextos = {cx1}
  MaxBajas = 1
  SinTitular = SinTitular
INVARIANTS TypeOKAcceso HayAdministrador CuentaProtegida CuposAcotados FacturaUnica
  SuspensionFirme PlanAcorde EmpresaCoherente EmpresaMostrada
CHECK_DEADLOCK FALSE
