CONSTANTS
  Puestos = {p1}
  Facturas = {f1}
  Nada = Nada
  Borrada = Borrada
  Totales = {2}
  TipoFormaPago = "GeneraRecibos"
  NumPlazos = 1
  DiasEntrePlazos = 1
  FechasNuevas = {}
  Cantidades = {1}
  Reabrir = TRUE
  UnaVentana = TRUE
  Fallos = FALSE
  MaxRecibos = 3
SPECIFICATION Spec
PROPERTY PagadaNoGenera
CHECK_DEADLOCK FALSE
