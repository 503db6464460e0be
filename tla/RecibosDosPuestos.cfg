CONSTANTS
  Puestos = {p1, p2}
  Facturas = {f1}
  Nada = Nada
  Borrada = Borrada
  Totales = {2}
  TipoFormaPago = "GeneraRecibos"
  NumPlazos = 1
  DiasEntrePlazos = 1
  FechasNuevas = {}
  Cantidades = {}
  Reabrir = TRUE
  UnaVentana = TRUE
  Fallos = FALSE
  MaxRecibos = 2
SPECIFICATION Spec
SYMMETRY Simetria
PROPERTY PagadoNoSePierde
CHECK_DEADLOCK FALSE
