CONSTANTS
  Puestos = {p1}
  Facturas = {f1}
  Nada = Nada
  Borrada = Borrada
  Totales = {1, 2}
  TipoFormaPago = "GeneraRecibos"
  NumPlazos = 1
  DiasEntrePlazos = 1
  FechasNuevas = {}
  Cantidades = {1}
  Reabrir = TRUE
  UnaVentana = TRUE
  Fallos = TRUE
  MaxRecibos = 4
SPECIFICATION Spec
INVARIANT RecibosCuadrados
PROPERTY PagadoNoSePierde
PROPERTY TotalConCobros
