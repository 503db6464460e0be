CONSTANTS
  Puestos = {p1}
  Facturas = {f1, f2}
  Nada = Nada
  Borrada = Borrada
  Totales = {2, 4}
  TipoFormaPago = "GeneraRecibos"
  NumPlazos = 2
  DiasEntrePlazos = 1
  FechasNuevas = {1}
  Cantidades = {1, 3}
  Reabrir = TRUE
  UnaVentana = TRUE
  Fallos = FALSE
  MaxRecibos = 4
SPECIFICATION Spec
SYMMETRY Simetria
INVARIANT TypeOK
INVARIANT RestoCuadrado
PROPERTY LoFacturadoSeConserva
PROPERTY CobrosAlDia
PROPERTY SeFacturaElResto
CHECK_DEADLOCK FALSE
