CONSTANTS
  Puestos = {p1}
  Empresas = {e1}
  banco = banco
  caja = caja
  subgrupo = subgrupo
  grupo = grupo
  Codigos <- MCCodigos
  Superior <- MCSuperior
  Cuentas <- MCCuentas
  Apuntables <- MCApuntables
  Nada = Nada
  Asientos = {a1}
  Importes <- MCImportes
  MaxLineas = 1
  MaxApuntes = 2
  MaxFallos = 0
  Simple = TRUE
SPECIFICATION Spec
INVARIANT SaldosCuadran
