CONSTANTS
  Puestos = {p1}
  Empresas = {e1}
  banco = banco
  caja = caja
  subgrupo = subgrupo
  grupo = grupo
  Codigos <- MCCodigos
  Superior <- MCSuperior
  Cuentas <- MCCuentas
  Apuntables <- MCApuntables
  Nada = Nada
  Asientos = {a1, a2}
  Importes <- MCImportes
  MaxLineas = 2
  MaxApuntes = 3
  MaxFallos = 1
  Simple = FALSE
  Fichas = {f1, f2}
  Ejercicios = {y1, y2}
  Registros = {i1, i2, i3}
  Numeros = {0, 1, 2}
  SinFila = SinFila
  Comienzos <- MCComienzos
  MaxDias = 3650
  Desfases <- MCDesfases
  Textos = {"t1", "t2"}
  ImporteDe <- MCImporteDe
  SinTexto = SinTexto
  Notas = {"n1", "n2"}
  LineasNota <- MCLineasNota
  PagadoNota <- MCPagadoNota
  SinNota = SinNota
  Origenes <- MCOrigenes
  Pagos = {1}
  MaxRenglones = 3
SPECIFICATION SpecContabilidad
SYMMETRY Simetria
INVARIANT TypeOKContabilidad SaldosCuadran RecalculoCuadra ContadoresDistintos FechasAlDia TotalesDeLasLineas
PROPERTY CadaFormularioLoSuyo
