CONSTANTS
  Puestos = {p1, p2}
  Cuentas = {c1, c2}
  Documentos = {d1}
  Importes = {0, 1}
  Nada = Nada
  Borrado = Borrado
  MaxApuntes = 2
  MaxSaldo = 1
  MaxFallos = 1
  MaxSospechosos = 0
  Duplica = TRUE
  Ventanas = {w1, w2}
  Miembros = {m1, m2}
  Ignoran = {m2}
  Cuota = 1
  Cargos = {2}
  Ninguna = Ninguna
  MaxCobros = 2
  MaxSospechas = 0
  lata = lata
  caja = caja
  Formularios = {f1, f2}
  Targets <- MCTargets
  Codes <- MCCodes
  Name <- MCName
  Secondary <- MCSecondary
  Texts <- MCTexts
  FlagSets <- MCFlagSets
  Changing <- MCChanging
  FirstTargets <- MCFirstTargets
  MaxSaves = 1
  Articulos = {lata, caja}
  ConStock = {lata, caja}
  Base <- MCBase
  Multiplo <- MCMultiplo
  Albaranes = {a1}
  Facturas = {v1, v2}
  Cantidades = {1}
  Ninguno = Ninguno
  EnVenta = {caja}
  RowIds = {1, 2, 3}
  NoEntry = NoEntry
  FirstTables <- MCFirstTables
  Changes <- MCChanges
  MaxChanges = 1
  MaxLineas = 2
  MaxGrabadas = 3
  MaxDudas = 0
CHECK_DEADLOCK FALSE
SPECIFICATION SpecGestion
SYMMETRY Simetria
INVARIANT TypeOKGestion SaldosCuadran UnApuntePorDocumento TotalesDelMiembro UnCobroPorRemesa ExistenciasCuadran FacturadoUnaVez ImportedAsExported
PROPERTY SavedAsShown
