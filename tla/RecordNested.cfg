CONSTANTS
  Clients = {c1}
  MaxId = 5
  Rows <- MCRows
  NoRow = NoRow
  Same = Same
  Driver = "mysql"
  Values = {v1}
  Contents = {x, y}
  MaxLines = 2
  Operations = {"insert", "update", "duplicate", "delete"}
  DetailsNest = TRUE
  Faults = TRUE
  Vetoes = FALSE
  Retries = FALSE
SPECIFICATION Spec
SYMMETRY ContentSymmetry
INVARIANT NoOrphans LinesAsSaved
PROPERTY SavedAsTyped RemovedIsGone
