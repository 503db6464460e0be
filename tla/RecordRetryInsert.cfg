CONSTANTS
  Clients = {c1}
  MaxId = 4
  Rows <- MCRows
  NoRow = NoRow
  Same = Same
  Driver = "mysql"
  Values = {v1, v2}
  Contents = {x}
  MaxLines = 1
  Operations = {"insert", "update"}
  DetailsNest = FALSE
  Faults = TRUE
  Vetoes = FALSE
  Retries = TRUE
SPECIFICATION Spec
PROPERTY SavedAsTyped
