CONSTANTS
  Clients = {c1}
  MaxId = 4
  Rows <- MCRows
  NoRow = NoRow
  Same = Same
  Driver = "sqlite"
  Values = {v1}
  Contents = {x}
  MaxLines = 2
  Operations = {"insert", "update", "delete"}
  DetailsNest = TRUE
  Faults = TRUE
  Vetoes = TRUE
  Retries = TRUE
SPECIFICATION FairSpec
PROPERTY OthersUntouched
