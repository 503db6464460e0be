CONSTANTS
  Clients = {c1, c2}
  MaxId = 2
  Rows <- MCRows
  NoRow = NoRow
  Same = Same
  Driver = "mysql"
  Values = {v1, v2}
  Contents = {x}
  MaxLines = 1
  Operations = {"insert", "update", "delete"}
  DetailsNest = FALSE
  Faults = TRUE
  Vetoes = TRUE
  Retries = TRUE
SPECIFICATION FairSpec
PROPERTY EveryAcceptAnswered
