CONSTANTS
  Clients = {c1}
  MaxId = 4
  Rows <- MCRows
  NoRow = NoRow
  Same = Same
  Driver = "mysql"
  Values = {v1, v2}
  Contents = {x, y}
  MaxLines = 2
  Operations = {"insert", "update", "duplicate", "delete"}
  DetailsNest = FALSE
  Faults = TRUE
  Vetoes = FALSE
  Retries = FALSE
  StartModes = {"browsing", "choosing"}
  FirstRecords = 2
  MaxRecordId = 4
  InView = {1, 2, 4}
  ReadOnlyForm = FALSE
  Refusals = {"updating", "deleting"}
  Shared = {"browsing"}
  Tables <- MCTables
  References <- MCReferences
  Reports <- MCReports
  Inputs <- MCInputs
  SizeY = 9
  MarginTop = 1
  MarginBottom = 1
  Scripts <- MCScripts
  Variables <- MCVariables
CHECK_DEADLOCK FALSE
SPECIFICATION SpecFramework
INVARIANT TypeOK TypeOKFormsAndReports PrintedInOrder TotalsOfTheGroup PagesAreWhole ScriptMeansWhatItSays
PROPERTY AtomicSaves RecordUnderCursor CursorAfterEdition ReportsAndScriptsEnd
