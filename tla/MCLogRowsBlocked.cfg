SPECIFICATION RowsSpec
CONSTANTS
  LogSets <- MCLogSets
  Windows <- MCWindows
  Configs <- MCConfigs
  Unquotable = {"a | b"}
  MaxRows = 2
  MaxFailures = 1
INVARIANT EveryCutTableIsTold
CHECK_DEADLOCK FALSE
