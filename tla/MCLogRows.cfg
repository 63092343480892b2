SPECIFICATION RowsSpec
CONSTANTS
  LogSets <- MCLogSets
  Windows <- MCWindows
  Configs <- MCConfigs
  Unquotable = {"a | b"}
  MaxRows = 2
  MaxFailures = 1
INVARIANTS NumbersOrWarnings CutListIsSaid WafColumnsAddUp QueriesCompile PreviewAgrees
CHECK_DEADLOCK FALSE
