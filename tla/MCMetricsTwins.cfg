SPECIFICATION PanelSpec
CONSTANTS
  Published <- MCPublished
  Windows <- MCWindows
  Configs <- TwinConfigs
  Conns <- MCConns
  Scalings <- MCScalings
  ChunkSize = 3
  MaxPages = 4
INVARIANT TargetsStayApart
CHECK_DEADLOCK FALSE
