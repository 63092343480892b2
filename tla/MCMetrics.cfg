SPECIFICATION PanelSpec
CONSTANTS
  Published <- MCPublished
  Windows <- MCWindows
  Configs <- MCConfigs
  Conns <- MCConns
  Scalings <- MCScalings
  ChunkSize = 3
  MaxPages = 4
INVARIANTS OneAxis SamplesKeptApart HeadlinesAreOfSamples
PROPERTY FetchEnds
CHECK_DEADLOCK FALSE
