SPECIFICATION Spec
CONSTANTS
  ra = ra
  rb = rb
  rc = rc
  Gap = Gap
  None = None
  Charts <- MCCharts
  Axis = 2
  MAX_TOOLTIP_ROWS = 2
  Tables <- MCTables
  NaN = NaN
  Number <- MCNumber
  Rank <- MCRank
  Matching <- MCMatching
  Found <- MCMatching
  initialRows = 2
  step = 1
  Resource <- MCResource
  Lists <- MCLists
  FilterFrom = 2
  Typed = {"lb", "arn", "none"}
  Nothing = "none"
  Canonical <- MCCanonical
  Never = Never
  MaxEdits = 3
INVARIANT SavedBadgeIsTrue
PROPERTIES ScreenIsOfPayload DetailFollowsItsRow TicksStayInView
