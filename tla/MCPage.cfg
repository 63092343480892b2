SPECIFICATION FairPageSpec
CONSTANTS
  r1 = r1
  r2 = r2
  a1 = a1
  a2 = a2
  seoul = seoul
  virginia = virginia
  None = None
  Request = {r1, r2}
  Account = {a1, a2}
  First = a1
  Region = {seoul, virginia}
  Caller <- MCCallers
  Key <- MCKey
  pages <- MCPages
  PanelAsks <- MCAsks
  Routes <- MCRoutes
  RegionOf <- MCRegionOf
  TTL = 1
  ErrorTTL = 1
  MaxTime = 0
  MaxEpoch = 1
INVARIANTS PagesAreWhole OneAccountUnlessOvertaken
PROPERTY EveryRequestAnswered
