SPECIFICATION LogSpec
CONSTANTS
  c1 = c1
  c2 = c2
  c3 = c3
  Caller = {c1, c2, c3}
  Shape = {"pods"}
  a1 = a1
  a2 = a2
  a3 = a3
  seoul = seoul
  virginia = virginia
  Account = {a1, a2, a3}
  Region = {seoul, virginia}
  RegionOf <- MCRegionOf
  Key <- MCKey
  rows = rows
  stats = stats
  Query = {rows, stats}
  None = None
  TTL = 2
  ErrorTTL = 1
  MaxTime = 1
  MaxEpoch = 1
SYMMETRY Symmetry
INVARIANTS AccountsApartUnlessOvertaken BorrowedAbortHasRows
PROPERTY OutageIsShort
