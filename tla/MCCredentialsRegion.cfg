SPECIFICATION Spec
CONSTANTS
  r1 = r1
  r2 = r2
  Request = {r1}
  k1 = k1
  k2 = k2
  seoul = seoul
  virginia = virginia
  Cred = {k1, k2}
  Region = {seoul, virginia}
  RegionOf <- MCRegionOf
  Unreadable = Unreadable
  Incomplete = Incomplete
  None = None
  MaxCrashes = 0
INVARIANT RegionFollowsKey
