SPECIFICATION Spec
CONSTANTS
  p1 = p1
  p2 = p2
  region = region
  group = group
  v0 = v0
  v1 = v1
  g1 = g1
  g2 = g2
  Put = {p1, p2}
  Field = {region, group}
  RegionField = region
  Value = {v0, v1}
  Default <- MCDefault
  Missing = Missing
  Bad = Bad
  Misshapen = Misshapen
  NoFile = NoFile
  Unreadable = Unreadable
  Garbage = {g1, g2}
  Body <- MCBody
  Edit <- MCEdit
  MaxCrashes = 2
  MaxEdits = 1
INVARIANT ServedIsStored
PROPERTIES RestartKeepsConfig TextNotLost
CHECK_DEADLOCK FALSE
