SPECIFICATION FairSpec
CONSTANTS
  None = None
  Links <- MCLinks
  Namespaces = {""}
  MaxActs = 1
  NonceMod = 2
PROPERTY SkeletonEnds
