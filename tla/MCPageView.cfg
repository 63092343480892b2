SPECIFICATION FairSpec
CONSTANTS
  None = None
  Links <- MCLinks
  Namespaces = {"", "shop"}
  MaxActs = 3
  NonceMod = 2
INVARIANTS RequestsAreAccepted ScreenIsOfSelection
PROPERTIES ReloadOpensSameView LoadsEnd
