SPECIFICATION FairSpec
CONSTANTS
  exe = exe
  home = home
  given = given
  Candidate = {exe, home, given}
  envFileCandidates <- MCCandidates
  Named = given
  Conn = {c1, c2}
  port = 8080
  portFallbacks = 1
  MaxChanges = 2
PROPERTIES ProcessSettles GraceIsKept
CHECK_DEADLOCK FALSE
