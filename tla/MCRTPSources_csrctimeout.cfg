\* Contributing sources and the general time-out.
SPECIFICATION Spec
CONSTANTS
  SSRC = {s1, s2}
  NoSSRC = NoSSRC
  a1 = a1
  a2 = a2
  b1 = b1
  Addr = {a1}
  OwnAddr = {}
  HostOf <- MCHostOf
  NULL = NULL
  UNSET = UNSET
  CName = {}
  NoCName = NoCName
  ApplyProbation = TRUE
  PROBATIONCOUNT = 2
  AcceptOwnPackets = TRUE
  MaxCSRCs = 1
  Delay = {0, 1}
  StartTime = 2
  MaxTime = 3
SYMMETRY SSRCSymmetry
PROPERTIES OnlyUnheardTimedOut
