\* Time-outs: intervals pass, no mixers.  All packets come from our own address,
\* so that those under our SSRC are taken too.
SPECIFICATION Spec
CONSTANTS
  SSRC = {s1, s2}
  NoSSRC = NoSSRC
  a1 = a1
  a2 = a2
  b1 = b1
  Addr = {b1}
  OwnAddr = {b1}
  HostOf <- MCHostOf
  NULL = NULL
  UNSET = UNSET
  CName = {}
  NoCName = NoCName
  ApplyProbation = TRUE
  PROBATIONCOUNT = 2
  AcceptOwnPackets = TRUE
  MaxCSRCs = 0
  Delay = {0, 1}
  StartTime = 2
  MaxTime = 3
SYMMETRY SSRCSymmetry
INVARIANTS ActiveCountExact TimesConsistent
PROPERTIES HeardNotTimedOut
