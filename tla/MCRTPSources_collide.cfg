\* Addresses, collisions and CSRC lists: no time passes.
SPECIFICATION Spec
CONSTANTS
  SSRC = {s1, s2}
  NoSSRC = NoSSRC
  a1 = a1
  a2 = a2
  b1 = b1
  Addr = {a1, a2, b1}
  OwnAddr = {b1}
  HostOf <- MCHostOf
  NULL = NULL
  UNSET = UNSET
  CName = {c1}
  NoCName = NoCName
  ApplyProbation = FALSE
  PROBATIONCOUNT = 2
  AcceptOwnPackets = TRUE
  MaxCSRCs = 1
  Delay = {0}
  StartTime = 1
  MaxTime = 1
SYMMETRY SSRCSymmetry
INVARIANTS CountsExact
INVARIANTS ActiveCountNeverOver OwnEntryIntact AddressesOnOneHost
PROPERTIES IdentityKept SourcesAnnounced
