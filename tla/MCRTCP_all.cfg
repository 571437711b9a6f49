\* Compound packets of up to three SDES chunks and items, and one more packet;
\* two rounds of SDES items for a session of three sources, which may be begun
\* again; and the timers while up to four members come and go.  A behaviour of
\* the builders stops when the packet is built, or at the end of the rounds.
SPECIFICATION MCSpec
CONSTANTS
  MaxPerPacket = 2
  own = own
  a = a
  b = b
  Table <- MCTable
  Own = own
  CSRCs = {}
  Items <- MCItems
  ItemLength <- MCItemLength
  CNAMELength = 5
  RTP_MINPACKETSIZE = 76
  Sizes = {76, 100}
  Intervals = {1, 2}
  MaxInits = 2
  MaxRounds = 2
  Maximums = {112}
  Sources = {a, b}
  ItemLengths = {1, 6}
  APPLengths = {4}
  UnknownLengths = {4, 6}
  Reasons = {0, 2}
  MaxItems = 3
  MaxOthers = 1
  PacketSizes = {1, 2}
  MinInterval = 3
  Bandwidth = 2
  UseHalfAtStartup = TRUE
  RequestImmediateBYE = TRUE
  ImmediateBYELimit = 2
  MaxMembers = 4
  MaxBYEs = 2
  MaxPast = 6
INVARIANTS BuildSucceeds ItemsOnce NobodyStarves
INVARIANTS BufferFilled MaximumKept ParsesBack
PROPERTIES PacketsSpaced
CHECK_DEADLOCK FALSE
