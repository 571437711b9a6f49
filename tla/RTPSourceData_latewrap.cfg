\* A late packet right after the wrap of the sequence number.
SPECIFICATION Spec
CONSTANTS
  SeqMod = 8
  ExtMod = 32
  ProbationTypes = {"NoProbation"}
  PROBATIONCOUNT = 2
  MAXPROBATIONPACKETS = 2
  Gap = 2
  Late = 2
  MaxNo = 10
  MaxNew = 3
  MaxQueue = 1
INVARIANTS ExtendedIsHighest
CHECK_DEADLOCK FALSE
