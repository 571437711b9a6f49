\* Packets lost, late and duplicated, stored on probation or not, through a wrap
\* of the sequence number.  A behaviour stops at the last packet number, or
\* when the interval is full.
SPECIFICATION Spec
CONSTANTS
  SeqMod = 5
  ExtMod = 15
  ProbationTypes = {"ProbationDiscard", "ProbationStore"}
  PROBATIONCOUNT = 2
  MAXPROBATIONPACKETS = 2
  Gap = 2
  Late = 2
  MaxNo = 6
  MaxNew = 2
  MaxQueue = 2
INVARIANTS QueueSorted ProbationQueueBounded ProbationExact
  ExpectedIsSent ReceivedWithinExpected
PROPERTIES TakenInOrder
CHECK_DEADLOCK FALSE
