---------------------------- MODULE RTPSourceData ----------------------------
(***************************************************************************)
(* One remote source: the sequence number bookkeeping of RTPSourceStats,    *)
(* probation, and the packet list of RTPSourceData from which the           *)
(* application takes packets (RTPInternalSourceData::ProcessRTPPacket).     *)
(*                                                                          *)
(* The participant numbers its packets first, first + 1, ... without end;   *)
(* a packet carries only its number modulo SeqMod.  The network loses       *)
(* packets, and delays or duplicates them by fewer than Late places: they  *)
(* are less than Late below the highest.  Jitter is left out.               *)
(***************************************************************************)
EXTENDS Integers, Sequences

CONSTANTS
  SeqMod,              \* 2^16, the sequence numbers of the RTP header
  ExtMod,              \* 2^32, a multiple of SeqMod
  ProbationTypes,      \* the values of RTPSources::ProbationType in use
  PROBATIONCOUNT,      \* RTP_PROBATIONCOUNT
  MAXPROBATIONPACKETS, \* RTPINTERNALSOURCEDATA_MAXPROBATIONPACKETS
  Gap,                 \* bound: how far a packet may be ahead of the last
  Late,                \* bound: how far it may lie behind
  MaxNo,               \* bound: the last packet number
  MaxNew,              \* bound: packets in a report interval
  MaxQueue             \* bound: packets of a valid source that wait

ASSUME SeqAssumption ==
  /\ SeqMod \in Nat /\ SeqMod > 1
  /\ ExtMod \in Nat /\ ExtMod > 1
  /\ ExtMod % SeqMod = 0

ASSUME ProbationAssumption ==
  /\ ProbationTypes \subseteq {"NoProbation", "ProbationDiscard", "ProbationStore"}
  /\ PROBATIONCOUNT \in Nat \ {0}
  /\ MAXPROBATIONPACKETS \in Nat /\ MAXPROBATIONPACKETS > 1

ASSUME NetworkAssumption ==
  /\ Gap \in Nat /\ Late \in Nat /\ MaxNo \in Nat
  /\ MaxNew \in Nat /\ MaxQueue \in Nat
  /\ Gap > 0
  /\ Gap + Late <= SeqMod   \* a number stands for one packet at a time

VARIABLES
  probationtype,       \* as the session had set it when the source was made
  validated,
  stats,               \* RTPSourceStats
  packetlist,
  top,                 \* history: highest packet number that arrived, or -1
  base,                \* history: number of the first packet accepted
  saved,               \* history: top when the report interval started
  last,                \* history: number of the last packet, on probation
  run,                 \* history: length of the unbroken sequence it ended
  taken,               \* history: number of the last packet GetNextPacket gave
  inorder,             \* history: no packet was late or came again
  steady               \* history: none did on probation or across a wrap

vars == <<probationtype, validated, stats, packetlist, top, base, saved, last, run,
          taken, inorder, steady>>

\* The 16-bit and the 32-bit (extended) sequence numbers.
Seq16 == 0..SeqMod - 1
Seq32 == 0..ExtMod - 1

Stats ==
  [sentdata      : BOOLEAN,
   baseseqnr     : Seq16,
   numcycles     : Nat,
   exthighseqnr  : Nat,
   savedextseqnr : Nat,
   numnewpackets : Nat,
   prevseqnr     : Seq16,
   probation     : 0..PROBATIONCOUNT]

NewStats ==
  [sentdata |-> FALSE, baseseqnr |-> 0, numcycles |-> 0, exthighseqnr |-> 0,
   savedextseqnr |-> 0, numnewpackets |-> 0, prevseqnr |-> 0, probation |-> 0]

\* A packet in the list: its sequence number, extended unless it was stored
\* while the source was on probation, and its true number.
Packet == [seq : Nat, no : Nat]

-----------------------------------------------------------------------------
(* RTPSourceStats::ProcessPacket *)

\* Mutant: number zero gets no cycle of its own.
AcceptFirstUncycled(st, s) ==
  LET b == (s - 1) % SeqMod
  IN  [st EXCEPT !.sentdata = TRUE, !.numnewpackets = @ + 1,
                 !.baseseqnr = b, !.exthighseqnr = b + 1, !.savedextseqnr = b]

\* ACCEPTPACKETCODE: the first packet accepted.  Before number zero comes the
\* highest one, in the cycle before.
AcceptFirst(st, s) ==
  LET b == (s - 1) % SeqMod
  IN  [st EXCEPT !.sentdata = TRUE, !.numnewpackets = @ + 1,
                 !.baseseqnr = b, !.exthighseqnr = b + 1, !.savedextseqnr = b,
                 !.numcycles = IF s = 0 THEN SeqMod ELSE @]

\* Mutant: 0 does not follow the highest sequence number.
ProbationLeftUnwrapped(st, s) ==
  IF st.probation > 0 /\ s = st.prevseqnr + 1
  THEN st.probation - 1
  ELSE PROBATIONCOUNT

\* What is left of the probation once a packet with number s arrived.
ProbationLeft(st, s) ==
  IF st.probation > 0 /\ s = (st.prevseqnr + 1) % SeqMod
  THEN st.probation - 1
  ELSE PROBATIONCOUNT

Probe(st, s) ==
  LET tried == [st EXCEPT !.probation = ProbationLeft(st, s), !.prevseqnr = s]
  IN  IF tried.probation = 0 THEN AcceptFirst(tried, s) ELSE tried

\* A packet of a source that sent some before: a number below the highest one
\* is either of the next cycle or late; one above it is never late.
High16(st) == st.exthighseqnr % SeqMod

NextCycle(st, s) ==
  s < High16(st) /\ (s - High16(st)) % SeqMod < (High16(st) - s) % SeqMod

Cycles(st, s) ==
  IF NextCycle(st, s) THEN (st.numcycles + SeqMod) % ExtMod ELSE st.numcycles

Extended(st, s) == (Cycles(st, s) + s) % ExtMod

AcceptNext(st, s) ==
  [st EXCEPT !.numnewpackets = @ + 1,
             !.numcycles = Cycles(st, s),
             !.exthighseqnr = IF s >= High16(st) \/ NextCycle(st, s)
                              THEN Extended(st, s) ELSE @]

ProcessPacket(st, s, applyprobation) ==
  IF st.sentdata THEN AcceptNext(st, s)
  ELSE IF applyprobation THEN Probe(st, s) ELSE AcceptFirst(st, s)

\* The number the packet has afterwards.
PacketSeq(st, s, accepted) ==
  IF st.sentdata THEN Extended(st, s)
  ELSE IF accepted.sentdata THEN accepted.exthighseqnr ELSE s

-----------------------------------------------------------------------------
(* The packet list *)

\* Position k of the list is where the walk from the back ends: the last
\* packet whose number does not exceed s, or 0.
Place(list, s, k) ==
  /\ k \in 0..Len(list)
  /\ k > 0 => list[k].seq <= s
  /\ \A i \in 1..Len(list) : i > k => s < list[i].seq

InsertAfter(list, p, k) ==
  [i \in 1..Len(list) + 1 |->
     IF i <= k THEN list[i] ELSE IF i = k + 1 THEN p ELSE list[i - 1]]

\* Mutant: a packet that came again is stored again.
StoredAgain(list, p, result) ==
  \E k \in 0..Len(list) :
    Place(list, p.seq, k) /\ result = InsertAfter(list, p, k)

\* list with p stored, unless a packet with its number is there already.
Stored(list, p, result) ==
  \E k \in 0..Len(list) :
    /\ Place(list, p.seq, k)
    /\ result = IF k > 0 /\ list[k].seq = p.seq THEN list
                                                ELSE InsertAfter(list, p, k)

\* Mutant: one packet too many is kept.
TrimmedLate(list, onprobation) ==
  IF onprobation /\ Len(list) > MAXPROBATIONPACKETS THEN Tail(list) ELSE list

\* A source on probation loses its lowest packet when the list is full.
Trimmed(list, onprobation) ==
  IF onprobation /\ Len(list) = MAXPROBATIONPACKETS THEN Tail(list) ELSE list

-----------------------------------------------------------------------------
(* The handlers *)

\* No wrap of the sequence number lies between packets n and m.
SameCycle(n, m) == n \div SeqMod = m \div SeqMod

\* Packet number n arrives; the application's OnValidatedRTPPacket may keep it.
\* A packet on probation goes no further unless it is to be stored.
ProcessRTPPacket(n, handled) ==
  LET s      == n % SeqMod
      new    == ProcessPacket(stats, s, ~validated /\ probationtype # "NoProbation")
      accept == new.sentdata
      p      == [seq |-> PacketSeq(stats, s, new), no |-> n]
  IN  /\ stats' = new
      /\ validated' = (validated \/ accept)
      /\ IF handled \/ (~accept /\ probationtype # "ProbationStore")
         THEN packetlist' = packetlist
         ELSE /\ validated => Len(packetlist) < MaxQueue
              /\ Stored(Trimmed(packetlist, ~validated'), p, packetlist')
      /\ top' = IF n > top THEN n ELSE top
      /\ base' = IF accept /\ ~stats.sentdata THEN n ELSE base
      /\ saved' = IF accept /\ ~stats.sentdata THEN n - 1 ELSE saved
      /\ IF validated'
         THEN UNCHANGED <<last, run>>
         ELSE last' = n /\ run' = IF run > 0 /\ n = last + 1 THEN run + 1 ELSE 1
      /\ inorder' = (inorder /\ n > top)
      /\ steady' = (steady /\ (n > top \/ (stats.sentdata /\ SameCycle(n, top))))
      /\ UNCHANGED <<probationtype, taken>>

\* The network: at first any packet, then one not too far from the highest.
Arrive(n, handled) ==
  /\ IF top = -1 THEN n < SeqMod ELSE n \in (top - Late + 1)..(top + Gap)
  /\ stats.numnewpackets < MaxNew
  /\ ProcessRTPPacket(n, handled)

\* A CNAME item validates the source (ProcessSDESItem).
ProcessCNAME ==
  /\ ~validated
  /\ validated' = TRUE
  /\ UNCHANGED <<probationtype, stats, packetlist, top, base, saved, last, run,
                 taken, inorder, steady>>

\* Mutant: the application is given the packet that came last.
GetLastPacket ==
  /\ validated
  /\ packetlist # <<>>
  /\ packetlist' = SubSeq(packetlist, 1, Len(packetlist) - 1)
  /\ taken' = packetlist[Len(packetlist)].no
  /\ UNCHANGED <<probationtype, validated, stats, top, base, saved, last, run,
                 inorder, steady>>

GetNextPacket ==
  /\ validated
  /\ packetlist # <<>>
  /\ packetlist' = Tail(packetlist)
  /\ taken' = Head(packetlist).no
  /\ UNCHANGED <<probationtype, validated, stats, top, base, saved, last, run,
                 inorder, steady>>

FlushPackets ==
  /\ packetlist # <<>>
  /\ packetlist' = <<>>
  /\ UNCHANGED <<probationtype, validated, stats, top, base, saved, last, run,
                 taken, inorder, steady>>

\* Mutant: the packets of the interval before are counted again.
StartNewIntervalCounting ==
  /\ stats.sentdata
  /\ stats' = [stats EXCEPT !.savedextseqnr = stats.exthighseqnr]
  /\ saved' = top
  /\ UNCHANGED <<probationtype, validated, packetlist, top, base, last, run,
                 taken, inorder, steady>>

\* INF_StartNewInterval, when a report block about the source is written.
StartNewInterval ==
  /\ stats.sentdata
  /\ stats' = [stats EXCEPT !.numnewpackets = 0, !.savedextseqnr = stats.exthighseqnr]
  /\ saved' = top
  /\ UNCHANGED <<probationtype, validated, packetlist, top, base, last, run,
                 taken, inorder, steady>>

Init ==
  /\ probationtype \in ProbationTypes
  /\ validated = FALSE
  /\ stats = NewStats
  /\ packetlist = <<>>
  /\ top = -1
  /\ base = -1
  /\ saved = -1
  /\ last = -1
  /\ run = 0
  /\ taken = -1
  /\ inorder = TRUE
  /\ steady = TRUE

Next ==
  \/ \E n \in 0..MaxNo, handled \in BOOLEAN : Arrive(n, handled)
  \/ ProcessCNAME
  \/ GetNextPacket
  \/ FlushPackets
  \/ StartNewInterval

Spec == Init /\ [][Next]_vars

-----------------------------------------------------------------------------
(* Properties *)

\* The variables have their types.
TypeOK ==
  /\ probationtype \in ProbationTypes
  /\ {validated, inorder, steady} \subseteq BOOLEAN
  /\ stats \in Stats
  /\ packetlist \in Seq(Packet)
  /\ {top, base, saved, last, taken} \subseteq Int
  /\ run \in Nat

\* InsertPacketHere keeps the list of packets that wait for the application
\* strictly sorted by their extended sequence numbers, so that no number waits
\* twice, whatever is reordered, duplicated or stored on probation with a number
\* that was not yet extended.  This is about the list only: the code does not
\* remember what was taken from it, so that a duplicate or an earlier packet
\* that comes after a packet was taken is queued and delivered all the same.
QueueSorted ==
  \A i, j \in 1..Len(packetlist) :
    i < j => packetlist[i].seq < packetlist[j].seq

\* A source that never gets validated cannot make the session store more than
\* MAXPROBATIONPACKETS packets for it.
ProbationQueueBounded ==
  ~validated => Len(packetlist) <= MAXPROBATIONPACKETS

\* Probation takes exactly PROBATIONCOUNT packets that directly follow the one
\* before, across the wrap of the sequence number too; any gap, duplicate or
\* late packet starts it anew.
ProbationExact ==
  /\ ~validated =>
       stats.probation = IF run = 0 THEN 0 ELSE PROBATIONCOUNT + 1 - run
  /\ stats.sentdata => validated

\* The number of packets expected, in total and in the report interval, is the
\* number the participant sent: the extended sequence number is the highest one
\* received, through every wrap of the 16 bits, as RTPSourceData documents it.
ExtendedIsHighest ==
  stats.sentdata =>
    /\ (stats.exthighseqnr - stats.baseseqnr - (top - base + 1)) % ExtMod = 0
    /\ (stats.exthighseqnr - stats.savedextseqnr - (top - saved)) % ExtMod = 0

\* That is so as long as packets are late or duplicated only after probation
\* and never across a wrap of the sequence number, whatever is lost.
ExpectedIsSent == steady => ExtendedIsHighest

\* No report shows more packets received than expected, so that the fraction
\* lost is never negative, as long as none is late or duplicated.
ReceivedWithinExpected ==
  inorder =>
    stats.numnewpackets <= (stats.exthighseqnr - stats.savedextseqnr) % ExtMod

\* The application gets the packets in the order they were sent, each once,
\* across wraps of the sequence number, as long as none is late or duplicated,
\* none was stored on probation before its number could be extended, and the
\* extended number did not wrap.
TakenInOrder ==
  [][/\ inorder
     /\ probationtype # "ProbationStore"
     /\ top + SeqMod < ExtMod
     => (taken' # taken => taken' > taken)]_vars

=============================================================================
