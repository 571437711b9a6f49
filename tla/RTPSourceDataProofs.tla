------------------------- MODULE RTPSourceDataProofs -------------------------
(***************************************************************************)
(* Proofs about RTPSourceData.  Whatever arrives, the packet list stays     *)
(* strictly sorted and bounded on probation, and probation takes exactly    *)
(* its number of packets.  Until a packet is late at the wrong moment, the  *)
(* numbers expected are those sent and packets are taken as they were sent. *)
(***************************************************************************)
EXTENDS RTPSourceData, TLAPS

\* A remainder lies below the divisor.
LEMMA ModRange ==
  ASSUME NEW a \in Int, NEW m \in Nat, m > 0
  PROVE  a % m \in 0..m - 1
  OBVIOUS

\* The statistics keep their type.
LEMMA AcceptFirstType ==
  ASSUME NEW st \in Stats, NEW s \in Seq16
  PROVE  AcceptFirst(st, s) \in Stats
<1>1. (s - 1) % SeqMod \in Seq16
  BY ModRange, SeqAssumption DEF Seq16
<1>2. /\ SeqMod \in Nat
      /\ (s - 1) % SeqMod \in Nat
      /\ ((s - 1) % SeqMod) + 1 \in Nat
      /\ st.numnewpackets + 1 \in Nat
  BY <1>1, SeqAssumption DEF Seq16, Stats
<1> QED
  BY <1>1, <1>2 DEF AcceptFirst, Stats

LEMMA ProbeType ==
  ASSUME NEW st \in Stats, NEW s \in Seq16
  PROVE  Probe(st, s) \in Stats
<1> DEFINE tried == [st EXCEPT !.probation = ProbationLeft(st, s),
                               !.prevseqnr = s]
<1>1. ProbationLeft(st, s) \in 0..PROBATIONCOUNT
  <2>1. st.probation \in 0..PROBATIONCOUNT
    BY DEF Stats
  <2>2. PROBATIONCOUNT \in Nat
    BY ProbationAssumption
  <2> QED
    BY <2>1, <2>2 DEF ProbationLeft
<1>2. tried \in Stats
  BY <1>1 DEF Stats
<1>3. AcceptFirst(tried, s) \in Stats
  BY <1>2, AcceptFirstType
<1> QED
  BY <1>2, <1>3 DEF Probe

LEMMA ExtendedType ==
  ASSUME NEW st \in Stats, NEW s \in Seq16
  PROVE  Cycles(st, s) \in Nat /\ Extended(st, s) \in Nat
<1>1. Cycles(st, s) \in Nat
  <2>1. st.numcycles \in Nat /\ st.numcycles + SeqMod \in Int
    BY SeqAssumption DEF Stats
  <2>2. (st.numcycles + SeqMod) % ExtMod \in Nat
    BY <2>1, ModRange, SeqAssumption
  <2> QED
    BY <2>1, <2>2 DEF Cycles
<1>2. Cycles(st, s) + s \in Int
  BY <1>1, SeqAssumption DEF Seq16
<1>3. Extended(st, s) \in Nat
  BY <1>2, ModRange, SeqAssumption DEF Extended
<1> QED
  BY <1>1, <1>3

LEMMA ProcessPacketType ==
  ASSUME NEW st \in Stats, NEW s \in Seq16, NEW b \in BOOLEAN
  PROVE  ProcessPacket(st, s, b) \in Stats
<1>1. AcceptNext(st, s) \in Stats
  <2>1. st.numnewpackets + 1 \in Nat /\ st.exthighseqnr \in Nat
    BY DEF Stats
  <2> QED
    BY <2>1, ExtendedType DEF AcceptNext, Stats
<1> QED
  BY <1>1, AcceptFirstType, ProbeType DEF ProcessPacket

LEMMA PacketSeqType ==
  ASSUME NEW st \in Stats, NEW s \in Seq16, NEW new \in Stats
  PROVE  PacketSeq(st, s, new) \in Nat
<1>1. s \in Nat /\ new.exthighseqnr \in Nat
  BY SeqAssumption DEF Seq16, Stats
<1> QED
  BY <1>1, ExtendedType DEF PacketSeq

-----------------------------------------------------------------------------

Sorted(list) == \A i, j \in 1..Len(list) : i < j => list[i].seq < list[j].seq

\* Storing a packet keeps a list sorted and adds at most one to its length.
LEMMA StoredSorted ==
  ASSUME NEW list \in Seq(Packet), NEW p \in Packet, NEW result,
         Sorted(list), Stored(list, p, result)
  PROVE  /\ result \in Seq(Packet)
         /\ Sorted(result)
         /\ Len(result) <= Len(list) + 1
<1>1. PICK k \in 0..Len(list) :
        /\ Place(list, p.seq, k)
        /\ result = IF k > 0 /\ list[k].seq = p.seq
                    THEN list ELSE InsertAfter(list, p, k)
  BY DEF Stored
<1>2. CASE k > 0 /\ list[k].seq = p.seq
  BY <1>1, <1>2
<1>3. CASE ~(k > 0 /\ list[k].seq = p.seq)
  <2>1. result = InsertAfter(list, p, k)
    BY <1>1, <1>3
  <2>2. Len(list) \in Nat /\ Len(list) + 1 \in Nat /\ k \in Nat
    OBVIOUS
  <2>3. \A i \in 1..Len(list) + 1 : InsertAfter(list, p, k)[i] \in Packet
    BY <2>2 DEF InsertAfter
  <2>4. result \in Seq(Packet) /\ Len(result) = Len(list) + 1
    BY <2>1, <2>2, <2>3 DEF InsertAfter
  <2>5. Sorted(result)
    <3> SUFFICES ASSUME NEW i \in 1..Len(list) + 1, NEW j \in 1..Len(list) + 1,
                        i < j
                 PROVE  result[i].seq < result[j].seq
      BY <2>4 DEF Sorted
    <3>1. /\ result[i] = IF i <= k THEN list[i]
                         ELSE IF i = k + 1 THEN p ELSE list[i - 1]
          /\ result[j] = IF j <= k THEN list[j]
                         ELSE IF j = k + 1 THEN p ELSE list[j - 1]
      BY <2>1 DEF InsertAfter
    <3>2. /\ p.seq \in Nat
          /\ \A x \in 1..Len(list) : list[x].seq \in Nat
      <4>1. \A x \in 1..Len(list) : list[x] \in Packet
        OBVIOUS
      <4>2. \A q \in Packet : q.seq \in Nat
        BY DEF Packet
      <4> QED
        BY <4>1, <4>2
    <3>3. k > 0 => list[k].seq < p.seq
      BY <1>1, <1>3, <3>2 DEF Place
    <3>4. \A x \in 1..Len(list) : x > k => p.seq < list[x].seq
      BY <1>1 DEF Place
    <3>5. \A x \in 1..Len(list) : x <= k => list[x].seq < p.seq
      BY <3>2, <3>3 DEF Sorted
    <3>6. CASE j <= k
      BY <3>1, <3>6 DEF Sorted
    <3>7. CASE j = k + 1
      BY <3>1, <3>5, <3>7
    <3>8. CASE j > k + 1 /\ i <= k
      BY <3>1, <3>8 DEF Sorted
    <3>9. CASE j > k + 1 /\ i = k + 1
      BY <3>1, <3>4, <3>9
    <3>10. CASE j > k + 1 /\ i > k + 1
      BY <3>1, <3>10 DEF Sorted
    <3> QED
      BY <3>6, <3>7, <3>8, <3>9, <3>10
  <2> QED
    BY <2>4, <2>5
<1> QED
  BY <1>2, <1>3

\* What is left of a sorted list is sorted.
LEMMA TailSorted ==
  ASSUME NEW list \in Seq(Packet), list # <<>>, Sorted(list)
  PROVE  /\ Tail(list) \in Seq(Packet)
         /\ Len(Tail(list)) = Len(list) - 1
         /\ Sorted(Tail(list))
<1>1. /\ Tail(list) \in Seq(Packet)
      /\ Len(Tail(list)) = Len(list) - 1
      /\ \A i \in 1..Len(list) - 1 : Tail(list)[i] = list[i + 1]
  OBVIOUS
<1> QED
  BY <1>1 DEF Sorted

-----------------------------------------------------------------------------

\* The inductive invariant.  The list grows by one packet at a time and a source
\* never returns to probation, so that it cannot grow past the bound unseen.
ListInv ==
  /\ TypeOK
  /\ QueueSorted
  /\ ProbationQueueBounded

LEMMA ArriveKeeps ==
  ASSUME NEW n \in 0..MaxNo, NEW handled \in BOOLEAN,
         ListInv, Arrive(n, handled)
  PROVE  ListInv'
<1> DEFINE s == n % SeqMod
<1> DEFINE new == ProcessPacket(stats, s,
                                ~validated /\ probationtype # "NoProbation")
<1> DEFINE p == [seq |-> PacketSeq(stats, s, new), no |-> n]
<1> USE DEF ListInv
<1>1. n \in Nat /\ s \in Seq16
  BY ModRange, SeqAssumption, NetworkAssumption DEF Seq16
<1>2. new \in Stats
  BY <1>1, ProcessPacketType DEF TypeOK
<1>3. p \in Packet
  BY <1>1, <1>2, PacketSeqType DEF TypeOK, Packet
<1>4. stats' = new /\ validated' = (validated \/ new.sentdata)
  BY DEF Arrive, ProcessRTPPacket
<1>5. new.sentdata \in BOOLEAN
  BY <1>2 DEF Stats
<1>6. /\ {top, base, saved, last, taken}' \subseteq Int
      /\ run' \in Nat
  <2>1. /\ top' = IF n > top THEN n ELSE top
        /\ base' \in {n, base}
        /\ saved' \in {n - 1, saved}
        /\ last' \in {last, n}
        /\ run' \in {run, run + 1, 1}
        /\ taken' = taken
    BY DEF Arrive, ProcessRTPPacket
  <2>2. n \in Int /\ n - 1 \in Int /\ run \in Nat /\ run + 1 \in Nat /\ 1 \in Nat
    BY <1>1 DEF TypeOK
  <2>3. /\ top \in Int /\ base \in Int /\ saved \in Int /\ last \in Int
        /\ taken \in Int
    BY DEF TypeOK
  <2> QED
    BY <2>1, <2>2, <2>3
<1>7. /\ {validated, inorder, steady}' \subseteq BOOLEAN
      /\ probationtype' \in ProbationTypes
  BY <1>4, <1>5 DEF TypeOK, Arrive, ProcessRTPPacket
<1>8. packetlist \in Seq(Packet) /\ Sorted(packetlist)
  BY DEF TypeOK, QueueSorted, Sorted
<1>9. ~validated' => ~validated
  BY <1>4, <1>5 DEF TypeOK
<1>10. /\ packetlist' \in Seq(Packet)
       /\ Sorted(packetlist')
       /\ ~validated' => Len(packetlist') <= MAXPROBATIONPACKETS
  <2>1. CASE packetlist' = packetlist
    BY <2>1, <1>8, <1>9 DEF ProbationQueueBounded
  <2>2. CASE Stored(Trimmed(packetlist, ~validated'), p, packetlist')
    <3> DEFINE list == Trimmed(packetlist, ~validated')
    <3>1. /\ list \in Seq(Packet)
          /\ Sorted(list)
          /\ ~validated' => Len(list) < MAXPROBATIONPACKETS
      <4>1. Len(packetlist) \in Nat /\ MAXPROBATIONPACKETS \in Nat
            /\ MAXPROBATIONPACKETS > 1
        BY <1>8, ProbationAssumption
      <4>2. CASE ~validated' /\ Len(packetlist) = MAXPROBATIONPACKETS
        <5>1. list = Tail(packetlist) /\ packetlist # <<>>
          BY <4>1, <4>2 DEF Trimmed
        <5> HIDE DEF list
        <5>2. /\ list \in Seq(Packet) /\ Sorted(list)
              /\ Len(list) = Len(packetlist) - 1
          BY <5>1, <1>8, TailSorted
        <5> QED
          BY <5>2, <4>1, <4>2
      <4>3. CASE validated' \/ Len(packetlist) # MAXPROBATIONPACKETS
        <5>1. list = packetlist
          BY <4>3 DEF Trimmed
        <5>2. ~validated' => Len(packetlist) <= MAXPROBATIONPACKETS
          BY <1>9 DEF ProbationQueueBounded
        <5> HIDE DEF list
        <5> QED
          BY <5>1, <5>2, <4>1, <4>3, <1>8
      <4> QED
        BY <4>2, <4>3
    <3>2. Stored(list, p, packetlist')
      BY <2>2
    <3> HIDE DEF list, p
    <3>3. /\ packetlist' \in Seq(Packet)
          /\ Sorted(packetlist')
          /\ Len(packetlist') <= Len(list) + 1
      BY <3>1, <3>2, <1>3, StoredSorted
    <3>4. /\ Len(packetlist') \in Nat /\ Len(list) \in Nat
          /\ MAXPROBATIONPACKETS \in Nat
      BY <3>1, <3>3, ProbationAssumption
    <3> QED
      BY <3>1, <3>3, <3>4
  <2> QED
    BY <2>1, <2>2 DEF Arrive, ProcessRTPPacket
<1> HIDE DEF new, p, s
<1>11. TypeOK'
  BY <1>2, <1>4, <1>6, <1>7, <1>10 DEF TypeOK
<1> QED
  BY <1>10, <1>11 DEF QueueSorted, ProbationQueueBounded, Sorted

LEMMA InitKeeps ==
  ASSUME Init
  PROVE  ListInv
<1>1. NewStats \in Stats
  <2>1. 0 \in Seq16 /\ 0 \in 0..PROBATIONCOUNT
    BY SeqAssumption, ProbationAssumption DEF Seq16
  <2> QED
    BY <2>1 DEF NewStats, Stats
<1>2. <<>> \in Seq(Packet) /\ Len(<<>>) = 0 /\ MAXPROBATIONPACKETS \in Nat
  BY ProbationAssumption
<1>3. -1 \in Int /\ 0 \in Nat
  OBVIOUS
<1>4. /\ {top, base, saved, last, taken} \subseteq Int
      /\ {validated, inorder, steady} \subseteq BOOLEAN
  BY <1>3 DEF Init
<1>5. TypeOK
  BY <1>1, <1>2, <1>3, <1>4 DEF Init, TypeOK
<1> QED
  BY <1>2, <1>5 DEF Init, ListInv, QueueSorted, ProbationQueueBounded

LEMMA ListStep ==
  ASSUME ListInv, [Next]_vars
  PROVE  ListInv'
<1>1. ASSUME NEW n \in 0..MaxNo, NEW handled \in BOOLEAN, Arrive(n, handled)
      PROVE  ListInv'
  BY <1>1, ArriveKeeps
<1>2. CASE ProcessCNAME
  BY <1>2 DEF ProcessCNAME, ListInv, TypeOK, QueueSorted,
              ProbationQueueBounded
<1>3. CASE GetNextPacket
  <2>1. packetlist \in Seq(Packet) /\ packetlist # <<>> /\ Sorted(packetlist)
    BY <1>3 DEF GetNextPacket, ListInv, TypeOK, QueueSorted, Sorted
  <2>2. packetlist' \in Seq(Packet) /\ Sorted(packetlist')
    BY <1>3, <2>1, TailSorted DEF GetNextPacket
  <2>3. taken' \in Int
    <3>1. Head(packetlist) \in Packet
      BY <2>1
    <3> QED
      BY <3>1, <1>3 DEF GetNextPacket, Packet
  <2>4. /\ UNCHANGED <<probationtype, validated, stats, top, base, saved, last,
                       run, inorder, steady>>
        /\ validated
    BY <1>3 DEF GetNextPacket
  <2>5. TypeOK'
    BY <2>2, <2>3, <2>4 DEF ListInv, TypeOK
  <2> QED
    BY <2>2, <2>4, <2>5 DEF ListInv, QueueSorted, ProbationQueueBounded,
                            Sorted
<1>4. CASE FlushPackets
  <2>1. <<>> \in Seq(Packet) /\ Len(<<>>) = 0 /\ MAXPROBATIONPACKETS \in Nat
    BY ProbationAssumption
  <2>2. TypeOK'
    BY <1>4, <2>1 DEF FlushPackets, ListInv, TypeOK
  <2> QED
    BY <1>4, <2>1, <2>2 DEF FlushPackets, ListInv, QueueSorted,
                            ProbationQueueBounded
<1>5. CASE StartNewInterval
  <2>1. stats' \in Stats
    BY <1>5 DEF StartNewInterval, ListInv, TypeOK, Stats
  <2>2. TypeOK'
    BY <1>5, <2>1 DEF StartNewInterval, ListInv, TypeOK
  <2> QED
    BY <1>5, <2>2 DEF StartNewInterval, ListInv, QueueSorted,
                      ProbationQueueBounded
<1>6. CASE UNCHANGED vars
  BY <1>6 DEF vars, ListInv, TypeOK, QueueSorted, ProbationQueueBounded
<1> QED
  BY <1>1, <1>2, <1>3, <1>4, <1>5, <1>6 DEF Next

\* Every reachable state satisfies the invariant: every packet that arrives and
\* every call of the application preserves it.
LEMMA ListInvariant == Spec => []ListInv
  BY InitKeeps, ListStep, PTL DEF Spec

\* The packets that wait for the application are strictly sorted by sequence
\* number (RTPInternalSourceData::ProcessRTPPacket, GetNextPacket).
THEOREM QueueSafe == Spec => []QueueSorted
  BY ListInvariant, PTL DEF ListInv

\* A source on probation never has more than MAXPROBATIONPACKETS packets.
THEOREM ProbationBoundSafe == Spec => []ProbationQueueBounded
  BY ListInvariant, PTL DEF ListInv

-----------------------------------------------------------------------------
(* Arithmetic of sequence numbers *)

\* A number is a multiple of the divisor and its remainder.
LEMMA Division ==
  ASSUME NEW a \in Int, NEW m \in Nat, m > 0
  PROVE  /\ a \div m \in Int
         /\ a = m * (a \div m) + (a % m)
<1>1. a \div m \in Int
  OBVIOUS
<1>2. a = m * (a \div m) + (a % m)
  OBVIOUS
<1> QED
  BY <1>1, <1>2

LEMMA Remainder ==
  ASSUME NEW m \in Nat, m > 0, NEW q \in Int, NEW r \in 0..m - 1, NEW a \in Int,
         a = m * q + r
  PROVE  a % m = r
  OBVIOUS

\* Whether n comes after l can be seen from the remainders when the two lie
\* less than the divisor apart.
LEMMA NextNumber ==
  ASSUME NEW m \in Nat, m > 0, NEW n \in Int, NEW l \in Int,
         n - (l + 1) < m, (l + 1) - n < m
  PROVE  n % m = ((l % m) + 1) % m <=> n = l + 1
<1> DEFINE r == (l % m) + 1
<1>1. l = m * (l \div m) + (l % m) /\ l \div m \in Int /\ l % m \in 0..m - 1
  BY Division, ModRange
<1>2. r \in Int
  BY <1>1
<1>3. r = m * (r \div m) + (r % m) /\ r \div m \in Int /\ r % m \in 0..m - 1
  BY <1>2, Division, ModRange
<1>4. n = m * (n \div m) + (n % m) /\ n \div m \in Int /\ n % m \in 0..m - 1
  BY Division, ModRange
<1>5. l + 1 = m * ((l \div m) + (r \div m)) + (r % m)
  BY <1>1, <1>3
<1> DEFINE k == (n \div m) - ((l \div m) + (r \div m))
<1>6. k \in Int /\ n - (l + 1) = m * k + ((n % m) - (r % m))
  BY <1>1, <1>3, <1>4, <1>5
<1>7. ASSUME n % m = r % m
      PROVE  n = l + 1
  <2>1. m * k < m /\ -m < m * k
    BY <1>6, <1>7
  <2> HIDE DEF k
  <2>2. k = 0
    BY <1>6, <2>1
  <2> QED
    BY <1>3, <1>4, <1>6, <1>7, <2>2
<1>8. ASSUME n = l + 1
      PROVE  n % m = r % m
  <2> DEFINE q == (l \div m) + (r \div m)
             z == r % m
  <2>1. q \in Int /\ z \in 0..m - 1 /\ n = m * q + z
    BY <1>1, <1>3, <1>5, <1>8
  <2> HIDE DEF q, z
  <2>2. n % m = z
    BY <2>1, Remainder
  <2> QED
    BY <2>2 DEF z
<1> QED
  BY <1>7, <1>8

-----------------------------------------------------------------------------
(* Probation *)

\* The inductive invariant.  What the statistics remember of the last packet is
\* its number modulo SeqMod; the network does not let two numbers that look
\* alike arrive next to each other.
ProbationInv ==
  /\ ListInv
  /\ ProbationExact
  /\ ~validated => run <= PROBATIONCOUNT
  /\ ~validated =>
       IF run = 0 THEN top = -1
       ELSE /\ last \in 0..top /\ top - Late <= last
            /\ stats.prevseqnr = last % SeqMod

\* A step that leaves the statistics of probation and the history alone.
LEMMA ProbationFrame ==
  ASSUME ProbationInv, ListInv', UNCHANGED <<top, last, run>>,
         validated => validated',
         stats'.sentdata = stats.sentdata, stats'.probation = stats.probation,
         stats'.prevseqnr = stats.prevseqnr
  PROVE  ProbationInv'
  BY DEF ProbationInv, ProbationExact, ListInv, TypeOK

LEMMA ArriveKeepsProbation ==
  ASSUME NEW n \in 0..MaxNo, NEW handled \in BOOLEAN, ProbationInv, Arrive(n, handled)
  PROVE  ProbationInv'
<1> DEFINE s == n % SeqMod
           applies == ~validated /\ probationtype # "NoProbation"
           new == ProcessPacket(stats, s, applies)
<1>1. /\ stats' = new
      /\ validated' = (validated \/ new.sentdata)
      /\ top' = IF n > top THEN n ELSE top
      /\ ~validated' =>
           last' = n /\ run' = IF run > 0 /\ n = last + 1 THEN run + 1 ELSE 1
      /\ top = -1 \/ n \in (top - Late + 1)..(top + Gap)
  BY DEF Arrive, ProcessRTPPacket
<1>2. /\ n \in Nat /\ top \in Int /\ last \in Int /\ run \in Nat
      /\ Late \in Nat /\ Gap \in Nat /\ SeqMod \in Nat /\ SeqMod > 1
      /\ Gap + Late <= SeqMod /\ Gap > 0
      /\ stats \in Stats /\ validated \in BOOLEAN
  BY NetworkAssumption, SeqAssumption DEF ProbationInv, ListInv, TypeOK
<1>3. s \in Seq16 /\ PROBATIONCOUNT \in Nat \ {0}
  BY <1>2, ModRange, ProbationAssumption DEF Seq16
<1>4. ListInv'
  BY ArriveKeeps DEF ProbationInv
<1> HIDE DEF s
<1>5. new.sentdata \in BOOLEAN /\ (stats.sentdata => new.sentdata)
  <2>1. new \in Stats
    BY <1>2, <1>3, ProcessPacketType
  <2> QED
    BY <1>2, <2>1 DEF ProcessPacket, AcceptNext, Stats
<1>6. ASSUME ~validated'
      PROVE  /\ new.probation = PROBATIONCOUNT + 1 - run'
             /\ new.prevseqnr = s
             /\ run' \in 1..PROBATIONCOUNT
             /\ last' = n /\ n \in 0..top' /\ top' - Late <= n
  <2>1. ~validated /\ ~new.sentdata /\ ~stats.sentdata
    BY <1>1, <1>2, <1>5, <1>6
  <2>2. new = Probe(stats, s)
    BY <1>2, <1>3, <2>1 DEF ProcessPacket, AcceptFirst, Stats
  <2>3. /\ new.probation = ProbationLeft(stats, s) /\ new.probation # 0
        /\ new.prevseqnr = s
    BY <1>2, <2>1, <2>2 DEF Probe, AcceptFirst, Stats
  <2>4. /\ stats.probation = IF run = 0 THEN 0 ELSE PROBATIONCOUNT + 1 - run
        /\ run <= PROBATIONCOUNT
        /\ run > 0 => /\ stats.prevseqnr = last % SeqMod
                      /\ last \in 0..top /\ top - Late <= last
    BY <2>1 DEF ProbationInv, ProbationExact
  <2>5. n \in 0..top' /\ top' - Late <= n /\ last' = n
    BY <1>1, <1>2, <1>6
  <2>6. CASE run = 0
    BY <1>1, <1>2, <1>3, <1>6, <2>3, <2>4, <2>5, <2>6 DEF ProbationLeft
  <2>7. CASE run > 0
    <3>1. n \in (top - Late + 1)..(top + Gap)
      BY <1>1, <1>2, <2>4, <2>7
    <3>2. s = (stats.prevseqnr + 1) % SeqMod <=> n = last + 1
      BY <1>2, <2>4, <2>7, <3>1, NextNumber DEF s
    <3>3. stats.probation > 0
      BY <1>2, <1>3, <2>4, <2>7
    <3>4. new.probation = IF n = last + 1 THEN stats.probation - 1 ELSE PROBATIONCOUNT
      BY <2>3, <3>2, <3>3 DEF ProbationLeft
    <3> QED
      BY <1>1, <1>2, <1>3, <1>6, <2>3, <2>4, <2>5, <2>7, <3>4
  <2> QED
    BY <1>2, <2>6, <2>7
<1> HIDE DEF new
<1>7. ProbationExact'
  BY <1>1, <1>5, <1>6 DEF ProbationExact, ProbationInv
<1> QED
  BY <1>1, <1>2, <1>4, <1>6, <1>7 DEF ProbationInv, s

LEMMA ProbationInvariant == Spec => []ProbationInv
<1>1. Init => ProbationInv
  <2> SUFFICES ASSUME Init PROVE ProbationInv
    OBVIOUS
  <2>1. ListInv
    BY InitKeeps
  <2>2. /\ run = 0 /\ top = -1 /\ validated = FALSE /\ PROBATIONCOUNT \in Nat
        /\ stats.probation = 0 /\ stats.sentdata = FALSE
    BY ProbationAssumption DEF Init, NewStats
  <2> QED
    BY <2>1, <2>2 DEF ProbationInv, ProbationExact
<1>2. ProbationInv /\ [Next]_vars => ProbationInv'
  <2> SUFFICES ASSUME ProbationInv, [Next]_vars PROVE ProbationInv'
    OBVIOUS
  <2>1. ListInv /\ ListInv'
    BY ListStep DEF ProbationInv
  <2>2. CASE \E n \in 0..MaxNo, handled \in BOOLEAN : Arrive(n, handled)
    BY <2>2, ArriveKeepsProbation
  <2>3. CASE StartNewInterval
    <3>1. /\ stats'.sentdata = stats.sentdata /\ stats'.probation = stats.probation
          /\ stats'.prevseqnr = stats.prevseqnr
          /\ UNCHANGED <<top, last, run, validated>>
      BY <2>1, <2>3 DEF StartNewInterval, ListInv, TypeOK, Stats
    <3> QED
      BY <2>1, <3>1, ProbationFrame
  <2>4. CASE ProcessCNAME \/ GetNextPacket \/ FlushPackets \/ UNCHANGED vars
    BY <2>1, <2>4, ProbationFrame
       DEF ProcessCNAME, GetNextPacket, FlushPackets, vars
  <2> QED
    BY <2>2, <2>3, <2>4 DEF Next
<1> QED
  BY <1>1, <1>2, PTL DEF Spec

\* A source is on probation until PROBATIONCOUNT packets directly followed the
\* one before, whatever is lost, late, duplicated or validated otherwise, and
\* wherever in the sequence numbers that happens.
THEOREM ProbationSafe == Spec => []ProbationExact
  BY ProbationInvariant, PTL DEF ProbationInv

-----------------------------------------------------------------------------
(* Congruence *)

Cong(a, b, m) == \E q \in Int : a = b + m * q

LEMMA CongTrans ==
  ASSUME NEW m \in Nat, NEW a \in Int, NEW b \in Int, NEW c \in Int,
         Cong(a, b, m), Cong(b, c, m)
  PROVE  Cong(a, c, m)
<1>1. PICK q \in Int : a = b + m * q
  BY DEF Cong
<1>2. PICK r \in Int : b = c + m * r
  BY DEF Cong
<1>3. q + r \in Int /\ a = c + m * (q + r)
  BY <1>1, <1>2
<1> QED
  BY <1>3 DEF Cong

\* Both numbers moved by the same distance.
LEMMA CongShift ==
  ASSUME NEW m \in Nat, NEW a \in Int, NEW b \in Int, NEW x \in Int, NEW y \in Int,
         Cong(a, b, m), x - a = y - b
  PROVE  Cong(x, y, m)
<1>1. PICK q \in Int : a = b + m * q
  BY DEF Cong
<1>2. x = y + m * q
  BY <1>1
<1> QED
  BY <1>2 DEF Cong

LEMMA CongSym ==
  ASSUME NEW m \in Nat, NEW a \in Int, NEW b \in Int, Cong(a, b, m)
  PROVE  Cong(b, a, m)
<1>1. PICK q \in Int : a = b + m * q
  BY DEF Cong
<1>2. -q \in Int /\ b = a + m * (-q)
  BY <1>1
<1> QED
  BY <1>2 DEF Cong

LEMMA CongSelf ==
  ASSUME NEW m \in Nat, NEW a \in Int
  PROVE  Cong(a, a, m)
<1>1. 0 \in Int /\ a = a + m * 0
  OBVIOUS
<1> QED
  BY <1>1 DEF Cong

LEMMA CongMod ==
  ASSUME NEW m \in Nat, m > 0, NEW a \in Int
  PROVE  Cong(a % m, a, m) /\ Cong(a, a % m, m)
<1>1. a \div m \in Int /\ a = m * (a \div m) + (a % m) /\ a % m \in Int
  BY Division, ModRange
<1>2. Cong(a, a % m, m)
  BY <1>1 DEF Cong
<1> QED
  BY <1>1, <1>2, CongSym

\* Equal remainders, from numbers that differ by a multiple.
LEMMA CongRemainder ==
  ASSUME NEW m \in Nat, NEW a \in Int, NEW r \in Int, 0 <= r, r < m, Cong(a, r, m)
  PROVE  a % m = r
<1>1. PICK q \in Int : a = r + m * q
  BY DEF Cong
<1>2. a = m * q + r /\ r \in 0..m - 1 /\ m > 0
  BY <1>1
<1> QED
  BY ZenonT(60), <1>2, Remainder

\* Modulo the wider counter means modulo the narrower one.
LEMMA CongNarrow ==
  ASSUME NEW a \in Int, NEW b \in Int, Cong(a, b, ExtMod)
  PROVE  Cong(a, b, SeqMod)
<1>1. /\ SeqMod \in Nat /\ SeqMod > 0 /\ ExtMod \in Nat
      /\ ExtMod % SeqMod = 0
  BY SeqAssumption
<1>2. ExtMod \div SeqMod \in Int /\ ExtMod = SeqMod * (ExtMod \div SeqMod)
  BY <1>1, Division
<1> DEFINE k == ExtMod \div SeqMod
<1>3. PICK q \in Int : a = b + ExtMod * q
  BY DEF Cong
<1> HIDE DEF k
<1>4. k \in Int /\ ExtMod = SeqMod * k
  BY <1>2 DEF k
<1>5. k * q \in Int /\ a = b + SeqMod * (k * q)
  BY <1>1, <1>3, <1>4
<1> QED
  BY <1>5 DEF Cong

-----------------------------------------------------------------------------
(* The numbers expected *)

\* Packets are lost and late by fewer than half of the sequence numbers.
ShortGaps == 2 * Gap < SeqMod /\ 2 * Late <= SeqMod

\* How the statistics stand to the packets numbered first to top.
Tracks(st, high, first, before) ==
  /\ high \in Nat
  /\ st.exthighseqnr % SeqMod = high % SeqMod
  /\ Cong(st.numcycles, 0, SeqMod)
  /\ Cong(st.exthighseqnr, st.numcycles + (high % SeqMod), ExtMod)
  /\ Cong(st.exthighseqnr, st.baseseqnr + 1 + (high - first), ExtMod)
  /\ Cong(st.exthighseqnr, st.savedextseqnr + (high - before), ExtMod)

\* Every packet of an interval is one that was expected in it.
Counts(st, high, before) ==
  /\ st.numnewpackets <= high - before
  /\ high - before <= Gap * st.numnewpackets

\* The inductive invariant: the extended sequence number is the packet number
\* but for a constant, whatever was lost.
SteadyInv ==
  /\ ListInv
  /\ inorder => steady
  /\ ~stats.sentdata => stats.numcycles = 0 /\ stats.numnewpackets = 0
  /\ steady /\ stats.sentdata => Tracks(stats, top, base, saved)
  /\ inorder /\ stats.sentdata => Counts(stats, top, saved)

LEMMA AcceptFirstTracks ==
  ASSUME NEW st \in Stats, NEW n \in Nat, st.numcycles = 0, st.numnewpackets = 0
  PROVE  /\ AcceptFirst(st, n % SeqMod).sentdata
         /\ Tracks(AcceptFirst(st, n % SeqMod), n, n, n - 1)
         /\ Counts(AcceptFirst(st, n % SeqMod), n, n - 1)
<1> DEFINE s == n % SeqMod
           b == (s - 1) % SeqMod
           e == AcceptFirst(st, s)
<1>1. /\ SeqMod \in Nat /\ SeqMod > 1 /\ ExtMod \in Nat /\ ExtMod > 1
      /\ Gap \in Nat /\ Gap > 0
  BY SeqAssumption, NetworkAssumption
<1>2. s \in 0..SeqMod - 1
  BY <1>1, ModRange
<1>3. b = IF s = 0 THEN SeqMod - 1 ELSE s - 1
  <2>1. CASE s = 0
    <3>1. -1 = SeqMod * (-1) + (SeqMod - 1)
      BY <1>1
    <3> QED
      BY <1>1, <2>1, <3>1, Remainder
  <2>2. CASE s # 0
    <3>1. s - 1 = SeqMod * 0 + (s - 1) /\ s - 1 \in 0..SeqMod - 1
      BY <1>1, <1>2, <2>2
    <3> HIDE DEF s
    <3> QED
      BY <1>1, <2>2, <3>1, Remainder
  <2> QED
    BY <2>1, <2>2
<1> HIDE DEF s, b
<1>4. /\ e.sentdata /\ e.numnewpackets = 1 /\ e.baseseqnr = b
      /\ e.exthighseqnr = b + 1 /\ e.savedextseqnr = b
      /\ e.numcycles = IF s = 0 THEN SeqMod ELSE 0
  BY <1>1 DEF AcceptFirst, Stats, b
<1> HIDE DEF e
<1>5. e.exthighseqnr = e.numcycles + s
  BY <1>1, <1>2, <1>3, <1>4
<1>6. /\ e.numcycles \in Int /\ e.exthighseqnr \in Int /\ e.savedextseqnr \in Int
      /\ e.baseseqnr \in Int
  BY <1>1, <1>2, <1>3, <1>4
<1>7. Cong(e.numcycles, 0, SeqMod)
  <2>1. SeqMod = 0 + SeqMod * 1 /\ 0 = 0 + SeqMod * 0
    BY <1>1
  <2> QED
    BY <1>4, <2>1 DEF Cong
<1>8. e.exthighseqnr % SeqMod = s
  <2>1. s \in Int /\ e.exthighseqnr - e.numcycles = s - 0
    BY <1>2, <1>5, <1>6
  <2>2. Cong(e.exthighseqnr, s, SeqMod)
    BY <1>1, <1>6, <1>7, <2>1, CongShift
  <2> QED
    BY <1>1, <1>2, <1>6, <2>2, CongRemainder
<1>9. /\ e.exthighseqnr = e.baseseqnr + 1 + (n - n)
      /\ e.exthighseqnr = e.savedextseqnr + (n - (n - 1))
      /\ n - (n - 1) = 1 /\ 1 <= Gap * 1
  BY <1>1, <1>4, <1>6
<1>10. Cong(e.exthighseqnr, e.exthighseqnr, ExtMod)
  BY <1>1, <1>6, CongSelf
<1>11. Tracks(e, n, n, n - 1) /\ Counts(e, n, n - 1)
  BY <1>4, <1>5, <1>7, <1>8, <1>9, <1>10 DEF Tracks, Counts, s
<1> QED
  BY <1>4, <1>11 DEF e, s

\* A packet with a higher number, of this cycle or the next.
LEMMA AcceptNextTracks ==
  ASSUME ShortGaps, NEW st \in Stats, NEW high \in Int, NEW first \in Int,
         NEW before \in Int, NEW n \in (high + 1)..(high + Gap),
         Tracks(st, high, first, before)
  PROVE  Tracks(AcceptNext(st, n % SeqMod), n, first, before)
<1> DEFINE s == n % SeqMod
           h == high % SeqMod
           d == n - high
           c == Cycles(st, s)
           e == AcceptNext(st, s)
           x == st.exthighseqnr
<1>1. /\ SeqMod \in Nat /\ SeqMod > 1 /\ ExtMod \in Nat /\ ExtMod > 1
      /\ Gap \in Nat /\ Gap > 0 /\ 2 * Gap < SeqMod
      /\ high \in Nat
  BY SeqAssumption, NetworkAssumption DEF ShortGaps, Tracks
<1>2. n \in Nat /\ d \in 1..Gap
  BY <1>1
<1>3. /\ s \in 0..SeqMod - 1 /\ h \in 0..SeqMod - 1
      /\ high \div SeqMod \in Int /\ high = SeqMod * (high \div SeqMod) + h
  BY <1>1, <1>2, Division, ModRange
<1>4. High16(st) = h /\ x \in Int /\ st.numcycles \in Int
      /\ st.baseseqnr \in Int /\ st.savedextseqnr \in Int /\ st.numnewpackets \in Nat
  BY <1>1 DEF High16, Tracks, Stats, Seq16
<1>5. s = IF h + d < SeqMod THEN h + d ELSE h + d - SeqMod
  <2> DEFINE q == high \div SeqMod
  <2>1. q \in Int /\ high = SeqMod * q + h
    BY <1>3
  <2> HIDE DEF q, h
  <2>2. CASE h + d < SeqMod
    <3>1. n = SeqMod * q + (h + d) /\ h + d \in 0..SeqMod - 1
      BY <1>1, <1>2, <1>3, <2>1, <2>2
    <3> DEFINE r == h + d
    <3> HIDE DEF r
    <3>2. n % SeqMod = r
      BY <1>1, <1>2, <2>1, <3>1, Remainder DEF r
    <3> QED
      BY <2>2, <3>2 DEF r
  <2>3. CASE h + d >= SeqMod
    <3>1. /\ n = SeqMod * (q + 1) + (h + d - SeqMod)
          /\ h + d - SeqMod \in 0..SeqMod - 1 /\ q + 1 \in Int
      BY <1>1, <1>2, <1>3, <2>1, <2>3
    <3> DEFINE r == h + d - SeqMod
               k == q + 1
    <3>2. n = SeqMod * k + r /\ r \in 0..SeqMod - 1 /\ k \in Int
      BY <3>1
    <3> HIDE DEF r, k
    <3>3. n % SeqMod = r
      BY <1>1, <1>2, <3>2, Remainder
    <3> QED
      BY <1>1, <1>2, <1>3, <2>3, <3>3 DEF r
  <2> QED
    BY <1>1, <1>2, <1>3, <2>2, <2>3
<1> HIDE DEF s, h, d
<1>6. NextCycle(st, s) <=> s < h
  <2>1. ASSUME s < h
        PROVE  (s - h) % SeqMod < (h - s) % SeqMod
    <3>1. s = h + d - SeqMod
      BY <1>1, <1>2, <1>3, <1>5, <2>1
    <3>2. s - h = SeqMod * (-1) + d /\ d \in 0..SeqMod - 1
      BY <1>1, <1>2, <1>3, <3>1
    <3>3. (s - h) % SeqMod = d
      BY <1>1, <1>3, <3>2, Remainder
    <3>4. h - s = SeqMod * 0 + (SeqMod - d) /\ SeqMod - d \in 0..SeqMod - 1
      BY <1>1, <1>2, <1>3, <3>1
    <3>5. (h - s) % SeqMod = SeqMod - d
      BY <1>1, <1>3, <3>4, Remainder
    <3> QED
      BY <1>1, <1>2, <3>3, <3>5
  <2> QED
    BY <1>4, <2>1 DEF NextCycle
<1>7. /\ e.exthighseqnr = (c + s) % ExtMod /\ e.numcycles = c
      /\ e.numnewpackets = st.numnewpackets + 1
      /\ e.baseseqnr = st.baseseqnr /\ e.savedextseqnr = st.savedextseqnr
  <2>1. s >= High16(st) \/ NextCycle(st, s)
    BY <1>3, <1>4, <1>6
  <2> QED
    BY <2>1 DEF AcceptNext, Stats, Extended
<1>8. c = IF s < h THEN (st.numcycles + SeqMod) % ExtMod ELSE st.numcycles
  BY <1>6 DEF Cycles
<1> DEFINE w == IF s < h THEN SeqMod ELSE 0
           u == st.numcycles + w
           v == c + s
           y == st.numcycles + h
<1>9. /\ c \in Int /\ w \in Int /\ u \in Int /\ v \in Int /\ y \in Int
      /\ Cong(c, u, ExtMod)
      /\ w + s = h + d
  <2>1. CASE s < h
    <3>1. st.numcycles + SeqMod \in Int /\ w = SeqMod
      BY <1>1, <1>4, <2>1
    <3>2. c = u % ExtMod /\ u \in Int
      BY <1>8, <2>1, <3>1
    <3>3. w + s = h + d
      BY <1>1, <1>2, <1>3, <1>5, <2>1, <3>1
    <3>4. v \in Int /\ y \in Int /\ c \in Int
      BY <1>1, <1>3, <1>4, <3>2, ModRange
    <3> HIDE DEF c, u, v, y, w
    <3> QED
      BY <1>1, <3>1, <3>2, <3>3, <3>4, CongMod
  <2>2. CASE ~(s < h)
    <3>1. w = 0 /\ c = u /\ u \in Int /\ v \in Int /\ y \in Int
      BY <1>3, <1>4, <1>8, <2>2
    <3>2. w + s = h + d
      BY <1>1, <1>2, <1>3, <1>5, <2>2, <3>1
    <3> HIDE DEF c, u, v, y, w
    <3> QED
      BY <1>1, <3>1, <3>2, CongSelf
  <2> QED
    BY <2>1, <2>2
<1>10. /\ u - w = st.numcycles - 0 /\ v - c = s - 0
       /\ u - st.numcycles = w - 0
  BY <1>2, <1>3, <1>4, <1>9
<1>11. /\ Cong(st.numcycles, 0, SeqMod)
       /\ Cong(x, y, ExtMod)
  BY DEF Tracks, h
<1> HIDE DEF c, e, u, v, w, x, y
<1>12. Cong(c, 0, SeqMod)
  <2>1. Cong(w, 0, SeqMod)
    <3>1. SeqMod = 0 + SeqMod * 1 /\ 0 = 0 + SeqMod * 0
      BY <1>1
    <3> QED
      BY <3>1 DEF Cong, w
  <2>2. Cong(u, w, SeqMod)
    <3>1. PICK q \in Int : st.numcycles = 0 + SeqMod * q
      BY <1>11 DEF Cong
    <3>2. u = w + SeqMod * q
      BY <1>1, <1>4, <1>9, <1>10, <3>1
    <3> QED
      BY <3>2 DEF Cong
  <2>3. Cong(c, u, SeqMod)
    BY <1>9, CongNarrow
  <2>4. Cong(c, w, SeqMod)
    BY <1>1, <1>9, <2>2, <2>3, CongTrans
  <2> QED
    BY <1>1, <1>9, <2>1, <2>4, CongTrans
<1>13. /\ e.exthighseqnr \in Int
       /\ Cong(e.exthighseqnr, v, ExtMod)
       /\ e.exthighseqnr % SeqMod = s
  <2>1. e.exthighseqnr = v % ExtMod
    BY <1>7 DEF v
  <2>2. e.exthighseqnr \in Int /\ Cong(e.exthighseqnr, v, ExtMod)
    BY <1>1, <1>9, <2>1, CongMod, ModRange
  <2>3. Cong(e.exthighseqnr, v, SeqMod)
    BY <1>9, <2>2, CongNarrow
  <2>4. Cong(v, s, SeqMod)
    BY <1>1, <1>3, <1>9, <1>10, <1>12, CongShift
  <2>5. Cong(e.exthighseqnr, s, SeqMod)
    BY <1>1, <1>3, <1>9, <2>2, <2>3, <2>4, CongTrans
  <2>6. s \in Int /\ 0 <= s /\ s < SeqMod
    BY <1>1, <1>3
  <2>7. e.exthighseqnr % SeqMod = s
    BY <1>1, <2>2, <2>5, <2>6, CongRemainder
  <2> QED
    BY <2>2, <2>7
<1>14. ASSUME NEW a \in Int, NEW b \in Int, Cong(x, a, ExtMod), b = a + d
       PROVE  Cong(e.exthighseqnr, b, ExtMod)
  <2>1. Cong(y, x, ExtMod)
    BY <1>1, <1>4, <1>9, <1>11, CongSym
  <2>2. Cong(y, a, ExtMod)
    BY <1>1, <1>4, <1>9, <1>14, <2>1, CongTrans
  <2> DEFINE z == u + s
  <2>3. z \in Int /\ z - y = b - a /\ z - u = v - c
    <3>1. u = st.numcycles + w /\ y = st.numcycles + h /\ v = c + s
      BY DEF u, v, y
    <3> QED
      BY <1>2, <1>3, <1>4, <1>9, <1>14, <3>1
  <2> HIDE DEF z
  <2>4. Cong(z, b, ExtMod)
    BY <1>1, <1>9, <1>14, <2>2, <2>3, CongShift
  <2>5. Cong(v, z, ExtMod)
    <3>1. v - c = z - u
      BY <1>9, <2>3
    <3> QED
      BY <1>1, <1>9, <2>3, <3>1, CongShift
  <2>6. Cong(v, b, ExtMod)
    BY <1>1, <1>9, <1>14, <2>3, <2>4, <2>5, CongTrans
  <2> QED
    BY <1>1, <1>9, <1>13, <1>14, <2>6, CongTrans
<1>15. Cong(e.exthighseqnr, e.baseseqnr + 1 + (n - first), ExtMod)
  <2> DEFINE a == st.baseseqnr + 1 + (high - first)
             b == e.baseseqnr + 1 + (n - first)
  <2>1. a \in Int /\ b \in Int /\ b = a + d
    BY <1>1, <1>2, <1>4, <1>7 DEF d
  <2>2. Cong(x, a, ExtMod)
    BY DEF Tracks, x
  <2> HIDE DEF a, b
  <2>3. Cong(e.exthighseqnr, b, ExtMod)
    BY <1>14, <2>1, <2>2
  <2> QED
    BY <2>3 DEF b
<1>16. Cong(e.exthighseqnr, e.savedextseqnr + (n - before), ExtMod)
  <2> DEFINE a == st.savedextseqnr + (high - before)
             b == e.savedextseqnr + (n - before)
  <2>1. a \in Int /\ b \in Int /\ b = a + d
    BY <1>1, <1>2, <1>4, <1>7 DEF d
  <2>2. Cong(x, a, ExtMod)
    BY DEF Tracks, x
  <2> HIDE DEF a, b
  <2>3. Cong(e.exthighseqnr, b, ExtMod)
    BY <1>14, <2>1, <2>2
  <2> QED
    BY <2>3 DEF b
<1>17. Tracks(e, n, first, before)
  <2>1. Cong(e.exthighseqnr, e.numcycles + s, ExtMod) /\ Cong(e.numcycles, 0, SeqMod)
    BY <1>7, <1>12, <1>13 DEF v
  <2> QED
    BY <1>2, <1>13, <1>15, <1>16, <2>1 DEF Tracks, s
<1> QED
  BY <1>17 DEF e, s

LEMMA AcceptNextCounts ==
  ASSUME NEW st \in Stats, NEW high \in Int, NEW before \in Int, NEW s \in Seq16,
         NEW n \in (high + 1)..(high + Gap), Counts(st, high, before)
  PROVE  Counts(AcceptNext(st, s), n, before)
<1>1. /\ AcceptNext(st, s).numnewpackets = st.numnewpackets + 1
      /\ st.numnewpackets \in Nat /\ Gap \in Nat
  BY NetworkAssumption DEF AcceptNext, Stats
<1>2. Gap * (st.numnewpackets + 1) = Gap * st.numnewpackets + Gap
  BY <1>1
<1>3. Gap * st.numnewpackets \in Int
  BY <1>1
<1> QED
  BY <1>1, <1>2, <1>3 DEF Counts

\* A packet that is late or came again, of the same cycle as the highest.
LEMMA AcceptLateTracks ==
  ASSUME ShortGaps, NEW st \in Stats, NEW high \in Int, NEW first \in Int,
         NEW before \in Int, NEW n \in Nat, n <= high, high - n < Late,
         SameCycle(n, high), Tracks(st, high, first, before)
  PROVE  Tracks(AcceptNext(st, n % SeqMod), high, first, before)
<1> DEFINE s == n % SeqMod
           h == high % SeqMod
           d == high - n
           e == AcceptNext(st, s)
           x == st.exthighseqnr
           y == st.numcycles + h
<1>1. /\ SeqMod \in Nat /\ SeqMod > 1 /\ ExtMod \in Nat /\ ExtMod > 1
      /\ Late \in Nat /\ 2 * Late <= SeqMod /\ high \in Nat
  BY SeqAssumption, NetworkAssumption DEF ShortGaps, Tracks
<1>2. d \in Nat /\ 2 * d < SeqMod
  BY <1>1
<1>3. /\ s \in 0..SeqMod - 1 /\ h \in 0..SeqMod - 1
      /\ s = h - d
  <2>1. /\ s \in 0..SeqMod - 1 /\ h \in 0..SeqMod - 1
        /\ high = SeqMod * (high \div SeqMod) + h
        /\ n = SeqMod * (n \div SeqMod) + s
        /\ n \div SeqMod = high \div SeqMod /\ high \div SeqMod \in Int
    BY <1>1, Division, ModRange DEF SameCycle
  <2> DEFINE q == SeqMod * (high \div SeqMod)
  <2>2. q \in Int /\ high = q + h /\ n = q + s
    BY <1>1, <2>1
  <2> HIDE DEF q, s, h
  <2> QED
    BY <1>1, <2>1, <2>2
<1>4. High16(st) = h /\ x \in Int /\ st.numcycles \in Int
      /\ st.baseseqnr \in Int /\ st.savedextseqnr \in Int /\ y \in Int
  BY <1>1, <1>3 DEF High16, Tracks, Stats, Seq16
<1> HIDE DEF s, h, d
<1>5. ~NextCycle(st, s)
  <2>1. ASSUME s < h
        PROVE  ~((s - h) % SeqMod < (h - s) % SeqMod)
    <3>1. s - h = SeqMod * (-1) + (SeqMod - d) /\ SeqMod - d \in 0..SeqMod - 1
      BY <1>1, <1>2, <1>3, <2>1
    <3>2. (s - h) % SeqMod = SeqMod - d
      BY <1>1, <1>3, <3>1, Remainder
    <3>3. h - s = SeqMod * 0 + d /\ d \in 0..SeqMod - 1
      BY <1>1, <1>2, <1>3
    <3>4. (h - s) % SeqMod = d
      BY <1>1, <1>3, <3>3, Remainder
    <3> QED
      BY <1>1, <1>2, <3>2, <3>4
  <2> QED
    BY <1>4, <2>1 DEF NextCycle
<1>6. /\ e.numcycles = st.numcycles
      /\ e.baseseqnr = st.baseseqnr /\ e.savedextseqnr = st.savedextseqnr
      /\ e.exthighseqnr = IF s >= h THEN y % ExtMod ELSE x
  <2>1. s >= h => s = h
    BY <1>2, <1>3
  <2> QED
    BY <1>4, <1>5, <2>1 DEF AcceptNext, Cycles, Extended, Stats
<1>7. /\ Cong(st.numcycles, 0, SeqMod) /\ Cong(x, y, ExtMod) /\ x % SeqMod = h
  BY DEF Tracks, h
<1> HIDE DEF e, x
<1>8. /\ e.exthighseqnr \in Int
      /\ Cong(e.exthighseqnr, x, ExtMod)
      /\ e.exthighseqnr % SeqMod = h
  <2>1. CASE s >= h
    <3> HIDE DEF y
    <3>1. e.exthighseqnr \in Int /\ Cong(e.exthighseqnr, y, ExtMod)
      BY <1>1, <1>4, <1>6, <2>1, CongMod, ModRange
    <3>2. Cong(y, x, ExtMod)
      BY <1>1, <1>4, <1>7, CongSym
    <3>3. Cong(e.exthighseqnr, x, ExtMod)
      BY <1>1, <1>4, <3>1, <3>2, CongTrans
    <3>4. Cong(e.exthighseqnr, y, SeqMod)
      BY <1>4, <3>1, CongNarrow
    <3>5. y - st.numcycles = h - 0 /\ h \in Int /\ 0 \in Int
      BY <1>3, <1>4 DEF y
    <3>6. Cong(y, h, SeqMod)
      BY <1>1, <1>4, <1>7, <3>5, CongShift
    <3>7. Cong(e.exthighseqnr, h, SeqMod)
      BY <1>1, <1>4, <3>1, <3>4, <3>5, <3>6, CongTrans
    <3>8. 0 <= h /\ h < SeqMod
      BY <1>1, <1>3
    <3>9. e.exthighseqnr % SeqMod = h
      BY <1>1, <3>1, <3>5, <3>7, <3>8, CongRemainder
    <3> QED
      BY <3>1, <3>3, <3>9
  <2>2. CASE ~(s >= h)
    BY <1>1, <1>4, <1>6, <1>7, <2>2, CongSelf
  <2> QED
    BY <2>1, <2>2
<1>9. ASSUME NEW a \in Int, Cong(x, a, ExtMod)
      PROVE  Cong(e.exthighseqnr, a, ExtMod)
  BY <1>1, <1>4, <1>8, <1>9, CongTrans
<1> DEFINE b == st.baseseqnr + 1 + (high - first)
           c == st.savedextseqnr + (high - before)
<1>10. b \in Int /\ c \in Int /\ Cong(x, b, ExtMod) /\ Cong(x, c, ExtMod)
  BY <1>1, <1>4 DEF Tracks, x
<1> HIDE DEF b, c, y
<1>11. /\ Cong(e.exthighseqnr, b, ExtMod) /\ Cong(e.exthighseqnr, c, ExtMod)
       /\ Cong(e.exthighseqnr, y, ExtMod)
  BY <1>4, <1>7, <1>9, <1>10
<1>12. Tracks(e, high, first, before)
  BY <1>1, <1>6, <1>7, <1>8, <1>11 DEF Tracks, b, c, y, h
<1> QED
  BY <1>12 DEF e, s

LEMMA ArriveKeepsSteady ==
  ASSUME ShortGaps, SteadyInv,
         NEW n \in 0..MaxNo, NEW handled \in BOOLEAN, Arrive(n, handled)
  PROVE  SteadyInv'
<1> DEFINE s == n % SeqMod
           applies == ~validated /\ probationtype # "NoProbation"
           new == ProcessPacket(stats, s, applies)
<1>1. /\ stats' = new
      /\ top' = IF n > top THEN n ELSE top
      /\ base' = IF new.sentdata /\ ~stats.sentdata THEN n ELSE base
      /\ saved' = IF new.sentdata /\ ~stats.sentdata THEN n - 1 ELSE saved
      /\ inorder' = (inorder /\ n > top)
      /\ steady' = (steady /\ (n > top \/ (stats.sentdata /\ SameCycle(n, top))))
      /\ top = -1 \/ n \in (top - Late + 1)..(top + Gap)
  BY DEF Arrive, ProcessRTPPacket
<1>2. /\ n \in Nat /\ top \in Int /\ base \in Int /\ saved \in Int
      /\ Late \in Nat /\ Gap \in Nat /\ SeqMod \in Nat /\ SeqMod > 1
      /\ stats \in Stats /\ inorder \in BOOLEAN /\ steady \in BOOLEAN
  BY NetworkAssumption, SeqAssumption DEF SteadyInv, ListInv, TypeOK
<1>3. s \in Seq16
  BY <1>2, ModRange DEF Seq16
<1>4. ListInv' /\ (inorder' => steady')
  <2>1. inorder' => steady'
    BY <1>1, <1>2 DEF SteadyInv
  <2> QED
    BY <2>1, ArriveKeeps DEF SteadyInv
<1>5. CASE stats.sentdata
  <2>1. new = AcceptNext(stats, s) /\ base' = base /\ saved' = saved
    BY <1>1, <1>5 DEF ProcessPacket
  <2>2. new.sentdata
    BY <1>2, <1>5, <2>1 DEF AcceptNext, Stats
  <2>3. ASSUME steady
        PROVE  /\ Tracks(stats, top, base, saved) /\ top \in Nat
               /\ n \in (top - Late + 1)..(top + Gap)
    <3>1. Tracks(stats, top, base, saved)
      BY <1>5, <2>3 DEF SteadyInv
    <3>2. top \in Nat
      BY <3>1 DEF Tracks
    <3> QED
      BY <1>1, <3>1, <3>2
  <2>4. ASSUME steady' PROVE Tracks(new, top', base, saved)
    <3>1. steady /\ (n > top \/ SameCycle(n, top))
      BY <1>1, <1>2, <2>4
    <3>2. /\ Tracks(stats, top, base, saved) /\ top \in Nat
          /\ n \in (top - Late + 1)..(top + Gap)
      BY <2>3, <3>1
    <3>3. CASE n > top
      <4>1. n \in (top + 1)..(top + Gap) /\ top' = n
        BY <1>1, <1>2, <3>2, <3>3
      <4> QED
        BY <1>2, <2>1, <3>2, <4>1, AcceptNextTracks
    <3>4. CASE ~(n > top)
      <4>1. n <= top /\ top - n < Late /\ top' = top /\ SameCycle(n, top)
        BY <1>1, <1>2, <3>1, <3>2, <3>4
      <4> QED
        BY <1>2, <2>1, <3>2, <4>1, AcceptLateTracks
    <3> QED
      BY <3>3, <3>4
  <2>5. ASSUME inorder' PROVE Counts(new, top', saved)
    <3>1. inorder /\ steady /\ n > top
      BY <1>1, <1>2, <2>5 DEF SteadyInv
    <3>2. n \in (top + 1)..(top + Gap) /\ top' = n
      BY <1>1, <1>2, <2>3, <3>1
    <3>3. Counts(stats, top, saved)
      BY <1>5, <3>1 DEF SteadyInv
    <3> QED
      BY <1>2, <1>3, <2>1, <3>2, <3>3, AcceptNextCounts
  <2> HIDE DEF new
  <2> QED
    BY <1>1, <1>4, <2>1, <2>2, <2>4, <2>5 DEF SteadyInv
<1>6. CASE ~stats.sentdata
  <2>1. stats.numcycles = 0 /\ stats.numnewpackets = 0
    BY <1>6 DEF SteadyInv
  <2>2. PICK st \in Stats :
          /\ st.numcycles = 0 /\ st.numnewpackets = 0 /\ ~st.sentdata
          /\ new = AcceptFirst(st, s) \/ new = st
    <3> DEFINE tried == [stats EXCEPT !.probation = ProbationLeft(stats, s),
                                      !.prevseqnr = s]
    <3>1. tried \in Stats
      <4>1. ProbationLeft(stats, s) \in 0..PROBATIONCOUNT
        <5>1. stats.probation \in 0..PROBATIONCOUNT /\ PROBATIONCOUNT \in Nat
          BY <1>2, ProbationAssumption DEF Stats
        <5> QED
          BY <5>1 DEF ProbationLeft
      <4> QED
        BY <1>2, <1>3, <4>1 DEF Stats
    <3>2. tried.numcycles = 0 /\ tried.numnewpackets = 0 /\ ~tried.sentdata
      BY <1>2, <1>6, <2>1 DEF Stats
    <3>3. \/ new = AcceptFirst(stats, s)
          \/ new = tried
          \/ new = AcceptFirst(tried, s)
      BY <1>6 DEF ProcessPacket, Probe
    <3> HIDE DEF tried, new
    <3> QED
      BY <1>2, <1>6, <2>1, <3>1, <3>2, <3>3
  <2>3. steady' => top' = n
    BY <1>1, <1>2, <1>6
  <2>4. CASE new = AcceptFirst(st, s)
    <3>1. new.sentdata /\ Tracks(new, n, n, n - 1) /\ Counts(new, n, n - 1)
      BY <1>2, <2>2, <2>4, AcceptFirstTracks
    <3> HIDE DEF new
    <3>2. base' = n /\ saved' = n - 1
      BY <1>1, <1>6, <3>1
    <3> QED
      BY <1>1, <1>4, <2>3, <3>1, <3>2 DEF SteadyInv
  <2>5. CASE new = st
    <3> HIDE DEF new
    <3> QED
      BY <1>1, <1>4, <2>2, <2>5 DEF SteadyInv
  <2> QED
    BY <2>2, <2>4, <2>5
<1> QED
  BY <1>5, <1>6

LEMMA StartNewIntervalKeepsSteady ==
  ASSUME SteadyInv, StartNewInterval
  PROVE  SteadyInv'
<1>1. ListInv /\ ListInv' /\ stats \in Stats /\ stats.sentdata
  BY ListStep DEF SteadyInv, ListInv, TypeOK, Next, StartNewInterval
<1>2. /\ stats'.sentdata /\ stats'.numnewpackets = 0
      /\ stats'.savedextseqnr = stats.exthighseqnr
      /\ stats'.exthighseqnr = stats.exthighseqnr
      /\ stats'.numcycles = stats.numcycles /\ stats'.baseseqnr = stats.baseseqnr
      /\ saved' = top /\ UNCHANGED <<top, base, inorder, steady>>
  BY <1>1 DEF StartNewInterval, Stats
<1>3. /\ stats.exthighseqnr \in Nat /\ ExtMod \in Nat /\ Gap \in Nat /\ top \in Int
  BY <1>1, SeqAssumption, NetworkAssumption DEF Stats, ListInv, TypeOK
<1>4. Cong(stats'.exthighseqnr, stats'.savedextseqnr + (top - top), ExtMod)
  <2>1. stats'.savedextseqnr + (top - top) = stats.exthighseqnr
    BY <1>2, <1>3
  <2> QED
    BY <1>2, <1>3, <2>1, CongSelf
<1>5. Counts(stats', top, top)
  BY <1>2, <1>3 DEF Counts
<1>6. steady => Tracks(stats', top, base, top)
  <2>1. steady => Tracks(stats, top, base, saved)
    BY <1>1 DEF SteadyInv
  <2> QED
    BY <1>2, <1>4, <2>1 DEF Tracks
<1>7. inorder => steady
  BY DEF SteadyInv
<1> QED
  BY <1>1, <1>2, <1>5, <1>6, <1>7 DEF SteadyInv

LEMMA SteadyStep ==
  ASSUME ShortGaps, SteadyInv, [Next]_vars
  PROVE  SteadyInv'
<1>1. CASE \E n \in 0..MaxNo, handled \in BOOLEAN : Arrive(n, handled)
  BY <1>1, ArriveKeepsSteady
<1>2. CASE ProcessCNAME \/ GetNextPacket \/ FlushPackets \/ UNCHANGED vars
  <2>1. UNCHANGED <<stats, top, base, saved, inorder, steady>> /\ ListInv'
    BY <1>2, ListStep
       DEF ProcessCNAME, GetNextPacket, FlushPackets, vars, SteadyInv
  <2> QED
    BY <2>1 DEF SteadyInv
<1> QED
  BY <1>1, <1>2, StartNewIntervalKeepsSteady DEF Next

LEMMA InitSteady ==
  ASSUME Init
  PROVE  SteadyInv
<1>1. ListInv
  BY InitKeeps
<1>2. /\ stats.sentdata = FALSE /\ steady
      /\ stats.numcycles = 0 /\ stats.numnewpackets = 0
  BY DEF Init, NewStats
<1> QED
  BY <1>1, <1>2 DEF SteadyInv

\* The number of packets expected is the number that was sent, in total and in
\* every report interval, through every wrap of the sequence number and of the
\* extended one, until a packet is late or duplicated on probation or across a
\* wrap.
THEOREM ExpectedSafe == ShortGaps => (Spec => []ExpectedIsSent)
<1> SUFFICES ASSUME ShortGaps PROVE Spec => []ExpectedIsSent
  OBVIOUS
<1>1. SteadyInv => ExpectedIsSent
  <2> SUFFICES ASSUME SteadyInv, steady, stats.sentdata
               PROVE  /\ (stats.exthighseqnr - stats.baseseqnr - (top - base + 1)) % ExtMod = 0
                      /\ (stats.exthighseqnr - stats.savedextseqnr - (top - saved)) % ExtMod = 0
    BY DEF ExpectedIsSent, ExtendedIsHighest
  <2>1. Tracks(stats, top, base, saved)
    BY DEF SteadyInv
  <2>2. /\ stats.exthighseqnr \in Int /\ stats.baseseqnr \in Int
        /\ stats.savedextseqnr \in Int /\ top \in Int /\ base \in Int /\ saved \in Int
        /\ ExtMod \in Nat /\ ExtMod > 1
    BY SeqAssumption DEF SteadyInv, ListInv, TypeOK, Stats, Seq16
  <2>3. ASSUME NEW a \in Int, NEW b \in Int, Cong(a, b, ExtMod)
        PROVE  (a - b) % ExtMod = 0
    <3> DEFINE z == a - b
    <3>1. PICK q \in Int : a = b + ExtMod * q
      BY <2>3 DEF Cong
    <3>2. z \in Int /\ z = ExtMod * q + 0 /\ 0 \in 0..ExtMod - 1
      BY <2>2, <3>1
    <3> HIDE DEF z
    <3>3. z % ExtMod = 0
      BY <2>2, <3>1, <3>2, Remainder
    <3> QED
      BY <3>3 DEF z
  <2> DEFINE b == stats.baseseqnr + 1 + (top - base)
             c == stats.savedextseqnr + (top - saved)
  <2>4. /\ b \in Int /\ c \in Int
        /\ stats.exthighseqnr - b = stats.exthighseqnr - stats.baseseqnr - (top - base + 1)
        /\ stats.exthighseqnr - c = stats.exthighseqnr - stats.savedextseqnr - (top - saved)
    BY <2>2
  <2>5. Cong(stats.exthighseqnr, b, ExtMod) /\ Cong(stats.exthighseqnr, c, ExtMod)
    BY <2>1 DEF Tracks
  <2> HIDE DEF b, c
  <2>6. (stats.exthighseqnr - b) % ExtMod = 0 /\ (stats.exthighseqnr - c) % ExtMod = 0
    BY <2>2, <2>3, <2>4, <2>5
  <2> QED
    BY <2>4, <2>6
<1>2. SteadyInv /\ [Next]_vars => SteadyInv'
  BY SteadyStep
<1> QED
  BY <1>1, <1>2, InitSteady, PTL DEF Spec

\* No report shows more packets received than expected, until one is late or
\* duplicated; an interval is shorter than all extended numbers.
THEOREM ReceivedSafe ==
  ShortGaps /\ Gap * MaxNew < ExtMod => (Spec => []ReceivedWithinExpected)
<1> SUFFICES ASSUME ShortGaps, Gap * MaxNew < ExtMod
             PROVE  Spec => []ReceivedWithinExpected
  OBVIOUS
<1> DEFINE Inv == SteadyInv /\ stats.numnewpackets <= MaxNew
<1>1. Init => Inv
  <2> SUFFICES ASSUME Init PROVE Inv
    OBVIOUS
  <2>1. stats.numnewpackets = 0 /\ MaxNew \in Nat
    BY NetworkAssumption DEF Init, NewStats
  <2> QED
    BY <2>1, InitSteady
<1>2. Inv /\ [Next]_vars => Inv'
  <2> SUFFICES ASSUME Inv, [Next]_vars PROVE Inv'
    OBVIOUS
  <2>1. SteadyInv' /\ stats \in Stats /\ MaxNew \in Nat /\ SeqMod \in Nat /\ SeqMod > 0
    BY SteadyStep, NetworkAssumption, SeqAssumption DEF SteadyInv, ListInv, TypeOK
  <2>2. ASSUME NEW n \in 0..MaxNo, NEW handled \in BOOLEAN, Arrive(n, handled)
        PROVE  stats'.numnewpackets <= MaxNew
    <3> DEFINE s == n % SeqMod
    <3>1. /\ stats.numnewpackets < MaxNew
          /\ stats' = ProcessPacket(stats, s, ~validated /\ probationtype # "NoProbation")
      BY <2>2 DEF Arrive, ProcessRTPPacket
    <3> HIDE DEF s
    <3>2. stats'.numnewpackets \in {stats.numnewpackets, stats.numnewpackets + 1}
      BY <2>1, <3>1 DEF ProcessPacket, AcceptNext, Probe, AcceptFirst, Stats
    <3>3. stats.numnewpackets \in Nat
      BY <2>1 DEF Stats
    <3> QED
      BY <2>1, <3>1, <3>2, <3>3
  <2>3. CASE StartNewInterval
    <3>1. stats'.numnewpackets = 0
      BY <2>1, <2>3 DEF StartNewInterval, Stats
    <3> QED
      BY <2>1, <3>1
  <2>4. CASE ProcessCNAME \/ GetNextPacket \/ FlushPackets \/ UNCHANGED vars
    <3>1. stats' = stats
      BY <2>4 DEF ProcessCNAME, GetNextPacket, FlushPackets, vars
    <3> QED
      BY <2>1, <3>1
  <2> QED
    BY <2>1, <2>2, <2>3, <2>4 DEF Next
<1>3. Inv => ReceivedWithinExpected
  <2> SUFFICES ASSUME Inv, inorder
               PROVE  stats.numnewpackets <=
                        (stats.exthighseqnr - stats.savedextseqnr) % ExtMod
    BY DEF ReceivedWithinExpected
  <2>1. /\ stats.exthighseqnr \in Int /\ stats.savedextseqnr \in Int
        /\ stats.numnewpackets \in Nat /\ stats \in Stats
        /\ top \in Int /\ saved \in Int /\ Gap \in Nat /\ MaxNew \in Nat
        /\ ExtMod \in Nat /\ ExtMod > 1
    BY SeqAssumption, NetworkAssumption DEF SteadyInv, ListInv, TypeOK, Stats
  <2> DEFINE z == stats.exthighseqnr - stats.savedextseqnr
             r == top - saved
  <2>2. CASE stats.sentdata
    <3>1. /\ Cong(stats.exthighseqnr, stats.savedextseqnr + r, ExtMod)
          /\ stats.numnewpackets <= r
          /\ r <= Gap * stats.numnewpackets
      BY <2>2 DEF SteadyInv, Tracks, Counts
    <3>2. PICK q \in Int : stats.exthighseqnr = (stats.savedextseqnr + r) + ExtMod * q
      BY <3>1 DEF Cong
    <3>3. z \in Int /\ r \in Int /\ z = ExtMod * q + r
      BY <2>1, <3>2
    <3>4. Gap * stats.numnewpackets <= Gap * MaxNew
      BY <2>1
    <3>5. /\ Gap * stats.numnewpackets \in Int /\ Gap * MaxNew \in Int
          /\ r \in 0..ExtMod - 1
      BY <2>1, <3>1, <3>4
    <3> HIDE DEF z, r
    <3>6. z % ExtMod = r
      BY <2>1, <3>2, <3>3, <3>5, Remainder
    <3> QED
      BY <3>1, <3>6 DEF z
  <2>3. CASE ~stats.sentdata
    <3>1. stats.numnewpackets = 0
      BY <2>3 DEF SteadyInv
    <3>2. z \in Int /\ ExtMod > 0
      BY <2>1
    <3> HIDE DEF z
    <3>3. z % ExtMod \in 0..ExtMod - 1
      BY <2>1, <3>2, ModRange
    <3> QED
      BY <2>1, <3>1, <3>3 DEF z
  <2> QED
    BY <2>2, <2>3
<1> QED
  BY <1>1, <1>2, <1>3, PTL DEF Spec

-----------------------------------------------------------------------------
(* The order in which packets are taken *)

\* None was late or kept on probation, and the extended numbers do not wrap.
Ordered == inorder /\ probationtype # "ProbationStore" /\ top + SeqMod < ExtMod

\* A packet that waits has its true number but for the constant that the first
\* packet set, and none before it was taken.
Numbered(list, offset, after, high) ==
  \A i \in 1..Len(list) :
    /\ list[i].seq = list[i].no + offset
    /\ list[i].no \in (after + 1)..high

\* The inductive invariant: numbers in the list are in the order of the packets.
NumberedInv ==
  /\ SteadyInv
  /\ ~stats.sentdata /\ probationtype # "ProbationStore" =>
       packetlist = <<>> /\ taken = -1
  /\ stats.sentdata /\ Ordered =>
       /\ base \in 0..top /\ taken <= top
       /\ stats.exthighseqnr = stats.baseseqnr + 1 - base + top
       /\ Numbered(packetlist, stats.baseseqnr + 1 - base, taken, top)

LEMMA StoredNumbered ==
  ASSUME NEW list \in Seq(Packet), NEW p \in Packet, NEW result,
         Stored(list, p, result),
         NEW offset \in Int, NEW after \in Int, NEW high \in Int,
         Numbered(list, offset, after, high),
         p.seq = p.no + offset, p.no \in (after + 1)..high
  PROVE  Numbered(result, offset, after, high)
<1>1. PICK k \in 0..Len(list) :
        result = IF k > 0 /\ list[k].seq = p.seq THEN list ELSE InsertAfter(list, p, k)
  BY DEF Stored
<1>2. CASE result = list
  BY <1>2
<1>3. CASE result = InsertAfter(list, p, k)
  <2>1. Len(list) \in Nat /\ k \in Nat /\ Len(list) + 1 \in Nat
    OBVIOUS
  <2>2. \A i \in 1..Len(list) + 1 : result[i] \in Packet
    BY <1>3, <2>1 DEF InsertAfter
  <2>3. Len(result) = Len(list) + 1
    BY <1>3, <2>1, <2>2 DEF InsertAfter
  <2>4. ASSUME NEW i \in 1..Len(list) + 1
        PROVE  result[i] = p \/ \E j \in 1..Len(list) : result[i] = list[j]
    BY <1>3, <2>1 DEF InsertAfter
  <2> QED
    BY <2>3, <2>4 DEF Numbered
<1> QED
  BY <1>1, <1>2, <1>3

\* What a number below the modulus is congruent to, below the modulus.
LEMMA CongEqual ==
  ASSUME NEW m \in Nat, NEW a \in 0..m - 1, NEW b \in 0..m - 1, Cong(a, b, m)
  PROVE  a = b
<1>1. a = 0 * m + a /\ a = m * 0 + a /\ m > 0 /\ 0 \in Int /\ a \in Int
  OBVIOUS
<1>2. a % m = a
  BY <1>1, Remainder
<1>3. b \in Int /\ 0 <= b /\ b < m /\ a \in Int
  OBVIOUS
<1>4. a % m = b
  BY <1>3, CongRemainder
<1> QED
  BY <1>2, <1>4

LEMMA ArriveKeepsNumbered ==
  ASSUME ShortGaps, NumberedInv,
         NEW n \in 0..MaxNo, NEW handled \in BOOLEAN, Arrive(n, handled)
  PROVE  NumberedInv'
<1> DEFINE s == n % SeqMod
           applies == ~validated /\ probationtype # "NoProbation"
           new == ProcessPacket(stats, s, applies)
           p == [seq |-> PacketSeq(stats, s, new), no |-> n]
<1>1. SteadyInv'
  BY ArriveKeepsSteady DEF NumberedInv
<1>2. /\ stats' = new /\ validated' = (validated \/ new.sentdata)
      /\ base' = IF new.sentdata /\ ~stats.sentdata THEN n ELSE base
      /\ taken' = taken /\ probationtype' = probationtype
      /\ top' = IF n > top THEN n ELSE top
      /\ inorder' = (inorder /\ n > top)
      /\ probationtype # "ProbationStore" =>
           \/ packetlist' = packetlist
           \/ /\ new.sentdata
              /\ Stored(Trimmed(packetlist, ~validated'), p, packetlist')
  BY DEF Arrive, ProcessRTPPacket
<1>3. /\ SeqMod \in Nat /\ SeqMod > 1 /\ ExtMod \in Nat /\ ExtMod > 1
      /\ n \in Nat /\ inorder \in BOOLEAN
      /\ top \in Int /\ base \in Int /\ taken \in Int
      /\ stats \in Stats /\ packetlist \in Seq(Packet)
  BY SeqAssumption, NetworkAssumption DEF NumberedInv, SteadyInv, ListInv, TypeOK
<1>4. s \in Seq16
  BY <1>3, ModRange DEF Seq16
<1>5. new \in Stats /\ p \in Packet /\ stats' \in Stats
  <2>1. new \in Stats
    BY <1>3, <1>4, ProcessPacketType
  <2> HIDE DEF new
  <2>2. PacketSeq(stats, s, new) \in Nat
    BY <1>3, <1>4, <2>1, PacketSeqType
  <2> QED
    BY <1>2, <1>3, <2>1, <2>2 DEF Packet
<1>6. p.seq = PacketSeq(stats, s, new) /\ p.no = n
  OBVIOUS
<1>7. ASSUME Ordered'
      PROVE  /\ inorder /\ n > top /\ top' = n /\ n + SeqMod < ExtMod
             /\ probationtype # "ProbationStore" /\ (top >= 0 => Ordered)
  <2>1. /\ inorder' /\ probationtype' # "ProbationStore"
        /\ top' + SeqMod < ExtMod
    BY <1>7 DEF Ordered
  <2>2. inorder /\ n > top
    BY <1>2, <1>3, <2>1
  <2>3. top' = n
    BY <1>2, <2>2
  <2>4. n + SeqMod < ExtMod /\ top + SeqMod < ExtMod
    BY <1>3, <2>1, <2>2, <2>3
  <2> QED
    BY <1>2, <2>1, <2>2, <2>3, <2>4 DEF Ordered
<1>8. ASSUME new.sentdata, Ordered',
             base' \in 0..n, taken < n,
             p.seq = new.exthighseqnr,
             new.exthighseqnr = new.baseseqnr + 1 - base' + n,
             Numbered(packetlist, new.baseseqnr + 1 - base', taken, n)
      PROVE  NumberedInv'
  <2> DEFINE offset == new.baseseqnr + 1 - base'
  <2>1. Trimmed(packetlist, ~validated') = packetlist
    BY <1>2, <1>8 DEF Trimmed
  <2>2. offset \in Int /\ p.seq = p.no + offset /\ p.no \in (taken + 1)..n
    <3>1. new.baseseqnr \in Int /\ base' \in Int
      BY <1>3, <1>5, <1>8 DEF Stats, Seq16
    <3> HIDE DEF new, p
    <3> QED
      BY <1>3, <1>6, <1>8, <3>1
  <2>3. Numbered(packetlist, offset, taken, n)
    BY <1>8
  <2> HIDE DEF offset, p
  <2>4. Numbered(packetlist', offset, taken, n)
    <3>1. CASE packetlist' = packetlist
      BY <2>3, <3>1
    <3>2. CASE Stored(packetlist, p, packetlist')
      BY <1>3, <1>5, <2>2, <2>3, <3>2, StoredNumbered
    <3> QED
      BY <1>2, <1>7, <1>8, <2>1, <3>1, <3>2
  <2> HIDE DEF new
  <2> QED
    BY <1>1, <1>2, <1>3, <1>7, <1>8, <2>4 DEF NumberedInv, offset
<1>9. CASE stats.sentdata
  <2>1. new = AcceptNext(stats, s) /\ base' = base
    BY <1>2, <1>9 DEF ProcessPacket
  <2>2. new.sentdata
    BY <1>3, <1>9, <2>1 DEF AcceptNext, Stats
  <2> HIDE DEF new, p
  <2> SUFFICES ASSUME Ordered' PROVE NumberedInv'
    BY <1>1, <1>2, <2>2 DEF NumberedInv
  <2> USE DEF new, p
  <2>3. /\ top >= 0 /\ n > top /\ top' = n /\ n + SeqMod < ExtMod
         /\ steady' /\ Tracks(stats', top', base', saved')
    <3>1. inorder /\ n > top /\ top' = n /\ n + SeqMod < ExtMod
      BY <1>7
    <3>2. steady /\ Tracks(stats, top, base, saved)
      BY <1>9, <3>1 DEF NumberedInv, SteadyInv
    <3>3. top \in Nat
      BY <3>2 DEF Tracks
    <3>4. inorder' /\ stats'.sentdata
      BY <1>2, <2>2 DEF Ordered
    <3> QED
      BY <1>1, <3>1, <3>3, <3>4 DEF SteadyInv
  <2>4. /\ base \in 0..top /\ taken <= top
        /\ stats.exthighseqnr = stats.baseseqnr + 1 - base + top
        /\ Numbered(packetlist, stats.baseseqnr + 1 - base, taken, top)
    BY <1>7, <1>9, <2>3 DEF NumberedInv
  <2>5. /\ new.sentdata /\ new.baseseqnr = stats.baseseqnr
        /\ \/ new.exthighseqnr = Extended(stats, s)
           \/ new.exthighseqnr = stats.exthighseqnr
    BY <1>3, <1>9, <2>1 DEF AcceptNext, Stats
  <2>6. p.seq = Extended(stats, s)
    BY <1>6, <1>9 DEF PacketSeq
  <2> HIDE DEF new, p
  <2>7. Cong(new.exthighseqnr, new.baseseqnr + 1 + (n - base), ExtMod)
    BY <1>2, <2>1, <2>3 DEF Tracks
  <2> DEFINE x == new.baseseqnr + 1 + (n - base)
  <2>8. new.baseseqnr \in 0..SeqMod - 1 /\ stats.exthighseqnr \in Nat
    BY <1>3, <1>5 DEF Stats, Seq16
  <2>9. x \in 0..ExtMod - 1 /\ x # stats.exthighseqnr
    <3>1. x = stats.exthighseqnr + (n - top)
      <4> DEFINE y == new.baseseqnr
                 z == stats.exthighseqnr
      <4>1. y \in Int /\ z \in Int /\ z = y + 1 - base + top
        BY <2>4, <2>5, <2>8
      <4> HIDE DEF y, z
      <4>2. y + 1 + (n - base) = z + (n - top)
        BY <1>3, <4>1
      <4> QED
        BY <4>2 DEF y, z
    <3>2. n - base \in 0..n
      BY <1>3, <2>4, <2>3
    <3>3. x \in 0..ExtMod - 1
      BY <1>3, <2>8, <2>3, <3>2
    <3> HIDE DEF x
    <3> QED
      BY <1>3, <2>8, <2>3, <3>1, <3>3
  <2>10. new.exthighseqnr \in 0..ExtMod - 1
    <3>1. Extended(stats, s) \in 0..ExtMod - 1
      <4>1. Cycles(stats, s) + s \in Int
        BY <1>3, <1>4, ExtendedType DEF Seq16
      <4> QED
        BY <1>3, <4>1, ModRange DEF Extended
    <3>2. stats.exthighseqnr \in 0..ExtMod - 1
      BY <1>3, <2>4, <2>5, <2>8, <2>3
    <3> QED
      BY <2>5, <3>1, <3>2
  <2>11. new.exthighseqnr = x
    <3> HIDE DEF x
    <3>1. Cong(new.exthighseqnr, x, ExtMod)
      BY <2>7 DEF x
    <3> QED
      BY <1>3, <2>9, <2>10, <3>1, CongEqual
  <2>12. p.seq = new.exthighseqnr
    BY <2>5, <2>6, <2>9, <2>11
  <2>13. new.exthighseqnr = new.baseseqnr + 1 - base' + n
    BY SMTT(60), <1>3, <2>1, <2>8, <2>11
  <2>14. base' \in 0..n /\ taken < n
    BY <1>3, <2>4, <2>1, <2>3
  <2>15. Numbered(packetlist, new.baseseqnr + 1 - base', taken, n)
    <3>1. \A i \in 1..Len(packetlist) :
            /\ packetlist[i].seq = packetlist[i].no + (new.baseseqnr + 1 - base')
            /\ packetlist[i].no \in (taken + 1)..top
      BY <2>4, <2>1, <2>5 DEF Numbered
    <3>2. (taken + 1)..top \subseteq (taken + 1)..n
      BY <1>3, <2>3
    <3> QED
      BY <3>1, <3>2 DEF Numbered
  <2> QED
    BY <1>8, <2>12, <2>13, <2>14, <2>15, <2>2
<1>10. CASE ~stats.sentdata /\ new.sentdata
  <2> HIDE DEF new, p
  <2> SUFFICES ASSUME Ordered' PROVE NumberedInv'
    BY <1>1, <1>2, <1>10 DEF NumberedInv
  <2> USE DEF new, p
  <2>1. packetlist = <<>> /\ taken = -1 /\ base' = n
    BY <1>2, <1>7, <1>10 DEF NumberedInv
  <2>2. p.seq = new.exthighseqnr
    BY <1>6, <1>10 DEF PacketSeq
  <2>3. new.exthighseqnr = new.baseseqnr + 1
    <3>1. PICK st \in Stats : new = AcceptFirst(st, s)
      <4> DEFINE tried == [stats EXCEPT !.probation = ProbationLeft(stats, s),
                                        !.prevseqnr = s]
      <4>1. tried \in Stats /\ ~tried.sentdata
        <5>1. ProbationLeft(stats, s) \in 0..PROBATIONCOUNT
          <6>1. stats.probation \in 0..PROBATIONCOUNT /\ PROBATIONCOUNT \in Nat
            BY <1>3, ProbationAssumption DEF Stats
          <6> QED
            BY <6>1 DEF ProbationLeft
        <5> QED
          BY <1>3, <1>4, <1>10, <5>1 DEF Stats
      <4>2. \/ new = AcceptFirst(stats, s)
            \/ new = tried
            \/ new = AcceptFirst(tried, s)
        BY <1>10 DEF ProcessPacket, Probe
      <4> HIDE DEF tried, new
      <4> QED
        BY <1>3, <1>10, <4>1, <4>2
    <3> HIDE DEF new
    <3>2. (s - 1) % SeqMod \in Int
      BY <1>3, <1>4, ModRange DEF Seq16
    <3> QED
      BY <3>1, <3>2 DEF AcceptFirst, Stats
  <2> HIDE DEF new, p
  <2>4. new.exthighseqnr = new.baseseqnr + 1 - base' + n /\ base' \in 0..n /\ taken < n
    <3>1. new.baseseqnr \in Int
      BY <1>3, <1>5 DEF Stats, Seq16
    <3> QED
      BY <1>3, <2>1, <2>3, <3>1
  <2>5. Numbered(packetlist, new.baseseqnr + 1 - base', taken, n)
    BY <2>1 DEF Numbered
  <2> QED
    BY <1>8, <1>10, <2>2, <2>4, <2>5
<1>11. CASE ~stats.sentdata /\ ~new.sentdata
  <2> HIDE DEF new, p
  <2> QED
    BY <1>1, <1>2, <1>11 DEF NumberedInv
<1> QED
  <2> HIDE DEF new
  <2> QED
    BY <1>9, <1>10, <1>11

\* Taking a packet leaves the higher ones.
LEMMA GetNextKeepsNumbered ==
  ASSUME ShortGaps, NumberedInv, GetNextPacket
  PROVE  NumberedInv' /\ (Ordered => taken' > taken)
<1>1. /\ packetlist \in Seq(Packet) /\ packetlist # <<>> /\ Sorted(packetlist)
      /\ packetlist' = Tail(packetlist) /\ taken' = packetlist[1].no
      /\ UNCHANGED <<stats, top, base, saved, inorder, probationtype>>
      /\ taken \in Int /\ top \in Int /\ base \in Int /\ stats \in Stats
  BY DEF GetNextPacket, NumberedInv, SteadyInv, ListInv, TypeOK, QueueSorted, Sorted
<1>2. SteadyInv' /\ (Ordered' <=> Ordered)
  BY <1>1, SteadyStep DEF NumberedInv, Next, Ordered
<1>3. stats.sentdata \/ probationtype = "ProbationStore"
  BY <1>1 DEF NumberedInv
<1> SUFFICES ASSUME Ordered PROVE NumberedInv' /\ taken' > taken
  BY <1>1, <1>2, <1>3 DEF NumberedInv
<1>4. stats.sentdata
  BY <1>3 DEF Ordered
<1> DEFINE offset == stats.baseseqnr + 1 - base
<1>5. /\ Numbered(packetlist, offset, taken, top) /\ base \in 0..top
      /\ stats.exthighseqnr = stats.baseseqnr + 1 - base + top
  BY <1>4 DEF NumberedInv
<1>6. offset \in Int
  BY <1>1, SeqAssumption DEF Stats, Seq16
<1>7. /\ Len(packetlist) \in Nat /\ Len(packetlist) > 0
      /\ Len(Tail(packetlist)) = Len(packetlist) - 1
      /\ \A i \in 1..Len(packetlist) - 1 : Tail(packetlist)[i] = packetlist[i + 1]
      /\ \A i \in 1..Len(packetlist) : packetlist[i] \in Packet
  BY <1>1
<1>8. packetlist[1].no \in (taken + 1)..top
  BY <1>5, <1>7 DEF Numbered
<1> HIDE DEF offset
<1>9. Numbered(Tail(packetlist), offset, taken', top)
  <2> SUFFICES ASSUME NEW i \in 1..Len(packetlist) - 1
               PROVE  /\ packetlist[i + 1].seq = packetlist[i + 1].no + offset
                      /\ packetlist[i + 1].no \in (packetlist[1].no + 1)..top
    BY <1>1, <1>7 DEF Numbered
  <2>1. 1 \in 1..Len(packetlist) /\ i + 1 \in 1..Len(packetlist) /\ 1 < i + 1
    BY <1>7
  <2>2. packetlist[1].seq < packetlist[i + 1].seq
    BY <1>1, <2>1 DEF Sorted
  <2>3. /\ packetlist[1].seq = packetlist[1].no + offset
        /\ packetlist[i + 1].seq = packetlist[i + 1].no + offset
        /\ packetlist[i + 1].no \in (taken + 1)..top
    BY <1>5, <2>1 DEF Numbered
  <2> QED
    BY <1>1, <1>6, <1>8, <2>2, <2>3
<1>10. taken' > taken /\ taken' <= top
  BY <1>1, <1>8
<1> QED
  BY <1>1, <1>2, <1>5, <1>9, <1>10, <1>4 DEF NumberedInv, offset

LEMMA NumberedStep ==
  ASSUME ShortGaps, NumberedInv, [Next]_vars
  PROVE  NumberedInv' /\ (Ordered /\ taken' # taken => taken' > taken)
<1>1. SteadyInv'
  BY SteadyStep DEF NumberedInv
<1>2. ASSUME NEW n \in 0..MaxNo, NEW handled \in BOOLEAN, Arrive(n, handled)
      PROVE  NumberedInv' /\ taken' = taken
  BY <1>2, ArriveKeepsNumbered DEF Arrive, ProcessRTPPacket
<1>3. CASE ProcessCNAME \/ FlushPackets \/ UNCHANGED vars
  <2>1. /\ UNCHANGED <<stats, top, base, taken, inorder, probationtype>>
        /\ packetlist' = packetlist \/ packetlist' = <<>>
    BY <1>3 DEF ProcessCNAME, FlushPackets, vars
  <2>2. Numbered(<<>>, stats.baseseqnr + 1 - base, taken, top)
    BY DEF Numbered
  <2> QED
    BY <1>1, <2>1, <2>2 DEF NumberedInv, Ordered
<1>4. CASE StartNewInterval
  <2>1. /\ stats'.sentdata = stats.sentdata /\ stats'.baseseqnr = stats.baseseqnr
        /\ stats'.exthighseqnr = stats.exthighseqnr
        /\ UNCHANGED <<packetlist, top, base, taken, inorder, probationtype>>
    BY <1>4 DEF StartNewInterval, Stats, NumberedInv, SteadyInv, ListInv, TypeOK
  <2> QED
    BY <1>1, <2>1 DEF NumberedInv, Ordered
<1> QED
  BY <1>2, <1>3, <1>4, GetNextKeepsNumbered DEF Next

\* The application takes packets in the order in which they were sent, each at
\* most once, across every wrap of the sequence number, until one is late.
THEOREM TakenSafe == ShortGaps => (Spec => TakenInOrder)
<1> SUFFICES ASSUME ShortGaps PROVE Spec => TakenInOrder
  OBVIOUS
<1>1. Init => NumberedInv
  <2> SUFFICES ASSUME Init PROVE NumberedInv
    OBVIOUS
  <2>1. ~stats.sentdata /\ packetlist = <<>> /\ taken = -1
    BY DEF Init, NewStats
  <2> QED
    BY <2>1, InitSteady DEF NumberedInv
<1> DEFINE Ascends ==
      /\ inorder /\ probationtype # "ProbationStore" /\ top + SeqMod < ExtMod
      => (taken' # taken => taken' > taken)
<1>2. NumberedInv /\ [Next]_vars => NumberedInv' /\ Ascends
  BY NumberedStep DEF Ordered
<1>3. TakenInOrder <=> [][Ascends]_vars
  BY PTL DEF TakenInOrder
<1> QED
  BY <1>1, <1>2, <1>3, PTL DEF Spec

=============================================================================
