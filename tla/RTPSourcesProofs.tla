--------------------------- MODULE RTPSourcesProofs ---------------------------
(***************************************************************************)
(* Proofs about RTPSources: the type invariant and the inductive invariant  *)
(* behind its safety properties, for every set of SSRCs, addresses, CNAMEs  *)
(* and intervals.                                                           *)
(***************************************************************************)
EXTENDS RTPSources, FiniteSetTheorems, TLAPS

-----------------------------------------------------------------------------
(* The operators the handlers are built from *)

\* A constructed record is a record.
LEMMA NewSourceType == NewSource \in Source
  BY NumberAssumption DEF NewSource, Source, Sender, Time, Never

\* Storing an address leaves a record.
LEMMA SetAddressType ==
  ASSUME NEW d \in Source, NEW a \in Sender, NEW isrtp \in BOOLEAN
  PROVE  SetAddress(d, a, isrtp) \in Source
  BY DEF SetAddress, Source, Sender

\* Receiving an RTP packet leaves a record.
LEMMA ReceiveRTPType ==
  ASSUME NEW d \in Source, NEW isnext \in BOOLEAN, NEW t \in Time
  PROVE  ReceiveRTP(d, isnext, t) \in Source
<1>. DEFINE applies == ~d.validated /\ ApplyProbation
            left    == IF d.probation > 0 /\ isnext THEN d.probation - 1
                                                    ELSE PROBATIONCOUNT
            accept  == applies => left = 0
            remote  == accept /\ ~d.ownssrc
            prob    == IF applies THEN left ELSE d.probation
            valid   == d.validated \/ accept
            sender  == d.issender \/ remote
            rtptime == IF remote THEN t ELSE d.lastrtp
<1>1. prob \in 0..PROBATIONCOUNT
  BY NumberAssumption DEF Source
<1>2. valid \in BOOLEAN /\ sender \in BOOLEAN
  OBVIOUS
<1>3. rtptime \in Time /\ t \in Time
  BY DEF Source
<1>4. ReceiveRTP(d, isnext, t) =
        [d EXCEPT !.probation = prob, !.validated = valid, !.issender = sender,
                  !.lastrtp = rtptime, !.lastmsg = t]
  BY DEF ReceiveRTP
<1>. HIDE DEF prob, valid, sender, rtptime
<1>5. QED
  BY <1>1, <1>2, <1>3, <1>4 DEF Source

\* The field updates of the handlers leave a record.
LEMMA UpdateType ==
  ASSUME NEW d \in Source, NEW t \in Time, NEW u \in Time, NEW b \in BOOLEAN,
         NEW c \in CName \cup {NoCName}
  PROVE  /\ [d EXCEPT !.lastmsg = t] \in Source
         /\ [d EXCEPT !.lastmsg = t, !.cname = c, !.validated = b] \in Source
         /\ [d EXCEPT !.lastmsg = t, !.note = b, !.notetime = u] \in Source
         /\ [d EXCEPT !.lastmsg = t, !.byetime = u, !.receivedbye = b] \in Source
         /\ [d EXCEPT !.validated = b, !.iscsrc = b] \in Source
         /\ [d EXCEPT !.issender = b, !.lastrtp = t, !.lastmsg = u] \in Source
         /\ [d EXCEPT !.ownssrc = b, !.validated = b,
                       !.rtpaddr = NULL, !.rtcpaddr = NULL] \in Source
  BY ZenonT(60) DEF Source, Sender

-----------------------------------------------------------------------------
(* Type correctness *)

\* What looking up or creating an entry does to the types.
LEMMA ObtainType ==
  ASSUME TypeOK, NEW s \in SSRC, Obtain(s)
  PROVE  table' \in SUBSET SSRC /\ totalcount' \in Int /\ known' \in SUBSET SSRC
  BY DEF Obtain, Bit, TypeOK

\* A packet's sender address is an address or NULL.
LEMMA FromType ==
  ASSUME NEW a \in Addr
  PROVE  (IF a \in OwnAddr THEN NULL ELSE a) \in Sender
  BY DEF Sender

\* The number of entries with some property is a natural number.
LEMMA CardType ==
  ASSUME NEW S \in SUBSET SSRC
  PROVE  Cardinality(S) \in Nat
  BY SSRCAssumption, FS_Subset, FS_CardinalityType

\* What a sweep over the table does to the types.
LEMMA SweepType ==
  ASSUME TypeOK, NEW gone, NEW mute, NEW stale, Sweep(gone, mute, stale)
  PROVE  TypeOK'
<1>. DEFINE rec == [s \in SSRC |->
                      IF s \in gone THEN NewSource
                      ELSE [src[s] EXCEPT !.issender = @ /\ s \notin mute,
                                          !.note = @ /\ s \notin stale]]
            hrd == [s \in SSRC |-> IF s \in gone THEN Never ELSE heard[s]]
<1>1. rec \in [SSRC -> Source]
  <2>. SUFFICES ASSUME NEW s \in SSRC, s \notin gone
                PROVE  rec[s] \in Source
    BY NewSourceType
  <2>1. /\ src[s] \in Source
        /\ (src[s].issender /\ s \notin mute) \in BOOLEAN
        /\ (src[s].note /\ s \notin stale) \in BOOLEAN
    BY DEF TypeOK
  <2>2. QED
    BY ZenonT(60), <2>1 DEF Source
<1>2. hrd \in [SSRC -> Time]
  BY DEF TypeOK, Time, Never
<1>3. /\ table' = table \ gone
      /\ src' = rec
      /\ Recount(table \ gone, rec)
      /\ known' = known \ gone
      /\ heard' = hrd
      /\ UNCHANGED <<own, owncollision, csrcs, csrcfrom, now, received>>
  BY DEF Sweep
<1>. HIDE DEF rec, hrd
<1>4. totalcount' \in Int /\ sendercount' \in Int /\ activecount' \in Int
  <2>1. table \ gone \in SUBSET SSRC
    BY DEF TypeOK
  <2>2. /\ {s \in table \ gone : rec[s].issender} \in SUBSET SSRC
        /\ {s \in table \ gone : IsActive(rec[s])} \in SUBSET SSRC
    BY <2>1
  <2>3. QED
    BY <1>3, <2>1, <2>2, CardType DEF Recount
<1>5. QED
  BY <1>1, <1>2, <1>3, <1>4 DEF TypeOK

\* What any handler of one packet from a does to the types.
LEMMA ProcessRawPacketType ==
  ASSUME TypeOK, NEW a \in Addr, ProcessRawPacket(a)
  PROVE  TypeOK'
<1>. DEFINE from == IF a \in OwnAddr THEN NULL ELSE a
<1>0. from \in Sender
  BY FromType
<1>. HIDE DEF from
<1>r. received' \in Time /\ \A t \in received..now : t \in Time
  BY DEF ProcessRawPacket, TypeOK, Time
<1>1. ASSUME NEW s \in SSRC, NEW t \in Time, NEW isnext \in BOOLEAN, NEW n \in 0..MaxCSRCs,
             NEW list \in [1..n -> SSRC], ProcessRTPPacket(s, isnext, list, from, t)
      PROVE  TypeOK'
  <2>. DEFINE d == ReceiveRTP(SetAddress(src[s], from, TRUE), isnext, t)
  <2>1. d \in Source
    BY <1>0, SetAddressType, ReceiveRTPType DEF TypeOK
  <2>2. list \in Seq(SSRC) /\ <<>> \in Seq(SSRC)
    BY NumberAssumption
  <2>3. src' = [src EXCEPT ![s] = d] /\ csrcs' \in {list, <<>>}
    BY <1>1 DEF ProcessRTPPacket
  <2>4. csrcfrom' \in Sender
    BY <1>0, <1>1 DEF ProcessRTPPacket, Sender
  <2>5. /\ sendercount' \in Int
        /\ activecount' \in Int
    BY <1>1 DEF ProcessRTPPacket, Bit, TypeOK
  <2>6. /\ Obtain(s)
        /\ heard' = [heard EXCEPT ![s] = t]
        /\ UNCHANGED <<own, owncollision, now>>
    BY <1>1 DEF ProcessRTPPacket
  <2>. HIDE DEF d
  <2>7. src' \in [SSRC -> Source] /\ heard' \in [SSRC -> Time]
    BY <2>1, <2>3, <2>6 DEF TypeOK
  <2>8. QED
    BY <2>2, <2>3, <2>4, <2>5, <2>6, <2>7, <1>r, ObtainType DEF TypeOK
<1>2. ASSUME NEW s \in SSRC, OnSSRCCollision(s)
      PROVE  TypeOK'
  BY <1>r, <1>2 DEF OnSSRCCollision, TypeOK
<1>3. ASSUME NEW s \in SSRC, NEW t \in Time, NEW d \in Source, StoreRTCP(s, from, d, t),
             activecount' \in Int
      PROVE  TypeOK'
  <2>1. SetAddress(d, from, FALSE) \in Source
    BY <1>0, SetAddressType
  <2>2. /\ Obtain(s)
        /\ src' = [src EXCEPT ![s] = SetAddress(d, from, FALSE)]
        /\ heard' = [heard EXCEPT ![s] = t]
        /\ UNCHANGED <<own, sendercount, owncollision, csrcs, csrcfrom, now>>
    BY <1>3 DEF StoreRTCP
  <2>3. src' \in [SSRC -> Source] /\ heard' \in [SSRC -> Time]
    BY <2>1, <2>2 DEF TypeOK
  <2>4. QED
    BY <1>r, <1>3, <2>2, <2>3, ObtainType DEF TypeOK
<1>4. ASSUME NEW s \in SSRC, NEW t \in Time, UpdateReceiveTime(s, from, t)
      PROVE  TypeOK'
  <2>1. [src[s] EXCEPT !.lastmsg = t] \in Source
    BY UpdateType DEF TypeOK
  <2>2. QED
    BY <1>3, <1>4, <2>1 DEF UpdateReceiveTime, TypeOK
<1>5. ASSUME NEW s \in SSRC, NEW t \in Time, NEW c \in CName \cup {NoCName},
             ProcessCNAME(s, c, from, t)
      PROVE  TypeOK'
  <2>. DEFINE first == src[s].cname = NoCName
              name == IF first THEN c ELSE src[s].cname
              valid == src[s].validated \/ first
              d == [src[s] EXCEPT !.lastmsg = t, !.cname = name,
                                  !.validated = valid]
  <2>0. name \in CName \cup {NoCName} /\ valid \in BOOLEAN
    BY DEF TypeOK, Source
  <2>2. StoreRTCP(s, from, d, t) /\ activecount' \in Int
    BY <1>5 DEF ProcessCNAME, Bit, TypeOK
  <2>. HIDE DEF name, valid
  <2>1. d \in Source
    BY <2>0, UpdateType DEF TypeOK
  <2>. HIDE DEF d
  <2>3. QED
    BY <1>3, <2>1, <2>2
<1>6. ASSUME NEW s \in SSRC, NEW t \in Time, NEW text \in BOOLEAN, ProcessNOTE(s, text, from, t)
      PROVE  TypeOK'
  <2>1. [src[s] EXCEPT !.lastmsg = t, !.note = text, !.notetime = t] \in Source
    BY UpdateType DEF TypeOK
  <2>2. QED
    BY <1>3, <1>6, <2>1 DEF ProcessNOTE, TypeOK
<1>7. ASSUME NEW s \in SSRC, NEW t \in Time, ProcessBYE(s, from, t)
      PROVE  TypeOK'
  <2>1. [src[s] EXCEPT !.lastmsg = t, !.byetime = t, !.receivedbye = TRUE]
          \in Source
    BY UpdateType DEF TypeOK
  <2>2. activecount' \in Int
    BY <1>7 DEF ProcessBYE, Bit, TypeOK
  <2>3. QED
    BY <1>3, <1>7, <2>1, <2>2 DEF ProcessBYE
<1>8. QED
  BY <1>r, <1>1, <1>2, <1>4, <1>5, <1>6, <1>7
     DEF ProcessRawPacket, ProcessRTCPCompoundPacket, RTPCollision,
         RTCPCollision, from

\* What one iteration of the CSRC loop does to the types.
LEMMA ProcessCSRCType ==
  ASSUME TypeOK, ProcessCSRC
  PROVE  TypeOK'
<1>. DEFINE c == Head(csrcs)
<1>1. c \in SSRC /\ Tail(csrcs) \in Seq(SSRC)
  BY DEF ProcessCSRC, TypeOK
<1>2. csrcs' = Tail(csrcs) /\ csrcfrom' \in Sender
  BY DEF ProcessCSRC, NextCSRC, TypeOK, Sender
<1>3. CASE c \notin table
  <2>1. [src[c] EXCEPT !.validated = TRUE, !.iscsrc = TRUE] \in Source
    BY <1>1, UpdateType DEF TypeOK
  <2>2. QED
    BY <1>1, <1>2, <1>3, <2>1 DEF ProcessCSRC, Obtain, Bit, TypeOK
<1>4. CASE c \in table /\ CheckCollision(src[c], csrcfrom, TRUE)
  BY <1>1, <1>2, <1>4 DEF ProcessCSRC, TypeOK
<1>5. CASE c \in table /\ ~CheckCollision(src[c], csrcfrom, TRUE)
  <2>1. SetAddress(src[c], csrcfrom, TRUE) \in Source
    BY <1>1, SetAddressType DEF TypeOK
  <2>2. [SetAddress(src[c], csrcfrom, TRUE) EXCEPT
           !.validated = TRUE, !.iscsrc = TRUE] \in Source
    BY <2>1, UpdateType DEF TypeOK
  <2>3. QED
    BY <1>1, <1>2, <1>5, <2>2 DEF ProcessCSRC, TypeOK
<1>6. QED
  BY <1>3, <1>4, <1>5

\* Every step keeps the types.
LEMMA TypeStep ==
  ASSUME TypeOK, [Next]_vars
  PROVE  TypeOK'
<1>1. ASSUME NEW s \in SSRC, CreateOwnSSRC(s)
      PROVE  TypeOK'
  <2>1. [src[s] EXCEPT !.ownssrc = TRUE, !.validated = TRUE,
                       !.rtpaddr = NULL, !.rtcpaddr = NULL] \in Source
    BY UpdateType DEF TypeOK
  <2>2. QED
    BY <1>1, <2>1, ObtainType DEF CreateOwnSSRC, TypeOK
<1>2. ASSUME DeleteOwnSSRC
      PROVE  TypeOK'
  <2>1. own \in SSRC
    BY <1>2 DEF DeleteOwnSSRC, TypeOK
  <2>2. src' \in [SSRC -> Source] /\ heard' \in [SSRC -> Time]
    BY <1>2, <2>1, NewSourceType DEF DeleteOwnSSRC, TypeOK, Time, Never
  <2>3. totalcount' \in Int /\ sendercount' \in Int /\ activecount' \in Int
    BY <1>2 DEF DeleteOwnSSRC, Bit, TypeOK
  <2>4. QED
    BY <1>2, <2>2, <2>3 DEF DeleteOwnSSRC, TypeOK
<1>3. ASSUME SentRTPPacket
      PROVE  TypeOK'
  <2>1. own \in SSRC
    BY <1>3 DEF SentRTPPacket, TypeOK
  <2>2. [src[own] EXCEPT !.issender = TRUE, !.lastrtp = now, !.lastmsg = now]
          \in Source
    BY <2>1, UpdateType DEF TypeOK
  <2>3. QED
    BY <1>3, <2>1, <2>2 DEF SentRTPPacket, Bit, TypeOK
<1>4. ASSUME Clear
      PROVE  TypeOK'
  BY <1>4, NewSourceType DEF Clear, TypeOK, Time, Never
<1>5. ASSUME ClearOwnCollisionFlag
      PROVE  TypeOK'
  BY <1>5 DEF ClearOwnCollisionFlag, TypeOK
<1>6. ASSUME NEW gone, NEW mute, NEW stale, Sweep(gone, mute, stale)
      PROVE  TypeOK'
  BY <1>6, SweepType
<1>7. ASSUME Tick
      PROVE  TypeOK'
  BY <1>7 DEF Tick, TypeOK, Time
<1>8. ASSUME UNCHANGED vars
      PROVE  TypeOK'
  BY <1>8 DEF vars, TypeOK
<1>9. QED
  BY <1>1, <1>2, <1>3, <1>4, <1>5, <1>6, <1>7, <1>8,
     ProcessRawPacketType, ProcessCSRCType
     DEF Next, Timeout, SenderTimeout, BYETimeout, NoteTimeout, MultipleTimeouts

\* The initial values have their types.
LEMMA InitType ==
  ASSUME Init
  PROVE  TypeOK
<1>1. src \in [SSRC -> Source] /\ heard \in [SSRC -> Time]
  BY NewSourceType DEF Init, Time, Never
<1>2. now \in Time /\ received \in Time /\ csrcfrom \in Sender
  BY NumberAssumption DEF Init, Time, Sender
<1>3. csrcs \in Seq(SSRC)
  BY DEF Init
<1>4. table \in SUBSET SSRC /\ known \in SUBSET SSRC
  BY DEF Init
<1>5. totalcount \in Int /\ sendercount \in Int /\ activecount \in Int
  BY DEF Init
<1>6. own \in SSRC \cup {NoSSRC} /\ owncollision \in BOOLEAN
  BY DEF Init
<1>7. QED
  BY <1>1, <1>2, <1>3, <1>4, <1>5, <1>6 DEF TypeOK

\* The variables of the source table keep their types: whatever is received,
\* every entry is a well-formed record.
THEOREM TypeCorrect == Spec => []TypeOK
<1>1. Init => TypeOK
  BY InitType
<1>2. TypeOK /\ [Next]_vars => TypeOK'
  BY TypeStep
<1>3. QED
  BY <1>1, <1>2, PTL DEF Spec

-----------------------------------------------------------------------------
(* Addresses and the entry of our own SSRC *)

OneHost(d) ==
  \/ UNSET \in {d.rtpaddr, d.rtcpaddr}
  \/ IsFromSameHost(d.rtpaddr, d.rtcpaddr)

\* A record that may stand for s: its addresses agree, it is new when s has no
\* entry in tab, and it is the record of our own entry exactly when s is o.
EntryOK(s, d, tab, o) ==
  /\ OneHost(d)
  /\ s \notin tab => d = NewSource
  /\ IF s = o
     THEN /\ s \in tab
          /\ d.ownssrc
          /\ d.validated
          /\ ~d.receivedbye
          /\ d.rtpaddr = NULL
          /\ d.rtcpaddr = NULL
     ELSE ~d.ownssrc

\* The inductive invariant: TypeOK and EntryOK of every SSRC.  Absent entries
\* must be covered, since a handler may create any of them.
EntryInv ==
  /\ TypeOK
  /\ \A s \in SSRC : EntryOK(s, src[s], table, own)

\* A constructed record stands for any SSRC that is not our own.
LEMMA NewSourceEntryOK ==
  ASSUME NEW s, NEW tab, NEW o, s # o
  PROVE  EntryOK(s, NewSource, tab, o)
  BY DEF EntryOK, OneHost, NewSource

\* An address that did not collide leaves the two addresses on one host, and
\* keeps those of our own entry.
LEMMA SetAddressEntryOK ==
  ASSUME NEW s \in SSRC, NEW d \in Source, NEW a \in Sender, NEW b \in BOOLEAN,
         NEW tab, NEW o, EntryOK(s, d, tab, o), ~CheckCollision(d, a, b)
  PROVE  EntryOK(s, SetAddress(d, a, b), tab \cup {s}, o)
<1>. DEFINE e == SetAddress(d, a, b)
<1>1. CASE b
  <2>1. e = [d EXCEPT !.rtpaddr = a]
    BY <1>1 DEF SetAddress
  <2>2. /\ e.rtpaddr = a /\ e.rtcpaddr = d.rtcpaddr
        /\ e.ownssrc = d.ownssrc /\ e.validated = d.validated
        /\ e.receivedbye = d.receivedbye
    BY <2>1 DEF Source
  <2>3. IF d.rtpaddr # UNSET
        THEN d.rtpaddr = a
        ELSE d.rtcpaddr = UNSET \/ IsFromSameHost(d.rtcpaddr, a)
    BY <1>1 DEF CheckCollision
  <2>. HIDE DEF e
  <2>4. OneHost(e)
    BY <2>2, <2>3 DEF EntryOK, OneHost, IsFromSameHost
  <2>5. s = o => d.rtpaddr # UNSET
    BY AddrAssumption DEF EntryOK
  <2>6. QED
    BY <2>2, <2>3, <2>4, <2>5 DEF EntryOK, e
<1>2. CASE ~b
  <2>1. e = [d EXCEPT !.rtcpaddr = a]
    BY <1>2 DEF SetAddress
  <2>2. /\ e.rtcpaddr = a /\ e.rtpaddr = d.rtpaddr
        /\ e.ownssrc = d.ownssrc /\ e.validated = d.validated
        /\ e.receivedbye = d.receivedbye
    BY <2>1 DEF Source
  <2>3. IF d.rtcpaddr # UNSET
        THEN d.rtcpaddr = a
        ELSE d.rtpaddr = UNSET \/ IsFromSameHost(d.rtpaddr, a)
    BY <1>2 DEF CheckCollision
  <2>. HIDE DEF e
  <2>4. OneHost(e)
    BY <2>2, <2>3 DEF EntryOK, OneHost, IsFromSameHost
  <2>5. s = o => d.rtcpaddr # UNSET
    BY AddrAssumption DEF EntryOK
  <2>6. QED
    BY <2>2, <2>3, <2>4, <2>5 DEF EntryOK, e
<1>3. QED
  BY <1>1, <1>2

\* EntryOK only looks at some fields: a record that agrees on them will do.
LEMMA SameEntryOK ==
  ASSUME NEW s, NEW d, NEW e, NEW tab, NEW o, EntryOK(s, d, tab, o), s \in tab,
         e.rtpaddr = d.rtpaddr, e.rtcpaddr = d.rtcpaddr, e.ownssrc = d.ownssrc,
         e.validated \in {d.validated, TRUE}, s = o => ~e.receivedbye
  PROVE  EntryOK(s, e, tab, o)
  BY DEF EntryOK, OneHost

\* A step that writes one entry, creating it if need be.
LEMMA OneEntryStep ==
  ASSUME EntryInv, NEW s \in SSRC, NEW e,
         src' = [src EXCEPT ![s] = e], table' = table \cup {s}, own' = own,
         EntryOK(s, e, table \cup {s}, own)
  PROVE  \A r \in SSRC : EntryOK(r, src'[r], table', own')
<1>. SUFFICES ASSUME NEW r \in SSRC PROVE EntryOK(r, src'[r], table', own')
  OBVIOUS
<1>1. CASE r = s
  BY <1>1 DEF EntryInv, TypeOK
<1>2. CASE r # s
  <2>1. src'[r] = src[r] /\ (r \in table' <=> r \in table)
    BY <1>2 DEF EntryInv, TypeOK
  <2>2. EntryOK(r, src[r], table, own)
    BY DEF EntryInv
  <2>3. QED
    BY <2>1, <2>2 DEF EntryOK
<1>3. QED
  BY <1>1, <1>2

\* The same for a sweep: what goes is not our own entry.
LEMMA SweepEntryOK ==
  ASSUME EntryInv, NEW gone, NEW mute, NEW stale, Sweep(gone, mute, stale),
         own \notin gone
  PROVE  \A r \in SSRC : EntryOK(r, src'[r], table', own')
<1>. SUFFICES ASSUME NEW r \in SSRC PROVE EntryOK(r, src'[r], table', own')
  OBVIOUS
<1>. DEFINE e == [src[r] EXCEPT !.issender = @ /\ r \notin mute,
                                !.note = @ /\ r \notin stale]
<1>1. /\ table' = table \ gone
      /\ own' = own
      /\ src'[r] = IF r \in gone THEN NewSource ELSE e
  BY DEF Sweep
<1>2. EntryOK(r, src[r], table, own)
  BY DEF EntryInv
<1>3. CASE r \in gone
  BY <1>1, <1>3, NewSourceEntryOK
<1>4. CASE r \notin gone
  <2>1. src[r] \in Source
    BY DEF EntryInv, TypeOK
  <2>2. /\ e.rtpaddr = src[r].rtpaddr /\ e.rtcpaddr = src[r].rtcpaddr
        /\ e.ownssrc = src[r].ownssrc /\ e.validated = src[r].validated
        /\ e.receivedbye = src[r].receivedbye
    BY <2>1 DEF Source
  <2>3. src[r] = NewSource => e = NewSource
    <3>. SUFFICES ASSUME src[r] = NewSource PROVE e = NewSource
      OBVIOUS
    <3>1. (src[r].issender /\ r \notin mute) = FALSE
          /\ (src[r].note /\ r \notin stale) = FALSE
      BY DEF NewSource
    <3>2. e = [NewSource EXCEPT !.issender = FALSE, !.note = FALSE]
      BY <3>1
    <3>3. NewSource.issender = FALSE /\ NewSource.note = FALSE
      BY DEF NewSource
    <3>4. QED
      BY <3>2, <3>3, NewSourceType DEF Source
  <2>. HIDE DEF e
  <2>4. QED
    BY <1>1, <1>2, <1>4, <2>2, <2>3 DEF EntryOK, OneHost
<1>5. QED
  BY <1>3, <1>4

\* A block of an RTCP packet that changes nothing EntryOK looks at.
LEMMA StoreRTCPEntryOK ==
  ASSUME EntryInv, NEW s \in SSRC, NEW a \in Sender, NEW d \in Source, NEW t,
         StoreRTCP(s, a, d, t),
         d.rtpaddr = src[s].rtpaddr, d.rtcpaddr = src[s].rtcpaddr,
         d.ownssrc = src[s].ownssrc, d.validated \in {src[s].validated, TRUE},
         s = own => ~d.receivedbye
  PROVE  \A r \in SSRC : EntryOK(r, src'[r], table', own')
<1>1. EntryOK(s, src[s], table \cup {s}, own)
  BY DEF EntryInv, EntryOK
<1>2. EntryOK(s, d, table \cup {s}, own)
  BY <1>1, SameEntryOK
<1>3. ~CheckCollision(d, a, FALSE)
  BY DEF StoreRTCP, CheckCollision
<1>4. EntryOK(s, SetAddress(d, a, FALSE), table \cup {s}, own)
  BY <1>2, <1>3, SetAddressEntryOK, (table \cup {s}) \cup {s} = table \cup {s}
<1>5. QED
  BY <1>4, OneEntryStep DEF StoreRTCP, Obtain

\* An RTP packet leaves everything EntryOK looks at but validation.
LEMMA ReceiveRTPKeeps ==
  ASSUME NEW d \in Source, NEW isnext \in BOOLEAN, NEW t
  PROVE  LET e == ReceiveRTP(d, isnext, t)
         IN  /\ e.rtpaddr = d.rtpaddr /\ e.rtcpaddr = d.rtcpaddr
             /\ e.ownssrc = d.ownssrc /\ e.validated \in {d.validated, TRUE}
             /\ e.receivedbye = d.receivedbye
             /\ d.issender => e.issender
  BY DEF ReceiveRTP, Source

\* An RTP packet.
LEMMA ProcessRTPPacketEntryOK ==
  ASSUME EntryInv, NEW s \in SSRC, NEW a \in Sender, NEW isnext \in BOOLEAN,
         NEW list, NEW t, ProcessRTPPacket(s, isnext, list, a, t)
  PROVE  \A r \in SSRC : EntryOK(r, src'[r], table', own')
<1>. DEFINE d == SetAddress(src[s], a, TRUE)
            e == ReceiveRTP(d, isnext, t)
<1>1. src[s] \in Source /\ EntryOK(s, src[s], table, own)
  BY DEF EntryInv, TypeOK
<1>2. ~CheckCollision(src[s], a, TRUE)
  BY DEF ProcessRTPPacket
<1>3. EntryOK(s, d, table \cup {s}, own) /\ d \in Source
  BY <1>1, <1>2, SetAddressEntryOK, SetAddressType
<1>4. EntryOK(s, e, table \cup {s}, own)
  <2>1. /\ e.rtpaddr = d.rtpaddr /\ e.rtcpaddr = d.rtcpaddr
        /\ e.ownssrc = d.ownssrc /\ e.validated \in {d.validated, TRUE}
        /\ e.receivedbye = d.receivedbye
    BY <1>3, ReceiveRTPKeeps
  <2>2. s = own => ~d.receivedbye
    BY <1>3 DEF EntryOK
  <2>. HIDE DEF d, e
  <2>3. s \in table \cup {s} /\ (s = own => ~e.receivedbye)
    BY <2>1, <2>2
  <2>4. QED
    BY <1>3, <2>1, <2>3, SameEntryOK
<1>5. src' = [src EXCEPT ![s] = e] /\ table' = table \cup {s} /\ own' = own
  BY DEF ProcessRTPPacket, Obtain
<1>. HIDE DEF e
<1>6. QED
  BY <1>4, <1>5, OneEntryStep

\* One iteration of the CSRC loop.
LEMMA ProcessCSRCEntryOK ==
  ASSUME EntryInv, ProcessCSRC
  PROVE  \A r \in SSRC : EntryOK(r, src'[r], table', own')
<1>. DEFINE c == Head(csrcs)
<1>1. c \in SSRC /\ csrcfrom \in Sender
  BY DEF EntryInv, TypeOK, ProcessCSRC
<1>2. src[c] \in Source /\ EntryOK(c, src[c], table, own)
  BY <1>1 DEF EntryInv, TypeOK
<1>3. ASSUME NEW d \in Source, EntryOK(c, d, table \cup {c}, own)
      PROVE  EntryOK(c, [d EXCEPT !.validated = TRUE, !.iscsrc = TRUE],
                     table \cup {c}, own)
  <2>. DEFINE e == [d EXCEPT !.validated = TRUE, !.iscsrc = TRUE]
  <2>1. /\ e.rtpaddr = d.rtpaddr /\ e.rtcpaddr = d.rtcpaddr
        /\ e.ownssrc = d.ownssrc /\ e.validated = TRUE
        /\ e.receivedbye = d.receivedbye
    BY DEF Source
  <2>2. c \in table \cup {c} /\ (c = own => ~e.receivedbye)
    BY <1>3, <2>1 DEF EntryOK
  <2>. HIDE DEF e
  <2>3. EntryOK(c, e, table \cup {c}, own)
    BY <1>3, <2>1, <2>2, SameEntryOK
  <2>4. QED
    BY <2>3 DEF e
<1>. HIDE DEF c
<1>4. CASE c \notin table
  <2>1. EntryOK(c, src[c], table \cup {c}, own)
    BY <1>2, <1>4 DEF EntryOK
  <2>2. /\ src' = [src EXCEPT ![c] = [src[c] EXCEPT !.validated = TRUE,
                                                    !.iscsrc = TRUE]]
        /\ table' = table \cup {c}
        /\ own' = own
    BY <1>4 DEF ProcessCSRC, Obtain, c
  <2>3. QED
    BY <1>1, <1>2, <1>3, <2>1, <2>2, OneEntryStep
<1>5. CASE c \in table /\ CheckCollision(src[c], csrcfrom, TRUE)
  <2>1. UNCHANGED <<src, table, own>>
    BY <1>5 DEF ProcessCSRC, c
  <2>2. QED
    BY <2>1 DEF EntryInv
<1>6. CASE c \in table /\ ~CheckCollision(src[c], csrcfrom, TRUE)
  <2>. DEFINE d == SetAddress(src[c], csrcfrom, TRUE)
  <2>1. EntryOK(c, d, table \cup {c}, own) /\ d \in Source
    BY <1>1, <1>2, <1>6, SetAddressEntryOK, SetAddressType
  <2>2. /\ src' = [src EXCEPT ![c] = [d EXCEPT !.validated = TRUE,
                                               !.iscsrc = TRUE]]
        /\ table' = table \cup {c}
        /\ own' = own
    BY <1>6 DEF ProcessCSRC, c
  <2>. HIDE DEF d
  <2>3. QED
    BY <1>1, <1>3, <2>1, <2>2, OneEntryStep
<1>7. QED
  BY <1>4, <1>5, <1>6

\* Any handler of one packet.
LEMMA ProcessRawPacketEntryOK ==
  ASSUME EntryInv, NEW a \in Addr, ProcessRawPacket(a)
  PROVE  \A r \in SSRC : EntryOK(r, src'[r], table', own')
<1>. DEFINE from == IF a \in OwnAddr THEN NULL ELSE a
            Goal == \A r \in SSRC : EntryOK(r, src'[r], table', own')
<1>0. from \in Sender /\ \A t \in received..now : t \in Time
  BY FromType DEF EntryInv, TypeOK, Time
<1>. HIDE DEF from
<1>1. ASSUME NEW s \in SSRC, OnSSRCCollision(s)
      PROVE  Goal
  BY <1>1 DEF OnSSRCCollision, EntryInv
<1>2. ASSUME NEW s \in SSRC, NEW t \in Time, UpdateReceiveTime(s, from, t)
      PROVE  Goal
  <2>. DEFINE d == [src[s] EXCEPT !.lastmsg = t]
  <2>1. src[s] \in Source /\ EntryOK(s, src[s], table, own)
    BY DEF EntryInv, TypeOK
  <2>2. d \in Source
    BY <1>0, <2>1, UpdateType
  <2>3. /\ d.rtpaddr = src[s].rtpaddr /\ d.rtcpaddr = src[s].rtcpaddr
        /\ d.ownssrc = src[s].ownssrc /\ d.validated = src[s].validated
        /\ d.receivedbye = src[s].receivedbye
    BY <2>1 DEF Source
  <2>4. StoreRTCP(s, from, d, t) /\ (s = own => ~src[s].receivedbye)
    BY <1>2, <2>1 DEF UpdateReceiveTime, EntryOK
  <2>. HIDE DEF d
  <2>5. QED
    BY <1>0, <2>2, <2>3, <2>4, StoreRTCPEntryOK
<1>3. ASSUME NEW s \in SSRC, NEW t \in Time, NEW c \in CName \cup {NoCName},
             ProcessCNAME(s, c, from, t)
      PROVE  Goal
  <2>. DEFINE first == src[s].cname = NoCName
              name == IF first THEN c ELSE src[s].cname
              valid == src[s].validated \/ first
              d == [src[s] EXCEPT !.lastmsg = t, !.cname = name,
                                  !.validated = valid]
  <2>1. src[s] \in Source /\ EntryOK(s, src[s], table, own)
    BY DEF EntryInv, TypeOK
  <2>2. /\ name \in CName \cup {NoCName} /\ valid \in BOOLEAN
        /\ valid \in {src[s].validated, TRUE}
    BY <2>1 DEF Source
  <2>3. StoreRTCP(s, from, d, t) /\ (s = own => ~src[s].receivedbye)
    BY <1>3, <2>1 DEF ProcessCNAME, EntryOK
  <2>. HIDE DEF name, valid
  <2>4. d \in Source
    BY <1>0, <2>1, <2>2, UpdateType
  <2>5. /\ d.rtpaddr = src[s].rtpaddr /\ d.rtcpaddr = src[s].rtcpaddr
        /\ d.ownssrc = src[s].ownssrc /\ d.validated \in {src[s].validated, TRUE}
        /\ d.receivedbye = src[s].receivedbye
    BY <2>1, <2>2 DEF Source
  <2>. HIDE DEF d
  <2>6. QED
    BY <1>0, <2>3, <2>4, <2>5, StoreRTCPEntryOK
<1>4. ASSUME NEW s \in SSRC, NEW t \in Time, NEW text \in BOOLEAN, ProcessNOTE(s, text, from, t)
      PROVE  Goal
  <2>. DEFINE d == [src[s] EXCEPT !.lastmsg = t, !.note = text, !.notetime = t]
  <2>1. src[s] \in Source /\ EntryOK(s, src[s], table, own)
    BY DEF EntryInv, TypeOK
  <2>2. d \in Source
    BY <1>0, <2>1, UpdateType
  <2>3. /\ d.rtpaddr = src[s].rtpaddr /\ d.rtcpaddr = src[s].rtcpaddr
        /\ d.ownssrc = src[s].ownssrc /\ d.validated = src[s].validated
        /\ d.receivedbye = src[s].receivedbye
    BY <2>1 DEF Source
  <2>4. StoreRTCP(s, from, d, t) /\ (s = own => ~src[s].receivedbye)
    BY <1>4, <2>1 DEF ProcessNOTE, EntryOK
  <2>. HIDE DEF d
  <2>5. QED
    BY <1>0, <2>2, <2>3, <2>4, StoreRTCPEntryOK
<1>5. ASSUME NEW s \in SSRC, NEW t \in Time, ProcessBYE(s, from, t)
      PROVE  Goal
  <2>. DEFINE d == [src[s] EXCEPT !.lastmsg = t, !.byetime = t,
                                  !.receivedbye = TRUE]
  <2>1. src[s] \in Source
    BY DEF EntryInv, TypeOK
  <2>2. d \in Source
    BY <1>0, <2>1, UpdateType
  <2>3. /\ d.rtpaddr = src[s].rtpaddr /\ d.rtcpaddr = src[s].rtcpaddr
        /\ d.ownssrc = src[s].ownssrc /\ d.validated = src[s].validated
    BY <2>1 DEF Source
  <2>4. StoreRTCP(s, from, d, t) /\ s # own
    BY <1>5 DEF ProcessBYE
  <2>. HIDE DEF d
  <2>5. QED
    BY <1>0, <2>2, <2>3, <2>4, StoreRTCPEntryOK
<1>6. QED
  BY <1>0, <1>1, <1>2, <1>3, <1>4, <1>5, ProcessRTPPacketEntryOK
     DEF ProcessRawPacket, ProcessRTCPCompoundPacket, RTPCollision,
         RTCPCollision, from

\* Every step keeps the inductive invariant.
LEMMA EntryStep ==
  ASSUME EntryInv, [Next]_vars
  PROVE  EntryInv'
<1>. DEFINE Goal == \A r \in SSRC : EntryOK(r, src'[r], table', own')
<1>0. TypeOK'
  BY TypeStep DEF EntryInv
<1>1. ASSUME NEW s \in SSRC, CreateOwnSSRC(s)
      PROVE  Goal
  <2>. DEFINE e == [src[s] EXCEPT !.ownssrc = TRUE, !.validated = TRUE,
                                  !.rtpaddr = NULL, !.rtcpaddr = NULL]
  <2>1. src[s] = NewSource /\ src[s] \in Source
    BY <1>1 DEF CreateOwnSSRC, EntryInv, EntryOK, TypeOK
  <2>2. /\ e.ownssrc /\ e.validated /\ ~e.receivedbye
        /\ e.rtpaddr = NULL /\ e.rtcpaddr = NULL
    BY <2>1 DEF Source, NewSource
  <2>3. /\ src' = [src EXCEPT ![s] = e]
        /\ table' = table \cup {s}
        /\ own' = s
        /\ own \notin SSRC
    BY <1>1, SSRCAssumption DEF CreateOwnSSRC, Obtain
  <2>. HIDE DEF e
  <2>4. SUFFICES ASSUME NEW r \in SSRC PROVE EntryOK(r, src'[r], table', own')
    OBVIOUS
  <2>5. CASE r = s
    BY <2>2, <2>3, <2>5 DEF EntryOK, OneHost, IsFromSameHost, EntryInv, TypeOK
  <2>6. CASE r # s
    <3>1. src'[r] = src[r] /\ r # own
      BY <2>3, <2>6 DEF EntryInv, TypeOK
    <3>2. EntryOK(r, src[r], table, own)
      BY DEF EntryInv
    <3>3. QED
      BY <2>3, <2>6, <3>1, <3>2 DEF EntryOK
  <2>7. QED
    BY <2>5, <2>6
<1>2. ASSUME DeleteOwnSSRC
      PROVE  Goal
  <2>1. own \in SSRC
    BY <1>2 DEF DeleteOwnSSRC, EntryInv, TypeOK
  <2>2. /\ src' = [src EXCEPT ![own] = NewSource]
        /\ table' = table \ {own}
        /\ own' = NoSSRC
    BY <1>2 DEF DeleteOwnSSRC
  <2>3. SUFFICES ASSUME NEW r \in SSRC PROVE EntryOK(r, src'[r], table', own')
    OBVIOUS
  <2>4. r # NoSSRC
    BY SSRCAssumption
  <2>5. CASE r = own
    BY <2>1, <2>2, <2>4, <2>5, NewSourceEntryOK DEF EntryInv, TypeOK
  <2>6. CASE r # own
    <3>1. src'[r] = src[r]
      BY <2>2, <2>6 DEF EntryInv, TypeOK
    <3>2. EntryOK(r, src[r], table, own)
      BY DEF EntryInv
    <3>3. QED
      BY <2>2, <2>4, <2>6, <3>1, <3>2 DEF EntryOK
  <2>7. QED
    BY <2>5, <2>6
<1>3. ASSUME SentRTPPacket
      PROVE  Goal
  <2>. DEFINE e == [src[own] EXCEPT !.issender = TRUE, !.lastrtp = now,
                                    !.lastmsg = now]
  <2>1. own \in SSRC
    BY <1>3 DEF SentRTPPacket, EntryInv, TypeOK
  <2>2. src[own] \in Source /\ EntryOK(own, src[own], table, own)
    BY <2>1 DEF EntryInv, TypeOK
  <2>3. /\ e.rtpaddr = src[own].rtpaddr /\ e.rtcpaddr = src[own].rtcpaddr
        /\ e.ownssrc = src[own].ownssrc
        /\ e.validated \in {src[own].validated, TRUE}
        /\ e.receivedbye = src[own].receivedbye
    BY <2>2 DEF Source
  <2>4. ~src[own].receivedbye /\ own \in table
    BY <2>2 DEF EntryOK
  <2>5. /\ src' = [src EXCEPT ![own] = e]
        /\ table' = table \cup {own}
        /\ own' = own
    BY <1>3, <2>4 DEF SentRTPPacket
  <2>. HIDE DEF e
  <2>6. EntryOK(own, e, table, own)
    BY <2>2, <2>3, <2>4, SameEntryOK
  <2>7. EntryOK(own, e, table \cup {own}, own)
    BY <2>4, <2>6 DEF EntryOK
  <2>8. QED
    BY <2>1, <2>5, <2>7, OneEntryStep
<1>4. ASSUME Clear
      PROVE  Goal
  BY <1>4, SSRCAssumption, NewSourceEntryOK DEF Clear
<1>5. ASSUME UNCHANGED <<table, src, own>>
      PROVE  Goal
  BY <1>5 DEF EntryInv
<1>6. ASSUME NEW d \in Delay, Timeout(d)
      PROVE  Goal
  BY <1>6, SweepEntryOK DEF Timeout, Silent
<1>7. ASSUME NEW d \in Delay, SenderTimeout(d)
      PROVE  Goal
  BY <1>7, SweepEntryOK DEF SenderTimeout
<1>8. ASSUME NEW d \in Delay, BYETimeout(d)
      PROVE  Goal
  BY <1>8, SweepEntryOK DEF BYETimeout, ByeOver
<1>9. ASSUME NEW d \in Delay, NoteTimeout(d)
      PROVE  Goal
  BY <1>9, SweepEntryOK DEF NoteTimeout
<1>10. ASSUME NEW d1 \in Delay, NEW d2 \in Delay, NEW d3 \in Delay,
              NEW d4 \in Delay, MultipleTimeouts(d1, d2, d3, d4)
       PROVE  Goal
  BY <1>10, SweepEntryOK DEF MultipleTimeouts, Silent, ByeOver
<1>11. Goal
  <2>1. CASE ClearOwnCollisionFlag \/ Tick \/ UNCHANGED vars
    BY <2>1, <1>5 DEF ClearOwnCollisionFlag, Tick, vars
  <2>2. CASE \E a \in Addr : ProcessRawPacket(a)
    BY <2>2, ProcessRawPacketEntryOK
  <2>3. CASE ProcessCSRC
    BY <2>3, ProcessCSRCEntryOK
  <2>4. QED
    BY <1>1, <1>2, <1>3, <1>4, <1>6, <1>7, <1>8, <1>9, <1>10,
       <2>1, <2>2, <2>3 DEF Next
<1>12. QED
  BY <1>0, <1>11 DEF EntryInv

\* The table starts empty.
LEMMA InitEntryInv ==
  ASSUME Init
  PROVE  EntryInv
<1>1. TypeOK
  BY InitType
<1>2. \A s \in SSRC : s # own /\ src[s] = NewSource
  BY SSRCAssumption DEF Init
<1>3. QED
  BY <1>1, <1>2, NewSourceEntryOK DEF EntryInv

\* EntryInv holds throughout.
LEMMA EntryInvariant == Spec => []EntryInv
<1>1. Init => EntryInv
  BY InitEntryInv
<1>2. EntryInv /\ [Next]_vars => EntryInv'
  BY EntryStep
<1>3. QED
  BY <1>1, <1>2, PTL DEF Spec

\* Nothing that arrives from the network, under our SSRC or another, in a CSRC
\* list or in a BYE, removes, devalidates or readdresses our own entry, and no
\* other entry passes for ours: the guard is CheckCollision together with the
\* owndata tests of ProcessBYE and of the timeouts.
THEOREM OwnEntrySafe == Spec => []OwnEntryIntact
<1>1. EntryInv => OwnEntryIntact
  BY DEF EntryInv, EntryOK, OwnEntryIntact, IsActive
<1>2. QED
  BY <1>1, EntryInvariant, PTL

\* The two addresses of a source lie on one host whichever was learned first.
THEOREM AddressesSafe == Spec => []AddressesOnOneHost
<1>1. EntryInv => AddressesOnOneHost
  BY DEF EntryInv, EntryOK, OneHost, AddressesOnOneHost, TypeOK
<1>2. QED
  BY <1>1, EntryInvariant, PTL

-----------------------------------------------------------------------------
(* The counters *)

Senders == {s \in table : src[s].issender}
Actives == {s \in table : IsActive(src[s])}

\* The inductive invariant of the counters.  EntryInv is needed because an
\* absent entry must count for nothing when a handler creates it, and because
\* deleting our own entry subtracts what it was counted for.
CountInv ==
  /\ EntryInv
  /\ totalcount = Cardinality(table)
  /\ sendercount = Cardinality(Senders)
  /\ activecount <= Cardinality(Actives)

\* The active members GetActiveMemberCount leaves out.
Uncounted == Cardinality(Actives) - activecount

\* What taking one SSRC out of a set does to its size.
LEMMA CardRemove ==
  ASSUME NEW S \in SUBSET SSRC, NEW s
  PROVE  /\ Cardinality(S) \in Nat
         /\ Cardinality(S \ {s}) = Cardinality(S) - Bit(s \in S)
<1>1. IsFiniteSet(S)
  BY SSRCAssumption, FS_Subset
<1>2. Cardinality(S) \in Nat
  BY <1>1, FS_CardinalityType
<1>3. Cardinality(S \ {s})
        = IF s \in S THEN Cardinality(S) - 1 ELSE Cardinality(S)
  BY <1>1, FS_RemoveElement
<1>4. CASE s \in S
  BY <1>2, <1>3, <1>4 DEF Bit
<1>5. CASE s \notin S
  BY <1>2, <1>3, <1>5 DEF Bit
<1>6. QED
  BY <1>4, <1>5

\* Two sets of SSRCs that differ at most in s differ in size accordingly.
LEMMA CardOne ==
  ASSUME NEW S \in SUBSET SSRC, NEW T \in SUBSET SSRC, NEW s,
         S \ {s} = T \ {s}
  PROVE  Cardinality(T) = Cardinality(S) + Bit(s \in T) - Bit(s \in S)
<1>1. /\ Cardinality(S) \in Nat
      /\ Cardinality(S \ {s}) = Cardinality(S) - Bit(s \in S)
  BY CardRemove
<1>2. /\ Cardinality(T) \in Nat
      /\ Cardinality(T \ {s}) = Cardinality(T) - Bit(s \in T)
  BY CardRemove
<1>3. Bit(s \in S) \in Int /\ Bit(s \in T) \in Int
  BY DEF Bit
<1>4. Cardinality(S \ {s}) = Cardinality(T \ {s})
  OBVIOUS
<1>5. QED
  BY <1>1, <1>2, <1>3, <1>4

\* How the sizes change when one entry is written.
LEMMA OneEntryCounts ==
  ASSUME EntryInv, NEW s \in SSRC, NEW e \in Source,
         src' = [src EXCEPT ![s] = e], table' = table \cup {s}
  PROVE  /\ Cardinality(table') = Cardinality(table) + Bit(s \notin table)
         /\ Cardinality(Senders') =
              Cardinality(Senders) + Bit(e.issender) - Bit(src[s].issender)
         /\ Cardinality(Actives') =
              Cardinality(Actives) + Bit(IsActive(e)) - Bit(IsActive(src[s]))
<1>1. /\ table \in SUBSET SSRC /\ table' \in SUBSET SSRC
      /\ src'[s] = e
      /\ \A r \in table \ {s} : src'[r] = src[r]
      /\ table \ {s} = table' \ {s}
  BY DEF EntryInv, TypeOK
<1>2. /\ Cardinality(table) \in Nat /\ Cardinality(Senders) \in Nat
      /\ Cardinality(Actives) \in Nat
  BY <1>1, CardType DEF Senders, Actives
<1>3. s \notin table => ~src[s].issender /\ ~IsActive(src[s])
  BY DEF EntryInv, EntryOK, NewSource, IsActive
<1>4. Cardinality(table') = Cardinality(table) + Bit(s \notin table)
  <2>1. Cardinality(table') = Cardinality(table) + Bit(s \in table')
                                                 - Bit(s \in table)
    BY <1>1, CardOne
  <2>2. QED
    BY <1>2, <2>1 DEF Bit
<1>5. Cardinality(Senders') =
        Cardinality(Senders) + Bit(e.issender) - Bit(src[s].issender)
  <2>1. /\ Senders \in SUBSET SSRC /\ Senders' \in SUBSET SSRC
        /\ Senders \ {s} = Senders' \ {s}
    BY <1>1 DEF Senders
  <2>2. /\ s \in Senders' <=> e.issender
        /\ s \in Senders <=> src[s].issender
    BY <1>1, <1>3 DEF Senders
  <2>3. QED
    BY <2>1, <2>2, CardOne DEF Bit
<1>6. Cardinality(Actives') =
        Cardinality(Actives) + Bit(IsActive(e)) - Bit(IsActive(src[s]))
  <2>1. /\ Actives \in SUBSET SSRC /\ Actives' \in SUBSET SSRC
        /\ Actives \ {s} = Actives' \ {s}
    BY <1>1 DEF Actives
  <2>2. /\ s \in Actives' <=> IsActive(e)
        /\ s \in Actives <=> IsActive(src[s])
    BY <1>1, <1>3 DEF Actives
  <2>3. QED
    BY <2>1, <2>2, CardOne DEF Bit
<1>7. QED
  BY <1>4, <1>5, <1>6

\* A sweep recounts.
LEMMA SweepCounts ==
  ASSUME EntryInv, NEW gone, NEW mute, NEW stale, Sweep(gone, mute, stale)
  PROVE  /\ totalcount' = Cardinality(table')
         /\ sendercount' = Cardinality(Senders')
         /\ activecount' = Cardinality(Actives')
  BY DEF Sweep, Recount, Senders, Actives, EntryInv, TypeOK

\* The packet handlers count what they change.
LEMMA ProcessRawPacketCounts ==
  ASSUME CountInv, NEW a \in Addr, ProcessRawPacket(a)
  PROVE  /\ totalcount' = Cardinality(table')
         /\ sendercount' = Cardinality(Senders')
         /\ Uncounted' = Uncounted
<1>. DEFINE from == IF a \in OwnAddr THEN NULL ELSE a
            Goal == /\ totalcount' = Cardinality(table')
                    /\ sendercount' = Cardinality(Senders')
                    /\ Uncounted' = Uncounted
<1>0. from \in Sender /\ \A t \in received..now : t \in Time
  BY FromType DEF CountInv, EntryInv, TypeOK, Time
<1>1. /\ EntryInv /\ TypeOK
      /\ Cardinality(table) \in Nat /\ Cardinality(Senders) \in Nat
      /\ Cardinality(Actives) \in Nat /\ activecount \in Int
      /\ totalcount = Cardinality(table)
      /\ sendercount = Cardinality(Senders)
  BY CardType DEF CountInv, EntryInv, TypeOK, Senders, Actives
<1>. HIDE DEF from
<1>2. ASSUME NEW s \in SSRC, OnSSRCCollision(s)
      PROVE  Goal
  BY <1>1, <1>2 DEF OnSSRCCollision, Senders, Actives, Uncounted
<1>3. ASSUME NEW s \in SSRC, NEW t \in Time, NEW isnext \in BOOLEAN, NEW list,
             ProcessRTPPacket(s, isnext, list, from, t)
      PROVE  Goal
  <2>. DEFINE e == ReceiveRTP(SetAddress(src[s], from, TRUE), isnext, t)
  <2>1. SetAddress(src[s], from, TRUE) \in Source /\ src[s] \in Source
    BY <1>0, <1>1, SetAddressType DEF TypeOK
  <2>2. SetAddress(src[s], from, TRUE).issender = src[s].issender
    BY <2>1 DEF SetAddress, Source
  <2>3. e \in Source /\ (src[s].issender => e.issender)
    BY <1>0, <1>1, <2>1, <2>2, ReceiveRTPType, ReceiveRTPKeeps
  <2>4. IsActive(src[s]) => IsActive(e)
    <3>1. /\ SetAddress(src[s], from, TRUE).validated = src[s].validated
          /\ SetAddress(src[s], from, TRUE).receivedbye = src[s].receivedbye
      BY <2>1 DEF SetAddress, Source
    <3>2. QED
      BY <2>1, <3>1, ReceiveRTPKeeps DEF IsActive
  <2>5. /\ src' = [src EXCEPT ![s] = e]
        /\ table' = table \cup {s}
        /\ totalcount' = totalcount + Bit(s \notin table)
        /\ sendercount' = sendercount + Bit(e.issender /\ ~src[s].issender)
        /\ activecount' = activecount + Bit(IsActive(e) /\ ~IsActive(src[s]))
    BY <1>3 DEF ProcessRTPPacket, Obtain
  <2>. HIDE DEF e
  <2>6. /\ Cardinality(table') = Cardinality(table) + Bit(s \notin table)
        /\ Cardinality(Senders') =
             Cardinality(Senders) + Bit(e.issender) - Bit(src[s].issender)
        /\ Cardinality(Actives') =
             Cardinality(Actives) + Bit(IsActive(e)) - Bit(IsActive(src[s]))
    BY <1>1, <2>3, <2>5, OneEntryCounts
  <2>7. sendercount' = Cardinality(Senders')
    BY <1>1, <2>3, <2>5, <2>6 DEF Bit
  <2>8. Uncounted' = Uncounted
    BY <1>1, <2>4, <2>5, <2>6 DEF Bit, Uncounted
  <2>9. QED
    BY <1>1, <2>5, <2>6, <2>7, <2>8
<1>4. ASSUME NEW s \in SSRC, NEW t \in Time, NEW d \in Source, StoreRTCP(s, from, d, t),
             d.issender = src[s].issender,
             activecount' + Bit(IsActive(src[s])) = activecount + Bit(IsActive(d)),
             activecount' \in Int
      PROVE  Goal
  <2>. DEFINE e == SetAddress(d, from, FALSE)
  <2>1. /\ e \in Source
        /\ e.issender = d.issender
        /\ e.validated = d.validated /\ e.receivedbye = d.receivedbye
    BY <1>0, SetAddressType DEF SetAddress, Source
  <2>2. /\ src' = [src EXCEPT ![s] = e]
        /\ table' = table \cup {s}
        /\ totalcount' = totalcount + Bit(s \notin table)
        /\ sendercount' = sendercount
    BY <1>4 DEF StoreRTCP, Obtain
  <2>. HIDE DEF e
  <2>3. /\ Bit(IsActive(e)) = Bit(IsActive(d))
        /\ Bit(IsActive(d)) \in Int /\ Bit(IsActive(src[s])) \in Int
    BY <2>1 DEF IsActive, Bit
  <2>4. /\ Cardinality(table') = Cardinality(table) + Bit(s \notin table)
        /\ Cardinality(Senders') =
             Cardinality(Senders) + Bit(e.issender) - Bit(src[s].issender)
        /\ Cardinality(Actives') =
             Cardinality(Actives) + Bit(IsActive(e)) - Bit(IsActive(src[s]))
    BY <1>1, <2>1, <2>2, OneEntryCounts
  <2>5. sendercount' = Cardinality(Senders')
    BY <1>1, <1>4, <2>1, <2>2, <2>4 DEF Bit
  <2>6. Uncounted' = Uncounted
    BY <1>1, <1>4, <2>3, <2>4 DEF Uncounted
  <2>7. QED
    BY <1>1, <2>2, <2>4, <2>5, <2>6
<1>5. ASSUME NEW s \in SSRC, NEW t \in Time, UpdateReceiveTime(s, from, t)
      PROVE  Goal
  <2>. DEFINE d == [src[s] EXCEPT !.lastmsg = t]
  <2>1. src[s] \in Source
    BY <1>1 DEF TypeOK
  <2>2. d \in Source
    BY <1>0, <2>1, UpdateType
  <2>3. d.issender = src[s].issender /\ (IsActive(d) <=> IsActive(src[s]))
    BY <2>1 DEF Source, IsActive
  <2>4. StoreRTCP(s, from, d, t) /\ activecount' = activecount
    BY <1>5 DEF UpdateReceiveTime
  <2>. HIDE DEF d
  <2>5. QED
    BY <1>1, <1>4, <2>2, <2>3, <2>4 DEF Bit
<1>6. ASSUME NEW s \in SSRC, NEW t \in Time, NEW c \in CName \cup {NoCName},
             ProcessCNAME(s, c, from, t)
      PROVE  Goal
  <2>. DEFINE first == src[s].cname = NoCName
              name == IF first THEN c ELSE src[s].cname
              valid == src[s].validated \/ first
              d == [src[s] EXCEPT !.lastmsg = t, !.cname = name,
                                  !.validated = valid]
  <2>1. src[s] \in Source
    BY <1>1 DEF TypeOK
  <2>2. /\ name \in CName \cup {NoCName} /\ valid \in BOOLEAN
        /\ src[s].validated => valid
    BY <2>1 DEF Source
  <2>3. /\ StoreRTCP(s, from, d, t)
        /\ activecount' = activecount + Bit(IsActive(d) /\ ~IsActive(src[s]))
    BY <1>6 DEF ProcessCNAME
  <2>. HIDE DEF name, valid
  <2>4. d \in Source
    BY <1>0, <2>1, <2>2, UpdateType
  <2>5. d.issender = src[s].issender /\ (IsActive(src[s]) => IsActive(d))
    BY <2>1, <2>2 DEF Source, IsActive
  <2>. HIDE DEF d
  <2>6. /\ activecount' + Bit(IsActive(src[s])) = activecount + Bit(IsActive(d))
        /\ activecount' \in Int
    BY <1>1, <2>3, <2>5 DEF Bit
  <2>7. QED
    BY <1>4, <2>3, <2>4, <2>5, <2>6
<1>7. ASSUME NEW s \in SSRC, NEW t \in Time, NEW text \in BOOLEAN, ProcessNOTE(s, text, from, t)
      PROVE  Goal
  <2>. DEFINE d == [src[s] EXCEPT !.lastmsg = t, !.note = text, !.notetime = t]
  <2>1. src[s] \in Source
    BY <1>1 DEF TypeOK
  <2>2. d \in Source
    BY <1>0, <2>1, UpdateType
  <2>3. d.issender = src[s].issender /\ (IsActive(d) <=> IsActive(src[s]))
    BY <2>1 DEF Source, IsActive
  <2>4. StoreRTCP(s, from, d, t) /\ activecount' = activecount
    BY <1>7 DEF ProcessNOTE
  <2>. HIDE DEF d
  <2>5. QED
    BY <1>1, <1>4, <2>2, <2>3, <2>4 DEF Bit
<1>8. ASSUME NEW s \in SSRC, NEW t \in Time, ProcessBYE(s, from, t)
      PROVE  Goal
  <2>. DEFINE d == [src[s] EXCEPT !.lastmsg = t, !.byetime = t,
                                  !.receivedbye = TRUE]
  <2>1. src[s] \in Source
    BY <1>1 DEF TypeOK
  <2>2. d \in Source
    BY <1>0, <2>1, UpdateType
  <2>3. d.issender = src[s].issender /\ ~IsActive(d)
    BY <2>1 DEF Source, IsActive
  <2>4. /\ StoreRTCP(s, from, d, t)
        /\ activecount' = activecount - Bit(IsActive(src[s]))
    BY <1>8 DEF ProcessBYE
  <2>. HIDE DEF d
  <2>5. QED
    BY <1>1, <1>4, <2>2, <2>3, <2>4 DEF Bit
<1>9. QED
  BY <1>0, <1>2, <1>3, <1>5, <1>6, <1>7, <1>8
     DEF ProcessRawPacket, ProcessRTCPCompoundPacket, RTPCollision,
         RTCPCollision, from

\* One iteration of the CSRC loop: an existing entry that becomes active here
\* is not counted, which is why activecount is only bounded.
LEMMA ProcessCSRCCounts ==
  ASSUME CountInv, ProcessCSRC
  PROVE  /\ totalcount' = Cardinality(table')
         /\ sendercount' = Cardinality(Senders')
         /\ activecount' <= Cardinality(Actives')
<1>. DEFINE c == Head(csrcs)
<1>1. /\ EntryInv /\ TypeOK
      /\ Cardinality(table) \in Nat /\ Cardinality(Senders) \in Nat
      /\ Cardinality(Actives) \in Nat /\ activecount \in Int
      /\ totalcount = Cardinality(table)
      /\ sendercount = Cardinality(Senders)
      /\ activecount <= Cardinality(Actives)
  BY CardType DEF CountInv, EntryInv, TypeOK, Senders, Actives
<1>2. c \in SSRC /\ csrcfrom \in Sender /\ src[c] \in Source
  BY <1>1 DEF TypeOK, ProcessCSRC
<1>3. sendercount' = sendercount
  BY DEF ProcessCSRC
<1>4. ASSUME NEW d \in Source,
             d.issender = src[c].issender, IsActive(src[c]) => IsActive(d),
             src' = [src EXCEPT ![c] = d], table' = table \cup {c},
             totalcount' = totalcount + Bit(c \notin table),
             \/ activecount' = activecount
             \/ activecount' = activecount + 1 /\ IsActive(d) /\ ~IsActive(src[c])
      PROVE  /\ totalcount' = Cardinality(table')
             /\ sendercount' = Cardinality(Senders')
             /\ activecount' <= Cardinality(Actives')
  <2>1. /\ Cardinality(table') = Cardinality(table) + Bit(c \notin table)
        /\ Cardinality(Senders') =
             Cardinality(Senders) + Bit(d.issender) - Bit(src[c].issender)
        /\ Cardinality(Actives') =
             Cardinality(Actives) + Bit(IsActive(d)) - Bit(IsActive(src[c]))
    BY <1>1, <1>2, <1>4, OneEntryCounts
  <2>2. sendercount' = Cardinality(Senders')
    BY <1>1, <1>3, <1>4, <2>1 DEF Bit
  <2>3. activecount' <= Cardinality(Actives')
    BY <1>1, <1>4, <2>1 DEF Bit
  <2>4. QED
    BY <1>1, <1>4, <2>1, <2>2, <2>3
<1>5. CASE c \notin table
  <2>. DEFINE d == [src[c] EXCEPT !.validated = TRUE, !.iscsrc = TRUE]
  <2>1. d \in Source
    BY <1>1, <1>2, UpdateType DEF TypeOK
  <2>2. src[c] = NewSource
    BY <1>1, <1>2, <1>5 DEF EntryInv, EntryOK
  <2>3. d.issender = src[c].issender /\ IsActive(d) /\ ~IsActive(src[c])
    BY <1>2, <2>2 DEF Source, NewSource, IsActive
  <2>4. /\ src' = [src EXCEPT ![c] = d]
        /\ table' = table \cup {c}
        /\ totalcount' = totalcount + Bit(c \notin table)
        /\ activecount' = activecount + 1
    BY <1>5 DEF ProcessCSRC, Obtain
  <2>. HIDE DEF c, d
  <2>5. QED
    BY <1>4, <2>1, <2>3, <2>4
<1>6. CASE c \in table /\ CheckCollision(src[c], csrcfrom, TRUE)
  <2>1. UNCHANGED <<table, src, totalcount, activecount>>
    BY <1>6 DEF ProcessCSRC
  <2>2. QED
    BY <1>1, <1>3, <2>1 DEF Senders, Actives
<1>7. CASE c \in table /\ ~CheckCollision(src[c], csrcfrom, TRUE)
  <2>. DEFINE f == SetAddress(src[c], csrcfrom, TRUE)
              d == [f EXCEPT !.validated = TRUE, !.iscsrc = TRUE]
  <2>1. /\ f \in Source
        /\ f.issender = src[c].issender /\ f.receivedbye = src[c].receivedbye
    BY <1>2, SetAddressType DEF SetAddress, Source
  <2>2. /\ src' = [src EXCEPT ![c] = d]
        /\ table' = table \cup {c}
        /\ totalcount' = totalcount + Bit(c \notin table)
        /\ activecount' = activecount
    BY <1>1, <1>7 DEF ProcessCSRC, Bit, TypeOK
  <2>. HIDE DEF c, f
  <2>3. d \in Source
    BY <1>1, <2>1, UpdateType DEF TypeOK
  <2>4. d.issender = src[c].issender /\ (IsActive(src[c]) => IsActive(d))
    BY <2>1 DEF Source, IsActive
  <2>. HIDE DEF d
  <2>5. QED
    BY <1>4, <2>2, <2>3, <2>4
<1>8. QED
  BY <1>5, <1>6, <1>7

\* Every step keeps the counters' invariant.
LEMMA CountStep ==
  ASSUME CountInv, [Next]_vars
  PROVE  /\ CountInv'
         /\ Uncounted = 0 /\ ~ProcessCSRC => Uncounted' = 0
<1>. DEFINE Goal == /\ totalcount' = Cardinality(table')
                    /\ sendercount' = Cardinality(Senders')
                    /\ activecount' <= Cardinality(Actives')
                    /\ Uncounted = 0 /\ ~ProcessCSRC => Uncounted' = 0
<1>0. EntryInv' /\ EntryInv /\ TypeOK
  BY EntryStep DEF CountInv, EntryInv
<1>1. /\ Cardinality(table) \in Nat /\ Cardinality(Senders) \in Nat
      /\ Cardinality(Actives) \in Nat /\ activecount \in Int
      /\ totalcount = Cardinality(table)
      /\ sendercount = Cardinality(Senders)
      /\ activecount <= Cardinality(Actives)
  BY CardType DEF CountInv, EntryInv, TypeOK, Senders, Actives
<1>2. ASSUME NEW s \in SSRC, CreateOwnSSRC(s)
      PROVE  Goal
  <2>. DEFINE e == [src[s] EXCEPT !.ownssrc = TRUE, !.validated = TRUE,
                                  !.rtpaddr = NULL, !.rtcpaddr = NULL]
  <2>1. src[s] = NewSource /\ src[s] \in Source
    BY <1>0, <1>2 DEF CreateOwnSSRC, EntryInv, EntryOK, TypeOK
  <2>2. e \in Source
    BY <1>0, <2>1, UpdateType DEF TypeOK
  <2>3. e.issender = src[s].issender /\ IsActive(e) /\ ~IsActive(src[s])
    BY <2>1 DEF Source, NewSource, IsActive
  <2>4. /\ src' = [src EXCEPT ![s] = e]
        /\ table' = table \cup {s}
        /\ totalcount' = totalcount + Bit(s \notin table)
        /\ sendercount' = sendercount
        /\ activecount' = activecount + 1
    BY <1>2 DEF CreateOwnSSRC, Obtain
  <2>. HIDE DEF e
  <2>5. /\ Cardinality(table') = Cardinality(table) + Bit(s \notin table)
        /\ Cardinality(Senders') =
             Cardinality(Senders) + Bit(e.issender) - Bit(src[s].issender)
        /\ Cardinality(Actives') =
             Cardinality(Actives) + Bit(IsActive(e)) - Bit(IsActive(src[s]))
    BY <1>0, <2>2, <2>4, OneEntryCounts
  <2>6. sendercount' = Cardinality(Senders')
    BY <1>1, <2>3, <2>4, <2>5 DEF Bit
  <2>7. /\ activecount' <= Cardinality(Actives')
        /\ Uncounted' = Uncounted
    BY <1>1, <2>3, <2>4, <2>5 DEF Bit, Uncounted
  <2>8. QED
    BY <1>1, <2>4, <2>5, <2>6, <2>7
<1>3. ASSUME DeleteOwnSSRC
      PROVE  Goal
  <2>1. own \in SSRC /\ own \in table
    BY <1>0, <1>3 DEF DeleteOwnSSRC, EntryInv, EntryOK, TypeOK
  <2>2. /\ src' = [src EXCEPT ![own] = NewSource]
        /\ table' = table \ {own}
        /\ totalcount' = totalcount - 1
        /\ sendercount' = sendercount - Bit(src[own].issender)
        /\ activecount' = activecount - Bit(IsActive(src[own]))
    BY <1>3 DEF DeleteOwnSSRC
  <2>3. /\ table \in SUBSET SSRC
        /\ \A r \in table' : src'[r] = src[r] /\ r # own
    BY <1>0, <2>2 DEF TypeOK
  <2>4. Cardinality(table') = Cardinality(table) - 1
    BY <2>1, <2>2, <2>3, SSRCAssumption, FS_Subset, FS_RemoveElement
  <2>5. /\ Senders \in SUBSET SSRC /\ Actives \in SUBSET SSRC
        /\ Senders' = Senders \ {own} /\ Actives' = Actives \ {own}
    BY <2>2, <2>3 DEF Senders, Actives
  <2>6. /\ own \in Senders <=> src[own].issender
        /\ own \in Actives <=> IsActive(src[own])
    BY <2>1 DEF Senders, Actives
  <2>7. Cardinality(Senders') = Cardinality(Senders) - Bit(src[own].issender)
    BY <1>1, <2>5, <2>6, SSRCAssumption, FS_Subset, FS_RemoveElement DEF Bit
  <2>8. Cardinality(Actives') = Cardinality(Actives) - Bit(IsActive(src[own]))
    BY <1>1, <2>5, <2>6, SSRCAssumption, FS_Subset, FS_RemoveElement DEF Bit
  <2>9. Bit(IsActive(src[own])) \in Int
    BY DEF Bit
  <2>10. QED
    BY <1>1, <2>2, <2>4, <2>7, <2>8, <2>9 DEF Uncounted
<1>4. ASSUME SentRTPPacket
      PROVE  Goal
  <2>. DEFINE e == [src[own] EXCEPT !.issender = TRUE, !.lastrtp = now,
                                    !.lastmsg = now]
  <2>1. own \in SSRC /\ own \in table
    BY <1>0, <1>4 DEF SentRTPPacket, EntryInv, EntryOK, TypeOK
  <2>2. src[own] \in Source /\ e \in Source
    BY <1>0, <2>1, UpdateType DEF TypeOK
  <2>3. e.issender /\ (IsActive(e) <=> IsActive(src[own]))
    BY <2>2 DEF Source, IsActive
  <2>4. /\ src' = [src EXCEPT ![own] = e]
        /\ table' = table \cup {own}
        /\ totalcount' = totalcount + Bit(own \notin table)
        /\ sendercount' = sendercount + Bit(~src[own].issender)
        /\ activecount' = activecount
    BY <1>1, <1>4, <2>1 DEF SentRTPPacket, Bit
  <2>. HIDE DEF e
  <2>5. /\ Cardinality(table') = Cardinality(table) + Bit(own \notin table)
        /\ Cardinality(Senders') =
             Cardinality(Senders) + Bit(e.issender) - Bit(src[own].issender)
        /\ Cardinality(Actives') =
             Cardinality(Actives) + Bit(IsActive(e)) - Bit(IsActive(src[own]))
    BY <1>0, <2>1, <2>2, <2>4, OneEntryCounts
  <2>6. sendercount' = Cardinality(Senders')
    BY <1>1, <2>3, <2>4, <2>5 DEF Bit
  <2>7. /\ activecount' <= Cardinality(Actives')
        /\ Uncounted' = Uncounted
    BY <1>1, <2>3, <2>4, <2>5 DEF Bit, Uncounted
  <2>8. QED
    BY <1>1, <2>4, <2>5, <2>6, <2>7
<1>5. ASSUME Clear
      PROVE  Goal
  <2>1. table' = {} /\ totalcount' = 0 /\ sendercount' = 0 /\ activecount' = 0
    BY <1>5 DEF Clear
  <2>2. Senders' = {} /\ Actives' = {}
    BY <2>1 DEF Senders, Actives
  <2>3. QED
    BY <2>1, <2>2, FS_EmptySet DEF Uncounted
<1>6. ASSUME UNCHANGED <<table, src, totalcount, sendercount, activecount>>
      PROVE  Goal
  BY <1>1, <1>6 DEF Senders, Actives, Uncounted
<1>7. ASSUME NEW gone, NEW mute, NEW stale, Sweep(gone, mute, stale)
      PROVE  Goal
  <2>1. Actives' \in SUBSET SSRC
    BY <1>0 DEF EntryInv, TypeOK, Actives
  <2>2. Cardinality(Actives') \in Nat
    BY <2>1, CardType
  <2>3. QED
    BY <1>0, <1>7, <2>2, SweepCounts DEF Uncounted
<1>8. Goal
  <2>1. CASE ClearOwnCollisionFlag \/ Tick \/ UNCHANGED vars
    BY <2>1, <1>6 DEF ClearOwnCollisionFlag, Tick, vars
  <2>2. CASE \E a \in Addr : ProcessRawPacket(a)
    <3>1. /\ totalcount' = Cardinality(table')
          /\ sendercount' = Cardinality(Senders')
          /\ Uncounted' = Uncounted
      BY <2>2, ProcessRawPacketCounts
    <3>2. activecount' \in Int /\ Cardinality(Actives') \in Nat
      BY <1>0, CardType DEF EntryInv, TypeOK, Actives
    <3> QED
      BY <1>1, <3>1, <3>2 DEF Uncounted
  <2>3. CASE ProcessCSRC
    BY <2>3, ProcessCSRCCounts
  <2>4. QED
    BY <1>2, <1>3, <1>4, <1>5, <1>7, <2>1, <2>2, <2>3
       DEF Next, Timeout, SenderTimeout, BYETimeout, NoteTimeout,
           MultipleTimeouts
<1>9. QED
  BY <1>0, <1>8 DEF CountInv

\* The counters start at zero.
LEMMA InitCountInv ==
  ASSUME Init
  PROVE  CountInv
<1>1. EntryInv
  BY InitEntryInv
<1>2. table = {} /\ Senders = {} /\ Actives = {}
  BY DEF Init, Senders, Actives
<1>3. totalcount = 0 /\ sendercount = 0 /\ activecount = 0
  BY DEF Init
<1>4. QED
  BY <1>1, <1>2, <1>3, FS_EmptySet DEF CountInv

\* CountInv holds throughout.
LEMMA CountInvariant == Spec => []CountInv
<1>1. Init => CountInv
  BY InitCountInv
<1>2. CountInv /\ [Next]_vars => CountInv'
  BY CountStep
<1>3. QED
  BY <1>1, <1>2, PTL DEF Spec

\* Packets without contributing sources leave the CSRC loop nothing to do.
ExactInv ==
  /\ CountInv
  /\ csrcs = <<>>
  /\ Uncounted = 0

LEMMA ExactStep ==
  ASSUME MaxCSRCs = 0, ExactInv, [Next]_vars
  PROVE  ExactInv'
<1>1. ~ProcessCSRC
  BY DEF ExactInv, ProcessCSRC
<1>2. ASSUME NEW a, NEW s \in SSRC, NEW isnext, NEW n \in 0..MaxCSRCs,
             NEW list \in [1..n -> SSRC], NEW t,
             ProcessRTPPacket(s, isnext, list, a, t)
      PROVE  csrcs' = <<>>
  <2>1. list \in [1..0 -> SSRC]
    OBVIOUS
  <2>2. list = <<>>
    BY <2>1
  <2> QED
    BY <1>2, <2>2 DEF ProcessRTPPacket
<1>3. csrcs' = <<>>
  <2>1. ASSUME NEW a \in Addr, ProcessRawPacket(a)
        PROVE  csrcs' = <<>>
    <3> DEFINE from == IF a \in OwnAddr THEN NULL ELSE a
    <3>1. PICK t \in received..now, s \in SSRC :
            \/ \E isnext \in BOOLEAN, n \in 0..MaxCSRCs :
                 \E list \in [1..n -> SSRC] :
                   ProcessRTPPacket(s, isnext, list, from, t)
            \/ RTPCollision(s, from)
            \/ ProcessRTCPCompoundPacket(s, from, t)
      BY <2>1 DEF ProcessRawPacket
    <3> HIDE DEF from
    <3> QED
      BY <1>2, <3>1
         DEF ExactInv, RTPCollision, ProcessRTCPCompoundPacket, OnSSRCCollision,
             RTCPCollision, UpdateReceiveTime, ProcessCNAME, ProcessNOTE, ProcessBYE,
             StoreRTCP
  <2>2. CASE UNCHANGED csrcs
    BY <2>2 DEF ExactInv
  <2> QED
    BY <1>1, <2>1, <2>2
       DEF Next, CreateOwnSSRC, DeleteOwnSSRC, SentRTPPacket, Clear,
           ClearOwnCollisionFlag, Timeout, SenderTimeout, BYETimeout, NoteTimeout,
           MultipleTimeouts, Sweep, Tick, vars
<1> QED
  BY <1>1, <1>3, CountStep DEF ExactInv

\* GetTotalCount and GetSenderCount equal what the table holds after every
\* handler, not only after the timeouts recount it.
THEOREM CountsSafe == Spec => []CountsExact
<1>1. CountInv => CountsExact
  BY DEF CountInv, CountsExact, Senders
<1>2. QED
  BY <1>1, CountInvariant, PTL

\* GetActiveMemberCount never counts a member twice or one that left.
THEOREM ActiveCountSafe == Spec => []ActiveCountNeverOver
<1>1. CountInv => ActiveCountNeverOver
  BY DEF CountInv, ActiveCountNeverOver, Actives
<1>2. QED
  BY <1>1, CountInvariant, PTL

\* GetActiveMemberCount is exact in a session without mixers: only the CSRC loop
\* activates a member without counting it, all other handlers agree with the
\* recount of the timeouts.
THEOREM ActiveCountSafeWithoutMixers ==
  MaxCSRCs = 0 => (Spec => []ActiveCountExact)
<1> SUFFICES ASSUME MaxCSRCs = 0 PROVE Spec => []ActiveCountExact
  OBVIOUS
<1>1. Init => ExactInv
  <2> SUFFICES ASSUME Init PROVE ExactInv
    OBVIOUS
  <2>1. CountInv
    BY InitCountInv
  <2>2. csrcs = <<>> /\ activecount = 0 /\ Actives = {}
    BY DEF Init, Actives
  <2> QED
    BY <2>1, <2>2, FS_EmptySet DEF ExactInv, Uncounted
<1>2. ExactInv /\ [Next]_vars => ExactInv'
  BY ExactStep
<1>3. ExactInv => ActiveCountExact
  <2> SUFFICES ASSUME ExactInv PROVE ActiveCountExact
    OBVIOUS
  <2>1. activecount \in Int /\ Cardinality(Actives) \in Nat
    BY CardType DEF ExactInv, CountInv, EntryInv, TypeOK, Actives
  <2> QED
    BY <2>1 DEF ExactInv, Uncounted, Actives, ActiveCountExact
<1>4. QED
  BY <1>1, <1>2, <1>3, PTL DEF Spec

-----------------------------------------------------------------------------
(* What is written into an entry *)

\* What identifies the participant of record d is still in e.
Kept(d, e) ==
  /\ d.rtpaddr \in {UNSET, e.rtpaddr}
  /\ d.rtcpaddr \in {UNSET, e.rtcpaddr}
  /\ d.cname \in {NoCName, e.cname}
  /\ d.validated => e.validated
  /\ d.receivedbye => e.receivedbye

\* The times in record d are those of events up to time t, those of packets lie
\* before u, the receive time of the last one, and h is when a packet that names
\* the SSRC was received last.  Our own RTP packets are timed when we send them.
RecordOK(d, h, t, u) ==
  /\ d.issender => d.validated /\ d.lastrtp # Never
  /\ d.receivedbye <=> d.byetime # Never
  /\ d.note => d.notetime # Never
  /\ d.byetime <= d.lastmsg /\ d.byetime <= u
  /\ d.notetime <= d.lastmsg /\ d.notetime <= u
  /\ d.ownssrc \/ (d.lastrtp <= d.lastmsg /\ d.lastrtp <= u)
  /\ d.lastrtp <= t /\ d.lastmsg <= t
  /\ h <= d.lastmsg \/ d.iscsrc

\* Packets are processed in the order of their receive times.
ReceivedOK == received > Never /\ received <= now

\* The inductive invariant of the times.  EntryInv is needed because our own
\* entry becomes a sender when we send, which only a validated one may be, and
\* because no other entry has its ownssrc set.
RecordInv ==
  /\ EntryInv
  /\ ReceivedOK
  /\ \A s \in SSRC : RecordOK(src[s], heard[s], now, received)

\* What a step does to the entries when they stay in order.
EntriesKept ==
  /\ ReceivedOK'
  /\ \A r \in SSRC : RecordOK(src'[r], heard'[r], now', received')
  /\ \A r \in table \cap table' : Kept(src[r], src'[r])

LEMMA NewSourceRecordOK ==
  ASSUME NEW t \in Time, NEW u \in Time
  PROVE  RecordOK(NewSource, Never, t, u)
  BY DEF RecordOK, NewSource, Time, Never

\* Time passes, and later packets come.
LEMMA LaterRecordOK ==
  ASSUME NEW d \in Source, NEW h, NEW t \in Time, NEW u \in Time,
         NEW tt \in Time, NEW uu \in Time, t <= tt, u <= uu, RecordOK(d, h, t, u)
  PROVE  RecordOK(d, h, tt, uu)
  BY DEF RecordOK, Source, Time

\* An address that does not collide is kept, or new.
LEMMA SetAddressKeeps ==
  ASSUME NEW d \in Source, NEW a \in Sender, NEW b \in BOOLEAN,
         ~CheckCollision(d, a, b)
  PROVE  Kept(d, SetAddress(d, a, b))
<1>1. CASE b
  BY <1>1 DEF SetAddress, CheckCollision, Kept, Source
<1>2. CASE ~b
  BY <1>2 DEF SetAddress, CheckCollision, Kept, Source
<1> QED
  BY <1>1, <1>2

LEMMA SetAddressRecordOK ==
  ASSUME NEW d \in Source, NEW a \in Sender, NEW b \in BOOLEAN, NEW h, NEW t, NEW u,
         RecordOK(d, h, t, u)
  PROVE  RecordOK(SetAddress(d, a, b), h, t, u)
<1>1. CASE b
  BY <1>1 DEF SetAddress, RecordOK, Source
<1>2. CASE ~b
  BY <1>2 DEF SetAddress, RecordOK, Source
<1> QED
  BY <1>1, <1>2

\* An RTP packet validates a sender before it takes its time.
LEMMA ReceiveRTPRecordOK ==
  ASSUME NEW d \in Source, NEW isnext \in BOOLEAN, NEW h \in Time,
         ReceivedOK, received \in Time, now \in Time, NEW t \in received..now,
         RecordOK(d, h, now, received)
  PROVE  /\ RecordOK(ReceiveRTP(d, isnext, t), t, now, t)
         /\ Kept(d, ReceiveRTP(d, isnext, t))
<1> DEFINE e == ReceiveRTP(d, isnext, t)
<1>1. /\ e.rtpaddr = d.rtpaddr /\ e.rtcpaddr = d.rtcpaddr /\ e.cname = d.cname
      /\ e.receivedbye = d.receivedbye /\ e.byetime = d.byetime
      /\ e.note = d.note /\ e.notetime = d.notetime /\ e.lastmsg = t
      /\ e.ownssrc = d.ownssrc
      /\ d.validated => e.validated
  BY DEF ReceiveRTP, Source
<1>2. \/ e.issender = d.issender /\ e.lastrtp = d.lastrtp
      \/ e.validated /\ e.lastrtp = t
  BY DEF ReceiveRTP, Source
<1>3. /\ d.lastrtp \in Nat /\ d.byetime \in Nat /\ d.notetime \in Nat
      /\ t \in Nat /\ now \in Nat /\ received \in Nat
      /\ received <= t /\ t <= now /\ t # Never
  BY DEF Source, Time, ReceivedOK, Never
<1>4. /\ d.byetime <= t /\ d.notetime <= t /\ d.lastrtp <= now
      /\ d.ownssrc \/ d.lastrtp <= t
  BY <1>3 DEF RecordOK
<1> HIDE DEF e
<1>5. e.issender => e.validated /\ e.lastrtp # Never
  <2>1. d.issender => d.validated /\ d.lastrtp # Never
    BY DEF RecordOK
  <2> QED
    BY <1>1, <1>2, <1>3, <2>1
<1>6. e.lastrtp <= now /\ (e.ownssrc \/ e.lastrtp <= t)
  BY <1>1, <1>2, <1>3, <1>4
<1>7. RecordOK(e, t, now, t) /\ Kept(d, e)
  BY <1>1, <1>3, <1>4, <1>5, <1>6 DEF RecordOK, Kept
<1> QED
  BY <1>7 DEF e

\* A step that writes one entry.
LEMMA OneRecordStep ==
  ASSUME RecordInv, NEW s \in SSRC, NEW e, NEW h,
         src' = [src EXCEPT ![s] = e], heard' = [heard EXCEPT ![s] = h],
         UNCHANGED now, received' \in received..now,
         RecordOK(e, h, now, received'), s \in table => Kept(src[s], e)
  PROVE  EntriesKept
<1>1. /\ src'[s] = e /\ heard'[s] = h
      /\ \A r \in SSRC \ {s} : src'[r] = src[r] /\ heard'[r] = heard[r]
  BY DEF RecordInv, EntryInv, TypeOK
<1>2. /\ now \in Time /\ received \in Time /\ received' \in Time
      /\ received <= received' /\ now <= now /\ ReceivedOK'
  BY DEF RecordInv, EntryInv, TypeOK, Time, ReceivedOK, Never
<1>3. \A r \in SSRC \ {s} : RecordOK(src[r], heard[r], now, received')
  <2>1. \A r \in SSRC : src[r] \in Source /\ RecordOK(src[r], heard[r], now, received)
    BY DEF RecordInv, EntryInv, TypeOK
  <2> QED
    BY <1>2, <2>1, LaterRecordOK
<1>4. \A r \in SSRC : RecordOK(src'[r], heard'[r], now', received')
  BY <1>1, <1>3
<1>5. \A r \in table \cap table' : Kept(src[r], src'[r])
  BY <1>1 DEF RecordInv, EntryInv, TypeOK, Kept
<1> QED
  BY <1>2, <1>4, <1>5 DEF EntriesKept

\* A step that writes none, which may be a packet that collided.
LEMMA NoRecordStep ==
  ASSUME RecordInv, UNCHANGED <<src, heard, now>>, received' \in received..now
  PROVE  EntriesKept
<1>1. /\ now \in Time /\ received \in Time /\ received' \in Time
      /\ received <= received' /\ now <= now /\ ReceivedOK'
  BY DEF RecordInv, EntryInv, TypeOK, Time, ReceivedOK, Never
<1>2. \A r \in SSRC : src[r] \in Source /\ RecordOK(src[r], heard[r], now, received)
  BY DEF RecordInv, EntryInv, TypeOK
<1>3. \A r \in SSRC : RecordOK(src[r], heard[r], now, received')
  BY <1>1, <1>2, LaterRecordOK
<1> QED
  BY <1>1, <1>3 DEF EntriesKept, Kept

\* A sweep deletes whole entries, and of the others takes flags away.
LEMMA SweepRecords ==
  ASSUME RecordInv, NEW gone, NEW mute, NEW stale, Sweep(gone, mute, stale)
  PROVE  EntriesKept
<1>1. now' = now /\ received' = received /\ table' = table \ gone
  BY DEF Sweep
<1>2. ASSUME NEW r \in SSRC
      PROVE  /\ RecordOK(src'[r], heard'[r], now, received)
             /\ r \notin gone => Kept(src[r], src'[r])
  <2> DEFINE e == [src[r] EXCEPT !.issender = @ /\ r \notin mute,
                                 !.note = @ /\ r \notin stale]
  <2>1. /\ src'[r] = IF r \in gone THEN NewSource ELSE e
        /\ heard'[r] = IF r \in gone THEN Never ELSE heard[r]
    BY DEF Sweep
  <2>2. /\ src[r] \in Source /\ now \in Time /\ received \in Time
        /\ RecordOK(src[r], heard[r], now, received)
    BY DEF RecordInv, EntryInv, TypeOK
  <2>3. /\ e.issender => src[r].issender
        /\ e.note => src[r].note
        /\ e.rtpaddr = src[r].rtpaddr /\ e.rtcpaddr = src[r].rtcpaddr
        /\ e.ownssrc = src[r].ownssrc /\ e.cname = src[r].cname /\ e.validated = src[r].validated
        /\ e.receivedbye = src[r].receivedbye /\ e.byetime = src[r].byetime
        /\ e.notetime = src[r].notetime /\ e.lastrtp = src[r].lastrtp
        /\ e.lastmsg = src[r].lastmsg /\ e.iscsrc = src[r].iscsrc
    BY <2>2 DEF Source
  <2> HIDE DEF e
  <2>4. RecordOK(e, heard[r], now, received) /\ Kept(src[r], e)
    BY <2>2, <2>3 DEF RecordOK, Kept
  <2> QED
    BY <2>1, <2>2, <2>4, NewSourceRecordOK
<1> QED
  BY <1>1, <1>2 DEF EntriesKept, RecordInv, ReceivedOK, EntryInv, TypeOK

\* An RTCP block leaves record d, in which everything but an address is done.
LEMMA StoreRTCPRecords ==
  ASSUME RecordInv, NEW s \in SSRC, NEW a \in Sender, NEW d \in Source,
         NEW t \in received..now, received' = t, StoreRTCP(s, a, d, t),
         RecordOK(d, t, now, t), Kept(src[s], d),
         d.rtpaddr = src[s].rtpaddr, d.rtcpaddr = src[s].rtcpaddr
  PROVE  EntriesKept
<1> DEFINE e == SetAddress(d, a, FALSE)
<1>1. ~CheckCollision(d, a, FALSE)
  BY DEF StoreRTCP, CheckCollision
<1>2. RecordOK(e, t, now, t) /\ Kept(d, e)
  BY <1>1, SetAddressRecordOK, SetAddressKeeps
<1>3. Kept(src[s], e)
  BY <1>2 DEF Kept
<1>4. /\ src' = [src EXCEPT ![s] = e]
      /\ heard' = [heard EXCEPT ![s] = t]
      /\ UNCHANGED now
  BY DEF StoreRTCP
<1> HIDE DEF e
<1> QED
  BY <1>2, <1>3, <1>4, OneRecordStep

LEMMA ProcessRawPacketRecords ==
  ASSUME RecordInv, NEW a \in Addr, ProcessRawPacket(a)
  PROVE  EntriesKept
<1> DEFINE from == IF a \in OwnAddr THEN NULL ELSE a
<1>0. from \in Sender
  BY FromType
<1> HIDE DEF from
<1>1. /\ now \in Time /\ received \in Time /\ ReceivedOK
      /\ \A t \in received..now : t \in Time /\ received <= t /\ t <= now /\ t # Never
  BY DEF RecordInv, EntryInv, TypeOK, ReceivedOK, Time, Never
<1>2. ASSUME NEW s \in SSRC
      PROVE  src[s] \in Source /\ heard[s] \in Time /\ RecordOK(src[s], heard[s], now, received)
  BY DEF RecordInv, EntryInv, TypeOK
<1>3. ASSUME NEW s \in SSRC, NEW t \in received..now, received' = t,
             NEW isnext \in BOOLEAN, NEW list,
             ProcessRTPPacket(s, isnext, list, from, t)
      PROVE  EntriesKept
  <2> DEFINE f == SetAddress(src[s], from, TRUE)
             e == ReceiveRTP(f, isnext, t)
  <2>1. f \in Source /\ RecordOK(f, heard[s], now, received)
    BY <1>0, <1>2, SetAddressType, SetAddressRecordOK
  <2>2. Kept(src[s], f)
    BY <1>0, <1>2, <1>3, SetAddressKeeps DEF ProcessRTPPacket
  <2>3. /\ src' = [src EXCEPT ![s] = e]
        /\ heard' = [heard EXCEPT ![s] = t]
        /\ UNCHANGED now
    BY <1>3 DEF ProcessRTPPacket
  <2> HIDE DEF f
  <2>4. RecordOK(e, t, now, t) /\ Kept(f, e)
    BY <1>1, <1>2, <2>1, ReceiveRTPRecordOK
  <2> HIDE DEF e
  <2>5. Kept(src[s], e)
    BY <2>2, <2>4 DEF Kept
  <2> QED
    BY <1>3, <2>3, <2>4, <2>5, OneRecordStep
<1>4. ASSUME NEW s \in SSRC, NEW t \in received..now, received' = t,
             NEW d \in Source, StoreRTCP(s, from, d, t),
             RecordOK(d, t, now, t), Kept(src[s], d),
             d.rtpaddr = src[s].rtpaddr, d.rtcpaddr = src[s].rtcpaddr
      PROVE  EntriesKept
  BY <1>0, <1>4, StoreRTCPRecords
<1>5. ASSUME NEW s \in SSRC, NEW t \in received..now, received' = t,
             UpdateReceiveTime(s, from, t)
      PROVE  EntriesKept
  <2> DEFINE d == [src[s] EXCEPT !.lastmsg = t]
  <2>1. d \in Source
    BY <1>1, <1>2, UpdateType
  <2>2. /\ RecordOK(d, t, now, t) /\ Kept(src[s], d)
        /\ d.rtpaddr = src[s].rtpaddr /\ d.rtcpaddr = src[s].rtcpaddr
    BY <1>1, <1>2 DEF RecordOK, Kept, Source, Time
  <2> QED
    BY <1>4, <1>5, <2>1, <2>2 DEF UpdateReceiveTime
<1>6. ASSUME NEW s \in SSRC, NEW t \in received..now, received' = t,
             NEW c \in CName \cup {NoCName},
             ProcessCNAME(s, c, from, t)
      PROVE  EntriesKept
  <2> DEFINE first == src[s].cname = NoCName
             name == IF first THEN c ELSE src[s].cname
             valid == src[s].validated \/ first
             d == [src[s] EXCEPT !.lastmsg = t, !.cname = name,
                                 !.validated = valid]
  <2>1. /\ name \in CName \cup {NoCName} /\ valid \in BOOLEAN
        /\ src[s].validated => valid
        /\ src[s].cname \in {NoCName, name}
    BY <1>2 DEF Source
  <2>2. StoreRTCP(s, from, d, t)
    BY <1>6 DEF ProcessCNAME
  <2> HIDE DEF name, valid
  <2>3. d \in Source
    BY <1>1, <1>2, <2>1, UpdateType
  <2>4. /\ RecordOK(d, t, now, t) /\ Kept(src[s], d)
        /\ d.rtpaddr = src[s].rtpaddr /\ d.rtcpaddr = src[s].rtcpaddr
    BY <1>1, <1>2, <2>1 DEF RecordOK, Kept, Source, Time
  <2> QED
    BY <1>4, <1>6, <2>2, <2>3, <2>4
<1>7. ASSUME NEW s \in SSRC, NEW t \in received..now, received' = t,
             NEW text \in BOOLEAN, ProcessNOTE(s, text, from, t)
      PROVE  EntriesKept
  <2> DEFINE d == [src[s] EXCEPT !.lastmsg = t, !.note = text, !.notetime = t]
  <2>1. d \in Source
    BY <1>1, <1>2, UpdateType
  <2>2. /\ RecordOK(d, t, now, t) /\ Kept(src[s], d)
        /\ d.rtpaddr = src[s].rtpaddr /\ d.rtcpaddr = src[s].rtcpaddr
    BY <1>1, <1>2 DEF RecordOK, Kept, Source, Time, Never
  <2> QED
    BY <1>4, <1>7, <2>1, <2>2 DEF ProcessNOTE
<1>8. ASSUME NEW s \in SSRC, NEW t \in received..now, received' = t,
             ProcessBYE(s, from, t)
      PROVE  EntriesKept
  <2> DEFINE d == [src[s] EXCEPT !.lastmsg = t, !.byetime = t,
                                 !.receivedbye = TRUE]
  <2>1. d \in Source
    BY <1>1, <1>2, UpdateType
  <2>2. /\ RecordOK(d, t, now, t) /\ Kept(src[s], d)
        /\ d.rtpaddr = src[s].rtpaddr /\ d.rtcpaddr = src[s].rtcpaddr
    BY <1>1, <1>2 DEF RecordOK, Kept, Source, Time, Never
  <2> QED
    BY <1>4, <1>8, <2>1, <2>2 DEF ProcessBYE
<1>9. ASSUME NEW s \in SSRC, OnSSRCCollision(s), received' \in received..now
      PROVE  EntriesKept
  BY <1>9, NoRecordStep DEF OnSSRCCollision
<1> QED
  BY <1>3, <1>5, <1>6, <1>7, <1>8, <1>9
     DEF ProcessRawPacket, ProcessRTCPCompoundPacket, RTPCollision,
         RTCPCollision, from

\* A contributing source is marked, so that it need not have sent a packet.
LEMMA ProcessCSRCRecords ==
  ASSUME RecordInv, ProcessCSRC
  PROVE  EntriesKept
<1> DEFINE c == Head(csrcs)
<1>1. /\ c \in SSRC /\ csrcfrom \in Sender /\ src[c] \in Source /\ now \in Time
      /\ RecordOK(src[c], heard[c], now, received)
      /\ received \in Time /\ ReceivedOK /\ received' \in received..now
      /\ UNCHANGED <<now, received>>
  BY DEF RecordInv, EntryInv, TypeOK, ReceivedOK, Time, ProcessCSRC
<1>2. ASSUME NEW d \in Source, RecordOK(d, heard[c], now, received)
      PROVE  LET e == [d EXCEPT !.validated = TRUE, !.iscsrc = TRUE]
             IN  RecordOK(e, received, now, received) /\ Kept(d, e)
  <2> DEFINE e == [d EXCEPT !.validated = TRUE, !.iscsrc = TRUE]
  <2>1. e.validated = TRUE /\ e.iscsrc = TRUE
    BY DEF Source
  <2>2. /\ e.rtpaddr = d.rtpaddr /\ e.rtcpaddr = d.rtcpaddr /\ e.cname = d.cname
        /\ e.receivedbye = d.receivedbye /\ e.byetime = d.byetime
        /\ e.note = d.note /\ e.notetime = d.notetime /\ e.lastmsg = d.lastmsg
        /\ e.issender = d.issender /\ e.lastrtp = d.lastrtp
        /\ e.ownssrc = d.ownssrc
    BY DEF Source
  <2> HIDE DEF e, c
  <2>3. RecordOK(e, received, now, received) /\ Kept(d, e)
    BY <1>2, <2>1, <2>2 DEF RecordOK, Kept
  <2> QED
    BY <2>3 DEF e
<1>3. CASE c \notin table
  <2> DEFINE e == [src[c] EXCEPT !.validated = TRUE, !.iscsrc = TRUE]
  <2>1. src' = [src EXCEPT ![c] = e] /\ heard' = [heard EXCEPT ![c] = received]
    BY <1>3 DEF ProcessCSRC
  <2>2. RecordOK(e, received, now, received)
    BY <1>1, <1>2
  <2> HIDE DEF e, c
  <2>3. RecordOK(e, received, now, received')
    BY <1>1, <2>2
  <2> QED
    BY <1>1, <1>3, <2>1, <2>3, OneRecordStep
<1>4. CASE c \in table /\ CheckCollision(src[c], csrcfrom, TRUE)
  BY <1>1, <1>4, NoRecordStep DEF ProcessCSRC
<1>5. CASE c \in table /\ ~CheckCollision(src[c], csrcfrom, TRUE)
  <2> DEFINE f == SetAddress(src[c], csrcfrom, TRUE)
             e == [f EXCEPT !.validated = TRUE, !.iscsrc = TRUE]
  <2>1. f \in Source /\ RecordOK(f, heard[c], now, received) /\ Kept(src[c], f)
    BY <1>1, <1>5, SetAddressType, SetAddressRecordOK, SetAddressKeeps
  <2>2. src' = [src EXCEPT ![c] = e] /\ heard' = [heard EXCEPT ![c] = received]
    BY <1>5 DEF ProcessCSRC
  <2> HIDE DEF f, c
  <2>3. RecordOK(e, received, now, received) /\ Kept(f, e)
    BY <1>2, <2>1
  <2> HIDE DEF e
  <2>4. Kept(src[c], e)
    BY <2>1, <2>3 DEF Kept
  <2> QED
    BY <1>1, <2>2, <2>3, <2>4, OneRecordStep
<1> QED
  BY <1>3, <1>4, <1>5

\* Every step keeps the entries.
LEMMA RecordStep ==
  ASSUME RecordInv, [Next]_vars
  PROVE  RecordInv' /\ EntriesKept
<1>0. EntryInv /\ EntryInv'
  BY EntryStep DEF RecordInv
<1>1. /\ now \in Time /\ received \in Time /\ ReceivedOK
      /\ received \in received..now
      /\ \A s \in SSRC : src[s] \in Source /\ RecordOK(src[s], heard[s], now, received)
  BY <1>0 DEF RecordInv, EntryInv, TypeOK, ReceivedOK, Time
<1>2. ASSUME NEW s \in SSRC, CreateOwnSSRC(s)
      PROVE  EntriesKept
  <2> DEFINE e == [src[s] EXCEPT !.ownssrc = TRUE, !.validated = TRUE,
                                 !.rtpaddr = NULL, !.rtcpaddr = NULL]
  <2>1. /\ src' = [src EXCEPT ![s] = e] /\ s \notin table
        /\ UNCHANGED <<heard, now, received>>
    BY <1>2 DEF CreateOwnSSRC
  <2>2. RecordOK(e, heard[s], now, received)
    BY <1>1 DEF RecordOK, Source
  <2>3. heard' = [heard EXCEPT ![s] = heard[s]]
    BY <1>0, <2>1 DEF EntryInv, TypeOK
  <2> HIDE DEF e
  <2> QED
    BY <1>1, <2>1, <2>2, <2>3, OneRecordStep
<1>3. ASSUME DeleteOwnSSRC
      PROVE  EntriesKept
  <2>1. own \in SSRC
    BY <1>0, <1>3 DEF DeleteOwnSSRC, EntryInv, TypeOK
  <2>2. \A r \in SSRC :
          /\ src'[r] = IF r = own THEN NewSource ELSE src[r]
          /\ heard'[r] = IF r = own THEN Never ELSE heard[r]
    BY <1>0, <1>3, <2>1 DEF DeleteOwnSSRC, EntryInv, TypeOK
  <2>3. UNCHANGED <<now, received>> /\ table' = table \ {own} /\ table \subseteq SSRC
    BY <1>0, <1>3 DEF DeleteOwnSSRC, EntryInv, TypeOK
  <2>4. \A r \in SSRC : RecordOK(src'[r], heard'[r], now', received')
    BY <1>1, <2>2, <2>3, NewSourceRecordOK
  <2>5. \A r \in table \cap table' : Kept(src[r], src'[r])
    BY <2>2, <2>3 DEF Kept
  <2> QED
    BY <1>1, <2>3, <2>4, <2>5 DEF EntriesKept, ReceivedOK
<1>4. ASSUME SentRTPPacket
      PROVE  EntriesKept
  <2> DEFINE e == [src[own] EXCEPT !.issender = TRUE, !.lastrtp = now,
                                   !.lastmsg = now]
  <2>1. /\ own \in SSRC /\ src[own].validated /\ src[own].ownssrc
        /\ heard[own] \in Time
    BY <1>0, <1>4 DEF SentRTPPacket, EntryInv, EntryOK, TypeOK
  <2>2. /\ src' = [src EXCEPT ![own] = e]
        /\ UNCHANGED <<heard, now, received>>
    BY <1>4 DEF SentRTPPacket
  <2>3. RecordOK(e, heard[own], now, received) /\ Kept(src[own], e)
    BY <1>1, <2>1 DEF RecordOK, Kept, Source, Time, Never, ReceivedOK
  <2>4. heard' = [heard EXCEPT ![own] = heard[own]]
    BY <1>0, <2>2 DEF EntryInv, TypeOK
  <2> HIDE DEF e
  <2> QED
    BY <1>1, <2>1, <2>2, <2>3, <2>4, OneRecordStep
<1>5. ASSUME Clear
      PROVE  EntriesKept
  <2>1. /\ table' = {} /\ UNCHANGED <<now, received>>
        /\ \A r \in SSRC : src'[r] = NewSource /\ heard'[r] = Never
    BY <1>5 DEF Clear
  <2> QED
    BY <1>1, <2>1, NewSourceRecordOK DEF EntriesKept, ReceivedOK
<1>6. ASSUME Tick
      PROVE  EntriesKept
  <2>1. now' = now + 1 /\ UNCHANGED <<src, heard, table, received>>
    BY <1>6 DEF Tick
  <2>2. /\ ReceivedOK' /\ now' \in Time /\ now <= now'
        /\ received <= received
    BY <1>1, <2>1 DEF Time, Never, ReceivedOK
  <2>3. \A r \in SSRC : RecordOK(src'[r], heard'[r], now', received')
    BY <1>1, <2>1, <2>2, LaterRecordOK
  <2> QED
    BY <2>1, <2>2, <2>3 DEF EntriesKept, Kept
<1>7. ASSUME NEW gone, NEW mute, NEW stale, Sweep(gone, mute, stale)
      PROVE  EntriesKept
  BY <1>7, SweepRecords
<1>8. ASSUME ClearOwnCollisionFlag \/ UNCHANGED vars
      PROVE  EntriesKept
  <2>1. UNCHANGED <<src, heard, now, received>>
    BY <1>8 DEF ClearOwnCollisionFlag, vars
  <2> QED
    BY <1>1, <2>1, NoRecordStep
<1>9. EntriesKept
  BY <1>2, <1>3, <1>4, <1>5, <1>6, <1>7, <1>8,
     ProcessRawPacketRecords, ProcessCSRCRecords
     DEF Next, Timeout, SenderTimeout, BYETimeout, NoteTimeout, MultipleTimeouts
<1> QED
  BY <1>0, <1>9 DEF RecordInv, EntriesKept

LEMMA InitRecordInv ==
  ASSUME Init
  PROVE  RecordInv
<1>1. EntryInv /\ now \in Time /\ received \in Time
  BY InitEntryInv DEF EntryInv, TypeOK
<1>2. ReceivedOK
  BY NumberAssumption DEF Init, Never, ReceivedOK
<1>3. \A s \in SSRC : src[s] = NewSource /\ heard[s] = Never
  BY DEF Init
<1> QED
  BY <1>1, <1>2, <1>3, NewSourceRecordOK DEF RecordInv

\* RecordInv holds throughout.
LEMMA RecordInvariant == Spec => []RecordInv
<1>1. RecordInv /\ [Next]_vars => RecordInv'
  BY RecordStep
<1> QED
  BY <1>1, InitRecordInv, PTL DEF Spec

\* Every time a timeout compares with was recorded, in the order of the events,
\* and the flag it takes back was set with it.
THEOREM TimesSafe == Spec => []TimesConsistent
<1>1. RecordInv => TimesConsistent
  <2> SUFFICES ASSUME RecordInv, NEW s \in table
               PROVE  /\ RecordOK(src[s], heard[s], now, received)
                      /\ s # own => ~src[s].ownssrc
    BY DEF TimesConsistent, RecordOK
  <2> QED
    BY DEF RecordInv, EntryInv, EntryOK, TypeOK
<1> QED
  BY <1>1, RecordInvariant, PTL

\* An address, a CNAME, validation and a BYE are written once in the life of an
\* entry, whatever is received in whatever order.
THEOREM IdentitySafe == Spec => IdentityKept
<1>1. RecordInv /\ [Next]_vars =>
        [\A s \in table \cap table' :
           /\ src[s].rtpaddr \in {UNSET, src'[s].rtpaddr}
           /\ src[s].rtcpaddr \in {UNSET, src'[s].rtcpaddr}
           /\ src[s].cname \in {NoCName, src'[s].cname}
           /\ src[s].validated => src'[s].validated
           /\ src[s].receivedbye => src'[s].receivedbye]_vars
  BY RecordStep DEF EntriesKept, Kept
<1> QED
  BY <1>1, RecordInvariant, PTL DEF Spec, IdentityKept

\* Timeout deletes no source that was heard in the interval, unless a CSRC list
\* was what it was heard in: every handler of a packet renews the time of the
\* last message.
THEOREM HeardSafe == Spec => HeardNotTimedOut
<1>1. RecordInv /\ [Next]_vars =>
        [\A d \in Delay, s \in table :
           Timeout(d) /\ s \notin table' => Passed(heard[s], d) \/ src[s].iscsrc]_vars
  <2> SUFFICES ASSUME RecordInv, NEW d \in Delay, NEW s \in table, Timeout(d),
                      s \notin table', ~src[s].iscsrc
               PROVE  Passed(heard[s], d)
    OBVIOUS
  <2>1. s \in SSRC /\ src[s] \in Source /\ heard[s] \in Nat /\ now \in Nat /\ d \in Nat
    BY DelayAssumption DEF RecordInv, EntryInv, TypeOK, Time
  <2>2. Passed(src[s].lastmsg, d)
    BY DEF Timeout, Sweep, Silent
  <2>3. heard[s] <= src[s].lastmsg /\ src[s].lastmsg \in Nat
    BY <2>1 DEF RecordInv, RecordOK, Source, Time
  <2> QED
    BY <2>1, <2>2, <2>3 DEF Passed
<1> QED
  BY <1>1, RecordInvariant, PTL DEF Spec, HeardNotTimedOut

\* The application is told of every source it can find, and of every one that
\* leaves the table while the table is in use.
THEOREM SourcesAnnouncedSafe == Spec => SourcesAnnounced
<1> DEFINE AnnounceInv == TypeOK /\ table \subseteq known
           Announced == /\ table' \subseteq known'
                        /\ known' \ table' \subseteq known \ table \/ Clear
<1>1. Init => AnnounceInv
  BY InitType DEF Init
<1>2. ASSUME AnnounceInv, [Next]_vars
      PROVE  Announced
  <2>1. ASSUME NEW s \in SSRC, Obtain(s)
        PROVE  Announced
    BY <1>2, <2>1 DEF Obtain
  <2>2. ASSUME NEW gone, NEW mute, NEW stale, Sweep(gone, mute, stale)
        PROVE  Announced
    BY <1>2, <2>2 DEF Sweep
  <2>3. ASSUME UNCHANGED <<table, known>>
        PROVE  Announced
    BY <1>2, <2>3
  <2>4. ASSUME NEW a \in Addr, ProcessRawPacket(a)
        PROVE  Announced
    <3> DEFINE from == IF a \in OwnAddr THEN NULL ELSE a
    <3>1. PICK t \in received..now, s \in SSRC :
            \/ \E isnext \in BOOLEAN, n \in 0..MaxCSRCs :
                 \E list \in [1..n -> SSRC] :
                   ProcessRTPPacket(s, isnext, list, from, t)
            \/ RTPCollision(s, from)
            \/ ProcessRTCPCompoundPacket(s, from, t)
      BY <2>4 DEF ProcessRawPacket
    <3> HIDE DEF from
    <3> QED
      BY ZenonT(60), <2>1, <2>3, <3>1
         DEF ProcessRTPPacket, RTPCollision, OnSSRCCollision,
             ProcessRTCPCompoundPacket, UpdateReceiveTime, ProcessCNAME, ProcessNOTE,
             ProcessBYE, RTCPCollision, StoreRTCP
  <2>5. ASSUME ProcessCSRC
        PROVE  Announced
    <3>1. Head(csrcs) \in SSRC
      BY <1>2, <2>5 DEF ProcessCSRC, TypeOK
    <3> QED
      BY <2>1, <2>3, <2>5, <3>1 DEF ProcessCSRC
  <2>6. ASSUME \/ \E s \in SSRC : CreateOwnSSRC(s)
               \/ SentRTPPacket \/ ClearOwnCollisionFlag \/ Tick \/ UNCHANGED vars
        PROVE  Announced
    BY <2>1, <2>3, <2>6
       DEF CreateOwnSSRC, SentRTPPacket, ClearOwnCollisionFlag, Tick, vars
  <2>7. ASSUME DeleteOwnSSRC \/ Clear
        PROVE  Announced
    BY <1>2, <2>7 DEF DeleteOwnSSRC, Clear
  <2> QED
    BY <1>2, <2>2, <2>4, <2>5, <2>6, <2>7
       DEF Next, Timeout, SenderTimeout, BYETimeout, NoteTimeout, MultipleTimeouts
<1>3. AnnounceInv /\ [Next]_vars => AnnounceInv' /\ [Announced]_vars
  BY <1>2, TypeStep
<1> QED
  BY <1>1, <1>3, PTL DEF Spec, SourcesAnnounced

=============================================================================
