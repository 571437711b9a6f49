----------------------------- MODULE RTPSources -----------------------------
(***************************************************************************)
(* The source table of a session: RTPSources with the per-source flags of   *)
(* RTPInternalSourceData that decide membership, and RTPSessionSources' own *)
(* collision flag.                                                          *)
(*                                                                          *)
(* Every handler runs under the session's sources mutex, so one handler is  *)
(* one action.  The exceptions are two loops whose iterations do not depend *)
(* on each other: a compound RTCP packet is the sequence of its blocks, and *)
(* the CSRC list of an RTP packet is consumed one identifier per step, with *)
(* every other handler held back until it is empty.                         *)
(*                                                                          *)
(* An SSRC outside `table' has the state of a freshly constructed           *)
(* RTPInternalSourceData, so that looking up an identifier and creating it  *)
(* (ObtainSourceDataInstance) lead to the same record.                      *)
(***************************************************************************)
EXTENDS Integers, Sequences, FiniteSets

CONSTANTS
  SSRC,            \* synchronization source identifiers
  NoSSRC,          \* owndata = 0
  Addr,            \* transport addresses
  OwnAddr,         \* those ComesFromThisTransmitter recognises as ours
  HostOf,          \* the host part of an address
  NULL,            \* the NULL sender address of our own packets
  UNSET,           \* isrtpaddrset (isrtcpaddrset) is false
  CName,           \* CNAMEs of positive length
  NoCName,         \* the CNAME of length zero
  ApplyProbation,  \* probationtype # NoProbation
  PROBATIONCOUNT,  \* RTP_PROBATIONCOUNT
  AcceptOwnPackets,\* RTPSession::acceptownpackets
  MaxCSRCs,        \* bound: length of a CSRC list (RTP_MAXCSRCS)
  Delay,           \* bound: the timeout intervals passed by the session
  StartTime,       \* bound: the first instant of the run
  MaxTime          \* bound: the last instant of the run

ASSUME SSRCAssumption ==
  /\ NoSSRC \notin SSRC
  /\ IsFiniteSet(SSRC)

ASSUME AddrAssumption ==
  /\ NULL \notin Addr
  /\ UNSET \notin Addr
  /\ NULL # UNSET
  /\ OwnAddr \subseteq Addr
  /\ NoCName \notin CName

ASSUME NumberAssumption ==
  /\ ApplyProbation \in BOOLEAN
  /\ AcceptOwnPackets \in BOOLEAN
  /\ PROBATIONCOUNT \in Nat \ {0}
  /\ MaxCSRCs \in Nat
  /\ StartTime \in Nat
  /\ MaxTime \in Nat
  /\ StartTime > 0

\* The epoch lies further back than any interval: RTPTime(0,0), the time of
\* what never happened, is always before the time a timeout looks back to.
ASSUME DelayAssumption == \A d \in Delay : d \in Nat /\ d < StartTime

VARIABLES
  table,           \* SSRCs with an entry in sourcelist
  src,             \* their RTPInternalSourceData
  own,             \* owndata, by SSRC
  totalcount,
  sendercount,
  activecount,
  owncollision,    \* RTPSessionSources::owncollision
  csrcs,           \* CSRCs of the accepted packet, not yet looked at
  csrcfrom,        \* the sender address of that packet
  now,             \* RTPTime::CurrentTime()
  received,        \* the receive time of the last packet that was processed
  known,           \* history: OnNewSource called, OnRemoveSource not yet
  heard            \* history: last time a packet that names the SSRC was taken

vars == <<table, src, own, totalcount, sendercount, activecount,
          owncollision, csrcs, csrcfrom, now, received, known, heard>>

Sender == Addr \cup {NULL}
Time == Nat
Never == 0

Source ==
  [rtpaddr     : Sender \cup {UNSET},
   rtcpaddr    : Sender \cup {UNSET},
   validated   : BOOLEAN,
   ownssrc     : BOOLEAN,
   iscsrc      : BOOLEAN,
   issender    : BOOLEAN,
   receivedbye : BOOLEAN,
   byetime     : Time,
   probation   : 0..PROBATIONCOUNT,
   cname       : CName \cup {NoCName},
   note        : BOOLEAN,
   notetime    : Time,
   lastmsg     : Time,
   lastrtp     : Time]

\* RTPSourceData and RTPSourceStats as their constructors leave them.
NewSource ==
  [rtpaddr |-> UNSET, rtcpaddr |-> UNSET, validated |-> FALSE,
   ownssrc |-> FALSE, iscsrc |-> FALSE, issender |-> FALSE,
   receivedbye |-> FALSE, byetime |-> Never, probation |-> 0,
   cname |-> NoCName, note |-> FALSE, notetime |-> Never,
   lastmsg |-> Never, lastrtp |-> Never]

IsActive(d) == d.validated /\ ~d.receivedbye

Bit(b) == IF b THEN 1 ELSE 0

-----------------------------------------------------------------------------
(* Addresses and collisions *)

IsFromSameHost(a, b) ==
  IF NULL \in {a, b} THEN a = b ELSE HostOf[a] = HostOf[b]

\* Mutant: RTP and RTCP addresses are not compared with each other.
CheckCollisionOneKind(d, a, isrtp) ==
  (IF isrtp THEN d.rtpaddr ELSE d.rtcpaddr) \notin {UNSET, a}

\* CheckCollision: an address already known for this kind of traffic must be
\* the same one; otherwise the address of the other kind must share its host.
CheckCollision(d, a, isrtp) ==
  LET addr  == IF isrtp THEN d.rtpaddr ELSE d.rtcpaddr
      other == IF isrtp THEN d.rtcpaddr ELSE d.rtpaddr
  IN  IF addr # UNSET
      THEN addr # a
      ELSE other # UNSET /\ ~IsFromSameHost(other, a)

\* The record once its address is stored; nothing changes when it was there.
SetAddress(d, a, isrtp) ==
  IF isrtp THEN [d EXCEPT !.rtpaddr = a] ELSE [d EXCEPT !.rtcpaddr = a]

-----------------------------------------------------------------------------
(* Shared parts of the handlers *)

\* No CSRC loop is in progress.
Ready == csrcs = <<>>

\* ObtainSourceDataInstance, with OnNewSource for an entry it created.
Obtain(s) ==
  /\ table' = table \cup {s}
  /\ totalcount' = totalcount + Bit(s \notin table)
  /\ known' = IF s \in table THEN known ELSE known \cup {s}

\* OnSSRCCollision of RTPSessionSources: the packet leaves no other trace.
OnSSRCCollision(s) ==
  /\ owncollision' = (owncollision \/ src[s].ownssrc)
  /\ UNCHANGED <<table, src, own, totalcount, sendercount, activecount,
                 csrcs, csrcfrom, now, known, heard>>

\* The counters as they are recomputed from a table tab with records rec.
Recount(tab, rec) ==
  /\ totalcount' = Cardinality(tab)
  /\ sendercount' = Cardinality({s \in tab : rec[s].issender})
  /\ activecount' = Cardinality({s \in tab : IsActive(rec[s])})

-----------------------------------------------------------------------------
(* The session's own entry *)

CreateOwnSSRC(s) ==
  /\ Ready
  /\ own = NoSSRC
  /\ s \notin table
  /\ Obtain(s)
  /\ own' = s
  /\ src' = [src EXCEPT ![s] = [@ EXCEPT !.ownssrc = TRUE, !.validated = TRUE,
                                          !.rtpaddr = NULL, !.rtcpaddr = NULL]]
  /\ activecount' = activecount + 1
  /\ UNCHANGED <<sendercount, owncollision, csrcs, csrcfrom, now, received,
                 heard>>

\* Mutant: the sender count is left alone.
DeleteOwnSSRCStillSending ==
  /\ Ready
  /\ own # NoSSRC
  /\ table' = table \ {own}
  /\ src' = [src EXCEPT ![own] = NewSource]
  /\ own' = NoSSRC
  /\ totalcount' = totalcount - 1
  /\ activecount' = activecount - Bit(IsActive(src[own]))
  /\ known' = known \ {own}
  /\ heard' = [heard EXCEPT ![own] = Never]
  /\ UNCHANGED <<sendercount, owncollision, csrcs, csrcfrom, now, received>>

DeleteOwnSSRC ==
  /\ Ready
  /\ own # NoSSRC
  /\ table' = table \ {own}
  /\ src' = [src EXCEPT ![own] = NewSource]
  /\ own' = NoSSRC
  /\ totalcount' = totalcount - 1
  /\ sendercount' = sendercount - Bit(src[own].issender)
  /\ activecount' = activecount - Bit(IsActive(src[own]))
  /\ known' = known \ {own}
  /\ heard' = [heard EXCEPT ![own] = Never]
  /\ UNCHANGED <<owncollision, csrcs, csrcfrom, now, received>>

SentRTPPacket ==
  /\ Ready
  /\ own # NoSSRC
  /\ src' = [src EXCEPT ![own] = [@ EXCEPT !.issender = TRUE,
                                            !.lastrtp = now, !.lastmsg = now]]
  /\ sendercount' = sendercount + Bit(~src[own].issender)
  /\ UNCHANGED <<table, own, totalcount, activecount, owncollision,
                 csrcs, csrcfrom, now, received, known, heard>>

\* The entries go without OnRemoveSource.
Clear ==
  /\ Ready
  /\ table' = {}
  /\ src' = [s \in SSRC |-> NewSource]
  /\ own' = NoSSRC
  /\ totalcount' = 0
  /\ sendercount' = 0
  /\ activecount' = 0
  /\ heard' = [s \in SSRC |-> Never]
  /\ UNCHANGED <<owncollision, csrcs, csrcfrom, now, received, known>>

ClearOwnCollisionFlag ==
  /\ Ready
  /\ owncollision
  /\ owncollision' = FALSE
  /\ UNCHANGED <<table, src, own, totalcount, sendercount, activecount,
                 csrcs, csrcfrom, now, received, known, heard>>

-----------------------------------------------------------------------------
(* RTP packets *)

\* Mutant: the probation count starts by counting down.
ReceiveRTPCountingDown(d, isnext, t) ==
  LET applies == ~d.validated /\ ApplyProbation
      left    == IF isnext THEN d.probation - 1 ELSE PROBATIONCOUNT
      accept  == applies => left = 0
  IN  [d EXCEPT !.probation = IF applies THEN left ELSE @,
                !.validated = @ \/ accept,
                !.issender  = @ \/ (accept /\ ~d.ownssrc),
                !.lastrtp   = IF accept /\ ~d.ownssrc THEN t ELSE @,
                !.lastmsg   = t]

\* RTPInternalSourceData::ProcessRTPPacket and RTPSourceStats::ProcessPacket:
\* isnext says whether the packet has the sequence number after the previous
\* one, t when it was received.  While on probation only lastmsgtime and the
\* probation count move; for our own packets lastrtptime is left to SentRTPPacket.
ReceiveRTP(d, isnext, t) ==
  LET applies == ~d.validated /\ ApplyProbation
      left    == IF d.probation > 0 /\ isnext THEN d.probation - 1
                                              ELSE PROBATIONCOUNT
      accept  == applies => left = 0
      remote  == accept /\ ~d.ownssrc
  IN  [d EXCEPT !.probation = IF applies THEN left ELSE @,
                !.validated = @ \/ accept,
                !.issender  = @ \/ remote,
                !.lastrtp   = IF remote THEN t ELSE @,
                !.lastmsg   = t]

\* The packet of source s with CSRC list `list' from address a, received at t.
ProcessRTPPacket(s, isnext, list, a, t) ==
  LET d == ReceiveRTP(SetAddress(src[s], a, TRUE), isnext, t)
  IN  /\ Ready
      /\ ~CheckCollision(src[s], a, TRUE)
      /\ Obtain(s)
      /\ src' = [src EXCEPT ![s] = d]
      /\ sendercount' = sendercount + Bit(d.issender /\ ~src[s].issender)
      /\ activecount' = activecount + Bit(IsActive(d) /\ ~IsActive(src[s]))
      /\ csrcs' = IF d.validated THEN list ELSE <<>>
      /\ csrcfrom' = IF d.validated /\ list # <<>> THEN a ELSE NULL
      /\ heard' = [heard EXCEPT ![s] = t]
      /\ UNCHANGED <<own, owncollision, now>>

RTPCollision(s, a) ==
  /\ Ready
  /\ CheckCollision(src[s], a, TRUE)
  /\ OnSSRCCollision(s)

\* The rest of the CSRC loop after one of its iterations.
NextCSRC ==
  /\ csrcs' = Tail(csrcs)
  /\ csrcfrom' = IF Len(csrcs) = 1 THEN NULL ELSE csrcfrom

\* One iteration: a new entry is validated and counted; an existing one only
\* gets the address and is validated, its counters being left alone.
ProcessCSRC ==
  /\ csrcs # <<>>
  /\ LET c == Head(csrcs)
     IN  IF c \notin table
         THEN /\ Obtain(c)
              /\ src' = [src EXCEPT ![c] = [@ EXCEPT !.validated = TRUE,
                                                      !.iscsrc = TRUE]]
              /\ activecount' = activecount + 1
              /\ heard' = [heard EXCEPT ![c] = received]
              /\ UNCHANGED owncollision
         ELSE /\ UNCHANGED <<table, totalcount, activecount, known>>
              /\ IF CheckCollision(src[c], csrcfrom, TRUE)
                 THEN /\ owncollision' = (owncollision \/ src[c].ownssrc)
                      /\ UNCHANGED <<src, heard>>
                 ELSE /\ src' = [src EXCEPT ![c] =
                                  [SetAddress(@, csrcfrom, TRUE) EXCEPT
                                     !.validated = TRUE, !.iscsrc = TRUE]]
                      /\ heard' = [heard EXCEPT ![c] = received]
                      /\ UNCHANGED owncollision
  /\ NextCSRC
  /\ UNCHANGED <<own, sendercount, now, received>>

-----------------------------------------------------------------------------
(* RTCP packets, block by block *)

\* GetRTCPSourceData succeeded for s and the handler leaves record d; the
\* packet was received at t.
StoreRTCP(s, a, d, t) ==
  /\ Ready
  /\ ~CheckCollision(src[s], a, FALSE)
  /\ Obtain(s)
  /\ src' = [src EXCEPT ![s] = SetAddress(d, a, FALSE)]
  /\ heard' = [heard EXCEPT ![s] = t]
  /\ UNCHANGED <<own, sendercount, owncollision, csrcs, csrcfrom, now>>

RTCPCollision(s, a) ==
  /\ Ready
  /\ CheckCollision(src[s], a, FALSE)
  /\ OnSSRCCollision(s)

\* Mutant: RTCP blocks do not put the time-out off.
UpdateReceiveTimeNot(s, a, t) ==
  StoreRTCP(s, a, src[s], t) /\ UNCHANGED activecount

\* Sender information, a report block, a private SDES item, or none of them
\* (UpdateReceiveTime): to the table they all say that s was heard.
UpdateReceiveTime(s, a, t) ==
  /\ StoreRTCP(s, a, [src[s] EXCEPT !.lastmsg = t], t)
  /\ UNCHANGED activecount

\* Mutant: every CNAME is stored.
ProcessCNAMEAgain(s, c, a, t) ==
  LET d == [src[s] EXCEPT !.lastmsg = t, !.cname = c, !.validated = TRUE]
  IN  /\ StoreRTCP(s, a, d, t)
      /\ activecount' = activecount + Bit(IsActive(d) /\ ~IsActive(src[s]))

\* Mutant: validation by a CNAME is not counted.
ProcessCNAMEUncounted(s, c, a, t) ==
  LET first == src[s].cname = NoCName
  IN  /\ StoreRTCP(s, a, [src[s] EXCEPT !.lastmsg = t,
                                         !.cname = IF first THEN c ELSE @,
                                         !.validated = @ \/ first], t)
      /\ UNCHANGED activecount

\* A CNAME is stored once, and validates; a different one later is ignored.
ProcessCNAME(s, c, a, t) ==
  LET first == src[s].cname = NoCName
      d == [src[s] EXCEPT !.lastmsg = t,
                          !.cname = IF first THEN c ELSE @,
                          !.validated = @ \/ first]
  IN  /\ StoreRTCP(s, a, d, t)
      /\ activecount' = activecount + Bit(IsActive(d) /\ ~IsActive(src[s]))

\* A NOTE, whose text may be empty.
ProcessNOTE(s, text, a, t) ==
  /\ StoreRTCP(s, a, [src[s] EXCEPT !.lastmsg = t, !.note = text,
                                     !.notetime = t], t)
  /\ UNCHANGED activecount

\* The mutants of ProcessBYE say goodbye to ourselves, leave the active count
\* alone, and forget that a message arrived.
ByeRecord(s, t) == [src[s] EXCEPT !.lastmsg = t, !.byetime = t,
                               !.receivedbye = TRUE]

ProcessBYEOurs(s, a, t) ==
  /\ StoreRTCP(s, a, ByeRecord(s, t), t)
  /\ activecount' = activecount - Bit(IsActive(src[s]))

ProcessBYEUncounted(s, a, t) ==
  /\ s # own
  /\ StoreRTCP(s, a, ByeRecord(s, t), t)
  /\ UNCHANGED activecount

ProcessBYEUntimed(s, a, t) ==
  /\ s # own
  /\ StoreRTCP(s, a, [src[s] EXCEPT !.byetime = t, !.receivedbye = TRUE], t)
  /\ activecount' = activecount - Bit(IsActive(src[s]))

\* A BYE for another source; one for ourselves is ignored.
ProcessBYE(s, a, t) ==
  LET d == [src[s] EXCEPT !.lastmsg = t, !.byetime = t,
                          !.receivedbye = TRUE]
  IN  /\ s # own
      /\ StoreRTCP(s, a, d, t)
      /\ activecount' = activecount - Bit(IsActive(src[s]))

\* One block of a compound packet, about source s.
ProcessRTCPCompoundPacket(s, a, t) ==
  \/ UpdateReceiveTime(s, a, t)
  \/ \E c \in CName \cup {NoCName} : ProcessCNAME(s, c, a, t)
  \/ \E text \in BOOLEAN : ProcessNOTE(s, text, a, t)
  \/ ProcessBYE(s, a, t)
  \/ RTCPCollision(s, a)

\* A packet that arrived from transport address a; our own packets are either
\* taken with sender address NULL or ignored.  Its receive time is the one the
\* transmitter gave it, which may lie back, but the transmitter hands packets
\* over in the order in which it received them.
ProcessRawPacket(a) ==
  LET from == IF a \in OwnAddr THEN NULL ELSE a
  IN  /\ a \in OwnAddr => AcceptOwnPackets
      /\ \E t \in received..now :
           /\ received' = t
           /\ \E s \in SSRC :
                \/ \E isnext \in BOOLEAN, n \in 0..MaxCSRCs :
                     \E list \in [1..n -> SSRC] :
                       ProcessRTPPacket(s, isnext, list, from, t)
                \/ RTPCollision(s, from)
                \/ ProcessRTCPCompoundPacket(s, from, t)

-----------------------------------------------------------------------------
(* Timeouts.  Interval d has passed since t when t lies before now - d. *)

Passed(t, d) == t < now - d

Silent(s, d) == s # own /\ Passed(src[s].lastmsg, d)

ByeOver(s, d) == s # own /\ src[s].receivedbye /\ Passed(src[s].byetime, d)

NoteOld(s, d) == src[s].note /\ Passed(src[s].notetime, d)

SenderOld(s, d) == src[s].issender /\ Passed(src[s].lastrtp, d)

\* Mutant: what is deleted is not announced.
SweepSilently(gone, mute, stale) ==
  LET rec == [s \in SSRC |->
                IF s \in gone THEN NewSource
                ELSE [src[s] EXCEPT !.issender = @ /\ s \notin mute,
                                    !.note = @ /\ s \notin stale]]
  IN  /\ Ready
      /\ table' = table \ gone
      /\ src' = rec
      /\ Recount(table \ gone, rec)
      /\ heard' = [s \in SSRC |-> IF s \in gone THEN Never ELSE heard[s]]
      /\ UNCHANGED <<own, owncollision, csrcs, csrcfrom, now, received, known>>

\* One pass over the table: `gone' is deleted, `mute' loses the sender flag,
\* `stale' loses its NOTE, and the counters are taken from what was seen.
Sweep(gone, mute, stale) ==
  LET rec == [s \in SSRC |->
                IF s \in gone THEN NewSource
                ELSE [src[s] EXCEPT !.issender = @ /\ s \notin mute,
                                    !.note = @ /\ s \notin stale]]
  IN  /\ Ready
      /\ table' = table \ gone
      /\ src' = rec
      /\ Recount(table \ gone, rec)
      /\ known' = known \ gone
      /\ heard' = [s \in SSRC |-> IF s \in gone THEN Never ELSE heard[s]]
      /\ UNCHANGED <<own, owncollision, csrcs, csrcfrom, now, received>>

Timeout(d) == Sweep({s \in table : Silent(s, d)}, {}, {})

SenderTimeout(d) == Sweep({}, {s \in table : SenderOld(s, d)}, {})

BYETimeout(d) == Sweep({s \in table : ByeOver(s, d)}, {}, {})

NoteTimeout(d) == Sweep({}, {}, {s \in table : NoteOld(s, d)})

MultipleTimeouts(dsender, dbye, dgeneral, dnote) ==
  Sweep({s \in table : ByeOver(s, dbye) \/ Silent(s, dgeneral)},
        {s \in table : SenderOld(s, dsender)},
        {s \in table : NoteOld(s, dnote)})

Tick ==
  /\ Ready
  /\ now < MaxTime
  /\ now' = now + 1
  /\ UNCHANGED <<table, src, own, totalcount, sendercount, activecount,
                 owncollision, csrcs, csrcfrom, received, known, heard>>

-----------------------------------------------------------------------------

Init ==
  /\ table = {}
  /\ src = [s \in SSRC |-> NewSource]
  /\ own = NoSSRC
  /\ totalcount = 0
  /\ sendercount = 0
  /\ activecount = 0
  /\ owncollision = FALSE
  /\ csrcs = <<>>
  /\ csrcfrom = NULL
  /\ now = StartTime
  /\ received = StartTime
  /\ known = {}
  /\ heard = [s \in SSRC |-> Never]

Next ==
  \/ \E s \in SSRC : CreateOwnSSRC(s)
  \/ DeleteOwnSSRC
  \/ SentRTPPacket
  \/ Clear
  \/ ClearOwnCollisionFlag
  \/ \E a \in Addr : ProcessRawPacket(a)
  \/ ProcessCSRC
  \/ \E d \in Delay : Timeout(d)
  \/ \E d \in Delay : SenderTimeout(d)
  \/ \E d \in Delay : BYETimeout(d)
  \/ \E d \in Delay : NoteTimeout(d)
  \/ \E d1, d2, d3, d4 \in Delay : MultipleTimeouts(d1, d2, d3, d4)
  \/ Tick

Spec == Init /\ [][Next]_vars

-----------------------------------------------------------------------------
(* Properties *)

\* The variables have their types.
TypeOK ==
  /\ table \in SUBSET SSRC
  /\ src \in [SSRC -> Source]
  /\ own \in SSRC \cup {NoSSRC}
  /\ totalcount \in Int
  /\ sendercount \in Int
  /\ activecount \in Int
  /\ owncollision \in BOOLEAN
  /\ csrcs \in Seq(SSRC)
  /\ csrcfrom \in Sender
  /\ now \in Time
  /\ received \in Time
  /\ known \in SUBSET SSRC
  /\ heard \in [SSRC -> Time]

\* GetTotalCount and GetSenderCount, which the RTCP scheduler divides the
\* bandwidth by, are exact after every handler and not only after a recount:
\* incremental updates by packets, CSRC lists, our own sending, deletion of
\* our entry and four kinds of timeout never drift from the table.
CountsExact ==
  /\ totalcount = Cardinality(table)
  /\ sendercount = Cardinality({s \in table : src[s].issender})

\* GetActiveMemberCount never counts a member that is not active, whatever the
\* order of validation by packets, CNAME or CSRC and of BYE packets.
ActiveCountNeverOver ==
  activecount <= Cardinality({s \in table : IsActive(src[s])})

\* GetActiveMemberCount: "the number of members which have been validated and
\* which haven't sent a BYE packet yet".
ActiveCountExact ==
  activecount = Cardinality({s \in table : IsActive(src[s])})

\* Our own entry stays in the table, validated, without a BYE and with NULL
\* addresses for as long as it exists, whatever arrives under its SSRC from
\* the network, in a CSRC list or in a BYE, and however long it is silent;
\* no other entry is ever taken for ours.
OwnEntryIntact ==
  \A s \in SSRC :
    IF s = own
    THEN /\ s \in table
         /\ src[s].ownssrc
         /\ IsActive(src[s])
         /\ src[s].rtpaddr = NULL
         /\ src[s].rtcpaddr = NULL
    ELSE ~src[s].ownssrc

\* The RTP and the RTCP address of a source always lie on the same host,
\* however RTP, RTCP and CSRC lists of several senders were interleaved:
\* collisions are found whichever of the two was learned first.
AddressesOnOneHost ==
  \A s \in table :
    \/ UNSET \in {src[s].rtpaddr, src[s].rtcpaddr}
    \/ IsFromSameHost(src[s].rtpaddr, src[s].rtcpaddr)

\* While an entry lives, what identifies its participant is written once: an
\* address, a CNAME of positive length, validation and a BYE are for good.
IdentityKept ==
  [][\A s \in table \cap table' :
       /\ src[s].rtpaddr \in {UNSET, src'[s].rtpaddr}
       /\ src[s].rtcpaddr \in {UNSET, src'[s].rtcpaddr}
       /\ src[s].cname \in {NoCName, src'[s].cname}
       /\ src[s].validated => src'[s].validated
       /\ src[s].receivedbye => src'[s].receivedbye]_vars

\* A source that only speaks for itself is not timed out while it is heard:
\* every handler that takes one of its packets puts the time-out off.
HeardNotTimedOut ==
  [][\A d \in Delay, s \in table :
       Timeout(d) /\ s \notin table' => Passed(heard[s], d) \/ src[s].iscsrc]_vars

\* Timeout: "time out the members from whom we haven't heard during the
\* previous time interval timeoutdelay", contributing sources included.
OnlyUnheardTimedOut ==
  [][\A d \in Delay, s \in table :
       Timeout(d) /\ s \notin table' => Passed(heard[s], d)]_vars

\* Every time a timeout compares with was really recorded, and in order: a
\* sender was validated and has a time of its last RTP packet, a BYE and a NOTE
\* have theirs, none of these is later than the last message, and none lies in
\* the future.  So no time-out is put off beyond its interval, and a source
\* silent for longer than any of them is past each.  Only our own entry may
\* have sent RTP after its last message: SentRTPPacket records the moment of
\* sending, and an own packet that was received before it but is processed
\* after it takes lastmsgtime back.
TimesConsistent ==
  \A s \in table :
    /\ src[s].issender => src[s].validated /\ src[s].lastrtp # Never
    /\ src[s].receivedbye <=> src[s].byetime # Never
    /\ src[s].note => src[s].notetime # Never
    /\ \A t \in {src[s].byetime, src[s].notetime} : t <= src[s].lastmsg
    /\ s # own => src[s].lastrtp <= src[s].lastmsg
    /\ \A t \in {src[s].lastrtp, src[s].lastmsg} : t <= now

\* The application is told of every entry: OnNewSource for each one in the
\* table, and OnRemoveSource for each one that leaves it, except by Clear.
SourcesAnnounced ==
  [][/\ table' \subseteq known'
     /\ known' \ table' \subseteq known \ table \/ Clear]_vars

=============================================================================
