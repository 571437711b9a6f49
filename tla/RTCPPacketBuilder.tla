-------------------------- MODULE RTCPPacketBuilder --------------------------
(***************************************************************************)
(* What goes into the RTCP packets that a session sends: first, over as many*)
(* packets as it takes, a report block for every source that was heard, then*)
(* our SDES items that are due, and so on.  Flags in the source table and   *)
(* for the SDES items say what was done already.                            *)
(*                                                                          *)
(* A source is in heard when its last RTP packet came after the previous    *)
(* RTCP packet was built.  The table always has our own entry.  The values  *)
(* in the reports, and the delay and timestamp unit they are computed with, *)
(* are left out.                                                            *)
(***************************************************************************)
EXTENDS RTCPBuilderParams

VARIABLES
  init,
  maxpacketsize,
  firstpacket,
  processingsdes,
  sdesbuildcount,
  interval,
  doitem,            \* the items that are due
  processeditem,     \* the items with their flag in ownsdesinfo set
  processed,         \* the sources with the flag processedinrtcp set
  hassent,           \* the sources that have sent RTP data
  heard,
  sender,            \* whether our own entry is a sender
  packet,            \* the packet built last
  inits,             \* counter for MaxInits
  leftover,          \* history: the items that had their flag set before Init
  waiting,           \* history: packets built since a source, heard before
                     \* each of them, was reported
  sentitems          \* history: how often each item was sent in this round

flags == <<processingsdes, sdesbuildcount, doitem, processeditem, processed>>
sourcevars == <<hassent, heard, sender>>
buildervars == <<init, maxpacketsize, firstpacket, flags, interval, sourcevars,
                 packet, inits, leftover, waiting, sentitems>>

ItemSet == Range(Items)
Reporters == Range(Table) \ ({Own} \cup CSRCs)

-----------------------------------------------------------------------------
(* Filling a packet *)

\* Reported once it was heard, after the first packet only if that was since
\* the previous one.
ShouldProcess(s) == s \in Reporters \cap hassent /\ (firstpacket \/ s \in heard)

\* Mutant: the flag of a source is not set.
VisitSourceUnflagged(fill, s) ==
  IF fill.full \/ fill.added >= fill.maxcount \/ ~ShouldProcess(s) THEN fill
  ELSE IF s \in fill.processed THEN [fill EXCEPT !.skipped = @ + 1]
  ELSE IF ~BlockFits(fill.pack) THEN [fill EXCEPT !.full = TRUE]
  ELSE [fill EXCEPT !.pack = WithBlock(@, s), !.added = @ + 1]

\* A turn of FillInReportBlocks for the next source of the table.
VisitSource(fill, s) ==
  IF fill.full \/ fill.added >= fill.maxcount \/ ~ShouldProcess(s) THEN fill
  ELSE IF s \in fill.processed THEN [fill EXCEPT !.skipped = @ + 1]
  ELSE IF ~BlockFits(fill.pack) THEN [fill EXCEPT !.full = TRUE]
  ELSE [fill EXCEPT !.pack = WithBlock(@, s), !.added = @ + 1,
                    !.processed = @ \cup {s}]

FillInReportBlocks(p, flagged, maxcount) ==
  FoldLeft(VisitSource,
           [pack |-> p, processed |-> flagged, maxcount |-> maxcount,
            added |-> 0, skipped |-> 0, full |-> FALSE],
           Table)

\* No source is left that could be reported.
AtEndOfList(fill) ==
  \A s \in Range(Table) : ShouldProcess(s) => s \in fill.processed

\* The items of FillInSDES that are due, one after the other until one does
\* not fit.
VisitItem(due, fill, item) ==
  IF fill.full \/ item \notin due \/ item \in fill.processed THEN fill
  ELSE IF ~ItemFits(fill.pack, ItemLength[item]) THEN [fill EXCEPT !.full = TRUE]
  ELSE [fill EXCEPT
          !.pack = WithItem(@, [id |-> item, len |-> ItemLength[item]]),
          !.processed = @ \cup {item}]

FillInSDES(p, due, flagged) ==
  FoldLeft(LAMBDA fill, item : VisitItem(due, fill, item),
           [pack |-> p, processed |-> flagged, full |-> FALSE], Items)

\* A report of our own and our CNAME, which fit by the minimum packet size.
StartPacket(usesr) ==
  WithItem(WithSource(WithReport(EmptyPack(maxpacketsize),
                                 IF usesr THEN "SR" ELSE "RR"), Own),
           [id |-> "cname", len |-> CNAMELength])

-----------------------------------------------------------------------------
(* BuildNextPacket *)

\* The end of it: the packet and the new flags.
Finish(p, flagged) ==
  /\ packet' = p
  /\ processed' = flagged
  /\ firstpacket' = FALSE
  /\ heard' = {}
  /\ waiting' = [s \in Reporters |->
       IF s \in Range(p.blocks) \/ ~ShouldProcess(s) THEN 0 ELSE waiting[s] + 1]
  /\ UNCHANGED <<init, maxpacketsize, interval, hassent, sender, inits, leftover>>

\* The items a packet has, counted for the round it belongs to.
CountItems(before, p) ==
  sentitems' = [item \in ItemSet |->
    before[item] +
      Cardinality({i \in DOMAIN p.sdes[1].items : p.sdes[1].items[i].id = item})]

\* There are more report blocks than fit.
BuildReports(fill) ==
  /\ fill.full /\ fill.added > 0
  /\ Finish(fill.pack, fill.processed)
  /\ UNCHANGED <<processingsdes, sdesbuildcount, doitem, processeditem, sentitems>>

Due == {item \in ItemSet :
          interval[item] > 0 /\ (sdesbuildcount + 1) % interval[item] = 0}

\* Mutant: the SDES items are never finished.
BuildReportsAndSDESOn(fill) ==
  LET sdes == FillInSDES(fill.pack, Due, processeditem)
  IN  /\ ~fill.full
      /\ sdesbuildcount < MaxRounds
      /\ sdesbuildcount' = sdesbuildcount + 1
      /\ doitem' = Due
      /\ processingsdes' = TRUE
      /\ processeditem' = sdes.processed
      /\ CountItems([item \in ItemSet |-> 0], sdes.pack)
      /\ Finish(sdes.pack, {})

\* All sources have been reported: the SDES items are begun and, if they fit,
\* finished.  Then there may be space for sources that were skipped, and those
\* have no flag any more.
BuildReportsAndSDES(fill) ==
  LET sdes == FillInSDES(fill.pack, Due, processeditem)
      again == FillInReportBlocks(sdes.pack, {}, fill.skipped)
  IN  /\ ~fill.full
      /\ sdesbuildcount < MaxRounds
      /\ sdesbuildcount' = sdesbuildcount + 1
      /\ doitem' = Due
      /\ processingsdes' = sdes.full
      /\ processeditem' = IF sdes.full THEN sdes.processed ELSE {}
      /\ CountItems([item \in ItemSet |-> 0], sdes.pack)
      /\ IF ~sdes.full /\ fill.skipped > 0
         THEN Finish(again.pack, again.processed)
         ELSE Finish(sdes.pack, {})

\* Mutant: the flags of the items stay when all have been sent.
BuildSDESKeepingFlags ==
  LET sdes == FillInSDES(StartPacket(sender), doitem, processeditem)
      fill == FillInReportBlocks(sdes.pack, processed, Len(Table))
  IN  /\ sdes.processed # processeditem
      /\ processingsdes' = sdes.full
      /\ processeditem' = sdes.processed
      /\ CountItems(sentitems, sdes.pack)
      /\ IF sdes.full THEN Finish(sdes.pack, processed)
         ELSE Finish(fill.pack, IF AtEndOfList(fill) THEN {} ELSE fill.processed)
      /\ UNCHANGED <<sdesbuildcount, doitem>>

\* The items are continued; when all have been sent the rest of the packet is
\* for report blocks.
BuildSDES ==
  LET sdes == FillInSDES(StartPacket(sender), doitem, processeditem)
      fill == FillInReportBlocks(sdes.pack, processed, Len(Table))
  IN  /\ sdes.processed # processeditem
      /\ processingsdes' = sdes.full
      /\ processeditem' = IF sdes.full THEN sdes.processed ELSE {}
      /\ CountItems(sentitems, sdes.pack)
      /\ IF sdes.full THEN Finish(sdes.pack, processed)
         ELSE Finish(fill.pack, IF AtEndOfList(fill) THEN {} ELSE fill.processed)
      /\ UNCHANGED <<sdesbuildcount, doitem>>

BuildNextPacket ==
  LET fill == FillInReportBlocks(StartPacket(sender), processed, Len(Table))
  IN  /\ init
      /\ IF processingsdes THEN BuildSDES
         ELSE BuildReports(fill) \/ BuildReportsAndSDES(fill)

\* Changes nothing in the builder.
BuildBYEPacket(reasonlength, useSRifpossible) ==
  /\ init
  /\ packet' = [StartPacket(sender /\ useSRifpossible) EXCEPT
                !.bye = <<[count |-> 1, reason |-> reasonlength]>>]
  /\ OtherFits(StartPacket(sender /\ useSRifpossible), BYEBytes(packet'.bye[1]))
  /\ UNCHANGED <<init, maxpacketsize, firstpacket, flags, interval, sourcevars,
                 inits, leftover, waiting, sentitems>>

-----------------------------------------------------------------------------
(* The other operations *)

\* Clears the flags of the sources, but not those of the items.
InitBuilder(size) ==
  /\ ~init /\ inits < MaxInits
  /\ init' = TRUE
  /\ maxpacketsize' = size
  /\ firstpacket' = TRUE
  /\ processingsdes' = FALSE
  /\ sdesbuildcount' = 0
  /\ interval' = [item \in ItemSet |-> -1]
  /\ processed' = {}
  /\ waiting' = [s \in Reporters |-> 0]
  /\ sentitems' = [item \in ItemSet |-> 0]
  /\ packet' = EmptyPack(size)
  /\ inits' = inits + 1
  /\ leftover' = processeditem
  /\ UNCHANGED <<doitem, processeditem, sourcevars>>

Destroy ==
  /\ init
  /\ init' = FALSE
  /\ UNCHANGED <<maxpacketsize, firstpacket, flags, interval, sourcevars, packet,
                 inits, leftover, waiting, sentitems>>

SetMaximumPacketSize(size) ==
  /\ init
  /\ maxpacketsize' = size
  /\ UNCHANGED <<init, firstpacket, flags, interval, sourcevars, packet, inits, leftover,
                 waiting, sentitems>>

\* SetNameInterval and the like.
SetInterval(item, count) ==
  /\ init
  /\ interval' = [interval EXCEPT ![item] = count]
  /\ UNCHANGED <<init, maxpacketsize, firstpacket, flags, sourcevars, packet, inits, leftover,
                 waiting, sentitems>>

\* An RTP packet of a source, or one of our own, reaches the source table.
ReceiveRTP(s) ==
  /\ IF s = Own THEN sender' = TRUE /\ UNCHANGED <<hassent, heard>>
     ELSE /\ hassent' = hassent \cup {s}
          /\ heard' = heard \cup {s}
          /\ UNCHANGED sender
  /\ UNCHANGED <<init, maxpacketsize, firstpacket, flags, interval, packet, inits, leftover,
                 waiting, sentitems>>

BuilderInit ==
  /\ init = FALSE
  /\ maxpacketsize = 0
  /\ firstpacket = TRUE
  /\ processingsdes = FALSE
  /\ sdesbuildcount = 0
  /\ interval = [item \in ItemSet |-> -1]
  /\ doitem = {}
  /\ processeditem = {}
  /\ processed = {}
  /\ hassent = {}
  /\ heard = {}
  /\ sender = FALSE
  /\ packet = EmptyPack(0)
  /\ inits = 0
  /\ leftover = {}
  /\ waiting = [s \in Reporters |-> 0]
  /\ sentitems = [item \in ItemSet |-> 0]

BuilderNext ==
  \/ \E size \in Sizes : InitBuilder(size) \/ SetMaximumPacketSize(size)
  \/ Destroy
  \/ \E item \in ItemSet, count \in Intervals : SetInterval(item, count)
  \/ \E s \in Range(Table) : ReceiveRTP(s)
  \/ BuildNextPacket
  \/ \E usesr \in BOOLEAN : BuildBYEPacket(CNAMELength, usesr)

BuilderSpec == BuilderInit /\ [][BuilderNext]_buildervars

-----------------------------------------------------------------------------
(* Properties *)

\* BuildNextPacket never gives up for want of space, whatever the maximum size
\* was changed to half way through the SDES items: at least one block or item
\* of what is to be sent fits.  (ERR_RTP_RTCPPACKETBUILDER_PACKETFILLEDTOOSOON.)
BuildSucceeds ==
  init =>
    IF processingsdes
    THEN FillInSDES(StartPacket(sender), doitem, processeditem).processed
           # processeditem
    ELSE LET fill == FillInReportBlocks(StartPacket(sender), processed, Len(Table))
         IN  fill.full => fill.added > 0

\* Every SDES item that is due in a round is sent exactly once in it, over
\* however many packets the round is spread, and no other is; except that the
\* items which had been sent in a round that Destroy cut short are not sent in
\* the first round after Init, which leaves their flags.
ItemsOnce ==
  init /\ sdesbuildcount > 0 =>
    \A item \in ItemSet :
      sentitems[item] =
        IF /\ item \in (IF processingsdes THEN processeditem ELSE doitem)
           /\ ~(sdesbuildcount = 1 /\ item \in leftover)
        THEN 1 ELSE 0

\* A source that is heard before every packet is reported in the end: it is left
\* out of fewer packets than there are items and twice the sources.  (First the
\* others of its round of reports go out, then the items, then those before it in
\* the next round; and each packet has one of these at least.)
NobodyStarves ==
  \A s \in Reporters :
    waiting[s] < 2 * Cardinality(Reporters) + Cardinality(ItemSet)

=============================================================================
