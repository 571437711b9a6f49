---------------------------- MODULE RTCPCompound ----------------------------
(***************************************************************************)
(* Compound RTCP packets: how many bytes a packet under construction needs, *)
(* what is put into the buffer in the end, and what the parser makes of it. *)
(*                                                                          *)
(* A pack is what RTCPCompoundPacketBuilder has collected: report blocks by *)
(* their SSRC, SDES sources with their items as [id, len], and the lengths  *)
(* of the data of the other packets.  All lengths are in bytes.             *)
(***************************************************************************)
EXTENDS Integers, SequencesExt

CONSTANTS
  MaxPerPacket,       \* 31: report blocks or SDES chunks in a packet
  RTP_MINPACKETSIZE   \* 600

ASSUME CompoundAssumption == MaxPerPacket \in Nat \ {0}

CommonHeader == 4
Word == 4
SenderReport == 20
ReportBlock == 24
SDESHeader == 2

SumOf(s) == FoldLeft(LAMBDA x, y : x + y, 0, s)
Map(f(_), s) == [i \in DOMAIN s |-> f(s[i])]

\* Rounded up to a multiple of four bytes.
Aligned(n) == ((n + 3) \div 4) * 4

\* The packets it takes for n blocks or chunks.
PacketsFor(n) == (n + MaxPerPacket - 1) \div MaxPerPacket

EmptyPack(max) ==
  [max |-> max, report |-> "none", blocks |-> <<>>, sdes |-> <<>>,
   app |-> <<>>, unknown |-> <<>>, bye |-> <<>>]

-----------------------------------------------------------------------------
(* The bytes a pack needs *)

ReportHeader(kind) ==
  CommonHeader + Word + (IF kind = "SR" THEN SenderReport ELSE 0)

\* Mutant: the header of a further packet is not counted.
ReportNeedsOneHeader(kind, n) ==
  IF kind = "none" THEN 0 ELSE n * ReportBlock + ReportHeader(kind)

\* Report::NeededBytes for n blocks.
ReportNeeds(kind, n) ==
  IF n = 0 THEN IF kind = "none" THEN 0 ELSE ReportHeader(kind)
  ELSE n * ReportBlock + PacketsFor(n) * ReportHeader("RR")
         + (IF kind = "SR" THEN SenderReport ELSE 0)

Report_NeededBytes(pack) == ReportNeeds(pack.report, Len(pack.blocks))

Report_NeededBytesWithExtraReportBlock(pack) ==
  ReportNeeds(pack.report, Len(pack.blocks) + 1)

ItemBytes(item) == SDESHeader + item.len

\* SDESSource::NeededBytes: a zero byte ends the list of items.
SDESSource_NeededBytes(source) ==
  Aligned(SumOf(Map(ItemBytes, source.items)) + 1) + Word

\* Mutant: the zero byte is forgotten.
SDESSource_NeededBytesUnended(source, len) ==
  Aligned(SumOf(Map(ItemBytes, source.items)) + SDESHeader + len) + Word

SDESSource_NeededBytesWithExtraItem(source, len) ==
  Aligned(SumOf(Map(ItemBytes, source.items)) + SDESHeader + len + 1) + Word

SDES_NeededBytes(pack) ==
  SumOf(Map(SDESSource_NeededBytes, pack.sdes))
    + PacketsFor(Len(pack.sdes)) * CommonHeader

SDES_NeededBytesWithExtraItem(pack, len) ==
  SumOf(Map(SDESSource_NeededBytes, Front(pack.sdes)))
    + SDESSource_NeededBytesWithExtraItem(Last(pack.sdes), len)
    + PacketsFor(Len(pack.sdes)) * CommonHeader

\* Nothing is asked for when it is the first source.
SDES_NeededBytesWithExtraSource(pack) ==
  IF pack.sdes = <<>> THEN 0
  ELSE SumOf(Map(SDESSource_NeededBytes, pack.sdes)) + 2 * Word
         + PacketsFor(Len(pack.sdes) + 1) * CommonHeader

\* A reason has a byte for its length, and the packet is padded after it.
BYEBytes(bye) ==
  IF bye.reason = 0 THEN CommonHeader + Word * bye.count
  ELSE Aligned(CommonHeader + Word * bye.count + 1 + bye.reason)

APPBytes(len) == CommonHeader + 2 * Word + len

UnknownBytes(len) == CommonHeader + Word + len

\* byesize, appsize and unknownsize.
OtherBytes(pack) ==
  SumOf(Map(BYEBytes, pack.bye)) + SumOf(Map(APPBytes, pack.app))
    + SumOf(Map(UnknownBytes, pack.unknown))

TotalBytes(pack) ==
  OtherBytes(pack) + Report_NeededBytes(pack) + SDES_NeededBytes(pack)

-----------------------------------------------------------------------------
(* What still fits *)

\* The bytes left are an unsigned difference: when more than the maximum is in
\* use already, anything fits.
ReportFits(pack, kind) ==
  LET used == OtherBytes(pack) + SDES_NeededBytes(pack)
  IN  used > pack.max \/ ReportHeader(kind) <= pack.max - used

BlockFits(pack) ==
  OtherBytes(pack) + SDES_NeededBytes(pack)
    + Report_NeededBytesWithExtraReportBlock(pack) <= pack.max

SourceFits(pack) ==
  OtherBytes(pack) + Report_NeededBytes(pack)
    + SDES_NeededBytesWithExtraSource(pack) <= pack.max

ItemFits(pack, len) ==
  OtherBytes(pack) + Report_NeededBytes(pack)
    + SDES_NeededBytesWithExtraItem(pack, len) <= pack.max

OtherFits(pack, bytes) == TotalBytes(pack) + bytes <= pack.max

WithReport(pack, kind) == [pack EXCEPT !.report = kind]

WithBlock(pack, ssrc) == [pack EXCEPT !.blocks = Append(@, ssrc)]

WithSource(pack, ssrc) ==
  [pack EXCEPT !.sdes = Append(@, [ssrc |-> ssrc, items |-> <<>>])]

WithItem(pack, item) ==
  [pack EXCEPT !.sdes[Len(pack.sdes)].items = Append(@, item)]

-----------------------------------------------------------------------------
(* EndBuild: the packets in the buffer.  Each has the bytes it occupies and *)
(* the length its header declares.                                          *)

\* The part of a sequence that goes into the i-th packet.
Portion(s, i) ==
  SubSeq(s, (i - 1) * MaxPerPacket + 1,
         IF i * MaxPerPacket < Len(s) THEN i * MaxPerPacket ELSE Len(s))

ReportPacket(kind, blocks) ==
  LET size == ReportHeader(kind) + ReportBlock * Len(blocks)
  IN  [type |-> kind, content |-> blocks, count |-> Len(blocks),
       size |-> size, declared |-> size]

\* The first report packet is there even without blocks.
EmitReports(pack) ==
  [i \in 1..(IF pack.blocks = <<>> THEN 1 ELSE PacketsFor(Len(pack.blocks))) |->
     ReportPacket(IF i = 1 THEN pack.report ELSE "RR", Portion(pack.blocks, i))]

\* Mutant: no zero byte is written when the items are aligned by themselves.
SDESPacketUnended(sources) ==
  LET write(offset, source) ==
        Aligned(offset + Word + SumOf(Map(ItemBytes, source.items)))
      size == FoldLeft(write, CommonHeader, sources)
  IN  [type |-> "SDES", content |-> sources, count |-> Len(sources),
       size |-> size, declared |-> size]

\* Writes the chunks one after the other and aligns the end of each.
SDESPacket(sources) ==
  LET write(offset, source) ==
        Aligned(offset + Word + SumOf(Map(ItemBytes, source.items)) + 1)
      size == FoldLeft(write, CommonHeader, sources)
  IN  [type |-> "SDES", content |-> sources, count |-> Len(sources),
       size |-> size, declared |-> size]

EmitSDES(pack) ==
  [i \in 1..PacketsFor(Len(pack.sdes)) |-> SDESPacket(Portion(pack.sdes, i))]

EmitAPP(len) ==
  [type |-> "APP", content |-> len, count |-> 0,
   size |-> APPBytes(len), declared |-> (len \div 4 + 3) * Word]

EmitUnknown(len) ==
  [type |-> "unknown", content |-> len, count |-> 0,
   size |-> UnknownBytes(len), declared |-> (len \div 4 + 2) * Word]

EmitBYE(bye) ==
  [type |-> "BYE", content |-> bye.reason, count |-> bye.count,
   size |-> BYEBytes(bye), declared |-> (BYEBytes(bye) \div Word) * Word]

EndBuild(pack) ==
  EmitReports(pack) \o EmitSDES(pack) \o Map(EmitAPP, pack.app)
    \o Map(EmitUnknown, pack.unknown) \o Map(EmitBYE, pack.bye)

-----------------------------------------------------------------------------
(* The parser.  Packets of another sender may have padding; those that are  *)
(* built here have none.                                                    *)

\* ParseData finds these packets again: it goes from header to header by the
\* declared lengths, and would go astray if one were wrong.
ParseData(packets) ==
  /\ packets # <<>>
  /\ packets[1].type \in {"SR", "RR"}
  /\ \A i \in DOMAIN packets : packets[i].declared = packets[i].size

KnownReport(packet) ==
  packet.declared = ReportHeader(packet.type) + ReportBlock * packet.count

\* Goes through the items of each chunk, which must be all there is.
KnownSDES(packet) ==
  LET read(left, source) ==
        left - Word - Aligned(SumOf(Map(ItemBytes, source.items)) + 1)
  IN  IF packet.count = 0 THEN packet.declared = CommonHeader
      ELSE FoldLeft(read, packet.declared - CommonHeader,
                    SubSeq(packet.content, 1, packet.count)) = 0

\* What follows the identifiers is a reason, with the byte of its length.
KnownBYE(packet) ==
  LET left == packet.declared - CommonHeader - Word * packet.count
  IN  left >= 0 /\ (left > 0 => packet.content <= left - 1)

KnownAPP(packet) == packet.declared >= CommonHeader + 2 * Word

IsKnownFormat(packet) ==
  CASE packet.type \in {"SR", "RR"} -> KnownReport(packet)
    [] packet.type = "SDES"         -> KnownSDES(packet)
    [] packet.type = "BYE"          -> KnownBYE(packet)
    [] packet.type = "APP"          -> KnownAPP(packet)
    [] OTHER                        -> TRUE

\* The contents of the packets of one kind, one after the other.
Contents(packets, types) ==
  FoldLeft(LAMBDA sofar, p : IF p.type \in types THEN sofar \o p.content ELSE sofar,
           <<>>, packets)

=============================================================================
