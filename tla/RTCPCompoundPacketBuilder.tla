--------------------- MODULE RTCPCompoundPacketBuilder ---------------------
(***************************************************************************)
(* The builder of one compound RTCP packet, as an application may use it:   *)
(* it adds reports, SDES information and other packets in any order, and    *)
(* EndBuild makes the packet.  Calls that return an error change nothing    *)
(* and are left out.                                                        *)
(***************************************************************************)
EXTENDS RTCPCompound

CONSTANTS
  Maximums,        \* maximum sizes, or sizes of external buffers
  Sources,         \* identifiers for report blocks and SDES chunks
  ItemLengths,
  APPLengths,
  UnknownLengths,
  Reasons,         \* lengths of the reason for leaving
  MaxItems,        \* bound: SDES sources and items in all
  MaxOthers        \* bound: APP, unknown and BYE packets in all

ASSUME LengthAssumption ==
  /\ Maximums \subseteq Nat
  /\ ItemLengths \subseteq Nat
  /\ APPLengths \subseteq Nat
  /\ UnknownLengths \subseteq Nat
  /\ Reasons \subseteq Nat

VARIABLES
  arebuilding,
  external,        \* the buffer is the application's
  pack,
  compound,        \* the packets that were built, <<>> before
  built,           \* history: the pack they were built from
  overdrawn        \* history: a first SDES source had not enough space

compoundvars == <<arebuilding, external, pack, compound, built, overdrawn>>

\* What a call that adds something does to the rest.
Adds(new) ==
  /\ arebuilding
  /\ pack' = new
  /\ UNCHANGED <<arebuilding, external, compound, built>>

ItemsLeft ==
  SumOf(Map(LAMBDA source : 1 + Len(source.items), pack.sdes)) < MaxItems

OthersLeft == Len(pack.app) + Len(pack.unknown) + Len(pack.bye) < MaxOthers

InitBuildWith(max, isexternal) ==
  /\ ~arebuilding /\ compound = <<>>
  /\ max >= RTP_MINPACKETSIZE
  /\ arebuilding' = TRUE
  /\ external' = isexternal
  /\ pack' = EmptyPack(max)
  /\ UNCHANGED <<compound, built, overdrawn>>

InitBuild(max) == InitBuildWith(max, FALSE)

InitBuildExternal(buffersize) == InitBuildWith(buffersize, TRUE)

StartSenderReport ==
  /\ pack.report = "none" /\ ReportFits(pack, "SR")
  /\ Adds(WithReport(pack, "SR"))
  /\ UNCHANGED overdrawn

StartReceiverReport ==
  /\ pack.report = "none" /\ ReportFits(pack, "RR")
  /\ Adds(WithReport(pack, "RR"))
  /\ UNCHANGED overdrawn

AddReportBlock(ssrc) ==
  /\ pack.report # "none" /\ BlockFits(pack)
  /\ Adds(WithBlock(pack, ssrc))
  /\ UNCHANGED overdrawn

AddSDESSource(ssrc) ==
  /\ SourceFits(pack)
  /\ Adds(WithSource(pack, ssrc))
  /\ LET first == pack.sdes = <<>>
         toomuch == TotalBytes(WithSource(pack, ssrc)) > pack.max
     IN  overdrawn' = (overdrawn \/ (first /\ toomuch))

AddSDESNormalItem(len) ==
  /\ pack.sdes # <<>> /\ ItemFits(pack, len)
  /\ Adds(WithItem(pack, [id |-> "normal", len |-> len]))
  /\ UNCHANGED overdrawn

\* The prefix and a byte for its length come before the value.
AddSDESPrivateItem(prefixlen, valuelen) ==
  LET len == prefixlen + 1 + valuelen
  IN  /\ pack.sdes # <<>> /\ len <= 255 /\ ItemFits(pack, len)
      /\ Adds(WithItem(pack, [id |-> "private", len |-> len]))
      /\ UNCHANGED overdrawn

AddBYEPacket(numssrcs, reasonlength) ==
  LET bye == [count |-> numssrcs, reason |-> reasonlength]
  IN  /\ numssrcs <= MaxPerPacket /\ OtherFits(pack, BYEBytes(bye))
      /\ Adds([pack EXCEPT !.bye = Append(@, bye)])
      /\ UNCHANGED overdrawn

AddAPPPacket(len) ==
  /\ len % 4 = 0 /\ OtherFits(pack, APPBytes(len))
  /\ Adds([pack EXCEPT !.app = Append(@, len)])
  /\ UNCHANGED overdrawn

\* Any length will do.
AddUnknownPacket(len) ==
  /\ OtherFits(pack, UnknownBytes(len))
  /\ Adds([pack EXCEPT !.unknown = Append(@, len)])
  /\ UNCHANGED overdrawn

EndBuildPacket ==
  /\ arebuilding
  /\ pack.report # "none"
  /\ arebuilding' = FALSE
  /\ compound' = EndBuild(pack)
  /\ built' = pack
  /\ pack' = EmptyPack(pack.max)
  /\ UNCHANGED <<external, overdrawn>>

CompoundInit ==
  /\ arebuilding = FALSE
  /\ external = FALSE
  /\ pack = EmptyPack(0)
  /\ compound = <<>>
  /\ built = pack
  /\ overdrawn = FALSE

CompoundNext ==
  \/ \E max \in Maximums : InitBuild(max) \/ InitBuildExternal(max)
  \/ StartSenderReport
  \/ StartReceiverReport
  \/ \E ssrc \in Sources : AddReportBlock(ssrc)
  \/ ItemsLeft /\ \E ssrc \in Sources : AddSDESSource(ssrc)
  \/ ItemsLeft /\ \E len \in ItemLengths :
       AddSDESNormalItem(len) \/ AddSDESPrivateItem(len, len)
  \/ OthersLeft /\ \E n \in 1..2, len \in Reasons : AddBYEPacket(n, len)
  \/ OthersLeft /\ \E len \in APPLengths : AddAPPPacket(len)
  \/ OthersLeft /\ \E len \in UnknownLengths : AddUnknownPacket(len)
  \/ EndBuildPacket

CompoundSpec == CompoundInit /\ [][CompoundNext]_compoundvars

-----------------------------------------------------------------------------
(* Properties *)

\* EndBuild fills the buffer it allocates exactly: the sizes that were added
\* up while building are those it writes, across packets that are full.
\* (NeededBytes and EndBuild count headers and alignment each by themselves.)
BufferFilled ==
  compound # <<>> =>
    SumOf(Map(LAMBDA p : p.size, compound)) = TotalBytes(built)

\* The maximum size is kept, unless the first SDES source was added when there
\* was no space for it: AddSDESSource does not see that.
MaximumKept ==
  ~overdrawn => TotalBytes(IF compound = <<>> THEN pack ELSE built) <= pack.max

\* What is built can be parsed again, to known formats and with the report
\* blocks and SDES chunks in the order in which they were added, if the data of
\* the unknown packets is a multiple of four bytes.
ParsesBack ==
  compound # <<>> /\ (\A i \in DOMAIN built.unknown : built.unknown[i] % 4 = 0) =>
    /\ ParseData(compound)
    /\ \A i \in DOMAIN compound : IsKnownFormat(compound[i])
    /\ Contents(compound, {"SR", "RR"}) = built.blocks
    /\ Contents(compound, {"SDES"}) = built.sdes

=============================================================================
