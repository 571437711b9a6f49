-------------------------- MODULE RTCPBuilderParams --------------------------
(***************************************************************************)
(* What RTCPPacketBuilder is given: the source table, our SDES items and    *)
(* the sizes of packets; and the bounds of its model.                       *)
(***************************************************************************)
EXTENDS RTCPCompound, FiniteSets

CONSTANTS
  Table,             \* the sources in the order of the source table
  Own,
  CSRCs,             \* those that are contributing sources
  Items,             \* the SDES items other than the CNAME, in their order
  ItemLength,
  CNAMELength,
  Sizes,             \* maximum packet sizes
  Intervals,         \* of the SDES items; at most 0 for never
  MaxInits,          \* bound: calls of Init
  MaxRounds          \* bound: on sdesbuildcount

ASSUME BuilderAssumption ==
  /\ Table \in Seq(Range(Table)) /\ Own \in Range(Table)
  /\ Items \in Seq(Range(Items)) /\ "cname" \notin Range(Items)
  /\ ItemLength \in [Range(Items) -> Nat] /\ CNAMELength \in Nat
  /\ Intervals \subseteq Int
  /\ RTP_MINPACKETSIZE \in Nat /\ Sizes \subseteq Nat
  /\ \A size \in Sizes : size >= RTP_MINPACKETSIZE

\* A sender report, the CNAME and a block, an item or a BYE packet fit.
ASSUME MinimumAssumption ==
  LET start == ReportHeader("SR") + CommonHeader + Word
      cname == SDESHeader + CNAMELength + 1
  IN  /\ start + Aligned(cname) + ReportHeader("RR") + ReportBlock
           <= RTP_MINPACKETSIZE
      /\ \A item \in Range(Items) :
           start + Aligned(cname + SDESHeader + ItemLength[item])
             <= RTP_MINPACKETSIZE

=============================================================================
