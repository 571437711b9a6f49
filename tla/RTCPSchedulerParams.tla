------------------------- MODULE RTCPSchedulerParams -------------------------
(***************************************************************************)
(* The parameters of RTCPScheduler, and the bounds of its model.  A quarter *)
(* of the bandwidth is for the senders.                                     *)
(***************************************************************************)
EXTENDS Naturals

CONSTANTS
  PacketSizes,       \* of compound packets, with the header overhead
  MinInterval,       \* the minimum interval
  Bandwidth,
  UseHalfAtStartup, RequestImmediateBYE,
  ImmediateBYELimit, \* below which a BYE packet is sent at once (50)
  MaxMembers,        \* bound: members of the session
  MaxBYEs,           \* bound: BYE packets while one is scheduled
  MaxPast            \* bound: on the times; longer than any interval

ASSUME SchedulerAssumption ==
  /\ PacketSizes \subseteq Nat \ {0}
  /\ MinInterval \in Nat /\ Bandwidth \in Nat \ {0}
  /\ ImmediateBYELimit \in Nat /\ MaxMembers \in Nat
  /\ MaxBYEs \in Nat /\ MaxPast \in Nat

=============================================================================
