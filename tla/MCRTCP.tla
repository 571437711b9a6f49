------------------------------- MODULE MCRTCP -------------------------------
(***************************************************************************)
(* What makes RTCP packets, for TLC.  A behaviour is that of an application *)
(* that uses the compound packet builder by itself, that of the packet      *)
(* builder of a session, or that of its scheduler.                          *)
(***************************************************************************)
EXTENDS RTCPScheduler, RTCPCompoundPacketBuilder, RTCPPacketBuilder

CONSTANTS own, a, b                    \* sources in the order of the table

VARIABLES use

mcvars == <<use, schedvars, compoundvars, buildervars>>

MCInit ==
  /\ use \in {"compound", "session", "scheduler"}
  /\ SchedInit /\ CompoundInit /\ BuilderInit
  /\ use # "scheduler" => avgrtcppacksize = 1

MCNext ==
  /\ \/ use = "session" /\ BuilderNext /\ UNCHANGED <<compoundvars, schedvars>>
     \/ use = "compound" /\ CompoundNext /\ UNCHANGED <<buildervars, schedvars>>
     \/ use = "scheduler" /\ SchedNext /\ UNCHANGED <<buildervars, compoundvars>>
  /\ UNCHANGED use

MCSpec == MCInit /\ [][MCNext]_mcvars

-----------------------------------------------------------------------------
(* Values of the constants *)

MCTable == <<a, own, b>>

\* Their packets have space for one item, but not for both.
MCItems == <<"name", "note">>
MCItemLength == [item \in Range(MCItems) |-> IF item = "name" THEN 30 ELSE 22]

=============================================================================
