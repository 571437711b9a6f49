---------------------------- MODULE MCRTPSources ----------------------------
(***************************************************************************)
(* Small instances of RTPSources for TLC: two hosts, the first with two     *)
(* ports, and the two symmetric SSRC identifiers a run leaves free.         *)
(***************************************************************************)
EXTENDS RTPSources, TLC

CONSTANTS a1, a2, b1

\* a1 and a2 are two ports of one host, b1 is on another.
MCHostOf == [a \in Addr |-> IF a = b1 THEN "B" ELSE "A"]

\* The identifiers are interchangeable: no property names one.
SSRCSymmetry == Permutations(SSRC)

=============================================================================
