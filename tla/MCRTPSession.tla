---------------------------- MODULE MCRTPSession ----------------------------
(***************************************************************************)
(* RTPSession for TLC: one or two participants that take our SSRC, and      *)
(* identifiers for two collisions.                                          *)
(***************************************************************************)
EXTENDS RTPSession

=============================================================================
