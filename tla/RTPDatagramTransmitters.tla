----------------------- MODULE RTPDatagramTransmitters -----------------------
(***************************************************************************)
(* The transmitters for datagrams side by side: a session makes the one for *)
(* the protocol it is created with and uses no other (RTPSession::Create);  *)
(* the fake transmitter is one that an application's session may make.  A   *)
(* module that has other transmitters as well gives proto other values.     *)
(***************************************************************************)
EXTENDS RTPUDPSockets

VARIABLES
  proto,                             \* the protocol of the session
  portbase, currentdata, handedout,  \* of RTPFakeTransmitter
  sender, m_abortCount               \* of RTPExternalTransmitter

V4 == INSTANCE RTPUDPv4Transmitter
V6 == INSTANCE RTPUDPv6Transmitter
Fake == INSTANCE RTPFakeTransmitter
Ext == INSTANCE RTPExternalTransmitter

UDPProtocols == {"IPv4UDPProto", "IPv6UDPProto"}

\* The transmitter of a session with one of these protocols.
DatagramSpec ==
  /\ proto \in UDPProtocols \cup {"UserDefinedProto", "ExternalProto"}
  /\ [][UNCHANGED proto]_proto
  /\ proto = "IPv4UDPProto" => V4!Spec
  /\ proto = "IPv6UDPProto" => V6!Spec
  /\ proto = "UserDefinedProto" => Fake!Spec
  /\ proto = "ExternalProto" => Ext!Spec

-----------------------------------------------------------------------------
(* Properties *)

\* A received packet is recognised as our own exactly when a socket in use has
\* sent it, if all the addresses of this machine were found, however the ports
\* came to be.  (ComesFromThisTransmitter goes by the addresses and, over IPv4,
\* two ports, over IPv6 one port and the next.)
OwnRecognised ==
  /\ proto = "IPv4UDPProto" => V4!OwnRecognised
  /\ proto = "IPv6UDPProto" => V6!OwnRecognised

\* No socket is leaked, whichever step of Create fails, and none of the
\* application's is closed.
NoSocketLeaked == proto \in UDPProtocols => SocketsReleased

\* Nobody sleeps over packets injected into the external transmitter, although
\* a signal is sent only when none is counted as pending.
NoLostWakeup == proto = "ExternalProto" => Ext!NoLostWakeup

=============================================================================
