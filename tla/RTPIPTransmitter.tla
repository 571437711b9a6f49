-------------------------- MODULE RTPIPTransmitter --------------------------
(***************************************************************************)
(* What the transmitters that know IP addresses (UDP over IPv4 and IPv6,   *)
(* and the fake one) have in common: the list of destinations, the lists of *)
(* addresses to accept or to ignore, and the addresses of the machine.      *)
(*                                                                          *)
(* The entry of acceptignoreinfo for a host that has none is the empty one, *)
(* which every handler treats alike.                                        *)
(***************************************************************************)
EXTENDS RTPTransmitter

CONSTANTS
  Hosts,           \* IP addresses
  OurHosts,        \* those of this machine, Loopback among them
  Loopback,
  Ports,           \* port numbers
  Destinations     \* destinations, as [host, rtp, rtcp] with their two ports

ASSUME IPAssumption ==
  /\ OurHosts \subseteq Hosts /\ Loopback \in OurHosts
  /\ Ports \subseteq Nat \ {0}

VARIABLES
  receivemode,
  acceptignoreinfo,
  selected,        \* history: the addresses that were added to the list
  destinations,
  localIPs

ipvars == <<receivemode, acceptignoreinfo, selected, destinations, localIPs>>
filtervars == <<receivemode, acceptignoreinfo, selected>>

AllPorts == 0     \* the port number that stands for all of them

PortInfo == [all : BOOLEAN, portlist : SUBSET Ports]
NoPorts == [all |-> FALSE, portlist |-> {}]

-----------------------------------------------------------------------------
(* The list to accept or ignore *)

SetPorts(h, info) == acceptignoreinfo' = [acceptignoreinfo EXCEPT ![h] = info]

\* The entry for a host after one port, or all of them, were added.
WithPort(info, port) ==
  IF port = AllPorts THEN [all |-> TRUE, portlist |-> {}]
  ELSE IF info.all THEN info
  ELSE [info EXCEPT !.portlist = @ \cup {port}]

\* When all ports are in the list it holds the exceptions.
WithoutPort(info, port) ==
  IF port = AllPorts THEN NoPorts
  ELSE IF info.all THEN [info EXCEPT !.portlist = @ \cup {port}]
  ELSE [info EXCEPT !.portlist = @ \ {port}]

AddEntry(h, port) ==
  /\ SetPorts(h, WithPort(acceptignoreinfo[h], port))
  /\ selected' = selected \cup
                   ({h} \X IF port = AllPorts THEN Ports ELSE {port})

DeleteEntry(h, port) ==
  /\ SetPorts(h, WithoutPort(acceptignoreinfo[h], port))
  /\ selected' = selected \ ({h} \X IF port = AllPorts THEN Ports ELSE {port})

EmptyList ==
  /\ acceptignoreinfo' = [h \in Hosts |-> NoPorts]
  /\ selected' = {}

Listed(h, port) ==
  LET info == acceptignoreinfo[h]
  IN  IF info.all THEN port \notin info.portlist ELSE port \in info.portlist

\* In the two modes with a list.
Accepted(h, port) ==
  IF receivemode = "AcceptSome" THEN Listed(h, port) ELSE ~Listed(h, port)

\* A handler of the list in the mode it belongs to.
InMode(t, mode) == Works(t) /\ receivemode = mode

\* Nothing but the list changes, which is all of an IP transmitter's state
\* that the list's handlers touch.
ListOnly == UNCHANGED <<commonvars, receivemode, destinations, localIPs>>

ChangeMode(t, mode) ==
  /\ Works(t)
  /\ receivemode # mode
  /\ receivemode' = mode
  /\ EmptyList
  /\ UNCHANGED <<commonvars, destinations, localIPs>>

-----------------------------------------------------------------------------
(* Destinations and local addresses *)

ChangeDestinations(t, new) ==
  /\ Works(t)
  /\ destinations' = new
  /\ UNCHANGED <<commonvars, filtervars, localIPs>>

\* With their loopback address the lists CreateLocalIPList may make: what the
\* interfaces are, or what the name service knows if they cannot be read.
LocalIPLists(interfaces, dns) ==
  {ips \cup {Loopback} : ips \in {interfaces} \cup dns}

\* Create leaves the address lists as Destroy cleared them.
AddressesCreated(ips) ==
  /\ localIPs' = ips
  /\ receivemode' = "AcceptAll"
  /\ UNCHANGED <<acceptignoreinfo, selected, destinations>>

AddressesDestroyed ==
  /\ destinations' = {}
  /\ EmptyList
  /\ localIPs' = {}
  /\ UNCHANGED receivemode

IPInit ==
  /\ TransmitterInit
  /\ receivemode = "AcceptAll"
  /\ acceptignoreinfo = [h \in Hosts |-> NoPorts]
  /\ selected = {}
  /\ destinations = {}
  /\ localIPs = {}

-----------------------------------------------------------------------------
(* Properties *)

\* The list never accepts or ignores an address that was not added since it
\* was last deleted, whatever single ports and whole hosts were added and
\* deleted in between.  (ProcessAddAcceptIgnoreEntry keeps either ports or
\* exceptions, and the meaning of the list flips with the flag.)
ListWithinSelected ==
  \A h \in Hosts, port \in Ports :
    Listed(h, port) => <<h, port>> \in selected

=============================================================================
