------------------------- MODULE RTPFakeTransmitter -------------------------
(***************************************************************************)
(* The transmitter without a network: the application puts one packet at a  *)
(* time into the parameters, from where Poll takes it, and is called back   *)
(* with what is to be sent.  It cannot be made thread safe and has no wait. *)
(***************************************************************************)
EXTENDS RTPIPTransmitter

VARIABLES
  portbase,
  currentdata,    \* <<>>, or the packet in the parameters
  handedout       \* history: what the callback was given last

fakevars == <<portbase, currentdata, handedout>>
vars == <<commonvars, ipvars, fakevars>>

-----------------------------------------------------------------------------
GetLocalIPList_Interfaces == OurHosts

GetLocalIPList_DNS == {{}, OurHosts \ {Loopback}}

CreateLocalIPList == LocalIPLists(GetLocalIPList_Interfaces, GetLocalIPList_DNS)

\* A size that is too big fails after the addresses were found.
Create(t) ==
  /\ MayCreate(t)
  /\ \E ips \in CreateLocalIPList :
       \/ Created(TRUE) /\ ForgetHostName /\ AddressesCreated(ips)
       \/ CreateFailed /\ localIPs' = ips
          /\ UNCHANGED <<filtervars, destinations>>
  /\ portbase' \in Ports
  /\ currentdata' = <<>>
  /\ UNCHANGED handedout

\* Deletes the parameters, with the packet in them.
Destroy(t) ==
  /\ Destroyed(t)
  /\ ForgetHostName
  /\ AddressesDestroyed
  /\ currentdata' = <<>>
  /\ UNCHANGED <<portbase, handedout>>

GetLocalHostName(t) ==
  /\ NameHost(t, {"name", "address"})
  /\ UNCHANGED <<ipvars, fakevars>>

ComesFromThisTransmitter(host, port) ==
  created /\ host \in localIPs /\ port \in {portbase, portbase + 1}

\* The application offers a packet, in place of one that was not polled yet.
SetCurrentData(h, port, rtp) ==
  /\ created
  /\ currentdata' = <<[host |-> h, port |-> port, isrtp |-> rtp]>>
  /\ UNCHANGED <<commonvars, ipvars, portbase, handedout>>

ShouldAcceptData(h, port) == Accepted(h, port)

\* Takes the packet, if there is one that passes the filter.
FakePoll ==
  LET kept == SelectSeq(currentdata, LAMBDA d :
                receivemode = "AcceptAll" \/ ShouldAcceptData(d.host, d.port))
  IN  /\ Len(rawpacketlist) < MaxPackets
      /\ rawpacketlist' = rawpacketlist \o kept

Poll(t) ==
  /\ Works(t)
  /\ FakePoll
  /\ currentdata' = <<>>
  /\ UNCHANGED <<lifevars, mutexvars, waitvars, at, localhostname, ipvars,
                 portbase, handedout>>

GetNextPacket(t) == TakePacket(t) /\ UNCHANGED <<ipvars, fakevars>>

\* The callback gets a packet for each destination.
SendRTPData(t) ==
  /\ Works(t)
  /\ handedout' = {[host |-> d.host, port |-> d.rtp, isrtp |-> TRUE] :
                     d \in destinations}
  /\ UNCHANGED <<commonvars, ipvars, portbase, currentdata>>

SendRTCPData(t) ==
  /\ Works(t)
  /\ handedout' = {[host |-> d.host, port |-> d.rtcp, isrtp |-> FALSE] :
                     d \in destinations}
  /\ UNCHANGED <<commonvars, ipvars, portbase, currentdata>>

AddDestination(t, d) ==
  /\ d \notin destinations
  /\ ChangeDestinations(t, destinations \cup {d})
  /\ UNCHANGED fakevars

DeleteDestination(t, d) ==
  /\ d \in destinations
  /\ ChangeDestinations(t, destinations \ {d})
  /\ UNCHANGED fakevars

ClearDestinations(t) == ChangeDestinations(t, {}) /\ UNCHANGED fakevars

-----------------------------------------------------------------------------
(* The lists to accept and to ignore *)

SetReceiveMode(t, mode) == ChangeMode(t, mode) /\ UNCHANGED fakevars

ProcessAddAcceptIgnoreEntry(h, port) == AddEntry(h, port)

ProcessDeleteAcceptIgnoreEntry(h, port) == DeleteEntry(h, port)

ClearAcceptIgnoreInfo == EmptyList

AddToIgnoreList(t, h, port) ==
  /\ InMode(t, "IgnoreSome")
  /\ ProcessAddAcceptIgnoreEntry(h, port)
  /\ ListOnly /\ UNCHANGED fakevars

DeleteFromIgnoreList(t, h, port) ==
  /\ InMode(t, "IgnoreSome")
  /\ ProcessDeleteAcceptIgnoreEntry(h, port)
  /\ ListOnly /\ UNCHANGED fakevars

ClearIgnoreList(t) ==
  /\ InMode(t, "IgnoreSome")
  /\ ClearAcceptIgnoreInfo
  /\ ListOnly /\ UNCHANGED fakevars

AddToAcceptList(t, h, port) ==
  /\ InMode(t, "AcceptSome")
  /\ ProcessAddAcceptIgnoreEntry(h, port)
  /\ ListOnly /\ UNCHANGED fakevars

DeleteFromAcceptList(t, h, port) ==
  /\ InMode(t, "AcceptSome")
  /\ ProcessDeleteAcceptIgnoreEntry(h, port)
  /\ ListOnly /\ UNCHANGED fakevars

ClearAcceptList(t) ==
  /\ InMode(t, "AcceptSome")
  /\ ClearAcceptIgnoreInfo
  /\ ListOnly /\ UNCHANGED fakevars

-----------------------------------------------------------------------------
Init ==
  /\ IPInit
  /\ portbase = 0
  /\ currentdata = <<>>
  /\ handedout = {}

LifeCycle(t) == Create(t) \/ Destroy(t) \/ GetLocalHostName(t)

Receiving(t) == Poll(t) \/ GetNextPacket(t)

Arriving ==
  \E h \in Hosts, port \in Ports, rtp \in BOOLEAN : SetCurrentData(h, port, rtp)

Sending(t) ==
  \/ SendRTPData(t) \/ SendRTCPData(t)
  \/ \E d \in Destinations : AddDestination(t, d) \/ DeleteDestination(t, d)
  \/ ClearDestinations(t)

Filtering(t) ==
  \/ \E mode \in {"AcceptAll", "AcceptSome", "IgnoreSome"} :
       SetReceiveMode(t, mode)
  \/ \E h \in Hosts, port \in Ports \cup {AllPorts} :
       \/ AddToIgnoreList(t, h, port) \/ DeleteFromIgnoreList(t, h, port)
       \/ AddToAcceptList(t, h, port) \/ DeleteFromAcceptList(t, h, port)
  \/ ClearIgnoreList(t) \/ ClearAcceptList(t)

Next ==
  \/ Arriving
  \/ \E t \in Threads :
       LifeCycle(t) \/ Receiving(t) \/ Sending(t) \/ Filtering(t)

Spec == Init /\ [][Next]_vars

=============================================================================
