------------------------- MODULE RTPUDPv4Transmitter -------------------------
(***************************************************************************)
(* UDP over IPv4.  The transmitter may borrow the application's sockets,    *)
(* let the system choose its ports, and use one socket for RTP and RTCP.    *)
(***************************************************************************)
EXTENDS RTPUDPSockets

vars == <<commonvars, ipvars, udpvars>>

-----------------------------------------------------------------------------
(* Life cycle *)

\* What a RTPUDPv4TransmissionParams may ask for without a port base.
GetAutoSockets(allowOdd, mux) == OwnPairs(AutoPorts(allowOdd, mux), mux)

\* The sockets Create may come to use.
CreateSockets ==
  UserPairs \cup
  UNION {GetAutoSockets(odd, mux) \cup
         UNION {OwnPairs(BasePorts(base, odd, mux, forced), mux) :
                  base \in Ports, forced \in Ports \cup {0}} :
           odd, mux \in BOOLEAN}

\* The addresses of the interfaces, if they can be read.
GetLocalIPList_Interfaces == OurHosts

\* What the name service knows of them.
GetLocalIPList_DNS == {{}, OurHosts \ {Loopback}}

CreateLocalIPList == LocalIPLists(GetLocalIPList_Interfaces, GetLocalIPList_DNS)

\* Setting the time to live decides what SupportsMulticasting answers.
SetMulticastTTL == supportsmulticasting' \in BOOLEAN

Create(t) ==
  /\ MayCreate(t)
  /\ \E pair \in CreateSockets :
       \/ /\ SocketsGivenUp(pair)
          /\ \/ UNCHANGED <<localIPs, supportsmulticasting>>
             \/ localIPs' \in CreateLocalIPList /\ SetMulticastTTL
       \/ \E own \in BOOLEAN, ips \in CreateLocalIPList :
            SocketsCreated(pair, own, ips) /\ SetMulticastTTL

Destroy(t) == SocketsDestroyed(t)

\* The name with a dot that comes first of those the name service has for our
\* addresses, or the first address.
GetLocalHostName(t) ==
  /\ NameHost(t, {"name", "address"})
  /\ UNCHANGED <<ipvars, udpvars>>

ComesFromThisTransmitter(host, port) ==
  created /\ host \in localIPs /\ port \in {m_rtpPort, m_rtcpPort}

DestroyWaitsForWait(t) == DestroyWaits(t) /\ UNCHANGED <<ipvars, udpvars>>

DestroyEnds(t) == DestroyUnlocks(t) /\ UNCHANGED <<ipvars, udpvars>>

-----------------------------------------------------------------------------
(* Waiting *)

WaitForIncomingData(t) == StartWaiting(t) /\ UNCHANGED <<ipvars, udpvars>>

WaitStep(t) ==
  /\ \/ LockWaitMutex(t)
     \/ AbortReadable /\ RTPSelect(t)
     \/ Woken(t)
     \/ ReadAbort(t, ReadSignallingByte)
     \/ UnlockWaitMutex(t)
  /\ UNCHANGED <<ipvars, udpvars>>

\* Ends the wait for another reason than an abort.
WaitEnds(t) ==
  /\ RTPSelectFails(t)
  /\ UNCHANGED <<ipvars, udpvars>>

AbortWait(t) == SignalWaiter(t) /\ UNCHANGED <<ipvars, udpvars>>

-----------------------------------------------------------------------------
(* Receiving and sending *)

ShouldAcceptData(h, port) == Accepted(h, port)

\* With one socket for both the packet type tells RTCP from RTP.
PollSocket(rtp) ==
  LET sock == IF rtp THEN rtpsock ELSE rtcpsock
      accepted == {d \in Range(inbox[sock]) :
        receivemode = "AcceptAll" \/ ShouldAcceptData(d.host, d.port)}
  IN  Drain(sock, accepted, IF Multiplexing THEN {"RTP"} ELSE IF rtp THEN Types ELSE {})

Poll(t) == PollOnce(t, PollSocket(TRUE))

PollRTCP(t) == PollAgain(t, PollSocket(FALSE))

GetNextPacket(t) == TakePacket(t) /\ UNCHANGED <<ipvars, udpvars>>

SendRTPData(t) == SendFrom(t, rtpsock, "RTP", "rtp")

SendRTCPData(t) == SendFrom(t, rtcpsock, "RTCP", "rtcp")

AddDestination(t, d) ==
  /\ d \notin destinations
  /\ ChangeDestinations(t, destinations \cup {d})
  /\ UNCHANGED udpvars

DeleteDestination(t, d) ==
  /\ d \in destinations
  /\ ChangeDestinations(t, destinations \ {d})
  /\ UNCHANGED udpvars

ClearDestinations(t) == ChangeDestinations(t, {}) /\ UNCHANGED udpvars

-----------------------------------------------------------------------------
(* Multicast groups *)

JoinMulticastGroup(t, g) == Join(t, g)

LeaveMulticastGroup(t, g) == LeaveGroups(t, {g})

LeaveAllMulticastGroups(t) == LeaveGroups(t, multicastgroups)

-----------------------------------------------------------------------------
(* The lists to accept and to ignore *)

SetReceiveMode(t, mode) == ChangeMode(t, mode) /\ UNCHANGED udpvars

ProcessAddAcceptIgnoreEntry(h, port) == AddEntry(h, port)

\* Mutant: deleting all ports leaves the exceptions behind as ports.
ProcessDeleteFlag(h, port) ==
  /\ SetPorts(h, IF port = AllPorts THEN [acceptignoreinfo[h] EXCEPT !.all = FALSE]
                 ELSE WithoutPort(acceptignoreinfo[h], port))
  /\ selected' = selected \ ({h} \X IF port = AllPorts THEN Ports ELSE {port})

ProcessDeleteAcceptIgnoreEntry(h, port) == DeleteEntry(h, port)

ClearAcceptIgnoreInfo == EmptyList

AddToIgnoreList(t, h, port) ==
  /\ InMode(t, "IgnoreSome")
  /\ ProcessAddAcceptIgnoreEntry(h, port)
  /\ ListOnly /\ UNCHANGED udpvars

DeleteFromIgnoreList(t, h, port) ==
  /\ InMode(t, "IgnoreSome")
  /\ ProcessDeleteAcceptIgnoreEntry(h, port)
  /\ ListOnly /\ UNCHANGED udpvars

ClearIgnoreList(t) ==
  /\ InMode(t, "IgnoreSome")
  /\ ClearAcceptIgnoreInfo
  /\ ListOnly /\ UNCHANGED udpvars

AddToAcceptList(t, h, port) ==
  /\ InMode(t, "AcceptSome")
  /\ ProcessAddAcceptIgnoreEntry(h, port)
  /\ ListOnly /\ UNCHANGED udpvars

DeleteFromAcceptList(t, h, port) ==
  /\ InMode(t, "AcceptSome")
  /\ ProcessDeleteAcceptIgnoreEntry(h, port)
  /\ ListOnly /\ UNCHANGED udpvars

ClearAcceptList(t) ==
  /\ InMode(t, "AcceptSome")
  /\ ClearAcceptIgnoreInfo
  /\ ListOnly /\ UNCHANGED udpvars

-----------------------------------------------------------------------------
Init == UDPInit

\* The steps of a call under way, which the thread goes on to make.
Step(t) ==
  \/ WaitStep(t)
  \/ DestroyWaitsForWait(t)
  \/ DestroyEnds(t)
  \/ PollRTCP(t)

LifeCycle(t) == Create(t) \/ Destroy(t) \/ GetLocalHostName(t)

Waiting(t) == WaitForIncomingData(t) \/ WaitEnds(t) \/ AbortWait(t)

Receiving(t) == Poll(t) \/ GetNextPacket(t)

Arriving ==
  \E s \in Sockets, h \in Hosts, port \in Ports,
     type \in Types \cup {"empty"} : Deliver(s, h, port, type)

Sending(t) ==
  \/ SendRTPData(t) \/ SendRTCPData(t)
  \/ \E d \in Destinations : AddDestination(t, d) \/ DeleteDestination(t, d)
  \/ ClearDestinations(t)

Grouping(t) ==
  \/ \E g \in Groups : JoinMulticastGroup(t, g) \/ LeaveMulticastGroup(t, g)
  \/ LeaveAllMulticastGroups(t)

Filtering(t) ==
  \/ \E mode \in {"AcceptAll", "AcceptSome", "IgnoreSome"} :
       SetReceiveMode(t, mode)
  \/ \E h \in Hosts, port \in Ports \cup {AllPorts} :
       \/ AddToIgnoreList(t, h, port) \/ DeleteFromIgnoreList(t, h, port)
       \/ AddToAcceptList(t, h, port) \/ DeleteFromAcceptList(t, h, port)
  \/ ClearIgnoreList(t) \/ ClearAcceptList(t)

Next ==
  \/ Arriving
  \/ \E t \in Threads :
       \/ Step(t) \/ LifeCycle(t) \/ Waiting(t) \/ Receiving(t)
       \/ Sending(t) \/ Grouping(t) \/ Filtering(t)

\* A thread in the middle of a call goes on, and gets the mutex it waits for
\* in the end.  Nothing says that a wait ends by itself.
Spec == Init /\ [][Next]_vars /\ \A t \in Threads : SF_vars(Step(t))

-----------------------------------------------------------------------------
(* Properties *)

\* The mark of a received packet, which says whether a socket in use has sent
\* it, is what ComesFromThisTransmitter answers (see RTPUDPTransmitters).
OwnRecognised ==
  created /\ localIPs = OurHosts =>
    \A i \in DOMAIN rawpacketlist :
      rawpacketlist[i].own <=>
        ComesFromThisTransmitter(rawpacketlist[i].host, rawpacketlist[i].port)

=============================================================================
