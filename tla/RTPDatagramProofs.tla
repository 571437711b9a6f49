-------------------------- MODULE RTPDatagramProofs --------------------------
(***************************************************************************)
(* Of the transmitters that send and receive datagrams: UDP over IPv4 and   *)
(* over IPv6, the fake transmitter and the external one.                    *)
(*                                                                          *)
(* The names of each are prefixed with V4, V6, Fake and Ext.  What they     *)
(* share is proved once, of a relation that says what a step may do to that *)
(* part of the state; then each of their handlers is shown to be such a     *)
(* step.                                                                    *)
(*                                                                          *)
(* The lists of addresses: an address in the list was added and not deleted.*)
(* The sockets: every socket that is open is known to the transmitter, and  *)
(* in the multicast groups the transmitter believes to have joined.         *)
(* The mutexes: as RTPTransmitterProofs has them.                           *)
(* The datagrams: the address of one that is queued tells which of the open *)
(* sockets has sent it, so the transmitter knows its own packets.           *)
(* The signals: whoever waits for the external transmitter finds a signal   *)
(* if a packet was injected in the meantime.                                *)
(***************************************************************************)
EXTENDS RTPDatagramTransmitters, RTPTransmitterProofs, FiniteSetTheorems,
        SequenceTheorems

-----------------------------------------------------------------------------
(* The lists to accept and to ignore *)

\* What a step may do to the list.
ListStep ==
  \/ UNCHANGED <<acceptignoreinfo, selected>>
  \/ EmptyList
  \/ \E h \in Hosts, port \in Ports \cup {AllPorts} :
       AddEntry(h, port) \/ DeleteEntry(h, port)

\* What the list holds it was given, host by host.
ListInv ==
  /\ acceptignoreinfo \in [Hosts -> PortInfo]
  /\ ListWithinSelected

\* The list is empty at first.
LEMMA InitList == IPInit => ListInv
  BY DEF IPInit, ListInv, NoPorts, PortInfo, ListWithinSelected, Listed

\* Adding and deleting a port or a whole host keeps the list within what was
\* selected, whether the entry holds ports or exceptions.
LEMMA KeepsList == ListInv /\ ListStep => ListInv'
<1> SUFFICES ASSUME ListInv, ListStep PROVE ListInv'
  OBVIOUS
<1>1. CASE UNCHANGED <<acceptignoreinfo, selected>>
  BY <1>1 DEF ListInv, ListWithinSelected, Listed
<1>2. CASE EmptyList
  BY <1>2 DEF EmptyList, ListInv, NoPorts, PortInfo, ListWithinSelected, Listed
<1>3. ASSUME NEW h \in Hosts, NEW port \in Ports \cup {AllPorts}, AddEntry(h, port)
      PROVE  ListInv'
  BY <1>3, IPAssumption
     DEF AddEntry, SetPorts, WithPort, ListInv, PortInfo, ListWithinSelected,
         Listed, AllPorts
<1>4. ASSUME NEW h \in Hosts, NEW port \in Ports \cup {AllPorts}, DeleteEntry(h, port)
      PROVE  ListInv'
  BY <1>4, IPAssumption
     DEF DeleteEntry, SetPorts, WithoutPort, NoPorts, ListInv, PortInfo,
         ListWithinSelected, Listed, AllPorts
<1> QED
  BY <1>1, <1>2, <1>3, <1>4 DEF ListStep

\* The handlers of the list in RTPUDPv4Transmitter.
LEMMA V4Filters ==
  ASSUME NEW t \in Threads, V4!Filtering(t)
  PROVE  ListStep
<1>1. CASE \E mode \in {"AcceptAll", "AcceptSome", "IgnoreSome"} :
             V4!SetReceiveMode(t, mode)
  BY <1>1
     DEF V4!SetReceiveMode, V4!ChangeMode, V4!EmptyList, V4!NoPorts, EmptyList,
         NoPorts, ListStep
<1>2. ASSUME NEW h \in Hosts, NEW port \in Ports \cup {AllPorts},
             \/ V4!AddToIgnoreList(t, h, port) \/ V4!AddToAcceptList(t, h, port)
      PROVE  ListStep
  <2>1. AddEntry(h, port)
    BY <1>2
       DEF V4!AddToIgnoreList, V4!AddToAcceptList, V4!ProcessAddAcceptIgnoreEntry,
           V4!AddEntry, V4!SetPorts, V4!WithPort, V4!AllPorts, AddEntry, SetPorts,
           WithPort, AllPorts
  <2> QED
    BY <2>1 DEF ListStep
<1>3. ASSUME NEW h \in Hosts, NEW port \in Ports \cup {AllPorts},
             \/ V4!DeleteFromIgnoreList(t, h, port) \/ V4!DeleteFromAcceptList(t, h, port)
      PROVE  ListStep
  <2>1. DeleteEntry(h, port)
    BY <1>3
       DEF V4!DeleteFromIgnoreList, V4!DeleteFromAcceptList,
           V4!ProcessDeleteAcceptIgnoreEntry, V4!DeleteEntry, V4!SetPorts,
           V4!WithoutPort, V4!NoPorts, V4!AllPorts, DeleteEntry, SetPorts,
           WithoutPort, NoPorts, AllPorts
  <2> QED
    BY <2>1 DEF ListStep
<1>4. CASE V4!ClearIgnoreList(t) \/ V4!ClearAcceptList(t)
  BY <1>4
     DEF V4!ClearIgnoreList, V4!ClearAcceptList, V4!ClearAcceptIgnoreInfo,
         V4!EmptyList, V4!NoPorts, EmptyList, NoPorts, ListStep
<1> QED
  BY <1>1, <1>2, <1>3, <1>4 DEF V4!Filtering, V4!AllPorts, AllPorts

\* Every handler of RTPUDPv4Transmitter: only those of the list, SetReceiveMode
\* and Destroy change it.
LEMMA V4Lists == [V4!Next]_V4!vars => ListStep
<1> SUFFICES ASSUME [V4!Next]_V4!vars PROVE ListStep
  OBVIOUS
<1> USE DEF ListStep, V4!ipvars
<1>1. CASE V4!Arriving
  BY <1>1 DEF V4!Arriving, V4!Deliver
<1>2. ASSUME NEW t \in Threads, V4!Step(t) PROVE ListStep
  BY <1>2
     DEF V4!Step, V4!WaitStep, V4!DestroyWaitsForWait, V4!DestroyEnds,
         V4!PollRTCP, V4!PollAgain
<1>3. ASSUME NEW t \in Threads, V4!LifeCycle(t) PROVE ListStep
  BY <1>3
     DEF V4!LifeCycle, V4!Create, V4!SocketsGivenUp, V4!filtervars, V4!SocketsCreated,
         V4!AddressesCreated, V4!Destroy, V4!SocketsDestroyed,
         V4!AddressesDestroyed, V4!EmptyList, V4!NoPorts, EmptyList, NoPorts,
         V4!GetLocalHostName
<1>4. ASSUME NEW t \in Threads, V4!Waiting(t) PROVE ListStep
  BY <1>4 DEF V4!Waiting, V4!WaitForIncomingData, V4!WaitEnds, V4!AbortWait
<1>5. ASSUME NEW t \in Threads, V4!Receiving(t) PROVE ListStep
  BY <1>5 DEF V4!Receiving, V4!Poll, V4!PollOnce, V4!GetNextPacket
<1>6. ASSUME NEW t \in Threads, V4!Sending(t) PROVE ListStep
  BY <1>6
     DEF V4!Sending, V4!SendRTPData, V4!SendRTCPData, V4!SendFrom,
         V4!AddDestination, V4!DeleteDestination, V4!ClearDestinations,
         V4!ChangeDestinations, V4!filtervars
<1>7. ASSUME NEW t \in Threads, V4!Grouping(t) PROVE ListStep
  BY <1>7
     DEF V4!Grouping, V4!JoinMulticastGroup, V4!LeaveMulticastGroup,
         V4!LeaveAllMulticastGroups, V4!Join, V4!LeaveGroups
<1>8. ASSUME NEW t \in Threads, V4!Filtering(t) PROVE ListStep
  BY <1>8, V4Filters
<1>9. CASE UNCHANGED V4!vars
  BY <1>9 DEF V4!vars
<1> QED
  BY <1>1, <1>2, <1>3, <1>4, <1>5, <1>6, <1>7, <1>8, <1>9 DEF V4!Next

\* So the list is right in RTPUDPv4Transmitter.
LEMMA V4ListInv == V4!Spec => []ListInv
<1>1. V4!Init => ListInv
  BY InitList
     DEF V4!Init, UDPInit, V4!UDPInit, IPInit, V4!IPInit, TransmitterInit,
         V4!TransmitterInit, NoPorts, V4!NoPorts
<1>2. ListInv /\ [V4!Next]_V4!vars => ListInv'
  BY V4Lists, KeepsList
<1> QED
  BY <1>1, <1>2, PTL DEF V4!Spec

\* The handlers of the list in RTPUDPv6Transmitter.
LEMMA V6Filters ==
  ASSUME NEW t \in Threads, V6!Filtering(t)
  PROVE  ListStep
<1>1. CASE \E mode \in {"AcceptAll", "AcceptSome", "IgnoreSome"} :
             V6!SetReceiveMode(t, mode)
  BY <1>1
     DEF V6!SetReceiveMode, V6!ChangeMode, V6!EmptyList, V6!NoPorts, EmptyList,
         NoPorts, ListStep
<1>2. ASSUME NEW h \in Hosts, NEW port \in Ports \cup {AllPorts},
             \/ V6!AddToIgnoreList(t, h, port) \/ V6!AddToAcceptList(t, h, port)
      PROVE  ListStep
  <2>1. AddEntry(h, port)
    BY <1>2
       DEF V6!AddToIgnoreList, V6!AddToAcceptList, V6!ProcessAddAcceptIgnoreEntry,
           V6!AddEntry, V6!SetPorts, V6!WithPort, V6!AllPorts, AddEntry, SetPorts,
           WithPort, AllPorts
  <2> QED
    BY <2>1 DEF ListStep
<1>3. ASSUME NEW h \in Hosts, NEW port \in Ports \cup {AllPorts},
             \/ V6!DeleteFromIgnoreList(t, h, port) \/ V6!DeleteFromAcceptList(t, h, port)
      PROVE  ListStep
  <2>1. DeleteEntry(h, port)
    BY <1>3
       DEF V6!DeleteFromIgnoreList, V6!DeleteFromAcceptList,
           V6!ProcessDeleteAcceptIgnoreEntry, V6!DeleteEntry, V6!SetPorts,
           V6!WithoutPort, V6!NoPorts, V6!AllPorts, DeleteEntry, SetPorts,
           WithoutPort, NoPorts, AllPorts
  <2> QED
    BY <2>1 DEF ListStep
<1>4. CASE V6!ClearIgnoreList(t) \/ V6!ClearAcceptList(t)
  BY <1>4
     DEF V6!ClearIgnoreList, V6!ClearAcceptList, V6!ClearAcceptIgnoreInfo,
         V6!EmptyList, V6!NoPorts, EmptyList, NoPorts, ListStep
<1> QED
  BY <1>1, <1>2, <1>3, <1>4 DEF V6!Filtering, V6!AllPorts, AllPorts

\* Every handler of RTPUDPv6Transmitter: only those of the list, SetReceiveMode
\* and Destroy change it.
LEMMA V6Lists == [V6!Next]_V6!vars => ListStep
<1> SUFFICES ASSUME [V6!Next]_V6!vars PROVE ListStep
  OBVIOUS
<1> USE DEF ListStep, V6!ipvars
<1>1. CASE V6!Arriving
  BY <1>1 DEF V6!Arriving, V6!Deliver
<1>2. ASSUME NEW t \in Threads, V6!Step(t) PROVE ListStep
  BY <1>2
     DEF V6!Step, V6!WaitStep, V6!DestroyWaitsForWait, V6!DestroyEnds,
         V6!PollRTCP, V6!PollAgain
<1>3. ASSUME NEW t \in Threads, V6!LifeCycle(t) PROVE ListStep
  BY <1>3
     DEF V6!LifeCycle, V6!Create, V6!SocketsGivenUp, V6!filtervars, V6!SocketsCreated,
         V6!AddressesCreated, V6!Destroy, V6!SocketsDestroyed,
         V6!AddressesDestroyed, V6!EmptyList, V6!NoPorts, EmptyList, NoPorts,
         V6!GetLocalHostName
<1>4. ASSUME NEW t \in Threads, V6!Waiting(t) PROVE ListStep
  BY <1>4 DEF V6!Waiting, V6!WaitForIncomingData, V6!WaitEnds, V6!AbortWait
<1>5. ASSUME NEW t \in Threads, V6!Receiving(t) PROVE ListStep
  BY <1>5 DEF V6!Receiving, V6!Poll, V6!PollOnce, V6!GetNextPacket
<1>6. ASSUME NEW t \in Threads, V6!Sending(t) PROVE ListStep
  BY <1>6
     DEF V6!Sending, V6!SendRTPData, V6!SendRTCPData, V6!SendFrom,
         V6!AddDestination, V6!DeleteDestination, V6!ClearDestinations,
         V6!ChangeDestinations, V6!filtervars
<1>7. ASSUME NEW t \in Threads, V6!Grouping(t) PROVE ListStep
  BY <1>7
     DEF V6!Grouping, V6!JoinMulticastGroup, V6!LeaveMulticastGroup,
         V6!LeaveAllMulticastGroups, V6!Join, V6!LeaveGroups
<1>8. ASSUME NEW t \in Threads, V6!Filtering(t) PROVE ListStep
  BY <1>8, V6Filters
<1>9. CASE UNCHANGED V6!vars
  BY <1>9 DEF V6!vars
<1> QED
  BY <1>1, <1>2, <1>3, <1>4, <1>5, <1>6, <1>7, <1>8, <1>9 DEF V6!Next

\* So the list is right in RTPUDPv6Transmitter.
LEMMA V6ListInv == V6!Spec => []ListInv
<1>1. V6!Init => ListInv
  BY InitList
     DEF V6!Init, UDPInit, V6!UDPInit, IPInit, V6!IPInit, TransmitterInit,
         V6!TransmitterInit, NoPorts, V6!NoPorts
<1>2. ListInv /\ [V6!Next]_V6!vars => ListInv'
  BY V6Lists, KeepsList
<1> QED
  BY <1>1, <1>2, PTL DEF V6!Spec

\* The handlers of the list in RTPFakeTransmitter.
LEMMA FakeFilters ==
  ASSUME NEW t \in Threads, Fake!Filtering(t)
  PROVE  ListStep
<1>1. CASE \E mode \in {"AcceptAll", "AcceptSome", "IgnoreSome"} :
             Fake!SetReceiveMode(t, mode)
  BY <1>1
     DEF Fake!SetReceiveMode, Fake!ChangeMode, Fake!EmptyList, Fake!NoPorts,
         EmptyList, NoPorts, ListStep
<1>2. ASSUME NEW h \in Hosts, NEW port \in Ports \cup {AllPorts},
             \/ Fake!AddToIgnoreList(t, h, port) \/ Fake!AddToAcceptList(t, h, port)
      PROVE  ListStep
  <2>1. AddEntry(h, port)
    BY <1>2
       DEF Fake!AddToIgnoreList, Fake!AddToAcceptList,
           Fake!ProcessAddAcceptIgnoreEntry, Fake!AddEntry, Fake!SetPorts,
           Fake!WithPort, Fake!AllPorts, AddEntry, SetPorts, WithPort, AllPorts
  <2> QED
    BY <2>1 DEF ListStep
<1>3. ASSUME NEW h \in Hosts, NEW port \in Ports \cup {AllPorts},
             \/ Fake!DeleteFromIgnoreList(t, h, port)
             \/ Fake!DeleteFromAcceptList(t, h, port)
      PROVE  ListStep
  <2>1. DeleteEntry(h, port)
    BY <1>3
       DEF Fake!DeleteFromIgnoreList, Fake!DeleteFromAcceptList,
           Fake!ProcessDeleteAcceptIgnoreEntry, Fake!DeleteEntry, Fake!SetPorts,
           Fake!WithoutPort, Fake!NoPorts, Fake!AllPorts, DeleteEntry, SetPorts,
           WithoutPort, NoPorts, AllPorts
  <2> QED
    BY <2>1 DEF ListStep
<1>4. CASE Fake!ClearIgnoreList(t) \/ Fake!ClearAcceptList(t)
  BY <1>4
     DEF Fake!ClearIgnoreList, Fake!ClearAcceptList, Fake!ClearAcceptIgnoreInfo,
         Fake!EmptyList, Fake!NoPorts, EmptyList, NoPorts, ListStep
<1> QED
  BY <1>1, <1>2, <1>3, <1>4 DEF Fake!Filtering, Fake!AllPorts, AllPorts

\* Every handler of RTPFakeTransmitter: only those of the list, SetReceiveMode
\* and Destroy change it.
LEMMA FakeLists == [Fake!Next]_Fake!vars => ListStep
<1> SUFFICES ASSUME [Fake!Next]_Fake!vars PROVE ListStep
  OBVIOUS
<1> USE DEF ListStep, Fake!ipvars
<1>1. CASE Fake!Arriving
  BY <1>1 DEF Fake!Arriving, Fake!SetCurrentData
<1>2. ASSUME NEW t \in Threads, Fake!LifeCycle(t) PROVE ListStep
  BY <1>2
     DEF Fake!LifeCycle, Fake!Create, Fake!AddressesCreated, Fake!filtervars,
         Fake!Destroy, Fake!AddressesDestroyed, Fake!EmptyList, Fake!NoPorts,
         EmptyList, NoPorts, Fake!GetLocalHostName
<1>3. ASSUME NEW t \in Threads, Fake!Receiving(t) PROVE ListStep
  BY <1>3 DEF Fake!Receiving, Fake!Poll, Fake!GetNextPacket
<1>4. ASSUME NEW t \in Threads, Fake!Sending(t) PROVE ListStep
  BY <1>4
     DEF Fake!Sending, Fake!SendRTPData, Fake!SendRTCPData, Fake!AddDestination,
         Fake!DeleteDestination, Fake!ClearDestinations, Fake!ChangeDestinations,
         Fake!filtervars
<1>5. ASSUME NEW t \in Threads, Fake!Filtering(t) PROVE ListStep
  BY <1>5, FakeFilters
<1>6. CASE UNCHANGED Fake!vars
  BY <1>6 DEF Fake!vars
<1> QED
  BY <1>1, <1>2, <1>3, <1>4, <1>5, <1>6 DEF Fake!Next

\* So the list is right in RTPFakeTransmitter.
LEMMA FakeListInv == Fake!Spec => []ListInv
<1>1. Fake!Init => ListInv
  BY InitList
     DEF Fake!Init, IPInit, Fake!IPInit, TransmitterInit, Fake!TransmitterInit,
         NoPorts, Fake!NoPorts
<1>2. ListInv /\ [Fake!Next]_Fake!vars => ListInv'
  BY FakeLists, KeepsList
<1> QED
  BY <1>1, <1>2, PTL DEF Fake!Spec

\* For every set of hosts and ports: in the three transmitters with a list it
\* never accepts or ignores an address that was not added since it was last
\* deleted, whatever ports and whole hosts were added and deleted in between.
THEOREM ListsSafe ==
  (V4!Spec \/ V6!Spec \/ Fake!Spec) => []ListWithinSelected
<1>1. ListInv => ListWithinSelected
  BY DEF ListInv
<1> QED
  BY <1>1, V4ListInv, V6ListInv, FakeListInv, PTL

-----------------------------------------------------------------------------
(* Sockets and multicast groups *)

\* Ports for two sockets, or twice that of the only one.
PortPairs(mux) == {p \in (Nat \ {0}) \X (Nat \ {0}) : mux => p[1] = p[2]}

\* Pairs that Create may obtain: the application's, or our own on any ports.
Obtainable == UserPairs \cup UNION {OwnPairs(PortPairs(mux), mux) : mux \in BOOLEAN}

socketvars == <<created, rtpsock, rtcpsock, closesocketswhendone, multicastgroups,
                boundto, members>>

\* What Create has when it succeeds, or had when it fails.
Opens(pair, closes, bound) ==
  /\ ~created
  /\ rtpsock' = pair.rtp /\ rtcpsock' = pair.rtcp /\ closesocketswhendone' = pair.own
  /\ IF closes THEN UNCHANGED created ELSE created' = TRUE
  /\ boundto' = bound
  /\ UNCHANGED <<multicastgroups, members>>

\* What a step may do to the sockets and their groups.
SocketStep ==
  \/ UNCHANGED socketvars
  \/ \E pair \in Obtainable :
       Opens(pair, TRUE, CLOSESOCKETS(pair)) \/ Opens(pair, FALSE, pair.bound)
  \/ \E t \in Threads : SocketsDestroyed(t)
  \/ \E t \in Threads, g \in Groups : Join(t, g)
  \/ \E t \in Threads, groups \in SUBSET multicastgroups : LeaveGroups(t, groups)

\* A socket of our own that is closed is in no group, and one that is open is
\* in use; a transmitter uses two of its own or two of the application's.
SocketInv ==
  /\ created \in BOOLEAN /\ closesocketswhendone \in BOOLEAN
  /\ rtpsock \in Sockets /\ rtcpsock \in Sockets
  /\ boundto \in [Sockets -> Nat] /\ members \in [Sockets -> SUBSET Groups]
  /\ multicastgroups \in SUBSET Groups
  /\ InUse \subseteq (IF closesocketswhendone THEN OwnSockets ELSE UserSockets)
  /\ SocketsReleased
  /\ MembersMatch
  /\ ~created => multicastgroups = {}
  /\ \A s \in OwnSockets : boundto[s] = 0 => members[s] = {}

\* At first the application's sockets are open and no other.
LEMMA InitSockets == UDPInit => SocketInv
<1> SUFFICES ASSUME UDPInit PROVE SocketInv
  OBVIOUS
<1>1. /\ created = FALSE /\ closesocketswhendone = TRUE
      /\ rtpsock = "own1" /\ rtcpsock = "own2" /\ multicastgroups = {}
      /\ boundto = [s \in Sockets |-> IF s \in UserSockets THEN UserPorts[s] ELSE 0]
      /\ members = [s \in Sockets |-> {}]
  BY DEF UDPInit, IPInit, TransmitterInit
<1>2. \A s \in UserSockets : UserPorts[s] \in Nat \ {0}
  BY SocketAssumption DEF UserSockets
<1> QED
  BY <1>1, <1>2
     DEF SocketInv, Sockets, OwnSockets, UserSockets, InUse, SocketsReleased,
         MembersMatch

\* Such a pair is two of the application's sockets, with no other open, or our
\* own, with none open but these and the application's.
LEMMA Pairs ==
  ASSUME SocketInv, ~created, NEW pair \in Obtainable
  PROVE  /\ pair.own \in BOOLEAN /\ pair.rtp \in Sockets /\ pair.rtcp \in Sockets
         /\ {pair.rtp, pair.rtcp} \subseteq (IF pair.own THEN OwnSockets ELSE UserSockets)
         /\ pair.bound \in [Sockets -> Nat]
         /\ \A s \in Sockets : pair.bound[s] # 0 <=>
              s \in UserSockets \cup (IF pair.own THEN {pair.rtp, pair.rtcp} ELSE {})
<1>1. /\ boundto \in [Sockets -> Nat]
      /\ \A s \in Sockets : boundto[s] # 0 <=> s \in UserSockets
  BY DEF SocketInv, SocketsReleased, UserSockets, Sockets
<1>2. CASE pair \in UserPairs
  <2>1. PICK s \in UserSockets :
          pair = [rtp |-> "user1", rtcp |-> s, own |-> FALSE,
                  ports |-> <<boundto["user1"], boundto[s]>>, bound |-> boundto]
    BY <1>2 DEF UserPairs
  <2>2. /\ pair.own = FALSE /\ pair.rtp = "user1" /\ pair.rtcp = s
        /\ pair.bound = boundto
    BY <2>1
  <2> QED
    BY <1>1, <2>2 DEF UserSockets, OwnSockets, Sockets
<1>3. ASSUME NEW mux \in BOOLEAN, pair \in OwnPairs(PortPairs(mux), mux)
      PROVE  /\ pair.own = TRUE /\ pair.rtp = "own1"
             /\ pair.rtcp \in {"own1", "own2"}
             /\ \E p \in Nat \ {0}, q \in Nat \ {0} :
                  pair.bound = [boundto EXCEPT !["own1"] = p, ![pair.rtcp] = q]
  BY <1>3 DEF OwnPairs, PortPairs
<1>4. CASE pair \notin UserPairs
  <2>1. \E mux \in BOOLEAN : pair \in OwnPairs(PortPairs(mux), mux)
    BY <1>4 DEF Obtainable
  <2>2. /\ pair.own = TRUE /\ pair.rtp = "own1"
        /\ pair.rtcp \in {"own1", "own2"}
        /\ \E p \in Nat \ {0}, q \in Nat \ {0} :
             pair.bound = [boundto EXCEPT !["own1"] = p, ![pair.rtcp] = q]
    BY <1>3, <2>1
  <2>3. PICK p \in Nat \ {0}, q \in Nat \ {0} :
          pair.bound = [boundto EXCEPT !["own1"] = p, ![pair.rtcp] = q]
    BY <2>2
  <2>4. pair.bound \in [Sockets -> Nat]
    BY <1>1, <2>3
  <2>5. \A s \in Sockets :
          pair.bound[s] = IF s = pair.rtcp THEN q
                          ELSE IF s = "own1" THEN p ELSE boundto[s]
    BY <1>1, <2>2, <2>3
  <2>6. \A s \in Sockets :
          pair.bound[s] # 0 <=> s \in UserSockets \cup {pair.rtp, pair.rtcp}
    BY <1>1, <2>2, <2>5 DEF UserSockets, OwnSockets, Sockets
  <2> QED
    BY <2>2, <2>4, <2>6 DEF OwnSockets, Sockets
<1> QED
  BY <1>2, <1>4

\* Opening two sockets or giving them up, destroying the transmitter, joining a
\* group (which undoes the first socket's membership when the second fails) and
\* leaving groups keep the sockets and their memberships as they should be.
LEMMA KeepsSockets == SocketInv /\ SocketStep => SocketInv'
<1> SUFFICES ASSUME SocketInv, SocketStep PROVE SocketInv'
  OBVIOUS
<1>1. CASE UNCHANGED socketvars
  BY <1>1 DEF socketvars, SocketInv, InUse, SocketsReleased, MembersMatch
<1>2. ASSUME NEW pair \in Obtainable, Opens(pair, TRUE, CLOSESOCKETS(pair))
      PROVE  SocketInv'
  <2>1. ~created
    BY <1>2 DEF Opens
  <2> QED
    BY <1>2, <2>1, Pairs
       DEF Opens, CLOSESOCKETS, SocketInv, InUse, SocketsReleased, MembersMatch,
           Sockets, OwnSockets, UserSockets
<1>3. ASSUME NEW pair \in Obtainable, Opens(pair, FALSE, pair.bound) PROVE SocketInv'
  <2>1. ~created
    BY <1>3 DEF Opens
  <2> QED
    BY <1>3, <2>1, Pairs
       DEF Opens, SocketInv, InUse, SocketsReleased, MembersMatch, Sockets,
           OwnSockets, UserSockets
<1>4. ASSUME NEW t \in Threads, SocketsDestroyed(t) PROVE SocketInv'
  BY <1>4
     DEF SocketsDestroyed, Destroyed, CLOSESOCKETS, sockvars, SocketInv, InUse,
         SocketsReleased, MembersMatch, Sockets, OwnSockets, UserSockets
<1>5. ASSUME NEW t \in Threads, NEW g \in Groups, Join(t, g) PROVE SocketInv'
  <2>1. /\ created /\ UNCHANGED <<created, rtpsock, rtcpsock>>
        /\ UNCHANGED <<closesocketswhendone, boundto>>
        /\ \A s \in InUse \cap OwnSockets : boundto[s] # 0
        /\ InUse \subseteq Sockets
    BY <1>5
       DEF Join, Works, commonvars, lifevars, sockvars, SocketInv,
           SocketsReleased, InUse, Sockets
  <2>2. CASE UNCHANGED <<multicastgroups, members>>
    BY <2>1, <2>2 DEF SocketInv, InUse, SocketsReleased, MembersMatch
  <2>3. CASE /\ multicastgroups' = multicastgroups \cup {g}
             /\ members' = [s \in Sockets |->
                  IF s \in InUse THEN members[s] \cup {g} ELSE members[s]]
    <3>1. multicastgroups' \in SUBSET Groups /\ members' \in [Sockets -> SUBSET Groups]
      BY <2>3 DEF SocketInv
    <3>2. MembersMatch'
      BY <2>1, <2>3 DEF SocketInv, MembersMatch, InUse
    <3>3. \A s \in OwnSockets : boundto'[s] = 0 => members'[s] = {}
      BY <2>1, <2>3 DEF SocketInv, Sockets
    <3> QED
      BY <2>1, <3>1, <3>2, <3>3 DEF SocketInv, InUse, SocketsReleased
  <2> QED
    BY <1>5, <2>2, <2>3 DEF Join
<1>6. ASSUME NEW t \in Threads, NEW groups \in SUBSET multicastgroups,
             LeaveGroups(t, groups)
      PROVE  SocketInv'
  BY <1>6
     DEF LeaveGroups, Works, commonvars, lifevars, sockvars, SocketInv, InUse,
         SocketsReleased, MembersMatch, Sockets, OwnSockets, UserSockets
<1> QED
  BY <1>1, <1>2, <1>3, <1>4, <1>5, <1>6 DEF SocketStep

\* Our own sockets may be bound to any two ports, the only one to any.
LEMMA OwnObtainable ==
  ASSUME NEW mux \in BOOLEAN, NEW pairs \in SUBSET PortPairs(mux)
  PROVE  OwnPairs(pairs, mux) \subseteq Obtainable
<1>1. OwnPairs(pairs, mux) \subseteq OwnPairs(PortPairs(mux), mux)
  BY DEF OwnPairs
<1> QED
  BY <1>1 DEF Obtainable

\* The sockets RTPUDPv4Transmitter may start with:
\* given by the application, found by GetAutoSockets,
\* or bound to the port base and the forced port.
LEMMA V4Pairs == V4!CreateSockets \subseteq Obtainable
<1> SUFFICES ASSUME NEW pair \in V4!CreateSockets PROVE pair \in Obtainable
  OBVIOUS
<1>1. CASE pair \in V4!UserPairs
  <2>1. V4!UserPairs = UserPairs
    BY DEF V4!UserPairs, V4!UserSockets, UserPairs, UserSockets
  <2> QED
    BY <1>1, <2>1 DEF Obtainable
<1>2. ASSUME NEW odd \in BOOLEAN, NEW mux \in BOOLEAN,
             pair \in V4!GetAutoSockets(odd, mux)
      PROVE  pair \in Obtainable
  <2>1. V4!AutoPorts(odd, mux) \in SUBSET PortPairs(mux)
    BY IPAssumption DEF V4!AutoPorts, PortPairs
  <2>2. pair \in OwnPairs(V4!AutoPorts(odd, mux), mux)
    BY <1>2
       DEF V4!GetAutoSockets, V4!OwnPairs, V4!Bindable, V4!UserSockets, OwnPairs,
           Bindable, UserSockets
  <2> QED
    BY <2>1, <2>2, OwnObtainable
<1>3. ASSUME NEW odd \in BOOLEAN, NEW mux \in BOOLEAN, NEW base \in Ports,
             NEW forced \in Ports \cup {0},
             pair \in V4!OwnPairs(V4!BasePorts(base, odd, mux, forced), mux)
      PROVE  pair \in Obtainable
  <2>1. V4!BasePorts(base, odd, mux, forced) \in SUBSET PortPairs(mux)
    BY IPAssumption DEF V4!BasePorts, PortPairs
  <2>2. pair \in OwnPairs(V4!BasePorts(base, odd, mux, forced), mux)
    BY <1>3
       DEF V4!OwnPairs, V4!Bindable, V4!UserSockets, OwnPairs, Bindable,
           UserSockets
  <2> QED
    BY <2>1, <2>2, OwnObtainable
<1> QED
  BY <1>1, <1>2, <1>3 DEF V4!CreateSockets

\* Create and Destroy of RTPUDPv4Transmitter, whether Create succeeds or fails.
LEMMA V4LifeSockets ==
  ASSUME NEW t \in Threads, V4!LifeCycle(t)
  PROVE  SocketStep
<1>1. CASE V4!Create(t)
  <2>1. PICK pair \in V4!CreateSockets :
          \/ V4!SocketsGivenUp(pair)
          \/ \E own \in BOOLEAN, ips \in V4!CreateLocalIPList :
               V4!SocketsCreated(pair, own, ips)
    BY <1>1 DEF V4!Create
  <2>2. ~created
    BY <1>1 DEF V4!Create, V4!MayCreate
  <2>3. pair \in Obtainable
    BY V4Pairs
  <2>4. CASE V4!SocketsGivenUp(pair)
    <3>1. Opens(pair, TRUE, CLOSESOCKETS(pair))
      BY <2>2, <2>4
         DEF V4!SocketsGivenUp, V4!Obtain, V4!CreateFailed, Opens,
             V4!CLOSESOCKETS, CLOSESOCKETS, V4!Sockets, V4!OwnSockets,
             V4!UserSockets, Sockets, OwnSockets, UserSockets
    <3> QED
      BY <2>3, <3>1 DEF SocketStep
  <2>5. ASSUME NEW own, NEW ips, V4!SocketsCreated(pair, own, ips) PROVE SocketStep
    <3>1. Opens(pair, FALSE, pair.bound)
      BY <2>2, <2>5 DEF V4!SocketsCreated, V4!Obtain, V4!Created, Opens
    <3> QED
      BY <2>3, <3>1 DEF SocketStep
  <2> QED
    BY <2>1, <2>4, <2>5
<1>2. CASE V4!Destroy(t)
  <2>1. SocketsDestroyed(t)
    BY <1>2
       DEF V4!Destroy, V4!SocketsDestroyed, V4!Destroyed, V4!AddressesDestroyed,
           V4!EmptyList, V4!NoPorts, V4!CLOSESOCKETS, V4!Sockets, V4!OwnSockets,
           V4!UserSockets, V4!sockvars, V4!Works, V4!Enters, V4!Goto,
           V4!SendAbortSignal, V4!mutexvars, V4!ForgetHostName, ForgetHostName,
           SocketsDestroyed, Destroyed,
           AddressesDestroyed, EmptyList, NoPorts, CLOSESOCKETS, Sockets,
           OwnSockets, UserSockets, sockvars, Works, Enters, Goto,
           SendAbortSignal, mutexvars
  <2> QED
    BY <2>1 DEF SocketStep
<1>3. CASE V4!GetLocalHostName(t)
  BY <1>3
     DEF V4!GetLocalHostName, V4!NameHost, V4!lifevars, V4!udpvars, V4!sockvars,
         V4!sysvars, SocketStep, socketvars
<1> QED
  BY <1>1, <1>2, <1>3 DEF V4!LifeCycle

\* Every handler of RTPUDPv4Transmitter.
LEMMA V4Sockets == [V4!Next]_V4!vars => SocketStep
<1> SUFFICES ASSUME [V4!Next]_V4!vars PROVE SocketStep
  OBVIOUS
<1> USE DEF V4!commonvars, V4!lifevars, V4!udpvars, V4!sockvars, V4!sysvars, socketvars
<1>0. UNCHANGED socketvars => SocketStep
  BY DEF SocketStep
<1>1. CASE V4!Arriving
  BY <1>0, <1>1 DEF V4!Arriving, V4!Deliver
<1>2. ASSUME NEW t \in Threads, V4!Step(t) PROVE SocketStep
  BY <1>0, <1>2
     DEF V4!Step, V4!WaitStep, V4!LockWaitMutex, V4!RTPSelect, V4!Woken,
         V4!ReadAbort, V4!UnlockWaitMutex, V4!DestroyWaitsForWait,
         V4!DestroyWaits, V4!DestroyEnds, V4!DestroyUnlocks, V4!PollRTCP,
         V4!PollAgain
<1>3. ASSUME NEW t \in Threads, V4!LifeCycle(t) PROVE SocketStep
  BY <1>3, V4LifeSockets DEF V4!LifeCycle
<1>4. ASSUME NEW t \in Threads, V4!Waiting(t) PROVE SocketStep
  BY <1>0, <1>4
     DEF V4!Waiting, V4!WaitForIncomingData, V4!StartWaiting, V4!WaitEnds,
         V4!RTPSelectFails, V4!AbortWait, V4!SignalWaiter
<1>5. ASSUME NEW t \in Threads, V4!Receiving(t) PROVE SocketStep
  BY <1>0, <1>5
     DEF V4!Receiving, V4!Poll, V4!PollOnce, V4!GetNextPacket, V4!TakePacket
<1>6. ASSUME NEW t \in Threads, V4!Sending(t) PROVE SocketStep
  BY <1>0, <1>6
     DEF V4!Sending, V4!SendRTPData, V4!SendRTCPData, V4!SendFrom,
         V4!AddDestination, V4!DeleteDestination, V4!ClearDestinations,
         V4!ChangeDestinations
<1>7. ASSUME NEW t \in Threads, V4!Grouping(t) PROVE SocketStep
  <2>1. ASSUME NEW g \in Groups, V4!Join(t, g) PROVE Join(t, g)
    BY <2>1
       DEF V4!Join, V4!Works, V4!Enters, V4!InUse, V4!Sockets, V4!OwnSockets,
           V4!UserSockets, V4!ipvars, Join, Works, Enters, InUse, Sockets,
           OwnSockets, UserSockets, commonvars, lifevars, V4!mutexvars, mutexvars,
           V4!waitvars, waitvars, V4!datavars, datavars, ipvars, sockvars
  <2>2. ASSUME NEW groups, V4!LeaveGroups(t, groups)
        PROVE  groups \in SUBSET multicastgroups /\ LeaveGroups(t, groups)
    BY <2>2
       DEF V4!LeaveGroups, V4!Works, V4!Enters, V4!InUse, V4!Sockets,
           V4!OwnSockets, V4!UserSockets, V4!ipvars, LeaveGroups, Works, Enters,
           InUse, Sockets, OwnSockets, UserSockets, commonvars, lifevars,
           V4!mutexvars, mutexvars, V4!waitvars, waitvars, V4!datavars, datavars,
           ipvars, sockvars
  <2> QED
    BY <1>7, <2>1, <2>2
       DEF V4!Grouping, V4!JoinMulticastGroup, V4!LeaveMulticastGroup,
           V4!LeaveAllMulticastGroups, SocketStep
<1>8. ASSUME NEW t \in Threads, V4!Filtering(t) PROVE SocketStep
  BY <1>0, <1>8
     DEF V4!Filtering, V4!SetReceiveMode, V4!ChangeMode, V4!AddToIgnoreList,
         V4!DeleteFromIgnoreList, V4!ClearIgnoreList, V4!AddToAcceptList,
         V4!DeleteFromAcceptList, V4!ClearAcceptList, V4!ListOnly
<1>9. CASE UNCHANGED V4!vars
  BY <1>0, <1>9 DEF V4!vars
<1> QED
  BY <1>1, <1>2, <1>3, <1>4, <1>5, <1>6, <1>7, <1>8, <1>9 DEF V4!Next

\* So the sockets and groups are right in RTPUDPv4Transmitter.
LEMMA V4SocketInv == V4!Spec => []SocketInv
<1>1. V4!Init => SocketInv
  <2>1. V4!Init => UDPInit
    BY
       DEF V4!Init, UDPInit, V4!UDPInit, IPInit, V4!IPInit, TransmitterInit,
           V4!TransmitterInit, NoPorts, V4!NoPorts, Sockets, V4!Sockets,
           OwnSockets, V4!OwnSockets, UserSockets, V4!UserSockets
  <2> QED
    BY <2>1, InitSockets
<1>2. SocketInv /\ [V4!Next]_V4!vars => SocketInv'
  BY V4Sockets, KeepsSockets
<1> QED
  BY <1>1, <1>2, PTL DEF V4!Spec

\* The sockets RTPUDPv6Transmitter may start with:
\* bound to an even port base and the port after it.
LEMMA V6Pairs == V6!CreateSockets \subseteq Obtainable
<1> DEFINE pairs == {<<base, base + 1>> : base \in {p \in Ports : V6!Even(p)}}
<1>1. pairs \in SUBSET PortPairs(FALSE)
  BY IPAssumption DEF PortPairs
<1>2. V6!CreateSockets = OwnPairs(pairs, FALSE)
  BY
     DEF V6!CreateSockets, V6!OwnPairs, V6!Bindable, V6!UserSockets, OwnPairs,
         Bindable, UserSockets
<1> HIDE DEF pairs
<1>3. OwnPairs(pairs, FALSE) \subseteq Obtainable
  <2>1. FALSE \in BOOLEAN
    OBVIOUS
  <2> QED
    BY <1>1, <2>1, OwnObtainable, Zenon
<1> QED
  BY <1>2, <1>3

\* Create and Destroy of RTPUDPv6Transmitter, whether Create succeeds or fails.
LEMMA V6LifeSockets ==
  ASSUME NEW t \in Threads, V6!LifeCycle(t)
  PROVE  SocketStep
<1>1. CASE V6!Create(t)
  <2>1. PICK pair \in V6!CreateSockets :
          \/ V6!SocketsGivenUp(pair)
          \/ \E own \in BOOLEAN, ips \in V6!CreateLocalIPList :
               V6!SocketsCreated(pair, own, ips)
    BY <1>1 DEF V6!Create
  <2>2. ~created
    BY <1>1 DEF V6!Create, V6!MayCreate
  <2>3. pair \in Obtainable
    BY V6Pairs
  <2>4. CASE V6!SocketsGivenUp(pair)
    <3>1. Opens(pair, TRUE, CLOSESOCKETS(pair))
      BY <2>2, <2>4
         DEF V6!SocketsGivenUp, V6!Obtain, V6!CreateFailed, Opens,
             V6!CLOSESOCKETS, CLOSESOCKETS, V6!Sockets, V6!OwnSockets,
             V6!UserSockets, Sockets, OwnSockets, UserSockets
    <3> QED
      BY <2>3, <3>1 DEF SocketStep
  <2>5. ASSUME NEW own, NEW ips, V6!SocketsCreated(pair, own, ips) PROVE SocketStep
    <3>1. Opens(pair, FALSE, pair.bound)
      BY <2>2, <2>5 DEF V6!SocketsCreated, V6!Obtain, V6!Created, Opens
    <3> QED
      BY <2>3, <3>1 DEF SocketStep
  <2> QED
    BY <2>1, <2>4, <2>5
<1>2. CASE V6!Destroy(t)
  <2>1. SocketsDestroyed(t)
    BY <1>2
       DEF V6!Destroy, V6!SocketsDestroyed, V6!Destroyed, V6!AddressesDestroyed,
           V6!EmptyList, V6!NoPorts, V6!CLOSESOCKETS, V6!Sockets, V6!OwnSockets,
           V6!UserSockets, V6!sockvars, V6!Works, V6!Enters, V6!Goto,
           V6!SendAbortSignal, V6!mutexvars, V6!ForgetHostName, ForgetHostName,
           SocketsDestroyed, Destroyed,
           AddressesDestroyed, EmptyList, NoPorts, CLOSESOCKETS, Sockets,
           OwnSockets, UserSockets, sockvars, Works, Enters, Goto,
           SendAbortSignal, mutexvars
  <2> QED
    BY <2>1 DEF SocketStep
<1>3. CASE V6!GetLocalHostName(t)
  BY <1>3
     DEF V6!GetLocalHostName, V6!NameHost, V6!lifevars, V6!udpvars, V6!sockvars,
         V6!sysvars, SocketStep, socketvars
<1> QED
  BY <1>1, <1>2, <1>3 DEF V6!LifeCycle

\* Every handler of RTPUDPv6Transmitter.
LEMMA V6Sockets == [V6!Next]_V6!vars => SocketStep
<1> SUFFICES ASSUME [V6!Next]_V6!vars PROVE SocketStep
  OBVIOUS
<1> USE DEF V6!commonvars, V6!lifevars, V6!udpvars, V6!sockvars, V6!sysvars, socketvars
<1>0. UNCHANGED socketvars => SocketStep
  BY DEF SocketStep
<1>1. CASE V6!Arriving
  BY <1>0, <1>1 DEF V6!Arriving, V6!Deliver
<1>2. ASSUME NEW t \in Threads, V6!Step(t) PROVE SocketStep
  BY <1>0, <1>2
     DEF V6!Step, V6!WaitStep, V6!LockWaitMutex, V6!RTPSelect, V6!Woken,
         V6!ReadAbort, V6!UnlockWaitMutex, V6!DestroyWaitsForWait,
         V6!DestroyWaits, V6!DestroyEnds, V6!DestroyUnlocks, V6!PollRTCP,
         V6!PollAgain
<1>3. ASSUME NEW t \in Threads, V6!LifeCycle(t) PROVE SocketStep
  BY <1>3, V6LifeSockets DEF V6!LifeCycle
<1>4. ASSUME NEW t \in Threads, V6!Waiting(t) PROVE SocketStep
  BY <1>0, <1>4
     DEF V6!Waiting, V6!WaitForIncomingData, V6!StartWaiting, V6!WaitEnds,
         V6!RTPSelectFails, V6!AbortWait, V6!SignalWaiter
<1>5. ASSUME NEW t \in Threads, V6!Receiving(t) PROVE SocketStep
  BY <1>0, <1>5
     DEF V6!Receiving, V6!Poll, V6!PollOnce, V6!GetNextPacket, V6!TakePacket
<1>6. ASSUME NEW t \in Threads, V6!Sending(t) PROVE SocketStep
  BY <1>0, <1>6
     DEF V6!Sending, V6!SendRTPData, V6!SendRTCPData, V6!SendFrom,
         V6!AddDestination, V6!DeleteDestination, V6!ClearDestinations,
         V6!ChangeDestinations
<1>7. ASSUME NEW t \in Threads, V6!Grouping(t) PROVE SocketStep
  <2>1. ASSUME NEW g \in Groups, V6!Join(t, g) PROVE Join(t, g)
    BY <2>1
       DEF V6!Join, V6!Works, V6!Enters, V6!InUse, V6!Sockets, V6!OwnSockets,
           V6!UserSockets, V6!ipvars, Join, Works, Enters, InUse, Sockets,
           OwnSockets, UserSockets, commonvars, lifevars, V6!mutexvars, mutexvars,
           V6!waitvars, waitvars, V6!datavars, datavars, ipvars, sockvars
  <2>2. ASSUME NEW groups, V6!LeaveGroups(t, groups)
        PROVE  groups \in SUBSET multicastgroups /\ LeaveGroups(t, groups)
    BY <2>2
       DEF V6!LeaveGroups, V6!Works, V6!Enters, V6!InUse, V6!Sockets,
           V6!OwnSockets, V6!UserSockets, V6!ipvars, LeaveGroups, Works, Enters,
           InUse, Sockets, OwnSockets, UserSockets, commonvars, lifevars,
           V6!mutexvars, mutexvars, V6!waitvars, waitvars, V6!datavars, datavars,
           ipvars, sockvars
  <2> QED
    BY <1>7, <2>1, <2>2
       DEF V6!Grouping, V6!JoinMulticastGroup, V6!LeaveMulticastGroup,
           V6!LeaveAllMulticastGroups, SocketStep
<1>8. ASSUME NEW t \in Threads, V6!Filtering(t) PROVE SocketStep
  BY <1>0, <1>8
     DEF V6!Filtering, V6!SetReceiveMode, V6!ChangeMode, V6!AddToIgnoreList,
         V6!DeleteFromIgnoreList, V6!ClearIgnoreList, V6!AddToAcceptList,
         V6!DeleteFromAcceptList, V6!ClearAcceptList, V6!ListOnly
<1>9. CASE UNCHANGED V6!vars
  BY <1>0, <1>9 DEF V6!vars
<1> QED
  BY <1>1, <1>2, <1>3, <1>4, <1>5, <1>6, <1>7, <1>8, <1>9 DEF V6!Next

\* So the sockets and groups are right in RTPUDPv6Transmitter.
LEMMA V6SocketInv == V6!Spec => []SocketInv
<1>1. V6!Init => SocketInv
  <2>1. V6!Init => UDPInit
    BY
       DEF V6!Init, UDPInit, V6!UDPInit, IPInit, V6!IPInit, TransmitterInit,
           V6!TransmitterInit, NoPorts, V6!NoPorts, Sockets, V6!Sockets,
           OwnSockets, V6!OwnSockets, UserSockets, V6!UserSockets
  <2> QED
    BY <2>1, InitSockets
<1>2. SocketInv /\ [V6!Next]_V6!vars => SocketInv'
  BY V6Sockets, KeepsSockets
<1> QED
  BY <1>1, <1>2, PTL DEF V6!Spec

\* For every set of groups and ports: the sockets of a UDP transmitter are
\* members of exactly the groups the transmitter believes to have joined, also
\* after a join that failed halfway, after leaving all and in another life.
THEOREM GroupsSafe == (V4!Spec \/ V6!Spec) => []MembersMatch
<1>1. SocketInv => MembersMatch
  BY DEF SocketInv
<1> QED
  BY <1>1, V4SocketInv, V6SocketInv, PTL

\* In every life of a UDP transmitter: no socket it opened stays open that it
\* does not use, whichever step of Create fails, and it closes none of the
\* application's.
THEOREM SocketsSafe == DatagramSpec => []NoSocketLeaked
<1>1. \/ proto = "IPv4UDPProto" \/ proto = "IPv6UDPProto"
      \/ proto \notin UDPProtocols
  BY DEF UDPProtocols
<1>2. proto \notin UDPProtocols /\ [UNCHANGED proto]_proto
        => (proto \notin UDPProtocols)'
  BY DEF UDPProtocols
<1>3. SocketInv \/ proto \notin UDPProtocols => NoSocketLeaked
  BY DEF SocketInv, NoSocketLeaked
<1> QED
  BY <1>1, <1>2, <1>3, V4SocketInv, V6SocketInv, PTL DEF DatagramSpec

-----------------------------------------------------------------------------
(* The mutexes of the UDP transmitters *)

\* Create fails: nothing changes but the count.
LEMMA CreateFailedStep ==
  ASSUME MaxCreates = 1, MutexInv, NEW t \in Threads, MayCreate(t),
         creates' = creates + 1,
         UNCHANGED <<created, mutexvars, at>>
  PROVE  MutexInv'
<1>1. creates \in 0..MaxCreates /\ creates < MaxCreates /\ ~created
  BY DEF MayCreate, MutexInv, OneLife
<1>2. creates = 0 /\ creates' = 1
  BY <1>1
<1> QED
  BY <1>1, <1>2 DEF MutexInv, OneLife, HoldsWhatItNeeds, mutexvars

\* Every handler of RTPUDPv4Transmitter.
LEMMA V4Mutexes ==
  ASSUME MaxCreates = 1
  PROVE  MutexInv /\ [V4!Next]_V4!vars => MutexInv'
<1> SUFFICES ASSUME MutexInv, [V4!Next]_V4!vars PROVE MutexInv'
  OBVIOUS
<1> USE DEF V4!commonvars, V4!lifevars, V4!mutexvars, mutexvars, V4!Goto, Goto
<1>1. CASE V4!Arriving
  BY <1>1, QuietStep DEF V4!Arriving, V4!Deliver
<1>2. ASSUME NEW t \in Threads, V4!WaitStep(t) PROVE MutexInv'
  <2>1. CASE V4!LockWaitMutex(t)
    BY <2>1, LockWaitMutexStep
       DEF V4!LockWaitMutex, LockWaitMutex, lifevars, V4!datavars, datavars,
           V4!waitvars, waitvars
  <2>2. CASE V4!RTPSelect(t)
    BY <2>2, RTPSelectStep
       DEF V4!RTPSelect, RTPSelect, V4!AbortReadable, AbortReadable, lifevars,
           V4!datavars, datavars
  <2>3. CASE V4!Woken(t)
    BY <2>3, WokenStep DEF V4!Woken, Woken, lifevars, V4!datavars, datavars
  <2>4. CASE V4!ReadAbort(t, V4!ReadSignallingByte)
    BY <2>4, ReadAbortStep DEF V4!ReadAbort
  <2>5. CASE V4!UnlockWaitMutex(t)
    BY <2>5, UnlockWaitMutexStep
       DEF V4!UnlockWaitMutex, UnlockWaitMutex, lifevars, V4!datavars, datavars,
           V4!waitvars, waitvars
  <2> QED
    BY <1>2, <2>1, <2>2, <2>3, <2>4, <2>5 DEF V4!WaitStep
<1>3. ASSUME NEW t \in Threads, V4!Step(t) PROVE MutexInv'
  <2>1. CASE V4!DestroyWaitsForWait(t)
    BY <2>1, DestroyWaitsStep
       DEF V4!DestroyWaitsForWait, V4!DestroyWaits, DestroyWaits, lifevars,
           V4!datavars, datavars, V4!waitvars, waitvars
  <2>2. CASE V4!DestroyEnds(t)
    BY <2>2, DestroyUnlocksStep
       DEF V4!DestroyEnds, V4!DestroyUnlocks, DestroyUnlocks, lifevars,
           V4!datavars, datavars, V4!waitvars, waitvars
  <2>3. CASE V4!PollRTCP(t)
    BY <2>3, PollEndStep DEF V4!PollRTCP, V4!PollAgain
  <2> QED
    BY <1>2, <1>3, <2>1, <2>2, <2>3 DEF V4!Step
<1>4. ASSUME NEW t \in Threads, V4!LifeCycle(t) PROVE MutexInv'
  <2>1. CASE V4!Create(t)
    <3>1. MayCreate(t)
      BY <2>1 DEF V4!Create, V4!MayCreate, V4!Enters, MayCreate, Enters
    <3>2. ASSUME V4!CreateFailed PROVE MutexInv'
      BY <3>1, <3>2, CreateFailedStep DEF V4!CreateFailed
    <3>3. ASSUME NEW own \in BOOLEAN, V4!Created(own) PROVE MutexInv'
      BY <3>1, <3>3, CreatedStep DEF V4!Created, Created
    <3> QED
      BY <2>1, <3>2, <3>3 DEF V4!Create, V4!SocketsGivenUp, V4!SocketsCreated
  <2>2. CASE V4!Destroy(t)
    BY <2>2, DestroyedStep
       DEF V4!Destroy, V4!SocketsDestroyed, V4!Destroyed, Destroyed, V4!Works,
           V4!Enters, Works, Enters, V4!SendAbortSignal, SendAbortSignal
  <2>3. CASE V4!GetLocalHostName(t)
    BY <2>3, QuietStep DEF V4!GetLocalHostName, V4!NameHost
  <2> QED
    BY <1>4, <2>1, <2>2, <2>3 DEF V4!LifeCycle
<1>5. ASSUME NEW t \in Threads, V4!Waiting(t) PROVE MutexInv'
  <2>1. CASE V4!WaitForIncomingData(t)
    BY <2>1, StartWaitingStep
       DEF V4!WaitForIncomingData, V4!StartWaiting, StartWaiting, V4!Works,
           V4!Enters, Works, Enters, lifevars, V4!datavars, datavars
  <2>2. CASE V4!WaitEnds(t)
    BY <2>2, RTPSelectStep
       DEF V4!WaitEnds, V4!RTPSelectFails, RTPSelectFails, lifevars, V4!datavars,
           datavars
  <2>3. CASE V4!AbortWait(t)
    BY <2>3, QuietStep DEF V4!AbortWait, V4!SignalWaiter
  <2> QED
    BY <1>5, <2>1, <2>2, <2>3 DEF V4!Waiting
<1>6. ASSUME NEW t \in Threads, V4!Receiving(t) PROVE MutexInv'
  <2>1. CASE V4!Poll(t)
    BY <2>1, LockMainStep, QuietStep
       DEF V4!Poll, V4!PollOnce, V4!Works, V4!Enters, Works, Enters
  <2>2. CASE V4!GetNextPacket(t)
    BY <2>2, QuietStep DEF V4!GetNextPacket, V4!TakePacket
  <2> QED
    BY <1>6, <2>1, <2>2 DEF V4!Receiving
<1>7. ASSUME NEW t \in Threads, V4!Sending(t) PROVE MutexInv'
  BY <1>7, QuietStep
     DEF V4!Sending, V4!SendRTPData, V4!SendRTCPData, V4!SendFrom,
         V4!AddDestination, V4!DeleteDestination, V4!ClearDestinations,
         V4!ChangeDestinations
<1>8. ASSUME NEW t \in Threads, V4!Grouping(t) PROVE MutexInv'
  BY <1>8, QuietStep
     DEF V4!Grouping, V4!JoinMulticastGroup, V4!LeaveMulticastGroup,
         V4!LeaveAllMulticastGroups, V4!Join, V4!LeaveGroups
<1>9. ASSUME NEW t \in Threads, V4!Filtering(t) PROVE MutexInv'
  BY <1>9, QuietStep
     DEF V4!Filtering, V4!SetReceiveMode, V4!ChangeMode, V4!AddToIgnoreList,
         V4!DeleteFromIgnoreList, V4!ClearIgnoreList, V4!AddToAcceptList,
         V4!DeleteFromAcceptList, V4!ClearAcceptList, V4!ListOnly
<1>10. CASE UNCHANGED V4!vars
  BY <1>10, QuietStep DEF V4!vars
<1> QED
  BY <1>1, <1>3, <1>4, <1>5, <1>6, <1>7, <1>8, <1>9, <1>10 DEF V4!Next

\* So the mutexes are in order in RTPUDPv4Transmitter.
LEMMA V4MutexInv ==
  ASSUME MaxCreates = 1
  PROVE  V4!Spec => []MutexInv
<1>1. V4!Init => MutexInv
  BY InitMutex
     DEF V4!Init, V4!UDPInit, V4!IPInit, TransmitterInit, V4!TransmitterInit
<1>2. MutexInv /\ [V4!Next]_V4!vars => MutexInv'
  BY V4Mutexes
<1> QED
  BY <1>1, <1>2, PTL DEF V4!Spec

\* Every handler of RTPUDPv6Transmitter.
LEMMA V6Mutexes ==
  ASSUME MaxCreates = 1
  PROVE  MutexInv /\ [V6!Next]_V6!vars => MutexInv'
<1> SUFFICES ASSUME MutexInv, [V6!Next]_V6!vars PROVE MutexInv'
  OBVIOUS
<1> USE DEF V6!commonvars, V6!lifevars, V6!mutexvars, mutexvars, V6!Goto, Goto
<1>1. CASE V6!Arriving
  BY <1>1, QuietStep DEF V6!Arriving, V6!Deliver
<1>2. ASSUME NEW t \in Threads, V6!WaitStep(t) PROVE MutexInv'
  <2>1. CASE V6!LockWaitMutex(t)
    BY <2>1, LockWaitMutexStep
       DEF V6!LockWaitMutex, LockWaitMutex, lifevars, V6!datavars, datavars,
           V6!waitvars, waitvars
  <2>2. CASE V6!RTPSelect(t)
    BY <2>2, RTPSelectStep
       DEF V6!RTPSelect, RTPSelect, V6!AbortReadable, AbortReadable, lifevars,
           V6!datavars, datavars
  <2>3. CASE V6!Woken(t)
    BY <2>3, WokenStep DEF V6!Woken, Woken, lifevars, V6!datavars, datavars
  <2>4. CASE V6!ReadAbort(t, V6!ReadSignallingByte)
    BY <2>4, ReadAbortStep DEF V6!ReadAbort
  <2>5. CASE V6!UnlockWaitMutex(t)
    BY <2>5, UnlockWaitMutexStep
       DEF V6!UnlockWaitMutex, UnlockWaitMutex, lifevars, V6!datavars, datavars,
           V6!waitvars, waitvars
  <2> QED
    BY <1>2, <2>1, <2>2, <2>3, <2>4, <2>5 DEF V6!WaitStep
<1>3. ASSUME NEW t \in Threads, V6!Step(t) PROVE MutexInv'
  <2>1. CASE V6!DestroyWaitsForWait(t)
    BY <2>1, DestroyWaitsStep
       DEF V6!DestroyWaitsForWait, V6!DestroyWaits, DestroyWaits, lifevars,
           V6!datavars, datavars, V6!waitvars, waitvars
  <2>2. CASE V6!DestroyEnds(t)
    BY <2>2, DestroyUnlocksStep
       DEF V6!DestroyEnds, V6!DestroyUnlocks, DestroyUnlocks, lifevars,
           V6!datavars, datavars, V6!waitvars, waitvars
  <2>3. CASE V6!PollRTCP(t)
    BY <2>3, PollEndStep DEF V6!PollRTCP, V6!PollAgain
  <2> QED
    BY <1>2, <1>3, <2>1, <2>2, <2>3 DEF V6!Step
<1>4. ASSUME NEW t \in Threads, V6!LifeCycle(t) PROVE MutexInv'
  <2>1. CASE V6!Create(t)
    <3>1. MayCreate(t)
      BY <2>1 DEF V6!Create, V6!MayCreate, V6!Enters, MayCreate, Enters
    <3>2. ASSUME V6!CreateFailed PROVE MutexInv'
      BY <3>1, <3>2, CreateFailedStep DEF V6!CreateFailed
    <3>3. ASSUME NEW own \in BOOLEAN, V6!Created(own) PROVE MutexInv'
      BY <3>1, <3>3, CreatedStep DEF V6!Created, Created
    <3> QED
      BY <2>1, <3>2, <3>3 DEF V6!Create, V6!SocketsGivenUp, V6!SocketsCreated
  <2>2. CASE V6!Destroy(t)
    BY <2>2, DestroyedStep
       DEF V6!Destroy, V6!SocketsDestroyed, V6!Destroyed, Destroyed, V6!Works,
           V6!Enters, Works, Enters, V6!SendAbortSignal, SendAbortSignal
  <2>3. CASE V6!GetLocalHostName(t)
    BY <2>3, QuietStep DEF V6!GetLocalHostName, V6!NameHost
  <2> QED
    BY <1>4, <2>1, <2>2, <2>3 DEF V6!LifeCycle
<1>5. ASSUME NEW t \in Threads, V6!Waiting(t) PROVE MutexInv'
  <2>1. CASE V6!WaitForIncomingData(t)
    BY <2>1, StartWaitingStep
       DEF V6!WaitForIncomingData, V6!StartWaiting, StartWaiting, V6!Works,
           V6!Enters, Works, Enters, lifevars, V6!datavars, datavars
  <2>2. CASE V6!WaitEnds(t)
    BY <2>2, RTPSelectStep
       DEF V6!WaitEnds, V6!RTPSelectFails, RTPSelectFails, lifevars, V6!datavars,
           datavars
  <2>3. CASE V6!AbortWait(t)
    BY <2>3, QuietStep DEF V6!AbortWait, V6!SignalWaiter
  <2> QED
    BY <1>5, <2>1, <2>2, <2>3 DEF V6!Waiting
<1>6. ASSUME NEW t \in Threads, V6!Receiving(t) PROVE MutexInv'
  <2>1. CASE V6!Poll(t)
    BY <2>1, LockMainStep, QuietStep
       DEF V6!Poll, V6!PollOnce, V6!Works, V6!Enters, Works, Enters
  <2>2. CASE V6!GetNextPacket(t)
    BY <2>2, QuietStep DEF V6!GetNextPacket, V6!TakePacket
  <2> QED
    BY <1>6, <2>1, <2>2 DEF V6!Receiving
<1>7. ASSUME NEW t \in Threads, V6!Sending(t) PROVE MutexInv'
  BY <1>7, QuietStep
     DEF V6!Sending, V6!SendRTPData, V6!SendRTCPData, V6!SendFrom,
         V6!AddDestination, V6!DeleteDestination, V6!ClearDestinations,
         V6!ChangeDestinations
<1>8. ASSUME NEW t \in Threads, V6!Grouping(t) PROVE MutexInv'
  BY <1>8, QuietStep
     DEF V6!Grouping, V6!JoinMulticastGroup, V6!LeaveMulticastGroup,
         V6!LeaveAllMulticastGroups, V6!Join, V6!LeaveGroups
<1>9. ASSUME NEW t \in Threads, V6!Filtering(t) PROVE MutexInv'
  BY <1>9, QuietStep
     DEF V6!Filtering, V6!SetReceiveMode, V6!ChangeMode, V6!AddToIgnoreList,
         V6!DeleteFromIgnoreList, V6!ClearIgnoreList, V6!AddToAcceptList,
         V6!DeleteFromAcceptList, V6!ClearAcceptList, V6!ListOnly
<1>10. CASE UNCHANGED V6!vars
  BY <1>10, QuietStep DEF V6!vars
<1> QED
  BY <1>1, <1>3, <1>4, <1>5, <1>6, <1>7, <1>8, <1>9, <1>10 DEF V6!Next

\* So the mutexes are in order in RTPUDPv6Transmitter.
LEMMA V6MutexInv ==
  ASSUME MaxCreates = 1
  PROVE  V6!Spec => []MutexInv
<1>1. V6!Init => MutexInv
  BY InitMutex
     DEF V6!Init, V6!UDPInit, V6!IPInit, TransmitterInit, V6!TransmitterInit
<1>2. MutexInv /\ [V6!Next]_V6!vars => MutexInv'
  BY V6Mutexes
<1> QED
  BY <1>1, <1>2, PTL DEF V6!Spec

\* For any number of threads that wait, poll, abort and send, and one that
\* destroys the transmitter: they hold the mutexes their places in the code need.
THEOREM UDPMutexesSafe ==
  ASSUME MaxCreates = 1
  PROVE  (V4!Spec \/ V6!Spec) => []HoldsWhatItNeeds
<1>1. MutexInv => HoldsWhatItNeeds
  BY DEF MutexInv
<1> QED
  BY <1>1, V4MutexInv, V6MutexInv, PTL

-----------------------------------------------------------------------------
(* Datagrams of our own *)

Datagrams ==
  [host : Hosts, port : Nat, type : Types \cup {"empty"}, from : Sockets \cup {Other}]

\* The sockets that may be in use together with one.
Fellows(s) == IF s \in UserSockets THEN UserSockets ELSE OwnSockets

\* Datagrams whose address tells which of these sockets has sent them, if any.
Telling(s) ==
  {d \in Datagrams :
     \A r \in Fellows(s) :
       boundto[r] # 0 => (d.from = r <=> d.host \in OurHosts /\ d.port = boundto[r])}

\* Packets that are marked as our own if they come from the ports recorded.
TellingPackets ==
  {p \in [host : Hosts, port : Nat, own : BOOLEAN, isrtp : BOOLEAN] :
     p.own <=> p.host \in OurHosts /\ p.port \in {m_rtpPort, m_rtcpPort}}

DatagramInv ==
  /\ \A s \in UserSockets : boundto[s] = UserPorts[s]
  /\ \A r, s \in Sockets : r # s /\ boundto[r] # 0 => boundto[r] # boundto[s]
  /\ created => m_rtpPort = boundto[rtpsock] /\ m_rtcpPort = boundto[rtcpsock]
  /\ inbox \in [Sockets -> Seq(Datagrams)]
  /\ \A s \in Sockets : inbox[s] \in Seq(Telling(s))
  /\ \A s \in OwnSockets : boundto[s] = 0 => inbox[s] = <<>>
  /\ rawpacketlist \in (IF created THEN Seq(TellingPackets) ELSE {<<>>})
  /\ IsFiniteSet(destinations)

portvars == <<created, rtpsock, rtcpsock, closesocketswhendone, m_rtpPort, m_rtcpPort,
              boundto>>

\* What Create has when it succeeds, or had when it fails.
Obtains(pair) ==
  /\ ~created
  /\ Obtain(pair)
  /\ \/ created' = TRUE /\ boundto' = pair.bound
     \/ created' = created /\ boundto' = CLOSESOCKETS(pair)
  /\ UNCHANGED <<inbox, rawpacketlist, destinations>>

\* Raw packets of some datagrams of a socket in use.
Drains(sock) ==
  /\ created
  /\ \E n \in Nat, rtptypes \in SUBSET Types :
       \E place \in [1..n -> DOMAIN inbox[sock]] :
         rawpacketlist' = rawpacketlist \o
           [i \in 1..n |-> RawPacket(inbox[sock][place[i]], rtptypes)]
  /\ inbox' = [inbox EXCEPT ![sock] = <<>>]
  /\ UNCHANGED <<portvars, destinations>>

\* What a step may do to the datagrams and the packets.
DatagramStep ==
  \/ UNCHANGED <<portvars, inbox, rawpacketlist, destinations>>
  \/ \E pair \in Obtainable : Obtains(pair)
  \/ \E t \in Threads : SocketsDestroyed(t)
  \/ \E s \in Sockets, h \in Hosts, port \in Ports, type \in Types \cup {"empty"} :
       Deliver(s, h, port, type)
  \/ \E t \in Threads, sock \in InUse, type \in Types, field \in {"rtp", "rtcp"} :
       SendFrom(t, sock, type, field)
  \/ \E sock \in InUse : Drains(sock)
  \/ /\ created /\ rawpacketlist # <<>> /\ rawpacketlist' = Tail(rawpacketlist)
     /\ UNCHANGED <<portvars, inbox, destinations>>
  \/ /\ \/ destinations' = {}
        \/ \E d \in Destinations :
             destinations' \in {destinations \cup {d}, destinations \ {d}}
     /\ UNCHANGED <<portvars, inbox, rawpacketlist>>

\* At first nothing has come and only the application's sockets have ports.
LEMMA InitDatagrams == UDPInit => DatagramInv
<1> SUFFICES ASSUME UDPInit PROVE DatagramInv
  OBVIOUS
<1>1. /\ created = FALSE /\ rawpacketlist = <<>> /\ destinations = {}
      /\ boundto = [s \in Sockets |-> IF s \in UserSockets THEN UserPorts[s] ELSE 0]
      /\ inbox = [s \in Sockets |-> <<>>]
  BY DEF UDPInit, IPInit, TransmitterInit
<1>2. \A r, s \in Sockets : r # s /\ boundto[r] # 0 => boundto[r] # boundto[s]
  BY <1>1, SocketAssumption DEF Sockets, OwnSockets, UserSockets
<1>3. inbox \in [Sockets -> Seq(Datagrams)] /\ \A s \in Sockets : inbox[s] \in Seq(Telling(s))
  BY <1>1
<1>4. IsFiniteSet(destinations)
  BY <1>1, FS_EmptySet
<1> QED
  BY <1>1, <1>2, <1>3, <1>4 DEF DatagramInv, Sockets, UserSockets, OwnSockets

\* The sockets in use are open, and fellows of each other.
LEMMA SocketsInUse ==
  ASSUME SocketInv, created, NEW sock \in InUse
  PROVE  /\ sock \in Sockets /\ boundto[sock] # 0
         /\ InUse \subseteq Fellows(sock) /\ Fellows(sock) \subseteq Sockets
<1>1. sock \in Sockets /\ InUse \subseteq Sockets
  BY DEF SocketInv, InUse
<1>2. boundto[sock] # 0
  BY <1>1 DEF SocketInv, SocketsReleased, Sockets
<1>3. InUse \subseteq Fellows(sock)
  BY <1>1 DEF SocketInv, Fellows, OwnSockets, UserSockets, Sockets
<1> QED
  BY <1>1, <1>2, <1>3 DEF Fellows, Sockets

\* The ports of a pair that Create obtains: the application's stay, all are
\* different, and those recorded are those of the sockets.
LEMMA PairPorts ==
  ASSUME SocketInv, DatagramInv, ~created, NEW pair \in Obtainable
  PROVE  /\ \A s \in UserSockets : pair.bound[s] = boundto[s]
         /\ \A r, s \in Sockets :
              r # s /\ pair.bound[r] # 0 => pair.bound[r] # pair.bound[s]
         /\ pair.ports[1] = pair.bound[pair.rtp] /\ pair.ports[2] = pair.bound[pair.rtcp]
<1>1. /\ boundto \in [Sockets -> Nat]
      /\ \A s \in Sockets : boundto[s] # 0 <=> s \in UserSockets
      /\ \A r, s \in Sockets : r # s /\ boundto[r] # 0 => boundto[r] # boundto[s]
  BY DEF SocketInv, SocketsReleased, UserSockets, Sockets, DatagramInv
<1>2. CASE pair \in UserPairs
  <2>1. PICK s \in UserSockets :
          pair = [rtp |-> "user1", rtcp |-> s, own |-> FALSE,
                  ports |-> <<boundto["user1"], boundto[s]>>, bound |-> boundto]
    BY <1>2 DEF UserPairs
  <2> QED
    BY <1>1, <2>1
<1>3. CASE pair \notin UserPairs
  <2>1. PICK mux \in BOOLEAN : pair \in OwnPairs(PortPairs(mux), mux)
    BY <1>3 DEF Obtainable
  <2> DEFINE rtcp == IF mux THEN "own1" ELSE "own2"
  <2>2. PICK p \in PortPairs(mux) :
          /\ Bindable(p, mux)
          /\ pair = [rtp |-> "own1", rtcp |-> rtcp, own |-> TRUE, ports |-> p,
                     bound |-> [boundto EXCEPT !["own1"] = p[1], ![rtcp] = p[2]]]
    BY <2>1 DEF OwnPairs
  <2>3. /\ pair.rtp = "own1" /\ pair.rtcp = rtcp /\ pair.ports = p
        /\ pair.bound = [boundto EXCEPT !["own1"] = p[1], ![rtcp] = p[2]]
    BY <2>2
  <2>4. /\ p[1] \in Nat \ {0} /\ p[2] \in Nat \ {0} /\ (mux <=> p[1] = p[2])
        /\ \A s \in UserSockets : boundto[s] # p[1] /\ boundto[s] # p[2]
    BY <2>2 DEF Bindable, PortPairs
  <2>5. \A s \in Sockets :
          pair.bound[s] = IF s = rtcp THEN p[2]
                          ELSE IF s = "own1" THEN p[1] ELSE boundto[s]
    BY <1>1, <2>3
  <2>6. \A s \in UserSockets : pair.bound[s] = boundto[s]
    BY <2>5 DEF UserSockets, Sockets
  <2>7. pair.bound["own1"] = p[1] /\ pair.bound[rtcp] = p[2]
    BY <2>4, <2>5 DEF OwnSockets, Sockets
  <2>8. \A s \in OwnSockets \ {"own1", rtcp} : pair.bound[s] = 0
    BY <1>1, <2>5 DEF UserSockets, OwnSockets, Sockets
  <2>9. \A r, s \in Sockets :
          r # s /\ pair.bound[r] # 0 => pair.bound[r] # pair.bound[s]
    <3>1. CASE mux
      BY <1>1, <2>4, <2>6, <2>7, <2>8, <3>1 DEF UserSockets, OwnSockets, Sockets
    <3>2. CASE ~mux
      BY <1>1, <2>4, <2>6, <2>7, <2>8, <3>2 DEF UserSockets, OwnSockets, Sockets
    <3> QED
      BY <3>1, <3>2
  <2> QED
    BY <2>3, <2>6, <2>7, <2>9
<1> QED
  BY <1>2, <1>3

\* There is an empty sequence over each set.
LEMMA EmptyIn == \A A : <<>> \in Seq(A)
  OBVIOUS

\* Opening sockets, and giving them up.
LEMMA ObtainsStep ==
  ASSUME SocketInv, DatagramInv, NEW pair \in Obtainable, Obtains(pair)
  PROVE  DatagramInv'
<1>1. /\ ~created /\ UNCHANGED <<inbox, rawpacketlist, destinations>>
      /\ rtpsock' = pair.rtp /\ rtcpsock' = pair.rtcp
      /\ m_rtpPort' = pair.ports[1] /\ m_rtcpPort' = pair.ports[2]
  BY DEF Obtains, Obtain
<1>2. /\ \A s \in UserSockets : pair.bound[s] = boundto[s]
      /\ \A r, s \in Sockets :
           r # s /\ pair.bound[r] # 0 => pair.bound[r] # pair.bound[s]
      /\ pair.ports[1] = pair.bound[pair.rtp] /\ pair.ports[2] = pair.bound[pair.rtcp]
  BY <1>1, PairPorts
<1>3. /\ pair.own \in BOOLEAN /\ pair.rtp \in Sockets /\ pair.rtcp \in Sockets
      /\ {pair.rtp, pair.rtcp} \subseteq (IF pair.own THEN OwnSockets ELSE UserSockets)
      /\ pair.bound \in [Sockets -> Nat]
      /\ \A s \in Sockets : pair.bound[s] # 0 <=>
           s \in UserSockets \cup (IF pair.own THEN {pair.rtp, pair.rtcp} ELSE {})
  BY <1>1, Pairs
<1>4. \A s \in OwnSockets : boundto[s] = 0 /\ inbox[s] = <<>>
  BY <1>1 DEF SocketInv, SocketsReleased, DatagramInv, OwnSockets, UserSockets, Sockets
<1>5. /\ \A s \in UserSockets : boundto'[s] = UserPorts[s] /\ boundto'[s] = boundto[s]
      /\ \A r, s \in Sockets : r # s /\ boundto'[r] # 0 => boundto'[r] # boundto'[s]
      /\ created' => m_rtpPort' = boundto'[rtpsock'] /\ m_rtcpPort' = boundto'[rtcpsock']
  <2>1. CASE created' = TRUE /\ boundto' = pair.bound
    BY <1>1, <1>2, <2>1 DEF DatagramInv
  <2>2. CASE created' = created /\ boundto' = CLOSESOCKETS(pair)
    <3>1. \A s \in UserSockets : s \in Sockets /\ boundto'[s] = pair.bound[s]
      BY <1>3, <2>2 DEF CLOSESOCKETS, UserSockets, OwnSockets, Sockets
    <3>2. \A s \in Sockets : boundto'[s] \in {0, pair.bound[s]}
      BY <2>2 DEF CLOSESOCKETS
    <3> QED
      BY <1>1, <1>2, <2>2, <3>1, <3>2 DEF DatagramInv
  <2> QED
    BY <2>1, <2>2 DEF Obtains
<1>6. \A s \in Sockets : inbox'[s] \in Seq(Telling(s)')
  <2> TAKE s \in Sockets
  <2>1. CASE s \in UserSockets
    <3>1. \A r \in Fellows(s) : boundto'[r] = boundto[r]
      BY <1>5, <2>1 DEF Fellows
    <3>2. Telling(s)' = Telling(s)
      BY <3>1 DEF Telling, Fellows
    <3> QED
      BY <1>1, <3>2 DEF DatagramInv
  <2>2. CASE s \in OwnSockets
    <3>1. inbox'[s] = <<>>
      BY <1>1, <1>4, <2>2
    <3> QED
      BY <3>1, EmptyIn
  <2> QED
    BY <2>1, <2>2 DEF Sockets
<1>7. rawpacketlist' \in (IF created' THEN Seq(TellingPackets') ELSE {<<>>})
  BY <1>1 DEF DatagramInv
<1> QED
  BY <1>1, <1>4, <1>5, <1>6, <1>7 DEF DatagramInv

\* Destroying the transmitter loses what was queued in its own sockets.
LEMMA DestroyedDatagrams ==
  ASSUME SocketInv, DatagramInv, NEW t \in Threads, SocketsDestroyed(t)
  PROVE  DatagramInv'
<1>1. /\ created' = FALSE /\ rawpacketlist' = <<>> /\ destinations' = {}
      /\ UNCHANGED <<rtpsock, rtcpsock, m_rtpPort, m_rtcpPort>>
      /\ inbox' = [s \in Sockets |-> IF boundto'[s] = 0 THEN <<>> ELSE inbox[s]]
      /\ boundto' = [s \in Sockets |->
           IF closesocketswhendone /\ s \in {rtpsock, rtcpsock} THEN 0 ELSE boundto[s]]
  BY DEF SocketsDestroyed, Destroyed, AddressesDestroyed, CLOSESOCKETS, sockvars
<1>2. \A s \in UserSockets : s \in Sockets /\ boundto'[s] = boundto[s]
  BY <1>1 DEF SocketInv, InUse, OwnSockets, UserSockets, Sockets
<1>3. \A s \in OwnSockets : s \in Sockets /\ boundto'[s] = 0
  BY <1>1 DEF SocketInv, SocketsReleased, InUse, OwnSockets, UserSockets, Sockets
<1>4. \A s \in Sockets : inbox'[s] \in Seq(Telling(s)') /\ inbox'[s] \in Seq(Datagrams)
  <2> TAKE s \in Sockets
  <2>1. CASE s \in UserSockets
    <3>1. \A r \in Fellows(s) : boundto'[r] = boundto[r]
      BY <1>2, <2>1 DEF Fellows
    <3>2. Telling(s)' = Telling(s)
      BY <3>1 DEF Telling, Fellows
    <3>3. inbox[s] \in Seq(Telling(s)) /\ inbox[s] \in Seq(Datagrams)
      BY DEF DatagramInv
    <3> QED
      BY <1>1, <3>2, <3>3
  <2>2. CASE s \in OwnSockets
    <3>1. inbox'[s] = <<>>
      BY <1>1, <1>3, <2>2
    <3> QED
      BY <3>1, EmptyIn
  <2> QED
    BY <2>1, <2>2 DEF Sockets
<1>5. \A r, s \in Sockets : r # s /\ boundto'[r] # 0 => boundto'[r] # boundto'[s]
  BY <1>1 DEF DatagramInv
<1>6. inbox' \in [Sockets -> Seq(Datagrams)]
  BY <1>1, <1>4
<1>7. \A s \in OwnSockets : inbox'[s] = <<>>
  BY <1>1, <1>3
<1> QED
  BY <1>1, <1>2, <1>4, <1>5, <1>6, <1>7, FS_EmptySet DEF DatagramInv

\* A datagram of others comes from a port that is not ours.
LEMMA DeliverStep ==
  ASSUME DatagramInv, NEW s \in Sockets, NEW h \in Hosts, NEW port \in Ports,
         NEW type \in Types \cup {"empty"}, Deliver(s, h, port, type)
  PROVE  DatagramInv'
<1> DEFINE d == [host |-> h, port |-> port, type |-> type, from |-> Other]
<1>1. /\ inbox' = [inbox EXCEPT ![s] = Append(@, d)]
      /\ UNCHANGED <<created, rtpsock, rtcpsock, m_rtpPort, m_rtcpPort, boundto>>
      /\ UNCHANGED <<rawpacketlist, destinations>>
      /\ boundto[s] # 0
      /\ h \in OurHosts => \A r \in Sockets : port # boundto[r]
  BY DEF Deliver, commonvars, lifevars, datavars, ipvars, sockvars
<1>2. d \in Datagrams
  BY IPAssumption DEF Datagrams
<1>3. d \in Telling(s)
  <2>1. \A r \in Fellows(s) : r \in Sockets /\ r # Other
    BY DEF Fellows, Sockets, OwnSockets, UserSockets, Other
  <2> QED
    BY <1>1, <1>2, <2>1 DEF Telling
<1>4. \A r : Telling(r)' = Telling(r)
  BY <1>1 DEF Telling, Fellows
<1> HIDE DEF d
<1>5. Append(inbox[s], d) \in Seq(Datagrams) /\ Append(inbox[s], d) \in Seq(Telling(s))
  <2>1. inbox[s] \in Seq(Datagrams) /\ inbox[s] \in Seq(Telling(s))
    BY DEF DatagramInv
  <2> QED
    BY <1>2, <1>3, <2>1, AppendProperties
<1>6. \A r \in Sockets : inbox'[r] = IF r = s THEN Append(inbox[s], d) ELSE inbox[r]
  BY <1>1 DEF DatagramInv
<1>7. inbox' \in [Sockets -> Seq(Datagrams)]
  BY <1>1, <1>5 DEF DatagramInv
<1>8. TellingPackets' = TellingPackets
  BY <1>1 DEF TellingPackets
<1>9. \A r \in Sockets : inbox'[r] \in Seq(Telling(r)')
  BY <1>4, <1>5, <1>6 DEF DatagramInv
<1>10. \A r \in OwnSockets : boundto'[r] = 0 => inbox'[r] = <<>>
  BY <1>1, <1>6 DEF DatagramInv, Sockets
<1> QED
  BY <1>1, <1>7, <1>8, <1>9, <1>10 DEF DatagramInv

\* The elements of a finite set in some order.
LEMMA Ordered ==
  ASSUME NEW S, IsFiniteSet(S)
  PROVE  SetToSeq(S) \in Seq(S)
<1>1. Cardinality(S) \in Nat /\ ExistsBijection(1..Cardinality(S), S)
  BY FS_CardinalityType
<1>2. \E f \in [1..Cardinality(S) -> S] : IsInjective(f)
  BY <1>1 DEF ExistsBijection, Bijection, Injection, IsInjective
<1>3. SetToSeq(S) \in [1..Cardinality(S) -> S]
  BY <1>2 DEF SetToSeq
<1> QED
  BY <1>1, <1>3

\* What comes back of what was sent from a socket has its address and mark.
LEMMA SendStep ==
  ASSUME SocketInv, DatagramInv, NEW t \in Threads, NEW sock \in InUse,
         NEW type \in Types, NEW field, SendFrom(t, sock, type, field)
  PROVE  DatagramInv'
<1> DEFINE back(s) == {[host |-> d.host, port |-> boundto[sock], type |-> type,
                         from |-> sock] :
                         d \in {e \in destinations : s \in Receivers(e.host, e[field])}}
           queued(s) == inbox[s] \o SetToSeq(back(s))
<1>1. /\ created
      /\ inbox' = [s \in Sockets |->
                     IF Len(queued(s)) <= MaxInbox THEN queued(s) ELSE inbox[s]]
      /\ UNCHANGED <<created, rtpsock, rtcpsock, m_rtpPort, m_rtcpPort, boundto>>
      /\ UNCHANGED <<rawpacketlist, destinations>>
  BY DEF SendFrom, Works, commonvars, lifevars, datavars, ipvars, sockvars
<1>2. sock \in Sockets /\ boundto[sock] # 0
  BY <1>1, SocketsInUse
<1>3. ASSUME NEW s \in Sockets
      PROVE  /\ IsFiniteSet(back(s))
             /\ \A d \in back(s) : d \in Telling(s)
             /\ back(s) # {} => boundto[s] # 0
  <2>1. IsFiniteSet({e \in destinations : s \in Receivers(e.host, e[field])})
    <3>1. {e \in destinations : s \in Receivers(e.host, e[field])} \subseteq destinations
      OBVIOUS
    <3> QED
      BY <3>1, FS_Subset DEF DatagramInv
  <2>2. IsFiniteSet(back(s))
    <3> DEFINE E == {e \in destinations : s \in Receivers(e.host, e[field])}
               f == [e \in E |-> [host |-> e.host, port |-> boundto[sock],
                                  type |-> type, from |-> sock]]
    <3>1. f \in [E -> back(s)] /\ \A d \in back(s) : \E e \in E : f[e] = d
      OBVIOUS
    <3>2. IsFiniteSet(E)
      BY <2>1
    <3> HIDE DEF f, E, back
    <3>3. f \in Surjection(E, back(s))
      BY <3>1 DEF Surjection
    <3> QED
      BY <3>2, <3>3, FS_Surjection
  <2>3. ASSUME NEW d \in back(s)
        PROVE  d \in Telling(s) /\ boundto[s] # 0
    <3>1. PICK e \in destinations :
            /\ s \in Receivers(e.host, e[field])
            /\ d = [host |-> e.host, port |-> boundto[sock], type |-> type, from |-> sock]
      OBVIOUS
    <3>2. e.host \in OurHosts /\ e.host \in Hosts /\ boundto[s] # 0
      BY <3>1, IPAssumption DEF Receivers
    <3>3. d \in Datagrams
      BY <1>2, <3>1, <3>2 DEF Datagrams, SocketInv
    <3>4. \A r \in Fellows(s) : boundto[r] # 0 => (sock = r <=> boundto[sock] = boundto[r])
      BY <1>2 DEF DatagramInv, Fellows, Sockets
    <3> QED
      BY <3>1, <3>2, <3>3, <3>4 DEF Telling
  <2> QED
    BY <2>2, <2>3
<1>4. \A r : Telling(r)' = Telling(r)
  BY <1>1 DEF Telling, Fellows
<1>5. ASSUME NEW s \in Sockets
      PROVE  /\ inbox'[s] \in Seq(Telling(s)) /\ inbox'[s] \in Seq(Datagrams)
             /\ boundto[s] = 0 => inbox'[s] = inbox[s]
  <2> DEFINE q == SetToSeq(back(s))
  <2>1. q \in Seq(back(s))
    <3> HIDE DEF back
    <3> QED
      BY <1>3, Ordered
  <2>2. q \in Seq(Telling(s)) /\ q \in Seq(Datagrams) /\ (boundto[s] = 0 => q = <<>>)
    <3> HIDE DEF q, back
    <3>1. \A i \in 1..Len(q) : q[i] \in Telling(s) /\ q[i] \in Datagrams
      BY <1>3, <2>1 DEF Telling
    <3>2. q = [i \in 1..Len(q) |-> q[i]] /\ Len(q) \in Nat
      BY <2>1
    <3>3. boundto[s] = 0 => Len(q) = 0
      BY <1>3, <2>1
    <3> QED
      BY <3>1, <3>2, <3>3
  <2> HIDE DEF q
  <2>3. inbox[s] \in Seq(Telling(s)) /\ inbox[s] \in Seq(Datagrams)
    BY DEF DatagramInv
  <2>4. inbox'[s] = inbox[s] \/ inbox'[s] = inbox[s] \o q
    BY <1>1 DEF q
  <2>5. /\ inbox[s] \o q \in Seq(Telling(s)) /\ inbox[s] \o q \in Seq(Datagrams)
        /\ boundto[s] = 0 => inbox[s] \o q = inbox[s]
    BY <2>2, <2>3, ConcatProperties, ConcatEmptySeq
  <2> QED
    BY <2>3, <2>4, <2>5
<1> HIDE DEF back, queued
<1>6. inbox' \in [Sockets -> Seq(Datagrams)]
  <2>1. DOMAIN inbox' = Sockets /\ inbox' = [s \in Sockets |-> inbox'[s]]
    BY <1>1
  <2> QED
    BY <1>5, <2>1
<1>7. TellingPackets' = TellingPackets
  BY <1>1 DEF TellingPackets
<1>8. \A s \in Sockets : inbox'[s] \in Seq(Telling(s)')
  BY <1>4, <1>5
<1>9. \A s \in OwnSockets : boundto'[s] = 0 => inbox'[s] = <<>>
  BY <1>1, <1>5 DEF DatagramInv, Sockets
<1> QED
  BY <1>1, <1>6, <1>7, <1>8, <1>9 DEF DatagramInv

\* The raw packets of what has come to a socket in use tell where they are from.
LEMMA DrainStep ==
  ASSUME SocketInv, DatagramInv, NEW sock \in InUse, Drains(sock)
  PROVE  DatagramInv'
<1>1. /\ created /\ inbox' = [inbox EXCEPT ![sock] = <<>>]
      /\ UNCHANGED <<created, rtpsock, rtcpsock, m_rtpPort, m_rtcpPort, boundto, destinations>>
  BY DEF Drains, portvars
<1>2. sock \in Sockets /\ InUse \subseteq Fellows(sock) /\ \A r \in InUse : boundto[r] # 0
  BY <1>1, SocketsInUse
<1>3. PICK n \in Nat, rtptypes \in SUBSET Types :
        \E place \in [1..n -> DOMAIN inbox[sock]] :
          rawpacketlist' = rawpacketlist \o
            [i \in 1..n |-> RawPacket(inbox[sock][place[i]], rtptypes)]
  BY DEF Drains
<1>4. PICK place \in [1..n -> DOMAIN inbox[sock]] :
        rawpacketlist' = rawpacketlist \o
          [i \in 1..n |-> RawPacket(inbox[sock][place[i]], rtptypes)]
  BY <1>3
<1>5. ASSUME NEW d \in Telling(sock)
      PROVE  RawPacket(d, rtptypes) \in TellingPackets
  <2>1. \A r \in InUse : d.from = r <=> d.host \in OurHosts /\ d.port = boundto[r]
    BY <1>2 DEF Telling
  <2>2. d.from \in InUse <=> d.host \in OurHosts /\ d.port \in {m_rtpPort, m_rtcpPort}
    BY <1>1, <2>1 DEF InUse, DatagramInv
  <2>3. d.host \in Hosts /\ d.port \in Nat
    BY DEF Telling, Datagrams
  <2>4. (d.from \in InUse) \in BOOLEAN /\ (d.type \in rtptypes) \in BOOLEAN
    OBVIOUS
  <2> QED
    BY <2>2, <2>3, <2>4 DEF RawPacket, TellingPackets
<1> DEFINE new == [i \in 1..n |-> RawPacket(inbox[sock][place[i]], rtptypes)]
<1>6. new \in Seq(TellingPackets)
  <2>1. inbox[sock] \in Seq(Telling(sock))
    BY <1>2 DEF DatagramInv
  <2>2. \A i \in 1..n : inbox[sock][place[i]] \in Telling(sock)
    BY <2>1
  <2>3. \A i \in 1..n : RawPacket(inbox[sock][place[i]], rtptypes) \in TellingPackets
    BY <1>5, <2>2
  <2> QED
    BY <2>3
<1> HIDE DEF new
<1>7. rawpacketlist' \in Seq(TellingPackets)
  <2>1. rawpacketlist' = rawpacketlist \o new
    BY <1>4 DEF new
  <2>2. rawpacketlist \in Seq(TellingPackets)
    BY <1>1 DEF DatagramInv
  <2> QED
    BY <1>6, <2>1, <2>2, ConcatProperties
<1>8. \A r : Telling(r)' = Telling(r)
  BY <1>1 DEF Telling, Fellows
<1>9. TellingPackets' = TellingPackets
  BY <1>1 DEF TellingPackets
<1>10. \A r \in Sockets : inbox'[r] = IF r = sock THEN <<>> ELSE inbox[r]
  BY <1>1 DEF DatagramInv
<1>11. inbox' \in [Sockets -> Seq(Datagrams)]
  BY <1>1, EmptyIn DEF DatagramInv
<1>12. \A r \in Sockets : inbox'[r] \in Seq(Telling(r)')
  BY <1>8, <1>10, EmptyIn DEF DatagramInv
<1>13. \A r \in OwnSockets : boundto'[r] = 0 => inbox'[r] = <<>>
  BY <1>1, <1>10 DEF DatagramInv, Sockets
<1> QED
  BY <1>1, <1>7, <1>9, <1>11, <1>12, <1>13 DEF DatagramInv

\* Every step.
LEMMA KeepsDatagrams == SocketInv /\ DatagramInv /\ DatagramStep => DatagramInv'
<1> SUFFICES ASSUME SocketInv, DatagramInv, DatagramStep PROVE DatagramInv'
  OBVIOUS
<1>1. ASSUME UNCHANGED <<portvars, inbox>>, IsFiniteSet(destinations'),
             rawpacketlist' \in (IF created THEN Seq(TellingPackets) ELSE {<<>>})
      PROVE  DatagramInv'
  <2>1. /\ UNCHANGED <<created, rtpsock, rtcpsock, m_rtpPort, m_rtcpPort, boundto, inbox>>
        /\ TellingPackets' = TellingPackets /\ \A s : Telling(s)' = Telling(s)
    BY <1>1 DEF portvars, Telling, TellingPackets, Fellows
  <2> QED
    BY <1>1, <2>1 DEF DatagramInv
<1>2. /\ IsFiniteSet(destinations)
      /\ rawpacketlist \in (IF created THEN Seq(TellingPackets) ELSE {<<>>})
  BY DEF DatagramInv
<1>3. CASE UNCHANGED <<portvars, inbox, rawpacketlist, destinations>>
  BY <1>1, <1>2, <1>3
<1>4. CASE /\ created /\ rawpacketlist # <<>> /\ rawpacketlist' = Tail(rawpacketlist)
           /\ UNCHANGED <<portvars, inbox, destinations>>
  <2>1. Tail(rawpacketlist) \in Seq(TellingPackets)
    BY <1>2, <1>4
  <2> QED
    BY <1>1, <1>2, <1>4, <2>1
<1>5. CASE /\ \/ destinations' = {}
              \/ \E d \in Destinations :
                   destinations' \in {destinations \cup {d}, destinations \ {d}}
           /\ UNCHANGED <<portvars, inbox, rawpacketlist>>
  <2>1. IsFiniteSet(destinations')
    BY <1>2, <1>5, FS_AddElement, FS_RemoveElement, FS_EmptySet
  <2> QED
    BY <1>1, <1>2, <1>5, <2>1
<1> QED
  BY <1>3, <1>4, <1>5, ObtainsStep, DestroyedDatagrams, DeliverStep, SendStep, DrainStep
     DEF DatagramStep

\* Polling takes out of a socket in use what PollSocket keeps.
LEMMA DrainsBy ==
  ASSUME SocketInv, DatagramInv, created, NEW sock \in InUse, NEW accepted,
         NEW rtptypes \in SUBSET Types, Drain(sock, accepted, rtptypes),
         UNCHANGED <<portvars, destinations>>
  PROVE  Drains(sock)
<1> DEFINE kept == {i \in DOMAIN inbox[sock] :
                      inbox[sock][i] \in accepted /\ inbox[sock][i].type # "empty"}
<1>1. Cardinality(kept) \in Nat
  <2>1. sock \in Sockets
    BY SocketsInUse
  <2>2. DOMAIN inbox[sock] = 1..Len(inbox[sock]) /\ Len(inbox[sock]) \in Nat
    BY <2>1 DEF DatagramInv
  <2>3. kept \subseteq 1..Len(inbox[sock])
    BY <2>2
  <2> HIDE DEF kept
  <2>4. IsFiniteSet(1..Len(inbox[sock]))
    <3>1. 1 \in Int /\ Len(inbox[sock]) \in Int
      BY <2>2
    <3> QED
      BY <3>1, FS_Interval
  <2>5. IsFiniteSet(kept)
    BY <2>3, <2>4, FS_Subset
  <2> QED
    BY <2>5, FS_CardinalityType
<1>2. PICK place \in [1..Cardinality(kept) -> kept] :
        rawpacketlist' = rawpacketlist \o
          [i \in DOMAIN place |-> RawPacket(inbox[sock][place[i]], rtptypes)]
  BY DEF Drain
<1>3. /\ place \in [1..Cardinality(kept) -> DOMAIN inbox[sock]]
      /\ DOMAIN place = 1..Cardinality(kept)
  OBVIOUS
<1>4. inbox' = [inbox EXCEPT ![sock] = <<>>]
  BY DEF Drain
<1> HIDE DEF kept
<1> QED
  BY <1>1, <1>2, <1>3, <1>4 DEF Drains

\* A thread between the two sockets polls a transmitter in use.
PollingInv ==
  /\ at \in [Threads -> Locations]
  /\ \A t \in Threads : at[t] = "polling" => created

\* What a step may do to the places of threads and the life of the transmitter.
PollingStep ==
  /\ \/ UNCHANGED at
     \/ \E t \in Threads, l \in Locations :
          Goto(t, l) /\ (l = "polling" => created /\ created')
  /\ created /\ ~created' => \E t \in Threads : Enters(t)

\* Threads that hold the mutexes as they need to, or only one thread.
Orderly == HoldsWhatItNeeds \/ \A s, t \in Threads : s = t

\* Nobody destroys the transmitter while another polls it.
LEMMA KeepsPolling == PollingInv /\ Orderly /\ PollingStep => PollingInv'
<1> SUFFICES ASSUME PollingInv, Orderly, PollingStep PROVE PollingInv'
  OBVIOUS
<1>1. at' \in [Threads -> Locations]
  BY DEF PollingInv, PollingStep, Goto
<1>2. CASE created /\ ~created'
  <2>1. PICK t \in Threads : at[t] = "outside" /\ mainmutex = Nobody
    BY <1>2 DEF PollingStep, Enters
  <2>2. \A s \in Threads : at[s] # "polling"
    BY <2>1, TransmitterAssumption DEF Orderly, HoldsWhatItNeeds
  <2> QED
    BY <1>1, <1>2, <2>2 DEF PollingInv, PollingStep, Goto
<1>3. CASE ~(created /\ ~created')
  BY <1>1, <1>3 DEF PollingInv, PollingStep, Goto
<1> QED
  BY <1>2, <1>3

\* Counting is the same in each transmitter's module.
LEMMA SameCount ==
  \A S : V4!Cardinality(S) = Cardinality(S) /\ V6!Cardinality(S) = Cardinality(S)
  BY Zenon DEF V4!Cardinality, V6!Cardinality, Cardinality

\* Polling of RTPUDPv4Transmitter, from either socket.
LEMMA V4Drains ==
  ASSUME SocketInv, DatagramInv, created, NEW rtp \in BOOLEAN, V4!PollSocket(rtp),
         UNCHANGED <<portvars, destinations>>
  PROVE  DatagramStep
<1> DEFINE sock == IF rtp THEN rtpsock ELSE rtcpsock
           rtptypes == IF rtpsock = rtcpsock THEN {"RTP"} ELSE IF rtp THEN Types ELSE {}
<1>1. sock \in InUse
  BY DEF InUse
<1>2. rtptypes \in SUBSET Types
  BY DEF Types
<1>3. PICK accepted : V4!Drain(sock, accepted, rtptypes)
  BY DEF V4!PollSocket, V4!Types, Types, V4!Multiplexing
<1> HIDE DEF sock, rtptypes
<1>4. Drain(sock, accepted, rtptypes)
  BY <1>3, SameCount DEF V4!Drain, Drain, V4!RawPacket, RawPacket, V4!InUse, InUse
<1>5. Drains(sock)
  BY <1>1, <1>2, <1>4, DrainsBy
<1> QED
  BY <1>1, <1>5 DEF DatagramStep

\* Create and Destroy of RTPUDPv4Transmitter.
LEMMA V4LifeDatagrams ==
  ASSUME NEW t \in Threads, V4!LifeCycle(t)
  PROVE  DatagramStep
<1>1. CASE V4!Create(t)
  <2>1. PICK pair \in V4!CreateSockets :
          \/ V4!SocketsGivenUp(pair)
          \/ \E own \in BOOLEAN, ips \in V4!CreateLocalIPList :
               V4!SocketsCreated(pair, own, ips)
    BY <1>1 DEF V4!Create
  <2>2. ~created
    BY <1>1 DEF V4!Create, V4!MayCreate
  <2>3. pair \in Obtainable
    BY V4Pairs
  <2>4. CASE V4!SocketsGivenUp(pair)
    <3>1. Obtains(pair)
      BY <2>2, <2>4
         DEF V4!SocketsGivenUp, V4!Obtain, V4!CreateFailed, Obtains, Obtain,
             V4!CLOSESOCKETS, CLOSESOCKETS, V4!Sockets, V4!OwnSockets,
             V4!UserSockets, Sockets, OwnSockets, UserSockets, V4!datavars,
             V4!ipvars
    <3> QED
      BY <2>3, <3>1 DEF DatagramStep
  <2>5. ASSUME NEW own, NEW ips, V4!SocketsCreated(pair, own, ips) PROVE DatagramStep
    <3>1. Obtains(pair)
      BY <2>2, <2>5
         DEF V4!SocketsCreated, V4!Obtain, V4!Created, V4!AddressesCreated, Obtains,
             Obtain
    <3> QED
      BY <2>3, <3>1 DEF DatagramStep
  <2> QED
    BY <2>1, <2>4, <2>5
<1>2. CASE V4!Destroy(t)
  <2>1. SocketsDestroyed(t)
    BY <1>2
       DEF V4!Destroy, V4!SocketsDestroyed, V4!Destroyed, V4!AddressesDestroyed,
           V4!EmptyList, V4!NoPorts, V4!CLOSESOCKETS, V4!Sockets, V4!OwnSockets,
           V4!UserSockets, V4!sockvars, V4!Works, V4!Enters, V4!Goto,
           V4!SendAbortSignal, V4!mutexvars, V4!ForgetHostName, ForgetHostName,
           SocketsDestroyed, Destroyed,
           AddressesDestroyed, EmptyList, NoPorts, CLOSESOCKETS, Sockets,
           OwnSockets, UserSockets, sockvars, Works, Enters, Goto,
           SendAbortSignal, mutexvars
  <2> QED
    BY <2>1 DEF DatagramStep
<1>3. CASE V4!GetLocalHostName(t)
  BY <1>3
     DEF V4!GetLocalHostName, V4!NameHost, V4!lifevars, V4!udpvars, V4!sockvars,
         V4!sysvars, V4!ipvars, DatagramStep, portvars
<1> QED
  BY <1>1, <1>2, <1>3 DEF V4!LifeCycle

\* What RTPUDPv4Transmitter sends.
LEMMA V4Sends ==
  ASSUME NEW t \in Threads, V4!SendRTPData(t) \/ V4!SendRTCPData(t)
  PROVE  DatagramStep
<1>1. PICK sock \in InUse, type \in Types, field \in {"rtp", "rtcp"} :
        V4!SendFrom(t, sock, type, field)
  BY DEF V4!SendRTPData, V4!SendRTCPData, InUse, Types
<1>2. \A S : V4!SetToSeq(S) = SetToSeq(S)
  BY Zenon
     DEF V4!SetToSeq, SetToSeq, V4!IsInjective, IsInjective, V4!Cardinality,
         Cardinality
<1>3. SendFrom(t, sock, type, field)
  BY <1>1, <1>2
     DEF V4!SendFrom, V4!Receivers, V4!Works, V4!Enters, V4!Sockets,
         V4!OwnSockets, V4!UserSockets, V4!commonvars, V4!lifevars, V4!mutexvars,
         V4!waitvars, V4!datavars, V4!ipvars, V4!sockvars, SendFrom, Receivers,
         Works, Enters, Sockets, OwnSockets, UserSockets, commonvars, lifevars,
         mutexvars, waitvars, datavars, ipvars, sockvars
<1> QED
  BY <1>3 DEF DatagramStep

\* Every handler of RTPUDPv4Transmitter.
LEMMA V4Datagrams ==
  SocketInv /\ DatagramInv /\ PollingInv /\ [V4!Next]_V4!vars => DatagramStep
<1> SUFFICES ASSUME SocketInv, DatagramInv, PollingInv, [V4!Next]_V4!vars
             PROVE  DatagramStep
  OBVIOUS
<1> USE DEF V4!commonvars, V4!lifevars, V4!datavars, V4!ipvars, V4!udpvars,
            V4!sockvars, V4!sysvars, portvars
<1>0. UNCHANGED <<portvars, inbox, rawpacketlist, destinations>> => DatagramStep
  BY DEF DatagramStep
<1>1. CASE V4!Arriving
  <2>1. PICK s \in Sockets, h \in Hosts, port \in Ports, type \in Types \cup {"empty"} :
          V4!Deliver(s, h, port, type)
    BY <1>1
       DEF V4!Arriving, V4!Sockets, V4!OwnSockets, V4!UserSockets, V4!Types, Sockets,
           OwnSockets, UserSockets, Types
  <2>2. Deliver(s, h, port, type)
    BY <2>1
       DEF V4!Deliver, V4!InUse, V4!Other, V4!Sockets, V4!OwnSockets,
           V4!UserSockets, V4!mutexvars, V4!waitvars, Deliver, InUse, Other, Sockets,
           OwnSockets, UserSockets, commonvars, lifevars, mutexvars, waitvars,
           datavars, ipvars, sockvars
  <2> QED
    BY <2>2 DEF DatagramStep
<1>2. ASSUME NEW t \in Threads, V4!Step(t) PROVE DatagramStep
  <2>1. CASE V4!PollRTCP(t)
    <3>1. created /\ V4!PollSocket(FALSE) /\ UNCHANGED <<portvars, destinations>>
      BY <2>1 DEF V4!PollRTCP, V4!PollAgain, PollingInv
    <3> QED
      BY <3>1, V4Drains
  <2>2. CASE V4!WaitStep(t) \/ V4!DestroyWaitsForWait(t) \/ V4!DestroyEnds(t)
    BY <1>0, <2>2
       DEF V4!WaitStep, V4!LockWaitMutex, V4!RTPSelect, V4!Woken, V4!ReadAbort,
           V4!UnlockWaitMutex, V4!DestroyWaitsForWait, V4!DestroyWaits,
           V4!DestroyEnds, V4!DestroyUnlocks
  <2> QED
    BY <1>2, <2>1, <2>2 DEF V4!Step
<1>3. ASSUME NEW t \in Threads, V4!LifeCycle(t) PROVE DatagramStep
  BY <1>3, V4LifeDatagrams
<1>4. ASSUME NEW t \in Threads, V4!Waiting(t) PROVE DatagramStep
  BY <1>0, <1>4
     DEF V4!Waiting, V4!WaitForIncomingData, V4!StartWaiting, V4!WaitEnds,
         V4!RTPSelectFails, V4!AbortWait, V4!SignalWaiter
<1>5. ASSUME NEW t \in Threads, V4!Receiving(t) PROVE DatagramStep
  <2>1. CASE V4!Poll(t)
    <3>1. created /\ V4!PollSocket(TRUE) /\ UNCHANGED <<portvars, destinations>>
      BY <2>1 DEF V4!Poll, V4!PollOnce, V4!Works
    <3> QED
      BY <3>1, V4Drains
  <2>2. CASE V4!GetNextPacket(t)
    BY <2>2 DEF V4!GetNextPacket, V4!TakePacket, V4!Works, DatagramStep
  <2> QED
    BY <1>5, <2>1, <2>2 DEF V4!Receiving
<1>6. ASSUME NEW t \in Threads, V4!Sending(t) PROVE DatagramStep
  <2>1. CASE V4!SendRTPData(t) \/ V4!SendRTCPData(t)
    BY <2>1, V4Sends
  <2>2. ASSUME NEW d \in Destinations,
               V4!AddDestination(t, d) \/ V4!DeleteDestination(t, d)
        PROVE  DatagramStep
    BY <2>2
       DEF V4!AddDestination, V4!DeleteDestination, V4!ChangeDestinations, DatagramStep
  <2>3. CASE V4!ClearDestinations(t)
    BY <2>3 DEF V4!ClearDestinations, V4!ChangeDestinations, DatagramStep
  <2> QED
    BY <1>6, <2>1, <2>2, <2>3 DEF V4!Sending
<1>7. ASSUME NEW t \in Threads, V4!Grouping(t) PROVE DatagramStep
  BY <1>0, <1>7
     DEF V4!Grouping, V4!JoinMulticastGroup, V4!LeaveMulticastGroup,
         V4!LeaveAllMulticastGroups, V4!Join, V4!LeaveGroups
<1>8. ASSUME NEW t \in Threads, V4!Filtering(t) PROVE DatagramStep
  BY <1>0, <1>8
     DEF V4!Filtering, V4!SetReceiveMode, V4!ChangeMode, V4!AddToIgnoreList,
         V4!DeleteFromIgnoreList, V4!ClearIgnoreList, V4!AddToAcceptList,
         V4!DeleteFromAcceptList, V4!ClearAcceptList, V4!ListOnly
<1>9. CASE UNCHANGED V4!vars
  BY <1>0, <1>9 DEF V4!vars
<1> QED
  BY <1>1, <1>2, <1>3, <1>4, <1>5, <1>6, <1>7, <1>8, <1>9 DEF V4!Next

\* Where a thread is in RTPUDPv4Transmitter.
LEMMA V4Polling == PollingInv /\ [V4!Next]_V4!vars => PollingStep
<1> SUFFICES ASSUME PollingInv, [V4!Next]_V4!vars PROVE PollingStep
  OBVIOUS
<1> USE DEF V4!commonvars, V4!lifevars, V4!Goto, Goto
<1>0. UNCHANGED <<at, created>> => PollingStep
  BY DEF PollingStep
<1>1. ASSUME NEW t \in Threads, NEW l \in Locations \ {"polling"}, Goto(t, l),
             UNCHANGED created
      PROVE  PollingStep
  BY <1>1 DEF PollingStep
<1>2. CASE V4!Arriving
  BY <1>0, <1>2 DEF V4!Arriving, V4!Deliver
<1>3. ASSUME NEW t \in Threads, V4!Step(t) PROVE PollingStep
  BY <1>1, <1>3
     DEF V4!Step, V4!WaitStep, V4!LockWaitMutex, V4!RTPSelect, V4!Woken,
         V4!ReadAbort, V4!UnlockWaitMutex, V4!DestroyWaitsForWait,
         V4!DestroyWaits, V4!DestroyEnds, V4!DestroyUnlocks, V4!PollRTCP,
         V4!PollAgain, Locations
<1>4. ASSUME NEW t \in Threads, V4!LifeCycle(t) PROVE PollingStep
  <2>1. CASE V4!Create(t)
    BY <2>1
       DEF V4!Create, V4!MayCreate, V4!SocketsGivenUp, V4!CreateFailed,
           V4!SocketsCreated, V4!Created, PollingStep
  <2>2. CASE V4!Destroy(t)
    BY <2>2
       DEF V4!Destroy, V4!SocketsDestroyed, V4!Destroyed, V4!Works, V4!Enters, Enters,
           PollingStep, Locations
  <2>3. CASE V4!GetLocalHostName(t)
    BY <1>0, <2>3 DEF V4!GetLocalHostName, V4!NameHost
  <2> QED
    BY <1>4, <2>1, <2>2, <2>3 DEF V4!LifeCycle
<1>5. ASSUME NEW t \in Threads, V4!Waiting(t) PROVE PollingStep
  BY <1>0, <1>1, <1>5
     DEF V4!Waiting, V4!WaitForIncomingData, V4!StartWaiting, V4!WaitEnds,
         V4!RTPSelectFails, V4!AbortWait, V4!SignalWaiter, Locations
<1>6. ASSUME NEW t \in Threads, V4!Receiving(t) PROVE PollingStep
  <2>1. CASE V4!Poll(t)
    BY <2>1 DEF V4!Poll, V4!PollOnce, V4!Works, PollingStep, Locations
  <2>2. CASE V4!GetNextPacket(t)
    BY <1>0, <2>2 DEF V4!GetNextPacket, V4!TakePacket
  <2> QED
    BY <1>6, <2>1, <2>2 DEF V4!Receiving
<1>7. ASSUME NEW t \in Threads, V4!Sending(t) PROVE PollingStep
  BY <1>0, <1>7
     DEF V4!Sending, V4!SendRTPData, V4!SendRTCPData, V4!SendFrom,
         V4!AddDestination, V4!DeleteDestination, V4!ClearDestinations,
         V4!ChangeDestinations
<1>8. ASSUME NEW t \in Threads, V4!Grouping(t) PROVE PollingStep
  BY <1>0, <1>8
     DEF V4!Grouping, V4!JoinMulticastGroup, V4!LeaveMulticastGroup,
         V4!LeaveAllMulticastGroups, V4!Join, V4!LeaveGroups
<1>9. ASSUME NEW t \in Threads, V4!Filtering(t) PROVE PollingStep
  BY <1>0, <1>9
     DEF V4!Filtering, V4!SetReceiveMode, V4!ChangeMode, V4!AddToIgnoreList,
         V4!DeleteFromIgnoreList, V4!ClearIgnoreList, V4!AddToAcceptList,
         V4!DeleteFromAcceptList, V4!ClearAcceptList, V4!ListOnly
<1>10. CASE UNCHANGED V4!vars
  BY <1>0, <1>10 DEF V4!vars
<1> QED
  BY <1>2, <1>3, <1>4, <1>5, <1>6, <1>7, <1>8, <1>9, <1>10 DEF V4!Next

\* The threads of RTPUDPv4Transmitter are in order, if it is used in one of
\* the two ways.
LEMMA V4Orderly ==
  ASSUME MaxCreates = 1 \/ \A s, t \in Threads : s = t
  PROVE  V4!Spec => []Orderly
<1>1. CASE MaxCreates = 1
  <2>1. MutexInv => Orderly
    BY DEF MutexInv, Orderly
  <2> QED
    BY <1>1, <2>1, V4MutexInv, PTL
<1>2. CASE \A s, t \in Threads : s = t
  <2>1. Orderly
    BY <1>2 DEF Orderly
  <2>2. Orderly'
    BY <1>2 DEF Orderly
  <2>3. Orderly => Orderly'
    BY <2>2
  <2> QED
    BY <2>1, PTL
<1> QED
  BY <1>1, <1>2

\* Polling of RTPUDPv6Transmitter, from either socket.
LEMMA V6Drains ==
  ASSUME SocketInv, DatagramInv, created, NEW rtp \in BOOLEAN, V6!PollSocket(rtp),
         UNCHANGED <<portvars, destinations>>
  PROVE  DatagramStep
<1> DEFINE sock == IF rtp THEN rtpsock ELSE rtcpsock
           rtptypes == IF rtp THEN Types ELSE {}
<1>1. sock \in InUse
  BY DEF InUse
<1>2. rtptypes \in SUBSET Types
  BY DEF Types
<1>3. PICK accepted : V6!Drain(sock, accepted, rtptypes)
  BY DEF V6!PollSocket, V6!Types, Types
<1> HIDE DEF sock, rtptypes
<1>4. Drain(sock, accepted, rtptypes)
  BY <1>3, SameCount DEF V6!Drain, Drain, V6!RawPacket, RawPacket, V6!InUse, InUse
<1>5. Drains(sock)
  BY <1>1, <1>2, <1>4, DrainsBy
<1> QED
  BY <1>1, <1>5 DEF DatagramStep

\* Create and Destroy of RTPUDPv6Transmitter.
LEMMA V6LifeDatagrams ==
  ASSUME NEW t \in Threads, V6!LifeCycle(t)
  PROVE  DatagramStep
<1>1. CASE V6!Create(t)
  <2>1. PICK pair \in V6!CreateSockets :
          \/ V6!SocketsGivenUp(pair)
          \/ \E own \in BOOLEAN, ips \in V6!CreateLocalIPList :
               V6!SocketsCreated(pair, own, ips)
    BY <1>1 DEF V6!Create
  <2>2. ~created
    BY <1>1 DEF V6!Create, V6!MayCreate
  <2>3. pair \in Obtainable
    BY V6Pairs
  <2>4. CASE V6!SocketsGivenUp(pair)
    <3>1. Obtains(pair)
      BY <2>2, <2>4
         DEF V6!SocketsGivenUp, V6!Obtain, V6!CreateFailed, Obtains, Obtain,
             V6!CLOSESOCKETS, CLOSESOCKETS, V6!Sockets, V6!OwnSockets,
             V6!UserSockets, Sockets, OwnSockets, UserSockets, V6!datavars,
             V6!ipvars
    <3> QED
      BY <2>3, <3>1 DEF DatagramStep
  <2>5. ASSUME NEW own, NEW ips, V6!SocketsCreated(pair, own, ips) PROVE DatagramStep
    <3>1. Obtains(pair)
      BY <2>2, <2>5
         DEF V6!SocketsCreated, V6!Obtain, V6!Created, V6!AddressesCreated, Obtains,
             Obtain
    <3> QED
      BY <2>3, <3>1 DEF DatagramStep
  <2> QED
    BY <2>1, <2>4, <2>5
<1>2. CASE V6!Destroy(t)
  <2>1. SocketsDestroyed(t)
    BY <1>2
       DEF V6!Destroy, V6!SocketsDestroyed, V6!Destroyed, V6!AddressesDestroyed,
           V6!EmptyList, V6!NoPorts, V6!CLOSESOCKETS, V6!Sockets, V6!OwnSockets,
           V6!UserSockets, V6!sockvars, V6!Works, V6!Enters, V6!Goto,
           V6!SendAbortSignal, V6!mutexvars, V6!ForgetHostName, ForgetHostName,
           SocketsDestroyed, Destroyed,
           AddressesDestroyed, EmptyList, NoPorts, CLOSESOCKETS, Sockets,
           OwnSockets, UserSockets, sockvars, Works, Enters, Goto,
           SendAbortSignal, mutexvars
  <2> QED
    BY <2>1 DEF DatagramStep
<1>3. CASE V6!GetLocalHostName(t)
  BY <1>3
     DEF V6!GetLocalHostName, V6!NameHost, V6!lifevars, V6!udpvars, V6!sockvars,
         V6!sysvars, V6!ipvars, DatagramStep, portvars
<1> QED
  BY <1>1, <1>2, <1>3 DEF V6!LifeCycle

\* What RTPUDPv6Transmitter sends.
LEMMA V6Sends ==
  ASSUME NEW t \in Threads, V6!SendRTPData(t) \/ V6!SendRTCPData(t)
  PROVE  DatagramStep
<1>1. PICK sock \in InUse, type \in Types, field \in {"rtp", "rtcp"} :
        V6!SendFrom(t, sock, type, field)
  BY DEF V6!SendRTPData, V6!SendRTCPData, InUse, Types
<1>2. \A S : V6!SetToSeq(S) = SetToSeq(S)
  BY Zenon
     DEF V6!SetToSeq, SetToSeq, V6!IsInjective, IsInjective, V6!Cardinality,
         Cardinality
<1>3. SendFrom(t, sock, type, field)
  BY <1>1, <1>2
     DEF V6!SendFrom, V6!Receivers, V6!Works, V6!Enters, V6!Sockets,
         V6!OwnSockets, V6!UserSockets, V6!commonvars, V6!lifevars, V6!mutexvars,
         V6!waitvars, V6!datavars, V6!ipvars, V6!sockvars, SendFrom, Receivers,
         Works, Enters, Sockets, OwnSockets, UserSockets, commonvars, lifevars,
         mutexvars, waitvars, datavars, ipvars, sockvars
<1> QED
  BY <1>3 DEF DatagramStep

\* Every handler of RTPUDPv6Transmitter.
LEMMA V6Datagrams ==
  SocketInv /\ DatagramInv /\ PollingInv /\ [V6!Next]_V6!vars => DatagramStep
<1> SUFFICES ASSUME SocketInv, DatagramInv, PollingInv, [V6!Next]_V6!vars
             PROVE  DatagramStep
  OBVIOUS
<1> USE DEF V6!commonvars, V6!lifevars, V6!datavars, V6!ipvars, V6!udpvars,
            V6!sockvars, V6!sysvars, portvars
<1>0. UNCHANGED <<portvars, inbox, rawpacketlist, destinations>> => DatagramStep
  BY DEF DatagramStep
<1>1. CASE V6!Arriving
  <2>1. PICK s \in Sockets, h \in Hosts, port \in Ports, type \in Types \cup {"empty"} :
          V6!Deliver(s, h, port, type)
    BY <1>1
       DEF V6!Arriving, V6!Sockets, V6!OwnSockets, V6!UserSockets, V6!Types, Sockets,
           OwnSockets, UserSockets, Types
  <2>2. Deliver(s, h, port, type)
    BY <2>1
       DEF V6!Deliver, V6!InUse, V6!Other, V6!Sockets, V6!OwnSockets,
           V6!UserSockets, V6!mutexvars, V6!waitvars, Deliver, InUse, Other, Sockets,
           OwnSockets, UserSockets, commonvars, lifevars, mutexvars, waitvars,
           datavars, ipvars, sockvars
  <2> QED
    BY <2>2 DEF DatagramStep
<1>2. ASSUME NEW t \in Threads, V6!Step(t) PROVE DatagramStep
  <2>1. CASE V6!PollRTCP(t)
    <3>1. created /\ V6!PollSocket(FALSE) /\ UNCHANGED <<portvars, destinations>>
      BY <2>1 DEF V6!PollRTCP, V6!PollAgain, PollingInv
    <3> QED
      BY <3>1, V6Drains
  <2>2. CASE V6!WaitStep(t) \/ V6!DestroyWaitsForWait(t) \/ V6!DestroyEnds(t)
    BY <1>0, <2>2
       DEF V6!WaitStep, V6!LockWaitMutex, V6!RTPSelect, V6!Woken, V6!ReadAbort,
           V6!UnlockWaitMutex, V6!DestroyWaitsForWait, V6!DestroyWaits,
           V6!DestroyEnds, V6!DestroyUnlocks
  <2> QED
    BY <1>2, <2>1, <2>2 DEF V6!Step
<1>3. ASSUME NEW t \in Threads, V6!LifeCycle(t) PROVE DatagramStep
  BY <1>3, V6LifeDatagrams
<1>4. ASSUME NEW t \in Threads, V6!Waiting(t) PROVE DatagramStep
  BY <1>0, <1>4
     DEF V6!Waiting, V6!WaitForIncomingData, V6!StartWaiting, V6!WaitEnds,
         V6!RTPSelectFails, V6!AbortWait, V6!SignalWaiter
<1>5. ASSUME NEW t \in Threads, V6!Receiving(t) PROVE DatagramStep
  <2>1. CASE V6!Poll(t)
    <3>1. created /\ V6!PollSocket(TRUE) /\ UNCHANGED <<portvars, destinations>>
      BY <2>1 DEF V6!Poll, V6!PollOnce, V6!Works
    <3> QED
      BY <3>1, V6Drains
  <2>2. CASE V6!GetNextPacket(t)
    BY <2>2 DEF V6!GetNextPacket, V6!TakePacket, V6!Works, DatagramStep
  <2> QED
    BY <1>5, <2>1, <2>2 DEF V6!Receiving
<1>6. ASSUME NEW t \in Threads, V6!Sending(t) PROVE DatagramStep
  <2>1. CASE V6!SendRTPData(t) \/ V6!SendRTCPData(t)
    BY <2>1, V6Sends
  <2>2. ASSUME NEW d \in Destinations,
               V6!AddDestination(t, d) \/ V6!DeleteDestination(t, d)
        PROVE  DatagramStep
    BY <2>2
       DEF V6!AddDestination, V6!DeleteDestination, V6!ChangeDestinations, DatagramStep
  <2>3. CASE V6!ClearDestinations(t)
    BY <2>3 DEF V6!ClearDestinations, V6!ChangeDestinations, DatagramStep
  <2> QED
    BY <1>6, <2>1, <2>2, <2>3 DEF V6!Sending
<1>7. ASSUME NEW t \in Threads, V6!Grouping(t) PROVE DatagramStep
  BY <1>0, <1>7
     DEF V6!Grouping, V6!JoinMulticastGroup, V6!LeaveMulticastGroup,
         V6!LeaveAllMulticastGroups, V6!Join, V6!LeaveGroups
<1>8. ASSUME NEW t \in Threads, V6!Filtering(t) PROVE DatagramStep
  BY <1>0, <1>8
     DEF V6!Filtering, V6!SetReceiveMode, V6!ChangeMode, V6!AddToIgnoreList,
         V6!DeleteFromIgnoreList, V6!ClearIgnoreList, V6!AddToAcceptList,
         V6!DeleteFromAcceptList, V6!ClearAcceptList, V6!ListOnly
<1>9. CASE UNCHANGED V6!vars
  BY <1>0, <1>9 DEF V6!vars
<1> QED
  BY <1>1, <1>2, <1>3, <1>4, <1>5, <1>6, <1>7, <1>8, <1>9 DEF V6!Next

\* Where a thread is in RTPUDPv6Transmitter.
LEMMA V6Polling == PollingInv /\ [V6!Next]_V6!vars => PollingStep
<1> SUFFICES ASSUME PollingInv, [V6!Next]_V6!vars PROVE PollingStep
  OBVIOUS
<1> USE DEF V6!commonvars, V6!lifevars, V6!Goto, Goto
<1>0. UNCHANGED <<at, created>> => PollingStep
  BY DEF PollingStep
<1>1. ASSUME NEW t \in Threads, NEW l \in Locations \ {"polling"}, Goto(t, l),
             UNCHANGED created
      PROVE  PollingStep
  BY <1>1 DEF PollingStep
<1>2. CASE V6!Arriving
  BY <1>0, <1>2 DEF V6!Arriving, V6!Deliver
<1>3. ASSUME NEW t \in Threads, V6!Step(t) PROVE PollingStep
  BY <1>1, <1>3
     DEF V6!Step, V6!WaitStep, V6!LockWaitMutex, V6!RTPSelect, V6!Woken,
         V6!ReadAbort, V6!UnlockWaitMutex, V6!DestroyWaitsForWait,
         V6!DestroyWaits, V6!DestroyEnds, V6!DestroyUnlocks, V6!PollRTCP,
         V6!PollAgain, Locations
<1>4. ASSUME NEW t \in Threads, V6!LifeCycle(t) PROVE PollingStep
  <2>1. CASE V6!Create(t)
    BY <2>1
       DEF V6!Create, V6!MayCreate, V6!SocketsGivenUp, V6!CreateFailed,
           V6!SocketsCreated, V6!Created, PollingStep
  <2>2. CASE V6!Destroy(t)
    BY <2>2
       DEF V6!Destroy, V6!SocketsDestroyed, V6!Destroyed, V6!Works, V6!Enters, Enters,
           PollingStep, Locations
  <2>3. CASE V6!GetLocalHostName(t)
    BY <1>0, <2>3 DEF V6!GetLocalHostName, V6!NameHost
  <2> QED
    BY <1>4, <2>1, <2>2, <2>3 DEF V6!LifeCycle
<1>5. ASSUME NEW t \in Threads, V6!Waiting(t) PROVE PollingStep
  BY <1>0, <1>1, <1>5
     DEF V6!Waiting, V6!WaitForIncomingData, V6!StartWaiting, V6!WaitEnds,
         V6!RTPSelectFails, V6!AbortWait, V6!SignalWaiter, Locations
<1>6. ASSUME NEW t \in Threads, V6!Receiving(t) PROVE PollingStep
  <2>1. CASE V6!Poll(t)
    BY <2>1 DEF V6!Poll, V6!PollOnce, V6!Works, PollingStep, Locations
  <2>2. CASE V6!GetNextPacket(t)
    BY <1>0, <2>2 DEF V6!GetNextPacket, V6!TakePacket
  <2> QED
    BY <1>6, <2>1, <2>2 DEF V6!Receiving
<1>7. ASSUME NEW t \in Threads, V6!Sending(t) PROVE PollingStep
  BY <1>0, <1>7
     DEF V6!Sending, V6!SendRTPData, V6!SendRTCPData, V6!SendFrom,
         V6!AddDestination, V6!DeleteDestination, V6!ClearDestinations,
         V6!ChangeDestinations
<1>8. ASSUME NEW t \in Threads, V6!Grouping(t) PROVE PollingStep
  BY <1>0, <1>8
     DEF V6!Grouping, V6!JoinMulticastGroup, V6!LeaveMulticastGroup,
         V6!LeaveAllMulticastGroups, V6!Join, V6!LeaveGroups
<1>9. ASSUME NEW t \in Threads, V6!Filtering(t) PROVE PollingStep
  BY <1>0, <1>9
     DEF V6!Filtering, V6!SetReceiveMode, V6!ChangeMode, V6!AddToIgnoreList,
         V6!DeleteFromIgnoreList, V6!ClearIgnoreList, V6!AddToAcceptList,
         V6!DeleteFromAcceptList, V6!ClearAcceptList, V6!ListOnly
<1>10. CASE UNCHANGED V6!vars
  BY <1>0, <1>10 DEF V6!vars
<1> QED
  BY <1>2, <1>3, <1>4, <1>5, <1>6, <1>7, <1>8, <1>9, <1>10 DEF V6!Next

\* The threads of RTPUDPv6Transmitter are in order, if it is used in one of
\* the two ways.
LEMMA V6Orderly ==
  ASSUME MaxCreates = 1 \/ \A s, t \in Threads : s = t
  PROVE  V6!Spec => []Orderly
<1>1. CASE MaxCreates = 1
  <2>1. MutexInv => Orderly
    BY DEF MutexInv, Orderly
  <2> QED
    BY <1>1, <2>1, V6MutexInv, PTL
<1>2. CASE \A s, t \in Threads : s = t
  <2>1. Orderly
    BY <1>2 DEF Orderly
  <2>2. Orderly'
    BY <1>2 DEF Orderly
  <2>3. Orderly => Orderly'
    BY <2>2
  <2> QED
    BY <2>1, PTL
<1> QED
  BY <1>1, <1>2

\* RTPUDPv6Transmitter records the one port and takes the other to be the next.
NextPort == created => m_rtcpPort = m_rtpPort + 1

\* So it is, as the sockets are bound.
LEMMA V6Ports == NextPort /\ [V6!Next]_V6!vars => NextPort'
<1> SUFFICES ASSUME NextPort, [V6!Next]_V6!vars PROVE NextPort'
  OBVIOUS
<1> USE DEF V6!commonvars, V6!lifevars, V6!udpvars, V6!sockvars, NextPort
<1>0. UNCHANGED <<created, m_rtpPort, m_rtcpPort>> => NextPort'
  OBVIOUS
<1>1. CASE V6!Arriving
  BY <1>0, <1>1 DEF V6!Arriving, V6!Deliver
<1>2. ASSUME NEW t \in Threads, V6!Step(t) PROVE NextPort'
  BY <1>0, <1>2
     DEF V6!Step, V6!WaitStep, V6!LockWaitMutex, V6!RTPSelect, V6!Woken,
         V6!ReadAbort, V6!UnlockWaitMutex, V6!DestroyWaitsForWait,
         V6!DestroyWaits, V6!DestroyEnds, V6!DestroyUnlocks, V6!PollRTCP,
         V6!PollAgain
<1>3. ASSUME NEW t \in Threads, V6!LifeCycle(t) PROVE NextPort'
  <2>1. CASE V6!Create(t)
    <3>1. PICK pair \in V6!CreateSockets : V6!Obtain(pair)
      BY <2>1 DEF V6!Create, V6!SocketsGivenUp, V6!SocketsCreated
    <3>2. pair.ports \in {<<base, base + 1>> : base \in {p \in Ports : V6!Even(p)}}
      <4> DEFINE pairs == {<<base, base + 1>> : base \in {p \in Ports : V6!Even(p)}}
      <4>1. pair \in V6!OwnPairs(pairs, FALSE)
        BY DEF V6!CreateSockets
      <4> HIDE DEF pairs
      <4>2. PICK p \in pairs :
              pair = [rtp |-> "own1", rtcp |-> "own2", own |-> TRUE, ports |-> p,
                      bound |-> [boundto EXCEPT !["own1"] = p[1], !["own2"] = p[2]]]
        BY <4>1 DEF V6!OwnPairs
      <4>3. pair.ports \in pairs
        BY <4>2
      <4> QED
        BY <4>3 DEF pairs
    <3> QED
      BY <3>1, <3>2 DEF V6!Obtain
  <2>2. CASE V6!Destroy(t)
    BY <2>2 DEF V6!Destroy, V6!SocketsDestroyed, V6!Destroyed
  <2>3. CASE V6!GetLocalHostName(t)
    BY <1>0, <2>3 DEF V6!GetLocalHostName, V6!NameHost
  <2> QED
    BY <1>3, <2>1, <2>2, <2>3 DEF V6!LifeCycle
<1>4. ASSUME NEW t \in Threads, V6!Waiting(t) PROVE NextPort'
  BY <1>0, <1>4
     DEF V6!Waiting, V6!WaitForIncomingData, V6!StartWaiting, V6!WaitEnds,
         V6!RTPSelectFails, V6!AbortWait, V6!SignalWaiter
<1>5. ASSUME NEW t \in Threads, V6!Receiving(t) PROVE NextPort'
  BY <1>0, <1>5
     DEF V6!Receiving, V6!Poll, V6!PollOnce, V6!GetNextPacket, V6!TakePacket
<1>6. ASSUME NEW t \in Threads, V6!Sending(t) PROVE NextPort'
  BY <1>0, <1>6
     DEF V6!Sending, V6!SendRTPData, V6!SendRTCPData, V6!SendFrom,
         V6!AddDestination, V6!DeleteDestination, V6!ClearDestinations,
         V6!ChangeDestinations
<1>7. ASSUME NEW t \in Threads, V6!Grouping(t) PROVE NextPort'
  BY <1>0, <1>7
     DEF V6!Grouping, V6!JoinMulticastGroup, V6!LeaveMulticastGroup,
         V6!LeaveAllMulticastGroups, V6!Join, V6!LeaveGroups
<1>8. ASSUME NEW t \in Threads, V6!Filtering(t) PROVE NextPort'
  BY <1>0, <1>8
     DEF V6!Filtering, V6!SetReceiveMode, V6!ChangeMode, V6!AddToIgnoreList,
         V6!DeleteFromIgnoreList, V6!ClearIgnoreList, V6!AddToAcceptList,
         V6!DeleteFromAcceptList, V6!ClearAcceptList, V6!ListOnly
<1>9. CASE UNCHANGED V6!vars
  BY <1>0, <1>9 DEF V6!vars
<1> QED
  BY <1>1, <1>2, <1>3, <1>4, <1>5, <1>6, <1>7, <1>8, <1>9 DEF V6!Next

\* At first there is no datagram and nobody polls.
LEMMA InitPolling == UDPInit => DatagramInv /\ PollingInv
<1> SUFFICES ASSUME UDPInit PROVE PollingInv
  BY InitDatagrams
<1>1. at = [t \in Threads |-> "outside"]
  BY DEF UDPInit, IPInit, TransmitterInit
<1> QED
  BY <1>1 DEF PollingInv, Locations

\* The marks of packets go with the ports recorded.
LEMMA MarksTell ==
  ASSUME DatagramInv, created, NEW i \in DOMAIN rawpacketlist
  PROVE  rawpacketlist[i].own <=>
           rawpacketlist[i].host \in OurHosts
             /\ rawpacketlist[i].port \in {m_rtpPort, m_rtcpPort}
<1>1. rawpacketlist \in Seq(TellingPackets)
  BY DEF DatagramInv
<1>2. rawpacketlist[i] \in TellingPackets
  BY <1>1
<1> QED
  BY <1>2 DEF TellingPackets

\* So the datagrams tell where they come from in RTPUDPv4Transmitter.
LEMMA V4Own ==
  ASSUME MaxCreates = 1 \/ \A s, t \in Threads : s = t
  PROVE  V4!Spec => []V4!OwnRecognised
<1>1. V4!Init => DatagramInv /\ PollingInv
  <2>1. V4!Init => UDPInit
    BY
       DEF V4!Init, UDPInit, V4!UDPInit, IPInit, V4!IPInit, TransmitterInit,
           V4!TransmitterInit, NoPorts, V4!NoPorts, Sockets, V4!Sockets,
           OwnSockets, V4!OwnSockets, UserSockets, V4!UserSockets
  <2> QED
    BY <2>1, InitPolling
<1>2. SocketInv /\ Orderly /\ DatagramInv /\ PollingInv /\ [V4!Next]_V4!vars
        => DatagramInv' /\ PollingInv'
  BY V4Datagrams, KeepsDatagrams, V4Polling, KeepsPolling
<1>3. DatagramInv => V4!OwnRecognised
  BY MarksTell DEF V4!OwnRecognised, V4!ComesFromThisTransmitter
<1> QED
  BY <1>1, <1>2, <1>3, V4SocketInv, V4Orderly, PTL DEF V4!Spec

\* So the datagrams tell where they come from in RTPUDPv6Transmitter.
LEMMA V6Own ==
  ASSUME MaxCreates = 1 \/ \A s, t \in Threads : s = t
  PROVE  V6!Spec => []V6!OwnRecognised
<1>1. V6!Init => DatagramInv /\ PollingInv /\ NextPort
  <2>1. V6!Init => UDPInit
    BY
       DEF V6!Init, UDPInit, V6!UDPInit, IPInit, V6!IPInit, TransmitterInit,
           V6!TransmitterInit, NoPorts, V6!NoPorts, Sockets, V6!Sockets,
           OwnSockets, V6!OwnSockets, UserSockets, V6!UserSockets
  <2>2. UDPInit => NextPort
    BY DEF UDPInit, IPInit, TransmitterInit, NextPort
  <2> QED
    BY <2>1, <2>2, InitPolling
<1>2. SocketInv /\ Orderly /\ DatagramInv /\ PollingInv /\ [V6!Next]_V6!vars
        => DatagramInv' /\ PollingInv'
  BY V6Datagrams, KeepsDatagrams, V6Polling, KeepsPolling
<1>3. NextPort /\ [V6!Next]_V6!vars => NextPort'
  BY V6Ports
<1>4. DatagramInv /\ NextPort => V6!OwnRecognised
  BY MarksTell DEF V6!OwnRecognised, V6!ComesFromThisTransmitter, NextPort
<1> QED
  BY <1>1, <1>2, <1>3, <1>4, V6SocketInv, V6Orderly, PTL DEF V6!Spec

\* For every network, destinations and ports, also those forced and shared by
\* RTP and RTCP: a UDP transmitter that has found the addresses of its machine
\* takes a packet for its own exactly when one of its sockets has sent it, in
\* one life with any number of threads or any number of lives with one thread.
THEOREM OwnSafe ==
  ASSUME MaxCreates = 1 \/ \A s, t \in Threads : s = t
  PROVE  DatagramSpec => []OwnRecognised
<1> DEFINE Others == proto \notin UDPProtocols
<1>1. proto = "IPv4UDPProto" \/ proto = "IPv6UDPProto" \/ Others
  BY DEF UDPProtocols
<1>2. proto = "IPv4UDPProto" /\ [UNCHANGED proto]_proto
        => (proto = "IPv4UDPProto")'
  OBVIOUS
<1>3. proto = "IPv6UDPProto" /\ [UNCHANGED proto]_proto
        => (proto = "IPv6UDPProto")'
  OBVIOUS
<1>4. Others /\ [UNCHANGED proto]_proto => Others'
  OBVIOUS
<1>5. proto = "IPv4UDPProto" /\ V4!OwnRecognised => OwnRecognised
  BY DEF OwnRecognised
<1>6. proto = "IPv6UDPProto" /\ V6!OwnRecognised => OwnRecognised
  BY DEF OwnRecognised
<1>7. Others => OwnRecognised
  BY DEF OwnRecognised, UDPProtocols
<1> HIDE DEF Others
<1> QED
  BY <1>1, <1>2, <1>3, <1>4, <1>5, <1>6, <1>7, V4Own, V6Own, PTL
     DEF DatagramSpec

-----------------------------------------------------------------------------
Asleep == {"waitlock", "select"}

\* The count says how many signals there are to read, as long as the
\* transmitter is in use; so one that is counted is one that wakes.
SignalInv ==
  /\ ownabort = TRUE
  /\ abortbytes \in Nat
  /\ m_abortCount \in Nat
  /\ created => m_abortCount = abortbytes
  /\ ~created => rawpacketlist = <<>>
  /\ \A t \in Threads :
       at[t] \in Asleep /\ created /\ rawpacketlist # <<>> => abortbytes > 0

-----------------------------------------------------------------------------
(* The mutexes of the external transmitter *)

\* Every handler of RTPExternalTransmitter.
LEMMA ExtMutexes ==
  ASSUME MaxCreates = 1, MutexInv, [Ext!Next]_Ext!vars
  PROVE  MutexInv'
<1> USE DEF Ext!commonvars, Ext!lifevars, Ext!mutexvars, mutexvars, Ext!Goto,
            Goto
<1>1. CASE UNCHANGED Ext!vars
  BY <1>1, QuietStep DEF Ext!vars
<1>2. ASSUME NEW t \in Threads, Ext!WaitStep(t) PROVE MutexInv'
  <2>1. CASE Ext!LockWaitMutex(t)
    BY <2>1, LockWaitMutexStep
       DEF Ext!LockWaitMutex, LockWaitMutex, lifevars, Ext!datavars, datavars,
           Ext!waitvars, waitvars
  <2>2. CASE Ext!RTPSelect(t)
    BY <2>2, RTPSelectStep
       DEF Ext!RTPSelect, RTPSelect, Ext!AbortReadable, AbortReadable, lifevars,
           Ext!datavars, datavars
  <2>3. CASE Ext!Woken(t)
    BY <2>3, WokenStep DEF Ext!Woken, Woken, lifevars, Ext!datavars, datavars
  <2>4. CASE Ext!UnlockWaitMutex(t)
    BY <2>4, UnlockWaitMutexStep
       DEF Ext!UnlockWaitMutex, UnlockWaitMutex, lifevars, Ext!datavars,
           datavars, Ext!waitvars, waitvars
  <2>5. CASE Ext!ReadSignals(t)
    BY <2>5, ReadAbortStep DEF Ext!ReadSignals, Ext!ReadAbort
  <2> QED
    BY <1>2, <2>1, <2>2, <2>3, <2>4, <2>5 DEF Ext!WaitStep
<1>3. ASSUME NEW t \in Threads, Ext!Step(t) PROVE MutexInv'
  <2>1. CASE Ext!DestroyWaitsForWait(t)
    BY <2>1, DestroyWaitsStep
       DEF Ext!DestroyWaitsForWait, Ext!DestroyWaits, DestroyWaits, lifevars,
           Ext!datavars, datavars, Ext!waitvars, waitvars
  <2>2. CASE Ext!DestroyEnds(t)
    BY <2>2, DestroyUnlocksStep
       DEF Ext!DestroyEnds, Ext!DestroyUnlocks, DestroyUnlocks, lifevars,
           Ext!datavars, datavars, Ext!waitvars, waitvars
  <2>3. CASE Ext!SenderReturns(t)
    BY <2>3, CallStep DEF Ext!SenderReturns
  <2> QED
    BY <1>2, <1>3, <2>1, <2>2, <2>3 DEF Ext!Step
<1>4. ASSUME NEW t \in Threads, Ext!LifeCycle(t) PROVE MutexInv'
  <2>1. CASE Ext!Create(t)
    BY <2>1, CreatedStep
       DEF Ext!Create, Ext!MayCreate, MayCreate, Ext!Created, Created,
           Ext!Enters, Enters
  <2>2. CASE Ext!Destroy(t)
    BY <2>2, DestroyedStep
       DEF Ext!Destroy, Ext!Destroyed, Destroyed, Ext!Works, Ext!Enters, Works,
           Enters, Ext!SendAbortSignal, SendAbortSignal
  <2>3. CASE Ext!GetLocalHostName(t)
    BY <2>3, QuietStep DEF Ext!GetLocalHostName, Ext!NameHost
  <2> QED
    BY <1>4, <2>1, <2>2, <2>3 DEF Ext!LifeCycle
<1>5. ASSUME NEW t \in Threads, Ext!Waiting(t) PROVE MutexInv'
  <2>1. CASE Ext!WaitForIncomingData(t)
    BY <2>1, StartWaitingStep
       DEF Ext!WaitForIncomingData, Ext!StartWaiting, StartWaiting, Ext!Works,
           Ext!Enters, Works, Enters, lifevars, Ext!datavars, datavars
  <2>2. CASE Ext!WaitEnds(t)
    BY <2>2, RTPSelectStep
       DEF Ext!WaitEnds, Ext!RTPSelectFails, RTPSelectFails, lifevars,
           Ext!datavars, datavars
  <2>3. CASE Ext!AbortWait(t)
    BY <2>3, QuietStep DEF Ext!AbortWait, Ext!SignalWaiter
  <2> QED
    BY <1>5, <2>1, <2>2, <2>3 DEF Ext!Waiting
<1>6. ASSUME NEW t \in Threads, Ext!Receiving(t) PROVE MutexInv'
  <2>1. CASE \E rtp \in BOOLEAN : Ext!Inject(t, rtp)
    BY <2>1, QuietStep DEF Ext!Inject
  <2>2. CASE Ext!GetNextPacket(t)
    BY <2>2, QuietStep DEF Ext!GetNextPacket, Ext!TakePacket
  <2> QED
    BY <1>6, <2>1, <2>2
       DEF Ext!Receiving, Ext!InjectRTP, Ext!InjectRTCP, Ext!InjectRTPorRTCP
<1>7. ASSUME NEW t \in Threads, Ext!Sending(t) PROVE MutexInv'
  BY <1>7, CallStep
     DEF Ext!Sending, Ext!SendRTPData, Ext!SendRTCPData, Ext!Works, Ext!Enters
<1> QED
  BY <1>1, <1>3, <1>4, <1>5, <1>6, <1>7 DEF Ext!Next

-----------------------------------------------------------------------------
(* The signals of the external transmitter *)

\* A step that injects, reads and signals nothing, and after which no other
\* thread is asleep than before.
LEMMA SilentStep ==
  ASSUME SignalInv,
         UNCHANGED <<created, ownabort, abortbytes, m_abortCount>>,
         rawpacketlist' # <<>> => rawpacketlist # <<>>,
         \A t \in Threads : at'[t] \in Asleep => at[t] \in Asleep,
         ~created => rawpacketlist' = rawpacketlist
  PROVE  SignalInv'
  BY DEF SignalInv

\* Reading the signals clears them, while nobody is asleep: a thread in
\* RTPSelect would hold the wait mutex, and one before it the main mutex.
LEMMA ReadSignalsStep ==
  ASSUME MutexInv, SignalInv, NEW t \in Threads, Ext!ReadSignals(t)
  PROVE  SignalInv'
<1>1. /\ at[t] = "reading" /\ Ext!Goto(t, "leaving")
      /\ abortbytes' = 0 /\ m_abortCount' = 0
      /\ UNCHANGED <<created, ownabort, rawpacketlist>>
  BY
     DEF Ext!ReadSignals, Ext!ReadAbort, Ext!ClearAbortSignal, Ext!lifevars,
         Ext!datavars
<1>2. \A s \in Threads : at[s] \notin Asleep
  BY <1>1 DEF MutexInv, HoldsWhatItNeeds, Asleep
<1>3. \A s \in Threads : at'[s] \notin Asleep
  BY <1>1, <1>2 DEF MutexInv, Ext!Goto, Asleep
<1> QED
  BY <1>1, <1>3 DEF SignalInv

\* Injecting signals a waiting thread unless there is a signal to read.
LEMMA InjectStep ==
  ASSUME SignalInv, NEW t \in Threads, NEW rtp \in BOOLEAN, Ext!Inject(t, rtp)
  PROVE  SignalInv'
<1>1. created /\ UNCHANGED <<created, ownabort, at>>
  BY DEF Ext!Inject, Ext!Works, Ext!lifevars
<1>2. CASE m_abortCount = 0
  <2>1. abortbytes' = abortbytes + 1 /\ m_abortCount' = 1
    BY <1>2 DEF Ext!Inject, Ext!SendAbortSignal
  <2> QED
    BY <1>1, <1>2, <2>1 DEF SignalInv
<1>3. CASE m_abortCount # 0
  <2>1. UNCHANGED <<abortbytes, m_abortCount>>
    BY <1>3 DEF Ext!Inject
  <2> QED
    BY <1>1, <1>3, <2>1 DEF SignalInv
<1> QED
  BY <1>2, <1>3

\* Every handler keeps the signals.
LEMMA ExtSignals ==
  ASSUME MutexInv, SignalInv, [Ext!Next]_Ext!vars
  PROVE  SignalInv'
<1> USE DEF MutexInv, Asleep, Ext!Goto
<1>1. CASE UNCHANGED Ext!vars
  BY <1>1, SilentStep
     DEF Ext!vars, Ext!commonvars, Ext!lifevars, Ext!waitvars, Ext!datavars,
         Ext!extvars
<1>2. ASSUME NEW t \in Threads, Ext!Step(t)
      PROVE  SignalInv'
  <2>1. CASE Ext!LockWaitMutex(t)
    BY <1>2, <2>1, SilentStep
       DEF Ext!Step, Ext!WaitStep, Ext!LockWaitMutex, Ext!ReadSignals,
           Ext!ReadAbort, Ext!lifevars, Ext!waitvars, Ext!datavars, Ext!extvars,
           Ext!DestroyWaitsForWait, Ext!DestroyWaits, Ext!DestroyEnds,
           Ext!DestroyUnlocks, Ext!SenderReturns
  <2>2. CASE Ext!ReadSignals(t)
    BY <2>2, ReadSignalsStep
  <2>3. CASE /\ \/ Ext!RTPSelect(t) \/ Ext!Woken(t) \/ Ext!UnlockWaitMutex(t)
                \/ Ext!DestroyWaits(t) \/ Ext!DestroyUnlocks(t)
                \/ Ext!SenderReturns(t)
             /\ UNCHANGED Ext!extvars
    <3>1. /\ UNCHANGED <<created, ownabort, abortbytes, m_abortCount, rawpacketlist>>
          /\ \E l \in Locations \ Asleep : Ext!Goto(t, l)
      BY <2>3
         DEF Ext!RTPSelect, Ext!Woken, Ext!UnlockWaitMutex, Ext!DestroyWaits,
             Ext!DestroyUnlocks, Ext!SenderReturns, Ext!lifevars, Ext!waitvars,
             Ext!datavars, Ext!extvars, Locations
    <3> QED
      BY <3>1, SilentStep
  <2> QED
    BY <1>2, <2>1, <2>2, <2>3
       DEF Ext!Step, Ext!WaitStep, Ext!DestroyWaitsForWait, Ext!DestroyEnds,
           Ext!SenderReturns
<1>3. ASSUME NEW t \in Threads, Ext!LifeCycle(t)
      PROVE  SignalInv'
  <2>1. CASE Ext!Create(t)
    <3>1. /\ ~created /\ ownabort' = TRUE /\ abortbytes' = 0 /\ m_abortCount' = 0
          /\ rawpacketlist' = rawpacketlist
      BY <2>1 DEF Ext!Create, Ext!MayCreate, Ext!Created
    <3>2. rawpacketlist' = <<>>
      BY <3>1 DEF SignalInv
    <3> QED
      BY <3>1, <3>2 DEF SignalInv
  <2>2. CASE Ext!Destroy(t)
    <3>1. /\ created' = FALSE /\ rawpacketlist' = <<>> /\ UNCHANGED ownabort
          /\ m_abortCount' \in {m_abortCount, m_abortCount + 1}
      BY <2>2 DEF Ext!Destroy, Ext!Destroyed
    <3>2. ownabort
      BY DEF SignalInv
    <3>3. abortbytes' = 0
      BY <2>2, <3>2 DEF Ext!Destroy, Ext!Destroyed
    <3> QED
      BY <3>1, <3>3 DEF SignalInv
  <2>3. CASE Ext!GetLocalHostName(t)
    BY <2>3, SilentStep
       DEF Ext!GetLocalHostName, Ext!NameHost, Ext!lifevars, Ext!waitvars,
           Ext!extvars
  <2> QED
    BY <1>3, <2>1, <2>2, <2>3 DEF Ext!LifeCycle
<1>4. ASSUME NEW t \in Threads, Ext!Waiting(t)
      PROVE  SignalInv'
  <2>1. CASE Ext!WaitForIncomingData(t)
    <3>1. /\ rawpacketlist = <<>> /\ created
          /\ UNCHANGED <<created, ownabort, abortbytes, m_abortCount, rawpacketlist>>
      BY <2>1
         DEF Ext!WaitForIncomingData, Ext!StartWaiting, Ext!Works, Ext!lifevars,
             Ext!datavars, Ext!extvars
    <3> QED
      BY <3>1 DEF SignalInv
  <2>2. CASE Ext!WaitEnds(t)
    BY <2>2, SilentStep
       DEF Ext!WaitEnds, Ext!RTPSelectFails, Ext!lifevars, Ext!datavars,
           Ext!extvars
  <2>3. CASE Ext!AbortWait(t)
    <3>1. /\ abortbytes' = abortbytes + 1 /\ m_abortCount' = m_abortCount + 1
          /\ UNCHANGED <<created, ownabort, rawpacketlist, at>>
      BY <2>3
         DEF Ext!AbortWait, Ext!SignalWaiter, Ext!SendAbortSignal, Ext!lifevars,
             Ext!datavars
    <3> QED
      BY <3>1 DEF SignalInv
  <2> QED
    BY <1>4, <2>1, <2>2, <2>3 DEF Ext!Waiting
<1>5. ASSUME NEW t \in Threads, Ext!Receiving(t)
      PROVE  SignalInv'
  <2>1. CASE \E rtp \in BOOLEAN : Ext!Inject(t, rtp)
    BY <2>1, InjectStep
  <2>2. CASE Ext!GetNextPacket(t)
    BY <2>2, SilentStep
       DEF Ext!GetNextPacket, Ext!TakePacket, Ext!Works, Ext!lifevars,
           Ext!waitvars, Ext!extvars
  <2> QED
    BY <1>5, <2>1, <2>2
       DEF Ext!Receiving, Ext!InjectRTP, Ext!InjectRTCP, Ext!InjectRTPorRTCP
<1>6. ASSUME NEW t \in Threads, Ext!Sending(t)
      PROVE  SignalInv'
  BY <1>6, SilentStep
     DEF Ext!Sending, Ext!SendRTPData, Ext!SendRTCPData, Ext!lifevars,
         Ext!waitvars, Ext!datavars, Ext!extvars
<1> QED
  BY <1>1, <1>2, <1>3, <1>4, <1>5, <1>6 DEF Ext!Next

-----------------------------------------------------------------------------
\* There is nothing to wake for at first.
LEMMA ExtInit == Ext!Init => MutexInv /\ SignalInv
<1> SUFFICES ASSUME Ext!Init PROVE MutexInv /\ SignalInv
  OBVIOUS
<1>1. MutexInv
  BY InitMutex DEF Ext!Init, Ext!TransmitterInit, TransmitterInit
<1>2. /\ created = FALSE /\ ownabort = TRUE
      /\ abortbytes = 0 /\ m_abortCount = 0 /\ rawpacketlist = <<>>
  BY DEF Ext!Init, Ext!TransmitterInit
<1> QED
  BY <1>1, <1>2 DEF SignalInv

\* For any number of threads that inject, wait and abort, and one that destroys
\* the transmitter: none sleeps over packets that are there.
THEOREM WakeupSafe ==
  ASSUME MaxCreates = 1
  PROVE  DatagramSpec => []NoLostWakeup
<1> DEFINE Others == proto # "ExternalProto"
<1>1. proto = "ExternalProto" \/ Others
  OBVIOUS
<1>2. Others /\ [UNCHANGED proto]_proto => Others'
  OBVIOUS
<1>3. Ext!Init => MutexInv /\ SignalInv
  BY ExtInit
<1>4. MutexInv /\ SignalInv /\ [Ext!Next]_Ext!vars => MutexInv' /\ SignalInv'
  BY ExtMutexes, ExtSignals
<1>5. SignalInv \/ Others => NoLostWakeup
  BY DEF SignalInv, NoLostWakeup, Ext!NoLostWakeup, Asleep, Ext!AbortReadable
<1> HIDE DEF Others
<1> QED
  BY <1>1, <1>2, <1>3, <1>4, <1>5, PTL DEF DatagramSpec, Ext!Spec

\* The threads hold the mutexes their places in the code need.
THEOREM ExternalMutexesSafe ==
  ASSUME MaxCreates = 1
  PROVE  Ext!Spec => []HoldsWhatItNeeds
<1>1. Ext!Init => MutexInv
  BY InitMutex DEF Ext!Init, Ext!TransmitterInit, TransmitterInit
<1>2. MutexInv /\ [Ext!Next]_Ext!vars => MutexInv'
  BY ExtMutexes
<1>3. MutexInv => HoldsWhatItNeeds
  BY DEF MutexInv
<1> QED
  BY <1>1, <1>2, <1>3, PTL DEF Ext!Spec

=============================================================================
