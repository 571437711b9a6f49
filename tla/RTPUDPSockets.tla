---------------------------- MODULE RTPUDPSockets ----------------------------
(***************************************************************************)
(* The two sockets of a UDP transmitter and the network around them.  The   *)
(* operating system's side is external: which sockets are open and where    *)
(* they are bound, their multicast memberships, and the datagrams queued in *)
(* them.  The sockets "user1" and "user2" belong to the application, which  *)
(* may lend them to a transmitter; the other two are the transmitter's.     *)
(***************************************************************************)
EXTENDS RTPIPTransmitter, SequencesExt

CONSTANTS
  Groups,          \* multicast groups
  MaxPort,         \* 0xFFFF
  UserPorts,       \* the ports the application's sockets are bound to
  MaxInbox         \* bound: datagrams queued in a socket

ASSUME SocketAssumption ==
  /\ MaxPort \in Nat /\ MaxInbox \in Nat
  /\ \A s \in {"user1", "user2"} : UserPorts[s] \in Nat \ {0}
  /\ UserPorts["user1"] # UserPorts["user2"]

VARIABLES
  rtpsock,
  rtcpsock,
  closesocketswhendone,
  m_rtpPort,
  m_rtcpPort,
  supportsmulticasting,
  multicastgroups,
  boundto,         \* the port of each open socket, 0 for one that is closed
  members,         \* the groups each socket is a member of
  inbox            \* datagrams in each socket, as [host, port, type, from]

sockvars == <<rtpsock, rtcpsock, closesocketswhendone, m_rtpPort, m_rtcpPort,
              supportsmulticasting>>
sysvars == <<boundto, members, inbox>>
udpvars == <<sockvars, sysvars, multicastgroups>>

OwnSockets == {"own1", "own2"}
UserSockets == {"user1", "user2"}
Sockets == OwnSockets \cup UserSockets

\* Of the packets in datagrams; others are taken for one of the two.
Types == {"RTP", "RTCP"}

InUse == {rtpsock, rtcpsock}
Multiplexing == rtpsock = rtcpsock

-----------------------------------------------------------------------------
(* Create and Destroy *)

Even(port) == port % 2 = 0

\* The ports automatic binding may come to: any that no socket has, and its
\* neighbour so that the RTP port is even, or an only one when multiplexing.
AutoPorts(allowOdd, mux) ==
  {pair \in Ports \X Ports :
     IF mux THEN pair[1] = pair[2] /\ (Even(pair[1]) \/ allowOdd)
            ELSE Even(pair[1]) /\ pair[2] = pair[1] + 1}

\* The ports that come of a given base: the RTCP port is forced or the next
\* one, except after the last.
BasePorts(base, allowOdd, mux, forced) ==
  LET next == IF base < MaxPort THEN base + 1 ELSE base
  IN  IF ~Even(base) /\ ~allowOdd THEN {}
      ELSE IF mux THEN {<<base, base>>}
      ELSE {<<base, IF forced # 0 THEN forced ELSE next>>}

\* bind accepts a pair of ports: they are free, and distinct for two sockets.
Bindable(pair, mux) ==
  /\ \A s \in UserSockets : boundto[s] \notin {pair[1], pair[2]}
  /\ mux \/ pair[1] # pair[2]

\* What Create may obtain: two sockets of our own, or one for both, bound to
\* one of the pairs of ports ...
OwnPairs(pairs, mux) ==
  LET rtcp == IF mux THEN "own1" ELSE "own2"
  IN  {[rtp |-> "own1", rtcp |-> rtcp, own |-> TRUE, ports |-> pair,
        bound |-> [boundto EXCEPT !["own1"] = pair[1], ![rtcp] = pair[2]]] :
         pair \in {p \in pairs : Bindable(p, mux)}}

\* ... or the application's two sockets, or one of them for both.
UserPairs ==
  {[rtp |-> "user1", rtcp |-> s, own |-> FALSE,
    ports |-> <<boundto["user1"], boundto[s]>>, bound |-> boundto] :
     s \in UserSockets}

\* Mutant: the RTCP port is taken to be the one after the RTP port.
ObtainNext(pair) ==
  /\ rtpsock' = pair.rtp
  /\ rtcpsock' = pair.rtcp
  /\ closesocketswhendone' = pair.own
  /\ m_rtpPort' = pair.ports[1]
  /\ m_rtcpPort' = pair.ports[1] + 1

\* Create remembers what it obtained.
Obtain(pair) ==
  /\ rtpsock' = pair.rtp
  /\ rtcpsock' = pair.rtcp
  /\ closesocketswhendone' = pair.own
  /\ m_rtpPort' = pair.ports[1]
  /\ m_rtcpPort' = pair.ports[2]

\* Mutant: the application's sockets are closed like our own.
CLOSESOCKETSAll(pair) ==
  [s \in Sockets |-> IF s \in {pair.rtp, pair.rtcp} THEN 0 ELSE pair.bound[s]]

\* The sockets are closed only if they are our own.
CLOSESOCKETS(pair) ==
  [s \in Sockets |->
     IF pair.own /\ s \in {pair.rtp, pair.rtcp} THEN 0 ELSE pair.bound[s]]

\* A later step of Create fails: what it opened is closed again.  The local
\* addresses stay when they were found before.
SocketsGivenUp(pair) ==
  /\ Obtain(pair)
  /\ boundto' = CLOSESOCKETS(pair)
  /\ CreateFailed
  /\ UNCHANGED <<filtervars, destinations, multicastgroups, members, inbox>>

\* The end of Create, with the addresses ips.
SocketsCreated(pair, own, ips) ==
  /\ Obtain(pair)
  /\ boundto' = pair.bound
  /\ Created(own)
  /\ ForgetHostName
  /\ AddressesCreated(ips)
  /\ UNCHANGED <<multicastgroups, members, inbox>>

\* Destroy closes what CLOSESOCKETS closes; a closed socket leaves its groups
\* and what was queued in it is lost.
SocketsDestroyed(t) ==
  LET closed == CLOSESOCKETS([rtp |-> rtpsock, rtcp |-> rtcpsock,
                              own |-> closesocketswhendone, bound |-> boundto])
  IN  /\ Destroyed(t)
      /\ ForgetHostName
      /\ AddressesDestroyed
      /\ boundto' = closed
      /\ members' = [s \in Sockets |->
                       IF closed[s] = 0 THEN {} ELSE members[s]]
      /\ inbox' = [s \in Sockets |-> IF closed[s] = 0 THEN <<>> ELSE inbox[s]]
      /\ multicastgroups' = {}
      /\ UNCHANGED sockvars

-----------------------------------------------------------------------------
(* Sending and receiving *)

\* A datagram from the network or from another program, not from a socket.
Other == "other"

\* The network and other programs send to a socket of ours, the latter from
\* ports that are not ours.
Deliver(s, host, port, type) ==
  /\ s \in InUse /\ boundto[s] # 0
  /\ Len(inbox[s]) < MaxInbox
  /\ host \in OurHosts => \A r \in Sockets : port # boundto[r]
  /\ inbox' = [inbox EXCEPT ![s] =
       Append(@, [host |-> host, port |-> port, type |-> type, from |-> Other])]
  /\ UNCHANGED <<commonvars, ipvars, sockvars, multicastgroups, boundto, members>>

\* The socket that receives what is sent to a port of this machine, if any.
Receivers(host, port) ==
  {s \in Sockets : host \in OurHosts /\ boundto[s] # 0 /\ boundto[s] = port}

\* sendto each destination, at its port for the type; only what comes back to
\* a socket of this machine is seen again, and a full socket drops it.
SendFrom(t, sock, type, field) ==
  LET back(s) == {[host |-> d.host, port |-> boundto[sock], type |-> type,
                   from |-> sock] :
                    d \in {e \in destinations : s \in Receivers(e.host, e[field])}}
      queued(s) == inbox[s] \o SetToSeq(back(s))
  IN  /\ Works(t)
      /\ inbox' = [s \in Sockets |->
                     IF Len(queued(s)) <= MaxInbox THEN queued(s) ELSE inbox[s]]
      /\ UNCHANGED <<commonvars, ipvars, sockvars, multicastgroups,
                     boundto, members>>

\* The raw packet that a datagram makes, with one socket's types for RTP.
RawPacket(d, rtptypes) ==
  [host |-> d.host, port |-> d.port, own |-> d.from \in InUse,
   isrtp |-> d.type \in rtptypes]

\* PollSocket reads all there is in a socket.  Of the datagrams those that are
\* accepted make raw packets, in their order, except empty ones.
Drain(sock, accepted, rtptypes) ==
  LET kept == {i \in DOMAIN inbox[sock] :
                 inbox[sock][i] \in accepted /\ inbox[sock][i].type # "empty"}
  IN  /\ \E place \in [1..Cardinality(kept) -> kept] :
           /\ \A i, j \in DOMAIN place : i < j => place[i] < place[j]
           /\ rawpacketlist' = rawpacketlist \o
                [i \in DOMAIN place |-> RawPacket(inbox[sock][place[i]], rtptypes)]
      /\ inbox' = [inbox EXCEPT ![sock] = <<>>]

\* Poll's second half, for the RTCP socket.
PollAgain(t, poll) ==
  /\ at[t] = "polling"
  /\ poll
  /\ mainmutex' = Nobody
  /\ Goto(t, "outside")
  /\ UNCHANGED <<lifevars, waitvars, waitmutex, localhostname,
                 ipvars, sockvars, multicastgroups, boundto, members>>

\* Poll's first half, for the RTP socket, which is all when multiplexing.
PollOnce(t, poll) ==
  /\ Works(t)
  /\ Len(rawpacketlist) + 2 * MaxInbox <= MaxPackets
  /\ poll
  /\ IF Multiplexing THEN UNCHANGED <<mainmutex, at>>
                     ELSE mainmutex' = t /\ Goto(t, "polling")
  /\ UNCHANGED <<lifevars, waitvars, waitmutex, localhostname,
                 ipvars, sockvars, multicastgroups, boundto, members>>

-----------------------------------------------------------------------------
(* Multicast groups *)

\* Mutant: the membership of the first socket is not dropped when the second
\* one fails.
JoinHalf(t, g) ==
  /\ Works(t)
  /\ g \notin multicastgroups
  /\ \/ /\ \A s \in InUse : g \notin members[s]
        /\ multicastgroups' = multicastgroups \cup {g}
        /\ members' = [s \in Sockets |->
             IF s \in InUse THEN members[s] \cup {g} ELSE members[s]]
     \/ /\ members' = [members EXCEPT ![rtpsock] = @ \cup {g}]
        /\ UNCHANGED multicastgroups
  /\ UNCHANGED <<commonvars, ipvars, sockvars, boundto, inbox>>

\* IP_ADD_MEMBERSHIP on each of the sockets; it fails for one that is a
\* member already, and may fail otherwise.  When the second one fails the
\* first one is dropped again, and the group is taken off the list.
Join(t, g) ==
  /\ Works(t)
  /\ g \notin multicastgroups
  /\ \/ /\ \A s \in InUse : g \notin members[s]
        /\ multicastgroups' = multicastgroups \cup {g}
        /\ members' = [s \in Sockets |->
             IF s \in InUse THEN members[s] \cup {g} ELSE members[s]]
     \/ UNCHANGED <<multicastgroups, members>>
  /\ UNCHANGED <<commonvars, ipvars, sockvars, boundto, inbox>>

\* The groups are dropped from both sockets and the list.
LeaveGroups(t, groups) ==
  /\ Works(t)
  /\ groups \subseteq multicastgroups
  /\ multicastgroups' = multicastgroups \ groups
  /\ members' = [s \in Sockets |->
       IF s \in InUse THEN members[s] \ groups ELSE members[s]]
  /\ UNCHANGED <<commonvars, ipvars, sockvars, boundto, inbox>>

UDPInit ==
  /\ IPInit
  /\ rtpsock = "own1" /\ rtcpsock = "own2"
  /\ closesocketswhendone = TRUE
  /\ m_rtpPort = 0 /\ m_rtcpPort = 0
  /\ supportsmulticasting = FALSE
  /\ multicastgroups = {}
  /\ boundto = [s \in Sockets |-> IF s \in UserSockets THEN UserPorts[s] ELSE 0]
  /\ members = [s \in Sockets |-> {}]
  /\ inbox = [s \in Sockets |-> <<>>]

-----------------------------------------------------------------------------
(* Properties *)

\* The sockets that are open are the application's and those a transmitter in
\* use opened for itself: no failing Create, and no Destroy, leaks one or
\* closes the application's.
SocketsReleased ==
  {s \in Sockets : boundto[s] # 0} =
    UserSockets \cup (IF created THEN InUse \cap OwnSockets ELSE {})

\* Each socket is a member of the groups in the list, and of no others unless
\* an earlier transmitter left them behind in a socket of the application: a
\* join that succeeds for one socket only leaves nothing behind.
MembersMatch ==
  created =>
    \A s \in InUse :
      /\ multicastgroups \subseteq members[s]
      /\ closesocketswhendone => members[s] = multicastgroups

=============================================================================
