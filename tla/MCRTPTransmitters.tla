-------------------------- MODULE MCRTPTransmitters --------------------------
(***************************************************************************)
(* The five transmitters for TLC.  A behaviour is that of one kind of       *)
(* transmitter, used in one way: by several threads, or by one for sending  *)
(* and receiving, for its multicast groups, or for its lists of addresses;  *)
(* or that of the hash table in which it keeps them.  The names of TCP are  *)
(* here without a prefix; connections are only used by it.                  *)
(***************************************************************************)
EXTENDS RTPTCPTransmitter, RTPDatagramTransmitters, RTPHashFunction, TLC

CONSTANTS
  Uses,               \* the protocols and uses of a run, as pairs
  us, loop, peer, c1, c2,
  None, Unset,                        \* of RTPKeyHashTable
  k1, k2, k3

VARIABLES
  use,
  table, allocated, key, hashprev, hashnext, listprev, listnext,
  firsthashelem, lasthashelem, curhashelem, positioned  \* of RTPKeyHashTable

Table == INSTANCE RTPKeyHashTable

fakevars == <<portbase, currentdata, handedout>>
extvars == <<sender, m_abortCount>>
tablevars == <<table, allocated, key, hashprev, hashnext, listprev, listnext,
               firsthashelem, lasthashelem, curhashelem, positioned>>
mcvars == <<proto, use, commonvars, ipvars, udpvars, fakevars, extvars, tcpvars,
            tablevars>>

\* What the transmitters that are not used leave alone.
OthersIdle ==
  /\ UNCHANGED <<proto, use>>
  /\ proto \notin UDPProtocols \cup {"UserDefinedProto"} => UNCHANGED ipvars
  /\ proto \notin UDPProtocols => UNCHANGED udpvars
  /\ proto # "UserDefinedProto" => UNCHANGED fakevars
  /\ proto # "ExternalProto" => UNCHANGED extvars
  /\ proto # "TCPProto" => UNCHANGED tcpvars
  /\ proto # "table" => UNCHANGED tablevars

V4Next(t) ==
  /\ proto = "IPv4UDPProto"
  /\ \/ V4!LifeCycle(t) \/ V4!Step(t)
     \/ use = "threads" /\ (V4!Waiting(t) \/ V4!Receiving(t))
     \/ use = "net" /\ (V4!Receiving(t) \/ V4!Sending(t) \/ V4!Arriving)
     \/ use = "groups" /\ V4!Grouping(t)
     \/ use = "lists" /\ V4!Filtering(t)
  /\ OthersIdle

V6Next(t) ==
  /\ proto = "IPv6UDPProto"
  /\ \/ V6!LifeCycle(t) \/ V6!Step(t)
     \/ use = "threads" /\ (V6!Waiting(t) \/ V6!Receiving(t))
     \/ use = "net" /\ (V6!Receiving(t) \/ V6!Sending(t) \/ V6!Arriving)
     \/ use = "groups" /\ V6!Grouping(t)
     \/ use = "lists" /\ V6!Filtering(t)
  /\ OthersIdle

FakeNext(t) ==
  /\ proto = "UserDefinedProto"
  /\ \/ Fake!LifeCycle(t)
     \/ use = "net" /\ (Fake!Receiving(t) \/ Fake!Sending(t) \/ Fake!Arriving)
     \/ use = "lists" /\ Fake!Filtering(t)
  /\ OthersIdle

TCPNext(t) ==
  /\ proto = "TCPProto"
  /\ \/ LifeCycle(t) \/ Step(t) \/ Connecting(t)
     \/ use = "threads" /\ (Waiting(t) \/ Receiving(t))
     \/ use = "net" /\ (Receiving(t) \/ Sending(t) \/ Arriving)
  /\ OthersIdle

ExtNext(t) ==
  /\ proto = "ExternalProto"
  /\ \/ Ext!LifeCycle(t) \/ Ext!Step(t) \/ Ext!Sending(t)
     \/ Ext!Waiting(t) \/ Ext!Receiving(t)
  /\ OthersIdle

TableNext ==
  /\ proto = "table"
  /\ Table!Next
  /\ OthersIdle /\ UNCHANGED commonvars

MCInit ==
  /\ \E u \in Uses : proto = u[1] /\ use = u[2]
  /\ V4!Init /\ V6!Init /\ Fake!Init /\ Init /\ Ext!Init /\ Table!Init
  /\ proto # "table" => curhashelem = Null

\* Bound: others send from these addresses, to a UDP transmitter RTP packets or
\* empty ones.
Others == {<<peer, 2>>, <<us, 3>>}

\* Bound: what Create may come to is varied only where it matters to the use.
Narrowed ==
  /\ use = "net" =>
       /\ localhostname' = "" /\ ~supportsmulticasting'
       /\ proto \in UDPProtocols \/ creates' <= 1
       /\ \A s \in Sockets, i \in 1..MaxInbox :
            i \in DOMAIN inbox'[s] /\ inbox'[s][i].from = Other =>
              /\ <<inbox'[s][i].host, inbox'[s][i].port>> \in Others
              /\ inbox'[s][i].type # "RTCP"
       /\ \A i \in DOMAIN currentdata' :
            <<currentdata'[i].host, currentdata'[i].port>> \in Others
  /\ use \in {"net", "groups", "lists"} /\ proto # "TCPProto" => ownabort'
  /\ use \in {"net", "groups", "lists"} => localIPs' \in {{}, OurHosts}
  /\ use = "threads" =>
       /\ localhostname' = "" /\ ~supportsmulticasting' /\ localIPs' \in {{}, OurHosts}
       /\ m_rtpPort' \in {0, 2} /\ m_rtcpPort' \in {0, 3}
  /\ use = "lists" =>
       /\ m_rtpPort' \in {0, 2} /\ m_rtcpPort' \in {0, 3}
       /\ acceptignoreinfo'[Loopback] = NoPorts
  /\ proto = "UserDefinedProto" => portbase' \in {0, 2}

MCNext ==
  /\ \E t \in Threads :
       V4Next(t) \/ V6Next(t) \/ FakeNext(t) \/ TCPNext(t) \/ ExtNext(t) \/ TableNext
  /\ Narrowed

\* A step in the middle of a call.
MCStep(t) ==
  \/ proto = "IPv4UDPProto" /\ V4!Step(t) /\ OthersIdle
  \/ proto = "IPv6UDPProto" /\ V6!Step(t) /\ OthersIdle
  \/ proto = "TCPProto" /\ Step(t) /\ OthersIdle
  \/ proto = "ExternalProto" /\ Ext!Step(t) /\ OthersIdle

MCSpec ==
  MCInit /\ [][MCNext]_mcvars /\ \A t \in Threads : SF_mcvars(MCStep(t))

-----------------------------------------------------------------------------
(* Values of the constants *)

ThreadUses == (UDPProtocols \cup {"TCPProto", "ExternalProto"}) \X {"threads"}

DataUses ==
  (UDPProtocols \X {"net", "groups", "lists"}) \cup
  ({"UserDefinedProto"} \X {"net", "lists"}) \cup {<<"TCPProto", "net">>, <<"table", "keys">>}

RecreateUses == {<<"IPv4UDPProto", "threads">>}

MCUserPorts == [s \in UserSockets |-> IF s = "user1" THEN 6 ELSE 7]

\* To ourselves at the ports 2 and 3 over the interface, and over loopback to
\* one port for both; and to another machine.
MCDestinations ==
  {[host |-> us, rtp |-> 2, rtcp |-> 3], [host |-> loop, rtp |-> 2, rtcp |-> 2]}

\* All sequences of up to two bytes.
MCPackets == UNION {[1..n -> 0..Base - 1] : n \in 0..2}

NoPackets == {}

\* Two keys in one bucket and one in another.
MCGetIndex == [k \in Keys |-> IF k = k3 THEN 1 ELSE 0]

-----------------------------------------------------------------------------
(* Properties *)

\* The hash tables keep an ordered set of keys (RTPKeyHashTable).
TableImplemented == Table!TableImplemented

=============================================================================
