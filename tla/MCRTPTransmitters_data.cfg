\* One thread: what is sent and received, the multicast groups and the lists
\* of addresses, each by itself, over two lives of a transmitter; and the hash
\* table with three keys.
SPECIFICATION MCSpec
CONSTANTS
  Uses <- DataUses
  Threads = {t1}
  Nobody = Nobody
  MaxCreates = 2
  MaxSignals = 1
  MaxPackets = 2
  us = us
  loop = loop
  peer = peer
  Hosts = {us, loop, peer}
  OurHosts = {us, loop}
  Loopback = loop
  Ports = {2, 3}
  Destinations <- MCDestinations
  Groups = {g1, g2}
  MaxPort = 3
  UserPorts <- MCUserPorts
  MaxInbox = 1
  c1 = c1
  c2 = c2
  Conns = {c1}
  Base = 2
  Packets <- MCPackets
  RTCPType = 1
  k1 = k1
  k2 = k2
  k3 = k3
  Keys = {k1, k2, k3}
  Cells = {x, y, z}
  Null = Null
  None = None
  Unset = Unset
  HashSize = 2
  GetIndex <- MCGetIndex
INVARIANTS ListWithinSelected NoSocketLeaked OwnRecognised MembersMatch
PROPERTIES StreamImplemented TableImplemented
CHECK_DEADLOCK FALSE
