\* A transmitter destroyed under a waiting thread and created again by a third.
SPECIFICATION MCSpec
CONSTANTS
  Uses <- RecreateUses
  Threads = {t1, t2, t3}
  Nobody = Nobody
  MaxCreates = 2
  MaxSignals = 2
  MaxPackets = 2
  us = us
  loop = loop
  peer = peer
  Hosts = {loop}
  OurHosts = {loop}
  Loopback = loop
  Ports = {2, 3}
  Destinations = {}
  Groups = {}
  MaxPort = 3
  UserPorts <- MCUserPorts
  MaxInbox = 1
  c1 = c1
  c2 = c2
  Conns = {c1}
  Base = 2
  Packets <- NoPackets
  RTCPType = 1
  k1 = k1
  k2 = k2
  k3 = k3
  Keys = {}
  Cells = {}
  Null = Null
  None = None
  Unset = Unset
  HashSize = 2
  GetIndex <- MCGetIndex
INVARIANTS HoldsWhatItNeeds
CHECK_DEADLOCK FALSE
