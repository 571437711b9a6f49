-------------------------- MODULE RTPTCPTransmitter --------------------------
(***************************************************************************)
(* RTP over TCP connections that the application made: each packet is sent  *)
(* as two bytes of length and its data, and read again in whatever pieces   *)
(* the bytes arrive.                                                        *)
(*                                                                          *)
(* The other end of a connection is a transmitter like this one, so that    *)
(* what is sent on a connection is also what arrives on it.  A byte is a    *)
(* number below Base; a packet is a sequence of bytes.                      *)
(***************************************************************************)
EXTENDS RTPTransmitter

CONSTANTS
  Conns,          \* the application's connected sockets
  Base,           \* the values of a byte, two or more
  Packets,        \* what may be sent, sequences of fewer than Base * Base bytes
  RTCPType        \* the first byte of an RTCP packet

ASSUME FramingAssumption ==
  /\ Base \in Nat /\ Base > 1
  /\ Packets \subseteq Seq(0..Base - 1)
  /\ \A p \in Packets : Len(p) < Base * Base

VARIABLES
  m_destSockets,
  sdata,          \* the SocketData of each, bytes of the length and the data
  m_tmpSocks,     \* the sockets RTPSelect looks at
  topoll,         \* in Poll: the sockets that are left
  errSockets,     \* in Poll: whether there was an error
  flight,         \* bytes on their way
  wire,           \* bytes that have arrived and were not read
  broken,         \* connections whose framing was lost
  sent,           \* history: packets sent on connections that are not broken
  received        \* history: packets received on them

framevars == <<sdata, flight, wire, broken, sent, received>>
pollvars == <<topoll, errSockets>>
tcpvars == <<m_destSockets, m_tmpSocks, framevars, pollvars>>
vars == <<commonvars, tcpvars>>

Reset == [length |-> <<>>, data |-> <<>>]

-----------------------------------------------------------------------------
(* Life cycle *)

Create(t) ==
  /\ MayCreate(t)
  /\ \E own \in BOOLEAN : Created(own)
  /\ UNCHANGED <<localhostname, tcpvars>>

\* A packet that was read in part is lost, and the framing with it.
ClearDestSockets ==
  /\ m_destSockets' = {}
  /\ broken' = [c \in Conns |-> broken[c] \/ sdata[c] # Reset]
  /\ sdata' = [c \in Conns |-> Reset]

Destroy(t) ==
  /\ Destroyed(t)
  /\ ClearDestSockets
  /\ UNCHANGED <<localhostname, m_tmpSocks, pollvars, flight, wire, sent, received>>

GetLocalHostName(t) == NameHost(t, {"name"}) /\ UNCHANGED tcpvars

DestroyWaitsForWait(t) == DestroyWaits(t) /\ UNCHANGED tcpvars

DestroyEnds(t) == DestroyUnlocks(t) /\ UNCHANGED tcpvars

-----------------------------------------------------------------------------
(* Waiting *)

\* The sockets of now are looked at until the wait ends.
WaitForIncomingData(t) ==
  /\ StartWaiting(t)
  /\ m_tmpSocks' = m_destSockets
  /\ UNCHANGED <<m_destSockets, framevars, pollvars>>

WaitStep(t) ==
  /\ \/ LockWaitMutex(t)
     \/ AbortReadable /\ RTPSelect(t)
     \/ Woken(t)
     \/ ReadAbort(t, ReadSignallingByte)
     \/ UnlockWaitMutex(t)
  /\ UNCHANGED tcpvars

WaitEnds(t) == RTPSelectFails(t) /\ UNCHANGED tcpvars

AbortWait(t) == SignalWaiter(t) /\ UNCHANGED tcpvars

-----------------------------------------------------------------------------
(* Destinations *)

\* Mutant: the wait is not aborted.
AddDestinationSilently(t, c) ==
  /\ Works(t)
  /\ c \notin m_destSockets
  /\ m_destSockets' = m_destSockets \cup {c}
  /\ UNCHANGED <<commonvars, m_tmpSocks, framevars, pollvars>>

\* Aborts a wait that may be in progress: the new socket is not looked at.
AddDestination(t, c) ==
  /\ Works(t)
  /\ c \notin m_destSockets
  /\ m_destSockets' = m_destSockets \cup {c}
  /\ abortbytes < MaxSignals
  /\ SendAbortSignal
  /\ UNCHANGED <<lifevars, mutexvars, waitingfordata, abortflag, datavars, at,
                 m_tmpSocks, framevars, pollvars>>

\* May be called from OnReceiveError and OnSendError.
DeleteDestination(t, c) ==
  /\ at[t] \in {"outside", "calling"} /\ mainmutex = Nobody /\ created
  /\ c \in m_destSockets
  /\ m_destSockets' = m_destSockets \ {c}
  /\ broken' = [broken EXCEPT ![c] = @ \/ sdata[c] # Reset]
  /\ sdata' = [sdata EXCEPT ![c] = Reset]
  /\ UNCHANGED <<commonvars, m_tmpSocks, pollvars, flight, wire, sent, received>>

ClearDestinations(t) ==
  /\ Works(t)
  /\ ClearDestSockets
  /\ UNCHANGED <<commonvars, m_tmpSocks, pollvars, flight, wire, sent, received>>

-----------------------------------------------------------------------------
(* Sending *)

\* Two bytes, the high one first.
LengthBytes(p) == <<Len(p) \div Base, Len(p) % Base>>

\* What can become of the two calls of send for a connection: all is sent; the
\* connection takes a part and says so, which nobody looks at; the second or
\* the first call fails.
Outcomes == {"sent", "short", "halfway", "refused"}

Written(p, outcome) ==
  CASE outcome = "sent"    -> LengthBytes(p) \o p
    [] outcome = "short"   -> SubSeq(LengthBytes(p) \o p, 1, 1 + Len(p))
    [] outcome = "halfway" -> LengthBytes(p)
    [] outcome = "refused" -> <<>>

\* Afterwards OnSendError is called for each connection that failed.
SendRTPRTCPData(t, p) ==
  \E outcome \in [m_destSockets -> Outcomes] :
    LET whole == {c \in m_destSockets : outcome[c] = "sent" /\ ~broken[c]}
    IN  /\ Works(t)
        /\ flight' = [c \in Conns |->
             IF c \in m_destSockets THEN flight[c] \o Written(p, outcome[c])
                                    ELSE flight[c]]
        /\ sent' = [c \in Conns |->
             IF c \in whole THEN Append(sent[c], p) ELSE sent[c]]
        /\ broken' = [c \in Conns |->
             \/ broken[c]
             \/ c \in m_destSockets /\ outcome[c] \in {"short", "halfway"}]
        /\ IF \E c \in m_destSockets : outcome[c] \in {"halfway", "refused"}
           THEN Goto(t, "calling")
           ELSE UNCHANGED at
        /\ UNCHANGED <<lifevars, mutexvars, waitvars, datavars, m_destSockets,
                       m_tmpSocks, sdata, wire, received, pollvars>>

SendRTPData(t, p) == SendRTPRTCPData(t, p)

SendRTCPData(t, p) == SendRTPRTCPData(t, p)

\* The application returns from OnSendError or OnReceiveError.
ErrorHandled(t) ==
  /\ at[t] = "calling"
  /\ Goto(t, "outside")
  /\ UNCHANGED <<lifevars, mutexvars, waitvars, datavars, tcpvars>>

\* Bytes arrive, any number at a time.
Arrive(c) ==
  \E n \in 1..Len(flight[c]) :
    /\ wire' = [wire EXCEPT ![c] = @ \o SubSeq(flight[c], 1, n)]
    /\ flight' = [flight EXCEPT ![c] = SubSeq(@, n + 1, Len(@))]
    /\ UNCHANGED <<commonvars, m_destSockets, m_tmpSocks, pollvars, sdata,
                   broken, sent, received>>

-----------------------------------------------------------------------------
(* Receiving *)

AtMost(n, s) == IF n < Len(s) THEN n ELSE Len(s)

DataLength(length) == length[1] * Base + length[2]

\* Mutant: a length that comes in two pieces starts again.
ProcessBytesRestarting(d, bytes) ==
  LET needed  == AtMost(2 - Len(d.length), bytes)
      length  == IF Len(d.length) < 2 /\ Len(bytes) < 2 THEN <<>>
                 ELSE d.length \o SubSeq(bytes, 1, needed)
      rest    == SubSeq(bytes, needed + 1, Len(bytes))
      missing == IF Len(length) < 2 THEN 0
                 ELSE AtMost(DataLength(length) - Len(d.data), rest)
  IN  [length |-> length,
       data   |-> d.data \o SubSeq(rest, 1, missing),
       read   |-> needed + missing]

\* SocketData::ProcessAvailableBytes reads what is missing of the length, then
\* what is missing of the data.
ProcessAvailableBytes(d, bytes) ==
  LET needed  == AtMost(2 - Len(d.length), bytes)
      length  == d.length \o SubSeq(bytes, 1, needed)
      rest    == SubSeq(bytes, needed + 1, Len(bytes))
      missing == IF Len(length) < 2 THEN 0
                 ELSE AtMost(DataLength(length) - Len(d.data), rest)
  IN  [length |-> length,
       data   |-> d.data \o SubSeq(rest, 1, missing),
       read   |-> needed + missing]

Complete(d) == Len(d.length) = 2 /\ Len(d.data) = DataLength(d.length)

\* A turn of PollSocket's loop for a connection where bytes are available.
ReadSocket(c) ==
  LET d == ProcessAvailableBytes(sdata[c], wire[c])
  IN  /\ wire[c] # <<>>
      /\ wire' = [wire EXCEPT ![c] = SubSeq(@, d.read + 1, Len(@))]
      /\ IF Complete(d)
         THEN /\ sdata' = [sdata EXCEPT ![c] = Reset]
              /\ rawpacketlist' = Append(rawpacketlist,
                   [conn  |-> c,
                    isrtp |-> d.data = <<>> \/ d.data[1] # RTCPType])
              /\ received' = IF broken[c] THEN received
                             ELSE [received EXCEPT ![c] = Append(@, d.data)]
         ELSE /\ sdata' = [sdata EXCEPT ![c] =
                             [length |-> d.length, data |-> d.data]]
              /\ UNCHANGED <<rawpacketlist, received>>
      /\ UNCHANGED <<topoll, errSockets, broken>>

\* recv fails, and the connection is polled no further this time.
ReadFails(c) ==
  /\ wire[c] # <<>>
  /\ topoll' = topoll \ {c}
  /\ errSockets' = TRUE
  /\ broken' = [broken EXCEPT ![c] = TRUE]
  /\ UNCHANGED <<rawpacketlist, sdata, wire, received>>

\* Nothing is left to read from a connection.
SocketDone(c) ==
  /\ wire[c] = <<>>
  /\ topoll' = topoll \ {c}
  /\ UNCHANGED <<rawpacketlist, errSockets, sdata, wire, broken, received>>

PollSocket(t) ==
  /\ at[t] = "polling"
  /\ \E c \in topoll : ReadSocket(c) \/ ReadFails(c) \/ SocketDone(c)
  /\ UNCHANGED <<lifevars, mutexvars, waitvars, localhostname, at,
                 m_destSockets, m_tmpSocks, flight, sent>>

\* Locks the main mutex and goes through all connections.
Poll(t) ==
  /\ Works(t)
  /\ mainmutex' = t
  /\ Goto(t, "polling")
  /\ topoll' = m_destSockets
  /\ errSockets' = FALSE
  /\ UNCHANGED <<lifevars, waitmutex, waitvars, datavars, m_destSockets,
                 m_tmpSocks, framevars>>

\* Unlocks it, and OnReceiveError is called for each that failed.
PollEnds(t) ==
  /\ at[t] = "polling"
  /\ topoll = {}
  /\ mainmutex' = Nobody
  /\ Goto(t, IF errSockets THEN "calling" ELSE "outside")
  /\ UNCHANGED <<lifevars, waitmutex, waitvars, datavars, tcpvars>>

GetNextPacket(t) == TakePacket(t) /\ UNCHANGED tcpvars

-----------------------------------------------------------------------------
Init ==
  /\ TransmitterInit
  /\ m_destSockets = {}
  /\ sdata = [c \in Conns |-> Reset]
  /\ m_tmpSocks = {}
  /\ topoll = {}
  /\ errSockets = FALSE
  /\ flight = [c \in Conns |-> <<>>]
  /\ wire = flight
  /\ broken = [c \in Conns |-> FALSE]
  /\ sent = flight
  /\ received = flight

Step(t) ==
  \/ WaitStep(t) \/ DestroyWaitsForWait(t) \/ DestroyEnds(t)
  \/ PollSocket(t) \/ PollEnds(t) \/ ErrorHandled(t)

LifeCycle(t) == Create(t) \/ Destroy(t) \/ GetLocalHostName(t)

Waiting(t) == WaitForIncomingData(t) \/ WaitEnds(t) \/ AbortWait(t)

Receiving(t) == Poll(t) \/ GetNextPacket(t)

Connecting(t) ==
  \/ \E c \in Conns : AddDestination(t, c) \/ DeleteDestination(t, c)
  \/ ClearDestinations(t)

\* Bound: no connection is sent more than MaxPackets.
Sending(t) ==
  /\ \A c \in m_destSockets : Len(sent[c]) < MaxPackets /\ ~broken[c]
  /\ m_destSockets # {}
  /\ \E p \in Packets : SendRTPData(t, p) \/ SendRTCPData(t, p)

Arriving == \E c \in Conns : Arrive(c)

Next ==
  \/ Arriving
  \/ \E t \in Threads :
       \/ Step(t) \/ LifeCycle(t) \/ Waiting(t) \/ Receiving(t)
       \/ Connecting(t) \/ Sending(t)

Spec == Init /\ [][Next]_vars /\ \A t \in Threads : SF_vars(Step(t))

-----------------------------------------------------------------------------
(* Properties *)

\* A thread that waits without looking at a connection added since then has
\* its wait aborted: packets on it need not wait for the delay to pass.
\* (AddDestination sends an abort signal for this.)
NewSocketMonitored ==
  \A t \in Threads :
    at[t] = "select" /\ ~(m_destSockets \subseteq m_tmpSocks) => AbortReadable

\* As long as neither end loses the framing, what is put into the list of
\* received packets is what was sent, in order, for any way the bytes of
\* lengths and packets are cut into pieces: the framing implements
\* RTPPacketStream.  (SocketData keeps its position across reads.)
Stream == INSTANCE RTPPacketStream

StreamImplemented == Stream!Spec

=============================================================================
