---------------------- MODULE RTPTCPTransmitterProofs ----------------------
(***************************************************************************)
(* A connection that is added while a thread waits is looked at, or the     *)
(* wait is aborted; the threads hold the mutexes they need; and the packets  *)
(* that come out of a connection are those that were sent on it, in order.  *)
(***************************************************************************)
EXTENDS RTPTCPTransmitter, RTPTransmitterProofs, SequenceTheorems

\* From where m_tmpSocks is filled to where the wait is over.
InWait == {"waitlock", "select", "woken"}

\* One thread waits at a time, so that m_tmpSocks is its own.
WaitInv ==
  /\ \A s, t \in Threads : at[s] \in InWait /\ at[t] \in InWait => s = t
  /\ \A t \in Threads :
       at[t] \in InWait => creates = MaxCreates /\ (created => waitingfordata)

\* What it does not look at has sent a signal, which only a thread that holds
\* both mutexes reads.
MonitorInv ==
  /\ abortbytes \in Nat
  /\ ~created => m_destSockets = {}
  /\ \A t \in Threads :
       at[t] \in {"waitlock", "select"} /\ ~(m_destSockets \subseteq m_tmpSocks)
         => abortbytes > 0

Inv == MutexInv /\ WaitInv /\ MonitorInv

-----------------------------------------------------------------------------
(* Steps that leave everything in order *)

\* Nothing of the waiting changes, and no connection is added.
LEMMA SocketStep ==
  ASSUME Inv, UNCHANGED <<lifevars, mutexvars, waitvars, at, m_tmpSocks>>,
         m_destSockets' \subseteq m_destSockets
  PROVE  Inv'
<1>1. MutexInv'
  BY QuietStep DEF Inv, lifevars
<1>2. WaitInv' /\ MonitorInv'
  BY DEF Inv, WaitInv, MonitorInv, lifevars, waitvars
<1> QED
  BY <1>1, <1>2 DEF Inv

\* A thread goes where it does not wait.
LEMMA LeaveStep ==
  ASSUME Inv, MutexInv', NEW t \in Threads,
         NEW l \in Locations \ InWait, Goto(t, l),
         UNCHANGED <<created, creates, waitingfordata, abortbytes, m_destSockets,
                     m_tmpSocks>>
  PROVE  Inv'
<1>1. \A s \in Threads : at'[s] = IF s = t THEN l ELSE at[s]
  BY DEF Inv, MutexInv, Goto
<1>2. \A s \in Threads : at'[s] \in InWait => at'[s] = at[s]
  BY <1>1
<1>3. WaitInv'
  BY <1>2 DEF Inv, WaitInv
<1>4. MonitorInv'
  BY <1>2 DEF Inv, MonitorInv, InWait
<1> QED
  BY <1>3, <1>4 DEF Inv

-----------------------------------------------------------------------------
(* Waiting *)

LEMMA WaitForIncomingDataStep ==
  ASSUME MaxCreates = 1, Inv, NEW t \in Threads, WaitForIncomingData(t)
  PROVE  Inv'
<1>1. /\ created /\ ~waitingfordata /\ waitingfordata'
      /\ m_tmpSocks' = m_destSockets /\ Goto(t, "waitlock")
      /\ UNCHANGED <<created, creates, abortbytes, m_destSockets>>
  BY DEF WaitForIncomingData, StartWaiting, Works, lifevars
<1>2. MutexInv'
  BY StartWaitingStep DEF Inv, WaitForIncomingData
<1>3. \A s \in Threads : at[s] \notin InWait
  BY <1>1 DEF Inv, WaitInv
<1>4. \A s \in Threads : at'[s] \in InWait => s = t
  BY <1>1, <1>3 DEF Inv, MutexInv, Goto
<1>5. creates = MaxCreates
  BY <1>1 DEF Inv, MutexInv, OneLife
<1>6. WaitInv'
  BY <1>1, <1>4, <1>5 DEF WaitInv
<1>7. MonitorInv'
  BY <1>1 DEF Inv, MonitorInv
<1> QED
  BY <1>2, <1>6, <1>7 DEF Inv

LEMMA LockStep ==
  ASSUME Inv, NEW t \in Threads, LockWaitMutex(t), UNCHANGED tcpvars
  PROVE  Inv'
<1>1. /\ at[t] = "waitlock" /\ Goto(t, "select")
      /\ UNCHANGED <<created, creates, waitingfordata, abortbytes, m_destSockets,
                     m_tmpSocks>>
  BY DEF LockWaitMutex, lifevars, waitvars, tcpvars
<1>2. MutexInv'
  BY LockWaitMutexStep DEF Inv
<1>3. \A s \in Threads : at'[s] = IF s = t THEN "select" ELSE at[s]
  BY <1>1 DEF Inv, MutexInv, Goto
<1>4. WaitInv' /\ MonitorInv'
  BY <1>1, <1>3 DEF Inv, WaitInv, MonitorInv, InWait
<1> QED
  BY <1>2, <1>4 DEF Inv

LEMMA SelectStep ==
  ASSUME Inv, NEW t \in Threads, RTPSelect(t) \/ RTPSelectFails(t),
         UNCHANGED tcpvars
  PROVE  Inv'
<1>1. /\ at[t] = "select" /\ Goto(t, "woken")
      /\ UNCHANGED <<created, creates, waitingfordata, abortbytes, m_destSockets,
                     m_tmpSocks>>
  BY DEF RTPSelect, RTPSelectFails, lifevars, tcpvars
<1>2. MutexInv'
  BY RTPSelectStep DEF Inv
<1>3. \A s \in Threads : at'[s] = IF s = t THEN "woken" ELSE at[s]
  BY <1>1 DEF Inv, MutexInv, Goto
<1>4. WaitInv' /\ MonitorInv'
  BY <1>1, <1>3 DEF Inv, WaitInv, MonitorInv, InWait
<1> QED
  BY <1>2, <1>4 DEF Inv

\* The only thread that waits ends its wait.
LEMMA WakeStep ==
  ASSUME Inv, NEW t \in Threads, Woken(t), UNCHANGED tcpvars
  PROVE  Inv'
<1>1. /\ at[t] = "woken"
      /\ Goto(t, "reading") \/ Goto(t, "leaving")
      /\ UNCHANGED <<created, abortbytes, m_destSockets>>
  BY DEF Woken, lifevars, tcpvars
<1>2. MutexInv'
  BY WokenStep DEF Inv
<1>3. \A s \in Threads : at'[s] \notin InWait
  BY <1>1 DEF Inv, MutexInv, WaitInv, Goto, InWait
<1>4. WaitInv' /\ MonitorInv'
  BY <1>1, <1>3 DEF Inv, WaitInv, MonitorInv, InWait
<1> QED
  BY <1>2, <1>4 DEF Inv

\* The thread that reads a signal holds both mutexes, so that nobody is in
\* RTPSelect or on the way to it.
LEMMA ReadStep ==
  ASSUME Inv, NEW t \in Threads, ReadAbort(t, ReadSignallingByte),
         UNCHANGED tcpvars
  PROVE  Inv'
<1>1. /\ at[t] = "reading" /\ Goto(t, "leaving")
      /\ abortbytes > 0 /\ abortbytes' = abortbytes - 1
      /\ UNCHANGED <<created, creates, waitingfordata, m_destSockets, m_tmpSocks>>
  BY DEF ReadAbort, ReadSignallingByte, lifevars, tcpvars
<1>2. MutexInv'
  BY ReadAbortStep DEF Inv, ReadAbort, lifevars
<1>3. \A s \in Threads : at[s] \notin {"waitlock", "select"}
  BY <1>1 DEF Inv, MutexInv, HoldsWhatItNeeds
<1>4. \A s \in Threads : at'[s] = IF s = t THEN "leaving" ELSE at[s]
  BY <1>1 DEF Inv, MutexInv, Goto
<1>5. WaitInv'
  BY <1>1, <1>4 DEF Inv, WaitInv, InWait
<1>6. MonitorInv'
  BY <1>1, <1>3, <1>4 DEF Inv, MonitorInv
<1> QED
  BY <1>2, <1>5, <1>6 DEF Inv

-----------------------------------------------------------------------------
(* Life cycle and connections *)

LEMMA CreateStep ==
  ASSUME MaxCreates = 1, Inv, NEW t \in Threads, Create(t)
  PROVE  Inv'
<1>1. PICK own \in BOOLEAN : Created(own) /\ MayCreate(t) /\ UNCHANGED tcpvars
  BY DEF Create
<1>2. MutexInv'
  BY <1>1, CreatedStep DEF Inv
<1>3. /\ creates < MaxCreates /\ ~created
      /\ abortbytes' \in {0, abortbytes}
      /\ UNCHANGED <<at, m_destSockets, m_tmpSocks>>
  BY <1>1 DEF MayCreate, Created, tcpvars
<1>4. \A s \in Threads : at[s] \notin InWait
  BY <1>3 DEF Inv, WaitInv
<1>5. WaitInv'
  BY <1>3, <1>4 DEF WaitInv
<1>6. MonitorInv'
  BY <1>3, <1>4 DEF Inv, MonitorInv, InWait
<1> QED
  BY <1>2, <1>5, <1>6 DEF Inv

LEMMA DestroyStep ==
  ASSUME Inv, NEW t \in Threads, Destroy(t)
  PROVE  Inv'
<1>1. /\ at[t] = "outside" /\ created' = FALSE
      /\ Goto(t, "destroylock") \/ UNCHANGED at
      /\ UNCHANGED <<creates, waitingfordata, m_tmpSocks>>
      /\ m_destSockets' = {}
  BY DEF Destroy, Destroyed, Works, Enters, ClearDestSockets
<1>2. abortbytes' \in {0, abortbytes + 1, abortbytes}
  BY DEF Destroy, Destroyed, SendAbortSignal
<1>3. MutexInv'
  BY DestroyedStep DEF Inv, Destroy
<1>4. \A s \in Threads : at'[s] \in InWait => at[s] \in InWait
  BY <1>1 DEF Inv, MutexInv, Goto, InWait
<1>5. WaitInv'
  BY <1>1, <1>4 DEF Inv, WaitInv
<1>6. MonitorInv'
  BY <1>1, <1>2 DEF Inv, MonitorInv
<1> QED
  BY <1>3, <1>5, <1>6 DEF Inv

\* One more signal, whoever sends it.
LEMMA SignalStep ==
  ASSUME Inv, SendAbortSignal,
         UNCHANGED <<lifevars, mutexvars, waitingfordata, at, m_tmpSocks>>,
         created
  PROVE  Inv'
<1>1. MutexInv'
  BY QuietStep DEF Inv, lifevars
<1>2. WaitInv'
  BY DEF Inv, WaitInv, lifevars
<1>3. MonitorInv'
  BY DEF Inv, MonitorInv, SendAbortSignal, lifevars
<1> QED
  BY <1>1, <1>2, <1>3 DEF Inv

-----------------------------------------------------------------------------
LEMMA NextStep ==
  ASSUME MaxCreates = 1, Inv, [Next]_vars
  PROVE  Inv'
<1>1. CASE UNCHANGED vars
  BY <1>1, SocketStep DEF vars, commonvars, tcpvars
<1>2. CASE Arriving
  BY <1>2, SocketStep DEF Arriving, Arrive, commonvars
<1>3. ASSUME NEW t \in Threads, Step(t)
      PROVE  Inv'
  <2>1. CASE WaitStep(t)
    <3>1. CASE UnlockWaitMutex(t)
      <4>1. MutexInv'
        BY <3>1, UnlockWaitMutexStep DEF Inv
      <4> QED
        BY <2>1, <3>1, <4>1, LeaveStep
           DEF WaitStep, UnlockWaitMutex, lifevars, waitvars, tcpvars, Locations, InWait
    <3> QED
      BY <2>1, <3>1, LockStep, SelectStep, WakeStep, ReadStep DEF WaitStep
  <2>2. CASE DestroyWaitsForWait(t)
    <3>1. MutexInv'
      BY <2>2, DestroyWaitsStep DEF Inv, DestroyWaitsForWait
    <3> QED
      BY <2>2, <3>1, LeaveStep
         DEF DestroyWaitsForWait, DestroyWaits, lifevars, waitvars, tcpvars, Locations,
             InWait
  <2>3. CASE DestroyEnds(t)
    <3>1. MutexInv'
      BY <2>3, DestroyUnlocksStep DEF Inv, DestroyEnds
    <3> QED
      BY <2>3, <3>1, LeaveStep
         DEF DestroyEnds, DestroyUnlocks, lifevars, waitvars, tcpvars, Locations, InWait
  <2>4. CASE PollSocket(t)
    BY <2>4, SocketStep DEF PollSocket
  <2>5. CASE PollEnds(t)
    <3>1. PICK l \in {"outside", "calling"} : Goto(t, l)
      BY <2>5 DEF PollEnds
    <3>2. MutexInv'
      BY <2>5, <3>1, PollEndStep DEF Inv, PollEnds, lifevars
    <3> QED
      BY <2>5, <3>1, <3>2, LeaveStep
         DEF PollEnds, lifevars, waitvars, tcpvars, Locations, InWait
  <2>6. CASE ErrorHandled(t)
    <3>1. MutexInv'
      BY <2>6, CallStep DEF Inv, ErrorHandled, lifevars
    <3> QED
      BY <2>6, <3>1, LeaveStep
         DEF ErrorHandled, lifevars, waitvars, tcpvars, Locations, InWait
  <2> QED
    BY <1>3, <2>1, <2>2, <2>3, <2>4, <2>5, <2>6 DEF Step
<1>4. ASSUME NEW t \in Threads, LifeCycle(t)
      PROVE  Inv'
  <2>1. CASE GetLocalHostName(t)
    BY <2>1, SocketStep DEF GetLocalHostName, NameHost, tcpvars
  <2> QED
    BY <1>4, <2>1, CreateStep, DestroyStep DEF LifeCycle
<1>5. ASSUME NEW t \in Threads, Waiting(t)
      PROVE  Inv'
  <2>1. CASE WaitEnds(t)
    BY <2>1, SelectStep DEF WaitEnds
  <2>2. CASE AbortWait(t)
    BY <2>2, SignalStep DEF AbortWait, SignalWaiter, Works, tcpvars
  <2> QED
    BY <1>5, <2>1, <2>2, WaitForIncomingDataStep DEF Waiting
<1>6. ASSUME NEW t \in Threads, Receiving(t)
      PROVE  Inv'
  <2>1. CASE Poll(t)
    <3>1. MutexInv'
      BY <2>1, LockMainStep DEF Inv, Poll, lifevars
    <3> QED
      BY <2>1, <3>1, LeaveStep
         DEF Poll, lifevars, waitvars, Locations, InWait
  <2>2. CASE GetNextPacket(t)
    BY <2>2, SocketStep DEF GetNextPacket, TakePacket, tcpvars
  <2> QED
    BY <1>6, <2>1, <2>2 DEF Receiving
<1>7. ASSUME NEW t \in Threads, Connecting(t)
      PROVE  Inv'
  <2>1. ASSUME NEW c \in Conns, AddDestination(t, c)
        PROVE  Inv'
    BY <2>1, SignalStep DEF AddDestination, Works
  <2>2. ASSUME NEW c \in Conns, DeleteDestination(t, c)
        PROVE  Inv'
    BY <2>2, SocketStep DEF DeleteDestination, commonvars
  <2>3. CASE ClearDestinations(t)
    BY <2>3, SocketStep DEF ClearDestinations, ClearDestSockets, commonvars
  <2> QED
    BY <1>7, <2>1, <2>2, <2>3 DEF Connecting
<1>8. ASSUME NEW t \in Threads, Sending(t)
      PROVE  Inv'
  <2>1. PICK p \in Packets : SendRTPRTCPData(t, p)
    BY <1>8 DEF Sending, SendRTPData, SendRTCPData
  <2>2. /\ at[t] = "outside"
        /\ Goto(t, "calling") \/ UNCHANGED at
        /\ UNCHANGED <<lifevars, mutexvars, waitvars, m_destSockets, m_tmpSocks>>
    BY <2>1 DEF SendRTPRTCPData, Works, Enters
  <2>3. CASE Goto(t, "calling")
    <3>1. MutexInv'
      BY <2>2, <2>3, CallStep DEF Inv, lifevars
    <3> QED
      BY <2>2, <2>3, <3>1, LeaveStep DEF lifevars, waitvars, Locations, InWait
  <2>4. CASE UNCHANGED at
    BY <2>2, <2>4, SocketStep
  <2> QED
    BY <2>2, <2>3, <2>4
<1> QED
  BY <1>1, <1>2, <1>3, <1>4, <1>5, <1>6, <1>7, <1>8 DEF Next

LEMMA InitInv == Init => Inv
<1> SUFFICES ASSUME Init PROVE Inv
  OBVIOUS
<1>1. MutexInv
  BY InitMutex DEF Init
<1>2. abortbytes = 0 /\ \A t \in Threads : at[t] = "outside"
  BY DEF Init, TransmitterInit
<1>3. m_destSockets = {}
  BY DEF Init
<1>4. WaitInv
  BY <1>2 DEF WaitInv, InWait
<1>5. MonitorInv
  BY <1>2, <1>3 DEF MonitorInv
<1> QED
  BY <1>1, <1>4, <1>5 DEF Inv

-----------------------------------------------------------------------------
\* For any number of threads and connections, and however often connections
\* are added, deleted and cleared: a thread in RTPSelect looks at all
\* connections or has a signal to read.
THEOREM MonitoringSafe ==
  ASSUME MaxCreates = 1
  PROVE  Spec => []NewSocketMonitored
<1>1. Inv /\ [Next]_vars => Inv'
  BY NextStep
<1>2. Inv => NewSocketMonitored
  BY DEF Inv, MonitorInv, NewSocketMonitored, AbortReadable
<1> QED
  BY InitInv, <1>1, <1>2, PTL DEF Spec

\* The threads hold the mutexes their places in the code need.
THEOREM MutexesSafe ==
  ASSUME MaxCreates = 1
  PROVE  Spec => []HoldsWhatItNeeds
<1>1. Inv /\ [Next]_vars => Inv'
  BY NextStep
<1>2. Inv => HoldsWhatItNeeds
  BY DEF Inv, MutexInv
<1> QED
  BY InitInv, <1>1, <1>2, PTL DEF Spec

-----------------------------------------------------------------------------
(* Frames in a sequence of bytes *)

Byte == 0..Base - 1

\* Where a packet of a stream of bytes begins: its length, then its data.
FrameAt(bytes, start, p) ==
  /\ bytes[start + 1] = Len(p) \div Base
  /\ bytes[start + 2] = Len(p) % Base
  /\ \A j \in 1..Len(p) : bytes[start + 2 + j] = p[j]

\* The bytes are those of the packets, cut where each of them begins.
Cuts(cut, bytes, packets) ==
  /\ cut[1] = 0
  /\ cut[Len(packets) + 1] = Len(bytes)
  /\ \A i \in 1..Len(packets) + 1 : \A j \in 1..i : cut[j] <= cut[i]
  /\ \A i \in 1..Len(packets) :
       /\ cut[i + 1] = cut[i] + 2 + Len(packets[i])
       /\ FrameAt(bytes, cut[i], packets[i])

Framed(bytes, packets) ==
  \E cut \in [1..Len(packets) + 1 -> Nat] : Cuts(cut, bytes, packets)

LEMMA PacketType ==
  ASSUME NEW p \in Packets
  PROVE  /\ p \in Seq(Byte) /\ Len(p) \in Nat
         /\ LengthBytes(p) \in Seq(Byte) /\ Len(LengthBytes(p)) = 2
         /\ LengthBytes(p)[1] = Len(p) \div Base /\ LengthBytes(p)[2] = Len(p) % Base
<1>1. Base \in Nat /\ Base > 1 /\ p \in Seq(Byte) /\ Len(p) \in Nat /\ Len(p) < Base * Base
  BY FramingAssumption DEF Byte
<1> DEFINE n == Len(p)
           q == Len(p) \div Base
           r == Len(p) % Base
<1>2. q \in Int /\ r \in Byte /\ n = Base * q + r
  BY <1>1 DEF Byte
<1> HIDE DEF q, r
<1>3. q \in Byte
  <2>1. q >= 0
    <3> SUFFICES ASSUME q < 0 PROVE FALSE
      BY <1>2
    <3>1. Base * q <= Base * (-1)
      BY <1>1, <1>2
    <3> QED
      BY <1>1, <1>2, <3>1 DEF Byte
  <2>2. q < Base
    <3> SUFFICES ASSUME q >= Base PROVE FALSE
      BY <1>1, <1>2
    <3>1. Base * q >= Base * Base
      BY <1>1, <1>2
    <3> QED
      BY <1>1, <1>2, <3>1 DEF Byte
  <2> QED
    BY <1>1, <1>2, <2>1, <2>2 DEF Byte
<1>4. <<q, r>> \in Seq(Byte) /\ Len(<<q, r>>) = 2 /\ <<q, r>>[1] = q /\ <<q, r>>[2] = r
  BY <1>2, <1>3
<1> QED
  BY <1>1, <1>4 DEF LengthBytes, q, r

LEMMA Concatenation ==
  ASSUME NEW s \in Seq(Byte), NEW t \in Seq(Byte)
  PROVE  /\ s \o t \in Seq(Byte)
         /\ Len(s \o t) = Len(s) + Len(t)
         /\ \A i \in 1..Len(s) : (s \o t)[i] = s[i]
         /\ \A i \in 1..Len(t) : (s \o t)[Len(s) + i] = t[i]
<1>1. Len(s) \in Nat /\ Len(t) \in Nat
  OBVIOUS
<1>2. s \o t \in Seq(Byte) /\ Len(s \o t) = Len(s) + Len(t)
  OBVIOUS
<1>3. \A i \in 1..Len(s) : (s \o t)[i] = s[i]
  <2> TAKE i \in 1..Len(s)
  <2> QED
    BY <1>1
<1>4. \A i \in 1..Len(t) : (s \o t)[Len(s) + i] = t[i]
  <2> TAKE i \in 1..Len(t)
  <2> QED
    BY <1>1
<1> QED
  BY <1>2, <1>3, <1>4

LEMMA Associative ==
  ASSUME NEW s \in Seq(Byte), NEW t \in Seq(Byte), NEW u \in Seq(Byte)
  PROVE  (s \o t) \o u = s \o (t \o u)
BY ConcatAssociative

LEMMA EmptyNeutral ==
  ASSUME NEW s \in Seq(Byte)
  PROVE  s \o <<>> = s /\ <<>> \o s = s
BY ConcatEmptySeq

LEMMA LengthZero ==
  ASSUME NEW s \in Seq(Byte)
  PROVE  Len(s) \in Nat /\ (s = <<>> <=> Len(s) = 0)
BY EmptySeq, LenProperties

LEMMA FramedNothing == Framed(<<>>, <<>>)
<1> DEFINE cut == [i \in 1..1 |-> 0]
<1>1. cut \in [1..Len(<<>>) + 1 -> Nat] /\ Cuts(cut, <<>>, <<>>)
  BY DEF Cuts
<1> QED
  BY <1>1 DEF Framed

\* A frame behind the others.
LEMMA FramedAppend ==
  ASSUME NEW bytes \in Seq(Byte), NEW packets \in Seq(Packets), NEW p \in Packets,
         Framed(bytes, packets)
  PROVE  Framed(bytes \o (LengthBytes(p) \o p), Append(packets, p))
<1> DEFINE frame == LengthBytes(p) \o p
           all == bytes \o frame
           n == Len(packets)
<1>1. PICK cut \in [1..n + 1 -> Nat] : Cuts(cut, bytes, packets)
  BY DEF Framed
<1>2. /\ n \in Nat /\ Len(bytes) \in Nat /\ Len(p) \in Nat
      /\ \A i \in 1..n : Len(packets[i]) \in Nat
  BY PacketType, ElementOfSeq
<1>3. /\ Len(frame) = 2 + Len(p)
      /\ frame \in Seq(Byte)
      /\ frame[1] = Len(p) \div Base /\ frame[2] = Len(p) % Base
      /\ \A j \in 1..Len(p) : frame[2 + j] = p[j]
  <2> DEFINE h == LengthBytes(p)
  <2>1. /\ h \in Seq(Byte) /\ Len(h) = 2 /\ p \in Seq(Byte)
        /\ h[1] = Len(p) \div Base /\ h[2] = Len(p) % Base
    BY PacketType
  <2> HIDE DEF h
  <2>2. /\ h \o p \in Seq(Byte)
        /\ Len(h \o p) = Len(h) + Len(p)
        /\ \A i \in 1..Len(h) : (h \o p)[i] = h[i]
        /\ \A i \in 1..Len(p) : (h \o p)[Len(h) + i] = p[i]
    BY <2>1, Concatenation
  <2>3. h \o p = frame /\ 1 \in 1..2 /\ 2 \in 1..2
    BY DEF h
  <2> HIDE DEF frame
  <2> QED
    BY <2>1, <2>2, <2>3
<1> HIDE DEF frame
<1>4. /\ Len(all) = Len(bytes) + 2 + Len(p)
      /\ \A i \in 1..Len(bytes) : all[i] = bytes[i]
      /\ \A i \in 1..2 + Len(p) : all[Len(bytes) + i] = frame[i]
  <2>1. /\ Len(all) = Len(bytes) + Len(frame)
        /\ \A i \in 1..Len(bytes) : all[i] = bytes[i]
        /\ \A i \in 1..Len(frame) : all[Len(bytes) + i] = frame[i]
    BY <1>3, Concatenation
  <2>2. Len(bytes) + Len(frame) = Len(bytes) + 2 + Len(p)
    BY <1>2, <1>3
  <2> HIDE DEF all
  <2> QED
    BY <1>3, <2>1, <2>2
<1>5. /\ Len(Append(packets, p)) = n + 1
      /\ \A i \in 1..n : Append(packets, p)[i] = packets[i]
      /\ Append(packets, p)[n + 1] = p
  BY AppendProperties
<1> DEFINE more == [i \in 1..n + 2 |-> IF i <= n + 1 THEN cut[i] ELSE Len(all)]
<1>6. more \in [1..(n + 1) + 1 -> Nat]
  BY <1>2, <1>4
<1>7. /\ \A i \in 1..n + 1 : more[i] = cut[i]
      /\ more[n + 2] = Len(all) /\ (n + 1) + 1 = n + 2
  BY <1>2
<1> HIDE DEF all, more
<1>8. ASSUME NEW i \in 1..n + 1
      PROVE  LET q == Append(packets, p)[i]
             IN  more[i + 1] = more[i] + 2 + Len(q) /\ FrameAt(all, more[i], q)
  <2>1. CASE i = n + 1
    <3>1. more[i] = Len(bytes)
      BY <1>1, <1>2, <1>7, <2>1 DEF Cuts
    <3>2. more[i + 1] = Len(all) /\ Append(packets, p)[i] = p
      BY <1>2, <1>5, <1>7, <2>1
    <3>3. FrameAt(all, Len(bytes), p)
      <4>1. all[Len(bytes) + 1] = frame[1] /\ all[Len(bytes) + 2] = frame[2]
        BY <1>2, <1>4
      <4>2. \A j \in 1..Len(p) : all[Len(bytes) + 2 + j] = frame[2 + j]
        <5> TAKE j \in 1..Len(p)
        <5>1. 2 + j \in 1..2 + Len(p) /\ Len(bytes) + 2 + j = Len(bytes) + (2 + j)
          BY <1>2
        <5> QED
          BY <1>4, <5>1
      <4> QED
        BY <1>3, <4>1, <4>2 DEF FrameAt
    <3> QED
      BY <1>2, <1>4, <3>1, <3>2, <3>3
  <2>2. CASE i \in 1..n
    <3>1. /\ more[i] = cut[i] /\ more[i + 1] = cut[i + 1]
          /\ Append(packets, p)[i] = packets[i]
      BY <1>2, <1>5, <1>7, <2>2
    <3>2. /\ cut[i + 1] = cut[i] + 2 + Len(packets[i])
          /\ FrameAt(bytes, cut[i], packets[i])
      BY <1>1, <2>2 DEF Cuts
    <3>3. /\ i \in 1..n + 1 /\ i + 1 \in 1..n + 1 /\ n + 1 \in 1..n + 1
          /\ i + 1 \in 1..n + 1 /\ Len(packets[i]) \in Nat
      BY <1>2, <2>2
    <3>4. cut[i] \in Nat /\ cut[i + 1] \in Nat /\ cut[i + 1] <= Len(bytes)
      BY <1>1, <3>3 DEF Cuts
    <3>5. FrameAt(all, cut[i], packets[i])
      <4>1. /\ cut[i] + 1 \in 1..Len(bytes) /\ cut[i] + 2 \in 1..Len(bytes)
            /\ \A j \in 1..Len(packets[i]) : cut[i] + 2 + j \in 1..Len(bytes)
        <5> DEFINE a == cut[i]
                   z == cut[i + 1]
                   l == Len(packets[i])
        <5>1. a \in Nat /\ z \in Nat /\ l \in Nat /\ z <= Len(bytes) /\ z = a + 2 + l
          BY <3>2, <3>3, <3>4
        <5> HIDE DEF a, z, l
        <5>2. a + 1 \in 1..Len(bytes) /\ a + 2 \in 1..Len(bytes)
          BY <1>2, <5>1
        <5>3. \A j \in 1..l : a + 2 + j \in 1..Len(bytes)
          BY <1>2, <5>1
        <5> QED
          BY <5>2, <5>3 DEF a, l
      <4> QED
        BY <1>4, <3>2, <4>1 DEF FrameAt
    <3> QED
      BY <3>1, <3>2, <3>5
  <2> QED
    BY <1>2, <2>1, <2>2
<1>9. ASSUME NEW i \in 1..n + 2, NEW j \in 1..i
      PROVE  more[j] <= more[i]
  <2>1. CASE i \in 1..n + 1
    <3>1. cut[j] <= cut[i] /\ j \in 1..n + 1
      BY <1>1, <1>2, <2>1 DEF Cuts
    <3> QED
      BY <1>7, <2>1, <3>1
  <2>2. CASE i = n + 2 /\ j \in 1..n + 1
    <3>1. cut[j] <= cut[n + 1] /\ cut[n + 1] = Len(bytes) /\ cut[j] \in Nat
      BY SMTT(60), <1>1, <1>2, <2>2 DEF Cuts
    <3> QED
      BY <1>2, <1>4, <1>7, <2>2, <3>1
  <2>3. CASE i = n + 2 /\ j = n + 2
    <3>1. more[i] = more[j] /\ more[i] \in Nat
      BY <1>2, <1>4, <1>7, <2>3
    <3> QED
      BY <3>1
  <2> QED
    BY <1>2, <2>1, <2>2, <2>3
<1>10. Cuts(more, all, Append(packets, p))
  <2>1. more[1] = 0
    BY <1>1, <1>2, <1>7 DEF Cuts
  <2> QED
    BY <1>5, <1>7, <1>8, <1>9, <2>1 DEF Cuts
<1> QED
  BY <1>5, <1>6, <1>10 DEF Framed, all, frame

\* Where there are bytes, a whole packet begins.
LEMMA FramedFirst ==
  ASSUME NEW bytes \in Seq(Byte), NEW packets \in Seq(Packets), bytes # <<>>,
         Framed(bytes, packets)
  PROVE  /\ packets # <<>>
         /\ 2 + Len(packets[1]) <= Len(bytes)
         /\ FrameAt(bytes, 0, packets[1])
<1>1. PICK cut \in [1..Len(packets) + 1 -> Nat] : Cuts(cut, bytes, packets)
  BY DEF Framed
<1>2. Len(bytes) \in Nat /\ Len(bytes) > 0 /\ Len(packets) \in Nat
  OBVIOUS
<1>3. packets # <<>> /\ 1 \in 1..Len(packets)
  BY <1>1, <1>2 DEF Cuts
<1>4. Len(packets[1]) \in Nat /\ packets[1] \in Packets
  BY <1>3, PacketType, ElementOfSeq
<1>5. cut[1 + 1] = cut[1] + 2 + Len(packets[1])
      /\ FrameAt(bytes, cut[1], packets[1]) /\ cut[1] = 0
  BY <1>1, <1>3 DEF Cuts
<1>6. cut[2] <= Len(bytes)
  <2>1. 2 \in 1..Len(packets) + 1 /\ Len(packets) + 1 \in 1..Len(packets) + 1
    BY <1>2, <1>3
  <2> QED
    BY <1>1, <1>2, <2>1 DEF Cuts
<1> QED
  BY <1>2, <1>3, <1>4, <1>5, <1>6

\* What is left without the first packet.
LEMMA FramedRest ==
  ASSUME NEW bytes \in Seq(Byte), NEW packets \in Seq(Packets), packets # <<>>,
         Framed(bytes, packets)
  PROVE  Framed(SubSeq(bytes, 3 + Len(packets[1]), Len(bytes)), Tail(packets))
<1> DEFINE n == Len(packets)
           size == 2 + Len(packets[1])
           rest == SubSeq(bytes, 3 + Len(packets[1]), Len(bytes))
<1>1. PICK cut \in [1..n + 1 -> Nat] : Cuts(cut, bytes, packets)
  BY DEF Framed
<1>2. /\ n \in Nat /\ n > 0 /\ Len(bytes) \in Nat
      /\ \A i \in 1..n : packets[i] \in Packets
      /\ Len(Tail(packets)) = n - 1
      /\ \A i \in 1..n - 1 : Tail(packets)[i] = packets[i + 1]
  BY HeadTailProperties, ElementOfSeq
<1>3. \A i \in 1..n : Len(packets[i]) \in Nat
  BY <1>2, PacketType
<1>4. size \in Nat /\ cut[1] = 0 /\ cut[2] = size /\ cut[2] <= Len(bytes)
  <2>1. cut[1 + 1] = cut[1] + 2 + Len(packets[1]) /\ cut[1] = 0
    BY <1>1, <1>2 DEF Cuts
  <2>2. 2 \in 1..n + 1 /\ n + 1 \in 1..n + 1
    BY <1>2
  <2>3. cut[2] <= Len(bytes)
    BY <1>1, <1>2, <2>2 DEF Cuts
  <2> QED
    BY <1>2, <1>3, <2>1, <2>3
<1>5. /\ Len(rest) = Len(bytes) - size
      /\ \A i \in 1..Len(bytes) - size : rest[i] = bytes[size + i]
  <2>1. 3 + Len(packets[1]) = size + 1 /\ Len(packets[1]) \in Nat
    BY <1>2, <1>3
  <2>2. \A i \in (size + 1)..Len(bytes) : bytes[i] \in Byte
    BY <1>4, ElementOfSeq
  <2> HIDE DEF size
  <2>3. /\ Len(SubSeq(bytes, size + 1, Len(bytes))) =
             IF size + 1 <= Len(bytes) THEN Len(bytes) - (size + 1) + 1 ELSE 0
        /\ \A i \in 1..Len(bytes) - (size + 1) + 1 :
             SubSeq(bytes, size + 1, Len(bytes))[i] = bytes[(size + 1) + i - 1]
    <3>1. size + 1 \in Int /\ Len(bytes) \in Int
      BY <1>2, <1>4
    <3> QED
      BY <2>2, <3>1, SubSeqProperties
  <2>4. \A i \in 1..Len(bytes) - size : (size + 1) + i - 1 = size + i
    BY <1>2, <1>4
  <2>5. Len(bytes) - (size + 1) + 1 = Len(bytes) - size
    BY <1>2, <1>4
  <2>6. rest = SubSeq(bytes, size + 1, Len(bytes))
    BY <2>1
  <2> HIDE DEF rest
  <2>7. Len(rest) = Len(bytes) - size
    <3>1. CASE size + 1 <= Len(bytes)
      BY <1>2, <1>4, <2>3, <2>5, <2>6, <3>1
    <3>2. CASE ~(size + 1 <= Len(bytes))
      BY <1>2, <1>4, <2>3, <2>6, <3>2
    <3> QED
      BY <3>1, <3>2
  <2>8. \A i \in 1..Len(bytes) - size : rest[i] = bytes[size + i]
    BY <2>3, <2>4, <2>5, <2>6
  <2> QED
    BY <2>7, <2>8
<1> HIDE DEF size, rest
<1>6. \A i \in 1..n : cut[i + 1] \in Nat /\ cut[i + 1] >= size
  <2> TAKE i \in 1..n
  <2>1. i + 1 \in 1..n + 1 /\ 2 \in 1..i + 1
    BY <1>2
  <2> QED
    BY <1>1, <1>4, <2>1 DEF Cuts
<1> DEFINE left == [i \in 1..n |-> cut[i + 1] - size]
<1>7. left \in [1..(n - 1) + 1 -> Nat]
  BY <1>2, <1>4, <1>6
<1>8. \A i \in 1..n : left[i] = cut[i + 1] - size
  OBVIOUS
<1> HIDE DEF left
<1>9. left[1] = 0 /\ left[(n - 1) + 1] = Len(rest)
  <2>1. cut[n + 1] = Len(bytes)
    BY <1>1 DEF Cuts
  <2> QED
    BY SMTT(60), <1>2, <1>4, <1>5, <1>8, <2>1
<1>10. ASSUME NEW i \in 1..n, NEW j \in 1..i
       PROVE  left[j] <= left[i]
  <2>1. i + 1 \in 1..n + 1 /\ j + 1 \in 1..i + 1 /\ j \in 1..n
    BY <1>2
  <2>2. cut[j + 1] <= cut[i + 1]
    BY <1>1, <2>1 DEF Cuts
  <2> QED
    BY <1>4, <1>6, <1>8, <2>1, <2>2
<1>11. ASSUME NEW i \in 1..n - 1
       PROVE  /\ left[i + 1] = left[i] + 2 + Len(Tail(packets)[i])
              /\ FrameAt(rest, left[i], Tail(packets)[i])
  <2>1. i \in 1..n /\ i + 1 \in 1..n /\ (i + 1) + 1 \in 1..n + 1
    BY <1>2
  <2> DEFINE q == packets[i + 1]
  <2>2. Tail(packets)[i] = q /\ Len(q) \in Nat
    BY <1>2, <1>3, <2>1
  <2>3. /\ cut[(i + 1) + 1] = cut[i + 1] + 2 + Len(q)
        /\ FrameAt(bytes, cut[i + 1], q)
    BY <1>1, <2>1 DEF Cuts
  <2>4. left[i] = cut[i + 1] - size /\ left[i + 1] = cut[(i + 1) + 1] - size
    BY <1>8, <2>1
  <2>5. cut[(i + 1) + 1] <= Len(bytes)
    <3>1. n + 1 \in 1..n + 1
      BY <1>2
    <3> QED
      BY <1>1, <2>1, <3>1 DEF Cuts
  <2> HIDE DEF q
  <2> DEFINE a == cut[i + 1]
             z == cut[(i + 1) + 1]
  <2>6. a \in Nat /\ z \in Nat /\ a >= size /\ z = a + 2 + Len(q) /\ z <= Len(bytes)
        /\ left[i] = a - size /\ left[i + 1] = z - size
    BY <1>6, <2>1, <2>3, <2>4, <2>5
  <2>7. FrameAt(bytes, a, q)
    BY <2>3
  <2> HIDE DEF a, z
  <2>8. left[i + 1] = left[i] + 2 + Len(q)
    BY <1>4, <2>2, <2>6
  <2>9. ASSUME NEW k \in 1..2 + Len(q)
        PROVE  rest[left[i] + k] = bytes[a + k]
    <3>1. left[i] + k \in 1..Len(bytes) - size /\ size + (left[i] + k) = a + k
      BY <1>2, <1>4, <2>2, <2>6
    <3> QED
      BY <1>5, <3>1
  <2>10. FrameAt(rest, left[i], q)
    <3>1. 1 \in 1..2 + Len(q) /\ 2 \in 1..2 + Len(q)
      BY <2>2
    <3>2. ASSUME NEW j \in 1..Len(q)
          PROVE  rest[left[i] + 2 + j] = bytes[a + 2 + j]
      <4>1. 2 + j \in 1..2 + Len(q)
        BY <2>2
      <4>2. left[i] + 2 + j = left[i] + (2 + j) /\ a + 2 + j = a + (2 + j)
        BY <1>4, <2>2, <2>6
      <4> QED
        BY <2>9, <4>1, <4>2
    <3> QED
      BY <2>7, <2>9, <3>1, <3>2 DEF FrameAt
  <2> QED
    BY <2>2, <2>8, <2>10
<1>12. Cuts(left, rest, Tail(packets))
  BY <1>2, <1>9, <1>10, <1>11 DEF Cuts
<1> QED
  BY <1>2, <1>7, <1>12 DEF Framed, rest

-----------------------------------------------------------------------------
(* Reading a stream piece by piece *)

\* What is left behind the first k elements.
LEMMA Suffix ==
  ASSUME NEW S, NEW s \in Seq(S), NEW k \in 0..Len(s)
  PROVE  /\ SubSeq(s, k + 1, Len(s)) \in Seq(S)
         /\ Len(SubSeq(s, k + 1, Len(s))) = Len(s) - k
         /\ \A i \in 1..Len(s) - k : SubSeq(s, k + 1, Len(s))[i] = s[k + i]
<1> DEFINE m == k + 1
           n == Len(s)
<1>1. m \in Int /\ n \in Nat /\ m = k + 1 /\ k \in 0..n
  OBVIOUS
<1>2. \A i \in m..n : s[i] \in S
  BY <1>1, ElementOfSeq
<1> HIDE DEF m, n
<1>3. /\ SubSeq(s, m, n) \in Seq(S)
      /\ Len(SubSeq(s, m, n)) = IF m <= n THEN n - m + 1 ELSE 0
      /\ \A i \in 1..n - m + 1 : SubSeq(s, m, n)[i] = s[m + i - 1]
  BY <1>1, <1>2, SubSeqProperties
<1>4. Len(SubSeq(s, m, n)) = n - k
  <2>1. CASE m <= n
    BY <1>1, <1>3, <2>1
  <2>2. CASE ~(m <= n)
    BY <1>1, <1>3, <2>2
  <2> QED
    BY <2>1, <2>2
<1>5. ASSUME NEW i \in 1..n - k
      PROVE  SubSeq(s, m, n)[i] = s[k + i]
  <2>1. i \in 1..n - m + 1 /\ m + i - 1 = k + i
    BY <1>1
  <2> QED
    BY <1>3, <2>1
<1> QED
  BY <1>3, <1>4, <1>5 DEF m, n

\* The first k elements.
LEMMA Prefix ==
  ASSUME NEW S, NEW s \in Seq(S), NEW k \in 0..Len(s)
  PROVE  /\ SubSeq(s, 1, k) \in Seq(S)
         /\ Len(SubSeq(s, 1, k)) = k
         /\ s = SubSeq(s, 1, k) \o SubSeq(s, k + 1, Len(s))
<1>1. k \in Int /\ Len(s) \in Nat /\ 1 \in 1..Len(s) + 1 /\ k \in 1 - 1..Len(s)
      /\ Len(s) \in k..Len(s)
  OBVIOUS
<1>2. \A i \in 1..k : s[i] \in S
  BY <1>1, ElementOfSeq
<1>3. /\ SubSeq(s, 1, k) \in Seq(S)
      /\ Len(SubSeq(s, 1, k)) = IF 1 <= k THEN k - 1 + 1 ELSE 0
  BY <1>1, <1>2, SubSeqProperties
<1>4. SubSeq(s, 1, k) \o SubSeq(s, k + 1, Len(s)) = SubSeq(s, 1, Len(s))
  BY <1>1, ConcatAdjacentSubSeq
<1>5. SubSeq(s, 1, Len(s)) = s
  BY SubSeqFull
<1>6. Len(SubSeq(s, 1, k)) = k
  <2>1. CASE 1 <= k
    BY <1>1, <1>3, <2>1
  <2>2. CASE ~(1 <= k)
    BY <1>1, <1>3, <2>2
  <2> QED
    BY <2>1, <2>2
<1> QED
  BY <1>3, <1>4, <1>5, <1>6

LEMMA SuffixOfConcatenation ==
  ASSUME NEW s \in Seq(Byte), NEW t \in Seq(Byte)
  PROVE  SubSeq(s \o t, Len(s) + 1, Len(s \o t)) = t
<1> DEFINE u == s \o t
           v == SubSeq(u, Len(s) + 1, Len(u))
<1>1. /\ u \in Seq(Byte) /\ Len(u) = Len(s) + Len(t)
      /\ \A i \in 1..Len(t) : u[Len(s) + i] = t[i]
      /\ Len(s) \in Nat /\ Len(t) \in Nat
  BY Concatenation
<1> HIDE DEF u
<1>2. Len(s) \in 0..Len(u) /\ Len(u) - Len(s) = Len(t)
  BY <1>1
<1>3. /\ v \in Seq(Byte) /\ Len(v) = Len(t)
      /\ \A i \in 1..Len(t) : v[i] = u[Len(s) + i]
  BY <1>1, <1>2, Suffix
<1> HIDE DEF v
<1>4. v = t
  BY <1>1, <1>3, SeqEqual
<1> QED
  BY <1>4 DEF u, v

SocketData == [length : Seq(Byte), data : Seq(Byte)]

\* Of a packet there are no bytes of the data without all of the length, and
\* no more bytes of the data than the length says.
Partial(d) ==
  /\ Len(d.length) <= 2
  /\ Len(d.length) < 2 => d.data = <<>>
  /\ Len(d.length) = 2 => Len(d.data) <= DataLength(d.length)

LEMMA DataLengthType ==
  ASSUME NEW length \in Seq(Byte), Len(length) = 2
  PROVE  DataLength(length) \in Nat
<1>1. Base \in Nat
  BY FramingAssumption
<1>2. 1 \in 1..Len(length) /\ 2 \in 1..Len(length)
  OBVIOUS
<1>3. length[1] \in Byte /\ length[2] \in Byte
  BY <1>2, ElementOfSeq
<1> QED
  BY <1>1, <1>3 DEF DataLength, Byte

LEMMA AtMostType ==
  ASSUME NEW n \in Nat, NEW s \in Seq(Byte)
  PROVE  AtMost(n, s) \in 0..Len(s) /\ AtMost(n, s) <= n
         /\ (AtMost(n, s) = n \/ AtMost(n, s) = Len(s))
  BY DEF AtMost

LEMMA FourInPairs ==
  ASSUME NEW s \in Seq(Byte), NEW t \in Seq(Byte), NEW u \in Seq(Byte), NEW v \in Seq(Byte)
  PROVE  (s \o (t \o u)) \o v = (s \o t) \o (u \o v)
<1> DEFINE tu == t \o u
           uv == u \o v
<1>1. tu \o v = t \o uv
  BY SMTT(60), Associative
<1>2. tu \in Seq(Byte)
  BY Concatenation
<1>3. uv \in Seq(Byte)
  BY Concatenation
<1> HIDE DEF tu, uv
<1>4. (s \o tu) \o v = s \o (tu \o v)
  BY SMTT(60), <1>2, Associative
<1>5. (s \o t) \o uv = s \o (t \o uv)
  BY SMTT(60), <1>3, Associative
<1> QED
  BY <1>1, <1>4, <1>5 DEF tu, uv

LEMMA FourInLine ==
  ASSUME NEW s \in Seq(Byte), NEW t \in Seq(Byte), NEW u \in Seq(Byte), NEW v \in Seq(Byte)
  PROVE  ((s \o t) \o u) \o v = s \o (t \o (u \o v))
<1> DEFINE st == s \o t
           uv == u \o v
<1>1. st \in Seq(Byte)
  BY Concatenation
<1>2. uv \in Seq(Byte)
  BY Concatenation
<1>3. st \o uv = s \o (t \o uv)
  <2> HIDE DEF uv
  <2> QED
    BY SMTT(60), <1>2, Associative
<1> HIDE DEF st
<1>4. (st \o u) \o v = st \o uv
  BY <1>1, Associative
<1> QED
  BY <1>3, <1>4 DEF st, uv

\* Three pieces of a sequence, the first of which ends a first sequence or the
\* second of which begins a second one.
LEMMA Regrouped ==
  ASSUME NEW L \in Seq(Byte), NEW D \in Seq(Byte), NEW A \in Seq(Byte),
         NEW B \in Seq(Byte), NEW C \in Seq(Byte), A = <<>> \/ D = <<>>
  PROVE  ((L \o A) \o (D \o B)) \o C = (L \o D) \o (A \o (B \o C))
<1>1. CASE A = <<>>
  <2>1. B \o C \in Seq(Byte)
    BY Concatenation
  <2>2. L \o A = L /\ A \o (B \o C) = B \o C
    BY <1>1, <2>1, EmptyNeutral
  <2>3. \A s, t \in Seq(Byte) : \A u, v \in Seq(Byte) :
          (s \o (t \o u)) \o v = (s \o t) \o (u \o v)
    BY FourInPairs
  <2>4. \A u, v \in Seq(Byte) : (L \o (D \o u)) \o v = (L \o D) \o (u \o v)
    BY ZenonT(60), <2>3
  <2>5. (L \o (D \o B)) \o C = (L \o D) \o (B \o C)
    BY <2>4
  <2> QED
    BY <2>2, <2>5
<1>2. CASE D = <<>>
  <2>1. D \o B = B /\ L \o D = L
    BY <1>2, EmptyNeutral
  <2>2. \A s, t \in Seq(Byte) : \A u, v \in Seq(Byte) :
          ((s \o t) \o u) \o v = s \o (t \o (u \o v))
    BY FourInLine
  <2>3. \A u, v \in Seq(Byte) : ((L \o A) \o u) \o v = L \o (A \o (u \o v))
    BY ZenonT(60), <2>2
  <2>4. ((L \o A) \o B) \o C = L \o (A \o (B \o C))
    BY <2>3
  <2> QED
    BY <2>1, <2>4
<1> QED
  BY <1>1, <1>2

\* A piece of a sequence behind another piece.
LEMMA SuffixOfSuffix ==
  ASSUME NEW s \in Seq(Byte), NEW n \in 0..Len(s), NEW m \in 0..Len(s) - n
  PROVE  LET t == SubSeq(s, n + 1, Len(s))
         IN  SubSeq(s, (n + m) + 1, Len(s)) = SubSeq(t, m + 1, Len(t))
<1> DEFINE t == SubSeq(s, n + 1, Len(s))
           k == n + m
           C == SubSeq(s, k + 1, Len(s))
           D == SubSeq(t, m + 1, Len(t))
<1>1. Len(s) \in Nat /\ n \in Nat /\ m \in Nat /\ n <= Len(s) /\ m <= Len(s) - n
  BY LengthZero
<1>2. k \in 0..Len(s) /\ k = n + m
  BY <1>1
<1>3. /\ t \in Seq(Byte) /\ Len(t) = Len(s) - n
      /\ \A i \in 1..Len(s) - n : t[i] = s[n + i]
  BY Suffix
<1> HIDE DEF t, k
<1>4. /\ C \in Seq(Byte) /\ Len(C) = Len(s) - k
      /\ \A i \in 1..Len(s) - k : C[i] = s[k + i]
  BY <1>2, Suffix
<1>5. m \in 0..Len(t)
  BY <1>3
<1>6. /\ D \in Seq(Byte) /\ Len(D) = Len(t) - m
      /\ \A i \in 1..Len(t) - m : D[i] = t[m + i]
  BY <1>3, <1>5, Suffix
<1> HIDE DEF C, D
<1>7. Len(C) = Len(D)
  BY <1>1, <1>2, <1>3, <1>4, <1>6
<1>8. ASSUME NEW i \in 1..Len(C)
      PROVE  C[i] = D[i]
  <2>1. i \in 1..Len(s) - k /\ i \in 1..Len(t) - m
    BY <1>4, <1>6, <1>7
  <2>2. m + i \in 1..Len(s) - n /\ n + (m + i) = k + i
    BY <1>1, <1>2, <2>1
  <2>3. D[i] = t[m + i] /\ t[m + i] = s[n + (m + i)] /\ C[i] = s[k + i]
    BY <1>3, <1>4, <1>6, <2>1, <2>2
  <2> QED
    BY <2>2, <2>3
<1>9. C = D
  BY <1>4, <1>6, <1>7, <1>8, SeqEqual
<1> QED
  BY <1>9 DEF C, D, t, k

\* ProcessAvailableBytes moves bytes from the connection to what was read, and
\* keeps their order.
LEMMA BytesMoved ==
  ASSUME NEW d \in SocketData, NEW bytes \in Seq(Byte), Partial(d)
  PROVE  LET r == ProcessAvailableBytes(d, bytes)
         IN  /\ r.length \in Seq(Byte) /\ r.data \in Seq(Byte)
             /\ r.read \in 0..Len(bytes)
             /\ Partial(r)
             /\ (r.length \o r.data) \o SubSeq(bytes, r.read + 1, Len(bytes))
                  = (d.length \o d.data) \o bytes
<1> DEFINE r == ProcessAvailableBytes(d, bytes)
           L == d.length
           D == d.data
           n == AtMost(2 - Len(L), bytes)
           A == SubSeq(bytes, 1, n)
           l == L \o A
           rest == SubSeq(bytes, n + 1, Len(bytes))
           m == IF Len(l) < 2 THEN 0 ELSE AtMost(DataLength(l) - Len(D), rest)
           B == SubSeq(rest, 1, m)
           C == SubSeq(bytes, (n + m) + 1, Len(bytes))
<1>1. r.length = l /\ r.data = D \o B /\ r.read = n + m
  BY DEF ProcessAvailableBytes
<1>2. L \in Seq(Byte) /\ D \in Seq(Byte)
  BY DEF SocketData
<1>3. /\ Len(L) <= 2
      /\ Len(L) < 2 => D = <<>>
      /\ Len(L) = 2 => Len(D) <= DataLength(L)
  BY DEF Partial
<1>4. Partial(r) <=> /\ Len(l) <= 2
                     /\ Len(l) < 2 => D \o B = <<>>
                     /\ Len(l) = 2 => Len(D \o B) <= DataLength(l)
  <2> HIDE DEF r, l, B, D
  <2> QED
    BY <1>1 DEF Partial
<1> HIDE DEF r, L, D
<1> DEFINE a == Len(L)
           e == Len(D)
<1>5. a \in 0..2 /\ e \in Nat /\ Len(bytes) \in Nat
  <2>1. a \in Nat /\ e \in Nat /\ Len(bytes) \in Nat
    BY <1>2, LengthZero
  <2>2. a <= 2
    BY <1>3
  <2> HIDE DEF a, e
  <2> QED
    BY <2>1, <2>2
<1> HIDE DEF a, e
<1>6. n \in 0..Len(bytes) /\ n <= 2 - a /\ (n = 2 - a \/ n = Len(bytes))
  <2> DEFINE k == 2 - a
  <2>1. k \in Nat
    BY <1>5
  <2> HIDE DEF k
  <2>2. /\ AtMost(k, bytes) \in 0..Len(bytes) /\ AtMost(k, bytes) <= k
        /\ (AtMost(k, bytes) = k \/ AtMost(k, bytes) = Len(bytes))
    BY <2>1, AtMostType
  <2> QED
    BY <2>2 DEF k, a
<1> HIDE DEF n
<1>7. /\ A \in Seq(Byte) /\ Len(A) = n /\ bytes = A \o rest
      /\ rest \in Seq(Byte) /\ Len(rest) = Len(bytes) - n
  BY <1>6, Prefix, Suffix
<1>8. \A k \in 0..Len(bytes) - n :
        SubSeq(bytes, (n + k) + 1, Len(bytes)) = SubSeq(rest, k + 1, Len(rest))
  BY <1>6, SuffixOfSuffix
<1> HIDE DEF A, rest
<1>9. l \in Seq(Byte) /\ Len(l) = a + n
  BY <1>2, <1>7, Concatenation DEF a
<1>10. a = 2 => A = <<>> /\ l = L
  <2> SUFFICES ASSUME a = 2 PROVE A = <<>> /\ l = L
    OBVIOUS
  <2>1. n = 0
    BY <1>5, <1>6
  <2>2. A = <<>>
    BY <1>7, <2>1, LengthZero
  <2> QED
    BY <1>2, <2>2, EmptyNeutral
<1>11. a < 2 => D = <<>> /\ e = 0
  BY <1>2, <1>3, LengthZero DEF a, e
<1> HIDE DEF l
<1> DEFINE o == Len(l)
           s == DataLength(l)
<1>12. o = a + n /\ o \in 0..2 /\ Len(rest) \in Nat
  <2>1. o = a + n
    BY <1>9
  <2> HIDE DEF o
  <2> QED
    BY <1>5, <1>6, <1>7, <2>1
<1>13. o = 2 => s \in Nat /\ e <= s
  <2> SUFFICES ASSUME o = 2 PROVE s \in Nat /\ e <= s
    OBVIOUS
  <2>1. s \in Nat
    BY <1>9, DataLengthType
  <2>2. CASE a = 2
    <3>1. e <= DataLength(L) /\ l = L
      BY <1>3, <1>10, <2>2 DEF a, e
    <3> QED
      BY <2>1, <3>1
  <2> HIDE DEF s
  <2>3. CASE a < 2
    BY <1>11, <2>1, <2>3
  <2> QED
    BY <1>5, <2>2, <2>3
<1>14. /\ m \in 0..Len(rest)
       /\ o = 2 => e + m <= s
       /\ o < 2 => m = 0
  <2>1. m = IF o < 2 THEN 0 ELSE AtMost(s - e, rest)
    BY DEF e
  <2> HIDE DEF m, o, s
  <2>2. CASE o < 2
    BY <1>12, <2>1, <2>2
  <2>3. CASE o = 2
    <3> DEFINE k == s - e
    <3>1. k \in Nat /\ m = AtMost(k, rest)
      BY <1>5, <1>13, <2>1, <2>3
    <3> HIDE DEF k
    <3>2. m \in 0..Len(rest) /\ m <= k
      BY <1>7, <3>1, AtMostType
    <3>3. e + m <= s
      BY <1>5, <1>12, <1>13, <2>3, <3>2 DEF k
    <3> QED
      BY <2>3, <3>2, <3>3
  <2> QED
    BY <1>12, <2>2, <2>3
<1> HIDE DEF m, o, s
<1>15. B \in Seq(Byte) /\ Len(B) = m /\ rest = B \o C /\ C \in Seq(Byte)
  <2>1. /\ B \in Seq(Byte) /\ Len(B) = m
        /\ rest = B \o SubSeq(rest, m + 1, Len(rest))
        /\ SubSeq(rest, m + 1, Len(rest)) \in Seq(Byte)
    BY <1>7, <1>14, Prefix, Suffix
  <2>2. C = SubSeq(rest, m + 1, Len(rest))
    BY <1>7, <1>8, <1>14
  <2> QED
    BY <2>1, <2>2
<1> HIDE DEF B, C
<1> DEFINE DB == D \o B
<1>16. DB \in Seq(Byte) /\ Len(DB) = e + m
  BY <1>2, <1>15, Concatenation DEF e
<1>17. Partial(r)
  <2>1. Partial(r) <=> o <= 2 /\ (o < 2 => DB = <<>>) /\ (o = 2 => Len(DB) <= s)
    BY <1>4 DEF o, s
  <2> HIDE DEF DB
  <2>2. ASSUME o < 2 PROVE DB = <<>>
    <3>1. m = 0 /\ a < 2
      BY <1>5, <1>6, <1>12, <1>14, <2>2
    <3>2. Len(DB) = 0
      BY <1>11, <1>16, <3>1
    <3> QED
      BY <1>16, <3>2, LengthZero
  <2>3. o = 2 => Len(DB) <= s
    BY <1>14, <1>16
  <2>4. o <= 2
    BY <1>12
  <2> QED
    BY <2>1, <2>2, <2>3, <2>4
<1>18. A = <<>> \/ D = <<>>
  <2>1. a = 2 \/ a < 2
    BY <1>5
  <2> QED
    BY <1>10, <1>11, <2>1
<1>19. (l \o DB) \o C = (L \o D) \o bytes
  <2> HIDE DEF DB
  <2>1. \A x, y \in Seq(Byte) : \A u, v \in Seq(Byte) : \A w \in Seq(Byte) :
          u = <<>> \/ y = <<>> =>
            ((x \o u) \o (y \o v)) \o w = (x \o y) \o (u \o (v \o w))
    BY Regrouped
  <2>2. \A u, v \in Seq(Byte) : \A w \in Seq(Byte) :
          u = <<>> \/ D = <<>> =>
            ((L \o u) \o (D \o v)) \o w = (L \o D) \o (u \o (v \o w))
    BY <1>2, <2>1
  <2>3. A \in Seq(Byte) /\ B \in Seq(Byte)
    BY <1>7, <1>15
  <2>4. \A w \in Seq(Byte) :
          ((L \o A) \o (D \o B)) \o w = (L \o D) \o (A \o (B \o w))
    <3>1. \A v, w \in Seq(Byte) :
            ((L \o A) \o (D \o v)) \o w = (L \o D) \o (A \o (v \o w))
      BY ZenonT(60), <1>18, <2>2, <2>3
    <3> QED
      BY ZenonT(60), <2>3, <3>1
  <2>5. ((L \o A) \o (D \o B)) \o C = (L \o D) \o (A \o (B \o C))
    BY <1>15, <2>4
  <2> QED
    BY <1>7, <1>15, <2>5 DEF l, DB
<1>20. n + m \in 0..Len(bytes)
  BY <1>5, <1>6, <1>7, <1>14
<1>21. r.length \in Seq(Byte) /\ r.data \in Seq(Byte) /\ r.read \in 0..Len(bytes)
  BY <1>1, <1>9, <1>16, <1>20
<1>22. (r.length \o r.data) \o SubSeq(bytes, r.read + 1, Len(bytes))
         = (d.length \o d.data) \o bytes
  BY <1>1, <1>19 DEF C, L, D
<1> QED
  BY <1>17, <1>21, <1>22 DEF r

\* A packet whose bytes are complete is the first of those on their way.
LEMMA WholePacket ==
  ASSUME NEW l \in Seq(Byte), NEW e \in Seq(Byte), NEW g \in Seq(Byte),
         NEW packets \in Seq(Packets), Len(l) = 2, Len(e) = DataLength(l),
         Framed((l \o e) \o g, packets)
  PROVE  /\ packets # <<>>
         /\ e = packets[1]
         /\ Framed(g, Tail(packets))
<1> DEFINE le == l \o e
           all == le \o g
           p == packets[1]
<1>1. /\ le \in Seq(Byte) /\ Len(le) = 2 + Len(e)
      /\ \A i \in 1..2 : le[i] = l[i]
      /\ \A i \in 1..Len(e) : le[2 + i] = e[i]
  <2>1. /\ l \o e \in Seq(Byte) /\ Len(l \o e) = Len(l) + Len(e)
        /\ \A i \in 1..Len(l) : (l \o e)[i] = l[i]
        /\ \A i \in 1..Len(e) : (l \o e)[Len(l) + i] = e[i]
    BY Concatenation
  <2> HIDE DEF le
  <2>2. /\ le \in Seq(Byte) /\ Len(le) = Len(l) + Len(e)
        /\ \A i \in 1..Len(l) : le[i] = l[i]
        /\ \A i \in 1..Len(e) : le[Len(l) + i] = e[i]
    BY <2>1 DEF le
  <2> QED
    BY <2>2
<1> HIDE DEF le
<1>2. /\ all \in Seq(Byte) /\ Len(all) = Len(le) + Len(g)
      /\ \A i \in 1..Len(le) : all[i] = le[i]
  BY <1>1, Concatenation
<1>3. SubSeq(all, Len(le) + 1, Len(all)) = g
  BY <1>1, SuffixOfConcatenation
<1>4. Framed(all, packets)
  BY DEF le
<1> HIDE DEF all
<1>5. Len(e) \in Nat /\ Len(g) \in Nat
  BY LengthZero
<1>6. all # <<>>
  BY <1>1, <1>2, <1>5, LengthZero
<1>7. packets # <<>> /\ FrameAt(all, 0, p) /\ 2 + Len(p) <= Len(all)
  BY <1>2, <1>4, <1>6, FramedFirst
<1>8. p \in Packets
  BY <1>7, HeadTailProperties
<1> HIDE DEF p
<1>9. p \in Seq(Byte) /\ Len(p) \in Nat
  BY <1>8, PacketType
<1>10. Len(e) = Len(p)
  <2>1. all[1] = Len(p) \div Base /\ all[2] = Len(p) % Base
    BY <1>7 DEF FrameAt
  <2>2. all[1] = l[1] /\ all[2] = l[2]
    <3>1. 1 \in 1..2 /\ 2 \in 1..2 /\ 1 \in 1..Len(le) /\ 2 \in 1..Len(le)
      BY <1>1, <1>5
    <3> QED
      BY <1>1, <1>2, <3>1
  <2>3. Len(e) = (Len(p) \div Base) * Base + (Len(p) % Base)
    BY <2>1, <2>2 DEF DataLength
  <2> DEFINE n == Len(p)
  <2>4. n = (n \div Base) * Base + (n % Base)
    <3>1. n \in Nat /\ Base \in Nat /\ Base > 0
      BY <1>9, FramingAssumption
    <3> HIDE DEF n
    <3> QED
      BY <3>1
  <2> QED
    BY <2>3, <2>4
<1>11. ASSUME NEW i \in 1..Len(e)
       PROVE  e[i] = p[i]
  <2>1. i \in 1..Len(p) /\ 2 + i \in 1..Len(le)
    BY <1>1, <1>5, <1>10
  <2>2. all[2 + i] = e[i]
    BY <1>1, <1>2, <2>1
  <2>3. all[0 + 2 + i] = p[i]
    BY <1>7, <2>1 DEF FrameAt
  <2>4. 0 + 2 + i = 2 + i
    OBVIOUS
  <2> QED
    BY <2>2, <2>3, <2>4
<1>12. e = p
  BY <1>9, <1>10, <1>11, SeqEqual
<1>13. Framed(SubSeq(all, 3 + Len(p), Len(all)), Tail(packets))
  BY <1>2, <1>4, <1>7, FramedRest DEF p
<1>14. 3 + Len(p) = Len(le) + 1
  BY <1>1, <1>5, <1>10
<1> QED
  BY <1>3, <1>7, <1>12, <1>13, <1>14 DEF p

\* What reading from a connection does to the packets on their way.
LEMMA FrameRead ==
  ASSUME NEW d \in SocketData, NEW bytes \in Seq(Byte), NEW later \in Seq(Byte),
         NEW packets \in Seq(Packets), Partial(d),
         Framed(((d.length \o d.data) \o bytes) \o later, packets)
  PROVE  LET r == ProcessAvailableBytes(d, bytes)
             left == SubSeq(bytes, r.read + 1, Len(bytes))
         IN  /\ r.length \in Seq(Byte) /\ r.data \in Seq(Byte) /\ left \in Seq(Byte)
             /\ Partial(r)
             /\ Framed(((r.length \o r.data) \o left) \o later, packets)
             /\ Complete(r) => /\ packets # <<>>
                               /\ r.data = packets[1]
                               /\ Framed(left \o later, Tail(packets))
<1> DEFINE r == ProcessAvailableBytes(d, bytes)
           left == SubSeq(bytes, r.read + 1, Len(bytes))
           l == r.length
           e == r.data
<1>1. /\ l \in Seq(Byte) /\ e \in Seq(Byte) /\ r.read \in 0..Len(bytes)
      /\ Partial(r)
      /\ (l \o e) \o left = (d.length \o d.data) \o bytes
  BY BytesMoved
<1> HIDE DEF r
<1>2. left \in Seq(Byte)
  BY <1>1, Suffix
<1>3. Framed(((l \o e) \o left) \o later, packets)
  BY <1>1
<1>4. Complete(r) <=> Len(l) = 2 /\ Len(e) = DataLength(l)
  BY DEF Complete
<1> HIDE DEF l, e, left
<1>5. ASSUME Len(l) = 2, Len(e) = DataLength(l)
      PROVE  packets # <<>> /\ e = packets[1] /\ Framed(left \o later, Tail(packets))
  <2> DEFINE le == l \o e
             g == left \o later
  <2>1. le \in Seq(Byte)
    BY <1>1, Concatenation
  <2>2. g \in Seq(Byte)
    BY <1>2, Concatenation
  <2>3. le \in Seq(Byte) /\ left \in Seq(Byte)
    BY <1>2, <2>1
  <2> HIDE DEF le
  <2>4. (le \o left) \o later = le \o g
    BY SMTT(60), <2>3, Associative
  <2> HIDE DEF g
  <2>5. Framed((l \o e) \o g, packets)
    BY <1>3, <2>4 DEF le
  <2> QED
    BY <1>1, <1>5, <2>2, <2>5, WholePacket DEF g
<1> QED
  BY <1>1, <1>2, <1>3, <1>4, <1>5 DEF r, l, e, left

-----------------------------------------------------------------------------
(* The framing implements RTPPacketStream *)

PacketParts == {d \in SocketData : Partial(d)}

FrameType ==
  /\ m_destSockets \subseteq Conns /\ topoll \subseteq Conns
  /\ sdata \in [Conns -> PacketParts]
  /\ flight \in [Conns -> Seq(Byte)] /\ wire \in [Conns -> Seq(Byte)]
  /\ broken \in [Conns -> BOOLEAN]
  /\ sent \in [Conns -> Seq(Packets)] /\ received \in [Conns -> Seq(Packets)]

\* The bytes of a connection that are not part of a received packet, and the
\* packets they are to become.
BytesOf(d, bytes, later) == ((d.length \o d.data) \o bytes) \o later

OnTheWay(s, r) == SubSeq(s, Len(r) + 1, Len(s))

\* The inductive invariant of a connection.
InFrames(d, bytes, later, s, r) ==
  /\ Len(r) <= Len(s)
  /\ Framed(BytesOf(d, bytes, later), OnTheWay(s, r))

FrameInv ==
  /\ FrameType
  /\ \A c \in Conns :
       ~broken[c] => InFrames(sdata[c], wire[c], flight[c], sent[c], received[c])

LEMMA OnTheWayType ==
  ASSUME NEW s \in Seq(Packets), NEW r \in Seq(Packets), Len(r) <= Len(s)
  PROVE  /\ OnTheWay(s, r) \in Seq(Packets)
         /\ Len(OnTheWay(s, r)) = Len(s) - Len(r)
         /\ \A i \in 1..Len(s) - Len(r) : OnTheWay(s, r)[i] = s[Len(r) + i]
<1>1. Len(r) \in 0..Len(s)
  OBVIOUS
<1> QED
  BY <1>1, Suffix DEF OnTheWay

LEMMA NothingOnTheWay ==
  ASSUME NEW s \in Seq(Packets)
  PROVE  OnTheWay(s, s) = <<>>
<1> DEFINE w == OnTheWay(s, s)
<1>1. Len(s) \in Nat
  OBVIOUS
<1>2. w \in Seq(Packets) /\ Len(w) = Len(s) - Len(s)
  BY <1>1, OnTheWayType
<1> HIDE DEF w
<1>3. Len(w) = 0
  BY <1>1, <1>2
<1>4. w = <<>>
  BY <1>2, <1>3, EmptySeq
<1> QED
  BY <1>4 DEF w

LEMMA OnTheWaySent ==
  ASSUME NEW s \in Seq(Packets), NEW r \in Seq(Packets), Len(r) <= Len(s),
         NEW p \in Packets
  PROVE  OnTheWay(Append(s, p), r) = Append(OnTheWay(s, r), p)
<1> DEFINE t == Append(s, p)
           w == OnTheWay(s, r)
           v == OnTheWay(t, r)
           a == Append(w, p)
<1>1. /\ t \in Seq(Packets) /\ Len(t) = Len(s) + 1
      /\ \A i \in 1..Len(s) : t[i] = s[i]
      /\ t[Len(s) + 1] = p
      /\ Len(s) \in Nat /\ Len(r) \in Nat
  BY AppendProperties
<1> HIDE DEF t
<1>2. Len(r) <= Len(t)
  BY <1>1
<1>3. /\ v \in Seq(Packets) /\ Len(v) = Len(t) - Len(r)
      /\ \A i \in 1..Len(t) - Len(r) : v[i] = t[Len(r) + i]
  BY <1>1, <1>2, OnTheWayType
<1>4. /\ w \in Seq(Packets) /\ Len(w) = Len(s) - Len(r)
      /\ \A i \in 1..Len(s) - Len(r) : w[i] = s[Len(r) + i]
  BY OnTheWayType
<1> HIDE DEF w, v
<1>5. /\ a \in Seq(Packets) /\ Len(a) = Len(w) + 1
      /\ \A i \in 1..Len(w) : a[i] = w[i]
      /\ a[Len(w) + 1] = p
  <2>1. w \in Seq(Packets)
    BY <1>4
  <2> QED
    BY <2>1, AppendProperties
<1> HIDE DEF a
<1>6. Len(v) = Len(a) /\ Len(v) = Len(s) - Len(r) + 1
  BY <1>1, <1>3, <1>4, <1>5
<1>7. ASSUME NEW i \in 1..Len(v)
      PROVE  v[i] = a[i]
  <2>1. v[i] = t[Len(r) + i]
    BY <1>3
  <2>2. CASE i = Len(s) - Len(r) + 1
    <3>1. Len(r) + i = Len(s) + 1 /\ i = Len(w) + 1
      BY <1>1, <1>4, <2>2
    <3> QED
      BY <1>1, <1>5, <2>1, <3>1
  <2>3. CASE i # Len(s) - Len(r) + 1
    <3>1. Len(r) + i \in 1..Len(s) /\ i \in 1..Len(w) /\ i \in 1..Len(s) - Len(r)
      BY <1>1, <1>4, <1>6, <2>3
    <3> QED
      BY <1>1, <1>4, <1>5, <2>1, <3>1
  <2> QED
    BY <2>2, <2>3
<1>8. v = a
  BY <1>3, <1>5, <1>6, <1>7, SeqEqual
<1> QED
  BY <1>8 DEF v, a, t, w

LEMMA OnTheWayReceived ==
  ASSUME NEW s \in Seq(Packets), NEW r \in Seq(Packets), Len(r) <= Len(s),
         OnTheWay(s, r) # <<>>, NEW p \in Packets
  PROVE  /\ Len(r) < Len(s)
         /\ OnTheWay(s, r)[1] = s[Len(r) + 1]
         /\ OnTheWay(s, Append(r, p)) = Tail(OnTheWay(s, r))
<1> DEFINE w == OnTheWay(s, r)
           k == Len(r) + 1
<1>1. /\ w \in Seq(Packets) /\ Len(w) = Len(s) - Len(r)
      /\ \A i \in 1..Len(s) - Len(r) : w[i] = s[Len(r) + i]
  BY OnTheWayType
<1>2. Len(r) \in Nat /\ Len(s) \in Nat
  OBVIOUS
<1>3. Len(w) > 0
  BY <1>1, <1>2, EmptySeq
<1>4. Len(r) < Len(s) /\ 1 \in 1..Len(s) - Len(r)
  BY <1>1, <1>2, <1>3
<1>5. Len(Append(r, p)) = k
  BY AppendProperties
<1>6. k \in 1..Len(s) /\ Len(s) \in k..Len(s)
  BY <1>2, <1>4
<1>7. w = SubSeq(s, k, Len(s)) /\ OnTheWay(s, Append(r, p)) = SubSeq(s, k + 1, Len(s))
  BY <1>5 DEF OnTheWay
<1> HIDE DEF k
<1>8. Tail(SubSeq(s, k, Len(s))) = SubSeq(s, k + 1, Len(s))
  BY <1>6, HeadTailOfSubSeq
<1> QED
  BY <1>1, <1>4, <1>7, <1>8

LEMMA ResetType ==
  /\ Reset \in PacketParts /\ Reset.length = <<>> /\ Reset.data = <<>>
<1>1. <<>> \in Seq(Byte) /\ Len(<<>>) = 0
  BY EmptySeq
<1>2. Reset \in SocketData /\ Reset.length = <<>> /\ Reset.data = <<>>
  BY <1>1 DEF Reset, SocketData
<1>3. Partial(Reset)
  BY <1>1, <1>2 DEF Partial
<1> QED
  BY <1>2, <1>3 DEF PacketParts

\* Without a part of a packet the bytes are those that are to be read.
LEMMA ResetBytes ==
  ASSUME NEW bytes \in Seq(Byte), NEW later \in Seq(Byte)
  PROVE  BytesOf(Reset, bytes, later) = bytes \o later
<1>1. <<>> \o <<>> = <<>> /\ <<>> \o bytes = bytes
  BY EmptySeq, EmptyNeutral
<1>2. BytesOf(Reset, bytes, later) = ((<<>> \o <<>>) \o bytes) \o later
  BY ResetType DEF BytesOf
<1> QED
  BY <1>1, <1>2

LEMMA InitFrames == Init => FrameInv
<1> SUFFICES ASSUME Init PROVE FrameInv
  OBVIOUS
<1>1. <<>> \in Seq(Byte) /\ <<>> \in Seq(Packets) /\ Len(<<>>) = 0
  BY EmptySeq
<1>2. FrameType
  BY <1>1, ResetType DEF Init, FrameType
<1>3. ASSUME NEW c \in Conns
      PROVE  InFrames(sdata[c], wire[c], flight[c], sent[c], received[c])
  <2>1. /\ sdata[c] = Reset /\ wire[c] = <<>> /\ flight[c] = <<>>
        /\ sent[c] = <<>> /\ received[c] = <<>>
    BY DEF Init
  <2>2. BytesOf(Reset, <<>>, <<>>) = <<>>
    BY <1>1, ResetBytes, EmptyNeutral
  <2>3. OnTheWay(<<>>, <<>>) = <<>>
    BY <1>1, NothingOnTheWay
  <2> QED
    BY <1>1, <2>1, <2>2, <2>3, FramedNothing DEF InFrames
<1> QED
  BY <1>2, <1>3 DEF FrameInv

\* Steps in which a connection is left alone, or loses its framing.
LEMMA FramesLost ==
  ASSUME FrameInv, m_destSockets' \subseteq Conns, topoll' \subseteq Conns,
         UNCHANGED <<flight, wire, sent, received>>,
         sdata' \in [Conns -> PacketParts], broken' \in [Conns -> BOOLEAN],
         \A c \in Conns : ~broken'[c] => ~broken[c] /\ sdata'[c] = sdata[c]
  PROVE  FrameInv'
<1>1. FrameType'
  BY DEF FrameInv, FrameType
<1>2. ASSUME NEW c \in Conns, ~broken'[c]
      PROVE  InFrames(sdata'[c], wire'[c], flight'[c], sent'[c], received'[c])
  BY <1>2 DEF FrameInv
<1> QED
  BY <1>1, <1>2 DEF FrameInv

LEMMA FramesKept ==
  ASSUME FrameInv, m_destSockets' \subseteq Conns, topoll' \subseteq Conns,
         UNCHANGED framevars
  PROVE  FrameInv' /\ UNCHANGED <<sent, received>>
<1>1. UNCHANGED <<sdata, flight, wire, broken, sent, received>>
  BY DEF framevars
<1>2. sdata \in [Conns -> PacketParts] /\ broken \in [Conns -> BOOLEAN]
  BY DEF FrameInv, FrameType
<1> QED
  BY <1>1, <1>2, FramesLost

\* All destinations are given up, by Destroy or ClearDestinations.
LEMMA FramesCleared ==
  ASSUME FrameInv, ClearDestSockets, UNCHANGED <<flight, wire, sent, received, topoll>>
  PROVE  FrameInv'
<1>1. FrameType
  BY DEF FrameInv
<1>2. Reset \in PacketParts
  BY ResetType
<1>3. /\ m_destSockets' = {}
      /\ broken' = [c \in Conns |-> broken[c] \/ sdata[c] # Reset]
      /\ sdata' = [c \in Conns |-> Reset]
  BY DEF ClearDestSockets
<1>4. sdata' \in [Conns -> PacketParts] /\ broken' \in [Conns -> BOOLEAN]
  BY <1>1, <1>2, <1>3 DEF FrameType
<1>5. \A c \in Conns : ~broken'[c] => ~broken[c] /\ sdata'[c] = sdata[c]
  BY <1>3
<1>6. topoll' \subseteq Conns
  BY <1>1 DEF FrameType
<1> QED
  BY <1>3, <1>4, <1>5, <1>6, FramesLost

LEMMA FramesDeleted ==
  ASSUME FrameInv, NEW t \in Threads, NEW c \in Conns, DeleteDestination(t, c)
  PROVE  FrameInv' /\ UNCHANGED <<sent, received>>
<1>1. FrameType
  BY DEF FrameInv
<1>2. Reset \in PacketParts
  BY ResetType
<1>3. /\ m_destSockets' = m_destSockets \ {c}
      /\ broken' = [broken EXCEPT ![c] = @ \/ sdata[c] # Reset]
      /\ sdata' = [sdata EXCEPT ![c] = Reset]
      /\ UNCHANGED <<flight, wire, sent, received, topoll>>
  BY DEF DeleteDestination, pollvars
<1>4. sdata' \in [Conns -> PacketParts] /\ broken' \in [Conns -> BOOLEAN]
  BY <1>1, <1>2, <1>3 DEF FrameType
<1>5. \A k \in Conns : ~broken'[k] => ~broken[k] /\ sdata'[k] = sdata[k]
  BY <1>1, <1>3 DEF FrameType
<1>6. m_destSockets' \subseteq Conns /\ topoll' \subseteq Conns
  BY <1>1, <1>3 DEF FrameType
<1> QED
  BY <1>3, <1>4, <1>5, <1>6, FramesLost

\* Bytes arrive.
LEMMA FramesArrive ==
  ASSUME FrameInv, NEW c \in Conns, Arrive(c)
  PROVE  FrameInv' /\ UNCHANGED <<sent, received>>
<1>1. FrameType
  BY DEF FrameInv
<1> DEFINE f == flight[c]
           w == wire[c]
           x == sdata[c].length \o sdata[c].data
<1>2. f \in Seq(Byte) /\ w \in Seq(Byte) /\ sdata[c] \in SocketData
  BY <1>1 DEF FrameType, PacketParts
<1>3. PICK n \in 1..Len(f) :
        /\ wire' = [wire EXCEPT ![c] = @ \o SubSeq(f, 1, n)]
        /\ flight' = [flight EXCEPT ![c] = SubSeq(@, n + 1, Len(@))]
        /\ UNCHANGED <<m_destSockets, topoll, sdata, broken, sent, received>>
  BY DEF Arrive, pollvars
<1> DEFINE a == SubSeq(f, 1, n)
           b == SubSeq(f, n + 1, Len(f))
<1>4. wire'[c] = w \o a /\ flight'[c] = b
  BY <1>1, <1>3 DEF FrameType
<1>5. wire' = [wire EXCEPT ![c] = w \o a] /\ flight' = [flight EXCEPT ![c] = b]
  BY <1>1, <1>3 DEF FrameType
<1>6. x \in Seq(Byte)
  <2>1. sdata[c].length \in Seq(Byte) /\ sdata[c].data \in Seq(Byte)
    BY <1>2 DEF SocketData
  <2> QED
    BY <2>1, Concatenation
<1> HIDE DEF f, w
<1>7. a \in Seq(Byte) /\ b \in Seq(Byte) /\ f = a \o b
  <2>1. n \in 0..Len(f)
    BY <1>2, LengthZero
  <2> QED
    BY <1>2, <2>1, Prefix, Suffix
<1> HIDE DEF a, b, x
<1>8. w \o a \in Seq(Byte)
  BY <1>2, <1>7, Concatenation
<1>9. (x \o (w \o a)) \o b = (x \o w) \o (a \o b)
  <2>1. \A s, t \in Seq(Byte) : \A u, v \in Seq(Byte) :
          (s \o (t \o u)) \o v = (s \o t) \o (u \o v)
    BY FourInPairs
  <2>2. \A u, v \in Seq(Byte) : (x \o (w \o u)) \o v = (x \o w) \o (u \o v)
    BY <1>2, <1>6, <2>1
  <2> QED
    BY <1>7, <2>2
<1>10. FrameType'
  <2>1. wire' \in [Conns -> Seq(Byte)] /\ flight' \in [Conns -> Seq(Byte)]
    BY <1>1, <1>5, <1>7, <1>8 DEF FrameType
  <2> QED
    BY <1>1, <1>3, <2>1 DEF FrameType
<1>11. ASSUME NEW k \in Conns, ~broken'[k]
       PROVE  InFrames(sdata'[k], wire'[k], flight'[k], sent'[k], received'[k])
  <2>1. /\ sdata' = sdata /\ broken' = broken /\ sent' = sent /\ received' = received
        /\ InFrames(sdata[k], wire[k], flight[k], sent[k], received[k])
    BY <1>3, <1>11 DEF FrameInv
  <2>2. CASE k = c
    <3>1. BytesOf(sdata[k], wire'[k], flight'[k]) = BytesOf(sdata[k], wire[k], flight[k])
      BY <1>4, <1>7, <1>9, <2>2 DEF BytesOf, x, w, f
    <3> QED
      BY <2>1, <3>1 DEF InFrames
  <2>3. CASE k # c
    <3>1. wire'[k] = wire[k] /\ flight'[k] = flight[k]
      BY <1>1, <1>3, <2>3 DEF FrameType
    <3> QED
      BY <2>1, <3>1
  <2> QED
    BY <2>2, <2>3
<1> QED
  BY <1>3, <1>10, <1>11 DEF FrameInv

-----------------------------------------------------------------------------
(* Sending *)

\* A whole packet behind the bytes of a connection.
LEMMA BytesSent ==
  ASSUME NEW d \in SocketData, NEW bytes \in Seq(Byte), NEW later \in Seq(Byte),
         NEW more \in Seq(Byte)
  PROVE  BytesOf(d, bytes, later \o more) = BytesOf(d, bytes, later) \o more
<1> DEFINE x == d.length \o d.data
           y == x \o bytes
<1>1. d.length \in Seq(Byte) /\ d.data \in Seq(Byte)
  BY DEF SocketData
<1>2. x \in Seq(Byte)
  BY <1>1, Concatenation
<1> HIDE DEF x
<1>3. y \in Seq(Byte)
  BY <1>2, Concatenation
<1> HIDE DEF y
<1>4. (y \o later) \o more = y \o (later \o more)
  BY <1>3, Associative
<1> QED
  BY <1>4 DEF BytesOf, x, y

LEMMA BytesType ==
  ASSUME NEW d \in SocketData, NEW bytes \in Seq(Byte), NEW later \in Seq(Byte)
  PROVE  BytesOf(d, bytes, later) \in Seq(Byte)
<1> DEFINE x == d.length \o d.data
           y == x \o bytes
<1>1. d.length \in Seq(Byte) /\ d.data \in Seq(Byte)
  BY DEF SocketData
<1>2. x \in Seq(Byte)
  BY <1>1, Concatenation
<1> HIDE DEF x
<1>3. y \in Seq(Byte)
  BY <1>2, Concatenation
<1> HIDE DEF y
<1>4. y \o later \in Seq(Byte)
  BY <1>3, Concatenation
<1> QED
  BY <1>4 DEF BytesOf, x, y

LEMMA WrittenType ==
  ASSUME NEW p \in Packets, NEW outcome \in Outcomes
  PROVE  /\ Written(p, outcome) \in Seq(Byte)
         /\ outcome = "sent" => Written(p, outcome) = LengthBytes(p) \o p
         /\ outcome = "refused" => Written(p, outcome) = <<>>
<1> DEFINE h == LengthBytes(p)
           f == h \o p
<1>1. h \in Seq(Byte) /\ p \in Seq(Byte) /\ Len(h) = 2 /\ Len(p) \in Nat
  <2>1. p \in Seq(Byte) /\ Len(p) \in Nat
    BY PacketType
  <2>2. h \in Seq(Byte) /\ Len(h) = 2
    BY PacketType
  <2> QED
    BY <2>1, <2>2
<1> HIDE DEF h
<1>2. f \in Seq(Byte) /\ Len(f) = 2 + Len(p)
  <2>1. f \in Seq(Byte) /\ Len(f) = Len(h) + Len(p)
    BY <1>1, Concatenation
  <2> HIDE DEF f
  <2> QED
    BY <1>1, <2>1
<1> HIDE DEF f
<1>3. 1 + Len(p) \in 0..Len(f)
  BY <1>1, <1>2
<1>4. SubSeq(f, 1, 1 + Len(p)) \in Seq(Byte)
  BY <1>2, <1>3, Prefix
<1>5. <<>> \in Seq(Byte)
  BY EmptySeq
<1>6. /\ outcome = "sent" => Written(p, outcome) = f
      /\ outcome = "short" => Written(p, outcome) = SubSeq(f, 1, 1 + Len(p))
      /\ outcome = "halfway" => Written(p, outcome) = h
      /\ outcome = "refused" => Written(p, outcome) = <<>>
  BY DEF Written, f, h
<1> QED
  BY <1>1, <1>2, <1>4, <1>5, <1>6 DEF Outcomes, f, h

\* A packet that is sent whole is the last on its way; one that was refused
\* leaves no bytes; with any other the framing is lost.
LEMMA FramesSent ==
  ASSUME FrameInv, NEW t \in Threads, NEW p \in Packets, SendRTPRTCPData(t, p)
  PROVE  FrameInv' /\ \E conns \in SUBSET Conns : Stream!Send(p, conns)
<1>1. FrameType
  BY DEF FrameInv
<1>2. PICK outcome \in [m_destSockets -> Outcomes] :
        LET whole == {c \in m_destSockets : outcome[c] = "sent" /\ ~broken[c]}
        IN  /\ flight' = [c \in Conns |->
                 IF c \in m_destSockets THEN flight[c] \o Written(p, outcome[c])
                                        ELSE flight[c]]
            /\ sent' = [c \in Conns |->
                 IF c \in whole THEN Append(sent[c], p) ELSE sent[c]]
            /\ broken' = [c \in Conns |->
                 \/ broken[c]
                 \/ c \in m_destSockets /\ outcome[c] \in {"short", "halfway"}]
            /\ UNCHANGED <<m_destSockets, topoll, sdata, wire, received>>
  BY DEF SendRTPRTCPData, pollvars
<1> DEFINE whole == {c \in m_destSockets : outcome[c] = "sent" /\ ~broken[c]}
<1>3. whole \in SUBSET Conns /\ Stream!Send(p, whole)
  BY <1>1, <1>2 DEF FrameType, Stream!Send
<1>4. ASSUME NEW c \in m_destSockets
      PROVE  /\ c \in Conns
             /\ outcome[c] \in Outcomes
             /\ Written(p, outcome[c]) \in Seq(Byte)
             /\ outcome[c] = "sent" => Written(p, outcome[c]) = LengthBytes(p) \o p
             /\ outcome[c] = "refused" => Written(p, outcome[c]) = <<>>
  <2>1. c \in Conns /\ outcome[c] \in Outcomes
    BY <1>1 DEF FrameType
  <2> QED
    BY <2>1, WrittenType
<1>5. ASSUME NEW c \in Conns
      PROVE  flight'[c] \in Seq(Byte) /\ sent'[c] \in Seq(Packets)
  <2>1. flight[c] \in Seq(Byte) /\ sent[c] \in Seq(Packets)
    BY <1>1 DEF FrameType
  <2>2. Append(sent[c], p) \in Seq(Packets)
    BY <2>1, AppendProperties
  <2>3. ASSUME c \in m_destSockets
        PROVE  flight[c] \o Written(p, outcome[c]) \in Seq(Byte)
    BY <1>4, <2>1, <2>3, Concatenation
  <2> QED
    BY <1>2, <2>1, <2>2, <2>3
<1>6. FrameType'
  <2>1. /\ flight' = [c \in Conns |-> flight'[c]] /\ sent' = [c \in Conns |-> sent'[c]]
        /\ broken' \in [Conns -> BOOLEAN]
    BY <1>2
  <2>2. flight' \in [Conns -> Seq(Byte)] /\ sent' \in [Conns -> Seq(Packets)]
    BY <1>5, <2>1
  <2> QED
    BY <1>1, <1>2, <2>1, <2>2 DEF FrameType
<1>7. ASSUME NEW c \in Conns, ~broken'[c]
      PROVE  InFrames(sdata'[c], wire'[c], flight'[c], sent'[c], received'[c])
  <2> DEFINE d == sdata[c]
             w == wire[c]
             f == flight[c]
             s == sent[c]
             r == received[c]
  <2>1. /\ d \in SocketData /\ w \in Seq(Byte) /\ f \in Seq(Byte)
        /\ s \in Seq(Packets) /\ r \in Seq(Packets)
    BY <1>1 DEF FrameType, PacketParts
  <2>2. ~broken[c] /\ (c \in m_destSockets => outcome[c] \notin {"short", "halfway"})
    BY <1>2, <1>7
  <2>3. /\ InFrames(d, w, f, s, r)
        /\ sdata'[c] = d /\ wire'[c] = w /\ received'[c] = r
    BY <1>2, <2>2 DEF FrameInv
  <2>4. CASE c \in whole
    <3> DEFINE frame == LengthBytes(p) \o p
               bytes == BytesOf(d, w, f)
               way == OnTheWay(s, r)
    <3>1. flight'[c] = f \o frame /\ sent'[c] = Append(s, p)
      BY <1>2, <1>4, <2>4
    <3>2. Len(r) <= Len(s) /\ Framed(bytes, way)
      BY <2>3 DEF InFrames
    <3>3. frame \in Seq(Byte)
      BY PacketType, Concatenation
    <3>4. bytes \in Seq(Byte)
      BY <2>1, BytesType
    <3>5. way \in Seq(Packets)
      BY <2>1, <3>2, OnTheWayType
    <3> HIDE DEF d, w, f, s, r
    <3>6. Framed(bytes \o frame, Append(way, p))
      <4> HIDE DEF bytes, way
      <4> QED
        BY <3>2, <3>4, <3>5, FramedAppend
    <3>7. OnTheWay(Append(s, p), r) = Append(way, p)
      BY <2>1, <3>2, OnTheWaySent
    <3> HIDE DEF frame
    <3>8. BytesOf(d, w, f \o frame) = bytes \o frame
      BY <2>1, <3>3, BytesSent
    <3>9. Len(Append(s, p)) = Len(s) + 1 /\ Len(s) \in Nat /\ Len(r) \in Nat
      BY <2>1, AppendProperties
    <3>10. Len(r) <= Len(Append(s, p))
      BY <3>2, <3>9
    <3> QED
      BY <2>3, <3>1, <3>6, <3>7, <3>8, <3>10 DEF InFrames
  <2>5. CASE c \notin whole
    <3>1. sent'[c] = s
      BY <1>2, <2>5
    <3>2. flight'[c] = f
      <4>1. CASE c \in m_destSockets
        <5>1. outcome[c] = "refused"
          BY <1>4, <2>2, <2>5, <4>1 DEF Outcomes
        <5>2. flight'[c] = f \o <<>>
          BY <1>2, <1>4, <4>1, <5>1
        <5> QED
          BY <2>1, <5>2, EmptyNeutral
      <4>2. CASE c \notin m_destSockets
        BY <1>2, <4>2
      <4> QED
        BY <4>1, <4>2
    <3> QED
      BY <2>3, <3>1, <3>2
  <2> QED
    BY <2>4, <2>5
<1> QED
  BY <1>3, <1>6, <1>7 DEF FrameInv

-----------------------------------------------------------------------------
(* Receiving *)

\* A turn of PollSocket's loop leaves the next packet incomplete, or receives
\* it.
LEMMA FramesRead ==
  ASSUME FrameInv, NEW c \in Conns, ReadSocket(c),
         UNCHANGED <<m_destSockets, flight, sent>>
  PROVE  FrameInv' /\ (UNCHANGED received \/ Stream!Receive(c))
<1>1. FrameType
  BY DEF FrameInv
<1> DEFINE d == sdata[c]
           w == wire[c]
           f == flight[c]
           s == sent[c]
           r == received[c]
           z == ProcessAvailableBytes(d, w)
           left == SubSeq(w, z.read + 1, Len(w))
           part == [length |-> z.length, data |-> z.data]
           way == OnTheWay(s, r)
<1>2. /\ d \in SocketData /\ Partial(d) /\ w \in Seq(Byte) /\ f \in Seq(Byte)
      /\ s \in Seq(Packets) /\ r \in Seq(Packets)
  BY <1>1 DEF FrameType, PacketParts
<1>3. /\ wire' = [wire EXCEPT ![c] = left]
      /\ Complete(z) => /\ sdata' = [sdata EXCEPT ![c] = Reset]
                        /\ broken[c] => received' = received
                        /\ ~broken[c] => received' = [received EXCEPT ![c] = Append(@, z.data)]
      /\ ~Complete(z) => sdata' = [sdata EXCEPT ![c] = part] /\ received' = received
      /\ UNCHANGED <<topoll, broken>>
  BY DEF ReadSocket
<1> HIDE DEF d, w, f, s, r
<1>4. z.length \in Seq(Byte) /\ z.data \in Seq(Byte) /\ z.read \in 0..Len(w) /\ Partial(z)
  BY <1>2, BytesMoved
<1>5. left \in Seq(Byte)
  BY <1>2, <1>4, Suffix
<1>6. part \in PacketParts /\ part.length = z.length /\ part.data = z.data
  <2>1. part \in SocketData /\ part.length = z.length /\ part.data = z.data
    BY <1>4 DEF SocketData
  <2> HIDE DEF part, z
  <2>2. Partial(part)
    BY <1>4, <2>1 DEF Partial
  <2> QED
    BY <2>1, <2>2 DEF PacketParts
<1>7. ASSUME ~broken[c]
      PROVE  /\ Len(r) <= Len(s)
             /\ Framed(BytesOf(z, left, f), way)
             /\ Complete(z) => /\ way # <<>>
                               /\ z.data = way[1]
                               /\ Framed(left \o f, Tail(way))
  <2>1. Len(r) <= Len(s) /\ Framed(BytesOf(d, w, f), way)
    BY <1>7 DEF FrameInv, InFrames, d, w, f, s, r
  <2>2. way \in Seq(Packets)
    BY <1>2, <2>1, OnTheWayType
  <2>3. Framed(((d.length \o d.data) \o w) \o f, way)
    BY <2>1 DEF BytesOf
  <2> HIDE DEF way
  <2>4. /\ Framed(((z.length \o z.data) \o left) \o f, way)
        /\ Complete(z) => /\ way # <<>>
                          /\ z.data = way[1]
                          /\ Framed(left \o f, Tail(way))
    BY <1>2, <2>2, <2>3, FrameRead
  <2> QED
    BY <2>1, <2>4 DEF BytesOf
<1>8. ASSUME ~broken[c], Complete(z)
      PROVE  /\ z.data \in Packets
             /\ Len(r) < Len(s) /\ z.data = s[Len(r) + 1]
             /\ OnTheWay(s, Append(r, z.data)) = Tail(way)
             /\ Append(r, z.data) \in Seq(Packets)
             /\ Len(Append(r, z.data)) = Len(r) + 1
  <2>1. Len(r) <= Len(s) /\ way # <<>> /\ z.data = way[1]
    BY <1>7, <1>8
  <2>2. way \in Seq(Packets)
    BY <1>2, <2>1, OnTheWayType
  <2>3. z.data \in Packets
    <3> HIDE DEF way, z
    <3> QED
      BY <2>1, <2>2, HeadTailProperties
  <2> HIDE DEF z
  <2>4. /\ Len(r) < Len(s) /\ OnTheWay(s, r)[1] = s[Len(r) + 1]
        /\ OnTheWay(s, Append(r, z.data)) = Tail(OnTheWay(s, r))
    BY <1>2, <2>1, <2>3, OnTheWayReceived
  <2> QED
    BY <1>2, <2>1, <2>3, <2>4, AppendProperties
<1> HIDE DEF z, left, part, way
<1>9. FrameType'
  <2>1. wire' \in [Conns -> Seq(Byte)]
    BY <1>1, <1>3, <1>5 DEF FrameType
  <2>2. sdata' \in [Conns -> PacketParts]
    BY <1>1, <1>3, <1>6, ResetType DEF FrameType
  <2>3. received' \in [Conns -> Seq(Packets)]
    BY <1>1, <1>3, <1>8 DEF FrameType, r
  <2> QED
    BY <1>1, <1>3, <2>1, <2>2, <2>3 DEF FrameType
<1>10. ASSUME NEW k \in Conns, ~broken'[k]
       PROVE  InFrames(sdata'[k], wire'[k], flight'[k], sent'[k], received'[k])
  <2>1. CASE k # c
    <3>1. /\ InFrames(sdata[k], wire[k], flight[k], sent[k], received[k])
          /\ flight' = flight /\ sent' = sent
      BY <1>3, <1>10 DEF FrameInv
    <3>2. sdata'[k] = sdata[k] /\ wire'[k] = wire[k] /\ received'[k] = received[k]
      BY <1>1, <1>3, <2>1 DEF FrameType
    <3> QED
      BY <3>1, <3>2
  <2>2. CASE k = c /\ Complete(z)
    <3>1. ~broken[c]
      BY <1>3, <1>10, <2>2
    <3>2. /\ sdata'[c] = Reset /\ wire'[c] = left /\ flight'[c] = f /\ sent'[c] = s
          /\ received'[c] = Append(r, z.data)
      BY <1>1, <1>3, <2>2, <3>1 DEF FrameType, f, s, r
    <3>3. BytesOf(Reset, left, f) = left \o f
      BY <1>2, <1>5, ResetBytes
    <3>4. Len(Append(r, z.data)) <= Len(s)
      BY <1>2, <1>8, <2>2, <3>1
    <3> QED
      BY <1>7, <1>8, <2>2, <3>1, <3>2, <3>3, <3>4 DEF InFrames
  <2>3. CASE k = c /\ ~Complete(z)
    <3>1. ~broken[c]
      BY <1>3, <1>10, <2>3
    <3>2. /\ sdata'[c] = part /\ wire'[c] = left /\ flight'[c] = f /\ sent'[c] = s
          /\ received'[c] = r
      BY <1>1, <1>3, <2>3 DEF FrameType, f, s, r
    <3>3. BytesOf(part, left, f) = BytesOf(z, left, f)
      BY <1>6 DEF BytesOf
    <3> QED
      BY <1>7, <2>3, <3>1, <3>2, <3>3 DEF InFrames, way
  <2> QED
    BY <2>1, <2>2, <2>3
<1>11. UNCHANGED received \/ Stream!Receive(c)
  <2>1. CASE Complete(z) /\ ~broken[c]
    <3>1. received' = [received EXCEPT ![c] = Append(@, s[Len(r) + 1])]
      BY <1>3, <1>8, <2>1
    <3> QED
      BY <1>8, <2>1, <3>1 DEF Stream!Receive, s, r
  <2>2. CASE ~(Complete(z) /\ ~broken[c])
    BY <1>1, <1>3, <2>2 DEF FrameType
  <2> QED
    BY <2>1, <2>2
<1> QED
  BY <1>9, <1>10, <1>11 DEF FrameInv

LEMMA FramesPolled ==
  ASSUME FrameInv, NEW t \in Threads, PollSocket(t)
  PROVE  FrameInv' /\ (UNCHANGED received \/ \E c \in Conns : Stream!Receive(c))
<1>1. FrameType
  BY DEF FrameInv
<1>2. PICK c \in topoll : ReadSocket(c) \/ ReadFails(c) \/ SocketDone(c)
  BY DEF PollSocket
<1>3. c \in Conns /\ UNCHANGED <<m_destSockets, flight, sent>>
  BY <1>1 DEF PollSocket, FrameType
<1>4. CASE ReadSocket(c)
  BY <1>3, <1>4, FramesRead
<1>5. CASE ReadFails(c) \/ SocketDone(c)
  <2>1. /\ topoll' = topoll \ {c}
        /\ broken' \in {broken, [broken EXCEPT ![c] = TRUE]}
        /\ UNCHANGED <<sdata, wire, received>>
    BY <1>5 DEF ReadFails, SocketDone
  <2>2. /\ m_destSockets' \subseteq Conns /\ topoll' \subseteq Conns
        /\ sdata' \in [Conns -> PacketParts] /\ broken' \in [Conns -> BOOLEAN]
    BY <1>1, <1>3, <2>1 DEF FrameType
  <2>3. \A k \in Conns : ~broken'[k] => ~broken[k] /\ sdata'[k] = sdata[k]
    BY <1>1, <1>3, <2>1 DEF FrameType
  <2>4. FrameInv'
    BY <1>3, <2>1, <2>2, <2>3, FramesLost
  <2> QED
    BY <2>1, <2>4
<1> QED
  BY <1>2, <1>4, <1>5

-----------------------------------------------------------------------------
\* Every step sends a packet whole, receives the next one, or does neither.
LEMMA StreamStep ==
  ASSUME FrameInv, [Next]_vars
  PROVE  FrameInv' /\ [Stream!Next]_<<sent, received>>
<1>1. m_destSockets \subseteq Conns /\ topoll \subseteq Conns
  BY DEF FrameInv, FrameType
<1>2. CASE UNCHANGED vars
  BY <1>1, <1>2, FramesKept DEF vars, tcpvars, pollvars
<1>3. CASE Arriving
  BY <1>3, FramesArrive DEF Arriving
<1>4. ASSUME NEW t \in Threads, Step(t)
      PROVE  FrameInv' /\ [Stream!Next]_<<sent, received>>
  <2>1. CASE PollSocket(t)
    BY <2>1, FramesPolled DEF PollSocket, Stream!Next
  <2>2. CASE ~PollSocket(t)
    <3>1. UNCHANGED tcpvars
      BY <1>4, <2>2 DEF Step, WaitStep, DestroyWaitsForWait, DestroyEnds, PollEnds,
                        ErrorHandled
    <3> QED
      BY <1>1, <3>1, FramesKept DEF tcpvars, pollvars
  <2> QED
    BY <2>1, <2>2
<1>5. ASSUME NEW t \in Threads, LifeCycle(t)
      PROVE  FrameInv' /\ [Stream!Next]_<<sent, received>>
  <2>1. CASE Create(t) \/ GetLocalHostName(t)
    BY <1>1, <2>1, FramesKept DEF Create, GetLocalHostName, tcpvars, pollvars
  <2>2. CASE Destroy(t)
    BY <2>2, FramesCleared DEF Destroy, pollvars
  <2> QED
    BY <1>5, <2>1, <2>2 DEF LifeCycle
<1>6. ASSUME NEW t \in Threads, Waiting(t)
      PROVE  FrameInv' /\ [Stream!Next]_<<sent, received>>
  BY <1>1, <1>6, FramesKept
     DEF Waiting, WaitForIncomingData, WaitEnds, AbortWait, tcpvars, pollvars
<1>7. ASSUME NEW t \in Threads, Receiving(t)
      PROVE  FrameInv' /\ [Stream!Next]_<<sent, received>>
  BY <1>1, <1>7, FramesKept DEF Receiving, Poll, GetNextPacket, tcpvars, pollvars
<1>8. ASSUME NEW t \in Threads, Connecting(t)
      PROVE  FrameInv' /\ [Stream!Next]_<<sent, received>>
  <2>1. ASSUME NEW c \in Conns, AddDestination(t, c)
        PROVE  FrameInv' /\ UNCHANGED <<sent, received>>
    BY <1>1, <2>1, FramesKept DEF AddDestination, pollvars
  <2>2. ASSUME NEW c \in Conns, DeleteDestination(t, c)
        PROVE  FrameInv' /\ UNCHANGED <<sent, received>>
    BY <2>2, FramesDeleted
  <2>3. CASE ClearDestinations(t)
    BY <2>3, FramesCleared DEF ClearDestinations, pollvars
  <2> QED
    BY <1>8, <2>1, <2>2, <2>3 DEF Connecting
<1>9. ASSUME NEW t \in Threads, Sending(t)
      PROVE  FrameInv' /\ [Stream!Next]_<<sent, received>>
  <2>1. PICK p \in Packets : SendRTPRTCPData(t, p)
    BY <1>9 DEF Sending, SendRTPData, SendRTCPData
  <2> QED
    BY <2>1, FramesSent DEF Stream!Next
<1> QED
  BY <1>2, <1>3, <1>4, <1>5, <1>6, <1>7, <1>8, <1>9 DEF Next

\* For any packets, any number of connections and threads, and any way the
\* bytes of the lengths and of the data are cut into pieces: while the framing
\* of a connection is not lost, the packets that come out of it are those that
\* were sent, whole, once and in order (SocketData::ProcessAvailableBytes keeps
\* its position across reads).
THEOREM FramingSafe == Spec => StreamImplemented
<1>1. Init => Stream!Init
  BY DEF Init, Stream!Init
<1> QED
  BY InitFrames, <1>1, StreamStep, PTL DEF Spec, StreamImplemented, Stream!Spec

=============================================================================
