----------------------- MODULE RTPExternalTransmitter -----------------------
(***************************************************************************)
(* The transmitter whose packets the application injects and sends itself.  *)
(* Injected packets go straight to the list of received ones, and the abort *)
(* descriptors are what wakes a thread that waits for them.                 *)
(***************************************************************************)
EXTENDS RTPTransmitter

VARIABLES
  sender,          \* whether the parameters have an RTPExternalSender
  m_abortCount

extvars == <<sender, m_abortCount>>
vars == <<commonvars, extvars>>

Create(t) ==
  /\ MayCreate(t)
  /\ Created(TRUE)
  /\ ForgetHostName
  /\ m_abortCount' = 0
  /\ sender' \in BOOLEAN

Destroy(t) ==
  /\ Destroyed(t)
  /\ ForgetHostName
  /\ m_abortCount' = IF waitingfordata THEN m_abortCount + 1 ELSE m_abortCount
  /\ UNCHANGED sender

DestroyWaitsForWait(t) == DestroyWaits(t) /\ UNCHANGED extvars

DestroyEnds(t) == DestroyUnlocks(t) /\ UNCHANGED extvars

GetLocalHostName(t) == NameHost(t, {"name"}) /\ UNCHANGED extvars

\* Returns at once, without a step of its own, when there are packets.
WaitForIncomingData(t) ==
  /\ rawpacketlist = <<>>
  /\ StartWaiting(t)
  /\ UNCHANGED extvars

\* Mutant: the count of signals is not reset.
ReadSignalsUncounted(t) ==
  /\ ReadAbort(t, ClearAbortSignal)
  /\ UNCHANGED extvars

ReadSignals(t) ==
  /\ ReadAbort(t, ClearAbortSignal)
  /\ m_abortCount' = 0
  /\ UNCHANGED sender

WaitStep(t) ==
  \/ /\ \/ LockWaitMutex(t)
        \/ AbortReadable /\ RTPSelect(t)
        \/ Woken(t)
        \/ UnlockWaitMutex(t)
     /\ UNCHANGED extvars
  \/ ReadSignals(t)

WaitEnds(t) == RTPSelectFails(t) /\ UNCHANGED extvars

AbortWait(t) ==
  /\ SignalWaiter(t)
  /\ m_abortCount' = m_abortCount + 1
  /\ UNCHANGED sender

\* The three functions of RTPExternalPacketInjecter: a packet is added and, if
\* no signal is pending, one is sent.
Inject(t, rtp) ==
  /\ Works(t)
  /\ Len(rawpacketlist) < MaxPackets
  /\ rawpacketlist' = Append(rawpacketlist, [isrtp |-> rtp])
  /\ IF m_abortCount = 0
     THEN SendAbortSignal /\ m_abortCount' = 1
     ELSE UNCHANGED <<abortbytes, m_abortCount>>
  /\ UNCHANGED <<lifevars, mutexvars, waitingfordata, abortflag, at,
                 localhostname, sender>>

InjectRTP(t) == Inject(t, TRUE)

InjectRTCP(t) == Inject(t, FALSE)

\* Told apart by the packet type in the second byte.
InjectRTPorRTCP(t) == \E rtp \in BOOLEAN : Inject(t, rtp)

\* The sender is called after the main mutex was unlocked, and may be called
\* still when the transmitter is destroyed.
SendRTPData(t) ==
  /\ Works(t)
  /\ sender
  /\ Goto(t, "calling")
  /\ UNCHANGED <<lifevars, mutexvars, waitvars, datavars, extvars>>

SendRTCPData(t) ==
  /\ Works(t)
  /\ sender
  /\ Goto(t, "calling")
  /\ UNCHANGED <<lifevars, mutexvars, waitvars, datavars, extvars>>

SenderReturns(t) ==
  /\ at[t] = "calling"
  /\ Goto(t, "outside")
  /\ UNCHANGED <<lifevars, mutexvars, waitvars, datavars, extvars>>

GetNextPacket(t) == TakePacket(t) /\ UNCHANGED extvars

-----------------------------------------------------------------------------
Init == TransmitterInit /\ sender = FALSE /\ m_abortCount = 0

Step(t) ==
  WaitStep(t) \/ DestroyWaitsForWait(t) \/ DestroyEnds(t) \/ SenderReturns(t)

LifeCycle(t) == Create(t) \/ Destroy(t) \/ GetLocalHostName(t)

Waiting(t) == WaitForIncomingData(t) \/ WaitEnds(t) \/ AbortWait(t)

Receiving(t) ==
  InjectRTP(t) \/ InjectRTCP(t) \/ InjectRTPorRTCP(t) \/ GetNextPacket(t)

Sending(t) == SendRTPData(t) \/ SendRTCPData(t)

Next ==
  \E t \in Threads :
    Step(t) \/ LifeCycle(t) \/ Waiting(t) \/ Receiving(t) \/ Sending(t)

Spec == Init /\ [][Next]_vars /\ \A t \in Threads : SF_vars(Step(t))

-----------------------------------------------------------------------------
(* Properties *)

\* A thread does not sleep over packets that are there: if one was injected
\* since it looked, the descriptors are readable.  (Inject sends a signal only
\* when none is pending, by the count that the wait resets.)
NoLostWakeup ==
  \A t \in Threads :
    at[t] \in {"waitlock", "select"} /\ rawpacketlist # <<>> => AbortReadable

=============================================================================
