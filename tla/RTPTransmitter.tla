--------------------------- MODULE RTPTransmitter ---------------------------
(***************************************************************************)
(* What the transmission components have in common: the two mutexes, the   *)
(* wait for incoming data that another thread can abort, the life cycle     *)
(* and the list of received packets.  The modules of the transmitters       *)
(* (RTPUDPv4Transmitter, ...) extend this one and define the handlers.      *)
(*                                                                          *)
(* A handler that locks the main mutex, works and unlocks it is one step;   *)
(* at[t] says where a thread is that lets others in halfway.  Calls that    *)
(* return an error before they change anything are left out, and so is      *)
(* running out of memory.                                                   *)
(***************************************************************************)
EXTENDS Integers, Sequences, FiniteSets

CONSTANTS
  Threads,
  Nobody,
  MaxCreates,        \* bound: how often the transmitter is created
  MaxSignals,        \* bound: bytes in the abort descriptors
  MaxPackets         \* bound: packets received and not yet taken

ASSUME TransmitterAssumption ==
  /\ Nobody \notin Threads
  /\ MaxCreates \in Nat /\ MaxSignals \in Nat /\ MaxPackets \in Nat

VARIABLES
  created,
  waitingfordata,
  mainmutex,         \* the thread that holds it, or Nobody
  waitmutex,
  at,
  ownabort,          \* the abort descriptors are the transmitter's own
  abortbytes,        \* bytes in them, to be read
  abortflag,         \* whether RTPSelect found them readable, per thread
  rawpacketlist,
  localhostname,     \* the cached name: "" when it was not asked for
  creates            \* counter for MaxCreates

lifevars == <<created, ownabort, creates>>
mutexvars == <<mainmutex, waitmutex>>
waitvars == <<waitingfordata, abortbytes, abortflag>>
datavars == <<rawpacketlist, localhostname>>
commonvars == <<lifevars, mutexvars, waitvars, datavars, at>>

Locations ==
  {"outside",
   "waitlock",       \* in WaitForIncomingData, holds main, wants wait
   "select",         \* in RTPSelect, holds wait
   "woken",          \* holds wait, wants main
   "reading",        \* reads the abort descriptor, holds both
   "leaving",        \* holds wait, has unlocked main
   "polling",        \* in Poll between two sockets, holds main
   "calling",        \* calls the application, holds no mutex
   "destroylock",    \* in Destroy, has unlocked main, wants wait
   "destroyunlock"}  \* in Destroy, before the last unlock of main

Goto(t, location) == at' = [at EXCEPT ![t] = location]

\* The thread is outside the transmitter and can lock the main mutex.
Enters(t) == at[t] = "outside" /\ mainmutex = Nobody

\* It does so in a handler that needs a transmitter in use.
Works(t) == Enters(t) /\ created

-----------------------------------------------------------------------------
(* RTPAbortDescriptors: a pipe *)

\* A thread blocked on the read end sees the end of file once it is closed.
AbortReadable == abortbytes > 0 \/ (ownabort /\ ~created)

SendAbortSignal == abortbytes' = abortbytes + 1

\* Reads until nothing is left.
ClearAbortSignal == abortbytes' = 0

\* Blocks until there is a byte.
ReadSignallingByte ==
  /\ abortbytes > 0
  /\ abortbytes' = abortbytes - 1

-----------------------------------------------------------------------------
(* WaitForIncomingData *)

\* The part before WAITMUTEX_LOCK.
StartWaiting(t) ==
  /\ Works(t)
  /\ ~waitingfordata
  /\ waitingfordata' = TRUE
  /\ mainmutex' = t
  /\ Goto(t, "waitlock")
  /\ UNCHANGED <<lifevars, datavars, waitmutex, abortbytes, abortflag>>

\* Mutant: does not wait for the thread that still reads or leaves.
LockWaitMutexTaken(t) ==
  /\ at[t] = "waitlock"
  /\ waitmutex' = t
  /\ mainmutex' = Nobody
  /\ Goto(t, "select")
  /\ UNCHANGED <<lifevars, datavars, waitvars>>

\* Mutant: drops the signals that came before.
LockWaitMutexDraining(t) ==
  /\ at[t] = "waitlock"
  /\ waitmutex = Nobody
  /\ waitmutex' = t
  /\ mainmutex' = Nobody
  /\ ClearAbortSignal
  /\ Goto(t, "select")
  /\ UNCHANGED <<lifevars, datavars, waitingfordata, abortflag>>

\* Locks the wait mutex while it holds the main one, then unlocks the latter.
LockWaitMutex(t) ==
  /\ at[t] = "waitlock"
  /\ waitmutex = Nobody
  /\ waitmutex' = t
  /\ mainmutex' = Nobody
  /\ Goto(t, "select")
  /\ UNCHANGED <<lifevars, datavars, waitvars>>

\* Returns with what is readable: the abort descriptors, or only data, or
\* nothing because the delay has passed.
RTPSelect(t) ==
  /\ at[t] = "select"
  /\ abortflag' = [abortflag EXCEPT ![t] = AbortReadable]
  /\ Goto(t, "woken")
  /\ UNCHANGED <<lifevars, mutexvars, datavars, waitingfordata, abortbytes>>

\* Fails or is interrupted by a signal: no flag is set.
RTPSelectFails(t) ==
  /\ at[t] = "select"
  /\ abortflag' = [abortflag EXCEPT ![t] = FALSE]
  /\ Goto(t, "woken")
  /\ UNCHANGED <<lifevars, mutexvars, datavars, waitingfordata, abortbytes>>

\* Locks the main mutex again.  Nothing is read after Destroy, or when
\* something else ended the wait.
Woken(t) ==
  /\ at[t] = "woken"
  /\ mainmutex = Nobody
  /\ waitingfordata' = FALSE
  /\ IF created /\ abortflag[t]
     THEN mainmutex' = t /\ Goto(t, "reading")
     ELSE UNCHANGED mainmutex /\ Goto(t, "leaving")
  /\ UNCHANGED <<lifevars, datavars, waitmutex, abortbytes, abortflag>>

\* Reads the abort descriptors by read and unlocks the main mutex.
ReadAbort(t, read) ==
  /\ at[t] = "reading"
  /\ read
  /\ mainmutex' = Nobody
  /\ Goto(t, "leaving")
  /\ UNCHANGED <<lifevars, datavars, waitmutex, waitingfordata, abortflag>>

UnlockWaitMutex(t) ==
  /\ at[t] = "leaving"
  /\ waitmutex' = Nobody
  /\ Goto(t, "outside")
  /\ UNCHANGED <<lifevars, datavars, waitvars, mainmutex>>

\* AbortWait: only a thread that waits is sent a byte.
SignalWaiter(t) ==
  /\ Works(t)
  /\ waitingfordata
  /\ abortbytes < MaxSignals
  /\ SendAbortSignal
  /\ UNCHANGED <<lifevars, mutexvars, datavars, at, waitingfordata, abortflag>>

-----------------------------------------------------------------------------
(* Create and Destroy *)

\* The cached host name is cleared by Create and Destroy, except for TCP, where
\* it outlives the transmitter.
ForgetHostName == localhostname' = ""

\* Create may start: it can be called once more.
MayCreate(t) == Enters(t) /\ ~created /\ creates < MaxCreates

\* Create comes to its end, with abort descriptors of its own or with the
\* application's, in which bytes may be left.
Created(own) ==
  /\ created' = TRUE
  /\ waitingfordata' = FALSE
  /\ ownabort' = own
  /\ abortbytes' = IF own THEN 0 ELSE abortbytes
  /\ creates' = creates + 1
  /\ UNCHANGED <<mutexvars, at, abortflag, rawpacketlist>>

\* Create gives up before it changes anything of the above.
CreateFailed ==
  /\ creates' = creates + 1
  /\ UNCHANGED <<created, ownabort, mutexvars, waitvars, datavars, at>>

\* Mutant: no byte is written into descriptors of the application.
DestroyedSilently(t) ==
  /\ Works(t)
  /\ created' = FALSE
  /\ rawpacketlist' = <<>>
  /\ abortbytes' = IF ownabort THEN 0 ELSE abortbytes
  /\ IF waitingfordata THEN Goto(t, "destroylock") ELSE UNCHANGED at
  /\ UNCHANGED <<ownabort, creates, mutexvars, waitingfordata, abortflag>>

\* The end of Destroy: the packets are released, a waiting thread is signalled
\* and the thread that destroys waits, without the main mutex, for it to leave.
Destroyed(t) ==
  /\ Works(t)
  /\ created' = FALSE
  /\ rawpacketlist' = <<>>
  /\ IF ownabort THEN abortbytes' = 0
     ELSE IF waitingfordata THEN SendAbortSignal ELSE UNCHANGED abortbytes
  /\ IF waitingfordata THEN Goto(t, "destroylock") ELSE UNCHANGED at
  /\ UNCHANGED <<ownabort, creates, mutexvars, waitingfordata, abortflag>>

\* Locks the wait mutex and unlocks it.
DestroyWaits(t) ==
  /\ at[t] = "destroylock"
  /\ waitmutex = Nobody
  /\ Goto(t, "destroyunlock")
  /\ UNCHANGED <<lifevars, mutexvars, waitvars, datavars>>

\* The MAINMUTEX_UNLOCK at the end of Destroy, the second one on this path:
\* it unlocks whoever holds the mutex by now.
DestroyUnlocks(t) ==
  /\ at[t] = "destroyunlock"
  /\ mainmutex' = Nobody
  /\ Goto(t, "outside")
  /\ UNCHANGED <<lifevars, waitmutex, waitvars, datavars>>

-----------------------------------------------------------------------------
(* Small handlers *)

\* GetNextPacket with a packet in the list.
TakePacket(t) ==
  /\ Works(t)
  /\ rawpacketlist # <<>>
  /\ rawpacketlist' = Tail(rawpacketlist)
  /\ UNCHANGED <<lifevars, mutexvars, waitvars, at, localhostname>>

\* GetLocalHostName finds a name of one of the kinds given and keeps it.
NameHost(t, kinds) ==
  /\ Works(t)
  /\ localhostname = ""
  /\ localhostname' \in kinds
  /\ UNCHANGED <<lifevars, mutexvars, waitvars, at, rawpacketlist>>

TransmitterInit ==
  /\ created = FALSE
  /\ waitingfordata = FALSE
  /\ mainmutex = Nobody
  /\ waitmutex = Nobody
  /\ at = [t \in Threads |-> "outside"]
  /\ ownabort = TRUE
  /\ abortbytes = 0
  /\ abortflag = [t \in Threads |-> FALSE]
  /\ rawpacketlist = <<>>
  /\ localhostname = ""
  /\ creates = 0

-----------------------------------------------------------------------------
(* Properties every transmitter has *)

\* A thread that is between Destroy's signal and its return gets to the end:
\* the thread it waits for is woken, by the byte or the closed pipe, without
\* its delay having to pass.  (Destroy waits for WaitForIncomingData.)
DestroyReturns ==
  \A t \in Threads : at[t] = "destroylock" ~> at[t] = "outside"

\* A wait that was sent a byte ends, whenever the byte came: AbortWait between
\* the unlocking of the main mutex and RTPSelect is not lost.
AbortWakes ==
  \A t \in Threads :
    (at[t] \in {"waitlock", "select"} /\ abortbytes > 0)
      ~> at[t] = "outside"

\* The thread that waits, reads the descriptors or polls is the one that
\* holds the mutexes its place in the code needs.
HoldsWhatItNeeds ==
  \A t \in Threads :
    /\ at[t] \in {"waitlock", "reading", "polling"} => mainmutex = t
    /\ at[t] \in {"select", "woken", "reading", "leaving"} <=> waitmutex = t

=============================================================================
