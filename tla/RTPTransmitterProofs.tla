------------------------ MODULE RTPTransmitterProofs ------------------------
(***************************************************************************)
(* That the handlers the transmitters share keep their two mutexes in       *)
(* order, as long as the transmitter is created once.  (It does not hold    *)
(* when it is created again: see DestroyUnlocks.)                           *)
(***************************************************************************)
EXTENDS RTPTransmitter, TLAPS

\* Where a thread holds the main mutex, and where it is about to unlock it for
\* the second time.
HoldsMain == {"waitlock", "reading", "polling"}
Destroying == {"destroylock", "destroyunlock"}

\* There is one life: when it is over no thread holds the main mutex and none
\* will, so that the second unlock takes it away from nobody.
OneLife ==
  /\ created \in BOOLEAN
  /\ creates \in 0..MaxCreates
  /\ created => creates = MaxCreates
  /\ ~created => \A t \in Threads : at[t] \notin HoldsMain
  /\ \A t \in Threads : at[t] \in Destroying => ~created /\ creates = MaxCreates

MutexInv ==
  /\ at \in [Threads -> Locations]
  /\ HoldsWhatItNeeds
  /\ OneLife

-----------------------------------------------------------------------------
LEMMA InitMutex == TransmitterInit => MutexInv
<1> SUFFICES ASSUME TransmitterInit PROVE MutexInv
  OBVIOUS
<1>1. at \in [Threads -> Locations] /\ \A t \in Threads : at[t] = "outside"
  BY DEF TransmitterInit, Locations
<1>2. HoldsWhatItNeeds
  BY <1>1, TransmitterAssumption DEF TransmitterInit, HoldsWhatItNeeds
<1>3. created = FALSE /\ creates = 0
  BY DEF TransmitterInit
<1>4. creates \in 0..MaxCreates
  BY <1>3, TransmitterAssumption
<1>5. OneLife
  BY <1>1, <1>3, <1>4 DEF OneLife, HoldsMain, Destroying
<1> QED
  BY <1>1, <1>2, <1>5 DEF MutexInv

\* A step that changes neither mutex, life nor a thread's place.
LEMMA QuietStep ==
  ASSUME MutexInv, UNCHANGED <<created, creates, mutexvars, at>>
  PROVE  MutexInv'
  BY DEF MutexInv, OneLife, HoldsWhatItNeeds, mutexvars

\* A thread without a mutex calls the application, or returns from it.
LEMMA CallStep ==
  ASSUME MutexInv, NEW t \in Threads,
         at[t] \in {"outside", "calling"},
         NEW l \in {"outside", "calling"}, Goto(t, l),
         UNCHANGED <<created, creates, mutexvars>>
  PROVE  MutexInv'
  BY DEF MutexInv, OneLife, HoldsWhatItNeeds, mutexvars, Goto, Locations, HoldsMain,
         Destroying

\* A thread locks the main mutex in a transmitter in use, to wait or to poll.
LEMMA LockMainStep ==
  ASSUME MutexInv, NEW t \in Threads, Works(t), mainmutex' = t,
         NEW l \in {"waitlock", "polling"}, Goto(t, l),
         UNCHANGED <<created, creates, waitmutex>>
  PROVE  MutexInv'
  BY TransmitterAssumption
     DEF MutexInv, OneLife, HoldsWhatItNeeds, Works, Enters, Goto, Locations,
         HoldsMain, Destroying

\* It unlocks it when it has polled.
LEMMA PollEndStep ==
  ASSUME MutexInv, NEW t \in Threads, at[t] = "polling", mainmutex' = Nobody,
         NEW l \in {"outside", "calling"}, Goto(t, l),
         UNCHANGED <<created, creates, waitmutex>>
  PROVE  MutexInv'
  BY TransmitterAssumption
     DEF MutexInv, OneLife, HoldsWhatItNeeds, Goto, Locations, HoldsMain, Destroying

-----------------------------------------------------------------------------
(* Waiting *)

LEMMA StartWaitingStep ==
  ASSUME MutexInv, NEW t \in Threads, StartWaiting(t)
  PROVE  MutexInv'
  BY LockMainStep DEF StartWaiting, lifevars

LEMMA LockWaitMutexStep ==
  ASSUME MutexInv, NEW t \in Threads, LockWaitMutex(t)
  PROVE  MutexInv'
  BY TransmitterAssumption
     DEF MutexInv, OneLife, HoldsWhatItNeeds, LockWaitMutex, Goto, Locations, HoldsMain,
         Destroying, lifevars

LEMMA RTPSelectStep ==
  ASSUME MutexInv, NEW t \in Threads, RTPSelect(t) \/ RTPSelectFails(t)
  PROVE  MutexInv'
  BY DEF MutexInv, OneLife, HoldsWhatItNeeds, RTPSelect, RTPSelectFails, Goto,
         Locations, HoldsMain, Destroying, lifevars, mutexvars

LEMMA WokenStep ==
  ASSUME MutexInv, NEW t \in Threads, Woken(t)
  PROVE  MutexInv'
<1>1. /\ at[t] = "woken"
      /\ mainmutex = Nobody
      /\ UNCHANGED <<created, creates, waitmutex>>
  BY DEF Woken, lifevars
<1>2. CASE created /\ abortflag[t]
  <2>1. mainmutex' = t /\ Goto(t, "reading")
    BY <1>2 DEF Woken
  <2> QED
    BY <1>1, <1>2, <2>1, TransmitterAssumption
       DEF MutexInv, OneLife, HoldsWhatItNeeds, Goto, Locations, HoldsMain, Destroying
<1>3. CASE ~(created /\ abortflag[t])
  <2>1. UNCHANGED mainmutex /\ Goto(t, "leaving")
    BY <1>3 DEF Woken
  <2> QED
    BY <1>1, <2>1
       DEF MutexInv, OneLife, HoldsWhatItNeeds, Goto, Locations, HoldsMain, Destroying
<1> QED
  BY <1>2, <1>3

\* However the abort descriptors are read.
LEMMA ReadAbortStep ==
  ASSUME MutexInv, NEW t \in Threads, at[t] = "reading", mainmutex' = Nobody,
         Goto(t, "leaving"), UNCHANGED <<created, creates, waitmutex>>
  PROVE  MutexInv'
  BY TransmitterAssumption
     DEF MutexInv, OneLife, HoldsWhatItNeeds, Goto, Locations, HoldsMain, Destroying

LEMMA UnlockWaitMutexStep ==
  ASSUME MutexInv, NEW t \in Threads, UnlockWaitMutex(t)
  PROVE  MutexInv'
  BY TransmitterAssumption
     DEF MutexInv, OneLife, HoldsWhatItNeeds, UnlockWaitMutex, Goto, Locations,
         HoldsMain, Destroying, lifevars

-----------------------------------------------------------------------------
(* Life cycle *)

LEMMA CreatedStep ==
  ASSUME MaxCreates = 1, MutexInv, NEW t \in Threads, MayCreate(t),
         NEW own \in BOOLEAN, Created(own)
  PROVE  MutexInv'
<1>1. creates \in 0..MaxCreates /\ creates < MaxCreates /\ ~created
  BY DEF MayCreate, MutexInv, OneLife
<1>2. UNCHANGED <<mainmutex, waitmutex, at>>
  BY DEF Created, mutexvars
<1>3. creates' = creates + 1 /\ created' = TRUE
  BY DEF Created
<1>4. creates = 0 /\ creates' = 1
  BY <1>1, <1>3
<1> QED
  BY <1>1, <1>2, <1>3, <1>4 DEF MutexInv, OneLife, HoldsWhatItNeeds

\* Nobody holds the main mutex when Destroy has obtained it.
LEMMA DestroyedStep ==
  ASSUME MutexInv, NEW t \in Threads, Destroyed(t)
  PROVE  MutexInv'
<1>1. /\ at[t] = "outside" /\ mainmutex = Nobody
      /\ created /\ created' = FALSE
      /\ UNCHANGED <<creates, mainmutex, waitmutex>>
      /\ Goto(t, "destroylock") \/ UNCHANGED at
  BY DEF Destroyed, Works, Enters, mutexvars
<1>2. \A s \in Threads : at[s] \notin HoldsMain
  BY <1>1, TransmitterAssumption DEF MutexInv, HoldsWhatItNeeds, HoldsMain
<1> QED
  BY <1>1, <1>2
     DEF MutexInv, OneLife, HoldsWhatItNeeds, Goto, Locations, HoldsMain, Destroying

LEMMA DestroyWaitsStep ==
  ASSUME MutexInv, NEW t \in Threads, DestroyWaits(t)
  PROVE  MutexInv'
  BY DEF MutexInv, OneLife, HoldsWhatItNeeds, DestroyWaits, Goto, Locations, HoldsMain,
         Destroying, lifevars, mutexvars

\* The second unlock: the life is over, so that nobody holds the mutex.
LEMMA DestroyUnlocksStep ==
  ASSUME MutexInv, NEW t \in Threads, DestroyUnlocks(t)
  PROVE  MutexInv'
<1>1. \A s \in Threads : at[s] \notin HoldsMain
  BY DEF MutexInv, OneLife, DestroyUnlocks, Destroying
<1> QED
  BY <1>1
     DEF MutexInv, OneLife, HoldsWhatItNeeds, DestroyUnlocks, Goto, Locations, HoldsMain,
         Destroying, lifevars

=============================================================================
