----------------------------- MODULE RTPSession -----------------------------
(***************************************************************************)
(* A session that polls in a thread of its own: RTPPollThread with          *)
(* RTPSession::ProcessPolledData on one side, the calls of the application  *)
(* on the other.  They meet at the mutexes of the source table, of the      *)
(* packet builders and of the scheduler, at the flag sentpackets, which has *)
(* a mutex that is never held while another one is taken, and at the two    *)
(* mutexes of the transmitter, one that the session created itself.  The    *)
(* application makes one call at a time, as the class demands.              *)
(*                                                                          *)
(* A critical section that takes no further mutex is one step; one that     *)
(* does is as many steps as there are points where it may have to wait.  So *)
(* the transmitter's main mutex is free between the steps, until a thread   *)
(* is killed that holds it.                                                 *)
(* The source table is reduced to our own entry: RTPSources has the rest.   *)
(* Session identifiers are drawn at random from 32 bits and taken not to    *)
(* repeat; here they are 1, 2, ... in the order they are drawn.             *)
(***************************************************************************)
EXTENDS Naturals, Sequences, FiniteSets

CONSTANTS
  Addr,            \* addresses of participants that use our SSRC
  Fails,           \* who sees calls of the transmitter and builders fail
  CanKill,         \* whether Stop may run into its five seconds
  MaxSSRC,         \* bound: session identifiers drawn
  MaxRaw           \* bound: packets the transmitter delivers at a time

ASSUME SessionAssumption ==
  /\ Fails \subseteq {"poll", "send", "leave"}
  /\ CanKill \in BOOLEAN
  /\ MaxSSRC \in Nat \ {0}
  /\ MaxRaw \in Nat

VARIABLES
  holder,          \* who holds each mutex
  poll,            \* where the poll thread is
  app,             \* where the application is
  stop,            \* RTPPollThread::stop
  raw,             \* received packets, as [ssrc, addr]
  packetbuilder,   \* the SSRC of the packet builder
  own,             \* the SSRC of our entry in the source table, 0 if none
  sentpackets,
  byepackets,      \* the SSRCs of the BYE packets built
  byescheduled,    \* RTCPScheduler::byescheduled
  collisionlist,   \* the addresses in it
  outgoing,        \* the RTCP packet the poll thread is sending
  appssrc,         \* the SSRC in the packet the application is sending
  timeup,          \* BYEDestroy's stop time has come
  finished,        \* history: SSRCs under which a SendPacket was complete
  settled,         \* history: those of them ours when the table was locked
  byes,            \* history: SSRCs for which a BYE was built
  goodbye          \* history: SSRCs whose BYE was sent

vars == <<holder, poll, app, stop, raw, packetbuilder, own, sentpackets,
          byepackets, byescheduled, collisionlist, outgoing, appssrc, timeup,
          finished, settled, byes, goodbye>>

history == <<finished, settled, byes, goodbye>>

SSRC == 1..MaxSSRC
Mutex == {"sources", "sched", "builder", "main", "wait"}
Thread == {"poll", "app"}

PollState ==
  {"started", "top", "delay", "wait", "select", "receive", "lock", "next",
   "collided", "bye", "schedule", "newssrc", "clear", "replace", "istime",
   "build", "send", "sent", "reschedule", "analyse", "step", "ended", "killed"}

AppState ==
  {"idle", "send", "mark", "flag", "sendapp", "flagapp", "access", "stopping",
   "aborting", "goodbye", "loop", "sendbye", "cleanup", "destroyed"}

Free(m) == holder[m] = "none"

Take(m, t) == /\ Free(m)
              /\ holder' = [holder EXCEPT ![m] = t]

Release(m) == holder' = [holder EXCEPT ![m] = "none"]

-----------------------------------------------------------------------------
(* The poll thread *)

\* Everything that neither the current step nor its position changes.
PollKeeps == UNCHANGED <<app, stop, appssrc, timeup>>

\* An error ends the thread, the source table being unlocked again.
EndPoll ==
  /\ Release("sources")
  /\ poll' = "ended"

\* OnPollThreadStart may ask it to stop at once.
Started ==
  /\ poll = "started"
  /\ poll' \in IF stop THEN {"ended"} ELSE {"top", "ended"}
  /\ PollKeeps
  /\ UNCHANGED <<holder, raw, packetbuilder, own, sentpackets, byepackets,
                 byescheduled, collisionlist, outgoing, history>>

\* The delay until the next report is computed under two mutexes.
LockScheduler ==
  /\ poll = "top"
  /\ Take("sched", "poll")
  /\ poll' = "delay"
  /\ PollKeeps
  /\ UNCHANGED <<raw, packetbuilder, own, sentpackets, byepackets,
                 byescheduled, collisionlist, outgoing, history>>

GetTransmissionDelay ==
  /\ poll = "delay"
  /\ Free("sources")
  /\ Release("sched")
  /\ poll' = "wait"
  /\ PollKeeps
  /\ UNCHANGED <<raw, packetbuilder, own, sentpackets, byepackets,
                 byescheduled, collisionlist, outgoing, history>>

\* WaitForIncomingData, which holds the transmitter's wait mutex, and not its
\* main mutex, until the select is over.
WaitForIncomingData ==
  /\ poll = "wait"
  /\ Free("main")
  /\ Take("wait", "poll")
  /\ poll' = "select"
  /\ PollKeeps
  /\ UNCHANGED <<raw, packetbuilder, own, sentpackets, byepackets,
                 byescheduled, collisionlist, outgoing, history>>

Selected ==
  /\ poll = "select"
  /\ Free("main")
  /\ Release("wait")
  /\ \/ poll' = "receive"
     \/ "poll" \in Fails /\ poll' = "ended"
  /\ PollKeeps
  /\ UNCHANGED <<raw, packetbuilder, own, sentpackets, byepackets,
                 byescheduled, collisionlist, outgoing, history>>

\* Poll of the transmitter.
Receive ==
  /\ poll = "receive"
  /\ Free("main")
  /\ \/ /\ \E n \in 0..MaxRaw :
             raw' \in [1..n -> [ssrc : 1..MaxSSRC - 1, addr : Addr]]
        /\ poll' = "lock"
     \/ /\ "poll" \in Fails
        /\ poll' = "ended"
        /\ UNCHANGED raw
  /\ PollKeeps
  /\ UNCHANGED <<holder, packetbuilder, own, sentpackets, byepackets,
                 byescheduled, collisionlist, outgoing, history>>

LockSources ==
  /\ poll = "lock"
  /\ Take("sources", "poll")
  /\ poll' = "next"
  /\ settled' = settled \cup (finished \cap {packetbuilder})
  /\ PollKeeps
  /\ UNCHANGED <<raw, packetbuilder, own, sentpackets, byepackets,
                 byescheduled, collisionlist, outgoing,
                 finished, byes, goodbye>>

\* ProcessRawPacket and, for a packet under our SSRC, the collision list: only
\* the first one from an address is a collision we react to.
ProcessRawPacket ==
  /\ poll = "next"
  /\ raw # <<>>
  /\ Free("main")
  /\ Free("sched")
  /\ raw' = Tail(raw)
  /\ \/ /\ LET p == Head(raw)
               created == p.ssrc = own /\ p.addr \notin collisionlist
           IN  /\ collisionlist' = IF p.ssrc = own
                                   THEN collisionlist \cup {p.addr}
                                   ELSE collisionlist
               /\ poll' = IF created THEN "collided" ELSE "next"
        /\ UNCHANGED holder
     \/ /\ "poll" \in Fails
        /\ EndPoll
        /\ UNCHANGED collisionlist
  /\ PollKeeps
  /\ UNCHANGED <<packetbuilder, own, sentpackets, byepackets, byescheduled,
                 outgoing, history>>

\* Mutant: no BYE while another one waits to be sent.
CollidedOnce ==
  /\ poll = "collided"
  /\ poll' = IF sentpackets /\ byepackets = <<>> THEN "bye" ELSE "newssrc"
  /\ PollKeeps
  /\ UNCHANGED <<holder, raw, packetbuilder, own, sentpackets, byepackets,
                 byescheduled, collisionlist, outgoing, history>>

Collided ==
  /\ poll = "collided"
  /\ poll' = IF sentpackets THEN "bye" ELSE "newssrc"
  /\ PollKeeps
  /\ UNCHANGED <<holder, raw, packetbuilder, own, sentpackets, byepackets,
                 byescheduled, collisionlist, outgoing, history>>

BuildBYEPacket ==
  /\ poll = "bye"
  /\ Free("builder")
  /\ \/ /\ byepackets' = Append(byepackets, packetbuilder)
        /\ byes' = byes \cup {packetbuilder}
        /\ poll' = IF Len(byepackets') = 1 THEN "schedule" ELSE "newssrc"
        /\ UNCHANGED holder
     \/ /\ "poll" \in Fails
        /\ EndPoll
        /\ UNCHANGED <<byepackets, byes>>
  /\ PollKeeps
  /\ UNCHANGED <<raw, packetbuilder, own, sentpackets, byescheduled,
                 collisionlist, outgoing, finished, settled, goodbye>>

ScheduleBYEPacket ==
  /\ poll = "schedule"
  /\ Free("sched")
  /\ byescheduled' = TRUE
  /\ poll' = "newssrc"
  /\ PollKeeps
  /\ UNCHANGED <<holder, raw, packetbuilder, own, sentpackets, byepackets,
                 collisionlist, outgoing, history>>

\* Mutant: the packet builder keeps its SSRC.
CreateNoSSRC ==
  /\ poll = "newssrc"
  /\ Free("builder")
  /\ poll' = "clear"
  /\ PollKeeps
  /\ UNCHANGED <<holder, raw, packetbuilder, own, sentpackets, byepackets,
                 byescheduled, collisionlist, outgoing, history>>

CreateNewSSRC ==
  /\ poll = "newssrc"
  /\ Free("builder")
  /\ packetbuilder' = packetbuilder + 1
  /\ poll' = "clear"
  /\ PollKeeps
  /\ UNCHANGED <<holder, raw, own, sentpackets, byepackets, byescheduled,
                 collisionlist, outgoing, history>>

ClearSentPackets ==
  /\ poll = "clear"
  /\ sentpackets' = FALSE
  /\ poll' = "replace"
  /\ PollKeeps
  /\ UNCHANGED <<holder, raw, packetbuilder, own, byepackets, byescheduled,
                 collisionlist, outgoing, history>>

\* Mutant: the source table keeps our old entry.
KeepOwnSSRC ==
  /\ poll = "replace"
  /\ poll' = "next"
  /\ PollKeeps
  /\ UNCHANGED <<holder, raw, packetbuilder, own, sentpackets, byepackets,
                 byescheduled, collisionlist, outgoing, history>>

\* DeleteOwnSSRC and CreateOwnSSRC.
ReplaceOwnSSRC ==
  /\ poll = "replace"
  /\ own' = packetbuilder
  /\ poll' = "next"
  /\ PollKeeps
  /\ UNCHANGED <<holder, raw, packetbuilder, sentpackets, byepackets,
                 byescheduled, collisionlist, outgoing, history>>

\* MultipleTimeouts and the collision list's Timeout.
Timeout ==
  /\ poll = "next"
  /\ raw = <<>>
  /\ Free("main")
  /\ Free("sched")
  /\ collisionlist' \in SUBSET collisionlist
  /\ poll' = "istime"
  /\ PollKeeps
  /\ UNCHANGED <<holder, raw, packetbuilder, own, sentpackets, byepackets,
                 byescheduled, outgoing, history>>

IsTime ==
  /\ poll = "istime"
  /\ Free("sched")
  /\ \/ /\ byescheduled' = FALSE
        /\ poll' = "build"
        /\ UNCHANGED holder
     \/ /\ Release("sources")
        /\ poll' = "step"
        /\ UNCHANGED byescheduled
  /\ PollKeeps
  /\ UNCHANGED <<raw, packetbuilder, own, sentpackets, byepackets,
                 collisionlist, outgoing, history>>

\* The first BYE packet if there is one, else BuildNextPacket.
BuildRTCP ==
  /\ poll = "build"
  /\ \/ /\ byepackets # <<>>
        /\ outgoing' = [bye |-> TRUE, ssrc |-> Head(byepackets)]
        /\ byepackets' = Tail(byepackets)
        /\ poll' = "send"
        /\ UNCHANGED holder
     \/ /\ byepackets = <<>>
        /\ Free("builder")
        /\ outgoing' = [bye |-> FALSE, ssrc |-> packetbuilder]
        /\ poll' = "send"
        /\ UNCHANGED <<holder, byepackets>>
     \/ /\ byepackets = <<>>
        /\ Free("builder")
        /\ "poll" \in Fails
        /\ EndPoll
        /\ UNCHANGED <<outgoing, byepackets>>
  /\ PollKeeps
  /\ UNCHANGED <<raw, packetbuilder, own, sentpackets, byescheduled,
                 collisionlist, history>>

\* The packet is gone whether it could be sent or not.
SendRTCPData ==
  /\ poll = "send"
  /\ Free("main")
  /\ \/ /\ goodbye' = IF outgoing.bye THEN goodbye \cup {outgoing.ssrc}
                                       ELSE goodbye
        /\ poll' = "sent"
        /\ UNCHANGED holder
     \/ /\ "poll" \in Fails
        /\ EndPoll
        /\ UNCHANGED goodbye
  /\ PollKeeps
  /\ UNCHANGED <<raw, packetbuilder, own, sentpackets, byepackets,
                 byescheduled, collisionlist, outgoing, finished, settled, byes>>

\* Mutant: the next BYE packet is not scheduled.
SentForgetting ==
  /\ poll = "sent"
  /\ sentpackets' = TRUE
  /\ poll' = "analyse"
  /\ PollKeeps
  /\ UNCHANGED <<holder, raw, packetbuilder, own, byepackets, byescheduled,
                 collisionlist, outgoing, history>>

\* A BYE packet counts as a packet sent, too.
Sent ==
  /\ poll = "sent"
  /\ sentpackets' = TRUE
  /\ poll' = IF outgoing.bye /\ byepackets # <<>> THEN "reschedule"
                                                  ELSE "analyse"
  /\ PollKeeps
  /\ UNCHANGED <<holder, raw, packetbuilder, own, byepackets, byescheduled,
                 collisionlist, outgoing, history>>

Reschedule ==
  /\ poll = "reschedule"
  /\ Free("sched")
  /\ byescheduled' = TRUE
  /\ poll' = "analyse"
  /\ PollKeeps
  /\ UNCHANGED <<holder, raw, packetbuilder, own, sentpackets, byepackets,
                 collisionlist, outgoing, history>>

\* Mutant: the source table stays locked after a report.
AnalyseOutgoingLocked ==
  /\ poll = "analyse"
  /\ Free("sched")
  /\ poll' = "step"
  /\ PollKeeps
  /\ UNCHANGED <<holder, raw, packetbuilder, own, sentpackets, byepackets,
                 byescheduled, collisionlist, outgoing, history>>

AnalyseOutgoing ==
  /\ poll = "analyse"
  /\ Free("sched")
  /\ Release("sources")
  /\ poll' = "step"
  /\ PollKeeps
  /\ UNCHANGED <<raw, packetbuilder, own, sentpackets, byepackets,
                 byescheduled, collisionlist, outgoing, history>>

Step ==
  /\ poll = "step"
  /\ poll' = IF stop THEN "ended" ELSE "top"
  /\ PollKeeps
  /\ UNCHANGED <<holder, raw, packetbuilder, own, sentpackets, byepackets,
                 byescheduled, collisionlist, outgoing, history>>

PollThread ==
  \/ Started \/ LockScheduler \/ GetTransmissionDelay
  \/ WaitForIncomingData \/ Selected \/ Receive
  \/ LockSources \/ ProcessRawPacket
  \/ Collided \/ BuildBYEPacket \/ ScheduleBYEPacket
  \/ CreateNewSSRC \/ ClearSentPackets \/ ReplaceOwnSSRC
  \/ Timeout \/ IsTime \/ BuildRTCP \/ SendRTCPData
  \/ Sent \/ Reschedule \/ AnalyseOutgoing \/ Step

-----------------------------------------------------------------------------
(* The application *)

AppKeeps ==
  UNCHANGED <<poll, raw, packetbuilder, own, collisionlist, outgoing>>

\* SendPacket, in four steps.
BuildPacket ==
  /\ app = "idle"
  /\ Take("builder", "app")
  /\ appssrc' = packetbuilder
  /\ app' = "send"
  /\ AppKeeps
  /\ UNCHANGED <<stop, sentpackets, byepackets, byescheduled, timeup, history>>

\* Mutant: the builder is not unlocked before the source table is locked.
SendRTPDataLocked ==
  /\ app = "send"
  /\ Free("main")
  /\ app' = "mark"
  /\ AppKeeps
  /\ UNCHANGED <<holder, appssrc, stop, sentpackets, byepackets, byescheduled,
                 timeup, finished, settled, byes, goodbye>>

SendRTPData ==
  /\ app = "send"
  /\ Free("main")
  /\ Release("builder")
  /\ \/ app' = "mark"
     \/ "send" \in Fails /\ app' = "idle"
  /\ AppKeeps
  /\ UNCHANGED <<appssrc, stop, sentpackets, byepackets, byescheduled, timeup,
                 finished, settled, byes, goodbye>>

\* sources.SentRTPPacket().
SentRTPPacket ==
  /\ app = "mark"
  /\ Free("sources")
  /\ app' = "flag"
  /\ AppKeeps
  /\ UNCHANGED <<holder, appssrc, stop, sentpackets, byepackets, byescheduled,
                 timeup, history>>

SetSentPackets ==
  /\ app \in {"flag", "flagapp"}
  /\ sentpackets' = TRUE
  /\ finished' = IF app = "flag" /\ appssrc = packetbuilder
                 THEN finished \cup {appssrc} ELSE finished
  /\ app' = "idle"
  /\ AppKeeps
  /\ UNCHANGED <<holder, appssrc, stop, byepackets, byescheduled, timeup,
                 settled, byes, goodbye>>

\* SendRTCPAPPPacket reads the SSRC under the builder's mutex and sends
\* without it.
BuildAPPPacket ==
  /\ app = "idle"
  /\ Free("builder")
  /\ appssrc' = packetbuilder
  /\ app' = "sendapp"
  /\ AppKeeps
  /\ UNCHANGED <<holder, stop, sentpackets, byepackets, byescheduled, timeup,
                 history>>

SendAPPPacket ==
  /\ app = "sendapp"
  /\ Free("main")
  /\ \/ app' = "flagapp"
     \/ "send" \in Fails /\ app' = "idle"
  /\ AppKeeps
  /\ UNCHANGED <<holder, appssrc, stop, sentpackets, byepackets, byescheduled,
                 timeup, finished, settled, byes, goodbye>>

BeginDataAccess ==
  /\ app = "idle"
  /\ Take("sources", "app")
  /\ app' = "access"
  /\ AppKeeps
  /\ UNCHANGED <<appssrc, stop, sentpackets, byepackets, byescheduled, timeup,
                 history>>

EndDataAccess ==
  /\ app = "access"
  /\ Release("sources")
  /\ app' = "idle"
  /\ AppKeeps
  /\ UNCHANGED <<appssrc, stop, sentpackets, byepackets, byescheduled, timeup,
                 history>>

\* BYEDestroy or Destroy: the poll thread is told to stop, its select is
\* aborted, and it is waited for.
Leave ==
  /\ app = "idle"
  /\ Free("main")
  /\ stop' = TRUE
  /\ app' \in {"stopping", "aborting"}
  /\ AppKeeps
  /\ UNCHANGED <<holder, appssrc, sentpackets, byepackets, byescheduled,
                 timeup, history>>

\* Where Stop goes on.
AfterStop == IF app = "stopping" THEN "goodbye" ELSE "cleanup"

Stopped ==
  /\ app \in {"stopping", "aborting"}
  /\ poll = "ended"
  /\ app' = AfterStop
  /\ AppKeeps
  /\ UNCHANGED <<holder, appssrc, stop, sentpackets, byepackets, byescheduled,
                 timeup, history>>

\* Where the next step of the poll thread calls the transmitter, which locks
\* its main mutex.
Calling == {"wait", "select", "receive", "next", "send"}

\* After five seconds Stop kills the thread, with what it holds: in a call of
\* the transmitter that may be its main mutex, too.
Kill ==
  /\ CanKill
  /\ app \in {"stopping", "aborting"}
  /\ poll # "ended"
  /\ poll' = "killed"
  /\ \/ UNCHANGED holder
     \/ poll \in Calling /\ Take("main", "poll")
  /\ stop' = FALSE
  /\ app' = AfterStop
  /\ UNCHANGED <<raw, packetbuilder, own, collisionlist, outgoing, appssrc,
                 sentpackets, byepackets, byescheduled, timeup, history>>

\* From here on the application is alone and takes no mutex but those of the
\* transmitter.
AddBYEPacket ==
  /\ app = "goodbye"
  /\ \/ /\ sentpackets
        /\ byepackets' = Append(byepackets, packetbuilder)
        /\ byes' = byes \cup {packetbuilder}
        /\ byescheduled' = (byescheduled \/ byepackets = <<>>)
     \/ /\ ~sentpackets \/ "leave" \in Fails
        /\ UNCHANGED <<byepackets, byescheduled, byes>>
  /\ app' = IF byepackets' = <<>> THEN "cleanup" ELSE "loop"
  /\ AppKeeps
  /\ UNCHANGED <<holder, appssrc, stop, sentpackets, timeup,
                 finished, settled, goodbye>>

TimeUp ==
  /\ app \in {"goodbye", "loop"}
  /\ ~timeup
  /\ timeup' = TRUE
  /\ AppKeeps
  /\ UNCHANGED <<holder, app, appssrc, stop, sentpackets, byepackets,
                 byescheduled, history>>

\* One round of the loop: a BYE packet goes out if it is time, even when the
\* stop time has come.
BYELoop ==
  /\ app = "loop"
  /\ \/ /\ appssrc' = Head(byepackets)
        /\ byepackets' = Tail(byepackets)
        /\ byescheduled' = FALSE
        /\ app' = "sendbye"
     \/ /\ app' = IF timeup THEN "cleanup" ELSE "loop"
        /\ UNCHANGED <<appssrc, byepackets, byescheduled>>
  /\ AppKeeps
  /\ UNCHANGED <<holder, stop, sentpackets, timeup, history>>

\* Mutant: a BYE packet that cannot be sent is queued again, and the loop goes
\* on until all of them were sent.
SendBYEPacketAgain ==
  /\ app = "sendbye"
  /\ Free("main")
  /\ \/ /\ goodbye' = goodbye \cup {appssrc}
        /\ UNCHANGED byepackets
     \/ /\ "leave" \in Fails
        /\ byepackets' = Append(byepackets, appssrc)
        /\ UNCHANGED goodbye
  /\ byescheduled' = (byepackets' # <<>>)
  /\ app' = IF byepackets' = <<>> THEN "cleanup" ELSE "loop"
  /\ AppKeeps
  /\ UNCHANGED <<holder, appssrc, stop, sentpackets, timeup,
                 finished, settled, byes>>

\* The packet is sent, a failure being ignored, and the next one scheduled.
SendBYEPacket ==
  /\ app = "sendbye"
  /\ Free("main")
  /\ \/ goodbye' = goodbye \cup {appssrc}
     \/ "leave" \in Fails /\ UNCHANGED goodbye
  /\ byescheduled' = (byepackets # <<>>)
  /\ app' = IF byepackets = <<>> \/ timeup THEN "cleanup" ELSE "loop"
  /\ AppKeeps
  /\ UNCHANGED <<holder, appssrc, stop, sentpackets, byepackets, timeup,
                 finished, settled, byes>>

\* The transmitter is destroyed first: that locks its main mutex and, when a
\* thread is or was in WaitForIncomingData, its wait mutex.
Cleanup ==
  /\ app = "cleanup"
  /\ Free("main")
  /\ Free("wait")
  /\ app' = "destroyed"
  /\ own' = 0
  /\ collisionlist' = {}
  /\ byepackets' = <<>>
  /\ byescheduled' = FALSE
  /\ UNCHANGED <<holder, poll, raw, packetbuilder, outgoing, appssrc, stop,
                 sentpackets, timeup, history>>

\* Steps of a call that was made, and the calls themselves.
InCall ==
  \/ SendRTPData \/ SentRTPPacket \/ SetSentPackets \/ SendAPPPacket
  \/ EndDataAccess
  \/ Stopped \/ AddBYEPacket \/ BYELoop \/ SendBYEPacket \/ Cleanup

Call == BuildPacket \/ BuildAPPPacket \/ BeginDataAccess \/ Leave

-----------------------------------------------------------------------------

\* InternalCreate: our entry exists, the poll thread is about to run.
Init ==
  /\ holder = [m \in Mutex |-> "none"]
  /\ poll = "started"
  /\ app = "idle"
  /\ stop = FALSE
  /\ raw = <<>>
  /\ packetbuilder = 1
  /\ own = 1
  /\ sentpackets = FALSE
  /\ byepackets = <<>>
  /\ byescheduled = FALSE
  /\ collisionlist = {}
  /\ outgoing = [bye |-> FALSE, ssrc |-> 1]
  /\ appssrc = 1
  /\ timeup = FALSE
  /\ finished = {}
  /\ settled = {}
  /\ byes = {}
  /\ goodbye = {}

Next == (poll \notin {"ended", "killed"} /\ PollThread)
        \/ InCall \/ Call \/ Kill \/ TimeUp

\* Both threads are scheduled, a mutex that stays free can be taken, data
\* access ends, and time passes.  The kill is not relied on.
Spec == Init /\ [][Next]_vars /\ WF_vars(PollThread) /\ WF_vars(InCall)
             /\ WF_vars(TimeUp)

-----------------------------------------------------------------------------
(* Properties *)

\* The variables have their types.
TypeOK ==
  /\ holder \in [Mutex -> Thread \cup {"none"}]
  /\ poll \in PollState
  /\ app \in AppState
  /\ {stop, sentpackets, byescheduled, timeup} \subseteq BOOLEAN
  /\ raw \in Seq([ssrc : SSRC, addr : Addr])
  /\ packetbuilder \in SSRC
  /\ own \in SSRC \cup {0}
  /\ byepackets \in Seq(SSRC)
  /\ collisionlist \subseteq Addr
  /\ outgoing \in [bye : BOOLEAN, ssrc : SSRC]
  /\ appssrc \in SSRC
  /\ \A h \in {finished, settled, byes, goodbye} : h \subseteq SSRC

\* The mutexes a thread may be waiting for where it is.
Wants(t) ==
  IF t = "app"
  THEN CASE app = "mark" -> {"sources"}
         [] app \in {"send", "sendapp", "sendbye"} -> {"main"}
         [] app = "cleanup" -> {"main", "wait"}
         [] OTHER -> {}
  ELSE CASE poll = "delay" -> {"sources"}
         [] poll \in {"top", "schedule", "istime", "reschedule", "analyse"} ->
              {"sched"}
         [] poll = "next" -> {"sched", "main"}
         [] poll = "wait" -> {"wait", "main"}
         [] poll \in {"select", "receive", "send"} -> {"main"}
         [] poll = "lock" -> {"sources"}
         [] poll \in {"bye", "newssrc"} -> {"builder"}
         [] poll = "build" -> IF byepackets = <<>> THEN {"builder"} ELSE {}
         [] OTHER -> {}

WaitsFor(t, u) == \E m \in Wants(t) : holder[m] = u

\* No deadlock: although the poll thread takes the source table's mutex before
\* and after the scheduler's, no thread waits for itself or for one that waits
\* for it.  (Waiting for what a killed thread has left locked is no circle; see
\* LeaveReturns.)
NoCircularWait ==
  /\ \A t \in Thread : ~WaitsFor(t, t)
  /\ ~(WaitsFor("poll", "app") /\ WaitsFor("app", "poll"))

\* Whoever can lock the source table finds the SSRC of the packet builder in
\* it, in the middle of collisions too: the data we send and the entry our
\* reports are made from carry the same identifier.
SSRCsAgree ==
  Free("sources") /\ app # "destroyed" => packetbuilder = own

\* Once the BYE packet of an SSRC was sent, no data is sent under it: a
\* collision and a SendPacket that overlap cannot be reordered that far.
NoDataAfterBye == app = "send" => appssrc \notin goodbye

\* An SSRC under which SendPacket returned before the poll thread took the
\* source table is only given up with a BYE packet, also when one is queued.
GoodbyePromised == settled \subseteq {packetbuilder} \cup byes

\* BYE packets that are queued are scheduled, so that they are sent with the
\* back-off of BYE packets, one interval after the other.
ByesScheduled ==
  Free("sources") /\ poll \notin {"ended", "killed"} /\ byepackets # <<>>
    => byescheduled

\* The poll thread always lets go of the source table, so that the
\* application's calls are not locked out, unless it is killed.
SourcesReleased ==
  (holder["sources"] = "poll")
    ~> (holder["sources"] # "poll" \/ poll = "killed")

\* The poll thread was killed in a call of the transmitter and keeps one of
\* its mutexes.
KilledInside == poll = "killed" /\ "poll" \in {holder["main"], holder["wait"]}

\* BYEDestroy and Destroy return whether the poll thread ends by itself or is
\* killed with mutexes of the session, and whether or not the BYE packets can be
\* sent in time.  Only when it was killed in a call of the transmitter, its
\* select above all, they wait for ever for what it holds: the five seconds of
\* Stop do not help there.
LeaveReturns ==
  (app \in {"stopping", "aborting"}) ~> (app = "destroyed" \/ KilledInside)

=============================================================================
