-------------------------- MODULE RTPSessionProofs --------------------------
(***************************************************************************)
(* Proofs about RTPSession: who holds which mutex where, and what follows   *)
(* from it for deadlock and for the identifier of the session.              *)
(***************************************************************************)
EXTENDS RTPSession, TLAPS

\* Where the poll thread has the source table locked.
Locked ==
  {"next", "collided", "bye", "schedule", "newssrc", "clear", "replace",
   "istime", "build", "send", "sent", "reschedule", "analyse"}

\* The mutexes follow the positions of the two threads, except that a thread
\* that was killed keeps what it held.
LockInv ==
  /\ holder \in [Mutex -> {"none", "poll", "app"}]
  /\ poll \in Locked => holder["sources"] = "poll"
  /\ holder["sources"] = "poll" => poll \in Locked \cup {"killed"}
  /\ holder["sources"] = "app" <=> app = "access"
  /\ holder["sched"] = "poll" => poll \in {"delay", "killed"}
  /\ poll = "delay" => holder["sched"] = "poll"
  /\ holder["sched"] # "app"
  /\ holder["builder"] # "poll"
  /\ holder["builder"] = "app" <=> app = "send"
  /\ holder["main"] = "poll" => poll = "killed"
  /\ holder["main"] # "app"
  /\ poll = "select" => holder["wait"] = "poll"
  /\ holder["wait"] = "poll" => poll \in {"select", "killed"}
  /\ holder["wait"] # "app"

\* Only in the middle of a collision do builder and source table disagree.
AgreeInv ==
  packetbuilder # own /\ app # "destroyed" =>
    /\ poll \in {"clear", "replace", "killed"}
    /\ holder["sources"] = "poll"

\* The application leaves the session only after the poll thread has ended.
LeaveInv ==
  app \in {"goodbye", "loop", "sendbye", "cleanup", "destroyed"} =>
    poll \in {"ended", "killed"}

Inv == LockInv /\ AgreeInv /\ LeaveInv

-----------------------------------------------------------------------------

LEMMA MutexNames ==
  /\ "sources" \in Mutex
  /\ "sched" \in Mutex
  /\ "builder" \in Mutex
  /\ "main" \in Mutex
  /\ "wait" \in Mutex
  BY DEF Mutex

\* Steps of the poll thread.
LEMMA PollKeepsInv ==
  ASSUME Inv, PollThread, poll \notin {"ended", "killed"}
  PROVE  Inv'
<1> USE MutexNames DEF Inv, LockInv, AgreeInv, LeaveInv, Locked, PollKeeps,
                       Free, Take, Release, EndPoll
<1>1. CASE Started
  BY <1>1 DEF Started
<1>2. CASE LockScheduler
  BY <1>2 DEF LockScheduler
<1>3. CASE GetTransmissionDelay
  BY <1>3 DEF GetTransmissionDelay
<1>4. CASE Receive
  BY <1>4 DEF Receive
<1>21. CASE WaitForIncomingData
  BY <1>21 DEF WaitForIncomingData
<1>22. CASE Selected
  BY <1>22 DEF Selected
<1>5. CASE LockSources
  BY <1>5 DEF LockSources
<1>6. CASE ProcessRawPacket
  BY <1>6 DEF ProcessRawPacket
<1>7. CASE Collided
  BY <1>7 DEF Collided
<1>8. CASE BuildBYEPacket
  BY <1>8 DEF BuildBYEPacket
<1>9. CASE ScheduleBYEPacket
  BY <1>9 DEF ScheduleBYEPacket
<1>10. CASE CreateNewSSRC
  BY <1>10 DEF CreateNewSSRC
<1>11. CASE ClearSentPackets
  BY <1>11 DEF ClearSentPackets
<1>12. CASE ReplaceOwnSSRC
  BY <1>12 DEF ReplaceOwnSSRC
<1>13. CASE Timeout
  BY <1>13 DEF Timeout
<1>14. CASE IsTime
  BY <1>14 DEF IsTime
<1>15. CASE BuildRTCP
  BY <1>15 DEF BuildRTCP
<1>16. CASE SendRTCPData
  BY <1>16 DEF SendRTCPData
<1>17. CASE Sent
  BY <1>17 DEF Sent
<1>18. CASE Reschedule
  BY <1>18 DEF Reschedule
<1>19. CASE AnalyseOutgoing
  BY <1>19 DEF AnalyseOutgoing
<1>20. CASE Step
  BY <1>20 DEF Step
<1> QED
  BY <1>1, <1>2, <1>3, <1>4, <1>5, <1>6, <1>7, <1>8, <1>9, <1>10, <1>11,
     <1>12, <1>13, <1>14, <1>15, <1>16, <1>17, <1>18, <1>19, <1>20,
     <1>21, <1>22
     DEF PollThread

\* Steps of the application, and the passing of time.
LEMMA AppKeepsInv ==
  ASSUME Inv, InCall \/ Call \/ Kill \/ TimeUp
  PROVE  Inv'
<1> USE MutexNames DEF Inv, LockInv, AgreeInv, LeaveInv, Locked, AppKeeps,
                       Free, Take, Release
<1>1. CASE SendRTPData
  BY <1>1 DEF SendRTPData
<1>2. CASE SentRTPPacket
  BY <1>2 DEF SentRTPPacket
<1>3. CASE SetSentPackets
  BY <1>3 DEF SetSentPackets
<1>4. CASE SendAPPPacket
  BY <1>4 DEF SendAPPPacket
<1>5. CASE EndDataAccess
  BY <1>5 DEF EndDataAccess
<1>6. CASE Stopped
  BY <1>6 DEF Stopped, AfterStop
<1>7. CASE AddBYEPacket
  BY <1>7 DEF AddBYEPacket
<1>8. CASE BYELoop
  BY <1>8 DEF BYELoop
<1>15. CASE SendBYEPacket
  BY <1>15 DEF SendBYEPacket
<1>16. CASE Kill
  BY <1>16 DEF Kill, AfterStop, Calling
<1>9. CASE Cleanup
  BY <1>9 DEF Cleanup
<1>10. CASE BuildPacket
  BY <1>10 DEF BuildPacket
<1>11. CASE BuildAPPPacket
  BY <1>11 DEF BuildAPPPacket
<1>12. CASE BeginDataAccess
  BY <1>12 DEF BeginDataAccess
<1>13. CASE Leave
  BY <1>13 DEF Leave
<1>14. CASE TimeUp
  BY <1>14 DEF TimeUp
<1> QED
  BY <1>1, <1>2, <1>3, <1>4, <1>5, <1>6, <1>7, <1>8, <1>9, <1>10, <1>11, <1>12,
     <1>13, <1>14, <1>15, <1>16
     DEF InCall, Call

\* The mutexes and the identifier are in order in every reachable state.
THEOREM Invariant == Spec => []Inv
<1>1. Init => Inv
  BY MutexNames DEF Init, Inv, LockInv, AgreeInv, LeaveInv, Locked
<1>2. Inv /\ [Next]_vars => Inv'
  <2> SUFFICES ASSUME Inv, [Next]_vars PROVE Inv'
    OBVIOUS
  <2>1. CASE poll \notin {"ended", "killed"} /\ PollThread
    BY <2>1, PollKeepsInv
  <2>2. CASE InCall \/ Call \/ Kill \/ TimeUp
    BY <2>2, AppKeepsInv
  <2>3. CASE UNCHANGED vars
    BY <2>3 DEF vars, Inv, LockInv, AgreeInv, LeaveInv
  <2> QED
    BY <2>1, <2>2, <2>3 DEF Next
<1> QED
  BY <1>1, <1>2, PTL DEF Spec

\* The poll thread and the application never wait for each other or for
\* themselves (the mutexes of RTPSession and RTPPollThread).
THEOREM DeadlockFree == Spec => []NoCircularWait
<1>1. Inv => NoCircularWait
  <2> SUFFICES ASSUME Inv PROVE NoCircularWait
    OBVIOUS
  <2> USE MutexNames DEF Inv, LockInv, Locked
  <2>1. WaitsFor("app", "app") => FALSE
    BY DEF WaitsFor, Wants
  <2>2. WaitsFor("poll", "poll") => FALSE
    BY DEF WaitsFor, Wants
  <2>3. WaitsFor("app", "poll") => app = "mark" \/ poll = "killed"
    <3>1. Wants("app") \subseteq
            IF app = "mark" THEN {"sources"}
            ELSE IF app = "cleanup" THEN {"main", "wait"}
            ELSE IF app \in {"send", "sendapp", "sendbye"} THEN {"main"} ELSE {}
      BY DEF Wants
    <3>2. CASE app = "cleanup"
      BY <3>1, <3>2 DEF WaitsFor, LeaveInv
    <3>3. CASE app # "cleanup"
      BY <3>1, <3>3 DEF WaitsFor
    <3> QED
      BY <3>2, <3>3
  <2>4. WaitsFor("poll", "app") => app \in {"access", "send"} /\ poll # "killed"
    BY DEF WaitsFor, Wants, Mutex
  <2> QED
    BY <2>1, <2>2, <2>3, <2>4 DEF NoCircularWait, Thread
<1> QED
  BY <1>1, Invariant, PTL

\* Whoever can lock the source table finds the packet builder's SSRC in it.
THEOREM IdentifierSafe == Spec => []SSRCsAgree
<1>1. Inv => SSRCsAgree
  BY DEF Inv, AgreeInv, SSRCsAgree, Free
<1> QED
  BY <1>1, Invariant, PTL

-----------------------------------------------------------------------------
(* BYE packets *)

\* The application has begun to leave and is alone.
Leaving == {"goodbye", "loop", "sendbye", "cleanup", "destroyed"}

\* Where the BYE packet of an SSRC that is still the packet builder's may be in
\* the queue.
Renaming == {"schedule", "newssrc"}

\* Identifiers are drawn in order.
OrderInv ==
  /\ packetbuilder \in Nat
  /\ byepackets \in Seq(Nat)
  /\ goodbye \subseteq Nat
  /\ appssrc \in Nat
  /\ outgoing \in [bye : BOOLEAN, ssrc : Nat]
  /\ poll = "killed" => app \in Leaving
  /\ app = "loop" => byepackets # <<>>

\* Those in the queue, on the wire and said good-bye to are given up: only a
\* BYE packet that was just built is for the current one.  Whoever sends data
\* holds the builder, so that its SSRC stays the current one.
ByeInv ==
  /\ OrderInv
  /\ app = "send" => appssrc = packetbuilder
  /\ \A i \in 1..Len(byepackets) :
       /\ byepackets[i] <= packetbuilder
       /\ poll \notin Renaming /\ app \notin Leaving =>
            byepackets[i] < packetbuilder
  /\ poll = "send" /\ outgoing.bye = TRUE => outgoing.ssrc < packetbuilder
  /\ app \notin Leaving => \A s \in goodbye : s < packetbuilder

\* A packet that is complete under the current SSRC is marked in sentpackets.
\* None is complete from CreateNewSSRC to ReplaceOwnSSRC, since SentRTPPacket
\* waits for the source table.
FinishedInv ==
  /\ appssrc <= packetbuilder
  /\ settled \subseteq finished
  /\ \A s \in finished : s \in Nat /\ s <= packetbuilder
  /\ packetbuilder \in finished => sentpackets = TRUE
  /\ poll \in {"clear", "replace"} =>
       /\ packetbuilder \notin finished
       /\ app = "flag" => appssrc # packetbuilder
  /\ poll \in Renaming /\ packetbuilder \in settled => packetbuilder \in byes
  /\ GoodbyePromised

\* Between IsTime and the end of the sending the first BYE packet is taken out
\* of the queue, and the next one is scheduled afterwards.
ScheduleInv ==
  poll \notin {"ended", "killed"} /\ byepackets # <<>> =>
    /\ poll \in {"send", "sent"} => outgoing.bye = TRUE
    /\ poll \notin {"schedule", "build", "send", "sent", "reschedule"} =>
         byescheduled = TRUE

\* A step that concerns no SSRC.
LEMMA ByeFrame ==
  ASSUME ByeInv,
         UNCHANGED <<packetbuilder, byepackets, goodbye, outgoing>>,
         appssrc' = appssrc \/ appssrc' = packetbuilder,
         poll' = "killed" => poll = "killed" \/ app' \in Leaving,
         app' = "loop" => app = "loop" \/ byepackets' # <<>>,
         poll' = "send" => poll = "send",
         poll \in Renaming => poll' \in Renaming \/ app' \in Leaving,
         app' = "send" => \/ app = "send" /\ appssrc' = appssrc
                          \/ appssrc' = packetbuilder,
         app \in Leaving => app' \in Leaving
  PROVE  ByeInv'
<1>1. OrderInv'
  BY DEF ByeInv, OrderInv
<1>2. app' = "send" => appssrc' = packetbuilder'
  BY DEF ByeInv
<1>3. \A i \in 1..Len(byepackets') :
        /\ byepackets'[i] <= packetbuilder'
        /\ poll' \notin Renaming /\ app' \notin Leaving =>
             byepackets'[i] < packetbuilder'
  BY DEF ByeInv
<1>4. poll' = "send" /\ outgoing'.bye = TRUE => outgoing'.ssrc < packetbuilder'
  BY DEF ByeInv
<1>5. app' \notin Leaving => \A s \in goodbye' : s < packetbuilder'
  BY DEF ByeInv
<1> QED
  BY <1>1, <1>2, <1>3, <1>4, <1>5 DEF ByeInv

\* A BYE packet for the current SSRC is queued.
LEMMA ByeQueued ==
  ASSUME ByeInv, byepackets' = Append(byepackets, packetbuilder),
         UNCHANGED <<packetbuilder, goodbye, outgoing, appssrc>>,
         \/ poll' \in Renaming /\ app' = app
         \/ poll' = poll /\ app' \in Leaving /\ app \in Leaving
  PROVE  ByeInv'
<1>1. /\ packetbuilder \in Nat /\ byepackets \in Seq(Nat)
      /\ byepackets' \in Seq(Nat)
      /\ Len(byepackets') = Len(byepackets) + 1
      /\ \A i \in 1..Len(byepackets) : byepackets'[i] = byepackets[i]
      /\ byepackets'[Len(byepackets) + 1] = packetbuilder
  BY DEF ByeInv, OrderInv
<1>2. poll' # "killed" \/ app' \in Leaving
  BY DEF Renaming
<1>3. OrderInv'
  <2>1. byepackets' # <<>>
    BY <1>1
  <2> QED
    BY <1>1, <1>2, <2>1 DEF ByeInv, OrderInv
<1>4. app' = "send" => appssrc' = packetbuilder'
  BY DEF ByeInv, Leaving
<1>5. \A i \in 1..Len(byepackets') :
        /\ byepackets'[i] <= packetbuilder'
        /\ poll' \notin Renaming /\ app' \notin Leaving =>
             byepackets'[i] < packetbuilder'
  <2> SUFFICES ASSUME NEW i \in 1..Len(byepackets')
               PROVE  byepackets'[i] <= packetbuilder'
    OBVIOUS
  <2>1. CASE i = Len(byepackets) + 1
    BY <1>1, <2>1
  <2>2. CASE i # Len(byepackets) + 1
    <3>1. i \in 1..Len(byepackets)
      BY <1>1, <2>2
    <3> QED
      BY <1>1, <3>1 DEF ByeInv
  <2> QED
    BY <2>1, <2>2
<1>6. poll' = "send" /\ outgoing'.bye = TRUE => outgoing'.ssrc < packetbuilder'
  BY DEF ByeInv, Renaming
<1>7. app' \notin Leaving => \A s \in goodbye' : s < packetbuilder'
  BY DEF ByeInv
<1> QED
  BY <1>3, <1>4, <1>5, <1>6, <1>7 DEF ByeInv

\* The first one is taken out of the queue.
LEMMA ByeTaken ==
  ASSUME ByeInv, byepackets # <<>>
  PROVE  /\ Head(byepackets) \in Nat
         /\ Head(byepackets) <= packetbuilder
         /\ poll \notin Renaming /\ app \notin Leaving =>
              Head(byepackets) < packetbuilder
         /\ Tail(byepackets) \in Seq(Nat)
         /\ Len(Tail(byepackets)) + 1 = Len(byepackets)
         /\ \A i \in 1..Len(Tail(byepackets)) :
              Tail(byepackets)[i] = byepackets[i + 1] /\ i + 1 \in 1..Len(byepackets)
<1>1. byepackets \in Seq(Nat)
  BY DEF ByeInv, OrderInv
<1>2. /\ Len(byepackets) \in Nat \ {0}
      /\ Head(byepackets) = byepackets[1]
  BY <1>1
<1> QED
  BY <1>1, <1>2 DEF ByeInv

LEMMA PollKeepsBye ==
  ASSUME Inv, ByeInv, PollThread, poll \notin {"ended", "killed"}
  PROVE  ByeInv'
<1> USE DEF PollKeeps, EndPoll, history, Renaming
<1>0. app \notin Leaving /\ app # "loop"
  BY DEF Inv, LeaveInv, Leaving
<1>1. CASE BuildBYEPacket
  <2>1. CASE byepackets' = Append(byepackets, packetbuilder)
    BY <1>1, <2>1, ByeQueued DEF BuildBYEPacket
  <2>2. CASE UNCHANGED byepackets
    BY <1>1, <2>2, ByeFrame DEF BuildBYEPacket
  <2> QED
    BY <1>1, <2>1, <2>2 DEF BuildBYEPacket
<1>2. CASE CreateNewSSRC
  <2>1. /\ packetbuilder' = packetbuilder + 1
        /\ poll = "newssrc" /\ poll' = "clear"
        /\ holder["builder"] = "none"
        /\ UNCHANGED <<byepackets, goodbye, outgoing, app, appssrc>>
    BY <1>2 DEF CreateNewSSRC, Free
  <2>2. packetbuilder \in Nat /\ byepackets \in Seq(Nat) /\ goodbye \subseteq Nat
    BY DEF ByeInv, OrderInv
  <2>3. OrderInv'
    BY <2>1 DEF ByeInv, OrderInv
  <2>4. app # "send"
    BY <2>1 DEF Inv, LockInv
  <2>5. \A i \in 1..Len(byepackets) : byepackets[i] < packetbuilder + 1
    BY <2>2 DEF ByeInv
  <2>6. app \notin Leaving => \A s \in goodbye : s < packetbuilder + 1
    BY <2>2 DEF ByeInv
  <2> QED
    BY <2>1, <2>2, <2>3, <2>4, <2>5, <2>6 DEF ByeInv
<1>3. CASE BuildRTCP
  <2>1. CASE byepackets # <<>> /\ poll' = "send"
    <3>1. /\ outgoing' = [bye |-> TRUE, ssrc |-> Head(byepackets)]
          /\ byepackets' = Tail(byepackets)
          /\ poll = "build"
          /\ UNCHANGED <<packetbuilder, goodbye, app, appssrc>>
      BY <1>3, <2>1 DEF BuildRTCP
    <3>2. app \notin Leaving
      BY <1>0
    <3>3. OrderInv'
      BY <1>0, <2>1, <3>1, ByeTaken DEF ByeInv, OrderInv
    <3>4. \A i \in 1..Len(byepackets') : byepackets'[i] < packetbuilder
      BY <2>1, <3>1, <3>2, ByeTaken DEF ByeInv
    <3>5. outgoing'.ssrc < packetbuilder
      BY <2>1, <3>1, <3>2, ByeTaken
    <3>6. packetbuilder \in Nat /\ byepackets' \in Seq(Nat)
      BY <3>1, <3>3 DEF OrderInv
    <3>7. \A i \in 1..Len(byepackets') : byepackets'[i] <= packetbuilder
      BY <3>4, <3>6
    <3> QED
      BY <3>1, <3>3, <3>4, <3>5, <3>7 DEF ByeInv
  <2>2. CASE byepackets = <<>> /\ poll' = "send"
    <3>1. /\ outgoing' = [bye |-> FALSE, ssrc |-> packetbuilder]
          /\ poll = "build"
          /\ UNCHANGED <<byepackets, packetbuilder, goodbye, app, appssrc>>
      BY <1>3, <2>2 DEF BuildRTCP
    <3>2. OrderInv'
      BY <2>2, <3>1 DEF ByeInv, OrderInv
    <3> QED
      BY <2>2, <3>1, <3>2 DEF ByeInv
  <2>3. CASE poll' = "ended"
    BY <1>3, <2>3, ByeFrame DEF BuildRTCP
  <2> QED
    BY <1>3, <2>1, <2>2, <2>3 DEF BuildRTCP
<1>4. CASE SendRTCPData
  <2>1. CASE goodbye' = goodbye
    BY <1>4, <2>1, ByeFrame DEF SendRTCPData
  <2>2. CASE goodbye' = goodbye \cup {outgoing.ssrc} /\ outgoing.bye
    <3>1. /\ poll = "send" /\ poll' \in {"sent", "ended"}
          /\ UNCHANGED <<byepackets, packetbuilder, outgoing, app, appssrc>>
      BY <1>4 DEF SendRTCPData
    <3>2. outgoing.ssrc \in Nat /\ outgoing.ssrc < packetbuilder
      BY <2>2, <3>1 DEF ByeInv, OrderInv
    <3>3. OrderInv'
      BY <2>2, <3>1, <3>2 DEF ByeInv, OrderInv
    <3>4. app' \notin Leaving => \A s \in goodbye' : s < packetbuilder'
      BY <2>2, <3>1, <3>2 DEF ByeInv
    <3>5. \A i \in 1..Len(byepackets') :
            /\ byepackets'[i] <= packetbuilder'
            /\ app' \notin Leaving => byepackets'[i] < packetbuilder'
      BY <3>1 DEF ByeInv
    <3> QED
      BY <3>1, <3>3, <3>4, <3>5 DEF ByeInv
  <2> QED
    BY <1>4, <2>1, <2>2 DEF SendRTCPData
<1>5. CASE \/ Started \/ LockScheduler \/ GetTransmissionDelay
           \/ WaitForIncomingData \/ Selected \/ Receive
  BY <1>5, ByeFrame
     DEF Started, LockScheduler, GetTransmissionDelay, WaitForIncomingData,
         Selected, Receive
<1>6. CASE LockSources \/ ProcessRawPacket \/ Collided
  BY <1>6, ByeFrame DEF LockSources, ProcessRawPacket, Collided
<1>7. CASE ScheduleBYEPacket \/ ClearSentPackets \/ ReplaceOwnSSRC
  BY <1>7, ByeFrame DEF ScheduleBYEPacket, ClearSentPackets, ReplaceOwnSSRC
<1>8. CASE Timeout \/ IsTime \/ Sent \/ Reschedule \/ AnalyseOutgoing \/ Step
  BY <1>8, ByeFrame DEF Timeout, IsTime, Sent, Reschedule, AnalyseOutgoing, Step
<1> QED
  BY <1>1, <1>2, <1>3, <1>4, <1>5, <1>6, <1>7, <1>8 DEF PollThread

LEMMA AppKeepsBye ==
  ASSUME Inv, ByeInv, InCall \/ Call \/ Kill \/ TimeUp
  PROVE  ByeInv'
<1> USE DEF AppKeeps, history, Leaving
<1>1. CASE AddBYEPacket
  <2>1. CASE byepackets' = Append(byepackets, packetbuilder)
    BY <1>1, <2>1, ByeQueued DEF AddBYEPacket
  <2>2. CASE UNCHANGED byepackets
    BY <1>1, <2>2, ByeFrame DEF AddBYEPacket
  <2> QED
    BY <1>1, <2>1, <2>2 DEF AddBYEPacket
<1>2. CASE BYELoop
  <2>1. CASE UNCHANGED <<appssrc, byepackets>>
    BY <1>2, <2>1, ByeFrame DEF BYELoop
  <2>2. CASE appssrc' = Head(byepackets) /\ byepackets' = Tail(byepackets)
                                         /\ app' = "sendbye"
    <3>1. /\ app = "loop" /\ app \in Leaving /\ byepackets # <<>>
          /\ UNCHANGED <<poll, packetbuilder, outgoing, goodbye>>
      BY <1>2 DEF BYELoop, ByeInv, OrderInv
    <3>2. OrderInv'
      BY <2>2, <3>1, ByeTaken DEF ByeInv, OrderInv
    <3>3. \A i \in 1..Len(byepackets') : byepackets'[i] <= packetbuilder'
      BY <2>2, <3>1, ByeTaken DEF ByeInv
    <3> QED
      BY <2>2, <3>1, <3>2, <3>3 DEF ByeInv
  <2> QED
    BY <1>2, <2>1, <2>2 DEF BYELoop
<1>7. CASE SendBYEPacket
  <2>1. CASE UNCHANGED goodbye
    BY <1>7, <2>1, ByeFrame DEF SendBYEPacket
  <2>2. CASE goodbye' = goodbye \cup {appssrc}
    <3>1. /\ app = "sendbye" /\ app' \in {"cleanup", "loop"}
          /\ app' = "loop" => byepackets # <<>>
          /\ UNCHANGED <<poll, packetbuilder, byepackets, outgoing, appssrc>>
      BY <1>7 DEF SendBYEPacket
    <3>2. OrderInv'
      BY <2>2, <3>1 DEF ByeInv, OrderInv
    <3> QED
      BY <3>1, <3>2 DEF ByeInv
  <2> QED
    BY <1>7, <2>1, <2>2 DEF SendBYEPacket
<1>8. CASE Kill
  BY <1>8, ByeFrame DEF Kill, AfterStop
<1>3. CASE Cleanup
  <2>1. /\ app' = "destroyed" /\ app = "cleanup" /\ byepackets' = <<>>
        /\ UNCHANGED <<poll, packetbuilder, outgoing, appssrc, goodbye>>
    BY <1>3 DEF Cleanup
  <2>2. OrderInv'
    BY <2>1 DEF ByeInv, OrderInv
  <2> QED
    BY <2>1, <2>2 DEF ByeInv
<1>4. CASE BuildPacket \/ BuildAPPPacket \/ BeginDataAccess \/ Leave \/ TimeUp
  BY <1>4, ByeFrame DEF BuildPacket, BuildAPPPacket, BeginDataAccess, Leave, TimeUp
<1>5. CASE SendRTPData \/ SentRTPPacket \/ SetSentPackets \/ SendAPPPacket
  BY <1>5, ByeFrame DEF SendRTPData, SentRTPPacket, SetSentPackets, SendAPPPacket
<1>6. CASE EndDataAccess \/ Stopped
  BY <1>6, ByeFrame DEF EndDataAccess, Stopped, AfterStop
<1> QED
  BY <1>1, <1>2, <1>3, <1>4, <1>5, <1>6, <1>7, <1>8 DEF InCall, Call

-----------------------------------------------------------------------------
(* Packets that are complete *)

\* A step that completes none, and gives up no SSRC.
LEMMA FinishedFrame ==
  ASSUME ByeInv, FinishedInv,
         UNCHANGED <<packetbuilder, finished, settled>>,
         appssrc' = appssrc \/ appssrc' <= packetbuilder,
         sentpackets' = sentpackets \/ sentpackets' = TRUE,
         byes \subseteq byes',
         \/ poll' = poll
         \/ poll' \notin {"clear", "replace", "schedule", "newssrc"}
         \/ poll = "schedule" /\ poll' = "newssrc"
         \/ poll = "clear" /\ poll' = "replace",
         \/ app' # "flag"
         \/ app' = app /\ appssrc' = appssrc
         \/ poll' \notin {"clear", "replace"}
  PROVE  FinishedInv'
<1>1. appssrc' <= packetbuilder'
  BY DEF FinishedInv, ByeInv, OrderInv
<1>2. settled' \subseteq finished' /\ \A s \in finished' : s \in Nat /\ s <= packetbuilder'
  BY DEF FinishedInv
<1>3. packetbuilder' \in finished' => sentpackets' = TRUE
  BY DEF FinishedInv
<1>4. poll' \in {"clear", "replace"} =>
        /\ packetbuilder' \notin finished'
        /\ app' = "flag" => appssrc' # packetbuilder'
  BY DEF FinishedInv
<1>5. poll' \in Renaming /\ packetbuilder' \in settled' => packetbuilder' \in byes'
  BY DEF FinishedInv, Renaming
<1>6. GoodbyePromised'
  BY DEF FinishedInv, GoodbyePromised
<1> QED
  BY <1>1, <1>2, <1>3, <1>4, <1>5, <1>6 DEF FinishedInv

LEMMA PollKeepsFinished ==
  ASSUME Inv, ByeInv, FinishedInv, PollThread, poll \notin {"ended", "killed"}
  PROVE  FinishedInv'
<1> USE DEF PollKeeps, EndPoll, history
<1>1. CASE LockSources
  <2>1. /\ settled' = settled \cup (finished \cap {packetbuilder})
        /\ poll' = "next"
        /\ UNCHANGED <<packetbuilder, finished, byes, sentpackets, appssrc, app>>
    BY <1>1 DEF LockSources
  <2> QED
    BY <2>1 DEF FinishedInv, GoodbyePromised, Renaming
<1>2. CASE Collided
  <2>1. /\ poll' = IF sentpackets THEN "bye" ELSE "newssrc"
        /\ UNCHANGED <<packetbuilder, finished, settled, byes, sentpackets, appssrc, app>>
    BY <1>2 DEF Collided
  <2>2. poll' = "newssrc" => packetbuilder \notin settled
    BY <2>1 DEF FinishedInv
  <2> QED
    BY <2>1, <2>2 DEF FinishedInv, GoodbyePromised, Renaming
<1>3. CASE BuildBYEPacket
  <2>1. CASE byes' = byes \cup {packetbuilder}
    <3>1. /\ poll' \in {"schedule", "newssrc", "ended"}
          /\ UNCHANGED <<packetbuilder, finished, settled, sentpackets, appssrc, app>>
      BY <1>3 DEF BuildBYEPacket
    <3> QED
      BY <3>1, <2>1 DEF FinishedInv, GoodbyePromised, Renaming
  <2>2. CASE poll' = "ended"
    BY <1>3, <2>2, FinishedFrame DEF BuildBYEPacket
  <2> QED
    BY <1>3, <2>1, <2>2 DEF BuildBYEPacket
<1>4. CASE CreateNewSSRC
  <2>1. /\ packetbuilder' = packetbuilder + 1 /\ packetbuilder \in Nat
        /\ appssrc \in Nat
        /\ poll = "newssrc" /\ poll' = "clear"
        /\ UNCHANGED <<finished, settled, byes, sentpackets, appssrc, app>>
    BY <1>4 DEF CreateNewSSRC, ByeInv, OrderInv
  <2>2. packetbuilder' \notin finished /\ appssrc # packetbuilder'
    BY <2>1 DEF FinishedInv
  <2>3. \A s \in finished : s \in Nat /\ s <= packetbuilder'
    BY <2>1 DEF FinishedInv
  <2>4. settled \subseteq byes
    BY <2>1 DEF FinishedInv, GoodbyePromised, Renaming
  <2>5. appssrc <= packetbuilder'
    BY <2>1 DEF FinishedInv
  <2> QED
    BY <2>1, <2>2, <2>3, <2>4, <2>5 DEF FinishedInv, GoodbyePromised, Renaming
<1>5. CASE ClearSentPackets
  <2>1. /\ poll = "clear" /\ poll' = "replace"
        /\ UNCHANGED <<packetbuilder, finished, settled, byes, appssrc, app>>
    BY <1>5 DEF ClearSentPackets
  <2> QED
    BY <2>1 DEF FinishedInv, GoodbyePromised, Renaming
<1>6. CASE \/ Started \/ LockScheduler \/ GetTransmissionDelay
           \/ WaitForIncomingData \/ Selected \/ Receive
  BY <1>6, FinishedFrame
     DEF Started, LockScheduler, GetTransmissionDelay, WaitForIncomingData,
         Selected, Receive
<1>7. CASE ProcessRawPacket \/ ScheduleBYEPacket \/ ReplaceOwnSSRC
  BY <1>7, FinishedFrame DEF ProcessRawPacket, ScheduleBYEPacket, ReplaceOwnSSRC
<1>8. CASE BuildRTCP \/ SendRTCPData
  BY <1>8, FinishedFrame DEF BuildRTCP, SendRTCPData
<1>9. CASE Timeout \/ IsTime \/ Sent \/ Reschedule \/ AnalyseOutgoing \/ Step
  BY <1>9, FinishedFrame DEF Timeout, IsTime, Sent, Reschedule, AnalyseOutgoing, Step
<1> QED
  BY <1>1, <1>2, <1>3, <1>4, <1>5, <1>6, <1>7, <1>8, <1>9 DEF PollThread

LEMMA AppKeepsFinished ==
  ASSUME Inv, ByeInv, FinishedInv, InCall \/ Call \/ Kill \/ TimeUp
  PROVE  FinishedInv'
<1> USE DEF AppKeeps, history
<1>1. CASE SetSentPackets
  <2>1. /\ sentpackets' = TRUE
        /\ finished' = IF app = "flag" /\ appssrc = packetbuilder
                       THEN finished \cup {appssrc} ELSE finished
        /\ app' = "idle"
        /\ UNCHANGED <<poll, packetbuilder, settled, byes, appssrc>>
    BY <1>1 DEF SetSentPackets
  <2>2. packetbuilder \in Nat /\ appssrc \in Nat
    BY DEF ByeInv, OrderInv
  <2> QED
    BY <2>1, <2>2 DEF FinishedInv, GoodbyePromised, Renaming
<1>2. CASE SentRTPPacket
  <2>1. poll \notin {"clear", "replace"}
    BY <1>2 DEF SentRTPPacket, Free, Inv, LockInv, Locked
  <2> QED
    BY <1>2, <2>1, FinishedFrame DEF SentRTPPacket
<1>3. CASE Stopped \/ Kill \/ AddBYEPacket \/ SendBYEPacket \/ Cleanup
  BY <1>3, FinishedFrame
     DEF Stopped, Kill, AfterStop, AddBYEPacket, SendBYEPacket, Cleanup
<1>6. CASE BYELoop
  <2>1. app = "loop" => byepackets # <<>>
    BY DEF ByeInv, OrderInv
  <2> QED
    BY <1>6, <2>1, ByeTaken, FinishedFrame DEF BYELoop
<1>4. CASE BuildPacket \/ BuildAPPPacket \/ BeginDataAccess \/ Leave \/ TimeUp
  <2>1. packetbuilder <= packetbuilder
    BY DEF ByeInv, OrderInv
  <2> QED
    BY <1>4, <2>1, FinishedFrame
       DEF BuildPacket, BuildAPPPacket, BeginDataAccess, Leave, TimeUp
<1>5. CASE SendRTPData \/ SendAPPPacket \/ EndDataAccess
  BY <1>5, FinishedFrame DEF SendRTPData, SendAPPPacket, EndDataAccess
<1> QED
  BY <1>1, <1>2, <1>3, <1>4, <1>5, <1>6 DEF InCall, Call

-----------------------------------------------------------------------------
(* The schedule *)

\* A step that does not touch the queue, nor the schedule of what is in it.
LEMMA ScheduleFrame ==
  ASSUME ScheduleInv, UNCHANGED <<byepackets, byescheduled, outgoing>>,
         \/ poll' = poll
         \/ poll' \in {"ended", "killed"}
         \/ /\ poll \notin {"schedule", "build", "send", "sent", "reschedule",
                            "ended", "killed"}
            /\ poll' \notin {"send", "sent"}
  PROVE  ScheduleInv'
  BY DEF ScheduleInv

LEMMA PollKeepsSchedule ==
  ASSUME ByeInv, ScheduleInv, PollThread, poll \notin {"ended", "killed"}
  PROVE  ScheduleInv'
<1> USE DEF PollKeeps, EndPoll, history
<1>1. CASE BuildBYEPacket
  <2>1. CASE poll' = "ended"
    BY <2>1 DEF ScheduleInv
  <2>2. CASE /\ byepackets' = Append(byepackets, packetbuilder)
             /\ poll' = IF Len(byepackets') = 1 THEN "schedule" ELSE "newssrc"
    <3>1. byepackets \in Seq(Nat) /\ packetbuilder \in Nat
      BY DEF ByeInv, OrderInv
    <3>2. \/ poll' = "schedule"
          \/ poll' = "newssrc" /\ byepackets # <<>>
      BY <2>2, <3>1
    <3>3. poll = "bye" /\ byescheduled' = byescheduled
      BY <1>1 DEF BuildBYEPacket
    <3> QED
      BY <3>2, <3>3 DEF ScheduleInv
  <2> QED
    BY <1>1, <2>1, <2>2 DEF BuildBYEPacket
<1>2. CASE ScheduleBYEPacket \/ Reschedule
  BY <1>2 DEF ScheduleBYEPacket, Reschedule, ScheduleInv
<1>3. CASE IsTime
  BY <1>3 DEF IsTime, ScheduleInv
<1>4. CASE BuildRTCP
  BY <1>4 DEF BuildRTCP, ScheduleInv
<1>5. CASE SendRTCPData
  BY <1>5 DEF SendRTCPData, ScheduleInv
<1>6. CASE Sent
  BY <1>6 DEF Sent, ScheduleInv
<1>7. CASE \/ Started \/ LockScheduler \/ GetTransmissionDelay
           \/ WaitForIncomingData \/ Selected \/ Receive
  BY <1>7, ScheduleFrame
     DEF Started, LockScheduler, GetTransmissionDelay, WaitForIncomingData,
         Selected, Receive
<1>8. CASE LockSources \/ ProcessRawPacket \/ Collided
  BY <1>8, ScheduleFrame DEF LockSources, ProcessRawPacket, Collided
<1>9. CASE CreateNewSSRC \/ ClearSentPackets \/ ReplaceOwnSSRC
  BY <1>9, ScheduleFrame DEF CreateNewSSRC, ClearSentPackets, ReplaceOwnSSRC
<1>10. CASE Timeout \/ AnalyseOutgoing \/ Step
  BY <1>10, ScheduleFrame DEF Timeout, AnalyseOutgoing, Step
<1> QED
  BY <1>1, <1>2, <1>3, <1>4, <1>5, <1>6, <1>7, <1>8, <1>9, <1>10 DEF PollThread

\* The application touches the queue when the poll thread has ended.
LEMMA AppKeepsSchedule ==
  ASSUME Inv, ScheduleInv, InCall \/ Call \/ Kill \/ TimeUp
  PROVE  ScheduleInv'
<1> USE DEF AppKeeps, history
<1>1. CASE AddBYEPacket \/ BYELoop \/ SendBYEPacket \/ Cleanup
  <2>1. poll \in {"ended", "killed"} /\ poll' = poll
    BY <1>1 DEF AddBYEPacket, BYELoop, SendBYEPacket, Cleanup, Inv, LeaveInv
  <2> QED
    BY <2>1 DEF ScheduleInv
<1>2. CASE Stopped \/ Kill
  BY <1>2, ScheduleFrame DEF Stopped, Kill
<1>3. CASE BuildPacket \/ BuildAPPPacket \/ BeginDataAccess \/ Leave \/ TimeUp
  BY <1>3, ScheduleFrame
     DEF BuildPacket, BuildAPPPacket, BeginDataAccess, Leave, TimeUp
<1>4. CASE \/ SendRTPData \/ SentRTPPacket \/ SetSentPackets \/ SendAPPPacket
           \/ EndDataAccess
  BY <1>4, ScheduleFrame
     DEF SendRTPData, SentRTPPacket, SetSentPackets, SendAPPPacket, EndDataAccess
<1> QED
  BY <1>1, <1>2, <1>3, <1>4 DEF InCall, Call

-----------------------------------------------------------------------------
LEMMA ByeInit == Init => ByeInv /\ FinishedInv /\ ScheduleInv
<1> SUFFICES ASSUME Init PROVE ByeInv /\ FinishedInv /\ ScheduleInv
  OBVIOUS
<1>1. /\ packetbuilder = 1 /\ appssrc = 1 /\ byepackets = <<>> /\ goodbye = {}
      /\ outgoing = [bye |-> FALSE, ssrc |-> 1] /\ finished = {} /\ settled = {}
      /\ poll = "started" /\ app = "idle"
  BY DEF Init
<1>2. OrderInv
  BY <1>1 DEF OrderInv
<1>3. ByeInv
  BY <1>1, <1>2 DEF ByeInv
<1>4. FinishedInv
  BY <1>1 DEF FinishedInv, GoodbyePromised, Renaming
<1>5. ScheduleInv
  BY <1>1 DEF ScheduleInv
<1> QED
  BY <1>3, <1>4, <1>5

\* The queue of BYE packets, what it promises and its schedule are in order in
\* every reachable state.
THEOREM ByeInvariant == Spec => [](ByeInv /\ FinishedInv /\ ScheduleInv)
<1> DEFINE Byes == ByeInv /\ FinishedInv /\ ScheduleInv
<1>1. Init => Byes
  BY ByeInit
<1>2. Inv /\ Byes /\ [Next]_vars => Byes'
  <2> SUFFICES ASSUME Inv, Byes, [Next]_vars PROVE Byes'
    OBVIOUS
  <2>1. CASE poll \notin {"ended", "killed"} /\ PollThread
    BY <2>1, PollKeepsBye, PollKeepsFinished, PollKeepsSchedule
  <2>2. CASE InCall \/ Call \/ Kill \/ TimeUp
    BY <2>2, AppKeepsBye, AppKeepsFinished, AppKeepsSchedule
  <2>3. CASE UNCHANGED vars
    BY <2>3, ByeFrame, FinishedFrame, ScheduleFrame DEF vars, history
  <2> QED
    BY <2>1, <2>2, <2>3 DEF Next
<1> QED
  BY <1>1, <1>2, Invariant, PTL DEF Spec

\* No data is sent under an SSRC whose BYE packet was sent, however SendPacket
\* and a collision overlap.
THEOREM ByeIsLast == Spec => []NoDataAfterBye
<1>1. Inv /\ ByeInv => NoDataAfterBye
  BY DEF Inv, LeaveInv, ByeInv, OrderInv, NoDataAfterBye, Leaving
<1> QED
  BY <1>1, Invariant, ByeInvariant, PTL

\* An SSRC under which SendPacket returned before the poll thread took the
\* source table is given up with a BYE packet only.
THEOREM ByeIsSaid == Spec => []GoodbyePromised
<1>1. FinishedInv => GoodbyePromised
  BY DEF FinishedInv
<1> QED
  BY <1>1, ByeInvariant, PTL

\* While the poll thread runs, BYE packets in the queue are scheduled.
THEOREM ByeIsScheduled == Spec => []ByesScheduled
<1>1. Inv /\ ScheduleInv => ByesScheduled
  BY DEF Inv, LockInv, Locked, ScheduleInv, ByesScheduled, Free
<1> QED
  BY <1>1, Invariant, ByeInvariant, PTL

=============================================================================
