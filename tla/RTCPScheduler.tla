---------------------------- MODULE RTCPScheduler ----------------------------
(***************************************************************************)
(* When RTCP packets are sent.  All times the code compares are relative to *)
(* the current time, so the model has no clock: left is the time until      *)
(* nextrtcptime, 0 when that has passed, and past the time since            *)
(* prevrtcptime.  Times and sizes are integers; the average packet size is  *)
(* somewhere between the last average and the size of the packet.           *)
(*                                                                          *)
(* The session calls these functions in its poll loop; the counts of        *)
(* members and senders are those of the source table.                       *)
(***************************************************************************)
EXTENDS RTCPSchedulerParams

VARIABLES
  firstcall, hassentrtcp, avgrtcppacksize,
  left, past, pmembers,
  byescheduled, sendbyenow, byemembers, avgbyepacketsize,
  active, senders, aresender,        \* of the source table
  since              \* history: time since the last packet was due, the first
                     \* call, or a BYE packet was scheduled

timers == <<left, past, pmembers>>
byevars == <<byescheduled, sendbyenow, byemembers, avgbyepacketsize>>
sizes == <<hassentrtcp, avgrtcppacksize>>
members == <<active, senders, aresender>>
schedvars == <<firstcall, sizes, timers, byevars, members, since>>

AtLeast(a, b) == IF a < b THEN b ELSE a

\* Any average of an old and a new size.
Averages(a, b) == {n \in PacketSizes : n \in a..b \cup b..a}

-----------------------------------------------------------------------------
(* CheckTimes: one quarter of the bandwidth is for the senders *)

CalculateDeterministicInterval(sender) ==
  LET total == AtLeast(active, 1)
      few == 4 * senders <= total
      others == IF senders < total THEN total - senders ELSE 0
      needed == IF ~few THEN (total * avgrtcppacksize) \div Bandwidth
                ELSE IF sender THEN (senders * avgrtcppacksize * 4) \div Bandwidth
                ELSE (others * avgrtcppacksize * 4) \div (3 * Bandwidth)
      least == IF ~hassentrtcp /\ UseHalfAtStartup
               THEN MinInterval \div 2 ELSE MinInterval
  IN  AtLeast(least, needed)

\* Between 0.5 and 1.5 of it, divided by 1.21828: the shortest or the longest.
Randomized(interval) == {(2 * interval) \div 5, (6 * interval) \div 5}

TransmissionIntervals == Randomized(CalculateDeterministicInterval(aresender))

CalculateBYETransmissionInterval(now, packets, size) ==
  LET least == IF UseHalfAtStartup THEN MinInterval \div 2 ELSE MinInterval IN
  IF now THEN {0}
  ELSE Randomized(AtLeast(least, (packets * size * 4) \div (3 * Bandwidth)))

BYEIntervals ==
  CalculateBYETransmissionInterval(sendbyenow, byemembers, avgbyepacketsize)

-----------------------------------------------------------------------------
(* Packets *)

\* A compound packet without a BYE packet comes in or goes out.
AverageIn(size) == avgrtcppacksize' \in Averages(avgrtcppacksize, size)

AnalyseIncoming(size) ==
  /\ AverageIn(size)
  /\ UNCHANGED <<hassentrtcp, firstcall, timers, byevars, members, since>>

AnalyseOutgoing(size) ==
  /\ AverageIn(size)
  /\ hassentrtcp' = TRUE
  /\ UNCHANGED <<firstcall, timers, byevars, members, since>>

\* No BYE packet is scheduled: the rest is not read until ScheduleBYEPacket has
\* set it again.
NoBYE ==
  byescheduled' = FALSE /\ sendbyenow' = FALSE /\ byemembers' = 0 /\ avgbyepacketsize' = 0

\* Somebody else says goodbye, while we wait to do so.
AnalyseIncomingBYE(size) ==
  /\ byescheduled
  /\ byemembers < MaxBYEs
  /\ byemembers' = byemembers + 1
  /\ avgbyepacketsize' \in Averages(avgbyepacketsize, size)
  /\ UNCHANGED <<firstcall, sizes, timers, byescheduled, sendbyenow, members, since>>

ScheduleBYEPacket(size) ==
  /\ ~byescheduled
  /\ byescheduled' = TRUE
  /\ avgbyepacketsize' = size
  /\ byemembers' = 1
  /\ sendbyenow' = (RequestImmediateBYE /\ active < ImmediateBYELimit)
  /\ past' = 0
  /\ left' \in CalculateBYETransmissionInterval(sendbyenow', 1, size)
  /\ pmembers' = IF firstcall THEN active ELSE pmembers
  /\ firstcall' = FALSE
  /\ since' = 0
  /\ UNCHANGED <<sizes, members>>

-----------------------------------------------------------------------------
(* Timers *)

\* Both GetTransmissionDelay and IsTime start the timers when called first.
FirstCall ==
  /\ firstcall
  /\ firstcall' = FALSE
  /\ past' = 0 /\ pmembers' = active /\ since' = 0
  /\ left' \in TransmissionIntervals
  /\ UNCHANGED <<sizes, byevars, members>>

\* The timer has expired: the interval is drawn again for the members there
\* are now, and either it has passed or the timer runs on (reconsideration).
CheckTimes == IF byescheduled THEN BYEIntervals ELSE TransmissionIntervals

PacketDue ==
  /\ ~firstcall /\ left = 0
  /\ \E interval \in CheckTimes : interval <= past
  /\ NoBYE
  /\ past' = 0 /\ pmembers' = active /\ since' = 0
  /\ left' \in TransmissionIntervals
  /\ UNCHANGED <<firstcall, sizes, members>>

Reconsider ==
  /\ ~firstcall /\ left = 0
  /\ \E interval \in CheckTimes :
       interval > past /\ left' = interval - past
  /\ pmembers' = active
  /\ UNCHANGED <<firstcall, sizes, past, byevars, members, since>>

IsTime == PacketDue \/ Reconsider

\* Mutant: the time that has passed grows when members leave.
PerformReverseReconsiderationSwapped(now) ==
  /\ left' = (now * left) \div AtLeast(pmembers, 1)
  /\ past' = (AtLeast(pmembers, 1) * past) \div AtLeast(now, 1)
  /\ pmembers' = now

\* Reverse reconsideration: both times shrink with the number of members.
PerformReverseReconsideration(now) ==
  /\ left' = (now * left) \div AtLeast(pmembers, 1)
  /\ past' = (now * past) \div AtLeast(pmembers, 1)
  /\ pmembers' = now

ActiveMemberDecrease(now) ==
  IF ~firstcall /\ now < pmembers
  THEN PerformReverseReconsideration(now)
  ELSE UNCHANGED timers

\* Called by the session when it is created or left.
Reset ==
  /\ ~firstcall
  /\ hassentrtcp' = FALSE /\ firstcall' = TRUE
  /\ avgrtcppacksize' \in PacketSizes
  /\ NoBYE
  /\ UNCHANGED <<timers, members, since>>

-----------------------------------------------------------------------------
(* The source table, and time *)

MemberComes ==
  /\ active < MaxMembers
  /\ active' = active + 1
  /\ UNCHANGED <<firstcall, sizes, timers, byevars, senders, aresender, since>>

\* A member times out or says goodbye: OnTimeout and OnBYEPacket.
MemberGoes ==
  /\ active > 0
  /\ active' = active - 1
  /\ ActiveMemberDecrease(active - 1)
  /\ UNCHANGED <<firstcall, sizes, byevars, senders, aresender, since>>

SendersChange ==
  /\ senders' \in 0..active
  /\ aresender' \in BOOLEAN
  /\ aresender' => senders' > 0
  /\ UNCHANGED <<firstcall, sizes, timers, byevars, active, since>>

Tick ==
  /\ ~firstcall /\ since < MaxPast
  /\ left' = IF left = 0 THEN 0 ELSE left - 1
  /\ past' = past + 1
  /\ since' = since + 1
  /\ UNCHANGED <<firstcall, sizes, pmembers, byevars, members>>

SchedInit ==
  /\ firstcall = TRUE /\ hassentrtcp = FALSE /\ avgrtcppacksize \in PacketSizes
  /\ left = 0 /\ past = 0
  /\ pmembers = 0      \* not initialized, and not used before the first call
  /\ byescheduled = FALSE /\ sendbyenow = FALSE
  /\ byemembers = 0 /\ avgbyepacketsize = 0
  /\ active = 1 /\ senders = 0 /\ aresender = FALSE
  /\ since = 0

SchedNext ==
  \/ \E size \in PacketSizes :
       \/ AnalyseIncoming(size) \/ AnalyseOutgoing(size)
       \/ AnalyseIncomingBYE(size) \/ ScheduleBYEPacket(size)
  \/ FirstCall \/ IsTime \/ Reset
  \/ MemberComes \/ MemberGoes \/ SendersChange \/ Tick

SchedSpec == SchedInit /\ [][SchedNext]_schedvars

-----------------------------------------------------------------------------
(* Properties *)

\* An interval of the present members and senders has passed.
EnoughTime == \E interval \in CheckTimes : interval <= since

\* Between two packets at least the shortest interval passes that the members
\* and senders of the moment demand, however the counts changed in between and
\* however often the timers were moved; likewise before a BYE packet.  (This
\* keeps RTCP within its share of the bandwidth.)
PacketsSpaced == [][PacketDue => EnoughTime]_schedvars

=============================================================================
