# JRTPLIB: TLA+ models and proofs

JRTPLIB is a C++ library for RTP sessions (RFC 3550).  This directory holds
TLA+ models of its state machines, TLC configurations that check them on small
instances, and theorems about them that TLAPS has proved for every value of the
constants.  Paths are relative to `src/src/` of the repository.

## The system

An application owns an `RTPSession`.  The session owns the other parts:

| Component | State | Operations | Used by, uses |
|---|---|---|---|
| `RTPSources`, `RTPSessionSources` (source table) | an entry per SSRC, our own entry, total, sender and active member counts, the flag "our SSRC collided" | process RTP and RTCP packets, create and delete our entry, five time-outs | called by the session under the sources mutex; asks the transmitter whether an address is ours |
| `RTPInternalSourceData`, `RTPSourceData`, `RTPSourceStats` (one source) | sequence numbers, probation, packet queue, addresses, CNAME, BYE, times, reports | process a packet, an SDES item, a BYE; next packet; new report interval | called by the table, the application, the RTCP builder |
| `RTPSession` | own state: `sentpackets`, the queue of BYE packets, four mutexes | send, data access, `ProcessPolledData`, `BYEDestroy` | application and poll thread |
| `RTPPollThread` | `stop` | loop: delay, wait, poll, process | session, transmitter |
| `RTPCollisionList` | addresses that used our SSRC, with times | update, time out | session |
| `RTCPScheduler` | next and previous report time, member counts, BYE mode | `IsTime`, `GetTransmissionDelay`, `ScheduleBYEPacket`, analysis of packets | session, table |
| `RTCPPacketBuilder`, `RTCPCompoundPacketBuilder` | SDES items and their intervals; packet under construction | next report, BYE packet | session |
| `RTPPacketBuilder` | SSRC, sequence number, timestamp, counts | build a packet, new SSRC | session |
| transmitters (UDPv4, UDPv6, External, TCP, Fake) | sockets, received packets, waiting flag, abort descriptors | send, poll, wait, abort | session, poll thread |
| `RTPKeyHashTable`, `RTPHashTable` | buckets, a list and a cursor | add, find, delete, iterate | table, transmitters |

Parsing of RTP packets, SDES storage, addresses, time, random numbers, memory
management, the secure session, error texts, tests, examples and tools complete
the repository.  `jthread` (mutexes and threads) is external.

What is hard about this code, in the order of `hazards` in `PROJECT.json`:
collisions between sources found by addresses that are learned one at a time;
counters kept incrementally by a dozen handlers; time-outs against packets that
name a source without a time being recorded; 16 bit numbers extended in
presence of loss, delay and duplication; a poll thread and an application that
meet at four mutexes in two orders; our SSRC being replaced in several critical
sections while a `SendPacket` is under way; BYE packets that queue up; timers
moved by ratios of member counts; report blocks and SDES items spread over
packets by flags; lists linked by hand under a shared cursor; and, in the
transmitters, a wait that other threads abort, destroy and feed, sockets that
are partly the application's, and packets that arrive in pieces.

What makes each component correct: the table counts what it holds, keeps a
source on one host, never touches our entry, and times out who was silent; a
source's packets wait in order, within a bound on probation, and its extended
numbers are the sender's; the session never deadlocks, its builder and its table
agree on the SSRC, a BYE is said only after the last data under an SSRC, and
leaving ends unless the poll thread was killed in a call of the transmitter; RTCP
packets keep the distance the members demand; every item goes out once a round,
no source starves, and a packet has the size that was counted and parses back; a
wait ends when it is told to, no mutex is released by a thread that has not got
it, no socket is leaked, a TCP stream yields the packets sent, and a hash table
is an ordered set of keys.

## Modules

| Module | Models | Checked by | Proved in |
|---|---|---|---|
| `RTPSources` | the source table | `MCRTPSources`, four configurations | `RTPSourcesProofs` |
| `RTPSourceData` | sequence numbers, probation and queue of one source | itself, two configurations | `RTPSourceDataProofs` |
| `RTPSession` | poll thread, application, mutexes, collision and BYE handling | `MCRTPSession`, two configurations | `RTPSessionProofs` |
| `RTPTransmitter` | what all transmitters share: two mutexes, wait, abort, create, destroy | `MCRTPTransmitters` | `RTPTransmitterProofs` |
| `RTPIPTransmitter` | what those that know IP addresses share: destinations, address lists, local addresses | `MCRTPTransmitters` | `RTPDatagramProofs` |
| `RTPUDPSockets` | what the UDP ones share: two sockets, ports, groups, and the system's side of them | `MCRTPTransmitters` | `RTPDatagramProofs` |
| `RTPUDPv4Transmitter`, `RTPUDPv6Transmitter`, `RTPFakeTransmitter`, `RTPTCPTransmitter`, `RTPExternalTransmitter` | the handlers of each | `MCRTPTransmitters` | `RTPTCPTransmitterProofs` for TCP, `RTPDatagramProofs` for the others |
| `RTPDatagramTransmitters` | all but TCP side by side, one of them in use as the session's protocol says, and what they promise | `MCRTPTransmitters` | `RTPDatagramProofs` |
| `RTPPacketStream` | abstract: packets in, packets out, in order | refined by `RTPTCPTransmitter` | |
| `RTPHashFunction`, `RTPKeyHashTable` | the hash tables | `MCRTPTransmitters` | `RTPKeyHashTableProofs` |
| `RTPTable` | abstract: a sequence of keys and a cursor | refined by `RTPKeyHashTable` | |
| `RTCPCompound` | sizes, writing and parsing of compound packets | `MCRTCP` | `RTCPProofs` |
| `RTCPCompoundPacketBuilder` | the builder an application may use | `MCRTCP` | `RTCPProofs` |
| `RTCPBuilderParams`, `RTCPPacketBuilder` | the session's choice of what to put into packets | `MCRTCP` | `RTCPProofs` |
| `RTCPSchedulerParams`, `RTCPScheduler` | when packets are due | `MCRTCP` | `RTCPProofs` |

The definitions of a module carry the names of the functions they model; the
`map` of `PROJECT.json` gives the lines.  An operator introduced as a "mutant"
is a plausible bug of the definition after it, for which the property named in
`PROJECT.json` fails; no specification uses one.

An MC module with several uses has a variable `use`, chosen in the initial
state: each behaviour is that of one component in one situation, and the others
keep their initial state.  Components that meet only through values passed are
thus checked side by side, not multiplied; those that interleave in one process
(poll thread, application, table, builder, scheduler flag) are composed in
`RTPSession`.

### RTPSources

`table` is the set of SSRCs in `sourcelist` and `src` their records; an SSRC
that is not in the table has the record its constructor would make, so that
`ObtainSourceDataInstance` needs no case of its own.  All handlers run under
the session's sources mutex, so each is one action.  Two loops are unrolled: a
compound RTCP packet is a sequence of blocks, each an action
(`ProcessRTCPCompoundPacket`), and a CSRC list is consumed one identifier at a
step, with all other actions held back by `Ready`.  The prefix of a compound
packet that was processed before an error is thus a behaviour.  Sequence numbers
are reduced to "the next one or not", all that probation asks.  A packet from
one of our own addresses has the sender address `NULL` or is dropped, as in
`ProcessRawPacket`.  `known` and `heard` are history variables: what the
application was told, and when a packet last named a source.

A packet is stamped with the time the transmitter received it, not with the one
at which it is processed.  `received` is the stamp of the last packet: a
transmitter hands packets over in the order of reception, so that stamps do not
go back, and none is later than `now`.  `SentRTPPacket` records the current
time.  An own packet that was received before that and is processed after it
sets our entry's last message time back behind its last RTP time, which is why
`TimesConsistent` compares the two in the other entries only.

Constants: `DelayAssumption` says that the epoch lies further back than any
interval.  The clock counts seconds since 1970 and the code uses `RTPTime(0,0)`
for "never", so this is what it relies on.

Callbacks do not call back into the table; memory does not run out.

### RTPSourceData

The integers have a width: `SeqMod` stands for 2^16 and `ExtMod` for 2^32.
Every packet has a number `no` in the sender's order, of which the header shows
`no % SeqMod`; `Arrive` (external) lets up to `Gap` packets be lost and up to
`Late` come late or again.  `base` and `top` are the numbers of the first
accepted and the newest packet: the reference that `ExpectedIsSent` compares the
code's arithmetic with.  `run` counts the packets in sequence, the reference of
`ProbationExact`.  `Probe` and `AcceptFirst` model the branch "no valid packets
received yet", `AcceptNext` the other one, and `Stored` the insertion into the
queue.  A packet whose sequence number is in the queue already is dropped.
The type of probation that the session had set when the source was made is the
variable `probationtype`, chosen once in `Init`.

The sequence number arithmetic is right only as far as the network goes.  Two
more history variables say how far it went: `inorder`, that no packet came late
or again, and `steady`, that none did on probation or from before a wrap of the
16 bit number.  `ExpectedIsSent` is claimed while `steady` holds,
`ReceivedWithinExpected` and `TakenInOrder` while `inorder` does, and
`data_latewrap` shows what happens outside.

Constants: `SeqAssumption` says that the 32 bit number counts whole cycles of the
16 bit one (`ExtMod % SeqMod = 0`), and `NetworkAssumption` that loss and delay
together stay within one cycle, without which the 16 bits do not tell packets
apart.

### RTPSession

Each critical section that takes no further mutex is one step; one that does has
a step for each place where it may have to wait.  `holder` has the mutexes of
the source table, the scheduler and the packet builders, and the main and wait
mutex of the transmitter, which the session has created itself; the mutex of
`sentpackets` is never held while another is taken, and an access to it is one
step.  Of the transmitter's calls `WaitForIncomingData` has two steps, between
which the poll thread holds the wait mutex in its select; the others hold the
main mutex within a step.  The source table is reduced to our own entry, and
identifiers are drawn as 1, 2, ..., because `CreateNewSSRC` draws from 32 bits
until it finds one that is not in the table and a repetition of an earlier one
is left out.  `app` is where the application is in its one call at a time: "The
RTPSession class is not meant to be thread safe" (`rtpsession.h:77`).  The four
overloads of `SendPacket` are one call, and `SendRTCPAPPPacket` and
`SendUnknownPacket` another.  `Fails` says where calls of the transmitter and
the builders may fail: in the poll thread, in sending, in leaving.  Times are
abstract: `IsTime` may say yes or no, and `Timeout` may remove any address from
the collision list.

`CanKill` lets `Stop` run into its five seconds and kill the thread with the
mutexes it holds, wherever it is (`Kill`): in a call of the transmitter that may
be the main mutex as well.  The session's own mutexes are not taken by who
leaves, but `SendBYEPacket` waits for the main mutex, and `Cleanup`, which
destroys the transmitter first, for both of the transmitter's.  So `BYEDestroy`
and `Destroy` never return when the thread was killed with one of these
(`KilledInside`), in its select above all, although "At most a time
`maxwaittime` will be waited" (`rtpsession.h:118`).  `LeaveReturns` says that
nothing else keeps them.

`finished`, `settled`, `byes` and `goodbye` are history variables.
`settled` holds the SSRCs under which a `SendPacket` was complete when the poll
thread locked the source table.

### The transmitters

`RTPTransmitter` has the two mutexes and `at`, the place of each thread: a call
that locks the main mutex, works and unlocks it is one step, and
`WaitForIncomingData` and `Destroy`, which let others in half way, are a step
per critical section.  The abort descriptors are a count of bytes; when they are
the transmitter's own, `Destroy` closes them, which ends a wait as well.  A
thread in `RTPSelect` goes on when the descriptors are readable (`RTPSelect`
there has fairness), or at any time with data, an error or the delay having
passed (no fairness: nothing promises that these come).  `Destroy` models the
second `MAINMUTEX_UNLOCK` on its path for a waiting thread as what it does: the
mutex is free afterwards, whoever held it.

`RTPIPTransmitter` keeps for each host either the ports in the list or, when
`all` is set, the exceptions.  `selected` is the reference: the addresses added
and not deleted since.  It is a superset only: adding a port again that was
deleted from "all ports" does nothing, so that `ListWithinSelected` is an
inclusion.  `RTPUDPSockets` has the system's side (external): which sockets are
open and bound where, memberships, and queued datagrams, each with the socket it
was sent from, or `Other`: a program that is not a transmitter, or the network.
The mark `own` of a received packet is that truth, which the transmitter does not
see; `OwnRecognised` compares it with the answer of `ComesFromThisTransmitter`,
which goes by addresses and recorded ports.  `Create` goes through
sockets lent by the application, a given port base, a forced RTCP port, automatic
ports and multiplexing, and may fail at each call.  UDPv4 and UDPv6 are two
modules over it, since the code has all handlers twice, with differences: UDPv6
records one port and compares with the next one.  `RTPDatagramTransmitters` has
them side by side with the external and the fake transmitter: `proto` is the
protocol the session was created with, which never changes.
A `Create` that fails may leave the local addresses it has found already.
`SocketAssumption` says that the application's sockets are bound, which `Create`
requires of sockets it is given, and to different ports, as `bind` sees to.

`RTPTCPTransmitter` keeps for each connection the bytes of the length and of the
packet read so far.  Bytes are below `Base`, so that a length is two digits to
that base; a send is taken whole, in part or not at all; `Arriving` moves any
number of bytes from the flight to the wire, and `Poll` goes connection by
connection.  A connection is `broken` when a packet was sent in part, or when an
error or `DeleteDestination` drops one read in part; the claim ends there.
`FramingAssumption` says that `Base` is a base and that the packets are
sequences of bytes whose length two digits can express, as for a 16 bit length.
`RTPExternalTransmitter` counts signals in `m_abortCount`, so that many packets
inject one byte.  `RTPFakeTransmitter` has no threads: it cannot be made thread
safe.

### RTPKeyHashTable

Elements are `Cells`, a pointer is a cell or `Null`, and each field of
`HashElement` is a function on cells.  What a deleted element contained becomes
`Null`, so that following a pointer to it would be visible.  The bucket search
is `Found`: the cell among those reachable over `hashnext` that has the key.
`positioned` is the contract the users of the table keep: the constructor leaves
the cursor uninitialized and `Clear` leaves it where it was, so `Delete`,
`GotoNextElement` and `GotoPreviousElement` come after one of the other moves.
`RTPHashTable` repeats the code for elements that are their own keys; the map
points to both files.

### RTCPCompound, RTCPCompoundPacketBuilder, RTCPPacketBuilder

A packet under construction is a record of what was added (`pack`); `RTCPCompound`
has the sizes of the `NeededBytes` functions, the packets `EndBuild` writes, each
with the size it took, and the parser's walk over sizes and formats.
`MaxPerPacket` stands for 31 and `RTP_MINPACKETSIZE` for 600, below which
`InitBuild` refuses a maximum.  The builder's calls may come in any order.
`overdrawn` records that the first SDES source was added without space, which
`AddSDESSource` does not notice (`rtcpcompoundpacketbuilder.h:352`).

`RTCPPacketBuilder` walks the source table in its order, as
`FillInReportBlocks` does, with the flags of sources and items as sets.  The
packet it makes is a `pack`, so that "is there space" is the real computation.
`heard` holds the sources whose last RTP packet came after the previous report;
`waiting` and `sentitems` are history.  `MinimumAssumption` is what
`RTP_MINPACKETSIZE` is for: a sender report, our CNAME and one more block or
item fit.  The table is fixed; its sources come up by starting to send.
`Destroy` and `Init` leave the flags of the items as they are
(`rtcppacketbuilder.cpp:78` clears those of the sources, and
`RTCPSDESInfo::Clear` deletes private items).  `leftover` remembers which items
had theirs set at `Init`: the first round after it takes them for sent, which
`ItemsOnce` says.

### RTCPScheduler

The code compares times with the current one only, so the model has `left`, the
time until `nextrtcptime`, and `past`, the time since `prevrtcptime`, and `Tick`
moves both.  Doubles become integers, rounded down.  The random factor is one of
its two ends, and a weighted average is any value in between.  Members come
and go at any time (`MemberGoes` calls `ActiveMemberDecrease` as the callbacks
of `RTPSessionSources` do).  `since` is the reference: time since the last
packet was due, which no reconsideration moves.

## Runs

| Run | Shows | Bounds |
|---|---|---|
| `sources_collide` | `CountsExact`, `ActiveCountNeverOver`, `OwnEntryIntact`, `AddressesOnOneHost`, `IdentityKept`, `SourcesAnnounced` | two SSRCs, two ports of one host and a port of another that is also ours, CSRC lists of length one, no time |
| `sources_timeouts` | `ActiveCountExact`, `TimesConsistent`, `HeardNotTimedOut` | two SSRCs, one address, our own, whose packets are taken, two instants, intervals of zero and one, probation of two, no CSRC lists |
| `data` | `QueueSorted`, `ProbationQueueBounded`, `ProbationExact`, `ExpectedIsSent`, `ReceivedWithinExpected`, `TakenInOrder` | widths 5 and 15, packets 0 to 6 so that the short number wraps, gaps and delays of two, both kinds of probation, a queue of two |
| `session_safety` | `NoCircularWait`, `SSRCsAgree`, `NoDataAfterBye`, `GoodbyePromised`, `ByesScheduled` | two colliding addresses, three SSRCs, two packets at a time, failures and a kill |
| `session_live` | `LeaveReturns`, `SourcesReleased` | one colliding address, three SSRCs, one packet at a time, failures except of `SendPacket`, and a kill |
| `transmitters_threads` | `HoldsWhatItNeeds`, `NoLostWakeup`, `NewSocketMonitored`, `DestroyReturns`, `AbortWakes` | three threads, one life of the transmitter, two bytes in the descriptors, one connection |
| `transmitters_data` | `ListWithinSelected`, `NoSocketLeaked`, `OwnRecognised`, `MembersMatch`, `StreamImplemented`, `TableImplemented` | one thread, two lives (one of the fake and TCP transmitters that send and receive); two hosts of ours and another, two ports, two groups, one datagram in a socket; packets of up to two of two bytes; three keys, two of them in one bucket, three elements |
| `rtcp` | `BuildSucceeds`, `ItemsOnce`, `NobodyStarves`, `BufferFilled`, `MaximumKept`, `ParsesBack`, `PacketsSpaced` | up to three SDES sources and items and one other packet, two per packet; three sources, packets that at the minimum size have space for one more block or item, two rounds, two calls of `Init`; four members, two BYE packets, times up to six |

Four more runs show where the code differs from what its documentation says:

| Run | Property | What happens |
|---|---|---|
| `sources_activecount` | `ActiveCountExact` | an existing entry that a CSRC list validates is not counted as active |
| `sources_csrctimeout` | `OnlyUnheardTimedOut` | a CSRC gets no message time and is timed out at once |
| `data_latewrap` | `ExtendedIsHighest` | a packet late across a wrap counts as a cycle ahead |
| `transmitters_recreate` | `HoldsWhatItNeeds` | `Destroy` unlocks the main mutex twice, the second time under a thread that uses the transmitter created again in between |

Why the bounds are enough: two identifiers give a source and another one that
collides with it, is named in its CSRC list or is ours, and the two ports and
two hosts all the outcomes of an address comparison.  One CSRC at a time
reaches both branches of the loop, whose iterations share nothing.  Two instants
and two intervals give "just now", "not yet" and "too long ago" for every
recorded time.  A width of 5 makes the wrap happen within a handful of packets,
and nothing in the code depends on the width except that gaps and delays stay
below half of it; the theorems are about every width and any number of wraps of
both numbers.  Two collisions are the least with two BYE packets
queued, and with the second arriving while the first is handled.  Three threads
are one that waits, one that destroys or aborts and one that comes in between.
Two connections would share no state but the list of received packets, so one is
enough for the framing; a packet of zero, one or two bytes with a length of two
has every cut.  Three keys give a first, a middle and a last element, in a
bucket alone and in one with another.  Packets for one block or one item put
every decision of the packet builder at a packet's end, and four members make a
count that halves and halves again.

A behaviour of the two builders ends when the packet is built or with the last
round, one of `RTPSourceData` at its last packet, and a session or a transmitter
that was destroyed for the last time makes no step: these runs allow deadlock.

### Fairness

The specifications of `RTPSources`, `RTPSourceData`, the hash table and the RTCP
modules assume none and claim no liveness.  In `RTPSession` the poll thread, a
call the application has made (including that data access ends) and the passing
of time are weakly fair: both threads are scheduled by the operating system and
no code path waits for anything but a mutex, the network with a time limit, or
the clock.  No fairness is assumed for the calls themselves.  Mutexes are not
assumed to be fair: an application that calls `SendPacket` again and again, each
time failing at once, could keep the builders' mutex from the poll thread.
`session_live` therefore leaves out failures of sending; a `SendPacket` that
succeeds also has to pass the source table's mutex and so lets the poll thread
go on.  The kill is not fair: nothing relies on it.

In the transmitters the steps of a thread inside a call are strongly fair: a
mutex that is free again and again is obtained in the end, which a scheduler
gives and weak fairness would not say.  It is not assumed that a wait ends by
its delay or by data, so `AbortWakes` and `DestroyReturns` are about the abort
descriptors alone.

### Refinement

`StreamImplemented`: under the mapping that takes the histories `sent` and
`received` of connections that are not broken, `RTPTCPTransmitter` implements
`RTPPacketStream`; a step that reads a piece of a packet is a stutter, and one
that puts a packet into the list is `Receive`.  `TableImplemented`: the keys in
the order of the linked list, the key under the cursor and the number of
elements in memory behave as `RTPTable` says.  A link that is wrong shows in
the sequence, at the latest when the list is walked; an element that is leaked
shows in the number.

## Proofs

| Theorem | Statement |
|---|---|
| `RTPSourcesProofs!TypeCorrect` | `Spec => []TypeOK` |
| `RTPSourcesProofs!OwnEntrySafe` | `Spec => []OwnEntryIntact` |
| `RTPSourcesProofs!AddressesSafe` | `Spec => []AddressesOnOneHost` |
| `RTPSourcesProofs!CountsSafe` | `Spec => []CountsExact` |
| `RTPSourcesProofs!ActiveCountSafe` | `Spec => []ActiveCountNeverOver` |
| `RTPSourcesProofs!ActiveCountSafeWithoutMixers` | `Spec => []ActiveCountExact`, for `MaxCSRCs = 0` |
| `RTPSourcesProofs!TimesSafe` | `Spec => []TimesConsistent` |
| `RTPSourcesProofs!IdentitySafe` | `Spec => IdentityKept` |
| `RTPSourcesProofs!HeardSafe` | `Spec => HeardNotTimedOut` |
| `RTPSourcesProofs!SourcesAnnouncedSafe` | `Spec => []SourcesAnnounced` |
| `RTPSourceDataProofs!QueueSafe` | `Spec => []QueueSorted` |
| `RTPSourceDataProofs!ProbationBoundSafe` | `Spec => []ProbationQueueBounded` |
| `RTPSourceDataProofs!ProbationSafe` | `Spec => []ProbationExact` |
| `RTPSourceDataProofs!ExpectedSafe` | `Spec => []ExpectedIsSent`, for `ShortGaps` |
| `RTPSourceDataProofs!ReceivedSafe` | `Spec => []ReceivedWithinExpected`, for `ShortGaps` and `Gap * MaxNew < ExtMod` |
| `RTPSourceDataProofs!TakenSafe` | `Spec => TakenInOrder`, for `ShortGaps` |
| `RTPSessionProofs!DeadlockFree` | `Spec => []NoCircularWait` |
| `RTPSessionProofs!IdentifierSafe` | `Spec => []SSRCsAgree` |
| `RTPSessionProofs!ByeIsLast` | `Spec => []NoDataAfterBye` |
| `RTPSessionProofs!ByeIsSaid` | `Spec => []GoodbyePromised` |
| `RTPSessionProofs!ByeIsScheduled` | `Spec => []ByesScheduled` |
| `RTPKeyHashTableProofs!PointersSafe` | `Spec => []NoDanglingPointer` |
| `RTPKeyHashTableProofs!ClearDeletesAll` | `Spec => [][Clear => allocated' = {}]_vars` |
| `RTPKeyHashTableProofs!TableSafe` | `Spec => TableImplemented`: the refinement of `RTPTable` |
| `RTCPProofs!MaximumSafe` | `CompoundSpec => []MaximumKept` |
| `RTCPProofs!BufferSafe` | `CompoundSpec => []BufferFilled` |
| `RTCPProofs!ParsesSafe` | `CompoundSpec => []ParsesBack` |
| `RTCPProofs!BuildersSafe` | `BuilderSpec => []BuildSucceeds` |
| `RTCPProofs!ItemsSafe` | `BuilderSpec => []ItemsOnce` |
| `RTCPProofs!StarvesSafe` | `BuilderSpec => []NobodyStarves` |
| `RTCPProofs!SpacingSafe` | `SchedSpec => PacketsSpaced` |
| `RTPTCPTransmitterProofs!MutexesSafe` | `Spec => []HoldsWhatItNeeds`, for `MaxCreates = 1` |
| `RTPTCPTransmitterProofs!MonitoringSafe` | `Spec => []NewSocketMonitored`, for `MaxCreates = 1` |
| `RTPTCPTransmitterProofs!FramingSafe` | `Spec => StreamImplemented`: the refinement of `RTPPacketStream` |
| `RTPDatagramProofs!ListsSafe` | `(V4!Spec \/ V6!Spec \/ Fake!Spec) => []ListWithinSelected` |
| `RTPDatagramProofs!GroupsSafe` | `(V4!Spec \/ V6!Spec) => []MembersMatch` |
| `RTPDatagramProofs!SocketsSafe` | `DatagramSpec => []NoSocketLeaked` |
| `RTPDatagramProofs!OwnSafe` | `DatagramSpec => []OwnRecognised`, for `MaxCreates = 1` or a single thread |
| `RTPDatagramProofs!UDPMutexesSafe` | `(V4!Spec \/ V6!Spec) => []HoldsWhatItNeeds`, for `MaxCreates = 1` |
| `RTPDatagramProofs!WakeupSafe` | `DatagramSpec => []NoLostWakeup`, for `MaxCreates = 1` |

`RTPDatagramProofs!ExternalMutexesSafe` is the statement about the mutexes for
the external transmitter.  `DatagramSpec` is the specification of whichever
transmitter the session's protocol has, except TCP's.

They use the assumptions the modules declare and nothing else, except for the
hypotheses in the table.  `MaxCSRCs = 0` is a session without mixers, and
`sources_activecount` shows that the count is not exact with them; one life of a
transmitter is necessary by `transmitters_recreate`.  `ShortGaps` says that gaps
are shorter than half the 16 bit numbers and delays at most half of them: it is
what the comparison of `dif1` and `dif2` in `ProcessPacket` can tell apart.
`Gap * MaxNew < ExtMod` keeps a report interval shorter than the 32 bit number.

*RTPSources.*  The properties are about the entries in the table, but a step may
create an entry from the record of an SSRC outside it.  The inductive invariant
`EntryInv` therefore speaks of every SSRC: its addresses are on one host, it has
a fresh record when it has no entry, and it has the flags and addresses of our
entry exactly when it is `own`.  A handler changes the record of one SSRC, so
the proof of a step is a lemma about that one record (`EntryOK`).  `CountInv`
adds the counters; lemmas say by how much the cardinality of a set of SSRCs
differs when one member's flag changes.  It needs `EntryInv`, because an absent
entry must count for nothing when it is created and because deleting our entry
subtracts what it was counted for.  `ActiveCountNeverOver` is the strongest
bound that holds: in `ProcessCSRC` the active members may grow while the count
stays.  Without CSRC lists that step does not exist and `ExactInv` is the
equality.  `RecordInv` is about times and histories: an entry has a message time
as soon as anything was processed for it, no recorded time is in the future, in
other entries than ours none is later than the last message nor than the last
packet processed, and `known` has every entry.  The action
properties say what a step may do to an entry that stays (`Kept`); they follow
from one lemma per handler.

*RTPSourceData.*  `ListInv` is the order of the packets in the queue, its bound
while the source is on probation, and the types.  That the queue is trimmed only
when its length equals the bound is enough because it grows by one packet at a
time and because validation is for good, so that no source with a longer queue
is on probation.  `ProbationInv` relates the countdown to `run`: what is left of
it and what has come in sequence make up what was asked for, and the extended
number on probation is the last packet's.  `SteadyInv` is about arithmetic
modulo two widths: the 32 bit number is congruent to the number of the newest
packet (`Tracks`), for which the lemmas `AcceptNextCounts` and
`AcceptLateTracks` go through the comparisons of the code, and the cycles
counted since `base` are those of the sender.  `NumberedInv` says which packet
of the sender each one in the queue is, so that its order is the order of
sending.

*RTPSession.*  `Inv` says which mutexes a thread holds at each of its steps and,
for the identifiers, that builder and table disagree only between
`CreateNewSSRC` and `ReplaceOwnSSRC`, where the poll thread holds the source
table.  No deadlock follows because the poll thread lets go of the source table
before it takes the scheduler's mutex first, and the application never waits for
one of the two while it holds the other; the transmitter's mutexes come last for
both.  For the BYE packets `ByeInv` follows an SSRC through the critical sections
of a collision: an SSRC with a BYE packet, queued or sent, is not the builder's
any more, and one that a `SendPacket` took before the change is accounted for
until it is done; `FinishedInv` says that the SSRCs that are settled are ours,
about to get their BYE packet, or have it; and `ScheduleInv` that between
queueing and scheduling the poll thread holds the source table.

*RTPKeyHashTable.*  That no pointer leads to a deleted element is not inductive:
a deletion repairs the two neighbours the element names and the heads it
compares with, so one needs that nothing else points to it.  `LinkInv` says that
next and previous are inverse to each other in both lists, that a head is the
element without a previous one and an end the one without a next, that an
element is in the bucket of its key, and that the list leads to every element
(every set closed under `listnext` that has the first one contains them all).
The last part is what `ClearDeletesAll` rests on, and says that the cursor goes
to an element that is still there.  There is one lemma per action.

The refinement needs the list as a sequence: `Chain(s, L)` says that the cells in
memory are those of `s`, each once, and that heads and links lead along it.  A new
element is appended to `s`, a deleted one taken out, and the recursive definition
that the mapping walks the list with (`Place`) is shown to meet just `s`
(`ChainPlace`, by the least place where they differ).  That `Add` and `DeleteKey`
decide as the abstract table does needs that a search finds every element of its
bucket (`HashComplete`, as for the list but per bucket) and that no key is there
twice (`Distinct`).

*RTCP packets.*  The sizes are sums over the lists of a `pack`, and the lists are
filled by walks over the table and the items; both are folds.  What a fold
computes is not proved by induction, which would need a theorem with an operator
as its parameter, but by the smallest counterexample (`Climb`): a fact that fails
after the first `k` elements for some `k` fails at a first one.  Thus
`FoldExists` says that there is a function as the library's recursive definition
of a fold describes it, and `SumRuns` and `SourceRuns` what it makes of the first
`k` elements.  `SumAppend` then says how a sum grows with its list, and
there is one lemma for each way to add to a packet (`AddReport`, `AddBlock`,
`AddSource`, `AddItem`, `AddOther`): what its check of the space promises is what
the total grows by.  `SizeInv` is that what is collected, and what was built,
fits; it needs no report to have blocks without its header.

That `EndBuild` writes just the bytes that were added up is `PackFilled`, for every
pack of which `SizeInv` gives the types.  The blocks and chunks are cut into packets at
`Upper(n, i)`; `PacketsCover` says that the packets counted are enough for all and
that none of them is without a first element, `SumPart` that the sum over a
portion is a difference of sums of first elements, so that the sums over all
packets leave the sum over the whole list and a header for each.  An SDES packet
rounds up behind each chunk where the calculation rounds up the chunk by itself;
`WrittenRules` says that this comes to the same, because every chunk begins at a
multiple of four.

That the packet can be parsed again is `PackParses`.  The contents that the parser
finds are a fold, known by how it goes on (`ContentsBy`); those of packets one
after the other are the contents one after the other (`ContentsConcat`), and the
portions of a list, in packets of their own, give back the list
(`ContentsPortions`).  What `KnownSDES` has left behind its chunks is the size
without that of the chunks (`LeftIsRest`), so that it ends at just the end of the
packet.  `APPInv` says that the data of APP packets is whole words, which
`AddAPPPacket` asks for; that of unknown packets is in the hypothesis of
`ParsesBack`, as `AddUnknownPacket` does not.

For the session's builder `StartFits` takes `MinimumAssumption` to every maximum
size at or above it: after our report and CNAME one block and one item fit.
`FirstBlock` and `SDESFilled` say that a walk that ends for want of space has
added one.  That is not enough for `BuildSucceeds`: a packet that only continues
the items would be empty if none were left, so `RoundInv` says that a round in
progress has a due item without its flag.  It also says that the flags are those
of items due in this round or left over from a round before `Init`, that no flag
outlives its round, and that the counts agree with the flags, which is what
`ItemsOnce` follows from.

`NobodyStarves` is a bound on how many packets a source that was heard before
each of them waits for its report block, in the number `R` of sources that can be
reported and `I` of items: fewer than `2R + I`, which TLC's longest waits (3, 5
and 7 packets for two, three and four sources and two items) stay below for
every `R`.  The bound comes from a ranking.  `Remaining` counts the packets a
source may still be left out of: without its flag, the other sources of this
round without theirs; while the items go out, those left and the other sources of
the next round; and with its flag, the sources left, then all items, then all
sources.  `StarveInv` is that the packets a source has waited and those that
remain are below the bound.  `BlocksBefore`, `ItemsBefore` and `ItemSent` say
that the three kinds of packet bring down what remains, and they need what the
walks do to the flags: a source gets its flag only with its block (`BlocksReported`), a
packet that is full of blocks has one, one that is not has flagged all the
sources to report, and one for the items has one of them or ends their turn.

*RTCPScheduler.*  `TimeInv` is `past <= since`: reverse reconsideration scales
the time that has passed by a ratio below one, and everything else that sets it
sets both.  `IsTime` compares an interval with `past`, hence with at most the
real time.

*Transmitters.*  `RTPTransmitterProofs` has one lemma for each shared handler, which
says that it keeps `MutexInv`: each thread holds what its place needs, and while
a thread that destroys is still on its way the only life is over, so that no
thread holds the main mutex and its second unlock takes it from nobody.  For the
external transmitter `SignalInv` says that the count of signals is the number of
bytes to read, and that a thread asleep over packets has one; a thread that reads
the bytes holds both mutexes, so that nobody is asleep then.  For TCP `WaitInv`
says that one thread waits at a time, which makes `m_tmpSocks` its own, and
`MonitorInv` that a connection outside it has left a byte.  The framing rests on
`FrameInv`: for a connection that is not broken the bytes read of the current
packet, those on the wire and those in flight, one after the other, are cut by
the lengths in them into just the packets that were sent and not yet received.
A step that moves bytes keeps this, one that completes a packet takes the first
of them.

The UDP transmitters and the fake one repeat each other's handlers.  What a
handler may do to the lists of addresses is the relation `ListStep`, and to the
sockets and groups `SocketStep`; that these keep `ListInv` and `SocketInv` is
proved once, and for each transmitter that every handler is such a step.
`SocketInv` adds to `SocketsReleased` and `MembersMatch` what they need of each
other: a transmitter uses two of its own sockets or two of the application's, so
that closing its own closes none of the application's, and a socket of its own
that is closed is in no group, so that `Create` starts with no memberships but
those left in the application's.

`OwnRecognised` is about packets in a list, hence about datagrams that were
queued before, hence about sockets that sent them earlier.  `DatagramInv`
therefore speaks of the queues: the address of a datagram in a socket tells which
of that socket's `Fellows` (the transmitter's sockets, or the application's) has
sent it, if any (`Telling`).  That stays true because open sockets have different
ports, nobody else sends from a port of ours, and a port changes hands only when
a socket of our own is closed, which loses what was queued in it; for the
application's sockets, whose queues outlive a transmitter, because their ports
never change.  `DatagramStep` is what a step may do to all this, shown once to keep
`DatagramInv` and for each transmitter to cover its handlers.  `PollingInv` is
that a transmitter between its two sockets is in use, so that the second half of
`Poll` reads the sockets recorded: a thread that destroys has to lock the main
mutex, which the polling thread holds.  That needs the mutexes, so the theorem has
the hypothesis of one life, or else a single thread, which may create the
transmitter again any number of times.  `NextPort` is the port UDPv6 does not record.

Only model-checked is liveness (`DestroyReturns`, `AbortWakes`, `LeaveReturns`,
`SourcesReleased`), which is out of the prover's reach.

## Not modelled, and the plan

Next, in this order:

1. `RTPSession`: calls nested in data access (`SetSessionBandwidth` there waits
   for a mutex whose holder waits for the application), and a second `Create`,
   which after a kill would meet the mutexes left locked.
2. `RTPPacketBuilder`: sequence numbers, timestamps, counts and the default
   parameters; the collision list's times.
3. The source table's iteration over the hash table, with time-outs that delete
   the current entry.
4. Error returns that leave a mutex locked (`rtptcptransmitter.cpp:265`); sizes
   that are set while packets are built.

Left out for good: parsing and formatting of bytes beyond their lengths, name
resolution, memory allocation, encryption, random numbers, debugging output, and
the tests, examples and tools.
