# A verification of swxtch-perf-rio

TLA+ models, TLC runs and TLAPS proofs for `swxtch-perf-rio`, the Windows
program that sends or receives multicast UDP packets with Registered I/O (RIO)
and counts what it lost. Source paths are relative to `src/swxtch-perf-rio/`.

## The system

| Part | State it keeps | Operations | Interacts with | Right if |
|---|---|---|---|---|
| Entry point (`swxtch-perf-rio.cpp`) | `g_Exit` | `main`, `HandlerRoutine` | constructs one producer or one consumer; Ctrl-C sets the flag from a thread of its own | the run that was asked for is started, and a stop is noticed |
| Options and ranges (`args.cpp`, `Range.hpp`, `NetworkUtils.hpp`, `Utilities.hpp`) | `args_t` | `ParseArguments`, `Check`, `MakeIpv4Range`, `LocateAdapterWithIfName` | gives the session its constants | exactly the groups that were asked for, and a session only for valid ones |
| RIO session (`RioSession`) | socket, request queue, completion queue, completion port, two registered buffers, `m_TotalPkts`, `m_Timing`, `m_GroupStats` | `AllocateBufferSpace`, `NotifyCompletionQueue`, `ShouldStop`, `JoinThread`, `CleanUpRIO` | base class of the two below; two threads read its counters and write its time points | every descriptor has its memory; a notification is armed only once; memory outlives the socket; the run ends, and not before its time |
| Receive loop (`RioConsumer::Start`) | `shouldNotify`, `mcAddrDescrIndex`, two packet counters | post, wait (100 ms), dequeue, process, post again | RIO completes receives at any moment | no receive lost or aliased, no lost wake-up, every packet counted for its own group |
| Group statistics (`McGroupStats_t`, `GroupStatsUpdate`) | five counters and a byte count per group | one update per packet | written by the main thread, read by the report thread | the drop counter tells the truth whatever the network does |
| Report thread (`RioConsumer::ReportWorker`) | previous totals | a row every four seconds | iterates over `m_GroupStats`, stops by `ShouldStop`, is joined | without duplicates a row shows no more than was sent, and no column of a period is out of range |
| Send loop (`RioProducer::Start`) | `sequenceNumber`, `groupCounter`, packets in shared memory | fill, send, wait (no timeout), renumber, send again | the adapter reads packets at any moment until they complete | never refused, never asleep for ever, every group gets every number |
| Spin tuner (`RioProducer::SpinWorker`) | `m_SpinDuration`, previous counts | adjusts the pause ten times a second | reads `m_TotalPkts` while the send loop counts | the pause grows only when too much was sent |
| String utilities (`StringUtils.cpp`) | none | `split`, `FormatValueToSI`, unused C-string helpers | range parsing, report row | pure functions |

Everything hard is in the interleaving: RIO completes requests, the adapter reads
memory, the user presses Ctrl-C and the second thread looks at the clock between
any two steps of the loops. Three pieces of bookkeeping have to survive that: the
one-shot notification, the pairing of address slots with data buffers that RIO
does not report, and the group statistics, which remember no packet. `hazards` in
`PROJECT.json` lists each such place with the property that guards it.

## The modules

| Module | Models | Extends |
|---|---|---|
| `RegisteredIO` | external: one request queue, one completion queue, `RIONotify`, the completion port | |
| `McGroupStats` | `McGroupStats_t` and both `GroupStatsUpdate` | |
| `RioSession` | what the producer and the consumer inherit: stop conditions, statistics map, notification, join, clean-up, Ctrl-C, the clock | the two above |
| `RioConsumer` | `RioConsumer::Start`, the network that completes receives | `RioSession` |
| `RioProducer` | `RioProducer::Start`, the adapter that reads packets and completes sends | `RioSession` |
| `SequenceTracking` | one group's statistics against a network that loses, duplicates and reorders, and a sender that restarts | `McGroupStats` |
| `Timing` | the time limit: `ShouldStop` of two threads, step by step, on the two time points of `m_Timing` | |
| `ConsumerReport` | `ReportWorker` and `GetMcTotals`, load by load, against `GroupStatsUpdate`, store by store | `McGroupStats` |
| `SpinWorker` | the tuner of the producer against a main thread that sends | |
| `AddressRange` | `Ipv4Addr_t`, `Range`, `MakeIpv4Range` | |
| `BufferSpace` | the sizes that `AllocateBufferSpace` computes | |
| `Options` | from the command line to a session that is constructed | the two above |
| `PacketSink` | abstract: what the consumer does with datagrams; `RioConsumer` implements it | |
| `MC...` | constants for TLC | the module they are named for |
| `SharedLemmas` | no code: lemmas on induction, sums, remainders, cutting a queue and one update of the statistics, for the proofs | `McGroupStats` |
| `...Proofs` | theorems | the module they are named for, most of them also `SharedLemmas` |

**Composition.** `RioConsumer` and `RioProducer` are complete systems: both
threads, RIO, the network or the adapter, the user and the clock. Four parts are
taken out of them and looked at more closely than a whole system allows, each with
the state it shares with the rest: what the statistics mean (`SequenceTracking`),
the time points (`Timing`; there the packet limit and Ctrl-C are one flag), the
report (`ConsumerReport`; there any turn may find its period over) and the tuner
(`SpinWorker`). In `RioConsumer` and `RioProducer` these are one atomic update, the
flag `timeUp`, and a second thread of which only the end matters.

**How state corresponds to code.** Variables have the names of the code's
variables (`shouldNotify`, `mcAddrDescrIndex`, `sequenceNumber`, `m_TotalPkts` as
`totalPkts`, ...). `pc` is where the main thread is; each of its actions runs
from one place where another actor can interfere to the next: a call of RIO, the
wait, one evaluation of `ShouldStop`, one result of a batch. `results` is the rest of the array that
`RIODequeueCompletion` filled. `payload` and `mcAddr` are the two registered
buffers, with one cell per packet or address slot; `payload` keeps the sequence
number of a packet, which is all the program reads of it. Some variables are
history that no code has: `arrived` and `wire` (what the network delivered and
the adapter sent, in order), `received`, `first` and `exact` (what the statistics
are compared with), `sent` and `sentBefore` (what the tuner cannot count exactly). `map` in `PROJECT.json` gives the lines of every definition.

An operator whose name says what it gets wrong (`EndBatchKeepsFlag`,
`AheadCountsFirst`, ...) and that stands right above the one it resembles is a
plausible mistake in that place. No specification uses it; put in place of its
neighbour, it makes one of the properties fail.

**What is assumed of RIO** (its behaviour is not in the repository): requests of
a socket complete in order; a request occupies its place in the request queue
until its completion is dequeued; `RIONotify` arms one notification, which fires
with the next completion or at once if there already is one, and fails with
`WSAEALREADY` if one is armed; registered memory starts zeroed. A datagram
without a posted receive is lost. The adapter may read a packet at any moment
between send and completion, in the order of the sends.

**Left out.** `Bytes`, a constant multiple of `Packets`; timestamps; the pauses
of `utilities::spin`; printing. Failures of system calls other than the ones that
the program's own use of RIO can cause (a full request queue, a second
`RIONotify`, an empty dequeue in the producer) end the process at once through
`ErrorExit` and are not modelled; neither is `RIO_CORRUPT_CQ`, which needs a
second user of the queue.

**Undefined behaviour.** Two places of the code read what another thread writes
without synchronisation. The time points of `m_Timing` are 64-bit words that the
program's compiler stores and loads whole: `Timing` gives a load any value that was
stored. `std::map` is not made for a reader and a writer: when a stray
destination is inserted while `GetMcTotals` iterates, `ConsumerReport` lets the
iterator go on anywhere in the map or at its end. The comment on `GetMcTotals`
speaks of the totals "for that instant" (`RioConsumer.cpp:242`); the model shows
that there is no such instant, and states what a row does mean.

**A notable detail of the clock.** `getElapsedTimeSec` subtracts two time points
and converts the result to unsigned. If the report thread reads the clock, the
main thread then starts the clock again, and the report thread compares, the time
is negative. Truncation towards zero makes that 0 for anything less than a
second; a whole negative second would end the run at once. So the limit is safe
exactly as long as the reading and the stored time are less than a second old
together, which is `TimingAssumption`: a thread is not held up for half a second
inside `ShouldStop`. The bound is tight: with seconds of two ticks and stalls of
one, TLC finds `RunsAtLeast` violated. `getElapsedTimeMs`, used once for the
result, has no such margin, but is only called when the loop is left; after Ctrl-C
it may print the difference to a start that is younger than the last stop. A
negative `--seconds` is compared as a huge unsigned number and never ends a run.

## The runs

| Run | Instance | Shows |
|---|---|---|
| `consumer` | 3 receives, batches of 2, 5 datagrams of 2 destinations (one of them nobody configured) and of both sizes, limits of 3 packets and of time; 330 000 states | receives are conserved and never aliased, no wake-up is lost, at most two notifications, the counters agree, the limit is passed by less than a batch, memory outlives the socket; the loop implements `PacketSink`, with progress; a reason to stop stays one, and a run that has one ends with a join and a release unless it crashes as in `stale_notify` |
| `tracking` | 6 sequence numbers, 6 deliveries; 650 000 states | meaning of drops, order and last sequence |
| `producer` | 2 packets, 1 to 3 groups, limits of 10 packets and of time; 550 000 states | sends are conserved, the wait without a timeout is always answered, numbers on the wire, statistics, order of groups, the run ends |
| `options` | 16 addresses of two octets, 20 forms of the end, limits of port, rate and interface from both sides, buffers up to 31 bytes in units of 8; 740 000 states | ranges are expanded exactly, a wrong order never starts a session, a session that starts has its memory, the expansion ends |
| `timing` | seconds of 3 ticks, a limit of 2 seconds, stalls of 1 tick; 1.1 million states | the time limit never ends a loop early; when it ended both loops, the elapsed time printed is not below it |
| `report` | 2 groups, a stray destination with a key between theirs, 3 sequence numbers, 4 deliveries; 2.7 million states | without duplicates a row shows no more than was sent; no column of a period is below zero or above its total, until a stray destination is inserted |
| `tuner` | 4 packets expected, deviations of 2 left alone, a counter that wraps around at 16, up to 12 packets between two corrections; 780 000 states | the pause grows only when too much was sent; a producer that lags loses its pause |
| `stale_notify`, `other_size`, `index_wrap`, `rotation`, `range_order` | as small as the trace allows | the findings below |

**Bounds.** Three receives with batches of two let a batch be full, partial or
leave completions behind, and let the slot index go round with results still
queued. Five datagrams are enough for a timeout, a stale notification and a
second batch after it, and for two rounds of the slots. Three groups are the
fewest for which a batch can be larger than one, not a multiple of the number
of groups and less than two rounds. Six
deliveries open a gap, close it and hit it with a duplicate; in `report`, four
are a gap and its late packet in one group while another group counts. Nine ticks
of the clock are a start, a second start and the whole limit after it. Wrap-arounds are
parameters: `IndexMod`, `TotalMod` and `SeqMod` stand for 2^32, 2^32 and 2^64, `DwordMod`,
`PortMod` and `NicMod` for 2^32, 2^16 and 2^8;
`index_wrap`, `tuner` and `options` make theirs small enough to be reached, and in
`consumer` the packet counter has room for the limit and one batch and no more, the
narrowest one for which `LimitOvershoot` and `StopIsFinal` hold.
`MaxArrivals`, `MaxSeq`, `MaxDeliveries`, `MaxClock`, `MaxStall`, `MaxSent` and
`MaxSpin` bound the environment and nothing of the program; the
number of sends is bounded by the program's own limit, `PktsToCount`. In
`SpinWorker` no packets are sent with a pause longer than `MaxSpin`, which keeps
the pause finite: one step above it is still taken.
Deadlock is not checked: the program is meant to stop, and with a bounded
number of datagrams the consumer may wait for ever for the next one.

**Fairness.** Weak fairness of the main thread and of the second thread: the
operating system schedules both, and no step of either keeps another from being enabled for
ever. The producer needs the same of the adapter, because a send that RIO took
completes; the consumer assumes nothing of the network. The clock and the user
owe nothing, and neither does the main thread to the tuner. `Options` is sequential
and needs only that it runs.

**The refinement.** `PacketSink` takes datagrams and counts or ignores each once,
while it runs; the k-th one counted is credited to the destination of the k-th one
taken. `RioConsumer` maps `taken` to what RIO delivered, `counted` and `ignored` to
the two local counters and `packets` to the statistics, so receives, slots,
notifications and batches disappear. `ImplementsSink` therefore contains the law
of attribution for every interleaving, and a counted zeroed or repeated slot would
break it. `ImplementsFairSink` adds progress. TLC cannot
evaluate `ENABLED` through the mapping, so `PacketSink` writes its weak fairness
with the condition that enables the step, `Pending`. The abstract sink already
allows what `other_size` finds; that the destination is the datagram's own is
`AttributionExact`, which fails.

### What the runs found

1. `stale_notify`: a timeout of the wait and a late notification together make
   the consumer arm a notification twice, and the process exits. The comment at
   `RioConsumer.cpp:121` promises to loop around.
2. `other_size`: datagrams that are not 100 bytes long are not ignored, as
   `README.md:74` says. Each one leaves the pairing of address slots one place
   behind for good, so later packets are counted for the wrong group, and
   costs a receive. `PacketSink` states the exact law.
3. `index_wrap`: the number of receives does not divide the range of the slot
   index, so the pairing jumps after 2^32 packets.
4. `rotation`: the producer takes the group from the position in the batch and
   the number from a counter that runs across batches. Groups do not all get
   the same packets, and small batches starve the later groups.
5. `range_order`: addresses are compared in network byte order, so a range that
   starts above its end is accepted and correct ones are refused.

What holds in spite of them is stated as weaker properties that do pass:
`ImplementsSink`, `EarlierGroupsNotBehind`, `WireSequence`,
`WrongOrderNeverStarts`, `LastOctetRanges`.

## The proofs

`tlapm` checks every theorem for all values of the constants, under the named
assumptions of the modules (`SeqModAssumption`, `SessionAssumption`,
`ConsumerAssumption`, `ProducerAssumption`, `TrackingAssumption`,
`TimingAssumption`, `TunerAssumption`, `AddressAssumption`, `BufferAssumption`,
`OptionsAssumption`); TLC evaluates these on every run.

*SequenceTracking* (all six properties of the run). None of the properties is
inductive: `RxDropped <= Cardinality(Missing)` needs to know that the packets
received lie below the expected one, and the exact count needs that the number
of received packets is `Packets` while no duplicate came. `TrackingInv` says so,
and each kind of delivery (in sequence, ahead, behind) is one step that follows
what happens to the set `Missing`: a gap adds an interval, a late packet removes
one element.

*RioConsumer* (all nine safety properties of its run, and `ImplementsSink`), in layers. `CoreInv` is the type
invariant with `ReceiveInv`: the places of the request queue, the batch in hand
and the results of another size add up to the receives posted. That is what
makes the queue never full. On top of it stand `WakeInv` (a loop that will not ask
for a notification has one, or a completion that one on the port stands for) with
`NotificationInv`; `LimitInv` (the limit was not reached when the batch in hand
was taken) with `Unwrapped` (the counter is the number of packets processed, where it has
room for the limit and a batch); `ReleaseInv` (the order of the clean-up); and `TotalsInv` (the sum of
the groups' packets is the local counter, because an update changes one summand by
one and a destination nobody configured adds a summand of none). Each is proved
inductive with the ones before it, one step per action.

*The refinement and the memory of the receives.* Three more layers. `CountInv` says
where every datagram is, and that the slot index is `packetCounter` modulo its
range. `SlotInv` places the slots on a ring: the receives that wait have the next
ones, and the slots behind them hold the destinations of the datagrams not counted
yet. It is inductive because fewer than `N` numbers in a row have different
remainders, so a datagram never overwrites a destination still to be read. `BufInv`
numbers the data buffers in flight, from the results in hand to the receives that
wait, and says they all differ: a datagram and a dequeue leave that sequence alone,
a counted result moves its head to the end, another one drops it. From these follow
`SinkRefinement` (`Spec => ImplementsSink`: counting is `Count`, leaving the loop is
`Stop`, a loop that is left is not entered again) and `ReceivesNotAliased`
(`Spec => []NoAliasedReceives`). `SlotInv` and what follows from it assume `SlotsInStep`: the index does not wrap
around in the run, or its range is a multiple of `N`. The code needs the first
disjunct, because 1500000 does not divide 2^32, and `index_wrap` is what happens
without it. Two theorems say what is true beside the
findings `other_size` and `index_wrap`: `AttributionInOrder` (with the index in step
`AttributionLag` holds, although the run without it is a violation) and, by induction over
the steps of the sink, `StatisticsOfOwn` (the counter of a destination is the number
of its datagrams among the first `packetCounter` taken, which are all those processed
until one of another size is).

*RioProducer* (all eight safety properties of its run), in the same layers: `SendInv` (all
descriptors are outstanding or in hand), `WakeInv` (only the waiting thread has a
notification, and it has one for certain), `LimitInv`, `RotationInv` (the two
counters write the number of packets in base `numGroups`) and `OrderInv`. The last
one is about a round over the groups that has come to some slot: the groups
before it are one packet ahead of those from it on, which is what
`EarlierGroupsNotBehind` needs to be inductive. `AccountInv` compares the counter of
a group with two sets of places, those on the wire and those in the request queue;
a packet that is read moves one place from the second to the first.
`WireSequence` needs three more layers: `RoundInv` (the two counters also write,
in base `numGroups`, the number of sends requested, which are those on the wire and those
not read yet), `DescInv` (from the results in hand to the requests that wait, the
descriptors go round their ring, each the one after the other) and `PayloadInv` (a
packet holds the number of the last of its rounds that has begun). A
packet's next round begins with the completion of its first send, so only the later
sends of the packet can still be unread then and go out with the number of that round.

*ConsumerReport* (all three properties). `PacketInv`: the update in hand is one
packet more for a group of the map. `TrackInv`: once it is stored, the
counters of a group are the set of packets that came, with what lies between
them as drops, and at no moment between two stores does the group claim more than was
sent to it. `RowInv`: what the report thread has loaded is at most what its part of
the map counts now, and together with the part still to load at least the row before.
`ClaimInv`: a group whose drops are in the row adds at most what was sent to it, one of
which only the packets are in it at most its packets of now; this is where the order of the
loads, packets before drops, is needed. Rows are sums over the groups, and
every store and load changes one summand.

*Timing* (both properties). `Recent` bounds the age of a reading that is still
used and of what a thread loads, whoever stored it; `ReadAfterStart` says that the
main thread never reads the clock before the start it made; `Left` remembers what
a thread saw that has left; `LastStore` says whose store is the last one. The
assumption `2 * MaxStall < Second` is needed where a time below zero has to be
less than a whole second.

*SpinWorker* (`TypeOK`, `SlowedOnlyWhenFast`). `DeltaBound`: the counters never
claim more packets than were sent, because a wrap and the second load only make the difference
smaller.

*Options* (all four safety properties). The lemmas on `ActualSize` say that an
allocation that is not refused has room for every message, also after the product
was cut to 32 bits; `Inv` collects what each step of `main` has made sure of.
`RangeInv` is about the expansion: the iterator is `Len(ip_vec)` steps from the first
address and no further than `Span`, the number of steps to the end; as
`Span` is less than the size of the address space, the iterator meets the end there and
not before. A range written the wrong way round therefore has the last address of
all among its elements, if it has any, and that is no multicast address. For
`LastOctetRanges` the lemmas on octets say that an address and its text determine
each other (`TextOfText`, `AddressOfAddress`), and that texts which agree in all octets but the
first, or but the last, are ordered by that one; the last octet is the first one in
network byte order.

*Induction.* The prover cannot be given a predicate, so the library's induction theorems are of
no use. `SharedLemmas` states induction for sets instead: `NatSet` and
`SmallerFirst` take the least number, or the smallest set, outside the set of those that
have the property (`WFMin`, from the theorems on well-founded relations). From these follow that a sum over
a finite set exists, is unique and does not depend on the order (`SumExists`, `SumTakeOut`,
`SumChange`), and that a function defined by recursion exists (`RecursionExists`).

*How a run ends* (`RioConsumer`, `RioProducer`). The liveness properties themselves are
out of the prover's reach, but what they need besides fairness is not, and is proved.
`JoinInv` and `EndInv` say that the second thread exists from the start of the loop on
and that a thread which is waited for has left its loop or sees the reason to. So no
thread waits for what will not come: `JoinIsAnswered` for the consumer, and
`WaitsAreAnswered` for the producer, whose wait has no timeout and relies on a send that
the adapter can still complete because the socket is open. `StepsRunOut` is a measure:
while there is a reason to stop, every step of the main thread makes `StepsLeft` smaller
and no step of anybody else makes it larger; `StepsBounded` bounds it by a batch, or the
first requests still to post, and the steps around them. `StopIsFinal` says that the
reason stays. It is not a matter of course: the consumer starts its clock again with the
first results, and the packet counter, which the limit is compared with, has 32 bits.
`StopStays` and the consumer's `OvershootBound` therefore assume `CounterInRange`, the
producer's `StopStays` assumes `LimitInRange`: limit and one batch fit into the counter (or, without a limit, the consumer
gets fewer datagrams than the counter holds). The code takes `--total_pkts` as an
`int` (`args.cpp:60-69`, `:106`), so every limit that is not negative fits; with a smaller
counter, TLC finds `StopIsFinal` violated, because a batch can carry the counter past
the limit and round to zero. `NoReadAfterRelease` is the producer's side of
`NoWriteAfterRelease`.

The same for the other two components: `ShortenedWhileLagging` is the step that
`LaggingGetsFast` is made of, and `StepsRunOut` of `OptionsProofs` the measure behind
`StartsOrEnds`; it counts what is left of the range, at most the whole address space.

*Only model-checked*: liveness, which the prover cannot state without `ENABLED`:
`StopEndsRun`, `LaggingGetsFast`, `StartsOrEnds`, and the progress part of
`ImplementsFairSink`. That the measures above reach their end because the threads are
scheduled is what TLC adds to them. Every safety property that a passing run checks is
proved.

## Plan

What could still be added, the most important first.

1. End to end: `RioProducer`, a lossy network and `RioConsumer` in one
   specification; what the rotation of groups shows up as in the consumer's drops.
   Today the two are joined by what they say of the wire: `WireSequence` is what
   the producer sends, and `tracking` takes any sequence of numbers.
2. The wrap of the packet counter of a consumer without a packet limit: a counter that is zero
   again starts the clock again (`RioConsumer.cpp:125`), after 2^32 packets.

## Not modelled

- Socket set-up, the RIO function table, WSA start-up, the joining of multicast
  groups: system calls that succeed or end the process before anything runs.
- Console output: `GroupStatsPrint`, `PrintTimings`, the rates of a report row and
  the throughput of the producer. They are printed and never read again.
- `StringUtils`: `split` and `FormatValueToSI` are pure and have one caller each;
  the other helpers (`strncpy_s`, `trim`, ...) have none in the program.
- How the network adapters are listed, and what the interface found is like: that an
  index above 255 is narrowed to another one is in `Options`, but nothing in the
  repository says which interface it should be, and no property is about it.
- Numbers or addresses that are not well formed, which end the process in the
  argument parser.
- Build and version files.
