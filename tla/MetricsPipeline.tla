-------------------------- MODULE MetricsPipeline ---------------------------
(***************************************************************************)
(* From the kernel's counters to the dashboard: the ring buffer reader     *)
(* (internal/ebpf/maps.go), the collector that polls the counters every    *)
(* second and attaches the drop events seen meanwhile (metrics/            *)
(* collector.go), the aggregator with its totals, rate windows and counts  *)
(* by source (aggregator.go), and the ticker of cmd/gateway/main.go that   *)
(* hands the latest aggregate to the broadcaster.                          *)
(*                                                                         *)
(* They are goroutines joined by channels; those on which the code never   *)
(* waits drop what does not fit.  The kernel's side is module KernelView,  *)
(* which XdpFirewall implements: a drop is counted, then reported.         *)
(* A snapshot carries the two deltas and the sources of its drop events;   *)
(* port and protocol statistics, which no attached program fills, and the  *)
(* stop of the goroutines through done are left out.                       *)
(***************************************************************************)
EXTENDS Integers, Sequences, FiniteSets, SequencesExt, CircularBuffer

CONSTANTS
    Sources,        \* addresses of dropped packets, as sequences of octets
    Nobody,         \* no address
    RingSize,       \* records the ring buffer holds
    EventChSize,    \* capacity of eventCh (1024 in the code)
    KeepEvents,     \* drop events kept between two polls (100)
    InputSize,      \* capacity of the aggregator's input (64)
    WindowSize,     \* entries of a rate window (60, 300 and 900)
    MaxPackets      \* bound on the packets the kernel sees

ASSUME SourcesAssumption ==
    IsFiniteSet(Sources) /\ Sources \subseteq Seq(0..255) /\ Nobody \notin Sources
ASSUME SizesAssumption ==
    /\ {RingSize, EventChSize, KeepEvents, InputSize, MaxPackets} \subseteq Nat
    /\ WindowSize \in Nat \ {0}

VARIABLES
    passed,         \* packet_counters[0], summed over the CPUs
    dropped,        \* packet_counters[1], summed over the CPUs
    emitting,       \* source -> drops counted, their events to be submitted
    ring,           \* the ring buffer, as the sources of its records
    droppedBy,      \* history: source -> packets dropped from it
    reading,        \* the record the reader has decoded
    eventCh,        \* the channel from the reader to the collector
    dropEvents,     \* Collector.latest.DropEvents, by the names of the sources
    poll,           \* where Collector.poll is, and what it has read
    prev,           \* prevPassed and prevDropped
    subscribed,     \* the aggregator is among the listeners
    input,          \* the aggregator's input channel
    total,          \* totalPassed and totalDropped
    window,         \* the circular buffer of the last snapshots
    blockedIPMap,   \* name -> count, 0 for a name that is not in the map
    shown,          \* the totals last handed to the broadcaster
    lost,           \* history: counts of snapshots that no listener took
    lostEvents,     \* history: name -> events that went missing on the way
    recent          \* history: the last snapshots pushed into the window

kernelVars     == <<passed, dropped, emitting, droppedBy>>
eventVars      == <<ring, reading, eventCh>>
pollVars       == <<poll, prev, subscribed, lost>>
aggregatorVars == <<total, window, blockedIPMap, recent>>
vars == <<kernelVars, eventVars, dropEvents, pollVars, input, aggregatorVars,
          shown, lostEvents>>

-----------------------------------------------------------------------------
(* Names and counts. *)

\* The reader decodes src_ip, four octets in network order, as a little-endian
\* number, and ipToString writes that number from its highest octet down.
ipToString(src) == Reverse(src)

Names == {ipToString(a) : a \in Sources}

Occurrences(e, s) == Cardinality({i \in DOMAIN s : s[i] = e})

Zero == [passed |-> 0, dropped |-> 0]

View == INSTANCE KernelView

Init ==
    /\ View!Init
    /\ droppedBy = [a \in Sources |-> 0]
    /\ reading = Nobody
    /\ eventCh = <<>>
    /\ dropEvents = <<>>
    /\ poll = [pc |-> "wait", passed |-> 0, dropped |-> 0, events |-> <<>>]
    /\ prev = Zero
    /\ subscribed = FALSE
    /\ input = <<>>
    /\ total = Zero
    /\ window = newCircularBuffer(WindowSize, Zero)
    /\ blockedIPMap = [n \in Names |-> 0]
    /\ shown = Zero
    /\ lost = Zero
    /\ lostEvents = [n \in Names |-> 0]
    /\ recent = <<>>

-----------------------------------------------------------------------------
(* The kernel. *)

PassPacket ==
    /\ passed + dropped < MaxPackets
    /\ View!Pass
    /\ UNCHANGED <<droppedBy, reading, eventCh, dropEvents, pollVars, input,
                   aggregatorVars, shown, lostEvents>>

DropPacket(a) ==
    /\ passed + dropped < MaxPackets
    /\ View!Drop(a)
    /\ droppedBy' = [droppedBy EXCEPT ![a] = @ + 1]
    /\ UNCHANGED <<reading, eventCh, dropEvents, pollVars, input,
                   aggregatorVars, shown, lostEvents>>

Lose(events) ==
    lostEvents' = [n \in Names |-> lostEvents[n] + Occurrences(n, events)]

EmitEvent(a) ==
    /\ View!Emit(a)
    /\ \/ View!RingHasRoom /\ UNCHANGED lostEvents
       \/ ~ View!RingHasRoom /\ Lose(<<ipToString(a)>>)
    /\ UNCHANGED <<droppedBy, reading, eventCh, dropEvents, pollVars, input,
                   aggregatorVars, shown>>

-----------------------------------------------------------------------------
(* The reader goroutine of StartEventReader, and consumeEvents. *)

ReadRecord ==
    /\ reading = Nobody
    /\ View!Take
    /\ reading' = Head(ring)
    /\ UNCHANGED <<droppedBy, eventCh, dropEvents, pollVars, input,
                   aggregatorVars, shown, lostEvents>>

\* events <- event: the reader waits while the channel is full.
SendEvent ==
    /\ reading # Nobody
    /\ Len(eventCh) < EventChSize
    /\ eventCh' = Append(eventCh, reading)
    /\ reading' = Nobody
    /\ UNCHANGED <<kernelVars, ring, dropEvents, pollVars, input,
                   aggregatorVars, shown, lostEvents>>

\* Beyond KeepEvents the oldest events are cut off.
consumeEvent ==
    /\ eventCh # <<>>
    /\ LET events == Append(dropEvents, ipToString(Head(eventCh)))
       IN  /\ dropEvents' = LastOf(events, KeepEvents)
           /\ Lose(SubSeq(events, 1, Len(events) - Len(dropEvents')))
    /\ eventCh' = Tail(eventCh)
    /\ UNCHANGED <<kernelVars, ring, reading, pollVars, input, aggregatorVars,
                   shown>>

-----------------------------------------------------------------------------
(* Collector.poll. *)

CollectorOnly == UNCHANGED <<kernelVars, eventVars, aggregatorVars, shown>>

\* The first of two lookups.  Each adds up counters that only grow, one CPU
\* after the other, and so returns what the sum was at some moment.
ReadPassed ==
    /\ poll.pc = "wait"
    /\ poll' = [poll EXCEPT !.pc = "dropped", !.passed = passed]
    /\ UNCHANGED <<dropEvents, prev, subscribed, lost, input, lostEvents>>
    /\ CollectorOnly

\* Faulty variant: prevPassed is not brought up to date.
ReadDropped_StalePrev ==
    /\ poll.pc = "dropped"
    /\ poll' = [poll EXCEPT !.pc = "events", !.passed = @ - prev.passed,
                            !.dropped = dropped - prev.dropped]
    /\ prev' = [prev EXCEPT !.dropped = dropped]
    /\ UNCHANGED <<dropEvents, subscribed, lost, input, lostEvents>>
    /\ CollectorOnly

\* The second one, and the deltas to what the poll before read.
ReadDropped ==
    /\ poll.pc = "dropped"
    /\ poll' = [poll EXCEPT !.pc = "events", !.passed = @ - prev.passed,
                            !.dropped = dropped - prev.dropped]
    /\ prev' = [passed |-> poll.passed, dropped |-> dropped]
    /\ UNCHANGED <<dropEvents, subscribed, lost, input, lostEvents>>
    /\ CollectorOnly

\* GetPacketCounters returns an error: this second is skipped.
PollFails ==
    /\ poll.pc \in {"wait", "dropped"}
    /\ poll' = [poll EXCEPT !.pc = "wait", !.passed = 0]
    /\ UNCHANGED <<dropEvents, prev, subscribed, lost, input, lostEvents>>
    /\ CollectorOnly

\* Faulty variant: the events taken stay in the list.
NoEvents_Kept == dropEvents

\* c.latest.DropEvents = nil
NoEvents == <<>>

\* Under the lock, the events seen since the last poll move to the snapshot.
TakeEvents ==
    /\ poll.pc = "events"
    /\ poll' = [poll EXCEPT !.pc = "send", !.events = dropEvents]
    /\ dropEvents' = NoEvents
    /\ UNCHANGED <<prev, subscribed, lost, input, lostEvents>>
    /\ CollectorOnly

Counts(snap) == [passed |-> snap.passed, dropped |-> snap.dropped]

AddCounts(x, y) ==
    [passed |-> x.passed + y.passed, dropped |-> x.dropped + y.dropped]

InputHasRoom == Len(input) < InputSize

\* A send to each listener that does not wait for a full one.
SendSnapshot ==
    /\ poll.pc = "send"
    /\ \/ /\ subscribed /\ InputHasRoom
          /\ input' = Append(input, [passed |-> poll.passed,
                        dropped |-> poll.dropped, events |-> poll.events])
          /\ UNCHANGED <<lost, lostEvents>>
       \/ /\ ~ (subscribed /\ InputHasRoom)
          /\ lost' = AddCounts(lost, Counts(poll))
          /\ Lose(poll.events)
          /\ UNCHANGED input
    /\ poll' = [pc |-> "wait", passed |-> 0, dropped |-> 0, events |-> <<>>]
    /\ UNCHANGED <<dropEvents, prev, subscribed>>
    /\ CollectorOnly

\* main subscribes the aggregator after it started the collector.
Subscribe ==
    /\ ~ subscribed
    /\ subscribed' = TRUE
    /\ UNCHANGED <<dropEvents, poll, prev, lost, input, lostEvents>>
    /\ CollectorOnly

-----------------------------------------------------------------------------
(* The aggregator, and main's ticker. *)

CountSources(events) ==
    [n \in Names |-> blockedIPMap[n] + Occurrences(n, events)]

process ==
    /\ input # <<>>
    /\ LET snap == Head(input)
       IN  /\ total' = AddCounts(total, Counts(snap))
           /\ window' = Push(window, Counts(snap))
           /\ recent' = LastOf(Append(recent, Counts(snap)), WindowSize)
           /\ blockedIPMap' = CountSources(snap.events)
    /\ input' = Tail(input)
    /\ UNCHANGED <<kernelVars, eventVars, dropEvents, pollVars, shown,
                   lostEvents>>

\* Faulty variant: the ticker hands over the last deltas, not the totals.
HandToBroadcaster_Deltas ==
    /\ recent # <<>>
    /\ shown' = Last(recent)
    /\ UNCHANGED <<kernelVars, eventVars, dropEvents, pollVars, input,
                   aggregatorVars, lostEvents>>

\* A snapshot that the broadcaster has no room for is skipped: then the
\* ticker does nothing.
HandToBroadcaster ==
    /\ shown # total
    /\ shown' = total
    /\ UNCHANGED <<kernelVars, eventVars, dropEvents, pollVars, input,
                   aggregatorVars, lostEvents>>

Kernel == PassPacket \/ \E a \in Sources : DropPacket(a) \/ EmitEvent(a)

Next ==
    \/ Kernel
    \/ ReadRecord \/ SendEvent \/ consumeEvent
    \/ ReadPassed \/ ReadDropped \/ PollFails \/ TakeEvents \/ SendSnapshot
    \/ Subscribe \/ process \/ HandToBroadcaster

\* Goroutines are scheduled and tickers tick, an event is submitted at once,
\* and map lookups do not fail for ever.  Packets need not come.
Fairness ==
    /\ \A a \in Sources : WF_vars(EmitEvent(a))
    /\ WF_vars(ReadRecord) /\ WF_vars(SendEvent) /\ WF_vars(consumeEvent)
    /\ SF_vars(ReadPassed) /\ SF_vars(ReadDropped)
    /\ WF_vars(TakeEvents) /\ WF_vars(SendSnapshot) /\ WF_vars(Subscribe)
    /\ WF_vars(process) /\ WF_vars(HandToBroadcaster)

Spec == Init /\ [][Next]_vars /\ Fairness

-----------------------------------------------------------------------------
(* Properties. *)

CountRecord == [passed : Nat, dropped : Nat]

Snapshot == [passed : Nat, dropped : Nat, events : Seq(Names)]

\* The shape of the state; no delta is negative, which in the code's unsigned
\* arithmetic would be a rate of 2^64 packets per second.
TypeOK ==
    /\ passed \in Nat /\ dropped \in Nat
    /\ droppedBy \in [Sources -> Nat]
    /\ emitting \in [Sources -> Nat]
    /\ ring \in Seq(Sources) /\ Len(ring) <= RingSize
    /\ reading \in Sources \cup {Nobody}
    /\ eventCh \in Seq(Sources) /\ Len(eventCh) <= EventChSize
    /\ dropEvents \in Seq(Names) /\ Len(dropEvents) <= KeepEvents
    /\ poll \in [pc : {"wait", "dropped", "events", "send"},
                passed : Nat, dropped : Nat, events : Seq(Names)]
    /\ {prev, total, shown, lost} \subseteq CountRecord
    /\ subscribed \in BOOLEAN
    /\ input \in Seq(Snapshot) /\ Len(input) <= InputSize
    /\ window \in [data : [0..(WindowSize - 1) -> CountRecord],
                  head : 0..(WindowSize - 1), count : 0..WindowSize,
                  cap : {WindowSize}]
    /\ blockedIPMap \in [Names -> Nat]
    /\ lostEvents \in [Names -> Nat]

\* What the poll under way has read and not yet sent to the listeners.
InHand == IF poll.pc \in {"events", "send"} THEN Counts(poll) ELSE Zero

\* The deltas of some snapshots together.
Deltas(snaps) ==
    [passed  |-> SumFunction([i \in DOMAIN snaps |-> snaps[i].passed]),
     dropped |-> SumFunction([i \in DOMAIN snaps |-> snaps[i].dropped])]

\* Every packet the collector has read from the counters is in the totals, on
\* its way there, or in a snapshot that no listener took - once: neither the
\* deltas (lines 112-115) nor the channel repeat or forget one.
CountsConserved ==
    AddCounts(AddCounts(total, Deltas(input)), AddCounts(InHand, lost)) = prev

\* The totals there will be as the snapshots in the channel are processed.
feed == [i \in DOMAIN input |-> AddCounts(total, Deltas(SubSeq(input, 1, i)))]

Feed == INSTANCE TotalsFeed WITH
            counters <- [passed |-> passed, dropped |-> dropped],
            reading <- prev,
            inHand <- poll.pc \in {"events", "send"}

\* Deltas through a channel that may drop them, from polls that may fail half
\* way, amount to absolute readings (collector.go:95-138, aggregator.go:128-131,
\* main.go:70-81): every total the ticker hands over is one reading of both
\* counters, less what was lost before it, and later ones come later.
ImplementsTotalsFeed == Feed!Spec

\* Events of a source whose name the collector has written down.
EventsNamed(n) ==
    Occurrences(n, dropEvents) + Occurrences(n, poll.events)
        + SumFunction([i \in DOMAIN input |-> Occurrences(n, input[i].events)])

\* Every drop is blamed on its source at most once, and goes missing only
\* where the code lets go of events: a full ring buffer, the oldest of more
\* than KeepEvents, a snapshot that no listener took.  The collector's list,
\* filled by one goroutine and taken by another, loses and repeats none.
EventsConserved ==
    \A a \in Sources :
        LET n == ipToString(a)
        IN  droppedBy[a] =
                emitting[a] + Occurrences(a, ring)
                + (IF reading = a THEN 1 ELSE 0) + Occurrences(a, eventCh)
                + EventsNamed(n) + blockedIPMap[n] + lostEvents[n]

\* The rates are averages over the last WindowSize snapshots processed, and
\* no older ones: the array and its indices (aggregator.go:51-67) are a queue.
WindowIsRecent == Contents(window) = recent

\* When packets stop coming, the totals on the dashboard come to be what the
\* kernel counted, but for the snapshots that no listener took.
TotalsReachDashboard ==
    <>[](/\ shown.passed + lost.passed = passed
         /\ shown.dropped + lost.dropped = dropped)
=============================================================================
