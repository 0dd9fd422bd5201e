---------------------------- MODULE XdpFirewall ----------------------------
(***************************************************************************)
(* The XDP program of bpf/xdp_firewall.c running on several CPUs, the      *)
(* kernel maps it shares with them, and the control API that edits those   *)
(* maps from user space (internal/ratelimit, internal/ebpf/maps.go).       *)
(*                                                                         *)
(* One packet at a time runs on a CPU, but the CPUs run in parallel and    *)
(* only the packet counters are updated atomically: every other access to  *)
(* a map is a step of its own.  A rate limiter entry is a slot of an LRU   *)
(* hash; a looked up entry is a POINTER to the slot, which the kernel may  *)
(* evict and reuse for another source while the pointer is held.           *)
(*                                                                         *)
(* Addresses are sequences of octets in network order, which is how the    *)
(* packet carries them and how the C program uses them as keys.  The file  *)
(* in the repository ends inside the last nested if; a packet that no      *)
(* branch drops is counted and passed, as lines 139-142 do.                *)
(***************************************************************************)
EXTENDS Integers, Sequences, FiniteSets, SequencesExt

CONSTANTS
    CPUs,           \* the CPUs that receive packets
    Addrs,          \* IPv4 source addresses, as sequences of octets
    Slots,          \* elements of the LRU hash rate_limit_state
    NoSlot,         \* the NULL that a failed lookup returns
    BlocklistMax,   \* max_entries of blocklist_map
    RingSize,       \* records that fit into the ring buffer drop_events
    Thresholds,     \* thresholds a client of the control API may set
    Windows,        \* window lengths a client may set, in clock units
    Wrap,           \* 2^64: the modulus of the program's u64 arithmetic
    LittleEndian,   \* the byte order of the host
    MaxTime,        \* bound on the clock
    MaxPackets      \* bound on the number of packets received

ASSUME CPUsAssumption == IsFiniteSet(CPUs)
ASSUME AddrsAssumption ==
    /\ Addrs # {}
    /\ \A a \in Addrs : Reverse(a) \in Addrs /\ Reverse(Reverse(a)) = a
ASSUME SlotsAssumption == Slots # {} /\ NoSlot \notin Slots
ASSUME LimitsAssumption ==
    /\ Thresholds \subseteq Nat
    /\ Windows \subseteq Nat
    /\ {BlocklistMax, RingSize, MaxTime, MaxPackets} \subseteq Nat
    /\ Wrap \in Nat
    /\ \A w \in Windows : Wrap > MaxTime + w
ASSUME EndianAssumption == LittleEndian \in BOOLEAN

VARIABLES
    blocklist,        \* blocklist_map: the set of its keys
    rate_limit_config,\* [threshold, window_ms]
    rate_limit_state, \* slot -> [ip, live, window_start, count]
    packet_counters,  \* CPU -> [passed, dropped]
    drop_events,      \* the ring buffer, oldest record first
    delivered,        \* records read from the ring so far
    clock,            \* bpf_ktime_get_ns
    cpu,              \* CPU -> the packet it is processing
    acked,            \* history: addresses whose block was acknowledged last
    watch,            \* history: what was true ever since the packet arrived
    counted,          \* history: slot -> packets of its source counted in its
                      \* current window
    torn,             \* history: slots whose count is not one of that window
    charge            \* history: CPU -> what its packet was counted on

kernelVars == <<blocklist, rate_limit_config, rate_limit_state>>
countVars  == <<packet_counters, drop_events, delivered>>
ghostVars  == <<counted, torn, charge>>
vars == <<kernelVars, countVars, clock, cpu, acked, watch, ghostVars>>

-----------------------------------------------------------------------------
(* Addresses and keys. *)

\* ipToUint32 reads the four octets as a big-endian number and the map stores
\* that number in host byte order, so on a little-endian host the key has the
\* octets of the address the other way round.
Key(ip) == IF LittleEndian THEN Reverse(ip) ELSE ip

\* Faulty variant: the key is printed as if it were in network order.
ListedIP_NetworkOrder(key) == key

\* uint32ToIP, its inverse, names the key in GET /api/blocked.
ListedIP(key) == IF LittleEndian THEN Reverse(key) ELSE key

-----------------------------------------------------------------------------
(* Packets in flight. *)

Steps == {"idle", "blocklist", "config", "clock", "lookup", "insert",
          "window", "elapsed", "restart", "reset", "load", "store",
          "compare", "drop", "emit", "pass"}

\* The steps at which the program holds a pointer to a rate limiter entry.
PointerSteps == {"window", "elapsed", "restart", "reset", "load", "store"}

Idle == [pc |-> "idle", src |-> <<>>, reason |-> 0, now |-> 0,
         slot |-> NoSlot, window |-> 0, count |-> 0, limit |-> 0]

NoWatch == [acked |-> FALSE, listed |-> FALSE, unlisted |-> FALSE,
            off |-> FALSE]

NoCharge == [stale |-> FALSE, counted |-> 0]

Packets == {c \in CPUs : cpu[c].pc # "idle"}

At(c, step) == cpu[c].pc = step

\* CPU c goes on to a step of the same packet.
Goto(c, step) == cpu' = [cpu EXCEPT ![c].pc = step]

\* The history watch after a step that may edit the maps: for every packet in
\* flight, what has been true of its source in every state since its arrival.
Observe ==
    watch' = [c \in CPUs |->
        IF cpu[c].pc = "idle" THEN watch[c]
        ELSE [acked    |-> watch[c].acked /\ cpu[c].src \in acked',
              listed   |-> watch[c].listed /\ cpu[c].src \in blocklist',
              unlisted |-> watch[c].unlisted /\ cpu[c].src \notin blocklist',
              off      |-> watch[c].off /\ rate_limit_config'.threshold = 0]]

Init ==
    /\ blocklist = {}
    /\ rate_limit_config = [threshold |-> 0, window_ms |-> 0]
    /\ rate_limit_state = [s \in Slots |->
            [ip |-> CHOOSE a \in Addrs : TRUE, live |-> FALSE,
             window_start |-> 0, count |-> 0]]
    /\ packet_counters = [c \in CPUs |-> [i \in 0..1 |-> 0]]
    /\ drop_events = <<>>
    /\ delivered = 0
    /\ clock = 0
    /\ cpu = [c \in CPUs |-> Idle]
    /\ acked = {}
    /\ watch = [c \in CPUs |-> NoWatch]
    /\ counted = [s \in Slots |-> 0]
    /\ torn = {}
    /\ charge = [c \in CPUs |-> NoCharge]

-----------------------------------------------------------------------------
(* xdp_firewall, one step for each access to shared state. *)

Passed  == SumFunction([c \in CPUs |-> packet_counters[c][0]])
Dropped == SumFunction([c \in CPUs |-> packet_counters[c][1]])

Received == Passed + Dropped + Cardinality({c \in Packets : ~ At(c, "emit")})

\* Faulty variant: every packet goes into the first counter.
increment_counter_First(c, index) ==
    packet_counters' = [packet_counters EXCEPT ![c][0] = @ + 1]

increment_counter(c, index) ==
    packet_counters' = [packet_counters EXCEPT ![c][index] = @ + 1]

\* The driver hands CPU c a frame that parse_packet rejects: not IPv4, or cut
\* short.  It passes without a look at the blocklist, even if its source has
\* been read already (a TCP or UDP header cut short, lines 86-93, 101-102).
PassUnparsed(c) ==
    /\ At(c, "idle")
    /\ Received < MaxPackets
    /\ increment_counter(c, 0)
    /\ UNCHANGED <<kernelVars, drop_events, delivered, clock, cpu, acked,
                   watch, ghostVars>>

\* The driver hands CPU c a packet from address a.
Arrive(c, a) ==
    /\ At(c, "idle")
    /\ Received < MaxPackets
    /\ cpu' = [cpu EXCEPT ![c].pc = "blocklist", ![c].src = a]
    /\ watch' = [watch EXCEPT ![c] =
            [acked |-> a \in acked, listed |-> a \in blocklist,
             unlisted |-> a \notin blocklist,
             off |-> rate_limit_config.threshold = 0]]
    /\ UNCHANGED <<kernelVars, countVars, clock, acked, ghostVars>>

\* The program's bookkeeping outside the limiter's entries.
Unaltered == UNCHANGED <<blocklist, rate_limit_config, clock, acked, watch>>

Blocked(ip) == ip \in blocklist

CheckBlocklist(c) ==
    /\ At(c, "blocklist")
    /\ \/ /\ Blocked(cpu[c].src)
          /\ cpu' = [cpu EXCEPT ![c].pc = "drop", ![c].reason = 1]
       \/ /\ ~ Blocked(cpu[c].src)
          /\ Goto(c, "config")
    /\ Unaltered
    /\ UNCHANGED <<rate_limit_state, countVars, ghostVars>>

\* Faulty variant: no special case for a threshold of 0.
LimiterOn_Always == TRUE

LimiterOn == rate_limit_config.threshold > 0

ReadConfig(c) ==
    /\ At(c, "config")
    /\ Goto(c, IF LimiterOn THEN "clock" ELSE "pass")
    /\ Unaltered
    /\ UNCHANGED <<rate_limit_state, countVars, ghostVars>>

ReadClock(c) ==
    /\ At(c, "clock")
    /\ cpu' = [cpu EXCEPT ![c].pc = "lookup", ![c].now = clock]
    /\ Unaltered
    /\ UNCHANGED <<rate_limit_state, countVars, ghostVars>>

\* Faulty variant: the result of the lookup is not checked for NULL.
EntriesOf_OrNull(ip) ==
    {NoSlot} \cup
    {s \in Slots : rate_limit_state[s].live /\ rate_limit_state[s].ip = ip}

\* The live entry of an address, at most one of them.
EntriesOf(ip) ==
    {s \in Slots : rate_limit_state[s].live /\ rate_limit_state[s].ip = ip}

Lookup(c) ==
    /\ At(c, "lookup")
    /\ \/ \E s \in EntriesOf(cpu[c].src) :
             cpu' = [cpu EXCEPT ![c].pc = "window", ![c].slot = s]
       \/ /\ EntriesOf(cpu[c].src) = {}
          /\ Goto(c, "insert")
    /\ Unaltered
    /\ UNCHANGED <<rate_limit_state, countVars, ghostVars>>

\* The element that CPU c points to was reused for another source.
Foreign(c) == rate_limit_state[cpu[c].slot].ip # cpu[c].src

\* History: a count of slot s that a CPU has loaded and not yet stored again
\* belongs to a window that is over.
Overtake(s) ==
    charge' = [d \in CPUs |->
        IF At(d, "store") /\ cpu[d].slot = s
        THEN [charge[d] EXCEPT !.stale = TRUE]
        ELSE charge[d]]

\* bpf_map_update_elem on an LRU hash: take an element - free, or evicted
\* although free ones remain on another CPU's list -, fill it, and unlink the
\* older entry another CPU may have inserted for the same key meanwhile.  No
\* element may be had at all, and the program ignores the error.
Insert(c) ==
    /\ At(c, "insert")
    /\ \/ \E s \in Slots :
             /\ rate_limit_state' = [t \in Slots |->
                  IF t = s
                  THEN [ip |-> cpu[c].src, live |-> TRUE,
                        window_start |-> cpu[c].now, count |-> 1]
                  ELSE [rate_limit_state[t] EXCEPT
                          !.live = @ /\ rate_limit_state[t].ip # cpu[c].src]]
             /\ counted' = [counted EXCEPT ![s] = 1]
             /\ torn' = torn \ {s}
             /\ Overtake(s)
       \/ UNCHANGED <<rate_limit_state, ghostVars>>
    /\ Goto(c, "pass")
    /\ Unaltered
    /\ UNCHANGED countVars

ReadWindow(c) ==
    /\ At(c, "window")
    /\ cpu' = [cpu EXCEPT ![c].pc = "elapsed",
                          ![c].window = rate_limit_config.window_ms]
    /\ Unaltered
    /\ UNCHANGED <<rate_limit_state, countVars, ghostVars>>

\* Faulty variant: a window of no length.
Expired_AtOnce(c) ==
    (cpu[c].now - rate_limit_state[cpu[c].slot].window_start) % Wrap >= 0

\* now - state->window_start >= window_ns, in unsigned arithmetic: a start
\* that another CPU set to a later time counts as expired too.
Expired(c) ==
    (cpu[c].now - rate_limit_state[cpu[c].slot].window_start) % Wrap
        >= cpu[c].window

CheckElapsed(c) ==
    /\ At(c, "elapsed")
    /\ Goto(c, IF Expired(c) THEN "restart" ELSE "load")
    /\ Unaltered
    /\ UNCHANGED <<rate_limit_state, countVars, ghostVars>>

\* A new window: two stores through the pointer, first the start ...
RestartWindow(c) ==
    /\ At(c, "restart")
    /\ rate_limit_state' =
          [rate_limit_state EXCEPT ![cpu[c].slot].window_start = cpu[c].now]
    /\ counted' = IF Foreign(c) THEN counted
                  ELSE [counted EXCEPT ![cpu[c].slot] = 1]
    /\ torn' = torn \cup {cpu[c].slot}
    /\ Overtake(cpu[c].slot)
    /\ Goto(c, "reset")
    /\ Unaltered
    /\ UNCHANGED countVars

\* Faulty variant: the first packet of a window counts twice.
FirstCount_Two == 2

FirstCount == 1

\* ... then the count, which until then is that of the window before.
ResetCount(c) ==
    /\ At(c, "reset")
    /\ rate_limit_state' =
          [rate_limit_state EXCEPT ![cpu[c].slot].count = FirstCount]
    /\ torn' = IF Foreign(c) THEN torn ELSE torn \ {cpu[c].slot}
    /\ Goto(c, "pass")
    /\ Unaltered
    /\ UNCHANGED <<countVars, counted, charge>>

\* state->count++ is a load and a store, not an atomic addition.
LoadCount(c) ==
    /\ At(c, "load")
    /\ cpu' = [cpu EXCEPT ![c].pc = "store",
                          ![c].count = rate_limit_state[cpu[c].slot].count]
    /\ charge' = [charge EXCEPT ![c].stale = cpu[c].slot \in torn \/ Foreign(c)]
    /\ Unaltered
    /\ UNCHANGED <<rate_limit_state, countVars, counted, torn>>

StoreCount(c) ==
    /\ At(c, "store")
    /\ rate_limit_state' =
          [rate_limit_state EXCEPT ![cpu[c].slot].count = cpu[c].count + 1]
    /\ cpu' = [cpu EXCEPT ![c].pc = "compare", ![c].count = @ + 1]
    /\ counted' = IF Foreign(c) THEN counted
                  ELSE [counted EXCEPT ![cpu[c].slot] = @ + 1]
    /\ torn' = IF charge[c].stale THEN torn \cup {cpu[c].slot}
               ELSE torn \ {cpu[c].slot}
    /\ charge' = [charge EXCEPT ![c].counted = counted'[cpu[c].slot]]
    /\ Unaltered
    /\ UNCHANGED countVars

\* Faulty variant: the threshold itself is too much.
OverThreshold_OrEqual(count, threshold) == count >= threshold

OverThreshold(count, threshold) == count > threshold

\* The threshold is read again here, after line 154 found it positive.
Compare(c) ==
    /\ At(c, "compare")
    /\ \/ /\ OverThreshold(cpu[c].count, rate_limit_config.threshold)
          /\ cpu' = [cpu EXCEPT ![c].pc = "drop", ![c].reason = 2,
                                ![c].limit = rate_limit_config.threshold]
       \/ /\ ~ OverThreshold(cpu[c].count, rate_limit_config.threshold)
          /\ Goto(c, "pass")
    /\ Unaltered
    /\ UNCHANGED <<rate_limit_state, countVars, ghostVars>>

CountDrop(c) ==
    /\ At(c, "drop")
    /\ increment_counter(c, 1)
    /\ Goto(c, "emit")
    /\ Unaltered
    /\ UNCHANGED <<rate_limit_state, drop_events, delivered, ghostVars>>

\* bpf_ringbuf_reserve fails when the ring is full, and the record is lost.
RingHasRoom == Len(drop_events) < RingSize

emit_drop_event(c) ==
    /\ At(c, "emit")
    /\ drop_events' = IF RingHasRoom
                      THEN Append(drop_events, [src_ip |-> cpu[c].src,
                                                reason |-> cpu[c].reason])
                      ELSE drop_events
    /\ cpu' = [cpu EXCEPT ![c] = Idle]
    /\ watch' = [watch EXCEPT ![c] = NoWatch]
    /\ charge' = [charge EXCEPT ![c] = NoCharge]
    /\ UNCHANGED <<kernelVars, packet_counters, delivered, clock, acked,
                   counted, torn>>

PassPacket(c) ==
    /\ At(c, "pass")
    /\ increment_counter(c, 0)
    /\ cpu' = [cpu EXCEPT ![c] = Idle]
    /\ watch' = [watch EXCEPT ![c] = NoWatch]
    /\ charge' = [charge EXCEPT ![c] = NoCharge]
    /\ UNCHANGED <<kernelVars, drop_events, delivered, clock, acked,
                   counted, torn>>

xdp_firewall(c) ==
    \/ PassUnparsed(c)
    \/ \E a \in Addrs : Arrive(c, a)
    \/ CheckBlocklist(c) \/ ReadConfig(c) \/ ReadClock(c)
    \/ Lookup(c) \/ Insert(c)
    \/ ReadWindow(c) \/ CheckElapsed(c) \/ RestartWindow(c) \/ ResetCount(c)
    \/ LoadCount(c) \/ StoreCount(c) \/ Compare(c)
    \/ CountDrop(c) \/ emit_drop_event(c) \/ PassPacket(c)

-----------------------------------------------------------------------------
(* User space. *)

ControlOnly == UNCHANGED <<rate_limit_state, countVars, clock, cpu, ghostVars>>

\* Updating a full hash fails, unless the key is there already.
BlockIP(ip) ==
    /\ Key(ip) \in blocklist \/ Cardinality(blocklist) < BlocklistMax
    /\ blocklist' = blocklist \cup {Key(ip)}

\* Deleting a key that is not there is an error.
UnblockIP(ip) ==
    /\ Key(ip) \in blocklist
    /\ blocklist' = blocklist \ {Key(ip)}

\* Both fields are replaced at once, and nothing is validated.
UpdateConfig(threshold, window) ==
    rate_limit_config' = [threshold |-> threshold, window_ms |-> window]

\* POST /api/block: an error is reported and changes nothing.
HandleBlockIP(ip) ==
    /\ BlockIP(ip)
    /\ acked' = acked \cup {ip}
    /\ UNCHANGED rate_limit_config
    /\ Observe
    /\ ControlOnly

\* DELETE /api/block/{ip}
HandleUnblockIP(ip) ==
    /\ UnblockIP(ip)
    /\ acked' = acked \ {ip}
    /\ UNCHANGED rate_limit_config
    /\ Observe
    /\ ControlOnly

\* PUT /api/config/ratelimit, and the call main makes at start-up after the
\* program is attached.
HandleUpdateRateLimit(threshold, window) ==
    /\ UpdateConfig(threshold, window)
    /\ UNCHANGED <<blocklist, acked>>
    /\ Observe
    /\ ControlOnly

\* GET /api/blocked.
ListBlockedIPs == {ListedIP(key) : key \in blocklist}

\* The reader goroutine of StartEventReader takes one record.
ReadEvent ==
    /\ drop_events # <<>>
    /\ drop_events' = Tail(drop_events)
    /\ delivered' = delivered + 1
    /\ UNCHANGED <<kernelVars, packet_counters, clock, cpu, acked, watch,
                   ghostVars>>

Tick ==
    /\ clock < MaxTime
    /\ clock' = clock + 1
    /\ UNCHANGED <<kernelVars, countVars, cpu, acked, watch, ghostVars>>

Control ==
    \/ \E ip \in Addrs : HandleBlockIP(ip) \/ HandleUnblockIP(ip)
    \/ \E t \in Thresholds, w \in Windows : HandleUpdateRateLimit(t, w)

Next ==
    \/ \E c \in CPUs : xdp_firewall(c)
    \/ Control
    \/ ReadEvent
    \/ Tick

Spec == Init /\ [][Next]_vars

-----------------------------------------------------------------------------
(* Properties. *)

CpuRecord == [pc : Steps, src : Addrs \cup {<<>>}, reason : 0..2, now : Nat,
              slot : Slots \cup {NoSlot}, window : Nat, count : Nat,
              limit : Nat]

\* The shape of the state: a packet in flight has a source, a CPU that
\* updates an entry holds a slot.
TypeOK ==
    /\ blocklist \in SUBSET Addrs
    /\ rate_limit_config \in [threshold : Nat, window_ms : Nat]
    /\ rate_limit_state \in
          [Slots -> [ip : Addrs, live : BOOLEAN, window_start : Nat,
                     count : Nat]]
    /\ packet_counters \in [CPUs -> [0..1 -> Nat]]
    /\ drop_events \in Seq([src_ip : Addrs, reason : 0..2])
    /\ delivered \in Nat
    /\ clock \in Nat
    /\ cpu \in [CPUs -> CpuRecord]
    /\ \A c \in CPUs :
          /\ ~ At(c, "idle") => cpu[c].src \in Addrs
          /\ cpu[c].pc \in PointerSteps => cpu[c].slot \in Slots
    /\ acked \in SUBSET Addrs
    /\ watch \in [CPUs -> [acked : BOOLEAN, listed : BOOLEAN,
                           unlisted : BOOLEAN, off : BOOLEAN]]
    /\ counted \in [Slots -> Nat]
    /\ torn \in SUBSET Slots
    /\ charge \in [CPUs -> [stale : BOOLEAN, counted : Nat]]

\* A packet dropped for its rate (Compare, lines 169-173) is one of more
\* packets of its source, counted in the entry's current window, than the
\* threshold it was held against: increments lost to another CPU, evictions
\* and configuration changes under way only ever let more through.  The one
\* exception is a stale count: one read between the two stores of a restart
\* (lines 166-167), or that goes back to a store by a CPU that had not seen a
\* restart or whose pointer's element was reused; that drop may come early,
\* which DropsOnlyOverThreshold (module RateWindow) shows.
NoPrematureRateDrop ==
    \A c \in CPUs :
        cpu[c].pc \in {"drop", "emit"} /\ cpu[c].reason = 2
            => charge[c].stale \/ charge[c].counted > cpu[c].limit

\* The verdict is one that some state since the packet's arrival justifies:
\* a source listed all along does not pass and is not charged to the limiter,
\* one that was never listed is not dropped as blocked (lines 144-150), and
\* with the limiter off all along nothing is dropped for its rate (line 154).
VerdictFollowsMaps ==
    \A c \in CPUs :
        /\ At(c, "pass") => ~ watch[c].listed
        /\ cpu[c].pc \in {"drop", "emit"} =>
              /\ cpu[c].reason = 1 => ~ watch[c].unlisted
              /\ cpu[c].reason = 2 => ~ watch[c].listed /\ ~ watch[c].off

\* increment_counter comes before emit_drop_event (lines 147-148, 171-172), so
\* user space never learns of more drops from the ring buffer than the
\* counters have, whatever the interleaving of CPUs and readers.
EventsNeverOutrunDrops == Len(drop_events) + delivered <= Dropped

\* Source -> CPUs that have counted a drop of its packet and will report it.
emitting ==
    [a \in Addrs |-> Cardinality({c \in CPUs : At(c, "emit") /\ cpu[c].src = a})]

View == INSTANCE KernelView WITH
            Sources <- Addrs, passed <- Passed, dropped <- Dropped,
            ring <- [i \in DOMAIN drop_events |-> drop_events[i].src_ip]

\* However the CPUs interleave, the maps that user space reads are those of one
\* program that counts a drop and then reports it, once, under its own source
\* and unless the ring is full (lines 114-131, 147-148, 171-172); this is all
\* that the metrics (module MetricsPipeline) take for granted of the kernel.
ImplementsKernelView == View!Spec

\* GET /api/blocked (maps.go:63-80) shows exactly the addresses whose block
\* request was acknowledged and not withdrawn, on either byte order.
ListingMatchesRequests == ListBlockedIPs = acked

\* "POST /api/block -- add IP to eBPF blocklist" (README.md:103): a packet
\* from an address whose block has been acknowledged ever since before it
\* arrived is not passed.
BlockedAddressIsDropped ==
    \A c \in CPUs : At(c, "pass") => ~ watch[c].acked

=============================================================================
