----------------------------- MODULE RateWindow -----------------------------
(***************************************************************************)
(* What the rate limiter of XdpFirewall promises over time: how many       *)
(* packets of one source it lets through in a stretch of time as long as   *)
(* the configured window.  The configuration is set once, before traffic,  *)
(* as main does at start-up, nobody calls the control API, and nobody      *)
(* reads the ring buffer.                                                  *)
(*                                                                         *)
(* With several CPUs the increments of line 169 can be lost and no bound   *)
(* on the packets let through holds; what the module promises, it promises *)
(* for one CPU.  DropsOnlyOverThreshold is what fails with two.            *)
(***************************************************************************)
EXTENDS XdpFirewall

CONSTANTS
    Threshold,      \* rate_limit.threshold of the configuration file
    Window          \* rate_limit.window_ms, in clock units

ASSUME WindowAssumption ==
    /\ Threshold \in Thresholds /\ Threshold > 0
    /\ Window \in Windows /\ Window > 0

VARIABLES
    passLog,        \* history: address -> times of the packets let through
    forgotten       \* history: addresses whose entry was evicted or never
                    \* stored, so that the limiter lost count of them

windowVars == <<vars, passLog, forgotten>>

WindowInit ==
    /\ blocklist = {}
    /\ rate_limit_config = [threshold |-> Threshold, window_ms |-> Window]
    /\ rate_limit_state = [s \in Slots |->
            [ip |-> CHOOSE a \in Addrs : TRUE, live |-> FALSE,
             window_start |-> 0, count |-> 0]]
    /\ packet_counters = [c \in CPUs |-> [i \in 0..1 |-> 0]]
    /\ drop_events = <<>>
    /\ delivered = 0
    /\ clock = 0
    /\ cpu = [c \in CPUs |-> Idle]
    /\ acked = {}
    /\ watch = [c \in CPUs |-> NoWatch]
    /\ counted = [s \in Slots |-> 0]
    /\ torn = {}
    /\ charge = [c \in CPUs |-> NoCharge]
    /\ passLog = [a \in Addrs |-> <<>>]
    /\ forgotten = {}

\* A step of the program on CPU c, with the histories kept.
Firewall(c) ==
    /\ xdp_firewall(c)
    /\ passLog' = IF At(c, "pass")
                  THEN [passLog EXCEPT ![cpu[c].src] = Append(@, cpu[c].now)]
                  ELSE passLog
    /\ forgotten' = IF At(c, "insert")
                    THEN forgotten \cup {a \in Addrs :
                            /\ a = cpu[c].src \/ EntriesOf(a) # {}
                            /\ EntriesOf(a)' = {}}
                    ELSE forgotten

WindowNext ==
    \/ \E c \in CPUs : Firewall(c)
    \/ Tick /\ UNCHANGED <<passLog, forgotten>>

WindowSpec == WindowInit /\ [][WindowNext]_windowVars

-----------------------------------------------------------------------------
(* Properties. *)

\* The packets of source a let through at the times from first to last.
PassedDuring(a, first, last) ==
    Cardinality({i \in DOMAIN passLog[a] : passLog[a][i] \in first..last})

\* The entry of source a as the packets decided so far left it: a packet that
\* has stored the start of a new window is about to store its count.
entry == [a \in Addrs |->
    IF EntriesOf(a) = {} THEN [start |-> 0, count |-> 0]
    ELSE LET s == CHOOSE s \in Slots : s \in EntriesOf(a)
         IN  [start |-> rate_limit_state[s].window_start,
              count |-> IF \E c \in CPUs : At(c, "reset") /\ cpu[c].slot = s
                        THEN 1 ELSE rate_limit_state[s].count]]

\* Packets that are certain to be let through.
Admitted(c) ==
    \/ At(c, "pass") \/ At(c, "reset")
    \/ At(c, "compare") /\ cpu[c].count <= Threshold

passes == [a \in Addrs |->
    LET admitted == {c \in CPUs : Admitted(c) /\ cpu[c].src = a}
    IN  IF admitted = {} THEN passLog[a]
        ELSE Append(passLog[a], cpu[CHOOSE c \in CPUs : c \in admitted].now)]

FW == INSTANCE FixedWindow WITH
        Sources <- Addrs, now <- clock

\* The program's steps through pointers into the LRU map amount to a limiter
\* that decides each packet at once, by the time it was received (lines
\* 150-175): a packet is decided when its count is stored, or the start of
\* its window, or its new entry.
ImplementsFixedWindow == FW!Spec

\* A window of the program starts with a packet and lasts until the first
\* packet at least window_ms later (lines 165-167): any stretch of that length
\* meets at most two windows, so a source gets at most twice the threshold
\* through, as long as the LRU map has not lost its entry.
TwiceThresholdPerWindow ==
    \A a \in Addrs \ forgotten : \A t \in 0..clock :
        PassedDuring(a, t, t + Window - 1) <= 2 * Threshold

\* A packet is dropped for its rate only if the threshold was reached within
\* the last window_ms: a full quota of packets of the same source was let
\* through in that time (lines 165-170), evictions or not.
DropsOnlyAfterFullQuota ==
    \A c \in CPUs :
        At(c, "drop") /\ cpu[c].reason = 2
            => PassedDuring(cpu[c].src, cpu[c].now - Window + 1, cpu[c].now)
                    >= Threshold

\* "Per-IP sliding window rate limiting" (README.md:51): no stretch of time
\* of the length of the window sees more than the threshold let through.
SlidingWindow ==
    \A a \in Addrs \ forgotten : \A t \in 0..clock :
        PassedDuring(a, t, t + Window - 1) <= Threshold

\* "threshold: 100 # max requests per window" (README.md:204): a packet is
\* dropped for its rate only if, with the packets of its source that were let
\* through since window_ms before its arrival, those under way on other CPUs
\* and itself, there were more than the threshold.
DropsOnlyOverThreshold ==
    \A c \in CPUs :
        At(c, "drop") /\ cpu[c].reason = 2
            => PassedDuring(cpu[c].src, cpu[c].now - Window + 1, clock)
                 + Cardinality({d \in Packets : cpu[d].src = cpu[c].src})
                    > Threshold
=============================================================================
