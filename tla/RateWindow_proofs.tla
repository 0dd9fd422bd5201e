------------------------- MODULE RateWindow_proofs --------------------------
(***************************************************************************)
(* On one CPU the rate limiter of the XDP program implements FixedWindow,  *)
(* for any number of sources and slots, any threshold and window, with     *)
(* entries evicted at any insertion. So it drops a packet only after a     *)
(* full quota of its source's packets was let through, and lets at most    *)
(* twice the threshold through in any stretch as long as the window.       *)
(***************************************************************************)
EXTENDS RateWindow, XdpFirewall_proofs, DataFacts, FiniteSetTheorems

LEMMA Durations ==
    /\ Threshold \in Nat \ {0} /\ Window \in Nat \ {0}
    /\ MaxTime \in Nat /\ Wrap \in Nat /\ Wrap > MaxTime
BY WindowAssumption, LimitsAssumption

-----------------------------------------------------------------------------
(* The invariant. *)

Configured ==
    rate_limit_config = [threshold |-> Threshold, window_ms |-> Window]

\* At most one live entry for a source, which has counted a packet.
EntriesSound ==
    /\ \A s, t \in Slots :
          /\ rate_limit_state[s].live /\ rate_limit_state[t].live
          /\ rate_limit_state[s].ip = rate_limit_state[t].ip
          => s = t
    /\ \A s \in Slots : rate_limit_state[s].live =>
          /\ rate_limit_state[s].window_start <= clock
          /\ rate_limit_state[s].count > 0

\* The steps at which the packet has read the clock and is not decided yet.
Undecided == {"lookup", "insert", "window", "elapsed", "restart", "load", "store"}

Start(p) == rate_limit_state[cpu[p].slot].window_start

\* What the packet on CPU p knows: no window starts later than the packet was
\* received, its pointer leads to the entry of its source, its branch fits the
\* age of the window, and the count it has loaded is still there.
PacketSound(p) ==
    /\ cpu[p].pc \in Undecided =>
          /\ cpu[p].now <= clock
          /\ \A s \in Slots : rate_limit_state[s].live
                => rate_limit_state[s].window_start <= cpu[p].now
    /\ cpu[p].pc = "insert" => EntriesOf(cpu[p].src) = {}
    /\ cpu[p].pc \in PointerSteps => cpu[p].slot \in EntriesOf(cpu[p].src)
    /\ cpu[p].pc = "elapsed" => cpu[p].window = Window
    /\ cpu[p].pc = "restart" => cpu[p].now - Start(p) >= Window
    /\ cpu[p].pc \in {"load", "store"} => cpu[p].now - Start(p) < Window
    /\ cpu[p].pc = "store" => cpu[p].count = rate_limit_state[cpu[p].slot].count

WindowInv(p) ==
    /\ TypeOK /\ Configured /\ EntriesSound /\ PacketSound(p)
    /\ clock <= MaxTime
    /\ passLog \in [Addrs -> Seq(Nat)]

LEMMA WindowInitInv ==
    ASSUME NEW p \in CPUs, WindowInit
    PROVE  WindowInv(p)
<1>1. (CHOOSE a \in Addrs : TRUE) \in Addrs
  BY AddrsAssumption
<1>2. rate_limit_state \in
        [Slots -> [ip : Addrs, live : BOOLEAN, window_start : Nat, count : Nat]]
  BY <1>1 DEF WindowInit
<1>3. drop_events \in Seq([src_ip : Addrs, reason : 0..2])
  BY EmptySeq DEF WindowInit
<1>4. Idle \in CpuRecord
  BY DEF Idle, CpuRecord, Steps
<1>5. cpu \in [CPUs -> CpuRecord] /\ \A c \in CPUs : cpu[c] = Idle
  BY <1>4 DEF WindowInit
<1>6. \A c \in CPUs : At(c, "idle") /\ cpu[c].pc = "idle"
  BY <1>5 DEF Idle, At
<1>7. watch \in [CPUs -> [acked : BOOLEAN, listed : BOOLEAN,
                          unlisted : BOOLEAN, off : BOOLEAN]]
  BY DEF WindowInit, NoWatch
<1>8. rate_limit_config \in [threshold : Nat, window_ms : Nat]
  BY Durations DEF WindowInit
<1>9. TypeOK
  <2>1. charge \in [CPUs -> [stale : BOOLEAN, counted : Nat]]
    BY DEF WindowInit, NoCharge
  <2> QED
    BY <1>2, <1>3, <1>5, <1>6, <1>7, <1>8, <2>1 DEF WindowInit, TypeOK, PointerSteps
<1>10. \A s \in Slots : ~ rate_limit_state[s].live
  BY DEF WindowInit
<1>11. EntriesSound
  BY <1>10 DEF EntriesSound
<1>12. PacketSound(p)
  BY <1>6 DEF PacketSound, Undecided, PointerSteps
<1>13. passLog \in [Addrs -> Seq(Nat)]
  BY EmptySeq DEF WindowInit
<1>. QED
  BY <1>9, <1>11, <1>12, <1>13, Durations DEF WindowInv, WindowInit, Configured

-----------------------------------------------------------------------------
(* Steps that move a packet on, or write its entry. *)

\* Where a step takes the packet.
LEMMA Moved ==
    ASSUME TypeOK, NEW p \in CPUs, NEW step, Goto(p, step)
    PROVE  /\ cpu'[p].pc = step
           /\ cpu'[p].src = cpu[p].src /\ cpu'[p].now = cpu[p].now
           /\ cpu'[p].slot = cpu[p].slot /\ cpu'[p].window = cpu[p].window
           /\ cpu'[p].count = cpu[p].count
BY DEF TypeOK, CpuRecord, Goto

LEMMA OnlyElement ==
    ASSUME NEW T, NEW x \in T, NEW E, E = {x}
    PROVE  (CHOOSE y \in T : y \in E) = x
OBVIOUS

LEMMA PassesNow ==
    ASSUME NEW p, CPUs = {p}
    PROVE  passes = [a \in Addrs |->
              IF Admitted(p) /\ cpu[p].src = a
              THEN Append(passLog[a], cpu[p].now) ELSE passLog[a]]
<1>. SUFFICES ASSUME NEW a \in Addrs
              PROVE  passes[a] = IF Admitted(p) /\ cpu[p].src = a
                                 THEN Append(passLog[a], cpu[p].now)
                                 ELSE passLog[a]
  BY DEF passes
<1>. DEFINE admitted == {c \in CPUs : Admitted(c) /\ cpu[c].src = a}
<1>1. CASE Admitted(p) /\ cpu[p].src = a
  <2>1. admitted = {p}
    BY <1>1
  <2>2. (CHOOSE c \in CPUs : c \in admitted) = p
    BY <2>1, OnlyElement
  <2>. QED
    BY <1>1, <2>1, <2>2 DEF passes
<1>2. CASE ~ (Admitted(p) /\ cpu[p].src = a)
  <2>1. admitted = {}
    BY <1>2
  <2>. QED
    BY <1>2, <2>1 DEF passes
<1>. QED
  BY <1>1, <1>2

LEMMA PassesNext ==
    ASSUME NEW p, CPUs = {p}
    PROVE  (passes = [a \in Addrs |->
              IF Admitted(p) /\ cpu[p].src = a
              THEN Append(passLog[a], cpu[p].now) ELSE passLog[a]])'
<1>1. passes = [a \in Addrs |->
              IF Admitted(p) /\ cpu[p].src = a
              THEN Append(passLog[a], cpu[p].now) ELSE passLog[a]]
  BY PassesNow
<1>. QED
  BY <1>1, PTL

\* The entry of a source with a live slot, and of one without.
EntryFrom(p, s) ==
    [start |-> rate_limit_state[s].window_start,
     count |-> IF At(p, "reset") /\ cpu[p].slot = s THEN 1
               ELSE rate_limit_state[s].count]

LEMMA EntryNow ==
    ASSUME NEW p, CPUs = {p}, NEW a \in Addrs
    PROVE  /\ EntriesOf(a) = {} => entry[a] = [start |-> 0, count |-> 0]
           /\ \A s \in Slots : EntriesOf(a) = {s} => entry[a] = EntryFrom(p, s)
<1>1. EntriesOf(a) = {} => entry[a] = [start |-> 0, count |-> 0]
  BY DEF entry
<1>2. ASSUME NEW s \in Slots, EntriesOf(a) = {s}
      PROVE  entry[a] = EntryFrom(p, s)
  <2>1. (CHOOSE t \in Slots : t \in EntriesOf(a)) = s
    BY <1>2, OnlyElement
  <2>. QED
    BY <1>2, <2>1 DEF entry, EntryFrom
<1>. QED
  BY <1>1, <1>2

LEMMA EntryNext ==
    ASSUME NEW p, CPUs = {p}, NEW a \in Addrs
    PROVE  (/\ EntriesOf(a) = {} => entry[a] = [start |-> 0, count |-> 0]
            /\ \A s \in Slots : EntriesOf(a) = {s} => entry[a] = EntryFrom(p, s))'
<1>1. /\ EntriesOf(a) = {} => entry[a] = [start |-> 0, count |-> 0]
      /\ \A s \in Slots : EntriesOf(a) = {s} => entry[a] = EntryFrom(p, s)
  BY EntryNow
<1>. QED
  BY <1>1, PTL

LEMMA OneEntry ==
    ASSUME EntriesSound, NEW a \in Addrs
    PROVE  EntriesOf(a) = {} \/ \E s \in Slots : EntriesOf(a) = {s}
BY DEF EntriesSound, EntriesOf

LEMMA EntryOther ==
    ASSUME NEW p, CPUs = {p}, EntriesSound, NEW b \in Addrs,
           EntriesOf(b)' = EntriesOf(b),
           \A s \in EntriesOf(b) : EntryFrom(p, s)' = EntryFrom(p, s)
    PROVE  entry'[b] = entry[b]
<1>1. CASE EntriesOf(b) = {}
  BY <1>1, EntryNow, EntryNext
<1>2. ASSUME NEW s \in Slots, EntriesOf(b) = {s} PROVE entry'[b] = entry[b]
  <2>1. entry[b] = EntryFrom(p, s)
    BY <1>2, EntryNow
  <2>2. EntriesOf(b)' = {s}
    BY <1>2
  <2>3. entry'[b] = EntryFrom(p, s)'
    BY <2>2, EntryNext
  <2>. QED
    BY <1>2, <2>1, <2>3
<1>. QED
  BY <1>1, <1>2, OneEntry

\* A step that leaves the slots alone and neither begins nor ends a restart.
LEMMA EntriesKept ==
    ASSUME NEW p, CPUs = {p}, EntriesSound, UNCHANGED rate_limit_state,
           ~ At(p, "reset"), ~ At(p, "reset")'
    PROVE  entry' = entry
<1>1. ASSUME NEW b \in Addrs PROVE entry'[b] = entry[b]
  <2>1. EntriesOf(b)' = EntriesOf(b)
    BY DEF EntriesOf
  <2>2. \A s \in EntriesOf(b) : EntryFrom(p, s)' = EntryFrom(p, s)
    BY DEF EntryFrom
  <2>. QED
    BY <2>1, <2>2, EntryOther
<1>2. /\ entry = [b \in Addrs |-> entry[b]]
      /\ entry' = [b \in Addrs |-> entry'[b]]
  BY DEF entry
<1>. QED
  BY <1>1, <1>2

\* A step of neither the slots nor the packet.
LEMMA EntriesSame ==
    ASSUME NEW p, CPUs = {p}, EntriesSound, UNCHANGED <<rate_limit_state, cpu>>
    PROVE  entry' = entry
<1>1. ASSUME NEW b \in Addrs PROVE entry'[b] = entry[b]
  <2>1. EntriesOf(b)' = EntriesOf(b)
    BY DEF EntriesOf
  <2>2. \A s \in EntriesOf(b) : EntryFrom(p, s)' = EntryFrom(p, s)
    BY DEF EntryFrom, At
  <2>. QED
    BY <2>1, <2>2, EntryOther
<1>2. /\ entry = [b \in Addrs |-> entry[b]]
      /\ entry' = [b \in Addrs |-> entry'[b]]
  BY DEF entry
<1>. QED
  BY <1>1, <1>2

\* A step that writes the slot of its packet's source and keeps its owner.
LEMMA EntryWritten ==
    ASSUME NEW p, CPUs = {p}, EntriesSound, NEW a \in Addrs,
           NEW s \in Slots, s \in EntriesOf(a),
           \A t \in Slots : t # s => rate_limit_state'[t] = rate_limit_state[t],
           rate_limit_state'[s].ip = rate_limit_state[s].ip,
           rate_limit_state'[s].live = rate_limit_state[s].live,
           cpu[p].slot = s, cpu'[p].slot = s
    PROVE  /\ entry[a] = EntryFrom(p, s)
           /\ entry'[a] = EntryFrom(p, s)'
           /\ entry' = [entry EXCEPT ![a] = entry'[a]]
<1>1. \A b \in Addrs : EntriesOf(b)' = EntriesOf(b)
  BY DEF EntriesOf
<1>2. s \in Slots /\ EntriesOf(a) = {s}
  BY DEF EntriesOf, EntriesSound
<1>3. entry[a] = EntryFrom(p, s)
  BY <1>2, EntryNow
<1>4. EntriesOf(a)' = {s}
  BY <1>1, <1>2
<1>5. entry'[a] = EntryFrom(p, s)'
  BY <1>2, <1>4, EntryNext
<1>6. ASSUME NEW b \in Addrs, b # a PROVE entry'[b] = entry[b]
  <2>1. s \notin EntriesOf(b)
    BY <1>6 DEF EntriesOf
  <2>2. ASSUME NEW t \in EntriesOf(b) PROVE EntryFrom(p, t)' = EntryFrom(p, t)
    <3>1. t \in Slots /\ t # s
      BY <2>1, <2>2 DEF EntriesOf
    <3>. QED
      BY <3>1 DEF EntryFrom
  <2>. QED
    BY <1>1, <2>2, EntryOther
<1>7. /\ entry = [b \in Addrs |-> entry[b]]
      /\ entry' = [b \in Addrs |-> entry'[b]]
  BY DEF entry
<1>8. entry' = [entry EXCEPT ![a] = entry'[a]]
  BY <1>6, <1>7
<1>. QED
  BY <1>3, <1>5, <1>8

\* The packets let through, after each kind of step.
LEMMA PassesKept ==
    ASSUME NEW p, CPUs = {p}, passLog' = passLog,
           Admitted(p)' <=> Admitted(p),
           Admitted(p) => cpu'[p].src = cpu[p].src /\ cpu'[p].now = cpu[p].now
    PROVE  passes' = passes
<1>1. ASSUME NEW a \in Addrs
      PROVE  (IF Admitted(p) /\ cpu[p].src = a
              THEN Append(passLog[a], cpu[p].now) ELSE passLog[a])'
           = IF Admitted(p) /\ cpu[p].src = a
             THEN Append(passLog[a], cpu[p].now) ELSE passLog[a]
  OBVIOUS
<1>. QED
  BY <1>1, PassesNow, PassesNext

LEMMA PassesGrow ==
    ASSUME NEW p, CPUs = {p}, NEW a \in Addrs, passLog' = passLog,
           ~ Admitted(p), Admitted(p)', cpu'[p].src = a
    PROVE  passes' = [passes EXCEPT ![a] = Append(@, cpu'[p].now)]
<1>1. passes = [b \in Addrs |-> passLog[b]]
  BY PassesNow
<1>2. passes' = [b \in Addrs |-> IF b = a THEN Append(passLog[b], cpu'[p].now)
                                 ELSE passLog[b]]
  BY PassesNext
<1>. QED
  BY <1>1, <1>2

LEMMA PassesLogged ==
    ASSUME NEW p, CPUs = {p}, Admitted(p), ~ Admitted(p)',
           passLog \in [Addrs -> Seq(Nat)], cpu[p].src \in Addrs,
           passLog' = [passLog EXCEPT ![cpu[p].src] = Append(@, cpu[p].now)]
    PROVE  passes' = passes
<1>1. passes = [b \in Addrs |-> IF b = cpu[p].src
                                THEN Append(passLog[b], cpu[p].now)
                                ELSE passLog[b]]
  BY PassesNow
<1>2. passes' = [b \in Addrs |-> passLog'[b]]
  BY PassesNext
<1>. QED
  BY <1>1, <1>2

-----------------------------------------------------------------------------
(* The steps of the program. *)

Quiet(p) ==
    /\ UNCHANGED <<rate_limit_state, clock, passLog>>
    /\ ~ At(p, "reset") /\ ~ At(p, "reset")'
    /\ Admitted(p)' <=> Admitted(p)
    /\ Admitted(p) => cpu'[p].src = cpu[p].src /\ cpu'[p].now = cpu[p].now

LEMMA QuietMaps ==
    ASSUME NEW p, CPUs = {p}, WindowInv(p), Quiet(p)
    PROVE  EntriesSound' /\ UNCHANGED FW!vars
<1>1. EntriesSound'
  BY DEF WindowInv, Quiet, EntriesSound
<1>2. entry' = entry
  BY EntriesKept DEF WindowInv, Quiet
<1>3. passes' = passes
  BY PassesKept DEF Quiet
<1>. QED
  BY <1>1, <1>2, <1>3 DEF Quiet, FW!vars

\* What a step must do.
Implements(p) == EntriesSound' /\ PacketSound(p)' /\ [FW!Next]_(FW!vars)

LEMMA StepsBefore ==
    ASSUME NEW p, CPUs = {p}, WindowInv(p), passLog' = passLog,
           \/ PassUnparsed(p) \/ (\E a \in Addrs : Arrive(p, a))
           \/ CheckBlocklist(p) \/ ReadConfig(p) \/ ReadClock(p) \/ Lookup(p)
    PROVE  Implements(p)
<1>. USE DEF Implements, At
<1>0. /\ p \in CPUs /\ TypeOK /\ Configured /\ EntriesSound /\ PacketSound(p)
      /\ cpu \in [CPUs -> CpuRecord] /\ cpu[p] \in CpuRecord
  BY DEF WindowInv, TypeOK
<1>1. CASE PassUnparsed(p)
  <2>1. UNCHANGED <<rate_limit_state, clock, cpu>> /\ At(p, "idle")
    BY <1>1 DEF PassUnparsed, kernelVars
  <2>2. Quiet(p)
    BY <2>1 DEF Quiet, Admitted
  <2>3. PacketSound(p)'
    BY <2>1 DEF PacketSound, Undecided, PointerSteps
  <2>. QED
    BY <2>2, <2>3, QuietMaps
<1>2. ASSUME NEW a \in Addrs, Arrive(p, a) PROVE Implements(p)
  <2>1. /\ UNCHANGED <<rate_limit_state, clock>> /\ At(p, "idle")
        /\ cpu'[p].pc = "blocklist"
    BY <1>0, <1>2 DEF Arrive, kernelVars, CpuRecord
  <2>2. Quiet(p)
    BY <2>1 DEF Quiet, Admitted
  <2>3. PacketSound(p)'
    BY <2>1 DEF PacketSound, Undecided, PointerSteps
  <2>. QED
    BY <2>2, <2>3, QuietMaps
<1>3. CASE CheckBlocklist(p)
  <2>1. /\ UNCHANGED <<rate_limit_state, clock>> /\ At(p, "blocklist")
        /\ cpu'[p].pc \in {"drop", "config"}
    BY <1>0, <1>3 DEF CheckBlocklist, Unaltered, CpuRecord, Goto
  <2>2. Quiet(p)
    BY <2>1 DEF Quiet, Admitted
  <2>3. PacketSound(p)'
    BY <2>1 DEF PacketSound, Undecided, PointerSteps
  <2>. QED
    BY <2>2, <2>3, QuietMaps
<1>4. CASE ReadConfig(p)
  <2>1. LimiterOn
    BY <1>0, Durations DEF LimiterOn, Configured
  <2>2. /\ UNCHANGED <<rate_limit_state, clock>> /\ At(p, "config")
        /\ cpu'[p].pc = "clock"
    BY <1>0, <1>4, <2>1 DEF ReadConfig, Unaltered, CpuRecord, Goto
  <2>3. Quiet(p)
    BY <2>2 DEF Quiet, Admitted
  <2>4. PacketSound(p)'
    BY <2>2 DEF PacketSound, Undecided, PointerSteps
  <2>. QED
    BY <2>3, <2>4, QuietMaps
<1>5. CASE ReadClock(p)
  <2>1. /\ UNCHANGED <<rate_limit_state, clock>> /\ At(p, "clock")
        /\ cpu'[p].pc = "lookup" /\ cpu'[p].now = clock
    BY <1>0, <1>5 DEF ReadClock, Unaltered, CpuRecord
  <2>2. Quiet(p)
    BY <2>1 DEF Quiet, Admitted
  <2>3. clock \in Nat
    BY <1>0 DEF TypeOK
  <2>4. PacketSound(p)'
    <3>1. \A s \in Slots : rate_limit_state'[s].live
            => rate_limit_state'[s].window_start <= cpu'[p].now
      BY <1>0, <2>1 DEF EntriesSound
    <3>2. cpu'[p].now <= clock'
      BY <2>1, <2>3
    <3>. QED
      BY <2>1, <3>1, <3>2 DEF PacketSound, Undecided, PointerSteps
  <2>. QED
    BY <2>2, <2>4, QuietMaps
<1>6. CASE Lookup(p)
  <2>1. /\ UNCHANGED <<rate_limit_state, clock>> /\ At(p, "lookup")
        /\ cpu'[p].src = cpu[p].src /\ cpu'[p].now = cpu[p].now
        /\ \/ cpu'[p].pc = "window" /\ cpu'[p].slot \in EntriesOf(cpu[p].src)
           \/ cpu'[p].pc = "insert" /\ EntriesOf(cpu[p].src) = {}
    BY <1>0, <1>6 DEF Lookup, Unaltered, CpuRecord, Goto
  <2>2. Quiet(p)
    BY <2>1 DEF Quiet, Admitted
  <2>3. /\ cpu[p].now <= clock
        /\ \A s \in Slots : rate_limit_state[s].live
                => rate_limit_state[s].window_start <= cpu[p].now
    BY <1>0, <2>1 DEF PacketSound, Undecided
  <2>4. PacketSound(p)'
    BY <2>1, <2>3 DEF PacketSound, Undecided, PointerSteps, EntriesOf
  <2>. QED
    BY <2>2, <2>4, QuietMaps
<1>. QED
  BY <1>1, <1>2, <1>3, <1>4, <1>5, <1>6

LEMMA BeginsWindow ==
    ASSUME NEW a, NEW t, NEW lost \in SUBSET Addrs,
           entry[a] = [start |-> 0, count |-> 0],
           entry' = [b \in Addrs |->
              IF b \in lost THEN [start |-> 0, count |-> 0]
              ELSE IF b = a THEN [start |-> t, count |-> 1] ELSE entry[b]],
           passes' = [passes EXCEPT ![a] = Append(@, t)], UNCHANGED clock
    PROVE  FW!Begin(a, t)
<1>1. entry[a].count = 0
  OBVIOUS
<1>2. \E l \in SUBSET Addrs : entry' = [b \in Addrs |->
              IF b \in l THEN [start |-> 0, count |-> 0]
              ELSE IF b = a THEN [start |-> t, count |-> 1] ELSE entry[b]]
  BY Zenon
<1>. QED
  BY <1>1, <1>2, Zenon DEF FW!Begin, FW!LetThrough, FW!NoEntry

LEMMA InsertStep ==
    ASSUME NEW p, CPUs = {p}, WindowInv(p), passLog' = passLog, Insert(p)
    PROVE  Implements(p)
<1>0. /\ p \in CPUs /\ TypeOK /\ EntriesSound /\ PacketSound(p)
      /\ cpu \in [CPUs -> CpuRecord] /\ cpu[p] \in CpuRecord
      /\ At(p, "insert") /\ clock \in Nat
      /\ cpu[p].src \in Addrs /\ cpu[p].now \in Nat
      /\ rate_limit_state \in
            [Slots -> [ip : Addrs, live : BOOLEAN, window_start : Nat, count : Nat]]
  BY DEF WindowInv, TypeOK, Insert, At, CpuRecord
<1>a. PICK a \in Addrs : a = cpu[p].src
  BY <1>0
<1>t. PICK t \in Nat : t = cpu[p].now
  BY <1>0
<1>1. EntriesOf(a) = {} /\ t <= clock
  BY <1>0, <1>a, <1>t DEF PacketSound, At, Undecided
<1>2. /\ cpu'[p].pc = "pass" /\ cpu'[p].src = a /\ cpu'[p].now = t
      /\ clock' = clock
  BY <1>0, <1>a, <1>t, Moved DEF Insert, Unaltered
<1>3. PacketSound(p)'
  BY <1>2 DEF PacketSound, Undecided, PointerSteps
<1>4. passes' = [passes EXCEPT ![a] = Append(@, t)]
  BY <1>0, <1>2, PassesGrow DEF Admitted, At
<1>5. entry[a] = [start |-> 0, count |-> 0]
  BY <1>0, <1>1, EntryNow
<1>6. ~ At(p, "reset") /\ ~ At(p, "reset")'
  BY <1>0, <1>2 DEF At
<1>7. CASE UNCHANGED rate_limit_state
  <2>1. EntriesSound'
    BY <1>0, <1>2, <1>7 DEF EntriesSound
  <2>2. entry' = entry
    BY <1>0, <1>6, <1>7, EntriesKept
  <2>3. entry = [b \in Addrs |-> entry[b]]
    BY DEF entry
  <2>4. entry' = [b \in Addrs |->
              IF b \in {a} THEN [start |-> 0, count |-> 0]
              ELSE IF b = a THEN [start |-> t, count |-> 1] ELSE entry[b]]
    BY <1>5, <2>2, <2>3
  <2>5. FW!Begin(a, t)
    <3>1. {a} \in SUBSET Addrs
      OBVIOUS
    <3>. QED
      BY <1>2, <1>4, <1>5, <2>4, <3>1, BeginsWindow
  <2>. QED
    BY <1>0, <1>1, <1>3, <2>1, <2>5 DEF Implements, FW!Next
<1>8. ASSUME NEW s \in Slots,
             rate_limit_state' = [u \in Slots |->
                  IF u = s
                  THEN [ip |-> a, live |-> TRUE, window_start |-> t, count |-> 1]
                  ELSE [rate_limit_state[u] EXCEPT
                          !.live = @ /\ rate_limit_state[u].ip # a]]
      PROVE  Implements(p)
  <2>1. /\ rate_limit_state'[s] =
              [ip |-> a, live |-> TRUE, window_start |-> t, count |-> 1]
        /\ \A u \in Slots \ {s} : rate_limit_state'[u] = rate_limit_state[u]
    <3>1. ASSUME NEW u \in Slots, u # s
          PROVE  rate_limit_state'[u] = rate_limit_state[u]
      <4>1. rate_limit_state[u].live => rate_limit_state[u].ip # a
        BY <1>1 DEF EntriesOf
      <4>2. (rate_limit_state[u].live /\ rate_limit_state[u].ip # a)
              = rate_limit_state[u].live
        BY <1>0, <4>1
      <4>3. rate_limit_state'[u] = [rate_limit_state[u] EXCEPT
              !.live = rate_limit_state[u].live /\ rate_limit_state[u].ip # a]
        BY <1>8, <3>1
      <4>4. rate_limit_state'[u] = [rate_limit_state[u] EXCEPT
              !.live = rate_limit_state[u].live]
        BY <4>2, <4>3
      <4>. QED
        BY <1>0, <4>4
    <3>. QED
      BY <1>8, <3>1
  <2>2. EntriesOf(a)' = {s}
    BY <1>1, <2>1 DEF EntriesOf
  <2>3. EntriesSound'
    <3>1. \A u \in Slots \ {s} : rate_limit_state[u].live
                => rate_limit_state[u].ip # a
      BY <1>1 DEF EntriesOf
    <3>. QED
      BY <1>0, <1>1, <1>2, <2>1, <3>1 DEF EntriesSound
  <2>4. entry'[a] = [start |-> t, count |-> 1]
    <3>1. entry'[a] = EntryFrom(p, s)'
      BY <1>0, <2>2, EntryNext
    <3>. QED
      BY <1>6, <2>1, <3>1 DEF EntryFrom
  <2>5. ASSUME NEW b \in Addrs, b # a
        PROVE  entry'[b] = entry[b]
                  \/ entry'[b] = [start |-> 0, count |-> 0]
    <3>1. CASE EntriesOf(b)' = {}
      BY <3>1, EntryNext
    <3>2. CASE EntriesOf(b)' # {}
      <4>1. EntriesOf(b)' = EntriesOf(b) \ {s}
        BY <2>1, <2>5 DEF EntriesOf
      <4>2. EntriesOf(b)' = EntriesOf(b)
        BY <1>0, <3>2, <4>1, OneEntry
      <4>3. \A u \in EntriesOf(b) : u \in Slots \ {s}
        BY <4>1, <4>2 DEF EntriesOf
      <4>4. \A u \in EntriesOf(b) : EntryFrom(p, u)' = EntryFrom(p, u)
        BY <1>6, <2>1, <4>3 DEF EntryFrom
      <4>. QED
        BY <1>0, <4>2, <4>4, EntryOther
    <3>. QED
      BY <3>1, <3>2
  <2>6. DEFINE lost == {b \in Addrs : b # a /\ entry'[b] # entry[b]}
  <2>7. entry' = [b \in Addrs |->
              IF b \in lost THEN [start |-> 0, count |-> 0]
              ELSE IF b = a THEN [start |-> t, count |-> 1] ELSE entry[b]]
    <3>1. entry' = [b \in Addrs |-> entry'[b]]
      BY DEF entry
    <3>2. ASSUME NEW b \in Addrs
          PROVE  entry'[b] = IF b \in lost THEN [start |-> 0, count |-> 0]
                             ELSE IF b = a THEN [start |-> t, count |-> 1]
                             ELSE entry[b]
      BY <2>4, <2>5
    <3>. QED
      BY <3>1, <3>2
  <2>8. FW!Begin(a, t)
    <3>1. lost \in SUBSET Addrs
      OBVIOUS
    <3>. HIDE DEF lost
    <3>2. PICK l \in SUBSET Addrs : entry' = [b \in Addrs |->
              IF b \in l THEN [start |-> 0, count |-> 0]
              ELSE IF b = a THEN [start |-> t, count |-> 1] ELSE entry[b]]
      BY <2>7, <3>1, Zenon
    <3>3. UNCHANGED clock
      BY <1>2
    <3>. QED
      BY <1>4, <1>5, <3>2, <3>3, BeginsWindow, Zenon
  <2>. QED
    BY <1>0, <1>1, <1>3, <2>3, <2>8 DEF Implements, FW!Next
<1>. QED
  BY <1>a, <1>t, <1>7, <1>8 DEF Insert

\* What is known of a packet whose pointer is used.
LEMMA Pointing ==
    ASSUME NEW p, CPUs = {p}, WindowInv(p), cpu[p].pc \in PointerSteps
    PROVE  /\ cpu[p].src \in Addrs /\ cpu[p].now \in Nat /\ cpu[p].count \in Nat
           /\ cpu[p].slot \in Slots /\ cpu[p].slot \in EntriesOf(cpu[p].src)
           /\ clock \in Nat /\ clock <= MaxTime
           /\ rate_limit_state[cpu[p].slot].ip = cpu[p].src
           /\ rate_limit_state[cpu[p].slot].live
           /\ rate_limit_state[cpu[p].slot].window_start \in Nat
           /\ rate_limit_state[cpu[p].slot].count \in Nat \ {0}
<1>1. /\ TypeOK /\ EntriesSound /\ PacketSound(p) /\ p \in CPUs
      /\ clock \in Nat /\ clock <= MaxTime
  BY DEF WindowInv, TypeOK
<1>2. /\ cpu[p] \in CpuRecord /\ ~ At(p, "idle")
      /\ cpu[p].src \in Addrs /\ cpu[p].slot \in Slots
  BY <1>1 DEF TypeOK, At, PointerSteps
<1>3. cpu[p].now \in Nat /\ cpu[p].count \in Nat
  BY <1>2 DEF CpuRecord
<1>4. cpu[p].slot \in EntriesOf(cpu[p].src)
  BY <1>1 DEF PacketSound
<1>5. /\ rate_limit_state[cpu[p].slot].ip = cpu[p].src
      /\ rate_limit_state[cpu[p].slot].live
  BY <1>4 DEF EntriesOf
<1>6. rate_limit_state[cpu[p].slot] \in
          [ip : Addrs, live : BOOLEAN, window_start : Nat, count : Nat]
  BY <1>1, <1>2 DEF TypeOK
<1>7. rate_limit_state[cpu[p].slot].count > 0
  BY <1>1, <1>2, <1>5 DEF EntriesSound
<1>. QED
  BY <1>1, <1>2, <1>3, <1>4, <1>5, <1>6, <1>7

LEMMA SmallMod == ASSUME NEW x \in Nat, NEW m \in Nat, x < m PROVE x % m = x
OBVIOUS

\* The steps that read an entry and decide, and those of a decided packet.
LEMMA StepsReading ==
    ASSUME NEW p, CPUs = {p}, WindowInv(p), passLog' = passLog,
           \/ ReadWindow(p) \/ CheckElapsed(p) \/ LoadCount(p)
           \/ Compare(p) \/ CountDrop(p) \/ emit_drop_event(p)
    PROVE  Implements(p)
<1>. USE DEF Implements, At
<1>0. /\ p \in CPUs /\ TypeOK /\ Configured /\ EntriesSound /\ PacketSound(p)
      /\ cpu \in [CPUs -> CpuRecord] /\ cpu[p] \in CpuRecord
      /\ rate_limit_config = [threshold |-> Threshold, window_ms |-> Window]
  BY DEF WindowInv, TypeOK, Configured
<1>1. CASE ReadWindow(p)
  <2>1. /\ UNCHANGED <<rate_limit_state, clock>> /\ At(p, "window")
        /\ cpu'[p].pc = "elapsed" /\ cpu'[p].window = Window
        /\ cpu'[p].src = cpu[p].src /\ cpu'[p].now = cpu[p].now
        /\ cpu'[p].slot = cpu[p].slot
    BY <1>0, <1>1 DEF ReadWindow, Unaltered, CpuRecord
  <2>2. Quiet(p)
    BY <2>1 DEF Quiet, Admitted
  <2>3. /\ cpu[p].now <= clock
        /\ cpu[p].slot \in EntriesOf(cpu[p].src)
        /\ \A s \in Slots : rate_limit_state[s].live
                => rate_limit_state[s].window_start <= cpu[p].now
    BY <1>0, <2>1 DEF PacketSound, Undecided, PointerSteps
  <2>4. PacketSound(p)'
    BY <2>1, <2>3 DEF PacketSound, Undecided, PointerSteps, EntriesOf
  <2>. QED
    BY <2>2, <2>4, QuietMaps
<1>2. CASE CheckElapsed(p)
  <2>1. /\ UNCHANGED <<rate_limit_state, clock>> /\ At(p, "elapsed")
        /\ cpu'[p].src = cpu[p].src /\ cpu'[p].now = cpu[p].now
        /\ cpu'[p].slot = cpu[p].slot
        /\ cpu'[p].pc = IF Expired(p) THEN "restart" ELSE "load"
    BY <1>0, <1>2, Moved DEF CheckElapsed, Unaltered
  <2>2. Quiet(p)
    BY <2>1 DEF Quiet, Admitted
  <2>3. /\ cpu[p].now <= clock /\ cpu[p].window = Window
        /\ cpu[p].slot \in EntriesOf(cpu[p].src)
        /\ \A s \in Slots : rate_limit_state[s].live
                => rate_limit_state[s].window_start <= cpu[p].now
    BY <1>0, <2>1 DEF PacketSound, Undecided, PointerSteps
  <2>4. /\ cpu[p].slot \in Slots /\ rate_limit_state[cpu[p].slot].live
        /\ Start(p) \in Nat /\ cpu[p].now \in Nat /\ clock \in Nat
        /\ clock <= MaxTime
    BY <2>1, Pointing DEF PointerSteps, Start
  <2>5. Start(p) <= cpu[p].now
    BY <2>3, <2>4 DEF Start
  <2>6. (cpu[p].now - Start(p)) % Wrap = cpu[p].now - Start(p)
    <3>1. cpu[p].now - Start(p) \in Nat /\ cpu[p].now - Start(p) < Wrap
      BY <2>3, <2>4, <2>5, Durations
    <3>. QED
      BY <3>1, Durations, SmallMod
  <2>7. Expired(p) <=> cpu[p].now - Start(p) >= Window
    BY <2>3, <2>6 DEF Expired, Start
  <2>8. /\ cpu'[p].pc = "restart" => cpu[p].now - Start(p) >= Window
        /\ cpu'[p].pc = "load" => cpu[p].now - Start(p) < Window
    BY <2>1, <2>4, <2>7, Durations
  <2>9. Start(p)' = Start(p)
    BY <2>1 DEF Start
  <2>10. PacketSound(p)'
    BY <2>1, <2>3, <2>8, <2>9 DEF PacketSound, Undecided, PointerSteps, EntriesOf
  <2>. QED
    BY <2>2, <2>10, QuietMaps
<1>3. CASE LoadCount(p)
  <2>1. /\ UNCHANGED <<rate_limit_state, clock>> /\ At(p, "load")
        /\ cpu'[p].src = cpu[p].src /\ cpu'[p].now = cpu[p].now
        /\ cpu'[p].slot = cpu[p].slot /\ cpu'[p].pc = "store"
        /\ cpu'[p].count = rate_limit_state[cpu[p].slot].count
    BY <1>0, <1>3 DEF LoadCount, Unaltered, CpuRecord
  <2>2. Quiet(p)
    BY <2>1 DEF Quiet, Admitted
  <2>3. /\ cpu[p].now <= clock /\ cpu[p].now - Start(p) < Window
        /\ cpu[p].slot \in EntriesOf(cpu[p].src)
        /\ \A s \in Slots : rate_limit_state[s].live
                => rate_limit_state[s].window_start <= cpu[p].now
    BY <1>0, <2>1 DEF PacketSound, Undecided, PointerSteps
  <2>4. Start(p)' = Start(p)
    BY <2>1 DEF Start
  <2>5. PacketSound(p)'
    BY <2>1, <2>3, <2>4 DEF PacketSound, Undecided, PointerSteps, EntriesOf
  <2>. QED
    BY <2>2, <2>5, QuietMaps
<1>4. CASE Compare(p)
  <2>1. cpu[p].count \in Nat /\ Threshold \in Nat
    BY <1>0, Durations DEF CpuRecord
  <2>2. /\ UNCHANGED <<rate_limit_state, clock>> /\ At(p, "compare")
        /\ \/ cpu'[p].pc = "drop" /\ cpu[p].count > Threshold
           \/ /\ cpu'[p].pc = "pass" /\ ~ (cpu[p].count > Threshold)
              /\ cpu'[p].src = cpu[p].src /\ cpu'[p].now = cpu[p].now
    BY <1>0, <1>4 DEF Compare, Unaltered, OverThreshold, CpuRecord, Goto
  <2>3. Quiet(p)
    BY <2>1, <2>2 DEF Quiet, Admitted
  <2>4. PacketSound(p)'
    BY <2>2 DEF PacketSound, Undecided, PointerSteps
  <2>. QED
    BY <2>3, <2>4, QuietMaps
<1>5. CASE CountDrop(p)
  <2>1. /\ UNCHANGED <<rate_limit_state, clock>> /\ At(p, "drop")
        /\ cpu'[p].pc = "emit"
    BY <1>0, <1>5, Moved DEF CountDrop, Unaltered
  <2>2. Quiet(p)
    BY <2>1 DEF Quiet, Admitted
  <2>3. PacketSound(p)'
    BY <2>1 DEF PacketSound, Undecided, PointerSteps
  <2>. QED
    BY <2>2, <2>3, QuietMaps
<1>6. CASE emit_drop_event(p)
  <2>1. /\ UNCHANGED <<rate_limit_state, clock>> /\ At(p, "emit")
        /\ cpu'[p].pc = "idle"
    BY <1>0, <1>6 DEF emit_drop_event, kernelVars, Idle
  <2>2. Quiet(p)
    BY <2>1 DEF Quiet, Admitted
  <2>3. PacketSound(p)'
    BY <2>1 DEF PacketSound, Undecided, PointerSteps
  <2>. QED
    BY <2>2, <2>3, QuietMaps
<1>. QED
  BY <1>1, <1>2, <1>3, <1>4, <1>5, <1>6

\* A write through the pointer keeps the entries sound.
LEMMA WriteSound ==
    ASSUME TypeOK, EntriesSound, NEW s \in Slots, NEW r,
           rate_limit_state[s].live,
           rate_limit_state' = [rate_limit_state EXCEPT ![s] = r],
           r.ip = rate_limit_state[s].ip, r.live = rate_limit_state[s].live,
           r.window_start <= clock, r.count > 0, UNCHANGED clock
    PROVE  EntriesSound'
<1>1. rate_limit_state' = [t \in Slots |-> IF t = s THEN r ELSE rate_limit_state[t]]
  BY DEF TypeOK
<1>. QED
  BY <1>1 DEF EntriesSound

LEMMA RestartStep ==
    ASSUME NEW p, CPUs = {p}, WindowInv(p), passLog' = passLog, RestartWindow(p)
    PROVE  Implements(p)
<1>0. /\ p \in CPUs /\ TypeOK /\ EntriesSound /\ PacketSound(p)
      /\ At(p, "restart") /\ cpu[p].pc = "restart" /\ cpu[p].pc \in PointerSteps
  BY DEF WindowInv, RestartWindow, At, PointerSteps
<1>a. PICK a \in Addrs : a = cpu[p].src
  BY <1>0, Pointing
<1>t. PICK t \in Nat : t = cpu[p].now
  BY <1>0, Pointing
<1>s. PICK s \in Slots : s = cpu[p].slot
  BY <1>0, Pointing
<1>o. PICK old : old = rate_limit_state[s]
  OBVIOUS
<1>1. /\ s \in EntriesOf(a) /\ old.live /\ old.ip = a
      /\ old.window_start \in Nat /\ old.count \in Nat \ {0}
      /\ old \in [ip : Addrs, live : BOOLEAN, window_start : Nat, count : Nat]
  BY <1>0, <1>a, <1>s, <1>o, Pointing DEF TypeOK
<1>2. t <= clock /\ t - old.window_start >= Window /\ clock \in Nat
  BY <1>0, <1>t, <1>s, <1>o, Pointing DEF PacketSound, Undecided, Start
<1>r. PICK r : r = [old EXCEPT !.window_start = t]
  OBVIOUS
<1>3. /\ r.ip = old.ip /\ r.live = old.live
      /\ r.count = old.count /\ r.window_start = t
  BY <1>1, <1>r
<1>4. rate_limit_state' = [rate_limit_state EXCEPT ![s] = r]
  BY <1>t, <1>s, <1>o, <1>r DEF RestartWindow
<1>5. /\ cpu'[p].pc = "reset" /\ cpu'[p].src = a /\ cpu'[p].now = t
      /\ cpu'[p].slot = s /\ UNCHANGED clock
  BY <1>0, <1>a, <1>t, <1>s, Moved DEF RestartWindow, Unaltered
<1>6. rate_limit_state'[s] = r
  BY <1>0, <1>4 DEF TypeOK
<1>w. /\ r.ip = rate_limit_state[s].ip /\ r.live = rate_limit_state[s].live
      /\ cpu[p].slot = s /\ cpu'[p].slot = s
      /\ r.window_start <= clock /\ r.count > 0 /\ UNCHANGED clock
  <2>1. r.ip = rate_limit_state[s].ip /\ r.live = rate_limit_state[s].live
    BY <1>3, <1>o, Zenon
  <2>3. r.window_start <= clock /\ r.count > 0
    BY <1>1, <1>2, <1>3
  <2>. QED
    BY <1>5, <1>s, <2>1, <2>3
<1>7. EntriesSound'
  <2>1. rate_limit_state[s].live
    BY <1>1, <1>o
  <2>. QED
    BY <1>0, <1>4, <1>w, <2>1, WriteSound
<1>8. PacketSound(p)'
  <2>1. s \in EntriesOf(a)'
    BY <1>1, <1>3, <1>6 DEF EntriesOf
  <2>. QED
    BY <1>5, <2>1 DEF PacketSound, Undecided, EntriesOf
<1>9. /\ entry[a] = EntryFrom(p, s)
      /\ entry'[a] = EntryFrom(p, s)'
      /\ entry' = [entry EXCEPT ![a] = entry'[a]]
  <2>1. \A u \in Slots : u # s => rate_limit_state'[u] = rate_limit_state[u]
    BY <1>0, <1>4 DEF TypeOK
  <2>2. /\ rate_limit_state'[s].ip = rate_limit_state[s].ip
        /\ rate_limit_state'[s].live = rate_limit_state[s].live
    BY <1>6, <1>w
  <2>. QED
    BY <1>0, <1>1, <1>w, <2>1, <2>2, EntryWritten
<1>10. entry[a] = [start |-> old.window_start, count |-> old.count]
  BY <1>0, <1>9, <1>o DEF At, EntryFrom
<1>11. entry'[a] = [start |-> t, count |-> 1]
  BY <1>3, <1>5, <1>6, <1>9 DEF At, EntryFrom
<1>12. passes' = [passes EXCEPT ![a] = Append(@, t)]
  BY <1>0, <1>5, PassesGrow DEF Admitted, At
<1>13. FW!Restart(a, t)
  BY <1>1, <1>2, <1>5, <1>9, <1>10, <1>11, <1>12 DEF FW!Restart, FW!LetThrough
<1>14. t \in 0..clock
  BY <1>2
<1>. QED
  BY <1>7, <1>8, <1>13, <1>14 DEF Implements, FW!Next

LEMMA ResetStep ==
    ASSUME NEW p, CPUs = {p}, WindowInv(p), passLog' = passLog, ResetCount(p)
    PROVE  Implements(p)
<1>0. /\ p \in CPUs /\ TypeOK /\ EntriesSound /\ PacketSound(p)
      /\ At(p, "reset") /\ cpu[p].pc = "reset" /\ cpu[p].pc \in PointerSteps
  BY DEF WindowInv, ResetCount, At, PointerSteps
<1>a. PICK a \in Addrs : a = cpu[p].src
  BY <1>0, Pointing
<1>s. PICK s \in Slots : s = cpu[p].slot
  BY <1>0, Pointing
<1>o. PICK old : old = rate_limit_state[s]
  OBVIOUS
<1>1. /\ s \in EntriesOf(a) /\ old.live /\ old.ip = a
      /\ old.window_start <= clock
      /\ old \in [ip : Addrs, live : BOOLEAN, window_start : Nat, count : Nat]
  BY <1>0, <1>a, <1>s, <1>o, Pointing DEF TypeOK, EntriesSound
<1>r. PICK r : r = [old EXCEPT !.count = 1]
  OBVIOUS
<1>3. /\ r.ip = old.ip /\ r.live = old.live
      /\ r.window_start = old.window_start /\ r.count = 1
  BY <1>1, <1>r
<1>4. rate_limit_state' = [rate_limit_state EXCEPT ![s] = r]
  BY <1>s, <1>o, <1>r DEF ResetCount, FirstCount
<1>5. /\ cpu'[p].pc = "pass" /\ cpu'[p].src = cpu[p].src
      /\ cpu'[p].now = cpu[p].now /\ cpu'[p].slot = s /\ UNCHANGED clock
  BY <1>0, <1>s, Moved DEF ResetCount, Unaltered
<1>6. rate_limit_state'[s] = r
  BY <1>0, <1>4 DEF TypeOK
<1>w. /\ r.ip = rate_limit_state[s].ip /\ r.live = rate_limit_state[s].live
      /\ cpu[p].slot = s /\ cpu'[p].slot = s
      /\ r.window_start <= clock /\ r.count > 0 /\ UNCHANGED clock
  <2>1. r.ip = rate_limit_state[s].ip /\ r.live = rate_limit_state[s].live
    BY <1>3, <1>o, Zenon
  <2>3. r.window_start <= clock /\ r.count > 0
    BY <1>1, <1>3
  <2>. QED
    BY <1>5, <1>s, <2>1, <2>3
<1>7. EntriesSound'
  <2>1. rate_limit_state[s].live
    BY <1>1, <1>o
  <2>. QED
    BY <1>0, <1>4, <1>w, <2>1, WriteSound
<1>8. PacketSound(p)'
  BY <1>5 DEF PacketSound, Undecided, PointerSteps
<1>9. /\ entry[a] = EntryFrom(p, s)
      /\ entry'[a] = EntryFrom(p, s)'
      /\ entry' = [entry EXCEPT ![a] = entry'[a]]
  <2>1. \A u \in Slots : u # s => rate_limit_state'[u] = rate_limit_state[u]
    BY <1>0, <1>4 DEF TypeOK
  <2>2. /\ rate_limit_state'[s].ip = rate_limit_state[s].ip
        /\ rate_limit_state'[s].live = rate_limit_state[s].live
    BY <1>6, <1>w
  <2>. QED
    BY <1>0, <1>1, <1>w, <2>1, <2>2, EntryWritten
<1>10. entry[a] = [start |-> old.window_start, count |-> 1]
  BY <1>0, <1>9, <1>s, <1>o DEF At, EntryFrom
<1>11. entry'[a] = [start |-> old.window_start, count |-> 1]
  BY <1>3, <1>5, <1>6, <1>9 DEF At, EntryFrom
<1>12. entry' = entry
  <2>1. entry = [b \in Addrs |-> entry[b]]
    BY DEF entry
  <2>. QED
    BY <1>9, <1>10, <1>11, <2>1
<1>13. passes' = passes
  BY <1>0, <1>5, PassesKept DEF Admitted, At
<1>. QED
  BY <1>5, <1>7, <1>8, <1>12, <1>13 DEF Implements, FW!vars

LEMMA StoreStep ==
    ASSUME NEW p, CPUs = {p}, WindowInv(p), passLog' = passLog, StoreCount(p)
    PROVE  Implements(p)
<1>0. /\ p \in CPUs /\ TypeOK /\ EntriesSound /\ PacketSound(p)
      /\ At(p, "store") /\ cpu[p].pc = "store" /\ cpu[p].pc \in PointerSteps
      /\ cpu \in [CPUs -> CpuRecord] /\ cpu[p] \in CpuRecord
  BY DEF WindowInv, StoreCount, At, PointerSteps, TypeOK
<1>a. PICK a \in Addrs : a = cpu[p].src
  BY <1>0, Pointing
<1>t. PICK t \in Nat : t = cpu[p].now
  BY <1>0, Pointing
<1>s. PICK s \in Slots : s = cpu[p].slot
  BY <1>0, Pointing
<1>o. PICK old : old = rate_limit_state[s]
  OBVIOUS
<1>1. /\ s \in EntriesOf(a) /\ old.live /\ old.ip = a
      /\ old.window_start \in Nat /\ old.count \in Nat \ {0}
      /\ old \in [ip : Addrs, live : BOOLEAN, window_start : Nat, count : Nat]
  BY <1>0, <1>a, <1>s, <1>o, Pointing DEF TypeOK
<1>2. /\ t <= clock /\ t - old.window_start < Window /\ clock \in Nat
      /\ old.window_start <= t /\ old.window_start <= clock
      /\ cpu[p].count = old.count
  BY <1>0, <1>1, <1>t, <1>s, <1>o, Pointing
  DEF PacketSound, Undecided, Start, EntriesSound
<1>r. PICK r : r = [old EXCEPT !.count = old.count + 1]
  OBVIOUS
<1>3. /\ r.ip = old.ip /\ r.live = old.live
      /\ r.window_start = old.window_start /\ r.count = old.count + 1
  BY <1>1, <1>r
<1>4. rate_limit_state' = [rate_limit_state EXCEPT ![s] = r]
  BY <1>2, <1>s, <1>o, <1>r DEF StoreCount
<1>5. /\ cpu'[p].pc = "compare" /\ cpu'[p].src = a /\ cpu'[p].now = t
      /\ cpu'[p].count = old.count + 1
      /\ cpu'[p].slot = s /\ UNCHANGED clock
  BY <1>0, <1>2, <1>a, <1>t, <1>s DEF StoreCount, Unaltered, CpuRecord
<1>6. rate_limit_state'[s] = r
  BY <1>0, <1>4 DEF TypeOK
<1>w. /\ r.ip = rate_limit_state[s].ip /\ r.live = rate_limit_state[s].live
      /\ cpu[p].slot = s /\ cpu'[p].slot = s
      /\ r.window_start <= clock /\ r.count > 0 /\ UNCHANGED clock
  <2>1. r.ip = rate_limit_state[s].ip /\ r.live = rate_limit_state[s].live
    BY <1>3, <1>o, Zenon
  <2>3. r.window_start <= clock /\ r.count > 0
    BY <1>1, <1>2, <1>3
  <2>. QED
    BY <1>5, <1>s, <2>1, <2>3
<1>7. EntriesSound'
  <2>1. rate_limit_state[s].live
    BY <1>1, <1>o
  <2>. QED
    BY <1>0, <1>4, <1>w, <2>1, WriteSound
<1>8. PacketSound(p)'
  BY <1>5 DEF PacketSound, Undecided, PointerSteps
<1>9. /\ entry[a] = EntryFrom(p, s)
      /\ entry'[a] = EntryFrom(p, s)'
      /\ entry' = [entry EXCEPT ![a] = entry'[a]]
  <2>1. \A u \in Slots : u # s => rate_limit_state'[u] = rate_limit_state[u]
    BY <1>0, <1>4 DEF TypeOK
  <2>2. /\ rate_limit_state'[s].ip = rate_limit_state[s].ip
        /\ rate_limit_state'[s].live = rate_limit_state[s].live
    BY <1>6, <1>w
  <2>. QED
    BY <1>0, <1>1, <1>w, <2>1, <2>2, EntryWritten
<1>10. entry[a] = [start |-> old.window_start, count |-> old.count]
  BY <1>0, <1>9, <1>o DEF At, EntryFrom
<1>11. entry'[a] = [start |-> old.window_start, count |-> old.count + 1]
  BY <1>3, <1>5, <1>6, <1>9 DEF At, EntryFrom
<1>12. IF old.count < Threshold
       THEN passes' = [passes EXCEPT ![a] = Append(@, t)] ELSE passes' = passes
  <2>1. Admitted(p)' <=> old.count < Threshold
    BY <1>1, <1>5, Durations DEF Admitted, At
  <2>2. ~ Admitted(p)
    BY <1>0 DEF Admitted, At
  <2>. QED
    BY <1>5, <2>1, <2>2, PassesGrow, PassesKept
<1>13. FW!Count(a, t)
  <2>1. t - old.window_start \in 0..(Window - 1)
    BY <1>1, <1>2, Durations
  <2>2. entry' = [entry EXCEPT ![a].count = @ + 1]
    <3>1. [entry[a] EXCEPT !.count = @ + 1]
            = [start |-> old.window_start, count |-> old.count + 1]
      BY <1>10
    <3>. QED
      BY <1>9, <1>11, <3>1
  <2>. QED
    BY <1>1, <1>5, <1>10, <1>12, <2>1, <2>2 DEF FW!Count, FW!LetThrough
<1>14. t \in 0..clock
  BY <1>2
<1>. QED
  BY <1>7, <1>8, <1>13, <1>14 DEF Implements, FW!Next

LEMMA PassStep ==
    ASSUME NEW p, CPUs = {p}, WindowInv(p), PassPacket(p),
           passLog' = [passLog EXCEPT ![cpu[p].src] = Append(@, cpu[p].now)]
    PROVE  Implements(p)
<1>0. /\ p \in CPUs /\ TypeOK /\ EntriesSound /\ At(p, "pass")
      /\ cpu \in [CPUs -> CpuRecord] /\ cpu[p].src \in Addrs
      /\ passLog \in [Addrs -> Seq(Nat)]
  BY DEF WindowInv, PassPacket, At, TypeOK
<1>1. cpu'[p].pc = "idle" /\ UNCHANGED <<rate_limit_state, clock>>
  BY <1>0 DEF PassPacket, kernelVars, Idle
<1>2. Admitted(p) /\ ~ Admitted(p)' /\ ~ At(p, "reset") /\ ~ At(p, "reset")'
  BY <1>0, <1>1 DEF Admitted, At
<1>3. entry' = entry
  BY <1>0, <1>1, <1>2, EntriesKept
<1>4. passes' = passes
  BY <1>0, <1>2, PassesLogged
<1>5. PacketSound(p)'
  BY <1>1 DEF PacketSound, Undecided, PointerSteps
<1>6. EntriesSound'
  BY <1>0, <1>1 DEF EntriesSound
<1>. QED
  BY <1>1, <1>3, <1>4, <1>5, <1>6 DEF Implements, FW!vars

LEMMA TickStep ==
    ASSUME NEW p, CPUs = {p}, WindowInv(p), passLog' = passLog, Tick
    PROVE  Implements(p)
<1>0. /\ TypeOK /\ EntriesSound /\ PacketSound(p) /\ clock \in Nat /\ p \in CPUs
      /\ cpu \in [CPUs -> CpuRecord] /\ cpu[p] \in CpuRecord
      /\ rate_limit_state \in
            [Slots -> [ip : Addrs, live : BOOLEAN, window_start : Nat, count : Nat]]
  BY DEF WindowInv, TypeOK
<1>1. UNCHANGED <<rate_limit_state, cpu>> /\ clock' = clock + 1
  BY DEF Tick, kernelVars
<1>2. EntriesSound'
  BY <1>0, <1>1 DEF EntriesSound
<1>3. PacketSound(p)'
  <2>1. cpu[p].now \in Nat
    BY <1>0 DEF CpuRecord
  <2>2. cpu[p].pc \in Undecided => cpu[p].now <= clock'
    BY <1>0, <1>1, <2>1 DEF PacketSound
  <2>3. Start(p)' = Start(p) /\ \A a \in {cpu[p].src} : EntriesOf(a)' = EntriesOf(a)
    BY <1>1 DEF Start, EntriesOf
  <2>. QED
    BY <1>0, <1>1, <2>2, <2>3 DEF PacketSound, EntriesOf
<1>4. entry' = entry
  BY <1>0, <1>1, EntriesSame
<1>5. passes' = passes
  BY <1>1, PassesKept DEF Admitted, At
<1>. QED
  BY <1>1, <1>2, <1>3, <1>4, <1>5 DEF Implements, FW!Next, FW!Tick

-----------------------------------------------------------------------------
(* The theorem. *)

LEMMA FirewallStep ==
    ASSUME NEW p, CPUs = {p}, WindowInv(p), Firewall(p)
    PROVE  WindowInv(p)' /\ [FW!Next]_(FW!vars)
<1>0. /\ p \in CPUs /\ TypeOK /\ Configured /\ clock <= MaxTime
      /\ passLog \in [Addrs -> Seq(Nat)] /\ xdp_firewall(p)
      /\ cpu[p] \in CpuRecord /\ (At(p, "pass") => cpu[p].src \in Addrs)
  BY DEF WindowInv, Firewall, TypeOK, At
<1>1. /\ At(p, "pass") =>
            passLog' = [passLog EXCEPT ![cpu[p].src] = Append(@, cpu[p].now)]
      /\ ~ At(p, "pass") => passLog' = passLog
  BY DEF Firewall
<1>2. Implements(p)
  <2>1. CASE PassPacket(p)
    BY <1>1, <2>1, PassStep DEF PassPacket
  <2>2. CASE ~ PassPacket(p)
    <3>1. passLog' = passLog
      BY <1>0, <1>1, <2>2
      DEF xdp_firewall, PassUnparsed, Arrive, CheckBlocklist, ReadConfig,
          ReadClock, Lookup, Insert, ReadWindow, CheckElapsed, RestartWindow,
          ResetCount, LoadCount, StoreCount, Compare, CountDrop,
          emit_drop_event, At
    <3>. QED
      BY <1>0, <2>2, <3>1, StepsBefore, InsertStep, StepsReading, RestartStep,
         ResetStep, StoreStep
      DEF xdp_firewall
  <2>. QED
    BY <2>1, <2>2
<1>3. TypeOK'
  BY <1>0, FirewallType
<1>4. UNCHANGED <<rate_limit_config, clock>>
  BY <1>0
  DEF xdp_firewall, PassUnparsed, Arrive, CheckBlocklist, ReadConfig,
      ReadClock, Lookup, Insert, ReadWindow, CheckElapsed, RestartWindow,
      ResetCount, LoadCount, StoreCount, Compare, CountDrop,
      emit_drop_event, PassPacket, Unaltered, kernelVars
<1>5. passLog' \in [Addrs -> Seq(Nat)]
  <2>1. CASE At(p, "pass")
    <3>1. cpu[p].now \in Nat /\ cpu[p].src \in Addrs
      BY <1>0, <2>1 DEF CpuRecord
    <3>2. Append(passLog[cpu[p].src], cpu[p].now) \in Seq(Nat)
      BY <1>0, <3>1, AppendProperties
    <3>. QED
      BY <1>0, <1>1, <2>1, <3>1, <3>2
  <2>. QED
    BY <1>0, <1>1, <2>1
<1>. QED
  BY <1>0, <1>2, <1>3, <1>4, <1>5 DEF WindowInv, Configured, Implements

LEMMA WindowStep ==
    ASSUME NEW p, CPUs = {p}, WindowInv(p), [WindowNext]_windowVars
    PROVE  WindowInv(p)' /\ [FW!Next]_(FW!vars)
<1>1. CASE \E c \in CPUs : Firewall(c)
  BY <1>1, FirewallStep
<1>2. CASE Tick /\ UNCHANGED <<passLog, forgotten>>
  <2>1. Implements(p)
    BY <1>2, TickStep
  <2>2. TypeOK'
    BY <1>2, NextType DEF WindowInv, Next
  <2>3. UNCHANGED rate_limit_config /\ clock' <= MaxTime
    BY <1>2, Durations DEF Tick, kernelVars, WindowInv, TypeOK
  <2>. QED
    BY <1>2, <2>1, <2>2, <2>3 DEF WindowInv, Configured, Implements
<1>3. CASE UNCHANGED windowVars
  <2>1. UNCHANGED <<vars, rate_limit_state, rate_limit_config, cpu, clock, passLog>>
    BY <1>3 DEF windowVars, vars, kernelVars
  <2>2. entry' = entry
    BY <2>1, EntriesSame DEF WindowInv
  <2>3. passes' = passes
    BY <2>1, PassesKept DEF Admitted, At
  <2>4. TypeOK'
    BY <2>1, NextType DEF WindowInv
  <2>5. EntriesSound' /\ PacketSound(p)'
    BY <2>1 DEF WindowInv, EntriesSound, PacketSound, EntriesOf, Start
  <2>. QED
    BY <2>1, <2>2, <2>3, <2>4, <2>5 DEF WindowInv, Configured, FW!vars
<1>. QED
  BY <1>1, <1>2, <1>3 DEF WindowNext

LEMMA WindowInitMaps ==
    ASSUME NEW p, CPUs = {p}, WindowInit
    PROVE  FW!Init
<1>1. \A a \in Addrs : EntriesOf(a) = {}
  BY DEF WindowInit, EntriesOf
<1>2. entry = [a \in Addrs |-> [start |-> 0, count |-> 0]]
  BY <1>1 DEF entry
<1>3. p \in CPUs /\ cpu[p].pc = "idle" /\ clock = 0
      /\ passLog = [a \in Addrs |-> <<>>]
  BY DEF WindowInit, Idle
<1>4. passes = [a \in Addrs |-> <<>>]
  BY <1>3, PassesNow DEF Admitted, At
<1>. QED
  BY <1>2, <1>3, <1>4 DEF FW!Init, FW!NoEntry

\* One CPU: the steps of the XDP program through pointers into the LRU map
\* (lines 150-175) amount to a limiter that decides each packet at once.
THEOREM LimiterIsFixedWindow ==
    ASSUME NEW p, CPUs = {p}
    PROVE  WindowSpec => ImplementsFixedWindow
<1>1. WindowInit => WindowInv(p) /\ FW!Init
  BY WindowInitInv, WindowInitMaps
<1>2. WindowInv(p) /\ [WindowNext]_windowVars
        => WindowInv(p)' /\ [FW!Next]_(FW!vars)
  BY WindowStep
<1>. QED
  BY <1>1, <1>2, PTL DEF WindowSpec, ImplementsFixedWindow, FW!Spec
-----------------------------------------------------------------------------
(* No drop before the quota of the window was used up. *)

\* The last packets of a source that were let through, up to the threshold and
\* as many as its entry has counted, came since the entry's window started.
QuotaOK(e, ps) ==
    /\ e.count \in Nat /\ e.start \in Nat /\ ps \in Seq(Nat)
    /\ \A m \in 1..Threshold :
          m <= e.count => m <= Len(ps) /\ ps[Len(ps) - m + 1] >= e.start

Quota == \A a \in Addrs : QuotaOK(entry[a], passes[a])

LEMMA QuotaEmpty ==
    ASSUME NEW ps \in Seq(Nat)
    PROVE  QuotaOK([start |-> 0, count |-> 0], ps)
BY Durations DEF QuotaOK

LEMMA QuotaBegins ==
    ASSUME NEW ps \in Seq(Nat), NEW t \in Nat
    PROVE  QuotaOK([start |-> t, count |-> 1], Append(ps, t))
<1>1. /\ Append(ps, t) \in Seq(Nat) /\ Len(Append(ps, t)) = Len(ps) + 1
      /\ Append(ps, t)[Len(ps) + 1] = t
  OBVIOUS
<1>. QED
  BY <1>1, Durations DEF QuotaOK

LEMMA QuotaCounts ==
    ASSUME NEW e, NEW f, NEW ps, NEW t \in Nat, QuotaOK(e, ps),
           f.start = e.start, f.count = e.count + 1, t >= e.start
    PROVE  IF e.count < Threshold THEN QuotaOK(f, Append(ps, t)) ELSE QuotaOK(f, ps)
<1>1. PICK n \in Nat, st \in Nat, k \in Nat :
          n = Len(ps) /\ st = e.start /\ k = e.count
  BY DEF QuotaOK
<1>2. /\ ps \in Seq(Nat)
      /\ \A m \in 1..Threshold : m <= k => m <= n /\ ps[n - m + 1] >= st
  BY <1>1 DEF QuotaOK
<1>3. CASE e.count >= Threshold
  BY <1>1, <1>2, <1>3, Durations DEF QuotaOK
<1>4. CASE e.count < Threshold
  <2>1. PICK qs \in Seq(Nat) :
            /\ qs = Append(ps, t) /\ Len(qs) = n + 1 /\ qs[n + 1] = t
            /\ \A i \in 1..n : qs[i] = ps[i]
    <3>1. /\ Append(ps, t) \in Seq(Nat) /\ Len(Append(ps, t)) = n + 1
          /\ Append(ps, t)[n + 1] = t
      BY <1>1, <1>2
    <3>2. \A i \in 1..n : Append(ps, t)[i] = ps[i]
      BY <1>1, <1>2
    <3>. QED
      BY <3>1, <3>2
  <2>2. ASSUME NEW m \in 1..Threshold, m <= k + 1
        PROVE  m <= n + 1 /\ qs[n + 1 - m + 1] >= st
    <3>1. CASE m = 1
      BY <1>1, <2>1, <3>1
    <3>2. CASE m > 1
      <4>1. PICK j \in 1..Threshold : j = m - 1 /\ j <= k
        BY <1>1, <2>2, <3>2, Durations
      <4>2. j <= n /\ ps[n - j + 1] >= st
        BY <1>2, <4>1
      <4>3. PICK i \in 1..n : i = n - j + 1 /\ i = n + 1 - m + 1
        BY <4>1, <4>2
      <4>. QED
        BY <2>1, <4>1, <4>2, <4>3
    <3>. QED
      BY <2>2, <3>1, <3>2
  <2>. QED
    BY <1>1, <1>4, <2>1, <2>2 DEF QuotaOK
<1>. QED
  BY <1>1, <1>3, <1>4, Durations

\* The abstract limiter keeps the quota.
LEMMA QuotaStep ==
    ASSUME Quota, clock \in Nat, [FW!Next]_(FW!vars)
    PROVE  Quota'
<1>0. /\ entry = [a \in Addrs |-> entry[a]] /\ passes = [a \in Addrs |-> passes[a]]
  BY DEF entry, passes
<1>a. \A a \in Addrs : passes[a] \in Seq(Nat)
  BY DEF Quota, QuotaOK
<1>1. CASE UNCHANGED <<entry, passes>>
  BY <1>1 DEF Quota
<1>2. ASSUME NEW a \in Addrs, NEW t \in 0..clock, FW!Begin(a, t) PROVE Quota'
  <2>1. PICK lost \in SUBSET Addrs :
            entry' = [b \in Addrs |->
              IF b \in lost THEN [start |-> 0, count |-> 0]
              ELSE IF b = a THEN [start |-> t, count |-> 1] ELSE entry[b]]
    BY <1>2 DEF FW!Begin, FW!NoEntry
  <2>2. passes' = [passes EXCEPT ![a] = Append(@, t)]
    BY <1>2 DEF FW!Begin, FW!LetThrough
  <2>3. ASSUME NEW b \in Addrs PROVE QuotaOK(entry'[b], passes'[b])
    <3>1. passes'[b] \in Seq(Nat)
      BY <1>0, <1>a, <2>2
    <3>2. CASE b \in lost
      BY <2>1, <3>1, <3>2, QuotaEmpty
    <3>3. CASE b \notin lost /\ b = a
      <4>1. entry'[b] = [start |-> t, count |-> 1]
            /\ passes'[b] = Append(passes[a], t) /\ t \in Nat
        BY <1>0, <2>1, <2>2, <3>3
      <4>. QED
        BY <1>a, <4>1, QuotaBegins
    <3>4. CASE b \notin lost /\ b # a
      BY <1>0, <2>1, <2>2, <3>4 DEF Quota
    <3>. QED
      BY <3>2, <3>3, <3>4
  <2>. QED
    BY <2>3 DEF Quota
<1>3. ASSUME NEW a \in Addrs, NEW t \in 0..clock, FW!Restart(a, t) PROVE Quota'
  <2>1. /\ entry' = [entry EXCEPT ![a] = [start |-> t, count |-> 1]]
        /\ passes' = [passes EXCEPT ![a] = Append(@, t)]
    BY <1>3 DEF FW!Restart, FW!LetThrough
  <2>2. QuotaOK(entry'[a], passes'[a])
    <3>1. entry'[a] = [start |-> t, count |-> 1]
          /\ passes'[a] = Append(passes[a], t) /\ t \in Nat
      BY <1>0, <2>1
    <3>. QED
      BY <1>a, <3>1, QuotaBegins
  <2>. QED
    BY <1>0, <2>1, <2>2 DEF Quota
<1>4. ASSUME NEW a \in Addrs, NEW t \in 0..clock, FW!Count(a, t) PROVE Quota'
  <2>1. /\ t - entry[a].start \in 0..(Window - 1)
        /\ entry' = [entry EXCEPT ![a].count = @ + 1]
        /\ IF entry[a].count < Threshold
           THEN passes' = [passes EXCEPT ![a] = Append(@, t)]
           ELSE passes' = passes
    BY <1>4 DEF FW!Count, FW!LetThrough
  <2>2. QuotaOK(entry[a], passes[a]) /\ entry[a].start \in Nat
        /\ entry[a] = [start |-> entry[a].start, count |-> entry[a].count]
    <3>1. QuotaOK(entry[a], passes[a])
      BY DEF Quota
    <3>2. \E x, y : entry[a] = [start |-> x, count |-> y]
      BY DEF entry
    <3>. QED
      BY <3>1, <3>2 DEF QuotaOK
  <2>3. PICK f : f = [start |-> entry[a].start, count |-> entry[a].count + 1]
    OBVIOUS
  <2>4. entry' = [entry EXCEPT ![a] = f]
    <3>1. PICK x, y : entry[a] = [start |-> x, count |-> y]
      BY <2>2
    <3>2. [entry[a] EXCEPT !.count = @ + 1] = f
      BY <2>3, <3>1
    <3>3. entry' = [entry EXCEPT ![a] = [entry[a] EXCEPT !.count = @ + 1]]
      BY <1>0, <2>1
    <3>. QED
      BY <3>2, <3>3
  <2>5. t >= entry[a].start /\ t \in Nat
    BY <2>1, <2>2
  <2>6. IF entry[a].count < Threshold THEN QuotaOK(f, Append(passes[a], t))
        ELSE QuotaOK(f, passes[a])
    BY <2>2, <2>3, <2>5, QuotaCounts
  <2>7. QuotaOK(entry'[a], passes'[a])
    BY <1>0, <2>1, <2>4, <2>6
  <2>8. \A b \in Addrs : b # a => entry'[b] = entry[b] /\ passes'[b] = passes[b]
    BY <1>0, <2>1, <2>4
  <2>. QED
    BY <2>7, <2>8 DEF Quota
<1>. QED
  BY <1>1, <1>2, <1>3, <1>4 DEF FW!Next, FW!Tick, FW!vars

\* The packet has read the clock, and the limiter may yet drop it or has.
OnLimiter(p) ==
    \/ cpu[p].pc \in {"lookup", "insert", "window", "elapsed", "restart",
                      "reset", "load", "store", "compare"}
    \/ cpu[p].pc = "drop" /\ cpu[p].reason = 2

\* No packet was let through later than the one on its way was received.
LogIsPast(p) ==
    /\ cpu[p].now <= clock
    /\ \A a \in Addrs : \A i \in DOMAIN passLog[a] :
          /\ passLog[a][i] <= clock
          /\ OnLimiter(p) => passLog[a][i] <= cpu[p].now

\* The count was stored, and the packet compares it or was dropped for it.
Judged(p) ==
    \/ cpu[p].pc = "compare"
    \/ cpu[p].pc = "drop" /\ cpu[p].reason = 2

\* A packet that is dropped for its rate found the count of its source above
\* the threshold in a window that was not over.
DropOK(p) ==
    Judged(p) =>
       /\ cpu[p].slot \in EntriesOf(cpu[p].src)
       /\ cpu[p].now - Start(p) < Window
       /\ cpu[p].pc = "compare"
             => cpu[p].count = rate_limit_state[cpu[p].slot].count
       /\ cpu[p].pc = "drop"
             => rate_limit_state[cpu[p].slot].count > Threshold

\* A step that adds nothing to the log, and by which a packet gets on the
\* limiter only when it reads the clock.
LEMMA LogKept ==
    ASSUME NEW p, LogIsPast(p), UNCHANGED <<passLog, clock>>, clock \in Nat,
           \/ cpu'[p].now = cpu[p].now /\ (OnLimiter(p)' => OnLimiter(p))
           \/ cpu'[p].now = clock
           \/ cpu'[p].now = 0 /\ ~ OnLimiter(p)'
    PROVE  LogIsPast(p)'
<1> DEFINE P == OnLimiter(p)
<1>1. P' <=> OnLimiter(p)'
  OBVIOUS
<1> HIDE DEF P
<1>. QED
  BY <1>1 DEF LogIsPast

\* Where the steps of a packet lead that is not judged by the limiter then.
OffLimiter(p) ==
    /\ UNCHANGED <<passLog, clock>>
    /\ cpu'[p].now = cpu[p].now \/ cpu'[p].now = 0
    /\ ~ OnLimiter(p)' /\ ~ Judged(p)'

\* The packet stays on the limiter, which has not judged it yet.
StaysOn(p) ==
    /\ UNCHANGED <<passLog, clock>>
    /\ \/ cpu'[p].now = cpu[p].now /\ OnLimiter(p)
       \/ cpu'[p].now = clock
    /\ ~ Judged(p)'

LEMMA StepsOff ==
    ASSUME NEW p \in CPUs, TypeOK, passLog' = passLog,
           \/ PassUnparsed(p) \/ (\E a \in Addrs : Arrive(p, a))
           \/ CheckBlocklist(p) \/ ReadConfig(p) \/ Insert(p)
           \/ ResetCount(p) \/ CountDrop(p) \/ emit_drop_event(p)
    PROVE  OffLimiter(p)
<1>. USE DEF OffLimiter, OnLimiter, Judged, At
<1>0. cpu \in [CPUs -> CpuRecord] /\ cpu[p] \in CpuRecord
  BY DEF TypeOK
<1>1. CASE PassUnparsed(p)
  BY <1>1 DEF PassUnparsed
<1>2. ASSUME NEW a \in Addrs, Arrive(p, a) PROVE OffLimiter(p)
  BY <1>0, <1>2 DEF Arrive, CpuRecord
<1>3. CASE CheckBlocklist(p)
  BY <1>0, <1>3 DEF CheckBlocklist, CpuRecord, Goto, Unaltered
<1>4. CASE ReadConfig(p)
  BY <1>0, <1>4 DEF ReadConfig, CpuRecord, Goto, Unaltered
<1>5. CASE Insert(p)
  <2>1. Goto(p, "pass") /\ UNCHANGED clock
    BY <1>5 DEF Insert, Unaltered
  <2>. QED
    BY <2>1, Moved
<1>6. CASE ResetCount(p)
  <2>1. Goto(p, "pass") /\ UNCHANGED clock
    BY <1>6 DEF ResetCount, Unaltered
  <2>. QED
    BY <2>1, Moved
<1>7. CASE CountDrop(p)
  <2>1. Goto(p, "emit") /\ UNCHANGED clock
    BY <1>7 DEF CountDrop, Unaltered
  <2>. QED
    BY <2>1, Moved
<1>8. CASE emit_drop_event(p)
  <2>1. cpu'[p] = Idle /\ UNCHANGED clock
    BY <1>0, <1>8 DEF emit_drop_event
  <2>. QED
    BY <2>1 DEF Idle
<1>. QED
  BY <1>1, <1>2, <1>3, <1>4, <1>5, <1>6, <1>7, <1>8

LEMMA StepsOn ==
    ASSUME NEW p \in CPUs, TypeOK, passLog' = passLog,
           \/ ReadClock(p) \/ Lookup(p) \/ ReadWindow(p) \/ CheckElapsed(p)
           \/ RestartWindow(p) \/ LoadCount(p)
    PROVE  StaysOn(p)
<1>. USE DEF StaysOn, OnLimiter, Judged, At
<1>0. cpu \in [CPUs -> CpuRecord] /\ cpu[p] \in CpuRecord
  BY DEF TypeOK
<1>1. CASE ReadClock(p)
  BY <1>0, <1>1 DEF ReadClock, CpuRecord, Unaltered
<1>2. CASE Lookup(p)
  BY <1>0, <1>2 DEF Lookup, CpuRecord, Goto, Unaltered
<1>3. CASE ReadWindow(p)
  BY <1>0, <1>3 DEF ReadWindow, CpuRecord, Unaltered
<1>4. CASE CheckElapsed(p)
  <2>1. /\ cpu[p].pc = "elapsed" /\ UNCHANGED clock
        /\ Goto(p, "restart") \/ Goto(p, "load")
    BY <1>4 DEF CheckElapsed, Unaltered
  <2>. QED
    BY <2>1, Moved
<1>5. CASE RestartWindow(p)
  <2>1. cpu[p].pc = "restart" /\ UNCHANGED clock /\ Goto(p, "reset")
    BY <1>5 DEF RestartWindow, Unaltered
  <2>. QED
    BY <2>1, Moved
<1>6. CASE LoadCount(p)
  BY <1>0, <1>6 DEF LoadCount, CpuRecord, Unaltered
<1>. QED
  BY <1>1, <1>2, <1>3, <1>4, <1>5, <1>6

\* The count that is stored is the one that is compared, in the same window.
LEMMA StoreJudges ==
    ASSUME NEW p, CPUs = {p}, WindowInv(p), LogIsPast(p), passLog' = passLog,
           StoreCount(p)
    PROVE  LogIsPast(p)' /\ DropOK(p)'
<1>0. /\ p \in CPUs /\ TypeOK /\ PacketSound(p) /\ clock \in Nat
      /\ cpu[p].pc = "store" /\ cpu[p].pc \in PointerSteps
      /\ cpu \in [CPUs -> CpuRecord] /\ cpu[p] \in CpuRecord
  BY DEF WindowInv, StoreCount, At, PointerSteps, TypeOK
<1>1. PICK s \in Slots : s = cpu[p].slot
  BY <1>0, Pointing
<1>2. s \in EntriesOf(cpu[p].src) /\ cpu[p].now - rate_limit_state[s].window_start < Window
  BY <1>0, <1>1 DEF PacketSound, Start
<1>3. /\ cpu'[p].pc = "compare" /\ cpu'[p].count = cpu[p].count + 1
      /\ cpu'[p].src = cpu[p].src /\ cpu'[p].now = cpu[p].now /\ cpu'[p].slot = s
      /\ UNCHANGED clock
  BY <1>0, <1>1 DEF StoreCount, CpuRecord, Unaltered
<1>4. rate_limit_state' = [rate_limit_state EXCEPT ![s].count = cpu[p].count + 1]
  BY <1>1 DEF StoreCount
<1>5. rate_limit_state \in
        [Slots -> [ip : Addrs, live : BOOLEAN, window_start : Nat, count : Nat]]
  BY <1>0 DEF TypeOK
<1>6. /\ rate_limit_state'[s].count = cpu[p].count + 1
      /\ rate_limit_state'[s].window_start = rate_limit_state[s].window_start
      /\ rate_limit_state'[s].live = rate_limit_state[s].live
      /\ rate_limit_state'[s].ip = rate_limit_state[s].ip
  BY <1>4, <1>5
<1>7. s \in EntriesOf(cpu[p].src)'
  BY <1>2, <1>3, <1>6 DEF EntriesOf
<1>8. LogIsPast(p)'
  <2>1. OnLimiter(p)
    BY <1>0 DEF OnLimiter
  <2>. QED
    BY <1>0, <1>3, <2>1, LogKept
<1>9. DropOK(p)'
  BY <1>2, <1>3, <1>6, <1>7 DEF DropOK, Start, EntriesOf
<1>. QED
  BY <1>8, <1>9

LEMMA CompareJudges ==
    ASSUME NEW p, CPUs = {p}, WindowInv(p), LogIsPast(p), DropOK(p),
           passLog' = passLog, Compare(p)
    PROVE  LogIsPast(p)' /\ DropOK(p)'
<1>0. /\ p \in CPUs /\ TypeOK /\ clock \in Nat /\ cpu[p].pc = "compare"
      /\ cpu \in [CPUs -> CpuRecord] /\ cpu[p] \in CpuRecord
      /\ rate_limit_config.threshold = Threshold
  BY DEF WindowInv, Compare, At, TypeOK, Configured
<1>1. /\ cpu'[p].now = cpu[p].now /\ cpu'[p].src = cpu[p].src
      /\ cpu'[p].slot = cpu[p].slot
      /\ UNCHANGED <<clock, rate_limit_state>>
      /\ \/ cpu'[p].pc = "pass"
         \/ cpu'[p].pc = "drop" /\ cpu[p].count > Threshold
  BY <1>0 DEF Compare, CpuRecord, Goto, Unaltered, OverThreshold
<1>2. LogIsPast(p)'
  <2>1. OnLimiter(p)
    BY <1>0 DEF OnLimiter
  <2>. QED
    BY <1>0, <1>1, <2>1, LogKept
<1>3. /\ cpu[p].slot \in EntriesOf(cpu[p].src)
      /\ cpu[p].now - Start(p) < Window
      /\ cpu[p].count = rate_limit_state[cpu[p].slot].count
  <2>1. Judged(p)
    BY <1>0 DEF Judged
  <2>. QED
    BY <1>0, <2>1, Zenon DEF DropOK
<1>4. /\ (cpu[p].slot \in EntriesOf(cpu[p].src))'
      /\ (cpu[p].now - Start(p) < Window)'
  BY <1>1, <1>3 DEF Start, EntriesOf
<1>5. cpu'[p].pc = "drop" => (rate_limit_state[cpu[p].slot].count > Threshold)'
  BY <1>1, <1>3
<1>6. cpu'[p].pc # "compare"
  BY <1>1
<1>7. DropOK(p)'
  BY <1>4, <1>5, <1>6 DEF DropOK
<1>. QED
  BY <1>2, <1>7

LEMMA PassLogs ==
    ASSUME NEW p \in CPUs, TypeOK, LogIsPast(p), PassPacket(p),
           passLog \in [Addrs -> Seq(Nat)], cpu[p].src \in Addrs,
           passLog' = [passLog EXCEPT ![cpu[p].src] = Append(@, cpu[p].now)]
    PROVE  LogIsPast(p)' /\ DropOK(p)'
<1>1. cpu'[p] = Idle /\ UNCHANGED clock
  BY DEF PassPacket, TypeOK
<1>2. ~ OnLimiter(p)' /\ ~ Judged(p)'
  BY <1>1 DEF OnLimiter, Judged, Idle
<1>3. clock \in Nat /\ cpu[p].now \in Nat /\ cpu[p].now <= clock
  BY DEF TypeOK, CpuRecord, LogIsPast
<1>4. ASSUME NEW a \in Addrs, NEW i \in DOMAIN passLog'[a]
      PROVE  passLog'[a][i] <= clock
  <2>1. PICK ps \in Seq(Nat) : ps = passLog[a]
    OBVIOUS
  <2>2. \A k \in DOMAIN ps : ps[k] <= clock
    BY <2>1 DEF LogIsPast
  <2>3. passLog'[a] = ps \/ passLog'[a] = Append(ps, cpu[p].now)
    BY <2>1
  <2>4. CASE passLog'[a] = ps
    BY <1>4, <2>2, <2>4
  <2>5. CASE passLog'[a] = Append(ps, cpu[p].now)
    <3>1. \/ i \in 1..Len(ps) /\ passLog'[a][i] = ps[i]
          \/ passLog'[a][i] = cpu[p].now
      BY <1>3, <1>4, <2>5
    <3>. QED
      BY <1>3, <2>2, <3>1
  <2>. QED
    BY <2>3, <2>4, <2>5
<1>5. LogIsPast(p)'
  <2>1. cpu'[p].now = 0
    BY <1>1 DEF Idle
  <2>. QED
    BY <1>1, <1>2, <1>3, <1>4, <2>1 DEF LogIsPast
<1>6. DropOK(p)'
  BY <1>2 DEF DropOK
<1>. QED
  BY <1>5, <1>6

LEMMA JudgedStep ==
    ASSUME NEW p, CPUs = {p}, WindowInv(p), LogIsPast(p), DropOK(p),
           [WindowNext]_windowVars
    PROVE  LogIsPast(p)' /\ DropOK(p)'
<1>0. /\ p \in CPUs /\ TypeOK /\ clock \in Nat
      /\ passLog \in [Addrs -> Seq(Nat)]
      /\ At(p, "pass") => cpu[p].src \in Addrs
  BY DEF WindowInv, TypeOK, At
<1>1. CASE \E c \in CPUs : Firewall(c)
  <2>1. /\ xdp_firewall(p)
        /\ At(p, "pass") =>
             passLog' = [passLog EXCEPT ![cpu[p].src] = Append(@, cpu[p].now)]
        /\ ~ At(p, "pass") => passLog' = passLog
    BY <1>1 DEF Firewall
  <2>2. CASE At(p, "pass")
    <3>1. PassPacket(p)
      BY <2>1, <2>2
      DEF xdp_firewall, At, PassUnparsed, Arrive, CheckBlocklist, ReadConfig,
          ReadClock, Lookup, Insert, ReadWindow, CheckElapsed, RestartWindow,
          ResetCount, LoadCount, StoreCount, Compare, CountDrop,
          emit_drop_event
    <3>. QED
      BY <1>0, <2>1, <2>2, <3>1, PassLogs
  <2>3. CASE ~ At(p, "pass")
    <3>1. ~ PassPacket(p) /\ passLog' = passLog
      BY <2>1, <2>3 DEF PassPacket
    <3>2. CASE OffLimiter(p)
      <4>1. LogIsPast(p)'
        BY <1>0, <3>2, LogKept DEF OffLimiter
      <4>2. DropOK(p)'
        BY <3>2 DEF OffLimiter, DropOK
      <4>. QED
        BY <4>1, <4>2
    <3>3. CASE StaysOn(p)
      <4>1. LogIsPast(p)'
        BY <1>0, <3>3, LogKept DEF StaysOn
      <4>2. DropOK(p)'
        BY <3>3 DEF StaysOn, DropOK
      <4>. QED
        BY <4>1, <4>2
    <3>4. CASE StoreCount(p)
      BY <3>1, <3>4, StoreJudges
    <3>5. CASE Compare(p)
      BY <3>1, <3>5, CompareJudges
    <3>6. OffLimiter(p) \/ StaysOn(p) \/ StoreCount(p) \/ Compare(p)
      BY <1>0, <2>1, <3>1, StepsOff, StepsOn DEF xdp_firewall
    <3>. QED
      BY <3>2, <3>3, <3>4, <3>5, <3>6
  <2>. QED
    BY <2>2, <2>3
<1>2. CASE Tick /\ UNCHANGED <<passLog, forgotten>>
  <2>1. UNCHANGED <<cpu, passLog, rate_limit_state>> /\ clock' = clock + 1
    BY <1>2 DEF Tick, kernelVars
  <2>2. LogIsPast(p)'
    <3>1. OnLimiter(p)' <=> OnLimiter(p)
      BY <2>1 DEF OnLimiter
    <3>2. cpu'[p].now <= clock'
      <4>1. cpu[p].now \in Nat
        BY <1>0 DEF TypeOK, CpuRecord
      <4>. QED
        BY <1>0, <2>1, <4>1 DEF LogIsPast
    <3>3. ASSUME NEW a \in Addrs, NEW i \in DOMAIN passLog[a]
          PROVE  passLog[a][i] <= clock'
      <4>1. passLog[a] \in Seq(Nat)
        BY <1>0
      <4>2. passLog[a][i] \in Nat /\ passLog[a][i] <= clock
        BY <4>1, <3>3 DEF LogIsPast
      <4>. QED
        BY <1>0, <2>1, <4>2
    <3>. QED
      BY <2>1, <3>1, <3>2, <3>3 DEF LogIsPast
  <2>3. DropOK(p)'
    BY <2>1 DEF DropOK, Judged, Start, EntriesOf
  <2>. QED
    BY <2>2, <2>3
<1>3. CASE UNCHANGED windowVars
  <2>1. UNCHANGED <<cpu, passLog, rate_limit_state, clock>>
    BY <1>3 DEF windowVars, vars, kernelVars
  <2>. QED
    BY <2>1 DEF LogIsPast, OnLimiter, DropOK, Judged, Start, EntriesOf
<1>. QED
  BY <1>1, <1>2, <1>3 DEF WindowNext

\* From the entry to the packets that were let through.
LEMMA QuotaWasUsed ==
    ASSUME NEW p, CPUs = {p}, WindowInv(p), Quota, LogIsPast(p), DropOK(p),
           At(p, "drop"), cpu[p].reason = 2
    PROVE  PassedDuring(cpu[p].src, cpu[p].now - Window + 1, cpu[p].now) >= Threshold
<1>0. /\ p \in CPUs /\ TypeOK /\ EntriesSound /\ cpu[p].pc = "drop"
      /\ passLog \in [Addrs -> Seq(Nat)] /\ cpu[p].src \in Addrs
      /\ cpu[p].now \in Nat
      /\ rate_limit_state \in
            [Slots -> [ip : Addrs, live : BOOLEAN, window_start : Nat, count : Nat]]
  BY DEF WindowInv, TypeOK, CpuRecord, At
<1>1. PICK a \in Addrs, t \in Nat, s \in Slots :
          a = cpu[p].src /\ t = cpu[p].now /\ s = cpu[p].slot /\ s \in EntriesOf(a)
  BY <1>0 DEF DropOK, Judged, EntriesOf
<1>2. PICK st \in Nat, k \in Nat :
          /\ st = rate_limit_state[s].window_start /\ t - st < Window
          /\ k = rate_limit_state[s].count /\ k > Threshold
  BY <1>0, <1>1 DEF DropOK, Judged, Start
<1>3. entry[a] = [start |-> st, count |-> k]
  <2>1. EntriesOf(a) = {s}
    BY <1>0, <1>1 DEF EntriesOf, EntriesSound
  <2>2. entry[a] = EntryFrom(p, s)
    BY <2>1, EntryNow
  <2>. QED
    BY <1>0, <1>2, <2>2 DEF EntryFrom, At
<1>4. PICK ps \in Seq(Nat) : ps = passLog[a]
  BY <1>0
<1>5. passes[a] = ps
  <2>1. ~ Admitted(p)
    BY <1>0 DEF Admitted, At
  <2>. QED
    BY <1>4, <2>1, PassesNow
<1>6. PICK n \in Nat : n = Len(ps)
  BY <1>4
<1>7. QuotaOK([start |-> st, count |-> k], ps)
  BY <1>3, <1>5 DEF Quota
<1>8. \A m \in 1..Threshold : m <= n /\ ps[n - m + 1] >= st
  <2>1. \A m \in 1..Threshold :
            m <= k => m <= Len(ps) /\ ps[Len(ps) - m + 1] >= st
    BY <1>7, Zenon DEF QuotaOK
  <2>2. \A m \in 1..Threshold : m <= k
    BY <1>2, Durations
  <2>. QED
    BY <1>6, <2>1, <2>2
<1>9. \A i \in DOMAIN ps : ps[i] <= t
  BY <1>0, <1>1, <1>4 DEF LogIsPast, OnLimiter
<1> DEFINE S == {i \in DOMAIN ps : ps[i] \in (t - Window + 1)..t}
<1>10. Threshold <= n
  BY <1>8, Durations
<1>11. (n - Threshold + 1)..n \subseteq S
  <2>1. ASSUME NEW i \in (n - Threshold + 1)..n PROVE i \in S
    <3>1. PICK m \in 1..Threshold : m = n - i + 1 /\ n - m + 1 = i
      BY <1>10, <2>1, Durations
    <3>2. i \in DOMAIN ps /\ ps[i] \in Nat
      BY <1>6, <1>10, <2>1, Durations
    <3>3. ps[i] >= st /\ ps[i] <= t
      BY <1>8, <1>9, <3>1, <3>2
    <3>4. PICK v \in Nat : v = ps[i]
      BY <3>2
    <3>5. v \in (t - Window + 1)..t
      BY <1>2, <3>3, <3>4, Durations
    <3>. QED
      BY <3>2, <3>4, <3>5
  <2>. QED
    BY <2>1
<1>12. IsFiniteSet(S)
  <2>1. S \subseteq 1..n
    BY <1>6
  <2>2. IsFiniteSet(1..n)
    BY FS_Interval
  <2>. QED
    BY <2>1, <2>2, FS_Subset
<1>13. Cardinality((n - Threshold + 1)..n) = Threshold
  <2>1. PICK u \in Int : u = n - Threshold + 1
    BY Durations
  <2>2. Cardinality(u..n) = IF u > n THEN 0 ELSE n - u + 1
    BY FS_Interval
  <2>. QED
    BY <2>1, <2>2, Durations
<1>14. Cardinality(S) >= Threshold
  <2>1. Cardinality((n - Threshold + 1)..n) <= Cardinality(S)
    BY <1>11, <1>12, FS_Subset
  <2>2. Cardinality(S) \in Nat
    BY <1>12, FS_CardinalityType
  <2>. QED
    BY <1>13, <2>1, <2>2, Durations
<1>. QED
  BY <1>1, <1>4, <1>14 DEF PassedDuring

\* One CPU: a packet is dropped for its rate only after a full quota of packets
\* of its source was let through within the last window_ms (lines 165-170).
THEOREM DropsAreDue ==
    ASSUME NEW p, CPUs = {p}
    PROVE  WindowSpec => []DropsOnlyAfterFullQuota
<1> DEFINE Inv == WindowInv(p) /\ Quota /\ LogIsPast(p) /\ DropOK(p)
<1>1. WindowInit => Inv
  <2>. SUFFICES ASSUME WindowInit PROVE Inv
    OBVIOUS
  <2>1. WindowInv(p)
    BY WindowInitInv
  <2>2. Quota
    <3>1. FW!Init
      BY WindowInitMaps
    <3>. QED
      BY <3>1, EmptySeq, QuotaEmpty DEF FW!Init, FW!NoEntry, Quota
  <2>3. cpu[p] = Idle /\ clock = 0 /\ passLog = [a \in Addrs |-> <<>>]
    BY DEF WindowInit
  <2>4. LogIsPast(p) /\ DropOK(p)
    BY <2>3 DEF LogIsPast, DropOK, Judged, OnLimiter, Idle
  <2>. QED
    BY <2>1, <2>2, <2>4
<1>2. Inv /\ [WindowNext]_windowVars => Inv'
  <2>. SUFFICES ASSUME Inv, [WindowNext]_windowVars PROVE Inv'
    OBVIOUS
  <2>1. WindowInv(p)' /\ [FW!Next]_(FW!vars)
    BY WindowStep
  <2>2. Quota'
    <3>1. clock \in Nat
      BY DEF WindowInv, TypeOK
    <3>. QED
      BY <2>1, <3>1, QuotaStep
  <2>3. LogIsPast(p)' /\ DropOK(p)'
    BY JudgedStep
  <2>. QED
    BY <2>1, <2>2, <2>3
<1>3. Inv => DropsOnlyAfterFullQuota
  <2>. SUFFICES ASSUME Inv, NEW c \in CPUs, At(c, "drop"), cpu[c].reason = 2
                PROVE  PassedDuring(cpu[c].src, cpu[c].now - Window + 1, cpu[c].now)
                          >= Threshold
    BY DEF DropsOnlyAfterFullQuota
  <2>1. c = p
    OBVIOUS
  <2>. QED
    BY <2>1, QuotaWasUsed
<1>. QED
  BY <1>1, <1>2, <1>3, PTL DEF WindowSpec
-----------------------------------------------------------------------------
(* Not more than twice the threshold in a window's time. *)

\* The packets of the current window that were let through.
Held(e) == IF e.count < Threshold THEN e.count ELSE Threshold

\* 2 * Threshold + 1 packets in a row are spread over the length of a window:
\* those before the current window came before it began, and all of them but
\* the last Threshold before the window that preceded it was over.
Spaced(e, ps) ==
    /\ e.count \in Nat /\ e.start \in Nat /\ ps \in Seq(Nat)
    /\ e.count = 0 => ps = <<>>
    /\ e.count > 0 =>
          /\ Held(e) <= Len(ps)
          /\ \A i \in 1..Len(ps) : ps[i] < e.start + Window
          /\ \A i \in 1..(Len(ps) - Held(e)) : ps[i] < e.start
          /\ \A i \in 1..(Len(ps) - Held(e) - Threshold) : ps[i] + Window <= e.start
    /\ \A i, j \in 1..Len(ps) : i + 2 * Threshold <= j => ps[i] + Window <= ps[j]

LEMMA AppendedTo ==
    ASSUME NEW ps \in Seq(Nat), NEW t \in Nat
    PROVE  /\ ps \in [1..Len(ps) -> Nat]
           /\ Append(ps, t) \in [1..(Len(ps) + 1) -> Nat]
           /\ Append(ps, t) \in Seq(Nat) /\ Len(Append(ps, t)) = Len(ps) + 1
           /\ \A i \in 1..Len(ps) : Append(ps, t)[i] = ps[i]
           /\ Append(ps, t)[Len(ps) + 1] = t
<1>1. /\ Append(ps, t) \in Seq(Nat) /\ Len(Append(ps, t)) = Len(ps) + 1
      /\ Append(ps, t)[Len(ps) + 1] = t
  OBVIOUS
<1>2. \A i \in 1..Len(ps) : Append(ps, t)[i] = ps[i]
  OBVIOUS
<1>3. \A qs \in Seq(Nat) : qs \in [1..Len(qs) -> Nat]
  OBVIOUS
<1>4. Append(ps, t) \in [1..(Len(ps) + 1) -> Nat]
  <2>1. Append(ps, t) \in [1..Len(Append(ps, t)) -> Nat]
    BY <1>1, <1>3, Zenon
  <2>. QED
    BY <1>1, <2>1
<1>. QED
  BY <1>1, <1>2, <1>3, <1>4

LEMMA SpacedBegin ==
    ASSUME NEW t \in Nat
    PROVE  Spaced([start |-> t, count |-> 1], Append(<<>>, t))
<1>1. PICK qs \in Seq(Nat) : qs = Append(<<>>, t) /\ Len(qs) = 1 /\ qs[1] = t
  <2>1. PICK ps \in Seq(Nat) : ps = <<>> /\ Len(ps) = 0
    BY EmptySeq
  <2>2. /\ Append(ps, t) \in Seq(Nat) /\ Len(Append(ps, t)) = 1
        /\ Append(ps, t)[1] = t
    BY <2>1, AppendedTo
  <2>. QED
    BY <2>1, <2>2
<1>2. Held([start |-> t, count |-> 1]) = 1
  BY Durations DEF Held
<1>. QED
  BY <1>1, <1>2, Durations DEF Spaced

\* What the lemmas below say of the list before a packet is let through.
Before(n, m, T, W, st, ps) ==
    /\ m <= n
    /\ \A i \in 1..n : ps[i] < st + W
    /\ \A i \in 1..(n - m) : ps[i] < st
    /\ \A i \in 1..(n - m - T) : ps[i] + W <= st
    /\ \A i, j \in 1..n : i + 2 * T <= j => ps[i] + W <= ps[j]

\* A packet of a window that has room for it.
LEMMA OneMore ==
    ASSUME NEW n \in Nat, NEW m \in Nat, NEW T \in Nat, NEW W \in Nat,
           NEW st \in Nat, NEW ps \in [1..n -> Nat], NEW qs \in [1..(n + 1) -> Nat],
           Before(n, m, T, W, st, ps), m < T,
           \A i \in 1..n : qs[i] = ps[i],
           st <= qs[n + 1], qs[n + 1] < st + W
    PROVE  Before(n + 1, m + 1, T, W, st, qs)
<1>1. /\ m <= n
      /\ \A i \in 1..n : qs[i] < st + W
      /\ \A i \in 1..(n - m) : qs[i] < st
      /\ \A i \in 1..(n - m - T) : qs[i] + W <= st
      /\ \A i, j \in 1..n : i + 2 * T <= j => qs[i] + W <= qs[j]
  BY DEF Before
<1>2. \A i \in 1..(n + 1) : qs[i] < st + W
  BY <1>1
<1>3. (n + 1) - (m + 1) = n - m
  OBVIOUS
<1>4. ASSUME NEW i \in 1..(n + 1), NEW j \in 1..(n + 1), i + 2 * T <= j
      PROVE  qs[i] + W <= qs[j]
  <2>1. CASE j \in 1..n
    BY <1>1, <1>4, <2>1
  <2>2. CASE j = n + 1
    <3>1. i \in 1..(n - m - T) /\ i \in 1..n
      BY <1>4, <2>2
    <3>2. qs[i] + W <= st /\ qs[i] \in Nat
      BY <1>1, <3>1
    <3>. QED
      BY <2>2, <3>2
  <2>. QED
    BY <2>1, <2>2
<1>. QED
  BY <1>1, <1>2, <1>3, <1>4 DEF Before

\* A packet that starts the next window.
LEMMA NextWindow ==
    ASSUME NEW n \in Nat, NEW m \in Nat, NEW T \in Nat, NEW W \in Nat,
           NEW st \in Nat, NEW ps \in [1..n -> Nat], NEW qs \in [1..(n + 1) -> Nat],
           Before(n, m, T, W, st, ps), m <= T, T > 0, W > 0,
           \A i \in 1..n : qs[i] = ps[i],
           st + W <= qs[n + 1]
    PROVE  Before(n + 1, 1, T, W, qs[n + 1], qs)
<1>t. PICK t \in Nat : t = qs[n + 1]
  OBVIOUS
<1>1. /\ m <= n
      /\ \A i \in 1..n : qs[i] < st + W
      /\ \A i \in 1..(n - m) : qs[i] < st
      /\ \A i, j \in 1..n : i + 2 * T <= j => qs[i] + W <= qs[j]
  BY DEF Before
<1>2. \A i \in 1..n : qs[i] < t
  BY <1>t, <1>1
<1>3. \A i \in 1..(n + 1) : qs[i] < t + W
  BY <1>t, <1>2
<1>4. ASSUME NEW i \in 1..(n - T) PROVE qs[i] + W <= t
  <2>1. i \in 1..(n - m) /\ i \in 1..n
    BY <1>4
  <2>2. qs[i] < st /\ qs[i] \in Nat
    BY <1>1, <2>1
  <2>. QED
    BY <1>t, <2>2
<1>5. ASSUME NEW i \in 1..(n + 1), NEW j \in 1..(n + 1), i + 2 * T <= j
      PROVE  qs[i] + W <= qs[j]
  <2>1. CASE j \in 1..n
    BY <1>1, <1>5, <2>1
  <2>2. CASE j = n + 1
    <3>1. i \in 1..(n - T)
      BY <1>5, <2>2
    <3>. QED
      BY <1>t, <1>4, <2>2, <3>1
  <2>. QED
    BY <2>1, <2>2
<1>6. (n + 1) - 1 = n /\ (n + 1) - 1 - T = n - T /\ 1 <= n + 1
  OBVIOUS
<1>. QED
  BY <1>t, <1>2, <1>3, <1>4, <1>5, <1>6 DEF Before

\* Both forms of the same.
LEMMA SpacedIs ==
    ASSUME NEW e, NEW ps \in Seq(Nat), e.count \in Nat, e.count > 0, e.start \in Nat
    PROVE  Spaced(e, ps) <=> Before(Len(ps), Held(e), Threshold, Window, e.start, ps)
BY DEF Spaced, Before

LEMMA SpacedCount ==
    ASSUME NEW e, NEW f, NEW ps, NEW t \in Nat, Spaced(e, ps), e.count > 0,
           f.start = e.start, f.count = e.count + 1,
           t >= e.start, t < e.start + Window
    PROVE  IF e.count < Threshold THEN Spaced(f, Append(ps, t)) ELSE Spaced(f, ps)
<1>0. e.count \in Nat /\ e.start \in Nat /\ ps \in Seq(Nat)
  BY DEF Spaced
<1>1. Before(Len(ps), Held(e), Threshold, Window, e.start, ps)
  BY <1>0, SpacedIs
<1>2. CASE e.count >= Threshold
  <2>1. Held(f) = Held(e) /\ f.count \in Nat /\ f.count > 0
    BY <1>0, <1>2, Durations DEF Held
  <2>2. Spaced(f, ps)
    BY <1>0, <1>1, <2>1, SpacedIs
  <2>. QED
    BY <1>0, <1>2, <2>2, Durations
<1>3. CASE e.count < Threshold
  <2>1. PICK n \in Nat, m \in Nat, st \in Nat, qs \in Seq(Nat) :
            /\ n = Len(ps) /\ m = e.count /\ m = Held(e) /\ st = e.start
            /\ qs = Append(ps, t)
    <3>1. e.count = Held(e) /\ Len(ps) \in Nat
      BY <1>0, <1>3 DEF Held
    <3>2. Append(ps, t) \in Seq(Nat)
      BY <1>0, AppendedTo
    <3>. QED
      BY <1>0, <3>1, <3>2
  <2>2. /\ ps \in [1..n -> Nat] /\ qs \in [1..(n + 1) -> Nat] /\ Len(qs) = n + 1
        /\ \A i \in 1..n : qs[i] = ps[i]
        /\ qs[n + 1] = t
    BY <1>0, <2>1, AppendedTo
  <2>3. m < Threshold /\ Threshold \in Nat /\ Window \in Nat
    BY <1>3, <2>1, Durations
  <2>4. Before(n + 1, m + 1, Threshold, Window, st, qs)
    <3>1. Before(n, m, Threshold, Window, st, ps)
      BY <1>1, <2>1
    <3>2. st <= qs[n + 1] /\ qs[n + 1] < st + Window
      BY <2>1, <2>2
    <3>. QED
      BY <2>2, <2>3, <3>1, <3>2, OneMore
  <2>5. Held(f) = m + 1 /\ f.count \in Nat /\ f.count > 0
    BY <2>1, <2>3 DEF Held
  <2>6. Spaced(f, qs)
    BY <2>1, <2>2, <2>4, <2>5, SpacedIs
  <2>. QED
    BY <1>3, <2>1, <2>6
<1>. QED
  BY <1>0, <1>2, <1>3, Durations

LEMMA SpacedRestart ==
    ASSUME NEW e, NEW ps, NEW t \in Nat, Spaced(e, ps), e.count > 0,
           t - e.start >= Window
    PROVE  Spaced([start |-> t, count |-> 1], Append(ps, t))
<1>0. e.count \in Nat /\ e.start \in Nat /\ ps \in Seq(Nat)
  BY DEF Spaced
<1>1. Before(Len(ps), Held(e), Threshold, Window, e.start, ps)
  BY <1>0, SpacedIs
<1>2. PICK n \in Nat, m \in Nat, st \in Nat, qs \in Seq(Nat) :
          /\ n = Len(ps) /\ m = Held(e) /\ m <= Threshold /\ st = e.start
          /\ qs = Append(ps, t)
  <2>1. Held(e) \in Nat /\ Held(e) <= Threshold
    BY <1>0, Durations DEF Held
  <2>2. Len(ps) \in Nat /\ Append(ps, t) \in Seq(Nat)
    BY <1>0, AppendedTo
  <2>. QED
    BY <1>0, <2>1, <2>2
<1>3. /\ ps \in [1..n -> Nat] /\ qs \in [1..(n + 1) -> Nat] /\ Len(qs) = n + 1
      /\ \A i \in 1..n : qs[i] = ps[i]
      /\ qs[n + 1] = t
  BY <1>0, <1>2, AppendedTo
<1>4. Threshold \in Nat /\ Window \in Nat /\ Threshold > 0 /\ Window > 0
  BY Durations
<1>5. Before(n + 1, 1, Threshold, Window, qs[n + 1], qs)
  <2>1. Before(n, m, Threshold, Window, st, ps)
    BY <1>1, <1>2
  <2>2. st + Window <= qs[n + 1]
    BY <1>2, <1>3, <1>4
  <2>3. m <= Threshold /\ \A i \in 1..n : qs[i] = ps[i]
    BY <1>2, <1>3
  <2>4. ps \in [1..n -> Nat] /\ qs \in [1..(n + 1) -> Nat]
    BY <1>3
  <2>. QED
    BY <1>4, <2>1, <2>2, <2>3, <2>4, NextWindow
<1>6. PICK f : f = [start |-> t, count |-> 1]
  OBVIOUS
<1>7. Held(f) = 1 /\ f.count = 1 /\ f.start = t
  BY <1>4, <1>6 DEF Held
<1>8. Spaced(f, qs)
  <2>1. Before(Len(qs), Held(f), Threshold, Window, f.start, qs)
    BY <1>3, <1>5, <1>7
  <2>. QED
    BY <1>7, <2>1, SpacedIs
<1>. QED
  BY <1>2, <1>6, <1>8

LEMMA SpacedEmpty == Spaced([start |-> 0, count |-> 0], <<>>)
<1>1. PICK ps \in Seq(Nat) : ps = <<>> /\ Len(ps) = 0
  BY EmptySeq
<1>. QED
  BY <1>1 DEF Spaced

\* The abstract limiter keeps the packets of a source apart as long as it
\* does not forget the source.
LEMMA SpacedStep ==
    ASSUME NEW b \in Addrs, Spaced(entry[b], passes[b]), clock \in Nat,
           [FW!Next]_(FW!vars),
           entry'[b].count = 0 => entry[b].count = 0 /\ passes'[b] = passes[b]
    PROVE  Spaced(entry'[b], passes'[b])
<1>0. /\ entry = [a \in Addrs |-> entry[a]] /\ passes = [a \in Addrs |-> passes[a]]
  BY DEF entry, passes
<1>a. /\ passes[b] \in Seq(Nat) /\ entry[b].start \in Nat /\ entry[b].count \in Nat
      /\ entry[b].count = 0 => passes[b] = <<>>
  BY DEF Spaced
<1>1. CASE UNCHANGED <<entry, passes>>
  BY <1>1
<1>2. ASSUME NEW a \in Addrs, NEW t \in 0..clock, FW!Begin(a, t)
      PROVE  Spaced(entry'[b], passes'[b])
  <2>1. PICK lost \in SUBSET Addrs :
            entry' = [c \in Addrs |->
              IF c \in lost THEN [start |-> 0, count |-> 0]
              ELSE IF c = a THEN [start |-> t, count |-> 1] ELSE entry[c]]
    BY <1>2 DEF FW!Begin, FW!NoEntry
  <2>2. passes' = [passes EXCEPT ![a] = Append(@, t)] /\ entry[a].count = 0
    BY <1>2 DEF FW!Begin, FW!LetThrough
  <2>3. CASE b \in lost
    <3>1. entry'[b] = [start |-> 0, count |-> 0]
      BY <2>1, <2>3
    <3>2. passes'[b] = <<>>
      BY <1>a, <3>1
    <3>. QED
      BY <3>1, <3>2, SpacedEmpty
  <2>4. CASE b \notin lost /\ b = a
    <3>1. /\ entry'[b] = [start |-> t, count |-> 1]
          /\ passes'[b] = Append(passes[b], t) /\ passes[b] = <<>> /\ t \in Nat
      BY <1>0, <1>a, <2>1, <2>2, <2>4
    <3>. QED
      BY <3>1, SpacedBegin
  <2>5. CASE b \notin lost /\ b # a
    BY <1>0, <2>1, <2>2, <2>5
  <2>. QED
    BY <2>3, <2>4, <2>5
<1>3. ASSUME NEW a \in Addrs, NEW t \in 0..clock, FW!Restart(a, t)
      PROVE  Spaced(entry'[b], passes'[b])
  <2>1. /\ entry' = [entry EXCEPT ![a] = [start |-> t, count |-> 1]]
        /\ passes' = [passes EXCEPT ![a] = Append(@, t)]
        /\ entry[a].count > 0 /\ t - entry[a].start >= Window
    BY <1>3 DEF FW!Restart, FW!LetThrough
  <2>2. CASE b = a
    <3>1. entry'[b] = [start |-> t, count |-> 1]
          /\ passes'[b] = Append(passes[b], t) /\ t \in Nat
      BY <1>0, <2>1, <2>2
    <3>. QED
      BY <2>1, <2>2, <3>1, SpacedRestart
  <2>3. CASE b # a
    BY <1>0, <2>1, <2>3
  <2>. QED
    BY <2>2, <2>3
<1>4. ASSUME NEW a \in Addrs, NEW t \in 0..clock, FW!Count(a, t)
      PROVE  Spaced(entry'[b], passes'[b])
  <2>1. /\ t - entry[a].start \in 0..(Window - 1) /\ entry[a].count > 0
        /\ entry' = [entry EXCEPT ![a].count = @ + 1]
        /\ IF entry[a].count < Threshold
           THEN passes' = [passes EXCEPT ![a] = Append(@, t)]
           ELSE passes' = passes
    BY <1>4 DEF FW!Count, FW!LetThrough
  <2>2. CASE b = a
    <3>1. PICK x, y : entry[b] = [start |-> x, count |-> y]
      BY DEF entry
    <3>2. PICK f : f = [start |-> x, count |-> y + 1]
      OBVIOUS
    <3>3. entry'[b] = [entry[b] EXCEPT !.count = @ + 1]
      BY <1>0, <2>1, <2>2
    <3>4. entry'[b] = f /\ f.start = entry[b].start /\ f.count = entry[b].count + 1
      BY <3>1, <3>2, <3>3
    <3>5. t >= entry[b].start /\ t < entry[b].start + Window /\ t \in Nat
      <4>1. PICK v : v = entry[b].start
        OBVIOUS
      <4>2. v \in Nat /\ t \in Nat /\ t - v \in 0..(Window - 1)
        BY <1>a, <2>1, <2>2, <4>1
      <4>3. t >= v /\ t < v + Window
        BY <4>2, Durations
      <4>. QED
        BY <4>1, <4>2, <4>3
    <3>6. IF entry[b].count < Threshold THEN Spaced(f, Append(passes[b], t))
          ELSE Spaced(f, passes[b])
      BY <2>1, <2>2, <3>4, <3>5, SpacedCount
    <3>7. passes'[b] = IF entry[b].count < Threshold THEN Append(passes[b], t)
                       ELSE passes[b]
      BY <1>0, <2>1, <2>2
    <3>. QED
      BY <3>4, <3>6, <3>7
  <2>3. CASE b # a
    BY <1>0, <2>1, <2>3
  <2>. QED
    BY <2>2, <2>3
<1>. QED
  BY <1>1, <1>2, <1>3, <1>4 DEF FW!Next, FW!Tick, FW!vars

\* The entry of a source is that of a live slot, or none.
LEMMA NoCount ==
    ASSUME NEW p, CPUs = {p}, NEW b \in Addrs
    PROVE  EntriesSound => (entry[b].count = 0 <=> EntriesOf(b) = {})
<1>. SUFFICES ASSUME EntriesSound PROVE entry[b].count = 0 <=> EntriesOf(b) = {}
  OBVIOUS
<1>1. CASE EntriesOf(b) = {}
  <2>1. entry[b] = [start |-> 0, count |-> 0]
    BY <1>1, EntryNow
  <2>. QED
    BY <1>1, <2>1
<1>2. ASSUME NEW s \in Slots, EntriesOf(b) = {s} PROVE entry[b].count # 0
  <2>1. entry[b] = EntryFrom(p, s)
    BY <1>2, EntryNow
  <2>2. rate_limit_state[s].count > 0
    BY <1>2 DEF EntriesOf, EntriesSound
  <2>. QED
    BY <2>1, <2>2 DEF EntryFrom
<1>. QED
  BY <1>1, <1>2, OneEntry

LEMMA NoCountNext ==
    ASSUME NEW p, CPUs = {p}, NEW b \in Addrs
    PROVE  (EntriesSound => (entry[b].count = 0 <=> EntriesOf(b) = {}))'
<1>1. EntriesSound => (entry[b].count = 0 <=> EntriesOf(b) = {})
  BY NoCount
<1>. QED
  BY <1>1, PTL

\* How a packet comes to be certain of passing, except by an insertion.
BecomesAdmitted(p) ==
    /\ Admitted(p) => /\ Admitted(p)'
                      /\ cpu'[p].src = cpu[p].src /\ cpu'[p].now = cpu[p].now
    /\ Admitted(p)' => Admitted(p) \/ cpu'[p].pc \in {"reset", "compare"}

LEMMA AdmittedHow ==
    ASSUME NEW p \in CPUs, TypeOK, Configured, xdp_firewall(p),
           ~ At(p, "pass"), ~ At(p, "insert")
    PROVE  BecomesAdmitted(p)
<1>. USE DEF BecomesAdmitted, Admitted, At
<1>0. /\ cpu \in [CPUs -> CpuRecord] /\ cpu[p] \in CpuRecord
      /\ rate_limit_config.threshold = Threshold /\ Threshold \in Nat \ {0}
  BY Durations DEF TypeOK, Configured
<1>1. CASE PassUnparsed(p)
  BY <1>1 DEF PassUnparsed
<1>2. ASSUME NEW a \in Addrs, Arrive(p, a) PROVE BecomesAdmitted(p)
  BY <1>0, <1>2 DEF Arrive, CpuRecord
<1>3. CASE CheckBlocklist(p)
  BY <1>0, <1>3 DEF CheckBlocklist, CpuRecord, Goto
<1>4. CASE ReadConfig(p)
  <2>1. cpu[p].pc = "config" /\ Goto(p, "clock")
    BY <1>0, <1>4 DEF ReadConfig, LimiterOn
  <2>. QED
    BY <2>1, Moved
<1>5. CASE ReadClock(p)
  BY <1>0, <1>5 DEF ReadClock, CpuRecord
<1>6. CASE Lookup(p)
  BY <1>0, <1>6 DEF Lookup, CpuRecord, Goto
<1>7. CASE Insert(p)
  BY <1>7 DEF Insert
<1>8. CASE ReadWindow(p)
  BY <1>0, <1>8 DEF ReadWindow, CpuRecord
<1>9. CASE CheckElapsed(p)
  <2>1. cpu[p].pc = "elapsed" /\ (Goto(p, "restart") \/ Goto(p, "load"))
    BY <1>9 DEF CheckElapsed
  <2>. QED
    BY <2>1, Moved
<1>10. CASE RestartWindow(p)
  <2>1. cpu[p].pc = "restart" /\ Goto(p, "reset")
    BY <1>10 DEF RestartWindow
  <2>. QED
    BY <2>1, Moved
<1>11. CASE ResetCount(p)
  <2>1. cpu[p].pc = "reset" /\ Goto(p, "pass")
    BY <1>11 DEF ResetCount
  <2>. QED
    BY <2>1, Moved
<1>12. CASE LoadCount(p)
  BY <1>0, <1>12 DEF LoadCount, CpuRecord
<1>13. CASE StoreCount(p)
  BY <1>0, <1>13 DEF StoreCount, CpuRecord
<1>14. CASE Compare(p)
  <2>1. cpu[p].pc = "compare" /\ cpu[p].count \in Nat
    BY <1>0, <1>14 DEF Compare, CpuRecord
  <2>2. CASE cpu[p].count > Threshold
    <3>1. cpu'[p].pc = "drop"
      BY <1>0, <1>14, <2>2 DEF Compare, OverThreshold, CpuRecord
    <3>. QED
      BY <1>0, <2>1, <2>2, <3>1
  <2>3. CASE ~ (cpu[p].count > Threshold)
    <3>1. Goto(p, "pass")
      BY <1>0, <1>14, <2>3 DEF Compare, OverThreshold
    <3>2. cpu'[p].pc = "pass" /\ cpu'[p].src = cpu[p].src /\ cpu'[p].now = cpu[p].now
      BY <3>1, Moved
    <3>. QED
      BY <1>0, <2>1, <2>3, <3>2
  <2>. QED
    BY <2>2, <2>3
<1>15. CASE CountDrop(p)
  <2>1. cpu[p].pc = "drop" /\ Goto(p, "emit")
    BY <1>15 DEF CountDrop
  <2>. QED
    BY <2>1, Moved
<1>16. CASE emit_drop_event(p)
  <2>1. cpu[p].pc = "emit" /\ cpu'[p] = Idle
    BY <1>0, <1>16 DEF emit_drop_event
  <2>. QED
    BY <2>1 DEF Idle
<1>17. CASE PassPacket(p)
  BY <1>17 DEF PassPacket
<1>. QED
  BY <1>1, <1>2, <1>3, <1>4, <1>5, <1>6, <1>7, <1>8, <1>9, <1>10, <1>11,
     <1>12, <1>13, <1>14, <1>15, <1>16, <1>17 DEF xdp_firewall

\* Only an insertion gives an entry to another source, or to none.
LEMMA OwnersKept ==
    ASSUME NEW p \in CPUs, TypeOK, xdp_firewall(p), ~ At(p, "insert"), NEW b
    PROVE  EntriesOf(b)' = EntriesOf(b)
<1>0. rate_limit_state \in
        [Slots -> [ip : Addrs, live : BOOLEAN, window_start : Nat, count : Nat]]
  BY DEF TypeOK
<1>1. CASE UNCHANGED rate_limit_state
  BY <1>1 DEF EntriesOf
<1>2. CASE RestartWindow(p) \/ ResetCount(p) \/ StoreCount(p)
  <2>1. \A s \in Slots :
            /\ rate_limit_state'[s].live = rate_limit_state[s].live
            /\ rate_limit_state'[s].ip = rate_limit_state[s].ip
    BY <1>0, <1>2 DEF RestartWindow, ResetCount, StoreCount
  <2>. QED
    BY <2>1 DEF EntriesOf
<1>3. UNCHANGED rate_limit_state
      \/ RestartWindow(p) \/ ResetCount(p) \/ StoreCount(p)
  BY DEF xdp_firewall, At, PassUnparsed, Arrive, CheckBlocklist, ReadConfig,
         ReadClock, Lookup, Insert, ReadWindow, CheckElapsed, LoadCount,
         Compare, CountDrop, emit_drop_event, PassPacket, kernelVars
<1>. QED
  BY <1>1, <1>2, <1>3

\* A source whose entry is lost, or never came to be, is forgotten.
Remembers(b) ==
    /\ b \notin forgotten
    /\ entry'[b].count = 0 => entry[b].count = 0 /\ passes'[b] = passes[b]

LEMMA RememberedInsert ==
    ASSUME NEW p, CPUs = {p}, WindowInv(p), EntriesSound', Firewall(p),
           At(p, "insert"), NEW b \in Addrs, b \notin forgotten'
    PROVE  Remembers(b)
<1>0. /\ p \in CPUs /\ TypeOK /\ EntriesSound /\ cpu[p].pc = "insert"
  BY DEF WindowInv, At
<1>1. /\ passLog' = passLog /\ b \notin forgotten
      /\ EntriesOf(b)' = {} => b # cpu[p].src /\ EntriesOf(b) = {}
  BY <1>0 DEF Firewall, At
<1>2. Goto(p, "pass")
  BY <1>0
  DEF Firewall, xdp_firewall, At, PassUnparsed, Arrive, CheckBlocklist,
      ReadConfig, ReadClock, Lookup, Insert, ReadWindow, CheckElapsed,
      RestartWindow, ResetCount, LoadCount, StoreCount, Compare, CountDrop,
      emit_drop_event, PassPacket
<1>3. ASSUME entry'[b].count = 0
      PROVE  entry[b].count = 0 /\ passes'[b] = passes[b]
  <2>1. EntriesOf(b)' = {}
    BY <1>3, NoCountNext
  <2>2. b # cpu[p].src /\ EntriesOf(b) = {}
    BY <1>1, <2>1
  <2>3. entry[b].count = 0
    BY <1>0, <2>2, NoCount
  <2>4. cpu'[p].src # b
    BY <1>0, <1>2, <2>2, Moved
  <2>5. passes[b] = passLog[b] /\ passes'[b] = passLog'[b]
    BY <2>2, <2>4, PassesNow, PassesNext
  <2>. QED
    BY <1>1, <2>3, <2>5
<1>. QED
  BY <1>1, <1>3 DEF Remembers

LEMMA RememberedOther ==
    ASSUME NEW p, CPUs = {p}, WindowInv(p), WindowInv(p)', DropOK(p)',
           Firewall(p), ~ At(p, "insert"), NEW b \in Addrs, b \notin forgotten'
    PROVE  Remembers(b)
<1>0. /\ p \in CPUs /\ TypeOK /\ EntriesSound /\ Configured /\ xdp_firewall(p)
      /\ EntriesSound' /\ PacketSound(p)'
      /\ passLog \in [Addrs -> Seq(Nat)] /\ cpu[p] \in CpuRecord
      /\ At(p, "pass") => cpu[p].src \in Addrs
  BY DEF WindowInv, TypeOK, At, Firewall
<1>1. b \notin forgotten
  BY DEF Firewall
<1>2. ASSUME entry'[b].count = 0
      PROVE  entry[b].count = 0 /\ passes'[b] = passes[b]
  <2>1. EntriesOf(b)' = {} /\ EntriesOf(b) = {}
    BY <1>0, <1>2, NoCountNext, OwnersKept
  <2>2. entry[b].count = 0
    BY <1>0, <2>1, NoCount
  <2>3. CASE At(p, "pass")
    <3>1. PassPacket(p)
      BY <1>0, <2>3
      DEF xdp_firewall, At, PassUnparsed, Arrive, CheckBlocklist, ReadConfig,
          ReadClock, Lookup, Insert, ReadWindow, CheckElapsed, RestartWindow,
          ResetCount, LoadCount, StoreCount, Compare, CountDrop,
          emit_drop_event
    <3>2. cpu'[p] = Idle
      BY <1>0, <3>1 DEF PassPacket, TypeOK
    <3>3. Admitted(p) /\ ~ Admitted(p)'
      BY <2>3, <3>2 DEF Admitted, At, Idle
    <3>4. passLog' = [passLog EXCEPT ![cpu[p].src] = Append(@, cpu[p].now)]
      BY <2>3 DEF Firewall
    <3>. QED
      BY <1>0, <2>2, <2>3, <3>3, <3>4, PassesLogged
  <2>4. CASE ~ At(p, "pass")
    <3>1. passLog' = passLog
      BY <2>4 DEF Firewall
    <3>2. BecomesAdmitted(p)
      BY <1>0, <2>4, AdmittedHow
    <3>3. cpu'[p].pc \in {"reset", "compare"} => cpu'[p].src # b
      <4>1. ASSUME cpu'[p].pc = "reset" PROVE cpu'[p].src # b
        <5>1. cpu'[p].slot \in EntriesOf(cpu[p].src)'
          BY <1>0, <4>1 DEF PacketSound, PointerSteps
        <5>. QED
          BY <2>1, <5>1
      <4>2. ASSUME cpu'[p].pc = "compare" PROVE cpu'[p].src # b
        <5>1. Judged(p)'
          BY <4>2 DEF Judged
        <5>2. cpu'[p].slot \in EntriesOf(cpu[p].src)'
          BY <5>1 DEF DropOK
        <5>. QED
          BY <2>1, <5>2
      <4>. QED
        BY <4>1, <4>2
    <3>4. CASE Admitted(p) /\ cpu[p].src = b
      <4>1. Admitted(p)' /\ cpu'[p].src = b /\ cpu'[p].now = cpu[p].now
        BY <3>2, <3>4 DEF BecomesAdmitted
      <4>2. passes[b] = Append(passLog[b], cpu[p].now)
        BY <3>4, PassesNow
      <4>3. passes'[b] = Append(passLog'[b], cpu'[p].now)
        BY <4>1, PassesNext
      <4>. QED
        BY <2>2, <3>1, <4>1, <4>2, <4>3
    <3>5. CASE ~ (Admitted(p) /\ cpu[p].src = b)
      <4>1. ~ (Admitted(p)' /\ cpu'[p].src = b)
        BY <3>2, <3>3, <3>5 DEF BecomesAdmitted
      <4>2. passes[b] = passLog[b]
        BY <3>5, PassesNow
      <4>3. passes'[b] = passLog'[b]
        BY <4>1, PassesNext
      <4>. QED
        BY <2>2, <3>1, <4>2, <4>3
    <3>. QED
      BY <3>4, <3>5
  <2>. QED
    BY <2>3, <2>4
<1>. QED
  BY <1>1, <1>2 DEF Remembers

LEMMA Remembered ==
    ASSUME NEW p, CPUs = {p}, WindowInv(p), WindowInv(p)', DropOK(p)',
           [WindowNext]_windowVars, NEW b \in Addrs, b \notin forgotten'
    PROVE  Remembers(b)
<1>1. CASE \E c \in CPUs : Firewall(c)
  <2>1. Firewall(p) /\ EntriesSound'
    BY <1>1 DEF WindowInv
  <2>. QED
    BY <2>1, RememberedInsert, RememberedOther
<1>2. CASE UNCHANGED <<rate_limit_state, cpu, passLog, forgotten>>
  <2>1. entry' = entry
    BY <1>2, EntriesSame DEF WindowInv
  <2>2. passes' = passes
    BY <1>2, PassesKept DEF Admitted, At
  <2>. QED
    BY <1>2, <2>1, <2>2 DEF Remembers
<1>. QED
  BY <1>1, <1>2 DEF WindowNext, windowVars, vars, kernelVars, Tick

SpacedInv == \A b \in Addrs \ forgotten : Spaced(entry[b], passes[b])

\* Packets that are spread like this are few in any stretch.
LEMMA FewInStretch ==
    ASSUME NEW ps \in Seq(Nat), NEW t \in Nat,
           \A i, j \in 1..Len(ps) : i + 2 * Threshold <= j => ps[i] + Window <= ps[j]
    PROVE  Cardinality({i \in DOMAIN ps : ps[i] \in t..(t + Window - 1)})
              <= 2 * Threshold
<1> DEFINE S == {i \in DOMAIN ps : ps[i] \in t..(t + Window - 1)}
<1>0. Threshold \in Nat /\ Window \in Nat
  BY Durations
<1>1. CASE S = {}
  <2>1. Cardinality(S) = 0
    <3> HIDE DEF S
    <3>. QED
      BY <1>1, FS_EmptySet
  <2>. QED
    BY <1>0, <2>1
<1>2. CASE S # {}
  <2>1. S \in SUBSET Nat /\ S \subseteq 1..Len(ps)
    OBVIOUS
  <2>2. PICK m \in S : \A k \in S : m <= k
    <3> HIDE DEF S
    <3>. QED
      BY <1>2, <2>1, LeastNatural
  <2>3. PICK u \in Int, v \in Int : u = m /\ v = m + 2 * Threshold - 1
    BY <1>0, <2>1
  <2>4. ASSUME NEW k \in S PROVE k \in u..v
    <3>1. k \in Nat /\ m \in Nat /\ m <= k
      BY <2>1, <2>2
    <3>2. ~ (m + 2 * Threshold <= k)
      <4>1. /\ ps[m] \in Nat /\ ps[k] \in Nat /\ t <= ps[m] /\ ps[k] <= t + Window - 1
            /\ m \in 1..Len(ps) /\ k \in 1..Len(ps)
        BY <2>4
      <4>. QED
        BY <1>0, <4>1
    <3>. QED
      BY <1>0, <2>3, <3>1, <3>2
  <2>5. S \subseteq u..v
    BY <2>4
  <2>6. IsFiniteSet(u..v) /\ Cardinality(u..v) = IF u > v THEN 0 ELSE v - u + 1
    BY FS_Interval
  <2>7. IsFiniteSet(S) /\ Cardinality(S) <= Cardinality(u..v)
    BY <2>5, <2>6, FS_Subset
  <2>8. Cardinality(S) \in Nat
    BY <2>7, FS_CardinalityType
  <2>. QED
    BY <1>0, <2>1, <2>3, <2>6, <2>7, <2>8
<1>. QED
  BY <1>1, <1>2

\* What was let through is what the limiter decided, but for the last packet.
LEMMA LogIsSpaced ==
    ASSUME NEW p, CPUs = {p}, WindowInv(p), SpacedInv, NEW a \in Addrs \ forgotten,
           NEW t \in Nat
    PROVE  PassedDuring(a, t, t + Window - 1) <= 2 * Threshold
<1>1. p \in CPUs /\ passLog[a] \in Seq(Nat) /\ cpu[p].now \in Nat
  BY DEF WindowInv, TypeOK, CpuRecord
<1>2. PICK ps \in Seq(Nat), n \in Nat : ps = passLog[a] /\ n = Len(ps)
  BY <1>1
<1>3. passes[a] = ps \/ passes[a] = Append(ps, cpu[p].now)
  BY <1>2, PassesNow
<1>4. \A i, j \in 1..Len(passes[a]) :
          i + 2 * Threshold <= j => passes[a][i] + Window <= passes[a][j]
  BY DEF SpacedInv, Spaced
<1>5. Len(passes[a]) \in Nat /\ n <= Len(passes[a])
      /\ \A i \in 1..n : passes[a][i] = ps[i]
  <2>1. CASE passes[a] = ps
    BY <1>2, <2>1
  <2>2. CASE passes[a] = Append(ps, cpu[p].now)
    <3>1. Len(passes[a]) = n + 1 /\ \A i \in 1..n : passes[a][i] = ps[i]
      BY <1>1, <1>2, <2>2, AppendedTo
    <3>. QED
      BY <3>1
  <2>. QED
    BY <1>3, <2>1, <2>2
<1>6. ASSUME NEW i \in 1..n, NEW j \in 1..n, i + 2 * Threshold <= j
      PROVE  ps[i] + Window <= ps[j]
  <2>1. i \in 1..Len(passes[a]) /\ j \in 1..Len(passes[a])
    BY <1>5
  <2>. QED
    BY <1>4, <1>5, <1>6, <2>1
<1>. QED
  BY <1>2, <1>6, FewInStretch DEF PassedDuring

\* One CPU: a source of which the limiter has not lost track gets at most twice
\* the threshold through in any stretch of window_ms (lines 165-167).
THEOREM AtMostTwice ==
    ASSUME NEW p, CPUs = {p}
    PROVE  WindowSpec => []TwiceThresholdPerWindow
<1> DEFINE Inv == WindowInv(p) /\ LogIsPast(p) /\ DropOK(p) /\ SpacedInv
<1>1. WindowInit => Inv
  <2>. SUFFICES ASSUME WindowInit PROVE Inv
    OBVIOUS
  <2>1. WindowInv(p)
    BY WindowInitInv
  <2>2. SpacedInv
    <3>1. FW!Init
      BY WindowInitMaps
    <3>. QED
      BY <3>1, SpacedEmpty DEF FW!Init, FW!NoEntry, SpacedInv
  <2>3. cpu[p] = Idle /\ clock = 0 /\ passLog = [a \in Addrs |-> <<>>]
    BY DEF WindowInit
  <2>4. LogIsPast(p) /\ DropOK(p)
    BY <2>3 DEF LogIsPast, DropOK, Judged, OnLimiter, Idle
  <2>. QED
    BY <2>1, <2>2, <2>4
<1>2. Inv /\ [WindowNext]_windowVars => Inv'
  <2>. SUFFICES ASSUME Inv, [WindowNext]_windowVars PROVE Inv'
    OBVIOUS
  <2>1. WindowInv(p)' /\ [FW!Next]_(FW!vars)
    BY WindowStep
  <2>2. LogIsPast(p)' /\ DropOK(p)'
    BY JudgedStep
  <2>3. ASSUME NEW b \in Addrs, b \notin forgotten'
        PROVE  Spaced(entry'[b], passes'[b])
    <3>1. Remembers(b)
      BY <2>1, <2>2, <2>3, Remembered
    <3>2. Spaced(entry[b], passes[b]) /\ clock \in Nat
      BY <3>1 DEF Remembers, SpacedInv, WindowInv, TypeOK
    <3>. QED
      BY <2>1, <3>1, <3>2, SpacedStep DEF Remembers
  <2>4. SpacedInv'
    BY <2>3 DEF SpacedInv
  <2>. QED
    BY <2>1, <2>2, <2>4
<1>3. Inv => TwiceThresholdPerWindow
  <2>. SUFFICES ASSUME Inv, NEW a \in Addrs \ forgotten, NEW t \in 0..clock
                PROVE  PassedDuring(a, t, t + Window - 1) <= 2 * Threshold
    BY DEF TwiceThresholdPerWindow
  <2>1. t \in Nat
    BY DEF WindowInv, TypeOK
  <2>. QED
    BY <2>1, LogIsSpaced
<1>. QED
  BY <1>1, <1>2, <1>3, PTL DEF WindowSpec
=============================================================================
