------------------------ MODULE XdpFirewall_proofs -------------------------
(***************************************************************************)
(* Theorems about XdpFirewall, for any number of CPUs, sources, slots and  *)
(* any thresholds, windows and byte order.                                 *)
(***************************************************************************)
EXTENDS XdpFirewall, DataFacts, SequenceTheorems, FiniteSetTheorems, TLAPS

-----------------------------------------------------------------------------
(* Type correctness. *)

\* Reversing octets stays within the addresses (ipToUint32, uint32ToIP).
LEMMA KeyType == ASSUME NEW ip \in Addrs PROVE Key(ip) \in Addrs
  BY AddrsAssumption DEF Key

LEMMA InitType == Init => TypeOK
<1> SUFFICES ASSUME Init PROVE TypeOK
  OBVIOUS
<1>1. (CHOOSE a \in Addrs : TRUE) \in Addrs
  BY AddrsAssumption
<1>2. rate_limit_state \in
        [Slots -> [ip : Addrs, live : BOOLEAN, window_start : Nat, count : Nat]]
  BY <1>1 DEF Init
<1>3. drop_events \in Seq([src_ip : Addrs, reason : 0..2])
  BY EmptySeq DEF Init
<1>4. Idle \in CpuRecord
  BY DEF Idle, CpuRecord, Steps
<1>5. cpu \in [CPUs -> CpuRecord] /\ \A c \in CPUs : cpu[c] = Idle
  BY <1>4 DEF Init
<1>6. \A c \in CPUs : At(c, "idle") /\ cpu[c].pc \notin PointerSteps
  BY <1>5 DEF Idle, At, PointerSteps
<1>7. watch \in [CPUs -> [acked : BOOLEAN, listed : BOOLEAN,
                          unlisted : BOOLEAN, off : BOOLEAN]]
  BY DEF Init, NoWatch
<1>8. charge \in [CPUs -> [stale : BOOLEAN, counted : Nat]]
  BY DEF Init, NoCharge
<1> QED
  BY <1>2, <1>3, <1>5, <1>6, <1>7, <1>8 DEF Init, TypeOK

\* The parts of TypeOK that speak of the packets in flight.
CpuTypeOK ==
    /\ cpu \in [CPUs -> CpuRecord]
    /\ \A c \in CPUs :
          /\ ~ At(c, "idle") => cpu[c].src \in Addrs
          /\ cpu[c].pc \in PointerSteps => cpu[c].slot \in Slots

\* They hold after a step that changes the record of CPU c only, to one that
\* is well typed ...
LEMMA CpuType ==
    ASSUME TypeOK, NEW c \in CPUs, NEW r \in CpuRecord,
           cpu' = [cpu EXCEPT ![c] = r],
           r.pc # "idle" => r.src \in Addrs,
           r.pc \in PointerSteps => r.slot \in Slots
    PROVE  CpuTypeOK'
<1>1. cpu \in [CPUs -> CpuRecord]
  BY DEF TypeOK
<1>2. \A d \in CPUs : cpu'[d] = IF d = c THEN r ELSE cpu[d]
  BY <1>1
<1>3. cpu' \in [CPUs -> CpuRecord]
  BY <1>1
<1> QED
  BY <1>2, <1>3 DEF TypeOK, At, CpuTypeOK

\* ... and after a step that only moves it on.
LEMMA GotoType ==
    ASSUME TypeOK, NEW c \in CPUs, NEW step \in Steps, Goto(c, step),
           ~ At(c, "idle"),
           step \in PointerSteps => cpu[c].pc \in PointerSteps
    PROVE  CpuTypeOK'
<1> DEFINE r == [cpu[c] EXCEPT !.pc = step]
<1>1. cpu[c] \in CpuRecord
  BY DEF TypeOK
<1>2. r \in CpuRecord /\ r.pc = step /\ r.src = cpu[c].src /\ r.slot = cpu[c].slot
  BY <1>1 DEF CpuRecord
<1>3. cpu' = [cpu EXCEPT ![c] = r]
  BY DEF Goto, TypeOK
<1>4. (step # "idle" => r.src \in Addrs) /\ (step \in PointerSteps => r.slot \in Slots)
  BY <1>2 DEF TypeOK
<1> HIDE DEF r
<1> QED
  BY <1>2, <1>3, <1>4, CpuType

\* A step of the program that touches neither the limiter's entries nor the
\* counters leaves TypeOK to the record of its CPU.
LEMMA LocalStepType ==
    ASSUME TypeOK, Unaltered, CpuTypeOK',
           UNCHANGED <<rate_limit_state, countVars, ghostVars>>
    PROVE  TypeOK'
  BY DEF TypeOK, CpuTypeOK, Unaltered, countVars, ghostVars

\* An increment of a packet counter.
LEMMA CounterType ==
    ASSUME TypeOK, NEW c \in CPUs, NEW i \in 0..1, increment_counter(c, i)
    PROVE  packet_counters' \in [CPUs -> [0..1 -> Nat]]
  BY DEF TypeOK, increment_counter

\* The history of what the packets in flight are counted on.
LEMMA OvertakeType ==
    ASSUME TypeOK, NEW s, Overtake(s)
    PROVE  charge' \in [CPUs -> [stale : BOOLEAN, counted : Nat]]
  BY DEF TypeOK, Overtake

LEMMA ChargeType ==
    ASSUME TypeOK, NEW c, charge' = [charge EXCEPT ![c] = NoCharge]
    PROVE  charge' \in [CPUs -> [stale : BOOLEAN, counted : Nat]]
  BY DEF TypeOK, NoCharge

\* Storing a number in the count of an entry leaves a table of entries.
LEMMA EntryType ==
    ASSUME NEW f \in [Slots -> [ip : Addrs, live : BOOLEAN, window_start : Nat, count : Nat]],
           NEW s \in Slots, NEW n \in Nat
    PROVE  [f EXCEPT ![s].count = n] \in
              [Slots -> [ip : Addrs, live : BOOLEAN, window_start : Nat, count : Nat]]
<1> DEFINE r == [f[s] EXCEPT !.count = n]
<1>1. r \in [ip : Addrs, live : BOOLEAN, window_start : Nat, count : Nat]
  OBVIOUS
<1>2. [f EXCEPT ![s].count = n] = [f EXCEPT ![s] = r]
  OBVIOUS
<1> HIDE DEF r
<1> QED
  BY <1>1, <1>2

\* An action of the program leaves every variable well typed.
LEMMA FirewallType ==
    ASSUME TypeOK, NEW c \in CPUs, xdp_firewall(c)
    PROVE  TypeOK'
<1>c. cpu[c] \in CpuRecord
  BY DEF TypeOK
<1>s. ~ At(c, "idle") => cpu[c].src \in Addrs
  BY DEF TypeOK
<1>p. cpu[c].pc \in PointerSteps =>
        /\ cpu[c].slot \in Slots
        /\ rate_limit_state[cpu[c].slot] \in
             [ip : Addrs, live : BOOLEAN, window_start : Nat, count : Nat]
  BY DEF TypeOK
<1>i. Idle \in CpuRecord /\ Idle.pc = "idle" /\ "idle" \notin PointerSteps
  BY DEF Idle, CpuRecord, Steps, PointerSteps
<1>1. CASE PassUnparsed(c)
  BY <1>1, CounterType
  DEF PassUnparsed, TypeOK, kernelVars, ghostVars, At
<1>2. ASSUME NEW a \in Addrs, Arrive(c, a) PROVE TypeOK'
  <2> DEFINE r == [cpu[c] EXCEPT !.pc = "blocklist", !.src = a]
  <2>1. r \in CpuRecord /\ r.pc = "blocklist" /\ r.src = a
    BY <1>c DEF CpuRecord, Steps
  <2>2. cpu' = [cpu EXCEPT ![c] = r]
    BY <1>2 DEF Arrive, TypeOK
  <2>3. CpuTypeOK'
    BY <2>1, <2>2, CpuType DEF PointerSteps
  <2>4. watch' \in [CPUs -> [acked : BOOLEAN, listed : BOOLEAN,
                             unlisted : BOOLEAN, off : BOOLEAN]]
    BY <1>2 DEF Arrive, TypeOK
  <2> QED
    BY <1>2, <2>3, <2>4 DEF Arrive, TypeOK, CpuTypeOK, kernelVars, countVars, ghostVars
<1>3. CASE CheckBlocklist(c)
  <2> DEFINE r == [cpu[c] EXCEPT !.pc = "drop", !.reason = 1]
  <2>1. CASE cpu' = [cpu EXCEPT ![c].pc = "drop", ![c].reason = 1]
    <3>n. 1 \in 0..2
      OBVIOUS
    <3>1. r \in CpuRecord /\ r.pc = "drop" /\ r.src = cpu[c].src
      BY <1>c, <3>n, Zenon DEF CpuRecord, Steps
    <3>2. cpu' = [cpu EXCEPT ![c] = r]
      BY <2>1 DEF TypeOK
    <3>3. CpuTypeOK'
      BY <1>3, <1>s, <3>1, <3>2, CpuType DEF CheckBlocklist, PointerSteps, At
    <3> QED
      BY <1>3, <3>3, LocalStepType DEF CheckBlocklist
  <2>2. CASE Goto(c, "config")
    BY <1>3, <2>2, GotoType, LocalStepType DEF CheckBlocklist, At, Steps, PointerSteps
  <2> QED
    BY <1>3, <2>1, <2>2 DEF CheckBlocklist
<1>4. CASE ReadConfig(c)
  BY <1>4, GotoType, LocalStepType DEF ReadConfig, At, Steps, PointerSteps
<1>5. CASE ReadClock(c)
  <2> DEFINE r == [cpu[c] EXCEPT !.pc = "lookup", !.now = clock]
  <2>1. r \in CpuRecord /\ r.pc = "lookup" /\ r.src = cpu[c].src
    BY <1>c DEF CpuRecord, Steps, TypeOK
  <2>2. cpu' = [cpu EXCEPT ![c] = r]
    BY <1>5 DEF ReadClock, TypeOK
  <2> QED
    BY <1>5, <1>s, <2>1, <2>2, CpuType, LocalStepType
    DEF ReadClock, PointerSteps, At
<1>6. CASE Lookup(c)
  <2>1. ASSUME NEW s \in EntriesOf(cpu[c].src),
               cpu' = [cpu EXCEPT ![c].pc = "window", ![c].slot = s]
        PROVE  TypeOK'
    <3> DEFINE r == [cpu[c] EXCEPT !.pc = "window", !.slot = s]
    <3>1. r \in CpuRecord /\ r.pc = "window" /\ r.src = cpu[c].src /\ r.slot = s /\ s \in Slots
      BY <1>c DEF CpuRecord, Steps, EntriesOf
    <3>2. cpu' = [cpu EXCEPT ![c] = r]
      BY <2>1 DEF TypeOK
    <3> QED
      BY <1>6, <1>s, <3>1, <3>2, CpuType, LocalStepType DEF Lookup, At
  <2>2. CASE Goto(c, "insert")
    BY <1>6, <2>2, GotoType, LocalStepType DEF Lookup, At, Steps, PointerSteps
  <2> QED
    BY <1>6, <2>1, <2>2 DEF Lookup
<1>7. CASE Insert(c)
  <2>1. CpuTypeOK'
    BY <1>7, GotoType DEF Insert, At, Steps, PointerSteps
  <2>2. cpu[c].src \in Addrs
    BY <1>7, <1>s DEF Insert, At
  <2>3. /\ rate_limit_state' \in [Slots -> [ip : Addrs, live : BOOLEAN, window_start : Nat, count : Nat]]
        /\ counted' \in [Slots -> Nat]
        /\ torn' \in SUBSET Slots
        /\ charge' \in [CPUs -> [stale : BOOLEAN, counted : Nat]]
    <3>1. ASSUME NEW s \in Slots,
                 rate_limit_state' = [t \in Slots |->
                  IF t = s
                  THEN [ip |-> cpu[c].src, live |-> TRUE,
                        window_start |-> cpu[c].now, count |-> 1]
                  ELSE [rate_limit_state[t] EXCEPT
                          !.live = @ /\ rate_limit_state[t].ip # cpu[c].src]]
          PROVE rate_limit_state' \in [Slots -> [ip : Addrs, live : BOOLEAN, window_start : Nat, count : Nat]]
      <4>1. \A t \in Slots : rate_limit_state[t] \in [ip : Addrs, live : BOOLEAN, window_start : Nat, count : Nat]
        BY DEF TypeOK
      <4>2. cpu[c].now \in Nat
        BY <1>c DEF CpuRecord
      <4> QED
        BY <3>1, <4>1, <4>2, <2>2
    <3>2. CASE UNCHANGED <<rate_limit_state, ghostVars>>
      BY <3>2 DEF TypeOK, ghostVars
    <3>3. ASSUME NEW s \in Slots, counted' = [counted EXCEPT ![s] = 1],
                 torn' = torn \ {s}, Overtake(s)
          PROVE  /\ counted' \in [Slots -> Nat]
                 /\ torn' \in SUBSET Slots
                 /\ charge' \in [CPUs -> [stale : BOOLEAN, counted : Nat]]
      <4>1. counted' \in [Slots -> Nat] /\ torn' \in SUBSET Slots
        BY <3>3 DEF TypeOK
      <4> QED
        BY <3>3, <4>1, OvertakeType
    <3> QED
      BY <1>7, <3>1, <3>2, <3>3 DEF Insert
  <2> QED
    BY <1>7, <2>1, <2>3 DEF Insert, TypeOK, CpuTypeOK, Unaltered, countVars
<1>8. CASE ReadWindow(c)
  <2> DEFINE r == [cpu[c] EXCEPT !.pc = "elapsed", !.window = rate_limit_config.window_ms]
  <2>1. r \in CpuRecord /\ r.pc = "elapsed" /\ r.src = cpu[c].src /\ r.slot = cpu[c].slot
    BY <1>c DEF CpuRecord, Steps, TypeOK
  <2>2. cpu' = [cpu EXCEPT ![c] = r]
    BY <1>8 DEF ReadWindow, TypeOK
  <2> QED
    BY <1>8, <1>s, <1>p, <2>1, <2>2, CpuType, LocalStepType
    DEF ReadWindow, PointerSteps, At
<1>9. CASE CheckElapsed(c)
  BY <1>9, GotoType, LocalStepType DEF CheckElapsed, At, Steps, PointerSteps
<1>10. CASE RestartWindow(c)
  <2>1. CpuTypeOK'
    BY <1>10, GotoType DEF RestartWindow, At, Steps, PointerSteps
  <2>2. cpu[c].now \in Nat /\ cpu[c].slot \in Slots
    BY <1>10, <1>c, <1>p DEF CpuRecord, RestartWindow, At, PointerSteps
  <2>3. rate_limit_state' \in [Slots -> [ip : Addrs, live : BOOLEAN, window_start : Nat, count : Nat]]
    BY <1>10, <2>2 DEF RestartWindow, TypeOK
  <2>4. /\ counted' \in [Slots -> Nat]
        /\ torn' \in SUBSET Slots
        /\ charge' \in [CPUs -> [stale : BOOLEAN, counted : Nat]]
    BY <1>10, <2>2, OvertakeType DEF RestartWindow, TypeOK
  <2> QED
    BY <1>10, <2>1, <2>3, <2>4 DEF RestartWindow, TypeOK, CpuTypeOK, Unaltered, countVars
<1>11. CASE ResetCount(c)
  <2>1. CpuTypeOK'
    BY <1>11, GotoType DEF ResetCount, At, Steps, PointerSteps
  <2>2. cpu[c].src \in Addrs /\ cpu[c].slot \in Slots
    BY <1>11, <1>s, <1>p DEF ResetCount, At, PointerSteps
  <2>3. rate_limit_state' \in [Slots -> [ip : Addrs, live : BOOLEAN, window_start : Nat, count : Nat]]
    <3>1. rate_limit_state' = [rate_limit_state EXCEPT ![cpu[c].slot].count = 1]
      BY <1>11 DEF ResetCount, FirstCount
    <3>2. rate_limit_state \in [Slots -> [ip : Addrs, live : BOOLEAN, window_start : Nat, count : Nat]]
      BY DEF TypeOK
    <3> QED
      BY <2>2, <3>1, <3>2, EntryType
  <2> QED
    BY <1>11, <2>1, <2>2, <2>3 DEF ResetCount, TypeOK, CpuTypeOK, Unaltered, countVars
<1>12. CASE LoadCount(c)
  <2> DEFINE r == [cpu[c] EXCEPT !.pc = "store", !.count = rate_limit_state[cpu[c].slot].count]
  <2>1. r \in CpuRecord /\ r.pc = "store" /\ r.src = cpu[c].src /\ r.slot = cpu[c].slot
    BY <1>12, <1>c, <1>p DEF CpuRecord, Steps, LoadCount, At, PointerSteps
  <2>2. cpu' = [cpu EXCEPT ![c] = r]
    BY <1>12 DEF LoadCount, TypeOK
  <2>3. CpuTypeOK'
    BY <1>12, <1>s, <1>p, <2>1, <2>2, CpuType DEF LoadCount, PointerSteps, At
  <2>4. charge' \in [CPUs -> [stale : BOOLEAN, counted : Nat]]
    BY <1>12 DEF LoadCount, TypeOK
  <2> QED
    BY <1>12, <2>3, <2>4 DEF LoadCount, TypeOK, CpuTypeOK, Unaltered, countVars
<1>13. CASE StoreCount(c)
  <2> DEFINE r == [cpu[c] EXCEPT !.pc = "compare", !.count = cpu[c].count + 1]
  <2>n. cpu[c].count \in Nat /\ cpu[c].count + 1 \in Nat
    BY <1>c DEF CpuRecord
  <2>1. r \in CpuRecord /\ r.pc = "compare" /\ r.src = cpu[c].src
    BY <1>c, <2>n, Zenon DEF CpuRecord, Steps
  <2>2. cpu' = [cpu EXCEPT ![c] = r]
    BY <1>13 DEF StoreCount, TypeOK
  <2>3. cpu[c].src \in Addrs /\ cpu[c].slot \in Slots
    BY <1>13, <1>s, <1>p DEF StoreCount, At, PointerSteps
  <2>4. CpuTypeOK'
    BY <2>1, <2>2, <2>3, CpuType DEF PointerSteps
  <2>5. rate_limit_state' \in [Slots -> [ip : Addrs, live : BOOLEAN, window_start : Nat, count : Nat]]
    <3>1. PICK n \in Nat : n = cpu[c].count + 1
      BY <2>n
    <3>2. rate_limit_state' = [rate_limit_state EXCEPT ![cpu[c].slot].count = n]
      BY <1>13, <3>1 DEF StoreCount
    <3>3. rate_limit_state \in [Slots -> [ip : Addrs, live : BOOLEAN, window_start : Nat, count : Nat]]
      BY DEF TypeOK
    <3> QED
      BY <2>3, <3>1, <3>2, <3>3, EntryType
  <2>s. PICK s \in Slots : s = cpu[c].slot
    BY <2>3
  <2>6. counted' \in [Slots -> Nat]
    <3>1. counted \in [Slots -> Nat] /\ counted[s] + 1 \in Nat
      BY DEF TypeOK
    <3>2. counted' = IF Foreign(c) THEN counted
                     ELSE [counted EXCEPT ![s] = counted[s] + 1]
      BY <1>13, <2>s DEF StoreCount
    <3> QED
      BY <3>1, <3>2
  <2>7. charge' \in [CPUs -> [stale : BOOLEAN, counted : Nat]]
    <3>1. PICK m \in Nat : m = counted'[s]
      BY <2>6
    <3>2. charge' = [charge EXCEPT ![c].counted = m]
      BY <1>13, <2>s, <3>1 DEF StoreCount
    <3> QED
      BY <3>2 DEF TypeOK
  <2>8. torn' \in SUBSET Slots
    BY <1>13, <2>s DEF StoreCount, TypeOK
  <2> QED
    BY <1>13, <2>4, <2>5, <2>6, <2>7, <2>8 DEF StoreCount, TypeOK, CpuTypeOK, Unaltered, countVars
<1>14. CASE Compare(c)
  <2> DEFINE r == [cpu[c] EXCEPT !.pc = "drop", !.reason = 2, !.limit = rate_limit_config.threshold]
  <2>1. CASE cpu' = [cpu EXCEPT ![c].pc = "drop", ![c].reason = 2,
                                ![c].limit = rate_limit_config.threshold]
    <3>n. 2 \in 0..2 /\ rate_limit_config.threshold \in Nat
      BY DEF TypeOK
    <3>1. r \in CpuRecord /\ r.pc = "drop" /\ r.src = cpu[c].src
      BY <1>c, <3>n, Zenon DEF CpuRecord, Steps
    <3>2. cpu' = [cpu EXCEPT ![c] = r]
      BY <2>1, <1>c DEF TypeOK
    <3>3. CpuTypeOK'
      BY <1>14, <1>s, <3>1, <3>2, CpuType DEF Compare, PointerSteps, At
    <3> QED
      BY <1>14, <3>3, LocalStepType DEF Compare
  <2>2. CASE Goto(c, "pass")
    BY <1>14, <2>2, GotoType, LocalStepType DEF Compare, At, Steps, PointerSteps
  <2> QED
    BY <1>14, <2>1, <2>2 DEF Compare
<1>15. CASE CountDrop(c)
  <2>1. CpuTypeOK'
    BY <1>15, GotoType DEF CountDrop, At, Steps, PointerSteps
  <2> QED
    BY <1>15, <2>1, CounterType DEF CountDrop, TypeOK, CpuTypeOK, Unaltered, ghostVars
<1>16. CASE emit_drop_event(c)
  <2>1. CpuTypeOK'
    BY <1>16, <1>i, CpuType DEF emit_drop_event
  <2>2. drop_events' \in Seq([src_ip : Addrs, reason : 0..2])
    <3>1. [src_ip |-> cpu[c].src, reason |-> cpu[c].reason] \in [src_ip : Addrs, reason : 0..2]
      BY <1>16, <1>c, <1>s DEF emit_drop_event, At, CpuRecord
    <3> QED
      BY <1>16, <3>1, AppendProperties DEF emit_drop_event, TypeOK
  <2>3. watch' \in [CPUs -> [acked : BOOLEAN, listed : BOOLEAN,
                             unlisted : BOOLEAN, off : BOOLEAN]]
    BY <1>16 DEF emit_drop_event, NoWatch, TypeOK
  <2> QED
    BY <1>16, <2>1, <2>2, <2>3, ChargeType DEF emit_drop_event, TypeOK, CpuTypeOK, kernelVars
<1>17. CASE PassPacket(c)
  <2>1. CpuTypeOK'
    BY <1>17, <1>i, CpuType DEF PassPacket
  <2>2. watch' \in [CPUs -> [acked : BOOLEAN, listed : BOOLEAN,
                             unlisted : BOOLEAN, off : BOOLEAN]]
    BY <1>17 DEF PassPacket, NoWatch, TypeOK
  <2>3. packet_counters' \in [CPUs -> [0..1 -> Nat]]
    BY <1>17, CounterType DEF PassPacket
  <2>4. UNCHANGED <<kernelVars, drop_events, delivered, clock, acked, counted, torn>>
    BY <1>17 DEF PassPacket
  <2>5. charge' \in [CPUs -> [stale : BOOLEAN, counted : Nat]]
    BY <1>17, ChargeType DEF PassPacket
  <2> QED
    BY <2>1, <2>2, <2>3, <2>4, <2>5 DEF TypeOK, CpuTypeOK, kernelVars
<1> QED
  BY <1>1, <1>2, <1>3, <1>4, <1>5, <1>6, <1>7, <1>8, <1>9, <1>10, <1>11, <1>12,
     <1>13, <1>14, <1>15, <1>16, <1>17 DEF xdp_firewall

LEMMA NextType == TypeOK /\ [Next]_vars => TypeOK'
<1> SUFFICES ASSUME TypeOK, [Next]_vars PROVE TypeOK'
  OBVIOUS
<1>1. ASSUME NEW c \in CPUs, xdp_firewall(c) PROVE TypeOK'
  BY <1>1, FirewallType
<1> DEFINE Watches == [CPUs -> [acked : BOOLEAN, listed : BOOLEAN,
                                unlisted : BOOLEAN, off : BOOLEAN]]
<1>w. Observe => watch' \in Watches
  BY DEF Observe, TypeOK
<1>2. ASSUME NEW ip \in Addrs, HandleBlockIP(ip) PROVE TypeOK'
  BY <1>2, <1>w, KeyType
  DEF HandleBlockIP, BlockIP, ControlOnly, TypeOK, At, countVars, ghostVars
<1>3. ASSUME NEW ip \in Addrs, HandleUnblockIP(ip) PROVE TypeOK'
  BY <1>3, <1>w
  DEF HandleUnblockIP, UnblockIP, ControlOnly, TypeOK, At, countVars, ghostVars
<1>4. ASSUME NEW t \in Thresholds, NEW w \in Windows, HandleUpdateRateLimit(t, w)
      PROVE TypeOK'
  <2>1. rate_limit_config' \in [threshold : Nat, window_ms : Nat]
    BY <1>4, LimitsAssumption DEF HandleUpdateRateLimit, UpdateConfig
  <2> QED
    BY <1>4, <1>w, <2>1
    DEF HandleUpdateRateLimit, UpdateConfig, ControlOnly, TypeOK, At, countVars, ghostVars
<1>5. CASE ReadEvent
  <2>1. drop_events' \in Seq([src_ip : Addrs, reason : 0..2])
    BY <1>5, HeadTailProperties DEF ReadEvent, TypeOK
  <2> QED
    BY <1>5, <2>1 DEF ReadEvent, TypeOK, At, kernelVars, ghostVars
<1>6. CASE Tick
  BY <1>6 DEF Tick, TypeOK, At, kernelVars, countVars, ghostVars
<1>7. CASE UNCHANGED vars
  BY <1>7 DEF vars, TypeOK, At, kernelVars, countVars, ghostVars
<1> QED
  BY <1>1, <1>2, <1>3, <1>4, <1>5, <1>6, <1>7 DEF Next, Control

\* Every reachable state is well typed: in particular a CPU that updates a
\* limiter entry does hold a pointer to one.
THEOREM TypeCorrect == Spec => []TypeOK
<1> QED
  BY InitType, NextType, PTL DEF Spec

-----------------------------------------------------------------------------
(* No premature drops for the rate. *)

\* Why a count that is not stale never runs ahead of the packets counted in
\* its window: an entry's count is one of its current window unless the slot
\* is torn, and what a CPU has loaded is one of that window unless a restart
\* or an insertion has overtaken it.
SlotOK(s) ==
    /\ s \notin torn => rate_limit_state[s].count <= counted[s]
    /\ rate_limit_state[s].live => counted[s] >= 1

CpuOK(c) ==
    /\ cpu[c].pc \in PointerSteps => counted[cpu[c].slot] >= 1
    /\ cpu[c].pc = "store" =>
          \/ charge[c].stale
          \/ ~ Foreign(c) /\ cpu[c].count <= counted[cpu[c].slot]
    /\ cpu[c].pc = "compare" =>
          charge[c].stale \/ cpu[c].count <= charge[c].counted
    /\ cpu[c].pc \in {"drop", "emit"} /\ cpu[c].reason = 2 =>
          charge[c].stale \/ charge[c].counted > cpu[c].limit

LimiterInv ==
    /\ \A s \in Slots : SlotOK(s)
    /\ \A c \in CPUs : CpuOK(c)

\* A CPU that is not stepping keeps its part if it has been overtaken, or if
\* the entry it points to keeps its owner and has counted no fewer packets.
LEMMA OtherCpu ==
    ASSUME TypeOK, TypeOK', NEW d \in CPUs, CpuOK(d), cpu'[d] = cpu[d],
           cpu[d].pc \in PointerSteps => counted'[cpu[d].slot] >= 1,
           \/ cpu[d].pc = "store" /\ charge'[d].stale
           \/ /\ charge'[d] = charge[d]
              /\ cpu[d].pc = "store" =>
                    /\ rate_limit_state'[cpu[d].slot].ip = rate_limit_state[cpu[d].slot].ip
                    /\ counted[cpu[d].slot] <= counted'[cpu[d].slot]
    PROVE  CpuOK(d)'
<1>1. cpu[d].count \in Nat
  BY DEF TypeOK, CpuRecord
<1>2. cpu[d].pc = "store" =>
         counted[cpu[d].slot] \in Nat /\ counted'[cpu[d].slot] \in Nat
  BY DEF TypeOK, PointerSteps
<1>3. cpu[d].pc = "store" =>
         charge'[d].stale \/ (~ Foreign(d)' /\ cpu[d].count <= counted'[cpu[d].slot])
  BY <1>1, <1>2 DEF CpuOK, Foreign
<1> QED
  BY <1>3 DEF CpuOK

\* A step that writes no entry: only the CPU that takes it needs an argument.
LEMMA QuietStep ==
    ASSUME TypeOK, TypeOK', LimiterInv, NEW c \in CPUs,
           UNCHANGED <<rate_limit_state, counted, torn>>,
           \A d \in CPUs \ {c} : cpu'[d] = cpu[d] /\ charge'[d] = charge[d],
           CpuOK(c) /\ (\A s \in Slots : SlotOK(s)) => CpuOK(c)'
    PROVE  LimiterInv'
<1>1. \A s \in Slots : SlotOK(s)'
  BY DEF LimiterInv, SlotOK
<1>2. ASSUME NEW d \in CPUs, d # c PROVE CpuOK(d)'
  <2>1. CpuOK(d)
    BY DEF LimiterInv
  <2> QED
    BY <1>2, <2>1 DEF CpuOK, Foreign
<1>3. CpuOK(c)'
  BY DEF LimiterInv
<1> QED
  BY <1>1, <1>2, <1>3 DEF LimiterInv

LEMMA LimiterInit == Init => LimiterInv
<1> SUFFICES ASSUME Init PROVE LimiterInv
  OBVIOUS
<1>1. \A s \in Slots : SlotOK(s)
  BY DEF Init, SlotOK
<1>2. \A c \in CPUs : cpu[c].pc = "idle"
  BY DEF Init, Idle
<1> QED
  BY <1>1, <1>2 DEF LimiterInv, CpuOK, PointerSteps

\* Overtake marks what it should, and nothing else.
LEMMA Overtaken ==
    ASSUME TypeOK, NEW s, Overtake(s), NEW d \in CPUs
    PROVE  IF cpu[d].pc = "store" /\ cpu[d].slot = s
           THEN charge'[d].stale /\ charge'[d].counted = charge[d].counted
           ELSE charge'[d] = charge[d]
  BY DEF TypeOK, Overtake, At

\* Steps of the program.
LEMMA LimiterStep ==
    ASSUME TypeOK, TypeOK', LimiterInv, NEW c \in CPUs, xdp_firewall(c)
    PROVE  LimiterInv'
<1> USE DEF At, Goto, Unaltered
<1>c. cpu[c] \in CpuRecord /\ cpu[c].slot \in Slots \cup {NoSlot} /\ cpu[c].count \in Nat
  BY DEF TypeOK, CpuRecord
<1>d. /\ cpu \in [CPUs -> CpuRecord]
      /\ cpu' \in [CPUs -> CpuRecord]
      /\ \A d \in CPUs : cpu[d].pc \in PointerSteps => cpu[d].slot \in Slots
  BY DEF TypeOK
<1>g. counted \in [Slots -> Nat] /\ counted' \in [Slots -> Nat]
  BY DEF TypeOK
<1>i. (\A t \in Slots : SlotOK(t)) /\ (\A d \in CPUs : CpuOK(d))
  BY DEF LimiterInv
<1>1. CASE PassUnparsed(c)
  BY <1>1, QuietStep DEF PassUnparsed, kernelVars, CpuOK, Foreign, ghostVars
<1>2. ASSUME NEW a \in Addrs, Arrive(c, a) PROVE LimiterInv'
  <2>1. cpu'[c].pc = "blocklist" /\ \A d \in CPUs \ {c} : cpu'[d] = cpu[d]
    BY <1>2, <1>d DEF Arrive, CpuRecord
  <2> QED
    BY <1>2, <2>1, QuietStep DEF Arrive, kernelVars, CpuOK, PointerSteps, ghostVars
<1>3. CASE CheckBlocklist(c)
  <2>1. \A d \in CPUs \ {c} : cpu'[d] = cpu[d]
    BY <1>3, <1>d DEF CheckBlocklist
  <2>2. cpu'[c].pc = "config" \/ (cpu'[c].pc = "drop" /\ cpu'[c].reason = 1)
    BY <1>3, <1>d DEF CheckBlocklist, CpuRecord
  <2> QED
    BY <1>3, <2>1, <2>2, QuietStep DEF CheckBlocklist, CpuOK, PointerSteps, ghostVars
<1>4. CASE ReadConfig(c)
  <2>1. cpu'[c].pc \in {"clock", "pass"} /\ \A d \in CPUs \ {c} : cpu'[d] = cpu[d]
    BY <1>4, <1>d DEF ReadConfig, CpuRecord
  <2> QED
    BY <1>4, <2>1, QuietStep DEF ReadConfig, CpuOK, PointerSteps, ghostVars
<1>5. CASE ReadClock(c)
  <2>1. cpu'[c].pc = "lookup" /\ \A d \in CPUs \ {c} : cpu'[d] = cpu[d]
    BY <1>5, <1>d DEF ReadClock, CpuRecord
  <2> QED
    BY <1>5, <2>1, QuietStep DEF ReadClock, CpuOK, PointerSteps, ghostVars
<1>6. CASE Lookup(c)
  <2>1. \A d \in CPUs \ {c} : cpu'[d] = cpu[d]
    BY <1>6, <1>d DEF Lookup
  <2>2. ASSUME NEW s \in EntriesOf(cpu[c].src),
               cpu' = [cpu EXCEPT ![c].pc = "window", ![c].slot = s]
        PROVE  CpuOK(c)'
    <3>1. cpu'[c].pc = "window" /\ cpu'[c].slot = s /\ cpu'[c].src = cpu[c].src
      BY <2>2, <1>d DEF CpuRecord
    <3> QED
      BY <1>6, <1>i, <3>1 DEF Lookup, CpuOK, SlotOK, EntriesOf, ghostVars
  <2>3. ASSUME Goto(c, "insert") PROVE CpuOK(c)'
    <3>1. cpu'[c].pc = "insert"
      BY <2>3, <1>d DEF CpuRecord
    <3> QED
      BY <3>1 DEF CpuOK, PointerSteps
  <2>4. CpuOK(c)'
    BY <1>6, <2>2, <2>3 DEF Lookup
  <2> QED
    BY <1>6, <2>1, <2>4, QuietStep DEF Lookup, ghostVars
<1>8. CASE ReadWindow(c)
  <2>1. /\ cpu'[c].pc = "elapsed" /\ cpu'[c].slot = cpu[c].slot /\ cpu'[c].src = cpu[c].src
        /\ \A d \in CPUs \ {c} : cpu'[d] = cpu[d]
    BY <1>8, <1>d DEF ReadWindow, CpuRecord
  <2> QED
    BY <1>8, <2>1, QuietStep DEF ReadWindow, CpuOK, PointerSteps, ghostVars
<1>9. CASE CheckElapsed(c)
  <2>1. /\ cpu'[c].pc \in {"restart", "load"}
        /\ cpu'[c].slot = cpu[c].slot /\ cpu'[c].src = cpu[c].src
        /\ \A d \in CPUs \ {c} : cpu'[d] = cpu[d]
    BY <1>9, <1>d DEF CheckElapsed, CpuRecord
  <2> QED
    BY <1>9, <2>1, QuietStep DEF CheckElapsed, CpuOK, PointerSteps, ghostVars
<1>12. CASE LoadCount(c)
  <2>1. /\ cpu'[c].pc = "store" /\ cpu'[c].slot = cpu[c].slot /\ cpu'[c].src = cpu[c].src
        /\ cpu'[c].count = rate_limit_state[cpu[c].slot].count
        /\ \A d \in CPUs \ {c} : cpu'[d] = cpu[d]
    BY <1>12, <1>d DEF LoadCount, CpuRecord
  <2>2. cpu[c].slot \in Slots
    BY <1>12, <1>d DEF LoadCount, PointerSteps
  <2>3. /\ charge'[c].stale = (cpu[c].slot \in torn \/ Foreign(c))
        /\ \A d \in CPUs \ {c} : charge'[d] = charge[d]
    BY <1>12 DEF LoadCount, TypeOK
  <2>4. counted'[cpu[c].slot] >= 1 /\ UNCHANGED <<rate_limit_state, counted, torn>>
    BY <1>12, <1>i DEF LoadCount, CpuOK, PointerSteps
  <2>5. charge'[c].stale \/ (~ Foreign(c)' /\ cpu'[c].count <= counted'[cpu'[c].slot])
    BY <1>i, <2>1, <2>2, <2>3, <2>4 DEF SlotOK, Foreign
  <2>6. CpuOK(c)'
    BY <2>1, <2>4, <2>5 DEF CpuOK
  <2> QED
    BY <2>1, <2>3, <2>4, <2>6, QuietStep
<1>14. CASE Compare(c)
  <2>1. \A d \in CPUs \ {c} : cpu'[d] = cpu[d]
    BY <1>14, <1>d DEF Compare
  <2>2. ASSUME cpu' = [cpu EXCEPT ![c].pc = "drop", ![c].reason = 2,
                                  ![c].limit = rate_limit_config.threshold],
               OverThreshold(cpu[c].count, rate_limit_config.threshold),
               CpuOK(c)
        PROVE  CpuOK(c)'
    <3>1. /\ cpu'[c].pc = "drop" /\ cpu'[c].src = cpu[c].src
          /\ cpu'[c].limit = rate_limit_config.threshold
      BY <2>2, <1>d DEF CpuRecord
    <3>2. charge[c].counted \in Nat /\ rate_limit_config.threshold \in Nat
      BY DEF TypeOK
    <3>3. charge[c].stale \/ charge[c].counted > rate_limit_config.threshold
      BY <1>14, <1>c, <2>2, <3>2 DEF Compare, CpuOK, OverThreshold
    <3> QED
      BY <1>14, <3>1, <3>3 DEF Compare, CpuOK, PointerSteps, ghostVars
  <2>3. ASSUME Goto(c, "pass") PROVE CpuOK(c)'
    <3>1. cpu'[c].pc = "pass"
      BY <2>3, <1>d DEF CpuRecord
    <3> QED
      BY <3>1 DEF CpuOK, PointerSteps
  <2>4. CpuOK(c) => CpuOK(c)'
    BY <1>14, <2>2, <2>3 DEF Compare
  <2> QED
    BY <1>14, <2>1, <2>4, QuietStep DEF Compare, ghostVars
<1>15. CASE CountDrop(c)
  <2>1. /\ cpu[c].pc = "drop" /\ cpu'[c].pc = "emit" /\ cpu'[c].src = cpu[c].src
        /\ cpu'[c].reason = cpu[c].reason /\ cpu'[c].limit = cpu[c].limit
        /\ \A d \in CPUs \ {c} : cpu'[d] = cpu[d]
    BY <1>15, <1>d DEF CountDrop, CpuRecord
  <2> QED
    BY <1>15, <2>1, QuietStep DEF CountDrop, CpuOK, PointerSteps, ghostVars
<1>16. CASE emit_drop_event(c)
  <2>1. cpu'[c].pc = "idle" /\ \A d \in CPUs \ {c} : cpu'[d] = cpu[d]
    BY <1>16, <1>d DEF emit_drop_event, Idle
  <2>2. \A d \in CPUs \ {c} : charge'[d] = charge[d]
    BY <1>16 DEF emit_drop_event, TypeOK
  <2> QED
    BY <1>16, <2>1, <2>2, QuietStep DEF emit_drop_event, CpuOK, PointerSteps, kernelVars
<1>17. CASE PassPacket(c)
  <2>1. cpu'[c].pc = "idle" /\ \A d \in CPUs \ {c} : cpu'[d] = cpu[d]
    BY <1>17, <1>d DEF PassPacket, Idle
  <2>2. \A d \in CPUs \ {c} : charge'[d] = charge[d]
    BY <1>17 DEF PassPacket, TypeOK
  <2> QED
    BY <1>17, <2>1, <2>2, QuietStep DEF PassPacket, CpuOK, PointerSteps, kernelVars
<1>7. CASE Insert(c)
  <2>1. cpu'[c].pc = "pass" /\ \A d \in CPUs \ {c} : cpu'[d] = cpu[d]
    BY <1>7, <1>d DEF Insert, CpuRecord
  <2>2. CASE UNCHANGED <<rate_limit_state, ghostVars>>
    BY <1>7, <2>1, <2>2, QuietStep DEF CpuOK, PointerSteps, ghostVars
  <2>3. ASSUME NEW s \in Slots,
               rate_limit_state' = [t \in Slots |->
                  IF t = s
                  THEN [ip |-> cpu[c].src, live |-> TRUE,
                        window_start |-> cpu[c].now, count |-> 1]
                  ELSE [rate_limit_state[t] EXCEPT
                          !.live = @ /\ rate_limit_state[t].ip # cpu[c].src]],
               counted' = [counted EXCEPT ![s] = 1],
               torn' = torn \ {s},
               Overtake(s)
        PROVE  LimiterInv'
    <3>1. rate_limit_state'[s].count = 1 /\ counted'[s] = 1
      BY <2>3, <1>g
    <3>2. ASSUME NEW t \in Slots \ {s}
          PROVE  /\ rate_limit_state'[t].ip = rate_limit_state[t].ip
                 /\ rate_limit_state'[t].count = rate_limit_state[t].count
                 /\ rate_limit_state'[t].live => rate_limit_state[t].live
                 /\ counted'[t] = counted[t]
      <4>1. rate_limit_state[t] \in [ip : Addrs, live : BOOLEAN,
                                    window_start : Nat, count : Nat]
        BY DEF TypeOK
      <4>2. PICK b : /\ rate_limit_state'[t] = [rate_limit_state[t] EXCEPT !.live = b]
                     /\ b => rate_limit_state[t].live
        BY <2>3
      <4> QED
        BY <4>1, <4>2, <2>3, <1>g
    <3>3. SlotOK(s)'
      BY <3>1 DEF SlotOK
    <3>4. ASSUME NEW t \in Slots, t # s PROVE SlotOK(t)'
      BY <1>i, <2>3, <3>2, <3>4 DEF SlotOK
    <3>5. CpuOK(c)'
      BY <2>1 DEF CpuOK, PointerSteps
    <3>6. ASSUME NEW d \in CPUs, d # c PROVE CpuOK(d)'
      <4>1. cpu[d].pc \in PointerSteps =>
              cpu[d].slot \in Slots /\ counted[cpu[d].slot] >= 1 /\ counted'[cpu[d].slot] >= 1
        BY <1>d, <1>i, <3>1, <3>2 DEF CpuOK
      <4>2. \/ cpu[d].pc = "store" /\ charge'[d].stale
            \/ /\ charge'[d] = charge[d]
               /\ cpu[d].pc = "store" =>
                    /\ rate_limit_state'[cpu[d].slot].ip = rate_limit_state[cpu[d].slot].ip
                    /\ counted[cpu[d].slot] <= counted'[cpu[d].slot]
        <5>1. CASE cpu[d].pc = "store" /\ cpu[d].slot = s
          BY <2>3, <5>1, Overtaken
        <5>2. CASE cpu[d].pc = "store" /\ cpu[d].slot # s
          BY <2>3, <5>2, <4>1, <3>2, <1>g, Overtaken DEF PointerSteps
        <5>3. CASE cpu[d].pc # "store"
          BY <2>3, <5>3, Overtaken
        <5> QED
          BY <5>1, <5>2, <5>3
      <4> QED
        BY <1>i, <2>1, <3>6, <4>1, <4>2, OtherCpu
    <3> QED
      BY <3>3, <3>4, <3>5, <3>6 DEF LimiterInv
  <2> QED
    BY <1>7, <2>2, <2>3 DEF Insert
<1>10. CASE RestartWindow(c)
  <2>1. /\ cpu[c].pc = "restart" /\ cpu'[c].pc = "reset" /\ cpu'[c].slot = cpu[c].slot
        /\ \A d \in CPUs \ {c} : cpu'[d] = cpu[d]
    BY <1>10, <1>d DEF RestartWindow, CpuRecord
  <2>s. PICK s \in Slots : s = cpu[c].slot
    BY <2>1, <1>d DEF PointerSteps
  <2>2. \A t \in Slots :
             /\ rate_limit_state'[t].ip = rate_limit_state[t].ip
             /\ rate_limit_state'[t].count = rate_limit_state[t].count
             /\ rate_limit_state'[t].live = rate_limit_state[t].live
    BY <1>10 DEF RestartWindow, TypeOK
  <2>3. /\ counted'[s] = counted[s] \/ counted'[s] = 1
        /\ \A t \in Slots \ {s} : counted'[t] = counted[t]
        /\ torn' = torn \cup {s}
        /\ Overtake(s)
    BY <1>10, <2>s, <1>g DEF RestartWindow
  <2>4. \A t \in Slots : counted[t] >= 1 => counted'[t] >= 1
    BY <2>3, <1>g
  <2>5. \A t \in Slots : SlotOK(t)'
    BY <1>i, <2>2, <2>3, <2>4 DEF SlotOK
  <2>6. CpuOK(c)'
    BY <1>i, <2>1, <2>s, <2>4 DEF CpuOK, PointerSteps
  <2>7. ASSUME NEW d \in CPUs, d # c PROVE CpuOK(d)'
    <3>1. cpu[d].pc \in PointerSteps => cpu[d].slot \in Slots /\ counted'[cpu[d].slot] >= 1
      BY <1>d, <1>i, <2>4 DEF CpuOK
    <3>2. \/ cpu[d].pc = "store" /\ charge'[d].stale
          \/ /\ charge'[d] = charge[d]
             /\ cpu[d].pc = "store" =>
                    /\ rate_limit_state'[cpu[d].slot].ip = rate_limit_state[cpu[d].slot].ip
                    /\ counted[cpu[d].slot] <= counted'[cpu[d].slot]
      <4>1. CASE cpu[d].pc = "store" /\ cpu[d].slot = s
        BY <2>3, <4>1, Overtaken
      <4>2. CASE cpu[d].pc = "store" /\ cpu[d].slot # s
        BY <2>2, <2>3, <4>2, <3>1, <1>g, Overtaken DEF PointerSteps
      <4>3. CASE cpu[d].pc # "store"
        BY <2>3, <4>3, Overtaken
      <4> QED
        BY <4>1, <4>2, <4>3
    <3> QED
      BY <1>i, <2>1, <2>7, <3>1, <3>2, OtherCpu
  <2> QED
    BY <2>5, <2>6, <2>7 DEF LimiterInv
<1>11. CASE ResetCount(c)
  <2>1. /\ cpu[c].pc = "reset" /\ cpu'[c].pc = "pass"
        /\ \A d \in CPUs \ {c} : cpu'[d] = cpu[d]
    BY <1>11, <1>d DEF ResetCount, CpuRecord
  <2>s. PICK s \in Slots : s = cpu[c].slot
    BY <2>1, <1>d DEF PointerSteps
  <2>2. rate_limit_state' = [rate_limit_state EXCEPT ![s].count = 1]
    BY <1>11, <2>s DEF ResetCount, FirstCount
  <2>r. rate_limit_state \in
          [Slots -> [ip : Addrs, live : BOOLEAN, window_start : Nat, count : Nat]]
    BY DEF TypeOK
  <2>3. /\ \A t \in Slots : /\ rate_limit_state'[t].ip = rate_limit_state[t].ip
                            /\ rate_limit_state'[t].live = rate_limit_state[t].live
        /\ \A t \in Slots \ {s} :
              rate_limit_state'[t].count = rate_limit_state[t].count
        /\ rate_limit_state'[s].count = 1
    BY <2>2, <2>r
  <2>4. UNCHANGED <<counted, charge>> /\ torn \ {s} \subseteq torn'
    BY <1>11, <2>s DEF ResetCount
  <2>5. counted[s] >= 1
    BY <1>i, <2>1, <2>s DEF CpuOK, PointerSteps
  <2>6. \A t \in Slots : SlotOK(t)'
    BY <1>i, <2>3, <2>4, <2>5 DEF SlotOK
  <2>7. CpuOK(c)'
    BY <2>1 DEF CpuOK, PointerSteps
  <2>8. ASSUME NEW d \in CPUs, d # c PROVE CpuOK(d)'
    BY <1>d, <1>i, <2>1, <2>3, <2>4, <2>8 DEF CpuOK, Foreign, PointerSteps
  <2> QED
    BY <2>6, <2>7, <2>8 DEF LimiterInv
<1>13. CASE StoreCount(c)
  <2>1. /\ cpu[c].pc = "store" /\ cpu'[c].pc = "compare"
        /\ cpu'[c].count = cpu[c].count + 1
        /\ \A d \in CPUs \ {c} : cpu'[d] = cpu[d]
    BY <1>13, <1>d DEF StoreCount, CpuRecord
  <2>s. PICK s \in Slots : s = cpu[c].slot
    BY <2>1, <1>d DEF PointerSteps
  <2>n. PICK n \in Nat : n = cpu[c].count + 1
    BY <1>c
  <2>2. rate_limit_state' = [rate_limit_state EXCEPT ![s].count = n]
    BY <1>13, <2>s, <2>n DEF StoreCount
  <2>r. rate_limit_state \in
          [Slots -> [ip : Addrs, live : BOOLEAN, window_start : Nat, count : Nat]]
    BY DEF TypeOK
  <2>3. /\ \A t \in Slots : /\ rate_limit_state'[t].ip = rate_limit_state[t].ip
                            /\ rate_limit_state'[t].live = rate_limit_state[t].live
        /\ \A t \in Slots \ {s} :
              rate_limit_state'[t].count = rate_limit_state[t].count
        /\ rate_limit_state'[s].count = n
    BY <2>2, <2>r
  <2>4. /\ counted'[s] = IF Foreign(c) THEN counted[s] ELSE counted[s] + 1
        /\ \A t \in Slots \ {s} : counted'[t] = counted[t]
    BY <1>13, <2>s, <1>g DEF StoreCount
  <2>5. /\ charge[c].stale => s \in torn'
        /\ torn \ {s} \subseteq torn'
    BY <1>13, <2>s DEF StoreCount
  <2>6. /\ charge'[c].stale = charge[c].stale /\ charge'[c].counted = counted'[s]
        /\ \A d \in CPUs \ {c} : charge'[d] = charge[d]
    BY <1>13, <2>s DEF StoreCount, TypeOK
  <2>7. charge[c].stale \/ n <= counted'[s]
    <3>1. charge[c].stale \/ (~ Foreign(c) /\ cpu[c].count <= counted[s])
      BY <1>i, <2>1, <2>s DEF CpuOK
    <3>2. counted[s] \in Nat /\ cpu[c].count \in Nat
      BY <1>c, <1>g
    <3> QED
      BY <2>4, <2>n, <3>1, <3>2
  <2>8. \A t \in Slots : counted[t] <= counted'[t] /\ counted[t] \in Nat /\ counted'[t] \in Nat
    BY <2>4, <1>g
  <2>9. SlotOK(s)'
    BY <1>i, <2>3, <2>5, <2>7, <2>8 DEF SlotOK
  <2>10. ASSUME NEW t \in Slots, t # s PROVE SlotOK(t)'
    BY <1>i, <2>3, <2>4, <2>5, <2>10 DEF SlotOK
  <2>11. CpuOK(c)'
    BY <2>1, <2>6, <2>7, <2>n DEF CpuOK, PointerSteps
  <2>12. ASSUME NEW d \in CPUs, d # c PROVE CpuOK(d)'
    <3>1. cpu[d].pc \in PointerSteps => cpu[d].slot \in Slots /\ counted'[cpu[d].slot] >= 1
      BY <1>d, <1>i, <2>8 DEF CpuOK
    <3> QED
      BY <1>d, <1>i, <2>1, <2>3, <2>6, <2>8, <2>12, <3>1, OtherCpu DEF PointerSteps
  <2> QED
    BY <2>9, <2>10, <2>11, <2>12 DEF LimiterInv
<1> QED
  BY <1>1, <1>2, <1>3, <1>4, <1>5, <1>6, <1>7, <1>8, <1>9, <1>10, <1>11, <1>12,
     <1>13, <1>14, <1>15, <1>16, <1>17 DEF xdp_firewall

LEMMA LimiterNext == TypeOK /\ TypeOK' /\ LimiterInv /\ [Next]_vars => LimiterInv'
<1> SUFFICES ASSUME TypeOK, TypeOK', LimiterInv, [Next]_vars PROVE LimiterInv'
  OBVIOUS
<1>1. ASSUME NEW c \in CPUs, xdp_firewall(c) PROVE LimiterInv'
  BY <1>1, LimiterStep
<1>2. ASSUME UNCHANGED <<rate_limit_state, cpu, ghostVars>> PROVE LimiterInv'
  BY <1>2 DEF LimiterInv, SlotOK, CpuOK, Foreign, ghostVars
<1>3. CASE Control
  BY <1>2, <1>3
  DEF Control, HandleBlockIP, BlockIP, HandleUnblockIP, UnblockIP, HandleUpdateRateLimit, UpdateConfig, ControlOnly
<1>4. CASE ReadEvent \/ Tick \/ UNCHANGED vars
  BY <1>2, <1>4 DEF ReadEvent, Tick, vars, kernelVars
<1> QED
  BY <1>1, <1>3, <1>4 DEF Next

\* Whatever the CPUs do to each other's increments and windows, a packet
\* dropped for its rate on a count that is not stale is one of more packets of
\* its source, counted in the entry's current window, than the threshold
\* (xdp_firewall.c:165-173).
THEOREM RateDropsJustified == Spec => []NoPrematureRateDrop
<1>1. LimiterInv => NoPrematureRateDrop
  BY DEF LimiterInv, CpuOK, NoPrematureRateDrop
<1> QED
  BY InitType, NextType, LimiterInit, LimiterNext, <1>1, PTL DEF Spec

-----------------------------------------------------------------------------
(* Verdicts and the state of the maps. *)

\* What is known of the packet on CPU c: the history is true of the present
\* state, and past a test of the program it agrees with the test's outcome.
VerdictOK(c) ==
    /\ cpu[c].pc # "idle" =>
          /\ watch[c].listed => cpu[c].src \in blocklist
          /\ watch[c].unlisted => cpu[c].src \notin blocklist
          /\ watch[c].off => rate_limit_config.threshold = 0
    /\ cpu[c].pc \notin {"idle", "blocklist", "drop", "emit"} => ~ watch[c].listed
    /\ cpu[c].pc \in PointerSteps \cup {"clock", "lookup", "insert", "compare"}
          => ~ watch[c].off
    /\ cpu[c].pc \in {"drop", "emit"} =>
          /\ cpu[c].reason = 1 => ~ watch[c].unlisted
          /\ cpu[c].reason = 2 => ~ watch[c].listed /\ ~ watch[c].off

VerdictInv == \A c \in CPUs : VerdictOK(c)

\* A step of CPU c that leaves the maps and the histories alone.
LEMMA VerdictLocal ==
    ASSUME VerdictInv, NEW c \in CPUs,
           UNCHANGED <<blocklist, rate_limit_config, watch>>,
           \A d \in CPUs \ {c} : cpu'[d] = cpu[d],
           VerdictOK(c) => VerdictOK(c)'
    PROVE  VerdictInv'
  BY DEF VerdictInv, VerdictOK

LEMMA VerdictStep ==
    ASSUME TypeOK, VerdictInv, NEW c \in CPUs, xdp_firewall(c)
    PROVE  VerdictInv'
<1> USE DEF At, Goto, Unaltered
<1>d. cpu \in [CPUs -> CpuRecord] /\ watch \in [CPUs ->
          [acked : BOOLEAN, listed : BOOLEAN, unlisted : BOOLEAN, off : BOOLEAN]]
  BY DEF TypeOK
<1>t. rate_limit_config.threshold \in Nat
  BY DEF TypeOK
<1>1. CASE PassUnparsed(c)
  BY <1>1, VerdictLocal DEF PassUnparsed, kernelVars, VerdictOK
<1>2. ASSUME NEW a \in Addrs, Arrive(c, a) PROVE VerdictInv'
  <2>1. /\ cpu'[c].pc = "blocklist" /\ cpu'[c].src = a
        /\ \A d \in CPUs \ {c} : cpu'[d] = cpu[d] /\ watch'[d] = watch[d]
        /\ watch'[c].listed <=> a \in blocklist
        /\ watch'[c].unlisted <=> a \notin blocklist
        /\ watch'[c].off <=> rate_limit_config.threshold = 0
    BY <1>2, <1>d DEF Arrive, CpuRecord
  <2>2. UNCHANGED <<blocklist, rate_limit_config>>
    BY <1>2 DEF Arrive, kernelVars
  <2>3. VerdictOK(c)'
    BY <2>1, <2>2 DEF VerdictOK, PointerSteps
  <2>4. ASSUME NEW d \in CPUs, d # c PROVE VerdictOK(d)'
    <3>1. VerdictOK(d) /\ cpu'[d] = cpu[d] /\ watch'[d] = watch[d]
      BY <2>1, <2>4 DEF VerdictInv
    <3> QED
      BY <3>1, <2>2 DEF VerdictOK
  <2> QED
    BY <2>3, <2>4 DEF VerdictInv
<1>3. CASE CheckBlocklist(c)
  <2>1. \A d \in CPUs \ {c} : cpu'[d] = cpu[d]
    BY <1>3, <1>d DEF CheckBlocklist
  <2>2. /\ cpu'[c].src = cpu[c].src
        /\ \/ cpu'[c].pc = "drop" /\ cpu'[c].reason = 1 /\ cpu[c].src \in blocklist
           \/ cpu'[c].pc = "config" /\ cpu[c].src \notin blocklist
    BY <1>3, <1>d DEF CheckBlocklist, CpuRecord, Blocked
  <2> QED
    BY <1>3, <2>1, <2>2, VerdictLocal DEF CheckBlocklist, VerdictOK, PointerSteps
<1>4. CASE ReadConfig(c)
  <2>1. /\ cpu'[c].src = cpu[c].src
        /\ \/ cpu'[c].pc = "clock" /\ rate_limit_config.threshold > 0
           \/ cpu'[c].pc = "pass"
        /\ \A d \in CPUs \ {c} : cpu'[d] = cpu[d]
    BY <1>4, <1>d DEF ReadConfig, CpuRecord, LimiterOn
  <2> QED
    BY <1>4, <1>t, <2>1, VerdictLocal DEF ReadConfig, VerdictOK, PointerSteps
<1>5. CASE ReadClock(c)
  <2>1. /\ cpu'[c].pc = "lookup" /\ cpu'[c].src = cpu[c].src
        /\ \A d \in CPUs \ {c} : cpu'[d] = cpu[d]
    BY <1>5, <1>d DEF ReadClock, CpuRecord
  <2>2. UNCHANGED <<blocklist, rate_limit_config, watch>> /\ cpu[c].pc = "clock"
    BY <1>5 DEF ReadClock
  <2> QED
    BY <2>1, <2>2, VerdictLocal DEF VerdictOK, PointerSteps
<1>6. CASE Lookup(c)
  <2>1. /\ cpu'[c].pc \in {"window", "insert"} /\ cpu'[c].src = cpu[c].src
        /\ \A d \in CPUs \ {c} : cpu'[d] = cpu[d]
    BY <1>6, <1>d DEF Lookup, CpuRecord
  <2> QED
    BY <1>6, <2>1, VerdictLocal DEF Lookup, VerdictOK, PointerSteps
<1>7. CASE Insert(c)
  <2>1. /\ cpu'[c].pc = "pass" /\ cpu'[c].src = cpu[c].src
        /\ \A d \in CPUs \ {c} : cpu'[d] = cpu[d]
    BY <1>7, <1>d DEF Insert, CpuRecord
  <2> QED
    BY <1>7, <2>1, VerdictLocal DEF Insert, VerdictOK, PointerSteps
<1>8. CASE ReadWindow(c)
  <2>1. /\ cpu'[c].pc = "elapsed" /\ cpu'[c].src = cpu[c].src
        /\ \A d \in CPUs \ {c} : cpu'[d] = cpu[d]
    BY <1>8, <1>d DEF ReadWindow, CpuRecord
  <2>2. UNCHANGED <<blocklist, rate_limit_config, watch>> /\ cpu[c].pc = "window"
    BY <1>8 DEF ReadWindow
  <2> QED
    BY <2>1, <2>2, VerdictLocal DEF VerdictOK, PointerSteps
<1>9. CASE CheckElapsed(c)
  <2>1. /\ cpu'[c].pc \in {"restart", "load"} /\ cpu'[c].src = cpu[c].src
        /\ \A d \in CPUs \ {c} : cpu'[d] = cpu[d]
    BY <1>9, <1>d DEF CheckElapsed, CpuRecord
  <2> QED
    BY <1>9, <2>1, VerdictLocal DEF CheckElapsed, VerdictOK, PointerSteps
<1>10. CASE RestartWindow(c)
  <2>1. /\ cpu'[c].pc = "reset" /\ cpu'[c].src = cpu[c].src
        /\ \A d \in CPUs \ {c} : cpu'[d] = cpu[d]
    BY <1>10, <1>d DEF RestartWindow, CpuRecord
  <2> QED
    BY <1>10, <2>1, VerdictLocal DEF RestartWindow, VerdictOK, PointerSteps
<1>11. CASE ResetCount(c)
  <2>1. /\ cpu'[c].pc = "pass" /\ cpu'[c].src = cpu[c].src
        /\ \A d \in CPUs \ {c} : cpu'[d] = cpu[d]
    BY <1>11, <1>d DEF ResetCount, CpuRecord
  <2> QED
    BY <1>11, <2>1, VerdictLocal DEF ResetCount, VerdictOK, PointerSteps
<1>12. CASE LoadCount(c)
  <2>1. /\ cpu'[c].pc = "store" /\ cpu'[c].src = cpu[c].src
        /\ \A d \in CPUs \ {c} : cpu'[d] = cpu[d]
    BY <1>12, <1>d DEF LoadCount, CpuRecord
  <2>2. UNCHANGED <<blocklist, rate_limit_config, watch>> /\ cpu[c].pc = "load"
    BY <1>12 DEF LoadCount
  <2> QED
    BY <2>1, <2>2, VerdictLocal DEF VerdictOK, PointerSteps
<1>13. CASE StoreCount(c)
  <2>1. /\ cpu'[c].pc = "compare" /\ cpu'[c].src = cpu[c].src
        /\ \A d \in CPUs \ {c} : cpu'[d] = cpu[d]
    BY <1>13, <1>d DEF StoreCount, CpuRecord
  <2>2. UNCHANGED <<blocklist, rate_limit_config, watch>> /\ cpu[c].pc = "store"
    BY <1>13 DEF StoreCount
  <2> QED
    BY <2>1, <2>2, VerdictLocal DEF VerdictOK, PointerSteps
<1>14. CASE Compare(c)
  <2>1. /\ cpu'[c].src = cpu[c].src
        /\ \/ cpu'[c].pc = "drop" /\ cpu'[c].reason = 2
           \/ cpu'[c].pc = "pass"
        /\ \A d \in CPUs \ {c} : cpu'[d] = cpu[d]
    BY <1>14, <1>d DEF Compare, CpuRecord
  <2> QED
    BY <1>14, <2>1, VerdictLocal DEF Compare, VerdictOK, PointerSteps
<1>15. CASE CountDrop(c)
  <2>1. /\ cpu'[c].pc = "emit" /\ cpu'[c].src = cpu[c].src
        /\ cpu'[c].reason = cpu[c].reason
        /\ \A d \in CPUs \ {c} : cpu'[d] = cpu[d]
    BY <1>15, <1>d DEF CountDrop, CpuRecord
  <2> QED
    BY <1>15, <2>1, VerdictLocal DEF CountDrop, VerdictOK, PointerSteps
<1>16. ASSUME cpu' = [cpu EXCEPT ![c] = Idle], watch' = [watch EXCEPT ![c] = NoWatch],
              UNCHANGED kernelVars
       PROVE  VerdictInv'
  <2>1. /\ cpu'[c].pc = "idle"
        /\ \A d \in CPUs \ {c} : cpu'[d] = cpu[d] /\ watch'[d] = watch[d]
    BY <1>16, <1>d DEF Idle
  <2> QED
    BY <1>16, <2>1 DEF VerdictInv, VerdictOK, PointerSteps, kernelVars
<1>17. CASE emit_drop_event(c) \/ PassPacket(c)
  BY <1>16, <1>17 DEF emit_drop_event, PassPacket
<1> QED
  BY <1>1, <1>2, <1>3, <1>4, <1>5, <1>6, <1>7, <1>8, <1>9, <1>10, <1>11, <1>12,
     <1>13, <1>14, <1>15, <1>17 DEF xdp_firewall

LEMMA VerdictNext == TypeOK /\ VerdictInv /\ [Next]_vars => VerdictInv'
<1> SUFFICES ASSUME TypeOK, VerdictInv, [Next]_vars PROVE VerdictInv'
  OBVIOUS
<1>1. ASSUME NEW c \in CPUs, xdp_firewall(c) PROVE VerdictInv'
  BY <1>1, VerdictStep
<1>2. ASSUME Observe, UNCHANGED cpu, NEW c \in CPUs PROVE VerdictOK(c)'
  <2>1. cpu[c].pc # "idle" =>
          /\ watch'[c].listed <=> watch[c].listed /\ cpu[c].src \in blocklist'
          /\ watch'[c].unlisted <=> watch[c].unlisted /\ cpu[c].src \notin blocklist'
          /\ watch'[c].off <=> watch[c].off /\ rate_limit_config'.threshold = 0
    BY <1>2 DEF Observe
  <2>2. cpu[c].pc = "idle" => watch'[c] = watch[c]
    BY <1>2 DEF Observe
  <2>3. VerdictOK(c) /\ cpu'[c] = cpu[c]
    BY <1>2 DEF VerdictInv
  <2> QED
    BY <2>1, <2>2, <2>3 DEF VerdictOK, PointerSteps
<1>3. CASE Control
  BY <1>2, <1>3 DEF VerdictInv, Control, HandleBlockIP, BlockIP, HandleUnblockIP, UnblockIP,
                    HandleUpdateRateLimit, UpdateConfig, ControlOnly
<1>4. CASE ReadEvent \/ Tick \/ UNCHANGED vars
  BY <1>4 DEF ReadEvent, Tick, vars, kernelVars, VerdictInv, VerdictOK
<1> QED
  BY <1>1, <1>3, <1>4 DEF Next

\* Every verdict is justified by the maps as they were at some moment of the
\* packet's time on its CPU (xdp_firewall.c:144-150, 154).
THEOREM VerdictsJustified == Spec => []VerdictFollowsMaps
<1>1. Init => VerdictInv
  BY DEF Init, VerdictInv, VerdictOK, Idle, PointerSteps
<1>2. VerdictInv => VerdictFollowsMaps
  BY DEF VerdictInv, VerdictOK, VerdictFollowsMaps, At
<1> QED
  BY InitType, NextType, VerdictNext, <1>1, <1>2, PTL DEF Spec

-----------------------------------------------------------------------------
(* The listing. *)

\* Keys and addresses correspond one to one.
LEMMA KeyRoundTrip == ASSUME NEW ip \in Addrs PROVE ListedIP(Key(ip)) = ip
  BY AddrsAssumption DEF Key, ListedIP

ListingInv == blocklist = {Key(ip) : ip \in acked}

LEMMA ListingNext == TypeOK /\ ListingInv /\ [Next]_vars => ListingInv'
<1> SUFFICES ASSUME TypeOK, ListingInv, [Next]_vars PROVE ListingInv'
  OBVIOUS
<1>1. ASSUME UNCHANGED <<blocklist, acked>> PROVE ListingInv'
  BY <1>1 DEF ListingInv
<1>2. ASSUME NEW c \in CPUs, xdp_firewall(c) PROVE UNCHANGED <<blocklist, acked>>
  BY <1>2 DEF xdp_firewall, PassUnparsed, Arrive, CheckBlocklist, ReadConfig,
     ReadClock, Lookup, Insert, ReadWindow, CheckElapsed, RestartWindow,
     ResetCount, LoadCount, StoreCount, Compare, CountDrop, emit_drop_event,
     PassPacket, Unaltered, kernelVars
<1>3. ASSUME NEW ip \in Addrs, HandleBlockIP(ip) PROVE ListingInv'
  BY <1>3 DEF HandleBlockIP, BlockIP, ListingInv
<1>4. ASSUME NEW ip \in Addrs, HandleUnblockIP(ip) PROVE ListingInv'
  <2>1. \A j \in acked : Key(j) = Key(ip) => j = ip
    BY KeyRoundTrip DEF TypeOK
  <2> QED
    BY <1>4, <2>1 DEF HandleUnblockIP, UnblockIP, ListingInv
<1>5. CASE \E t \in Thresholds, w \in Windows : HandleUpdateRateLimit(t, w)
  BY <1>1, <1>5 DEF HandleUpdateRateLimit, UpdateConfig
<1>6. CASE ReadEvent \/ Tick \/ UNCHANGED vars
  BY <1>1, <1>6 DEF ReadEvent, Tick, vars, kernelVars
<1> QED
  BY <1>1, <1>2, <1>3, <1>4, <1>5, <1>6 DEF Next, Control

\* GET /api/blocked lists exactly the blocks acknowledged and not withdrawn
\* (maps.go:22-80), on either byte order.
THEOREM ListingExact == Spec => []ListingMatchesRequests
<1>1. Init => ListingInv
  BY DEF Init, ListingInv
<1>2. TypeOK /\ ListingInv => ListingMatchesRequests
  BY KeyRoundTrip DEF TypeOK, ListingInv, ListingMatchesRequests, ListBlockedIPs
<1> QED
  BY InitType, NextType, ListingNext, <1>1, <1>2, PTL DEF Spec

-----------------------------------------------------------------------------
(* The ring buffer and the drop counters. *)

Emitting == {c \in CPUs : At(c, "emit")}

\* A drop that has been counted is a record in the ring, a record read, a
\* record about to be submitted - or one that found the ring full.
OutrunInv == Len(drop_events) + delivered + Cardinality(Emitting) <= Dropped

LEMMA EmittingFinite == IsFiniteSet(Emitting) /\ Cardinality(Emitting) \in Nat
<1>1. Emitting \subseteq CPUs
  BY DEF Emitting
<1> QED
  BY <1>1, CPUsAssumption, FS_Subset, FS_CardinalityType

\* The drop counters, one for each CPU.
LEMMA DropCounters ==
    ASSUME TypeOK
    PROVE  [c \in CPUs |-> packet_counters[c][1]] \in [CPUs -> Nat]
<1>1. \A c \in CPUs : packet_counters[c] \in [0..1 -> Nat]
  BY DEF TypeOK
<1>2. \A c \in CPUs : packet_counters[c][1] \in Nat
  BY <1>1
<1> QED
  BY <1>2

\* increment_counter moves Dropped only for the second counter, and by one.
LEMMA DroppedMoves ==
    ASSUME TypeOK, NEW c \in CPUs, NEW index \in 0..1, increment_counter(c, index)
    PROVE  Dropped \in Nat /\ Dropped' = Dropped + index
<1>1. PICK f \in [CPUs -> Nat] : f = [d \in CPUs |-> packet_counters[d][1]]
  BY DropCounters
<1>2. PICK g : g = [d \in CPUs |-> packet_counters'[d][1]]
  OBVIOUS
<1>3. PICK n \in Nat : n = f[c] + index
  BY <1>1
<1>4. g = [f EXCEPT ![c] = n]
  <2>1. \A d \in CPUs : packet_counters'[d][1] =
              IF d = c THEN packet_counters[d][1] + index ELSE packet_counters[d][1]
    BY DEF TypeOK, increment_counter
  <2> QED
    BY <1>1, <1>2, <1>3, <2>1
<1>5. Dropped = SumFunction(f) /\ Dropped' = SumFunction(g)
  BY <1>1, <1>2 DEF Dropped
<1>6. SumFunction(f) \in Nat /\ SumFunction([f EXCEPT ![c] = n]) = SumFunction(f) - f[c] + n
  BY CPUsAssumption, SumChange
<1> QED
  BY <1>3, <1>4, <1>5, <1>6

LEMMA DroppedType == ASSUME TypeOK PROVE Dropped \in Nat
<1>1. PICK f \in [CPUs -> Nat] : f = [d \in CPUs |-> packet_counters[d][1]]
  BY DropCounters
<1>2. SumFunction(f) \in Nat
  BY CPUsAssumption, SumType
<1> QED
  BY <1>1, <1>2 DEF Dropped

\* A step of CPU c that neither counts nor submits anything.
LEMMA OutrunQuiet ==
    ASSUME OutrunInv, NEW c \in CPUs, UNCHANGED countVars,
           cpu[c].pc # "emit", cpu'[c].pc # "emit",
           \A d \in CPUs \ {c} : cpu'[d] = cpu[d]
    PROVE  OutrunInv'
<1>1. Emitting' = Emitting
  BY DEF Emitting, At
<1> QED
  BY <1>1 DEF OutrunInv, countVars, Dropped

LEMMA OutrunInit == Init => OutrunInv
<1> SUFFICES ASSUME Init PROVE OutrunInv
  OBVIOUS
<1>1. Emitting = {}
  BY DEF Init, Emitting, At, Idle
<1>2. Len(drop_events) = 0 /\ delivered = 0
  BY DEF Init
<1> QED
  BY <1>1, <1>2, InitType, DroppedType, FS_EmptySet DEF OutrunInv

LEMMA OutrunStep ==
    ASSUME TypeOK, OutrunInv, NEW c \in CPUs, xdp_firewall(c)
    PROVE  OutrunInv'
<1> USE DEF At, Goto, Unaltered
<1>d. cpu \in [CPUs -> CpuRecord]
  BY DEF TypeOK
<1>n. /\ Len(drop_events) \in Nat /\ delivered \in Nat /\ Dropped \in Nat
      /\ IsFiniteSet(Emitting) /\ Cardinality(Emitting) \in Nat
  BY DroppedType, EmittingFinite DEF TypeOK
<1>1. CASE PassUnparsed(c)
  <2>1. Dropped' = Dropped + 0 /\ Emitting' = Emitting
    BY <1>1, DroppedMoves DEF PassUnparsed, Emitting
  <2> QED
    BY <1>1, <1>n, <2>1 DEF OutrunInv, PassUnparsed
<1>2. ASSUME NEW a \in Addrs, Arrive(c, a) PROVE OutrunInv'
  <2>1. /\ cpu[c].pc = "idle" /\ cpu'[c].pc = "blocklist"
        /\ \A d \in CPUs \ {c} : cpu'[d] = cpu[d]
    BY <1>2, <1>d DEF Arrive, CpuRecord
  <2> QED
    BY <1>2, <2>1, OutrunQuiet DEF Arrive
<1>3. ASSUME CheckBlocklist(c) \/ ReadConfig(c) \/ ReadClock(c) \/ Lookup(c) \/ Insert(c)
      PROVE  OutrunInv'
  <2>1. /\ cpu[c].pc \in {"blocklist", "config", "clock", "lookup", "insert"}
        /\ cpu'[c].pc \in {"drop", "config", "clock", "pass", "lookup", "window", "insert"}
        /\ \A d \in CPUs \ {c} : cpu'[d] = cpu[d]
    BY <1>3, <1>d DEF CheckBlocklist, ReadConfig, ReadClock, Lookup, Insert, CpuRecord
  <2> QED
    BY <1>3, <2>1, OutrunQuiet DEF CheckBlocklist, ReadConfig, ReadClock, Lookup, Insert
<1>4. ASSUME ReadWindow(c) \/ CheckElapsed(c) \/ RestartWindow(c) \/ ResetCount(c)
      PROVE  OutrunInv'
  <2>1. /\ cpu[c].pc \in {"window", "elapsed", "restart", "reset"}
        /\ cpu'[c].pc \in {"elapsed", "restart", "load", "reset", "pass"}
        /\ \A d \in CPUs \ {c} : cpu'[d] = cpu[d]
    BY <1>4, <1>d DEF ReadWindow, CheckElapsed, RestartWindow, ResetCount, CpuRecord
  <2> QED
    BY <1>4, <2>1, OutrunQuiet DEF ReadWindow, CheckElapsed, RestartWindow, ResetCount
<1>5. ASSUME LoadCount(c) \/ StoreCount(c) \/ Compare(c) PROVE OutrunInv'
  <2>1. /\ cpu[c].pc \in {"load", "store", "compare"}
        /\ cpu'[c].pc \in {"store", "compare", "drop", "pass"}
        /\ \A d \in CPUs \ {c} : cpu'[d] = cpu[d]
    BY <1>5, <1>d DEF LoadCount, StoreCount, Compare, CpuRecord
  <2> QED
    BY <1>5, <2>1, OutrunQuiet DEF LoadCount, StoreCount, Compare
<1>6. CASE CountDrop(c)
  <2>1. /\ cpu[c].pc = "drop" /\ cpu'[c].pc = "emit"
        /\ \A d \in CPUs \ {c} : cpu'[d] = cpu[d]
    BY <1>6, <1>d DEF CountDrop, CpuRecord
  <2>2. Emitting' = Emitting \cup {c} /\ c \notin Emitting
    BY <2>1 DEF Emitting
  <2>3. Cardinality(Emitting \cup {c}) = Cardinality(Emitting) + 1
    BY <1>n, <2>2, FS_AddElement
  <2>4. Dropped' = Dropped + 1
    BY <1>6, DroppedMoves DEF CountDrop
  <2> QED
    BY <1>6, <1>n, <2>2, <2>3, <2>4 DEF OutrunInv, CountDrop
<1>7. CASE emit_drop_event(c)
  <2>1. /\ cpu[c].pc = "emit" /\ cpu'[c].pc # "emit"
        /\ \A d \in CPUs \ {c} : cpu'[d] = cpu[d]
    BY <1>7, <1>d DEF emit_drop_event, Idle
  <2>2. Emitting' = Emitting \ {c} /\ c \in Emitting
    BY <2>1 DEF Emitting
  <2>3. Cardinality(Emitting \ {c}) = Cardinality(Emitting) - 1
    BY <1>n, <2>2, FS_RemoveElement
  <2>4. Len(drop_events') \in {Len(drop_events), Len(drop_events) + 1}
    BY <1>7 DEF emit_drop_event, TypeOK
  <2>5. Dropped' = Dropped
    BY <1>7 DEF emit_drop_event, Dropped
  <2> QED
    BY <1>7, <1>n, <2>2, <2>3, <2>4, <2>5 DEF OutrunInv, emit_drop_event
<1>8. CASE PassPacket(c)
  <2>1. /\ cpu[c].pc = "pass" /\ cpu'[c].pc # "emit"
        /\ \A d \in CPUs \ {c} : cpu'[d] = cpu[d]
    BY <1>8, <1>d DEF PassPacket, Idle
  <2>2. Emitting' = Emitting
    BY <2>1 DEF Emitting
  <2>3. Dropped' = Dropped + 0
    BY <1>8, DroppedMoves DEF PassPacket
  <2> QED
    BY <1>8, <1>n, <2>2, <2>3 DEF OutrunInv, PassPacket
<1> QED
  BY <1>1, <1>2, <1>3, <1>4, <1>5, <1>6, <1>7, <1>8 DEF xdp_firewall

LEMMA OutrunNext == TypeOK /\ OutrunInv /\ [Next]_vars => OutrunInv'
<1> SUFFICES ASSUME TypeOK, OutrunInv, [Next]_vars PROVE OutrunInv'
  OBVIOUS
<1>1. ASSUME NEW c \in CPUs, xdp_firewall(c) PROVE OutrunInv'
  BY <1>1, OutrunStep
<1>2. ASSUME UNCHANGED <<countVars, cpu>> PROVE OutrunInv'
  BY <1>2 DEF OutrunInv, countVars, Emitting, At, Dropped
<1>3. CASE Control
  BY <1>2, <1>3 DEF Control, HandleBlockIP, HandleUnblockIP, HandleUpdateRateLimit, ControlOnly
<1>4. CASE ReadEvent
  <2>1. Len(drop_events') = Len(drop_events) - 1
    BY <1>4 DEF ReadEvent, TypeOK
  <2>2. Emitting' = Emitting /\ Dropped' = Dropped /\ delivered' = delivered + 1
    BY <1>4 DEF ReadEvent, Emitting, At, Dropped
  <2>3. Len(drop_events) \in Nat /\ delivered \in Nat
    BY DEF TypeOK
  <2> QED
    BY <2>1, <2>2, <2>3 DEF OutrunInv
<1>5. CASE Tick \/ UNCHANGED vars
  BY <1>2, <1>5 DEF Tick, vars
<1> QED
  BY <1>1, <1>3, <1>4, <1>5 DEF Next

\* For any number of CPUs, readers of the ring buffer never learn of more drops
\* than the counters show (xdp_firewall.c:147-148, 171-172).
THEOREM EventsFollowCounters == Spec => []EventsNeverOutrunDrops
<1>1. TypeOK /\ OutrunInv => EventsNeverOutrunDrops
  <2> SUFFICES ASSUME TypeOK, OutrunInv PROVE EventsNeverOutrunDrops
    OBVIOUS
  <2>1. /\ Len(drop_events) \in Nat /\ delivered \in Nat /\ Dropped \in Nat
        /\ Cardinality(Emitting) \in Nat
    BY DroppedType, EmittingFinite DEF TypeOK
  <2> QED
    BY <2>1 DEF OutrunInv, EventsNeverOutrunDrops
<1> QED
  BY InitType, NextType, OutrunInit, OutrunNext, <1>1, PTL DEF Spec

-----------------------------------------------------------------------------
(* XdpFirewall implements KernelView. *)

LEMMA PassCounters ==
    ASSUME TypeOK
    PROVE  [c \in CPUs |-> packet_counters[c][0]] \in [CPUs -> Nat]
<1>1. \A c \in CPUs : packet_counters[c] \in [0..1 -> Nat]
  BY DEF TypeOK
<1>2. \A c \in CPUs : packet_counters[c][0] \in Nat
  BY <1>1
<1> QED
  BY <1>2

LEMMA PassedType == ASSUME TypeOK PROVE Passed \in Nat
<1>1. PICK f \in [CPUs -> Nat] : f = [d \in CPUs |-> packet_counters[d][0]]
  BY PassCounters
<1>2. SumFunction(f) \in Nat
  BY CPUsAssumption, SumType
<1> QED
  BY <1>1, <1>2 DEF Passed

\* What DroppedMoves says of the second counter, for the first one.
LEMMA PassedMoves ==
    ASSUME TypeOK, NEW c \in CPUs, NEW index \in 0..1, increment_counter(c, index)
    PROVE  Passed' = Passed + (1 - index)
<1>1. PICK f \in [CPUs -> Nat] : f = [d \in CPUs |-> packet_counters[d][0]]
  BY PassCounters
<1>2. PICK g : g = [d \in CPUs |-> packet_counters'[d][0]]
  OBVIOUS
<1>3. PICK n \in Nat : n = f[c] + (1 - index)
  BY <1>1
<1>4. g = [f EXCEPT ![c] = n]
  <2>1. \A d \in CPUs : packet_counters'[d][0] =
              IF d = c THEN packet_counters[d][0] + (1 - index) ELSE packet_counters[d][0]
    <3>1. \A d \in CPUs : packet_counters[d][0] \in Nat
      BY <1>1
    <3> QED
      BY <3>1 DEF TypeOK, increment_counter
  <2> QED
    BY <1>1, <1>2, <1>3, <2>1
<1>5. Passed = SumFunction(f) /\ Passed' = SumFunction(g)
  BY <1>1, <1>2 DEF Passed
<1>6. SumFunction(f) \in Nat /\ SumFunction([f EXCEPT ![c] = n]) = SumFunction(f) - f[c] + n
  BY CPUsAssumption, SumChange
<1> QED
  BY <1>3, <1>4, <1>5, <1>6

\* CPUs that have counted a drop of a packet from a and will report it.
Reporters(a) == {c \in CPUs : At(c, "emit") /\ cpu[c].src = a}

SourcesOf(events) == [i \in DOMAIN events |-> events[i].src_ip]

LEMMA EmittingIs == emitting = [a \in Addrs |-> Cardinality(Reporters(a))]
  BY DEF emitting, Reporters

LEMMA ReportersFinite ==
    ASSUME NEW a
    PROVE  IsFiniteSet(Reporters(a)) /\ Cardinality(Reporters(a)) \in Nat
<1>1. Reporters(a) \subseteq CPUs
  BY DEF Reporters
<1> QED
  BY <1>1, CPUsAssumption, FS_Subset, FS_CardinalityType

\* A step of CPU c before and after which it has no drop to report.
LEMMA EmittingQuiet ==
    ASSUME NEW c \in CPUs, cpu[c].pc # "emit", cpu'[c].pc # "emit",
           \A d \in CPUs \ {c} : cpu'[d] = cpu[d]
    PROVE  emitting' = emitting
<1>1. \A a : Reporters(a)' = Reporters(a)
  BY DEF Reporters, At
<1>2. emitting' = [a \in Addrs |-> Cardinality(Reporters(a)')]
  BY DEF emitting, Reporters
<1> QED
  BY <1>1, <1>2, EmittingIs

LEMMA EmittingSame == ASSUME UNCHANGED cpu PROVE emitting' = emitting
  BY DEF emitting, At

\* c comes to the step that reports its drop ...
LEMMA EmittingGrows ==
    ASSUME NEW c \in CPUs, cpu[c].pc # "emit", cpu'[c].pc = "emit",
           cpu[c].src \in Addrs, cpu'[c].src = cpu[c].src,
           \A d \in CPUs \ {c} : cpu'[d] = cpu[d]
    PROVE  emitting' = [emitting EXCEPT ![cpu[c].src] = @ + 1]
<1>1. PICK a : a = cpu[c].src
  OBVIOUS
<1>2. Reporters(a)' = Reporters(a) \cup {c} /\ c \notin Reporters(a)
  BY <1>1 DEF Reporters, At
<1>3. Cardinality(Reporters(a)') = Cardinality(Reporters(a)) + 1
  BY <1>2, ReportersFinite, FS_AddElement
<1>4. \A b : b # a => Reporters(b)' = Reporters(b)
  BY <1>1 DEF Reporters, At
<1>5. \A b \in Addrs : Cardinality(Reporters(b)') =
        IF b = a THEN Cardinality(Reporters(b)) + 1 ELSE Cardinality(Reporters(b))
  BY <1>3, <1>4
<1>6. emitting' = [b \in Addrs |-> Cardinality(Reporters(b)')]
  BY DEF emitting, Reporters
<1> QED
  BY <1>1, <1>5, <1>6, EmittingIs

\* ... and has reported it.
LEMMA EmittingShrinks ==
    ASSUME NEW c \in CPUs, cpu[c].pc = "emit", cpu'[c].pc # "emit",
           cpu[c].src \in Addrs,
           \A d \in CPUs \ {c} : cpu'[d] = cpu[d]
    PROVE  /\ emitting[cpu[c].src] > 0
           /\ emitting' = [emitting EXCEPT ![cpu[c].src] = @ - 1]
<1>1. PICK a : a = cpu[c].src
  OBVIOUS
<1>2. Reporters(a)' = Reporters(a) \ {c} /\ c \in Reporters(a)
  BY <1>1 DEF Reporters, At
<1>3. /\ Cardinality(Reporters(a)') = Cardinality(Reporters(a)) - 1
      /\ Cardinality(Reporters(a)') \in Nat /\ Cardinality(Reporters(a)) \in Nat
  <2>1. IsFiniteSet(Reporters(a)) /\ Cardinality(Reporters(a)) \in Nat
    BY ReportersFinite
  <2>2. Cardinality(Reporters(a) \ {c}) = Cardinality(Reporters(a)) - 1
    BY <1>2, <2>1, FS_RemoveElement
  <2>3. Cardinality(Reporters(a) \ {c}) \in Nat
    BY <2>1, FS_Subset, FS_CardinalityType
  <2> QED
    BY <1>2, <2>1, <2>2, <2>3
<1>4. \A b : b # a => Reporters(b)' = Reporters(b)
  BY <1>1 DEF Reporters, At
<1>5. \A b \in Addrs : Cardinality(Reporters(b)') =
        IF b = a THEN Cardinality(Reporters(b)) - 1 ELSE Cardinality(Reporters(b))
  BY <1>3, <1>4
<1>6. emitting' = [b \in Addrs |-> Cardinality(Reporters(b)')]
  BY DEF emitting, Reporters
<1>7. emitting[a] = Cardinality(Reporters(a)) /\ emitting[a] > 0
  BY <1>1, <1>3, EmittingIs
<1> QED
  BY <1>1, <1>5, <1>6, <1>7, EmittingIs

\* The ring as user space sees it.
LEMMA SourcesAppend ==
    ASSUME NEW events \in Seq([src_ip : Addrs, reason : 0..2]),
           NEW e \in [src_ip : Addrs, reason : 0..2]
    PROVE  /\ Len(SourcesOf(events)) = Len(events)
           /\ SourcesOf(Append(events, e)) = Append(SourcesOf(events), e.src_ip)
<1>1. SourcesOf(events) = [i \in 1..Len(events) |-> events[i].src_ip]
  BY DEF SourcesOf
<1>2. Len(events) \in Nat /\ Len(SourcesOf(events)) = Len(events)
  BY <1>1
<1>3. SourcesOf(Append(events, e)) =
        [i \in 1..(Len(events) + 1) |-> Append(events, e)[i].src_ip]
  BY DEF SourcesOf
<1>4. Append(SourcesOf(events), e.src_ip) =
        [i \in 1..(Len(events) + 1) |->
            IF i = Len(events) + 1 THEN e.src_ip ELSE events[i].src_ip]
  BY <1>1, <1>2
<1>5. \A i \in 1..(Len(events) + 1) :
        Append(events, e)[i].src_ip = IF i = Len(events) + 1 THEN e.src_ip ELSE events[i].src_ip
  BY <1>2
<1> QED
  BY <1>2, <1>3, <1>4, <1>5

LEMMA SourcesTail ==
    ASSUME NEW events \in Seq([src_ip : Addrs, reason : 0..2]), events # <<>>
    PROVE  /\ SourcesOf(events) # <<>>
           /\ SourcesOf(Tail(events)) = Tail(SourcesOf(events))
<1>1. SourcesOf(events) = [i \in 1..Len(events) |-> events[i].src_ip]
  BY DEF SourcesOf
<1>2. Len(events) \in Nat \ {0} /\ Len(SourcesOf(events)) = Len(events)
  BY <1>1
<1>3. SourcesOf(Tail(events)) = [i \in 1..(Len(events) - 1) |-> events[i + 1].src_ip]
  <2>1. Len(Tail(events)) = Len(events) - 1 /\ DOMAIN Tail(events) = 1..(Len(events) - 1)
    BY <1>2
  <2>2. \A i \in 1..(Len(events) - 1) : Tail(events)[i] = events[i + 1]
    BY <1>2
  <2> QED
    BY <2>1, <2>2 DEF SourcesOf
<1>4. Tail(SourcesOf(events)) = [i \in 1..(Len(events) - 1) |-> events[i + 1].src_ip]
  BY <1>1, <1>2
<1> QED
  BY <1>2, <1>3, <1>4

\* Nothing that user space sees has changed.
LEMMA ViewSame ==
    ASSUME UNCHANGED countVars, emitting' = emitting
    PROVE  UNCHANGED View!vars
  BY DEF View!vars, countVars, Passed, Dropped

LEMMA ViewInit == Init => View!Init
<1> SUFFICES ASSUME Init PROVE View!Init
  OBVIOUS
<1>1. Passed = 0 /\ Dropped = 0
  <2>1. /\ [c \in CPUs |-> packet_counters[c][0]] = [c \in CPUs |-> 0]
        /\ [c \in CPUs |-> packet_counters[c][1]] = [c \in CPUs |-> 0]
    BY DEF Init
  <2> QED
    BY <2>1, CPUsAssumption, SumZero DEF Passed, Dropped
<1>2. emitting = [a \in Addrs |-> 0]
  <2>1. \A a : Reporters(a) = {}
    BY DEF Init, Reporters, At, Idle
  <2> QED
    BY <2>1, EmittingIs, FS_EmptySet
<1>3. [i \in DOMAIN drop_events |-> drop_events[i].src_ip] = <<>>
  BY DEF Init
<1> QED
  BY <1>1, <1>2, <1>3 DEF View!Init

LEMMA ViewStep ==
    ASSUME TypeOK, NEW c \in CPUs, xdp_firewall(c)
    PROVE  [View!Next]_(View!vars)
<1> USE DEF At, Goto, Unaltered
<1>d. cpu \in [CPUs -> CpuRecord]
  BY DEF TypeOK
<1>s. cpu[c].pc # "idle" => cpu[c].src \in Addrs
  BY DEF TypeOK
<1>1. CASE PassUnparsed(c)
  <2>1. Passed' = Passed + 1 /\ Dropped' = Dropped
    <3>1. Passed' = Passed + (1 - 0) /\ Dropped' = Dropped + 0 /\ Dropped \in Nat
      BY <1>1, PassedMoves, DroppedMoves DEF PassUnparsed
    <3> QED
      BY <3>1
  <2>2. emitting' = emitting /\ drop_events' = drop_events
    BY <1>1, EmittingSame DEF PassUnparsed
  <2>3. View!Pass
    BY <2>1, <2>2 DEF View!Pass
  <2> QED
    BY <2>3 DEF View!Next
<1>2. ASSUME NEW a \in Addrs, Arrive(c, a) PROVE UNCHANGED View!vars
  <2>1. /\ cpu[c].pc = "idle" /\ cpu'[c].pc = "blocklist"
        /\ \A d \in CPUs \ {c} : cpu'[d] = cpu[d]
    BY <1>2, <1>d DEF Arrive, CpuRecord
  <2> QED
    BY <1>2, <2>1, EmittingQuiet, ViewSame DEF Arrive
<1>3. ASSUME CheckBlocklist(c) \/ ReadConfig(c) \/ ReadClock(c) \/ Lookup(c) \/ Insert(c)
      PROVE  UNCHANGED View!vars
  <2>1. /\ cpu[c].pc \in {"blocklist", "config", "clock", "lookup", "insert"}
        /\ cpu'[c].pc \in {"drop", "config", "clock", "pass", "lookup", "window", "insert"}
        /\ \A d \in CPUs \ {c} : cpu'[d] = cpu[d]
    BY <1>3, <1>d DEF CheckBlocklist, ReadConfig, ReadClock, Lookup, Insert, CpuRecord
  <2>2. UNCHANGED countVars
    BY <1>3 DEF CheckBlocklist, ReadConfig, ReadClock, Lookup, Insert
  <2> QED
    BY <2>1, <2>2, EmittingQuiet, ViewSame
<1>4. ASSUME ReadWindow(c) \/ CheckElapsed(c) \/ RestartWindow(c) \/ ResetCount(c)
      PROVE  UNCHANGED View!vars
  <2>1. /\ cpu[c].pc \in {"window", "elapsed", "restart", "reset"}
        /\ cpu'[c].pc \in {"elapsed", "restart", "load", "reset", "pass"}
        /\ \A d \in CPUs \ {c} : cpu'[d] = cpu[d]
    BY <1>4, <1>d DEF ReadWindow, CheckElapsed, RestartWindow, ResetCount, CpuRecord
  <2>2. UNCHANGED countVars
    BY <1>4 DEF ReadWindow, CheckElapsed, RestartWindow, ResetCount
  <2> QED
    BY <2>1, <2>2, EmittingQuiet, ViewSame
<1>5. ASSUME LoadCount(c) \/ StoreCount(c) \/ Compare(c) PROVE UNCHANGED View!vars
  <2>1. /\ cpu[c].pc \in {"load", "store", "compare"}
        /\ cpu'[c].pc \in {"store", "compare", "drop", "pass"}
        /\ \A d \in CPUs \ {c} : cpu'[d] = cpu[d]
    BY <1>5, <1>d DEF LoadCount, StoreCount, Compare, CpuRecord
  <2>2. UNCHANGED countVars
    BY <1>5 DEF LoadCount, StoreCount, Compare
  <2> QED
    BY <2>1, <2>2, EmittingQuiet, ViewSame
<1>6. CASE CountDrop(c)
  <2>1. /\ cpu[c].pc = "drop" /\ cpu'[c].pc = "emit" /\ cpu'[c].src = cpu[c].src
        /\ \A d \in CPUs \ {c} : cpu'[d] = cpu[d]
    BY <1>6, <1>d DEF CountDrop, CpuRecord
  <2>2. PICK a \in Addrs : a = cpu[c].src
    BY <1>s, <2>1
  <2>3. emitting' = [emitting EXCEPT ![a] = @ + 1]
    BY <2>1, <2>2, EmittingGrows
  <2>4. Passed' = Passed /\ Dropped' = Dropped + 1
    <3>1. Passed' = Passed + (1 - 1) /\ Dropped' = Dropped + 1
      BY <1>6, PassedMoves, DroppedMoves DEF CountDrop
    <3>2. Passed \in Nat
      BY PassedType
    <3> QED
      BY <3>1, <3>2
  <2>5. View!Drop(a)
    BY <1>6, <2>3, <2>4 DEF View!Drop, CountDrop
  <2> QED
    BY <2>5 DEF View!Next
<1>7. CASE emit_drop_event(c)
  <2>1. /\ cpu[c].pc = "emit" /\ cpu'[c].pc # "emit"
        /\ \A d \in CPUs \ {c} : cpu'[d] = cpu[d]
    BY <1>7, <1>d DEF emit_drop_event, Idle
  <2>2. PICK a \in Addrs : a = cpu[c].src
    BY <1>s, <2>1
  <2>3. emitting[a] > 0 /\ emitting' = [emitting EXCEPT ![a] = @ - 1]
    BY <2>1, <2>2, EmittingShrinks
  <2>4. PICK e : e = [src_ip |-> cpu[c].src, reason |-> cpu[c].reason]
    OBVIOUS
  <2>5. e \in [src_ip : Addrs, reason : 0..2] /\ e.src_ip = a
    BY <2>2, <2>4, <1>d DEF CpuRecord
  <2>6. drop_events \in Seq([src_ip : Addrs, reason : 0..2])
    BY DEF TypeOK
  <2>7. drop_events' = IF RingHasRoom THEN Append(drop_events, e) ELSE drop_events
    BY <1>7, <2>4 DEF emit_drop_event
  <2>8. /\ Len(SourcesOf(drop_events)) = Len(drop_events)
        /\ SourcesOf(Append(drop_events, e)) = Append(SourcesOf(drop_events), a)
    BY <2>5, <2>6, SourcesAppend
  <2>9. SourcesOf(drop_events') = IF Len(SourcesOf(drop_events)) < RingSize
                                  THEN Append(SourcesOf(drop_events), a)
                                  ELSE SourcesOf(drop_events)
    BY <2>7, <2>8 DEF RingHasRoom
  <2>10. Passed' = Passed /\ Dropped' = Dropped
    BY <1>7 DEF emit_drop_event, Passed, Dropped
  <2>11. View!Emit(a)
    BY <2>3, <2>9, <2>10 DEF View!Emit, View!RingHasRoom, SourcesOf
  <2> QED
    BY <2>11 DEF View!Next
<1>8. CASE PassPacket(c)
  <2>1. /\ cpu[c].pc = "pass" /\ cpu'[c].pc # "emit"
        /\ \A d \in CPUs \ {c} : cpu'[d] = cpu[d]
    BY <1>8, <1>d DEF PassPacket, Idle
  <2>2. emitting' = emitting
    BY <2>1, EmittingQuiet
  <2>3. Passed' = Passed + 1 /\ Dropped' = Dropped
    <3>1. Passed' = Passed + (1 - 0) /\ Dropped' = Dropped + 0 /\ Dropped \in Nat
      BY <1>8, PassedMoves, DroppedMoves DEF PassPacket
    <3> QED
      BY <3>1
  <2>4. View!Pass
    BY <1>8, <2>2, <2>3 DEF View!Pass, PassPacket
  <2> QED
    BY <2>4 DEF View!Next
<1> QED
  BY <1>1, <1>2, <1>3, <1>4, <1>5, <1>6, <1>7, <1>8 DEF xdp_firewall

LEMMA ViewNext == TypeOK /\ [Next]_vars => [View!Next]_(View!vars)
<1> SUFFICES ASSUME TypeOK, [Next]_vars PROVE [View!Next]_(View!vars)
  OBVIOUS
<1>1. ASSUME NEW c \in CPUs, xdp_firewall(c) PROVE [View!Next]_(View!vars)
  BY <1>1, ViewStep
<1>2. ASSUME UNCHANGED <<countVars, cpu>> PROVE UNCHANGED View!vars
  BY <1>2, EmittingSame, ViewSame
<1>3. CASE Control
  BY <1>2, <1>3 DEF Control, HandleBlockIP, HandleUnblockIP, HandleUpdateRateLimit, ControlOnly
<1>4. CASE ReadEvent
  <2>1. drop_events \in Seq([src_ip : Addrs, reason : 0..2]) /\ drop_events # <<>>
    BY <1>4 DEF ReadEvent, TypeOK
  <2>2. /\ SourcesOf(drop_events) # <<>>
        /\ SourcesOf(drop_events') = Tail(SourcesOf(drop_events))
    BY <1>4, <2>1, SourcesTail DEF ReadEvent
  <2>3. emitting' = emitting /\ Passed' = Passed /\ Dropped' = Dropped
    BY <1>4, EmittingSame DEF ReadEvent, Passed, Dropped
  <2>4. View!Take
    BY <2>2, <2>3 DEF View!Take, SourcesOf
  <2> QED
    BY <2>4 DEF View!Next
<1>5. CASE Tick \/ UNCHANGED vars
  BY <1>2, <1>5 DEF Tick, vars
<1> QED
  BY <1>1, <1>3, <1>4, <1>5 DEF Next

\* However the CPUs interleave, user space sees one program that counts each
\* drop and then reports it, once, under its source and unless the ring is
\* full (xdp_firewall.c:114-131, 147-148, 171-172).
THEOREM UserSpaceSeesKernelView == Spec => ImplementsKernelView
<1> QED
  BY InitType, NextType, ViewInit, ViewNext, PTL
  DEF Spec, ImplementsKernelView, View!Spec
=============================================================================
