-------------------------- MODULE SSEBroker_proofs --------------------------
(***************************************************************************)
(* Safety of the broker for any number of clients, any channel sizes and   *)
(* any number of kicks under way.                                          *)
(***************************************************************************)
EXTENDS SSEBroker, TLAPS

LEMMA Sizes == /\ ChanSize \in Nat \ {0}
               /\ InputSize \in Nat \ {0}
               /\ MaxKicks \in Nat \ {0}
  BY SizesAssumption

LEMMA InitType == Init => TypeOK
<1>1. 0 \in 0..InputSize /\ 0 \in 0..ChanSize /\ 0 \in 0..MaxKicks
  BY Sizes
<1> QED
  BY <1>1, Zenon DEF Init, TypeOK

LEMMA NextType == TypeOK /\ [Next]_vars => TypeOK'
<1> SUFFICES ASSUME TypeOK, [Next]_vars PROVE TypeOK'
  OBVIOUS
<1> USE DEF TypeOK, HubWaits, HandlerOnly, hubVars, clientVars, Return
<1>1. ASSUME NEW c \in Clients, Register(c) PROVE TypeOK'
  BY <1>1 DEF Register
<1>2. ASSUME NEW c \in Clients, UnregisterByHandler(c) PROVE TypeOK'
  BY <1>2 DEF UnregisterByHandler, Close, Registered
<1>3. ASSUME NEW c \in Clients, UnregisterByKick(c) PROVE TypeOK'
  BY <1>3, Sizes DEF UnregisterByKick, Close, Registered
<1>4. CASE TakeSnapshot
  BY <1>4, Sizes DEF TakeSnapshot
<1>5. ASSUME NEW c \in Clients, Serve(c) PROVE TypeOK'
  <2>1. CASE HasRoom(c)
    <3>1. buffered[c] + 1 \in 0..ChanSize
      BY <2>1, Sizes DEF HasRoom
    <3>2. buffered' \in [Clients -> 0..ChanSize] /\ UNCHANGED <<kicks, missed>>
      BY <1>5, <2>1, <3>1 DEF Serve
    <3> QED
      BY <1>5, <3>2 DEF Serve
  <2>2. CASE ~ HasRoom(c)
    <3>1. StartKick(kicks[c]) \in 0..MaxKicks
      BY Sizes DEF StartKick
    <3>2. kicks' \in [Clients -> 0..MaxKicks] /\ UNCHANGED <<buffered, panicked>>
      BY <1>5, <2>2, <3>1 DEF Serve
    <3> QED
      BY <1>5, <2>2, <3>2 DEF Serve
  <2> QED
    BY <2>1, <2>2
<1>6. CASE EndFanout
  BY <1>6 DEF EndFanout
<1>7. CASE HubStops
  BY <1>7 DEF HubStops, ClosedByStop
<1>8. CASE Stop
  BY <1>8 DEF Stop
<1>9. CASE Offer
  BY <1>9, Sizes DEF Offer
<1>10. ASSUME NEW c \in Clients, Connect(c) PROVE TypeOK'
  BY <1>10, Sizes DEF Connect
<1>11. ASSUME NEW c \in Clients, Disconnect(c) PROVE TypeOK'
  BY <1>11 DEF Disconnect
<1>12. ASSUME NEW c \in Clients, NoticeGone(c) PROVE TypeOK'
  BY <1>12 DEF NoticeGone
<1>13. ASSUME NEW c \in Clients, Receive(c) PROVE TypeOK'
  BY <1>13, Sizes DEF Receive
<1>14. ASSUME NEW c \in Clients, Write(c) PROVE TypeOK'
  BY <1>14 DEF Write
<1>15. CASE UNCHANGED vars
  BY <1>15 DEF vars
<1> QED
  BY <1>1, <1>2, <1>3, <1>4, <1>5, <1>6, <1>7, <1>8, <1>9, <1>10, <1>11, <1>12,
     <1>13, <1>14, <1>15 DEF Next, Hub, Handler

\* Every reachable state of the broker is well typed.
THEOREM TypeCorrect == Spec => []TypeOK
  BY InitType, NextType, PTL DEF Spec

-----------------------------------------------------------------------------
(* Channels and the map. *)

\* A channel in the map is open and its handler has not returned; a fan-out
\* serves registered clients only; a fresh channel has not lost anything.
MapInv ==
    /\ ~ panicked
    /\ pending \subseteq clients
    /\ \A c \in Clients :
          /\ c \in clients => /\ ~ closed[c]
                              /\ handler[c] \in {"loop", "write", "unregister"}
          /\ handler[c] = "register" => ~ closed[c] /\ ~ missed[c]
          /\ missed[c] /\ c \in clients => kicks[c] > 0
    /\ hub # "fanout" => pending = {}

LEMMA MapNext == TypeOK /\ MapInv /\ [Next]_vars => MapInv'
<1> SUFFICES ASSUME TypeOK, MapInv, [Next]_vars PROVE MapInv'
  OBVIOUS
<1> USE DEF TypeOK, MapInv, HubWaits, HandlerOnly, hubVars, clientVars, Return
<1>1. ASSUME NEW c \in Clients, Register(c) PROVE MapInv'
  BY <1>1 DEF Register
<1>2. ASSUME NEW c \in Clients, UnregisterByHandler(c) PROVE MapInv'
  BY <1>2 DEF UnregisterByHandler, Close, Registered
<1>3. ASSUME NEW c \in Clients, UnregisterByKick(c) PROVE MapInv'
  BY <1>3, Sizes DEF UnregisterByKick, Close, Registered
<1>4. CASE TakeSnapshot
  BY <1>4, Sizes DEF TakeSnapshot
<1>5. ASSUME NEW c \in Clients, Serve(c) PROVE MapInv'
  BY <1>5, Sizes DEF Serve, StartKick
<1>6. CASE EndFanout
  BY <1>6 DEF EndFanout
<1>7. CASE HubStops
  BY <1>7 DEF HubStops, ClosedByStop
<1>8. CASE Stop
  BY <1>8 DEF Stop
<1>9. CASE Offer
  BY <1>9, Sizes DEF Offer
<1>10. ASSUME NEW c \in Clients, Connect(c) PROVE MapInv'
  BY <1>10, Sizes DEF Connect
<1>11. ASSUME NEW c \in Clients, Disconnect(c) PROVE MapInv'
  BY <1>11 DEF Disconnect
<1>12. ASSUME NEW c \in Clients, NoticeGone(c) PROVE MapInv'
  BY <1>12 DEF NoticeGone
<1>13. ASSUME NEW c \in Clients, Receive(c) PROVE MapInv'
  BY <1>13, Sizes DEF Receive
<1>14. ASSUME NEW c \in Clients, Write(c) PROVE MapInv'
  BY <1>14 DEF Write
<1>15. CASE UNCHANGED vars
  BY <1>15 DEF vars
<1> QED
  BY <1>1, <1>2, <1>3, <1>4, <1>5, <1>6, <1>7, <1>8, <1>9, <1>10, <1>11, <1>12,
     <1>13, <1>14, <1>15 DEF Next, Hub, Handler

LEMMA MapInvariant == Spec => []MapInv
<1>1. Init => MapInv
  BY DEF Init, MapInv
<1> QED
  BY InitType, NextType, MapNext, <1>1, PTL DEF Spec

\* No channel is closed twice or sent to once closed (broadcaster.go:45-80),
\* whoever asks for a client to be unregistered and in whatever order.
THEOREM BrokerNeverPanics == Spec => []NoPanic
<1>1. MapInv => NoPanic
  BY DEF MapInv, NoPanic
<1> QED
  BY MapInvariant, <1>1, PTL

\* A registered client from which a snapshot was withheld has a kick under
\* way (broadcaster.go:72-79).
THEOREM NoSilentGap == Spec => []GapMeansKick
<1>1. MapInv => GapMeansKick
  BY DEF MapInv, GapMeansKick
<1> QED
  BY MapInvariant, <1>1, PTL

-----------------------------------------------------------------------------
(* The broker implements the event streams. *)

\* Only a client from which a snapshot was withheld is kicked; a handler
\* whose client is still registered returns only since its dashboard hung up;
\* none is registered once the hub has stopped, as it was told to.
StreamInv ==
    /\ \A c \in Clients :
          /\ kicks[c] > 0 => missed[c]
          /\ handler[c] = "unregister" /\ c \in clients => gone[c]
    /\ hub = "stopped" => clients = {} /\ done

LEMMA StreamNext == TypeOK /\ MapInv /\ StreamInv /\ [Next]_vars => StreamInv'
<1> SUFFICES ASSUME TypeOK, MapInv, StreamInv, [Next]_vars PROVE StreamInv'
  OBVIOUS
<1> USE DEF TypeOK, MapInv, StreamInv, HubWaits, HandlerOnly, hubVars,
            clientVars, Return
<1>1. ASSUME NEW c \in Clients, Register(c) PROVE StreamInv'
  BY <1>1 DEF Register
<1>2. ASSUME NEW c \in Clients, UnregisterByHandler(c) PROVE StreamInv'
  BY <1>2 DEF UnregisterByHandler, Close, Registered
<1>3. ASSUME NEW c \in Clients, UnregisterByKick(c) PROVE StreamInv'
  BY <1>3, Sizes DEF UnregisterByKick, Close, Registered
<1>4. CASE TakeSnapshot
  BY <1>4, Sizes DEF TakeSnapshot
<1>5. ASSUME NEW c \in Clients, Serve(c) PROVE StreamInv'
  BY <1>5, Sizes DEF Serve, StartKick
<1>6. CASE EndFanout
  BY <1>6 DEF EndFanout
<1>7. CASE HubStops
  BY <1>7 DEF HubStops, ClosedByStop
<1>8. CASE Stop
  BY <1>8 DEF Stop
<1>9. CASE Offer
  BY <1>9, Sizes DEF Offer
<1>10. ASSUME NEW c \in Clients, Connect(c) PROVE StreamInv'
  BY <1>10, Sizes DEF Connect
<1>11. ASSUME NEW c \in Clients, Disconnect(c) PROVE StreamInv'
  BY <1>11 DEF Disconnect
<1>12. ASSUME NEW c \in Clients, NoticeGone(c) PROVE StreamInv'
  BY <1>12 DEF NoticeGone
<1>13. ASSUME NEW c \in Clients, Receive(c) PROVE StreamInv'
  BY <1>13, Sizes DEF Receive
<1>14. ASSUME NEW c \in Clients, Write(c) PROVE StreamInv'
  BY <1>14 DEF Write
<1>15. CASE UNCHANGED vars
  BY <1>15 DEF vars
<1> QED
  BY <1>1, <1>2, <1>3, <1>4, <1>5, <1>6, <1>7, <1>8, <1>9, <1>10, <1>11, <1>12,
     <1>13, <1>14, <1>15 DEF Next, Hub, Handler

\* The stream of one client.
LEMMA StreamOf ==
  ASSUME NEW c \in Clients, TypeOK, MapInv
  PROVE  /\ handler[c] = "idle" => stream[c] = "none" /\ c \notin clients
         /\ handler[c] = "register" => stream[c] = "asked" /\ c \notin clients
         /\ c \in clients /\ missed[c] => stream[c] = "broken"
         /\ c \in clients /\ ~ missed[c] => stream[c] = "live"
         /\ handler[c] \notin {"idle", "register"} /\ c \notin clients
               => stream[c] = "ended"
  BY DEF TypeOK, MapInv, stream

LEMMA OpenStreams == TypeOK /\ MapInv => Streams!Open = clients
<1> SUFFICES ASSUME TypeOK, MapInv PROVE Streams!Open = clients
  OBVIOUS
<1>1. \A c \in Clients : c \in clients <=> stream[c] \in {"live", "broken"}
  BY StreamOf DEF TypeOK
<1> QED
  BY <1>1 DEF Streams!Open, TypeOK

\* A step that disturbs the stream of no other client.
LEMMA StreamMoves ==
  ASSUME NEW c \in Clients, NEW x, stream'[c] = x,
         \A d \in Clients \ {c} :
            /\ handler'[d] = handler[d] /\ missed'[d] = missed[d]
            /\ d \in clients' <=> d \in clients
  PROVE  stream' = [stream EXCEPT ![c] = x]
<1>1. \A d \in Clients \ {c} : stream'[d] = stream[d]
  BY DEF stream
<1>2. stream = [d \in Clients |-> stream[d]] /\ stream' = [d \in Clients |-> stream'[d]]
  BY DEF stream
<1> QED
  BY <1>1, <1>2

LEMMA StreamStays ==
  ASSUME \A d \in Clients : stream'[d] = stream[d]
  PROVE  stream' = stream
<1>1. stream = [d \in Clients |-> stream[d]] /\ stream' = [d \in Clients |-> stream'[d]]
  BY DEF stream
<1> QED
  BY <1>1


\* A kick that the hub takes ends a broken stream, or does nothing more.
LEMMA KickMaps ==
  ASSUME NEW c \in Clients, TypeOK, MapInv, StreamInv, TypeOK', MapInv',
         UnregisterByKick(c)
  PROVE  Streams!Kick(c) \/ UNCHANGED Streams!vars
<1> USE DEF UnregisterByKick, Close, Registered, HubWaits
<1>1. UNCHANGED <<status, buffered, gone, pending>> /\ pending = {}
  BY DEF status, MapInv
<1>2. \A d \in Clients \ {c} : d \in clients' <=> d \in clients
  OBVIOUS
<1>3. CASE c \in clients
  <2>1. stream[c] = "broken"
    BY <1>3, StreamOf DEF StreamInv, TypeOK
  <2>2. stream'[c] = "ended"
    BY <1>3 DEF stream, MapInv
  <2>3. stream' = [stream EXCEPT ![c] = "ended"]
    BY <1>2, <2>2, StreamMoves
  <2> QED
    BY <1>1, <2>1, <2>3 DEF Streams!Kick, Streams!Becomes
<1>4. CASE c \notin clients
  <2>1. clients' = clients
    BY <1>4
  <2>2. stream' = stream
    BY <2>1 DEF stream
  <2> QED
    BY <1>1, <2>2 DEF Streams!vars
<1> QED
  BY <1>3, <1>4

\* A handler that returns has its client's stream forgotten.
LEMMA HandlerMaps ==
  ASSUME NEW c \in Clients, TypeOK, MapInv, StreamInv, TypeOK', MapInv',
         UnregisterByHandler(c)
  PROVE  Streams!Forget(c)
<1> USE DEF UnregisterByHandler, Close, Registered, HubWaits
<1>1. UNCHANGED <<status, buffered, gone, pending>> /\ pending = {}
  BY DEF status, MapInv
<1>2. \A d \in Clients \ {c} : /\ handler'[d] = handler[d]
                               /\ d \in clients' <=> d \in clients
  BY DEF TypeOK
<1>3. stream'[c] = "none"
  BY DEF stream, TypeOK
<1>4. stream' = [stream EXCEPT ![c] = "none"]
  BY <1>2, <1>3, StreamMoves
<1>5. stream[c] = "ended" \/ (c \in Streams!Open /\ gone[c])
  BY OpenStreams, StreamOf DEF StreamInv
<1> QED
  BY <1>1, <1>4, <1>5 DEF Streams!Forget, Streams!Becomes

\* One client's turn in a fan-out: the snapshot, or a broken stream.
LEMMA ServeMaps ==
  ASSUME NEW c \in Clients, TypeOK, MapInv, StreamInv, TypeOK', MapInv', Serve(c)
  PROVE  Streams!Deliver(c) \/ Streams!Withhold(c)
<1> USE DEF Serve
<1>1. UNCHANGED <<status, handler, clients, gone>>
  BY DEF status
<1>2. CASE HasRoom(c)
  <2>1. UNCHANGED missed
    BY <1>2
  <2>2. stream' = stream
    BY <1>1, <2>1 DEF stream
  <2> QED
    BY <1>1, <1>2, <2>2 DEF Streams!Deliver, HasRoom
<1>3. CASE ~ HasRoom(c)
  <2>1. buffered[c] = ChanSize /\ UNCHANGED buffered
    BY <1>3, Sizes DEF HasRoom, TypeOK
  <2>2. /\ missed'[c]
        /\ \A d \in Clients \ {c} : missed'[d] = missed[d]
    BY <1>3 DEF TypeOK
  <2>3. stream'[c] = "broken"
    BY <1>1, <2>2 DEF stream, MapInv
  <2>4. stream' = [stream EXCEPT ![c] = "broken"]
    BY <1>1, <2>2, <2>3, StreamMoves
  <2> QED
    BY <1>1, <2>1, <2>4 DEF Streams!Withhold, Streams!Becomes
<1> QED
  BY <1>2, <1>3

\* The other steps of the hub.
LEMMA HubMaps ==
  ASSUME TypeOK, MapInv, StreamInv, TypeOK', MapInv',
         TakeSnapshot \/ EndFanout \/ HubStops \/ \E c \in Clients : Register(c)
  PROVE  [Streams!Next]_(Streams!vars)
<1>1. CASE TakeSnapshot
  <2>1. Streams!Publish
    <3>1. stream' = stream /\ status' = status /\ status # "stopped"
      BY <1>1 DEF TakeSnapshot, clientVars, stream, status
    <3> QED
      BY <1>1, <3>1, OpenStreams
         DEF TakeSnapshot, clientVars, Streams!Publish, MapInv
  <2> QED
    BY <2>1 DEF Streams!Next
<1>2. CASE EndFanout
  <2>1. stream' = stream /\ status' = status
    BY <1>2 DEF EndFanout, clientVars, stream, status
  <2> QED
    BY <1>2, <2>1 DEF EndFanout, clientVars, Streams!vars
<1>3. CASE HubStops
  <2>1. status = "stopping" /\ status' = "stopped" /\ pending = {}
    BY <1>3 DEF HubStops, status, MapInv
  <2>2. \A c \in Clients :
           stream'[c] = IF c \in clients THEN "ended" ELSE stream[c]
    <3> SUFFICES ASSUME NEW c \in Clients
                 PROVE  stream'[c] = IF c \in clients THEN "ended" ELSE stream[c]
      OBVIOUS
    <3>1. handler' = handler /\ missed' = missed /\ clients' = {}
      BY <1>3 DEF HubStops
    <3>2. CASE c \in clients
      BY <3>1, <3>2 DEF stream, MapInv
    <3>3. CASE c \notin clients
      BY <3>1, <3>3 DEF stream
    <3> QED
      BY <3>2, <3>3
  <2>3. stream' = [c \in Clients |->
                      IF c \in Streams!Open THEN "ended" ELSE stream[c]]
    <3>1. stream' = [c \in Clients |-> stream'[c]]
      BY DEF stream
    <3> QED
      BY <2>2, <3>1, OpenStreams
  <2>4. Streams!EndAll
    BY <1>3, <2>1, <2>3 DEF HubStops, Streams!EndAll
  <2> QED
    BY <2>4 DEF Streams!Next
<1>4. ASSUME NEW c \in Clients, Register(c) PROVE Streams!Join(c)
  <2>1. stream[c] = "asked" /\ c \notin clients
    BY <1>4, StreamOf DEF Register
  <2>2. ~ missed[c]
    BY <1>4 DEF Register, MapInv
  <2>3. \A d \in Clients \ {c} : /\ handler'[d] = handler[d]
                                 /\ d \in clients' <=> d \in clients
    BY <1>4 DEF Register, TypeOK
  <2>4. stream'[c] = "live"
    BY <1>4, <2>2 DEF Register, stream, TypeOK
  <2>5. stream' = [stream EXCEPT ![c] = "live"]
    BY <1>4, <2>3, <2>4, StreamMoves DEF Register
  <2>6. UNCHANGED <<status, pending>> /\ pending = {} /\ status # "stopped"
    BY <1>4 DEF Register, HubWaits, status, MapInv
  <2> QED
    BY <1>4, <2>1, <2>5, <2>6 DEF Register, Streams!Join, Streams!Becomes
<1> QED
  BY <1>1, <1>2, <1>3, <1>4 DEF Streams!Next

\* A handler's own steps: a new stream, a read, or nothing that shows.
LEMMA ConnectMaps ==
  ASSUME NEW c \in Clients, TypeOK, MapInv, StreamInv, TypeOK', MapInv', Connect(c)
  PROVE  Streams!Connect(c)
<1> USE DEF Connect, HandlerOnly, hubVars
<1>1. stream[c] = "none" /\ c \notin clients
  BY StreamOf
<1>2. stream'[c] = "asked"
  BY DEF stream, TypeOK
<1>3. \A d \in Clients \ {c} : /\ handler'[d] = handler[d]
                               /\ missed'[d] = missed[d]
  BY DEF TypeOK
<1>4. stream' = [stream EXCEPT ![c] = "asked"]
  BY <1>2, <1>3, StreamMoves
<1>5. UNCHANGED status
  BY DEF status
<1> QED
  BY <1>1, <1>4, <1>5 DEF Streams!Connect, Streams!Becomes

LEMMA LoopMaps ==
  ASSUME NEW c \in Clients, TypeOK, MapInv, StreamInv, TypeOK', MapInv',
         NoticeGone(c) \/ Receive(c) \/ Write(c)
  PROVE  Streams!Read(c) \/ UNCHANGED Streams!vars
<1> USE DEF HandlerOnly, hubVars, Return
<1>1. UNCHANGED <<clients, missed, gone, status, pending>>
  BY DEF NoticeGone, Receive, Write, status
<1>2. /\ handler[c] \notin {"idle", "register"}
      /\ handler'[c] \notin {"idle", "register"}
      /\ \A d \in Clients \ {c} : handler'[d] = handler[d]
  BY DEF NoticeGone, Receive, Write, TypeOK
<1>3. stream' = stream
  <2>1. stream'[c] = stream[c]
    BY <1>1, <1>2 DEF stream
  <2>2. \A d \in Clients \ {c} : stream'[d] = stream[d]
    BY <1>1, <1>2 DEF stream
  <2> QED
    BY <2>1, <2>2, StreamStays
<1>4. CASE UNCHANGED buffered
  BY <1>1, <1>3, <1>4 DEF Streams!vars
<1>5. CASE buffered[c] > 0 /\ buffered' = [buffered EXCEPT ![c] = @ - 1]
  <2>1. stream[c] \in {"live", "broken", "ended"}
    BY <1>2, StreamOf DEF TypeOK
  <2> QED
    BY <1>1, <1>3, <1>5, <2>1 DEF Streams!Read
<1> QED
  BY <1>4, <1>5 DEF NoticeGone, Receive, Write

LEMMA OutsideMaps ==
  ASSUME TypeOK, MapInv, StreamInv, TypeOK', MapInv',
         Offer \/ Stop \/ \E c \in Clients : Disconnect(c)
  PROVE  [Streams!Next]_(Streams!vars)
<1>1. CASE Offer
  <2>1. stream' = stream /\ status' = status
    BY <1>1 DEF Offer, clientVars, stream, status
  <2> QED
    BY <1>1, <2>1 DEF Offer, clientVars, Streams!vars
<1>2. CASE Stop
  <2>1. stream' = stream /\ status = "running" /\ status' = "stopping"
    BY <1>2 DEF Stop, hubVars, clientVars, stream, status, StreamInv
  <2>2. Streams!Stop
    BY <1>2, <2>1 DEF Stop, hubVars, clientVars, Streams!Stop
  <2> QED
    BY <2>2 DEF Streams!Next
<1>3. ASSUME NEW c \in Clients, Disconnect(c) PROVE Streams!HangUp(c)
  <2>1. stream' = stream /\ status' = status
    BY <1>3 DEF Disconnect, HandlerOnly, hubVars, stream, status
  <2>2. stream[c] # "none"
    BY <1>3 DEF Disconnect, stream, TypeOK
  <2> QED
    BY <1>3, <2>1, <2>2 DEF Disconnect, HandlerOnly, hubVars, Streams!HangUp
<1> QED
  BY <1>1, <1>2, <1>3 DEF Streams!Next

LEMMA StepMaps ==
  TypeOK /\ MapInv /\ StreamInv /\ TypeOK' /\ MapInv' /\ [Next]_vars
    => [Streams!Next]_(Streams!vars)
<1> SUFFICES ASSUME TypeOK, MapInv, StreamInv, TypeOK', MapInv', [Next]_vars
             PROVE  [Streams!Next]_(Streams!vars)
  OBVIOUS
<1>1. ASSUME NEW c \in Clients, UnregisterByHandler(c)
      PROVE  [Streams!Next]_(Streams!vars)
  BY <1>1, HandlerMaps DEF Streams!Next
<1>2. ASSUME NEW c \in Clients, UnregisterByKick(c)
      PROVE  [Streams!Next]_(Streams!vars)
  BY <1>2, KickMaps DEF Streams!Next
<1>3. ASSUME NEW c \in Clients, Serve(c) PROVE [Streams!Next]_(Streams!vars)
  BY <1>3, ServeMaps DEF Streams!Next
<1>4. ASSUME NEW c \in Clients, Connect(c) PROVE [Streams!Next]_(Streams!vars)
  BY <1>4, ConnectMaps DEF Streams!Next
<1>5. ASSUME NEW c \in Clients, NoticeGone(c) \/ Receive(c) \/ Write(c)
      PROVE  [Streams!Next]_(Streams!vars)
  BY <1>5, LoopMaps DEF Streams!Next
<1>6. CASE UNCHANGED vars
  <2>1. stream' = stream /\ status' = status
    BY <1>6 DEF vars, hubVars, clientVars, stream, status
  <2> QED
    BY <1>6, <2>1 DEF vars, hubVars, clientVars, Streams!vars
<1> QED
  BY <1>1, <1>2, <1>3, <1>4, <1>5, <1>6, HubMaps, OutsideMaps
     DEF Next, Hub, Handler

LEMMA InitMaps == Init => Streams!Init /\ StreamInv
<1> SUFFICES ASSUME Init PROVE Streams!Init /\ StreamInv
  OBVIOUS
<1>1. status = "running" /\ stream = [c \in Clients |-> "none"]
  BY DEF Init, status, stream
<1>2. StreamInv
  BY DEF Init, StreamInv
<1> QED
  BY <1>1, <1>2 DEF Init, Streams!Init

\* Hub, handlers and kick goroutines (broadcaster.go:41-118) give each
\* dashboard the stream that EventStreams describes: all snapshots while it
\* keeps up, and an end for a stream from which one was withheld.
THEOREM BrokerKeepsStreams == Spec => ImplementsEventStreams
<1>1. Init => TypeOK /\ MapInv /\ StreamInv /\ Streams!Init
  BY InitType, InitMaps DEF Init, MapInv
<1>2. TypeOK /\ MapInv /\ StreamInv /\ [Next]_vars
        => /\ TypeOK' /\ MapInv' /\ StreamInv'
           /\ [Streams!Next]_(Streams!vars)
  BY NextType, MapNext, StreamNext, StepMaps
<1> QED
  BY <1>1, <1>2, PTL DEF Spec, ImplementsEventStreams, Streams!Spec
=============================================================================
