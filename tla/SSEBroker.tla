----------------------------- MODULE SSEBroker ------------------------------
(***************************************************************************)
(* The server-sent-events broker of internal/metrics/broadcaster.go: a hub *)
(* goroutine that owns the set of client channels, one HTTP handler for    *)
(* each connected dashboard, and the goroutines the hub starts to kick a   *)
(* client whose channel is full.  register and unregister are unbuffered:  *)
(* a sender waits until the hub's select takes it.  input is filled by the *)
(* ticker of cmd/gateway/main.go without ever waiting.                     *)
(*                                                                         *)
(* Snapshots are not told apart: a channel is the number of snapshots in   *)
(* it, and a history says whether one was withheld from a client.  A       *)
(* client that ended may connect again, with a channel of its own, once    *)
(* nobody holds its former one.                                            *)
(***************************************************************************)
EXTENDS Integers, FiniteSets

CONSTANTS
    Clients,        \* dashboards that may be connected at the same time
    ChanSize,       \* capacity of a client's channel (16 in the code)
    InputSize,      \* capacity of the input channel (64 in the code)
    MaxKicks        \* bound on the kick goroutines waiting for one client

ASSUME SizesAssumption == {ChanSize, InputSize, MaxKicks} \subseteq Nat \ {0}

VARIABLES
    hub,            \* "select", "fanout" or "stopped"
    pending,        \* clients the fan-out under way has still to serve
    clients,        \* the map of registered channels
    input,          \* snapshots in the input channel
    done,           \* the done channel is closed
    handler,        \* client -> where its ServeHTTP is
    buffered,       \* client -> snapshots in its channel
    closed,         \* client -> its channel is closed
    gone,           \* client -> its request context is done
    kicks,          \* client -> goroutines that wait to unregister it
    missed,         \* history: client -> a snapshot was withheld from it
    panicked        \* history: a closed channel was closed or sent to

hubVars    == <<hub, pending, clients, input>>
clientVars == <<handler, buffered, closed, gone, kicks, missed>>
vars       == <<hubVars, clientVars, done, panicked>>

Init ==
    /\ hub = "select"
    /\ pending = {}
    /\ clients = {}
    /\ input = 0
    /\ done = FALSE
    /\ handler = [c \in Clients |-> "idle"]
    /\ buffered = [c \in Clients |-> 0]
    /\ closed = [c \in Clients |-> FALSE]
    /\ gone = [c \in Clients |-> FALSE]
    /\ kicks = [c \in Clients |-> 0]
    /\ missed = [c \in Clients |-> FALSE]
    /\ panicked = FALSE

-----------------------------------------------------------------------------
(* The hub. *)

HubWaits == hub = "select" /\ UNCHANGED <<hub, pending>>

\* case client := <-b.register
Register(c) ==
    /\ HubWaits
    /\ handler[c] = "register"
    /\ handler' = [handler EXCEPT ![c] = "loop"]
    /\ clients' = clients \cup {c}
    /\ UNCHANGED <<input, done, buffered, closed, gone, kicks, missed, panicked>>

\* Faulty variant: the channel is closed without a look at the map.
Registered_Unchecked(c) == TRUE

\* A client's channel is closed only while it is in the map.
Registered(c) == c \in clients

Close(c) ==
    /\ closed' = [closed EXCEPT ![c] = @ \/ Registered(c)]
    /\ panicked' = (panicked \/ (Registered(c) /\ closed[c]))
    /\ clients' = clients \ {c}

\* case client := <-b.unregister, sent by the handler as it returns ...
UnregisterByHandler(c) ==
    /\ HubWaits
    /\ handler[c] = "unregister"
    /\ Close(c)
    /\ handler' = [handler EXCEPT ![c] = "idle"]
    /\ UNCHANGED <<input, done, buffered, gone, kicks, missed>>

\* ... or by a goroutine that kicks a slow client.
UnregisterByKick(c) ==
    /\ HubWaits
    /\ kicks[c] > 0
    /\ Close(c)
    /\ kicks' = [kicks EXCEPT ![c] = @ - 1]
    /\ UNCHANGED <<input, done, handler, buffered, gone, missed>>

\* case snap := <-b.input
TakeSnapshot ==
    /\ hub = "select"
    /\ input > 0
    /\ input' = input - 1
    /\ hub' = "fanout"
    /\ pending' = clients
    /\ UNCHANGED <<clients, done, clientVars, panicked>>

\* Faulty variant: a client is kicked while its channel has room for one.
HasRoom_OneLess(c) == buffered[c] < ChanSize - 1

\* Faulty variant: one snapshot more than the channel holds.
HasRoom_OneMore(c) == buffered[c] <= ChanSize

HasRoom(c) == buffered[c] < ChanSize

\* Faulty variant: a snapshot is skipped and the client kept.
StartKick_Never(n) == n

\* go func: one more goroutine that waits to unregister the client.
StartKick(n) == IF n < MaxKicks THEN n + 1 ELSE n

\* One client of the fan-out: a send that does not wait, or else a new
\* goroutine to kick the client.
Serve(c) ==
    /\ hub = "fanout"
    /\ c \in pending
    /\ pending' = pending \ {c}
    /\ \/ /\ HasRoom(c)
          /\ buffered' = [buffered EXCEPT ![c] = @ + 1]
          /\ panicked' = (panicked \/ closed[c])
          /\ UNCHANGED <<kicks, missed>>
       \/ /\ ~ HasRoom(c)
          /\ kicks' = [kicks EXCEPT ![c] = StartKick(@)]
          /\ missed' = [missed EXCEPT ![c] = TRUE]
          /\ UNCHANGED <<buffered, panicked>>
    /\ UNCHANGED <<hub, clients, input, done, handler, closed, gone>>

EndFanout ==
    /\ hub = "fanout"
    /\ pending = {}
    /\ hub' = "select"
    /\ UNCHANGED <<pending, clients, input, clientVars, done, panicked>>

\* Faulty variant: Stop leaves the channels open.
ClosedByStop_None == closed

ClosedByStop == [c \in Clients |-> closed[c] \/ c \in clients]

\* case <-b.done: every channel left is closed and the goroutine ends.
HubStops ==
    /\ hub = "select"
    /\ done
    /\ hub' = "stopped"
    /\ closed' = ClosedByStop
    /\ panicked' = (panicked \/ \E c \in clients : closed[c])
    /\ clients' = {}
    /\ UNCHANGED <<pending, input, done, handler, buffered, gone, kicks, missed>>

Stop ==
    /\ ~ done
    /\ done' = TRUE
    /\ UNCHANGED <<hubVars, clientVars, panicked>>

\* main's ticker offers a snapshot; a full channel means it is skipped.
Offer ==
    /\ input < InputSize
    /\ input' = input + 1
    /\ UNCHANGED <<hub, pending, clients, clientVars, done, panicked>>

-----------------------------------------------------------------------------
(* ServeHTTP. *)

HandlerOnly == UNCHANGED <<hubVars, done, kicks, panicked>>

\* A new request: a new channel, and a wait for the hub to register it.
Connect(c) ==
    /\ handler[c] = "idle"
    /\ kicks[c] = 0
    /\ handler' = [handler EXCEPT ![c] = "register"]
    /\ buffered' = [buffered EXCEPT ![c] = 0]
    /\ closed' = [closed EXCEPT ![c] = FALSE]
    /\ gone' = [gone EXCEPT ![c] = FALSE]
    /\ missed' = [missed EXCEPT ![c] = FALSE]
    /\ HandlerOnly

\* The dashboard closes the connection.
Disconnect(c) ==
    /\ handler[c] # "idle"
    /\ ~ gone[c]
    /\ gone' = [gone EXCEPT ![c] = TRUE]
    /\ UNCHANGED <<handler, buffered, closed, missed>>
    /\ HandlerOnly

\* Faulty variant: the handler returns without unregistering.
Return_AtOnce == "idle"

\* The deferred send on unregister runs however the handler returns.
Return == "unregister"

\* case <-ctx.Done(): return, which runs the deferred unregister.
NoticeGone(c) ==
    /\ handler[c] = "loop"
    /\ gone[c]
    /\ handler' = [handler EXCEPT ![c] = Return]
    /\ UNCHANGED <<buffered, closed, gone, missed>>
    /\ HandlerOnly

\* case data, ok := <-client: what is buffered comes before the close.
Receive(c) ==
    /\ handler[c] = "loop"
    /\ \/ /\ buffered[c] > 0
          /\ buffered' = [buffered EXCEPT ![c] = @ - 1]
          /\ handler' = [handler EXCEPT ![c] = "write"]
       \/ /\ buffered[c] = 0
          /\ closed[c]
          /\ handler' = [handler EXCEPT ![c] = Return]
          /\ UNCHANGED buffered
    /\ UNCHANGED <<closed, gone, missed>>
    /\ HandlerOnly

\* Fprintf and Flush return when the network takes the data or fails.
Write(c) ==
    /\ handler[c] = "write"
    /\ handler' = [handler EXCEPT ![c] = "loop"]
    /\ UNCHANGED <<buffered, closed, gone, missed>>
    /\ HandlerOnly

Hub ==
    \/ \E c \in Clients : \/ Register(c) \/ UnregisterByHandler(c)
                          \/ UnregisterByKick(c) \/ Serve(c)
    \/ TakeSnapshot \/ EndFanout \/ HubStops

Handler(c) == Connect(c) \/ NoticeGone(c) \/ Receive(c) \/ Write(c)

Next ==
    \/ Hub
    \/ \E c \in Clients : Handler(c) \/ Disconnect(c)
    \/ Offer \/ Stop

\* The hub runs.  A sender blocked on register or unregister is served in
\* turn and a ready case of a select is chosen at random, so neither is
\* passed over for ever.  A write may stall, but not once the peer is gone.
Fairness ==
    /\ WF_vars(Hub)
    /\ \A c \in Clients :
          /\ SF_vars(UnregisterByHandler(c))
          /\ SF_vars(UnregisterByKick(c))
          /\ SF_vars(NoticeGone(c))
          /\ WF_vars(Receive(c))
          /\ WF_vars(gone[c] /\ Write(c))

Spec == Init /\ [][Next]_vars /\ Fairness

-----------------------------------------------------------------------------
(* Properties. *)

\* The shape of the state.
TypeOK ==
    /\ hub \in {"select", "fanout", "stopped"}
    /\ clients \in SUBSET Clients
    /\ pending \in SUBSET Clients
    /\ input \in 0..InputSize
    /\ done \in BOOLEAN
    /\ panicked \in BOOLEAN
    /\ handler \in [Clients -> {"idle", "register", "loop", "write", "unregister"}]
    /\ buffered \in [Clients -> 0..ChanSize]
    /\ kicks \in [Clients -> 0..MaxKicks]
    /\ closed \in [Clients -> BOOLEAN]
    /\ gone \in [Clients -> BOOLEAN]
    /\ missed \in [Clients -> BOOLEAN]

\* No channel is closed twice or sent to once closed (lines 45-49, 58-63,
\* 72-74), although a handler and any number of kicks may ask for the same
\* client to be unregistered, in any order, and the broker may stop.
NoPanic == ~ panicked

\* A stream never silently loses a snapshot and goes on: a client from which
\* one was withheld (line 75) and that is still registered has a kick under
\* way, which ends its stream.
GapMeansKick ==
    \A c \in Clients : missed[c] /\ c \in clients => kicks[c] > 0

\* A client's stream as its dashboard may see it.
stream == [c \in Clients |->
    CASE handler[c] = "idle"     -> "none"
      [] handler[c] = "register" -> "asked"
      [] OTHER -> IF c \notin clients THEN "ended"
                  ELSE IF missed[c] THEN "broken" ELSE "live"]

status == IF hub = "stopped" THEN "stopped"
          ELSE IF done THEN "stopping" ELSE "running"

Streams == INSTANCE EventStreams WITH
                Capacity <- ChanSize, backlog <- buffered, hungUp <- gone,
                due <- pending

\* Hub, handlers and kicks together serve every registered client each
\* snapshot in turn (lines 66-81), withhold one only from a full channel and
\* then end that stream, and end no other unless its dashboard hung up or the
\* broker stops, whatever order the goroutines run in.
ImplementsEventStreams == Streams!Spec

\* A dashboard that closed its connection is taken out of the map for good,
\* so that a later fan-out does not go on filling its channel.
GoneIsForgotten == \A c \in Clients : gone[c] ~> (c \notin clients \/ ~ gone[c])

\* A client that is too slow is taken out in the end.
SlowIsKicked == \A c \in Clients : missed[c] ~> (c \notin clients)

\* Stop ends every stream: once the broker has stopped no handler stays in
\* its loop, waiting for snapshots that will not come.
StopEndsStreams == \A c \in Clients : hub = "stopped" ~> handler[c] # "loop"
=============================================================================
