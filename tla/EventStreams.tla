---------------------------- MODULE EventStreams ----------------------------
(***************************************************************************)
(* What the server-sent-events broker promises to the dashboards, without  *)
(* its hub, its handlers and the goroutines that kick: a stream gets every *)
(* snapshot published while it is live, one after the other, as long as    *)
(* its dashboard keeps up.  A stream from which a snapshot was withheld is *)
(* broken and never live again; no stream ends unless it is broken, its    *)
(* dashboard hung up, or the broker was told to stop.  Module SSEBroker    *)
(* implements it.                                                          *)
(***************************************************************************)
EXTENDS Integers

CONSTANTS
    Clients,        \* dashboards that may be connected at the same time
    Capacity        \* snapshots a stream holds that were not read yet

VARIABLES
    status,         \* "running", "stopping" or "stopped"
    stream,         \* client -> "none", "asked", "live", "broken" or "ended"
    backlog,        \* client -> snapshots of its stream not read yet
    hungUp,         \* client -> its dashboard closed the connection
    due             \* clients that have not got the latest snapshot yet

vars == <<status, stream, backlog, hungUp, due>>

Init ==
    /\ status = "running"
    /\ stream = [c \in Clients |-> "none"]
    /\ backlog = [c \in Clients |-> 0]
    /\ hungUp = [c \in Clients |-> FALSE]
    /\ due = {}

\* Streams that take part in the next snapshot.
Open == {c \in Clients : stream[c] \in {"live", "broken"}}

Becomes(c, state) == stream' = [stream EXCEPT ![c] = state]

\* A dashboard connects, and its stream is empty.
Connect(c) ==
    /\ stream[c] = "none"
    /\ Becomes(c, "asked")
    /\ backlog' = [backlog EXCEPT ![c] = 0]
    /\ hungUp' = [hungUp EXCEPT ![c] = FALSE]
    /\ UNCHANGED <<status, due>>

\* From here on the stream gets every snapshot.
Join(c) ==
    /\ stream[c] = "asked" /\ due = {} /\ status # "stopped"
    /\ Becomes(c, "live")
    /\ UNCHANGED <<status, backlog, hungUp, due>>

\* A snapshot for every open stream, once all have been served the one before.
Publish ==
    /\ due = {} /\ status # "stopped"
    /\ due' = Open
    /\ UNCHANGED <<status, stream, backlog, hungUp>>

Deliver(c) ==
    /\ c \in due /\ backlog[c] < Capacity
    /\ backlog' = [backlog EXCEPT ![c] = @ + 1]
    /\ due' = due \ {c}
    /\ UNCHANGED <<status, stream, hungUp>>

\* Nothing is withheld from a dashboard that keeps up.
Withhold(c) ==
    /\ c \in due /\ backlog[c] = Capacity
    /\ Becomes(c, "broken")
    /\ due' = due \ {c}
    /\ UNCHANGED <<status, backlog, hungUp>>

\* What was delivered before the stream ended can still be read.
Read(c) ==
    /\ stream[c] \in {"live", "broken", "ended"} /\ backlog[c] > 0
    /\ backlog' = [backlog EXCEPT ![c] = @ - 1]
    /\ UNCHANGED <<status, stream, hungUp, due>>

Kick(c) ==
    /\ stream[c] = "broken" /\ due = {}
    /\ Becomes(c, "ended")
    /\ UNCHANGED <<status, backlog, hungUp, due>>

HangUp(c) ==
    /\ stream[c] # "none" /\ ~ hungUp[c]
    /\ hungUp' = [hungUp EXCEPT ![c] = TRUE]
    /\ UNCHANGED <<status, stream, backlog, due>>

\* The stream of a dashboard that hung up, or a stream that has ended, is
\* forgotten.
Forget(c) ==
    /\ due = {}
    /\ stream[c] = "ended" \/ (c \in Open /\ hungUp[c])
    /\ Becomes(c, "none")
    /\ UNCHANGED <<status, backlog, hungUp, due>>

Stop ==
    /\ status = "running"
    /\ status' = "stopping"
    /\ UNCHANGED <<stream, backlog, hungUp, due>>

\* The broker stops and ends all the streams.
EndAll ==
    /\ status = "stopping" /\ due = {}
    /\ status' = "stopped"
    /\ stream' = [c \in Clients |-> IF c \in Open THEN "ended" ELSE stream[c]]
    /\ UNCHANGED <<backlog, hungUp, due>>

Next ==
    \/ \E c \in Clients :
          \/ Connect(c) \/ Join(c) \/ Deliver(c) \/ Withhold(c) \/ Read(c)
          \/ Kick(c) \/ HangUp(c) \/ Forget(c)
    \/ Publish \/ Stop \/ EndAll

Spec == Init /\ [][Next]_vars
=============================================================================
