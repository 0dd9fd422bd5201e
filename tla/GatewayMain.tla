---------------------------- MODULE GatewayMain -----------------------------
(***************************************************************************)
(* The life of the process around the requests of Gateway: main of         *)
(* cmd/gateway/main.go from the start of its two servers to its end.  On   *)
(* SIGINT or SIGTERM it shuts the API server down, which waits for the     *)
(* calls in flight - the event streams of the dashboards among them - for  *)
(* ten seconds at most, then closes the proxy under whatever it serves     *)
(* (internal/proxy/proxy.go), and only then, in its deferred calls, stops  *)
(* the broker, whose handlers the streams are.                             *)
(***************************************************************************)
EXTENDS Gateway

VARIABLES
    main,           \* where the goroutine main is
    call            \* a request to the API server is in flight: a call, or
                    \* a dashboard's event stream, which has no end of its own

mainVars == <<main, call>>
allVars  == <<vars, mainVars>>

MainInit ==
    /\ Init
    /\ main = "starting"
    /\ call = FALSE

-----------------------------------------------------------------------------
(* The two servers. *)

\* The proxy accepts requests until it is closed, the API server until it is
\* shut down.
ProxyListens == main \in {"starting", "serving", "draining"}
APIListens   == main \in {"starting", "serving"}

Requesting ==
    /\ main # "exited"
    /\ \/ \E q \in Requests : Arrive(q) /\ ProxyListens
       \/ \E q \in Requests : CORS(q) \/ Enforce(q) \/ ServeHTTP(q) \/ Answer(q)
    /\ UNCHANGED mainVars

\* A call to the control API, or a dashboard that opens its event stream.
CallAPI ==
    /\ APIListens /\ ~ call
    /\ call' = TRUE
    /\ UNCHANGED <<vars, main>>

\* The call is answered, or the dashboard has gone away.
AnswerAPI ==
    /\ main # "exited" /\ call
    /\ call' = FALSE
    /\ UNCHANGED <<vars, main>>

-----------------------------------------------------------------------------
(* main. *)

\* The process has ended, and with it whatever was under way.
Exit ==
    /\ main' = "exited"
    /\ request' = [q \in Requests |-> Idle]
    /\ UNCHANGED <<configVars, reloadVars, enforced, call>>

\* signal.Notify has not been called yet and the signal has its usual effect,
\* or the proxy cannot listen and log.Fatalf ends the process.
EndEarly == main = "starting" /\ Exit

\* A SIGHUP before the router's goroutine has asked for it.
EarlySIGHUP == main # "exited" /\ watcher.pc = "start" /\ Exit

Notify ==
    /\ main = "starting"
    /\ main' = "serving"
    /\ UNCHANGED <<vars, call>>

\* SIGINT or SIGTERM: Shutdown closes the listener of the API server.
Interrupt ==
    /\ main = "serving"
    /\ main' = "draining"
    /\ UNCHANGED <<vars, call>>

\* Shutdown returns once every connection of the API server is idle ...
Drained == ~ call

\* Faulty variant: a context without a timeout.
Expires_Never == FALSE

\* ... or its context has expired, which it may at any moment.
Expires == TRUE

Shutdown ==
    /\ main = "draining"
    /\ Drained \/ Expires
    /\ main' = "closing"
    /\ UNCHANGED <<vars, call>>

\* gateway.Stop closes the connections of the requests in flight.
StopGateway ==
    /\ main = "closing"
    /\ main' = "deferred"
    /\ request' = [q \in Requests |-> Idle]
    /\ UNCHANGED <<configVars, reloadVars, enforced, call>>

\* The deferred calls tell the broker, the aggregator and the collector to
\* stop and wait for none of them; then main returns.
Return == main = "deferred" /\ Exit

Main == Notify \/ Shutdown \/ StopGateway \/ Return

MainNext ==
    \/ Requesting
    \/ CallAPI \/ AnswerAPI
    \/ (Edit \/ SIGHUP \/ watchSIGHUP) /\ main # "exited" /\ UNCHANGED mainVars
    \/ EndEarly \/ EarlySIGHUP \/ Interrupt \/ Main

\* The watcher's goroutine and main are scheduled, and ten seconds pass.
MainSpec ==
    /\ MainInit /\ [][MainNext]_allVars
    /\ WF_allVars(watchSIGHUP /\ main # "exited" /\ UNCHANGED mainVars)
    /\ WF_allVars(Main)

-----------------------------------------------------------------------------
(* Properties. *)

\* "Hot-reload of routes via SIGHUP" (README.md:66): if a SIGHUP follows the
\* last edit, the table comes to be that of the file, although the channel
\* holds one signal and others are dropped while the watcher reads the file -
\* unless the process ends.
ReloadTakesEffect ==
    <>[](notified /\ file.loads /\ file.builds)
        => <>[](ToSet(routes) = file.routes \/ main = "exited")

\* A shutdown comes to an end (main.go:138-150) although main waits for event
\* streams that only end with the broker, which it stops afterwards.
ShutdownTerminates == main = "draining" ~> main = "exited"
=============================================================================
