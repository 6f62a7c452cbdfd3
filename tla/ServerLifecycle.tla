--------------------------- MODULE ServerLifecycle --------------------------
(***************************************************************************)
(* The listeners of a proxy, from CreateAndAwaitHealthy to their end       *)
(* (server/server.go): an HTTPS and an HTTP listener, each served by a     *)
(* goroutine, which shut each other down.  Of net/http: a server that is   *)
(* shut down, at whatever time, serves no more; Shutdown starts a goroutine*)
(* for each registered function every time it is called, closes the        *)
(* listener, and waits for Serve to return and for requests to end.        *)
(***************************************************************************)
EXTENDS Integers, FiniteSets

CONSTANTS
    Attempts,  \* of a health check; 100 in the code
    MaxConns   \* bound on the requests that are served at a time

ASSUME LifecycleAssumption == Attempts \in Nat \ {0} /\ MaxConns \in Nat

Listener == {"tls", "http"}
Target == Listener \cup {"metrics", "reloader"}

VARIABLES
    configured,  \* the listeners that are configured
    certOk,      \* whether the certificate can be loaded
    metrics,     \* whether there is a port for metrics
    port,        \* who else is at a port: nobody, another proxy, or one that answers
                 \* /ping with an error, or accepts connections and stays silent
    main,        \* where CreateAndAwaitHealthy and its caller are
    attempt,     \* the health checks of the present listener that failed
    healthy,     \* CreateAndAwaitHealthy returned no error
    lis,         \* where the goroutine of a listener is
    onShutdown,  \* what is registered to be shut down with a listener
    pending,     \* the goroutines of Shutdown that have yet to run
    closed,      \* what has been shut down
    conns        \* the requests that are being served

config == <<configured, certOk, metrics, port>>
control == <<main, attempt, healthy>>
servers == <<lis, onShutdown, pending, closed, conns>>
vars == <<config, control, servers>>

(* Types: in particular no more attempts than there should be.             *)
TypeOK ==
    /\ configured \subseteq Listener /\ certOk \in BOOLEAN /\ metrics \in BOOLEAN
    /\ port \in [Listener -> {"free", "other", "proxy", "silent"}]
    /\ main \in {"tls", "http", "register", "await tls", "await http", "healthy",
                 "shutdown", "drain", "wait", "failed", "stopped"}
    /\ attempt \in 0 .. Attempts - 1
    /\ healthy \in BOOLEAN
    /\ lis \in [Listener -> {"none", "starting", "bound", "serving", "ended", "broken"}]
    /\ onShutdown \in [Listener -> SUBSET Target]
    /\ pending \subseteq Target /\ closed \subseteq Target
    /\ conns \in [Listener -> 0 .. MaxConns]

Init ==
    /\ configured \in SUBSET Listener /\ certOk \in BOOLEAN /\ metrics \in BOOLEAN
    /\ port \in [Listener -> {"free", "other", "proxy", "silent"}]
    /\ main = "tls" /\ attempt = 0 /\ healthy = FALSE
    /\ lis = [l \in Listener |-> "none"]
    /\ onShutdown = [l \in Listener |-> {}]
    /\ pending = {} /\ closed = {}
    /\ conns = [l \in Listener |-> 0]

(* The server that is returned, and that is shut down.                     *)
First == IF "tls" \in configured THEN "tls" ELSE "http"

Running(l) == lis[l] \in {"starting", "bound", "serving"}

----------------------------------------------------------------------------
(* CreateAndStart                                                          *)

(* The local function createAndStart, with what else ends with the server. *)
CreateListener(l, others) ==
    /\ lis' = [lis EXCEPT ![l] = "starting"]
    /\ onShutdown' = [onShutdown EXCEPT ![l] = others \cup IF metrics THEN {"metrics"} ELSE {}]
    /\ UNCHANGED <<pending, closed, conns>>

(* Not the code: the reloader is not closed with the listener.             *)
CreateTLSKeepReloader ==
    /\ main = "tls"
    /\ \/ "tls" \notin configured /\ main' = "http" /\ UNCHANGED servers
       \/ "tls" \in configured /\ ~ certOk /\ main' = "failed" /\ UNCHANGED servers
       \/ "tls" \in configured /\ certOk /\ main' = "http" /\ CreateListener("tls", {})
    /\ UNCHANGED <<config, attempt, healthy>>

CreateTLS ==
    /\ main = "tls"
    /\ \/ "tls" \notin configured /\ main' = "http" /\ UNCHANGED servers
       \/ "tls" \in configured /\ ~ certOk /\ main' = "failed" /\ UNCHANGED servers
       \/ "tls" \in configured /\ certOk /\ main' = "http" /\ CreateListener("tls", {"reloader"})
    /\ UNCHANGED <<config, attempt, healthy>>

(* Not the code: an HTTP listener is started also if there is no port.     *)
CreateHTTPAlways ==
    /\ main = "http" /\ main' = "register"
    /\ CreateListener("http", {})
    /\ UNCHANGED <<config, attempt, healthy>>

CreateHTTP ==
    /\ main = "http" /\ main' = "register"
    /\ \/ "http" \notin configured /\ UNCHANGED servers
       \/ "http" \in configured /\ CreateListener("http", {})
    /\ UNCHANGED <<config, attempt, healthy>>

(* Not the code: only the HTTP listener takes the other with it.           *)
RegisterOneWay ==
    /\ main = "register"
    /\ onShutdown' = IF configured = Listener
                     THEN [onShutdown EXCEPT !["http"] = @ \cup {"tls"}] ELSE onShutdown
    /\ main' = IF configured = {} THEN "failed" ELSE "await tls"
    /\ UNCHANGED <<config, attempt, healthy, lis, pending, closed, conns>>

(* Two listeners shut each other down; none is an error.                   *)
Register ==
    /\ main = "register"
    /\ onShutdown' = IF configured = Listener
                     THEN [l \in Listener |-> onShutdown[l] \cup (Listener \ {l})] ELSE onShutdown
    /\ main' = IF configured = {} THEN "failed" ELSE "await tls"
    /\ UNCHANGED <<config, attempt, healthy, lis, pending, closed, conns>>

----------------------------------------------------------------------------
(* CreateAndAwaitHealthy                                                   *)

(* Not the code: the status of the answer is not looked at.                *)
AnswersAnything(l) == lis[l] = "serving" \/ port[l] # "free"

(* Whoever is at the port answers the health check, a listener that is     *)
(* bound but not served yet later, and one who stays silent never: the     *)
(* client has no timeout.                                                  *)
Answers(l) == lis[l] = "serving" \/ port[l] = "proxy"
Refuses(l) == ~ Answers(l) /\ lis[l] # "bound" /\ port[l] # "silent"

(* Not the code: one attempt more.                                         *)
AwaitOneMore(l, next) ==
    /\ \/ /\ l \notin configured \/ Answers(l)
          /\ main' = next /\ attempt' = 0
       \/ /\ l \in configured /\ Refuses(l) /\ attempt < Attempts
          /\ attempt' = attempt + 1 /\ UNCHANGED main
       \/ /\ l \in configured /\ Refuses(l) /\ attempt = Attempts
          /\ main' = "shutdown" /\ attempt' = 0
    /\ healthy' = (main' = "healthy")
    /\ UNCHANGED <<config, servers>>

(* awaitServerOnPort: the attempts follow each other without a pause.      *)
Await(l, next) ==
    /\ \/ /\ l \notin configured \/ Answers(l)
          /\ main' = next /\ attempt' = 0
       \/ /\ l \in configured /\ Refuses(l) /\ attempt < Attempts - 1
          /\ attempt' = attempt + 1 /\ UNCHANGED main
       \/ /\ l \in configured /\ Refuses(l) /\ attempt = Attempts - 1
          /\ main' = "shutdown" /\ attempt' = 0
    /\ healthy' = (main' = "healthy")
    /\ UNCHANGED <<config, servers>>

AwaitTLS == main = "await tls" /\ Await("tls", "await http")
AwaitHTTP == main = "await http" /\ Await("http", "healthy")

(* Those who started the servers, like the tests, may shut them down, or   *)
(* only wait for serverDone (CreateAndStartSync).                          *)
Stop ==
    /\ main = "healthy"
    /\ \/ main' = "shutdown"
       \/ main' = "stopped" /\ \A l \in Listener : ~ Running(l)
    /\ UNCHANGED <<config, attempt, healthy, servers>>

(* Shutdown of the first server ...                                        *)
Shutdown ==
    /\ main = "shutdown" /\ main' = "drain"
    /\ closed' = closed \cup {First}
    /\ pending' = pending \cup onShutdown[First]
    /\ UNCHANGED <<config, attempt, healthy, lis, onShutdown, conns>>

(* Not the code: serverDone is not waited for.                             *)
DrainAndReturn ==
    /\ main = "drain" /\ lis[First] # "serving" /\ conns[First] = 0
    /\ main' = IF healthy THEN "stopped" ELSE "failed"
    /\ UNCHANGED <<config, attempt, healthy, servers>>

(* ... returns when it does nothing any more.  Then serverDone is awaited. *)
Drain ==
    /\ main = "drain" /\ lis[First] # "serving" /\ conns[First] = 0
    /\ main' = "wait"
    /\ UNCHANGED <<config, attempt, healthy, servers>>

Wait ==
    /\ main = "wait" /\ \A l \in Listener : ~ Running(l)
    /\ main' = IF healthy THEN "stopped" ELSE "failed"
    /\ UNCHANGED <<config, attempt, healthy, servers>>

----------------------------------------------------------------------------
(* The goroutines                                                          *)

(* The goroutine of a listener: ListenAndServe binds the port, unless the  *)
(* server was shut down already; that it cannot is only logged.            *)
Listen(l) ==
    /\ lis[l] = "starting"
    /\ lis' = [lis EXCEPT ![l] = IF l \notin closed /\ port[l] = "free" THEN "bound" ELSE "ended"]
    /\ UNCHANGED <<config, control, onShutdown, pending, closed, conns>>

Serve(l) ==
    /\ lis[l] = "bound"
    /\ lis' = [lis EXCEPT ![l] = IF l \in closed THEN "ended" ELSE "serving"]
    /\ UNCHANGED <<config, control, onShutdown, pending, closed, conns>>

EndServe(l) ==
    /\ lis[l] = "serving" /\ l \in closed
    /\ lis' = [lis EXCEPT ![l] = "ended"]
    /\ UNCHANGED <<config, control, onShutdown, pending, closed, conns>>

ServeListener(l) == Listen(l) \/ Serve(l) \/ EndServe(l)

(* Serve may also end with an error of the listener, which is only logged; *)
(* nothing else ends with it.                                              *)
BreakServe(l) ==
    /\ lis[l] = "serving"
    /\ lis' = [lis EXCEPT ![l] = "broken"]
    /\ UNCHANGED <<config, control, onShutdown, pending, closed, conns>>

(* A function that was registered: it shuts down t, and with it what is    *)
(* registered there, also if that has been shut down before.               *)
Callback(t) ==
    /\ t \in pending
    /\ closed' = closed \cup {t}
    /\ pending' = (pending \ {t}) \cup (IF t \in Listener THEN onShutdown[t] ELSE {})
    /\ UNCHANGED <<config, control, lis, onShutdown, conns>>

(* Requests come and go; a request may take for ever.                      *)
Client(l) ==
    /\ \/ lis[l] = "serving" /\ conns[l] < MaxConns /\ conns' = [conns EXCEPT ![l] = @ + 1]
       \/ conns[l] > 0 /\ conns' = [conns EXCEPT ![l] = @ - 1]
    /\ UNCHANGED <<config, control, lis, onShutdown, pending, closed>>

Main ==
    \/ CreateTLS \/ CreateHTTP \/ Register
    \/ AwaitTLS \/ AwaitHTTP
    \/ Shutdown \/ Drain \/ Wait

Next ==
    \/ Main \/ Stop
    \/ \E l \in Listener : ServeListener(l) \/ BreakServe(l) \/ Client(l)
    \/ \E t \in Target : Callback(t)

Spec == Init /\ [][Next]_vars

(* Goroutines run on; requests need not end, nor listeners break.          *)
FairSpec ==
    /\ Spec /\ WF_vars(Main)
    /\ \A l \in Listener : WF_vars(ServeListener(l))
    /\ \A t \in Target : WF_vars(Callback(t))

----------------------------------------------------------------------------
(* Properties                                                              *)

(* The port answered: it was served, or there is another proxy.            *)
HasAnswered(l) == lis[l] \in {"serving", "broken"} \/ port[l] = "proxy"

(* CreateAndAwaitHealthy only returns without an error once each listener  *)
(* was served ("await until health check is ok"), even if one broke since, *)
(* except that it takes another proxy at the port of a listener that could *)
(* not bind for it.                                                        *)
HealthyMeansServed ==
    [][main # "healthy" /\ main' = "healthy" => \A l \in configured : HasAnswered(l)]_vars

(* If it returns an error, or the servers were stopped, none of them is    *)
(* left behind in the background.                                          *)
NoListenerLeft == main \in {"failed", "stopped"} => \A l \in Listener : ~ Running(l)

(* Until all listeners were found served nothing is shut down, so that the *)
(* first one is still served when the second one is, unless it broke.      *)
StaysServed ==
    /\ main \notin {"shutdown", "drain", "wait", "failed", "stopped"} => closed = {} /\ pending = {}
    /\ main \in {"await http", "healthy"} /\ "tls" \in configured => HasAnswered("tls")

(* A goroutine is only started for a listener that is configured, once main*)
(* has come to it.                                                         *)
StartedInTurn ==
    /\ \A l \in Listener : lis[l] # "none" => l \in configured
    /\ main = "tls" => lis["tls"] = "none"
    /\ main \in {"tls", "http"} => lis["http"] = "none"

IInv == TypeOK /\ StaysServed /\ StartedInTurn /\ NoListenerLeft

(* The check has got a connection to one who never answers.                *)
AwaitsSilence(l) ==
    port[l] = "silent" /\ main = IF l = "tls" THEN "await tls" ELSE "await http"

(* It returns in the end, whichever ports are taken and whenever goroutines*)
(* start or listeners break, unless a request it has to wait for does not  *)
(* end or someone at a port leaves the check without an answer.            *)
StartEnds ==
    main = "tls" ~> \/ main \in {"healthy", "failed"}
                    \/ conns[First] > 0
                    \/ \E l \in configured : AwaitsSilence(l)

(* Shutting down one server ends them all, also the other listener, the    *)
(* metrics and the reloader of the certificate, whatever requests are      *)
(* being served.                                                           *)
StopsTogether ==
    main = "drain" ~>
        /\ \A l \in Listener : ~ Running(l)
        /\ configured \subseteq closed
        /\ metrics => "metrics" \in closed
        /\ "tls" \in configured => "reloader" \in closed
============================================================================
