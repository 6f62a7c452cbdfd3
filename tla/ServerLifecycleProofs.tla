----------------------- MODULE ServerLifecycleProofs ------------------------
(***************************************************************************)
(* Safety of starting and stopping the listeners, for any number of        *)
(* attempts and of requests.                                               *)
(***************************************************************************)
EXTENDS ServerLifecycle, TLAPS

LEMMA Bounds == Attempts \in Nat /\ Attempts >= 1 /\ MaxConns \in Nat
<1>1. Attempts \in Nat /\ Attempts # 0 /\ MaxConns \in Nat  BY LifecycleAssumption
<1> QED  BY <1>1

LEMMA InitIInv == Init => IInv
<1> SUFFICES ASSUME Init PROVE IInv  OBVIOUS
<1> USE DEF Init
<1>1. TypeOK
    <2>1. 0 \in 0 .. Attempts - 1 /\ 0 \in 0 .. MaxConns  BY Bounds
    <2> QED  BY <2>1 DEF TypeOK
<1>2. StaysServed /\ StartedInTurn /\ NoListenerLeft
    BY DEF Listener, StaysServed, StartedInTurn, NoListenerLeft, Running
<1> QED  BY <1>1, <1>2 DEF IInv

(* The steps that create the listeners: none is running when they fail.    *)
LEMMA CreateKeeps ==
    ASSUME IInv, CreateTLS \/ CreateHTTP \/ Register
    PROVE  IInv'
<1> USE DEF config, servers
<1>1. TypeOK'
    <2>1. ASSUME NEW l \in Listener, NEW others \in SUBSET Target, CreateListener(l, others)
          PROVE  /\ lis' \in [Listener -> {"none", "starting", "bound", "serving", "ended", "broken"}]
                 /\ onShutdown' \in [Listener -> SUBSET Target]
                 /\ UNCHANGED <<pending, closed, conns>>
        <3>1. "metrics" \in Target  BY DEF Target
        <3> QED  BY <2>1, <3>1 DEF IInv, TypeOK, CreateListener
    <2>2. "tls" \in Listener /\ "http" \in Listener /\ {} \in SUBSET Target
             /\ {"reloader"} \in SUBSET Target
        BY DEF Listener, Target
    <2>3. /\ lis' \in [Listener -> {"none", "starting", "bound", "serving", "ended", "broken"}]
          /\ onShutdown' \in [Listener -> SUBSET Target]
          /\ UNCHANGED <<pending, closed, conns>>
        <3>1. CASE CreateTLS  BY <2>1, <2>2, <3>1 DEF CreateTLS, IInv, TypeOK
        <3>2. CASE CreateHTTP  BY <2>1, <2>2, <3>2 DEF CreateHTTP, IInv, TypeOK
        <3>3. CASE Register  BY <3>3 DEF Register, Target, IInv, TypeOK
        <3> QED  BY <3>1, <3>2, <3>3
    <2>4. /\ main' \in {"http", "failed", "register", "await tls"}
          /\ UNCHANGED <<config, attempt, healthy>>
        BY DEF CreateTLS, CreateHTTP, Register
    <2> QED  BY <2>3, <2>4 DEF IInv, TypeOK
<1> USE DEF Listener
<1>2. StaysServed'
    BY DEF IInv, StaysServed, CreateTLS, CreateHTTP, Register, CreateListener
<1>3. StartedInTurn'
    BY DEF IInv, TypeOK, StartedInTurn, CreateTLS, CreateHTTP, Register, CreateListener
<1>4. NoListenerLeft'
    BY DEF IInv, TypeOK, StartedInTurn, NoListenerLeft, Running, CreateTLS, CreateHTTP, Register,
           CreateListener
<1> QED  BY <1>1, <1>2, <1>3, <1>4 DEF IInv

(* The start-up check remembers that the first listener is served.         *)
LEMMA AwaitKeeps ==
    ASSUME IInv, AwaitTLS \/ AwaitHTTP
    PROVE  IInv'
<1> USE DEF config, servers, AwaitTLS, AwaitHTTP, Await
<1>1. TypeOK'
    <2>1. attempt' \in 0 .. Attempts - 1
        <3>1. attempt \in 0 .. Attempts - 1  BY DEF IInv, TypeOK
        <3>2. attempt' = 0 \/ (attempt < Attempts - 1 /\ attempt' = attempt + 1)  OBVIOUS
        <3> HIDE DEF AwaitTLS, AwaitHTTP, Await
        <3> QED  BY <3>1, <3>2, Bounds
    <2>2. main' \in {"await tls", "await http", "healthy", "shutdown"}  OBVIOUS
    <2> QED  BY <2>1, <2>2 DEF IInv, TypeOK
<1>2. StaysServed'  BY DEF IInv, StaysServed, Answers, HasAnswered
<1>3. StartedInTurn'  BY DEF IInv, StartedInTurn
<1>4. NoListenerLeft'  BY DEF IInv, NoListenerLeft
<1> QED  BY <1>1, <1>2, <1>3, <1>4 DEF IInv

(* Shutting down, up to the end of the last listener.                      *)
LEMMA StopKeeps ==
    ASSUME IInv, Stop \/ Shutdown \/ Drain \/ Wait
    PROVE  IInv'
<1> USE DEF config, servers, Listener, Target, Stop, Shutdown, Drain, Wait
<1>1. TypeOK'  BY DEF IInv, TypeOK, First
<1>2. StaysServed'  BY DEF IInv, StaysServed
<1>3. StartedInTurn'  BY DEF IInv, StartedInTurn
<1>4. NoListenerLeft'  BY DEF IInv, NoListenerLeft, Running
<1> QED  BY <1>1, <1>2, <1>3, <1>4 DEF IInv

(* A listener that is served only ends when it was shut down, or breaks.   *)
LEMMA ServeKeeps ==
    ASSUME IInv, NEW l \in Listener, ServeListener(l) \/ BreakServe(l)
    PROVE  IInv'
<1> USE DEF config, control, ServeListener, Listen, Serve, EndServe, BreakServe
<1>1. TypeOK'  BY DEF IInv, TypeOK
<1>2. StaysServed'  BY DEF IInv, TypeOK, StaysServed, HasAnswered, Listener
<1>3. StartedInTurn'  BY DEF IInv, TypeOK, StartedInTurn, Listener
<1>4. NoListenerLeft'  BY DEF IInv, TypeOK, NoListenerLeft, Running, Listener
<1> QED  BY <1>1, <1>2, <1>3, <1>4 DEF IInv

(* Callbacks and requests touch neither listeners nor main.                *)
LEMMA OthersKeep ==
    ASSUME IInv,
           (\E t \in Target : Callback(t)) \/ (\E l \in Listener : Client(l)) \/ UNCHANGED vars
    PROVE  IInv'
<1> USE DEF config, control, servers, vars, Callback, Client
<1>1. TypeOK'
    <2>1. CASE \E t \in Target : Callback(t)  BY <2>1 DEF IInv, TypeOK, Target
    <2>2. ASSUME NEW l \in Listener, Client(l) PROVE TypeOK'
        <3>1. conns[l] \in 0 .. MaxConns  BY DEF IInv, TypeOK
        <3>2. PICK n \in 0 .. MaxConns : conns' = [conns EXCEPT ![l] = n]
            BY <2>2, <3>1, Bounds
        <3> QED  BY <2>2, <3>2 DEF IInv, TypeOK
    <2>3. CASE UNCHANGED vars  BY <2>3 DEF IInv, TypeOK
    <2> QED  BY <2>1, <2>2, <2>3
<1>2. StaysServed'  BY DEF IInv, StaysServed, HasAnswered
<1>3. StartedInTurn'  BY DEF IInv, StartedInTurn
<1>4. NoListenerLeft'  BY DEF IInv, NoListenerLeft, Running
<1> QED  BY <1>1, <1>2, <1>3, <1>4 DEF IInv

LEMMA NextIInv == IInv /\ [Next]_vars => IInv'
<1> SUFFICES ASSUME IInv, [Next]_vars PROVE IInv'  OBVIOUS
<1>1. CASE CreateTLS \/ CreateHTTP \/ Register  BY <1>1, CreateKeeps
<1>2. CASE AwaitTLS \/ AwaitHTTP  BY <1>2, AwaitKeeps
<1>3. CASE Stop \/ Shutdown \/ Drain \/ Wait  BY <1>3, StopKeeps
<1>4. CASE \E l \in Listener : ServeListener(l) \/ BreakServe(l)  BY <1>4, ServeKeeps
<1>5. CASE (\E t \in Target : Callback(t)) \/ (\E l \in Listener : Client(l)) \/ UNCHANGED vars
    BY <1>5, OthersKeep
<1> QED  BY <1>1, <1>2, <1>3, <1>4, <1>5 DEF Next, Main

(* The inductive invariant always holds, for any number of attempts.       *)
THEOREM LifecycleInvariant == Spec => []IInv
<1> QED  BY InitIInv, NextIInv, PTL DEF Spec

(* Whatever way CreateAndAwaitHealthy fails, and when servers were stopped,*)
(* no goroutine still listens.                                             *)
THEOREM NothingLeftBehind == Spec => []NoListenerLeft
<1>1. IInv => NoListenerLeft  BY DEF IInv
<1> QED  BY <1>1, LifecycleInvariant, PTL

(* A start-up is only reported as healthy when each of the configured      *)
(* listeners was served (or another proxy is at its port).                 *)
THEOREM HealthyIsServed == Spec => HealthyMeansServed
<1>1. ASSUME IInv, [Next]_vars, main # "healthy", main' = "healthy"
      PROVE  \A l \in configured : HasAnswered(l)
    <2>1. AwaitHTTP
        <3>1. \/ CreateTLS \/ CreateHTTP \/ Register \/ AwaitTLS \/ AwaitHTTP
              \/ Stop \/ Shutdown \/ Drain \/ Wait \/ UNCHANGED main
            BY <1>1 DEF Next, Main, ServeListener, Listen, Serve, EndServe, BreakServe, Client,
               Callback, control, vars
        <3> QED
            BY <1>1, <3>1 DEF CreateTLS, CreateHTTP, Register, AwaitTLS, Await, Stop, Shutdown,
               Drain, Wait
    <2>2. "http" \in configured => Answers("http")  BY <1>1, <2>1 DEF AwaitHTTP, Await
    <2>3. "tls" \in configured => HasAnswered("tls")  BY <1>1, <2>1 DEF AwaitHTTP, IInv, StaysServed
    <2>4. configured \subseteq {"tls", "http"}  BY <1>1 DEF IInv, TypeOK, Listener
    <2> QED  BY <2>2, <2>3, <2>4 DEF Answers, HasAnswered
<1> QED  BY <1>1, LifecycleInvariant, PTL DEF HealthyMeansServed, Spec

(* The variables have their types, for any number of attempts.             *)
THEOREM LifecycleTypes == Spec => []TypeOK
<1>1. IInv => TypeOK  BY DEF IInv
<1> QED  BY <1>1, LifecycleInvariant, PTL

----------------------------------------------------------------------------
(* Shutting down reaches everything                                        *)

(* What has to end with the servers: the listeners that are configured,    *)
(* the server of the metrics, and the reloader of the certificate.         *)
Together ==
    configured \cup (IF metrics THEN {"metrics"} ELSE {})
               \cup (IF "tls" \in configured THEN {"reloader"} ELSE {})

(* What is registered with a listener besides the other listener.          *)
Own(l) == (IF metrics THEN {"metrics"} ELSE {}) \cup (IF l = "tls" THEN {"reloader"} ELSE {})

Created(l) == l \in configured /\ (main = "http" => l = "tls") /\ main # "tls"

(* Between Register and the end both listeners know each other.  A main    *)
(* that failed before that has shut down nothing.                          *)
Registered == main \notin {"tls", "http", "register", "failed"} \/ closed # {}

Wired ==
    /\ main = "register" \/ main = "http" => \A l \in Listener : Created(l) => onShutdown[l] = Own(l)
    /\ Registered =>
         /\ configured # {}
         /\ \A l \in configured : onShutdown[l] = Own(l) \cup (configured \ {l})

(* Once something was shut down, everything that has to end either was     *)
(* shut down as well or has a goroutine that is about to do it, and nothing*)
(* else is touched.                                                        *)
ShutsAllDown ==
    /\ closed = {} => pending = {}
    /\ closed # {} => closed \cup pending = Together
    /\ main \in {"drain", "wait"} => First \in closed

(* Two listeners never stop calling each other's Shutdown.                 *)
KeepCalling == configured = Listener /\ closed # {} => pending \cap Listener # {}

SInv == Wired /\ ShutsAllDown /\ KeepCalling

(* What was shut down stays so, and a listener that ended is not started   *)
(* again: a step back would let a listener be served after StopsTogether.  *)
EndedForGood ==
    [][/\ closed \subseteq closed'
       /\ \A l \in Listener : lis[l] \in {"ended", "broken"} => lis'[l] = lis[l]]_vars

LEMMA InitSInv == Init => SInv
<1> SUFFICES ASSUME Init PROVE SInv  OBVIOUS
<1> USE DEF Init
<1>1. Wired  BY DEF Wired, Registered
<1>2. ShutsAllDown /\ KeepCalling
    BY DEF ShutsAllDown, KeepCalling, Listener
<1> QED  BY <1>1, <1>2 DEF SInv

LEMMA ListenersAre ==
    ASSUME TypeOK
    PROVE  /\ configured \subseteq {"tls", "http"}
           /\ First \in {"tls", "http"} /\ (configured # {} => First \in configured)
           /\ ("tls" \in configured <=> First = "tls")
           /\ Together \cap Listener = configured
BY DEF TypeOK, First, Together, Listener

(* Before Register nothing is shut down.                                   *)
LEMMA CreateWires ==
    ASSUME IInv, SInv, CreateTLS \/ CreateHTTP \/ Register
    PROVE  SInv'
<1> USE DEF config, servers, Listener
<1>1. /\ closed = {} /\ closed' = {} /\ pending = {} /\ pending' = {}
      /\ configured \subseteq Listener /\ onShutdown \in [Listener -> SUBSET Target]
    BY DEF IInv, TypeOK, StaysServed, CreateTLS, CreateHTTP, Register, CreateListener
<1>2. Wired'
    <2>1. CASE CreateTLS
        <3>1. main = "tls" /\ main' \in {"http", "failed"} /\ UNCHANGED <<configured, metrics>>
            BY <2>1 DEF CreateTLS
        <3>2. "tls" \in configured /\ main' = "http" => onShutdown'["tls"] = {"reloader"} \cup (IF metrics THEN {"metrics"} ELSE {})
            BY <1>1, <2>1 DEF CreateTLS, CreateListener
        <3> QED  BY <1>1, <3>1, <3>2 DEF Wired, Registered, Created, Own
    <2>2. CASE CreateHTTP
        <3>1. main = "http" /\ main' = "register" /\ UNCHANGED <<configured, metrics>>
            BY <2>2 DEF CreateHTTP
        <3>2. /\ onShutdown'["tls"] = onShutdown["tls"]
              /\ "http" \in configured => onShutdown'["http"] = IF metrics THEN {"metrics"} ELSE {}
            BY <1>1, <2>2 DEF CreateHTTP, CreateListener
        <3>3. "tls" \in configured => onShutdown["tls"] = Own("tls")
            BY <3>1 DEF SInv, Wired, Created
        <3> QED  BY <1>1, <3>1, <3>2, <3>3 DEF Wired, Registered, Created, Own
    <2>3. CASE Register
        <3>1. /\ main = "register" /\ UNCHANGED <<configured, metrics>>
              /\ main' = IF configured = {} THEN "failed" ELSE "await tls"
              /\ onShutdown' = IF configured = Listener
                               THEN [l \in Listener |-> onShutdown[l] \cup (Listener \ {l})] ELSE onShutdown
            BY <2>3 DEF Register
        <3>2. \A l \in configured : onShutdown[l] = Own(l)
            BY <1>1, <3>1 DEF SInv, Wired, Created
        <3>3. \A l \in configured : onShutdown'[l] = Own(l) \cup (configured \ {l})
            <4>1. CASE configured = Listener  BY <1>1, <3>1, <3>2, <4>1
            <4>2. CASE configured # Listener
                <5>1. \A l \in configured : configured \ {l} = {}  BY <1>1, <4>2
                <5>2. onShutdown' = onShutdown  BY <3>1, <4>2
                <5>3. TAKE l \in configured
                <5>4. configured \ {l} = {} /\ onShutdown[l] = Own(l)  BY <3>2, <5>1
                <5> QED  BY <5>2, <5>4
            <4> QED  BY <4>1, <4>2
        <3>4. \A l : Own(l)' = Own(l)  BY <3>1 DEF Own
        <3>5. ~ (main' = "register" \/ main' = "http") /\ (Registered' => configured # {})
            BY <1>1, <3>1 DEF Registered
        <3> QED  BY <3>1, <3>3, <3>4, <3>5 DEF Wired
    <2> QED  BY <2>1, <2>2, <2>3
<1>3. ShutsAllDown' /\ KeepCalling'
    <2>1. main' \in {"http", "failed", "register", "await tls"}  BY DEF CreateTLS, CreateHTTP, Register
    <2> QED  BY <1>1, <2>1 DEF ShutsAllDown, KeepCalling
<1> QED  BY <1>2, <1>3 DEF SInv

(* Waiting, listening and serving shut down nothing.                       *)
LEMMA OthersShutNothing ==
    ASSUME IInv, SInv,
           \/ AwaitTLS \/ AwaitHTTP \/ Stop \/ Drain \/ Wait
           \/ (\E l \in Listener : ServeListener(l) \/ BreakServe(l) \/ Client(l)) \/ UNCHANGED vars
    PROVE  SInv'
<1>1. UNCHANGED <<configured, metrics, port, onShutdown, pending, closed>>
    BY DEF AwaitTLS, AwaitHTTP, Await, Stop, Drain, Wait, ServeListener, Listen, Serve, EndServe,
           BreakServe, Client, config, servers, vars
<1>2. \/ UNCHANGED main
      \/ /\ main \notin {"tls", "http", "register", "failed"}
         /\ main' \notin {"tls", "http", "register"}
    BY DEF AwaitTLS, AwaitHTTP, Await, Stop, Drain, Wait, ServeListener, Listen, Serve, EndServe,
           BreakServe, Client, control, vars
<1>3. main' \in {"drain", "wait"} => main \in {"drain", "wait"} \/ main' = main
    BY DEF AwaitTLS, AwaitHTTP, Await, Stop, Drain, Wait, ServeListener, Listen, Serve, EndServe,
           BreakServe, Client, control, vars
<1>4. Wired'
    <2>1. Registered' => Registered  BY <1>1, <1>2 DEF Registered
    <2>2. \A l : Own(l)' = Own(l)  BY <1>1 DEF Own
    <2>3. main' = "register" \/ main' = "http" => \A l : Created(l)' = Created(l)
        BY <1>1, <1>2 DEF Created
    <2>4. main' = "register" \/ main' = "http" => main' = main  BY <1>2
    <2> QED  BY <1>1, <2>1, <2>2, <2>3, <2>4 DEF SInv, Wired
<1>5. ShutsAllDown' /\ KeepCalling'
    <2>1. Together' = Together /\ First' = First  BY <1>1 DEF Together, First
    <2> QED  BY <1>1, <1>3, <2>1 DEF SInv, ShutsAllDown, KeepCalling
<1> QED  BY <1>4, <1>5 DEF SInv

(* What a shutdown of t adds: all that is registered with it.              *)
LEMMA ShutdownSpreads ==
    ASSUME IInv, SInv, Registered, NEW t \in Listener \cap configured
    PROVE  /\ onShutdown[t] \subseteq Together
           /\ configured = Listener => onShutdown[t] \cap Listener # {}
<1>1. onShutdown[t] = Own(t) \cup (configured \ {t})  BY DEF SInv, Wired
<1>2. Own(t) \subseteq Together  BY DEF Own, Together
<1> QED  BY <1>1, <1>2 DEF Together, Listener

LEMMA ShutdownKeeps ==
    ASSUME IInv, SInv, Shutdown
    PROVE  SInv'
<1>1. /\ main = "shutdown" /\ main' = "drain"
      /\ closed' = closed \cup {First} /\ pending' = pending \cup onShutdown[First]
      /\ UNCHANGED <<configured, metrics, port, onShutdown, lis>>
    BY DEF Shutdown, config
<1>2. Registered /\ configured # {} /\ First \in configured /\ First \in Listener
    <2>1. Registered  BY <1>1 DEF Registered
    <2> QED  BY <2>1, ListenersAre DEF SInv, Wired, IInv, Listener
<1>3. Wired'
    <2>1. \A l : Own(l)' = Own(l)  BY <1>1 DEF Own
    <2> QED  BY <1>1, <1>2, <2>1 DEF SInv, Wired
<1>4. Together' = Together /\ First' = First  BY <1>1 DEF Together, First
<1>5. {First} \cup onShutdown[First] = Together
    <2>1. onShutdown[First] = Own(First) \cup (configured \ {First})  BY <1>2 DEF SInv, Wired
    <2>2. "tls" \in configured <=> First = "tls"  BY ListenersAre DEF IInv
    <2> QED  BY <1>2, <2>1, <2>2 DEF Own, Together
<1>6. ShutsAllDown'
    <2>1. closed' \cup pending' = (closed \cup pending) \cup Together  BY <1>1, <1>5
    <2>2. closed \cup pending \in {{}, Together}  BY DEF SInv, ShutsAllDown
    <2> QED  BY <1>1, <1>4, <2>1, <2>2 DEF ShutsAllDown
<1>7. KeepCalling'  BY <1>1, <1>2, ShutdownSpreads DEF KeepCalling
<1> QED  BY <1>3, <1>6, <1>7 DEF SInv

LEMMA CallbackKeeps ==
    ASSUME IInv, SInv, NEW t \in Target, Callback(t)
    PROVE  SInv'
<1> DEFINE more == IF t \in Listener THEN onShutdown[t] ELSE {}
<1>1. /\ t \in pending /\ closed' = closed \cup {t} /\ pending' = (pending \ {t}) \cup more
      /\ UNCHANGED <<configured, metrics, port, main, onShutdown, lis>>
    BY DEF Callback, config, control
<1>2. closed # {} /\ closed \cup pending = Together  BY <1>1 DEF SInv, ShutsAllDown
<1>3. Registered  BY <1>2 DEF Registered
<1>4. t \in Listener => t \in Listener \cap configured
    BY <1>1, <1>2, ListenersAre DEF IInv
<1>5. more \subseteq Together /\ (configured = Listener /\ t \in Listener => more \cap Listener # {})
    BY <1>3, <1>4, ShutdownSpreads
<1>6. Wired'
    <2>1. \A l : Own(l)' = Own(l)  BY <1>1 DEF Own
    <2>2. \A l : Created(l)' = Created(l)  BY <1>1 DEF Created
    <2> QED  BY <1>1, <1>3, <2>1, <2>2 DEF SInv, Wired
<1>7. ShutsAllDown'
    <2>1. Together' = Together /\ First' = First  BY <1>1 DEF Together, First
    <2>2. closed' \cup pending' = Together
        <3> HIDE DEF more
        <3> QED  BY <1>1, <1>2, <1>5
    <2>3. closed' # {}  BY <1>1
    <2>4. main' \in {"drain", "wait"} => First' \in closed'
        BY <1>1, <2>1 DEF SInv, ShutsAllDown
    <2> QED  BY <2>1, <2>2, <2>3, <2>4 DEF ShutsAllDown
<1>8. KeepCalling'
    <2> HIDE DEF more
    <2>1. configured = Listener => pending \cap Listener # {}  BY <1>2 DEF SInv, KeepCalling
    <2> QED  BY <1>1, <1>5, <2>1 DEF KeepCalling
<1> QED  BY <1>6, <1>7, <1>8 DEF SInv

LEMMA NextSInv == IInv /\ SInv /\ [Next]_vars => SInv'
<1> SUFFICES ASSUME IInv, SInv, [Next]_vars PROVE SInv'  OBVIOUS
<1>1. CASE CreateTLS \/ CreateHTTP \/ Register  BY <1>1, CreateWires
<1>2. CASE \/ AwaitTLS \/ AwaitHTTP \/ Stop \/ Drain \/ Wait
           \/ (\E l \in Listener : ServeListener(l) \/ BreakServe(l) \/ Client(l)) \/ UNCHANGED vars
    BY <1>2, OthersShutNothing
<1>3. CASE Shutdown  BY <1>3, ShutdownKeeps
<1>4. CASE \E t \in Target : Callback(t)  BY <1>4, CallbackKeeps
<1> QED  BY <1>1, <1>2, <1>3, <1>4 DEF Next, Main

LEMMA ShutdownInvariant == Spec => []SInv
<1> QED  BY InitSInv, NextSInv, LifecycleInvariant, InitIInv, NextIInv, PTL DEF Spec

(* Shutting down one server reaches the other, the metrics and the reloader*)
(* in every order of the callbacks: none of them is ever forgotten, nothing*)
(* that is not configured is shut down, and before the shutdown nothing is.*)
THEOREM ShutdownReachesAll == Spec => []ShutsAllDown
<1>1. SInv => ShutsAllDown  BY DEF SInv
<1> QED  BY <1>1, ShutdownInvariant, PTL

(* While CreateAndAwaitHealthy waits for the end of a shutdown (Shutdown,  *)
(* serverDone in server.go), each listener it waits for was shut down or a *)
(* goroutine is about to do so: it does not wait for what nobody will do.  *)
AwaitsWhatEnds ==
    main \in {"drain", "wait"} => \A l \in Listener : Running(l) => l \in closed \cup pending

(* None of the waits of a shutdown is in vain (CreateAndAwaitHealthy).     *)
THEOREM NothingAwaitedInVain == Spec => []AwaitsWhatEnds
<1>1. IInv /\ SInv => AwaitsWhatEnds
    <2> SUFFICES ASSUME IInv, SInv, main \in {"drain", "wait"}, NEW l \in Listener, Running(l)
                 PROVE  l \in closed \cup pending
        BY DEF AwaitsWhatEnds
    <2>1. l \in configured  BY DEF IInv, StartedInTurn, Running
    <2>2. closed # {}  BY DEF SInv, ShutsAllDown
    <2> QED  BY <2>1, <2>2 DEF SInv, ShutsAllDown, Together
<1> QED  BY <1>1, LifecycleInvariant, ShutdownInvariant, PTL

(* The functions that two servers register for each other (server.go, lines*)
(* 183-184) go on for ever: one of them is always about to run.            *)
THEOREM ServersKeepCalling == Spec => []KeepCalling
<1>1. SInv => KeepCalling  BY DEF SInv
<1> QED  BY <1>1, ShutdownInvariant, PTL

(* What was shut down, and a listener that ended, never comes back.        *)
THEOREM NothingComesBack == Spec => EndedForGood
<1>1. ASSUME IInv, [Next]_vars
      PROVE  closed \subseteq closed' /\ \A l \in Listener : lis[l] \in {"ended", "broken"} => lis'[l] = lis[l]
    <2> USE DEF config, control, servers, vars
    <2>1. closed \subseteq closed'
        BY <1>1 DEF Next, Main, CreateTLS, CreateHTTP, Register, CreateListener, AwaitTLS,
           AwaitHTTP, Await, Shutdown, Drain, Wait, Stop, ServeListener, Listen, Serve,
           EndServe, BreakServe,
           Callback, Client
    <2>2. ASSUME NEW l \in Listener, lis[l] \in {"ended", "broken"} PROVE lis'[l] = lis[l]
        <3>1. CASE CreateTLS \/ CreateHTTP
            BY <1>1, <2>2, <3>1 DEF IInv, TypeOK, StartedInTurn, Listener, CreateTLS,
               CreateHTTP, CreateListener
        <3>2. CASE \E k \in Listener : ServeListener(k) \/ BreakServe(k)
            BY <1>1, <2>2, <3>2 DEF IInv, TypeOK, ServeListener, Listen, Serve, EndServe,
               BreakServe
        <3>3. CASE UNCHANGED lis  BY <2>2, <3>3
        <3>4. CreateTLS \/ CreateHTTP \/ (\E k \in Listener : ServeListener(k) \/ BreakServe(k)) \/ UNCHANGED lis
            BY <1>1 DEF Next, Main, Register, AwaitTLS, AwaitHTTP, Await, Shutdown, Drain, Wait,
               Stop, Callback, Client
        <3> QED  BY <3>1, <3>2, <3>3, <3>4
    <2> QED  BY <2>1, <2>2
<1> QED  BY <1>1, LifecycleInvariant, PTL DEF EndedForGood, Spec
============================================================================
