------------------------- MODULE ManipulationServer -------------------------
(***************************************************************************)
(* proxy/ManipulationServerImpl.swift and helpers/swifter/HttpServerIO,    *)
(* Socket+Server.swift: the local server the player streams through, and   *)
(* the observer of the player's rate that brings it back when its accept   *)
(* loop has died.                                                          *)
(*                                                                         *)
(* Nothing here is under a lock: the core's thread, the threads that       *)
(* deliver the rate, and the accept loops run start() and stop() of the    *)
(* same server, so an action is one access to the shared state.  The       *)
(* setter of `state` reads and then compares and swaps; a swap that loses  *)
(* is an assignment that another one overwrote at once, so it is one step. *)
(* Connections are left out.                                               *)
(***************************************************************************)
EXTENDS Naturals, FiniteSets

CONSTANTS
  core,       \* the thread that calls serve() and stop_()
  Callbacks,  \* threads that deliver a change of the rate
  Loops,      \* accept loops; one is reused once it has returned
  Sockets,    \* listening sockets; one is reused once it is closed
  None,
  FreePort,   \* what findFreePort() finds; 0 stands for any port there is
  Overlap,    \* what a rate callback may coincide with: another one ("callback"), the
              \* stop() of a loop that ends ("ending"), stop_() ("stop")
  Faults      \* what may fail in serve(): "probe", "bind"

ASSUME ActorAssumption ==
  /\ core \notin Callbacks \cup Loops
  /\ Callbacks \cap Loops = {}
ASSUME NoneAssumption == None \notin Sockets
ASSUME PortAssumption == FreePort \in Nat \ {0} /\ None \notin Nat
ASSUME CaseAssumption ==
  Overlap \subseteq {"callback", "ending", "stop"} /\ Faults \subseteq {"probe", "bind"}

Threads == {core} \cup Callbacks
Actors  == Threads \cup Loops

VARIABLES
  state,          \* of HttpServerIO
  socket,         \* its listening socket, None for the descriptor -1
  lastServerPort,
  observer,       \* the rate is being observed
  phase,          \* what the core has asked for
  raced,          \* history: stop_() was called while a rate callback was under way
  pc,             \* where each actor is
  asked,          \* the port of the start() an actor is in, or None
  accepting,      \* the socket a loop waits on
  \* the kernel
  open,           \* sockets that are open
  port            \* the port each was bound to

server == <<state, socket, lastServerPort>>
kernel == <<open, port>>
vars == <<server, observer, phase, raced, pc, asked, accepting, kernel>>

InStop  == {"stop", "stopping", "closing", "stopped"}
InStart == {"start", "starting", "binding", "run", "started", "return"}
InLoop  == {"queued", "accept", "waiting"}

TypeOK ==
  /\ state \in {"starting", "running", "stopping", "stopped"}
  /\ socket \in Sockets \cup {None}
  /\ lastServerPort \in {0, FreePort}
  /\ observer \in BOOLEAN
  /\ phase \in {"new", "serving", "served", "stopping"} /\ raced \in BOOLEAN
  /\ pc \in [Actors -> {"idle"} \cup InStop \cup InStart \cup InLoop]
  /\ asked \in [Actors -> {0, FreePort, None}]
  /\ accepting \in [Loops -> Sockets \cup {None}]
  /\ open \subseteq Sockets
  /\ port \in [Sockets -> {0, FreePort}]

Init ==
  /\ state = "stopped"
  /\ socket = None
  /\ lastServerPort = 0
  /\ observer = FALSE
  /\ phase = "new" /\ raced = FALSE
  /\ pc = [a \in Actors |-> "idle"]
  /\ asked = [a \in Actors |-> None]
  /\ accepting = [l \in Loops |-> None]
  /\ open = {}
  /\ port = [s \in Sockets |-> 0]

Goes(a, here, there) == pc[a] = here /\ pc' = [pc EXCEPT ![a] = there]

------------------------------------------------------------------------------
\* HttpServerIO.stop(), called by stop_(), by a loop that ends, and by start().

\* What follows stop(): the rest of start(), or nothing.
AfterStop(a) == IF asked[a] # None THEN "starting" ELSE "idle"

StopGuard(a) ==
  /\ Goes(a, "stop", IF state = "running" THEN "stopping" ELSE AfterStop(a))
  /\ UNCHANGED <<server, observer, phase, raced, asked, accepting, kernel>>

SetStopping(a) ==
  /\ Goes(a, "stopping", "closing")
  /\ state' = "stopping"
  /\ UNCHANGED <<socket, lastServerPort, observer, phase, raced, asked, accepting, kernel>>

\* It closes the socket the server has by now.
CloseSocket(a) ==
  /\ Goes(a, "closing", "stopped")
  /\ open' = open \ {socket}
  /\ UNCHANGED <<server, observer, phase, raced, asked, accepting, port>>

SetStopped(a) ==
  /\ Goes(a, "stopped", AfterStop(a))
  /\ state' = "stopped"
  /\ UNCHANGED <<socket, lastServerPort, observer, phase, raced, asked, accepting, kernel>>

Stops(a) == StopGuard(a) \/ SetStopping(a) \/ CloseSocket(a) \/ SetStopped(a)

------------------------------------------------------------------------------
\* HttpServerIO.start(), called by startServer().

\* Mutant: a start that failed is taken for one that goes on.
StartGuardStopped(a) ==
  /\ Goes(a, "start", IF state # "stopped" THEN "started" ELSE "stop")
  /\ UNCHANGED <<server, observer, phase, raced, asked, accepting, kernel>>

\* A server that operates is left alone; otherwise start() calls stop() first.
StartGuard(a) ==
  /\ Goes(a, "start", IF state = "running" THEN "started" ELSE "stop")
  /\ UNCHANGED <<server, observer, phase, raced, asked, accepting, kernel>>

SetStarting(a) ==
  /\ Goes(a, "starting", "binding")
  /\ state' = "starting"
  /\ UNCHANGED <<socket, lastServerPort, observer, phase, raced, asked, accepting, kernel>>

InUse(p) == p # 0 /\ \E s \in open : port[s] = p

\* A Socket object that nothing refers to.
Fresh(s) == s \notin open /\ s # socket /\ \A l \in Loops : accepting[l] # s

\* The old Socket closes itself as it is replaced, but for a loop waiting on it.
Bind(a) ==
  /\ ~InUse(asked[a])
  /\ \E s \in Sockets :
       /\ Fresh(s)
       /\ socket' = s
       /\ port' = [port EXCEPT ![s] = asked[a]]
       /\ open' = {s} \cup (open \ (IF \E l \in Loops : accepting[l] = socket
                                      THEN {} ELSE {socket}))
  /\ Goes(a, "binding", "run")
  /\ UNCHANGED <<state, lastServerPort, observer, phase, raced, asked, accepting>>

\* bind() fails, start() throws, startServer() logs it and returns.
BindFails(a) ==
  /\ InUse(asked[a]) \/ (a = core /\ "bind" \in Faults)
  /\ Goes(a, "binding", "return")
  /\ UNCHANGED <<server, observer, phase, raced, asked, accepting, kernel>>

\* The server operates, and the block with its accept loop is dispatched.
Run(a) ==
  /\ pc[a] = "run"
  /\ \E l \in Loops :
       /\ pc[l] = "idle"
       /\ pc' = [pc EXCEPT ![a] = "started", ![l] = "queued"]
  /\ state' = "running"
  /\ UNCHANGED <<socket, lastServerPort, observer, phase, raced, asked, accepting, kernel>>

\* Mutant: the port is read after the call is over.
StartedTooLate(a) ==
  /\ Goes(a, "started", "return")
  /\ lastServerPort' = None
  /\ UNCHANGED <<state, socket, observer, phase, raced, asked, accepting, kernel>>

Started(a) ==
  /\ Goes(a, "started", "return")
  /\ lastServerPort' = asked[a]
  /\ UNCHANGED <<state, socket, observer, phase, raced, asked, accepting, kernel>>

\* startServer() returns: to the rate callback, or to serve(), which observes the
\* player's rate whether or not the server was started.
Return(a) ==
  /\ Goes(a, "return", "idle")
  /\ asked' = [asked EXCEPT ![a] = None]
  /\ IF a = core
       THEN phase' = "served" /\ observer' = (asked[core] # 0)
       ELSE UNCHANGED <<phase, observer>>
  /\ UNCHANGED <<server, raced, accepting, kernel>>

Starts(a) ==
  StartGuard(a) \/ SetStarting(a) \/ Bind(a) \/ BindFails(a) \/ Run(a) \/ Started(a) \/ Return(a)

------------------------------------------------------------------------------
\* The accept loop that start() dispatches.

\* Its block looks once whether the server still operates.
LoopBegins(l) ==
  /\ Goes(l, "queued", IF state = "running" THEN "accept" ELSE "idle")
  /\ UNCHANGED <<server, observer, phase, raced, asked, accepting, kernel>>

\* Each turn reads the server's socket again.
LoopReads(l) ==
  /\ Goes(l, "accept", "waiting")
  /\ accepting' = [accepting EXCEPT ![l] = socket]
  /\ UNCHANGED <<server, observer, phase, raced, asked, kernel>>

\* A replaced Socket is closed by the last loop that lets go of it.
LetsGo(l) ==
  /\ accepting' = [accepting EXCEPT ![l] = None]
  /\ open' = IF accepting[l] = socket \/ \E m \in Loops \ {l} : accepting[m] = accepting[l]
               THEN open ELSE open \ {accepting[l]}
  /\ UNCHANGED <<server, observer, phase, raced, asked, port>>

Accepts(l) ==
  /\ accepting[l] \in open
  /\ Goes(l, "waiting", "accept")
  /\ LetsGo(l)

\* Mutant: the loop ends without stop().
AcceptFailsQuietly(l) ==
  /\ Goes(l, "waiting", "idle")
  /\ LetsGo(l)

\* accept() fails on a closed socket, and otherwise when the system says so, as
\* it does to an app that was suspended.  The loop ends with stop().
AcceptFails(l) ==
  /\ Goes(l, "waiting", "stop")
  /\ LetsGo(l)

------------------------------------------------------------------------------
\* ManipulationServerImpl.

\* serve(): a port is probed for, and startServer() is called with it, or with 0.
Serve ==
  /\ phase = "new"
  /\ phase' = "serving"
  /\ \E p \in {FreePort} \cup (IF "probe" \in Faults THEN {0} ELSE {}) :
       asked' = [asked EXCEPT ![core] = p]
  /\ Goes(core, "idle", "start")
  /\ UNCHANGED <<server, observer, raced, accepting, kernel>>

InCallback == {k \in Callbacks : pc[k] # "idle"}
Stopping   == {a \in Actors : pc[a] \in InStop}

\* The player starts, and restartServerIfStopped() finds the server not operating.
RateCallback(k) ==
  /\ observer
  /\ "callback" \in Overlap \/ InCallback = {}
  /\ "ending" \in Overlap \/ Stopping = {}
  /\ state # "running"
  /\ Goes(k, "idle", "start")
  /\ asked' = [asked EXCEPT ![k] = lastServerPort]
  /\ UNCHANGED <<server, observer, phase, raced, accepting, kernel>>

\* Mutant: the observer is not destroyed.
StopStillObserving ==
  /\ phase = "served"
  /\ "stop" \in Overlap \/ InCallback = {}
  /\ phase' = "stopping" /\ raced' = (InCallback # {})
  /\ Goes(core, "idle", "stop")
  /\ UNCHANGED <<server, observer, asked, accepting, kernel>>

\* stop_(): the observer goes first, a callback under way does not.
Stop ==
  /\ phase = "served"
  /\ "stop" \in Overlap \/ InCallback = {}
  /\ phase' = "stopping" /\ raced' = (InCallback # {})
  /\ observer' = FALSE
  /\ Goes(core, "idle", "stop")
  /\ UNCHANGED <<server, asked, accepting, kernel>>

------------------------------------------------------------------------------
LoopStep(l) == LoopBegins(l) \/ LoopReads(l) \/ Accepts(l) \/ AcceptFails(l)

Next ==
  \/ Serve \/ Stop
  \/ \E k \in Callbacks : RateCallback(k)
  \/ \E a \in Actors : Stops(a) \/ Starts(a)
  \/ \E l \in Loops : LoopStep(l)

Spec == Init /\ [][Next]_vars

\* Threads run on; a closed socket ends its accept(); and the player is started
\* again and again, as a viewer who waits for a dead stream will do.
Fairness ==
  /\ \A a \in Actors : WF_vars(Stops(a) \/ Starts(a))
  /\ \A l \in Loops : WF_vars(LoopBegins(l) \/ LoopReads(l))
  /\ \A l \in Loops : WF_vars(accepting[l] \notin open /\ AcceptFails(l))
  /\ \A k \in Callbacks : WF_vars(RateCallback(k))

FairSpec == Spec /\ Fairness

------------------------------------------------------------------------------
\* Properties.

\* Nobody is inside start() or stop(), and no loop waits on a socket that is gone.
Quiet ==
  /\ \A a \in Actors : pc[a] \in {"idle"} \cup InLoop
  /\ \A l \in Loops : pc[l] = "waiting" => accepting[l] \in open

Alive(l) == pc[l] \in InLoop

\* A server that says it operates has one accept loop, on its open socket: what
\* restartServerIfStopped() takes `operating` to mean.
OperatingIsServed ==
  Quiet /\ state = "running" =>
    /\ socket \in open
    /\ port[socket] = lastServerPort
    /\ Cardinality({l \in Loops : Alive(l)}) = 1

\* A server that does not operate has let go of its port, so that start() can
\* bind it again.
StoppedIsReleased == Quiet /\ state # "running" => open = {}

\* The state tells what listens, unless stop_() met a rate callback.
StateIsTrue == ~raced => OperatingIsServed /\ StoppedIsReleased

\* When stop_() has returned the server does not operate, whatever its accept loop has
\* still to do and whatever ran at a time before, unless a rate callback was under way
\* as stop_() was called.
StopIsFinal == phase = "stopping" /\ pc[core] = "idle" /\ ~raced => state # "running"

\* A server whose loop has died while the player is observed operates again, as
\* long as the player is started again.
DeadServerRestarts ==
  observer /\ state # "running" ~> ~observer \/ state = "running"

------------------------------------------------------------------------------
\* Properties that fail (README, section 5).

\* stop_() is final for a rate callback under way, too, once that has returned.
StopIsFinalForAll ==
  phase = "stopping" /\ pc[core] = "idle" /\ InCallback = {} => state # "running"

\* The server is at the address that serve() gave the player.
AdvertisedIsServed ==
  observer /\ Quiet /\ state = "running" => port[socket] = FreePort

==============================================================================
