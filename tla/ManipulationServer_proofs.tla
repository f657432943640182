----------------------- MODULE ManipulationServer_proofs -----------------------
(***************************************************************************)
(* Proofs about ManipulationServer, for any threads, loops and sockets.    *)
(*                                                                         *)
(* Inv says who may be where: a thread has a port exactly while it is in   *)
(* start(), and after stop_() nobody is, but for a callback that was under *)
(* way.  Apart says what follows when a restart coincides neither with     *)
(* another nor with a stop: one start() at a time, with no accept loop and *)
(* no stop() beside it until it is done.                                   *)
(***************************************************************************)
EXTENDS ManipulationServer, FiniteSetTheorems, TLAPS

\* A thread inside start() has a port, and one outside it has none; a rate
\* callback does nothing but start().
PortWhileStarting ==
  \A a \in Actors :
    /\ pc[a] \in InStart => asked[a] # None
    /\ pc[a] \in {"idle"} \cup InLoop => asked[a] = None
    /\ a \in Callbacks /\ pc[a] # "idle" => asked[a] # None

LoopsDoNotStart == \A l \in Loops : asked[l] = None

\* Once stop_() has begun nobody starts the server, unless a rate callback was
\* under way, and the core goes through stop() or is back.
StopIsLast ==
  ~raced /\ phase = "stopping" =>
    /\ ~observer
    /\ \A a \in Actors : asked[a] = None
    /\ pc[core] \in InStop \cup {"idle"}
    /\ pc[core] \in {"closing", "stopped", "idle"} => state # "running"

\* The core does not start the server once it has stopped it.
RacedLate ==
  /\ raced => phase = "stopping"
  /\ phase = "stopping" => asked[core] = None

Inv == TypeOK /\ PortWhileStarting /\ LoopsDoNotStart /\ StopIsLast /\ RacedLate

LEMMA InitInv == Init => Inv
BY ActorAssumption, PortAssumption
   DEF Init, Inv, TypeOK, PortWhileStarting, LoopsDoNotStart, StopIsLast, RacedLate, InStop,
        InStart, InLoop, Actors, Threads, server, kernel

LEMMA StepInv == Inv /\ [Next]_vars => Inv'
<1> SUFFICES ASSUME Inv, [Next]_vars PROVE Inv'
  OBVIOUS
<1> USE ActorAssumption, NoneAssumption, PortAssumption, CaseAssumption
<1> USE DEF Inv, TypeOK, PortWhileStarting, LoopsDoNotStart, StopIsLast, RacedLate, InStop,
        InStart, InLoop, Actors, Threads, server, kernel
<1>1. ASSUME NEW a \in Actors, StopGuard(a) PROVE Inv'
  BY <1>1 DEF StopGuard, Goes, AfterStop
<1>2. ASSUME NEW a \in Actors, SetStopping(a) PROVE Inv'
  BY <1>2 DEF SetStopping, Goes
<1>3. ASSUME NEW a \in Actors, CloseSocket(a) PROVE Inv'
  BY <1>3 DEF CloseSocket, Goes
<1>4. ASSUME NEW a \in Actors, SetStopped(a) PROVE Inv'
  BY <1>4 DEF SetStopped, Goes, AfterStop
<1>5. ASSUME NEW a \in Actors, StartGuard(a) PROVE Inv'
  BY <1>5 DEF StartGuard, Goes
<1>6. ASSUME NEW a \in Actors, SetStarting(a) PROVE Inv'
  BY <1>6 DEF SetStarting, Goes
<1>7. ASSUME NEW a \in Actors, Bind(a) PROVE Inv'
  BY <1>7 DEF Bind, Goes
<1>8. ASSUME NEW a \in Actors, BindFails(a) PROVE Inv'
  BY <1>8 DEF BindFails, Goes
<1>9. ASSUME NEW a \in Actors, Run(a) PROVE Inv'
  BY <1>9 DEF Run
<1>10. ASSUME NEW a \in Actors, Started(a) PROVE Inv'
  BY <1>10 DEF Started, Goes
<1>11. ASSUME NEW a \in Actors, Return(a) PROVE Inv'
  BY <1>11 DEF Return, Goes
<1>12. ASSUME NEW l \in Loops, LoopBegins(l) PROVE Inv'
  BY <1>12 DEF LoopBegins, Goes
<1>13. ASSUME NEW l \in Loops, LoopReads(l) PROVE Inv'
  BY <1>13 DEF LoopReads, Goes
<1>14. ASSUME NEW l \in Loops, Accepts(l) PROVE Inv'
  BY <1>14 DEF Accepts, Goes, LetsGo
<1>15. ASSUME NEW l \in Loops, AcceptFails(l) PROVE Inv'
  BY <1>15 DEF AcceptFails, Goes, LetsGo
<1>16. CASE Serve
  BY <1>16 DEF Serve, Goes
<1>17. CASE Stop
  BY <1>17 DEF Stop, Goes, InCallback
<1>18. ASSUME NEW k \in Callbacks, RateCallback(k) PROVE Inv'
  BY <1>18 DEF RateCallback, Goes, InCallback, Stopping
<1>19. CASE UNCHANGED vars
  BY <1>19 DEF vars
<1> QED
  BY <1>1, <1>2, <1>3, <1>4, <1>5, <1>6, <1>7, <1>8, <1>9, <1>10, <1>11, <1>12,
     <1>13, <1>14, <1>15, <1>16, <1>17, <1>18, <1>19
     DEF Next, Stops, Starts, LoopStep
\* Who is inside start() and stop() is as Inv says, whatever coincides with what.
THEOREM Invariance == Spec => []Inv
BY InitInv, StepInv, PTL DEF Spec

\* The server's state, its sockets, and where its threads are keep their types.
THEOREM TypeCorrect == Spec => []TypeOK
<1>1. Inv => TypeOK
  BY DEF Inv
<1> QED BY <1>1, Invariance, PTL

\* stop_() (ManipulationServerImpl): with restarts, the ends of loops and stops over one
\* another in any way, a server that operates once stop_() has returned was started by a
\* rate callback that was under way as stop_() was called.
THEOREM StopCorrect == Spec => []StopIsFinal
<1>1. Inv => StopIsFinal
  BY DEF Inv, StopIsLast, StopIsFinal
<1> QED BY <1>1, Invariance, PTL

------------------------------------------------------------------------------
\* Restarts that coincide with nothing.

Before == {"start", "stop", "starting", "binding", "run"}

\* What the phase says of the core and of its observer.
PhaseMatches ==
  /\ phase = "new" => state # "running" /\ \A a \in Actors : pc[a] = "idle"
  /\ phase = "serving" => asked[core] # None
  /\ phase = "served" => pc[core] = "idle"
  /\ observer => phase = "served"
  /\ phase = "stopping" => \A a \in Actors : asked[a] = None

OneStart == \A a, b \in Actors : asked[a] # None /\ asked[b] # None => a = b

\* Until start() has set the server running nobody else is in stop() or in a loop.
StartIsAlone ==
  \A a \in Actors : asked[a] # None /\ pc[a] \notin {"started", "return"} =>
    /\ pc[a] \in Before
    /\ state # "running"
    /\ \A b \in Actors \ {a} : pc[b] = "idle"

OneLoop ==
  /\ \A l, m \in Loops : pc[l] # "idle" /\ pc[m] # "idle" => l = m
  /\ \A l \in Loops : Alive(l) => state = "running" \/ phase = "stopping"
  /\ state = "running" => \E l \in Loops : Alive(l) \/ pc[l] \in {"stop", "stopping"}

ThreadsDoNotLoop == \A t \in Threads : pc[t] \notin InLoop

StopsAreDown == \A a \in Actors : pc[a] \in {"closing", "stopped"} => state # "running"

\* What is open is the server's socket: while it runs, just before, and until the
\* stop() under way has closed it.
OpenMatches ==
  /\ open \subseteq {socket}
  /\ state = "running" \/ (\E a \in Actors : pc[a] = "run") => socket \in open
  /\ state # "running" /\ open # {} => \E a \in Actors : pc[a] \in {"run", "closing"}

LoopsHoldIt ==
  \A l \in Loops : accepting[l] = IF pc[l] = "waiting" THEN socket ELSE None

PortMatches ==
  /\ \A a \in Actors : pc[a] \in {"run", "started"} => port[socket] = asked[a]
  /\ state = "running" /\ (\A a \in Actors : pc[a] \notin {"run", "started"})
       => port[socket] = lastServerPort

Apart ==
  /\ PhaseMatches /\ OneStart /\ StartIsAlone /\ OneLoop /\ ThreadsDoNotLoop
  /\ StopsAreDown /\ OpenMatches /\ LoopsHoldIt /\ PortMatches

LEMMA InitApart == Init => Apart
BY ActorAssumption, PortAssumption
   DEF Init, Apart, PhaseMatches, OneStart, StartIsAlone, OneLoop, Alive, ThreadsDoNotLoop,
       StopsAreDown, OpenMatches, LoopsHoldIt, PortMatches, InStop, InStart, InLoop,
       Actors, Threads, server, kernel

LEMMA StepApart ==
  Overlap \subseteq {"stop"} /\ Inv /\ Apart /\ [Next]_vars /\ ~raced' => Apart'
<1> SUFFICES ASSUME Overlap \subseteq {"stop"}, Inv, Apart, [Next]_vars, ~raced' PROVE Apart'
  OBVIOUS
<1> USE ActorAssumption, NoneAssumption, PortAssumption, CaseAssumption
<1> USE DEF Inv, TypeOK, PortWhileStarting, LoopsDoNotStart, RacedLate, Apart, PhaseMatches,
        OneStart, StartIsAlone, OneLoop, ThreadsDoNotLoop, StopsAreDown, OpenMatches, LoopsHoldIt,
        PortMatches, InStop, InStart, InLoop, Before, Alive, Actors, Threads, server, kernel
<1>1. ASSUME NEW a \in Actors, StopGuard(a) PROVE Apart'
  BY <1>1 DEF StopGuard, Goes, AfterStop
<1>2. ASSUME NEW a \in Actors, SetStopping(a) PROVE Apart'
  BY <1>2 DEF SetStopping, Goes
<1>3. ASSUME NEW a \in Actors, CloseSocket(a) PROVE Apart'
  BY <1>3 DEF CloseSocket, Goes
<1>4. ASSUME NEW a \in Actors, SetStopped(a) PROVE Apart'
  BY <1>4 DEF SetStopped, Goes, AfterStop
<1>5. ASSUME NEW a \in Actors, StartGuard(a) PROVE Apart'
  BY <1>5 DEF StartGuard, Goes
<1>6. ASSUME NEW a \in Actors, SetStarting(a) PROVE Apart'
  BY <1>6 DEF SetStarting, Goes
<1>7. ASSUME NEW a \in Actors, Bind(a) PROVE Apart'
  BY <1>7 DEF Bind, Goes
<1>8. ASSUME NEW a \in Actors, BindFails(a) PROVE Apart'
  BY <1>8 DEF BindFails, Goes
<1>9. ASSUME NEW a \in Actors, Run(a) PROVE Apart'
  BY <1>9 DEF Run
<1>10. ASSUME NEW a \in Actors, Started(a) PROVE Apart'
  BY <1>10 DEF Started, Goes
<1>11. ASSUME NEW a \in Actors, Return(a) PROVE Apart'
  BY <1>11 DEF Return, Goes
<1>12. ASSUME NEW l \in Loops, LoopBegins(l) PROVE Apart'
  BY <1>12 DEF LoopBegins, Goes
<1>13. ASSUME NEW l \in Loops, LoopReads(l) PROVE Apart'
  BY <1>13 DEF LoopReads, Goes
<1>14. ASSUME NEW l \in Loops, Accepts(l) PROVE Apart'
  BY <1>14 DEF Accepts, Goes, LetsGo
<1>15. ASSUME NEW l \in Loops, AcceptFails(l) PROVE Apart'
  BY <1>15 DEF AcceptFails, Goes, LetsGo
<1>16. CASE Serve
  BY <1>16 DEF Serve, Goes
<1>17. CASE Stop
  <2>1. \A a \in Threads : pc[a] = "idle"
    BY <1>17 DEF Stop, Goes, InCallback
  <2>2. \A a \in Actors : asked[a] = None
    BY <2>1
  <2> QED BY <1>17, <2>1, <2>2 DEF Stop, Goes
<1>18. ASSUME NEW k \in Callbacks, RateCallback(k) PROVE Apart'
  BY <1>18 DEF RateCallback, Goes, InCallback, Stopping
<1>19. CASE UNCHANGED vars
  BY <1>19 DEF vars
<1> QED
  BY <1>1, <1>2, <1>3, <1>4, <1>5, <1>6, <1>7, <1>8, <1>9, <1>10, <1>11, <1>12,
     <1>13, <1>14, <1>15, <1>16, <1>17, <1>18, <1>19
     DEF Next, Stops, Starts, LoopStep

\* When nobody is inside start() or stop(), Apart is what the state stands for.
LEMMA ApartIsTrue == Inv /\ Apart => StateIsTrue
<1> SUFFICES ASSUME Inv, Apart, Quiet PROVE OperatingIsServed /\ StoppedIsReleased
  BY DEF StateIsTrue, OperatingIsServed, StoppedIsReleased
<1> USE ActorAssumption DEF Quiet, InStop, InStart, InLoop, Actors, Threads
<1>1. \A a \in Actors : pc[a] \notin InStop \cup InStart
  OBVIOUS
<1>2. CASE state = "running"
  <2>1. PICK l \in Loops : Alive(l)
    BY <1>1, <1>2 DEF Apart, OneLoop
  <2>2. {m \in Loops : Alive(m)} = {l}
    BY <2>1 DEF Apart, OneLoop, Alive
  <2>3. Cardinality({m \in Loops : Alive(m)}) = 1
    BY <2>2, FS_Singleton
  <2>4. socket \in open /\ port[socket] = lastServerPort
    BY <1>1, <1>2 DEF Apart, OpenMatches, PortMatches
  <2> QED BY <1>2, <2>3, <2>4 DEF OperatingIsServed, StoppedIsReleased
<1>3. CASE state # "running"
  BY <1>1, <1>3 DEF Apart, OpenMatches, OperatingIsServed, StoppedIsReleased
<1> QED BY <1>2, <1>3

\* That stop_() met a rate callback is not forgotten.
LEMMA RacedStays == Inv /\ raced /\ [Next]_vars => raced'
<1> SUFFICES ASSUME Inv, raced, [Next]_vars PROVE raced'
  OBVIOUS
<1>1. phase # "served"
  BY DEF Inv, RacedLate
<1>2. ASSUME NEW a \in Actors, Stops(a) \/ Starts(a) PROVE raced'
  BY <1>2 DEF Stops, StopGuard, SetStopping, CloseSocket, SetStopped, Starts, StartGuard,
              SetStarting, Bind, BindFails, Run, Started, Return
<1>3. ASSUME NEW l \in Loops, LoopStep(l) PROVE raced'
  BY <1>3 DEF LoopStep, LoopBegins, LoopReads, Accepts, AcceptFails, LetsGo
<1>4. CASE Serve \/ (\E k \in Callbacks : RateCallback(k))
  BY <1>4 DEF Serve, RateCallback
<1>5. CASE Stop
  BY <1>1, <1>5 DEF Stop
<1>6. CASE UNCHANGED vars
  BY <1>6 DEF vars
<1> QED
  BY <1>2, <1>3, <1>4, <1>5, <1>6 DEF Next

\* When restarts coincide neither with one another nor with the end of a loop, a quiet
\* server that says it operates has one accept loop, on its open socket, at the last
\* port, and one that says it does not holds no socket, until stop_() meets a restart.
THEOREM StateCorrect ==
  ASSUME Overlap \subseteq {"stop"}
  PROVE  Spec => []StateIsTrue
<1> DEFINE ApartInv == Inv /\ (raced \/ Apart)
<1>1. Init => ApartInv
  BY InitInv, InitApart
<1>2. ApartInv /\ [Next]_vars => ApartInv'
  <2> SUFFICES ASSUME ApartInv, [Next]_vars PROVE ApartInv'
    OBVIOUS
  <2>1. Inv'
    BY StepInv
  <2>2. CASE raced
    BY <2>1, <2>2, RacedStays
  <2>3. CASE Apart
    BY <2>1, <2>3, StepApart
  <2> QED BY <2>2, <2>3
<1>3. ApartInv => StateIsTrue
  BY ApartIsTrue DEF StateIsTrue
<1> QED BY <1>1, <1>2, <1>3, PTL DEF Spec

==============================================================================
