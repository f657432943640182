---------------------- MODULE MessageCommunicator_proofs ----------------------
(***************************************************************************)
(* Proofs about MessageCommunicator, for any tasks, keys and listeners.    *)
(*                                                                         *)
(* The safety properties are inductive together once two facts are added:  *)
(* a receive only fails, and a close frame only arrives, on a socket that  *)
(* is already dead; and a closed connection is no longer wanted.           *)
(***************************************************************************)
EXTENDS MessageCommunicator, TLAPS

DeadSocketFacts ==
  \A t \in Tasks : loop[t] = "failed" \/ t \in closed => net[t] = "closed"

\* close() withdraws the wish as it sets the flag.
ClosedIsUnwanted == intentionallyClosed => ~wanted

Inv ==
  /\ TypeOK
  /\ OneTimerPerFlag
  /\ ClosedStaysClosed
  /\ CurrentTaskIsHeard
  /\ NoOrphanSocket
  /\ NeverAbandoned
  /\ DeadSocketFacts
  /\ ClosedIsUnwanted

LEMMA InitInv == Init => Inv
<1> SUFFICES ASSUME Init PROVE Inv
  OBVIOUS
<1>1. calls \in Seq(Calls)
  BY DEF Init
<1>2. timers \in Nat /\ reconnectAttempts \in 0..MaxAttemptForBackoff
  BY BoundAssumption DEF Init
<1>3. OneTimerPerFlag
  BY DEF Init, OneTimerPerFlag
<1> QED
  BY <1>1, <1>2, <1>3, TaskAssumption
     DEF Init, Inv, TypeOK, ClosedStaysClosed, CurrentTaskIsHeard,
         NoOrphanSocket, NeverAbandoned, DeadSocketFacts,
            ClosedIsUnwanted

\* What the queue holds is well formed, so what is left of it is too.
LEMMA HeadTail ==
  ASSUME NEW q \in Seq(Calls), q # <<>>
  PROVE  /\ Head(q) \in Calls
         /\ Tail(q) \in Seq(Calls)
  OBVIOUS

\* What doConnect() leaves behind when there was no task: a current task with
\* its receive loop armed, or no task and a refused address.
LEMMA DoConnectFacts ==
  ASSUME Inv, task = NoTask, DoConnect
  PROVE  /\ task' \in Tasks \cup {NoTask}
         /\ net' \in [Tasks -> {"connecting", "open", "closed"}]
         /\ loop' \in [Tasks -> {"idle", "armed", "message", "rearm", "failed"}]
         /\ urlRejected' \in BOOLEAN
         /\ task' # NoTask \/ urlRejected'
         /\ CurrentTaskIsHeard'
         /\ NoOrphanSocket'
         /\ \A t \in Tasks : loop'[t] = "failed" \/ t \in closed => net'[t] = "closed"
<1> USE TaskAssumption DEF Inv, TypeOK, CurrentTaskIsHeard, NoOrphanSocket,
                           DeadSocketFacts
<1>1. CASE currentAccessKey \in BadKeys
  BY <1>1 DEF DoConnect
<1>2. CASE currentAccessKey \notin BadKeys
  <2>1. PICK t \in Tasks : /\ Fresh(t)
                           /\ task' = t
                           /\ net' = [net EXCEPT ![t] = "connecting"]
                           /\ loop' = [loop EXCEPT ![t] = "armed"]
                           /\ urlRejected' = FALSE
    BY <1>2 DEF DoConnect
  <2>2. /\ \A u \in Tasks : net'[u] = IF u = t THEN "connecting" ELSE "closed"
        /\ \A u \in Tasks : loop'[u] = IF u = t THEN "armed" ELSE loop[u]
    BY <2>1
  <2> QED BY <2>1, <2>2 DEF Fresh
<1> QED BY <1>1, <1>2

\* scheduleReconnect() leaves one timer pending unless the app closed the
\* connection, and never two.
LEMMA ScheduleReconnectFacts ==
  ASSUME Inv, ScheduleReconnect
  PROVE  /\ isReconnecting' \in BOOLEAN
         /\ reconnectAttempts' \in 0..MaxAttemptForBackoff
         /\ timers' \in Nat
         /\ timers' = IF isReconnecting' THEN 1 ELSE 0
         /\ intentionallyClosed \/ isReconnecting'
<1> USE BoundAssumption DEF Inv, TypeOK
<1>1. CASE intentionallyClosed \/ isReconnecting
  BY <1>1 DEF ScheduleReconnect, OneTimerPerFlag
<1>2. CASE ~intentionallyClosed /\ ~isReconnecting
  <2>1. timers = 0
    BY <1>2 DEF OneTimerPerFlag
  <2>2. reconnectAttempts' \in 0..MaxAttemptForBackoff
    BY <1>2 DEF ScheduleReconnect, MinOf
  <2>3. isReconnecting' = TRUE /\ timers' = 1
    BY <1>2, <2>1 DEF ScheduleReconnect
  <2> QED BY <2>2, <2>3
<1> QED BY <1>1, <1>2

LEMMA StepInv == Inv /\ [Next]_vars => Inv'
<1> SUFFICES ASSUME Inv, [Next]_vars PROVE Inv'
  OBVIOUS
<1> USE TaskAssumption DEF Inv, OneTimerPerFlag, ClosedStaysClosed, CurrentTaskIsHeard,
            NoOrphanSocket, NeverAbandoned, DeadSocketFacts,
            ClosedIsUnwanted,
            own, pending, ghosts
<1>1. ASSUME NEW c \in Calls, AppCall(c) PROVE Inv'
  BY <1>1 DEF AppCall, TypeOK
<1>2. CASE ConnectBlock
  <2>1. Tail(calls) \in Seq(Calls)
    BY <1>2, HeadTail DEF ConnectBlock, NextCallIs, TypeOK
  <2>2. CASE task # NoTask
    BY <1>2, <2>1, <2>2 DEF ConnectBlock, TypeOK
  <2>3. CASE task = NoTask
    <3>1. DoConnect
      BY <1>2, <2>3 DEF ConnectBlock
    <3> QED BY <1>2, <2>1, <2>3, <3>1, DoConnectFacts DEF ConnectBlock, TypeOK
  <2> QED BY <2>2, <2>3
<1>3. CASE CloseBlock
  <2>1. calls' \in Seq(Calls)
    <3>1. Head(calls) \in Calls /\ Tail(calls) \in Seq(Calls)
      BY <1>3, HeadTail DEF CloseBlock, NextCallIs, TypeOK
    <3>2. Call("clear", Head(calls).listener) \in Calls
      BY <3>1 DEF Call, Calls, CallKinds
    <3> QED BY <1>3, <3>1, <3>2 DEF CloseBlock
  <2>2. CASE task = NoTask
    BY <1>3, <2>1, <2>2 DEF CloseBlock, TypeOK
  <2>3. CASE task # NoTask
    BY <1>3, <2>1, <2>3 DEF CloseBlock, TypeOK
  <2> QED BY <2>2, <2>3
<1>4. CASE ListenerBlock
  <2>1. Head(calls) \in Calls /\ Tail(calls) \in Seq(Calls)
    BY <1>4, HeadTail DEF ListenerBlock, NextCallIs, TypeOK
  <2>2. listeners' \subseteq Listeners
    BY <1>4, <2>1 DEF ListenerBlock, TypeOK, Calls
  <2> QED BY <1>4, <2>1, <2>2 DEF ListenerBlock, TypeOK
<1>5. CASE TimerBlock
  <2>1. timers' = 0 /\ isReconnecting' = FALSE
    BY <1>5 DEF TimerBlock, TypeOK
  <2>a. OneTimerPerFlag' /\ timers' \in Nat
    BY <2>1
  <2>2. CASE intentionallyClosed \/ task # NoTask
    BY <1>5, <2>1, <2>a, <2>2 DEF TimerBlock, TimerFields, TypeOK
  <2>3. CASE ~intentionallyClosed /\ task = NoTask
    <3>1. DoConnect
      BY <1>5, <2>3 DEF TimerBlock
    <3> QED BY <1>5, <2>1, <2>a, <2>3, <3>1, DoConnectFacts DEF TimerBlock, TimerFields, TypeOK
  <2> QED BY <2>2, <2>3
<1>6. ASSUME NEW t \in Tasks, RunEvent(t) PROVE Inv'
  <2>1. CASE MessageBlock(t)
    <3>1. currentAccessKey' \in Keys \cup {NoKey}
      BY <2>1, KeyAssumption DEF MessageBlock, TypeOK, Messages, NoMessage
    <3> QED BY <2>1, <3>1 DEF MessageBlock, TypeOK
  <2>2. CASE RearmBlock(t)
    BY <2>2 DEF RearmBlock, TypeOK
  <2>3. CASE FailedBlock(t)
    <3>1. CASE task = t
      BY <2>3, <3>1, ScheduleReconnectFacts DEF FailedBlock, TypeOK
    <3>2. CASE task # t
      BY <2>3, <3>2 DEF FailedBlock, TypeOK
    <3> QED BY <3>1, <3>2
  <2>4. CASE DidOpenBlock(t)
    BY <2>4, BoundAssumption DEF DidOpenBlock, TypeOK
  <2>5. CASE DidCloseBlock(t)
    BY <2>5, ScheduleReconnectFacts DEF DidCloseBlock, TypeOK
  <2> QED BY <1>6, <2>1, <2>2, <2>3, <2>4, <2>5 DEF RunEvent
<1>7. ASSUME NEW t \in Tasks, SocketOpens(t) \/ SocketDies(t) PROVE Inv'
  BY <1>7 DEF SocketOpens, SocketDies, TypeOK
<1>8. ASSUME NEW t \in Tasks, ReceiveFails(t) PROVE Inv'
  BY <1>8 DEF ReceiveFails, TypeOK
<1>9. ASSUME NEW t \in Tasks, NEW m \in Messages, ReceiveSucceeds(t, m) PROVE Inv'
  BY <1>9 DEF ReceiveSucceeds, TypeOK
<1>10. CASE UNCHANGED vars
  BY <1>10 DEF vars, TypeOK
<1> QED
  BY <1>1, <1>2, <1>3, <1>4, <1>5, <1>6, <1>7, <1>8, <1>9, <1>10
     DEF Next, RunCall

THEOREM Invariance == Spec => []Inv
<1>1. Init => Inv
  BY InitInv
<1>2. Inv /\ [Next]_vars => Inv'
  BY StepInv
<1> QED
  BY <1>1, <1>2, PTL DEF Spec

\* Every field keeps its type, and the backoff counter its range, whatever the
\* order of calls, callbacks and timers.
THEOREM TypeCorrect == Spec => []TypeOK
  BY Invariance, PTL DEF Inv

\* close() is final until the next connect().
THEOREM CloseCorrect == Spec => []ClosedStaysClosed
  BY Invariance, PTL DEF Inv

\* The connection in use has a receive loop, and no other socket is live.
THEOREM SocketCorrect == Spec => []OneLiveSocket
  BY Invariance, PTL DEF Inv, OneLiveSocket

\* One pending timer per isReconnecting, always, and a wanted connection is never
\* dropped without it.
THEOREM RetryCorrect == Spec => []RetryIsArmed
<1>1. Inv => RetryIsArmed
  BY DEF Inv, RetryIsArmed
<1> QED
  BY <1>1, Invariance, PTL
==============================================================================
