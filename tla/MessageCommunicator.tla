------------------------- MODULE MessageCommunicator -------------------------
(***************************************************************************)
(* ads/tv/MessageCommunicatorImpl.swift: the web socket over which a TV    *)
(* app hears that a viewer clicked an ad on a second screen.               *)
(*                                                                         *)
(* Everything the class keeps is touched by blocks of one serial dispatch  *)
(* queue, so each block is one action.  Blocks enqueued by the app keep    *)
(* their order (calls); a block enqueued by a URLSession callback or by    *)
(* asyncAfter is ordered only after what the same thread enqueued before,  *)
(* and is pending in loop, opened, closed or timers until it runs.         *)
(***************************************************************************)
EXTENDS Naturals, Sequences, FiniteSets

CONSTANTS
  Tasks,      \* web socket tasks; one is reused once nothing refers to it
  NoTask,
  Keys,       \* access keys the server hands out in "welcome"
  NoKey,
  BadKeys,    \* keys that make URL(string:) refuse the reconnect address
  Listeners,
  MaxAttemptForBackoff, \* 5 in the code; the delay itself is not modelled
  MaxCalls    \* bound on the app's calls waiting on the queue

ASSUME TaskAssumption == NoTask \notin Tasks
ASSUME KeyAssumption  == NoKey \notin Keys /\ BadKeys \subseteq Keys
ASSUME BoundAssumption == MaxCalls \in Nat /\ MaxAttemptForBackoff \in Nat \ {0}

VARIABLES
  \* fields of MessageCommunicatorImpl
  task, listeners, intentionallyClosed, reconnectAttempts, isReconnecting,
  currentAccessKey,
  \* blocks waiting on its queue
  calls,      \* enqueued by the app, and by close() itself
  timers,     \* asyncAfter blocks of scheduleReconnect that have not run
  loop,       \* the receive loop of each task, with the block it waits for
  heard,      \* the message whose block is waiting, per task
  opened, closed, \* tasks whose didOpen / didClose block is waiting
  \* URLSession (external)
  net,
  \* history: what the app asked for, and whether the last address was refused
  wanted, urlRejected

own   == <<task, listeners, intentionallyClosed, reconnectAttempts,
           isReconnecting, currentAccessKey>>
pending == <<calls, timers, loop, heard, opened, closed>>
ghosts == <<wanted, urlRejected>>
vars  == <<own, pending, net, ghosts>>

CallKinds  == {"connect", "close", "clear", "add", "remove"}
Call(k, l) == [kind |-> k, listener |-> l]
Calls      == [kind : CallKinds, listener : Listeners]

Messages  == [type : {"welcome"}, key : Keys] \cup [type : {"click", "other"}]
NoMessage == [type |-> "none"]

TypeOK ==
  /\ task \in Tasks \cup {NoTask}
  /\ listeners \subseteq Listeners
  /\ intentionallyClosed \in BOOLEAN
  /\ reconnectAttempts \in 0..MaxAttemptForBackoff
  /\ isReconnecting \in BOOLEAN
  /\ currentAccessKey \in Keys \cup {NoKey}
  /\ calls \in Seq(Calls)
  /\ timers \in Nat
  /\ loop \in [Tasks -> {"idle", "armed", "message", "rearm", "failed"}]
  /\ heard \in [Tasks -> Messages \cup {NoMessage}]
  /\ opened \subseteq Tasks
  /\ closed \subseteq Tasks
  /\ net \in [Tasks -> {"connecting", "open", "closed"}]
  /\ wanted \in BOOLEAN
  /\ urlRejected \in BOOLEAN

Init ==
  /\ task = NoTask
  /\ listeners = {}
  /\ intentionallyClosed = FALSE
  /\ reconnectAttempts = 0
  /\ isReconnecting = FALSE
  /\ currentAccessKey = NoKey
  /\ calls = <<>>
  /\ timers = 0
  /\ loop = [t \in Tasks |-> "idle"]
  /\ heard = [t \in Tasks |-> NoMessage]
  /\ opened = {}
  /\ closed = {}
  /\ net = [t \in Tasks |-> "closed"]
  /\ wanted = FALSE
  /\ urlRejected = FALSE

------------------------------------------------------------------------------
\* Operations the blocks are made of.

\* A task object nothing refers to any more: URLSession would allocate a new one.
Fresh(t) ==
  /\ t # task
  /\ net[t] = "closed"
  /\ loop[t] = "idle"
  /\ t \notin opened \cup closed

\* doConnect(): the address carries the access key; when URL(string:) refuses
\* it the method returns and nothing is retried.
DoConnect ==
  IF currentAccessKey \in BadKeys
    THEN /\ urlRejected' = TRUE
         /\ UNCHANGED <<task, net, loop>>
    ELSE \E t \in Tasks :
           /\ Fresh(t)
           /\ task' = t
           /\ net' = [net EXCEPT ![t] = "connecting"]
           /\ loop' = [loop EXCEPT ![t] = "armed"]
           /\ urlRejected' = FALSE

MinOf(a, b) == IF a < b THEN a ELSE b

\* Mutant: the attempt counter is not capped.
ScheduleReconnectUncapped ==
  IF intentionallyClosed \/ isReconnecting
    THEN UNCHANGED <<isReconnecting, reconnectAttempts, timers>>
    ELSE /\ isReconnecting' = TRUE
         /\ reconnectAttempts' = reconnectAttempts + 1
         /\ timers' = timers + 1

\* scheduleReconnect()
ScheduleReconnect ==
  IF intentionallyClosed \/ isReconnecting
    THEN UNCHANGED <<isReconnecting, reconnectAttempts, timers>>
    ELSE /\ isReconnecting' = TRUE
         /\ reconnectAttempts' = MinOf(reconnectAttempts + 1, MaxAttemptForBackoff)
         /\ timers' = timers + 1

------------------------------------------------------------------------------
\* The app.  Each public method only enqueues a block (queue.async).
AppCall(c) ==
  /\ Len(calls) < MaxCalls
  /\ calls' = Append(calls, c)
  /\ UNCHANGED <<own, timers, loop, heard, opened, closed, net, ghosts>>

NextCallIs(k) == calls # <<>> /\ Head(calls).kind = k

\* connect()
ConnectBlock ==
  /\ NextCallIs("connect")
  /\ calls' = Tail(calls)
  /\ intentionallyClosed' = FALSE
  /\ wanted' = TRUE
  /\ IF task # NoTask
       THEN UNCHANGED <<task, net, loop, urlRejected>>
       ELSE DoConnect
  /\ UNCHANGED <<listeners, reconnectAttempts, isReconnecting,
                 currentAccessKey, timers, heard, opened, closed>>

\* close().  clearMessageListeners() enqueues a block of its own, behind what
\* the app has called since.  The peer may or may not answer the close frame.
CloseBlock ==
  /\ NextCallIs("close")
  /\ calls' = Append(Tail(calls), Call("clear", Head(calls).listener))
  /\ intentionallyClosed' = TRUE
  /\ wanted' = FALSE
  /\ task' = NoTask
  /\ currentAccessKey' = NoKey
  /\ IF task = NoTask
       THEN UNCHANGED <<net, closed>>
       ELSE /\ net' = [net EXCEPT ![task] = "closed"]
            /\ closed' \in {closed, closed \cup {task}}
  /\ UNCHANGED <<listeners, reconnectAttempts, isReconnecting, timers, loop,
                 heard, opened, urlRejected>>

\* addMessageListener, removeMessageListener and clearMessageListeners
ListenerBlock ==
  /\ NextCallIs("add") \/ NextCallIs("remove") \/ NextCallIs("clear")
  /\ calls' = Tail(calls)
  /\ LET c == Head(calls)
     IN  listeners' = CASE c.kind = "add"    -> listeners \cup {c.listener}
                        [] c.kind = "remove" -> listeners \ {c.listener}
                        [] OTHER             -> {}
  /\ UNCHANGED <<task, intentionallyClosed, reconnectAttempts, isReconnecting,
                 currentAccessKey, timers, loop, heard, opened, closed, net,
                 ghosts>>

------------------------------------------------------------------------------
TimerFields == <<listeners, intentionallyClosed, reconnectAttempts,
                 currentAccessKey, calls, heard, opened, closed, wanted>>

\* Mutant: the timer does not look at intentionallyClosed.
TimerBlockAfterClose ==
  /\ timers > 0
  /\ timers' = timers - 1
  /\ isReconnecting' = FALSE
  /\ IF task # NoTask
       THEN UNCHANGED <<task, net, loop, urlRejected>>
       ELSE DoConnect
  /\ UNCHANGED TimerFields

\* Mutant: the timer does not look for a task that connect() made meanwhile.
TimerBlockOverTask ==
  /\ timers > 0
  /\ timers' = timers - 1
  /\ isReconnecting' = FALSE
  /\ IF intentionallyClosed
       THEN UNCHANGED <<task, net, loop, urlRejected>>
       ELSE DoConnect
  /\ UNCHANGED TimerFields

\* Mutant: the timer leaves isReconnecting set.
TimerBlockKeepsFlag ==
  /\ timers > 0
  /\ timers' = timers - 1
  /\ IF intentionallyClosed \/ task # NoTask
       THEN UNCHANGED <<task, net, loop, urlRejected>>
       ELSE DoConnect
  /\ UNCHANGED <<isReconnecting, TimerFields>>

\* The block of scheduleReconnect, run when its delay has passed.
TimerBlock ==
  /\ timers > 0
  /\ timers' = timers - 1
  /\ isReconnecting' = FALSE
  /\ IF intentionallyClosed \/ task # NoTask
       THEN UNCHANGED <<task, net, loop, urlRejected>>
       ELSE DoConnect
  /\ UNCHANGED TimerFields

\* handleIncoming(): the block a "welcome" or a "click.event" enqueues.  It does
\* not look at which task it came from.
MessageBlock(t) ==
  /\ loop[t] = "message"
  /\ loop' = [loop EXCEPT ![t] = "rearm"]
  /\ heard' = [heard EXCEPT ![t] = NoMessage]
  /\ IF heard[t].type = "welcome"
       THEN currentAccessKey' = heard[t].key
       ELSE UNCHANGED currentAccessKey
  /\ UNCHANGED <<task, listeners, intentionallyClosed, reconnectAttempts,
                 isReconnecting, calls, timers, opened, closed, net, ghosts>>

\* receiveLoop(): the block after a received message
RearmBlock(t) ==
  /\ loop[t] = "rearm"
  /\ loop' = [loop EXCEPT ![t] = IF task = t THEN "armed" ELSE "idle"]
  /\ UNCHANGED <<own, calls, timers, heard, opened, closed, net, ghosts>>

\* Mutant: a failed receive drops the task and leaves the retry to didClose.
FailedBlockNoRetry(t) ==
  /\ loop[t] = "failed"
  /\ loop' = [loop EXCEPT ![t] = "idle"]
  /\ task' = IF task = t THEN NoTask ELSE task
  /\ UNCHANGED <<listeners, intentionallyClosed, reconnectAttempts, isReconnecting,
                 currentAccessKey, calls, timers, heard, opened, closed, net, ghosts>>

\* receiveLoop(): the block after a failed receive
FailedBlock(t) ==
  /\ loop[t] = "failed"
  /\ loop' = [loop EXCEPT ![t] = "idle"]
  /\ IF task = t
       THEN task' = NoTask /\ ScheduleReconnect
       ELSE UNCHANGED <<task, isReconnecting, reconnectAttempts, timers>>
  /\ UNCHANGED <<listeners, intentionallyClosed, currentAccessKey, calls,
                 heard, opened, closed, net, ghosts>>

\* urlSession(_:webSocketTask:didOpenWithProtocol:)
DidOpenBlock(t) ==
  /\ t \in opened
  /\ opened' = opened \ {t}
  /\ reconnectAttempts' = 0
  /\ UNCHANGED <<task, listeners, intentionallyClosed, isReconnecting,
                 currentAccessKey, calls, timers, loop, heard, closed, net,
                 ghosts>>

\* urlSession(_:webSocketTask:didCloseWith:reason:)
DidCloseBlock(t) ==
  /\ t \in closed
  /\ closed' = closed \ {t}
  /\ task' = IF task = t THEN NoTask ELSE task
  /\ ScheduleReconnect
  /\ UNCHANGED <<listeners, intentionallyClosed, currentAccessKey, calls,
                 loop, heard, opened, net, ghosts>>

------------------------------------------------------------------------------
\* URLSession.  A socket opens or does not, carries messages while it is open,
\* and dies with or without a close frame; a receive outstanding on a dead
\* socket fails.
SocketOpens(t) ==
  /\ net[t] = "connecting"
  /\ net' = [net EXCEPT ![t] = "open"]
  /\ opened' = opened \cup {t}
  /\ UNCHANGED <<own, calls, timers, loop, heard, closed, ghosts>>

SocketDies(t) ==
  /\ net[t] # "closed"
  /\ net' = [net EXCEPT ![t] = "closed"]
  /\ closed' \in {closed} \cup
       (IF net[t] = "open" THEN {closed \cup {t}} ELSE {})
  /\ UNCHANGED <<own, calls, timers, loop, heard, opened, ghosts>>

ReceiveSucceeds(t, m) ==
  /\ net[t] = "open"
  /\ loop[t] = "armed"
  /\ IF m.type = "other"      \* unparseable or unknown: no block of its own
       THEN loop' = [loop EXCEPT ![t] = "rearm"] /\ UNCHANGED heard
       ELSE /\ loop' = [loop EXCEPT ![t] = "message"]
            /\ heard' = [heard EXCEPT ![t] = m]
  /\ UNCHANGED <<own, calls, timers, opened, closed, net, ghosts>>

ReceiveFails(t) ==
  /\ net[t] = "closed"
  /\ loop[t] = "armed"
  /\ loop' = [loop EXCEPT ![t] = "failed"]
  /\ UNCHANGED <<own, calls, timers, heard, opened, closed, net, ghosts>>

------------------------------------------------------------------------------
RunCall == ConnectBlock \/ CloseBlock \/ ListenerBlock

RunEvent(t) == \/ MessageBlock(t)
               \/ RearmBlock(t)
               \/ FailedBlock(t)
               \/ DidOpenBlock(t)
               \/ DidCloseBlock(t)

Next ==
  \/ \E c \in Calls : AppCall(c)
  \/ RunCall
  \/ TimerBlock
  \/ \E t \in Tasks :
       \/ RunEvent(t)
       \/ SocketOpens(t)
       \/ SocketDies(t)
       \/ ReceiveFails(t)
       \/ \E m \in Messages : ReceiveSucceeds(t, m)

\* A dispatch queue runs every block it was given, and URLSession fails a
\* receive outstanding on a dead socket.  Nothing makes the network work.
Fairness ==
  /\ WF_vars(RunCall)
  /\ WF_vars(TimerBlock)
  /\ \A t \in Tasks : WF_vars(MessageBlock(t)) /\ WF_vars(RearmBlock(t))
  /\ \A t \in Tasks : WF_vars(FailedBlock(t)) /\ WF_vars(ReceiveFails(t))
  /\ \A t \in Tasks : WF_vars(DidOpenBlock(t)) /\ WF_vars(DidCloseBlock(t))

Spec == Init /\ [][Next]_vars
FairSpec == Spec /\ Fairness

------------------------------------------------------------------------------
(***************************************************************************)
(* Properties                                                              *)
(***************************************************************************)

\* isReconnecting stands for exactly one pending asyncAfter block of
\* scheduleReconnect: a second one would be two connection attempts, none
\* while the flag is set would be no attempt ever again.
OneTimerPerFlag == timers = IF isReconnecting THEN 1 ELSE 0

\* After close() nothing reconnects: neither a timer armed before it, nor the
\* didClose or failure of the socket it cancelled, leaves a task behind.
ClosedStaysClosed == intentionallyClosed => task = NoTask

\* The current task always has its receive loop alive - a receive outstanding
\* or a block waiting that will arm or retire it - so its death is noticed.
CurrentTaskIsHeard == \A t \in Tasks : task = t => loop[t] # "idle"

\* No socket is live but the current one: connect(), the timer and close()
\* never drop a task they did not cancel.
NoOrphanSocket == \A t \in Tasks : net[t] # "closed" => task = t

\* The only live socket is the one that is listened to.
OneLiveSocket == CurrentTaskIsHeard /\ NoOrphanSocket

\* While the app wants the connection there is one, or a reconnect is pending;
\* the only thing that gives it up is an address URL(string:) refuses.
NeverAbandoned ==
  wanted => task # NoTask \/ isReconnecting \/ urlRejected

\* Exactly the retry that is needed is armed.
RetryIsArmed == OneTimerPerFlag /\ NeverAbandoned

\* A lost connection the app still wants is attempted again.
LostIsRetried ==
  (wanted /\ task = NoTask) ~> (task # NoTask \/ ~wanted \/ urlRejected)
==============================================================================
