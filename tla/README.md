# Flower SDK for iOS: a TLA+ model

This directory specifies the parts of the SDK that hold its state and its
concurrency: how an ad break takes the app's player and gives it back, how a
player that fails is recovered, how content waits for its pre-roll, how the
socket to the second screen is kept alive, how nonces are handed out, and how the
local server that the streams go through is brought back. TLC checks each part on a
small instance; TLAPS proves their safety, and the refinement of both ad players, for
every value of their constants. `PROJECT.json` gives, for every definition, the lines it stands for.

The parsing, layout and advertising rules of the product live in a binary Kotlin
framework (`Frameworks/sdk_core.xcframework`) which calls the Swift classes of
`Sources/FlowerSdk`. Everything below is about these classes. Line numbers are of
the files under `src/Sources/FlowerSdk`.

## 1. The system

| Component | File | State | Operations | Correct when |
|---|---|---|---|---|
| Ad player, one item | `player/AdAvPlayerImpl.swift` | the list of a break (`mediaUrls`, `durations`, `adCount`, `currentIndex`), what it displaced (`original*`), the prepared first ad, `adItemsAttached`, `isAdPlaying`, observers on the item | `load`, `play`, `stop`, `returnToContent`, `enqueueNextItem`, `removeNextItem`, `playNextItem`, `pause`, `resume` | the content is never lost, leaves only for a break that was asked for, and comes back at its place and speed; a failed ad is reported |
| Ad player, a queue | `player/AdPlayerImpl.swift` | the same, with one item per ad in an `AVQueuePlayer` and a turn counter (`endedAdItemCount`, `failedAdItems`) | the same | the content waits behind the ads; a failure is reported exactly when its ad's turn comes |
| Diagnostics | `diagnostics/PlayerDiagnostics.swift` | `isRecovering`, `recoveryItem`, `recoveryAttempts`, `lastRecoveryTime`, `hasReportedUnrecoverable`; the stall watchdog | observers of item, status, failure; a two second timer; the completion of the recovery's seek; `stop` | a recovery ends; a dead item is recovered, or its incident is reported, once; a stall is noticed |
| Content player | `api/FlowerAVPlayer.swift` | `adConfig`, `changedChannelUrl`, `prerollPrepared`, `playFlag`; listeners it leaves with the ads manager | `replaceCurrentItem`, `setAdConfig`, `play`, the recovery hook, `onPrepare`, `onCompleted` | the last item asked for is the one that plays, after its pre-roll, once |
| Message communicator | `ads/tv/MessageCommunicatorImpl.swift` | `task`, `listeners`, `intentionallyClosed`, `reconnectAttempts`, `isReconnecting`, `currentAccessKey` | `connect`, `close`, listeners, the receive loop, delegate callbacks, the reconnect timer | one socket, one timer; `close()` is final; a wanted connection is retried |
| PAL nonces | `pal/GooglePalManagerImpl.swift` | `nonceLoaders`, `nonceManagers`, `nonceDelegates` by transaction, under a lock; `hasFired` of each delegate | `loadNonce`, `send*`, `release`, the PAL delegate | one callback per request, in the end; a nonce that was handed out is usable until `release`; nothing left after it |
| Player adapters | `media/*Adapter*.swift` | a playlist that shadows the player's queue, KVO observers | the media player interface of the core | the shadow follows the player; observers are balanced |
| Ad UI | `ads/view/FlowerAdUIViewImpl.swift` | which button is shown for which ad | `show*`, `hide*` | what was asked for last is shown |
| Ad view of the player | `player/AdPlayerViewImpl.swift` | layers | show, hide | UIKit effects only |
| Manipulation server | `proxy/ManipulationServerImpl.swift`, `helpers/swifter` | `state` and `socket` of the server, `lastServerPort`, the rate observer; no lock | `serve`, `stop_`, the rate callback, the accept loop | the state tells what listens; a server whose loop died comes back; `stop_` is final |
| Device, store, cache | `device`, `cache` | an identifier, key-value pairs, files | load or create, set | one identifier |
| Entry points, IMA view, factories, bridging | `api`, `ima`, `util` | wiring | | |
| Kotlin core, vendored libraries | `Frameworks`, `helpers/DeviceKit`, `helpers/FingerprintJS` | not in the repository, or not its own code | | |

**How they interact.** The core calls an ad player's methods from threads of its
own. Each method does part of its work at once (`isAdPlaying`, `loadJob`) and
dispatches the rest to the main thread, where the notifications of AVFoundation
also arrive. `stop()` waits for its block, or runs at once when it is called on the
main thread, ahead of blocks that were dispatched before it. The ad player and the
app share one `AVPlayer`; the diagnostics watch the same player and replace a
failed item - an ad, too - with a fresh one. `FlowerAVPlayer` *is* that player, and
is also a client of the ads manager: it adds listeners that the manager calls on
its own thread. The communicator is separate: one serial queue, a `URLSession`. So
are the PAL manager - called by the core's threads, the main thread and PAL's - and
the server, whose `start()` and `stop()` run on the core's thread, on whichever thread
AVFoundation reports the player's rate, and at the end of an accept loop.

**What is hard.** Blocks that run after what they were meant for is over; seeks and
notifications of an item that has been replaced; the counter, the list and the
queue of a break that must move together; a recovery racing the next failure and
the app; two threads in `onPrepare()`; a reconnect racing `close()` and `connect()`; a
delegate that is called twice or after `release`; a restart of the server inside its stop.
`PROJECT.json` lists each at its line under `hazards`.

## 2. The modules

One module per component. `MC…` modules add what TLC needs (symmetry, the app's
queue), `…_proofs` hold theorems. Bounds are constants, named in the modules.

### `MessageCommunicator`
The class touches its fields only in blocks of its serial queue (line 8 on), so a
block is one action. Blocks that the app enqueues keep their order (`calls`);
blocks that callbacks and `asyncAfter` enqueue are pending in `loop`, `opened`,
`closed` and `timers` until they run, in any order. `DoConnect` and
`ScheduleReconnect` are the private methods. `loop[t]` is how far the receive loop
of task `t` has come: `armed` waits for the socket, `message`/`rearm`/`failed` are
blocks that wait for the queue. URLSession is external: a socket opens, dies with
or without a close frame, carries messages. The delay is abstracted to "later"; the
attempt counter stays. A key for which `URL(string:)` fails ends the retries - the
code does (line 41) - and `urlRejected` remembers it.

### `PlayerDiagnostics`
Handlers run on the main thread: one action each. The observer of `currentItem`
runs inside the change, so `Takeover` and `Attach` are part of whichever action
changes the item. A clock (`Tick`) ages `lastRecoveryTime` (`age`) and
`stallStartedAt` (`stallAge`); both stop at the first value beyond their limit, which
is all the code compares. Items are reused once nothing refers to them, so the model
has no bound on the number of recoveries. `CheckStall` has its four outcomes
(moving, stall begins, persists, recovers); `StartRecovery`, `GiveUp` and
`ReportUnrecoverable` follow `recoverFromPlaybackFailure`, and `OnlyLogged` is its early
returns that report nothing: an item whose asset has no URL (`WithUrl` are the others) and a
failure of another item during a recovery. The app replaces and
clears items at any time, with items that have any status already. `reports` counts the
`onError` of the present incident, which ends when an item becomes ready in the player or the
attempts start again from zero; `told` counts those about the item in the player, and
`loaded` says whether that became ready there, or before it entered, or not.

### `AdAvPlayer` and `AdQueuePlayer`
`queue` holds the blocks on the main thread. `Load`, `Play`, `Stop`, `Return…`, … are
the calls, with what they do on the caller's thread; `RunLoad`, `RunPlay`, … are the
blocks. `StopOnMain` and `ReturnOnMain` are the calls made on the main thread, which
overtake the queue. An item carries what the code attaches to it: whether its end and
its failure are observed, the seek or start that waits for its readiness. Positions
are steps and speeds are 0, 1 and `FastRate`. In `AdQueuePlayer` the queue advances by
itself (`Advance`), so that an observer of `currentItem` runs in the step that advances
it. `External` says whose player it is. `DiagnosticsSwap` and `RecoverySwaps` are what
the diagnostics do to an item of the break.

The core (external) is `caller`: it loads, waits, plays, edits, stops. Which of
these it may do when is not in the repository, so the modules have the parameter
`Cases`: each case adds an order of calls - a load while a block of the last break
waits (`pending`) or while content is still coming back (`returning`), a second stop
(`again`), a stop of a break that was never played (`unplayed`), the end of the content
with a break loaded (`outro`), pauses, edits, swaps. A property is checked with the
cases in which it holds, and section 5 says for the others what happens.

History variables: `owed` is what the displaced content is entitled to (place, speed),
set when a break displaces content and cleared when it is back or the app gives up;
`ended` (the ads whose own item ended), `skipped` (those skipped in whichever item),
`reportedAd`, `failed`, `reported`, `stopped`, `asked` record what happened to the break. No action of the code reads them.

### `AdBreak`
What both ad players promise to the content they interrupt, without items, queues or
threads: a break is asked for and begins; content that plays is displaced and kept, comes
back, and shows the place and the speed it is owed. `AdAvPlayer` and `AdQueuePlayer` each
say how their state stands for it (`Break == INSTANCE AdBreak WITH ...`): where the content
is (`ContentNow`), what it is owed (`DueNow`) and what it shows (`ShownNow`). Content that
is neither in the player nor recorded is `"lost"`, which no state of `AdBreak` is, so that
`ImplementsAdBreak` (its `Spec`, and its type) also says that content cannot be lost. An
item of a longer queue is only promised to come back (`exact`), because of the loop at
`AdPlayerImpl.swift:518`.

### `FlowerAVPlayer`
The app's calls are the actions `ReplaceWithConfig`, `Replace`, `ReplaceWithoutConfig`,
`ReplaceNil`, `SetAdConfig`, `Play` and `ReplaceCurrentItemForRecovery`; `Kinds` is what an
item may be asked for with. The ads manager is external: one break at a time, listeners
called in order on another thread (`calls`). `onPrepare()` of the pre-roll is two actions,
`OnPrepareReads` and `OnPrepareActs`, because it reads `playFlag` and then writes
`prerollPrepared` off the main thread. `onCompleted()` and `onPrerollCompleted()` dispatch
blocks (`queue`): the replacement, and `play()` behind it. Content is named by the number of
the call that asked for it. A break completes (`BreakCompletes`), or it fails or is skipped
at any time (`BreakFails`): `onError()` and `onAdBreakSkipped()` have empty bodies, so the
listener stays and nothing else happens. `failed` remembers that this happened while the
pre-roll of what was asked for last was to come, `overtaken` that something without a
pre-roll was asked for while the listener of a pre-roll was with the ads manager, one left
behind by a failure included; the promises to the last request end there (section 5).

### `GooglePalManager`
The registry is three dictionaries under one lock, so an action is what one thread does
up to its next lock or callback: `loadNonce` hops to the main thread (`LoadNonce`), where
the block enters loader and delegate (`Register`) and then starts the loader
(`StartLoader`); a call of PAL on the delegate goes through `Claim`, `StoreManager` or
`DropLoader`, and `CallBack`. Any number of calls of one delegate may be under way. The
registry's reference to a delegate is the one that keeps it alive (`Alive`), but for calls
under way. `send*` looks the manager up on the caller's thread and drives it on the main
thread. A request is one call of `loadNonce`; two of them may carry one transaction.

### `ManipulationServer`
Nothing is under a lock here, so an action is one access to the shared state: the guard
and the two assignments of `stop()`, the close between them; the guard, the assignments
and the `bind` of `start()`; the read of the socket and the end of `accept()` in a loop.
`pc` says where each thread is. Any thread that is in `start()` runs the `stop()` inside it.
`accept()` may fail at any time, as it does when the app was suspended; a probe or a `bind`
may fail (`Faults`). A socket that nothing refers to is closed (`LetsGo`, `Bind`). `Overlap`
says what a rate callback may coincide with: another one (`callback`), the `stop()` of a loop
that ends (`ending`), and a `stop_()` that is called while it is under way (`stop`), which
`raced` remembers.

## 3. The runs

| Run | Size | States | What it shows |
|---|---|---|---|
| `communicator` | 2 tasks, 2 keys (one refused), 1 waiting call, cap 2 | 648,864 | Safety, and `LostIsRetried`, over all orders of blocks, callbacks and timers. Two tasks give every meeting of an old connection with a new one; a call reads nothing the one behind it could add |
| `diagnostics` | 4 items, 3 of them with a URL, 3 attempts, interval 1, threshold 1 | 481,280 | No failure is swallowed, one `onError` for the incident of a dead item with a URL, no rebuilt item that is sought outside its recovery. Three items are the one in the player, one that still has a seek to complete, and a fresh one; the fourth has no URL. Three attempts is the code's own number. `RecoveryEnds` and `StallIsHandled` under fairness |
| `diagnostics_slow` | violation | | `ResetMeansHealthy`, section 5 |
| `av_player` | 2 ads, breaks of 2, 3 list entries, 2 waiting blocks | 61,805 | `ImplementsAdBreak` through breaks one by one, `BreakPlaysOut` under fairness. Two ads are a first, which the code treats specially, and a later one; two blocks are enough for any pair to be reordered by a stop on the main thread |
| `av_player_edited` | the same, with edits, second stops, unplayed breaks | 2,053,665 | The tables and the index of the list; a stop is final, also one that overtakes the blocks that were to load and play its break |
| `queue_player` | 2 ads before 1 or 2 content items, swaps | 1,141,881 | `ImplementsAdBreak`, and that the content waits behind the ads |
| `queue_player_hand_back` | 3 ads before 1 content item, swaps, unplayed breaks, second stops, late skips | 1,253,663 | A stop is final, ads play at normal speed, and a failed ad is reported once the ad before it has ended in its own item: with three ads that one can be behind one that was swapped, skipped or dropped |
| `queue_player_own` | 3 ads, 2 list entries while ads are added, a player of its own; pauses, edits, blocks of earlier breaks | 75,181 | Progress, and that no ad before a reported one is still to play, where there is no content. Three ads let one fail behind two that end, are skipped or are removed in any order |
| `flower_player` | 3 items of all kinds, taken away and rebuilt, 1 break in the content, breaks that fail | 1,134,651 | Each pre-roll hands over once, `play()` behind it; unless its own pre-roll fails, the last request wins and an early `play()` is answered, the latter under fairness. Three items: one in the player, one whose pre-roll completes or fails, one asked for on top |
| `pal` | 2 requests with a transaction each, 2 delegate calls each, 2 waiting blocks | 171,170 | One answer per request, a usable nonce, a final release; `EveryRequestAnswered` under fairness. Two calls of a delegate are all a race for the claim needs; requests of different transactions share only the main queue |
| `server` | 2 rate threads, 2 loops, 2 sockets, all faults, stops while a callback is under way | 3,075 | The state tells what listens, and a stop is final, unless `stop_()` met a callback; `DeadServerRestarts` under fairness. Two of each are an old one that is not gone yet and a new one |
| `server_overlap` | violation | | `DeadServerRestarts`, section 5 |

Each run takes at most three minutes or so. Deadlock is checked in all of them but
`server`, where a server that has been stopped for good is the end. Every property of a
passing run has a mutant in the module, commented `Mutant:`, that is a plausible slip in the
code and breaks it: the property is not true by the shape of the model.

**Fairness.** A dispatch queue runs every block it is given, and a timer that is
scheduled fires: weak fairness of the blocks (`RunCall`, `RunMain`, `TimerBlock`,
`CheckStall`). AVFoundation completes each seek, finished or not: `SeekCompletes`. A
receive on a dead socket fails: `ReceiveFails`. A break that does not fail is prepared and,
once it plays, completes (`AdsManager`); failures are outside the fair actions, at any time
and in any number. In `AdAvPlayer` an item that loads becomes ready or fails and an
item that plays ends. Nothing is assumed of the app, of the network, or of whether an
item ever loads in `PlayerDiagnostics`; `StallIsHandled` is about items with a URL. PAL calls a delegate that is still there at least once
(`PalAnswers`), and a thread that is inside the registry goes on. A thread inside
`start()` or `stop()` runs on, `accept()` on a closed socket returns, and a viewer who waits
for a stream starts the player again (`RateCallback`): the last is what
`DeadServerRestarts` asks of the viewer, and the only thing that brings the server back.

## 4. The proofs

Eight modules hold theorems, `SequenceLemmas` those about sequences. They hold for any sets
of tasks, keys, items, requests, transactions, threads, sockets and ads, any limits, and any
number of items and breaks, from the assumptions named in the modules (`NoTask` is no task,
`None` is no item, the limits are naturals). TLC's sizes and bounds are of no account there.

Each has an inductive invariant (`Inv`; the ad players have one in several parts), a
lemma that `Init` implies it and one that each step keeps it, with a step per action. Lemmas
such as `DoConnectFacts` and `StartRecoveryFacts` say what a private method leaves behind, and
are cited by each action that calls it. The properties are not inductive alone:

- **Communicator** (`Invariance`, `TypeCorrect`, `CloseCorrect`, `SocketCorrect`,
  `RetryCorrect`). The parts of `OneLiveSocket` need that a failed receive or a close frame
  stands only for a socket that is dead (`DeadSocketFacts`), or dropping the task would leave
  a live one. `RetryIsArmed` needs that a closed connection is not wanted
  (`ClosedIsUnwanted`), or `scheduleReconnect()` refusing to act would abandon it.
- **Diagnostics** (`Invariance`, `TypeCorrect`, `RecoveryCorrect`, `ReportCorrect`,
  `SeekCorrect`). That the incident of a dead item is reported, once, needs that the report flag
  is what the app was told in this incident (`FlagIsTrue`) and that it stays up as long as the
  dead item is there (`DeadStaysReported`), which in turn needs that the
  watchdog only acts on an item that has become ready (`ArmedOnReady`): otherwise the item
  could still become ready after the report and clear the flag. That a rebuilt item is only
  sought as the recovery in progress needs that until it has failed the seek that is left of it
  is the one that recovery waits for (`SoughtIsAwaited`).
- **PAL** (`Invariance`, `TypeCorrect`, `CallbackOnce`, `NonceUsable`, `ReleaseCorrect`). Of
  the calls of a delegate one passes `claim()` (`OneWinner`), and a request registers once
  because its block is on the main queue once (`MainMatches`). `StoredIsUsable` says of the
  step before the callback what `AnswerIsUsable` says of the callback; `EndedAnswered` lets
  a release that comes last leave nothing.
- **Server** (`Invariance`, `TypeCorrect`, `StopCorrect`, `StateCorrect`). `Inv` says who may
  be inside `start()`. `StopCorrect` has no assumption: whatever overlaps, once the core stops
  nobody is inside `start()` but callbacks that were there before, and if there were any the
  stop is `raced` (`StopIsLast`, `RacedLate`). `StateIsTrue` is proved for
  `Overlap \subseteq {"stop"}` from `Apart`: one `start()` at a
  time, without a stop or an accept loop beside it until it is done, as long as nothing raced.
  Section 5 shows that the assumption is needed, and what a raced stop leaves.
- **One-item ad player** (`TypeCorrect` for all constants; `TablesCorrect` from `Undisturbed`;
  `StopCorrect` from `StopCases`; the others from `InTurn`, the cases of the run `av_player`:
  `InTurnCorrect`, `SpeedCorrect`, `FailureCorrect`, `BreakCorrect`). `InTurnInv` ties the blocks that wait for the main thread to
  how far the core is (`QueueMatches`: one block of each kind, a stop behind its play;
  `CallerMatches`), the item in the player to the list (`AttachedMatches`), and the displaced
  content to what was recorded of it (`OwedMatches`); `AtRest` says that nothing of the last
  break is to come when the next is on its way - without it a late seek would break
  `AdsAtNormalSpeed`, as it does with the case `returning`.
  **`BreakCorrect` is the refinement**: `Spec => ImplementsAdBreak`. `InitAbs` maps initial states,
  `StepAbs` each step to a step of `AdBreak` or a stutter, action by action: `Play` asks
  for a break, its block displaces the content (`Begin`), `stop()` clears the player, the end of
  the last ad or the block of a return puts the content back (`Return`), the completion of its
  seek shows its place and speed (`Resume`).
  `TablesCorrect` is about the list alone and holds with edits, in either player, of every
  case but `pending` and `outro`. `TablesInv` needs to know when the ads are attached
  (`EntryMatches`): the core edits a list that is attached, and until then its first entry is
  the prepared ad. That a `play()` which waits behind a stop finds nothing prepared, and a return
  nothing attached (`StoppedMatches`), is what keeps another item from taking the entry's place.
  `StopCorrect` builds on it, for second stops and breaks that were never played: an ad is only
  in the player of a break that is attached and that no `load()` block is to replace
  (`AdsAttached`), and the content comes last in its list (`ContentLast`), so that a stop that
  overtakes its own `load()` and `play()` leaves nothing that could bring an ad back.
- **Ad player with a queue** (`TypeCorrect` and `TurnCorrect` for all constants,
  `ProgressCorrect` for a player of its own, in all cases; `StopCorrect`, `SpeedCorrect` and
  `FailureCorrect` from `InTurn`, which leaves out edits, `pending`, `returning` and `rebuild`;
  `ContentCorrect` also without late skips, `InOrder`). `TurnInv` says that the ads in the queue
  are in the order of the break, behind every ad that was reported, that ended or whose end has a
  block that waits, and that nothing of an ad waits before they are attached. `CallInv` says
  which blocks may wait at each place of the core (`StopMatches`: one stop, and what it left).
  `QueueInv` is about the queue: the ads are in front, and as long as one is left the length of
  the queue says so to the observer, which runs inside the step that advances it
  (`AdsInFront`, `QueueAdvances`); while a break is on its way no seek of
  `returnToContent()` is still to set a speed (`NoneReturns`). `ContentWaits` follows the
  interrupted item by its name, in the queue or in what was recorded of the app's list.
  `FailureInv` pairs what happened with the blocks that tell of it: an ad that ended in its own
  item is counted or its block waits (`EndsAreCounted`), and a failed ad that is next is reported, or the end
  before it has a block that waits and will report it (`FailuresReported`).
  **`BreakCorrect` is the refinement**, for the cases of the run `queue_player` (`OneByOne`: breaks
  one by one, with swaps). Its invariant `BreakInv` adds two parts to `TypeInv`, `CallInv`,
  `QueueInv` and `ContentWaits`. `AskInv` says how far the core has asked for the break, and that
  a block of `play()` comes before that of `stop()` (`InSequence`): otherwise the stop would act
  on a break that has not displaced anything. `PlaceInv` says where the content is and how fast it
  goes: the first content of the queue is the one that is owed (`FrontIsOwed`), what is recorded
  of it is its place and speed until it is in the queue (`RecordMatches`), an item in the queue is
  at that place or has the seek that takes it there (`PlaceMatches`), the speed changes with the
  content and not with an ad in front of it (`SpeedMatches`), and no seek is left when the next
  break takes the queue (`Settled`). `View` is what the state looks like to `AdBreak`; `InitAbs`
  and `StepAbs` map the initial states and the steps, with a lemma for each kind of step (`AbsCore`,
  `AbsMain`, `AbsPlayerStep`). The proof is also why `ContentNow` decides first whether there is an
  item in front: its cases used to overlap, which TLC resolves by their order and logic does not.
- **Content player** (`Invariance`, `TypeCorrect`, `HandOverCorrect`, `WaitCorrect`,
  `RequestCorrect`, for all cases). A pre-roll passes through stages - a listener, a call of
  it, the block of `onCompleted()`, the block that replaces the item, the player - and
  `Pipeline` says that they keep the order they were asked for within a stage and between
  stages. So the block at the head of the queue is of an id that was not placed before.
  `Where` says what a put off `play()` waits for (`PrepareOnItsWay`), that a break that is
  asked for has a listener of its own (`RequestHasListener`), and that the item asked for last
  is in the pipeline or in the player (`LastIsUnderway`), each until the pre-roll fails
  (`BreakFailsStep`); `PrerollOnItsWay` and `LastRequestWins` follow. `TypeCorrect` includes that listeners do not pile up: there is at
  most one for each item asked for, because the midroll's listener of a VOD item is added
  after the pre-roll's has been removed (`ListenersBound` counts the blocks of `onCompleted()`
  that are between the two).

Every invariant and action property of the passing runs is a theorem, for at least the cases of
its run, but for `StopIsFinal` of `av_player_edited`, which is proved without the edits. Only model-checked is liveness (temporal reasoning under fairness is out of the
prover's reach). What the ad players do in the cases a theorem leaves out is in section 5.

## 5. Where the code departs from what it says

Two runs show a disagreement with a comment of the code (`findings` in `PROJECT.json`):

- `diagnostics_slow`: the attempts are reset because time has passed, not because
  playback was healthy (`PlayerDiagnostics.swift:338`, against 78): an item that takes
  longer than the interval to fail is retried without end.
- `server_overlap`: a rate callback that restarts the server after its `stop()` closed
  the socket (`HttpServerIO.swift:111`) and before it assigned `stopped` (112) leaves a
  server that does not operate with its port taken, and no restart recovers from that
  (against `ManipulationServerImpl.swift:132`, which takes `operating` for the whole answer).

The same modules show the following when the configuration of the run is changed as
given. They are why the run excludes the case.

| Run, change | Property violated | Where and what |
|---|---|---|
| `diagnostics`, add the invariant | `DeadItemReported` | `PlayerDiagnostics.swift:398`: after an `onError`, an item that the app puts in and that fails before it is ready is not reported; and line 317: the death of an item without a URL is only logged |
| `diagnostics`, add the invariant | `LoadedItemEndsIncident` | `PlayerDiagnostics.swift:201`: with `[.new]` alone an item that was ready before it entered the player does not clear `hasReportedUnrecoverable` (comment at 209) |
| `av_player`, add the invariant | `FirstFailureReported` | `AdAvPlayerImpl.swift:169`: the failure of the *first* ad of a break is not reported, because only `playItem` watches an item for failure (comment at 327) |
| `av_player`, `Cases = {"outro"}` | `ImplementsAdBreak` | `AdAvPlayerImpl.swift:306`: the end of the content, observed since the last break, advances into a break that is only loaded |
| `av_player`, `Cases = {"unplayed"}` | `ImplementsAdBreak` | `AdAvPlayerImpl.swift:229`: `stop()` of a loaded break empties the app's player |
| `av_player`, `Cases = {"returning"}` | `AdsAtNormalSpeed`, `ImplementsAdBreak` | `AdAvPlayerImpl.swift:466`: the completion of the content's seek sets the app's speed on an ad |
| `av_player`, `Cases = {"pending"}` | `ImplementsAdBreak` | `AdAvPlayerImpl.swift:187`: a stop before the block of `play()` is ignored, and the next load forgets what the block displaced |
| `av_player`, `Edits = TRUE` | `ImplementsAdBreak`, `AdsAtNormalSpeed`, `LaterFailureReported` | `AdAvPlayerImpl.swift:488` and `496`: an ad that is enqueued goes behind the content that is displaced, and neither it nor a removal moves `adCount`; the content counts as an ad, or an ad as content |
| `av_player`, `Cases = {"again"}` | `ImplementsAdBreak` | as for `unplayed`: a second `stop()` after the break is over empties the player |
| `av_player`, add the invariant, `Cases = {"pending"}`, `{"returning"}` or `{"outro"}` | `StopIsFinal` | `AdAvPlayerImpl.swift:151`: the break finds an ad of the one before in the player and displaces it as though it were content; `returnToContent()` brings that ad back after the stop (with `Edits`, `StopIsFinal` leaves such an ad out) |
| `queue_player_hand_back`, add the invariant | `FailureReportedAfterSwap` | `AdPlayerImpl.swift:154`: the end of an item that the diagnostics put in for an ad is not counted, and no later failure is reported (comment at 115) |
| `queue_player_hand_back`, add the invariant | `FailureReportedAfterSkip` | `AdPlayerImpl.swift:488`: a skip does not count the ad, and no later failure is reported |
| `queue_player`, `DueNow` with `exact` TRUE for every queue | `ImplementsAdBreak` | `AdPlayerImpl.swift:518`: one observation for several items, so the interrupted one is not sought |
| `queue_player`, `Cases = {"pause"}` | `ImplementsAdBreak` | `AdPlayerImpl.swift:295`: reached at rate 0 the content does not get its speed back |
| `queue_player`, `Cases = {"rebuild"}`, `Playlist <- OneContent` | `ContentBehindAds` | `PlayerDiagnostics.swift:369`: recovery of an ad in a plain `AVQueuePlayer` removes all items, also the content that waits behind the ads (comment at `AdPlayerImpl.swift:566`) |
| `queue_player`, `Cases = {"edit"}`, 3 ads, 1 content item | `ContentBehindAds` | `AdPlayerImpl.swift:614`: an index of the whole break is used in what is left of the queue |
| `queue_player`, `Cases = {"unplayed"}` or `{"again"}` | `ImplementsAdBreak` | `AdPlayerImpl.swift:345`: the same `releasePlayer()` |
| `queue_player`, `Cases = {"late"}` | `ContentBehindAds`, `ImplementsAdBreak` | `AdPlayerImpl.swift:488`: a skip that comes as the last ad ends skips the content |
| `queue_player`, `Cases = {"returning"}` | `ContentBehindAds`, `ImplementsAdBreak` | the next break displaces content that has not come back, and the blocks and seeks of the first still run |
| `queue_player_hand_back`, `Cases = {"pending"}` | `StopIsFinal`, `AdsAtNormalSpeed` | a stop before the block of `play()` does nothing, as in `av_player` |
| `queue_player_own`, `External = TRUE`, `MaxList = 4`, `Playlist <- TwoContents`, `Cases = {}` | `ProgressInRange` | `AdPlayerImpl.swift:408`: when the app refills its queue after the ads, the index is negative |
| `flower_player`, add the invariant, `Cases = {"race"}` | `PreparedPrerollPlays` | `FlowerAVPlayer.swift:131`: a `play()` between the read of `playFlag` and the write of `prerollPrepared` is lost (comment at 94) |
| `flower_player`, add the invariant | `RecoveredIsPlayable` | `FlowerAVPlayer.swift:160`: content rebuilt while it waits with `prerollPrepared` true needs another `play()` (comment at 32) |
| `flower_player`, add the property | `PlaysWithoutAds` | `FlowerAVPlayer.swift:83`: without a configuration the item is not put in the player (message at 82) |
| `flower_player`, add the invariant | `ContentAfterFailure` | `FlowerAVPlayer.swift:165`: after a pre-roll that failed or was skipped (`onError()`, `onAdBreakSkipped()`: empty) its content is not put in the player; the listener left behind does so when a later break completes |
| `flower_player`, add the invariant | `PlayAfterFailure` | the same lines: `prerollPrepared` stays false, and `play()` is put off with nothing on its way, so that an early `play()` is not answered either |
| `flower_player`, the two properties without `~overtaken` | `PrerollOnItsWay`, `LastRequestWins` | `FlowerAVPlayer.swift:231`: a channel without a pre-roll leaves `prerollPrepared` false and the earlier listener in place; no text says what the app may expect |
| `pal`, `Requests = {r3}`, `Calls = {1}`, add the invariant | `NothingAfterRelease` | `GooglePalManagerImpl.swift:118`: a release before the block of `loadNonce`, or between a claim and line 94, is followed by entries that nobody removes |
| `server`, `Overlap = {"callback"}` | `StateIsTrue`, `DeadServerRestarts` | `ManipulationServerImpl.swift:140`: two rate callbacks that both find the server not operating both start it |
| `server`, `Overlap = {"ending"}` | `StateIsTrue` | `HttpServerIO.swift:112`: as in `server_overlap` |
| `server`, add the invariant | `StopIsFinalForAll` | `ManipulationServerImpl.swift:186`: `stop_()` does not wait for a rate callback, which starts the server it has stopped |
| `server`, `Faults = {"bind"}`, add the invariant | `AdvertisedIsServed` | `ManipulationServerImpl.swift:151`: after a first `bind` that failed, a restart takes port 0, any port, while the player was given the probed one |

## 6. What is not modelled

- Wording, layout, logging and measurement: `heartbeat`, access and error logs, `getSize`,
  view layers.
- Torn reads of fields that the core's threads read while the main thread writes
  (`isAdPlaying`, `currentIndex`): the calls interleave, single accesses are atomic.
- `seekTo()` of the ad players, which moves the playhead of the ad and nothing else.
- The core's decisions: which break, when; its timeouts. The modules take its calls in
  every order the cases allow.
- Content and ads whose asset is not an `AVURLAsset`, in the ad players: they would be
  displaced without being recorded (`AdAvPlayerImpl.swift:151`, `AdPlayerImpl.swift:246`).
- `PlayerDiagnostics` made without recovery or without a listener: its makers in the SDK
  pass a listener and `autoRecover` keeps its default (`AVPlayerAdapter.swift:60`,
  `AVQueuePlayerAdapter.swift:53`).
- The block with which `release()` of the PAL manager keeps a removed delegate alive until the
  main queue has run (`GooglePalManagerImpl.swift:153`): a delegate may only live longer by it.
- A second app player, and the same break in two ad players: each ad player has one.
- Connections of the server: `handleConnection`, routing and parsing; the handler is the
  core's. The port that `findFreePort` reads from `sin_port` is in network byte order and
  `tcpSocketForListen` turns it once more: some number that is the same in `serve()`'s
  address and in the `bind`, and the model has it as one (`FreePort`).
- The adapters (`media`), `FlowerAdUIViewImpl` and the device service: which of their
  calls the core makes, in which order and on which thread, decides whether anything can
  go wrong there, and that is in the binary core. The views, factories, cache files and
  wiring hold no state whose order matters; vendored code and the binary core are not
  the repository's.

## 7. Plan

What is left, in this order:

1. The composition of `FlowerAVPlayer` with an ad player: `releasePlayer()` calls
   `replaceCurrentItem(with: nil)` on it, which stops the ads manager
   (`AdPlayerImpl.swift:345`), and with the diagnostics, whose recovery hook it overrides.
2. The connections of the server.
3. `AVPlayerAdapter`, `AVQueuePlayerAdapter` and `FlowerAdUIView`, once the order and the
   threads of the core's calls are known.
