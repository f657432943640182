-------------------------- MODULE PlayerDiagnostics --------------------------
(***************************************************************************)
(* diagnostics/PlayerDiagnostics.swift: watches the app's AVPlayer, and    *)
(* rebuilds the item when it fails or stalls (auto-recovery), until it     *)
(* gives up and tells the app.                                             *)
(*                                                                         *)
(* Every handler runs on the main thread and is one action.  The observer  *)
(* of currentItem runs within the change it is told of, so that whoever    *)
(* changes the item runs it in the same step (Takeover and Attach).        *)
(*                                                                         *)
(* Both adapters make it with autoRecover at its default, TRUE, and with a *)
(* listener (AVPlayerAdapter.swift:60, AVQueuePlayerAdapter.swift:53), so  *)
(* the guards on these two are left out.                                   *)
(***************************************************************************)
EXTENDS Integers, FiniteSets

CONSTANTS
  Items,               \* AVPlayerItems; one is reused once nothing refers to it
  WithUrl,             \* those whose asset is an AVURLAsset
  NoItem,
  MaxRecoveryAttempts, \* 3
  ResetInterval,       \* 60 s, in ticks
  StallThreshold       \* 10 s, in ticks

ASSUME ItemAssumption  == NoItem \notin Items /\ WithUrl \subseteq Items
ASSUME LimitAssumption ==
  /\ MaxRecoveryAttempts \in Nat \ {0}
  /\ ResetInterval \in Nat
  /\ StallThreshold \in Nat

VARIABLES
  \* recovery state of PlayerDiagnostics
  isRecovering, recoveryItem, recoveryAttempts, hasReportedUnrecoverable,
  age,                 \* ticks since lastRecoveryTime, Never while it is nil
  stopped,             \* stop() has removed the observers and the watchdog
  \* stall watchdog state
  hasStartedPlaying,
  stallAge,            \* ticks since stallStartedAt, Never while it is nil
  sampled,             \* lastSampledPositionSec is not nil
  \* AVPlayer (external): its item and that item's status, playback, whether the
  \* playhead moved since it was sampled, and seeks not yet completed
  currentItem, status, flow, moved, seeks,
  arpf,                \* FlowerConfig.autoRecoverPlaybackFailure (external)
  \* history of the item in the player: how many onErrors the app got for it,
  \* whether its failure reached a handler, and whether it became ready - in the
  \* player, where it is seen, or ahead of its turn
  told, noticed, loaded,
  \* history of the player: how many onErrors the app got since an item last became
  \* ready in it or a recovery started the count again, and whether any item
  \* became playable since the last recovery began
  reports, healthy

recovery == <<isRecovering, recoveryItem, recoveryAttempts,
              hasReportedUnrecoverable, age>>
watchdog == <<hasStartedPlaying, stallAge, sampled>>
player   == <<currentItem, status, flow, moved, seeks>>
ghosts   == <<told, noticed, loaded, reports, healthy>>
vars == <<recovery, stopped, watchdog, player, arpf, ghosts>>

Never == -1
Statuses == {"unknown", "readyToPlay", "failed"}

CountersOK ==
  /\ recoveryAttempts \in 0..MaxRecoveryAttempts
  /\ age \in Never..(ResetInterval + 1)
  /\ stallAge \in Never..StallThreshold
  /\ told \in 0..2
  /\ reports \in 0..2

TypeOK ==
  /\ CountersOK
  /\ isRecovering \in BOOLEAN
  /\ recoveryItem \in Items \cup {NoItem}
  /\ hasReportedUnrecoverable \in BOOLEAN
  /\ stopped \in BOOLEAN
  /\ hasStartedPlaying \in BOOLEAN
  /\ sampled \in BOOLEAN
  /\ currentItem \in Items \cup {NoItem}
  /\ status \in Statuses
  /\ flow \in {"paused", "waiting", "playing"}
  /\ moved \in BOOLEAN
  /\ seeks \subseteq Items
  /\ arpf \in BOOLEAN
  /\ noticed \in BOOLEAN
  /\ loaded \in {"no", "ahead", "seen"}
  /\ healthy \in BOOLEAN

\* init(player:): the observers are on whatever the player holds.
Init ==
  /\ isRecovering = FALSE
  /\ recoveryItem = NoItem
  /\ recoveryAttempts = 0
  /\ hasReportedUnrecoverable = FALSE
  /\ age = Never
  /\ currentItem \in Items \cup {NoItem}
  /\ stopped = FALSE
  /\ hasStartedPlaying = FALSE
  /\ stallAge = Never
  /\ sampled = FALSE
  /\ status = "unknown"
  /\ flow = "paused"
  /\ moved = FALSE
  /\ seeks = {}
  /\ arpf \in BOOLEAN
  /\ told = 0
  /\ noticed = FALSE
  /\ loaded = "no"
  /\ reports = 0
  /\ healthy = FALSE

------------------------------------------------------------------------------
\* Recovery

\* A newly made AVPlayerItem: nothing refers to it yet.
Fresh(i) == i \in Items \ ({currentItem, recoveryItem} \cup seeks)

\* attachItem(): re-arms the watchdog for a new item.
Attach ==
  IF stopped THEN UNCHANGED watchdog
  ELSE /\ hasStartedPlaying' = FALSE
       /\ stallAge' = Never
       /\ sampled' = FALSE

\* The player's item becomes i, which has status s already.
Enters(i, s) ==
  /\ currentItem' = i
  /\ status' = s
  /\ told' = 0
  /\ noticed' = FALSE
  /\ loaded' = IF s = "readyToPlay" THEN "ahead" ELSE "no"
  /\ Attach

\* reportUnrecoverable(): one onError until the flag is cleared.
ReportUnrecoverable ==
  /\ hasReportedUnrecoverable' = TRUE
  /\ IF hasReportedUnrecoverable
       THEN UNCHANGED <<told, reports>>
       ELSE /\ told' = IF told < 2 THEN told + 1 ELSE told
            /\ reports' = IF reports < 2 THEN reports + 1 ELSE reports

\* The interval since the last recovery has passed: a fresh incident.
Expired  == age > ResetInterval
Attempts == IF Expired THEN 0 ELSE recoveryAttempts

\* A failure while a recovery is in progress counts only if the rebuilt item is
\* the one in the player.
Ignored == isRecovering /\ currentItem # recoveryItem

GiveUp ==
  /\ ~arpf \/ Attempts >= MaxRecoveryAttempts
  /\ isRecovering' = FALSE
  /\ recoveryItem' = NoItem
  /\ ReportUnrecoverable
  /\ UNCHANGED <<recoveryAttempts, age, currentItem, seeks, loaded, healthy>>

\* Mutant: one attempt more than the limit.
StartRecoveryOneMore ==
  /\ arpf
  /\ Attempts <= MaxRecoveryAttempts
  /\ isRecovering' = TRUE
  /\ recoveryAttempts' = Attempts + 1
  /\ hasReportedUnrecoverable' = (hasReportedUnrecoverable /\ ~Expired)
  /\ reports' = IF Expired THEN 0 ELSE reports
  /\ age' = 0
  /\ healthy' = FALSE
  /\ \E i \in Items :
       /\ Fresh(i) /\ i \in WithUrl
       /\ recoveryItem' = i
       /\ Enters(i, "unknown")
       /\ seeks' = seeks \cup {i}

StartRecovery ==
  /\ arpf
  /\ Attempts < MaxRecoveryAttempts
  /\ isRecovering' = TRUE
  /\ recoveryAttempts' = Attempts + 1
  /\ hasReportedUnrecoverable' = (hasReportedUnrecoverable /\ ~Expired)
  /\ reports' = IF Expired THEN 0 ELSE reports
  /\ age' = 0
  /\ healthy' = FALSE
  /\ \E i \in Items :
       /\ Fresh(i) /\ i \in WithUrl
       /\ recoveryItem' = i
       /\ Enters(i, "unknown")
       /\ seeks' = seeks \cup {i}

\* A failure of an item that has no URL to rebuild it from, or one while a
\* recovery is in progress, is only logged.
OnlyLogged == currentItem \notin WithUrl \/ Ignored

\* recoverFromPlaybackFailure(), called for the item in the player, whose status
\* is now st
RecoverFromPlaybackFailure(st) ==
  IF OnlyLogged
    THEN /\ status' = st
         /\ noticed' = TRUE
         /\ UNCHANGED <<recovery, watchdog, currentItem, seeks, told, loaded,
                        reports, healthy>>
    ELSE \/ GiveUp /\ status' = st /\ noticed' = TRUE /\ UNCHANGED watchdog
         \/ StartRecovery

\* Mutant: any completion ends the recovery in progress.
SeekCompletesAny(i) ==
  /\ i \in seeks
  /\ seeks' = seeks \ {i}
  /\ IF isRecovering
       THEN /\ isRecovering' = FALSE
            /\ recoveryItem' = NoItem
            /\ flow' = IF flow = "paused" THEN "waiting" ELSE flow
       ELSE UNCHANGED <<isRecovering, recoveryItem, flow>>
  /\ UNCHANGED <<recoveryAttempts, hasReportedUnrecoverable, age, stopped,
                 watchdog, currentItem, status, moved, arpf, ghosts>>

\* Mutant: the completion counts only once the rebuilt item is ready.
SeekCompletesIfReady(i) ==
  /\ i \in seeks
  /\ seeks' = seeks \ {i}
  /\ IF isRecovering /\ recoveryItem = i /\ status = "readyToPlay"
       THEN /\ isRecovering' = FALSE
            /\ recoveryItem' = NoItem
            /\ flow' = IF flow = "paused" THEN "waiting" ELSE flow
       ELSE UNCHANGED <<isRecovering, recoveryItem, flow>>
  /\ UNCHANGED <<recoveryAttempts, hasReportedUnrecoverable, age, stopped,
                 watchdog, currentItem, status, moved, arpf, ghosts>>

\* The completion of the seek a recovery issued for item i.
SeekCompletes(i) ==
  /\ i \in seeks
  /\ seeks' = seeks \ {i}
  /\ IF isRecovering /\ recoveryItem = i
       THEN /\ isRecovering' = FALSE
            /\ recoveryItem' = NoItem
            /\ flow' = IF flow = "paused" THEN "waiting" ELSE flow
       ELSE UNCHANGED <<isRecovering, recoveryItem, flow>>
  /\ UNCHANGED <<recoveryAttempts, hasReportedUnrecoverable, age, stopped,
                 watchdog, currentItem, status, moved, arpf, ghosts>>

------------------------------------------------------------------------------
\* Observation

\* Mutant: an item that loads does not end the incident.
ItemReadyKeepsReport ==
  /\ currentItem # NoItem
  /\ status = "unknown"
  /\ status' = "readyToPlay"
  /\ loaded' = "seen"
  /\ reports' = 0
  /\ healthy' = TRUE
  /\ UNCHANGED <<recovery, stopped, watchdog, currentItem, flow, moved, seeks, arpf,
                 told, noticed>>

ItemReady ==
  /\ currentItem # NoItem
  /\ status = "unknown"
  /\ status' = "readyToPlay"
  /\ hasReportedUnrecoverable' = (hasReportedUnrecoverable /\ stopped)
  /\ loaded' = "seen"
  /\ reports' = 0
  /\ healthy' = TRUE
  /\ UNCHANGED <<isRecovering, recoveryItem, recoveryAttempts, age, stopped,
                 watchdog, currentItem, flow, moved, seeks, arpf, told, noticed>>

\* status -> failed.  Observed with [.new]: a status the item already had when
\* it entered the player is not seen.
ItemFails ==
  /\ currentItem # NoItem
  /\ status # "failed"
  /\ IF stopped
       THEN /\ status' = "failed"
            /\ UNCHANGED <<recovery, watchdog, currentItem, seeks, ghosts>>
       ELSE RecoverFromPlaybackFailure("failed")
  /\ UNCHANGED <<stopped, flow, moved, arpf>>

\* AVPlayerItemFailedToPlayToEndTime, once or repeatedly
ItemFailedToPlayToEnd ==
  /\ currentItem # NoItem
  /\ status # "unknown"
  /\ ~stopped
  /\ RecoverFromPlaybackFailure(status)
  /\ UNCHANGED <<stopped, flow, moved, arpf>>

------------------------------------------------------------------------------
\* Stall watchdog

\* checkStall(), every two seconds.  flow = "waiting" stands for
\* waitingToPlayAtSpecifiedRate, toMinimizeStalls and an empty buffer; an item
\* plays once it is ready.
CheckStallGuard == ~stopped /\ arpf /\ ~isRecovering /\ currentItem # NoItem
Playing  == flow = "playing" /\ status = "readyToPlay"
Started  == hasStartedPlaying \/ Playing
Advanced == ~sampled \/ moved

\* Mutant: the playhead of this sample is not kept.
SampledForgotten(stall) ==
  /\ hasStartedPlaying' = Started
  /\ UNCHANGED sampled
  /\ stallAge' = stall

Sampled(stall) ==
  /\ hasStartedPlaying' = Started
  /\ sampled' = TRUE
  /\ stallAge' = stall

Sample ==
  /\ CheckStallGuard
  /\ moved' = Playing

CheckStallMoving ==
  /\ Sample
  /\ ~(Started /\ flow = "waiting") \/ Advanced
  /\ Sampled(Never)
  /\ UNCHANGED <<recovery, stopped, currentItem, status, flow, seeks, arpf, ghosts>>

CheckStallBegins ==
  /\ Sample
  /\ Started /\ flow = "waiting" /\ ~Advanced
  /\ stallAge = Never
  /\ Sampled(0)
  /\ UNCHANGED <<recovery, stopped, currentItem, status, flow, seeks, arpf, ghosts>>

CheckStallPersists ==
  /\ Sample
  /\ Started /\ flow = "waiting" /\ ~Advanced
  /\ stallAge \in 0..(StallThreshold - 1)
  /\ Sampled(stallAge)
  /\ UNCHANGED <<recovery, stopped, currentItem, status, flow, seeks, arpf, ghosts>>

\* The recovery may put another item in place, and then the watchdog is re-armed.
CheckStallRecovers ==
  /\ Sample
  /\ Started /\ flow = "waiting" /\ ~Advanced
  /\ stallAge >= StallThreshold
  /\ IF currentItem \in WithUrl
       THEN \/ StartRecovery
            \/ GiveUp /\ noticed' = TRUE /\ Sampled(Never) /\ UNCHANGED status
       ELSE /\ noticed' = TRUE
            /\ Sampled(Never)
            /\ UNCHANGED <<recovery, currentItem, status, seeks, told, loaded,
                           reports, healthy>>
  /\ UNCHANGED <<stopped, flow, arpf>>

CheckStall == \/ CheckStallMoving \/ CheckStallBegins
              \/ CheckStallPersists \/ CheckStallRecovers

\* stop()
Stop ==
  /\ ~stopped
  /\ stopped' = TRUE
  /\ UNCHANGED <<recovery, watchdog, player, arpf, ghosts>>

------------------------------------------------------------------------------
\* The player, the app and the clock.

\* Mutant: a takeover by the app is not noticed.
TakeoverUnnoticed == UNCHANGED <<isRecovering, recoveryItem>>

\* The observer of currentItem: an item other than the rebuilt one taking over
\* ends the recovery; an emptied player does not.
Takeover ==
  IF stopped THEN UNCHANGED <<isRecovering, recoveryItem>>
  ELSE isRecovering' = FALSE /\ recoveryItem' = NoItem

\* The app replaces the item, or the queue advances to one that it may have
\* loaded - or failed to load - ahead of its turn.
AppReplaces(i, s) ==
  /\ Fresh(i)
  /\ Enters(i, s)
  /\ Takeover
  /\ UNCHANGED <<recoveryAttempts, hasReportedUnrecoverable, age, stopped, flow,
                 moved, seeks, arpf>>
  /\ healthy' = (healthy \/ s = "readyToPlay")
  /\ UNCHANGED reports

AppClears ==
  /\ currentItem # NoItem
  /\ currentItem' = NoItem
  /\ status' = "unknown"
  /\ told' = 0
  /\ noticed' = FALSE
  /\ loaded' = "no"
  /\ UNCHANGED <<recovery, stopped, watchdog, flow, moved, seeks, arpf, reports,
                 healthy>>

FlowChanges(f) ==
  /\ f # flow
  /\ f = "playing" => currentItem # NoItem /\ status = "readyToPlay"
  /\ flow' = f
  /\ moved' = (moved \/ f = "playing")
  /\ UNCHANGED <<recovery, stopped, watchdog, currentItem, status, seeks, arpf,
                 ghosts>>

ConfigArrives ==
  /\ arpf' = ~arpf
  /\ UNCHANGED <<recovery, stopped, watchdog, player, ghosts>>

Tick ==
  /\ age' = IF age \in 0..ResetInterval THEN age + 1 ELSE age
  /\ stallAge' = IF stallAge \in 0..(StallThreshold - 1) THEN stallAge + 1
                                                         ELSE stallAge
  /\ UNCHANGED <<isRecovering, recoveryItem, recoveryAttempts,
                 hasReportedUnrecoverable, stopped,
                 hasStartedPlaying, sampled, player, arpf, ghosts>>

Next ==
  \/ ItemReady
  \/ ItemFails
  \/ ItemFailedToPlayToEnd
  \/ CheckStall
  \/ Stop
  \/ AppClears
  \/ ConfigArrives
  \/ Tick
  \/ \E f \in {"paused", "waiting", "playing"} : FlowChanges(f)
  \/ \E i \in Items : SeekCompletes(i)
  \/ \E i \in Items, s \in Statuses : AppReplaces(i, s)

\* AVFoundation completes every seek, the watchdog's timer keeps firing and time
\* passes.  Items need neither load nor fail.
Fairness ==
  /\ \A i \in Items : WF_vars(SeekCompletes(i))
  /\ WF_vars(CheckStall)
  /\ WF_vars(Tick)

Spec == Init /\ [][Next]_vars
FairSpec == Spec /\ Fairness

------------------------------------------------------------------------------
(***************************************************************************)
(* Properties                                                              *)
(***************************************************************************)

\* A recovery in progress always has the rebuilt item it waits for, and that
\* item's seek completion still to come: no recovery is left that nothing ends,
\* with every later failure ignored as "already recovering".
RecoveryCanEnd ==
  /\ isRecovering <=> recoveryItem # NoItem
  /\ isRecovering => recoveryItem \in seeks

\* One onError per incident, and one per dead item, however often it raises its
\* failure again: an incident lasts until an item becomes ready in the player or a
\* recovery starts the count again.
OneErrorPerIncident == reports <= 1 /\ told <= 1

\* An item with a URL whose failure reached a handler and that stays in the player
\* does not stay in silence: the app has had the onError of its incident, and
\* that was about this very item if it had become ready in the player.  (An item
\* that the app puts in after an onError and that fails before it is ready
\* belongs to the same incident: the app is not told again.)
NoSilentDeath ==
  noticed /\ currentItem \in WithUrl
    => reports = 1 /\ (loaded = "seen" => told = 1)

\* The incident of a dead item with a URL is reported, and not only logged, and once.
DeathReportedOnce == NoSilentDeath /\ OneErrorPerIncident

\* No failure of the item in the player is swallowed as "already recovering":
\* while a recovery is in progress, the player holds its rebuilt item or none.
NothingSwallowed ==
  ~stopped /\ isRecovering => currentItem \in {recoveryItem, NoItem}

\* A recovery in progress is the one of the item in the player, and can end.
RecoveryIsLive == RecoveryCanEnd /\ NothingSwallowed

\* A rebuilt item that is still being sought to its place is the recovery in
\* progress, until its failure reaches a handler: nothing that is left of an
\* earlier attempt - its seek, its item - makes the player go on, or the watchdog
\* sample it, before it is in place.
SoughtIsRecovering ==
  currentItem \in seeks /\ ~noticed => isRecovering

\* No recovery lasts for ever: it ends, by the completion of its seek at the latest
\* and whether the item ever loads or not, or the item fails and another attempt
\* takes over.
RecoveryEnds == []<>~isRecovering \/ []<><<recoveryItem' # recoveryItem>>_vars

\* A prolonged stall of a player that had been playing an item with a URL is not
\* left alone.
Stalling ==
  /\ flow = "waiting" /\ hasStartedPlaying /\ ~moved
  /\ currentItem \in WithUrl
  /\ arpf /\ ~stopped /\ ~isRecovering /\ ~hasReportedUnrecoverable
StallIsHandled == ~<>[]Stalling

\* "An item that loads is the end of the incident, whether recovery or the host
\* app produced it, so the next unrecoverable failure reports again" (comment in
\* attachItem): an item that had loaded, in the player or ahead of its turn,
\* failed and stays in the player has been reported to the app.
LoadedItemEndsIncident ==
  noticed /\ loaded # "no" /\ currentItem \in WithUrl => told > 0

\* Every dead item is reported itself, whatever was reported before it, and
\* whether it has a URL or not.
DeadItemReported == noticed => told > 0

\* "If playback stayed healthy this long since the last recovery, the next
\* failure is treated as a fresh incident and the attempt counter resets" (the
\* comment on recoveryAttemptResetInterval): a recovery does not start the count
\* again unless the last rebuilt item had become playable.
ResetMeansHealthy ==
  [][recoveryItem' \notin {recoveryItem, NoItem}
       => recoveryAttempts' > recoveryAttempts \/ healthy]_vars
==============================================================================
