------------------------------ MODULE AdAvPlayer ------------------------------
(***************************************************************************)
(* player/AdAvPlayerImpl.swift: plays an ad break on a single-item         *)
(* AVPlayer, the app's own (External) or one it makes.  In the app's       *)
(* player the ads displace the content, which has to come back.            *)
(*                                                                         *)
(* The caller (the Kotlin core, external) is a thread of its own.  What it *)
(* hands to the main thread is a block in the queue; what it does itself   *)
(* happens in the step that calls.                                         *)
(***************************************************************************)
EXTENDS Integers, Sequences, SequencesExt

CONSTANTS
  Ads, Content,        \* media URLs: the ads', and the app's content, whose asset
                       \* is an AVURLAsset (any other is displaced unrecorded)
  None,
  External,            \* the ads play in the app's player
  Edits,               \* the caller edits the list of a break that plays
  Cases,               \* what may happen besides breaks that are loaded, played
                       \* and over one by one: a break is loaded while a block is
                       \* "pending" or content "returning"; it is stopped "again"
                       \* when it is over, or still "unplayed"; the content comes
                       \* to its end ("outro") with the next break loaded
  Rewind, StartPos,    \* returnRewindMs; how far the app had played (in steps)
  FastRate,            \* a playback speed other than normal, 1
  MaxAds, MaxList, MaxBlocks  \* bounds: ads of a break, entries of mediaUrls,
                              \* blocks waiting for the main thread

ASSUME UrlAssumption == Content \notin Ads
ASSUME ModeAssumption ==
  /\ {External, Edits} \subseteq BOOLEAN
  /\ Cases \subseteq {"pending", "returning", "again", "unplayed", "outro"}
ASSUME PositionAssumption == Rewind \in Nat /\ StartPos \in Nat
ASSUME RateAssumption == FastRate \in Nat \ {0, 1}

VARIABLES
  \* AdAvPlayerImpl; prepared is the first of adPlayerItems, the only one played
  isAdPlaying, hasPlayer, mediaUrls, durations, originalMediaUrls,
  originalPosition, originalRate, adCount, currentIndex, prepared, adItemsAttached,
  \* the AVPlayer (external): its item, its rate, and the seeks of items it no
  \* longer holds whose completion is still to run
  item, rate, stale,
  queue,               \* blocks dispatched to the main thread
  caller,              \* how far the core is with the break (external)
  \* history: what is owed to the displaced content; whether the ad whose turn it
  \* is failed and was reported; whether a stop() took effect since the last play();
  \* whether play() was called since the last load() and no stop() took effect
  owed, failed, reported, stopped, asked

list     == <<mediaUrls, durations, adCount, currentIndex>>
original == <<originalMediaUrls, originalPosition, originalRate>>
avPlayer == <<item, rate, stale>>
turn     == <<failed, reported>>
phase    == <<stopped, asked>>
vars == <<isAdPlaying, hasPlayer, list, original, prepared, adItemsAttached,
          avPlayer, queue, caller, owed, turn, phase>>

Urls == Ads \cup {Content}
Rates == {0, 1, FastRate}
Positions == 0..StartPos

\* What an item's readiness leads to: a seek to pos, and then startPlayback(index),
\* or - for rate > 0, from returnToContent - that rate.
Plans == [index : Nat, rate : Rates, pos : Positions]

\* An AVPlayerItem: whether its end and its failure are observed; ours is FALSE for
\* one that the app or PlayerDiagnostics put in the player.
Items == [url : Urls, status : {"unknown", "readyToPlay", "failed"},
          pos : Positions, ends : BOOLEAN, watched : BOOLEAN, ours : BOOLEAN,
          plan : Plans \cup {None}, seeking : BOOLEAN]

Blocks == [kind : {"play", "stop", "return", "cancelled"}]
            \cup [kind : {"load"}, urls : Seq(Ads) \ {<<>>}]
            \cup [kind : {"fail"}, url : Urls]

TypeOK ==
  /\ {isAdPlaying, hasPlayer, adItemsAttached, failed, reported, stopped, asked}
       \subseteq BOOLEAN
  /\ mediaUrls \in Seq(Urls) /\ originalMediaUrls \in Seq(Urls)
  /\ durations \in Nat /\ adCount \in Nat /\ currentIndex \in Nat
  /\ originalPosition \in Positions /\ originalRate \in Rates \ {0}
  /\ prepared \in Ads \cup {None}
  /\ item \in Items \cup {None} /\ rate \in Rates /\ stale \subseteq Plans
  /\ queue \in Seq(Blocks)
  /\ caller \in {"idle", "loading", "loaded", "starting", "playing", "stopping"}
  /\ owed \in [pos : Positions, rate : Rates] \cup {None}

NewItem(u) ==
  [url |-> u, status |-> "unknown", pos |-> 0, ends |-> TRUE, watched |-> FALSE,
   ours |-> TRUE, plan |-> None, seeking |-> FALSE]
AppItem ==
  [url |-> Content, status |-> "readyToPlay", pos |-> StartPos, ends |-> FALSE,
   watched |-> FALSE, ours |-> FALSE, plan |-> None, seeking |-> FALSE]

Init ==
  /\ isAdPlaying = FALSE /\ hasPlayer = FALSE
  /\ mediaUrls = <<>> /\ durations = 0 /\ adCount = 0 /\ currentIndex = 0
  /\ originalMediaUrls = <<>> /\ originalPosition = 0 /\ originalRate = 1
  /\ prepared = None /\ adItemsAttached = FALSE
  /\ item \in {None} \cup (IF External THEN {AppItem} ELSE {})
  /\ rate \in (IF item = None THEN {0} ELSE Rates)
  /\ stale = {} /\ queue = <<>> /\ caller = "idle"
  /\ owed = None /\ failed = FALSE /\ reported = FALSE
  /\ stopped = FALSE /\ asked = FALSE

------------------------------------------------------------------------------
\* The player

\* replaceCurrentItem: a seek of the item that leaves still completes.
Replace(i) ==
  /\ item' = i
  /\ stale' = IF item # None /\ item.seeking THEN stale \cup {item.plan} ELSE stale

NewTurn == failed' = FALSE /\ reported' = FALSE

\* Mutant: every item at the app's speed.
StartRateAlwaysOriginal(index) == originalRate

\* startPlayback(atIndex:): an ad at normal speed, the content at the app's.
StartRate(index) == IF index >= adCount THEN originalRate ELSE 1

\* A paused app has no speed to restore.
AppRate == IF rate > 0 THEN rate ELSE 1

Later(pos) == IF pos > Rewind THEN pos - Rewind ELSE 0

Entry(index) == mediaUrls[index + 1]

\* playItem(at:) for an index of mediaUrls, on a player whose rate is r.
PlayItem(index, r) ==
  LET seek == index >= adCount /\ originalMediaUrls # <<>> /\ originalPosition > 0
  IN /\ currentIndex' = index
     /\ Replace([NewItem(Entry(index)) EXCEPT
                   !.watched = index < adCount,
                   !.plan = IF seek THEN [index |-> index, rate |-> 0,
                                          pos |-> originalPosition]
                                    ELSE None])
     /\ rate' = IF seek THEN r ELSE StartRate(index)
     /\ NewTurn

\* Mutant: adPlayerItems is kept, for a block of play() that waits to find.
ReleasePlayerKeepsItems ==
  /\ isAdPlaying' = FALSE
  /\ adItemsAttached' = FALSE
  /\ prepared' = prepared
  /\ hasPlayer' = External
  /\ currentIndex' = 0
  /\ Replace(None)
  /\ rate' = 0
  /\ NewTurn

\* releasePlayer(), and with it the end of the break.
ReleasePlayer ==
  /\ isAdPlaying' = FALSE
  /\ adItemsAttached' = FALSE
  /\ prepared' = None
  /\ hasPlayer' = External
  /\ currentIndex' = 0
  /\ Replace(None)
  /\ rate' = 0
  /\ NewTurn

------------------------------------------------------------------------------
\* The calls of the core

Room == Len(queue) < MaxBlocks
Dispatch(b) == Room /\ queue' = Append(queue, b)

\* A cancelled DispatchWorkItem stays in the queue and does nothing.
LoadsCancelled ==
  [k \in DOMAIN queue |-> IF queue[k].kind = "load" THEN [kind |-> "cancelled"]
                                                    ELSE queue[k]]

\* The earlier break is over: none of its blocks is still to change the player,
\* and the content is back.
Pending == \E k \in DOMAIN queue : queue[k].kind \in {"play", "return"}
Returning ==
  \/ stale # {}
  \/ item = None /\ owed # None
  \/ item # None /\ (item.url # Content \/ item.plan # None)

Load(urls) ==
  /\ caller \in {"idle", "loading", "loaded"}
  /\ External /\ Pending => "pending" \in Cases
  /\ External /\ Returning => "returning" \in Cases
  /\ Room
  /\ queue' = Append(LoadsCancelled, [kind |-> "load", urls |-> urls])
  /\ caller' = "loading"
  /\ asked' = FALSE
  /\ UNCHANGED <<isAdPlaying, hasPlayer, list, original, prepared, adItemsAttached,
                 avPlayer, owed, turn, stopped>>

Play ==
  /\ caller = "loaded"
  /\ isAdPlaying' = TRUE
  /\ Dispatch([kind |-> "play"])
  /\ caller' = "starting"
  /\ stopped' = FALSE /\ asked' = TRUE
  /\ UNCHANGED <<hasPlayer, list, original, prepared, adItemsAttached, avPlayer,
                 owed, turn>>

Stoppable ==
  /\ caller # "stopping"
  /\ caller = "idle" => "again" \in Cases
  /\ External /\ hasPlayer /\ caller \in {"loading", "loaded"} => "unplayed" \in Cases

\* stop() without a player: nothing is cancelled and nothing is called back.
StopIgnored ==
  /\ Stoppable
  /\ ~hasPlayer
  /\ caller' = "idle"
  /\ UNCHANGED <<isAdPlaying, hasPlayer, list, original, prepared, adItemsAttached,
                 avPlayer, queue, owed, turn, phase>>

\* stop() from another thread: the caller waits for the block.
Stop ==
  /\ Stoppable
  /\ hasPlayer
  /\ Room
  /\ queue' = Append(LoadsCancelled, [kind |-> "stop"])
  /\ caller' = "stopping"
  /\ UNCHANGED <<isAdPlaying, hasPlayer, list, original, prepared, adItemsAttached,
                 avPlayer, owed, turn, phase>>

\* stop() from the main thread: at once, ahead of the blocks that wait.
StopOnMain ==
  /\ Stoppable
  /\ hasPlayer
  /\ External /\ ~adItemsAttached => "unplayed" \in Cases
  /\ queue' = LoadsCancelled
  /\ caller' = "idle"
  /\ ReleasePlayer
  /\ stopped' = TRUE /\ asked' = FALSE
  /\ UNCHANGED <<mediaUrls, durations, adCount, original, owed>>

\* The work of returnToContent(): the displaced item, rebuilt.
Return ==
  /\ IF hasPlayer /\ originalMediaUrls # <<>>
       THEN /\ Replace([NewItem(originalMediaUrls[1]) EXCEPT
                          !.ends = FALSE,
                          !.plan = [index |-> 0, rate |-> originalRate,
                                    pos |-> originalPosition]])
            /\ originalMediaUrls' = <<>>
       ELSE UNCHANGED <<item, stale, originalMediaUrls>>
  /\ UNCHANGED <<isAdPlaying, hasPlayer, list, originalPosition, originalRate,
                 prepared, adItemsAttached, rate, caller, owed, turn, phase>>

\* returnToContent(), after the stop of a break that failed.
ReturnToContent ==
  /\ caller = "idle" /\ stopped
  /\ Dispatch([kind |-> "return"])
  /\ UNCHANGED <<isAdPlaying, hasPlayer, list, original, prepared, adItemsAttached,
                 avPlayer, caller, owed, turn, phase>>

ReturnOnMain == caller = "idle" /\ stopped /\ Return /\ UNCHANGED queue

EnqueueNextItem(u) ==
  /\ Edits /\ caller = "playing"
  /\ Len(mediaUrls) < MaxList
  /\ mediaUrls' = Append(mediaUrls, u)
  /\ durations' = durations + 1
  /\ UNCHANGED <<isAdPlaying, hasPlayer, adCount, currentIndex, original, prepared,
                 adItemsAttached, avPlayer, queue, caller, owed, turn, phase>>

\* Mutants: the index is not adjusted, or for an entry behind it.
RemoveKeepsIndex(k) ==
  /\ mediaUrls' = RemoveAt(mediaUrls, k)
  /\ durations' = IF k <= durations THEN durations - 1 ELSE durations
  /\ currentIndex' = currentIndex

RemoveShiftsBehind(k) ==
  /\ mediaUrls' = RemoveAt(mediaUrls, k)
  /\ durations' = IF k <= durations THEN durations - 1 ELSE durations
  /\ currentIndex' = IF k > currentIndex THEN currentIndex - 1 ELSE currentIndex

RemoveEntry(k) ==
  /\ mediaUrls' = RemoveAt(mediaUrls, k)
  /\ durations' = IF k <= durations THEN durations - 1 ELSE durations
  /\ currentIndex' = IF k <= currentIndex THEN currentIndex - 1 ELSE currentIndex

\* The first entry of that URL goes, unless it is the one that plays.
RemoveNextItem(u) ==
  /\ Edits /\ caller = "playing"
  /\ Contains(mediaUrls, u)
  /\ LET k == SelectInSeq(mediaUrls, LAMBDA v : v = u)
     IN k # currentIndex + 1 /\ RemoveEntry(k)
  /\ UNCHANGED <<isAdPlaying, hasPlayer, adCount, original, prepared,
                 adItemsAttached, avPlayer, queue, caller, owed, turn, phase>>

PlayNextItem ==
  /\ caller = "playing"
  /\ hasPlayer
  /\ currentIndex < Len(mediaUrls) - 1
  /\ PlayItem(currentIndex + 1, rate)
  /\ UNCHANGED <<isAdPlaying, hasPlayer, mediaUrls, durations, adCount, original,
                 prepared, adItemsAttached, queue, caller, owed, phase>>

\* pause() and resume(), while an ad plays.
PauseResume(r) ==
  /\ caller = "playing" /\ currentIndex < adCount
  /\ hasPlayer
  /\ rate' = r
  /\ UNCHANGED <<isAdPlaying, hasPlayer, list, original, prepared, adItemsAttached,
                 item, stale, queue, caller, owed, turn, phase>>

\* The core sees an index past the ads: the break is over.
PlayedOut ==
  /\ External /\ caller = "playing"
  /\ adItemsAttached /\ currentIndex >= adCount
  /\ caller' = "idle"
  /\ UNCHANGED <<isAdPlaying, hasPlayer, list, original, prepared, adItemsAttached,
                 avPlayer, queue, owed, turn, phase>>

------------------------------------------------------------------------------
\* The main thread

Next1(kind) == queue # <<>> /\ Head(queue).kind = kind /\ queue' = Tail(queue)

SkipCancelled ==
  /\ Next1("cancelled")
  /\ UNCHANGED <<isAdPlaying, hasPlayer, list, original, prepared, adItemsAttached,
                 avPlayer, caller, owed, turn, phase>>

\* A player of its own is made anew and holds the first ad; the app's is left alone.
Prepare(u) ==
  IF External
    THEN UNCHANGED <<isAdPlaying, hasPlayer, avPlayer>>
    ELSE /\ isAdPlaying' = (isAdPlaying /\ ~hasPlayer)
         /\ hasPlayer' = TRUE
         /\ Replace(NewItem(u))
         /\ rate' = 0

\* The body of load().
RunLoad ==
  /\ Next1("load")
  /\ LET urls == Head(queue).urls
     IN /\ mediaUrls' = urls
        /\ adCount' = Len(urls)
        /\ durations' = Len(urls)
        /\ prepared' = Head(urls)
        /\ Prepare(Head(urls))
  /\ currentIndex' = 0
  /\ adItemsAttached' = ~External
  /\ originalMediaUrls' = <<>>
  /\ originalPosition' = 0
  /\ caller' = IF caller = "loading" THEN "loaded" ELSE caller
  /\ NewTurn
  /\ UNCHANGED <<originalRate, owed, phase>>

\* Mutant: the content's speed is read after the pause.
RecordAfterPause ==
  /\ originalRate' = 1
  /\ originalMediaUrls' = <<item.url>>
  /\ originalPosition' = Later(item.pos)
  /\ mediaUrls' = Append(mediaUrls, item.url)
  /\ durations' = durations + 1

Record ==
  /\ originalRate' = AppRate
  /\ originalMediaUrls' = <<item.url>>
  /\ originalPosition' = Later(item.pos)
  /\ mediaUrls' = Append(mediaUrls, item.url)
  /\ durations' = durations + 1

\* attachAdItems() in the app's player: the content is recorded and displaced.
Attach ==
  /\ IF item = None
       THEN /\ originalRate' = AppRate
            /\ UNCHANGED <<originalMediaUrls, originalPosition, mediaUrls, durations,
                           owed>>
       ELSE /\ Record
            /\ owed' = IF item.url = Content /\ (item.plan = None \/ owed = None)
                         THEN [pos |-> Later(item.pos), rate |-> AppRate]
                         ELSE owed
  /\ Replace(NewItem(prepared))
  /\ hasPlayer' = TRUE
  /\ adItemsAttached' = TRUE
  /\ NewTurn

\* The body of play(): with no player and nothing prepared, it gives up.
RunPlay ==
  /\ Next1("play")
  /\ IF External /\ ~adItemsAttached
       THEN IF prepared = None
              THEN UNCHANGED <<hasPlayer, mediaUrls, durations, original,
                               adItemsAttached, avPlayer, caller, owed, turn>>
              ELSE /\ Attach
                   /\ rate' = 1
                   /\ caller' = IF caller = "starting" THEN "playing" ELSE caller
       ELSE /\ rate' = IF hasPlayer THEN 1 ELSE rate
            /\ caller' = IF caller = "starting" /\ hasPlayer THEN "playing" ELSE caller
            /\ UNCHANGED <<hasPlayer, mediaUrls, durations, original,
                           adItemsAttached, item, stale, owed, turn>>
  /\ UNCHANGED <<isAdPlaying, adCount, currentIndex, prepared, phase>>

RunStop ==
  /\ Next1("stop")
  /\ ReleasePlayer
  /\ stopped' = TRUE /\ asked' = FALSE
  /\ caller' = "idle"
  /\ UNCHANGED <<mediaUrls, durations, adCount, original, owed>>

\* The block of returnToContent().
RunReturn == Next1("return") /\ Return

\* Mutant: the failed item has to be the one in the player still.
FailureCountsByItem(u) ==
  /\ isAdPlaying
  /\ currentIndex < adCount /\ currentIndex < Len(mediaUrls)
  /\ item # None /\ item.watched /\ item.url = u

\* By URL, for the ad whose turn it is.
FailureCounts(u) ==
  /\ isAdPlaying
  /\ currentIndex < adCount /\ currentIndex < Len(mediaUrls)
  /\ mediaUrls[currentIndex + 1] = u

\* reportAdItemFailure()
RunFail ==
  /\ Next1("fail")
  /\ IF FailureCounts(Head(queue).url)
       THEN /\ reported' = TRUE
            /\ item' = IF item = None THEN item ELSE [item EXCEPT !.watched = FALSE]
       ELSE UNCHANGED <<reported, item>>
  /\ UNCHANGED <<isAdPlaying, hasPlayer, list, original, prepared, adItemsAttached,
                 rate, stale, caller, owed, failed, phase>>

RunMain == SkipCancelled \/ RunLoad \/ RunPlay \/ RunStop \/ RunReturn \/ RunFail

------------------------------------------------------------------------------
\* The AVPlayer, PlayerDiagnostics and the app (external)

Idle == UNCHANGED <<isAdPlaying, hasPlayer, original, prepared, adItemsAttached,
                    caller, phase>>

ItemReady ==
  /\ item # None /\ item.status = "unknown"
  /\ item' = [item EXCEPT !.status = "readyToPlay", !.seeking = item.plan # None]
  /\ Idle /\ UNCHANGED <<list, rate, stale, queue, owed, turn>>

\* A failure that is observed goes to main.  One of the item that PlayerDiagnostics
\* put in is for PlayerDiagnostics to report.
FailureSeen ==
  /\ IF item.watched THEN Dispatch([kind |-> "fail", url |-> item.url])
                     ELSE UNCHANGED queue
  /\ failed' = (failed \/ (item.url \in Ads /\ item.ours))
  /\ UNCHANGED reported

\* An item that fails gives its plan up.
ItemFails ==
  /\ item # None /\ item.status # "failed"
  /\ item' = [item EXCEPT !.status = "failed",
                          !.plan = IF item.seeking THEN item.plan ELSE None]
  /\ FailureSeen
  /\ Idle /\ UNCHANGED <<list, rate, stale, owed>>

ItemFailedToPlayToEnd ==
  /\ item # None /\ item.status = "readyToPlay" /\ rate > 0
  /\ FailureSeen
  /\ Idle /\ UNCHANGED <<list, avPlayer, owed>>

\* Mutant: the last entry but one is taken for the last.
HasNextButOne == currentIndex < Len(mediaUrls) - 2

HasNext == currentIndex < Len(mediaUrls) - 1

\* adPlayerDidFinishPlaying(): the item pauses at its end, and the next one plays.
ItemEnds ==
  /\ item # None /\ item.status = "readyToPlay" /\ rate > 0
  /\ External /\ ~adItemsAttached /\ item.ends => "outro" \in Cases
  /\ IF item.ends /\ HasNext
       THEN PlayItem(currentIndex + 1, 0)
       ELSE /\ item' = [item EXCEPT !.ends = FALSE]
            /\ rate' = 0
            /\ UNCHANGED <<stale, currentIndex, turn>>
  /\ Idle /\ UNCHANGED <<mediaUrls, durations, adCount, queue, owed>>

\* The completion of a seek: startPlayback(index), or the rate of returnToContent.
SeekRate(plan) == IF plan.rate > 0 THEN plan.rate ELSE StartRate(plan.index)

SeekCompletes ==
  /\ item # None /\ item.seeking
  /\ item' = [item EXCEPT !.pos = item.plan.pos, !.plan = None, !.seeking = FALSE]
  /\ rate' = SeekRate(item.plan)
  /\ Idle /\ UNCHANGED <<list, stale, queue, owed, turn>>

StaleSeekCompletes(plan) ==
  /\ plan \in stale
  /\ stale' = stale \ {plan}
  /\ rate' = IF hasPlayer THEN SeekRate(plan) ELSE rate
  /\ Idle /\ UNCHANGED <<list, item, queue, owed, turn>>

\* PlayerDiagnostics answers a failed or stalled ad with a fresh item of its URL.
RecoverySwaps ==
  /\ External /\ item # None /\ item.url \in Ads /\ item.status # "unknown"
  /\ Replace([NewItem(item.url) EXCEPT !.ends = FALSE, !.ours = FALSE])
  /\ Idle /\ UNCHANGED <<list, rate, queue, owed, turn>>

\* The app plays its content, at whatever speed; it leaves the ads alone.
AppPlays(r) ==
  /\ External
  /\ item # None => item.url = Content
  /\ Replace(AppItem)
  /\ rate' = r
  /\ owed' = None
  /\ Idle /\ UNCHANGED <<list, queue, turn>>

------------------------------------------------------------------------------
Breaks == UNION {[1..n -> Ads] : n \in 1..MaxAds}

Core ==
  \/ \E urls \in Breaks : Load(urls)
  \/ Play \/ StopIgnored \/ Stop \/ StopOnMain \/ ReturnToContent \/ ReturnOnMain
  \/ \E u \in Ads : EnqueueNextItem(u) \/ RemoveNextItem(u)
  \/ PlayNextItem \/ PlayedOut
  \/ \E r \in {0, 1} : PauseResume(r)

ItemLoads == ItemReady \/ ItemFails

AVPlayer ==
  \/ ItemLoads \/ ItemFailedToPlayToEnd \/ ItemEnds \/ SeekCompletes
  \/ \E plan \in stale : StaleSeekCompletes(plan)

Next == Core \/ RunMain \/ AVPlayer \/ RecoverySwaps \/ \E r \in Rates : AppPlays(r)

Spec == Init /\ [][Next]_vars

\* The main thread runs its blocks; an item becomes ready or fails; an item that
\* is ready ends or fails; a seek completes.
FairSpec ==
  /\ Spec
  /\ WF_vars(RunMain)
  /\ WF_vars(item # None /\ item.status = "unknown" /\ ItemLoads)
  /\ WF_vars(ItemEnds)
  /\ WF_vars(SeekCompletes)

------------------------------------------------------------------------------
\* The break as the content sees it.

ContentIn == item # None /\ item.url = Content
Recorded == Content \in ToSet(originalMediaUrls)

AdsNow == item # None /\ item.url \in Ads
BreakNow == CASE ~asked -> "none" [] asked /\ ~adItemsAttached -> "asked"
              [] OTHER -> "begun"

\* "lost" is no state of the abstract break.
ContentNow ==
  CASE owed = None -> IF ContentIn THEN "front" ELSE "none"
    [] owed # None /\ ~ContentIn -> IF Recorded THEN "kept" ELSE "lost"
    [] OTHER -> CASE item.plan # None -> "returning"
                  [] item.plan = None /\ item.status = "failed" -> "broken"
                  [] OTHER -> "back"

DueNow == IF owed = None THEN None
          ELSE [pos |-> owed.pos, rate |-> owed.rate, exact |-> TRUE]
ShownNow == IF ContentNow \in {"front", "back", "broken"}
              THEN [pos |-> item.pos, rate |-> rate] ELSE None

Break == INSTANCE AdBreak WITH break <- BreakNow, ads <- AdsNow,
                               content <- ContentNow, due <- DueNow,
                               shown <- ShownNow

\* None is no URL and no record.
ASSUME NoneAssumption ==
  None \notin Urls \cup Plans \cup Items \cup Break!Marks \cup Break!Dues

(***************************************************************************)
(* Properties.                                                             *)
(***************************************************************************)

\* The tables stay in step with each other and with the player, whatever was removed,
\* enqueued, skipped or recovered: every entry of mediaUrls has its duration
\* (getCurrentAdProgress reads durations[currentIndex]), the current index is an
\* entry, and while a break is attached it is the entry of the item in the player.
TablesMatch ==
  /\ durations = Len(mediaUrls)
  /\ mediaUrls # <<>> => currentIndex < Len(mediaUrls)
  /\ adItemsAttached /\ item # None =>
       currentIndex + 1 \in DOMAIN mediaUrls /\ item.url = mediaUrls[currentIndex + 1]

\* Once a stop() that found a player has taken effect - that of a break that plays, a
\* second one, or one that overtakes the blocks that were to load and play a break -
\* isAdPlaying is FALSE and no ad plays until the next play(), whichever blocks were
\* still waiting.  (With Edits returnToContent() may bring an ad back that was
\* displaced as though it were content; nothing observes the end of that item.)
StopIsFinal ==
  stopped => /\ ~isAdPlaying
             /\ item # None /\ item.url \in Ads /\ (item.ends \/ ~Edits) => rate = 0

\* The break keeps AdBreak's promises to the content it interrupts: it leaves the
\* player only for a break that was asked to start ("until the caller asks for the ad
\* to start the host app is still playing", comment on attachAdItems), it is never
\* lost, and it comes back where it was and "at the host app's speed" (comment on
\* startPlayback).
ImplementsAdBreak == Break!Spec /\ []Break!TypeOK

\* "at normal speed for an ad" (comment on startPlayback).
AdsAtNormalSpeed ==
  isAdPlaying /\ item # None /\ item.url \in Ads => rate \in {0, 1}

\* "Reports an ad whose media cannot play - unreachable, undecodable - as
\* onError" (comment on watchAdItemFailure), when its block has run.
FailureReported(k) ==
  /\ failed /\ isAdPlaying /\ adItemsAttached
  /\ currentIndex = k /\ k < adCount
  => reported \/ \E n \in DOMAIN queue : queue[n].kind = "fail"

LaterFailureReported == \A k \in 1..(MaxAds - 1) : FailureReported(k)
FirstFailureReported == FailureReported(0)

\* A break whose ad neither fails, nor is paused, nor is replaced by PlayerDiagnostics
\* goes on to its next entry, and so in the end to the content.
AdOn(k) == /\ External /\ adItemsAttached /\ item # None /\ item.url \in Ads
           /\ currentIndex = k /\ k < Len(mediaUrls) - 1
Interrupted == failed \/ ~item.ours \/ (rate = 0 /\ item.ends)
BreakPlaysOut ==
  \A k \in 0..MaxAds : AdOn(k) /\ ~Interrupted ~> ~AdOn(k) \/ Interrupted
==============================================================================
