----------------------------- MODULE AdQueuePlayer -----------------------------
(***************************************************************************)
(* player/AdPlayerImpl.swift: plays an ad break through an AVQueuePlayer,  *)
(* the app's own (External) or one it makes.  In the app's player the ads  *)
(* go in front of the content, rebuilt, and the queue advances by itself.  *)
(*                                                                         *)
(* The caller is the Kotlin core, as in AdAvPlayer: what it hands to the   *)
(* main thread is a block, what it does itself happens as it calls.  The   *)
(* app's items are of AVURLAssets: any other would be displaced unrecorded *)
(* (the compactMap of attachAdItems).                                      *)
(***************************************************************************)
EXTENDS Integers, Sequences, SequencesExt

CONSTANTS
  Ads,                 \* media URLs of ads
  Playlist,            \* media URLs that the app plays, a sequence
  None,
  External,            \* the ads play in the app's player
  Cases,               \* what may happen besides breaks that are loaded, played
                       \* and over one by one: a break is loaded while a block is
                       \* "pending" or content "returning"; it is stopped "again"
                       \* when it is over, or still "unplayed"; the core pauses it
                       \* ("pause"), changes its list ("edit") or skips an ad
                       \* that has just ended ("late"); the diagnostics swap an
                       \* item ("swap"), or the queue for it ("rebuild")
  Rewind, StartPos,    \* returnRewindMs; how far the app had played (in steps)
  FastRate,            \* a playback speed other than normal, 1
  MaxAds, MaxList, MaxBlocks  \* bounds: ads of a break, entries of mediaUrls,
                              \* blocks waiting for the main thread

Contents == {Playlist[n] : n \in DOMAIN Playlist}
Urls == Ads \cup Contents

ASSUME UrlAssumption == Ads \cap Contents = {} /\ Playlist \in Seq(Contents)
ASSUME ModeAssumption ==
  /\ External \in BOOLEAN
  /\ Cases \subseteq {"pending", "returning", "again", "unplayed", "pause", "edit",
                      "swap", "rebuild", "late"}
ASSUME PositionAssumption == Rewind \in Nat /\ StartPos \in Nat
ASSUME RateAssumption == FastRate \in Nat \ {0, 1}
ASSUME BoundAssumption == MaxAds \in Nat

VARIABLES
  \* AdPlayerImpl; prepared stands for adPlayerItems, observing for the observer
  \* of currentItem that waits for the content
  isAdPlaying, hasPlayer, mediaUrls, durations, originalMediaUrls, originalPosition,
  originalRate, adCount, prepared, adItemsAttached, observing,
  failedAdItems, adItemFailureReported, endedAdItemCount,
  \* the AVQueuePlayer (external): its queue, its rate, and the rates that seeks of
  \* items it no longer holds are still to set
  items, rate, stale,
  queue,               \* blocks dispatched to the main thread
  caller,              \* how far the core is with the break (external)
  \* history: what is owed to the displaced content; the ads of this break whose own
  \* item ended, those skipped in any item, and the one reported; whether a stop() took
  \* effect since the last play(), and whether play() was called since the last load()
  owed, ended, skipped, reportedAd, stopped, asked

list     == <<mediaUrls, durations, adCount>>
original == <<originalMediaUrls, originalPosition, originalRate>>
watch    == <<failedAdItems, adItemFailureReported, endedAdItemCount>>
avPlayer == <<items, rate, stale>>
pod      == <<ended, skipped, reportedAd>>
phase    == <<stopped, asked>>
vars == <<isAdPlaying, hasPlayer, list, original, prepared, adItemsAttached,
          observing, watch, avPlayer, queue, caller, owed, pod, phase>>

Rates == {0, 1, FastRate}
Positions == 0..StartPos

\* An AVPlayerItem: ad is its place in adPlayerItems, 0 if it has none.  Once it is
\* ready it goes to target, if that is not 0; ret is the rate that the seek of
\* returnToContent sets when it completes.
Items == [url : Urls, ad : Nat, status : {"unknown", "readyToPlay", "failed"},
          pos : Positions, target : Positions, ret : Rates]

\* Blocks about ads of an earlier break find no item and do nothing.
Blocks == [kind : {"play", "stop", "return", "cancelled"}]
            \cup [kind : {"load"}, urls : Seq(Ads)]
            \cup [kind : {"failed", "broken", "ended"}, ad : Nat]

TypeOK ==
  /\ {isAdPlaying, hasPlayer, adItemsAttached, observing, adItemFailureReported,
      stopped, asked} \subseteq BOOLEAN
  /\ mediaUrls \in Seq(Urls) /\ originalMediaUrls \in Seq(Urls)
  /\ durations \in Nat /\ adCount \in Nat /\ endedAdItemCount \in 0..MaxAds
  /\ originalPosition \in Positions /\ originalRate \in Rates \ {0}
  /\ prepared \in Seq(Ads)
  /\ items \in Seq(Items) /\ rate \in Rates /\ stale \subseteq Rates
  /\ queue \in Seq(Blocks)
  /\ caller \in {"idle", "loading", "loaded", "starting", "playing", "stopping"}
  /\ owed \in [url : Contents, pos : Positions, rate : Rates, alone : BOOLEAN]
               \cup {None}
  /\ {failedAdItems, ended, skipped} \subseteq SUBSET (1..MaxAds)
  /\ reportedAd \in 0..MaxAds

NewItem(u, ad) == [url |-> u, ad |-> ad, status |-> "unknown", pos |-> 0,
                   target |-> 0, ret |-> 0]
AdItems(urls) == [n \in DOMAIN urls |-> NewItem(urls[n], n)]
AppItems(count) ==
  [n \in 1..count |-> [NewItem(Playlist[n], 0) EXCEPT
     !.status = "readyToPlay", !.pos = IF n = 1 THEN StartPos ELSE 0]]

Init ==
  /\ isAdPlaying = FALSE /\ hasPlayer = FALSE
  /\ mediaUrls = <<>> /\ durations = 0 /\ adCount = 0
  /\ originalMediaUrls = <<>> /\ originalPosition = 0 /\ originalRate = 1
  /\ prepared = <<>> /\ adItemsAttached = FALSE /\ observing = FALSE
  /\ failedAdItems = {} /\ adItemFailureReported = FALSE /\ endedAdItemCount = 0
  /\ items \in {<<>>} \cup (IF External THEN {AppItems(n) : n \in DOMAIN Playlist} ELSE {})
  /\ rate \in (IF items = <<>> THEN {0} ELSE Rates)
  /\ stale = {} /\ queue = <<>> /\ caller = "idle"
  /\ owed = None /\ ended = {} /\ skipped = {} /\ reportedAd = 0
  /\ stopped = FALSE /\ asked = FALSE

------------------------------------------------------------------------------
\* The player

\* The queue becomes q: the seek of an item that leaves it still completes.
SetItems(q) ==
  /\ items' = q
  /\ stale' = IF items # <<>> /\ Head(items).ret > 0 /\ (q = <<>> \/ Head(q).ret = 0)
                THEN stale \cup {Head(items).ret} ELSE stale

\* Mutant: the speed returns with the item before the content.
AtOriginalEarly(q) == Len(mediaUrls) - Len(q) + 1 >= adCount

\* The queue q has come to the original content, by what is left in it.
AtOriginal(q) == Len(mediaUrls) - Len(q) >= adCount

\* The current item changes as the queue becomes q, at rate r:
\* observeReturnToOriginal() waits for the content, once.
Advance(q, r) ==
  /\ SetItems(q)
  /\ IF observing /\ AtOriginal(q) /\ r > 0
       THEN rate' = originalRate /\ observing' = FALSE
       ELSE rate' = r /\ UNCHANGED observing

\* Blocks and items of the ads of a break that is over.
Forgotten(b) == IF b.kind \in {"failed", "broken", "ended"} THEN [kind |-> "cancelled"]
                                                             ELSE b
BlocksForgotten(q) == [n \in DOMAIN q |-> Forgotten(q[n])]
ItemsForgotten == [n \in DOMAIN items |-> [items[n] EXCEPT !.ad = 0]]

\* A cancelled DispatchWorkItem stays in the queue and does nothing.
LoadsCancelled(q) ==
  [n \in DOMAIN q |-> IF q[n].kind = "load" THEN [kind |-> "cancelled"] ELSE q[n]]

\* Mutant: isAdPlaying is not reset.
ReleasePlayerStillPlaying(q) ==
  /\ isAdPlaying' = isAdPlaying
  /\ adItemsAttached' = FALSE
  /\ prepared' = <<>>
  /\ observing' = FALSE
  /\ failedAdItems' = {}
  /\ hasPlayer' = External
  /\ SetItems(<<>>)
  /\ rate' = 0
  /\ queue' = BlocksForgotten(q)

\* releasePlayer(), with q the blocks that wait.
ReleasePlayer(q) ==
  /\ isAdPlaying' = FALSE
  /\ adItemsAttached' = FALSE
  /\ prepared' = <<>>
  /\ observing' = FALSE
  /\ failedAdItems' = {}
  /\ hasPlayer' = External
  /\ SetItems(<<>>)
  /\ rate' = 0
  /\ queue' = BlocksForgotten(q)

\* A paused app has no speed to restore.
AppRate == IF rate > 0 THEN rate ELSE 1

\* Mutant: the rewind goes past the beginning.
LaterUnclamped(pos) == pos - Rewind

Later(pos) == IF pos > Rewind THEN pos - Rewind ELSE 0

------------------------------------------------------------------------------
\* The calls of the core

Room == Len(queue) < MaxBlocks
Dispatch(b) == Room /\ queue' = Append(queue, b)

\* The earlier break is over: none of its blocks is still to change the player,
\* and the content is back.
Pending == \E n \in DOMAIN queue : queue[n].kind \in {"play", "return"}
Returning ==
  \/ stale # {}
  \/ items = <<>> /\ owed # None
  \/ \E n \in DOMAIN items : items[n].url \in Ads \/ items[n].ret > 0
                               \/ items[n].target > 0

Load(urls) ==
  /\ caller \in {"idle", "loading", "loaded"}
  /\ External /\ Pending => "pending" \in Cases
  /\ External /\ Returning => "returning" \in Cases
  /\ Room
  /\ queue' = Append(LoadsCancelled(queue), [kind |-> "load", urls |-> urls])
  /\ caller' = "loading"
  /\ asked' = FALSE
  /\ UNCHANGED <<isAdPlaying, hasPlayer, list, original, prepared, adItemsAttached,
                 observing, watch, avPlayer, owed, pod, stopped>>

Play ==
  /\ caller = "loaded"
  /\ isAdPlaying' = TRUE
  /\ Dispatch([kind |-> "play"])
  /\ caller' = "starting"
  /\ stopped' = FALSE /\ asked' = TRUE
  /\ UNCHANGED <<hasPlayer, list, original, prepared, adItemsAttached, observing,
                 watch, avPlayer, owed, pod>>

Stoppable ==
  /\ caller # "stopping"
  /\ caller = "idle" => "again" \in Cases
  /\ External /\ hasPlayer /\ caller \in {"loading", "loaded"} => "unplayed" \in Cases

\* stop() without a player: nothing is cancelled and nothing is called back.
StopIgnored ==
  /\ Stoppable
  /\ ~hasPlayer
  /\ caller' = "idle"
  /\ UNCHANGED <<isAdPlaying, hasPlayer, list, original, prepared, adItemsAttached,
                 observing, watch, avPlayer, queue, owed, pod, phase>>

\* stop() from another thread: the caller waits for the block.
Stop ==
  /\ Stoppable
  /\ hasPlayer
  /\ Room
  /\ queue' = Append(LoadsCancelled(queue), [kind |-> "stop"])
  /\ caller' = "stopping"
  /\ UNCHANGED <<isAdPlaying, hasPlayer, list, original, prepared, adItemsAttached,
                 observing, watch, avPlayer, owed, pod, phase>>

\* stop() from the main thread: at once, ahead of the blocks that wait.
StopOnMain ==
  /\ Stoppable
  /\ hasPlayer
  /\ External /\ ~adItemsAttached => "unplayed" \in Cases
  /\ caller' = "idle"
  /\ ReleasePlayer(LoadsCancelled(queue))
  /\ stopped' = TRUE /\ asked' = FALSE
  /\ UNCHANGED <<list, original, adItemFailureReported, endedAdItemCount, owed, pod>>

\* The work of returnToContent(): the displaced items, rebuilt, and a seek of the
\* first that sets the app's speed.
Return ==
  /\ IF External /\ originalMediaUrls # <<>>
       THEN /\ SetItems([n \in DOMAIN originalMediaUrls |->
                 IF n = 1 THEN [NewItem(originalMediaUrls[1], 0) EXCEPT
                                  !.target = originalPosition, !.ret = originalRate]
                          ELSE NewItem(originalMediaUrls[n], 0)])
            /\ originalMediaUrls' = <<>>
       ELSE UNCHANGED <<items, stale, originalMediaUrls>>
  /\ UNCHANGED <<isAdPlaying, hasPlayer, list, originalPosition, originalRate,
                 prepared, adItemsAttached, observing, watch, rate, caller, owed, pod,
                 phase>>

\* returnToContent(), after the stop of a break that failed.
ReturnToContent ==
  /\ caller = "idle" /\ stopped
  /\ Dispatch([kind |-> "return"])
  /\ UNCHANGED <<isAdPlaying, hasPlayer, list, original, prepared, adItemsAttached,
                 observing, watch, avPlayer, caller, owed, pod, phase>>

ReturnOnMain == caller = "idle" /\ stopped /\ Return /\ UNCHANGED queue

\* Mutant: no duration is put beside the URL.
EnqueueWithoutDuration(u) ==
  /\ "edit" \in Cases /\ caller = "playing" /\ hasPlayer
  /\ Len(mediaUrls) < MaxList
  /\ SetItems(Append(items, NewItem(u, 0)))
  /\ mediaUrls' = Append(mediaUrls, u)
  /\ UNCHANGED <<isAdPlaying, hasPlayer, durations, adCount, original, prepared,
                 adItemsAttached, observing, watch, rate, queue, caller, owed, pod, phase>>

EnqueueNextItem(u) ==
  /\ "edit" \in Cases /\ caller = "playing" /\ hasPlayer
  /\ Len(mediaUrls) < MaxList
  /\ SetItems(Append(items, NewItem(u, 0)))
  /\ mediaUrls' = Append(mediaUrls, u)
  /\ durations' = durations + 1
  /\ UNCHANGED <<isAdPlaying, hasPlayer, adCount, original, prepared,
                 adItemsAttached, observing, watch, rate, queue, caller, owed, pod, phase>>

\* The core removes an ad that waits.  The index of the URL in mediaUrls is used as
\* a place in what is left of the queue.
RemoveNextItem(u) ==
  /\ "edit" \in Cases /\ caller = "playing" /\ hasPlayer
  /\ Contains(mediaUrls, u) /\ \E n \in 2..Len(items) : items[n].url = u
  /\ LET k == SelectInSeq(mediaUrls, LAMBDA v : v = u)
     IN /\ mediaUrls' = RemoveAt(mediaUrls, k)
        /\ durations' = IF k <= durations THEN durations - 1 ELSE durations
        /\ IF k > Len(items) THEN UNCHANGED <<avPlayer, observing>>
           ELSE IF k = 1 THEN Advance(Tail(items), rate)
           ELSE SetItems(RemoveAt(items, k)) /\ UNCHANGED <<rate, observing>>
  /\ UNCHANGED <<isAdPlaying, hasPlayer, adCount, original, prepared,
                 adItemsAttached, watch, queue, caller, owed, pod, phase>>

PlayNextItem ==
  /\ caller = "playing" /\ hasPlayer
  /\ Len(items) > 1
  /\ Head(items).url \in Contents => "late" \in Cases
  /\ Advance(Tail(items), rate)
  /\ skipped' = skipped \cup {ad \in DOMAIN prepared : prepared[ad] = Head(items).url}
  /\ UNCHANGED <<isAdPlaying, hasPlayer, list, original, prepared, adItemsAttached,
                 watch, queue, caller, owed, ended, reportedAd, phase>>

\* pause(), and resume() of what was paused
PauseResume(r) ==
  /\ "pause" \in Cases /\ caller = "playing" /\ hasPlayer
  /\ items # <<>>
  /\ r = 0 => Head(items).url \in Ads
  /\ r = 1 => rate = 0
  /\ rate' = r
  /\ UNCHANGED <<isAdPlaying, hasPlayer, list, original, prepared, adItemsAttached,
                 observing, watch, items, stale, queue, caller, owed, pod, phase>>

\* The core sees that the queue is past the ads: the break is over.
PlayedOut ==
  /\ External /\ caller = "playing"
  /\ adItemsAttached /\ AtOriginal(items)
  /\ caller' = "idle"
  /\ UNCHANGED <<isAdPlaying, hasPlayer, list, original, prepared, adItemsAttached,
                 observing, watch, avPlayer, queue, owed, pod, phase>>

------------------------------------------------------------------------------
\* Ad item failures

\* reportAdItemFailure(): one per break.
Report(ad) ==
  IF ~adItemFailureReported /\ isAdPlaying /\ ad <= Len(mediaUrls)
    THEN adItemFailureReported' = TRUE /\ reportedAd' = ad
    ELSE UNCHANGED <<adItemFailureReported, reportedAd>>

NoReport == UNCHANGED <<adItemFailureReported, reportedAd>>

\* The turn of an ad comes when all before it have played to their end.
Turn(ad) == endedAdItemCount = ad - 1

\* The body of a block, taken off the queue.
Body(kind) == queue # <<>> /\ Head(queue).kind = kind

AdEvent == UNCHANGED <<isAdPlaying, hasPlayer, list, original, prepared,
                       adItemsAttached, observing, avPlayer, caller, owed, ended,
                       skipped, phase>>

\* Mutant: reported at once, whoever's turn it is.
AdItemFailedAnyTurn ==
  /\ Body("failed") /\ queue' = Tail(queue)
  /\ failedAdItems' = failedAdItems \cup {Head(queue).ad}
  /\ Report(Head(queue).ad)
  /\ AdEvent /\ UNCHANGED endedAdItemCount

\* adItemFailed(): at once if it is the ad's turn.
AdItemFailed ==
  /\ Body("failed") /\ queue' = Tail(queue)
  /\ failedAdItems' = failedAdItems \cup {Head(queue).ad}
  /\ IF Turn(Head(queue).ad) THEN Report(Head(queue).ad) ELSE NoReport
  /\ AdEvent /\ UNCHANGED endedAdItemCount

\* AVPlayerItemFailedToPlayToEndTime, for the ad that plays.
AdItemBroken ==
  /\ Body("broken") /\ queue' = Tail(queue)
  /\ LET ad == Head(queue).ad
     IN IF Turn(ad) /\ items # <<>> /\ Head(items).ad = ad THEN Report(ad) ELSE NoReport
  /\ AdEvent /\ UNCHANGED <<failedAdItems, endedAdItemCount>>

\* Mutant: a failure of the next ad is left to its own notification.
AdItemEndedOnly ==
  /\ Body("ended") /\ queue' = Tail(queue)
  /\ LET ad == Head(queue).ad
     IN endedAdItemCount' = IF endedAdItemCount > ad THEN endedAdItemCount ELSE ad
  /\ NoReport
  /\ AdEvent /\ UNCHANGED failedAdItems

\* AVPlayerItemDidPlayToEndTime: the next ad's turn, and it may have failed.
AdItemEnded ==
  /\ Body("ended") /\ queue' = Tail(queue)
  /\ LET ad == Head(queue).ad
     IN /\ endedAdItemCount' = IF endedAdItemCount > ad THEN endedAdItemCount ELSE ad
        /\ IF ad + 1 \in failedAdItems THEN Report(ad + 1) ELSE NoReport
  /\ AdEvent /\ UNCHANGED failedAdItems

------------------------------------------------------------------------------
\* The main thread

SkipCancelled ==
  /\ Body("cancelled") /\ queue' = Tail(queue)
  /\ UNCHANGED <<isAdPlaying, hasPlayer, list, original, prepared, adItemsAttached,
                 observing, watch, avPlayer, caller, owed, pod, phase>>

\* A player of its own is made anew and holds the ads; the app's is left alone.
Prepare(urls) ==
  IF External
    THEN /\ items' = ItemsForgotten
         /\ UNCHANGED <<isAdPlaying, hasPlayer, observing, rate, stale>>
    ELSE /\ isAdPlaying' = (isAdPlaying /\ ~hasPlayer)
         /\ hasPlayer' = TRUE
         /\ observing' = (observing /\ ~hasPlayer)
         /\ SetItems(AdItems(urls))
         /\ rate' = 0

\* The body of load(), with watchAdItemFailures().
RunLoad ==
  /\ Body("load") /\ queue' = BlocksForgotten(Tail(queue))
  /\ LET urls == Head(queue).urls
     IN /\ mediaUrls' = urls
        /\ adCount' = Len(urls)
        /\ durations' = Len(urls)
        /\ prepared' = urls
        /\ Prepare(urls)
  /\ adItemsAttached' = ~External
  /\ originalMediaUrls' = <<>>
  /\ originalPosition' = 0
  /\ failedAdItems' = {} /\ adItemFailureReported' = FALSE /\ endedAdItemCount' = 0
  /\ caller' = IF caller = "loading" THEN "loaded" ELSE caller
  /\ ended' = {} /\ skipped' = {} /\ reportedAd' = 0
  /\ UNCHANGED <<originalRate, owed, phase>>

Displaced == [n \in DOMAIN items |-> items[n].url]

\* Mutant: the rate is read after the pause.
RateAfterPause == 1

RateToRestore == AppRate

\* Mutant: the displaced items are not put behind the ads.
PreSeekNone(urls, pos) == <<>>

\* preSeekOriginalItems(): of the items that are not ready - none is, they are just
\* rebuilt - the observation is left on the last.
PreSeek(urls, pos) ==
  [n \in DOMAIN urls |-> [NewItem(urls[n], 0) EXCEPT
                            !.target = IF n = Len(urls) THEN pos ELSE 0]]

\* attachAdItems() in the app's player
Attach ==
  /\ originalRate' = RateToRestore
  /\ originalMediaUrls' = IF items = <<>> THEN originalMediaUrls ELSE Displaced
  /\ originalPosition' = IF items = <<>> THEN originalPosition
                                         ELSE Later(Head(items).pos)
  /\ mediaUrls' = IF items = <<>> THEN mediaUrls ELSE mediaUrls \o Displaced
  /\ durations' = durations + Len(originalMediaUrls')
  /\ owed' = IF /\ items # <<>> /\ Head(items).url \in Contents
                /\ owed = None \/ (Head(items).ret = 0 /\ Head(items).target = 0)
               THEN [url |-> Head(items).url, pos |-> Later(Head(items).pos),
                     rate |-> AppRate, alone |-> Len(items) = 1]
               ELSE owed
  /\ SetItems(AdItems(prepared) \o PreSeek(originalMediaUrls', originalPosition'))
  /\ hasPlayer' = TRUE
  /\ adItemsAttached' = TRUE
  /\ observing' = TRUE

\* The body of play(), with reportFirstAdItemIfFailed(): with no player and nothing
\* prepared, it gives up.
Plays == rate' = 1 /\ caller' = (IF caller = "starting" THEN "playing" ELSE caller)
ReportFirst == IF prepared # <<>> /\ 1 \in failedAdItems THEN Report(1) ELSE NoReport

RunPlay ==
  /\ Body("play") /\ queue' = Tail(queue)
  /\ IF External /\ ~adItemsAttached /\ prepared # <<>>
       THEN Attach /\ Plays /\ ReportFirst
       ELSE /\ IF hasPlayer /\ (External => adItemsAttached)
                 THEN Plays /\ ReportFirst
                 ELSE NoReport /\ UNCHANGED <<rate, caller>>
            /\ UNCHANGED <<hasPlayer, mediaUrls, durations, original, adItemsAttached,
                           observing, items, stale, owed>>
  /\ UNCHANGED <<isAdPlaying, adCount, prepared, failedAdItems, endedAdItemCount,
                 ended, skipped, phase>>

RunStop ==
  /\ Body("stop")
  /\ ReleasePlayer(Tail(queue))
  /\ stopped' = TRUE /\ asked' = FALSE
  /\ caller' = "idle"
  /\ UNCHANGED <<list, original, adItemFailureReported, endedAdItemCount, owed, pod>>

\* The block of returnToContent().
RunReturn == Body("return") /\ queue' = Tail(queue) /\ Return

RunMain == \/ SkipCancelled \/ RunLoad \/ RunPlay \/ RunStop \/ RunReturn
           \/ AdItemFailed \/ AdItemBroken \/ AdItemEnded

------------------------------------------------------------------------------
\* The AVQueuePlayer, PlayerDiagnostics and the app (external)

Idle == UNCHANGED <<isAdPlaying, hasPlayer, list, original, prepared, adItemsAttached,
                    watch, caller, reportedAd, phase>>

\* The queue loads ahead.
ItemReady(n) ==
  /\ items[n].status = "unknown"
  /\ items' = [items EXCEPT ![n].status = "readyToPlay",
                            ![n].pos = IF @ = 0 /\ items[n].ret = 0
                                         THEN items[n].target ELSE @,
                            ![n].target = IF items[n].ret = 0 THEN 0 ELSE @]
  /\ Idle /\ UNCHANGED <<observing, rate, stale, queue, owed, ended, skipped>>

ItemFails(n) ==
  /\ items[n].status # "failed"
  /\ items' = [items EXCEPT ![n].status = "failed",
                            ![n].target = IF items[n].ret = 0 THEN 0 ELSE @]
  /\ IF items[n].ad > 0 THEN Dispatch([kind |-> "failed", ad |-> items[n].ad])
                        ELSE UNCHANGED queue
  /\ Idle /\ UNCHANGED <<observing, rate, stale, owed, ended, skipped>>

Playing == items # <<>> /\ Head(items).status = "readyToPlay" /\ rate > 0

ItemFailedToPlayToEnd ==
  /\ Playing /\ Head(items).ad > 0
  /\ Dispatch([kind |-> "broken", ad |-> Head(items).ad])
  /\ Idle /\ UNCHANGED <<observing, avPlayer, owed, ended, skipped>>

\* The item that plays ends, and the queue advances.
ItemEnds ==
  /\ Playing
  /\ IF Head(items).ad > 0 THEN Dispatch([kind |-> "ended", ad |-> Head(items).ad])
                           ELSE UNCHANGED queue
  /\ ended' = ended \cup ({Head(items).ad} \ {0})
  /\ owed' = IF owed # None /\ Head(items).url = owed.url THEN None ELSE owed
  /\ Advance(Tail(items), IF Len(items) = 1 THEN 0 ELSE rate)
  /\ Idle /\ UNCHANGED skipped

\* An AVQueuePlayer drops a failed item.
FailedItemDropped ==
  /\ items # <<>> /\ Head(items).status = "failed"
  /\ owed' = IF owed # None /\ Head(items).url = owed.url THEN None ELSE owed
  /\ Advance(Tail(items), IF Len(items) = 1 THEN 0 ELSE rate)
  /\ Idle /\ UNCHANGED <<queue, ended, skipped>>

\* The completion of returnToContent's seek.
ReturnSeekCompletes ==
  /\ items # <<>> /\ Head(items).ret > 0
  /\ items' = [items EXCEPT ![1].pos = items[1].target, ![1].target = 0, ![1].ret = 0]
  /\ rate' = items[1].ret
  /\ Idle /\ UNCHANGED <<observing, stale, queue, owed, ended, skipped>>

StaleSeekCompletes(r) ==
  /\ r \in stale
  /\ stale' = stale \ {r}
  /\ rate' = r
  /\ Idle /\ UNCHANGED <<observing, items, queue, owed, ended, skipped>>

\* PlayerDiagnostics answers a failed or stalled ad with a fresh item of its URL,
\* in its place (FlowerAVPlayer) or in place of the whole queue (AVQueuePlayer).
DiagnosticsSwap(rebuild) ==
  /\ External /\ items # <<>> /\ Head(items).url \in Ads
  /\ Head(items).status # "unknown"
  /\ (IF rebuild THEN "rebuild" ELSE "swap") \in Cases
  /\ LET fresh == NewItem(Head(items).url, 0)
     IN Advance(IF rebuild THEN <<fresh>> ELSE <<fresh>> \o Tail(items), rate)
  /\ Idle /\ UNCHANGED <<queue, owed, ended, skipped>>

\* The app plays its content, the first n items of the list and at whatever speed;
\* it leaves the ads alone.
AppPlays(n, r) ==
  /\ External
  /\ \A k \in DOMAIN items : items[k].url \in Contents
  /\ SetItems(AppItems(n))
  /\ rate' = r
  /\ owed' = None
  /\ Idle /\ UNCHANGED <<observing, queue, ended, skipped>>

------------------------------------------------------------------------------
Breaks == UNION {{f \in [1..n -> Ads] : \A i, j \in 1..n : f[i] = f[j] => i = j} :
                   n \in 1..MaxAds}

Core ==
  \/ \E urls \in Breaks : Load(urls)
  \/ Play \/ StopIgnored \/ Stop \/ StopOnMain \/ ReturnToContent \/ ReturnOnMain
  \/ \E u \in Ads : EnqueueNextItem(u) \/ RemoveNextItem(u)
  \/ PlayNextItem \/ PlayedOut
  \/ \E r \in {0, 1} : PauseResume(r)

AVQueuePlayer ==
  \/ \E n \in DOMAIN items : ItemReady(n) \/ ItemFails(n)
  \/ ItemFailedToPlayToEnd \/ ItemEnds \/ FailedItemDropped \/ ReturnSeekCompletes
  \/ \E r \in stale : StaleSeekCompletes(r)

Next ==
  \/ Core \/ RunMain \/ AVQueuePlayer
  \/ \E rebuild \in BOOLEAN : DiagnosticsSwap(rebuild)
  \/ \E n \in DOMAIN Playlist, r \in Rates : AppPlays(n, r)

Spec == Init /\ [][Next]_vars

------------------------------------------------------------------------------
\* The break as the content sees it: the item that was interrupted, and what is in
\* front.  Content that the app, or the queue, goes on to is the app's own.

HeadIsContent == items # <<>> /\ Head(items).url \in Contents
HeadIsOwed == items # <<>> /\ owed # None /\ Head(items).url = owed.url
InQueue == \E n \in DOMAIN items : items[n].url = owed.url
Recorded == owed.url \in ToSet(originalMediaUrls)

AdsNow == items # <<>> /\ Head(items).url \in Ads
BreakNow == CASE ~asked -> "none" [] asked /\ ~adItemsAttached -> "asked"
              [] OTHER -> "begun"

\* "lost" is no state of the abstract break.
ContentNow ==
  CASE owed = None -> IF HeadIsContent THEN "front" ELSE "none"
    [] owed # None /\ ~HeadIsOwed -> IF InQueue \/ Recorded THEN "kept" ELSE "lost"
    [] OTHER -> IF Head(items).ret > 0 \/ Head(items).target > 0 THEN "returning"
                ELSE IF Head(items).status = "failed" THEN "broken" ELSE "back"

\* Of a queue of several items preSeekOriginalItems() leaves the place to the last.
DueNow == IF owed = None THEN None
          ELSE [pos |-> owed.pos, rate |-> owed.rate, exact |-> owed.alone]
ShownNow == IF ContentNow \in {"front", "back", "broken"}
              THEN [pos |-> Head(items).pos, rate |-> rate] ELSE None

Break == INSTANCE AdBreak WITH break <- BreakNow,
           ads <- AdsNow, content <- ContentNow, due <- DueNow, shown <- ShownNow

\* None is no record.
ASSUME NoneAssumption ==
  None \notin [url : Contents, pos : Positions, rate : Rates, alone : BOOLEAN]
             \cup Break!Marks \cup Break!Dues

(***************************************************************************)
(* Properties.                                                             *)
(***************************************************************************)

\* The progress of the ad that plays has a duration to be read against, at
\* durations.count less what is left in the queue (getCurrentAdProgress).
ProgressInRange == adItemsAttached => Len(items) <= durations

\* Once a stop() that found a player has run, no ad plays until the next play(),
\* whichever blocks were still waiting.
StopIsFinal ==
  stopped => ~isAdPlaying /\ (items # <<>> /\ Head(items).url \in Ads => rate = 0)

\* The break keeps AdBreak's promises to the content it interrupts: it leaves the
\* player only for a break that was asked to start ("until the caller asks for the ad
\* to start the host app is still playing", comment on attachAdItems), it is never
\* lost, and - of a queue of one - it is back "at the interrupted position (less the
\* return rewind) and playing at the app's speed" (comment on returnToContent).
ImplementsAdBreak == Break!Spec /\ []Break!TypeOK

\* "A break that played out hands back through the queue" (comment in
\* returnToContent): as long as ads are in the app's player, the interrupted content
\* waits in its queue.
ContentBehindAds ==
  External /\ adItemsAttached /\ owed # None =>
    \E n \in DOMAIN items : items[n].url = owed.url

\* "a host app watching at 1.5x would otherwise have every ad played at 1.5x and
\* would never get its speed back" (comment on observeReturnToOriginal).
AdsAtNormalSpeed ==
  isAdPlaying /\ items # <<>> /\ Head(items).url \in Ads => rate \in {0, 1}

\* "so the ads ahead of it in the pod still play out" (comment on
\* watchAdItemFailures): when a failure is reported no ad before it is still to play,
\* whichever ended, were skipped or were removed, and none comes back.
ReportedInTurn ==
  \A n \in DOMAIN items : items[n].ad > 0 => items[n].ad >= reportedAd

\* The ads of the break that are over: neither their own item nor one that
\* PlayerDiagnostics put in for it is in the player any more.
Over == {ad \in DOMAIN prepared : \A n \in DOMAIN items : items[n].url # prepared[ad]}

\* "Reported when the failed ad's turn comes - at once if it is playing, otherwise
\* when the ad before it ends" (ibid.): with every block run, a failed ad that has
\* only ads before it that are over has been reported, or another of its break, if
\* the last of them is one whose end is counted.
FailureReportedOnce(counted) ==
  /\ isAdPlaying /\ adItemsAttached /\ queue = <<>>
  /\ \E ad \in failedAdItems : 1..(ad - 1) \subseteq Over /\ ad - 1 \in counted \cup {0}
  => adItemFailureReported

\* However the ads before it left the player - they ended, were skipped or failed, or
\* were swapped by PlayerDiagnostics -, the end of the last one in its own item
\* brings the count up to the failed ad.
FailureReportedInTurn == FailureReportedOnce(ended)

\* They do not hold: the end of an item that PlayerDiagnostics put in and the skip of
\* an ad count for none, so the failure of the ad right behind is held back for good.
FailureReportedAfterSwap == FailureReportedOnce(Over \ skipped)
FailureReportedAfterSkip == FailureReportedOnce(skipped)
==============================================================================
