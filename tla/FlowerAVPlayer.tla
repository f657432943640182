---------------------------- MODULE FlowerAVPlayer ----------------------------
(***************************************************************************)
(* FlowerAVPlayer (api/FlowerAVPlayer.swift): an AVQueuePlayer that asks   *)
(* the ads manager for a pre-roll before it takes the content it is given. *)
(*                                                                         *)
(* The app's calls run on the main thread, one after another.  The ads     *)
(* manager (external) runs one break at a time and calls its listeners, in *)
(* order, on a thread of its own; what those calls dispatch runs on the    *)
(* main thread later.  A break completes, or it fails or is skipped, of    *)
(* which the player's listeners make nothing.  stop() ends a break and     *)
(* calls nobody; listeners stay until they are removed.                    *)
(*                                                                         *)
(* Content is named by the call that asked for it, 1, 2, ...; 0 is none.   *)
(***************************************************************************)
EXTENDS Naturals, Sequences, SequencesExt

CONSTANTS
  MaxRequests,  \* bound: items the app asks for
  MaxBreaks,    \* bound: breaks after the pre-rolls
  Kinds,        \* how an item is asked for, of AllKinds
  Cases         \* what else may happen: "unset" an item without a configuration,
                \* "race" a play() while a listener is called, "recovery" an item
                \* rebuilt by PlayerDiagnostics, "clear" an item taken away

\* linear TV with a pre-roll, without (or with one that was seen), or without a
\* changed URL; VOD; anything else
AllKinds == {"preroll", "linear", "fallback", "vod", "plain"}

ASSUME BoundAssumption == MaxRequests \in Nat /\ MaxBreaks \in Nat
ASSUME KindAssumption == Kinds \subseteq AllKinds

VARIABLES
  adConfig,          \* the kind setAdConfig() stands for, or "nil"
  changedChannelUrl, \* TRUE when it is set
  prerollPrepared,   \* "nil", "false" or "true"
  playFlag,
  current,           \* the content in the player, 0 if none
  playing,           \* super.play() has been called
  listeners,         \* the ads manager's listeners
  ads,               \* its break: "idle", "requested", "prepared" or "playing"
  calls,             \* calls of listeners that are still to be made
  read,              \* what the onPrepare() under way has read of playFlag
  queue,             \* blocks on the main thread
  breaks,            \* bound on the breaks so far
  asked,             \* history: the last item asked for, 0 if taken away
  requests,          \* history: the number of items asked for
  placed,            \* history: the items put in the player after a pre-roll
  recovered,         \* history: the content in the player was rebuilt
  overtaken,         \* history: something without a pre-roll was asked for while
                     \* one was on its way or had left its listener behind, or
                     \* something without a configuration
  failed             \* history: since an item was last asked for a break has failed
                     \* that a pre-roll's listener was there for

player == <<changedChannelUrl, prerollPrepared, playFlag>>
manager == <<listeners, ads>>
history == <<asked, requests, placed, overtaken, failed>>
vars == <<adConfig, player, current, playing, manager, calls, read, queue, breaks,
          history, recovered>>

Ids == 1..MaxRequests
Listeners == [kind : {"preroll"}, of : {"preroll", "vod"}, id : Ids]
               \cup {[kind |-> "midroll"]}
Blocks == [kind : {"completed"}, of : {"preroll", "vod"}, id : Ids]
            \cup [kind : {"replace", "play"}, id : Ids] \cup {[kind |-> "midroll"]}

TypeOK ==
  /\ adConfig \in {"nil", "preroll", "linear"}
  /\ prerollPrepared \in {"nil", "false", "true"}
  /\ {changedChannelUrl, playFlag, playing, recovered, overtaken, failed} \subseteq BOOLEAN
  /\ current \in 0..MaxRequests /\ asked \in 0..MaxRequests
  /\ requests \in 0..MaxRequests /\ placed \subseteq Ids
  /\ listeners \in Seq(Listeners) /\ Len(listeners) <= requests
  /\ ads \in {"idle", "requested", "prepared", "playing"}
  /\ calls \in Seq([event : {"prepare", "completed"}, listener : Listeners])
  /\ read \in {"none", "played", "waiting"}
  /\ queue \in Seq(Blocks)
  /\ breaks \in 0..MaxBreaks

Init ==
  /\ adConfig = "nil" /\ changedChannelUrl = FALSE
  /\ prerollPrepared = "nil" /\ playFlag = FALSE
  /\ current = 0 /\ playing = FALSE
  /\ listeners = <<>> /\ ads = "idle" /\ calls = <<>> /\ read = "none"
  /\ queue = <<>> /\ breaks = 0
  /\ asked = 0 /\ requests = 0 /\ placed = {}
  /\ recovered = FALSE /\ overtaken = FALSE /\ failed = FALSE

------------------------------------------------------------------------------
\* The app

SetAdConfig(k) ==
  /\ adConfig # k
  /\ adConfig' = k
  /\ UNCHANGED <<player, current, playing, manager, calls, read, queue, breaks, history,
                 recovered>>

PrerollListens == \E l \in ToSet(listeners) : l.kind = "preroll"

\* A pre-roll is on its way to the content behind it, or has left its listener behind.
PrerollPending ==
  \/ prerollPrepared # "nil" \/ ads # "idle" \/ calls # <<>> \/ queue # <<>>
  \/ PrerollListens

\* The next item the app asks for, with a pre-roll or without.
Asks(k) ==
  /\ requests < MaxRequests
  /\ requests' = requests + 1 /\ asked' = requests + 1
  /\ recovered' = FALSE /\ failed' = FALSE
  /\ overtaken' = (overtaken \/ k = "nil"
                    \/ (k \notin {"preroll", "vod"} /\ PrerollPending))
  /\ UNCHANGED placed

\* A break that was on its way is stopped when the channel changes.
Stopped == IF changedChannelUrl THEN "idle" ELSE ads

\* Mutant: nothing is asked for while a pre-roll is on its way.
PrerollFirstUnlessAsked(k, id) ==
  /\ k \in {"preroll", "vod"}
  /\ prerollPrepared' = "false"
  /\ IF prerollPrepared = "false"
       THEN UNCHANGED <<listeners, ads>>
       ELSE /\ listeners' = Append(listeners, [kind |-> "preroll", of |-> k, id |-> id])
            /\ ads' = "requested"
  /\ changedChannelUrl' = (k = "preroll" \/ changedChannelUrl)
  /\ UNCHANGED current

\* Mutant: stop() comes after the request.
PrerollFirstStopped(k, id) ==
  /\ k \in {"preroll", "vod"}
  /\ prerollPrepared' = "false"
  /\ listeners' = Append(listeners, [kind |-> "preroll", of |-> k, id |-> id])
  /\ ads' = IF changedChannelUrl /\ k = "preroll" THEN "idle" ELSE "requested"
  /\ changedChannelUrl' = (k = "preroll" \/ changedChannelUrl)
  /\ UNCHANGED current

\* handleMediaItemWithAds(), with the configuration k for item id.
PrerollFirst(k, id) ==
  /\ k \in {"preroll", "vod"}
  /\ prerollPrepared' = "false"
  /\ listeners' = Append(listeners, [kind |-> "preroll", of |-> k, id |-> id])
  /\ ads' = "requested"
  /\ changedChannelUrl' = (k = "preroll" \/ changedChannelUrl)
  /\ UNCHANGED current

ContentAtOnce(k, id) ==
  /\ k \in {"linear", "fallback", "plain"}
  /\ current' = id
  /\ ads' = IF k = "plain" THEN ads ELSE Stopped
  /\ changedChannelUrl' = IF k = "plain" THEN changedChannelUrl ELSE k = "linear"
  /\ UNCHANGED <<prerollPrepared, listeners>>

HandleMediaItemWithAds(k, id) == PrerollFirst(k, id) \/ ContentAtOnce(k, id)

\* replaceCurrentItem(with:adConfig:); the configuration is not kept.
ReplaceWithConfig(k) ==
  /\ Asks(k)
  /\ HandleMediaItemWithAds(k, requests + 1)
  /\ UNCHANGED <<adConfig, playFlag, playing, calls, read, queue, breaks>>

\* replaceCurrentItem(with:), with what setAdConfig() left.
Replace ==
  /\ adConfig # "nil"
  /\ Asks(adConfig)
  /\ HandleMediaItemWithAds(adConfig, requests + 1)
  /\ UNCHANGED <<adConfig, playFlag, playing, calls, read, queue, breaks>>

\* The same without a configuration: nothing happens.
ReplaceWithoutConfig ==
  /\ "unset" \in Cases
  /\ adConfig = "nil"
  /\ Asks(adConfig)
  /\ UNCHANGED <<adConfig, player, current, playing, manager, calls, read, queue, breaks>>

\* replaceCurrentItem(with: nil)
ReplaceNil ==
  /\ "clear" \in Cases /\ asked # 0
  /\ asked' = 0
  /\ ads' = "idle"
  /\ changedChannelUrl' = FALSE /\ prerollPrepared' = "nil" /\ playFlag' = FALSE
  /\ adConfig' = "nil"
  /\ current' = 0
  /\ recovered' = FALSE /\ failed' = FALSE
  /\ overtaken' = (overtaken \/ PrerollPending)
  /\ UNCHANGED <<playing, listeners, calls, read, queue, breaks, requests, placed>>

\* adsManager.play(): a break that is prepared starts.
Start == IF ads = "prepared" THEN "playing" ELSE ads

\* play(): called by the app, by the ad player for an ad, and by PlayerDiagnostics
\* once an item is rebuilt.
Play ==
  /\ read = "none" \/ "race" \in Cases
  /\ \/ /\ prerollPrepared = "nil"
        /\ playing' = TRUE
        /\ UNCHANGED <<prerollPrepared, playFlag, ads>>
     \/ /\ prerollPrepared = "true"
        /\ prerollPrepared' = "nil"
        /\ ads' = Start
        /\ UNCHANGED <<playing, playFlag>>
     \/ /\ prerollPrepared = "false"
        /\ playFlag' = TRUE
        /\ UNCHANGED <<playing, prerollPrepared, ads>>
  /\ UNCHANGED <<adConfig, changedChannelUrl, current, listeners, calls, read, queue,
                 breaks, history, recovered>>

\* replaceCurrentItemForRecovery(): the content that failed is rebuilt, and nothing
\* of the pre-roll is touched.
ReplaceCurrentItemForRecovery ==
  /\ "recovery" \in Cases /\ current # 0
  /\ recovered' = TRUE
  /\ UNCHANGED <<adConfig, player, current, playing, manager, calls, read, queue, breaks,
                 history>>

------------------------------------------------------------------------------
\* The ads manager (external)

Manager == UNCHANGED <<adConfig, player, current, listeners, queue, history, recovered>>

Tell(event) ==
  /\ calls = <<>>
  /\ calls' = [n \in DOMAIN listeners |-> [event |-> event, listener |-> listeners[n]]]

BreakPrepared ==
  /\ ads = "requested" /\ ads' = "prepared"
  /\ Tell("prepare")
  /\ Manager /\ UNCHANGED <<playing, read, breaks>>

\* A break in the content: of VOD it is prepared, of linear TV it plays at once.
BreakInContent ==
  /\ ads = "idle" /\ current # 0 /\ playing
  /\ breaks < MaxBreaks /\ breaks' = breaks + 1
  /\ \/ [kind |-> "midroll"] \in ToSet(listeners) /\ ads' = "prepared" /\ Tell("prepare")
     \/ changedChannelUrl /\ ads' = "playing" /\ UNCHANGED calls
  /\ Manager /\ UNCHANGED <<playing, read>>

\* The ads hand back to the content behind them; a queue that runs dry stops.
BreakCompletes ==
  /\ ads = "playing" /\ ads' = "idle"
  /\ Tell("completed")
  /\ playing' = (playing /\ current # 0)
  /\ Manager /\ UNCHANGED <<read, breaks>>

\* A break fails or is skipped.  onError() and onAdBreakSkipped() of both listeners are
\* empty: prerollPrepared stays as it is, the listener stays, and nobody puts the
\* content in the player.  Ads that were playing hand back as when they complete.
BreakFails ==
  /\ ads # "idle" /\ calls = <<>>
  /\ ads' = "idle"
  /\ playing' = (playing /\ (ads = "playing" => current # 0))
  /\ failed' = (failed \/ PrerollListens)
  /\ UNCHANGED <<adConfig, player, current, listeners, calls, read, queue, breaks, asked,
                 requests, placed, overtaken, recovered>>

------------------------------------------------------------------------------
\* The listeners, on the ads manager's thread

Called(event, kind) ==
  calls # <<>> /\ Head(calls).event = event /\ Head(calls).listener.kind = kind

Listening == UNCHANGED <<adConfig, changedChannelUrl, playFlag, current, playing, breaks,
                         history, recovered>>

\* onPrepare() of the pre-roll's listener: it reads playFlag, and then acts on it.
OnPrepareReads ==
  /\ Called("prepare", "preroll") /\ read = "none"
  /\ read' = IF playFlag THEN "played" ELSE "waiting"
  /\ Listening /\ UNCHANGED <<prerollPrepared, manager, calls, queue>>

OnPrepareActs ==
  /\ read # "none" /\ read' = "none"
  /\ calls' = Tail(calls)
  /\ \/ read = "played" /\ prerollPrepared' = "nil" /\ ads' = Start
     \/ read = "waiting" /\ prerollPrepared' = "true" /\ UNCHANGED ads
  /\ Listening /\ UNCHANGED <<listeners, queue>>

\* onPrepare() of the midroll's listener
OnMidrollPrepare ==
  /\ Called("prepare", "midroll")
  /\ calls' = Tail(calls)
  /\ queue' = Append(queue, [kind |-> "midroll"])
  /\ Listening /\ UNCHANGED <<prerollPrepared, manager, read>>

\* Mutant: the listener is not removed.
OnCompletedStays ==
  /\ Called("completed", "preroll")
  /\ calls' = Tail(calls)
  /\ LET l == Head(calls).listener
     IN queue' = Append(queue, [kind |-> "completed", of |-> l.of, id |-> l.id])
  /\ Listening /\ UNCHANGED <<prerollPrepared, manager, read>>

\* onCompleted() of the pre-roll's listener
OnCompleted ==
  /\ Called("completed", "preroll")
  /\ calls' = Tail(calls)
  /\ LET l == Head(calls).listener
     IN /\ listeners' = RemoveFirst(listeners, l)
        /\ queue' = Append(queue, [kind |-> "completed", of |-> l.of, id |-> l.id])
  /\ Listening /\ UNCHANGED <<prerollPrepared, ads, read>>

OnMidrollCompleted ==
  /\ Called("completed", "midroll")
  /\ calls' = Tail(calls)
  /\ Listening /\ UNCHANGED <<prerollPrepared, manager, read, queue>>

------------------------------------------------------------------------------
\* The blocks on the main thread

Body(kind) == queue # <<>> /\ Head(queue).kind = kind

Main == UNCHANGED <<adConfig, changedChannelUrl, playFlag, calls, read, breaks, asked,
                    requests, overtaken, failed>>

\* Mutant: play() is dispatched before the replacement.
RunCompletedPlaysFirst ==
  /\ Body("completed")
  /\ LET b == Head(queue)
     IN /\ listeners' = IF b.of = "vod" THEN Append(listeners, [kind |-> "midroll"])
                                       ELSE listeners
        /\ queue' = Tail(queue) \o (IF playFlag THEN <<[kind |-> "play", id |-> b.id]>> ELSE <<>>)
                       \o <<[kind |-> "replace", id |-> b.id]>>
  /\ prerollPrepared' = IF playFlag THEN "nil" ELSE "true"
  /\ Main /\ UNCHANGED <<current, playing, ads, placed, recovered>>

\* Mutant: play() is not dispatched.
RunCompletedSilent ==
  /\ Body("completed")
  /\ LET b == Head(queue)
     IN /\ listeners' = IF b.of = "vod" THEN Append(listeners, [kind |-> "midroll"])
                                       ELSE listeners
        /\ queue' = Tail(queue) \o <<[kind |-> "replace", id |-> b.id]>>
  /\ prerollPrepared' = IF playFlag THEN "nil" ELSE "true"
  /\ Main /\ UNCHANGED <<current, playing, ads, placed, recovered>>

\* The block of onCompleted(): onPrerollCompleted() dispatches the replacement, and
\* play() is dispatched behind it.
RunCompleted ==
  /\ Body("completed")
  /\ LET b == Head(queue)
     IN /\ listeners' = IF b.of = "vod" THEN Append(listeners, [kind |-> "midroll"])
                                       ELSE listeners
        /\ queue' = Tail(queue) \o <<[kind |-> "replace", id |-> b.id]>>
                       \o (IF playFlag THEN <<[kind |-> "play", id |-> b.id]>> ELSE <<>>)
  /\ prerollPrepared' = IF playFlag THEN "nil" ELSE "true"
  /\ Main /\ UNCHANGED <<current, playing, ads, placed, recovered>>

RunReplace ==
  /\ Body("replace") /\ queue' = Tail(queue)
  /\ current' = Head(queue).id
  /\ placed' = placed \cup {Head(queue).id}
  /\ recovered' = FALSE
  /\ Main /\ UNCHANGED <<prerollPrepared, playing, manager>>

RunPlay ==
  /\ Body("play") /\ queue' = Tail(queue)
  /\ playing' = TRUE
  /\ Main /\ UNCHANGED <<prerollPrepared, current, manager, placed, recovered>>

RunMidroll ==
  /\ Body("midroll") /\ queue' = Tail(queue)
  /\ ads' = Start
  /\ Main /\ UNCHANGED <<prerollPrepared, current, playing, listeners, placed, recovered>>

------------------------------------------------------------------------------
App ==
  \/ \E k \in Kinds : ReplaceWithConfig(k)
  \/ \E k \in Kinds \cap {"preroll", "linear"} : SetAdConfig(k)
  \/ Replace \/ ReplaceWithoutConfig \/ ReplaceNil \/ Play
  \/ ReplaceCurrentItemForRecovery

AdsManager ==
  \/ BreakPrepared \/ BreakInContent \/ BreakCompletes
  \/ OnPrepareReads \/ OnPrepareActs \/ OnMidrollPrepare
  \/ OnCompleted \/ OnMidrollCompleted

RunMain == RunCompleted \/ RunReplace \/ RunPlay \/ RunMidroll

Next == App \/ AdsManager \/ BreakFails \/ RunMain

\* Nothing says that a break must fail; one that does not is prepared and, once it
\* plays, completes.
Spec == Init /\ [][Next]_vars
FairSpec == Spec /\ WF_vars(AdsManager) /\ WF_vars(RunMain)

(***************************************************************************)
(* Properties.                                                             *)
(***************************************************************************)

\* Content takes the player once for its pre-roll, however many breaks complete
\* after it (the listener of the pre-roll is gone by then), and "play() stays a
\* separate hop so it still runs after the replaceCurrentItem that onPrerollCompleted
\* enqueues" (comment in onCompleted).
Runs(kind) == Body(kind) /\ queue' = Tail(queue)
HandedOverInOrder ==
  [][/\ Runs("replace") => Head(queue).id \notin placed
     /\ Runs("play") => Head(queue).id \in placed]_vars

\* "All captured closures/state are only ever invoked on the main thread" (comment on
\* the pre-roll's listener): so a pre-roll that is prepared does not wait for a
\* play() that has been called.
PreparedPrerollPlays == ~(playFlag /\ prerollPrepared = "true")

\* Once everything has run, the player holds what it was last asked for, whatever
\* pre-rolls of earlier items were still on their way or had failed, unless its own
\* pre-roll failed or it was asked for something without a pre-roll in between.
AtRest == ads = "idle" /\ calls = <<>> /\ queue = <<>>
LastRequestWins ==
  ~overtaken /\ ~failed /\ AtRest /\ asked # 0 => current = asked

\* play() is only put off for a pre-roll that is on its way, until that fails.
PrerollOnItsWay == ~overtaken /\ ~failed /\ prerollPrepared = "false" => ~AtRest

\* A pre-roll that failed or was skipped does not keep its content from the player, nor
\* a play() from the content: onError() and onAdBreakSkipped() would have to see to it.
ContentAfterFailure == failed /\ ~overtaken /\ AtRest /\ asked # 0 => current = asked
PlayAfterFailure == failed /\ ~overtaken /\ AtRest => prerollPrepared # "false"

\* "After this raw replace, prerollPrepared stays nil, so a subsequent play()
\* resolves straight to super.play()" (comment on replaceCurrentItemForRecovery).
RecoveredIsPlayable ==
  recovered /\ asked = current => prerollPrepared = "nil"

\* "Flower player will play without ad insertion since adConfig was not properly
\* set" (handleMediaItemWithAds): the item is put in the player.
PlaysWithoutAds ==
  [][adConfig = "nil" /\ requests' # requests /\ prerollPrepared' # "false"
     => current' = requests']_vars

\* A play() that comes before the pre-roll is prepared is remembered: pre-roll,
\* content and all, the content plays in the end, unless the pre-roll fails.
EarlyPlayIsAnswered ==
  playFlag /\ prerollPrepared = "false" ~> (playing /\ current = asked) \/ overtaken \/ failed
==============================================================================
