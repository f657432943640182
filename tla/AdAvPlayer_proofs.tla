-------------------------- MODULE AdAvPlayer_proofs --------------------------
(***************************************************************************)
(* Proofs about AdAvPlayer, for any ads, positions, rates and bounds.      *)
(*                                                                         *)
(* TypeInv holds of every run.  InTurnInv holds of breaks that come one by *)
(* one in the app's player: it ties the blocks that wait for the main      *)
(* thread to how far the core is, the item in the player to the list, and  *)
(* the content that was displaced to what was recorded of it.  The safety  *)
(* properties follow from it, and so does the refinement of AdBreak.       *)
(* TablesInv is about the list alone, in either player and with edits; with *)
(* it StopInv holds of breaks that are stopped again or before they play.  *)
(***************************************************************************)
EXTENDS AdAvPlayer, SequenceLemmas, TLAPS, WellFoundedInduction

------------------------------------------------------------------------------
\* Types.

\* A seek that is under way has a plan.
SeekHasPlan == item # None /\ item.seeking => item.plan # None

ItemType ==
  /\ item \in Items \cup {None} /\ rate \in Rates /\ stale \subseteq Plans
  /\ SeekHasPlan
QueueType == queue \in Seq(Blocks)
ListType  ==
  /\ mediaUrls \in Seq(Urls) /\ originalMediaUrls \in Seq(Urls)
  /\ durations \in Nat /\ adCount \in Nat /\ currentIndex \in Nat
  /\ originalPosition \in Positions /\ originalRate \in Rates \ {0}
  /\ prepared \in Ads \cup {None}
  /\ owed \in [pos : Positions, rate : Rates] \cup {None}
FlagType ==
  /\ isAdPlaying \in BOOLEAN /\ hasPlayer \in BOOLEAN /\ adItemsAttached \in BOOLEAN
  /\ failed \in BOOLEAN /\ reported \in BOOLEAN /\ stopped \in BOOLEAN /\ asked \in BOOLEAN
  /\ caller \in {"idle", "loading", "loaded", "starting", "playing", "stopping"}

TypeInv == ItemType /\ QueueType /\ ListType /\ FlagType

LEMMA TypeInvIsTypeOK == TypeInv => TypeOK
BY DEF TypeInv, TypeOK, ItemType, QueueType, ListType, FlagType

\* The constants.
LEMMA RateFacts ==
  /\ 0 \in Rates /\ 1 \in Rates /\ FastRate \in Rates \ {0, 1}
  /\ Rates \subseteq Nat
BY RateAssumption DEF Rates

LEMMA UrlFacts == Ads \subseteq Urls /\ Content \in Urls \ Ads
BY UrlAssumption DEF Urls

\* The items the code and the app put in the player.
LEMMA NewItemFields ==
  ASSUME NEW u \in Urls
  PROVE  /\ NewItem(u) \in Items
         /\ NewItem(u).url = u /\ NewItem(u).status = "unknown" /\ NewItem(u).pos = 0
         /\ NewItem(u).ends = TRUE /\ NewItem(u).plan = None /\ NewItem(u).seeking = FALSE
         /\ NewItem(u).watched = FALSE /\ NewItem(u).ours = TRUE
BY PositionAssumption DEF NewItem, Items, Positions

LEMMA AppItemFields ==
  /\ AppItem \in Items
  /\ AppItem.url = Content /\ AppItem.status = "readyToPlay" /\ AppItem.pos = StartPos
  /\ AppItem.ends = FALSE /\ AppItem.plan = None /\ AppItem.seeking = FALSE
BY PositionAssumption DEF AppItem, Items, Positions, Urls

LEMMA InitType == Init => TypeInv
<1> SUFFICES ASSUME Init PROVE TypeInv
  OBVIOUS
<1>1. ItemType
  BY AppItemFields DEF Init, Rates, ItemType, SeekHasPlan
<1>2. QueueType
  BY DEF Init, QueueType
<1>3. FlagType
  BY DEF Init, FlagType
<1>4. ListType
  BY PositionAssumption, RateFacts DEF Init, ListType, Positions
<1> QED
  BY <1>1, <1>2, <1>4, <1>3 DEF TypeInv

\* What the parts of the actions leave in the player.

\* The seeks that are to complete once the item is replaced.
StaleNow == IF item # None /\ item.seeking THEN stale \cup {item.plan} ELSE stale

LEMMA ReplaceType ==
  ASSUME ItemType, NEW i \in Items \cup {None}, Replace(i), i # None => ~i.seeking
  PROVE  /\ item' = i /\ item' \in Items \cup {None}
         /\ stale' = StaleNow /\ stale' \subseteq Plans /\ SeekHasPlan'
BY DEF ItemType, Replace, StaleNow, Items, SeekHasPlan

LEMMA ReleaseType ==
  ASSUME ItemType, ReleasePlayer
  PROVE  /\ ItemType' /\ item' = None /\ rate' = 0 /\ stale' = StaleNow
         /\ isAdPlaying' = FALSE /\ hasPlayer' = External /\ adItemsAttached' = FALSE
         /\ prepared' = None /\ currentIndex' = 0 /\ failed' = FALSE /\ reported' = FALSE
         /\ External \in BOOLEAN
<1>1. Replace(None) /\ rate' = 0
  BY DEF ReleasePlayer
<1>2. ItemType' /\ item' = None /\ stale' = StaleNow
  BY <1>1, ReplaceType, RateFacts DEF ItemType
<1> QED
  BY <1>1, <1>2, ModeAssumption DEF ReleasePlayer, NewTurn

\* playItem(at:), returnToContent() and attachAdItems(): the item they leave.
LEMMA PlayItemType ==
  ASSUME ItemType, ListType, NEW index \in Nat, index < Len(mediaUrls), NEW r \in Rates,
         PlayItem(index, r)
  PROVE  /\ ItemType' /\ item' # None /\ stale' = StaleNow
         /\ currentIndex' = index /\ failed' = FALSE /\ reported' = FALSE
         /\ item'.url = Entry(index) /\ item'.status = "unknown" /\ item'.pos = 0
         /\ item'.watched = (index < adCount) /\ item'.seeking = FALSE /\ item'.ends = TRUE
         /\ IF index >= adCount /\ originalMediaUrls # <<>> /\ originalPosition > 0
              THEN /\ item'.plan = [index |-> index, rate |-> 0, pos |-> originalPosition]
                   /\ item'.plan # None /\ rate' = r
              ELSE item'.plan = None /\ rate' = StartRate(index)
<1> DEFINE seek == index >= adCount /\ originalMediaUrls # <<>> /\ originalPosition > 0
           plan == [index |-> index, rate |-> 0, pos |-> originalPosition]
           p == IF seek THEN plan ELSE None
           new == NewItem(Entry(index))
           i == [new EXCEPT !.watched = index < adCount, !.plan = p]
<1>1. Entry(index) \in Urls
  BY DEF Entry, ListType
<1>2. plan \in Plans
  BY RateFacts DEF Plans, ListType
<1>3. new \in Items /\ new.url = Entry(index) /\ new.status = "unknown" /\ new.pos = 0
        /\ new.seeking = FALSE /\ new.ends = TRUE
  BY <1>1, NewItemFields
<1>4. /\ Replace(i) /\ rate' = IF seek THEN r ELSE StartRate(index)
      /\ currentIndex' = index /\ failed' = FALSE /\ reported' = FALSE
  BY DEF PlayItem, NewTurn
<1>5. p \in Plans \cup {None} /\ (index < adCount) \in BOOLEAN
  BY <1>2
<1> HIDE DEF new, p
<1>6. /\ i \in Items /\ i.url = Entry(index) /\ i.status = "unknown" /\ i.pos = 0
      /\ i.watched = (index < adCount) /\ i.seeking = FALSE /\ i.ends = TRUE /\ i.plan = p
  BY <1>3, <1>5 DEF Items
<1> HIDE DEF i
<1>7. /\ item' = i /\ item' \in Items \cup {None}
      /\ stale' = StaleNow /\ stale' \subseteq Plans /\ SeekHasPlan'
  BY <1>4, <1>6, ReplaceType
<1>8. rate' \in Rates
  BY <1>4, RateFacts DEF StartRate, ListType
<1>9. i # None /\ plan # None
  BY <1>2, <1>6, NoneAssumption
<1> QED
  BY <1>4, <1>6, <1>7, <1>8, <1>9 DEF ItemType, p

LEMMA ReturnType ==
  ASSUME ItemType, ListType, Return, hasPlayer, originalMediaUrls # <<>>
  PROVE  /\ ItemType' /\ item' # None /\ stale' = StaleNow
         /\ originalMediaUrls' = <<>>
         /\ item'.url = originalMediaUrls[1] /\ item'.status = "unknown"
         /\ item'.pos = 0 /\ item'.seeking = FALSE /\ item'.ends = FALSE
         /\ item'.plan = [index |-> 0, rate |-> originalRate, pos |-> originalPosition]
         /\ item'.plan # None
<1> DEFINE plan == [index |-> 0, rate |-> originalRate, pos |-> originalPosition]
           new == NewItem(originalMediaUrls[1])
           i == [new EXCEPT !.ends = FALSE, !.plan = plan]
<1>1. originalMediaUrls[1] \in Urls
  BY DEF ListType
<1>2. new \in Items /\ new.url = originalMediaUrls[1] /\ new.status = "unknown"
        /\ new.pos = 0 /\ new.seeking = FALSE
  BY <1>1, NewItemFields
<1>3. plan \in Plans
  BY DEF Plans, ListType
<1>4. Replace(i) /\ originalMediaUrls' = <<>> /\ rate' = rate
  BY DEF Return
<1> HIDE DEF new
<1>5. /\ i \in Items /\ i.url = originalMediaUrls[1] /\ i.status = "unknown"
      /\ i.pos = 0 /\ i.seeking = FALSE /\ i.ends = FALSE /\ i.plan = plan
  BY <1>2, <1>3 DEF Items
<1> HIDE DEF i
<1>6. /\ item' = i /\ item' \in Items \cup {None}
      /\ stale' = StaleNow /\ stale' \subseteq Plans /\ SeekHasPlan'
  BY <1>4, <1>5, ReplaceType
<1>7. i # None /\ plan # None
  BY <1>3, <1>5, NoneAssumption
<1> QED
  BY <1>4, <1>5, <1>6, <1>7 DEF ItemType

LEMMA AttachType ==
  ASSUME ItemType, ListType, Attach, prepared # None, rate' = 1
  PROVE  /\ ItemType' /\ item' = NewItem(prepared) /\ stale' = StaleNow
         /\ mediaUrls' \in Seq(Urls) /\ originalMediaUrls' \in Seq(Urls)
         /\ durations' \in Nat
         /\ originalPosition' \in Positions /\ originalRate' \in Rates \ {0}
         /\ owed' \in [pos : Positions, rate : Rates] \cup {None}
         /\ hasPlayer' = TRUE /\ adItemsAttached' = TRUE
         /\ failed' = FALSE /\ reported' = FALSE
<1>1. prepared \in Urls
  BY UrlFacts DEF ListType
<1>2. NewItem(prepared) \in Items /\ NewItem(prepared).seeking = FALSE
  BY <1>1, NewItemFields
<1>3. Replace(NewItem(prepared))
  BY DEF Attach
<1>4. /\ item' = NewItem(prepared) /\ item' \in Items \cup {None}
      /\ stale' = StaleNow /\ stale' \subseteq Plans /\ SeekHasPlan'
  BY <1>2, <1>3, ReplaceType
<1>5. AppRate \in Rates \ {0}
  BY RateFacts DEF AppRate, ItemType
<1>6. ItemType'
  BY <1>4, RateFacts DEF ItemType
<1>7. hasPlayer' = TRUE /\ adItemsAttached' = TRUE /\ failed' = FALSE /\ reported' = FALSE
  BY DEF Attach, NewTurn
<1>8. CASE item = None
  <2>1. /\ originalRate' = AppRate /\ originalMediaUrls' = originalMediaUrls
        /\ originalPosition' = originalPosition /\ mediaUrls' = mediaUrls
        /\ durations' = durations /\ owed' = owed
    BY <1>8 DEF Attach
  <2> QED
    BY <2>1, <1>4, <1>5, <1>6, <1>7 DEF ListType
<1>9. CASE item # None
  <2>1. item.url \in Urls /\ item.pos \in Positions
    BY <1>9 DEF ItemType, Items
  <2>2. Later(item.pos) \in Positions
    BY <2>1, PositionAssumption DEF Later, Positions
  <2>3. Record /\ owed' \in {[pos |-> Later(item.pos), rate |-> AppRate], owed}
    BY <1>9 DEF Attach
  <2>4. /\ originalRate' = AppRate /\ originalMediaUrls' = <<item.url>>
        /\ originalPosition' = Later(item.pos)
        /\ mediaUrls' = Append(mediaUrls, item.url) /\ durations' = durations + 1
    BY <2>3 DEF Record
  <2>5. mediaUrls' \in Seq(Urls) /\ originalMediaUrls' \in Seq(Urls) /\ durations' \in Nat
    BY <2>1, <2>4 DEF ListType
  <2>6. owed' \in [pos : Positions, rate : Rates] \cup {None}
    BY <2>2, <2>3, <1>5 DEF ListType
  <2> QED
    BY <2>2, <2>4, <2>5, <2>6, <1>4, <1>5, <1>6, <1>7
<1> QED
  BY <1>8, <1>9

\* What happens to the item while it stays in the player.

LEMMA ReadyFields ==
  ASSUME ItemType, ItemReady
  PROVE  /\ item # None /\ item' # None /\ item' \in Items
         /\ item'.url = item.url /\ item'.pos = item.pos /\ item'.plan = item.plan
         /\ item'.ours = item.ours /\ item'.watched = item.watched
         /\ item.status = "unknown" /\ item'.status = "readyToPlay"
         /\ item'.seeking = (item.plan # None)
BY NoneAssumption DEF ItemReady, ItemType, Items

LEMMA FailsFields ==
  ASSUME ItemType, ItemFails
  PROVE  /\ item # None /\ item' # None /\ item' \in Items
         /\ item'.url = item.url /\ item'.pos = item.pos /\ item'.seeking = item.seeking
         /\ item'.ours = item.ours /\ item'.watched = item.watched
         /\ item'.status = "failed"
         /\ item'.plan = IF item.seeking THEN item.plan ELSE None
BY NoneAssumption DEF ItemFails, ItemType, Items

LEMMA ReportFields ==
  ASSUME ItemType, RunFail
  PROVE  /\ item = None => item' = None
         /\ item # None =>
              /\ item' # None /\ item' \in Items
              /\ item'.url = item.url /\ item'.status = item.status
              /\ item'.pos = item.pos /\ item'.plan = item.plan
              /\ item'.seeking = item.seeking /\ item'.ours = item.ours
<1>1. CASE item' = item
  BY <1>1, NoneAssumption DEF ItemType
<1>2. CASE item # None /\ item' = [item EXCEPT !.watched = FALSE]
  BY <1>2, NoneAssumption DEF ItemType, Items
<1> QED
  BY <1>1, <1>2 DEF RunFail

LEMMA EndFields ==
  ASSUME ItemType, ItemEnds, ~(item.ends /\ HasNext)
  PROVE  /\ item # None /\ item' # None /\ item' \in Items
         /\ item'.url = item.url /\ item'.pos = item.pos /\ item'.plan = item.plan
         /\ item'.status = item.status /\ item'.seeking = item.seeking
         /\ item'.ours = item.ours /\ item'.watched = item.watched
         /\ rate' = 0 /\ stale' = stale /\ currentIndex' = currentIndex
         /\ failed' = failed /\ reported' = reported
<1>1. /\ item # None /\ item' = [item EXCEPT !.ends = FALSE]
      /\ rate' = 0 /\ stale' = stale /\ currentIndex' = currentIndex
      /\ failed' = failed /\ reported' = reported
  BY DEF ItemEnds, turn
<1> QED
  BY <1>1, NoneAssumption DEF ItemType, Items

LEMMA SeekFields ==
  ASSUME ItemType, SeekCompletes
  PROVE  /\ item # None /\ item.plan \in Plans /\ item' # None /\ item' \in Items
         /\ item'.url = item.url /\ item'.pos = item.plan.pos /\ item'.plan = None
         /\ item'.status = item.status /\ item'.seeking = FALSE
         /\ item'.ours = item.ours /\ item'.watched = item.watched
<1>1. item # None /\ item.plan \in Plans
  BY DEF SeekCompletes, ItemType, SeekHasPlan, Items
<1> QED
  BY <1>1, NoneAssumption DEF SeekCompletes, ItemType, Items, Plans

LEMMA RecoveryFields ==
  ASSUME ItemType, RecoverySwaps
  PROVE  /\ item # None /\ item.url \in Ads /\ item' # None /\ item' \in Items
         /\ item'.url = item.url /\ item'.plan = None /\ item'.seeking = FALSE
         /\ item'.ours = FALSE /\ stale' = StaleNow
<1> DEFINE new == NewItem(item.url)
           i == [new EXCEPT !.ends = FALSE, !.ours = FALSE]
<1>1. item # None /\ item.url \in Ads /\ Replace(i)
  BY DEF RecoverySwaps
<1>2. new \in Items /\ new.url = item.url /\ new.plan = None /\ new.seeking = FALSE
  BY <1>1, NewItemFields, UrlFacts
<1> HIDE DEF new
<1>3. /\ i \in Items /\ i.url = item.url /\ i.plan = None /\ i.seeking = FALSE
      /\ i.ours = FALSE
  BY <1>2 DEF Items
<1> HIDE DEF i
<1>4. item' = i /\ stale' = StaleNow
  BY <1>1, <1>3, ReplaceType
<1> QED
  BY <1>1, <1>3, <1>4, NoneAssumption

LEMMA AppFields ==
  ASSUME ItemType, NEW r \in Rates, AppPlays(r)
  PROVE  /\ item = None \/ item.url = Content
         /\ item' = AppItem /\ item' # None /\ stale' = StaleNow /\ rate' = r
<1>1. Replace(AppItem) /\ rate' = r /\ (item = None \/ item.url = Content)
  BY DEF AppPlays
<1> QED
  BY <1>1, AppItemFields, ReplaceType, NoneAssumption

\* The first entry of a URL has an index of the list.
LEMMA EntryFound ==
  ASSUME NEW s \in Seq(Urls), NEW u \in Urls, Contains(s, u)
  PROVE  SelectInSeq(s, LAMBDA v : v = u) \in 1..Len(s)
<1> DEFINE I == {i \in 1..Len(s) : s[i] = u}
<1>1. I # {} /\ I \subseteq Nat
  BY DEF Contains
<1>2. PICK m \in I : \A i \in I : <<i, m>> \notin OpToRel(<, Nat)
  BY <1>1, NatLessThanWellFounded, WFMin
<1>3. ASSUME NEW i \in I PROVE m =< i
  <2>1. <<i, m>> \in Nat \X Nat
    BY <1>1
  <2>2. ~(i < m)
    BY <2>1, <1>2, <1>3 DEF OpToRel
  <2> QED BY <2>1, <2>2
<1>4. Min(I) \in I
  BY <1>3 DEF Min
<1> QED
  BY <1>1, <1>4 DEF SelectInSeq

\* The blocks of the queue.
LEMMA BlockTypes ==
  /\ \A k \in {"play", "stop", "return", "cancelled"} : [kind |-> k] \in Blocks
  /\ \A urls \in Seq(Ads) \ {<<>>} : [kind |-> "load", urls |-> urls] \in Blocks
  /\ \A u \in Urls : [kind |-> "fail", url |-> u] \in Blocks
BY DEF Blocks

LEMMA CancelType == QueueType => LoadsCancelled \in Seq(Blocks)
<1> SUFFICES ASSUME QueueType PROVE LoadsCancelled \in Seq(Blocks)
  OBVIOUS
<1>1. \A k \in DOMAIN queue : queue[k] \in Blocks
  BY DEF QueueType
<1>2. [kind |-> "cancelled"] \in Blocks
  BY BlockTypes
<1>3. DOMAIN queue = 1..Len(queue) /\ Len(queue) \in Nat
  BY DEF QueueType
<1> QED BY <1>1, <1>2, <1>3 DEF LoadsCancelled

LEMMA HeadTypes ==
  ASSUME QueueType, NEW kind, Next1(kind)
  PROVE  /\ Head(queue) \in Blocks /\ Head(queue).kind = kind /\ queue' \in Seq(Blocks)
         /\ kind = "load" => Head(queue).urls \in Seq(Ads) \ {<<>>}
<1>1. Head(queue) \in Blocks /\ Head(queue).kind = kind /\ queue' \in Seq(Blocks)
  BY DEF QueueType, Next1
<1> QED
  BY <1>1 DEF Blocks

LEMMA BreakTypes == \A urls \in Breaks : urls \in Seq(Ads) \ {<<>>}
BY DEF Breaks

\* Every step keeps the types.
LEMMA StepType == TypeInv /\ [Next]_vars => TypeInv'
<1> SUFFICES ASSUME TypeInv, [Next]_vars PROVE TypeInv'
  OBVIOUS
<1> USE DEF TypeInv, list, original, avPlayer, turn, phase
<1>1. ASSUME NEW urls \in Breaks, Load(urls) PROVE TypeInv'
  <2>1. ItemType' /\ ListType' /\ FlagType'
    BY <1>1 DEF Load, ItemType, SeekHasPlan, ListType, FlagType
  <2>2. QueueType'
    <3>1. [kind |-> "load", urls |-> urls] \in Blocks
      BY BreakTypes, BlockTypes
    <3>2. queue' = Append(LoadsCancelled, [kind |-> "load", urls |-> urls])
      BY <1>1 DEF Load
    <3> QED BY <3>1, <3>2, CancelType DEF QueueType
  <2> QED BY <2>1, <2>2
<1>2. CASE Play
  <2>1. QueueType'
    BY <1>2, BlockTypes DEF Play, Dispatch, QueueType
  <2> QED
    BY <1>2, <2>1 DEF Play, ItemType, SeekHasPlan, ListType, FlagType
<1>3. CASE StopIgnored
  BY <1>3 DEF StopIgnored, ItemType, SeekHasPlan, ListType, FlagType, QueueType
<1>4. CASE Stop
  <2>1. ItemType' /\ ListType' /\ FlagType'
    BY <1>4 DEF Stop, ItemType, SeekHasPlan, ListType, FlagType
  <2>2. QueueType'
    BY <1>4, BlockTypes, CancelType DEF Stop, QueueType
  <2> QED BY <2>1, <2>2
<1>5. CASE StopOnMain
  <2>1. ReleasePlayer
    BY <1>5 DEF StopOnMain
  <2>2. QueueType' /\ ListType'
    BY <1>5, <2>1, ReleaseType, CancelType DEF StopOnMain, QueueType, ListType
  <2>3. FlagType'
    BY <1>5, <2>1, ReleaseType DEF StopOnMain, FlagType
  <2> QED BY <2>1, <2>2, <2>3, ReleaseType
<1>6. CASE ReturnToContent
  BY <1>6, BlockTypes
     DEF ReturnToContent, Dispatch, ItemType, SeekHasPlan, ListType, FlagType, QueueType
<1>7. ASSUME Return, UNCHANGED queue \/ queue' \in Seq(Blocks) PROVE TypeInv'
  <2>1. QueueType'
    BY <1>7 DEF QueueType
  <2>2. FlagType'
    BY <1>7 DEF Return, FlagType
  <2>3. CASE hasPlayer /\ originalMediaUrls # <<>>
    <3>1. ItemType' /\ originalMediaUrls' = <<>>
      BY <1>7, <2>3, ReturnType
    <3> QED
      BY <1>7, <2>1, <2>2, <3>1 DEF Return, ListType
  <2>4. CASE ~(hasPlayer /\ originalMediaUrls # <<>>)
    BY <1>7, <2>1, <2>2, <2>4 DEF Return, ListType, ItemType, SeekHasPlan
  <2> QED BY <2>3, <2>4
<1>8. ASSUME NEW u \in Ads, EnqueueNextItem(u) PROVE TypeInv'
  BY <1>8, UrlFacts
     DEF EnqueueNextItem, ItemType, SeekHasPlan, ListType, FlagType, QueueType
<1>9. ASSUME NEW u \in Ads, RemoveNextItem(u) PROVE TypeInv'
  <2> DEFINE k == SelectInSeq(mediaUrls, LAMBDA v : v = u)
  <2>1. RemoveEntry(k)
    BY <1>9 DEF RemoveNextItem
  <2>2. k \in 1..Len(mediaUrls)
    BY <1>9, EntryFound, UrlFacts DEF RemoveNextItem, ListType
  <2> HIDE DEF k
  <2>3. mediaUrls' \in Seq(Urls)
    BY <2>1, <2>2 DEF RemoveEntry, RemoveAt, ListType
  <2>4. durations' \in Nat /\ currentIndex' \in Nat
    BY <2>1, <2>2 DEF RemoveEntry, ListType
  <2> QED
    BY <1>9, <2>3, <2>4
       DEF RemoveNextItem, ItemType, SeekHasPlan, ListType, FlagType, QueueType
<1>10. CASE PlayNextItem
  <2>1. PlayItem(currentIndex + 1, rate) /\ currentIndex + 1 < Len(mediaUrls)
        /\ currentIndex + 1 \in Nat /\ rate \in Rates
    BY <1>10 DEF PlayNextItem, ListType, ItemType
  <2>2. ItemType' /\ currentIndex' \in Nat /\ failed' = FALSE /\ reported' = FALSE
    BY <2>1, PlayItemType
  <2> QED
    BY <1>10, <2>2 DEF PlayNextItem, ListType, FlagType, QueueType
<1>11. CASE PlayedOut
  BY <1>11 DEF PlayedOut, ItemType, SeekHasPlan, ListType, FlagType, QueueType
<1>12. ASSUME NEW r \in {0, 1}, PauseResume(r) PROVE TypeInv'
  BY <1>12, RateFacts
     DEF PauseResume, ItemType, SeekHasPlan, ListType, FlagType, QueueType
<1>13. CASE SkipCancelled
  BY <1>13, HeadTypes
     DEF SkipCancelled, ItemType, SeekHasPlan, ListType, FlagType, QueueType
<1>14. CASE RunLoad
  <2> DEFINE urls == Head(queue).urls
  <2>1. Next1("load")
    BY <1>14 DEF RunLoad
  <2>2. urls \in Seq(Ads) \ {<<>>} /\ queue' \in Seq(Blocks)
    BY <2>1, HeadTypes
  <2> HIDE DEF urls
  <2>3. /\ mediaUrls' = urls /\ adCount' = Len(urls) /\ durations' = Len(urls)
        /\ prepared' = Head(urls) /\ Prepare(Head(urls))
    BY <1>14 DEF RunLoad, urls
  <2>4. Head(urls) \in Urls /\ Head(urls) \in Ads /\ urls \in Seq(Urls) /\ Len(urls) \in Nat
    BY <2>2, UrlFacts
  <2>5. ItemType'
    <3>1. CASE External
      BY <2>3, <3>1 DEF Prepare, ItemType, SeekHasPlan
    <3>2. CASE ~External
      <4>1. Replace(NewItem(Head(urls))) /\ rate' = 0
        BY <2>3, <3>2 DEF Prepare
      <4> QED BY <2>4, <4>1, ReplaceType, NewItemFields, RateFacts DEF ItemType
    <3> QED BY <3>1, <3>2
  <2>6. ListType'
    BY <1>14, <2>3, <2>4, PositionAssumption DEF RunLoad, ListType, Positions
  <2>7. FlagType'
    BY <1>14, <2>3, ModeAssumption DEF RunLoad, Prepare, NewTurn, FlagType
  <2> QED BY <2>2, <2>5, <2>6, <2>7 DEF QueueType
<1>15. CASE RunPlay
  <2>1. queue' \in Seq(Blocks)
    BY <1>15, HeadTypes DEF RunPlay
  <2>2. CASE Attach /\ prepared # None /\ rate' = 1
    BY <1>15, <2>1, <2>2, AttachType DEF RunPlay, ListType, FlagType, QueueType
  <2>3. CASE ~(External /\ ~adItemsAttached /\ prepared # None)
    BY <1>15, <2>1, <2>3, RateFacts
       DEF RunPlay, ItemType, SeekHasPlan, ListType, FlagType, QueueType
  <2> QED BY <1>15, <2>2, <2>3 DEF RunPlay
<1>16. CASE RunStop
  <2>1. ReleasePlayer /\ queue' \in Seq(Blocks)
    BY <1>16, HeadTypes DEF RunStop
  <2>2. QueueType' /\ ListType'
    BY <1>16, <2>1, ReleaseType DEF RunStop, QueueType, ListType
  <2>3. FlagType'
    BY <1>16, <2>1, ReleaseType DEF RunStop, FlagType
  <2> QED BY <2>1, <2>2, <2>3, ReleaseType
<1>17. CASE RunReturn
  BY <1>7, <1>17, HeadTypes DEF RunReturn
<1>18. CASE RunFail
  <2>1. queue' \in Seq(Blocks)
    BY <1>18, HeadTypes DEF RunFail
  <2>2. ItemType'
    BY <1>18, ZenonT(30) DEF RunFail, ItemType, SeekHasPlan, Items
  <2>3. FlagType'
    BY <1>18 DEF RunFail, FlagType
  <2> QED
    BY <1>18, <2>1, <2>2, <2>3 DEF RunFail, ListType, QueueType
<1>19. CASE ItemReady
  <2>1. ItemType'
    BY <1>19, NoneAssumption DEF ItemReady, ItemType, SeekHasPlan, Items
  <2> QED
    BY <1>19, <2>1 DEF ItemReady, Idle, ListType, FlagType, QueueType
<1>20. ASSUME FailureSeen, item # None
       PROVE  QueueType' /\ failed' \in BOOLEAN /\ reported' \in BOOLEAN
  <2>1. [kind |-> "fail", url |-> item.url] \in Blocks
    BY <1>20, BlockTypes DEF ItemType, Items
  <2> QED
    BY <1>20, <2>1 DEF FailureSeen, Dispatch, QueueType, FlagType
<1>21. CASE ItemFails
  <2>1. ItemType'
    BY <1>21 DEF ItemFails, ItemType, SeekHasPlan, Items
  <2> QED
    BY <1>20, <1>21, <2>1 DEF ItemFails, Idle, ListType, FlagType
<1>22. CASE ItemFailedToPlayToEnd
  BY <1>20, <1>22
     DEF ItemFailedToPlayToEnd, Idle, ItemType, SeekHasPlan, ListType, FlagType
<1>23. CASE ItemEnds
  <2>1. CASE item.ends /\ HasNext
    <3>1. PlayItem(currentIndex + 1, 0) /\ currentIndex + 1 < Len(mediaUrls)
          /\ currentIndex + 1 \in Nat
      BY <1>23, <2>1 DEF ItemEnds, HasNext, ListType
    <3>2. ItemType' /\ currentIndex' \in Nat /\ failed' = FALSE /\ reported' = FALSE
      BY <3>1, PlayItemType, RateFacts
    <3> QED
      BY <1>23, <3>2 DEF ItemEnds, Idle, ListType, FlagType, QueueType
  <2>2. CASE ~(item.ends /\ HasNext)
    <3>1. ItemType'
      BY <1>23, <2>2, RateFacts DEF ItemEnds, ItemType, SeekHasPlan, Items
    <3> QED
      BY <1>23, <2>2, <3>1 DEF ItemEnds, Idle, ListType, FlagType, QueueType
  <2> QED BY <2>1, <2>2
<1>24. \A p \in Plans : SeekRate(p) \in Rates
  BY RateFacts DEF SeekRate, StartRate, ListType, Plans
<1>25. CASE SeekCompletes
  <2>1. item.plan \in Plans
    BY <1>25 DEF SeekCompletes, ItemType, SeekHasPlan, Items
  <2>2. ItemType'
    BY <1>24, <1>25, <2>1 DEF SeekCompletes, ItemType, SeekHasPlan, Items, Plans
  <2> QED
    BY <1>25, <2>2 DEF SeekCompletes, Idle, ListType, FlagType, QueueType
<1>26. ASSUME NEW p \in stale, StaleSeekCompletes(p) PROVE TypeInv'
  BY <1>24, <1>26
     DEF StaleSeekCompletes, Idle, ItemType, SeekHasPlan, ListType, FlagType, QueueType
<1>27. CASE RecoverySwaps
  <2>1. rate' = rate /\ stale' \subseteq Plans
    BY <1>27, RecoveryFields DEF RecoverySwaps, StaleNow, ItemType, SeekHasPlan, Items
  <2>2. ItemType'
    BY <1>27, <2>1, RecoveryFields DEF ItemType, SeekHasPlan
  <2> QED
    BY <1>27, <2>2 DEF RecoverySwaps, Idle, ListType, FlagType, QueueType
<1>28. ASSUME NEW r \in Rates, AppPlays(r) PROVE TypeInv'
  <2>1. ItemType'
    BY <1>28, ReplaceType, AppItemFields DEF AppPlays, ItemType
  <2> QED
    BY <1>28, <2>1 DEF AppPlays, Idle, ListType, FlagType, QueueType
<1>29. CASE UNCHANGED vars
  BY <1>29 DEF vars, ItemType, SeekHasPlan, ListType, FlagType, QueueType
<1>30. Core => TypeInv'
  BY <1>1, <1>2, <1>3, <1>4, <1>5, <1>6, <1>7, <1>8, <1>9, <1>10, <1>11, <1>12
     DEF Core, ReturnOnMain
<1>31. RunMain => TypeInv'
  BY <1>13, <1>14, <1>15, <1>16, <1>17, <1>18 DEF RunMain
<1>32. AVPlayer => TypeInv'
  BY <1>19, <1>21, <1>22, <1>23, <1>25, <1>26 DEF AVPlayer, ItemLoads
<1> QED
  BY <1>27, <1>28, <1>29, <1>30, <1>31, <1>32 DEF Next

\* The types of the player, its list, its queue and the core hold throughout.
THEOREM TypeCorrect == Spec => []TypeOK
BY InitType, StepType, TypeInvIsTypeOK, PTL DEF Spec

------------------------------------------------------------------------------
\* Breaks that are loaded, played and over one by one, with a list that is left
\* alone, in the app's player.

InTurn == External /\ ~Edits /\ Cases = {}

Has(q, kind)    == \E k \in DOMAIN q : q[k].kind = kind
FailWaits(q, u) == \E k \in DOMAIN q : q[k].kind = "fail" /\ q[k].url = u

\* One block at most of each kind that moves the break on, and stop after play.
Ordered(q) ==
  /\ \A i, j \in DOMAIN q :
       q[i].kind = q[j].kind /\ q[i].kind \in {"load", "play", "stop"} => i = j
  /\ \A i, j \in DOMAIN q : q[i].kind = "stop" /\ q[j].kind = "play" => j < i

\* What the main thread still has to do is what the core is waiting for, ...
QueueMatches ==
  /\ Ordered(queue)
  /\ Has(queue, "load") => caller = "loading" \/ (caller = "idle" /\ ~hasPlayer)
  /\ Has(queue, "play") => caller \in {"starting", "idle", "stopping"}
  /\ Has(queue, "return") => caller = "idle" /\ stopped
  /\ Has(queue, "stop") <=> caller = "stopping"

\* ... and how far the core is tells what was asked for and what is attached.
CallerMatches ==
  /\ caller \in {"loading", "loaded"} \/ Has(queue, "load") => ~asked
  /\ caller \in {"starting", "playing", "stopping"} \/ Has(queue, "play") => asked
  /\ caller = "loaded" \/ Has(queue, "play") => ~adItemsAttached
  /\ caller = "starting" => Has(queue, "play")
  /\ caller = "playing" => adItemsAttached
  /\ caller = "stopping" => adItemsAttached \/ Has(queue, "play")
  /\ stopped => hasPlayer /\ ~asked /\ ~adItemsAttached /\ ~isAdPlaying

\* A break that is loaded has its first ad prepared.
LoadedMatches ==
  caller = "loaded" \/ Has(queue, "play") =>
    /\ currentIndex = 0 /\ adCount = Len(mediaUrls)
    /\ mediaUrls \in Seq(Ads) \ {<<>>}
    /\ prepared = mediaUrls[1]
    /\ originalMediaUrls = <<>>

IndexMatches ==
  /\ durations = Len(mediaUrls)
  /\ mediaUrls # <<>> => currentIndex < Len(mediaUrls)

\* While a break is on its way to the player, the player holds the content or
\* nothing, and nothing is to come of the break before.
AtRest ==
  caller \in {"loading", "loaded"} \/ Has(queue, "load") \/ Has(queue, "play") =>
    /\ stale = {}
    /\ item = None => owed = None
    /\ item # None => item.url = Content /\ item.plan = None

Kept == [pos |-> originalPosition, rate |-> originalRate]

\* The item in the player is the current entry of the list; the content that was
\* displaced is its last entry, and recorded.
AttachedMatches ==
  adItemsAttached =>
    /\ hasPlayer /\ item # None
    /\ currentIndex < Len(mediaUrls)
    /\ item.url = Entry(currentIndex)
    /\ \A k \in 1..adCount : mediaUrls[k] \in Ads
    /\ \/ Len(mediaUrls) = adCount /\ owed = None
       \/ /\ Len(mediaUrls) = adCount + 1 /\ mediaUrls[adCount + 1] = Content
          /\ originalMediaUrls = <<Content>>
          /\ owed \in {None, Kept}
          /\ item.url \in Ads => owed = Kept

\* An ad plays in a break that is attached, at normal speed, and no seek is to come.
AdsMatch ==
  AdsNow => adItemsAttached /\ rate \in {0, 1} /\ stale = {} /\ item.plan = None

RecordMatches == originalMediaUrls \in {<<>>, <<Content>>}

\* Displaced content is in the player, or recorded with what it is owed.
OwedMatches ==
  owed # None =>
    /\ ~ContentIn => originalMediaUrls = <<Content>> /\ owed = Kept
    /\ ContentIn /\ item.plan # None =>
         item.plan.pos = owed.pos /\ SeekRate(item.plan) = owed.rate
    /\ ContentIn /\ item.plan = None /\ item.status # "failed" => item.pos = owed.pos
    /\ \A p \in stale : SeekRate(p) = owed.rate
    /\ stopped /\ originalMediaUrls # <<>> => item = None

\* Of an ad but the first, a failure waits to be reported or was.
FailureMatches ==
  adItemsAttached /\ isAdPlaying /\ currentIndex > 0 /\ currentIndex < adCount =>
    /\ failed => reported \/ FailWaits(queue, Entry(currentIndex))
    /\ item.ours => item.watched \/ reported

InTurnInv ==
  /\ QueueMatches /\ CallerMatches /\ LoadedMatches /\ IndexMatches /\ AtRest
  /\ AttachedMatches /\ AdsMatch /\ RecordMatches /\ OwedMatches
  /\ FailureMatches

\* The order of the blocks, when one is appended, taken off or cancelled.
LEMMA AppendOrder ==
  ASSUME NEW q \in Seq(Blocks), NEW b \in Blocks, Ordered(q),
         b.kind \in {"load", "play", "stop"} => ~Has(q, b.kind),
         b.kind = "play" => ~Has(q, "stop")
  PROVE  /\ Ordered(Append(q, b))
         /\ \A k : Has(Append(q, b), k) <=> Has(q, k) \/ b.kind = k
         /\ \A u : FailWaits(q, u) => FailWaits(Append(q, b), u)
<1> DEFINE r == Append(q, b)
<1>1. Len(q) \in Nat /\ DOMAIN q = 1..Len(q) /\ DOMAIN r = 1..(Len(q) + 1)
  OBVIOUS
<1>2. r[Len(q) + 1] = b /\ \A i \in 1..Len(q) : r[i] = q[i]
  OBVIOUS
<1> HIDE DEF r
<1>3. Ordered(r)
  BY <1>1, <1>2 DEF Ordered, Has
<1>4. \A k : Has(r, k) <=> Has(q, k) \/ b.kind = k
  BY <1>1, <1>2 DEF Has
<1>5. \A u : FailWaits(q, u) => FailWaits(r, u)
  BY <1>1, <1>2 DEF FailWaits
<1> QED BY <1>3, <1>4, <1>5 DEF r

LEMMA TailOrder ==
  ASSUME NEW q \in Seq(Blocks), q # <<>>, Ordered(q)
  PROVE  /\ Ordered(Tail(q))
         /\ \A k : Has(q, k) <=> Has(Tail(q), k) \/ Head(q).kind = k
         /\ Head(q).kind \in {"load", "play", "stop"} => ~Has(Tail(q), Head(q).kind)
         /\ Head(q).kind = "stop" => ~Has(Tail(q), "play")
         /\ \A u : FailWaits(q, u) => \/ FailWaits(Tail(q), u)
                                      \/ Head(q).kind = "fail" /\ Head(q).url = u
<1> DEFINE t == Tail(q)
           h == Head(q)
<1>1. /\ Len(q) \in Nat \ {0} /\ DOMAIN q = 1..Len(q) /\ DOMAIN t = 1..(Len(q) - 1)
      /\ h = q[1] /\ \A i \in 1..(Len(q) - 1) : t[i] = q[i + 1]
  OBVIOUS
<1> HIDE DEF t, h
<1>2. Ordered(t)
  <2>1. \A i \in DOMAIN t : i \in Nat /\ i + 1 \in DOMAIN q /\ t[i] = q[i + 1]
    BY <1>1
  <2>2. ASSUME NEW i \in DOMAIN t, NEW j \in DOMAIN t
        PROVE  /\ t[i].kind = t[j].kind /\ t[i].kind \in {"load", "play", "stop"} => i = j
               /\ t[i].kind = "stop" /\ t[j].kind = "play" => j < i
    <3>1. t[i].kind = t[j].kind /\ t[i].kind \in {"load", "play", "stop"} => i + 1 = j + 1
      BY <2>1 DEF Ordered
    <3>2. t[i].kind = "stop" /\ t[j].kind = "play" => j + 1 < i + 1
      BY <2>1 DEF Ordered
    <3> QED BY <2>1, <3>1, <3>2
  <2> QED BY <2>2 DEF Ordered
<1>3. \A i \in DOMAIN q : i = 1 \/ (i - 1 \in DOMAIN t /\ q[i] = t[i - 1])
  BY <1>1
<1>4. \A k : Has(q, k) <=> Has(t, k) \/ h.kind = k
  BY <1>1, <1>3, SMTT(20) DEF Has
<1>5. h.kind \in {"load", "play", "stop"} => ~Has(t, h.kind)
  BY <1>1 DEF Has, Ordered
<1>6. h.kind = "stop" => ~Has(t, "play")
  BY <1>1 DEF Has, Ordered
<1>7. \A u : FailWaits(q, u) => FailWaits(t, u) \/ (h.kind = "fail" /\ h.url = u)
  BY <1>1, <1>3 DEF FailWaits
<1> QED BY <1>2, <1>4, <1>5, <1>6, <1>7 DEF t, h

LEMMA CancelOrder ==
  ASSUME QueueType, Ordered(queue)
  PROVE  /\ Ordered(LoadsCancelled) /\ ~Has(LoadsCancelled, "load")
         /\ \A k : k \notin {"load", "cancelled"} =>
              (Has(LoadsCancelled, k) <=> Has(queue, k))
         /\ \A u : FailWaits(queue, u) => FailWaits(LoadsCancelled, u)
<1> DEFINE c == LoadsCancelled
<1>1. DOMAIN c = DOMAIN queue
  BY DEF LoadsCancelled
<1>2. \A i \in DOMAIN queue :
        IF queue[i].kind = "load" THEN c[i].kind = "cancelled" ELSE c[i] = queue[i]
  BY DEF LoadsCancelled
<1> HIDE DEF c
<1>3. Ordered(c)
  BY <1>1, <1>2 DEF Ordered
<1>4. ~Has(c, "load")
  BY <1>1, <1>2 DEF Has
<1>5. \A k : k \notin {"load", "cancelled"} => (Has(c, k) <=> Has(queue, k))
  BY <1>1, <1>2 DEF Has
<1>6. \A u : FailWaits(queue, u) => FailWaits(c, u)
  BY <1>1, <1>2 DEF FailWaits
<1> QED BY <1>3, <1>4, <1>5, <1>6 DEF c

\* What the actions do to the queue.

LEMMA Popped ==
  ASSUME QueueType, Ordered(queue), NEW kind, Next1(kind)
  PROVE  /\ Ordered(queue') /\ Has(queue, kind)
         /\ \A k : Has(queue', k) => Has(queue, k)
         /\ \A k : k # kind => (Has(queue', k) <=> Has(queue, k))
         /\ kind \in {"load", "play", "stop"} => ~Has(queue', kind)
         /\ kind = "stop" => ~Has(queue', "play")
         /\ \A u : FailWaits(queue, u) => \/ FailWaits(queue', u)
                                          \/ kind = "fail" /\ Head(queue).url = u
BY TailOrder DEF QueueType, Next1

LEMMA CancelledAndPushed ==
  ASSUME QueueType, Ordered(queue), NEW b \in Blocks, b.kind \in {"load", "stop"},
         b.kind = "stop" => ~Has(queue, "stop"), queue' = Append(LoadsCancelled, b)
  PROVE  /\ Ordered(queue')
         /\ Has(queue', "load") <=> b.kind = "load"
         /\ \A k : k \notin {"load", "cancelled"} =>
              (Has(queue', k) <=> Has(queue, k) \/ b.kind = k)
         /\ \A u : FailWaits(queue, u) => FailWaits(queue', u)
BY CancelType, CancelOrder, AppendOrder

LEMMA FailurePushed ==
  ASSUME ItemType, QueueType, Ordered(queue), item # None, FailureSeen
  PROVE  /\ Ordered(queue')
         /\ \A k : k # "fail" => (Has(queue', k) <=> Has(queue, k))
         /\ \A u : FailWaits(queue, u) => FailWaits(queue', u)
         /\ item.watched => FailWaits(queue', item.url)
<1>1. CASE item.watched
  <2> DEFINE b == [kind |-> "fail", url |-> item.url]
  <2>1. queue' = Append(queue, b)
    BY <1>1 DEF FailureSeen, Dispatch
  <2>2. b \in Blocks
    BY BlockTypes DEF ItemType, Items
  <2>3. /\ Ordered(queue')
        /\ \A k : k # "fail" => (Has(queue', k) <=> Has(queue, k))
        /\ \A u : FailWaits(queue, u) => FailWaits(queue', u)
    BY <2>1, <2>2, AppendOrder DEF QueueType
  <2>4. FailWaits(queue', item.url)
    BY <2>1, <2>2 DEF FailWaits, QueueType
  <2> QED BY <2>3, <2>4
<1>2. CASE ~item.watched
  BY <1>2 DEF FailureSeen
<1> QED BY <1>1, <1>2

\* Which entries of the list are ads.
LEMMA AdPlays ==
  ASSUME ListType, AttachedMatches, adItemsAttached,
         currentIndex + 1 < Len(mediaUrls) \/ currentIndex < adCount
  PROVE  AdsNow
<1>1. currentIndex + 1 \in 1..adCount
  BY DEF ListType, AttachedMatches
<1> QED BY <1>1 DEF AttachedMatches, Entry, AdsNow

LEMMA NextIsAd ==
  ASSUME ListType, AttachedMatches, adItemsAttached, Entry(currentIndex + 1) = Content
  PROVE  currentIndex + 1 >= adCount
<1>1. currentIndex + 1 < adCount => currentIndex + 2 \in 1..adCount
  BY DEF ListType
<1> QED BY <1>1, UrlFacts DEF ListType, AttachedMatches, Entry

\* No break is loaded at first.
LEMMA InitInTurn == InTurn /\ Init => InTurnInv
<1> SUFFICES ASSUME InTurn, Init PROVE InTurnInv
  OBVIOUS
<1>1. \A k : ~Has(queue, k)
  BY DEF Init, Has
<1>2. Ordered(queue)
  BY DEF Init, Ordered
<1>3. item # None => item.url = Content /\ item.plan = None
  BY AppItemFields DEF Init
<1> QED
  BY <1>1, <1>2, <1>3, UrlFacts
     DEF Init, InTurnInv, QueueMatches, CallerMatches, LoadedMatches, IndexMatches,
         AtRest, AttachedMatches, AdsMatch, AdsNow, RecordMatches, OwedMatches,
         FailureMatches

\* Every step keeps what holds while breaks are in turn.
LEMMA StepInTurn == InTurn /\ TypeInv /\ InTurnInv /\ [Next]_vars => InTurnInv'
<1> SUFFICES ASSUME InTurn, TypeInv, InTurnInv, [Next]_vars PROVE InTurnInv'
  OBVIOUS
<1> USE NoneAssumption, UrlFacts, RateFacts
    DEF InTurn, TypeInv, ItemType, ListType, FlagType, SeekHasPlan, InTurnInv,
        QueueMatches, CallerMatches, LoadedMatches, IndexMatches, AtRest,
        AttachedMatches, AdsMatch, RecordMatches, OwedMatches, FailureMatches, AdsNow,
        ContentIn, Entry, Kept, SeekRate, StartRate, StaleNow,
        list, original, avPlayer, turn, phase
<1>1. /\ ItemType /\ QueueType /\ ListType /\ Ordered(queue)
      /\ originalPosition \in Nat
  BY PositionAssumption DEF Positions
<1>2. ASSUME NEW urls \in Breaks, Load(urls) PROVE InTurnInv'
  <2> DEFINE b == [kind |-> "load", urls |-> urls]
  <2>1. b \in Blocks /\ b.kind = "load" /\ queue' = Append(LoadsCancelled, b)
    BY <1>2, BreakTypes, BlockTypes DEF Load
  <2>2. ~Has(queue, "play") /\ ~Has(queue, "return")
    BY <1>2 DEF Load, Pending, Has
  <2>3. /\ Ordered(queue')
        /\ \A k : k \in {"play", "stop", "return"} => (Has(queue', k) <=> Has(queue, k))
        /\ \A u : FailWaits(queue, u) => FailWaits(queue', u)
    BY <1>1, <2>1, CancelledAndPushed
  <2> QED
    BY <1>2, <2>2, <2>3 DEF Load, Returning
<1>3. CASE Play
  <2>1. ~Has(queue, "play") /\ ~Has(queue, "stop")
    BY <1>3 DEF Play
  <2>2. Ordered(queue') /\ \A k : Has(queue', k) <=> Has(queue, k) \/ k = "play"
    BY <1>3, <1>1, <2>1, BlockTypes, AppendOrder DEF Play, Dispatch, QueueType
  <2> QED
    BY <1>3, <2>1, <2>2 DEF Play
<1>4. CASE StopIgnored
  BY <1>4 DEF StopIgnored, Stoppable
<1>5. CASE Stop
  <2>1. [kind |-> "stop"] \in Blocks /\ queue' = Append(LoadsCancelled, [kind |-> "stop"])
    BY <1>5, BlockTypes DEF Stop
  <2>2. /\ Ordered(queue') /\ ~Has(queue', "load")
        /\ \A k : k \in {"play", "stop", "return"} =>
             (Has(queue', k) <=> Has(queue, k) \/ k = "stop")
        /\ \A u : FailWaits(queue, u) => FailWaits(queue', u)
    BY <1>5, <1>1, <2>1, CancelledAndPushed DEF Stop, Stoppable
  <2> QED
    BY <1>5, <2>2 DEF Stop, Stoppable
<1>6. CASE StopOnMain
  <2>1. /\ Ordered(queue') /\ ~Has(queue', "load")
        /\ \A k : k \in {"play", "stop", "return"} => (Has(queue', k) <=> Has(queue, k))
    BY <1>6, <1>1, CancelOrder DEF StopOnMain
  <2>2. ReleasePlayer
    BY <1>6 DEF StopOnMain
  <2>3. /\ item' = None /\ stale' = StaleNow /\ isAdPlaying' = FALSE /\ hasPlayer'
        /\ adItemsAttached' = FALSE /\ prepared' = None /\ currentIndex' = 0
    BY <1>1, <2>2, ReleaseType
  <2> QED
    BY <1>6, <2>1, <2>3 DEF StopOnMain, Stoppable
<1>7. CASE ReturnToContent
  <2>1. Ordered(queue') /\ \A k : Has(queue', k) <=> Has(queue, k) \/ k = "return"
    BY <1>7, <1>1, BlockTypes, AppendOrder, SMTT(20) DEF ReturnToContent, Dispatch, QueueType
  <2> QED
    BY <1>7, <2>1 DEF ReturnToContent
<1>8. ASSUME Return, stopped, caller = "idle", Ordered(queue'),
             \A k : Has(queue', k) => Has(queue, k),
             \A k : k # "return" => (Has(queue', k) <=> Has(queue, k))
      PROVE  InTurnInv'
  <2>1. CASE hasPlayer /\ originalMediaUrls # <<>>
    <3>1. originalMediaUrls[1] = Content
      BY <2>1
    <3>2. /\ item' # None /\ stale' = StaleNow /\ originalMediaUrls' = <<>>
          /\ item'.url = Content
          /\ item'.plan = [index |-> 0, rate |-> originalRate, pos |-> originalPosition]
          /\ item'.plan # None
      BY <1>8, <1>1, <2>1, <3>1, ReturnType
    <3> QED
      BY <1>8, <2>1, <3>2 DEF Return
  <2>2. CASE ~(hasPlayer /\ originalMediaUrls # <<>>)
    BY <1>8, <2>2 DEF Return
  <2> QED BY <2>1, <2>2
<1>9. ASSUME NEW r \in {0, rate}, PlayItem(currentIndex + 1, r),
             adItemsAttached, currentIndex + 1 < Len(mediaUrls),
             UNCHANGED <<isAdPlaying, hasPlayer, mediaUrls, durations, adCount, original,
                         prepared, adItemsAttached, queue, caller, owed, phase>>
      PROVE  InTurnInv'
  <2>1. /\ item' # None /\ stale' = StaleNow
        /\ currentIndex' = currentIndex + 1 /\ failed' = FALSE
        /\ item'.url = Entry(currentIndex + 1) /\ item'.pos = 0
        /\ item'.watched = (currentIndex + 1 < adCount)
        /\ IF /\ currentIndex + 1 >= adCount
              /\ originalMediaUrls # <<>> /\ originalPosition > 0
             THEN /\ item'.plan = [index |-> currentIndex + 1, rate |-> 0,
                                   pos |-> originalPosition]
                  /\ item'.plan # None /\ rate' = r
             ELSE item'.plan = None /\ rate' = StartRate(currentIndex + 1)
    <3>1. currentIndex + 1 \in Nat /\ r \in Rates
      BY <1>9
    <3> QED BY <1>1, <1>9, <3>1, PlayItemType
  <2>2. /\ item # None /\ item.url \in Ads /\ ~stopped /\ stale = {}
        /\ item.plan = None /\ stale' = {}
        /\ owed # None => owed = Kept /\ originalMediaUrls = <<Content>>
        /\ originalRate \in Nat \ {0}
    <3>1. AdsNow
      BY <1>1, <1>9, AdPlays
    <3>2. stale = {} /\ item.plan = None /\ ~stopped
      BY <1>9, <3>1
    <3>3. owed # None => owed = Kept /\ originalMediaUrls = <<Content>>
      BY <1>9, <3>1
    <3>4. stale' = {} /\ originalRate \in Nat \ {0}
      BY <2>1, <3>2
    <3> QED BY <3>1, <3>2, <3>3, <3>4
  <2>3. /\ currentIndex \in Nat /\ adCount \in Nat /\ adItemsAttached
        /\ \A k \in 1..adCount : mediaUrls[k] \in Ads
    BY <1>9
  <2>4. currentIndex + 1 < adCount => Entry(currentIndex + 1) \in Ads
    BY ONLY <2>3 DEF Entry
  <2>5. item'.url = Content => currentIndex + 1 >= adCount
    BY ONLY <2>1, <2>3, <2>4, UrlFacts
  <2>6. owed # None /\ item'.url = Content /\ item'.plan = None => originalPosition = 0
    <3>1. originalPosition \in Nat
      BY <1>1
    <3>2. <<Content>> # <<>>
      OBVIOUS
    <3> QED BY ONLY <2>1, <2>2, <2>5, <3>1, <3>2
  <2>7. UNCHANGED <<owed, originalMediaUrls, originalPosition, originalRate, adCount>>
    BY <1>9
  <2>8. QueueMatches' /\ CallerMatches' /\ LoadedMatches' /\ IndexMatches' /\ AtRest'
    BY <1>1, <1>9, <2>1
  <2>9. AttachedMatches'
    BY <1>1, <1>9, <2>1
  <2>10. AdsMatch' /\ RecordMatches'
    BY <1>1, <1>9, <2>1
  <2>11. OwedMatches'
    <3>1. owed' # None => originalMediaUrls' = <<Content>> /\ owed' = Kept'
      BY ONLY <2>2, <2>7 DEF Kept
    <3>2. ContentIn' /\ owed' # None /\ item'.plan = None => item'.pos = owed'.pos
      BY ONLY <2>1, <2>2, <2>7, <2>6 DEF ContentIn, Kept
    <3>3. ContentIn' /\ owed' # None /\ item'.plan # None
            => item'.plan.pos = owed'.pos /\ (SeekRate(item.plan) = owed.rate)'
      BY ONLY <2>1, <2>2, <2>7, <2>5, <2>3 DEF ContentIn, Kept, SeekRate, StartRate
    <3>4. stale' = {} /\ ~stopped'
      BY <1>9, <2>2
    <3> QED BY ONLY <3>1, <3>2, <3>3, <3>4 DEF OwedMatches
  <2>12. FailureMatches'
    BY <1>1, <1>9, <2>1
  <2> QED BY <2>8, <2>9, <2>10, <2>11, <2>12
<1>10. CASE PlayedOut
  BY <1>10 DEF PlayedOut
<1>11. ASSUME NEW r \in {0, 1}, PauseResume(r) PROVE InTurnInv'
  BY <1>11 DEF PauseResume
<1>12. CASE SkipCancelled
  <2>1. /\ Ordered(queue')
        /\ \A k \in {"load", "play", "stop", "return"} : Has(queue', k) <=> Has(queue, k)
        /\ \A u : FailWaits(queue, u) => FailWaits(queue', u)
    BY <1>12, <1>1, Popped DEF SkipCancelled
  <2> QED
    BY <1>12, <2>1 DEF SkipCancelled
<1>13. CASE RunLoad
  <2> DEFINE urls == Head(queue).urls
  <2>1. urls \in Seq(Ads) \ {<<>>}
    BY <1>13, <1>1, HeadTypes DEF RunLoad
  <2>2. /\ Ordered(queue') /\ Has(queue, "load") /\ ~Has(queue', "load")
        /\ \A k \in {"play", "stop", "return"} : Has(queue', k) <=> Has(queue, k)
    BY <1>13, <1>1, Popped DEF RunLoad
  <2>3. /\ mediaUrls' = urls /\ adCount' = Len(urls) /\ durations' = Len(urls)
        /\ prepared' = urls[1]
        /\ UNCHANGED <<isAdPlaying, hasPlayer, item, rate, stale>>
    BY <1>13, <2>1 DEF RunLoad, Prepare
  <2> HIDE DEF urls
  <2> QED
    BY <1>13, <2>1, <2>2, <2>3 DEF RunLoad, NewTurn
<1>14. CASE RunPlay
  <2>1. /\ Ordered(queue') /\ Has(queue, "play") /\ ~Has(queue', "play")
        /\ \A k \in {"load", "stop", "return"} : Has(queue', k) <=> Has(queue, k)
    BY <1>14, <1>1, Popped DEF RunPlay
  <2>2. /\ ~adItemsAttached /\ prepared \in Ads \ {None} /\ stale = {}
        /\ item # None => item.url = Content /\ item.plan = None /\ ~item.seeking
    BY <2>1
  <2>3. /\ Attach /\ rate' = 1
        /\ caller' = IF caller = "starting" THEN "playing" ELSE caller
        /\ UNCHANGED <<isAdPlaying, adCount, currentIndex, prepared, stopped, asked>>
    BY <1>14, <2>2 DEF RunPlay
  <2>4. prepared \in Urls /\ prepared # None
    BY <2>2
  <2>5. /\ NewItem(prepared) \in Items /\ NewItem(prepared).url = prepared
        /\ NewItem(prepared).plan = None
    BY <2>4, NewItemFields
  <2>6. /\ item' = NewItem(prepared) /\ stale' = StaleNow
        /\ hasPlayer' /\ adItemsAttached' /\ failed' = FALSE
    BY <1>1, <2>3, <2>4, AttachType
  <2>7. /\ item' # None /\ item'.url = prepared /\ item'.plan = None /\ stale' = {}
        /\ hasPlayer' /\ adItemsAttached' /\ failed' = FALSE
    BY <2>2, <2>6, <2>5
  <2>8. IF item = None
          THEN /\ originalMediaUrls' = <<>> /\ mediaUrls' = mediaUrls
               /\ durations' = durations /\ owed' = None
          ELSE /\ originalMediaUrls' = <<Content>>
               /\ mediaUrls' = Append(mediaUrls, Content)
               /\ durations' = durations + 1 /\ owed' = Kept'
    BY <2>1, <2>2, <2>3 DEF Attach, Record
  <2>9. /\ currentIndex' = 0 /\ adCount' = Len(mediaUrls) /\ adCount' \in Nat \ {0}
        /\ mediaUrls'[1] = prepared
        /\ \A k \in 1..adCount' : mediaUrls'[k] \in Ads
        /\ item = None => Len(mediaUrls') = adCount'
        /\ item # None =>
             Len(mediaUrls') = adCount' + 1 /\ mediaUrls'[adCount' + 1] = Content
    <3>1. /\ mediaUrls \in Seq(Ads) \ {<<>>} /\ currentIndex = 0
          /\ adCount = Len(mediaUrls) /\ prepared = mediaUrls[1]
      BY <2>1
    <3>2. CASE item = None
      BY <2>3, <2>8, <3>1, <3>2
    <3>3. CASE item # None
      <4>1. /\ Len(Append(mediaUrls, Content)) = Len(mediaUrls) + 1
            /\ Append(mediaUrls, Content)[Len(mediaUrls) + 1] = Content
            /\ \A k \in 1..Len(mediaUrls) : Append(mediaUrls, Content)[k] = mediaUrls[k]
        OBVIOUS
      <4>2. /\ Len(mediaUrls) \in Nat \ {0}
            /\ \A k \in 1..Len(mediaUrls) : mediaUrls[k] \in Ads
        BY <3>1
      <4>3. mediaUrls' = Append(mediaUrls, Content)
        BY <2>8, <3>3
      <4>4. currentIndex' = 0 /\ adCount' = Len(mediaUrls)
        BY <2>3, <3>1
      <4> QED BY ONLY <3>1, <3>3, <4>1, <4>2, <4>3, <4>4
    <3> QED BY <3>2, <3>3
  <2> QED
    BY <2>1, <2>2, <2>3, <2>7, <2>8, <2>9
<1>15. CASE RunStop
  <2>1. /\ Ordered(queue')
        /\ Has(queue, "stop") /\ ~Has(queue', "stop") /\ ~Has(queue', "play")
        /\ \A k \in {"load", "play", "return"} : Has(queue', k) <=> Has(queue, k)
    BY <1>15, <1>1, Popped DEF RunStop
  <2>2. ReleasePlayer
    BY <1>15 DEF RunStop
  <2>3. /\ item' = None /\ stale' = StaleNow /\ isAdPlaying' = FALSE /\ hasPlayer'
        /\ adItemsAttached' = FALSE /\ prepared' = None /\ currentIndex' = 0
    BY <1>1, <2>2, ReleaseType
  <2> QED
    BY <1>15, <2>1, <2>3 DEF RunStop
<1>16. CASE RunFail
  <2>1. /\ Ordered(queue')
        /\ \A k \in {"load", "play", "stop", "return"} : Has(queue', k) <=> Has(queue, k)
        /\ \A u : FailWaits(queue, u) => FailWaits(queue', u) \/ Head(queue).url = u
    BY <1>16, <1>1, Popped DEF RunFail
  <2>2. /\ QueueMatches' /\ CallerMatches' /\ LoadedMatches' /\ IndexMatches'
        /\ AtRest' /\ AttachedMatches'
    BY <1>16, <2>1, <1>1, ReportFields DEF RunFail, FailureCounts
  <2>3. AdsMatch' /\ RecordMatches' /\ OwedMatches'
    BY <1>16, <2>1, <1>1, ReportFields DEF RunFail, FailureCounts
  <2>4. FailureMatches'
    BY <1>16, <2>1, <1>1, ReportFields DEF RunFail, FailureCounts
  <2> QED BY <2>2, <2>3, <2>4
<1>17. CASE ItemReady
  BY <1>17, <1>1, ReadyFields DEF ItemReady, Idle
<1>18. CASE ItemFails
  BY <1>18, <1>1, FailsFields, FailurePushed DEF ItemFails, Idle, FailureSeen
<1>19. CASE ItemFailedToPlayToEnd
  BY <1>19, <1>1, FailurePushed DEF ItemFailedToPlayToEnd, Idle, FailureSeen
<1>20. PlayNextItem \/ (ItemEnds /\ item.ends /\ HasNext) => InTurnInv'
  <2>1. CASE PlayNextItem
    <3>1. adItemsAttached /\ currentIndex + 1 < Len(mediaUrls)
      BY <2>1 DEF PlayNextItem
    <3> QED BY <1>9, <2>1, <3>1 DEF PlayNextItem
  <2>2. CASE ItemEnds /\ item.ends /\ HasNext
    <3>1. adItemsAttached /\ currentIndex + 1 < Len(mediaUrls)
      BY <2>2 DEF ItemEnds, HasNext
    <3> QED BY <1>9, <2>2, <3>1 DEF ItemEnds, Idle
  <2> QED BY <2>1, <2>2
<1>21. CASE ItemEnds /\ ~(item.ends /\ HasNext)
  BY <1>21, <1>1, EndFields, SMTT(20) DEF ItemEnds, Idle
<1>22. CASE SeekCompletes
  BY <1>22, <1>1, SeekFields DEF SeekCompletes, Idle
<1>23. ASSUME NEW p \in stale, StaleSeekCompletes(p) PROVE InTurnInv'
  BY <1>23 DEF StaleSeekCompletes, Idle
<1>24. CASE RecoverySwaps
  BY <1>24, <1>1, RecoveryFields DEF RecoverySwaps, Idle
<1>25. ASSUME NEW r \in Rates, AppPlays(r) PROVE InTurnInv'
  BY <1>25, <1>1, AppFields, AppItemFields DEF AppPlays, Idle
<1>26. CASE UNCHANGED vars
  BY <1>26 DEF vars
<1>27. ReturnOnMain \/ RunReturn => InTurnInv'
  <2>1. CASE ReturnOnMain
    BY <1>8, <2>1 DEF ReturnOnMain
  <2>2. CASE RunReturn
    <3>1. Next1("return") /\ Return
      BY <2>2 DEF RunReturn
    <3>2. /\ Ordered(queue') /\ Has(queue, "return")
          /\ \A k : Has(queue', k) => Has(queue, k)
          /\ \A k : k # "return" => (Has(queue', k) <=> Has(queue, k))
      BY <1>1, <3>1, Popped
    <3>3. caller = "idle" /\ stopped
      BY <3>2
    <3> QED BY <1>8, <3>1, <3>2, <3>3
  <2> QED BY <2>1, <2>2
<1>28. Core => InTurnInv'
  BY <1>2, <1>3, <1>4, <1>5, <1>6, <1>7, <1>10, <1>11, <1>20, <1>27
     DEF Core, EnqueueNextItem, RemoveNextItem
<1>29. RunMain => InTurnInv'
  BY <1>12, <1>13, <1>14, <1>15, <1>16, <1>27 DEF RunMain
<1>30. AVPlayer => InTurnInv'
  BY <1>17, <1>18, <1>19, <1>20, <1>21, <1>22, <1>23 DEF AVPlayer, ItemLoads
<1> QED
  BY <1>24, <1>25, <1>26, <1>28, <1>29, <1>30 DEF Next

\* What holds while breaks are in turn holds throughout.
THEOREM InTurnCorrect == ASSUME InTurn PROVE Spec => [](TypeInv /\ InTurnInv)
BY InTurn, InitType, StepType, InitInTurn, StepInTurn, PTL DEF Spec

\* An ad plays at normal speed, whatever the speed of the content was.
THEOREM SpeedCorrect == ASSUME InTurn PROVE Spec => []AdsAtNormalSpeed
<1>1. TypeInv /\ InTurnInv => AdsAtNormalSpeed
  BY DEF InTurnInv, AdsMatch, AdsNow, AdsAtNormalSpeed
<1> QED BY <1>1, InTurnCorrect, PTL

\* The failure of an ad but the first waits to be reported or was.
THEOREM FailureCorrect == ASSUME InTurn PROVE Spec => []LaterFailureReported
<1>1. TypeInv /\ InTurnInv => LaterFailureReported
  BY DEF TypeInv, ListType, InTurnInv, FailureMatches, FailWaits, LaterFailureReported,
         FailureReported
<1> QED BY <1>1, InTurnCorrect, PTL

------------------------------------------------------------------------------
\* The tables of a list that may be edited, in either player.

\* A break is loaded when no block of the last one waits, and the content does not come
\* to its end meanwhile.
Undisturbed == Cases \cap {"pending", "outro"} = {}

\* In the app's player: which blocks may wait at each place of the core, ...
BlocksMatch ==
  External =>
    /\ Ordered(queue)
    /\ Has(queue, "load") =>
         /\ caller = "loading" \/ (caller = "idle" /\ ~hasPlayer)
         /\ ~Has(queue, "play") /\ ~Has(queue, "return")
    /\ Has(queue, "play") => caller \in {"starting", "idle", "stopping"}
    /\ Has(queue, "return") => caller \in {"idle", "stopping"} /\ stopped
    /\ Has(queue, "stop") <=> caller = "stopping"

\* ... and that a play() which waits behind a stop finds nothing to attach.
StoppedMatches ==
  External /\ stopped =>
    /\ hasPlayer /\ ~adItemsAttached
    /\ Has(queue, "play") => prepared = None

\* The item in the player is the current entry of the list; until the ads are attached
\* the first of them is.
EntryMatches ==
  /\ External =>
       /\ adItemsAttached => item # None
       /\ caller = "playing" => adItemsAttached
       /\ ~adItemsAttached /\ prepared # None =>
            mediaUrls # <<>> /\ prepared = Entry(0) /\ currentIndex = 0
  /\ ~External => originalMediaUrls = <<>>
  /\ adItemsAttached /\ item # None =>
       currentIndex < Len(mediaUrls) /\ item.url = Entry(currentIndex)

ListMatches ==
  /\ durations = Len(mediaUrls)
  /\ IF mediaUrls = <<>> THEN currentIndex = 0 ELSE currentIndex < Len(mediaUrls)

TablesInv == BlocksMatch /\ StoppedMatches /\ EntryMatches /\ ListMatches

LEMMA InitTables == Init => TablesInv
<1> SUFFICES ASSUME Init PROVE TablesInv
  OBVIOUS
<1>1. queue = <<>> /\ DOMAIN queue = {}
  BY DEF Init
<1>2. Ordered(queue) /\ \A k : ~Has(queue, k)
  BY <1>1 DEF Ordered, Has
<1> QED
  BY <1>2 DEF Init, TablesInv, BlocksMatch, StoppedMatches, EntryMatches, ListMatches

\* The list without an entry that is not the current one.
LEMMA RemovedTables ==
  ASSUME TypeInv, ListMatches, NEW u \in Ads, RemoveNextItem(u)
  PROVE  /\ ListMatches' /\ currentIndex < Len(mediaUrls)
         /\ currentIndex' < Len(mediaUrls') /\ Entry(currentIndex)' = Entry(currentIndex)
<1> DEFINE k == SelectInSeq(mediaUrls, LAMBDA v : v = u)
<1>1. k \in 1..Len(mediaUrls)
  BY EntryFound, UrlFacts DEF RemoveNextItem, TypeInv, ListType
<1>2. k # currentIndex + 1 /\ RemoveEntry(k)
  BY DEF RemoveNextItem
<1> HIDE DEF k
<1>3. /\ mediaUrls' = RemoveAt(mediaUrls, k)
      /\ durations' = IF k <= durations THEN durations - 1 ELSE durations
      /\ currentIndex' = IF k <= currentIndex THEN currentIndex - 1 ELSE currentIndex
  BY <1>2 DEF RemoveEntry
<1>4. /\ mediaUrls' \in Seq(Urls) /\ Len(mediaUrls') = Len(mediaUrls) - 1
      /\ \A n \in 1..Len(mediaUrls') :
           /\ n < k => mediaUrls'[n] = mediaUrls[n]
           /\ n >= k => mediaUrls'[n] = mediaUrls[n + 1]
  BY <1>1, <1>3, RemoveAtFacts DEF TypeInv, ListType
<1>5. /\ Len(mediaUrls) \in Nat \ {0} /\ currentIndex \in Nat /\ mediaUrls # <<>>
      /\ currentIndex < Len(mediaUrls) /\ durations = Len(mediaUrls)
  BY <1>1 DEF TypeInv, ListType, ListMatches
<1>6. durations' = Len(mediaUrls')
  BY <1>1, <1>3, <1>4, <1>5
<1>7. currentIndex' \in Nat /\ currentIndex' < Len(mediaUrls') /\ mediaUrls' # <<>>
  BY <1>1, <1>2, <1>3, <1>4, <1>5
<1>8. mediaUrls'[currentIndex' + 1] = mediaUrls[currentIndex + 1]
  <2>1. currentIndex' + 1 \in 1..Len(mediaUrls')
    <3>1. Len(mediaUrls') \in Nat
      BY <1>4, <1>5
    <3>2. \A c, n \in Nat : c < n => c + 1 \in 1..n
      OBVIOUS
    <3> QED BY <1>7, <3>1, <3>2
  <2>2. CASE k <= currentIndex
    <3>1. currentIndex' + 1 = currentIndex /\ currentIndex' + 1 >= k
      BY <1>1, <1>3, <1>5, <2>2
    <3> QED BY <1>4, <2>1, <3>1
  <2>3. CASE k > currentIndex
    <3>1. currentIndex' + 1 = currentIndex + 1 /\ currentIndex' + 1 < k
      BY <1>1, <1>2, <1>3, <1>5, <2>3
    <3> QED BY <1>4, <2>1, <3>1
  <2> QED BY <1>1, <1>5, <2>2, <2>3
<1> QED
  BY <1>5, <1>6, <1>7, <1>8 DEF ListMatches, Entry

\* An entry of the list that goes on.
LEMMA PlayedTables ==
  ASSUME TypeInv, ListMatches, NEW r \in Rates, PlayItem(currentIndex + 1, r),
         currentIndex < Len(mediaUrls) - 1, UNCHANGED <<mediaUrls, durations>>
  PROVE  /\ ListMatches' /\ item' # None
         /\ currentIndex' < Len(mediaUrls') /\ item'.url = Entry(currentIndex)'
<1>1. /\ currentIndex + 1 \in Nat /\ currentIndex + 1 < Len(mediaUrls)
      /\ mediaUrls # <<>> /\ durations = Len(mediaUrls)
  BY DEF TypeInv, ListType, ListMatches
<1>2. currentIndex' = currentIndex + 1 /\ item' # None /\ item'.url = Entry(currentIndex + 1)
  BY <1>1, PlayItemType DEF TypeInv
<1> QED BY <1>1, <1>2 DEF ListMatches, Entry

\* The blocks that wait, in the app's player.
LEMMA StepBlocks ==
  Undisturbed /\ TypeInv /\ TablesInv /\ [Next]_vars => BlocksMatch' /\ StoppedMatches'
<1> SUFFICES ASSUME Undisturbed, TypeInv, TablesInv, [Next]_vars, External
             PROVE  BlocksMatch' /\ StoppedMatches'
  BY DEF BlocksMatch, StoppedMatches
<1> USE DEF list, original, avPlayer, turn, phase
<1>1. /\ QueueType /\ ItemType /\ Ordered(queue)
      /\ "pending" \notin Cases
  BY DEF TypeInv, TablesInv, BlocksMatch, Undisturbed
<1> DEFINE P == BlocksMatch' /\ StoppedMatches'
<1>2. ASSUME UNCHANGED <<hasPlayer, caller, stopped, adItemsAttached, prepared>>,
             Ordered(queue'), \A k \in {"load", "play", "return", "stop"} :
                                Has(queue', k) <=> Has(queue, k)
      PROVE  P
  BY <1>2 DEF TablesInv, BlocksMatch, StoppedMatches
<1>3. ASSUME UNCHANGED <<hasPlayer, caller, stopped, adItemsAttached, prepared, queue>>
      PROVE  P
  BY <1>1, <1>2, <1>3
<1>4. ASSUME NEW urls \in Breaks, Load(urls) PROVE P
  <2> DEFINE b == [kind |-> "load", urls |-> urls]
  <2>1. b \in Blocks /\ b.kind = "load"
    BY BreakTypes, BlockTypes
  <2>2. /\ queue' = Append(LoadsCancelled, b) /\ caller' = "loading" /\ ~Pending
        /\ caller # "stopping"
        /\ UNCHANGED <<hasPlayer, stopped, adItemsAttached, prepared>>
    BY <1>1, <1>4 DEF Load
  <2> HIDE DEF b
  <2>3. /\ Ordered(queue')
        /\ \A k \in {"play", "return", "stop"} : Has(queue', k) <=> Has(queue, k)
    BY <1>1, <2>1, <2>2, CancelledAndPushed
  <2>4. ~Has(queue, "play") /\ ~Has(queue, "return")
    BY <2>2 DEF Pending, Has
  <2> QED BY <2>2, <2>3, <2>4 DEF TablesInv, BlocksMatch, StoppedMatches
<1>5. CASE Play
  <2> DEFINE b == [kind |-> "play"]
  <2>1. b \in Blocks /\ b.kind = "play"
    BY BlockTypes
  <2>2. /\ queue' = Append(queue, b) /\ caller = "loaded" /\ caller' = "starting"
        /\ stopped' = FALSE
    BY <1>5 DEF Play, Dispatch
  <2> HIDE DEF b
  <2>3. \A k \in {"load", "play", "return", "stop"} : ~Has(queue, k)
    BY <2>2 DEF TablesInv, BlocksMatch
  <2>4. /\ Ordered(queue')
        /\ \A k : Has(queue', k) <=> Has(queue, k) \/ b.kind = k
    BY <1>1, <2>1, <2>2, <2>3, AppendOrder DEF QueueType
  <2> QED BY <2>1, <2>2, <2>3, <2>4 DEF BlocksMatch, StoppedMatches
<1>6. CASE StopIgnored
  BY <1>6 DEF StopIgnored, Stoppable, TablesInv, BlocksMatch, StoppedMatches
<1>7. CASE Stop
  <2> DEFINE b == [kind |-> "stop"]
  <2>1. b \in Blocks /\ b.kind = "stop"
    BY BlockTypes
  <2>2. /\ queue' = Append(LoadsCancelled, b) /\ caller # "stopping"
        /\ caller' = "stopping"
        /\ UNCHANGED <<hasPlayer, stopped, adItemsAttached, prepared>>
    BY <1>7 DEF Stop, Stoppable
  <2> HIDE DEF b
  <2>3. ~Has(queue, "stop")
    BY <2>2 DEF TablesInv, BlocksMatch
  <2>4. /\ Ordered(queue') /\ ~Has(queue', "load") /\ Has(queue', "stop")
        /\ \A k \in {"play", "return"} : Has(queue', k) <=> Has(queue, k)
    BY <1>1, <2>1, <2>2, <2>3, CancelledAndPushed
  <2> QED BY <2>2, <2>4 DEF TablesInv, BlocksMatch, StoppedMatches
<1>8. CASE StopOnMain
  <2>1. queue' = LoadsCancelled /\ caller # "stopping" /\ caller' = "idle" /\ stopped'
    BY <1>8 DEF StopOnMain, Stoppable
  <2>2. hasPlayer' /\ ~adItemsAttached' /\ prepared' = None
    BY <1>1, <1>8, ReleaseType DEF StopOnMain
  <2>3. /\ Ordered(queue') /\ ~Has(queue', "load")
        /\ \A k \in {"play", "return", "stop"} : Has(queue', k) <=> Has(queue, k)
    BY <1>1, <2>1, CancelOrder
  <2> QED BY <2>1, <2>2, <2>3 DEF TablesInv, BlocksMatch, StoppedMatches
<1>9. CASE ReturnToContent
  <2> DEFINE b == [kind |-> "return"]
  <2>1. b \in Blocks /\ b.kind = "return"
    BY BlockTypes
  <2>2. /\ queue' = Append(queue, b) /\ caller = "idle" /\ stopped
        /\ UNCHANGED <<caller, stopped, hasPlayer, adItemsAttached, prepared>>
    BY <1>9 DEF ReturnToContent, Dispatch
  <2> HIDE DEF b
  <2>3. /\ Ordered(queue')
        /\ \A k : Has(queue', k) <=> Has(queue, k) \/ b.kind = k
    BY <1>1, <2>1, <2>2, AppendOrder DEF QueueType
  <2> QED BY <2>1, <2>2, <2>3 DEF TablesInv, BlocksMatch, StoppedMatches
<1>10. CASE ReturnOnMain
  BY <1>3, <1>10 DEF ReturnOnMain, Return
<1>11. ASSUME NEW u \in Ads, EnqueueNextItem(u) \/ RemoveNextItem(u) PROVE P
  BY <1>3, <1>11 DEF EnqueueNextItem, RemoveNextItem
<1>12. CASE PlayNextItem
  BY <1>3, <1>12 DEF PlayNextItem
<1>13. CASE PlayedOut
  BY <1>13 DEF PlayedOut, TablesInv, BlocksMatch, StoppedMatches
<1>14. ASSUME NEW r \in {0, 1}, PauseResume(r) PROVE P
  BY <1>3, <1>14 DEF PauseResume
<1>15. CASE SkipCancelled
  <2>1. /\ Ordered(queue')
        /\ \A k \in {"load", "play", "return", "stop"} : Has(queue', k) <=> Has(queue, k)
    BY <1>1, <1>15, Popped DEF SkipCancelled
  <2> QED BY <1>2, <1>15, <2>1 DEF SkipCancelled
<1>16. CASE RunLoad
  <2>1. /\ Ordered(queue') /\ Has(queue, "load") /\ ~Has(queue', "load")
        /\ \A k \in {"play", "return", "stop"} : Has(queue', k) <=> Has(queue, k)
    BY <1>1, <1>16, Popped DEF RunLoad
  <2>2. /\ caller' = IF caller = "loading" THEN "loaded" ELSE caller
        /\ adItemsAttached' = FALSE /\ UNCHANGED <<hasPlayer, stopped>>
    BY <1>16 DEF RunLoad, Prepare
  <2> QED BY <2>1, <2>2 DEF TablesInv, BlocksMatch, StoppedMatches
<1>17. CASE RunPlay
  <2>1. /\ Ordered(queue') /\ Has(queue, "play") /\ ~Has(queue', "play")
        /\ \A k \in {"load", "return", "stop"} : Has(queue', k) <=> Has(queue, k)
    BY <1>1, <1>17, Popped DEF RunPlay
  <2>2. UNCHANGED <<stopped, prepared>>
    BY <1>17 DEF RunPlay
  <2>3. caller' = caller \/ (caller = "starting" /\ caller' = "playing")
    BY <1>17 DEF RunPlay
  <2>4. \/ UNCHANGED <<hasPlayer, adItemsAttached>>
        \/ prepared # None /\ hasPlayer' = TRUE
    BY <1>17 DEF RunPlay, Attach
  <2> QED BY <2>1, <2>2, <2>3, <2>4 DEF TablesInv, BlocksMatch, StoppedMatches
<1>18. CASE RunStop
  <2>1. /\ Ordered(queue') /\ Has(queue, "stop") /\ ~Has(queue', "stop")
        /\ ~Has(queue', "play")
        /\ \A k \in {"load", "return"} : Has(queue', k) <=> Has(queue, k)
    BY <1>1, <1>18, Popped DEF RunStop
  <2>2. /\ hasPlayer' /\ ~adItemsAttached' /\ prepared' = None
        /\ stopped' /\ caller' = "idle"
    BY <1>1, <1>18, ReleaseType DEF RunStop
  <2> QED BY <2>1, <2>2 DEF TablesInv, BlocksMatch, StoppedMatches
<1>19. CASE RunReturn
  <2>1. /\ Ordered(queue')
        /\ \A k : Has(queue', k) => Has(queue, k)
        /\ \A k \in {"load", "play", "stop"} : Has(queue', k) <=> Has(queue, k)
    BY <1>1, <1>19, Popped DEF RunReturn
  <2>2. UNCHANGED <<hasPlayer, caller, stopped, adItemsAttached, prepared>>
    BY <1>19 DEF RunReturn, Return
  <2> QED BY <2>1, <2>2 DEF TablesInv, BlocksMatch, StoppedMatches
<1>20. CASE RunFail
  <2>1. /\ Ordered(queue')
        /\ \A k \in {"load", "play", "return", "stop"} : Has(queue', k) <=> Has(queue, k)
    BY <1>1, <1>20, Popped DEF RunFail
  <2> QED BY <1>2, <1>20, <2>1 DEF RunFail
<1>21. CASE ItemFails \/ ItemFailedToPlayToEnd
  <2>1. item # None /\ FailureSeen /\ Idle
    BY <1>21 DEF ItemFails, ItemFailedToPlayToEnd
  <2>2. /\ Ordered(queue')
        /\ \A k \in {"load", "play", "return", "stop"} : Has(queue', k) <=> Has(queue, k)
    BY <1>1, <2>1, FailurePushed
  <2> QED BY <1>2, <2>1, <2>2 DEF Idle
<1>22. CASE ItemReady \/ ItemEnds \/ SeekCompletes \/ RecoverySwaps
  BY <1>3, <1>22 DEF ItemReady, ItemEnds, SeekCompletes, RecoverySwaps, Idle
<1>23. ASSUME NEW p \in stale, StaleSeekCompletes(p) PROVE P
  BY <1>3, <1>23 DEF StaleSeekCompletes, Idle
<1>24. ASSUME NEW r \in Rates, AppPlays(r) PROVE P
  BY <1>3, <1>24 DEF AppPlays, Idle
<1>25. CASE UNCHANGED vars
  BY <1>3, <1>25 DEF vars
<1>26. Core => P
  BY <1>4, <1>5, <1>6, <1>7, <1>8, <1>9, <1>10, <1>11, <1>12, <1>13, <1>14 DEF Core
<1>27. RunMain => P
  BY <1>15, <1>16, <1>17, <1>18, <1>19, <1>20 DEF RunMain
<1>28. AVPlayer => P
  BY <1>21, <1>22, <1>23 DEF AVPlayer, ItemLoads
<1>29. P
  BY <1>22, <1>24, <1>25, <1>26, <1>27, <1>28 DEF Next
<1> QED BY <1>29

\* The list, and the item in the player.
LEMMA StepTables ==
  Undisturbed /\ TypeInv /\ TablesInv /\ [Next]_vars => EntryMatches' /\ ListMatches'
<1> SUFFICES ASSUME Undisturbed, TypeInv, TablesInv, [Next]_vars
             PROVE  EntryMatches' /\ ListMatches'
  OBVIOUS
<1> USE DEF list, original, avPlayer, turn, phase
<1> DEFINE P == EntryMatches' /\ ListMatches'
<1>1. /\ ItemType /\ QueueType /\ ListType /\ ListMatches /\ EntryMatches
      /\ BlocksMatch /\ StoppedMatches
  BY DEF TypeInv, TablesInv
<1>2. ASSUME UNCHANGED <<mediaUrls, durations, currentIndex, originalMediaUrls, prepared,
                         adItemsAttached>>,
             caller' \in {caller, "idle", "loading", "loaded", "starting", "stopping"},
             item' = None <=> item = None, item # None => item'.url = item.url
      PROVE  P
  BY <1>1, <1>2 DEF EntryMatches, ListMatches, Entry
<1>3. ASSUME UNCHANGED <<list, originalMediaUrls, prepared, adItemsAttached, item>>,
             caller' \in {caller, "idle", "loading", "loaded", "starting", "stopping"}
      PROVE  P
  BY <1>2, <1>3
<1>4. ASSUME ReleasePlayer, UNCHANGED <<mediaUrls, durations, originalMediaUrls>>,
             caller' = "idle"
      PROVE  P
  <2>1. item' = None /\ adItemsAttached' = FALSE /\ prepared' = None /\ currentIndex' = 0
    BY <1>1, <1>4, ReleaseType
  <2>2. mediaUrls # <<>> => 0 < Len(mediaUrls)
    BY <1>1 DEF ListType
  <2> QED BY <1>1, <1>4, <2>1, <2>2 DEF EntryMatches, ListMatches
<1>5. ASSUME Return, External => stopped PROVE P
  <2>1. UNCHANGED <<list, prepared, adItemsAttached, caller>>
    BY <1>5 DEF Return
  <2>2. CASE External
    BY <1>1, <1>5, <2>1, <2>2 DEF EntryMatches, ListMatches, StoppedMatches, Entry
  <2>3. CASE ~External
    <3>1. UNCHANGED <<item, originalMediaUrls>>
      BY <1>1, <1>5, <2>3 DEF EntryMatches, Return
    <3> QED BY <1>3, <2>1, <3>1
  <2> QED BY <2>2, <2>3
<1>6. ASSUME NEW r \in Rates, PlayItem(currentIndex + 1, r), HasNext,
             UNCHANGED <<mediaUrls, durations, originalMediaUrls, prepared,
                         adItemsAttached, caller>>,
             External => adItemsAttached
      PROVE  P
  BY <1>1, <1>6, PlayedTables DEF HasNext, EntryMatches, TypeInv
<1>7. ASSUME NEW urls \in Breaks, Load(urls) PROVE P
  BY <1>3, <1>7 DEF Load
<1>8. CASE Play \/ StopIgnored \/ Stop \/ ReturnToContent \/ PlayedOut
  BY <1>3, <1>8 DEF Play, StopIgnored, Stop, ReturnToContent, PlayedOut
<1>9. CASE StopOnMain
  BY <1>4, <1>9 DEF StopOnMain
<1>10. CASE ReturnOnMain
  BY <1>5, <1>10 DEF ReturnOnMain
<1>11. ASSUME NEW u \in Ads, EnqueueNextItem(u) PROVE P
  <2>1. /\ mediaUrls' = Append(mediaUrls, u) /\ durations' = durations + 1
        /\ UNCHANGED <<currentIndex, originalMediaUrls, prepared, adItemsAttached, item,
                       caller>>
        /\ caller = "playing"
    BY <1>11 DEF EnqueueNextItem
  <2>2. /\ Len(mediaUrls') = Len(mediaUrls) + 1 /\ mediaUrls' # <<>>
        /\ \A n \in 1..Len(mediaUrls) : mediaUrls'[n] = mediaUrls[n]
        /\ Len(mediaUrls) \in Nat /\ currentIndex \in Nat
        /\ mediaUrls = <<>> => Len(mediaUrls) = 0
    BY <1>1, <2>1 DEF ListType
  <2>3. ListMatches'
    BY <1>1, <2>1, <2>2 DEF ListMatches
  <2>4. currentIndex < Len(mediaUrls) =>
          currentIndex < Len(mediaUrls') /\ Entry(currentIndex)' = Entry(currentIndex)
    BY <2>1, <2>2 DEF Entry
  <2> QED BY <1>1, <2>1, <2>3, <2>4 DEF EntryMatches
<1>12. ASSUME NEW u \in Ads, RemoveNextItem(u) PROVE P
  <2>1. /\ ListMatches' /\ currentIndex' < Len(mediaUrls')
        /\ Entry(currentIndex)' = Entry(currentIndex)
    BY <1>1, <1>12, RemovedTables
  <2>2. /\ caller = "playing"
        /\ UNCHANGED <<originalMediaUrls, prepared, adItemsAttached, item, caller>>
    BY <1>12 DEF RemoveNextItem
  <2> QED BY <1>1, <2>1, <2>2 DEF EntryMatches
<1>13. CASE PlayNextItem
  <2>1. rate \in Rates /\ (External => adItemsAttached)
    BY <1>1, <1>13 DEF ItemType, EntryMatches, PlayNextItem
  <2> QED BY <1>6, <1>13, <2>1 DEF PlayNextItem, HasNext
<1>14. ASSUME NEW r \in {0, 1}, PauseResume(r) PROVE P
  BY <1>3, <1>14 DEF PauseResume
<1>15. CASE SkipCancelled
  BY <1>3, <1>15 DEF SkipCancelled
<1>16. CASE RunLoad
  <2> DEFINE urls == Head(queue).urls
  <2>1. urls \in Seq(Ads) \ {<<>>}
    BY <1>1, <1>16, HeadTypes DEF RunLoad
  <2>2. /\ mediaUrls' = urls /\ durations' = Len(urls) /\ currentIndex' = 0
        /\ prepared' = Head(urls) /\ Prepare(Head(urls))
        /\ adItemsAttached' = ~External /\ originalMediaUrls' = <<>>
        /\ caller' = IF caller = "loading" THEN "loaded" ELSE caller
    BY <1>16 DEF RunLoad
  <2> HIDE DEF urls
  <2>3. urls # <<>> /\ 0 < Len(urls) /\ Head(urls) = urls[1] /\ Head(urls) \in Urls
    BY <2>1, UrlFacts
  <2>4. ListMatches' /\ Entry(0)' = Head(urls)
    BY <2>2, <2>3 DEF ListMatches, Entry
  <2>5. CASE External
    <3>1. Has(queue, "load")
      BY <1>1, <1>16, <2>5, Popped DEF RunLoad, BlocksMatch
    <3>2. caller' # "playing"
      BY <1>1, <2>2, <2>5, <3>1 DEF BlocksMatch
    <3> QED BY <2>2, <2>3, <2>4, <2>5, <3>2 DEF EntryMatches, Entry
  <2>6. CASE ~External
    <3>1. Replace(NewItem(Head(urls)))
      BY <2>2, <2>6 DEF Prepare
    <3>2. item'.url = Head(urls)
      BY <2>3, <3>1, NewItemFields DEF Replace
    <3> QED BY <2>2, <2>3, <2>4, <2>6, <3>2 DEF EntryMatches, Entry
  <2> QED BY <2>5, <2>6
<1>17. CASE RunPlay
  <2>1. UNCHANGED <<currentIndex, prepared>>
    BY <1>17 DEF RunPlay
  <2>2. CASE ~(External /\ ~adItemsAttached /\ prepared # None)
    <3>1. UNCHANGED <<mediaUrls, durations, originalMediaUrls, adItemsAttached, item>>
      BY <1>17, <2>2 DEF RunPlay
    <3>2. \/ caller' = caller
          \/ External => adItemsAttached
      BY <1>17, <2>2 DEF RunPlay
    <3> QED BY <1>1, <2>1, <3>1, <3>2 DEF EntryMatches, ListMatches, Entry
  <2>3. CASE External /\ ~adItemsAttached /\ prepared # None
    <3>1. Attach /\ rate' = 1
      BY <1>17, <2>3 DEF RunPlay
    <3>2. item' = NewItem(prepared) /\ adItemsAttached' = TRUE
      BY <1>1, <2>3, <3>1, AttachType
    <3>3. mediaUrls # <<>> /\ prepared = Entry(0) /\ currentIndex = 0
      BY <1>1, <2>3 DEF EntryMatches
    <3>4. prepared \in Urls
      BY <1>1, <2>3, UrlFacts DEF ListType
    <3>5. item' # None /\ item'.url = prepared
      BY <3>2, <3>4, NewItemFields, NoneAssumption
    <3>6. /\ durations' = Len(mediaUrls') /\ 0 < Len(mediaUrls') /\ mediaUrls' # <<>>
          /\ mediaUrls'[1] = mediaUrls[1]
      <4>1. CASE item = None
        <5>1. mediaUrls' = mediaUrls /\ durations' = durations
          BY <3>1, <4>1 DEF Attach
        <5> QED BY <1>1, <3>3, <5>1 DEF ListMatches, ListType
      <4>2. CASE item # None
        <5>1. mediaUrls' = Append(mediaUrls, item.url) /\ durations' = durations + 1
          BY <3>1, <4>2 DEF Attach, Record
        <5>2. item.url \in Urls
          BY <1>1, <4>2 DEF ItemType, Items
        <5> QED BY <1>1, <3>3, <5>1, <5>2 DEF ListMatches, ListType
      <4> QED BY <4>1, <4>2
    <3> QED BY <2>1, <2>3, <3>2, <3>3, <3>5, <3>6 DEF EntryMatches, ListMatches, Entry
  <2> QED BY <2>2, <2>3
<1>18. CASE RunStop
  BY <1>4, <1>18 DEF RunStop
<1>19. CASE RunReturn
  <2>1. External => stopped
    BY <1>1, <1>19, Popped DEF RunReturn, BlocksMatch
  <2> QED BY <1>5, <1>19, <2>1 DEF RunReturn
<1>20. CASE RunFail
  BY <1>1, <1>2, <1>20, ReportFields DEF RunFail
<1>21. CASE ItemReady
  BY <1>1, <1>2, <1>21, ReadyFields DEF ItemReady, Idle
<1>22. CASE ItemFails
  BY <1>1, <1>2, <1>22, FailsFields DEF ItemFails, Idle
<1>23. CASE ItemFailedToPlayToEnd
  BY <1>3, <1>23 DEF ItemFailedToPlayToEnd, Idle
<1>24. CASE ItemEnds
  <2>1. UNCHANGED <<mediaUrls, durations, originalMediaUrls, prepared, adItemsAttached,
                    caller>>
    BY <1>24 DEF ItemEnds, Idle
  <2>2. CASE item.ends /\ HasNext
    <3>1. External => adItemsAttached
      BY <1>24, <2>2 DEF ItemEnds, Undisturbed
    <3> QED BY <1>6, <1>24, <2>1, <2>2, <3>1, RateFacts DEF ItemEnds
  <2>3. CASE ~(item.ends /\ HasNext)
    BY <1>1, <1>2, <1>24, <2>1, <2>3, EndFields DEF ItemEnds
  <2> QED BY <2>2, <2>3
<1>25. CASE SeekCompletes
  BY <1>1, <1>2, <1>25, SeekFields DEF SeekCompletes, Idle
<1>26. ASSUME NEW p \in stale, StaleSeekCompletes(p) PROVE P
  BY <1>3, <1>26 DEF StaleSeekCompletes, Idle
<1>27. CASE RecoverySwaps
  BY <1>1, <1>2, <1>27, RecoveryFields DEF RecoverySwaps, Idle
<1>28. ASSUME NEW r \in Rates, AppPlays(r) PROVE P
  <2>1. /\ UNCHANGED <<list, originalMediaUrls, prepared, adItemsAttached, caller>>
        /\ External /\ (item = None \/ item.url = Content)
        /\ item' = AppItem /\ item' # None
    BY <1>1, <1>28, AppFields DEF AppPlays, Idle
  <2>2. item'.url = Content
    BY <2>1, AppItemFields
  <2> QED BY <1>1, <2>1, <2>2 DEF EntryMatches, ListMatches, Entry
<1>29. CASE UNCHANGED vars
  BY <1>3, <1>29 DEF vars
<1>30. Core => P
  BY <1>7, <1>8, <1>9, <1>10, <1>11, <1>12, <1>13, <1>14 DEF Core
<1>31. RunMain => P
  BY <1>15, <1>16, <1>17, <1>18, <1>19, <1>20 DEF RunMain
<1>32. AVPlayer => P
  BY <1>21, <1>22, <1>23, <1>24, <1>25, <1>26 DEF AVPlayer, ItemLoads
<1>33. P
  BY <1>27, <1>28, <1>29, <1>30, <1>31, <1>32 DEF Next
<1> QED BY <1>33

\* The list, the durations and the index stay in step with each other and the player:
\* in either player, with a list that is edited, skips, second stops and breaks that are
\* never played.
THEOREM TablesCorrect == ASSUME Undisturbed PROVE Spec => []TablesMatch
<1>1. TypeInv /\ TablesInv => TablesMatch
  BY DEF TypeInv, ListType, TablesInv, ListMatches, EntryMatches, Entry, TablesMatch
<1>2. TypeInv /\ TablesInv /\ [Next]_vars => (TypeInv /\ TablesInv)'
  BY Undisturbed, StepType, StepBlocks, StepTables DEF TablesInv
<1> QED
  BY <1>1, <1>2, InitType, InitTables, PTL DEF Spec

------------------------------------------------------------------------------
\* A stop() and the blocks that wait.

\* In the app's player, with a list that stays as it was loaded: a break may be stopped
\* again, or before it was played, with its load() and its play() still to run.
StopCases == External /\ ~Edits /\ Cases \subseteq {"again", "unplayed"}

\* An ad is in the player of a break that is attached and that no load() is to replace.
AdsAttached == AdsNow => adItemsAttached /\ ~Has(queue, "load")

\* The content comes last in the list, once it was displaced.
ContentLast ==
  /\ adItemsAttached => \A n \in 1..(Len(mediaUrls) - 1) : mediaUrls[n] \in Ads
  /\ ~adItemsAttached /\ prepared # None => \A n \in 1..Len(mediaUrls) : mediaUrls[n] \in Ads

StopInv == AdsAttached /\ ContentLast /\ RecordMatches /\ (stopped => ~isAdPlaying)

LEMMA InitStop == StopCases /\ Init => StopInv
BY AppItemFields, UrlFacts
   DEF StopCases, Init, StopInv, AdsAttached, ContentLast, RecordMatches, AdsNow

LEMMA StepStop ==
  StopCases /\ TypeInv /\ TablesInv /\ StopInv /\ [Next]_vars => StopInv'
<1> SUFFICES ASSUME StopCases, TypeInv, TablesInv, StopInv, [Next]_vars PROVE StopInv'
  OBVIOUS
<1> USE DEF list, original, avPlayer, turn, phase
<1>1. /\ ItemType /\ QueueType /\ ListType /\ ListMatches /\ EntryMatches
      /\ BlocksMatch /\ StoppedMatches /\ Ordered(queue)
      /\ AdsAttached /\ ContentLast /\ RecordMatches /\ (stopped => ~isAdPlaying)
      /\ External /\ ~Edits /\ "returning" \notin Cases /\ "outro" \notin Cases
  BY DEF TypeInv, TablesInv, BlocksMatch, StopInv, StopCases
<1> DEFINE P == StopInv'
\* Nothing that the invariant speaks of changes.
<1>2. ASSUME UNCHANGED <<mediaUrls, originalMediaUrls, prepared, adItemsAttached, stopped,
                         isAdPlaying>>,
             Has(queue', "load") => Has(queue, "load"), AdsNow' => AdsNow
      PROVE  P
  BY <1>1, <1>2 DEF StopInv, AdsAttached, ContentLast, RecordMatches
<1>3. ASSUME UNCHANGED <<mediaUrls, originalMediaUrls, prepared, adItemsAttached, stopped,
                         isAdPlaying, item>>,
             Has(queue', "load") => Has(queue, "load")
      PROVE  P
  BY <1>2, <1>3 DEF AdsNow
<1>4. ASSUME ReleasePlayer, UNCHANGED <<mediaUrls, originalMediaUrls>> PROVE P
  <2>1. /\ item' = None /\ adItemsAttached' = FALSE /\ prepared' = None
        /\ isAdPlaying' = FALSE
    BY <1>1, <1>4, ReleaseType
  <2> QED
    BY <1>1, <1>4, <2>1 DEF StopInv, AdsAttached, ContentLast, RecordMatches, AdsNow
<1>5. ASSUME Return, Has(queue', "load") => Has(queue, "load") PROVE P
  <2>1. UNCHANGED <<mediaUrls, prepared, adItemsAttached, stopped, isAdPlaying>>
    BY <1>5 DEF Return
  <2>2. CASE hasPlayer /\ originalMediaUrls # <<>>
    <3>1. originalMediaUrls' = <<>> /\ item'.url = Content
      BY <1>1, <1>5, <2>2, ReturnType DEF RecordMatches
    <3> QED
      BY <1>1, <2>1, <3>1, UrlFacts
         DEF StopInv, AdsAttached, ContentLast, RecordMatches, AdsNow
  <2>3. CASE ~(hasPlayer /\ originalMediaUrls # <<>>)
    BY <1>3, <1>5, <2>1, <2>3 DEF Return
  <2> QED BY <2>2, <2>3
\* The entry after an ad; after the content there is none.
<1>6. ASSUME NEW r \in Rates, PlayItem(currentIndex + 1, r), HasNext, adItemsAttached,
             UNCHANGED <<mediaUrls, originalMediaUrls, prepared, adItemsAttached, stopped,
                         isAdPlaying, queue>>
      PROVE  P
  <2>1. currentIndex + 1 \in 1..(Len(mediaUrls) - 1)
    BY <1>1, <1>6 DEF HasNext, ListType
  <2>2. item # None /\ item.url = Entry(currentIndex)
    BY <1>1, <1>6, <2>1 DEF EntryMatches
  <2>3. AdsNow
    BY <1>1, <1>6, <2>1, <2>2 DEF ContentLast, AdsNow, Entry
  <2> QED BY <1>2, <1>6, <2>3
<1>7. ASSUME NEW urls \in Breaks, Load(urls) PROVE P
  <2>1. ~AdsNow
    BY <1>1, <1>7, UrlFacts DEF Load, Returning, AdsNow
  <2>2. UNCHANGED <<mediaUrls, originalMediaUrls, prepared, adItemsAttached, stopped,
                    isAdPlaying, item>>
    BY <1>7 DEF Load
  <2> QED
    BY <1>1, <2>1, <2>2
       DEF StopInv, AdsAttached, ContentLast, RecordMatches, AdsNow
<1>8. CASE Play
  <2> DEFINE b == [kind |-> "play"]
  <2>1. b \in Blocks /\ b.kind = "play"
    BY BlockTypes
  <2>2. /\ queue' = Append(queue, b) /\ caller = "loaded" /\ stopped' = FALSE
        /\ UNCHANGED <<mediaUrls, originalMediaUrls, prepared, adItemsAttached, item>>
    BY <1>8 DEF Play, Dispatch
  <2> HIDE DEF b
  <2>3. \A k \in {"load", "play", "return", "stop"} : ~Has(queue, k)
    BY <1>1, <2>2 DEF BlocksMatch
  <2>4. ~Has(queue', "load")
    BY <1>1, <2>1, <2>2, <2>3, AppendOrder DEF QueueType
  <2> QED
    BY <1>1, <2>2, <2>4 DEF StopInv, AdsAttached, ContentLast, RecordMatches, AdsNow
<1>9. CASE StopIgnored \/ PlayedOut
  BY <1>3, <1>9 DEF StopIgnored, PlayedOut
<1>10. CASE Stop
  <2> DEFINE b == [kind |-> "stop"]
  <2>1. b \in Blocks /\ b.kind = "stop"
    BY BlockTypes
  <2>2. /\ queue' = Append(LoadsCancelled, b) /\ caller # "stopping"
        /\ UNCHANGED <<mediaUrls, originalMediaUrls, prepared, adItemsAttached, stopped,
                       isAdPlaying, item>>
    BY <1>10 DEF Stop, Stoppable
  <2> HIDE DEF b
  <2>3. ~Has(queue, "stop")
    BY <1>1, <2>2 DEF BlocksMatch
  <2>4. ~Has(queue', "load")
    BY <1>1, <2>1, <2>2, <2>3, CancelledAndPushed
  <2> QED BY <1>3, <2>2, <2>4
<1>11. CASE StopOnMain
  BY <1>4, <1>11 DEF StopOnMain
<1>12. CASE ReturnToContent
  <2> DEFINE b == [kind |-> "return"]
  <2>1. b \in Blocks /\ b.kind = "return"
    BY BlockTypes
  <2>2. /\ queue' = Append(queue, b) /\ caller = "idle"
        /\ UNCHANGED <<mediaUrls, originalMediaUrls, prepared, adItemsAttached, stopped,
                       isAdPlaying, item>>
    BY <1>12 DEF ReturnToContent, Dispatch
  <2> HIDE DEF b
  <2>3. Has(queue', "load") => Has(queue, "load")
    BY <1>1, <2>1, <2>2, AppendOrder DEF QueueType
  <2> QED BY <1>3, <2>2, <2>3
<1>13. CASE ReturnOnMain
  BY <1>5, <1>13 DEF ReturnOnMain
<1>14. ASSUME NEW u \in Ads, EnqueueNextItem(u) \/ RemoveNextItem(u) PROVE P
  BY <1>1, <1>14 DEF EnqueueNextItem, RemoveNextItem
<1>15. CASE PlayNextItem
  <2>1. rate \in Rates /\ adItemsAttached
    BY <1>1, <1>15 DEF ItemType, EntryMatches, PlayNextItem
  <2> QED BY <1>6, <1>15, <2>1 DEF PlayNextItem, HasNext
<1>16. ASSUME NEW r \in {0, 1}, PauseResume(r) PROVE P
  BY <1>3, <1>16 DEF PauseResume
<1>17. CASE SkipCancelled \/ RunFail
  <2>1. Has(queue', "load") => Has(queue, "load")
    BY <1>1, <1>17, Popped DEF SkipCancelled, RunFail
  <2>2. AdsNow' => AdsNow
    BY <1>1, <1>17, ReportFields DEF SkipCancelled, AdsNow
  <2> QED BY <1>2, <1>17, <2>1, <2>2 DEF SkipCancelled, RunFail
<1>18. CASE RunLoad
  <2> DEFINE urls == Head(queue).urls
  <2>1. urls \in Seq(Ads) \ {<<>>}
    BY <1>1, <1>18, HeadTypes DEF RunLoad
  <2>2. /\ mediaUrls' = urls /\ Prepare(Head(urls))
        /\ adItemsAttached' = ~External /\ originalMediaUrls' = <<>>
        /\ UNCHANGED stopped
    BY <1>18 DEF RunLoad
  <2> HIDE DEF urls
  <2>3. UNCHANGED <<isAdPlaying, item>>
    BY <1>1, <2>2 DEF Prepare
  <2>4. Has(queue, "load")
    BY <1>1, <1>18, Popped DEF RunLoad
  <2>5. ~AdsNow' /\ adItemsAttached' = FALSE
    BY <1>1, <2>2, <2>3, <2>4 DEF AdsAttached, AdsNow
  <2>6. \A n \in 1..Len(mediaUrls') : mediaUrls'[n] \in Ads
    BY <2>1, <2>2
  <2> QED
    BY <1>1, <2>2, <2>3, <2>5, <2>6 DEF StopInv, AdsAttached, ContentLast, RecordMatches
<1>19. CASE RunPlay
  <2>1. UNCHANGED <<isAdPlaying, prepared, stopped>>
    BY <1>19 DEF RunPlay
  <2>2. Has(queue, "play") /\ ~Has(queue, "load") /\ (Has(queue', "load") => Has(queue, "load"))
    BY <1>1, <1>19, Popped DEF RunPlay, BlocksMatch
  <2>3. CASE ~(~adItemsAttached /\ prepared # None)
    <3>1. UNCHANGED <<mediaUrls, originalMediaUrls, adItemsAttached, item>>
      BY <1>1, <1>19, <2>3 DEF RunPlay
    <3> QED BY <1>3, <2>1, <2>2, <3>1
  <2>4. CASE ~adItemsAttached /\ prepared # None
    <3>1. Attach /\ rate' = 1
      BY <1>1, <1>19, <2>4 DEF RunPlay
    <3>2. adItemsAttached' = TRUE
      BY <1>1, <2>4, <3>1, AttachType
    <3>3. item # None => item.url = Content
      BY <1>1, <2>4 DEF AdsAttached, AdsNow, ItemType, Items, Urls
    <3>4. \A n \in 1..Len(mediaUrls) : mediaUrls[n] \in Ads
      BY <1>1, <2>4 DEF ContentLast
    <3>5. CASE item = None
      <4>1. UNCHANGED <<mediaUrls, originalMediaUrls>> /\ Len(mediaUrls) \in Nat
        BY <1>1, <3>1, <3>5 DEF Attach, ListType
      <4> QED
        BY <1>1, <2>1, <2>2, <3>2, <3>4, <4>1
           DEF StopInv, AdsAttached, ContentLast, RecordMatches, AdsNow
    <3>6. CASE item # None
      <4>1. mediaUrls' = Append(mediaUrls, item.url) /\ originalMediaUrls' = <<Content>>
        BY <3>1, <3>3, <3>6 DEF Attach, Record
      <4>2. \A n \in 1..(Len(mediaUrls') - 1) : mediaUrls'[n] \in Ads
        BY <1>1, <3>3, <3>4, <3>6, <4>1, UrlFacts DEF ListType
      <4> QED
        BY <1>1, <2>1, <2>2, <3>2, <4>1, <4>2
           DEF StopInv, AdsAttached, ContentLast, RecordMatches, AdsNow
    <3> QED BY <3>5, <3>6
  <2> QED BY <2>3, <2>4
<1>20. CASE RunStop
  BY <1>4, <1>20 DEF RunStop
<1>21. CASE RunReturn
  <2>1. Has(queue', "load") => Has(queue, "load")
    BY <1>1, <1>21, Popped DEF RunReturn
  <2> QED BY <1>5, <1>21, <2>1 DEF RunReturn
<1>22. CASE ItemReady
  BY <1>1, <1>2, <1>22, ReadyFields DEF ItemReady, Idle, AdsNow
<1>23. ASSUME ItemFails \/ ItemFailedToPlayToEnd PROVE P
  <2>1. item # None /\ FailureSeen
    BY <1>23 DEF ItemFails, ItemFailedToPlayToEnd
  <2>2. Has(queue', "load") => Has(queue, "load")
    BY <1>1, <2>1, FailurePushed
  <2>3. AdsNow' => AdsNow
    BY <1>1, <1>23, FailsFields DEF ItemFailedToPlayToEnd, AdsNow
  <2> QED BY <1>2, <1>23, <2>2, <2>3 DEF ItemFails, ItemFailedToPlayToEnd, Idle
<1>24. CASE ItemEnds
  <2>1. UNCHANGED <<mediaUrls, originalMediaUrls, prepared, adItemsAttached, stopped,
                    isAdPlaying, queue>>
    BY <1>24 DEF ItemEnds, Idle
  <2>2. CASE item.ends /\ HasNext
    <3>1. adItemsAttached
      BY <1>1, <1>24, <2>2 DEF ItemEnds
    <3> QED BY <1>6, <1>24, <2>1, <2>2, <3>1, RateFacts DEF ItemEnds
  <2>3. CASE ~(item.ends /\ HasNext)
    BY <1>1, <1>2, <1>24, <2>1, <2>3, EndFields DEF ItemEnds, AdsNow
  <2> QED BY <2>2, <2>3
<1>25. CASE SeekCompletes
  BY <1>1, <1>2, <1>25, SeekFields DEF SeekCompletes, Idle, AdsNow
<1>26. ASSUME NEW p \in stale, StaleSeekCompletes(p) PROVE P
  BY <1>3, <1>26 DEF StaleSeekCompletes, Idle
<1>27. CASE RecoverySwaps
  BY <1>1, <1>2, <1>27, RecoveryFields DEF RecoverySwaps, Idle, AdsNow
<1>28. ASSUME NEW r \in Rates, AppPlays(r) PROVE P
  BY <1>1, <1>2, <1>28, AppFields, AppItemFields, UrlFacts DEF AppPlays, Idle, AdsNow
<1>29. CASE UNCHANGED vars
  BY <1>3, <1>29 DEF vars
<1>30. Core => P
  BY <1>7, <1>8, <1>9, <1>10, <1>11, <1>12, <1>13, <1>14, <1>15, <1>16 DEF Core
<1>31. RunMain => P
  BY <1>17, <1>18, <1>19, <1>20, <1>21 DEF RunMain
<1>32. AVPlayer => P
  BY <1>22, <1>23, <1>24, <1>25, <1>26 DEF AVPlayer, ItemLoads
<1>33. P
  BY <1>27, <1>28, <1>29, <1>30, <1>31, <1>32 DEF Next
<1> QED BY <1>33

\* A stop() that has taken effect is final, whichever blocks of the break were waiting
\* when it overtook them: the load() is cancelled, and a play() finds nothing prepared.
THEOREM StopCorrect == ASSUME StopCases PROVE Spec => []StopIsFinal
<1>1. StopCases => Undisturbed
  BY DEF StopCases, Undisturbed
<1>2. TypeInv /\ TablesInv /\ StopInv => StopIsFinal
  BY StopCases
     DEF StopCases, TablesInv, StoppedMatches, StopInv, AdsAttached, AdsNow, StopIsFinal
<1>3. TypeInv /\ TablesInv /\ StopInv /\ [Next]_vars => (TypeInv /\ TablesInv /\ StopInv)'
  BY StopCases, <1>1, StepType, StepBlocks, StepTables, StepStop DEF TablesInv
<1>4. Init => TypeInv /\ TablesInv /\ StopInv
  BY StopCases, InitType, InitTables, InitStop
<1> QED
  BY <1>2, <1>3, <1>4, PTL DEF Spec

------------------------------------------------------------------------------
\* The implementation of AdBreak.

\* The view of the content, while breaks are in turn: it is never lost.
View ==
  /\ ContentNow = IF owed = None THEN IF ContentIn THEN "front" ELSE "none"
                  ELSE IF ~ContentIn THEN "kept"
                  ELSE IF item.plan # None THEN "returning"
                  ELSE IF item.status = "failed" THEN "broken" ELSE "back"
  /\ ShownNow = IF ContentIn /\ (owed = None \/ item.plan = None)
                  THEN [pos |-> item.pos, rate |-> rate] ELSE None
  /\ ContentIn => [pos |-> item.pos, rate |-> rate] \in Break!Marks
  /\ owed # None => [pos |-> owed.pos, rate |-> owed.rate, exact |-> TRUE] \in Break!Dues

LEMMA ViewHolds == TypeInv /\ InTurnInv => View
<1> SUFFICES ASSUME TypeInv, InTurnInv PROVE View
  OBVIOUS
<1>1. owed # None /\ ~ContentIn => Recorded
  <2>1. ASSUME originalMediaUrls = <<Content>> PROVE Recorded
    BY <2>1 DEF Recorded, ToSet
  <2> QED BY <2>1 DEF InTurnInv, OwedMatches
<1>2. ContentIn => item \in Items /\ item # None
  BY DEF TypeInv, ItemType, ContentIn
<1>3. /\ ContentNow = IF owed = None THEN IF ContentIn THEN "front" ELSE "none"
                      ELSE IF ~ContentIn THEN "kept"
                      ELSE IF item.plan # None THEN "returning"
                      ELSE IF item.status = "failed" THEN "broken" ELSE "back"
  BY <1>1 DEF ContentNow
<1>4. ShownNow = IF ContentIn /\ (owed = None \/ item.plan = None)
                   THEN [pos |-> item.pos, rate |-> rate] ELSE None
  BY <1>3 DEF ShownNow
<1>5. ContentIn => [pos |-> item.pos, rate |-> rate] \in Break!Marks
  BY <1>2, RateFacts, PositionAssumption
     DEF TypeInv, ItemType, Items, Positions, Break!Marks
<1>6. owed # None => [pos |-> owed.pos, rate |-> owed.rate, exact |-> TRUE] \in Break!Dues
  <2>1. Positions \subseteq Nat /\ Rates \subseteq Nat
    BY RateFacts, PositionAssumption DEF Positions
  <2>2. owed # None => owed.pos \in Nat /\ owed.rate \in Nat
    BY <2>1 DEF TypeInv, ListType
  <2> QED BY <2>2 DEF Break!Dues
<1> QED BY <1>3, <1>4, <1>5, <1>6 DEF View

\* The view of a break is a state of AdBreak.
LEMMA AbsTypes == TypeInv /\ InTurnInv => Break!TypeOK
<1> SUFFICES ASSUME TypeInv, InTurnInv PROVE Break!TypeOK
  OBVIOUS
<1>1. View
  BY ViewHolds
<1>2. BreakNow \in {"none", "asked", "begun"} /\ AdsNow \in BOOLEAN
  BY DEF BreakNow, AdsNow
<1>3. AdsNow => ~ContentIn
  BY UrlFacts DEF AdsNow, ContentIn
<1>4. ContentNow \in {"none", "front"} \cup Break!Owed
  BY <1>1 DEF View, Break!Owed
<1>5. AdsNow => ContentNow \in {"none", "kept"}
  BY <1>1, <1>3 DEF View
<1>6. DueNow \in Break!Dues \cup {None} /\ (DueNow = None <=> ContentNow \notin Break!Owed)
  BY <1>1, NoneAssumption DEF View, DueNow, Break!Owed
<1>7. /\ ShownNow \in Break!Marks \cup {None}
      /\ ShownNow = None <=> ContentNow \notin Break!InPlayer
  BY <1>1, NoneAssumption DEF View, Break!InPlayer
<1> QED BY <1>2, <1>4, <1>5, <1>6, <1>7 DEF Break!TypeOK

LEMMA InitAbs == TypeInv /\ InTurnInv /\ Init => Break!Init
<1> SUFFICES ASSUME TypeInv, InTurnInv, Init PROVE Break!Init
  OBVIOUS
<1>1. View
  BY ViewHolds
<1>2. BreakNow = "none" /\ DueNow = None /\ owed = None
  BY DEF Init, BreakNow, DueNow
<1>3. item # None => item.url = Content
  BY AppItemFields DEF Init
<1> QED
  BY <1>1, <1>2, <1>3, UrlFacts DEF View, AdsNow, ContentIn, Break!Init

\* Every step is one of AdBreak's, or changes nothing that it sees.
LEMMA StepAbs ==
  ASSUME InTurn, TypeInv, InTurnInv, TypeInv', InTurnInv', [Next]_vars
  PROVE  [Break!Next]_(Break!vars)
<1>1. /\ currentIndex \in Nat /\ adCount \in Nat /\ rate \in Rates /\ 0 \in Rates
      /\ Len(mediaUrls) \in Nat /\ (item # None => item \in Items)
  BY RateFacts DEF TypeInv, ItemType, ListType
<1>2. View /\ View'
  BY ViewHolds, PTL
<1>3. /\ ItemType /\ QueueType /\ ListType /\ Ordered(queue)
      /\ Break!TypeOK /\ Break!TypeOK'
  BY AbsTypes, PTL DEF TypeInv, InTurnInv, QueueMatches
<1>4. AttachedMatches /\ OwedMatches'
  BY DEF InTurnInv
<1> USE UrlFacts, NoneAssumption
    DEF InTurn, InTurnInv, QueueMatches, CallerMatches, LoadedMatches, AtRest,
        AttachedMatches, AdsMatch, OwedMatches, View, BreakNow, DueNow, AdsNow, ContentIn,
        Entry, Kept, SeekRate, StartRate, Break!vars,
        list, original, avPlayer, turn, phase
\* The content stays as it is, or it is not there.
<1>5. ASSUME UNCHANGED <<owed, rate, item>>
      PROVE  UNCHANGED <<ContentNow, DueNow, ShownNow, AdsNow>>
  BY <1>2, <1>5
<1>6. ASSUME UNCHANGED <<asked, adItemsAttached, owed>>, AdsNow, AdsNow'
      PROVE  UNCHANGED Break!vars
  BY <1>2, <1>6
<1>7. ASSUME NEW urls \in Breaks, Load(urls) PROVE Break!Over \/ UNCHANGED Break!vars
  BY <1>2, <1>5, <1>7 DEF Load, Break!Over
<1>8. Play => Break!Ask
  BY <1>2, <1>5 DEF Play, Break!Ask
<1>9. StopIgnored \/ Stop \/ ReturnToContent \/ PlayedOut \/ SkipCancelled
        \/ ItemFailedToPlayToEnd \/ UNCHANGED vars => UNCHANGED Break!vars
  BY <1>5 DEF StopIgnored, Stop, ReturnToContent, PlayedOut, SkipCancelled,
              ItemFailedToPlayToEnd, Idle, vars
<1>10. StopOnMain \/ RunStop => Break!Clear
  <2>1. ASSUME ReleasePlayer, asked, ~asked', adItemsAttached, UNCHANGED owed
        PROVE  Break!Clear
    <3>1. item' = None
      BY <1>3, <2>1, ReleaseType
    <3> QED BY <1>2, <2>1, <3>1 DEF Break!Clear, Break!Owed
  <2>2. StopOnMain => ReleasePlayer /\ asked /\ ~asked' /\ adItemsAttached /\ UNCHANGED owed
    BY DEF StopOnMain, Stoppable, TypeInv, FlagType
  <2>3. RunStop => ReleasePlayer /\ asked /\ ~asked' /\ adItemsAttached /\ UNCHANGED owed
    <3>1. RunStop => Has(queue, "stop") /\ ~Has(queue, "play")
      BY <1>3, Popped DEF RunStop
    <3> QED BY <3>1 DEF RunStop
  <2> QED BY <2>1, <2>2, <2>3
<1>11. ASSUME Return, stopped
      PROVE  Break!Return \/ Break!AppPlays \/ UNCHANGED Break!vars
  <2>1. CASE hasPlayer /\ originalMediaUrls # <<>>
    <3>1. item' # None /\ item'.plan # None
      BY <1>3, <1>11, <2>1, ReturnType
    <3>2. item'.url = Content
      BY <1>3, <1>11, <2>1, ReturnType DEF RecordMatches
    <3> QED
      BY <1>2, <1>11, <2>1, <3>1, <3>2 DEF Return, Break!Return, Break!AppPlays
  <2>2. CASE ~(hasPlayer /\ originalMediaUrls # <<>>)
    BY <1>5, <1>11, <2>2 DEF Return
  <2> QED BY <2>1, <2>2
<1>12. ReturnOnMain \/ RunReturn => Break!Return \/ Break!AppPlays \/ UNCHANGED Break!vars
  <2>1. RunReturn => Has(queue, "return")
    BY <1>3, Popped DEF RunReturn
  <2> QED BY <1>11, <2>1 DEF ReturnOnMain, RunReturn
<1>13. ASSUME NEW r \in {0, rate}, PlayItem(currentIndex + 1, r),
              adItemsAttached, currentIndex + 1 < Len(mediaUrls),
              UNCHANGED <<asked, adItemsAttached, mediaUrls, original, owed, adCount>>
       PROVE  Break!Return \/ Break!Resume \/ UNCHANGED Break!vars
  <2>1. currentIndex + 1 \in Nat /\ r \in Rates
    BY ONLY <1>1, <1>13
  <2>2. AdsNow
    BY <1>3, <1>13, AdPlays
  <2>3. /\ item' # None /\ item'.url = Entry(currentIndex + 1) /\ item'.status = "unknown"
        /\ item'.plan = None => rate' = StartRate(currentIndex + 1)
    BY <1>3, <1>13, <2>1, PlayItemType
  <2>4. item'.url \in Urls
    BY <2>3 DEF TypeInv, ItemType, Items
  <2>5. CASE item'.url \in Ads
    BY <1>6, <1>13, <2>2, <2>3, <2>5
  <2>6. CASE item'.url = Content
    <3>1. currentIndex + 1 >= adCount
      BY ONLY <1>3, <1>4, <1>13, <2>3, <2>6, NextIsAd
    <3>2. owed = Kept
      BY <1>1, <1>13, <2>1, <2>2, <2>3, <2>6, <3>1
    <3>3. item'.plan = None => rate' = owed.rate
      BY ONLY <1>1, <2>1, <2>3, <3>1, <3>2 DEF Kept, StartRate
    <3>4. owed' = owed /\ owed # None
      <4>1. Kept \in Break!Marks
        BY RateFacts, PositionAssumption DEF TypeInv, ListType, Positions, Break!Marks
      <4> QED BY ONLY <1>13, <3>2, <4>1, NoneAssumption
    <3>5. item'.plan = None => item'.pos = owed.pos
      BY ONLY <1>4, <2>3, <2>6, <3>4 DEF OwedMatches, ContentIn
    <3>6. ~ContentIn /\ ContentIn' /\ ~AdsNow' /\ UNCHANGED BreakNow
      BY ONLY <1>13, <2>2, <2>3, <2>6, UrlFacts DEF ContentIn, AdsNow, BreakNow
    <3>7. ContentNow = "kept" /\ ShownNow = None /\ UNCHANGED DueNow
      BY ONLY <1>2, <3>4, <3>6 DEF View, DueNow
    <3>8. CASE item'.plan # None
      BY ONLY <1>2, <2>3, <3>4, <3>6, <3>7, <3>8 DEF View, Break!Return
    <3>9. CASE item'.plan = None
      BY ONLY <1>2, <2>3, <3>3, <3>4, <3>5, <3>6, <3>7, <3>9
         DEF View, DueNow, Break!Resume, Break!AsItWas
    <3> QED BY ONLY <3>8, <3>9
  <2> QED BY <2>4, <2>5, <2>6 DEF Urls
<1>14. PlayNextItem \/ ItemEnds
         => \/ Break!Return \/ Break!Resume \/ Break!Pause \/ Break!AppPlays
            \/ UNCHANGED Break!vars
  <2>1. CASE PlayNextItem
    <3>1. adItemsAttached /\ currentIndex + 1 < Len(mediaUrls)
      BY <1>1, <2>1 DEF PlayNextItem
    <3> QED BY <1>13, <2>1, <3>1 DEF PlayNextItem
  <2>2. CASE ItemEnds /\ item.ends /\ HasNext
    <3>1. adItemsAttached /\ currentIndex + 1 < Len(mediaUrls)
      BY <1>1, <2>2 DEF ItemEnds, HasNext
    <3> QED BY <1>13, <2>2, <3>1 DEF ItemEnds, Idle
  <2>3. CASE ItemEnds /\ ~(item.ends /\ HasNext)
    <3>1. /\ item # None /\ item' # None /\ item.status = "readyToPlay"
          /\ item'.url = item.url /\ item'.pos = item.pos /\ item'.plan = item.plan
          /\ item'.status = item.status
      BY <1>3, <2>3, EndFields DEF ItemEnds
    <3>2. rate' = 0 /\ UNCHANGED <<asked, adItemsAttached, owed>>
      BY <2>3 DEF ItemEnds, Idle
    <3>3. CASE item.url \in Ads
      BY <1>6, <3>1, <3>2, <3>3
    <3>4. CASE item.url = Content /\ owed = None
      BY ONLY <1>2, <3>1, <3>2, <3>4, UrlFacts
         DEF View, ContentIn, AdsNow, BreakNow, DueNow, Break!AppPlays
    <3>5. CASE item.url = Content /\ owed # None /\ item.plan = None
      BY ONLY <1>2, <3>1, <3>2, <3>5, UrlFacts
         DEF View, ContentIn, AdsNow, BreakNow, DueNow, Break!Pause
    <3>6. CASE item.url = Content /\ owed # None /\ item.plan # None
      BY ONLY <1>2, <3>1, <3>2, <3>6, UrlFacts
         DEF View, ContentIn, AdsNow, BreakNow, DueNow, Break!vars
    <3>7. item.url \in Urls
      BY ONLY <1>1, <3>1 DEF Items
    <3> QED BY ONLY <3>3, <3>4, <3>5, <3>6, <3>7 DEF Urls
  <2> QED BY <2>1, <2>2, <2>3
<1>15. ASSUME NEW r \in {0, 1}, PauseResume(r) PROVE UNCHANGED Break!vars
  <2>1. AdsNow
    BY <1>3, <1>15, AdPlays DEF PauseResume
  <2> QED BY <1>6, <1>15, <2>1 DEF PauseResume
<1>16. RunLoad => UNCHANGED Break!vars
  <2>1. RunLoad => Has(queue, "load")
    BY <1>3, Popped DEF RunLoad
  <2> QED
    BY <1>2, <1>5, <2>1 DEF RunLoad, Prepare
<1>17. ASSUME RunPlay PROVE Break!Begin
  <2>1. Has(queue, "play") /\ prepared \in Ads /\ prepared # None
    <3>1. Has(queue, "play")
      BY <1>3, <1>17, Popped DEF RunPlay
    <3> QED BY <3>1
  <2>2. Attach /\ rate' = 1 /\ ~adItemsAttached /\ asked /\ asked'
    BY <1>17, <2>1 DEF RunPlay
  <2>3. item' = NewItem(prepared) /\ adItemsAttached'
    BY <1>3, <2>1, <2>2, AttachType
  <2>4. item' # None /\ item'.url \in Ads
    BY ONLY <2>1, <2>3, NewItemFields, UrlFacts, NoneAssumption
  <2>5. AdsNow' = TRUE /\ ~ContentIn' /\ BreakNow = "asked" /\ BreakNow' = "begun"
    BY ONLY <2>2, <2>3, <2>4, UrlFacts DEF AdsNow, ContentIn, BreakNow
  <2>6. CASE item = None
    <3>1. owed = None /\ owed' = None
      BY <2>1, <2>2, <2>6 DEF Attach
    <3> QED
      <4>1. ContentNow = "none" /\ ContentNow' = "none" /\ ShownNow' = None
        BY ONLY <1>2, <2>6, <2>5, <3>1 DEF View, ContentIn
      <4>2. UNCHANGED DueNow
        BY ONLY <3>1 DEF DueNow
      <4> QED BY ONLY <2>5, <4>1, <4>2 DEF Break!Begin
  <2>7. CASE item # None
    <3>1. /\ ContentIn /\ item.plan = None
          /\ owed' = [pos |-> Later(item.pos), rate |-> AppRate]
      BY <2>1, <2>2, <2>7 DEF Attach
    <3>2. ShownNow = [pos |-> item.pos, rate |-> rate] /\ ContentNow \in Break!InPlayer
      BY <1>2, <3>1 DEF Break!InPlayer
    <3>3. owed' # None
      <4>1. Later(item.pos) \in Nat /\ AppRate \in Nat
        BY ONLY <1>1, <2>7, PositionAssumption, RateFacts
           DEF Items, Positions, Later, AppRate
      <4> QED BY <3>1, <4>1 DEF Break!Marks
    <3>4. DueNow' = Break!Due(TRUE)
      BY ONLY <3>1, <3>2, <3>3 DEF DueNow, AppRate, Later, Break!Due, Break!Later
    <3> QED
      <4>1. ContentNow' = "kept" /\ ShownNow' = None
        BY ONLY <1>2, <2>5, <3>3 DEF View
      <4> QED BY ONLY <2>5, <3>2, <3>4, <4>1 DEF Break!Begin
  <2> QED BY <2>6, <2>7
<1>18. RunFail => UNCHANGED Break!vars
  <2>1. CASE item = None
    BY <1>2, <1>3, <2>1, ReportFields DEF RunFail
  <2>2. CASE item # None
    <3>1. RunFail => /\ item' # None /\ item'.url = item.url /\ item'.status = item.status
                     /\ item'.pos = item.pos /\ item'.plan = item.plan
                     /\ UNCHANGED <<rate, owed, asked, adItemsAttached>>
      BY <1>3, <2>2, ReportFields DEF RunFail
    <3> QED BY <1>2, <2>2, <3>1
  <2> QED BY <2>1, <2>2
<1>19. ItemReady => UNCHANGED Break!vars
  BY <1>2, <1>3, ReadyFields DEF ItemReady, Idle
<1>20. ItemFails => Break!Fail \/ UNCHANGED Break!vars
  BY <1>2, <1>3, FailsFields DEF ItemFails, Idle, Break!Fail, Break!Owed
<1>21. SeekCompletes => Break!Resume \/ Break!Fail \/ Break!AppPlays
  <2>1. SeekCompletes => item # None /\ item.url \in Urls /\ item.plan # None
    BY <1>3, SeekFields DEF SeekCompletes, ItemType, Items, SeekHasPlan
  <2>2. SeekCompletes => /\ ContentIn /\ ContentIn' /\ item'.plan = None
                         /\ item'.pos = item.plan.pos /\ item'.status = item.status
                         /\ rate' = SeekRate(item.plan)
    BY <1>3, <2>1, SeekFields DEF SeekCompletes, Urls
  <2>3. SeekCompletes => UNCHANGED <<asked, adItemsAttached, owed>>
    BY DEF SeekCompletes, Idle
  <2>4. CASE owed = None
    BY <1>2, <2>1, <2>2, <2>3, <2>4 DEF Break!AppPlays
  <2>5. CASE owed # None /\ item.status # "failed"
    BY <1>2, <2>1, <2>2, <2>3, <2>5 DEF Break!Resume, Break!AsItWas
  <2>6. CASE owed # None /\ item.status = "failed"
    BY <1>2, <2>1, <2>2, <2>3, <2>6 DEF Break!Fail, Break!Owed
  <2> QED BY <2>4, <2>5, <2>6
<1>22. ASSUME NEW p \in stale, StaleSeekCompletes(p)
       PROVE  Break!Pause \/ Break!Fail \/ Break!AppPlays \/ UNCHANGED Break!vars
  BY <1>2, <1>22
     DEF StaleSeekCompletes, Idle, Break!Pause, Break!Fail, Break!AppPlays,
         Break!AsItWas, Break!Owed
<1>23. RecoverySwaps => UNCHANGED Break!vars
  BY <1>3, <1>6, RecoveryFields DEF RecoverySwaps, Idle
<1>24. ASSUME NEW r \in Rates, AppPlays(r) PROVE Break!AppPlays
  BY <1>2, <1>3, <1>24, AppFields, AppItemFields DEF AppPlays, Idle, Break!AppPlays
<1>25. Core => Break!Next \/ UNCHANGED Break!vars
  BY ONLY <1>7, <1>8, <1>9, <1>10, <1>12, <1>14, <1>15, InTurn
     DEF Core, Break!Next, InTurn, EnqueueNextItem, RemoveNextItem
<1>26. RunMain => Break!Next \/ UNCHANGED Break!vars
  BY ONLY <1>9, <1>10, <1>12, <1>16, <1>17, <1>18 DEF RunMain, Break!Next
<1>27. AVPlayer => Break!Next \/ UNCHANGED Break!vars
  BY ONLY <1>9, <1>14, <1>19, <1>20, <1>21, <1>22 DEF AVPlayer, ItemLoads, Break!Next
<1> QED
  BY ONLY [Next]_vars, <1>9, <1>23, <1>24, <1>25, <1>26, <1>27 DEF Next, Break!Next

\* The break keeps AdBreak's promises to the content, for any ads, rates and positions.
THEOREM BreakCorrect == ASSUME InTurn PROVE Spec => ImplementsAdBreak
<1>1. TypeInv /\ InTurnInv /\ Init => Break!Init
  BY InitAbs
<1>2. TypeInv /\ InTurnInv /\ TypeInv' /\ InTurnInv' /\ [Next]_vars
        => [Break!Next]_(Break!vars)
  BY InTurn, StepAbs
<1>3. TypeInv /\ InTurnInv => Break!TypeOK
  BY AbsTypes
<1> QED
  BY <1>1, <1>2, <1>3, InTurnCorrect, PTL DEF Spec, ImplementsAdBreak, Break!Spec
==============================================================================
