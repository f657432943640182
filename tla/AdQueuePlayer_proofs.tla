-------------------------- MODULE AdQueuePlayer_proofs --------------------------
(***************************************************************************)
(* Proofs about AdQueuePlayer, for any ads, playlists, positions, rates    *)
(* and bounds.                                                             *)
(*                                                                         *)
(* TypeInv and TurnInv hold of every run, in the app's player and in one   *)
(* of its own, whichever cases may happen.  For breaks in the app's player *)
(* that come one by one (InTurn), CallInv ties the blocks that wait to how *)
(* far the core is, QueueInv the items to the list and to the speed, and   *)
(* FailureInv the failures and ends to the blocks that report them.        *)
(* ContentWaits (InOrder) follows the interrupted content.                 *)
(*                                                                         *)
(* The refinement of AdBreak is of breaks that are played to their end or  *)
(* stopped (OneByOne).  BreakInv adds to the above what the core has asked *)
(* for (AskInv) and where and how fast the content is and will be          *)
(* (PlaceInv); the lemmas Abs... say what AdBreak sees of each step.       *)
(***************************************************************************)
EXTENDS AdQueuePlayer, SequenceLemmas, TLAPS, WellFoundedInduction

------------------------------------------------------------------------------
\* Types.

\* Items and blocks are of ads of a break, and breaks have at most MaxAds of them.
BreakItems == [url : Urls, ad : 0..MaxAds, status : {"unknown", "readyToPlay", "failed"},
               pos : Positions, target : Positions, ret : Rates]
ShortBreaks == {p \in Seq(Ads) : Len(p) <= MaxAds}
AdKinds == {"failed", "broken", "ended"}
LoadBlocks == [kind : {"load"}, urls : ShortBreaks]
BreakBlocks == [kind : {"play", "stop", "return", "cancelled"}]
                 \cup LoadBlocks \cup [kind : AdKinds, ad : 1..MaxAds]

PlayerType == items \in Seq(BreakItems) /\ rate \in Rates /\ stale \subseteq Rates
QueueType  == queue \in Seq(BreakBlocks)
ListType   ==
  /\ mediaUrls \in Seq(Urls) /\ originalMediaUrls \in Seq(Urls)
  /\ durations \in Nat /\ adCount \in Nat
  /\ originalPosition \in Positions /\ originalRate \in Rates \ {0}
  /\ prepared \in ShortBreaks
  /\ owed \in [url : Contents, pos : Positions, rate : Rates, alone : BOOLEAN] \cup {None}
WatchType  ==
  /\ endedAdItemCount \in 0..MaxAds /\ reportedAd \in 0..MaxAds
  /\ failedAdItems \subseteq 1..MaxAds
  /\ ended \subseteq 1..MaxAds /\ skipped \subseteq 1..MaxAds
FlagType ==
  /\ isAdPlaying \in BOOLEAN /\ hasPlayer \in BOOLEAN /\ adItemsAttached \in BOOLEAN
  /\ observing \in BOOLEAN /\ adItemFailureReported \in BOOLEAN
  /\ stopped \in BOOLEAN /\ asked \in BOOLEAN
  /\ caller \in {"idle", "loading", "loaded", "starting", "playing", "stopping"}

TypeInv == PlayerType /\ QueueType /\ ListType /\ WatchType /\ FlagType

LEMMA TypeInvIsTypeOK == TypeInv => TypeOK
<1> SUFFICES ASSUME TypeInv PROVE TypeOK
  OBVIOUS
<1>1. BreakItems \subseteq Items /\ BreakBlocks \subseteq Blocks
  BY BoundAssumption
     DEF BreakItems, Items, BreakBlocks, LoadBlocks, Blocks, AdKinds, ShortBreaks
<1>2. items \in Seq(Items)
  BY <1>1 DEF TypeInv, PlayerType
<1>3. queue \in Seq(Blocks)
  BY <1>1 DEF TypeInv, QueueType
<1>4. prepared \in Seq(Ads)
  BY DEF TypeInv, ListType, ShortBreaks
<1> QED
  BY <1>2, <1>3, <1>4 DEF TypeInv, TypeOK, PlayerType, ListType, WatchType, FlagType

\* The constants.
LEMMA RateFacts ==
  /\ 0 \in Rates /\ 1 \in Rates /\ FastRate \in Rates
  /\ Rates \subseteq Nat
BY RateAssumption DEF Rates

LEMMA UrlFacts == Ads \subseteq Urls /\ Contents \subseteq Urls /\ Ads \cap Contents = {}
BY UrlAssumption DEF Urls

\* The items that the code and the app put in the player.
LEMMA NewItemFields ==
  ASSUME NEW u \in Urls, NEW ad \in 0..MaxAds
  PROVE  /\ NewItem(u, ad) \in BreakItems
         /\ NewItem(u, ad).url = u /\ NewItem(u, ad).ad = ad
         /\ NewItem(u, ad).status = "unknown" /\ NewItem(u, ad).pos = 0
         /\ NewItem(u, ad).target = 0 /\ NewItem(u, ad).ret = 0
BY PositionAssumption, RateFacts DEF NewItem, BreakItems, Positions

LEMMA AdItemsFields ==
  ASSUME NEW urls \in ShortBreaks
  PROVE  /\ AdItems(urls) \in Seq(BreakItems) /\ Len(AdItems(urls)) = Len(urls)
         /\ \A n \in 1..Len(urls) :
              /\ AdItems(urls)[n].url = urls[n] /\ AdItems(urls)[n].url \in Ads
              /\ AdItems(urls)[n].ad = n /\ AdItems(urls)[n].ret = 0
<1>1. DOMAIN urls = 1..Len(urls) /\ Len(urls) \in Nat
  BY DEF ShortBreaks
<1>2. ASSUME NEW n \in 1..Len(urls) PROVE n \in 0..MaxAds /\ urls[n] \in Urls /\ urls[n] \in Ads
  BY <1>2, BoundAssumption, UrlFacts DEF ShortBreaks
<1>3. \A n \in 1..Len(urls) :
        /\ NewItem(urls[n], n) \in BreakItems
        /\ NewItem(urls[n], n).url = urls[n] /\ NewItem(urls[n], n).ad = n
        /\ NewItem(urls[n], n).ret = 0
  BY <1>2, NewItemFields
<1>4. AdItems(urls) = [n \in 1..Len(urls) |-> NewItem(urls[n], n)]
  BY <1>1 DEF AdItems
<1>5. AdItems(urls) \in Seq(BreakItems) /\ Len(AdItems(urls)) = Len(urls)
  BY <1>1, <1>3, <1>4
<1> QED
  BY <1>2, <1>3, <1>4, <1>5

LEMMA AppItemsFields ==
  ASSUME NEW count \in DOMAIN Playlist
  PROVE  /\ AppItems(count) \in Seq(BreakItems) /\ Len(AppItems(count)) = count
         /\ count \in Nat \ {0}
         /\ \A n \in 1..count :
              /\ AppItems(count)[n].url \in Contents /\ AppItems(count)[n].ad = 0
              /\ AppItems(count)[n].ret = 0 /\ AppItems(count)[n].target = 0
              /\ AppItems(count)[n].status = "readyToPlay"
<1>1. count \in 1..Len(Playlist) /\ Len(Playlist) \in Nat
  BY UrlAssumption
<1>2. ASSUME NEW n \in 1..count
      PROVE  Playlist[n] \in Contents /\ Playlist[n] \in Urls
  BY <1>1, UrlAssumption, UrlFacts
<1> DEFINE pos(n) == IF n = 1 THEN StartPos ELSE 0
           new(n) == NewItem(Playlist[n], 0)
           i(n) == [new(n) EXCEPT !.status = "readyToPlay", !.pos = pos(n)]
<1>3. \A n \in 1..count : pos(n) \in Positions
  BY PositionAssumption DEF Positions
<1>4. \A n \in 1..count :
        /\ new(n) \in BreakItems /\ new(n).url = Playlist[n] /\ new(n).ad = 0
        /\ new(n).target = 0 /\ new(n).ret = 0
  BY <1>2, NewItemFields, BoundAssumption
<1>5. AppItems(count) = [n \in 1..count |-> i(n)]
  BY DEF AppItems
<1> HIDE DEF new, pos
<1>6. \A n \in 1..count :
        /\ i(n) \in BreakItems /\ i(n).url = Playlist[n] /\ i(n).ad = 0
        /\ i(n).target = 0 /\ i(n).ret = 0 /\ i(n).status = "readyToPlay"
  BY <1>3, <1>4 DEF BreakItems
<1> HIDE DEF i
<1> QED
  BY <1>1, <1>2, <1>5, <1>6

LEMMA InitType == Init => TypeInv
<1> SUFFICES ASSUME Init PROVE TypeInv
  OBVIOUS
<1>1. PlayerType
  <2>1. items = <<>> \/ \E n \in DOMAIN Playlist : items = AppItems(n)
    BY DEF Init
  <2>2. items \in Seq(BreakItems)
    <3>1. CASE items = <<>>
      BY <3>1
    <3>2. ASSUME NEW n \in DOMAIN Playlist, items = AppItems(n) PROVE items \in Seq(BreakItems)
      <4>1. AppItems(n) \in Seq(BreakItems)
        BY AppItemsFields, Zenon
      <4> QED BY <3>2, <4>1
    <3> QED BY <2>1, <3>1, <3>2
  <2>3. rate \in Rates /\ stale = {}
    BY RateFacts DEF Init
  <2> QED
    BY <2>2, <2>3 DEF PlayerType
<1>2. QueueType /\ WatchType /\ FlagType
  <2>1. QueueType
    BY DEF Init, QueueType
  <2>2. WatchType
    BY BoundAssumption DEF Init, WatchType
  <2>3. FlagType
    BY DEF Init, FlagType
  <2> QED BY <2>1, <2>2, <2>3
<1>3. ListType
  BY PositionAssumption, RateFacts, RateAssumption, BoundAssumption
     DEF Init, ListType, Positions, ShortBreaks
<1> QED
  BY <1>1, <1>2, <1>3 DEF TypeInv

\* What the parts of the actions leave in the player.

LEMMA ItemsFields ==
  ASSUME TypeInv
  PROVE  /\ DOMAIN items = 1..Len(items) /\ Len(items) \in Nat
         /\ \A n \in 1..Len(items) :
              /\ items[n] \in BreakItems
              /\ items[n].url \in Urls /\ items[n].ad \in 0..MaxAds
              /\ items[n].status \in {"unknown", "readyToPlay", "failed"}
              /\ items[n].pos \in Positions /\ items[n].target \in Positions
              /\ items[n].ret \in Rates
<1>1. items \in Seq(BreakItems)
  BY DEF TypeInv, PlayerType
<1>2. ASSUME NEW n \in 1..Len(items) PROVE items[n] \in BreakItems
  BY <1>1
<1> QED
  BY <1>1, <1>2 DEF BreakItems

LEMMA HeadFields ==
  ASSUME TypeInv, items # <<>>
  PROVE  /\ Head(items) = items[1] /\ 1 \in 1..Len(items) /\ Len(items) \in Nat \ {0}
         /\ Head(items) \in BreakItems
         /\ Head(items).url \in Urls /\ Head(items).ad \in 0..MaxAds
         /\ Head(items).status \in {"unknown", "readyToPlay", "failed"}
         /\ Head(items).pos \in Positions /\ Head(items).target \in Positions
         /\ Head(items).ret \in Rates
         /\ Tail(items) \in Seq(BreakItems) /\ Len(Tail(items)) = Len(items) - 1
         /\ \A n \in 1..Len(Tail(items)) : n + 1 \in 1..Len(items)
                                           /\ Tail(items)[n] = items[n + 1]
<1>1. items \in Seq(BreakItems)
  BY DEF TypeInv, PlayerType
<1>2. /\ Tail(items) \in Seq(BreakItems) /\ Len(Tail(items)) = Len(items) - 1
      /\ Len(items) \in Nat \ {0} /\ Head(items) = items[1] /\ Head(items) \in BreakItems
      /\ \A n \in 1..Len(Tail(items)) :
           n + 1 \in 1..Len(items) /\ Tail(items)[n] = items[n + 1]
  BY <1>1, TailFacts
<1> QED
  BY <1>2 DEF BreakItems

LEMMA SetItemsType ==
  ASSUME TypeInv, NEW q \in Seq(BreakItems), SetItems(q)
  PROVE  /\ items' = q /\ items' \in Seq(BreakItems) /\ stale' \subseteq Rates
         /\ \/ stale' = stale
            \/ /\ items # <<>> /\ Head(items).ret > 0
               /\ stale' = stale \cup {Head(items).ret}
<1>1. items # <<>> => Head(items).ret \in Rates
  BY HeadFields
<1> QED
  BY <1>1 DEF SetItems, TypeInv, PlayerType

LEMMA AdvanceType ==
  ASSUME TypeInv, NEW q \in Seq(BreakItems), NEW r \in Rates, Advance(q, r)
  PROVE  /\ items' = q /\ PlayerType' /\ observing' \in BOOLEAN
         /\ \/ rate' = r /\ observing' = observing
            \/ /\ observing /\ AtOriginal(q) /\ r > 0
               /\ rate' = originalRate /\ observing' = FALSE
         /\ observing' => observing
         /\ \/ stale' = stale
            \/ /\ items # <<>> /\ Head(items).ret > 0
               /\ stale' = stale \cup {Head(items).ret}
<1>1. SetItems(q)
  BY DEF Advance
<1>2. \/ rate' = r /\ observing' = observing
      \/ /\ observing /\ AtOriginal(q) /\ r > 0
         /\ rate' = originalRate /\ observing' = FALSE
  BY DEF Advance
<1>3. rate' \in Rates /\ observing' \in BOOLEAN
  BY <1>2 DEF TypeInv, ListType, FlagType
<1> QED
  BY <1>1, <1>2, <1>3, SetItemsType DEF PlayerType, TypeInv, FlagType

\* The blocks of the queue.
LEMMA BlockTypes ==
  /\ \A k \in {"play", "stop", "return", "cancelled"} : [kind |-> k] \in BreakBlocks
  /\ \A urls \in ShortBreaks : [kind |-> "load", urls |-> urls] \in BreakBlocks
  /\ \A k \in AdKinds, ad \in 1..MaxAds : [kind |-> k, ad |-> ad] \in BreakBlocks
BY DEF BreakBlocks, LoadBlocks

LEMMA BlockFields ==
  ASSUME NEW b \in BreakBlocks
  PROVE  /\ b.kind \in {"play", "stop", "return", "cancelled", "load"} \cup AdKinds
         /\ b.kind = "load" => b.urls \in ShortBreaks
         /\ b.kind \in AdKinds => b.ad \in 1..MaxAds
BY DEF BreakBlocks, LoadBlocks, AdKinds

LEMMA CancelType ==
  ASSUME QueueType
  PROVE  /\ LoadsCancelled(queue) \in Seq(BreakBlocks)
         /\ Len(LoadsCancelled(queue)) = Len(queue)
         /\ \A n \in 1..Len(queue) :
              LoadsCancelled(queue)[n] =
                IF queue[n].kind = "load" THEN [kind |-> "cancelled"] ELSE queue[n]
<1>1. DOMAIN queue = 1..Len(queue) /\ Len(queue) \in Nat
  BY DEF QueueType
<1>2. \A n \in 1..Len(queue) : queue[n] \in BreakBlocks
  BY DEF QueueType
<1>3. [kind |-> "cancelled"] \in BreakBlocks
  BY BlockTypes
<1> QED BY <1>1, <1>2, <1>3 DEF LoadsCancelled

LEMMA ForgottenType ==
  ASSUME NEW q \in Seq(BreakBlocks)
  PROVE  /\ BlocksForgotten(q) \in Seq(BreakBlocks)
         /\ Len(BlocksForgotten(q)) = Len(q)
         /\ \A n \in 1..Len(q) :
              BlocksForgotten(q)[n] =
                IF q[n].kind \in AdKinds THEN [kind |-> "cancelled"] ELSE q[n]
<1>1. DOMAIN q = 1..Len(q) /\ Len(q) \in Nat
  OBVIOUS
<1>2. \A n \in 1..Len(q) : q[n] \in BreakBlocks
  OBVIOUS
<1>3. [kind |-> "cancelled"] \in BreakBlocks
  BY BlockTypes
<1> QED BY <1>1, <1>2, <1>3 DEF BlocksForgotten, Forgotten, AdKinds

LEMMA BodyFacts ==
  ASSUME QueueType, NEW kind, Body(kind)
  PROVE  /\ Head(queue) = queue[1] /\ Head(queue) \in BreakBlocks /\ queue[1].kind = kind
         /\ 1 \in 1..Len(queue) /\ Tail(queue) \in Seq(BreakBlocks)
         /\ Len(Tail(queue)) = Len(queue) - 1
         /\ \A n \in 1..Len(Tail(queue)) : n + 1 \in 1..Len(queue)
                                           /\ Tail(queue)[n] = queue[n + 1]
         /\ kind = "load" => Head(queue).urls \in ShortBreaks
         /\ kind \in AdKinds => Head(queue).ad \in 1..MaxAds
<1>1. queue # <<>> /\ Head(queue).kind = kind /\ queue \in Seq(BreakBlocks)
  BY DEF Body, QueueType
<1>2. /\ Tail(queue) \in Seq(BreakBlocks) /\ Len(Tail(queue)) = Len(queue) - 1
      /\ Len(queue) \in Nat \ {0}
      /\ Head(queue) = queue[1] /\ Head(queue) \in BreakBlocks
      /\ \A n \in 1..Len(Tail(queue)) :
           n + 1 \in 1..Len(queue) /\ Tail(queue)[n] = queue[n + 1]
  BY <1>1, TailFacts
<1>3. /\ Head(queue).kind = "load" => Head(queue).urls \in ShortBreaks
      /\ Head(queue).kind \in AdKinds => Head(queue).ad \in 1..MaxAds
  BY <1>2, BlockFields
<1> QED
  BY <1>1, <1>2, <1>3

LEMMA DispatchType ==
  ASSUME QueueType, NEW b \in BreakBlocks, Dispatch(b)
  PROVE  /\ queue' \in Seq(BreakBlocks) /\ Len(queue') = Len(queue) + 1
         /\ queue'[Len(queue) + 1] = b
         /\ \A n \in 1..Len(queue) : queue'[n] = queue[n]
BY DEF QueueType, Dispatch

\* releasePlayer(), with the blocks q.
LEMMA ReleaseType ==
  ASSUME TypeInv, NEW q \in Seq(BreakBlocks), ReleasePlayer(q)
  PROVE  /\ PlayerType' /\ items' = <<>> /\ rate' = 0
         /\ queue' = BlocksForgotten(q) /\ QueueType'
         /\ isAdPlaying' = FALSE /\ adItemsAttached' = FALSE /\ observing' = FALSE
         /\ prepared' = <<>> /\ prepared' \in ShortBreaks
         /\ failedAdItems' = {} /\ hasPlayer' = External /\ hasPlayer' \in BOOLEAN
<1>1. SetItems(<<>>) /\ <<>> \in Seq(BreakItems)
  BY DEF ReleasePlayer
<1>2. items' = <<>> /\ items' \in Seq(BreakItems) /\ stale' \subseteq Rates
  BY <1>1, SetItemsType
<1>3. QueueType' /\ queue' = BlocksForgotten(q)
  BY ForgottenType DEF ReleasePlayer, QueueType
<1>4. <<>> \in ShortBreaks
  BY BoundAssumption DEF ShortBreaks
<1> QED
  BY <1>2, <1>3, <1>4, RateFacts, ModeAssumption DEF ReleasePlayer, PlayerType

\* The items that returnToContent() puts in the player.
Returned == [n \in DOMAIN originalMediaUrls |->
               IF n = 1 THEN [NewItem(originalMediaUrls[1], 0) EXCEPT
                                !.target = originalPosition, !.ret = originalRate]
                        ELSE NewItem(originalMediaUrls[n], 0)]

Sought(i, p, r) == [i EXCEPT !.target = p, !.ret = r]

LEMMA SoughtFields ==
  ASSUME NEW i \in BreakItems, NEW p \in Positions, NEW r \in Rates
  PROVE  /\ Sought(i, p, r) \in BreakItems
         /\ Sought(i, p, r).url = i.url /\ Sought(i, p, r).ad = i.ad
         /\ Sought(i, p, r).status = i.status /\ Sought(i, p, r).pos = i.pos
         /\ Sought(i, p, r).target = p /\ Sought(i, p, r).ret = r
BY DEF BreakItems, Sought

LEMMA ReturnedFields ==
  ASSUME TypeInv
  PROVE  /\ Returned \in Seq(BreakItems) /\ Len(Returned) = Len(originalMediaUrls)
         /\ \A n \in 1..Len(originalMediaUrls) :
              /\ Returned[n].url = originalMediaUrls[n] /\ Returned[n].ad = 0
              /\ Returned[n].status = "unknown" /\ Returned[n].pos = 0
              /\ Returned[n].target = (IF n = 1 THEN originalPosition ELSE 0)
              /\ Returned[n].ret = (IF n = 1 THEN originalRate ELSE 0)
<1> DEFINE new(n) == NewItem(originalMediaUrls[n], 0)
           i(n) == IF n = 1 THEN [new(1) EXCEPT !.target = originalPosition,
                                                !.ret = originalRate]
                            ELSE new(n)
<1>1. /\ originalMediaUrls \in Seq(Urls) /\ originalPosition \in Positions
      /\ originalRate \in Rates
  BY DEF TypeInv, ListType
<1>2. \A n \in 1..Len(originalMediaUrls) : originalMediaUrls[n] \in Urls
  BY <1>1
<1>3. \A n \in 1..Len(originalMediaUrls) :
        /\ new(n) \in BreakItems
        /\ new(n).url = originalMediaUrls[n] /\ new(n).ad = 0
        /\ new(n).status = "unknown" /\ new(n).pos = 0
        /\ new(n).target = 0 /\ new(n).ret = 0
  BY <1>2, NewItemFields, BoundAssumption
<1>4. Returned = [n \in 1..Len(originalMediaUrls) |-> i(n)]
  BY <1>1 DEF Returned
<1> HIDE DEF new
<1>5. \A n \in 1..Len(originalMediaUrls) :
        /\ i(n) \in BreakItems
        /\ i(n).url = originalMediaUrls[n] /\ i(n).ad = 0
        /\ i(n).status = "unknown" /\ i(n).pos = 0
        /\ i(n).target = (IF n = 1 THEN originalPosition ELSE 0)
        /\ i(n).ret = (IF n = 1 THEN originalRate ELSE 0)
  <2> SUFFICES ASSUME NEW n \in 1..Len(originalMediaUrls)
               PROVE  /\ i(n) \in BreakItems
                      /\ i(n).url = originalMediaUrls[n] /\ i(n).ad = 0
                      /\ i(n).status = "unknown" /\ i(n).pos = 0
                      /\ i(n).target = (IF n = 1 THEN originalPosition ELSE 0)
                      /\ i(n).ret = (IF n = 1 THEN originalRate ELSE 0)
    OBVIOUS
  <2>1. CASE n = 1
    <3>1. PICK b \in BreakItems : b = new(1)
      BY <1>3, <2>1
    <3>2. i(n) = Sought(b, originalPosition, originalRate)
      BY <2>1, <3>1 DEF Sought
    <3> HIDE DEF i
    <3>3. /\ i(n) \in BreakItems
          /\ i(n).url = b.url /\ i(n).ad = b.ad
          /\ i(n).status = b.status /\ i(n).pos = b.pos
          /\ i(n).target = originalPosition /\ i(n).ret = originalRate
      BY <1>1, <3>2, SoughtFields
    <3> QED BY <1>3, <2>1, <3>1, <3>3
  <2>2. CASE n # 1
    BY <1>3, <2>2
  <2> QED BY <2>1, <2>2
<1> HIDE DEF i
<1>6. Len(originalMediaUrls) \in Nat
  BY <1>1
<1>7. /\ Returned \in Seq(BreakItems) /\ Len(Returned) = Len(originalMediaUrls)
      /\ \A n \in 1..Len(originalMediaUrls) : Returned[n] = i(n)
  BY <1>4, <1>5, <1>6
<1> QED
  BY <1>5, <1>7

LEMMA ReturnType ==
  ASSUME TypeInv, Return
  PROVE  /\ PlayerType' /\ rate' = rate
         /\ originalMediaUrls' \in Seq(Urls)
         /\ \/ /\ External /\ originalMediaUrls # <<>> /\ originalMediaUrls' = <<>>
               /\ items' = Returned
               /\ \/ stale' = stale
                  \/ /\ items # <<>> /\ Head(items).ret > 0
                     /\ stale' = stale \cup {Head(items).ret}
            \/ UNCHANGED <<items, stale, originalMediaUrls>>
<1>1. rate' = rate
  BY DEF Return
<1>2. CASE External /\ originalMediaUrls # <<>>
  <2>1. SetItems(Returned) /\ originalMediaUrls' = <<>>
    BY <1>2 DEF Return, Returned
  <2>2. Returned \in Seq(BreakItems)
    BY ReturnedFields
  <2> HIDE DEF Returned
  <2>3. /\ items' = Returned /\ items' \in Seq(BreakItems) /\ stale' \subseteq Rates
        /\ \/ stale' = stale
           \/ /\ items # <<>> /\ Head(items).ret > 0
              /\ stale' = stale \cup {Head(items).ret}
    BY <2>1, <2>2, SetItemsType
  <2> QED
    BY <1>1, <1>2, <2>1, <2>3 DEF TypeInv, PlayerType
<1>3. CASE ~(External /\ originalMediaUrls # <<>>)
  BY <1>1, <1>3 DEF Return, TypeInv, PlayerType, ListType
<1> QED BY <1>2, <1>3

\* The items that attachAdItems() puts behind the ads.
LEMMA PreSeekFields ==
  ASSUME NEW urls \in Seq(Urls), NEW pos \in Positions
  PROVE  /\ PreSeek(urls, pos) \in Seq(BreakItems) /\ Len(PreSeek(urls, pos)) = Len(urls)
         /\ \A n \in 1..Len(urls) :
              /\ PreSeek(urls, pos)[n].url = urls[n] /\ PreSeek(urls, pos)[n].ad = 0
              /\ PreSeek(urls, pos)[n].ret = 0
              /\ PreSeek(urls, pos)[n].status = "unknown"
              /\ PreSeek(urls, pos)[n].pos = 0
              /\ PreSeek(urls, pos)[n].target = (IF n = Len(urls) THEN pos ELSE 0)
<1> DEFINE new(n) == NewItem(urls[n], 0)
           target(n) == IF n = Len(urls) THEN pos ELSE 0
           i(n) == [new(n) EXCEPT !.target = target(n)]
<1>1. \A n \in 1..Len(urls) :
        /\ new(n) \in BreakItems /\ new(n).url = urls[n] /\ new(n).ad = 0
        /\ new(n).ret = 0 /\ new(n).status = "unknown" /\ new(n).pos = 0
  <2>1. \A n \in 1..Len(urls) : urls[n] \in Urls
    OBVIOUS
  <2> QED BY <2>1, NewItemFields, BoundAssumption
<1>2. \A n \in 1..Len(urls) : target(n) \in Positions
  BY PositionAssumption DEF Positions
<1>3. PreSeek(urls, pos) = [n \in 1..Len(urls) |-> i(n)]
  BY DEF PreSeek
<1> HIDE DEF new
<1>4. \A n \in 1..Len(urls) :
        /\ i(n) \in BreakItems /\ i(n).url = urls[n] /\ i(n).ad = 0 /\ i(n).ret = 0
        /\ i(n).status = "unknown" /\ i(n).pos = 0 /\ i(n).target = target(n)
  BY <1>1, <1>2 DEF BreakItems
<1> HIDE DEF i
<1> QED
  BY <1>3, <1>4

LEMMA DisplacedFields ==
  ASSUME TypeInv
  PROVE  /\ Displaced \in Seq(Urls) /\ Len(Displaced) = Len(items)
         /\ \A n \in 1..Len(items) : Displaced[n] = items[n].url
BY ItemsFields DEF Displaced

LEMMA LaterType == ASSUME NEW pos \in Positions PROVE Later(pos) \in Positions
BY PositionAssumption DEF Later, Positions

LEMMA AttachType ==
  ASSUME TypeInv, Attach
  PROVE  /\ items' \in Seq(BreakItems) /\ stale' \subseteq Rates
         /\ \/ stale' = stale
            \/ /\ items # <<>> /\ Head(items).ret > 0
               /\ stale' = stale \cup {Head(items).ret}
         /\ Len(items') = Len(prepared) + Len(originalMediaUrls')
         /\ \A n \in 1..Len(items') :
              /\ n <= Len(prepared) => /\ n \in 1..Len(prepared) /\ items'[n].url \in Ads
                                       /\ items'[n].ad = n /\ items'[n].ret = 0
              /\ n > Len(prepared) =>
                   /\ n - Len(prepared) \in 1..Len(originalMediaUrls')
                   /\ items'[n].url = originalMediaUrls'[n - Len(prepared)]
                   /\ items'[n].ad = 0 /\ items'[n].ret = 0
         /\ originalMediaUrls' = (IF items = <<>> THEN originalMediaUrls ELSE Displaced)
         /\ mediaUrls' = (IF items = <<>> THEN mediaUrls ELSE mediaUrls \o Displaced)
         /\ mediaUrls' \in Seq(Urls) /\ originalMediaUrls' \in Seq(Urls)
         /\ durations' \in Nat
         /\ originalPosition' \in Positions /\ originalRate' \in Rates \ {0}
         /\ owed' \in [url : Contents, pos : Positions, rate : Rates, alone : BOOLEAN]
                      \cup {None}
         /\ hasPlayer' = TRUE /\ adItemsAttached' = TRUE /\ observing' = TRUE
<1>1. /\ hasPlayer' = TRUE /\ adItemsAttached' = TRUE /\ observing' = TRUE
      /\ originalMediaUrls' = (IF items = <<>> THEN originalMediaUrls ELSE Displaced)
      /\ mediaUrls' = (IF items = <<>> THEN mediaUrls ELSE mediaUrls \o Displaced)
      /\ originalPosition' = (IF items = <<>> THEN originalPosition ELSE Later(Head(items).pos))
      /\ originalRate' = AppRate
      /\ durations' = durations + Len(originalMediaUrls')
      /\ SetItems(AdItems(prepared) \o PreSeek(originalMediaUrls', originalPosition'))
  BY DEF Attach, RateToRestore
<1>2. AppRate \in Rates \ {0}
  BY RateFacts DEF AppRate, TypeInv, PlayerType
<1>3. originalMediaUrls' \in Seq(Urls) /\ mediaUrls' \in Seq(Urls)
  <2>1. Displaced \in Seq(Urls) /\ mediaUrls \in Seq(Urls) /\ originalMediaUrls \in Seq(Urls)
    BY DisplacedFields DEF TypeInv, ListType
  <2>2. mediaUrls \o Displaced \in Seq(Urls)
    BY <2>1, BehindFacts
  <2> QED BY <1>1, <2>1, <2>2
<1>4. originalPosition' \in Positions
  <2>1. CASE items = <<>>
    BY <1>1, <2>1 DEF TypeInv, ListType
  <2>2. CASE items # <<>>
    BY <1>1, <2>2, HeadFields, LaterType
  <2> QED BY <2>1, <2>2
<1>5. durations' \in Nat
  BY <1>1, <1>3 DEF TypeInv, ListType
<1>6. owed' \in [url : Contents, pos : Positions, rate : Rates, alone : BOOLEAN] \cup {None}
  <2>1. owed' = owed
        \/ /\ items # <<>> /\ Head(items).url \in Contents
           /\ owed' = [url |-> Head(items).url, pos |-> Later(Head(items).pos),
                       rate |-> AppRate, alone |-> Len(items) = 1]
    BY DEF Attach
  <2>2. CASE owed' = owed
    BY <2>2 DEF TypeInv, ListType
  <2>3. ASSUME items # <<>>, Head(items).url \in Contents,
               owed' = [url |-> Head(items).url, pos |-> Later(Head(items).pos),
                        rate |-> AppRate, alone |-> Len(items) = 1]
        PROVE  owed' \in [url : Contents, pos : Positions, rate : Rates, alone : BOOLEAN]
    <3>1. Later(Head(items).pos) \in Positions
      BY <2>3, HeadFields, LaterType
    <3>2. (Len(items) = 1) \in BOOLEAN
      OBVIOUS
    <3> QED BY <1>2, <2>3, <3>1, <3>2
  <2> QED BY <2>1, <2>2, <2>3
<1> DEFINE a == AdItems(prepared)
           b == PreSeek(originalMediaUrls', originalPosition')
<1>7. prepared \in ShortBreaks /\ Len(prepared) \in Nat
  BY DEF TypeInv, ListType, ShortBreaks
<1>8. /\ a \in Seq(BreakItems) /\ Len(a) = Len(prepared)
      /\ \A n \in 1..Len(prepared) : a[n].url \in Ads /\ a[n].ad = n /\ a[n].ret = 0
  BY <1>7, AdItemsFields
<1>9. /\ b \in Seq(BreakItems) /\ Len(b) = Len(originalMediaUrls')
      /\ \A n \in 1..Len(originalMediaUrls') :
           b[n].url = originalMediaUrls'[n] /\ b[n].ad = 0 /\ b[n].ret = 0
  BY <1>3, <1>4, PreSeekFields
<1>10. SetItems(a \o b)
  BY <1>1
<1> HIDE DEF a, b
<1>11. /\ a \o b \in Seq(BreakItems) /\ Len(a \o b) = Len(a) + Len(b)
       /\ \A n \in 1..Len(a \o b) :
            /\ n <= Len(a) => n \in 1..Len(a) /\ (a \o b)[n] = a[n]
            /\ n > Len(a) => n - Len(a) \in 1..Len(b) /\ (a \o b)[n] = b[n - Len(a)]
  <2>1. a \in Seq(BreakItems) /\ b \in Seq(BreakItems)
    BY <1>8, <1>9
  <2> QED BY <2>1, BehindFacts, ZenonT(30)
<1>12. /\ items' = a \o b /\ items' \in Seq(BreakItems) /\ stale' \subseteq Rates
       /\ \/ stale' = stale
          \/ /\ items # <<>> /\ Head(items).ret > 0
             /\ stale' = stale \cup {Head(items).ret}
  BY <1>10, <1>11, SetItemsType
<1>13. /\ Len(items') = Len(prepared) + Len(originalMediaUrls')
       /\ \A n \in 1..Len(items') :
              /\ n <= Len(prepared) => /\ n \in 1..Len(prepared) /\ items'[n].url \in Ads
                                       /\ items'[n].ad = n /\ items'[n].ret = 0
              /\ n > Len(prepared) =>
                   /\ n - Len(prepared) \in 1..Len(originalMediaUrls')
                   /\ items'[n].url = originalMediaUrls'[n - Len(prepared)]
                   /\ items'[n].ad = 0 /\ items'[n].ret = 0
  <2>1. items' = a \o b /\ Len(a) = Len(prepared) /\ Len(b) = Len(originalMediaUrls')
    BY <1>8, <1>9, <1>12
  <2>2. ASSUME NEW n \in 1..Len(items'), n <= Len(prepared)
        PROVE  /\ n \in 1..Len(prepared) /\ items'[n].url \in Ads
               /\ items'[n].ad = n /\ items'[n].ret = 0
    <3>1. n \in 1..Len(prepared) /\ items'[n] = a[n]
      BY <1>11, <2>1, <2>2
    <3> QED BY <1>8, <3>1
  <2>3. ASSUME NEW n \in 1..Len(items'), n > Len(prepared)
        PROVE  /\ n - Len(prepared) \in 1..Len(originalMediaUrls')
               /\ items'[n].url = originalMediaUrls'[n - Len(prepared)]
               /\ items'[n].ad = 0 /\ items'[n].ret = 0
    <3>1. /\ n - Len(prepared) \in 1..Len(originalMediaUrls')
          /\ items'[n] = b[n - Len(prepared)]
      BY <1>11, <2>1, <2>3
    <3> QED BY <1>9, <3>1
  <2>4. Len(items') = Len(prepared) + Len(originalMediaUrls')
    BY <1>11, <2>1
  <2> QED BY <2>2, <2>3, <2>4
<1> QED
  BY <1>1, <1>2, <1>3, <1>4, <1>5, <1>6, <1>12, <1>13

\* reportAdItemFailure() of an ad of the break.
LEMMA ReportType ==
  ASSUME TypeInv, NEW ad \in 1..MaxAds, Report(ad) \/ NoReport
  PROVE  /\ reportedAd' \in 0..MaxAds /\ adItemFailureReported' \in BOOLEAN
         /\ reportedAd' \in {reportedAd, ad}
<1>1. CASE reportedAd' = ad /\ adItemFailureReported' = TRUE
  BY <1>1, BoundAssumption
<1>2. CASE UNCHANGED <<adItemFailureReported, reportedAd>>
  BY <1>2 DEF TypeInv, WatchType, FlagType
<1> QED
  BY <1>1, <1>2 DEF Report, NoReport

\* An item of the queue that changes in its place.
LEMMA InPlace ==
  ASSUME NEW q \in Seq(BreakItems), NEW n \in 1..Len(q), NEW i \in BreakItems
  PROVE  /\ [q EXCEPT ![n] = i] \in Seq(BreakItems) /\ Len([q EXCEPT ![n] = i]) = Len(q)
         /\ \A m \in 1..Len(q) : [q EXCEPT ![n] = i][m] = IF m = n THEN i ELSE q[m]
OBVIOUS

LEMMA ReadyFields ==
  ASSUME TypeInv, NEW n \in DOMAIN items, ItemReady(n)
  PROVE  /\ n \in 1..Len(items) /\ items' \in Seq(BreakItems) /\ Len(items') = Len(items)
         /\ \A m \in 1..Len(items) :
              /\ m # n => items'[m] = items[m]
              /\ items'[m].url = items[m].url /\ items'[m].ad = items[m].ad
              /\ items'[m].ret = items[m].ret
              /\ items'[m].target \in {items[m].target, 0}
<1> DEFINE pos == IF items[n].pos = 0 /\ items[n].ret = 0 THEN items[n].target
                                                          ELSE items[n].pos
           target == IF items[n].ret = 0 THEN 0 ELSE items[n].target
           i == [items[n] EXCEPT !.status = "readyToPlay", !.pos = pos, !.target = target]
<1>1. items \in Seq(BreakItems) /\ n \in 1..Len(items) /\ items[n] \in BreakItems
  BY DEF TypeInv, PlayerType
<1>2. items' = [items EXCEPT ![n] = i]
  BY <1>1 DEF ItemReady, BreakItems
<1>3. pos \in Positions /\ target \in Positions /\ target \in {items[n].target, 0}
  BY <1>1, PositionAssumption DEF BreakItems, Positions
<1> HIDE DEF pos, target
<1>4. /\ i \in BreakItems /\ i.url = items[n].url /\ i.ad = items[n].ad
      /\ i.ret = items[n].ret /\ i.target = target
  BY <1>1, <1>3 DEF BreakItems
<1> HIDE DEF i
<1> QED
  BY <1>1, <1>2, <1>3, <1>4, InPlace

LEMMA FailsFields ==
  ASSUME TypeInv, NEW n \in DOMAIN items, ItemFails(n)
  PROVE  /\ n \in 1..Len(items) /\ items' \in Seq(BreakItems) /\ Len(items') = Len(items)
         /\ \A m \in 1..Len(items) :
              /\ m # n => items'[m] = items[m]
              /\ items'[m].url = items[m].url /\ items'[m].ad = items[m].ad
              /\ items'[m].ret = items[m].ret
              /\ items'[m].target \in {items[m].target, 0}
         /\ IF items[n].ad > 0
              THEN /\ Dispatch([kind |-> "failed", ad |-> items[n].ad])
                   /\ items[n].ad \in 1..MaxAds
              ELSE UNCHANGED queue
<1> DEFINE target == IF items[n].ret = 0 THEN 0 ELSE items[n].target
           i == [items[n] EXCEPT !.status = "failed", !.target = target]
<1>1. items \in Seq(BreakItems) /\ n \in 1..Len(items) /\ items[n] \in BreakItems
  BY DEF TypeInv, PlayerType
<1>2. items' = [items EXCEPT ![n] = i]
  BY <1>1 DEF ItemFails, BreakItems
<1>3. target \in Positions /\ target \in {items[n].target, 0}
  BY <1>1, PositionAssumption DEF BreakItems, Positions
<1> HIDE DEF target
<1>4. /\ i \in BreakItems /\ i.url = items[n].url /\ i.ad = items[n].ad
      /\ i.ret = items[n].ret /\ i.target = target
  BY <1>1, <1>3 DEF BreakItems
<1> HIDE DEF i
<1>5. items[n].ad > 0 => items[n].ad \in 1..MaxAds
  BY <1>1, BoundAssumption DEF BreakItems
<1>6. /\ items' \in Seq(BreakItems) /\ Len(items') = Len(items)
      /\ \A m \in 1..Len(items) : items'[m] = IF m = n THEN i ELSE items[m]
  BY <1>1, <1>2, <1>4, InPlace
<1>7. IF items[n].ad > 0 THEN Dispatch([kind |-> "failed", ad |-> items[n].ad])
                         ELSE UNCHANGED queue
  BY DEF ItemFails
<1> QED
  BY <1>1, <1>3, <1>4, <1>5, <1>6, <1>7

LEMMA SeekFields ==
  ASSUME TypeInv, ReturnSeekCompletes
  PROVE  /\ items # <<>> /\ items' \in Seq(BreakItems) /\ Len(items') = Len(items)
         /\ rate' = items[1].ret /\ rate' \in Rates /\ items[1].ret > 0
         /\ \A m \in 1..Len(items) :
              /\ m # 1 => items'[m] = items[m]
              /\ items'[m].url = items[m].url /\ items'[m].ad = items[m].ad
              /\ items'[m].ret \in {items[m].ret, 0}
              /\ items'[m].target \in {items[m].target, 0}
         /\ items'[1].ret = 0
<1> DEFINE i == [items[1] EXCEPT !.pos = items[1].target, !.target = 0, !.ret = 0]
<1>1. items # <<>> /\ Head(items).ret > 0 /\ rate' = items[1].ret
  BY DEF ReturnSeekCompletes
<1>2. /\ items \in Seq(BreakItems) /\ 1 \in 1..Len(items) /\ items[1] \in BreakItems
      /\ Head(items) = items[1]
  BY <1>1, HeadFields DEF TypeInv, PlayerType
<1>3. items' = [items EXCEPT ![1] = i]
  BY <1>2 DEF ReturnSeekCompletes, BreakItems
<1>4. /\ i \in BreakItems /\ i.url = items[1].url /\ i.ad = items[1].ad
      /\ i.ret = 0 /\ i.target = 0
  <2>1. 0 \in Rates /\ 0 \in Positions
    BY RateFacts, PositionAssumption DEF Positions
  <2> QED BY <1>2, <2>1 DEF BreakItems
<1>5. items[1].ret \in Rates
  BY <1>2 DEF BreakItems
<1> HIDE DEF i
<1> QED
  BY <1>1, <1>2, <1>3, <1>4, <1>5, InPlace

LEMMA ForgottenFields ==
  ASSUME TypeInv
  PROVE  /\ ItemsForgotten \in Seq(BreakItems) /\ Len(ItemsForgotten) = Len(items)
         /\ \A n \in 1..Len(items) :
              /\ ItemsForgotten[n].url = items[n].url /\ ItemsForgotten[n].ad = 0
              /\ ItemsForgotten[n].ret = items[n].ret
              /\ ItemsForgotten[n].target = items[n].target
              /\ ItemsForgotten[n].status = items[n].status
              /\ ItemsForgotten[n].pos = items[n].pos
<1> DEFINE i(n) == [items[n] EXCEPT !.ad = 0]
<1>1. 0 \in 0..MaxAds
  BY BoundAssumption
<1>2. ASSUME NEW n \in 1..Len(items)
      PROVE  /\ i(n) \in BreakItems /\ i(n).url = items[n].url /\ i(n).ad = 0
             /\ i(n).ret = items[n].ret /\ i(n).target = items[n].target
             /\ i(n).status = items[n].status /\ i(n).pos = items[n].pos
  <2>1. items[n] \in BreakItems
    BY ItemsFields
  <2> QED BY <1>1, <2>1 DEF BreakItems
<1>3. ItemsForgotten = [n \in 1..Len(items) |-> i(n)] /\ Len(items) \in Nat
  BY ItemsFields DEF ItemsForgotten
<1> HIDE DEF i
<1> QED
  BY <1>2, <1>3

\* The first entry of a URL has an index of the list.
LEMMA EntryFound ==
  ASSUME NEW s \in Seq(Urls), NEW u \in Urls, Contains(s, u)
  PROVE  SelectInSeq(s, LAMBDA v : v = u) \in 1..Len(s)
<1> DEFINE I == {i \in 1..Len(s) : s[i] = u}
<1>1. I # {} /\ I \subseteq Nat
  BY DEF Contains
<1>2. PICK m \in I : \A i \in I : <<i, m>> \notin OpToRel(<, Nat)
  BY <1>1, NatLessThanWellFounded, WFMin
<1>3. ASSUME NEW i \in I PROVE m =< i
  <2>1. <<i, m>> \in Nat \X Nat
    BY <1>1
  <2>2. ~(i < m)
    BY <2>1, <1>2, <1>3 DEF OpToRel
  <2> QED BY <2>1, <2>2
<1>4. Min(I) \in I
  BY <1>3 DEF Min
<1> QED
  BY <1>1, <1>4 DEF SelectInSeq

LEMMA BreakTypes == \A urls \in Breaks : urls \in ShortBreaks /\ Len(urls) > 0
BY BoundAssumption DEF Breaks, ShortBreaks

\* Every step keeps the types.
LEMMA CoreType ==
  ASSUME TypeInv, Core
  PROVE  TypeInv'
<1> USE DEF list, original, watch, avPlayer, pod, phase
<1> DEFINE Same == PlayerType' /\ ListType' /\ WatchType'
<1>1. ASSUME NEW urls \in Breaks, Load(urls) PROVE TypeInv'
  <2>1. [kind |-> "load", urls |-> urls] \in BreakBlocks
    BY BreakTypes, BlockTypes
  <2>2. QueueType'
    BY <1>1, <2>1, CancelType DEF Load, TypeInv, QueueType
  <2>3. Same
    BY <1>1 DEF Load, TypeInv, PlayerType, ListType, WatchType
  <2>4. FlagType'
    BY <1>1 DEF Load, TypeInv, FlagType
  <2> QED BY <2>2, <2>3, <2>4 DEF TypeInv
<1>2. CASE Play
  <2>1. QueueType'
    BY <1>2, BlockTypes, DispatchType DEF Play, TypeInv, QueueType
  <2>2. Same
    BY <1>2 DEF Play, TypeInv, PlayerType, ListType, WatchType
  <2>3. FlagType'
    BY <1>2 DEF Play, TypeInv, FlagType
  <2> QED BY <2>1, <2>2, <2>3 DEF TypeInv
<1>3. CASE StopIgnored
  <2>1. Same /\ QueueType'
    BY <1>3 DEF StopIgnored, TypeInv, PlayerType, ListType, WatchType, QueueType
  <2>2. FlagType'
    BY <1>3 DEF StopIgnored, TypeInv, FlagType
  <2> QED BY <2>1, <2>2 DEF TypeInv
<1>4. CASE Stop
  <2>1. [kind |-> "stop"] \in BreakBlocks
    BY BlockTypes
  <2>2. QueueType'
    BY <1>4, <2>1, CancelType DEF Stop, TypeInv, QueueType
  <2>3. Same
    BY <1>4 DEF Stop, TypeInv, PlayerType, ListType, WatchType
  <2>4. FlagType'
    BY <1>4 DEF Stop, TypeInv, FlagType
  <2> QED BY <2>2, <2>3, <2>4 DEF TypeInv
<1>5. CASE StopOnMain
  <2>1. ReleasePlayer(LoadsCancelled(queue)) /\ LoadsCancelled(queue) \in Seq(BreakBlocks)
    BY <1>5, CancelType DEF StopOnMain, TypeInv
  <2>2. /\ PlayerType' /\ QueueType' /\ prepared' \in ShortBreaks
        /\ isAdPlaying' = FALSE /\ adItemsAttached' = FALSE /\ observing' = FALSE
        /\ failedAdItems' = {} /\ hasPlayer' \in BOOLEAN
    BY <2>1, ReleaseType
  <2>3. ListType' /\ WatchType'
    BY <1>5, <2>2 DEF StopOnMain, TypeInv, ListType, WatchType
  <2>4. FlagType'
    BY <1>5, <2>2 DEF StopOnMain, TypeInv, FlagType
  <2> QED BY <2>2, <2>3, <2>4 DEF TypeInv
<1>6. CASE ReturnToContent
  <2>1. QueueType'
    BY <1>6, BlockTypes, DispatchType DEF ReturnToContent, TypeInv, QueueType
  <2>2. Same
    BY <1>6 DEF ReturnToContent, TypeInv, PlayerType, ListType, WatchType
  <2>3. FlagType'
    BY <1>6 DEF ReturnToContent, TypeInv, FlagType
  <2> QED BY <2>1, <2>2, <2>3 DEF TypeInv
<1>7. CASE ReturnOnMain
  <2>1. Return /\ QueueType'
    BY <1>7 DEF ReturnOnMain, TypeInv, QueueType
  <2>2. PlayerType' /\ originalMediaUrls' \in Seq(Urls)
    BY <2>1, ReturnType
  <2>3. ListType' /\ WatchType' /\ FlagType'
    BY <2>1, <2>2 DEF Return, TypeInv, ListType, WatchType, FlagType
  <2> QED BY <2>1, <2>2, <2>3 DEF TypeInv
<1>8. ASSUME NEW u \in Ads, EnqueueNextItem(u) PROVE TypeInv'
  <2>1. NewItem(u, 0) \in BreakItems
    BY NewItemFields, UrlFacts, BoundAssumption
  <2>2. Append(items, NewItem(u, 0)) \in Seq(BreakItems)
    BY <2>1 DEF TypeInv, PlayerType
  <2>3. items' \in Seq(BreakItems) /\ stale' \subseteq Rates
    BY <1>8, <2>2, SetItemsType DEF EnqueueNextItem
  <2>4. PlayerType'
    BY <1>8, <2>3 DEF EnqueueNextItem, TypeInv, PlayerType
  <2>5. ListType'
    BY <1>8, UrlFacts DEF EnqueueNextItem, TypeInv, ListType
  <2>6. WatchType' /\ FlagType' /\ QueueType'
    BY <1>8 DEF EnqueueNextItem, TypeInv, WatchType, FlagType, QueueType
  <2> QED BY <2>4, <2>5, <2>6 DEF TypeInv
<1>9. ASSUME NEW u \in Ads, RemoveNextItem(u) PROVE TypeInv'
  <2> DEFINE k == SelectInSeq(mediaUrls, LAMBDA v : v = u)
  <2>1. /\ mediaUrls' = RemoveAt(mediaUrls, k)
        /\ durations' = IF k <= durations THEN durations - 1 ELSE durations
        /\ IF k > Len(items) THEN UNCHANGED <<avPlayer, observing>>
           ELSE IF k = 1 THEN Advance(Tail(items), rate)
           ELSE SetItems(RemoveAt(items, k)) /\ UNCHANGED <<rate, observing>>
    BY <1>9 DEF RemoveNextItem
  <2>2. mediaUrls \in Seq(Urls) /\ k \in 1..Len(mediaUrls) /\ durations \in Nat
    <3>1. /\ mediaUrls \in Seq(Urls) /\ durations \in Nat
          /\ u \in Urls /\ Contains(mediaUrls, u)
      BY <1>9, UrlFacts DEF RemoveNextItem, TypeInv, ListType
    <3>2. k \in 1..Len(mediaUrls)
      BY <3>1, EntryFound
    <3> QED BY <3>1, <3>2
  <2> HIDE DEF k
  <2>3. mediaUrls' \in Seq(Urls) /\ durations' \in Nat
    BY <2>1, <2>2, RemoveAtFacts
  <2>4. PlayerType' /\ observing' \in BOOLEAN
    <3>1. CASE k > Len(items)
      BY <2>1, <3>1 DEF TypeInv, PlayerType, FlagType
    <3>2. CASE k = 1 /\ ~(k > Len(items))
      <4>1. Advance(Tail(items), rate) /\ rate \in Rates /\ items # <<>>
        BY <2>1, <3>2 DEF TypeInv, PlayerType
      <4>2. Tail(items) \in Seq(BreakItems)
        BY <4>1, HeadFields
      <4> QED BY <4>1, <4>2, AdvanceType
    <3>3. CASE k # 1 /\ ~(k > Len(items))
      <4>1. SetItems(RemoveAt(items, k)) /\ UNCHANGED <<rate, observing>>
        BY <2>1, <3>3
      <4>2. k \in 1..Len(items) /\ items \in Seq(BreakItems)
        BY <2>2, <3>3 DEF TypeInv, PlayerType
      <4>3. RemoveAt(items, k) \in Seq(BreakItems)
        BY <4>2, RemoveAtFacts
      <4>4. items' \in Seq(BreakItems) /\ stale' \subseteq Rates
        BY <4>1, <4>3, SetItemsType
      <4> QED BY <4>1, <4>4 DEF TypeInv, PlayerType, FlagType
    <3> QED BY <3>1, <3>2, <3>3
  <2>5. ListType'
    BY <1>9, <2>3 DEF RemoveNextItem, TypeInv, ListType
  <2>6. WatchType' /\ FlagType' /\ QueueType'
    BY <1>9, <2>4 DEF RemoveNextItem, TypeInv, WatchType, FlagType, QueueType
  <2> QED BY <2>4, <2>5, <2>6 DEF TypeInv
<1>10. CASE PlayNextItem
  <2>1. /\ items # <<>> /\ Advance(Tail(items), rate) /\ rate \in Rates
        /\ skipped' = skipped \cup {ad \in DOMAIN prepared : prepared[ad] = Head(items).url}
    <3>1. items # <<>>
      BY <1>10 DEF PlayNextItem
    <3> QED BY <1>10, <3>1 DEF PlayNextItem, TypeInv, PlayerType
  <2>2. Tail(items) \in Seq(BreakItems) /\ Head(items).ad \in 0..MaxAds
    BY <2>1, HeadFields
  <2>3. PlayerType' /\ observing' \in BOOLEAN
    BY <2>1, <2>2, AdvanceType
  <2>4. skipped' \subseteq 1..MaxAds
    <3>1. DOMAIN prepared \subseteq 1..MaxAds
      BY BoundAssumption DEF TypeInv, ListType, ShortBreaks
    <3> QED BY <2>1, <3>1 DEF TypeInv, WatchType
  <2>5. ListType' /\ WatchType'
    BY <1>10, <2>4 DEF PlayNextItem, TypeInv, ListType, WatchType
  <2>6. FlagType' /\ QueueType'
    BY <1>10, <2>3 DEF PlayNextItem, TypeInv, FlagType, QueueType
  <2> QED BY <2>3, <2>5, <2>6 DEF TypeInv
<1>11. CASE PlayedOut
  <2>1. Same /\ QueueType'
    BY <1>11 DEF PlayedOut, TypeInv, PlayerType, ListType, WatchType, QueueType
  <2>2. FlagType'
    BY <1>11 DEF PlayedOut, TypeInv, FlagType
  <2> QED BY <2>1, <2>2 DEF TypeInv
<1>12. ASSUME NEW r \in {0, 1}, PauseResume(r) PROVE TypeInv'
  <2>1. PlayerType'
    BY <1>12, RateFacts DEF PauseResume, TypeInv, PlayerType
  <2>2. ListType' /\ WatchType' /\ QueueType'
    BY <1>12 DEF PauseResume, TypeInv, ListType, WatchType, QueueType
  <2>3. FlagType'
    BY <1>12 DEF PauseResume, TypeInv, FlagType
  <2> QED BY <2>1, <2>2, <2>3 DEF TypeInv
<1> QED
  BY <1>1, <1>2, <1>3, <1>4, <1>5, <1>6, <1>7, <1>8, <1>9, <1>10, <1>11, <1>12 DEF Core

LEMMA MainType ==
  ASSUME TypeInv, RunMain
  PROVE  TypeInv'
<1> USE DEF list, original, watch, avPlayer, pod, phase
<1>1. CASE SkipCancelled
  <2>1. QueueType'
    BY <1>1, BodyFacts DEF SkipCancelled, TypeInv, QueueType
  <2>2. PlayerType' /\ ListType' /\ WatchType'
    BY <1>1 DEF SkipCancelled, TypeInv, PlayerType, ListType, WatchType
  <2>3. FlagType'
    BY <1>1 DEF SkipCancelled, TypeInv, FlagType
  <2> QED BY <2>1, <2>2, <2>3 DEF TypeInv
<1>2. CASE RunLoad
  <2> DEFINE urls == Head(queue).urls
  <2>1. Body("load") /\ queue' = BlocksForgotten(Tail(queue)) /\ QueueType
    BY <1>2 DEF RunLoad, TypeInv
  <2>2. urls \in ShortBreaks /\ Tail(queue) \in Seq(BreakBlocks)
    BY <2>1, BodyFacts
  <2>3. /\ mediaUrls' = urls /\ adCount' = Len(urls) /\ durations' = Len(urls)
        /\ prepared' = urls /\ Prepare(urls)
    BY <1>2 DEF RunLoad
  <2> HIDE DEF urls
  <2>4. QueueType'
    BY <2>1, <2>2, ForgottenType DEF QueueType
  <2>5. urls \in Seq(Urls) /\ Len(urls) \in Nat
    BY <2>2, UrlFacts DEF ShortBreaks
  <2>6. PlayerType' /\ isAdPlaying' \in BOOLEAN /\ hasPlayer' \in BOOLEAN
          /\ observing' \in BOOLEAN
    <3>1. CASE External
      <4>1. /\ items' = ItemsForgotten
            /\ UNCHANGED <<isAdPlaying, hasPlayer, observing, rate, stale>>
        BY <2>3, <3>1 DEF Prepare
      <4> QED
        BY <4>1, ForgottenFields DEF TypeInv, PlayerType, FlagType
    <3>2. CASE ~External
      <4>1. /\ isAdPlaying' = (isAdPlaying /\ ~hasPlayer) /\ hasPlayer' = TRUE
            /\ observing' = (observing /\ ~hasPlayer)
            /\ SetItems(AdItems(urls)) /\ rate' = 0
        BY <2>3, <3>2 DEF Prepare
      <4>2. AdItems(urls) \in Seq(BreakItems)
        BY <2>2, AdItemsFields
      <4>3. items' \in Seq(BreakItems) /\ stale' \subseteq Rates
        BY <4>1, <4>2, SetItemsType
      <4> QED BY <4>1, <4>3, RateFacts DEF PlayerType
    <3> QED BY <3>1, <3>2
  <2>7. ListType'
    BY <1>2, <2>2, <2>3, <2>5, PositionAssumption
       DEF RunLoad, TypeInv, ListType, Positions
  <2>8. WatchType'
    BY <1>2, BoundAssumption DEF RunLoad, WatchType
  <2>9. FlagType'
    BY <1>2, <2>6, ModeAssumption DEF RunLoad, TypeInv, FlagType
  <2> QED BY <2>4, <2>6, <2>7, <2>8, <2>9 DEF TypeInv
<1>3. CASE RunPlay
  <2>1. QueueType'
    BY <1>3, BodyFacts DEF RunPlay, TypeInv, QueueType
  <2>2. reportedAd' \in 0..MaxAds /\ adItemFailureReported' \in BOOLEAN
    <3>1. CASE 1 \in failedAdItems /\ Report(1)
      BY <3>1, ReportType DEF TypeInv, WatchType
    <3>2. CASE NoReport
      BY <3>2 DEF NoReport, TypeInv, WatchType, FlagType
    <3> QED BY <1>3, <3>1, <3>2 DEF RunPlay, ReportFirst
  <2>3. WatchType'
    BY <1>3, <2>2 DEF RunPlay, TypeInv, WatchType
  <2>4. rate' \in Rates /\ caller' \in {caller, "playing"}
    BY <1>3, RateFacts DEF RunPlay, Plays, TypeInv, PlayerType
  <2>5. CASE External /\ ~adItemsAttached /\ prepared # <<>>
    <3>1. Attach
      BY <1>3, <2>5 DEF RunPlay
    <3>2. PlayerType'
      BY <2>4, <3>1, AttachType DEF PlayerType
    <3>3. ListType'
      BY <1>3, <3>1, AttachType DEF RunPlay, TypeInv, ListType
    <3>4. FlagType'
      BY <1>3, <2>2, <2>4, <3>1, AttachType DEF RunPlay, TypeInv, FlagType
    <3> QED BY <2>1, <2>3, <3>2, <3>3, <3>4 DEF TypeInv
  <2>6. CASE ~(External /\ ~adItemsAttached /\ prepared # <<>>)
    <3>1. UNCHANGED <<hasPlayer, mediaUrls, durations, original, adItemsAttached,
                      observing, items, stale, owed>>
      BY <1>3, <2>6 DEF RunPlay
    <3>2. PlayerType' /\ ListType'
      BY <1>3, <2>4, <3>1 DEF RunPlay, TypeInv, PlayerType, ListType
    <3>3. FlagType'
      BY <1>3, <2>2, <2>4, <3>1 DEF RunPlay, TypeInv, FlagType
    <3> QED BY <2>1, <2>3, <3>2, <3>3 DEF TypeInv
  <2> QED BY <2>5, <2>6
<1>4. CASE RunStop
  <2>1. ReleasePlayer(Tail(queue)) /\ Tail(queue) \in Seq(BreakBlocks)
    BY <1>4, BodyFacts DEF RunStop, TypeInv
  <2>2. /\ PlayerType' /\ QueueType' /\ prepared' \in ShortBreaks
        /\ isAdPlaying' = FALSE /\ adItemsAttached' = FALSE /\ observing' = FALSE
        /\ failedAdItems' = {} /\ hasPlayer' \in BOOLEAN
    BY <2>1, ReleaseType
  <2>3. ListType' /\ WatchType'
    BY <1>4, <2>2 DEF RunStop, TypeInv, ListType, WatchType
  <2>4. FlagType'
    BY <1>4, <2>2 DEF RunStop, TypeInv, FlagType
  <2> QED BY <2>2, <2>3, <2>4 DEF TypeInv
<1>5. CASE RunReturn
  <2>1. Return /\ QueueType'
    BY <1>5, BodyFacts DEF RunReturn, TypeInv, QueueType
  <2>2. PlayerType' /\ originalMediaUrls' \in Seq(Urls)
    BY <2>1, ReturnType
  <2>3. ListType' /\ WatchType' /\ FlagType'
    BY <2>1, <2>2 DEF Return, TypeInv, ListType, WatchType, FlagType
  <2> QED BY <2>1, <2>2, <2>3 DEF TypeInv
<1>6. ASSUME AdEvent, QueueType', reportedAd' \in 0..MaxAds,
             adItemFailureReported' \in BOOLEAN, failedAdItems' \subseteq 1..MaxAds,
             endedAdItemCount' \in 0..MaxAds
      PROVE  TypeInv'
  <2>1. PlayerType' /\ ListType' /\ WatchType'
    BY <1>6 DEF AdEvent, TypeInv, PlayerType, ListType, WatchType
  <2>2. FlagType'
    BY <1>6 DEF AdEvent, TypeInv, FlagType
  <2> QED BY <1>6, <2>1, <2>2 DEF TypeInv
<1>7. failedAdItems \subseteq 1..MaxAds /\ endedAdItemCount \in 0..MaxAds
        /\ reportedAd \in 0..MaxAds /\ adItemFailureReported \in BOOLEAN
  BY DEF TypeInv, WatchType, FlagType
<1>8. CASE AdItemFailed
  <2> DEFINE ad == Head(queue).ad
  <2>1. ad \in 1..MaxAds /\ QueueType'
    BY <1>8, BodyFacts DEF AdItemFailed, TypeInv, QueueType, AdKinds
  <2>2. /\ failedAdItems' = failedAdItems \cup {ad} /\ (Report(ad) \/ NoReport)
        /\ AdEvent /\ endedAdItemCount' = endedAdItemCount
    BY <1>8 DEF AdItemFailed
  <2> HIDE DEF ad
  <2>3. reportedAd' \in 0..MaxAds /\ adItemFailureReported' \in BOOLEAN
    BY <2>1, <2>2, ReportType
  <2> QED BY <1>6, <1>7, <2>1, <2>2, <2>3
<1>9. CASE AdItemBroken
  <2> DEFINE ad == Head(queue).ad
  <2>1. ad \in 1..MaxAds /\ QueueType'
    BY <1>9, BodyFacts DEF AdItemBroken, TypeInv, QueueType, AdKinds
  <2>2. /\ (Report(ad) \/ NoReport) /\ AdEvent
        /\ failedAdItems' = failedAdItems /\ endedAdItemCount' = endedAdItemCount
    BY <1>9 DEF AdItemBroken
  <2> HIDE DEF ad
  <2>3. reportedAd' \in 0..MaxAds /\ adItemFailureReported' \in BOOLEAN
    BY <2>1, <2>2, ReportType
  <2> QED BY <1>6, <1>7, <2>1, <2>2, <2>3
<1>10. CASE AdItemEnded
  <2> DEFINE ad == Head(queue).ad
  <2>1. ad \in 1..MaxAds /\ QueueType'
    BY <1>10, BodyFacts DEF AdItemEnded, TypeInv, QueueType, AdKinds
  <2>2. /\ IF ad + 1 \in failedAdItems THEN Report(ad + 1) ELSE NoReport
        /\ endedAdItemCount' \in {endedAdItemCount, ad}
        /\ AdEvent /\ failedAdItems' = failedAdItems
    BY <1>10 DEF AdItemEnded
  <2> HIDE DEF ad
  <2>3. reportedAd' \in 0..MaxAds /\ adItemFailureReported' \in BOOLEAN
    <3>1. CASE ad + 1 \in failedAdItems /\ Report(ad + 1)
      BY <1>7, <3>1, ReportType
    <3>2. CASE NoReport
      BY <1>7, <3>2 DEF NoReport
    <3> QED BY <2>2, <3>1, <3>2
  <2>4. endedAdItemCount' \in 0..MaxAds
    BY <1>7, <2>1, <2>2, BoundAssumption
  <2> QED BY <1>6, <1>7, <2>1, <2>2, <2>3, <2>4
<1> QED
  BY <1>1, <1>2, <1>3, <1>4, <1>5, <1>8, <1>9, <1>10 DEF RunMain

LEMMA PlayerStepType ==
  ASSUME TypeInv,
         \/ AVQueuePlayer \/ \E rebuild \in BOOLEAN : DiagnosticsSwap(rebuild)
         \/ \E n \in DOMAIN Playlist, r \in Rates : AppPlays(n, r)
  PROVE  TypeInv'
<1> USE DEF list, original, watch, avPlayer, pod, phase
<1>1. ASSUME Idle, PlayerType', QueueType', observing' \in BOOLEAN,
             owed' \in {owed, None}, ended' \subseteq 1..MaxAds, UNCHANGED skipped
      PROVE  TypeInv'
  <2>1. ListType' /\ WatchType'
    BY <1>1 DEF Idle, TypeInv, ListType, WatchType
  <2>2. FlagType'
    BY <1>1 DEF Idle, TypeInv, FlagType
  <2> QED BY <1>1, <2>1, <2>2 DEF TypeInv
<1>2. /\ rate \in Rates /\ stale \subseteq Rates /\ QueueType /\ observing \in BOOLEAN
      /\ ended \subseteq 1..MaxAds /\ items \in Seq(BreakItems)
  BY DEF TypeInv, PlayerType, FlagType, WatchType
<1>3. ASSUME NEW n \in DOMAIN items, ItemReady(n) PROVE TypeInv'
  <2>1. items' \in Seq(BreakItems)
    BY <1>3, ReadyFields
  <2>2. Idle /\ UNCHANGED <<observing, rate, stale, queue, owed, ended, skipped>>
    BY <1>3 DEF ItemReady
  <2> QED BY <1>1, <1>2, <2>1, <2>2 DEF PlayerType, QueueType
<1>4. ASSUME NEW n \in DOMAIN items, ItemFails(n) PROVE TypeInv'
  <2>1. /\ items' \in Seq(BreakItems)
        /\ IF items[n].ad > 0
             THEN /\ Dispatch([kind |-> "failed", ad |-> items[n].ad])
                  /\ items[n].ad \in 1..MaxAds
             ELSE UNCHANGED queue
    BY <1>4, FailsFields
  <2>2. QueueType'
    <3>1. CASE items[n].ad > 0
      <4>1. [kind |-> "failed", ad |-> items[n].ad] \in BreakBlocks
        BY <2>1, <3>1, BlockTypes DEF AdKinds
      <4> QED BY <1>2, <2>1, <3>1, <4>1, DispatchType DEF QueueType
    <3>2. CASE ~(items[n].ad > 0)
      BY <1>2, <2>1, <3>2 DEF QueueType
    <3> QED BY <3>1, <3>2
  <2>3. Idle /\ UNCHANGED <<observing, rate, stale, owed, ended, skipped>>
    BY <1>4 DEF ItemFails
  <2> QED BY <1>1, <1>2, <2>1, <2>2, <2>3 DEF PlayerType
<1>5. CASE ItemFailedToPlayToEnd
  <2>1. /\ items # <<>> /\ Head(items).ad > 0
        /\ Dispatch([kind |-> "broken", ad |-> Head(items).ad])
        /\ Idle /\ UNCHANGED <<observing, avPlayer, owed, ended, skipped>>
    BY <1>5 DEF ItemFailedToPlayToEnd, Playing
  <2>2. Head(items).ad \in 1..MaxAds
    BY <2>1, HeadFields, BoundAssumption
  <2>3. [kind |-> "broken", ad |-> Head(items).ad] \in BreakBlocks
    BY <2>2, BlockTypes DEF AdKinds
  <2>4. QueueType'
    BY <1>2, <2>1, <2>3, DispatchType DEF QueueType
  <2> QED BY <1>1, <1>2, <2>1, <2>4 DEF PlayerType
<1>6. CASE ItemEnds
  <2>1. /\ items # <<>>
        /\ IF Head(items).ad > 0 THEN Dispatch([kind |-> "ended", ad |-> Head(items).ad])
                                 ELSE UNCHANGED queue
        /\ ended' = ended \cup ({Head(items).ad} \ {0})
        /\ owed' \in {owed, None}
        /\ Advance(Tail(items), IF Len(items) = 1 THEN 0 ELSE rate)
        /\ Idle /\ UNCHANGED skipped
    BY <1>6 DEF ItemEnds, Playing
  <2>2. Head(items).ad \in 0..MaxAds /\ Tail(items) \in Seq(BreakItems)
    BY <2>1, HeadFields
  <2>3. QueueType'
    <3>1. CASE Head(items).ad > 0
      <4>1. [kind |-> "ended", ad |-> Head(items).ad] \in BreakBlocks
        BY <2>2, <3>1, BlockTypes, BoundAssumption DEF AdKinds
      <4> QED BY <1>2, <2>1, <3>1, <4>1, DispatchType DEF QueueType
    <3>2. CASE ~(Head(items).ad > 0)
      BY <1>2, <2>1, <3>2 DEF QueueType
    <3> QED BY <3>1, <3>2
  <2>4. ended' \subseteq 1..MaxAds
    <3>1. {Head(items).ad} \ {0} \subseteq 1..MaxAds
      BY <2>2, BoundAssumption
    <3> QED BY <1>2, <2>1, <3>1
  <2>5. (IF Len(items) = 1 THEN 0 ELSE rate) \in Rates
    BY <1>2, RateFacts
  <2>6. PlayerType' /\ observing' \in BOOLEAN
    BY <2>1, <2>2, <2>5, AdvanceType
  <2> QED BY <1>1, <2>1, <2>3, <2>4, <2>6
<1>7. CASE FailedItemDropped
  <2>1. /\ items # <<>> /\ owed' \in {owed, None}
        /\ Advance(Tail(items), IF Len(items) = 1 THEN 0 ELSE rate)
        /\ Idle /\ UNCHANGED <<queue, ended, skipped>>
    BY <1>7 DEF FailedItemDropped
  <2>2. Tail(items) \in Seq(BreakItems)
    BY <2>1, HeadFields
  <2>3. (IF Len(items) = 1 THEN 0 ELSE rate) \in Rates
    BY <1>2, RateFacts
  <2>4. PlayerType' /\ observing' \in BOOLEAN
    BY <2>1, <2>2, <2>3, AdvanceType
  <2> QED BY <1>1, <1>2, <2>1, <2>4 DEF QueueType
<1>8. CASE ReturnSeekCompletes
  <2>1. items' \in Seq(BreakItems) /\ rate' \in Rates
    BY <1>8, SeekFields
  <2>2. Idle /\ UNCHANGED <<observing, stale, queue, owed, ended, skipped>>
    BY <1>8 DEF ReturnSeekCompletes
  <2> QED BY <1>1, <1>2, <2>1, <2>2 DEF PlayerType, QueueType
<1>9. ASSUME NEW r \in stale, StaleSeekCompletes(r) PROVE TypeInv'
  <2>1. /\ stale' = stale \ {r} /\ rate' = r
        /\ Idle /\ UNCHANGED <<observing, items, queue, owed, ended, skipped>>
    BY <1>9 DEF StaleSeekCompletes
  <2> QED BY <1>1, <1>2, <2>1 DEF PlayerType, QueueType
<1>10. ASSUME NEW rebuild \in BOOLEAN, DiagnosticsSwap(rebuild) PROVE TypeInv'
  <2> DEFINE fresh == NewItem(Head(items).url, 0)
             q == IF rebuild THEN <<fresh>> ELSE <<fresh>> \o Tail(items)
  <2>1. items # <<>> /\ Advance(q, rate) /\ Idle /\ UNCHANGED <<queue, owed, ended, skipped>>
    BY <1>10 DEF DiagnosticsSwap
  <2>2. fresh \in BreakItems /\ Tail(items) \in Seq(BreakItems)
    BY <2>1, HeadFields, NewItemFields, BoundAssumption
  <2> HIDE DEF fresh
  <2>3. <<fresh>> \in Seq(BreakItems)
    BY <2>2
  <2>4. <<fresh>> \o Tail(items) \in Seq(BreakItems)
    BY <2>2, <2>3, BehindFacts
  <2>5. q \in Seq(BreakItems)
    BY <2>3, <2>4
  <2> HIDE DEF q
  <2>6. PlayerType' /\ observing' \in BOOLEAN
    BY <1>2, <2>1, <2>5, AdvanceType
  <2> QED BY <1>1, <1>2, <2>1, <2>6 DEF QueueType
<1>11. ASSUME NEW n \in DOMAIN Playlist, NEW r \in Rates, AppPlays(n, r) PROVE TypeInv'
  <2>1. /\ SetItems(AppItems(n)) /\ rate' = r /\ owed' = None
        /\ Idle /\ UNCHANGED <<observing, queue, ended, skipped>>
    BY <1>11 DEF AppPlays
  <2>2. AppItems(n) \in Seq(BreakItems)
    BY AppItemsFields, Zenon
  <2>3. items' \in Seq(BreakItems) /\ stale' \subseteq Rates
    BY <2>1, <2>2, SetItemsType
  <2> QED BY <1>1, <1>2, <2>1, <2>3 DEF PlayerType, QueueType
<1> QED
  BY <1>3, <1>4, <1>5, <1>6, <1>7, <1>8, <1>9, <1>10, <1>11 DEF AVQueuePlayer

LEMMA StepType == TypeInv /\ [Next]_vars => TypeInv'
<1> SUFFICES ASSUME TypeInv, [Next]_vars PROVE TypeInv'
  OBVIOUS
<1>1. CASE Next
  BY <1>1, CoreType, MainType, PlayerStepType DEF Next
<1>2. CASE UNCHANGED vars
  BY <1>2 DEF vars, list, original, watch, avPlayer, pod, phase, TypeInv, PlayerType,
              QueueType, ListType, WatchType, FlagType
<1> QED BY <1>1, <1>2

\* The items, the blocks and the counters are of ads of the break, in both players and
\* whichever cases may happen.
THEOREM TypesHold == Spec => []TypeInv
<1>1. Init => TypeInv
  BY InitType
<1>2. TypeInv /\ [Next]_vars => TypeInv'
  BY StepType
<1> QED
  BY <1>1, <1>2, PTL DEF Spec

\* Every variable has its type, whatever the constants.
THEOREM TypeCorrect == Spec => []TypeOK
BY TypesHold, TypeInvIsTypeOK, PTL

------------------------------------------------------------------------------
\* The turns of the ads.

\* The ads in the queue are in the order of the break.
Ascending ==
  \A m, n \in 1..Len(items) :
    m < n /\ items[m].ad > 0 /\ items[n].ad > 0 => items[m].ad < items[n].ad

\* The ads in the queue come after those that ended, also those whose end has a block
\* that waits.
AfterEnded ==
  \A n \in 1..Len(items) : items[n].ad > 0 =>
    /\ items[n].ad > endedAdItemCount
    /\ \A k \in 1..Len(queue) : queue[k].kind = "ended" => items[n].ad > queue[k].ad

\* Before the ads are in the app's player there is nothing of an ad to wait for, and
\* the count of the break is at its start.
NotBegun ==
  External /\ ~adItemsAttached =>
    /\ \A n \in 1..Len(items) : items[n].ad = 0
    /\ \A k \in 1..Len(queue) : queue[k].kind \notin AdKinds
    /\ prepared # <<>> => endedAdItemCount = 0 /\ reportedAd = 0

TurnInv == Ascending /\ AfterEnded /\ NotBegun /\ ReportedInTurn

LEMMA InitTurn == Init => TurnInv
<1> SUFFICES ASSUME Init PROVE TurnInv
  OBVIOUS
<1>1. \A n \in 1..Len(items) : items[n].ad = 0
  <2>1. items = <<>> \/ \E n \in DOMAIN Playlist : items = AppItems(n)
    BY DEF Init
  <2>2. ASSUME NEW n \in DOMAIN Playlist, items = AppItems(n)
        PROVE  \A m \in 1..Len(items) : items[m].ad = 0
    BY <2>2, AppItemsFields
  <2> QED BY <2>1, <2>2
<1>2. queue = <<>> /\ prepared = <<>>
  BY DEF Init
<1>3. DOMAIN items = 1..Len(items)
  BY InitType, ItemsFields
<1> QED
  BY <1>1, <1>2, <1>3 DEF TurnInv, Ascending, AfterEnded, NotBegun, ReportedInTurn

\* The ads that are left in the queue are of those that were there, in their order.
ItemsThinned ==
  /\ Ascending'
  /\ \A n \in 1..Len(items') : items'[n].ad > 0 =>
       \E m \in 1..Len(items) : items[m].ad = items'[n].ad

\* A block about an ad was there before, or is about an ad that was in the queue; an ad
\* that ended is behind those that are left.
BlocksCome ==
  \A n \in 1..Len(queue') : queue'[n].kind \in AdKinds =>
    \/ \E m \in 1..Len(queue) : queue[m] = queue'[n]
    \/ /\ \E m \in 1..Len(items) : items[m].ad > 0
       /\ queue'[n].kind = "ended" =>
            \A m \in 1..Len(items') : items'[m].ad > 0 => items'[m].ad > queue'[n].ad

LEMMA TurnKept ==
  ASSUME TypeInv, TypeInv', TurnInv, ItemsThinned, BlocksCome,
         UNCHANGED <<endedAdItemCount, reportedAd, adItemsAttached, prepared>>
  PROVE  TurnInv'
<1>1. Ascending'
  BY DEF ItemsThinned
<1>2. \A n \in 1..Len(items') : items'[n].ad > 0 =>
        \E m \in 1..Len(items) : items[m].ad > 0 /\ items[m].ad = items'[n].ad
  BY DEF ItemsThinned
<1>3. AfterEnded'
  <2> SUFFICES ASSUME NEW n \in 1..Len(items'), items'[n].ad > 0
               PROVE  /\ items'[n].ad > endedAdItemCount
                      /\ \A k \in 1..Len(queue') : queue'[k].kind = "ended" =>
                           items'[n].ad > queue'[k].ad
    BY DEF AfterEnded
  <2>1. PICK m \in 1..Len(items) : items[m].ad > 0 /\ items[m].ad = items'[n].ad
    BY <1>2
  <2>2. /\ items[m].ad > endedAdItemCount
        /\ \A k \in 1..Len(queue) : queue[k].kind = "ended" => items[m].ad > queue[k].ad
    BY <2>1 DEF TurnInv, AfterEnded
  <2>3. ASSUME NEW k \in 1..Len(queue'), queue'[k].kind = "ended"
        PROVE  items'[n].ad > queue'[k].ad
    <3>1. queue'[k].kind \in AdKinds
      BY <2>3 DEF AdKinds
    <3>2. CASE \E j \in 1..Len(queue) : queue[j] = queue'[k]
      BY <2>1, <2>2, <2>3, <3>2
    <3>3. CASE \A j \in 1..Len(items') : items'[j].ad > 0 => items'[j].ad > queue'[k].ad
      BY <3>3
    <3> QED BY <2>3, <3>1, <3>2, <3>3 DEF BlocksCome
  <2> QED BY <2>1, <2>2, <2>3
<1>4. NotBegun'
  <2> SUFFICES ASSUME External, ~adItemsAttached
               PROVE  /\ \A n \in 1..Len(items') : items'[n].ad = 0
                      /\ \A k \in 1..Len(queue') : queue'[k].kind \notin AdKinds
                      /\ prepared # <<>> => endedAdItemCount = 0 /\ reportedAd = 0
    BY DEF NotBegun
  <2>1. /\ \A n \in 1..Len(items) : items[n].ad = 0
        /\ \A k \in 1..Len(queue) : queue[k].kind \notin AdKinds
        /\ prepared # <<>> => endedAdItemCount = 0 /\ reportedAd = 0
    BY DEF TurnInv, NotBegun
  <2>2. \A n \in 1..Len(items') : items'[n].ad \in 0..MaxAds
    <3>1. items' \in Seq(BreakItems)
      BY DEF TypeInv, PlayerType
    <3>2. ASSUME NEW n \in 1..Len(items') PROVE items'[n] \in BreakItems
      BY <3>1
    <3> QED BY <3>2 DEF BreakItems
  <2>3. \A n \in 1..Len(items') : items'[n].ad = 0
    <3>1. \A n \in 1..Len(items') : ~(items'[n].ad > 0)
      BY <1>2, <2>1
    <3> QED BY <2>2, <3>1, BoundAssumption
  <2>4. \A k \in 1..Len(queue') : queue'[k].kind \notin AdKinds
    BY <2>1 DEF BlocksCome
  <2> QED BY <2>1, <2>3, <2>4
<1>5. ReportedInTurn'
  <2>1. DOMAIN items' = 1..Len(items')
    BY DEF TypeInv, PlayerType
  <2>2. DOMAIN items = 1..Len(items)
    BY ItemsFields
  <2> QED
    BY <1>2, <2>1, <2>2 DEF TurnInv, ReportedInTurn
<1> QED
  BY <1>1, <1>3, <1>4, <1>5 DEF TurnInv

\* How the queue thins.

LEMMA ThinnedSame ==
  ASSUME TypeInv, TurnInv, Len(items') = Len(items),
         \A n \in 1..Len(items) : items'[n].ad = items[n].ad
  PROVE  ItemsThinned
BY DEF ItemsThinned, Ascending, TurnInv

LEMMA ThinnedNone ==
  ASSUME \A n \in 1..Len(items') : items'[n].ad = 0
  PROVE  ItemsThinned
BY DEF ItemsThinned, Ascending

LEMMA ThinnedTail ==
  ASSUME TypeInv, TurnInv, items # <<>>, items' = Tail(items)
  PROVE  /\ ItemsThinned
         /\ Head(items).ad > 0 =>
              \A n \in 1..Len(items') : items'[n].ad > 0 => items'[n].ad > Head(items).ad
<1>1. /\ Len(items') = Len(items) - 1 /\ Len(items) \in Nat \ {0}
      /\ Head(items) = items[1] /\ 1 \in 1..Len(items)
      /\ \A n \in 1..Len(items') : n + 1 \in 1..Len(items) /\ items'[n] = items[n + 1]
  BY HeadFields
<1>2. Ascending
  BY DEF TurnInv
<1>3. Ascending'
  <2> SUFFICES ASSUME NEW m \in 1..Len(items'), NEW n \in 1..Len(items'), m < n,
                      items'[m].ad > 0, items'[n].ad > 0
               PROVE  items'[m].ad < items'[n].ad
    BY DEF Ascending
  <2>1. m + 1 \in 1..Len(items) /\ n + 1 \in 1..Len(items) /\ m + 1 < n + 1
    BY <1>1
  <2> QED BY <1>1, <1>2, <2>1 DEF Ascending
<1>4. ASSUME Head(items).ad > 0, NEW n \in 1..Len(items'), items'[n].ad > 0
      PROVE  items'[n].ad > Head(items).ad
  <2>1. n + 1 \in 1..Len(items) /\ 1 < n + 1 /\ items'[n] = items[n + 1]
    BY <1>1
  <2>2. items[1].ad < items[n + 1].ad
    BY <1>1, <1>2, <1>4, <2>1 DEF Ascending
  <2>3. items[1].ad \in Nat /\ items[n + 1].ad \in Nat
    BY <1>1, <2>1, ItemsFields, BoundAssumption
  <2> QED BY <1>1, <2>1, <2>2, <2>3
<1> QED
  BY <1>1, <1>3, <1>4 DEF ItemsThinned

LEMMA ThinnedRemoved ==
  ASSUME TypeInv, TurnInv, NEW k \in 1..Len(items), items' = RemoveAt(items, k)
  PROVE  ItemsThinned
<1>1. items \in Seq(BreakItems) /\ Len(items) \in Nat
  BY DEF TypeInv, PlayerType
<1>2. /\ Len(items') = Len(items) - 1
      /\ \A n \in 1..Len(items') :
           /\ n < k => n \in 1..Len(items) /\ items'[n] = items[n]
           /\ n >= k => n + 1 \in 1..Len(items) /\ items'[n] = items[n + 1]
  BY <1>1, RemoveAtFacts
<1> DEFINE f(n) == IF n < k THEN n ELSE n + 1
<1>3. \A n \in 1..Len(items') : f(n) \in 1..Len(items) /\ items'[n] = items[f(n)]
  BY <1>1, <1>2
<1>4. \A m, n \in 1..Len(items') : m < n => f(m) < f(n)
  BY <1>1, <1>2
<1> HIDE DEF f
<1>5. Ascending
  BY DEF TurnInv
<1>6. Ascending'
  <2> SUFFICES ASSUME NEW m \in 1..Len(items'), NEW n \in 1..Len(items'), m < n,
                      items'[m].ad > 0, items'[n].ad > 0
               PROVE  items'[m].ad < items'[n].ad
    BY DEF Ascending
  <2>1. f(m) \in 1..Len(items) /\ f(n) \in 1..Len(items) /\ f(m) < f(n)
    BY <1>3, <1>4
  <2> QED BY <1>3, <1>5, <2>1 DEF Ascending
<1> QED
  BY <1>3, <1>6 DEF ItemsThinned

\* A fresh item in the place of the first.
LEMMA SwappedFields ==
  ASSUME TypeInv, items # <<>>, NEW i \in BreakItems, items' = <<i>> \o Tail(items)
  PROVE  /\ Len(items') = Len(items) /\ items'[1] = i
         /\ \A n \in 1..Len(items) : n # 1 => items'[n] = items[n]
<1> DEFINE a == <<i>>
           b == Tail(items)
<1>1. a \in Seq(BreakItems) /\ b \in Seq(BreakItems) /\ Len(a) = 1 /\ a[1] = i
  BY HeadFields
<1>2. /\ Len(b) = Len(items) - 1 /\ Len(items) \in Nat \ {0}
      /\ \A n \in 1..Len(b) : n + 1 \in 1..Len(items) /\ b[n] = items[n + 1]
  BY HeadFields
<1>3. items' = a \o b
  OBVIOUS
<1> HIDE DEF a, b
<1>4. /\ a \o b \in Seq(BreakItems) /\ Len(a \o b) = Len(a) + Len(b)
      /\ \A n \in 1..Len(a \o b) :
           /\ n <= Len(a) => n \in 1..Len(a) /\ (a \o b)[n] = a[n]
           /\ n > Len(a) => n - Len(a) \in 1..Len(b) /\ (a \o b)[n] = b[n - Len(a)]
  <2>1. a \in Seq(BreakItems) /\ b \in Seq(BreakItems)
    BY <1>1
  <2> QED BY <2>1, BehindFacts, ZenonT(30)
<1> QED
  BY <1>1, <1>2, <1>3, <1>4

LEMMA ThinnedSwapped ==
  ASSUME TypeInv, TurnInv, items # <<>>, NEW i \in BreakItems, i.ad = 0,
         items' = <<i>> \o Tail(items)
  PROVE  ItemsThinned
<1>1. /\ Len(items') = Len(items) /\ items'[1].ad = 0
      /\ \A n \in 1..Len(items) : n # 1 => items'[n] = items[n]
  BY SwappedFields
<1> QED
  BY <1>1 DEF ItemsThinned, Ascending, TurnInv

\* An item without an ad behind the others.
LEMMA ThinnedAppend ==
  ASSUME TypeInv, TurnInv, NEW i \in BreakItems, i.ad = 0, items' = Append(items, i)
  PROVE  ItemsThinned
<1>1. items \in Seq(BreakItems)
  BY DEF TypeInv, PlayerType
<1>2. /\ Len(items') = Len(items) + 1 /\ Len(items) \in Nat
      /\ items'[Len(items) + 1] = i
      /\ \A n \in 1..Len(items) : items'[n] = items[n]
  BY <1>1
<1>3. \A n \in 1..Len(items') : items'[n].ad > 0 => n \in 1..Len(items) /\ items'[n] = items[n]
  BY <1>2
<1> QED
  BY <1>3 DEF ItemsThinned, Ascending, TurnInv

\* How the blocks come.

LEMMA BlocksSame == ASSUME UNCHANGED queue PROVE BlocksCome
BY DEF BlocksCome

LEMMA BlocksTail ==
  ASSUME TypeInv, NEW kind, Body(kind), queue' = Tail(queue) PROVE BlocksCome
BY BodyFacts DEF BlocksCome, TypeInv

LEMMA BlocksAppend ==
  ASSUME TypeInv, NEW q \in Seq(BreakBlocks), NEW b \in BreakBlocks, b.kind \notin AdKinds,
         q = queue \/ q = LoadsCancelled(queue), queue' = Append(q, b)
  PROVE  BlocksCome
<1>1. /\ Len(q) = Len(queue)
      /\ \A n \in 1..Len(q) : q[n].kind \in AdKinds => q[n] = queue[n]
  <2>1. "cancelled" \notin AdKinds /\ [kind |-> "cancelled"].kind = "cancelled"
    BY DEF AdKinds
  <2> QED BY <2>1, CancelType DEF TypeInv
<1>2. /\ Len(queue') = Len(q) + 1 /\ Len(q) \in Nat /\ queue'[Len(q) + 1] = b
      /\ \A n \in 1..Len(q) : queue'[n] = q[n]
  OBVIOUS
<1>3. ASSUME NEW n \in 1..Len(queue'), queue'[n].kind \in AdKinds
      PROVE  \E m \in 1..Len(queue) : queue[m] = queue'[n]
  <2>1. n \in 1..Len(q)
    BY <1>2, <1>3
  <2> QED BY <1>1, <1>2, <1>3, <2>1
<1> QED
  BY <1>3 DEF BlocksCome

\* Every step keeps the turns.

LEMMA ReleaseTurn ==
  ASSUME TypeInv, NEW q \in Seq(BreakBlocks), ReleasePlayer(q),
         UNCHANGED <<endedAdItemCount, reportedAd>>
  PROVE  TurnInv'
<1>1. items' = <<>> /\ prepared' = <<>> /\ queue' = BlocksForgotten(q)
  BY ReleaseType
<1>2. \A k \in 1..Len(queue') : queue'[k].kind \notin AdKinds
  BY <1>1, ForgottenType DEF AdKinds
<1> QED
  BY <1>1, <1>2 DEF TurnInv, Ascending, AfterEnded, NotBegun, ReportedInTurn

LEMMA ReturnTurn ==
  ASSUME TypeInv, TypeInv', TurnInv, Return, BlocksCome
  PROVE  TurnInv'
<1>1. UNCHANGED <<endedAdItemCount, reportedAd, adItemsAttached, prepared>>
  BY DEF Return, watch, pod
<1>2. ItemsThinned
  <2>1. CASE items' = Returned
    <3>1. \A n \in 1..Len(items') : items'[n].ad = 0
      BY <2>1, ReturnedFields
    <3> QED BY <3>1, ThinnedNone
  <2>2. CASE items' = items
    BY <2>2, ThinnedSame
  <2> QED BY <2>1, <2>2, ReturnType
<1> QED
  BY <1>1, <1>2, TurnKept

LEMMA CoreTurn ==
  ASSUME TypeInv, TypeInv', TurnInv, Core
  PROVE  TurnInv'
<1> USE DEF list, original, watch, avPlayer, pod, phase
<1> DEFINE Same == UNCHANGED <<endedAdItemCount, reportedAd, adItemsAttached, prepared>>
<1>1. QueueType /\ queue \in Seq(BreakBlocks) /\ LoadsCancelled(queue) \in Seq(BreakBlocks)
  BY CancelType DEF TypeInv, QueueType
<1>2. ASSUME NEW urls \in Breaks, Load(urls) PROVE TurnInv'
  <2>1. UNCHANGED items /\ Same
    BY <1>2 DEF Load
  <2>2. ItemsThinned
    BY <2>1, ThinnedSame
  <2>3. BlocksCome
    <3> DEFINE b == [kind |-> "load", urls |-> urls]
    <3>1. b \in BreakBlocks /\ b.kind \notin AdKinds
      BY BreakTypes, BlockTypes DEF AdKinds
    <3>2. queue' = Append(LoadsCancelled(queue), b)
      BY <1>2 DEF Load
    <3> HIDE DEF b
    <3> QED BY <1>1, <3>1, <3>2, BlocksAppend
  <2> QED BY <2>1, <2>2, <2>3, TurnKept
<1>3. ASSUME NEW k \in {"play", "stop", "return"}, NEW q \in {queue, LoadsCancelled(queue)},
             queue' = Append(q, [kind |-> k]), UNCHANGED items, Same
      PROVE  TurnInv'
  <2> DEFINE b == [kind |-> k]
  <2>1. b \in BreakBlocks /\ b.kind \notin AdKinds
    BY BlockTypes DEF AdKinds
  <2>2. ItemsThinned
    BY <1>3, ThinnedSame
  <2>3. queue' = Append(q, b) /\ q \in Seq(BreakBlocks)
    BY <1>1, <1>3
  <2> HIDE DEF b
  <2>4. BlocksCome
    BY <2>1, <2>3, BlocksAppend
  <2> QED BY <1>3, <2>2, <2>4, TurnKept
<1>4. CASE Play
  BY <1>3, <1>4 DEF Play, Dispatch
<1>5. ASSUME UNCHANGED <<items, queue>>, Same PROVE TurnInv'
  BY <1>5, ThinnedSame, BlocksSame, TurnKept
<1>6. CASE StopIgnored
  BY <1>5, <1>6 DEF StopIgnored
<1>7. CASE Stop
  BY <1>3, <1>7 DEF Stop
<1>8. CASE StopOnMain
  BY <1>1, <1>8, ReleaseTurn DEF StopOnMain
<1>9. CASE ReturnToContent
  BY <1>3, <1>9 DEF ReturnToContent, Dispatch
<1>10. CASE ReturnOnMain
  BY <1>10, ReturnTurn, BlocksSame DEF ReturnOnMain
<1>11. ASSUME NEW u \in Ads, EnqueueNextItem(u) PROVE TurnInv'
  <2> DEFINE i == NewItem(u, 0)
  <2>1. i \in BreakItems /\ i.ad = 0
    BY NewItemFields, UrlFacts, BoundAssumption
  <2>2. SetItems(Append(items, i)) /\ UNCHANGED queue /\ Same
    BY <1>11 DEF EnqueueNextItem
  <2> HIDE DEF i
  <2>3. items' = Append(items, i)
    BY <2>2 DEF SetItems
  <2> QED BY <2>1, <2>2, <2>3, ThinnedAppend, BlocksSame, TurnKept
<1>12. ASSUME NEW u \in Ads, RemoveNextItem(u) PROVE TurnInv'
  <2> DEFINE k == SelectInSeq(mediaUrls, LAMBDA v : v = u)
  <2>1. /\ UNCHANGED queue /\ Same
        /\ IF k > Len(items) THEN UNCHANGED <<avPlayer, observing>>
           ELSE IF k = 1 THEN Advance(Tail(items), rate)
           ELSE SetItems(RemoveAt(items, k)) /\ UNCHANGED <<rate, observing>>
    BY <1>12 DEF RemoveNextItem
  <2>2. mediaUrls \in Seq(Urls) /\ k \in 1..Len(mediaUrls)
    <3>1. mediaUrls \in Seq(Urls) /\ u \in Urls /\ Contains(mediaUrls, u)
      BY <1>12, UrlFacts DEF RemoveNextItem, TypeInv, ListType
    <3>2. k \in 1..Len(mediaUrls)
      BY <3>1, EntryFound
    <3> QED BY <3>1, <3>2
  <2> HIDE DEF k
  <2>3. k \in Nat /\ k > 0 /\ Len(items) \in Nat
    BY <2>2, ItemsFields
  <2>4. ItemsThinned
    <3>1. CASE k > Len(items)
      BY <2>1, <3>1, ThinnedSame
    <3>2. CASE k = 1 /\ ~(k > Len(items))
      <4>1. items # <<>> /\ items' = Tail(items)
        BY <2>1, <3>2 DEF Advance, SetItems
      <4> QED BY <4>1, ThinnedTail
    <3>3. CASE k # 1 /\ ~(k > Len(items))
      <4>1. k \in 1..Len(items) /\ items' = RemoveAt(items, k)
        BY <2>1, <2>3, <3>3 DEF SetItems
      <4> QED BY <4>1, ThinnedRemoved
    <3> QED BY <3>1, <3>2, <3>3
  <2> QED BY <2>1, <2>4, BlocksSame, TurnKept
<1>13. CASE PlayNextItem
  <2>1. Len(items) > 1 /\ items' = Tail(items) /\ UNCHANGED queue /\ Same
    BY <1>13 DEF PlayNextItem, Advance, SetItems
  <2>2. items # <<>>
    BY <2>1
  <2> QED BY <2>1, <2>2, ThinnedTail, BlocksSame, TurnKept
<1>14. CASE PlayedOut
  BY <1>5, <1>14 DEF PlayedOut
<1>15. ASSUME NEW r \in {0, 1}, PauseResume(r) PROVE TurnInv'
  BY <1>5, <1>15 DEF PauseResume
<1> QED
  BY <1>2, <1>4, <1>6, <1>7, <1>8, <1>9, <1>10, <1>11, <1>12, <1>13, <1>14, <1>15 DEF Core

\* The main thread.
LEMMA MainTurn ==
  ASSUME TypeInv, TypeInv', TurnInv, RunMain
  PROVE  TurnInv'
<1> USE DEF list, original, watch, avPlayer, pod, phase
<1> DEFINE Same == UNCHANGED <<endedAdItemCount, reportedAd, adItemsAttached, prepared>>
<1>1. CASE SkipCancelled
  <2>1. Body("cancelled") /\ queue' = Tail(queue) /\ UNCHANGED items /\ Same
    BY <1>1 DEF SkipCancelled
  <2>2. ItemsThinned /\ BlocksCome
    BY <2>1, ThinnedSame, BlocksTail
  <2> QED BY <2>1, <2>2, TurnKept
<1>2. CASE RunLoad
  <2> DEFINE urls == Head(queue).urls
  <2>1. Body("load") /\ queue' = BlocksForgotten(Tail(queue)) /\ QueueType
    BY <1>2 DEF RunLoad, TypeInv
  <2>2. urls \in ShortBreaks /\ Tail(queue) \in Seq(BreakBlocks)
    BY <2>1, BodyFacts
  <2>3. /\ adItemsAttached' = ~External /\ endedAdItemCount' = 0 /\ reportedAd' = 0
        /\ Prepare(urls)
    BY <1>2 DEF RunLoad
  <2> HIDE DEF urls
  <2>4. \A k \in 1..Len(queue') : queue'[k].kind \notin AdKinds
    <3> DEFINE q == Tail(queue)
    <3>1. q \in Seq(BreakBlocks) /\ queue' = BlocksForgotten(q)
      BY <2>1, <2>2
    <3> HIDE DEF q
    <3> QED BY <3>1, ForgottenType DEF AdKinds
  <2>5. /\ DOMAIN items' = 1..Len(items')
        /\ \A n \in 1..Len(items') : items'[n].ad \in Nat
        /\ Ascending'
        /\ External => \A n \in 1..Len(items') : items'[n].ad = 0
    <3>1. CASE External
      <4>1. items' = ItemsForgotten
        BY <2>3, <3>1 DEF Prepare
      <4>2. \A n \in 1..Len(items') : items'[n].ad = 0
        BY <4>1, ForgottenFields
      <4>3. items' \in Seq(BreakItems)
        BY <4>1, ForgottenFields
      <4> QED BY <4>2, <4>3 DEF Ascending
    <3>2. CASE ~External
      <4>1. items' = AdItems(urls)
        BY <2>3, <3>2 DEF Prepare, SetItems
      <4>2. /\ items' \in Seq(BreakItems) /\ Len(items') = Len(urls)
            /\ \A n \in 1..Len(items') : items'[n].ad = n
        BY <2>2, <4>1, AdItemsFields
      <4> QED BY <3>2, <4>2 DEF Ascending
    <3> QED BY <3>1, <3>2
  <2>6. AfterEnded'
    BY <2>3, <2>4, <2>5 DEF AfterEnded, AdKinds
  <2>7. NotBegun'
    BY <2>3, <2>4, <2>5 DEF NotBegun
  <2>8. ReportedInTurn'
    BY <2>3, <2>5 DEF ReportedInTurn
  <2> QED BY <2>5, <2>6, <2>7, <2>8 DEF TurnInv
<1>3. CASE RunPlay
  <2>1. /\ Body("play") /\ queue' = Tail(queue) /\ UNCHANGED <<endedAdItemCount, prepared>>
        /\ QueueType
    BY <1>3 DEF RunPlay, TypeInv
  <2>2. \A k \in 1..Len(queue') : \E j \in 1..Len(queue) : queue[j] = queue'[k]
    BY <2>1, BodyFacts
  <2>3. reportedAd' \in {reportedAd, 1}
    BY <1>3 DEF RunPlay, ReportFirst, Report, NoReport
  <2>4. reportedAd \in Nat
    BY DEF TypeInv, WatchType
  <2>5. CASE External /\ ~adItemsAttached /\ prepared # <<>>
    <3>1. Attach
      BY <1>3, <2>5 DEF RunPlay
    <3>2. /\ adItemsAttached' = TRUE /\ items' \in Seq(BreakItems)
          /\ \A n \in 1..Len(items') : items'[n].ad \in {0, n}
      BY <3>1, AttachType
    <3>3. \A m, n \in 1..Len(items') :
            m < n /\ items'[m].ad > 0 /\ items'[n].ad > 0 => items'[m].ad < items'[n].ad
      BY <3>2
    <3>4. Ascending'
      BY <3>3 DEF Ascending
    <3>5. /\ \A k \in 1..Len(queue) : queue[k].kind \notin AdKinds
          /\ endedAdItemCount = 0 /\ reportedAd = 0
      BY <2>5 DEF TurnInv, NotBegun
    <3>6. \A k \in 1..Len(queue') : queue'[k].kind # "ended"
      BY <2>2, <3>5 DEF AdKinds
    <3>7. AfterEnded'
      BY <2>1, <3>2, <3>5, <3>6 DEF AfterEnded
    <3>8. NotBegun'
      BY <3>2 DEF NotBegun
    <3>9. ReportedInTurn'
      BY <2>3, <3>2, <3>5 DEF ReportedInTurn
    <3> QED BY <3>4, <3>7, <3>8, <3>9 DEF TurnInv
  <2>6. CASE ~(External /\ ~adItemsAttached /\ prepared # <<>>)
    <3>1. UNCHANGED <<items, adItemsAttached>>
      BY <1>3, <2>6 DEF RunPlay
    <3>2. DOMAIN items = 1..Len(items) /\ \A n \in 1..Len(items) : items[n].ad \in 0..MaxAds
      BY ItemsFields
    <3>3. ReportedInTurn'
      BY <2>3, <2>4, <3>1, <3>2, BoundAssumption DEF TurnInv, ReportedInTurn
    <3>4. Ascending' /\ AfterEnded'
      BY <2>1, <2>2, <3>1 DEF TurnInv, Ascending, AfterEnded
    <3>5. NotBegun'
      BY <2>1, <2>2, <2>6, <3>1 DEF TurnInv, NotBegun
    <3> QED BY <3>3, <3>4, <3>5 DEF TurnInv
  <2> QED BY <2>5, <2>6
<1>4. CASE RunStop
  <2>1. ReleasePlayer(Tail(queue)) /\ Tail(queue) \in Seq(BreakBlocks)
    BY <1>4, BodyFacts DEF RunStop, TypeInv
  <2>2. UNCHANGED <<endedAdItemCount, reportedAd>>
    BY <1>4 DEF RunStop
  <2> QED BY <2>1, <2>2, ReleaseTurn
<1>5. CASE RunReturn
  <2>1. Return /\ BlocksCome
    BY <1>5, BlocksTail DEF RunReturn
  <2> QED BY <2>1, ReturnTurn
<1>6. ASSUME NEW kind \in AdKinds, Body(kind), queue' = Tail(queue), AdEvent,
             \A n \in 1..Len(items) : items[n].ad > 0 =>
               items[n].ad > endedAdItemCount' /\ items[n].ad >= reportedAd'
      PROVE  TurnInv'
  <2>1. UNCHANGED <<items, adItemsAttached, prepared>>
    BY <1>6 DEF AdEvent
  <2>2. /\ queue[1].kind \in AdKinds /\ 1 \in 1..Len(queue)
        /\ \A k \in 1..Len(queue') : \E j \in 1..Len(queue) : queue[j] = queue'[k]
    BY <1>6, BodyFacts DEF TypeInv
  <2>3. Ascending'
    BY <2>1 DEF TurnInv, Ascending
  <2>4. AfterEnded'
    BY <1>6, <2>1, <2>2 DEF TurnInv, AfterEnded
  <2>5. NotBegun'
    <3>1. ~(External /\ ~adItemsAttached)
      BY <2>2 DEF TurnInv, NotBegun
    <3> QED BY <2>1, <3>1 DEF NotBegun
  <2>6. DOMAIN items = 1..Len(items)
    BY ItemsFields
  <2>7. ReportedInTurn'
    BY <1>6, <2>1, <2>6 DEF ReportedInTurn
  <2> QED BY <2>3, <2>4, <2>5, <2>7 DEF TurnInv
<1>7. /\ DOMAIN items = 1..Len(items)
      /\ \A n \in 1..Len(items) : items[n].ad > 0 =>
           items[n].ad > endedAdItemCount /\ items[n].ad >= reportedAd
  BY ItemsFields DEF TurnInv, AfterEnded, ReportedInTurn
<1>8. \A n \in 1..Len(items) : items[n].ad \in Nat
  BY ItemsFields, BoundAssumption
<1>9. endedAdItemCount \in Nat
  BY DEF TypeInv, WatchType
<1>10. ASSUME NEW ad \in 1..MaxAds, NoReport \/ (Turn(ad) /\ Report(ad)),
              endedAdItemCount' = endedAdItemCount
       PROVE  \A n \in 1..Len(items) : items[n].ad > 0 =>
                items[n].ad > endedAdItemCount' /\ items[n].ad >= reportedAd'
  <2>1. CASE reportedAd' = reportedAd
    BY <1>7, <1>10, <2>1
  <2>2. CASE reportedAd' = ad /\ endedAdItemCount = ad - 1
    BY <1>7, <1>8, <1>9, <1>10, <2>2
  <2> QED BY <1>10, <2>1, <2>2 DEF NoReport, Turn, Report
<1>11. CASE AdItemFailed
  <2>1. /\ Body("failed") /\ queue' = Tail(queue) /\ AdEvent
        /\ endedAdItemCount' = endedAdItemCount
        /\ NoReport \/ (Turn(Head(queue).ad) /\ Report(Head(queue).ad))
    BY <1>11 DEF AdItemFailed
  <2>2. Head(queue).ad \in 1..MaxAds /\ "failed" \in AdKinds
    BY <2>1, BodyFacts DEF TypeInv, AdKinds
  <2> QED BY <1>6, <1>10, <2>1, <2>2
<1>12. CASE AdItemBroken
  <2>1. /\ Body("broken") /\ queue' = Tail(queue) /\ AdEvent
        /\ endedAdItemCount' = endedAdItemCount
        /\ NoReport \/ (Turn(Head(queue).ad) /\ Report(Head(queue).ad))
    BY <1>12 DEF AdItemBroken
  <2>2. Head(queue).ad \in 1..MaxAds /\ "broken" \in AdKinds
    BY <2>1, BodyFacts DEF TypeInv, AdKinds
  <2> QED BY <1>6, <1>10, <2>1, <2>2
<1>13. CASE AdItemEnded
  <2> DEFINE ad == Head(queue).ad
  <2>1. /\ Body("ended") /\ queue' = Tail(queue) /\ AdEvent
        /\ endedAdItemCount' = (IF endedAdItemCount > ad THEN endedAdItemCount ELSE ad)
        /\ IF ad + 1 \in failedAdItems THEN Report(ad + 1) ELSE NoReport
    BY <1>13 DEF AdItemEnded
  <2>2. /\ ad \in 1..MaxAds /\ "ended" \in AdKinds
        /\ Head(queue) = queue[1] /\ queue[1].kind = "ended" /\ 1 \in 1..Len(queue)
    BY <2>1, BodyFacts DEF TypeInv, AdKinds
  <2>3. \A n \in 1..Len(items) : items[n].ad > 0 => items[n].ad > ad
    BY <2>2 DEF TurnInv, AfterEnded
  <2> HIDE DEF ad
  <2>4. reportedAd' \in {reportedAd, ad + 1}
    BY <2>1 DEF Report, NoReport
  <2>5. \A n \in 1..Len(items) : items[n].ad > 0 =>
          items[n].ad > endedAdItemCount' /\ items[n].ad >= reportedAd'
    BY <1>7, <1>8, <2>1, <2>2, <2>3, <2>4
  <2> QED BY <1>6, <2>1, <2>2, <2>5
<1> QED
  BY <1>1, <1>2, <1>3, <1>4, <1>5, <1>11, <1>12, <1>13 DEF RunMain

\* The AVQueuePlayer, the diagnostics and the app.
LEMMA PlayerStepTurn ==
  ASSUME TypeInv, TypeInv', TurnInv,
         \/ AVQueuePlayer \/ \E rebuild \in BOOLEAN : DiagnosticsSwap(rebuild)
         \/ \E n \in DOMAIN Playlist, r \in Rates : AppPlays(n, r)
  PROVE  TurnInv'
<1> USE DEF list, original, watch, avPlayer, pod, phase
<1>1. ASSUME Idle, ItemsThinned, BlocksCome PROVE TurnInv'
  <2>1. UNCHANGED <<endedAdItemCount, reportedAd, adItemsAttached, prepared>>
    BY <1>1 DEF Idle
  <2> QED BY <1>1, <2>1, TurnKept
<1>2. QueueType /\ queue \in Seq(BreakBlocks)
  BY DEF TypeInv, QueueType
<1>3. ASSUME NEW n \in DOMAIN items, ItemReady(n) PROVE TurnInv'
  <2>1. Idle /\ UNCHANGED queue
    BY <1>3 DEF ItemReady
  <2>2. ItemsThinned
    BY <1>3, ReadyFields, ThinnedSame
  <2> QED BY <1>1, <2>1, <2>2, BlocksSame
<1>4. ASSUME NEW kind \in AdKinds, NEW ad \in 1..MaxAds,
             Dispatch([kind |-> kind, ad |-> ad]),
             \E m \in 1..Len(items) : items[m].ad > 0,
             kind = "ended" =>
               \A m \in 1..Len(items') : items'[m].ad > 0 => items'[m].ad > ad
      PROVE  BlocksCome
  <2> DEFINE b == [kind |-> kind, ad |-> ad]
  <2>1. b \in BreakBlocks /\ b.kind = kind /\ b.ad = ad
    BY BlockTypes
  <2>2. Dispatch(b)
    BY <1>4
  <2> HIDE DEF b
  <2>3. /\ Len(queue') = Len(queue) + 1 /\ queue'[Len(queue) + 1] = b
        /\ \A n \in 1..Len(queue) : queue'[n] = queue[n]
    BY <1>2, <2>1, <2>2, DispatchType
  <2>4. ASSUME NEW n \in 1..Len(queue') PROVE n \in 1..Len(queue) \/ n = Len(queue) + 1
    BY <1>2, <2>3
  <2> QED BY <1>4, <2>1, <2>3, <2>4 DEF BlocksCome
<1>5. ASSUME NEW n \in DOMAIN items, ItemFails(n) PROVE TurnInv'
  <2>1. Idle
    BY <1>5 DEF ItemFails
  <2>2. ItemsThinned
    BY <1>5, FailsFields, ThinnedSame
  <2>3. /\ n \in 1..Len(items)
        /\ IF items[n].ad > 0
             THEN /\ Dispatch([kind |-> "failed", ad |-> items[n].ad])
                  /\ items[n].ad \in 1..MaxAds
             ELSE UNCHANGED queue
    BY <1>5, FailsFields
  <2>4. BlocksCome
    <3>1. CASE items[n].ad > 0
      <4> DEFINE ad == items[n].ad
      <4>1. /\ ad \in 1..MaxAds /\ Dispatch([kind |-> "failed", ad |-> ad])
            /\ \E m \in 1..Len(items) : items[m].ad > 0
            /\ "failed" \in AdKinds /\ "failed" # "ended"
        BY <2>3, <3>1 DEF AdKinds
      <4> HIDE DEF ad
      <4> QED BY <1>4, <4>1
    <3>2. CASE ~(items[n].ad > 0)
      BY <2>3, <3>2, BlocksSame
    <3> QED BY <3>1, <3>2
  <2> QED BY <1>1, <2>1, <2>2, <2>4
<1>6. CASE ItemFailedToPlayToEnd
  <2> DEFINE ad == Head(items).ad
  <2>1. /\ items # <<>> /\ ad > 0 /\ Dispatch([kind |-> "broken", ad |-> ad])
        /\ Idle /\ UNCHANGED items
    BY <1>6 DEF ItemFailedToPlayToEnd, Playing
  <2>2. /\ ad \in 1..MaxAds /\ "broken" \in AdKinds /\ "broken" # "ended"
        /\ \E m \in 1..Len(items) : items[m].ad > 0
    BY <2>1, HeadFields, BoundAssumption DEF AdKinds
  <2> HIDE DEF ad
  <2>3. BlocksCome
    BY <1>4, <2>1, <2>2
  <2> QED BY <1>1, <2>1, <2>3, ThinnedSame
<1>7. CASE ItemEnds
  <2> DEFINE ad == Head(items).ad
  <2>1. /\ items # <<>> /\ items' = Tail(items) /\ Idle
        /\ IF ad > 0 THEN Dispatch([kind |-> "ended", ad |-> ad]) ELSE UNCHANGED queue
    BY <1>7 DEF ItemEnds, Playing, Advance, SetItems
  <2>2. /\ ItemsThinned
        /\ ad > 0 => \A n \in 1..Len(items') : items'[n].ad > 0 => items'[n].ad > ad
    BY <2>1, ThinnedTail
  <2>3. ad > 0 => /\ ad \in 1..MaxAds /\ "ended" \in AdKinds
                  /\ \E m \in 1..Len(items) : items[m].ad > 0
    BY <2>1, HeadFields, BoundAssumption DEF AdKinds
  <2> HIDE DEF ad
  <2>4. BlocksCome
    <3>1. CASE ad > 0
      BY <1>4, <2>1, <2>2, <2>3, <3>1
    <3>2. CASE ~(ad > 0)
      BY <2>1, <3>2, BlocksSame
    <3> QED BY <3>1, <3>2
  <2> QED BY <1>1, <2>1, <2>2, <2>4
<1>8. CASE FailedItemDropped
  <2>1. items # <<>> /\ items' = Tail(items) /\ Idle /\ UNCHANGED queue
    BY <1>8 DEF FailedItemDropped, Advance, SetItems
  <2> QED BY <1>1, <2>1, ThinnedTail, BlocksSame
<1>9. CASE ReturnSeekCompletes
  <2>1. Idle /\ UNCHANGED queue
    BY <1>9 DEF ReturnSeekCompletes
  <2>2. ItemsThinned
    BY <1>9, SeekFields, ThinnedSame
  <2> QED BY <1>1, <2>1, <2>2, BlocksSame
<1>10. ASSUME NEW r \in stale, StaleSeekCompletes(r) PROVE TurnInv'
  <2>1. Idle /\ UNCHANGED <<items, queue>>
    BY <1>10 DEF StaleSeekCompletes
  <2> QED BY <1>1, <2>1, ThinnedSame, BlocksSame
<1>11. ASSUME NEW rebuild \in BOOLEAN, DiagnosticsSwap(rebuild) PROVE TurnInv'
  <2> DEFINE i == NewItem(Head(items).url, 0)
  <2>1. /\ items # <<>> /\ Idle /\ UNCHANGED queue
        /\ items' = IF rebuild THEN <<i>> ELSE <<i>> \o Tail(items)
    BY <1>11 DEF DiagnosticsSwap, Advance, SetItems
  <2>2. i \in BreakItems /\ i.ad = 0
    BY <2>1, HeadFields, NewItemFields, BoundAssumption
  <2> HIDE DEF i
  <2>3. CASE rebuild
    <3>1. \A n \in 1..Len(items') : items'[n].ad = 0
      BY <2>1, <2>2, <2>3
    <3> QED BY <1>1, <2>1, <3>1, ThinnedNone, BlocksSame
  <2>4. CASE ~rebuild
    BY <1>1, <2>1, <2>2, <2>4, ThinnedSwapped, BlocksSame
  <2> QED BY <2>3, <2>4
<1>12. ASSUME NEW n \in DOMAIN Playlist, NEW r \in Rates, AppPlays(n, r) PROVE TurnInv'
  <2>1. items' = AppItems(n) /\ Idle /\ UNCHANGED queue
    BY <1>12 DEF AppPlays, SetItems
  <2>2. \A m \in 1..Len(items') : items'[m].ad = 0
    BY <2>1, AppItemsFields
  <2> QED BY <1>1, <2>1, <2>2, ThinnedNone, BlocksSame
<1> QED
  BY <1>3, <1>5, <1>6, <1>7, <1>8, <1>9, <1>10, <1>11, <1>12 DEF AVQueuePlayer

LEMMA StepTurn == TypeInv /\ TurnInv /\ [Next]_vars => TurnInv'
<1> SUFFICES ASSUME TypeInv, TurnInv, [Next]_vars PROVE TurnInv'
  OBVIOUS
<1>1. TypeInv'
  BY StepType
<1>2. CASE Next
  BY <1>1, <1>2, CoreTurn, MainTurn, PlayerStepTurn DEF Next
<1>3. CASE UNCHANGED vars
  BY <1>3 DEF vars, list, original, watch, avPlayer, pod, phase, TurnInv, Ascending,
              AfterEnded, NotBegun, ReportedInTurn
<1> QED BY <1>2, <1>3

\* When a failure is reported no ad before it is still to play, in either player,
\* whatever is skipped, removed, dropped or swapped.
THEOREM TurnCorrect == Spec => []ReportedInTurn
<1>1. Init => TypeInv /\ TurnInv
  BY InitType, InitTurn
<1>2. TypeInv /\ TurnInv /\ [Next]_vars => (TypeInv /\ TurnInv)'
  BY StepType, StepTurn
<1>3. TurnInv => ReportedInTurn
  BY DEF TurnInv
<1> QED
  BY <1>1, <1>2, <1>3, PTL DEF Spec

------------------------------------------------------------------------------
\* Breaks one by one in the app's player.

\* Breaks that come one by one: none is loaded while a block of the last one waits or
\* its content is coming back.
InTurn == External /\ Cases \subseteq {"again", "unplayed", "swap", "late", "pause"}

HasBlock(q, kind)  == \E k \in 1..Len(q) : q[k].kind = kind
OneBlock(q, kind) ==
  \A j, k \in 1..Len(q) : q[j].kind = kind /\ q[k].kind = kind => j = k

LoadMatches ==
  /\ OneBlock(queue, "load")
  /\ HasBlock(queue, "load") => /\ caller \in {"idle", "loading"}
                                /\ caller = "idle" => ~hasPlayer
  /\ HasBlock(queue, "load") \/ caller \in {"loading", "loaded"} =>
       ~HasBlock(queue, "play") /\ ~HasBlock(queue, "return")
  /\ caller = "loaded" => ~adItemsAttached

PlayMatches ==
  /\ OneBlock(queue, "play")
  /\ HasBlock(queue, "play") =>
       ~adItemsAttached /\ (prepared # <<>> => isAdPlaying)
  /\ adItemsAttached => isAdPlaying /\ prepared # <<>>

StopMatches ==
  /\ OneBlock(queue, "stop")
  /\ HasBlock(queue, "stop") => caller = "stopping"
  /\ HasBlock(queue, "return") => stopped
  /\ stopped => /\ ~isAdPlaying /\ ~adItemsAttached /\ hasPlayer
                /\ caller \in {"idle", "loading", "loaded", "stopping"}
                /\ HasBlock(queue, "play") => prepared = <<>>

CallInv == LoadMatches /\ PlayMatches /\ StopMatches

LEMMA InitCall == Init => CallInv
BY DEF Init, CallInv, LoadMatches, PlayMatches, StopMatches, HasBlock, OneBlock

\* What happens to the blocks of the core's calls as the queue changes.

Calls == {"load", "play", "stop", "return"}

LEMMA TailCalls ==
  ASSUME QueueType, NEW kind, Body(kind)
  PROVE  /\ Tail(queue) \in Seq(BreakBlocks)
         /\ HasBlock(queue, kind)
         /\ \A c \in Calls :
              /\ HasBlock(Tail(queue), c) => HasBlock(queue, c)
              /\ c # kind /\ HasBlock(queue, c) => HasBlock(Tail(queue), c)
              /\ OneBlock(queue, c) => OneBlock(Tail(queue), c)
              /\ c = kind /\ OneBlock(queue, c) => ~HasBlock(Tail(queue), c)
<1>1. /\ queue[1].kind = kind /\ 1 \in 1..Len(queue) /\ Tail(queue) \in Seq(BreakBlocks)
      /\ Len(Tail(queue)) = Len(queue) - 1 /\ Len(queue) \in Nat
      /\ \A n \in 1..Len(Tail(queue)) : n + 1 \in 1..Len(queue)
                                        /\ Tail(queue)[n] = queue[n + 1]
  BY BodyFacts DEF QueueType
<1> DEFINE t == Tail(queue)
<1>2. \A n \in 1..Len(t) : n + 1 \in 1..Len(queue) /\ t[n] = queue[n + 1] /\ n + 1 # 1
  BY <1>1
<1>3. \A n \in 1..Len(queue) : n # 1 => n - 1 \in 1..Len(t) /\ t[n - 1] = queue[n]
  BY <1>1
<1> HIDE DEF t
<1>4. HasBlock(queue, kind)
  BY <1>1 DEF HasBlock
<1>5. ASSUME NEW c \in Calls
      PROVE  /\ HasBlock(t, c) => HasBlock(queue, c)
             /\ c # kind /\ HasBlock(queue, c) => HasBlock(t, c)
             /\ c = kind /\ OneBlock(queue, c) => ~HasBlock(t, c)
  <2>1. HasBlock(t, c) => HasBlock(queue, c)
    BY <1>2 DEF HasBlock
  <2>2. c # kind /\ HasBlock(queue, c) => HasBlock(t, c)
    BY <1>1, <1>3 DEF HasBlock
  <2>3. c = kind /\ OneBlock(queue, c) => ~HasBlock(t, c)
    BY <1>1, <1>2 DEF HasBlock, OneBlock
  <2> QED BY <2>1, <2>2, <2>3
<1>6. ASSUME NEW c \in Calls, OneBlock(queue, c) PROVE OneBlock(t, c)
  <2> SUFFICES ASSUME NEW j \in 1..Len(t), NEW k \in 1..Len(t), t[j].kind = c, t[k].kind = c
               PROVE  j = k
    BY DEF OneBlock
  <2>1. j + 1 = k + 1
    BY <1>2, <1>6 DEF OneBlock
  <2> QED BY <2>1
<1> QED
  BY <1>1, <1>4, <1>5, <1>6 DEF t

LEMMA AppendCalls ==
  ASSUME NEW q \in Seq(BreakBlocks), NEW b \in BreakBlocks
  PROVE  \A c \in Calls :
           /\ HasBlock(Append(q, b), c) <=> HasBlock(q, c) \/ b.kind = c
           /\ OneBlock(q, c) /\ (b.kind # c \/ ~HasBlock(q, c)) => OneBlock(Append(q, b), c)
<1> DEFINE a == Append(q, b)
<1>1. /\ Len(a) = Len(q) + 1 /\ Len(q) \in Nat /\ a[Len(q) + 1] = b
      /\ \A n \in 1..Len(q) : a[n] = q[n]
  OBVIOUS
<1> HIDE DEF a
<1>2. \A n \in 1..Len(a) : n \in 1..Len(q) \/ n = Len(q) + 1
  BY <1>1
<1>3. Len(q) + 1 \in 1..Len(a) /\ \A n \in 1..Len(q) : n \in 1..Len(a)
  BY <1>1
<1>4. ASSUME NEW c \in Calls
      PROVE  HasBlock(a, c) <=> HasBlock(q, c) \/ b.kind = c
  BY <1>1, <1>2, <1>3 DEF HasBlock
<1>5. ASSUME NEW c \in Calls, OneBlock(q, c), b.kind # c \/ ~HasBlock(q, c)
      PROVE  OneBlock(a, c)
  BY <1>1, <1>2, <1>5 DEF OneBlock, HasBlock
<1> QED
  BY <1>4, <1>5 DEF a

LEMMA CancelCalls ==
  ASSUME QueueType
  PROVE  /\ LoadsCancelled(queue) \in Seq(BreakBlocks)
         /\ ~HasBlock(LoadsCancelled(queue), "load")
         /\ OneBlock(LoadsCancelled(queue), "load")
         /\ \A c \in Calls \ {"load"} :
              /\ HasBlock(LoadsCancelled(queue), c) <=> HasBlock(queue, c)
              /\ OneBlock(LoadsCancelled(queue), c) <=> OneBlock(queue, c)
<1> DEFINE q == LoadsCancelled(queue)
<1>1. /\ q \in Seq(BreakBlocks) /\ Len(q) = Len(queue)
      /\ \A n \in 1..Len(queue) :
           q[n] = IF queue[n].kind = "load" THEN [kind |-> "cancelled"] ELSE queue[n]
  BY CancelType
<1> HIDE DEF q
<1>2. \A n \in 1..Len(queue) :
        /\ q[n].kind # "load"
        /\ \A c \in Calls \ {"load"} : q[n].kind = c <=> queue[n].kind = c
  BY <1>1 DEF Calls
<1>3. ~HasBlock(q, "load") /\ OneBlock(q, "load")
  BY <1>1, <1>2 DEF HasBlock, OneBlock
<1>4. ASSUME NEW c \in Calls \ {"load"}
      PROVE  /\ HasBlock(q, c) <=> HasBlock(queue, c)
             /\ OneBlock(q, c) <=> OneBlock(queue, c)
  BY <1>1, <1>2 DEF HasBlock, OneBlock
<1> QED
  BY <1>1, <1>3, <1>4 DEF q

LEMMA ForgottenCalls ==
  ASSUME NEW q \in Seq(BreakBlocks)
  PROVE  \A c \in Calls : /\ HasBlock(BlocksForgotten(q), c) <=> HasBlock(q, c)
                          /\ OneBlock(BlocksForgotten(q), c) <=> OneBlock(q, c)
<1> DEFINE f == BlocksForgotten(q)
<1>1. /\ Len(f) = Len(q)
      /\ \A n \in 1..Len(q) :
           f[n] = IF q[n].kind \in AdKinds THEN [kind |-> "cancelled"] ELSE q[n]
  BY ForgottenType
<1> HIDE DEF f
<1>2. \A n \in 1..Len(q), c \in Calls : f[n].kind = c <=> q[n].kind = c
  BY <1>1 DEF Calls, AdKinds
<1>3. ASSUME NEW c \in Calls
      PROVE  /\ HasBlock(f, c) <=> HasBlock(q, c)
             /\ OneBlock(f, c) <=> OneBlock(q, c)
  BY <1>1, <1>2 DEF HasBlock, OneBlock
<1> QED
  BY <1>3 DEF f

\* A step that leaves the calls' blocks, and what they are matched with, alone.
CallsSame ==
  \A c \in Calls : /\ HasBlock(queue', c) <=> HasBlock(queue, c)
                   /\ OneBlock(queue, c) => OneBlock(queue', c)

LEMMA CallKept ==
  ASSUME CallInv, CallsSame,
         UNCHANGED <<isAdPlaying, hasPlayer, prepared, adItemsAttached, caller, stopped>>
  PROVE  CallInv'
BY DEF CallsSame, Calls, CallInv, LoadMatches, PlayMatches, StopMatches

LEMMA CallsUnchanged == ASSUME UNCHANGED queue PROVE CallsSame
BY DEF CallsSame

LEMMA CallsTail ==
  ASSUME QueueType, NEW kind, kind \notin Calls, Body(kind), queue' = Tail(queue)
  PROVE  CallsSame
BY TailCalls DEF CallsSame

LEMMA CallsDispatch ==
  ASSUME QueueType, NEW kind \in AdKinds, NEW ad \in 1..MaxAds,
         Dispatch([kind |-> kind, ad |-> ad])
  PROVE  CallsSame
<1> DEFINE b == [kind |-> kind, ad |-> ad]
<1>1. b \in BreakBlocks /\ b.kind \notin Calls
  BY BlockTypes DEF AdKinds, Calls
<1>2. queue' = Append(queue, b) /\ queue \in Seq(BreakBlocks)
  BY DEF Dispatch, QueueType
<1> HIDE DEF b
<1> QED
  BY <1>1, <1>2, AppendCalls DEF CallsSame


LEMMA CoreCall ==
  ASSUME TypeInv, CallInv, InTurn, Core
  PROVE  CallInv'
<1> USE DEF list, original, watch, avPlayer, pod, phase
<1>1. QueueType /\ queue \in Seq(BreakBlocks) /\ Len(queue) \in Nat /\ External
  BY DEF TypeInv, QueueType, InTurn
<1>2. /\ LoadsCancelled(queue) \in Seq(BreakBlocks)
      /\ ~HasBlock(LoadsCancelled(queue), "load")
      /\ OneBlock(LoadsCancelled(queue), "load")
      /\ \A c \in Calls \ {"load"} :
           /\ HasBlock(LoadsCancelled(queue), c) <=> HasBlock(queue, c)
           /\ OneBlock(LoadsCancelled(queue), c) <=> OneBlock(queue, c)
  BY <1>1, CancelCalls
<1>3. \A k \in {"play", "stop", "return"} : [kind |-> k] \in BreakBlocks
  BY BlockTypes
<1>4. ASSUME NEW urls \in Breaks, Load(urls) PROVE CallInv'
  <2> DEFINE b == [kind |-> "load", urls |-> urls]
             q == LoadsCancelled(queue)
  <2>1. b \in BreakBlocks /\ b.kind = "load"
    BY BreakTypes, BlockTypes
  <2>2. /\ caller \in {"idle", "loading", "loaded"} /\ caller' = "loading"
        /\ queue' = Append(q, b) /\ ~Pending
        /\ UNCHANGED <<isAdPlaying, hasPlayer, prepared, adItemsAttached, stopped>>
    BY <1>1, <1>4 DEF Load, InTurn
  <2>3. ~HasBlock(queue, "play") /\ ~HasBlock(queue, "return")
    BY <1>1, <2>2 DEF Pending, HasBlock
  <2>4. ~HasBlock(queue, "stop")
    BY <2>2 DEF CallInv, StopMatches
  <2> HIDE DEF b, q
  <2>5. \A c \in Calls :
           /\ HasBlock(queue', c) <=> HasBlock(q, c) \/ b.kind = c
           /\ OneBlock(q, c) /\ (b.kind # c \/ ~HasBlock(q, c)) => OneBlock(queue', c)
    <3>1. q \in Seq(BreakBlocks)
      BY <1>2 DEF q
    <3> QED BY <2>1, <2>2, <3>1, AppendCalls
  <2>6. /\ OneBlock(queue', "load") /\ OneBlock(queue', "play") /\ HasBlock(queue', "load")
        /\ ~HasBlock(queue', "play") /\ ~HasBlock(queue', "return")
        /\ ~HasBlock(queue', "stop") /\ OneBlock(queue', "stop")
    BY <1>2, <2>1, <2>3, <2>4, <2>5 DEF q, Calls, CallInv, PlayMatches, StopMatches
  <2> QED
    BY <2>2, <2>6 DEF CallInv, LoadMatches, PlayMatches, StopMatches
<1>5. CASE Play
  <2> DEFINE b == [kind |-> "play"]
  <2>1. b \in BreakBlocks /\ b.kind = "play" /\ queue' = Append(queue, b)
    BY <1>3, <1>5 DEF Play, Dispatch
  <2>2. /\ caller = "loaded" /\ caller' = "starting" /\ isAdPlaying' = TRUE
        /\ stopped' = FALSE
        /\ UNCHANGED <<hasPlayer, prepared, adItemsAttached>>
    BY <1>5 DEF Play
  <2> HIDE DEF b
  <2>3. \A c \in Calls :
           /\ HasBlock(queue', c) <=> HasBlock(queue, c) \/ b.kind = c
           /\ OneBlock(queue, c) /\ (b.kind # c \/ ~HasBlock(queue, c)) => OneBlock(queue', c)
    BY <1>1, <2>1, AppendCalls
  <2>4. /\ ~HasBlock(queue, "load") /\ ~HasBlock(queue, "play") /\ ~HasBlock(queue, "return")
        /\ ~HasBlock(queue, "stop") /\ ~adItemsAttached
    BY <2>2 DEF CallInv, LoadMatches, StopMatches
  <2>5. /\ OneBlock(queue', "load") /\ OneBlock(queue', "play") /\ ~HasBlock(queue', "load")
        /\ ~HasBlock(queue', "return") /\ ~HasBlock(queue', "stop")
        /\ OneBlock(queue', "stop")
    BY <2>1, <2>3, <2>4 DEF Calls, CallInv, LoadMatches, PlayMatches, StopMatches
  <2> QED
    BY <2>2, <2>4, <2>5 DEF CallInv, LoadMatches, PlayMatches, StopMatches
<1>6. CASE StopIgnored
  <2>1. /\ ~hasPlayer /\ caller' = "idle" /\ caller # "stopping"
        /\ UNCHANGED <<isAdPlaying, hasPlayer, queue, prepared, adItemsAttached, stopped>>
    BY <1>6 DEF StopIgnored, Stoppable
  <2> QED
    BY <2>1 DEF CallInv, LoadMatches, PlayMatches, StopMatches
<1>7. CASE Stop
  <2> DEFINE b == [kind |-> "stop"]
             q == LoadsCancelled(queue)
  <2>1. b \in BreakBlocks /\ b.kind = "stop"
    BY <1>3
  <2>2. /\ caller # "stopping" /\ caller' = "stopping" /\ queue' = Append(q, b)
        /\ UNCHANGED <<isAdPlaying, hasPlayer, prepared, adItemsAttached, stopped>>
    BY <1>7 DEF Stop, Stoppable
  <2> HIDE DEF b, q
  <2>3. \A c \in Calls :
           /\ HasBlock(queue', c) <=> HasBlock(q, c) \/ b.kind = c
           /\ OneBlock(q, c) /\ (b.kind # c \/ ~HasBlock(q, c)) => OneBlock(queue', c)
    <3>1. q \in Seq(BreakBlocks)
      BY <1>2 DEF q
    <3> QED BY <2>1, <2>2, <3>1, AppendCalls
  <2>4. /\ OneBlock(queue', "load") /\ ~HasBlock(queue', "load")
        /\ OneBlock(queue, "play") => OneBlock(queue', "play")
        /\ HasBlock(queue', "play") <=> HasBlock(queue, "play")
        /\ HasBlock(queue', "return") <=> HasBlock(queue, "return")
        /\ OneBlock(queue', "stop")
    BY <1>2, <2>1, <2>2, <2>3 DEF q, Calls, CallInv, StopMatches
  <2> QED
    BY <2>2, <2>4 DEF CallInv, LoadMatches, PlayMatches, StopMatches
<1>8. CASE StopOnMain
  <2> DEFINE q == LoadsCancelled(queue)
  <2>1. /\ caller # "stopping" /\ caller' = "idle" /\ stopped' = TRUE /\ ReleasePlayer(q)
    BY <1>8 DEF StopOnMain, Stoppable
  <2>2. q \in Seq(BreakBlocks)
    BY <1>2
  <2>3. ~HasBlock(q, "load") /\ OneBlock(q, "load")
        /\ (HasBlock(q, "stop") <=> HasBlock(queue, "stop"))
        /\ (OneBlock(q, "play") <=> OneBlock(queue, "play"))
        /\ (OneBlock(q, "stop") <=> OneBlock(queue, "stop"))
    BY <1>2 DEF Calls
  <2> HIDE DEF q
  <2>4. /\ queue' = BlocksForgotten(q) /\ isAdPlaying' = FALSE /\ adItemsAttached' = FALSE
        /\ prepared' = <<>> /\ hasPlayer' = External
    BY <2>1, <2>2, ReleaseType
  <2>5. \A c \in Calls : /\ HasBlock(queue', c) <=> HasBlock(q, c)
                         /\ OneBlock(queue', c) <=> OneBlock(q, c)
    BY <2>2, <2>4, ForgottenCalls
  <2>6. /\ ~HasBlock(queue', "load") /\ OneBlock(queue', "load") /\ OneBlock(queue', "play")
        /\ ~HasBlock(queue', "stop") /\ OneBlock(queue', "stop")
    BY <2>1, <2>3, <2>5 DEF Calls, CallInv, PlayMatches, StopMatches
  <2> QED
    BY <1>1, <2>1, <2>4, <2>6 DEF CallInv, LoadMatches, PlayMatches, StopMatches
<1>9. CASE ReturnToContent
  <2> DEFINE b == [kind |-> "return"]
  <2>1. b \in BreakBlocks /\ b.kind = "return" /\ queue' = Append(queue, b)
    BY <1>3, <1>9 DEF ReturnToContent, Dispatch
  <2>2. /\ caller = "idle" /\ stopped
        /\ UNCHANGED <<isAdPlaying, hasPlayer, prepared, adItemsAttached, caller, stopped>>
    BY <1>9 DEF ReturnToContent
  <2> HIDE DEF b
  <2>3. \A c \in Calls :
           /\ HasBlock(queue', c) <=> HasBlock(queue, c) \/ b.kind = c
           /\ OneBlock(queue, c) /\ (b.kind # c \/ ~HasBlock(queue, c)) => OneBlock(queue', c)
    BY <1>1, <2>1, AppendCalls
  <2>4. ~HasBlock(queue, "load")
    BY <2>2 DEF CallInv, LoadMatches, StopMatches
  <2>5. /\ OneBlock(queue', "load") /\ ~HasBlock(queue', "load") /\ OneBlock(queue', "play")
        /\ HasBlock(queue', "play") <=> HasBlock(queue, "play")
        /\ HasBlock(queue', "stop") <=> HasBlock(queue, "stop")
        /\ OneBlock(queue', "stop")
    BY <2>1, <2>3, <2>4 DEF Calls, CallInv, LoadMatches, PlayMatches, StopMatches
  <2> QED
    BY <2>2, <2>5 DEF CallInv, LoadMatches, PlayMatches, StopMatches
<1>10. CASE ReturnOnMain
  <2>1. UNCHANGED <<queue, isAdPlaying, hasPlayer, prepared, adItemsAttached, caller, stopped>>
    BY <1>10 DEF ReturnOnMain, Return
  <2> QED BY <2>1, CallKept, CallsUnchanged
<1>11. ASSUME NEW u \in Ads, EnqueueNextItem(u) \/ RemoveNextItem(u) PROVE CallInv'
  BY <1>11 DEF EnqueueNextItem, RemoveNextItem, InTurn
<1>12. CASE PlayNextItem \/ \E r \in {0, 1} : PauseResume(r)
  <2>1. UNCHANGED <<queue, isAdPlaying, hasPlayer, prepared, adItemsAttached, caller, stopped>>
    BY <1>12 DEF PlayNextItem, PauseResume
  <2> QED BY <2>1, CallKept, CallsUnchanged
<1>13. CASE PlayedOut
  <2>1. /\ caller = "playing" /\ adItemsAttached /\ caller' = "idle"
        /\ UNCHANGED <<isAdPlaying, hasPlayer, queue, prepared, adItemsAttached, stopped>>
    BY <1>13 DEF PlayedOut
  <2> QED
    BY <2>1 DEF CallInv, LoadMatches, PlayMatches, StopMatches
<1> QED
  BY <1>4, <1>5, <1>6, <1>7, <1>8, <1>9, <1>10, <1>11, <1>12, <1>13 DEF Core

LEMMA MainCall ==
  ASSUME TypeInv, CallInv, InTurn, RunMain
  PROVE  CallInv'
<1> USE DEF list, original, watch, avPlayer, pod, phase
<1>1. QueueType /\ External
  BY DEF TypeInv, InTurn
<1>2. CASE SkipCancelled
  <2>1. /\ Body("cancelled") /\ queue' = Tail(queue) /\ "cancelled" \notin Calls
        /\ UNCHANGED <<isAdPlaying, hasPlayer, prepared, adItemsAttached, caller, stopped>>
    BY <1>2 DEF SkipCancelled, Calls
  <2> QED BY <1>1, <2>1, CallKept, CallsTail
<1>3. CASE RunLoad
  <2> DEFINE q == Tail(queue)
  <2>1. Body("load") /\ queue' = BlocksForgotten(q)
    BY <1>3 DEF RunLoad
  <2>2. /\ caller' = (IF caller = "loading" THEN "loaded" ELSE caller)
        /\ adItemsAttached' = FALSE
        /\ UNCHANGED <<isAdPlaying, hasPlayer, stopped>>
    BY <1>1, <1>3 DEF RunLoad, Prepare
  <2>3. /\ q \in Seq(BreakBlocks) /\ HasBlock(queue, "load")
        /\ \A c \in Calls :
              /\ HasBlock(q, c) => HasBlock(queue, c)
              /\ c # "load" /\ HasBlock(queue, c) => HasBlock(q, c)
              /\ OneBlock(queue, c) => OneBlock(q, c)
              /\ c = "load" /\ OneBlock(queue, c) => ~HasBlock(q, c)
    BY <1>1, <2>1, TailCalls
  <2> HIDE DEF q
  <2>4. \A c \in Calls : /\ HasBlock(queue', c) <=> HasBlock(q, c)
                         /\ OneBlock(queue', c) <=> OneBlock(q, c)
    BY <2>1, <2>3, ForgottenCalls
  <2>5. /\ ~HasBlock(queue', "load") /\ ~HasBlock(queue', "play")
        /\ ~HasBlock(queue', "return") /\ ~HasBlock(queue', "stop")
        /\ OneBlock(queue', "load") /\ OneBlock(queue', "play") /\ OneBlock(queue', "stop")
        /\ caller \in {"idle", "loading"}
    BY <2>3, <2>4 DEF Calls, CallInv, LoadMatches, PlayMatches, StopMatches
  <2> QED
    BY <2>2, <2>5 DEF CallInv, LoadMatches, PlayMatches, StopMatches
<1>4. CASE RunPlay
  <2> DEFINE q == Tail(queue)
  <2>1. Body("play") /\ queue' = q /\ UNCHANGED <<isAdPlaying, prepared, stopped>>
    BY <1>4 DEF RunPlay
  <2>2. /\ q \in Seq(BreakBlocks) /\ HasBlock(queue, "play")
        /\ \A c \in Calls :
              /\ HasBlock(q, c) => HasBlock(queue, c)
              /\ c # "play" /\ HasBlock(queue, c) => HasBlock(q, c)
              /\ OneBlock(queue, c) => OneBlock(q, c)
              /\ c = "play" /\ OneBlock(queue, c) => ~HasBlock(q, c)
    BY <1>1, <2>1, TailCalls
  <2>3. /\ ~adItemsAttached /\ (prepared # <<>> => isAdPlaying /\ ~stopped)
        /\ ~HasBlock(queue, "load") /\ caller \notin {"loading", "loaded"}
    BY <2>2 DEF CallInv, LoadMatches, PlayMatches, StopMatches
  <2>4. \/ /\ prepared # <<>> /\ hasPlayer' = TRUE /\ adItemsAttached' = TRUE
           /\ caller' = (IF caller = "starting" THEN "playing" ELSE caller)
        \/ UNCHANGED <<hasPlayer, adItemsAttached, caller>>
    BY <1>1, <1>4, <2>3 DEF RunPlay, Attach, Plays
  <2> HIDE DEF q
  <2>5. /\ ~HasBlock(queue', "load") /\ ~HasBlock(queue', "play")
        /\ OneBlock(queue', "load") /\ OneBlock(queue', "play") /\ OneBlock(queue', "stop")
        /\ HasBlock(queue', "return") => HasBlock(queue, "return")
        /\ HasBlock(queue', "stop") => HasBlock(queue, "stop")
    BY <2>1, <2>2, <2>3 DEF Calls, CallInv, LoadMatches, PlayMatches, StopMatches
  <2> QED
    BY <2>1, <2>3, <2>4, <2>5 DEF CallInv, LoadMatches, PlayMatches, StopMatches
<1>5. CASE RunStop
  <2> DEFINE q == Tail(queue)
  <2>1. Body("stop") /\ ReleasePlayer(q) /\ stopped' = TRUE /\ caller' = "idle"
    BY <1>5 DEF RunStop
  <2>2. /\ q \in Seq(BreakBlocks) /\ HasBlock(queue, "stop")
        /\ \A c \in Calls :
              /\ HasBlock(q, c) => HasBlock(queue, c)
              /\ c # "stop" /\ HasBlock(queue, c) => HasBlock(q, c)
              /\ OneBlock(queue, c) => OneBlock(q, c)
              /\ c = "stop" /\ OneBlock(queue, c) => ~HasBlock(q, c)
    BY <1>1, <2>1, TailCalls
  <2> HIDE DEF q
  <2>3. /\ queue' = BlocksForgotten(q) /\ isAdPlaying' = FALSE /\ adItemsAttached' = FALSE
        /\ prepared' = <<>> /\ hasPlayer' = External
    BY <2>1, <2>2, ReleaseType
  <2>4. \A c \in Calls : /\ HasBlock(queue', c) <=> HasBlock(q, c)
                         /\ OneBlock(queue', c) <=> OneBlock(q, c)
    BY <2>2, <2>3, ForgottenCalls
  <2>5. /\ ~HasBlock(queue', "load") /\ ~HasBlock(queue', "stop")
        /\ OneBlock(queue', "load") /\ OneBlock(queue', "play") /\ OneBlock(queue', "stop")
    BY <2>2, <2>4 DEF Calls, CallInv, LoadMatches, PlayMatches, StopMatches
  <2> QED
    BY <1>1, <2>1, <2>3, <2>5 DEF CallInv, LoadMatches, PlayMatches, StopMatches
<1>6. CASE RunReturn
  <2> DEFINE q == Tail(queue)
  <2>1. /\ Body("return") /\ queue' = q
        /\ UNCHANGED <<isAdPlaying, hasPlayer, prepared, adItemsAttached, caller, stopped>>
    BY <1>6 DEF RunReturn, Return
  <2>2. \A c \in Calls :
              /\ HasBlock(q, c) => HasBlock(queue, c)
              /\ c # "return" /\ HasBlock(queue, c) => HasBlock(q, c)
              /\ OneBlock(queue, c) => OneBlock(q, c)
    BY <1>1, <2>1, TailCalls
  <2> HIDE DEF q
  <2>3. /\ OneBlock(queue', "load") /\ OneBlock(queue', "play") /\ OneBlock(queue', "stop")
        /\ \A c \in {"load", "play", "stop"} : HasBlock(queue', c) <=> HasBlock(queue, c)
        /\ HasBlock(queue', "return") => HasBlock(queue, "return")
    BY <2>1, <2>2 DEF Calls, CallInv, LoadMatches, PlayMatches, StopMatches
  <2> QED
    BY <2>1, <2>3 DEF CallInv, LoadMatches, PlayMatches, StopMatches
<1>7. CASE AdItemFailed \/ AdItemBroken \/ AdItemEnded
  <2>1. \E kind \in AdKinds : Body(kind) /\ queue' = Tail(queue) /\ kind \notin Calls
    BY <1>7 DEF AdItemFailed, AdItemBroken, AdItemEnded, AdKinds, Calls
  <2>2. UNCHANGED <<isAdPlaying, hasPlayer, prepared, adItemsAttached, caller, stopped>>
    BY <1>7 DEF AdItemFailed, AdItemBroken, AdItemEnded, AdEvent
  <2> QED BY <1>1, <2>1, <2>2, CallKept, CallsTail
<1> QED
  BY <1>2, <1>3, <1>4, <1>5, <1>6, <1>7 DEF RunMain

\* What the AVQueuePlayer, the diagnostics and the app do to the queue of blocks.
LEMMA PlayerStepBlocks ==
  ASSUME TypeInv,
         \/ AVQueuePlayer \/ \E rebuild \in BOOLEAN : DiagnosticsSwap(rebuild)
         \/ \E n \in DOMAIN Playlist, r \in Rates : AppPlays(n, r)
  PROVE  /\ Idle
         /\ \/ UNCHANGED queue
            \/ \E kind \in AdKinds, ad \in 1..MaxAds : Dispatch([kind |-> kind, ad |-> ad])
<1>1. ASSUME NEW n \in DOMAIN items, ItemFails(n)
      PROVE  /\ Idle
             /\ \/ UNCHANGED queue
                \/ \E kind \in AdKinds, ad \in 1..MaxAds :
                     Dispatch([kind |-> kind, ad |-> ad])
  <2>1. /\ Idle
        /\ IF items[n].ad > 0
             THEN /\ Dispatch([kind |-> "failed", ad |-> items[n].ad])
                  /\ items[n].ad \in 1..MaxAds
             ELSE UNCHANGED queue
    BY <1>1, FailsFields DEF ItemFails
  <2> QED BY <2>1 DEF AdKinds
<1>2. ASSUME NEW kind \in AdKinds, items # <<>>, Head(items).ad > 0,
             Dispatch([kind |-> kind, ad |-> Head(items).ad])
      PROVE  \E ad \in 1..MaxAds : Dispatch([kind |-> kind, ad |-> ad])
  <2>1. Head(items).ad \in 1..MaxAds
    BY <1>2, HeadFields, BoundAssumption
  <2> QED BY <1>2, <2>1
<1>3. CASE ItemFailedToPlayToEnd
  <2>1. /\ Idle /\ items # <<>> /\ Head(items).ad > 0
        /\ Dispatch([kind |-> "broken", ad |-> Head(items).ad])
    BY <1>3 DEF ItemFailedToPlayToEnd, Playing
  <2> QED BY <1>2, <2>1 DEF AdKinds
<1>4. CASE ItemEnds
  <2>1. /\ Idle /\ items # <<>>
        /\ IF Head(items).ad > 0 THEN Dispatch([kind |-> "ended", ad |-> Head(items).ad])
                                 ELSE UNCHANGED queue
    BY <1>4 DEF ItemEnds, Playing
  <2> QED BY <1>2, <2>1 DEF AdKinds
<1>5. CASE \/ \E n \in DOMAIN items : ItemReady(n)
           \/ FailedItemDropped \/ ReturnSeekCompletes
           \/ \E r \in stale : StaleSeekCompletes(r)
           \/ \E rebuild \in BOOLEAN : DiagnosticsSwap(rebuild)
           \/ \E n \in DOMAIN Playlist, r \in Rates : AppPlays(n, r)
  BY <1>5 DEF ItemReady, FailedItemDropped, ReturnSeekCompletes, StaleSeekCompletes,
              DiagnosticsSwap, AppPlays
<1> QED
  BY <1>1, <1>3, <1>4, <1>5 DEF AVQueuePlayer

LEMMA PlayerStepCall ==
  ASSUME TypeInv, CallInv,
         \/ AVQueuePlayer \/ \E rebuild \in BOOLEAN : DiagnosticsSwap(rebuild)
         \/ \E n \in DOMAIN Playlist, r \in Rates : AppPlays(n, r)
  PROVE  CallInv'
<1>1. UNCHANGED <<isAdPlaying, hasPlayer, prepared, adItemsAttached, caller, stopped>>
  BY PlayerStepBlocks DEF Idle, phase
<1>2. CallsSame
  BY PlayerStepBlocks, CallsUnchanged, CallsDispatch DEF TypeInv
<1> QED BY <1>1, <1>2, CallKept

LEMMA StepCall == TypeInv /\ CallInv /\ InTurn /\ [Next]_vars => CallInv'
<1> SUFFICES ASSUME TypeInv, CallInv, InTurn, [Next]_vars PROVE CallInv'
  OBVIOUS
<1>1. CASE Next
  BY <1>1, CoreCall, MainCall, PlayerStepCall DEF Next
<1>2. CASE UNCHANGED vars
  BY <1>2, CallKept, CallsUnchanged DEF vars, phase
<1> QED BY <1>1, <1>2

\* Only content is in the queue unless the ads are attached, and they are never
\* attached while a block of load() waits.
ContentOnly ==
  /\ ~adItemsAttached \/ HasBlock(queue, "load") =>
       \A n \in 1..Len(items) : items[n].url \in Contents
  /\ \A n \in 1..Len(originalMediaUrls) : originalMediaUrls[n] \in Contents

\* A break that is on its way.
Underway ==
  \/ adItemsAttached \/ HasBlock(queue, "load") \/ caller \in {"loading", "loaded"}
  \/ HasBlock(queue, "play") /\ prepared # <<>>

\* No seek of returnToContent() is still to set the speed.
NoneReturns == Underway => stale = {} /\ \A n \in 1..Len(items) : items[n].ret = 0

\* As long as an ad is left, the queue has not come to the content by its length.
AdsInFront ==
  /\ \A m, n \in 1..Len(items) : m < n /\ items[n].url \in Ads => items[m].url \in Ads
  /\ \A n \in 1..Len(items) :
       items[n].url \in Ads => Len(items) - n >= Len(mediaUrls) - adCount
  /\ ~adItemsAttached /\ prepared # <<>> =>
       Len(mediaUrls) = adCount /\ Len(prepared) = adCount

NormalSpeed == items # <<>> /\ items[1].url \in Ads => rate \in {0, 1}

QueueInv == ContentOnly /\ NoneReturns /\ AdsInFront /\ NormalSpeed

LEMMA InitQueue == Init => QueueInv
<1> SUFFICES ASSUME Init PROVE QueueInv
  OBVIOUS
<1>1. /\ adItemsAttached = FALSE /\ queue = <<>> /\ caller = "idle" /\ stale = {}
      /\ originalMediaUrls = <<>> /\ prepared = <<>>
      /\ items = <<>> \/ \E n \in DOMAIN Playlist : items = AppItems(n)
  BY DEF Init
<1>2. \A n \in 1..Len(items) : items[n].url \in Contents
  <2>1. CASE items = <<>>
    BY <2>1
  <2>2. ASSUME NEW n \in DOMAIN Playlist, items = AppItems(n)
        PROVE  \A m \in 1..Len(items) : items[m].url \in Contents
    BY <2>2, AppItemsFields
  <2> QED BY <1>1, <2>1, <2>2
<1>3. \A n \in 1..Len(items) : items[n].url \notin Ads
  BY <1>2, UrlFacts
<1>4. items # <<>> => 1 \in 1..Len(items)
  BY InitType, HeadFields
<1>5. ~Underway
  BY <1>1 DEF Underway, HasBlock
<1> QED
  BY <1>1, <1>2, <1>3, <1>4, <1>5
     DEF QueueInv, ContentOnly, NoneReturns, AdsInFront, NormalSpeed

\* Steps that put no break on its way, load none and attach none.
BreakKept ==
  /\ UNCHANGED <<prepared, adItemsAttached, mediaUrls, adCount>>
  /\ originalMediaUrls' \in {originalMediaUrls, <<>>}
  /\ HasBlock(queue', "load") => HasBlock(queue, "load")
  /\ Underway' => Underway

LEMMA CallsKeepBreak ==
  ASSUME CallsSame, UNCHANGED <<prepared, adItemsAttached, mediaUrls, adCount,
                                originalMediaUrls, caller>>
  PROVE  BreakKept
BY DEF CallsSame, Calls, BreakKept, Underway

\* The items change in their places.
LEMMA QueueInPlace ==
  ASSUME TypeInv, QueueInv, BreakKept, Len(items') = Len(items),
         \A n \in 1..Len(items) :
            items'[n].url = items[n].url /\ items'[n].ret \in {items[n].ret, 0},
         stale' = stale, rate' \in {rate, 0, 1}
  PROVE  QueueInv'
<1>1. Len(items) \in Nat /\ items # <<>> => 1 \in 1..Len(items)
  BY ItemsFields, HeadFields
<1>2. items' # <<>> => items # <<>>
  BY <1>1
<1>3. ContentOnly'
  BY DEF QueueInv, ContentOnly, BreakKept
<1>4. NoneReturns'
  BY DEF QueueInv, NoneReturns, BreakKept
<1>5. AdsInFront'
  BY DEF QueueInv, AdsInFront, BreakKept
<1>6. NormalSpeed'
  <2> SUFFICES ASSUME items' # <<>>, items'[1].url \in Ads PROVE rate' \in {0, 1}
    BY DEF NormalSpeed
  <2>1. items # <<>> /\ items[1].url \in Ads
    <3>1. items # <<>>
      OBVIOUS
    <3> QED BY <1>1, <3>1, HeadFields
  <2> QED BY <2>1 DEF QueueInv, NormalSpeed
<1> QED
  BY <1>3, <1>4, <1>5, <1>6 DEF QueueInv

\* The queue goes on to its next item: it comes to the content only when no ad is left.
LEMMA QueueAdvances ==
  ASSUME TypeInv, QueueInv, BreakKept, items # <<>>,
         NEW r \in {rate, 0}, Advance(Tail(items), r)
  PROVE  QueueInv'
<1> DEFINE t == Tail(items)
<1>1. /\ t \in Seq(BreakItems) /\ Len(t) = Len(items) - 1 /\ Len(items) \in Nat \ {0}
      /\ Head(items) = items[1] /\ 1 \in 1..Len(items)
      /\ \A n \in 1..Len(t) : n + 1 \in 1..Len(items) /\ t[n] = items[n + 1]
  BY HeadFields
<1>2. r \in Rates
  BY RateFacts DEF TypeInv, PlayerType
<1>3. Advance(t, r)
  OBVIOUS
<1> HIDE DEF t
<1>4. /\ items' = t
      /\ \/ rate' = r
         \/ AtOriginal(t) /\ rate' = originalRate
      /\ \/ stale' = stale
         \/ Head(items).ret > 0 /\ stale' = stale \cup {Head(items).ret}
  BY <1>1, <1>2, <1>3, AdvanceType
<1>5. ContentOnly'
  BY <1>1, <1>4 DEF QueueInv, ContentOnly, BreakKept
<1>6. NoneReturns'
  BY <1>1, <1>4 DEF QueueInv, NoneReturns, BreakKept
<1>7. mediaUrls' = mediaUrls /\ adCount' = adCount /\ Len(mediaUrls) \in Nat /\ adCount \in Nat
  BY DEF BreakKept, TypeInv, ListType
<1>8. AdsInFront'
  <2>1. \A m, n \in 1..Len(items') :
          m < n /\ items'[n].url \in Ads => items'[m].url \in Ads
    <3> SUFFICES ASSUME NEW m \in 1..Len(items'), NEW n \in 1..Len(items'),
                        m < n, items'[n].url \in Ads
                 PROVE  items'[m].url \in Ads
      OBVIOUS
    <3>1. /\ m + 1 \in 1..Len(items) /\ items'[m] = items[m + 1]
          /\ n + 1 \in 1..Len(items) /\ items'[n] = items[n + 1]
      BY <1>1, <1>4
    <3>2. m + 1 < n + 1
      BY <1>1, <1>4
    <3> QED BY <3>1, <3>2 DEF QueueInv, AdsInFront
  <2>2. ASSUME NEW n \in 1..Len(items'), items'[n].url \in Ads
        PROVE  Len(items') - n >= Len(mediaUrls') - adCount'
    <3>1. n + 1 \in 1..Len(items) /\ items[n + 1].url \in Ads /\ Len(items') = Len(items) - 1
      BY <1>1, <1>4, <2>2
    <3>2. Len(items) - (n + 1) >= Len(mediaUrls) - adCount
      BY <3>1 DEF QueueInv, AdsInFront
    <3> QED BY <1>1, <1>7, <3>1, <3>2
  <2>3. ~adItemsAttached' /\ prepared' # <<>> =>
          Len(mediaUrls') = adCount' /\ Len(prepared') = adCount'
    BY DEF BreakKept, QueueInv, AdsInFront
  <2> QED BY <2>1, <2>2, <2>3 DEF AdsInFront
<1>9. NormalSpeed'
  <2> SUFFICES ASSUME items' # <<>>, items'[1].url \in Ads PROVE rate' \in {0, 1}
    BY DEF NormalSpeed
  <2>1. 1 \in 1..Len(t)
    BY <1>1, <1>4
  <2>2. 2 \in 1..Len(items) /\ items[2].url \in Ads
    BY <1>1, <1>4, <2>1
  <2>3. items[1].url \in Ads /\ Len(items) - 2 >= Len(mediaUrls) - adCount
    BY <1>1, <2>2 DEF QueueInv, AdsInFront
  <2>4. ~AtOriginal(t)
    BY <1>1, <1>7, <2>3 DEF AtOriginal
  <2>5. rate \in {0, 1}
    BY <2>3 DEF QueueInv, NormalSpeed
  <2> QED BY <1>4, <2>4, <2>5
<1> QED
  BY <1>5, <1>6, <1>8, <1>9 DEF QueueInv

\* A queue of content, or an empty one.
LEMMA QueueOfContent ==
  ASSUME TypeInv', QueueInv, \A n \in 1..Len(items') : items'[n].url \in Contents,
         NoneReturns',
         originalMediaUrls' \in {originalMediaUrls, <<>>},
         ~adItemsAttached' /\ prepared' # <<>> =>
           Len(mediaUrls') = adCount' /\ Len(prepared') = adCount'
  PROVE  QueueInv'
<1>1. \A n \in 1..Len(items') : items'[n].url \notin Ads
  BY UrlFacts
<1>2. ContentOnly'
  BY DEF QueueInv, ContentOnly
<1>3. AdsInFront'
  BY <1>1 DEF AdsInFront
<1>4. NormalSpeed'
  <2>1. items' # <<>> => 1 \in 1..Len(items')
    BY DEF TypeInv, PlayerType
  <2> QED BY <1>1, <2>1 DEF NormalSpeed
<1> QED
  BY <1>2, <1>3, <1>4 DEF QueueInv

\* The items that returnToContent() puts back are content.
LEMMA ReturnOfContent ==
  ASSUME TypeInv, TypeInv', QueueInv, Return, ~Underway', ~adItemsAttached
  PROVE  QueueInv'
<1> USE DEF list
<1>1. UNCHANGED <<prepared, adItemsAttached, mediaUrls, adCount>>
  BY DEF Return
<1>2. \/ originalMediaUrls' = <<>> /\ items' = Returned
      \/ UNCHANGED <<items, originalMediaUrls>>
  BY ReturnType
<1>3. \A n \in 1..Len(items') : items'[n].url \in Contents
  <2>1. CASE items' = Returned
    BY <2>1, ReturnedFields DEF QueueInv, ContentOnly
  <2>2. CASE items' = items
    BY <2>2 DEF QueueInv, ContentOnly
  <2> QED BY <1>2, <2>1, <2>2
<1>4. NoneReturns'
  BY DEF NoneReturns
<1>5. originalMediaUrls' \in {originalMediaUrls, <<>>}
  BY <1>2
<1>6. ~adItemsAttached' /\ prepared' # <<>> =>
        Len(mediaUrls') = adCount' /\ Len(prepared') = adCount'
  BY <1>1 DEF QueueInv, AdsInFront
<1> QED
  BY <1>3, <1>4, <1>5, <1>6, QueueOfContent

\* The calls of the core that leave the player's items alone.
PlayerKept == BreakKept /\ UNCHANGED <<items, stale, owed>> /\ rate' \in {rate, 0, 1}

LEMMA CoreKeepsBreak ==
  ASSUME TypeInv, InTurn, Core
  PROVE  \/ \E urls \in Breaks : Load(urls)
         \/ StopOnMain \/ ReturnOnMain
         \/ PlayNextItem /\ BreakKept
         \/ PlayerKept
<1> USE DEF list, original, watch, avPlayer, pod, phase
<1>1. QueueType /\ queue \in Seq(BreakBlocks) /\ External
  BY DEF TypeInv, QueueType, InTurn
<1>2. /\ LoadsCancelled(queue) \in Seq(BreakBlocks)
      /\ ~HasBlock(LoadsCancelled(queue), "load")
      /\ \A c \in Calls \ {"load"} :
           HasBlock(LoadsCancelled(queue), c) <=> HasBlock(queue, c)
  BY <1>1, CancelCalls
<1>3. \A k \in {"play", "stop", "return"} : [kind |-> k] \in BreakBlocks
  BY BlockTypes
<1>4. CASE Play
  <2> DEFINE b == [kind |-> "play"]
  <2>1. b \in BreakBlocks /\ b.kind = "play" /\ queue' = Append(queue, b)
    BY <1>3, <1>4 DEF Play, Dispatch
  <2>2. /\ caller = "loaded"
        /\ UNCHANGED <<items, stale, owed, rate, prepared, adItemsAttached, mediaUrls,
                       adCount, originalMediaUrls>>
    BY <1>4 DEF Play
  <2> HIDE DEF b
  <2>3. \A c \in Calls : HasBlock(queue', c) <=> HasBlock(queue, c) \/ b.kind = c
    BY <1>1, <2>1, AppendCalls
  <2>4. BreakKept
    BY <2>1, <2>2, <2>3 DEF BreakKept, Underway, Calls
  <2> QED BY <2>2, <2>4 DEF PlayerKept
<1>5. CASE StopIgnored
  <2>1. /\ caller' = "idle"
        /\ UNCHANGED <<queue, items, stale, owed, rate, prepared, adItemsAttached, mediaUrls,
                       adCount, originalMediaUrls>>
    BY <1>5 DEF StopIgnored
  <2>2. BreakKept
    BY <2>1 DEF BreakKept, Underway
  <2> QED BY <2>1, <2>2 DEF PlayerKept
<1>6. CASE Stop
  <2> DEFINE b == [kind |-> "stop"]
             q == LoadsCancelled(queue)
  <2>1. b \in BreakBlocks /\ b.kind = "stop"
    BY <1>3
  <2>2. /\ caller' = "stopping" /\ queue' = Append(q, b)
        /\ UNCHANGED <<items, stale, owed, rate, prepared, adItemsAttached, mediaUrls,
                       adCount, originalMediaUrls>>
    BY <1>6 DEF Stop
  <2> HIDE DEF b, q
  <2>3. \A c \in Calls : HasBlock(queue', c) <=> HasBlock(q, c) \/ b.kind = c
    <3>1. q \in Seq(BreakBlocks)
      BY <1>2 DEF q
    <3> QED BY <2>1, <2>2, <3>1, AppendCalls
  <2>4. ~HasBlock(queue', "load") /\ (HasBlock(queue', "play") <=> HasBlock(queue, "play"))
    BY <1>2, <2>1, <2>3 DEF q, Calls
  <2>5. BreakKept
    BY <2>2, <2>4 DEF BreakKept, Underway
  <2> QED BY <2>2, <2>5 DEF PlayerKept
<1>7. CASE ReturnToContent
  <2> DEFINE b == [kind |-> "return"]
  <2>1. b \in BreakBlocks /\ b.kind = "return" /\ queue' = Append(queue, b)
    BY <1>3, <1>7 DEF ReturnToContent, Dispatch
  <2>2. UNCHANGED <<items, stale, owed, rate, prepared, adItemsAttached, mediaUrls,
                    adCount, originalMediaUrls, caller>>
    BY <1>7 DEF ReturnToContent
  <2> HIDE DEF b
  <2>3. \A c \in Calls : HasBlock(queue', c) <=> HasBlock(queue, c) \/ b.kind = c
    BY <1>1, <2>1, AppendCalls
  <2>4. BreakKept
    BY <2>1, <2>2, <2>3 DEF BreakKept, Underway, Calls
  <2> QED BY <2>2, <2>4 DEF PlayerKept
<1>8. ASSUME NEW u \in Ads, EnqueueNextItem(u) \/ RemoveNextItem(u) PROVE FALSE
  BY <1>8 DEF EnqueueNextItem, RemoveNextItem, InTurn
<1>9. CASE PlayNextItem
  <2>1. UNCHANGED <<queue, prepared, adItemsAttached, mediaUrls, adCount, originalMediaUrls,
                    caller>>
    BY <1>9 DEF PlayNextItem
  <2> QED BY <1>9, <2>1, CallsUnchanged, CallsKeepBreak
<1>10. ASSUME NEW r \in {0, 1}, PauseResume(r) PROVE PlayerKept
  <2>1. /\ rate' \in {rate, 0, 1}
        /\ UNCHANGED <<items, stale, owed, queue, prepared, adItemsAttached, mediaUrls,
                       adCount, originalMediaUrls, caller>>
    BY <1>10 DEF PauseResume
  <2>2. BreakKept
    BY <2>1, CallsUnchanged, CallsKeepBreak
  <2> QED BY <2>1, <2>2 DEF PlayerKept
<1>11. CASE PlayedOut
  <2>1. /\ caller' = "idle"
        /\ UNCHANGED <<queue, items, stale, owed, rate, prepared, adItemsAttached, mediaUrls,
                       adCount, originalMediaUrls>>
    BY <1>11 DEF PlayedOut
  <2>2. BreakKept
    BY <2>1 DEF BreakKept, Underway
  <2> QED BY <2>1, <2>2 DEF PlayerKept
<1> QED
  BY <1>4, <1>5, <1>6, <1>7, <1>8, <1>9, <1>10, <1>11 DEF Core

\* A stop that takes effect ends the break, and content comes back to no break.
LEMMA ReleaseEnds ==
  ASSUME TypeInv, CallInv, InTurn, StopOnMain \/ RunStop
  PROVE  /\ items' = <<>> /\ prepared' = <<>> /\ ~Underway'
         /\ UNCHANGED <<originalMediaUrls, owed>>
<1> USE DEF list, original
<1>1. QueueType
  BY DEF TypeInv
<1>2. ASSUME NEW q \in Seq(BreakBlocks), ReleasePlayer(q), caller' = "idle",
             ~HasBlock(q, "load")
      PROVE  items' = <<>> /\ prepared' = <<>> /\ ~Underway'
  <2>1. /\ queue' = BlocksForgotten(q) /\ items' = <<>>
        /\ adItemsAttached' = FALSE /\ prepared' = <<>>
    BY <1>2, ReleaseType
  <2>2. ~HasBlock(queue', "load")
    BY <1>2, <2>1, ForgottenCalls DEF Calls
  <2> QED BY <1>2, <2>1, <2>2 DEF Underway
<1>3. CASE StopOnMain
  <2>1. /\ LoadsCancelled(queue) \in Seq(BreakBlocks)
        /\ ~HasBlock(LoadsCancelled(queue), "load")
    BY <1>1, CancelCalls
  <2> QED BY <1>2, <1>3, <2>1 DEF StopOnMain
<1>4. CASE RunStop
  <2>1. Body("stop") /\ ReleasePlayer(Tail(queue)) /\ caller' = "idle"
        /\ UNCHANGED <<originalMediaUrls, owed>>
    BY <1>4 DEF RunStop
  <2>2. /\ Tail(queue) \in Seq(BreakBlocks) /\ HasBlock(queue, "stop")
        /\ HasBlock(Tail(queue), "load") => HasBlock(queue, "load")
    BY <1>1, <2>1, TailCalls DEF Calls
  <2>3. ~HasBlock(queue, "load")
    BY <2>2 DEF CallInv, LoadMatches, StopMatches
  <2> QED BY <1>2, <2>1, <2>2, <2>3
<1> QED BY <1>3, <1>4

LEMMA ReturnsToNone ==
  ASSUME TypeInv, CallInv, ReturnOnMain \/ RunReturn
  PROVE  Return /\ ~adItemsAttached /\ ~Underway'
<1>1. CASE ReturnOnMain
  <2>1. /\ caller = "idle" /\ stopped /\ Return
        /\ UNCHANGED <<queue, adItemsAttached, caller, prepared>>
    BY <1>1 DEF ReturnOnMain, Return
  <2> QED BY <2>1 DEF CallInv, LoadMatches, StopMatches, Underway
<1>2. CASE RunReturn
  <2>1. /\ Body("return") /\ queue' = Tail(queue) /\ Return
        /\ UNCHANGED <<adItemsAttached, caller, prepared>>
    BY <1>2 DEF RunReturn, Return
  <2>2. /\ HasBlock(queue, "return")
        /\ \A c \in Calls : HasBlock(Tail(queue), c) => HasBlock(queue, c)
    BY <2>1, TailCalls DEF TypeInv
  <2> QED BY <2>1, <2>2 DEF CallInv, LoadMatches, StopMatches, Underway, Calls
<1> QED BY <1>1, <1>2

LEMMA CoreQueue ==
  ASSUME TypeInv, TypeInv', CallInv, CallInv', QueueInv, InTurn, Core
  PROVE  QueueInv'
<1> USE DEF list, original, watch, avPlayer, pod, phase
<1>1. External
  BY DEF InTurn
<1>2. ASSUME NEW urls \in Breaks, Load(urls) PROVE QueueInv'
  <2>1. /\ ~Returning
        /\ UNCHANGED <<items, stale, rate, prepared, adItemsAttached, mediaUrls, adCount,
                       originalMediaUrls>>
    BY <1>1, <1>2 DEF Load, InTurn
  <2>2. stale = {} /\ \A n \in 1..Len(items) : items[n].url \in Contents /\ items[n].ret = 0
    <3>1. ASSUME NEW n \in 1..Len(items) PROVE items[n].url \in Contents /\ items[n].ret = 0
      <4>1. n \in DOMAIN items /\ items[n].url \in Urls /\ items[n].ret \in Nat
        BY ItemsFields, RateFacts
      <4>2. items[n].url \notin Ads /\ ~(items[n].ret > 0)
        BY <2>1, <4>1, Zenon DEF Returning
      <4> QED BY <4>1, <4>2 DEF Urls
    <3> QED BY <2>1, <3>1 DEF Returning
  <2>3. NoneReturns'
    BY <2>1, <2>2 DEF NoneReturns
  <2>4. ~adItemsAttached' /\ prepared' # <<>> =>
          Len(mediaUrls') = adCount' /\ Len(prepared') = adCount'
    BY <2>1 DEF QueueInv, AdsInFront
  <2> QED BY <2>1, <2>2, <2>3, <2>4, QueueOfContent
<1>3. CASE StopOnMain
  <2>1. /\ items' = <<>> /\ prepared' = <<>> /\ ~Underway'
        /\ UNCHANGED originalMediaUrls
    BY <1>3, ReleaseEnds
  <2>2. NoneReturns'
    BY <2>1 DEF NoneReturns
  <2>3. \A n \in 1..Len(items') : items'[n].url \in Contents
    BY <2>1
  <2> QED BY <2>1, <2>2, <2>3, QueueOfContent
<1>4. CASE ReturnOnMain
  BY <1>4, ReturnsToNone, ReturnOfContent
<1>5. CASE PlayNextItem /\ BreakKept
  <2>1. items # <<>> /\ Advance(Tail(items), rate) /\ rate \in {rate, 0}
    BY <1>5 DEF PlayNextItem
  <2> QED BY <1>5, <2>1, QueueAdvances
<1>6. CASE PlayerKept
  BY <1>6, QueueInPlace DEF PlayerKept
<1> QED
  BY <1>2, <1>3, <1>4, <1>5, <1>6, CoreKeepsBreak

LEMMA MainQueue ==
  ASSUME TypeInv, TypeInv', CallInv, CallInv', QueueInv, InTurn, RunMain
  PROVE  QueueInv'
<1> USE DEF list, original, watch, avPlayer, pod, phase
<1>1. QueueType /\ External
  BY DEF TypeInv, InTurn
<1>2. ASSUME NEW kind \in {"cancelled"} \cup AdKinds, Body(kind), queue' = Tail(queue),
             UNCHANGED <<items, stale, rate, prepared, adItemsAttached, mediaUrls, adCount,
                         originalMediaUrls, caller>>
      PROVE  QueueInv'
  <2>1. kind \notin Calls
    BY <1>2 DEF AdKinds, Calls
  <2>2. BreakKept
    BY <1>1, <1>2, <2>1, CallsTail, CallsKeepBreak
  <2> QED BY <1>2, <2>2, QueueInPlace
<1>3. CASE SkipCancelled
  BY <1>2, <1>3 DEF SkipCancelled
<1>4. CASE AdItemFailed \/ AdItemBroken \/ AdItemEnded
  BY <1>2, <1>4 DEF AdItemFailed, AdItemBroken, AdItemEnded, AdEvent, AdKinds
<1>5. CASE RunLoad
  <2> DEFINE urls == Head(queue).urls
  <2>1. /\ Body("load") /\ items' = ItemsForgotten /\ UNCHANGED stale
        /\ mediaUrls' = urls /\ adCount' = Len(urls) /\ prepared' = urls
        /\ originalMediaUrls' = <<>>
    BY <1>1, <1>5 DEF RunLoad, Prepare
  <2> HIDE DEF urls
  <2>2. HasBlock(queue, "load")
    BY <1>1, <2>1, TailCalls
  <2>3. \A n \in 1..Len(items') : /\ n \in 1..Len(items) /\ items'[n].url = items[n].url
                                  /\ items'[n].ret = items[n].ret
    BY <2>1, ForgottenFields
  <2>4. \A n \in 1..Len(items') : items'[n].url \in Contents
    BY <2>2, <2>3 DEF QueueInv, ContentOnly
  <2>5. stale = {} /\ \A n \in 1..Len(items) : items[n].ret = 0
    BY <2>2 DEF QueueInv, NoneReturns, Underway
  <2>6. NoneReturns'
    BY <2>1, <2>3, <2>5 DEF NoneReturns
  <2> QED BY <2>1, <2>4, <2>6, QueueOfContent
<1>6. CASE RunPlay
  <2> DEFINE q == Tail(queue)
  <2>1. Body("play") /\ queue' = q /\ UNCHANGED <<adCount, prepared>>
    BY <1>6 DEF RunPlay
  <2>2. /\ HasBlock(queue, "play")
        /\ \A c \in Calls : HasBlock(q, c) => HasBlock(queue, c)
    BY <1>1, <2>1, TailCalls
  <2> HIDE DEF q
  <2>3. ~adItemsAttached /\ ~HasBlock(queue, "load") /\ ~HasBlock(queue', "load")
    BY <2>1, <2>2 DEF CallInv, LoadMatches, PlayMatches, Calls
  <2>4. \A n \in 1..Len(items) : items[n].url \in Contents
    BY <2>3 DEF QueueInv, ContentOnly
  <2>5. CASE prepared = <<>>
    <3>1. UNCHANGED <<items, stale, rate, mediaUrls, adItemsAttached, originalMediaUrls,
                      caller>>
      BY <1>1, <1>6, <2>3, <2>5 DEF RunPlay
    <3>2. BreakKept
      BY <2>1, <2>2, <2>3, <3>1 DEF BreakKept, Underway, Calls
    <3> QED BY <3>1, <3>2, QueueInPlace
  <2>6. CASE prepared # <<>>
    <3>1. Attach /\ rate' = 1
      BY <1>1, <1>6, <2>3, <2>6 DEF RunPlay, Plays
    <3>2. /\ stale = {} /\ \A n \in 1..Len(items) : items[n].ret = 0
          /\ Len(mediaUrls) = adCount /\ Len(prepared) = adCount
      BY <2>2, <2>3, <2>6 DEF QueueInv, NoneReturns, AdsInFront, Underway
    <3>3. /\ Len(items') = Len(prepared) + Len(originalMediaUrls')
          /\ \A n \in 1..Len(items') :
              /\ n <= Len(prepared) => items'[n].url \in Ads /\ items'[n].ret = 0
              /\ n > Len(prepared) =>
                   /\ n - Len(prepared) \in 1..Len(originalMediaUrls')
                   /\ items'[n].url = originalMediaUrls'[n - Len(prepared)]
                   /\ items'[n].ret = 0
          /\ \/ stale' = stale
             \/ items # <<>> /\ Head(items).ret > 0
          /\ originalMediaUrls' = (IF items = <<>> THEN originalMediaUrls ELSE Displaced)
          /\ mediaUrls' = (IF items = <<>> THEN mediaUrls ELSE mediaUrls \o Displaced)
          /\ adItemsAttached' = TRUE
      BY <3>1, AttachType
    <3>4. stale' = {} /\ \A n \in 1..Len(items') : items'[n].ret = 0
      <4>1. items # <<>> => Head(items) = items[1] /\ 1 \in 1..Len(items)
        BY HeadFields
      <4>2. stale' = stale
        BY <3>2, <3>3, <4>1
      <4> QED BY <3>2, <3>3, <4>2
    <3>5. \A n \in 1..Len(originalMediaUrls') : originalMediaUrls'[n] \in Contents
      <4>1. CASE items = <<>>
        BY <3>3, <4>1 DEF QueueInv, ContentOnly
      <4>2. CASE items # <<>>
        BY <2>4, <3>3, <4>2, DisplacedFields
      <4> QED BY <4>1, <4>2
    <3>6. ContentOnly'
      BY <2>3, <3>3, <3>5 DEF ContentOnly
    <3>7. NoneReturns'
      BY <3>4 DEF NoneReturns
    <3>8. \A n \in 1..Len(items') : items'[n].url \in Ads => n <= Len(prepared)
      <4>1. Len(prepared) \in Nat /\ Len(items') \in Nat
        BY DEF TypeInv, ListType, PlayerType, ShortBreaks
      <4>2. ASSUME NEW n \in 1..Len(items'), n > Len(prepared)
            PROVE  items'[n].url \in Contents
        BY <3>3, <3>5, <4>2
      <4> QED BY <4>1, <4>2, UrlFacts
    <3>9. Len(mediaUrls') - adCount' <= Len(originalMediaUrls')
      <4>1. /\ adCount' = adCount /\ Len(mediaUrls) \in Nat /\ adCount \in Nat
            /\ Len(originalMediaUrls') \in Nat
        BY <2>1 DEF TypeInv, ListType
      <4>2. CASE items = <<>>
        BY <3>2, <3>3, <4>1, <4>2
      <4>3. CASE items # <<>>
        <5>1. mediaUrls \in Seq(Urls) /\ Displaced \in Seq(Urls)
          BY DisplacedFields DEF TypeInv, ListType
        <5>2. Len(mediaUrls \o Displaced) = Len(mediaUrls) + Len(Displaced)
          BY <5>1, BehindFacts
        <5> QED BY <3>2, <3>3, <4>1, <4>3, <5>1, <5>2
      <4> QED BY <4>2, <4>3
    <3>10. AdsInFront'
      <4>1. /\ Len(prepared) \in Nat /\ Len(originalMediaUrls') \in Nat
            /\ Len(mediaUrls') \in Nat /\ adCount' \in Nat
        BY DEF TypeInv, ListType, ShortBreaks
      <4>2. ASSUME NEW m \in 1..Len(items'), NEW n \in 1..Len(items'), m < n,
                   items'[n].url \in Ads
            PROVE  items'[m].url \in Ads
        <5>1. m <= Len(prepared)
          BY <3>8, <4>1, <4>2
        <5> QED BY <3>3, <5>1
      <4>3. ASSUME NEW n \in 1..Len(items'), items'[n].url \in Ads
            PROVE  Len(items') - n >= Len(mediaUrls') - adCount'
        <5>1. n <= Len(prepared)
          BY <3>8, <4>3
        <5> QED BY <3>3, <3>9, <4>1, <5>1
      <4> QED BY <3>3, <4>2, <4>3 DEF AdsInFront
    <3>11. NormalSpeed'
      BY <3>1 DEF NormalSpeed
    <3> QED BY <3>6, <3>7, <3>10, <3>11 DEF QueueInv
  <2> QED BY <2>5, <2>6
<1>7. CASE RunStop
  <2>1. /\ items' = <<>> /\ prepared' = <<>> /\ ~Underway'
        /\ UNCHANGED originalMediaUrls
    BY <1>7, ReleaseEnds
  <2>2. NoneReturns'
    BY <2>1 DEF NoneReturns
  <2>3. \A n \in 1..Len(items') : items'[n].url \in Contents
    BY <2>1
  <2> QED BY <2>1, <2>2, <2>3, QueueOfContent
<1>8. CASE RunReturn
  BY <1>8, ReturnsToNone, ReturnOfContent
<1> QED
  BY <1>3, <1>4, <1>5, <1>6, <1>7, <1>8 DEF RunMain

LEMMA PlayerStepQueue ==
  ASSUME TypeInv, TypeInv', CallInv, QueueInv, InTurn,
         \/ AVQueuePlayer \/ \E rebuild \in BOOLEAN : DiagnosticsSwap(rebuild)
         \/ \E n \in DOMAIN Playlist, r \in Rates : AppPlays(n, r)
  PROVE  QueueInv'
<1> USE DEF list, original, avPlayer
<1>1. UNCHANGED <<prepared, adItemsAttached, mediaUrls, adCount, originalMediaUrls, caller>>
  BY PlayerStepBlocks DEF Idle
<1>2. CallsSame
  BY PlayerStepBlocks, CallsUnchanged, CallsDispatch DEF TypeInv
<1>3. BreakKept /\ (Underway' <=> Underway)
  <2>1. BreakKept
    BY <1>1, <1>2, CallsKeepBreak
  <2> QED BY <1>1, <1>2, <2>1 DEF CallsSame, Calls, Underway
<1>4. ASSUME NEW n \in DOMAIN items, ItemReady(n) \/ ItemFails(n) PROVE QueueInv'
  <2>1. /\ Len(items') = Len(items)
        /\ \A m \in 1..Len(items) : /\ items'[m].url = items[m].url
                                    /\ items'[m].ret \in {items[m].ret, 0}
    BY <1>4, ReadyFields, FailsFields
  <2>2. stale' = stale /\ rate' = rate
    BY <1>4 DEF ItemReady, ItemFails
  <2> QED BY <1>3, <2>1, <2>2, QueueInPlace
<1>5. CASE ItemFailedToPlayToEnd
  <2>1. UNCHANGED <<items, stale, rate>>
    BY <1>5 DEF ItemFailedToPlayToEnd
  <2> QED BY <1>3, <2>1, QueueInPlace
<1>6. CASE ItemEnds \/ FailedItemDropped
  <2>1. PICK r \in {rate, 0} : items # <<>> /\ Advance(Tail(items), r)
    BY <1>6 DEF ItemEnds, FailedItemDropped, Playing
  <2> QED BY <1>3, <2>1, QueueAdvances
<1>7. CASE ReturnSeekCompletes
  <2>1. /\ items # <<>> /\ items[1].ret > 0 /\ Len(items') = Len(items)
        /\ \A m \in 1..Len(items) : items'[m].url = items[m].url
    BY <1>7, SeekFields
  <2>2. 1 \in 1..Len(items)
    BY <2>1, HeadFields
  <2>3. ~Underway
    BY <2>1, <2>2 DEF QueueInv, NoneReturns
  <2>4. \A m \in 1..Len(items') : items'[m].url \in Contents
    BY <2>1, <2>3 DEF Underway, QueueInv, ContentOnly
  <2>5. NoneReturns'
    BY <1>3, <2>3 DEF NoneReturns
  <2>6. ~adItemsAttached' /\ prepared' # <<>> =>
          Len(mediaUrls') = adCount' /\ Len(prepared') = adCount'
    BY <1>1 DEF QueueInv, AdsInFront
  <2> QED BY <1>1, <2>4, <2>5, <2>6, QueueOfContent
<1>8. ASSUME NEW r \in stale, StaleSeekCompletes(r) PROVE QueueInv'
  <2>1. items' = items
    BY <1>8 DEF StaleSeekCompletes
  <2>2. ~Underway
    BY <1>8 DEF QueueInv, NoneReturns
  <2>3. \A m \in 1..Len(items') : items'[m].url \in Contents
    BY <2>1, <2>2 DEF Underway, QueueInv, ContentOnly
  <2>4. NoneReturns'
    BY <1>3, <2>2 DEF NoneReturns
  <2>5. ~adItemsAttached' /\ prepared' # <<>> =>
          Len(mediaUrls') = adCount' /\ Len(prepared') = adCount'
    BY <1>1 DEF QueueInv, AdsInFront
  <2> QED BY <1>1, <2>3, <2>4, <2>5, QueueOfContent
<1>9. ASSUME NEW rebuild \in BOOLEAN, DiagnosticsSwap(rebuild) PROVE QueueInv'
  <2> DEFINE i == NewItem(Head(items).url, 0)
             q == <<i>> \o Tail(items)
  <2>1. /\ items # <<>> /\ Head(items).url \in Ads /\ ~rebuild /\ Advance(q, rate)
    BY <1>9 DEF DiagnosticsSwap, InTurn
  <2>2. i \in BreakItems /\ i.url = Head(items).url /\ i.ret = 0
    BY <2>1, HeadFields, NewItemFields, BoundAssumption
  <2> HIDE DEF i
  <2>3. items' = <<i>> \o Tail(items) /\ items' = q
    BY <2>1 DEF Advance, SetItems
  <2>4. /\ q \in Seq(BreakItems) /\ Len(q) = Len(items) /\ q[1] = i
        /\ \A n \in 1..Len(items) : n # 1 => q[n] = items[n]
    <3>1. /\ Len(items') = Len(items) /\ items'[1] = i
          /\ \A n \in 1..Len(items) : n # 1 => items'[n] = items[n]
      BY <2>1, <2>2, <2>3, SwappedFields
    <3> QED BY <2>3, <3>1 DEF TypeInv, PlayerType
  <2> HIDE DEF q
  <2>5. /\ items' = q
        /\ rate' = rate \/ AtOriginal(q)
        /\ stale' = stale \/ Head(items).ret > 0
    <3>1. rate \in Rates
      BY DEF TypeInv, PlayerType
    <3> QED BY <2>1, <2>4, <3>1, AdvanceType
  <2>6. Head(items) = items[1] /\ 1 \in 1..Len(items) /\ Len(items) \in Nat
    BY <2>1, HeadFields
  <2>7. \A n \in 1..Len(items) :
          items'[n].url = items[n].url /\ items'[n].ret \in {items[n].ret, 0}
    BY <2>2, <2>4, <2>5, <2>6
  <2>8. stale' = stale
    <3>1. adItemsAttached
      BY <2>1, <2>6, UrlFacts DEF QueueInv, ContentOnly
    <3>2. items[1].ret = 0
      BY <2>6, <3>1 DEF QueueInv, NoneReturns, Underway
    <3> QED BY <2>5, <2>6, <3>2
  <2>9. rate' = rate
    <3>1. Len(items) - 1 >= Len(mediaUrls) - adCount
      BY <2>1, <2>6 DEF QueueInv, AdsInFront
    <3>2. Len(mediaUrls) \in Nat /\ adCount \in Nat
      BY DEF TypeInv, ListType
    <3>3. ~AtOriginal(q)
      BY <2>4, <2>6, <3>1, <3>2 DEF AtOriginal
    <3> QED BY <2>5, <3>3
  <2> QED BY <1>3, <2>4, <2>5, <2>7, <2>8, <2>9, QueueInPlace
<1>10. ASSUME NEW n \in DOMAIN Playlist, NEW r \in Rates, AppPlays(n, r) PROVE QueueInv'
  <2>1. SetItems(AppItems(n)) /\ items' = AppItems(n)
    BY <1>10 DEF AppPlays, SetItems
  <2>2. /\ AppItems(n) \in Seq(BreakItems) /\ Len(AppItems(n)) = n
        /\ \A m \in 1..n : AppItems(n)[m].url \in Contents /\ AppItems(n)[m].ret = 0
    BY AppItemsFields, Zenon
  <2>3. \A m \in 1..Len(items') : items'[m].url \in Contents /\ items'[m].ret = 0
    BY <2>1, <2>2
  <2>4. stale' = stale \/ (items # <<>> /\ Head(items).ret > 0)
    BY <2>1 DEF SetItems
  <2>5. items # <<>> => Head(items) = items[1] /\ 1 \in 1..Len(items)
    BY HeadFields
  <2>6. Underway => stale' = {}
    BY <2>4, <2>5 DEF QueueInv, NoneReturns
  <2>7. NoneReturns'
    BY <1>3, <2>3, <2>6 DEF NoneReturns
  <2>8. ~adItemsAttached' /\ prepared' # <<>> =>
          Len(mediaUrls') = adCount' /\ Len(prepared') = adCount'
    BY <1>1 DEF QueueInv, AdsInFront
  <2> QED BY <1>1, <2>3, <2>7, <2>8, QueueOfContent
<1> QED
  BY <1>4, <1>5, <1>6, <1>7, <1>8, <1>9, <1>10 DEF AVQueuePlayer

LEMMA StepQueue ==
  TypeInv /\ CallInv /\ QueueInv /\ InTurn /\ [Next]_vars => QueueInv'
<1> SUFFICES ASSUME TypeInv, CallInv, QueueInv, InTurn, [Next]_vars PROVE QueueInv'
  OBVIOUS
<1>1. TypeInv' /\ CallInv'
  BY StepType, StepCall
<1>2. CASE Next
  BY <1>1, <1>2, CoreQueue, MainQueue, PlayerStepQueue DEF Next
<1>3. CASE UNCHANGED vars
  BY <1>3 DEF vars, list, original, avPlayer, QueueInv, ContentOnly, NoneReturns, AdsInFront,
              NormalSpeed, Underway
<1> QED BY <1>2, <1>3

\* The inductive invariant of breaks that come one by one: each method of the core has at
\* most one block that waits, in the order of the calls, and while a break is under way its
\* ads are in front of the content, at normal speed.
THEOREM QueueHolds == InTurn => (Spec => [](TypeInv /\ CallInv /\ QueueInv))
<1> SUFFICES ASSUME InTurn PROVE Spec => [](TypeInv /\ CallInv /\ QueueInv)
  OBVIOUS
<1>1. Init => TypeInv /\ CallInv /\ QueueInv
  BY InitType, InitCall, InitQueue
<1>2. TypeInv /\ CallInv /\ QueueInv /\ [Next]_vars => (TypeInv /\ CallInv /\ QueueInv)'
  BY StepType, StepCall, StepQueue
<1> QED
  BY <1>1, <1>2, PTL DEF Spec

\* A stop() that took effect is the end of the ads, whichever blocks of the break were
\* still waiting, and at every place of the break where the core may give it.
THEOREM StopCorrect == InTurn => (Spec => []StopIsFinal)
<1>1. TypeInv /\ CallInv /\ QueueInv => StopIsFinal
  <2> SUFFICES ASSUME TypeInv, CallInv, QueueInv, stopped
               PROVE  ~isAdPlaying /\ ~(items # <<>> /\ Head(items).url \in Ads)
    BY DEF StopIsFinal
  <2>1. ~isAdPlaying /\ ~adItemsAttached
    BY DEF CallInv, StopMatches
  <2>2. ASSUME items # <<>> PROVE Head(items).url \in Contents
    BY <2>1, <2>2, HeadFields DEF QueueInv, ContentOnly
  <2> QED BY <2>1, <2>2, UrlFacts
<1> QED
  BY <1>1, QueueHolds, PTL

\* No ad plays at the app's speed, however the queue gets from one to the next.
THEOREM SpeedCorrect == InTurn => (Spec => []AdsAtNormalSpeed)
<1>1. TypeInv /\ CallInv /\ QueueInv => AdsAtNormalSpeed
  <2> SUFFICES ASSUME TypeInv, QueueInv, items # <<>>, Head(items).url \in Ads
               PROVE  rate \in {0, 1}
    BY DEF AdsAtNormalSpeed
  <2>1. items[1].url \in Ads
    BY HeadFields
  <2> QED BY <2>1 DEF QueueInv, NormalSpeed
<1> QED
  BY <1>1, QueueHolds, PTL

------------------------------------------------------------------------------
\* The content that a break interrupts.  A skip that comes after the last ad would
\* take it from the queue: the core skips none.
InOrder == InTurn /\ "late" \notin Cases

Waits == \E n \in 1..Len(items) : items[n].url = owed.url

ContentWaits ==
  owed # None =>
    /\ (items = <<>> /\ ~Underway) \/ Waits
    /\ originalMediaUrls # <<>> =>
         \E n \in 1..Len(originalMediaUrls) : originalMediaUrls[n] = owed.url

LEMMA WaitsInPlace ==
  ASSUME TypeInv', ContentWaits, BreakKept, owed' \in {owed, None}, Len(items') = Len(items),
         \A n \in 1..Len(items) : items'[n].url = items[n].url
  PROVE  ContentWaits'
<1>1. items' \in Seq(BreakItems)
  BY DEF TypeInv, PlayerType
<1>2. CASE owed' = None
  BY <1>2 DEF ContentWaits
<1>3. CASE owed' = owed /\ owed # None
  <2>1. Waits => Waits'
    BY <1>3 DEF Waits
  <2>2. CASE Waits
    BY <1>3, <2>1, <2>2 DEF ContentWaits, BreakKept
  <2>3. CASE items = <<>> /\ ~Underway /\ ~Waits
    <3>1. items' = <<>>
      BY <1>1, <2>3
    <3> QED BY <1>3, <2>3, <3>1 DEF ContentWaits, BreakKept
  <2> QED BY <1>3, <2>2, <2>3 DEF ContentWaits
<1> QED BY <1>2, <1>3

\* The queue goes on from an item that is not the interrupted content.
LEMMA WaitsTail ==
  ASSUME TypeInv, ContentWaits, BreakKept, items # <<>>, items' = Tail(items),
         owed' = None \/ (owed' = owed /\ (owed # None => Head(items).url # owed.url))
  PROVE  ContentWaits'
<1>1. CASE owed' = None
  BY <1>1 DEF ContentWaits
<1>2. CASE owed' = owed /\ owed # None /\ Head(items).url # owed.url
  <2>1. PICK n \in 1..Len(items) : items[n].url = owed.url
    BY <1>2 DEF ContentWaits, Waits
  <2>2. /\ Head(items) = items[1] /\ Len(items) \in Nat
        /\ Len(Tail(items)) = Len(items) - 1
        /\ \A k \in 1..Len(Tail(items)) : Tail(items)[k] = items[k + 1]
    BY HeadFields
  <2>3. n - 1 \in 1..Len(Tail(items)) /\ (n - 1) + 1 = n
    BY <1>2, <2>1, <2>2
  <2>4. Waits'
    BY <1>2, <2>1, <2>2, <2>3 DEF Waits
  <2> QED BY <1>2, <2>4 DEF ContentWaits, BreakKept
<1> QED BY <1>1, <1>2

\* The displaced items come back.
LEMMA WaitsReturned ==
  ASSUME TypeInv, ContentWaits, Return, ~Underway'
  PROVE  ContentWaits'
<1>1. UNCHANGED owed
  BY DEF Return
<1>2. \/ originalMediaUrls # <<>> /\ originalMediaUrls' = <<>> /\ items' = Returned
      \/ UNCHANGED <<items, originalMediaUrls>>
  BY ReturnType
<1>3. CASE originalMediaUrls # <<>> /\ originalMediaUrls' = <<>> /\ items' = Returned
  <2>1. /\ Len(Returned) = Len(originalMediaUrls)
        /\ \A n \in 1..Len(originalMediaUrls) : Returned[n].url = originalMediaUrls[n]
    BY ReturnedFields
  <2> QED BY <1>1, <1>3, <2>1 DEF ContentWaits, Waits
<1>4. CASE UNCHANGED <<items, originalMediaUrls>>
  BY <1>1, <1>4 DEF ContentWaits, Waits
<1> QED BY <1>2, <1>3, <1>4

LEMMA CoreWaits ==
  ASSUME TypeInv, TypeInv', CallInv, ContentWaits, InOrder, Core
  PROVE  ContentWaits'
<1> USE DEF list, original, watch, avPlayer, pod, phase
<1>1. InTurn /\ External
  BY DEF InOrder, InTurn
<1>2. ASSUME NEW urls \in Breaks, Load(urls) PROVE ContentWaits'
  <2>1. ~Returning /\ UNCHANGED <<items, owed, originalMediaUrls>>
    BY <1>1, <1>2 DEF Load, InTurn
  <2>2. ~(items = <<>> /\ owed # None)
    BY <2>1, Zenon DEF Returning
  <2> QED BY <2>1, <2>2 DEF ContentWaits, Waits
<1>3. CASE StopOnMain
  <2>1. items' = <<>> /\ ~Underway' /\ UNCHANGED <<originalMediaUrls, owed>>
    BY <1>1, <1>3, ReleaseEnds
  <2> QED BY <2>1 DEF ContentWaits
<1>4. CASE ReturnOnMain
  BY <1>4, ReturnsToNone, WaitsReturned
<1>5. CASE PlayNextItem /\ BreakKept
  <2>1. /\ items # <<>> /\ items' = Tail(items) /\ UNCHANGED owed
        /\ Head(items).url \notin Contents
    BY <1>5 DEF PlayNextItem, Advance, SetItems, InOrder
  <2>2. owed # None => owed.url \in Contents
    BY DEF TypeInv, ListType
  <2> QED BY <1>5, <2>1, <2>2, WaitsTail
<1>6. CASE PlayerKept
  BY <1>6, WaitsInPlace DEF PlayerKept
<1> QED
  BY <1>1, <1>2, <1>3, <1>4, <1>5, <1>6, CoreKeepsBreak

LEMMA MainWaits ==
  ASSUME TypeInv, TypeInv', CallInv, ContentWaits, InOrder, RunMain
  PROVE  ContentWaits'
<1> USE DEF list, original, watch, avPlayer, pod, phase
<1>1. InTurn /\ External /\ QueueType
  BY DEF InOrder, InTurn, TypeInv
<1>2. ASSUME NEW kind \in {"cancelled"} \cup AdKinds, Body(kind), queue' = Tail(queue),
             UNCHANGED <<items, owed, prepared, adItemsAttached, mediaUrls, adCount,
                         originalMediaUrls, caller>>
      PROVE  ContentWaits'
  <2>1. kind \notin Calls
    BY <1>2 DEF AdKinds, Calls
  <2>2. BreakKept
    BY <1>1, <1>2, <2>1, CallsTail, CallsKeepBreak
  <2> QED BY <1>2, <2>2, WaitsInPlace
<1>3. CASE SkipCancelled
  BY <1>2, <1>3 DEF SkipCancelled
<1>4. CASE AdItemFailed \/ AdItemBroken \/ AdItemEnded
  BY <1>2, <1>4 DEF AdItemFailed, AdItemBroken, AdItemEnded, AdEvent, AdKinds
<1>5. CASE RunLoad
  <2>1. /\ Body("load") /\ items' = ItemsForgotten /\ originalMediaUrls' = <<>>
        /\ UNCHANGED owed
    BY <1>1, <1>5 DEF RunLoad, Prepare
  <2>2. HasBlock(queue, "load")
    BY <1>1, <2>1, TailCalls
  <2>3. /\ Len(ItemsForgotten) = Len(items)
        /\ \A n \in 1..Len(items) : ItemsForgotten[n].url = items[n].url
    BY ForgottenFields
  <2>4. owed # None => Waits
    BY <2>2 DEF ContentWaits, Underway
  <2> QED BY <2>1, <2>3, <2>4 DEF ContentWaits, Waits
<1>6. CASE RunPlay
  <2>1. Body("play") /\ queue' = Tail(queue) /\ UNCHANGED <<adCount, prepared>>
    BY <1>6 DEF RunPlay
  <2>2. /\ HasBlock(queue, "play")
        /\ \A c \in Calls : HasBlock(Tail(queue), c) => HasBlock(queue, c)
    BY <1>1, <2>1, TailCalls
  <2>3. ~adItemsAttached
    BY <2>2 DEF CallInv, PlayMatches
  <2>4. CASE prepared = <<>>
    <3>1. UNCHANGED <<items, owed, mediaUrls, adItemsAttached, originalMediaUrls, caller>>
      BY <1>1, <1>6, <2>3, <2>4 DEF RunPlay
    <3>2. BreakKept
      BY <2>1, <2>2, <3>1 DEF BreakKept, Underway, Calls
    <3> QED BY <3>1, <3>2, WaitsInPlace
  <2>5. CASE prepared # <<>>
    <3>1. Attach
      BY <1>1, <1>6, <2>3, <2>5 DEF RunPlay
    <3>2. /\ items' = AdItems(prepared) \o PreSeek(originalMediaUrls', originalPosition')
          /\ originalMediaUrls' = (IF items = <<>> THEN originalMediaUrls ELSE Displaced)
          /\ owed' = owed \/ (items # <<>> /\ owed'.url = Head(items).url)
      BY <3>1 DEF Attach, SetItems
    <3>3. owed # None => Waits
      BY <2>2, <2>5 DEF ContentWaits, Underway
    <3>4. owed' # None =>
            /\ items # <<>>
            /\ \E n \in 1..Len(items) : items[n].url = owed'.url
      <4>1. CASE owed' = owed
        BY <3>3, <4>1, ItemsFields DEF Waits
      <4>2. CASE items # <<>> /\ owed'.url = Head(items).url
        BY <4>2, HeadFields
      <4> QED BY <3>2, <4>1, <4>2
    <3>5. owed' # None =>
            \E n \in 1..Len(originalMediaUrls') : originalMediaUrls'[n] = owed'.url
      BY <3>2, <3>4, DisplacedFields
    <3>6. owed' # None => Waits'
      <4> DEFINE a == AdItems(prepared)
                 b == PreSeek(originalMediaUrls', originalPosition')
      <4>1. prepared \in ShortBreaks /\ originalMediaUrls' \in Seq(Urls)
            /\ originalPosition' \in Positions
        BY DEF TypeInv, ListType
      <4>2. /\ a \in Seq(BreakItems)
            /\ b \in Seq(BreakItems) /\ Len(b) = Len(originalMediaUrls')
            /\ \A n \in 1..Len(originalMediaUrls') : b[n].url = originalMediaUrls'[n]
        BY <4>1, AdItemsFields, PreSeekFields
      <4>3. items' = a \o b
        BY <3>2
      <4> HIDE DEF a, b
      <4>4. ASSUME NEW n \in 1..Len(b)
            PROVE  Len(a) + n \in 1..Len(items') /\ items'[Len(a) + n] = b[n]
        <5>1. a \in Seq(BreakItems) /\ b \in Seq(BreakItems)
          BY <4>2
        <5>2. /\ Len(a \o b) = Len(a) + Len(b)
              /\ \A m \in 1..Len(a \o b) :
                   m > Len(a) => m - Len(a) \in 1..Len(b) /\ (a \o b)[m] = b[m - Len(a)]
          <6>1. /\ a \o b \in Seq(BreakItems) /\ Len(a \o b) = Len(a) + Len(b)
                /\ \A m \in 1..Len(a \o b) :
                     /\ m <= Len(a) => m \in 1..Len(a) /\ (a \o b)[m] = a[m]
                     /\ m > Len(a) => m - Len(a) \in 1..Len(b)
                                      /\ (a \o b)[m] = b[m - Len(a)]
            BY <5>1, BehindFacts, ZenonT(30)
          <6> QED BY <6>1
        <5>3. Len(a) \in Nat /\ Len(b) \in Nat
          BY <5>1
        <5>4. Len(a) + n \in 1..Len(a \o b) /\ Len(a) + n > Len(a) /\ (Len(a) + n) - Len(a) = n
          BY <5>2, <5>3
        <5> QED BY <4>3, <5>2, <5>4
      <4> QED BY <3>5, <4>2, <4>4 DEF Waits
    <3> QED BY <3>5, <3>6 DEF ContentWaits
  <2> QED BY <2>4, <2>5
<1>7. CASE RunStop
  <2>1. items' = <<>> /\ ~Underway' /\ UNCHANGED <<originalMediaUrls, owed>>
    BY <1>1, <1>7, ReleaseEnds
  <2> QED BY <2>1 DEF ContentWaits
<1>8. CASE RunReturn
  BY <1>8, ReturnsToNone, WaitsReturned
<1> QED
  BY <1>3, <1>4, <1>5, <1>6, <1>7, <1>8 DEF RunMain

LEMMA PlayerStepWaits ==
  ASSUME TypeInv, TypeInv', ContentWaits, InOrder,
         \/ AVQueuePlayer \/ \E rebuild \in BOOLEAN : DiagnosticsSwap(rebuild)
         \/ \E n \in DOMAIN Playlist, r \in Rates : AppPlays(n, r)
  PROVE  ContentWaits'
<1> USE DEF list, original, avPlayer
<1>1. UNCHANGED <<prepared, adItemsAttached, mediaUrls, adCount, originalMediaUrls, caller>>
  BY PlayerStepBlocks DEF Idle
<1>2. BreakKept
  BY <1>1, PlayerStepBlocks, CallsUnchanged, CallsDispatch, CallsKeepBreak DEF TypeInv
<1>3. ASSUME NEW n \in DOMAIN items, ItemReady(n) \/ ItemFails(n) PROVE ContentWaits'
  <2>1. /\ Len(items') = Len(items)
        /\ \A m \in 1..Len(items) : items'[m].url = items[m].url
    BY <1>3, ReadyFields, FailsFields
  <2>2. owed' = owed
    BY <1>3 DEF ItemReady, ItemFails
  <2> QED BY <1>2, <2>1, <2>2, WaitsInPlace
<1>4. CASE ItemFailedToPlayToEnd \/ \E r \in stale : StaleSeekCompletes(r)
  <2>1. UNCHANGED <<items, owed>>
    BY <1>4 DEF ItemFailedToPlayToEnd, StaleSeekCompletes
  <2> QED BY <1>2, <2>1, WaitsInPlace
<1>5. CASE ItemEnds \/ FailedItemDropped
  <2>1. /\ items # <<>> /\ items' = Tail(items)
        /\ owed' = None \/ (owed' = owed /\ (owed # None => Head(items).url # owed.url))
    BY <1>5 DEF ItemEnds, FailedItemDropped, Playing, Advance, SetItems
  <2> QED BY <1>2, <2>1, WaitsTail
<1>6. CASE ReturnSeekCompletes
  <2>1. /\ Len(items') = Len(items)
        /\ \A m \in 1..Len(items) : items'[m].url = items[m].url
    BY <1>6, SeekFields
  <2>2. owed' = owed
    BY <1>6 DEF ReturnSeekCompletes
  <2> QED BY <1>2, <2>1, <2>2, WaitsInPlace
<1>7. ASSUME NEW rebuild \in BOOLEAN, DiagnosticsSwap(rebuild) PROVE ContentWaits'
  <2> DEFINE i == NewItem(Head(items).url, 0)
  <2>1. items # <<>> /\ items' = <<i>> \o Tail(items) /\ owed' = owed
    BY <1>7 DEF DiagnosticsSwap, InOrder, InTurn, Advance, SetItems
  <2>2. i \in BreakItems /\ i.url = items[1].url
    BY <2>1, HeadFields, NewItemFields, BoundAssumption
  <2> HIDE DEF i
  <2>3. /\ Len(items') = Len(items) /\ items'[1] = i
        /\ \A n \in 1..Len(items) : n # 1 => items'[n] = items[n]
    BY <2>1, <2>2, SwappedFields
  <2>4. \A n \in 1..Len(items) : items'[n].url = items[n].url
    BY <2>2, <2>3
  <2> QED BY <1>2, <2>1, <2>3, <2>4, WaitsInPlace
<1>8. ASSUME NEW n \in DOMAIN Playlist, NEW r \in Rates, AppPlays(n, r) PROVE ContentWaits'
  BY <1>8 DEF AppPlays, ContentWaits
<1> QED
  BY <1>3, <1>4, <1>5, <1>6, <1>7, <1>8 DEF AVQueuePlayer

LEMMA StepWaits ==
  TypeInv /\ CallInv /\ ContentWaits /\ InOrder /\ [Next]_vars => ContentWaits'
<1> SUFFICES ASSUME TypeInv, CallInv, ContentWaits, InOrder, [Next]_vars
             PROVE  ContentWaits'
  OBVIOUS
<1>1. TypeInv'
  BY StepType
<1>2. CASE Next
  BY <1>1, <1>2, CoreWaits, MainWaits, PlayerStepWaits DEF Next
<1>3. CASE UNCHANGED vars
  BY <1>3 DEF vars, list, original, avPlayer, ContentWaits, Waits, Underway
<1> QED BY <1>2, <1>3

\* As long as ads are in the app's player the content they interrupted waits behind
\* them, whichever ads fail, end, are skipped or are swapped.
THEOREM ContentCorrect == InOrder => (Spec => []ContentBehindAds)
<1> SUFFICES ASSUME InOrder PROVE Spec => []ContentBehindAds
  OBVIOUS
<1>1. Init => TypeInv /\ CallInv /\ ContentWaits
  <2>1. Init => ContentWaits
    BY DEF Init, ContentWaits
  <2> QED BY <2>1, InitType, InitCall
<1>2. TypeInv /\ CallInv /\ ContentWaits /\ [Next]_vars
        => (TypeInv /\ CallInv /\ ContentWaits)'
  BY StepType, StepCall, StepWaits DEF InOrder
<1>3. TypeInv /\ CallInv /\ ContentWaits => ContentBehindAds
  BY ItemsFields DEF ContentBehindAds, ContentWaits, Waits, Underway
<1> QED
  BY <1>1, <1>2, <1>3, PTL DEF Spec

------------------------------------------------------------------------------
\* The failures of the ads.

\* Failures, ends and their blocks are of the break that is attached.
FailedAreLoaded ==
  /\ ~adItemsAttached => failedAdItems = {}
  /\ ~adItemsAttached /\ prepared # <<>> => ended = {}
  /\ adItemsAttached => Len(prepared) <= Len(mediaUrls)
  /\ \A n \in 1..Len(items) : items[n].ad <= Len(prepared)
  /\ \A k \in 1..Len(queue) : queue[k].kind \in AdKinds => queue[k].ad <= Len(prepared)
  /\ \A ad \in failedAdItems : ad <= Len(prepared)

EndWaits(ad) == \E k \in 1..Len(queue) : queue[k].kind = "ended" /\ queue[k].ad = ad

EndsAreCounted ==
  adItemsAttached => \A ad \in ended : ad <= endedAdItemCount \/ EndWaits(ad)

\* The failure of an ad is told before its end, or that of an ad after it.
FailedBeforeEnd ==
  \A k \in 1..Len(queue) : queue[k].kind = "failed" =>
    /\ queue[k].ad > endedAdItemCount
    /\ \A j \in 1..Len(queue) : j < k /\ queue[j].kind = "ended" => queue[j].ad < queue[k].ad

\* A failed ad whose turn has come is reported, at the latest by the block that waits.
FailuresReported ==
  adItemsAttached =>
    \A ad \in failedAdItems : ad = 1 \/ ad - 1 \in ended =>
      adItemFailureReported \/ EndWaits(ad - 1)

FailureInv == FailedAreLoaded /\ EndsAreCounted /\ FailedBeforeEnd /\ FailuresReported

LEMMA InitFailure == Init => FailureInv
<1> SUFFICES ASSUME Init PROVE FailureInv
  OBVIOUS
<1>1. /\ queue = <<>> /\ prepared = <<>> /\ ~adItemsAttached /\ failedAdItems = {}
  BY DEF Init
<1>2. \A n \in 1..Len(items) : items[n].ad = 0
  <2>1. items = <<>> \/ \E n \in DOMAIN Playlist : items = AppItems(n)
    BY DEF Init
  <2>2. ASSUME NEW n \in DOMAIN Playlist, items = AppItems(n)
        PROVE  \A m \in 1..Len(items) : items[m].ad = 0
    BY <2>2, AppItemsFields
  <2> QED BY <2>1, <2>2
<1> QED
  BY <1>1, <1>2 DEF FailureInv, FailedAreLoaded, EndsAreCounted, FailedBeforeEnd,
                    FailuresReported

\* The blocks about ads stay, or come forward one place; the first of them may be run,
\* if it is not that of an end.
AdBlocksKept ==
  \E s \in {0, 1} :
    /\ \A k \in 1..Len(queue') : queue'[k].kind \in AdKinds =>
         k + s \in 1..Len(queue) /\ queue'[k] = queue[k + s]
    /\ \A k \in 1..Len(queue) : queue[k].kind = "ended" =>
         k - s \in 1..Len(queue') /\ queue'[k - s] = queue[k]

LEMMA AdBlocksSame == ASSUME QueueType, UNCHANGED queue PROVE AdBlocksKept
<1>1. Len(queue) \in Nat
  BY DEF QueueType
<1> QED
  BY <1>1 DEF AdBlocksKept

LEMMA AdBlocksTail ==
  ASSUME QueueType, NEW kind, kind # "ended", Body(kind), queue' = Tail(queue)
  PROVE  AdBlocksKept
<1>1. /\ queue[1].kind # "ended" /\ Len(queue') = Len(queue) - 1 /\ Len(queue) \in Nat
      /\ \A n \in 1..Len(queue') : n + 1 \in 1..Len(queue) /\ queue'[n] = queue[n + 1]
  BY BodyFacts DEF QueueType
<1>2. ASSUME NEW k \in 1..Len(queue), queue[k].kind = "ended"
      PROVE  k - 1 \in 1..Len(queue') /\ queue'[k - 1] = queue[k]
  <2>1. k # 1
    BY <1>1, <1>2
  <2>2. k - 1 \in 1..Len(queue') /\ (k - 1) + 1 = k
    BY <1>1, <2>1
  <2> QED BY <1>1, <2>2
<1> QED
  BY <1>1, <1>2 DEF AdBlocksKept

LEMMA AdBlocksAppend ==
  ASSUME QueueType, NEW q \in Seq(BreakBlocks), NEW b \in BreakBlocks, b.kind \notin AdKinds,
         q = queue \/ q = LoadsCancelled(queue), queue' = Append(q, b)
  PROVE  AdBlocksKept
<1>1. /\ Len(q) = Len(queue)
      /\ \A n \in 1..Len(q) : q[n].kind \in AdKinds \/ queue[n].kind = "ended"
                                => q[n] = queue[n]
  BY CancelType DEF AdKinds
<1>2. /\ Len(queue') = Len(q) + 1 /\ Len(q) \in Nat /\ queue'[Len(q) + 1] = b
      /\ \A n \in 1..Len(q) : n \in 1..Len(queue') /\ queue'[n] = q[n]
  OBVIOUS
<1>3. ASSUME NEW k \in 1..Len(queue'), queue'[k].kind \in AdKinds
      PROVE  k \in 1..Len(queue) /\ queue'[k] = queue[k]
  <2>1. k \in 1..Len(q)
    BY <1>2, <1>3
  <2> QED BY <1>1, <1>2, <1>3, <2>1
<1>4. ASSUME NEW k \in 1..Len(queue), queue[k].kind = "ended"
      PROVE  k \in 1..Len(queue') /\ queue'[k] = queue[k]
  BY <1>1, <1>2, <1>4
<1> QED
  BY <1>1, <1>2, <1>3, <1>4 DEF AdBlocksKept

AdsKept ==
  \A n \in 1..Len(items') :
    items'[n].ad = 0 \/ \E m \in 1..Len(items) : items[m].ad = items'[n].ad

LEMMA FailureKept ==
  ASSUME TypeInv, FailureInv, AdBlocksKept, AdsKept,
         adItemFailureReported => adItemFailureReported',
         UNCHANGED <<prepared, adItemsAttached, mediaUrls, failedAdItems, endedAdItemCount,
                     ended>>
  PROVE  FailureInv'
<1>1. Len(prepared) \in Nat /\ Len(queue) \in Nat
  BY DEF TypeInv, ListType, QueueType, ShortBreaks
<1>2. PICK s \in {0, 1} :
        /\ \A k \in 1..Len(queue') : queue'[k].kind \in AdKinds =>
             k + s \in 1..Len(queue) /\ queue'[k] = queue[k + s]
        /\ \A k \in 1..Len(queue) : queue[k].kind = "ended" =>
             k - s \in 1..Len(queue') /\ queue'[k - s] = queue[k]
  BY DEF AdBlocksKept
<1>3. \A ad : EndWaits(ad) => EndWaits(ad)'
  BY <1>2 DEF EndWaits
<1>4. FailedAreLoaded'
  <2>1. \A n \in 1..Len(items') : items'[n].ad <= Len(prepared)
    BY <1>1 DEF FailureInv, FailedAreLoaded, AdsKept
  <2>2. \A k \in 1..Len(queue') : queue'[k].kind \in AdKinds => queue'[k].ad <= Len(prepared)
    BY <1>2 DEF FailureInv, FailedAreLoaded
  <2> QED BY <2>1, <2>2 DEF FailureInv, FailedAreLoaded
<1>5. EndsAreCounted'
  BY <1>3 DEF FailureInv, EndsAreCounted
<1>6. FailedBeforeEnd'
  <2> SUFFICES ASSUME NEW k \in 1..Len(queue'), queue'[k].kind = "failed"
               PROVE  /\ queue'[k].ad > endedAdItemCount'
                      /\ \A j \in 1..Len(queue') : j < k /\ queue'[j].kind = "ended" =>
                           queue'[j].ad < queue'[k].ad
    BY DEF FailedBeforeEnd
  <2>1. k + s \in 1..Len(queue) /\ queue'[k] = queue[k + s]
    BY <1>2 DEF AdKinds
  <2>2. ASSUME NEW j \in 1..Len(queue'), j < k, queue'[j].kind = "ended"
        PROVE  queue'[j].ad < queue'[k].ad
    <3>1. j + s \in 1..Len(queue) /\ queue'[j] = queue[j + s] /\ j + s < k + s
      BY <1>2, <2>2 DEF AdKinds
    <3> QED BY <2>1, <2>2, <3>1 DEF FailureInv, FailedBeforeEnd
  <2> QED BY <2>1, <2>2 DEF FailureInv, FailedBeforeEnd
<1>7. FailuresReported'
  BY <1>3 DEF FailureInv, FailuresReported
<1> QED
  BY <1>4, <1>5, <1>6, <1>7 DEF FailureInv

\* No ad is left: neither in the player nor in a block.
LEMMA FailureGone ==
  ASSUME TypeInv', ~adItemsAttached', failedAdItems' = {}, prepared' = <<>> \/ ended' = {},
         \A n \in 1..Len(items') : items'[n].ad = 0,
         \A k \in 1..Len(queue') : queue'[k].kind \notin AdKinds
  PROVE  FailureInv'
<1>1. Len(prepared') \in Nat
  BY DEF TypeInv, ListType, ShortBreaks
<1>2. FailedAreLoaded'
  BY <1>1 DEF FailedAreLoaded
<1>3. EndsAreCounted' /\ FailedBeforeEnd' /\ FailuresReported'
  BY DEF EndsAreCounted, FailedBeforeEnd, FailuresReported, AdKinds
<1> QED BY <1>2, <1>3 DEF FailureInv

LEMMA FailureReleased ==
  ASSUME TypeInv, TypeInv', NEW q \in Seq(BreakBlocks), ReleasePlayer(q)
  PROVE  FailureInv'
<1>1. /\ items' = <<>> /\ prepared' = <<>> /\ queue' = BlocksForgotten(q)
      /\ adItemsAttached' = FALSE /\ failedAdItems' = {}
  BY ReleaseType
<1>2. \A k \in 1..Len(queue') : queue'[k].kind \notin AdKinds
  BY <1>1, ForgottenType DEF AdKinds
<1> QED
  BY <1>1, <1>2, FailureGone

LEMMA AdsReturned == ASSUME TypeInv, Return PROVE AdsKept
<1>1. items' = Returned \/ items' = items
  BY ReturnType
<1>2. CASE items' = Returned
  BY <1>2, ReturnedFields DEF AdsKept
<1> QED BY <1>1, <1>2 DEF AdsKept

LEMMA AdsTail == ASSUME TypeInv, items # <<>>, items' = Tail(items) PROVE AdsKept
BY HeadFields DEF AdsKept

LEMMA CoreFailure ==
  ASSUME TypeInv, TypeInv', FailureInv, InTurn, Core
  PROVE  FailureInv'
<1> USE DEF list, original, watch, avPlayer, pod, phase
<1>1. QueueType /\ queue \in Seq(BreakBlocks)
  BY DEF TypeInv, QueueType
<1>2. LoadsCancelled(queue) \in Seq(BreakBlocks)
  BY <1>1, CancelType
<1>3. CASE StopOnMain
  BY <1>2, <1>3, FailureReleased DEF StopOnMain
<1>4. ASSUME AdBlocksKept, AdsKept, UNCHANGED <<list, prepared, adItemsAttached, watch, pod>>
      PROVE  FailureInv'
  BY <1>4, FailureKept
<1>5. ASSUME NEW b \in BreakBlocks, b.kind \notin AdKinds,
             NEW q \in {queue, LoadsCancelled(queue)}, queue' = Append(q, b),
             UNCHANGED <<items, list, prepared, adItemsAttached, watch, pod>>
      PROVE  FailureInv'
  <2>1. q \in Seq(BreakBlocks)
    BY <1>1, <1>2
  <2>2. AdBlocksKept
    BY <1>1, <1>5, <2>1, AdBlocksAppend
  <2>3. AdsKept
    BY <1>5 DEF AdsKept
  <2> QED BY <1>4, <1>5, <2>2, <2>3
<1>6. \A k \in {"play", "stop", "return"} :
        [kind |-> k] \in BreakBlocks /\ [kind |-> k].kind = k /\ k \notin AdKinds
  BY BlockTypes DEF AdKinds
<1>7. ASSUME NEW urls \in Breaks, Load(urls) PROVE FailureInv'
  <2> DEFINE b == [kind |-> "load", urls |-> urls]
  <2>1. b \in BreakBlocks /\ b.kind \notin AdKinds
    BY BreakTypes, BlockTypes DEF AdKinds
  <2>2. /\ queue' = Append(LoadsCancelled(queue), b)
        /\ UNCHANGED <<items, list, prepared, adItemsAttached, watch, pod>>
    BY <1>7 DEF Load
  <2> HIDE DEF b
  <2> QED BY <1>5, <2>1, <2>2
<1>8. CASE Play \/ Stop \/ ReturnToContent
  <2>1. PICK k \in {"play", "stop", "return"}, q \in {queue, LoadsCancelled(queue)} :
          queue' = Append(q, [kind |-> k])
    BY <1>8 DEF Play, Stop, ReturnToContent, Dispatch
  <2>2. UNCHANGED <<items, list, prepared, adItemsAttached, watch, pod>>
    BY <1>8 DEF Play, Stop, ReturnToContent
  <2> DEFINE b == [kind |-> k]
  <2>3. b \in BreakBlocks /\ b.kind \notin AdKinds /\ queue' = Append(q, b)
    BY <1>6, <2>1
  <2> HIDE DEF b
  <2> QED BY <1>5, <2>2, <2>3
<1>9. CASE StopIgnored \/ PlayedOut \/ \E r \in {0, 1} : PauseResume(r)
  <2>1. UNCHANGED <<queue, items, list, prepared, adItemsAttached, watch, pod>>
    BY <1>9 DEF StopIgnored, PlayedOut, PauseResume
  <2>2. AdBlocksKept /\ AdsKept
    BY <1>1, <2>1, AdBlocksSame DEF AdsKept
  <2> QED BY <1>4, <2>1, <2>2
<1>10. CASE ReturnOnMain
  <2>1. Return /\ UNCHANGED <<queue, list, prepared, adItemsAttached, watch, pod>>
    BY <1>10 DEF ReturnOnMain, Return
  <2>2. AdBlocksKept /\ AdsKept
    BY <1>1, <2>1, AdBlocksSame, AdsReturned
  <2> QED BY <1>4, <2>1, <2>2
<1>11. ASSUME NEW u \in Ads, EnqueueNextItem(u) \/ RemoveNextItem(u) PROVE FailureInv'
  BY <1>11 DEF EnqueueNextItem, RemoveNextItem, InTurn
<1>12. CASE PlayNextItem
  <2>1. /\ items # <<>> /\ items' = Tail(items)
        /\ UNCHANGED <<queue, list, prepared, adItemsAttached, watch, ended>>
    BY <1>12 DEF PlayNextItem, Advance, SetItems
  <2>2. AdBlocksKept /\ AdsKept
    BY <1>1, <2>1, AdBlocksSame, AdsTail
  <2> QED BY <2>1, <2>2, FailureKept
<1> QED
  BY <1>3, <1>7, <1>8, <1>9, <1>10, <1>11, <1>12 DEF Core

LEMMA MainFailure ==
  ASSUME TypeInv, TypeInv', TurnInv, CallInv, QueueInv, FailureInv, InTurn, RunMain
  PROVE  FailureInv'
<1> USE DEF list, original, watch, avPlayer, pod, phase
<1>1. QueueType /\ External
  BY DEF TypeInv, InTurn
<1>2. CASE SkipCancelled \/ RunReturn
  <2>1. PICK kind \in {"cancelled", "return"} : Body(kind) /\ queue' = Tail(queue)
    BY <1>2 DEF SkipCancelled, RunReturn
  <2>2. /\ UNCHANGED <<list, prepared, adItemsAttached, watch, pod>>
        /\ UNCHANGED items \/ Return
    BY <1>2 DEF SkipCancelled, RunReturn, Return
  <2>3. AdBlocksKept
    BY <1>1, <2>1, AdBlocksTail
  <2>4. AdsKept
    BY <2>2, AdsReturned DEF AdsKept
  <2> QED BY <2>2, <2>3, <2>4, FailureKept
<1>3. CASE RunLoad
  <2>1. /\ Body("load") /\ queue' = BlocksForgotten(Tail(queue)) /\ items' = ItemsForgotten
        /\ adItemsAttached' = FALSE /\ failedAdItems' = {} /\ ended' = {}
    BY <1>1, <1>3 DEF RunLoad, Prepare
  <2>2. Tail(queue) \in Seq(BreakBlocks)
    BY <1>1, <2>1, BodyFacts
  <2>3. \A k \in 1..Len(queue') : queue'[k].kind \notin AdKinds
    <3> DEFINE q == Tail(queue)
    <3>1. q \in Seq(BreakBlocks) /\ queue' = BlocksForgotten(q)
      BY <2>1, <2>2
    <3> HIDE DEF q
    <3> QED BY <3>1, ForgottenType DEF AdKinds
  <2>4. \A n \in 1..Len(items') : items'[n].ad = 0
    BY <2>1, ForgottenFields
  <2> QED BY <2>1, <2>3, <2>4, FailureGone
<1>4. CASE RunStop
  <2>1. Tail(queue) \in Seq(BreakBlocks) /\ ReleasePlayer(Tail(queue))
    BY <1>1, <1>4, BodyFacts DEF RunStop
  <2> QED BY <2>1, FailureReleased
<1>5. CASE RunPlay
  <2>1. /\ Body("play") /\ queue' = Tail(queue)
        /\ UNCHANGED <<adCount, prepared, failedAdItems, endedAdItemCount, ended>>
    BY <1>5 DEF RunPlay
  <2>2. ~adItemsAttached
    BY <1>1, <2>1, TailCalls DEF CallInv, PlayMatches
  <2>3. CASE prepared = <<>>
    <3>1. UNCHANGED <<items, mediaUrls, adItemsAttached, adItemFailureReported>>
      BY <1>1, <1>5, <2>2, <2>3 DEF RunPlay, NoReport
    <3>2. AdBlocksKept /\ AdsKept
      BY <1>1, <2>1, <3>1, AdBlocksTail DEF AdsKept
    <3> QED BY <2>1, <3>1, <3>2, FailureKept
  <2>4. CASE prepared # <<>>
    <3>1. Attach
      BY <1>1, <1>5, <2>2, <2>4 DEF RunPlay
    <3>2. /\ \A n \in 1..Len(items') : items'[n].ad <= Len(prepared)
          /\ mediaUrls' = (IF items = <<>> THEN mediaUrls ELSE mediaUrls \o Displaced)
          /\ adItemsAttached' = TRUE
      <4>1. /\ mediaUrls' = (IF items = <<>> THEN mediaUrls ELSE mediaUrls \o Displaced)
            /\ adItemsAttached' = TRUE
            /\ \A n \in 1..Len(items') :
                 /\ n <= Len(prepared) => items'[n].ad = n
                 /\ n > Len(prepared) => items'[n].ad = 0
        BY <3>1, AttachType
      <4>2. Len(prepared) \in Nat
        BY DEF TypeInv, ListType, ShortBreaks
      <4>3. ASSUME NEW n \in 1..Len(items') PROVE items'[n].ad <= Len(prepared)
        BY <4>1, <4>2
      <4> QED BY <4>1, <4>3
    <3>3. failedAdItems' = {} /\ ended' = {} /\ Len(prepared') = Len(mediaUrls)
      BY <2>1, <2>2, <2>4 DEF FailureInv, FailedAreLoaded, QueueInv, AdsInFront
    <3>4. Len(mediaUrls') >= Len(mediaUrls)
      <4>1. mediaUrls \in Seq(Urls) /\ Displaced \in Seq(Urls)
        BY DisplacedFields DEF TypeInv, ListType
      <4>2. Len(mediaUrls \o Displaced) = Len(mediaUrls) + Len(Displaced)
        BY <4>1, BehindFacts
      <4>3. Len(mediaUrls) \in Nat /\ Len(Displaced) \in Nat
        BY <4>1
      <4> QED BY <3>2, <4>2, <4>3
    <3>5. \A k \in 1..Len(queue') : queue'[k].kind \notin AdKinds
      <4>1. \A k \in 1..Len(queue) : queue[k].kind \notin AdKinds
        BY <1>1, <2>2 DEF TurnInv, NotBegun
      <4> QED BY <1>1, <2>1, <4>1, BodyFacts
    <3>6. FailedAreLoaded'
      BY <2>1, <3>2, <3>3, <3>4, <3>5 DEF FailedAreLoaded
    <3>7. EndsAreCounted' /\ FailedBeforeEnd' /\ FailuresReported'
      BY <3>3, <3>5 DEF EndsAreCounted, FailedBeforeEnd, FailuresReported, AdKinds
    <3> QED BY <3>6, <3>7 DEF FailureInv
  <2> QED BY <2>3, <2>4
<1>6. ASSUME NEW kind \in AdKinds, Body(kind) PROVE adItemsAttached
  BY <1>1, <1>6, BodyFacts DEF TurnInv, NotBegun
<1>7. ASSUME NEW ad \in Nat, Report(ad), ad <= Len(prepared), adItemsAttached
      PROVE  adItemFailureReported'
  <2>1. isAdPlaying /\ Len(prepared) <= Len(mediaUrls)
    BY <1>7 DEF CallInv, PlayMatches, FailureInv, FailedAreLoaded
  <2>2. Len(prepared) \in Nat /\ Len(mediaUrls) \in Nat /\ adItemFailureReported \in BOOLEAN
    BY DEF TypeInv, ListType, FlagType, ShortBreaks
  <2> QED BY <1>7, <2>1, <2>2 DEF Report
<1>8. ASSUME NEW ad, Report(ad) \/ NoReport
      PROVE  adItemFailureReported => adItemFailureReported'
  BY <1>8 DEF Report, NoReport
<1>9. CASE AdItemBroken
  <2>1. /\ Body("broken") /\ queue' = Tail(queue)
        /\ Report(Head(queue).ad) \/ NoReport
        /\ UNCHANGED <<items, mediaUrls, prepared, adItemsAttached, failedAdItems,
                       endedAdItemCount, ended>>
    BY <1>9 DEF AdItemBroken, AdEvent
  <2>2. AdBlocksKept /\ AdsKept
    BY <1>1, <2>1, AdBlocksTail DEF AdsKept
  <2> QED BY <1>8, <2>1, <2>2, FailureKept
<1>10. CASE AdItemFailed
  <2> DEFINE ad == Head(queue).ad
  <2>1. /\ Body("failed") /\ queue' = Tail(queue)
        /\ failedAdItems' = failedAdItems \cup {ad}
        /\ IF Turn(ad) THEN Report(ad) ELSE NoReport
        /\ UNCHANGED <<items, mediaUrls, prepared, adItemsAttached, endedAdItemCount, ended>>
    BY <1>10 DEF AdItemFailed, AdEvent
  <2>2. /\ ad \in 1..MaxAds /\ 1 \in 1..Len(queue)
        /\ Head(queue) = queue[1] /\ queue[1].kind = "failed"
        /\ Len(queue') = Len(queue) - 1 /\ Len(queue) \in Nat
        /\ \A n \in 1..Len(queue') : n + 1 \in 1..Len(queue) /\ queue'[n] = queue[n + 1]
    BY <1>1, <2>1, BodyFacts DEF AdKinds, QueueType
  <2>3. ad <= Len(prepared) /\ ad > endedAdItemCount /\ adItemsAttached
    BY <1>6, <2>1, <2>2 DEF FailureInv, FailedAreLoaded, FailedBeforeEnd, AdKinds
  <2>4. adItemFailureReported => adItemFailureReported'
    BY <1>8, <2>1
  <2> HIDE DEF ad
  <2>5. ASSUME NEW e, EndWaits(e) PROVE EndWaits(e)'
    <3>1. PICK k \in 1..Len(queue) : queue[k].kind = "ended" /\ queue[k].ad = e
      BY <2>5 DEF EndWaits
    <3>2. k - 1 \in 1..Len(queue') /\ (k - 1) + 1 = k
      BY <2>2, <3>1
    <3> QED BY <2>2, <3>1, <3>2 DEF EndWaits
  <2>6. FailedAreLoaded'
    BY <2>1, <2>2, <2>3 DEF FailureInv, FailedAreLoaded
  <2>7. EndsAreCounted'
    BY <2>1, <2>5 DEF FailureInv, EndsAreCounted
  <2>8. FailedBeforeEnd'
    BY <2>1, <2>2 DEF FailureInv, FailedBeforeEnd
  <2>9. FailuresReported'
    <3> SUFFICES ASSUME NEW f \in failedAdItems', f = 1 \/ f - 1 \in ended
                 PROVE  adItemFailureReported' \/ EndWaits(f - 1)'
      BY <2>1 DEF FailuresReported
    <3>1. CASE f \in failedAdItems
      BY <2>3, <2>4, <2>5, <3>1 DEF FailureInv, FailuresReported
    <3>2. CASE f = ad /\ Turn(ad)
      BY <1>7, <2>1, <2>2, <2>3, <3>2
    <3>3. CASE f = ad /\ ~Turn(ad)
      <4>1. endedAdItemCount \in Nat /\ ended \subseteq 1..MaxAds
        BY DEF TypeInv, WatchType
      <4>2. ad > endedAdItemCount /\ endedAdItemCount # ad - 1
        BY <2>3, <3>3 DEF Turn
      <4>3. ~(ad - 1 <= endedAdItemCount) /\ f # 1
        BY <2>2, <3>3, <4>1, <4>2
      <4>4. EndWaits(ad - 1)
        BY <2>3, <3>3, <4>3 DEF FailureInv, EndsAreCounted
      <4> QED BY <2>5, <3>3, <4>4
    <3> QED BY <2>1, <3>1, <3>2, <3>3
  <2> QED BY <2>6, <2>7, <2>8, <2>9 DEF FailureInv
<1>11. CASE AdItemEnded
  <2> DEFINE ad == Head(queue).ad
  <2>1. /\ Body("ended") /\ queue' = Tail(queue)
        /\ endedAdItemCount' = (IF endedAdItemCount > ad THEN endedAdItemCount ELSE ad)
        /\ IF ad + 1 \in failedAdItems THEN Report(ad + 1) ELSE NoReport
        /\ UNCHANGED <<items, mediaUrls, prepared, adItemsAttached, failedAdItems, ended>>
    BY <1>11 DEF AdItemEnded, AdEvent
  <2>2. /\ ad \in 1..MaxAds /\ 1 \in 1..Len(queue)
        /\ Head(queue) = queue[1] /\ queue[1].kind = "ended"
        /\ Len(queue') = Len(queue) - 1 /\ Len(queue) \in Nat
        /\ \A n \in 1..Len(queue') : n + 1 \in 1..Len(queue) /\ queue'[n] = queue[n + 1]
    BY <1>1, <2>1, BodyFacts DEF AdKinds, QueueType
  <2>3. adItemsAttached
    BY <1>6, <2>1 DEF AdKinds
  <2>4. adItemFailureReported => adItemFailureReported'
    BY <1>8, <2>1
  <2>5. queue[1].ad = ad
    BY <2>2
  <2> HIDE DEF ad
  <2>6. endedAdItemCount \in Nat /\ ended \subseteq 1..MaxAds /\ failedAdItems \subseteq 1..MaxAds
    BY DEF TypeInv, WatchType
  <2>7. ASSUME NEW e, EndWaits(e), e # ad PROVE EndWaits(e)'
    <3>1. PICK k \in 1..Len(queue) : queue[k].kind = "ended" /\ queue[k].ad = e
      BY <2>7 DEF EndWaits
    <3>2. k - 1 \in 1..Len(queue') /\ (k - 1) + 1 = k
      BY <2>2, <2>5, <2>7, <3>1
    <3> QED BY <2>2, <3>1, <3>2 DEF EndWaits
  <2>8. FailedAreLoaded'
    BY <2>1, <2>2 DEF FailureInv, FailedAreLoaded
  <2>9. EndsAreCounted'
    <3> SUFFICES ASSUME NEW e \in ended PROVE e <= endedAdItemCount' \/ EndWaits(e)'
      BY <2>1 DEF EndsAreCounted
    <3>1. e <= endedAdItemCount \/ EndWaits(e)
      BY <2>3 DEF FailureInv, EndsAreCounted
    <3>2. e \in 1..MaxAds
      BY <2>6
    <3>3. CASE e <= endedAdItemCount \/ e = ad
      BY <2>1, <2>2, <2>6, <3>2, <3>3
    <3>4. CASE EndWaits(e) /\ e # ad
      BY <2>7, <3>4
    <3> QED BY <3>1, <3>3, <3>4
  <2>10. FailedBeforeEnd'
    <3> SUFFICES ASSUME NEW k \in 1..Len(queue'), queue'[k].kind = "failed"
                 PROVE  /\ queue'[k].ad > endedAdItemCount'
                        /\ \A j \in 1..Len(queue') : j < k /\ queue'[j].kind = "ended" =>
                             queue'[j].ad < queue'[k].ad
      BY DEF FailedBeforeEnd
    <3>1. k + 1 \in 1..Len(queue) /\ queue'[k] = queue[k + 1] /\ 1 < k + 1
      BY <2>2
    <3>2. queue[k + 1].ad > endedAdItemCount /\ ad < queue[k + 1].ad
      BY <2>2, <2>5, <3>1 DEF FailureInv, FailedBeforeEnd
    <3>3. queue'[k].ad > endedAdItemCount'
      BY <2>1, <3>1, <3>2
    <3>4. ASSUME NEW j \in 1..Len(queue'), j < k, queue'[j].kind = "ended"
          PROVE  queue'[j].ad < queue'[k].ad
      <4>1. j + 1 \in 1..Len(queue) /\ queue'[j] = queue[j + 1] /\ j + 1 < k + 1
        BY <2>2, <3>4
      <4> QED BY <3>1, <3>4, <4>1 DEF FailureInv, FailedBeforeEnd
    <3> QED BY <3>3, <3>4
  <2>11. FailuresReported'
    <3> SUFFICES ASSUME NEW f \in failedAdItems, f = 1 \/ f - 1 \in ended
                 PROVE  adItemFailureReported' \/ EndWaits(f - 1)'
      BY <2>1 DEF FailuresReported
    <3>1. f \in 1..MaxAds /\ f <= Len(prepared)
      BY <2>6 DEF FailureInv, FailedAreLoaded
    <3>2. adItemFailureReported \/ EndWaits(f - 1)
      BY <2>3 DEF FailureInv, FailuresReported
    <3>3. CASE f = ad + 1
      <4>1. Report(f) /\ f \in Nat
        BY <2>1, <2>2, <3>1, <3>3
      <4> QED BY <1>7, <2>3, <3>1, <4>1
    <3>4. CASE f # ad + 1
      <4>1. f - 1 # ad
        BY <2>2, <3>1, <3>4
      <4> QED BY <2>4, <2>7, <3>2, <4>1
    <3> QED BY <3>3, <3>4
  <2> QED BY <2>8, <2>9, <2>10, <2>11 DEF FailureInv
<1> QED
  BY <1>2, <1>3, <1>4, <1>5, <1>9, <1>10, <1>11 DEF RunMain

\* A block about an ad that is in the queue, behind the others.
LEMMA FailureDispatched ==
  ASSUME TypeInv, TurnInv, FailureInv, InTurn,
         NEW kind \in AdKinds, NEW ad \in 1..MaxAds,
         \E m \in 1..Len(items) : items[m].ad = ad,
         Dispatch([kind |-> kind, ad |-> ad]),
         ended' = IF kind = "ended" THEN ended \cup {ad} ELSE ended,
         AdsKept,
         UNCHANGED <<prepared, adItemsAttached, mediaUrls, failedAdItems, endedAdItemCount,
                     adItemFailureReported>>
  PROVE  FailureInv'
<1> DEFINE b == [kind |-> kind, ad |-> ad]
<1>1. PICK m \in 1..Len(items) : items[m].ad = ad /\ items[m].ad > 0
  OBVIOUS
<1>2. adItemsAttached
  BY <1>1 DEF InTurn, TurnInv, NotBegun
<1>3. /\ ad <= Len(prepared) /\ ad > endedAdItemCount
      /\ \A k \in 1..Len(queue) : queue[k].kind = "ended" => ad > queue[k].ad
  BY <1>1 DEF FailureInv, FailedAreLoaded, TurnInv, AfterEnded
<1>4. b \in BreakBlocks /\ b.kind = kind /\ b.ad = ad /\ Dispatch(b) /\ QueueType
  BY BlockTypes DEF TypeInv
<1> HIDE DEF b
<1>5. /\ Len(queue') = Len(queue) + 1 /\ Len(queue) \in Nat /\ queue'[Len(queue) + 1] = b
      /\ \A n \in 1..Len(queue) : n \in 1..Len(queue') /\ queue'[n] = queue[n]
  BY <1>4, DispatchType DEF QueueType
<1>6. \A k \in 1..Len(queue') : k \in 1..Len(queue) \/ (k = Len(queue) + 1 /\ queue'[k] = b)
  BY <1>5
<1>7. \A e : EndWaits(e) => EndWaits(e)'
  BY <1>5 DEF EndWaits
<1>8. kind = "ended" => EndWaits(ad)'
  <2>1. Len(queue) + 1 \in 1..Len(queue')
    BY <1>5
  <2> QED BY <1>4, <1>5, <2>1 DEF EndWaits
<1>9. FailedAreLoaded'
  <2>1. Len(prepared) \in Nat
    BY DEF TypeInv, ListType, ShortBreaks
  <2>2. \A n \in 1..Len(items') : items'[n].ad <= Len(prepared')
    BY <2>1 DEF FailureInv, FailedAreLoaded, AdsKept
  <2>3. \A k \in 1..Len(queue') : queue'[k].kind \in AdKinds => queue'[k].ad <= Len(prepared')
    BY <1>3, <1>4, <1>5, <1>6 DEF FailureInv, FailedAreLoaded
  <2> QED BY <1>2, <2>2, <2>3 DEF FailureInv, FailedAreLoaded
<1>10. EndsAreCounted'
  BY <1>2, <1>7, <1>8 DEF FailureInv, EndsAreCounted
<1>11. FailedBeforeEnd'
  <2> SUFFICES ASSUME NEW k \in 1..Len(queue'), queue'[k].kind = "failed"
               PROVE  /\ queue'[k].ad > endedAdItemCount
                      /\ \A j \in 1..Len(queue') : j < k /\ queue'[j].kind = "ended" =>
                           queue'[j].ad < queue'[k].ad
    BY DEF FailedBeforeEnd
  <2>1. \A j \in 1..Len(queue') : j < k => j \in 1..Len(queue) /\ queue'[j] = queue[j]
    BY <1>5
  <2>2. CASE k \in 1..Len(queue)
    BY <1>5, <2>1, <2>2 DEF FailureInv, FailedBeforeEnd
  <2>3. CASE k = Len(queue) + 1 /\ queue'[k] = b
    <3>1. \A j \in 1..Len(queue) : queue[j].kind = "ended" => queue[j].ad < ad
      <4>1. \A j \in 1..Len(queue) : queue[j].kind = "ended" => queue[j].ad \in Nat
        BY <1>4, BlockFields DEF QueueType, AdKinds
      <4> QED BY <1>3, <4>1
    <3> QED BY <1>3, <1>4, <2>1, <2>3, <3>1
  <2> QED BY <1>6, <2>2, <2>3
<1>12. FailuresReported'
  <2> SUFFICES ASSUME NEW f \in failedAdItems, f = 1 \/ f - 1 \in ended'
               PROVE  adItemFailureReported \/ EndWaits(f - 1)'
    BY DEF FailuresReported
  <2>1. CASE f = 1 \/ f - 1 \in ended
    BY <1>2, <1>7, <2>1 DEF FailureInv, FailuresReported
  <2>2. CASE kind = "ended" /\ f - 1 = ad
    BY <1>8, <2>2
  <2> QED BY <2>1, <2>2
<1> QED
  BY <1>9, <1>10, <1>11, <1>12 DEF FailureInv

LEMMA PlayerStepFailure ==
  ASSUME TypeInv, TypeInv', TurnInv, FailureInv, InTurn,
         \/ AVQueuePlayer \/ \E rebuild \in BOOLEAN : DiagnosticsSwap(rebuild)
         \/ \E n \in DOMAIN Playlist, r \in Rates : AppPlays(n, r)
  PROVE  FailureInv'
<1> USE DEF list, original, watch, avPlayer
<1>1. UNCHANGED <<prepared, adItemsAttached, mediaUrls, failedAdItems, endedAdItemCount,
                  adItemFailureReported>>
  BY PlayerStepBlocks DEF Idle
<1>2. QueueType
  BY DEF TypeInv
<1>3. ASSUME UNCHANGED <<queue, ended>>, AdsKept PROVE FailureInv'
  BY <1>1, <1>2, <1>3, AdBlocksSame, FailureKept
<1>4. ASSUME NEW n \in DOMAIN items, ItemReady(n) PROVE FailureInv'
  <2>1. AdsKept
    BY <1>4, ReadyFields DEF AdsKept
  <2>2. UNCHANGED <<queue, ended>>
    BY <1>4 DEF ItemReady
  <2> QED BY <1>3, <2>1, <2>2
<1>5. ASSUME NEW n \in DOMAIN items, ItemFails(n) PROVE FailureInv'
  <2>1. /\ n \in 1..Len(items)
        /\ IF items[n].ad > 0
             THEN /\ Dispatch([kind |-> "failed", ad |-> items[n].ad])
                  /\ items[n].ad \in 1..MaxAds
             ELSE UNCHANGED queue
    BY <1>5, FailsFields
  <2>2. AdsKept
    BY <1>5, FailsFields DEF AdsKept
  <2>3. UNCHANGED ended
    BY <1>5 DEF ItemFails
  <2>4. "failed" \in AdKinds /\ "failed" # "ended"
    BY DEF AdKinds
  <2> QED BY <1>1, <1>3, <2>1, <2>2, <2>3, <2>4, FailureDispatched
<1>6. CASE ItemFailedToPlayToEnd
  <2>1. /\ items # <<>> /\ Head(items).ad > 0 /\ UNCHANGED <<items, ended>>
        /\ Dispatch([kind |-> "broken", ad |-> Head(items).ad])
    BY <1>6 DEF ItemFailedToPlayToEnd, Playing
  <2>2. Head(items) = items[1] /\ 1 \in 1..Len(items) /\ items[1].ad \in 1..MaxAds
    BY <2>1, HeadFields, BoundAssumption
  <2>3. AdsKept /\ "broken" \in AdKinds /\ "broken" # "ended"
    BY <2>1 DEF AdsKept, AdKinds
  <2> QED BY <1>1, <2>1, <2>2, <2>3, FailureDispatched
<1>7. CASE ItemEnds
  <2>1. /\ items # <<>> /\ items' = Tail(items)
        /\ IF Head(items).ad > 0 THEN Dispatch([kind |-> "ended", ad |-> Head(items).ad])
                                 ELSE UNCHANGED queue
        /\ ended' = ended \cup ({Head(items).ad} \ {0})
    BY <1>7 DEF ItemEnds, Playing, Advance, SetItems
  <2>2. /\ Head(items) = items[1] /\ 1 \in 1..Len(items)
        /\ items[1].ad \in Nat /\ (items[1].ad > 0 => items[1].ad \in 1..MaxAds)
    BY <2>1, HeadFields, BoundAssumption
  <2>3. AdsKept
    BY <2>1, AdsTail
  <2>4. CASE Head(items).ad > 0
    <3>1. ended' = ended \cup {items[1].ad} /\ "ended" \in AdKinds
      BY <2>1, <2>2, <2>4 DEF AdKinds
    <3> QED BY <1>1, <2>1, <2>2, <2>3, <2>4, <3>1, FailureDispatched
  <2>5. CASE ~(Head(items).ad > 0)
    <3>1. ended' = ended
      BY <2>1, <2>2, <2>5
    <3> QED BY <1>3, <2>1, <2>3, <2>5, <3>1
  <2> QED BY <2>4, <2>5
<1>8. CASE FailedItemDropped
  <2>1. items # <<>> /\ items' = Tail(items) /\ UNCHANGED <<queue, ended>>
    BY <1>8 DEF FailedItemDropped, Advance, SetItems
  <2> QED BY <1>3, <2>1, AdsTail
<1>9. CASE ReturnSeekCompletes
  <2>1. AdsKept
    BY <1>9, SeekFields DEF AdsKept
  <2>2. UNCHANGED <<queue, ended>>
    BY <1>9 DEF ReturnSeekCompletes
  <2> QED BY <1>3, <2>1, <2>2
<1>10. ASSUME NEW r \in stale, StaleSeekCompletes(r) PROVE FailureInv'
  <2>1. UNCHANGED <<items, queue, ended>>
    BY <1>10 DEF StaleSeekCompletes
  <2> QED BY <1>3, <2>1 DEF AdsKept
<1>11. ASSUME NEW rebuild \in BOOLEAN, DiagnosticsSwap(rebuild) PROVE FailureInv'
  <2> DEFINE i == NewItem(Head(items).url, 0)
  <2>1. items # <<>> /\ items' = <<i>> \o Tail(items) /\ UNCHANGED <<queue, ended>>
    BY <1>11 DEF DiagnosticsSwap, InTurn, Advance, SetItems
  <2>2. i \in BreakItems /\ i.ad = 0
    BY <2>1, HeadFields, NewItemFields, BoundAssumption
  <2> HIDE DEF i
  <2>3. AdsKept
    BY <2>1, <2>2, SwappedFields DEF AdsKept
  <2> QED BY <1>3, <2>1, <2>3
<1>12. ASSUME NEW n \in DOMAIN Playlist, NEW r \in Rates, AppPlays(n, r) PROVE FailureInv'
  <2>1. items' = AppItems(n) /\ UNCHANGED <<queue, ended>>
    BY <1>12 DEF AppPlays, SetItems
  <2>2. AdsKept
    BY <2>1, AppItemsFields DEF AdsKept
  <2> QED BY <1>3, <2>1, <2>2
<1> QED
  BY <1>4, <1>5, <1>6, <1>7, <1>8, <1>9, <1>10, <1>11, <1>12 DEF AVQueuePlayer

LEMMA StepFailure ==
  TypeInv /\ TurnInv /\ CallInv /\ QueueInv /\ FailureInv /\ InTurn /\ [Next]_vars
    => FailureInv'
<1> SUFFICES ASSUME TypeInv, TurnInv, CallInv, QueueInv, FailureInv, InTurn, [Next]_vars
             PROVE  FailureInv'
  OBVIOUS
<1>1. TypeInv'
  BY StepType
<1>2. CASE Next
  BY <1>1, <1>2, CoreFailure, MainFailure, PlayerStepFailure DEF Next
<1>3. CASE UNCHANGED vars
  BY <1>3 DEF vars, list, watch, avPlayer, pod, FailureInv, FailedAreLoaded, EndsAreCounted,
              EndWaits, FailedBeforeEnd, FailuresReported
<1> QED BY <1>2, <1>3

\* A failed ad is reported, or another of its break, once the ad before it has ended in
\* its own item, whatever became of the others: the failure, that end and their blocks may
\* come in any order that the player gives.
THEOREM FailureCorrect == InTurn => (Spec => []FailureReportedInTurn)
<1> SUFFICES ASSUME InTurn PROVE Spec => []FailureReportedInTurn
  OBVIOUS
<1>1. Init => TypeInv /\ TurnInv /\ CallInv /\ QueueInv /\ FailureInv
  BY InitType, InitTurn, InitCall, InitQueue, InitFailure
<1>2. TypeInv /\ TurnInv /\ CallInv /\ QueueInv /\ FailureInv /\ [Next]_vars
        => (TypeInv /\ TurnInv /\ CallInv /\ QueueInv /\ FailureInv)'
  BY StepType, StepTurn, StepCall, StepQueue, StepFailure
<1>3. TypeInv /\ FailureInv => FailureReportedInTurn
  <2> SUFFICES ASSUME TypeInv, FailureInv, adItemsAttached, queue = <<>>,
                      NEW ad \in failedAdItems, ad - 1 \in ended \cup {0}
               PROVE  adItemFailureReported
    BY DEF FailureReportedInTurn, FailureReportedOnce
  <2>1. ad \in 1..MaxAds /\ MaxAds \in Nat
    BY BoundAssumption DEF TypeInv, WatchType
  <2>2. ad = 1 \/ ad - 1 \in ended
    BY <2>1
  <2>3. ~EndWaits(ad - 1)
    BY DEF EndWaits
  <2> QED BY <2>2, <2>3 DEF FailureInv, FailuresReported
<1> QED
  BY <1>1, <1>2, <1>3, PTL DEF Spec

------------------------------------------------------------------------------
\* The progress of the ads in a player of the break's own.

LEMMA ProgressShrinks ==
  ASSUME TypeInv, ProgressInRange, Len(items') <= Len(items),
         UNCHANGED <<adItemsAttached, durations>>
  PROVE  ProgressInRange'
<1>1. Len(items) \in Nat /\ durations \in Nat
  BY ItemsFields DEF TypeInv, ListType
<1>2. items' = items' /\ (adItemsAttached => Len(items) <= durations)
  BY DEF ProgressInRange
<1> QED
  BY <1>1, <1>2 DEF ProgressInRange

LEMMA CoreProgress ==
  ASSUME TypeInv, TypeInv', ProgressInRange, ~External, Core
  PROVE  ProgressInRange'
<1> USE DEF list, original, watch, avPlayer, pod, phase
<1>1. /\ Len(items) \in Nat /\ items \in Seq(BreakItems)
      /\ durations \in Nat /\ mediaUrls \in Seq(Urls)
  BY ItemsFields DEF TypeInv, ListType, PlayerType
<1>2. ASSUME UNCHANGED <<items, adItemsAttached, durations>> PROVE ProgressInRange'
  BY <1>2 DEF ProgressInRange
<1>3. CASE \/ \E urls \in Breaks : Load(urls)
           \/ Play \/ StopIgnored \/ Stop \/ ReturnToContent \/ ReturnOnMain
           \/ PlayedOut \/ \E r \in {0, 1} : PauseResume(r)
  BY <1>2, <1>3 DEF Load, Play, StopIgnored, Stop, ReturnToContent, ReturnOnMain, Return,
                    PlayedOut, PauseResume
<1>4. CASE StopOnMain
  BY <1>4 DEF StopOnMain, ReleasePlayer, ProgressInRange
<1>5. CASE PlayNextItem
  <2>1. /\ items # <<>> /\ items' = Tail(items) /\ UNCHANGED <<adItemsAttached, durations>>
    BY <1>5 DEF PlayNextItem, Advance, SetItems
  <2>2. Len(items') <= Len(items)
    BY <1>1, <2>1, HeadFields
  <2> QED BY <2>1, <2>2, ProgressShrinks
<1>6. ASSUME NEW u \in Ads, EnqueueNextItem(u) PROVE ProgressInRange'
  <2>1. /\ items' = Append(items, NewItem(u, 0)) /\ durations' = durations + 1
        /\ UNCHANGED adItemsAttached
    BY <1>6 DEF EnqueueNextItem, SetItems
  <2>2. Len(items') = Len(items) + 1
    BY <1>1, <2>1
  <2> QED BY <1>1, <2>1, <2>2 DEF ProgressInRange
<1>7. ASSUME NEW u \in Ads, RemoveNextItem(u) PROVE ProgressInRange'
  <2> DEFINE k == SelectInSeq(mediaUrls, LAMBDA v : v = u)
  <2>1. k \in 1..Len(mediaUrls) /\ k \in Nat
    <3>1. mediaUrls \in Seq(Urls) /\ u \in Urls /\ Contains(mediaUrls, u)
      BY <1>1, <1>7, UrlFacts DEF RemoveNextItem
    <3>2. k \in 1..Len(mediaUrls)
      BY <3>1, EntryFound
    <3> QED BY <3>1, <3>2
  <2>2. /\ durations' = (IF k <= durations THEN durations - 1 ELSE durations)
        /\ UNCHANGED adItemsAttached
        /\ IF k > Len(items) THEN items' = items
           ELSE IF k = 1 THEN items' = Tail(items) ELSE items' = RemoveAt(items, k)
    BY <1>7 DEF RemoveNextItem, Advance, SetItems
  <2> HIDE DEF k
  <2>3. k <= Len(items) => Len(items') = Len(items) - 1
    <3>1. CASE k = 1 /\ k <= Len(items)
      BY <1>1, <2>2, <3>1
    <3>2. CASE k # 1 /\ k <= Len(items)
      <4>1. k \in 1..Len(items) /\ items' = RemoveAt(items, k)
        BY <1>1, <2>1, <2>2, <3>2
      <4>2. Len(RemoveAt(items, k)) = Len(items) - 1
        <5>1. items \in Seq(BreakItems)
          BY <1>1
        <5> QED BY <4>1, <5>1, RemoveAtFacts, ZenonT(30)
      <4> QED BY <4>1, <4>2
    <3> QED BY <3>1, <3>2
  <2> SUFFICES ASSUME adItemsAttached PROVE Len(items') <= durations'
    BY <2>2 DEF ProgressInRange
  <2>4. Len(items) <= durations
    BY DEF ProgressInRange
  <2>5. CASE k <= Len(items)
    BY <1>1, <2>1, <2>2, <2>3, <2>4, <2>5
  <2>6. CASE ~(k <= Len(items))
    BY <1>1, <2>1, <2>2, <2>4, <2>6
  <2> QED BY <2>5, <2>6
<1> QED
  BY <1>3, <1>4, <1>5, <1>6, <1>7 DEF Core

LEMMA MainProgress ==
  ASSUME TypeInv, TypeInv', ProgressInRange, ~External, RunMain
  PROVE  ProgressInRange'
<1> USE DEF list, original, watch, avPlayer, pod, phase
<1>1. CASE RunLoad
  <2> DEFINE urls == Head(queue).urls
  <2>1. Body("load") /\ items' = AdItems(urls) /\ durations' = Len(urls)
    BY <1>1 DEF RunLoad, Prepare, SetItems
  <2>2. urls \in ShortBreaks
    BY <2>1, BodyFacts DEF TypeInv
  <2> HIDE DEF urls
  <2>3. Len(AdItems(urls)) = Len(urls) /\ Len(urls) \in Nat
    BY <2>2, AdItemsFields DEF ShortBreaks
  <2> QED BY <2>1, <2>3 DEF ProgressInRange
<1>2. CASE RunStop
  BY <1>2 DEF RunStop, ReleasePlayer, ProgressInRange
<1>3. CASE \/ SkipCancelled \/ RunPlay \/ RunReturn
           \/ AdItemFailed \/ AdItemBroken \/ AdItemEnded
  <2>1. UNCHANGED <<items, adItemsAttached, durations>>
    BY <1>3 DEF SkipCancelled, RunPlay, RunReturn, Return, AdItemFailed, AdItemBroken,
                AdItemEnded, AdEvent
  <2> QED BY <2>1 DEF ProgressInRange
<1> QED
  BY <1>1, <1>2, <1>3 DEF RunMain

LEMMA PlayerStepProgress ==
  ASSUME TypeInv, TypeInv', ProgressInRange, ~External,
         \/ AVQueuePlayer \/ \E rebuild \in BOOLEAN : DiagnosticsSwap(rebuild)
         \/ \E n \in DOMAIN Playlist, r \in Rates : AppPlays(n, r)
  PROVE  ProgressInRange'
<1>1. UNCHANGED <<adItemsAttached, durations>>
  BY PlayerStepBlocks DEF Idle, list
<1>2. Len(items') <= Len(items)
  <2>1. Len(items) \in Nat
    BY ItemsFields
  <2>2. ASSUME NEW n \in DOMAIN items, ItemReady(n) \/ ItemFails(n)
        PROVE  Len(items') = Len(items)
    BY <2>2, ReadyFields, FailsFields
  <2>3. CASE ReturnSeekCompletes
    BY <2>1, <2>3, SeekFields
  <2>4. CASE ItemFailedToPlayToEnd \/ \E r \in stale : StaleSeekCompletes(r)
    BY <2>1, <2>4 DEF ItemFailedToPlayToEnd, StaleSeekCompletes, avPlayer
  <2>5. CASE ItemEnds \/ FailedItemDropped
    <3>1. items # <<>> /\ items' = Tail(items)
      BY <2>5 DEF ItemEnds, FailedItemDropped, Playing, Advance, SetItems
    <3> QED BY <2>1, <3>1, HeadFields
  <2> QED BY <2>1, <2>2, <2>3, <2>4, <2>5 DEF AVQueuePlayer, DiagnosticsSwap, AppPlays
<1> QED BY <1>1, <1>2, ProgressShrinks

\* In a player of its own the break has a duration for every ad that is left, however
\* the core edits the list.
THEOREM ProgressCorrect == ~External => (Spec => []ProgressInRange)
<1> SUFFICES ASSUME ~External PROVE Spec => []ProgressInRange
  OBVIOUS
<1>1. Init => TypeInv /\ ProgressInRange
  <2>1. Init => ProgressInRange
    BY DEF Init, ProgressInRange
  <2> QED BY <2>1, InitType
<1>2. TypeInv /\ ProgressInRange /\ [Next]_vars => (TypeInv /\ ProgressInRange)'
  <2> SUFFICES ASSUME TypeInv, ProgressInRange, [Next]_vars
               PROVE  TypeInv' /\ ProgressInRange'
    OBVIOUS
  <2>1. TypeInv'
    BY StepType
  <2>2. CASE Next
    BY <2>1, <2>2, CoreProgress, MainProgress, PlayerStepProgress DEF Next
  <2>3. CASE UNCHANGED vars
    BY <2>1, <2>3 DEF vars, list, avPlayer, ProgressInRange
  <2> QED BY <2>1, <2>2, <2>3
<1> QED
  BY <1>1, <1>2, PTL DEF Spec

------------------------------------------------------------------------------
\* The implementation of AdBreak: the invariants.

\* The core plays a break that it loaded, to its end or to its stop, and the
\* diagnostics swap items as they like.
OneByOne == External /\ Cases \subseteq {"swap"}

\* A block of play() comes before one of stop(), and a break has ads.
InSequence(q) ==
  /\ \A j, k \in 1..Len(q) : q[j].kind = "stop" /\ q[k].kind = "play" => k < j
  /\ \A k \in 1..Len(q) : q[k].kind = "load" => q[k].urls # <<>>

\* How far the core is with the break, and what it asked for.
AskInv ==
  /\ HasBlock(queue, "play") \/ caller \in {"starting", "playing", "stopping"} => asked
  /\ HasBlock(queue, "load") \/ caller \in {"loading", "loaded"} => ~asked
  /\ HasBlock(queue, "play") \/ caller = "loaded" =>
       prepared # <<>> /\ originalMediaUrls = <<>>
  /\ caller \in {"starting", "stopping"} => adItemsAttached \/ HasBlock(queue, "play")
  /\ caller = "playing" => adItemsAttached
  /\ InSequence(queue)

LEMMA InitAsk == Init => AskInv
BY DEF Init, AskInv, HasBlock, InSequence

\* The order of the blocks that wait.
OrderKept == InSequence(queue) => InSequence(queue')

LEMMA InSequenceTail ==
  ASSUME QueueType, NEW kind, Body(kind), InSequence(queue)
  PROVE  InSequence(Tail(queue)) /\ (kind = "stop" => ~HasBlock(queue, "play"))
<1>1. /\ queue[1].kind = kind /\ 1 \in 1..Len(queue) /\ Len(queue) \in Nat
      /\ Len(Tail(queue)) = Len(queue) - 1
      /\ \A n \in 1..Len(Tail(queue)) : n + 1 \in 1..Len(queue)
                                        /\ Tail(queue)[n] = queue[n + 1]
  BY BodyFacts DEF QueueType
<1>2. ASSUME NEW j \in 1..Len(Tail(queue)), NEW k \in 1..Len(Tail(queue)),
             Tail(queue)[j].kind = "stop", Tail(queue)[k].kind = "play"
      PROVE  k < j
  <2>1. k + 1 < j + 1
    BY <1>1, <1>2 DEF InSequence
  <2> QED BY <1>1, <2>1
<1>3. \A k \in 1..Len(Tail(queue)) :
        Tail(queue)[k].kind = "load" => Tail(queue)[k].urls # <<>>
  BY <1>1 DEF InSequence
<1>4. kind = "stop" => ~HasBlock(queue, "play")
  BY <1>1 DEF InSequence, HasBlock
<1> QED BY <1>2, <1>3, <1>4 DEF InSequence

LEMMA InSequenceAppend ==
  ASSUME NEW q \in Seq(BreakBlocks), NEW b \in BreakBlocks, InSequence(q),
         b.kind = "play" => ~HasBlock(q, "stop"),
         b.kind = "load" => b.urls # <<>>
  PROVE  InSequence(Append(q, b))
<1> DEFINE a == Append(q, b)
<1>1. /\ Len(a) = Len(q) + 1 /\ Len(q) \in Nat /\ a[Len(q) + 1] = b
      /\ \A n \in 1..Len(q) : a[n] = q[n]
  OBVIOUS
<1> HIDE DEF a
<1>2. \A n \in 1..Len(a) : n \in 1..Len(q) \/ n = Len(q) + 1
  BY <1>1
<1>3. ASSUME NEW j \in 1..Len(a), NEW k \in 1..Len(a), a[j].kind = "stop", a[k].kind = "play"
      PROVE  k < j
  <2>1. CASE k = Len(q) + 1
    <3>1. j \in 1..Len(q)
      BY <1>1, <1>2, <1>3, <2>1
    <3> QED BY <1>1, <1>3, <2>1, <3>1 DEF HasBlock
  <2>2. CASE k \in 1..Len(q) /\ j = Len(q) + 1
    BY <1>1, <2>2
  <2>3. CASE k \in 1..Len(q) /\ j \in 1..Len(q)
    BY <1>1, <1>3, <2>3 DEF InSequence
  <2> QED BY <1>2, <2>1, <2>2, <2>3
<1>4. ASSUME NEW k \in 1..Len(a), a[k].kind = "load" PROVE a[k].urls # <<>>
  BY <1>1, <1>2, <1>4 DEF InSequence
<1> QED BY <1>3, <1>4 DEF InSequence, a

LEMMA InSequenceCancelled ==
  ASSUME QueueType, InSequence(queue)
  PROVE  InSequence(LoadsCancelled(queue))
<1> DEFINE q == LoadsCancelled(queue)
<1>1. /\ Len(q) = Len(queue)
      /\ \A n \in 1..Len(queue) :
           q[n] = IF queue[n].kind = "load" THEN [kind |-> "cancelled"] ELSE queue[n]
  BY CancelType
<1> HIDE DEF q
<1>2. \A n \in 1..Len(queue) : /\ q[n].kind # "load"
                               /\ q[n].kind \in {"stop", "play"} => q[n] = queue[n]
  BY <1>1
<1>3. InSequence(q)
  BY <1>1, <1>2 DEF InSequence
<1> QED BY <1>3 DEF q

LEMMA InSequenceForgotten ==
  ASSUME NEW q \in Seq(BreakBlocks), InSequence(q)
  PROVE  InSequence(BlocksForgotten(q))
<1> DEFINE f == BlocksForgotten(q)
<1>1. /\ Len(f) = Len(q)
      /\ \A n \in 1..Len(q) :
           f[n] = IF q[n].kind \in AdKinds THEN [kind |-> "cancelled"] ELSE q[n]
  BY ForgottenType
<1> HIDE DEF f
<1>2. \A n \in 1..Len(q) : f[n].kind \in {"stop", "play", "load"} => f[n] = q[n]
  BY <1>1 DEF AdKinds
<1>3. InSequence(f)
  BY <1>1, <1>2 DEF InSequence
<1> QED BY <1>3 DEF f

LEMMA OrderSame == ASSUME UNCHANGED queue PROVE OrderKept
BY DEF OrderKept

LEMMA OrderTail ==
  ASSUME QueueType, NEW kind, Body(kind), queue' = Tail(queue) PROVE OrderKept
BY InSequenceTail DEF OrderKept

LEMMA OrderDispatch ==
  ASSUME QueueType, NEW kind \in AdKinds, NEW ad \in 1..MaxAds,
         Dispatch([kind |-> kind, ad |-> ad])
  PROVE  OrderKept
<1> DEFINE b == [kind |-> kind, ad |-> ad]
<1>1. b \in BreakBlocks /\ b.kind \notin {"play", "load"}
  BY BlockTypes DEF AdKinds
<1>2. queue' = Append(queue, b) /\ queue \in Seq(BreakBlocks)
  BY DEF Dispatch, QueueType
<1> HIDE DEF b
<1> QED BY <1>1, <1>2, InSequenceAppend DEF OrderKept

\* A step that asks for nothing and takes nothing back.
LEMMA AskKept ==
  ASSUME AskInv, CallsSame, OrderKept, caller' \in {caller, "idle"},
         originalMediaUrls' \in {originalMediaUrls, <<>>},
         UNCHANGED <<asked, prepared, adItemsAttached>>
  PROVE  AskInv'
BY DEF CallsSame, Calls, OrderKept, AskInv

LEMMA CoreAsk ==
  ASSUME TypeInv, CallInv, AskInv, OneByOne, Core
  PROVE  AskInv'
<1> USE DEF list, original, watch, avPlayer, pod, phase
<1>1. QueueType /\ queue \in Seq(BreakBlocks) /\ External
  BY DEF TypeInv, QueueType, OneByOne
<1>2. /\ LoadsCancelled(queue) \in Seq(BreakBlocks)
      /\ ~HasBlock(LoadsCancelled(queue), "load")
      /\ \A c \in Calls \ {"load"} :
           HasBlock(LoadsCancelled(queue), c) <=> HasBlock(queue, c)
      /\ InSequence(LoadsCancelled(queue)) /\ InSequence(queue)
  BY <1>1, CancelCalls, InSequenceCancelled DEF AskInv
<1>3. \A k \in {"play", "stop", "return"} : [kind |-> k] \in BreakBlocks
  BY BlockTypes
<1>4. Stoppable => /\ caller # "stopping" /\ caller # "idle"
                   /\ hasPlayer => caller \in {"starting", "playing"}
  BY <1>1 DEF Stoppable, OneByOne, TypeInv, FlagType
<1>5. ASSUME NEW urls \in Breaks, Load(urls) PROVE AskInv'
  <2> DEFINE b == [kind |-> "load", urls |-> urls]
             q == LoadsCancelled(queue)
  <2>1. b \in BreakBlocks /\ b.kind = "load" /\ b.urls # <<>>
    BY BreakTypes, BlockTypes
  <2>2. caller' = "loading" /\ asked' = FALSE /\ queue' = Append(q, b) /\ ~Pending
    BY <1>1, <1>5 DEF Load, OneByOne
  <2>3. ~HasBlock(queue, "play")
    BY <1>1, <2>2 DEF Pending, HasBlock
  <2> HIDE DEF b
  <2>4. ~HasBlock(queue', "play")
    BY <1>2, <2>1, <2>2, <2>3, AppendCalls DEF Calls
  <2>5. InSequence(queue')
    BY <1>2, <2>1, <2>2, InSequenceAppend
  <2> QED BY <2>2, <2>4, <2>5 DEF AskInv
<1>6. CASE Play
  <2> DEFINE b == [kind |-> "play"]
  <2>1. b \in BreakBlocks /\ b.kind = "play" /\ queue' = Append(queue, b)
    BY <1>3, <1>6 DEF Play, Dispatch
  <2>2. /\ caller = "loaded" /\ caller' = "starting" /\ asked' = TRUE
        /\ UNCHANGED <<prepared, originalMediaUrls, adItemsAttached>>
    BY <1>6 DEF Play
  <2> HIDE DEF b
  <2>3. ~HasBlock(queue, "load") /\ ~HasBlock(queue, "stop")
    BY <2>2 DEF CallInv, LoadMatches, StopMatches
  <2>4. HasBlock(queue', "play") /\ ~HasBlock(queue', "load")
    BY <1>1, <2>1, <2>3, AppendCalls DEF Calls
  <2>5. InSequence(queue')
    BY <1>1, <1>2, <2>1, <2>3, InSequenceAppend
  <2> QED BY <2>2, <2>4, <2>5 DEF AskInv
<1>7. CASE StopIgnored \/ PlayedOut
  <2>1. /\ caller' = "idle"
        /\ UNCHANGED <<queue, originalMediaUrls, asked, prepared, adItemsAttached>>
    BY <1>7 DEF StopIgnored, PlayedOut
  <2> QED BY <2>1, AskKept, CallsUnchanged, OrderSame
<1>8. CASE Stop
  <2> DEFINE b == [kind |-> "stop"]
             q == LoadsCancelled(queue)
  <2>1. b \in BreakBlocks /\ b.kind = "stop"
    BY <1>3
  <2>2. /\ caller \in {"starting", "playing"} /\ caller' = "stopping" /\ queue' = Append(q, b)
        /\ UNCHANGED <<asked, prepared, originalMediaUrls, adItemsAttached>>
    BY <1>4, <1>8 DEF Stop
  <2> HIDE DEF b
  <2>3. ~HasBlock(queue', "load") /\ (HasBlock(queue', "play") <=> HasBlock(queue, "play"))
    BY <1>2, <2>1, <2>2, AppendCalls DEF Calls
  <2>4. InSequence(queue')
    BY <1>2, <2>1, <2>2, InSequenceAppend
  <2> QED BY <2>2, <2>3, <2>4 DEF AskInv
<1>9. CASE StopOnMain
  <2> DEFINE q == LoadsCancelled(queue)
  <2>1. /\ adItemsAttached /\ caller' = "idle" /\ asked' = FALSE /\ ReleasePlayer(q)
    BY <1>1, <1>9 DEF StopOnMain, OneByOne
  <2>2. queue' = BlocksForgotten(q) /\ q \in Seq(BreakBlocks)
    BY <1>2, <2>1, ReleaseType
  <2>3. ~HasBlock(queue, "play")
    BY <2>1 DEF CallInv, PlayMatches
  <2>4. ~HasBlock(queue', "play") /\ ~HasBlock(queue', "load")
    BY <1>2, <2>2, <2>3, ForgottenCalls DEF Calls
  <2>5. InSequence(queue')
    BY <1>2, <2>2, InSequenceForgotten
  <2> QED BY <2>1, <2>4, <2>5 DEF AskInv
<1>10. CASE ReturnToContent
  <2> DEFINE b == [kind |-> "return"]
  <2>1. b \in BreakBlocks /\ b.kind = "return" /\ queue' = Append(queue, b)
    BY <1>3, <1>10 DEF ReturnToContent, Dispatch
  <2>2. UNCHANGED <<caller, asked, prepared, originalMediaUrls, adItemsAttached>>
    BY <1>10 DEF ReturnToContent
  <2> HIDE DEF b
  <2>3. \A c \in {"play", "load"} : HasBlock(queue', c) <=> HasBlock(queue, c)
    BY <1>1, <2>1, AppendCalls DEF Calls
  <2>4. InSequence(queue')
    BY <1>1, <1>2, <2>1, InSequenceAppend
  <2> QED BY <2>2, <2>3, <2>4 DEF AskInv
<1>11. CASE ReturnOnMain
  <2>1. /\ originalMediaUrls' \in {originalMediaUrls, <<>>}
        /\ UNCHANGED <<queue, caller, asked, prepared, adItemsAttached>>
    BY <1>11 DEF ReturnOnMain, Return
  <2> QED BY <2>1, AskKept, CallsUnchanged, OrderSame
<1>12. CASE PlayNextItem
  <2>1. UNCHANGED <<queue, caller, originalMediaUrls, asked, prepared, adItemsAttached>>
    BY <1>12 DEF PlayNextItem
  <2> QED BY <2>1, AskKept, CallsUnchanged, OrderSame
<1>13. ASSUME NEW u \in Ads, EnqueueNextItem(u) \/ RemoveNextItem(u) PROVE FALSE
  BY <1>13 DEF EnqueueNextItem, RemoveNextItem, OneByOne
<1>14. ASSUME NEW r \in {0, 1}, PauseResume(r) PROVE FALSE
  BY <1>14 DEF PauseResume, OneByOne
<1> QED
  BY <1>5, <1>6, <1>7, <1>8, <1>9, <1>10, <1>11, <1>12, <1>13, <1>14 DEF Core

LEMMA MainAsk ==
  ASSUME TypeInv, CallInv, AskInv, OneByOne, RunMain
  PROVE  AskInv'
<1> USE DEF list, original, watch, avPlayer, pod, phase
<1>1. QueueType /\ queue \in Seq(BreakBlocks) /\ External /\ InSequence(queue)
  BY DEF TypeInv, QueueType, OneByOne, AskInv
<1>2. ASSUME NEW kind \in {"cancelled"} \cup AdKinds, Body(kind), queue' = Tail(queue),
             UNCHANGED <<prepared, adItemsAttached, originalMediaUrls, caller, asked>>
      PROVE  AskInv'
  <2>1. kind \notin Calls
    BY <1>2 DEF AdKinds, Calls
  <2> QED BY <1>1, <1>2, <2>1, AskKept, CallsTail, OrderTail
<1>3. CASE SkipCancelled
  BY <1>2, <1>3 DEF SkipCancelled
<1>4. CASE AdItemFailed \/ AdItemBroken \/ AdItemEnded
  BY <1>2, <1>4 DEF AdItemFailed, AdItemBroken, AdItemEnded, AdEvent, AdKinds
<1>5. CASE RunLoad
  <2> DEFINE q == Tail(queue)
  <2>1. /\ Body("load") /\ queue' = BlocksForgotten(q) /\ prepared' = Head(queue).urls
        /\ originalMediaUrls' = <<>>
        /\ caller' = (IF caller = "loading" THEN "loaded" ELSE caller)
        /\ UNCHANGED asked
    BY <1>5 DEF RunLoad
  <2>2. /\ q \in Seq(BreakBlocks) /\ HasBlock(queue, "load")
        /\ HasBlock(q, "play") => HasBlock(queue, "play")
    BY <1>1, <2>1, TailCalls DEF Calls
  <2>3. ~HasBlock(queue, "play") /\ caller \in {"idle", "loading"} /\ ~asked
    BY <2>2 DEF CallInv, LoadMatches, AskInv
  <2>4. Head(queue).urls # <<>>
    BY <1>1, <2>1, BodyFacts DEF InSequence
  <2>5. InSequence(q)
    BY <1>1, <2>1, InSequenceTail
  <2> HIDE DEF q
  <2>6. ~HasBlock(queue', "play")
    BY <2>1, <2>2, <2>3, ForgottenCalls DEF Calls
  <2>7. InSequence(queue')
    BY <2>1, <2>2, <2>5, InSequenceForgotten
  <2> QED BY <2>1, <2>3, <2>4, <2>6, <2>7 DEF AskInv
<1>6. CASE RunPlay
  <2>1. Body("play") /\ queue' = Tail(queue) /\ UNCHANGED <<prepared, asked>>
    BY <1>6 DEF RunPlay
  <2>2. /\ HasBlock(queue, "play")
        /\ HasBlock(Tail(queue), "load") => HasBlock(queue, "load")
        /\ OneBlock(queue, "play") => ~HasBlock(Tail(queue), "play")
    BY <1>1, <2>1, TailCalls DEF Calls
  <2>3. /\ ~adItemsAttached /\ ~HasBlock(queue, "load") /\ OneBlock(queue, "play")
        /\ prepared # <<>> /\ asked /\ caller \notin {"loading", "loaded"}
    BY <2>2 DEF CallInv, LoadMatches, PlayMatches, AskInv
  <2>4. /\ adItemsAttached' = TRUE
        /\ caller' = (IF caller = "starting" THEN "playing" ELSE caller)
    BY <1>1, <1>6, <2>3 DEF RunPlay, Attach, Plays
  <2>5. InSequence(queue')
    BY <1>1, <2>1, InSequenceTail
  <2> QED BY <2>1, <2>2, <2>3, <2>4, <2>5 DEF AskInv
<1>7. CASE RunStop
  <2> DEFINE q == Tail(queue)
  <2>1. Body("stop") /\ ReleasePlayer(q) /\ caller' = "idle" /\ asked' = FALSE
    BY <1>7 DEF RunStop
  <2>2. /\ q \in Seq(BreakBlocks) /\ HasBlock(queue, "stop")
        /\ \A c \in {"play", "load"} : HasBlock(q, c) => HasBlock(queue, c)
    BY <1>1, <2>1, TailCalls DEF Calls
  <2>3. InSequence(q) /\ ~HasBlock(queue, "play")
    BY <1>1, <2>1, InSequenceTail
  <2>4. ~HasBlock(queue, "load")
    BY <2>2 DEF CallInv, StopMatches, LoadMatches
  <2> HIDE DEF q
  <2>5. queue' = BlocksForgotten(q)
    BY <2>1, <2>2, ReleaseType
  <2>6. ~HasBlock(queue', "play") /\ ~HasBlock(queue', "load")
    BY <2>2, <2>3, <2>4, <2>5, ForgottenCalls DEF Calls
  <2>7. InSequence(queue')
    BY <2>2, <2>3, <2>5, InSequenceForgotten
  <2> QED BY <2>1, <2>6, <2>7 DEF AskInv
<1>8. CASE RunReturn
  <2>1. /\ Body("return") /\ queue' = Tail(queue)
        /\ originalMediaUrls' \in {originalMediaUrls, <<>>}
        /\ UNCHANGED <<caller, asked, prepared, adItemsAttached>>
    BY <1>8 DEF RunReturn, Return
  <2>2. \A c \in {"play", "load"} : HasBlock(queue', c) <=> HasBlock(queue, c)
    BY <1>1, <2>1, TailCalls DEF Calls
  <2>3. InSequence(queue')
    BY <1>1, <2>1, InSequenceTail
  <2> QED BY <2>1, <2>2, <2>3 DEF AskInv
<1> QED
  BY <1>3, <1>4, <1>5, <1>6, <1>7, <1>8 DEF RunMain

LEMMA StepAsk ==
  TypeInv /\ CallInv /\ AskInv /\ OneByOne /\ [Next]_vars => AskInv'
<1> SUFFICES ASSUME TypeInv, CallInv, AskInv, OneByOne, [Next]_vars PROVE AskInv'
  OBVIOUS
<1>1. CASE \/ AVQueuePlayer \/ \E rebuild \in BOOLEAN : DiagnosticsSwap(rebuild)
           \/ \E n \in DOMAIN Playlist, r \in Rates : AppPlays(n, r)
  <2>1. UNCHANGED <<caller, originalMediaUrls, asked, prepared, adItemsAttached>>
    BY <1>1, PlayerStepBlocks DEF Idle, original, phase
  <2>2. CallsSame /\ OrderKept
    BY <1>1, PlayerStepBlocks, CallsUnchanged, CallsDispatch, OrderSame, OrderDispatch
       DEF TypeInv
  <2> QED BY <2>1, <2>2, AskKept
<1>2. CASE Next
  BY <1>1, <1>2, CoreAsk, MainAsk DEF Next
<1>3. CASE UNCHANGED vars
  BY <1>3, AskKept, CallsUnchanged, OrderSame DEF vars, original, phase
<1> QED BY <1>2, <1>3

------------------------------------------------------------------------------
\* The place and the speed of the interrupted content.

\* The player may be about to take a break.
Coming == \/ HasBlock(queue, "load") \/ HasBlock(queue, "play")
          \/ caller \in {"loading", "loaded"}

AllSettled == \A n \in 1..Len(items) : items[n].target = 0
Settled == Coming => AllSettled

\* The interrupted content is the first content of the queue.
FirstContent(n) == items[n].url \in Contents /\ \A m \in 1..(n - 1) : items[m].url \in Ads
FrontIsOwed ==
  /\ owed # None => \A n \in 1..Len(items) : FirstContent(n) => items[n].url = owed.url
  /\ owed = None /\ AdsNow => \A n \in 1..Len(items) : items[n].url \in Ads

\* What is recorded to be put back is what is owed, as long as it is not in the queue.
RecordMatches ==
  owed # None =>
    /\ stale = {}
    /\ originalMediaUrls # <<>> =>
         /\ originalMediaUrls[1] = owed.url
         /\ originalPosition = owed.pos /\ originalRate = owed.rate
         /\ stopped => items = <<>>
    /\ items = <<>> \/ adItemsAttached => originalMediaUrls # <<>>

\* An item is at pos, or goes there once it is ready.
AtPlace(i, pos) ==
  \/ i.target = 0 /\ i.pos = pos
  \/ i.status = "unknown" /\ i.target = pos /\ i.pos = 0

PlaceMatches ==
  owed # None =>
    \A n \in 1..Len(items) :
      /\ items[n].ret > 0 => n = 1 /\ items[n].target = owed.pos /\ items[n].ret = owed.rate
      /\ owed.alone /\ FirstContent(n) /\ items[n].ret = 0 /\ items[n].status # "failed" =>
           AtPlace(items[n], owed.pos)

\* The speed of the content comes with the content, and not with an ad before it.
SpeedMatches ==
  /\ owed # None /\ HeadIsContent /\ Head(items).ret = 0 => rate = owed.rate
  /\ AdsNow => /\ rate > 0 /\ observing
               /\ \A n \in 1..Len(items) : items[n].url \in Contents =>
                    Len(items) - n < Len(mediaUrls) - adCount

PlaceInv == Settled /\ FrontIsOwed /\ RecordMatches /\ PlaceMatches /\ SpeedMatches

\* The first item, by its index.
First ==
  /\ Len(items) \in Nat /\ (items = <<>> <=> Len(items) = 0)
  /\ items # <<>> => Head(items) = items[1] /\ 1 \in 1..Len(items)
  /\ AdsNow <=> Len(items) > 0 /\ items[1].url \in Ads
  /\ HeadIsContent <=> Len(items) > 0 /\ items[1].url \in Contents

LEMMA FirstItem == TypeInv => First
BY HeadFields, ItemsFields DEF First, AdsNow, HeadIsContent, TypeInv, PlayerType

\* Content that is first has no ads behind it, and ads are attached.
LEMMA AdsAttached ==
  ASSUME TypeInv, QueueInv
  PROVE  /\ AdsNow => /\ adItemsAttached /\ ~HasBlock(queue, "load") /\ stale = {}
                      /\ \A n \in 1..Len(items) : items[n].ret = 0
         /\ ~AdsNow => \A n \in 1..Len(items) : items[n].url \in Contents
         /\ ~adItemsAttached => ~AdsNow
<1>1. /\ Len(items) \in Nat /\ (items # <<>> => 1 \in 1..Len(items))
      /\ AdsNow <=> Len(items) > 0 /\ items[1].url \in Ads
      /\ \A n \in 1..Len(items) : items[n].url \in Urls
  BY FirstItem, ItemsFields DEF First
<1>2. AdsNow => adItemsAttached /\ ~HasBlock(queue, "load")
  BY <1>1, UrlFacts DEF QueueInv, ContentOnly
<1>3. AdsNow => stale = {} /\ \A n \in 1..Len(items) : items[n].ret = 0
  BY <1>2 DEF QueueInv, NoneReturns, Underway
<1>4. ASSUME ~AdsNow, NEW n \in 1..Len(items) PROVE items[n].url \in Contents
  <2>1. items[1].url \notin Ads /\ 1 \in 1..Len(items)
    BY <1>1, <1>4
  <2>2. items[n].url \notin Ads
    BY <1>1, <1>4, <2>1 DEF QueueInv, AdsInFront
  <2> QED BY <1>1, <2>2 DEF Urls
<1> QED BY <1>2, <1>3, <1>4

LEMMA InitPlace == Init => PlaceInv
<1> SUFFICES ASSUME Init PROVE PlaceInv
  OBVIOUS
<1>1. owed = None /\ ~Coming
  BY DEF Init, Coming, HasBlock
<1>2. ~AdsNow
  <2>1. TypeInv /\ QueueInv /\ ~adItemsAttached
    BY InitType, InitQueue DEF Init
  <2> QED BY <2>1, AdsAttached
<1> QED
  BY <1>1, <1>2
     DEF PlaceInv, Settled, FrontIsOwed, RecordMatches, PlaceMatches, SpeedMatches

\* The items change in their places, and content that is at its place stays there.
PlacesKept ==
  /\ Len(items') = Len(items)
  /\ \A m \in 1..Len(items) :
       /\ items'[m].url = items[m].url /\ items'[m].ret = items[m].ret
       /\ items'[m].target \in {items[m].target, 0}
       /\ items[m].ret > 0 => items'[m].target = items[m].target
       /\ items[m].url \in Contents /\ items'[m].status # "failed" /\ items[m].ret = 0 =>
            /\ items[m].status # "failed"
            /\ \A pos \in Positions : AtPlace(items[m], pos) => AtPlace(items'[m], pos)

LEMMA PlacesSame == ASSUME UNCHANGED items PROVE PlacesKept
BY DEF PlacesKept, AtPlace

LEMMA PlaceInPlace ==
  ASSUME TypeInv, TypeInv', PlaceInv, PlacesKept, Coming' => Coming \/ AllSettled,
         UNCHANGED <<rate, stale, observing, owed, mediaUrls, adCount, original,
                     adItemsAttached>>,
         stopped' => stopped
  PROVE  PlaceInv'
<1> USE DEF original
<1>1. First /\ First'
  BY FirstItem, PTL
<1>3. /\ Len(items') = Len(items)
      /\ \A m \in 1..Len(items) :
           /\ items'[m].url = items[m].url /\ items'[m].ret = items[m].ret
           /\ items'[m].target \in {items[m].target, 0}
           /\ items[m].ret > 0 => items'[m].target = items[m].target
  BY DEF PlacesKept
<1>4. /\ (AdsNow' <=> AdsNow) /\ (HeadIsContent' <=> HeadIsContent)
      /\ HeadIsContent => Head(items').ret = Head(items).ret
  BY <1>1, <1>3 DEF First
<1>5. \A n \in 1..Len(items) : FirstContent(n)' <=> FirstContent(n)
  BY <1>1, <1>3 DEF First, FirstContent
<1>6. Settled'
  BY <1>3 DEF PlaceInv, Settled, AllSettled
<1>7. FrontIsOwed'
  BY <1>3, <1>4, <1>5 DEF PlaceInv, FrontIsOwed
<1>8. RecordMatches'
  BY <1>1, <1>3 DEF First, PlaceInv, RecordMatches
<1>9. PlaceMatches'
  <2> SUFFICES ASSUME owed # None, NEW n \in 1..Len(items)
               PROVE  /\ items'[n].ret > 0 => /\ n = 1 /\ items'[n].target = owed.pos
                                              /\ items'[n].ret = owed.rate
                      /\ /\ owed.alone /\ FirstContent(n)' /\ items'[n].ret = 0
                         /\ items'[n].status # "failed"
                         => AtPlace(items'[n], owed.pos)
    BY <1>3 DEF PlaceMatches, AtPlace
  <2>1. items'[n].ret > 0 => n = 1 /\ items'[n].target = owed.pos /\ items'[n].ret = owed.rate
    BY <1>3 DEF PlaceInv, PlaceMatches
  <2>2. ASSUME owed.alone, FirstContent(n)', items'[n].ret = 0, items'[n].status # "failed"
        PROVE  AtPlace(items'[n], owed.pos)
    <3>1. FirstContent(n) /\ items[n].url \in Contents /\ items[n].ret = 0
      BY <1>3, <1>5, <2>2 DEF FirstContent
    <3>2. owed.pos \in Positions
      BY DEF TypeInv, ListType
    <3>3. /\ items[n].status # "failed"
          /\ AtPlace(items[n], owed.pos) => AtPlace(items'[n], owed.pos)
      BY <2>2, <3>1, <3>2 DEF PlacesKept
    <3>4. AtPlace(items[n], owed.pos)
      BY <2>2, <3>1, <3>3 DEF PlaceInv, PlaceMatches
    <3> QED BY <3>3, <3>4
  <2> QED BY <2>1, <2>2
<1>10. SpeedMatches'
  BY <1>3, <1>4 DEF PlaceInv, SpeedMatches
<1> QED
  BY <1>6, <1>7, <1>8, <1>9, <1>10 DEF PlaceInv

\* Content that the app, or its queue, plays is owed nothing.
LEMMA PlaceOfContent ==
  ASSUME TypeInv', \A n \in 1..Len(items') : items'[n].url \in Contents, owed' = None,
         Settled'
  PROVE  PlaceInv'
<1>1. First'
  BY FirstItem, PTL
<1>2. ~AdsNow'
  BY <1>1, UrlFacts DEF First
<1> QED
  BY <1>2
     DEF PlaceInv, FrontIsOwed, RecordMatches, PlaceMatches, SpeedMatches

\* An ad leaves the queue to what is behind it: the speed returns with the content.
LEMMA AdLeaves ==
  ASSUME TypeInv, QueueInv, PlaceInv, AdsNow, NEW r \in Rates, r = rate \/ Len(items) = 1,
         Advance(Tail(items), r)
  PROVE  /\ items # <<>> /\ Len(items') = Len(items) - 1 /\ items' = Tail(items)
         /\ \A n \in 1..Len(items') : n + 1 \in 1..Len(items) /\ items'[n] = items[n + 1]
         /\ stale' = stale
         /\ Len(items') > 0 /\ items'[1].url \in Ads => rate' = rate /\ observing' = observing
         /\ Len(items') > 0 /\ items'[1].url \in Contents => rate' = originalRate
<1> DEFINE t == Tail(items)
<1>1. First /\ items # <<>>
  BY FirstItem DEF First
<1>2. /\ t \in Seq(BreakItems) /\ Len(t) = Len(items) - 1 /\ Len(items) \in Nat \ {0}
      /\ Head(items) = items[1] /\ 1 \in 1..Len(items)
      /\ \A n \in 1..Len(t) : n + 1 \in 1..Len(items) /\ t[n] = items[n + 1]
  BY <1>1, HeadFields
<1>3. Advance(t, r)
  OBVIOUS
<1>4. items[1].ret = 0
  BY <1>2, AdsAttached
<1> HIDE DEF t
<1>5. /\ items' = t /\ stale' = stale
      /\ \/ rate' = r /\ observing' = observing
         \/ observing /\ AtOriginal(t) /\ r > 0 /\ rate' = originalRate
  <2>1. t \in Seq(BreakItems)
    BY <1>2
  <2>2. /\ items' = t
        /\ \/ rate' = r /\ observing' = observing
           \/ observing /\ AtOriginal(t) /\ r > 0 /\ rate' = originalRate
        /\ stale' = stale \/ Head(items).ret > 0
    BY <1>3, <2>1, AdvanceType, Zenon
  <2>3. ~(Head(items).ret > 0)
    BY <1>2, <1>4
  <2> QED BY <2>2, <2>3
<1>7. Len(mediaUrls) \in Nat /\ adCount \in Nat
  BY DEF TypeInv, ListType
<1>8. ASSUME Len(t) > 0, t[1].url \in Ads PROVE rate' = rate /\ observing' = observing
  <2>1. 2 \in 1..Len(items) /\ items[2].url \in Ads /\ r = rate
    BY <1>2, <1>8
  <2>2. Len(items) - 2 >= Len(mediaUrls) - adCount
    BY <2>1 DEF QueueInv, AdsInFront
  <2>3. ~AtOriginal(t)
    BY <1>2, <1>7, <2>2 DEF AtOriginal
  <2> QED BY <1>5, <2>1, <2>3
<1>9. ASSUME Len(t) > 0, t[1].url \in Contents PROVE rate' = originalRate
  <2>1. 2 \in 1..Len(items) /\ items[2].url \in Contents /\ r = rate
    BY <1>2, <1>9
  <2>2. rate > 0 /\ observing /\ Len(items) - 2 < Len(mediaUrls) - adCount
    BY <2>1 DEF PlaceInv, SpeedMatches
  <2>3. AtOriginal(t)
    BY <1>2, <1>7, <2>2 DEF AtOriginal
  <2>4. rate' = (IF observing /\ AtOriginal(t) /\ r > 0 THEN originalRate ELSE r)
    BY <1>3 DEF Advance
  <2> QED BY <2>1, <2>2, <2>3, <2>4
<1> QED BY <1>1, <1>2, <1>5, <1>8, <1>9 DEF t

LEMMA PlaceAdLeaves ==
  ASSUME TypeInv, TypeInv', QueueInv, PlaceInv, AdsNow,
         NEW r \in Rates, r = rate \/ Len(items) = 1, Advance(Tail(items), r),
         Coming' => Coming,
         UNCHANGED <<owed, mediaUrls, adCount, original, adItemsAttached, stopped>>
  PROVE  PlaceInv'
<1> USE DEF original
<1>1. First /\ First'
  BY FirstItem, PTL
<1>2. /\ Len(items) \in Nat \ {0} /\ Len(items') = Len(items) - 1 /\ items # <<>>
      /\ \A n \in 1..Len(items') : n + 1 \in 1..Len(items) /\ items'[n] = items[n + 1]
      /\ stale' = stale
      /\ Len(items') > 0 /\ items'[1].url \in Ads => rate' = rate /\ observing' = observing
      /\ Len(items') > 0 /\ items'[1].url \in Contents => rate' = originalRate
  BY <1>1, AdLeaves DEF First
<1>3. /\ items[1].url \in Ads /\ adItemsAttached
      /\ \A n \in 1..Len(items) : items[n].ret = 0
  BY <1>1, AdsAttached DEF First
<1>4. ASSUME NEW n \in 1..Len(items'), FirstContent(n)' PROVE FirstContent(n + 1)
  <2>1. items[n + 1].url \in Contents
    BY <1>2, <1>4 DEF FirstContent
  <2>2. ASSUME NEW m \in 1..((n + 1) - 1) PROVE items[m].url \in Ads
    <3>1. CASE m = 1
      BY <1>3, <3>1
    <3>2. CASE m # 1
      <4>1. m - 1 \in 1..(n - 1) /\ m - 1 \in 1..Len(items') /\ (m - 1) + 1 = m
        BY <1>2, <3>2
      <4>2. items'[m - 1].url \in Ads
        BY <1>4, <4>1 DEF FirstContent
      <4> QED BY <1>2, <4>1, <4>2
    <3> QED BY <3>1, <3>2
  <2> QED BY <2>1, <2>2 DEF FirstContent
<1>5. Settled'
  BY <1>2 DEF PlaceInv, Settled, AllSettled
<1>6. FrontIsOwed'
  <2>1. owed # None => \A n \in 1..Len(items') : FirstContent(n)' => items'[n].url = owed.url
    BY <1>2, <1>4 DEF PlaceInv, FrontIsOwed
  <2>2. owed = None => \A n \in 1..Len(items') : items'[n].url \in Ads
    BY <1>2 DEF PlaceInv, FrontIsOwed
  <2> QED BY <2>1, <2>2 DEF FrontIsOwed
<1>7. RecordMatches'
  BY <1>2, <1>3 DEF PlaceInv, RecordMatches
<1>8. PlaceMatches'
  <2>1. ASSUME owed # None, NEW n \in 1..Len(items'), owed.alone, FirstContent(n)',
               items'[n].status # "failed"
        PROVE  AtPlace(items'[n], owed.pos)
    <3>1. n + 1 \in 1..Len(items) /\ items'[n] = items[n + 1] /\ items[n + 1].ret = 0
      BY <1>2, <1>3
    <3>2. FirstContent(n + 1)
      BY <1>4, <2>1
    <3> QED BY <2>1, <3>1, <3>2 DEF PlaceInv, PlaceMatches
  <2>2. \A n \in 1..Len(items') : items'[n].ret = 0
    BY <1>2, <1>3
  <2> QED BY <2>1, <2>2 DEF PlaceMatches, AtPlace
<1>9. SpeedMatches'
  <2>1. ASSUME owed # None, HeadIsContent' PROVE rate' = owed.rate
    BY <1>1, <1>2, <1>3, <2>1 DEF First, PlaceInv, RecordMatches
  <2>2. ASSUME AdsNow'
        PROVE  /\ rate' > 0 /\ observing'
               /\ \A n \in 1..Len(items') : items'[n].url \in Contents =>
                    Len(items') - n < Len(mediaUrls) - adCount
    <3>1. rate' = rate /\ observing' = observing
      BY <1>1, <1>2, <2>2 DEF First
    <3>2. ASSUME NEW n \in 1..Len(items'), items'[n].url \in Contents
          PROVE  Len(items') - n < Len(mediaUrls) - adCount
      <4>1. n + 1 \in 1..Len(items) /\ items[n + 1].url \in Contents
        BY <1>2, <3>2
      <4>2. Len(items) - (n + 1) < Len(mediaUrls) - adCount
        BY <4>1 DEF PlaceInv, SpeedMatches
      <4>3. Len(items') - n = Len(items) - (n + 1)
        BY <1>2
      <4> QED BY <4>2, <4>3
    <3> QED BY <3>1, <3>2 DEF PlaceInv, SpeedMatches
  <2> QED BY <2>1, <2>2 DEF SpeedMatches
<1> QED
  BY <1>5, <1>6, <1>7, <1>8, <1>9 DEF PlaceInv

\* A stop leaves the content to its record.
LEMMA PlaceStops ==
  ASSUME TypeInv, TypeInv', QueueInv, PlaceInv, adItemsAttached, items' = <<>>,
         stale' = stale \/ (items # <<>> /\ Head(items).ret > 0),
         UNCHANGED <<owed, original>>
  PROVE  PlaceInv'
<1>1. First /\ First'
  BY FirstItem, PTL
<1>2. stale' = stale
  BY <1>1 DEF QueueInv, NoneReturns, Underway, First
<1>3. ~AdsNow' /\ ~HeadIsContent' /\ \A n \in 1..Len(items') : FALSE
  BY <1>1 DEF First
<1> QED
  BY <1>2, <1>3
     DEF PlaceInv, Settled, AllSettled, FrontIsOwed, RecordMatches, PlaceMatches, SpeedMatches,
         original

\* The displaced content comes back, with a seek that sets its speed.
LEMMA PlaceReturns ==
  ASSUME TypeInv, TypeInv', QueueInv, PlaceInv, Return, stopped, ~adItemsAttached, ~Coming'
  PROVE  PlaceInv'
<1> USE DEF list, original, phase
<1>1. First /\ First'
  BY FirstItem, PTL
<1>2. UNCHANGED <<rate, observing, owed, mediaUrls, adCount, adItemsAttached, stopped,
                  originalPosition, originalRate>>
  BY DEF Return
<1>3. CASE UNCHANGED <<items, stale, originalMediaUrls>>
  BY <1>2, <1>3, PlacesSame, PlaceInPlace
<1>4. CASE /\ originalMediaUrls # <<>> /\ originalMediaUrls' = <<>> /\ items' = Returned
           /\ stale' = stale \/ (items # <<>> /\ Head(items).ret > 0)
  <2>1. /\ Len(items') = Len(originalMediaUrls) /\ Len(originalMediaUrls) \in Nat \ {0}
        /\ \A n \in 1..Len(originalMediaUrls) :
             /\ items'[n].url = originalMediaUrls[n] /\ items'[n].url \in Contents
             /\ items'[n].target = (IF n = 1 THEN originalPosition ELSE 0)
             /\ items'[n].ret = (IF n = 1 THEN originalRate ELSE 0)
    <3>1. Len(originalMediaUrls) \in Nat \ {0}
      BY <1>4 DEF TypeInv, ListType
    <3> QED BY <1>4, <3>1, ReturnedFields DEF QueueInv, ContentOnly
  <2>2. originalRate > 0 /\ ~AdsNow'
    <3>1. originalRate > 0
      BY RateFacts DEF TypeInv, ListType
    <3> QED BY <1>1, <2>1, <3>1, UrlFacts DEF First
  <2>3. Settled'
    BY DEF Settled
  <2>4. \A n \in 1..Len(items') : FirstContent(n)' => n = 1
    <3> SUFFICES ASSUME NEW n \in 1..Len(items'), FirstContent(n)', n # 1 PROVE FALSE
      OBVIOUS
    <3>1. 1 \in 1..(n - 1) /\ 1 \in 1..Len(originalMediaUrls)
      BY <2>1
    <3> QED BY <2>1, <3>1, UrlFacts DEF FirstContent
  <2>5. owed # None => /\ originalMediaUrls[1] = owed.url /\ stale = {} /\ items = <<>>
                       /\ originalPosition = owed.pos /\ originalRate = owed.rate
    BY <1>4 DEF PlaceInv, RecordMatches
  <2>6. FrontIsOwed'
    BY <1>2, <2>1, <2>2, <2>4, <2>5 DEF FrontIsOwed
  <2>7. RecordMatches'
    BY <1>1, <1>2, <1>4, <2>1, <2>5 DEF RecordMatches, First
  <2>8. PlaceMatches'
    BY <1>2, <2>1, <2>2, <2>4, <2>5 DEF PlaceMatches
  <2>9. SpeedMatches'
    <3>1. HeadIsContent' => Head(items').ret > 0
      BY <1>1, <2>1, <2>2 DEF First
    <3> QED BY <2>2, <3>1, RateFacts DEF SpeedMatches
  <2> QED BY <2>3, <2>6, <2>7, <2>8, <2>9 DEF PlaceInv
<1> QED BY <1>3, <1>4, ReturnType

\* A load of the next break finds the content in the player, at its place.
LEMMA PlaceLoads ==
  ASSUME TypeInv, TypeInv', QueueInv, ContentWaits, PlaceInv, External, RunLoad
  PROVE  PlaceInv'
<1> USE DEF original
<1>1. First /\ First'
  BY FirstItem, PTL
<1>2. /\ Body("load") /\ items' = ItemsForgotten /\ originalMediaUrls' = <<>>
      /\ adItemsAttached' = FALSE /\ UNCHANGED <<rate, stale, owed>>
  BY DEF RunLoad, Prepare
<1>3. HasBlock(queue, "load")
  BY <1>2, TailCalls DEF TypeInv
<1>4. \A n \in 1..Len(items) : items[n].url \in Contents /\ items[n].target = 0
  BY <1>3 DEF QueueInv, ContentOnly, PlaceInv, Settled, AllSettled, Coming
<1>5. /\ Len(items') = Len(items)
      /\ \A n \in 1..Len(items) :
           /\ items'[n].url = items[n].url /\ items'[n].ret = items[n].ret
           /\ items'[n].target = items[n].target /\ items'[n].status = items[n].status
           /\ items'[n].pos = items[n].pos
  BY <1>2, ForgottenFields
<1>6. /\ ~AdsNow' /\ (HeadIsContent' <=> HeadIsContent)
      /\ HeadIsContent => Head(items').ret = Head(items).ret
  BY <1>1, <1>4, <1>5, UrlFacts DEF First
<1>7. \A n \in 1..Len(items) : FirstContent(n)' <=> FirstContent(n)
  BY <1>1, <1>5 DEF First, FirstContent
<1>8. Settled'
  BY <1>4, <1>5 DEF Settled, AllSettled
<1>9. FrontIsOwed'
  BY <1>2, <1>5, <1>6, <1>7 DEF PlaceInv, FrontIsOwed
<1>10. RecordMatches'
  <2>1. owed # None => items # <<>>
    BY <1>1, <1>3 DEF ContentWaits, Underway, Waits, First
  <2>2. owed # None => items' # <<>>
    BY <1>1, <1>5, <2>1 DEF First
  <2> QED BY <1>2, <2>2 DEF PlaceInv, RecordMatches
<1>11. PlaceMatches'
  BY <1>2, <1>5, <1>7 DEF PlaceInv, PlaceMatches, AtPlace
<1>12. SpeedMatches'
  BY <1>2, <1>6 DEF PlaceInv, SpeedMatches
<1> QED
  BY <1>8, <1>9, <1>10, <1>11, <1>12 DEF PlaceInv

\* Behind the ads attachAdItems() puts the displaced items, and the last goes to the place.
LEMMA AttachedContent ==
  ASSUME TypeInv, TypeInv', Attach
  PROVE  /\ Len(prepared) \in Nat /\ Len(originalMediaUrls') \in Nat
         /\ Len(items') = Len(prepared) + Len(originalMediaUrls')
         /\ \A n \in 1..Len(items') :
              /\ items'[n].ret = 0
              /\ n <= Len(prepared) => items'[n].url \in Ads
              /\ n > Len(prepared) =>
                   /\ n - Len(prepared) \in 1..Len(originalMediaUrls')
                   /\ items'[n].url = originalMediaUrls'[n - Len(prepared)]
                   /\ items'[n].status = "unknown" /\ items'[n].pos = 0
                   /\ n = Len(items') => items'[n].target = originalPosition'
<1> DEFINE a == AdItems(prepared)
           b == PreSeek(originalMediaUrls', originalPosition')
<1>1. /\ prepared \in ShortBreaks /\ originalMediaUrls' \in Seq(Urls)
      /\ originalPosition' \in Positions
      /\ Len(prepared) \in Nat /\ Len(originalMediaUrls') \in Nat
  BY DEF TypeInv, ListType, ShortBreaks
<1>2. /\ a \in Seq(BreakItems) /\ Len(a) = Len(prepared)
      /\ \A n \in 1..Len(prepared) : a[n].url \in Ads /\ a[n].ret = 0
  BY <1>1, AdItemsFields
<1>3. /\ b \in Seq(BreakItems) /\ Len(b) = Len(originalMediaUrls')
      /\ \A n \in 1..Len(originalMediaUrls') :
           /\ b[n].url = originalMediaUrls'[n] /\ b[n].ret = 0
           /\ b[n].status = "unknown" /\ b[n].pos = 0
           /\ n = Len(originalMediaUrls') => b[n].target = originalPosition'
  BY <1>1, PreSeekFields
<1>4. items' = a \o b
  BY DEF Attach, SetItems
<1> HIDE DEF a, b
<1>5. /\ Len(items') = Len(a) + Len(b)
      /\ \A n \in 1..Len(items') :
           /\ n <= Len(a) => n \in 1..Len(a) /\ items'[n] = a[n]
           /\ n > Len(a) => n - Len(a) \in 1..Len(b) /\ items'[n] = b[n - Len(a)]
  <2>1. a \in Seq(BreakItems) /\ b \in Seq(BreakItems)
    BY <1>2, <1>3
  <2>2. /\ a \o b \in Seq(BreakItems) /\ Len(a \o b) = Len(a) + Len(b)
        /\ \A n \in 1..Len(a \o b) :
             /\ n <= Len(a) => n \in 1..Len(a) /\ (a \o b)[n] = a[n]
             /\ n > Len(a) => n - Len(a) \in 1..Len(b) /\ (a \o b)[n] = b[n - Len(a)]
    BY <2>1, BehindFacts, ZenonT(30)
  <2> QED BY <1>4, <2>2
<1>6. ASSUME NEW n \in 1..Len(items'), n <= Len(prepared)
      PROVE  items'[n].ret = 0 /\ items'[n].url \in Ads
  BY <1>2, <1>5, <1>6
<1>7. ASSUME NEW n \in 1..Len(items'), n > Len(prepared)
      PROVE  /\ items'[n].ret = 0
             /\ n - Len(prepared) \in 1..Len(originalMediaUrls')
             /\ items'[n].url = originalMediaUrls'[n - Len(prepared)]
             /\ items'[n].status = "unknown" /\ items'[n].pos = 0
             /\ n = Len(items') => items'[n].target = originalPosition'
  <2>1. /\ n - Len(prepared) \in 1..Len(originalMediaUrls')
        /\ items'[n] = b[n - Len(prepared)]
    BY <1>2, <1>3, <1>5, <1>7
  <2>2. n = Len(items') => n - Len(prepared) = Len(originalMediaUrls')
    BY <1>1, <1>2, <1>3, <1>5
  <2> QED BY <1>3, <2>1, <2>2
<1>8. Len(items') = Len(prepared) + Len(originalMediaUrls')
  BY <1>2, <1>3, <1>5
<1> QED BY <1>1, <1>6, <1>7, <1>8

\* The record that play() takes of the content is no None.
LEMMA RecordIsNotNone ==
  ASSUME NEW r \in [url : Contents, pos : Positions, rate : Rates, alone : BOOLEAN]
  PROVE  r # None
BY NoneAssumption

LEMMA PlaceAttaches ==
  ASSUME TypeInv, TypeInv', CallInv, QueueInv, ContentWaits, AskInv, PlaceInv, External,
         RunPlay
  PROVE  PlaceInv' /\ Attach /\ ~Coming'
<1> USE DEF list, original, phase
<1>1. First /\ First'
  BY FirstItem, PTL
<1>2. /\ Body("play") /\ queue' = Tail(queue) /\ UNCHANGED <<prepared, adCount, stopped>>
      /\ QueueType
  BY DEF RunPlay, TypeInv
<1>3. /\ HasBlock(queue, "play")
      /\ \A c \in Calls : HasBlock(Tail(queue), c) => HasBlock(queue, c)
      /\ OneBlock(queue, "play") => ~HasBlock(Tail(queue), "play")
  BY <1>2, TailCalls DEF Calls
<1>4. /\ ~adItemsAttached /\ ~HasBlock(queue, "load") /\ OneBlock(queue, "play")
      /\ caller \notin {"loading", "loaded"}
      /\ prepared # <<>> /\ originalMediaUrls = <<>> /\ ~stopped
  BY <1>3 DEF CallInv, LoadMatches, PlayMatches, StopMatches, AskInv
<1>5. Attach /\ rate' = 1 /\ caller' \in {caller, "playing"}
  BY <1>4 DEF RunPlay, Plays
<1>6. ~Coming'
  BY <1>2, <1>3, <1>4, <1>5 DEF Coming, Calls
<1>7. /\ stale = {} /\ Len(mediaUrls) = adCount /\ Len(prepared) = adCount
      /\ \A n \in 1..Len(items) :
           items[n].url \in Contents /\ items[n].ret = 0 /\ items[n].target = 0
  BY <1>3, <1>4
     DEF QueueInv, ContentOnly, NoneReturns, AdsInFront, Underway, PlaceInv, Settled,
         AllSettled, Coming
<1>8. /\ Len(prepared) \in Nat /\ Len(originalMediaUrls') \in Nat
      /\ Len(items') = Len(prepared) + Len(originalMediaUrls')
      /\ \A n \in 1..Len(items') :
           /\ items'[n].ret = 0
           /\ n <= Len(prepared) => items'[n].url \in Ads
           /\ n > Len(prepared) =>
                /\ n - Len(prepared) \in 1..Len(originalMediaUrls')
                /\ items'[n].url = originalMediaUrls'[n - Len(prepared)]
                /\ items'[n].status = "unknown" /\ items'[n].pos = 0
                /\ n = Len(items') => items'[n].target = originalPosition'
  BY <1>5, AttachedContent
<1>9. /\ originalMediaUrls' = (IF items = <<>> THEN originalMediaUrls ELSE Displaced)
      /\ mediaUrls' = (IF items = <<>> THEN mediaUrls ELSE mediaUrls \o Displaced)
      /\ adItemsAttached' = TRUE /\ observing' = TRUE
      /\ stale' = stale \/ (items # <<>> /\ Head(items).ret > 0)
  BY <1>5, AttachType
<1>10. stale' = {} /\ Len(prepared) > 0
  <2>1. stale' = {}
    BY <1>1, <1>7, <1>9 DEF First
  <2>2. prepared \in Seq(Ads)
    BY DEF TypeInv, ListType, ShortBreaks
  <2> QED BY <1>4, <2>1, <2>2
<1>11. AdsNow' /\ ~HeadIsContent'
  <2>1. 1 \in 1..Len(items') /\ items'[1].url \in Ads
    BY <1>8, <1>10
  <2> QED BY <1>1, <2>1, UrlFacts DEF First
<1>12. Settled'
  BY <1>6 DEF Settled
<1>13. /\ Len(mediaUrls') - adCount' = Len(originalMediaUrls')
       /\ Len(Displaced) = Len(items)
       /\ \A n \in 1..Len(items) : Displaced[n] = items[n].url
  <2>1. /\ Displaced \in Seq(Urls) /\ mediaUrls \in Seq(Urls) /\ adCount \in Nat
        /\ Len(Displaced) = Len(items)
        /\ \A n \in 1..Len(items) : Displaced[n] = items[n].url
    BY DisplacedFields DEF TypeInv, ListType
  <2>2. Len(mediaUrls \o Displaced) = Len(mediaUrls) + Len(Displaced)
    BY <2>1, BehindFacts
  <2>3. /\ Len(Displaced) \in Nat /\ Len(mediaUrls) \in Nat
        /\ items = <<>> => Len(originalMediaUrls') = 0
    BY <1>4, <1>9, <2>1
  <2>4. Len(mediaUrls') - adCount' = Len(originalMediaUrls')
    <3>1. CASE items = <<>>
      BY <1>2, <1>7, <1>9, <2>1, <2>3, <3>1
    <3>2. CASE items # <<>>
      <4>1. Len(mediaUrls') = adCount + Len(Displaced) /\ originalMediaUrls' = Displaced
        BY <1>7, <1>9, <2>2, <3>2
      <4> QED BY <1>2, <2>1, <2>3, <4>1
    <3> QED BY <3>1, <3>2
  <2> QED BY <2>1, <2>4
<1>14. SpeedMatches'
  <2>1. ASSUME NEW n \in 1..Len(items'), items'[n].url \in Contents
        PROVE  Len(items') - n < Len(mediaUrls') - adCount'
    <3>1. n > Len(prepared)
      BY <1>8, <2>1, UrlFacts
    <3> QED BY <1>8, <1>13, <3>1
  <2> QED BY <1>5, <1>9, <1>11, <2>1 DEF SpeedMatches
<1>15. CASE items = <<>>
  <2>1. owed = None /\ owed' = owed
    <3>1. Underway /\ Len(items) = 0
      BY <1>1, <1>3, <1>4, <1>15 DEF Underway, First
    <3>2. owed = None
      BY <3>1 DEF ContentWaits, Waits
    <3> QED BY <1>5, <1>15, <3>2 DEF Attach
  <2>2. Len(originalMediaUrls') = 0
    BY <1>4, <1>9, <1>15
  <2>3. \A n \in 1..Len(items') : items'[n].url \in Ads
    BY <1>8, <2>2
  <2> QED
    BY <1>5, <1>6, <1>12, <1>14, <2>1, <2>3
       DEF PlaceInv, FrontIsOwed, RecordMatches, PlaceMatches
<1>16. CASE items # <<>>
  <2>1. /\ Head(items) = items[1] /\ 1 \in 1..Len(items) /\ Len(items) \in Nat
        /\ Head(items).url \in Contents /\ Head(items).ret = 0 /\ Head(items).target = 0
    BY <1>1, <1>7, <1>16 DEF First
  <2>2. /\ owed' = [url |-> Head(items).url, pos |-> Later(Head(items).pos),
                    rate |-> AppRate, alone |-> Len(items) = 1]
        /\ originalPosition' = Later(Head(items).pos) /\ originalRate' = AppRate
    BY <1>5, <1>16, <2>1 DEF Attach, RateToRestore
  <2>3. /\ owed'.url = items[1].url /\ owed'.pos = originalPosition'
        /\ owed'.rate = originalRate' /\ (owed'.alone => Len(items) = 1)
    BY <2>1, <2>2
  <2>4. /\ Len(originalMediaUrls') = Len(items) /\ originalMediaUrls' = Displaced
        /\ originalMediaUrls'[1] = owed'.url /\ originalMediaUrls' # <<>>
        /\ \A n \in 1..Len(items) : originalMediaUrls'[n] \in Contents
    BY <1>7, <1>9, <1>13, <1>16, <2>1, <2>3
  <2>5. owed' # None
    <3>1. Later(Head(items).pos) \in Positions
      BY <1>16, HeadFields, LaterType
    <3>2. AppRate \in Rates
      BY RateFacts DEF AppRate, TypeInv, PlayerType
    <3>3. (Len(items) = 1) \in BOOLEAN
      OBVIOUS
    <3> QED BY <2>1, <2>2, <3>1, <3>2, <3>3, RecordIsNotNone
  <2>6. ASSUME NEW n \in 1..Len(items'), FirstContent(n)' PROVE n = Len(prepared) + 1
    <3>1. items'[n].url \in Contents /\ n > Len(prepared)
      BY <1>8, <2>6, UrlFacts DEF FirstContent
    <3>2. ASSUME n # Len(prepared) + 1 PROVE FALSE
      <4>1. /\ Len(prepared) + 1 \in 1..(n - 1) /\ Len(prepared) + 1 \in 1..Len(items')
            /\ Len(prepared) + 1 > Len(prepared)
            /\ (Len(prepared) + 1) - Len(prepared) = 1
        BY <1>8, <3>1, <3>2
      <4>2. items'[Len(prepared) + 1].url = originalMediaUrls'[1]
        BY <1>8, <4>1
      <4>3. items'[Len(prepared) + 1].url \in Ads
        BY <2>6, <4>1 DEF FirstContent
      <4> QED BY <2>1, <2>4, <4>2, <4>3, UrlFacts
    <3> QED BY <3>2
  <2>7. ASSUME NEW n \in 1..Len(items'), FirstContent(n)'
        PROVE  /\ items'[n].url = owed'.url
               /\ owed'.alone => AtPlace(items'[n], owed'.pos)
    <3>1. n > Len(prepared) /\ n - Len(prepared) = 1
      BY <1>8, <2>6, <2>7
    <3>2. owed'.alone => n = Len(items')
      <4>1. Len(items') = Len(prepared) + Len(items)
        BY <1>8, <2>4
      <4>2. n = Len(prepared) + 1
        BY <2>6, <2>7
      <4>3. owed'.alone => Len(items) = 1
        BY <2>3
      <4> QED BY <4>1, <4>2, <4>3
    <3> QED BY <1>8, <2>3, <2>4, <3>1, <3>2 DEF AtPlace
  <2>8. FrontIsOwed'
    BY <2>5, <2>7 DEF FrontIsOwed
  <2>9. RecordMatches'
    BY <1>2, <1>4, <1>10, <2>3, <2>4 DEF RecordMatches
  <2>10. PlaceMatches'
    <3>1. ASSUME NEW n \in 1..Len(items'), owed'.alone, FirstContent(n)'
          PROVE  AtPlace(items'[n], owed'.pos)
      BY <2>7, <3>1
    <3>2. \A n \in 1..Len(items') : ~(items'[n].ret > 0)
      BY <1>8
    <3> QED BY <3>1, <3>2 DEF PlaceMatches, AtPlace
  <2> QED
    BY <1>5, <1>6, <1>12, <1>14, <2>8, <2>9, <2>10 DEF PlaceInv
<1> QED BY <1>15, <1>16

\* An item that is ready is at its place; one that fails stays where it is.
LEMMA ReadyPlace ==
  ASSUME TypeInv, NEW n \in DOMAIN items, ItemReady(n)
  PROVE  /\ n \in 1..Len(items) /\ PlacesKept
         /\ items[n].status = "unknown" /\ items'[n].status = "readyToPlay"
         /\ \A m \in 1..Len(items) : m # n => items'[m] = items[m]
         /\ items'[n].pos = (IF items[n].pos = 0 /\ items[n].ret = 0
                               THEN items[n].target ELSE items[n].pos)
         /\ items'[n].target = (IF items[n].ret = 0 THEN 0 ELSE items[n].target)
<1> DEFINE pos == IF items[n].pos = 0 /\ items[n].ret = 0 THEN items[n].target
                                                          ELSE items[n].pos
           target == IF items[n].ret = 0 THEN 0 ELSE items[n].target
           i == [items[n] EXCEPT !.status = "readyToPlay", !.pos = pos, !.target = target]
<1>1. items \in Seq(BreakItems) /\ n \in 1..Len(items) /\ items[n] \in BreakItems
  BY DEF TypeInv, PlayerType
<1>2. items[n].status = "unknown" /\ items' = [items EXCEPT ![n] = i]
  BY <1>1 DEF ItemReady, BreakItems
<1>3. pos \in Positions /\ target \in Positions
  BY <1>1, PositionAssumption DEF BreakItems, Positions
<1>4. /\ i \in BreakItems /\ i.url = items[n].url /\ i.ret = items[n].ret
      /\ i.status = "readyToPlay" /\ i.pos = pos /\ i.target = target
  <2> HIDE DEF pos, target
  <2> QED BY <1>1, <1>3 DEF BreakItems
<1> HIDE DEF i
<1>5. /\ Len(items') = Len(items) /\ items'[n] = i
      /\ \A m \in 1..Len(items) : m # n => items'[m] = items[m]
  BY <1>1, <1>2, <1>4, InPlace
<1>6. items[n].ret \in Nat
  BY <1>1, RateFacts DEF BreakItems
<1>7. ASSUME NEW p, items[n].ret = 0, AtPlace(items[n], p) PROVE AtPlace(i, p)
  BY <1>2, <1>4, <1>7 DEF AtPlace
<1>8. ASSUME NEW m \in 1..Len(items)
      PROVE  /\ items'[m].url = items[m].url /\ items'[m].ret = items[m].ret
             /\ items'[m].target \in {items[m].target, 0}
             /\ items[m].ret > 0 => items'[m].target = items[m].target
             /\ items'[m].status # "failed" => items[m].status # "failed"
             /\ items[m].ret = 0 =>
                  \A p \in Positions : AtPlace(items[m], p) => AtPlace(items'[m], p)
  <2>1. CASE m = n
    BY <1>2, <1>4, <1>5, <1>6, <1>7, <2>1
  <2>2. CASE m # n
    BY <1>5, <2>2
  <2> QED BY <2>1, <2>2
<1> HIDE DEF pos, target
<1>9. PlacesKept
  BY <1>5, <1>8 DEF PlacesKept
<1> QED BY <1>1, <1>2, <1>4, <1>5, <1>9 DEF pos, target

LEMMA FailsPlace ==
  ASSUME TypeInv, NEW n \in DOMAIN items, ItemFails(n)
  PROVE  /\ n \in 1..Len(items) /\ PlacesKept
         /\ items'[n].status = "failed" /\ items'[n].pos = items[n].pos
         /\ \A m \in 1..Len(items) : m # n => items'[m] = items[m]
         /\ items'[n].target = (IF items[n].ret = 0 THEN 0 ELSE items[n].target)
<1> DEFINE target == IF items[n].ret = 0 THEN 0 ELSE items[n].target
           i == [items[n] EXCEPT !.status = "failed", !.target = target]
<1>1. items \in Seq(BreakItems) /\ n \in 1..Len(items) /\ items[n] \in BreakItems
  BY DEF TypeInv, PlayerType
<1>2. items' = [items EXCEPT ![n] = i]
  BY <1>1 DEF ItemFails, BreakItems
<1>3. target \in Positions
  BY <1>1, PositionAssumption DEF BreakItems, Positions
<1>4. /\ i \in BreakItems /\ i.url = items[n].url /\ i.ret = items[n].ret
      /\ i.status = "failed" /\ i.pos = items[n].pos /\ i.target = target
  <2> HIDE DEF target
  <2> QED BY <1>1, <1>3 DEF BreakItems
<1> HIDE DEF i
<1>5. /\ Len(items') = Len(items) /\ items'[n] = i
      /\ \A m \in 1..Len(items) : m # n => items'[m] = items[m]
  BY <1>1, <1>2, <1>4, InPlace
<1>6. items[n].ret \in Nat
  BY <1>1, RateFacts DEF BreakItems
<1>7. ASSUME NEW m \in 1..Len(items)
      PROVE  /\ items'[m].url = items[m].url /\ items'[m].ret = items[m].ret
             /\ items'[m].target \in {items[m].target, 0}
             /\ items[m].ret > 0 => items'[m].target = items[m].target
             /\ items'[m].status # "failed" => items'[m] = items[m]
  <2>1. CASE m = n
    BY <1>4, <1>5, <1>6, <2>1
  <2>2. CASE m # n
    BY <1>5, <2>2
  <2> QED BY <2>1, <2>2
<1> HIDE DEF target
<1>8. PlacesKept
  BY <1>5, <1>7 DEF PlacesKept
<1> QED BY <1>1, <1>4, <1>5, <1>8 DEF target

\* The seek of returnToContent() completes.
LEMMA SeekPlace ==
  ASSUME TypeInv, ReturnSeekCompletes
  PROVE  /\ items # <<>> /\ 1 \in 1..Len(items) /\ Len(items') = Len(items)
         /\ items[1].ret > 0 /\ rate' = items[1].ret
         /\ items'[1].url = items[1].url /\ items'[1].status = items[1].status
         /\ items'[1].pos = items[1].target /\ items'[1].target = 0 /\ items'[1].ret = 0
         /\ \A m \in 1..Len(items) : m # 1 => items'[m] = items[m]
<1> DEFINE i == [items[1] EXCEPT !.pos = items[1].target, !.target = 0, !.ret = 0]
<1>1. items # <<>> /\ Head(items).ret > 0 /\ rate' = items[1].ret
  BY DEF ReturnSeekCompletes
<1>2. /\ items \in Seq(BreakItems) /\ 1 \in 1..Len(items) /\ items[1] \in BreakItems
      /\ Head(items) = items[1]
  BY <1>1, HeadFields DEF TypeInv, PlayerType
<1>3. items' = [items EXCEPT ![1] = i]
  BY <1>2 DEF ReturnSeekCompletes, BreakItems
<1>4. /\ i \in BreakItems /\ i.url = items[1].url /\ i.status = items[1].status
      /\ i.pos = items[1].target /\ i.ret = 0 /\ i.target = 0
  <2>1. 0 \in Rates /\ 0 \in Positions
    BY RateFacts, PositionAssumption DEF Positions
  <2> QED BY <1>2, <2>1 DEF BreakItems
<1> HIDE DEF i
<1> QED
  BY <1>1, <1>2, <1>3, <1>4, InPlace

LEMMA PlaceSeeks ==
  ASSUME TypeInv, TypeInv', QueueInv, PlaceInv, ReturnSeekCompletes, Coming' => Coming,
         UNCHANGED <<original, adItemsAttached, stopped, owed, stale>>
  PROVE  PlaceInv'
<1> USE DEF original
<1>1. First /\ First'
  BY FirstItem, PTL
<1>2. /\ items # <<>> /\ 1 \in 1..Len(items) /\ Len(items') = Len(items)
      /\ items[1].ret > 0 /\ rate' = items[1].ret
      /\ items'[1].url = items[1].url
      /\ items'[1].pos = items[1].target /\ items'[1].target = 0 /\ items'[1].ret = 0
      /\ \A m \in 1..Len(items) : m # 1 => items'[m] = items[m]
  BY SeekPlace
<1>3. ~adItemsAttached /\ ~AdsNow
  BY <1>2, AdsAttached DEF QueueInv, NoneReturns, Underway
<1>4. \A n \in 1..Len(items) : items[n].url \in Contents /\ items'[n].url = items[n].url
  BY <1>2, <1>3, AdsAttached
<1>5. /\ ~AdsNow' /\ HeadIsContent' /\ items' # <<>> /\ Head(items') = items'[1]
  BY <1>1, <1>2, <1>4, UrlFacts DEF First
<1>6. \A n \in 1..Len(items) : FirstContent(n)' => n = 1
  <2> SUFFICES ASSUME NEW n \in 1..Len(items), FirstContent(n)', n # 1 PROVE FALSE
    OBVIOUS
  <2>1. 1 \in 1..(n - 1)
    BY <1>1 DEF First
  <2> QED BY <1>2, <1>4, <2>1, UrlFacts DEF FirstContent
<1>7. Settled'
  BY <1>2 DEF PlaceInv, Settled, AllSettled
<1>8. owed # None =>
        /\ items[1].url = owed.url /\ items[1].target = owed.pos /\ items[1].ret = owed.rate
        /\ \A n \in 1..Len(items) : items[n].ret > 0 => n = 1
  <2>1. FirstContent(1)
    BY <1>2, <1>4 DEF FirstContent
  <2> QED BY <1>2, <2>1 DEF PlaceInv, FrontIsOwed, PlaceMatches
<1>9. FrontIsOwed'
  BY <1>2, <1>5, <1>6, <1>8 DEF FrontIsOwed
<1>10. RecordMatches'
  BY <1>2, <1>3, <1>5 DEF PlaceInv, RecordMatches
<1>11. PlaceMatches'
  <2>1. ASSUME owed # None, NEW n \in 1..Len(items) PROVE ~(items'[n].ret > 0)
    BY <1>2, <1>8, <2>1
  <2>2. owed # None => AtPlace(items'[1], owed.pos)
    BY <1>2, <1>8 DEF AtPlace
  <2> QED BY <1>2, <1>6, <2>1, <2>2 DEF PlaceMatches, AtPlace
<1>12. SpeedMatches'
  BY <1>2, <1>5, <1>8 DEF SpeedMatches
<1> QED
  BY <1>7, <1>9, <1>10, <1>11, <1>12 DEF PlaceInv

\* A fresh item in the place of an ad starts over, and changes nothing behind it.
LEMMA SwapPlace ==
  ASSUME TypeInv, QueueInv, DiagnosticsSwap(FALSE)
  PROVE  /\ AdsNow /\ PlacesKept /\ UNCHANGED <<rate, stale, observing>>
<1> DEFINE i == NewItem(Head(items).url, 0)
           q == <<i>> \o Tail(items)
<1>1. /\ items # <<>> /\ Head(items).url \in Ads /\ AdsNow /\ Advance(q, rate)
  BY DEF DiagnosticsSwap, AdsNow
<1>2. /\ i \in BreakItems /\ i.url = Head(items).url /\ i.ret = 0 /\ i.target = 0
  BY <1>1, HeadFields, NewItemFields, BoundAssumption
<1> HIDE DEF i
<1>3. items' = <<i>> \o Tail(items) /\ items' = q
  BY <1>1 DEF Advance, SetItems
<1>4. /\ q \in Seq(BreakItems) /\ Len(q) = Len(items) /\ q[1] = i
      /\ \A n \in 1..Len(items) : n # 1 => q[n] = items[n]
  <2>1. <<i>> \in Seq(BreakItems) /\ Tail(items) \in Seq(BreakItems)
    BY <1>1, <1>2, HeadFields
  <2>2. q \in Seq(BreakItems)
    BY <2>1, BehindFacts, ZenonT(30)
  <2> QED BY <1>1, <1>2, <1>3, <2>2, SwappedFields
<1>5. /\ Head(items) = items[1] /\ 1 \in 1..Len(items) /\ Len(items) \in Nat
  BY <1>1, HeadFields
<1>6. /\ items[1].ret = 0 /\ items[1].url \notin Contents
      /\ Len(items) - 1 >= Len(mediaUrls) - adCount
  BY <1>1, <1>5, AdsAttached, UrlFacts DEF QueueInv, AdsInFront
<1> HIDE DEF q
<1>7. /\ \/ rate' = rate /\ observing' = observing
         \/ AtOriginal(q)
      /\ stale' = stale \/ Head(items).ret > 0
  <2>1. rate \in Rates
    BY DEF TypeInv, PlayerType
  <2> QED BY <1>1, <1>4, <2>1, AdvanceType, Zenon
<1>8. ~AtOriginal(q)
  <2>1. Len(mediaUrls) \in Nat /\ adCount \in Nat
    BY DEF TypeInv, ListType
  <2> QED BY <1>4, <1>5, <1>6, <2>1 DEF AtOriginal
<1>9. UNCHANGED <<rate, stale, observing>>
  BY <1>5, <1>6, <1>7, <1>8
<1>10. PlacesKept
  <2>1. ASSUME NEW m \in 1..Len(items)
        PROVE  /\ items'[m].url = items[m].url /\ items'[m].ret = items[m].ret
               /\ items'[m].target \in {items[m].target, 0}
               /\ items[m].ret > 0 => items'[m].target = items[m].target
               /\ items[m].url \in Contents => items'[m] = items[m]
    <3>1. CASE m = 1
      BY <1>2, <1>3, <1>4, <1>5, <1>6, <3>1
    <3>2. CASE m # 1
      BY <1>3, <1>4, <3>2
    <3> QED BY <3>1, <3>2
  <2> QED BY <1>3, <1>4, <2>1 DEF PlacesKept
<1> QED BY <1>1, <1>9, <1>10

\* Content plays to its end, or is dropped: it is the interrupted one.
LEMMA PlaceContentEnds ==
  ASSUME TypeInv, TypeInv', QueueInv, PlaceInv, HeadIsContent, items' = Tail(items),
         owed' = (IF owed # None /\ Head(items).url = owed.url THEN None ELSE owed),
         Coming' => Coming
  PROVE  PlaceInv' /\ owed' = None
<1>1. First /\ items # <<>>
  BY FirstItem DEF HeadIsContent
<1>2. /\ Head(items) = items[1] /\ 1 \in 1..Len(items) /\ ~AdsNow
      /\ items[1].url \in Contents
  BY <1>1, UrlFacts DEF First, HeadIsContent
<1>3. /\ Len(items') = Len(items) - 1
      /\ \A n \in 1..Len(items') : n + 1 \in 1..Len(items) /\ items'[n] = items[n + 1]
  BY <1>1, HeadFields
<1>4. \A n \in 1..Len(items') : items'[n].url \in Contents
  BY <1>2, <1>3, AdsAttached
<1>5. owed' = None
  <2>1. FirstContent(1)
    BY <1>2 DEF FirstContent
  <2> QED BY <1>2, <2>1 DEF PlaceInv, FrontIsOwed
<1>6. Settled'
  BY <1>3 DEF PlaceInv, Settled, AllSettled
<1> QED BY <1>4, <1>5, <1>6, PlaceOfContent

LEMMA PlayerStepPlace ==
  ASSUME TypeInv, TypeInv', QueueInv, PlaceInv, OneByOne,
         \/ AVQueuePlayer \/ \E rebuild \in BOOLEAN : DiagnosticsSwap(rebuild)
         \/ \E n \in DOMAIN Playlist, r \in Rates : AppPlays(n, r)
  PROVE  PlaceInv'
<1> USE DEF list, original, avPlayer, phase
<1>1. UNCHANGED <<mediaUrls, adCount, originalMediaUrls, originalPosition, originalRate,
                  adItemsAttached, stopped, caller>>
  BY PlayerStepBlocks DEF Idle
<1>2. Coming' => Coming
  <2>1. CallsSame
    BY PlayerStepBlocks, CallsUnchanged, CallsDispatch DEF TypeInv
  <2> QED BY <1>1, <2>1 DEF CallsSame, Calls, Coming
<1>3. ASSUME PlacesKept, UNCHANGED <<rate, stale, observing, owed>> PROVE PlaceInv'
  BY <1>1, <1>2, <1>3, PlaceInPlace
<1>4. ASSUME NEW n \in DOMAIN items, ItemReady(n) \/ ItemFails(n) PROVE PlaceInv'
  <2>1. PlacesKept
    BY <1>4, ReadyPlace, FailsPlace
  <2> QED BY <1>3, <1>4, <2>1 DEF ItemReady, ItemFails
<1>5. CASE ItemFailedToPlayToEnd
  <2>1. UNCHANGED <<items, rate, stale, observing, owed>>
    BY <1>5 DEF ItemFailedToPlayToEnd
  <2> QED BY <1>3, <2>1, PlacesSame
<1>6. CASE ItemEnds \/ FailedItemDropped
  <2>1. /\ items # <<>> /\ Advance(Tail(items), IF Len(items) = 1 THEN 0 ELSE rate)
        /\ owed' = (IF owed # None /\ Head(items).url = owed.url THEN None ELSE owed)
    BY <1>6 DEF ItemEnds, FailedItemDropped, Playing
  <2>2. Head(items).url \in Urls /\ (owed # None => owed.url \in Contents)
    BY <2>1, HeadFields DEF TypeInv, ListType
  <2>3. CASE AdsNow
    <3>1. owed' = owed
      BY <2>1, <2>2, <2>3, UrlFacts DEF AdsNow
    <3>2. PICK r \in Rates : (r = rate \/ Len(items) = 1) /\ Advance(Tail(items), r)
      <4>1. (IF Len(items) = 1 THEN 0 ELSE rate) \in Rates
        BY RateFacts DEF TypeInv, PlayerType
      <4> QED BY <2>1, <4>1
    <3> QED BY <1>1, <1>2, <2>3, <3>1, <3>2, PlaceAdLeaves
  <2>4. CASE ~AdsNow
    <3>1. HeadIsContent
      BY <2>1, <2>2, <2>4 DEF AdsNow, HeadIsContent, Urls
    <3>2. items' = Tail(items)
      BY <2>1 DEF Advance, SetItems
    <3> QED BY <1>2, <2>1, <3>1, <3>2, PlaceContentEnds
  <2> QED BY <2>3, <2>4
<1>7. CASE ReturnSeekCompletes
  <2>1. UNCHANGED <<owed, stale>>
    BY <1>7 DEF ReturnSeekCompletes
  <2> QED BY <1>1, <1>2, <1>7, <2>1, PlaceSeeks
<1>8. ASSUME NEW r \in stale, StaleSeekCompletes(r) PROVE PlaceInv'
  <2>1. UNCHANGED <<items, owed>>
    BY <1>8 DEF StaleSeekCompletes
  <2>2. owed = None /\ ~AdsNow
    BY <1>8, AdsAttached DEF PlaceInv, RecordMatches
  <2>3. \A n \in 1..Len(items) : items[n].url \in Contents
    BY <2>2, AdsAttached
  <2>4. Settled'
    BY <1>2, <2>1 DEF PlaceInv, Settled, AllSettled
  <2> QED BY <2>1, <2>2, <2>3, <2>4, PlaceOfContent
<1>9. ASSUME NEW rebuild \in BOOLEAN, DiagnosticsSwap(rebuild) PROVE PlaceInv'
  <2>1. DiagnosticsSwap(FALSE)
    BY <1>9 DEF DiagnosticsSwap, OneByOne
  <2>2. UNCHANGED owed
    BY <2>1 DEF DiagnosticsSwap
  <2> QED BY <1>3, <2>1, <2>2, SwapPlace
<1>10. ASSUME NEW n \in DOMAIN Playlist, NEW r \in Rates, AppPlays(n, r) PROVE PlaceInv'
  <2>1. items' = AppItems(n) /\ owed' = None
    BY <1>10 DEF AppPlays, SetItems
  <2>2. /\ Len(AppItems(n)) = n
        /\ \A m \in 1..n : AppItems(n)[m].url \in Contents /\ AppItems(n)[m].target = 0
    BY AppItemsFields, Zenon
  <2>3. \A m \in 1..Len(items') : items'[m].url \in Contents /\ items'[m].target = 0
    BY <2>1, <2>2
  <2>4. Settled'
    BY <2>3 DEF Settled, AllSettled
  <2> QED BY <2>1, <2>3, <2>4, PlaceOfContent
<1> QED
  BY <1>4, <1>5, <1>6, <1>7, <1>8, <1>9, <1>10 DEF AVQueuePlayer

LEMMA MainPlace ==
  ASSUME TypeInv, TypeInv', CallInv, QueueInv, ContentWaits, AskInv, PlaceInv, OneByOne,
         RunMain
  PROVE  PlaceInv'
<1> USE DEF list, original, watch, avPlayer, pod, phase
<1>1. QueueType /\ External
  BY DEF TypeInv, OneByOne
<1>2. ASSUME NEW kind \in {"cancelled"} \cup AdKinds, Body(kind), queue' = Tail(queue),
             UNCHANGED <<items, rate, stale, observing, owed, mediaUrls, adCount,
                         originalMediaUrls, originalPosition, originalRate,
                         adItemsAttached, stopped, caller>>
      PROVE  PlaceInv'
  <2>1. kind \notin Calls
    BY <1>2 DEF AdKinds, Calls
  <2>2. Coming' => Coming
    BY <1>1, <1>2, <2>1, CallsTail DEF CallsSame, Calls, Coming
  <2> QED BY <1>2, <2>2, PlacesSame, PlaceInPlace
<1>3. CASE SkipCancelled
  BY <1>2, <1>3 DEF SkipCancelled
<1>4. CASE AdItemFailed \/ AdItemBroken \/ AdItemEnded
  BY <1>2, <1>4 DEF AdItemFailed, AdItemBroken, AdItemEnded, AdEvent, AdKinds
<1>5. CASE RunLoad
  BY <1>1, <1>5, PlaceLoads
<1>6. CASE RunPlay
  BY <1>1, <1>6, PlaceAttaches
<1>7. CASE RunStop
  <2>1. ReleasePlayer(Tail(queue)) /\ UNCHANGED <<owed, original>>
    BY <1>7 DEF RunStop
  <2>2. items' = <<>> /\ (stale' = stale \/ (items # <<>> /\ Head(items).ret > 0))
    BY <2>1 DEF ReleasePlayer, SetItems
  <2>3. adItemsAttached
    <3>1. Body("stop")
      BY <1>7 DEF RunStop
    <3>2. HasBlock(queue, "stop") /\ ~HasBlock(queue, "play")
      BY <1>1, <3>1, TailCalls, InSequenceTail DEF AskInv
    <3> QED BY <3>2 DEF CallInv, StopMatches, AskInv
  <2> QED BY <2>1, <2>2, <2>3, PlaceStops
<1>8. CASE RunReturn
  <2>1. Return /\ ~adItemsAttached /\ ~Underway'
    BY <1>8, ReturnsToNone
  <2>2. /\ HasBlock(queue, "return") /\ UNCHANGED caller
        /\ \A c \in Calls : HasBlock(queue', c) => HasBlock(queue, c)
    BY <1>1, <1>8, TailCalls DEF RunReturn, Return
  <2>3. stopped
    BY <2>2 DEF CallInv, StopMatches
  <2>4. ~HasBlock(queue, "play")
    BY <2>3 DEF CallInv, StopMatches, AskInv
  <2>5. ~Coming'
    BY <2>1, <2>2, <2>4 DEF Coming, Underway, Calls
  <2> QED BY <2>1, <2>3, <2>5, PlaceReturns
<1> QED
  BY <1>3, <1>4, <1>5, <1>6, <1>7, <1>8 DEF RunMain

LEMMA CorePlace ==
  ASSUME TypeInv, TypeInv', CallInv, QueueInv, AskInv, AskInv', PlaceInv, OneByOne, Core
  PROVE  PlaceInv'
<1> USE DEF list, original, watch, avPlayer, pod, phase
<1>1. QueueType /\ queue \in Seq(BreakBlocks) /\ External
  BY DEF TypeInv, QueueType, OneByOne
<1>2. ASSUME Coming' => Coming \/ AllSettled, stopped' => stopped,
             UNCHANGED <<items, rate, stale, observing, owed, mediaUrls, adCount, original,
                         adItemsAttached>>
      PROVE  PlaceInv'
  BY <1>2, PlacesSame, PlaceInPlace
<1>3. ASSUME NEW urls \in Breaks, Load(urls) PROVE PlaceInv'
  <2>1. ~Returning
    BY <1>1, <1>3 DEF Load, OneByOne
  <2>2. AllSettled
    <3>1. ASSUME NEW n \in 1..Len(items) PROVE items[n].target = 0
      <4>1. n \in DOMAIN items /\ items[n].target \in Nat
        BY ItemsFields, PositionAssumption DEF Positions
      <4>2. ~(items[n].target > 0)
        BY <2>1, <4>1, Zenon DEF Returning
      <4> QED BY <4>1, <4>2
    <3> QED BY <3>1 DEF AllSettled
  <2> QED BY <1>2, <1>3, <2>2 DEF Load
<1>4. CASE Play
  <2>1. Coming
    BY <1>4 DEF Play, Coming
  <2> QED BY <1>2, <1>4, <2>1 DEF Play
<1>5. CASE StopIgnored \/ PlayedOut
  <2>1. Coming' => Coming
    BY <1>5 DEF StopIgnored, PlayedOut, Coming
  <2> QED BY <1>2, <1>5, <2>1 DEF StopIgnored, PlayedOut
<1>6. CASE Stop
  <2>1. queue' = Append(LoadsCancelled(queue), [kind |-> "stop"]) /\ caller' = "stopping"
    BY <1>6 DEF Stop
  <2>2. [kind |-> "stop"] \in BreakBlocks
    BY BlockTypes
  <2>3. \A c \in {"load", "play"} : HasBlock(queue', c) => HasBlock(queue, c)
    BY <1>1, <2>1, <2>2, CancelCalls, AppendCalls DEF Calls
  <2>4. Coming' => Coming
    BY <2>1, <2>3 DEF Coming
  <2> QED BY <1>2, <1>6, <2>4 DEF Stop
<1>7. CASE StopOnMain
  <2>1. /\ adItemsAttached /\ ReleasePlayer(LoadsCancelled(queue))
        /\ UNCHANGED <<owed, original>>
    BY <1>1, <1>7 DEF StopOnMain, OneByOne
  <2>2. items' = <<>> /\ (stale' = stale \/ (items # <<>> /\ Head(items).ret > 0))
    BY <2>1 DEF ReleasePlayer, SetItems
  <2> QED BY <2>1, <2>2, PlaceStops
<1>8. CASE ReturnToContent
  <2>1. queue' = Append(queue, [kind |-> "return"]) /\ UNCHANGED caller
    BY <1>8 DEF ReturnToContent, Dispatch
  <2>2. [kind |-> "return"] \in BreakBlocks
    BY BlockTypes
  <2>3. \A c \in {"load", "play"} : HasBlock(queue', c) => HasBlock(queue, c)
    BY <1>1, <2>1, <2>2, AppendCalls DEF Calls
  <2>4. Coming' => Coming
    BY <2>1, <2>3 DEF Coming
  <2> QED BY <1>2, <1>8, <2>4 DEF ReturnToContent
<1>9. CASE ReturnOnMain
  <2>1. Return /\ ~adItemsAttached /\ ~Underway'
    BY <1>9, ReturnsToNone
  <2>2. stopped /\ UNCHANGED <<queue, caller>>
    BY <1>9 DEF ReturnOnMain, Return
  <2>3. ~HasBlock(queue, "play")
    BY <2>2 DEF CallInv, StopMatches, AskInv
  <2>4. ~Coming'
    BY <2>1, <2>2, <2>3 DEF Coming, Underway
  <2> QED BY <2>1, <2>2, <2>4, PlaceReturns
<1>10. CASE PlayNextItem
  <2>1. /\ items # <<>> /\ Advance(Tail(items), rate) /\ Head(items).url \notin Contents
        /\ UNCHANGED <<owed, mediaUrls, adCount, original, adItemsAttached, stopped, queue,
                       caller>>
    BY <1>10 DEF PlayNextItem, OneByOne
  <2>2. AdsNow /\ rate \in Rates
    BY <2>1, HeadFields DEF AdsNow, Urls, TypeInv, PlayerType
  <2>3. Coming' => Coming
    BY <2>1 DEF Coming
  <2> QED BY <2>1, <2>2, <2>3, PlaceAdLeaves
<1>11. ASSUME NEW u \in Ads, EnqueueNextItem(u) \/ RemoveNextItem(u) PROVE FALSE
  BY <1>11 DEF EnqueueNextItem, RemoveNextItem, OneByOne
<1>12. ASSUME NEW r \in {0, 1}, PauseResume(r) PROVE FALSE
  BY <1>12 DEF PauseResume, OneByOne
<1> QED
  BY <1>3, <1>4, <1>5, <1>6, <1>7, <1>8, <1>9, <1>10, <1>11, <1>12 DEF Core

\* The inductive invariant of the implementation.
BreakInv == TypeInv /\ CallInv /\ QueueInv /\ ContentWaits /\ AskInv /\ PlaceInv

LEMMA InOrderOfOneByOne == OneByOne => InTurn /\ InOrder
BY DEF OneByOne, InTurn, InOrder

LEMMA InitBreak == Init => BreakInv
<1>1. Init => ContentWaits
  BY DEF Init, ContentWaits
<1> QED BY <1>1, InitType, InitCall, InitQueue, InitAsk, InitPlace DEF BreakInv

LEMMA StepBreak == BreakInv /\ OneByOne /\ [Next]_vars => BreakInv'
<1> SUFFICES ASSUME BreakInv, OneByOne, [Next]_vars PROVE BreakInv'
  OBVIOUS
<1>1. /\ TypeInv /\ CallInv /\ QueueInv /\ ContentWaits /\ AskInv /\ PlaceInv
      /\ InTurn /\ InOrder
  BY InOrderOfOneByOne DEF BreakInv
<1>2. TypeInv' /\ CallInv' /\ QueueInv' /\ ContentWaits' /\ AskInv'
  BY <1>1, StepType, StepCall, StepQueue, StepWaits, StepAsk
<1>3. PlaceInv'
  <2>1. CASE Next
    BY <1>1, <1>2, <2>1, CorePlace, MainPlace, PlayerStepPlace DEF Next
  <2>2. CASE UNCHANGED vars
    <3>1. Coming' => Coming
      BY <2>2 DEF vars, Coming
    <3> QED BY <1>1, <1>2, <2>2, <3>1, PlacesSame, PlaceInPlace
            DEF vars, list, original, avPlayer, phase
  <2> QED BY <2>1, <2>2
<1> QED BY <1>2, <1>3 DEF BreakInv

------------------------------------------------------------------------------
\* The implementation of AdBreak: each step as AdBreak sees it.

\* The view of the content: as long as it is owed, it is first or it is kept.
Comes == items[1].ret > 0 \/ items[1].target > 0
View ==
  /\ AdsNow \in BOOLEAN /\ (HeadIsContent => ~AdsNow)
  /\ items # <<>> => AdsNow \/ HeadIsContent
  /\ owed = None => ContentNow = IF HeadIsContent THEN "front" ELSE "none"
  /\ owed # None => ContentNow = IF ~HeadIsContent THEN "kept"
                                 ELSE IF Comes THEN "returning"
                                 ELSE IF items[1].status = "failed" THEN "broken" ELSE "back"
  /\ ShownNow = IF HeadIsContent /\ (owed = None \/ ~Comes)
                  THEN [pos |-> items[1].pos, rate |-> rate] ELSE None
  /\ HeadIsContent => [pos |-> items[1].pos, rate |-> rate] \in Break!Marks
  /\ owed # None =>
       [pos |-> owed.pos, rate |-> owed.rate, exact |-> owed.alone] \in Break!Dues

LEMMA ViewHolds == BreakInv => View
<1> SUFFICES ASSUME BreakInv PROVE View
  OBVIOUS
<1>1. /\ TypeInv /\ ContentWaits /\ PlaceInv
      /\ Len(items) \in Nat /\ (items = <<>> <=> Len(items) = 0)
      /\ items # <<>> => Head(items) = items[1] /\ 1 \in 1..Len(items)
  BY FirstItem DEF BreakInv, First
<1>2. owed # None => owed.url \in Contents /\ owed.pos \in Positions /\ owed.rate \in Rates
                     /\ owed.alone \in BOOLEAN
  BY <1>1 DEF TypeInv, ListType
<1>3. owed # None => (HeadIsContent <=> HeadIsOwed)
  <2>1. owed # None /\ HeadIsContent => FirstContent(1)
    BY <1>1 DEF HeadIsContent, FirstContent
  <2> QED BY <1>1, <1>2, <2>1 DEF PlaceInv, FrontIsOwed, HeadIsOwed, HeadIsContent
<1>4. owed # None => InQueue \/ Recorded
  <2>1. owed # None /\ Waits => InQueue
    BY <1>1, ItemsFields DEF Waits, InQueue
  <2>2. ASSUME owed # None, items = <<>> PROVE Recorded
    <3>1. originalMediaUrls # <<>> /\ originalMediaUrls[1] = owed.url
      BY <1>1, <2>2 DEF PlaceInv, RecordMatches
    <3>2. originalMediaUrls \in Seq(Urls)
      BY <1>1 DEF TypeInv, ListType
    <3>3. 1 \in DOMAIN originalMediaUrls
      BY <3>1, <3>2
    <3> QED BY <3>1, <3>3 DEF Recorded, ToSet
  <2> QED BY <1>1, <2>1, <2>2 DEF ContentWaits
<1>5. /\ owed = None => ContentNow = IF HeadIsContent THEN "front" ELSE "none"
      /\ owed # None => ContentNow = IF ~HeadIsContent THEN "kept"
                                     ELSE IF Comes THEN "returning"
                                     ELSE IF items[1].status = "failed" THEN "broken"
                                     ELSE "back"
  <2>1. CASE owed = None
    BY <2>1 DEF ContentNow
  <2>2. CASE owed # None /\ ~HeadIsOwed
    BY <1>3, <1>4, <2>2 DEF ContentNow
  <2>3. CASE owed # None /\ HeadIsOwed
    <3>1. Head(items) = items[1] /\ HeadIsContent
      BY <1>1, <1>3, <2>3 DEF HeadIsOwed
    <3> QED BY <2>3, <3>1 DEF ContentNow, Comes
  <2> QED BY <2>1, <2>2, <2>3
<1>6. ShownNow = IF HeadIsContent /\ (owed = None \/ ~Comes)
                   THEN [pos |-> items[1].pos, rate |-> rate] ELSE None
  <2>1. HeadIsContent => Head(items) = items[1]
    BY <1>1 DEF HeadIsContent
  <2> QED BY <1>5, <2>1 DEF ShownNow
<1>7. HeadIsContent => [pos |-> items[1].pos, rate |-> rate] \in Break!Marks
  <2>1. items # <<>> => items[1].pos \in Nat
    BY <1>1, HeadFields, PositionAssumption DEF Positions
  <2>2. rate \in Nat
    BY <1>1, RateFacts DEF TypeInv, PlayerType
  <2> QED BY <2>1, <2>2 DEF HeadIsContent, Break!Marks
<1>8. owed # None =>
        [pos |-> owed.pos, rate |-> owed.rate, exact |-> owed.alone] \in Break!Dues
  <2>1. Positions \subseteq Nat
    BY PositionAssumption DEF Positions
  <2> QED BY <1>2, <2>1, RateFacts DEF Break!Dues
<1>9. /\ AdsNow \in BOOLEAN /\ (HeadIsContent => ~AdsNow)
      /\ items # <<>> => AdsNow \/ HeadIsContent
  <2>1. items # <<>> => Head(items).url \in Urls
    BY <1>1, HeadFields
  <2> QED BY <2>1, UrlFacts DEF AdsNow, HeadIsContent, Urls
<1> QED BY <1>5, <1>6, <1>7, <1>8, <1>9 DEF View

\* The view of a break is a state of AdBreak.
LEMMA AbsTypes == BreakInv => Break!TypeOK
<1> SUFFICES ASSUME BreakInv PROVE Break!TypeOK
  OBVIOUS
<1>1. View /\ First
  BY ViewHolds, FirstItem DEF BreakInv
<1>2. BreakNow \in {"none", "asked", "begun"} /\ AdsNow \in BOOLEAN
  BY DEF BreakNow, AdsNow
<1>3. AdsNow => ~HeadIsContent
  BY UrlFacts DEF AdsNow, HeadIsContent
<1>4. ContentNow \in {"none", "front"} \cup Break!Owed
  BY <1>1 DEF View, Break!Owed
<1>5. AdsNow => ContentNow \in {"none", "kept"}
  BY <1>1, <1>3 DEF View
<1>6. DueNow \in Break!Dues \cup {None} /\ (DueNow = None <=> ContentNow \notin Break!Owed)
  <2>1. CASE owed = None
    BY <1>1, <2>1 DEF View, DueNow, Break!Owed
  <2>2. CASE owed # None
    <3>1. DueNow \in Break!Dues /\ DueNow # None
      BY <1>1, <2>2, NoneAssumption DEF View, DueNow
    <3> QED BY <1>1, <2>2, <3>1 DEF View, Break!Owed
  <2> QED BY <2>1, <2>2
<1>7. /\ ShownNow \in Break!Marks \cup {None}
      /\ ShownNow = None <=> ContentNow \notin Break!InPlayer
  <2>1. CASE HeadIsContent /\ (owed = None \/ ~Comes)
    <3>1. ShownNow \in Break!Marks /\ ShownNow # None
      BY <1>1, <2>1, NoneAssumption DEF View
    <3> QED BY <1>1, <2>1, <3>1 DEF View, Break!InPlayer
  <2>2. CASE ~(HeadIsContent /\ (owed = None \/ ~Comes))
    BY <1>1, <2>2 DEF View, Break!InPlayer
  <2> QED BY <2>1, <2>2
<1> QED BY <1>2, <1>4, <1>5, <1>6, <1>7 DEF Break!TypeOK

LEMMA InitAbs == BreakInv /\ Init => Break!Init
<1> SUFFICES ASSUME BreakInv, Init PROVE Break!Init
  OBVIOUS
<1>1. View
  BY ViewHolds
<1>2. BreakNow = "none" /\ DueNow = None /\ owed = None
  BY DEF Init, BreakNow, DueNow
<1>3. ~AdsNow
  BY AdsAttached DEF BreakInv, Init
<1> QED
  BY <1>1, <1>2, <1>3 DEF View, Break!Init

\* What AdBreak sees of a step.
Seen == UNCHANGED <<AdsNow, ContentNow, DueNow, ShownNow>>

LEMMA ItemNumbers ==
  ASSUME NEW i \in BreakItems PROVE i.pos \in Nat /\ i.target \in Nat /\ i.ret \in Nat
<1>1. Positions \subseteq Nat /\ Rates \subseteq Nat
  BY RateFacts, PositionAssumption DEF Positions
<1> QED BY <1>1 DEF BreakItems

\* The first item shows the same.
LEMMA AbsSame ==
  ASSUME BreakInv, BreakInv', UNCHANGED <<owed, rate>>, Len(items') = Len(items),
         Len(items) > 0 => /\ items'[1].url = items[1].url /\ items'[1].pos = items[1].pos
                           /\ items'[1].ret = items[1].ret
                           /\ items'[1].target = items[1].target
                           /\ items'[1].status = items[1].status
  PROVE  Seen
<1>1. View /\ View' /\ First /\ First'
  BY ViewHolds, FirstItem, PTL DEF BreakInv
<1>2. (AdsNow' <=> AdsNow) /\ (HeadIsContent' <=> HeadIsContent)
  BY <1>1 DEF First
<1>3. AdsNow' = AdsNow
  BY <1>1, <1>2 DEF View
<1>4. HeadIsContent => (Comes' <=> Comes)
  BY <1>1 DEF First, Comes
<1>5. UNCHANGED ContentNow
  BY <1>1, <1>2, <1>4 DEF View, First
<1>6. UNCHANGED ShownNow
  <2>1. HeadIsContent => items'[1].pos = items[1].pos
    BY <1>1 DEF First
  <2> QED BY <1>1, <1>2, <1>4, <2>1 DEF View
<1> QED BY <1>3, <1>5, <1>6 DEF Seen, DueNow

LEMMA AbsItems == ASSUME BreakInv, BreakInv', UNCHANGED <<items, owed, rate>> PROVE Seen
BY AbsSame

\* An ad is first and stays first.
LEMMA AbsAds == ASSUME BreakInv, BreakInv', AdsNow, AdsNow', UNCHANGED owed PROVE Seen
<1>1. View /\ View'
  BY ViewHolds, PTL
<1>2. ~HeadIsContent /\ ~HeadIsContent' /\ AdsNow' = AdsNow
  BY <1>1 DEF View
<1> QED BY <1>1, <1>2 DEF View, Seen, DueNow

\* The content is in the player, at its place and speed.
LEMMA AbsComes ==
  ASSUME BreakInv, BreakInv', UNCHANGED <<owed, BreakNow>>, owed # None,
         ContentNow \in {"kept", "returning"}, HeadIsContent', ~Comes'
  PROVE  Break!Resume \/ Break!Fail
<1>1. View /\ View' /\ First'
  BY ViewHolds, FirstItem, PTL DEF BreakInv
<1>2. AdsNow' = FALSE
  BY <1>1 DEF View
<1>3. ShownNow' = [pos |-> items'[1].pos, rate |-> rate'] /\ ShownNow' \in Break!Marks
  BY <1>1 DEF View
<1>4. UNCHANGED DueNow
  BY DEF DueNow
<1>5. CASE items'[1].status = "failed"
  <2>1. ContentNow' = "broken"
    BY <1>1, <1>5 DEF View
  <2> QED BY <1>2, <1>3, <1>4, <2>1 DEF Break!Fail, Break!Owed
<1>6. CASE items'[1].status # "failed"
  <2>1. ContentNow' = "back"
    BY <1>1, <1>6 DEF View
  <2>2. /\ 1 \in 1..Len(items') /\ items'[1].url \in Contents /\ Head(items') = items'[1]
    BY <1>1 DEF First, HeadIsContent
  <2>3. items'[1].ret = 0 /\ items'[1].target = 0
    <3>1. TypeInv'
      BY DEF BreakInv
    <3>2. items'[1] \in BreakItems
      BY <2>2, <3>1 DEF TypeInv, PlayerType
    <3>3. items'[1].ret \in Nat /\ items'[1].target \in Nat
      BY <3>2, ItemNumbers
    <3> QED BY <3>3 DEF Comes
  <2>4. rate' = owed.rate
    BY <2>2, <2>3 DEF BreakInv, PlaceInv, SpeedMatches
  <2>5. owed.alone => items'[1].pos = owed.pos
    <3>1. FirstContent(1)'
      BY <2>2 DEF FirstContent
    <3>2. owed.alone => AtPlace(items[1], owed.pos)'
      BY <1>6, <2>2, <2>3, <3>1 DEF BreakInv, PlaceInv, PlaceMatches
    <3> QED BY <2>3, <3>2 DEF AtPlace
  <2>6. /\ DueNow.pos = owed.pos /\ DueNow.rate = owed.rate /\ DueNow.exact = owed.alone
        /\ ShownNow'.pos = items'[1].pos /\ ShownNow'.rate = rate'
    BY <1>3 DEF DueNow
  <2>7. Break!AsItWas(ShownNow')
    BY <2>4, <2>5, <2>6 DEF Break!AsItWas
  <2> QED BY <1>2, <1>3, <1>4, <2>1, <2>7 DEF Break!Resume
<1> QED BY <1>5, <1>6

\* The content is the app's, or its queue's.
LEMMA AbsApp ==
  ASSUME BreakInv, BreakInv', ~AdsNow, owed' = None, HeadIsContent', UNCHANGED BreakNow
  PROVE  Break!AppPlays
<1>1. View /\ View'
  BY ViewHolds, PTL
<1>2. AdsNow = FALSE /\ AdsNow' = FALSE
  BY <1>1 DEF View
<1> QED BY <1>1, <1>2 DEF View, DueNow, Break!AppPlays

\* The queue goes on from an ad: to nothing, to an ad, or to the content.
LEMMA AbsAdLeaves ==
  ASSUME BreakInv, BreakInv', AdsNow, NEW r \in Rates, r = rate \/ Len(items) = 1,
         Advance(Tail(items), r), UNCHANGED <<owed, asked, adItemsAttached>>
  PROVE  \/ Break!AdsEnd \/ Break!Return \/ Break!Resume \/ Break!Fail
         \/ Seen /\ UNCHANGED BreakNow
<1>1. View /\ View' /\ First /\ First'
  BY ViewHolds, FirstItem, PTL DEF BreakInv
<1>2. TypeInv /\ QueueInv /\ PlaceInv
  BY DEF BreakInv
<1>3. /\ Len(items) \in Nat \ {0} /\ Len(items') = Len(items) - 1
      /\ \A n \in 1..Len(items') : n + 1 \in 1..Len(items) /\ items'[n] = items[n + 1]
  BY <1>1, <1>2, AdLeaves DEF First
<1>4. adItemsAttached /\ \A n \in 1..Len(items) : items[n].ret = 0
  BY <1>2, AdsAttached
<1>5. UNCHANGED <<BreakNow, DueNow>> /\ ~HeadIsContent /\ ShownNow = None /\ AdsNow = TRUE
  BY <1>1 DEF BreakNow, DueNow, View
<1>6. CASE items' = <<>>
  <2>1. owed' = None
    <3>1. Underway' /\ Len(items') = 0
      BY <1>1, <1>4, <1>6 DEF Underway, First
    <3> QED BY <3>1 DEF BreakInv, ContentWaits, Waits
  <2>2. AdsNow' = FALSE /\ ~HeadIsContent'
    BY <1>6 DEF AdsNow, HeadIsContent
  <2> QED BY <1>1, <1>5, <2>1, <2>2 DEF View, Break!AdsEnd
<1>7. CASE AdsNow'
  BY <1>5, <1>7, AbsAds
<1>8. CASE HeadIsContent'
  <2>1. 1 \in 1..Len(items') /\ 2 \in 1..Len(items) /\ items'[1] = items[2]
    BY <1>1, <1>3, <1>8 DEF First
  <2>2. items'[1].url \in Contents /\ items'[1].ret = 0
    BY <1>1, <1>4, <1>8, <2>1 DEF First
  <2>3. owed # None
    BY <1>2, <2>1, <2>2, UrlFacts DEF PlaceInv, FrontIsOwed
  <2>4. ContentNow = "kept" /\ AdsNow' = FALSE
    BY <1>1, <1>5, <1>8, <2>3 DEF View
  <2>5. CASE Comes'
    BY <1>1, <1>5, <1>8, <2>3, <2>4, <2>5 DEF View, Break!Return
  <2>6. CASE ~Comes'
    BY <1>5, <1>8, <2>3, <2>4, <2>6, AbsComes
  <2> QED BY <2>5, <2>6
<1> QED BY <1>1, <1>6, <1>7, <1>8 DEF View

\* The queue goes on from the content: to nothing, or to more of it.
LEMMA AbsContentEnds ==
  ASSUME BreakInv, BreakInv', HeadIsContent, items' = Tail(items), owed' = None,
         UNCHANGED <<asked, adItemsAttached>>
  PROVE  Break!End \/ Break!AppPlays
<1>1. View /\ View' /\ First /\ First'
  BY ViewHolds, FirstItem, PTL DEF BreakInv
<1>2. TypeInv /\ QueueInv /\ ~AdsNow /\ UNCHANGED BreakNow
  BY <1>1 DEF BreakInv, View, BreakNow
<1>3. CASE items' = <<>>
  <2>1. AdsNow' = FALSE /\ AdsNow = FALSE /\ ~HeadIsContent'
    BY <1>1, <1>2, <1>3 DEF AdsNow, HeadIsContent, View
  <2>2. ContentNow \in {"front", "returning", "back", "broken"}
    BY <1>1 DEF View
  <2> QED BY <1>1, <1>2, <2>1, <2>2 DEF View, DueNow, Break!End
<1>4. CASE items' # <<>>
  <2>1. items # <<>>
    BY DEF HeadIsContent
  <2>2. \A n \in 1..Len(items') : n + 1 \in 1..Len(items) /\ items'[n] = items[n + 1]
    BY <1>2, <2>1, HeadFields
  <2>3. 1 \in 1..Len(items') /\ items'[1].url \in Contents
    BY <1>1, <1>2, <1>4, <2>2, AdsAttached DEF First
  <2>4. HeadIsContent'
    BY <1>1, <2>3 DEF First
  <2> QED BY <1>2, <2>4, AbsApp
<1> QED BY <1>3, <1>4

\* An item that is not the first changes, or the first does.
LEMMA AbsReady ==
  ASSUME BreakInv, BreakInv', NEW n \in DOMAIN items, ItemReady(n)
  PROVE  Break!Resume \/ Break!Fail \/ Break!AppPlays \/ (Seen /\ UNCHANGED BreakNow)
<1>1. View /\ View' /\ First /\ First'
  BY ViewHolds, FirstItem, PTL DEF BreakInv
<1>2. /\ n \in 1..Len(items) /\ PlacesKept
      /\ items[n].status = "unknown" /\ items'[n].status = "readyToPlay"
      /\ \A m \in 1..Len(items) : m # n => items'[m] = items[m]
      /\ items'[n].pos = (IF items[n].pos = 0 /\ items[n].ret = 0
                            THEN items[n].target ELSE items[n].pos)
      /\ items'[n].target = (IF items[n].ret = 0 THEN 0 ELSE items[n].target)
  BY ReadyPlace DEF BreakInv
<1>3. UNCHANGED <<owed, rate, BreakNow>>
  BY DEF ItemReady, Idle, phase, BreakNow
<1>4. /\ Len(items') = Len(items) /\ items[n] \in BreakItems
      /\ \A m \in 1..Len(items) : items'[m].url = items[m].url /\ items'[m].ret = items[m].ret
  BY <1>2 DEF PlacesKept, BreakInv, TypeInv, PlayerType
<1>5. (AdsNow' <=> AdsNow) /\ (HeadIsContent' <=> HeadIsContent)
  BY <1>1, <1>4 DEF First
<1>6. CASE n # 1
  <2>1. Len(items) > 0 => items'[1] = items[1]
    BY <1>1, <1>2, <1>6 DEF First
  <2> QED BY <1>3, <1>4, <2>1, AbsSame
<1>7. CASE n = 1 /\ AdsNow
  BY <1>3, <1>5, <1>7, AbsAds
<1>8. CASE n = 1 /\ HeadIsContent /\ owed = None
  BY <1>1, <1>3, <1>5, <1>8, AbsApp DEF View
<1>9. CASE n = 1 /\ HeadIsContent /\ owed # None
  <2>1. items[1].ret \in Nat /\ items[1].target \in Nat /\ items[1].pos \in Nat
    BY <1>4, <1>9, ItemNumbers
  <2>2. CASE items[1].ret > 0 \/ items[1].target = 0
    <3>1. items'[1].pos = items[1].pos /\ items'[1].target = items[1].target
      BY <1>2, <1>9, <2>1, <2>2
    <3>2. Comes' <=> Comes
      BY <1>2, <1>4, <1>9, <3>1 DEF Comes
    <3>3. UNCHANGED ContentNow
      BY <1>1, <1>2, <1>3, <1>5, <1>9, <3>2 DEF View
    <3>4. UNCHANGED <<ShownNow, AdsNow>>
      BY <1>1, <1>3, <1>5, <1>9, <3>1, <3>2 DEF View
    <3> QED BY <1>3, <3>3, <3>4 DEF Seen, DueNow
  <2>3. CASE items[1].ret = 0 /\ items[1].target > 0
    <3>1. Comes /\ ~Comes'
      BY <1>2, <1>4, <1>9, <2>3 DEF Comes
    <3>2. ContentNow = "returning"
      BY <1>1, <1>9, <3>1 DEF View
    <3> QED BY <1>3, <1>5, <1>9, <3>1, <3>2, AbsComes
  <2> QED BY <2>1, <2>2, <2>3
<1>10. AdsNow \/ HeadIsContent
  BY <1>1, <1>2 DEF View, First
<1> QED BY <1>6, <1>7, <1>8, <1>9, <1>10

LEMMA AbsFails ==
  ASSUME BreakInv, BreakInv', NEW n \in DOMAIN items, ItemFails(n)
  PROVE  Break!Fail \/ Break!AppPlays \/ (Seen /\ UNCHANGED BreakNow)
<1>1. View /\ View' /\ First /\ First'
  BY ViewHolds, FirstItem, PTL DEF BreakInv
<1>2. /\ n \in 1..Len(items) /\ PlacesKept
      /\ items'[n].status = "failed" /\ items'[n].pos = items[n].pos
      /\ \A m \in 1..Len(items) : m # n => items'[m] = items[m]
      /\ items'[n].target = (IF items[n].ret = 0 THEN 0 ELSE items[n].target)
  BY FailsPlace DEF BreakInv
<1>3. UNCHANGED <<owed, rate, BreakNow>>
  BY DEF ItemFails, Idle, phase, BreakNow
<1>4. /\ Len(items') = Len(items) /\ items[n] \in BreakItems
      /\ \A m \in 1..Len(items) : items'[m].url = items[m].url /\ items'[m].ret = items[m].ret
  BY <1>2 DEF PlacesKept, BreakInv, TypeInv, PlayerType
<1>5. (AdsNow' <=> AdsNow) /\ (HeadIsContent' <=> HeadIsContent)
  BY <1>1, <1>4 DEF First
<1>6. CASE n # 1
  <2>1. Len(items) > 0 => items'[1] = items[1]
    BY <1>1, <1>2, <1>6 DEF First
  <2> QED BY <1>3, <1>4, <2>1, AbsSame
<1>7. CASE n = 1 /\ AdsNow
  BY <1>3, <1>5, <1>7, AbsAds
<1>8. CASE n = 1 /\ HeadIsContent /\ owed = None
  BY <1>1, <1>3, <1>5, <1>8, AbsApp DEF View
<1>9. CASE n = 1 /\ HeadIsContent /\ owed # None
  <2>1. items[1].ret \in Nat
    BY <1>4, <1>9, ItemNumbers
  <2>2. AdsNow' = FALSE /\ UNCHANGED DueNow
    BY <1>1, <1>3, <1>5, <1>9 DEF View, DueNow
  <2>3. CASE items[1].ret > 0
    <3>1. Comes /\ Comes'
      BY <1>4, <1>2, <1>9, <2>3 DEF Comes
    <3> QED BY <1>1, <1>3, <1>5, <1>9, <2>2, <3>1 DEF View, Seen
  <2>4. CASE items[1].ret = 0
    <3>1. ~Comes'
      BY <1>2, <1>4, <1>9, <2>4 DEF Comes
    <3>2. ContentNow' = "broken" /\ ContentNow \in Break!Owed /\ ShownNow' \in Break!Marks
      BY <1>1, <1>2, <1>3, <1>5, <1>9, <3>1 DEF View, Break!Owed
    <3> QED BY <1>3, <2>2, <3>2 DEF Break!Fail
  <2> QED BY <2>1, <2>3, <2>4
<1>10. AdsNow \/ HeadIsContent
  BY <1>1, <1>2 DEF View, First
<1> QED BY <1>6, <1>7, <1>8, <1>9, <1>10

\* A stop empties the player of a break that has begun.
LEMMA AbsStops ==
  ASSUME BreakInv, BreakInv', asked, adItemsAttached, items' = <<>>, ~asked',
         UNCHANGED owed
  PROVE  Break!Clear
<1>1. View /\ View'
  BY ViewHolds, PTL
<1>2. BreakNow = "begun" /\ BreakNow' = "none"
  BY DEF BreakNow
<1>3. AdsNow' = FALSE /\ ~HeadIsContent'
  BY <1>1 DEF AdsNow, HeadIsContent, View
<1>4. ContentNow \in Break!Owed <=> owed # None
  BY <1>1 DEF View, Break!Owed
<1>5. ContentNow' = (IF owed # None THEN "kept" ELSE "none") /\ ShownNow' = None
  BY <1>1, <1>3 DEF View
<1> QED BY <1>2, <1>3, <1>4, <1>5 DEF DueNow, Break!Clear

\* The displaced content is on its way back, or what the app had put there plays again.
LEMMA AbsReturns ==
  ASSUME BreakInv, BreakInv', Return, stopped, ~adItemsAttached
  PROVE  Break!Return \/ Break!AppPlays \/ (Seen /\ UNCHANGED BreakNow)
<1>1. View /\ View' /\ First'
  BY ViewHolds, FirstItem, PTL DEF BreakInv
<1>2. UNCHANGED <<owed, rate, BreakNow, DueNow>>
  BY DEF Return, phase, BreakNow, DueNow
<1>3. CASE UNCHANGED items
  BY <1>2, <1>3, AbsItems
<1>4. CASE originalMediaUrls # <<>> /\ items' = Returned
  <2>1. /\ Len(items') > 0 /\ items'[1].url \in Contents
        /\ items'[1].ret = originalRate /\ originalRate > 0
    <3>1. TypeInv /\ QueueInv /\ Len(originalMediaUrls) \in Nat \ {0}
      BY <1>4 DEF BreakInv, TypeInv, ListType
    <3>2. originalRate > 0
      BY <3>1, RateFacts DEF TypeInv, ListType
    <3> QED BY <1>4, <3>1, <3>2, ReturnedFields DEF QueueInv, ContentOnly
  <2>2. HeadIsContent' /\ Comes' /\ AdsNow' = FALSE
    BY <1>1, <2>1 DEF First, View, Comes
  <2>3. CASE owed = None
    <3>1. ~AdsNow
      BY AdsAttached DEF BreakInv
    <3> QED BY <1>2, <2>2, <2>3, <3>1, AbsApp
  <2>4. CASE owed # None
    <3>1. ~HeadIsContent
      BY <1>4, <2>4 DEF BreakInv, PlaceInv, RecordMatches, HeadIsContent
    <3>2. ContentNow = "kept" /\ ContentNow' = "returning"
      BY <1>1, <1>2, <2>2, <2>4, <3>1 DEF View
    <3>3. UNCHANGED ShownNow
      BY <1>1, <1>2, <2>2, <2>4, <3>1 DEF View
    <3> QED BY <1>2, <2>2, <3>2, <3>3 DEF Break!Return
  <2> QED BY <2>3, <2>4
<1> QED BY <1>3, <1>4, ReturnType DEF BreakInv

LEMMA AbsCore ==
  ASSUME BreakInv, BreakInv', OneByOne, Core
  PROVE  Break!Next \/ UNCHANGED Break!vars
<1> USE DEF list, original, watch, avPlayer, pod, phase
<1>1. /\ TypeInv /\ CallInv /\ QueueInv /\ AskInv /\ External
      /\ asked \in BOOLEAN /\ adItemsAttached \in BOOLEAN
  BY DEF BreakInv, TypeInv, FlagType, OneByOne
<1>2. Seen /\ UNCHANGED BreakNow => UNCHANGED Break!vars
  BY DEF Seen, Break!vars
<1>3. ASSUME NEW urls \in Breaks, Load(urls) PROVE Break!Over \/ UNCHANGED Break!vars
  <2>1. Seen
    BY <1>3, AbsItems DEF Load
  <2>2. BreakNow' = "none"
    BY <1>3 DEF Load, BreakNow
  <2> QED BY <1>2, <2>1, <2>2 DEF Seen, Break!Over
<1>4. CASE Play
  <2>1. Seen
    BY <1>4, AbsItems DEF Play
  <2>2. ~asked /\ ~adItemsAttached /\ asked' /\ ~adItemsAttached'
    BY <1>1, <1>4 DEF Play, AskInv, CallInv, LoadMatches
  <2>3. BreakNow = "none" /\ BreakNow' = "asked"
    BY <2>2 DEF BreakNow
  <2> QED BY <2>1, <2>3 DEF Seen, Break!Ask, Break!Next
<1>5. CASE StopIgnored \/ Stop \/ PlayedOut \/ ReturnToContent
  <2>1. UNCHANGED <<items, rate, owed, asked, adItemsAttached>>
    BY <1>5 DEF StopIgnored, Stop, PlayedOut, ReturnToContent
  <2> QED BY <1>2, <2>1, AbsItems DEF BreakNow
<1>6. CASE StopOnMain
  <2>1. /\ adItemsAttached /\ hasPlayer /\ Stoppable /\ ReleasePlayer(LoadsCancelled(queue))
        /\ ~asked' /\ UNCHANGED owed
    BY <1>1, <1>6 DEF StopOnMain, OneByOne
  <2>2. caller \in {"starting", "playing"}
    BY <1>1, <2>1 DEF Stoppable, OneByOne, TypeInv, FlagType
  <2>3. asked /\ items' = <<>>
    BY <1>1, <2>1, <2>2 DEF AskInv, ReleasePlayer, SetItems
  <2> QED BY <2>1, <2>3, AbsStops DEF Break!Next
<1>7. CASE ReturnOnMain
  <2>1. Return /\ ~adItemsAttached /\ stopped
    BY <1>1, <1>7, ReturnsToNone DEF ReturnOnMain
  <2> QED BY <1>2, <2>1, AbsReturns DEF Break!Next
<1>8. CASE PlayNextItem
  <2>1. /\ items # <<>> /\ Advance(Tail(items), rate) /\ Head(items).url \notin Contents
        /\ UNCHANGED <<owed, asked, adItemsAttached>>
    BY <1>8 DEF PlayNextItem, OneByOne
  <2>2. AdsNow /\ rate \in Rates
    BY <1>1, <2>1, HeadFields DEF AdsNow, Urls, TypeInv, PlayerType
  <2> QED BY <1>2, <2>1, <2>2, AbsAdLeaves DEF Break!Next
<1>9. ASSUME NEW u \in Ads, EnqueueNextItem(u) \/ RemoveNextItem(u) PROVE FALSE
  BY <1>9 DEF EnqueueNextItem, RemoveNextItem, OneByOne
<1>10. ASSUME NEW r \in {0, 1}, PauseResume(r) PROVE FALSE
  BY <1>10 DEF PauseResume, OneByOne
<1> QED
  BY <1>3, <1>4, <1>5, <1>6, <1>7, <1>8, <1>9, <1>10 DEF Core, Break!Next

\* The ads take the app's player: content that was in it is displaced.
LEMMA AbsBegins ==
  ASSUME BreakInv, BreakInv', OneByOne, RunPlay
  PROVE  Break!Begin
<1> USE DEF list, original, phase
<1>1. View /\ View' /\ First /\ First'
  BY ViewHolds, FirstItem, PTL DEF BreakInv
<1>2. /\ TypeInv /\ TypeInv' /\ CallInv /\ QueueInv /\ ContentWaits /\ AskInv /\ PlaceInv
      /\ External
  BY DEF BreakInv, OneByOne
<1>3. Attach /\ UNCHANGED <<asked, prepared>>
  BY <1>2, PlaceAttaches DEF RunPlay
<1>4. HasBlock(queue, "play")
  BY <1>2, TailCalls DEF RunPlay, TypeInv
<1>5. asked /\ ~adItemsAttached /\ prepared # <<>>
  BY <1>2, <1>4 DEF AskInv, CallInv, PlayMatches
<1>6. BreakNow = "asked" /\ BreakNow' = "begun"
  BY <1>3, <1>5 DEF Attach, BreakNow
<1>7. AdsNow' = TRUE
  <2>1. Len(prepared) \in Nat /\ Len(prepared) > 0
    BY <1>2, <1>5 DEF TypeInv, ListType, ShortBreaks
  <2>2. Len(items') > 0 /\ items'[1].url \in Ads
    BY <1>1, <1>2, <1>3, <2>1, AttachedContent DEF First
  <2> QED BY <1>1, <2>2 DEF First, View
<1>8. ~HeadIsContent' /\ ShownNow' = None
  BY <1>1, <1>7 DEF View
<1>9. \A n \in 1..Len(items) :
        items[n].url \in Contents /\ items[n].ret = 0 /\ items[n].target = 0
  BY <1>2, <1>4, <1>5
     DEF QueueInv, ContentOnly, NoneReturns, Underway, PlaceInv, Settled, AllSettled, Coming
<1>10. CASE items = <<>>
  <2>1. owed = None
    <3>1. Underway /\ Len(items) = 0
      BY <1>1, <1>4, <1>5, <1>10 DEF Underway, First
    <3> QED BY <1>2, <3>1 DEF ContentWaits, Waits
  <2>2. owed' = None
    BY <1>3, <1>10, <2>1 DEF Attach
  <2>3. ContentNow = "none" /\ ContentNow' = "none" /\ UNCHANGED DueNow
    BY <1>1, <1>8, <1>10, <2>1, <2>2 DEF View, HeadIsContent, DueNow
  <2> QED BY <1>6, <1>7, <1>8, <2>3 DEF Break!Begin
<1>11. CASE items # <<>>
  <2>1. /\ Head(items) = items[1] /\ 1 \in 1..Len(items) /\ HeadIsContent
        /\ items[1].url \in Contents /\ items[1].ret = 0 /\ items[1].target = 0
    BY <1>1, <1>9, <1>11 DEF First
  <2>2. owed' = [url |-> items[1].url, pos |-> Later(items[1].pos), rate |-> AppRate,
                 alone |-> Len(items) = 1]
    BY <1>3, <1>11, <2>1 DEF Attach
  <2>3. owed' # None
    <3>1. Later(items[1].pos) \in Positions
      BY <1>2, <2>1, ItemsFields, LaterType
    <3>2. AppRate \in Rates
      BY <1>2, RateFacts DEF AppRate, TypeInv, PlayerType
    <3>3. (Len(items) = 1) \in BOOLEAN
      OBVIOUS
    <3> QED BY <2>1, <2>2, <3>1, <3>2, <3>3, RecordIsNotNone
  <2>4. ~Comes
    BY <2>1 DEF Comes
  <2>5. ContentNow \in Break!InPlayer /\ ShownNow = [pos |-> items[1].pos, rate |-> rate]
    BY <1>1, <2>1, <2>4 DEF View, Break!InPlayer
  <2>6. ContentNow' = "kept"
    BY <1>1, <1>8, <2>3 DEF View
  <2>7. DueNow' = Break!Due(Len(items) = 1)
    <3>1. DueNow' = [pos |-> Later(items[1].pos), rate |-> AppRate, exact |-> Len(items) = 1]
      BY <2>2, <2>3 DEF DueNow
    <3>2. ShownNow.pos = items[1].pos /\ ShownNow.rate = rate
      BY <2>5
    <3> QED BY <3>1, <3>2 DEF Break!Due, Break!Later, Later, AppRate
  <2>8. DueNow' \in {Break!Due(TRUE), Break!Due(FALSE)}
    BY <2>7
  <2> QED BY <1>6, <1>7, <1>8, <2>5, <2>6, <2>8 DEF Break!Begin
<1> QED BY <1>10, <1>11

LEMMA AbsMain ==
  ASSUME BreakInv, BreakInv', OneByOne, RunMain
  PROVE  Break!Next \/ UNCHANGED Break!vars
<1> USE DEF list, original, watch, avPlayer, pod, phase
<1>1. TypeInv /\ CallInv /\ QueueInv /\ AskInv /\ PlaceInv /\ QueueType /\ External
  BY DEF BreakInv, TypeInv, OneByOne
<1>2. Seen /\ UNCHANGED BreakNow => UNCHANGED Break!vars
  BY DEF Seen, Break!vars
<1>3. CASE SkipCancelled \/ AdItemFailed \/ AdItemBroken \/ AdItemEnded
  <2>1. UNCHANGED <<items, rate, owed, asked, adItemsAttached>>
    BY <1>3 DEF SkipCancelled, AdItemFailed, AdItemBroken, AdItemEnded, AdEvent
  <2> QED BY <1>2, <2>1, AbsItems DEF BreakNow
<1>4. CASE RunLoad
  <2>1. Body("load") /\ items' = ItemsForgotten /\ UNCHANGED <<rate, owed, asked>>
    BY <1>1, <1>4 DEF RunLoad, Prepare
  <2>2. ~asked
    BY <1>1, <2>1, TailCalls DEF AskInv
  <2>3. UNCHANGED BreakNow
    BY <2>1, <2>2 DEF BreakNow
  <2>4. Seen
    <3>1. /\ Len(items') = Len(items)
          /\ \A n \in 1..Len(items) :
               /\ items'[n].url = items[n].url /\ items'[n].pos = items[n].pos
               /\ items'[n].ret = items[n].ret /\ items'[n].target = items[n].target
               /\ items'[n].status = items[n].status
      BY <1>1, <2>1, ForgottenFields
    <3>2. Len(items) > 0 => 1 \in 1..Len(items)
      BY <1>1, FirstItem DEF First
    <3> QED BY <2>1, <3>1, <3>2, AbsSame
  <2> QED BY <1>2, <2>3, <2>4
<1>5. CASE RunPlay
  BY <1>5, AbsBegins DEF Break!Next
<1>6. CASE RunStop
  <2>1. Body("stop") /\ ReleasePlayer(Tail(queue)) /\ ~asked' /\ UNCHANGED owed
    BY <1>6 DEF RunStop
  <2>2. HasBlock(queue, "stop") /\ ~HasBlock(queue, "play")
    BY <1>1, <2>1, TailCalls, InSequenceTail DEF AskInv
  <2>3. asked /\ adItemsAttached
    BY <1>1, <2>2 DEF CallInv, StopMatches, AskInv
  <2>4. items' = <<>>
    BY <2>1 DEF ReleasePlayer, SetItems
  <2> QED BY <2>1, <2>3, <2>4, AbsStops DEF Break!Next
<1>7. CASE RunReturn
  <2>1. Return /\ ~adItemsAttached
    BY <1>1, <1>7, ReturnsToNone
  <2>2. stopped
    BY <1>1, <1>7, TailCalls DEF RunReturn, CallInv, StopMatches
  <2> QED BY <1>2, <2>1, <2>2, AbsReturns DEF Break!Next
<1> QED
  BY <1>3, <1>4, <1>5, <1>6, <1>7 DEF RunMain

LEMMA AbsPlayerStep ==
  ASSUME BreakInv, BreakInv', OneByOne,
         \/ AVQueuePlayer \/ \E rebuild \in BOOLEAN : DiagnosticsSwap(rebuild)
         \/ \E n \in DOMAIN Playlist, r \in Rates : AppPlays(n, r)
  PROVE  Break!Next \/ UNCHANGED Break!vars
<1> USE DEF list, original, avPlayer, phase
<1>1. TypeInv /\ TypeInv' /\ QueueInv /\ PlaceInv /\ First /\ First' /\ View /\ View'
  BY ViewHolds, FirstItem, PTL DEF BreakInv
<1>2. Seen /\ UNCHANGED BreakNow => UNCHANGED Break!vars
  BY DEF Seen, Break!vars
<1>3. UNCHANGED <<asked, adItemsAttached>> /\ UNCHANGED BreakNow
  <2>1. UNCHANGED <<asked, adItemsAttached>>
    BY <1>1, PlayerStepBlocks DEF Idle
  <2> QED BY <2>1 DEF BreakNow
<1>4. ASSUME NEW n \in DOMAIN items, ItemReady(n) \/ ItemFails(n)
      PROVE  Break!Next \/ UNCHANGED Break!vars
  BY <1>2, <1>4, AbsReady, AbsFails DEF Break!Next
<1>5. CASE ItemFailedToPlayToEnd
  BY <1>2, <1>3, <1>5, AbsItems DEF ItemFailedToPlayToEnd
<1>6. CASE ItemEnds \/ FailedItemDropped
  <2>1. /\ items # <<>> /\ Advance(Tail(items), IF Len(items) = 1 THEN 0 ELSE rate)
        /\ owed' = (IF owed # None /\ Head(items).url = owed.url THEN None ELSE owed)
    BY <1>6 DEF ItemEnds, FailedItemDropped, Playing
  <2>2. owed # None => owed.url \in Contents
    BY <1>1 DEF TypeInv, ListType
  <2>3. CASE AdsNow
    <3>1. owed' = owed
      BY <2>1, <2>2, <2>3, UrlFacts DEF AdsNow
    <3>2. PICK r \in Rates : (r = rate \/ Len(items) = 1) /\ Advance(Tail(items), r)
      <4>1. (IF Len(items) = 1 THEN 0 ELSE rate) \in Rates
        BY <1>1, RateFacts DEF TypeInv, PlayerType
      <4> QED BY <2>1, <4>1
    <3> QED BY <1>2, <1>3, <2>3, <3>1, <3>2, AbsAdLeaves DEF Break!Next
  <2>4. CASE HeadIsContent
    <3>1. items' = Tail(items)
      BY <2>1 DEF Advance, SetItems
    <3>2. Coming' => Coming
      <4>1. CallsSame /\ UNCHANGED caller
        BY <1>1, PlayerStepBlocks, CallsUnchanged, CallsDispatch DEF TypeInv, Idle
      <4> QED BY <4>1 DEF CallsSame, Calls, Coming
    <3>3. owed' = None
      BY <1>1, <2>1, <2>4, <3>1, <3>2, PlaceContentEnds
    <3> QED BY <1>3, <2>4, <3>1, <3>3, AbsContentEnds DEF Break!Next
  <2> QED BY <1>1, <2>1, <2>3, <2>4 DEF View
<1>7. CASE ReturnSeekCompletes
  <2>1. /\ 1 \in 1..Len(items) /\ Len(items') = Len(items) /\ items[1].ret > 0
        /\ items'[1].url = items[1].url /\ items'[1].target = 0 /\ items'[1].ret = 0
    BY <1>1, <1>7, SeekPlace
  <2>2. ~AdsNow
    BY <1>1, <2>1, AdsAttached
  <2>3. HeadIsContent /\ HeadIsContent' /\ Comes /\ ~Comes' /\ UNCHANGED owed
    BY <1>1, <1>7, <2>1, <2>2, AdsAttached DEF First, Comes, ReturnSeekCompletes
  <2>4. CASE owed = None
    BY <1>3, <2>2, <2>3, <2>4, AbsApp DEF Break!Next
  <2>5. CASE owed # None
    <3>1. ContentNow = "returning"
      BY <1>1, <2>3, <2>5 DEF View
    <3> QED BY <1>3, <2>3, <2>5, <3>1, AbsComes DEF Break!Next
  <2> QED BY <2>4, <2>5
<1>8. ASSUME NEW r \in stale, StaleSeekCompletes(r)
      PROVE  Break!Next \/ UNCHANGED Break!vars
  <2>1. UNCHANGED <<items, owed>>
    BY <1>8 DEF StaleSeekCompletes
  <2>2. owed = None /\ ~AdsNow
    BY <1>1, <1>8, AdsAttached DEF RecordMatches, PlaceInv
  <2>3. CASE HeadIsContent
    BY <1>3, <2>1, <2>2, <2>3, AbsApp DEF HeadIsContent, Break!Next
  <2>4. CASE ~HeadIsContent
    <3>1. ~HeadIsContent' /\ AdsNow' = AdsNow
      BY <2>1, <2>4 DEF HeadIsContent, AdsNow
    <3>2. UNCHANGED <<ContentNow, ShownNow, DueNow>>
      BY <1>1, <2>1, <2>2, <2>4, <3>1 DEF View, DueNow
    <3> QED BY <1>2, <1>3, <3>1, <3>2 DEF Seen
  <2> QED BY <2>3, <2>4
<1>9. ASSUME NEW rebuild \in BOOLEAN, DiagnosticsSwap(rebuild)
      PROVE  UNCHANGED Break!vars
  <2>1. DiagnosticsSwap(FALSE)
    BY <1>9 DEF DiagnosticsSwap, OneByOne
  <2>2. AdsNow /\ PlacesKept /\ UNCHANGED owed
    BY <1>1, <2>1, SwapPlace DEF DiagnosticsSwap
  <2>3. AdsNow'
    BY <1>1, <2>2 DEF First, PlacesKept
  <2> QED BY <1>2, <1>3, <2>2, <2>3, AbsAds
<1>10. ASSUME NEW n \in DOMAIN Playlist, NEW r \in Rates, AppPlays(n, r)
       PROVE  Break!AppPlays
  <2>1. /\ items' = AppItems(n) /\ owed' = None
        /\ \A k \in DOMAIN items : items[k].url \in Contents
    BY <1>10 DEF AppPlays, SetItems
  <2>2. ~AdsNow
    <3>1. Len(items) > 0 => 1 \in DOMAIN items
      BY <1>1, ItemsFields DEF First
    <3> QED BY <1>1, <2>1, <3>1, UrlFacts DEF First
  <2>3. /\ Len(AppItems(n)) = n
        /\ \A m \in 1..n : AppItems(n)[m].url \in Contents
    BY AppItemsFields, Zenon
  <2>4. n \in Nat \ {0}
    BY UrlAssumption
  <2>5. HeadIsContent'
    BY <1>1, <2>1, <2>3, <2>4 DEF First
  <2> QED BY <1>3, <2>1, <2>2, <2>5, AbsApp
<1> QED
  BY <1>4, <1>5, <1>6, <1>7, <1>8, <1>9, <1>10 DEF AVQueuePlayer, Break!Next

LEMMA StepAbs ==
  BreakInv /\ BreakInv' /\ OneByOne /\ [Next]_vars => [Break!Next]_(Break!vars)
<1> SUFFICES ASSUME BreakInv, BreakInv', OneByOne, [Next]_vars
             PROVE  Break!Next \/ UNCHANGED Break!vars
  OBVIOUS
<1>1. CASE Next
  BY <1>1, AbsCore, AbsMain, AbsPlayerStep DEF Next
<1>2. CASE UNCHANGED vars
  <2>1. UNCHANGED <<items, rate, owed, asked, adItemsAttached>>
    BY <1>2 DEF vars, avPlayer, phase
  <2>2. UNCHANGED BreakNow
    BY <2>1 DEF BreakNow
  <2> QED BY <2>1, <2>2, AbsItems DEF Seen, Break!vars
<1> QED BY <1>1, <1>2

\* The break keeps AdBreak's promises to the content, for any ads, playlist, positions,
\* rates and bounds, when breaks come one by one: the item that was interrupted is
\* first in the queue or kept for it, and - of a queue of one - comes back at its place
\* and at the app's speed.
THEOREM BreakCorrect == OneByOne => (Spec => ImplementsAdBreak)
<1> SUFFICES ASSUME OneByOne PROVE Spec => ImplementsAdBreak
  OBVIOUS
<1>1. Init => BreakInv
  BY InitBreak
<1>2. BreakInv /\ [Next]_vars => BreakInv'
  BY StepBreak
<1>3. BreakInv /\ Init => Break!Init
  BY InitAbs
<1>4. BreakInv /\ BreakInv' /\ [Next]_vars => [Break!Next]_(Break!vars)
  BY StepAbs
<1>5. BreakInv => Break!TypeOK
  BY AbsTypes
<1> QED
  BY <1>1, <1>2, <1>3, <1>4, <1>5, PTL DEF Spec, ImplementsAdBreak, Break!Spec
==============================================================================
