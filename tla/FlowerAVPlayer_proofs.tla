------------------------ MODULE FlowerAVPlayer_proofs ------------------------
(***************************************************************************)
(* Proofs about FlowerAVPlayer, for any number of items and breaks, all    *)
(* kinds of item and all cases.                                            *)
(*                                                                         *)
(* The pre-rolls go through a pipeline: a listener, a call of it, the      *)
(* block of onCompleted(), the block that replaces the item, the player.   *)
(* Pipeline says that they go through it in the order they were asked for. *)
(* From that, and from where the last of them is, the properties follow.   *)
(***************************************************************************)
EXTENDS FlowerAVPlayer, FiniteSetTheorems, TLAPS, WellFoundedInduction

------------------------------------------------------------------------------
\* The invariant.

ScalarType ==
  /\ adConfig \in {"nil", "preroll", "linear"}
  /\ prerollPrepared \in {"nil", "false", "true"}
  /\ {changedChannelUrl, playFlag, playing, recovered, overtaken, failed} \subseteq BOOLEAN
  /\ current \in 0..MaxRequests /\ asked \in {0, requests}
  /\ requests \in 0..MaxRequests
  /\ ads \in {"idle", "requested", "prepared", "playing"}
  /\ read \in {"none", "played", "waiting"}
  /\ breaks \in 0..MaxBreaks
  /\ placed \subseteq Nat

\* The parts of TypeOK; ListenersBound is the rest of it.
TypeInv ==
  /\ ScalarType
  /\ listeners \in Seq(Listeners)
  /\ calls \in Seq([event : {"prepare", "completed"}, listener : Listeners])
  /\ queue \in Seq(Blocks)

Preroll(l) == l.kind = "preroll"
Done(c) == c.event = "completed" /\ Preroll(c.listener)

\* The ids of a kind in a sequence of listeners or blocks, and that they ascend.
IdsOf(q, kind) == {i \in Ids : \E n \in DOMAIN q : q[n].kind = kind /\ q[n].id = i}
Ascending(q, kind) ==
  \A m, n \in DOMAIN q : m < n /\ q[m].kind = kind /\ q[n].kind = kind => q[m].id < q[n].id

\* Where the pre-rolls are.
ListenerIds == IdsOf(listeners, "preroll")
CalledIds == {i \in Ids : \E n \in DOMAIN calls : Done(calls[n]) /\ calls[n].listener.id = i}
CompletedIds == IdsOf(queue, "completed")
ReplaceIds == IdsOf(queue, "replace")
Underway == ListenerIds \cup CompletedIds \cup ReplaceIds

\* Each stage of the pipeline is in order ...
CallsAscend ==
  \A m, n \in DOMAIN calls :
    m < n /\ Done(calls[m]) /\ Done(calls[n]) => calls[m].listener.id < calls[n].listener.id
StagesAscend ==
  /\ Ascending(listeners, "preroll") /\ CallsAscend
  /\ Ascending(queue, "completed") /\ Ascending(queue, "replace")

\* ... and behind the next.
Before(S, T) == \A i \in S, j \in T : i < j
StagesInOrder ==
  /\ \A i \in Underway \cup placed : i <= requests
  /\ Before(CalledIds, ListenerIds \ CalledIds)
  /\ Before(CompletedIds, ListenerIds)
  /\ Before(ReplaceIds, ListenerIds \cup CompletedIds)
  /\ Before(placed, Underway)

\* Who is called still listens.
CalledIsListener ==
  \A n \in DOMAIN calls :
    Done(calls[n]) => \E m \in DOMAIN listeners : listeners[m] = calls[n].listener

Pipeline == StagesAscend /\ StagesInOrder /\ CalledIsListener

\* A play() is behind the replacement it is for.
PlaysBehind(q, done) ==
  \A n \in DOMAIN q :
    q[n].kind = "play" =>
      \/ q[n].id \in done
      \/ \E m \in 1..(n - 1) : q[m].kind = "replace" /\ q[m].id = q[n].id
PlayBehindReplace == PlaysBehind(queue, placed)

\* The call of onPrepare() that is under way.
ReadIsOfHead ==
  read # "none" => /\ calls # <<>> /\ Head(calls).event = "prepare"
                   /\ Preroll(Head(calls).listener)

\* A break that is asked for has a listener that has not been told of another.
RequestHasListener == ads = "requested" => ListenerIds \ CalledIds # {}

\* What a play() that is put off waits for.
PrepareOnItsWay ==
  ~overtaken /\ ~failed /\ prerollPrepared = "false" =>
    \/ ads = "requested"
    \/ /\ ads \in {"prepared", "playing"}
       /\ \E n \in DOMAIN calls : calls[n].event = "prepare" /\ Preroll(calls[n].listener)

\* No listener is left over between two breaks, unless by a break that failed.
IdleHasNoListener == ~overtaken /\ ~failed /\ ads = "idle" => ListenerIds \subseteq CalledIds

\* The item asked for last is in the player, or its pre-roll is under way.
LastIsUnderway ==
  ~overtaken /\ asked # 0 => IF Underway = {} THEN current = asked ELSE asked \in Underway

Where == ReadIsOfHead /\ RequestHasListener /\ PrepareOnItsWay /\ IdleHasNoListener
           /\ LastIsUnderway

Inv == TypeInv /\ Pipeline /\ PlayBehindReplace /\ Where

------------------------------------------------------------------------------
\* Sequences of listeners and of blocks.

LEMMA AppendOther ==
  ASSUME NEW S, NEW q \in Seq(S), NEW b \in S, NEW kind, b.kind # kind
  PROVE  /\ IdsOf(Append(q, b), kind) = IdsOf(q, kind)
         /\ Ascending(q, kind) => Ascending(Append(q, b), kind)
BY DEF IdsOf, Ascending

LEMMA AppendIn ==
  ASSUME NEW S, NEW q \in Seq(S), NEW b \in S, NEW kind, b.kind = kind, b.id \in Ids
  PROVE  /\ IdsOf(Append(q, b), kind) = IdsOf(q, kind) \cup {b.id}
BY DEF IdsOf

LEMMA AppendAscends ==
  ASSUME NEW S, NEW q \in Seq(S), NEW b \in S, NEW kind, b.kind = kind, b.id \in Ids,
         \A n \in DOMAIN q : q[n].kind = kind => q[n].id \in Ids,
         \A i \in IdsOf(q, kind) : i < b.id,
         Ascending(q, kind)
  PROVE  Ascending(Append(q, b), kind)
<1>1. \A n \in DOMAIN q : q[n].kind = kind => q[n].id < b.id
  BY DEF IdsOf
<1> QED
  BY <1>1 DEF Ascending

LEMMA TailOther ==
  ASSUME NEW S, NEW q \in Seq(S), NEW kind, q # <<>>, Head(q).kind # kind
  PROVE  IdsOf(Tail(q), kind) = IdsOf(q, kind)
<1>1. ASSUME NEW i \in Ids, NEW n \in DOMAIN q, q[n].kind = kind, q[n].id = i
      PROVE  n - 1 \in DOMAIN Tail(q) /\ Tail(q)[n - 1] = q[n]
  BY <1>1
<1>2. \A n \in DOMAIN Tail(q) : n + 1 \in DOMAIN q /\ Tail(q)[n] = q[n + 1]
  OBVIOUS
<1> QED
  BY <1>1, <1>2 DEF IdsOf

LEMMA TailAscends ==
  ASSUME NEW S, NEW q \in Seq(S), NEW kind, q # <<>>, Ascending(q, kind)
  PROVE  Ascending(Tail(q), kind)
<1>1. \A n \in DOMAIN Tail(q) : n \in Nat /\ n + 1 \in DOMAIN q /\ Tail(q)[n] = q[n + 1]
  OBVIOUS
<1> QED
  BY <1>1 DEF Ascending

LEMMA TailIn ==
  ASSUME NEW S, NEW q \in Seq(S), NEW kind, q # <<>>, Head(q).kind = kind,
         Head(q).id \in Ids, Ascending(q, kind)
  PROVE  /\ Head(q).id \in IdsOf(q, kind)
         /\ IdsOf(Tail(q), kind) = IdsOf(q, kind) \ {Head(q).id}
         /\ \A i \in IdsOf(Tail(q), kind) : Head(q).id < i
<1>1. \A n \in DOMAIN Tail(q) :
        n \in Nat /\ n + 1 \in DOMAIN q /\ n + 1 > 1 /\ Tail(q)[n] = q[n + 1]
  OBVIOUS
<1>2. \A n \in DOMAIN q : n # 1 => n - 1 \in DOMAIN Tail(q) /\ Tail(q)[n - 1] = q[n]
  OBVIOUS
<1>3. Head(q) = q[1] /\ 1 \in DOMAIN q
  OBVIOUS
<1>4. Head(q).id \in IdsOf(q, kind)
  BY <1>3 DEF IdsOf
<1>5. \A i \in IdsOf(Tail(q), kind) : Head(q).id < i /\ i \in IdsOf(q, kind)
  BY <1>1, <1>3 DEF IdsOf, Ascending
<1>6. \A i \in IdsOf(q, kind) : i # Head(q).id => i \in IdsOf(Tail(q), kind)
  BY <1>2, <1>3 DEF IdsOf
<1>7. \A i \in IdsOf(Tail(q), kind) : i # Head(q).id
  BY <1>5 DEF IdsOf, Ids
<1> QED
  BY <1>4, <1>5, <1>6, <1>7

\* The index that RemoveFirst takes out.
LEMMA FirstFound ==
  ASSUME NEW S, NEW q \in Seq(S), NEW l, \E j \in DOMAIN q : q[j] = l
  PROVE  \E k \in 1..Len(q) : q[k] = l /\ RemoveFirst(q, l) = RemoveAt(q, k)
<1> DEFINE I == {i \in 1..Len(q) : q[i] = l}
<1>1. I # {} /\ I \subseteq Nat
  OBVIOUS
<1>2. PICK m \in I : \A i \in I : <<i, m>> \notin OpToRel(<, Nat)
  BY <1>1, NatLessThanWellFounded, WFMin
<1>3. ASSUME NEW i \in I PROVE m =< i
  <2>1. <<i, m>> \in Nat \X Nat
    BY <1>1
  <2>2. ~(i < m)
    BY <2>1, <1>2, <1>3 DEF OpToRel
  <2> QED BY <2>1, <2>2
<1>4. Min(I) \in I
  BY <1>3 DEF Min
<1>5. SelectInSeq(q, LAMBDA v : v = l) = Min(I)
  BY <1>1 DEF SelectInSeq
<1>6. RemoveFirst(q, l) = RemoveAt(q, Min(I))
  BY <1>1, <1>5 DEF RemoveFirst
<1> QED
  BY <1>4, <1>6

LEMMA RemoveAtFacts ==
  ASSUME NEW S, NEW q \in Seq(S), NEW k \in 1..Len(q)
  PROVE  /\ RemoveAt(q, k) \in Seq(S)
         /\ DOMAIN RemoveAt(q, k) = 1..(Len(q) - 1)
         /\ \A n \in 1..(Len(q) - 1) :
              RemoveAt(q, k)[n] = IF n < k THEN q[n] ELSE q[n + 1]
<1> DEFINE s == SubSeq(q, 1, k - 1)
           t == SubSeq(q, k + 1, Len(q))
<1>1. /\ s \in Seq(S) /\ Len(s) = k - 1
      /\ \A n \in 1..(k - 1) : s[n] = q[n]
  OBVIOUS
<1>2. /\ t \in Seq(S) /\ Len(t) = Len(q) - k
      /\ \A n \in 1..(Len(q) - k) : t[n] = q[n + k]
  OBVIOUS
<1>3. RemoveAt(q, k) = s \o t
  BY DEF RemoveAt
<1> HIDE DEF s, t
<1>4. s \o t \in Seq(S) /\ Len(s \o t) = Len(q) - 1
  BY <1>1, <1>2
<1>5. ASSUME NEW n \in 1..(Len(q) - 1)
      PROVE  (s \o t)[n] = IF n < k THEN q[n] ELSE q[n + 1]
  <2>1. CASE n < k
    BY <2>1, <1>1, <1>2
  <2>2. CASE ~(n < k)
    <3>1. n - Len(s) \in 1..Len(t) /\ n - Len(s) + k = n + 1
      BY <2>2, <1>1, <1>2
    <3>2. (s \o t)[n] = t[n - Len(s)]
      <4>1. n \in 1..(Len(s) + Len(t)) /\ ~(n <= Len(s))
        BY <2>2, <1>1, <1>2
      <4>2. s \in Seq(S) /\ t \in Seq(S)
        BY <1>1, <1>2
      <4> QED BY <4>1, <4>2
    <3>3. t[n - Len(s)] = q[n + 1]
      BY <3>1, <1>2
    <3> QED BY <3>2, <3>3, <2>2
  <2> QED BY <2>1, <2>2
<1> QED
  BY <1>3, <1>4, <1>5

LEMMA Removed ==
  ASSUME NEW S, NEW q \in Seq(S), NEW l, NEW kind, \E j \in DOMAIN q : q[j] = l,
         l.kind = kind, l.id \in Ids, Ascending(q, kind)
  PROVE  /\ RemoveFirst(q, l) \in Seq(S)
         /\ IdsOf(RemoveFirst(q, l), kind) = IdsOf(q, kind) \ {l.id}
         /\ l.id \in IdsOf(q, kind)
         /\ Ascending(RemoveFirst(q, l), kind)
         /\ \A n \in DOMAIN q : q[n] # l => \E m \in DOMAIN RemoveFirst(q, l) :
                                              RemoveFirst(q, l)[m] = q[n]
<1>1. PICK k \in 1..Len(q) : q[k] = l /\ RemoveFirst(q, l) = RemoveAt(q, k)
  BY FirstFound
<1> DEFINE r == RemoveFirst(q, l)
<1>2. r \in Seq(S) /\ DOMAIN r = 1..(Len(q) - 1)
  BY <1>1, RemoveAtFacts
<1>3. \A n \in 1..(Len(q) - 1) : r[n] = IF n < k THEN q[n] ELSE q[n + 1]
  BY <1>1, RemoveAtFacts
<1> HIDE DEF r
<1>4. \A n \in DOMAIN q : n # k => \E m \in DOMAIN r : r[m] = q[n]
  <2> SUFFICES ASSUME NEW n \in DOMAIN q, n # k PROVE \E m \in DOMAIN r : r[m] = q[n]
    OBVIOUS
  <2>1. CASE n < k
    <3>1. n \in 1..(Len(q) - 1)
      BY <2>1
    <3> QED BY <3>1, <2>1, <1>2, <1>3
  <2>2. CASE n > k
    BY <2>2, <1>2, <1>3, n - 1 \in 1..(Len(q) - 1)
  <2> QED BY <2>1, <2>2
<1>5. Ascending(r, kind)
  <2> DEFINE was(n) == IF n < k THEN n ELSE n + 1
  <2>1. \A n \in DOMAIN r : was(n) \in DOMAIN q /\ r[n] = q[was(n)]
    BY <1>2, <1>3
  <2>2. \A m, n \in DOMAIN r : m < n => was(m) < was(n)
    BY <1>2
  <2> HIDE DEF was
  <2> QED
    BY <2>1, <2>2 DEF Ascending
<1>6. \A n \in DOMAIN q : n # k /\ q[n].kind = kind => q[n].id # l.id
  BY <1>1 DEF Ascending, Ids
<1>7. \A n \in DOMAIN r : \E m \in DOMAIN q : m # k /\ r[n] = q[m]
  BY <1>2, <1>3
<1>8. IdsOf(r, kind) = IdsOf(q, kind) \ {l.id}
  BY <1>1, <1>4, <1>6, <1>7 DEF IdsOf
<1>9. l.id \in IdsOf(q, kind)
  BY <1>1 DEF IdsOf
<1> QED
  BY <1>1, <1>2, <1>4, <1>5, <1>8, <1>9 DEF r

LEMMA AppendBehind ==
  ASSUME NEW S, NEW q \in Seq(S), NEW done, PlaysBehind(q, done), NEW b \in S,
         b.kind = "play" => \E m \in 1..Len(q) : q[m].kind = "replace" /\ q[m].id = b.id
  PROVE  PlaysBehind(Append(q, b), done)
<1> SUFFICES ASSUME NEW n \in 1..(Len(q) + 1), Append(q, b)[n].kind = "play"
             PROVE  \/ Append(q, b)[n].id \in done
                    \/ \E m \in 1..(n - 1) : /\ Append(q, b)[m].kind = "replace"
                                             /\ Append(q, b)[m].id = Append(q, b)[n].id
  BY DEF PlaysBehind
<1>1. \A m \in 1..Len(q) : Append(q, b)[m] = q[m]
  OBVIOUS
<1>2. CASE n = Len(q) + 1
  BY <1>1, <1>2
<1>3. CASE n \in 1..Len(q)
  BY <1>1, <1>3 DEF PlaysBehind
<1> QED
  BY <1>2, <1>3

LEMMA TailBehind ==
  ASSUME NEW S, NEW q \in Seq(S), q # <<>>, NEW done, PlaysBehind(q, done), NEW now,
         done \subseteq now, Head(q).kind = "replace" => Head(q).id \in now
  PROVE  PlaysBehind(Tail(q), now)
<1> SUFFICES ASSUME NEW n \in 1..(Len(q) - 1), Tail(q)[n].kind = "play",
                    Tail(q)[n].id \notin now
             PROVE  \E m \in 1..(n - 1) : /\ Tail(q)[m].kind = "replace"
                                          /\ Tail(q)[m].id = Tail(q)[n].id
  <2>1. DOMAIN Tail(q) = 1..(Len(q) - 1)
    OBVIOUS
  <2> QED BY <2>1 DEF PlaysBehind
<1>1. \A m \in 1..(Len(q) - 1) : m + 1 \in 1..Len(q) /\ Tail(q)[m] = q[m + 1]
  OBVIOUS
<1>2. PICK m \in 1..n : q[m].kind = "replace" /\ q[m].id = Tail(q)[n].id
  BY <1>1 DEF PlaysBehind
<1>3. m # 1
  BY <1>2
<1>4. m - 1 \in 1..(n - 1) /\ Tail(q)[m - 1] = q[m]
  BY <1>1, <1>3
<1> QED
  BY <1>2, <1>4

------------------------------------------------------------------------------
\* What the invariant's sequences hold.

LEMMA ListenerFacts ==
  ASSUME NEW l \in Listeners
  PROVE  /\ Preroll(l) => l.id \in Ids /\ l.of \in {"preroll", "vod"}
         /\ ~Preroll(l) => l.kind = "midroll"
BY DEF Listeners, Preroll

LEMMA BlockFacts ==
  ASSUME NEW b \in Blocks
  PROVE  /\ b.kind \in {"completed", "replace", "play", "midroll"}
         /\ b.kind = "completed" => b.id \in Ids /\ b.of \in {"preroll", "vod"}
         /\ b.kind \in {"replace", "play"} => b.id \in Ids
BY DEF Blocks

LEMMA NewEntries ==
  /\ [kind |-> "midroll"] \in Listeners /\ [kind |-> "midroll"] \in Blocks
  /\ \A of \in {"preroll", "vod"}, id \in Ids :
       /\ [kind |-> "preroll", of |-> of, id |-> id] \in Listeners
       /\ [kind |-> "completed", of |-> of, id |-> id] \in Blocks
  /\ \A id \in Ids : [kind |-> "replace", id |-> id] \in Blocks
                       /\ [kind |-> "play", id |-> id] \in Blocks
BY DEF Listeners, Blocks

LEMMA IdsAreIds ==
  /\ Ids \subseteq Nat
  /\ ListenerIds \subseteq Ids /\ CalledIds \subseteq Ids
  /\ CompletedIds \subseteq Ids /\ ReplaceIds \subseteq Ids
BY DEF Ids, ListenerIds, CalledIds, CompletedIds, ReplaceIds, IdsOf

LEMMA CalledListens ==
  ASSUME TypeInv, CalledIsListener
  PROVE  CalledIds \subseteq ListenerIds
BY DEF TypeInv, CalledIsListener, CalledIds, ListenerIds, IdsOf, Done, Preroll

\* The calls of listeners.

Calls == [event : {"prepare", "completed"}, listener : Listeners]

LEMMA CallTaken ==
  ASSUME calls \in Seq(Calls), calls # <<>>, calls' = Tail(calls), CallsAscend
  PROVE  /\ Head(calls) \in Calls /\ calls' \in Seq(Calls) /\ CallsAscend'
         /\ \A n \in DOMAIN calls' : n + 1 \in DOMAIN calls /\ calls'[n] = calls[n + 1]
         /\ \A n \in DOMAIN calls : n # 1 => n - 1 \in DOMAIN calls' /\ calls'[n - 1] = calls[n]
         /\ ~Done(Head(calls)) => CalledIds' = CalledIds
         /\ Done(Head(calls)) =>
              LET id == Head(calls).listener.id
              IN /\ id \in CalledIds /\ CalledIds' = CalledIds \ {id}
                 /\ Before({id}, CalledIds')
<1>1. /\ Head(calls) = calls[1] /\ 1 \in DOMAIN calls
      /\ calls' \in Seq(Calls) /\ Head(calls) \in Calls
  OBVIOUS
<1>2. \A n \in DOMAIN calls' :
        n \in Nat /\ n > 0 /\ n + 1 \in DOMAIN calls /\ calls'[n] = calls[n + 1]
  OBVIOUS
<1>3. \A n \in DOMAIN calls : n # 1 => n - 1 \in DOMAIN calls' /\ calls'[n - 1] = calls[n]
  OBVIOUS
<1>4. CallsAscend'
  BY <1>2 DEF CallsAscend
<1>5. CASE ~Done(Head(calls))
  <2>a. \A n \in DOMAIN calls : Done(calls[n]) => n # 1
    BY <1>1, <1>5
  <2>b. CalledIds \subseteq CalledIds'
    BY <2>a, <1>3 DEF CalledIds
  <2>c. CalledIds' \subseteq CalledIds
    BY <1>2 DEF CalledIds
  <2>1. CalledIds' = CalledIds
    BY <2>b, <2>c
  <2> QED BY <2>1, <1>1, <1>2, <1>3, <1>4, <1>5
<1>6. CASE Done(Head(calls))
  <2> DEFINE id == Head(calls).listener.id
  <2>1. id \in Ids
    BY <1>1, <1>6, ListenerFacts DEF Calls, Done
  <2>2. id \in CalledIds
    BY <1>1, <1>6, <2>1 DEF CalledIds
  <2>3. \A i \in CalledIds' : id < i /\ i \in CalledIds
    BY <1>1, <1>2, <1>6 DEF CalledIds, CallsAscend
  <2>4. \A i \in CalledIds : i # id => i \in CalledIds'
    BY <1>1, <1>3 DEF CalledIds
  <2>5. CalledIds' = CalledIds \ {id}
    BY <2>1, <2>3, <2>4 DEF Ids
  <2> QED BY <2>2, <2>3, <2>5, <1>1, <1>2, <1>3, <1>4, <1>6 DEF Before
<1> QED
  BY <1>5, <1>6

LEMMA Told ==
  ASSUME listeners \in Seq(Listeners), NEW event \in {"prepare", "completed"}, Tell(event),
         Ascending(listeners, "preroll")
  PROVE  /\ calls' \in Seq(Calls) /\ CallsAscend' /\ CalledIds = {}
         /\ DOMAIN calls' = DOMAIN listeners
         /\ \A n \in DOMAIN calls' :
              calls'[n].listener = listeners[n] /\ calls'[n].event = event
         /\ CalledIds' = IF event = "completed" THEN ListenerIds ELSE {}
<1>1. /\ calls = <<>>
      /\ calls' = [n \in 1..Len(listeners) |-> [event |-> event, listener |-> listeners[n]]]
  BY DEF Tell
<1>2. Len(listeners) \in Nat /\ DOMAIN listeners = 1..Len(listeners)
  OBVIOUS
<1>3. calls' \in Seq(Calls)
  BY <1>1, <1>2 DEF Calls
<1>4. /\ DOMAIN calls' = DOMAIN listeners
      /\ \A n \in DOMAIN calls' : calls'[n].listener = listeners[n] /\ calls'[n].event = event
  BY <1>1, <1>2
<1>5. CallsAscend'
  BY <1>4 DEF CallsAscend, Done, Ascending, Preroll
<1>6. CalledIds = {}
  BY <1>1 DEF CalledIds
<1>7. CalledIds' = IF event = "completed" THEN ListenerIds ELSE {}
  BY <1>4 DEF CalledIds, ListenerIds, IdsOf, Done, Preroll
<1> QED
  BY <1>3, <1>4, <1>5, <1>6, <1>7

------------------------------------------------------------------------------
\* Init.

LEMMA InitInv == Init => Inv
<1> SUFFICES ASSUME Init PROVE Inv
  OBVIOUS
<1>1. TypeInv
  <2>0. 0 \in 0..MaxRequests /\ 0 \in 0..MaxBreaks
    BY BoundAssumption
  <2>3. {changedChannelUrl, playFlag, playing, recovered, overtaken, failed} \subseteq BOOLEAN
    BY DEF Init
  <2>1. ScalarType
    BY <2>0, <2>3 DEF Init, ScalarType
  <2>2. listeners = <<>> /\ calls = <<>> /\ queue = <<>>
    BY DEF Init
  <2> QED BY <2>1, <2>2 DEF TypeInv
<1>2. /\ ListenerIds = {} /\ CalledIds = {} /\ CompletedIds = {} /\ ReplaceIds = {}
      /\ Underway = {}
  BY DEF Init, ListenerIds, CalledIds, CompletedIds, ReplaceIds, IdsOf, Underway
<1>3. Pipeline
  BY <1>2 DEF Init, Pipeline, StagesAscend, StagesInOrder, CalledIsListener, Ascending,
              CallsAscend, Before
<1>4. PlayBehindReplace
  BY DEF Init, PlayBehindReplace, PlaysBehind
<1>5. Where
  BY <1>2 DEF Init, Where, ReadIsOfHead, RequestHasListener, PrepareOnItsWay,
              IdleHasNoListener, LastIsUnderway
<1> QED
  BY <1>1, <1>3, <1>4, <1>5 DEF Inv

------------------------------------------------------------------------------
\* Steps that leave the pipeline alone.

Still == UNCHANGED <<listeners, calls, queue, placed>>

LEMMA StillIds ==
  ASSUME Still
  PROVE  /\ ListenerIds' = ListenerIds /\ CalledIds' = CalledIds
         /\ CompletedIds' = CompletedIds /\ ReplaceIds' = ReplaceIds /\ Underway' = Underway
BY DEF Still, ListenerIds, CalledIds, CompletedIds, ReplaceIds, Underway

LEMMA StillPipeline ==
  ASSUME TypeInv, TypeInv', Pipeline, PlayBehindReplace, Still, requests' >= requests
  PROVE  Pipeline' /\ PlayBehindReplace'
<1>1. StagesAscend' /\ CalledIsListener' /\ PlayBehindReplace'
  BY DEF Still, Pipeline, StagesAscend, Ascending, CallsAscend, CalledIsListener,
         PlayBehindReplace
<1>2. \A i \in Underway \cup placed : i \in Nat /\ i <= requests'
  <2>1. \A i \in Underway \cup placed : i <= requests
    BY DEF Pipeline, StagesInOrder
  <2>2. Underway \cup placed \subseteq Nat
    BY IdsAreIds DEF Underway, TypeInv, ScalarType
  <2>3. requests \in Nat /\ requests' \in Nat
    BY DEF TypeInv, ScalarType
  <2> QED
    BY <2>1, <2>2, <2>3
<1>3. StagesInOrder'
  BY <1>2, StillIds DEF Still, Pipeline, StagesInOrder
<1> QED
  BY <1>1, <1>3 DEF Pipeline

LEMMA StillTypes ==
  ASSUME TypeInv, Still, ScalarType'
  PROVE  TypeInv'
BY DEF TypeInv, Still

LEMMA StillStep ==
  ASSUME Inv, Still, ScalarType', requests' >= requests,
         ReadIsOfHead', RequestHasListener', PrepareOnItsWay', IdleHasNoListener',
         LastIsUnderway'
  PROVE  Inv'
BY StillTypes, StillPipeline DEF Inv, Where

LEMMA SetAdConfigStep ==
  ASSUME Inv, NEW k \in {"preroll", "linear"}, SetAdConfig(k)
  PROVE  Inv'
<1> USE DEF SetAdConfig, player, manager, history
<1>1. Still /\ ScalarType'
  BY DEF Inv, TypeInv, ScalarType, Still
<1>2. ReadIsOfHead' /\ RequestHasListener' /\ PrepareOnItsWay' /\ IdleHasNoListener'
        /\ LastIsUnderway'
  BY <1>1, StillIds DEF Inv, Where, ReadIsOfHead, RequestHasListener, PrepareOnItsWay,
                        IdleHasNoListener, LastIsUnderway
<1> QED
  BY <1>1, <1>2, StillStep DEF Inv, TypeInv, ScalarType

LEMMA PlayStep ==
  ASSUME Inv, Play
  PROVE  Inv'
<1> USE DEF player, manager, history
<1>1. Still /\ ScalarType'
  BY DEF Play, Start, Inv, TypeInv, ScalarType, Still
<1>2. ReadIsOfHead' /\ RequestHasListener' /\ PrepareOnItsWay' /\ IdleHasNoListener'
        /\ LastIsUnderway'
  BY <1>1, StillIds DEF Play, Start, Inv, Where, ReadIsOfHead, RequestHasListener,
                        PrepareOnItsWay, IdleHasNoListener, LastIsUnderway, Still
<1> QED
  BY <1>1, <1>2, StillStep DEF Play, Inv, TypeInv, ScalarType

LEMMA RecoveryStep ==
  ASSUME Inv, ReplaceCurrentItemForRecovery
  PROVE  Inv'
<1> USE DEF ReplaceCurrentItemForRecovery, player, manager, history
<1>1. Still /\ ScalarType'
  BY DEF Inv, TypeInv, ScalarType, Still
<1>2. ReadIsOfHead' /\ RequestHasListener' /\ PrepareOnItsWay' /\ IdleHasNoListener'
        /\ LastIsUnderway'
  BY <1>1, StillIds DEF Inv, Where, ReadIsOfHead, RequestHasListener, PrepareOnItsWay,
                        IdleHasNoListener, LastIsUnderway
<1> QED
  BY <1>1, <1>2, StillStep DEF Inv, TypeInv, ScalarType

LEMMA ListensHasId ==
  ASSUME Inv
  PROVE  PrerollListens <=> ListenerIds # {}
<1>1. listeners \in Seq(Listeners)
  BY DEF Inv, TypeInv
<1>2. ASSUME PrerollListens PROVE ListenerIds # {}
  <2>1. PICK n \in DOMAIN listeners : listeners[n].kind = "preroll"
    BY <1>1, <1>2 DEF PrerollListens, ToSet
  <2>2. listeners[n].id \in Ids
    BY <1>1, <2>1, ListenerFacts DEF Preroll
  <2> QED BY <2>1, <2>2 DEF ListenerIds, IdsOf
<1>3. ASSUME ListenerIds # {} PROVE PrerollListens
  BY <1>1, <1>3 DEF ListenerIds, IdsOf, PrerollListens, ToSet
<1> QED BY <1>2, <1>3

\* Nothing is under way when no pre-roll is on its way.
LEMMA NothingUnderway ==
  ASSUME Inv, ~PrerollPending
  PROVE  Underway = {}
<1>1. calls = <<>> /\ queue = <<>> /\ ~PrerollListens
  BY DEF PrerollPending
<1>2. CalledIds = {} /\ CompletedIds = {} /\ ReplaceIds = {}
  BY <1>1 DEF CalledIds, CompletedIds, ReplaceIds, IdsOf
<1>3. ListenerIds = {}
  BY <1>1, ListensHasId
<1> QED
  BY <1>2, <1>3 DEF Underway

LEMMA ReplaceNilStep ==
  ASSUME Inv, ReplaceNil
  PROVE  Inv'
<1> USE DEF ReplaceNil
<1>0. Still /\ 0 \in 0..MaxRequests
  BY BoundAssumption DEF Still
<1>a. {changedChannelUrl', playFlag', playing', recovered', overtaken', failed'} \subseteq BOOLEAN
  BY DEF Inv, TypeInv, ScalarType, PrerollPending
<1>1. Still /\ ScalarType'
  BY <1>0, <1>a DEF Inv, TypeInv, ScalarType, Still
<1>2. ReadIsOfHead' /\ RequestHasListener' /\ PrepareOnItsWay' /\ LastIsUnderway'
  BY <1>1 DEF Inv, Where, ReadIsOfHead, RequestHasListener, PrepareOnItsWay, LastIsUnderway
<1>3. IdleHasNoListener'
  <2>1. overtaken \in BOOLEAN
    BY DEF Inv, TypeInv, ScalarType
  <2>2. ~overtaken' => Underway' = {}
    BY <1>1, <2>1, StillIds, NothingUnderway
  <2> QED
    BY <2>2 DEF IdleHasNoListener, Underway
<1> QED
  BY <1>1, <1>2, <1>3, StillStep DEF Inv, TypeInv, ScalarType

------------------------------------------------------------------------------
\* What the app asks for.

LEMMA ContentAsked ==
  ASSUME Inv, NEW k, Asks(k),
         \/ ContentAtOnce(k, requests + 1)
         \/ k = "nil" /\ UNCHANGED <<player, current, manager>>,
         UNCHANGED <<adConfig, playFlag, playing, calls, read, queue, breaks>>
  PROVE  Inv'
<1> USE DEF Asks, player, manager
<1>1. Still /\ requests' = requests + 1 /\ requests \in Nat /\ asked' = requests'
  BY DEF ContentAtOnce, Still, Inv, TypeInv, ScalarType
<1>2. asked' \in 0..MaxRequests /\ current' \in 0..MaxRequests
  BY <1>1, BoundAssumption DEF ContentAtOnce, Inv, TypeInv, ScalarType
<1>3. {changedChannelUrl', playFlag', playing', recovered', overtaken', failed'} \subseteq BOOLEAN
  BY DEF ContentAtOnce, Inv, TypeInv, ScalarType, PrerollPending
<1>4. ScalarType'
  BY <1>1, <1>2, <1>3 DEF ContentAtOnce, Stopped, Still, Inv, TypeInv, ScalarType
<1>5. ~overtaken' => /\ ~overtaken /\ ~PrerollPending /\ Underway = {}
                     /\ prerollPrepared' # "false" /\ current' = asked'
  <2>1. ~overtaken' => ~overtaken /\ ~PrerollPending /\ ContentAtOnce(k, requests + 1)
    BY DEF ContentAtOnce
  <2> QED
    BY <2>1, NothingUnderway DEF ContentAtOnce, PrerollPending
<1>6. ReadIsOfHead'
  BY DEF Inv, Where, ReadIsOfHead
<1>7. RequestHasListener'
  BY <1>1, StillIds DEF ContentAtOnce, Stopped, Inv, Where, RequestHasListener
<1>8. PrepareOnItsWay' /\ IdleHasNoListener' /\ LastIsUnderway'
  BY <1>1, <1>5, StillIds DEF PrepareOnItsWay, IdleHasNoListener, LastIsUnderway, Underway
<1> QED
  BY <1>1, <1>4, <1>6, <1>7, <1>8, StillStep

LEMMA PrerollAsked ==
  ASSUME Inv, NEW k, Asks(k), PrerollFirst(k, requests + 1),
         UNCHANGED <<adConfig, playFlag, playing, calls, read, queue, breaks>>
  PROVE  Inv'
<1> DEFINE id == requests + 1
           l == [kind |-> "preroll", of |-> k, id |-> id]
<1> USE DEF Asks, PrerollFirst
<1>1. id \in Ids /\ requests \in Nat /\ requests' = id /\ asked' = id
  BY BoundAssumption DEF Ids, Inv, TypeInv, ScalarType
<1>2. l \in Listeners /\ l.kind = "preroll" /\ l.id = id /\ listeners' = Append(listeners, l)
  BY <1>1, NewEntries
<1> HIDE DEF l
<1>3. {changedChannelUrl', playFlag', playing', recovered', overtaken', failed'} \subseteq BOOLEAN
  BY DEF Inv, TypeInv, ScalarType, PrerollPending
<1>4. TypeInv'
  <2>1. ScalarType'
    BY <1>1, <1>3 DEF Inv, TypeInv, ScalarType, Ids
  <2> QED
    BY <2>1, <1>2 DEF Inv, TypeInv
<1>5. /\ ListenerIds' = ListenerIds \cup {id} /\ CalledIds' = CalledIds
      /\ CompletedIds' = CompletedIds /\ ReplaceIds' = ReplaceIds
  <2>0. listeners \in Seq(Listeners)
    BY DEF Inv, TypeInv
  <2>a. IdsOf(Append(listeners, l), "preroll") = IdsOf(listeners, "preroll") \cup {l.id}
    BY <2>0, <1>1, <1>2, AppendIn
  <2>1. ListenerIds' = ListenerIds \cup {id}
    BY <2>a, <1>2 DEF ListenerIds
  <2> QED
    BY <2>1 DEF CalledIds, CompletedIds, ReplaceIds
<1>6. \A i \in Underway \cup placed : i \in Nat /\ i <= requests /\ i < id /\ i <= requests'
  BY <1>1, IdsAreIds DEF Inv, Pipeline, StagesInOrder, TypeInv, ScalarType, Underway
<1>7. CalledIds \subseteq ListenerIds
  BY CalledListens DEF Inv, Pipeline
<1>8. StagesAscend'
  <2>1. \A n \in DOMAIN listeners : listeners[n].kind = "preroll" => listeners[n].id \in Ids
    BY ListenerFacts DEF Inv, TypeInv, Preroll
  <2>2. Ascending(Append(listeners, l), "preroll")
    BY <1>1, <1>2, <1>6, <2>1, AppendAscends
         DEF Inv, TypeInv, Pipeline, StagesAscend, ListenerIds, Underway
  <2> QED
    BY <1>2, <2>2 DEF Inv, Pipeline, StagesAscend, CallsAscend
<1>9. StagesInOrder'
  BY <1>1, <1>5, <1>6, <1>7 DEF Inv, Pipeline, StagesInOrder, Before, Underway
<1>10. CalledIsListener'
  <2>1. \A n \in DOMAIN listeners : n \in DOMAIN listeners' /\ listeners'[n] = listeners[n]
    BY <1>2 DEF Inv, TypeInv
  <2> QED
    BY <2>1 DEF Inv, Pipeline, CalledIsListener
<1>11. PlayBehindReplace'
  BY DEF Inv, PlayBehindReplace
<1>12. RequestHasListener'
  BY <1>5, <1>6, <1>7 DEF RequestHasListener, Underway
<1>13. LastIsUnderway'
  BY <1>1, <1>5 DEF LastIsUnderway, Underway
<1>14. ReadIsOfHead' /\ PrepareOnItsWay' /\ IdleHasNoListener'
  BY DEF Inv, Where, ReadIsOfHead, PrepareOnItsWay, IdleHasNoListener
<1> QED
  BY <1>4, <1>8, <1>9, <1>10, <1>11, <1>12, <1>13, <1>14 DEF Inv, Pipeline, Where

------------------------------------------------------------------------------
\* Steps of the ads manager and of the listeners.

\* Steps that change the calls, and add nothing of the pipeline to the queue.
LEMMA CallsPipeline ==
  ASSUME Inv, CallsAscend', CalledIsListener',
         CalledIds' \in {CalledIds, {}, ListenerIds},
         UNCHANGED <<listeners, placed, requests>>,
         CompletedIds' = CompletedIds, ReplaceIds' = ReplaceIds,
         Ascending(queue, "completed")', Ascending(queue, "replace")'
  PROVE  Pipeline' /\ ListenerIds' = ListenerIds /\ Underway' = Underway
<1>1. ListenerIds' = ListenerIds
  BY DEF ListenerIds
<1>2. Underway' = Underway
  BY <1>1 DEF Underway
<1>3. StagesAscend'
  BY DEF Inv, Pipeline, StagesAscend
<1>4. StagesInOrder'
  BY <1>1, <1>2 DEF Inv, Pipeline, StagesInOrder, Before
<1> QED
  BY <1>1, <1>2, <1>3, <1>4 DEF Pipeline

LEMMA TellPipeline ==
  ASSUME Inv, NEW event \in {"prepare", "completed"}, Tell(event),
         UNCHANGED <<listeners, queue, placed, requests>>
  PROVE  /\ Pipeline' /\ PlayBehindReplace' /\ calls' \in Seq(Calls)
         /\ ListenerIds' = ListenerIds /\ Underway' = Underway
         /\ CalledIds' = IF event = "completed" THEN ListenerIds ELSE {}
         /\ CalledIds = {}
         /\ \A n \in DOMAIN listeners : n \in DOMAIN calls' /\ calls'[n].event = event
                                          /\ calls'[n].listener = listeners[n]
<1>1. /\ calls' \in Seq(Calls) /\ CallsAscend' /\ CalledIds = {}
      /\ DOMAIN calls' = DOMAIN listeners
      /\ \A n \in DOMAIN calls' : calls'[n].listener = listeners[n] /\ calls'[n].event = event
      /\ CalledIds' = IF event = "completed" THEN ListenerIds ELSE {}
  BY Told DEF Inv, TypeInv, Pipeline, StagesAscend
<1>2. CalledIsListener'
  BY <1>1 DEF CalledIsListener
<1>3. CompletedIds' = CompletedIds /\ ReplaceIds' = ReplaceIds
  BY DEF CompletedIds, ReplaceIds
<1>4. Ascending(queue, "completed")' /\ Ascending(queue, "replace")'
  BY DEF Inv, Pipeline, StagesAscend
<1>5. CalledIds' \in {CalledIds, {}, ListenerIds}
  BY <1>1
<1>6. Pipeline' /\ ListenerIds' = ListenerIds /\ Underway' = Underway
  BY <1>1, <1>2, <1>3, <1>4, <1>5, CallsPipeline
<1>7. PlayBehindReplace'
  BY DEF Inv, PlayBehindReplace
<1> QED
  BY <1>1, <1>6, <1>7

LEMMA BreakPreparedStep ==
  ASSUME Inv, BreakPrepared
  PROVE  Inv'
<1> USE DEF BreakPrepared, Manager, player, history
<1>1. /\ Pipeline' /\ PlayBehindReplace' /\ calls' \in Seq(Calls)
      /\ ListenerIds' = ListenerIds /\ Underway' = Underway /\ CalledIds = {}
      /\ \A n \in DOMAIN listeners : n \in DOMAIN calls' /\ calls'[n].event = "prepare"
                                       /\ calls'[n].listener = listeners[n]
  BY TellPipeline
<1>2. TypeInv'
  BY <1>1 DEF Inv, TypeInv, ScalarType, Calls
<1>3. ReadIsOfHead'
  BY DEF Tell, Inv, Where, ReadIsOfHead
<1>4. PrepareOnItsWay'
  <2>1. \E n \in DOMAIN listeners : Preroll(listeners[n])
    BY <1>1 DEF Inv, Where, RequestHasListener, ListenerIds, IdsOf, Preroll
  <2> QED
    BY <1>1, <2>1 DEF PrepareOnItsWay
<1>5. RequestHasListener' /\ IdleHasNoListener' /\ LastIsUnderway'
  BY <1>1 DEF Inv, Where, RequestHasListener, IdleHasNoListener, LastIsUnderway
<1> QED
  BY <1>1, <1>2, <1>3, <1>4, <1>5 DEF Inv, Where

LEMMA BreakInContentStep ==
  ASSUME Inv, BreakInContent
  PROVE  Inv'
<1> USE DEF BreakInContent, Manager, player, history
<1>1. ads = "idle" /\ ads' \in {"prepared", "playing"} /\ breaks' \in 0..MaxBreaks
  BY BoundAssumption DEF Inv, TypeInv, ScalarType
<1>2. ScalarType'
  BY <1>1 DEF Inv, TypeInv, ScalarType
<1>3. RequestHasListener' /\ PrepareOnItsWay' /\ IdleHasNoListener'
  BY <1>1 DEF Inv, Where, RequestHasListener, PrepareOnItsWay, IdleHasNoListener
<1>4. CASE Tell("prepare")
  <2>1. /\ Pipeline' /\ PlayBehindReplace' /\ calls' \in Seq(Calls)
        /\ ListenerIds' = ListenerIds /\ Underway' = Underway
    BY <1>4, TellPipeline
  <2>2. ReadIsOfHead' /\ LastIsUnderway'
    BY <1>4, <2>1 DEF Tell, Inv, Where, ReadIsOfHead, LastIsUnderway
  <2> QED
    BY <1>2, <1>3, <2>1, <2>2 DEF Inv, TypeInv, Where, Calls
<1>5. CASE UNCHANGED calls
  <2>1. Still /\ requests' = requests /\ requests \in Nat
    BY <1>5 DEF Still, Inv, TypeInv, ScalarType
  <2>2. ReadIsOfHead' /\ LastIsUnderway'
    BY <1>5, <2>1, StillIds DEF Inv, Where, ReadIsOfHead, LastIsUnderway
  <2> QED
    BY <1>2, <1>3, <2>1, <2>2, StillStep
<1> QED
  BY <1>4, <1>5

LEMMA BreakCompletesStep ==
  ASSUME Inv, BreakCompletes
  PROVE  Inv'
<1> USE DEF BreakCompletes, Manager, player, history
<1>1. /\ Pipeline' /\ PlayBehindReplace' /\ calls' \in Seq(Calls)
      /\ ListenerIds' = ListenerIds /\ Underway' = Underway
      /\ CalledIds' = ListenerIds
  BY TellPipeline
<1>2. TypeInv'
  <2>1. {changedChannelUrl', playFlag', playing', recovered', overtaken', failed'} \subseteq BOOLEAN
    BY DEF Inv, TypeInv, ScalarType
  <2> QED
    BY <1>1, <2>1 DEF Inv, TypeInv, ScalarType, Calls
<1>3. ReadIsOfHead'
  BY DEF Tell, Inv, Where, ReadIsOfHead
<1>4. PrepareOnItsWay'
  BY DEF Tell, Inv, Where, PrepareOnItsWay
<1>5. RequestHasListener' /\ IdleHasNoListener' /\ LastIsUnderway'
  BY <1>1 DEF Inv, Where, RequestHasListener, IdleHasNoListener, LastIsUnderway
<1> QED
  BY <1>1, <1>2, <1>3, <1>4, <1>5 DEF Inv, Where

LEMMA BreakFailsStep ==
  ASSUME Inv, BreakFails
  PROVE  Inv'
<1> USE DEF BreakFails, player
<1>1. Still /\ requests' = requests /\ requests \in Nat
  BY DEF Still, Inv, TypeInv, ScalarType
<1>2. ScalarType'
  <2>1. {changedChannelUrl', playFlag', playing', recovered', overtaken', failed'} \subseteq BOOLEAN
    BY DEF Inv, TypeInv, ScalarType, PrerollListens
  <2> QED
    BY <2>1 DEF Inv, TypeInv, ScalarType
<1>3. ReadIsOfHead' /\ RequestHasListener' /\ LastIsUnderway'
  BY <1>1, StillIds DEF Inv, Where, ReadIsOfHead, RequestHasListener, LastIsUnderway
<1>4. ~failed' => ~failed /\ ListenerIds = {}
  BY ListensHasId
<1>5. PrepareOnItsWay'
  <2> SUFFICES ASSUME ~overtaken, ~failed, ListenerIds = {}, prerollPrepared = "false"
               PROVE  FALSE
    BY <1>4 DEF PrepareOnItsWay
  <2>1. ads = "requested"
    BY DEF Inv, Where, PrepareOnItsWay
  <2> QED
    BY <2>1 DEF Inv, Where, RequestHasListener
<1>6. IdleHasNoListener'
  BY <1>1, <1>4, StillIds DEF IdleHasNoListener
<1> QED
  BY <1>1, <1>2, <1>3, <1>5, <1>6, StillStep

LEMMA OnPrepareReadsStep ==
  ASSUME Inv, OnPrepareReads
  PROVE  Inv'
<1> USE DEF OnPrepareReads, Listening, Called, manager, history
<1>1. Still /\ ScalarType'
  BY DEF Inv, TypeInv, ScalarType, Still
<1>2. ReadIsOfHead' /\ RequestHasListener' /\ PrepareOnItsWay' /\ IdleHasNoListener'
        /\ LastIsUnderway'
  BY <1>1, StillIds DEF Inv, Where, ReadIsOfHead, RequestHasListener, PrepareOnItsWay,
                        IdleHasNoListener, LastIsUnderway, Preroll
<1> QED
  BY <1>1, <1>2, StillStep DEF Inv, TypeInv, ScalarType

\* A call that is not the end of a pre-roll: what is left of the calls.
LEMMA CallTakenKeeps ==
  ASSUME Inv, calls # <<>>, calls' = Tail(calls), ~Done(Head(calls)),
         UNCHANGED <<listeners, placed, requests>>,
         CompletedIds' = CompletedIds, ReplaceIds' = ReplaceIds,
         Ascending(queue, "completed")', Ascending(queue, "replace")'
  PROVE  /\ Pipeline' /\ calls' \in Seq(Calls)
         /\ ListenerIds' = ListenerIds /\ CalledIds' = CalledIds /\ Underway' = Underway
         /\ \A n \in DOMAIN calls : n # 1 => n - 1 \in DOMAIN calls' /\ calls'[n - 1] = calls[n]
<1>1. /\ calls' \in Seq(Calls) /\ CallsAscend' /\ CalledIds' = CalledIds
      /\ \A n \in DOMAIN calls' : n + 1 \in DOMAIN calls /\ calls'[n] = calls[n + 1]
      /\ \A n \in DOMAIN calls : n # 1 => n - 1 \in DOMAIN calls' /\ calls'[n - 1] = calls[n]
  BY CallTaken DEF Inv, TypeInv, Pipeline, StagesAscend, Calls
<1>2. CalledIsListener'
  BY <1>1 DEF Inv, Pipeline, CalledIsListener
<1>3. Pipeline' /\ ListenerIds' = ListenerIds /\ Underway' = Underway
  BY <1>1, <1>2, CallsPipeline
<1> QED
  BY <1>1, <1>3

LEMMA OnPrepareActsStep ==
  ASSUME Inv, OnPrepareActs
  PROVE  Inv'
<1> USE DEF OnPrepareActs, Listening, history
<1>1. calls # <<>> /\ ~Done(Head(calls))
  BY DEF Inv, Where, ReadIsOfHead, Done
<1>2. CompletedIds' = CompletedIds /\ ReplaceIds' = ReplaceIds
  BY DEF CompletedIds, ReplaceIds
<1>3. Ascending(queue, "completed")' /\ Ascending(queue, "replace")'
  BY DEF Inv, Pipeline, StagesAscend
<1>4. /\ Pipeline' /\ calls' \in Seq(Calls)
      /\ ListenerIds' = ListenerIds /\ CalledIds' = CalledIds /\ Underway' = Underway
  BY <1>1, <1>2, <1>3, CallTakenKeeps
<1>5. TypeInv'
  BY <1>4 DEF Inv, TypeInv, ScalarType, Start, Calls
<1>6. PlayBehindReplace'
  BY DEF Inv, PlayBehindReplace
<1>7. ads' \in {ads, "playing"} /\ (ads' # ads => ads = "prepared")
  BY DEF Start
<1>8. ReadIsOfHead' /\ RequestHasListener' /\ PrepareOnItsWay' /\ IdleHasNoListener'
        /\ LastIsUnderway'
  BY <1>4, <1>7 DEF Inv, Where, ReadIsOfHead, RequestHasListener, PrepareOnItsWay,
                    IdleHasNoListener, LastIsUnderway
<1> QED
  BY <1>4, <1>5, <1>6, <1>8 DEF Inv, Where

\* A call of the midroll's listener is nothing of the pipeline.
LEMMA MidrollCall ==
  ASSUME Inv, NEW event, Called(event, "midroll"), calls' = Tail(calls), Listening,
         UNCHANGED <<prerollPrepared, manager, read>>,
         queue' \in {queue, Append(queue, [kind |-> "midroll"])}
  PROVE  Inv'
<1> USE DEF Listening, Called, manager, history
<1> DEFINE b == [kind |-> "midroll"]
<1>1. calls # <<>> /\ Head(calls).listener.kind = "midroll" /\ ~Done(Head(calls))
  BY DEF Done, Preroll
<1>2. queue \in Seq(Blocks) /\ b \in Blocks /\ b.kind = "midroll"
  BY NewEntries DEF Inv, TypeInv
<1> HIDE DEF b
<1>3. /\ CompletedIds' = CompletedIds /\ ReplaceIds' = ReplaceIds
      /\ Ascending(queue, "completed")' /\ Ascending(queue, "replace")'
      /\ PlayBehindReplace' /\ queue' \in Seq(Blocks)
  <2>0. /\ Ascending(queue, "completed") /\ Ascending(queue, "replace")
        /\ PlaysBehind(queue, placed)
    BY DEF Inv, Pipeline, StagesAscend, PlayBehindReplace
  <2>1. CASE queue' = queue
    BY <1>2, <2>0, <2>1 DEF CompletedIds, ReplaceIds, PlayBehindReplace
  <2>2. CASE queue' = Append(queue, b)
    <3>1. /\ IdsOf(Append(queue, b), "completed") = IdsOf(queue, "completed")
          /\ IdsOf(Append(queue, b), "replace") = IdsOf(queue, "replace")
          /\ Ascending(Append(queue, b), "completed") /\ Ascending(Append(queue, b), "replace")
      BY <1>2, <2>0, AppendOther
    <3>2. PlaysBehind(Append(queue, b), placed)
      BY <1>2, <2>0, AppendBehind
    <3> QED
      BY <1>2, <2>2, <3>1, <3>2 DEF CompletedIds, ReplaceIds, PlayBehindReplace
  <2> QED BY <2>1, <2>2 DEF b
<1>4. /\ Pipeline' /\ calls' \in Seq(Calls)
      /\ ListenerIds' = ListenerIds /\ CalledIds' = CalledIds /\ Underway' = Underway
      /\ \A n \in DOMAIN calls : n # 1 => n - 1 \in DOMAIN calls' /\ calls'[n - 1] = calls[n]
  BY <1>1, <1>3, CallTakenKeeps
<1>5. TypeInv'
  BY <1>3, <1>4 DEF Inv, TypeInv, ScalarType, Calls
<1>6. ReadIsOfHead'
  BY <1>1 DEF Inv, Where, ReadIsOfHead, Preroll
<1>7. PrepareOnItsWay'
  <2>1. Head(calls) = calls[1]
    BY <1>1
  <2>2. \A n \in DOMAIN calls : Preroll(calls[n].listener) => n # 1
    BY <1>1, <2>1 DEF Preroll
  <2> QED
    BY <1>4, <2>2 DEF Inv, Where, PrepareOnItsWay
<1>8. RequestHasListener' /\ IdleHasNoListener' /\ LastIsUnderway'
  BY <1>4 DEF Inv, Where, RequestHasListener, IdleHasNoListener, LastIsUnderway
<1> QED
  BY <1>3, <1>4, <1>5, <1>6, <1>7, <1>8 DEF Inv, Where

LEMMA OnMidrollPrepareStep == ASSUME Inv, OnMidrollPrepare PROVE Inv'
BY MidrollCall DEF OnMidrollPrepare

LEMMA OnMidrollCompletedStep == ASSUME Inv, OnMidrollCompleted PROVE Inv'
BY MidrollCall DEF OnMidrollCompleted

LEMMA OnCompletedStep ==
  ASSUME Inv, OnCompleted
  PROVE  Inv'
<1> USE DEF OnCompleted, Listening, Called, history
<1> DEFINE l == Head(calls).listener
           id == l.id
           b == [kind |-> "completed", of |-> l.of, id |-> l.id]
<1>1. /\ calls # <<>> /\ Head(calls).event = "completed" /\ l.kind = "preroll"
      /\ Done(Head(calls)) /\ Head(calls) = calls[1] /\ 1 \in DOMAIN calls
  BY DEF Done, Preroll, Inv, TypeInv
<1>2. l \in Listeners /\ id \in Ids /\ l.of \in {"preroll", "vod"}
  <2>0. calls \in Seq(Calls)
    BY DEF Inv, TypeInv, Calls
  <2>1. Head(calls) \in Calls
    BY <2>0, <1>1
  <2>2. l \in Listeners
    BY <2>1 DEF Calls
  <2> QED
    BY <2>2, <1>1, ListenerFacts DEF Preroll
<1>3. b \in Blocks /\ b.kind = "completed" /\ b.id = id
  BY <1>2, NewEntries
<1>4. listeners' = RemoveFirst(listeners, l) /\ queue' = Append(queue, b)
  OBVIOUS
<1>5. PICK j \in DOMAIN listeners : listeners[j] = l
  BY <1>1 DEF Inv, Pipeline, CalledIsListener
<1> HIDE DEF l, b
<1>6. /\ listeners' \in Seq(Listeners) /\ ListenerIds' = ListenerIds \ {id}
      /\ id \in ListenerIds /\ Ascending(listeners, "preroll")'
      /\ \A n \in DOMAIN listeners : listeners[n] # l =>
           \E m \in DOMAIN listeners' : listeners'[m] = listeners[n]
  <2>1. listeners \in Seq(Listeners) /\ Ascending(listeners, "preroll")
    BY DEF Inv, TypeInv, Pipeline, StagesAscend
  <2> DEFINE r == RemoveFirst(listeners, l)
  <2>2. l.id \in Ids /\ l.kind = "preroll"
    BY <1>1, <1>2 DEF l
  <2>3. /\ r \in Seq(Listeners) /\ IdsOf(r, "preroll") = IdsOf(listeners, "preroll") \ {l.id}
        /\ l.id \in IdsOf(listeners, "preroll") /\ Ascending(r, "preroll")
        /\ \A n \in DOMAIN listeners :
             listeners[n] # l => \E m \in DOMAIN r : r[m] = listeners[n]
    <3> HIDE DEF OnCompleted, Listening, Called, history
    <3>1. \E k \in DOMAIN listeners : listeners[k] = l
      BY <1>5
    <3> QED
      BY <3>1, <2>1, <2>2, Removed, SMTT(30)
  <2>4. listeners' = r
    BY <1>4
  <2> HIDE DEF r
  <2> QED
    BY <2>3, <2>4 DEF ListenerIds
<1>7. /\ calls' \in Seq(Calls) /\ CallsAscend'
      /\ \A n \in DOMAIN calls' : n + 1 \in DOMAIN calls /\ calls'[n] = calls[n + 1]
      /\ \A n \in DOMAIN calls : n # 1 => n - 1 \in DOMAIN calls' /\ calls'[n - 1] = calls[n]
      /\ id \in CalledIds /\ CalledIds' = CalledIds \ {id} /\ Before({id}, CalledIds')
  BY <1>1, CallTaken DEF Inv, TypeInv, Pipeline, StagesAscend, Calls, l
<1>8. /\ CompletedIds' = CompletedIds \cup {id} /\ ReplaceIds' = ReplaceIds
      /\ Ascending(queue, "replace")' /\ PlayBehindReplace' /\ queue' \in Seq(Blocks)
  <2>1. /\ queue \in Seq(Blocks) /\ Ascending(queue, "replace") /\ PlaysBehind(queue, placed)
    BY DEF Inv, TypeInv, Pipeline, StagesAscend, PlayBehindReplace
  <2>2. /\ IdsOf(Append(queue, b), "replace") = IdsOf(queue, "replace")
        /\ Ascending(Append(queue, b), "replace")
    BY <1>3, <2>1, AppendOther
  <2>3. IdsOf(Append(queue, b), "completed") = IdsOf(queue, "completed") \cup {id}
    BY <1>2, <1>3, <2>1, AppendIn
  <2>4. PlaysBehind(Append(queue, b), placed)
    BY <1>3, <2>1, AppendBehind
  <2> QED
    BY <1>3, <1>4, <2>1, <2>2, <2>3, <2>4 DEF CompletedIds, ReplaceIds, PlayBehindReplace
<1>9. CalledIds \subseteq ListenerIds
  BY CalledListens DEF Inv, Pipeline
<1>10. \A i \in ListenerIds' : id < i
  BY <1>6, <1>7, <1>9 DEF Inv, Pipeline, StagesInOrder, Before
<1>11. Ascending(queue, "completed")'
  <2>1. \A n \in DOMAIN queue : queue[n].kind = "completed" => queue[n].id \in Ids
    BY BlockFacts DEF Inv, TypeInv
  <2>2. \A i \in IdsOf(queue, "completed") : i < id
    BY <1>6 DEF Inv, Pipeline, StagesInOrder, Before, CompletedIds
  <2> QED
    BY <1>2, <1>3, <1>4, <2>1, <2>2, AppendAscends
       DEF Inv, TypeInv, Pipeline, StagesAscend
<1>12. StagesAscend'
  BY <1>6, <1>7, <1>8, <1>11 DEF StagesAscend
<1>13. Underway' = Underway
  BY <1>6, <1>8 DEF Underway
<1>14. StagesInOrder'
  <2>1. StagesInOrder /\ UNCHANGED <<placed, requests>>
    BY DEF Inv, Pipeline
  <2>2. Before(CalledIds', ListenerIds' \ CalledIds')
    BY <2>1, <1>6, <1>7 DEF StagesInOrder, Before
  <2>3. Before(CompletedIds', ListenerIds')
    BY <2>1, <1>6, <1>8, <1>10 DEF StagesInOrder, Before
  <2>4. Before(ReplaceIds', ListenerIds' \cup CompletedIds')
    BY <2>1, <1>6, <1>8 DEF StagesInOrder, Before
  <2> QED
    BY <2>1, <2>2, <2>3, <2>4, <1>13 DEF StagesInOrder
<1>15. CalledIsListener'
  <2> SUFFICES ASSUME NEW n \in DOMAIN calls', Done(calls'[n])
               PROVE  \E m \in DOMAIN listeners' : listeners'[m] = calls'[n].listener
    BY DEF CalledIsListener
  <2>1. PICK m \in DOMAIN listeners : listeners[m] = calls'[n].listener
    BY <1>7 DEF Inv, Pipeline, CalledIsListener
  <2>2. calls'[n].listener.id \in CalledIds'
    <3>1. calls'[n] \in Calls
      BY <1>7
    <3>2. calls'[n].listener.id \in Ids
      BY <3>1, ListenerFacts DEF Calls, Done
    <3> QED BY <3>2 DEF CalledIds
  <2>3. calls'[n].listener # l
    BY <1>7, <2>2
  <2> QED
    BY <1>6, <2>1, <2>3
<1>16. TypeInv'
  BY <1>6, <1>7, <1>8 DEF Inv, TypeInv, ScalarType, Calls
<1>17. ReadIsOfHead'
  BY <1>1 DEF Inv, Where, ReadIsOfHead
<1>18. RequestHasListener'
  <2> SUFFICES ASSUME ads' = "requested" PROVE ListenerIds' \ CalledIds' # {}
    BY DEF RequestHasListener
  <2>1. PICK i \in ListenerIds : i \notin CalledIds
    BY DEF Inv, Where, RequestHasListener
  <2>2. i \in ListenerIds' /\ i \notin CalledIds'
    BY <2>1, <1>6, <1>7
  <2> QED BY <2>2
<1>19. PrepareOnItsWay'
  <2> SUFFICES ASSUME ~overtaken, ~failed, prerollPrepared = "false", ads # "requested"
               PROVE  /\ ads \in {"prepared", "playing"}
                      /\ \E n \in DOMAIN calls' : /\ calls'[n].event = "prepare"
                                                  /\ Preroll(calls'[n].listener)
    BY DEF PrepareOnItsWay
  <2>1. ads \in {"prepared", "playing"}
    BY DEF Inv, Where, PrepareOnItsWay
  <2>2. PICK n \in DOMAIN calls : calls[n].event = "prepare" /\ Preroll(calls[n].listener)
    BY DEF Inv, Where, PrepareOnItsWay
  <2>3. n # 1
    BY <2>2, <1>1
  <2>4. n - 1 \in DOMAIN calls' /\ calls'[n - 1] = calls[n]
    BY <2>3, <1>7
  <2> QED
    BY <2>1, <2>2, <2>4
<1>20. IdleHasNoListener' /\ LastIsUnderway'
  BY <1>6, <1>7, <1>13 DEF Inv, Where, IdleHasNoListener, LastIsUnderway
<1> QED
  BY <1>8, <1>12, <1>14, <1>15, <1>16, <1>17, <1>18, <1>19, <1>20 DEF Inv, Pipeline, Where

------------------------------------------------------------------------------
\* Steps of the main thread.

\* The first block leaves the queue.
LEMMA BlockTaken ==
  ASSUME Inv, NEW kind, Body(kind), NEW now, placed \subseteq now,
         kind = "replace" => Head(queue).id \in now
  PROVE  LET q == Tail(queue)
         IN /\ Head(queue) \in Blocks /\ Head(queue).kind = kind /\ q \in Seq(Blocks)
            /\ PlaysBehind(q, now)
            /\ \A k \in {"completed", "replace"} :
                 /\ Ascending(q, k)
                 /\ IdsOf(q, k) = IF k = kind THEN IdsOf(queue, k) \ {Head(queue).id}
                                              ELSE IdsOf(queue, k)
                 /\ k = kind => /\ Head(queue).id \in IdsOf(queue, k)
                                /\ \A i \in IdsOf(q, k) : Head(queue).id < i
<1> DEFINE q == Tail(queue)
<1>1. /\ queue \in Seq(Blocks) /\ queue # <<>> /\ Head(queue).kind = kind
      /\ PlaysBehind(queue, placed)
  BY DEF Inv, TypeInv, Body, PlayBehindReplace
<1>2. Head(queue) \in Blocks /\ q \in Seq(Blocks)
  BY <1>1
<1>3. PlaysBehind(q, now)
  BY <1>1, TailBehind
<1>4. ASSUME NEW k \in {"completed", "replace"}
      PROVE  Ascending(queue, k) /\ Ascending(q, k)
  <2>1. Ascending(queue, k)
    BY DEF Inv, Pipeline, StagesAscend
  <2> QED
    BY <1>1, <2>1, TailAscends
<1>5. ASSUME NEW k \in {"completed", "replace"}, k # kind
      PROVE  IdsOf(q, k) = IdsOf(queue, k)
  BY <1>1, <1>5, TailOther
<1>6. ASSUME NEW k \in {"completed", "replace"}, k = kind
      PROVE  /\ IdsOf(q, k) = IdsOf(queue, k) \ {Head(queue).id}
             /\ Head(queue).id \in IdsOf(queue, k)
             /\ \A i \in IdsOf(q, k) : Head(queue).id < i
  <2>1. Head(queue).id \in Ids
    BY <1>1, <1>2, <1>6, BlockFacts
  <2> QED
    BY <1>1, <1>4, <1>6, <2>1, TailIn
<1> QED
  BY <1>1, <1>2, <1>3, <1>4, <1>5, <1>6

\* A block that is nothing of the pipeline.
LEMMA OtherBlock ==
  ASSUME Inv, NEW kind \in {"play", "midroll"}, Body(kind), queue' = Tail(queue),
         UNCHANGED <<listeners, calls, placed, requests>>
  PROVE  /\ Pipeline' /\ PlayBehindReplace' /\ queue' \in Seq(Blocks)
         /\ ListenerIds' = ListenerIds /\ CalledIds' = CalledIds /\ Underway' = Underway
<1>1. /\ queue' \in Seq(Blocks) /\ PlayBehindReplace'
      /\ CompletedIds' = CompletedIds /\ ReplaceIds' = ReplaceIds
      /\ Ascending(queue, "completed")' /\ Ascending(queue, "replace")'
  BY BlockTaken DEF PlayBehindReplace, CompletedIds, ReplaceIds
<1>2. CalledIds' = CalledIds
  BY DEF CalledIds
<1>3. CallsAscend' /\ CalledIsListener'
  BY DEF Inv, Pipeline, StagesAscend, CallsAscend, CalledIsListener
<1>4. Pipeline' /\ ListenerIds' = ListenerIds /\ Underway' = Underway
  BY <1>1, <1>2, <1>3, CallsPipeline
<1> QED
  BY <1>1, <1>2, <1>4

LEMMA RunPlayStep ==
  ASSUME Inv, RunPlay
  PROVE  Inv'
<1> USE DEF RunPlay, Main, manager
<1>1. /\ Pipeline' /\ PlayBehindReplace' /\ queue' \in Seq(Blocks)
      /\ ListenerIds' = ListenerIds /\ CalledIds' = CalledIds /\ Underway' = Underway
  BY OtherBlock
<1>2. TypeInv'
  BY <1>1 DEF Inv, TypeInv, ScalarType
<1>3. ReadIsOfHead' /\ RequestHasListener' /\ PrepareOnItsWay' /\ IdleHasNoListener'
        /\ LastIsUnderway'
  BY <1>1 DEF Inv, Where, ReadIsOfHead, RequestHasListener, PrepareOnItsWay,
              IdleHasNoListener, LastIsUnderway
<1> QED
  BY <1>1, <1>2, <1>3 DEF Inv, Where

LEMMA RunMidrollStep ==
  ASSUME Inv, RunMidroll
  PROVE  Inv'
<1> USE DEF RunMidroll, Main
<1>1. /\ Pipeline' /\ PlayBehindReplace' /\ queue' \in Seq(Blocks)
      /\ ListenerIds' = ListenerIds /\ CalledIds' = CalledIds /\ Underway' = Underway
  BY OtherBlock
<1>2. TypeInv'
  BY <1>1 DEF Inv, TypeInv, ScalarType, Start
<1>3. ReadIsOfHead' /\ RequestHasListener' /\ PrepareOnItsWay' /\ IdleHasNoListener'
        /\ LastIsUnderway'
  BY <1>1 DEF Start, Inv, Where, ReadIsOfHead, RequestHasListener, PrepareOnItsWay,
              IdleHasNoListener, LastIsUnderway
<1> QED
  BY <1>1, <1>2, <1>3 DEF Inv, Where

LEMMA RunReplaceStep ==
  ASSUME Inv, RunReplace
  PROVE  Inv'
<1> USE DEF RunReplace, Main, manager
<1> DEFINE id == Head(queue).id
<1>1. placed' = placed \cup {id} /\ Body("replace") /\ queue' = Tail(queue)
  OBVIOUS
<1>2. /\ queue' \in Seq(Blocks) /\ PlayBehindReplace'
      /\ Ascending(queue, "completed")' /\ Ascending(queue, "replace")'
      /\ CompletedIds' = CompletedIds /\ ReplaceIds' = ReplaceIds \ {id}
      /\ id \in ReplaceIds /\ \A i \in ReplaceIds' : id < i
  BY <1>1, BlockTaken DEF PlayBehindReplace, CompletedIds, ReplaceIds
<1> HIDE DEF id
<1>3. ListenerIds' = ListenerIds /\ CalledIds' = CalledIds
  BY DEF ListenerIds, CalledIds
<1>4. id \in Ids /\ id \in Nat /\ id \in 0..MaxRequests
  BY <1>2, IdsAreIds DEF Ids
<1>5. Underway' = Underway \ {id} /\ id \in Underway /\ \A i \in Underway' : id < i
  <2>1. \A i \in ListenerIds \cup CompletedIds : id < i /\ i # id
    BY <1>2, <1>4, IdsAreIds DEF Inv, Pipeline, StagesInOrder, Before
  <2> QED
    BY <2>1, <1>2, <1>3, <1>4 DEF Underway
<1>6. StagesInOrder'
  <2>1. StagesInOrder /\ UNCHANGED requests
    BY DEF Inv, Pipeline
  <2>2. Before(CalledIds', ListenerIds' \ CalledIds') /\ Before(CompletedIds', ListenerIds')
    BY <2>1, <1>2, <1>3 DEF StagesInOrder
  <2>3. Before(ReplaceIds', ListenerIds' \cup CompletedIds')
    BY <2>1, <1>2, <1>3 DEF StagesInOrder, Before
  <2>4. Before(placed', Underway')
    BY <2>1, <1>1, <1>5 DEF StagesInOrder, Before
  <2>5. \A i \in Underway' \cup placed' : i <= requests'
    BY <2>1, <1>1, <1>5 DEF StagesInOrder
  <2> QED
    BY <2>2, <2>3, <2>4, <2>5 DEF StagesInOrder
<1>7. StagesAscend' /\ CalledIsListener'
  BY <1>2 DEF Inv, Pipeline, StagesAscend, Ascending, CallsAscend, CalledIsListener
<1>8. TypeInv'
  BY <1>1, <1>2, <1>4 DEF Inv, TypeInv, ScalarType, id
<1>9. ReadIsOfHead' /\ RequestHasListener' /\ PrepareOnItsWay' /\ IdleHasNoListener'
  BY <1>3 DEF Inv, Where, ReadIsOfHead, RequestHasListener, PrepareOnItsWay, IdleHasNoListener
<1>10. LastIsUnderway'
  <2> SUFFICES ASSUME ~overtaken, asked # 0
               PROVE  IF Underway' = {} THEN id = asked ELSE asked \in Underway'
    BY DEF LastIsUnderway, id
  <2>1. asked \in Underway /\ asked = requests
    BY <1>5 DEF Inv, TypeInv, ScalarType, Where, LastIsUnderway
  <2>2. \A i \in Underway : i \in Nat /\ i <= asked
    BY <2>1, IdsAreIds DEF Inv, Pipeline, StagesInOrder, Underway
  <2>3. CASE asked = id
    <3>1. Underway' = {}
      BY <2>2, <2>3, <1>5, <1>4
    <3> QED BY <3>1, <2>3
  <2>4. CASE asked # id
    BY <2>1, <2>4, <1>5
  <2> QED BY <2>3, <2>4
<1> QED
  BY <1>2, <1>6, <1>7, <1>8, <1>9, <1>10 DEF Inv, Pipeline, Where

LEMMA RunCompletedStep ==
  ASSUME Inv, RunCompleted
  PROVE  Inv'
<1> USE DEF RunCompleted, Main
<1> DEFINE b == Head(queue)
           q == Tail(queue)
           r == [kind |-> "replace", id |-> b.id]
           p == [kind |-> "play", id |-> b.id]
           m == [kind |-> "midroll"]
           q1 == Append(q, r)
<1>1. /\ queue' = IF playFlag THEN Append(q1, p) ELSE q1
      /\ listeners' = IF b.of = "vod" THEN Append(listeners, m) ELSE listeners
  <2>1. q \in Seq(Blocks)
    BY DEF Inv, TypeInv, Body
  <2>2. q \o <<r>> = q1 /\ q1 \o <<p>> = Append(q1, p) /\ q1 \o <<>> = q1
    BY <2>1
  <2> QED
    BY <2>2
<1>2. /\ b \in Blocks /\ b.kind = "completed" /\ q \in Seq(Blocks) /\ PlaysBehind(q, placed)
      /\ Ascending(q, "completed") /\ IdsOf(q, "completed") = CompletedIds \ {b.id}
      /\ Ascending(q, "replace") /\ IdsOf(q, "replace") = ReplaceIds
      /\ b.id \in CompletedIds /\ \A i \in CompletedIds \ {b.id} : b.id < i
  <2>1. Body("completed") /\ placed \subseteq placed
    OBVIOUS
  <2>2. /\ b \in Blocks /\ b.kind = "completed" /\ q \in Seq(Blocks) /\ PlaysBehind(q, placed)
        /\ \A k \in {"completed", "replace"} :
             /\ Ascending(q, k)
             /\ IdsOf(q, k) = IF k = "completed" THEN IdsOf(queue, k) \ {b.id}
                                                 ELSE IdsOf(queue, k)
             /\ k = "completed" => /\ b.id \in IdsOf(queue, k)
                                   /\ \A i \in IdsOf(q, k) : b.id < i
    <3> HIDE DEF RunCompleted, Main
    <3> QED BY <2>1, BlockTaken
  <2> QED
    BY <2>2 DEF CompletedIds, ReplaceIds
<1> DEFINE id == b.id
<1>3. id \in Ids /\ id \in Nat
  BY <1>2, BlockFacts DEF Ids
<1>4. /\ r \in Blocks /\ r.kind = "replace" /\ r.id = id
      /\ p \in Blocks /\ p.kind = "play" /\ p.id = id
  BY <1>3, NewEntries
<1>5. m \in Listeners /\ m.kind = "midroll"
  BY NewEntries
<1> HIDE DEF r, p, m, q
<1>6. /\ q1 \in Seq(Blocks) /\ PlaysBehind(q1, placed)
      /\ Ascending(q1, "completed") /\ IdsOf(q1, "completed") = CompletedIds \ {id}
      /\ Ascending(q1, "replace") /\ IdsOf(q1, "replace") = ReplaceIds \cup {id}
      /\ q1[Len(q1)] = r /\ Len(q1) \in Nat \ {0}
  <2>1. PlaysBehind(q1, placed)
    BY <1>2, <1>4, AppendBehind
  <2>2. Ascending(q1, "completed") /\ IdsOf(q1, "completed") = CompletedIds \ {id}
    BY <1>2, <1>4, AppendOther
  <2>3. IdsOf(q1, "replace") = ReplaceIds \cup {id}
    <3> HIDE DEF RunCompleted, Main
    <3>1. r.kind = "replace" /\ r.id \in Ids
      BY <1>3, <1>4
    <3>2. IdsOf(Append(q, r), "replace") = IdsOf(q, "replace") \cup {r.id}
      BY <3>1, <1>2, <1>4, AppendIn
    <3> QED
      BY <3>2, <1>2, <1>4
  <2>4. Ascending(q1, "replace")
    <3>1. \A n \in DOMAIN q : q[n].kind = "replace" => q[n].id \in Ids
      BY <1>2, BlockFacts
    <3>2. \A i \in IdsOf(q, "replace") : i < id
      BY <1>2 DEF Inv, Pipeline, StagesInOrder, Before
    <3> QED
      BY <3>1, <3>2, <1>2, <1>3, <1>4, AppendAscends
  <2> QED
    BY <1>2, <1>4, <2>1, <2>2, <2>3, <2>4
<1> HIDE DEF q1
<1>7. /\ queue' \in Seq(Blocks) /\ PlayBehindReplace'
      /\ Ascending(queue, "completed")' /\ CompletedIds' = CompletedIds \ {id}
      /\ Ascending(queue, "replace")' /\ ReplaceIds' = ReplaceIds \cup {id}
  <2>0. placed' = placed
    OBVIOUS
  <2>1. CASE ~playFlag
    BY <2>0, <2>1, <1>1, <1>6 DEF PlayBehindReplace, CompletedIds, ReplaceIds
  <2>2. CASE playFlag
    <3>1. queue' = Append(q1, p)
      BY <2>2, <1>1
    <3>2. PlaysBehind(Append(q1, p), placed)
      BY <1>4, <1>6, AppendBehind
    <3>3. /\ IdsOf(Append(q1, p), "completed") = CompletedIds \ {id}
          /\ IdsOf(Append(q1, p), "replace") = ReplaceIds \cup {id}
          /\ Ascending(Append(q1, p), "completed") /\ Ascending(Append(q1, p), "replace")
      BY <1>4, <1>6, AppendOther
    <3>4. Append(q1, p) \in Seq(Blocks)
      BY <1>4, <1>6
    <3> QED
      BY <2>0, <3>1, <3>2, <3>3, <3>4 DEF PlayBehindReplace, CompletedIds, ReplaceIds
  <2> QED BY <2>1, <2>2
<1>8. /\ listeners' \in Seq(Listeners) /\ ListenerIds' = ListenerIds
      /\ Ascending(listeners, "preroll")'
      /\ \A n \in DOMAIN listeners : n \in DOMAIN listeners' /\ listeners'[n] = listeners[n]
  <2>1. listeners \in Seq(Listeners) /\ Ascending(listeners, "preroll")
    BY DEF Inv, TypeInv, Pipeline, StagesAscend
  <2>2. CASE listeners' = listeners
    BY <2>1, <2>2 DEF ListenerIds
  <2>3. CASE listeners' = Append(listeners, m)
    <3>1. /\ IdsOf(Append(listeners, m), "preroll") = IdsOf(listeners, "preroll")
          /\ Ascending(Append(listeners, m), "preroll")
      BY <2>1, <1>5, AppendOther
    <3>2. /\ Append(listeners, m) \in Seq(Listeners)
          /\ \A n \in DOMAIN listeners : /\ n \in DOMAIN Append(listeners, m)
                                         /\ Append(listeners, m)[n] = listeners[n]
      BY <2>1, <1>5
    <3> QED
      BY <2>3, <3>1, <3>2 DEF ListenerIds
  <2> QED BY <2>2, <2>3, <1>1
<1> HIDE DEF id
<1>9. CalledIds' = CalledIds /\ CallsAscend' /\ CalledIsListener'
  BY <1>8 DEF Inv, Pipeline, StagesAscend, CalledIds, CallsAscend, CalledIsListener
<1>10. Underway' = Underway
  BY <1>2, <1>7, <1>8 DEF Underway, id
<1>11. StagesInOrder'
  <2>1. StagesInOrder /\ UNCHANGED <<placed, requests>>
    BY DEF Inv, Pipeline
  <2>2. id \in CompletedIds /\ \A i \in CompletedIds' : id < i
    BY <1>2, <1>7 DEF id
  <2>3. Before(CalledIds', ListenerIds' \ CalledIds')
    BY <2>1, <1>8, <1>9 DEF StagesInOrder
  <2>4. Before(CompletedIds', ListenerIds')
    BY <2>1, <1>7, <1>8 DEF StagesInOrder, Before
  <2>5. Before(ReplaceIds', ListenerIds' \cup CompletedIds')
    BY <2>1, <2>2, <1>7, <1>8 DEF StagesInOrder, Before
  <2> QED
    BY <2>1, <2>3, <2>4, <2>5, <1>10 DEF StagesInOrder
<1>12. TypeInv'
  BY <1>7, <1>8 DEF Inv, TypeInv, ScalarType
<1>13. ReadIsOfHead' /\ RequestHasListener' /\ PrepareOnItsWay' /\ IdleHasNoListener'
        /\ LastIsUnderway'
  BY <1>8, <1>9, <1>10 DEF Inv, Where, ReadIsOfHead, RequestHasListener, PrepareOnItsWay,
              IdleHasNoListener, LastIsUnderway
<1>14. StagesAscend'
  BY <1>7, <1>8, <1>9 DEF StagesAscend
<1> QED
  BY <1>7, <1>9, <1>11, <1>12, <1>13, <1>14 DEF Inv, Pipeline, Where

------------------------------------------------------------------------------
LEMMA StepInv == Inv /\ [Next]_vars => Inv'
<1> SUFFICES ASSUME Inv, [Next]_vars PROVE Inv'
  OBVIOUS
<1>1. ASSUME NEW k \in Kinds, ReplaceWithConfig(k) PROVE Inv'
  <2>1. Asks(k) /\ HandleMediaItemWithAds(k, requests + 1)
    BY <1>1 DEF ReplaceWithConfig
  <2> QED
    BY <1>1, <2>1, ContentAsked, PrerollAsked DEF ReplaceWithConfig, HandleMediaItemWithAds
<1>2. ASSUME NEW k \in {"preroll", "linear"}, SetAdConfig(k) PROVE Inv'
  BY <1>2, SetAdConfigStep
<1>3. CASE Replace
  BY <1>3, ContentAsked, PrerollAsked DEF Replace, HandleMediaItemWithAds
<1>4. CASE ReplaceWithoutConfig
  BY <1>4, ContentAsked DEF ReplaceWithoutConfig, player, manager
<1>5. CASE ReplaceNil BY <1>5, ReplaceNilStep
<1>6. CASE Play BY <1>6, PlayStep
<1>7. CASE ReplaceCurrentItemForRecovery BY <1>7, RecoveryStep
<1>8. CASE BreakPrepared BY <1>8, BreakPreparedStep
<1>9. CASE BreakInContent BY <1>9, BreakInContentStep
<1>10. CASE BreakCompletes BY <1>10, BreakCompletesStep
<1>11. CASE OnPrepareReads BY <1>11, OnPrepareReadsStep
<1>12. CASE OnPrepareActs BY <1>12, OnPrepareActsStep
<1>13. CASE OnMidrollPrepare BY <1>13, OnMidrollPrepareStep
<1>14. CASE OnCompleted BY <1>14, OnCompletedStep
<1>15. CASE OnMidrollCompleted BY <1>15, OnMidrollCompletedStep
<1>16. CASE RunCompleted BY <1>16, RunCompletedStep
<1>17. CASE RunReplace BY <1>17, RunReplaceStep
<1>18. CASE RunPlay BY <1>18, RunPlayStep
<1>19. CASE RunMidroll BY <1>19, RunMidrollStep
<1>20. CASE BreakFails BY <1>20, BreakFailsStep
<1>21. CASE UNCHANGED vars
  <2> USE <1>21 DEF vars, player, manager, history
  <2>1. Still /\ ScalarType' /\ requests' = requests /\ requests \in Nat
    BY DEF Inv, TypeInv, ScalarType, Still
  <2>2. ReadIsOfHead' /\ RequestHasListener' /\ PrepareOnItsWay' /\ IdleHasNoListener'
          /\ LastIsUnderway'
    BY <2>1, StillIds DEF Inv, Where, ReadIsOfHead, RequestHasListener, PrepareOnItsWay,
                          IdleHasNoListener, LastIsUnderway
  <2> QED
    BY <2>1, <2>2, StillStep
<1> QED
  BY <1>1, <1>2, <1>3, <1>4, <1>5, <1>6, <1>7, <1>8, <1>9, <1>10, <1>11, <1>12, <1>13,
     <1>14, <1>15, <1>16, <1>17, <1>18, <1>19, <1>20, <1>21 DEF Next, App, AdsManager, RunMain

\* The pre-rolls are in order and the last of them is where Where says, at all times.
THEOREM Invariance == Spec => []Inv
<1>1. Init => Inv
  BY InitInv
<1>2. Inv /\ [Next]_vars => Inv'
  BY StepInv
<1> QED
  BY <1>1, <1>2, PTL DEF Spec

\* Content takes the player once for its pre-roll and before its play(): the block of
\* onCompleted() (HandedOverInOrder), for any number of items and breaks.
THEOREM HandOverCorrect == Spec => HandedOverInOrder
<1> DEFINE InOrder == /\ Runs("replace") => Head(queue).id \notin placed
                      /\ Runs("play") => Head(queue).id \in placed
<1>1. Inv => InOrder
  <2> SUFFICES ASSUME Inv PROVE InOrder
    OBVIOUS
  <2>1. queue \in Seq(Blocks)
    BY DEF Inv, TypeInv
  <2>2. ASSUME Runs("replace") PROVE Head(queue).id \notin placed
    <3>1. queue # <<>> /\ Head(queue).kind = "replace"
      BY <2>2 DEF Runs, Body
    <3>2. Head(queue).id \in ReplaceIds
      <4>1. Head(queue) \in Blocks /\ Head(queue) = queue[1] /\ 1 \in DOMAIN queue
        BY <2>1, <3>1
      <4> QED
        BY <3>1, <4>1, BlockFacts DEF ReplaceIds, IdsOf
    <3> QED
      <4>1. Head(queue).id \in Nat /\ Head(queue).id \in Underway
        BY <3>2, IdsAreIds DEF Underway
      <4>2. \A i \in placed, j \in Underway : i < j
        BY DEF Inv, Pipeline, StagesInOrder, Before
      <4> QED
        BY <4>1, <4>2
  <2>3. ASSUME Runs("play") PROVE Head(queue).id \in placed
    BY <2>1, <2>3 DEF Runs, Body, Inv, PlayBehindReplace, PlaysBehind
  <2> QED
    BY <2>2, <2>3
<1>2. Inv /\ [Next]_vars => [InOrder]_vars
  BY <1>1
<1> QED
  BY <1>2, Invariance, PTL DEF Spec, HandedOverInOrder

\* A play() is only put off for a pre-roll that is on its way, until that fails
\* (onPrepare(), play()).
THEOREM WaitCorrect == Spec => []PrerollOnItsWay
<1>1. Inv => PrerollOnItsWay
  BY DEF Inv, Where, PrepareOnItsWay, PrerollOnItsWay, AtRest
<1> QED
  BY <1>1, Invariance, PTL

\* Once everything has run the player holds what it was last asked for, whatever became
\* of the pre-rolls of earlier items, unless its own failed (handleMediaItemWithAds,
\* onPrerollCompleted).
THEOREM RequestCorrect == Spec => []LastRequestWins
<1>1. Inv => LastRequestWins
  <2> SUFFICES ASSUME Inv, ~overtaken, ~failed, ads = "idle", calls = <<>>, queue = <<>>,
                      asked # 0
               PROVE  current = asked
    BY DEF LastRequestWins, AtRest
  <2>1. CalledIds = {} /\ CompletedIds = {} /\ ReplaceIds = {}
    BY DEF CalledIds, CompletedIds, ReplaceIds, IdsOf
  <2>2. Underway = {}
    BY <2>1 DEF Inv, Where, IdleHasNoListener, Underway
  <2> QED
    BY <2>2 DEF Inv, Where, LastIsUnderway
<1> QED
  BY <1>1, Invariance, PTL

------------------------------------------------------------------------------
\* The number of listeners: an item leaves one of the pre-roll, and its midroll's takes
\* the place of that once the block of onCompleted() has run.
ListenersBound ==
  /\ placed \subseteq Ids
  /\ Len(listeners) + Cardinality(CompletedIds) <= requests

\* Listeners and blocks are counted by naturals.
Countable ==
  /\ listeners \in Seq(Listeners) /\ Len(listeners) \in Nat /\ requests \in Nat
  /\ queue \in Seq(Blocks)
  /\ IsFiniteSet(CompletedIds) /\ Cardinality(CompletedIds) \in Nat

LEMMA Counted == Inv => Countable
<1> SUFFICES ASSUME Inv PROVE Countable
  OBVIOUS
<1>1. listeners \in Seq(Listeners) /\ queue \in Seq(Blocks) /\ requests \in Nat
  BY DEF Inv, TypeInv, ScalarType
<1>2. IsFiniteSet(Ids)
  BY FS_Interval, BoundAssumption DEF Ids
<1>3. IsFiniteSet(CompletedIds)
  BY <1>2, IdsAreIds, FS_Subset
<1> QED BY <1>1, <1>3, FS_CardinalityType DEF Countable

LEMMA BoundKept ==
  ASSUME Inv, ListenersBound, UNCHANGED placed, requests' \in {requests, requests + 1},
         Len(listeners') <= Len(listeners) + (requests' - requests), Len(listeners') \in Nat,
         CompletedIds' = CompletedIds
  PROVE  ListenersBound'
BY Counted DEF Countable, ListenersBound

LEMMA OnCompletedBound ==
  ASSUME Inv, Inv', ListenersBound, OnCompleted
  PROVE  ListenersBound'
<1> DEFINE l == Head(calls).listener
           b == [kind |-> "completed", of |-> l.of, id |-> l.id]
<1>1. /\ listeners' = RemoveFirst(listeners, l) /\ queue' = Append(queue, b)
      /\ UNCHANGED <<placed, requests>>
  BY DEF OnCompleted, Listening, history
<1>2. calls # <<>> /\ Head(calls) = calls[1] /\ 1 \in DOMAIN calls /\ Done(Head(calls))
  BY DEF OnCompleted, Called, Done, Preroll, Inv, TypeInv
<1>3. \E j \in DOMAIN listeners : listeners[j] = l
  BY <1>2 DEF Inv, Pipeline, CalledIsListener
<1>4. Len(listeners') = Len(listeners) - 1
  <2>1. PICK k \in 1..Len(listeners) : RemoveFirst(listeners, l) = RemoveAt(listeners, k)
    BY <1>3, Counted, FirstFound DEF Countable
  <2>2. /\ RemoveAt(listeners, k) \in Seq(Listeners)
        /\ DOMAIN RemoveAt(listeners, k) = 1..(Len(listeners) - 1)
    BY <2>1, Counted, RemoveAtFacts DEF Countable
  <2>3. Len(listeners) \in Nat \ {0}
    BY <2>1, Counted DEF Countable
  <2> QED BY <1>1, <2>1, <2>2, <2>3
<1>5. CompletedIds' = CompletedIds \cup {b.id}
  <2>1. l \in Listeners
    BY <1>3, Counted DEF Countable
  <2>2. b \in Blocks /\ b.kind = "completed" /\ b.id \in Ids
    BY <1>2, <2>1, ListenerFacts, NewEntries DEF Done
  <2> HIDE DEF b
  <2>3. IdsOf(Append(queue, b), "completed") = IdsOf(queue, "completed") \cup {b.id}
    BY <2>2, Counted, AppendIn DEF Countable
  <2> QED BY <1>1, <2>3 DEF CompletedIds
<1> HIDE DEF b
<1>6. Cardinality(CompletedIds') <= Cardinality(CompletedIds) + 1
  <2> DEFINE S == CompletedIds
  <2>1. IsFiniteSet(S) /\ Cardinality(S) \in Nat
    BY Counted DEF Countable
  <2> HIDE DEF S
  <2>2. Cardinality(S \cup {b.id}) <= Cardinality(S) + 1
    BY <2>1, FS_AddElement
  <2> QED BY <1>5, <2>2 DEF S
<1>7. Cardinality(CompletedIds') \in Nat /\ Len(listeners') \in Nat
  <2>1. Countable'
    BY Counted, PTL
  <2> QED BY <2>1 DEF Countable
<1> QED BY <1>1, <1>4, <1>6, <1>7, Counted DEF Countable, ListenersBound

LEMMA RunCompletedBound ==
  ASSUME Inv, Inv', ListenersBound, RunCompleted
  PROVE  ListenersBound'
<1> DEFINE b == Head(queue)
           q == Tail(queue)
           r == [kind |-> "replace", id |-> b.id]
           p == [kind |-> "play", id |-> b.id]
           m == [kind |-> "midroll"]
           q1 == Append(q, r)
<1>1. /\ queue' = q \o <<r>> \o (IF playFlag THEN <<p>> ELSE <<>>)
      /\ listeners' = IF b.of = "vod" THEN Append(listeners, m) ELSE listeners
      /\ UNCHANGED <<placed, requests>> /\ Body("completed")
  BY DEF RunCompleted, Main
<1>2. /\ b \in Blocks /\ b.kind = "completed" /\ q \in Seq(Blocks)
      /\ IdsOf(q, "completed") = CompletedIds \ {b.id} /\ b.id \in CompletedIds
  BY <1>1, BlockTaken DEF CompletedIds
<1>3. r \in Blocks /\ p \in Blocks /\ r.kind # "completed" /\ p.kind # "completed"
  BY <1>2, BlockFacts, NewEntries
<1>4. queue' = (IF playFlag THEN Append(q1, p) ELSE q1)
  <2> HIDE DEF q, r, p
  <2>1. q \o <<r>> = q1 /\ q1 \o <<p>> = Append(q1, p) /\ q1 \o <<>> = q1
    BY <1>2, <1>3
  <2> QED BY <1>1, <2>1
<1> HIDE DEF r, p, q
<1>5. q1 \in Seq(Blocks) /\ IdsOf(q1, "completed") = CompletedIds \ {b.id}
  BY <1>2, <1>3, AppendOther
<1> HIDE DEF q1
<1>6. IdsOf(Append(q1, p), "completed") = CompletedIds \ {b.id}
  BY <1>3, <1>5, AppendOther
<1>7. CompletedIds' = CompletedIds \ {b.id}
  BY <1>4, <1>5, <1>6 DEF CompletedIds
<1>8. Cardinality(CompletedIds') = Cardinality(CompletedIds) - 1
  <2> DEFINE S == CompletedIds
  <2>1. IsFiniteSet(S) /\ Cardinality(S) \in Nat /\ b.id \in S
    BY <1>2, Counted DEF Countable
  <2> HIDE DEF S
  <2>2. Cardinality(S \ {b.id}) = Cardinality(S) - 1
    BY <2>1, FS_RemoveElement
  <2> QED BY <1>7, <2>2 DEF S
<1>9. Len(listeners') <= Len(listeners) + 1
  BY <1>1, Counted DEF Countable
<1>10. Cardinality(CompletedIds') \in Nat /\ Len(listeners') \in Nat
  <2>1. Countable'
    BY Counted, PTL
  <2> QED BY <2>1 DEF Countable
<1> QED BY <1>1, <1>8, <1>9, <1>10, Counted DEF Countable, ListenersBound

LEMMA StepBound ==
  Inv /\ Inv' /\ ListenersBound /\ [Next]_vars => ListenersBound'
<1> SUFFICES ASSUME Inv, Inv', ListenersBound, [Next]_vars PROVE ListenersBound'
  OBVIOUS
<1> USE DEF player, manager, history
<1>1. /\ listeners \in Seq(Listeners) /\ Len(listeners) \in Nat /\ requests \in Nat
      /\ queue \in Seq(Blocks) /\ Len(listeners') \in Nat
  <2>1. Countable /\ Countable'
    BY Counted, PTL
  <2> QED BY <2>1 DEF Countable
<1>2. ASSUME UNCHANGED <<listeners, queue, placed>>, requests' \in {requests, requests + 1}
      PROVE  ListenersBound'
  BY <1>1, <1>2, BoundKept DEF CompletedIds
<1>3. ASSUME NEW k, Asks(k), HandleMediaItemWithAds(k, requests + 1), UNCHANGED queue
      PROVE  ListenersBound'
  <2>1. requests' = requests + 1 /\ UNCHANGED placed
    BY <1>3 DEF Asks
  <2>2. \/ UNCHANGED listeners
        \/ listeners' = Append(listeners, [kind |-> "preroll", of |-> k, id |-> requests + 1])
    BY <1>3 DEF HandleMediaItemWithAds, ContentAtOnce, PrerollFirst
  <2>3. Len(listeners') <= Len(listeners) + 1
    BY <1>1, <2>2
  <2> QED BY <1>1, <1>3, <2>1, <2>3, BoundKept DEF CompletedIds
<1>4. ASSUME NEW kind \in {"replace", "play", "midroll"}, Body(kind), queue' = Tail(queue)
      PROVE  CompletedIds' = CompletedIds
  BY <1>1, <1>4, TailOther DEF Body, CompletedIds
<1>5. CASE \/ \E k \in Kinds : ReplaceWithConfig(k)
           \/ Replace
  BY <1>3, <1>5 DEF ReplaceWithConfig, Replace
<1>6. CASE \/ \E k \in Kinds \cap {"preroll", "linear"} : SetAdConfig(k)
           \/ ReplaceNil \/ Play \/ ReplaceCurrentItemForRecovery
  BY <1>2, <1>6 DEF SetAdConfig, ReplaceNil, Play, ReplaceCurrentItemForRecovery
<1>7. CASE ReplaceWithoutConfig
  BY <1>2, <1>7 DEF ReplaceWithoutConfig, Asks
<1>8. CASE BreakPrepared \/ BreakInContent \/ BreakCompletes \/ BreakFails
  BY <1>2, <1>8 DEF BreakPrepared, BreakInContent, BreakCompletes, BreakFails, Manager
<1>9. CASE OnPrepareReads \/ OnPrepareActs \/ OnMidrollCompleted
  BY <1>2, <1>9 DEF OnPrepareReads, OnPrepareActs, OnMidrollCompleted, Listening
<1>10. CASE OnMidrollPrepare
  <2>1. /\ queue' = Append(queue, [kind |-> "midroll"])
        /\ UNCHANGED <<listeners, requests, placed>>
    BY <1>10 DEF OnMidrollPrepare, Listening
  <2>2. CompletedIds' = CompletedIds
    BY <1>1, <2>1, NewEntries, AppendOther DEF CompletedIds
  <2> QED BY <1>1, <2>1, <2>2, BoundKept
<1>11. CASE OnCompleted
  BY <1>11, OnCompletedBound
<1>12. CASE RunCompleted
  BY <1>12, RunCompletedBound
<1>13. CASE RunReplace
  <2>1. /\ Body("replace") /\ queue' = Tail(queue) /\ UNCHANGED <<listeners, requests>>
        /\ placed' = placed \cup {Head(queue).id}
    BY <1>13 DEF RunReplace, Main
  <2>2. Head(queue).id \in Ids
    <3>1. Head(queue) \in Blocks
      BY <1>1, <2>1 DEF Body
    <3> QED BY <2>1, <3>1, BlockFacts DEF Body
  <2> QED BY <1>4, <2>1, <2>2 DEF ListenersBound
<1>14. CASE RunPlay \/ RunMidroll
  <2>1. /\ Body("play") \/ Body("midroll")
        /\ queue' = Tail(queue)
        /\ UNCHANGED <<listeners, requests, placed>>
    BY <1>14 DEF RunPlay, RunMidroll, Main
  <2> QED BY <1>1, <1>4, <2>1, BoundKept
<1>15. CASE UNCHANGED vars
  BY <1>2, <1>15 DEF vars
<1> QED
  BY <1>5, <1>6, <1>7, <1>8, <1>9, <1>10, <1>11, <1>12, <1>13, <1>14, <1>15
     DEF Next, App, AdsManager, RunMain

\* The state of the player and of the ads manager is what TypeOK says, and the player
\* leaves at most one listener for each item it was asked for (handleMediaItemWithAds
\* adds one, onCompleted() removes it, the block of a VOD item adds the midroll's).
THEOREM TypeCorrect == Spec => []TypeOK
<1>1. Init => ListenersBound
  <2> SUFFICES ASSUME Init PROVE ListenersBound
    OBVIOUS
  <2>1. CompletedIds = {} /\ Len(listeners) = 0 /\ requests = 0 /\ placed = {}
    BY DEF Init, CompletedIds, IdsOf
  <2> QED BY <2>1, FS_EmptySet DEF ListenersBound
<1>2. Inv /\ Inv' /\ ListenersBound /\ [Next]_vars => ListenersBound'
  BY StepBound
<1>3. Inv /\ ListenersBound => TypeOK
  <2> SUFFICES ASSUME Inv, ListenersBound PROVE TypeOK
    OBVIOUS
  <2>1. Len(listeners) \in Nat /\ Cardinality(CompletedIds) \in Nat /\ requests \in Nat
    BY Counted DEF Countable
  <2>2. placed \subseteq Ids /\ Len(listeners) <= requests
    BY <2>1 DEF ListenersBound
  <2>3. asked \in 0..MaxRequests
    BY BoundAssumption DEF Inv, TypeInv, ScalarType
  <2> QED BY <2>2, <2>3 DEF Inv, TypeInv, ScalarType, TypeOK
<1> QED
  BY <1>1, <1>2, <1>3, Invariance, PTL DEF Spec
==============================================================================
