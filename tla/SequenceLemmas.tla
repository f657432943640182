---------------------------- MODULE SequenceLemmas ----------------------------
(***************************************************************************)
(* What the operators on sequences that AdQueuePlayer uses return, element *)
(* by element.                                                             *)
(***************************************************************************)
EXTENDS Integers, Sequences, SequencesExt, TLAPS

\* The rest of a sequence.
LEMMA TailFacts ==
  ASSUME NEW S, NEW s \in Seq(S), s # <<>>
  PROVE  /\ Tail(s) \in Seq(S) /\ Len(Tail(s)) = Len(s) - 1 /\ Len(s) \in Nat \ {0}
         /\ Head(s) = s[1] /\ Head(s) \in S
         /\ \A n \in 1..Len(Tail(s)) : n + 1 \in 1..Len(s) /\ Tail(s)[n] = s[n + 1]
OBVIOUS

\* One sequence behind another.
LEMMA BehindFacts ==
  ASSUME NEW S, NEW s \in Seq(S), NEW t \in Seq(S)
  PROVE  /\ s \o t \in Seq(S) /\ Len(s \o t) = Len(s) + Len(t)
         /\ \A n \in 1..Len(s \o t) :
              /\ n <= Len(s) => n \in 1..Len(s) /\ (s \o t)[n] = s[n]
              /\ n > Len(s) => n - Len(s) \in 1..Len(t) /\ (s \o t)[n] = t[n - Len(s)]
BY Z3

\* A sequence without its k-th element.
LEMMA RemoveAtFacts ==
  ASSUME NEW S, NEW s \in Seq(S), NEW k \in 1..Len(s)
  PROVE  /\ RemoveAt(s, k) \in Seq(S) /\ Len(RemoveAt(s, k)) = Len(s) - 1
         /\ \A n \in 1..Len(RemoveAt(s, k)) :
              /\ n < k => n \in 1..Len(s) /\ RemoveAt(s, k)[n] = s[n]
              /\ n >= k => n + 1 \in 1..Len(s) /\ RemoveAt(s, k)[n] = s[n + 1]
<1> DEFINE a == SubSeq(s, 1, k - 1)
           b == SubSeq(s, k + 1, Len(s))
<1>1. a \in Seq(S) /\ Len(a) = k - 1 /\ \A n \in 1..(k - 1) : a[n] = s[n]
  OBVIOUS
<1>2. b \in Seq(S) /\ Len(b) = Len(s) - k /\ \A n \in 1..(Len(s) - k) : b[n] = s[n + k]
  OBVIOUS
<1>3. RemoveAt(s, k) = a \o b
  BY DEF RemoveAt
<1> HIDE DEF a, b
<1>4. /\ a \o b \in Seq(S) /\ Len(a \o b) = Len(a) + Len(b)
      /\ \A n \in 1..Len(a \o b) : /\ n <= Len(a) => (a \o b)[n] = a[n]
                                   /\ n > Len(a) => (a \o b)[n] = b[n - Len(a)]
  <2>1. a \in Seq(S) /\ b \in Seq(S)
    BY <1>1, <1>2
  <2>2. /\ a \o b \in Seq(S) /\ Len(a \o b) = Len(a) + Len(b)
        /\ \A n \in 1..Len(a \o b) :
              /\ n <= Len(a) => n \in 1..Len(a) /\ (a \o b)[n] = a[n]
              /\ n > Len(a) => n - Len(a) \in 1..Len(b) /\ (a \o b)[n] = b[n - Len(a)]
    BY <2>1, BehindFacts, ZenonT(30)
  <2> QED BY <2>2
<1>5. Len(a \o b) = Len(s) - 1
  BY <1>1, <1>2, <1>4
<1>6. ASSUME NEW n \in 1..(Len(s) - 1)
      PROVE  /\ n < k => (a \o b)[n] = s[n]
             /\ n >= k => (a \o b)[n] = s[n + 1]
  <2>1. CASE n < k
    BY <1>1, <1>4, <1>5, <2>1
  <2>2. CASE n >= k
    <3>1. n > Len(a) /\ n - Len(a) \in 1..(Len(s) - k) /\ n - Len(a) + k = n + 1
      BY <1>1, <2>2
    <3>2. (a \o b)[n] = b[n - Len(a)]
      BY <1>4, <1>5, <3>1
    <3>3. b[n - Len(a)] = s[n - Len(a) + k]
      BY <1>2, <3>1
    <3>4. (a \o b)[n] = s[n + 1]
      BY <3>1, <3>2, <3>3
    <3> QED BY <2>2, <3>4
  <2> QED BY <2>1, <2>2
<1> QED
  BY <1>3, <1>4, <1>5, <1>6
==============================================================================
