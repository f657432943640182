----------------------- MODULE GooglePalManager_proofs -----------------------
(***************************************************************************)
(* Proofs about GooglePalManager, for any requests, transaction ids and    *)
(* number of calls PAL makes on a delegate.                                *)
(*                                                                         *)
(* Two facts carry the rest: of the calls on one delegate only one passes  *)
(* claim() and it has not called back yet, and a request registers once,   *)
(* because its block is on the main queue once.                            *)
(***************************************************************************)
EXTENDS GooglePalManager, TLAPS

Winning(r, c) == call[r][c].at \in {"claimed", "stored"}

\* The load blocks that wait are those of queued requests, one for each.
MainMatches ==
  /\ \A i \in 1..Len(main) : main[i].do = "load" => stage[main[i].request] = "queued"
  /\ \A i, j \in 1..Len(main) :
       main[i].do = "load" /\ main[j] = main[i] => i = j

RunningMatches == running # None => stage[running] = "registered"

OneWinner ==
  \A r \in Requests, c \in Calls : Winning(r, c) =>
    /\ hasFired[r]
    /\ answers[r] = <<>>
    /\ \A d \in Calls : Winning(r, d) => d = c

\* A call that was made carries what it was made with.
OutcomeKnown ==
  \A r \in Requests, c \in Calls :
    call[r][c].at \in {"entered", "claimed", "stored"} => call[r][c].with \in Outcomes

AnswerFired == \A r \in Requests : answers[r] # <<>> => hasFired[r]

\* The manager is in the registry from the moment its call leaves the lock.
StoredIsUsable ==
  \A r \in Requests, c \in Calls :
    /\ Sole(r)
    /\ call[r][c].at = "stored" /\ call[r][c].with = "loaded"
    /\ TransactionOf[r] \notin released
    => nonceManagers[TransactionOf[r]] = r

EndedAnswered ==
  \A t \in ended, r \in Requests : TransactionOf[r] = t => Answered(r)

Inv ==
  /\ TypeOK
  /\ MainMatches
  /\ RunningMatches
  /\ OneWinner
  /\ OutcomeKnown
  /\ AnswerFired
  /\ AnsweredOnce
  /\ StoredIsUsable
  /\ AnswerIsUsable
  /\ EndedAnswered
  /\ ReleasedIsGone

LEMMA InitInv == Init => Inv
<1> SUFFICES ASSUME Init PROVE Inv
  OBVIOUS
<1> USE RequestAssumption, TransactionAssumption
<1>1. TypeOK
  BY DEF Init, TypeOK, PalCallRecords, Idle
<1>2. MainMatches /\ RunningMatches /\ OneWinner /\ OutcomeKnown
  BY DEF Init, MainMatches, RunningMatches, OneWinner, OutcomeKnown, Winning, Idle
<1>3. AnswerFired /\ AnsweredOnce /\ AnswerIsUsable
  BY DEF Init, AnswerFired, AnsweredOnce, AnswerIsUsable
<1>4. StoredIsUsable
  BY DEF Init, StoredIsUsable, Idle
<1>5. EndedAnswered /\ ReleasedIsGone
  BY DEF Init, EndedAnswered, ReleasedIsGone
<1> QED BY <1>1, <1>2, <1>3, <1>4, <1>5 DEF Inv

\* Taking the first block off the main queue leaves what was said of the rest.
LEMMA TailMatches ==
  ASSUME TypeOK, MainMatches, main # <<>>
  PROVE  /\ Head(main) \in Blocks
         /\ Tail(main) \in Seq(Blocks)
         /\ \A i \in 1..Len(Tail(main)) : Tail(main)[i].do = "load" =>
              /\ stage[Tail(main)[i].request] = "queued"
              /\ Tail(main)[i] # Head(main)
         /\ \A i, j \in 1..Len(Tail(main)) :
              Tail(main)[i].do = "load" /\ Tail(main)[j] = Tail(main)[i] => i = j
<1>1. main \in Seq(Blocks) /\ Len(main) \in Nat \ {0}
  BY DEF TypeOK
<1>2. /\ Head(main) = main[1] /\ Head(main) \in Blocks
      /\ Tail(main) \in Seq(Blocks)
      /\ Len(Tail(main)) = Len(main) - 1
      /\ \A i \in 1..Len(Tail(main)) : Tail(main)[i] = main[i + 1]
  BY <1>1
<1>3. \A i \in 1..Len(Tail(main)) : i + 1 \in 1..Len(main) /\ i + 1 # 1
  BY <1>1, <1>2
<1>4. 1 \in 1..Len(main)
  BY <1>1
<1> QED BY <1>1, <1>2, <1>3, <1>4 DEF MainMatches

\* A block that is appended is the last one, and the others keep their place.
LEMMA AppendFacts ==
  ASSUME TypeOK, NEW b \in Blocks
  PROVE  /\ Append(main, b) \in Seq(Blocks)
         /\ Len(Append(main, b)) = Len(main) + 1
         /\ \A i \in 1..Len(Append(main, b)) :
              Append(main, b)[i] = IF i = Len(main) + 1 THEN b ELSE main[i]
         /\ \A i \in 1..Len(Append(main, b)) :
              i # Len(main) + 1 => i \in 1..Len(main)
         /\ Len(main) \in Nat
BY DEF TypeOK

\* Steps that leave the main queue, the stages and the running block alone.
LEMMA MainUntouched ==
  ASSUME MainMatches, RunningMatches, UNCHANGED <<main, running, stage>>
  PROVE  MainMatches' /\ RunningMatches'
BY DEF MainMatches, RunningMatches

\* One call on a delegate takes a step.
LEMMA CallStep ==
  ASSUME TypeOK, NEW r \in Requests, NEW c \in Calls, NEW v \in PalCallRecords,
         call' = [call EXCEPT ![r][c] = v]
  PROVE  /\ call' \in [Requests -> [Calls -> PalCallRecords]]
         /\ \A q \in Requests, d \in Calls :
              call'[q][d] = IF q = r /\ d = c THEN v ELSE call[q][d]
BY DEF TypeOK

\* The records of the calls PAL makes, before and after.
LEMMA RecordFacts ==
  ASSUME TypeOK, NEW r \in Requests, NEW c \in Calls
  PROVE  /\ call[r][c] \in PalCallRecords
         /\ call[r][c].with \in Outcomes \cup {"none"}
         /\ \A a \in {"done", "claimed"} : [call[r][c] EXCEPT !.at = a] \in PalCallRecords
         /\ \A a \in {"done", "stored"}, k \in Requests \cup {None} :
              [call[r][c] EXCEPT !.at = a, !.kept = k] \in PalCallRecords
         /\ \A o \in Outcomes :
              [Idle EXCEPT !.at = "entered", !.with = o] \in PalCallRecords
<1>1. call[r][c] \in PalCallRecords
  BY DEF TypeOK
<1> QED BY <1>1 DEF PalCallRecords, Idle

LEMMA StepInv == Inv /\ [Next]_vars => Inv'
<1> SUFFICES ASSUME Inv, [Next]_vars PROVE Inv'
  OBVIOUS
<1> USE RequestAssumption, TransactionAssumption DEF Inv
<1>1. ASSUME NEW r \in Requests, LoadNonce(r) PROVE Inv'
  <2> DEFINE b == LoadBlock(r)
  <2> USE <1>1 DEF LoadNonce
  <2>1. b \in Blocks /\ b.do = "load" /\ b.request = r
    BY DEF LoadBlock, Blocks
  <2>2. \A i \in 1..Len(main) : main[i].do = "load" => main[i].request # r
    BY DEF MainMatches
  <2>3. MainMatches'
    <3>1. \A i \in 1..Len(main) : main[i] \in Blocks
      BY DEF TypeOK
    <3>2. \A q \in Requests : stage'[q] = IF q = r THEN "queued" ELSE stage[q]
      BY DEF TypeOK
    <3>3. \A i \in 1..Len(main) : main[i].request \in Requests
      BY <3>1 DEF Blocks
    <3>4. /\ Len(main') = Len(main) + 1
          /\ \A i \in 1..Len(main') :
               main'[i] = IF i = Len(main) + 1 THEN b ELSE main[i]
          /\ \A i \in 1..Len(main') : i # Len(main) + 1 => i \in 1..Len(main)
      BY <2>1, AppendFacts
    <3> HIDE DEF b
    <3>5. \A i \in 1..Len(main') : main'[i].do = "load" => stage'[main'[i].request] = "queued"
      BY <2>1, <3>2, <3>3, <3>4 DEF MainMatches
    <3>6. ASSUME NEW i \in 1..Len(main'), NEW j \in 1..Len(main'),
                 main'[i].do = "load", main'[j] = main'[i]
          PROVE  i = j
      <4>1. CASE i # Len(main) + 1 /\ j # Len(main) + 1
        BY <3>4, <3>6, <4>1 DEF MainMatches
      <4>2. CASE i = Len(main) + 1 \/ j = Len(main) + 1
        BY <2>1, <2>2, <3>4, <3>6, <4>2
      <4> QED BY <4>1, <4>2
    <3> QED BY <3>5, <3>6 DEF MainMatches
  <2>4. TypeOK'
    BY <2>1, AppendFacts DEF TypeOK, registry, history
  <2>5. RunningMatches'
    BY DEF RunningMatches, TypeOK
  <2>6. (OneWinner /\ OutcomeKnown /\ AnswerFired /\ AnsweredOnce /\ StoredIsUsable
           /\ AnswerIsUsable /\ ReleasedIsGone)'
    BY DEF OneWinner, OutcomeKnown, Winning, AnswerFired, AnsweredOnce, StoredIsUsable,
           AnswerIsUsable, ReleasedIsGone, registry, history
  <2>7. EndedAnswered'
    BY DEF EndedAnswered, Answered, history, TypeOK
  <2> QED BY <2>3, <2>4, <2>5, <2>6, <2>7
<1>2. ASSUME NEW r \in Requests, Register(r) PROVE Inv'
  <2> USE <1>2 DEF Register
  <2>1. /\ Head(main) = main[1] /\ 1 \in 1..Len(main)
        /\ Head(main).do = "load" /\ Head(main).request = r
    BY DEF LoadBlock, TypeOK
  <2>2. stage[r] = "queued"
    BY <2>1 DEF MainMatches
  <2>3. \A q \in Requests : stage'[q] = IF q = r THEN "registered" ELSE stage[q]
    BY DEF TypeOK
  <2>4. MainMatches'
    <3>1. \A i \in 1..Len(Tail(main)) : Tail(main)[i] \in Blocks
      BY TailMatches
    <3>2. \A i \in 1..Len(Tail(main)) : Tail(main)[i].do = "load" =>
            /\ Tail(main)[i].request \in Requests
            /\ Tail(main)[i].request # r
      <4>1. ASSUME NEW i \in 1..Len(Tail(main)), Tail(main)[i].do = "load",
                   Tail(main)[i].request = r
            PROVE  Tail(main)[i] = Head(main)
        BY <3>1, <4>1 DEF Blocks, LoadBlock
      <4> QED BY <3>1, <4>1, TailMatches DEF Blocks
    <3> QED BY <2>3, <3>2, TailMatches DEF MainMatches
  <2>5. TypeOK'
    BY TailMatches DEF TypeOK, history
  <2>6. RunningMatches'
    BY <2>3 DEF RunningMatches
  <2>7. TransactionOf[r] \notin ended
    BY <2>2 DEF EndedAnswered, Answered
  <2>8. ReleasedIsGone'
    BY <2>7 DEF ReleasedIsGone, history, TypeOK
  <2>9. (OneWinner /\ OutcomeKnown /\ AnswerFired /\ AnsweredOnce /\ StoredIsUsable /\ AnswerIsUsable)'
    BY DEF OneWinner, OutcomeKnown, Winning, AnswerFired, AnsweredOnce, StoredIsUsable,
           AnswerIsUsable, history
  <2>10. EndedAnswered'
    BY <2>2, <2>3 DEF EndedAnswered, Answered, history
  <2> QED BY <2>4, <2>5, <2>6, <2>8, <2>9, <2>10
<1>3. ASSUME NEW r \in Requests, StartLoader(r) PROVE Inv'
  <2> USE <1>3 DEF StartLoader
  <2>1. stage[r] = "registered"
    BY DEF RunningMatches
  <2>2. \A q \in Requests : stage'[q] = IF q = r THEN "started" ELSE stage[q]
    BY DEF TypeOK
  <2>3. \A i \in 1..Len(main) : main[i].request \in Requests
    <3>1. \A i \in 1..Len(main) : main[i] \in Blocks
      BY DEF TypeOK
    <3> QED BY <3>1 DEF Blocks
  <2>4. MainMatches'
    BY <2>1, <2>2, <2>3 DEF MainMatches
  <2>5. TypeOK' /\ RunningMatches'
    BY DEF TypeOK, RunningMatches, registry, history
  <2>6. (OneWinner /\ OutcomeKnown /\ AnswerFired /\ AnsweredOnce /\ StoredIsUsable
           /\ AnswerIsUsable /\ ReleasedIsGone)'
    BY DEF OneWinner, OutcomeKnown, Winning, AnswerFired, AnsweredOnce, StoredIsUsable,
           AnswerIsUsable, ReleasedIsGone, registry, history
  <2>7. EndedAnswered'
    BY <2>2 DEF EndedAnswered, Answered, history
  <2> QED BY <2>4, <2>5, <2>6, <2>7
<1>4. ASSUME NEW r \in Requests, DriveManager(r) PROVE Inv'
  <2> USE <1>4 DEF DriveManager
  <2>1. MainMatches'
    BY TailMatches DEF MainMatches
  <2>2. TypeOK' /\ RunningMatches'
    BY TailMatches DEF TypeOK, RunningMatches, registry, history
  <2>3. (OneWinner /\ OutcomeKnown /\ AnswerFired /\ AnsweredOnce /\ StoredIsUsable
           /\ AnswerIsUsable /\ EndedAnswered /\ ReleasedIsGone)'
    BY DEF OneWinner, OutcomeKnown, Winning, AnswerFired, AnsweredOnce, StoredIsUsable,
           AnswerIsUsable, EndedAnswered, Answered, ReleasedIsGone, registry, history
  <2> QED BY <2>1, <2>2, <2>3
<1>5. ASSUME NEW r \in Requests, NEW c \in Calls, PalCalls(r, c) PROVE Inv'
  <2> USE <1>5 DEF PalCalls
  <2>1. PICK o \in Outcomes :
          call' = [call EXCEPT ![r][c] = [Idle EXCEPT !.at = "entered", !.with = o]]
    OBVIOUS
  <2> DEFINE v == [Idle EXCEPT !.at = "entered", !.with = o]
  <2>2. v \in PalCallRecords /\ v.at = "entered" /\ v.with = o
    BY RecordFacts DEF Idle
  <2>3. /\ call' \in [Requests -> [Calls -> PalCallRecords]]
        /\ \A q \in Requests, d \in Calls :
             call'[q][d] = IF q = r /\ d = c THEN v ELSE call[q][d]
    BY <2>1, <2>2, CallStep, ZenonT(30)
  <2> HIDE DEF v
  <2>4. TypeOK'
    BY <2>3 DEF TypeOK, registry, history
  <2>5. MainMatches' /\ RunningMatches'
    BY MainUntouched
  <2>6. OneWinner' /\ OutcomeKnown' /\ StoredIsUsable'
    BY <2>2, <2>3 DEF OneWinner, OutcomeKnown, Winning, StoredIsUsable, registry, history
  <2>7. (AnswerFired /\ AnsweredOnce /\ AnswerIsUsable /\ EndedAnswered /\ ReleasedIsGone)'
    BY DEF AnswerFired, AnsweredOnce, AnswerIsUsable, EndedAnswered, Answered,
           ReleasedIsGone, registry, history
  <2> QED BY <2>4, <2>5, <2>6, <2>7
<1>6. ASSUME NEW r \in Requests, NEW c \in Calls, Claim(r, c) PROVE Inv'
  <2> USE <1>6 DEF Claim
  <2> DEFINE v == [call[r][c] EXCEPT !.at = IF hasFired[r] THEN "done" ELSE "claimed"]
  <2>1. /\ v \in PalCallRecords
        /\ v.at = IF hasFired[r] THEN "done" ELSE "claimed"
        /\ v.with = call[r][c].with
    <3>1. call[r][c] \in PalCallRecords
      BY RecordFacts
    <3> QED BY <3>1 DEF PalCallRecords
  <2>2. /\ call' \in [Requests -> [Calls -> PalCallRecords]]
        /\ \A q \in Requests, d \in Calls :
             call'[q][d] = IF q = r /\ d = c THEN v ELSE call[q][d]
    BY <2>1, CallStep DEF TypeOK
  <2> HIDE DEF v
  <2>3. TypeOK'
    BY <2>2 DEF TypeOK, registry, history
  <2>4. MainMatches' /\ RunningMatches'
    BY MainUntouched
  <2>5. /\ hasFired'[r]
        /\ \A q \in Requests : q # r => hasFired'[q] = hasFired[q]
    BY DEF TypeOK
  <2>6. OneWinner'
    <3>1. ~hasFired[r] => answers[r] = <<>> /\ \A d \in Calls : ~Winning(r, d)
      BY DEF AnswerFired, OneWinner
    <3> QED BY <2>1, <2>2, <2>5, <3>1 DEF OneWinner, Winning, history
  <2>7. StoredIsUsable' /\ OutcomeKnown'
    BY <2>1, <2>2 DEF StoredIsUsable, OutcomeKnown, registry, history
  <2>8. (AnswerFired /\ AnsweredOnce /\ AnswerIsUsable /\ EndedAnswered /\ ReleasedIsGone)'
    BY <2>5 DEF AnswerFired, AnsweredOnce, AnswerIsUsable, EndedAnswered, Answered,
           ReleasedIsGone, registry, history
  <2> QED BY <2>3, <2>4, <2>6, <2>7, <2>8
<1>7. ASSUME NEW r \in Requests, NEW c \in Calls, StoreManager(r, c) PROVE Inv'
  <2> USE <1>7 DEF StoreManager
  <2> DEFINE t == TransactionOf[r]
             v == [call[r][c] EXCEPT !.at = "stored", !.kept = nonceDelegates[t]]
  <2>1. t \in Transactions /\ nonceDelegates[t] \in Requests \cup {None}
    BY DEF TypeOK
  <2>2. v \in PalCallRecords /\ v.at = "stored" /\ v.with = "loaded"
    <3>1. call[r][c] \in PalCallRecords
      BY RecordFacts
    <3> QED BY <2>1, <3>1 DEF PalCallRecords
  <2>3. /\ call' \in [Requests -> [Calls -> PalCallRecords]]
        /\ \A q \in Requests, d \in Calls :
             call'[q][d] = IF q = r /\ d = c THEN v ELSE call[q][d]
    BY <2>2, CallStep
  <2> HIDE DEF v
  <2>4. Winning(r, c) /\ answers[r] = <<>>
    BY DEF OneWinner, Winning
  <2>5. TypeOK'
    BY <2>1, <2>3 DEF TypeOK, history
  <2>6. MainMatches' /\ RunningMatches'
    BY MainUntouched
  <2>7. OneWinner' /\ OutcomeKnown'
    BY <2>2, <2>3, <2>4 DEF OneWinner, OutcomeKnown, Winning, Outcomes, history
  <2>8. /\ nonceManagers'[t] = r
        /\ \A q \in Requests : Sole(q) /\ q # r =>
             nonceManagers'[TransactionOf[q]] = nonceManagers[TransactionOf[q]]
    BY <2>1 DEF TypeOK, Sole
  <2>9. StoredIsUsable' /\ AnswerIsUsable'
    BY <2>2, <2>3, <2>8 DEF StoredIsUsable, AnswerIsUsable, Sole, history
  <2>10. t \notin ended
    BY <2>4 DEF EndedAnswered, Answered
  <2>11. ReleasedIsGone'
    BY <2>10 DEF ReleasedIsGone, history, TypeOK
  <2>12. (AnswerFired /\ AnsweredOnce /\ EndedAnswered)'
    BY DEF AnswerFired, AnsweredOnce, EndedAnswered, Answered, history
  <2> QED BY <2>5, <2>6, <2>7, <2>9, <2>11, <2>12
<1>8. ASSUME NEW r \in Requests, NEW c \in Calls, DropLoader(r, c) PROVE Inv'
  <2> USE <1>8 DEF DropLoader
  <2> DEFINE t == TransactionOf[r]
             v == [call[r][c] EXCEPT !.at = "stored", !.kept = nonceDelegates[t]]
  <2>1. t \in Transactions /\ nonceDelegates[t] \in Requests \cup {None}
    BY DEF TypeOK
  <2>2. v \in PalCallRecords /\ v.at = "stored" /\ v.with = "failed"
    <3>1. call[r][c] \in PalCallRecords
      BY RecordFacts
    <3> QED BY <2>1, <3>1 DEF PalCallRecords
  <2>3. /\ call' \in [Requests -> [Calls -> PalCallRecords]]
        /\ \A q \in Requests, d \in Calls :
             call'[q][d] = IF q = r /\ d = c THEN v ELSE call[q][d]
    BY <2>2, CallStep
  <2> HIDE DEF v
  <2>4. Winning(r, c)
    BY DEF Winning
  <2>5. TypeOK'
    BY <2>1, <2>3 DEF TypeOK, history
  <2>6. MainMatches' /\ RunningMatches'
    BY MainUntouched
  <2>7. OneWinner' /\ OutcomeKnown' /\ StoredIsUsable'
    BY <2>2, <2>3, <2>4 DEF OneWinner, OutcomeKnown, Winning, Outcomes,
       StoredIsUsable, history
  <2>8. ReleasedIsGone'
    BY DEF ReleasedIsGone, history, TypeOK
  <2>9. (AnswerFired /\ AnsweredOnce /\ AnswerIsUsable /\ EndedAnswered)'
    BY DEF AnswerFired, AnsweredOnce, AnswerIsUsable, EndedAnswered, Answered, history
  <2> QED BY <2>5, <2>6, <2>7, <2>8, <2>9
<1>9. ASSUME NEW r \in Requests, NEW c \in Calls, CallBack(r, c) PROVE Inv'
  <2> USE <1>9 DEF CallBack
  <2> DEFINE v == [call[r][c] EXCEPT !.at = "done", !.kept = None]
  <2>1. v \in PalCallRecords /\ v.at = "done" /\ v.with = call[r][c].with
    <3>1. call[r][c] \in PalCallRecords
      BY RecordFacts
    <3> QED BY <3>1 DEF PalCallRecords
  <2>2. /\ call' \in [Requests -> [Calls -> PalCallRecords]]
        /\ \A q \in Requests, d \in Calls :
             call'[q][d] = IF q = r /\ d = c THEN v ELSE call[q][d]
    BY <2>1, CallStep, ZenonT(30)
  <2> HIDE DEF v
  <2>3. /\ call[r][c].with \in Outcomes
        /\ answers[r] = <<>> /\ hasFired[r]
        /\ \A d \in Calls : Winning(r, d) => d = c
    BY DEF OutcomeKnown, OneWinner, Winning
  <2>4. /\ answers' \in [Requests -> Seq(Outcomes)]
        /\ answers'[r] = <<call[r][c].with>>
        /\ \A q \in Requests : q # r => answers'[q] = answers[q]
    <3>1. Append(answers[r], call[r][c].with) = <<call[r][c].with>>
      BY <2>3
    <3> QED BY <2>3, <3>1 DEF TypeOK
  <2>5. TypeOK'
    BY <2>2, <2>4 DEF TypeOK, registry
  <2>6. MainMatches' /\ RunningMatches'
    BY MainUntouched
  <2>7. OneWinner'
    BY <2>1, <2>2, <2>3, <2>4 DEF OneWinner, Winning
  <2>8. OutcomeKnown' /\ StoredIsUsable'
    BY <2>1, <2>2 DEF OutcomeKnown, StoredIsUsable, registry
  <2>9. AnswerFired' /\ AnsweredOnce'
    BY <2>3, <2>4 DEF AnswerFired, AnsweredOnce
  <2>10. AnswerIsUsable'
    <3>1. SUFFICES ASSUME NEW q \in Requests, Sole(q), answers'[q] = <<"loaded">>,
                          TransactionOf[q] \notin released
                   PROVE  nonceManagers[TransactionOf[q]] = q
      BY DEF AnswerIsUsable, registry
    <3>2. CASE q = r
      <4>1. call[r][c].with = "loaded"
        BY <2>4, <3>1, <3>2
      <4> QED BY <3>1, <3>2, <4>1 DEF StoredIsUsable
    <3>3. CASE q # r
      BY <2>4, <3>1, <3>3 DEF AnswerIsUsable
    <3> QED BY <3>2, <3>3
  <2>11. EndedAnswered'
    BY <2>4 DEF EndedAnswered, Answered
  <2>12. ReleasedIsGone'
    BY DEF ReleasedIsGone, registry
  <2> QED BY <2>5, <2>6, <2>7, <2>8, <2>9, <2>10, <2>11, <2>12
<1>10. ASSUME NEW t \in Transactions, Send(t) PROVE Inv'
  <2> DEFINE b == SendBlock(nonceManagers[t])
  <2> USE <1>10 DEF Send
  <2>1. b \in Blocks /\ b.do = "send"
    BY DEF SendBlock, Blocks, TypeOK
  <2>2. /\ main' \in Seq(Blocks)
        /\ Len(main') = Len(main) + 1
        /\ \A i \in 1..Len(main') :
             main'[i] = IF i = Len(main) + 1 THEN b ELSE main[i]
        /\ \A i \in 1..Len(main') : i # Len(main) + 1 => i \in 1..Len(main)
    BY <2>1, AppendFacts
  <2> HIDE DEF b
  <2>3. MainMatches'
    <3>1. \A i \in 1..Len(main') : main'[i].do = "load" => stage[main'[i].request] = "queued"
      BY <2>1, <2>2 DEF MainMatches
    <3>2. ASSUME NEW i \in 1..Len(main'), NEW j \in 1..Len(main'),
                 main'[i].do = "load", main'[j] = main'[i]
          PROVE  i = j
      BY <2>1, <2>2, <3>2 DEF MainMatches
    <3> QED BY <3>1, <3>2 DEF MainMatches
  <2>4. TypeOK' /\ RunningMatches'
    BY <2>2 DEF TypeOK, RunningMatches, registry, history
  <2>5. (OneWinner /\ OutcomeKnown /\ AnswerFired /\ AnsweredOnce /\ StoredIsUsable
           /\ AnswerIsUsable /\ EndedAnswered /\ ReleasedIsGone)'
    BY DEF OneWinner, OutcomeKnown, Winning, AnswerFired, AnsweredOnce, StoredIsUsable,
           AnswerIsUsable, EndedAnswered, Answered, ReleasedIsGone, registry, history
  <2> QED BY <2>3, <2>4, <2>5
<1>11. ASSUME NEW t \in Transactions, Release(t) PROVE Inv'
  <2> USE <1>11 DEF Release
  <2>1. TypeOK'
    BY DEF TypeOK
  <2>2. MainMatches' /\ RunningMatches'
    BY MainUntouched
  <2>3. (OneWinner /\ OutcomeKnown /\ AnswerFired /\ AnsweredOnce)'
    BY DEF OneWinner, OutcomeKnown, Winning, AnswerFired, AnsweredOnce
  <2>4. StoredIsUsable' /\ AnswerIsUsable'
    BY DEF StoredIsUsable, AnswerIsUsable, TypeOK
  <2>5. EndedAnswered'
    BY DEF EndedAnswered, Answered
  <2>6. ReleasedIsGone'
    BY DEF ReleasedIsGone, TypeOK
  <2> QED BY <2>1, <2>2, <2>3, <2>4, <2>5, <2>6
<1>12. CASE UNCHANGED vars
  <2>1. TypeOK' /\ MainMatches' /\ RunningMatches'
    BY <1>12, MainUntouched DEF vars, registry, history, TypeOK
  <2>2. (OneWinner /\ OutcomeKnown /\ AnswerFired /\ AnsweredOnce /\ StoredIsUsable
           /\ AnswerIsUsable /\ EndedAnswered /\ ReleasedIsGone)'
    BY <1>12 DEF OneWinner, OutcomeKnown, Winning, AnswerFired, AnsweredOnce,
       StoredIsUsable, AnswerIsUsable, EndedAnswered, Answered, ReleasedIsGone,
       vars, registry, history
  <2> QED BY <2>1, <2>2
<1> QED
  BY <1>1, <1>2, <1>3, <1>4, <1>5, <1>6, <1>7, <1>8, <1>9, <1>10, <1>11, <1>12
     DEF Next, MainThread, PalThread

------------------------------------------------------------------------------
\* The inductive invariant, for every set of requests and of transaction ids.
THEOREM Invariance == Spec => []Inv
BY InitInv, StepInv, PTL DEF Spec

\* Every variable of the nonce registry keeps its type.
THEOREM TypeCorrect == Spec => []TypeOK
<1>1. Inv => TypeOK
  BY DEF Inv
<1> QED BY <1>1, Invariance, PTL

\* claim() lets one call of PAL through, so the callback of a request, which
\* resumes a Kotlin continuation, is called at most once.
THEOREM CallbackOnce == Spec => []AnsweredOnce
<1>1. Inv => AnsweredOnce
  BY DEF Inv
<1> QED BY <1>1, Invariance, PTL

\* After callback(nonce) the manager is in the registry until the release.
THEOREM NonceUsable == Spec => []AnswerIsUsable
<1>1. Inv => AnswerIsUsable
  BY DEF Inv
<1> QED BY <1>1, Invariance, PTL

\* A transaction released after its answer stays out of the registry.
THEOREM ReleaseCorrect == Spec => []ReleasedIsGone
<1>1. Inv => ReleasedIsGone
  BY DEF Inv
<1> QED BY <1>1, Invariance, PTL

==============================================================================
