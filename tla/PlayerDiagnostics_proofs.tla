----------------------- MODULE PlayerDiagnostics_proofs -----------------------
(***************************************************************************)
(* Proofs about PlayerDiagnostics, for any items and any limits.           *)
(*                                                                         *)
(* That a dead item is reported, and once in its incident, is not          *)
(* inductive: it needs what the flag says about the reports (FlagIsTrue),  *)
(* that a reported item is past the point where it could clear the flag    *)
(* (DeadStaysReported), and that the watchdog only acts on an item that    *)
(* has played (ArmedOnReady).                                              *)
(***************************************************************************)
EXTENDS PlayerDiagnostics, TLAPS

\* The watchdog is armed only on an item that became ready.
ArmedOnReady ==
  ~stopped /\ hasStartedPlaying /\ currentItem # NoItem => status # "unknown"

\* The flag tells whether the incident was reported - as long as the observers
\* see the items that become ready - and an item that became ready under them is
\* reported itself.
FlagIsTrue ==
  /\ ~hasReportedUnrecoverable => reports = 0
  /\ hasReportedUnrecoverable /\ ~stopped => reports = 1 /\ (loaded = "seen" => told = 1)

\* An item that failed or was reported stays so while it is in the player.
DeadStaysReported ==
  /\ noticed \/ told > 0 => status # "unknown"
  /\ noticed /\ currentItem \in WithUrl => hasReportedUnrecoverable
  /\ told > 0 => hasReportedUnrecoverable

\* The rebuilt item that is being sought is the one the recovery waits for.
SoughtIsAwaited ==
  currentItem \in seeks /\ ~noticed => isRecovering /\ recoveryItem = currentItem

\* What there is to say of reports.
ReportInv ==
  /\ OneErrorPerIncident
  /\ NoSilentDeath
  /\ FlagIsTrue
  /\ DeadStaysReported
  /\ ArmedOnReady

\* What there is to say of recoveries.
RecoveryInv ==
  /\ RecoveryCanEnd
  /\ NothingSwallowed
  /\ SoughtIsAwaited

Inv ==
  /\ TypeOK
  /\ RecoveryInv
  /\ ReportInv

LEMMA InitInv == Init => Inv
<1> SUFFICES ASSUME Init PROVE Inv
  OBVIOUS
<1>1. CountersOK
  BY LimitAssumption DEF Init, CountersOK, Never
<1>2. TypeOK
  BY <1>1 DEF Init, TypeOK, Statuses
<1>3. RecoveryInv
  BY DEF Init, RecoveryInv, RecoveryCanEnd, NothingSwallowed, SoughtIsAwaited
<1>4. ReportInv
  BY DEF Init, ReportInv, OneErrorPerIncident, NoSilentDeath, FlagIsTrue,
         DeadStaysReported, ArmedOnReady
<1> QED
  BY <1>2, <1>3, <1>4 DEF Inv

\* A recovery that starts puts a new item in the player, waits for that item's
\* seek, and leaves no history of the old one behind.
LEMMA StartRecoveryFacts ==
  ASSUME Inv, ~stopped, StartRecovery,
         UNCHANGED <<stopped, arpf>>, flow' \in {"paused", "waiting", "playing"},
         moved' \in BOOLEAN
  PROVE  Inv'
<1>1. PICK i \in Items : /\ i \in WithUrl
                         /\ recoveryItem' = i
                         /\ Enters(i, "unknown")
                         /\ seeks' = seeks \cup {i}
  BY DEF StartRecovery
<1>2. recoveryAttempts' \in 0..MaxRecoveryAttempts
  BY LimitAssumption DEF StartRecovery, Attempts, Inv, TypeOK, CountersOK
<1>3. CountersOK'
  <2>1. told' = 0 /\ reports' \in 0..2 /\ age' = 0
    BY <1>1 DEF StartRecovery, Enters, Inv, TypeOK, CountersOK
  <2>2. stallAge' = Never
    BY <1>1 DEF Enters, Attach
  <2> QED BY <1>2, <2>1, <2>2, LimitAssumption DEF Never, CountersOK
<1>4. hasReportedUnrecoverable' \in BOOLEAN
  BY DEF StartRecovery
<1>5. TypeOK'
  BY <1>1, <1>3, <1>4 DEF StartRecovery, Enters, Attach, Statuses, Inv, TypeOK
<1>6. RecoveryInv'
  BY <1>1, ItemAssumption
     DEF StartRecovery, Enters, RecoveryInv, RecoveryCanEnd, NothingSwallowed,
         SoughtIsAwaited
<1>7. reports' \in {0, 1} /\ (hasReportedUnrecoverable' <=> reports' = 1)
  BY DEF StartRecovery, Inv, TypeOK, ReportInv, FlagIsTrue
<1>8. ReportInv'
  <2>1. told' = 0 /\ noticed' = FALSE /\ loaded' = "no" /\ hasStartedPlaying' = FALSE
    BY <1>1 DEF Enters, Attach
  <2> QED
    BY <1>7, <2>1 DEF ReportInv, OneErrorPerIncident, NoSilentDeath, FlagIsTrue,
                      DeadStaysReported, ArmedOnReady
<1> QED BY <1>5, <1>6, <1>8 DEF Inv

\* Giving up on an item that is past "unknown" ends the recovery and leaves one
\* onError for the incident.
LEMMA GiveUpFacts ==
  ASSUME Inv, ~stopped, UNCHANGED stopped, GiveUp, noticed' = TRUE,
         status' \in Statuses \ {"unknown"}, flow' \in {"paused", "waiting", "playing"},
         moved' \in BOOLEAN, UNCHANGED arpf,
         stallAge' \in Never..StallThreshold, hasStartedPlaying' \in BOOLEAN,
         sampled' \in BOOLEAN
  PROVE  Inv'
<1>1. /\ isRecovering' = FALSE /\ recoveryItem' = NoItem
      /\ hasReportedUnrecoverable' = TRUE
      /\ UNCHANGED <<recoveryAttempts, age, currentItem, seeks, loaded, healthy>>
  BY DEF GiveUp, ReportUnrecoverable
<1>2. /\ reports' = 1 /\ told' \in {0, 1} /\ (loaded = "seen" => told' = 1)
  <2>1. told \in {0, 1}
    BY DEF Inv, TypeOK, CountersOK, ReportInv, OneErrorPerIncident
  <2>2. CASE hasReportedUnrecoverable
    BY <2>1, <2>2 DEF GiveUp, ReportUnrecoverable, Inv, ReportInv, FlagIsTrue
  <2>3. CASE ~hasReportedUnrecoverable
    <3>1. told = 0 /\ reports = 0
      BY <2>1, <2>3 DEF Inv, ReportInv, FlagIsTrue, DeadStaysReported
    <3> QED BY <2>3, <3>1 DEF GiveUp, ReportUnrecoverable
  <2> QED BY <2>2, <2>3
<1>3. CountersOK'
  BY <1>1, <1>2 DEF Inv, TypeOK, CountersOK
<1>4. TypeOK'
  BY <1>1, <1>3 DEF Inv, TypeOK
<1>5. RecoveryInv'
  BY <1>1 DEF RecoveryInv, RecoveryCanEnd, NothingSwallowed, SoughtIsAwaited
<1>6. ReportInv'
  BY <1>1, <1>2 DEF ReportInv, OneErrorPerIncident, NoSilentDeath, FlagIsTrue,
                    DeadStaysReported, ArmedOnReady
<1> QED BY <1>4, <1>5, <1>6 DEF Inv

\* A failure that is only logged, of an item that is past "unknown".
LEMMA OnlyLoggedFacts ==
  ASSUME Inv, ~stopped, currentItem \notin WithUrl, noticed' = TRUE,
         status' \in Statuses \ {"unknown"}, moved' \in BOOLEAN,
         UNCHANGED <<recovery, stopped, currentItem, flow, seeks, arpf, told, loaded,
                     reports, healthy>>,
         stallAge' \in Never..StallThreshold, hasStartedPlaying' \in BOOLEAN,
         sampled' \in BOOLEAN
  PROVE  Inv'
<1> USE DEF recovery
<1>1. CountersOK'
  BY DEF Inv, TypeOK, CountersOK
<1>2. TypeOK'
  BY <1>1 DEF Inv, TypeOK
<1>3. RecoveryInv'
  BY DEF Inv, RecoveryInv, RecoveryCanEnd, NothingSwallowed, SoughtIsAwaited
<1>4. ReportInv'
  BY DEF Inv, ReportInv, OneErrorPerIncident, NoSilentDeath, FlagIsTrue,
         DeadStaysReported, ArmedOnReady
<1> QED BY <1>2, <1>3, <1>4 DEF Inv

\* recoverFromPlaybackFailure() for an item whose status has left "unknown".
LEMMA RecoverFacts ==
  ASSUME Inv, ~stopped, NEW st \in {"readyToPlay", "failed"}, currentItem # NoItem,
         RecoverFromPlaybackFailure(st), UNCHANGED <<stopped, flow, moved, arpf>>
  PROVE  Inv'
<1>1. ~Ignored
  BY DEF Ignored, Inv, RecoveryInv, NothingSwallowed
<1>2. st \in Statuses \ {"unknown"}
  BY DEF Statuses
<1>3. CASE currentItem \notin WithUrl
  BY <1>2, <1>3, OnlyLoggedFacts
     DEF RecoverFromPlaybackFailure, OnlyLogged, watchdog, Inv, TypeOK, CountersOK
<1>4. CASE currentItem \in WithUrl /\ StartRecovery
  BY <1>4, StartRecoveryFacts DEF Inv, TypeOK
<1>5. CASE GiveUp /\ status' = st /\ noticed' = TRUE /\ UNCHANGED watchdog
  BY <1>2, <1>5, GiveUpFacts DEF watchdog, Inv, TypeOK, CountersOK
<1> QED BY <1>1, <1>3, <1>4, <1>5 DEF RecoverFromPlaybackFailure, OnlyLogged

LEMMA StepInv == Inv /\ [Next]_vars => Inv'
<1> SUFFICES ASSUME Inv, [Next]_vars PROVE Inv'
  OBVIOUS
<1> USE DEF recovery, watchdog, player, ghosts
<1>1. CASE ItemReady
  <2>1. TypeOK'
    <3>1. CountersOK'
      BY <1>1 DEF ItemReady, Inv, TypeOK, CountersOK
    <3> QED BY <1>1, <3>1 DEF ItemReady, Inv, TypeOK, Statuses
  <2>2. RecoveryInv'
    BY <1>1 DEF ItemReady, Inv, RecoveryInv, RecoveryCanEnd, NothingSwallowed,
                SoughtIsAwaited
  <2>3. ~noticed /\ told = 0
    BY <1>1 DEF ItemReady, Inv, TypeOK, CountersOK, ReportInv, DeadStaysReported
  <2>4. ReportInv'
    BY <1>1, <2>3 DEF ItemReady, Inv, TypeOK, ReportInv, OneErrorPerIncident, NoSilentDeath,
                      FlagIsTrue, DeadStaysReported, ArmedOnReady
  <2> QED BY <2>1, <2>2, <2>4 DEF Inv
<1>2. CASE ItemFails
  <2>1. CASE stopped
    <3>1. CountersOK'
      BY <1>2, <2>1 DEF ItemFails, Inv, TypeOK, CountersOK
    <3>2. TypeOK'
      BY <1>2, <2>1, <3>1 DEF ItemFails, Inv, TypeOK, Statuses
    <3>3. RecoveryInv' /\ ReportInv'
      BY <1>2, <2>1 DEF ItemFails, Inv, RecoveryInv, RecoveryCanEnd, NothingSwallowed,
                        SoughtIsAwaited, ReportInv, OneErrorPerIncident, NoSilentDeath,
                        FlagIsTrue, DeadStaysReported, ArmedOnReady
    <3> QED BY <3>2, <3>3 DEF Inv
  <2>2. CASE ~stopped
    BY <1>2, <2>2, RecoverFacts DEF ItemFails
  <2> QED BY <2>1, <2>2
<1>3. CASE ItemFailedToPlayToEnd
  BY <1>3, RecoverFacts DEF ItemFailedToPlayToEnd, Inv, TypeOK, Statuses
<1>4. CASE CheckStallMoving \/ CheckStallBegins \/ CheckStallPersists
  <2>1. ~stopped /\ currentItem # NoItem /\ moved' \in BOOLEAN
    BY <1>4 DEF CheckStallMoving, CheckStallBegins, CheckStallPersists, Sample,
                CheckStallGuard, Playing
  <2>2. stallAge' \in Never..StallThreshold
    BY <1>4, LimitAssumption
       DEF CheckStallMoving, CheckStallBegins, CheckStallPersists, Sampled, Never,
           Inv, TypeOK, CountersOK
  <2>3. sampled' \in BOOLEAN /\ hasStartedPlaying' = Started
    BY <1>4 DEF CheckStallMoving, CheckStallBegins, CheckStallPersists, Sampled
  <2>4. UNCHANGED <<recovery, stopped, currentItem, status, flow, seeks, arpf, ghosts>>
    BY <1>4 DEF CheckStallMoving, CheckStallBegins, CheckStallPersists
  <2>5. Started \in BOOLEAN /\ (Started => status # "unknown")
    BY <2>1 DEF Started, Playing, Inv, TypeOK, ReportInv, ArmedOnReady
  <2>6. CountersOK'
    BY <2>2, <2>4 DEF Inv, TypeOK, CountersOK
  <2>7. TypeOK'
    BY <2>1, <2>3, <2>4, <2>5, <2>6 DEF Inv, TypeOK
  <2>8. RecoveryInv'
    BY <2>4 DEF Inv, RecoveryInv, RecoveryCanEnd, NothingSwallowed, SoughtIsAwaited
  <2>9. ReportInv'
    BY <2>3, <2>4, <2>5
       DEF Inv, ReportInv, OneErrorPerIncident, NoSilentDeath, FlagIsTrue,
           DeadStaysReported, ArmedOnReady
  <2> QED BY <2>7, <2>8, <2>9 DEF Inv
<1>5. CASE CheckStallRecovers
  <2>1. /\ ~stopped /\ currentItem # NoItem /\ moved' \in BOOLEAN /\ Started
        /\ UNCHANGED <<stopped, flow, arpf>>
    BY <1>5 DEF CheckStallRecovers, Sample, CheckStallGuard, Playing
  <2>2. status \in Statuses \ {"unknown"}
    BY <2>1 DEF Started, Playing, Inv, TypeOK, Statuses, ReportInv, ArmedOnReady
  <2>3. Started \in BOOLEAN
    BY DEF Started, Playing, Inv, TypeOK
  <2>4. Never \in Never..StallThreshold
    BY LimitAssumption DEF Never
  <2>5. CASE StartRecovery
    BY <2>1, <2>5, StartRecoveryFacts DEF Inv, TypeOK
  <2>6. CASE GiveUp /\ noticed' = TRUE /\ Sampled(Never) /\ UNCHANGED status
    BY <2>1, <2>2, <2>3, <2>4, <2>6, GiveUpFacts DEF Sampled, Inv, TypeOK
  <2>7. CASE currentItem \notin WithUrl
    BY <1>5, <2>1, <2>2, <2>3, <2>4, <2>7, OnlyLoggedFacts
       DEF CheckStallRecovers, Sampled
  <2> QED BY <1>5, <2>5, <2>6, <2>7 DEF CheckStallRecovers
<1>6. CASE Stop
  <2>1. CountersOK'
    BY <1>6 DEF Stop, Inv, TypeOK, CountersOK
  <2>2. TypeOK'
    BY <1>6, <2>1 DEF Stop, Inv, TypeOK
  <2>3. RecoveryInv' /\ ReportInv'
    BY <1>6 DEF Stop, Inv, RecoveryInv, RecoveryCanEnd, NothingSwallowed,
                SoughtIsAwaited, ReportInv, OneErrorPerIncident, NoSilentDeath,
                FlagIsTrue, DeadStaysReported, ArmedOnReady
  <2> QED BY <2>2, <2>3 DEF Inv
<1>7. CASE AppClears
  <2>1. TypeOK'
    <3>1. CountersOK'
      BY <1>7 DEF AppClears, Inv, TypeOK, CountersOK
    <3> QED BY <1>7, <3>1 DEF AppClears, Inv, TypeOK, Statuses
  <2>2. RecoveryInv'
    <3>1. NoItem \notin seeks
      BY ItemAssumption DEF Inv, TypeOK
    <3> QED
      BY <1>7, <3>1 DEF AppClears, Inv, RecoveryInv, RecoveryCanEnd, NothingSwallowed,
                        SoughtIsAwaited
  <2>3. ReportInv'
    BY <1>7 DEF AppClears, Inv, ReportInv, OneErrorPerIncident, NoSilentDeath,
                FlagIsTrue, DeadStaysReported, ArmedOnReady
  <2> QED BY <2>1, <2>2, <2>3 DEF Inv
<1>8. CASE ConfigArrives
  <2>1. CountersOK'
    BY <1>8 DEF ConfigArrives, Inv, TypeOK, CountersOK
  <2>2. TypeOK'
    BY <1>8, <2>1 DEF ConfigArrives, Inv, TypeOK
  <2>3. RecoveryInv' /\ ReportInv'
    BY <1>8 DEF ConfigArrives, Inv, RecoveryInv, RecoveryCanEnd, NothingSwallowed,
                SoughtIsAwaited, ReportInv, OneErrorPerIncident, NoSilentDeath,
                FlagIsTrue, DeadStaysReported, ArmedOnReady
  <2> QED BY <2>2, <2>3 DEF Inv
<1>9. CASE Tick
  <2>1. age' \in Never..(ResetInterval + 1) /\ stallAge' \in Never..StallThreshold
    BY <1>9, LimitAssumption DEF Tick, Never, Inv, TypeOK, CountersOK
  <2>2. CountersOK'
    BY <1>9, <2>1 DEF Tick, Inv, TypeOK, CountersOK
  <2>3. TypeOK'
    BY <1>9, <2>2 DEF Tick, Inv, TypeOK
  <2>4. RecoveryInv' /\ ReportInv'
    BY <1>9 DEF Tick, Inv, RecoveryInv, RecoveryCanEnd, NothingSwallowed,
                SoughtIsAwaited, ReportInv, OneErrorPerIncident, NoSilentDeath,
                FlagIsTrue, DeadStaysReported, ArmedOnReady
  <2> QED BY <2>3, <2>4 DEF Inv
<1>10. ASSUME NEW f \in {"paused", "waiting", "playing"}, FlowChanges(f) PROVE Inv'
  <2>1. CountersOK'
    BY <1>10 DEF FlowChanges, Inv, TypeOK, CountersOK
  <2>2. moved' \in BOOLEAN
    BY <1>10 DEF FlowChanges
  <2>3. TypeOK'
    BY <1>10, <2>1, <2>2 DEF FlowChanges, Inv, TypeOK
  <2>4. RecoveryInv' /\ ReportInv'
    BY <1>10 DEF FlowChanges, Inv, RecoveryInv, RecoveryCanEnd, NothingSwallowed,
                 SoughtIsAwaited, ReportInv, OneErrorPerIncident, NoSilentDeath,
                 FlagIsTrue, DeadStaysReported, ArmedOnReady
  <2> QED BY <2>3, <2>4 DEF Inv
<1>11. ASSUME NEW i \in Items, SeekCompletes(i) PROVE Inv'
  <2>1. UNCHANGED <<hasReportedUnrecoverable, stopped, hasStartedPlaying, sampled,
                    currentItem, status, moved, arpf, ghosts>>
    BY <1>11 DEF SeekCompletes
  <2>2. TypeOK'
    <3>1. CountersOK'
      BY <1>11 DEF SeekCompletes, Inv, TypeOK, CountersOK
    <3>2. /\ flow' \in {"paused", "waiting", "playing"}
          /\ isRecovering' \in BOOLEAN /\ recoveryItem' \in Items \cup {NoItem}
      BY <1>11 DEF SeekCompletes, Inv, TypeOK
    <3>3. seeks' \subseteq Items
      BY <1>11 DEF SeekCompletes, Inv, TypeOK
    <3> QED BY <2>1, <3>1, <3>2, <3>3 DEF Inv, TypeOK
  <2>3. RecoveryInv'
    BY <1>11, ItemAssumption
       DEF SeekCompletes, Inv, RecoveryInv, RecoveryCanEnd, NothingSwallowed,
           SoughtIsAwaited
  <2>4. ReportInv'
    BY <2>1 DEF Inv, ReportInv, OneErrorPerIncident, NoSilentDeath, FlagIsTrue,
                DeadStaysReported, ArmedOnReady
  <2> QED BY <2>2, <2>3, <2>4 DEF Inv
<1>12. ASSUME NEW i \in Items, NEW s \in Statuses, AppReplaces(i, s) PROVE Inv'
  <2>1. TypeOK'
    <3>1. CountersOK'
      BY <1>12, LimitAssumption
         DEF AppReplaces, Enters, Attach, Never, Inv, TypeOK, CountersOK
    <3>2. loaded' \in {"no", "ahead"} /\ healthy' \in BOOLEAN
      BY <1>12 DEF AppReplaces, Enters
    <3> QED
      BY <1>12, <3>1, <3>2 DEF AppReplaces, Fresh, Enters, Attach, Takeover, Inv, TypeOK
  <2>2. RecoveryInv'
    BY <1>12 DEF AppReplaces, Fresh, Enters, Takeover, Inv, RecoveryInv,
                 RecoveryCanEnd, NothingSwallowed, SoughtIsAwaited
  <2>3. ReportInv'
    BY <1>12 DEF AppReplaces, Enters, Attach, Inv, ReportInv, OneErrorPerIncident,
                 NoSilentDeath, FlagIsTrue, DeadStaysReported, ArmedOnReady
  <2> QED BY <2>1, <2>2, <2>3 DEF Inv
<1>13. CASE UNCHANGED vars
  <2>1. CountersOK'
    BY <1>13 DEF vars, Inv, TypeOK, CountersOK
  <2>2. TypeOK'
    BY <1>13, <2>1 DEF vars, Inv, TypeOK
  <2>3. RecoveryInv' /\ ReportInv'
    BY <1>13 DEF vars, Inv, RecoveryInv, RecoveryCanEnd, NothingSwallowed,
                 SoughtIsAwaited, ReportInv, OneErrorPerIncident, NoSilentDeath,
                 FlagIsTrue, DeadStaysReported, ArmedOnReady
  <2> QED BY <2>2, <2>3 DEF Inv
<1> QED
  BY <1>1, <1>2, <1>3, <1>4, <1>5, <1>6, <1>7, <1>8, <1>9, <1>10, <1>11, <1>12,
     <1>13 DEF Next, CheckStall

THEOREM Invariance == Spec => []Inv
<1>1. Init => Inv
  BY InitInv
<1>2. Inv /\ [Next]_vars => Inv'
  BY StepInv
<1> QED
  BY <1>1, <1>2, PTL DEF Spec

\* The attempt counter never passes its limit, and every field keeps its type.
THEOREM TypeCorrect == Spec => []TypeOK
  BY Invariance, PTL DEF Inv

\* A recovery in progress can always be ended, by the seek completion it waits
\* for or by the next failure, which is never ignored.
THEOREM RecoveryCorrect == Spec => []RecoveryIsLive
<1>1. Inv => RecoveryIsLive
  BY DEF Inv, RecoveryInv, RecoveryIsLive
<1> QED BY <1>1, Invariance, PTL

\* A dead item with a URL stays in the player only if its incident was reported,
\* once - and by an onError about the item itself if it had become ready there.
THEOREM ReportCorrect == Spec => []DeathReportedOnce
<1>1. Inv => DeathReportedOnce
  BY DEF Inv, ReportInv, DeathReportedOnce
<1> QED BY <1>1, Invariance, PTL

\* A rebuilt item that is being sought is the recovery in progress, whatever
\* completes or takes over in between, until it has failed.
THEOREM SeekCorrect == Spec => []SoughtIsRecovering
<1>1. Inv => SoughtIsRecovering
  BY DEF Inv, RecoveryInv, SoughtIsAwaited, SoughtIsRecovering
<1> QED BY <1>1, Invariance, PTL
==============================================================================
