-------------------------- MODULE GooglePalManager --------------------------
(***************************************************************************)
(* pal/GooglePalManagerImpl.swift: the nonces that Google PAL makes for    *)
(* the ads of a break.                                                     *)
(*                                                                         *)
(* Kotlin's dispatchers call loadNonce, send* and release, the main queue  *)
(* builds and starts the loaders, and PAL calls a loader's delegate on     *)
(* threads of its own.  The registry is three dictionaries under one lock, *)
(* so an action is what one thread does up to its next lock or callback.   *)
(* A request is one call of loadNonce; it also names the loader, the       *)
(* delegate and the manager that come of it.  The manager object itself    *)
(* lives as long as the app, so the [weak self] guards never bite.         *)
(***************************************************************************)
EXTENDS Naturals, Sequences, FiniteSets

CONSTANTS
  Requests,       \* calls of loadNonce, each made at most once
  Transactions,
  TransactionOf,  \* the transactionId each of them carries
  Calls,          \* calls PAL makes on the delegate of one request
  None,
  MaxBlocks       \* bound on the blocks that wait on the main queue

ASSUME RequestAssumption == None \notin Requests
ASSUME TransactionAssumption == TransactionOf \in [Requests -> Transactions]
ASSUME BoundAssumption == MaxBlocks \in Nat

VARIABLES
  \* the registry, by transaction
  nonceLoaders, nonceManagers, nonceDelegates,
  hasFired,       \* of the delegate of each request
  \* threads
  main,           \* blocks on the main queue
  running,        \* the request whose block is between lines 121 and 122
  stage,          \* how far each request has come
  call,           \* how far each call on a delegate has come, and with what
  \* history
  answers,        \* what the callback of each request was called with
  released,       \* transactions released at least once
  ended           \* transactions released after all their requests were answered

registry == <<nonceLoaders, nonceManagers, nonceDelegates>>
history  == <<answers, released, ended>>
vars == <<registry, hasFired, main, running, stage, call, history>>

Outcomes == {"loaded", "failed"}
Idle == [at |-> "idle", with |-> "none", kept |-> None]

PalCallRecords ==
  [at : {"idle", "entered", "claimed", "stored", "done"},
   with : Outcomes \cup {"none"},
   kept : Requests \cup {None}]

LoadBlock(r) == [do |-> "load", request |-> r]
SendBlock(r) == [do |-> "send", request |-> r]
Blocks == [do : {"load", "send"}, request : Requests]

TypeOK ==
  /\ nonceLoaders \in [Transactions -> Requests \cup {None}]
  /\ nonceManagers \in [Transactions -> Requests \cup {None}]
  /\ nonceDelegates \in [Transactions -> Requests \cup {None}]
  /\ hasFired \in [Requests -> BOOLEAN]
  /\ main \in Seq(Blocks)
  /\ running \in Requests \cup {None}
  /\ stage \in [Requests -> {"new", "queued", "registered", "started"}]
  /\ call \in [Requests -> [Calls -> PalCallRecords]]
  /\ answers \in [Requests -> Seq(Outcomes)]
  /\ released \subseteq Transactions
  /\ ended \subseteq Transactions

Init ==
  /\ nonceLoaders = [t \in Transactions |-> None]
  /\ nonceManagers = [t \in Transactions |-> None]
  /\ nonceDelegates = [t \in Transactions |-> None]
  /\ hasFired = [r \in Requests |-> FALSE]
  /\ main = <<>>
  /\ running = None
  /\ stage = [r \in Requests |-> "new"]
  /\ call = [r \in Requests |-> [c \in Calls |-> Idle]]
  /\ answers = [r \in Requests |-> <<>>]
  /\ released = {}
  /\ ended = {}

------------------------------------------------------------------------------
\* loadNonce: from a Kotlin worker to the main thread.

\* The entry point, off the main thread as its comment says.
LoadNonce(r) ==
  /\ stage[r] = "new"
  /\ Len(main) < MaxBlocks
  /\ stage' = [stage EXCEPT ![r] = "queued"]
  /\ main' = Append(main, LoadBlock(r))
  /\ UNCHANGED <<registry, hasFired, running, call, history>>

\* Mutant: the delegate is left to its weak reference.
RegisterWeakly(r) ==
  /\ running = None
  /\ main # <<>> /\ Head(main) = LoadBlock(r)
  /\ main' = Tail(main)
  /\ running' = r
  /\ stage' = [stage EXCEPT ![r] = "registered"]
  /\ nonceLoaders' = [nonceLoaders EXCEPT ![TransactionOf[r]] = r]
  /\ UNCHANGED <<nonceManagers, nonceDelegates, hasFired, call, history>>

\* The main thread builds loader and delegate and enters both in the registry.
Register(r) ==
  LET t == TransactionOf[r] IN
  /\ running = None
  /\ main # <<>> /\ Head(main) = LoadBlock(r)
  /\ main' = Tail(main)
  /\ running' = r
  /\ stage' = [stage EXCEPT ![r] = "registered"]
  /\ nonceLoaders' = [nonceLoaders EXCEPT ![t] = r]
  /\ nonceDelegates' = [nonceDelegates EXCEPT ![t] = r]
  /\ UNCHANGED <<nonceManagers, hasFired, call, history>>

\* It hands the loader its (weak) delegate and starts it; the block ends.
StartLoader(r) ==
  /\ running = r
  /\ running' = None
  /\ stage' = [stage EXCEPT ![r] = "started"]
  /\ UNCHANGED <<registry, hasFired, main, call, history>>

------------------------------------------------------------------------------
\* PAL's threads.

\* The registry holds the only strong reference to a delegate, but for that of a
\* call under way, and for the one a call took out of the registry (kept).
Alive(r) ==
  \/ nonceDelegates[TransactionOf[r]] = r
  \/ \E c \in Calls : call[r][c].at \in {"entered", "claimed", "stored"}
  \/ \E q \in Requests, c \in Calls : call[q][c].kept = r

\* PAL calls didLoad or didFailWith; nothing keeps it from calling twice, also
\* at the same time.
PalCalls(r, c) ==
  /\ stage[r] = "started"
  /\ Alive(r)
  /\ call[r][c] = Idle
  /\ \E o \in Outcomes : call' = [call EXCEPT ![r][c] = [Idle EXCEPT !.at = "entered", !.with = o]]
  /\ UNCHANGED <<registry, hasFired, main, running, stage, history>>

\* Mutant: test and set are not one critical section's.
ClaimAnyway(r, c) ==
  /\ call[r][c].at = "entered"
  /\ call' = [call EXCEPT ![r][c] = [@ EXCEPT !.at = "claimed"]]
  /\ hasFired' = [hasFired EXCEPT ![r] = TRUE]
  /\ UNCHANGED <<registry, main, running, stage, history>>

\* claim(): the first call wins, a later one returns.
Claim(r, c) ==
  /\ call[r][c].at = "entered"
  /\ call' = [call EXCEPT ![r][c] =
                [@ EXCEPT !.at = IF hasFired[r] THEN "done" ELSE "claimed"]]
  /\ hasFired' = [hasFired EXCEPT ![r] = TRUE]
  /\ UNCHANGED <<registry, main, running, stage, history>>

\* Mutant: the nonce is stored in the place of its manager.
StoreNonce(r, c) ==
  LET t == TransactionOf[r] IN
  /\ call[r][c].at = "claimed" /\ call[r][c].with = "loaded"
  /\ nonceManagers' = [nonceManagers EXCEPT ![t] = "loaded"]
  /\ nonceDelegates' = [nonceDelegates EXCEPT ![t] = None]
  /\ call' = [call EXCEPT ![r][c] =
                [@ EXCEPT !.at = "stored", !.kept = nonceDelegates[t]]]
  /\ UNCHANGED <<nonceLoaders, hasFired, main, running, stage, history>>

\* onLoaded: the manager goes into the registry, the delegate out of it.
StoreManager(r, c) ==
  LET t == TransactionOf[r] IN
  /\ call[r][c].at = "claimed" /\ call[r][c].with = "loaded"
  /\ nonceManagers' = [nonceManagers EXCEPT ![t] = r]
  /\ nonceDelegates' = [nonceDelegates EXCEPT ![t] = None]
  /\ call' = [call EXCEPT ![r][c] =
                [@ EXCEPT !.at = "stored", !.kept = nonceDelegates[t]]]
  /\ UNCHANGED <<nonceLoaders, hasFired, main, running, stage, history>>

\* onFailed: the loader and the delegate go out of the registry.
DropLoader(r, c) ==
  LET t == TransactionOf[r] IN
  /\ call[r][c].at = "claimed" /\ call[r][c].with = "failed"
  /\ nonceLoaders' = [nonceLoaders EXCEPT ![t] = None]
  /\ nonceDelegates' = [nonceDelegates EXCEPT ![t] = None]
  /\ call' = [call EXCEPT ![r][c] =
                [@ EXCEPT !.at = "stored", !.kept = nonceDelegates[t]]]
  /\ UNCHANGED <<nonceManagers, hasFired, main, running, stage, history>>

\* Mutant: Kotlin may be called before the registry is brought up to date.
CallBackEarly(r, c) ==
  /\ call[r][c].at \in {"claimed", "stored"}
  /\ call' = [call EXCEPT ![r][c] = [@ EXCEPT !.at = "done", !.kept = None]]
  /\ answers' = [answers EXCEPT ![r] = Append(@, call[r][c].with)]
  /\ UNCHANGED <<registry, hasFired, main, running, stage, released, ended>>

\* callback(nonce) or callback(nil), outside the lock.
CallBack(r, c) ==
  /\ call[r][c].at = "stored"
  /\ call' = [call EXCEPT ![r][c] = [@ EXCEPT !.at = "done", !.kept = None]]
  /\ answers' = [answers EXCEPT ![r] = Append(@, call[r][c].with)]
  /\ UNCHANGED <<registry, hasFired, main, running, stage, released, ended>>

------------------------------------------------------------------------------
\* send* and release, from the ad tracker's threads.

\* onMainWithNonceManager: the manager is looked up by the caller, and driven on
\* the main thread.  Without a manager the event is dropped.
Send(t) ==
  /\ nonceManagers[t] # None
  /\ Len(main) < MaxBlocks
  /\ main' = Append(main, SendBlock(nonceManagers[t]))
  /\ UNCHANGED <<registry, hasFired, running, stage, call, history>>

DriveManager(r) ==
  /\ running = None
  /\ main # <<>> /\ Head(main) = SendBlock(r)
  /\ main' = Tail(main)
  /\ UNCHANGED <<registry, hasFired, running, stage, call, history>>

Answered(r) == stage[r] = "started" /\ answers[r] # <<>>

\* Mutant: only what is still loading is released.
ReleaseLoading(t) ==
  /\ \E r \in Requests : TransactionOf[r] = t /\ stage[r] # "new"
  /\ nonceLoaders' = [nonceLoaders EXCEPT ![t] = None]
  /\ nonceDelegates' = [nonceDelegates EXCEPT ![t] = None]
  /\ released' = released \cup {t}
  /\ ended' = IF \A r \in Requests : TransactionOf[r] = t => Answered(r)
                THEN ended \cup {t} ELSE ended
  /\ UNCHANGED <<nonceManagers, hasFired, main, running, stage, call, answers>>

\* release: all three entries at once, whatever has come of the request.  The block that
\* drops their last references on the main thread is left out: a call that PAL makes on
\* the delegate until then goes on like one that was entered before the release.
Release(t) ==
  /\ \E r \in Requests : TransactionOf[r] = t /\ stage[r] # "new"
  /\ nonceLoaders' = [nonceLoaders EXCEPT ![t] = None]
  /\ nonceManagers' = [nonceManagers EXCEPT ![t] = None]
  /\ nonceDelegates' = [nonceDelegates EXCEPT ![t] = None]
  /\ released' = released \cup {t}
  /\ ended' = IF \A r \in Requests : TransactionOf[r] = t => Answered(r)
                THEN ended \cup {t} ELSE ended
  /\ UNCHANGED <<hasFired, main, running, stage, call, answers>>

------------------------------------------------------------------------------
PalThread(r, c) ==
  Claim(r, c) \/ StoreManager(r, c) \/ DropLoader(r, c) \/ CallBack(r, c)

MainThread(r) == Register(r) \/ StartLoader(r) \/ DriveManager(r)

Next ==
  \/ \E r \in Requests : LoadNonce(r) \/ MainThread(r)
  \/ \E r \in Requests, c \in Calls : PalCalls(r, c) \/ PalThread(r, c)
  \/ \E t \in Transactions : Send(t) \/ Release(t)

Spec == Init /\ [][Next]_vars

\* PAL's promise: a loader that was started and still has its delegate calls it
\* at least once.
PalAnswers(r) ==
  /\ \A c \in Calls : call[r][c] = Idle
  /\ \E c \in Calls : PalCalls(r, c)

Fairness ==
  /\ WF_vars(\E r \in Requests : MainThread(r))
  /\ \A r \in Requests : WF_vars(PalAnswers(r))
  /\ \A r \in Requests, c \in Calls : WF_vars(PalThread(r, c))

FairSpec == Spec /\ Fairness

------------------------------------------------------------------------------
\* Properties.

\* A transaction id that no other request carries.
Sole(r) == \A q \in Requests : TransactionOf[q] = TransactionOf[r] => q = r

\* However often and from however many threads PAL calls a delegate, the callback
\* of a request, which resumes a Kotlin continuation, is called at most once.
AnsweredOnce == \A r \in Requests : Len(answers[r]) <= 1

\* Once Kotlin has been told that a nonce is there, the events of its ad find the
\* manager to be sent through, until the transaction is released.
AnswerIsUsable ==
  \A r \in Requests :
    /\ Sole(r)
    /\ answers[r] = <<"loaded">>
    /\ TransactionOf[r] \notin released
    => nonceManagers[TransactionOf[r]] = r

\* A transaction released after its answer leaves nothing in the registry, and a
\* call PAL makes on the delegate afterwards brings nothing back.
ReleasedIsGone ==
  \A t \in ended :
    /\ nonceLoaders[t] = None
    /\ nonceManagers[t] = None
    /\ nonceDelegates[t] = None

\* As long as PAL answers, every request is answered, or its transaction is
\* released first: the weak delegate of a loader is not lost before it fires.
EveryRequestAnswered ==
  \A r \in Requests :
    Sole(r) /\ stage[r] = "queued"
      ~> answers[r] # <<>> \/ TransactionOf[r] \in released

------------------------------------------------------------------------------
\* Properties that fail (README, section 5).

\* A released transaction leaves nothing behind once its blocks have run.
NothingAfterRelease ==
  \A r \in Requests :
    LET t == TransactionOf[r] IN
    /\ Sole(r) /\ t \in released
    /\ stage[r] = "started"
    /\ \A c \in Calls : call[r][c].at \in {"idle", "done"}
    /\ Answered(r)
    => nonceLoaders[t] = None /\ nonceManagers[t] = None

==============================================================================
