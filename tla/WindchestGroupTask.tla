-------------------------- MODULE WindchestGroupTask --------------------------
(***************************************************************************)
(* GOSoundWindchestGroupTask: several threads mix one cell's samplers      *)
(* together, each into a buffer of its own, and merge their shares into    *)
(* the cell's buffer; the last one to merge publishes the round.  The      *)
(* Owner is the audio callback that ends the period: it calls              *)
(* CompleteRound() and then NewRound().                                    *)
(*                                                                         *)
(* m_Active and m_Release are one list here: they are moved, peeked at and *)
(* emptied together.  A buffer is the set of samplers mixed into it.  Each *)
(* list operation is its successful compare-and-exchange                   *)
(* (SamplerLists.tla looks inside).                                        *)
(*                                                                         *)
(* The workers get work from StartEngine() on, before SetStreaming(true)   *)
(* has opened the round it owes, so that NewRound() may come while they    *)
(* are mixing.  The assertions of DoNewRound() are left out of a release   *)
(* build: the round is then opened over them, which the history variable   *)
(* overtaken records until a round is opened with nobody mixing again.     *)
(***************************************************************************)
EXTENDS Integers, FiniteSets

CONSTANTS
  Workers,   \* worker threads that may enter Run() or EnsureBufferReady()
  Owner,     \* the audio callback thread
  Samplers,
  None,      \* no sampler
  CountMod   \* 2^width of m_ActiveCount (atomic_uint), scaled down

Threads == Workers \union {Owner}

ASSUME ThreadsAssumption == Owner \notin Workers /\ IsFiniteSet(Workers)
ASSUME NoneAssumption    == None \notin Samplers
ASSUME CountAssumption   == CountMod \in Nat /\ CountMod > Cardinality(Threads)

VARIABLES
  runState,     \* m_RunState
  activeCount,  \* m_ActiveCount
  toComplete,   \* m_IsToComplete
  putList,      \* m_PutList of m_Active and m_Release
  getList,      \* m_GetList of m_Active and m_Release
  pc,           \* where each thread is in Run() / EnsureBufferReady()
  hand,         \* the sampler a thread has taken and not yet processed
  local,        \* each thread's localBuffer
  ensuring,     \* the thread entered through EnsureBufferReady()
  stale,        \* GetRoundNumber() has changed since the thread captured it
  owner,        \* what the owner does: "play", "complete", "advance", "renew"
  shared,       \* the task's buffer
  starting,     \* history: the renewal that is due is the one that the start of
                \* streaming owes
  overtaken,    \* history: this round was opened while a thread was mixing
  claimed,      \* history: samplers Move() brought into this round
  dropped,      \* history: late releases returned to the pool unmixed
  mixed         \* history: how often OnMixed() ran in this round

listVars  == <<putList, getList>>
roundVars == <<runState, activeCount, toComplete, shared>>
threadVars == <<pc, hand, local, ensuring, stale>>
openVars  == <<starting, overtaken>>
histVars  == <<openVars, claimed, dropped, mixed>>
vars      == <<listVars, roundVars, threadVars, owner, histVars>>

NOT_STARTED == 0
IN_PROGRESS == 1
PARTLY_DONE == 2
DONE        == 3

----------------------------------------------------------------------------

\* Between m_ActiveCount.fetch_add(1) and fetch_sub(1).
Participating == {"process", "hold", "merge"}
Participants  == {t \in Threads : pc[t] \in Participating}

RunPCs    == {"fast", "begin", "publish", "ret"} \union Participating
EnsurePCs == {"waitLock", "wait"}
PCs       == {"out"} \union RunPCs \union EnsurePCs

\* m_mutex is held across steps only while the round is published.
MutexFree == \A t \in Threads : pc[t] # "publish"

Goto(t, to) == pc' = [pc EXCEPT ![t] = to]

\* Run() returns: to EnsureBufferReady(), if that was its caller.
AfterRun(t) == IF ensuring[t] THEN "ret" ELSE "out"

\* Leave, with what was captured on the way in forgotten.
Leave(t) ==
  /\ Goto(t, "out")
  /\ ensuring' = [ensuring EXCEPT ![t] = FALSE]
  /\ stale' = [stale EXCEPT ![t] = FALSE]

\* m_Condition.Broadcast() after pc has become p.
Broadcast(p) == [t \in Threads |-> IF p[t] = "wait" THEN "waitLock" ELSE p[t]]

----------------------------------------------------------------------------
(* Entering: the scheduler hands out the task, or a GOSoundGroupTask needs   *)
(* its buffer. EnsureBufferReady() captures the round number first.          *)

\* A Run() that finds the round done does nothing.
EnterRun(t) ==
  /\ t \in Workers
  /\ pc[t] = "out"
  /\ runState < DONE
  /\ Goto(t, "begin")
  /\ UNCHANGED <<listVars, roundVars, hand, local, ensuring, stale, owner, histVars>>

\* A group asks for its buffer.
EnterEnsure(t) ==
  /\ t \in Workers
  /\ pc[t] = "out"
  /\ Goto(t, "fast")
  /\ ensuring' = [ensuring EXCEPT ![t] = TRUE]
  /\ UNCHANGED <<listVars, roundVars, hand, local, stale, owner, histVars>>

----------------------------------------------------------------------------
(* Run() *)

\* The look at the round without the mutex.
FastPath(t) ==
  /\ pc[t] = "fast"
  /\ Goto(t, IF runState < DONE THEN "begin" ELSE AfterRun(t))
  /\ UNCHANGED <<listVars, roundVars, hand, local, ensuring, stale, owner, histVars>>

\* Faulty: the first thread does not tell whether the round is claimed already.
BeginClaimingAgain(t) ==
  /\ pc[t] = "begin"
  /\ MutexFree
  /\ getList' = getList \union putList
  /\ putList' = {}
  /\ claimed' = claimed \union putList
  /\ runState' = IF runState = NOT_STARTED THEN IN_PROGRESS ELSE runState
  /\ activeCount' = (activeCount + 1) % CountMod
  /\ local' = [local EXCEPT ![t] = {}]
  /\ Goto(t, "process")
  /\ UNCHANGED <<toComplete, shared, hand, ensuring, stale, owner, openVars, dropped, mixed>>

\* Faulty: only the thread that claims the round is counted.
BeginJoinUncounted(t) ==
  /\ pc[t] = "begin"
  /\ MutexFree
  /\ getList' = IF runState = NOT_STARTED THEN getList \union putList ELSE getList
  /\ putList' = IF runState = NOT_STARTED THEN {} ELSE putList
  /\ claimed' = IF runState = NOT_STARTED THEN claimed \union putList ELSE claimed
  /\ runState' = IF runState = NOT_STARTED THEN IN_PROGRESS ELSE runState
  /\ activeCount' = IF runState = NOT_STARTED THEN (activeCount + 1) % CountMod ELSE activeCount
  /\ local' = [local EXCEPT ![t] = {}]
  /\ Goto(t, "process")
  /\ UNCHANGED <<toComplete, shared, hand, ensuring, stale, owner, openVars, dropped, mixed>>

\* The first critical section: claim the round, or join it while there is
\* something to help with. A round that is over counts as one with nothing
\* left. (No thread is being stopped: SchedulerThread!Quiescent.)
Begin(t) ==
  /\ pc[t] = "begin"
  /\ MutexFree
  /\ \/ /\ runState = NOT_STARTED
        /\ getList' = getList \union putList
        /\ putList' = {}
        /\ claimed' = claimed \union putList
        /\ runState' = IN_PROGRESS
        /\ activeCount' = (activeCount + 1) % CountMod
        /\ local' = [local EXCEPT ![t] = {}]
        /\ Goto(t, "process")
     \/ /\ runState # NOT_STARTED
        /\ getList # {}
        /\ activeCount' = (activeCount + 1) % CountMod
        /\ local' = [local EXCEPT ![t] = {}]
        /\ Goto(t, "process")
        /\ UNCHANGED <<listVars, runState, claimed>>
     \/ /\ runState # NOT_STARTED
        /\ getList = {}
        /\ Goto(t, AfterRun(t))
        /\ UNCHANGED <<listVars, runState, activeCount, local, claimed>>
  /\ UNCHANGED <<toComplete, shared, hand, ensuring, stale, owner, openVars, dropped, mixed>>

\* ProcessList(): take a sampler, or find the list empty.
Take(t) ==
  /\ pc[t] = "process"
  /\ \/ \E s \in getList :
          /\ getList' = getList \ {s}
          /\ hand' = [hand EXCEPT ![t] = s]
          /\ Goto(t, "hold")
     \/ /\ getList = {}
        /\ Goto(t, "merge")
        /\ UNCHANGED <<getList, hand>>
  /\ UNCHANGED <<putList, roundVars, local, ensuring, stale, owner, histVars>>

\* ProcessSampler() mixes it into the local buffer; if it goes on playing it
\* is queued for the next round, otherwise it returns to the pool.
Mix(t) ==
  /\ pc[t] = "hold"
  /\ local' = [local EXCEPT ![t] = @ \union {hand[t]}]
  /\ \/ putList' = putList \union {hand[t]}
     \/ UNCHANGED putList
  /\ hand' = [hand EXCEPT ![t] = None]
  /\ Goto(t, "process")
  /\ UNCHANGED <<getList, roundVars, ensuring, stale, owner, histVars>>

\* A late release is dropped once the round is to be completed.
DropOld(t) ==
  /\ pc[t] = "hold"
  /\ toComplete
  /\ dropped' = dropped \union {hand[t]}
  /\ hand' = [hand EXCEPT ![t] = None]
  /\ Goto(t, "process")
  /\ UNCHANGED <<listVars, roundVars, local, ensuring, stale, owner, openVars, claimed, mixed>>

\* Faulty: every share overwrites the buffer.
MergeOverwriting(t) ==
  /\ pc[t] = "merge"
  /\ MutexFree
  /\ shared' = local[t]
  /\ runState' = IF runState = IN_PROGRESS THEN PARTLY_DONE ELSE runState
  /\ activeCount' = (activeCount - 1) % CountMod
  /\ local' = [local EXCEPT ![t] = {}]
  /\ Goto(t, IF activeCount <= 1 THEN "publish" ELSE AfterRun(t))
  /\ UNCHANGED <<listVars, toComplete, hand, ensuring, stale, owner, histVars>>

\* Faulty: whoever merges publishes.
MergeAlwaysLast(t) ==
  /\ pc[t] = "merge"
  /\ MutexFree
  /\ shared' = IF runState = IN_PROGRESS THEN local[t] ELSE shared \union local[t]
  /\ runState' = IF runState = IN_PROGRESS THEN PARTLY_DONE ELSE runState
  /\ activeCount' = (activeCount - 1) % CountMod
  /\ local' = [local EXCEPT ![t] = {}]
  /\ Goto(t, "publish")
  /\ UNCHANGED <<listVars, toComplete, hand, ensuring, stale, owner, histVars>>

\* The second critical section: the first share is assigned, later ones are
\* added; the last participant goes on to publish, still under m_mutex.
Merge(t) ==
  /\ pc[t] = "merge"
  /\ MutexFree
  /\ shared' = IF runState = IN_PROGRESS THEN local[t] ELSE shared \union local[t]
  /\ runState' = IF runState = IN_PROGRESS THEN PARTLY_DONE ELSE runState
  /\ activeCount' = (activeCount - 1) % CountMod
  /\ local' = [local EXCEPT ![t] = {}]
  /\ Goto(t, IF activeCount <= 1 THEN "publish" ELSE AfterRun(t))
  /\ UNCHANGED <<listVars, toComplete, hand, ensuring, stale, owner, histVars>>

\* Faulty: DONE is stored, but nobody is told.
PublishSilently(t) ==
  /\ pc[t] = "publish"
  /\ mixed' = mixed + 1
  /\ runState' = DONE
  /\ Goto(t, AfterRun(t))
  /\ UNCHANGED <<listVars, activeCount, toComplete, shared, hand, local,
                 ensuring, stale, owner, openVars, claimed, dropped>>

\* OnMixed(), PublishDone() and the end of the critical section.
Publish(t) ==
  /\ pc[t] = "publish"
  /\ mixed' = mixed + 1
  /\ runState' = DONE
  /\ pc' = Broadcast([pc EXCEPT ![t] = AfterRun(t)])
  /\ UNCHANGED <<listVars, activeCount, toComplete, shared, hand, local,
                 ensuring, stale, owner, openVars, claimed, dropped>>

Return(t) ==
  /\ pc[t] = "ret"
  /\ \/ /\ ensuring[t] /\ runState < DONE
        /\ Goto(t, "waitLock")
        /\ UNCHANGED <<ensuring, stale>>
     \/ /\ ~(ensuring[t] /\ runState < DONE)
        /\ Leave(t)
  /\ UNCHANGED <<listVars, roundVars, hand, local, owner, histVars>>

----------------------------------------------------------------------------
(* The rest of EnsureBufferReady(): wait for the others to finish the round. *)

\* Faulty: the round number is not looked at.
CheckWaitIgnoringRound(t) ==
  /\ pc[t] = "waitLock"
  /\ MutexFree
  /\ \/ /\ runState < DONE
        /\ Goto(t, "wait")
        /\ UNCHANGED <<ensuring, stale>>
     \/ /\ runState = DONE
        /\ Leave(t)
  /\ UNCHANGED <<listVars, roundVars, hand, local, owner, histVars>>

\* The loop's condition, and the wait that gives the mutex up.
CheckWait(t) ==
  /\ pc[t] = "waitLock"
  /\ MutexFree
  /\ \/ /\ runState < DONE /\ ~stale[t]
        /\ Goto(t, "wait")
        /\ UNCHANGED <<ensuring, stale>>
     \/ /\ runState = DONE \/ stale[t]
        /\ Leave(t)
  /\ UNCHANGED <<listVars, roundVars, hand, local, owner, histVars>>

\* WaitWithTimeout() elapses, or wakes spuriously.
WaitTimeout(t) ==
  /\ pc[t] = "wait"
  /\ Goto(t, "waitLock")
  /\ UNCHANGED <<listVars, roundVars, hand, local, ensuring, stale, owner, histVars>>

TaskStep(t) ==
  \/ FastPath(t) \/ Begin(t) \/ Take(t) \/ Mix(t) \/ DropOld(t)
  \/ Merge(t) \/ Publish(t) \/ Return(t) \/ CheckWait(t)

----------------------------------------------------------------------------
(* The owner, and the threads that start samplers *)

\* Faulty: the round is completed by running the task once, without waiting.
CompleteRoundByRun ==
  /\ owner = "play"
  /\ owner' = "complete"
  /\ toComplete' = TRUE
  /\ pc' = [pc EXCEPT ![Owner] = "fast"]
  /\ UNCHANGED <<listVars, runState, activeCount, shared, hand, local, ensuring, stale, histVars>>

\* CompleteRound() is EnsureBufferReady(true).
CompleteRound ==
  /\ owner = "play"
  /\ owner' = "complete"
  /\ toComplete' = TRUE
  /\ pc' = [pc EXCEPT ![Owner] = "fast"]
  /\ ensuring' = [ensuring EXCEPT ![Owner] = TRUE]
  /\ UNCHANGED <<listVars, runState, activeCount, shared, hand, local, stale, histVars>>

Completed ==
  /\ owner = "complete"
  /\ pc[Owner] = "out"
  /\ owner' = "advance"
  /\ UNCHANGED <<listVars, roundVars, threadVars, histVars>>

\* GOScheduler::NewRound(): the round number first ...
AdvanceRound ==
  /\ owner = "advance"
  /\ owner' = "renew"
  /\ stale' = ensuring
  /\ UNCHANGED <<listVars, roundVars, pc, hand, local, ensuring, histVars>>

\* ... then GOSoundTaskBase::NewRound() with DoNewRound(), under m_mutex.
NewRound ==
  /\ owner = "renew"
  /\ MutexFree
  /\ owner' = "play"
  /\ activeCount' = 0
  /\ toComplete' = FALSE
  /\ runState' = NOT_STARTED
  /\ pc' = Broadcast(pc)
  /\ starting' = FALSE
  /\ overtaken' = (Participants # {})
  /\ claimed' = {} /\ dropped' = {} /\ mixed' = 0
  /\ UNCHANGED <<listVars, shared, hand, local, ensuring, stale>>

\* StopEngine() in a period that EnsureStreamingDisableAllowed() gave up on, and
\* StartEngine(): the callbacks have been drained, the workers are idle, and the
\* next SetStreaming(true) renews the round without having completed it.
Restart ==
  /\ owner = "play"
  /\ \A t \in Threads : pc[t] = "out"
  /\ owner' = "advance"
  /\ starting' = TRUE
  /\ UNCHANGED <<listVars, roundVars, threadVars, overtaken, claimed, dropped, mixed>>

InUse == putList \union getList \union {hand[t] : t \in Threads}

\* Add() from StartSampler() or PassSampler(): any thread, at any time.
Add ==
  /\ \E s \in Samplers \ InUse : putList' = putList \union {s}
  /\ UNCHANGED <<getList, roundVars, threadVars, owner, histVars>>

OwnerStep == Completed \/ AdvanceRound \/ NewRound

----------------------------------------------------------------------------

\* BuildEngine() and StartEngine() have returned; SetStreaming(true) is about to
\* open the first round.
Init ==
  /\ runState = NOT_STARTED
  /\ activeCount = 0
  /\ toComplete = FALSE
  /\ putList = {} /\ getList = {}
  /\ pc = [t \in Threads |-> "out"]
  /\ hand = [t \in Threads |-> None]
  /\ local = [t \in Threads |-> {}]
  /\ ensuring = [t \in Threads |-> FALSE]
  /\ stale = [t \in Threads |-> FALSE]
  /\ owner = "advance"
  /\ shared = {}
  /\ starting = TRUE /\ overtaken = FALSE
  /\ claimed = {} /\ dropped = {} /\ mixed = 0

Next ==
  \/ \E t \in Threads : EnterRun(t) \/ EnterEnsure(t) \/ TaskStep(t) \/ WaitTimeout(t)
  \/ CompleteRound \/ OwnerStep \/ Restart \/ Add

\* Threads run and a thread blocked for m_mutex gets it in the end; nothing
\* makes timeouts happen, tasks be requested or periods end.
Fairness ==
  /\ \A t \in Threads : SF_vars(TaskStep(t))
  /\ WF_vars(Completed \/ AdvanceRound) /\ SF_vars(NewRound)

Spec     == Init /\ [][Next]_vars
FairSpec == Spec /\ Fairness

----------------------------------------------------------------------------
(* Properties *)

\* The type of every variable.
TypeOK ==
  /\ runState \in {NOT_STARTED, IN_PROGRESS, PARTLY_DONE, DONE}
  /\ activeCount \in 0..(CountMod - 1)
  /\ toComplete \in BOOLEAN
  /\ putList \subseteq Samplers /\ getList \subseteq Samplers
  /\ pc \in [Threads -> PCs]
  /\ hand \in [Threads -> Samplers \union {None}]
  /\ local \in [Threads -> SUBSET Samplers]
  /\ ensuring \in [Threads -> BOOLEAN]
  /\ stale \in [Threads -> BOOLEAN]
  /\ owner \in {"play", "complete", "advance", "renew"}
  /\ shared \subseteq Samplers
  /\ starting \in BOOLEAN /\ overtaken \in BOOLEAN
  /\ claimed \subseteq Samplers /\ dropped \subseteq Samplers
  /\ mixed \in Nat

\* In a round that was opened with nobody mixing m_ActiveCount counts the threads
\* between fetch_add and fetch_sub: exactly the last of them finds 1 in it.
CountExact == ~overtaken => activeCount = Cardinality(Participants)

\* What the two assertions of DoNewRound() look at.
AtRest ==
  /\ activeCount = 0 /\ Participants = {}
  /\ runState \in {NOT_STARTED, DONE}

\* As DoNewRound() has it: when a round is reset, no thread is mixing and the round
\* either never ran or ran to completion. Not so for the round that the start of
\* streaming opens.
AlwaysAtRest == owner = "renew" => AtRest

\* Only the round that the start of streaming opens may be opened over threads that
\* are mixing; from a round that was not, every further one is opened at rest,
\* although the mixing runs outside the mutex and workers come and go.
RoundAtRest == owner = "renew" /\ ~starting /\ ~overtaken => AtRest

\* A published buffer is complete, in every round that was opened with nobody
\* mixing: every sampler the round took over is in it or was dropped as late, none
\* is still in a list, in a thread's hands or in a share that has not been merged,
\* and no share of an earlier round is in it.
DoneIsComplete ==
  ~overtaken /\ runState = DONE =>
    /\ shared \union dropped = claimed
    /\ getList = {}
    /\ Participants = {}

\* The known hazard noted at GOSoundWindchestGroupTask::OnMixed(): a thread that
\* enters Run() between the last fetch_sub and the publication does not start a
\* second pass. The processing chain runs once per round, unless the round was
\* opened over threads that were mixing.
MixedOnce == ~overtaken => mixed <= 1 /\ (runState = DONE <=> mixed = 1)

\* What a thread has taken out of the list and not merged yet, and what has been
\* merged in this round.
Held(t) == local[t] \union ({hand[t]} \ {None})
Merged  == IF runState \in {PARTLY_DONE, DONE} THEN shared ELSE {}

\* No sampler is mixed twice in a round that was opened with nobody mixing: one that
\* is still in the list, in a thread's hand, in a share or in the buffer is nowhere
\* else. The lists are shared by threads that join and leave the round as they like.
NoDoubleMix ==
  ~overtaken =>
    /\ getList \intersect Merged = {}
    /\ \A t \in Threads :
         /\ Held(t) \intersect (getList \union Merged) = {}
         /\ hand[t] \notin local[t]
         /\ \A u \in Threads \ {t} : Held(t) \intersect Held(u) = {}

\* The callbacks go on ending periods.
PeriodsGoOn == []<>(owner = "complete")

\* A thread that waits in EnsureBufferReady() leaves the wait, without the help
\* of a timeout: the round it waits for is published, or replaced. The round that
\* the start of streaming opens may have been opened under the waiter, and is then
\* mixed by the end of its period only. Broken rounds are no exception.
WaiterReturns == PeriodsGoOn => \A t \in Threads : pc[t] = "wait" ~> pc[t] = "out"

\* CompleteRound() returns and the round is renewed, be it one that was opened over
\* threads that were mixing and count out of it with a counter that was reset.
RoundEnds == owner = "complete" ~> owner = "play"

\* The cell implements MixRound.
Phase == CASE runState = NOT_STARTED -> "idle"
           [] runState = DONE        -> "done"
           [] OTHER                  -> "mixing"

Mixing == INSTANCE MixRound
            WITH queue  <- putList,
                 phase  <- Phase,
                 batch  <- claimed,
                 output <- IF runState = DONE THEN shared ELSE {},
                 broken <- overtaken

ImplementsMixRound == Mixing!MixSpec

==============================================================================
