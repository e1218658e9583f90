----------------------------- MODULE PeriodTasks -----------------------------
(***************************************************************************)
(* The tasks of one audio period over GOScheduler: the workers take tasks  *)
(* from the plan while the audio callback asks for its output, completes   *)
(* the round and renews it, task by task in the order of the work list.    *)
(*                                                                         *)
(* Every task follows the default protocol of GOSoundTaskBase::Run(): at   *)
(* most once a round, under the task's mutex, running its prerequisites    *)
(* itself first.  A (windchest, audio group) cell is shared by several     *)
(* threads, but to whoever asks for its buffer it looks the same: done,    *)
(* or worth waiting for (MixRound).  What a task computes is abstracted to *)
(* whether it comes from this round or from an earlier one.                *)
(***************************************************************************)
EXTENDS Scheduler

CONSTANTS
  Workers,
  Owner,        \* the thread of the audio callback
  None,         \* no task
  Inputs,       \* the tasks whose buffers a task sums, in its order
  Amplitudes,   \* the tasks whose GetAmplitude() it calls
  Cells,        \* the tasks with a cost: mixers of samplers
  Groups,       \* the audio groups GOSoundReleaseTask waits for
  Output,       \* the task of the callback's output device
  BuildOrder,   \* the tasks BuildEngine() adds, in its order
  LateTask      \* the one PrepareSoundRoutingFor() builds later

ASSUME GraphAssumption ==
  /\ Inputs \in [Tasks -> Seq(Tasks)] /\ Amplitudes \in [Tasks -> Seq(Tasks)]
  /\ Cells \subseteq Tasks /\ Groups \subseteq Tasks
  /\ Output \in Tasks /\ LateTask \in Tasks
  /\ None \notin Tasks /\ None \notin Workers /\ Owner \notin Workers \union {None}
  \* The priorities in GOSoundTaskBase.h: cells, audio groups, outputs, recorder.
  /\ \A t \in Tasks : \A i \in DOMAIN Inputs[t] : Priority[Inputs[t][i]] < Priority[t]
  \* A cell sums no buffers of other tasks. The cell that is built late is neither a
  \* group nor an output.
  /\ \A t \in Cells : Inputs[t] = <<>>
  /\ LateTask \notin Groups \union {Output}
  \* The first one is a tremulant, or the windchest that is always there ([B2]).
  /\ BuildOrder \in Seq(Tasks) /\ IsInjective(BuildOrder)
  /\ ToSet(BuildOrder) = Tasks \ {LateTask}
  /\ BuildOrder # <<>> /\ Inputs[BuildOrder[1]] = <<>>

Threads == Workers \union {Owner}

VARIABLES
  work,          \* m_Work
  plan,          \* m_Tasks
  nextItem,      \* m_NextItem
  done,          \* m_RunState = RUN_STATE_DONE
  holder,        \* who is in the task's DoRun(), and so holds its m_mutex
  want,          \* the task whose Run() a thread is about to enter
  calls,         \* the DoRun() calls a thread is in, innermost first
  oldBuffer,     \* the task's buffer sums something of an earlier round
  oldAmplitude,  \* it was computed with an amplitude of an earlier round
  owner,         \* "play", "copy", "complete", "advance", "renew"
  visit,         \* the position CompleteRoundList() or NewRoundList() is at
  paused         \* the workers are parked: from StopEngine() to StartPeriod()

planVars    == <<work, plan, nextItem>>
taskVars    == <<done, holder, oldBuffer, oldAmplitude>>
threadVars  == <<want, calls>>
ownerVars   == <<owner, visit, paused>>
vars        == <<planVars, taskVars, threadVars, ownerVars>>

----------------------------------------------------------------------------

AtRest(t) == want[t] = None /\ calls[t] = <<>>

Registered == {work[i] : i \in DOMAIN work}

IsInput(p, t) == p \in {Inputs[t][i] : i \in DOMAIN Inputs[t]}

\* The inputs are those of the routing that has been committed.
Prerequisites(p) ==
  LET all == Inputs[p] \o Amplitudes[p]
      from[n \in Nat \ {0}] ==
        IF n > Len(all) THEN <<>>
        ELSE (IF all[n] \in Registered THEN <<all[n]>> ELSE <<>>) \o from[n + 1]
  IN  from[1]

\* GetCost(): the number of samplers in a cell's lists, zero for other tasks.
Costs == {c \in [Tasks -> 0..1] : \A t \in Tasks \ Cells : c[t] = 0}

----------------------------------------------------------------------------
(* Run() *)

\* A worker takes the next task of the plan. (The position is read when it is
\* taken, the task in it is whatever the list holds there now.)
GetNextTask(w) ==
  /\ AtRest(w) /\ ~paused
  /\ nextItem <= Len(plan)
  /\ nextItem' = nextItem + 1
  /\ want' = [want EXCEPT ![w] = work[plan[nextItem]]]
  /\ UNCHANGED <<work, plan, taskVars, calls, ownerVars>>

\* GOSoundReleaseTask::Run() lingers across rounds and asks for an audio group
\* without the scheduler.
LingerInRelease(w) ==
  /\ AtRest(w) /\ ~paused
  /\ \E g \in Groups : want' = [want EXCEPT ![w] = g]
  /\ UNCHANGED <<planVars, taskVars, calls, ownerVars>>

\* The task is done, at first sight or once the mutex has been taken.
FindDone(t) ==
  /\ want[t] # None /\ done[want[t]]
  /\ want' = [want EXCEPT ![t] = None]
  /\ UNCHANGED <<planVars, taskVars, calls, ownerVars>>

\* Run() of a cell, unlike EnsureBufferReady(), does not wait for the threads
\* that are mixing it.
LeaveCell(t) ==
  /\ want[t] \in Repeatable /\ holder[want[t]] # None
  /\ t \in Workers /\ calls[t] = <<>>
  /\ want' = [want EXCEPT ![t] = None]
  /\ UNCHANGED <<planVars, taskVars, calls, ownerVars>>

\* The mutex is taken and the task is not done: DoRun().
Enter(t) ==
  /\ want[t] # None
  /\ ~done[want[t]] /\ holder[want[t]] = None
  /\ holder' = [holder EXCEPT ![want[t]] = t]
  /\ calls' = [calls EXCEPT ![t] =
                <<[task |-> want[t], todo |-> Prerequisites(want[t]), asked |-> FALSE,
                   buffer |-> FALSE, amplitude |-> FALSE]>> \o @]
  /\ want' = [want EXCEPT ![t] = None]
  /\ UNCHANGED <<planVars, done, oldBuffer, oldAmplitude, ownerVars>>

\* EnsureBufferReady() or GetAmplitude() of the next prerequisite, which is not
\* done: run it first.
Ask(t) ==
  /\ want[t] = None /\ calls[t] # <<>>
  /\ LET f == calls[t][1]
     IN  /\ f.todo # <<>> /\ ~f.asked /\ ~done[Head(f.todo)]
         /\ want' = [want EXCEPT ![t] = Head(f.todo)]
         /\ calls' = [calls EXCEPT ![t][1].asked = TRUE]
  /\ UNCHANGED <<planVars, taskVars, ownerVars>>

\* Read the prerequisite: it is done, or its Run() has just returned.
Read(t) ==
  /\ want[t] = None /\ calls[t] # <<>>
  /\ LET f == calls[t][1]
         p == Head(f.todo)
     IN  /\ f.todo # <<>> /\ (f.asked \/ done[p])
         /\ calls' = [calls EXCEPT ![t][1] =
              [f EXCEPT !.todo = Tail(@), !.asked = FALSE,
                        !.buffer = @ \/ (IsInput(p, f.task) /\ oldBuffer[p]),
                        !.amplitude = @ \/ oldAmplitude[p]]]
  /\ UNCHANGED <<planVars, taskVars, want, ownerVars>>

\* DoRun() returns, the task is done, the mutex is released.
Finish(t) ==
  /\ want[t] = None /\ calls[t] # <<>>
  /\ LET f == calls[t][1]
     IN  /\ f.todo = <<>>
         /\ done' = [done EXCEPT ![f.task] = TRUE]
         /\ holder' = [holder EXCEPT ![f.task] = None]
         /\ oldBuffer' = [oldBuffer EXCEPT ![f.task] = f.buffer]
         /\ oldAmplitude' = [oldAmplitude EXCEPT ![f.task] = f.amplitude]
  /\ calls' = [calls EXCEPT ![t] = Tail(@)]
  /\ UNCHANGED <<planVars, want, ownerVars>>

Run(t) == FindDone(t) \/ LeaveCell(t) \/ Enter(t) \/ Ask(t) \/ Read(t) \/ Finish(t)

----------------------------------------------------------------------------
(* The audio callback *)

\* ProcessAudioCallback(): EnsureBufferReady() of the output, CopyFrom().
Callback ==
  /\ owner = "play"
  /\ owner' = "copy"
  /\ want' = [want EXCEPT ![Owner] = Output]
  /\ UNCHANGED <<planVars, taskVars, calls, visit, paused>>

Copied ==
  /\ owner = "copy" /\ AtRest(Owner)
  /\ owner' = "complete"
  /\ visit' = 1
  /\ UNCHANGED <<planVars, taskVars, threadVars, paused>>

\* Faulty: the round is over without CompleteRound().
SkipCompletion ==
  /\ owner = "complete"
  /\ owner' = "advance"
  /\ UNCHANGED <<planVars, taskVars, threadVars, visit, paused>>

\* Faulty: the owner waits for the workers instead of running the task itself.
CompleteByWaiting ==
  /\ owner = "complete"
  /\ IF visit <= Len(work)
       THEN done[work[visit]] /\ visit' = visit + 1 /\ UNCHANGED owner
       ELSE owner' = "advance" /\ UNCHANGED visit
  /\ UNCHANGED <<planVars, taskVars, threadVars, paused>>

\* CompleteRoundList(): CompleteRound() of one task after the other.
CompleteTask ==
  /\ owner = "complete" /\ AtRest(Owner)
  /\ IF visit <= Len(work)
       THEN /\ want' = [want EXCEPT ![Owner] = work[visit]]
            /\ visit' = visit + 1
            /\ UNCHANGED owner
       ELSE /\ owner' = "advance"
            /\ UNCHANGED <<want, visit>>
  /\ UNCHANGED <<planVars, taskVars, calls, paused>>

\* NewRound(): from here on everything computed so far is of an earlier round;
\* the list is sorted by the costs as they are now.
AdvanceRound ==
  /\ owner = "advance"
  /\ \E cost \in Costs : work' = SortList(cost, work)
  /\ oldBuffer' = [t \in Tasks |-> TRUE]
  /\ oldAmplitude' = [t \in Tasks |-> TRUE]
  /\ owner' = "renew"
  /\ visit' = 1
  /\ UNCHANGED <<plan, nextItem, done, holder, threadVars, paused>>

\* NewRoundList(): NewRound() of one task after the other, under its mutex; last
\* m_NextItem.exchange(0) and, in StartPeriod(), the wakeups.
RenewTask ==
  /\ owner = "renew"
  /\ IF visit <= Len(work)
       THEN /\ holder[work[visit]] = None
            /\ done' = [done EXCEPT ![work[visit]] = FALSE]
            /\ visit' = visit + 1
            /\ UNCHANGED <<nextItem, owner, paused>>
       ELSE /\ nextItem' = 1
            /\ owner' = "play"
            /\ paused' = FALSE
            /\ UNCHANGED <<done, visit>>
  /\ UNCHANGED <<work, plan, holder, oldBuffer, oldAmplitude, threadVars>>

\* Faulty: the new task is added without Update().
CommitWithoutUpdate ==
  /\ owner = "advance"
  /\ \A w \in Workers : AtRest(w)
  /\ LateTask \notin Registered
  /\ \E cost \in Costs : work' = SortList(cost, Append(work, LateTask))
  /\ paused' = TRUE
  /\ UNCHANGED <<plan, nextItem, taskVars, threadVars, owner, visit>>

\* EnsureSoundRoutingFor() while the engine is stopped on a period boundary:
\* Add() of the new task sorts the list and makes a new plan.
CommitSoundRouting ==
  /\ owner = "advance"
  /\ \A w \in Workers : AtRest(w)
  /\ LateTask \notin Registered
  /\ \E cost \in Costs :
       /\ cost[LateTask] = 0
       /\ work' = SortList(cost, Append(work, LateTask))
       /\ plan' = Plan(work')
  /\ paused' = TRUE
  /\ UNCHANGED <<nextItem, taskVars, threadVars, owner, visit>>

OwnerStep == Copied \/ CompleteTask \/ AdvanceRound \/ RenewTask

----------------------------------------------------------------------------

NoCost == [t \in Tasks |-> 0]

\* BuildEngine() has added the tasks, when all of them are empty; the first
\* round is open and no worker is at work yet.
Init ==
  /\ work = SortList(NoCost, BuildOrder)
  /\ plan = Plan(work)
  /\ nextItem = 1
  /\ done = [t \in Tasks |-> FALSE]
  /\ holder = [t \in Tasks |-> None]
  /\ want = [t \in Threads |-> None]
  /\ calls = [t \in Threads |-> <<>>]
  /\ oldBuffer = [t \in Tasks |-> TRUE]
  /\ oldAmplitude = [t \in Tasks |-> TRUE]
  /\ owner = "play"
  /\ visit = 1
  /\ paused = FALSE

Next ==
  \/ \E w \in Workers : GetNextTask(w) \/ LingerInRelease(w)
  \/ \E t \in Threads : Run(t)
  \/ Callback \/ OwnerStep \/ CommitSoundRouting

\* Threads run. No fairness of the mutexes is needed: a task that has been
\* released is done. Nothing makes callbacks come or workers ask for tasks.
Fairness == (\A t \in Threads : WF_vars(Run(t))) /\ WF_vars(OwnerStep)

Spec     == Init /\ [][Next]_vars
FairSpec == Spec /\ Fairness

----------------------------------------------------------------------------
(* Properties *)

Frames == [task : Tasks, todo : Seq(Tasks), asked : BOOLEAN,
           buffer : BOOLEAN, amplitude : BOOLEAN]

\* The type of every variable; the list holds every task once, whatever the sort
\* does to it, and the plan stays inside the list.
TypeOK ==
  /\ work \in Seq(Tasks)
  /\ Registered \in {Tasks, Tasks \ {LateTask}}
  /\ IsInjective(work)
  /\ plan \in Seq(DOMAIN work)
  /\ nextItem \in Nat \ {0}
  /\ done \in [Tasks -> BOOLEAN]
  /\ holder \in [Tasks -> Threads \union {None}]
  /\ want \in [Threads -> Tasks \union {None}]
  /\ calls \in [Threads -> Seq(Frames)]
  /\ oldBuffer \in [Tasks -> BOOLEAN] /\ oldAmplitude \in [Tasks -> BOOLEAN]
  /\ owner \in {"play", "copy", "complete", "advance", "renew"}
  /\ visit \in 1..(Len(work) + 1)
  /\ paused \in BOOLEAN

\* The comment in GOSoundOutputTask::DoRun(): an output never plays what its
\* audio groups or their cells mixed in an earlier round, although workers keep
\* running tasks while the round is being renewed task by task.
OutputFresh ==
  /\ (owner = "copy" /\ AtRest(Owner)) => done[Output]
  /\ owner \in {"play", "copy", "complete"} =>
       \A t \in Registered : done[t] => ~oldBuffer[t]

\* What that rests on: a task stands behind every task whose buffer it sums, so
\* it is renewed after all of them. No sequence of re-sorts and no task that is
\* added later may break it.
InputsFirst ==
  \A i, j \in DOMAIN work : IsInput(work[j], work[i]) => j < i

\* Every task is still offered in every round after the list has been sorted
\* under the plan, whose entries are positions.
EveryTaskOffered == \A t \in Registered : Offers(plan, work, t) >= 1

\* When a task is renewed, nobody is in the middle of it: the round was completed
\* first, so no DoRun() straddles the reset.
RenewedAtRest ==
  owner \in {"advance", "renew"} =>
    \A i \in DOMAIN work :
      (owner = "advance" \/ visit <= i) => holder[work[i]] = None

\* CompleteRound() and NewRound() return: no cycle of tasks waiting for each
\* other's mutexes, no lost round.
RoundEnds == owner = "copy" ~> owner = "play"

\* GOSoundTaskBase.h: tremulants are "recomputed before the windchests read" them
\* and the order of tasks is "an optimisation only": in the round that is being
\* played no task uses an amplitude of an earlier round.
AmplitudeFresh ==
  owner \in {"play", "copy", "complete"} =>
    \A t \in Registered : done[t] => ~oldAmplitude[t]

==============================================================================
