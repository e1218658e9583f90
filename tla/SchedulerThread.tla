--------------------------- MODULE SchedulerThread ---------------------------
(***************************************************************************)
(* The worker threads of the sound engine (GOSchedulerThread), the         *)
(* lock-free hand-out of the round plan they pull from                     *)
(* (GOScheduler::GetNextTask and the counters it reads) and the thread     *)
(* that drives both: GOOrganController's StartOrgan, EnsureSoundRoutingFor *)
(* and StopOrgan over GOSoundOrganEngine's BuildEngine, StartEngine,       *)
(* StopEngine, CommitSoundRoutingFor and DestroyEngine.                    *)
(*                                                                         *)
(* What a task computes is abstracted to "a worker is inside Run()"; the   *)
(* audio callbacks are abstracted to "a period boundary opens the next     *)
(* round" (OrganEngine.tla models them).                                   *)
(***************************************************************************)
EXTENDS Integers, FiniteSets

CONSTANTS
  Workers,      \* the indices of mp_threads
  InitialPlan,  \* number of plan slots BuildEngine creates
  MaxPlan,      \* bound: the plan is not extended beyond this many slots
  MaxPeriods    \* bound: period boundaries per streaming session

ASSUME WorkersAssumption == Workers \subseteq Nat /\ Workers # {}
ASSUME PlanAssumption    == InitialPlan \in 0..MaxPlan /\ MaxPlan \in Nat
ASSUME PeriodsAssumption == MaxPeriods \in Nat

VARIABLES
  pc,          \* where each worker is in GOSchedulerThread::Entry
  slot,        \* the plan index a worker took from m_NextItem
  wakeup,      \* m_IsWakeupPending of each thread
  idle,        \* m_IsIdle of each thread
  stop,        \* m_Stop of each thread
  notGiving,   \* m_IsNotGivingWork
  nextItem,    \* m_NextItem
  itemCount,   \* m_ItemCount
  planLen,     \* m_Tasks.size(): the slots that may be dereferenced
  ctl,         \* where the control thread is
  pending,     \* threads the control thread's current loop has still to visit
  waking,      \* threads StartPeriod() has still to wake
  periods      \* period boundaries since the session was opened

threadVars == <<pc, slot>>
flagVars   == <<wakeup, idle, stop>>
planVars   == <<notGiving, nextItem, itemCount, planLen>>
ctlVars    == <<ctl, pending, waking, periods>>
vars       == <<threadVars, flagVars, planVars, ctlVars>>

----------------------------------------------------------------------------

\* GetNextTask() has read m_IsNotGivingWork as false and has not come back
\* empty-handed: the worker touches the plan or a task.
Working == {"fetch", "bound", "deref", "run"}

\* The stretch of Entry() between m_IsIdle.store(true) and .store(false).
Parked == {"park", "parkStop", "wait", "unpark"}

WorkerPCs == {"none", "check", "give", "idle", "exited"} \union Working \union Parked

\* The control thread. "down": no engine; "resume"/"open": inside
\* ResumeOrgan(); "working": streaming; "quiesce": StopEngine() waits for the
\* workers; "suspended": after SuspendOrgan(); "adding": inside
\* GOScheduler::Add(); "deleting"/"join": DestroyEngine() stops the workers.
Quiet == {"suspended", "adding", "deleting", "marked", "join", "clear"}

CtlPCs == {"down", "resume", "open", "working", "quiesce"} \union Quiet

----------------------------------------------------------------------------
(* The worker: GOSchedulerThread::Entry and GOScheduler::GetNextTask. *)

Goto(w, to) == pc' = [pc EXCEPT ![w] = to]

CheckStop(w) ==
  /\ pc[w] = "check"
  /\ Goto(w, IF stop[w] THEN "exited" ELSE "give")
  /\ UNCHANGED <<slot, flagVars, planVars, ctlVars>>

LoadGiving(w) ==
  /\ pc[w] = "give"
  /\ Goto(w, IF notGiving THEN "idle" ELSE "fetch")
  /\ UNCHANGED <<slot, flagVars, planVars, ctlVars>>

\* m_NextItem.fetch_add(1). The counter saturates at MaxPlan: no plan is longer,
\* so every larger value is past the end of the plan just as MaxPlan is.
FetchNext(w) ==
  /\ pc[w] = "fetch"
  /\ slot' = [slot EXCEPT ![w] = nextItem]
  /\ nextItem' = IF nextItem < MaxPlan THEN nextItem + 1 ELSE nextItem
  /\ Goto(w, "bound")
  /\ UNCHANGED <<flagVars, notGiving, itemCount, planLen, ctlVars>>

LoadCount(w) ==
  /\ pc[w] = "bound"
  /\ IF slot[w] < itemCount
       THEN Goto(w, "deref") /\ UNCHANGED slot
       ELSE Goto(w, "idle") /\ slot' = [slot EXCEPT ![w] = 0]
  /\ UNCHANGED <<flagVars, planVars, ctlVars>>

\* *m_Tasks[next]. The application never calls GOScheduler::Remove(), so no
\* slot of the plan is null. The index is a local: it is forgotten here.
Deref(w) ==
  /\ pc[w] = "deref"
  /\ Goto(w, "run")
  /\ slot' = [slot EXCEPT ![w] = 0]
  /\ UNCHANGED <<flagVars, planVars, ctlVars>>

FinishTask(w) ==
  /\ pc[w] = "run"
  /\ Goto(w, "check")
  /\ UNCHANGED <<slot, flagVars, planVars, ctlVars>>

\* Faulty variants, each named after the operator it would replace: they show
\* that the properties below notice the mistake. Here: the pending wakeup is
\* dropped on the way to the parking loop.
SetIdleDroppingWakeup(w) ==
  /\ pc[w] = "idle"
  /\ idle' = [idle EXCEPT ![w] = TRUE]
  /\ wakeup' = [wakeup EXCEPT ![w] = FALSE]
  /\ Goto(w, "park")
  /\ UNCHANGED <<slot, stop, planVars, ctlVars>>

\* Faulty: m_IsIdle is reported only by a thread that is about to exit.
SetIdleOnlyAtExit(w) ==
  /\ pc[w] = "idle"
  /\ idle' = [idle EXCEPT ![w] = stop[w]]
  /\ Goto(w, "park")
  /\ UNCHANGED <<slot, wakeup, stop, planVars, ctlVars>>

SetIdle(w) ==
  /\ pc[w] = "idle"
  /\ idle' = [idle EXCEPT ![w] = TRUE]
  /\ Goto(w, "park")
  /\ UNCHANGED <<slot, wakeup, stop, planVars, ctlVars>>

\* m_IsWakeupPending.exchange(false): reading and clearing are one step.
TakeWakeup(w) ==
  /\ pc[w] = "park"
  /\ wakeup' = [wakeup EXCEPT ![w] = FALSE]
  /\ Goto(w, IF wakeup[w] THEN "unpark" ELSE "parkStop")
  /\ UNCHANGED <<slot, idle, stop, planVars, ctlVars>>

ParkCheckStop(w) ==
  /\ pc[w] = "parkStop"
  /\ Goto(w, IF stop[w] THEN "unpark" ELSE "wait")
  /\ UNCHANGED <<slot, flagVars, planVars, ctlVars>>

\* atomic::wait(false) returns at once when the flag is already set and
\* otherwise when a Wakeup() has set it.
WaitReturns(w) ==
  /\ pc[w] = "wait"
  /\ wakeup[w]
  /\ Goto(w, "park")
  /\ UNCHANGED <<slot, flagVars, planVars, ctlVars>>

\* Faulty: m_IsIdle is set before the first parking cycle and never cleared.
ClearIdleNever(w) ==
  /\ pc[w] = "unpark"
  /\ Goto(w, "check")
  /\ UNCHANGED <<slot, flagVars, planVars, ctlVars>>

ClearIdle(w) ==
  /\ pc[w] = "unpark"
  /\ idle' = [idle EXCEPT ![w] = FALSE]
  /\ Goto(w, "check")
  /\ UNCHANGED <<slot, wakeup, stop, planVars, ctlVars>>

Entry(w) ==
  \/ CheckStop(w) \/ LoadGiving(w) \/ FetchNext(w) \/ LoadCount(w)
  \/ Deref(w) \/ FinishTask(w) \/ SetIdle(w) \/ TakeWakeup(w)
  \/ ParkCheckStop(w) \/ WaitReturns(w) \/ ClearIdle(w)

----------------------------------------------------------------------------

\* The loops over mp_threads visit the threads in the vector's order.
First(w, S) == w \in S /\ \A v \in S : w <= v

(* The control thread: GOOrganController over GOSoundOrganEngine. *)

\* StartOrgan(): BuildEngine() [B11] fills the plan, [B12] creates and starts
\* the threads. m_IsNotGivingWork and m_NextItem keep what the last session
\* left in them: both belong to the scheduler, which outlives the tasks.
BuildEngine ==
  /\ ctl = "down"
  /\ planLen' = InitialPlan
  /\ itemCount' = InitialPlan
  /\ pc' = [w \in Workers |-> "check"]
  /\ wakeup' = [w \in Workers |-> FALSE]
  /\ idle' = [w \in Workers |-> FALSE]
  /\ stop' = [w \in Workers |-> FALSE]
  /\ ctl' = "resume"
  /\ UNCHANGED <<slot, notGiving, nextItem, pending, waking, periods>>

StartEngine ==
  /\ ctl = "resume"
  /\ notGiving' = FALSE
  /\ ctl' = "open"
  /\ UNCHANGED <<threadVars, flagVars, nextItem, itemCount, planLen,
                 pending, waking, periods>>

\* Faulty: the wakeup loop runs one thread too far.
NewRoundOffByOne ==
  /\ nextItem' = 0
  /\ waking' = Workers \union {1 + CHOOSE m \in Workers : \A w \in Workers : w <= m}

\* GOScheduler::NewRound() as StartPeriod() calls it, with the loop that wakes
\* the workers still to run.
NewRound ==
  /\ nextItem' = 0
  /\ waking' = Workers

\* SetStreaming(true) opens the round StartEngine() owes.
SetStreaming ==
  /\ ctl = "open"
  /\ NewRound
  /\ periods' = 0
  /\ ctl' = "working"
  /\ UNCHANGED <<threadVars, flagVars, notGiving, itemCount, planLen, pending>>

\* A period boundary in ProcessAudioCallback() (the audio thread).
PeriodBoundary ==
  /\ ctl = "working"
  /\ waking = {}
  /\ periods < MaxPeriods
  /\ periods' = periods + 1
  /\ NewRound
  /\ UNCHANGED <<threadVars, flagVars, notGiving, itemCount, planLen, ctl, pending>>

\* One iteration of StartPeriod()'s loop.
Wakeup(w) ==
  /\ First(w, waking)
  /\ waking' = waking \ {w}
  /\ wakeup' = [wakeup EXCEPT ![w] = TRUE]
  /\ UNCHANGED <<threadVars, idle, stop, planVars, ctl, pending, periods>>

\* Faulty: the threads are not waited for.
StopEngineWithoutWait ==
  /\ ctl = "working"
  /\ waking = {}
  /\ notGiving' = TRUE
  /\ pending' = {}
  /\ ctl' = "suspended"
  /\ UNCHANGED <<threadVars, flagVars, nextItem, itemCount, planLen, waking, periods>>

\* StopEngine(), entered once the callbacks are drained (so that no
\* StartPeriod() is under way): PauseGivingWork(), then the loop below.
StopEngine ==
  /\ ctl = "working"
  /\ waking = {}
  /\ notGiving' = TRUE
  /\ pending' = Workers
  /\ ctl' = "quiesce"
  /\ UNCHANGED <<threadVars, flagVars, nextItem, itemCount, planLen, waking, periods>>

\* WaitForIdle() on one thread.
WaitForIdle(w) ==
  /\ ctl = "quiesce"
  /\ First(w, pending)
  /\ idle[w]
  /\ pending' = pending \ {w}
  /\ ctl' = IF pending = {w} THEN "suspended" ELSE ctl
  /\ UNCHANGED <<threadVars, flagVars, planVars, waking, periods>>

\* CommitSoundRoutingFor(): GOScheduler::Add() of one more task. Lock() zeroes
\* m_ItemCount and Update() rebuilds m_Tasks ...
AddBegin ==
  /\ ctl = "suspended"
  /\ planLen < MaxPlan
  /\ itemCount' = 0
  /\ ctl' = "adding"
  /\ UNCHANGED <<threadVars, flagVars, notGiving, nextItem, planLen,
                 pending, waking, periods>>

\* ... and Unlock() publishes the new length.
AddEnd ==
  /\ ctl = "adding"
  /\ planLen' = planLen + 1
  /\ itemCount' = planLen + 1
  /\ ctl' = "suspended"
  /\ UNCHANGED <<threadVars, flagVars, notGiving, nextItem, pending, waking, periods>>

\* ResumeOrgan() after a commit, or after nothing had to be committed.
ResumeOrgan ==
  /\ ctl = "suspended"
  /\ ctl' = "resume"
  /\ UNCHANGED <<threadVars, flagVars, planVars, pending, waking, periods>>

\* StopOrgan(): DestroyEngine() [B12] deletes the threads one after another.
DestroyEngine ==
  /\ ctl = "suspended"
  /\ pending' = Workers
  /\ ctl' = "deleting"
  /\ UNCHANGED <<threadVars, flagVars, planVars, waking, periods>>

\* GOSchedulerThread::MarkForStop(): the stop flag first, then the wakeup.
MarkForStop(w) ==
  /\ ctl = "deleting"
  /\ First(w, pending)
  /\ stop' = [stop EXCEPT ![w] = TRUE]
  /\ ctl' = "marked"
  /\ UNCHANGED <<threadVars, wakeup, idle, planVars, pending, waking, periods>>

\* Faulty: GOThread's MarkForStop(), which only sets the flag.
WakeForStopMissing(w) ==
  /\ ctl = "marked"
  /\ First(w, pending)
  /\ ctl' = "join"
  /\ UNCHANGED <<threadVars, flagVars, planVars, pending, waking, periods>>

WakeForStop(w) ==
  /\ ctl = "marked"
  /\ First(w, pending)
  /\ wakeup' = [wakeup EXCEPT ![w] = TRUE]
  /\ ctl' = "join"
  /\ UNCHANGED <<threadVars, idle, stop, planVars, pending, waking, periods>>

\* GOThread::Wait() returns; the loop goes on to the next thread.
Join(w) ==
  /\ ctl = "join"
  /\ First(w, pending)
  /\ pc[w] = "exited"
  /\ pc' = [pc EXCEPT ![w] = "none"]
  /\ pending' = pending \ {w}
  /\ ctl' = IF pending = {w} THEN "clear" ELSE "deleting"
  /\ UNCHANGED <<slot, flagVars, planVars, waking, periods>>

\* GOScheduler::Clear() of DestroyEngine() [B11]; m_NextItem is left alone.
Clear ==
  /\ ctl = "clear"
  /\ itemCount' = 0
  /\ planLen' = 0
  /\ ctl' = "down"
  /\ UNCHANGED <<threadVars, flagVars, notGiving, nextItem, pending, waking, periods>>

Control ==
  \/ BuildEngine \/ StartEngine \/ SetStreaming \/ StopEngine
  \/ AddBegin \/ AddEnd \/ ResumeOrgan \/ DestroyEngine \/ Clear
  \/ \E w \in Workers :
       WaitForIdle(w) \/ MarkForStop(w) \/ WakeForStop(w) \/ Join(w)

----------------------------------------------------------------------------

\* The first organ: GOScheduler's constructor leaves m_IsNotGivingWork false.
Init ==
  /\ pc = [w \in Workers |-> "none"]
  /\ slot = [w \in Workers |-> 0]
  /\ wakeup = [w \in Workers |-> FALSE]
  /\ idle = [w \in Workers |-> FALSE]
  /\ stop = [w \in Workers |-> FALSE]
  /\ notGiving = FALSE
  /\ nextItem = 0
  /\ itemCount = 0
  /\ planLen = 0
  /\ ctl = "down"
  /\ pending = {}
  /\ waking = {}
  /\ periods = 0

Next ==
  \/ \E w \in Workers : Entry(w) \/ Wakeup(w)
  \/ Control
  \/ PeriodBoundary

\* The operating system runs every thread, and Run() returns; nothing obliges
\* the user to suspend, resume or close the organ, nor the device to reach
\* another period boundary.
Fairness ==
  /\ \A w \in Workers : WF_vars(Entry(w)) /\ WF_vars(Wakeup(w))
  /\ \A w \in Workers : WF_vars(WaitForIdle(w)) /\ WF_vars(Join(w))
  /\ \A w \in Workers : WF_vars(MarkForStop(w)) /\ WF_vars(WakeForStop(w))
  /\ WF_vars(Clear)

Spec     == Init /\ [][Next]_vars
FairSpec == Spec /\ Fairness

----------------------------------------------------------------------------
(* Properties *)

\* The type of every variable; no counter of the plan is negative.
TypeOK ==
  /\ pc \in [Workers -> WorkerPCs]
  /\ slot \in [Workers -> Nat]
  /\ wakeup \in [Workers -> BOOLEAN]
  /\ idle \in [Workers -> BOOLEAN]
  /\ stop \in [Workers -> BOOLEAN]
  /\ notGiving \in BOOLEAN
  /\ nextItem \in Nat
  /\ itemCount \in Nat
  /\ planLen \in 0..MaxPlan
  /\ ctl \in CtlPCs
  /\ pending \subseteq Workers
  /\ waking \subseteq Workers
  /\ periods \in Nat

\* What GOSchedulerThread.h promises of WaitForIdle(): from the moment
\* StopEngine() has returned until StartEngine() resumes, no worker is inside a
\* task or inside GetNextTask() past the pause check, although idle threads may
\* still be consuming a wakeup of an earlier period. CommitSoundRoutingFor() and
\* DestroyEngine() rebuild the plan and delete tasks on the strength of this.
Quiescent == ctl \in Quiet => \A w \in Workers : pc[w] \notin Working

\* GetNextTask() reads m_Tasks without the scheduler's mutex: whenever a worker
\* is about to dereference m_Tasks[next], the index is inside the vector and no
\* Add() or Clear() is rebuilding it.
PlanSafe ==
  \A w \in Workers :
    pc[w] = "deref" => slot[w] < planLen /\ ctl # "adding"

\* No wakeup is lost: once StartPeriod() has visited every thread, a round that
\* stays open is handed out to the last slot, whatever the threads were doing
\* when they were woken (draining the last round, about to park, parked).
RoundHandedOut ==
  ctl = "working" /\ waking = {} /\ periods = MaxPeriods
    ~> (ctl # "working" \/ nextItem >= itemCount)

\* StopEngine() returns: WaitForIdle() sees every thread idle even when it is
\* called while a thread is busy, or has a wakeup pending and leaves the idle
\* state once more.
StopReturns == ctl = "quiesce" ~> ctl = "suspended"

\* DestroyEngine() returns: a stop request reaches a thread wherever it is
\* (GOSchedulerThread::Delete joins it).
DeleteReturns == ctl = "deleting" ~> ctl = "down"

==============================================================================
