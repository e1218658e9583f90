------------------------ MODULE SchedulerThreadProofs ------------------------
(***************************************************************************)
(* Safety of the worker threads for any set of workers and any plan: the   *)
(* inductive invariant behind Quiescent and PlanSafe, and its proof.       *)
(***************************************************************************)
EXTENDS SchedulerThread, TLAPS

\* m_IsIdle is true exactly between its two stores in Entry().
IdleMeansParked == \A w \in Workers : idle[w] <=> pc[w] \in Parked

\* From PauseGivingWork() until ResumeGivingWork().
PausedCtl == Quiet \union {"quiesce"}

\* The scheduler gives no work while the control thread relies on it, and only
\* threads WaitForIdle() has not yet visited may still be inside a task: the
\* pause alone does not make Quiescent inductive, because a worker that read
\* m_IsNotGivingWork too early is still on its way to the plan.
PausedInv ==
  ctl \in PausedCtl =>
    /\ notGiving
    /\ \A w \in Workers : pc[w] \in Working => ctl = "quiesce" /\ w \in pending

\* m_ItemCount never exceeds the plan, and a dereference stays inside it.
PlanInv ==
  /\ itemCount <= planLen
  /\ ctl = "adding" => planLen < MaxPlan
  /\ \A w \in Workers : pc[w] = "deref" => slot[w] < planLen

IInv == TypeOK /\ IdleMeansParked /\ PausedInv /\ PlanInv

USE DEF Working, Parked, Quiet, CtlPCs, WorkerPCs, PausedCtl

LEMMA InitIInv == Init => IInv
  <1> SUFFICES ASSUME Init PROVE IInv
    OBVIOUS
  <1>1. TypeOK
    <2>1. 0 \in 0..MaxPlan
      BY PlanAssumption
    <2>2. notGiving \in BOOLEAN
      BY DEF Init
    <2>3. pc \in [Workers -> WorkerPCs] /\ slot \in [Workers -> Nat]
      BY DEF Init
    <2>4. /\ wakeup \in [Workers -> BOOLEAN]
          /\ idle \in [Workers -> BOOLEAN]
          /\ stop \in [Workers -> BOOLEAN]
      BY DEF Init
    <2>5. QED
      BY <2>1, <2>2, <2>3, <2>4 DEF Init, TypeOK
  <1>2. IdleMeansParked
    BY DEF Init, IdleMeansParked
  <1>3. PausedInv
    BY DEF Init, PausedInv
  <1>4. PlanInv
    BY DEF Init, PlanInv
  <1>5. QED
    BY <1>1, <1>2, <1>3, <1>4 DEF IInv

\* A step of a worker preserves the invariant.
LEMMA EntryIInv == ASSUME IInv, NEW w \in Workers, Entry(w) PROVE IInv'
  <1> USE PlanAssumption
          DEF IInv, TypeOK, IdleMeansParked, PausedInv, PlanInv, Goto,
              threadVars, flagVars, planVars, ctlVars
  <1>1. CASE CheckStop(w) BY <1>1 DEF CheckStop
  <1>2. CASE LoadGiving(w) BY <1>2 DEF LoadGiving
  <1>3. CASE FetchNext(w) BY <1>3 DEF FetchNext
  <1>4. CASE LoadCount(w) BY <1>4 DEF LoadCount
  <1>5. CASE Deref(w) BY <1>5 DEF Deref
  <1>6. CASE FinishTask(w) BY <1>6 DEF FinishTask
  <1>7. CASE SetIdle(w) BY <1>7 DEF SetIdle
  <1>8. CASE TakeWakeup(w) BY <1>8 DEF TakeWakeup
  <1>9. CASE ParkCheckStop(w) BY <1>9 DEF ParkCheckStop
  <1>10. CASE WaitReturns(w) BY <1>10 DEF WaitReturns
  <1>11. CASE ClearIdle(w) BY <1>11 DEF ClearIdle
  <1>12. QED
    BY <1>1, <1>2, <1>3, <1>4, <1>5, <1>6, <1>7, <1>8, <1>9, <1>10, <1>11
       DEF Entry

\* So does a step of the control thread.
LEMMA ControlIInv == ASSUME IInv, Control PROVE IInv'
  <1> USE PlanAssumption
          DEF IInv, TypeOK, IdleMeansParked, PausedInv, PlanInv, First,
              threadVars, flagVars, planVars, ctlVars
  <1>1. CASE BuildEngine BY <1>1 DEF BuildEngine
  <1>2. CASE StartEngine BY <1>2 DEF StartEngine
  <1>3. CASE SetStreaming BY <1>3 DEF SetStreaming, NewRound
  <1>4. CASE StopEngine BY <1>4 DEF StopEngine
  <1>5. CASE AddBegin BY <1>5 DEF AddBegin
  <1>6. CASE AddEnd BY <1>6 DEF AddEnd
  <1>7. CASE ResumeOrgan BY <1>7 DEF ResumeOrgan
  <1>8. CASE DestroyEngine BY <1>8 DEF DestroyEngine
  <1>9. CASE Clear BY <1>9 DEF Clear
  <1>10. ASSUME NEW w \in Workers, WaitForIdle(w) PROVE IInv'
    BY <1>10 DEF WaitForIdle
  <1>11. ASSUME NEW w \in Workers, MarkForStop(w) PROVE IInv'
    BY <1>11 DEF MarkForStop
  <1>12. ASSUME NEW w \in Workers, WakeForStop(w) PROVE IInv'
    BY <1>12 DEF WakeForStop
  <1>13. ASSUME NEW w \in Workers, Join(w) PROVE IInv'
    BY <1>13 DEF Join
  <1>14. QED
    BY <1>1, <1>2, <1>3, <1>4, <1>5, <1>6, <1>7, <1>8, <1>9, <1>10, <1>11,
       <1>12, <1>13 DEF Control

LEMMA NextIInv == IInv /\ [Next]_vars => IInv'
  <1> SUFFICES ASSUME IInv, [Next]_vars PROVE IInv'
    OBVIOUS
  <1>1. ASSUME NEW w \in Workers, Entry(w) PROVE IInv'
    BY <1>1, EntryIInv
  <1>2. ASSUME NEW w \in Workers, Wakeup(w) PROVE IInv'
    BY <1>2 DEF Wakeup, IInv, TypeOK, IdleMeansParked, PausedInv, PlanInv,
                threadVars, planVars, First
  <1>3. CASE Control
    BY <1>3, ControlIInv
  <1>4. CASE PeriodBoundary
    BY <1>4 DEF PeriodBoundary, NewRound, IInv, TypeOK, IdleMeansParked,
                PausedInv, PlanInv, threadVars, flagVars
  <1>5. CASE UNCHANGED vars
    BY <1>5 DEF vars, threadVars, flagVars, planVars, ctlVars,
                IInv, TypeOK, IdleMeansParked, PausedInv, PlanInv
  <1>6. QED
    BY <1>1, <1>2, <1>3, <1>4, <1>5 DEF Next

THEOREM Invariant == Spec => []IInv
  BY InitIInv, NextIInv, PTL DEF Spec

\* Every variable of the scheduler threads keeps its type.
THEOREM TypeCorrect == Spec => []TypeOK
  <1>1. IInv => TypeOK
    BY DEF IInv
  <1>2. QED
    BY <1>1, Invariant, PTL

\* Whatever the number of workers, StopEngine() leaves none of them inside a
\* task, until StartEngine().
THEOREM QuiescentAlways == Spec => []Quiescent
  <1>1. IInv => Quiescent
    BY DEF IInv, PausedInv, Quiescent
  <1>2. QED
    BY <1>1, Invariant, PTL

\* GetNextTask() never dereferences outside m_Tasks nor while it is rebuilt.
THEOREM PlanSafeAlways == Spec => []PlanSafe
  <1>1. IInv => PlanSafe
    BY DEF IInv, PausedInv, PlanInv, PlanSafe
  <1>2. QED
    BY <1>1, Invariant, PTL

==============================================================================
