----------------------- MODULE WindchestGroupTaskProofs -----------------------
(***************************************************************************)
(* The round of one cell, for any set of workers and samplers: the         *)
(* inductive invariant behind RoundAtRest, MixedOnce and DoneIsComplete,   *)
(* its proof, and the proof that every step is one of MixRound or none.    *)
(***************************************************************************)
EXTENDS WindchestGroupTask, FiniteSetTheorems, TLAPS

----------------------------------------------------------------------------
(* What holds in every round, however it was opened *)

\* What a thread holds, depending on where it is.
HandInv  == \A t \in Threads : hand[t] # None <=> pc[t] = "hold"
ShareInv == \A t \in Threads : pc[t] \notin Participating => local[t] = {}
OutInv   == \A t \in Threads : /\ pc[t] = "out" => ~ensuring[t]
                               /\ stale[t] => ensuring[t]

\* A list that is not empty has somebody to empty it: a thread stops taking only
\* when it finds the list empty, and whoever fills the list takes from it.
WorkInv == getList # {} => \E t \in Threads : pc[t] \in {"process", "hold"}

\* The owner is in EnsureBufferReady() only to complete the round, and nobody but
\* the owner changes the round number it captured.
OwnerInv ==
  /\ owner # "complete" => pc[Owner] = "out"
  /\ owner = "complete" =>
       /\ ~stale[Owner]
       /\ pc[Owner] # "out" => ensuring[Owner]

BaseInv == TypeOK /\ HandInv /\ ShareInv /\ OutInv /\ WorkInv /\ OwnerInv

----------------------------------------------------------------------------
(* What holds in a round that was opened with nobody mixing *)

\* m_ActiveCount counts the threads between fetch_add and fetch_sub, so the one
\* that decrements it to zero really is the last.
CountInv == activeCount = Cardinality(Participants)

\* A thread that merges has seen the list empty, and it stays empty for the round.
MergeInv == \A t \in Threads : pc[t] = "merge" => getList = {}

\* No thread mixes, and nothing is left to mix, outside a round.
Idle == getList = {} /\ \A t \in Threads : pc[t] \notin Participating

RoundInv ==
  /\ runState \in {NOT_STARTED, DONE} =>
       Idle /\ \A t \in Threads : pc[t] # "publish"
  /\ runState \in {IN_PROGRESS, PARTLY_DONE} =>
       \E t \in Threads : pc[t] \in Participating \union {"publish"}
  /\ runState = NOT_STARTED => claimed = {} /\ dropped = {}
  /\ \A t \in Threads : pc[t] = "publish" =>
       /\ runState = PARTLY_DONE
       /\ Idle
       /\ \A u \in Threads \ {t} : pc[u] # "publish"
  /\ mixed = IF runState = DONE THEN 1 ELSE 0

\* Where a sampler of this round is.
Somewhere(s) ==
  \/ s \in getList \union dropped
  \/ \E t \in Threads : s = hand[t] \/ s \in local[t]
  \/ runState # IN_PROGRESS /\ s \in shared

\* No sampler is lost, and none comes from outside the round.
Coverage ==
  runState # NOT_STARTED => \A s \in Samplers : s \in claimed <=> Somewhere(s)

\* The owner leaves EnsureBufferReady() with the round published, and renews it
\* then, unless it is the start of streaming that renews it.
DoneInv ==
  /\ owner = "complete" /\ pc[Owner] = "out" => runState = DONE
  /\ owner \in {"advance", "renew"} /\ ~starting => runState = DONE

StrictInv == CountInv /\ MergeInv /\ RoundInv /\ Coverage /\ DoneInv

IInv == BaseInv /\ (~overtaken => StrictInv)

----------------------------------------------------------------------------
(* Counting the participants *)

LEMMA ThreadsFacts ==
  /\ IsFiniteSet(Threads)
  /\ Owner \in Threads
  /\ \A t \in Workers : t \in Threads /\ t # Owner
  <1>1. IsFiniteSet(Workers \union {Owner})
    BY ThreadsAssumption, FS_AddElement
  <1>2. QED
    BY <1>1, ThreadsAssumption DEF Threads

LEMMA CountRange ==
  ASSUME NEW p
  PROVE  /\ IsFiniteSet({t \in Threads : p[t] \in Participating})
         /\ Cardinality({t \in Threads : p[t] \in Participating}) \in 0..Cardinality(Threads)
  <1> DEFINE P == {t \in Threads : p[t] \in Participating}
  <1>1. IsFiniteSet(P) /\ Cardinality(P) <= Cardinality(Threads)
    BY ThreadsFacts, FS_Subset
  <1>2. Cardinality(P) \in Nat /\ Cardinality(Threads) \in Nat
    BY <1>1, ThreadsFacts, FS_CardinalityType
  <1>3. QED
    BY <1>1, <1>2

\* A thread that moves without crossing fetch_add or fetch_sub changes nothing.
LEMMA CountSame ==
  ASSUME CountInv, activeCount' = activeCount,
         \A t \in Threads : pc'[t] \in Participating <=> pc[t] \in Participating
  PROVE  CountInv'
  <1>1. Participants' = Participants
    BY DEF Participants
  <1>2. QED
    BY <1>1 DEF CountInv

\* The counter does not wrap: it never counts more threads than there are.
LEMMA Modulo ==
  /\ CountMod \in Nat /\ Cardinality(Threads) \in Nat
  /\ Cardinality(Threads) < CountMod
  /\ \A n \in Int : n % CountMod \in 0..(CountMod - 1)
  /\ \A n \in 0..Cardinality(Threads) : n % CountMod = n
  <1>1. CountMod \in Nat /\ Cardinality(Threads) \in Nat /\ Cardinality(Threads) < CountMod
    BY CountAssumption, ThreadsFacts, FS_CardinalityType
  <1>2. \A n \in Int : n % CountMod \in 0..(CountMod - 1)
    BY <1>1
  <1>3. \A n \in 0..(CountMod - 1) : n % CountMod = n
    BY <1>1
  <1>4. QED
    BY <1>1, <1>2, <1>3

LEMMA CountJoin ==
  ASSUME CountInv, activeCount' = (activeCount + 1) % CountMod, NEW t \in Threads,
         pc[t] \notin Participating, pc'[t] \in Participating,
         \A u \in Threads \ {t} : pc'[u] = pc[u]
  PROVE  CountInv'
  <1>1. Participants' = Participants \union {t} /\ t \notin Participants
    BY DEF Participants
  <1>2. IsFiniteSet(Participants) /\ Cardinality(Participants) \in Nat
    BY CountRange DEF Participants
  <1>3. Cardinality(Participants') = Cardinality(Participants) + 1
    BY <1>1, <1>2, FS_AddElement
  <1>4. Cardinality(Participants') \in 0..Cardinality(Threads)
    BY CountRange DEF Participants
  <1>5. QED
    BY <1>3, <1>4, Modulo DEF CountInv

LEMMA CountLeave ==
  ASSUME CountInv, activeCount' = (activeCount - 1) % CountMod, NEW t \in Threads,
         pc[t] \in Participating, pc'[t] \notin Participating,
         \A u \in Threads \ {t} : pc'[u] = pc[u]
  PROVE  CountInv'
  <1>1. Participants' = Participants \ {t} /\ t \in Participants
    BY DEF Participants
  <1>2. IsFiniteSet(Participants) /\ Cardinality(Participants) \in Nat
    BY CountRange DEF Participants
  <1>3. Cardinality(Participants') = Cardinality(Participants) - 1
    BY <1>1, <1>2, FS_RemoveElement
  <1>4. Cardinality(Participants') \in 0..Cardinality(Threads)
    BY CountRange DEF Participants
  <1>5. QED
    BY <1>3, <1>4, Modulo DEF CountInv

\* fetch_sub(1) <= 1 tells exactly the last participant.
LEMMA LastParticipant ==
  ASSUME CountInv, NEW t \in Threads, pc[t] \in Participating, activeCount <= 1
  PROVE  \A u \in Threads \ {t} : pc[u] \notin Participating
  <1> DEFINE Rest == Participants \ {t}
  <1>1. IsFiniteSet(Participants) /\ t \in Participants
    BY CountRange DEF Participants
  <1>2. IsFiniteSet(Rest) /\ Cardinality(Rest) = Cardinality(Participants) - 1
    BY <1>1, FS_RemoveElement
  <1>3. Cardinality(Rest) \in Nat /\ Cardinality(Participants) \in Nat
    BY <1>1, <1>2, FS_CardinalityType
  <1>4. Cardinality(Rest) = 0
    BY <1>2, <1>3 DEF CountInv
  <1>5. Rest = {}
    BY <1>2, <1>4, FS_EmptySet
  <1>6. QED
    BY <1>5 DEF Participants

LEMMA NotLastParticipant ==
  ASSUME CountInv, NEW t \in Threads, pc[t] \in Participating, ~(activeCount <= 1)
  PROVE  \E u \in Threads \ {t} : pc[u] \in Participating
  <1>1. IsFiniteSet(Participants)
    BY CountRange DEF Participants
  <1>2. Participants # {t}
    BY <1>1, FS_Singleton DEF CountInv
  <1>3. QED
    BY <1>2 DEF Participants

----------------------------------------------------------------------------
(* The invariant is inductive *)

LEMMA InitIInv == Init => IInv
  <1> SUFFICES ASSUME Init PROVE IInv
    OBVIOUS
  <1> USE DEF Init
  <1>1. TypeOK
    <2>1. activeCount \in 0..(CountMod - 1)
      BY Modulo
    <2>2. /\ toComplete \in BOOLEAN
          /\ ensuring \in [Threads -> BOOLEAN]
          /\ stale \in [Threads -> BOOLEAN]
          /\ starting \in BOOLEAN /\ overtaken \in BOOLEAN
      OBVIOUS
    <2>3. /\ pc \in [Threads -> PCs]
          /\ hand \in [Threads -> Samplers \union {None}]
          /\ local \in [Threads -> SUBSET Samplers]
      BY DEF PCs
    <2>4. QED
      BY <2>1, <2>2, <2>3 DEF TypeOK, NOT_STARTED
  <1>2. BaseInv
    BY <1>1, ThreadsFacts DEF BaseInv, HandInv, ShareInv, OutInv, WorkInv, OwnerInv
  <1>3. CountInv
    <2>1. Participants = {}
      BY DEF Participants, Participating
    <2>2. QED
      BY <2>1, FS_EmptySet DEF CountInv
  <1>4. MergeInv /\ RoundInv /\ Coverage /\ DoneInv
    BY DEF MergeInv, RoundInv, Idle, Coverage, DoneInv, Participating,
           NOT_STARTED, IN_PROGRESS, PARTLY_DONE, DONE
  <1>5. QED
    BY <1>2, <1>3, <1>4 DEF IInv, StrictInv

\* The steps that only move a thread.
Move(t) ==
  \/ EnterRun(t) \/ EnterEnsure(t) \/ FastPath(t)
  \/ Return(t) \/ CheckWait(t) \/ WaitTimeout(t)

\* The steps of the owner that leave the round as it is, and Add().
Around == CompleteRound \/ Completed \/ AdvanceRound \/ Restart \/ Add

\* What holds in every round is preserved by every step.
LEMMA NextBase == ASSUME BaseInv, [Next]_vars PROVE BaseInv'
  <1> USE ThreadsFacts, NoneAssumption
      DEF BaseInv, TypeOK, Goto, listVars, roundVars, threadVars, openVars, histVars,
          PCs, RunPCs, EnsurePCs, Participating, NOT_STARTED, IN_PROGRESS, PARTLY_DONE, DONE
  <1>1. ASSUME NEW t \in Threads, Move(t) PROVE BaseInv'
    <2> USE <1>1 DEF Move, EnterRun, EnterEnsure, FastPath, Return, CheckWait, WaitTimeout, Leave, AfterRun
    <2>1. TypeOK'
      OBVIOUS
    <2>2. HandInv' /\ ShareInv'
      BY DEF HandInv, ShareInv
    <2>3. OutInv'
      BY DEF OutInv
    <2>4. WorkInv'
      BY DEF WorkInv
    <2>5. OwnerInv'
      BY DEF OwnerInv, OutInv
    <2>6. QED
      BY <2>1, <2>2, <2>3, <2>4, <2>5
  <1>2. ASSUME NEW t \in Threads, Begin(t) PROVE BaseInv'
    <2> USE <1>2 DEF Begin, AfterRun
    <2>1. TypeOK'
      <3>1. activeCount' \in 0..(CountMod - 1)
        BY Modulo
      <3>2. QED
        BY <3>1
    <2>2. HandInv' /\ ShareInv'
      BY DEF HandInv, ShareInv
    <2>3. OutInv'
      BY DEF OutInv
    <2>4. WorkInv'
      BY DEF WorkInv
    <2>5. OwnerInv'
      BY DEF OwnerInv, OutInv
    <2>6. QED
      BY <2>1, <2>2, <2>3, <2>4, <2>5
  <1>3. ASSUME NEW t \in Threads, Take(t) PROVE BaseInv'
    <2> USE <1>3 DEF Take
    <2>1. TypeOK'
      OBVIOUS
    <2>2. HandInv' /\ ShareInv'
      BY DEF HandInv, ShareInv
    <2>3. OutInv'
      BY DEF OutInv
    <2>4. WorkInv'
      BY DEF WorkInv
    <2>5. OwnerInv'
      BY DEF OwnerInv, OutInv
    <2>6. QED
      BY <2>1, <2>2, <2>3, <2>4, <2>5
  <1>4. ASSUME NEW t \in Threads, Mix(t) PROVE BaseInv'
    <2> USE <1>4 DEF Mix
    <2>1. TypeOK'
      BY DEF HandInv
    <2>2. HandInv' /\ ShareInv'
      BY DEF HandInv, ShareInv
    <2>3. OutInv'
      BY DEF OutInv
    <2>4. WorkInv'
      BY DEF WorkInv
    <2>5. OwnerInv'
      BY DEF OwnerInv, OutInv
    <2>6. QED
      BY <2>1, <2>2, <2>3, <2>4, <2>5
  <1>5. ASSUME NEW t \in Threads, DropOld(t) PROVE BaseInv'
    <2> USE <1>5 DEF DropOld
    <2>1. TypeOK'
      BY DEF HandInv
    <2>2. HandInv' /\ ShareInv'
      BY DEF HandInv, ShareInv
    <2>3. OutInv'
      BY DEF OutInv
    <2>4. WorkInv'
      BY DEF WorkInv
    <2>5. OwnerInv'
      BY DEF OwnerInv, OutInv
    <2>6. QED
      BY <2>1, <2>2, <2>3, <2>4, <2>5
  <1>6. ASSUME NEW t \in Threads, Merge(t) PROVE BaseInv'
    <2> USE <1>6 DEF Merge, AfterRun
    <2>1. TypeOK'
      <3>1. activeCount' \in 0..(CountMod - 1)
        BY Modulo
      <3>2. QED
        BY <3>1
    <2>2. HandInv' /\ ShareInv'
      BY DEF HandInv, ShareInv
    <2>3. OutInv'
      BY DEF OutInv
    <2>4. WorkInv'
      BY DEF WorkInv
    <2>5. OwnerInv'
      BY DEF OwnerInv, OutInv
    <2>6. QED
      BY <2>1, <2>2, <2>3, <2>4, <2>5
  <1>7. ASSUME NEW t \in Threads, Publish(t) PROVE BaseInv'
    <2> USE <1>7 DEF Publish, Broadcast, AfterRun
    <2>1. TypeOK'
      OBVIOUS
    <2>2. HandInv' /\ ShareInv'
      BY DEF HandInv, ShareInv
    <2>3. OutInv'
      BY DEF OutInv
    <2>4. WorkInv'
      BY DEF WorkInv
    <2>5. OwnerInv'
      BY DEF OwnerInv, OutInv
    <2>6. QED
      BY <2>1, <2>2, <2>3, <2>4, <2>5
  <1>8. CASE Around
    <2> USE <1>8 DEF Around, CompleteRound, Completed, AdvanceRound, Restart, Add
    <2>1. TypeOK'
      OBVIOUS
    <2>2. HandInv' /\ ShareInv'
      BY DEF HandInv, ShareInv, OwnerInv
    <2>3. OutInv'
      BY DEF OutInv
    <2>4. WorkInv'
      BY DEF WorkInv, OwnerInv
    <2>5. OwnerInv'
      BY DEF OwnerInv, OutInv
    <2>6. QED
      BY <2>1, <2>2, <2>3, <2>4, <2>5
  <1>9. CASE NewRound
    <2> USE <1>9 DEF NewRound, Broadcast
    <2>1. TypeOK'
      <3>1. activeCount' \in 0..(CountMod - 1)
        BY Modulo
      <3>2. pc' \in [Threads -> PCs]
        OBVIOUS
      <3>3. starting' \in BOOLEAN /\ overtaken' \in BOOLEAN /\ mixed' \in Nat
        OBVIOUS
      <3>4. QED
        BY <3>1, <3>2, <3>3
    <2>2. HandInv' /\ ShareInv'
      BY DEF HandInv, ShareInv, OwnerInv
    <2>3. OutInv'
      BY DEF OutInv
    <2>4. WorkInv'
      BY DEF WorkInv, OwnerInv
    <2>5. OwnerInv'
      BY DEF OwnerInv, OutInv
    <2>6. QED
      BY <2>1, <2>2, <2>3, <2>4, <2>5
  <1>10. CASE UNCHANGED vars
    BY <1>10 DEF vars, HandInv, ShareInv, OutInv, WorkInv, OwnerInv
  <1>11. QED
    BY <1>1, <1>2, <1>3, <1>4, <1>5, <1>6, <1>7, <1>8, <1>9, <1>10 DEF Next, OwnerStep, TaskStep, Move, Around

\* Moving a thread disturbs nothing a participant relies on.
LEMMA MoveStrict ==
  ASSUME BaseInv, StrictInv, NEW t \in Threads, Move(t) PROVE StrictInv'
  <1> USE ThreadsFacts, NoneAssumption
      DEF BaseInv, StrictInv, TypeOK, Goto, listVars, roundVars, threadVars, openVars, histVars,
          PCs, RunPCs, EnsurePCs, Participating, NOT_STARTED, IN_PROGRESS, PARTLY_DONE, DONE,
          Move, EnterRun, EnterEnsure, FastPath, Return, CheckWait, WaitTimeout, Leave, AfterRun
  <1>1. CountInv'
    BY CountSame
  <1>2. MergeInv'
    BY DEF MergeInv, RoundInv, Idle
  <1>3. RoundInv'
    BY DEF RoundInv, Idle
  <1>4. Coverage'
    BY DEF Coverage, Somewhere, HandInv, ShareInv, RoundInv, Idle
  <1>5. DoneInv'
    BY DEF DoneInv, OwnerInv, OutInv, RoundInv, Idle
  <1>6. QED
    BY <1>1, <1>2, <1>3, <1>4, <1>5

\* The claim empties the queue into a list nobody else works on yet.
LEMMA BeginStrict ==
  ASSUME BaseInv, StrictInv, NEW t \in Threads, Begin(t) PROVE StrictInv'
  <1> USE ThreadsFacts, NoneAssumption
      DEF BaseInv, StrictInv, TypeOK, Goto, listVars, roundVars, threadVars, openVars, histVars,
          PCs, RunPCs, EnsurePCs, Participating, NOT_STARTED, IN_PROGRESS, PARTLY_DONE, DONE,
          Begin, AfterRun
  <1>1. CountInv'
    <2>1. CASE runState = NOT_STARTED \/ getList # {}
      <3>1. pc[t] \notin Participating /\ pc'[t] \in Participating
        BY <2>1
      <3>2. activeCount' = (activeCount + 1) % CountMod
        BY <2>1
      <3>3. QED
        BY <3>1, <3>2, CountJoin
    <2>2. CASE runState # NOT_STARTED /\ getList = {}
      BY <2>2, CountSame
    <2>3. QED
      BY <2>1, <2>2
  <1>2. MergeInv'
    BY DEF MergeInv, RoundInv, Idle
  <1>3. RoundInv'
    BY DEF RoundInv, Idle
  <1>4. Coverage'
    BY DEF Coverage, Somewhere, HandInv, ShareInv, RoundInv, Idle
  <1>5. DoneInv'
    BY DEF DoneInv, OwnerInv, OutInv, RoundInv, Idle
  <1>6. QED
    BY <1>1, <1>2, <1>3, <1>4, <1>5

\* A taken sampler is in its thread's hand.
LEMMA TakeStrict ==
  ASSUME BaseInv, StrictInv, NEW t \in Threads, Take(t) PROVE StrictInv'
  <1> USE ThreadsFacts, NoneAssumption
      DEF BaseInv, StrictInv, TypeOK, Goto, listVars, roundVars, threadVars, openVars, histVars,
          PCs, RunPCs, EnsurePCs, Participating, NOT_STARTED, IN_PROGRESS, PARTLY_DONE, DONE,
          Take
  <1>1. CountInv'
    BY CountSame
  <1>2. MergeInv'
    BY DEF MergeInv, RoundInv, Idle
  <1>3. RoundInv'
    BY DEF RoundInv, Idle
  <1>4. Coverage'
    BY DEF Coverage, Somewhere, HandInv, ShareInv, RoundInv, Idle
  <1>5. DoneInv'
    BY DEF DoneInv, OwnerInv, OutInv, RoundInv, Idle
  <1>6. QED
    BY <1>1, <1>2, <1>3, <1>4, <1>5

\* A mixed sampler is in its thread's share.
LEMMA MixStrict ==
  ASSUME BaseInv, StrictInv, NEW t \in Threads, Mix(t) PROVE StrictInv'
  <1> USE ThreadsFacts, NoneAssumption
      DEF BaseInv, StrictInv, TypeOK, Goto, listVars, roundVars, threadVars, openVars, histVars,
          PCs, RunPCs, EnsurePCs, Participating, NOT_STARTED, IN_PROGRESS, PARTLY_DONE, DONE,
          Mix
  <1>1. CountInv'
    BY CountSame
  <1>2. MergeInv'
    BY DEF MergeInv, RoundInv, Idle
  <1>3. RoundInv'
    BY DEF RoundInv, Idle
  <1>4. Coverage'
    BY DEF Coverage, Somewhere, HandInv, ShareInv, RoundInv, Idle
  <1>5. DoneInv'
    BY DEF DoneInv, OwnerInv, OutInv, RoundInv, Idle
  <1>6. QED
    BY <1>1, <1>2, <1>3, <1>4, <1>5

\* A dropped sampler is accounted for as dropped.
LEMMA DropOldStrict ==
  ASSUME BaseInv, StrictInv, NEW t \in Threads, DropOld(t) PROVE StrictInv'
  <1> USE ThreadsFacts, NoneAssumption
      DEF BaseInv, StrictInv, TypeOK, Goto, listVars, roundVars, threadVars, openVars, histVars,
          PCs, RunPCs, EnsurePCs, Participating, NOT_STARTED, IN_PROGRESS, PARTLY_DONE, DONE,
          DropOld
  <1>1. CountInv'
    BY CountSame
  <1>2. MergeInv'
    BY DEF MergeInv, RoundInv, Idle
  <1>3. RoundInv'
    BY DEF RoundInv, Idle
  <1>4. Coverage'
    BY DEF Coverage, Somewhere, HandInv, ShareInv, RoundInv, Idle
  <1>5. DoneInv'
    BY DEF DoneInv, OwnerInv, OutInv, RoundInv, Idle
  <1>6. QED
    BY <1>1, <1>2, <1>3, <1>4, <1>5

\* A merged share is in the buffer, and the last one to merge leaves nobody behind.
LEMMA MergeStrict ==
  ASSUME BaseInv, StrictInv, NEW t \in Threads, Merge(t) PROVE StrictInv'
  <1> USE ThreadsFacts, NoneAssumption
      DEF BaseInv, StrictInv, TypeOK, Goto, listVars, roundVars, threadVars, openVars, histVars,
          PCs, RunPCs, EnsurePCs, Participating, NOT_STARTED, IN_PROGRESS, PARTLY_DONE, DONE,
          Merge, AfterRun
  <1>1. CountInv'
    BY CountLeave
  <1>2. MergeInv'
    BY DEF MergeInv, RoundInv, Idle
  <1>3. RoundInv'
    <2>1. runState \in {IN_PROGRESS, PARTLY_DONE} /\ runState' = PARTLY_DONE
      BY DEF RoundInv, Idle
    <2>2. getList' = {} /\ mixed' = 0
      BY <2>1 DEF RoundInv, MergeInv
    <2>3. \A u \in Threads : pc[u] # "publish"
      BY DEF MutexFree
    <2>4. CASE activeCount <= 1
      <3>1. \A u \in Threads : pc'[u] \notin Participating
        BY <2>4, LastParticipant
      <3>2. pc'[t] = "publish" /\ \A u \in Threads \ {t} : pc'[u] # "publish"
        BY <2>3, <2>4
      <3>3. QED
        BY <2>1, <2>2, <3>1, <3>2 DEF RoundInv, Idle
    <2>5. CASE ~(activeCount <= 1)
      <3>1. \E u \in Threads \ {t} : pc[u] \in Participating
        BY <2>5, NotLastParticipant
      <3>2. \E u \in Threads : pc'[u] \in Participating
        BY <3>1
      <3>3. \A u \in Threads : pc'[u] # "publish"
        BY <2>3, <2>5
      <3>4. QED
        BY <2>1, <2>2, <3>2, <3>3 DEF RoundInv
    <2>6. QED
      BY <2>4, <2>5
  <1>4. Coverage'
    BY DEF Coverage, Somewhere, HandInv, ShareInv, RoundInv, Idle
  <1>5. DoneInv'
    BY DEF DoneInv, OwnerInv, OutInv, RoundInv, Idle
  <1>6. QED
    BY <1>1, <1>2, <1>3, <1>4, <1>5

\* A published round has nothing outside the buffer.
LEMMA PublishStrict ==
  ASSUME BaseInv, StrictInv, NEW t \in Threads, Publish(t) PROVE StrictInv'
  <1> USE ThreadsFacts, NoneAssumption
      DEF BaseInv, StrictInv, TypeOK, Goto, listVars, roundVars, threadVars, openVars, histVars,
          PCs, RunPCs, EnsurePCs, Participating, NOT_STARTED, IN_PROGRESS, PARTLY_DONE, DONE,
          Publish, Broadcast, AfterRun
  <1>1. CountInv'
    BY CountSame
  <1>2. MergeInv'
    BY DEF MergeInv, RoundInv, Idle
  <1>3. RoundInv'
    BY DEF RoundInv, Idle
  <1>4. Coverage'
    BY DEF Coverage, Somewhere, HandInv, ShareInv, RoundInv, Idle
  <1>5. DoneInv'
    BY DEF DoneInv, OwnerInv, OutInv, RoundInv, Idle
  <1>6. QED
    BY <1>1, <1>2, <1>3, <1>4, <1>5

\* The owner's own steps, and Add().
LEMMA AroundStrict ==
  ASSUME BaseInv, StrictInv, Around PROVE StrictInv'
  <1> USE ThreadsFacts, NoneAssumption
      DEF BaseInv, StrictInv, TypeOK, Goto, listVars, roundVars, threadVars, openVars, histVars,
          PCs, RunPCs, EnsurePCs, Participating, NOT_STARTED, IN_PROGRESS, PARTLY_DONE, DONE,
          Around, CompleteRound, Completed, AdvanceRound, Restart, Add
  <1>1. CountInv'
    BY CountSame DEF OwnerInv
  <1>2. MergeInv'
    BY DEF MergeInv, RoundInv, Idle, OwnerInv
  <1>3. RoundInv'
    BY DEF RoundInv, Idle, OwnerInv
  <1>4. Coverage'
    BY DEF Coverage, Somewhere, HandInv, ShareInv, RoundInv, Idle
  <1>5. DoneInv'
    BY DEF DoneInv, OwnerInv, OutInv, RoundInv, Idle
  <1>6. QED
    BY <1>1, <1>2, <1>3, <1>4, <1>5

\* A round that is opened with nobody mixing starts afresh, whatever went wrong in
\* the last one.
LEMMA NewRoundStrict ==
  ASSUME BaseInv, NewRound, ~overtaken' PROVE StrictInv'
  <1> USE ThreadsFacts
      DEF BaseInv, NewRound, MutexFree, Broadcast, Participating,
          NOT_STARTED, IN_PROGRESS, PARTLY_DONE, DONE
  <1>1. \A t \in Threads : pc[t] \notin Participating /\ pc'[t] \notin Participating \union {"publish"}
    BY DEF Participants, TypeOK
  <1>2. CountInv'
    <2>1. Participants' = {}
      BY <1>1 DEF Participants
    <2>2. QED
      BY <2>1, FS_EmptySet DEF CountInv
  <1>3. getList' = {}
    BY <1>1 DEF WorkInv, listVars
  <1>4. MergeInv' /\ RoundInv' /\ Coverage' /\ DoneInv'
    BY <1>1, <1>3 DEF MergeInv, RoundInv, Idle, Coverage, DoneInv
  <1>5. QED
    BY <1>2, <1>4 DEF StrictInv

LEMMA OvertakenByNewRound == ASSUME [Next]_vars, ~NewRound PROVE overtaken' = overtaken
  BY DEF Next, OwnerStep, TaskStep, EnterRun, EnterEnsure, FastPath, Begin, Take, Mix,
     DropOld, Merge, Publish, Return, CheckWait, WaitTimeout, CompleteRound, Completed,
     AdvanceRound, Restart, Add, histVars, openVars, vars

LEMMA NextIInv == IInv /\ [Next]_vars => IInv'
  <1> SUFFICES ASSUME IInv, [Next]_vars PROVE IInv'
    OBVIOUS
  <1>1. BaseInv /\ BaseInv'
    BY NextBase DEF IInv
  <1>2. ASSUME ~NewRound PROVE overtaken' = overtaken
    BY <1>2, OvertakenByNewRound
  <1>3. ASSUME ~overtaken' PROVE StrictInv'
    <2>1. CASE NewRound
      BY <1>1, <1>3, <2>1, NewRoundStrict
    <2>2. CASE ~NewRound
      <3>1. StrictInv
        BY <1>2, <1>3, <2>2 DEF IInv
      <3>2. ASSUME NEW t \in Threads, Move(t) PROVE StrictInv'
        BY <1>1, <3>1, <3>2, MoveStrict
      <3>3. ASSUME NEW t \in Threads, Begin(t) PROVE StrictInv'
        BY <1>1, <3>1, <3>3, BeginStrict
      <3>4. ASSUME NEW t \in Threads, Take(t) PROVE StrictInv'
        BY <1>1, <3>1, <3>4, TakeStrict
      <3>5. ASSUME NEW t \in Threads, Mix(t) PROVE StrictInv'
        BY <1>1, <3>1, <3>5, MixStrict
      <3>6. ASSUME NEW t \in Threads, DropOld(t) PROVE StrictInv'
        BY <1>1, <3>1, <3>6, DropOldStrict
      <3>7. ASSUME NEW t \in Threads, Merge(t) PROVE StrictInv'
        BY <1>1, <3>1, <3>7, MergeStrict
      <3>8. ASSUME NEW t \in Threads, Publish(t) PROVE StrictInv'
        BY <1>1, <3>1, <3>8, PublishStrict
      <3>9. CASE Around
        BY <1>1, <3>1, <3>9, AroundStrict
      <3>10. CASE UNCHANGED vars
        BY <3>1, <3>10 DEF vars, listVars, roundVars, threadVars, histVars, openVars,
                    StrictInv, CountInv, Participants, MergeInv, RoundInv, Idle,
                    Coverage, Somewhere, DoneInv
      <3>11. QED
        BY <2>2, <3>2, <3>3, <3>4, <3>5, <3>6, <3>7, <3>8, <3>9, <3>10
           DEF Next, OwnerStep, TaskStep, Move, Around
    <2>3. QED
      BY <2>1, <2>2
  <1>4. QED
    BY <1>1, <1>3 DEF IInv

\* The strengthened invariant holds in every behaviour, those that open a round
\* over threads that are mixing among them.
THEOREM Invariant == Spec => []IInv
  <1>1. QED
    BY InitIInv, NextIInv, PTL DEF Spec

----------------------------------------------------------------------------
(* What follows from it *)

\* Every variable keeps its type.
THEOREM TypeCorrect == Spec => []TypeOK
  <1>1. IInv => TypeOK
    BY DEF IInv, BaseInv
  <1>2. QED
    BY <1>1, Invariant, PTL

\* m_ActiveCount is the number of threads that are mixing, in every round that was
\* opened with nobody mixing.
THEOREM CountExactAlways == Spec => []CountExact
  <1>1. IInv => CountExact
    BY DEF IInv, StrictInv, CountInv, CountExact
  <1>2. QED
    BY <1>1, Invariant, PTL

\* Every round is opened with the assertions of DoNewRound() true, for any number of
\* workers and samplers, except the one that the start of streaming opens and the one
\* that follows a round opened over threads that were mixing.
THEOREM RoundAtRestAlways == Spec => []RoundAtRest
  <1>1. IInv => RoundAtRest
    <2> SUFFICES ASSUME IInv, owner = "renew", ~starting, ~overtaken PROVE AtRest
      BY DEF RoundAtRest
    <2>1. runState = DONE
      BY DEF IInv, StrictInv, DoneInv
    <2>2. Participants = {}
      BY <2>1 DEF IInv, StrictInv, RoundInv, Idle, Participants
    <2>3. activeCount = 0
      BY <2>2, FS_EmptySet DEF IInv, StrictInv, CountInv
    <2>4. QED
      BY <2>1, <2>2, <2>3 DEF AtRest
  <1>2. QED
    BY <1>1, Invariant, PTL

\* OnMixed() runs exactly once in a round that is published, unless the round was
\* opened over threads that were mixing.
THEOREM MixedOnceAlways == Spec => []MixedOnce
  <1>1. IInv => MixedOnce
    BY DEF IInv, StrictInv, RoundInv, MixedOnce
  <1>2. QED
    BY <1>1, Invariant, PTL

\* A published buffer holds what the round took over, except what was dropped, unless
\* the round was opened over threads that were mixing.
THEOREM DoneIsCompleteAlways == Spec => []DoneIsComplete
  <1>1. IInv => DoneIsComplete
    <2> SUFFICES ASSUME IInv, ~overtaken, runState = DONE
                 PROVE  /\ shared \union dropped = claimed
                        /\ getList = {}
                        /\ Participants = {}
      BY DEF DoneIsComplete
    <2>1. getList = {} /\ Participants = {}
      BY DEF IInv, StrictInv, RoundInv, Idle, Participants
    <2>2. \A t \in Threads : hand[t] = None /\ local[t] = {}
      BY <2>1 DEF IInv, BaseInv, HandInv, ShareInv, Participants, Participating
    <2>3. \A s \in Samplers : s \in claimed <=> s \in shared \union dropped
      BY <2>1, <2>2, NoneAssumption
         DEF IInv, StrictInv, Coverage, Somewhere, NOT_STARTED, IN_PROGRESS, DONE
    <2>4. QED
      BY <2>1, <2>3 DEF IInv, BaseInv, TypeOK
  <1>2. QED
    BY <1>1, Invariant, PTL

\* No sampler is in two places, so none is mixed twice in a round.
LEMMA NextNoDoubleMix ==
  ASSUME IInv, NoDoubleMix, [Next]_vars PROVE NoDoubleMix'
  <1> SUFFICES ASSUME ~overtaken' PROVE NoDoubleMix'
    BY DEF NoDoubleMix
  <1> USE DEF NoDoubleMix, Held, Merged, listVars, roundVars, threadVars, openVars, histVars,
              NOT_STARTED, IN_PROGRESS, PARTLY_DONE, DONE
  <1>1. ASSUME NEW t \in Threads, Move(t) PROVE NoDoubleMix'
    BY <1>1 DEF Move, EnterRun, EnterEnsure, FastPath, Return, CheckWait, WaitTimeout
  <1>2. ASSUME NEW t \in Threads, Begin(t) PROVE NoDoubleMix'
    BY <1>2 DEF Begin, IInv, BaseInv, StrictInv, TypeOK, HandInv, ShareInv, RoundInv, Idle,
                Participating
  <1>3. ASSUME NEW t \in Threads, Take(t) PROVE NoDoubleMix'
    BY <1>3 DEF Take, IInv, BaseInv, TypeOK
  <1>4. ASSUME NEW t \in Threads, Mix(t) PROVE NoDoubleMix'
    <2>1. NoDoubleMix /\ ~overtaken
      BY <1>4 DEF Mix
    <2>2. hand[t] \in Samplers
      BY <1>4 DEF Mix, IInv, BaseInv, TypeOK, HandInv
    <2>3. \A u \in Threads : Held(u)' = Held(u)
      BY <1>4, <2>2, NoneAssumption DEF Mix, IInv, BaseInv, TypeOK
    <2>4. getList' = getList /\ Merged' = Merged
      BY <1>4 DEF Mix
    <2>5. \A u \in Threads : hand'[u] \notin local'[u]
      <3>1. hand'[t] = None /\ local'[t] = local[t] \union {hand[t]}
        BY <1>4 DEF Mix, IInv, BaseInv, TypeOK
      <3>2. local[t] \subseteq Samplers
        BY DEF IInv, BaseInv, TypeOK
      <3>3. hand'[t] \notin local'[t]
        BY <2>2, <3>1, <3>2, NoneAssumption
      <3>4. \A u \in Threads \ {t} : hand'[u] = hand[u] /\ local'[u] = local[u]
        BY <1>4 DEF Mix, IInv, BaseInv, TypeOK
      <3>5. QED
        BY <2>1, <3>3, <3>4
    <2>6. QED
      BY <2>1, <2>3, <2>4, <2>5
  <1>5. ASSUME NEW t \in Threads, DropOld(t) PROVE NoDoubleMix'
    BY <1>5, NoneAssumption DEF DropOld, IInv, BaseInv, TypeOK
  <1>6. ASSUME NEW t \in Threads, Merge(t) PROVE NoDoubleMix'
    BY <1>6 DEF Merge, IInv, BaseInv, StrictInv, TypeOK, RoundInv, Idle, Participating
  <1>7. ASSUME NEW t \in Threads, Publish(t) PROVE NoDoubleMix'
    BY <1>7 DEF Publish, IInv, StrictInv, RoundInv
  <1>8. CASE Around
    BY <1>8 DEF Around, CompleteRound, Completed, AdvanceRound, Restart, Add
  <1>9. CASE NewRound
    <2>1. \A t \in Threads : pc[t] \notin Participating
      BY <1>9 DEF NewRound, Participants
    <2>2. getList = {} /\ \A t \in Threads : hand[t] = None /\ local[t] = {}
      BY <2>1, NoneAssumption DEF IInv, BaseInv, WorkInv, HandInv, ShareInv, Participating
    <2>3. QED
      BY <1>9, <2>2, NoneAssumption DEF NewRound
  <1>10. CASE UNCHANGED vars
    BY <1>10 DEF vars
  <1>11. QED
    BY <1>1, <1>2, <1>3, <1>4, <1>5, <1>6, <1>7, <1>8, <1>9, <1>10
       DEF Next, OwnerStep, TaskStep, Move, Around

\* No sampler is mixed twice in a round that was opened with nobody mixing.
THEOREM NoDoubleMixAlways == Spec => []NoDoubleMix
  <1>1. Init => NoDoubleMix
    BY DEF Init, NoDoubleMix, Held, Merged, NOT_STARTED, PARTLY_DONE, DONE
  <1>2. QED
    BY <1>1, NextNoDoubleMix, Invariant, PTL DEF Spec

----------------------------------------------------------------------------
(* Every step of the cell is a step of MixRound, or changes nothing in it *)

\* A step that leaves the queue, the phase and the batch alone, away from DONE.
LEMMA SilentStep ==
  ASSUME UNCHANGED <<putList, claimed, shared, overtaken>>, Phase' = Phase,
         runState = DONE <=> runState' = DONE
  PROVE  UNCHANGED Mixing!mixVars
  BY DEF Mixing!mixVars

LEMMA EnqueueStep ==
  ASSUME NEW s \in Samplers, putList' = putList \union {s},
         UNCHANGED <<runState, claimed, shared>>
  PROVE  Mixing!Enqueue
  BY DEF Mixing!Enqueue, Phase

\* A step inside a round that was opened with nobody mixing.
LEMMA RoundStep ==
  ASSUME IInv, IInv', Next, ~NewRound, ~overtaken, ~overtaken'
  PROVE  Mixing!Enqueue \/ Mixing!Claim \/ Mixing!Publish \/ UNCHANGED Mixing!mixVars
  <1> USE DEF listVars, roundVars, threadVars, openVars, histVars, IInv
  <1>1. ASSUME NEW t \in Threads, Move(t) \/ Take(t) \/ DropOld(t)
        PROVE  UNCHANGED Mixing!mixVars
    BY <1>1, SilentStep DEF Move, EnterRun, EnterEnsure, FastPath, Return, CheckWait,
       WaitTimeout, Take, DropOld, Phase
  <1>2. ASSUME NEW t \in Threads, Begin(t)
        PROVE  Mixing!Claim \/ UNCHANGED Mixing!mixVars
    <2>1. CASE runState = NOT_STARTED
      BY <1>2, <2>1 DEF Begin, Mixing!Claim, Phase, StrictInv, RoundInv,
         NOT_STARTED, IN_PROGRESS, DONE
    <2>2. CASE runState # NOT_STARTED
      BY <1>2, <2>2, SilentStep DEF Begin, Phase
    <2>3. QED
      BY <2>1, <2>2
  <1>3. ASSUME NEW t \in Threads, Mix(t)
        PROVE  Mixing!Enqueue \/ UNCHANGED Mixing!mixVars
    <2>1. hand[t] \in Samplers
      BY <1>3 DEF Mix, BaseInv, TypeOK, HandInv
    <2>2. CASE putList' = putList
      BY <1>3, <2>2, SilentStep DEF Mix, Phase
    <2>3. CASE putList' = putList \union {hand[t]}
      BY <1>3, <2>1, <2>3, EnqueueStep DEF Mix
    <2>4. QED
      BY <1>3, <2>2, <2>3 DEF Mix
  <1>4. ASSUME NEW t \in Threads, Merge(t)
        PROVE  UNCHANGED Mixing!mixVars
    <2>1. runState \in {IN_PROGRESS, PARTLY_DONE}
      BY <1>4 DEF Merge, BaseInv, StrictInv, TypeOK, RoundInv, Idle, Participating
    <2>2. runState' \in {IN_PROGRESS, PARTLY_DONE}
      BY <1>4, <2>1 DEF Merge
    <2>3. QED
      BY <1>4, <2>1, <2>2 DEF Merge, Phase, Mixing!mixVars,
         NOT_STARTED, IN_PROGRESS, PARTLY_DONE, DONE
  <1>5. ASSUME NEW t \in Threads, Publish(t)
        PROVE  Mixing!Publish
    <2>1. runState = PARTLY_DONE /\ runState' = DONE
      BY <1>5 DEF Publish, StrictInv, RoundInv
    <2>2. shared' \subseteq claimed'
      BY <2>1 DEF BaseInv, StrictInv, Coverage, Somewhere, TypeOK,
         NOT_STARTED, IN_PROGRESS, DONE
    <2>3. QED
      BY <1>5, <2>1, <2>2 DEF Publish, Mixing!Publish, Phase,
         NOT_STARTED, PARTLY_DONE, DONE
  <1>6. CASE CompleteRound \/ Completed \/ AdvanceRound \/ Restart
    BY <1>6, SilentStep DEF CompleteRound, Completed, AdvanceRound, Restart, Phase
  <1>7. CASE Add
    BY <1>7, EnqueueStep DEF Add
  <1>8. QED
    BY <1>1, <1>2, <1>3, <1>4, <1>5, <1>6, <1>7
       DEF Next, OwnerStep, TaskStep, Move

\* Opening a round.
LEMMA NewRoundStep ==
  ASSUME IInv, IInv', NewRound
  PROVE  [Mixing!MixNext]_(Mixing!mixVars)
  <1> USE DEF NewRound, listVars, roundVars, threadVars, histVars, Mixing!MixNext,
              NOT_STARTED, IN_PROGRESS, PARTLY_DONE, DONE
  <1>1. Phase' = "idle" /\ claimed' = {} /\ runState' # DONE /\ putList' = putList
    BY DEF Phase
  <1>2. CASE overtaken
    BY <1>1, <1>2 DEF Mixing!Broken
  <1>3. CASE ~overtaken /\ runState = DONE
    <2>1. ~overtaken'
      BY <1>3 DEF IInv, StrictInv, RoundInv, Idle, Participants
    <2>2. overtaken' = overtaken
      BY <1>3, <2>1 DEF IInv, BaseInv, TypeOK
    <2>3. QED
      BY <1>1, <1>3, <2>2 DEF Mixing!Renew, Phase
  <1>4. CASE ~overtaken /\ runState = NOT_STARTED
    <2>1. ~overtaken'
      BY <1>4 DEF IInv, StrictInv, RoundInv, Idle, Participants
    <2>2. claimed = {} /\ Phase = "idle"
      BY <1>4 DEF IInv, StrictInv, RoundInv, Phase
    <2>3. overtaken' = overtaken
      BY <1>4, <2>1 DEF IInv, BaseInv, TypeOK
    <2>4. QED
      BY <1>1, <1>4, <2>2, <2>3 DEF Mixing!mixVars
  <1>5. CASE ~overtaken /\ runState \in {IN_PROGRESS, PARTLY_DONE}
    <2>1. \E t \in Threads : pc[t] \in Participating
      BY <1>5 DEF IInv, StrictInv, RoundInv, MutexFree
    <2>2. overtaken'
      BY <2>1 DEF Participants
    <2>3. Phase = "mixing"
      BY <1>5 DEF Phase
    <2>4. QED
      BY <1>1, <1>5, <2>2, <2>3 DEF Mixing!Break
  <1>6. QED
    BY <1>2, <1>3, <1>4, <1>5 DEF IInv, BaseInv, TypeOK

LEMMA StepRefines == IInv /\ IInv' /\ [Next]_vars => [Mixing!MixNext]_(Mixing!mixVars)
  <1> SUFFICES ASSUME IInv, IInv', [Next]_vars
               PROVE  [Mixing!MixNext]_(Mixing!mixVars)
    OBVIOUS
  <1>1. CASE NewRound
    BY <1>1, NewRoundStep
  <1>2. CASE Next /\ ~NewRound
    <2>1. overtaken' = overtaken
      BY <1>2, OvertakenByNewRound
    <2>2. CASE overtaken
      BY <2>1, <2>2 DEF Mixing!MixNext, Mixing!Broken
    <2>3. CASE ~overtaken
      BY <1>2, <2>1, <2>3, RoundStep DEF Mixing!MixNext, Mixing!mixVars
    <2>4. QED
      BY <2>2, <2>3
  <1>3. CASE UNCHANGED vars
    BY <1>3, SilentStep DEF vars, listVars, roundVars, histVars, openVars, Phase
  <1>4. QED
    BY <1>1, <1>2, <1>3

\* The cell implements MixRound, round after round: a round is broken only by being
\* opened over one that is still being mixed, and mends with the next one that is not.
THEOREM Refinement == Spec => ImplementsMixRound
  <1>1. Init => Mixing!MixInit
    BY DEF Init, Mixing!MixInit, Phase, NOT_STARTED, DONE
  <1>2. QED
    BY <1>1, StepRefines, Invariant, PTL DEF Spec, ImplementsMixRound, Mixing!MixSpec

==============================================================================
