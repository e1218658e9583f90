----------------------------- MODULE LoaderProofs -----------------------------
(***************************************************************************)
(* Safety of the load for any number of objects and of load threads: the   *)
(* inductive invariant behind FetchedOnce, NothingElseLost and             *)
(* NoWorkerAfter, and its proof.                                           *)
(***************************************************************************)
EXTENDS Loader, TLAPS

\* The block of LoadObjects() in which the workers and their locals exist.
InBlock == {"work", "join", "delete"}

\* Outside the block there are no workers.
LocalsInv ==
  phase \notin InBlock =>
    /\ stopped = {}
    /\ joined = 0
    /\ \A w \in Workers :
         pc[w] = "done" /\ obj[w] = Null /\ ~failed[w] /\ ~noMemory[w]

\* The main thread waits for the others only after its own loop, and those
\* it has waited for have ended.
JoinInv ==
  /\ phase \in {"work", "join"} => stopped = {}
  /\ phase = "work" => joined = 0
  /\ phase \in {"join", "delete"} =>
       pc[Main] = "done" /\ \A t \in 1 .. joined : pc[t] = "done"

\* The objects that are held or ready are those below m_pos: the next fetch
\* hands out none of them.
FetchInv ==
  /\ FetchedOnce
  /\ \A w \in Workers : obj[w] # Null => obj[w] <= pos
  /\ \A w \in Workers : pc[w] = "load" => obj[w] # Null
  /\ phase \in {"down", "cache", "start"} \union InBlock =>
       \A o \in Objects : ready[o] => o <= pos

\* A worker that ends the ordinary way has been told that there are no more
\* objects.  One that ends because the pool is full relies on another: only a
\* load fills the pool, and whoever loads asks again until there are no more.
EndInv ==
  /\ phase \in {"down", "cache", "start"} => ~poolFull
  /\ \A w \in Workers : noMemory[w] => failed[w]
  /\ phase \in {"work", "join"} =>
       /\ \A w \in Workers : pc[w] = "done" => obj[w] = Null \/ noMemory[w]
       /\ pos < NObjects /\ (poolFull \/ \E w \in Workers : pc[w] = "done")
            => \E v \in Workers : obj[v] # Null

\* An object that was fetched is ready, or was the last of the cache file, or
\* is being loaded, or some worker has noted an exception.
LostInv ==
  /\ phase = "down" => pos = 0
  /\ phase = "cache" => \A o \in Objects : o <= pos => ready[o]
  /\ phase \in {"start", "work", "join"} =>
       \A o \in Objects : o <= pos =>
         \/ ready[o] \/ o = broke
         \/ \E w \in Workers : (obj[w] = o /\ pc[w] = "load") \/ failed[w]
  /\ NothingElseLost

\* What is known of the load where it may be left without a message.
PhaseInv ==
  /\ phase \in {"down", "cache", "start", "work", "join"} => message = "none"
  /\ phase = "delete" => message # "none"
  /\ phase \in {"down", "cache", "start"} \union InBlock => ~cacheable
  /\ phase \in {"open", "save"} => cacheable
  /\ phase \in {"cache", "save"} => file.exists

IInv == TypeOK /\ LocalsInv /\ JoinInv /\ FetchInv /\ EndInv /\ LostInv /\ PhaseInv

USE LoaderAssumption DEF Objects, Threads, Workers, Main, Null, InBlock

\* A cache file that exists has a header and objects.
LEMMA FileParts == ASSUME NEW f \in Files, f.exists
                   PROVE  f.hash \in Settings /\ f.objs \in Seq(Settings \union {Silence})
  <1>1. NoFile.exists = FALSE
    BY DEF NoFile
  <1>2. f # NoFile
    BY <1>1
  <1>3. QED
    BY <1>2 DEF Files

\* UpdateCache() starts a file, and goes on with it.
LEMMA FileGrows ==
  /\ NoFile \in Files
  /\ \A s \in Settings : Header(s) \in Files
  /\ \A f \in Files : \A d \in Settings \union {Silence} :
       f.exists => [f EXCEPT !.objs = Append(@, d)] \in Files
  <1> DEFINE Samples == Settings \union {Silence}
             Written == [exists : {TRUE}, hash : Settings, objs : Seq(Samples)]
  <1>1. ASSUME NEW s \in Settings PROVE Header(s) \in Files
    <2>1. << >> \in Seq(Samples)
      OBVIOUS
    <2>2. Header(s) \in Written
      BY <2>1 DEF Header
    <2>3. QED
      BY <2>2 DEF Files
  <1>2. ASSUME NEW f \in Files, NEW d \in Samples, f.exists
        PROVE  [f EXCEPT !.objs = Append(@, d)] \in Files
    <2>1. f \in Written
      <3>1. NoFile.exists = FALSE
        BY DEF NoFile
      <3>2. QED
        BY <1>2, <3>1 DEF Files
    <2>2. Append(f.objs, d) \in Seq(Samples)
      BY <2>1
    <2>3. [f EXCEPT !.objs = Append(@, d)] \in Written
      BY <2>1, <2>2
    <2>4. QED
      BY <2>3 DEF Files
  <1>3. NoFile \in Files
    BY DEF Files
  <1>4. QED
    BY <1>1, <1>2, <1>3

LEMMA InitIInv == Init => IInv
  <1> SUFFICES ASSUME Init PROVE IInv
    OBVIOUS
  <1> USE DEF Init, NoneReady, NoData, NoObject, AllDone, NoError
  <1>1. TypeOK
    <2>1. file \in Files
      BY DEF Files
    <2>2. /\ ready \in [Objects -> BOOLEAN]
          /\ data \in [Objects -> Settings \union {Silence}]
          /\ obj \in [Workers -> Objects \union {Null}]
          /\ pc \in [Workers -> {"fetch", "load", "done"}]
      OBVIOUS
    <2>3. failed \in [Workers -> BOOLEAN] /\ noMemory \in [Workers -> BOOLEAN]
      OBVIOUS
    <2>4. pos \in Nat /\ joined \in 0 .. NThreads /\ stopped \subseteq Threads
      OBVIOUS
    <2>5. QED
      BY <2>1, <2>2, <2>3, <2>4 DEF TypeOK
  <1>2. LocalsInv /\ JoinInv /\ EndInv /\ PhaseInv
    BY DEF LocalsInv, JoinInv, EndInv, PhaseInv
  <1>3. FetchInv /\ LostInv
    BY DEF FetchInv, FetchedOnce, LostInv, NothingElseLost
  <1>4. QED
    BY <1>1, <1>2, <1>3 DEF IInv

\* Types, one group of actions at a time.
LEMMA WorkType == ASSUME IInv, NEW w \in Workers, Work(w) PROVE TypeOK'
  <1> USE DEF IInv, TypeOK, PhaseInv, workVars, objectVars, loadVars
  <1>1. CASE ThreadStops(w)
    BY <1>1 DEF ThreadStops, Goto
  <1>2. CASE Fetch(w)
    BY <1>2 DEF Fetch, Goto
  <1>3. CASE PoolIsFull(w)
    BY <1>3 DEF PoolIsFull, Goto
  <1>4. CASE LoadsWell(w)
    BY <1>4 DEF LoadsWell, Goto
  <1>5. CASE LoadsBadly(w)
    BY <1>5 DEF LoadsBadly, Goto
  <1>6. CASE RunsOutOfMemory(w)
    BY <1>6 DEF RunsOutOfMemory, Goto, AfterNoMemory
  <1>7. QED
    BY <1>1, <1>2, <1>3, <1>4, <1>5, <1>6 DEF Work

LEMMA FromCacheType == ASSUME IInv, FromCache \/ StartWorkers PROVE TypeOK'
  <1> USE DEF IInv, TypeOK, PhaseInv, workVars, objectVars, loadVars
  <1>1. CASE CacheDone
    BY <1>1 DEF CacheDone, InFile
  <1>2. CASE CacheObject
    <2>1. file.objs[pos + 1] \in Settings \union {Silence}
      <3>1. file.exists
        BY <1>2 DEF CacheObject
      <3>2. file.objs \in Seq(Settings \union {Silence})
        BY <3>1, FileParts
      <3>3. pos + 1 \in 1 .. Len(file.objs)
        BY <1>2 DEF CacheObject, InFile
      <3>4. QED
        BY <3>2, <3>3
    <2>2. QED
      BY <1>2, <2>1 DEF CacheObject, InFile
  <1>3. CASE CacheNoMemory
    BY <1>3 DEF CacheNoMemory, InFile
  <1>4. CASE CacheBroken
    BY <1>4 DEF CacheBroken, InFile
  <1>5. CASE StartWorkers
    BY <1>5 DEF StartWorkers, InFile, FirstObject
  <1>6. QED
    BY <1>1, <1>2, <1>3, <1>4, <1>5 DEF FromCache

LEMMA FinishType == ASSUME IInv, Finish PROVE TypeOK'
  <1> USE DEF IInv, TypeOK, PhaseInv, workVars, objectVars, loadVars
  <1>1. CASE MainDone
    BY <1>1 DEF MainDone, LeaveBlock
  <1>2. CASE Join
    BY <1>2 DEF Join, LeaveBlock
  <1>3. CASE Report
    BY <1>3 DEF Report, LocalsGone, NoObject, NoError
  <1>4. CASE AllLoaded
    BY <1>4 DEF AllLoaded, LocalsGone, NoObject, NoError, WereExceptions,
       IsComplete
  <1>5. CASE MarkForStop
    BY <1>5 DEF MarkForStop
  <1>6. CASE Delete
    BY <1>6 DEF Delete, Waited
  <1>7. CASE Deleted
    BY <1>7 DEF Deleted, LocalsGone, NoObject, NoError
  <1>8. QED
    BY <1>1, <1>2, <1>3, <1>4, <1>5, <1>6, <1>7 DEF Finish

LEMMA SaveType == ASSUME IInv, Save PROVE TypeOK'
  <1> USE DEF IInv, TypeOK, PhaseInv, workVars, objectVars, loadVars
  <1>1. CASE OpenFile
    <2>1. file' \in Files
      BY <1>1, FileGrows DEF OpenFile, Files
    <2>2. QED
      BY <1>1, <2>1 DEF OpenFile, unsavedVars
  <1>2. CASE SaveObject
    <2>1. Len(file.objs) \in Nat
      BY <1>2, FileParts DEF SaveObject
    <2>2. data[Len(file.objs) + 1] \in Settings \union {Silence}
      BY <1>2, <2>1 DEF SaveObject
    <2>3. file' \in Files
      BY <1>2, <2>2, FileGrows DEF SaveObject
    <2>4. QED
      BY <1>2, <2>3 DEF SaveObject, unsavedVars
  <1>3. CASE SaveFails
    BY <1>3, FileGrows DEF SaveFails, unsavedVars, AfterFailure
  <1>4. CASE Saved
    BY <1>4 DEF Saved, unsavedVars
  <1>5. QED
    BY <1>1, <1>2, <1>3, <1>4 DEF Save

LEMMA UserType == ASSUME IInv, User PROVE TypeOK'
  <1> USE DEF IInv, TypeOK, PhaseInv, workVars, objectVars, loadVars
  <1>1. CASE Open
    BY <1>1 DEF Open, UsesCache
  <1>2. CASE Cancel
    BY <1>2 DEF Cancel, LeaveBlock, Goto
  <1>3. CASE UpdateCache
    BY <1>3 DEF UpdateCache, unsavedVars
  <1>4. CASE DeleteCache
    BY <1>4, FileGrows DEF DeleteCache, unsavedVars
  <1>5. CASE EditSettings
    BY <1>5 DEF EditSettings
  <1>6. CASE End
    <2>1. /\ ready' \in [Objects -> BOOLEAN]
          /\ data' \in [Objects -> Settings \union {Silence}]
          /\ obj' \in [Workers -> Objects \union {Null}]
          /\ pc' \in [Workers -> {"fetch", "load", "done"}]
      BY <1>6 DEF End, NoneReady, NoData, NoObject, AllDone
    <2>2. failed' \in [Workers -> BOOLEAN] /\ noMemory' \in [Workers -> BOOLEAN]
      BY <1>6 DEF End, NoError
    <2>3. pos' \in Nat /\ joined' \in 0 .. NThreads /\ stopped' \subseteq Threads
      BY <1>6 DEF End
    <2>4. QED
      BY <1>6, <2>1, <2>2, <2>3 DEF End
  <1>7. QED
    BY <1>1, <1>2, <1>3, <1>4, <1>5, <1>6 DEF User

\* A step of a worker preserves the invariant.
LEMMA WorkParts == ASSUME IInv, NEW w \in Workers, Work(w) PROVE IInv'
  <1>1. TypeOK'
    BY WorkType
  <1> USE DEF IInv, TypeOK, LocalsInv, JoinInv, FetchInv, FetchedOnce, EndInv, LostInv,
              NothingElseLost, PhaseInv, workVars, objectVars, loadVars
  <1>2. CASE ThreadStops(w)
    BY <1>1, <1>2 DEF ThreadStops, Goto
  <1>3. CASE Fetch(w)
    <2>1. LocalsInv' /\ JoinInv' /\ PhaseInv'
      BY <1>3 DEF Fetch, Goto
    <2>2. FetchInv'
      BY <1>3 DEF Fetch, Goto
    <2>3. EndInv'
      BY <1>3 DEF Fetch, Goto
    <2>4. LostInv'
      BY <1>3 DEF Fetch, Goto
    <2>5. QED
      BY <1>1, <2>1, <2>2, <2>3, <2>4
  <1>4. CASE PoolIsFull(w)
    <2>1. LocalsInv' /\ JoinInv' /\ PhaseInv'
      BY <1>4 DEF PoolIsFull, Goto
    <2>2. FetchInv'
      BY <1>4 DEF PoolIsFull, Goto
    <2>3. EndInv'
      BY <1>4 DEF PoolIsFull, Goto
    <2>4. LostInv'
      BY <1>4 DEF PoolIsFull, Goto
    <2>5. QED
      BY <1>1, <2>1, <2>2, <2>3, <2>4
  <1>5. CASE LoadsWell(w)
    <2>1. LocalsInv' /\ JoinInv' /\ PhaseInv'
      BY <1>5 DEF LoadsWell, Goto
    <2>2. FetchInv'
      BY <1>5 DEF LoadsWell, Goto
    <2>3. EndInv'
      BY <1>5 DEF LoadsWell, Goto
    <2>4. LostInv'
      BY <1>5 DEF LoadsWell, Goto
    <2>5. QED
      BY <1>1, <2>1, <2>2, <2>3, <2>4
  <1>6. CASE LoadsBadly(w)
    BY <1>1, <1>6 DEF LoadsBadly, Goto
  <1>7. CASE RunsOutOfMemory(w)
    <2>1. LocalsInv' /\ JoinInv' /\ PhaseInv'
      BY <1>7 DEF RunsOutOfMemory, Goto, AfterNoMemory
    <2>2. FetchInv'
      BY <1>7 DEF RunsOutOfMemory, Goto, AfterNoMemory
    <2>3. EndInv'
      BY <1>7 DEF RunsOutOfMemory, Goto, AfterNoMemory
    <2>4. LostInv'
      BY <1>7 DEF RunsOutOfMemory, Goto, AfterNoMemory
    <2>5. QED
      BY <1>1, <2>1, <2>2, <2>3, <2>4
  <1>8. QED
    BY <1>2, <1>3, <1>4, <1>5, <1>6, <1>7 DEF Work

\* So do the loop over the cache file and the start of the workers, ...
LEMMA FromCacheParts == ASSUME IInv, FromCache \/ StartWorkers PROVE IInv'
  <1>1. TypeOK'
    BY FromCacheType
  <1> USE DEF IInv, TypeOK, LocalsInv, JoinInv, FetchInv, FetchedOnce, EndInv, LostInv,
              NothingElseLost, PhaseInv, workVars, objectVars, loadVars
  <1>2. CASE CacheDone
    BY <1>1, <1>2 DEF CacheDone, InFile
  <1>3. CASE CacheObject
    BY <1>1, <1>3 DEF CacheObject, InFile
  <1>4. CASE CacheNoMemory
    BY <1>1, <1>4 DEF CacheNoMemory, InFile
  <1>5. CASE CacheBroken
    BY <1>1, <1>5 DEF CacheBroken, InFile
  <1>6. CASE StartWorkers
    BY <1>1, <1>6 DEF StartWorkers, InFile, FirstObject
  <1>7. QED
    BY <1>2, <1>3, <1>4, <1>5, <1>6 DEF FromCache

\* ... the end of LoadObjects(), ...
LEMMA FinishParts == ASSUME IInv, Finish PROVE IInv'
  <1>1. TypeOK'
    BY FinishType
  <1> USE DEF IInv, TypeOK, LocalsInv, JoinInv, FetchInv, FetchedOnce, EndInv, LostInv,
              NothingElseLost, PhaseInv, workVars, objectVars, loadVars
  <1>2. CASE MainDone
    BY <1>1, <1>2 DEF MainDone, LeaveBlock
  <1>3. CASE Join
    BY <1>1, <1>3 DEF Join, LeaveBlock
  <1>4. CASE Report
    BY <1>1, <1>4 DEF Report, LocalsGone, NoObject, NoError
  <1>5. CASE AllLoaded
    <2>1. LocalsInv' /\ JoinInv' /\ PhaseInv'
      BY <1>5 DEF AllLoaded, LocalsGone, NoObject, NoError,
         WereExceptions, IsComplete
    <2>2. FetchInv'
      BY <1>5 DEF AllLoaded, LocalsGone, NoObject, NoError,
         WereExceptions, IsComplete
    <2>3. EndInv'
      BY <1>5 DEF AllLoaded, LocalsGone, NoObject, NoError,
         WereExceptions, IsComplete
    <2>4. LostInv'
      BY <1>5 DEF AllLoaded, LocalsGone, NoObject, NoError,
         WereExceptions, IsComplete
    <2>5. QED
      BY <1>1, <2>1, <2>2, <2>3, <2>4
  <1>6. CASE MarkForStop
    BY <1>1, <1>6 DEF MarkForStop
  <1>7. CASE Delete
    BY <1>1, <1>7 DEF Delete, Waited
  <1>8. CASE Deleted
    BY <1>1, <1>8 DEF Deleted, LocalsGone, NoObject, NoError
  <1>9. QED
    BY <1>2, <1>3, <1>4, <1>5, <1>6, <1>7, <1>8 DEF Finish

\* ... UpdateCache() ...
LEMMA SaveParts == ASSUME IInv, Save PROVE IInv'
  <1>1. TypeOK'
    BY SaveType
  <1> USE DEF IInv, TypeOK, LocalsInv, JoinInv, FetchInv, FetchedOnce, EndInv, LostInv,
              NothingElseLost, PhaseInv, workVars, objectVars, loadVars
  <1>2. CASE OpenFile
    BY <1>1, <1>2 DEF OpenFile, unsavedVars, Header, NoFile
  <1>3. CASE SaveObject
    BY <1>1, <1>3 DEF SaveObject, unsavedVars
  <1>4. CASE SaveFails
    BY <1>1, <1>4 DEF SaveFails, unsavedVars, AfterFailure, NoFile
  <1>5. CASE Saved
    BY <1>1, <1>5 DEF Saved, unsavedVars
  <1>6. QED
    BY <1>2, <1>3, <1>4, <1>5 DEF Save

\* ... and what the user does.
LEMMA UserParts == ASSUME IInv, User PROVE IInv'
  <1>1. TypeOK'
    BY UserType
  <1> USE DEF IInv, TypeOK, LocalsInv, JoinInv, FetchInv, FetchedOnce, EndInv, LostInv,
              NothingElseLost, PhaseInv, workVars, objectVars, loadVars
  <1>2. CASE Open
    BY <1>1, <1>2 DEF Open, UsesCache
  <1>3. CASE Cancel
    BY <1>1, <1>3 DEF Cancel, LeaveBlock, Goto
  <1>4. CASE UpdateCache
    BY <1>1, <1>4 DEF UpdateCache, unsavedVars
  <1>5. CASE DeleteCache
    BY <1>1, <1>5 DEF DeleteCache, unsavedVars, NoFile
  <1>6. CASE EditSettings
    BY <1>1, <1>6 DEF EditSettings
  <1>7. CASE End
    BY <1>1, <1>7 DEF End, NoneReady, NoData, NoObject, AllDone, NoError
  <1>8. QED
    BY <1>2, <1>3, <1>4, <1>5, <1>6, <1>7 DEF User

LEMMA NextIInv == IInv /\ [Next]_vars => IInv'
  <1> SUFFICES ASSUME IInv, [Next]_vars PROVE IInv'
    OBVIOUS
  <1>1. ASSUME NEW w \in Workers, Work(w) PROVE IInv'
    BY <1>1, WorkParts
  <1>2. CASE FromCache \/ StartWorkers
    BY <1>2, FromCacheParts
  <1>3. CASE Finish
    BY <1>3, FinishParts
  <1>4. CASE Save
    BY <1>4, SaveParts
  <1>5. CASE User
    BY <1>5, UserParts
  <1>6. CASE UNCHANGED vars
    BY <1>6 DEF vars, IInv, TypeOK, LocalsInv, JoinInv, FetchInv, FetchedOnce,
                EndInv, LostInv, NothingElseLost, PhaseInv
  <1>7. QED
    BY <1>1, <1>2, <1>3, <1>4, <1>5, <1>6 DEF Next, Load

THEOREM Invariant == Spec => []IInv
  BY InitIInv, NextIInv, PTL DEF Spec

\* Every variable of the load keeps its type.
THEOREM TypeCorrect == Spec => []TypeOK
  <1>1. IInv => TypeOK
    BY DEF IInv
  <1>2. QED
    BY <1>1, Invariant, PTL

\* Whatever the number of threads, no object is fetched by two of them, nor
\* loaded when it is ready.
THEOREM FetchedOnceAlways == Spec => []FetchedOnce
  <1>1. IInv => FetchedOnce
    BY DEF IInv, FetchInv
  <1>2. QED
    BY <1>1, Invariant, PTL

\* A load that ends without a message, or that may be cached, lost at most the
\* object at which an unfinished cache file ended.
THEOREM NothingElseLostAlways == Spec => []NothingElseLost
  <1>1. IInv => NothingElseLost
    BY DEF IInv, LostInv
  <1>2. QED
    BY <1>1, Invariant, PTL

\* However LoadObjects() is left, no worker goes on after it.
THEOREM NoWorkerAfterAlways == Spec => []NoWorkerAfter
  <1>1. IInv => NoWorkerAfter
    BY DEF IInv, LocalsInv, InBlock, NoWorkerAfter
  <1>2. QED
    BY <1>1, Invariant, PTL
==============================================================================
