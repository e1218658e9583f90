------------------------------- MODULE Loader -------------------------------
(***************************************************************************)
(* GOOrganController::LoadObjects(): the main thread and the load threads  *)
(* (GOLoadThread) fetch the organ's objects from one GOObjectDistributor   *)
(* and load each from its sample files.  If the cache file has the hash of *)
(* the current settings, the main thread loads the objects from it alone.  *)
(* UpdateCache() writes that file; the process may end at any step, and    *)
(* the file survives it as it is.                                          *)
(*                                                                         *)
(* Objects are numbered as in GetCacheObjects().  What an object holds is  *)
(* the settings its samples were converted with, or Silence.               *)
(***************************************************************************)
EXTENDS Integers, Sequences

CONSTANTS
  NObjects,     \* GetCacheObjects().size()
  NThreads,     \* m_config.LoadConcurrency()
  Settings,     \* values of what UpdateHash() covers: bits per sample, ...
  ManageCache   \* m_config.ManageCache()

ASSUME LoaderAssumption ==
  /\ NObjects \in Nat \ {0}
  /\ NThreads \in Nat
  /\ Settings # {}
  /\ ManageCache \in BOOLEAN

VARIABLES
  settings,     \* what UpdateHash() sees now
  file,         \* the cache file
  phase,        \* where the main thread is
  pos,          \* m_pos of the distributor
  ready,        \* m_IsReady of each object
  data,         \* what the sound provider of each object holds
  obj,          \* the local obj of each worker
  pc,           \* where each worker is
  failed,       \* m_WereExceptions of each worker
  noMemory,     \* m_OutOfMemory of each worker
  stopped,      \* threads whose m_Stop is set
  joined,       \* how many threads LoadObjects() has waited for
  poolFull,     \* m_AllocError > 0
  cacheable,    \* m_Cacheable
  message,      \* the message box that ended the load
  broke         \* the object that could not be loaded from the cache file

vars == <<settings, file, phase, pos, ready, data, obj, pc, failed, noMemory,
          stopped, joined, poolFull, cacheable, message, broke>>
workVars == <<obj, pc, failed, noMemory, stopped, joined, poolFull>>
objectVars == <<pos, ready, data>>

Objects == 1 .. NObjects
Threads == 1 .. NThreads
Main == 0
Workers == Threads \union {Main}
Silence == "silence"
Null == 0
NoFile == [exists |-> FALSE]
Header(s) == [exists |-> TRUE, hash |-> s, objs |-> << >>]

NoneReady == [o \in Objects |-> FALSE]
NoData == [o \in Objects |-> Silence]
NoObject == [w \in Workers |-> Null]
AllDone == [w \in Workers |-> "done"]
NoError == [w \in Workers |-> FALSE]
loadVars == <<pos, ready, data, obj, pc, failed, noMemory, stopped, joined,
              poolFull, cacheable, message, broke>>

Init == /\ settings \in Settings
        /\ file = NoFile
        /\ phase = "down"
        /\ pos = 0
        /\ ready = NoneReady
        /\ data = NoData
        /\ obj = NoObject
        /\ pc = AllDone
        /\ failed = NoError
        /\ noMemory = NoError
        /\ stopped = {}
        /\ joined = 0
        /\ poolFull = FALSE
        /\ cacheable = FALSE
        /\ message = "none"
        /\ broke = Null

-----------------------------------------------------------------------------
(* The organ is opened: is there a cache file with the current hash?       *)
UsesCache == file.exists /\ file.hash = settings

(* The distributor, the workers and their obj are local to LoadObjects().  *)
(* What a thread does to the organ's objects is not: pc is kept.           *)
LocalsGone == /\ pos' = 0
              /\ obj' = NoObject
              /\ failed' = NoError
              /\ noMemory' = NoError
              /\ stopped' = {}
              /\ joined' = 0

Open == /\ phase = "down"
        /\ phase' = IF UsesCache THEN "cache" ELSE "start"
        /\ UNCHANGED <<settings, file, loadVars>>

(* The loop over the cache file.  A file that the process left unfinished  *)
(* ends early.                                                             *)
InFile(o) == o <= Len(file.objs)

CacheDone == /\ phase = "cache"
             /\ pos = NObjects
             /\ pos' = 0
             /\ cacheable' = TRUE
             /\ phase' = "loaded"
             /\ UNCHANGED <<settings, file, ready, data, workVars, message, broke>>

CacheObject == /\ phase = "cache"
               /\ pos < NObjects
               /\ InFile(pos + 1)
               /\ pos' = pos + 1
               /\ ready' = [ready EXCEPT ![pos + 1] = TRUE]
               /\ data' = [data EXCEPT ![pos + 1] = file.objs[pos + 1]]
               /\ \/ UNCHANGED <<phase, message>>
                  \/ phase' = "loaded" /\ message' = "aborted"
               /\ UNCHANGED <<settings, file, workVars, cacheable, broke>>

CacheNoMemory == /\ phase = "cache"
                 /\ pos < NObjects
                 /\ InFile(pos + 1)
                 /\ pos' = pos + 1
                 /\ phase' = "loaded"
                 /\ message' = "memory"
                 /\ UNCHANGED <<settings, file, ready, data, workVars, cacheable, broke>>

CacheBroken == /\ phase = "cache"
               /\ pos < NObjects
               /\ ~InFile(pos + 1)
               /\ pos' = pos + 1
               /\ broke' = pos + 1
               /\ phase' = "start"
               /\ UNCHANGED <<settings, file, ready, data, workVars, cacheable, message>>

-----------------------------------------------------------------------------
(* The workers.  The obj that the main thread starts with is the outer one *)
(* of LoadObjects(), which the loop over the cache file never assigns.     *)
FirstObject == Null

StartWorkers ==
  /\ phase = "start"
  /\ phase' = "work"
  /\ obj' = [obj EXCEPT ![Main] = FirstObject]
  /\ pc' = [w \in Workers |->
              IF w = Main /\ FirstObject # Null THEN "load" ELSE "fetch"]
  /\ UNCHANGED <<settings, file, objectVars, failed, noMemory, stopped, joined,
                 poolFull, cacheable, message, broke>>

Goto(w, l) == pc' = [pc EXCEPT ![w] = l]

(* GOLoadThread::Entry(): a thread looks at m_Stop before each object. *)
ThreadStops(w) ==
  /\ w \in stopped
  /\ pc[w] = "fetch"
  /\ Goto(w, "done")
  /\ UNCHANGED <<settings, file, phase, objectVars, obj, failed, noMemory,
                 stopped, joined, poolFull, cacheable, message, broke>>

(* Faulty variant: m_pos is read and written back in two steps, so that    *)
(* the count of another worker may be overwritten.                         *)
FetchRaced(w) ==
  /\ pc[w] = "fetch"
  /\ w \notin stopped
  /\ ~noMemory[w]
  /\ ~poolFull
  /\ pos' \in {pos, pos + 1}
  /\ obj' = [obj EXCEPT ![w] = IF pos < NObjects THEN pos + 1 ELSE Null]
  /\ Goto(w, IF pos < NObjects THEN "load" ELSE "done")
  /\ UNCHANGED <<settings, file, phase, ready, data, failed, noMemory, stopped,
                 joined, poolFull, cacheable, message, broke>>

(* FetchNext() by LoadNextObject(): m_pos.fetch_add(1). *)
Fetch(w) ==
  /\ pc[w] = "fetch"
  /\ w \notin stopped
  /\ ~noMemory[w]
  /\ ~poolFull
  /\ pos' = pos + 1
  /\ obj' = [obj EXCEPT ![w] = IF pos < NObjects THEN pos + 1 ELSE Null]
  /\ Goto(w, IF pos < NObjects THEN "load" ELSE "done")
  /\ UNCHANGED <<settings, file, phase, ready, data, failed, noMemory, stopped,
                 joined, poolFull, cacheable, message, broke>>

(* LoadNextObject() while the pool is full fetches nothing and answers with *)
(* the object of the last call: a worker that has one asks again.           *)
PoolIsFull(w) ==
  /\ pc[w] = "fetch"
  /\ w \notin stopped
  /\ poolFull
  /\ Goto(w, IF obj[w] = Null THEN "done" ELSE "fetch")
  /\ UNCHANGED <<settings, file, phase, objectVars, obj, failed, noMemory,
                 stopped, joined, poolFull, cacheable, message, broke>>

(* LoadObjectNoExc(): the samples are read, or a file is missing or broken, *)
(* or there is no memory for them.  PoolAlloc() counts an allocation that   *)
(* does not fit in the pool, and forgets it at the next one that does.      *)
LoadsWell(w) ==
  /\ pc[w] = "load"
  /\ ready' = [ready EXCEPT ![obj[w]] = TRUE]
  /\ data' = [data EXCEPT ![obj[w]] = settings]
  /\ poolFull' \in BOOLEAN
  /\ Goto(w, "fetch")
  /\ UNCHANGED <<settings, file, phase, pos, obj, failed, noMemory, stopped,
                 joined, cacheable, message, broke>>

LoadsBadly(w) ==
  /\ pc[w] = "load"
  /\ failed' = [failed EXCEPT ![w] = TRUE]
  /\ poolFull' \in BOOLEAN
  /\ Goto(w, "fetch")
  /\ UNCHANGED <<settings, file, phase, objectVars, obj, noMemory, stopped,
                 joined, cacheable, message, broke>>

(* Faulty variant: LoadNextObject() answers with obj, whatever m_OutOfMemory. *)
AfterNoMemoryAgain == "fetch"

(* LoadNextObject() answers false: the loop of the worker ends. *)
AfterNoMemory == "done"

RunsOutOfMemory(w) ==
  /\ pc[w] = "load"
  /\ failed' = [failed EXCEPT ![w] = TRUE]
  /\ noMemory' = [noMemory EXCEPT ![w] = TRUE]
  /\ Goto(w, AfterNoMemory)
  /\ UNCHANGED <<settings, file, phase, objectVars, obj, stopped, joined,
                 poolFull, cacheable, message, broke>>

Work(w) == ThreadStops(w) \/ Fetch(w) \/ PoolIsFull(w)
             \/ LoadsWell(w) \/ LoadsBadly(w) \/ RunsOutOfMemory(w)

-----------------------------------------------------------------------------
(* The rest of LoadObjects().  An exception leaves the block: ~ptr_vector  *)
(* deletes the threads one by one, each of which is stopped and waited for.*)
LeaveBlock(text) == /\ phase' = "delete"
                    /\ message' = text
                    /\ joined' = 0

(* monitor.Update() reports that the user has pressed Cancel. *)
Cancel == /\ phase = "work"
          /\ pc[Main] = "fetch"
          /\ obj[Main] # Null
          /\ LeaveBlock("aborted")
          /\ Goto(Main, "done")
          /\ UNCHANGED <<settings, file, objectVars, obj, failed, noMemory,
                         stopped, poolFull, cacheable, broke>>

MainDone == /\ phase = "work"
            /\ pc[Main] = "done"
            /\ IF noMemory[Main] THEN LeaveBlock("memory")
               ELSE phase' = "join" /\ UNCHANGED <<joined, message>>
            /\ UNCHANGED <<settings, file, objectVars, obj, pc, failed,
                           noMemory, stopped, poolFull, cacheable, broke>>

(* CheckExceptions() of the next thread. *)
Join == /\ phase = "join"
        /\ joined < NThreads
        /\ pc[joined + 1] = "done"
        /\ IF noMemory[joined + 1] THEN LeaveBlock("memory")
           ELSE joined' = joined + 1 /\ UNCHANGED <<phase, message>>
        /\ UNCHANGED <<settings, file, objectVars, obj, pc, failed, noMemory,
                       stopped, poolFull, cacheable, broke>>

(* Faulty variant: what CheckExceptions() answers is dropped. *)
WereOwnExceptions == failed[Main]

WereExceptions == \E w \in Workers : failed[w]
IsComplete == pos >= NObjects

Report == /\ phase = "join"
          /\ joined = NThreads
          /\ WereExceptions
          /\ phase' = "loaded"
          /\ message' = "errors"
          /\ LocalsGone
          /\ UNCHANGED <<settings, file, ready, data, pc, poolFull, cacheable, broke>>

AllLoaded == /\ phase = "join"
             /\ joined = NThreads
             /\ ~WereExceptions
             /\ cacheable' = (cacheable \/ IsComplete)
             /\ phase' = IF ManageCache /\ cacheable' THEN "open" ELSE "loaded"
             /\ LocalsGone
             /\ UNCHANGED <<settings, file, ready, data, pc, poolFull, message, broke>>

(* ~GOLoadThread() of the next thread: MarkForStop(), then Wait(). *)
MarkForStop == /\ phase = "delete"
               /\ joined < NThreads
               /\ joined + 1 \notin stopped
               /\ stopped' = stopped \union {joined + 1}
               /\ UNCHANGED <<settings, file, phase, objectVars, obj, pc, failed,
                              noMemory, joined, poolFull, cacheable, message, broke>>

(* Faulty variant: Stop() only marks the thread. *)
NotWaited(t) == TRUE

Waited(t) == pc[t] = "done"

Delete == /\ phase = "delete"
          /\ joined < NThreads
          /\ joined + 1 \in stopped
          /\ Waited(joined + 1)
          /\ joined' = joined + 1
          /\ UNCHANGED <<settings, file, phase, objectVars, obj, pc, failed,
                         noMemory, stopped, poolFull, cacheable, message, broke>>

Deleted == /\ phase = "delete"
           /\ joined = NThreads
           /\ phase' = "loaded"
           /\ LocalsGone
           /\ UNCHANGED <<settings, file, ready, data, pc, poolFull, cacheable,
                          message, broke>>

-----------------------------------------------------------------------------
(* UpdateCache(), by LoadObjects() or by the menu.  The header and the     *)
(* hash of the settings in force go first, then the objects in their order.*)
unsavedVars == <<settings, objectVars, workVars, cacheable, message, broke>>

OpenFile == /\ phase = "open"
            /\ \/ phase' = "save" /\ file' = Header(settings)
               \/ phase' = "loaded" /\ file' = NoFile
            /\ UNCHANGED unsavedVars

SaveObject == /\ phase = "save"
              /\ Len(file.objs) < NObjects
              /\ file' = [file EXCEPT !.objs = Append(@, data[Len(@) + 1])]
              /\ UNCHANGED <<phase, unsavedVars>>

(* Faulty variant: a failed write leaves the file as it is. *)
AfterFailureKept == file

(* A write fails or the user cancels: DeleteCache(). *)
AfterFailure == NoFile

SaveFails == /\ phase = "save"
             /\ file' = AfterFailure
             /\ phase' = "loaded"
             /\ UNCHANGED unsavedVars

Saved == /\ phase = "save"
         /\ Len(file.objs) = NObjects
         /\ phase' = "loaded"
         /\ UNCHANGED <<file, unsavedVars>>

-----------------------------------------------------------------------------
(* The organ is loaded: the menu, the settings dialogs, the end of the     *)
(* process.                                                                *)
UpdateCache == /\ phase = "loaded"
               /\ cacheable
               /\ phase' = "open"
               /\ UNCHANGED <<file, unsavedVars>>

DeleteCache == /\ phase = "loaded"
               /\ file.exists
               /\ file' = NoFile
               /\ UNCHANGED <<phase, unsavedVars>>

EditSettings == /\ phase = "loaded"
                /\ settings' \in Settings
                /\ UNCHANGED <<file, phase, objectVars, workVars, cacheable, message,
                               broke>>

(* ClearObjects(), or the process ends at any step. *)
End == /\ phase # "down"
       /\ phase' = "down"
       /\ pos' = 0
       /\ ready' = NoneReady
       /\ data' = NoData
       /\ obj' = NoObject
       /\ pc' = AllDone
       /\ failed' = NoError
       /\ noMemory' = NoError
       /\ stopped' = {}
       /\ joined' = 0
       /\ poolFull' = FALSE
       /\ cacheable' = FALSE
       /\ message' = "none"
       /\ broke' = Null
       /\ UNCHANGED <<settings, file>>

FromCache == CacheDone \/ CacheObject \/ CacheNoMemory \/ CacheBroken
Finish == MainDone \/ Join \/ Report \/ AllLoaded \/ MarkForStop \/ Delete \/ Deleted
Save == OpenFile \/ SaveObject \/ SaveFails \/ Saved
Load == FromCache \/ StartWorkers \/ Finish \/ Save
User == Open \/ Cancel \/ UpdateCache \/ DeleteCache \/ EditSettings \/ End

Next == Load \/ User \/ \E w \in Workers : Work(w)

Spec == Init /\ [][Next]_vars

(* The operating system schedules every thread; the user owes nothing. *)
Fairness == WF_vars(Load) /\ \A w \in Workers : WF_vars(Work(w))
FairSpec == Spec /\ Fairness

-----------------------------------------------------------------------------
Files == {NoFile} \union
         [exists : {TRUE}, hash : Settings, objs : Seq(Settings \union {Silence})]

(* Types of the variables, and the phases of LoadObjects(). *)
TypeOK ==
  /\ settings \in Settings
  /\ file \in Files
  /\ phase \in {"down", "cache", "start", "work", "join", "delete", "open", "save",
                "loaded"}
  /\ pos \in Nat
  /\ ready \in [Objects -> BOOLEAN]
  /\ data \in [Objects -> Settings \union {Silence}]
  /\ obj \in [Workers -> Objects \union {Null}]
  /\ pc \in [Workers -> {"fetch", "load", "done"}]
  /\ failed \in [Workers -> BOOLEAN]
  /\ noMemory \in [Workers -> BOOLEAN]
  /\ stopped \subseteq Threads
  /\ joined \in 0 .. NThreads
  /\ poolFull \in BOOLEAN
  /\ cacheable \in BOOLEAN
  /\ message \in {"none", "errors", "memory", "aborted"}
  /\ broke \in Objects \union {Null}

(* "Each object can be fetched only once" (GOObjectDistributor.h): no two  *)
(* workers hold one object, and none loads one that is ready already.      *)
FetchedOnce ==
  /\ \A v, w \in Workers : obj[v] # Null /\ obj[v] = obj[w] => v = w
  /\ \A w \in Workers : pc[w] = "load" => ~ready[obj[w]]

(* A load that ends without a message, or that may be cached, has loaded   *)
(* every object, whichever worker fetched it, except the one at which an   *)
(* unfinished cache file ended.                                            *)
NothingElseLost ==
  \/ phase = "loaded" /\ message = "none"
  \/ cacheable
  => \A o \in Objects : ready[o] \/ o = broke

(* Whatever way LoadObjects() is left, also by an exception in the middle  *)
(* of the join loop, no worker touches an object after that.               *)
NoWorkerAfter ==
  phase \in {"open", "save", "loaded"} => \A w \in Workers : pc[w] = "done"

(* UpdateCache() leaves a whole file or none: only a process that ended in *)
(* the middle of it leaves a part of one.                                  *)
WholeOrNone ==
  [][phase = "save" /\ phase' = "loaded"
       => ~file'.exists \/ Len(file'.objs) = NObjects]_vars

(* The pool is full and nobody loads any more, but a worker asks again and *)
(* again, because LoadNextObject() answers with its last object.           *)
Spinning ==
  /\ phase \in {"work", "join"} /\ poolFull
  /\ \A w \in Workers : pc[w] # "load"
  /\ \E w \in Workers : pc[w] = "fetch" /\ obj[w] # Null

(* A load ends, also when workers run out of memory, fail or are stopped,  *)
(* or when the pool gets full while other workers go on; only one end is   *)
(* none, that the last load that was under way leaves the pool full.       *)
LoadEnds ==
  phase \in {"cache", "start"} ~> (phase \in {"loaded", "down"} \/ Spinning)

(* What a load owes its user. The code does not: see Spinning.             *)
LoadReturns == phase \in {"cache", "start"} ~> phase \in {"loaded", "down"}

(* What the comment of LoadObjects() promises for the object at which the  *)
(* cache file ended: "We will try to load it from the file later".         *)
NothingLost ==
  phase = "loaded" /\ message = "none" => \A o \in Objects : ready[o]

(* "Some changed settings [take no] effect unless the sample set is        *)
(* reloaded" (GOAppWindow.cpp): what a reload takes from the cache file    *)
(* was converted with the settings of that load.                           *)
SettingsTakeEffect ==
  [][phase = "cache" /\ phase' = "loaded" /\ message' = "none"
       => \A o \in Objects : data[o] \in {settings, Silence}]_vars
=============================================================================
