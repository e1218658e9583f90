# GrandOrgue in TLA+

GrandOrgue is a virtual pipe organ. Its heart is a real-time engine: a pool of worker threads,
the callbacks of several audio devices and the main thread share tasks, lists of samplers and a
handful of counters, mostly without locks, while the main thread starts, stops, re-routes and
rebuilds everything. Around it are parts that run in one thread but are just as hard to test:
keys that go through couplers which lead into each other, drawstops that organist,
combinations and crescendos hold together, timers that are set in the middle of a timer, and a
loader with threads, errors and a cache file that outlives the process. The modules here
model these parts. TLC checks them on small instances, TLAPS proves the most important
invariants for all instances.

Paths are relative to the repository; `sound/`, `scheduler/`, `model/`, `combinations/`, `loader/`
and `midi/` stand for the directories of that name in `src/grandorgue/`, `threading/` for
`src/core/threading/`.

## 1. The system

### Threads

| Thread | What it runs |
|---|---|
| main (control) thread | user interface, MIDI events (queued to it by `GOMidiSystem`), timers, `GOOrganController::StartOrgan/StopOrgan/ResumeOrgan/SuspendOrgan/EnsureSoundRoutingFor`; keys and drawstops end in `GOSoundSamplerPlayer` |
| device threads | one per output; the driver calls `GOSoundCallbackConnector::AudioCallback`, which goes on to `GOSoundOrganEngine::ProcessAudioCallback` |
| workers | `GOSchedulerThread::Entry`: pull tasks from `GOScheduler::GetNextTask` and run them |
| load threads | only while an organ is loaded |

### Components

| Component | State | Operations | Used by |
|---|---|---|---|
| Scheduler threads (`scheduler/GOSchedulerThread`) | `m_IsWakeupPending`, `m_IsIdle`, `m_Stop` | `Entry`, `Wakeup`, `WaitForIdle`, `MarkForStop`, `Delete` | organ engine |
| Scheduler (`scheduler/GOScheduler`) | `m_Work` (ordered list), `m_Tasks` (plan), `m_NextItem`, `m_ItemCount`, `m_IsNotGivingWork`, round number | `Add`, `Update`, `SortList`, `NewRound`, `CompleteRound`, `GetNextTask`, `PauseGivingWork`, `ResumeGivingWork`, `Clear` | workers, organ engine |
| Organ engine (`sound/GOSoundOrganEngine`) | lifecycle BUILT / WORKING / USED / STREAMING, per-output state, period counters, stop handshake | `BuildEngine`, `StartEngine`, `SetUsed`, `SetStreaming`, `EnsureStreamingDisableAllowed`, `StopEngine`, `DestroyEngine`, `ProcessAudioCallback`, sound routing | controller, connector |
| Callback connector (`sound/interfaces/GOSoundCallbackConnector`) | `p_OrganEngine`, `m_NCallbacksEntered` | `AudioCallback`, `ConnectToEngine`, `DisconnectFromEngine` | drivers, controller |
| Sound tasks (`sound/tasks/`) | `m_RunState` per task, buffers, lists of samplers | `Run`, `EnsureBufferReady`, `CompleteRound`, `NewRound` | scheduler, each other |
| Windchest group task (cell of windchest and audio group) | `m_RunState`, `m_ActiveCount`, `m_IsToComplete`, two sampler lists | the same, by several threads at once | group tasks, workers |
| Sampler lists and pool (`sound/playing/`) | heads of linked lists, one `next` per sampler, `m_SamplerCount` | `Get`, `Put`, `Move`, `GetSampler`, `ReturnSampler` | main thread, all tasks |
| Sampler player (`sound/playing/GOSoundSamplerPlayer`) | current time, samplers with `stop` and `new_attack` | start, stop, switch, process, release | pipes, tremulants, tasks |
| Pipes and tremulants (`model/GOSoundingPipe`, `GOTremulant`) | `m_Instances`, sampler handle | `VelocityChanged`, `SetWaveTremulant`, `OnDrawstopStateChanged`, `AbortPlayback`, `StartPlayback` | keys, stops |
| Keys, manuals, couplers, stops, ranks (`model/`, `GOVirtualCouplerController`) | velocities per key and coupler, `m_UnisonOff`, engaged flags, velocity of each pipe | `SetMidiNoteState`, `SetKeyState`, `SetUnisonOff`, `SetOut`, `ChangeKey`, `SetPipeState` | MIDI, GUI |
| Drawstops (`model/GODrawstop`) | who engages the drawstop (`m_InternalStates`), the logical functions between drawstops | `SetInternalState`, `SetButtonState`, `SetCombinationState`, `Update`, `Reset` | keys, combinations |
| Timer (`core/GOTimer`), metronome, MIDI player | table of entries with reused slots; start, pause and position of a file | `SetTimer`, `UpdateInterval`, `DeleteTimer`, `Notify`, `Play`, `Pause`, `StopPlaying`, `HandleTimer` | main thread |
| Loader (`loader/`, `GOOrganController::LoadObjects`) | shared position, exceptions, stop flags, the cache file | `FetchNext`, `LoadObjectNoExc`, `UpdateCache`, join | controller |
| Combinations and setter (`combinations/`) | stored registrations, position of the sequencer, crescendo, Set mode | push, store, insert, delete, general cancel, combination file | GUI, MIDI |
| MIDI matching, recorders, file formats, signal processing, GUI | – | – | – |

### How they interact in one audio period

1. Every device thread asks for its buffer. The first output to arrive makes the output
   task compute itself (`EnsureBufferReady`), which runs its group tasks, which run the
   cells, which need the windchest tasks' amplitudes; workers run the same tasks from the
   plan in parallel. Several threads mix the same cell.
2. An output that has already got its buffer of this period waits at `[W1]`.
3. The callback that finishes last completes the round (`CompleteRound` of every task),
   advances the time and, in `StartPeriod`, opens the next round: the list is sorted by
   cost, every task is renewed, `m_NextItem` is reset and the workers are woken.
4. Meanwhile the main thread takes samplers from the pool and pushes them to cells, and
   writes stop and switch times into samplers that workers are mixing.
5. To change anything structural the main thread requests a stop on a period boundary,
   disconnects, waits for callbacks and workers to drain, and rebuilds.

Outside of the audio period, all in the main thread and depth first: a key goes from
`GOManual` through couplers to other manuals, to stops, ranks and pipes, which start and stop
samplers (step 4). A combination engages and releases drawstops, each of which updates the
drawstops that are a function of it, and the couplers and stops among them the keys. The
timer calls the metronome and the MIDI player, whose events press keys and buttons.

### What is hard about it

In the engine, interleavings of three kinds of threads around lock-free counters and lists;
wakeups that may be lost; checks that are stale when they are used; waits with and without
timeouts; the start and the end of a session; tasks that one round's stragglers may still touch
when the next round opens. Around it, recursion through objects that are being changed: handlers
that call each other in circles and come back to a table, a flag or a counter in the middle of a
change; and workers that fail one by one. `PROJECT.json` lists each of these at its line with the
properties that cover it.

### What makes each component correct

- *Scheduler threads*: no wakeup is lost; after a pause nobody touches the plan or a task;
  stop and destruction end.
- *Engine and connector*: each output gets each round once; a period is closed once and only
  when all are done; a graceful stop leaves a complete period; disconnection drains and returns.
- *Cell*: a published buffer is complete; nothing is mixed or processed twice; a reset finds
  the round at rest; nobody waits for ever.
- *Scheduler and tasks*: every task runs, in an order in which nothing of an earlier round
  is played; rounds end.
- *Lists and pool*: samplers are neither lost nor doubled; the count is exact.
- *Sampler player*: no note sounds for ever or is released twice, and none stops another that is
  held.
- *Keys and couplers*: when a handler returns, every pipe speaks as loudly as the loudest key
  that the engaged stops and couplers lead to it, whatever was switched while keys were down.
- *Drawstops and setter*: a drawstop is engaged exactly if somebody engages it; a recall has
  its effect whoever holds the drawstops; what was stored comes back from the file.
- *Timer*: whoever waits is woken, once, however the table changes under the walk; no event
  is played before its time.
- *Loader*: every object is loaded once or the user is told; no thread outlives the load;
  the load ends.

## 2. The modules

| Module | Models | Notes |
|---|---|---|
| `SchedulerThread` | `GOSchedulerThread`, `GOScheduler::GetNextTask`, the control calls that pause, extend, resume and destroy | one step per atomic access; `Parked` = between the two stores of `m_IsIdle`; a task is "inside Run()" |
| `OrganEngine` | `ProcessAudioCallback`, period counters, stop handshake, lifecycle | per output `pc` from taking its mutex to the reset loop; `delivered`, `graceful` are history |
| `CallbackConnector` | `AudioCallback`, `ConnectToEngine`, `DisconnectFromEngine` | extends `OrganEngine`: its actions happen between the connector's; the counter is modular like the `unsigned` in the code |
| `MixRound` | abstract: a cell takes over what was queued, publishes a part of it, is renewed | what `GOSoundGroupTask` relies on |
| `WindchestGroupTask` | `Run`, `EnsureBufferReady`, `CompleteRound`, `NewRound`, `Add` | implements `MixRound`; a buffer is the set of samplers mixed into it |
| `Scheduler` | `SortList`, `CompareItem`, `Update` | pure operators, no variables |
| `PeriodTasks` | the graph of tasks, workers, the lingering release task, the callback that copies, completes, sorts and renews, a change of the routing | extends `Scheduler`; a cell is seen from outside, as `MixRound` allows |
| `SamplerLists` | `Get`, `Put`, `Move` pointer by pointer, the pool's count | one action per load, link and exchange |
| `SamplerPlayer` | pipes, tremulants, `ProcessSampler`, the release task | a sound is the number of periods it lasts, times are counted in periods from now |
| `Stops` | `GOStop`, `GORank`, the velocity of a pipe | the end of every chain of keys; `calls` is the stack of handlers that are still to be called |
| `Couplers` | `GOManual`, `GOCoupler`, `GOVirtualCouplerController` | extends `Stops`: one action per handler that returns to its caller |
| `Drawstops` | `GODrawstop` with its internal states and logical functions | the same scheme of calls |
| `Combinations` | `GOCombination`: storing, and writing to and reading from a file | pure operators |
| `Setter` | `GOSetter`: generals, sequencer, crescendos, general cancel, combination files, organ settings | extends `Drawstops` and `Combinations` |
| `Timer` | `GOTimer` | its users are the module that extends it |
| `MidiPlayer` | `GOMidiPlayer`, `GOMetronome` on the timer | `played` (time since the start without pauses) is history |
| `Loader` | `LoadObjects`, `GOLoadThread`, `GOLoadWorker`, `GOObjectDistributor`, `UpdateCache` | `End` may come at any step; the cache file survives it, the rest does not |
| `SchedulerThreadProofs`, `CallbackConnectorProofs`, `WindchestGroupTaskProofs`, `PeriodTasksProofs`, `SamplersProofs` (of `SamplerPlayer` and `SamplerLists`), `MainThreadProofs` (of `Couplers` with `Stops`, and of `MidiPlayer`), `SetterProofs`, `LoaderProofs` | – | theorems and proofs |
| `MC...` | – | constants of the runs |

Names follow the code: `m_RunState` is `runState`, `GetNextTask` is `GetNextTask` (or the
steps `LoadGiving`, `FetchNext`, `LoadCount`, `Deref` where its interleaving matters).
`PROJECT.json` maps every definition to the lines it stands for. Definitions marked
*Faulty* are plausible bugs (a missing recheck, a dropped reset, a broadcast without the
mutex); no specification uses them. They are kept to show that each property really breaks
when the code is wrong.

How the modules compose: `CallbackConnector` contains `OrganEngine`. `SchedulerThread`
abstracts the callbacks to period boundaries, `OrganEngine` abstracts mixing to "the
buffer of this round is copied", `PeriodTasks` abstracts a cell to `MixRound`,
`WindchestGroupTask` abstracts lists to sets, `SamplerLists` shows what those sets are made
of, `SamplerPlayer` looks at one sampler through all of them. `Couplers` ends at the velocity of
a pipe, which is where `SamplerPlayer` begins; `Setter` ends at the drawstops that `Couplers`
switches by itself.

The main-thread modules (`Stops`, `Couplers`, `Drawstops`, `Setter`) keep what the running
handler has still to call as a sequence `calls`: a step takes the first call and puts the calls it
makes in its place. So a handler that changes state between two calls, or is called again
from below, is modelled in the order of the code, and properties of the returned state say
`AtRest`.

## 3. The runs

Run one with `tlc -config <cfg> <module>`, for instance `tlc -config MCSetter.cfg MCSetter`.

| Run | Bounds | States | Shows |
|---|---|---|---|
| `scheduler_thread` | 2 workers, plan of 1 slot extended to 2, 2 period boundaries per session, any number of sessions | 72 332 | `Quiescent`, `PlanSafe`, `RoundHandedOut`, `StopReturns`, `DeleteReturns` |
| `callbacks` | 2 outputs; connect, disconnect, stop and start without end, with callbacks of any earlier connection still on their way | 308 923 | `OncePerRound`, `GracefulStop`, `DisconnectDrains`, `DisconnectReturns` |
| `windchest_round` | 2 workers, which begin before the first round is opened, and the callback, 1 sampler, rounds and restarts without end | 201 109 | `RoundAtRest`, `DoneIsComplete`, `NoDoubleMix`, refinement of `MixRound`, `WaiterReturns`, `RoundEnds` |
| `period_tasks` | 1 worker and the callback over 8 tasks (3 windchests, 3 cells, group, output), every cost 0 or 1 in every round, one cell added later | 251 723 | `OutputFresh`, `InputsFirst`, `EveryTaskOffered`, `RoundEnds` |
| `sampler_lists` | 2 threads that start samplers, 2 workers, 3 samplers, up to the ABA case of `pool_aba` | 166 453 (symmetric ones counted once) | `Conserved`, `UsedExact`, `MixedSamplersStayOut` |
| `pool_aba` | 2 threads that start samplers, 1 worker, 3 samplers | – | counterexample to `NoneLost` |
| `sampler_player` | a pipe with a delay of one period, a percussive one and a synthesized tremulant, engaged or not when playback starts; 2 samplers, releases and fades of 1 period, loops that may end by themselves | 446 958 | `LoopsAccounted`, `StopsNoOtherAttack`, `OneRelease`, `NoteEnds` |
| `couplers` | manuals of 3 and 2 keys, the two outer ones of the first are played; a normal and a bass coupler in one "Couple Through" row, unison off in another, a flagged coupler that closes the circle; 2 stops on one rank and a bell; every sequence of keys and switches, stops of the sound included | 3 638 080 | `CouplersSettled`, `OuterVoice`, `PipesFollowKeys` |
| `setter` | 2 stops, one of which general cancel switches on, and a switch that is on while they differ; 1 general that the organ lists in part, 2 frames and a crescendo of 2 steps, one of each protected; 1 change of combinations | 3 726 115 | `DrawstopsSettled`, `RecallExact`, `CancelClears`, `GeneralsRoundTrip` |
| `loader` | 3 objects, 2 threads and the main thread, 2 settings; ends of the process without bound | 1 275 226 | `FetchedOnce`, `NothingElseLost`, `NoWorkerAfter`, `LoadEnds` |
| `lost_object` | the same | – | counterexample to `NothingLost` |
| `midi_player` | 4 events at 0, 2, 2 and 5, two of which press the metronome's button; the clock stops at 7 | 2 800 825 | `Armed`, `OneTimerEach`, `NotBeforeItsTime` |

The modules also state their type invariants (`TypeOK`, or with the module's name in front:
`KeysTypeOK`, `ListsTypeOK`, `DrawstopsTypeOK`), which hold on these instances and are proved
for all, under the hypotheses named in section 4. Deadlock is checked everywhere but in
`callbacks`, where the code itself may hang: see the observations.

### What the code does not keep, and what it keeps then

In six places the code leaves the path that its comments describe. The models follow it there,
and a history variable, which no action looks at, records that it has happened. The properties
say what is still kept, and a run or a configuration by hand each shows the strict property to fail
(`pool_aba` and the table of observations).

| Module | History | Set when | What is kept |
|---|---|---|---|
| `CallbackConnector` | `lost`, `escaped` | `ConnectToEngine()` resets the counter while callbacks of the last connection are counted (`lost` of them); a wait for callbacks has ended with one inside (`escaped`) | no more callbacks are inside after a disconnection than were forgotten (`DisconnectDrains`); until one has escaped, everything else |
| `WindchestGroupTask` | `starting`, `overtaken` | streaming starts and owes a round; a round was opened while threads were mixing | only the round that the start owes may be overtaken (`RoundAtRest`); every round that is opened in peace is complete, whatever came before it |
| `SamplerLists` | `aba` | an exchange has found its head taken and returned meanwhile | samplers are lost in no other way (`Conserved`), and only if two threads take from the pool (`AbaNeedsTwoPlayers`) |
| `SamplerPlayer` | `unheld`, `told` | `StartPlayback()` has started the sampler and kept no handle; the sampler was told to stop | no other sampler sounds for ever (`LoopsAccounted`, `NoteEnds`) |
| `Couplers` | `repeated` | a "Couple Through" button has released a unison-off coupler that was not engaged | only the keys of that manual are wrong, and only in whether the player's own keys count (`PipesFollowKeys`) |
| `Loader` | (the state `Spinning`) | the pool is full, nobody loads any more and a worker asks again and again | the load ends in every other case (`LoadEnds`) |

### Why the bounds are enough

Two workers and the callback are the fewest that give a first, a last and a late
participant of a round. Two outputs are the fewest of which one can be ahead. Three samplers
are the fewest with which a free list can lose more than its head; two threads that start samplers
and two workers the fewest that race for the pool and for a cell at once. One worker suffices in
`period_tasks` because a task's mutex admits one thread at a time and the cells' sharing is
`WindchestGroupTask`'s subject. Two samplers for three notes make the pool run dry while
notes are started, switched and released.

Three keys are the fewest with an inner voice for the bass coupler to leave out and one more key
to follow when the lowest is released; two manuals the fewest for a circle; two stops on one rank
the fewest between which a pipe can choose. One velocity is enough, because a key that goes round
loses levels and so there are several velocities anyway. `Wrap` = 4 lets `m_UnisonOff` wrap below
zero and still counts more unison-off couplers than there are. Two stops that a crescendo and a
combination hold in turn, with a function of both, are the fewest in which recalls, crescendo and
cancel can disagree; `MaxEdits` bounds only how often combinations are changed, not how often they
are recalled. Three objects let one worker be late, one fail and one go on. Two events at one
time, one of which starts and one of which stops the metronome, change the table twice within one
call of a handler; `Second` = 3 makes the player's own wakeups fall between events.

Rounds, sessions, reconnections, loads and key strokes are not bounded. The bounds in guards are
`MaxPlan`, `MaxPeriods`, `MaxLife`, `MaxEdits` and `MaxTime`; the constants `CounterMod`,
`CountMod`, `UsedMod`, `Wrap` and `Second` scale a width or a unit down. The constraint
`BeforeAba` in `sampler_lists` leaves out only states in which its properties say nothing.

### Fairness

- *Threads run*: weak fairness for each step of a worker, a callback or the control thread
  that is inside a call, and in `Loader` for each worker and for the main thread inside
  `LoadObjects()`. The operating system gives no more and no less.
- *Strong fairness* only where a thread is blocked for a mutex that is free again and again
  (steps of a callback in `callbacks`, of a task in `windchest_round`), and for the release
  task in `sampler_player`: `CompleteRound()` runs `Run()` before it passes the rest back
  to the cells, and `Run()` processes more than ten samplers even when it is told to
  complete, so a sampler that queues up again and again is taken in the end.
- *None* for timeouts, spurious wakeups, the user, or the drivers. Where a property needs
  the devices to go on calling, it says so as its hypothesis (`DevicesKeepCalling`).
- `DisconnectReturns` asks in addition that the connection has forgotten no callback, and `LoadEnds`
  excepts the one state in which the code spins (`Spinning`): see the observations.

The handlers of the main thread need no fairness: that they return is a matter of depth, not
of scheduling. `RecursionBounded` in `Couplers` bounds their stack. It holds on the instance
of `couplers`, and not on one whose circle also shifts the keys (`MCEndlessCircle.cfg`).

## 4. What is proved

TLAPS checks the proofs for every value of the constants; the assumptions are the `ASSUME`s
of the modules (finite sets of threads, bounds that are numbers, `Null` outside its type).

**Worker pool** (`SchedulerThreadProofs`). `TypeOK`, `Quiescent`, `PlanSafe` for any
number of workers and slots. The pause alone does not make `Quiescent` inductive: a worker
that read `m_IsNotGivingWork` too early is still on its way to the plan. The invariant says
that `m_IsIdle` is true exactly between its two stores, and that during the pause only
threads that `WaitForIdle()` has still to visit may be inside.

**Engine and connector** (`CallbackConnectorProofs`). `DisconnectDrains`, `OncePerRound`,
`GracefulStop` for any number of outputs, whatever the devices, the user, the timeouts and the
reset of the counter do. The invariant has two halves. One holds always (`BaseInv`): the counter
is the number of callbacks that have entered less the `lost` ones, modulo its width
(`CounterExact`), and the gate is shut before the wait begins (`GateInv`), which gives
`DisconnectDrains`: the wait ends at zero, so those inside are among the forgotten. The other
holds until a callback has escaped (`StrictInv`) and has one part per mechanism: whoever holds the
audio of this round has its flag set or is on its way to set it (`HasAudio`, `DeliveredInv`), so
the counter of the period is their number (`PeriodInv`) and the one who finishes last closes the
period alone (`CloserInv`); a stop is allowed only in a complete round that nobody is closing any
more (`StopInv`). From these follow also `ClosedOnceForAll`, which the module states and no run
checks, and, with one more part that counts the callbacks that have entered the period and not yet
finished it (`EnteredInv`), `TypeOK`.

**Cell** (`WindchestGroupTaskProofs`). `TypeOK`, `CountExact`, `RoundAtRest`, `MixedOnce`,
`DoneIsComplete`, `NoDoubleMix` and the refinement `Spec => Mixing!MixSpec`, for any finite set of
threads and any samplers, with workers that get work before the first round is opened. In every
round (`BaseInv`) a list that is not empty has somebody who empties it (`WorkInv`), so a round
that is opened with nobody mixing finds nothing left of the one before, broken or not. In a round
that was opened with nobody mixing (`StrictInv`) `m_ActiveCount` is the number of participants, so
the thread that decrements it to zero is the last; the invariant says where a sampler of the round
may be (`Coverage`), and that the owner renews only what is done. So the next round is opened with
nobody mixing again, unless it is the one that the start of streaming owes. `MixRound` has a step
`Break` for that one, which promises nothing until a round is opened in peace.

**Sampler lists** (`SamplersProofs`). `Conserved`, `UsedExact` and `MixedSamplersStayOut` for any
number of workers, samplers and threads that start notes: unless an exchange meets the ABA problem
(finding 1) nothing is lost, doubled or miscounted, and it cannot with one thread that takes from
the pool (`AbaNeedsTwo`). The invariant (`PoolInv`) says that each sampler can be given a place (a
list, or the hands of a thread) and a depth in its list such that

- `next` pointers stay in a list and come one nearer to its end (`Linked`), and every sampler of a
  list but the first has one in front of it (`Headed`), so a list is one chain without a circle;
- a sampler outside the lists is owned by exactly one thread (`Owned`);
- the head that `Get()` has loaded, as long as it is still in the list, has the `next` pointer
  that was read (`Loaded`), in a cell's list, because nothing that a thread has popped comes back to
  it while another pops from it, and in the pool if one thread only takes from it; of
  several, one may have been overtaken, and then its exchange fails or is the ABA problem;
- what was mixed in this round is not in the round's list (`MixedOut`), and the count is the number
  of the samplers that are not on their way to the pool (`Counted`).

That there are such a place and such a depth is carried from step to step: four lemmas say how
a pop, a push, an exchange and `Move()` change them.

**Sampler player** (`SamplersProofs`). `TypeOK`, `LoopsAccounted`, `StopsNoOtherAttack`,
`OneRelease` for any notes, tremulants, delays and number of samplers. A held loop may end by
itself, its sampler be returned and start again while its note still has the handle. The invariant
says that a looped attack is the one its note holds, unless it was told to stop or
`StartPlayback()` started it (`HeldInv`), and that between check and write the sampler is not the
attack of another note (`CallInv`), because only the main thread starts attacks, and it is in
`StopSample()` itself; a note that sounds for ever only *after* a switch has to be accounted for
from the moment the switch is asked for.

**Loader** (`LoaderProofs`). `TypeOK`, `FetchedOnce`, `NothingElseLost`, `NoWorkerAfter` for any
number of objects, threads and settings, with a process that may end at any step. Objects that are
ready or held by a worker lie below the shared position, which gives `FetchedOnce`. For
`NothingElseLost` the invariant follows each object that has been fetched: it is ready, is being
loaded, is the one at which the cache broke off, or its failure has been noted by the worker that
had it, and the main thread looks at every note before it reports success; a worker that leaves
with objects still to fetch has noted why.

**Keys and couplers** (`MainThreadProofs`), for any organ: manuals, stops, ranks, couplers and
the ways they lead to each other.

- *Types.* `KeysTypeOK` needs to know in which order calls are pending (`CallsInv`): a handler only
  calls handlers that are as near to the pipes as itself or nearer (`Depth`), and an output and the
  key it presses are called at once. So the levels and the keys that a pending call carries
  are still right when it runs, and `PreparePlayback()`, at the very end, finds nothing pending.
- `PipesFollowKeys` (`PipesFollow`). A pipe has the maximum of what the stops asked (`PipeInv`),
  although it is searched for only when it may have become smaller. A stop has asked for what it
  wants, it knows how the keys sound and the division knows that too, or the call that will say so
  is pending with the value that is right now (`StopsInv`, `HearsInv`); `m_UnisonOff` is the
  number of unison-off couplers that are engaged but for the next call, until a "Couple Through"
  button has released one that was not engaged; from then on a key of that manual sounds with or
  without the player's own, and no other way. The only hypothesis is that there are fewer
  unison-off couplers than an `unsigned` counts (`FewUnisons`).
- `CouplersSettled` and `OuterVoice`. A coupler has taken what it may follow, or is about to, or the
  coupler that the key comes through will pass it on again (`TakenInv`); its output is in its slot
  of the destination or on its way there (`OutInv`, `SaidInv`); slot 0 has the player's own
  velocity (`OwnInv`); and a coupler has sent what its tone says (`TonesInv`). The last is the hard
  one: `ChangeKey()` gives up the old tone, which runs other couplers, before it takes the
  new one with what it knew before. `WindowInv` says which calls can run in between: those that come
  out of this coupler through engaged ones. If none of them leads back to it, what it
  knew is still true (`Between`).
- *Hypothesis.* `NoBassCircle`, of every state that the player reaches: no bass or melody coupler
  is in a circle of couplers that are engaged at the time. It is about what is switched, not about
  what is built: every organ has bass and melody couplers both ways between its manuals. Normal
  couplers may form circles, and outside of a circle there may be bass couplers. The instance of
  `couplers` does have a bass coupler in a circle, and there the properties hold; but they cannot
  hold for all such circles, because handlers of some never return (`MCEndlessCircle.cfg`).
- *Circles.* `PreparePlayback()` clears couplers but not their tones, so it is right only if there
  is no tone left. The player has released every key by then, and the strongest key that a coupler
  still held would be a level weaker than itself (`AllReleased`). The same argument gives
  `SilentWhenReleased`, under the same hypothesis: no circle of couplers sounds on after the last
  key is released.

**MIDI player** (`MainThreadProofs`). All three properties for any file, any tempo and any length
of the run. `m_Start` is a moment while the file plays and a duration while it pauses; either way
it measures the time played so far (`StartMeasures`). That is inductive only together with
`PauseInv`: no entry of the table belongs to a pausing player, whatever the metronome and the
walk of `Notify()` do to the table, so `HandleTimer()` never reads the duration as a moment.
This gives `NotBeforeItsTime`. `OneTimerEach` needs `TableInv`: in a `HandleTimer()` that
`Notify()` has called, the player still has the entry that the walk is at, with interval 0; so
`SetTimer()` takes another place (the first free one, or a new one) and `Notify()` frees the old
one when the handler has returned, even if the handler has pressed the metronome's button
meanwhile. `Armed` needs `AlarmInv`: outside of `Notify()` the `wxTimer` waits for every live
entry, and no entry is set for a moment before the start of the program, so that the set of times
has a least one (well-ordering of `Nat`). `TypeOK` follows: the walk and the position never leave
the table and the file, and every interval in the table is 0 or a length of a beat.

**Audio periods** (`PeriodTasksProofs`). `TypeOK`, `InputsFirst`, `EveryTaskOffered`, `OutputFresh`
and `RenewedAtRest` for any graph of tasks, any number of workers, any costs and any
`ReleaseConcurrency`.

- *The list.* A comparison of costs may move a task past another of a lower priority, so the list
  is not sorted by priority, and `InputsFirst` is not inductive. `Behind` is: a task that
  sums buffers has no cost and therefore never gets in front of one of a lower priority, in any
  single insertion of the sort (`InsertKeeps`), and the list that was sorted in the last round
  is as good as any other to start from. That the first task is never compared (`j > 0`) does no
  harm, because it has no inputs. The plan holds positions; `PlanCovers` shows that every position
  is in it, whatever the runs of priorities are, so sorting the list under the plan loses no task.
- *The rounds.* A thread's calls are a stack of tasks that it holds, each asked for by the next one
  (`Stack`). What the callback has completed is done, what it has still to renew is done, and so
  nobody is in a task of an earlier round (`OwnerInv`, `FrameCurrent`). A worker
  may already run a task of the next round while the callback renews the rest; then the
  task's inputs stand before it (`InputsFirst`), so they have been renewed, and what it reads of
  them is new (`InputCurrent`, `Fresh`).
- *Recursion.* `SortList`, `Plan` and `Prerequisites` recurse towards the end of a list, as
  recursive functions over positions. `Recursive` shows that such a function exists and
  `Downwards` is the induction along it; both come from the well-ordering of `Nat`, with sets in
  place of operator parameters.
- *Assumptions.* `GraphAssumption` says of the graph what the code builds: inputs have lower
  priorities (the constants in `GOSoundTaskBase.h`), a cell has no inputs and is the only kind of
  task with a cost, every registered task is built once, and the first one built is a tremulant or
  the windchest that is always there.

**Setter** (`SetterProofs`). `TypeOK`, `DrawstopsSettled`, `RecallExact`, `CancelClears` and
`GeneralsRoundTrip` for any drawstops, elements, frames, banks and steps, and for any functions
between drawstops without a cycle.

- A drawstop agrees with those who engage it or with its function, or an `Update()` of it is among
  the calls still to come (`SettledInv`). A function may be computed from a value that is about to
  change; it is computed again, and when no call is left everything agrees. The
  functions are assumed to be acyclic (`depth` in `DrawstopsAssumption`), as an organ in which
  a switch controls itself through others is not usable.
- For a recall and a cancel, what is not yet as it should be is among the calls still to come, and
  nothing that comes before the end undoes it (`RecallInv`, `CancelInv`); `FinalLast` says that the
  call that lights the button, where the properties look, is the last one.
- A general that has been stored or loaded from a file comes back from one as it is (`StoredInv`,
  `RoundTrips`): a full one mentions every element, a scoped one its scope, and of any other
  `FromYaml()` switches off exactly what was off (`FillReturns`, `LoadedReturns`). Nothing is
  assumed of the initial combinations, which the organ definition or an older file may list in
  part: of such a one `FromYaml()` may switch off what was left alone, but what is on comes back
  on, and nothing else does (`OnReturns`).

The proofs made the models more exact: `CASE`s with guards that overlap, which TLC resolves by
taking the first, became disjoint (`Combinations`, `Drawstops`, `Couplers`), a crescendo's jump
became one call of `Push()` per step, `AllNotesOff()` and `SetRankKeyState()` became calls of
their own, as they are in the code, and assumptions that the instances satisfied silently
were written down.

Only model-checked: everything about liveness and fairness (`RoundEnds`, `NoteEnds`, `LoadEnds`
and the like: `ENABLED` and leads-to are beyond the provers used here), `RoundHandedOut`, and
`CouplersSettled` and `OuterVoice` where a bass or melody coupler is in a circle.

## 5. Findings and observations

Two runs end in a counterexample to what the code's own comments say:

1. **The pool's list has the ABA problem** (`pool_aba`;
   `sound/playing/GOSoundSimpleSamplerList.h:32`). The main thread and the release task both pop
   it; samplers can be lost until the organ is restarted.
2. **An object is lost where a cache file breaks off** (`lost_object`;
   `GOOrganController.cpp:424`). A local variable shadows the one that remembers the object, so it
   is not loaded from its file. A warning goes to the log (line 429), but no message is shown, the
   load counts as complete, and the object may be written to the next cache file as silence.

### Observations kept as configurations

These are checked by hand: each command ends in a counterexample.

| Command | Property | What it shows |
|---|---|---|
| `tlc -config MCStaleCallback.cfg MCCallbackConnector` | `DrainsAll` | A callback may survive a disconnection: `ConnectToEngine()` resets the counter of callbacks while one of the last connection may be between its two looks at the engine or before its `fetch_sub` (`GOSoundCallbackConnector.cpp:22`). When it counts out, the unsigned counter wraps, and the next `DisconnectFromEngine()` may wait for a zero that never comes. `GOSoundCallbackConnector.h` says that it "waits for all in-flight callbacks". |
| `tlc -config MCFirstRound.cfg MCWindchestGroupTask` | `AlwaysAtRest` | Work before the first round: the workers are created with `m_IsNotGivingWork` false and start on tasks; opening the first round then resets tasks that are being run (`GOSoundOrganEngine.cpp:423`). The same can happen after a resume, through a worker whose wakeup is still pending. |
| `tlc -config MCStaleAmplitude.cfg MCPeriodTasks` | `AmplitudeFresh` | A cell may be mixed with the last round's amplitude, because costs may move it in front of its windchest (`GOScheduler.cpp:114`). |
| `tlc -config MCReusedSampler.cfg MCSamplerPlayer` | `StopsOwnNote` | `StopSample()` checks that the sampler still plays the pipe and then writes. If the fader of the held loop is silent, the sampler may be returned in between and start as the release of another note, whose fade the stop time then begins early (`GOSoundSamplerPlayer.cpp:184-187`, `533`). It is never the attack of another note that is held. |
| `tlc -config MCTremulant.cfg MCSamplerPlayer` | `TremulantEnds` | A tremulant that is engaged when playback starts cannot be switched off: the handle of its sampler is dropped (`GOTremulant.cpp:119`). |
| `tlc -config MCCoupleThrough.cfg MCCouplers` | `UnisonExact` | The "Couple Through" button of a row with a unison-off coupler refreshes a coupler that is not engaged: `RefreshState()` ends in `SetUnisonOff(false)`, the unsigned `m_UnisonOff` wraps and the manual is mute (`GOVirtualCouplerController.cpp:215-223`, `GOManual.cpp:331-336`; `help/grandorgue.xml:6137-6142`). |
| `tlc -config MCEndlessCircle.cfg MCCouplers` | `RecursionBounded` | Handlers that call each other without end: the bass coupler and a normal one lead from the first manual to the second with "Couple Through", the second is coupled back one key lower. The key that comes back is lower than the bass, which gives up its tone, which releases that key, so the old tone is taken again; the levels do not fall, because the player's own key is taken each time (`GOCoupler.cpp:324-350`). |
| `tlc -config MCFullPool.cfg MCLoader` | `LoadReturns` | With a full pool `LoadNextObject()` of a worker that has had an object returns true without having fetched another (`GOLoadWorker.cpp:35-40`), and the loops around it go on until they are cancelled. |
| `tlc -config MCUnsaved.cfg MCUnsaved` | `UnsavedMarked` | After the combinations have been saved with the organ, a change no longer marks the organ as modified: `NotifyCmbPushed()` marks only the first one (`GOSetter.cpp:970-974`). |
| `tlc -config MCLateSettings.cfg MCLoader` | `SettingsTakeEffect` | "Update cache" after a change of the settings writes the new hash over samples converted with the old ones, so a reload does not bring the settings into effect (`GOAppWindow.cpp:1246`). |

### Other observations

*Engine*

- The *known pre-existing hazard* described in `GOSoundWindchestGroupTask.h:70-79` cannot
  happen: the mutex is held from the last `fetch_sub` to the publication (`MixedOnce`, proved).
- The cells' lists have many poppers and no ABA problem: during a round samplers are only
  popped from `m_GetList`, and nothing is pushed to it (`sampler_lists`). The pool has the
  same code but both pops and pushes.
- `EnsureBufferReady()` compares round numbers as a second line of defence: the callers
  inside tasks never straddle a round, because the tasks they run for are completed first.
- Sorting the list every round moves tasks under the plan, whose entries are slots: with
  `ReleaseConcurrency` of two or more a windchest task may be handed out twice in a round and a
  cell once. A second `Run()` returns at once, so only the balance of the load suffers.
  `SortList` never moves the first task (`j > 0`). `GetNextTask()` reads a slot while the list
  is sorted: a data race on a plain pointer.
- A looped note whose fader is silent ends by itself and leaves its handle behind
  (`GOSoundingPipe.cpp:504`).
- Comments that no longer describe the code: `GORoundCounter.h:29-32`,
  `GOSoundOrganEngine.h:310-325`, `GOSoundSystem.cpp:78-81`.

*Keys and stops*

- `GOStop.cpp:113-115` admits one key beyond the upper end of the part of a rank that the stop
  uses; `GORank::SetPipeState()` only checks the size of the rank. `Stops` has the condition as
  it is.

*Combinations*

- A jump of the crescendo by several steps stops pushing at the first step that changes
  something (`changed || Push(...)`, `GOSetter.cpp:1620`, `1628`).
- The override button indexes `N_CRESCENDOS * bank` (`GOSetter.cpp:1374`); loading a file changes
  the override modes but not the state names of the steps (`GOSetter.cpp:1097`).
- `GOCombination::Copy` drops `m_IsFull` and `m_HasScope`: a frame that was moved by Insert
  or Delete does not write its hidden "off" elements to the file. `GeneralsRoundTrip` is therefore
  stated of generals.
- Delete leaves the last frame as it is, although the help (`help/grandorgue.xml:6591`)
  says that slot 999 becomes empty.
- `StartPlayback()` calls `Update()` of an input drawstop that only a crescendo holds, which
  makes its default state true as well.

*Timer and MIDI player*

- The condition of the catch-up in `GOTimer.cpp:81` is always true, so a late metronome drifts
  instead of catching up.
- The last event of a MIDI file is not played (`GOMidiPlayer.cpp:256-259`).

*Loader*

- A process that ends in the middle of `UpdateCache()` leaves a file with a valid header and
  hash (`GOOrganController.cpp:643`); that is what makes finding 2 possible.

## 6. What is not modelled

- Divisional combinations and divisional couplers: they work like generals and couplers over
  a part of the drawstops. The velocity curve of a pipe, the display of keys, MIDI output.
- Events of a MIDI file that press the player's own buttons; the loading of a file; the
  metronome's measure; the player's speed.
- Reading the organ definition; the formats of samples and cache. An object that is loaded is
  one step.
- `GOScheduler::Remove()` (only tests call it), meters, the recorder's file, the touch task's
  walk over memory, opening and closing devices.
- MIDI matching (`GOMidiReceiver`, `GOMidiSender`), recorders, signal processing, sample formats,
  archives, configuration, temperaments, the GUI: numerical or textual code, or tables and
  dialogs without a protocol of their own. They are most of the lines of the repository.
- Relaxed memory: atomics are sequentially consistent in the code (no explicit orders). The
  `volatile` words `stop` and `new_attack` and the plain `m_CurrentTime` are read and written as
  whole words; the list slots that `GetNextTask` reads while the list is sorted are read at
  one point in time.

## 7. Plan

Done, in this order: worker pool, connector and engine, cell, tasks of a period, lists, sampler
player; keys and couplers, drawstops and setter, timer and MIDI player, loader. Next:

1. *Proofs*: a bound of the recursion for couplers that do not shift keys, and with it
   `CouplersSettled` for bass couplers in a circle.
2. *Divisionals*: a divisional setter over `Drawstops`, with the divisional couplers that
   push on other manuals.
3. *Composition*: `Setter` over `Couplers`, so that a recall switches couplers while keys
   are down.
4. *MIDI receivers*: the matching of messages as operators, with the receivers that toggle and
   the ones that debounce.
