----------------------------- MODULE OrganEngine -----------------------------
(***************************************************************************)
(* GOSoundOrganEngine between BUILT and STREAMING: the audio callbacks of  *)
(* the output devices (ProcessAudioCallback), the audio period they share  *)
(* (StartPeriod, FinishPeriod), the handshake that lets the control thread *)
(* stop on a period boundary (EnsureStreamingDisableAllowed) and the       *)
(* control thread's lifecycle calls.                                       *)
(*                                                                         *)
(* The steps here change the engine's state only.  CallbackConnector.tla   *)
(* puts them between AudioCallback(), ConnectToEngine() and                *)
(* DisconnectFromEngine().  The mixing itself is abstracted to "the output *)
(* task's buffer of the current round is copied".                          *)
(***************************************************************************)
EXTENDS Integers, FiniteSets

CONSTANT Outputs   \* the indices of m_OutputStates; one device thread each

ASSUME OutputsAssumption ==
  Outputs \subseteq Nat /\ Outputs # {} /\ IsFiniteSet(Outputs)

VARIABLES
  lifecycle,   \* m_LifecycleState
  finished,    \* isFinishedCurrPeriod of each output
  nEntered,    \* m_NCallbacksEnteredCurrPeriod
  nFinished,   \* m_NCallbacksFinishedCurrPeriod
  requested,   \* m_IsStreamingDisableRequested
  allowed,     \* m_IsStreamingDisableAllowed
  toStart,     \* m_IsToStartPeriod
  pc,          \* where each device's callback is
  todo,        \* outputs a callback's reset loop has still to visit
  ctl,         \* where the control thread is
  visit,       \* outputs SetStreaming(false) has still to wake
  round,       \* "open" from StartPeriod() to FinishPeriod(), then "complete"
  delivered,   \* history: how often each output got this round's audio
  graceful     \* history: what EnsureStreamingDisableAllowed() returned last

periodVars    == <<finished, nEntered, nFinished, round, delivered>>
handshakeVars == <<requested, allowed, toStart, graceful>>
callbackVars  == <<pc, todo>>
ctlVars       == <<ctl, visit>>
engineVars    == <<lifecycle, periodVars, handshakeVars, callbackVars, ctlVars>>

NOutputs == Cardinality(Outputs)

----------------------------------------------------------------------------

\* A callback owns its output's mutex except while it is blocked for it or
\* waiting on the output's condition.
Holding == {"w1", "ifStreaming", "enter", "copy", "count",
            "finishPeriod", "decide", "startPeriod", "reset", "ack"}
Closing == {"finishPeriod", "decide", "startPeriod", "reset", "ack"}
InEngine == Holding \union {"lock", "waiting", "relock"}

MutexFree(o) == pc[o] \notin Holding

\* m_StreamingDisableAllowedMutex: a callback holds it for one step only.
StopMutexFree == ctl \notin {"edRequest", "edCheck"}

IsStreaming == lifecycle = "STREAMING"

Goto(o, to) == pc' = [pc EXCEPT ![o] = to]

----------------------------------------------------------------------------
(* The period *)

\* StartPeriod(): a fresh round; nobody has its audio yet.
StartPeriod ==
  /\ round' = "open"
  /\ delivered' = [o \in Outputs |-> 0]

\* Faulty: the counters of the finished period are kept.
FinishPeriodKeepingCounters ==
  /\ round' = "complete"
  /\ UNCHANGED <<nEntered, nFinished>>

\* FinishPeriod(): CompleteRound() and, last, ResetPeriodCounters().
FinishPeriod ==
  /\ round' = "complete"
  /\ nEntered' = 0
  /\ nFinished' = 0

----------------------------------------------------------------------------
(* ProcessAudioCallback() for output o, from "lock" to the return at "sub". *)

LockOutput(o) ==
  /\ pc[o] \in {"lock", "relock"}
  /\ Goto(o, "w1")
  /\ UNCHANGED <<lifecycle, periodVars, handshakeVars, todo, ctlVars>>

\* Faulty: [W1] lets an output in that already has this period's audio.
CheckW1Never(o) ==
  /\ pc[o] = "w1"
  /\ Goto(o, "ifStreaming")
  /\ UNCHANGED <<lifecycle, periodVars, handshakeVars, todo, ctlVars>>

\* [W1]: while (IsStreaming() && isFinishedCurrPeriod) Wait().
CheckW1(o) ==
  /\ pc[o] = "w1"
  /\ Goto(o, IF IsStreaming /\ finished[o] THEN "waiting" ELSE "ifStreaming")
  /\ UNCHANGED <<lifecycle, periodVars, handshakeVars, todo, ctlVars>>

SpuriousWakeup(o) ==
  /\ pc[o] = "waiting"
  /\ Goto(o, "relock")
  /\ UNCHANGED <<lifecycle, periodVars, handshakeVars, todo, ctlVars>>

CheckStreaming(o) ==
  /\ pc[o] = "ifStreaming"
  /\ Goto(o, IF IsStreaming THEN "enter" ELSE "sub")
  /\ UNCHANGED <<lifecycle, periodVars, handshakeVars, todo, ctlVars>>

Enter(o) ==
  /\ pc[o] = "enter"
  /\ nEntered' = nEntered + 1
  /\ Goto(o, "copy")
  /\ UNCHANGED <<lifecycle, finished, nFinished, round, delivered,
                 handshakeVars, todo, ctlVars>>

\* EnsureBufferReady() and CopyFrom().
Copy(o) ==
  /\ pc[o] = "copy"
  /\ delivered' = [delivered EXCEPT ![o] = @ + 1]
  /\ Goto(o, "count")
  /\ UNCHANGED <<lifecycle, finished, nEntered, nFinished, round,
                 handshakeVars, todo, ctlVars>>

\* Faulty: the last one to enter closes the period, not the last to finish.
CountByEntered(o) ==
  /\ pc[o] = "count"
  /\ finished' = [finished EXCEPT ![o] = TRUE]
  /\ nFinished' = nFinished + 1
  /\ Goto(o, IF nEntered >= NOutputs THEN "finishPeriod" ELSE "sub")
  /\ UNCHANGED <<lifecycle, nEntered, round, delivered, handshakeVars, todo, ctlVars>>

\* isFinishedCurrPeriod = true; the last one to finish closes the period.
Count(o) ==
  /\ pc[o] = "count"
  /\ finished' = [finished EXCEPT ![o] = TRUE]
  /\ nFinished' = nFinished + 1
  /\ Goto(o, IF nFinished + 1 >= NOutputs THEN "finishPeriod" ELSE "sub")
  /\ UNCHANGED <<lifecycle, nEntered, round, delivered, handshakeVars, todo, ctlVars>>

ClosePeriod(o) ==
  /\ pc[o] = "finishPeriod"
  /\ FinishPeriod
  /\ Goto(o, "decide")
  /\ UNCHANGED <<lifecycle, finished, delivered, handshakeVars, todo, ctlVars>>

\* Continue with the next period, or answer a graceful stop (once).
Decide(o) ==
  /\ pc[o] = "decide"
  /\ Goto(o, IF ~requested THEN "startPeriod"
             ELSE IF ~allowed THEN "ack" ELSE "sub")
  /\ UNCHANGED <<lifecycle, periodVars, handshakeVars, todo, ctlVars>>

OpenNext(o) ==
  /\ pc[o] = "startPeriod"
  /\ StartPeriod
  /\ todo' = [todo EXCEPT ![o] = Outputs]
  /\ Goto(o, "reset")
  /\ UNCHANGED <<lifecycle, finished, nEntered, nFinished, handshakeVars, ctlVars>>

\* Faulty: the flag is cleared but nobody waiting at [W1] is told.
ResetOutputSilently(o, p) ==
  /\ pc[o] = "reset"
  /\ p \in todo[o] /\ \A q \in todo[o] : p <= q
  /\ p = o \/ MutexFree(p)
  /\ finished' = [finished EXCEPT ![p] = FALSE]
  /\ todo' = [todo EXCEPT ![o] = @ \ {p}]
  /\ pc' = [q \in Outputs |->
              IF q = o /\ todo[o] = {p} THEN "sub" ELSE pc[q]]
  /\ UNCHANGED <<lifecycle, nEntered, nFinished, round, delivered,
                 handshakeVars, ctlVars>>

\* One output of the reset loop, in index order, under that output's mutex
\* (the callback's own is held already), with Signal().
ResetOutput(o, p) ==
  /\ pc[o] = "reset"
  /\ p \in todo[o] /\ \A q \in todo[o] : p <= q
  /\ p = o \/ MutexFree(p)
  /\ finished' = [finished EXCEPT ![p] = FALSE]
  /\ todo' = [todo EXCEPT ![o] = @ \ {p}]
  /\ pc' = [q \in Outputs |->
              CASE q = o /\ todo[o] = {p}        -> "sub"
                [] q = p /\ pc[p] = "waiting"    -> "relock"
                [] OTHER                         -> pc[q]]
  /\ UNCHANGED <<lifecycle, nEntered, nFinished, round, delivered,
                 handshakeVars, ctlVars>>

\* The answer to EnsureStreamingDisableAllowed(), under its mutex, with
\* Broadcast().
AllowDisable(o) ==
  /\ pc[o] = "ack"
  /\ StopMutexFree
  /\ allowed' = TRUE
  /\ toStart' = TRUE
  /\ ctl' = IF ctl = "edWait" THEN "edCheck" ELSE ctl
  /\ Goto(o, "sub")
  /\ UNCHANGED <<lifecycle, periodVars, requested, graceful, todo, visit>>

ProcessAudioCallback(o) ==
  \/ LockOutput(o) \/ CheckW1(o) \/ CheckStreaming(o)
  \/ Enter(o) \/ Copy(o) \/ Count(o)
  \/ ClosePeriod(o) \/ Decide(o) \/ OpenNext(o) \/ AllowDisable(o)
  \/ \E p \in Outputs : ResetOutput(o, p)

----------------------------------------------------------------------------
(* EnsureStreamingDisableAllowed(), from "edLock" to the return at           *)
(* "unpublish".                                                              *)

LockStopMutex ==
  /\ ctl = "edLock"
  /\ ctl' = "edRequest"
  /\ UNCHANGED <<lifecycle, periodVars, handshakeVars, callbackVars, visit>>

RequestDisable ==
  /\ ctl = "edRequest"
  /\ requested' = TRUE
  /\ ctl' = "edCheck"
  /\ UNCHANGED <<lifecycle, periodVars, allowed, toStart, graceful, callbackVars, visit>>

\* Faulty: any wakeup is taken for the answer.
CheckAllowedOnce ==
  /\ ctl = "edCheck"
  /\ graceful' = TRUE
  /\ ctl' = "unpublish"
  /\ UNCHANGED <<lifecycle, periodVars, requested, allowed, toStart, callbackVars, visit>>

CheckAllowed ==
  /\ ctl = "edCheck"
  /\ ctl' = IF allowed THEN "unpublish" ELSE "edWait"
  /\ graceful' = allowed
  /\ UNCHANGED <<lifecycle, periodVars, requested, allowed, toStart, callbackVars, visit>>

SpuriousStopWakeup ==
  /\ ctl = "edWait"
  /\ ctl' = "edCheck"
  /\ UNCHANGED <<lifecycle, periodVars, handshakeVars, callbackVars, visit>>

\* WaitWithTimeout() elapses: the call gives up, whatever "allowed" says by now.
StopTimeout ==
  /\ ctl = "edWait"
  /\ graceful' = FALSE
  /\ ctl' = "unpublish"
  /\ UNCHANGED <<lifecycle, periodVars, requested, allowed, toStart, callbackVars, visit>>

EnsureStreamingDisableAllowed ==
  LockStopMutex \/ RequestDisable \/ CheckAllowed

----------------------------------------------------------------------------
(* Lifecycle calls. *)

StartEngine ==
  /\ ctl = "built"
  /\ lifecycle' = "WORKING"
  /\ toStart' = TRUE
  /\ ctl' = "working"
  /\ UNCHANGED <<periodVars, requested, allowed, graceful, callbackVars, visit>>

\* StopEngine() (the workers' side of it is in SchedulerThread.tla).
StopEngine ==
  /\ ctl = "working"
  /\ \A o \in Outputs : MutexFree(o)
  /\ nEntered' = 0
  /\ nFinished' = 0
  /\ finished' = [o \in Outputs |-> FALSE]
  /\ lifecycle' = "BUILT"
  /\ ctl' = "built"
  /\ UNCHANGED <<round, delivered, handshakeVars, callbackVars, visit>>

\* SetStreaming(true): open the round that is owed, and let every output in;
\* a period that a timeout cut short plays on instead.
EnableStreaming ==
  /\ ctl = "enable"
  /\ lifecycle' = "STREAMING"
  /\ toStart' = FALSE
  /\ IF toStart
       THEN /\ \A o \in Outputs : MutexFree(o)
            /\ StartPeriod
            /\ finished' = [o \in Outputs |-> FALSE]
       ELSE UNCHANGED <<finished, round, delivered>>
  /\ requested' = FALSE
  /\ allowed' = FALSE
  /\ ctl' = "publish"
  /\ UNCHANGED <<nEntered, nFinished, graceful, callbackVars, visit>>

\* SetStreaming(false): leave STREAMING ...
DisableStreaming ==
  /\ ctl = "disable"
  /\ lifecycle' = "USED"
  /\ visit' = Outputs
  /\ ctl' = "broadcast"
  /\ UNCHANGED <<periodVars, handshakeVars, callbackVars>>

\* ... and wake whoever waits at [W1], one output after another, under the
\* output's mutex.
BroadcastW1(p) ==
  /\ ctl = "broadcast"
  /\ p \in visit /\ \A q \in visit : p <= q
  /\ MutexFree(p)
  /\ visit' = visit \ {p}
  /\ IF pc[p] = "waiting" THEN Goto(p, "relock") ELSE UNCHANGED pc
  /\ ctl' = IF visit = {p} THEN "drain" ELSE ctl
  /\ UNCHANGED <<lifecycle, periodVars, handshakeVars, todo>>

----------------------------------------------------------------------------
\* The type of every variable of the engine.
EngineTypeOK ==
  /\ lifecycle \in {"BUILT", "WORKING", "USED", "STREAMING"}
  /\ finished \in [Outputs -> BOOLEAN]
  /\ nEntered \in Nat /\ nFinished \in Nat
  /\ requested \in BOOLEAN /\ allowed \in BOOLEAN /\ toStart \in BOOLEAN
  /\ round \in {"open", "complete"}
  /\ delivered \in [Outputs -> Nat]
  /\ graceful \in BOOLEAN
  /\ todo \in [Outputs -> SUBSET Outputs]
  /\ visit \subseteq Outputs

==============================================================================
