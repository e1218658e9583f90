-------------------------- MODULE CallbackConnector --------------------------
(***************************************************************************)
(* GOSoundCallbackConnector over GOSoundOrganEngine: the device threads    *)
(* call AudioCallback(), the control thread connects and disconnects the   *)
(* engine (GOOrganController::ResumeOrgan and SuspendOrgan).               *)
(*                                                                         *)
(* A callback may be on its way in or out of AudioCallback() while the     *)
(* control thread disconnects and connects again, and ConnectToEngine()    *)
(* sets the counter to zero whatever it counts.  Two history variables say *)
(* what that leads to: lost, how many callbacks the last reset forgot, and *)
(* escaped, whether a wait for the callbacks has ended with one inside.    *)
(***************************************************************************)
EXTENDS OrganEngine

CONSTANT CounterMod   \* 2^width of m_NCallbacksEntered (atomic_uint), scaled down

ASSUME ConnectorAssumption ==
  CounterMod \in Nat /\ CounterMod > NOutputs + 1

VARIABLES
  published,   \* p_OrganEngine is not null
  nCallbacks,  \* m_NCallbacksEntered
  lost,        \* history: the callbacks that were counted at the last reset
  escaped      \* history: a drain has ended while a callback was inside

historyVars   == <<lost, escaped>>
connectorVars == <<published, nCallbacks, historyVars>>
vars          == <<engineVars, connectorVars>>

\* Between the first look at p_OrganEngine and the return of AudioCallback().
Prologue == {"add", "recheck"}
Epilogue == {"sub", "subCheck", "notify"}

\* A callback counts from its fetch_add to its fetch_sub.
Entered == {o \in Outputs : pc[o] \in {"recheck", "sub"} \union InEngine}
Inside  == {o \in Outputs : pc[o] \in InEngine}

----------------------------------------------------------------------------
(* AudioCallback() *)

\* The driver calls, with the expected buffer size. With no engine the buffer
\* is filled with silence and the callback returns.
Invoke(o) ==
  /\ pc[o] = "out"
  /\ published
  /\ Goto(o, "add")
  /\ UNCHANGED <<lifecycle, periodVars, handshakeVars, todo, ctlVars, connectorVars>>

CountIn(o) ==
  /\ pc[o] = "add"
  /\ nCallbacks' = (nCallbacks + 1) % CounterMod
  /\ Goto(o, "recheck")
  /\ UNCHANGED <<lifecycle, periodVars, handshakeVars, todo, ctlVars, published, historyVars>>

\* Faulty: p_OrganEngine is not looked at again after counting in.
RecheckMissing(o) ==
  /\ pc[o] = "recheck"
  /\ Goto(o, "lock")
  /\ UNCHANGED <<lifecycle, periodVars, handshakeVars, todo, ctlVars, connectorVars>>

\* Faulty: a callback that finds the engine gone leaves without counting out.
RecheckLeaking(o) ==
  /\ pc[o] = "recheck"
  /\ Goto(o, IF published THEN "lock" ELSE "out")
  /\ UNCHANGED <<lifecycle, periodVars, handshakeVars, todo, ctlVars, connectorVars>>

\* p_OrganEngine is looked at again, now that the callback counts.
Recheck(o) ==
  /\ pc[o] = "recheck"
  /\ Goto(o, IF published THEN "lock" ELSE "sub")
  /\ UNCHANGED <<lifecycle, periodVars, handshakeVars, todo, ctlVars, connectorVars>>

\* fetch_sub(1) on an unsigned counter; only the last one out looks whether the
\* control thread is waiting.
CountOut(o) ==
  /\ pc[o] = "sub"
  /\ nCallbacks' = (nCallbacks - 1) % CounterMod
  /\ Goto(o, IF nCallbacks <= 1 THEN "subCheck" ELSE "out")
  /\ UNCHANGED <<lifecycle, periodVars, handshakeVars, todo, ctlVars, published, historyVars>>

CheckDisconnecting(o) ==
  /\ pc[o] = "subCheck"
  /\ Goto(o, IF published THEN "out" ELSE "notify")
  /\ UNCHANGED <<lifecycle, periodVars, handshakeVars, todo, ctlVars, connectorVars>>

\* Faulty: without m_CallbackMutex the broadcast may come between the control
\* thread's look at the counter and its wait.
NotifyWithoutMutex(o) ==
  /\ pc[o] = "notify"
  /\ ctl' = IF ctl = "drainWait" THEN "drainCheck" ELSE ctl
  /\ Goto(o, "out")
  /\ UNCHANGED <<lifecycle, periodVars, handshakeVars, todo, visit, connectorVars>>

\* m_CallbackMutex makes sure the control thread is in its wait, or past it.
Notify(o) ==
  /\ pc[o] = "notify"
  /\ ctl \notin {"drainCheck", "drainSleep"}
  /\ ctl' = IF ctl = "drainWait" THEN "drainCheck" ELSE ctl
  /\ Goto(o, "out")
  /\ UNCHANGED <<lifecycle, periodVars, handshakeVars, todo, visit, connectorVars>>

AudioCallback(o) ==
  \/ CountIn(o) \/ Recheck(o) \/ CountOut(o)
  \/ CheckDisconnecting(o) \/ Notify(o)
  \/ ProcessAudioCallback(o) /\ UNCHANGED connectorVars

----------------------------------------------------------------------------
(* ConnectToEngine(): SetUsed(true) and the reset of the counter, then       *)
(* SetStreaming(true), then the gate opens.                                  *)

Connect ==
  /\ ctl = "working"
  /\ lifecycle' = "USED"
  /\ nCallbacks' = 0
  /\ lost' = Cardinality(Entered)
  /\ ctl' = "enable"
  /\ UNCHANGED <<periodVars, handshakeVars, callbackVars, visit, published, escaped>>

Publish ==
  /\ ctl = "publish"
  /\ published' = TRUE
  /\ ctl' = "connected"
  /\ UNCHANGED <<lifecycle, periodVars, handshakeVars, callbackVars, visit, nCallbacks, historyVars>>

(* DisconnectFromEngine(): ask for a period boundary, close the gate, wake   *)
(* [W1], wait for the callbacks that are inside.                             *)

Disconnect ==
  /\ ctl = "connected"
  /\ ctl' = "edLock"
  /\ UNCHANGED <<lifecycle, periodVars, handshakeVars, callbackVars, visit, connectorVars>>

Unpublish ==
  /\ ctl = "unpublish"
  /\ published' = FALSE
  /\ ctl' = "disable"
  /\ UNCHANGED <<lifecycle, periodVars, handshakeVars, callbackVars, visit, nCallbacks, historyVars>>

LockCallbackMutex ==
  /\ ctl = "drain"
  /\ ctl' = "drainCheck"
  /\ UNCHANGED <<lifecycle, periodVars, handshakeVars, callbackVars, visit, connectorVars>>

CheckDrained ==
  /\ ctl = "drainCheck"
  /\ ctl' = IF nCallbacks > 0 THEN "drainSleep" ELSE "drained"
  /\ escaped' = (escaped \/ (nCallbacks = 0 /\ Inside # {}))
  /\ UNCHANGED <<lifecycle, periodVars, handshakeVars, callbackVars, visit,
                 published, nCallbacks, lost>>

\* WaitOrStop() without a thread: no timeout. The mutex is released here.
SleepUntilDrained ==
  /\ ctl = "drainSleep"
  /\ ctl' = "drainWait"
  /\ UNCHANGED <<lifecycle, periodVars, handshakeVars, callbackVars, visit, connectorVars>>

\* SetUsed(false).
Disconnected ==
  /\ ctl = "drained"
  /\ lifecycle' = "WORKING"
  /\ ctl' = "working"
  /\ UNCHANGED <<periodVars, handshakeVars, callbackVars, visit, connectorVars>>

\* The steps the control thread takes by itself once it is inside a call.
ControlStep ==
  \/ EnsureStreamingDisableAllowed /\ UNCHANGED connectorVars
  \/ EnableStreaming /\ UNCHANGED connectorVars
  \/ Publish \/ Unpublish
  \/ DisableStreaming /\ UNCHANGED connectorVars
  \/ \E p \in Outputs : BroadcastW1(p) /\ UNCHANGED connectorVars
  \/ LockCallbackMutex \/ CheckDrained \/ SleepUntilDrained \/ Disconnected

\* What GOOrganController decides to call.
ControlCall ==
  \/ Connect \/ Disconnect
  \/ (StartEngine \/ StopEngine) /\ UNCHANGED connectorVars

\* Waits that end by themselves.
Wakeups ==
  \/ (SpuriousStopWakeup \/ StopTimeout) /\ UNCHANGED connectorVars
  \/ \E o \in Outputs : SpuriousWakeup(o) /\ UNCHANGED connectorVars

----------------------------------------------------------------------------

\* BuildEngine() has just returned; no audio has been asked for yet.
Init ==
  /\ lifecycle = "BUILT"
  /\ finished = [o \in Outputs |-> FALSE]
  /\ nEntered = 0 /\ nFinished = 0
  /\ requested = FALSE /\ allowed = FALSE /\ toStart = FALSE
  /\ pc = [o \in Outputs |-> "out"]
  /\ todo = [o \in Outputs |-> {}]
  /\ ctl = "built"
  /\ visit = {}
  /\ round = "open"
  /\ delivered = [o \in Outputs |-> 0]
  /\ graceful = FALSE
  /\ published = FALSE
  /\ nCallbacks = 0
  /\ lost = 0 /\ escaped = FALSE

Next ==
  \/ \E o \in Outputs : Invoke(o) \/ AudioCallback(o)
  \/ ControlStep \/ ControlCall \/ Wakeups

\* Both threads run, and a callback blocked for a mutex that is released again
\* and again gets it (strong fairness; spurious wakeups alone cannot keep it
\* out). No fairness on timeouts, on the devices' calls or on what the user does.
Fairness ==
  /\ \A o \in Outputs : SF_vars(AudioCallback(o))
  /\ WF_vars(ControlStep)

Spec     == Init /\ [][Next]_vars
FairSpec == Spec /\ Fairness

----------------------------------------------------------------------------
(* Properties *)

CtlPCs == {"built", "working", "enable", "publish", "connected", "edLock",
           "edRequest", "edCheck", "edWait", "unpublish", "disable",
           "broadcast", "drain", "drainCheck", "drainSleep", "drainWait", "drained"}

\* The wait for the callbacks is over, and the next connection is not yet open.
DrainedCtl == {"drained", "working", "built", "enable", "publish"}

\* The type of every variable of the connector and of the engine under it. Until
\* a callback escapes, both counters of the period stay within the number of
\* outputs.
TypeOK ==
  /\ EngineTypeOK
  /\ ~escaped => nEntered <= NOutputs /\ nFinished <= NOutputs
  /\ pc \in [Outputs -> {"out"} \union Prologue \union Epilogue \union InEngine]
  /\ ctl \in CtlPCs
  /\ published \in BOOLEAN
  /\ nCallbacks \in 0..(CounterMod - 1)
  /\ lost \in 0..NOutputs /\ escaped \in BOOLEAN

\* As GOSoundCallbackConnector.h has it, DisconnectFromEngine() "waits for all
\* in-flight callbacks to finish before returning": no callback is inside until
\* the next connection. Not so: a callback that is delayed between its fetch_add
\* and its second look at p_OrganEngine, or before its fetch_sub, while the
\* engine is disconnected and connected anew, is no longer counted.
DrainsAll == ctl \in DrainedCtl => Inside = {}

\* What DisconnectFromEngine() keeps of that: once its wait is over and until the
\* next connection is published, no more callbacks are inside the engine, whose
\* tasks SuspendOrgan()'s callers go on to change or delete, than the reset in
\* the last ConnectToEngine() has forgotten, and none if no callback was on its
\* way at that reset.
DisconnectDrains == ctl \in DrainedCtl => Cardinality(Inside) <= lost

\* The counter the control thread waits for is the number of callbacks between
\* their fetch_add and their fetch_sub less those the reset has forgotten; when
\* these leave, it wraps.
CounterExact == nCallbacks = (Cardinality(Entered) - lost) % CounterMod

\* Until a callback escapes, an output gets the audio of a round at most once and
\* only while the round is open, also across a disconnect that a timeout cut
\* short and the reconnect that plays the rest of the period, and with callbacks
\* of an earlier connection still on their way.
OncePerRound ==
  ~escaped =>
    \A o \in Outputs :
      /\ delivered[o] <= 1
      /\ pc[o] = "copy" => round = "open"

\* Until a callback escapes, FinishPeriod() runs in one callback at a time and only
\* when every output has the audio of the round and no callback is still copying.
ClosedOnceForAll ==
  ~escaped =>
    \A o \in Outputs :
      pc[o] = "finishPeriod" =>
        /\ \A p \in Outputs : delivered[p] = 1 /\ pc[p] \notin {"enter", "copy"}
        /\ \A p \in Outputs \ {o} : pc[p] \notin Closing

\* Until a callback escapes: when EnsureStreamingDisableAllowed() reports a graceful
\* stop, the round is complete and every output has played it, and that stays so
\* until the disconnection is over: no callback opens another round behind it.
GracefulStop ==
  ~escaped /\ graceful
    /\ ctl \in {"unpublish", "disable", "broadcast", "drain",
                "drainCheck", "drainSleep", "drainWait", "drained"} =>
    /\ round = "complete"
    /\ toStart
    /\ \A o \in Outputs : finished[o] /\ delivered[o] = 1

\* While the engine is published, every device calls back again and again (with
\* no engine its calls only write silence).
DevicesKeepCalling == \A o \in Outputs : []<>(pc[o] # "out" \/ ~published)

\* The handshake and the drain lose no wakeup: if the last connection has
\* forgotten no callback and the devices call back, DisconnectFromEngine()
\* returns, even if no timeout ever helps, or a callback has escaped before and
\* spoilt the counters of the period. (If it has forgotten one, the counter
\* wraps when that callback leaves, and the wait for zero may never end.)
DisconnectReturns ==
  DevicesKeepCalling =>
    ((ctl = "edLock" /\ lost = 0) ~> (ctl = "working" \/ escaped))

==============================================================================
