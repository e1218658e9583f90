------------------------ MODULE CallbackConnectorProofs ------------------------
(***************************************************************************)
(* Safety of the audio callbacks for any number of outputs: the inductive  *)
(* invariant behind DisconnectDrains, OncePerRound and GracefulStop.       *)
(* BaseInv holds whatever the reset of the counter forgets; StrictInv      *)
(* until a callback has escaped from a drain.                              *)
(***************************************************************************)
EXTENDS CallbackConnector, FiniteSetTheorems, TLAPS

\* The gate is open from Publish() to Unpublish().
PublishedCtl == {"connected", "edLock", "edRequest", "edCheck", "edWait", "unpublish"}
CallbackPCs == {"out"} \union Prologue \union Epilogue \union InEngine

PeriodTypes ==
  /\ finished \in [Outputs -> BOOLEAN]
  /\ nFinished \in Nat
  /\ requested \in BOOLEAN /\ allowed \in BOOLEAN /\ toStart \in BOOLEAN
  /\ round \in {"open", "complete"}
  /\ delivered \in [Outputs -> Nat]
  /\ graceful \in BOOLEAN
  /\ todo \in [Outputs -> SUBSET Outputs]
  /\ pc \in [Outputs -> CallbackPCs]
  /\ ctl \in CtlPCs
  /\ published \in BOOLEAN

ConnectorTypes ==
  /\ lifecycle \in {"BUILT", "WORKING", "USED", "STREAMING"}
  /\ nEntered \in Nat
  /\ visit \in SUBSET Outputs
  /\ nCallbacks \in 0..(CounterMod - 1)
  /\ lost \in 0..NOutputs /\ escaped \in BOOLEAN

Types == PeriodTypes /\ ConnectorTypes

\* The gate is shut before the wait begins, so that nobody comes in after it.
GateInv ==
  /\ published <=> ctl \in PublishedCtl
  /\ IsStreaming <=> ctl \in PublishedCtl \union {"publish", "disable"}

\* The counter is exact but for what the reset has forgotten: when it is zero, as many
\* callbacks are inside as the reset has forgotten at most.
BaseInv == Types /\ CounterExact /\ GateInv /\ DisconnectDrains

\* Until a callback escapes, nobody is inside after the wait.
DrainInv ==
  /\ GateInv
  /\ ctl \in DrainedCtl => \A o \in Outputs : pc[o] \notin InEngine

\* No output has the audio of a round twice.
OnceInv == \A o \in Outputs : delivered[o] <= 1

\* The outputs that have the audio of this round and whose flag is not one that
\* the reset loop has still to clear.
HasAudio ==
  {p \in Outputs : finished[p] /\ \A o \in Outputs : pc[o] = "reset" => p \notin todo[o]}

\* One callback at most closes the period, when all have finished; until the
\* reset loop reaches them, all outputs are still marked as finished.
CloserInv ==
  /\ \A o, p \in Outputs : pc[o] \in Closing /\ pc[p] \in Closing => o = p
  /\ \A o \in Outputs :
       /\ pc[o] \in Closing \ {"reset"} => \A p \in Outputs : finished[p]
       /\ pc[o] \in {"finishPeriod", "reset"} => round = "open"
       /\ pc[o] \in {"decide", "startPeriod", "ack"} => round = "complete"
       /\ pc[o] = "reset" => o \in todo[o] \/ ~finished[o]
       /\ pc[o] = "reset" => \A p \in todo[o] : finished[p]
       /\ pc[o] = "ack" => requested

\* While streaming is on, a callback passes [W1] only without the audio of this
\* round.
ReadyInv ==
  \A o \in Outputs :
    /\ pc[o] \in {"enter", "copy", "count"} => ~finished[o]
    /\ pc[o] = "ifStreaming" => ~finished[o] \/ ~IsStreaming

\* The counters mean what they say except from StopEngine() to the next round.
InForce == ctl # "built" /\ ~(toStart /\ ctl \in {"working", "enable"})

DeliveredInv ==
  InForce => \A o \in Outputs :
    delivered[o] = IF pc[o] = "count" \/ o \in HasAudio THEN 1 ELSE 0

PeriodInv ==
  InForce =>
    /\ round = "open" => nFinished = Cardinality(HasAudio)
    /\ round = "open" /\ HasAudio = Outputs => \E o \in Outputs : pc[o] = "finishPeriod"
    /\ round = "complete" =>
         /\ \A o \in Outputs : finished[o]
         /\ nFinished = 0
         /\ toStart \/ \E o \in Outputs : pc[o] \in {"decide", "startPeriod", "ack"}

\* The handshake: what a round that is owed or an answer that was given means.
StopInv ==
  /\ allowed => toStart
  /\ toStart \/ ctl = "built" => nFinished = 0
  /\ toStart /\ InForce => round = "complete" /\ \A o \in Outputs : pc[o] \notin Closing
  /\ ctl \in PublishedCtl /\ toStart => allowed
  /\ ctl = "publish" => ~requested /\ ~allowed /\ ~toStart
  /\ ctl \in {"connected", "edLock", "edRequest"} => ~requested
  /\ ctl = "unpublish" /\ graceful => allowed
  /\ ctl \in {"disable", "broadcast", "drain", "drainCheck", "drainSleep", "drainWait", "drained"}
       /\ graceful => toStart

StrictInv == PeriodTypes /\ DrainInv /\ OnceInv /\ CloserInv /\ ReadyInv /\ DeliveredInv
               /\ PeriodInv /\ StopInv

IInv == BaseInv /\ (~escaped => StrictInv)

USE OutputsAssumption, ConnectorAssumption
    DEF Holding, Closing, InEngine, Prologue, Epilogue, CallbackPCs, PublishedCtl, DrainedCtl,
        CtlPCs, Goto, MutexFree, StopMutexFree, IsStreaming

\* Cardinalities of sets of outputs.
LEMMA OutputSets ==
  ASSUME NEW S \in SUBSET Outputs
  PROVE  /\ IsFiniteSet(S)
         /\ Cardinality(S) \in 0..NOutputs
         /\ Cardinality(S) = 0 <=> S = {}
         /\ Cardinality(S) = NOutputs => S = Outputs
         /\ \A o \in Outputs \ S : Cardinality(S \union {o}) = Cardinality(S) + 1
         /\ \A o \in S : Cardinality(S \ {o}) = Cardinality(S) - 1
  <1>1. IsFiniteSet(S) /\ Cardinality(S) <= NOutputs /\ (Cardinality(S) = NOutputs => S = Outputs)
    BY FS_Subset DEF NOutputs
  <1>2. Cardinality(S) \in Nat /\ NOutputs \in Nat
    BY <1>1, FS_CardinalityType DEF NOutputs
  <1>3. Cardinality(S) = 0 <=> S = {}
    BY <1>1, FS_EmptySet
  <1>4. \A o \in Outputs \ S : Cardinality(S \union {o}) = Cardinality(S) + 1
    BY <1>1, FS_AddElement
  <1>5. \A o \in S : Cardinality(S \ {o}) = Cardinality(S) - 1
    BY <1>1, FS_RemoveElement
  <1>6. QED
    BY <1>1, <1>2, <1>3, <1>4, <1>5

\* A smaller set of outputs has no more elements.
LEMMA OutputSubsets ==
  ASSUME NEW T \in SUBSET Outputs, NEW S \in SUBSET T
  PROVE  Cardinality(S) <= Cardinality(T)
  <1>1. IsFiniteSet(T)
    BY FS_Subset
  <1>2. QED
    BY <1>1, FS_Subset

\* What the unsigned counter shows of a difference of two numbers of callbacks.
LEMMA Wrapped ==
  ASSUME NEW d \in (-NOutputs)..NOutputs
  PROVE  /\ d >= 0 => d % CounterMod = d
         /\ d < 0 => d % CounterMod = d + CounterMod
         /\ CounterMod % CounterMod = 0
  <1>1. NOutputs \in Nat /\ CounterMod \in Nat \ {0} /\ NOutputs < CounterMod
    BY FS_CardinalityType DEF NOutputs
  <1>2. ASSUME NEW e \in 0..(CounterMod - 1) PROVE e % CounterMod = e
    BY <1>1, SMT
  <1>3. ASSUME NEW e \in (-CounterMod)..(-1) PROVE e % CounterMod = e + CounterMod
    BY <1>1, SMT
  <1>4. CounterMod % CounterMod = 0
    BY <1>1, SMT
  <1>5. d \in Int /\ (d >= 0 => d \in 0..(CounterMod - 1)) /\ (d < 0 => d \in (-CounterMod)..(-1))
    BY <1>1
  <1>6. QED
    BY <1>2, <1>3, <1>4, <1>5

\* The callback that is the last one to finish knows that all have the audio,
\* and that no other one is closing the period.
LEMMA LastToFinish ==
  ASSUME StrictInv, NEW o \in Outputs, pc[o] = "count"
  PROVE  /\ round = "open" /\ InForce
         /\ o \notin HasAudio
         /\ nFinished + 1 = Cardinality(HasAudio \union {o})
         /\ nFinished + 1 >= NOutputs =>
              HasAudio \union {o} = Outputs /\ \A q \in Outputs : pc[q] \notin Closing
  <1> USE DEF StrictInv, PeriodTypes
  <1>1. InForce
    BY DEF DrainInv, GateInv, InForce
  <1>2. ~finished[o]
    BY DEF ReadyInv
  <1>3. round = "open" /\ nFinished = Cardinality(HasAudio)
    BY <1>1, <1>2 DEF PeriodInv
  <1>4. HasAudio \in SUBSET Outputs /\ o \notin HasAudio
    BY <1>2 DEF HasAudio
  <1>5. nFinished + 1 = Cardinality(HasAudio \union {o})
    BY <1>3, <1>4, OutputSets
  <1>6. ASSUME nFinished + 1 >= NOutputs
        PROVE  HasAudio \union {o} = Outputs
    <2>1. HasAudio \union {o} \in SUBSET Outputs
      BY <1>4
    <2>2. Cardinality(HasAudio \union {o}) \in 0..NOutputs /\ NOutputs \in Nat
      BY <2>1, OutputSets, FS_CardinalityType DEF NOutputs
    <2>3. Cardinality(HasAudio \union {o}) = NOutputs
      BY <1>5, <1>6, <2>2
    <2>4. QED
      BY <2>1, <2>3, OutputSets
  <1>7. ASSUME nFinished + 1 >= NOutputs, NEW q \in Outputs PROVE pc[q] \notin Closing
    <2>1. q = o \/ q \in HasAudio
      BY <1>6, <1>7
    <2>2. pc[q] # "reset"
      BY <2>1 DEF HasAudio, CloserInv
    <2>3. QED
      BY <1>2, <2>2 DEF CloserInv
  <1>8. QED
    BY <1>1, <1>3, <1>4, <1>5, <1>6, <1>7


LEMMA InitIInv == Init => IInv
  <1> SUFFICES ASSUME Init PROVE IInv
    OBVIOUS
  <1> USE DEF Init
  <1>0. NOutputs \in Nat
    BY FS_CardinalityType DEF NOutputs
  <1>1. Types
    <2>1. [o \in Outputs |-> 0] \in [Outputs -> Nat]
      OBVIOUS
    <2>2. 0 \in 0..(CounterMod - 1) /\ 0 \in 0..NOutputs
      BY <1>0
    <2>3. QED
      BY <2>1, <2>2 DEF Types, PeriodTypes, ConnectorTypes
  <1>2. CounterExact
    <2>1. Entered = {}
      BY DEF Entered
    <2>2. Cardinality(Entered) - lost = 0 /\ 0 \in (-NOutputs)..NOutputs
      BY <1>0, <2>1, FS_EmptySet
    <2>3. QED
      BY <2>2, Wrapped DEF CounterExact
  <1>3. DisconnectDrains
    <2>1. Inside = {}
      BY DEF Inside
    <2>2. QED
      BY <2>1, FS_EmptySet DEF DisconnectDrains
  <1>4. GateInv /\ DrainInv /\ OnceInv /\ CloserInv /\ ReadyInv
    BY DEF GateInv, DrainInv, OnceInv, CloserInv, ReadyInv
  <1>5. DeliveredInv /\ PeriodInv /\ StopInv
    BY DEF DeliveredInv, PeriodInv, StopInv, InForce
  <1>6. QED
    BY <1>1, <1>2, <1>3, <1>4, <1>5 DEF IInv, BaseInv, Types, StrictInv

\* Types.
LEMMA TypesStep == ASSUME BaseInv, [Next]_vars PROVE Types'
  <1> USE DEF BaseInv, Types, PeriodTypes, ConnectorTypes, engineVars, connectorVars, historyVars, periodVars, handshakeVars,
              callbackVars, ctlVars
  <1>1. ASSUME NEW o \in Outputs, Invoke(o) \/ CountIn(o) \/ Recheck(o) \/ CountOut(o) \/
               CheckDisconnecting(o) \/ Notify(o) PROVE Types'
    <2>1. nCallbacks' \in 0..(CounterMod - 1)
      BY <1>1 DEF Invoke, CountIn, Recheck, CountOut, CheckDisconnecting, Notify
    <2>2. pc' \in [Outputs -> CallbackPCs] /\ ctl' \in CtlPCs
      BY <1>1 DEF Invoke, CountIn, Recheck, CountOut, CheckDisconnecting, Notify
    <2>3. UNCHANGED <<lifecycle, periodVars, handshakeVars, todo, visit, published, historyVars>>
      BY <1>1 DEF Invoke, CountIn, Recheck, CountOut, CheckDisconnecting, Notify
    <2>4. QED
      BY <2>1, <2>2, <2>3
  <1>2. ASSUME NEW o \in Outputs, Copy(o), UNCHANGED connectorVars PROVE Types'
    BY <1>2 DEF Copy
  <1>3. ASSUME NEW o \in Outputs, LockOutput(o), UNCHANGED connectorVars PROVE Types'
    BY <1>3 DEF LockOutput
  <1>4. ASSUME NEW o \in Outputs, CheckW1(o), UNCHANGED connectorVars PROVE Types'
    BY <1>4 DEF CheckW1
  <1>5. ASSUME NEW o \in Outputs, SpuriousWakeup(o), UNCHANGED connectorVars PROVE Types'
    BY <1>5 DEF SpuriousWakeup
  <1>6. ASSUME NEW o \in Outputs, CheckStreaming(o), UNCHANGED connectorVars PROVE Types'
    BY <1>6 DEF CheckStreaming
  <1>7. ASSUME NEW o \in Outputs, Enter(o), UNCHANGED connectorVars PROVE Types'
    BY <1>7 DEF Enter
  <1>8. ASSUME NEW o \in Outputs, Count(o), UNCHANGED connectorVars PROVE Types'
    BY <1>8 DEF Count
  <1>9. ASSUME NEW o \in Outputs, ClosePeriod(o), UNCHANGED connectorVars PROVE Types'
    BY <1>9 DEF ClosePeriod, FinishPeriod
  <1>10. ASSUME NEW o \in Outputs, Decide(o), UNCHANGED connectorVars PROVE Types'
    BY <1>10 DEF Decide
  <1>11. ASSUME NEW o \in Outputs, OpenNext(o), UNCHANGED connectorVars PROVE Types'
    BY <1>11 DEF OpenNext, StartPeriod
  <1>12. ASSUME NEW o \in Outputs, AllowDisable(o), UNCHANGED connectorVars PROVE Types'
    BY <1>12 DEF AllowDisable
  <1>13. ASSUME NEW o \in Outputs, NEW p \in Outputs, ResetOutput(o, p), UNCHANGED
                connectorVars PROVE Types'
    BY <1>13 DEF ResetOutput
  <1>14. ASSUME NEW p \in Outputs, BroadcastW1(p), UNCHANGED connectorVars PROVE Types'
    BY <1>14 DEF BroadcastW1
  <1>15. CASE Connect
    <2>1. Cardinality(Entered) \in 0..NOutputs
      <3>1. Entered \in SUBSET Outputs
        BY DEF Entered
      <3>2. QED
        BY <3>1, OutputSets
    <2>2. QED
      BY <1>15, <2>1 DEF Connect
  <1>16. CASE Publish
    BY <1>16 DEF Publish
  <1>17. CASE Disconnect
    BY <1>17 DEF Disconnect
  <1>18. CASE Unpublish
    BY <1>18 DEF Unpublish
  <1>19. CASE LockCallbackMutex
    BY <1>19 DEF LockCallbackMutex
  <1>20. CASE CheckDrained
    BY <1>20 DEF CheckDrained
  <1>21. CASE SleepUntilDrained
    BY <1>21 DEF SleepUntilDrained
  <1>22. CASE Disconnected
    BY <1>22 DEF Disconnected
  <1>23. CASE EnableStreaming /\ UNCHANGED connectorVars
    <2>1. delivered' = delivered \/ delivered' = [o \in Outputs |-> 0]
      BY <1>23 DEF EnableStreaming, StartPeriod
    <2>2. finished' = finished \/ finished' = [o \in Outputs |-> FALSE]
      BY <1>23 DEF EnableStreaming
    <2>3. round' \in {"open", "complete"}
      BY <1>23 DEF EnableStreaming, StartPeriod
    <2>4. delivered' \in [Outputs -> Nat] /\ finished' \in [Outputs -> BOOLEAN]
      <3>1. [o \in Outputs |-> 0] \in [Outputs -> Nat]
        OBVIOUS
      <3>2. [o \in Outputs |-> FALSE] \in [Outputs -> BOOLEAN]
        OBVIOUS
      <3>3. delivered \in [Outputs -> Nat] /\ finished \in [Outputs -> BOOLEAN]
        OBVIOUS
      <3>4. delivered' \in [Outputs -> Nat]
        BY ONLY <2>1, <3>1, <3>3
      <3>5. finished' \in [Outputs -> BOOLEAN]
        BY ONLY <2>2, <3>2, <3>3
      <3>6. QED
        BY <3>4, <3>5
    <2>5. requested' = FALSE /\ allowed' = FALSE /\ toStart' = FALSE /\ ctl' = "publish"
      BY <1>23 DEF EnableStreaming
    <2>6. UNCHANGED <<nEntered, nFinished, graceful, todo, pc, visit, published, nCallbacks, lost, escaped>>
          /\ lifecycle' = "STREAMING"
      BY <1>23 DEF EnableStreaming
    <2>7. QED
      BY <2>3, <2>4, <2>5, <2>6
  <1>24. CASE (LockStopMutex) /\ UNCHANGED connectorVars
    BY <1>24 DEF LockStopMutex
  <1>25. CASE (RequestDisable) /\ UNCHANGED connectorVars
    BY <1>25 DEF RequestDisable
  <1>26. CASE (CheckAllowed) /\ UNCHANGED connectorVars
    BY <1>26 DEF CheckAllowed
  <1>27. CASE (SpuriousStopWakeup) /\ UNCHANGED connectorVars
    BY <1>27 DEF SpuriousStopWakeup
  <1>28. CASE (StopTimeout) /\ UNCHANGED connectorVars
    BY <1>28 DEF StopTimeout
  <1>29. CASE (DisableStreaming) /\ UNCHANGED connectorVars
    BY <1>29 DEF DisableStreaming
  <1>30. CASE (StartEngine) /\ UNCHANGED connectorVars
    BY <1>30 DEF StartEngine
  <1>31. CASE (StopEngine) /\ UNCHANGED connectorVars
    BY <1>31 DEF StopEngine
  <1>32. CASE UNCHANGED vars
    BY <1>32 DEF vars
  <1>33. QED
    BY <1>1, <1>2, <1>3, <1>4, <1>5, <1>6, <1>7, <1>8, <1>9, <1>10, <1>11,
       <1>12, <1>13, <1>14, <1>15, <1>16, <1>17, <1>18, <1>19, <1>20, <1>21,
       <1>22, <1>23, <1>24, <1>25, <1>26, <1>27, <1>28, <1>29, <1>30, <1>31,
       <1>32
       DEF Next, AudioCallback, ProcessAudioCallback, ControlStep, ControlCall, Wakeups,
           EnsureStreamingDisableAllowed

\* The counter: CountIn and CountOut change it by one, modulo its width; Connect resets it
\* and forgets whom it counted.
LEMMA CounterExactStep == ASSUME BaseInv, [Next]_vars PROVE CounterExact'
  <1> USE DEF BaseInv, Types, PeriodTypes, ConnectorTypes, CounterExact, Entered, engineVars, connectorVars, historyVars,
              periodVars, handshakeVars, callbackVars, ctlVars
  <1>1. ASSUME NEW o \in Outputs, CountIn(o) PROVE CounterExact'
    <2>1. Entered \in SUBSET Outputs /\ o \in Outputs \ Entered
      BY <1>1 DEF CountIn
    <2>2. Entered' = Entered \union {o}
      BY <1>1 DEF CountIn
    <2> HIDE DEF Entered
    <2>3. Cardinality(Entered \union {o}) = Cardinality(Entered) + 1
      BY <2>1, OutputSets
    <2>4. /\ Cardinality(Entered) \in 0..NOutputs
          /\ Cardinality(Entered \union {o}) \in 0..NOutputs /\ NOutputs \in Nat
      BY <2>1, OutputSets, FS_CardinalityType DEF NOutputs
    <2> DEFINE d == Cardinality(Entered) - lost
    <2>5. d \in (-NOutputs)..NOutputs /\ d + 1 \in (-NOutputs)..NOutputs
      BY <2>3, <2>4
    <2>6. nCallbacks = IF d >= 0 THEN d ELSE d + CounterMod
      BY <2>5, Wrapped
    <2>7. (d + 1) % CounterMod = IF d + 1 >= 0 THEN d + 1 ELSE d + 1 + CounterMod
      BY <2>5, Wrapped
    <2>8. (nCallbacks + 1) % CounterMod = (d + 1) % CounterMod
      <3> HIDE DEF d
      <3>1. CASE d = -1
        <4>1. nCallbacks + 1 = CounterMod
          BY <2>6, <3>1
        <4>2. CounterMod % CounterMod = 0
          BY <2>5, Wrapped
        <4>3. QED
          BY <2>7, <3>1, <4>1, <4>2
      <3>2. CASE d >= 0
        BY <2>6, <3>2
      <3>3. CASE d < -1
        <4>1. nCallbacks + 1 \in 0..(CounterMod - 1)
          BY <2>4, <2>5, <2>6, <3>3
        <4>2. (nCallbacks + 1) % CounterMod = nCallbacks + 1
          BY <4>1, SMT
        <4>3. QED
          BY <2>5, <2>6, <2>7, <3>3, <4>2
      <3>4. QED
        BY <2>5, <3>1, <3>2, <3>3
    <2>9. Cardinality(Entered') - lost' = d + 1 /\ nCallbacks' = (nCallbacks + 1) % CounterMod
      BY <1>1, <2>2, <2>3, <2>4 DEF CountIn
    <2>10. QED
      BY <2>8, <2>9
  <1>2. ASSUME NEW o \in Outputs, CountOut(o) PROVE CounterExact'
    <2>1. Entered \in SUBSET Outputs /\ o \in Entered
      BY <1>2 DEF CountOut
    <2>2. Entered' = Entered \ {o}
      BY <1>2 DEF CountOut
    <2> HIDE DEF Entered
    <2>3. Cardinality(Entered \ {o}) = Cardinality(Entered) - 1
      BY <2>1, OutputSets
    <2>4. /\ Cardinality(Entered) \in 0..NOutputs
          /\ Cardinality(Entered \ {o}) \in 0..NOutputs /\ NOutputs \in Nat
      BY <2>1, OutputSets, FS_CardinalityType DEF NOutputs
    <2> DEFINE d == Cardinality(Entered) - lost
    <2>5. d \in (-NOutputs)..NOutputs /\ d - 1 \in (-NOutputs)..NOutputs
      BY <2>3, <2>4
    <2>6. nCallbacks = IF d >= 0 THEN d ELSE d + CounterMod
      BY <2>5, Wrapped
    <2>7. (d - 1) % CounterMod = IF d - 1 >= 0 THEN d - 1 ELSE d - 1 + CounterMod
      BY <2>5, Wrapped
    <2>8. (nCallbacks - 1) % CounterMod = (d - 1) % CounterMod
      <3> HIDE DEF d
      <3>1. CASE d >= 0
        BY <2>6, <3>1
      <3>2. CASE d < 0
        <4>1. nCallbacks - 1 \in 0..(CounterMod - 1)
          BY <2>4, <2>5, <2>6, <3>2
        <4>2. (nCallbacks - 1) % CounterMod = nCallbacks - 1
          BY <4>1, SMT
        <4>3. QED
          BY <2>5, <2>6, <2>7, <3>2, <4>2
      <3>3. QED
        BY <2>5, <3>1, <3>2
    <2>9. Cardinality(Entered') - lost' = d - 1 /\ nCallbacks' = (nCallbacks - 1) % CounterMod
      BY <1>2, <2>2, <2>3, <2>4 DEF CountOut
    <2>10. QED
      BY <2>8, <2>9
  <1>3. ASSUME NEW o \in Outputs, Invoke(o) \/ Recheck(o) \/ CheckDisconnecting(o) \/
               Notify(o) PROVE CounterExact'
    BY <1>3 DEF Invoke, Recheck, CheckDisconnecting, Notify
  <1>4. ASSUME NEW o \in Outputs, LockOutput(o) \/ CheckW1(o) \/ SpuriousWakeup(o) \/
               CheckStreaming(o) \/ Enter(o) \/ Copy(o) \/ Count(o) \/ ClosePeriod(o) \/
               Decide(o) \/ OpenNext(o) \/ AllowDisable(o), UNCHANGED connectorVars PROVE
               CounterExact'
    BY <1>4 DEF LockOutput, CheckW1, SpuriousWakeup, CheckStreaming, Enter,
                Copy, Count, ClosePeriod, FinishPeriod, Decide, OpenNext,
                StartPeriod, AllowDisable
  <1>5. ASSUME NEW o \in Outputs, NEW p \in Outputs, ResetOutput(o, p), UNCHANGED
               connectorVars PROVE CounterExact'
    BY <1>5 DEF ResetOutput
  <1>6. ASSUME NEW p \in Outputs, BroadcastW1(p), UNCHANGED connectorVars PROVE
               CounterExact'
    BY <1>6 DEF BroadcastW1
  <1>7. CASE Connect
    <2>1. Entered' = Entered /\ lost' = Cardinality(Entered) /\ nCallbacks' = 0
      BY <1>7 DEF Connect
    <2>2. Entered \in SUBSET Outputs
      OBVIOUS
    <2> HIDE DEF Entered
    <2>3. Cardinality(Entered) \in 0..NOutputs /\ NOutputs \in Nat
      BY <2>2, OutputSets, FS_CardinalityType DEF NOutputs
    <2>4. Cardinality(Entered') - lost' = 0 /\ 0 \in (-NOutputs)..NOutputs
      BY <2>1, <2>3
    <2>5. QED
      BY <2>1, <2>4, Wrapped
  <1>8. CASE Publish \/ Disconnect \/ Unpublish \/ LockCallbackMutex \/ CheckDrained \/
             SleepUntilDrained \/ Disconnected
    BY <1>8 DEF Publish, Disconnect, Unpublish, LockCallbackMutex, CheckDrained,
                SleepUntilDrained, Disconnected
  <1>9. CASE (LockStopMutex \/ RequestDisable \/ CheckAllowed \/ SpuriousStopWakeup \/
             StopTimeout \/ EnableStreaming \/ DisableStreaming \/ StartEngine \/
             StopEngine) /\ UNCHANGED connectorVars
    BY <1>9 DEF LockStopMutex, RequestDisable, CheckAllowed, SpuriousStopWakeup,
                StopTimeout, EnableStreaming, StartPeriod, DisableStreaming,
                StartEngine, StopEngine
  <1>10. CASE UNCHANGED vars
    BY <1>10 DEF vars
  <1>11. QED
    BY <1>1, <1>2, <1>3, <1>4, <1>5, <1>6, <1>7, <1>8, <1>9, <1>10
       DEF Next, AudioCallback, ProcessAudioCallback, ControlStep, ControlCall, Wakeups,
           EnsureStreamingDisableAllowed

\* The gate.
LEMMA GateInvStep == ASSUME BaseInv, [Next]_vars PROVE GateInv'
  <1> USE DEF BaseInv, Types, PeriodTypes, ConnectorTypes, GateInv, engineVars, connectorVars, historyVars,
              periodVars, handshakeVars, callbackVars, ctlVars
  <1>1. ASSUME NEW o \in Outputs, Invoke(o) \/ CountIn(o) \/ Recheck(o) \/ CountOut(o) \/
               CheckDisconnecting(o) \/ Notify(o) PROVE GateInv'
    BY <1>1 DEF Invoke, CountIn, Recheck, CountOut, CheckDisconnecting, Notify
  <1>2. ASSUME NEW o \in Outputs, LockOutput(o) \/ CheckW1(o) \/ SpuriousWakeup(o) \/
               CheckStreaming(o) \/ Enter(o) \/ Copy(o) \/ Count(o) \/ ClosePeriod(o) \/
               Decide(o) \/ OpenNext(o) \/ AllowDisable(o), UNCHANGED connectorVars PROVE
               GateInv'
    BY <1>2 DEF LockOutput, CheckW1, SpuriousWakeup, CheckStreaming, Enter,
                Copy, Count, ClosePeriod, FinishPeriod, Decide, OpenNext,
                StartPeriod, AllowDisable
  <1>3. ASSUME NEW o \in Outputs, NEW p \in Outputs, ResetOutput(o, p), UNCHANGED
               connectorVars PROVE GateInv'
    BY <1>3 DEF ResetOutput
  <1>4. ASSUME NEW p \in Outputs, BroadcastW1(p), UNCHANGED connectorVars PROVE GateInv'
    BY <1>4 DEF BroadcastW1
  <1>5. CASE Connect \/ Publish \/ Disconnect \/ Unpublish \/ LockCallbackMutex \/
             CheckDrained \/ SleepUntilDrained \/ Disconnected
    BY <1>5 DEF Connect, Publish, Disconnect, Unpublish, LockCallbackMutex, CheckDrained,
                SleepUntilDrained, Disconnected
  <1>6. CASE (LockStopMutex \/ RequestDisable \/ CheckAllowed \/ SpuriousStopWakeup \/
             StopTimeout \/ EnableStreaming \/ DisableStreaming \/ StartEngine \/
             StopEngine) /\ UNCHANGED connectorVars
    BY <1>6 DEF LockStopMutex, RequestDisable, CheckAllowed, SpuriousStopWakeup,
                StopTimeout, EnableStreaming, StartPeriod, DisableStreaming,
                StartEngine, StopEngine
  <1>7. CASE UNCHANGED vars
    BY <1>7 DEF vars
  <1>8. QED
    BY <1>1, <1>2, <1>3, <1>4, <1>5, <1>6, <1>7
       DEF Next, AudioCallback, ProcessAudioCallback, ControlStep, ControlCall, Wakeups,
           EnsureStreamingDisableAllowed

\* The drain: the wait ends when the counter is zero; nobody comes in while the gate is
\* shut, so that those inside only become fewer.
LEMMA DisconnectDrainsStep == ASSUME BaseInv, [Next]_vars PROVE DisconnectDrains'
  <1> USE DEF BaseInv, Types, PeriodTypes, ConnectorTypes, GateInv, engineVars, connectorVars, historyVars,
              periodVars, handshakeVars, callbackVars, ctlVars
  <1>0. Inside \in SUBSET Entered /\ Entered \in SUBSET Outputs /\ NOutputs \in Nat
    BY FS_CardinalityType DEF Inside, Entered, NOutputs
  <1>a. Inside \in SUBSET Outputs
    BY DEF Inside
  <1>b. /\ Cardinality(Inside) \in 0..NOutputs /\ Cardinality(Entered) \in 0..NOutputs
        /\ Cardinality(Inside) <= Cardinality(Entered)
    BY <1>0, <1>a, OutputSets, OutputSubsets
  <1>c. ASSUME Inside' \in SUBSET Inside, lost' = lost, ctl' \in DrainedCtl => ctl \in DrainedCtl
        PROVE  DisconnectDrains'
    <2>1. Cardinality(Inside') <= Cardinality(Inside)
      BY <1>a, <1>c, OutputSubsets
    <2>2. Cardinality(Inside') \in Nat
      <3>1. Inside' \in SUBSET Outputs
        BY <1>a, <1>c
      <3>2. Cardinality(Inside') \in 0..NOutputs
        BY <3>1, OutputSets
      <3>3. QED
        BY <1>0, <3>2
    <2>3. QED
      BY <1>b, <1>c, <2>1, <2>2 DEF DisconnectDrains
  <1>1. ASSUME NEW o \in Outputs, Invoke(o) \/ CountIn(o) \/ Recheck(o) \/ CountOut(o) \/
               CheckDisconnecting(o) \/ Notify(o) PROVE DisconnectDrains'
    <2>1. CASE ctl \in DrainedCtl
      <3>1. Inside' \in SUBSET Inside /\ lost' = lost
        BY <1>1, <2>1 DEF Inside, Invoke, CountIn, Recheck, CountOut, CheckDisconnecting, Notify
      <3>2. QED
        BY <1>c, <2>1, <3>1
    <2>2. CASE ctl \notin DrainedCtl
      BY <1>1, <2>2 DEF DisconnectDrains, Invoke, CountIn, Recheck, CountOut,
                        CheckDisconnecting, Notify
    <2>3. QED
      BY <2>1, <2>2
  <1>2. ASSUME NEW o \in Outputs, LockOutput(o) \/ CheckW1(o) \/ SpuriousWakeup(o) \/
               CheckStreaming(o) \/ Enter(o) \/ Copy(o) \/ Count(o) \/ ClosePeriod(o) \/
               Decide(o) \/ OpenNext(o) \/ AllowDisable(o), UNCHANGED connectorVars PROVE
               DisconnectDrains'
    <2>1. /\ Inside' \in SUBSET Inside /\ lost' = lost
          /\ ctl' \in DrainedCtl => ctl \in DrainedCtl
      BY <1>2 DEF Inside, LockOutput, CheckW1, SpuriousWakeup, CheckStreaming, Enter,
                  Copy, Count, ClosePeriod, FinishPeriod, Decide, OpenNext,
                  StartPeriod, AllowDisable
    <2>2. QED
      BY <1>c, <2>1
  <1>3. ASSUME NEW o \in Outputs, NEW p \in Outputs, ResetOutput(o, p), UNCHANGED
               connectorVars PROVE DisconnectDrains'
    <2>1. /\ Inside' \in SUBSET Inside /\ lost' = lost
          /\ ctl' \in DrainedCtl => ctl \in DrainedCtl
      BY <1>3 DEF Inside, ResetOutput
    <2>2. QED
      BY <1>c, <2>1
  <1>4. ASSUME NEW p \in Outputs, BroadcastW1(p), UNCHANGED connectorVars PROVE DisconnectDrains'
    BY <1>4 DEF BroadcastW1, DisconnectDrains
  <1>5. CASE CheckDrained
    <2>1. CASE nCallbacks = 0
      <3> DEFINE d == Cardinality(Entered) - lost
      <3>1. d \in (-NOutputs)..NOutputs /\ d % CounterMod = 0
        <4>1. d \in (-NOutputs)..NOutputs
          BY <1>0, <1>b
        <4>2. d % CounterMod = 0
          BY <2>1 DEF CounterExact
        <4>3. QED
          BY <4>1, <4>2
      <3>2. d = 0
        <4> HIDE DEF d
        <4>1. d < 0 => d % CounterMod = d + CounterMod
          BY <3>1, Wrapped
        <4>2. d >= 0 => d % CounterMod = d
          BY <3>1, Wrapped
        <4>3. QED
          BY <1>0, <3>1, <4>1, <4>2
      <3>3. Inside' = Inside /\ lost' = lost
        BY <1>5 DEF CheckDrained, Inside
      <3>4. QED
        BY <1>b, <3>2, <3>3 DEF DisconnectDrains
    <2>2. CASE nCallbacks # 0
      BY <1>5, <2>2 DEF CheckDrained, DisconnectDrains
    <2>3. QED
      BY <2>1, <2>2
  <1>6. CASE Connect
    <2>1. Inside' = Inside /\ lost' = Cardinality(Entered)
      BY <1>6 DEF Connect, Inside
    <2>2. QED
      BY <1>b, <2>1 DEF DisconnectDrains
  <1>7. CASE Publish \/ Disconnect \/ Unpublish \/ LockCallbackMutex \/
             SleepUntilDrained \/ Disconnected
    <2>1. /\ Inside' = Inside /\ lost' = lost
          /\ ctl' \in DrainedCtl => ctl \in DrainedCtl
      BY <1>7 DEF Inside, Publish, Disconnect, Unpublish, LockCallbackMutex, SleepUntilDrained,
                  Disconnected
    <2>2. QED
      BY <1>c, <2>1
  <1>8. CASE (LockStopMutex \/ RequestDisable \/ CheckAllowed \/ SpuriousStopWakeup \/
             StopTimeout \/ EnableStreaming \/ DisableStreaming \/ StartEngine \/
             StopEngine) /\ UNCHANGED connectorVars
    <2>1. /\ Inside' = Inside /\ lost' = lost
          /\ ctl' \in DrainedCtl => ctl \in DrainedCtl
      BY <1>8 DEF Inside, LockStopMutex, RequestDisable, CheckAllowed, SpuriousStopWakeup,
                  StopTimeout, EnableStreaming, DisableStreaming, StartEngine, StopEngine
    <2>2. QED
      BY <1>c, <2>1
  <1>9. CASE UNCHANGED vars
    <2>1. Inside' = Inside /\ lost' = lost /\ ctl' = ctl
      BY <1>9 DEF vars, Inside
    <2>2. QED
      BY <1>c, <2>1
  <1>10. QED
    BY <1>1, <1>2, <1>3, <1>4, <1>5, <1>6, <1>7, <1>8, <1>9
       DEF Next, AudioCallback, ProcessAudioCallback, ControlStep, ControlCall, Wakeups,
           EnsureStreamingDisableAllowed

\* Nobody is inside after a drain from which nobody escaped.
LEMMA DrainInvStep ==
  ASSUME ConnectorTypes, StrictInv, [Next]_vars, ~escaped' PROVE DrainInv'
  <1> USE DEF StrictInv, PeriodTypes, DrainInv, GateInv, engineVars, connectorVars, historyVars,
              periodVars, handshakeVars, callbackVars, ctlVars
  <1>1. ASSUME NEW o \in Outputs, Invoke(o) \/ CountIn(o) \/ Recheck(o) \/ CountOut(o) \/
               CheckDisconnecting(o) \/ Notify(o) PROVE DrainInv'
    BY <1>1 DEF Invoke, CountIn, Recheck, CountOut, CheckDisconnecting, Notify
  <1>2. ASSUME NEW o \in Outputs, LockOutput(o) \/ CheckW1(o) \/ SpuriousWakeup(o) \/
               CheckStreaming(o) \/ Enter(o) \/ Copy(o) \/ Count(o) \/ ClosePeriod(o) \/
               Decide(o) \/ OpenNext(o) \/ AllowDisable(o), UNCHANGED connectorVars PROVE
               DrainInv'
    BY <1>2 DEF LockOutput, CheckW1, SpuriousWakeup, CheckStreaming, Enter,
                Copy, Count, ClosePeriod, FinishPeriod, Decide, OpenNext,
                StartPeriod, AllowDisable
  <1>3. ASSUME NEW o \in Outputs, NEW p \in Outputs, ResetOutput(o, p), UNCHANGED
               connectorVars PROVE DrainInv'
    BY <1>3 DEF ResetOutput
  <1>4. ASSUME NEW p \in Outputs, BroadcastW1(p), UNCHANGED connectorVars PROVE DrainInv'
    BY <1>4 DEF BroadcastW1
  <1>5. CASE CheckDrained
    <2>1. ctl' = "drained" => Inside = {}
      <3>1. nCallbacks \in Nat /\ ctl = "drainCheck"
            /\ ctl' = IF nCallbacks > 0 THEN "drainSleep" ELSE "drained"
        BY <1>5 DEF CheckDrained, ConnectorTypes
      <3>2. ~(nCallbacks = 0 /\ Inside # {})
        BY <1>5 DEF CheckDrained
      <3>3. QED
        BY <3>1, <3>2
    <2>2. Inside = {} => \A o \in Outputs : pc[o] \notin InEngine
      BY DEF Inside
    <2>3. QED
      BY <1>5, <2>1, <2>2 DEF CheckDrained
  <1>6. CASE Connect \/ Publish \/ Disconnect \/ Unpublish \/ LockCallbackMutex \/
             SleepUntilDrained \/ Disconnected
    BY <1>6 DEF Connect, Publish, Disconnect, Unpublish, LockCallbackMutex,
                SleepUntilDrained, Disconnected
  <1>7. CASE (LockStopMutex \/ RequestDisable \/ CheckAllowed \/ SpuriousStopWakeup \/
             StopTimeout \/ EnableStreaming \/ DisableStreaming \/ StartEngine \/
             StopEngine) /\ UNCHANGED connectorVars
    BY <1>7 DEF LockStopMutex, RequestDisable, CheckAllowed, SpuriousStopWakeup,
                StopTimeout, EnableStreaming, StartPeriod, DisableStreaming,
                StartEngine, StopEngine
  <1>8. CASE UNCHANGED vars
    BY <1>8 DEF vars
  <1>9. QED
    BY <1>1, <1>2, <1>3, <1>4, <1>5, <1>6, <1>7, <1>8
       DEF Next, AudioCallback, ProcessAudioCallback, ControlStep, ControlCall, Wakeups,
           EnsureStreamingDisableAllowed

\* An output copies only when it does not have the audio of the round yet.
LEMMA OnceInvStep == ASSUME StrictInv, [Next]_vars PROVE OnceInv'
  <1> USE DEF StrictInv, PeriodTypes, OnceInv, engineVars, connectorVars, historyVars,
              periodVars, handshakeVars, callbackVars, ctlVars
  <1>1. ASSUME NEW o \in Outputs, Copy(o), UNCHANGED connectorVars PROVE OnceInv'
    <2>1. ctl \notin DrainedCtl
      BY <1>1 DEF DrainInv, Copy
    <2>2. delivered[o] = 0
      BY <1>1, <2>1 DEF DeliveredInv, InForce, HasAudio, ReadyInv, Copy
    <2>3. QED
      BY <1>1, <2>2 DEF Copy
  <1>2. ASSUME NEW o \in Outputs, OpenNext(o), UNCHANGED connectorVars PROVE OnceInv'
    BY <1>2 DEF OpenNext, StartPeriod
  <1>3. CASE EnableStreaming /\ UNCHANGED connectorVars
    BY <1>3 DEF EnableStreaming, StartPeriod
  <1>4. ASSUME delivered' = delivered PROVE OnceInv'
    BY <1>4
  <1>5. ASSUME NEW o \in Outputs, Invoke(o) \/ CountIn(o) \/ Recheck(o) \/ CountOut(o) \/
               CheckDisconnecting(o) \/ Notify(o)
        PROVE  delivered' = delivered
    BY <1>5 DEF Invoke, CountIn, Recheck, CountOut, CheckDisconnecting, Notify
  <1>6. ASSUME NEW o \in Outputs, LockOutput(o) \/ CheckW1(o) \/ SpuriousWakeup(o) \/
               CheckStreaming(o) \/ Enter(o) \/ Count(o) \/ ClosePeriod(o) \/
               Decide(o) \/ AllowDisable(o) \/ \E p \in Outputs : ResetOutput(o, p)
        PROVE  delivered' = delivered
    BY <1>6 DEF LockOutput, CheckW1, SpuriousWakeup, CheckStreaming, Enter, Count,
                ClosePeriod, Decide, AllowDisable, ResetOutput
  <1>7. ASSUME Connect \/ Publish \/ Disconnect \/ Unpublish \/ LockCallbackMutex \/
               CheckDrained \/ SleepUntilDrained \/ Disconnected \/ LockStopMutex \/
               RequestDisable \/ CheckAllowed \/ SpuriousStopWakeup \/ StopTimeout \/
               DisableStreaming \/ StartEngine \/ StopEngine \/
               \E p \in Outputs : BroadcastW1(p)
        PROVE  delivered' = delivered
    BY <1>7 DEF Connect, Publish, Disconnect, Unpublish, LockCallbackMutex, CheckDrained,
                SleepUntilDrained, Disconnected, LockStopMutex, RequestDisable, CheckAllowed,
                SpuriousStopWakeup, StopTimeout, DisableStreaming, StartEngine, StopEngine,
                BroadcastW1
  <1>8. CASE UNCHANGED vars
    BY <1>4, <1>8 DEF vars
  <1>9. QED
    BY <1>1, <1>2, <1>3, <1>4, <1>5, <1>6, <1>7, <1>8
       DEF Next, AudioCallback, ProcessAudioCallback, ControlStep, ControlCall, Wakeups,
           EnsureStreamingDisableAllowed

\* The end of a period: who finishes last closes it, alone.
LEMMA CloserInvStep == ASSUME StrictInv, [Next]_vars PROVE CloserInv'
  <1> USE DEF StrictInv, PeriodTypes, CloserInv, DrainInv, GateInv, engineVars,
              connectorVars, historyVars, periodVars, handshakeVars, callbackVars, ctlVars
  <1>1. ASSUME NEW o \in Outputs, Invoke(o) PROVE CloserInv'
    BY <1>1 DEF Invoke
  <1>2. ASSUME NEW o \in Outputs, CountIn(o) PROVE CloserInv'
    BY <1>2 DEF CountIn
  <1>3. ASSUME NEW o \in Outputs, Recheck(o) PROVE CloserInv'
    BY <1>3 DEF Recheck
  <1>4. ASSUME NEW o \in Outputs, CountOut(o) PROVE CloserInv'
    BY <1>4 DEF CountOut
  <1>5. ASSUME NEW o \in Outputs, CheckDisconnecting(o) PROVE CloserInv'
    BY <1>5 DEF CheckDisconnecting
  <1>6. ASSUME NEW o \in Outputs, Notify(o) PROVE CloserInv'
    BY <1>6 DEF Notify
  <1>7. ASSUME NEW o \in Outputs, Count(o), UNCHANGED connectorVars PROVE CloserInv'
    <2>1. /\ round = "open"
          /\ nFinished + 1 >= NOutputs =>
               HasAudio \union {o} = Outputs /\ \A q \in Outputs : pc[q] \notin Closing
      BY <1>7, LastToFinish DEF Count
    <2>2. nFinished + 1 >= NOutputs => \A q \in Outputs : finished'[q]
      BY <1>7, <2>1 DEF Count, HasAudio
    <2>3. QED
      BY <1>7, <2>1, <2>2 DEF Count
  <1>8. ASSUME NEW o \in Outputs, LockOutput(o), UNCHANGED connectorVars PROVE CloserInv'
    BY <1>8 DEF LockOutput
  <1>9. ASSUME NEW o \in Outputs, CheckW1(o), UNCHANGED connectorVars PROVE CloserInv'
    BY <1>9 DEF CheckW1
  <1>10. ASSUME NEW o \in Outputs, SpuriousWakeup(o), UNCHANGED connectorVars PROVE
                CloserInv'
    BY <1>10 DEF SpuriousWakeup
  <1>11. ASSUME NEW o \in Outputs, CheckStreaming(o), UNCHANGED connectorVars PROVE
                CloserInv'
    BY <1>11 DEF CheckStreaming
  <1>12. ASSUME NEW o \in Outputs, Enter(o), UNCHANGED connectorVars PROVE CloserInv'
    BY <1>12 DEF Enter
  <1>13. ASSUME NEW o \in Outputs, Copy(o), UNCHANGED connectorVars PROVE CloserInv'
    BY <1>13 DEF Copy
  <1>14. ASSUME NEW o \in Outputs, ClosePeriod(o), UNCHANGED connectorVars PROVE CloserInv'
    BY <1>14 DEF ClosePeriod, FinishPeriod
  <1>15. ASSUME NEW o \in Outputs, Decide(o), UNCHANGED connectorVars PROVE CloserInv'
    BY <1>15 DEF Decide
  <1>16. ASSUME NEW o \in Outputs, OpenNext(o), UNCHANGED connectorVars PROVE CloserInv'
    BY <1>16 DEF OpenNext, StartPeriod
  <1>17. ASSUME NEW o \in Outputs, AllowDisable(o), UNCHANGED connectorVars PROVE CloserInv'
    BY <1>17 DEF AllowDisable
  <1>18. ASSUME NEW o \in Outputs, NEW p \in Outputs, ResetOutput(o, p), UNCHANGED
                connectorVars PROVE CloserInv'
    BY <1>18 DEF ResetOutput
  <1>19. ASSUME NEW p \in Outputs, BroadcastW1(p), UNCHANGED connectorVars PROVE CloserInv'
    BY <1>19 DEF BroadcastW1
  <1>20. CASE Connect \/ Publish \/ Disconnect \/ Unpublish \/ LockCallbackMutex \/
              CheckDrained \/ SleepUntilDrained \/ Disconnected
    BY <1>20 DEF Connect, Publish, Disconnect, Unpublish, LockCallbackMutex,
                 CheckDrained, SleepUntilDrained, Disconnected
  <1>21. CASE (LockStopMutex \/ RequestDisable \/ CheckAllowed \/ SpuriousStopWakeup \/
              StopTimeout \/ EnableStreaming \/ DisableStreaming \/ StartEngine \/
              StopEngine) /\ UNCHANGED connectorVars
    BY <1>21 DEF LockStopMutex, RequestDisable, CheckAllowed,
                 SpuriousStopWakeup, StopTimeout, EnableStreaming, StartPeriod,
                 DisableStreaming, StartEngine, StopEngine
  <1>22. CASE UNCHANGED vars
    BY <1>22 DEF vars
  <1>23. QED
    BY <1>1, <1>2, <1>3, <1>4, <1>5, <1>6, <1>7, <1>8, <1>9, <1>10, <1>11,
       <1>12, <1>13, <1>14, <1>15, <1>16, <1>17, <1>18, <1>19, <1>20, <1>21,
       <1>22
       DEF Next, AudioCallback, ProcessAudioCallback, ControlStep, ControlCall, Wakeups,
           EnsureStreamingDisableAllowed

\* [W1].
LEMMA ReadyInvStep == ASSUME StrictInv, [Next]_vars PROVE ReadyInv'
  <1> USE DEF StrictInv, PeriodTypes, ReadyInv, DrainInv, GateInv, CloserInv,
              engineVars, connectorVars, historyVars, periodVars, handshakeVars, callbackVars,
              ctlVars
  <1>1. ASSUME NEW o \in Outputs, Invoke(o) \/ CountIn(o) \/ Recheck(o) \/ CountOut(o) \/
               CheckDisconnecting(o) \/ Notify(o) PROVE ReadyInv'
    BY <1>1 DEF Invoke, CountIn, Recheck, CountOut, CheckDisconnecting, Notify
  <1>2. ASSUME NEW o \in Outputs, LockOutput(o) \/ CheckW1(o) \/ SpuriousWakeup(o) \/
               CheckStreaming(o) \/ Enter(o) \/ Copy(o) \/ Count(o) \/ ClosePeriod(o) \/
               Decide(o) \/ OpenNext(o) \/ AllowDisable(o), UNCHANGED connectorVars PROVE
               ReadyInv'
    BY <1>2 DEF LockOutput, CheckW1, SpuriousWakeup, CheckStreaming, Enter,
                Copy, Count, ClosePeriod, FinishPeriod, Decide, OpenNext,
                StartPeriod, AllowDisable
  <1>3. ASSUME NEW o \in Outputs, NEW p \in Outputs, ResetOutput(o, p), UNCHANGED
               connectorVars PROVE ReadyInv'
    BY <1>3 DEF ResetOutput
  <1>4. ASSUME NEW p \in Outputs, BroadcastW1(p), UNCHANGED connectorVars PROVE ReadyInv'
    BY <1>4 DEF BroadcastW1
  <1>5. CASE Connect \/ Publish \/ Disconnect \/ Unpublish \/ LockCallbackMutex \/
             CheckDrained \/ SleepUntilDrained \/ Disconnected
    BY <1>5 DEF Connect, Publish, Disconnect, Unpublish, LockCallbackMutex,
                CheckDrained, SleepUntilDrained, Disconnected
  <1>6. CASE (LockStopMutex \/ RequestDisable \/ CheckAllowed \/ SpuriousStopWakeup \/
             StopTimeout \/ EnableStreaming \/ DisableStreaming \/ StartEngine \/
             StopEngine) /\ UNCHANGED connectorVars
    BY <1>6 DEF LockStopMutex, RequestDisable, CheckAllowed, SpuriousStopWakeup,
                StopTimeout, EnableStreaming, StartPeriod, DisableStreaming,
                StartEngine, StopEngine
  <1>7. CASE UNCHANGED vars
    BY <1>7 DEF vars
  <1>8. QED
    BY <1>1, <1>2, <1>3, <1>4, <1>5, <1>6, <1>7
       DEF Next, AudioCallback, ProcessAudioCallback, ControlStep, ControlCall, Wakeups,
           EnsureStreamingDisableAllowed

\* The audio of the round.
LEMMA DeliveredInvStep == ASSUME StrictInv, [Next]_vars PROVE DeliveredInv'
  <1> USE DEF StrictInv, PeriodTypes, DeliveredInv, HasAudio, InForce, DrainInv,
              GateInv, CloserInv, ReadyInv, StopInv, engineVars,
              connectorVars, historyVars, periodVars, handshakeVars, callbackVars, ctlVars
  <1>1. ASSUME NEW o \in Outputs, Invoke(o) \/ CountIn(o) \/ Recheck(o) \/ CountOut(o) \/
               CheckDisconnecting(o) \/ Notify(o) PROVE DeliveredInv'
    BY <1>1 DEF Invoke, CountIn, Recheck, CountOut, CheckDisconnecting, Notify
  <1>2. ASSUME NEW o \in Outputs, LockOutput(o) \/ CheckW1(o) \/ SpuriousWakeup(o) \/
               CheckStreaming(o) \/ Enter(o) \/ Copy(o) \/ Count(o) \/ ClosePeriod(o) \/
               Decide(o) \/ OpenNext(o) \/ AllowDisable(o), UNCHANGED connectorVars PROVE
               DeliveredInv'
    BY <1>2 DEF LockOutput, CheckW1, SpuriousWakeup, CheckStreaming, Enter,
                Copy, Count, ClosePeriod, FinishPeriod, Decide, OpenNext,
                StartPeriod, AllowDisable
  <1>3. ASSUME NEW o \in Outputs, NEW p \in Outputs, ResetOutput(o, p), UNCHANGED
               connectorVars PROVE DeliveredInv'
    BY <1>3 DEF ResetOutput
  <1>4. ASSUME NEW p \in Outputs, BroadcastW1(p), UNCHANGED connectorVars PROVE
               DeliveredInv'
    BY <1>4 DEF BroadcastW1
  <1>5. CASE Connect \/ Publish \/ Disconnect \/ Unpublish \/ LockCallbackMutex \/
             CheckDrained \/ SleepUntilDrained \/ Disconnected
    BY <1>5 DEF Connect, Publish, Disconnect, Unpublish, LockCallbackMutex,
                CheckDrained, SleepUntilDrained, Disconnected
  <1>6. CASE (LockStopMutex \/ RequestDisable \/ CheckAllowed \/ SpuriousStopWakeup \/
             StopTimeout \/ EnableStreaming \/ DisableStreaming \/ StartEngine \/
             StopEngine) /\ UNCHANGED connectorVars
    BY <1>6 DEF LockStopMutex, RequestDisable, CheckAllowed, SpuriousStopWakeup,
                StopTimeout, EnableStreaming, StartPeriod, DisableStreaming,
                StartEngine, StopEngine
  <1>7. CASE UNCHANGED vars
    BY <1>7 DEF vars
  <1>8. QED
    BY <1>1, <1>2, <1>3, <1>4, <1>5, <1>6, <1>7
       DEF Next, AudioCallback, ProcessAudioCallback, ControlStep, ControlCall, Wakeups,
           EnsureStreamingDisableAllowed

\* The counter of the period.
LEMMA PeriodInvStep == ASSUME StrictInv, [Next]_vars PROVE PeriodInv'
  <1> USE DEF StrictInv, PeriodTypes, PeriodInv, HasAudio, InForce, DrainInv,
              GateInv, CloserInv, ReadyInv, StopInv, engineVars,
              connectorVars, historyVars, periodVars, handshakeVars, callbackVars, ctlVars
  <1>1. ASSUME NEW o \in Outputs, Invoke(o) PROVE PeriodInv'
    <2>1. HasAudio' = HasAudio
      BY <1>1 DEF Invoke
    <2> HIDE DEF HasAudio
    <2>2. QED
      BY <1>1, <2>1 DEF Invoke
  <1>2. ASSUME NEW o \in Outputs, CountIn(o) PROVE PeriodInv'
    <2>1. HasAudio' = HasAudio
      BY <1>2 DEF CountIn
    <2> HIDE DEF HasAudio
    <2>2. QED
      BY <1>2, <2>1 DEF CountIn
  <1>3. ASSUME NEW o \in Outputs, Recheck(o) PROVE PeriodInv'
    <2>1. HasAudio' = HasAudio
      BY <1>3 DEF Recheck
    <2> HIDE DEF HasAudio
    <2>2. QED
      BY <1>3, <2>1 DEF Recheck
  <1>4. ASSUME NEW o \in Outputs, CountOut(o) PROVE PeriodInv'
    <2>1. HasAudio' = HasAudio
      BY <1>4 DEF CountOut
    <2> HIDE DEF HasAudio
    <2>2. QED
      BY <1>4, <2>1 DEF CountOut
  <1>5. ASSUME NEW o \in Outputs, CheckDisconnecting(o) PROVE PeriodInv'
    <2>1. HasAudio' = HasAudio
      BY <1>5 DEF CheckDisconnecting
    <2> HIDE DEF HasAudio
    <2>2. QED
      BY <1>5, <2>1 DEF CheckDisconnecting
  <1>6. ASSUME NEW o \in Outputs, Notify(o) PROVE PeriodInv'
    <2>1. HasAudio' = HasAudio
      BY <1>6 DEF Notify
    <2> HIDE DEF HasAudio
    <2>2. QED
      BY <1>6, <2>1 DEF Notify
  <1>7. ASSUME NEW o \in Outputs, LockOutput(o), UNCHANGED connectorVars PROVE PeriodInv'
    <2>1. HasAudio' = HasAudio
      BY <1>7 DEF LockOutput
    <2> HIDE DEF HasAudio
    <2>2. QED
      BY <1>7, <2>1 DEF LockOutput
  <1>8. ASSUME NEW o \in Outputs, CheckW1(o), UNCHANGED connectorVars PROVE PeriodInv'
    <2>1. HasAudio' = HasAudio
      BY <1>8 DEF CheckW1
    <2> HIDE DEF HasAudio
    <2>2. QED
      BY <1>8, <2>1 DEF CheckW1
  <1>9. ASSUME NEW o \in Outputs, SpuriousWakeup(o), UNCHANGED connectorVars PROVE
               PeriodInv'
    <2>1. HasAudio' = HasAudio
      BY <1>9 DEF SpuriousWakeup
    <2> HIDE DEF HasAudio
    <2>2. QED
      BY <1>9, <2>1 DEF SpuriousWakeup
  <1>10. ASSUME NEW o \in Outputs, CheckStreaming(o), UNCHANGED connectorVars PROVE
                PeriodInv'
    <2>1. HasAudio' = HasAudio
      BY <1>10 DEF CheckStreaming
    <2> HIDE DEF HasAudio
    <2>2. QED
      BY <1>10, <2>1 DEF CheckStreaming
  <1>11. ASSUME NEW o \in Outputs, Enter(o), UNCHANGED connectorVars PROVE PeriodInv'
    <2>1. HasAudio' = HasAudio
      BY <1>11 DEF Enter
    <2> HIDE DEF HasAudio
    <2>2. QED
      BY <1>11, <2>1 DEF Enter
  <1>12. ASSUME NEW o \in Outputs, Copy(o), UNCHANGED connectorVars PROVE PeriodInv'
    <2>1. HasAudio' = HasAudio
      BY <1>12 DEF Copy
    <2> HIDE DEF HasAudio
    <2>2. QED
      BY <1>12, <2>1 DEF Copy
  <1>13. ASSUME NEW o \in Outputs, Count(o), UNCHANGED connectorVars PROVE PeriodInv'
    <2>1. /\ round = "open" /\ o \notin HasAudio
          /\ nFinished + 1 = Cardinality(HasAudio \union {o})
      BY <1>13, LastToFinish DEF Count
    <2>2. HasAudio' = HasAudio \union {o}
      BY <1>13 DEF Count
    <2>3. round' = "open" /\ nFinished' = Cardinality(HasAudio')
      BY <1>13, <2>1, <2>2 DEF Count
    <2>4. HasAudio' = Outputs => pc'[o] = "finishPeriod"
      BY <1>13, <2>1, <2>2 DEF Count, NOutputs
    <2> HIDE DEF HasAudio
    <2>5. QED
      BY <2>3, <2>4
  <1>14. ASSUME NEW o \in Outputs, ClosePeriod(o), UNCHANGED connectorVars PROVE PeriodInv'
    <2>1. HasAudio' = HasAudio
      BY <1>14 DEF ClosePeriod, FinishPeriod
    <2> HIDE DEF HasAudio
    <2>2. QED
      BY <1>14, <2>1 DEF ClosePeriod, FinishPeriod
  <1>15. ASSUME NEW o \in Outputs, Decide(o), UNCHANGED connectorVars PROVE PeriodInv'
    <2>1. HasAudio' = HasAudio
      BY <1>15 DEF Decide
    <2> HIDE DEF HasAudio
    <2>2. QED
      BY <1>15, <2>1 DEF Decide
  <1>16. ASSUME NEW o \in Outputs, OpenNext(o), UNCHANGED connectorVars PROVE PeriodInv'
    <2>1. HasAudio' = {}
      BY <1>16 DEF OpenNext
    <2>2. nFinished = 0
      BY <1>16 DEF OpenNext
    <2> HIDE DEF HasAudio
    <2>3. QED
      BY <1>16, <2>1, <2>2, FS_EmptySet DEF OpenNext, StartPeriod
  <1>17. ASSUME NEW o \in Outputs, AllowDisable(o), UNCHANGED connectorVars PROVE PeriodInv'
    <2>1. HasAudio' = HasAudio
      BY <1>17 DEF AllowDisable
    <2> HIDE DEF HasAudio
    <2>2. QED
      BY <1>17, <2>1 DEF AllowDisable
  <1>18. ASSUME NEW o \in Outputs, NEW p \in Outputs, ResetOutput(o, p), UNCHANGED
                connectorVars PROVE PeriodInv'
    <2>1. HasAudio' = HasAudio
      BY <1>18 DEF ResetOutput
    <2> HIDE DEF HasAudio
    <2>2. QED
      BY <1>18, <2>1 DEF ResetOutput
  <1>19. ASSUME NEW p \in Outputs, BroadcastW1(p), UNCHANGED connectorVars PROVE PeriodInv'
    <2>1. HasAudio' = HasAudio
      BY <1>19 DEF BroadcastW1
    <2> HIDE DEF HasAudio
    <2>2. QED
      BY <1>19, <2>1 DEF BroadcastW1
  <1>20. CASE Connect \/ Publish \/ Disconnect \/ Unpublish \/ LockCallbackMutex \/
              CheckDrained \/ SleepUntilDrained \/ Disconnected
    BY <1>20 DEF Connect, Publish, Disconnect, Unpublish, LockCallbackMutex,
                 CheckDrained, SleepUntilDrained, Disconnected
  <1>21. CASE EnableStreaming /\ UNCHANGED connectorVars
    <2>1. CASE toStart
      <3>1. HasAudio' = {}
        BY <1>21, <2>1 DEF EnableStreaming
      <3> HIDE DEF HasAudio
      <3>2. QED
        BY <1>21, <2>1, <3>1, FS_EmptySet DEF EnableStreaming, StartPeriod
    <2>2. CASE ~toStart
      <3>1. HasAudio' = HasAudio
        BY <1>21, <2>2 DEF EnableStreaming
      <3> HIDE DEF HasAudio
      <3>2. QED
        BY <1>21, <2>2, <3>1 DEF EnableStreaming
    <2>3. QED
      BY <2>1, <2>2
  <1>22. CASE (LockStopMutex \/ RequestDisable \/ CheckAllowed \/ SpuriousStopWakeup \/
              StopTimeout \/ DisableStreaming \/ StartEngine \/ StopEngine) /\ UNCHANGED
              connectorVars
    <2>1. CASE StartEngine \/ StopEngine
      BY <1>22, <2>1 DEF StartEngine, StopEngine
    <2>2. CASE LockStopMutex \/ RequestDisable \/ CheckAllowed \/ SpuriousStopWakeup \/
               StopTimeout
      <3>1. HasAudio' = HasAudio
        BY <2>2 DEF LockStopMutex, RequestDisable, CheckAllowed, SpuriousStopWakeup, StopTimeout
      <3>2. UNCHANGED <<round, nFinished, finished, toStart, pc>>
            /\ ctl' \notin {"built", "working", "enable"}
        BY <2>2 DEF LockStopMutex, RequestDisable, CheckAllowed, SpuriousStopWakeup, StopTimeout
      <3>3. ctl \notin {"built", "working", "enable"}
        BY <2>2 DEF LockStopMutex, RequestDisable, CheckAllowed, SpuriousStopWakeup, StopTimeout
      <3> HIDE DEF HasAudio
      <3>4. QED
        BY <3>1, <3>2, <3>3
    <2>3. CASE DisableStreaming
      <3>1. HasAudio' = HasAudio
        BY <2>3 DEF DisableStreaming
      <3> HIDE DEF HasAudio
      <3>2. QED
        BY <2>3, <3>1 DEF DisableStreaming
    <2>4. QED
      BY <1>22, <2>1, <2>2, <2>3
  <1>23. CASE UNCHANGED vars
    BY <1>23 DEF vars
  <1>24. QED
    BY <1>1, <1>2, <1>3, <1>4, <1>5, <1>6, <1>7, <1>8, <1>9, <1>10, <1>11,
       <1>12, <1>13, <1>14, <1>15, <1>16, <1>17, <1>18, <1>19, <1>20, <1>21,
       <1>22, <1>23
       DEF Next, AudioCallback, ProcessAudioCallback, ControlStep, ControlCall, Wakeups,
           EnsureStreamingDisableAllowed

\* The handshake of the graceful stop.
LEMMA StopInvStep == ASSUME StrictInv, [Next]_vars PROVE StopInv'
  <1> USE DEF StrictInv, PeriodTypes, StopInv, PeriodInv, InForce, DrainInv,
              GateInv, CloserInv, ReadyInv, engineVars, connectorVars, historyVars,
              periodVars, handshakeVars, callbackVars, ctlVars
  <1>1. ASSUME NEW o \in Outputs, Invoke(o) \/ CountIn(o) \/ Recheck(o) \/ CountOut(o) \/
               CheckDisconnecting(o) \/ Notify(o) PROVE StopInv'
    BY <1>1 DEF Invoke, CountIn, Recheck, CountOut, CheckDisconnecting, Notify
  <1>2. ASSUME NEW o \in Outputs, LockOutput(o) \/ CheckW1(o) \/ SpuriousWakeup(o) \/
               CheckStreaming(o) \/ Enter(o) \/ Copy(o) \/ Count(o) \/ ClosePeriod(o) \/
               Decide(o) \/ OpenNext(o) \/ AllowDisable(o), UNCHANGED connectorVars PROVE
               StopInv'
    BY <1>2 DEF LockOutput, CheckW1, SpuriousWakeup, CheckStreaming, Enter,
                Copy, Count, ClosePeriod, FinishPeriod, Decide, OpenNext,
                StartPeriod, AllowDisable
  <1>3. ASSUME NEW o \in Outputs, NEW p \in Outputs, ResetOutput(o, p), UNCHANGED
               connectorVars PROVE StopInv'
    BY <1>3 DEF ResetOutput
  <1>4. ASSUME NEW p \in Outputs, BroadcastW1(p), UNCHANGED connectorVars PROVE StopInv'
    BY <1>4 DEF BroadcastW1
  <1>5. CASE Connect \/ Publish \/ Disconnect \/ Unpublish \/ LockCallbackMutex \/
             CheckDrained \/ SleepUntilDrained \/ Disconnected
    BY <1>5 DEF Connect, Publish, Disconnect, Unpublish, LockCallbackMutex,
                CheckDrained, SleepUntilDrained, Disconnected
  <1>6. CASE (LockStopMutex \/ RequestDisable \/ CheckAllowed \/ SpuriousStopWakeup \/
             StopTimeout \/ EnableStreaming \/ DisableStreaming \/ StartEngine \/
             StopEngine) /\ UNCHANGED connectorVars
    BY <1>6 DEF LockStopMutex, RequestDisable, CheckAllowed, SpuriousStopWakeup,
                StopTimeout, EnableStreaming, StartPeriod, DisableStreaming,
                StartEngine, StopEngine
  <1>7. CASE UNCHANGED vars
    BY <1>7 DEF vars
  <1>8. QED
    BY <1>1, <1>2, <1>3, <1>4, <1>5, <1>6, <1>7
       DEF Next, AudioCallback, ProcessAudioCallback, ControlStep, ControlCall, Wakeups,
           EnsureStreamingDisableAllowed

\* A callback that has escaped is not forgotten.
LEMMA EscapeStays == ASSUME [Next]_vars, ~escaped' PROVE ~escaped
  BY DEF Next, vars, connectorVars, historyVars, AudioCallback, ControlStep, ControlCall,
         Wakeups, Invoke, CountIn, Recheck, CountOut, CheckDisconnecting, Notify, Connect,
         Publish, Disconnect, Unpublish, LockCallbackMutex, CheckDrained, SleepUntilDrained,
         Disconnected

LEMMA NextIInv == ASSUME IInv, [Next]_vars PROVE IInv'
  <1>1. BaseInv'
    BY TypesStep, CounterExactStep, GateInvStep, DisconnectDrainsStep DEF IInv, BaseInv
  <1>2. ~escaped' => ~escaped
    BY EscapeStays
  <1>3. ~escaped' => StrictInv'
    <2> SUFFICES ASSUME ~escaped' PROVE StrictInv'
      OBVIOUS
    <2>1. StrictInv
      BY <1>2 DEF IInv
    <2>2. QED
      BY <1>1, <2>1, DrainInvStep, OnceInvStep, CloserInvStep, ReadyInvStep, DeliveredInvStep,
         PeriodInvStep, StopInvStep DEF IInv, BaseInv, Types, StrictInv
  <1>4. QED
    BY <1>1, <1>3 DEF IInv

\* Whatever the devices, the user and the timeouts do, and whatever the reset forgets.
THEOREM Invariant == Spec => []IInv
  <1>1. IInv /\ [Next]_vars => IInv'
    BY NextIInv
  <1>2. QED
    BY <1>1, InitIInv, PTL DEF Spec

\* When DisconnectFromEngine() returns, and until the next connection, no more
\* callbacks are inside the engine than ConnectToEngine() has forgotten.
THEOREM DisconnectDrainsAlways == Spec => []DisconnectDrains
  <1>1. IInv => DisconnectDrains
    BY DEF IInv, BaseInv
  <1>2. QED
    BY <1>1, Invariant, PTL

\* An output gets the audio of a round at most once and only from an open
\* round, whatever timeouts and reconnections do to the period.
THEOREM OncePerRoundAlways == Spec => []OncePerRound
  <1>1. IInv => OncePerRound
    <2> SUFFICES ASSUME IInv, ~escaped, NEW o \in Outputs
                 PROVE  delivered[o] <= 1 /\ (pc[o] = "copy" => round = "open")
      BY DEF OncePerRound
    <2> USE DEF IInv
    <2>1. delivered[o] <= 1
      BY DEF StrictInv, OnceInv
    <2>2. pc[o] = "copy" => round = "open"
      BY DEF StrictInv, PeriodTypes, DrainInv, GateInv, InForce, ReadyInv, PeriodInv
    <2>3. QED
      BY <2>1, <2>2
  <1>2. QED
    BY <1>1, Invariant, PTL

\* A stop that was reported as graceful leaves a complete round that every
\* output has played, until the disconnection is over.
THEOREM GracefulStopAlways == Spec => []GracefulStop
  <1>1. IInv => GracefulStop
    <2> SUFFICES ASSUME IInv, ~escaped, graceful,
                        ctl \in {"unpublish", "disable", "broadcast", "drain", "drainCheck",
                                 "drainSleep", "drainWait", "drained"}
                 PROVE  /\ round = "complete"
                        /\ toStart
                        /\ \A o \in Outputs : finished[o] /\ delivered[o] = 1
      BY DEF GracefulStop
    <2> USE DEF IInv
    <2>1. toStart /\ InForce
      BY DEF StrictInv, StopInv, InForce
    <2>2. round = "complete" /\ \A o \in Outputs : pc[o] \notin Closing
      BY <2>1 DEF StrictInv, StopInv
    <2>3. \A o \in Outputs : finished[o]
      BY <2>1, <2>2 DEF StrictInv, PeriodInv
    <2>4. \A o \in Outputs : o \in HasAudio
      BY <2>2, <2>3 DEF HasAudio
    <2>5. \A o \in Outputs : delivered[o] = 1
      BY <2>1, <2>4 DEF StrictInv, DeliveredInv
    <2>6. QED
      BY <2>1, <2>2, <2>3, <2>5
  <1>2. QED
    BY <1>1, Invariant, PTL

\* The period is finished by one callback at a time, when every output has its audio and
\* nobody is about to copy.
THEOREM ClosedOnceForAllAlways == Spec => []ClosedOnceForAll
  <1>1. IInv => ClosedOnceForAll
    <2> SUFFICES ASSUME IInv, ~escaped, NEW o \in Outputs, pc[o] = "finishPeriod"
                 PROVE  /\ \A p \in Outputs : delivered[p] = 1 /\ pc[p] \notin {"enter", "copy"}
                        /\ \A p \in Outputs \ {o} : pc[p] \notin Closing
      BY DEF ClosedOnceForAll
    <2> USE DEF IInv
    <2>1. InForce
      BY DEF StrictInv, PeriodTypes, DrainInv, GateInv, InForce
    <2>2. /\ \A p \in Outputs : finished[p] /\ pc[p] # "reset"
          /\ \A p \in Outputs \ {o} : pc[p] \notin Closing
      BY DEF StrictInv, CloserInv
    <2>3. \A p \in Outputs : p \in HasAudio
      BY <2>2 DEF HasAudio
    <2>4. \A p \in Outputs : delivered[p] = 1
      BY <2>1, <2>3 DEF StrictInv, DeliveredInv
    <2>5. \A p \in Outputs : pc[p] \notin {"enter", "copy"}
      BY <2>2 DEF StrictInv, ReadyInv
    <2>6. QED
      BY <2>2, <2>4, <2>5
  <1>2. QED
    BY <1>1, Invariant, PTL

-----------------------------------------------------------------------------
(* Types *)

\* The outputs whose callback has entered the period and has not yet finished it.
Playing == {o \in Outputs : pc[o] \in {"copy", "count"}}

\* m_NCallbacksEnteredCurrPeriod runs ahead of m_NCallbacksFinishedCurrPeriod by exactly
\* the callbacks that are copying.
EnteredInv ==
  nEntered \in Nat /\ nEntered = nFinished + Cardinality(Playing)

LEMMA NobodyPlaying == Playing = {} => Cardinality(Playing) = 0
  BY FS_EmptySet

LEMMA EnteredInvStep ==
  ASSUME StrictInv, StrictInv', EnteredInv, [Next]_vars
  PROVE  EnteredInv'
  <1> USE DEF StrictInv, PeriodTypes, EnteredInv, engineVars, connectorVars, historyVars, periodVars, handshakeVars,
              callbackVars, ctlVars
  <1>0. Playing \in SUBSET Outputs
    BY DEF Playing
  <1>1. ASSUME Playing' = Playing, nEntered' = nEntered, nFinished' = nFinished
        PROVE  nEntered' \in Nat /\ nEntered' = nFinished' + Cardinality(Playing')
    BY <1>1
  <1>2. ASSUME nEntered' = 0, nFinished' = 0, Playing' = {}
        PROVE  nEntered' \in Nat /\ nEntered' = nFinished' + Cardinality(Playing')
    BY <1>2, FS_EmptySet
  <1>3. ASSUME NEW o \in Outputs, Enter(o), UNCHANGED connectorVars PROVE EnteredInv'
    <2>1. Playing' = Playing \union {o} /\ o \in Outputs \ Playing
      BY <1>3 DEF Enter, Playing
    <2>2. Cardinality(Playing') = Cardinality(Playing) + 1
      BY <1>0, <2>1, OutputSets
    <2>3. Cardinality(Playing) \in Nat
      BY <1>0, OutputSets, FS_CardinalityType DEF NOutputs
    <2>4. QED
      BY <1>3, <2>2, <2>3 DEF Enter
  <1>4. ASSUME NEW o \in Outputs, Count(o), UNCHANGED connectorVars PROVE EnteredInv'
    <2>1. Playing' = Playing \ {o} /\ o \in Playing
      BY <1>4 DEF Count, Playing
    <2>2. Cardinality(Playing') = Cardinality(Playing) - 1
      BY <1>0, <2>1, OutputSets
    <2>3. Cardinality(Playing) \in Nat
      BY <1>0, OutputSets, FS_CardinalityType DEF NOutputs
    <2>4. QED
      BY <1>4, <2>2, <2>3 DEF Count
  <1>5. ASSUME NEW o \in Outputs, ClosePeriod(o), UNCHANGED connectorVars PROVE EnteredInv'
    <2>1. \A p \in Outputs : finished[p]
      BY <1>5 DEF ClosePeriod, CloserInv
    <2>2. Playing' = {}
      BY <1>5, <2>1 DEF ClosePeriod, FinishPeriod, Playing, ReadyInv
    <2>3. QED
      BY <1>2, <1>5, <2>2 DEF ClosePeriod, FinishPeriod
  <1>6. CASE StopEngine /\ UNCHANGED connectorVars
    <2>1. Playing' = {}
      BY <1>6 DEF StopEngine, Playing
    <2>2. QED
      BY <1>2, <1>6, <2>1 DEF StopEngine
  <1>7. ASSUME NEW o \in Outputs, Invoke(o) \/ CountIn(o) \/ Recheck(o) \/ CountOut(o) \/
               CheckDisconnecting(o) \/ Notify(o) PROVE EnteredInv'
    BY <1>1, <1>7 DEF Invoke, CountIn, Recheck, CountOut, CheckDisconnecting, Notify, Playing
  <1>8. ASSUME NEW o \in Outputs, LockOutput(o) \/ CheckW1(o) \/ SpuriousWakeup(o) \/
               CheckStreaming(o) \/ Decide(o) \/ OpenNext(o) \/ AllowDisable(o),
               UNCHANGED connectorVars
        PROVE  EnteredInv'
    BY <1>1, <1>8 DEF LockOutput, CheckW1, SpuriousWakeup, CheckStreaming, Decide, OpenNext,
                      StartPeriod, AllowDisable, Playing
  <1>9. ASSUME NEW o \in Outputs, Copy(o), UNCHANGED connectorVars PROVE EnteredInv'
    <2>1. Playing' = Playing
      BY <1>9 DEF Copy, Playing
    <2>2. QED
      BY <1>1, <1>9, <2>1 DEF Copy
  <1>10. ASSUME NEW o \in Outputs, NEW p \in Outputs, ResetOutput(o, p),
                UNCHANGED connectorVars
         PROVE  EnteredInv'
    <2>1. Playing' = Playing
      BY <1>10 DEF ResetOutput, Playing
    <2>2. QED
      BY <1>1, <1>10, <2>1 DEF ResetOutput
  <1>11. ASSUME NEW p \in Outputs, BroadcastW1(p), UNCHANGED connectorVars PROVE EnteredInv'
    <2>1. Playing' = Playing
      BY <1>11 DEF BroadcastW1, Playing
    <2>2. QED
      BY <1>1, <1>11, <2>1 DEF BroadcastW1
  <1>12. CASE Connect \/ Publish \/ Disconnect \/ Unpublish \/ LockCallbackMutex \/
              CheckDrained \/ SleepUntilDrained \/ Disconnected
    BY <1>1, <1>12 DEF Connect, Publish, Disconnect, Unpublish, LockCallbackMutex,
                       CheckDrained, SleepUntilDrained, Disconnected, Playing
  <1>13. CASE (LockStopMutex \/ RequestDisable \/ CheckAllowed \/ SpuriousStopWakeup \/
               StopTimeout \/ EnableStreaming \/ DisableStreaming \/ StartEngine) /\
              UNCHANGED connectorVars
    <2>1. Playing' = Playing
      BY <1>13 DEF LockStopMutex, RequestDisable, CheckAllowed, SpuriousStopWakeup,
                   StopTimeout, EnableStreaming, DisableStreaming, StartEngine, Playing
    <2>2. QED
      BY <1>1, <1>13, <2>1
         DEF LockStopMutex, RequestDisable, CheckAllowed, SpuriousStopWakeup,
             StopTimeout, EnableStreaming, DisableStreaming, StartEngine
  <1>14. CASE UNCHANGED vars
    BY <1>1, <1>14 DEF vars, Playing
  <1>15. QED
    BY <1>3, <1>4, <1>5, <1>6, <1>7, <1>8, <1>9, <1>10, <1>11, <1>12, <1>13, <1>14
       DEF Next, AudioCallback, ProcessAudioCallback, ControlStep, ControlCall, Wakeups,
           EnsureStreamingDisableAllowed

\* Both counters of the period stay within the number of outputs: a callback that is
\* copying is not among those that have the audio.
LEMMA CountersBounded ==
  ASSUME StrictInv, EnteredInv
  PROVE  nEntered \in 0..NOutputs /\ nFinished \in 0..NOutputs
  <1> USE DEF StrictInv, PeriodTypes, EnteredInv
  <1>1. Playing \in SUBSET Outputs /\ HasAudio \in SUBSET Outputs
    BY DEF Playing, HasAudio
  <1>2. /\ IsFiniteSet(Playing) /\ Cardinality(Playing) \in 0..NOutputs
        /\ IsFiniteSet(HasAudio) /\ Cardinality(HasAudio) \in 0..NOutputs /\ NOutputs \in Nat
    BY <1>1, OutputSets, FS_CardinalityType DEF NOutputs
  <1>3. CASE nFinished = 0
    BY <1>2, <1>3
  <1>4. CASE nFinished # 0
    <2>1. InForce /\ round = "open"
      BY <1>4 DEF StopInv, InForce, PeriodInv
    <2>2. nFinished = Cardinality(HasAudio)
      BY <2>1 DEF PeriodInv
    <2>3. Playing \cap HasAudio = {}
      BY DEF Playing, HasAudio, ReadyInv
    <2>4. Cardinality(Playing \union HasAudio) = Cardinality(Playing) + Cardinality(HasAudio)
      BY <1>2, <2>3, FS_Union, FS_EmptySet
    <2>5. Cardinality(Playing \union HasAudio) \in 0..NOutputs
      BY <1>1, OutputSets
    <2>6. QED
      BY <1>2, <2>2, <2>4, <2>5
  <1>5. QED
    BY <1>3, <1>4

\* The types of the connector and of the engine under it; until a callback escapes,
\* m_NCallbacksEnteredCurrPeriod never exceeds the number of outputs, timeouts and
\* reconnections included.
THEOREM TypeCorrect == Spec => []TypeOK
  <1> DEFINE EInv == ~escaped => EnteredInv
  <1>1. Init => EInv
    <2> SUFFICES ASSUME Init PROVE EnteredInv
      OBVIOUS
    <2>1. Playing = {}
      BY DEF Init, Playing
    <2>2. QED
      BY <2>1, FS_EmptySet DEF Init, EnteredInv
  <1>2. IInv /\ IInv' /\ EInv /\ [Next]_vars => EInv'
    <2> SUFFICES ASSUME IInv, IInv', EInv, [Next]_vars, ~escaped' PROVE EnteredInv'
      OBVIOUS
    <2>1. ~escaped
      BY EscapeStays
    <2>2. QED
      BY <2>1, EnteredInvStep DEF IInv
  <1>3. IInv /\ EInv => TypeOK
    <2> SUFFICES ASSUME IInv, EInv PROVE TypeOK
      OBVIOUS
    <2>1. ~escaped => nEntered <= NOutputs /\ nFinished <= NOutputs
      <3> SUFFICES ASSUME ~escaped PROVE nEntered <= NOutputs /\ nFinished <= NOutputs
        OBVIOUS
      <3>1. nEntered \in 0..NOutputs /\ nFinished \in 0..NOutputs
        BY CountersBounded DEF IInv
      <3>2. NOutputs \in Nat
        BY FS_CardinalityType DEF NOutputs
      <3>3. QED
        BY <3>1, <3>2
    <2>2. QED
      BY <2>1 DEF IInv, BaseInv, Types, PeriodTypes, ConnectorTypes, TypeOK, EngineTypeOK
  <1> HIDE DEF EInv
  <1>4. QED
    BY <1>1, <1>2, <1>3, InitIInv, Invariant, PTL DEF Spec

==============================================================================
