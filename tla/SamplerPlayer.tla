----------------------------- MODULE SamplerPlayer -----------------------------
(***************************************************************************)
(* The life of a note: GOSoundingPipe and GOTremulant start, switch and    *)
(* stop samplers through GOSoundSamplerPlayer on the main thread, while    *)
(* the sound tasks mix them period by period and GOSoundReleaseTask turns  *)
(* a stopped attack into a release.                                        *)
(*                                                                         *)
(* A sampler is shared without a lock: the main thread writes its stop and *)
(* new_attack times, the workers read and clear them.  Sound is abstracted *)
(* to the number of periods a sampler still plays; times are counted in    *)
(* periods from now.  The lists are sets here (SamplerLists.tla looks      *)
(* inside), the cells and tremulant tasks are one place.                   *)
(***************************************************************************)
EXTENDS Integers, FiniteSets

CONSTANTS
  Samplers,
  Notes,       \* the pipes and synthesized tremulants
  Tremulants,  \* the tremulants among them
  Oneshots,    \* the percussive pipes, with an independent release
  Delay,       \* GetEffectiveDelay() of each note, in periods
  MaxLife,     \* bound: periods that a release, a fade or a one-shot lasts
  None

ASSUME PlayerAssumption ==
  /\ Tremulants \subseteq Notes /\ Oneshots \subseteq Notes \ Tremulants
  /\ Delay \in [Notes -> Nat] /\ \A n \in Tremulants : Delay[n] = 0
  /\ MaxLife \in Nat \ {0}
  /\ None \notin Notes \union Samplers

VARIABLES
  sampler,    \* the samplers, see Sampler below
  due,        \* those that the cells have still to mix in this period
  down,       \* the key is pressed, the drawstop engaged
  instances,  \* m_Instances > 0
  handle,     \* p_CurrentLoopSampler, m_PlaybackHandle
  call        \* StopSample() or SwitchSample() between its check and its write

keyVars == <<down, instances, handle, call>>
vars    == <<sampler, due, keyVars>>

Forever == MaxLife + 1
Lives   == 1..MaxLife

\* provider: p_SoundProvider.  A free sampler keeps it, unless its stream ended.
\* stop, newAttack: 0 if unset, 1 if due.  wait: periods until its time comes.
\* life: periods it still sounds.  History: unheld, StartPlayback() started it
\* and kept no handle; told, it was told to stop and has not been released since.
Sampler == [place : {"free", "cell", "release", "stopping", "switching"},
            provider : Notes \union {None}, isRelease : BOOLEAN,
            stop : Nat, newAttack : Nat, wait : Nat, life : 0..Forever,
            unheld : BOOLEAN, told : BOOLEAN]

Free == {s \in Samplers : sampler[s].place = "free"}

Freed(provider) ==
  [place |-> "free", provider |-> provider, isRelease |-> FALSE, stop |-> 0,
   newAttack |-> 0, wait |-> 0, life |-> 0, unheld |-> FALSE, told |-> FALSE]

\* GetSampler() clears it, StartSampler() passes it to its cell.
Started(note, isRelease, wait, life) ==
  [place |-> "cell", provider |-> note, isRelease |-> isRelease, stop |-> 0,
   newAttack |-> 0, wait |-> wait, life |-> life, unheld |-> FALSE, told |-> FALSE]

Attack(note, life) == Started(note, FALSE, Delay[note], life)

\* StartPlayback() starts a tremulant and does not keep what it gets.
Unheld(note, life) == [Attack(note, life) EXCEPT !.unheld = TRUE]

\* A pipe's loop sounds until it is told to stop, unless its gain is 0 (the fader
\* is silent from the start) or ReadBlock() breaks an invalid loop. A synthesized
\* tremulant has a valid loop and gain 1.
LoopLives == Lives \union {Forever}
AttackLives(note) ==
  IF note \in Oneshots THEN Lives
  ELSE IF note \in Tremulants THEN {Forever} ELSE LoopLives

NoCall == [op |-> "none", note |-> None, valid |-> FALSE]

----------------------------------------------------------------------------
(* The main thread *)

\* VelocityChanged() or OnDrawstopStateChanged(true): start the attack, if the
\* pool has a sampler; a pipe tries again when the velocity changes.
Press(n) ==
  /\ call = NoCall
  /\ IF n \in Tremulants THEN ~down[n] ELSE ~instances[n]
  /\ down' = [down EXCEPT ![n] = TRUE]
  /\ \/ \E s \in Free, life \in AttackLives(n) :
          /\ sampler' = [sampler EXCEPT ![s] = Attack(n, life)]
          /\ instances' = [instances EXCEPT ![n] = TRUE]
          /\ handle' = [handle EXCEPT ![n] = IF n \in Oneshots THEN None ELSE s]
     \/ Free = {} /\ UNCHANGED <<sampler, instances, handle>>
  /\ UNCHANGED <<due, call>>

\* Faulty: StopSample() does not ask which note the sampler plays now.
ReleaseUnchecked(n) ==
  /\ call = NoCall
  /\ down[n] /\ handle[n] # None
  /\ down' = [down EXCEPT ![n] = FALSE]
  /\ call' = [op |-> "stop", note |-> n, valid |-> TRUE]
  /\ UNCHANGED <<sampler, due, instances, handle>>

\* The key is released: StopSample() checks whether the sampler still plays this
\* note ...
Release(n) ==
  /\ call = NoCall
  /\ down[n] /\ handle[n] # None
  /\ down' = [down EXCEPT ![n] = FALSE]
  /\ call' = [op |-> "stop", note |-> n, valid |-> sampler[handle[n]].provider = n]
  /\ UNCHANGED <<sampler, due, instances, handle>>

\* ... and writes the time; the handle is forgotten.
WriteStop ==
  /\ call.op = "stop"
  /\ sampler' = IF call.valid
                  THEN [sampler EXCEPT ![handle[call.note]] =
                         [@ EXCEPT !.stop = 1 + Delay[call.note], !.told = TRUE]]
                  ELSE sampler
  /\ handle' = [handle EXCEPT ![call.note] = None]
  /\ instances' = [instances EXCEPT ![call.note] = FALSE]
  /\ call' = NoCall
  /\ UNCHANGED <<due, down>>

\* Without a handle a percussive pipe plays its independent release; any other
\* note has nothing to stop.
ReleaseWithoutHandle(n) ==
  /\ call = NoCall
  /\ down[n] /\ handle[n] = None
  /\ down' = [down EXCEPT ![n] = FALSE]
  /\ instances' = [instances EXCEPT ![n] = FALSE]
  /\ \/ /\ n \in Oneshots /\ instances[n]
        /\ \E s \in Free, life \in Lives :
             sampler' = [sampler EXCEPT ![s] = Started(n, TRUE, Delay[n], life)]
     \/ /\ n \notin Oneshots \/ ~instances[n] \/ Free = {}
        /\ UNCHANGED sampler
  /\ UNCHANGED <<due, handle, call>>

\* SetWaveTremulant(): SwitchSample() in the same two steps.
SwitchWaveTremulant(n) ==
  /\ call = NoCall
  /\ n \notin Tremulants /\ handle[n] # None
  /\ call' = [op |-> "switch", note |-> n, valid |-> sampler[handle[n]].provider = n]
  /\ UNCHANGED <<sampler, due, down, instances, handle>>

WriteNewAttack ==
  /\ call.op = "switch"
  /\ sampler' = IF call.valid
                  THEN [sampler EXCEPT ![handle[call.note]].newAttack = 1 + Delay[call.note]]
                  ELSE sampler
  /\ call' = NoCall
  /\ UNCHANGED <<due, down, instances, handle>>

\* GOTremulant::StartPlayback() starts the tremulants that are engaged, with the
\* samplers that f gives them; the others are in the pool.
Placements == {f \in [Tremulants -> Samplers] :
                 \A t, u \in Tremulants : f[t] = f[u] => t = u}

StartPlayback(engaged, f, provider) ==
  [s \in Samplers |-> IF \E t \in engaged : f[t] = s
                        THEN Unheld(CHOOSE t \in engaged : f[t] = s, Forever)
                        ELSE Freed(provider[s])]

\* StopOrgan() and StartOrgan(): AbortPlayback() forgets what was playing, the
\* new engine takes every sampler back into the pool (ReturnAll()).
Restart ==
  /\ call = NoCall
  /\ down' = [n \in Notes |-> n \in Tremulants /\ down[n]]
  /\ instances' = [n \in Notes |-> FALSE]
  /\ handle' = [n \in Notes |-> None]
  /\ due' = {}
  /\ \E f \in Placements :
       sampler' = StartPlayback({t \in Tremulants : down[t]}, f,
                                [s \in Samplers |-> sampler[s].provider])
  /\ UNCHANGED call

----------------------------------------------------------------------------
(* The sound tasks *)

\* ProcessSampler() in its cell or tremulant task: to the release task if it is
\* to be stopped or switched, back into the pool when it has ended (a stream
\* that ends clears the provider, a fader that is silent does not), whoever holds
\* it, else once more in the next period.
Mix(s) ==
  /\ s \in due
  /\ due' = due \ {s}
  /\ LET r    == sampler[s]
         life == IF r.life \in {0, Forever} THEN r.life ELSE r.life - 1
     IN  IF r.wait > 0 THEN UNCHANGED sampler
         ELSE \E p \in {r.provider} \union (IF life = 0 THEN {None} ELSE {}) :
                sampler' = [sampler EXCEPT ![s] =
                  IF 1 \in {r.stop, r.newAttack}
                    THEN [r EXCEPT !.place = "release", !.provider = p, !.life = life]
                  ELSE IF life = 0 THEN Freed(p)
                  ELSE [r EXCEPT !.life = life]]
  /\ UNCHANGED keyVars

\* GOSoundReleaseTask takes it; ProcessRelease() looks at stop first.
TakeRelease(s) ==
  /\ sampler[s].place = "release"
  /\ sampler' = [sampler EXCEPT ![s].place =
                   IF sampler[s].stop # 0 THEN "stopping" ELSE "switching"]
  /\ UNCHANGED <<due, keyVars>>

\* Faulty: the stop time is not cleared.
StopWithoutReset(s) ==
  /\ sampler[s].place = "stopping"
  /\ \E life \in Lives :
       sampler' = [sampler EXCEPT ![s] = [@ EXCEPT
         !.place = "cell", !.isRelease = TRUE, !.told = FALSE, !.life = life]]
  /\ UNCHANGED <<due, keyVars>>

\* CreateReleaseSampler(): the attack begins to fade; a release starts at the
\* next period if there is one for it and the pool has a sampler.
Stop(s) ==
  /\ sampler[s].place = "stopping"
  /\ LET r == [sampler[s] EXCEPT !.place = "cell", !.stop = 0, !.told = FALSE]
     IN  \/ /\ r.provider = None
            /\ sampler' = [sampler EXCEPT ![s] = r]
         \/ /\ r.provider # None
            /\ \E fade \in Lives, tail \in Lives :
                 LET fading == [r EXCEPT !.isRelease = TRUE,
                                         !.life = IF fade < @ THEN fade ELSE @]
                 IN  \/ sampler' = [sampler EXCEPT ![s] = fading]
                     \/ \E u \in Free :
                          sampler' = [sampler EXCEPT
                            ![s] = fading, ![u] = Started(r.provider, TRUE, 1, tail)]
  /\ UNCHANGED <<due, keyVars>>

\* Faulty: a stop time that was written meanwhile is cleared as well.
SwitchClearingStop(s) ==
  /\ sampler[s].place = "switching"
  /\ sampler' = [sampler EXCEPT ![s] =
                   [@ EXCEPT !.place = "cell", !.newAttack = 0, !.stop = 0]]
  /\ UNCHANGED <<due, keyVars>>

\* Faulty: a sampler that is fading already is switched to another attack.
SwitchIgnoringRelease(s) ==
  /\ sampler[s].place = "switching"
  /\ sampler' = [sampler EXCEPT ![s] =
                   [@ EXCEPT !.place = "cell", !.newAttack = 0, !.life = Forever]]
  /\ UNCHANGED <<due, keyVars>>

\* SwitchToAnotherAttack(): a copy fades out, the sampler itself starts another
\* attack at the next period, unless it is fading already, there is no other
\* attack or the pool is empty.
Switch(s) ==
  /\ sampler[s].place = "switching"
  /\ LET r == [sampler[s] EXCEPT !.place = "cell", !.newAttack = 0]
     IN  \/ sampler' = [sampler EXCEPT ![s] = r]
         \/ /\ r.provider # None /\ ~r.isRelease
            /\ \E u \in Free, fade \in Lives, life \in LoopLives :
                 sampler' = [sampler EXCEPT
                   ![s] = [r EXCEPT !.wait = 1, !.life = life],
                   ![u] = Started(r.provider, TRUE, 0, fade)]
  /\ UNCHANGED <<due, keyVars>>

\* Faulty: the wait goes on when it is over.
TickPastZero(r) ==
  IF r.place = "free" THEN r
  ELSE [r EXCEPT !.place = IF @ = "release" THEN "cell" ELSE @, !.wait = @ - 1]

\* One period later. A sampler the release task has not come to is passed back
\* to its cell as it is.
Tick(r) ==
  IF r.place = "free" THEN r
  ELSE [r EXCEPT !.place     = IF @ = "release" THEN "cell" ELSE @,
                 !.wait      = IF @ > 0 THEN @ - 1 ELSE 0,
                 !.stop      = IF @ > 1 THEN @ - 1 ELSE @,
                 !.newAttack = IF @ > 1 THEN @ - 1 ELSE @]

\* The period ends when the cells are done; a worker may still be in
\* ProcessRelease().
NextPeriod ==
  /\ due = {}
  /\ Free # Samplers
  /\ sampler' = [s \in Samplers |-> Tick(sampler[s])]
  /\ due' = {s \in Samplers : sampler'[s].place = "cell"}
  /\ UNCHANGED keyVars

----------------------------------------------------------------------------

\* StartOrgan() has returned; some tremulants may be engaged by default.
Init ==
  /\ \E engaged \in SUBSET Tremulants, f \in Placements :
       /\ down = [n \in Notes |-> n \in engaged]
       /\ sampler = StartPlayback(engaged, f, [s \in Samplers |-> None])
  /\ instances = [n \in Notes |-> FALSE]
  /\ handle = [n \in Notes |-> None]
  /\ call = NoCall
  /\ due = {}

Write == WriteStop \/ WriteNewAttack

Next ==
  \/ \E n \in Notes :
       Press(n) \/ Release(n) \/ ReleaseWithoutHandle(n) \/ SwitchWaveTremulant(n)
  \/ Write \/ Restart
  \/ \E s \in Samplers : Mix(s) \/ TakeRelease(s) \/ Stop(s) \/ Switch(s)
  \/ NextPeriod

\* The main thread and the workers run and the audio goes on. The release task
\* gets some samplers in every period, so that one that waits again and again is
\* taken in the end.
Fairness ==
  /\ WF_vars(Write) /\ WF_vars(NextPeriod)
  /\ \A s \in Samplers :
       /\ WF_vars(Mix(s)) /\ WF_vars(Stop(s)) /\ WF_vars(Switch(s))
       /\ SF_vars(TakeRelease(s))

Spec     == Init /\ [][Next]_vars
FairSpec == Spec /\ Fairness

----------------------------------------------------------------------------
(* Properties *)

\* The type of every variable.
TypeOK ==
  /\ sampler \in [Samplers -> Sampler]
  /\ due \subseteq Samplers
  /\ down \in [Notes -> BOOLEAN] /\ instances \in [Notes -> BOOLEAN]
  /\ handle \in [Notes -> Samplers \union {None}]
  /\ call \in [op : {"none", "stop", "switch"}, note : Notes \union {None},
               valid : BOOLEAN]

Sounds(s, n) ==
  sampler[s].place # "free" /\ sampler[s].provider = n /\ sampler[s].life = Forever

\* No note is forgotten: a sampler that would sound for ever is the one its note
\* holds, or has been told to stop and will see it, whatever it is being switched
\* to and whoever holds it at the time. Only a tremulant that StartPlayback()
\* started is not.
LoopsAccounted ==
  \A s \in Samplers, n \in Notes :
    Sounds(s, n) => handle[n] = s \/ sampler[s].stop # 0 \/ sampler[s].unheld

\* StopSample(): a sampler that "had already been reused with another pipe" is
\* not "erroneously told to decay" if that pipe's key is down: check and write are
\* two steps, and the sampler that was returned between them may be the release
\* of another note by then, but never its attack.
StopsNoOtherAttack ==
  call.op # "none" /\ call.valid =>
    LET r == sampler[handle[call.note]]
    IN  r.provider \in {call.note, None} \/ r.isRelease \/ r.place = "free"

\* The comment to the letter, which the two steps do not keep.
StopsOwnNote ==
  call.op # "none" /\ call.valid =>
    LET r == sampler[handle[call.note]]
    IN  r.provider \in {call.note, None} \/ r.place = "free"

\* A stop is acted upon once: not again when the sampler passes through its cell
\* and the release task a second time.
OneRelease == \A s \in Samplers : sampler[s].place = "stopping" => sampler[s].told

\* When the key is up or the drawstop off, the note stops sounding (its release
\* goes on, "StopRate determines the stop time of the tremulant"), unless
\* StartPlayback() started it.
NoteEnds ==
  \A n \in Notes :
    ~down[n] ~> (down[n] \/ \A s \in Samplers : Sounds(s, n) => sampler[s].unheld)

\* Of the tremulants that StartPlayback() starts as well, which the code breaks.
TremulantEnds ==
  \A n \in Tremulants :
    ~down[n] ~> (down[n] \/ \A s \in Samplers : ~Sounds(s, n))

==============================================================================
