-------------------------------- MODULE Setter --------------------------------
(***************************************************************************)
(* GOSetter: the banked generals, the frames of the sequencer and the      *)
(* steps of the crescendos are combinations.  Pushing one stores the       *)
(* drawstops in it if Set is on, otherwise it sets them as stored.         *)
(*                                                                         *)
(* Which of Regular, Scope, Scoped and of Full is on only matters when a   *)
(* combination is stored, so that both are chosen then.  Left out: the     *)
(* displays, the number that is typed in for a frame, the bank that the    *)
(* general buttons show, the list of combination files.                    *)
(***************************************************************************)
EXTENDS Drawstops, Combinations

CONSTANTS
  NGenerals,   \* bound: GENERALS * GENERAL_BANKS
  NFrames,     \* bound: FRAME_GENERALS
  NCrescendos, \* N_CRESCENDOS
  NSteps,      \* CRESCENDO_STEPS
  \* the combinations with Protected, which are not stored into and not loaded
  ProtectedGenerals, ProtectedFrames, ProtectedSteps,
  InitGeneral, InitFrame, InitCrescendo, \* as LoadCombination() reads them: what is not
                                         \* listed is left alone, whatever IsFull says
  InitOverride,
  MaxEdits     \* bound: how often combinations are changed

Generals   == 0..NGenerals - 1
Frames     == 0..NFrames - 1
Crescendos == 0..NCrescendos - 1
Steps      == 0..NCrescendos * NSteps - 1

ASSUME SetterAssumption ==
  /\ NGenerals \in Nat /\ NFrames \in Nat \ {0} /\ NCrescendos \in Nat \ {0} /\ NSteps \in Nat \ {0}
  /\ NCrescendos <= NSteps
  /\ ProtectedGenerals \subseteq Generals /\ ProtectedFrames \subseteq Frames
  /\ ProtectedSteps \subseteq Steps /\ Crescendos \subseteq StateNames /\ MaxEdits \in Nat
  /\ InitGeneral \in [Generals -> Combination] /\ InitFrame \in [Frames -> Combination]
  /\ InitCrescendo \in [Steps -> Combination] /\ InitOverride \in [Crescendos -> BOOLEAN]
  /\ Elements = Drawstops \* InitGeneral() takes them all.

VARIABLES
  isSet,      \* m_state.isSetActive
  general, frame, crescendo, \* m_general, m_framegeneral, m_crescendo
  pos,        \* m_pos, the current frame
  bank,       \* m_crescendobank
  step,       \* m_crescendopos
  override,   \* m_CrescendoOverrideMode of each crescendo
  stateName,  \* m_CombinationStateName of each step
  cmbModified, organModified, \* m_state.m_IsModified, m_OrganModified
  file,       \* the combination file
  edits       \* bounded by MaxEdits

combinationVars == <<general, frame, crescendo>>
crescendoVars   == <<bank, step, override, stateName>>
modifiedVars    == <<cmbModified, organModified>>
vars == <<calls, drawstopVars, isSet, combinationVars, pos, crescendoVars, modifiedVars,
          file, edits>>

CanEdit   == edits < MaxEdits
AtRest    == calls = <<>>
EngagedElements == {e \in Elements : engaged[e]}

\* crescendo_cmb_state_name()
StateName(isOverride, b) == IF isOverride THEN Default ELSE b

\* The end of PushGeneral(): the button is lit. It says which combination was pushed.
LightCall(c, name) == [op |-> "Light", cmb |-> c, name |-> name]

\* GOCombination::Push() while Set is off: one drawstop after the other
PushCalls(c, name) ==
  [i \in DOMAIN ElementOrder |-> SetCall(ElementOrder[i], c.state[ElementOrder[i]], name)]

\* ... when it is called in a row with others
PushCall(c, name) == [op |-> "Push", cmb |-> c, name |-> name]

Push ==
  /\ Doing("Push")
  /\ calls' = PushCalls(Call.cmb, Call.name) \o Tail(calls)
  /\ UNCHANGED drawstopVars

\* NotifyCmbPushed(): only the first change is noted.
NotifyCmbPushed(isChanged, isForceSet) ==
  IF isChanged /\ (isSet \/ isForceSet) /\ ~cmbModified
    THEN cmbModified' = TRUE /\ organModified' = TRUE
    ELSE UNCHANGED modifiedVars

\* What a combination may hold after it is pushed: a protected one is not stored into.
AfterPush(c, isProtected) ==
  IF isSet /\ ~isProtected
    THEN {FillWithCurrent(c, type, invisible, EngagedElements) :
            type \in SetterTypes, invisible \in BOOLEAN}
    ELSE {c}

\* PushGeneral() of combination c, which becomes new
PushGeneral(c, new, name, isProtected) ==
  /\ IF isSet THEN CanEdit /\ edits' = edits + 1 /\ calls' = <<>>
              ELSE calls' = PushCalls(c, name) \o <<LightCall(c, name)>> /\ UNCHANGED edits
  /\ NotifyCmbPushed(Used(new) /\ ~isProtected, FALSE)

----------------------------------------------------------------------------
(* Generals and the sequencer *)

PushBankedGeneral(g) ==
  /\ AtRest
  /\ \E new \in AfterPush(general[g], g \in ProtectedGenerals) :
       /\ PushGeneral(general[g], new, Default, g \in ProtectedGenerals)
       /\ general' = [general EXCEPT ![g] = new]
  /\ UNCHANGED <<drawstopVars, isSet, frame, crescendo, pos, crescendoVars, file>>

\* SetPosition() of the buttons that recall the frame: Prev, Next, Current, __0 .. __9
GotoFrame(p) ==
  /\ AtRest
  /\ pos' = p
  /\ \E new \in AfterPush(frame[p], p \in ProtectedFrames) :
       /\ PushGeneral(frame[p], new, Default, p \in ProtectedFrames)
       /\ frame' = [frame EXCEPT ![p] = new]
  /\ UNCHANGED <<drawstopVars, isSet, general, crescendo, crescendoVars, file>>

\* ... and of those that only prepare it: -100 ... +100, Home
PrepareFrame(p) ==
  /\ AtRest
  /\ pos' = p
  /\ UNCHANGED <<calls, drawstopVars, isSet, combinationVars, crescendoVars, modifiedVars,
                 file, edits>>

\* ID_SETTER_INSERT: the frames from here on move up, the protected ones among them, then
\* this one is pushed.
Insert ==
  /\ AtRest /\ CanEdit
  /\ LET moved == [p \in Frames |-> IF p > pos THEN Copied(frame[p - 1], frame[p]) ELSE frame[p]]
         changed == pos < NFrames - 1 /\ \E p \in Frames : p >= pos /\ ~IsEmpty(frame[p])
     IN  \E new \in AfterPush(moved[pos], pos \in ProtectedFrames) :
           /\ frame' = [moved EXCEPT ![pos] = new]
           /\ calls' = IF isSet THEN <<>>
                       ELSE PushCalls(moved[pos], Default) \o <<LightCall(moved[pos], Default)>>
           /\ NotifyCmbPushed(\/ changed
                              \/ isSet /\ Used(new) /\ pos \notin ProtectedFrames, TRUE)
  /\ edits' = edits + 1
  /\ UNCHANGED <<drawstopVars, isSet, general, crescendo, pos, crescendoVars, file>>

\* ID_SETTER_DELETE: the last frame stays.
Delete ==
  /\ AtRest /\ CanEdit
  /\ frame' = [p \in Frames |->
       IF pos <= p /\ p < NFrames - 1 THEN Copied(frame[p + 1], frame[p]) ELSE frame[p]]
  /\ NotifyCmbPushed(pos < NFrames - 1 /\ \E p \in Frames : p >= pos /\ ~IsEmpty(frame[p]), TRUE)
  /\ edits' = edits + 1
  /\ UNCHANGED <<calls, drawstopVars, isSet, general, crescendo, pos, crescendoVars, file>>

----------------------------------------------------------------------------
(* Crescendos *)

StepIndex(p) == p + bank * NSteps

\* The steps from the current one to newpos, in the order they are passed.
Passed(newpos) ==
  IF newpos > step THEN [i \in 1..newpos - step |-> StepIndex(step + i)]
                   ELSE [i \in 1..step - newpos |-> StepIndex(step - i)]

\* Crescendo() while Set is off: `changed || Push()' pushes no more once a step with
\* an engaged drawstop has been pushed.
Pushed(newpos) ==
  LET passed == Passed(newpos)
      used   == {i \in DOMAIN passed : Used(crescendo[passed[i]])}
  IN  IF used = {} THEN passed
      ELSE SubSeq(passed, 1, CHOOSE i \in used : \A j \in used : i <= j)

\* The shoe is moved.
MoveCrescendo(newpos) ==
  /\ AtRest /\ ~isSet /\ newpos # step
  /\ LET pushed == Pushed(newpos)
     IN  calls' = [i \in DOMAIN pushed |-> PushCall(crescendo[pushed[i]], stateName[pushed[i]])]
  /\ step' = newpos
  /\ UNCHANGED <<drawstopVars, isSet, combinationVars, pos, bank, override, stateName,
                 modifiedVars, file, edits>>

\* The buttons < and > while Set is on: one step, and it is stored.
StoreStep(newpos) ==
  /\ AtRest /\ isSet /\ newpos \in {step - 1, step + 1} /\ newpos \in 0..NSteps - 1
  /\ CanEdit /\ edits' = edits + 1
  /\ LET i == StepIndex(newpos)
     IN  \E new \in AfterPush(crescendo[i], i \in ProtectedSteps) :
           /\ crescendo' = [crescendo EXCEPT ![i] = new]
           /\ NotifyCmbPushed(Used(new) /\ i \notin ProtectedSteps, FALSE)
  /\ step' = newpos
  /\ UNCHANGED <<calls, drawstopVars, isSet, general, frame, pos, bank, override, stateName,
                 file>>

\* ID_SETTER_CRESCENDO_CURRENT
PushStep ==
  /\ AtRest
  /\ LET i == StepIndex(step)
     IN  \E new \in AfterPush(crescendo[i], i \in ProtectedSteps) :
             /\ PushGeneral(crescendo[i], new, stateName[i], i \in ProtectedSteps)
             /\ crescendo' = [crescendo EXCEPT ![i] = new]
  /\ UNCHANGED <<drawstopVars, isSet, general, frame, pos, crescendoVars, file>>

\* SetCrescendoType(): the position stays.
SelectCrescendo(b) ==
  /\ AtRest
  /\ bank' = b
  /\ UNCHANGED <<calls, drawstopVars, isSet, combinationVars, pos, step, override, stateName,
                 modifiedVars, file, edits>>

\* ID_SETTER_CRESCENDO_OVERRIDE: names the steps from N_CRESCENDOS * m_crescendobank on.
PressOverride ==
  /\ AtRest
  /\ override' = [override EXCEPT ![bank] = ~@]
  /\ stateName' = [i \in Steps |->
       IF i \in NCrescendos * bank..NCrescendos * bank + NSteps - 1
         THEN StateName(~override[bank], bank) ELSE stateName[i]]
  /\ UNCHANGED <<calls, drawstopVars, isSet, combinationVars, pos, bank, step, modifiedVars,
                 file, edits>>

----------------------------------------------------------------------------
(* Files *)

\* ExportCombination() to the file that was loaded last
ExportCombination ==
  /\ AtRest
  /\ file' = [general   |-> [g \in Generals |-> ToYaml(general[g])],
              frame     |-> [p \in Frames |-> ToYaml(frame[p])],
              crescendo |-> [i \in Steps |-> ToYaml(crescendo[i])],
              override  |-> override]
  /\ cmbModified' = FALSE
  /\ UNCHANGED <<calls, drawstopVars, isSet, combinationVars, pos, crescendoVars,
                 organModified, edits>>

\* A crescendo without a stored step is not in the file, and overrides when loaded.
OverrideInFile(b) ==
  IF \E i \in b * NSteps..(b + 1) * NSteps - 1 : file.crescendo[i].present
    THEN file.override[b] ELSE TRUE

\* FromYaml() of a combination that may be protected
Loaded(c, y, isProtected) == IF isProtected THEN c ELSE FromYaml(y)

\* LoadCombination() of the file from the menu; what the steps set is named as before.
\* The button ID_SETTER_LOAD_FILE then switches Set off and recalls the first frame.
LoadCombination(byButton) ==
  /\ AtRest /\ file # <<>>
  /\ general' = [g \in Generals |-> Loaded(general[g], file.general[g], g \in ProtectedGenerals)]
  /\ frame' = [p \in Frames |-> Loaded(frame[p], file.frame[p], p \in ProtectedFrames)]
  /\ crescendo' = [i \in Steps |-> Loaded(crescendo[i], file.crescendo[i], i \in ProtectedSteps)]
  /\ override' = [b \in Crescendos |-> OverrideInFile(b)]
  /\ cmbModified' = FALSE /\ organModified' = TRUE
  /\ IF byButton
       THEN /\ isSet' = FALSE /\ pos' = 0
            /\ LET first == Loaded(frame[0], file.frame[0], 0 \in ProtectedFrames)
               IN  calls' = PushCalls(first, Default) \o <<LightCall(first, Default)>>
       ELSE UNCHANGED <<calls, isSet, pos>>
  /\ UNCHANGED <<drawstopVars, bank, step, stateName, file, edits>>

\* Save() of the organ settings
SaveSettings ==
  /\ AtRest
  /\ organModified' = FALSE
  /\ UNCHANGED <<calls, drawstopVars, isSet, combinationVars, pos, crescendoVars,
                 cmbModified, file, edits>>

----------------------------------------------------------------------------
(* What else happens to the drawstops *)

PressSet ==
  /\ AtRest
  /\ isSet' = ~isSet
  /\ UNCHANGED <<calls, drawstopVars, combinationVars, pos, crescendoVars, modifiedVars,
                 file, edits>>

\* GOOrganController::Reset() and StartPlayback(): all drawstops, one after another.
GeneralCancel ==
  /\ AtRest
  /\ calls' = [i \in DOMAIN ElementOrder |-> ResetCall(ElementOrder[i])] \o <<[op |-> "Cancelled"]>>
  /\ UNCHANGED <<drawstopVars, isSet, combinationVars, pos, crescendoVars, modifiedVars,
                 file, edits>>

StartCalls == [i \in DOMAIN ElementOrder |-> UpdateCall(ElementOrder[i])]

StartPlayback ==
  /\ AtRest
  /\ calls' = StartCalls
  /\ UNCHANGED <<drawstopVars, isSet, combinationVars, pos, crescendoVars, modifiedVars,
                 file, edits>>

\* The buttons of the combinations are lit or go dark.
Light ==
  /\ Doing("Light") \/ Doing("Cancelled")
  /\ calls' = Tail(calls)
  /\ UNCHANGED drawstopVars

\* The organ has been loaded and the sound starts.
Init ==
  /\ DrawstopsInit /\ calls = StartCalls
  /\ isSet = FALSE
  /\ general = InitGeneral /\ frame = InitFrame /\ crescendo = InitCrescendo
  /\ pos = 0 /\ bank = 0 /\ step = 0
  /\ override = InitOverride
  /\ stateName = [i \in Steps |-> StateName(override[i \div NSteps], i \div NSteps)]
  /\ cmbModified = FALSE /\ organModified = FALSE
  /\ file = <<>> /\ edits = 0

Handle ==
  /\ Set \/ Update \/ Reset \/ Push \/ Light \/ \E d \in Drawstops : Press(d)
  /\ UNCHANGED <<isSet, combinationVars, pos, crescendoVars, modifiedVars, file, edits>>

Next ==
  \/ Handle
  \/ \E g \in Generals : PushBankedGeneral(g)
  \/ \E p \in Frames : GotoFrame(p) \/ PrepareFrame(p)
  \/ Insert \/ Delete
  \/ \E p \in 0..NSteps - 1 : MoveCrescendo(p) \/ StoreStep(p)
  \/ \E b \in Crescendos : SelectCrescendo(b)
  \/ PushStep \/ PressOverride
  \/ ExportCombination \/ SaveSettings
  \/ \E byButton \in BOOLEAN : LoadCombination(byButton)
  \/ PressSet
  \/ GeneralCancel \/ StartPlayback

Spec == Init /\ [][Next]_vars

----------------------------------------------------------------------------
(* Properties *)

SetterCalls == DrawstopCalls \union [op : {"Push", "Light"}, cmb : Combination, name : Names]
                 \union {[op |-> "Cancelled"]}

Files == [general : [Generals -> CmbInFile], frame : [Frames -> CmbInFile],
          crescendo : [Steps -> CmbInFile], override : [Crescendos -> BOOLEAN]]

\* The type of every variable: positions stay inside their tables, whichever
\* crescendo is selected while the shoe is where it is.
TypeOK ==
  /\ calls \in Seq(SetterCalls) /\ DrawstopsTypeOK
  /\ isSet \in BOOLEAN
  /\ general \in [Generals -> Combination] /\ frame \in [Frames -> Combination]
  /\ crescendo \in [Steps -> Combination]
  /\ pos \in Frames /\ bank \in Crescendos /\ step \in 0..NSteps - 1
  /\ override \in [Crescendos -> BOOLEAN] /\ stateName \in [Steps -> Names]
  /\ cmbModified \in BOOLEAN /\ organModified \in BOOLEAN
  /\ file = <<>> \/ file \in Files
  /\ edits \in 0..MaxEdits

\* Whoever engages and releases drawstops, in whatever order and through whichever
\* functions: afterwards a drawstop is engaged if somebody wants it, and a read-only
\* one if its function says so. (SetResultState, Update)
DrawstopsSettled ==
  AtRest => \A d \in Drawstops : /\ engaged[d] <=> states[d] # {}
                                 /\ engaged[d] = Value(d)

\* When a push returns, what the combination stored is its wish for every drawstop, even
\* where a crescendo holds it and whatever the functions did in between: what it stored
\* as on is engaged, and what it stored as off only if somebody else holds it.
\* (GOCombination::Push)
RecallExact ==
  Doing("Light") => \A e \in Elements \cap Inputs :
    /\ Call.cmb.state[e] = "on" => Call.name \in states[e] /\ engaged[e]
    /\ Call.cmb.state[e] = "off" => Call.name \notin states[e] /\ (engaged[e] => states[e] # {})

\* After general cancel only what is exempt from it is engaged. (Reset)
CancelClears ==
  Doing("Cancelled") => \A e \in Elements \cap Inputs : GCState[e] = 0 => ~engaged[e]

\* What was stored in a general or loaded from a combination file comes back from one as it
\* was. Of one that is still as the organ definition or older settings listed it, FromYaml()
\* may switch off or leave alone other drawstops than were listed, but those that are on
\* come back, and no others. (ToYaml, FromYaml, SetLoadedState)
GeneralsRoundTrip ==
  \A g \in Generals :
    LET back == FromYaml(ToYaml(general[g])).state
    IN  /\ general[g] # InitGeneral[g] \/ WellStored(InitGeneral[g]) => back = general[g].state
        /\ \A e \in Elements : back[e] = "on" <=> general[g].state[e] = "on"
==============================================================================
