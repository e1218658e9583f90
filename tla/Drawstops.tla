------------------------------- MODULE Drawstops -------------------------------
(***************************************************************************)
(* GODrawstop: stops, couplers, tremulants and switches.  A drawstop is    *)
(* engaged as long as somebody engages it: the organist or a combination   *)
(* (the default state), or a crescendo (a state of its own).  Read-only    *)
(* drawstops are a logical function of other ones.                         *)
(*                                                                         *)
(* All handlers run on the main thread, depth first; `calls' is what is    *)
(* still to be called, the next call first (see Stops.tla).                *)
(***************************************************************************)
EXTENDS Integers, Sequences, FiniteSets, SequencesExt

CONSTANTS
  Drawstops,
  Function,      \* m_Type
  Controlling,   \* m_ControllingDrawstops, a sequence
  Controlled,    \* m_ControlledDrawstops, in the order they were registered
  GCState,       \* m_GCState: what general cancel does, -1 nothing, 1 engages
  InitEngaged,   \* the drawstops with DefaultToEngaged, which is read of inputs only
  StateNames,    \* who engages drawstops, besides ...
  Default        \* ... the state with the empty name

Inputs == {d \in Drawstops : Function[d] = "input"}

ASSUME DrawstopsAssumption ==
  /\ Function \in [Drawstops -> {"input", "and", "or", "nand", "nor", "xor", "not"}]
  /\ Controlling \in [Drawstops -> Seq(Drawstops)] /\ Controlled \in [Drawstops -> Seq(Drawstops)]
  /\ \A d \in Drawstops : /\ Controlling[d] = <<>> <=> d \in Inputs
                          /\ Function[d] = "not" => Len(Controlling[d]) = 1
                          /\ \A c \in Drawstops :
                               d \in ToSet(Controlled[c]) <=> c \in ToSet(Controlling[d])
  \* An organ definition where a switch controls itself through others is not usable.
  /\ \E depth \in [Drawstops -> 0..Cardinality(Drawstops)] :
       \A d \in Drawstops : \A c \in ToSet(Controlling[d]) : depth[c] < depth[d]
  /\ GCState \in [Drawstops -> -1..1] /\ InitEngaged \subseteq Inputs
  /\ Default \notin StateNames

VARIABLES
  calls,    \* what is still to be called
  engaged,  \* m_Engaged
  states    \* the names in m_InternalStates that are on

drawstopVars == <<engaged, states>>

----------------------------------------------------------------------------
(* The calls *)

SetCall(d, to, name) == [op |-> "Set", at |-> d, to |-> to, name |-> name]
UpdateCall(d)        == [op |-> "Update", at |-> d]
ResetCall(d)         == [op |-> "Reset", at |-> d]

Names         == StateNames \union {Default}
DrawstopCalls == [op : {"Set"}, at : Drawstops, to : {"on", "off", "keep"}, name : Names]
                   \union [op : {"Update", "Reset"}, at : Drawstops]

Call          == Head(calls)
Doing(op)     == calls # <<>> /\ Call.op = op
UpdateCalls(d) == [i \in DOMAIN Controlled[d] |-> UpdateCall(Controlled[d][i])]

\* SetResultState(): who depends on the drawstop is updated before anything else.
SetResultState(d, on, rest) ==
  /\ engaged' = [engaged EXCEPT ![d] = on]
  /\ calls' = (IF engaged[d] # on THEN UpdateCalls(d) ELSE <<>>) \o rest

\* Faulty: the last one who changes his mind decides.
SetInternalStateLast(d, on, name, rest) ==
  IF (name \in states[d]) # on
    THEN LET s == IF on THEN states[d] \union {name} ELSE states[d] \ {name}
         IN  states' = [states EXCEPT ![d] = s] /\ SetResultState(d, on, rest)
    ELSE UNCHANGED drawstopVars /\ calls' = rest

\* SetInternalState(): `on' is the wish of `name', and any wish is enough.
SetInternalState(d, on, name, rest) ==
  IF (name \in states[d]) # on
    THEN LET s == IF on THEN states[d] \union {name} ELSE states[d] \ {name}
         IN  states' = [states EXCEPT ![d] = s] /\ SetResultState(d, s # {}, rest)
    ELSE UNCHANGED drawstopVars /\ calls' = rest

\* A crescendo holds the drawstop: CalculateResultState(false)
Held(d) == states[d] \ {Default} # {}

\* SetButtonState()
SetButtonState(d, on, rest) ==
  IF d \in Inputs /\ ~Held(d)
    THEN SetInternalState(d, on, Default, rest)
    ELSE UNCHANGED drawstopVars /\ calls' = rest

\* Faulty: a combination can no more than the button.
SetAsButton ==
  /\ Doing("Set")
  /\ IF Call.to # "keep" THEN SetButtonState(Call.at, Call.to = "on", Tail(calls))
                         ELSE UNCHANGED drawstopVars /\ calls' = Tail(calls)

\* SetCombinationState(), of a drawstop that the combination does not leave as it is.
Set ==
  /\ Doing("Set")
  /\ IF Call.at \in Inputs /\ Call.to # "keep"
       THEN SetInternalState(Call.at, Call.to = "on", Call.name, Tail(calls))
       ELSE UNCHANGED drawstopVars /\ calls' = Tail(calls)

\* What Update() computes: inputs keep what they are.
Value(d) ==
  LET on == {i \in DOMAIN Controlling[d] : engaged[Controlling[d][i]]}
  IN  CASE Function[d] = "input" -> engaged[d]
        [] Function[d] = "and"   -> on = DOMAIN Controlling[d]
        [] Function[d] = "nand"  -> on # DOMAIN Controlling[d]
        [] Function[d] = "or"    -> on # {}
        [] Function[d] \in {"nor", "not"} -> on = {}
        [] OTHER                 -> Cardinality(on) % 2 = 1

\* Update()
Update ==
  /\ Doing("Update")
  /\ SetInternalState(Call.at, Value(Call.at), Default, Tail(calls))

\* Faulty: general cancel only takes back what the organist did.
ResetDefault ==
  /\ Doing("Reset")
  /\ IF Call.at \in Inputs /\ GCState[Call.at] >= 0
       THEN SetInternalState(Call.at, GCState[Call.at] = 1, Default, Tail(calls))
       ELSE UNCHANGED drawstopVars /\ calls' = Tail(calls)

\* Reset(): general cancel takes it from the crescendos as well.
Reset ==
  /\ Doing("Reset")
  /\ LET d == Call.at
     IN  \/ /\ d \notin Inputs \/ GCState[d] < 0
            /\ UNCHANGED drawstopVars /\ calls' = Tail(calls)
         \/ /\ d \in Inputs /\ GCState[d] = 0
            /\ states' = [states EXCEPT ![d] = {}] /\ SetResultState(d, FALSE, Tail(calls))
         \/ /\ d \in Inputs /\ GCState[d] = 1
            /\ SetButtonState(d, TRUE, Tail(calls))

\* Push() of a button
Press(d) ==
  /\ calls = <<>> /\ d \in Inputs
  /\ SetButtonState(d, ~engaged[d], <<>>)

\* Nobody has engaged what is engaged by default, before the sound starts.
DrawstopsInit ==
  /\ engaged = [d \in Drawstops |-> d \in InitEngaged]
  /\ states = [d \in Drawstops |-> {}]

DrawstopsTypeOK ==
  /\ engaged \in [Drawstops -> BOOLEAN]
  /\ states \in [Drawstops -> SUBSET Names]
==============================================================================
