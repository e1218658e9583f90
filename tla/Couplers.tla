------------------------------- MODULE Couplers -------------------------------
(***************************************************************************)
(* The keys: GOManual keeps for every key how strongly it is pressed by    *)
(* the player and by each coupler that leads to the manual; GOCoupler      *)
(* passes keys on to another manual, or shifted to its own.  A coupler may *)
(* lead to couplers that lead back to it.  A pressed key of velocity v has *)
(* 4v + 3 levels and every coupler takes one, so that going round ends.    *)
(*                                                                         *)
(* Extends Stops.tla, whose calls are the end of every chain.  MIDI output *)
(* and the display are left out.                                           *)
(***************************************************************************)
EXTENDS Stops

CONSTANTS
  NManuals,
  NKeys,        \* m_nb_logical_keys of each manual
  FirstNote,    \* GetFirstLogicalKeyMIDINoteNumber()
  Playable,     \* the keys that the player can reach
  StopsOf,      \* m_stops of each manual, a sequence
  Couplers,
  CouplersOf,   \* m_couplers of each manual, a sequence
  Dest,         \* m_DestinationManual of each coupler
  Kind,         \* "normal", "bass", "melody", or "unisonoff"
  KeyshiftTo,   \* m_DestinationKeyshift
  FirstCoupled, \* m_FirstLogicalKey
  NCoupled,     \* m_NumberOfKeys
  NewBasMel,    \* m_IsNewBasMel
  InitFlags,    \* the m_CoupleToSubsequent... flags a coupler is loaded with
  Through,      \* what each "Couple Through" button switches: a sequence of couplers
  Velocities,   \* bound: the velocities keys are pressed with
  Wrap,         \* 2^32 in the code: m_UnisonOff is unsigned
  Own           \* slot 0 of m_KeyVelocitiesByCoupler, the player's own fingers

Manuals   == 1..NManuals
KeysOf(m) == 0..NKeys[m] - 1
Source(c) == CHOOSE m \in Manuals : \E i \in DOMAIN CouplersOf[m] : CouplersOf[m][i] = c

\* CoupleToSubsequent...Couplers
Flag    == {"unison", "upIntra", "downIntra", "upInter", "downInter"}
Buttons == DOMAIN Through

ASSUME CouplersAssumption ==
  /\ NManuals \in Nat /\ NKeys \in [Manuals -> Nat \ {0}] /\ FirstNote \in [Manuals -> Int]
  /\ Playable \in [Manuals -> SUBSET Nat] /\ \A m \in Manuals : Playable[m] \subseteq KeysOf(m)
  /\ StopsOf \in [Manuals -> Seq(Stops)] /\ CouplersOf \in [Manuals -> Seq(Couplers)]
  /\ \A m, n \in Manuals : \A i \in DOMAIN StopsOf[m], j \in DOMAIN StopsOf[n] :
       StopsOf[m][i] = StopsOf[n][j] => m = n
  /\ \A c \in Couplers : \E m \in Manuals : \E i \in DOMAIN CouplersOf[m] : CouplersOf[m][i] = c
  /\ \A m, n \in Manuals : \A i \in DOMAIN CouplersOf[m], j \in DOMAIN CouplersOf[n] :
       CouplersOf[m][i] = CouplersOf[n][j] => m = n
  /\ IsFiniteSet(Couplers)
  /\ Dest \in [Couplers -> Manuals] /\ KeyshiftTo \in [Couplers -> Int]
  /\ Kind \in [Couplers -> {"normal", "bass", "melody", "unisonoff"}]
  /\ FirstCoupled \in [Couplers -> Nat] /\ NCoupled \in [Couplers -> Nat]
  /\ NewBasMel \in BOOLEAN /\ InitFlags \in [Couplers -> SUBSET Flag]
  /\ \A b \in Buttons : Through[b] \in Seq(Couplers)
  /\ Velocities \subseteq 1..MaxVelocity
  /\ Wrap \in Nat \ {0} /\ Own \notin Couplers

VARIABLES
  midiKey,    \* m_KeyVelocity of a manual: the keys as the player holds them
  bySlot,     \* m_KeyVelocitiesByCoupler: by manual, key and slot
  division,   \* m_DivisionKeyVelocities: what the stops of a manual hear
  unisonOff,  \* m_UnisonOff of each manual
  repeated,   \* history: has a "Couple Through" button counted a unison-off
              \* coupler of the manual into m_UnisonOff once more?
  engaged,    \* IsEngaged() of each coupler
  flags,      \* its m_CoupleToSubsequent...Couplers
  input,      \* m_KeyVelocity
  internal,   \* m_InternalVelocity: the output it would have if engaged
  out,        \* m_OutVelocity
  tone, last, \* m_CurrentTone and m_LastTone, -1 if there is none
  through     \* IsEngaged() of each "Couple Through" button

couplerVars == <<engaged, flags, input, internal, out, tone, last, through>>
manualVars  == <<midiKey, bySlot, division, unisonOff, repeated>>
keyVars     == <<calls, stopVars, couplerVars, manualVars>>

KeyCouplers == {c \in Couplers : Kind[c] # "unisonoff"}
Slots(m)    == {Own} \union {c \in KeyCouplers : Dest[c] = m}
Inter(c)    == Source(c) # Dest[c]
\* m_Keyshift, in keys
Keyshift(c) == KeyshiftTo[c] + FirstNote[Source(c)] - FirstNote[Dest[c]]

\* m_Velocity, m_RemoteVelocity: SetKeyState() computes both anew from the slots.
Velocity(m, k) == SetMax({bySlot[m][k][s] : s \in Slots(m)})
Remote(m, k)   == SetMax({0} \union {bySlot[m][k][s] : s \in Slots(m) \ {Own}})

----------------------------------------------------------------------------
(* The calls *)

NoteCall(m, k, v)       == [op |-> "Note", at |-> m, key |-> k, vel |-> v]
KeyCall(m, k, v, slot)  == [op |-> "Key", at |-> m, key |-> k, vel |-> v, slot |-> slot]
DivisionCall(m, k)      == [op |-> "Division", at |-> m, key |-> k]
CouplerCall(c, k)       == [op |-> "SetKey", at |-> c, key |-> k]
OutCall(c, n, v)        == [op |-> "SetOut", at |-> c, key |-> n, vel |-> v]
ToneCall(c, k, v, next, cancelled) ==
  [op |-> "Tone", at |-> c, key |-> k, vel |-> v, next |-> next, cancelled |-> cancelled]
LastCall(c, k, v, next) == [op |-> "Last", at |-> c, key |-> k, vel |-> v, next |-> next]
EmitCall(c, n, on)      == [op |-> "Emit", at |-> c, key |-> n, on |-> on]
ThroughCall(c, on)      == [op |-> "Through", at |-> c, on |-> on]
RefreshCall(c, n)       == [op |-> "Refresh", at |-> c, key |-> n]
UnisonCall(m, on)       == [op |-> "Unison", at |-> m, on |-> on]
AllOffCall(m)           == [op |-> "AllOff", at |-> m]
PrepareCall             == [op |-> "Prepare"]

\* How strongly a key can be pressed.
Levels == 0..4 * MaxVelocity + 3

KeyCalls == StopCalls \union
  [op : {"Note"}, at : Manuals, key : Nat, vel : PipeLevels] \union
  [op : {"Key"}, at : Manuals, key : Nat, vel : Levels, slot : Couplers \union {Own}] \union
  [op : {"Division"}, at : Manuals, key : Nat] \union
  [op : {"SetKey"}, at : Couplers, key : Nat] \union
  [op : {"SetOut"}, at : KeyCouplers, key : Int, vel : Levels] \union
  [op : {"Tone"}, at : KeyCouplers, key : Nat, vel : Levels, next : Int, cancelled : BOOLEAN] \union
  [op : {"Last"}, at : KeyCouplers, key : Nat, vel : Levels, next : Int] \union
  [op : {"Emit"}, at : KeyCouplers, key : Nat, on : BOOLEAN] \union
  [op : {"Through"}, at : Couplers, on : BOOLEAN] \union
  [op : {"Refresh"}, at : KeyCouplers, key : Nat] \union
  [op : {"Unison"}, at : Manuals, on : BOOLEAN] \union
  [op : {"AllOff"}, at : Manuals] \union {PrepareCall}

\* A call for each element of s, and for each of the keys 0..n - 1.
ForAll(s, CallOf(_)) == [i \in DOMAIN s |-> CallOf(s[i])]
ForKeys(n, CallOf(_)) == [i \in 1..n |-> CallOf(i - 1)]

----------------------------------------------------------------------------
(* Manuals *)

\* SetMidiNoteState(): a key of velocity v is v * 4 + 3 strong.
Note ==
  /\ Doing("Note")
  /\ LET m == Call.at
         k == Call.key
         v == Call.vel
     IN  IF k \in Playable[m] /\ midiKey[m][k] # v
           THEN /\ midiKey' = [midiKey EXCEPT ![m][k] = v]
                /\ Continue(<<KeyCall(m, k, IF v = 0 THEN 0 ELSE 4 * v + 3, Own)>>)
           ELSE UNCHANGED midiKey /\ Continue(<<>>)
  /\ UNCHANGED <<bySlot, division, unisonOff, repeated, couplerVars, stopVars>>

\* AllNotesOff()
AllNotesOff ==
  /\ Doing("AllOff")
  /\ Continue(ForKeys(NKeys[Call.at], LAMBDA k : NoteCall(Call.at, k, 0)))
  /\ UNCHANGED <<stopVars, couplerVars, manualVars>>

PropagateKeyToCouplers(m, k) == ForAll(CouplersOf[m], LAMBDA c : CouplerCall(c, k))

\* GOManual::SetKeyState(): the couplers first, then the division.
SetKeyState ==
  /\ Doing("Key")
  /\ LET m == Call.at
         k == Call.key
     IN  IF k \in KeysOf(m) /\ bySlot[m][k][Call.slot] # Call.vel
           THEN /\ bySlot' = [bySlot EXCEPT ![m][k][Call.slot] = Call.vel]
                /\ Continue(PropagateKeyToCouplers(m, k) \o <<DivisionCall(m, k)>>)
           ELSE UNCHANGED bySlot /\ Continue(<<>>)
  /\ UNCHANGED <<midiKey, division, unisonOff, repeated, couplerVars, stopVars>>

\* What the stops of a manual are told about a key: with unison off only what
\* comes through couplers.
Sounding(m, k) == (IF unisonOff[m] > 0 THEN Remote(m, k) ELSE Velocity(m, k)) \div 4

\* SetDivisionKeyState()
SetDivisionKeyState ==
  /\ Doing("Division")
  /\ LET m == Call.at
         k == Call.key
         v == Sounding(m, k)
     IN  IF division[m][k] # v
           THEN /\ division' = [division EXCEPT ![m][k] = v]
                /\ Continue(ForAll(StopsOf[m], LAMBDA s : StopKeyCall(s, k + 1, v)))
           ELSE UNCHANGED division /\ Continue(<<>>)
  /\ UNCHANGED <<midiKey, bySlot, unisonOff, repeated, couplerVars, stopVars>>

\* GOManual::SetUnisonOff(): only the first one on and the last one off matter.
SetUnisonOff ==
  /\ Doing("Unison")
  /\ LET m == Call.at
         n == (unisonOff[m] + (IF Call.on THEN 1 ELSE Wrap - 1)) % Wrap
     IN  /\ unisonOff' = [unisonOff EXCEPT ![m] = n]
         /\ Continue(IF (IF Call.on THEN unisonOff[m] ELSE n) = 0
                       THEN ForKeys(NKeys[m], LAMBDA k : DivisionCall(m, k))
                       ELSE <<>>)
  /\ UNCHANGED <<midiKey, bySlot, division, repeated, couplerVars, stopVars>>

----------------------------------------------------------------------------
(* Couplers *)

\* Faulty: the coupler does not take a level.
NoDecrement(v) == v

\* Faulty: the level of a released key wraps around.
DecrementWrapping(v) == (v + Wrap - 1) % Wrap

\* The output of a coupler is one level below its input.
Decrement(v) == IF v > 0 THEN v - 1 ELSE 0

\* May what the slot holds go through coupler c as well?
MayFollow(c, slot) ==
  \/ slot = Own
  \/ /\ slot # Own
     /\ \/ "unison" \in flags[slot] /\ KeyshiftTo[c] = 0
        \/ "downIntra" \in flags[slot] /\ KeyshiftTo[c] < 0 /\ ~Inter(c)
        \/ "upIntra" \in flags[slot] /\ KeyshiftTo[c] > 0 /\ ~Inter(c)
        \/ "downInter" \in flags[slot] /\ KeyshiftTo[c] < 0 /\ Inter(c)
        \/ "upInter" \in flags[slot] /\ KeyshiftTo[c] > 0 /\ Inter(c)

Coupled(c) ==
  {k \in KeysOf(Source(c)) : FirstCoupled[c] <= k /\ k < FirstCoupled[c] + NCoupled[c]}

\* What SetKey() takes from a key: the strongest of the slots that may follow.
Taken(c, k) ==
  SetMax({0} \union {bySlot[Source(c)][k][s] : s \in {s \in Slots(Source(c)) : MayFollow(c, s)}})

\* GetNextBasMelPressedKey(): the next pressed key above (melody: below) k; the
\* first one if k = -1.
NextPressed(c, pressed, k) ==
  LET down == {j \in DOMAIN pressed : pressed[j] > 0}
      beyond == {j \in down : k = -1 \/ (IF Kind[c] = "bass" THEN j > k ELSE j < k)}
  IN  IF beyond = {} THEN -1
      ELSE IF Kind[c] = "bass" THEN CHOOSE j \in beyond : \A i \in beyond : j <= i
      ELSE SetMax(beyond)

\* GOCoupler::SetKey() and the first part of ChangeKey(): a bass or melody coupler
\* gives up its tone if another key takes its place.
SetKey ==
  /\ Doing("SetKey")
  /\ LET c == Call.at
         k == Call.key
         v == Taken(c, k)
     IN  IF k \in Coupled(c) /\ input[c][k] # v
           THEN LET keys == [input[c] EXCEPT ![k] = v]
                    next == NextPressed(c, keys, -1)
                    away == tone[c] # -1 /\ next # tone[c]
                IN  /\ input' = [input EXCEPT ![c] = keys]
                    /\ Continue(
                         CASE Kind[c] = "unisonoff" -> <<>>
                           [] Kind[c] = "normal"    -> <<OutCall(c, k + Keyshift(c), v)>>
                           [] OTHER ->
                                (IF away THEN <<OutCall(c, tone[c] + Keyshift(c), 0)>> ELSE <<>>)
                                \o <<ToneCall(c, k, v, next, away)>>)
           ELSE UNCHANGED input /\ Continue(<<>>)
  /\ UNCHANGED <<engaged, flags, internal, out, tone, last, through, manualVars, stopVars>>

\* Faulty: the old tone is not given up.
ToneKept(c, k, v, next, cancelled) ==
  IF (v > 0 /\ next = k) \/ (v = 0 /\ next = last[c]) THEN next ELSE tone[c]

\* Which key a bass or melody coupler passes on: the lowest (highest) one if it
\* has just been pressed, or if it was the last one when another was released.
NewTone(c, k, v, next, cancelled) ==
  IF (v > 0 /\ next = k) \/ (v = 0 /\ next = last[c])
    THEN next
    ELSE IF cancelled THEN -1 ELSE tone[c]

\* ChangeKey(), after the old tone was given up
SetTone ==
  /\ Doing("Tone")
  /\ LET c == Call.at
         t == NewTone(c, Call.key, Call.vel, Call.next, Call.cancelled)
     IN  /\ tone' = [tone EXCEPT ![c] = t]
         /\ Continue((IF t # -1 THEN <<OutCall(c, t + Keyshift(c), input[c][t])>> ELSE <<>>)
                     \o <<LastCall(c, Call.key, Call.vel, Call.next)>>)
  /\ UNCHANGED <<engaged, flags, input, internal, out, last, through, manualVars, stopVars>>

\* ChangeKey(), the end: which key comes next.
NewLast(c, k, v, first) ==
  LET next == NextPressed(c, input[c], first)
  IN  IF ~NewBasMel THEN IF v > 0 THEN k ELSE -1
      ELSE IF Kind[c] = "bass"
        THEN IF v > 0 THEN IF k < next \/ next < 0 THEN k ELSE next
                      ELSE IF k < next THEN -1 ELSE next
        ELSE IF v > 0 THEN IF k > next \/ next <= 0 THEN k ELSE next
                      ELSE IF k > next THEN -1 ELSE next

SetLast ==
  /\ Doing("Last")
  /\ last' = [last EXCEPT ![Call.at] = NewLast(Call.at, Call.key, Call.vel, Call.next)]
  /\ Continue(<<>>)
  /\ UNCHANGED <<engaged, flags, input, internal, out, tone, through, manualVars, stopVars>>

\* Faulty: a disengaged coupler does not keep its keys.
SetOutIfEngaged ==
  /\ Doing("SetOut")
  /\ LET c == Call.at
         n == Call.key
     IN  IF engaged[c] /\ n \in KeysOf(Dest[c]) /\ internal[c][n] # Call.vel
           THEN /\ internal' = [internal EXCEPT ![c][n] = Call.vel]
                /\ out' = [out EXCEPT ![c][n] = Decrement(Call.vel)]
                /\ Continue(<<KeyCall(Dest[c], n, Decrement(Call.vel), c)>>)
           ELSE UNCHANGED <<internal, out>> /\ Continue(<<>>)
  /\ UNCHANGED <<engaged, flags, input, tone, last, through, manualVars, stopVars>>

\* GOCoupler::SetOut(): remembered also while the coupler is not engaged.
SetOut ==
  /\ Doing("SetOut")
  /\ LET c == Call.at
         n == Call.key
     IN  IF n \in KeysOf(Dest[c]) /\ internal[c][n] # Call.vel
           THEN /\ internal' = [internal EXCEPT ![c][n] = Call.vel]
                /\ IF engaged[c]
                     THEN /\ out' = [out EXCEPT ![c][n] = Decrement(Call.vel)]
                          /\ Continue(<<KeyCall(Dest[c], n, Decrement(Call.vel), c)>>)
                     ELSE UNCHANGED out /\ Continue(<<>>)
           ELSE UNCHANGED <<internal, out>> /\ Continue(<<>>)
  /\ UNCHANGED <<engaged, flags, input, tone, last, through, manualVars, stopVars>>

\* One iteration of OnDrawstopStateChanged()
Emit ==
  /\ Doing("Emit")
  /\ LET c == Call.at
         n == Call.key
         v == IF Call.on THEN Decrement(internal[c][n]) ELSE 0
     IN  IF out[c][n] # v
           THEN out' = [out EXCEPT ![c][n] = v] /\ Continue(<<KeyCall(Dest[c], n, v, c)>>)
           ELSE UNCHANGED out /\ Continue(<<>>)
  /\ UNCHANGED <<engaged, flags, input, internal, tone, last, through, manualVars, stopVars>>

\* SetRecursive() and RefreshState() of one coupler of the row. RefreshState()
\* makes a unison-off coupler be counted again.
CoupleThrough ==
  /\ Doing("Through")
  /\ LET c == Call.at
     IN  /\ flags' = [flags EXCEPT ![c] = IF Call.on THEN Flag ELSE {}]
         /\ \/ /\ Kind[c] = "unisonoff"
               /\ repeated' = [repeated EXCEPT ![Source(c)] = TRUE]
               /\ Continue(<<UnisonCall(Source(c), engaged[c])>>)
            \/ /\ Kind[c] # "unisonoff" /\ UNCHANGED repeated
               /\ Continue(ForKeys(NKeys[Dest[c]], LAMBDA n : RefreshCall(c, n)))
  /\ UNCHANGED <<engaged, input, internal, out, tone, last, through, stopVars>>
  /\ UNCHANGED <<midiKey, bySlot, division, unisonOff>>

\* One iteration of RefreshState()
Refresh ==
  /\ Doing("Refresh")
  /\ Continue(IF out[Call.at][Call.key] > 0
                THEN PropagateKeyToCouplers(Dest[Call.at], Call.key) ELSE <<>>)
  /\ UNCHANGED <<couplerVars, manualVars, stopVars>>

----------------------------------------------------------------------------
(* What starts a chain of calls *)

\* OnMidiReceived(): a key goes down, up, or down with another velocity.
PlayKey(m, k, v) ==
  /\ calls = <<>>
  /\ midiKey[m][k] # v
  /\ calls' = <<NoteCall(m, k, v)>>
  /\ UNCHANGED <<stopVars, couplerVars, manualVars>>

\* OnDrawstopStateChanged() of a coupler
SwitchCoupler(c) ==
  /\ calls = <<>>
  /\ engaged' = [engaged EXCEPT ![c] = ~@]
  /\ calls' = IF Kind[c] = "unisonoff"
                THEN <<UnisonCall(Source(c), ~engaged[c])>>
                ELSE ForKeys(NKeys[Dest[c]], LAMBDA n : EmitCall(c, n, ~engaged[c]))
  /\ UNCHANGED <<flags, input, internal, out, tone, last, through, stopVars, manualVars>>

\* GOVirtualCouplerController::ButtonStateChanged()
PressThrough(b) ==
  /\ calls = <<>>
  /\ through' = [through EXCEPT ![b] = ~@]
  /\ calls' = ForAll(Through[b], LAMBDA c : ThroughCall(c, ~through[b]))
  /\ UNCHANGED <<engaged, flags, input, internal, out, tone, last, stopVars, manualVars>>

\* The sound is stopped (AbortPlayback(): AllNotesOff() on every manual) ...
Restart ==
  /\ calls = <<>>
  /\ calls' = [m \in Manuals |-> AllOffCall(m)] \o <<PrepareCall>>
  /\ UNCHANGED <<stopVars, couplerVars, manualVars>>

NoMidiKeys == [m \in Manuals |-> [k \in Playable[m] |-> 0]]
NoSlots    == [m \in Manuals |-> [k \in KeysOf(m) |-> [s \in Slots(m) |-> 0]]]
NoDivision == [m \in Manuals |-> [k \in KeysOf(m) |-> 0]]
NoInput    == [c \in Couplers |-> [k \in KeysOf(Source(c)) |-> 0]]
NoOutput   == [c \in KeyCouplers |-> [k \in KeysOf(Dest[c]) |-> 0]]

\* How many unison-off couplers of a manual are engaged.
UnisonCouplers(m) == {c \in Couplers : Kind[c] = "unisonoff" /\ Source(c) = m /\ engaged[c]}

\* ... and started again: PreparePlayback() of manuals, then couplers, stops and
\* ranks. The tone of a bass coupler is not reset.
Prepare ==
  /\ Doing("Prepare")
  /\ midiKey' = NoMidiKeys /\ bySlot' = NoSlots /\ division' = NoDivision
  /\ input' = NoInput /\ internal' = NoOutput /\ out' = NoOutput
  /\ unisonOff' = [m \in Manuals |-> Cardinality(UnisonCouplers(m)) % Wrap]
  /\ repeated' = [m \in Manuals |-> FALSE]
  /\ PrepareStops
  /\ Continue(<<>>)
  /\ UNCHANGED <<engaged, flags, tone, last, through>>

KeysInit ==
  /\ calls = <<>>
  /\ StopsInit
  /\ midiKey = NoMidiKeys /\ bySlot = NoSlots /\ division = NoDivision
  /\ input = NoInput /\ internal = NoOutput /\ out = NoOutput
  /\ unisonOff = [m \in Manuals |-> 0] /\ repeated = [m \in Manuals |-> FALSE]
  /\ engaged = [c \in Couplers |-> FALSE]
  /\ flags = InitFlags
  /\ tone = [c \in KeyCouplers |-> -1] /\ last = tone
  /\ through = [b \in Buttons |-> FALSE]

Handle ==
  \/ Note \/ AllNotesOff \/ SetKeyState \/ SetDivisionKeyState \/ SetUnisonOff
  \/ SetKey \/ SetTone \/ SetLast \/ SetOut \/ Emit \/ CoupleThrough \/ Refresh \/ Prepare
  \/ /\ RankKey \/ SetRankKeyState \/ StopKey
     /\ UNCHANGED <<couplerVars, manualVars>>

KeysNext ==
  \/ Handle
  \/ \E m \in Manuals : \E k \in Playable[m], v \in Velocities \union {0} : PlayKey(m, k, v)
  \/ \E c \in Couplers : SwitchCoupler(c)
  \/ \E b \in Buttons : PressThrough(b)
  \/ \E s \in Stops : SwitchStop(s) /\ UNCHANGED <<couplerVars, manualVars>>
  \/ Restart

KeysSpec == KeysInit /\ [][KeysNext]_keyVars

----------------------------------------------------------------------------
(* Properties *)

AtRest == calls = <<>>

\* Type correctness of the manuals, couplers, stops and ranks.
KeysTypeOK ==
  /\ calls \in Seq(KeyCalls) /\ StopsTypeOK
  /\ \A m \in Manuals : /\ midiKey[m] \in [Playable[m] -> PipeLevels]
                        /\ bySlot[m] \in [KeysOf(m) -> [Slots(m) -> Levels]]
                        /\ division[m] \in [KeysOf(m) -> PipeLevels]
  /\ unisonOff \in [Manuals -> 0..Wrap - 1] /\ repeated \in [Manuals -> BOOLEAN]
  /\ engaged \in [Couplers -> BOOLEAN] /\ flags \in [Couplers -> SUBSET Flag]
  /\ \A c \in Couplers : input[c] \in [KeysOf(Source(c)) -> Levels]
  /\ \A c \in KeyCouplers : /\ internal[c] \in [KeysOf(Dest[c]) -> Levels]
                            /\ out[c] \in [KeysOf(Dest[c]) -> Levels]
                            /\ tone[c] \in KeysOf(Source(c)) \union {-1}
                            /\ last[c] \in KeysOf(Source(c)) \union {-1}
  /\ through \in [Buttons -> BOOLEAN]

\* Whatever keys were played and whatever couplers were switched meanwhile, and
\* however the couplers lead into each other: when a handler returns, every coupler
\* has taken what it may follow now, passes it on if it is engaged, and the
\* destination knows. (SetKey, SetOut, OnDrawstopStateChanged, RefreshState)
CouplersSettled ==
  AtRest => \A c \in KeyCouplers :
    /\ \A k \in KeysOf(Source(c)) : input[c][k] = IF k \in Coupled(c) THEN Taken(c, k) ELSE 0
    /\ \A n \in KeysOf(Dest[c]) :
         /\ bySlot[Dest[c]][n][c] = IF engaged[c] THEN Decrement(internal[c][n]) ELSE 0
         /\ internal[c][n] =
              LET k == n - Keyshift(c)
              IN  IF k \in KeysOf(Source(c)) /\ (Kind[c] = "normal" \/ tone[c] = k)
                    THEN input[c][k] ELSE 0

\* A bass (melody) coupler passes on the lowest (highest) key that it takes, or
\* none: never an inner voice. (ChangeKey)
OuterVoice ==
  AtRest => \A c \in KeyCouplers : Kind[c] # "normal" =>
    tone[c] \in {-1, NextPressed(c, input[c], -1)}

\* What the stops of a manual hear of a key: with a unison-off coupler engaged only
\* what comes through couplers.
Heard(m, k) ==
  (IF UnisonCouplers(m) # {} THEN Remote(m, k) ELSE Velocity(m, k)) \div 4

\* The same with and without the player's own keys.
EitherWay(m, k) == {Remote(m, k) \div 4, Velocity(m, k) \div 4}

\* The key of manual m that is key k of its stop s sounds as allowed.
StopsHear(Allowed(_, _)) ==
  AtRest => \A m \in Manuals : \A i \in DOMAIN StopsOf[m] :
    LET s == StopsOf[m][i]
    IN  s \notin Effects => \A k \in StopKeys(s) :
          LET key == k + FirstKey[s] - 1
          IN  stopKey[s][k] \in IF key \in KeysOf(m) THEN Allowed(m, key) ELSE {0}

\* A pipe speaks as loudly as the loudest of the keys that the engaged stops lead
\* to it, as these keys sound now; with a unison-off coupler engaged, without the
\* player's own keys.  Once a "Couple Through" button has made the manual count a
\* unison-off coupler again, its stops may hear the player's own keys or not, but
\* no key otherwise than it is held and coupled, until the sound is started anew.
\* (SetDivisionKeyState, SetUnisonOff, RefreshState, GOStop, GORank)
PipesFollowKeys ==
  /\ StopsHear(LAMBDA m, k : IF repeated[m] THEN EitherWay(m, k) ELSE {Heard(m, k)})
  /\ AtRest => \A r \in Ranks : \A p \in Pipes(r) :
       pipe[r][p] = SetMax({0} \union UNION {Asks(u[1], u[2], p) : u \in Users(r)})

\* What unison off promises, "Couple Through" or not. (SetUnisonOff, RefreshState)
UnisonExact == StopsHear(LAMBDA m, k : {Heard(m, k)})

\* Once the player has released every key, all pipes but the effects are silent,
\* even if couplers lead in a circle. (SetOut takes a level each time)
SilentWhenReleased ==
  AtRest /\ (\A m \in Manuals : \A k \in Playable[m] : midiKey[m][k] = 0) =>
    \A m \in Manuals : \A k \in KeysOf(m) : Velocity(m, k) = 0 /\ division[m][k] = 0

\* The strongest level, and the most calls that a single one makes.
MaxLevel  == 4 * SetMax(Velocities) + 3
Branching == SetMax({Len(CouplersOf[m]) : m \in Manuals}) + 1

\* The recursion is no deeper than once around per level of a key: couplers that
\* lead in a circle do not call each other for ever. (SetOut, OnDrawstopStateChanged)
RecursionBounded ==
  Len(calls) <= (MaxLevel + 1) * Branching + NManuals * SetMax({NKeys[m] : m \in Manuals}) + 1
==============================================================================
