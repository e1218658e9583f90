----------------------------- MODULE SetterProofs -----------------------------
(***************************************************************************)
(* Drawstops and combinations, for every organ definition without a cycle  *)
(* of functions, every set of combinations and every number of frames,     *)
(* banks and steps.                                                        *)
(*                                                                         *)
(* Between two calls a drawstop is settled, or the call that will settle   *)
(* it is still to come (SettledInv).  So the drawstops that are computed   *)
(* have the values their functions say whenever the nested calls have all  *)
(* returned, in whatever order the functions depend on each other.  For a  *)
(* push and for General Cancel the calls to come also hold what is not     *)
(* done yet (RecallInv, CancelInv), and the buttons are lit last           *)
(* (FinalLast): at that moment the organ shows what the combination holds. *)
(*                                                                         *)
(* A general that is saved and loaded again is the same one, because what  *)
(* is stored is always of a form that the file can express (StoredInv).    *)
(***************************************************************************)
EXTENDS Setter, SequenceTheorems, WellFoundedInduction, TLAPS

Derived        == Drawstops \ Inputs
DerivedUpdates == [op : {"Update"}, at : Derived]
Final          == {"Light", "Cancelled"}

\* What the calls do once they come to their end does not disturb what they were for.
FinalLast == \A i \in DOMAIN calls : calls[i].op \in Final => i = Len(calls)

\* A function's only input is its default state.
SettledDerived(d) ==
  /\ states[d] \subseteq {Default}
  /\ engaged[d] <=> states[d] # {}
  /\ engaged[d] = Value(d) \/ UpdateCall(d) \in ToSet(calls)

\* An input is on while somebody wants it on.
SettledInput(d) ==
  /\ states[d] # {} => engaged[d]
  /\ engaged[d] => states[d] # {} \/ UpdateCall(d) \in ToSet(calls)

SettledInv ==
  /\ \A d \in Derived : SettledDerived(d)
  /\ \A d \in Inputs : SettledInput(d)

-----------------------------------------------------------------------------
(* Sequences of calls *)

LEMMA EmptyToSet == ToSet(<<>>) = {}
  BY DEF ToSet

LEMMA ToSetConcat ==
  ASSUME NEW S, NEW s \in Seq(S), NEW t \in Seq(S)
  PROVE  ToSet(s \o t) = ToSet(s) \union ToSet(t)
  <1>1. /\ s \o t \in Seq(S)
        /\ Len(s \o t) = Len(s) + Len(t)
        /\ \A i \in 1..Len(s) + Len(t) : (s \o t)[i] = IF i <= Len(s) THEN s[i] ELSE t[i - Len(s)]
    BY ConcatProperties
  <1>2. /\ Len(s) \in Nat /\ Len(t) \in Nat
        /\ DOMAIN s = 1..Len(s) /\ DOMAIN t = 1..Len(t)
        /\ DOMAIN (s \o t) = 1..Len(s) + Len(t)
    BY <1>1, LenProperties
  <1>3. ASSUME NEW i \in DOMAIN (s \o t)
        PROVE  (s \o t)[i] \in ToSet(s) \union ToSet(t)
    <2>1. CASE i <= Len(s)
      <3>1. (s \o t)[i] = s[i] /\ i \in DOMAIN s
        BY <1>1, <1>2, <2>1
      <3> QED  BY <3>1 DEF ToSet
    <2>2. CASE ~(i <= Len(s))
      <3>1. (s \o t)[i] = t[i - Len(s)] /\ i - Len(s) \in DOMAIN t
        BY <1>1, <1>2, <2>2
      <3> QED  BY <3>1 DEF ToSet
    <2> QED  BY <2>1, <2>2
  <1>4. ASSUME NEW i \in DOMAIN s
        PROVE  s[i] \in ToSet(s \o t)
    <2>1. i \in DOMAIN (s \o t) /\ (s \o t)[i] = s[i]
      BY <1>1, <1>2
    <2> QED  BY <2>1 DEF ToSet
  <1>5. ASSUME NEW i \in DOMAIN t
        PROVE  t[i] \in ToSet(s \o t)
    <2>1. i + Len(s) \in 1..Len(s) + Len(t)
      BY <1>2
    <2>2. i + Len(s) \in DOMAIN (s \o t) /\ (s \o t)[i + Len(s)] = t[i]
      BY <1>1, <1>2, <2>1
    <2> QED  BY <2>2 DEF ToSet
  <1> QED  BY <1>3, <1>4, <1>5 DEF ToSet

LEMMA ToSetTail ==
  ASSUME NEW S, NEW s \in Seq(S), s # <<>>
  PROVE  /\ Head(s) \in S /\ Tail(s) \in Seq(S)
         /\ ToSet(s) = {Head(s)} \union ToSet(Tail(s))
  <1>1. /\ Head(s) \in S /\ Tail(s) \in Seq(S)
        /\ Len(Tail(s)) = Len(s) - 1
        /\ \A i \in 1..Len(Tail(s)) : Tail(s)[i] = s[i + 1]
    BY HeadTailProperties
  <1>2. Len(s) \in Nat \ {0} /\ DOMAIN s = 1..Len(s) /\ DOMAIN Tail(s) = 1..Len(s) - 1
    BY <1>1, EmptySeq, LenProperties
  <1>3. Head(s) = s[1]
    BY <1>1
  <1>4. ASSUME NEW i \in DOMAIN s
        PROVE  s[i] = Head(s) \/ s[i] \in ToSet(Tail(s))
    <2>1. CASE i = 1
      BY <2>1, <1>3
    <2>2. CASE i # 1
      <3>1. i - 1 \in DOMAIN Tail(s) /\ Tail(s)[i - 1] = s[i]
        BY <1>1, <1>2, <2>2
      <3> QED  BY <3>1 DEF ToSet
    <2> QED  BY <2>1, <2>2
  <1>5. Head(s) \in ToSet(s)
    BY <1>2, <1>3 DEF ToSet
  <1>6. ASSUME NEW i \in DOMAIN Tail(s)
        PROVE  Tail(s)[i] \in ToSet(s)
    <2>1. i + 1 \in DOMAIN s /\ Tail(s)[i] = s[i + 1]
      BY <1>1, <1>2
    <2> QED  BY <2>1 DEF ToSet
  <1> QED  BY <1>1, <1>4, <1>5, <1>6 DEF ToSet

\* Calls that are made in the place of the first one leave the last one last.
LEMMA FinalStaysLast ==
  ASSUME NEW S, NEW s \in Seq(S), NEW new \in Seq(S), s # <<>>,
         \A i \in DOMAIN s : s[i].op \in Final => i = Len(s),
         \A i \in DOMAIN new : new[i].op \notin Final,
         NEW i \in DOMAIN (new \o Tail(s)), (new \o Tail(s))[i].op \in Final
  PROVE  i = Len(new \o Tail(s))
  <1> DEFINE r == new \o Tail(s)
  <1>1. /\ Tail(s) \in Seq(S) /\ Len(Tail(s)) = Len(s) - 1
        /\ \A j \in 1..Len(Tail(s)) : Tail(s)[j] = s[j + 1]
    BY HeadTailProperties
  <1>2. /\ r \in Seq(S) /\ Len(r) = Len(new) + Len(Tail(s))
        /\ \A j \in 1..Len(new) + Len(Tail(s)) :
             r[j] = IF j <= Len(new) THEN new[j] ELSE Tail(s)[j - Len(new)]
    BY <1>1, ConcatProperties
  <1>3. /\ Len(s) \in Nat \ {0} /\ DOMAIN s = 1..Len(s) /\ Len(new) \in Nat
        /\ DOMAIN new = 1..Len(new) /\ DOMAIN r = 1..Len(r)
    BY <1>2, EmptySeq, LenProperties
  <1> HIDE DEF r
  <1>4. i \in DOMAIN r /\ r[i].op \in Final
    BY DEF r
  <1>5. i > Len(new)
    BY <1>1, <1>2, <1>3, <1>4
  <1>6. r[i] = s[i - Len(new) + 1] /\ i - Len(new) + 1 \in DOMAIN s
    <2>1. i \in 1..Len(new) + Len(Tail(s))
      BY <1>2, <1>3, <1>4
    <2>2. r[i] = Tail(s)[i - Len(new)]
      BY <1>2, <1>3, <1>5, <2>1
    <2>3. i - Len(new) \in 1..Len(Tail(s))
      BY <1>1, <1>3, <1>5, <2>1
    <2>4. Tail(s)[i - Len(new)] = s[i - Len(new) + 1]
      BY <1>1, <2>3
    <2> QED  BY <1>1, <1>3, <2>2, <2>3, <2>4
  <1>7. i - Len(new) + 1 = Len(s)
    BY <1>4, <1>6
  <1>8. i = Len(r)
    BY <1>1, <1>2, <1>3, <1>7
  <1> QED  BY <1>8 DEF r

-----------------------------------------------------------------------------
(* The drawstops and who depends on them *)

LEMMA Graph ==
  /\ \A d \in Drawstops : Controlling[d] \in Seq(Drawstops) /\ Controlled[d] \in Seq(Drawstops)
  /\ \A d, c \in Drawstops : d \in ToSet(Controlled[c]) <=> c \in ToSet(Controlling[d])
  /\ \A d \in Inputs : ToSet(Controlling[d]) = {}
  /\ \A d \in Drawstops : d \notin ToSet(Controlling[d])
  <1>1. PICK depth \in [Drawstops -> 0..Cardinality(Drawstops)] :
          \A d \in Drawstops : \A c \in ToSet(Controlling[d]) : depth[c] < depth[d]
    BY DrawstopsAssumption
  <1>2. \A d \in Drawstops : d \notin ToSet(Controlling[d])
    <2> SUFFICES ASSUME NEW d \in Drawstops, d \in ToSet(Controlling[d])
                 PROVE  FALSE
      OBVIOUS
    <2>1. depth[d] < depth[d]
      BY <1>1
    <2>2. depth[d] \in Int
      OBVIOUS
    <2> QED  BY <2>1, <2>2
  <1>3. \A d \in Inputs : Controlling[d] = <<>>
    BY DrawstopsAssumption DEF Inputs
  <1> QED  BY <1>2, <1>3, EmptyToSet, DrawstopsAssumption

\* SetResultState() updates whoever depends on the drawstop, and nobody else: a
\* drawstop without a function does not depend on any.
LEMMA Updates ==
  ASSUME NEW d \in Drawstops
  PROVE  /\ UpdateCalls(d) \in Seq(DerivedUpdates)
         /\ \A c \in Drawstops : d \in ToSet(Controlling[c])
              => UpdateCall(c) \in ToSet(UpdateCalls(d))
  <1>1. Controlled[d] \in Seq(Drawstops)
    BY Graph
  <1>2. /\ Len(Controlled[d]) \in Nat /\ DOMAIN Controlled[d] = 1..Len(Controlled[d])
        /\ \A i \in DOMAIN Controlled[d] : Controlled[d][i] \in Drawstops
    BY <1>1, LenProperties
  <1>3. \A i \in DOMAIN Controlled[d] : Controlled[d][i] \in Derived
    <2> SUFFICES ASSUME NEW i \in DOMAIN Controlled[d]
                 PROVE  Controlled[d][i] \in Derived
      OBVIOUS
    <2>1. Controlled[d][i] \in ToSet(Controlled[d])
      BY DEF ToSet
    <2>2. d \in ToSet(Controlling[Controlled[d][i]])
      BY <1>2, <2>1, Graph
    <2> QED  BY <1>2, <2>2, Graph DEF Derived
  <1>4. \A i \in DOMAIN Controlled[d] : UpdateCall(Controlled[d][i]) \in DerivedUpdates
    BY <1>3 DEF UpdateCall, DerivedUpdates
  <1>5. UpdateCalls(d) \in [1..Len(Controlled[d]) -> DerivedUpdates]
    BY <1>2, <1>4 DEF UpdateCalls
  <1>6. UpdateCalls(d) \in Seq(DerivedUpdates)
    BY <1>2, <1>5, SeqDef
  <1>7. ASSUME NEW c \in Drawstops, d \in ToSet(Controlling[c])
        PROVE  UpdateCall(c) \in ToSet(UpdateCalls(d))
    <2>1. c \in ToSet(Controlled[d])
      BY <1>7, Graph
    <2>2. PICK i \in DOMAIN Controlled[d] : Controlled[d][i] = c
      BY <2>1 DEF ToSet
    <2> QED  BY <2>2 DEF ToSet, UpdateCalls
  <1> QED  BY <1>6, <1>7

LEMMA ValueIsBoolean ==
  ASSUME DrawstopsTypeOK, NEW d \in Drawstops
  PROVE  Value(d) \in BOOLEAN
  BY DrawstopsAssumption DEF Value, DrawstopsTypeOK

\* A function changes only with the drawstops that it reads.
LEMMA ValueKept ==
  ASSUME NEW d \in Derived,
         \A c \in ToSet(Controlling[d]) : engaged'[c] = engaged[c]
  PROVE  Value(d)' = Value(d)
  <1>1. \A i \in DOMAIN Controlling[d] : engaged'[Controlling[d][i]] = engaged[Controlling[d][i]]
    BY DEF ToSet
  <1>2. {i \in DOMAIN Controlling[d] : engaged'[Controlling[d][i]]}
        = {i \in DOMAIN Controlling[d] : engaged[Controlling[d][i]]}
    BY <1>1
  <1>3. Function[d] # "input"
    BY DEF Derived, Inputs
  <1> QED  BY <1>2, <1>3 DEF Value

-----------------------------------------------------------------------------
(* What a call does to its drawstop *)

\* Nothing else changes, and who depends on the drawstop is updated if it does.
Effect(d, rest) ==
  /\ \E new \in Seq(DerivedUpdates) : /\ calls' = new \o rest
                                      /\ engaged'[d] # engaged[d] => new = UpdateCalls(d)
  /\ \A x \in Drawstops \ {d} : engaged'[x] = engaged[x] /\ states'[x] = states[x]

Kept(d) == engaged'[d] = engaged[d] /\ states'[d] = states[d]

Moved(d, on, name) ==
  /\ states'[d] = IF on THEN states[d] \union {name} ELSE states[d] \ {name}
  /\ engaged'[d] = IF (name \in states[d]) # on THEN states'[d] # {} ELSE engaged[d]

LEMMA NoEffect ==
  ASSUME NEW S, NEW rest \in Seq(S), DrawstopsTypeOK, NEW d \in Drawstops,
         UNCHANGED drawstopVars, calls' = rest
  PROVE  DrawstopsTypeOK' /\ Effect(d, rest) /\ Kept(d)
  <1>1. <<>> \in Seq(DerivedUpdates) /\ <<>> \o rest = rest
    BY EmptySeq, ConcatEmptySeq
  <1> QED  BY <1>1 DEF Effect, Kept, DrawstopsTypeOK, drawstopVars

LEMMA SetResultEffect ==
  ASSUME NEW S, NEW rest \in Seq(S), engaged \in [Drawstops -> BOOLEAN],
         NEW d \in Drawstops, NEW on \in BOOLEAN, SetResultState(d, on, rest)
  PROVE  /\ engaged' \in [Drawstops -> BOOLEAN]
         /\ engaged'[d] = on
         /\ \A x \in Drawstops \ {d} : engaged'[x] = engaged[x]
         /\ \E new \in Seq(DerivedUpdates) : /\ calls' = new \o rest
                                             /\ engaged'[d] # engaged[d] => new = UpdateCalls(d)
  <1>1. /\ engaged' \in [Drawstops -> BOOLEAN]
        /\ engaged'[d] = on
        /\ \A x \in Drawstops \ {d} : engaged'[x] = engaged[x]
    BY DEF SetResultState
  <1>2. <<>> \in Seq(DerivedUpdates) /\ UpdateCalls(d) \in Seq(DerivedUpdates)
    BY EmptySeq, Updates
  <1>3. CASE engaged[d] # on
    <2>1. calls' = UpdateCalls(d) \o rest
      BY <1>3 DEF SetResultState
    <2> QED  BY <1>1, <1>2, <2>1
  <1>4. CASE engaged[d] = on
    <2>1. calls' = <<>> \o rest
      BY <1>4 DEF SetResultState
    <2> QED  BY <1>1, <1>2, <1>4, <2>1
  <1> QED  BY <1>3, <1>4

LEMMA SetInternalEffect ==
  ASSUME NEW S, NEW rest \in Seq(S), DrawstopsTypeOK, NEW d \in Drawstops, NEW on \in BOOLEAN,
         NEW name \in Names, SetInternalState(d, on, name, rest)
  PROVE  DrawstopsTypeOK' /\ Effect(d, rest) /\ Moved(d, on, name)
  <1> DEFINE s == IF on THEN states[d] \union {name} ELSE states[d] \ {name}
  <1>0. s \in SUBSET Names /\ (s # {}) \in BOOLEAN
    BY DEF DrawstopsTypeOK
  <1>1. CASE (name \in states[d]) # on
    <2>1. states' = [states EXCEPT ![d] = s] /\ SetResultState(d, s # {}, rest)
      BY <1>1 DEF SetInternalState
    <2> HIDE DEF s
    <2>2. /\ states' \in [Drawstops -> SUBSET Names]
          /\ states'[d] = s /\ \A x \in Drawstops \ {d} : states'[x] = states[x]
      BY <1>0, <2>1 DEF DrawstopsTypeOK
    <2>3. /\ engaged' \in [Drawstops -> BOOLEAN]
          /\ engaged'[d] = (s # {})
          /\ \A x \in Drawstops \ {d} : engaged'[x] = engaged[x]
          /\ \E new \in Seq(DerivedUpdates) : /\ calls' = new \o rest
                                              /\ engaged'[d] # engaged[d] => new = UpdateCalls(d)
      <3> DEFINE any == s # {}
      <3>1. any \in BOOLEAN /\ SetResultState(d, any, rest)
        BY <1>0, <2>1
      <3>2. engaged \in [Drawstops -> BOOLEAN]
        BY DEF DrawstopsTypeOK
      <3> HIDE DEF any
      <3>3. /\ engaged' \in [Drawstops -> BOOLEAN]
            /\ engaged'[d] = any
            /\ \A x \in Drawstops \ {d} : engaged'[x] = engaged[x]
            /\ \E new \in Seq(DerivedUpdates) : /\ calls' = new \o rest
                                                /\ engaged'[d] # engaged[d] => new = UpdateCalls(d)
        BY <3>1, <3>2, SetResultEffect
      <3> QED  BY <3>3 DEF any
    <2>4. DrawstopsTypeOK' /\ Effect(d, rest)
      BY <2>2, <2>3 DEF DrawstopsTypeOK, Effect
    <2>5. Moved(d, on, name)
      BY <1>1, <2>2, <2>3 DEF Moved, s
    <2> QED  BY <2>4, <2>5
  <1>2. CASE (name \in states[d]) = on
    <2>1. UNCHANGED drawstopVars /\ calls' = rest
      BY <1>2 DEF SetInternalState
    <2>2. DrawstopsTypeOK' /\ Effect(d, rest) /\ Kept(d)
      BY <2>1, NoEffect
    <2>3. s = states[d]
      BY <1>2
    <2> QED  BY <1>2, <2>2, <2>3 DEF Moved, Kept
  <1> QED  BY <1>1, <1>2

LEMMA ButtonEffect ==
  ASSUME NEW S, NEW rest \in Seq(S), DrawstopsTypeOK, NEW d \in Drawstops, NEW on \in BOOLEAN,
         SetButtonState(d, on, rest)
  PROVE  /\ DrawstopsTypeOK' /\ Effect(d, rest)
         /\ Kept(d) \/ (d \in Inputs /\ Moved(d, on, Default))
  <1>1. Default \in Names
    BY DEF Names
  <1>2. CASE d \in Inputs /\ ~Held(d)
    BY <1>1, <1>2, SetInternalEffect DEF SetButtonState
  <1>3. CASE ~(d \in Inputs /\ ~Held(d))
    <2>1. UNCHANGED drawstopVars /\ calls' = rest
      BY <1>3 DEF SetButtonState
    <2> QED  BY <2>1, NoEffect
  <1> QED  BY <1>2, <1>3

-----------------------------------------------------------------------------
(* The calls of the drawstops *)

LEMMA CallType ==
  ASSUME calls \in Seq(SetterCalls), calls # <<>>
  PROVE  /\ Call \in SetterCalls /\ Tail(calls) \in Seq(SetterCalls)
         /\ ToSet(calls) = {Call} \union ToSet(Tail(calls))
         /\ Call.op \in {"Set", "Update", "Reset", "Push", "Light", "Cancelled"}
         /\ Call.op = "Set" => /\ Call = SetCall(Call.at, Call.to, Call.name)
                               /\ Call.at \in Drawstops /\ Call.name \in Names
         /\ Call.op = "Update" => Call = UpdateCall(Call.at) /\ Call.at \in Drawstops
         /\ Call.op = "Reset" => Call = ResetCall(Call.at) /\ Call.at \in Drawstops
         /\ Call.op \in {"Push", "Light"} => Call.cmb \in Combination /\ Call.name \in Names
  <1>1. /\ Call \in SetterCalls /\ Tail(calls) \in Seq(SetterCalls)
        /\ ToSet(calls) = {Call} \union ToSet(Tail(calls))
    BY ToSetTail DEF Call
  <1>2. CASE Call \in [op : {"Set"}, at : Drawstops, to : {"on", "off", "keep"}, name : Names]
    <2>1. /\ Call.op = "Set" /\ Call.at \in Drawstops /\ Call.name \in Names
          /\ Call = [op |-> "Set", at |-> Call.at, to |-> Call.to, name |-> Call.name]
      BY <1>2
    <2> QED  BY <1>1, <2>1 DEF SetCall
  <1>3. CASE Call \in [op : {"Update", "Reset"}, at : Drawstops]
    <2>1. /\ Call.op \in {"Update", "Reset"} /\ Call.at \in Drawstops
          /\ Call = [op |-> Call.op, at |-> Call.at]
      BY <1>3
    <2> QED  BY <1>1, <2>1 DEF UpdateCall, ResetCall
  <1>4. CASE Call \in [op : {"Push", "Light"}, cmb : Combination, name : Names]
    <2>1. Call.op \in {"Push", "Light"} /\ Call.cmb \in Combination /\ Call.name \in Names
      BY <1>4
    <2> QED  BY <1>1, <2>1
  <1>5. CASE Call = [op |-> "Cancelled"]
    BY <1>1, <1>5
  <1> QED  BY <1>1, <1>2, <1>3, <1>4, <1>5 DEF SetterCalls, DrawstopCalls

LEMMA SetStep ==
  ASSUME calls \in Seq(SetterCalls), DrawstopsTypeOK, Set
  PROVE  /\ DrawstopsTypeOK' /\ Effect(Call.at, Tail(calls))
         /\ IF Call.at \in Inputs /\ Call.to # "keep"
              THEN Moved(Call.at, Call.to = "on", Call.name) ELSE Kept(Call.at)
  <1>1. calls # <<>> /\ Call.op = "Set"
    BY DEF Set, Doing
  <1>2. /\ Tail(calls) \in Seq(SetterCalls) /\ Call.at \in Drawstops /\ Call.name \in Names
        /\ (Call.to = "on") \in BOOLEAN
    BY <1>1, CallType
  <1>3. CASE Call.at \in Inputs /\ Call.to # "keep"
    <2> DEFINE on == Call.to = "on"
    <2>1. SetInternalState(Call.at, on, Call.name, Tail(calls))
      BY <1>3 DEF Set
    <2>2. on \in BOOLEAN
      BY <1>2
    <2> HIDE DEF on
    <2>3. DrawstopsTypeOK' /\ Effect(Call.at, Tail(calls)) /\ Moved(Call.at, on, Call.name)
      BY <1>2, <2>1, <2>2, SetInternalEffect
    <2> QED  BY <1>3, <2>3 DEF on
  <1>4. CASE ~(Call.at \in Inputs /\ Call.to # "keep")
    <2>1. UNCHANGED drawstopVars /\ calls' = Tail(calls)
      BY <1>4 DEF Set
    <2>2. DrawstopsTypeOK' /\ Effect(Call.at, Tail(calls)) /\ Kept(Call.at)
      BY <1>2, <2>1, NoEffect
    <2> QED  BY <1>4, <2>2
  <1> QED  BY <1>3, <1>4

LEMMA UpdateStep ==
  ASSUME calls \in Seq(SetterCalls), DrawstopsTypeOK, Update
  PROVE  /\ DrawstopsTypeOK' /\ Effect(Call.at, Tail(calls))
         /\ Moved(Call.at, Value(Call.at), Default)
  <1>1. calls # <<>> /\ Call.op = "Update"
    BY DEF Update, Doing
  <1>2. /\ Tail(calls) \in Seq(SetterCalls) /\ Call.at \in Drawstops /\ Default \in Names
    BY <1>1, CallType DEF Names
  <1>3. Value(Call.at) \in BOOLEAN
    BY <1>2, ValueIsBoolean
  <1>4. SetInternalState(Call.at, Value(Call.at), Default, Tail(calls))
    BY DEF Update
  <1> QED  BY <1>2, <1>3, <1>4, SetInternalEffect

\* General cancel takes the drawstop from everybody.
Cleared(d) == states'[d] = {} /\ ~engaged'[d]

LEMMA ResetStep ==
  ASSUME calls \in Seq(SetterCalls), DrawstopsTypeOK, Reset
  PROVE  /\ DrawstopsTypeOK' /\ Effect(Call.at, Tail(calls))
         /\ IF Call.at \in Inputs /\ GCState[Call.at] = 0 THEN Cleared(Call.at)
            ELSE Kept(Call.at) \/ (Call.at \in Inputs /\ Moved(Call.at, TRUE, Default))
  <1>1. calls # <<>> /\ Call.op = "Reset"
    BY DEF Reset, Doing
  <1>2. Tail(calls) \in Seq(SetterCalls) /\ Call.at \in Drawstops /\ GCState[Call.at] \in -1..1
    BY <1>1, CallType, DrawstopsAssumption
  <1> DEFINE d == Call.at
             spared  == UNCHANGED drawstopVars /\ calls' = Tail(calls)
             cleared == states' = [states EXCEPT ![d] = {}] /\ SetResultState(d, FALSE, Tail(calls))
             pressed == SetButtonState(d, TRUE, Tail(calls))
  <1>3. \/ (d \notin Inputs \/ GCState[d] < 0) /\ spared
        \/ d \in Inputs /\ GCState[d] = 0 /\ cleared
        \/ d \in Inputs /\ GCState[d] = 1 /\ pressed
    BY DEF Reset
  <1> HIDE DEF spared, cleared, pressed
  <1>4. CASE d \notin Inputs \/ GCState[d] < 0
    <2>1. spared
      BY <1>2, <1>3, <1>4
    <2>2. UNCHANGED drawstopVars /\ calls' = Tail(calls)
      BY <2>1 DEF spared
    <2>3. DrawstopsTypeOK' /\ Effect(d, Tail(calls)) /\ Kept(d)
      BY <1>2, <2>2, NoEffect
    <2> QED  BY <1>2, <1>4, <2>3
  <1>5. CASE d \in Inputs /\ GCState[d] = 0
    <2>1. cleared
      BY <1>2, <1>3, <1>5
    <2>2. states' = [states EXCEPT ![d] = {}] /\ SetResultState(d, FALSE, Tail(calls))
      BY <2>1 DEF cleared
    <2>3. engaged \in [Drawstops -> BOOLEAN] /\ FALSE \in BOOLEAN
      BY DEF DrawstopsTypeOK
    <2>4. /\ engaged' \in [Drawstops -> BOOLEAN]
          /\ engaged'[d] = FALSE
          /\ \A x \in Drawstops \ {d} : engaged'[x] = engaged[x]
          /\ \E new \in Seq(DerivedUpdates) : /\ calls' = new \o Tail(calls)
                                              /\ engaged'[d] # engaged[d] => new = UpdateCalls(d)
      BY <1>2, <2>2, <2>3, SetResultEffect
    <2>5. /\ states' \in [Drawstops -> SUBSET Names] /\ states'[d] = {}
          /\ \A x \in Drawstops \ {d} : states'[x] = states[x]
      BY <1>2, <2>2 DEF DrawstopsTypeOK
    <2> QED  BY <1>5, <2>4, <2>5 DEF DrawstopsTypeOK, Effect, Cleared
  <1>6. CASE d \in Inputs /\ GCState[d] > 0
    <2>1. pressed
      BY <1>2, <1>3, <1>6
    <2>2. SetButtonState(d, TRUE, Tail(calls))
      BY <2>1 DEF pressed
    <2>3. /\ DrawstopsTypeOK' /\ Effect(d, Tail(calls))
          /\ Kept(d) \/ (d \in Inputs /\ Moved(d, TRUE, Default))
      BY <1>2, <2>2, ButtonEffect
    <2>4. ~(GCState[d] = 0)
      BY <1>2, <1>6
    <2> QED  BY <2>3, <2>4
  <1>7. GCState[d] < 0 \/ GCState[d] = 0 \/ GCState[d] > 0
    BY <1>2
  <1> QED  BY <1>4, <1>5, <1>6, <1>7

-----------------------------------------------------------------------------
(* Every drawstop is settled, or is about to be updated *)

LEMMA UpdatesAreCalls == DerivedUpdates \subseteq SetterCalls
  BY DEF DerivedUpdates, Derived, SetterCalls, DrawstopCalls

LEMMA SeqSubset ==
  ASSUME NEW S, NEW T, NEW s \in Seq(S), S \subseteq T
  PROVE  s \in Seq(T)
  BY SeqMonotonic

LEMMA InToSet ==
  ASSUME NEW S, NEW s \in Seq(S)
  PROVE  ToSet(s) \subseteq S
  <1>1. \A i \in DOMAIN s : s[i] \in S
    BY LenProperties
  <1> QED  BY <1>1 DEF ToSet

LEMMA EffectCalls ==
  ASSUME NEW rest \in Seq(SetterCalls), NEW d \in Drawstops, Effect(d, rest)
  PROVE  /\ calls' \in Seq(SetterCalls)
         /\ ToSet(rest) \subseteq ToSet(calls')
         /\ ToSet(calls') \subseteq ToSet(rest) \union DerivedUpdates
         /\ engaged'[d] # engaged[d] => ToSet(UpdateCalls(d)) \subseteq ToSet(calls')
  <1>1. PICK new \in Seq(DerivedUpdates) : /\ calls' = new \o rest
                                           /\ engaged'[d] # engaged[d] => new = UpdateCalls(d)
    BY DEF Effect
  <1>2. new \in Seq(SetterCalls)
    BY UpdatesAreCalls, SeqSubset
  <1>3. calls' \in Seq(SetterCalls) /\ ToSet(calls') = ToSet(new) \union ToSet(rest)
    BY <1>1, <1>2, ToSetConcat, ConcatProperties
  <1>4. ToSet(new) \subseteq DerivedUpdates
    BY InToSet
  <1> QED  BY <1>1, <1>3, <1>4

LEMMA EffectFinal ==
  ASSUME calls \in Seq(SetterCalls), calls # <<>>, NEW d \in Drawstops,
         Effect(d, Tail(calls)), FinalLast
  PROVE  FinalLast'
  <1>1. PICK new \in Seq(DerivedUpdates) : calls' = new \o Tail(calls)
    BY DEF Effect
  <1>2. new \in Seq(SetterCalls)
    BY UpdatesAreCalls, SeqSubset
  <1>3. \A i \in DOMAIN new : new[i].op \notin Final
    <2>1. \A i \in DOMAIN new : new[i] \in DerivedUpdates
      BY LenProperties
    <2> QED  BY <2>1 DEF DerivedUpdates, Final
  <1>4. \A i \in DOMAIN calls' : calls'[i].op \in Final => i = Len(calls')
    BY <1>1, <1>2, <1>3, FinalStaysLast DEF FinalLast
  <1> QED  BY <1>4 DEF FinalLast

\* The drawstop that was called is settled, and nobody is forgotten: what depends on
\* it is updated if it changed, and sees the same as before if it did not.
LEMMA EffectSettled ==
  ASSUME DrawstopsTypeOK, DrawstopsTypeOK', SettledInv,
         NEW rest \in Seq(SetterCalls), NEW d \in Drawstops, Effect(d, rest),
         \A x \in Drawstops \ {d} : UpdateCall(x) \in ToSet(calls) => UpdateCall(x) \in ToSet(rest),
         d \in Inputs => /\ states'[d] # {} => engaged'[d]
                         /\ engaged'[d] => states'[d] # {} \/ UpdateCall(d) \in ToSet(rest),
         d \in Derived => /\ states'[d] \subseteq {Default}
                          /\ engaged'[d] <=> states'[d] # {}
                          /\ engaged'[d] = Value(d) \/ UpdateCall(d) \in ToSet(rest)
  PROVE  SettledInv'
  <1>1. /\ ToSet(rest) \subseteq ToSet(calls')
        /\ engaged'[d] # engaged[d] => ToSet(UpdateCalls(d)) \subseteq ToSet(calls')
    BY EffectCalls
  <1>2. \A x \in Drawstops \ {d} : engaged'[x] = engaged[x] /\ states'[x] = states[x]
    BY DEF Effect
  <1>3. ASSUME NEW x \in Derived
        PROVE  SettledDerived(x)'
    <2>1. x \in Drawstops
      BY DEF Derived
    <2>2. CASE engaged'[d] # engaged[d] /\ d \in ToSet(Controlling[x])
      <3>1. UpdateCall(x) \in ToSet(calls')
        BY <1>1, <2>1, <2>2, Updates
      <3>2. CASE x = d
        BY <3>1, <3>2, <1>3 DEF SettledDerived
      <3>3. CASE x # d
        BY <3>1, <3>3, <1>2, <1>3, <2>1 DEF SettledDerived, SettledInv
      <3> QED  BY <3>2, <3>3
    <2>3. CASE ~(engaged'[d] # engaged[d] /\ d \in ToSet(Controlling[x]))
      <3>1. \A c \in ToSet(Controlling[x]) : engaged'[c] = engaged[c]
        <4>1. ToSet(Controlling[x]) \subseteq Drawstops
          BY <2>1, Graph, InToSet
        <4> QED  BY <4>1, <1>2, <2>3
      <3>2. Value(x)' = Value(x)
        BY <3>1, ValueKept
      <3>3. CASE x = d
        BY <3>2, <3>3, <1>1, <1>3 DEF SettledDerived
      <3>4. CASE x # d
        <4>1. /\ states[x] \subseteq {Default}
              /\ engaged[x] <=> states[x] # {}
              /\ engaged[x] = Value(x) \/ UpdateCall(x) \in ToSet(calls)
          BY <1>3 DEF SettledInv, SettledDerived
        <4>2. engaged'[x] = engaged[x] /\ states'[x] = states[x]
          BY <1>2, <2>1, <3>4
        <4>3. UpdateCall(x) \in ToSet(calls) => UpdateCall(x) \in ToSet(calls')
          BY <1>1, <2>1, <3>4
        <4> QED  BY <3>2, <4>1, <4>2, <4>3 DEF SettledDerived
      <3> QED  BY <3>3, <3>4
    <2> QED  BY <2>2, <2>3
  <1>4. ASSUME NEW x \in Inputs
        PROVE  SettledInput(x)'
    <2>1. x \in Drawstops
      BY DEF Inputs
    <2>2. CASE x = d
      BY <1>1, <1>4, <2>2 DEF SettledInput
    <2>3. CASE x # d
      <3>1. /\ states[x] # {} => engaged[x]
            /\ engaged[x] => states[x] # {} \/ UpdateCall(x) \in ToSet(calls)
        BY <1>4 DEF SettledInv, SettledInput
      <3>2. engaged'[x] = engaged[x] /\ states'[x] = states[x]
        BY <1>2, <2>1, <2>3
      <3>3. UpdateCall(x) \in ToSet(calls) => UpdateCall(x) \in ToSet(calls')
        BY <1>1, <2>1, <2>3
      <3> QED  BY <3>1, <3>2, <3>3 DEF SettledInput
    <2> QED  BY <2>2, <2>3
  <1> QED  BY <1>3, <1>4 DEF SettledInv

\* A step that calls nobody.
LEMMA KeptSettled ==
  ASSUME SettledInv, UNCHANGED drawstopVars,
         \A x \in Drawstops : UpdateCall(x) \in ToSet(calls) => UpdateCall(x) \in ToSet(calls')
  PROVE  SettledInv'
  <1>1. engaged' = engaged /\ states' = states
    BY DEF drawstopVars
  <1>2. \A x \in Derived : Value(x)' = Value(x)
    BY <1>1, ValueKept
  <1>3. \A x \in Derived : SettledDerived(x)'
    BY <1>1, <1>2 DEF SettledInv, SettledDerived, Derived
  <1>4. \A x \in Inputs : SettledInput(x)'
    BY <1>1 DEF SettledInv, SettledInput, Inputs
  <1> QED  BY <1>3, <1>4 DEF SettledInv

LEMMA InputsDerived == /\ \A d \in Drawstops : d \in Inputs \/ d \in Derived
                       /\ \A d \in Derived : d \in Drawstops /\ d \notin Inputs
                       /\ Inputs \subseteq Drawstops
  BY DEF Inputs, Derived

LEMMA SetSettled ==
  ASSUME calls \in Seq(SetterCalls), DrawstopsTypeOK, SettledInv, Set
  PROVE  SettledInv'
  <1> DEFINE d == Call.at
  <1>1. calls # <<>> /\ Call.op = "Set"
    BY DEF Set, Doing
  <1>2. /\ Tail(calls) \in Seq(SetterCalls) /\ d \in Drawstops
        /\ ToSet(calls) = {Call} \union ToSet(Tail(calls))
    BY <1>1, CallType
  <1>3. DrawstopsTypeOK' /\ Effect(d, Tail(calls))
    BY SetStep
  <1>4. \A x \in Drawstops : UpdateCall(x) \in ToSet(calls) => UpdateCall(x) \in ToSet(Tail(calls))
    BY <1>1, <1>2 DEF UpdateCall
  <1>5. CASE d \in Inputs /\ Call.to # "keep"
    <2> DEFINE on == Call.to = "on"
    <2>1. Moved(d, on, Call.name)
      BY <1>5, SetStep
    <2>2. SettledInput(d) /\ (on) \in BOOLEAN
      BY <1>5 DEF SettledInv
    <2> HIDE DEF on
    <2>3. engaged[d] \in BOOLEAN
      BY <1>2 DEF DrawstopsTypeOK
    <2>4. /\ states'[d] # {} => engaged'[d]
          /\ engaged'[d] => states'[d] # {} \/ UpdateCall(d) \in ToSet(calls)
      <3>1. CASE (Call.name \in states[d]) # on
        BY <2>1, <3>1 DEF Moved
      <3>2. CASE (Call.name \in states[d]) = on
        <4>1. states'[d] = states[d]
          BY <2>1, <2>2, <3>2 DEF Moved
        <4> QED  BY <2>1, <2>2, <3>2, <4>1 DEF Moved, SettledInput
      <3> QED  BY <3>1, <3>2
    <2>5. d \notin Derived
      BY <1>5 DEF Derived
    <2> QED  BY <1>2, <1>3, <1>4, <2>4, <2>5, EffectSettled
  <1>6. CASE ~(d \in Inputs /\ Call.to # "keep")
    <2>1. Kept(d)
      BY <1>6, SetStep
    <2> HIDE DEF d
    <2>2. d \in Inputs => SettledInput(d)
      BY DEF SettledInv
    <2>3. d \in Derived => SettledDerived(d)
      BY DEF SettledInv
    <2> QED  BY <1>2, <1>3, <1>4, <2>1, <2>2, <2>3, EffectSettled
               DEF Kept, SettledInput, SettledDerived
  <1> QED  BY <1>5, <1>6

\* An update gives a function its value, and takes note of who engaged an input.
LEMMA UpdateSettled ==
  ASSUME calls \in Seq(SetterCalls), DrawstopsTypeOK, SettledInv, Update
  PROVE  SettledInv'
  <1> DEFINE d == Call.at
             value == Value(d)
  <1>1. calls # <<>> /\ Call.op = "Update"
    BY DEF Update, Doing
  <1>2. /\ Tail(calls) \in Seq(SetterCalls) /\ d \in Drawstops
        /\ ToSet(calls) = {Call} \union ToSet(Tail(calls)) /\ Call = UpdateCall(d)
    BY <1>1, CallType
  <1>3. DrawstopsTypeOK' /\ Effect(d, Tail(calls)) /\ Moved(d, value, Default)
    BY UpdateStep
  <1>4. \A x \in Drawstops \ {d} : UpdateCall(x) \in ToSet(calls) => UpdateCall(x) \in ToSet(Tail(calls))
    BY <1>2 DEF UpdateCall
  <1>5. value \in BOOLEAN /\ engaged[d] \in BOOLEAN
    BY <1>2, ValueIsBoolean DEF DrawstopsTypeOK
  <1>6. d \in Inputs => value = engaged[d]
    BY DEF Inputs, Value
  <1>7. d \in Inputs => SettledInput(d)
    BY DEF SettledInv
  <1>8. d \in Derived => SettledDerived(d)
    BY DEF SettledInv
  <1> HIDE DEF value
  <1>9. d \in Inputs => /\ states'[d] # {} => engaged'[d]
                        /\ engaged'[d] => states'[d] # {}
    <2> SUFFICES ASSUME d \in Inputs
                 PROVE  /\ states'[d] # {} => engaged'[d]
                        /\ engaged'[d] => states'[d] # {}
      OBVIOUS
    <2>1. CASE value
      <3>1. states'[d] = states[d] \union {Default} /\ (engaged'[d] = engaged[d] \/ engaged'[d])
        BY <1>3, <2>1 DEF Moved
      <3> QED  BY <1>5, <1>6, <2>1, <3>1
    <2>2. CASE ~value
      <3>1. states[d] = {}
        BY <1>6, <1>7, <2>2 DEF SettledInput
      <3> QED  BY <1>3, <1>5, <1>6, <2>2, <3>1 DEF Moved
    <2> QED  BY <1>5, <2>1, <2>2
  <1>10. d \in Derived => /\ states'[d] \subseteq {Default}
                          /\ engaged'[d] <=> states'[d] # {}
                          /\ engaged'[d] = value
    <2> SUFFICES ASSUME d \in Derived
                 PROVE  /\ states'[d] \subseteq {Default}
                        /\ engaged'[d] <=> states'[d] # {}
                        /\ engaged'[d] = value
      OBVIOUS
    <2>1. states[d] \subseteq {Default} /\ (engaged[d] <=> states[d] # {})
      BY <1>8 DEF SettledDerived
    <2>2. CASE value
      <3>1. states'[d] = {Default}
        BY <1>3, <2>1, <2>2 DEF Moved
      <3>2. engaged'[d] = TRUE
        <4>1. CASE Default \in states[d]
          <5>1. engaged'[d] = engaged[d]
            BY <1>3, <1>5, <2>2, <4>1 DEF Moved
          <5> QED  BY <1>5, <2>1, <4>1, <5>1
        <4>2. CASE Default \notin states[d]
          BY <1>3, <1>5, <2>2, <3>1, <4>2 DEF Moved
        <4> QED  BY <4>1, <4>2
      <3> QED  BY <1>5, <2>2, <3>1, <3>2
    <2>3. CASE ~value
      <3>1. states'[d] = {}
        BY <1>3, <2>1, <2>3 DEF Moved
      <3>2. engaged'[d] = FALSE
        <4>1. CASE Default \in states[d]
          BY <1>3, <1>5, <2>3, <3>1, <4>1 DEF Moved
        <4>2. CASE Default \notin states[d]
          <5>1. engaged'[d] = engaged[d]
            BY <1>3, <1>5, <2>3, <4>2 DEF Moved
          <5>2. states[d] = {}
            BY <2>1, <4>2
          <5> QED  BY <1>5, <2>1, <5>1, <5>2
        <4> QED  BY <4>1, <4>2
      <3> QED  BY <1>5, <2>3, <3>1, <3>2
    <2> QED  BY <1>5, <2>2, <2>3
  <1> QED  BY <1>2, <1>3, <1>4, <1>9, <1>10, EffectSettled DEF value

LEMMA MovedSettled ==
  ASSUME DrawstopsTypeOK, NEW d \in Inputs, SettledInput(d),
         \E on \in BOOLEAN : Moved(d, on, Default)
  PROVE  /\ states'[d] # {} => engaged'[d]
         /\ engaged'[d] => states'[d] # {} \/ UpdateCall(d) \in ToSet(calls)
  <1>1. PICK on \in BOOLEAN : Moved(d, on, Default)
    OBVIOUS
  <1>2. engaged[d] \in BOOLEAN
    BY DEF DrawstopsTypeOK, Inputs
  <1>3. CASE (Default \in states[d]) # on
    BY <1>1, <1>3 DEF Moved
  <1>4. CASE (Default \in states[d]) = on
    <2>1. states'[d] = states[d]
      BY <1>1, <1>4 DEF Moved
    <2> QED  BY <1>1, <1>2, <1>4, <2>1 DEF Moved, SettledInput
  <1> QED  BY <1>3, <1>4

LEMMA ResetSettled ==
  ASSUME calls \in Seq(SetterCalls), DrawstopsTypeOK, SettledInv, Reset
  PROVE  SettledInv'
  <1> DEFINE d == Call.at
  <1>1. calls # <<>> /\ Call.op = "Reset"
    BY DEF Reset, Doing
  <1>2. /\ Tail(calls) \in Seq(SetterCalls) /\ d \in Drawstops
        /\ ToSet(calls) = {Call} \union ToSet(Tail(calls))
    BY <1>1, CallType
  <1>3. DrawstopsTypeOK' /\ Effect(d, Tail(calls))
    BY ResetStep
  <1>4. \A x \in Drawstops : UpdateCall(x) \in ToSet(calls) => UpdateCall(x) \in ToSet(Tail(calls))
    BY <1>1, <1>2 DEF UpdateCall
  <1>5. \/ d \in Inputs /\ Cleared(d)
        \/ Kept(d)
        \/ d \in Inputs /\ Moved(d, TRUE, Default)
    BY ResetStep
  <1>6. d \in Inputs => SettledInput(d)
    BY DEF SettledInv
  <1>7. d \in Derived => SettledDerived(d)
    BY DEF SettledInv
  <1> HIDE DEF d
  <1>8. CASE d \in Inputs /\ Cleared(d)
    BY <1>2, <1>3, <1>4, <1>8, InputsDerived, EffectSettled DEF Cleared
  <1>9. CASE Kept(d)
    BY <1>2, <1>3, <1>4, <1>6, <1>7, <1>9, EffectSettled DEF Kept, SettledInput, SettledDerived
  <1>10. CASE d \in Inputs /\ Moved(d, TRUE, Default)
    <2>1. \E on \in BOOLEAN : Moved(d, on, Default)
      BY <1>10
    <2>2. /\ states'[d] # {} => engaged'[d]
          /\ engaged'[d] => states'[d] # {} \/ UpdateCall(d) \in ToSet(calls)
      BY <1>6, <1>10, <2>1, MovedSettled
    <2> QED  BY <1>2, <1>3, <1>4, <1>10, <2>2, InputsDerived, EffectSettled
  <1> QED  BY <1>5, <1>8, <1>9, <1>10

LEMMA PressSettled ==
  ASSUME DrawstopsTypeOK, SettledInv, NEW d \in Drawstops, Press(d)
  PROVE  /\ SettledInv' /\ DrawstopsTypeOK' /\ Effect(d, <<>>)
  <1> DEFINE on == ~engaged[d]
  <1>1. calls = <<>> /\ d \in Inputs /\ SetButtonState(d, on, <<>>)
    BY DEF Press
  <1>2. on \in BOOLEAN /\ <<>> \in Seq(SetterCalls)
    BY EmptySeq
  <1> HIDE DEF on
  <1>3. /\ DrawstopsTypeOK' /\ Effect(d, <<>>)
        /\ Kept(d) \/ (d \in Inputs /\ Moved(d, on, Default))
    BY <1>1, <1>2, ButtonEffect
  <1>4. SettledInput(d) /\ d \notin Derived
    BY <1>1, InputsDerived DEF SettledInv
  <1>5. \A x \in Drawstops : UpdateCall(x) \notin ToSet(calls)
    BY <1>1, EmptyToSet
  <1>6. /\ states'[d] # {} => engaged'[d]
        /\ engaged'[d] => states'[d] # {}
    <2>1. CASE Kept(d)
      BY <1>4, <1>5, <2>1 DEF Kept, SettledInput
    <2>2. CASE Moved(d, on, Default)
      <3>1. \E o \in BOOLEAN : Moved(d, o, Default)
        BY <1>2, <2>2
      <3> QED  BY <1>1, <1>4, <1>5, <3>1, MovedSettled
    <2> QED  BY <1>3, <2>1, <2>2
  <1>7. SettledInv'
    BY <1>2, <1>3, <1>4, <1>5, <1>6, EffectSettled
  <1> QED  BY <1>3, <1>7

-----------------------------------------------------------------------------
(* Types of the combinations and of the calls that push them *)

LEMMA FillType ==
  ASSUME NEW c \in Combination, NEW type \in SetterTypes, NEW invisible \in BOOLEAN, NEW on
  PROVE  FillWithCurrent(c, type, invisible, on) \in Combination
  <1> DEFINE Stores(e) == IF type = "scoped" THEN c.state[e] # "keep"
                          ELSE (invisible \/ e \in Always) /\ (type = "scope" => e \in on)
             State(e)  == IF ~Stores(e) THEN "keep" ELSE IF e \in on THEN "on" ELSE "off"
             stored    == [e \in Elements |-> State(e)]
             scoped    == type # "regular"
  <1>1. FillWithCurrent(c, type, invisible, on)
          = [state |-> stored, full |-> invisible, scope |-> scoped]
    BY DEF FillWithCurrent
  <1>2. scoped \in BOOLEAN
    OBVIOUS
  <1>3. \A e \in Elements : State(e) \in {"on", "off", "keep"}
    OBVIOUS
  <1> HIDE DEF State, scoped
  <1>4. stored \in [Elements -> {"on", "off", "keep"}]
    BY <1>3
  <1> HIDE DEF stored
  <1>5. [state |-> stored, full |-> invisible, scope |-> scoped] \in Combination
    BY <1>2, <1>4 DEF Combination
  <1> QED  BY <1>1, <1>5

LEMMA NoCombinationType == NoCombination \in Combination
  BY DEF NoCombination, Combination

LEMMA CopiedType ==
  ASSUME NEW from \in Combination, NEW to \in Combination
  PROVE  Copied(from, to) \in Combination
  BY DEF Copied, Combination

LEMMA ToYamlType ==
  ASSUME NEW c \in Combination
  PROVE  ToYaml(c) \in CmbInFile
  <1>1. c.full \in BOOLEAN /\ c.scope \in BOOLEAN
    BY DEF Combination
  <1>2. CASE IsEmpty(c)
    BY <1>2 DEF ToYaml, CmbInFile
  <1>3. CASE ~IsEmpty(c)
    <2> DEFINE on      == {e \in Elements : c.state[e] = "on"}
               inScope == {e \in Elements : c.scope /\ c.state[e] # "keep"}
    <2>1. on \in SUBSET Elements /\ inScope \in SUBSET Elements
      OBVIOUS
    <2>2. ToYaml(c) = [present |-> TRUE, full |-> c.full, scope |-> c.scope, on |-> on, inScope |-> inScope]
      BY <1>3 DEF ToYaml
    <2> QED  BY <1>1, <2>1, <2>2 DEF CmbInFile
  <1> QED  BY <1>2, <1>3

LEMMA FromYamlType ==
  ASSUME NEW y \in CmbInFile
  PROVE  FromYaml(y) \in Combination
  <1>1. CASE ~y.present
    BY <1>1, NoCombinationType DEF FromYaml
  <1>2. CASE y.present
    <2>0. y # [present |-> FALSE]
      BY <1>2
    <2>1. y.full \in BOOLEAN /\ y.scope \in BOOLEAN
      BY <2>0 DEF CmbInFile
    <2> QED  BY <1>2, <2>1 DEF FromYaml, Combination
  <1> QED  BY <1>1, <1>2

LEMMA LoadedType ==
  ASSUME NEW c \in Combination, NEW y \in CmbInFile, NEW isProtected
  PROVE  Loaded(c, y, isProtected) \in Combination
  BY FromYamlType DEF Loaded

LEMMA AfterPushType ==
  ASSUME NEW c \in Combination, NEW isProtected, NEW new \in AfterPush(c, isProtected)
  PROVE  /\ new \in Combination
         /\ \/ new = c
            \/ /\ isSet /\ ~isProtected
               /\ \E type \in SetterTypes, invisible \in BOOLEAN :
                    new = FillWithCurrent(c, type, invisible, EngagedElements)
  BY FillType DEF AfterPush

\* The end of a recall, and of a general cancel
Recall(c, name) == PushCalls(c, name) \o <<LightCall(c, name)>>
Cancelled       == [op |-> "Cancelled"]
CancelCalls     == [i \in DOMAIN ElementOrder |-> ResetCall(ElementOrder[i])] \o <<Cancelled>>
Pushes          == [op : {"Push"}, cmb : Combination, name : Names]

LEMMA Order ==
  /\ ElementOrder \in Seq(Drawstops) /\ Elements = Drawstops
  /\ Len(ElementOrder) \in Nat /\ DOMAIN ElementOrder = 1..Len(ElementOrder)
  /\ \A i \in DOMAIN ElementOrder : ElementOrder[i] \in Drawstops
  BY CombinationsAssumption, SetterAssumption, LenProperties

\* A call for every element, in the order of the elements
LEMMA CallsInOrder ==
  ASSUME NEW S, NEW f \in [Drawstops -> S]
  PROVE  /\ [i \in DOMAIN ElementOrder |-> f[ElementOrder[i]]] \in Seq(S)
         /\ ToSet([i \in DOMAIN ElementOrder |-> f[ElementOrder[i]]]) = {f[e] : e \in Elements}
  <1> DEFINE s == [i \in DOMAIN ElementOrder |-> f[ElementOrder[i]]]
  <1>1. s \in [1..Len(ElementOrder) -> S]
    BY Order
  <1>2. s \in Seq(S)
    BY <1>1, Order, SeqDef
  <1>3. ToSet(s) = {f[e] : e \in Elements}
    BY DEF ToSet, Elements
  <1> QED  BY <1>2, <1>3

LEMMA PushCallsType ==
  ASSUME NEW c \in Combination, NEW name \in Names
  PROVE  /\ PushCalls(c, name) \in Seq(SetterCalls)
         /\ ToSet(PushCalls(c, name)) = {SetCall(e, c.state[e], name) : e \in Elements}
         /\ \A i \in DOMAIN PushCalls(c, name) : PushCalls(c, name)[i].op \notin Final
  <1> DEFINE f == [e \in Drawstops |-> SetCall(e, c.state[e], name)]
  <1>1. \A e \in Drawstops : c.state[e] \in {"on", "off", "keep"}
    BY Order DEF Combination
  <1>2. f \in [Drawstops -> SetterCalls]
    BY <1>1 DEF SetterCalls, DrawstopCalls, SetCall
  <1>3. PushCalls(c, name) = [i \in DOMAIN ElementOrder |-> f[ElementOrder[i]]]
    BY Order DEF PushCalls
  <1>4. {f[e] : e \in Elements} = {SetCall(e, c.state[e], name) : e \in Elements}
    BY Order
  <1>5. \A i \in DOMAIN PushCalls(c, name) : PushCalls(c, name)[i].op \notin Final
    BY DEF PushCalls, SetCall, Final
  <1> HIDE DEF f
  <1>6. /\ PushCalls(c, name) \in Seq(SetterCalls)
        /\ ToSet(PushCalls(c, name)) = {f[e] : e \in Elements}
    BY <1>2, <1>3, CallsInOrder
  <1> QED  BY <1>4, <1>5, <1>6

\* Only the last of the calls before the end is the end.
LEMMA OneFinal ==
  ASSUME NEW S, NEW s \in Seq(S), NEW last \in S,
         \A i \in DOMAIN s : s[i].op \notin Final
  PROVE  /\ s \o <<last>> \in Seq(S)
         /\ ToSet(s \o <<last>>) = ToSet(s) \union {last}
         /\ \A i \in DOMAIN (s \o <<last>>) :
              (s \o <<last>>)[i].op \in Final => i = Len(s \o <<last>>)
  <1>1. <<last>> \in Seq(S) /\ Len(<<last>>) = 1 /\ ToSet(<<last>>) = {last}
    BY DEF ToSet
  <1>2. /\ s \o <<last>> \in Seq(S)
        /\ Len(s \o <<last>>) = Len(s) + 1
        /\ \A i \in 1..Len(s) + 1 : (s \o <<last>>)[i] = IF i <= Len(s) THEN s[i] ELSE <<last>>[i - Len(s)]
    BY <1>1, ConcatProperties
  <1>3. /\ Len(s) \in Nat /\ DOMAIN s = 1..Len(s) /\ DOMAIN (s \o <<last>>) = 1..Len(s) + 1
    BY <1>2, LenProperties
  <1>4. ASSUME NEW i \in DOMAIN (s \o <<last>>), (s \o <<last>>)[i].op \in Final
        PROVE  i = Len(s \o <<last>>)
    <2>1. ~(i <= Len(s))
      BY <1>2, <1>3, <1>4
    <2> QED  BY <1>2, <1>3, <2>1
  <1>5. ToSet(s \o <<last>>) = ToSet(s) \union ToSet(<<last>>)
    BY <1>1, ToSetConcat
  <1> QED  BY <1>1, <1>2, <1>4, <1>5

LEMMA RecallType ==
  ASSUME NEW c \in Combination, NEW name \in Names
  PROVE  /\ Recall(c, name) \in Seq(SetterCalls)
         /\ ToSet(Recall(c, name))
            = {SetCall(e, c.state[e], name) : e \in Elements} \union {LightCall(c, name)}
         /\ \A i \in DOMAIN Recall(c, name) :
              Recall(c, name)[i].op \in Final => i = Len(Recall(c, name))
  <1>1. LightCall(c, name) \in SetterCalls
    BY DEF LightCall, SetterCalls
  <1> QED  BY <1>1, PushCallsType, OneFinal DEF Recall

LEMMA CancelType ==
  /\ CancelCalls \in Seq(SetterCalls)
  /\ ToSet(CancelCalls) = {ResetCall(e) : e \in Elements} \union {Cancelled}
  /\ \A i \in DOMAIN CancelCalls : CancelCalls[i].op \in Final => i = Len(CancelCalls)
  <1> DEFINE f == [e \in Drawstops |-> ResetCall(e)]
             s == [i \in DOMAIN ElementOrder |-> f[ElementOrder[i]]]
  <1>1. f \in [Drawstops -> SetterCalls] /\ Cancelled \in SetterCalls
    BY DEF SetterCalls, DrawstopCalls, ResetCall, Cancelled
  <1>2. CancelCalls = s \o <<Cancelled>>
    BY Order DEF CancelCalls
  <1>3. {f[e] : e \in Elements} = {ResetCall(e) : e \in Elements}
    BY Order
  <1>4. \A i \in DOMAIN s : s[i].op \notin Final
    BY Order DEF ResetCall, Final
  <1> HIDE DEF f
  <1>5. s \in Seq(SetterCalls) /\ ToSet(s) = {f[e] : e \in Elements}
    BY <1>1, CallsInOrder
  <1> HIDE DEF s
  <1>6. /\ CancelCalls \in Seq(SetterCalls)
        /\ ToSet(CancelCalls) = ToSet(s) \union {Cancelled}
        /\ \A i \in DOMAIN CancelCalls : CancelCalls[i].op \in Final => i = Len(CancelCalls)
    BY <1>1, <1>2, <1>4, <1>5, OneFinal
  <1> QED  BY <1>3, <1>5, <1>6

LEMMA StartType ==
  /\ StartCalls \in Seq(SetterCalls)
  /\ ToSet(StartCalls) = {UpdateCall(e) : e \in Elements}
  <1> DEFINE f == [e \in Drawstops |-> UpdateCall(e)]
  <1>1. f \in [Drawstops -> SetterCalls]
    BY DEF SetterCalls, DrawstopCalls, UpdateCall
  <1>2. StartCalls = [i \in DOMAIN ElementOrder |-> f[ElementOrder[i]]]
    BY Order DEF StartCalls
  <1>3. {f[e] : e \in Elements} = {UpdateCall(e) : e \in Elements}
    BY Order
  <1> HIDE DEF f
  <1> QED  BY <1>1, <1>2, <1>3, CallsInOrder

-----------------------------------------------------------------------------
(* The positions of the crescendos *)

LEMMA StepsOf ==
  ASSUME NEW b \in Crescendos, NEW p \in 0..NSteps - 1
  PROVE  p + b * NSteps \in Steps
  <1>1. NSteps \in Nat \ {0} /\ NCrescendos \in Nat \ {0} /\ b \in Nat /\ b <= NCrescendos - 1
    BY SetterAssumption DEF Crescendos
  <1>2. b * NSteps \in Nat /\ NCrescendos * NSteps \in Nat
    BY <1>1
  <1>3. b * NSteps <= (NCrescendos - 1) * NSteps
    BY <1>1
  <1>4. (NCrescendos - 1) * NSteps = NCrescendos * NSteps - NSteps
    BY <1>1
  <1> QED  BY <1>1, <1>2, <1>3, <1>4 DEF Steps

LEMMA CrescendoOf ==
  ASSUME NEW i \in Steps
  PROVE  i \div NSteps \in Crescendos
  <1> DEFINE q == i \div NSteps
  <1>1. NSteps \in Nat \ {0} /\ NCrescendos \in Nat \ {0} /\ i \in Nat /\ i < NCrescendos * NSteps
    BY SetterAssumption DEF Steps
  <1>2. q \in Nat /\ q * NSteps <= i
    BY <1>1
  <1> HIDE DEF q
  <1>3. ASSUME q >= NCrescendos
        PROVE  FALSE
    <2>1. q * NSteps >= NCrescendos * NSteps
      BY <1>1, <1>2, <1>3
    <2> QED  BY <1>1, <1>2, <2>1
  <1>4. q \in Crescendos
    BY <1>1, <1>2, <1>3 DEF Crescendos
  <1> QED  BY <1>4 DEF q

-----------------------------------------------------------------------------
(* The steps that begin something new *)

DataOK ==
  /\ isSet \in BOOLEAN
  /\ general \in [Generals -> Combination] /\ frame \in [Frames -> Combination]
  /\ crescendo \in [Steps -> Combination]
  /\ pos \in Frames /\ bank \in Crescendos /\ step \in 0..NSteps - 1
  /\ override \in [Crescendos -> BOOLEAN] /\ stateName \in [Steps -> Names]
  /\ cmbModified \in BOOLEAN /\ organModified \in BOOLEAN
  /\ file = <<>> \/ file \in Files
  /\ edits \in 0..MaxEdits

LEMMA TypeParts == TypeOK <=> calls \in Seq(SetterCalls) /\ DrawstopsTypeOK /\ DataOK
  BY DEF TypeOK, DataOK

\* They all find nothing left to be called, and leave the drawstops to the calls.
Starts ==
  /\ AtRest /\ UNCHANGED drawstopVars
  /\ \/ calls' \in {<<>>, StartCalls, CancelCalls}
     \/ calls' \in Seq(Pushes)
     \/ \E c \in Combination, name \in Names : calls' = Recall(c, name)

LEMMA StartsType ==
  ASSUME DrawstopsTypeOK, Starts
  PROVE  calls' \in Seq(SetterCalls) /\ DrawstopsTypeOK'
  <1>1. DrawstopsTypeOK'
    BY DEF Starts, drawstopVars, DrawstopsTypeOK
  <1>2. Pushes \subseteq SetterCalls
    BY DEF Pushes, SetterCalls
  <1>3. CASE calls' \in {<<>>, StartCalls, CancelCalls}
    BY <1>1, <1>3, EmptySeq, StartType, CancelType
  <1>4. CASE calls' \in Seq(Pushes)
    BY <1>1, <1>2, <1>4, SeqSubset
  <1>5. CASE \E c \in Combination, name \in Names : calls' = Recall(c, name)
    BY <1>1, <1>5, RecallType
  <1> QED  BY <1>3, <1>4, <1>5 DEF Starts

LEMMA QuietStarts ==
  ASSUME AtRest, UNCHANGED drawstopVars, UNCHANGED calls
  PROVE  Starts
  BY DEF Starts, AtRest

LEMMA Bounds == /\ NFrames \in Nat \ {0} /\ NCrescendos \in Nat \ {0} /\ NSteps \in Nat \ {0}
                /\ NGenerals \in Nat /\ MaxEdits \in Nat
                /\ Crescendos \subseteq Names /\ Default \in Names
  BY SetterAssumption DEF Names

LEMMA NotifyType ==
  ASSUME DataOK, NEW changed, NEW force, NotifyCmbPushed(changed, force)
  PROVE  cmbModified' \in BOOLEAN /\ organModified' \in BOOLEAN
  BY DEF DataOK, NotifyCmbPushed, modifiedVars

LEMMA PushGeneralType ==
  ASSUME DataOK, AtRest, UNCHANGED drawstopVars,
         NEW c \in Combination, NEW new, NEW name \in Names, NEW isProtected,
         PushGeneral(c, new, name, isProtected)
  PROVE  /\ Starts
         /\ edits' \in 0..MaxEdits
         /\ cmbModified' \in BOOLEAN /\ organModified' \in BOOLEAN
  <1>1. cmbModified' \in BOOLEAN /\ organModified' \in BOOLEAN
    BY NotifyType DEF PushGeneral
  <1>2. edits' \in 0..MaxEdits
    BY Bounds DEF PushGeneral, DataOK, CanEdit
  <1>3. CASE isSet
    BY <1>1, <1>2, <1>3 DEF PushGeneral, Starts
  <1>4. CASE ~isSet
    <2>1. calls' = Recall(c, name)
      BY <1>4 DEF PushGeneral, Recall
    <2> QED  BY <1>1, <1>2, <2>1 DEF Starts
  <1> QED  BY <1>3, <1>4

LEMMA PushBankedGeneralStep ==
  ASSUME DataOK, NEW g \in Generals, PushBankedGeneral(g)
  PROVE  Starts /\ DataOK'
  <1>1. general[g] \in Combination /\ Default \in Names
    BY Bounds DEF DataOK
  <1>2. PICK new \in AfterPush(general[g], g \in ProtectedGenerals) :
          /\ PushGeneral(general[g], new, Default, g \in ProtectedGenerals)
          /\ general' = [general EXCEPT ![g] = new]
    BY DEF PushBankedGeneral
  <1>3. new \in Combination
    BY <1>1, <1>2, AfterPushType
  <1>4. AtRest /\ UNCHANGED <<drawstopVars, isSet, frame, crescendo, pos, crescendoVars, file>>
    BY DEF PushBankedGeneral
  <1>5. /\ Starts /\ edits' \in 0..MaxEdits
        /\ cmbModified' \in BOOLEAN /\ organModified' \in BOOLEAN
    BY <1>1, <1>2, <1>4, PushGeneralType
  <1>6. general' \in [Generals -> Combination]
    BY <1>2, <1>3 DEF DataOK
  <1> QED  BY <1>4, <1>5, <1>6 DEF DataOK, crescendoVars

LEMMA GotoFrameStep ==
  ASSUME DataOK, NEW p \in Frames, GotoFrame(p)
  PROVE  Starts /\ DataOK'
  <1>1. frame[p] \in Combination /\ Default \in Names
    BY Bounds DEF DataOK
  <1>2. PICK new \in AfterPush(frame[p], p \in ProtectedFrames) :
          /\ PushGeneral(frame[p], new, Default, p \in ProtectedFrames)
          /\ frame' = [frame EXCEPT ![p] = new]
    BY DEF GotoFrame
  <1>3. new \in Combination
    BY <1>1, <1>2, AfterPushType
  <1>4. AtRest /\ pos' = p
        /\ UNCHANGED <<drawstopVars, isSet, general, crescendo, crescendoVars, file>>
    BY DEF GotoFrame
  <1>5. /\ Starts /\ edits' \in 0..MaxEdits
        /\ cmbModified' \in BOOLEAN /\ organModified' \in BOOLEAN
    BY <1>1, <1>2, <1>4, PushGeneralType
  <1>6. frame' \in [Frames -> Combination]
    BY <1>2, <1>3 DEF DataOK
  <1> QED  BY <1>4, <1>5, <1>6 DEF DataOK, crescendoVars

LEMMA PrepareFrameStep ==
  ASSUME DataOK, NEW p \in Frames, PrepareFrame(p)
  PROVE  Starts /\ DataOK'
  <1>1. Starts
    BY QuietStarts DEF PrepareFrame
  <1> QED  BY <1>1 DEF PrepareFrame, DataOK, combinationVars, crescendoVars, modifiedVars

LEMMA InsertStep ==
  ASSUME DataOK, Insert
  PROVE  Starts /\ DataOK'
  <1> DEFINE moved == [p \in Frames |-> IF p > pos THEN Copied(frame[p - 1], frame[p]) ELSE frame[p]]
  <1>1. moved \in [Frames -> Combination]
    <2>1. ASSUME NEW p \in Frames, p > pos
          PROVE  Copied(frame[p - 1], frame[p]) \in Combination
      <3>1. p - 1 \in Frames
        BY <2>1, Bounds DEF DataOK, Frames
      <3> QED  BY <3>1, CopiedType DEF DataOK
    <2> QED  BY <2>1 DEF DataOK
  <1>2. /\ AtRest /\ CanEdit /\ edits' = edits + 1
        /\ UNCHANGED <<drawstopVars, isSet, general, crescendo, pos, crescendoVars, file>>
    BY DEF Insert
  <1>3. PICK changed \in BOOLEAN, new \in AfterPush(moved[pos], pos \in ProtectedFrames) :
          /\ frame' = [moved EXCEPT ![pos] = new]
          /\ calls' = IF isSet THEN <<>> ELSE Recall(moved[pos], Default)
          /\ NotifyCmbPushed(changed \/ (isSet /\ Used(new) /\ pos \notin ProtectedFrames), TRUE)
    <2> DEFINE moves == pos < NFrames - 1 /\ \E p \in Frames : p >= pos /\ ~IsEmpty(frame[p])
    <2>1. \E new \in AfterPush(moved[pos], pos \in ProtectedFrames) :
            /\ frame' = [moved EXCEPT ![pos] = new]
            /\ calls' = IF isSet THEN <<>> ELSE Recall(moved[pos], Default)
            /\ NotifyCmbPushed(moves \/ (isSet /\ Used(new) /\ pos \notin ProtectedFrames), TRUE)
      BY DEF Insert, Recall
    <2>2. moves \in BOOLEAN
      OBVIOUS
    <2> HIDE DEF moves, moved
    <2> QED  BY <2>1, <2>2
  <1> HIDE DEF moved
  <1>4. moved[pos] \in Combination /\ Default \in Names
    BY <1>1, Bounds DEF DataOK
  <1>5. new \in Combination
    BY <1>3, <1>4, AfterPushType
  <1>6. frame' \in [Frames -> Combination]
    BY <1>1, <1>3, <1>5
  <1>7. cmbModified' \in BOOLEAN /\ organModified' \in BOOLEAN
    BY <1>3, NotifyType
  <1>8. edits' \in 0..MaxEdits
    BY <1>2, Bounds DEF DataOK, CanEdit
  <1>9. Starts
    BY <1>2, <1>3, <1>4 DEF Starts
  <1> QED  BY <1>2, <1>6, <1>7, <1>8, <1>9 DEF DataOK, crescendoVars

LEMMA DeleteStep ==
  ASSUME DataOK, Delete
  PROVE  Starts /\ DataOK'
  <1>1. frame' \in [Frames -> Combination]
    <2>1. ASSUME NEW p \in Frames, pos <= p /\ p < NFrames - 1
          PROVE  Copied(frame[p + 1], frame[p]) \in Combination
      <3>1. p + 1 \in Frames
        BY <2>1, Bounds DEF DataOK, Frames
      <3> QED  BY <3>1, CopiedType DEF DataOK
    <2> QED  BY <2>1 DEF DataOK, Delete
  <1>2. /\ AtRest /\ CanEdit /\ edits' = edits + 1
        /\ UNCHANGED <<calls, drawstopVars, isSet, general, crescendo, pos, crescendoVars, file>>
    BY DEF Delete
  <1>3. cmbModified' \in BOOLEAN /\ organModified' \in BOOLEAN
    BY NotifyType DEF Delete
  <1>4. edits' \in 0..MaxEdits
    BY <1>2, Bounds DEF DataOK, CanEdit
  <1>5. Starts
    BY <1>2, QuietStarts
  <1> QED  BY <1>1, <1>2, <1>3, <1>4, <1>5 DEF DataOK, crescendoVars

\* A set of places has a first one.
LEMMA FirstPlace ==
  ASSUME NEW S \in SUBSET Nat, S # {}
  PROVE  \E x \in S : \A y \in S : x <= y
  <1>1. PICK less : /\ IsWellFoundedOn(less, Nat)
                    /\ \A x, y \in Nat : x < y => <<x, y>> \in less
    <2>1. \A x, y \in Nat : x < y => <<x, y>> \in OpToRel(<, Nat)
      BY DEF OpToRel
    <2> QED  BY <2>1, NatLessThanWellFounded
  <1>2. PICK x \in S : \A y \in S : ~(<<y, x>> \in less)
    <2>1. S \subseteq Nat /\ IsWellFoundedOn(less, Nat)
      BY <1>1
    <2> QED  BY <2>1, WFMin, Zenon
  <1>3. ASSUME NEW y \in S PROVE x <= y
    <2>1. x \in Nat /\ y \in Nat /\ ~(y < x)
      BY <1>1, <1>2
    <2> QED  BY <2>1
  <1> QED  BY <1>3

\* Crescendo() stays inside the table of the selected crescendo.
LEMMA PassedType ==
  ASSUME DataOK, NEW newpos \in 0..NSteps - 1
  PROVE  Passed(newpos) \in Seq(Steps)
  <1>1. /\ step \in 0..NSteps - 1 /\ bank \in Crescendos /\ NSteps \in Nat
        /\ newpos \in Nat /\ step \in Nat
    BY Bounds DEF DataOK
  <1>2. CASE newpos > step
    <2>1. \A i \in 1..newpos - step : step + i \in 0..NSteps - 1
      BY <1>1, <1>2
    <2>2. \A i \in 1..newpos - step : StepIndex(step + i) \in Steps
      BY <1>1, <2>1, StepsOf DEF StepIndex
    <2>3. newpos - step \in Nat
      BY <1>1, <1>2
    <2>4. [i \in 1..newpos - step |-> StepIndex(step + i)] \in [1..newpos - step -> Steps]
      BY <2>2
    <2>5. [i \in 1..newpos - step |-> StepIndex(step + i)] \in Seq(Steps)
      BY <2>3, <2>4, SeqDef
    <2> QED  BY <1>2, <2>5 DEF Passed
  <1>3. CASE ~(newpos > step)
    <2>1. \A i \in 1..step - newpos : step - i \in 0..NSteps - 1
      BY <1>1, <1>3
    <2>2. \A i \in 1..step - newpos : StepIndex(step - i) \in Steps
      BY <1>1, <2>1, StepsOf DEF StepIndex
    <2>3. step - newpos \in Nat
      BY <1>1, <1>3
    <2>4. [i \in 1..step - newpos |-> StepIndex(step - i)] \in [1..step - newpos -> Steps]
      BY <2>2
    <2>5. [i \in 1..step - newpos |-> StepIndex(step - i)] \in Seq(Steps)
      BY <2>3, <2>4, SeqDef
    <2> QED  BY <1>3, <2>5 DEF Passed
  <1> QED  BY <1>2, <1>3

LEMMA PushedType ==
  ASSUME DataOK, NEW newpos \in 0..NSteps - 1
  PROVE  Pushed(newpos) \in Seq(Steps)
  <1> DEFINE passed == Passed(newpos)
             used   == {i \in DOMAIN passed : Used(crescendo[passed[i]])}
             first  == CHOOSE i \in used : \A j \in used : i <= j
  <1>1. passed \in Seq(Steps)
    BY PassedType
  <1>2. DOMAIN passed = 1..Len(passed) /\ Len(passed) \in Nat
    BY <1>1, LenProperties
  <1>3. CASE used = {}
    BY <1>1, <1>3 DEF Pushed
  <1>4. CASE used # {}
    <2>1. used \in SUBSET Nat
      BY <1>2
    <2>2. \E i \in used : \A j \in used : i <= j
      <3> HIDE DEF used
      <3> QED  BY <1>4, <2>1, FirstPlace
    <2>3. first \in used
      <3> HIDE DEF used
      <3> QED  BY <2>2
    <2>4. Pushed(newpos) = SubSeq(passed, 1, first)
      BY <1>4 DEF Pushed
    <2>5. first \in 1..Len(passed)
      BY <1>2, <2>3
    <2> HIDE DEF first, used, passed
    <2>6. 1 \in Int /\ first \in Int /\ \A i \in 1..first : passed[i] \in Steps
      BY <1>1, <1>2, <2>5
    <2> QED  BY <2>4, <2>6, SubSeqProperties
  <1> QED  BY <1>3, <1>4

LEMMA MoveCrescendoStep ==
  ASSUME DataOK, NEW p \in 0..NSteps - 1, MoveCrescendo(p)
  PROVE  Starts /\ DataOK'
  <1> DEFINE pushed == Pushed(p)
             pushes == [i \in DOMAIN pushed |-> PushCall(crescendo[pushed[i]], stateName[pushed[i]])]
  <1>1. /\ AtRest /\ calls' = pushes /\ step' = p
        /\ UNCHANGED <<drawstopVars, isSet, combinationVars, pos, bank, override, stateName,
                       modifiedVars, file, edits>>
    BY DEF MoveCrescendo
  <1>2. pushed \in Seq(Steps)
    BY PushedType
  <1> HIDE DEF pushed
  <1>3. /\ Len(pushed) \in Nat /\ DOMAIN pushed = 1..Len(pushed)
        /\ \A i \in DOMAIN pushed : pushed[i] \in Steps
    BY <1>2, LenProperties
  <1>4. \A i \in DOMAIN pushed : PushCall(crescendo[pushed[i]], stateName[pushed[i]]) \in Pushes
    <2>1. \A i \in DOMAIN pushed : crescendo[pushed[i]] \in Combination /\ stateName[pushed[i]] \in Names
      BY <1>3 DEF DataOK
    <2> QED  BY <2>1 DEF PushCall, Pushes
  <1>5. pushes \in [1..Len(pushed) -> Pushes]
    BY <1>3, <1>4
  <1>6. pushes \in Seq(Pushes)
    BY <1>3, <1>5, SeqDef
  <1>7. Starts
    BY <1>1, <1>6 DEF Starts
  <1> QED  BY <1>1, <1>7 DEF DataOK, combinationVars, modifiedVars

LEMMA StoreStepStep ==
  ASSUME DataOK, NEW p \in 0..NSteps - 1, StoreStep(p)
  PROVE  Starts /\ DataOK'
  <1> DEFINE i == StepIndex(p)
  <1>1. /\ AtRest /\ CanEdit /\ edits' = edits + 1 /\ step' = p
        /\ UNCHANGED <<calls, drawstopVars, isSet, general, frame, pos, bank, override, stateName, file>>
    BY DEF StoreStep
  <1>2. PICK new \in AfterPush(crescendo[i], i \in ProtectedSteps) :
          /\ crescendo' = [crescendo EXCEPT ![i] = new]
          /\ NotifyCmbPushed(Used(new) /\ i \notin ProtectedSteps, FALSE)
    BY DEF StoreStep
  <1>3. i \in Steps
    BY StepsOf DEF StepIndex, DataOK
  <1> HIDE DEF i
  <1>4. new \in Combination
    BY <1>2, <1>3, AfterPushType DEF DataOK
  <1>5. crescendo' \in [Steps -> Combination]
    BY <1>2, <1>3, <1>4 DEF DataOK
  <1>6. cmbModified' \in BOOLEAN /\ organModified' \in BOOLEAN
    BY <1>2, NotifyType
  <1>7. edits' \in 0..MaxEdits
    BY <1>1, Bounds DEF DataOK, CanEdit
  <1>8. Starts
    BY <1>1, QuietStarts
  <1> QED  BY <1>1, <1>5, <1>6, <1>7, <1>8 DEF DataOK

LEMMA PushStepStep ==
  ASSUME DataOK, PushStep
  PROVE  Starts /\ DataOK'
  <1> DEFINE i == StepIndex(step)
  <1>1. AtRest /\ UNCHANGED <<drawstopVars, isSet, general, frame, pos, crescendoVars, file>>
    BY DEF PushStep
  <1>2. PICK new \in AfterPush(crescendo[i], i \in ProtectedSteps) :
          /\ PushGeneral(crescendo[i], new, stateName[i], i \in ProtectedSteps)
          /\ crescendo' = [crescendo EXCEPT ![i] = new]
    BY DEF PushStep
  <1>3. i \in Steps
    BY StepsOf DEF StepIndex, DataOK
  <1> HIDE DEF i
  <1>4. crescendo[i] \in Combination /\ stateName[i] \in Names
    BY <1>3 DEF DataOK
  <1>5. new \in Combination
    BY <1>2, <1>4, AfterPushType
  <1>6. /\ Starts /\ edits' \in 0..MaxEdits
        /\ cmbModified' \in BOOLEAN /\ organModified' \in BOOLEAN
    BY <1>1, <1>2, <1>4, PushGeneralType
  <1>7. crescendo' \in [Steps -> Combination]
    BY <1>2, <1>3, <1>5 DEF DataOK
  <1> QED  BY <1>1, <1>6, <1>7 DEF DataOK, crescendoVars

LEMMA SelectCrescendoStep ==
  ASSUME DataOK, NEW b \in Crescendos, SelectCrescendo(b)
  PROVE  Starts /\ DataOK'
  <1>1. Starts
    BY QuietStarts DEF SelectCrescendo
  <1> QED  BY <1>1 DEF SelectCrescendo, DataOK, combinationVars, modifiedVars

LEMMA PressOverrideStep ==
  ASSUME DataOK, PressOverride
  PROVE  Starts /\ DataOK'
  <1>1. Starts
    BY QuietStarts DEF PressOverride
  <1>2. StateName(~override[bank], bank) \in Names
    BY Bounds DEF StateName, DataOK
  <1>3. stateName' \in [Steps -> Names]
    BY <1>2 DEF PressOverride, DataOK
  <1>4. override' \in [Crescendos -> BOOLEAN]
    BY DEF PressOverride, DataOK
  <1> QED  BY <1>1, <1>3, <1>4 DEF PressOverride, DataOK, combinationVars, modifiedVars

LEMMA ExportStep ==
  ASSUME DataOK, ExportCombination
  PROVE  Starts /\ DataOK'
  <1>1. Starts
    BY QuietStarts DEF ExportCombination
  <1>2. file' \in Files
    <2>1. /\ [g \in Generals |-> ToYaml(general[g])] \in [Generals -> CmbInFile]
          /\ [p \in Frames |-> ToYaml(frame[p])] \in [Frames -> CmbInFile]
          /\ [i \in Steps |-> ToYaml(crescendo[i])] \in [Steps -> CmbInFile]
          /\ override \in [Crescendos -> BOOLEAN]
      BY ToYamlType DEF DataOK
    <2> QED  BY <2>1 DEF ExportCombination, Files
  <1> QED  BY <1>1, <1>2 DEF ExportCombination, DataOK, combinationVars, crescendoVars

LEMMA LoadStep ==
  ASSUME DataOK, NEW byButton \in BOOLEAN, LoadCombination(byButton)
  PROVE  Starts /\ DataOK'
  <1>1. AtRest /\ file \in Files
    BY DEF LoadCombination, DataOK
  <1>2. /\ file.general \in [Generals -> CmbInFile] /\ file.frame \in [Frames -> CmbInFile]
        /\ file.crescendo \in [Steps -> CmbInFile] /\ file.override \in [Crescendos -> BOOLEAN]
    BY <1>1 DEF Files
  <1>3. general' \in [Generals -> Combination]
    <2>1. \A g \in Generals :
            Loaded(general[g], file.general[g], g \in ProtectedGenerals) \in Combination
      BY <1>2, LoadedType DEF DataOK
    <2> QED  BY <2>1 DEF LoadCombination
  <1>4. frame' \in [Frames -> Combination]
    <2>1. \A p \in Frames : Loaded(frame[p], file.frame[p], p \in ProtectedFrames) \in Combination
      BY <1>2, LoadedType DEF DataOK
    <2> QED  BY <2>1 DEF LoadCombination
  <1>5. crescendo' \in [Steps -> Combination]
    <2>1. \A i \in Steps :
            Loaded(crescendo[i], file.crescendo[i], i \in ProtectedSteps) \in Combination
      BY <1>2, LoadedType DEF DataOK
    <2> QED  BY <2>1 DEF LoadCombination
  <1>6. override' \in [Crescendos -> BOOLEAN]
    <2>1. \A b \in Crescendos : OverrideInFile(b) \in BOOLEAN
      BY <1>2 DEF OverrideInFile
    <2> QED  BY <2>1 DEF LoadCombination
  <1>7. isSet' \in BOOLEAN /\ pos' \in Frames
    <2>1. 0 \in Frames /\ isSet \in BOOLEAN /\ pos \in Frames
      BY Bounds DEF DataOK, Frames
    <2>2. CASE byButton
      BY <2>1, <2>2 DEF LoadCombination
    <2>3. CASE ~byButton
      BY <2>1, <2>3 DEF LoadCombination
    <2> QED  BY <2>2, <2>3
  <1>8. Starts
    <2>1. UNCHANGED drawstopVars
      BY DEF LoadCombination
    <2>2. CASE byButton
      <3>1. calls' = Recall(Loaded(frame[0], file.frame[0], 0 \in ProtectedFrames), Default)
        BY <2>2 DEF LoadCombination, Recall
      <3>2. 0 \in Frames
        BY Bounds DEF Frames
      <3>3. /\ Loaded(frame[0], file.frame[0], 0 \in ProtectedFrames) \in Combination
            /\ Default \in Names
        BY <1>2, <3>2, LoadedType, Bounds DEF DataOK
      <3> QED  BY <1>1, <2>1, <3>1, <3>3 DEF Starts
    <2>3. CASE ~byButton
      <3>1. UNCHANGED calls
        BY <2>3 DEF LoadCombination
      <3> QED  BY <1>1, <2>1, <3>1, QuietStarts
    <2> QED  BY <2>2, <2>3
  <1> QED  BY <1>3, <1>4, <1>5, <1>6, <1>7, <1>8 DEF LoadCombination, DataOK

LEMMA RestStep ==
  ASSUME DataOK, SaveSettings \/ PressSet \/ GeneralCancel \/ StartPlayback
  PROVE  Starts /\ DataOK'
  <1>1. CASE SaveSettings
    <2>1. Starts
      BY <1>1, QuietStarts DEF SaveSettings
    <2> QED  BY <1>1, <2>1 DEF SaveSettings, DataOK, combinationVars, crescendoVars
  <1>2. CASE PressSet
    <2>1. Starts
      BY <1>2, QuietStarts DEF PressSet
    <2> QED  BY <1>2, <2>1 DEF PressSet, DataOK, combinationVars, crescendoVars, modifiedVars
  <1>3. CASE GeneralCancel
    <2>1. Starts
      BY <1>3 DEF GeneralCancel, Starts, CancelCalls, Cancelled
    <2> QED  BY <1>3, <2>1 DEF GeneralCancel, DataOK, combinationVars, crescendoVars, modifiedVars
  <1>4. CASE StartPlayback
    <2>1. Starts
      BY <1>4 DEF StartPlayback, Starts
    <2> QED  BY <1>4, <2>1 DEF StartPlayback, DataOK, combinationVars, crescendoVars, modifiedVars
  <1> QED  BY <1>1, <1>2, <1>3, <1>4

\* Whatever is not one of the calls begins something new.
LEMMA OtherStep ==
  ASSUME DataOK, Next
  PROVE  Handle \/ (Starts /\ DataOK')
  <1> DEFINE other ==
        \/ \E g \in Generals : PushBankedGeneral(g)
        \/ \E p \in Frames : GotoFrame(p)
        \/ \E p \in Frames : PrepareFrame(p)
        \/ Insert \/ Delete
        \/ \E p \in 0..NSteps - 1 : MoveCrescendo(p)
        \/ \E p \in 0..NSteps - 1 : StoreStep(p)
        \/ \E b \in Crescendos : SelectCrescendo(b)
        \/ PushStep \/ PressOverride \/ ExportCombination
        \/ \E byButton \in BOOLEAN : LoadCombination(byButton)
        \/ SaveSettings \/ PressSet \/ GeneralCancel \/ StartPlayback
  <1>1. Handle \/ other
    BY DEF Next
  <1>2. other => Starts /\ DataOK'
    BY PushBankedGeneralStep, GotoFrameStep, PrepareFrameStep, InsertStep, DeleteStep,
       MoveCrescendoStep, StoreStepStep, SelectCrescendoStep, PushStepStep, PressOverrideStep,
       ExportStep, LoadStep, RestStep, Zenon
  <1> QED  BY <1>1, <1>2

-----------------------------------------------------------------------------
(* What a recall and a general cancel still have to do *)

\* The button is lit after the last drawstop has been set, and meanwhile nothing else
\* is done to a drawstop without a function.
RecallOf(l) ==
  /\ \A c \in ToSet(calls) : \/ c = l \/ c \in DerivedUpdates
                             \/ \E e \in Elements : c = SetCall(e, l.cmb.state[e], l.name)
  /\ \A e \in Inputs : \/ l.cmb.state[e] = "keep"
                       \/ SetCall(e, l.cmb.state[e], l.name) \in ToSet(calls)
                       \/ l.name \in states[e] <=> l.cmb.state[e] = "on"

RecallInv == \A l \in ToSet(calls) : l.op = "Light" => RecallOf(l)

CancelOf(l) ==
  /\ \A c \in ToSet(calls) : c = l \/ c \in DerivedUpdates \/ c.op = "Reset"
  /\ \A e \in Inputs : GCState[e] = 0 => ResetCall(e) \in ToSet(calls) \/ ~engaged[e]

CancelInv == \A l \in ToSet(calls) : l.op = "Cancelled" => CancelOf(l)

CallsInv == FinalLast /\ RecallInv /\ CancelInv

\* The end has come.
LEMMA LightStep ==
  ASSUME calls \in Seq(SetterCalls), FinalLast, Light
  PROVE  calls' = <<>> /\ UNCHANGED drawstopVars /\ calls # <<>> /\ Call.op \in Final
  <1>1. calls # <<>> /\ Call.op \in Final /\ calls' = Tail(calls) /\ UNCHANGED drawstopVars
    BY DEF Light, Doing, Final
  <1>2. Len(calls) \in Nat \ {0} /\ DOMAIN calls = 1..Len(calls) /\ Call = calls[1]
    BY <1>1, EmptySeq, LenProperties DEF Call
  <1>3. Len(calls) = 1
    BY <1>1, <1>2 DEF FinalLast
  <1>4. Tail(calls) \in Seq(SetterCalls) /\ Len(Tail(calls)) = 0
    BY <1>1, <1>3, HeadTailProperties
  <1>5. Tail(calls) = <<>>
    BY <1>4, EmptySeq
  <1> QED  BY <1>1, <1>5

LEMMA NothingToCome ==
  ASSUME calls' = <<>>
  PROVE  CallsInv'
  <1>1. ToSet(calls') = {}
    BY EmptyToSet
  <1>2. FinalLast'
    BY DEF FinalLast
  <1> QED  BY <1>1, <1>2 DEF CallsInv, RecallInv, CancelInv

LEMMA PushTheStep ==
  ASSUME calls \in Seq(SetterCalls), Push
  PROVE  /\ UNCHANGED drawstopVars /\ calls # <<>> /\ Call.op = "Push"
         /\ calls' \in Seq(SetterCalls)
         /\ calls' = PushCalls(Call.cmb, Call.name) \o Tail(calls)
         /\ ToSet(calls') = {SetCall(e, Call.cmb.state[e], Call.name) : e \in Elements}
                              \union ToSet(Tail(calls))
  <1>1. /\ UNCHANGED drawstopVars /\ calls # <<>> /\ Call.op = "Push"
        /\ calls' = PushCalls(Call.cmb, Call.name) \o Tail(calls)
    BY DEF Push, Doing
  <1>2. Call.cmb \in Combination /\ Call.name \in Names /\ Tail(calls) \in Seq(SetterCalls)
    BY <1>1, CallType
  <1>3. /\ PushCalls(Call.cmb, Call.name) \in Seq(SetterCalls)
        /\ ToSet(PushCalls(Call.cmb, Call.name))
           = {SetCall(e, Call.cmb.state[e], Call.name) : e \in Elements}
    BY <1>2, PushCallsType
  <1> DEFINE new == PushCalls(Call.cmb, Call.name)
  <1>4. new \in Seq(SetterCalls)
    BY <1>3
  <1> HIDE DEF new
  <1>5. /\ new \o Tail(calls) \in Seq(SetterCalls)
        /\ ToSet(new \o Tail(calls)) = ToSet(new) \union ToSet(Tail(calls))
    BY <1>2, <1>4, ToSetConcat, ConcatProperties
  <1> QED  BY <1>1, <1>3, <1>5 DEF new

LEMMA PushFinal ==
  ASSUME calls \in Seq(SetterCalls), Push, FinalLast
  PROVE  FinalLast'
  <1> DEFINE new == PushCalls(Call.cmb, Call.name)
  <1>1. calls # <<>> /\ Call.op = "Push" /\ calls' = new \o Tail(calls)
    BY PushTheStep
  <1>2. Call.cmb \in Combination /\ Call.name \in Names
    BY <1>1, CallType
  <1>3. new \in Seq(SetterCalls) /\ \A i \in DOMAIN new : new[i].op \notin Final
    BY <1>2, PushCallsType
  <1> HIDE DEF new
  <1>4. \A i \in DOMAIN calls' : calls'[i].op \in Final => i = Len(calls')
    BY <1>1, <1>3, FinalStaysLast DEF FinalLast
  <1> QED  BY <1>4 DEF FinalLast

\* A call of a drawstop keeps what the others still have to do.
LEMMA EffectRecall ==
  ASSUME calls \in Seq(SetterCalls), calls # <<>>, RecallInv, NEW d \in Drawstops,
         Effect(d, Tail(calls)), Call.op \in {"Set", "Update", "Reset"},
         \A l : Call = SetCall(d, l.cmb.state[d], l.name) /\ d \in Inputs /\ l.cmb.state[d] # "keep"
                  => (l.name \in states'[d] <=> l.cmb.state[d] = "on"),
         Call.at = d
  PROVE  RecallInv'
  <1>1. /\ ToSet(calls) = {Call} \union ToSet(Tail(calls))
        /\ Tail(calls) \in Seq(SetterCalls)
    BY CallType
  <1>2. /\ ToSet(Tail(calls)) \subseteq ToSet(calls')
        /\ ToSet(calls') \subseteq ToSet(Tail(calls)) \union DerivedUpdates
    BY <1>1, EffectCalls
  <1>3. \A x \in Drawstops \ {d} : states'[x] = states[x]
    BY DEF Effect
  <1>4. ASSUME NEW l \in ToSet(calls'), l.op = "Light"
        PROVE  RecallOf(l)'
    <2>1. l \in ToSet(Tail(calls)) /\ l \in ToSet(calls) /\ RecallOf(l)
      BY <1>1, <1>2, <1>4 DEF DerivedUpdates, RecallInv
    <2>2. \A c \in ToSet(calls') : \/ c = l \/ c \in DerivedUpdates
                                   \/ \E e \in Elements : c = SetCall(e, l.cmb.state[e], l.name)
      BY <1>1, <1>2, <2>1 DEF RecallOf
    <2>3. ASSUME NEW e \in Inputs, l.cmb.state[e] # "keep",
                 SetCall(e, l.cmb.state[e], l.name) \notin ToSet(calls')
          PROVE  l.name \in states'[e] <=> l.cmb.state[e] = "on"
      <3>1. e \in Drawstops /\ e \notin Derived
        BY InputsDerived
      <3>2. SetCall(e, l.cmb.state[e], l.name) \notin ToSet(Tail(calls))
        BY <1>2, <2>3
      <3>3. CASE e # d
        <4>1. SetCall(e, l.cmb.state[e], l.name) # Call
          BY <3>3 DEF SetCall
        <4>2. l.name \in states[e] <=> l.cmb.state[e] = "on"
          BY <1>1, <2>1, <2>3, <3>2, <4>1 DEF RecallOf
        <4> QED  BY <1>3, <3>1, <3>3, <4>2
      <3>4. CASE e = d
        <4>1. Call = SetCall(e, l.cmb.state[e], l.name)
          <5>1. Call \in ToSet(calls) /\ Call # l
            BY <1>1, <1>4
          <5>2. Call \notin DerivedUpdates
            BY <3>1, <3>4 DEF DerivedUpdates
          <5>3. PICK x \in Elements : Call = SetCall(x, l.cmb.state[x], l.name)
            BY <2>1, <5>1, <5>2 DEF RecallOf
          <5>4. x = e
            BY <3>4, <5>3 DEF SetCall
          <5> QED  BY <5>3, <5>4
        <4> QED  BY <2>3, <3>4, <4>1
      <3> QED  BY <3>3, <3>4
    <2> QED  BY <2>2, <2>3 DEF RecallOf
  <1> QED  BY <1>4 DEF RecallInv

LEMMA EffectCancel ==
  ASSUME calls \in Seq(SetterCalls), calls # <<>>, CancelInv, NEW d \in Drawstops,
         Effect(d, Tail(calls)), Call.op \in {"Set", "Update", "Reset"},
         Call = ResetCall(d) /\ d \in Inputs /\ GCState[d] = 0 => ~engaged'[d],
         Call.at = d
  PROVE  CancelInv'
  <1>1. /\ ToSet(calls) = {Call} \union ToSet(Tail(calls))
        /\ Tail(calls) \in Seq(SetterCalls)
        /\ Call.op = "Reset" => Call = ResetCall(d)
    BY CallType
  <1>2. /\ ToSet(Tail(calls)) \subseteq ToSet(calls')
        /\ ToSet(calls') \subseteq ToSet(Tail(calls)) \union DerivedUpdates
    BY <1>1, EffectCalls
  <1>3. \A x \in Drawstops \ {d} : engaged'[x] = engaged[x]
    BY DEF Effect
  <1>4. ASSUME NEW l \in ToSet(calls'), l.op = "Cancelled"
        PROVE  CancelOf(l)'
    <2>1. l \in ToSet(Tail(calls)) /\ l \in ToSet(calls) /\ CancelOf(l)
      BY <1>1, <1>2, <1>4 DEF DerivedUpdates, CancelInv
    <2>2. \A c \in ToSet(calls') : c = l \/ c \in DerivedUpdates \/ c.op = "Reset"
      BY <1>1, <1>2, <2>1 DEF CancelOf
    <2>3. ASSUME NEW e \in Inputs, GCState[e] = 0, ResetCall(e) \notin ToSet(calls')
          PROVE  ~engaged'[e]
      <3>1. e \in Drawstops /\ e \notin Derived
        BY InputsDerived
      <3>2. ResetCall(e) \notin ToSet(Tail(calls))
        BY <1>2, <2>3
      <3>3. CASE e # d
        <4>1. ResetCall(e) # Call
          BY <3>3 DEF ResetCall
        <4>2. ~engaged[e]
          BY <1>1, <2>1, <2>3, <3>2, <4>1 DEF CancelOf
        <4> QED  BY <1>3, <3>1, <3>3, <4>2
      <3>4. CASE e = d
        <4>1. Call \in ToSet(calls) /\ Call # l
          BY <1>1, <1>4
        <4>2. Call \notin DerivedUpdates
          BY <3>1, <3>4 DEF DerivedUpdates
        <4>3. Call.op = "Reset"
          BY <2>1, <4>1, <4>2 DEF CancelOf
        <4> QED  BY <1>1, <2>3, <3>4, <4>3
      <3> QED  BY <3>3, <3>4
    <2> QED  BY <2>2, <2>3 DEF CancelOf
  <1> QED  BY <1>4 DEF CancelInv

LEMMA SetCalls ==
  ASSUME calls \in Seq(SetterCalls), DrawstopsTypeOK, CallsInv, Set
  PROVE  CallsInv'
  <1> DEFINE d == Call.at
  <1>1. calls # <<>> /\ Call.op = "Set"
    BY DEF Set, Doing
  <1>2. d \in Drawstops /\ Effect(d, Tail(calls))
    BY <1>1, CallType, SetStep
  <1>3. ASSUME NEW l, Call = SetCall(d, l.cmb.state[d], l.name), d \in Inputs, l.cmb.state[d] # "keep"
        PROVE  l.name \in states'[d] <=> l.cmb.state[d] = "on"
    <2>1. Call.to = l.cmb.state[d] /\ Call.name = l.name
      BY <1>3 DEF SetCall
    <2>2. Moved(d, Call.to = "on", Call.name)
      BY <1>3, <2>1, SetStep
    <2>3. states'[d] = IF Call.to = "on" THEN states[d] \union {Call.name} ELSE states[d] \ {Call.name}
      BY <2>2 DEF Moved
    <2> QED  BY <2>1, <2>3
  <1>4. Call # ResetCall(d)
    BY <1>1 DEF ResetCall
  <1> HIDE DEF d
  <1>5. Call.at = d
    BY DEF d
  <1>6. FinalLast'
    BY <1>1, <1>2, EffectFinal DEF CallsInv
  <1>7. RecallInv'
    BY <1>1, <1>2, <1>3, <1>5, EffectRecall DEF CallsInv
  <1>8. CancelInv'
    BY <1>1, <1>2, <1>4, <1>5, EffectCancel DEF CallsInv
  <1> QED  BY <1>6, <1>7, <1>8 DEF CallsInv

LEMMA UpdateKeepsCalls ==
  ASSUME calls \in Seq(SetterCalls), DrawstopsTypeOK, CallsInv, Update
  PROVE  CallsInv'
  <1> DEFINE d == Call.at
  <1>1. calls # <<>> /\ Call.op = "Update"
    BY DEF Update, Doing
  <1>2. d \in Drawstops /\ Effect(d, Tail(calls))
    BY <1>1, CallType, UpdateStep
  <1>3. \A l : Call # SetCall(d, l.cmb.state[d], l.name)
    BY <1>1 DEF SetCall
  <1>4. Call # ResetCall(d)
    BY <1>1 DEF ResetCall
  <1> HIDE DEF d
  <1>5. Call.at = d
    BY DEF d
  <1>6. FinalLast'
    BY <1>1, <1>2, EffectFinal DEF CallsInv
  <1>7. RecallInv'
    BY <1>1, <1>2, <1>3, <1>5, EffectRecall DEF CallsInv
  <1>8. CancelInv'
    BY <1>1, <1>2, <1>4, <1>5, EffectCancel DEF CallsInv
  <1> QED  BY <1>6, <1>7, <1>8 DEF CallsInv

LEMMA ResetKeepsCalls ==
  ASSUME calls \in Seq(SetterCalls), DrawstopsTypeOK, CallsInv, Reset
  PROVE  CallsInv'
  <1> DEFINE d == Call.at
  <1>1. calls # <<>> /\ Call.op = "Reset"
    BY DEF Reset, Doing
  <1>2. d \in Drawstops /\ Effect(d, Tail(calls))
    BY <1>1, CallType, ResetStep
  <1>3. \A l : Call # SetCall(d, l.cmb.state[d], l.name)
    BY <1>1 DEF SetCall
  <1>4. d \in Inputs /\ GCState[d] = 0 => ~engaged'[d]
    BY ResetStep DEF Cleared
  <1> HIDE DEF d
  <1>5. Call.at = d
    BY DEF d
  <1>6. FinalLast'
    BY <1>1, <1>2, EffectFinal DEF CallsInv
  <1>7. RecallInv'
    BY <1>1, <1>2, <1>3, <1>5, EffectRecall DEF CallsInv
  <1>8. CancelInv'
    BY <1>1, <1>2, <1>4, <1>5, EffectCancel DEF CallsInv
  <1> QED  BY <1>6, <1>7, <1>8 DEF CallsInv

\* The steps of a crescendo are pushed without a button.
LEMMA PushKeepsCalls ==
  ASSUME calls \in Seq(SetterCalls), CallsInv, Push
  PROVE  CallsInv'
  <1>1. /\ UNCHANGED drawstopVars /\ calls # <<>> /\ Call.op = "Push"
        /\ ToSet(calls') = {SetCall(e, Call.cmb.state[e], Call.name) : e \in Elements}
                             \union ToSet(Tail(calls))
    BY PushTheStep
  <1>2. ToSet(calls) = {Call} \union ToSet(Tail(calls)) /\ Call \in ToSet(calls)
    BY <1>1, CallType
  <1>3. \A l \in ToSet(calls) : l.op \notin Final
    <2> SUFFICES ASSUME NEW l \in ToSet(calls), l.op \in Final
                 PROVE  FALSE
      OBVIOUS
    <2>1. Call # l /\ Call \notin DerivedUpdates /\ Call.op # "Reset" /\ Call.op # "Set"
      BY <1>1 DEF Final, DerivedUpdates
    <2>2. CASE l.op = "Light"
      BY <1>2, <2>1, <2>2 DEF CallsInv, RecallInv, RecallOf, SetCall
    <2>3. CASE l.op = "Cancelled"
      BY <1>2, <2>1, <2>3 DEF CallsInv, CancelInv, CancelOf
    <2> QED  BY <2>2, <2>3 DEF Final
  <1>4. \A l \in ToSet(calls') : l.op \notin Final
    BY <1>1, <1>2, <1>3 DEF SetCall, Final
  <1>5. FinalLast'
    BY PushFinal DEF CallsInv
  <1> QED  BY <1>4, <1>5 DEF CallsInv, RecallInv, CancelInv, Final

LEMMA PressCalls ==
  ASSUME NEW d \in Drawstops, Effect(d, <<>>)
  PROVE  CallsInv' /\ calls' \in Seq(SetterCalls)
  <1>1. <<>> \in Seq(SetterCalls) /\ ToSet(<<>>) = {}
    BY EmptySeq, EmptyToSet
  <1>2. calls' \in Seq(SetterCalls) /\ ToSet(calls') \subseteq DerivedUpdates
    BY <1>1, EffectCalls
  <1>3. \A l \in ToSet(calls') : l.op \notin Final
    BY <1>2 DEF DerivedUpdates, Final
  <1>4. FinalLast'
    BY <1>3 DEF FinalLast, ToSet
  <1> QED  BY <1>2, <1>3, <1>4 DEF CallsInv, RecallInv, CancelInv, Final

\* What begins is a recall, a general cancel, or nothing with an end.
LEMMA StartsCalls ==
  ASSUME Starts
  PROVE  CallsInv'
  <1>1. ASSUME NEW c \in Combination, NEW name \in Names, calls' = Recall(c, name)
        PROVE  CallsInv'
    <2> DEFINE light == LightCall(c, name)
    <2>1. /\ ToSet(calls') = {SetCall(e, c.state[e], name) : e \in Elements} \union {light}
          /\ FinalLast'
      BY <1>1, RecallType DEF FinalLast
    <2>2. \A l \in ToSet(calls') : /\ l.op = "Light" => l = light
                                   /\ l.op # "Cancelled"
      BY <2>1 DEF SetCall, LightCall
    <2>3. light.cmb = c /\ light.name = name
      BY DEF LightCall
    <2>4. \A e \in Inputs : SetCall(e, c.state[e], name) \in ToSet(calls')
      BY <2>1, Order, InputsDerived
    <2> HIDE DEF light
    <2>5. RecallOf(light)'
      BY <2>1, <2>3, <2>4 DEF RecallOf
    <2> QED  BY <2>1, <2>2, <2>5 DEF CallsInv, RecallInv, CancelInv
  <1>2. CASE calls' = CancelCalls
    <2>1. /\ ToSet(calls') = {ResetCall(e) : e \in Elements} \union {Cancelled}
          /\ FinalLast'
      BY <1>2, CancelType DEF FinalLast
    <2>2. \A l \in ToSet(calls') : /\ l.op = "Cancelled" => l = Cancelled
                                   /\ l.op # "Light"
                                   /\ l = Cancelled \/ l.op = "Reset"
      BY <2>1 DEF ResetCall, Cancelled
    <2>3. \A e \in Inputs : ResetCall(e) \in ToSet(calls')
      BY <2>1, Order, InputsDerived
    <2>4. CancelOf(Cancelled)'
      BY <2>2, <2>3 DEF CancelOf
    <2> QED  BY <2>1, <2>2, <2>4 DEF CallsInv, RecallInv, CancelInv
  <1>3. ASSUME \A l \in ToSet(calls') : l.op \notin Final
        PROVE  CallsInv'
    <2>1. FinalLast'
      BY <1>3 DEF FinalLast, ToSet
    <2> QED  BY <1>3, <2>1 DEF CallsInv, RecallInv, CancelInv, Final
  <1>4. CASE calls' = StartCalls
    <2>1. \A l \in ToSet(calls') : l.op \notin Final
      BY <1>4, StartType DEF UpdateCall, Final
    <2> QED  BY <1>3, <2>1
  <1>5. CASE calls' \in Seq(Pushes)
    <2>1. \A l \in ToSet(calls') : l \in Pushes
      BY <1>5, InToSet
    <2>2. \A l \in ToSet(calls') : l.op \notin Final
      BY <2>1 DEF Pushes, Final
    <2> QED  BY <1>3, <2>2
  <1> QED  BY <1>1, <1>2, <1>4, <1>5, NothingToCome DEF Starts

-----------------------------------------------------------------------------
(* The inductive invariant *)

IInv == TypeOK /\ SettledInv /\ CallsInv

LEMMA InitInv == Init => IInv
  <1> SUFFICES ASSUME Init
               PROVE  IInv
    OBVIOUS
  <1>1. calls = StartCalls /\ DrawstopsInit
    BY DEF Init
  <1>2. DrawstopsTypeOK
    BY <1>1 DEF DrawstopsInit, DrawstopsTypeOK
  <1>3. DataOK
    <2>1. stateName \in [Steps -> Names]
      <3>1. override \in [Crescendos -> BOOLEAN]
        BY SetterAssumption DEF Init
      <3>2. \A i \in Steps : StateName(override[i \div NSteps], i \div NSteps) \in Names
        BY CrescendoOf, Bounds DEF StateName
      <3> QED  BY <3>2 DEF Init
    <2>2. 0 \in Frames /\ 0 \in Crescendos /\ 0 \in 0..NSteps - 1 /\ 0 \in 0..MaxEdits
      BY Bounds DEF Frames, Crescendos
    <2> QED  BY <2>1, <2>2, SetterAssumption DEF Init, DataOK
  <1>4. calls \in Seq(SetterCalls) /\ ToSet(calls) = {UpdateCall(e) : e \in Drawstops}
    BY <1>1, StartType, Order
  <1>5. SettledInv
    <2>1. \A d \in Drawstops : UpdateCall(d) \in ToSet(calls)
      BY <1>4
    <2>2. \A d \in Derived : states[d] = {} /\ ~engaged[d]
      BY <1>1, InputsDerived, DrawstopsAssumption DEF DrawstopsInit
    <2>3. \A d \in Inputs : states[d] = {}
      BY <1>1, InputsDerived DEF DrawstopsInit
    <2> QED  BY <2>1, <2>2, <2>3, InputsDerived DEF SettledInv, SettledDerived, SettledInput
  <1>6. CallsInv
    <2>1. \A l \in ToSet(calls) : l.op \notin Final
      BY <1>4 DEF UpdateCall, Final
    <2>2. FinalLast
      BY <2>1 DEF FinalLast, ToSet
    <2> QED  BY <2>1, <2>2 DEF CallsInv, RecallInv, CancelInv, Final
  <1> QED  BY <1>2, <1>3, <1>4, <1>5, <1>6, TypeParts DEF IInv

LEMMA HandleInv ==
  ASSUME IInv, Handle
  PROVE  IInv'
  <1>1. calls \in Seq(SetterCalls) /\ DrawstopsTypeOK /\ DataOK /\ SettledInv /\ CallsInv /\ FinalLast
    BY TypeParts DEF IInv, CallsInv
  <1>2. DataOK'
    BY <1>1 DEF Handle, DataOK, combinationVars, crescendoVars, modifiedVars
  <1>3. ASSUME Set \/ Update \/ Reset
        PROVE  /\ calls # <<>> /\ Tail(calls) \in Seq(SetterCalls) /\ Call.at \in Drawstops
               /\ DrawstopsTypeOK' /\ Effect(Call.at, Tail(calls))
    <2>1. calls # <<>> /\ Call.op \in {"Set", "Update", "Reset"}
      BY <1>3 DEF Set, Update, Reset, Doing
    <2>2. Tail(calls) \in Seq(SetterCalls) /\ Call.at \in Drawstops
      BY <1>1, <2>1, CallType
    <2>3. DrawstopsTypeOK' /\ Effect(Call.at, Tail(calls))
      BY <1>1, <1>3, SetStep, UpdateStep, ResetStep
    <2> QED  BY <2>1, <2>2, <2>3
  <1>4. ASSUME Set \/ Update \/ Reset
        PROVE  calls' \in Seq(SetterCalls) /\ DrawstopsTypeOK'
    BY <1>3, <1>4, EffectCalls
  <1>5. CASE Set
    <2>1. SettledInv' /\ CallsInv'
      BY <1>1, <1>5, SetSettled, SetCalls
    <2> QED  BY <1>2, <1>4, <1>5, <2>1, TypeParts DEF IInv, TypeOK, DataOK
  <1>6. CASE Update
    <2>1. SettledInv' /\ CallsInv'
      BY <1>1, <1>6, UpdateSettled, UpdateKeepsCalls
    <2> QED  BY <1>2, <1>4, <1>6, <2>1, TypeParts DEF IInv, TypeOK, DataOK
  <1>7. CASE Reset
    <2>1. SettledInv' /\ CallsInv'
      BY <1>1, <1>7, ResetSettled, ResetKeepsCalls
    <2> QED  BY <1>2, <1>4, <1>7, <2>1, TypeParts DEF IInv, TypeOK, DataOK
  <1>8. CASE Push
    <2>1. /\ UNCHANGED drawstopVars /\ calls # <<>> /\ Call.op = "Push"
          /\ calls' \in Seq(SetterCalls)
          /\ ToSet(Tail(calls)) \subseteq ToSet(calls')
      BY <1>1, <1>8, PushTheStep
    <2>2. ToSet(calls) = {Call} \union ToSet(Tail(calls))
      BY <1>1, <2>1, CallType
    <2>3. SettledInv'
      <3>1. \A x \in Drawstops : UpdateCall(x) \in ToSet(calls) => UpdateCall(x) \in ToSet(calls')
        BY <2>1, <2>2 DEF UpdateCall
      <3> QED  BY <1>1, <2>1, <3>1, KeptSettled
    <2>4. CallsInv'
      BY <1>1, <1>8, PushKeepsCalls
    <2>5. DrawstopsTypeOK'
      BY <1>1, <2>1 DEF DrawstopsTypeOK, drawstopVars
    <2> QED  BY <1>2, <2>1, <2>3, <2>4, <2>5 DEF IInv, TypeOK, DataOK
  <1>9. CASE Light
    <2>1. calls' = <<>> /\ UNCHANGED drawstopVars /\ calls # <<>> /\ Call.op \in Final
      BY <1>1, <1>9, LightStep
    <2>2. SettledInv'
      <3>1. calls' = Tail(calls)
        BY <1>9 DEF Light
      <3>2. ToSet(calls) = {Call} \union ToSet(Tail(calls))
        BY <1>1, <2>1, CallType
      <3>3. \A x \in Drawstops : UpdateCall(x) \in ToSet(calls) => UpdateCall(x) \in ToSet(calls')
        <4>1. ToSet(calls) = {Call} \union ToSet(calls')
          BY <3>1, <3>2
        <4>2. \A x : Call # UpdateCall(x)
          BY <2>1 DEF UpdateCall, Final
        <4> QED  BY <4>1, <4>2
      <3> QED  BY <1>1, <2>1, <3>3, KeptSettled
    <2>3. CallsInv'
      BY <2>1, NothingToCome
    <2>4. DrawstopsTypeOK' /\ calls' \in Seq(SetterCalls)
      BY <1>1, <2>1, EmptySeq DEF DrawstopsTypeOK, drawstopVars
    <2> QED  BY <1>2, <2>2, <2>3, <2>4 DEF IInv, TypeOK, DataOK
  <1>10. ASSUME NEW d \in Drawstops, Press(d)
         PROVE  IInv'
    <2>1. SettledInv' /\ DrawstopsTypeOK' /\ Effect(d, <<>>)
      BY <1>1, <1>10, PressSettled
    <2>2. CallsInv' /\ calls' \in Seq(SetterCalls)
      BY <2>1, PressCalls
    <2> QED  BY <1>2, <2>1, <2>2 DEF IInv, TypeOK, DataOK
  <1> QED  BY <1>5, <1>6, <1>7, <1>8, <1>9, <1>10 DEF Handle

LEMMA StartsInv ==
  ASSUME IInv, Starts, DataOK'
  PROVE  IInv'
  <1>1. SettledInv'
    <2>1. UNCHANGED drawstopVars /\ calls = <<>>
      BY DEF Starts, AtRest
    <2>2. \A x \in Drawstops : UpdateCall(x) \in ToSet(calls) => UpdateCall(x) \in ToSet(calls')
      BY <2>1, EmptyToSet
    <2> QED  BY <2>1, <2>2, KeptSettled DEF IInv
  <1>2. calls' \in Seq(SetterCalls) /\ DrawstopsTypeOK'
    BY StartsType DEF IInv, TypeOK
  <1>3. CallsInv'
    BY StartsCalls
  <1> QED  BY <1>1, <1>2, <1>3 DEF IInv, TypeOK, DataOK

LEMMA StutterInv ==
  ASSUME IInv, UNCHANGED vars
  PROVE  IInv'
  <1>1. calls' = calls /\ engaged' = engaged /\ states' = states
    BY DEF vars, drawstopVars
  <1>2. SettledInv'
    BY <1>1, KeptSettled DEF IInv, drawstopVars
  <1>3. CallsInv'
    BY <1>1 DEF IInv, CallsInv, FinalLast, RecallInv, RecallOf, CancelInv, CancelOf
  <1>4. TypeOK'
    BY DEF vars, drawstopVars, combinationVars, crescendoVars, modifiedVars, IInv, TypeOK,
           DrawstopsTypeOK
  <1> QED  BY <1>2, <1>3, <1>4 DEF IInv

LEMMA NextInv == IInv /\ [Next]_vars => IInv'
  <1> SUFFICES ASSUME IInv, [Next]_vars
               PROVE  IInv'
    OBVIOUS
  <1>1. CASE Next
    <2>1. Handle \/ (Starts /\ DataOK')
      BY <1>1, OtherStep, TypeParts DEF IInv
    <2> QED  BY <2>1, HandleInv, StartsInv
  <1>2. CASE UNCHANGED vars
    BY <1>2, StutterInv
  <1> QED  BY <1>1, <1>2

\* Whatever is set, stored, loaded and pressed, in any order, every variable keeps its
\* type, and no position leaves its table: the step of a crescendo is looked up in the
\* bank that is selected now, not in the one it was reached in. (GOSetter::Crescendo)
THEOREM SetterTypeOK == Spec => []TypeOK
  <1>1. IInv => TypeOK
    BY DEF IInv
  <1> QED  BY InitInv, NextInv, <1>1, PTL DEF Spec

\* With any number of drawstops and whatever functions they have of each other, unless
\* one depends on itself: once nothing is left to be called, each is engaged exactly
\* if somebody wants it, or if its function says so. (SetResultState, Update)
THEOREM AllSettled == Spec => []DrawstopsSettled
  <1>1. IInv => DrawstopsSettled
    <2> SUFFICES ASSUME IInv, calls = <<>>, NEW d \in Drawstops
                 PROVE  (engaged[d] <=> states[d] # {}) /\ engaged[d] = Value(d)
      BY DEF DrawstopsSettled, AtRest
    <2>1. UpdateCall(d) \notin ToSet(calls)
      BY EmptyToSet
    <2>2. CASE d \in Derived
      BY <2>1, <2>2 DEF IInv, SettledInv, SettledDerived
    <2>3. CASE d \in Inputs
      <3>1. Value(d) = engaged[d]
        BY <2>3 DEF Value, Inputs
      <3>2. engaged[d] <=> states[d] # {}
        BY <2>1, <2>3 DEF IInv, SettledInv, SettledInput
      <3> QED  BY <3>1, <3>2
    <2> QED  BY <2>2, <2>3, InputsDerived
  <1> QED  BY InitInv, NextInv, <1>1, PTL DEF Spec

\* What is left when the end has come
LEMMA EndOfCalls ==
  ASSUME IInv, calls # <<>>, Call.op \in Final
  PROVE  ToSet(calls) = {Call}
  <1>1. calls \in Seq(SetterCalls) /\ FinalLast
    BY DEF IInv, TypeOK, CallsInv
  <1>2. Len(calls) \in Nat \ {0} /\ DOMAIN calls = 1..Len(calls) /\ Call = calls[1]
    BY <1>1, EmptySeq, LenProperties DEF Call
  <1>3. Len(calls) = 1
    BY <1>1, <1>2 DEF FinalLast
  <1> QED  BY <1>2, <1>3 DEF ToSet

\* A recall sets every drawstop that has no function as the combination stored it, for
\* the one who recalls it, whoever else holds it. (GOCombination::Push)
THEOREM RecallsExact == Spec => []RecallExact
  <1>1. IInv => RecallExact
    <2> SUFFICES ASSUME IInv, calls # <<>>, Call.op = "Light", NEW e \in Elements \cap Inputs
                 PROVE  /\ Call.cmb.state[e] = "on" => Call.name \in states[e] /\ engaged[e]
                        /\ Call.cmb.state[e] = "off" =>
                             Call.name \notin states[e] /\ (engaged[e] => states[e] # {})
      BY DEF RecallExact, Doing
    <2>1. ToSet(calls) = {Call}
      BY EndOfCalls DEF Final
    <2>2. RecallOf(Call)
      BY <2>1 DEF IInv, CallsInv, RecallInv
    <2>3. SetCall(e, Call.cmb.state[e], Call.name) \notin ToSet(calls)
      BY <2>1 DEF SetCall
    <2>4. Call.cmb.state[e] = "keep" \/ (Call.name \in states[e] <=> Call.cmb.state[e] = "on")
      BY <2>2, <2>3 DEF RecallOf
    <2>5. UpdateCall(e) \notin ToSet(calls)
      BY <2>1 DEF UpdateCall
    <2>6. engaged[e] <=> states[e] # {}
      BY <2>5 DEF IInv, SettledInv, SettledInput
    <2> QED  BY <2>4, <2>6
  <1> QED  BY InitInv, NextInv, <1>1, PTL DEF Spec

\* After general cancel only drawstops that are exempt from it are still engaged, even
\* if a crescendo held the others. (GOOrganController::Reset)
THEOREM CancelsAll == Spec => []CancelClears
  <1>1. IInv => CancelClears
    <2> SUFFICES ASSUME IInv, calls # <<>>, Call.op = "Cancelled", NEW e \in Elements \cap Inputs,
                        GCState[e] = 0
                 PROVE  ~engaged[e]
      BY DEF CancelClears, Doing
    <2>1. ToSet(calls) = {Call}
      BY EndOfCalls DEF Final
    <2>2. CancelOf(Call)
      BY <2>1 DEF IInv, CallsInv, CancelInv
    <2>3. ResetCall(e) \notin ToSet(calls)
      BY <2>1 DEF ResetCall
    <2> QED  BY <2>2, <2>3 DEF CancelOf
  <1> QED  BY InitInv, NextInv, <1>1, PTL DEF Spec

-----------------------------------------------------------------------------
(* The combination file *)

\* What FromYaml() makes of a present entry, and what ToYaml() makes of a combination
LEMMA FromYamlState ==
  ASSUME NEW y, y.present
  PROVE  /\ FromYaml(y).state \in [Elements -> {"on", "off", "keep"}]
         /\ FromYaml(y).full = y.full /\ FromYaml(y).scope = y.scope
         /\ \A e \in Elements :
              /\ FromYaml(y).state[e] = "on" <=> e \in y.on
              /\ FromYaml(y).state[e] = "off" <=>
                   e \notin y.on /\ (IF y.scope THEN e \in y.inScope ELSE e \in Always \/ y.full)
  <1> DEFINE back(e) == IF e \in y.on THEN "on"
                        ELSE IF IF y.scope THEN e \in y.inScope ELSE e \in Always \/ y.full THEN "off"
                        ELSE "keep"
  <1>1. /\ FromYaml(y).state = [e \in Elements |-> back(e)]
        /\ FromYaml(y).full = y.full /\ FromYaml(y).scope = y.scope
    BY DEF FromYaml
  <1>2. \A e \in Elements : /\ back(e) \in {"on", "off", "keep"}
                            /\ back(e) = "on" <=> e \in y.on
                            /\ back(e) = "off" <=>
                                 e \notin y.on /\ (IF y.scope THEN e \in y.inScope ELSE e \in Always \/ y.full)
    OBVIOUS
  <1> HIDE DEF back
  <1> QED  BY <1>1, <1>2

LEMMA ToYamlEntry ==
  ASSUME NEW c \in Combination, ~IsEmpty(c)
  PROVE  /\ ToYaml(c).present /\ ToYaml(c).full = c.full /\ ToYaml(c).scope = c.scope
         /\ ToYaml(c).on = {e \in Elements : c.state[e] = "on"}
         /\ c.scope => ToYaml(c).inScope = {e \in Elements : c.state[e] # "keep"}
  BY DEF ToYaml

\* An empty combination is not in the file, and what is not in the file becomes empty.
LEMMA EmptyRoundTrip ==
  ASSUME NEW c \in Combination, IsEmpty(c)
  PROVE  FromYaml(ToYaml(c)) = NoCombination /\ NoCombination.state = c.state
  <1>1. c.state \in [Elements -> {"on", "off", "keep"}]
    BY DEF Combination
  <1>2. FromYaml(ToYaml(c)) = NoCombination
    BY DEF ToYaml, FromYaml
  <1>3. NoCombination.state = c.state
    BY <1>1 DEF IsEmpty, NoCombination
  <1> QED  BY <1>2, <1>3

\* Comes back as it was
RoundTrips(c) == FromYaml(ToYaml(c)).state = c.state

\* A combination comes back if its drawstops that are off are those which FromYaml()
\* switches off.
LEMMA WhatRoundTrips ==
  ASSUME NEW c \in Combination,
         c.scope \/ IsEmpty(c) \/
           \A e \in Elements : c.state[e] = "off" <=> c.state[e] # "on" /\ (e \in Always \/ c.full)
  PROVE  RoundTrips(c)
  <1>1. c.state \in [Elements -> {"on", "off", "keep"}] /\ c.full \in BOOLEAN /\ c.scope \in BOOLEAN
    BY DEF Combination
  <1>2. CASE IsEmpty(c)
    BY <1>2, EmptyRoundTrip DEF RoundTrips
  <1>3. CASE ~IsEmpty(c)
    <2> DEFINE y == ToYaml(c)
    <2>1. /\ y.present /\ y.full = c.full /\ y.scope = c.scope
          /\ y.on = {e \in Elements : c.state[e] = "on"}
          /\ c.scope => y.inScope = {e \in Elements : c.state[e] # "keep"}
      BY <1>3, ToYamlEntry
    <2> HIDE DEF y
    <2>2. /\ FromYaml(y).state \in [Elements -> {"on", "off", "keep"}]
          /\ \A e \in Elements :
               /\ FromYaml(y).state[e] = "on" <=> e \in y.on
               /\ FromYaml(y).state[e] = "off" <=>
                    e \notin y.on /\ (IF y.scope THEN e \in y.inScope ELSE e \in Always \/ y.full)
      BY <2>1, FromYamlState
    <2> DEFINE back == FromYaml(y).state
    <2> HIDE DEF back
    <2>3. ASSUME NEW e \in Elements
          PROVE  back[e] = c.state[e]
      <3>1. back[e] \in {"on", "off", "keep"} /\ c.state[e] \in {"on", "off", "keep"}
        BY <1>1, <2>2 DEF back
      <3>2. back[e] = "on" <=> c.state[e] = "on"
        BY <2>1, <2>2 DEF back
      <3>3. back[e] = "off" <=> c.state[e] = "off"
        <4>1. CASE c.scope
          BY <2>1, <2>2, <3>1, <4>1 DEF back
        <4>2. CASE ~c.scope
          BY <1>3, <2>1, <2>2, <3>1, <4>2 DEF back
        <4> QED  BY <4>1, <4>2
      <3> QED  BY <3>1, <3>2, <3>3
    <2>4. back = c.state
      BY <1>1, <2>2, <2>3 DEF back
    <2> QED  BY <2>4 DEF back, y, RoundTrips
  <1> QED  BY <1>2, <1>3

LEMMA WellStoredReturns ==
  ASSUME NEW c \in Combination, WellStored(c)
  PROVE  RoundTrips(c)
  <1>1. c.state \in [Elements -> {"on", "off", "keep"}]
    BY DEF Combination
  <1>2. c.scope \/ IsEmpty(c) \/
          \A e \in Elements : c.state[e] = "off" <=> c.state[e] # "on" /\ (e \in Always \/ c.full)
    BY <1>1 DEF WellStored
  <1> QED  BY <1>2, WhatRoundTrips

\* What has been read from a file comes back from the next one, whoever wrote the first.
LEMMA LoadedReturns ==
  ASSUME NEW y \in CmbInFile
  PROVE  RoundTrips(FromYaml(y))
  <1>1. FromYaml(y) \in Combination
    BY FromYamlType
  <1>2. CASE ~y.present
    <2>1. FromYaml(y) = NoCombination
      BY <1>2 DEF FromYaml
    <2>2. IsEmpty(NoCombination)
      BY DEF IsEmpty, NoCombination
    <2> QED  BY <1>1, <2>1, <2>2, WhatRoundTrips
  <1>3. CASE y.present
    <2> DEFINE c == FromYaml(y)
    <2>1. /\ c.scope = y.scope /\ c.full = y.full
          /\ \A e \in Elements :
               /\ c.state[e] = "on" <=> e \in y.on
               /\ c.state[e] = "off" <=>
                    e \notin y.on /\ (IF y.scope THEN e \in y.inScope ELSE e \in Always \/ y.full)
      BY <1>3, FromYamlState
    <2> HIDE DEF c
    <2>2. c.scope \/ \A e \in Elements :
            c.state[e] = "off" <=> c.state[e] # "on" /\ (e \in Always \/ c.full)
      BY <2>1
    <2>3. c \in Combination
      BY <1>1 DEF c
    <2>4. RoundTrips(c)
      BY <2>2, <2>3, WhatRoundTrips
    <2> QED  BY <2>4 DEF c
  <1> QED  BY <1>2, <1>3

\* What is on comes back, and nothing else, however the combination came about.
LEMMA OnReturns ==
  ASSUME NEW c \in Combination, NEW e \in Elements
  PROVE  FromYaml(ToYaml(c)).state[e] = "on" <=> c.state[e] = "on"
  <1>1. CASE IsEmpty(c)
    BY <1>1, EmptyRoundTrip
  <1>2. CASE ~IsEmpty(c)
    <2> DEFINE y == ToYaml(c)
    <2>1. y.present /\ y.on = {x \in Elements : c.state[x] = "on"}
      BY <1>2, ToYamlEntry
    <2> HIDE DEF y
    <2>2. FromYaml(y).state[e] = "on" <=> e \in y.on
      BY <2>1, FromYamlState
    <2> QED  BY <2>1, <2>2 DEF y
  <1> QED  BY <1>1, <1>2

\* What Push() stores comes back if what was there before does: Scoped keeps its scope.
LEMMA FillReturns ==
  ASSUME NEW c \in Combination, NEW type \in SetterTypes, NEW invisible \in BOOLEAN, NEW on
  PROVE  RoundTrips(FillWithCurrent(c, type, invisible, on))
  <1> DEFINE f == FillWithCurrent(c, type, invisible, on)
  <1>1. f \in Combination
    BY FillType
  <1>2. CASE type # "regular"
    <2>1. f.scope
      BY <1>2 DEF FillWithCurrent
    <2> HIDE DEF f
    <2>2. RoundTrips(f)
      BY <1>1, <2>1, WhatRoundTrips
    <2> QED  BY <2>2 DEF f
  <1>3. CASE type = "regular"
    <2>1. f.full = invisible
      BY DEF FillWithCurrent
    <2>2. ASSUME NEW e \in Elements
          PROVE  f.state[e] = "off" <=> f.state[e] # "on" /\ (e \in Always \/ invisible)
      <3>1. f.state[e] = IF invisible \/ e \in Always
                           THEN IF e \in on THEN "on" ELSE "off" ELSE "keep"
        BY <1>3 DEF FillWithCurrent
      <3> HIDE DEF f
      <3> QED  BY <3>1
    <2> HIDE DEF f
    <2>3. RoundTrips(f)
      BY <1>1, <2>1, <2>2, WhatRoundTrips
    <2> QED  BY <2>3 DEF f
  <1> QED  BY <1>2, <1>3

\* A general is what the organ was loaded with, or has been stored or loaded since. Of
\* frames this is not true: Copy() leaves IsFull and HasScope behind.
StoredInv == \A g \in Generals : general[g] = InitGeneral[g] \/ RoundTrips(general[g])

LEMMA WhoStores ==
  ASSUME Next
  PROVE  \/ UNCHANGED general
         \/ \E g \in Generals : PushBankedGeneral(g)
         \/ \E byButton \in BOOLEAN : LoadCombination(byButton)
  <1>1. Handle => UNCHANGED general
    BY DEF Handle, combinationVars
  <1>2. ASSUME NEW p \in Frames, GotoFrame(p) \/ PrepareFrame(p)
        PROVE  UNCHANGED general
    BY <1>2 DEF GotoFrame, PrepareFrame, combinationVars
  <1>3. Insert \/ Delete => UNCHANGED general
    BY DEF Insert, Delete
  <1>4. ASSUME NEW p \in 0..NSteps - 1, MoveCrescendo(p) \/ StoreStep(p)
        PROVE  UNCHANGED general
    BY <1>4 DEF MoveCrescendo, StoreStep, combinationVars
  <1>5. ASSUME NEW b \in Crescendos, SelectCrescendo(b)
        PROVE  UNCHANGED general
    BY <1>5 DEF SelectCrescendo, combinationVars
  <1>6. PushStep \/ PressOverride \/ ExportCombination \/ SaveSettings \/ PressSet \/ GeneralCancel \/ StartPlayback
          => UNCHANGED general
    BY DEF PushStep, PressOverride, ExportCombination, SaveSettings, PressSet, GeneralCancel, StartPlayback, combinationVars
  <1> QED  BY <1>1, <1>2, <1>3, <1>4, <1>5, <1>6 DEF Next

LEMMA StoredInit == Init => StoredInv
  BY DEF Init, StoredInv

LEMMA StoredNext == IInv /\ StoredInv /\ [Next]_vars => StoredInv'
  <1> SUFFICES ASSUME IInv, StoredInv, [Next]_vars
               PROVE  StoredInv'
    OBVIOUS
  <1>1. DataOK
    BY TypeParts DEF IInv
  <1>2. CASE UNCHANGED general
    BY <1>2 DEF StoredInv
  <1>3. ASSUME NEW g \in Generals, PushBankedGeneral(g)
        PROVE  StoredInv'
    <2>1. PICK new \in AfterPush(general[g], g \in ProtectedGenerals) :
            general' = [general EXCEPT ![g] = new]
      BY <1>3 DEF PushBankedGeneral
    <2>2. general[g] \in Combination
      BY <1>1 DEF DataOK
    <2>3. new = general[g] \/ RoundTrips(new)
      BY <2>1, <2>2, AfterPushType, FillReturns
    <2>4. \A h \in Generals : general'[h] = IF h = g THEN new ELSE general[h]
      BY <1>1, <2>1 DEF DataOK
    <2> QED  BY <2>3, <2>4 DEF StoredInv
  <1>4. ASSUME NEW byButton \in BOOLEAN, LoadCombination(byButton)
        PROVE  StoredInv'
    <2>1. /\ file # <<>>
          /\ general' = [g \in Generals |->
                           Loaded(general[g], file.general[g], g \in ProtectedGenerals)]
      BY <1>4 DEF LoadCombination
    <2>2. file.general \in [Generals -> CmbInFile]
      BY <1>1, <2>1 DEF DataOK, Files
    <2>3. \A g \in Generals : RoundTrips(FromYaml(file.general[g]))
      BY <2>2, LoadedReturns
    <2> QED  BY <2>1, <2>3 DEF StoredInv, Loaded
  <1>5. CASE UNCHANGED vars
    BY <1>2, <1>5 DEF vars, combinationVars
  <1> QED  BY <1>2, <1>3, <1>4, <1>5, WhoStores

\* Every general that was stored or loaded comes back from a combination file as it was,
\* however often it went through one: what FromYaml() does not find mentioned it makes
\* what Push() had left or switched off. Of every other one the drawstops that are on
\* come back. (GOCombination::ToYaml, FromYaml)
THEOREM GeneralsSurvive == Spec => []GeneralsRoundTrip
  <1>1. IInv /\ StoredInv => GeneralsRoundTrip
    <2> SUFFICES ASSUME IInv, StoredInv, NEW g \in Generals
                 PROVE  LET back == FromYaml(ToYaml(general[g])).state
                        IN  /\ general[g] # InitGeneral[g] \/ WellStored(InitGeneral[g])
                                 => back = general[g].state
                            /\ \A e \in Elements : back[e] = "on" <=> general[g].state[e] = "on"
      BY DEF GeneralsRoundTrip
    <2>1. general[g] \in Combination
      BY DEF IInv, TypeOK
    <2>2. general[g] # InitGeneral[g] => RoundTrips(general[g])
      BY DEF StoredInv
    <2>3. WellStored(InitGeneral[g]) /\ general[g] = InitGeneral[g] => RoundTrips(general[g])
      BY <2>1, WellStoredReturns
    <2> QED  BY <2>1, <2>2, <2>3, OnReturns DEF RoundTrips
  <1> QED  BY InitInv, NextInv, StoredInit, StoredNext, <1>1, PTL DEF Spec
===============================================================================
