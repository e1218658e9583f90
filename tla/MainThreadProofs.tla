-------------------------- MODULE MainThreadProofs --------------------------
(***************************************************************************)
(* The two components that live on the main thread: the keys with their    *)
(* couplers and stops (Couplers.tla), and the MIDI player with its timers  *)
(* (MidiPlayer.tla).  They share no state.                                 *)
(*                                                                         *)
(* KEYS.  A handler only calls handlers that are as near to the pipes or   *)
(* nearer (Depth), so what lies farther from the pipes than the next call  *)
(* has nothing pending before it.  Two invariants rest on this.            *)
(*   - Every pipe and every stop has what the keys ask of it, or the call  *)
(*     that will say so is pending (StopsInv, DivisionInv); the count of   *)
(*     the unison-off couplers is exact but for the next call, until a     *)
(*     "Couple Through" button makes one be counted again (UnisonInv).     *)
(*   - Every coupler has taken what it may follow and said what it has, or *)
(*     the call that will make it so is pending (TakenInv, OutInv, SaidInv,*)
(*     OwnInv, TonesInv).  A bass or melody coupler gives up its old tone, *)
(*     which runs other couplers, before it takes the new one.  Meanwhile  *)
(*     it is not called itself if it is in no circle of engaged couplers   *)
(*     (WindowInv, NoBassCircle).                                          *)
(* Preparing the playback resets the couplers but not their tones.  By     *)
(* then the player has released all keys, and since each coupler takes one *)
(* level of a key, no circle holds one any more (AllReleased).             *)
(*                                                                         *)
(* PLAYER.  No event of a file is played before its time, for every file,  *)
(* every clock and every choice of the user: m_Start, which holds a moment *)
(* while the file plays and a duration while it pauses, always measures    *)
(* the time played so far, and no timer that the file has set before a     *)
(* pause calls HandleTimer() during it.  A playing file has exactly one    *)
(* timer and the running metronome has one, although Notify() frees the    *)
(* entry it is at only after the handler has returned: the handler's       *)
(* SetTimer() takes another place meanwhile.  And the wxTimer always fires *)
(* for the earliest of the entries.                                        *)
(***************************************************************************)
EXTENDS MidiPlayer, Couplers, SequencesExt, SequenceTheorems, FiniteSetTheorems,
        WellFoundedInduction, TLAPS

\* What is still to be called, without its order.
Pending == ToSet(calls)
ToCome  == ToSet(Tail(calls))

\* How far a handler is from the pipes: it only calls handlers that are as near
\* or nearer.  So what lies deeper has returned when a handler is called.
Depth(x) ==
  IF x.op = "RankKey" THEN 0
  ELSE IF x.op = "Ranks" THEN 1
  ELSE IF x.op = "StopKey" THEN 2
  ELSE IF x.op \in {"Key", "Division", "SetKey", "SetOut", "Tone", "Last"} THEN 3
  ELSE IF x.op \in {"Note", "Emit", "Refresh", "Unison"} THEN 4
  ELSE IF x.op \in {"AllOff", "Through"} THEN 5
  ELSE 6

\* A coupler's output and the key it presses are called at once.
AtOnce == {"Key", "SetOut"}

Ordered(q) ==
  /\ \A i, j \in DOMAIN q : i < j => Depth(q[i]) <= Depth(q[j])
  /\ \A i \in DOMAIN q : i > 1 => q[i].op \notin AtOnce
  /\ \A i \in DOMAIN q : q[i].op = "Prepare" => i = Len(q)

\* The keys of a call are keys of the manual it is about.
CallInRange(x) ==
  /\ x.op \in {"Note", "Key", "Division"} => x.key \in KeysOf(x.at)
  /\ x.op = "Key" => x.slot \in Slots(x.at)
  /\ x.op \in {"SetKey", "Tone", "Last"} => x.key \in KeysOf(Source(x.at))
  /\ x.op = "Tone" => x.next \in KeysOf(Source(x.at)) \union {-1}
  /\ x.op \in {"Emit", "Refresh"} => x.key \in KeysOf(Dest[x.at])

\* Every array has an entry for every manual, coupler, stop and rank.
Arrays ==
  /\ DOMAIN midiKey = Manuals /\ DOMAIN bySlot = Manuals /\ DOMAIN division = Manuals
  /\ DOMAIN input = Couplers
  /\ DOMAIN internal = KeyCouplers /\ DOMAIN out = KeyCouplers
  /\ DOMAIN tone = KeyCouplers /\ DOMAIN last = KeyCouplers
  /\ DOMAIN stopKey = Stops /\ DOMAIN asked = Ranks /\ DOMAIN pipe = Ranks

CallsInv == calls \in Seq(KeyCalls) /\ Ordered(calls) /\ \A x \in Pending : CallInRange(x)

TypeInv == KeysTypeOK /\ Arrays /\ CallsInv

-----------------------------------------------------------------------------
(* Sequences of calls *)

LEMMA EmptyToSet == ToSet(<<>>) = {}
  BY DEF ToSet

\* The calls a handler makes take the place of the call of it.
LEMMA Replaced ==
  ASSUME NEW S, NEW q \in Seq(S), q # <<>>, NEW new \in Seq(S)
  PROVE  LET r == new \o Tail(q)
         IN  /\ r \in Seq(S) /\ Len(r) = Len(new) + Len(q) - 1
             /\ \A i \in DOMAIN r :
                  \/ i \in DOMAIN new /\ r[i] = new[i]
                  \/ /\ i > Len(new) /\ i - Len(new) + 1 \in 2..Len(q)
                     /\ r[i] = q[i - Len(new) + 1]
             /\ \A i \in DOMAIN new : i \in DOMAIN r /\ r[i] = new[i]
             /\ ToSet(r) = ToSet(new) \union ToSet(Tail(q))
             /\ ToSet(q) = {Head(q)} \union ToSet(Tail(q))
  <1> DEFINE t == Tail(q)
             r == new \o t
  <1>1. /\ t \in Seq(S) /\ Len(t) = Len(q) - 1
        /\ \A j \in 1..Len(t) : t[j] = q[j + 1]
    BY HeadTailProperties
  <1>2. /\ r \in Seq(S) /\ Len(r) = Len(new) + Len(t)
        /\ \A j \in 1..Len(new) + Len(t) : r[j] = IF j <= Len(new) THEN new[j] ELSE t[j - Len(new)]
    BY <1>1, ConcatProperties
  <1>3. /\ Len(q) \in Nat \ {0} /\ DOMAIN q = 1..Len(q) /\ Len(new) \in Nat
        /\ DOMAIN new = 1..Len(new) /\ DOMAIN r = 1..Len(r) /\ DOMAIN t = 1..Len(t)
        /\ Len(t) \in Nat
    BY <1>1, <1>2, EmptySeq, LenProperties
  <1>4. Head(q) = q[1]
    OBVIOUS
  <1> HIDE DEF r, t
  <1>5. ASSUME NEW i \in DOMAIN r
        PROVE  \/ i \in DOMAIN new /\ r[i] = new[i]
               \/ i > Len(new) /\ i - Len(new) \in DOMAIN t /\ r[i] = t[i - Len(new)]
    BY <1>2, <1>3
  <1>6. ASSUME NEW i \in DOMAIN t
        PROVE  i + 1 \in 2..Len(q) /\ t[i] = q[i + 1]
    BY <1>1, <1>3
  <1>7. ASSUME NEW i \in DOMAIN r
        PROVE  \/ i \in DOMAIN new /\ r[i] = new[i]
               \/ /\ i > Len(new) /\ i - Len(new) + 1 \in 2..Len(q)
                  /\ r[i] = q[i - Len(new) + 1]
    BY <1>5, <1>6
  <1>8. \A i \in DOMAIN new : i \in DOMAIN r /\ r[i] = new[i]
    BY <1>2, <1>3
  <1>9. \A i \in DOMAIN t : i + Len(new) \in DOMAIN r /\ r[i + Len(new)] = t[i]
    <2> SUFFICES ASSUME NEW i \in DOMAIN t
                 PROVE  i + Len(new) \in DOMAIN r /\ r[i + Len(new)] = t[i]
      OBVIOUS
    <2>1. i + Len(new) \in 1..Len(new) + Len(t) /\ ~(i + Len(new) <= Len(new))
      BY <1>3
    <2>2. (i + Len(new)) - Len(new) = i
      BY <1>3
    <2> QED  BY <1>2, <1>3, <2>1, <2>2
  <1>10. ToSet(r) = ToSet(new) \union ToSet(t)
    BY <1>5, <1>8, <1>9 DEF ToSet
  <1>11. ASSUME NEW i \in DOMAIN q
         PROVE  q[i] = Head(q) \/ q[i] \in ToSet(t)
    <2>1. CASE i = 1
      BY <2>1, <1>4
    <2>2. CASE i # 1
      <3>1. i - 1 \in DOMAIN t /\ t[i - 1] = q[i]
        BY <1>1, <1>3, <2>2
      <3> QED  BY <3>1 DEF ToSet
    <2> QED  BY <2>1, <2>2
  <1>12. ToSet(t) \subseteq ToSet(q)
    <2>1. ASSUME NEW i \in DOMAIN t PROVE i + 1 \in DOMAIN q /\ t[i] = q[i + 1]
      BY <1>3, <1>6
    <2> QED  BY <2>1 DEF ToSet
  <1>13. Head(q) \in ToSet(q)
    BY <1>3, <1>4 DEF ToSet
  <1>14. ToSet(q) = {Head(q)} \union ToSet(t)
    BY <1>11, <1>12, <1>13 DEF ToSet
  <1> QED  BY <1>1, <1>2, <1>3, <1>7, <1>8, <1>10, <1>14 DEF r, t

\* The calls of a handler lie equally deep and not less deep than the handler.
NewCalls(new) ==
  /\ new \in Seq(KeyCalls)
  /\ \E n \in 0..5 : n <= Depth(Call) /\ \A i \in DOMAIN new : Depth(new[i]) = n
  /\ \A i \in DOMAIN new : CallInRange(new[i]) /\ (i > 1 => new[i].op \notin AtOnce)

LEMMA DepthType ==
  /\ \A x : Depth(x) \in 0..6
  /\ \A x : x.op = "Prepare" => Depth(x) = 6
  BY DEF Depth

LEMMA CallsKept ==
  ASSUME CallsInv, calls # <<>>, NEW new, NewCalls(new), Continue(new)
  PROVE  /\ CallsInv'
         /\ Pending = {Call} \union ToCome
         /\ Pending' = ToSet(new) \union ToCome
  <1> DEFINE q == calls
             r == new \o Tail(q)
  <1>1. q \in Seq(KeyCalls) /\ new \in Seq(KeyCalls) /\ calls' = r /\ Call = q[1]
    BY DEF CallsInv, NewCalls, Continue, Call
  <1>2. /\ r \in Seq(KeyCalls) /\ Len(r) = Len(new) + Len(q) - 1
        /\ \A i \in DOMAIN r :
             \/ i \in DOMAIN new /\ r[i] = new[i]
             \/ /\ i > Len(new) /\ i - Len(new) + 1 \in 2..Len(q)
                /\ r[i] = q[i - Len(new) + 1]
        /\ ToSet(r) = ToSet(new) \union ToSet(Tail(q))
        /\ ToSet(q) = {Head(q)} \union ToSet(Tail(q))
    BY <1>1, Replaced
  <1>3. /\ Len(q) \in Nat \ {0} /\ DOMAIN q = 1..Len(q) /\ Len(new) \in Nat
        /\ DOMAIN new = 1..Len(new) /\ DOMAIN r = 1..Len(r) /\ Len(r) \in Nat
    BY <1>1, <1>2, EmptySeq, LenProperties
  <1>4. Ordered(q) /\ \A x \in ToSet(q) : CallInRange(x)
    BY DEF CallsInv, Pending
  <1>5. PICK n \in 0..5 : n <= Depth(q[1]) /\ \A i \in DOMAIN new : Depth(new[i]) = n
    BY <1>1 DEF NewCalls
  <1>6. \A i \in DOMAIN new : CallInRange(new[i]) /\ (i > 1 => new[i].op \notin AtOnce)
    BY DEF NewCalls
  <1> HIDE DEF r, q
  <1>7. ASSUME NEW i \in DOMAIN q PROVE Depth(q[1]) <= Depth(q[i])
    <2>1. CASE i = 1
      BY <2>1, DepthType
    <2>2. CASE i # 1
      BY <1>3, <1>4, <2>2 DEF Ordered
    <2> QED  BY <2>1, <2>2
  <1>8. ASSUME NEW i \in DOMAIN r, NEW j \in DOMAIN r, i < j
        PROVE  Depth(r[i]) <= Depth(r[j])
    <2> DEFINE a == i - Len(new) + 1
               b == j - Len(new) + 1
    <2>0. i \in Nat /\ j \in Nat
      <3>1. i \in 1..Len(r) /\ j \in 1..Len(r)
        BY <1>3
      <3> QED  BY <3>1
    <2>1. CASE i \in DOMAIN new /\ r[i] = new[i] /\ j \in DOMAIN new /\ r[j] = new[j]
      BY <1>5, <2>1
    <2>2. CASE i \in DOMAIN new /\ r[i] = new[i] /\ b \in 2..Len(q) /\ r[j] = q[b]
      <3>1. n <= Depth(q[1]) /\ Depth(q[1]) <= Depth(q[b]) /\ Depth(r[i]) = n
        BY <1>3, <1>5, <1>7, <2>2
      <3> QED  BY <3>1, <2>2, DepthType
    <2>3. CASE i > Len(new) /\ a \in 2..Len(q) /\ r[i] = q[a] /\ j > Len(new) /\ b \in 2..Len(q) /\ r[j] = q[b]
      <3>1. a \in DOMAIN q /\ b \in DOMAIN q /\ a < b
        BY <1>3, <1>8, <2>0, <2>3
      <3> QED  BY <1>4, <2>3, <3>1 DEF Ordered
    <2>4. ~(i > Len(new) /\ j \in DOMAIN new)
      BY <1>3, <1>8, <2>0
    <2> HIDE DEF a, b
    <2>5. \/ i \in DOMAIN new /\ r[i] = new[i]
          \/ i > Len(new) /\ a \in 2..Len(q) /\ r[i] = q[a]
      BY <1>2 DEF a
    <2>6. \/ j \in DOMAIN new /\ r[j] = new[j]
          \/ j > Len(new) /\ b \in 2..Len(q) /\ r[j] = q[b]
      BY <1>2 DEF b
    <2> QED  BY <2>1, <2>2, <2>3, <2>4, <2>5, <2>6
  <1>9. ASSUME NEW i \in DOMAIN r
        PROVE  /\ i > 1 => r[i].op \notin AtOnce
               /\ r[i].op = "Prepare" => i = Len(r)
    <2> DEFINE a == i - Len(new) + 1
    <2>1. CASE i \in DOMAIN new /\ r[i] = new[i]
      <3>1. Depth(r[i]) # 6
        BY <1>5, <2>1
      <3> QED  BY <1>6, <2>1, <3>1, DepthType
    <2>2. CASE a \in 2..Len(q) /\ r[i] = q[a]
      <3>1. a \in DOMAIN q /\ a > 1
        BY <1>3, <2>2
      <3>2. q[a].op \notin AtOnce /\ (q[a].op = "Prepare" => a = Len(q))
        BY <1>4, <3>1 DEF Ordered
      <3>3. a = Len(q) => i = Len(r)
        BY <1>2, <1>3
      <3> QED  BY <2>2, <3>2, <3>3
    <2> QED  BY <1>2, <2>1, <2>2
  <1>10. Ordered(r)
    BY <1>8, <1>9 DEF Ordered
  <1>11. \A x \in ToSet(r) : CallInRange(x)
    BY <1>2, <1>4, <1>6 DEF ToSet
  <1> QED  BY <1>1, <1>2, <1>10, <1>11 DEF CallsInv, Pending, ToCome, q, Call

\* What the order says of the call that is made next.
LEMMA FirstCall ==
  ASSUME CallsInv, calls # <<>>
  PROVE  /\ Call \in KeyCalls /\ Call \in Pending /\ CallInRange(Call)
         /\ Pending = {Call} \union ToCome /\ ToCome \subseteq KeyCalls
         /\ \A x \in Pending : Depth(Call) <= Depth(x)
         /\ \A x \in ToCome : x.op \notin AtOnce
         /\ Call.op = "Prepare" => Tail(calls) = <<>> /\ ToCome = {}
  <1>1. calls \in Seq(KeyCalls) /\ Ordered(calls) /\ \A x \in ToSet(calls) : CallInRange(x)
    BY DEF CallsInv, Pending
  <1>2. /\ Len(calls) \in Nat \ {0} /\ DOMAIN calls = 1..Len(calls) /\ Call = calls[1]
        /\ Tail(calls) \in Seq(KeyCalls) /\ Len(Tail(calls)) = Len(calls) - 1
        /\ DOMAIN Tail(calls) = 1..Len(calls) - 1
        /\ \A i \in 1..Len(Tail(calls)) : Tail(calls)[i] = calls[i + 1]
    BY <1>1, HeadTailProperties, EmptySeq, LenProperties DEF Call
  <1>3. Pending = {Call} \union ToCome
    <2>1. <<>> \in Seq(KeyCalls)
      OBVIOUS
    <2> QED  BY <1>1, <2>1, Replaced DEF Pending, ToCome, Call
  <1>4. ASSUME NEW i \in DOMAIN calls PROVE Depth(Call) <= Depth(calls[i])
    <2>1. CASE i = 1
      BY <2>1, <1>2, DepthType
    <2>2. CASE i # 1
      BY <1>1, <1>2, <2>2 DEF Ordered
    <2> QED  BY <2>1, <2>2
  <1>5. ASSUME NEW i \in DOMAIN Tail(calls)
        PROVE  Tail(calls)[i] \in KeyCalls /\ Tail(calls)[i].op \notin AtOnce
    <2>1. i + 1 \in DOMAIN calls /\ i + 1 > 1 /\ Tail(calls)[i] = calls[i + 1]
      BY <1>2
    <2> QED  BY <1>1, <2>1 DEF Ordered
  <1>6. Call \in KeyCalls
    BY <1>1, <1>2
  <1>7. ASSUME Call.op = "Prepare" PROVE Tail(calls) = <<>>
    <2>1. 1 = Len(calls)
      BY <1>1, <1>2, <1>7 DEF Ordered
    <2> DEFINE t == Tail(calls)
    <2>2. t \in Seq(KeyCalls) /\ Len(t) = Len(calls) - 1
      BY <1>2
    <2> HIDE DEF t
    <2>3. Len(t) = 0
      BY <2>1, <2>2
    <2>4. t = <<>>
      BY <2>2, <2>3, EmptySeq
    <2> QED  BY <2>4 DEF t
  <1>8. CallInRange(Call)
    BY <1>1, <1>3 DEF Pending
  <1> QED  BY <1>3, <1>4, <1>5, <1>6, <1>7, <1>8, EmptyToSet DEF Pending, ToCome, ToSet

-----------------------------------------------------------------------------
(* Calls, levels and keys *)

LEMMA CallType ==
  ASSUME NEW x \in KeyCalls
  PROVE  /\ x.op = "StopKey" => x.at \in Stops /\ x.key \in Nat /\ x.vel \in PipeLevels
         /\ x.op = "Ranks" => x.at \in Stops /\ x.key \in Nat /\ x.vel \in PipeLevels
         /\ x.op = "RankKey" =>
              /\ x.key \in Nat /\ x.vel \in PipeLevels
              /\ \E s \in Stops : \E i \in DOMAIN RankInfo[s] : x.at = <<s, i>>
         /\ x.op = "Note" => x.at \in Manuals /\ x.key \in Nat /\ x.vel \in PipeLevels
         /\ x.op = "Key" => x.at \in Manuals /\ x.key \in Nat /\ x.vel \in Levels
         /\ x.op = "Division" => x.at \in Manuals /\ x.key \in Nat
         /\ x.op = "SetKey" => x.at \in Couplers /\ x.key \in Nat
         /\ x.op = "SetOut" => x.at \in KeyCouplers /\ x.key \in Int /\ x.vel \in Levels
         /\ x.op = "Tone" => /\ x.at \in KeyCouplers /\ x.key \in Nat /\ x.vel \in Levels
                             /\ x.next \in Int /\ x.cancelled \in BOOLEAN
         /\ x.op = "Last" => /\ x.at \in KeyCouplers /\ x.key \in Nat /\ x.vel \in Levels
                             /\ x.next \in Int
         /\ x.op = "Emit" => x.at \in KeyCouplers /\ x.key \in Nat /\ x.on \in BOOLEAN
         /\ x.op = "Through" => x.at \in Couplers /\ x.on \in BOOLEAN
         /\ x.op = "Refresh" => x.at \in KeyCouplers /\ x.key \in Nat
         /\ x.op = "Unison" => x.at \in Manuals /\ x.on \in BOOLEAN
         /\ x.op = "AllOff" => x.at \in Manuals
  <1> USE DEF KeyCalls, StopCalls, PrepareCall
  <1>1. (x.op = "StopKey" \/ x.op = "Ranks") => x.at \in Stops /\ x.key \in Nat /\ x.vel \in PipeLevels
    OBVIOUS
  <1>2. x.op = "RankKey" =>
          /\ x.key \in Nat /\ x.vel \in PipeLevels
          /\ \E s \in Stops : \E i \in DOMAIN RankInfo[s] : x.at = <<s, i>>
    <2> SUFFICES ASSUME x.op = "RankKey"
                 PROVE  /\ x.key \in Nat /\ x.vel \in PipeLevels
                        /\ \E s \in Stops : \E i \in DOMAIN RankInfo[s] : x.at = <<s, i>>
      OBVIOUS
    <2>1. x \in [op : {"RankKey"}, at : UNION {{s} \X DOMAIN RankInfo[s] : s \in Stops},
                 key : Nat, vel : PipeLevels]
      OBVIOUS
    <2>2. PICK s \in Stops : x.at \in {s} \X DOMAIN RankInfo[s]
      BY <2>1
    <2> QED  BY <2>1, <2>2
  <1>3. x.op = "Note" => x.at \in Manuals /\ x.key \in Nat /\ x.vel \in PipeLevels
    OBVIOUS
  <1>4. x.op = "Key" => x.at \in Manuals /\ x.key \in Nat /\ x.vel \in Levels
    OBVIOUS
  <1>5. x.op = "Division" => x.at \in Manuals /\ x.key \in Nat
    OBVIOUS
  <1>6. x.op = "SetKey" => x.at \in Couplers /\ x.key \in Nat
    OBVIOUS
  <1>7. x.op = "SetOut" => x.at \in KeyCouplers /\ x.key \in Int /\ x.vel \in Levels
    OBVIOUS
  <1>8. x.op = "Tone" => /\ x.at \in KeyCouplers /\ x.key \in Nat /\ x.vel \in Levels
                         /\ x.next \in Int /\ x.cancelled \in BOOLEAN
    OBVIOUS
  <1>9. x.op = "Last" => /\ x.at \in KeyCouplers /\ x.key \in Nat /\ x.vel \in Levels
                         /\ x.next \in Int
    OBVIOUS
  <1>10. x.op = "Emit" => x.at \in KeyCouplers /\ x.key \in Nat /\ x.on \in BOOLEAN
    OBVIOUS
  <1>11. x.op = "Through" => x.at \in Couplers /\ x.on \in BOOLEAN
    OBVIOUS
  <1>12. x.op = "Refresh" => x.at \in KeyCouplers /\ x.key \in Nat
    OBVIOUS
  <1>13. x.op = "Unison" => x.at \in Manuals /\ x.on \in BOOLEAN
    OBVIOUS
  <1>14. x.op = "AllOff" => x.at \in Manuals
    OBVIOUS
  <1> QED  BY <1>1, <1>2, <1>3, <1>4, <1>5, <1>6, <1>7, <1>8, <1>9, <1>10, <1>11, <1>12, <1>13, <1>14

\* A set of numbers has a least one ...
LEMMA Lowest ==
  ASSUME NEW S \in SUBSET Nat, S # {}
  PROVE  \E x \in S : \A y \in S : x <= y
  <1>1. PICK less : /\ IsWellFoundedOn(less, Nat)
                    /\ \A x, y \in Nat : x < y => <<x, y>> \in less
    <2>1. \A x, y \in Nat : x < y => <<x, y>> \in OpToRel(<, Nat)
      BY DEF OpToRel
    <2> QED  BY <2>1, NatLessThanWellFounded
  <1>2. PICK x \in S : \A y \in S : ~(<<y, x>> \in less)
    <2>1. S \subseteq Nat /\ IsWellFoundedOn(less, Nat)
      BY <1>1
    <2> QED  BY <2>1, WFMin, Zenon
  <1>3. ASSUME NEW y \in S PROVE x <= y
    <2>1. x \in Nat /\ y \in Nat /\ ~(y < x)
      BY <1>1, <1>2
    <2> QED  BY <2>1
  <1> QED  BY <1>3

\* ... and a greatest one, if there is a bound.
LEMMA Highest ==
  ASSUME NEW b \in Nat, NEW S \in SUBSET (0..b), S # {}
  PROVE  SetMax(S) \in S /\ \A y \in S : SetMax(S) >= y
  <1> DEFINE T == {b - x : x \in S}
  <1>1. T \in SUBSET Nat /\ T # {}
    <2>1. \A x \in S : x \in 0..b /\ b - x \in Nat
      OBVIOUS
    <2>2. PICK x \in S : TRUE
      OBVIOUS
    <2>3. b - x \in T
      OBVIOUS
    <2> QED  BY <2>1, <2>3
  <1>2. PICK z \in T : \A y \in T : z <= y
    BY <1>1, Lowest
  <1>3. PICK x \in S : z = b - x
    OBVIOUS
  <1>4. ASSUME NEW y \in S PROVE x >= y
    <2>1. b - y \in T
      OBVIOUS
    <2>2. b - x <= b - y
      BY <1>2, <1>3, <2>1
    <2>3. x \in Nat /\ y \in Nat
      OBVIOUS
    <2> QED  BY <2>2, <2>3
  <1> QED  BY <1>4 DEF SetMax

\* What is known of a greatest element determines it.
LEMMA HighestIs ==
  ASSUME NEW S \in SUBSET Nat, NEW x \in S, \A y \in S : x >= y
  PROVE  SetMax(S) = x
  <1>1. SetMax(S) \in S /\ \A y \in S : SetMax(S) >= y
    BY DEF SetMax
  <1>2. SetMax(S) >= x /\ x >= SetMax(S) /\ SetMax(S) \in Nat /\ x \in Nat
    BY <1>1
  <1> QED  BY <1>2

LEMMA Bounds ==
  /\ MaxVelocity \in Nat \ {0} /\ NManuals \in Nat /\ Wrap \in Nat \ {0}
  /\ Levels \subseteq Nat /\ PipeLevels \subseteq Nat /\ 0 \in Levels /\ 0 \in PipeLevels
  /\ \A v \in Levels : Decrement(v) \in Levels /\ v \div 4 \in PipeLevels
  /\ \A v \in PipeLevels : v # 0 => 4 * v + 3 \in Levels
  /\ \A v \in Velocities : v \in PipeLevels
  BY StopsAssumption, CouplersAssumption DEF Levels, PipeLevels, Decrement

LEMMA Keyboards ==
  /\ \A m \in Manuals : /\ NKeys[m] \in Nat \ {0} /\ KeysOf(m) \subseteq Nat
                        /\ Playable[m] \subseteq KeysOf(m) /\ FirstNote[m] \in Int
                        /\ CouplersOf[m] \in Seq(Couplers) /\ StopsOf[m] \in Seq(Stops)
                        /\ Own \in Slots(m)
  /\ \A c \in Couplers : Dest[c] \in Manuals
  /\ KeyCouplers \subseteq Couplers
  BY CouplersAssumption DEF KeysOf, Slots, KeyCouplers

\* Every coupler belongs to one manual.
LEMMA Home ==
  ASSUME NEW c \in Couplers
  PROVE  /\ Source(c) \in Manuals
         /\ \A m \in Manuals : (\E i \in DOMAIN CouplersOf[m] : CouplersOf[m][i] = c) <=> m = Source(c)
  <1>1. \E m \in Manuals : \E i \in DOMAIN CouplersOf[m] : CouplersOf[m][i] = c
    BY CouplersAssumption
  <1>2. Source(c) \in Manuals /\ \E i \in DOMAIN CouplersOf[Source(c)] : CouplersOf[Source(c)][i] = c
    BY <1>1 DEF Source
  <1> QED  BY <1>2, CouplersAssumption

LEMMA KeyshiftType == \A c \in KeyCouplers : Keyshift(c) \in Int
  <1> SUFFICES ASSUME NEW c \in KeyCouplers PROVE Keyshift(c) \in Int
    OBVIOUS
  <1>1. c \in Couplers /\ Source(c) \in Manuals /\ Dest[c] \in Manuals
    BY Keyboards, Home
  <1>2. KeyshiftTo[c] \in Int /\ FirstNote[Source(c)] \in Int /\ FirstNote[Dest[c]] \in Int
    BY <1>1, Keyboards, CouplersAssumption
  <1> QED  BY <1>2 DEF Keyshift

LEMMA LevelType ==
  ASSUME TypeInv, NEW m \in Manuals, NEW k \in KeysOf(m)
  PROVE  /\ Velocity(m, k) \in Levels /\ Remote(m, k) \in Levels /\ Sounding(m, k) \in PipeLevels
         /\ \A s \in Slots(m) : bySlot[m][k][s] \in Levels /\ Velocity(m, k) >= bySlot[m][k][s]
  <1>1. bySlot[m] \in [KeysOf(m) -> [Slots(m) -> Levels]]
    BY DEF TypeInv, KeysTypeOK
  <1>2. \A s \in Slots(m) : bySlot[m][k][s] \in Levels
    BY <1>1
  <1>3. 4 * MaxVelocity + 3 \in Nat /\ Own \in Slots(m)
    BY Bounds, Keyboards
  <1> DEFINE S == {bySlot[m][k][s] : s \in Slots(m)}
             R == {0} \union {bySlot[m][k][s] : s \in Slots(m) \ {Own}}
  <1>4. S \in SUBSET (0..4 * MaxVelocity + 3) /\ S # {}
    BY <1>2, <1>3 DEF Levels
  <1>5. R \in SUBSET (0..4 * MaxVelocity + 3) /\ R # {}
    BY <1>2, <1>3, Bounds DEF Levels
  <1>6. SetMax(S) \in S /\ \A y \in S : SetMax(S) >= y
    BY <1>3, <1>4, Highest
  <1>7. SetMax(R) \in R
    BY <1>3, <1>5, Highest
  <1>8. Velocity(m, k) = SetMax(S) /\ Remote(m, k) = SetMax(R)
    BY DEF Velocity, Remote
  <1>9. Velocity(m, k) \in Levels /\ Remote(m, k) \in Levels
    BY <1>4, <1>5, <1>6, <1>7, <1>8 DEF Levels
  <1>10. Sounding(m, k) \in PipeLevels
    BY <1>9, Bounds DEF Sounding
  <1> QED  BY <1>2, <1>6, <1>8, <1>9, <1>10

LEMMA TakenType ==
  ASSUME TypeInv, NEW c \in Couplers, NEW k \in KeysOf(Source(c))
  PROVE  Taken(c, k) \in Levels
  <1> DEFINE m == Source(c)
             S == {0} \union {bySlot[m][k][s] : s \in {s \in Slots(m) : MayFollow(c, s)}}
  <1>1. m \in Manuals
    BY Home
  <1>2. S \subseteq Levels
    BY <1>1, LevelType, Bounds
  <1>3. S \in SUBSET (0..4 * MaxVelocity + 3) /\ S # {} /\ 4 * MaxVelocity + 3 \in Nat
    BY <1>2, Bounds DEF Levels
  <1> HIDE DEF S
  <1>4. SetMax(S) \in S
    BY <1>3, Highest
  <1> QED  BY <1>2, <1>4 DEF Taken, S

LEMMA NextPressedType ==
  ASSUME NEW c \in KeyCouplers, NEW m \in Manuals, NEW pressed \in [KeysOf(m) -> Levels], NEW k
  PROVE  NextPressed(c, pressed, k) \in KeysOf(m) \union {-1}
  <1> DEFINE down   == {j \in DOMAIN pressed : pressed[j] > 0}
             beyond == {j \in down : k = -1 \/ (IF Kind[c] = "bass" THEN j > k ELSE j < k)}
  <1>1. beyond \subseteq KeysOf(m)
    OBVIOUS
  <1>2. NextPressed(c, pressed, k) =
          IF beyond = {} THEN -1
          ELSE IF Kind[c] = "bass" THEN CHOOSE j \in beyond : \A i \in beyond : j <= i
          ELSE SetMax(beyond)
    BY DEF NextPressed
  <1> HIDE DEF beyond
  <1>3. CASE beyond = {}
    BY <1>2, <1>3
  <1>4. CASE beyond # {}
    <2>1. NKeys[m] - 1 \in Nat /\ beyond \in SUBSET (0..NKeys[m] - 1) /\ beyond \in SUBSET Nat
      BY <1>1, Keyboards DEF KeysOf
    <2>2. SetMax(beyond) \in beyond
      BY <1>4, <2>1, Highest
    <2>3. (CHOOSE j \in beyond : \A i \in beyond : j <= i) \in beyond
      BY <1>4, <2>1, Lowest
    <2> QED  BY <1>1, <1>2, <1>4, <2>2, <2>3
  <1> QED  BY <1>3, <1>4

\* PropagateKeyToCouplers(): every coupler of the manual.
LEMMA Propagated ==
  ASSUME NEW m \in Manuals, NEW k \in KeysOf(m)
  PROVE  LET new == PropagateKeyToCouplers(m, k)
         IN  /\ new \in Seq(KeyCalls)
             /\ \A i \in DOMAIN new : \E c \in Couplers : Source(c) = m /\ new[i] = CouplerCall(c, k)
             /\ ToSet(new) = {CouplerCall(c, k) : c \in {c \in Couplers : Source(c) = m}}
  <1> DEFINE s == CouplersOf[m]
             new == PropagateKeyToCouplers(m, k)
  <1>1. s \in Seq(Couplers) /\ k \in Nat
    BY Keyboards
  <1>2. Len(s) \in Nat /\ DOMAIN s = 1..Len(s) /\ \A i \in DOMAIN s : s[i] \in Couplers
    BY <1>1, LenProperties
  <1>3. new = [i \in DOMAIN s |-> CouplerCall(s[i], k)]
    BY DEF PropagateKeyToCouplers, ForAll
  <1>4. \A c \in Couplers : CouplerCall(c, k) \in KeyCalls
    BY <1>1 DEF CouplerCall, KeyCalls
  <1> HIDE DEF new
  <1>5. new \in [1..Len(s) -> KeyCalls]
    BY <1>2, <1>3, <1>4
  <1>6. new \in Seq(KeyCalls)
    BY <1>2, <1>5, SeqDef
  <1>7. \A i \in DOMAIN new : s[i] \in Couplers /\ Source(s[i]) = m /\ new[i] = CouplerCall(s[i], k)
    BY <1>2, <1>3, Home
  <1>8. ASSUME NEW c \in Couplers, Source(c) = m PROVE CouplerCall(c, k) \in ToSet(new)
    <2>1. PICK i \in DOMAIN s : s[i] = c
      BY <1>8, Home
    <2> QED  BY <1>2, <1>3, <2>1 DEF ToSet
  <1>9. ToSet(new) = {CouplerCall(c, k) : c \in {c \in Couplers : Source(c) = m}}
    BY <1>7, <1>8 DEF ToSet
  <1> QED  BY <1>6, <1>7, <1>9 DEF new

-----------------------------------------------------------------------------
(* What each handler does *)

\* The handler has replaced its call by the calls of `made'.
Made(made) == Pending = {Call} \union ToCome /\ Pending' = made \union ToCome

LEMMA NoCalls ==
  ASSUME calls # <<>>
  PROVE  NewCalls(<<>>) /\ ToSet(<<>>) = {}
  <1>1. <<>> \in Seq(KeyCalls) /\ DOMAIN <<>> = {}
    OBVIOUS
  <1>2. 0 <= Depth(Call) /\ 0 \in 0..5
    BY DepthType
  <1> QED  BY <1>1, <1>2, EmptyToSet DEF NewCalls

LEMMA OneCall ==
  ASSUME calls # <<>>, NEW x \in KeyCalls, Depth(x) <= Depth(Call), Depth(x) # 6, CallInRange(x)
  PROVE  NewCalls(<<x>>) /\ ToSet(<<x>>) = {x}
  <1>1. <<x>> \in Seq(KeyCalls) /\ DOMAIN <<x>> = {1} /\ <<x>>[1] = x
    OBVIOUS
  <1>2. Depth(x) \in 0..5
    BY DepthType
  <1> QED  BY <1>1, <1>2 DEF NewCalls, ToSet

LEMMA TwoCalls ==
  ASSUME calls # <<>>, NEW x \in KeyCalls, NEW y \in KeyCalls,
         Depth(x) <= Depth(Call), Depth(x) # 6, Depth(y) = Depth(x), CallInRange(x), CallInRange(y),
         y.op \notin AtOnce
  PROVE  NewCalls(<<x, y>>) /\ ToSet(<<x, y>>) = {x, y}
  <1>1. /\ <<x, y>> \in Seq(KeyCalls) /\ DOMAIN <<x, y>> = {1, 2}
        /\ <<x, y>>[1] = x /\ <<x, y>>[2] = y
    OBVIOUS
  <1>2. Depth(x) \in 0..5
    BY DepthType
  <1> QED  BY <1>1, <1>2 DEF NewCalls, ToSet

LEMMA ManyCalls ==
  ASSUME calls # <<>>, NEW n \in Nat, NEW new \in [1..n -> KeyCalls], NEW d \in 0..5,
         d <= Depth(Call),
         \A i \in 1..n : Depth(new[i]) = d /\ CallInRange(new[i]) /\ new[i].op \notin AtOnce
  PROVE  NewCalls(new) /\ ToSet(new) = {new[i] : i \in 1..n}
  <1>1. new \in Seq(KeyCalls) /\ DOMAIN new = 1..n
    BY SeqDef
  <1> QED  BY <1>1 DEF NewCalls, ToSet

LEMMA NoteStep ==
  ASSUME TypeInv, Note
  PROVE  LET m == Call.at
             k == Call.key
             v == Call.vel
             x == KeyCall(m, k, IF v = 0 THEN 0 ELSE 4 * v + 3, Own)
         IN  /\ TypeInv'
             /\ m \in Manuals /\ k \in KeysOf(m) /\ v \in PipeLevels
             /\ UNCHANGED <<bySlot, division, unisonOff, repeated, couplerVars, stopVars>>
             /\ IF k \in Playable[m] /\ midiKey[m][k] # v
                  THEN /\ midiKey' = [midiKey EXCEPT ![m][k] = v] /\ Made({x})
                       /\ Continue(<<x>>)
                  ELSE UNCHANGED midiKey /\ Made({}) /\ Continue(<<>>)
  <1> DEFINE m == Call.at
             k == Call.key
             v == Call.vel
             w == IF v = 0 THEN 0 ELSE 4 * v + 3
             x == KeyCall(m, k, w, Own)
  <1>1. CallsInv /\ calls # <<>> /\ Call.op = "Note" /\ Call \in KeyCalls /\ CallInRange(Call)
    BY FirstCall DEF TypeInv, Note, Doing
  <1>2. m \in Manuals /\ k \in KeysOf(m) /\ v \in PipeLevels
    BY <1>1, CallType DEF CallInRange
  <1>3. k \in Nat /\ w \in Levels /\ Own \in Slots(m)
    BY <1>2, Keyboards, Bounds
  <1>4. x \in KeyCalls /\ Depth(x) = 3 /\ CallInRange(x) /\ Depth(Call) = 4
    BY <1>1, <1>2, <1>3 DEF KeyCall, KeyCalls, Depth, CallInRange
  <1> HIDE DEF w
  <1>5. CASE k \in Playable[m] /\ midiKey[m][k] # v
    <2>1. Continue(<<x>>) /\ midiKey' = [midiKey EXCEPT ![m][k] = v]
      BY <1>5 DEF Note, w
    <2>2. NewCalls(<<x>>) /\ ToSet(<<x>>) = {x}
      BY <1>1, <1>4, OneCall
    <2>3. CallsInv' /\ Made({x})
      BY <1>1, <2>1, <2>2, CallsKept DEF Made
    <2>4. KeysTypeOK' /\ Arrays'
      BY <1>2, <2>1, <2>3 DEF Note, TypeInv, CallsInv, KeysTypeOK, StopsTypeOK, Arrays, couplerVars, stopVars
    <2> QED  BY <1>2, <1>5, <2>1, <2>3, <2>4 DEF TypeInv, Note, w
  <1>6. CASE ~(k \in Playable[m] /\ midiKey[m][k] # v)
    <2>1. Continue(<<>>) /\ midiKey' = midiKey
      BY <1>6 DEF Note
    <2>2. CallsInv' /\ Made({})
      BY <1>1, <2>1, NoCalls, CallsKept DEF Made
    <2>3. KeysTypeOK' /\ Arrays'
      BY <2>1, <2>2 DEF Note, TypeInv, CallsInv, KeysTypeOK, StopsTypeOK, Arrays, couplerVars, stopVars
    <2> QED  BY <1>2, <1>6, <2>1, <2>2, <2>3 DEF TypeInv, Note
  <1> QED  BY <1>5, <1>6

LEMMA AllNotesOffStep ==
  ASSUME TypeInv, AllNotesOff
  PROVE  LET m == Call.at
         IN  /\ TypeInv'
             /\ m \in Manuals
             /\ UNCHANGED <<stopVars, couplerVars, manualVars>>
             /\ Made({NoteCall(m, k, 0) : k \in KeysOf(m)})
             /\ Continue([i \in 1..NKeys[m] |-> NoteCall(m, i - 1, 0)])
  <1> DEFINE m   == Call.at
             n   == NKeys[m]
             new == [i \in 1..n |-> NoteCall(m, i - 1, 0)]
  <1>1. CallsInv /\ calls # <<>> /\ Call.op = "AllOff" /\ Call \in KeyCalls
    BY FirstCall DEF TypeInv, AllNotesOff, Doing
  <1>2. m \in Manuals /\ n \in Nat /\ 0 \in PipeLevels
    BY <1>1, CallType, Keyboards, Bounds
  <1>3. Continue(new)
    BY DEF AllNotesOff, ForKeys
  <1>4. \A i \in 1..n : /\ NoteCall(m, i - 1, 0) \in KeyCalls
                        /\ Depth(NoteCall(m, i - 1, 0)) = 4
                        /\ CallInRange(NoteCall(m, i - 1, 0)) /\ NoteCall(m, i - 1, 0).op \notin AtOnce
    <2> SUFFICES ASSUME NEW i \in 1..n
                 PROVE  /\ NoteCall(m, i - 1, 0) \in KeyCalls
                        /\ Depth(NoteCall(m, i - 1, 0)) = 4
                        /\ CallInRange(NoteCall(m, i - 1, 0)) /\ NoteCall(m, i - 1, 0).op \notin AtOnce
      OBVIOUS
    <2>1. i - 1 \in KeysOf(m) /\ i - 1 \in Nat
      BY <1>2 DEF KeysOf
    <2> QED  BY <1>2, <2>1 DEF NoteCall, KeyCalls, Depth, CallInRange, AtOnce
  <1>5. Depth(Call) = 5
    BY <1>1 DEF Depth
  <1> HIDE DEF new, n
  <1>6. new \in [1..n -> KeyCalls] /\ \A i \in 1..n : new[i] = NoteCall(m, i - 1, 0)
    BY <1>4 DEF new
  <1>7. NewCalls(new) /\ ToSet(new) = {new[i] : i \in 1..n}
    <2>1. \A i \in 1..n : Depth(new[i]) = 4 /\ CallInRange(new[i]) /\ new[i].op \notin AtOnce
      BY <1>4, <1>6
    <2>2. 4 \in 0..5 /\ 4 <= Depth(Call)
      BY <1>5
    <2> QED  BY <1>1, <1>2, <1>6, <2>1, <2>2, ManyCalls
  <1>8. {new[i] : i \in 1..n} = {NoteCall(m, k, 0) : k \in KeysOf(m)}
    <2>1. \A k \in KeysOf(m) : k + 1 \in 1..n /\ (k + 1) - 1 = k
      BY <1>2 DEF KeysOf, n
    <2>2. \A i \in 1..n : i - 1 \in KeysOf(m)
      BY <1>2 DEF KeysOf, n
    <2>3. ASSUME NEW k \in KeysOf(m) PROVE NoteCall(m, k, 0) = new[k + 1]
      BY <1>6, <2>1
    <2> QED  BY <1>6, <2>1, <2>2, <2>3
  <1>9. CallsInv' /\ Made({NoteCall(m, k, 0) : k \in KeysOf(m)})
    BY <1>1, <1>3, <1>7, <1>8, CallsKept DEF Made
  <1>10. KeysTypeOK' /\ Arrays'
    BY <1>9 DEF AllNotesOff, TypeInv, CallsInv, KeysTypeOK, StopsTypeOK, Arrays, couplerVars, manualVars, stopVars
  <1> QED  BY <1>2, <1>3, <1>9, <1>10 DEF TypeInv, AllNotesOff, new, n

LEMMA AndOneMore ==
  ASSUME NEW S, NEW s \in Seq(S), NEW x \in S
  PROVE  /\ s \o <<x>> \in Seq(S) /\ ToSet(s \o <<x>>) = ToSet(s) \union {x}
         /\ s # <<>> => (s \o <<x>>)[1] = s[1]
  <1> DEFINE t == <<x>>
             r == s \o t
  <1>1. t \in Seq(S) /\ Len(t) = 1 /\ t[1] = x
    OBVIOUS
  <1>2. /\ r \in Seq(S) /\ Len(r) = Len(s) + 1
        /\ \A j \in 1..Len(s) + 1 : r[j] = IF j <= Len(s) THEN s[j] ELSE t[j - Len(s)]
    BY <1>1, ConcatProperties
  <1>3. DOMAIN s = 1..Len(s) /\ DOMAIN r = 1..Len(r) /\ Len(s) \in Nat
    BY <1>2, LenProperties
  <1> HIDE DEF t, r
  <1>4. \A i \in DOMAIN r : \/ i \in DOMAIN s /\ r[i] = s[i]
                            \/ i = Len(s) + 1 /\ r[i] = x
    <2> SUFFICES ASSUME NEW i \in 1..Len(s) + 1
                 PROVE  \/ i \in DOMAIN s /\ r[i] = s[i]
                        \/ i = Len(s) + 1 /\ r[i] = x
      BY <1>2, <1>3
    <2>1. CASE i <= Len(s)
      BY <1>2, <1>3, <2>1
    <2>2. CASE ~(i <= Len(s))
      <3>1. i = Len(s) + 1 /\ i - Len(s) = 1
        BY <1>3, <2>2
      <3> QED  BY <1>1, <1>2, <2>2, <3>1
    <2> QED  BY <2>1, <2>2
  <1>5. \A i \in DOMAIN s : i \in DOMAIN r /\ r[i] = s[i]
    BY <1>2, <1>3
  <1>6. Len(s) + 1 \in DOMAIN r /\ r[Len(s) + 1] = x
    <2>1. Len(s) + 1 \in 1..Len(s) + 1 /\ ~(Len(s) + 1 <= Len(s)) /\ (Len(s) + 1) - Len(s) = 1
      BY <1>3
    <2> QED  BY <1>1, <1>2, <1>3, <2>1
  <1>7. ToSet(r) = ToSet(s) \union {x}
    BY <1>4, <1>5, <1>6 DEF ToSet
  <1>8. s # <<>> => 1 \in DOMAIN s
    BY <1>3, EmptySeq
  <1> QED  BY <1>2, <1>5, <1>7, <1>8 DEF r, t

\* It is enough to know the calls without their order.
LEMMA CallSet ==
  ASSUME calls # <<>>, NEW new \in Seq(KeyCalls), NEW d \in 0..5, d <= Depth(Call),
         \A x \in ToSet(new) : Depth(x) = d /\ CallInRange(x) /\ x.op \notin AtOnce
  PROVE  NewCalls(new)
  BY DEF NewCalls, ToSet

LEMMA SetKeyStateStep ==
  ASSUME TypeInv, SetKeyState
  PROVE  LET m == Call.at
             k == Call.key
             v == Call.vel
             slot == Call.slot
         IN  /\ TypeInv'
             /\ m \in Manuals /\ k \in KeysOf(m) /\ v \in Levels /\ slot \in Slots(m)
             /\ UNCHANGED <<midiKey, division, unisonOff, repeated, couplerVars, stopVars>>
             /\ IF bySlot[m][k][slot] # v
                  THEN /\ bySlot' = [bySlot EXCEPT ![m][k][slot] = v]
                       /\ Made({CouplerCall(c, k) : c \in {c \in Couplers : Source(c) = m}} \union
                               {DivisionCall(m, k)})
                       /\ Continue(PropagateKeyToCouplers(m, k) \o <<DivisionCall(m, k)>>)
                  ELSE UNCHANGED bySlot /\ Made({}) /\ Continue(<<>>)
  <1> DEFINE m == Call.at
             k == Call.key
             v == Call.vel
             slot == Call.slot
             s == PropagateKeyToCouplers(m, k)
             new == s \o <<DivisionCall(m, k)>>
             made == {CouplerCall(c, k) : c \in {c \in Couplers : Source(c) = m}} \union {DivisionCall(m, k)}
  <1>1. CallsInv /\ calls # <<>> /\ Call.op = "Key" /\ Call \in KeyCalls /\ CallInRange(Call)
    BY FirstCall DEF TypeInv, SetKeyState, Doing
  <1>2. m \in Manuals /\ k \in KeysOf(m) /\ v \in Levels /\ slot \in Slots(m) /\ k \in Nat
    BY <1>1, CallType, Keyboards DEF CallInRange
  <1>3. DivisionCall(m, k) \in KeyCalls
    BY <1>2 DEF DivisionCall, KeyCalls
  <1>4. Depth(Call) = 3
    BY <1>1 DEF Depth
  <1>5. CASE bySlot[m][k][slot] # v
    <2>1. Continue(new) /\ bySlot' = [bySlot EXCEPT ![m][k][slot] = v]
      BY <1>2, <1>5 DEF SetKeyState
    <2>2. s \in Seq(KeyCalls) /\ ToSet(s) = {CouplerCall(c, k) : c \in {c \in Couplers : Source(c) = m}}
      BY <1>2, Propagated
    <2>3. new \in Seq(KeyCalls) /\ ToSet(new) = made
      BY <1>3, <2>2, AndOneMore
    <2>4. ASSUME NEW x \in made
          PROVE  Depth(x) = 3 /\ CallInRange(x) /\ x.op \notin AtOnce
      <3>1. CASE x = DivisionCall(m, k)
        BY <1>2, <3>1 DEF DivisionCall, Depth, CallInRange, AtOnce
      <3>2. ASSUME NEW c \in Couplers, Source(c) = m, x = CouplerCall(c, k)
            PROVE  Depth(x) = 3 /\ CallInRange(x) /\ x.op \notin AtOnce
        BY <1>2, <3>2 DEF CouplerCall, Depth, CallInRange, AtOnce
      <3> QED  BY <3>1, <3>2
    <2> HIDE DEF new, made
    <2>5. NewCalls(new)
      <3>1. 3 \in 0..5 /\ 3 <= Depth(Call)
        BY <1>4
      <3> QED  BY <1>1, <2>3, <2>4, <3>1, CallSet
    <2>6. CallsInv' /\ Made(made)
      BY <1>1, <2>1, <2>3, <2>5, CallsKept DEF Made
    <2>7. KeysTypeOK' /\ Arrays'
      BY <1>2, <2>1, <2>6 DEF SetKeyState, TypeInv, CallsInv, KeysTypeOK, StopsTypeOK, Arrays, couplerVars, stopVars
    <2> QED  BY <1>2, <1>5, <2>1, <2>6, <2>7 DEF TypeInv, SetKeyState, made, new
  <1>6. CASE ~(bySlot[m][k][slot] # v)
    <2>1. Continue(<<>>) /\ bySlot' = bySlot
      BY <1>2, <1>6 DEF SetKeyState
    <2>2. CallsInv' /\ Made({})
      BY <1>1, <2>1, NoCalls, CallsKept DEF Made
    <2>3. KeysTypeOK' /\ Arrays'
      BY <2>1, <2>2 DEF SetKeyState, TypeInv, CallsInv, KeysTypeOK, StopsTypeOK, Arrays, couplerVars, stopVars
    <2> QED  BY <1>2, <1>6, <2>1, <2>2, <2>3 DEF TypeInv, SetKeyState
  <1> QED  BY <1>5, <1>6

LEMMA SetDivisionKeyStateStep ==
  ASSUME TypeInv, SetDivisionKeyState
  PROVE  LET m == Call.at
             k == Call.key
             v == Sounding(m, k)
             new == [i \in DOMAIN StopsOf[m] |-> StopKeyCall(StopsOf[m][i], k + 1, v)]
         IN  /\ TypeInv'
             /\ m \in Manuals /\ k \in KeysOf(m) /\ v \in PipeLevels
             /\ UNCHANGED <<midiKey, bySlot, unisonOff, repeated, couplerVars, stopVars>>
             /\ IF division[m][k] # v
                  THEN /\ division' = [division EXCEPT ![m][k] = v]
                       /\ Made({new[i] : i \in DOMAIN StopsOf[m]}) /\ Continue(new)
                  ELSE UNCHANGED division /\ Made({}) /\ Continue(<<>>)
  <1> DEFINE m == Call.at
             k == Call.key
             v == Sounding(m, k)
             n == Len(StopsOf[m])
             new == [i \in DOMAIN StopsOf[m] |-> StopKeyCall(StopsOf[m][i], k + 1, v)]
  <1>1. CallsInv /\ calls # <<>> /\ Call.op = "Division" /\ Call \in KeyCalls /\ CallInRange(Call)
    BY FirstCall DEF TypeInv, SetDivisionKeyState, Doing
  <1>2. m \in Manuals /\ k \in KeysOf(m) /\ k \in Nat
    BY <1>1, CallType, Keyboards DEF CallInRange
  <1>3. v \in PipeLevels
    BY <1>2, LevelType
  <1>4. /\ n \in Nat /\ DOMAIN StopsOf[m] = 1..n
        /\ \A i \in 1..n : StopsOf[m][i] \in Stops
    BY <1>2, Keyboards, LenProperties
  <1>5. Depth(Call) = 3
    BY <1>1 DEF Depth
  <1> HIDE DEF v
  <1>6. CASE division[m][k] # v
    <2>1. Continue(new) /\ division' = [division EXCEPT ![m][k] = v]
      BY <1>6 DEF SetDivisionKeyState, ForAll, v
    <2>2. \A i \in 1..n : LET x == StopKeyCall(StopsOf[m][i], k + 1, v)
                          IN  x \in KeyCalls /\ Depth(x) = 2 /\ CallInRange(x) /\ x.op \notin AtOnce
      BY <1>2, <1>3, <1>4 DEF StopKeyCall, StopCalls, KeyCalls, Depth, CallInRange, AtOnce
    <2> HIDE DEF n
    <2>3. new \in [1..n -> KeyCalls] /\ \A i \in 1..n : new[i] = StopKeyCall(StopsOf[m][i], k + 1, v)
      BY <1>4, <2>2
    <2> HIDE DEF new
    <2>4. NewCalls(new) /\ ToSet(new) = {new[i] : i \in 1..n}
      <3>1. \A i \in 1..n : Depth(new[i]) = 2 /\ CallInRange(new[i]) /\ new[i].op \notin AtOnce
        BY <2>2, <2>3
      <3>2. 2 \in 0..5 /\ 2 <= Depth(Call)
        BY <1>5
      <3> QED  BY <1>1, <1>4, <2>3, <3>1, <3>2, ManyCalls
    <2>5. CallsInv' /\ Made({new[i] : i \in DOMAIN StopsOf[m]})
      BY <1>1, <1>4, <2>1, <2>4, CallsKept DEF Made
    <2>6. KeysTypeOK' /\ Arrays'
      BY <1>2, <1>3, <2>1, <2>5 DEF SetDivisionKeyState, TypeInv, CallsInv, KeysTypeOK, StopsTypeOK, Arrays, couplerVars, stopVars
    <2> QED  BY <1>2, <1>3, <1>6, <2>1, <2>5, <2>6 DEF TypeInv, SetDivisionKeyState, new, v
  <1>7. CASE ~(division[m][k] # v)
    <2>1. Continue(<<>>) /\ division' = division
      BY <1>7 DEF SetDivisionKeyState, v
    <2>2. CallsInv' /\ Made({})
      BY <1>1, <2>1, NoCalls, CallsKept DEF Made
    <2>3. KeysTypeOK' /\ Arrays'
      BY <2>1, <2>2 DEF SetDivisionKeyState, TypeInv, CallsInv, KeysTypeOK, StopsTypeOK, Arrays, couplerVars, stopVars
    <2> QED  BY <1>2, <1>3, <1>7, <2>1, <2>2, <2>3 DEF TypeInv, SetDivisionKeyState, v
  <1> QED  BY <1>6, <1>7

LEMMA SetUnisonOffStep ==
  ASSUME TypeInv, SetUnisonOff
  PROVE  LET m == Call.at
             n == (unisonOff[m] + (IF Call.on THEN 1 ELSE Wrap - 1)) % Wrap
             new == [i \in 1..NKeys[m] |-> DivisionCall(m, i - 1)]
         IN  /\ TypeInv'
             /\ m \in Manuals /\ n \in 0..Wrap - 1 /\ Call.on \in BOOLEAN
             /\ unisonOff' = [unisonOff EXCEPT ![m] = n]
             /\ UNCHANGED <<midiKey, bySlot, division, repeated, couplerVars, stopVars>>
             /\ IF (IF Call.on THEN unisonOff[m] ELSE n) = 0
                  THEN Made({DivisionCall(m, k) : k \in KeysOf(m)}) /\ Continue(new)
                  ELSE Made({}) /\ Continue(<<>>)
  <1> DEFINE m == Call.at
             n == (unisonOff[m] + (IF Call.on THEN 1 ELSE Wrap - 1)) % Wrap
             len == NKeys[m]
             new == [i \in 1..len |-> DivisionCall(m, i - 1)]
             refresh == (IF Call.on THEN unisonOff[m] ELSE n) = 0
  <1>1. CallsInv /\ calls # <<>> /\ Call.op = "Unison" /\ Call \in KeyCalls /\ CallInRange(Call)
    BY FirstCall DEF TypeInv, SetUnisonOff, Doing
  <1>2. m \in Manuals /\ Call.on \in BOOLEAN /\ len \in Nat
    BY <1>1, CallType, Keyboards
  <1>3. n \in 0..Wrap - 1
    <2>1. unisonOff[m] \in 0..Wrap - 1 /\ Wrap \in Nat \ {0}
      BY <1>2, Bounds DEF TypeInv, KeysTypeOK
    <2> QED  BY <2>1
  <1>4. unisonOff' = [unisonOff EXCEPT ![m] = n] /\ Continue(IF refresh THEN new ELSE <<>>)
    BY DEF SetUnisonOff, ForKeys
  <1>5. Depth(Call) = 4
    BY <1>1 DEF Depth
  <1>6. \A i \in 1..len : /\ DivisionCall(m, i - 1) \in KeyCalls
                          /\ Depth(DivisionCall(m, i - 1)) = 3
                          /\ CallInRange(DivisionCall(m, i - 1)) /\ DivisionCall(m, i - 1).op \notin AtOnce
    <2> SUFFICES ASSUME NEW i \in 1..len
                 PROVE  /\ DivisionCall(m, i - 1) \in KeyCalls
                        /\ Depth(DivisionCall(m, i - 1)) = 3
                        /\ CallInRange(DivisionCall(m, i - 1)) /\ DivisionCall(m, i - 1).op \notin AtOnce
      OBVIOUS
    <2>1. i - 1 \in KeysOf(m) /\ i - 1 \in Nat
      BY <1>2 DEF KeysOf
    <2> QED  BY <1>2, <2>1 DEF DivisionCall, KeyCalls, Depth, CallInRange, AtOnce
  <1> HIDE DEF new, len, refresh, n
  <1>7. new \in [1..len -> KeyCalls] /\ \A i \in 1..len : new[i] = DivisionCall(m, i - 1)
    BY <1>6 DEF new
  <1>8. NewCalls(new) /\ ToSet(new) = {new[i] : i \in 1..len}
    <2>1. \A i \in 1..len : Depth(new[i]) = 3 /\ CallInRange(new[i]) /\ new[i].op \notin AtOnce
      BY <1>6, <1>7
    <2>2. 3 \in 0..5 /\ 3 <= Depth(Call)
      BY <1>5
    <2> QED  BY <1>1, <1>2, <1>7, <2>1, <2>2, ManyCalls
  <1>9. {new[i] : i \in 1..len} = {DivisionCall(m, k) : k \in KeysOf(m)}
    <2>1. \A k \in KeysOf(m) : k + 1 \in 1..len /\ (k + 1) - 1 = k
      BY <1>2 DEF KeysOf, len
    <2>2. \A i \in 1..len : i - 1 \in KeysOf(m)
      BY <1>2 DEF KeysOf, len
    <2>3. ASSUME NEW k \in KeysOf(m) PROVE DivisionCall(m, k) = new[k + 1]
      BY <1>7, <2>1
    <2> QED  BY <1>7, <2>1, <2>2, <2>3
  <1>10. /\ CallsInv'
         /\ refresh => Made({DivisionCall(m, k) : k \in KeysOf(m)})
         /\ ~refresh => Made({})
    <2>1. CASE refresh
      BY <1>1, <1>4, <1>8, <1>9, <2>1, CallsKept DEF Made
    <2>2. CASE ~refresh
      BY <1>1, <1>4, <2>2, NoCalls, CallsKept DEF Made
    <2> QED  BY <2>1, <2>2
  <1>11. KeysTypeOK' /\ Arrays'
    BY <1>2, <1>3, <1>4, <1>10 DEF SetUnisonOff, TypeInv, CallsInv, KeysTypeOK, StopsTypeOK, Arrays, couplerVars, stopVars
  <1> QED  BY <1>2, <1>3, <1>4, <1>10, <1>11 DEF TypeInv, SetUnisonOff, refresh, new, len, n

LEMMA Joined ==
  ASSUME NEW x, NEW y
  PROVE  <<x>> \o <<y>> = <<x, y>> /\ <<>> \o <<y>> = <<y>>
  <1> DEFINE S == {x, y}
             one == <<x>>
             two == <<x, y>>
             r   == one \o <<y>>
  <1>1. one \in Seq(S) /\ <<y>> \in Seq(S) /\ y \in S
    OBVIOUS
  <1>2. two \in Seq(S) /\ Len(two) = 2 /\ two[1] = x /\ two[2] = y /\ one[1] = x /\ Len(one) = 1
    OBVIOUS
  <1> HIDE DEF S, one, two
  <1>3. r \in Seq(S) /\ Len(r) = 2 /\ r[1] = x /\ r[2] = y
    <2> DEFINE a == Append(one, y)
    <2>1. r = a
      BY <1>1, AppendIsConcat
    <2>2. /\ a \in Seq(S) /\ Len(a) = Len(one) + 1
          /\ \A i \in 1..Len(one) : a[i] = one[i]
          /\ a[Len(one) + 1] = y
      BY <1>1, AppendProperties
    <2> HIDE DEF a, r
    <2>3. Len(a) = 2 /\ a[1] = x /\ a[2] = y
      BY <1>2, <2>2
    <2> QED  BY <2>1, <2>2, <2>3
  <1>4. r = two
    <2>1. \A i \in 1..Len(r) : i = 1 \/ i = 2
      BY <1>3
    <2>2. \A i \in 1..Len(r) : r[i] = two[i]
      BY <1>2, <1>3, <2>1
    <2> QED  BY <1>2, <1>3, <2>2, SeqEqual
  <1>5. <<>> \o <<y>> = <<y>>
    BY <1>1, ConcatEmptySeq
  <1> QED  BY <1>4, <1>5 DEF r, one, two

\* A coupler takes a key: nothing, one call, or for a bass or melody coupler two.
LEMMA SetKeyStep ==
  ASSUME TypeInv, SetKey
  PROVE  LET c == Call.at
             k == Call.key
             v == Taken(c, k)
             keys == [input[c] EXCEPT ![k] = v]
             next == NextPressed(c, keys, -1)
             x == OutCall(c, k + Keyshift(c), v)
             away == tone[c] # -1 /\ next # tone[c]
             y == ToneCall(c, k, v, next, away)
             z == OutCall(c, tone[c] + Keyshift(c), 0)
         IN  /\ TypeInv'
             /\ c \in Couplers /\ k \in KeysOf(Source(c)) /\ v \in Levels
             /\ UNCHANGED <<engaged, flags, internal, out, tone, last, through, manualVars, stopVars>>
             /\ IF k \in Coupled(c) /\ input[c][k] # v
                  THEN /\ input' = [input EXCEPT ![c] = keys]
                       /\ Kind[c] = "unisonoff" => Made({}) /\ Continue(<<>>)
                       /\ Kind[c] = "normal" => Made({x}) /\ Continue(<<x>>)
                       /\ (Kind[c] \notin {"unisonoff", "normal"} /\ away) => Made({z, y}) /\ Continue(<<z, y>>)
                       /\ (Kind[c] \notin {"unisonoff", "normal"} /\ ~away) => Made({y}) /\ Continue(<<y>>)
                  ELSE UNCHANGED input /\ Made({}) /\ Continue(<<>>)
  <1> DEFINE c == Call.at
             k == Call.key
             v == Taken(c, k)
             keys == [input[c] EXCEPT ![k] = v]
             next == NextPressed(c, keys, -1)
             x == OutCall(c, k + Keyshift(c), v)
             away == tone[c] # -1 /\ next # tone[c]
             y == ToneCall(c, k, v, next, away)
             z == OutCall(c, tone[c] + Keyshift(c), 0)
             change == k \in Coupled(c) /\ input[c][k] # v
  <1>1. CallsInv /\ calls # <<>> /\ Call.op = "SetKey" /\ Call \in KeyCalls /\ CallInRange(Call)
    BY FirstCall DEF TypeInv, SetKey, Doing
  <1>2. c \in Couplers /\ k \in KeysOf(Source(c)) /\ Source(c) \in Manuals /\ k \in Nat
    BY <1>1, CallType, Keyboards, Home DEF CallInRange
  <1>3. v \in Levels
    BY <1>2, TakenType
  <1>4. Depth(Call) = 3
    BY <1>1 DEF Depth
  <1>5. Kind[c] # "unisonoff" => c \in KeyCouplers
    BY <1>2 DEF KeyCouplers
  <1>6. input[c] \in [KeysOf(Source(c)) -> Levels] /\ DOMAIN input = Couplers
    BY <1>2 DEF TypeInv, KeysTypeOK, Arrays
  <1>7. c \in KeyCouplers => /\ Keyshift(c) \in Int /\ tone[c] \in KeysOf(Source(c)) \union {-1}
                             /\ tone[c] \in Int
    BY <1>2, KeyshiftType, Keyboards DEF TypeInv, KeysTypeOK
  <1> HIDE DEF v
  <1>8. keys \in [KeysOf(Source(c)) -> Levels]
    BY <1>3, <1>6
  <1> HIDE DEF keys
  <1>9. c \in KeyCouplers => next \in KeysOf(Source(c)) \union {-1} /\ next \in Int
    BY <1>2, <1>8, NextPressedType, Keyboards
  <1> HIDE DEF next
  <1>10. c \in KeyCouplers =>
           /\ x \in KeyCalls /\ Depth(x) = 3 /\ CallInRange(x)
           /\ z \in KeyCalls /\ Depth(z) = 3 /\ CallInRange(z)
           /\ y \in KeyCalls /\ Depth(y) = 3 /\ CallInRange(y) /\ y.op \notin AtOnce
    <2> SUFFICES ASSUME c \in KeyCouplers
                 PROVE  /\ x \in KeyCalls /\ Depth(x) = 3 /\ CallInRange(x)
                        /\ z \in KeyCalls /\ Depth(z) = 3 /\ CallInRange(z)
                        /\ y \in KeyCalls /\ Depth(y) = 3 /\ CallInRange(y) /\ y.op \notin AtOnce
      OBVIOUS
    <2>1. k + Keyshift(c) \in Int /\ tone[c] + Keyshift(c) \in Int /\ away \in BOOLEAN /\ 0 \in Levels
      BY <1>2, <1>7, Bounds
    <2> HIDE DEF away
    <2>2. x \in KeyCalls /\ z \in KeyCalls
      BY <1>3, <2>1 DEF OutCall, KeyCalls
    <2>3. y \in [op : {"Tone"}, at : KeyCouplers, key : Nat, vel : Levels, next : Int, cancelled : BOOLEAN]
      BY <1>2, <1>3, <1>9, <2>1 DEF ToneCall
    <2>4. y \in KeyCalls
      BY <2>3 DEF KeyCalls
    <2>5. x.op = "SetOut" /\ z.op = "SetOut"
      BY DEF OutCall
    <2>6. Depth(x) = 3 /\ CallInRange(x) /\ Depth(z) = 3 /\ CallInRange(z)
      BY <2>5 DEF Depth, CallInRange
    <2>7. y.op = "Tone" /\ y.at = c /\ y.key = k /\ y.next = next
      BY DEF ToneCall
    <2>8. Depth(y) = 3 /\ CallInRange(y) /\ y.op \notin AtOnce
      BY <1>2, <1>9, <2>7 DEF Depth, CallInRange, AtOnce
    <2> QED  BY <2>2, <2>4, <2>6, <2>8
  <1> HIDE DEF x, y, z
  <1>11. CASE change
    <2>0. /\ input' = [input EXCEPT ![c] = keys]
          /\ Continue(CASE Kind[c] = "unisonoff" -> <<>>
                        [] Kind[c] = "normal"    -> <<x>>
                        [] OTHER -> (IF away THEN <<z>> ELSE <<>>) \o <<y>>)
      BY <1>11 DEF SetKey, keys, next, v, x, y, z
    <2>1. ASSUME Kind[c] = "unisonoff" PROVE CallsInv' /\ Made({}) /\ Continue(<<>>)
      <3>1. Continue(<<>>)
        BY <2>0, <2>1
      <3>2. CallsInv' /\ Made({})
        BY <1>1, <3>1, NoCalls, CallsKept DEF Made
      <3> QED  BY <3>1, <3>2
    <2>2. ASSUME Kind[c] = "normal" PROVE CallsInv' /\ Made({x}) /\ Continue(<<x>>)
      <3>1. Continue(<<x>>)
        BY <2>0, <2>2
      <3>2. NewCalls(<<x>>) /\ ToSet(<<x>>) = {x}
        BY <1>1, <1>4, <1>5, <1>10, <2>2, OneCall
      <3>3. CallsInv' /\ Made({x})
        BY <1>1, <3>1, <3>2, CallsKept DEF Made
      <3> QED  BY <3>1, <3>3
    <2>3. ASSUME Kind[c] \notin {"unisonoff", "normal"}, away
          PROVE  CallsInv' /\ Made({z, y}) /\ Continue(<<z, y>>)
      <3>0. Continue(<<z>> \o <<y>>)
        BY <2>0, <2>3
      <3>1. Continue(<<z, y>>)
        BY <3>0, Joined
      <3>2. NewCalls(<<z, y>>) /\ ToSet(<<z, y>>) = {z, y}
        BY <1>1, <1>4, <1>5, <1>10, <2>3, TwoCalls
      <3>3. CallsInv' /\ Made({z, y})
        BY <1>1, <3>1, <3>2, CallsKept DEF Made
      <3> QED  BY <3>1, <3>3
    <2>4. ASSUME Kind[c] \notin {"unisonoff", "normal"}, ~away
          PROVE  CallsInv' /\ Made({y}) /\ Continue(<<y>>)
      <3>0. Continue(<<>> \o <<y>>)
        BY <2>0, <2>4
      <3>1. Continue(<<y>>)
        BY <3>0, Joined
      <3>2. NewCalls(<<y>>) /\ ToSet(<<y>>) = {y}
        BY <1>1, <1>4, <1>5, <1>10, <2>4, OneCall
      <3>3. CallsInv' /\ Made({y})
        BY <1>1, <3>1, <3>2, CallsKept DEF Made
      <3> QED  BY <3>1, <3>3
    <2>5. /\ CallsInv'
          /\ Kind[c] = "unisonoff" => Made({}) /\ Continue(<<>>)
          /\ Kind[c] = "normal" => Made({x}) /\ Continue(<<x>>)
          /\ (Kind[c] \notin {"unisonoff", "normal"} /\ away) => Made({z, y}) /\ Continue(<<z, y>>)
          /\ (Kind[c] \notin {"unisonoff", "normal"} /\ ~away) => Made({y}) /\ Continue(<<y>>)
      BY <2>1, <2>2, <2>3, <2>4
    <2>6. KeysTypeOK' /\ Arrays'
      BY <1>2, <1>6, <1>8, <2>0, <2>5 DEF SetKey, TypeInv, CallsInv, KeysTypeOK, StopsTypeOK, Arrays, manualVars, stopVars
    <2> QED  BY <1>2, <1>3, <1>11, <2>0, <2>5, <2>6 DEF TypeInv, SetKey, x, y, z, next, keys, v
  <1>12. CASE ~change
    <2>1. Continue(<<>>) /\ input' = input
      BY <1>12 DEF SetKey, v
    <2>2. CallsInv' /\ Made({})
      BY <1>1, <2>1, NoCalls, CallsKept DEF Made
    <2>3. KeysTypeOK' /\ Arrays'
      BY <2>1, <2>2 DEF SetKey, TypeInv, CallsInv, KeysTypeOK, StopsTypeOK, Arrays, manualVars, stopVars
    <2> QED  BY <1>2, <1>3, <1>12, <2>1, <2>2, <2>3 DEF TypeInv, SetKey, v
  <1> QED  BY <1>11, <1>12

LEMMA SetToneStep ==
  ASSUME TypeInv, SetTone
  PROVE  LET c == Call.at
             t == NewTone(c, Call.key, Call.vel, Call.next, Call.cancelled)
             x == OutCall(c, t + Keyshift(c), input[c][t])
             y == LastCall(c, Call.key, Call.vel, Call.next)
         IN  /\ TypeInv'
             /\ c \in KeyCouplers /\ Call.key \in KeysOf(Source(c)) /\ Call.cancelled \in BOOLEAN
             /\ t \in KeysOf(Source(c)) \union {-1}
             /\ UNCHANGED <<engaged, flags, input, internal, out, last, through, manualVars, stopVars>>
             /\ tone' = [tone EXCEPT ![c] = t]
             /\ IF t # -1 THEN Made({x, y}) /\ Continue(<<x, y>>)
                          ELSE Made({y}) /\ Continue(<<y>>)
  <1> DEFINE c == Call.at
             t == NewTone(c, Call.key, Call.vel, Call.next, Call.cancelled)
             x == OutCall(c, t + Keyshift(c), input[c][t])
             y == LastCall(c, Call.key, Call.vel, Call.next)
  <1>1. CallsInv /\ calls # <<>> /\ Call.op = "Tone" /\ Call \in KeyCalls /\ CallInRange(Call)
    BY FirstCall DEF TypeInv, SetTone, Doing
  <1>2. /\ c \in KeyCouplers /\ Call.key \in Nat /\ Call.vel \in Levels /\ Call.next \in Int
        /\ Call.cancelled \in BOOLEAN /\ Call.key \in KeysOf(Source(c))
        /\ Call.next \in KeysOf(Source(c)) \union {-1}
    BY <1>1, CallType DEF CallInRange
  <1>3. c \in Couplers /\ Source(c) \in Manuals /\ KeysOf(Source(c)) \subseteq Nat /\ Keyshift(c) \in Int
    BY <1>2, Keyboards, Home, KeyshiftType
  <1>4. t \in KeysOf(Source(c)) \union {-1}
    BY <1>2, <1>3 DEF NewTone, TypeInv, KeysTypeOK
  <1>5. Depth(Call) = 3
    BY <1>1 DEF Depth
  <1> HIDE DEF t
  <1>6. y \in KeyCalls /\ Depth(y) = 3 /\ CallInRange(y) /\ y.op \notin AtOnce
    <2>1. y \in [op : {"Last"}, at : KeyCouplers, key : Nat, vel : Levels, next : Int]
      BY <1>2 DEF LastCall
    <2>2. y.op = "Last" /\ y.at = c /\ y.key = Call.key
      BY DEF LastCall
    <2> QED  BY <1>2, <2>1, <2>2 DEF KeyCalls, Depth, CallInRange, AtOnce
  <1>7. t # -1 => x \in KeyCalls /\ Depth(x) = 3 /\ CallInRange(x)
    <2> SUFFICES ASSUME t # -1 PROVE x \in KeyCalls /\ Depth(x) = 3 /\ CallInRange(x)
      OBVIOUS
    <2>1. t + Keyshift(c) \in Int /\ input[c][t] \in Levels
      BY <1>3, <1>4 DEF TypeInv, KeysTypeOK
    <2>2. x \in [op : {"SetOut"}, at : KeyCouplers, key : Int, vel : Levels] /\ x.op = "SetOut"
      BY <1>2, <2>1 DEF OutCall
    <2> QED  BY <2>2 DEF KeyCalls, Depth, CallInRange
  <1> HIDE DEF x, y
  <1>8. /\ tone' = [tone EXCEPT ![c] = t]
        /\ Continue((IF t # -1 THEN <<x>> ELSE <<>>) \o <<y>>)
    BY DEF SetTone, t, x, y
  <1>9. ASSUME t # -1 PROVE CallsInv' /\ Made({x, y}) /\ Continue(<<x, y>>)
    <2>0. Continue(<<x>> \o <<y>>)
      BY <1>8, <1>9
    <2>1. Continue(<<x, y>>)
      BY <2>0, Joined
    <2>2. NewCalls(<<x, y>>) /\ ToSet(<<x, y>>) = {x, y}
      BY <1>1, <1>5, <1>6, <1>7, <1>9, TwoCalls
    <2>3. CallsInv' /\ Made({x, y})
      BY <1>1, <2>1, <2>2, CallsKept DEF Made
    <2> QED  BY <2>1, <2>3
  <1>10. ASSUME t = -1 PROVE CallsInv' /\ Made({y}) /\ Continue(<<y>>)
    <2>0. Continue(<<>> \o <<y>>)
      BY <1>8, <1>10
    <2>1. Continue(<<y>>)
      BY <2>0, Joined
    <2>2. NewCalls(<<y>>) /\ ToSet(<<y>>) = {y}
      BY <1>1, <1>5, <1>6, OneCall
    <2>3. CallsInv' /\ Made({y})
      BY <1>1, <2>1, <2>2, CallsKept DEF Made
    <2> QED  BY <2>1, <2>3
  <1>11. CallsInv' /\ IF t # -1 THEN Made({x, y}) /\ Continue(<<x, y>>)
                                ELSE Made({y}) /\ Continue(<<y>>)
    BY <1>9, <1>10
  <1>12. KeysTypeOK' /\ Arrays'
    BY <1>2, <1>4, <1>8, <1>11 DEF SetTone, TypeInv, CallsInv, KeysTypeOK, StopsTypeOK, Arrays, manualVars, stopVars
  <1> QED  BY <1>2, <1>4, <1>8, <1>11, <1>12 DEF TypeInv, SetTone, x, y, t

LEMMA SetLastStep ==
  ASSUME TypeInv, SetLast
  PROVE  /\ TypeInv'
         /\ Call.at \in KeyCouplers
         /\ UNCHANGED <<engaged, flags, input, internal, out, tone, through, manualVars, stopVars>>
         /\ Made({}) /\ Continue(<<>>)
  <1> DEFINE c == Call.at
             next == NextPressed(c, input[c], Call.next)
             n == NewLast(c, Call.key, Call.vel, Call.next)
  <1>1. CallsInv /\ calls # <<>> /\ Call.op = "Last" /\ Call \in KeyCalls /\ CallInRange(Call)
    BY FirstCall DEF TypeInv, SetLast, Doing
  <1>2. c \in KeyCouplers /\ c \in Couplers /\ Source(c) \in Manuals /\ Call.key \in KeysOf(Source(c))
    BY <1>1, CallType, Keyboards, Home DEF CallInRange
  <1>3. input[c] \in [KeysOf(Source(c)) -> Levels]
    BY <1>2 DEF TypeInv, KeysTypeOK
  <1>4. next \in KeysOf(Source(c)) \union {-1}
    BY <1>2, <1>3, NextPressedType
  <1> HIDE DEF next
  <1>5. n \in KeysOf(Source(c)) \union {-1}
    BY <1>2, <1>4 DEF NewLast, next
  <1> HIDE DEF n
  <1>6. last' = [last EXCEPT ![c] = n] /\ Continue(<<>>)
    BY DEF SetLast, n
  <1>7. CallsInv' /\ Made({})
    BY <1>1, <1>6, NoCalls, CallsKept DEF Made
  <1>8. KeysTypeOK' /\ Arrays'
    BY <1>2, <1>5, <1>6, <1>7 DEF SetLast, TypeInv, CallsInv, KeysTypeOK, StopsTypeOK, Arrays, manualVars, stopVars
  <1> QED  BY <1>2, <1>6, <1>7, <1>8 DEF TypeInv, SetLast

LEMMA SetOutStep ==
  ASSUME TypeInv, SetOut
  PROVE  LET c == Call.at
             n == Call.key
             v == Call.vel
             x == KeyCall(Dest[c], n, Decrement(v), c)
         IN  /\ TypeInv'
             /\ c \in KeyCouplers /\ v \in Levels
             /\ UNCHANGED <<engaged, flags, input, tone, last, through, manualVars, stopVars>>
             /\ IF n \in KeysOf(Dest[c]) /\ internal[c][n] # v
                  THEN /\ internal' = [internal EXCEPT ![c][n] = v]
                       /\ engaged[c] => /\ out' = [out EXCEPT ![c][n] = Decrement(v)]
                                        /\ Made({x}) /\ Continue(<<x>>)
                       /\ ~engaged[c] => UNCHANGED out /\ Made({}) /\ Continue(<<>>)
                  ELSE UNCHANGED <<internal, out>> /\ Made({}) /\ Continue(<<>>)
  <1> DEFINE c == Call.at
             n == Call.key
             v == Call.vel
             x == KeyCall(Dest[c], n, Decrement(v), c)
             change == n \in KeysOf(Dest[c]) /\ internal[c][n] # v
  <1>1. CallsInv /\ calls # <<>> /\ Call.op = "SetOut" /\ Call \in KeyCalls
    BY FirstCall DEF TypeInv, SetOut, Doing
  <1>2. /\ c \in KeyCouplers /\ c \in Couplers /\ v \in Levels /\ Decrement(v) \in Levels
        /\ Dest[c] \in Manuals /\ KeysOf(Dest[c]) \subseteq Nat /\ c \in Slots(Dest[c])
    BY <1>1, CallType, Keyboards, Bounds DEF Slots
  <1>3. Depth(Call) = 3
    BY <1>1 DEF Depth
  <1>4. n \in KeysOf(Dest[c]) => x \in KeyCalls /\ Depth(x) = 3 /\ CallInRange(x)
    <2> SUFFICES ASSUME n \in KeysOf(Dest[c]) PROVE x \in KeyCalls /\ Depth(x) = 3 /\ CallInRange(x)
      OBVIOUS
    <2>1. x \in [op : {"Key"}, at : Manuals, key : Nat, vel : Levels, slot : Couplers \union {Own}]
      BY <1>2 DEF KeyCall
    <2>2. x.op = "Key" /\ x.at = Dest[c] /\ x.key = n /\ x.slot = c
      BY DEF KeyCall
    <2> QED  BY <1>2, <2>1, <2>2 DEF KeyCalls, Depth, CallInRange
  <1> HIDE DEF x
  <1>5. CASE change /\ engaged[c]
    <2>1. Continue(<<x>>) /\ internal' = [internal EXCEPT ![c][n] = v] /\ out' = [out EXCEPT ![c][n] = Decrement(v)]
      BY <1>5 DEF SetOut, x
    <2>2. NewCalls(<<x>>) /\ ToSet(<<x>>) = {x}
      BY <1>1, <1>3, <1>4, <1>5, OneCall
    <2>3. CallsInv' /\ Made({x})
      BY <1>1, <2>1, <2>2, CallsKept DEF Made
    <2>4. KeysTypeOK' /\ Arrays'
      BY <1>2, <1>5, <2>1, <2>3 DEF SetOut, TypeInv, CallsInv, KeysTypeOK, StopsTypeOK, Arrays, manualVars, stopVars
    <2> QED  BY <1>2, <1>5, <2>1, <2>3, <2>4 DEF TypeInv, SetOut, x
  <1>6. CASE change /\ ~engaged[c]
    <2>1. Continue(<<>>) /\ internal' = [internal EXCEPT ![c][n] = v] /\ out' = out
      BY <1>6 DEF SetOut
    <2>2. CallsInv' /\ Made({})
      BY <1>1, <2>1, NoCalls, CallsKept DEF Made
    <2>3. KeysTypeOK' /\ Arrays'
      BY <1>2, <1>6, <2>1, <2>2 DEF SetOut, TypeInv, CallsInv, KeysTypeOK, StopsTypeOK, Arrays, manualVars, stopVars
    <2> QED  BY <1>2, <1>6, <2>1, <2>2, <2>3 DEF TypeInv, SetOut
  <1>7. CASE ~change
    <2>1. Continue(<<>>) /\ internal' = internal /\ out' = out
      BY <1>7 DEF SetOut
    <2>2. CallsInv' /\ Made({})
      BY <1>1, <2>1, NoCalls, CallsKept DEF Made
    <2>3. KeysTypeOK' /\ Arrays'
      BY <2>1, <2>2 DEF SetOut, TypeInv, CallsInv, KeysTypeOK, StopsTypeOK, Arrays, manualVars, stopVars
    <2> QED  BY <1>2, <1>7, <2>1, <2>2, <2>3 DEF TypeInv, SetOut
  <1> QED  BY <1>5, <1>6, <1>7

LEMMA EmitStep ==
  ASSUME TypeInv, Emit
  PROVE  LET c == Call.at
             n == Call.key
             v == IF Call.on THEN Decrement(internal[c][n]) ELSE 0
             x == KeyCall(Dest[c], n, v, c)
         IN  /\ TypeInv'
             /\ c \in KeyCouplers /\ n \in KeysOf(Dest[c]) /\ Call.on \in BOOLEAN
             /\ UNCHANGED <<engaged, flags, input, internal, tone, last, through, manualVars, stopVars>>
             /\ IF out[c][n] # v
                  THEN out' = [out EXCEPT ![c][n] = v] /\ Made({x}) /\ Continue(<<x>>)
                  ELSE UNCHANGED out /\ Made({}) /\ Continue(<<>>)
  <1> DEFINE c == Call.at
             n == Call.key
             v == IF Call.on THEN Decrement(internal[c][n]) ELSE 0
             x == KeyCall(Dest[c], n, v, c)
  <1>1. CallsInv /\ calls # <<>> /\ Call.op = "Emit" /\ Call \in KeyCalls /\ CallInRange(Call)
    BY FirstCall DEF TypeInv, Emit, Doing
  <1>2. /\ c \in KeyCouplers /\ n \in KeysOf(Dest[c]) /\ Call.on \in BOOLEAN
        /\ c \in Couplers /\ Dest[c] \in Manuals /\ n \in Nat /\ c \in Slots(Dest[c])
    BY <1>1, CallType, Keyboards DEF CallInRange, Slots
  <1>3. v \in Levels
    <2>1. internal[c][n] \in Levels
      BY <1>2 DEF TypeInv, KeysTypeOK
    <2> QED  BY <2>1, Bounds
  <1>4. Depth(Call) = 4
    BY <1>1 DEF Depth
  <1> HIDE DEF v
  <1>5. x \in KeyCalls /\ Depth(x) = 3 /\ CallInRange(x)
    <2>1. x \in [op : {"Key"}, at : Manuals, key : Nat, vel : Levels, slot : Couplers \union {Own}]
      BY <1>2, <1>3 DEF KeyCall
    <2>2. x.op = "Key" /\ x.at = Dest[c] /\ x.key = n /\ x.slot = c
      BY DEF KeyCall
    <2> QED  BY <1>2, <2>1, <2>2 DEF KeyCalls, Depth, CallInRange
  <1> HIDE DEF x
  <1>6. CASE out[c][n] # v
    <2>1. Continue(<<x>>) /\ out' = [out EXCEPT ![c][n] = v]
      BY <1>6 DEF Emit, x, v
    <2>2. NewCalls(<<x>>) /\ ToSet(<<x>>) = {x}
      BY <1>1, <1>4, <1>5, OneCall
    <2>3. CallsInv' /\ Made({x})
      BY <1>1, <2>1, <2>2, CallsKept DEF Made
    <2>4. KeysTypeOK' /\ Arrays'
      BY <1>2, <1>3, <2>1, <2>3 DEF Emit, TypeInv, CallsInv, KeysTypeOK, StopsTypeOK, Arrays, manualVars, stopVars
    <2> QED  BY <1>2, <1>6, <2>1, <2>3, <2>4 DEF TypeInv, Emit, x, v
  <1>7. CASE ~(out[c][n] # v)
    <2>1. Continue(<<>>) /\ out' = out
      BY <1>7 DEF Emit, v
    <2>2. CallsInv' /\ Made({})
      BY <1>1, <2>1, NoCalls, CallsKept DEF Made
    <2>3. KeysTypeOK' /\ Arrays'
      BY <2>1, <2>2 DEF Emit, TypeInv, CallsInv, KeysTypeOK, StopsTypeOK, Arrays, manualVars, stopVars
    <2> QED  BY <1>2, <1>7, <2>1, <2>2, <2>3 DEF TypeInv, Emit, v
  <1> QED  BY <1>6, <1>7

\* Of a unison-off coupler the manual is told, of another one every key again.
LEMMA CoupleThroughStep ==
  ASSUME TypeInv, CoupleThrough
  PROVE  LET c == Call.at
             x == UnisonCall(Source(c), engaged[c])
             new == [i \in 1..NKeys[Dest[c]] |-> RefreshCall(c, i - 1)]
         IN  /\ TypeInv'
             /\ c \in Couplers /\ Call.on \in BOOLEAN
             /\ UNCHANGED <<engaged, input, internal, out, tone, last, through, stopVars>>
             /\ UNCHANGED <<midiKey, bySlot, division, unisonOff>>
             /\ flags' = [flags EXCEPT ![c] = IF Call.on THEN Flag ELSE {}]
             /\ IF Kind[c] = "unisonoff" THEN Made({x}) /\ Continue(<<x>>)
                  ELSE Made({RefreshCall(c, k) : k \in KeysOf(Dest[c])}) /\ Continue(new)
  <1> DEFINE c == Call.at
             x == UnisonCall(Source(c), engaged[c])
             len == NKeys[Dest[c]]
             new == [i \in 1..len |-> RefreshCall(c, i - 1)]
  <1>1. CallsInv /\ calls # <<>> /\ Call.op = "Through" /\ Call \in KeyCalls
    BY FirstCall DEF TypeInv, CoupleThrough, Doing
  <1>2. /\ c \in Couplers /\ Call.on \in BOOLEAN /\ Source(c) \in Manuals /\ Dest[c] \in Manuals
        /\ len \in Nat
    BY <1>1, CallType, Home, Keyboards
  <1>3. /\ flags' = [flags EXCEPT ![c] = IF Call.on THEN Flag ELSE {}]
        /\ Continue(IF Kind[c] = "unisonoff" THEN <<x>> ELSE new)
    <2>1. CASE Kind[c] = "unisonoff"
      BY <2>1 DEF CoupleThrough, ForKeys
    <2>2. CASE Kind[c] # "unisonoff"
      BY <2>2 DEF CoupleThrough, ForKeys
    <2> QED  BY <2>1, <2>2
  <1>4. Depth(Call) = 5
    BY <1>1 DEF Depth
  <1>5. ASSUME Kind[c] = "unisonoff"
        PROVE  CallsInv' /\ Made({x}) /\ Continue(<<x>>)
    <2>1. engaged[c] \in BOOLEAN
      BY <1>2 DEF TypeInv, KeysTypeOK
    <2>2. x \in [op : {"Unison"}, at : Manuals, on : BOOLEAN]
      BY <1>2, <2>1 DEF UnisonCall
    <2>3. x.op = "Unison"
      BY DEF UnisonCall
    <2>4. x \in KeyCalls /\ Depth(x) = 4 /\ CallInRange(x)
      BY <2>2, <2>3 DEF KeyCalls, Depth, CallInRange
    <2>5. NewCalls(<<x>>) /\ ToSet(<<x>>) = {x}
      BY <1>1, <1>4, <2>4, OneCall
    <2>6. Continue(<<x>>)
      BY <1>3, <1>5
    <2> QED  BY <1>1, <2>5, <2>6, CallsKept DEF Made
  <1>6. ASSUME Kind[c] # "unisonoff"
        PROVE  CallsInv' /\ Made({RefreshCall(c, k) : k \in KeysOf(Dest[c])}) /\ Continue(new)
    <2>1. c \in KeyCouplers
      BY <1>2, <1>6 DEF KeyCouplers
    <2>2. \A i \in 1..len : /\ RefreshCall(c, i - 1) \in KeyCalls
                            /\ Depth(RefreshCall(c, i - 1)) = 4
                            /\ CallInRange(RefreshCall(c, i - 1)) /\ RefreshCall(c, i - 1).op \notin AtOnce
      <3> SUFFICES ASSUME NEW i \in 1..len
                   PROVE  /\ RefreshCall(c, i - 1) \in KeyCalls
                          /\ Depth(RefreshCall(c, i - 1)) = 4
                          /\ CallInRange(RefreshCall(c, i - 1)) /\ RefreshCall(c, i - 1).op \notin AtOnce
        OBVIOUS
      <3>1. i - 1 \in KeysOf(Dest[c]) /\ i - 1 \in Nat
        BY <1>2 DEF KeysOf
      <3> QED  BY <1>2, <2>1, <3>1 DEF RefreshCall, KeyCalls, Depth, CallInRange, AtOnce
    <2>3. Continue(new)
      BY <1>3, <1>6
    <2> HIDE DEF new, len
    <2>4. new \in [1..len -> KeyCalls] /\ \A i \in 1..len : new[i] = RefreshCall(c, i - 1)
      BY <2>2 DEF new
    <2>5. NewCalls(new) /\ ToSet(new) = {new[i] : i \in 1..len}
      <3>1. \A i \in 1..len : Depth(new[i]) = 4 /\ CallInRange(new[i]) /\ new[i].op \notin AtOnce
        BY <2>2, <2>4
      <3>2. 4 \in 0..5 /\ 4 <= Depth(Call)
        BY <1>4
      <3> QED  BY <1>1, <1>2, <2>4, <3>1, <3>2, ManyCalls
    <2>6. {new[i] : i \in 1..len} = {RefreshCall(c, k) : k \in KeysOf(Dest[c])}
      <3>1. \A k \in KeysOf(Dest[c]) : k + 1 \in 1..len /\ (k + 1) - 1 = k
        BY <1>2 DEF KeysOf, len
      <3>2. \A i \in 1..len : i - 1 \in KeysOf(Dest[c])
        BY <1>2 DEF KeysOf, len
      <3>3. ASSUME NEW k \in KeysOf(Dest[c]) PROVE RefreshCall(c, k) = new[k + 1]
        BY <2>4, <3>1
      <3> QED  BY <2>4, <3>1, <3>2, <3>3
    <2> QED  BY <1>1, <2>3, <2>5, <2>6, CallsKept DEF Made
  <1> HIDE DEF x, new, len
  <1>7. CallsInv'
    BY <1>5, <1>6
  <1>8. repeated' \in [Manuals -> BOOLEAN]
    BY <1>2 DEF CoupleThrough, TypeInv, KeysTypeOK
  <1>9. KeysTypeOK' /\ Arrays'
    BY <1>2, <1>3, <1>7, <1>8 DEF CoupleThrough, TypeInv, CallsInv, KeysTypeOK, StopsTypeOK, Arrays, stopVars
  <1> QED  BY <1>2, <1>3, <1>5, <1>6, <1>7, <1>9 DEF TypeInv, CoupleThrough, x, new, len

LEMMA RefreshStep ==
  ASSUME TypeInv, Refresh
  PROVE  LET d == Call.at
             m == Dest[d]
             k == Call.key
         IN  /\ TypeInv'
             /\ d \in KeyCouplers /\ m \in Manuals /\ k \in KeysOf(m)
             /\ UNCHANGED <<couplerVars, manualVars, stopVars>>
             /\ IF out[d][k] > 0
                  THEN /\ Made({CouplerCall(c, k) : c \in {c \in Couplers : Source(c) = m}})
                       /\ Continue(PropagateKeyToCouplers(m, k))
                  ELSE Made({}) /\ Continue(<<>>)
  <1> DEFINE d == Call.at
             m == Dest[d]
             k == Call.key
             new == PropagateKeyToCouplers(m, k)
             made == {CouplerCall(c, k) : c \in {c \in Couplers : Source(c) = m}}
  <1>1. CallsInv /\ calls # <<>> /\ Call.op = "Refresh" /\ Call \in KeyCalls /\ CallInRange(Call)
    BY FirstCall DEF TypeInv, Refresh, Doing
  <1>2. d \in KeyCouplers /\ d \in Couplers /\ m \in Manuals /\ k \in KeysOf(m)
    BY <1>1, CallType, Keyboards DEF CallInRange
  <1>3. Depth(Call) = 4
    BY <1>1 DEF Depth
  <1>4. ASSUME out[d][k] > 0 PROVE CallsInv' /\ Made(made) /\ Continue(new)
    <2>1. Continue(new)
      BY <1>4 DEF Refresh
    <2>2. new \in Seq(KeyCalls) /\ ToSet(new) = made
      BY <1>2, Propagated
    <2>3. ASSUME NEW x \in made
          PROVE  Depth(x) = 3 /\ CallInRange(x) /\ x.op \notin AtOnce
      <3>1. PICK c \in Couplers : Source(c) = m /\ x = CouplerCall(c, k)
        OBVIOUS
      <3> QED  BY <1>2, <3>1 DEF CouplerCall, Depth, CallInRange, AtOnce
    <2> HIDE DEF new, made
    <2>4. 3 \in 0..5 /\ 3 <= Depth(Call)
      BY <1>3
    <2>5. NewCalls(new)
      BY <1>1, <2>2, <2>3, <2>4, CallSet
    <2> QED  BY <1>1, <2>1, <2>2, <2>5, CallsKept DEF Made
  <1>5. ASSUME ~(out[d][k] > 0) PROVE CallsInv' /\ Made({}) /\ Continue(<<>>)
    <2>1. Continue(<<>>)
      BY <1>5 DEF Refresh
    <2> QED  BY <1>1, <2>1, NoCalls, CallsKept DEF Made
  <1>6. CallsInv'
    BY <1>4, <1>5
  <1>7. KeysTypeOK' /\ Arrays'
    BY <1>6 DEF Refresh, TypeInv, CallsInv, KeysTypeOK, StopsTypeOK, Arrays, couplerVars, manualVars, stopVars
  <1> QED  BY <1>2, <1>4, <1>5, <1>6, <1>7 DEF TypeInv, Refresh

LEMMA UnisonCount ==
  ASSUME NEW m
  PROVE  /\ IsFiniteSet(UnisonCouplers(m)) /\ Cardinality(UnisonCouplers(m)) \in Nat
         /\ Cardinality(UnisonCouplers(m)) = 0 <=> UnisonCouplers(m) = {}
  <1>1. UnisonCouplers(m) \subseteq Couplers
    BY DEF UnisonCouplers
  <1>2. IsFiniteSet(UnisonCouplers(m))
    BY <1>1, CouplersAssumption, FS_Subset
  <1> QED  BY <1>2, FS_CardinalityType, FS_EmptySet

LEMMA PrepareStep ==
  ASSUME TypeInv, Prepare
  PROVE  /\ TypeInv'
         /\ Pending = {Call} /\ Pending' = {} /\ calls' = <<>> /\ Call = PrepareCall
         /\ midiKey' = NoMidiKeys /\ bySlot' = NoSlots /\ division' = NoDivision
         /\ input' = NoInput /\ internal' = NoOutput /\ out' = NoOutput
         /\ unisonOff' = [m \in Manuals |-> Cardinality(UnisonCouplers(m)) % Wrap]
         /\ PrepareStops
         /\ UNCHANGED <<engaged, flags, tone, last, through>>
  <1>1. CallsInv /\ calls # <<>> /\ Call.op = "Prepare" /\ Call \in KeyCalls
    BY FirstCall DEF TypeInv, Prepare, Doing
  <1>2. Tail(calls) = <<>> /\ ToCome = {} /\ Pending = {Call} \union ToCome
    BY <1>1, FirstCall
  <1>3. Call = PrepareCall
    BY <1>1 DEF KeyCalls, StopCalls, PrepareCall
  <1>4. CallsInv' /\ Pending' = ToSet(<<>>) \union ToCome
    BY <1>1, NoCalls, CallsKept DEF Prepare
  <1>5. calls' = <<>>
    BY <1>2 DEF Prepare, Continue
  <1>6. KeysTypeOK' /\ Arrays'
    <2>1. \A m \in Manuals : Cardinality(UnisonCouplers(m)) % Wrap \in 0..Wrap - 1
      BY UnisonCount, Bounds
    <2>2. \A m \in Manuals : /\ midiKey'[m] \in [Playable[m] -> PipeLevels]
                             /\ bySlot'[m] \in [KeysOf(m) -> [Slots(m) -> Levels]]
                             /\ division'[m] \in [KeysOf(m) -> PipeLevels]
      BY Bounds DEF Prepare, NoMidiKeys, NoSlots, NoDivision
    <2>3. \A c \in Couplers : input'[c] \in [KeysOf(Source(c)) -> Levels]
      BY Bounds DEF Prepare, NoInput
    <2>4. \A c \in KeyCouplers : /\ internal'[c] \in [KeysOf(Dest[c]) -> Levels]
                                 /\ out'[c] \in [KeysOf(Dest[c]) -> Levels]
      BY Bounds DEF Prepare, NoOutput
    <2>5. unisonOff' \in [Manuals -> 0..Wrap - 1]
      BY <2>1 DEF Prepare
    <2>6. StopsTypeOK'
      BY Bounds DEF Prepare, PrepareStops, NoStopKeys, NotAsked, NoPipes, StopsTypeOK, TypeInv, KeysTypeOK
    <2>7. Arrays'
      BY DEF Prepare, PrepareStops, NoMidiKeys, NoSlots, NoDivision, NoInput, NoOutput,
             NoStopKeys, NotAsked, NoPipes, TypeInv, Arrays
    <2> QED  BY <1>4, <2>2, <2>3, <2>4, <2>5, <2>6, <2>7 DEF Prepare, TypeInv, CallsInv, KeysTypeOK
  <1> QED  BY <1>2, <1>3, <1>4, <1>5, <1>6, EmptyToSet DEF TypeInv, Prepare

LEMMA RanksOfStops ==
  ASSUME NEW s \in Stops, NEW i \in DOMAIN RankInfo[s]
  PROVE  /\ RankInfo[s][i].rank \in Ranks /\ RankInfo[s][i].firstKey \in Nat \ {0}
         /\ RankInfo[s][i].firstPipe \in Nat \ {0} /\ RankInfo[s][i].count \in Nat \ {0}
         /\ <<s, i>> \in Users(RankInfo[s][i].rank)
  <1> DEFINE Info == [rank : Ranks, firstKey : Nat \ {0}, firstPipe : Nat \ {0}, count : Nat \ {0}]
  <1>1. RankInfo[s] \in Seq(Info)
    BY StopsAssumption
  <1>2. RankInfo[s][i] \in Info
    <2>1. i \in 1..Len(RankInfo[s])
      BY <1>1, LenProperties
    <2> QED  BY <1>1, <2>1, ElementOfSeq
  <1>3. <<s, i>> \in Users(RankInfo[s][i].rank)
    BY DEF Users
  <1> QED  BY <1>2, <1>3

LEMMA UserIs ==
  ASSUME NEW r, NEW u \in Users(r)
  PROVE  /\ u[1] \in Stops /\ u[2] \in DOMAIN RankInfo[u[1]] /\ RankInfo[u[1]][u[2]].rank = r
         /\ u = <<u[1], u[2]>>
  BY DEF Users

\* The new maximum is the maximum.
LEMMA MaximumKept ==
  ASSUME NEW b \in Nat, NEW others \in SUBSET (0..b), NEW before \in 0..b, NEW vel \in 0..b, NEW old,
         old = SetMax({0} \union others \union {before})
  PROVE  /\ NewMaximum(old, before, vel, others) = SetMax({0} \union others \union {vel})
         /\ NewMaximum(old, before, vel, others) \in 0..b
  <1> DEFINE A == {0} \union others \union {before}
             B == {0} \union others \union {vel}
             C == others \union {vel}
  <1>1. /\ A \in SUBSET (0..b) /\ A # {} /\ B \in SUBSET (0..b) /\ B # {}
        /\ C \in SUBSET (0..b) /\ C # {}
    OBVIOUS
  <1>2. old \in A /\ \A y \in A : old >= y
    BY <1>1, Highest
  <1>3. SetMax(C) \in C /\ \A y \in C : SetMax(C) >= y
    BY <1>1, Highest
  <1>4. old \in 0..b /\ \A y \in others : y \in 0..b /\ old >= y
    BY <1>1, <1>2
  <1> DEFINE n == NewMaximum(old, before, vel, others)
  <1>5. n \in B /\ \A y \in B : n >= y
    <2>1. CASE vel > old
      BY <1>4, <2>1 DEF NewMaximum
    <2>2. CASE ~(vel > old) /\ vel < before /\ vel >= old
      BY <1>4, <2>2 DEF NewMaximum
    <2>3. CASE ~(vel > old) /\ vel < before /\ ~(vel >= old)
      <3>1. n = SetMax(C)
        BY <2>3 DEF NewMaximum
      <3>2. n \in C /\ (\A y \in C : n >= y) /\ n \in 0..b
        BY <1>1, <1>3, <3>1
      <3> QED  BY <3>2
    <2>4. CASE ~(vel > old) /\ ~(vel < before)
      <3>1. n = old
        BY <2>4 DEF NewMaximum
      <3>2. old >= vel /\ vel >= before
        BY <1>4, <2>4
      <3>3. old \in B
        BY <1>2, <1>4, <3>2
      <3> QED  BY <1>4, <3>1, <3>2, <3>3
    <2> QED  BY <2>1, <2>2, <2>3, <2>4
  <1>6. SetMax(B) = n
    <2>1. B \in SUBSET Nat
      BY <1>1
    <2> HIDE DEF B, n
    <2> QED  BY <1>5, <2>1, HighestIs
  <1> QED  BY <1>1, <1>5, <1>6

\* A pipe is as loud as the loudest stop asks: what RankKey relies on.
PipeInv ==
  \A r \in Ranks : \A p \in Pipes(r) :
    pipe[r][p] = SetMax({0} \union {asked[r][p][u] : u \in Users(r)})

LEMMA RankKeyStep ==
  ASSUME TypeInv, PipeInv, RankKey, UNCHANGED <<couplerVars, manualVars>>
  PROVE  LET s    == Call.at[1]
             i    == Call.at[2]
             info == RankInfo[s][i]
             r    == info.rank
             p    == PipeOf(info, Call.key)
         IN  /\ TypeInv' /\ PipeInv'
             /\ s \in Stops /\ i \in DOMAIN RankInfo[s] /\ Call.at = <<s, i>> /\ r \in Ranks
             /\ Call.key \in Nat /\ Call.vel \in PipeLevels
             /\ UNCHANGED <<stopOn, stopKey, couplerVars, manualVars>>
             /\ Made({}) /\ Continue(<<>>)
             /\ IF Reaches(info, Call.key) /\ p \in Pipes(r)
                  THEN asked' = [asked EXCEPT ![r][p][Call.at] = Call.vel]
                  ELSE UNCHANGED asked
  <1> DEFINE s    == Call.at[1]
             i    == Call.at[2]
             info == RankInfo[s][i]
             r    == info.rank
             p    == PipeOf(info, Call.key)
             vel  == Call.vel
             reach == Reaches(info, Call.key) /\ p \in Pipes(r)
             others == {asked[r][p][u] : u \in Users(r) \ {Call.at}}
  <1>1. CallsInv /\ calls # <<>> /\ Call.op = "RankKey" /\ Call \in KeyCalls
    BY FirstCall DEF TypeInv, RankKey, Doing
  <1>2. PICK s1 \in Stops : \E i1 \in DOMAIN RankInfo[s1] : Call.at = <<s1, i1>>
    BY <1>1, CallType
  <1>3. s \in Stops /\ i \in DOMAIN RankInfo[s] /\ Call.at = <<s, i>>
    BY <1>2
  <1>4. r \in Ranks /\ Call.at \in Users(r)
    BY <1>3, RanksOfStops
  <1>5. Call.key \in Nat /\ vel \in PipeLevels
    BY <1>1, CallType
  <1>6. CallsInv' /\ Made({}) /\ Continue(<<>>)
    <2>1. Continue(<<>>)
      BY DEF RankKey
    <2> QED  BY <1>1, <2>1, NoCalls, CallsKept DEF Made
  <1> HIDE DEF s, i, r, p
  <1>7. CASE reach
    <2>1. /\ asked' = [asked EXCEPT ![r][p][Call.at] = vel]
          /\ pipe' = [pipe EXCEPT ![r][p] = NewMaximum(@, asked[r][p][Call.at], vel, others)]
      BY <1>7 DEF RankKey, s, i, r, p
    <2>2. /\ asked[r] \in [Pipes(r) -> [Users(r) -> PipeLevels]] /\ DOMAIN asked = Ranks
          /\ pipe[r] \in [Pipes(r) -> PipeLevels] /\ DOMAIN pipe = Ranks
      BY <1>4 DEF TypeInv, KeysTypeOK, StopsTypeOK, Arrays
    <2>3. asked[r][p] \in [Users(r) -> PipeLevels]
      BY <1>7, <2>2
    <2> DEFINE old == pipe[r][p]
               before == asked[r][p][Call.at]
               n == NewMaximum(old, before, vel, others)
    <2>4. /\ MaxVelocity \in Nat /\ others \in SUBSET (0..MaxVelocity)
          /\ before \in 0..MaxVelocity /\ vel \in 0..MaxVelocity
      BY <1>4, <1>5, <2>3, Bounds DEF PipeLevels
    <2>5. {0} \union {asked[r][p][u] : u \in Users(r)} = {0} \union others \union {before}
      BY <1>4
    <2>6. old = SetMax({0} \union others \union {before})
      BY <1>4, <1>7, <2>5 DEF PipeInv
    <2> HIDE DEF old, before, others
    <2>7. n = SetMax({0} \union others \union {vel}) /\ n \in 0..MaxVelocity
      BY <2>4, <2>6, MaximumKept
    <2> HIDE DEF n
    <2>8. pipe' = [pipe EXCEPT ![r][p] = n]
      BY <2>1 DEF n, old, before
    <2>9. StopsTypeOK' /\ DOMAIN asked' = Ranks /\ DOMAIN pipe' = Ranks
      <3>1. \A r1 \in Ranks : /\ asked'[r1] \in [Pipes(r1) -> [Users(r1) -> PipeLevels]]
                              /\ pipe'[r1] \in [Pipes(r1) -> PipeLevels]
        <4> SUFFICES ASSUME NEW r1 \in Ranks
                     PROVE  /\ asked'[r1] \in [Pipes(r1) -> [Users(r1) -> PipeLevels]]
                            /\ pipe'[r1] \in [Pipes(r1) -> PipeLevels]
          OBVIOUS
        <4>1. CASE r1 # r
          BY <2>1, <2>8, <4>1 DEF TypeInv, KeysTypeOK, StopsTypeOK
        <4>2. CASE r1 = r
          <5>1. pipe'[r] = [pipe[r] EXCEPT ![p] = n]
            BY <1>4, <2>2, <2>8
          <5>2. asked'[r] = [asked[r] EXCEPT ![p] = [asked[r][p] EXCEPT ![Call.at] = vel]]
            BY <1>4, <2>1, <2>2
          <5>3. [asked[r][p] EXCEPT ![Call.at] = vel] \in [Users(r) -> PipeLevels]
            BY <1>5, <2>3
          <5>4. n \in PipeLevels
            BY <2>7 DEF PipeLevels
          <5> QED  BY <2>2, <4>2, <5>1, <5>2, <5>3, <5>4
        <4> QED  BY <4>1, <4>2
      <3>2. DOMAIN asked' = Ranks /\ DOMAIN pipe' = Ranks
        BY <2>1, <2>2, <2>8
      <3> QED  BY <3>1, <3>2 DEF RankKey, TypeInv, KeysTypeOK, StopsTypeOK
    <2>10. KeysTypeOK' /\ Arrays'
      BY <1>6, <2>9 DEF RankKey, TypeInv, CallsInv, KeysTypeOK, Arrays, couplerVars, manualVars
    <2>11. PipeInv'
      <3> SUFFICES ASSUME NEW r1 \in Ranks, NEW p1 \in Pipes(r1)
                   PROVE  pipe'[r1][p1] = SetMax({0} \union {asked'[r1][p1][u] : u \in Users(r1)})
        BY DEF PipeInv
      <3>1. CASE r1 = r /\ p1 = p
        <4>1. pipe'[r][p] = n
          BY <1>4, <1>7, <2>2, <2>8
        <4>2. \A u \in Users(r) : asked'[r][p][u] = IF u = Call.at THEN vel ELSE asked[r][p][u]
          BY <1>4, <1>7, <2>1, <2>2, <2>3
        <4>3. {0} \union {asked'[r][p][u] : u \in Users(r)} = {0} \union others \union {vel}
          BY <1>4, <4>2 DEF others
        <4> QED  BY <2>7, <3>1, <4>1, <4>3
      <3>2. CASE ~(r1 = r /\ p1 = p)
        <4>1. pipe'[r1][p1] = pipe[r1][p1] /\ asked'[r1][p1] = asked[r1][p1]
          BY <1>4, <2>1, <2>2, <2>8, <3>2
        <4> QED  BY <4>1 DEF PipeInv
      <3> QED  BY <3>1, <3>2
    <2> QED  BY <1>3, <1>4, <1>5, <1>6, <1>7, <2>1, <2>10, <2>11 DEF TypeInv, RankKey, s, i, r, p
  <1>8. CASE ~reach
    <2>1. asked' = asked /\ pipe' = pipe
      BY <1>8 DEF RankKey, s, i, r, p
    <2>2. KeysTypeOK' /\ Arrays'
      BY <1>6, <2>1 DEF RankKey, TypeInv, CallsInv, KeysTypeOK, StopsTypeOK, Arrays, couplerVars, manualVars
    <2>3. PipeInv'
      BY <2>1 DEF PipeInv
    <2> QED  BY <1>3, <1>4, <1>5, <1>6, <1>8, <2>1, <2>2, <2>3 DEF TypeInv, RankKey, s, i, r, p
  <1> QED  BY <1>7, <1>8

LEMMA SetRankKeyStateStep ==
  ASSUME TypeInv, SetRankKeyState, UNCHANGED <<couplerVars, manualVars>>
  PROVE  LET s   == Call.at
             new == [i \in DOMAIN RankInfo[s] |-> RankKeyCall(s, i, Call.key, Call.vel)]
         IN  /\ TypeInv'
             /\ s \in Stops /\ Call.key \in Nat /\ Call.vel \in PipeLevels
             /\ UNCHANGED <<stopVars, couplerVars, manualVars>>
             /\ Made({RankKeyCall(s, i, Call.key, Call.vel) : i \in DOMAIN RankInfo[s]})
             /\ Continue(new)
  <1> DEFINE s   == Call.at
             n   == Len(RankInfo[s])
             new == [i \in DOMAIN RankInfo[s] |-> RankKeyCall(s, i, Call.key, Call.vel)]
  <1>1. CallsInv /\ calls # <<>> /\ Call.op = "Ranks" /\ Call \in KeyCalls
    BY FirstCall DEF TypeInv, SetRankKeyState, Doing
  <1>2. s \in Stops /\ Call.key \in Nat /\ Call.vel \in PipeLevels
    BY <1>1, CallType
  <1>3. n \in Nat /\ DOMAIN RankInfo[s] = 1..n
    BY <1>2, StopsAssumption, LenProperties
  <1>4. Continue(new)
    BY DEF SetRankKeyState
  <1>5. Depth(Call) = 1
    BY <1>1 DEF Depth
  <1>6. \A i \in 1..n : LET x == RankKeyCall(s, i, Call.key, Call.vel)
                        IN  x \in KeyCalls /\ Depth(x) = 0 /\ CallInRange(x) /\ x.op \notin AtOnce
    <2> SUFFICES ASSUME NEW i \in 1..n
                 PROVE  LET x == RankKeyCall(s, i, Call.key, Call.vel)
                        IN  x \in KeyCalls /\ Depth(x) = 0 /\ CallInRange(x) /\ x.op \notin AtOnce
      OBVIOUS
    <2> DEFINE x == RankKeyCall(s, i, Call.key, Call.vel)
    <2>1. <<s, i>> \in UNION {{t} \X DOMAIN RankInfo[t] : t \in Stops}
      BY <1>2, <1>3
    <2>2. x \in StopCalls
      BY <1>2, <2>1 DEF RankKeyCall, StopCalls
    <2>3. x.op = "RankKey"
      BY DEF RankKeyCall
    <2> QED  BY <2>2, <2>3 DEF KeyCalls, Depth, CallInRange, AtOnce
  <1> HIDE DEF new, n
  <1>7. new \in [1..n -> KeyCalls] /\ \A i \in 1..n : new[i] = RankKeyCall(s, i, Call.key, Call.vel)
    BY <1>3, <1>6 DEF new
  <1>8. NewCalls(new) /\ ToSet(new) = {new[i] : i \in 1..n}
    <2>1. \A i \in 1..n : Depth(new[i]) = 0 /\ CallInRange(new[i]) /\ new[i].op \notin AtOnce
      BY <1>6, <1>7
    <2>2. 0 \in 0..5 /\ 0 <= Depth(Call)
      BY <1>5
    <2> QED  BY <1>1, <1>3, <1>7, <2>1, <2>2, ManyCalls
  <1>9. ToSet(new) = {RankKeyCall(s, i, Call.key, Call.vel) : i \in DOMAIN RankInfo[s]}
    BY <1>3, <1>7, <1>8
  <1>10. CallsInv' /\ Made({RankKeyCall(s, i, Call.key, Call.vel) : i \in DOMAIN RankInfo[s]})
    BY <1>1, <1>4, <1>8, <1>9, CallsKept DEF Made
  <1>11. KeysTypeOK' /\ Arrays'
    BY <1>10 DEF SetRankKeyState, TypeInv, CallsInv, KeysTypeOK, StopsTypeOK, Arrays, couplerVars, manualVars, stopVars
  <1> QED  BY <1>2, <1>4, <1>10, <1>11 DEF TypeInv, SetRankKeyState, new

LEMMA StopKeyStep ==
  ASSUME TypeInv, StopKey, UNCHANGED <<couplerVars, manualVars>>
  PROVE  LET s == Call.at
             k == Call.key - FirstKey[s]
             x == RanksCall(s, k, Call.vel)
         IN  /\ TypeInv'
             /\ s \in Stops /\ Call.key \in Nat /\ Call.vel \in PipeLevels
             /\ UNCHANGED <<stopOn, asked, pipe, couplerVars, manualVars>>
             /\ IF k \in StopKeys(s) /\ s \notin Effects /\ stopKey[s][k] # Call.vel
                  THEN /\ stopKey' = [stopKey EXCEPT ![s][k] = Call.vel]
                       /\ stopOn[s] => Made({x}) /\ Continue(<<x>>)
                       /\ ~stopOn[s] => Made({}) /\ Continue(<<>>)
                  ELSE UNCHANGED stopKey /\ Made({}) /\ Continue(<<>>)
  <1> DEFINE s == Call.at
             k == Call.key - FirstKey[s]
             x == RanksCall(s, k, Call.vel)
             change == k \in StopKeys(s) /\ s \notin Effects /\ stopKey[s][k] # Call.vel
  <1>1. CallsInv /\ calls # <<>> /\ Call.op = "StopKey" /\ Call \in KeyCalls
    BY FirstCall DEF TypeInv, StopKey, Doing
  <1>2. s \in Stops /\ Call.key \in Nat /\ Call.vel \in PipeLevels
    BY <1>1, CallType
  <1>3. Depth(Call) = 2
    BY <1>1 DEF Depth
  <1>4. ASSUME change PROVE x \in KeyCalls /\ Depth(x) = 1 /\ CallInRange(x)
    <2>1. k \in Nat
      BY <1>2, <1>4 DEF StopKeys
    <2> HIDE DEF k
    <2>2. x \in StopCalls /\ x.op = "Ranks"
      BY <1>2, <2>1 DEF RanksCall, StopCalls
    <2> QED  BY <2>2 DEF KeyCalls, Depth, CallInRange
  <1>5. ASSUME change, stopOn[s] PROVE CallsInv' /\ Made({x}) /\ Continue(<<x>>)
    <2>1. Continue(<<x>>)
      BY <1>5 DEF StopKey
    <2> HIDE DEF x
    <2>2. NewCalls(<<x>>) /\ ToSet(<<x>>) = {x}
      BY <1>1, <1>3, <1>4, <1>5, OneCall
    <2> QED  BY <1>1, <2>1, <2>2, CallsKept DEF Made
  <1>6. ASSUME ~(change /\ stopOn[s]) PROVE CallsInv' /\ Made({}) /\ Continue(<<>>)
    <2>1. Continue(<<>>)
      BY <1>6 DEF StopKey
    <2> QED  BY <1>1, <2>1, NoCalls, CallsKept DEF Made
  <1>7. stopKey' = IF change THEN [stopKey EXCEPT ![s][k] = Call.vel] ELSE stopKey
    BY DEF StopKey
  <1> HIDE DEF x, k
  <1>8. CallsInv'
    BY <1>5, <1>6
  <1>9. KeysTypeOK' /\ Arrays'
    BY <1>2, <1>7, <1>8 DEF StopKey, TypeInv, CallsInv, KeysTypeOK, StopsTypeOK, Arrays, couplerVars, manualVars
  <1> QED  BY <1>2, <1>5, <1>6, <1>7, <1>8, <1>9 DEF TypeInv, StopKey, x, k

-----------------------------------------------------------------------------
(* What starts a chain of calls *)

LEMMA FreshCalls ==
  ASSUME NEW n \in Nat, NEW new \in [1..n -> KeyCalls], NEW d \in 0..5,
         \A i \in 1..n : Depth(new[i]) = d /\ CallInRange(new[i]) /\ new[i].op \notin AtOnce,
         calls' = new
  PROVE  CallsInv' /\ Pending' = {new[i] : i \in 1..n}
  <1>1. new \in Seq(KeyCalls) /\ DOMAIN new = 1..n
    BY SeqDef
  <1>2. Ordered(new)
    BY <1>1, DepthType DEF Ordered
  <1>3. ToSet(new) = {new[i] : i \in 1..n}
    BY <1>1 DEF ToSet
  <1> QED  BY <1>1, <1>2, <1>3 DEF CallsInv, Pending

LEMMA PlayKeyStep ==
  ASSUME TypeInv, NEW m \in Manuals, NEW k \in Playable[m], NEW v \in Velocities \union {0},
         PlayKey(m, k, v)
  PROVE  /\ TypeInv' /\ Pending' = {NoteCall(m, k, v)} /\ v \in PipeLevels
         /\ Len(calls') = 1
         /\ UNCHANGED <<stopVars, couplerVars, manualVars>>
  <1>1. k \in KeysOf(m) /\ k \in Nat /\ v \in PipeLevels
    BY Keyboards, Bounds
  <1> DEFINE x == NoteCall(m, k, v)
             new == [i \in 1..1 |-> x]
  <1>2. x \in KeyCalls /\ Depth(x) = 4 /\ CallInRange(x) /\ x.op \notin AtOnce
    BY <1>1 DEF NoteCall, KeyCalls, Depth, CallInRange, AtOnce
  <1>3. calls' = <<x>>
    BY DEF PlayKey
  <1> HIDE DEF x
  <1>4. <<x>> = new
    OBVIOUS
  <1>5. new \in [1..1 -> KeyCalls] /\ \A i \in 1..1 : new[i] = x
    BY <1>2
  <1> HIDE DEF new
  <1>6. CallsInv' /\ Pending' = {new[i] : i \in 1..1}
    <2>1. \A i \in 1..1 : Depth(new[i]) = 4 /\ CallInRange(new[i]) /\ new[i].op \notin AtOnce
      BY <1>2, <1>5
    <2>2. 1 \in Nat /\ 4 \in 0..5 /\ calls' = new
      BY <1>3, <1>4
    <2> QED  BY <1>5, <2>1, <2>2, FreshCalls
  <1>7. Pending' = {x}
    <2>1. 1 \in 1..1 /\ \A i \in 1..1 : i = 1
      OBVIOUS
    <2> QED  BY <1>5, <1>6, <2>1
  <1>8. KeysTypeOK' /\ Arrays'
    BY <1>6 DEF PlayKey, TypeInv, CallsInv, KeysTypeOK, StopsTypeOK, Arrays, couplerVars, manualVars, stopVars
  <1> QED  BY <1>1, <1>3, <1>6, <1>7, <1>8 DEF TypeInv, PlayKey, x

LEMMA SwitchCouplerStep ==
  ASSUME TypeInv, NEW c \in Couplers, SwitchCoupler(c)
  PROVE  /\ TypeInv'
         /\ engaged' = [engaged EXCEPT ![c] = ~@] /\ engaged[c] \in BOOLEAN
         /\ engaged'[c] = ~engaged[c] /\ \A d \in Couplers : d # c => engaged'[d] = engaged[d]
         /\ UNCHANGED <<flags, input, internal, out, tone, last, through, stopVars, manualVars>>
         /\ Kind[c] = "unisonoff" =>
              calls' = <<UnisonCall(Source(c), ~engaged[c])>> /\ Pending' = {UnisonCall(Source(c), ~engaged[c])}
         /\ Kind[c] # "unisonoff" =>
              Pending' = {EmitCall(c, n, ~engaged[c]) : n \in KeysOf(Dest[c])}
  <1> DEFINE x == UnisonCall(Source(c), ~engaged[c])
             len == NKeys[Dest[c]]
             new == [i \in 1..len |-> EmitCall(c, i - 1, ~engaged[c])]
  <1>1. /\ engaged \in [Couplers -> BOOLEAN] /\ engaged[c] \in BOOLEAN
        /\ Source(c) \in Manuals /\ Dest[c] \in Manuals /\ len \in Nat
    BY Home, Keyboards DEF TypeInv, KeysTypeOK
  <1>2. /\ engaged' = [engaged EXCEPT ![c] = ~@]
        /\ calls' = IF Kind[c] = "unisonoff" THEN <<x>> ELSE new
    BY DEF SwitchCoupler, ForKeys
  <1>3. ASSUME Kind[c] = "unisonoff" PROVE CallsInv' /\ calls' = <<x>> /\ Pending' = {x}
    <2> DEFINE one == [i \in 1..1 |-> x]
    <2>1. x \in [op : {"Unison"}, at : Manuals, on : BOOLEAN] /\ x.op = "Unison"
      BY <1>1 DEF UnisonCall
    <2>2. x \in KeyCalls /\ Depth(x) = 4 /\ CallInRange(x) /\ x.op \notin AtOnce
      BY <2>1 DEF KeyCalls, Depth, CallInRange, AtOnce
    <2> HIDE DEF x
    <2>3. <<x>> = one
      OBVIOUS
    <2>4. one \in [1..1 -> KeyCalls] /\ \A i \in 1..1 : one[i] = x
      BY <2>2
    <2> HIDE DEF one
    <2>5. calls' = one /\ 1 \in Nat /\ 4 \in 0..5
      BY <1>2, <1>3, <2>3
    <2>6. \A i \in 1..1 : Depth(one[i]) = 4 /\ CallInRange(one[i]) /\ one[i].op \notin AtOnce
      BY <2>2, <2>4
    <2>7. CallsInv' /\ Pending' = {one[i] : i \in 1..1}
      BY <2>4, <2>5, <2>6, FreshCalls
    <2>8. 1 \in 1..1 /\ \A i \in 1..1 : i = 1
      OBVIOUS
    <2> QED  BY <1>2, <1>3, <2>4, <2>7, <2>8
  <1>4. ASSUME Kind[c] # "unisonoff"
        PROVE  CallsInv' /\ Pending' = {EmitCall(c, n, ~engaged[c]) : n \in KeysOf(Dest[c])}
    <2>1. c \in KeyCouplers
      BY <1>4 DEF KeyCouplers
    <2>2. \A i \in 1..len : LET y == EmitCall(c, i - 1, ~engaged[c])
                            IN  y \in KeyCalls /\ Depth(y) = 4 /\ CallInRange(y) /\ y.op \notin AtOnce
      <3> SUFFICES ASSUME NEW i \in 1..len
                   PROVE  LET y == EmitCall(c, i - 1, ~engaged[c])
                          IN  y \in KeyCalls /\ Depth(y) = 4 /\ CallInRange(y) /\ y.op \notin AtOnce
        OBVIOUS
      <3> DEFINE y == EmitCall(c, i - 1, ~engaged[c])
      <3>0. (~engaged[c]) \in BOOLEAN
        BY <1>1
      <3>1. i - 1 \in KeysOf(Dest[c]) /\ i - 1 \in Nat
        BY <1>1 DEF KeysOf
      <3>2. y \in [op : {"Emit"}, at : KeyCouplers, key : Nat, on : BOOLEAN]
        BY <2>1, <3>0, <3>1 DEF EmitCall
      <3>3. y.op = "Emit" /\ y.at = c /\ y.key = i - 1
        BY DEF EmitCall
      <3> QED  BY <3>1, <3>2, <3>3 DEF KeyCalls, Depth, CallInRange, AtOnce
    <2> HIDE DEF new, len
    <2>3. new \in [1..len -> KeyCalls] /\ \A i \in 1..len : new[i] = EmitCall(c, i - 1, ~engaged[c])
      BY <2>2 DEF new
    <2>4. calls' = new /\ 4 \in 0..5
      BY <1>2, <1>4
    <2>5. \A i \in 1..len : Depth(new[i]) = 4 /\ CallInRange(new[i]) /\ new[i].op \notin AtOnce
      BY <2>2, <2>3
    <2>6. CallsInv' /\ Pending' = {new[i] : i \in 1..len}
      BY <1>1, <2>3, <2>4, <2>5, FreshCalls
    <2>7. {new[i] : i \in 1..len} = {EmitCall(c, n, ~engaged[c]) : n \in KeysOf(Dest[c])}
      <3>1. \A n \in KeysOf(Dest[c]) : n + 1 \in 1..len /\ (n + 1) - 1 = n
        BY <1>1 DEF KeysOf, len
      <3>2. \A i \in 1..len : i - 1 \in KeysOf(Dest[c])
        BY <1>1 DEF KeysOf, len
      <3>3. ASSUME NEW n \in KeysOf(Dest[c]) PROVE EmitCall(c, n, ~engaged[c]) = new[n + 1]
        BY <2>3, <3>1
      <3> QED  BY <2>3, <3>1, <3>2, <3>3
    <2> QED  BY <2>6, <2>7
  <1> HIDE DEF x, new, len
  <1>5. CallsInv'
    BY <1>3, <1>4
  <1>6. KeysTypeOK' /\ Arrays'
    BY <1>1, <1>2, <1>5 DEF SwitchCoupler, TypeInv, CallsInv, KeysTypeOK, StopsTypeOK, Arrays, manualVars, stopVars
  <1> QED  BY <1>1, <1>2, <1>3, <1>4, <1>5, <1>6 DEF TypeInv, SwitchCoupler, x

LEMMA PressThroughStep ==
  ASSUME TypeInv, NEW b \in Buttons, PressThrough(b)
  PROVE  /\ TypeInv'
         /\ UNCHANGED <<engaged, flags, input, internal, out, tone, last, stopVars, manualVars>>
         /\ \A x \in Pending' : x.op = "Through" /\ \E i \in DOMAIN Through[b] : x.at = Through[b][i]
  <1> DEFINE s == Through[b]
             len == Len(s)
             new == [i \in DOMAIN s |-> ThroughCall(s[i], ~through[b])]
  <1>1. /\ s \in Seq(Couplers) /\ len \in Nat /\ DOMAIN s = 1..len
        /\ through \in [Buttons -> BOOLEAN] /\ (~through[b]) \in BOOLEAN
        /\ \A i \in 1..len : s[i] \in Couplers
    <2>1. s \in Seq(Couplers)
      BY CouplersAssumption
    <2>2. len \in Nat /\ DOMAIN s = 1..len /\ \A i \in 1..len : s[i] \in Couplers
      BY <2>1, LenProperties, ElementOfSeq
    <2>3. through \in [Buttons -> BOOLEAN]
      BY DEF TypeInv, KeysTypeOK
    <2>4. (~through[b]) \in BOOLEAN
      OBVIOUS
    <2> QED  BY <2>1, <2>2, <2>3, <2>4
  <1>2. calls' = new /\ through' = [through EXCEPT ![b] = ~@]
    BY DEF PressThrough, ForAll
  <1>3. \A i \in 1..len : LET y == ThroughCall(s[i], ~through[b])
                          IN  y \in KeyCalls /\ Depth(y) = 5 /\ CallInRange(y) /\ y.op \notin AtOnce
    <2> SUFFICES ASSUME NEW i \in 1..len
                 PROVE  LET y == ThroughCall(s[i], ~through[b])
                        IN  y \in KeyCalls /\ Depth(y) = 5 /\ CallInRange(y) /\ y.op \notin AtOnce
      OBVIOUS
    <2> DEFINE y == ThroughCall(s[i], ~through[b])
    <2>1. y \in [op : {"Through"}, at : Couplers, on : BOOLEAN] /\ y.op = "Through"
      BY <1>1 DEF ThroughCall
    <2> QED  BY <2>1 DEF KeyCalls, Depth, CallInRange, AtOnce
  <1> HIDE DEF new, len, s
  <1>4. new \in [1..len -> KeyCalls] /\ \A i \in 1..len : new[i] = ThroughCall(s[i], ~through[b])
    BY <1>1, <1>3 DEF new
  <1>5. \A i \in 1..len : Depth(new[i]) = 5 /\ CallInRange(new[i]) /\ new[i].op \notin AtOnce
    BY <1>3, <1>4
  <1>6. CallsInv' /\ Pending' = {new[i] : i \in 1..len}
    <2>1. 5 \in 0..5
      OBVIOUS
    <2> QED  BY <1>1, <1>2, <1>4, <1>5, <2>1, FreshCalls
  <1>7. \A x \in Pending' : x.op = "Through" /\ \E i \in DOMAIN s : x.at = s[i]
    BY <1>1, <1>4, <1>6 DEF ThroughCall
  <1>8. KeysTypeOK' /\ Arrays'
    BY <1>1, <1>2, <1>6 DEF PressThrough, TypeInv, CallsInv, KeysTypeOK, StopsTypeOK, Arrays, manualVars, stopVars
  <1> QED  BY <1>6, <1>7, <1>8 DEF TypeInv, PressThrough, s

LEMMA SwitchStopStep ==
  ASSUME TypeInv, NEW s \in Stops, SwitchStop(s), UNCHANGED <<couplerVars, manualVars>>
  PROVE  /\ TypeInv'
         /\ stopOn[s] \in BOOLEAN /\ stopOn' = [stopOn EXCEPT ![s] = ~@]
         /\ UNCHANGED <<stopKey, asked, pipe, couplerVars, manualVars>>
         /\ s \in Effects => Pending' = {RanksCall(s, 0, IF stopOn[s] THEN 0 ELSE MaxVelocity)}
         /\ s \notin Effects =>
              Pending' = {RanksCall(s, k, IF stopOn[s] THEN 0 ELSE stopKey[s][k]) : k \in StopKeys(s)}
  <1> DEFINE len == IF s \in Effects THEN 1 ELSE NKeysOfStop[s]
             vel(k) == IF stopOn[s] THEN 0 ELSE IF s \in Effects THEN MaxVelocity ELSE stopKey[s][k]
             new == [i \in 1..len |-> RanksCall(s, i - 1, vel(i - 1))]
  <1>1. /\ stopOn \in [Stops -> BOOLEAN] /\ NKeysOfStop[s] \in Nat /\ len \in Nat
        /\ stopKey[s] \in [StopKeys(s) -> PipeLevels] /\ MaxVelocity \in PipeLevels /\ 0 \in PipeLevels
    BY StopsAssumption, Bounds DEF TypeInv, KeysTypeOK, StopsTypeOK, PipeLevels
  <1>2. calls' = new
    <2>1. CASE s \in Effects
      <3> DEFINE x == RanksCall(s, 0, IF stopOn[s] THEN 0 ELSE MaxVelocity)
                 one == [i \in 1..1 |-> x]
      <3>1. calls' = <<x>>
        BY <2>1 DEF SwitchStop
      <3> HIDE DEF x
      <3>2. <<x>> = one
        OBVIOUS
      <3>3. \A i \in 1..1 : i - 1 = 0
        OBVIOUS
      <3>4. \A i \in 1..1 : RanksCall(s, i - 1, vel(i - 1)) = x
        BY <2>1, <3>3 DEF x
      <3>5. len = 1
        BY <2>1
      <3>6. new = one
        BY <3>4, <3>5
      <3> QED  BY <3>1, <3>2, <3>6
    <2>2. CASE s \notin Effects
      BY <2>2 DEF SwitchStop
    <2> QED  BY <2>1, <2>2
  <1>3. \A i \in 1..len : i - 1 \in Nat /\ (s \notin Effects => i - 1 \in StopKeys(s))
    BY <1>1 DEF StopKeys
  <1>4. \A i \in 1..len : vel(i - 1) \in PipeLevels
    BY <1>1, <1>3
  <1>13. /\ s \in Effects => vel(0) = IF stopOn[s] THEN 0 ELSE MaxVelocity
         /\ s \notin Effects => \A k \in StopKeys(s) : vel(k) = IF stopOn[s] THEN 0 ELSE stopKey[s][k]
    OBVIOUS
  <1> HIDE DEF vel
  <1>5. \A i \in 1..len : LET y == RanksCall(s, i - 1, vel(i - 1))
                          IN  y \in KeyCalls /\ Depth(y) = 1 /\ CallInRange(y) /\ y.op \notin AtOnce
    <2> SUFFICES ASSUME NEW i \in 1..len
                 PROVE  LET y == RanksCall(s, i - 1, vel(i - 1))
                        IN  y \in KeyCalls /\ Depth(y) = 1 /\ CallInRange(y) /\ y.op \notin AtOnce
      OBVIOUS
    <2> DEFINE y == RanksCall(s, i - 1, vel(i - 1))
    <2>1. y \in StopCalls /\ y.op = "Ranks"
      BY <1>3, <1>4 DEF RanksCall, StopCalls
    <2> QED  BY <2>1 DEF KeyCalls, Depth, CallInRange, AtOnce
  <1> HIDE DEF new, len
  <1>6. new \in [1..len -> KeyCalls] /\ \A i \in 1..len : new[i] = RanksCall(s, i - 1, vel(i - 1))
    BY <1>5 DEF new
  <1>7. \A i \in 1..len : Depth(new[i]) = 1 /\ CallInRange(new[i]) /\ new[i].op \notin AtOnce
    BY <1>5, <1>6
  <1>8. CallsInv' /\ Pending' = {new[i] : i \in 1..len}
    <2>1. 1 \in 0..5
      OBVIOUS
    <2> QED  BY <1>1, <1>2, <1>6, <1>7, <2>1, FreshCalls
  <1>9. s \in Effects => Pending' = {RanksCall(s, 0, vel(0))}
    <2> SUFFICES ASSUME s \in Effects PROVE Pending' = {RanksCall(s, 0, vel(0))}
      OBVIOUS
    <2>1. len = 1 /\ 1 \in 1..len /\ 1 - 1 = 0 /\ \A i \in 1..len : i = 1
      BY DEF len
    <2> QED  BY <1>6, <1>8, <2>1
  <1>10. s \notin Effects => Pending' = {RanksCall(s, k, vel(k)) : k \in StopKeys(s)}
    <2> SUFFICES ASSUME s \notin Effects PROVE Pending' = {RanksCall(s, k, vel(k)) : k \in StopKeys(s)}
      OBVIOUS
    <2>1. \A k \in StopKeys(s) : k + 1 \in 1..len /\ (k + 1) - 1 = k
      BY <1>1 DEF len, StopKeys
    <2>2. ASSUME NEW k \in StopKeys(s) PROVE RanksCall(s, k, vel(k)) = new[k + 1]
      BY <1>6, <2>1
    <2> QED  BY <1>3, <1>6, <1>8, <2>1, <2>2
  <1>11. stopOn' = [stopOn EXCEPT ![s] = ~@]
    BY DEF SwitchStop
  <1>12. KeysTypeOK' /\ Arrays'
    BY <1>1, <1>8, <1>11 DEF SwitchStop, TypeInv, CallsInv, KeysTypeOK, StopsTypeOK, Arrays, couplerVars, manualVars
  <1>14. UNCHANGED <<stopKey, asked, pipe, couplerVars, manualVars>>
    BY DEF SwitchStop
  <1>15. stopOn[s] \in BOOLEAN
    BY <1>1
  <1>16. s \notin Effects =>
           {RanksCall(s, k, vel(k)) : k \in StopKeys(s)} =
           {RanksCall(s, k, IF stopOn[s] THEN 0 ELSE stopKey[s][k]) : k \in StopKeys(s)}
    BY <1>13
  <1> QED  BY <1>8, <1>9, <1>10, <1>11, <1>12, <1>13, <1>14, <1>15, <1>16 DEF TypeInv

LEMMA RestartStep ==
  ASSUME TypeInv, Restart
  PROVE  /\ TypeInv' /\ Pending' = {AllOffCall(m) : m \in Manuals} \union {PrepareCall}
         /\ UNCHANGED <<stopVars, couplerVars, manualVars>>
  <1> DEFINE s == [m \in Manuals |-> AllOffCall(m)]
             new == s \o <<PrepareCall>>
             n == NManuals
  <1>1. n \in Nat /\ Manuals = 1..n
    BY Bounds DEF Manuals
  <1>2. calls' = new
    BY DEF Restart
  <1>3. \A m \in Manuals : AllOffCall(m) \in KeyCalls /\ AllOffCall(m).op = "AllOff"
    BY DEF AllOffCall, KeyCalls
  <1>4. PrepareCall \in KeyCalls /\ PrepareCall.op = "Prepare"
    BY DEF PrepareCall, KeyCalls
  <1> HIDE DEF n
  <1>5. s \in [1..n -> KeyCalls] /\ \A m \in 1..n : s[m] = AllOffCall(m)
    BY <1>1, <1>3
  <1> HIDE DEF s
  <1>6. s \in Seq(KeyCalls) /\ Len(s) = n
    BY <1>1, <1>5, SeqDef
  <1>7. /\ new \in Seq(KeyCalls) /\ Len(new) = n + 1
        /\ \A j \in 1..n + 1 : new[j] = IF j <= n THEN s[j] ELSE PrepareCall
    <2> DEFINE t == <<PrepareCall>>
    <2>1. t \in Seq(KeyCalls) /\ Len(t) = 1 /\ t[1] = PrepareCall
      BY <1>4
    <2> HIDE DEF t
    <2>2. /\ s \o t \in Seq(KeyCalls) /\ Len(s \o t) = n + 1
          /\ \A j \in 1..n + 1 : (s \o t)[j] = IF j <= n THEN s[j] ELSE t[j - n]
      <3>1. /\ s \o t \in Seq(KeyCalls) /\ Len(s \o t) = Len(s) + Len(t)
            /\ \A j \in 1..Len(s) + Len(t) : (s \o t)[j] = IF j <= Len(s) THEN s[j] ELSE t[j - Len(s)]
        BY <1>6, <2>1, ConcatProperties
      <3> QED  BY <1>6, <2>1, <3>1
    <2>3. \A j \in 1..n + 1 : ~(j <= n) => j - n = 1
      BY <1>1
    <2> QED  BY <2>1, <2>2, <2>3 DEF t
  <1> HIDE DEF new
  <1>8. DOMAIN new = 1..n + 1
    BY <1>7, LenProperties
  <1>9. \A j \in DOMAIN new : \/ j \in 1..n /\ new[j] = AllOffCall(j)
                              \/ j = n + 1 /\ new[j] = PrepareCall
    <2> SUFFICES ASSUME NEW j \in 1..n + 1
                 PROVE  \/ j \in 1..n /\ new[j] = AllOffCall(j)
                        \/ j = n + 1 /\ new[j] = PrepareCall
      BY <1>8
    <2>1. CASE j <= n
      BY <1>1, <1>5, <1>7, <2>1
    <2>2. CASE ~(j <= n)
      BY <1>1, <1>7, <2>2
    <2> QED  BY <2>1, <2>2
  <1>10. \A j \in 1..n : j \in DOMAIN new /\ new[j] = AllOffCall(j)
    BY <1>1, <1>5, <1>7, <1>8
  <1>11. n + 1 \in DOMAIN new /\ new[n + 1] = PrepareCall
    <2>1. n + 1 \in 1..n + 1 /\ ~(n + 1 <= n)
      BY <1>1
    <2> QED  BY <1>7, <1>8, <2>1
  <1>12. \A j \in DOMAIN new : \/ j \in 1..n /\ new[j].op = "AllOff" /\ Depth(new[j]) = 5
                               \/ j = n + 1 /\ new[j].op = "Prepare" /\ Depth(new[j]) = 6
    <2>1. \A m \in Manuals : Depth(AllOffCall(m)) = 5
      BY <1>3 DEF Depth
    <2>2. Depth(PrepareCall) = 6
      BY <1>4 DEF Depth
    <2> QED  BY <1>1, <1>3, <1>4, <1>9, <2>1, <2>2
  <1>13. Ordered(new)
    <2>1. ASSUME NEW i \in DOMAIN new, NEW j \in DOMAIN new, i < j PROVE Depth(new[i]) <= Depth(new[j])
      <3>1. ~(i = n + 1 /\ j \in 1..n) /\ ~(i = n + 1 /\ j = n + 1)
        BY <1>1, <2>1
      <3> QED  BY <1>12, <3>1
    <2>2. \A j \in DOMAIN new : new[j].op \notin AtOnce
      BY <1>12 DEF AtOnce
    <2>3. \A j \in DOMAIN new : new[j].op = "Prepare" => j = Len(new)
      BY <1>7, <1>12
    <2> QED  BY <2>1, <2>2, <2>3 DEF Ordered
  <1>14. ToSet(new) = {AllOffCall(m) : m \in Manuals} \union {PrepareCall}
    BY <1>1, <1>9, <1>10, <1>11 DEF ToSet
  <1>15. \A x \in ToSet(new) : CallInRange(x)
    BY <1>12 DEF ToSet, CallInRange
  <1>16. CallsInv'
    BY <1>2, <1>7, <1>13, <1>15 DEF CallsInv, Pending
  <1>17. KeysTypeOK' /\ Arrays'
    BY <1>16 DEF Restart, TypeInv, CallsInv, KeysTypeOK, StopsTypeOK, Arrays, couplerVars, manualVars, stopVars
  <1> QED  BY <1>2, <1>14, <1>16, <1>17 DEF TypeInv, Restart, Pending

LEMMA KeysInitTypes == KeysInit => TypeInv /\ PipeInv
  <1> SUFFICES ASSUME KeysInit PROVE TypeInv /\ PipeInv
    OBVIOUS
  <1> USE DEF KeysInit
  <1>1. /\ \A m \in Manuals : /\ midiKey[m] \in [Playable[m] -> PipeLevels]
                              /\ bySlot[m] \in [KeysOf(m) -> [Slots(m) -> Levels]]
                              /\ division[m] \in [KeysOf(m) -> PipeLevels]
        /\ \A c \in Couplers : input[c] \in [KeysOf(Source(c)) -> Levels]
        /\ \A c \in KeyCouplers : /\ internal[c] \in [KeysOf(Dest[c]) -> Levels]
                                  /\ out[c] \in [KeysOf(Dest[c]) -> Levels]
    BY Bounds DEF NoMidiKeys, NoSlots, NoDivision, NoInput, NoOutput
  <1>2. StopsTypeOK
    BY Bounds DEF StopsInit, NoStopKeys, NotAsked, NoPipes, StopsTypeOK
  <1>3. Arrays
    BY DEF StopsInit, NoMidiKeys, NoSlots, NoDivision, NoInput, NoOutput,
           NoStopKeys, NotAsked, NoPipes, Arrays
  <1>4. /\ unisonOff \in [Manuals -> 0..Wrap - 1]
        /\ engaged \in [Couplers -> BOOLEAN] /\ flags \in [Couplers -> SUBSET Flag]
        /\ through \in [Buttons -> BOOLEAN]
        /\ \A c \in KeyCouplers : /\ tone[c] \in KeysOf(Source(c)) \union {-1}
                                  /\ last[c] \in KeysOf(Source(c)) \union {-1}
    BY CouplersAssumption
  <1>5. calls \in Seq(KeyCalls) /\ CallsInv
    <2>1. <<>> \in Seq(KeyCalls) /\ DOMAIN <<>> = {}
      OBVIOUS
    <2> QED  BY <2>1, EmptyToSet DEF CallsInv, Ordered, Pending
  <1>6. KeysTypeOK
    BY <1>1, <1>2, <1>4, <1>5 DEF KeysTypeOK
  <1>7. PipeInv
    <2> SUFFICES ASSUME NEW r \in Ranks, NEW p \in Pipes(r)
                 PROVE  pipe[r][p] = SetMax({0} \union {asked[r][p][u] : u \in Users(r)})
      BY DEF PipeInv
    <2>1. pipe[r][p] = 0 /\ \A u \in Users(r) : asked[r][p][u] = 0
      BY DEF StopsInit, NotAsked, NoPipes
    <2>2. {0} \union {asked[r][p][u] : u \in Users(r)} = {0}
      BY <2>1
    <2>3. SetMax({0}) = 0
      BY HighestIs
    <2> QED  BY <2>1, <2>2, <2>3
  <1> QED  BY <1>3, <1>5, <1>6, <1>7 DEF TypeInv

LEMMA PreparePipes ==
  ASSUME PrepareStops
  PROVE  PipeInv'
  <1> SUFFICES ASSUME NEW r \in Ranks, NEW p \in Pipes(r)
               PROVE  pipe'[r][p] = SetMax({0} \union {asked'[r][p][u] : u \in Users(r)})
    BY DEF PipeInv
  <1>1. pipe'[r][p] = 0 /\ \A u \in Users(r) : asked'[r][p][u] = 0
    BY DEF PrepareStops, NotAsked, NoPipes
  <1>2. {0} \union {asked'[r][p][u] : u \in Users(r)} = {0}
    BY <1>1
  <1>3. SetMax({0}) = 0
    BY HighestIs
  <1> QED  BY <1>1, <1>2, <1>3

LEMMA PipesAlone == PipeInv /\ UNCHANGED <<asked, pipe>> => PipeInv'
  BY DEF PipeInv

LEMMA StepTypes ==
  ASSUME TypeInv, PipeInv, [KeysNext]_keyVars
  PROVE  TypeInv' /\ PipeInv'
  <1> USE DEF couplerVars, manualVars, stopVars
  <1>1. CASE Note
    BY <1>1, NoteStep, PipesAlone
  <1>2. CASE AllNotesOff
    BY <1>2, AllNotesOffStep, PipesAlone
  <1>3. CASE SetKeyState
    BY <1>3, SetKeyStateStep, PipesAlone
  <1>4. CASE SetDivisionKeyState
    BY <1>4, SetDivisionKeyStateStep, PipesAlone
  <1>5. CASE SetUnisonOff
    BY <1>5, SetUnisonOffStep, PipesAlone
  <1>6. CASE SetKey
    BY <1>6, SetKeyStep, PipesAlone
  <1>7. CASE SetTone
    BY <1>7, SetToneStep, PipesAlone
  <1>8. CASE SetLast
    BY <1>8, SetLastStep, PipesAlone
  <1>9. CASE SetOut
    BY <1>9, SetOutStep, PipesAlone
  <1>10. CASE Emit
    BY <1>10, EmitStep, PipesAlone
  <1>11. CASE CoupleThrough
    BY <1>11, CoupleThroughStep, PipesAlone
  <1>12. CASE Refresh
    BY <1>12, RefreshStep, PipesAlone
  <1>13. CASE Prepare
    BY <1>13, PrepareStep, PreparePipes
  <1>14. CASE RankKey /\ UNCHANGED <<couplerVars, manualVars>>
    BY <1>14, RankKeyStep
  <1>15. CASE SetRankKeyState /\ UNCHANGED <<couplerVars, manualVars>>
    BY <1>15, SetRankKeyStateStep, PipesAlone
  <1>16. CASE StopKey /\ UNCHANGED <<couplerVars, manualVars>>
    BY <1>16, StopKeyStep, PipesAlone
  <1>17. ASSUME NEW m \in Manuals, NEW k \in Playable[m], NEW v \in Velocities \union {0}, PlayKey(m, k, v)
         PROVE  TypeInv' /\ PipeInv'
    BY <1>17, PlayKeyStep, PipesAlone
  <1>18. ASSUME NEW c \in Couplers, SwitchCoupler(c)
         PROVE  TypeInv' /\ PipeInv'
    BY <1>18, SwitchCouplerStep, PipesAlone
  <1>19. ASSUME NEW b \in Buttons, PressThrough(b)
         PROVE  TypeInv' /\ PipeInv'
    BY <1>19, PressThroughStep, PipesAlone
  <1>20. ASSUME NEW s \in Stops, SwitchStop(s), UNCHANGED <<couplerVars, manualVars>>
         PROVE  TypeInv' /\ PipeInv'
    BY <1>20, SwitchStopStep, PipesAlone
  <1>21. CASE Restart
    BY <1>21, RestartStep, PipesAlone
  <1>22. CASE UNCHANGED keyVars
    BY <1>22, PipesAlone DEF keyVars, TypeInv, KeysTypeOK, StopsTypeOK, Arrays, CallsInv, Pending
  <1> QED  BY <1>1, <1>2, <1>3, <1>4, <1>5, <1>6, <1>7, <1>8, <1>9, <1>10, <1>11, <1>12, <1>13,
             <1>14, <1>15, <1>16, <1>17, <1>18, <1>19, <1>20, <1>21, <1>22 DEF KeysNext, Handle

\* The keys, the levels, the calls that are still to be made and what the pipes
\* are told keep to their types. (GOManual, GOCoupler, GOStop, GORank)
THEOREM KeysTypeCorrect == KeysSpec => []KeysTypeOK
  <1>1. KeysInit => TypeInv /\ PipeInv
    BY KeysInitTypes
  <1>2. (TypeInv /\ PipeInv) /\ [KeysNext]_keyVars => (TypeInv /\ PipeInv)'
    BY StepTypes
  <1>3. TypeInv => KeysTypeOK
    BY DEF TypeInv
  <1> QED  BY <1>1, <1>2, <1>3, PTL DEF KeysSpec

-----------------------------------------------------------------------------
(* The pipes follow the stops *)

\* The key indices a stop has, and what it asks at each of them.
Inputs(s)  == IF s \in Effects THEN {0} ELSE StopKeys(s)
Want(s, k) == IF ~stopOn[s] THEN 0 ELSE IF s \in Effects THEN MaxVelocity ELSE stopKey[s][k]

\* The key index that leads to pipe p.
KeyAt(info, p) == p + info.firstKey - info.firstPipe

\* Every stop has asked what it wants of every pipe, or is about to.
AskedInv ==
  \A r \in Ranks : \A p \in Pipes(r) : \A u \in Users(r) :
    LET info == RankInfo[u[1]][u[2]]
        k    == KeyAt(info, p)
    IN  IF k \in Inputs(u[1]) /\ Reaches(info, k)
          THEN \/ asked[r][p][u] = Want(u[1], k)
               \/ RankKeyCall(u[1], u[2], k, Want(u[1], k)) \in Pending
               \/ RanksCall(u[1], k, Want(u[1], k)) \in Pending
          ELSE asked[r][p][u] = 0

\* Every stop knows how its manual's keys sound, or is about to be told.
StopKeyInv ==
  \A m \in Manuals : \A i \in DOMAIN StopsOf[m] :
    LET s == StopsOf[m][i]
    IN  s \notin Effects => \A k \in StopKeys(s) :
          LET key == k + FirstKey[s] - 1
          IN  IF key \in KeysOf(m)
                THEN \/ stopKey[s][k] = division[m][key]
                     \/ StopKeyCall(s, key + 1, division[m][key]) \in Pending
                ELSE stopKey[s][k] = 0

\* What they are told is how the keys sound, what they ask is what they want.
StopCallInv ==
  \A x \in Pending :
    /\ x.op = "StopKey" => \A m \in Manuals : \A i \in DOMAIN StopsOf[m] :
         StopsOf[m][i] = x.at => x.key - 1 \in KeysOf(m) /\ x.vel = division[m][x.key - 1]
    /\ x.op = "Ranks" => x.key \in Inputs(x.at) /\ x.vel = Want(x.at, x.key)
    /\ x.op = "RankKey" => x.key \in Inputs(x.at[1]) /\ x.vel = Want(x.at[1], x.key)

StopsInv == AskedInv /\ StopKeyInv /\ StopCallInv

Low == {"StopKey", "Ranks", "RankKey"}

LEMMA StopsKept ==
  ASSUME StopsInv, UNCHANGED <<stopOn, stopKey, asked, division>>,
         \A x : x.op \in Low => (x \in Pending <=> x \in Pending')
  PROVE  StopsInv'
  <1>1. \A s, k : Want(s, k)' = Want(s, k)
    BY DEF Want
  <1>2. /\ \A s, k, v : RanksCall(s, k, v).op \in Low /\ StopKeyCall(s, k, v).op \in Low
        /\ \A s, i, k, v : RankKeyCall(s, i, k, v).op \in Low
    BY DEF RanksCall, StopKeyCall, RankKeyCall, Low
  <1>3. AskedInv'
    <2> SUFFICES ASSUME NEW r \in Ranks, NEW p \in Pipes(r), NEW u \in Users(r)
                 PROVE  LET info == RankInfo[u[1]][u[2]]
                            k    == KeyAt(info, p)
                        IN  IF k \in Inputs(u[1]) /\ Reaches(info, k)
                              THEN \/ asked'[r][p][u] = Want(u[1], k)'
                                   \/ RankKeyCall(u[1], u[2], k, Want(u[1], k)') \in Pending'
                                   \/ RanksCall(u[1], k, Want(u[1], k)') \in Pending'
                              ELSE asked'[r][p][u] = 0
      BY DEF AskedInv, RankKeyCall, RanksCall
    <2> QED  BY <1>1, <1>2 DEF AskedInv, StopsInv
  <1>4. StopKeyInv'
    <2> SUFFICES ASSUME NEW m \in Manuals, NEW i \in DOMAIN StopsOf[m], StopsOf[m][i] \notin Effects,
                        NEW k \in StopKeys(StopsOf[m][i])
                 PROVE  LET s == StopsOf[m][i]
                            key == k + FirstKey[s] - 1
                        IN  IF key \in KeysOf(m)
                              THEN \/ stopKey'[s][k] = division'[m][key]
                                   \/ StopKeyCall(s, key + 1, division'[m][key]) \in Pending'
                              ELSE stopKey'[s][k] = 0
      BY DEF StopKeyInv, StopKeyCall
    <2> QED  BY <1>2 DEF StopKeyInv, StopsInv
  <1>5. StopCallInv'
    <2> SUFFICES ASSUME NEW x \in Pending'
                 PROVE  /\ x.op = "StopKey" => \A m \in Manuals : \A i \in DOMAIN StopsOf[m] :
                             StopsOf[m][i] = x.at => x.key - 1 \in KeysOf(m) /\ x.vel = division'[m][x.key - 1]
                        /\ x.op = "Ranks" => x.key \in Inputs(x.at) /\ x.vel = Want(x.at, x.key)'
                        /\ x.op = "RankKey" => x.key \in Inputs(x.at[1]) /\ x.vel = Want(x.at[1], x.key)'
      BY DEF StopCallInv
    <2>1. x.op \in Low => x \in Pending
      OBVIOUS
    <2> QED  BY <1>1, <2>1 DEF StopCallInv, StopsInv, Low
  <1> QED  BY <1>3, <1>4, <1>5 DEF StopsInv

\* A handler of a manual or a coupler that leaves the division alone.
LEMMA StopsUntouched ==
  ASSUME StopsInv, UNCHANGED <<stopVars, division>>, NEW made, Made(made), Call.op \notin Low,
         \A x \in made : x.op \notin Low
  PROVE  StopsInv'
  BY StopsKept DEF Made, stopVars

\* At rest everything has been asked; the first calls of a chain are none of these.
LEMMA StopsAtRest ==
  ASSUME StopsInv, UNCHANGED <<stopVars, division>>, calls = <<>>,
         \A x \in Pending' : x.op \notin Low
  PROVE  StopsInv'
  BY StopsKept, EmptyToSet DEF Pending, stopVars

LEMMA RankKeyStops ==
  ASSUME TypeInv, PipeInv, StopsInv, RankKey, UNCHANGED <<couplerVars, manualVars>>
  PROVE  StopsInv'
  <1> DEFINE s    == Call.at[1]
             i    == Call.at[2]
             info == RankInfo[s][i]
             r    == info.rank
             p    == PipeOf(info, Call.key)
  <1>1. /\ s \in Stops /\ i \in DOMAIN RankInfo[s] /\ Call.at = <<s, i>> /\ r \in Ranks
        /\ Call.key \in Nat /\ Call.vel \in PipeLevels
        /\ UNCHANGED <<stopOn, stopKey>> /\ Made({})
        /\ IF Reaches(info, Call.key) /\ p \in Pipes(r)
             THEN asked' = [asked EXCEPT ![r][p][Call.at] = Call.vel]
             ELSE UNCHANGED asked
    BY RankKeyStep
  <1>2. calls # <<>> /\ Call.op = "RankKey" /\ Call \in Pending
    BY FirstCall DEF RankKey, Doing, TypeInv
  <1>3. Call.key \in Inputs(s) /\ Call.vel = Want(s, Call.key)
    BY <1>2 DEF StopsInv, StopCallInv
  <1>4. info.firstKey \in Nat /\ info.firstPipe \in Nat
    BY <1>1, RanksOfStops
  <1>5. \A t, k : Want(t, k)' = Want(t, k)
    BY <1>1 DEF Want
  <1>6. division' = division
    BY DEF manualVars
  <1>7. Pending = {Call} \union ToCome /\ Pending' = ToCome
    BY <1>1 DEF Made
  <1> HIDE DEF s, i, r, p
  <1>8. AskedInv'
    <2> SUFFICES ASSUME NEW r1 \in Ranks, NEW p1 \in Pipes(r1), NEW u \in Users(r1)
                 PROVE  LET info1 == RankInfo[u[1]][u[2]]
                            k     == KeyAt(info1, p1)
                        IN  IF k \in Inputs(u[1]) /\ Reaches(info1, k)
                              THEN \/ asked'[r1][p1][u] = Want(u[1], k)'
                                   \/ RankKeyCall(u[1], u[2], k, Want(u[1], k)') \in Pending'
                                   \/ RanksCall(u[1], k, Want(u[1], k)') \in Pending'
                              ELSE asked'[r1][p1][u] = 0
      BY DEF AskedInv, RankKeyCall, RanksCall
    <2> DEFINE info1 == RankInfo[u[1]][u[2]]
               k     == KeyAt(info1, p1)
    <2>1. /\ u[1] \in Stops /\ u[2] \in DOMAIN RankInfo[u[1]] /\ info1.rank = r1 /\ u = <<u[1], u[2]>>
          /\ info1.firstKey \in Nat /\ info1.firstPipe \in Nat /\ p1 \in Int
      BY UserIs, RanksOfStops DEF Pipes
    <2>2. /\ asked[r] \in [Pipes(r) -> [Users(r) -> PipeLevels]] /\ DOMAIN asked = Ranks
          /\ asked[r1] \in [Pipes(r1) -> [Users(r1) -> PipeLevels]]
      BY <1>1 DEF TypeInv, KeysTypeOK, StopsTypeOK, Arrays
    <2>3. PipeOf(info1, k) = p1
      BY <2>1 DEF PipeOf, KeyAt
    <2>4. \A k1 \in Int : PipeOf(info1, k1) = p1 => k1 = k
      BY <2>1 DEF PipeOf, KeyAt
    <2>5. IF k \in Inputs(u[1]) /\ Reaches(info1, k)
            THEN \/ asked[r1][p1][u] = Want(u[1], k)
                 \/ RankKeyCall(u[1], u[2], k, Want(u[1], k)) \in Pending
                 \/ RanksCall(u[1], k, Want(u[1], k)) \in Pending
            ELSE asked[r1][p1][u] = 0
      BY DEF StopsInv, AskedInv
    <2> HIDE DEF k
    <2>6. RanksCall(u[1], k, Want(u[1], k)) # Call
      BY <1>2 DEF RanksCall
    <2>7. CASE u = Call.at
      <3>1. u[1] = s /\ u[2] = i /\ info1 = info /\ r1 = r
        BY <1>1, <2>1, <2>7 DEF r
      <3>2. CASE k = Call.key
        <4>1. p = p1 /\ p \in Pipes(r)
          BY <2>3, <3>1, <3>2 DEF p
        <4>2. CASE Reaches(info, Call.key)
          <5>1. asked'[r1][p1][u] = Call.vel
            BY <1>1, <2>2, <2>7, <3>1, <4>1, <4>2
          <5> QED  BY <1>3, <1>5, <3>1, <3>2, <4>2, <5>1 DEF k
        <4>3. CASE ~Reaches(info, Call.key)
          <5>1. ~Reaches(info1, k) /\ asked'[r1][p1][u] = asked[r1][p1][u]
            BY <1>1, <3>1, <3>2, <4>3
          <5> QED  BY <2>5, <5>1 DEF k
        <4> QED  BY <4>2, <4>3
      <3>3. CASE k # Call.key
        <4>1. p # p1
          BY <1>1, <2>4, <3>1, <3>3 DEF p
        <4>2. asked'[r1][p1][u] = asked[r1][p1][u]
          BY <1>1, <2>2, <3>1, <4>1
        <4>3. RankKeyCall(u[1], u[2], k, Want(u[1], k)) # Call
          BY <3>3 DEF RankKeyCall
        <4> QED  BY <1>5, <1>7, <2>5, <2>6, <4>2, <4>3 DEF k
      <3> QED  BY <3>2, <3>3
    <2>8. CASE u # Call.at
      <3>1. asked'[r1][p1][u] = asked[r1][p1][u]
        <4>1. CASE r1 = r
          BY <1>1, <2>2, <2>8, <4>1
        <4>2. CASE r1 # r
          BY <1>1, <2>2, <4>2
        <4> QED  BY <4>1, <4>2
      <3>2. RankKeyCall(u[1], u[2], k, Want(u[1], k)) # Call
        BY <2>1, <2>8 DEF RankKeyCall
      <3> QED  BY <1>5, <1>7, <2>5, <2>6, <3>1, <3>2 DEF k
    <2> QED  BY <2>7, <2>8
  <1>9. StopKeyInv'
    <2> SUFFICES ASSUME NEW m \in Manuals, NEW j \in DOMAIN StopsOf[m], StopsOf[m][j] \notin Effects,
                        NEW k \in StopKeys(StopsOf[m][j])
                 PROVE  LET t == StopsOf[m][j]
                            key == k + FirstKey[t] - 1
                        IN  IF key \in KeysOf(m)
                              THEN \/ stopKey'[t][k] = division'[m][key]
                                   \/ StopKeyCall(t, key + 1, division'[m][key]) \in Pending'
                              ELSE stopKey'[t][k] = 0
      BY DEF StopKeyInv, StopKeyCall
    <2>1. \A t, k1, v : StopKeyCall(t, k1, v) # Call
      BY <1>2 DEF StopKeyCall
    <2> QED  BY <1>1, <1>6, <1>7, <2>1 DEF StopsInv, StopKeyInv
  <1>10. StopCallInv'
    BY <1>5, <1>6, <1>7 DEF StopsInv, StopCallInv
  <1> QED  BY <1>8, <1>9, <1>10 DEF StopsInv

LEMMA SetRankKeyStateStops ==
  ASSUME TypeInv, StopsInv, SetRankKeyState, UNCHANGED <<couplerVars, manualVars>>
  PROVE  StopsInv'
  <1> DEFINE s == Call.at
             made == {RankKeyCall(s, i, Call.key, Call.vel) : i \in DOMAIN RankInfo[s]}
  <1>1. /\ s \in Stops /\ UNCHANGED <<stopVars, couplerVars, manualVars>> /\ Made(made)
    BY SetRankKeyStateStep
  <1>2. calls # <<>> /\ Call.op = "Ranks" /\ Call \in Pending
    BY FirstCall DEF SetRankKeyState, Doing, TypeInv
  <1>3. Call.key \in Inputs(s) /\ Call.vel = Want(s, Call.key)
    BY <1>2 DEF StopsInv, StopCallInv
  <1>4. \A t, k : Want(t, k)' = Want(t, k)
    BY <1>1 DEF Want, stopVars
  <1>5. division' = division /\ asked' = asked /\ stopKey' = stopKey
    BY <1>1 DEF manualVars, stopVars
  <1>6. Pending = {Call} \union ToCome /\ Pending' = made \union ToCome
    BY <1>1 DEF Made
  <1>7. AskedInv'
    <2> SUFFICES ASSUME NEW r \in Ranks, NEW p \in Pipes(r), NEW u \in Users(r)
                 PROVE  LET info == RankInfo[u[1]][u[2]]
                            k    == KeyAt(info, p)
                        IN  IF k \in Inputs(u[1]) /\ Reaches(info, k)
                              THEN \/ asked'[r][p][u] = Want(u[1], k)'
                                   \/ RankKeyCall(u[1], u[2], k, Want(u[1], k)') \in Pending'
                                   \/ RanksCall(u[1], k, Want(u[1], k)') \in Pending'
                              ELSE asked'[r][p][u] = 0
      BY DEF AskedInv, RankKeyCall, RanksCall
    <2> DEFINE info == RankInfo[u[1]][u[2]]
               k    == KeyAt(info, p)
               w    == Want(u[1], k)
    <2>1. IF k \in Inputs(u[1]) /\ Reaches(info, k)
            THEN \/ asked[r][p][u] = w
                 \/ RankKeyCall(u[1], u[2], k, w) \in Pending
                 \/ RanksCall(u[1], k, w) \in Pending
            ELSE asked[r][p][u] = 0
      BY DEF StopsInv, AskedInv
    <2>2. RankKeyCall(u[1], u[2], k, w) # Call
      BY <1>2 DEF RankKeyCall
    <2>3. ASSUME RanksCall(u[1], k, w) = Call PROVE RankKeyCall(u[1], u[2], k, w) \in made
      <3>1. u[1] = s /\ k = Call.key /\ w = Call.vel
        <4>1. RanksCall(u[1], k, w).at = u[1] /\ RanksCall(u[1], k, w).key = k /\ RanksCall(u[1], k, w).vel = w
          BY DEF RanksCall
        <4> QED  BY <2>3, <4>1
      <3>2. u[2] \in DOMAIN RankInfo[s]
        BY <3>1, UserIs
      <3> QED  BY <3>1, <3>2
    <2>4. Want(u[1], k)' = w
      BY <1>4
    <2> HIDE DEF made, w
    <2> QED  BY <1>5, <1>6, <2>1, <2>2, <2>3, <2>4
  <1>8. StopKeyInv'
    <2> SUFFICES ASSUME NEW m \in Manuals, NEW j \in DOMAIN StopsOf[m], StopsOf[m][j] \notin Effects,
                        NEW k \in StopKeys(StopsOf[m][j])
                 PROVE  LET t == StopsOf[m][j]
                            key == k + FirstKey[t] - 1
                        IN  IF key \in KeysOf(m)
                              THEN \/ stopKey'[t][k] = division'[m][key]
                                   \/ StopKeyCall(t, key + 1, division'[m][key]) \in Pending'
                              ELSE stopKey'[t][k] = 0
      BY DEF StopKeyInv, StopKeyCall
    <2>1. \A t, k1, v : StopKeyCall(t, k1, v) # Call
      BY <1>2 DEF StopKeyCall
    <2> QED  BY <1>5, <1>6, <2>1 DEF StopsInv, StopKeyInv
  <1>9. StopCallInv'
    <2> SUFFICES ASSUME NEW x \in Pending'
                 PROVE  /\ x.op = "StopKey" => \A m \in Manuals : \A i \in DOMAIN StopsOf[m] :
                             StopsOf[m][i] = x.at => x.key - 1 \in KeysOf(m) /\ x.vel = division'[m][x.key - 1]
                        /\ x.op = "Ranks" => x.key \in Inputs(x.at) /\ x.vel = Want(x.at, x.key)'
                        /\ x.op = "RankKey" => x.key \in Inputs(x.at[1]) /\ x.vel = Want(x.at[1], x.key)'
      BY DEF StopCallInv
    <2>1. CASE x \in made
      BY <1>3, <1>4, <2>1 DEF RankKeyCall
    <2>2. CASE x \in ToCome
      BY <1>4, <1>5, <1>6, <2>2 DEF StopsInv, StopCallInv
    <2> QED  BY <1>6, <2>1, <2>2
  <1> QED  BY <1>7, <1>8, <1>9 DEF StopsInv

LEMMA StopKeyStops ==
  ASSUME TypeInv, StopsInv, StopKey, UNCHANGED <<couplerVars, manualVars>>
  PROVE  StopsInv'
  <1> DEFINE s == Call.at
             k == Call.key - FirstKey[s]
             x == RanksCall(s, k, Call.vel)
             change == k \in StopKeys(s) /\ s \notin Effects /\ stopKey[s][k] # Call.vel
  <1>1. /\ s \in Stops /\ Call.key \in Nat
        /\ UNCHANGED <<stopOn, asked, pipe, couplerVars, manualVars>>
        /\ IF change
             THEN /\ stopKey' = [stopKey EXCEPT ![s][k] = Call.vel]
                  /\ stopOn[s] => Made({x})
                  /\ ~stopOn[s] => Made({})
             ELSE UNCHANGED stopKey /\ Made({})
    BY StopKeyStep
  <1>2. calls # <<>> /\ Call.op = "StopKey" /\ Call \in Pending /\ Pending = {Call} \union ToCome
    BY FirstCall DEF StopKey, Doing, TypeInv
  <1>3. \A y \in Pending : y.op \notin {"Ranks", "RankKey"}
    <2>1. \A y \in Pending : Depth(Call) <= Depth(y)
      BY <1>2, FirstCall DEF TypeInv
    <2> QED  BY <1>2, <2>1 DEF Depth
  <1>4. /\ FirstKey[s] \in Nat /\ k \in Int /\ Call.key = k + FirstKey[s]
        /\ stopKey[s] \in [StopKeys(s) -> PipeLevels] /\ DOMAIN stopKey = Stops
    BY <1>1, StopsAssumption DEF TypeInv, KeysTypeOK, StopsTypeOK, Arrays
  <1>5. \A m \in Manuals : \A i \in DOMAIN StopsOf[m] :
          StopsOf[m][i] = s => Call.key - 1 \in KeysOf(m) /\ Call.vel = division[m][Call.key - 1]
    BY <1>2 DEF StopsInv, StopCallInv
  <1>6. division' = division /\ stopOn' = stopOn /\ asked' = asked
    BY <1>1 DEF manualVars
  <1> HIDE DEF k
  <1>7. \A t \in Stops : \A j \in StopKeys(t) :
          stopKey'[t][j] = IF change /\ t = s /\ j = k THEN Call.vel ELSE stopKey[t][j]
    BY <1>1, <1>4
  <1>8. \A t \in Stops : \A j \in Inputs(t) :
          Want(t, j)' = IF change /\ t = s /\ j = k /\ stopOn[s] THEN Call.vel ELSE Want(t, j)
    BY <1>6, <1>7 DEF Want, Inputs
  <1>9. /\ Pending' \subseteq {x} \union ToCome /\ ToCome \subseteq Pending'
        /\ change /\ stopOn[s] => x \in Pending'
        /\ ~(change /\ stopOn[s]) => Pending' = ToCome
    BY <1>1, <1>2 DEF Made
  <1>10. AskedInv'
    <2> SUFFICES ASSUME NEW r \in Ranks, NEW p \in Pipes(r), NEW u \in Users(r)
                 PROVE  LET info == RankInfo[u[1]][u[2]]
                            q    == KeyAt(info, p)
                        IN  IF q \in Inputs(u[1]) /\ Reaches(info, q)
                              THEN \/ asked'[r][p][u] = Want(u[1], q)'
                                   \/ RankKeyCall(u[1], u[2], q, Want(u[1], q)') \in Pending'
                                   \/ RanksCall(u[1], q, Want(u[1], q)') \in Pending'
                              ELSE asked'[r][p][u] = 0
      BY DEF AskedInv, RankKeyCall, RanksCall
    <2> DEFINE info == RankInfo[u[1]][u[2]]
               q    == KeyAt(info, p)
               w    == Want(u[1], q)
    <2>1. IF q \in Inputs(u[1]) /\ Reaches(info, q)
            THEN \/ asked[r][p][u] = w
                 \/ RankKeyCall(u[1], u[2], q, w) \in Pending
                 \/ RanksCall(u[1], q, w) \in Pending
            ELSE asked[r][p][u] = 0
      BY DEF StopsInv, AskedInv
    <2>2. RankKeyCall(u[1], u[2], q, w).op = "RankKey" /\ RanksCall(u[1], q, w).op = "Ranks"
      BY DEF RankKeyCall, RanksCall
    <2>3. IF q \in Inputs(u[1]) /\ Reaches(info, q) THEN asked[r][p][u] = w ELSE asked[r][p][u] = 0
      BY <1>3, <2>1, <2>2
    <2>4. u[1] \in Stops
      BY UserIs
    <2>5. CASE change /\ u[1] = s /\ q = k /\ stopOn[s] /\ q \in Inputs(u[1])
      <3>1. Want(u[1], q)' = Call.vel
        BY <1>8, <2>4, <2>5
      <3>2. RanksCall(u[1], q, Want(u[1], q)') \in Pending'
        BY <1>9, <2>5, <3>1
      <3> QED  BY <1>6, <2>3, <3>2
    <2>6. CASE ~(change /\ u[1] = s /\ q = k /\ stopOn[s]) /\ q \in Inputs(u[1])
      <3>1. Want(u[1], q)' = w
        BY <1>8, <2>4, <2>6
      <3> QED  BY <1>6, <2>3, <3>1
    <2>7. CASE q \notin Inputs(u[1])
      BY <1>6, <2>3, <2>7
    <2> QED  BY <2>5, <2>6, <2>7
  <1>11. StopKeyInv'
    <2> SUFFICES ASSUME NEW m \in Manuals, NEW i \in DOMAIN StopsOf[m], StopsOf[m][i] \notin Effects,
                        NEW j \in StopKeys(StopsOf[m][i])
                 PROVE  LET t == StopsOf[m][i]
                            key == j + FirstKey[t] - 1
                        IN  IF key \in KeysOf(m)
                              THEN \/ stopKey'[t][j] = division'[m][key]
                                   \/ StopKeyCall(t, key + 1, division'[m][key]) \in Pending'
                              ELSE stopKey'[t][j] = 0
      BY DEF StopKeyInv, StopKeyCall
    <2> DEFINE t == StopsOf[m][i]
               key == j + FirstKey[t] - 1
    <2>1. t \in Stops /\ FirstKey[t] \in Nat /\ j \in Int
      <3>1. StopsOf[m] \in Seq(Stops) /\ i \in 1..Len(StopsOf[m])
        BY Keyboards, LenProperties
      <3>2. t \in Stops
        BY <3>1, ElementOfSeq
      <3> QED  BY <3>2, StopsAssumption DEF StopKeys
    <2>2. IF key \in KeysOf(m)
            THEN \/ stopKey[t][j] = division[m][key]
                 \/ StopKeyCall(t, key + 1, division[m][key]) \in Pending
            ELSE stopKey[t][j] = 0
      BY DEF StopsInv, StopKeyInv
    <2>3. CASE t = s /\ j = k
      <3>1. key = Call.key - 1
        BY <1>4, <2>1, <2>3
      <3>2. key \in KeysOf(m) /\ division[m][key] = Call.vel
        BY <1>5, <2>3, <3>1
      <3>3. stopKey'[t][j] = Call.vel
        BY <1>1, <1>7, <2>3
      <3> QED  BY <1>6, <3>2, <3>3
    <2>4. CASE ~(t = s /\ j = k)
      <3>1. stopKey'[t][j] = stopKey[t][j]
        BY <1>7, <2>1, <2>4
      <3>2. StopKeyCall(t, key + 1, division[m][key]) # Call
        <4>1. SUFFICES ASSUME StopKeyCall(t, key + 1, division[m][key]) = Call PROVE FALSE
          OBVIOUS
        <4>2. t = s /\ key + 1 = Call.key
          BY <4>1 DEF StopKeyCall
        <4> QED  BY <1>4, <2>1, <2>4, <4>2
      <3> HIDE DEF key, t
      <3>3. StopKeyCall(t, key + 1, division[m][key]) \in Pending => StopKeyCall(t, key + 1, division[m][key]) \in Pending'
        BY <1>2, <1>9, <3>2
      <3> QED  BY <1>6, <2>2, <3>1, <3>3 DEF key, t
    <2> QED  BY <2>3, <2>4
  <1>12. StopCallInv'
    <2> SUFFICES ASSUME NEW y \in Pending'
                 PROVE  /\ y.op = "StopKey" => \A m \in Manuals : \A i \in DOMAIN StopsOf[m] :
                             StopsOf[m][i] = y.at => y.key - 1 \in KeysOf(m) /\ y.vel = division'[m][y.key - 1]
                        /\ y.op = "Ranks" => y.key \in Inputs(y.at) /\ y.vel = Want(y.at, y.key)'
                        /\ y.op = "RankKey" => y.key \in Inputs(y.at[1]) /\ y.vel = Want(y.at[1], y.key)'
      BY DEF StopCallInv
    <2>1. CASE y \in ToCome
      <3>1. y \in Pending /\ y.op \notin {"Ranks", "RankKey"}
        BY <1>2, <1>3, <2>1
      <3> QED  BY <1>6, <3>1 DEF StopsInv, StopCallInv
    <2>2. CASE y = x /\ change /\ stopOn[s]
      <3>1. y.op = "Ranks" /\ y.at = s /\ y.key = k /\ y.vel = Call.vel
        BY <2>2 DEF RanksCall
      <3>2. y.at \in Stops /\ y.key \in Inputs(y.at)
        BY <1>1, <2>2, <3>1 DEF Inputs
      <3>3. Want(y.at, y.key)' = Call.vel
        BY <1>8, <2>2, <3>1, <3>2
      <3> QED  BY <3>1, <3>2, <3>3
    <2> QED  BY <1>9, <2>1, <2>2
  <1> QED  BY <1>10, <1>11, <1>12 DEF StopsInv

LEMMA SetDivisionKeyStateStops ==
  ASSUME TypeInv, StopsInv, SetDivisionKeyState
  PROVE  StopsInv'
  <1> DEFINE m == Call.at
             k == Call.key
             v == Sounding(m, k)
             new == [i \in DOMAIN StopsOf[m] |-> StopKeyCall(StopsOf[m][i], k + 1, v)]
             made == {new[i] : i \in DOMAIN StopsOf[m]}
  <1>1. /\ m \in Manuals /\ k \in KeysOf(m)
        /\ UNCHANGED <<midiKey, bySlot, unisonOff, repeated, couplerVars, stopVars>>
        /\ IF division[m][k] # v
             THEN division' = [division EXCEPT ![m][k] = v] /\ Made(made)
             ELSE UNCHANGED division /\ Made({})
    BY SetDivisionKeyStateStep
  <1>2. calls # <<>> /\ Call.op = "Division" /\ Pending = {Call} \union ToCome
    BY FirstCall DEF SetDivisionKeyState, Doing, TypeInv
  <1>3. \A y \in Pending : y.op \notin Low
    <2>1. \A y \in Pending : Depth(Call) <= Depth(y)
      BY <1>2, FirstCall DEF TypeInv
    <2> QED  BY <1>2, <2>1 DEF Depth, Low
  <1>4. UNCHANGED <<stopOn, stopKey, asked>>
    BY <1>1 DEF stopVars
  <1>5. CASE division[m][k] = v
    <2>1. Made({}) /\ division' = division
      BY <1>1, <1>5
    <2> QED  BY <1>1, <1>2, <2>1, StopsUntouched DEF Low
  <1>6. CASE division[m][k] # v
    <2>1. division' = [division EXCEPT ![m][k] = v] /\ Pending' = made \union ToCome
      BY <1>1, <1>6 DEF Made
    <2>2. \A i \in DOMAIN StopsOf[m] : StopKeyCall(StopsOf[m][i], k + 1, v) \in made
      OBVIOUS
    <2>3. \A y \in made : \E i \in DOMAIN StopsOf[m] : y = StopKeyCall(StopsOf[m][i], k + 1, v)
      OBVIOUS
    <2>4. division[m] \in [KeysOf(m) -> PipeLevels] /\ DOMAIN division = Manuals /\ k \in Int
      BY <1>1, Keyboards DEF TypeInv, KeysTypeOK, Arrays
    <2> HIDE DEF v, made, new
    <2>5. \A n \in Manuals : \A j \in KeysOf(n) :
            division'[n][j] = IF n = m /\ j = k THEN v ELSE division[n][j]
      BY <1>1, <2>1, <2>4
    <2>6. \A t, j : Want(t, j)' = Want(t, j)
      BY <1>4 DEF Want
    <2>7. AskedInv'
      <3> SUFFICES ASSUME NEW r \in Ranks, NEW p \in Pipes(r), NEW u \in Users(r)
                   PROVE  LET info == RankInfo[u[1]][u[2]]
                              q    == KeyAt(info, p)
                          IN  IF q \in Inputs(u[1]) /\ Reaches(info, q)
                                THEN asked'[r][p][u] = Want(u[1], q)' ELSE asked'[r][p][u] = 0
        BY DEF AskedInv
      <3>1. \A t, j, w : RanksCall(t, j, w) \notin Pending
        BY <1>3 DEF RanksCall, Low
      <3>2. \A t, i, j, w : RankKeyCall(t, i, j, w) \notin Pending
        BY <1>3 DEF RankKeyCall, Low
      <3> QED  BY <1>4, <2>6, <3>1, <3>2 DEF StopsInv, AskedInv
    <2>8. StopKeyInv'
      <3> SUFFICES ASSUME NEW n \in Manuals, NEW i \in DOMAIN StopsOf[n], StopsOf[n][i] \notin Effects,
                          NEW j \in StopKeys(StopsOf[n][i])
                   PROVE  LET t == StopsOf[n][i]
                              key == j + FirstKey[t] - 1
                          IN  IF key \in KeysOf(n)
                                THEN \/ stopKey'[t][j] = division'[n][key]
                                     \/ StopKeyCall(t, key + 1, division'[n][key]) \in Pending'
                                ELSE stopKey'[t][j] = 0
        BY DEF StopKeyInv, StopKeyCall
      <3>1. \A t, j1, w : StopKeyCall(t, j1, w) \notin Pending
        BY <1>3 DEF StopKeyCall, Low
      <3> DEFINE t == StopsOf[n][i]
                 key == j + FirstKey[t] - 1
      <3>2. IF key \in KeysOf(n) THEN stopKey[t][j] = division[n][key] ELSE stopKey[t][j] = 0
        BY <3>1 DEF StopsInv, StopKeyInv
      <3> HIDE DEF key
      <3>3. CASE n = m /\ key = k
        <4>1. StopKeyCall(t, key + 1, division'[n][key]) \in Pending' /\ key \in KeysOf(n)
          BY <1>1, <2>1, <2>2, <2>5, <3>3
        <4> QED  BY <4>1 DEF key
      <3>4. CASE ~(n = m /\ key = k)
        <4>1. key \in KeysOf(n) => division'[n][key] = division[n][key]
          BY <2>5, <3>4
        <4> QED  BY <1>4, <3>2, <4>1 DEF key
      <3> QED  BY <3>3, <3>4
    <2>9. StopCallInv'
      <3> SUFFICES ASSUME NEW y \in Pending'
                   PROVE  /\ y.op = "StopKey" => \A n \in Manuals : \A j \in DOMAIN StopsOf[n] :
                               StopsOf[n][j] = y.at => y.key - 1 \in KeysOf(n) /\ y.vel = division'[n][y.key - 1]
                          /\ y.op = "Ranks" => y.key \in Inputs(y.at) /\ y.vel = Want(y.at, y.key)'
                          /\ y.op = "RankKey" => y.key \in Inputs(y.at[1]) /\ y.vel = Want(y.at[1], y.key)'
        BY DEF StopCallInv
      <3>1. CASE y \in ToCome
        BY <1>2, <1>3, <3>1 DEF Low
      <3>2. CASE y \in made
        <4>1. PICK i \in DOMAIN StopsOf[m] : y = StopKeyCall(StopsOf[m][i], k + 1, v)
          BY <2>3, <3>2
        <4>2. y.op = "StopKey" /\ y.at = StopsOf[m][i] /\ y.key = k + 1 /\ y.vel = v
          BY <4>1 DEF StopKeyCall
        <4>3. \A n \in Manuals : \A j \in DOMAIN StopsOf[n] : StopsOf[n][j] = y.at => n = m
          BY <1>1, <4>2, CouplersAssumption
        <4>4. y.key - 1 = k
          BY <2>4, <4>2
        <4> QED  BY <1>1, <2>5, <4>2, <4>3, <4>4
      <3> QED  BY <2>1, <3>1, <3>2
    <2> QED  BY <2>7, <2>8, <2>9 DEF StopsInv
  <1> QED  BY <1>5, <1>6

LEMMA PrepareStopsInv ==
  ASSUME TypeInv, Prepare
  PROVE  StopsInv'
  <1>1. Pending' = {} /\ division' = NoDivision /\ PrepareStops
    BY PrepareStep
  <1>2. \A t \in Stops : \A k \in Inputs(t) : Want(t, k)' = 0
    <2>1. \A t \in Stops : stopOn'[t] => t \notin Effects
      BY <1>1 DEF PrepareStops
    <2>2. \A t \in Stops : \A k \in StopKeys(t) : stopKey'[t][k] = 0
      BY <1>1 DEF PrepareStops, NoStopKeys
    <2> QED  BY <2>1, <2>2 DEF Want, Inputs
  <1>3. AskedInv'
    <2> SUFFICES ASSUME NEW r \in Ranks, NEW p \in Pipes(r), NEW u \in Users(r)
                 PROVE  LET info == RankInfo[u[1]][u[2]]
                            q    == KeyAt(info, p)
                        IN  IF q \in Inputs(u[1]) /\ Reaches(info, q)
                              THEN asked'[r][p][u] = Want(u[1], q)' ELSE asked'[r][p][u] = 0
      BY DEF AskedInv
    <2>1. asked'[r][p][u] = 0
      BY <1>1 DEF PrepareStops, NotAsked
    <2>2. u[1] \in Stops
      BY UserIs
    <2> QED  BY <1>2, <2>1, <2>2
  <1>4. StopKeyInv'
    <2> SUFFICES ASSUME NEW n \in Manuals, NEW i \in DOMAIN StopsOf[n], StopsOf[n][i] \notin Effects,
                        NEW j \in StopKeys(StopsOf[n][i])
                 PROVE  LET t == StopsOf[n][i]
                            key == j + FirstKey[t] - 1
                        IN  IF key \in KeysOf(n) THEN stopKey'[t][j] = division'[n][key]
                                                 ELSE stopKey'[t][j] = 0
      BY DEF StopKeyInv
    <2>1. StopsOf[n][i] \in Stops
      <3>1. StopsOf[n] \in Seq(Stops) /\ i \in 1..Len(StopsOf[n])
        BY Keyboards, LenProperties
      <3> QED  BY <3>1, ElementOfSeq
    <2> QED  BY <1>1, <2>1 DEF PrepareStops, NoStopKeys, NoDivision
  <1>5. StopCallInv'
    BY <1>1 DEF StopCallInv
  <1> QED  BY <1>3, <1>4, <1>5 DEF StopsInv

LEMMA SwitchStopStops ==
  ASSUME TypeInv, StopsInv, NEW s \in Stops, SwitchStop(s), UNCHANGED <<couplerVars, manualVars>>
  PROVE  StopsInv'
  <1>1. /\ stopOn[s] \in BOOLEAN /\ stopOn' = [stopOn EXCEPT ![s] = ~@]
        /\ UNCHANGED <<stopKey, asked, pipe, couplerVars, manualVars>>
        /\ s \in Effects => Pending' = {RanksCall(s, 0, IF stopOn[s] THEN 0 ELSE MaxVelocity)}
        /\ s \notin Effects =>
             Pending' = {RanksCall(s, k, IF stopOn[s] THEN 0 ELSE stopKey[s][k]) : k \in StopKeys(s)}
    BY SwitchStopStep
  <1>2. Pending = {}
    BY EmptyToSet DEF SwitchStop, Pending
  <1>3. stopOn \in [Stops -> BOOLEAN]
    BY DEF TypeInv, KeysTypeOK, StopsTypeOK
  <1>4. stopOn'[s] = ~stopOn[s] /\ \A t \in Stops : t # s => stopOn'[t] = stopOn[t]
    BY <1>1, <1>3
  <1>5. \A t \in Stops : t # s => \A k : Want(t, k)' = Want(t, k)
    BY <1>1, <1>4 DEF Want
  <1>6. Pending' = {RanksCall(s, k, Want(s, k)') : k \in Inputs(s)}
    <2>1. CASE s \in Effects
      <3>1. \A k : Want(s, k)' = IF stopOn[s] THEN 0 ELSE MaxVelocity
        BY <1>4, <2>1 DEF Want
      <3> QED  BY <1>1, <2>1, <3>1 DEF Inputs
    <2>2. CASE s \notin Effects
      <3>1. \A k : Want(s, k)' = IF stopOn[s] THEN 0 ELSE stopKey[s][k]
        BY <1>1, <1>4, <2>2 DEF Want
      <3> QED  BY <1>1, <2>2, <3>1 DEF Inputs
    <2> QED  BY <2>1, <2>2
  <1>7. division' = division
    BY <1>1 DEF manualVars
  <1>8. AskedInv'
    <2> SUFFICES ASSUME NEW r \in Ranks, NEW p \in Pipes(r), NEW u \in Users(r)
                 PROVE  LET info == RankInfo[u[1]][u[2]]
                            q    == KeyAt(info, p)
                        IN  IF q \in Inputs(u[1]) /\ Reaches(info, q)
                              THEN \/ asked'[r][p][u] = Want(u[1], q)'
                                   \/ RanksCall(u[1], q, Want(u[1], q)') \in Pending'
                              ELSE asked'[r][p][u] = 0
      BY DEF AskedInv, RanksCall
    <2> DEFINE info == RankInfo[u[1]][u[2]]
               q    == KeyAt(info, p)
    <2>1. IF q \in Inputs(u[1]) /\ Reaches(info, q) THEN asked[r][p][u] = Want(u[1], q)
                                                    ELSE asked[r][p][u] = 0
      BY <1>2 DEF StopsInv, AskedInv
    <2>2. u[1] \in Stops
      BY UserIs
    <2>3. CASE u[1] = s
      BY <1>1, <1>6, <2>1, <2>3
    <2>4. CASE u[1] # s
      BY <1>1, <1>5, <2>1, <2>2, <2>4
    <2> QED  BY <2>3, <2>4
  <1>9. StopKeyInv'
    <2> SUFFICES ASSUME NEW n \in Manuals, NEW i \in DOMAIN StopsOf[n], StopsOf[n][i] \notin Effects,
                        NEW j \in StopKeys(StopsOf[n][i])
                 PROVE  LET t == StopsOf[n][i]
                            key == j + FirstKey[t] - 1
                        IN  IF key \in KeysOf(n) THEN stopKey'[t][j] = division'[n][key]
                                                 ELSE stopKey'[t][j] = 0
      BY DEF StopKeyInv
    <2> QED  BY <1>1, <1>2, <1>7 DEF StopsInv, StopKeyInv
  <1>10. StopCallInv'
    <2>1. \A x \in Pending' : x.op = "Ranks" /\ x.at = s /\ x.key \in Inputs(s) /\ x.vel = Want(s, x.key)'
      BY <1>6 DEF RanksCall
    <2> QED  BY <2>1 DEF StopCallInv
  <1> QED  BY <1>8, <1>9, <1>10 DEF StopsInv

LEMMA KeysInitStops == KeysInit => StopsInv
  <1> SUFFICES ASSUME KeysInit PROVE StopsInv
    OBVIOUS
  <1>1. Pending = {} /\ division = NoDivision /\ StopsInit
    BY EmptyToSet DEF KeysInit, Pending
  <1>2. \A t \in Stops : \A k : Want(t, k) = 0
    BY <1>1 DEF StopsInit, Want
  <1>3. AskedInv
    <2>1. \A r \in Ranks : \A p \in Pipes(r) : \A u \in Users(r) : asked[r][p][u] = 0 /\ u[1] \in Stops
      BY <1>1, UserIs DEF StopsInit, NotAsked
    <2> QED  BY <1>2, <2>1 DEF AskedInv
  <1>4. StopKeyInv
    <2> SUFFICES ASSUME NEW n \in Manuals, NEW i \in DOMAIN StopsOf[n], StopsOf[n][i] \notin Effects,
                        NEW j \in StopKeys(StopsOf[n][i])
                 PROVE  LET t == StopsOf[n][i]
                            key == j + FirstKey[t] - 1
                        IN  IF key \in KeysOf(n) THEN stopKey[t][j] = division[n][key]
                                                 ELSE stopKey[t][j] = 0
      BY DEF StopKeyInv
    <2>1. StopsOf[n][i] \in Stops
      <3>1. StopsOf[n] \in Seq(Stops) /\ i \in 1..Len(StopsOf[n])
        BY Keyboards, LenProperties
      <3> QED  BY <3>1, ElementOfSeq
    <2> QED  BY <1>1, <2>1 DEF StopsInit, NoStopKeys, NoDivision
  <1>5. StopCallInv
    BY <1>1 DEF StopCallInv
  <1> QED  BY <1>3, <1>4, <1>5 DEF StopsInv

-----------------------------------------------------------------------------
(* The division follows the keys *)

\* There are fewer unison-off couplers than m_UnisonOff can count.
UnisonCoupler == {c \in Couplers : Kind[c] = "unisonoff"}
FewUnisons    == Cardinality(UnisonCoupler) < Wrap

\* What the division may know of a key: once m_UnisonOff has counted a coupler
\* twice, the key may have changed before or after the count passed 0.
Hears(m, k) == IF repeated[m] THEN EitherWay(m, k) ELSE {Sounding(m, k)}

\* The division knows how a key sounds, or is about to be told.
DivisionInv ==
  \A m \in Manuals : \A k \in KeysOf(m) :
    division[m][k] \in Hears(m, k) \/ DivisionCall(m, k) \in Pending

\* What the next call will add to m_UnisonOff of manual m.
ToAdd(m) ==
  IF calls # <<>> /\ Call.op = "Unison" /\ Call.at = m THEN IF Call.on THEN 1 ELSE -1 ELSE 0

\* m_UnisonOff counts the unison-off couplers that are engaged, until a "Couple
\* Through" button makes it count one again.
UnisonInv ==
  /\ calls # <<>> => \A x \in ToCome : x.op # "Unison"
  /\ \A m \in Manuals :
       ~repeated[m] => Cardinality(UnisonCouplers(m)) = unisonOff[m] + ToAdd(m)

HearsInv == DivisionInv /\ UnisonInv

LEMMA SameHears ==
  ASSUME NEW m, NEW k, bySlot'[m][k] = bySlot[m][k], repeated'[m] = repeated[m],
         repeated[m] \/ (unisonOff'[m] > 0 <=> unisonOff[m] > 0)
  PROVE  Hears(m, k)' = Hears(m, k)
  <1>1. Velocity(m, k)' = Velocity(m, k) /\ Remote(m, k)' = Remote(m, k)
    BY DEF Velocity, Remote
  <1>2. EitherWay(m, k)' = EitherWay(m, k)
    BY <1>1 DEF EitherWay
  <1>3. ~repeated[m] => Sounding(m, k)' = Sounding(m, k)
    BY <1>1 DEF Sounding
  <1> QED  BY <1>2, <1>3 DEF Hears

\* However m_UnisonOff has been counted, a key sounds in one of two ways.
LEMMA SoundingHeard ==
  ASSUME NEW m, NEW k
  PROVE  Sounding(m, k) \in Hears(m, k)
  BY DEF Sounding, Hears, EitherWay

LEMMA DivisionKept ==
  ASSUME DivisionInv, UNCHANGED <<bySlot, division, unisonOff, repeated>>,
         \A x : x.op = "Division" /\ x \in Pending => x \in Pending'
  PROVE  DivisionInv'
  <1> SUFFICES ASSUME NEW m \in Manuals, NEW k \in KeysOf(m)
               PROVE  division'[m][k] \in Hears(m, k)' \/ DivisionCall(m, k) \in Pending'
    BY DEF DivisionInv, DivisionCall
  <1>1. Hears(m, k)' = Hears(m, k)
    BY SameHears
  <1>2. DivisionCall(m, k).op = "Division"
    BY DEF DivisionCall
  <1> QED  BY <1>1, <1>2 DEF DivisionInv

\* When no call of SetUnisonOff is left to be made.
LEMMA NoneToAdd ==
  ASSUME TypeInv', \A x \in Pending' : x.op # "Unison"
  PROVE  /\ calls' # <<>> => \A x \in ToCome' : x.op # "Unison"
         /\ \A m : ToAdd(m)' = 0
  <1>1. calls' \in Seq(KeyCalls)
    BY DEF TypeInv, CallsInv
  <1>2. calls' # <<>> => Pending' = {Head(calls')} \union ToCome'
    <2>1. <<>> \in Seq(KeyCalls)
      OBVIOUS
    <2> QED  BY <1>1, <2>1, Replaced DEF Pending, ToCome
  <1> QED  BY <1>2 DEF ToAdd, Call

LEMMA UnisonKept ==
  ASSUME TypeInv', UnisonInv, UNCHANGED <<unisonOff, engaged, repeated>>,
         \A m \in Manuals : ToAdd(m) = 0,
         \A x \in Pending' : x.op # "Unison"
  PROVE  UnisonInv'
  <1>1. /\ calls' # <<>> => \A x \in ToCome' : x.op # "Unison"
        /\ \A m : ToAdd(m)' = 0
    BY NoneToAdd
  <1>2. \A m \in Manuals : UnisonCouplers(m)' = UnisonCouplers(m) /\ unisonOff'[m] \in Int
    BY DEF UnisonCouplers, TypeInv, KeysTypeOK
  <1>3. \A m \in Manuals : ~repeated'[m] => Cardinality(UnisonCouplers(m)') = unisonOff'[m] + 0
    BY <1>2 DEF UnisonInv
  <1> QED  BY <1>1, <1>3 DEF UnisonInv

\* A handler that says nothing of keys that sound or of unison off.
LEMMA HearsUntouched ==
  ASSUME TypeInv, HearsInv, TypeInv', UNCHANGED <<bySlot, division, unisonOff, repeated, engaged>>,
         calls # <<>>, NEW made, Made(made), Call.op \notin {"Division", "Unison"},
         \A x \in made : x.op # "Unison"
  PROVE  HearsInv'
  <1>1. DivisionInv'
    <2>1. \A x : x.op = "Division" /\ x \in Pending => x \in Pending'
      BY DEF Made
    <2> QED  BY <2>1, DivisionKept DEF HearsInv
  <1>2. \A m \in Manuals : ToAdd(m) = 0
    BY DEF ToAdd
  <1>3. \A x \in Pending' : x.op # "Unison"
    BY DEF HearsInv, UnisonInv, Made
  <1> QED  BY <1>1, <1>2, <1>3, UnisonKept DEF HearsInv

LEMMA HearsAtRest ==
  ASSUME TypeInv, HearsInv, TypeInv', UNCHANGED <<bySlot, division, unisonOff, repeated, engaged>>, calls = <<>>,
         \A x \in Pending' : x.op # "Unison"
  PROVE  HearsInv'
  <1>1. Pending = {}
    BY EmptyToSet DEF Pending
  <1>2. DivisionInv'
    BY <1>1, DivisionKept DEF HearsInv
  <1>3. \A m \in Manuals : ToAdd(m) = 0
    BY DEF ToAdd
  <1> QED  BY <1>2, <1>3, UnisonKept DEF HearsInv

LEMMA SetKeyStateHears ==
  ASSUME TypeInv, HearsInv, SetKeyState
  PROVE  HearsInv'
  <1> DEFINE m == Call.at
             k == Call.key
             v == Call.vel
             slot == Call.slot
             made == {CouplerCall(c, k) : c \in {c \in Couplers : Source(c) = m}} \union {DivisionCall(m, k)}
  <1>1. /\ TypeInv' /\ m \in Manuals /\ k \in KeysOf(m) /\ slot \in Slots(m)
        /\ UNCHANGED <<midiKey, division, unisonOff, repeated, couplerVars, stopVars>>
        /\ IF bySlot[m][k][slot] # v
             THEN bySlot' = [bySlot EXCEPT ![m][k][slot] = v] /\ Made(made)
             ELSE UNCHANGED bySlot /\ Made({})
    BY SetKeyStateStep
  <1>2. calls # <<>> /\ Call.op = "Key"
    BY DEF SetKeyState, Doing
  <1>3. UNCHANGED <<engaged, division, unisonOff, repeated>>
    BY <1>1 DEF couplerVars
  <1>4. CASE bySlot[m][k][slot] = v
    <2>1. UNCHANGED bySlot /\ Made({})
      BY <1>1, <1>4
    <2> QED  BY <1>1, <1>2, <1>3, <2>1, HearsUntouched
  <1>5. CASE bySlot[m][k][slot] # v
    <2>1. bySlot' = [bySlot EXCEPT ![m][k][slot] = v] /\ Made(made)
      BY <1>1, <1>5
    <2>2. \A x \in made : x.op # "Unison"
      BY DEF CouplerCall, DivisionCall
    <2>3. DivisionCall(m, k) \in made
      OBVIOUS
    <2> HIDE DEF made
    <2>4. DivisionInv'
      <3> SUFFICES ASSUME NEW n \in Manuals, NEW j \in KeysOf(n)
                   PROVE  division'[n][j] \in Hears(n, j)' \/ DivisionCall(n, j) \in Pending'
        BY DEF DivisionInv, DivisionCall
      <3>1. CASE n = m /\ j = k
        BY <2>1, <2>3, <3>1 DEF Made
      <3>2. CASE ~(n = m /\ j = k)
        <4>1. bySlot'[n][j] = bySlot[n][j]
          <5>1. DOMAIN bySlot = Manuals /\ bySlot[m] \in [KeysOf(m) -> [Slots(m) -> Levels]]
                /\ bySlot[n] \in [KeysOf(n) -> [Slots(n) -> Levels]]
            BY <1>1 DEF TypeInv, KeysTypeOK, Arrays
          <5> QED  BY <1>1, <2>1, <3>2, <5>1
        <4>2. Hears(n, j)' = Hears(n, j)
          BY <1>3, <4>1, SameHears
        <4>3. DivisionCall(n, j) # Call
          BY <1>2 DEF DivisionCall
        <4> QED  BY <1>3, <2>1, <4>2, <4>3 DEF HearsInv, DivisionInv, Made
      <3> QED  BY <3>1, <3>2
    <2>5. \A n \in Manuals : ToAdd(n) = 0
      BY <1>2 DEF ToAdd
    <2>6. \A x \in Pending' : x.op # "Unison"
      BY <1>2, <2>1, <2>2 DEF HearsInv, UnisonInv, Made
    <2> QED  BY <1>1, <1>3, <2>4, <2>5, <2>6, UnisonKept DEF HearsInv
  <1> QED  BY <1>4, <1>5

LEMMA SetDivisionKeyStateHears ==
  ASSUME TypeInv, HearsInv, SetDivisionKeyState
  PROVE  HearsInv'
  <1> DEFINE m == Call.at
             k == Call.key
             v == Sounding(m, k)
             new == [i \in DOMAIN StopsOf[m] |-> StopKeyCall(StopsOf[m][i], k + 1, v)]
             made == IF division[m][k] # v THEN {new[i] : i \in DOMAIN StopsOf[m]} ELSE {}
  <1>1. /\ TypeInv' /\ m \in Manuals /\ k \in KeysOf(m)
        /\ UNCHANGED <<midiKey, bySlot, unisonOff, repeated, couplerVars, stopVars>>
        /\ IF division[m][k] # v THEN division' = [division EXCEPT ![m][k] = v]
                                 ELSE UNCHANGED division
        /\ Made(made)
    BY SetDivisionKeyStateStep
  <1>2. calls # <<>> /\ Call.op = "Division"
    BY DEF SetDivisionKeyState, Doing
  <1>3. UNCHANGED <<engaged, bySlot, unisonOff, repeated>>
    BY <1>1 DEF couplerVars
  <1>4. \A x \in made : x.op # "Unison"
    <2>1. \A i \in DOMAIN StopsOf[m] : new[i].op = "StopKey"
      BY DEF StopKeyCall
    <2> HIDE DEF new
    <2> QED  BY <2>1
  <1>5. division[m] \in [KeysOf(m) -> PipeLevels] /\ DOMAIN division = Manuals
    BY <1>1 DEF TypeInv, KeysTypeOK, Arrays
  <1> HIDE DEF v, made
  <1>6. \A n \in Manuals : \A j \in KeysOf(n) :
          division'[n][j] = IF n = m /\ j = k THEN v ELSE division[n][j]
    BY <1>1, <1>5
  <1>7. DivisionInv'
    <2> SUFFICES ASSUME NEW n \in Manuals, NEW j \in KeysOf(n)
                 PROVE  division'[n][j] \in Hears(n, j)' \/ DivisionCall(n, j) \in Pending'
      BY DEF DivisionInv, DivisionCall
    <2>1. Hears(n, j)' = Hears(n, j)
      BY <1>3, SameHears
    <2>2. CASE n = m /\ j = k
      BY <1>6, <2>1, <2>2, SoundingHeard DEF v
    <2>3. CASE ~(n = m /\ j = k)
      <3>1. DivisionCall(n, j) # Call
        <4>1. DivisionCall(n, j).at = n /\ DivisionCall(n, j).key = j
          BY DEF DivisionCall
        <4> QED  BY <2>3, <4>1
      <3>2. division'[n][j] = division[n][j]
        BY <1>6, <2>3
      <3> QED  BY <1>1, <2>1, <3>1, <3>2 DEF HearsInv, DivisionInv, Made
    <2> QED  BY <2>2, <2>3
  <1>8. \A n \in Manuals : ToAdd(n) = 0
    BY <1>2 DEF ToAdd
  <1>9. \A x \in Pending' : x.op # "Unison"
    BY <1>1, <1>2, <1>4 DEF HearsInv, UnisonInv, Made
  <1> QED  BY <1>1, <1>3, <1>7, <1>8, <1>9, UnisonKept DEF HearsInv

LEMMA UnisonBound ==
  ASSUME FewUnisons, NEW m
  PROVE  Cardinality(UnisonCouplers(m)) < Wrap /\ Cardinality(UnisonCouplers(m)) \in Nat
  <1>1. IsFiniteSet(UnisonCoupler) /\ UnisonCouplers(m) \subseteq UnisonCoupler
    <2>1. UnisonCoupler \subseteq Couplers
      BY DEF UnisonCoupler
    <2> QED  BY <2>1, CouplersAssumption, FS_Subset DEF UnisonCoupler, UnisonCouplers
  <1>2. /\ Cardinality(UnisonCoupler) \in Nat /\ Cardinality(UnisonCouplers(m)) \in Nat
        /\ Cardinality(UnisonCouplers(m)) <= Cardinality(UnisonCoupler)
    BY <1>1, FS_Subset, FS_CardinalityType
  <1> QED  BY <1>2, Bounds DEF FewUnisons

LEMMA SetUnisonOffHears ==
  ASSUME FewUnisons, TypeInv, HearsInv, SetUnisonOff
  PROVE  HearsInv'
  <1> DEFINE m == Call.at
             u == unisonOff[m]
             n == (u + (IF Call.on THEN 1 ELSE Wrap - 1)) % Wrap
             refresh == (IF Call.on THEN u ELSE n) = 0
             made == IF refresh THEN {DivisionCall(m, k) : k \in KeysOf(m)} ELSE {}
  <1>1. /\ TypeInv' /\ m \in Manuals /\ Call.on \in BOOLEAN
        /\ unisonOff' = [unisonOff EXCEPT ![m] = n]
        /\ UNCHANGED <<midiKey, bySlot, division, repeated, couplerVars, stopVars>>
        /\ Made(made)
    BY SetUnisonOffStep
  <1>2. calls # <<>> /\ Call.op = "Unison"
    BY DEF SetUnisonOff, Doing
  <1>3. UNCHANGED <<engaged, bySlot, division, repeated>>
    BY <1>1 DEF couplerVars
  <1>4. unisonOff \in [Manuals -> 0..Wrap - 1] /\ Wrap \in Nat \ {0}
    BY Bounds DEF TypeInv, KeysTypeOK
  <1>5. /\ ~repeated[m] => Cardinality(UnisonCouplers(m)) = u + IF Call.on THEN 1 ELSE -1
        /\ Cardinality(UnisonCouplers(m)) < Wrap /\ Cardinality(UnisonCouplers(m)) \in Nat
    BY <1>1, <1>2, UnisonBound DEF HearsInv, UnisonInv, ToAdd
  <1>6. u \in 0..Wrap - 1
    BY <1>1, <1>4
  <1>7. ASSUME ~repeated[m] PROVE n = Cardinality(UnisonCouplers(m))
    <2>1. CASE Call.on
      <3>1. u + 1 \in 0..Wrap - 1
        BY <1>4, <1>5, <1>6, <1>7, <2>1
      <3>2. (u + 1) % Wrap = u + 1
        BY <1>4, <3>1
      <3> QED  BY <1>5, <1>7, <2>1, <3>2
    <2>2. CASE ~Call.on
      <3>1. u - 1 \in 0..Wrap - 1
        BY <1>4, <1>5, <1>6, <1>7, <2>2
      <3>2. ((u - 1) + Wrap) % Wrap = u - 1
        BY <1>4, <3>1
      <3>3. u + (Wrap - 1) = (u - 1) + Wrap
        BY <1>4, <1>6
      <3>4. Cardinality(UnisonCouplers(m)) = u - 1
        BY <1>5, <1>6, <1>7, <2>2
      <3> QED  BY <2>2, <3>2, <3>3, <3>4
    <2> QED  BY <2>1, <2>2
  <1>8. \A x \in made : x.op # "Unison"
    BY DEF DivisionCall
  <1>9. refresh => \A k \in KeysOf(m) : DivisionCall(m, k) \in made
    OBVIOUS
  <1>10. ~refresh /\ ~repeated[m] => (n > 0 <=> u > 0)
    BY <1>1, <1>5, <1>6, <1>7
  <1> HIDE DEF made, n
  <1>11. unisonOff'[m] = n /\ \A m1 \in Manuals : m1 # m => unisonOff'[m1] = unisonOff[m1]
    BY <1>1, <1>4
  <1>12. DivisionInv'
    <2> SUFFICES ASSUME NEW m1 \in Manuals, NEW j \in KeysOf(m1)
                 PROVE  division'[m1][j] \in Hears(m1, j)' \/ DivisionCall(m1, j) \in Pending'
      BY DEF DivisionInv, DivisionCall
    <2>1. CASE m1 = m /\ refresh
      BY <1>1, <1>9, <2>1 DEF Made
    <2>2. CASE ~(m1 = m /\ refresh)
      <3>1. repeated[m1] \/ (unisonOff'[m1] > 0 <=> unisonOff[m1] > 0)
        BY <1>10, <1>11, <2>2
      <3>2. Hears(m1, j)' = Hears(m1, j)
        BY <1>3, <3>1, SameHears
      <3>3. DivisionCall(m1, j) # Call
        BY <1>2 DEF DivisionCall
      <3> QED  BY <1>1, <1>3, <3>2, <3>3 DEF HearsInv, DivisionInv, Made
    <2> QED  BY <2>1, <2>2
  <1>13. \A x \in Pending' : x.op # "Unison"
    BY <1>1, <1>2, <1>8 DEF HearsInv, UnisonInv, Made
  <1>14. /\ calls' # <<>> => \A x \in ToCome' : x.op # "Unison"
         /\ \A m1 : ToAdd(m1)' = 0
    BY <1>1, <1>13, NoneToAdd
  <1>15. \A m1 \in Manuals :
           ~repeated'[m1] => Cardinality(UnisonCouplers(m1)') = unisonOff'[m1] + 0
    <2> SUFFICES ASSUME NEW m1 \in Manuals, ~repeated[m1]
                 PROVE  Cardinality(UnisonCouplers(m1)') = unisonOff'[m1] + 0
      BY <1>3
    <2>1. UnisonCouplers(m1)' = UnisonCouplers(m1) /\ unisonOff'[m1] \in Int
      BY <1>1, <1>3 DEF UnisonCouplers, TypeInv, KeysTypeOK
    <2>2. CASE m1 = m
      BY <1>3, <1>7, <1>11, <2>1, <2>2 DEF UnisonCouplers
    <2>3. CASE m1 # m
      <3>1. ToAdd(m1) = 0
        BY <2>3 DEF ToAdd
      <3> QED  BY <1>4, <1>11, <2>1, <2>3, <3>1 DEF HearsInv, UnisonInv
    <2> QED  BY <2>2, <2>3
  <1> QED  BY <1>12, <1>13, <1>14, <1>15 DEF HearsInv, UnisonInv

LEMMA PrepareHears ==
  ASSUME FewUnisons, TypeInv, Prepare
  PROVE  HearsInv'
  <1>1. /\ Pending' = {} /\ calls' = <<>> /\ bySlot' = NoSlots /\ division' = NoDivision
        /\ unisonOff' = [m \in Manuals |-> Cardinality(UnisonCouplers(m)) % Wrap]
        /\ engaged' = engaged
    BY PrepareStep
  <1>2. DivisionInv'
    <2> SUFFICES ASSUME NEW m \in Manuals, NEW k \in KeysOf(m)
                 PROVE  division'[m][k] = Sounding(m, k)'
      BY SoundingHeard DEF DivisionInv, Hears, EitherWay, Sounding
    <2>1. \A s \in Slots(m) : bySlot'[m][k][s] = 0
      BY <1>1 DEF NoSlots
    <2>2. {bySlot'[m][k][s] : s \in Slots(m)} = {0}
      BY <2>1, Keyboards
    <2>3. {0} \union {bySlot'[m][k][s] : s \in Slots(m) \ {Own}} = {0}
      BY <2>1
    <2>4. SetMax({0}) = 0
      BY HighestIs
    <2>5. Velocity(m, k)' = 0 /\ Remote(m, k)' = 0
      BY <2>2, <2>3, <2>4 DEF Velocity, Remote
    <2>6. Sounding(m, k)' = 0
      BY <2>5 DEF Sounding
    <2> QED  BY <1>1, <2>6 DEF NoDivision
  <1>3. \A m \in Manuals : Cardinality(UnisonCouplers(m)') = unisonOff'[m] + ToAdd(m)'
    <2> SUFFICES ASSUME NEW m \in Manuals
                 PROVE  Cardinality(UnisonCouplers(m)') = unisonOff'[m] + ToAdd(m)'
      OBVIOUS
    <2>1. UnisonCouplers(m)' = UnisonCouplers(m)
      BY <1>1 DEF UnisonCouplers
    <2>2. ToAdd(m)' = 0
      BY <1>1 DEF ToAdd
    <2> DEFINE n == Cardinality(UnisonCouplers(m))
    <2>3. n \in Nat /\ n < Wrap /\ Wrap \in Nat
      BY UnisonBound, Bounds
    <2>4. n % Wrap = n
      BY <2>3
    <2> QED  BY <1>1, <2>1, <2>2, <2>3, <2>4
  <1> QED  BY <1>1, <1>2, <1>3 DEF HearsInv, UnisonInv

LEMMA SwitchCouplerHears ==
  ASSUME TypeInv, HearsInv, NEW c \in Couplers, SwitchCoupler(c)
  PROVE  HearsInv'
  <1>1. /\ TypeInv' /\ calls = <<>> /\ Pending = {}
        /\ engaged[c] \in BOOLEAN /\ engaged'[c] = ~engaged[c]
        /\ \A d \in Couplers : d # c => engaged'[d] = engaged[d]
        /\ UNCHANGED <<flags, input, internal, out, tone, last, through, stopVars, manualVars>>
        /\ Kind[c] = "unisonoff" =>
              calls' = <<UnisonCall(Source(c), ~engaged[c])>> /\ Pending' = {UnisonCall(Source(c), ~engaged[c])}
        /\ Kind[c] # "unisonoff" => Pending' = {EmitCall(c, n, ~engaged[c]) : n \in KeysOf(Dest[c])}
    BY SwitchCouplerStep, EmptyToSet DEF SwitchCoupler, Pending
  <1>2. UNCHANGED <<bySlot, division, unisonOff, repeated>>
    BY <1>1 DEF manualVars
  <1>3. DivisionInv'
    BY <1>1, <1>2, DivisionKept DEF HearsInv
  <1>5. \A m \in Manuals : /\ ~repeated[m] => Cardinality(UnisonCouplers(m)) = unisonOff[m]
                          /\ unisonOff[m] \in Nat
    <2>1. \A m \in Manuals : unisonOff[m] \in Nat
      BY Bounds DEF TypeInv, KeysTypeOK
    <2> QED  BY <1>1, <2>1 DEF HearsInv, UnisonInv, ToAdd
  <1>6. CASE Kind[c] # "unisonoff"
    <2>1. \A m \in Manuals : UnisonCouplers(m)' = UnisonCouplers(m)
      BY <1>1, <1>6 DEF UnisonCouplers
    <2>2. \A x \in Pending' : x.op # "Unison"
      BY <1>1, <1>6 DEF EmitCall
    <2>3. /\ calls' # <<>> => \A x \in ToCome' : x.op # "Unison"
          /\ \A m \in Manuals : ToAdd(m)' = 0
      BY <1>1, <2>2, NoneToAdd
    <2>4. \A m \in Manuals :
            ~repeated'[m] => Cardinality(UnisonCouplers(m)') = unisonOff'[m] + ToAdd(m)'
      BY <1>2, <1>5, <2>1, <2>3
    <2> QED  BY <1>3, <2>3, <2>4 DEF HearsInv, UnisonInv
  <1>7. CASE Kind[c] = "unisonoff"
    <2> DEFINE on == ~engaged[c]
               x == UnisonCall(Source(c), on)
    <2>1. calls' = <<x>> /\ x.op = "Unison" /\ x.at = Source(c) /\ x.on = on
      BY <1>1, <1>7 DEF UnisonCall
    <2> HIDE DEF x
    <2>2. calls' # <<>> /\ Head(calls') = x /\ Tail(calls') = <<>>
      BY <2>1
    <2>3. \A y \in ToCome' : FALSE
      BY <2>2, EmptyToSet DEF ToCome
    <2>4. \A m \in Manuals : ToAdd(m)' = IF m = Source(c) THEN IF on THEN 1 ELSE -1 ELSE 0
      <3> SUFFICES ASSUME NEW m \in Manuals
                   PROVE  ToAdd(m)' = IF m = Source(c) THEN IF on THEN 1 ELSE -1 ELSE 0
        OBVIOUS
      <3>1. Call' = x
        BY <2>2 DEF Call
      <3> QED  BY <2>1, <2>2, <3>1 DEF ToAdd
    <2>5. \A m \in Manuals :
            ~repeated'[m] => Cardinality(UnisonCouplers(m)') = unisonOff'[m] + ToAdd(m)'
      <3> SUFFICES ASSUME NEW m \in Manuals, ~repeated[m]
                   PROVE  Cardinality(UnisonCouplers(m)') = unisonOff'[m] + ToAdd(m)'
        BY <1>2
      <3> DEFINE S == UnisonCouplers(m)
                 T == UnisonCouplers(m)'
      <3>0. IsFiniteSet(S)
        BY UnisonCount
      <3>1. CASE m # Source(c)
        <4>1. T = S
          BY <1>1, <3>1 DEF UnisonCouplers
        <4> QED  BY <1>2, <1>5, <2>4, <3>1, <4>1
      <3>2. CASE m = Source(c) /\ on
        <4>1. T = S \union {c} /\ c \notin S
          BY <1>1, <1>7, <3>2 DEF UnisonCouplers
        <4> HIDE DEF S, T
        <4>2. Cardinality(T) = Cardinality(S) + 1
          BY <3>0, <4>1, FS_AddElement
        <4> QED  BY <1>2, <1>5, <2>4, <3>2, <4>2 DEF S, T
      <3>3. CASE m = Source(c) /\ ~on
        <4>1. T = S \ {c} /\ c \in S
          BY <1>1, <1>7, <3>3 DEF UnisonCouplers
        <4> HIDE DEF S, T
        <4>2. Cardinality(T) = Cardinality(S) - 1
          BY <3>0, <4>1, FS_RemoveElement
        <4>3. ToAdd(m)' = -1
          BY <2>4, <3>3
        <4>4. Cardinality(S) = unisonOff[m] /\ unisonOff[m] \in Nat
          BY <1>5 DEF S
        <4>5. Cardinality(T) = unisonOff'[m] + ToAdd(m)'
          BY <1>2, <4>2, <4>3, <4>4
        <4> QED  BY <4>5 DEF T
      <3> QED  BY <3>1, <3>2, <3>3
    <2> QED  BY <1>3, <2>3, <2>5 DEF HearsInv, UnisonInv
  <1> QED  BY <1>6, <1>7

LEMMA CoupleThroughHears ==
  ASSUME TypeInv, HearsInv, CoupleThrough
  PROVE  HearsInv'
  <1> DEFINE c == Call.at
             m == Source(c)
             x == UnisonCall(m, engaged[c])
  <1>1. /\ TypeInv' /\ calls # <<>> /\ Call.op = "Through" /\ c \in Couplers
        /\ UNCHANGED <<engaged, bySlot, division, unisonOff>>
    BY CoupleThroughStep DEF CoupleThrough, Doing
  <1>2. CASE Kind[c] # "unisonoff"
    <2>1. UNCHANGED repeated
      BY <1>2 DEF CoupleThrough
    <2>2. \E made : Made(made) /\ \A y \in made : y.op # "Unison"
      BY <1>2, CoupleThroughStep DEF RefreshCall
    <2> QED  BY <1>1, <2>1, <2>2, HearsUntouched
  <1>3. CASE Kind[c] = "unisonoff"
    <2>1. /\ repeated' = [repeated EXCEPT ![m] = TRUE]
          /\ calls' = <<x>> \o Tail(calls) /\ Made({x})
      BY <1>3, CoupleThroughStep DEF CoupleThrough, Continue
    <2>2. x.at = m /\ x.op = "Unison"
      BY DEF UnisonCall
    <2>3. repeated \in [Manuals -> BOOLEAN] /\ m \in Manuals /\ calls \in Seq(KeyCalls)
      BY <1>1, Home DEF TypeInv, KeysTypeOK, CallsInv
    <2>4. /\ repeated'[m] /\ \A n \in Manuals : n # m => repeated'[n] = repeated[n]
      BY <2>1, <2>3
    <2>5. calls' # <<>> /\ Call' = x /\ Tail(calls') = Tail(calls)
      <3>1. x \in KeyCalls /\ Tail(calls) \in Seq(KeyCalls)
        BY <1>1, <2>1, <2>3, HeadTailProperties DEF TypeInv, CallsInv, Made, Pending, ToSet
      <3> HIDE DEF x
      <3> QED  BY <2>1, <3>1 DEF Call
    <2> HIDE DEF x
    <2>6. DivisionInv'
      <3> SUFFICES ASSUME NEW n \in Manuals, NEW j \in KeysOf(n)
                   PROVE  division'[n][j] \in Hears(n, j)' \/ DivisionCall(n, j) \in Pending'
        BY DEF DivisionInv, DivisionCall
      <3>1. Velocity(n, j)' = Velocity(n, j) /\ Remote(n, j)' = Remote(n, j)
        BY <1>1 DEF Velocity, Remote
      <3>2. Sounding(n, j)' = Sounding(n, j) /\ EitherWay(n, j)' = EitherWay(n, j)
        BY <1>1, <3>1 DEF Sounding, EitherWay
      <3>3. Hears(n, j) \subseteq Hears(n, j)'
        BY <2>4, <3>2, SoundingHeard DEF Hears, Sounding, EitherWay
      <3>4. DivisionCall(n, j) # Call
        BY <1>1 DEF DivisionCall
      <3> QED  BY <1>1, <2>1, <3>3, <3>4 DEF HearsInv, DivisionInv, Made
    <2>7. \A n \in Manuals : n # m => ToAdd(n) = 0 /\ ToAdd(n)' = 0
      BY <1>1, <2>2, <2>5 DEF ToAdd
    <2>8. \A n \in Manuals : UnisonCouplers(n)' = UnisonCouplers(n)
      BY <1>1 DEF UnisonCouplers
    <2>9. \A n \in Manuals :
            ~repeated'[n] => Cardinality(UnisonCouplers(n)') = unisonOff'[n] + ToAdd(n)'
      BY <1>1, <2>4, <2>7, <2>8 DEF HearsInv, UnisonInv
    <2>10. \A y \in ToCome' : y.op # "Unison"
      BY <1>1, <2>5 DEF HearsInv, UnisonInv, ToCome
    <2> QED  BY <2>6, <2>9, <2>10 DEF HearsInv, UnisonInv
  <1> QED  BY <1>2, <1>3

LEMMA KeysInitHears == KeysInit => HearsInv
  <1> SUFFICES ASSUME KeysInit PROVE HearsInv
    OBVIOUS
  <1>1. Pending = {} /\ calls = <<>> /\ bySlot = NoSlots /\ division = NoDivision
    BY EmptyToSet DEF KeysInit, Pending
  <1>2. DivisionInv
    <2> SUFFICES ASSUME NEW m \in Manuals, NEW k \in KeysOf(m)
                 PROVE  division[m][k] = Sounding(m, k)
      BY SoundingHeard DEF DivisionInv
    <2>1. \A s \in Slots(m) : bySlot[m][k][s] = 0
      BY <1>1 DEF NoSlots
    <2>2. {bySlot[m][k][s] : s \in Slots(m)} = {0}
      BY <2>1, Keyboards
    <2>3. {0} \union {bySlot[m][k][s] : s \in Slots(m) \ {Own}} = {0}
      BY <2>1
    <2>4. SetMax({0}) = 0
      BY HighestIs
    <2>5. Velocity(m, k) = 0 /\ Remote(m, k) = 0
      BY <2>2, <2>3, <2>4 DEF Velocity, Remote
    <2>6. Sounding(m, k) = 0
      BY <2>5 DEF Sounding
    <2> QED  BY <1>1, <2>6 DEF NoDivision
  <1>3. \A m \in Manuals : Cardinality(UnisonCouplers(m)) = unisonOff[m] + ToAdd(m)
    <2> SUFFICES ASSUME NEW m \in Manuals PROVE Cardinality(UnisonCouplers(m)) = unisonOff[m] + ToAdd(m)
      OBVIOUS
    <2>1. UnisonCouplers(m) = {}
      BY DEF KeysInit, UnisonCouplers
    <2>2. unisonOff[m] = 0 /\ ToAdd(m) = 0
      BY <1>1 DEF KeysInit, ToAdd
    <2> QED  BY <2>1, <2>2, FS_EmptySet
  <1> QED  BY <1>1, <1>2, <1>3 DEF HearsInv, UnisonInv

\* What is true of the stops and pipes in every reachable state.
SpeakInv == TypeInv /\ PipeInv /\ StopsInv

LEMMA StepSpeaks ==
  ASSUME SpeakInv, [KeysNext]_keyVars
  PROVE  SpeakInv'
  <1>1. TypeInv /\ PipeInv /\ StopsInv /\ TypeInv' /\ PipeInv'
    BY StepTypes DEF SpeakInv
  <1> SUFFICES StopsInv'
    BY <1>1 DEF SpeakInv
  <1> USE DEF manualVars, stopVars, Low
  <1>2. CASE Note
    <2>1. Call.op \notin Low /\ UNCHANGED <<stopVars, division>>
      BY <1>2 DEF Note, Doing
    <2>2. \E made : Made(made) /\ \A x \in made : x.op \notin Low
      BY <1>1, <1>2, NoteStep DEF KeyCall
    <2> QED  BY <1>1, <2>1, <2>2, StopsUntouched
  <1>3. CASE AllNotesOff
    <2>1. Call.op \notin Low /\ UNCHANGED <<stopVars, division>>
      BY <1>3 DEF AllNotesOff, Doing
    <2>2. \E made : Made(made) /\ \A x \in made : x.op \notin Low
      BY <1>1, <1>3, AllNotesOffStep DEF NoteCall
    <2> QED  BY <1>1, <2>1, <2>2, StopsUntouched
  <1>4. CASE SetKeyState
    <2>1. Call.op \notin Low /\ UNCHANGED <<stopVars, division>>
      BY <1>4 DEF SetKeyState, Doing
    <2>2. \E made : Made(made) /\ \A x \in made : x.op \notin Low
      BY <1>1, <1>4, SetKeyStateStep DEF CouplerCall, DivisionCall
    <2> QED  BY <1>1, <2>1, <2>2, StopsUntouched
  <1>5. CASE SetDivisionKeyState
    BY <1>1, <1>5, SetDivisionKeyStateStops
  <1>6. CASE SetUnisonOff
    <2>1. Call.op \notin Low /\ UNCHANGED <<stopVars, division>>
      BY <1>6 DEF SetUnisonOff, Doing
    <2>2. \E made : Made(made) /\ \A x \in made : x.op \notin Low
      BY <1>1, <1>6, SetUnisonOffStep DEF DivisionCall
    <2> QED  BY <1>1, <2>1, <2>2, StopsUntouched
  <1>7. CASE SetKey
    <2>1. Call.op \notin Low /\ UNCHANGED <<stopVars, division>>
      BY <1>7 DEF SetKey, Doing
    <2>2. \E made : Made(made) /\ \A x \in made : x.op \notin Low
      BY <1>1, <1>7, SetKeyStep DEF OutCall, ToneCall
    <2> QED  BY <1>1, <2>1, <2>2, StopsUntouched
  <1>8. CASE SetTone
    <2>1. Call.op \notin Low /\ UNCHANGED <<stopVars, division>>
      BY <1>8 DEF SetTone, Doing
    <2>2. \E made : Made(made) /\ \A x \in made : x.op \notin Low
      BY <1>1, <1>8, SetToneStep DEF OutCall, LastCall
    <2> QED  BY <1>1, <2>1, <2>2, StopsUntouched
  <1>9. CASE SetLast
    <2>1. Call.op \notin Low /\ UNCHANGED <<stopVars, division>>
      BY <1>9 DEF SetLast, Doing
    <2>2. Made({})
      BY <1>1, <1>9, SetLastStep
    <2> QED  BY <1>1, <2>1, <2>2, StopsUntouched
  <1>10. CASE SetOut
    <2>1. Call.op \notin Low /\ UNCHANGED <<stopVars, division>>
      BY <1>10 DEF SetOut, Doing
    <2>2. \E made : Made(made) /\ \A x \in made : x.op \notin Low
      BY <1>1, <1>10, SetOutStep DEF KeyCall
    <2> QED  BY <1>1, <2>1, <2>2, StopsUntouched
  <1>11. CASE Emit
    <2>1. Call.op \notin Low /\ UNCHANGED <<stopVars, division>>
      BY <1>11 DEF Emit, Doing
    <2>2. \E made : Made(made) /\ \A x \in made : x.op \notin Low
      BY <1>1, <1>11, EmitStep DEF KeyCall
    <2> QED  BY <1>1, <2>1, <2>2, StopsUntouched
  <1>12. CASE CoupleThrough
    <2>1. Call.op \notin Low /\ UNCHANGED <<stopVars, division>>
      BY <1>12 DEF CoupleThrough, Doing
    <2>2. \E made : Made(made) /\ \A x \in made : x.op \notin Low
      BY <1>1, <1>12, CoupleThroughStep DEF UnisonCall, RefreshCall
    <2> QED  BY <1>1, <2>1, <2>2, StopsUntouched
  <1>13. CASE Refresh
    <2>1. Call.op \notin Low /\ UNCHANGED <<stopVars, division>>
      BY <1>13 DEF Refresh, Doing
    <2>2. \E made : Made(made) /\ \A x \in made : x.op \notin Low
      BY <1>1, <1>13, RefreshStep DEF CouplerCall
    <2> QED  BY <1>1, <2>1, <2>2, StopsUntouched
  <1>14. CASE Prepare
    BY <1>1, <1>14, PrepareStopsInv
  <1>15. CASE RankKey /\ UNCHANGED <<couplerVars, manualVars>>
    BY <1>1, <1>15, RankKeyStops
  <1>16. CASE SetRankKeyState /\ UNCHANGED <<couplerVars, manualVars>>
    BY <1>1, <1>16, SetRankKeyStateStops
  <1>17. CASE StopKey /\ UNCHANGED <<couplerVars, manualVars>>
    BY <1>1, <1>17, StopKeyStops
  <1>18. ASSUME NEW m \in Manuals, NEW k \in Playable[m], NEW v \in Velocities \union {0}, PlayKey(m, k, v)
         PROVE  StopsInv'
    <2>1. calls = <<>> /\ UNCHANGED <<stopVars, division>> /\ \A x \in Pending' : x.op \notin Low
      BY <1>1, <1>18, PlayKeyStep DEF PlayKey, NoteCall
    <2> QED  BY <1>1, <2>1, StopsAtRest
  <1>19. ASSUME NEW c \in Couplers, SwitchCoupler(c) PROVE StopsInv'
    <2>1. calls = <<>> /\ UNCHANGED <<stopVars, division>>
      BY <1>19 DEF SwitchCoupler
    <2>2. /\ Kind[c] = "unisonoff" => Pending' = {UnisonCall(Source(c), ~engaged[c])}
          /\ Kind[c] # "unisonoff" => Pending' = {EmitCall(c, n, ~engaged[c]) : n \in KeysOf(Dest[c])}
      BY <1>1, <1>19, SwitchCouplerStep
    <2>3. \A x \in Pending' : x.op \notin Low
      BY <2>2 DEF UnisonCall, EmitCall
    <2> QED  BY <1>1, <2>1, <2>3, StopsAtRest
  <1>20. ASSUME NEW b \in Buttons, PressThrough(b) PROVE StopsInv'
    <2>1. calls = <<>> /\ UNCHANGED <<stopVars, division>> /\ \A x \in Pending' : x.op \notin Low
      BY <1>1, <1>20, PressThroughStep DEF PressThrough
    <2> QED  BY <1>1, <2>1, StopsAtRest
  <1>21. ASSUME NEW s \in Stops, SwitchStop(s), UNCHANGED <<couplerVars, manualVars>> PROVE StopsInv'
    BY <1>1, <1>21, SwitchStopStops
  <1>22. CASE Restart
    <2>1. calls = <<>> /\ UNCHANGED <<stopVars, division>> /\ \A x \in Pending' : x.op \notin Low
      BY <1>1, <1>22, RestartStep DEF Restart, AllOffCall, PrepareCall
    <2> QED  BY <1>1, <2>1, StopsAtRest
  <1>23. CASE UNCHANGED keyVars
    <2>1. UNCHANGED <<stopOn, stopKey, asked, division, calls>>
      BY <1>23 DEF keyVars
    <2>2. Pending' = Pending
      BY <2>1 DEF Pending
    <2> QED  BY <1>1, <2>1, <2>2, StopsKept
  <1> QED  BY <1>2, <1>3, <1>4, <1>5, <1>6, <1>7, <1>8, <1>9, <1>10, <1>11, <1>12, <1>13, <1>14,
             <1>15, <1>16, <1>17, <1>18, <1>19, <1>20, <1>21, <1>22, <1>23 DEF KeysNext, Handle

LEMMA StepHears ==
  ASSUME FewUnisons, TypeInv, PipeInv, HearsInv, [KeysNext]_keyVars
  PROVE  HearsInv'
  <1>1. TypeInv' /\ PipeInv'
    BY StepTypes
  <1> USE DEF manualVars, couplerVars
  <1>2. CASE Note
    <2>1. Call.op \notin {"Division", "Unison"} /\ calls # <<>>
          /\ UNCHANGED <<bySlot, division, unisonOff, repeated, engaged>>
      BY <1>2 DEF Note, Doing
    <2>2. \E made : Made(made) /\ \A x \in made : x.op # "Unison"
      BY <1>2, NoteStep DEF KeyCall
    <2> QED  BY <1>1, <2>1, <2>2, HearsUntouched
  <1>3. CASE AllNotesOff
    <2>1. Call.op \notin {"Division", "Unison"} /\ calls # <<>>
          /\ UNCHANGED <<bySlot, division, unisonOff, repeated, engaged>>
      BY <1>3 DEF AllNotesOff, Doing
    <2>2. \E made : Made(made) /\ \A x \in made : x.op # "Unison"
      BY <1>3, AllNotesOffStep DEF NoteCall
    <2> QED  BY <1>1, <2>1, <2>2, HearsUntouched
  <1>4. CASE SetKeyState
    BY <1>4, SetKeyStateHears
  <1>5. CASE SetDivisionKeyState
    BY <1>5, SetDivisionKeyStateHears
  <1>6. CASE SetUnisonOff
    BY <1>6, SetUnisonOffHears
  <1>7. CASE SetKey
    <2>1. Call.op \notin {"Division", "Unison"} /\ calls # <<>>
          /\ UNCHANGED <<bySlot, division, unisonOff, repeated, engaged>>
      BY <1>7 DEF SetKey, Doing
    <2>2. \E made : Made(made) /\ \A x \in made : x.op # "Unison"
      BY <1>7, SetKeyStep DEF OutCall, ToneCall
    <2> QED  BY <1>1, <2>1, <2>2, HearsUntouched
  <1>8. CASE SetTone
    <2>1. Call.op \notin {"Division", "Unison"} /\ calls # <<>>
          /\ UNCHANGED <<bySlot, division, unisonOff, repeated, engaged>>
      BY <1>8 DEF SetTone, Doing
    <2>2. \E made : Made(made) /\ \A x \in made : x.op # "Unison"
      BY <1>8, SetToneStep DEF OutCall, LastCall
    <2> QED  BY <1>1, <2>1, <2>2, HearsUntouched
  <1>9. CASE SetLast
    <2>1. Call.op \notin {"Division", "Unison"} /\ calls # <<>>
          /\ UNCHANGED <<bySlot, division, unisonOff, repeated, engaged>>
      BY <1>9 DEF SetLast, Doing
    <2>2. Made({})
      BY <1>9, SetLastStep
    <2> QED  BY <1>1, <2>1, <2>2, HearsUntouched
  <1>10. CASE SetOut
    <2>1. Call.op \notin {"Division", "Unison"} /\ calls # <<>>
          /\ UNCHANGED <<bySlot, division, unisonOff, repeated, engaged>>
      BY <1>10 DEF SetOut, Doing
    <2>2. \E made : Made(made) /\ \A x \in made : x.op # "Unison"
      BY <1>10, SetOutStep DEF KeyCall
    <2> QED  BY <1>1, <2>1, <2>2, HearsUntouched
  <1>11. CASE Emit
    <2>1. Call.op \notin {"Division", "Unison"} /\ calls # <<>>
          /\ UNCHANGED <<bySlot, division, unisonOff, repeated, engaged>>
      BY <1>11 DEF Emit, Doing
    <2>2. \E made : Made(made) /\ \A x \in made : x.op # "Unison"
      BY <1>11, EmitStep DEF KeyCall
    <2> QED  BY <1>1, <2>1, <2>2, HearsUntouched
  <1>12. CASE CoupleThrough
    BY <1>12, CoupleThroughHears
  <1>13. CASE Refresh
    <2>1. Call.op \notin {"Division", "Unison"} /\ calls # <<>>
          /\ UNCHANGED <<bySlot, division, unisonOff, repeated, engaged>>
      BY <1>13 DEF Refresh, Doing
    <2>2. \E made : Made(made) /\ \A x \in made : x.op # "Unison"
      BY <1>13, RefreshStep DEF CouplerCall
    <2> QED  BY <1>1, <2>1, <2>2, HearsUntouched
  <1>14. CASE Prepare
    BY <1>14, PrepareHears
  <1>15. CASE RankKey /\ UNCHANGED <<couplerVars, manualVars>>
    <2>1. Call.op \notin {"Division", "Unison"} /\ calls # <<>>
      BY <1>15 DEF RankKey, Doing
    <2>2. Made({})
      BY <1>15, RankKeyStep
    <2> QED  BY <1>1, <1>15, <2>1, <2>2, HearsUntouched
  <1>16. CASE SetRankKeyState /\ UNCHANGED <<couplerVars, manualVars>>
    <2>1. Call.op \notin {"Division", "Unison"} /\ calls # <<>>
      BY <1>16 DEF SetRankKeyState, Doing
    <2>2. \E made : Made(made) /\ \A x \in made : x.op # "Unison"
      BY <1>16, SetRankKeyStateStep DEF RankKeyCall
    <2> QED  BY <1>1, <1>16, <2>1, <2>2, HearsUntouched
  <1>17. CASE StopKey /\ UNCHANGED <<couplerVars, manualVars>>
    <2>1. Call.op \notin {"Division", "Unison"} /\ calls # <<>>
      BY <1>17 DEF StopKey, Doing
    <2>2. \E made : Made(made) /\ \A x \in made : x.op # "Unison"
      BY <1>17, StopKeyStep DEF RanksCall
    <2> QED  BY <1>1, <1>17, <2>1, <2>2, HearsUntouched
  <1>18. ASSUME NEW m \in Manuals, NEW k \in Playable[m], NEW v \in Velocities \union {0}, PlayKey(m, k, v)
         PROVE  HearsInv'
    <2>1. calls = <<>> /\ Pending' = {NoteCall(m, k, v)} /\ UNCHANGED <<bySlot, division, unisonOff, repeated, engaged>>
      BY <1>18, PlayKeyStep DEF PlayKey
    <2>2. \A x \in Pending' : x.op # "Unison"
      BY <2>1 DEF NoteCall
    <2> QED  BY <1>1, <2>1, <2>2, HearsAtRest
  <1>19. ASSUME NEW c \in Couplers, SwitchCoupler(c) PROVE HearsInv'
    BY <1>19, SwitchCouplerHears
  <1>20. ASSUME NEW b \in Buttons, PressThrough(b) PROVE HearsInv'
    <2>1. calls = <<>> /\ UNCHANGED <<bySlot, division, unisonOff, repeated, engaged>>
      BY <1>20 DEF PressThrough
    <2>2. \A x \in Pending' : x.op = "Through"
      BY <1>20, PressThroughStep
    <2>3. \A x \in Pending' : x.op # "Unison"
      BY <2>2
    <2> QED  BY <1>1, <2>1, <2>3, HearsAtRest
  <1>21. ASSUME NEW s \in Stops, SwitchStop(s), UNCHANGED <<couplerVars, manualVars>> PROVE HearsInv'
    <2>1. calls = <<>>
      BY <1>21 DEF SwitchStop
    <2>2. \A x \in Pending' : x.op = "Ranks"
      <3>1. /\ s \in Effects => Pending' = {RanksCall(s, 0, IF stopOn[s] THEN 0 ELSE MaxVelocity)}
            /\ s \notin Effects =>
                 Pending' = {RanksCall(s, k, IF stopOn[s] THEN 0 ELSE stopKey[s][k]) : k \in StopKeys(s)}
        BY <1>21, SwitchStopStep
      <3>2. \A k, v : RanksCall(s, k, v).op = "Ranks"
        BY DEF RanksCall
      <3> QED  BY <3>1, <3>2
    <2> QED  BY <1>1, <1>21, <2>1, <2>2, HearsAtRest
  <1>22. CASE Restart
    <2>1. calls = <<>> /\ Pending' = {AllOffCall(m) : m \in Manuals} \union {PrepareCall}
          /\ UNCHANGED <<bySlot, division, unisonOff, repeated, engaged>>
      BY <1>22, RestartStep DEF Restart
    <2>2. \A x \in Pending' : x.op # "Unison"
      BY <2>1 DEF AllOffCall, PrepareCall
    <2> QED  BY <1>1, <2>1, <2>2, HearsAtRest
  <1>23. CASE UNCHANGED keyVars
    <2>1. calls' = calls /\ UNCHANGED <<bySlot, division, unisonOff, repeated, engaged>>
      BY <1>23 DEF keyVars
    <2>2. Pending' = Pending /\ ToCome' = ToCome /\ Call' = Call
      BY <2>1 DEF Pending, ToCome, Call
    <2>3. DivisionInv'
      BY <2>1, <2>2, DivisionKept DEF HearsInv
    <2>4. \A m \in Manuals : UnisonCouplers(m)' = UnisonCouplers(m) /\ ToAdd(m)' = ToAdd(m)
      BY <2>1, <2>2 DEF UnisonCouplers, ToAdd
    <2> QED  BY <2>1, <2>2, <2>3, <2>4 DEF HearsInv, UnisonInv
  <1> QED  BY <1>2, <1>3, <1>4, <1>5, <1>6, <1>7, <1>8, <1>9, <1>10, <1>11, <1>12, <1>13,
             <1>14, <1>15, <1>16, <1>17, <1>18, <1>19, <1>20, <1>21, <1>22, <1>23 DEF KeysNext, Handle

\* What the loudest user of a pipe asks is what the engaged stops ask of it.
LEMMA AllAsked ==
  ASSUME TypeInv, AskedInv, calls = <<>>, NEW r \in Ranks, NEW p \in Pipes(r)
  PROVE  {0} \union {asked[r][p][u] : u \in Users(r)}
           = {0} \union UNION {Asks(u[1], u[2], p) : u \in Users(r)}
  <1>1. Pending = {}
    BY EmptyToSet DEF Pending
  <1>2. ASSUME NEW u \in Users(r) PROVE Asks(u[1], u[2], p) = {0} \union {asked[r][p][u]}
    <2> DEFINE s == u[1]
               i == u[2]
               info == RankInfo[s][i]
               k == KeyAt(info, p)
    <2>1. s \in Stops /\ i \in DOMAIN RankInfo[s]
      BY UserIs
    <2>2. info.firstKey \in Int /\ info.firstPipe \in Int
      <3>1. RankInfo[s] \in Seq([rank : Ranks, firstKey : Nat \ {0}, firstPipe : Nat \ {0}, count : Nat \ {0}])
        BY <2>1, StopsAssumption
      <3>2. info \in [rank : Ranks, firstKey : Nat \ {0}, firstPipe : Nat \ {0}, count : Nat \ {0}]
        <4> DEFINE q == RankInfo[s]
                   T == [rank : Ranks, firstKey : Nat \ {0}, firstPipe : Nat \ {0}, count : Nat \ {0}]
        <4>1. q \in Seq(T) /\ i \in DOMAIN q
          BY <2>1, <3>1
        <4> HIDE DEF q, T
        <4>2. q[i] \in T
          BY <4>1
        <4> QED  BY <4>2 DEF q, T
      <3> QED  BY <3>2
    <2>3. \A j \in Int : PipeOf(info, j) = p <=> j = k
      BY <2>2 DEF KeyAt, PipeOf, Pipes
    <2>4. IF k \in Inputs(s) /\ Reaches(info, k) THEN asked[r][p][u] = Want(s, k) ELSE asked[r][p][u] = 0
      BY <1>1 DEF AskedInv
    <2>5. StopKeys(s) \subseteq Int
      BY DEF StopKeys
    <2> HIDE DEF k, info
    <2>6. CASE ~stopOn[s]
      <3>1. Asks(s, i, p) = {0}
        BY <2>6 DEF Asks
      <3> QED  BY <2>4, <2>6, <3>1 DEF Want
    <2>7. CASE stopOn[s] /\ s \in Effects
      <3>1. {j \in {0} : Reaches(info, j) /\ PipeOf(info, j) = p}
              = IF k \in {0} /\ Reaches(info, k) THEN {k} ELSE {}
        BY <2>3
      <3> DEFINE J == {j \in {0} : Reaches(info, j) /\ PipeOf(info, j) = p}
      <3>2. Asks(s, i, p) = {0} \union {MaxVelocity : j \in J}
        BY <2>7 DEF Asks, info
      <3> HIDE DEF J
      <3> QED  BY <2>4, <2>7, <3>1, <3>2 DEF Want, Inputs, J
    <2>8. CASE stopOn[s] /\ s \notin Effects
      <3>1. {j \in StopKeys(s) : Reaches(info, j) /\ PipeOf(info, j) = p}
              = IF k \in StopKeys(s) /\ Reaches(info, k) THEN {k} ELSE {}
        BY <2>3, <2>5
      <3> DEFINE J == {j \in StopKeys(s) : Reaches(info, j) /\ PipeOf(info, j) = p}
      <3>2. Asks(s, i, p) = {0} \union {stopKey[s][j] : j \in J}
        BY <2>8 DEF Asks, info
      <3> HIDE DEF J
      <3> QED  BY <2>4, <2>8, <3>1, <3>2 DEF Want, Inputs, J
    <2> QED  BY <2>6, <2>7, <2>8
  <1> DEFINE A(u) == Asks(u[1], u[2], p)
  <1>3. \A u \in Users(r) : A(u) = {0} \union {asked[r][p][u]}
    BY <1>2
  <1> HIDE DEF A
  <1>4. {0} \union {asked[r][p][u] : u \in Users(r)} = {0} \union UNION {A(u) : u \in Users(r)}
    BY <1>3
  <1> QED  BY <1>4 DEF A

\* A pipe speaks as loudly as the loudest of the keys that the engaged stops lead
\* to it; with a unison-off coupler engaged, without the player's own keys.  After
\* a "Couple Through" button has made a manual count a unison-off coupler again, a
\* key sounds with or without the player's own, and no other way.
\* (SetDivisionKeyState, SetUnisonOff, RefreshState, GOStop, GORank)
THEOREM PipesFollow ==
  ASSUME FewUnisons
  PROVE  KeysSpec => []PipesFollowKeys
  <1> DEFINE Inv == SpeakInv /\ HearsInv
  <1>1. KeysInit => Inv
    BY KeysInitTypes, KeysInitStops, KeysInitHears DEF SpeakInv
  <1>2. Inv /\ [KeysNext]_keyVars => Inv'
    BY StepSpeaks, StepHears DEF SpeakInv
  <1>3. Inv => PipesFollowKeys
    <2> DEFINE Allowed(m, k) == IF repeated[m] THEN EitherWay(m, k) ELSE {Heard(m, k)}
    <2> SUFFICES ASSUME SpeakInv, HearsInv, calls = <<>> PROVE PipesFollowKeys
      BY DEF PipesFollowKeys, StopsHear, AtRest
    <2>1. Pending = {}
      BY EmptyToSet DEF Pending
    <2>2. ASSUME NEW m \in Manuals, ~repeated[m] PROVE UnisonCouplers(m) # {} <=> unisonOff[m] > 0
      <3>1. Cardinality(UnisonCouplers(m)) = unisonOff[m] + 0 /\ unisonOff[m] \in Nat
        BY <2>2, Bounds DEF HearsInv, UnisonInv, ToAdd, SpeakInv, TypeInv, KeysTypeOK
      <3>2. IsFiniteSet(UnisonCouplers(m))
        BY UnisonCount
      <3> QED  BY <3>1, <3>2, FS_EmptySet
    <2>3. ASSUME NEW m \in Manuals, NEW i \in DOMAIN StopsOf[m], StopsOf[m][i] \notin Effects,
                 NEW k \in StopKeys(StopsOf[m][i])
          PROVE  LET key == k + FirstKey[StopsOf[m][i]] - 1
                 IN  stopKey[StopsOf[m][i]][k] \in IF key \in KeysOf(m) THEN Allowed(m, key) ELSE {0}
      <3> DEFINE s == StopsOf[m][i]
                 key == k + FirstKey[s] - 1
      <3>1. IF key \in KeysOf(m) THEN stopKey[s][k] = division[m][key] ELSE stopKey[s][k] = 0
        BY <2>1, <2>3 DEF SpeakInv, StopsInv, StopKeyInv
      <3>2. key \in KeysOf(m) => division[m][key] \in Hears(m, key)
        BY <2>1 DEF HearsInv, DivisionInv
      <3>3. ~repeated[m] => Sounding(m, key) = Heard(m, key)
        BY <2>2 DEF Sounding, Heard
      <3>4. Hears(m, key) = Allowed(m, key)
        BY <3>3 DEF Hears
      <3> QED  BY <3>1, <3>2, <3>4
    <2>4. ASSUME NEW r \in Ranks, NEW p \in Pipes(r)
          PROVE  pipe[r][p] = SetMax({0} \union UNION {Asks(u[1], u[2], p) : u \in Users(r)})
      BY AllAsked DEF SpeakInv, StopsInv, PipeInv
    <2>5. StopsHear(Allowed)
      BY <2>3 DEF StopsHear
    <2> QED  BY <2>4, <2>5 DEF PipesFollowKeys
  <1> QED  BY <1>1, <1>2, <1>3, PTL DEF KeysSpec

-----------------------------------------------------------------------------
(* The couplers take what they may follow *)

\* A coupler has taken a key, is about to, or the coupler the key comes through
\* is about to pass it on again.
TakenInv ==
  \A c \in Couplers : \A k \in KeysOf(Source(c)) :
    IF k \in Coupled(c)
      THEN \/ input[c][k] = Taken(c, k)
           \/ CouplerCall(c, k) \in Pending
           \/ \E d \in KeyCouplers : /\ Dest[d] = Source(c) /\ RefreshCall(d, k) \in Pending
                                     /\ bySlot[Source(c)][k][d] > 0
      ELSE input[c][k] = 0

\* The output of a coupler is in its slot of the destination, or on its way; and
\* it is what the coupler has, if it is engaged, or is about to be.
OutInv ==
  \A c \in KeyCouplers : \A n \in KeysOf(Dest[c]) :
    /\ bySlot[Dest[c]][n][c] = out[c][n] \/ KeyCall(Dest[c], n, out[c][n], c) \in Pending
    /\ \/ out[c][n] = IF engaged[c] THEN Decrement(internal[c][n]) ELSE 0
       \/ EmitCall(c, n, engaged[c]) \in Pending

\* What a coupler says is what it has.
SaidInv ==
  \A x \in Pending :
    /\ x.op = "Emit" => x.on = engaged[x.at]
    /\ x.op = "Key" /\ x.slot # Own =>
         x.slot \in KeyCouplers /\ x.at = Dest[x.slot] /\ x.vel = out[x.slot][x.key]

LEMMA TakenKept ==
  ASSUME TakenInv, UNCHANGED <<bySlot, flags, input>>,
         \A x : x.op \in {"SetKey", "Refresh"} /\ x \in Pending => x \in Pending'
  PROVE  TakenInv'
  <1> SUFFICES ASSUME NEW c \in Couplers, NEW k \in KeysOf(Source(c))
               PROVE  IF k \in Coupled(c)
                        THEN \/ input'[c][k] = Taken(c, k)'
                             \/ CouplerCall(c, k) \in Pending'
                             \/ \E d \in KeyCouplers : /\ Dest[d] = Source(c) /\ RefreshCall(d, k) \in Pending'
                                                       /\ bySlot'[Source(c)][k][d] > 0
                        ELSE input'[c][k] = 0
    BY DEF TakenInv, CouplerCall, RefreshCall
  <1>1. Taken(c, k)' = Taken(c, k)
    BY DEF Taken, MayFollow
  <1>2. CouplerCall(c, k).op = "SetKey" /\ \A d : RefreshCall(d, k).op = "Refresh"
    BY DEF CouplerCall, RefreshCall
  <1> QED  BY <1>1, <1>2 DEF TakenInv

LEMMA TakenByCoupler ==
  ASSUME TypeInv, TakenInv, SetKey
  PROVE  TakenInv'
  <1> DEFINE c == Call.at
             k == Call.key
             v == Taken(c, k)
  <1>1. /\ c \in Couplers /\ k \in KeysOf(Source(c))
        /\ UNCHANGED <<bySlot, flags>>
        /\ ToCome \subseteq Pending' /\ Pending = {Call} \union ToCome
        /\ IF k \in Coupled(c) /\ input[c][k] # v
             THEN input' = [input EXCEPT ![c] = [input[c] EXCEPT ![k] = v]] ELSE UNCHANGED input
    BY SetKeyStep, FirstCall DEF manualVars, SetKey, Made, TypeInv, CallsInv, Doing
  <1>2. Call.op = "SetKey" /\ DOMAIN input = Couplers
        /\ input[c] \in [KeysOf(Source(c)) -> Levels]
    BY <1>1 DEF SetKey, Doing, TypeInv, Arrays, KeysTypeOK
  <1> HIDE DEF v
  <1>3. \A d \in Couplers : \A j \in KeysOf(Source(d)) :
          /\ ~(d = c /\ j = k) => input'[d][j] = input[d][j]
          /\ (d = c /\ j = k /\ k \in Coupled(c)) => input'[d][j] = v
          /\ (d = c /\ j = k /\ k \notin Coupled(c)) => input'[d][j] = input[d][j]
    BY <1>1, <1>2
  <1> SUFFICES ASSUME NEW d \in Couplers, NEW j \in KeysOf(Source(d))
               PROVE  IF j \in Coupled(d)
                        THEN \/ input'[d][j] = Taken(d, j)'
                             \/ CouplerCall(d, j) \in Pending'
                             \/ \E e \in KeyCouplers : /\ Dest[e] = Source(d) /\ RefreshCall(e, j) \in Pending'
                                                       /\ bySlot'[Source(d)][j][e] > 0
                        ELSE input'[d][j] = 0
    BY DEF TakenInv, CouplerCall, RefreshCall
  <1>4. Taken(d, j)' = Taken(d, j)
    BY <1>1 DEF Taken, MayFollow
  <1>5. CASE d = c /\ j = k
    BY <1>3, <1>4, <1>5 DEF TakenInv, v
  <1>6. CASE ~(d = c /\ j = k)
    <2>1. CouplerCall(d, j) # Call
      <3>1. CouplerCall(d, j).at = d /\ CouplerCall(d, j).key = j
        BY DEF CouplerCall
      <3> QED  BY <1>6, <3>1
    <2>2. \A e : RefreshCall(e, j) # Call
      BY <1>2 DEF RefreshCall
    <2>3. bySlot' = bySlot /\ input'[d][j] = input[d][j]
      BY <1>1, <1>3, <1>6
    <2> QED  BY <1>1, <1>4, <2>1, <2>2, <2>3 DEF TakenInv
  <1> QED  BY <1>5, <1>6

LEMMA TakenFromManual ==
  ASSUME TypeInv, TakenInv, SetKeyState
  PROVE  TakenInv'
  <1> DEFINE m == Call.at
             k == Call.key
             v == Call.vel
             slot == Call.slot
             made == {CouplerCall(c, k) : c \in {c \in Couplers : Source(c) = m}} \union {DivisionCall(m, k)}
  <1>1. /\ m \in Manuals /\ k \in KeysOf(m) /\ slot \in Slots(m)
        /\ UNCHANGED <<midiKey, division, unisonOff, repeated, couplerVars, stopVars>>
        /\ IF bySlot[m][k][slot] # v
             THEN bySlot' = [bySlot EXCEPT ![m][k][slot] = v] /\ Made(made)
             ELSE UNCHANGED bySlot /\ Made({})
    BY SetKeyStateStep
  <1>2. Call.op = "Key"
    BY DEF SetKeyState, Doing
  <1>3. UNCHANGED <<flags, input>>
    BY <1>1 DEF couplerVars
  <1>4. CASE bySlot[m][k][slot] = v
    <2>1. UNCHANGED bySlot /\ Made({})
      BY <1>1, <1>4
    <2> QED  BY <1>2, <1>3, <2>1, TakenKept DEF Made
  <1>5. CASE bySlot[m][k][slot] # v
    <2>1. bySlot' = [bySlot EXCEPT ![m][k][slot] = v] /\ Made(made)
      BY <1>1, <1>5
    <2>2. \A c \in Couplers : Source(c) = m => CouplerCall(c, k) \in made
      OBVIOUS
    <2> HIDE DEF made
    <2> SUFFICES ASSUME NEW d \in Couplers, NEW j \in KeysOf(Source(d))
                 PROVE  IF j \in Coupled(d)
                          THEN \/ input'[d][j] = Taken(d, j)'
                               \/ CouplerCall(d, j) \in Pending'
                               \/ \E e \in KeyCouplers : /\ Dest[e] = Source(d) /\ RefreshCall(e, j) \in Pending'
                                                         /\ bySlot'[Source(d)][j][e] > 0
                          ELSE input'[d][j] = 0
      BY DEF TakenInv, CouplerCall, RefreshCall
    <2>3. CASE Source(d) = m /\ j = k
      BY <1>3, <2>1, <2>2, <2>3 DEF Made, TakenInv
    <2>4. CASE ~(Source(d) = m /\ j = k)
      <3>1. Source(d) \in Manuals
        BY Home
      <3>2. bySlot'[Source(d)][j] = bySlot[Source(d)][j]
        <4>1. DOMAIN bySlot = Manuals /\ bySlot[m] \in [KeysOf(m) -> [Slots(m) -> Levels]]
              /\ bySlot[Source(d)] \in [KeysOf(Source(d)) -> [Slots(Source(d)) -> Levels]]
          BY <1>1, <3>1 DEF TypeInv, KeysTypeOK, Arrays
        <4> QED  BY <1>1, <2>1, <2>4, <3>1, <4>1
      <3>3. Taken(d, j)' = Taken(d, j)
        BY <1>3, <3>2 DEF Taken, MayFollow
      <3>4. CouplerCall(d, j) # Call /\ \A e : RefreshCall(e, j) # Call
        BY <1>2 DEF CouplerCall, RefreshCall
      <3> QED  BY <1>3, <2>1, <3>2, <3>3, <3>4 DEF TakenInv, Made
    <2> QED  BY <2>3, <2>4
  <1> QED  BY <1>4, <1>5

LEMMA TakenThrough ==
  ASSUME TypeInv, TakenInv, CoupleThrough
  PROVE  TakenInv'
  <1> DEFINE c == Call.at
  <1>1. /\ c \in Couplers /\ UNCHANGED <<input, bySlot>>
        /\ flags' = [flags EXCEPT ![c] = IF Call.on THEN Flag ELSE {}]
        /\ Pending = {Call} \union ToCome /\ ToCome \subseteq Pending'
        /\ Kind[c] # "unisonoff" => \A k \in KeysOf(Dest[c]) : RefreshCall(c, k) \in Pending'
    BY CoupleThroughStep DEF Made
  <1>2. Call.op = "Through" /\ flags \in [Couplers -> SUBSET Flag]
    BY DEF CoupleThrough, Doing, TypeInv, KeysTypeOK
  <1>3. \A e \in Couplers : e # c => flags'[e] = flags[e]
    BY <1>1, <1>2
  <1> SUFFICES ASSUME NEW d \in Couplers, NEW j \in KeysOf(Source(d))
               PROVE  IF j \in Coupled(d)
                        THEN \/ input'[d][j] = Taken(d, j)'
                             \/ CouplerCall(d, j) \in Pending'
                             \/ \E e \in KeyCouplers : /\ Dest[e] = Source(d) /\ RefreshCall(e, j) \in Pending'
                                                       /\ bySlot'[Source(d)][j][e] > 0
                        ELSE input'[d][j] = 0
    BY DEF TakenInv, CouplerCall, RefreshCall
  <1>4. CouplerCall(d, j) # Call /\ \A e : RefreshCall(e, j) # Call
    BY <1>2 DEF CouplerCall, RefreshCall
  <1> DEFINE m == Source(d)
  <1>5. m \in Manuals
    BY Home
  <1>6. CASE c \in Slots(m) /\ bySlot[m][j][c] > 0
    <2>1. c \in KeyCouplers /\ Dest[c] = m /\ Kind[c] # "unisonoff"
      BY <1>1, <1>6, CouplersAssumption DEF Slots, KeyCouplers
    <2>2. RefreshCall(c, j) \in Pending'
      BY <1>1, <2>1
    <2> QED  BY <1>1, <1>6, <2>1, <2>2 DEF TakenInv
  <1>7. CASE ~(c \in Slots(m) /\ bySlot[m][j][c] > 0)
    <2> DEFINE S == {s \in Slots(m) : MayFollow(d, s)}
               T == {s \in Slots(m) : MayFollow(d, s)}'
    <2>1. \A s \in Slots(m) : s # c => (MayFollow(d, s)' <=> MayFollow(d, s))
      <3> SUFFICES ASSUME NEW s \in Slots(m), s # c PROVE MayFollow(d, s)' <=> MayFollow(d, s)
        OBVIOUS
      <3>1. CASE s = Own
        BY <3>1 DEF MayFollow
      <3>2. CASE s # Own
        <4>1. s \in Couplers
          BY <3>2 DEF Slots, KeyCouplers
        <4>2. flags'[s] = flags[s]
          BY <1>3, <4>1
        <4> QED  BY <4>2 DEF MayFollow
      <3> QED  BY <3>1, <3>2
    <2>2. c \in Slots(m) => bySlot[m][j][c] = 0
      <3> SUFFICES ASSUME c \in Slots(m) PROVE bySlot[m][j][c] = 0
        OBVIOUS
      <3>1. bySlot[m][j][c] \in Nat
        BY <1>5, LevelType, Bounds
      <3> QED  BY <1>7, <3>1
    <2>3. T = {s \in Slots(m) : MayFollow(d, s)'}
      OBVIOUS
    <2> DEFINE A == {0} \union {bySlot[m][j][s] : s \in S}
               B == {0} \union {bySlot[m][j][s] : s \in T}
    <2>4. A = B
      <3>1. A \subseteq B
        <4> SUFFICES ASSUME NEW s \in S PROVE bySlot[m][j][s] \in B
          OBVIOUS
        <4> QED  BY <2>1, <2>2, <2>3
      <3>2. B \subseteq A
        <4> SUFFICES ASSUME NEW s \in T PROVE bySlot[m][j][s] \in A
          OBVIOUS
        <4> QED  BY <2>1, <2>2, <2>3
      <3> QED  BY <3>1, <3>2
    <2>5. Taken(d, j) = SetMax(A)
      BY DEF Taken
    <2>6. Taken(d, j)' = SetMax(B)
      BY <1>1 DEF Taken
    <2>7. Taken(d, j)' = Taken(d, j)
      BY <2>4, <2>5, <2>6
    <2> QED  BY <1>1, <1>4, <2>7 DEF TakenInv
  <1> QED  BY <1>6, <1>7

LEMMA TakenAgain ==
  ASSUME TypeInv, TakenInv, OutInv, Refresh
  PROVE  TakenInv'
  <1> DEFINE d == Call.at
             m == Dest[d]
             k == Call.key
             made == {CouplerCall(c, k) : c \in {c \in Couplers : Source(c) = m}}
  <1>1. /\ d \in KeyCouplers /\ m \in Manuals /\ k \in KeysOf(m)
        /\ UNCHANGED <<couplerVars, manualVars, stopVars>>
        /\ IF out[d][k] > 0 THEN Made(made) ELSE Made({})
    BY RefreshStep
  <1>2. UNCHANGED <<flags, input, bySlot>>
    BY <1>1 DEF couplerVars, manualVars
  <1>3. calls # <<>> /\ Call.op = "Refresh"
    BY DEF Refresh, Doing
  <1>4. bySlot[m][k][d] = out[d][k]
    <2>1. \A x \in Pending : x.op # "Key"
      <3>1. Pending = {Call} \union ToCome /\ \A x \in ToCome : x.op \notin AtOnce
        BY <1>3, FirstCall DEF TypeInv
      <3> QED  BY <1>3, <3>1 DEF AtOnce
    <2>2. KeyCall(m, k, out[d][k], d).op = "Key"
      BY DEF KeyCall
    <2> QED  BY <1>1, <2>1, <2>2 DEF OutInv
  <1>5. Pending = {Call} \union ToCome /\ ToCome \subseteq Pending'
    BY <1>1 DEF Made
  <1>6. out[d][k] > 0 => \A c \in Couplers : Source(c) = m => CouplerCall(c, k) \in Pending'
    BY <1>1 DEF Made
  <1> SUFFICES ASSUME NEW c \in Couplers, NEW j \in KeysOf(Source(c))
               PROVE  IF j \in Coupled(c)
                        THEN \/ input'[c][j] = Taken(c, j)'
                             \/ CouplerCall(c, j) \in Pending'
                             \/ \E e \in KeyCouplers : /\ Dest[e] = Source(c) /\ RefreshCall(e, j) \in Pending'
                                                       /\ bySlot'[Source(c)][j][e] > 0
                        ELSE input'[c][j] = 0
    BY DEF TakenInv, CouplerCall, RefreshCall
  <1>7. Taken(c, j)' = Taken(c, j)
    BY <1>2 DEF Taken, MayFollow
  <1>8. CouplerCall(c, j) # Call
    BY <1>3 DEF CouplerCall
  <1>9. CASE Source(c) = m /\ j = k /\ out[d][k] > 0
    BY <1>2, <1>6, <1>9 DEF TakenInv
  <1>10. CASE ~(Source(c) = m /\ j = k /\ out[d][k] > 0)
    <2>1. ASSUME NEW e \in KeyCouplers, Dest[e] = Source(c), RefreshCall(e, j) \in Pending,
                 bySlot[Source(c)][j][e] > 0
          PROVE  RefreshCall(e, j) \in Pending'
      <3>1. RefreshCall(e, j) # Call
        <4> SUFFICES ASSUME RefreshCall(e, j) = Call PROVE FALSE
          OBVIOUS
        <4>1. RefreshCall(e, j).at = e /\ RefreshCall(e, j).key = j
          BY DEF RefreshCall
        <4> QED  BY <1>4, <1>10, <2>1, <4>1
      <3> QED  BY <1>5, <2>1, <3>1
    <2> QED  BY <1>2, <1>5, <1>7, <1>8, <2>1 DEF TakenInv
  <1> QED  BY <1>9, <1>10

\* Where all levels are 0 nothing is taken.
LEMMA TakenNothing ==
  ASSUME NEW c \in Couplers, NEW k, \A s \in Slots(Source(c)) : bySlot[Source(c)][k][s] = 0
  PROVE  Taken(c, k) = 0
  <1> DEFINE A == {0} \union {bySlot[Source(c)][k][s] : s \in {s \in Slots(Source(c)) : MayFollow(c, s)}}
  <1>1. A = {0}
    OBVIOUS
  <1> HIDE DEF A
  <1>2. SetMax(A) = 0
    BY <1>1, HighestIs
  <1> QED  BY <1>2 DEF Taken, A

-----------------------------------------------------------------------------
(* The couplers say what they have *)

LEMMA OutKept ==
  ASSUME OutInv, SaidInv, UNCHANGED <<bySlot, out, internal, engaged>>,
         \A x : x.op = "Emit" \/ (x.op = "Key" /\ x.slot # Own) => (x \in Pending <=> x \in Pending')
  PROVE  OutInv' /\ SaidInv'
  <1>1. OutInv'
    <2> SUFFICES ASSUME NEW c \in KeyCouplers, NEW n \in KeysOf(Dest[c])
                 PROVE  /\ bySlot'[Dest[c]][n][c] = out'[c][n] \/ KeyCall(Dest[c], n, out'[c][n], c) \in Pending'
                        /\ \/ out'[c][n] = IF engaged'[c] THEN Decrement(internal'[c][n]) ELSE 0
                           \/ EmitCall(c, n, engaged'[c]) \in Pending'
      BY DEF OutInv, KeyCall, EmitCall, Decrement
    <2>1. c # Own
      BY Keyboards, CouplersAssumption
    <2>2. \A v : KeyCall(Dest[c], n, v, c).op = "Key" /\ KeyCall(Dest[c], n, v, c).slot = c
      BY DEF KeyCall
    <2>3. \A b : EmitCall(c, n, b).op = "Emit"
      BY DEF EmitCall
    <2> QED  BY <2>1, <2>2, <2>3 DEF OutInv
  <1>2. SaidInv'
    BY DEF SaidInv
  <1> QED  BY <1>1, <1>2

\* When no call is on its way to a manual or emits, the slots are as they should be.
LEMMA OutAtRest ==
  ASSUME OutInv, \A x \in Pending : x.op \notin {"Key", "Emit"}
  PROVE  \A c \in KeyCouplers : \A n \in KeysOf(Dest[c]) :
           /\ bySlot[Dest[c]][n][c] = out[c][n]
           /\ out[c][n] = IF engaged[c] THEN Decrement(internal[c][n]) ELSE 0
  <1> SUFFICES ASSUME NEW c \in KeyCouplers, NEW n \in KeysOf(Dest[c])
               PROVE  /\ bySlot[Dest[c]][n][c] = out[c][n]
                      /\ out[c][n] = IF engaged[c] THEN Decrement(internal[c][n]) ELSE 0
    OBVIOUS
  <1>1. KeyCall(Dest[c], n, out[c][n], c).op = "Key" /\ EmitCall(c, n, engaged[c]).op = "Emit"
    BY DEF KeyCall, EmitCall
  <1> QED  BY <1>1 DEF OutInv

LEMMA OutInSlot ==
  ASSUME TypeInv, OutInv, SaidInv, SetKeyState
  PROVE  OutInv' /\ SaidInv'
  <1> DEFINE m == Call.at
             k == Call.key
             v == Call.vel
             slot == Call.slot
             more == {CouplerCall(c, k) : c \in {c \in Couplers : Source(c) = m}} \union {DivisionCall(m, k)}
  <1>1. /\ TypeInv' /\ m \in Manuals /\ k \in KeysOf(m) /\ v \in Levels /\ slot \in Slots(m)
        /\ UNCHANGED <<midiKey, division, unisonOff, repeated, couplerVars, stopVars>>
        /\ IF bySlot[m][k][slot] # v
             THEN bySlot' = [bySlot EXCEPT ![m][k][slot] = v] /\ Made(more)
             ELSE UNCHANGED bySlot /\ Made({})
    BY SetKeyStateStep
  <1>2. calls # <<>> /\ Call.op = "Key"
    BY DEF SetKeyState, Doing
  <1>3. UNCHANGED <<out, internal, engaged>>
    BY <1>1 DEF couplerVars
  <1>4. PICK made : Made(made) /\ \A x \in made : x.op \notin {"Key", "Emit"}
    BY <1>1 DEF CouplerCall, DivisionCall
  <1>5. Call \in Pending /\ \A x \in ToCome : x.op # "Key"
    BY <1>2, FirstCall DEF TypeInv, AtOnce
  <1>6. \A x \in Pending : x.op = "Key" => x = Call
    BY <1>4, <1>5 DEF Made
  <1>7. \A x \in Pending' : x.op # "Key"
    BY <1>4, <1>5 DEF Made
  <1>8. \A x \in Pending' : x.op = "Emit" => x \in Pending
    BY <1>4 DEF Made
  <1>9. \A x \in Pending : x.op = "Emit" => x \in Pending'
    BY <1>2, <1>4 DEF Made
  <1>10. SaidInv'
    BY <1>3, <1>7, <1>8 DEF SaidInv
  <1>11. DOMAIN bySlot = Manuals /\ bySlot[m] \in [KeysOf(m) -> [Slots(m) -> Levels]]
    BY <1>1 DEF TypeInv, KeysTypeOK, Arrays
  <1>12. \A n \in Manuals : \A j \in KeysOf(n) : \A s \in Slots(n) :
           bySlot'[n][j][s] = IF n = m /\ j = k /\ s = slot THEN v ELSE bySlot[n][j][s]
    <2>1. CASE bySlot[m][k][slot] # v
      <3>1. bySlot' = [bySlot EXCEPT ![m][k][slot] = v]
        BY <1>1, <2>1
      <3> SUFFICES ASSUME NEW n \in Manuals, NEW j \in KeysOf(n), NEW s \in Slots(n)
                   PROVE  bySlot'[n][j][s] = IF n = m /\ j = k /\ s = slot THEN v ELSE bySlot[n][j][s]
        OBVIOUS
      <3>2. bySlot[n] \in [KeysOf(n) -> [Slots(n) -> Levels]]
        BY DEF TypeInv, KeysTypeOK
      <3> QED  BY <1>1, <1>11, <3>1, <3>2
    <2>2. CASE bySlot[m][k][slot] = v
      BY <1>1, <2>2
    <2> QED  BY <2>1, <2>2
  <1>13. OutInv'
    <2> SUFFICES ASSUME NEW c \in KeyCouplers, NEW n \in KeysOf(Dest[c])
                 PROVE  /\ bySlot'[Dest[c]][n][c] = out'[c][n] \/ KeyCall(Dest[c], n, out'[c][n], c) \in Pending'
                        /\ \/ out'[c][n] = IF engaged'[c] THEN Decrement(internal'[c][n]) ELSE 0
                           \/ EmitCall(c, n, engaged'[c]) \in Pending'
      BY DEF OutInv, KeyCall, EmitCall, Decrement
    <2>1. c \in Couplers /\ c # Own /\ Dest[c] \in Manuals /\ c \in Slots(Dest[c])
      BY Keyboards, CouplersAssumption DEF Slots
    <2>2. \A b : EmitCall(c, n, b).op = "Emit"
      BY DEF EmitCall
    <2>3. \/ out'[c][n] = IF engaged'[c] THEN Decrement(internal'[c][n]) ELSE 0
          \/ EmitCall(c, n, engaged'[c]) \in Pending'
      BY <1>3, <1>9, <2>2 DEF OutInv
    <2>4. CASE c = slot /\ n = k /\ Dest[c] = m
      <3>1. v = out[c][n]
        BY <1>2, <1>5, <2>1, <2>4 DEF SaidInv
      <3> QED  BY <1>3, <1>12, <2>1, <2>3, <2>4, <3>1
    <2>5. CASE ~(c = slot /\ n = k /\ Dest[c] = m)
      <3>1. ASSUME KeyCall(Dest[c], n, out[c][n], c) \in Pending PROVE FALSE
        <4> DEFINE x == KeyCall(Dest[c], n, out[c][n], c)
        <4>1. x.op = "Key" /\ x.at = Dest[c] /\ x.key = n /\ x.slot = c
          BY DEF KeyCall
        <4>2. x = Call
          BY <1>6, <3>1, <4>1
        <4> QED  BY <2>5, <4>1, <4>2
      <3>2. bySlot[Dest[c]][n][c] = out[c][n]
        BY <3>1 DEF OutInv
      <3> QED  BY <1>3, <1>12, <2>1, <2>3, <2>5, <3>2
    <2> QED  BY <2>4, <2>5
  <1> QED  BY <1>10, <1>13

LEMMA OutSet ==
  ASSUME TypeInv, OutInv, SaidInv, SetOut
  PROVE  OutInv' /\ SaidInv'
  <1> DEFINE c == Call.at
             n == Call.key
             v == Call.vel
             x == KeyCall(Dest[c], n, Decrement(v), c)
  <1>1. /\ c \in KeyCouplers /\ v \in Levels
        /\ UNCHANGED <<engaged, bySlot>>
        /\ IF n \in KeysOf(Dest[c]) /\ internal[c][n] # v
             THEN /\ internal' = [internal EXCEPT ![c][n] = v]
                  /\ engaged[c] => out' = [out EXCEPT ![c][n] = Decrement(v)] /\ Made({x})
                  /\ ~engaged[c] => UNCHANGED out /\ Made({})
             ELSE UNCHANGED <<internal, out>> /\ Made({})
    BY SetOutStep DEF manualVars
  <1>2. calls # <<>> /\ Call.op = "SetOut" /\ engaged[c] \in BOOLEAN
    BY <1>1, Keyboards DEF SetOut, Doing, TypeInv, KeysTypeOK
  <1>3. \A y \in Pending : y.op # "Key"
    BY <1>2, FirstCall DEF TypeInv, AtOnce
  <1>4. \A y \in Pending : y # Call => y \in Pending'
    BY <1>1, <1>2 DEF Made
  <1>5. \A y \in Pending' : y \in Pending \/ y = x
    BY <1>1, <1>2 DEF Made
  <1>6. x.op = "Key" /\ x.slot = c /\ x.at = Dest[c] /\ x.key = n /\ x.vel = Decrement(v)
    BY DEF KeyCall
  <1>7. c \in Couplers /\ c # Own
    BY <1>1, Keyboards, CouplersAssumption
  <1>8. DOMAIN internal = KeyCouplers /\ DOMAIN out = KeyCouplers
        /\ internal[c] \in [KeysOf(Dest[c]) -> Levels] /\ out[c] \in [KeysOf(Dest[c]) -> Levels]
    BY <1>1 DEF TypeInv, KeysTypeOK, Arrays
  <1> DEFINE changed == n \in KeysOf(Dest[c]) /\ internal[c][n] # v
             emits == changed /\ engaged[c]
  <1>9. /\ changed => internal' = [internal EXCEPT ![c][n] = v]
        /\ ~changed => internal' = internal
        /\ emits => out' = [out EXCEPT ![c][n] = Decrement(v)] /\ x \in Pending'
        /\ ~emits => out' = out /\ x \notin Pending'
    <2>1. x \notin ToCome /\ x \notin {}
      BY <1>2, <1>3, <1>6, FirstCall DEF TypeInv
    <2> HIDE DEF x
    <2> QED  BY <1>1, <1>2, <2>1 DEF Made
  <1> HIDE DEF x
  <1>10. ASSUME NEW d \in KeyCouplers, NEW j \in KeysOf(Dest[d])
         PROVE  /\ internal'[d][j] = IF d = c /\ j = n /\ changed THEN v ELSE internal[d][j]
                /\ out'[d][j] = IF d = c /\ j = n /\ emits THEN Decrement(v) ELSE out[d][j]
    <2>1. internal[d] \in [KeysOf(Dest[d]) -> Levels] /\ out[d] \in [KeysOf(Dest[d]) -> Levels]
      BY DEF TypeInv, KeysTypeOK
    <2> HIDE DEF changed, emits
    <2>2. internal'[d][j] = IF d = c /\ j = n /\ changed THEN v ELSE internal[d][j]
      BY <1>1, <1>8, <1>9, <2>1
    <2>3. out'[d][j] = IF d = c /\ j = n /\ emits THEN Decrement(v) ELSE out[d][j]
      BY <1>1, <1>8, <1>9, <2>1
    <2> QED  BY <2>2, <2>3
  <1>11. SaidInv'
    <2> SUFFICES ASSUME NEW y \in Pending'
                 PROVE  /\ y.op = "Emit" => y.on = engaged'[y.at]
                        /\ y.op = "Key" /\ y.slot # Own =>
                             y.slot \in KeyCouplers /\ y.at = Dest[y.slot] /\ y.vel = out'[y.slot][y.key]
      BY DEF SaidInv
    <2>1. CASE y \in Pending
      BY <1>1, <1>3, <2>1 DEF SaidInv
    <2>2. CASE y = x
      <3>1. emits
        BY <1>9, <2>2
      <3> QED  BY <1>1, <1>6, <1>10, <2>2, <3>1
    <2> QED  BY <1>5, <2>1, <2>2
  <1>12. OutInv'
    <2> SUFFICES ASSUME NEW d \in KeyCouplers, NEW j \in KeysOf(Dest[d])
                 PROVE  /\ bySlot'[Dest[d]][j][d] = out'[d][j] \/ KeyCall(Dest[d], j, out'[d][j], d) \in Pending'
                        /\ \/ out'[d][j] = IF engaged'[d] THEN Decrement(internal'[d][j]) ELSE 0
                           \/ EmitCall(d, j, engaged'[d]) \in Pending'
      BY DEF OutInv, KeyCall, EmitCall, Decrement
    <2>1. bySlot[Dest[d]][j][d] = out[d][j]
      <3>1. KeyCall(Dest[d], j, out[d][j], d).op = "Key"
        BY DEF KeyCall
      <3> QED  BY <1>3, <3>1 DEF OutInv
    <2>2. EmitCall(d, j, engaged[d]) # Call
      BY <1>2 DEF EmitCall
    <2>3. \/ out[d][j] = IF engaged[d] THEN Decrement(internal[d][j]) ELSE 0
          \/ EmitCall(d, j, engaged[d]) \in Pending'
      BY <1>4, <2>2 DEF OutInv
    <2>4. CASE d = c /\ j = n /\ emits
      <3>1. x = KeyCall(Dest[d], j, out'[d][j], d)
        BY <1>10, <2>4 DEF x
      <3> QED  BY <1>1, <1>9, <1>10, <2>4, <3>1
    <2>5. CASE d = c /\ j = n /\ changed /\ ~engaged[c]
      BY <1>1, <1>10, <2>1, <2>3, <2>5
    <2>6. CASE ~(d = c /\ j = n /\ changed)
      <3>1. internal'[d][j] = internal[d][j] /\ out'[d][j] = out[d][j]
        BY <1>10, <2>6
      <3> QED  BY <1>1, <2>1, <2>3, <3>1
    <2> QED  BY <2>4, <2>5, <2>6
  <1> QED  BY <1>11, <1>12

LEMMA OutEmitted ==
  ASSUME TypeInv, OutInv, SaidInv, Emit
  PROVE  OutInv' /\ SaidInv'
  <1> DEFINE c == Call.at
             n == Call.key
             v == IF Call.on THEN Decrement(internal[c][n]) ELSE 0
             x == KeyCall(Dest[c], n, v, c)
  <1>1. /\ c \in KeyCouplers /\ n \in KeysOf(Dest[c])
        /\ UNCHANGED <<engaged, internal, bySlot>>
        /\ IF out[c][n] # v THEN out' = [out EXCEPT ![c][n] = v] /\ Made({x})
                            ELSE UNCHANGED out /\ Made({})
    BY EmitStep DEF manualVars
  <1>2. calls # <<>> /\ Call.op = "Emit" /\ Call \in Pending
    BY FirstCall DEF Emit, Doing, TypeInv
  <1>3. \A y \in Pending : y.op # "Key"
    BY <1>2, FirstCall DEF TypeInv, AtOnce
  <1>4. \A y \in Pending : y # Call => y \in Pending'
    BY <1>1 DEF Made
  <1>5. \A y \in Pending' : y \in Pending \/ y = x
    BY <1>1 DEF Made
  <1>6. x.op = "Key" /\ x.slot = c /\ x.at = Dest[c] /\ x.key = n /\ x.vel = v
    BY DEF KeyCall
  <1>7. c \in Couplers /\ c # Own
    BY <1>1, Keyboards, CouplersAssumption
  <1>8. DOMAIN out = KeyCouplers /\ out[c] \in [KeysOf(Dest[c]) -> Levels]
    BY <1>1 DEF TypeInv, KeysTypeOK, Arrays
  <1>9. v = IF engaged[c] THEN Decrement(internal[c][n]) ELSE 0
    BY <1>2 DEF SaidInv
  <1> HIDE DEF v
  <1>10. /\ out[c][n] # v => x \in Pending'
         /\ out[c][n] = v => x \notin Pending'
    <2>1. x \notin ToCome
      BY <1>2, <1>3, <1>6, FirstCall DEF TypeInv
    <2> HIDE DEF x
    <2> QED  BY <1>1, <2>1 DEF Made
  <1> HIDE DEF x
  <1>11. ASSUME NEW d \in KeyCouplers, NEW j \in KeysOf(Dest[d])
         PROVE  out'[d][j] = IF d = c /\ j = n THEN v ELSE out[d][j]
    <2>1. out[d] \in [KeysOf(Dest[d]) -> Levels]
      BY DEF TypeInv, KeysTypeOK
    <2>2. CASE out[c][n] # v
      BY <1>1, <1>8, <2>1, <2>2
    <2>3. CASE out[c][n] = v
      BY <1>1, <2>3
    <2> QED  BY <2>2, <2>3
  <1>12. SaidInv'
    <2> SUFFICES ASSUME NEW y \in Pending'
                 PROVE  /\ y.op = "Emit" => y.on = engaged'[y.at]
                        /\ y.op = "Key" /\ y.slot # Own =>
                             y.slot \in KeyCouplers /\ y.at = Dest[y.slot] /\ y.vel = out'[y.slot][y.key]
      BY DEF SaidInv
    <2>1. CASE y \in Pending
      BY <1>1, <1>3, <2>1 DEF SaidInv
    <2>2. CASE y = x
      BY <1>1, <1>6, <1>11, <2>2
    <2> QED  BY <1>5, <2>1, <2>2
  <1>13. OutInv'
    <2> SUFFICES ASSUME NEW d \in KeyCouplers, NEW j \in KeysOf(Dest[d])
                 PROVE  /\ bySlot'[Dest[d]][j][d] = out'[d][j] \/ KeyCall(Dest[d], j, out'[d][j], d) \in Pending'
                        /\ \/ out'[d][j] = IF engaged'[d] THEN Decrement(internal'[d][j]) ELSE 0
                           \/ EmitCall(d, j, engaged'[d]) \in Pending'
      BY DEF OutInv, KeyCall, EmitCall, Decrement
    <2>1. bySlot[Dest[d]][j][d] = out[d][j]
      <3>1. KeyCall(Dest[d], j, out[d][j], d).op = "Key"
        BY DEF KeyCall
      <3> QED  BY <1>3, <3>1 DEF OutInv
    <2>2. CASE d = c /\ j = n
      <3>1. out'[d][j] = v
        BY <1>11, <2>2
      <3>2. out[c][n] # v => KeyCall(Dest[d], j, out'[d][j], d) \in Pending'
        BY <1>10, <2>2, <3>1 DEF x
      <3> QED  BY <1>1, <1>9, <2>1, <2>2, <3>1, <3>2
    <2>3. CASE ~(d = c /\ j = n)
      <3>1. out'[d][j] = out[d][j]
        BY <1>11, <2>3
      <3>2. EmitCall(d, j, engaged[d]) # Call
        <4>1. EmitCall(d, j, engaged[d]).at = d /\ EmitCall(d, j, engaged[d]).key = j
          BY DEF EmitCall
        <4> QED  BY <2>3, <4>1
      <3> QED  BY <1>1, <1>4, <2>1, <3>1, <3>2 DEF OutInv
    <2> QED  BY <2>2, <2>3
  <1> QED  BY <1>12, <1>13

LEMMA OutSwitched ==
  ASSUME TypeInv, OutInv, SaidInv, NEW c \in Couplers, SwitchCoupler(c)
  PROVE  OutInv' /\ SaidInv'
  <1>1. /\ calls = <<>> /\ Pending = {}
        /\ engaged'[c] = ~engaged[c] /\ \A d \in Couplers : d # c => engaged'[d] = engaged[d]
        /\ UNCHANGED <<internal, out, bySlot>>
        /\ Kind[c] = "unisonoff" => Pending' = {UnisonCall(Source(c), ~engaged[c])}
        /\ Kind[c] # "unisonoff" => Pending' = {EmitCall(c, n, ~engaged[c]) : n \in KeysOf(Dest[c])}
    BY SwitchCouplerStep, EmptyToSet DEF SwitchCoupler, Pending, manualVars
  <1>2. \A d \in KeyCouplers : \A n \in KeysOf(Dest[d]) :
           /\ bySlot[Dest[d]][n][d] = out[d][n]
           /\ out[d][n] = IF engaged[d] THEN Decrement(internal[d][n]) ELSE 0
    BY <1>1, OutAtRest
  <1>3. SaidInv'
    BY <1>1 DEF SaidInv, EmitCall, UnisonCall
  <1>4. OutInv'
    <2> SUFFICES ASSUME NEW d \in KeyCouplers, NEW j \in KeysOf(Dest[d])
                 PROVE  /\ bySlot'[Dest[d]][j][d] = out'[d][j] \/ KeyCall(Dest[d], j, out'[d][j], d) \in Pending'
                        /\ \/ out'[d][j] = IF engaged'[d] THEN Decrement(internal'[d][j]) ELSE 0
                           \/ EmitCall(d, j, engaged'[d]) \in Pending'
      BY DEF OutInv, KeyCall, EmitCall, Decrement
    <2>1. d \in Couplers /\ Kind[d] # "unisonoff"
      BY DEF KeyCouplers
    <2>2. d = c => EmitCall(d, j, engaged'[d]) \in Pending'
      BY <1>1, <2>1
    <2> QED  BY <1>1, <1>2, <2>1, <2>2
  <1> QED  BY <1>3, <1>4

-----------------------------------------------------------------------------
(* The player's own keys *)

\* How strongly the player holds a key, as the couplers count.
OwnLevel(m, k) ==
  IF k \in Playable[m] THEN IF midiKey[m][k] = 0 THEN 0 ELSE 4 * midiKey[m][k] + 3 ELSE 0

\* Slot 0 of a key has the player's level, or it is on its way; and when the sound
\* is stopped every key has been released, or is about to be.
OwnInv ==
  /\ \A m \in Manuals : \A k \in KeysOf(m) :
       bySlot[m][k][Own] = OwnLevel(m, k) \/ KeyCall(m, k, OwnLevel(m, k), Own) \in Pending
  /\ \A x \in Pending : x.op = "Key" /\ x.slot = Own => x.vel = OwnLevel(x.at, x.key)
  /\ PrepareCall \in Pending =>
       /\ \A m \in Manuals : \A k \in Playable[m] :
            midiKey[m][k] = 0 \/ NoteCall(m, k, 0) \in Pending \/ AllOffCall(m) \in Pending
       /\ \A x \in Pending : x.op = "Note" => x.vel = 0

OfPlayer(x) == x.op \in {"Note", "AllOff", "Prepare"} \/ (x.op = "Key" /\ x.slot = Own)

LEMMA OwnKept ==
  ASSUME OwnInv, UNCHANGED <<midiKey, bySlot>>,
         \A x : OfPlayer(x) => (x \in Pending <=> x \in Pending')
  PROVE  OwnInv'
  <1>1. \A m, k : OwnLevel(m, k)' = OwnLevel(m, k)
    BY DEF OwnLevel
  <1>2. /\ \A m, k, v : OfPlayer(KeyCall(m, k, v, Own)) /\ OfPlayer(NoteCall(m, k, v))
        /\ \A m : OfPlayer(AllOffCall(m))
        /\ OfPlayer(PrepareCall)
    BY DEF OfPlayer, KeyCall, NoteCall, AllOffCall, PrepareCall
  <1>3. ASSUME NEW m \in Manuals, NEW k \in KeysOf(m)
        PROVE  bySlot'[m][k][Own] = OwnLevel(m, k)' \/ KeyCall(m, k, OwnLevel(m, k)', Own) \in Pending'
    BY <1>1, <1>2 DEF OwnInv
  <1>4. ASSUME NEW x \in Pending', x.op = "Key", x.slot = Own
        PROVE  x.vel = OwnLevel(x.at, x.key)'
    BY <1>1, <1>4 DEF OwnInv, OfPlayer
  <1>5. ASSUME PrepareCall \in Pending'
        PROVE  /\ \A m \in Manuals : \A k \in Playable[m] :
                    midiKey'[m][k] = 0 \/ NoteCall(m, k, 0) \in Pending' \/ AllOffCall(m) \in Pending'
               /\ \A x \in Pending' : x.op = "Note" => x.vel = 0
    <2>1. PrepareCall \in Pending
      BY <1>2, <1>5
    <2>2. \A x \in Pending' : x.op = "Note" => x.vel = 0
      BY <2>1 DEF OwnInv, OfPlayer
    <2> QED  BY <1>2, <2>1, <2>2 DEF OwnInv
  <1> QED  BY <1>3, <1>4, <1>5 DEF OwnInv, KeyCall, NoteCall, AllOffCall, PrepareCall

LEMMA OwnPlayed ==
  ASSUME TypeInv, OwnInv, Note
  PROVE  OwnInv'
  <1> DEFINE m == Call.at
             k == Call.key
             v == Call.vel
             x == KeyCall(m, k, IF v = 0 THEN 0 ELSE 4 * v + 3, Own)
             changed == k \in Playable[m] /\ midiKey[m][k] # v
  <1>1. /\ m \in Manuals /\ k \in KeysOf(m) /\ v \in PipeLevels /\ UNCHANGED bySlot
        /\ IF changed THEN midiKey' = [midiKey EXCEPT ![m][k] = v] /\ Made({x})
                      ELSE UNCHANGED midiKey /\ Made({})
    BY NoteStep
  <1>2. calls # <<>> /\ Call.op = "Note" /\ Call \in Pending
    BY FirstCall DEF Note, Doing, TypeInv
  <1>3. \A y \in Pending : y.op # "Key"
    BY <1>2, FirstCall DEF TypeInv, AtOnce
  <1>4. \A y \in Pending : y # Call => y \in Pending'
    BY <1>1 DEF Made
  <1>5. \A y \in Pending' : y \in Pending \/ (y = x /\ changed)
    BY <1>1 DEF Made
  <1>6. x.op = "Key" /\ x.slot = Own /\ x.at = m /\ x.key = k /\ x.vel = IF v = 0 THEN 0 ELSE 4 * v + 3
    BY DEF KeyCall
  <1>7. changed => x \in Pending'
    BY <1>1 DEF Made
  <1> HIDE DEF x
  <1>8. \A n \in Manuals : \A j \in Playable[n] :
          midiKey'[n][j] = IF n = m /\ j = k /\ changed THEN v ELSE midiKey[n][j]
    <2> SUFFICES ASSUME NEW n \in Manuals, NEW j \in Playable[n]
                 PROVE  midiKey'[n][j] = IF n = m /\ j = k /\ changed THEN v ELSE midiKey[n][j]
      OBVIOUS
    <2>1. /\ DOMAIN midiKey = Manuals /\ midiKey[m] \in [Playable[m] -> PipeLevels]
          /\ midiKey[n] \in [Playable[n] -> PipeLevels]
      BY <1>1 DEF TypeInv, KeysTypeOK, Arrays
    <2>2. CASE changed
      BY <1>1, <2>1, <2>2
    <2>3. CASE ~changed
      BY <1>1, <2>3
    <2> QED  BY <2>2, <2>3
  <1>9. \A n \in Manuals : \A j \in KeysOf(n) :
          OwnLevel(n, j)' = IF n = m /\ j = k /\ changed THEN IF v = 0 THEN 0 ELSE 4 * v + 3
                                                        ELSE OwnLevel(n, j)
    BY <1>8 DEF OwnLevel
  <1> HIDE DEF changed
  <1>10. ASSUME NEW n \in Manuals, NEW j \in KeysOf(n)
         PROVE  bySlot'[n][j][Own] = OwnLevel(n, j)' \/ KeyCall(n, j, OwnLevel(n, j)', Own) \in Pending'
    <2>1. bySlot[n][j][Own] = OwnLevel(n, j)
      <3>1. KeyCall(n, j, OwnLevel(n, j), Own).op = "Key"
        BY DEF KeyCall
      <3> QED  BY <1>3, <3>1 DEF OwnInv
    <2>2. CASE n = m /\ j = k /\ changed
      BY <1>7, <1>9, <2>2 DEF x
    <2>3. CASE ~(n = m /\ j = k /\ changed)
      BY <1>1, <1>9, <2>1, <2>3
    <2> QED  BY <2>2, <2>3
  <1>11. ASSUME NEW y \in Pending', y.op = "Key", y.slot = Own
         PROVE  y.vel = OwnLevel(y.at, y.key)'
    BY <1>1, <1>3, <1>5, <1>6, <1>9, <1>11
  <1>12. ASSUME PrepareCall \in Pending'
         PROVE  /\ \A n \in Manuals : \A j \in Playable[n] :
                     midiKey'[n][j] = 0 \/ NoteCall(n, j, 0) \in Pending' \/ AllOffCall(n) \in Pending'
                /\ \A y \in Pending' : y.op = "Note" => y.vel = 0
    <2>1. PrepareCall \in Pending
      BY <1>5, <1>6, <1>12 DEF PrepareCall
    <2>2. v = 0
      BY <1>2, <2>1 DEF OwnInv
    <2>3. \A y \in Pending' : y.op = "Note" => y.vel = 0
      BY <1>5, <1>6, <2>1 DEF OwnInv
    <2>4. ASSUME NEW n \in Manuals, NEW j \in Playable[n]
          PROVE  midiKey'[n][j] = 0 \/ NoteCall(n, j, 0) \in Pending' \/ AllOffCall(n) \in Pending'
      <3>1. AllOffCall(n) # Call
        BY <1>2 DEF AllOffCall
      <3>2. CASE n = m /\ j = k
        <4>1. midiKey'[n][j] = 0
          BY <1>8, <2>2, <3>2 DEF changed
        <4> QED  BY <4>1
      <3>3. CASE ~(n = m /\ j = k)
        <4>1. NoteCall(n, j, 0) # Call
          <5>1. NoteCall(n, j, 0).at = n /\ NoteCall(n, j, 0).key = j
            BY DEF NoteCall
          <5> QED  BY <3>3, <5>1
        <4> QED  BY <1>4, <1>8, <2>1, <3>1, <3>3, <4>1 DEF OwnInv
      <3> QED  BY <3>2, <3>3
    <2> QED  BY <2>3, <2>4
  <1> QED  BY <1>10, <1>11, <1>12 DEF OwnInv, KeyCall, NoteCall, AllOffCall, PrepareCall

LEMMA OwnReleased ==
  ASSUME TypeInv, OwnInv, AllNotesOff
  PROVE  OwnInv'
  <1> DEFINE m == Call.at
             made == {NoteCall(m, k, 0) : k \in KeysOf(m)}
  <1>1. m \in Manuals /\ UNCHANGED <<midiKey, bySlot>> /\ Made(made)
    BY AllNotesOffStep DEF manualVars
  <1>2. calls # <<>> /\ Call.op = "AllOff"
    BY DEF AllNotesOff, Doing
  <1>3. \A x \in made : x.op = "Note" /\ x.vel = 0
    BY DEF NoteCall
  <1>4. \A k \in Playable[m] : NoteCall(m, k, 0) \in made
    BY <1>1, Keyboards
  <1> HIDE DEF made
  <1>5. \A m1, k : OwnLevel(m1, k)' = OwnLevel(m1, k)
    BY <1>1 DEF OwnLevel
  <1>6. ASSUME NEW n \in Manuals, NEW k \in KeysOf(n)
        PROVE  bySlot'[n][k][Own] = OwnLevel(n, k)' \/ KeyCall(n, k, OwnLevel(n, k)', Own) \in Pending'
    <2>1. KeyCall(n, k, OwnLevel(n, k), Own) # Call
      BY <1>2 DEF KeyCall
    <2> QED  BY <1>1, <1>5, <2>1 DEF OwnInv, Made
  <1>7. ASSUME NEW x \in Pending', x.op = "Key", x.slot = Own
        PROVE  x.vel = OwnLevel(x.at, x.key)'
    BY <1>1, <1>3, <1>5, <1>7 DEF OwnInv, Made
  <1>8. ASSUME PrepareCall \in Pending'
        PROVE  /\ \A n \in Manuals : \A k \in Playable[n] :
                    midiKey'[n][k] = 0 \/ NoteCall(n, k, 0) \in Pending' \/ AllOffCall(n) \in Pending'
               /\ \A x \in Pending' : x.op = "Note" => x.vel = 0
    <2>1. PrepareCall \in Pending
      BY <1>1, <1>3, <1>8 DEF Made, PrepareCall
    <2>2. ASSUME NEW n \in Manuals, NEW k \in Playable[n]
          PROVE  midiKey'[n][k] = 0 \/ NoteCall(n, k, 0) \in Pending' \/ AllOffCall(n) \in Pending'
      <3>1. NoteCall(n, k, 0) # Call
        BY <1>2 DEF NoteCall
      <3>2. CASE n = m
        BY <1>1, <1>4, <3>2 DEF Made
      <3>3. CASE n # m
        <4>1. AllOffCall(n) # Call
          <5>1. AllOffCall(n).at = n
            BY DEF AllOffCall
          <5> QED  BY <3>3, <5>1
        <4> QED  BY <1>1, <2>1, <3>1, <4>1 DEF OwnInv, Made
      <3> QED  BY <3>2, <3>3
    <2>3. \A x \in Pending' : x.op = "Note" => x.vel = 0
      BY <1>1, <1>3, <2>1 DEF OwnInv, Made
    <2> QED  BY <2>2, <2>3
  <1> QED  BY <1>6, <1>7, <1>8 DEF OwnInv, KeyCall, NoteCall, AllOffCall, PrepareCall

LEMMA OwnInSlot ==
  ASSUME TypeInv, OwnInv, SetKeyState
  PROVE  OwnInv'
  <1> DEFINE m == Call.at
             k == Call.key
             v == Call.vel
             slot == Call.slot
             more == {CouplerCall(c, k) : c \in {c \in Couplers : Source(c) = m}} \union {DivisionCall(m, k)}
  <1>1. /\ m \in Manuals /\ k \in KeysOf(m) /\ v \in Levels /\ slot \in Slots(m)
        /\ UNCHANGED midiKey
        /\ IF bySlot[m][k][slot] # v
             THEN bySlot' = [bySlot EXCEPT ![m][k][slot] = v] /\ Made(more)
             ELSE UNCHANGED bySlot /\ Made({})
    BY SetKeyStateStep
  <1>2. calls # <<>> /\ Call.op = "Key" /\ Call \in Pending
    BY FirstCall DEF SetKeyState, Doing, TypeInv
  <1>3. PICK made : Made(made) /\ \A x \in made : x.op \in {"SetKey", "Division"}
    BY <1>1 DEF CouplerCall, DivisionCall
  <1>4. \A x \in ToCome : x.op # "Key"
    BY <1>2, FirstCall DEF TypeInv, AtOnce
  <1>5. \A x \in Pending : x.op = "Key" => x = Call
    BY <1>3, <1>4 DEF Made
  <1>6. \A n, j : OwnLevel(n, j)' = OwnLevel(n, j)
    BY <1>1 DEF OwnLevel
  <1>7. \A n \in Manuals : \A j \in KeysOf(n) : \A s \in Slots(n) :
          bySlot'[n][j][s] = IF n = m /\ j = k /\ s = slot THEN v ELSE bySlot[n][j][s]
    <2>1. CASE bySlot[m][k][slot] # v
      <3>1. bySlot' = [bySlot EXCEPT ![m][k][slot] = v]
        BY <1>1, <2>1
      <3>2. DOMAIN bySlot = Manuals /\ bySlot[m] \in [KeysOf(m) -> [Slots(m) -> Levels]]
        BY <1>1 DEF TypeInv, KeysTypeOK, Arrays
      <3> SUFFICES ASSUME NEW n \in Manuals, NEW j \in KeysOf(n), NEW s \in Slots(n)
                   PROVE  bySlot'[n][j][s] = IF n = m /\ j = k /\ s = slot THEN v ELSE bySlot[n][j][s]
        OBVIOUS
      <3>3. bySlot[n] \in [KeysOf(n) -> [Slots(n) -> Levels]]
        BY DEF TypeInv, KeysTypeOK
      <3> QED  BY <1>1, <3>1, <3>2, <3>3
    <2>2. CASE bySlot[m][k][slot] = v
      BY <1>1, <2>2
    <2> QED  BY <2>1, <2>2
  <1>8. ASSUME NEW n \in Manuals, NEW j \in KeysOf(n)
        PROVE  bySlot'[n][j][Own] = OwnLevel(n, j)' \/ KeyCall(n, j, OwnLevel(n, j)', Own) \in Pending'
    <2>1. Own \in Slots(n)
      BY Keyboards
    <2>2. CASE n = m /\ j = k /\ slot = Own
      <3>1. v = OwnLevel(m, k)
        BY <1>2, <2>2 DEF OwnInv
      <3> QED  BY <1>6, <1>7, <2>1, <2>2, <3>1
    <2>3. CASE ~(n = m /\ j = k /\ slot = Own)
      <3>1. ASSUME KeyCall(n, j, OwnLevel(n, j), Own) \in Pending PROVE FALSE
        <4> DEFINE x == KeyCall(n, j, OwnLevel(n, j), Own)
        <4>1. x.op = "Key" /\ x.at = n /\ x.key = j /\ x.slot = Own
          BY DEF KeyCall
        <4>2. x = Call
          BY <1>5, <3>1, <4>1
        <4> QED  BY <2>3, <4>1, <4>2
      <3> QED  BY <1>6, <1>7, <2>1, <2>3, <3>1 DEF OwnInv
    <2> QED  BY <2>2, <2>3
  <1>9. \A x \in Pending' : x.op # "Key"
    BY <1>3, <1>4 DEF Made
  <1>10. ASSUME PrepareCall \in Pending'
         PROVE  /\ \A n \in Manuals : \A j \in Playable[n] :
                     midiKey'[n][j] = 0 \/ NoteCall(n, j, 0) \in Pending' \/ AllOffCall(n) \in Pending'
                /\ \A x \in Pending' : x.op = "Note" => x.vel = 0
    <2>1. PrepareCall \in Pending
      BY <1>3, <1>10 DEF Made, PrepareCall
    <2>2. \A n, j : NoteCall(n, j, 0) # Call /\ AllOffCall(n) # Call
      BY <1>2 DEF NoteCall, AllOffCall
    <2>3. \A x \in Pending' : x.op = "Note" => x \in Pending
      BY <1>3 DEF Made
    <2> QED  BY <1>1, <1>3, <2>1, <2>2, <2>3 DEF OwnInv, Made
  <1> QED  BY <1>8, <1>9, <1>10 DEF OwnInv, KeyCall, NoteCall, AllOffCall, PrepareCall

LEMMA OwnAtRest ==
  ASSUME OwnInv, UNCHANGED <<midiKey, bySlot>>, calls = <<>>,
         \A x \in Pending' : x.op \notin {"Key", "Prepare"}
  PROVE  OwnInv'
  <1>1. Pending = {}
    BY EmptyToSet DEF Pending
  <1>2. \A m, k : OwnLevel(m, k)' = OwnLevel(m, k)
    BY DEF OwnLevel
  <1>3. PrepareCall \notin Pending'
    BY DEF PrepareCall
  <1> QED  BY <1>1, <1>2, <1>3 DEF OwnInv, KeyCall, NoteCall, AllOffCall, PrepareCall

LEMMA OwnStopped ==
  ASSUME TypeInv, OwnInv, Restart
  PROVE  OwnInv'
  <1>1. /\ calls = <<>> /\ Pending' = {AllOffCall(m) : m \in Manuals} \union {PrepareCall}
        /\ UNCHANGED <<midiKey, bySlot>>
    BY RestartStep DEF Restart, manualVars
  <1>2. Pending = {}
    BY <1>1, EmptyToSet DEF Pending
  <1>3. \A m, k : OwnLevel(m, k)' = OwnLevel(m, k)
    BY <1>1 DEF OwnLevel
  <1>4. \A x \in Pending' : x.op \notin {"Key", "Note"}
    BY <1>1 DEF AllOffCall, PrepareCall
  <1>5. \A m \in Manuals : AllOffCall(m) \in Pending'
    BY <1>1
  <1> QED  BY <1>1, <1>2, <1>3, <1>4, <1>5 DEF OwnInv, KeyCall, NoteCall, AllOffCall, PrepareCall

-----------------------------------------------------------------------------
(* No coupler is called while it changes its tone *)

\* The manuals that a coupler leads to, directly or through engaged couplers.
Feeds(c) ==
  {B \in SUBSET Manuals : /\ engaged[c] => Dest[c] \in B
                          /\ \A d \in KeyCouplers : engaged[d] /\ Source(d) \in B => Dest[d] \in B}
Downstream(c) == {m \in Manuals : \A B \in Feeds(c) : m \in B}

\* No bass or melody coupler leads back to the manual it takes its keys from.
NoBassCircle == \A c \in KeyCouplers : Kind[c] # "normal" => Source(c) \notin Downstream(c)

\* The calls that can come out of coupler c, until its handler goes on.
Within(x, c) ==
  \/ x.op = "Key" /\ x.at \in Downstream(c)
  \/ x.op \in {"SetKey", "Tone"} /\ Source(x.at) \in Downstream(c)
  \/ x.op = "SetOut" /\ (x.at = c \/ Source(x.at) \in Downstream(c))
  \/ x.op \in {"RankKey", "Ranks", "StopKey", "Division", "Last"}

\* What is called before a coupler takes its new tone comes out of that coupler.
WindowInv ==
  \A i, j \in DOMAIN calls : i < j /\ calls[j].op = "Tone" => Within(calls[i], calls[j].at)

LEMMA DownstreamClosed ==
  ASSUME NEW c
  PROVE  /\ engaged[c] => (Dest[c] \in Manuals => Dest[c] \in Downstream(c))
         /\ \A d \in KeyCouplers :
              engaged[d] /\ Source(d) \in Downstream(c) /\ Dest[d] \in Manuals => Dest[d] \in Downstream(c)
  BY DEF Downstream, Feeds

LEMMA SameDownstream ==
  ASSUME engaged' = engaged
  PROVE  \A c : Downstream(c)' = Downstream(c)
  BY DEF Downstream, Feeds

LEMMA WindowKept ==
  ASSUME CallsInv, WindowInv, calls # <<>>, engaged' = engaged,
         NEW new \in Seq(KeyCalls), Continue(new),
         \A i, j \in DOMAIN new : i < j /\ new[j].op = "Tone" => Within(new[i], new[j].at),
         \A i \in DOMAIN new : \A c \in KeyCouplers : Within(Call, c) => Within(new[i], c)
  PROVE  WindowInv'
  <1> DEFINE q == calls
             r == new \o Tail(q)
  <1>1. q \in Seq(KeyCalls) /\ calls' = r /\ Call = q[1]
    BY DEF CallsInv, Continue, Call
  <1>2. /\ r \in Seq(KeyCalls) /\ Len(r) = Len(new) + Len(q) - 1
        /\ \A i \in DOMAIN r :
             \/ i \in DOMAIN new /\ r[i] = new[i]
             \/ /\ i > Len(new) /\ i - Len(new) + 1 \in 2..Len(q)
                /\ r[i] = q[i - Len(new) + 1]
    BY <1>1, Replaced
  <1>3. /\ Len(q) \in Nat \ {0} /\ DOMAIN q = 1..Len(q) /\ Len(new) \in Nat
        /\ DOMAIN new = 1..Len(new) /\ DOMAIN r = 1..Len(r) /\ Len(r) \in Nat
    BY <1>1, <1>2, EmptySeq, LenProperties
  <1>4. \A x, c : Within(x, c)' = Within(x, c)
    BY SameDownstream DEF Within
  <1>5. \A a, b \in DOMAIN q : a < b /\ q[b].op = "Tone" => Within(q[a], q[b].at) /\ q[b].at \in KeyCouplers
    <2> SUFFICES ASSUME NEW a \in DOMAIN q, NEW b \in DOMAIN q, a < b, q[b].op = "Tone"
                 PROVE  Within(q[a], q[b].at) /\ q[b].at \in KeyCouplers
      OBVIOUS
    <2>1. q[b] \in KeyCalls
      BY <1>1
    <2> QED  BY <2>1, CallType DEF WindowInv
  <1> HIDE DEF r, q
  <1> SUFFICES ASSUME NEW i \in DOMAIN r, NEW j \in DOMAIN r, i < j, r[j].op = "Tone"
               PROVE  Within(r[i], r[j].at)
    BY <1>1, <1>4 DEF WindowInv, Within
  <1> DEFINE a == i - Len(new) + 1
             b == j - Len(new) + 1
  <1>6. i \in Nat /\ j \in Nat
    <2>1. i \in 1..Len(r) /\ j \in 1..Len(r)
      BY <1>3
    <2> QED  BY <2>1
  <1>7. CASE i \in DOMAIN new /\ r[i] = new[i] /\ j \in DOMAIN new /\ r[j] = new[j]
    BY <1>7
  <1>8. CASE i \in DOMAIN new /\ r[i] = new[i] /\ b \in 2..Len(q) /\ r[j] = q[b]
    <2>1. b \in DOMAIN q /\ 1 \in DOMAIN q /\ 1 < b
      BY <1>3, <1>8
    <2>2. Within(q[1], q[b].at) /\ q[b].at \in KeyCouplers
      BY <1>5, <1>8, <2>1
    <2> QED  BY <1>1, <1>8, <2>2
  <1>9. CASE i > Len(new) /\ a \in 2..Len(q) /\ r[i] = q[a] /\ j > Len(new) /\ b \in 2..Len(q) /\ r[j] = q[b]
    <2>1. a \in DOMAIN q /\ b \in DOMAIN q /\ a < b
      BY <1>3, <1>6, <1>9
    <2> QED  BY <1>5, <1>9, <2>1
  <1>10. ~(i > Len(new) /\ j \in DOMAIN new)
    BY <1>3, <1>6
  <1> HIDE DEF a, b
  <1>11. \/ i \in DOMAIN new /\ r[i] = new[i]
         \/ i > Len(new) /\ a \in 2..Len(q) /\ r[i] = q[a]
    BY <1>2 DEF a
  <1>12. \/ j \in DOMAIN new /\ r[j] = new[j]
         \/ j > Len(new) /\ b \in 2..Len(q) /\ r[j] = q[b]
    BY <1>2 DEF b
  <1> QED  BY <1>7, <1>8, <1>9, <1>10, <1>11, <1>12

\* What is called before a coupler takes its tone comes out of it.
LEMMA InWindow ==
  ASSUME CallsInv, WindowInv, calls # <<>>, NEW x \in ToCome, x.op = "Tone"
  PROVE  Within(Call, x.at)
  <1> DEFINE q == calls
             t == Tail(q)
  <1>1. q \in Seq(KeyCalls) /\ q # <<>> /\ Call = q[1]
    BY DEF CallsInv, Call
  <1>2. /\ Len(q) \in Nat \ {0} /\ DOMAIN q = 1..Len(q)
        /\ t \in Seq(KeyCalls) /\ Len(t) = Len(q) - 1 /\ DOMAIN t = 1..Len(q) - 1
        /\ \A i \in 1..Len(t) : t[i] = q[i + 1]
    BY <1>1, HeadTailProperties, EmptySeq, LenProperties
  <1>3. PICK i \in DOMAIN t : x = t[i]
    BY DEF ToCome, ToSet
  <1> HIDE DEF t
  <1>4. 1 \in DOMAIN q /\ i + 1 \in DOMAIN q /\ 1 < i + 1 /\ x = q[i + 1]
    BY <1>2, <1>3
  <1> QED  BY <1>1, <1>4 DEF WindowInv

\* A handler that calls nothing, one or several of the calls a coupler's window allows.
LEMMA WindowNone ==
  ASSUME CallsInv, WindowInv, calls # <<>>, engaged' = engaged, Continue(<<>>)
  PROVE  WindowInv'
  <1>1. <<>> \in Seq(KeyCalls) /\ DOMAIN <<>> = {}
    OBVIOUS
  <1> QED  BY <1>1, WindowKept

LEMMA WindowOne ==
  ASSUME CallsInv, WindowInv, calls # <<>>, engaged' = engaged, NEW x \in KeyCalls, Continue(<<x>>),
         \A c \in KeyCouplers : Within(Call, c) => Within(x, c)
  PROVE  WindowInv'
  <1> DEFINE new == <<x>>
  <1>1. new \in Seq(KeyCalls) /\ DOMAIN new = {1} /\ new[1] = x /\ Continue(new)
    OBVIOUS
  <1> HIDE DEF new
  <1>2. \A i, j \in DOMAIN new : ~(i < j)
    BY <1>1
  <1>3. \A i \in DOMAIN new : \A c \in KeyCouplers : Within(Call, c) => Within(new[i], c)
    BY <1>1
  <1> QED  BY <1>1, <1>2, <1>3, WindowKept

LEMMA WindowTwo ==
  ASSUME CallsInv, WindowInv, calls # <<>>, engaged' = engaged,
         NEW x \in KeyCalls, NEW y \in KeyCalls, Continue(<<x, y>>),
         y.op = "Tone" => Within(x, y.at),
         \A c \in KeyCouplers : Within(Call, c) => Within(x, c) /\ Within(y, c)
  PROVE  WindowInv'
  <1> DEFINE new == <<x, y>>
  <1>1. /\ new \in Seq(KeyCalls) /\ DOMAIN new = {1, 2} /\ Continue(new)
        /\ new[1] = x /\ new[2] = y
    OBVIOUS
  <1> HIDE DEF new
  <1>2. \A i, j \in DOMAIN new : i < j => i = 1 /\ j = 2
    BY <1>1
  <1>3. \A i, j \in DOMAIN new : i < j /\ new[j].op = "Tone" => Within(new[i], new[j].at)
    BY <1>1, <1>2
  <1>4. \A i \in DOMAIN new : \A c \in KeyCouplers : Within(Call, c) => Within(new[i], c)
    BY <1>1
  <1> QED  BY <1>1, <1>3, <1>4, WindowKept

LEMMA WindowMany ==
  ASSUME CallsInv, WindowInv, calls # <<>>, engaged' = engaged,
         NEW new \in Seq(KeyCalls), Continue(new),
         \A i \in DOMAIN new : new[i].op # "Tone",
         \A i \in DOMAIN new : \A c \in KeyCouplers : Within(Call, c) => Within(new[i], c)
  PROVE  WindowInv'
  BY WindowKept

\* Outside a coupler nothing waits for it to take its tone.
LEMMA WindowOutside ==
  ASSUME CallsInv', \A x \in Pending' : x.op # "Tone"
  PROVE  WindowInv'
  BY DEF WindowInv, Pending, ToSet

LEMMA WindowHigh ==
  ASSUME CallsInv, CallsInv', WindowInv, calls # <<>>, NEW made, Made(made),
         \A x \in made : x.op # "Tone",
         Call.op \notin {"Key", "SetKey", "Tone", "SetOut", "RankKey", "Ranks", "StopKey", "Division", "Last"}
  PROVE  WindowInv'
  <1>1. \A x \in ToCome : x.op # "Tone"
    BY InWindow DEF Within
  <1> QED  BY <1>1, WindowOutside DEF Made

LEMMA MadeCalls ==
  ASSUME CallsInv', NEW made, Made(made)
  PROVE  made \subseteq KeyCalls
  <1>1. Pending' \subseteq KeyCalls
    BY DEF CallsInv, Pending, ToSet
  <1> QED  BY <1>1 DEF Made

LEMMA WindowSetKeyState ==
  ASSUME TypeInv, WindowInv, SetKeyState
  PROVE  WindowInv'
  <1> DEFINE m == Call.at
             k == Call.key
             s == PropagateKeyToCouplers(m, k)
             x == DivisionCall(m, k)
             new == s \o <<x>>
             made == {CouplerCall(c, k) : c \in {c \in Couplers : Source(c) = m}} \union {x}
  <1>1. /\ TypeInv' /\ m \in Manuals /\ k \in KeysOf(m) /\ engaged' = engaged
        /\ (Made(made) /\ Continue(new)) \/ Continue(<<>>)
    BY SetKeyStateStep DEF couplerVars
  <1>2. calls # <<>> /\ Call.op = "Key" /\ CallsInv /\ CallsInv'
    BY <1>1 DEF SetKeyState, Doing, TypeInv
  <1>3. CASE Continue(<<>>)
    BY <1>1, <1>2, <1>3, WindowNone
  <1>4. CASE Made(made) /\ Continue(new)
    <2>1. s \in Seq(KeyCalls) /\ ToSet(s) = {CouplerCall(c, k) : c \in {c \in Couplers : Source(c) = m}}
      BY <1>1, Propagated
    <2>2. x \in KeyCalls
      BY <1>2, <1>4, MadeCalls
    <2>3. new \in Seq(KeyCalls) /\ ToSet(new) = made
      BY <2>1, <2>2, AndOneMore
    <2>4. ASSUME NEW y \in made
          PROVE  y.op # "Tone" /\ \A c \in KeyCouplers : Within(Call, c) => Within(y, c)
      <3>1. CASE y = x
        BY <3>1 DEF DivisionCall, Within
      <3>2. ASSUME NEW d \in Couplers, Source(d) = m, y = CouplerCall(d, k)
            PROVE  y.op # "Tone" /\ \A c \in KeyCouplers : Within(Call, c) => Within(y, c)
        BY <1>2, <3>2 DEF CouplerCall, Within
      <3> QED  BY <3>1, <3>2
    <2> HIDE DEF new, made
    <2>5. \A i \in DOMAIN new : new[i] \in made
      BY <2>3 DEF ToSet
    <2> QED  BY <1>1, <1>2, <1>4, <2>3, <2>4, <2>5, WindowMany
  <1> QED  BY <1>1, <1>3, <1>4

LEMMA WindowSetDivision ==
  ASSUME TypeInv, WindowInv, SetDivisionKeyState
  PROVE  WindowInv'
  <1> DEFINE m == Call.at
             k == Call.key
             v == Sounding(m, k)
             new == [i \in DOMAIN StopsOf[m] |-> StopKeyCall(StopsOf[m][i], k + 1, v)]
  <1>1. /\ TypeInv' /\ m \in Manuals /\ engaged' = engaged
        /\ (Made({new[i] : i \in DOMAIN StopsOf[m]}) /\ Continue(new)) \/ Continue(<<>>)
    BY SetDivisionKeyStateStep DEF couplerVars
  <1>2. calls # <<>> /\ CallsInv /\ CallsInv'
    BY <1>1 DEF SetDivisionKeyState, Doing, TypeInv
  <1>3. CASE Continue(<<>>)
    BY <1>1, <1>2, <1>3, WindowNone
  <1>4. CASE Made({new[i] : i \in DOMAIN StopsOf[m]}) /\ Continue(new)
    <2>1. \A i \in DOMAIN StopsOf[m] : new[i].op = "StopKey"
      BY DEF StopKeyCall
    <2>2. new = [i \in DOMAIN StopsOf[m] |-> new[i]]
      OBVIOUS
    <2>3. DOMAIN StopsOf[m] = 1..Len(StopsOf[m]) /\ Len(StopsOf[m]) \in Nat
      BY <1>1, Keyboards, LenProperties
    <2> HIDE DEF new
    <2>4. \A i \in DOMAIN StopsOf[m] : new[i] \in KeyCalls
      BY <1>2, <1>4, MadeCalls
    <2>5. new \in Seq(KeyCalls) /\ DOMAIN new = DOMAIN StopsOf[m]
      BY <2>2, <2>3, <2>4, SeqDef
    <2>6. \A i \in DOMAIN new : new[i].op # "Tone" /\ \A c \in KeyCouplers : Within(new[i], c)
      BY <2>1, <2>5 DEF Within
    <2> QED  BY <1>1, <1>2, <1>4, <2>5, <2>6, WindowMany
  <1> QED  BY <1>1, <1>3, <1>4

LEMMA WindowSetRankKeyState ==
  ASSUME TypeInv, WindowInv, SetRankKeyState, UNCHANGED <<couplerVars, manualVars>>
  PROVE  WindowInv'
  <1> DEFINE s == Call.at
             new == [i \in DOMAIN RankInfo[s] |-> RankKeyCall(s, i, Call.key, Call.vel)]
  <1>1. /\ TypeInv' /\ s \in Stops /\ engaged' = engaged
        /\ Made({RankKeyCall(s, i, Call.key, Call.vel) : i \in DOMAIN RankInfo[s]}) /\ Continue(new)
    BY SetRankKeyStateStep DEF couplerVars
  <1>2. calls # <<>> /\ CallsInv /\ CallsInv'
    BY <1>1 DEF SetRankKeyState, Doing, TypeInv
  <1>3. \A i \in DOMAIN RankInfo[s] : new[i].op = "RankKey"
    BY DEF RankKeyCall
  <1>4. new = [i \in DOMAIN RankInfo[s] |-> new[i]]
    OBVIOUS
  <1>5. DOMAIN RankInfo[s] = 1..Len(RankInfo[s]) /\ Len(RankInfo[s]) \in Nat
    BY <1>1, StopsAssumption, LenProperties
  <1>6. \A i \in DOMAIN RankInfo[s] : new[i] \in KeyCalls
    BY <1>1, <1>2, MadeCalls
  <1> HIDE DEF new
  <1>7. new \in Seq(KeyCalls) /\ DOMAIN new = DOMAIN RankInfo[s]
    BY <1>4, <1>5, <1>6, SeqDef
  <1>8. \A i \in DOMAIN new : new[i].op # "Tone" /\ \A c \in KeyCouplers : Within(new[i], c)
    BY <1>3, <1>7 DEF Within
  <1> QED  BY <1>1, <1>2, <1>7, <1>8, WindowMany

LEMMA WindowStopKey ==
  ASSUME TypeInv, WindowInv, StopKey, UNCHANGED <<couplerVars, manualVars>>
  PROVE  WindowInv'
  <1> DEFINE x == RanksCall(Call.at, Call.key - FirstKey[Call.at], Call.vel)
  <1>1. TypeInv' /\ engaged' = engaged /\ ((Made({x}) /\ Continue(<<x>>)) \/ Continue(<<>>))
    <2>1. /\ TypeInv' /\ engaged' = engaged
          /\ Call.at \in Stops
          /\ (stopOn[Call.at] => Made({x}) /\ Continue(<<x>>)) \/ Continue(<<>>)
          /\ (~stopOn[Call.at] => Continue(<<>>)) \/ Continue(<<>>)
      BY StopKeyStep DEF couplerVars
    <2>2. stopOn[Call.at] \in BOOLEAN
      BY <2>1 DEF TypeInv, KeysTypeOK, StopsTypeOK
    <2> QED  BY <2>1, <2>2
  <1>2. calls # <<>> /\ CallsInv /\ CallsInv'
    BY <1>1 DEF StopKey, Doing, TypeInv
  <1>3. \A c : Within(x, c)
    BY DEF RanksCall, Within
  <1> HIDE DEF x
  <1>4. CASE Continue(<<>>)
    BY <1>1, <1>2, <1>4, WindowNone
  <1>5. CASE Made({x}) /\ Continue(<<x>>)
    <2>1. x \in KeyCalls
      BY <1>2, <1>5, MadeCalls
    <2> QED  BY <1>1, <1>2, <1>3, <1>5, <2>1, WindowOne
  <1> QED  BY <1>1, <1>4, <1>5

LEMMA WindowSetKey ==
  ASSUME TypeInv, WindowInv, SetKey
  PROVE  WindowInv'
  <1> DEFINE c == Call.at
             k == Call.key
             v == Taken(c, k)
             keys == [input[c] EXCEPT ![k] = v]
             next == NextPressed(c, keys, -1)
             x == OutCall(c, k + Keyshift(c), v)
             away == tone[c] # -1 /\ next # tone[c]
             y == ToneCall(c, k, v, next, away)
             z == OutCall(c, tone[c] + Keyshift(c), 0)
  <1>1. /\ TypeInv' /\ engaged' = engaged
        /\ \/ Continue(<<>>)
           \/ Made({x}) /\ Continue(<<x>>)
           \/ Made({z, y}) /\ Continue(<<z, y>>)
           \/ Made({y}) /\ Continue(<<y>>)
    BY SetKeyStep
  <1>2. calls # <<>> /\ Call.op = "SetKey" /\ CallsInv /\ CallsInv'
    BY <1>1 DEF SetKey, Doing, TypeInv
  <1>3. x.op = "SetOut" /\ x.at = c /\ z.op = "SetOut" /\ z.at = c /\ y.op = "Tone" /\ y.at = c
    BY DEF OutCall, ToneCall
  <1> HIDE DEF x, y, z
  <1>4. \A d \in KeyCouplers : Within(Call, d) => Within(x, d) /\ Within(y, d) /\ Within(z, d)
    BY <1>2, <1>3 DEF Within
  <1>5. Within(z, y.at)
    BY <1>3 DEF Within
  <1>6. CASE Continue(<<>>)
    BY <1>1, <1>2, <1>6, WindowNone
  <1>7. CASE Made({x}) /\ Continue(<<x>>)
    <2>1. x \in KeyCalls
      BY <1>2, <1>7, MadeCalls
    <2> QED  BY <1>1, <1>2, <1>4, <1>7, <2>1, WindowOne
  <1>8. CASE Made({z, y}) /\ Continue(<<z, y>>)
    <2>1. z \in KeyCalls /\ y \in KeyCalls
      BY <1>2, <1>8, MadeCalls
    <2> QED  BY <1>1, <1>2, <1>4, <1>5, <1>8, <2>1, WindowTwo
  <1>9. CASE Made({y}) /\ Continue(<<y>>)
    <2>1. y \in KeyCalls
      BY <1>2, <1>9, MadeCalls
    <2> QED  BY <1>1, <1>2, <1>4, <1>9, <2>1, WindowOne
  <1> QED  BY <1>1, <1>6, <1>7, <1>8, <1>9

LEMMA WindowSetTone ==
  ASSUME TypeInv, WindowInv, SetTone
  PROVE  WindowInv'
  <1> DEFINE c == Call.at
             t == NewTone(c, Call.key, Call.vel, Call.next, Call.cancelled)
             x == OutCall(c, t + Keyshift(c), input[c][t])
             y == LastCall(c, Call.key, Call.vel, Call.next)
  <1>1. /\ TypeInv' /\ engaged' = engaged
        /\ (Made({x, y}) /\ Continue(<<x, y>>)) \/ (Made({y}) /\ Continue(<<y>>))
    BY SetToneStep
  <1>2. calls # <<>> /\ Call.op = "Tone" /\ CallsInv /\ CallsInv'
    BY <1>1 DEF SetTone, Doing, TypeInv
  <1>3. x.op = "SetOut" /\ x.at = c /\ y.op = "Last"
    BY DEF OutCall, LastCall
  <1> HIDE DEF x, y
  <1>4. \A d \in KeyCouplers : Within(Call, d) => Within(x, d) /\ Within(y, d)
    BY <1>2, <1>3 DEF Within
  <1>5. CASE Made({x, y}) /\ Continue(<<x, y>>)
    <2>1. x \in KeyCalls /\ y \in KeyCalls
      BY <1>2, <1>5, MadeCalls
    <2> QED  BY <1>1, <1>2, <1>3, <1>4, <1>5, <2>1, WindowTwo
  <1>6. CASE Made({y}) /\ Continue(<<y>>)
    <2>1. y \in KeyCalls
      BY <1>2, <1>6, MadeCalls
    <2> QED  BY <1>1, <1>2, <1>4, <1>6, <2>1, WindowOne
  <1> QED  BY <1>1, <1>5, <1>6

LEMMA WindowSetOut ==
  ASSUME TypeInv, WindowInv, SetOut
  PROVE  WindowInv'
  <1> DEFINE c == Call.at
             x == KeyCall(Dest[c], Call.key, Decrement(Call.vel), c)
  <1>1. /\ TypeInv' /\ engaged' = engaged /\ c \in KeyCouplers
        /\ (engaged[c] /\ Made({x}) /\ Continue(<<x>>)) \/ Continue(<<>>)
    <2>1. /\ TypeInv' /\ engaged' = engaged /\ c \in KeyCouplers
          /\ (engaged[c] => Made({x}) /\ Continue(<<x>>)) \/ Continue(<<>>)
          /\ (~engaged[c] => Continue(<<>>)) \/ Continue(<<>>)
      BY SetOutStep
    <2>2. engaged[c] \in BOOLEAN
      BY <2>1, Keyboards DEF TypeInv, KeysTypeOK
    <2> QED  BY <2>1, <2>2
  <1>2. calls # <<>> /\ Call.op = "SetOut" /\ CallsInv /\ CallsInv'
    BY <1>1 DEF SetOut, Doing, TypeInv
  <1>3. x.op = "Key" /\ x.at = Dest[c]
    BY DEF KeyCall
  <1> HIDE DEF x
  <1>4. CASE Continue(<<>>)
    BY <1>1, <1>2, <1>4, WindowNone
  <1>5. CASE engaged[c] /\ Made({x}) /\ Continue(<<x>>)
    <2>1. x \in KeyCalls
      BY <1>2, <1>5, MadeCalls
    <2>2. \A d \in KeyCouplers : Within(Call, d) => Within(x, d)
      <3> SUFFICES ASSUME NEW d \in KeyCouplers, Within(Call, d) PROVE Dest[c] \in Downstream(d)
        BY <1>3 DEF Within
      <3>1. Dest[c] \in Manuals
        BY <1>1, Keyboards
      <3>2. c = d \/ Source(c) \in Downstream(d)
        BY <1>2 DEF Within
      <3> QED  BY <1>1, <1>5, <3>1, <3>2, DownstreamClosed
    <2> QED  BY <1>1, <1>2, <1>5, <2>1, <2>2, WindowOne
  <1> QED  BY <1>1, <1>4, <1>5

LEMMA StepWindow ==
  ASSUME TypeInv, PipeInv, WindowInv, [KeysNext]_keyVars
  PROVE  WindowInv'
  <1>1. TypeInv' /\ CallsInv' /\ CallsInv
    BY StepTypes DEF TypeInv
  <1>2. CASE Note
    <2>1. calls # <<>> /\ Call.op = "Note"
      BY <1>2 DEF Note, Doing
    <2>2. \E made : Made(made) /\ \A x \in made : x.op # "Tone"
      BY <1>2, NoteStep DEF KeyCall
    <2> QED  BY <1>1, <2>1, <2>2, WindowHigh
  <1>3. CASE AllNotesOff
    <2>1. calls # <<>> /\ Call.op = "AllOff"
      BY <1>3 DEF AllNotesOff, Doing
    <2>2. \E made : Made(made) /\ \A x \in made : x.op # "Tone"
      BY <1>3, AllNotesOffStep DEF NoteCall
    <2> QED  BY <1>1, <2>1, <2>2, WindowHigh
  <1>4. CASE SetKeyState
    BY <1>4, WindowSetKeyState
  <1>5. CASE SetDivisionKeyState
    BY <1>5, WindowSetDivision
  <1>6. CASE SetUnisonOff
    <2>1. calls # <<>> /\ Call.op = "Unison"
      BY <1>6 DEF SetUnisonOff, Doing
    <2>2. \E made : Made(made) /\ \A x \in made : x.op # "Tone"
      BY <1>6, SetUnisonOffStep DEF DivisionCall
    <2> QED  BY <1>1, <2>1, <2>2, WindowHigh
  <1>7. CASE SetKey
    BY <1>7, WindowSetKey
  <1>8. CASE SetTone
    BY <1>8, WindowSetTone
  <1>9. CASE SetLast
    <2>1. calls # <<>>
      BY <1>9 DEF SetLast, Doing
    <2>2. engaged' = engaged /\ Continue(<<>>)
      BY <1>9, SetLastStep
    <2> QED  BY <1>1, <2>1, <2>2, WindowNone
  <1>10. CASE SetOut
    BY <1>10, WindowSetOut
  <1>11. CASE Emit
    <2>1. calls # <<>> /\ Call.op = "Emit"
      BY <1>11 DEF Emit, Doing
    <2>2. \E made : Made(made) /\ \A x \in made : x.op # "Tone"
      BY <1>11, EmitStep DEF KeyCall
    <2> QED  BY <1>1, <2>1, <2>2, WindowHigh
  <1>12. CASE CoupleThrough
    <2>1. calls # <<>> /\ Call.op = "Through"
      BY <1>12 DEF CoupleThrough, Doing
    <2>2. \E made : Made(made) /\ \A x \in made : x.op # "Tone"
      BY <1>12, CoupleThroughStep DEF UnisonCall, RefreshCall
    <2> QED  BY <1>1, <2>1, <2>2, WindowHigh
  <1>13. CASE Refresh
    <2>1. calls # <<>> /\ Call.op = "Refresh"
      BY <1>13 DEF Refresh, Doing
    <2>2. \E made : Made(made) /\ \A x \in made : x.op # "Tone"
      BY <1>13, RefreshStep DEF CouplerCall
    <2> QED  BY <1>1, <2>1, <2>2, WindowHigh
  <1>14. CASE Prepare
    BY <1>1, <1>14, PrepareStep, WindowOutside
  <1>15. CASE RankKey /\ UNCHANGED <<couplerVars, manualVars>>
    <2>1. calls # <<>>
      BY <1>15 DEF RankKey, Doing
    <2>2. engaged' = engaged /\ Continue(<<>>)
      BY <1>15, RankKeyStep DEF couplerVars
    <2> QED  BY <1>1, <2>1, <2>2, WindowNone
  <1>16. CASE SetRankKeyState /\ UNCHANGED <<couplerVars, manualVars>>
    BY <1>16, WindowSetRankKeyState
  <1>17. CASE StopKey /\ UNCHANGED <<couplerVars, manualVars>>
    BY <1>17, WindowStopKey
  <1>18. ASSUME NEW m \in Manuals, NEW k \in Playable[m], NEW v \in Velocities \union {0}, PlayKey(m, k, v)
         PROVE  WindowInv'
    <2>1. \A x \in Pending' : x.op # "Tone"
      BY <1>18, PlayKeyStep DEF NoteCall
    <2> QED  BY <1>1, <2>1, WindowOutside
  <1>19. ASSUME NEW c \in Couplers, SwitchCoupler(c) PROVE WindowInv'
    <2>1. /\ Kind[c] = "unisonoff" => Pending' = {UnisonCall(Source(c), ~engaged[c])}
          /\ Kind[c] # "unisonoff" => Pending' = {EmitCall(c, n, ~engaged[c]) : n \in KeysOf(Dest[c])}
      BY <1>19, SwitchCouplerStep
    <2>2. \A x \in Pending' : x.op # "Tone"
      BY <2>1 DEF UnisonCall, EmitCall
    <2> QED  BY <1>1, <2>2, WindowOutside
  <1>20. ASSUME NEW b \in Buttons, PressThrough(b) PROVE WindowInv'
    <2>1. \A x \in Pending' : x.op # "Tone"
      BY <1>20, PressThroughStep
    <2> QED  BY <1>1, <2>1, WindowOutside
  <1>21. ASSUME NEW s \in Stops, SwitchStop(s), UNCHANGED <<couplerVars, manualVars>> PROVE WindowInv'
    <2>1. /\ s \in Effects => Pending' = {RanksCall(s, 0, IF stopOn[s] THEN 0 ELSE MaxVelocity)}
          /\ s \notin Effects =>
               Pending' = {RanksCall(s, k, IF stopOn[s] THEN 0 ELSE stopKey[s][k]) : k \in StopKeys(s)}
      BY <1>21, SwitchStopStep
    <2>2. \A k, v : RanksCall(s, k, v).op # "Tone"
      BY DEF RanksCall
    <2>3. \A x \in Pending' : x.op # "Tone"
      BY <2>1, <2>2
    <2> QED  BY <1>1, <2>3, WindowOutside
  <1>22. CASE Restart
    <2>1. Pending' = {AllOffCall(m) : m \in Manuals} \union {PrepareCall}
      BY <1>22, RestartStep
    <2>2. \A x \in Pending' : x.op # "Tone"
      BY <2>1 DEF AllOffCall, PrepareCall
    <2> QED  BY <1>1, <2>2, WindowOutside
  <1>23. CASE UNCHANGED keyVars
    <2>1. calls' = calls /\ engaged' = engaged
      BY <1>23 DEF keyVars, couplerVars
    <2>2. \A x, c : Within(x, c)' = Within(x, c)
      BY <2>1, SameDownstream DEF Within
    <2> QED  BY <2>1, <2>2 DEF WindowInv, Within
  <1> QED  BY <1>2, <1>3, <1>4, <1>5, <1>6, <1>7, <1>8, <1>9, <1>10, <1>11, <1>12, <1>13,
             <1>14, <1>15, <1>16, <1>17, <1>18, <1>19, <1>20, <1>21, <1>22, <1>23 DEF KeysNext, Handle

-----------------------------------------------------------------------------
(* The tones of bass and melody couplers *)

\* What a coupler has to send for a key of its destination ...
Sent(c, n) ==
  LET k == n - Keyshift(c)
  IN  IF k \in KeysOf(Source(c)) /\ (Kind[c] = "normal" \/ tone[c] = k) THEN input[c][k] ELSE 0

\* ... and the key that a bass (melody) coupler should pass on.
First(c) == NextPressed(c, input[c], -1)

SetsOut(x, c) == x.op = "SetOut" /\ x.at = c
TakesTone(x, c) == x.op = "Tone" /\ x.at = c

\* A coupler has sent what it has to, or is about to.
Steady(c) ==
  /\ \A x \in Pending : SetsOut(x, c) => x.vel = Sent(c, x.key)
  /\ \A n \in KeysOf(Dest[c]) :
       internal[c][n] = Sent(c, n) \/ \E x \in Pending : SetsOut(x, c) /\ x.key = n
  /\ Kind[c] # "normal" => tone[c] \in {-1, First(c)}

\* A coupler that is going to take its tone (x) knows its keys as they are. If it gave
\* up a tone, nothing sounds through it any more; else this is the next call, and
\* at most its tone sounds.
Between(c, x) ==
  /\ Kind[c] # "normal" /\ x.next = First(c) /\ x.vel = input[c][x.key]
  /\ x.cancelled =>
       /\ \A y \in Pending : SetsOut(y, c) => y.vel = 0
       /\ \A n \in KeysOf(Dest[c]) : internal[c][n] = 0 \/ \E y \in Pending : SetsOut(y, c) /\ y.key = n
  /\ ~x.cancelled =>
       /\ x = Call /\ tone[c] \in {-1, First(c)}
       /\ \A n \in KeysOf(Dest[c]) : internal[c][n] = 0 \/ (tone[c] # -1 /\ n = tone[c] + Keyshift(c))

TonesOf(c) ==
  /\ (\A x \in Pending : ~TakesTone(x, c)) => Steady(c)
  /\ \A x \in Pending : TakesTone(x, c) => Between(c, x)

TonesInv == \A c \in KeyCouplers : TonesOf(c)

\* A coupler whose keys, tone and output do not change ...
LEMMA OtherTones ==
  ASSUME NEW c \in KeyCouplers, TonesOf(c),
         input'[c] = input[c], tone'[c] = tone[c], internal'[c] = internal[c],
         \A x \in Pending : ~SetsOut(x, c), \A x \in Pending' : ~SetsOut(x, c),
         \A x : TakesTone(x, c) => (x \in Pending <=> x \in Pending'),
         \A x \in Pending : TakesTone(x, c) => x # Call
  PROVE  TonesOf(c)'
  <1>1. First(c)' = First(c) /\ \A n : Sent(c, n)' = Sent(c, n)
    BY DEF First, NextPressed, Sent
  <1>2. ASSUME \A x \in Pending' : ~TakesTone(x, c) PROVE Steady(c)'
    <2>1. Steady(c)
      BY <1>2 DEF TonesOf
    <2> QED  BY <1>1, <2>1 DEF Steady, SetsOut
  <1>3. ASSUME NEW x \in Pending', TakesTone(x, c) PROVE Between(c, x)'
    <2>1. Between(c, x) /\ x # Call
      BY <1>3 DEF TonesOf
    <2> QED  BY <1>1, <2>1 DEF Between, SetsOut
  <1> QED  BY <1>2, <1>3 DEF TonesOf, TakesTone

\* ... and a handler that leaves all couplers alone.
LEMMA TonesKept ==
  ASSUME TypeInv, TonesInv, UNCHANGED <<input, tone, internal>>, calls # <<>>,
         Call.op \notin {"Tone", "SetOut"},
         NEW made, Made(made), \A x \in made : x.op \notin {"Tone", "SetOut"}
  PROVE  TonesInv'
  <1> SUFFICES ASSUME NEW c \in KeyCouplers PROVE TonesOf(c)'
    BY DEF TonesInv
  <1>1. \A x \in ToCome : x.op # "SetOut"
    BY FirstCall DEF TypeInv, AtOnce
  <1>2. /\ \A x \in Pending : ~SetsOut(x, c)
        /\ \A x \in Pending' : ~SetsOut(x, c)
        /\ \A x : TakesTone(x, c) => (x \in Pending <=> x \in Pending')
        /\ \A x \in Pending : TakesTone(x, c) => x # Call
    BY <1>1 DEF Made, SetsOut, TakesTone
  <1> QED  BY <1>2, OtherTones DEF TonesInv

LEMMA TonesAtRest ==
  ASSUME TonesInv, UNCHANGED <<input, tone, internal>>, calls = <<>>,
         \A x \in Pending' : x.op \notin {"Tone", "SetOut"}
  PROVE  TonesInv'
  <1> SUFFICES ASSUME NEW c \in KeyCouplers PROVE TonesOf(c)'
    BY DEF TonesInv
  <1>1. Pending = {}
    BY EmptyToSet DEF Pending
  <1> QED  BY <1>1, OtherTones DEF TonesInv, SetsOut, TakesTone

\* A coupler that can be called does not wait for its own tone.
LEMMA NoToneOf ==
  ASSUME TypeInv, WindowInv, TonesInv, NoBassCircle, calls # <<>>, NEW c \in KeyCouplers,
         Within(Call, c) => Source(c) \in Downstream(c)
  PROVE  \A x \in ToCome : ~TakesTone(x, c)
  <1> SUFFICES ASSUME NEW x \in ToCome, TakesTone(x, c) PROVE FALSE
    OBVIOUS
  <1>1. CallsInv /\ x \in Pending
    BY FirstCall DEF TypeInv
  <1>2. Within(Call, c)
    BY <1>1, InWindow DEF TakesTone
  <1>3. Kind[c] # "normal"
    BY <1>1 DEF TonesInv, TonesOf, Between
  <1> QED  BY <1>2, <1>3 DEF NoBassCircle


LEMMA TonesSetOut ==
  ASSUME TypeInv, TonesInv, SetOut
  PROVE  TonesInv'
  <1> DEFINE c == Call.at
             n == Call.key
             v == Call.vel
  <1>1. /\ c \in KeyCouplers /\ UNCHANGED <<input, tone>>
        /\ IF n \in KeysOf(Dest[c]) /\ internal[c][n] # v
             THEN internal' = [internal EXCEPT ![c][n] = v] ELSE UNCHANGED internal
    BY SetOutStep
  <1>2. calls # <<>> /\ Call.op = "SetOut" /\ CallsInv /\ Call \in Pending
    BY FirstCall DEF SetOut, Doing, TypeInv
  <1>3. PICK made : Made(made) /\ \A x \in made : x.op = "Key"
    <2>1. engaged[c] \in BOOLEAN
      BY <1>1, Keyboards DEF TypeInv, KeysTypeOK
    <2> QED  BY <2>1, SetOutStep DEF KeyCall
  <1>4. \A x \in ToCome : x.op # "SetOut"
    BY <1>2, FirstCall DEF AtOnce
  <1>5. /\ \A x \in Pending : x.op = "SetOut" => x = Call
        /\ \A x \in Pending' : x.op # "SetOut"
        /\ \A x : x.op = "Tone" => (x \in Pending <=> x \in Pending')
        /\ \A x \in Pending : x.op = "Tone" => x # Call
    BY <1>2, <1>3, <1>4 DEF Made
  <1>6. DOMAIN internal = KeyCouplers /\ \A d \in KeyCouplers : internal[d] \in [KeysOf(Dest[d]) -> Levels]
    BY DEF TypeInv, KeysTypeOK, Arrays
  <1>7. ASSUME NEW d \in KeyCouplers, d # c PROVE internal'[d] = internal[d]
    BY <1>1, <1>6, <1>7
  <1>8. \A j \in KeysOf(Dest[c]) : internal'[c][j] = IF j = n THEN v ELSE internal[c][j]
    BY <1>1, <1>6
  <1> SUFFICES ASSUME NEW d \in KeyCouplers PROVE TonesOf(d)'
    BY DEF TonesInv
  <1>9. CASE d # c
    <2>1. /\ \A x \in Pending : ~SetsOut(x, d)
          /\ \A x \in Pending' : ~SetsOut(x, d)
          /\ \A x : TakesTone(x, d) => (x \in Pending <=> x \in Pending')
          /\ \A x \in Pending : TakesTone(x, d) => x # Call
      BY <1>5, <1>9 DEF SetsOut, TakesTone
    <2> QED  BY <1>1, <1>7, <1>9, <2>1, OtherTones DEF TonesInv
  <1>10. CASE d = c
    <2>1. First(d)' = First(d) /\ \A j : Sent(d, j)' = Sent(d, j)
      BY <1>10, <1>1 DEF First, NextPressed, Sent
    <2>2. TonesOf(d) /\ SetsOut(Call, d)
      BY <1>10, <1>1, <1>2 DEF TonesInv, SetsOut
    <2>3. \A x \in Pending : SetsOut(x, d) => x = Call
      BY <1>10, <1>5 DEF SetsOut
    <2>4. \A x \in Pending' : ~SetsOut(x, d)
      BY <1>10, <1>5 DEF SetsOut
    <2> HIDE DEF c, n, v
    <2>5. ASSUME \A x \in Pending' : ~TakesTone(x, d) PROVE Steady(d)'
      <3>1. Steady(d)
        BY <1>10, <1>5, <2>2, <2>5 DEF TonesOf, TakesTone
      <3>2. v = Sent(d, n)
        BY <1>10, <1>2, <2>2, <3>1 DEF Steady, v, n
      <3>3. \A j \in KeysOf(Dest[d]) : j # n => internal[d][j] = Sent(d, j)
        BY <1>10, <2>3, <3>1 DEF Steady, n
      <3>4. \A j \in KeysOf(Dest[d]) : internal'[d][j] = Sent(d, j)
        BY <1>10, <1>8, <3>2, <3>3
      <3> QED  BY <1>10, <1>1, <2>1, <2>4, <3>1, <3>4 DEF Steady, SetsOut
    <2>6. ASSUME NEW x \in Pending', TakesTone(x, d) PROVE Between(d, x)'
      <3>1. Between(d, x) /\ x # Call
        BY <1>10, <1>5, <2>2, <2>6 DEF TonesOf, TakesTone
      <3>2. x.cancelled => v = 0
        BY <1>10, <1>2, <2>2, <3>1 DEF Between, v
      <3>3. x.cancelled => \A j \in KeysOf(Dest[d]) : j # n => internal[d][j] = 0
        BY <1>10, <2>3, <3>1 DEF Between, n
      <3>4. x.cancelled => \A j \in KeysOf(Dest[d]) : internal'[d][j] = 0
        BY <1>10, <1>8, <3>2, <3>3
      <3> QED  BY <1>10, <1>1, <2>1, <2>4, <3>1, <3>4 DEF Between, SetsOut
    <2> QED  BY <1>10, <2>5, <2>6 DEF TonesOf, TakesTone
  <1> QED  BY <1>9, <1>10

LEMMA TonesSetTone ==
  ASSUME TypeInv, WindowInv, TonesInv, NoBassCircle, SetTone
  PROVE  TonesInv'
  <1> DEFINE c == Call.at
             t == NewTone(c, Call.key, Call.vel, Call.next, Call.cancelled)
             x == OutCall(c, t + Keyshift(c), input[c][t])
             y == LastCall(c, Call.key, Call.vel, Call.next)
  <1>1. /\ c \in KeyCouplers /\ t \in KeysOf(Source(c)) \union {-1} /\ Call.cancelled \in BOOLEAN
        /\ UNCHANGED <<input, internal>> /\ tone' = [tone EXCEPT ![c] = t]
        /\ (t # -1 /\ Made({x, y})) \/ (t = -1 /\ Made({y}))
    BY SetToneStep
  <1>2. calls # <<>> /\ Call.op = "Tone" /\ CallsInv /\ Call \in Pending
    BY FirstCall DEF SetTone, Doing, TypeInv
  <1>3. \A z \in Pending : z.op # "SetOut"
    BY <1>2, FirstCall DEF AtOnce
  <1>4. /\ x.op = "SetOut" /\ x.at = c /\ x.key = t + Keyshift(c) /\ x.vel = input[c][t]
        /\ y.op = "Last"
    BY DEF OutCall, LastCall
  <1> HIDE DEF x, y
  <1>5. /\ \A z \in Pending' : z.op = "SetOut" => z = x /\ t # -1
        /\ t # -1 => x \in Pending'
        /\ \A z : z.op = "Tone" /\ z # Call => (z \in Pending <=> z \in Pending')
        /\ \A z \in Pending' : z.op = "Tone" => z \in ToCome
    BY <1>1, <1>2, <1>3, <1>4 DEF Made
  <1>6. DOMAIN tone = KeyCouplers
    BY DEF TypeInv, Arrays
  <1> SUFFICES ASSUME NEW d \in KeyCouplers PROVE TonesOf(d)'
    BY DEF TonesInv
  <1>7. CASE d # c
    <2>1. /\ \A z \in Pending : ~SetsOut(z, d)
          /\ \A z \in Pending' : ~SetsOut(z, d)
          /\ \A z : TakesTone(z, d) => (z \in Pending <=> z \in Pending')
          /\ \A z \in Pending : TakesTone(z, d) => z # Call
      BY <1>3, <1>4, <1>5, <1>7 DEF SetsOut, TakesTone
    <2>2. tone'[d] = tone[d]
      BY <1>1, <1>6, <1>7
    <2> QED  BY <1>1, <1>7, <2>1, <2>2, OtherTones DEF TonesInv
  <1>8. CASE d = c
    <2>1. Between(d, Call)
      BY <1>8, <1>1, <1>2 DEF TonesInv, TonesOf, TakesTone
    <2>2. \A z \in ToCome : ~TakesTone(z, d)
      <3>1. Within(Call, d) => Source(d) \in Downstream(d)
        BY <1>8, <1>2 DEF Within
      <3> QED  BY <1>8, <1>1, <1>2, <3>1, NoToneOf
    <2>3. \A z \in Pending' : ~TakesTone(z, d)
      BY <1>8, <1>5, <2>2 DEF TakesTone
    <2>4. tone'[d] = t /\ First(d)' = First(d)
      BY <1>8, <1>1, <1>6 DEF First, NextPressed
    <2>5. /\ Kind[d] # "normal" /\ Call.next = First(d)
          /\ t = First(d) \/ (~Call.cancelled /\ t = tone[d]) \/ (Call.cancelled /\ t = -1)
      BY <1>8, <1>1, <2>1 DEF Between, NewTone
    <2>6. /\ Call.cancelled => \A n \in KeysOf(Dest[d]) : internal[d][n] = 0
          /\ ~Call.cancelled =>
               /\ tone[d] \in {-1, First(d)}
               /\ \A n \in KeysOf(Dest[d]) : internal[d][n] = 0 \/ (tone[d] # -1 /\ n = tone[d] + Keyshift(d))
      BY <1>8, <1>3, <2>1 DEF Between, SetsOut
    <2>7. t \in {-1, First(d)}
      BY <1>8, <2>5, <2>6
    <2>8. Keyshift(d) \in Int /\ KeysOf(Source(d)) \subseteq Nat /\ KeysOf(Dest[d]) \subseteq Nat
      <3>1. d \in Couplers /\ Source(d) \in Manuals /\ Dest[d] \in Manuals
        BY <1>8, <1>1, Keyboards, Home
      <3> QED  BY <1>8, <1>1, <3>1, Keyboards, KeyshiftType
    <2> HIDE DEF t, c
    <2>9. ASSUME NEW n \in KeysOf(Dest[d]), ~(t # -1 /\ n = t + Keyshift(d)) PROVE internal[d][n] = 0
      <3>1. CASE Call.cancelled
        BY <1>8, <2>6, <3>1
      <3>2. CASE ~Call.cancelled
        <4>1. ~(tone[d] # -1 /\ n = tone[d] + Keyshift(d))
          <5> SUFFICES ASSUME tone[d] # -1 PROVE t = tone[d]
            BY <1>8, <2>9
          <5>1. tone[d] = First(d)
            BY <1>8, <2>6, <3>2
          <5> QED  BY <1>8, <2>5, <3>2, <5>1
        <4> QED  BY <1>8, <2>6, <3>2, <4>1
      <3> QED  BY <1>8, <1>1, <3>1, <3>2
    <2>10. \A n : Sent(d, n)' = IF n - Keyshift(d) \in KeysOf(Source(d)) /\ t = n - Keyshift(d)
                                  THEN input[d][t] ELSE 0
      BY <1>8, <1>1, <2>4, <2>5 DEF Sent
    <2>11. ASSUME NEW n \in Int
           PROVE  Sent(d, n)' = IF t # -1 /\ n = t + Keyshift(d) THEN input[d][t] ELSE 0
      <3>1. t \in Int /\ (t # -1 => t \in KeysOf(Source(d))) /\ -1 \notin KeysOf(Source(d))
        BY <1>8, <1>1, <2>8
      <3>2. t = n - Keyshift(d) <=> n = t + Keyshift(d)
        BY <1>8, <2>8, <3>1
      <3> QED  BY <1>8, <2>10, <3>1, <3>2
    <2>12. ASSUME NEW z \in Pending', SetsOut(z, d) PROVE z.vel = Sent(d, z.key)'
      <3>1. z = x /\ t # -1 /\ z.key = t + Keyshift(d) /\ z.vel = input[d][t]
        BY <1>8, <1>4, <1>5, <2>12 DEF SetsOut
      <3>2. z.key \in Int
        BY <1>8, <1>1, <2>8, <3>1
      <3> QED  BY <1>8, <2>11, <3>1, <3>2
    <2>13. ASSUME NEW n \in KeysOf(Dest[d])
           PROVE  internal'[d][n] = Sent(d, n)' \/ \E z \in Pending' : SetsOut(z, d) /\ z.key = n
      <3>1. CASE t # -1 /\ n = t + Keyshift(d)
        BY <1>8, <1>4, <1>5, <3>1 DEF SetsOut
      <3>2. CASE ~(t # -1 /\ n = t + Keyshift(d))
        <4>1. n \in Int
          BY <1>8, <2>8
        <4> QED  BY <1>8, <1>1, <2>9, <2>11, <3>2, <4>1
      <3> QED  BY <1>8, <3>1, <3>2
    <2>14. Steady(d)'
      BY <1>8, <2>4, <2>7, <2>12, <2>13 DEF Steady, SetsOut
    <2> QED  BY <1>8, <2>3, <2>14 DEF TonesOf, TakesTone
  <1> QED  BY <1>7, <1>8


LEMMA FirstMade ==
  ASSUME CallsInv, calls # <<>>, NEW y \in KeyCalls, Continue(<<y>>)
  PROVE  Call' = y
  <1> DEFINE t == Tail(calls)
             one == <<y>>
             r == one \o t
  <1>1. t \in Seq(KeyCalls) /\ one \in Seq(KeyCalls) /\ Len(one) = 1 /\ one[1] = y
    BY HeadTailProperties DEF CallsInv
  <1>2. calls' = r
    BY DEF Continue
  <1> HIDE DEF t, one
  <1>3. r[1] = y
    <2>1. Len(t) \in Nat
      BY <1>1, LenProperties
    <2>2. 1 \in 1..Len(one) + Len(t) /\ 1 <= Len(one)
      BY <1>1, <2>1
    <2> QED  BY <1>1, <2>2, ConcatProperties
  <1> HIDE DEF r
  <1> QED  BY <1>2, <1>3 DEF Call

LEMMA TonesSetKey ==
  ASSUME TypeInv, WindowInv, TonesInv, NoBassCircle, SetKey
  PROVE  TonesInv'
  <1> DEFINE c == Call.at
             k == Call.key
             v == Taken(c, k)
             keys == [input[c] EXCEPT ![k] = v]
             next == NextPressed(c, keys, -1)
             x == OutCall(c, k + Keyshift(c), v)
             away == tone[c] # -1 /\ next # tone[c]
             y == ToneCall(c, k, v, next, away)
             z == OutCall(c, tone[c] + Keyshift(c), 0)
             changed == k \in Coupled(c) /\ input[c][k] # v
  <1>1. /\ TypeInv' /\ c \in Couplers /\ k \in KeysOf(Source(c))
        /\ UNCHANGED <<tone, internal>>
        /\ changed => /\ input' = [input EXCEPT ![c] = keys]
                      /\ Kind[c] = "unisonoff" => Made({})
                      /\ Kind[c] = "normal" => Made({x})
                      /\ (Kind[c] \notin {"unisonoff", "normal"} /\ away) => Made({z, y})
                      /\ (Kind[c] \notin {"unisonoff", "normal"} /\ ~away) => Made({y}) /\ Continue(<<y>>)
        /\ ~changed => UNCHANGED input /\ Made({})
    BY SetKeyStep
  <1>2. calls # <<>> /\ Call.op = "SetKey" /\ CallsInv /\ CallsInv' /\ Call \in Pending
    BY <1>1, FirstCall DEF SetKey, Doing, TypeInv
  <1>3. \A w \in Pending : w.op # "SetOut"
    BY <1>2, FirstCall DEF AtOnce
  <1>4. /\ x.op = "SetOut" /\ x.at = c /\ x.key = k + Keyshift(c) /\ x.vel = v
        /\ z.op = "SetOut" /\ z.at = c /\ z.key = tone[c] + Keyshift(c) /\ z.vel = 0
        /\ y.op = "Tone" /\ y.at = c /\ y.key = k /\ y.vel = v /\ y.next = next /\ y.cancelled = away
    BY DEF OutCall, ToneCall
  <1>5. DOMAIN input = Couplers /\ input[c] \in [KeysOf(Source(c)) -> Levels]
    BY <1>1 DEF TypeInv, Arrays, KeysTypeOK
  <1> HIDE DEF x, y, z
  <1>6. CASE ~changed
    <2>1. UNCHANGED <<input, tone, internal>> /\ Made({})
      BY <1>1, <1>6
    <2>2. \A w \in {} : w.op \notin {"Tone", "SetOut"}
      OBVIOUS
    <2> QED  BY <1>2, <2>1, <2>2, TonesKept
  <1>7. CASE changed
    <2>1. input' = [input EXCEPT ![c] = keys]
      BY <1>1, <1>7
    <2> SUFFICES ASSUME NEW d \in KeyCouplers PROVE TonesOf(d)'
      BY DEF TonesInv
    <2>2. d \in Couplers /\ Kind[d] \notin {"unisonoff"}
      BY Keyboards DEF KeyCouplers
    <2>3. PICK made \in {{}, {x}, {y}, {z, y}} :
            /\ Made(made)
            /\ c = d /\ Kind[d] = "normal" => made = {x}
            /\ c = d /\ Kind[d] # "normal" => made = IF away THEN {z, y} ELSE {y}
            /\ c = d /\ Kind[d] # "normal" /\ ~away => Continue(<<y>>)
      BY <1>1, <1>7, <2>2
    <2> HIDE DEF keys, changed
    <2>4. CASE d # c
      <3>1. input'[d] = input[d]
        BY <1>5, <2>1, <2>2, <2>4
      <3>2. \A w \in made : w.at = c
        BY <1>4, <2>3
      <3>3. \A w : ~SetsOut(w, d) \/ w \notin Pending'
        BY <1>2, <1>3, <2>3, <2>4, <3>2 DEF SetsOut, Made
      <3>4. \A w : TakesTone(w, d) => (w \in Pending <=> w \in Pending')
        BY <1>2, <2>3, <2>4, <3>2 DEF TakesTone, Made
      <3> QED  BY <1>1, <1>2, <1>3, <3>1, <3>3, <3>4, OtherTones DEF TonesInv, SetsOut, TakesTone
    <2>5. CASE d = c
      <3>1. \A w \in ToCome : ~TakesTone(w, d)
        <4>1. Within(Call, d) => Source(d) \in Downstream(d)
          BY <1>2, <2>5 DEF Within
        <4> QED  BY <1>2, <4>1, NoToneOf
      <3>2. \A w \in Pending : ~TakesTone(w, d)
        BY <1>2, <2>3, <3>1 DEF Made, TakesTone
      <3>3. Steady(d)
        BY <3>2 DEF TonesInv, TonesOf
      <3>4. /\ \A n \in KeysOf(Dest[d]) : internal[d][n] = Sent(d, n)
            /\ Kind[d] # "normal" => tone[d] \in {-1, First(d)}
        BY <1>3, <3>3 DEF Steady, SetsOut
      <3>5. /\ \A j \in KeysOf(Source(d)) : input'[d][j] = IF j = k THEN v ELSE input[d][j]
            /\ input'[d] = keys
        BY <1>1, <1>5, <2>1, <2>5 DEF keys
      <3>6. First(d)' = next
        BY <2>5, <3>5 DEF First, NextPressed
      <3>7. Keyshift(d) \in Int /\ KeysOf(Source(d)) \subseteq Nat /\ KeysOf(Dest[d]) \subseteq Nat
        <4>1. Source(d) \in Manuals /\ Dest[d] \in Manuals
          BY <2>2, Keyboards, Home
        <4> QED  BY <4>1, Keyboards, KeyshiftType
      <3>8. k \in KeysOf(Source(d)) /\ k \in Int
        BY <1>1, <2>5, <3>7
      <3> HIDE DEF c, k, v, next
      <3>9. CASE Kind[d] = "normal"
        <4>1. Made({x})
          BY <2>3, <2>5, <3>9
        <4>2. \A n : Sent(d, n)' = IF n - Keyshift(d) \in KeysOf(Source(d)) THEN input'[d][n - Keyshift(d)] ELSE 0
          BY <3>9 DEF Sent
        <4>3. \A n : Sent(d, n) = IF n - Keyshift(d) \in KeysOf(Source(d)) THEN input[d][n - Keyshift(d)] ELSE 0
          BY <3>9 DEF Sent
        <4>4. ASSUME NEW w \in Pending', SetsOut(w, d) PROVE w.vel = Sent(d, w.key)'
          <5>1. w = x
            BY <1>2, <1>3, <4>1, <4>4 DEF Made, SetsOut
          <5>2. w.key - Keyshift(d) = k
            BY <1>4, <2>5, <3>7, <3>8, <5>1
          <5> QED  BY <1>4, <3>5, <3>8, <4>2, <5>1, <5>2
        <4>5. ASSUME NEW n \in KeysOf(Dest[d])
              PROVE  internal'[d][n] = Sent(d, n)' \/ \E w \in Pending' : SetsOut(w, d) /\ w.key = n
          <5>1. CASE n = k + Keyshift(d)
            BY <1>4, <2>5, <4>1, <5>1 DEF Made, SetsOut
          <5>2. CASE n # k + Keyshift(d)
            <6>1. n - Keyshift(d) # k
              BY <3>7, <3>8, <5>2
            <6> QED  BY <1>1, <3>4, <3>5, <4>2, <4>3, <6>1
          <5> QED  BY <5>1, <5>2
        <4>6. Steady(d)'
          BY <3>9, <4>4, <4>5 DEF Steady, SetsOut
        <4>7. \A w \in Pending' : ~TakesTone(w, d)
          BY <1>4, <3>1, <4>1 DEF Made, TakesTone
        <4> QED  BY <4>6, <4>7 DEF TonesOf, TakesTone
      <3>10. CASE Kind[d] # "normal"
        <4>1. Made(IF away THEN {z, y} ELSE {y}) /\ (~away => Continue(<<y>>))
          BY <2>3, <2>5, <3>10
        <4>2. \A w \in Pending' : TakesTone(w, d) => w = y
          BY <1>4, <3>1, <4>1 DEF Made, TakesTone
        <4>3. y \in Pending' /\ TakesTone(y, d)
          BY <1>4, <2>5, <4>1 DEF Made, TakesTone
        <4>4. ASSUME NEW n \in KeysOf(Dest[d]), ~(tone[d] # -1 /\ n = tone[d] + Keyshift(d))
              PROVE  internal[d][n] = 0
          <5>1. -1 \notin KeysOf(Source(d)) /\ tone[d] \in KeysOf(Source(d)) \union {-1}
            BY <3>7 DEF TypeInv, KeysTypeOK
          <5>2. n - Keyshift(d) \in KeysOf(Source(d)) => tone[d] # n - Keyshift(d)
            BY <3>7, <4>4, <5>1
          <5> QED  BY <3>4, <3>10, <5>2 DEF Sent
        <4>5. ASSUME away
              PROVE  /\ \A w \in Pending' : SetsOut(w, d) => w.vel = 0
                     /\ \A n \in KeysOf(Dest[d]) : internal'[d][n] = 0 \/ \E w \in Pending' : SetsOut(w, d) /\ w.key = n
          <5>1. \A w \in Pending' : SetsOut(w, d) => w = z
            BY <1>2, <1>3, <1>4, <4>1, <4>5 DEF Made, SetsOut
          <5>2. z \in Pending' /\ SetsOut(z, d) /\ z.vel = 0 /\ z.key = tone[d] + Keyshift(d)
            BY <1>4, <2>5, <4>1, <4>5 DEF Made, SetsOut
          <5> QED  BY <1>1, <4>4, <5>1, <5>2
        <4>6. ASSUME ~away
              PROVE  /\ y = Call' /\ tone'[d] \in {-1, next}
                     /\ \A n \in KeysOf(Dest[d]) : internal'[d][n] = 0 \/ (tone'[d] # -1 /\ n = tone'[d] + Keyshift(d))
          <5>1. y \in KeyCalls
            BY <1>2, <4>1, <4>6, MadeCalls
          <5>2. y = Call'
            BY <1>2, <4>1, <4>6, <5>1, FirstMade
          <5>3. tone[d] \in {-1, next}
            BY <2>5, <4>6
          <5> QED  BY <1>1, <4>4, <5>2, <5>3
        <4>7. y.cancelled = away /\ y.next = next /\ y.vel = input'[d][y.key]
          BY <1>4, <3>5, <3>8
        <4> HIDE DEF away
        <4>8. ASSUME NEW w \in Pending', TakesTone(w, d) PROVE Between(d, w)'
          <5>1. w = y
            BY <4>2, <4>8
          <5> SUFFICES /\ Kind[d] # "normal" /\ w.next = First(d)' /\ w.vel = input'[d][w.key]
                       /\ w.cancelled =>
                            /\ \A u \in Pending' : SetsOut(u, d) => u.vel = 0
                            /\ \A n \in KeysOf(Dest[d]) : internal'[d][n] = 0 \/ \E u \in Pending' : SetsOut(u, d) /\ u.key = n
                       /\ ~w.cancelled =>
                            /\ w = Call' /\ tone'[d] \in {-1, First(d)'}
                            /\ \A n \in KeysOf(Dest[d]) : internal'[d][n] = 0 \/ (tone'[d] # -1 /\ n = tone'[d] + Keyshift(d))
            BY DEF Between, SetsOut
          <5> QED  BY <3>6, <3>10, <4>5, <4>6, <4>7, <5>1
        <4> QED  BY <4>3, <4>8 DEF TonesOf, TakesTone
      <3> QED  BY <3>9, <3>10
    <2> QED  BY <2>4, <2>5
  <1> QED  BY <1>6, <1>7


LEMMA TakenFrom ==
  ASSUME TypeInv, NEW c \in Couplers, NEW k \in KeysOf(Source(c))
  PROVE  Taken(c, k) = 0 \/ \E s \in Slots(Source(c)) : Taken(c, k) = bySlot[Source(c)][k][s]
  <1> DEFINE m == Source(c)
             S == {0} \union {bySlot[m][k][s] : s \in {s \in Slots(m) : MayFollow(c, s)}}
  <1>1. m \in Manuals
    BY Home
  <1>2. S \subseteq Levels
    BY <1>1, LevelType, Bounds
  <1>3. S \in SUBSET (0..4 * MaxVelocity + 3) /\ S # {} /\ 4 * MaxVelocity + 3 \in Nat
    BY <1>2, Bounds DEF Levels
  <1>4. \A x \in S : x = 0 \/ \E s \in Slots(m) : x = bySlot[m][k][s]
    OBVIOUS
  <1>5. Taken(c, k) = SetMax(S)
    BY DEF Taken
  <1> HIDE DEF S
  <1>6. SetMax(S) \in S
    BY <1>3, Highest
  <1> QED  BY <1>4, <1>5, <1>6

\* When the player has released every key and all handlers have returned, no coupler
\* holds one: round every circle of couplers a key gets weaker.
LEMMA AllReleased ==
  ASSUME TypeInv, TakenInv, OutInv, OwnInv, TonesInv, \A x \in Pending : x.op = "Prepare",
         \A m \in Manuals : \A k \in Playable[m] : midiKey[m][k] = 0
  PROVE  /\ \A m \in Manuals : \A k \in KeysOf(m) : \A s \in Slots(m) : bySlot[m][k][s] = 0
         /\ \A c \in KeyCouplers : Kind[c] # "normal" => tone[c] = -1
  <1>1. \A c \in KeyCouplers : \A n \in KeysOf(Dest[c]) :
          bySlot[Dest[c]][n][c] = IF engaged[c] THEN Decrement(internal[c][n]) ELSE 0
    <2>1. \A x \in Pending : x.op \notin {"Key", "Emit"}
      OBVIOUS
    <2> QED  BY <2>1, OutAtRest
  <1>2. \A c \in KeyCouplers : Steady(c) /\ \A n \in KeysOf(Dest[c]) : internal[c][n] = Sent(c, n)
    <2> SUFFICES ASSUME NEW c \in KeyCouplers
                 PROVE  Steady(c) /\ \A n \in KeysOf(Dest[c]) : internal[c][n] = Sent(c, n)
      OBVIOUS
    <2>1. \A x \in Pending : ~TakesTone(x, c) /\ ~SetsOut(x, c)
      BY DEF TakesTone, SetsOut
    <2>2. Steady(c)
      BY <2>1 DEF TonesInv, TonesOf
    <2> QED  BY <2>1, <2>2 DEF Steady
  <1>3. \A c \in Couplers : \A k \in KeysOf(Source(c)) : input[c][k] = 0 \/ input[c][k] = Taken(c, k)
    <2>1. \A c, k : CouplerCall(c, k).op = "SetKey" /\ RefreshCall(c, k).op = "Refresh"
      BY DEF CouplerCall, RefreshCall
    <2> QED  BY <2>1 DEF TakenInv
  <1>4. ASSUME NEW m \in Manuals, NEW k \in KeysOf(m) PROVE bySlot[m][k][Own] = 0
    <2>1. \A v : KeyCall(m, k, v, Own).op = "Key"
      BY DEF KeyCall
    <2>2. bySlot[m][k][Own] = OwnLevel(m, k)
      BY <2>1 DEF OwnInv
    <2> QED  BY <2>2 DEF OwnLevel
  <1> DEFINE S == {v \in Levels : \E m \in Manuals : \E k \in KeysOf(m) : \E s \in Slots(m) : v = bySlot[m][k][s]}
             M == SetMax(S)
  <1>5. S \in SUBSET (0..4 * MaxVelocity + 3) /\ 4 * MaxVelocity + 3 \in Nat
    BY Bounds DEF Levels
  <1>6. \A m \in Manuals : \A k \in KeysOf(m) : \A s \in Slots(m) : bySlot[m][k][s] \in S
    BY LevelType
  <1>7. \A v \in S : \E m \in Manuals : \E k \in KeysOf(m) : \E s \in Slots(m) : v = bySlot[m][k][s]
    OBVIOUS
  <1> HIDE DEF S
  <1>8. S # {} => M \in S /\ \A v \in S : M >= v
    BY <1>5, Highest
  <1> HIDE DEF M
  <1>9. ASSUME NEW c \in Couplers, NEW k \in KeysOf(Source(c))
         PROVE  input[c][k] = 0 \/ input[c][k] \in S
    <2>1. Source(c) \in Manuals
      BY Home
    <2> QED  BY <1>3, <1>6, <2>1, TakenFrom
  <1>10. \A v \in S : v = 0
    <2> SUFFICES ASSUME S # {} PROVE M = 0
      BY <1>5, <1>8
    <2>1. M \in S /\ (\A v \in S : M >= v) /\ S \subseteq Nat
      BY <1>5, <1>8
    <2>2. PICK m \in Manuals : \E k \in KeysOf(m) : \E s \in Slots(m) : M = bySlot[m][k][s]
      BY <1>7, <2>1
    <2>3. PICK k \in KeysOf(m), s \in Slots(m) : M = bySlot[m][k][s]
      BY <2>2
    <2>4. CASE s = Own
      BY <1>4, <2>3, <2>4
    <2>5. CASE s # Own
      <3>1. s \in KeyCouplers /\ Dest[s] = m /\ s \in Couplers
        BY <2>5, Keyboards DEF Slots
      <3>2. M = 0 \/ M = Decrement(internal[s][k])
        BY <1>1, <2>3, <3>1
      <3>3. internal[s][k] = 0 \/ internal[s][k] \in S
        BY <1>2, <1>9, <3>1 DEF Sent
      <3>4. internal[s][k] = 0 \/ (internal[s][k] \in Nat /\ M >= internal[s][k] /\ M \in Nat)
        BY <2>1, <3>3
      <3> QED  BY <3>2, <3>4 DEF Decrement
    <2> QED  BY <2>4, <2>5
  <1>11. \A c \in Couplers : \A k \in KeysOf(Source(c)) : input[c][k] = 0
    BY <1>9, <1>10
  <1>12. ASSUME NEW c \in KeyCouplers, Kind[c] # "normal" PROVE tone[c] = -1
    <2>1. tone[c] \in {-1, First(c)}
      BY <1>2, <1>12 DEF Steady
    <2>2. c \in Couplers /\ input[c] \in [KeysOf(Source(c)) -> Levels]
      BY Keyboards DEF TypeInv, KeysTypeOK
    <2>3. {j \in DOMAIN input[c] : input[c][j] > 0} = {}
      BY <1>11, <2>2
    <2>4. First(c) = -1
      BY <2>3 DEF First, NextPressed
    <2> QED  BY <2>1, <2>4
  <1> QED  BY <1>6, <1>10, <1>12

LEMMA CouplersPrepared ==
  ASSUME TypeInv, TakenInv, OutInv, OwnInv, TonesInv, Prepare
  PROVE  TakenInv' /\ OutInv' /\ SaidInv' /\ OwnInv' /\ TonesInv'
  <1>1. /\ TypeInv' /\ Pending = {PrepareCall} /\ Pending' = {}
        /\ midiKey' = NoMidiKeys /\ bySlot' = NoSlots
        /\ input' = NoInput /\ internal' = NoOutput /\ out' = NoOutput
        /\ UNCHANGED <<engaged, tone>>
    BY PrepareStep
  <1>2. \A m \in Manuals : \A k \in KeysOf(m) : \A s \in Slots(m) : bySlot'[m][k][s] = 0
    BY <1>1 DEF NoSlots
  <1>3. \A c \in Couplers : \A k \in KeysOf(Source(c)) : input'[c][k] = 0
    BY <1>1 DEF NoInput
  <1>4. \A c \in KeyCouplers : \A n \in KeysOf(Dest[c]) : internal'[c][n] = 0 /\ out'[c][n] = 0
    BY <1>1 DEF NoOutput
  <1>5. TakenInv'
    <2> SUFFICES ASSUME NEW c \in Couplers, NEW k \in KeysOf(Source(c))
                 PROVE  IF k \in Coupled(c) THEN input'[c][k] = Taken(c, k)' ELSE input'[c][k] = 0
      BY DEF TakenInv
    <2>1. \A s \in Slots(Source(c)) : bySlot'[Source(c)][k][s] = 0
      BY <1>2, Home
    <2> DEFINE A == {0} \union {bySlot'[Source(c)][k][s] : s \in {s \in Slots(Source(c)) : MayFollow(c, s)'}}
    <2>2. A = {0}
      BY <2>1
    <2>3. Taken(c, k)' = SetMax(A)
      BY DEF Taken
    <2> HIDE DEF A
    <2>4. SetMax(A) = 0
      BY <2>2, HighestIs
    <2> QED  BY <1>3, <2>3, <2>4
  <1>6. OutInv'
    <2> SUFFICES ASSUME NEW c \in KeyCouplers, NEW n \in KeysOf(Dest[c])
                 PROVE  /\ bySlot'[Dest[c]][n][c] = out'[c][n]
                        /\ out'[c][n] = IF engaged'[c] THEN Decrement(internal'[c][n]) ELSE 0
      BY DEF OutInv, Decrement
    <2>1. Dest[c] \in Manuals /\ c \in Slots(Dest[c])
      BY Keyboards DEF Slots
    <2> QED  BY <1>2, <1>4, <2>1 DEF Decrement
  <1>7. SaidInv'
    BY <1>1 DEF SaidInv
  <1>8. OwnInv'
    <2> SUFFICES ASSUME NEW m \in Manuals, NEW k \in KeysOf(m) PROVE bySlot'[m][k][Own] = OwnLevel(m, k)'
      BY <1>1 DEF OwnInv
    <2>1. k \in Playable[m] => midiKey'[m][k] = 0
      BY <1>1 DEF NoMidiKeys
    <2>2. OwnLevel(m, k)' = 0
      BY <2>1 DEF OwnLevel
    <2>3. Own \in Slots(m)
      BY Keyboards
    <2> QED  BY <1>2, <2>2, <2>3
  <1>9. TonesInv'
    <2> SUFFICES ASSUME NEW c \in KeyCouplers PROVE TonesOf(c)'
      BY DEF TonesInv
    <2>1. \A n \in KeysOf(Dest[c]) : internal'[c][n] = Sent(c, n)'
      <3>1. c \in Couplers
        BY Keyboards
      <3> QED  BY <1>3, <1>4, <3>1 DEF Sent
    <2>2. Kind[c] # "normal" => tone'[c] = -1
      <3>1. \A x \in Pending : x.op = "Prepare"
        BY <1>1 DEF PrepareCall
      <3>2. ASSUME NEW m \in Manuals, NEW k \in Playable[m] PROVE midiKey[m][k] = 0
        <4>1. NoteCall(m, k, 0).op = "Note" /\ AllOffCall(m).op = "AllOff"
          BY DEF NoteCall, AllOffCall
        <4> QED  BY <1>1, <3>1, <4>1 DEF OwnInv
      <3> QED  BY <1>1, <3>1, <3>2, AllReleased
    <2> QED  BY <1>1, <2>1, <2>2 DEF TonesOf, Steady
  <1> QED  BY <1>5, <1>6, <1>7, <1>8, <1>9

-----------------------------------------------------------------------------
(* When a handler returns, the couplers agree *)

SettledInv == TakenInv /\ OutInv /\ SaidInv /\ OwnInv /\ TonesInv

\* Stops, divisions and unison off leave the couplers alone, and so do ...
LEMMA SettledKept ==
  ASSUME TypeInv, SettledInv,
         UNCHANGED <<midiKey, bySlot, flags, input, internal, out, engaged, tone>>, calls # <<>>,
         Call.op \in {"Division", "Unison", "Last", "RankKey", "Ranks", "StopKey"},
         NEW made, Made(made), \A x \in made : x.op \in {"Division", "RankKey", "Ranks", "StopKey"}
  PROVE  SettledInv'
  <1>1. \A x : x.op \notin {"Division", "Unison", "Last", "RankKey", "Ranks", "StopKey"} =>
                 (x \in Pending <=> x \in Pending')
    BY DEF Made
  <1>2. TakenInv'
    BY <1>1, TakenKept DEF SettledInv
  <1>3. OutInv' /\ SaidInv'
    BY <1>1, OutKept DEF SettledInv
  <1>4. OwnInv'
    BY <1>1, OwnKept DEF SettledInv, OfPlayer
  <1>5. TonesInv'
    BY TonesKept DEF SettledInv
  <1> QED  BY <1>2, <1>3, <1>4, <1>5 DEF SettledInv

\* ... the player and the organist, until something is called.
LEMMA SettledAtRest ==
  ASSUME SettledInv, UNCHANGED <<midiKey, bySlot, flags, input, internal, out, engaged, tone>>,
         calls = <<>>, \A x \in Pending' : x.op \in {"Note", "Through", "Ranks"}
  PROVE  SettledInv'
  <1>1. Pending = {}
    BY EmptyToSet DEF Pending
  <1>2. TakenInv'
    BY <1>1, TakenKept DEF SettledInv
  <1>3. OutInv' /\ SaidInv'
    BY <1>1, OutKept DEF SettledInv
  <1>4. OwnInv'
    BY OwnAtRest DEF SettledInv
  <1>5. TonesInv'
    BY TonesAtRest DEF SettledInv
  <1> QED  BY <1>2, <1>3, <1>4, <1>5 DEF SettledInv

\* A handler of the keys, step by step.
LEMMA SettledByKeys ==
  ASSUME TypeInv, SettledInv, WindowInv, NoBassCircle, SetKeyState \/ SetKey \/ SetTone \/ SetOut
  PROVE  SettledInv'
  <1> USE DEF SettledInv
  <1>1. CASE SetKeyState
    <2>1. calls # <<>> /\ Call.op = "Key" /\ UNCHANGED <<input, tone, internal>>
      BY <1>1, SetKeyStateStep DEF SetKeyState, Doing, couplerVars
    <2>2. \E made : Made(made) /\ \A x \in made : x.op \in {"SetKey", "Division"}
      BY <1>1, SetKeyStateStep DEF CouplerCall, DivisionCall
    <2>3. TonesInv'
      BY <2>1, <2>2, TonesKept
    <2> QED  BY <1>1, <2>3, TakenFromManual, OutInSlot, OwnInSlot
  <1>2. CASE SetKey
    <2>1. Call.op = "SetKey" /\ UNCHANGED <<midiKey, bySlot, internal, out, engaged>>
      BY <1>2, SetKeyStep DEF SetKey, Doing, manualVars
    <2>2. PICK made : Made(made) /\ \A x \in made : x.op \in {"SetOut", "Tone"}
      BY <1>2, SetKeyStep DEF OutCall, ToneCall
    <2>3. OutInv' /\ SaidInv'
      BY <2>1, <2>2, OutKept DEF Made
    <2>4. OwnInv'
      BY <2>1, <2>2, OwnKept DEF Made, OfPlayer
    <2> QED  BY <1>2, <2>3, <2>4, TakenByCoupler, TonesSetKey
  <1>3. CASE SetTone
    <2>1. Call.op = "Tone" /\ UNCHANGED <<midiKey, bySlot, flags, input, internal, out, engaged>>
      BY <1>3, SetToneStep DEF SetTone, Doing, manualVars
    <2>2. PICK made : Made(made) /\ \A x \in made : x.op \in {"SetOut", "Last"}
      BY <1>3, SetToneStep DEF OutCall, LastCall
    <2>3. TakenInv'
      BY <2>1, <2>2, TakenKept DEF Made
    <2>4. OutInv' /\ SaidInv'
      BY <2>1, <2>2, OutKept DEF Made
    <2>5. OwnInv'
      BY <2>1, <2>2, OwnKept DEF Made, OfPlayer
    <2> QED  BY <1>3, <2>3, <2>4, <2>5, TonesSetTone
  <1>4. CASE SetOut
    <2> DEFINE c == Call.at
               x == KeyCall(Dest[c], Call.key, Decrement(Call.vel), c)
    <2>1. Call.op = "SetOut" /\ c \in KeyCouplers /\ UNCHANGED <<midiKey, bySlot, flags, input>>
      BY <1>4, SetOutStep DEF SetOut, Doing, manualVars
    <2>2. x.op = "Key" /\ x.slot = c /\ c # Own
      BY <2>1, Keyboards, CouplersAssumption DEF KeyCall
    <2> HIDE DEF x
    <2>3. PICK made \in {{}, {x}} : Made(made)
      <3>1. engaged[c] \in BOOLEAN
        BY <2>1, Keyboards DEF TypeInv, KeysTypeOK
      <3> QED  BY <1>4, <3>1, SetOutStep DEF x
    <2>4. TakenInv'
      BY <2>1, <2>3, TakenKept DEF Made
    <2>5. OwnInv'
      BY <2>1, <2>2, <2>3, OwnKept DEF Made, OfPlayer
    <2> QED  BY <1>4, <2>4, <2>5, OutSet, TonesSetOut
  <1> QED  BY <1>1, <1>2, <1>3, <1>4

\* The handlers that start a chain of such calls.
LEMMA SettledByOthers ==
  ASSUME TypeInv, SettledInv,
         Note \/ AllNotesOff \/ Emit \/ CoupleThrough \/ Refresh \/ Prepare
  PROVE  SettledInv'
  <1> USE DEF SettledInv
  <1>1. CASE Note
    <2> DEFINE x == KeyCall(Call.at, Call.key, IF Call.vel = 0 THEN 0 ELSE 4 * Call.vel + 3, Own)
    <2>1. calls # <<>> /\ Call.op = "Note" /\ UNCHANGED <<bySlot, flags, input, internal, out, engaged, tone>>
      BY <1>1, NoteStep DEF Note, Doing, couplerVars
    <2>2. x.op = "Key" /\ x.slot = Own
      BY DEF KeyCall
    <2>3. PICK made \in {{}, {x}} : Made(made)
      BY <1>1, NoteStep
    <2> HIDE DEF x
    <2>4. TakenInv'
      BY <2>1, <2>3, TakenKept DEF Made
    <2>5. OutInv' /\ SaidInv'
      BY <2>1, <2>2, <2>3, OutKept DEF Made
    <2>6. TonesInv'
      BY <2>1, <2>2, <2>3, TonesKept
    <2> QED  BY <1>1, <2>4, <2>5, <2>6, OwnPlayed
  <1>2. CASE AllNotesOff
    <2>1. calls # <<>> /\ Call.op = "AllOff" /\ UNCHANGED <<bySlot, flags, input, internal, out, engaged, tone>>
      BY <1>2, AllNotesOffStep DEF AllNotesOff, Doing, couplerVars, manualVars
    <2>2. PICK made : Made(made) /\ \A x \in made : x.op = "Note"
      BY <1>2, AllNotesOffStep DEF NoteCall
    <2>3. TakenInv'
      BY <2>1, <2>2, TakenKept DEF Made
    <2>4. OutInv' /\ SaidInv'
      BY <2>1, <2>2, OutKept DEF Made
    <2>5. TonesInv'
      BY <2>1, <2>2, TonesKept
    <2> QED  BY <1>2, <2>3, <2>4, <2>5, OwnReleased
  <1>3. CASE Emit
    <2> DEFINE c == Call.at
               x == KeyCall(Dest[c], Call.key, IF Call.on THEN Decrement(internal[c][Call.key]) ELSE 0, c)
    <2>1. /\ calls # <<>> /\ Call.op = "Emit" /\ c \in KeyCouplers
          /\ UNCHANGED <<midiKey, bySlot, flags, input, internal, engaged, tone>>
      BY <1>3, EmitStep DEF Emit, Doing, manualVars
    <2>2. x.op = "Key" /\ x.slot = c /\ c # Own
      BY <2>1, Keyboards, CouplersAssumption DEF KeyCall
    <2>3. PICK made \in {{}, {x}} : Made(made)
      BY <1>3, EmitStep
    <2> HIDE DEF x
    <2>4. TakenInv'
      BY <2>1, <2>3, TakenKept DEF Made
    <2>5. OwnInv'
      BY <2>1, <2>2, <2>3, OwnKept DEF Made, OfPlayer
    <2>6. TonesInv'
      BY <2>1, <2>2, <2>3, TonesKept
    <2> QED  BY <1>3, <2>4, <2>5, <2>6, OutEmitted
  <1>4. CASE CoupleThrough
    <2>1. /\ calls # <<>> /\ Call.op = "Through"
          /\ UNCHANGED <<midiKey, bySlot, input, internal, out, engaged, tone>>
      BY <1>4, CoupleThroughStep DEF CoupleThrough, Doing, manualVars
    <2>2. PICK made : Made(made) /\ \A x \in made : x.op \in {"Unison", "Refresh"}
      BY <1>4, CoupleThroughStep DEF UnisonCall, RefreshCall
    <2>3. OutInv' /\ SaidInv'
      BY <2>1, <2>2, OutKept DEF Made
    <2>4. OwnInv'
      BY <2>1, <2>2, OwnKept DEF Made, OfPlayer
    <2>5. TonesInv'
      BY <2>1, <2>2, TonesKept
    <2> QED  BY <1>4, <2>3, <2>4, <2>5, TakenThrough
  <1>5. CASE Refresh
    <2>1. /\ calls # <<>> /\ Call.op = "Refresh"
          /\ UNCHANGED <<midiKey, bySlot, flags, input, internal, out, engaged, tone>>
      BY <1>5, RefreshStep DEF Refresh, Doing, manualVars, couplerVars
    <2>2. PICK made : Made(made) /\ \A x \in made : x.op = "SetKey"
      BY <1>5, RefreshStep DEF CouplerCall
    <2>3. OutInv' /\ SaidInv'
      BY <2>1, <2>2, OutKept DEF Made
    <2>4. OwnInv'
      BY <2>1, <2>2, OwnKept DEF Made, OfPlayer
    <2>5. TonesInv'
      BY <2>1, <2>2, TonesKept
    <2> QED  BY <1>5, <2>3, <2>4, <2>5, TakenAgain
  <1>6. CASE Prepare
    BY <1>6, CouplersPrepared
  <1> QED  BY <1>1, <1>2, <1>3, <1>4, <1>5, <1>6

LEMMA StepSettled ==
  ASSUME TypeInv, PipeInv, SettledInv, WindowInv, NoBassCircle, [KeysNext]_keyVars
  PROVE  SettledInv'
  <1>1. CASE SetKeyState \/ SetKey \/ SetTone \/ SetOut
    BY <1>1, SettledByKeys
  <1>2. CASE Note \/ AllNotesOff \/ Emit \/ CoupleThrough \/ Refresh \/ Prepare
    BY <1>2, SettledByOthers
  <1>3. CASE SetDivisionKeyState
    <2>1. /\ calls # <<>> /\ Call.op = "Division"
          /\ UNCHANGED <<midiKey, bySlot, flags, input, internal, out, engaged, tone>>
      BY <1>3 DEF SetDivisionKeyState, Doing, couplerVars
    <2>2. \E made : Made(made) /\ \A x \in made : x.op = "StopKey"
      BY <1>3, SetDivisionKeyStateStep DEF StopKeyCall
    <2> QED  BY <2>1, <2>2, SettledKept
  <1>4. CASE SetUnisonOff
    <2>1. /\ calls # <<>> /\ Call.op = "Unison"
          /\ UNCHANGED <<midiKey, bySlot, flags, input, internal, out, engaged, tone>>
      BY <1>4 DEF SetUnisonOff, Doing, couplerVars
    <2>2. \E made : Made(made) /\ \A x \in made : x.op = "Division"
      BY <1>4, SetUnisonOffStep DEF DivisionCall
    <2> QED  BY <2>1, <2>2, SettledKept
  <1>5. CASE SetLast
    <2>1. /\ calls # <<>> /\ Call.op = "Last"
          /\ UNCHANGED <<midiKey, bySlot, flags, input, internal, out, engaged, tone>>
      BY <1>5 DEF SetLast, Doing, manualVars
    <2>2. Made({})
      BY <1>5, SetLastStep
    <2> QED  BY <2>1, <2>2, SettledKept
  <1>6. CASE RankKey /\ UNCHANGED <<couplerVars, manualVars>>
    <2>1. /\ calls # <<>> /\ Call.op = "RankKey"
          /\ UNCHANGED <<midiKey, bySlot, flags, input, internal, out, engaged, tone>>
      BY <1>6 DEF RankKey, Doing, manualVars, couplerVars
    <2>2. Made({})
      BY <1>6, RankKeyStep
    <2> QED  BY <2>1, <2>2, SettledKept
  <1>7. CASE SetRankKeyState /\ UNCHANGED <<couplerVars, manualVars>>
    <2>1. /\ calls # <<>> /\ Call.op = "Ranks"
          /\ UNCHANGED <<midiKey, bySlot, flags, input, internal, out, engaged, tone>>
      BY <1>7 DEF SetRankKeyState, Doing, manualVars, couplerVars
    <2>2. \E made : Made(made) /\ \A x \in made : x.op = "RankKey"
      BY <1>7, SetRankKeyStateStep DEF RankKeyCall
    <2> QED  BY <2>1, <2>2, SettledKept
  <1>8. CASE StopKey /\ UNCHANGED <<couplerVars, manualVars>>
    <2>1. /\ calls # <<>> /\ Call.op = "StopKey"
          /\ UNCHANGED <<midiKey, bySlot, flags, input, internal, out, engaged, tone>>
      BY <1>8 DEF StopKey, Doing, manualVars, couplerVars
    <2>2. stopOn[Call.at] \in BOOLEAN
      BY <1>8, StopKeyStep DEF TypeInv, KeysTypeOK, StopsTypeOK
    <2>3. \E made : Made(made) /\ \A x \in made : x.op = "Ranks"
      BY <1>8, <2>2, StopKeyStep DEF RanksCall
    <2> QED  BY <2>1, <2>3, SettledKept
  <1>9. ASSUME NEW m \in Manuals, NEW k \in Playable[m], NEW v \in Velocities \union {0}, PlayKey(m, k, v)
        PROVE  SettledInv'
    <2>1. calls = <<>> /\ UNCHANGED <<midiKey, bySlot, flags, input, internal, out, engaged, tone>>
      BY <1>9 DEF PlayKey, manualVars, couplerVars
    <2>2. \A x \in Pending' : x.op = "Note"
      BY <1>9, PlayKeyStep DEF NoteCall
    <2> QED  BY <2>1, <2>2, SettledAtRest
  <1>10. ASSUME NEW c \in Couplers, SwitchCoupler(c) PROVE SettledInv'
    <2>1. calls = <<>> /\ UNCHANGED <<midiKey, bySlot, flags, input, internal, out, tone>>
      BY <1>10 DEF SwitchCoupler, manualVars
    <2>2. \A x \in Pending' : x.op \in {"Unison", "Emit"}
      BY <1>10, SwitchCouplerStep DEF UnisonCall, EmitCall
    <2>3. Pending = {}
      BY <2>1, EmptyToSet DEF Pending
    <2>4. TakenInv'
      BY <2>1, <2>3, TakenKept DEF SettledInv
    <2>5. OutInv' /\ SaidInv'
      BY <1>10, OutSwitched DEF SettledInv
    <2>6. OwnInv'
      BY <2>1, <2>2, OwnAtRest DEF SettledInv
    <2>7. TonesInv'
      BY <2>1, <2>2, TonesAtRest DEF SettledInv
    <2> QED  BY <2>4, <2>5, <2>6, <2>7 DEF SettledInv
  <1>11. ASSUME NEW b \in Buttons, PressThrough(b) PROVE SettledInv'
    <2>1. calls = <<>> /\ UNCHANGED <<midiKey, bySlot, flags, input, internal, out, engaged, tone>>
      BY <1>11 DEF PressThrough, manualVars
    <2>2. \A x \in Pending' : x.op = "Through"
      BY <1>11, PressThroughStep
    <2> QED  BY <2>1, <2>2, SettledAtRest
  <1>12. ASSUME NEW s \in Stops, SwitchStop(s), UNCHANGED <<couplerVars, manualVars>>
         PROVE  SettledInv'
    <2>1. calls = <<>> /\ UNCHANGED <<midiKey, bySlot, flags, input, internal, out, engaged, tone>>
      BY <1>12 DEF SwitchStop, manualVars, couplerVars
    <2>2. \A x \in Pending' : x.op = "Ranks"
      BY <1>12, SwitchStopStep DEF RanksCall
    <2> QED  BY <2>1, <2>2, SettledAtRest
  <1>13. CASE Restart
    <2>1. calls = <<>> /\ UNCHANGED <<midiKey, bySlot, flags, input, internal, out, engaged, tone>>
      BY <1>13 DEF Restart, manualVars, couplerVars
    <2>2. \A x \in Pending' : x.op \in {"AllOff", "Prepare"}
      BY <1>13, RestartStep DEF AllOffCall, PrepareCall
    <2>3. Pending = {}
      BY <2>1, EmptyToSet DEF Pending
    <2>4. TakenInv'
      BY <2>1, <2>3, TakenKept DEF SettledInv
    <2>5. OutInv' /\ SaidInv'
      BY <2>1, <2>2, <2>3, OutKept DEF SettledInv
    <2>6. OwnInv'
      BY <1>13, OwnStopped DEF SettledInv
    <2>7. TonesInv'
      BY <2>1, <2>2, TonesAtRest DEF SettledInv
    <2> QED  BY <2>4, <2>5, <2>6, <2>7 DEF SettledInv
  <1>14. CASE UNCHANGED keyVars
    <2>1. UNCHANGED <<calls, midiKey, bySlot, flags, input, internal, out, engaged, tone>>
      BY <1>14 DEF keyVars, couplerVars, manualVars
    <2>2. Pending' = Pending /\ Call' = Call
      BY <2>1 DEF Pending, Call
    <2>3. TakenInv'
      BY <2>1, <2>2, TakenKept DEF SettledInv
    <2>4. OutInv' /\ SaidInv'
      BY <2>1, <2>2, OutKept DEF SettledInv
    <2>5. OwnInv'
      BY <2>1, <2>2, OwnKept DEF SettledInv
    <2>6. ASSUME NEW c \in KeyCouplers PROVE TonesOf(c)'
      <3>1. TonesOf(c)
        BY DEF SettledInv, TonesInv
      <3> QED  BY <2>1, <2>2, <3>1 DEF TonesOf, Steady, Between, Sent, First
    <2> QED  BY <2>3, <2>4, <2>5, <2>6 DEF SettledInv, TonesInv
  <1> QED  BY <1>1, <1>2, <1>3, <1>4, <1>5, <1>6, <1>7, <1>8, <1>9, <1>10, <1>11, <1>12, <1>13,
             <1>14 DEF KeysNext, Handle

LEMMA KeysInitSettled == KeysInit => SettledInv /\ WindowInv
  <1> SUFFICES ASSUME KeysInit PROVE SettledInv /\ WindowInv
    OBVIOUS
  <1>1. calls = <<>> /\ Pending = {}
    BY EmptyToSet DEF KeysInit, Pending
  <1>2. /\ \A m \in Manuals : \A k \in KeysOf(m) : \A s \in Slots(m) : bySlot[m][k][s] = 0
        /\ \A m \in Manuals : \A k \in Playable[m] : midiKey[m][k] = 0
        /\ \A c \in Couplers : \A k \in KeysOf(Source(c)) : input[c][k] = 0
        /\ \A c \in KeyCouplers : tone[c] = -1
    BY DEF KeysInit, NoSlots, NoMidiKeys, NoInput
  <1>3. ASSUME NEW c \in KeyCouplers, NEW n \in KeysOf(Dest[c])
        PROVE  /\ internal[c][n] = 0 /\ out[c][n] = 0 /\ bySlot[Dest[c]][n][c] = 0
               /\ engaged[c] = FALSE
    <2>1. c \in Couplers /\ Dest[c] \in Manuals /\ c \in Slots(Dest[c])
      BY Keyboards DEF Slots
    <2> QED  BY <1>2, <2>1 DEF KeysInit, NoOutput
  <1>4. TakenInv
    <2> SUFFICES ASSUME NEW c \in Couplers, NEW k \in KeysOf(Source(c))
                 PROVE  input[c][k] = 0 /\ Taken(c, k) = 0
      BY DEF TakenInv
    <2>1. Source(c) \in Manuals
      BY Home
    <2>2. \A s \in Slots(Source(c)) : bySlot[Source(c)][k][s] = 0
      BY <1>2, <2>1
    <2> QED  BY <1>2, <2>2, TakenNothing
  <1>5. OutInv /\ SaidInv
    BY <1>1, <1>3 DEF OutInv, SaidInv, Decrement
  <1>6. OwnInv
    BY <1>1, <1>2, Keyboards DEF OwnInv, OwnLevel
  <1>7. TonesInv
    BY <1>1, <1>2, <1>3 DEF TonesInv, TonesOf, Steady, Sent, KeyCouplers
  <1>8. WindowInv
    BY <1>1 DEF WindowInv
  <1> QED  BY <1>4, <1>5, <1>6, <1>7, <1>8 DEF SettledInv

CouplersInv == TypeInv /\ PipeInv /\ WindowInv /\ SettledInv

LEMMA CouplersInvariant == KeysSpec /\ []NoBassCircle => []CouplersInv
  <1>1. KeysInit => CouplersInv
    BY KeysInitTypes, KeysInitSettled DEF CouplersInv
  <1>2. CouplersInv /\ NoBassCircle /\ [KeysNext]_keyVars => CouplersInv'
    BY StepTypes, StepWindow, StepSettled DEF CouplersInv
  <1> QED  BY <1>1, <1>2, PTL DEF KeysSpec

\* As long as no bass or melody coupler is in a circle of engaged couplers: whenever
\* a handler has returned, every coupler has taken what it may follow, passes it on if
\* it is engaged, and the destination knows. (GOCoupler::SetKey, SetOut,
\* OnDrawstopStateChanged, RefreshState)
THEOREM CouplersSettledAlways == KeysSpec /\ []NoBassCircle => []CouplersSettled
  <1>1. CouplersInv => CouplersSettled
    <2> SUFFICES ASSUME CouplersInv, calls = <<>>, NEW c \in KeyCouplers
                 PROVE  /\ \A k \in KeysOf(Source(c)) :
                             input[c][k] = IF k \in Coupled(c) THEN Taken(c, k) ELSE 0
                        /\ \A n \in KeysOf(Dest[c]) :
                             /\ bySlot[Dest[c]][n][c] = IF engaged[c] THEN Decrement(internal[c][n]) ELSE 0
                             /\ internal[c][n] = Sent(c, n)
      BY DEF CouplersSettled, AtRest, Sent
    <2>1. Pending = {} /\ c \in Couplers
      BY EmptyToSet, Keyboards DEF Pending
    <2>2. \A k \in KeysOf(Source(c)) : input[c][k] = IF k \in Coupled(c) THEN Taken(c, k) ELSE 0
      BY <2>1 DEF CouplersInv, SettledInv, TakenInv
    <2>3. \A n \in KeysOf(Dest[c]) :
            bySlot[Dest[c]][n][c] = IF engaged[c] THEN Decrement(internal[c][n]) ELSE 0
      BY <2>1, OutAtRest DEF CouplersInv, SettledInv
    <2>4. \A n \in KeysOf(Dest[c]) : internal[c][n] = Sent(c, n)
      BY <2>1 DEF CouplersInv, SettledInv, TonesInv, TonesOf, Steady
    <2> QED  BY <2>2, <2>3, <2>4
  <1> QED  BY <1>1, CouplersInvariant, PTL

\* Under the same condition a bass (melody) coupler passes on the lowest (highest) key
\* that it takes, or none, never an inner voice. (GOCoupler::ChangeKey)
THEOREM OuterVoiceAlways == KeysSpec /\ []NoBassCircle => []OuterVoice
  <1>1. CouplersInv => OuterVoice
    <2> SUFFICES ASSUME CouplersInv, calls = <<>>, NEW c \in KeyCouplers, Kind[c] # "normal"
                 PROVE  tone[c] \in {-1, NextPressed(c, input[c], -1)}
      BY DEF OuterVoice, AtRest
    <2>1. Pending = {}
      BY EmptyToSet DEF Pending
    <2> QED  BY <2>1 DEF CouplersInv, SettledInv, TonesInv, TonesOf, Steady, First
  <1> QED  BY <1>1, CouplersInvariant, PTL

\* Under the same condition, once the player has released every key and all handlers
\* have returned, no key of any manual is pressed and no stop hears one, even if
\* couplers lead in a circle: each of them takes a level. (GOCoupler::SetOut)
THEOREM SilentAlways ==
  ASSUME FewUnisons
  PROVE  KeysSpec /\ []NoBassCircle => []SilentWhenReleased
  <1> DEFINE Inv == CouplersInv /\ HearsInv
  <1>1. KeysInit => Inv
    BY KeysInitTypes, KeysInitSettled, KeysInitHears DEF CouplersInv
  <1>2. Inv /\ NoBassCircle /\ [KeysNext]_keyVars => Inv'
    BY StepTypes, StepWindow, StepSettled, StepHears DEF CouplersInv
  <1>3. Inv => SilentWhenReleased
    <2> SUFFICES ASSUME Inv, calls = <<>>, \A m \in Manuals : \A k \in Playable[m] : midiKey[m][k] = 0,
                        NEW m \in Manuals, NEW k \in KeysOf(m)
                 PROVE  Velocity(m, k) = 0 /\ division[m][k] = 0
      BY DEF SilentWhenReleased, AtRest
    <2>1. Pending = {}
      BY EmptyToSet DEF Pending
    <2>2. \A s \in Slots(m) : bySlot[m][k][s] = 0
      BY <2>1, AllReleased DEF CouplersInv, SettledInv
    <2>3. Velocity(m, k) = 0 /\ Remote(m, k) = 0
      <3> DEFINE A == {bySlot[m][k][s] : s \in Slots(m)}
                 B == {0} \union {bySlot[m][k][s] : s \in Slots(m) \ {Own}}
      <3>1. A = {0} /\ B = {0}
        BY <2>2, Keyboards
      <3>2. Velocity(m, k) = SetMax(A) /\ Remote(m, k) = SetMax(B)
        BY DEF Velocity, Remote
      <3> HIDE DEF A, B
      <3> QED  BY <3>1, <3>2, HighestIs
    <2>4. division[m][k] \in Hears(m, k)
      BY <2>1 DEF HearsInv, DivisionInv
    <2> QED  BY <2>3, <2>4 DEF Hears, EitherWay, Sounding
  <1> QED  BY <1>1, <1>2, <1>3, PTL DEF KeysSpec

-----------------------------------------------------------------------------
(* The MIDI player and its timers *)

Intervals  == Beats \union {0}
EntryTypes == [time : Int, callback : {Player, Metronome, NoCallback}, interval : Intervals]

LEMMA IntervalType == Intervals \subseteq Nat /\ 0 \in Intervals /\ Beats \subseteq Intervals
  BY MidiPlayerAssumption DEF Intervals

Flags == /\ isPlaying \in BOOLEAN
         /\ pause \in BOOLEAN
         /\ handling \in BOOLEAN
         /\ running \in BOOLEAN

Types ==
  /\ now \in Nat /\ start \in Int /\ since \in Int /\ seconds \in Int /\ played \in Int
  /\ asOf \in Int
  /\ pos \in Nat \ {0}
  /\ beat \in Beats
  /\ entries \in Seq(EntryTypes)

NoneOf(c, es) == \A i \in DOMAIN es : es[i].callback # c

\* A player that is in HandleTimer() plays, is at an event of the file, and has
\* read a clock that is not ahead of the present one.
HandlingInv ==
  /\ isPlaying => pos <= NEvents
  /\ handling => isPlaying /\ ~pause /\ since <= now

\* A pausing player waits for no timer.
PauseInv == isPlaying /\ pause => NoneOf(Player, entries)

\* m_Start is the moment at which the file would have begun without pauses;
\* while it pauses, how much of it has been played.
StartMeasures == isPlaying => played = IF pause THEN start ELSE now - start

PlayInv == HandlingInv /\ StartMeasures /\ NotBeforeItsTime

IInv == Flags /\ Types /\ PlayInv /\ PauseInv

-----------------------------------------------------------------------------
\* A file has events, and they have times.
LEMMA File == NEvents \in Nat /\ NEvents >= 1 /\ \A k \in 1 .. NEvents : Times[k] \in Nat
  BY MidiPlayerAssumption DEF NEvents

\* DeleteTimer() leaves no entry of the callback, and makes none of another.
LEMMA WithoutTimerFacts ==
  ASSUME NEW es \in Seq(EntryTypes), NEW c \in {Player, Metronome}
  PROVE  /\ WithoutTimer(es, c) \in Seq(EntryTypes)
         /\ NoneOf(c, WithoutTimer(es, c))
         /\ \A d \in {Player, Metronome} : NoneOf(d, es) => NoneOf(d, WithoutTimer(es, c))
  <1> DEFINE freed == WithoutTimer(es, c)
  <1>1. DOMAIN es = 1 .. Len(es) /\ Len(es) \in Nat /\ DOMAIN freed = DOMAIN es
    BY DEF WithoutTimer
  <1>2. ASSUME NEW i \in DOMAIN es
        PROVE  /\ freed[i] \in EntryTypes
               /\ freed[i].callback # c
               /\ freed[i].callback \in {es[i].callback, NoCallback}
    <2>1. es[i] \in EntryTypes
      BY <1>2
    <2>2. CASE es[i].callback = c
      <3>1. freed[i] = [es[i] EXCEPT !.callback = NoCallback]
        BY <1>2, <2>2 DEF WithoutTimer
      <3>2. QED
        BY <2>1, <3>1 DEF EntryTypes, Player, Metronome, NoCallback
    <2>3. CASE es[i].callback # c
      <3>1. freed[i] = es[i]
        BY <1>2, <2>3 DEF WithoutTimer
      <3>2. QED
        BY <2>1, <2>3, <3>1
    <2>4. QED
      BY <2>2, <2>3
  <1>3. freed \in Seq(EntryTypes)
    BY <1>1, <1>2 DEF WithoutTimer
  <1>4. QED
    BY <1>1, <1>2, <1>3 DEF NoneOf, Player, Metronome, NoCallback

\* SetTimer() makes an entry of its callback only.
LEMMA WithTimerFacts ==
  ASSUME NEW es \in Seq(EntryTypes), NEW e \in EntryTypes
  PROVE  /\ WithTimer(es, e) \in Seq(EntryTypes)
         /\ \A c : c # e.callback /\ NoneOf(c, es) => NoneOf(c, WithTimer(es, e))
  <1> DEFINE free == DOMAIN es \ Live(es)
  <1>1. CASE free = {}
    BY <1>1 DEF WithTimer, NoneOf
  <1>2. CASE free # {}
    <2>1. WithTimer(es, e) = [es EXCEPT ![Least(free)] = e]
      BY <1>2 DEF WithTimer
    <2>2. ASSUME NEW j
          PROVE  [es EXCEPT ![j] = e] \in Seq(EntryTypes)
      <3>1. es \in [1 .. Len(es) -> EntryTypes] /\ Len(es) \in Nat
        BY LenProperties
      <3>2. [es EXCEPT ![j] = e] \in [1 .. Len(es) -> EntryTypes]
        BY <3>1
      <3>3. QED
        BY <3>1, <3>2, SeqDef
    <2>3. ASSUME NEW c, c # e.callback, NoneOf(c, es)
          PROVE  NoneOf(c, [es EXCEPT ![Least(free)] = e])
      BY <2>3 DEF NoneOf
    <2>4. QED
      BY <2>1, <2>2, <2>3
  <1>3. QED
    BY <1>1, <1>2

\* Setting the entry of the walk again, or freeing it, keeps its callback or
\* leaves none.
LEMMA ReturnFacts ==
  ASSUME NEW es \in Seq(EntryTypes), NEW w, asOf \in Int
  PROVE  LET after == [es EXCEPT ![w] = AfterCall(@)]
         IN  /\ after \in Seq(EntryTypes)
             /\ \A c \in {Player, Metronome} : NoneOf(c, es) => NoneOf(c, after)
  <1>1. CASE w \notin DOMAIN es
    <2>1. es \in [1 .. Len(es) -> EntryTypes] /\ Len(es) \in Nat
      BY LenProperties
    <2>2. \A e : [es EXCEPT ![w] = e] = es
      BY <1>1, <2>1
    <2>3. QED
      BY <2>2
  <1>2. CASE w \in DOMAIN es
    <2>1. es[w] \in EntryTypes
      BY <1>2
    <2>2. NextTime(es[w]) \in Int
      <3>1. es[w].interval \in Nat /\ es[w].time \in Int
        BY IntervalType, <2>1 DEF EntryTypes
      <3>2. QED
        BY <3>1 DEF NextTime
    <2>3. /\ AfterCall(es[w]) \in EntryTypes
          /\ AfterCall(es[w]).callback \in {es[w].callback, NoCallback}
      BY <2>1, <2>2 DEF AfterCall, EntryTypes
    <2>4. QED
      BY <1>2, <2>1, <2>3 DEF NoneOf, Player, Metronome, NoCallback
  <1>3. QED
    BY <1>1, <1>2

LEMMA InitIInv == Init => IInv
  <1>1. Init => now = 0 /\ entries = << >> /\ asOf = 0
    BY DEF Init, TimerInit
  <1>2. Init => Flags
    BY DEF Init, Flags
  <1>3. Init => Types
    BY <1>1 DEF Init, Types
  <1>4. Init => PlayInv /\ PauseInv
    BY DEF Init, PlayInv, PauseInv, HandlingInv, StartMeasures, NotBeforeItsTime
  <1>5. QED
    BY <1>2, <1>3, <1>4 DEF IInv

-----------------------------------------------------------------------------
USE MidiPlayerAssumption DEF IInv, playerVars, metronomeVars, timerVars, Return

LEMMA FlagsStep == ASSUME IInv, Next PROVE Flags'
  <1> USE DEF Flags
  <1>1. CASE TimePasses \/ TimerWalks
    BY <1>1 DEF TimePasses, Tick, TimerWalks
  <1>2. CASE User
    BY <1>2 DEF User, Play, Stop, Pause, GoOn, PressMetronome, UpdateBPM, MetronomeOn, Begin
  <1>3. CASE Handlers
    BY <1>3 DEF Handlers, HandleTimer, PlayEvent, LastEvent, WaitForEvent, BeatSounds,
                MetronomeOn, Begin, Leave
  <1>4. QED
    BY <1>1, <1>2, <1>3 DEF Next

\* The ON button of the metronome and its tempo touch the entries of the
\* metronome only.
LEMMA MetronomeFacts ==
  ASSUME IInv, MetronomeOn
  PROVE  entries' \in Seq(EntryTypes) /\ (NoneOf(Player, entries) => NoneOf(Player, entries'))
  <1> USE DEF Types
  <1> DEFINE without == WithoutTimer(entries, Metronome)
             set == WithTimer(without, Entry(0, Metronome, beat))
  <1>1. without \in Seq(EntryTypes) /\ (NoneOf(Player, entries) => NoneOf(Player, without))
    BY WithoutTimerFacts
  <1>2. Entry(0, Metronome, beat) \in EntryTypes /\ Entry(0, Metronome, beat).callback # Player
    BY IntervalType DEF Entry, EntryTypes, Player, Metronome
  <1>3. set \in Seq(EntryTypes) /\ (NoneOf(Player, without) => NoneOf(Player, set))
    <2> HIDE DEF without
    <2>1. QED
      BY <1>1, <1>2, WithTimerFacts
  <1>4. entries' \in {without, set}
    BY DEF MetronomeOn, MetronomeEntries
  <1>5. QED
    BY <1>1, <1>3, <1>4

LEMMA IntervalFacts ==
  ASSUME NEW es \in Seq(EntryTypes), NEW b \in Beats
  PROVE  LET after == WithInterval(es, Metronome, b)
         IN  after \in Seq(EntryTypes) /\ (NoneOf(Player, es) => NoneOf(Player, after))
  <1> DEFINE after == WithInterval(es, Metronome, b)
  <1>1. es \in [1 .. Len(es) -> EntryTypes] /\ Len(es) \in Nat
    BY LenProperties
  <1>2. ASSUME NEW i \in 1 .. Len(es)
        PROVE  after[i] \in EntryTypes /\ after[i].callback = es[i].callback
    <2>1. es[i] \in EntryTypes /\ b \in Nat
      BY <1>1
    <2>2. after[i] \in {es[i], [es[i] EXCEPT !.interval = b]}
      BY <1>1 DEF WithInterval
    <2>3. QED
      BY IntervalType, <2>1, <2>2 DEF EntryTypes
  <1>3. after \in [1 .. Len(es) -> EntryTypes]
    BY <1>1, <1>2 DEF WithInterval
  <1>4. after \in Seq(EntryTypes)
    BY <1>1, <1>3, SeqDef
  <1>5. QED
    BY <1>1, <1>2, <1>3, <1>4 DEF NoneOf

\* The player sets its timer for a moment.
LEMMA NextCallType ==
  ASSUME IInv, handling
  PROVE  Entry(NextCall, Player, 0) \in EntryTypes
  <1> USE DEF Types
  <1>1. Times[pos] \in Nat
    BY File DEF PlayInv, HandlingInv
  <1>2. Times[pos] + start \in Int /\ start + (seconds + 1) * Second \in Int
    BY <1>1
  <1>3. ASSUME NEW a \in Int, NEW b \in Int
        PROVE  Least({a, b}) \in Int
    <2>1. \E x \in {a, b} : \A y \in {a, b} : x <= y
      <3>1. CASE a <= b
        BY <3>1
      <3>2. CASE b <= a
        BY <3>2
      <3>3. QED
        BY <3>1, <3>2
    <2>2. Least({a, b}) \in {a, b}
      BY <2>1 DEF Least
    <2>3. QED
      BY <2>2
  <1>4. NextCall \in Int
    BY <1>2, <1>3 DEF NextCall
  <1>5. QED
    BY IntervalType, <1>4 DEF Entry, EntryTypes

\* The table: no entry of a pausing player, whoever writes to it.
LEMMA EntriesStep == ASSUME IInv, Next PROVE entries' \in Seq(EntryTypes) /\ PauseInv'
  <1> USE DEF Types, PauseInv
  <1>1. CASE TimePasses \/ TimerWalks
    BY <1>1 DEF TimePasses, Tick, TimerWalks, Notify, Skip, WalkEnds, NoneOf
  <1>2. CASE Play \/ Stop \/ Pause \/ GoOn
    BY <1>2, WithoutTimerFacts DEF Play, Stop, Pause, GoOn, EntriesOfStopped, Begin, NoneOf
  <1>3. CASE PressMetronome
    BY <1>3, MetronomeFacts DEF PressMetronome
  <1>4. CASE UpdateBPM
    BY <1>4, IntervalFacts DEF UpdateBPM
  <1>5. CASE HandleTimer
    <2>1. /\ isPlaying' = isPlaying /\ pause' = pause
          /\ entries' \in {entries, [entries EXCEPT ![walk] = AfterCall(@)]}
      BY <1>5 DEF HandleTimer
    <2>2. QED
      BY <2>1, ReturnFacts
  <1>6. CASE PlayEvent
    BY <1>6, MetronomeFacts DEF PlayEvent, PlayInv, HandlingInv
  <1>7. CASE LastEvent
    <2>1. WithoutTimer(entries, Player) \in Seq(EntryTypes)
      BY WithoutTimerFacts
    <2>2. QED
      BY <1>7, <2>1, ReturnFacts DEF LastEvent, Leave
  <1>8. CASE WaitForEvent
    <2>1. WithTimer(entries, Entry(NextCall, Player, 0)) \in Seq(EntryTypes)
      BY <1>8, NextCallType, WithTimerFacts DEF WaitForEvent
    <2>2. isPlaying' = isPlaying /\ pause' = pause /\ ~(isPlaying /\ pause)
      BY <1>8 DEF WaitForEvent, PlayInv, HandlingInv
    <2>3. PauseInv'
      BY <2>2
    <2>4. entries' \in Seq(EntryTypes)
      BY <1>8, <2>1, ReturnFacts DEF WaitForEvent, Leave
    <2>5. QED
      BY <2>3, <2>4
  <1>9. CASE BeatSounds
    BY <1>9, ReturnFacts DEF BeatSounds
  <1>10. QED
    BY <1>1, <1>2, <1>3, <1>4, <1>5, <1>6, <1>7, <1>8, <1>9 DEF Next, User, Handlers

\* The clock, the start of the file and its position.
LEMMA PlayStep == ASSUME IInv, Next PROVE (Types /\ PlayInv)'
  <1> USE DEF Types, PlayInv, HandlingInv, StartMeasures, NotBeforeItsTime
  <1>1. CASE TimePasses
    <2>1. now' = now + 1 /\ UNCHANGED <<isPlaying, pause, start, pos, handling, since>>
      BY <1>1 DEF TimePasses, Tick
    <2>2. isPlaying => played' = IF pause THEN played ELSE played + 1
      BY <1>1 DEF TimePasses
    <2>3. played' \in Int /\ UNCHANGED <<asOf, seconds, beat>>
      BY <1>1 DEF TimePasses, Tick
    <2>4. HandlingInv'
      BY <2>1 DEF NEvents
    <2>5. NotBeforeItsTime'
      <3>1. ASSUME isPlaying, NEW k \in 1 .. pos - 1
            PROVE  Times[k] <= played'
        <4>1. Times[k] \in Nat /\ Times[k] <= played
          BY <3>1, File
        <4>2. played' \in {played, played + 1}
          BY <2>2, <3>1 DEF Flags
        <4>3. QED
          BY <4>1, <4>2
      <3>2. QED
        BY <2>1, <3>1
    <2>6. StartMeasures'
      BY <2>1, <2>2
    <2>7. QED
      BY <2>1, <2>3, <2>4, <2>5, <2>6, EntriesStep
  <1>2. CASE TimerWalks
    BY <1>2 DEF TimerWalks, Notify, Skip, WalkEnds
  <1>3. CASE Play
    BY <1>3, EntriesStep, File DEF Play, Begin
  <1>4. CASE Stop
    <2>1. ~isPlaying' /\ ~handling'
      BY <1>4 DEF Stop, Idle
    <2>2. UNCHANGED <<now, asOf, pos, start, since, seconds, played, beat>>
      BY <1>4 DEF Stop
    <2>3. QED
      BY <2>1, <2>2, EntriesStep
  <1>5. CASE Pause
    BY <1>5, EntriesStep DEF Pause, Idle
  <1>6. CASE GoOn
    BY <1>6, EntriesStep DEF GoOn, StartAfterPause, Begin
  <1>7. CASE PressMetronome
    BY <1>7, EntriesStep DEF PressMetronome, MetronomeOn
  <1>8. CASE UpdateBPM
    BY <1>8, EntriesStep DEF UpdateBPM
  <1>9. CASE HandleTimer
    <2>1. ~NoneOf(Player, entries)
      BY <1>9 DEF HandleTimer, Calls, NoneOf
    <2>2. ~(isPlaying /\ pause)
      BY <2>1 DEF PauseInv
    <2>3. UNCHANGED <<now, asOf, isPlaying, pause, start, pos, played, beat>>
      BY <1>9 DEF HandleTimer
    <2>4. CASE isPlaying
      <3>1. since' = now /\ seconds' \in {seconds, seconds + 1}
        BY <1>9, <2>4 DEF HandleTimer, Begin
      <3>2. QED
        BY <2>2, <2>3, <2>4, <3>1, EntriesStep DEF NEvents
    <2>5. CASE ~isPlaying
      <3>1. UNCHANGED <<since, seconds, handling>>
        BY <1>9, <2>5 DEF HandleTimer
      <3>2. QED
        BY <2>3, <2>5, <3>1, EntriesStep DEF NEvents
    <2>6. QED
      BY <2>4, <2>5
  <1>10. CASE PlayEvent
    <2>1. Times[pos] \in Nat /\ Times[pos] <= played
      BY <1>10, File DEF PlayEvent, EventIsDue
    <2>2. /\ UNCHANGED <<now, asOf, isPlaying, pause, start, seconds, handling, since, played>>
          /\ pos' = pos + 1 /\ pos < NEvents /\ beat' = beat
      BY <1>10 DEF PlayEvent, MetronomeOn
    <2>3. (HandlingInv /\ StartMeasures)'
      BY <2>2, File DEF NEvents
    <2>4. NotBeforeItsTime'
      <3>1. \A k \in 1 .. pos' - 1 : k \in 1 .. pos - 1 \/ k = pos
        BY <2>2
      <3>2. QED
        BY <2>1, <2>2, <3>1
    <2>5. QED
      BY <2>2, <2>3, <2>4, EntriesStep
  <1>11. CASE LastEvent
    BY <1>11, EntriesStep DEF LastEvent, Leave
  <1>12. CASE WaitForEvent
    BY <1>12, EntriesStep DEF WaitForEvent, Leave
  <1>13. CASE BeatSounds
    BY <1>13, EntriesStep DEF BeatSounds
  <1>14. QED
    BY <1>1, <1>2, <1>3, <1>4, <1>5, <1>6, <1>7, <1>8, <1>9, <1>10, <1>11, <1>12, <1>13
       DEF Next, User, Handlers

LEMMA Stutter == ASSUME IInv, UNCHANGED vars PROVE IInv'
  BY DEF vars, Flags, Types, PlayInv, PauseInv, HandlingInv, StartMeasures,
         NotBeforeItsTime, NoneOf

-----------------------------------------------------------------------------
(* The table: one timer each *)

Unique(c, es) ==
  \A i, j \in DOMAIN es : es[i].callback = c /\ es[j].callback = c => i = j

\* The entries of the callback are the same in both tables.
Kept(c, es, fs) ==
  /\ \A i \in DOMAIN es : es[i].callback = c => i \in DOMAIN fs /\ fs[i] = es[i]
  /\ \A i \in DOMAIN fs : fs[i].callback = c => i \in DOMAIN es /\ es[i].callback = c

\* One entry has been added, in a free place.
Adds(e, es, fs) ==
  \E j \in DOMAIN fs :
    /\ fs[j] = e
    /\ j \in DOMAIN es => es[j].callback = NoCallback
    /\ DOMAIN es \subseteq DOMAIN fs
    /\ \A i \in DOMAIN fs : i # j => i \in DOMAIN es /\ fs[i] = es[i]

\* The metronome has an entry exactly while it runs.
MetronomeInv ==
  /\ Unique(Metronome, entries)
  /\ running => ~NoneOf(Metronome, entries)
  /\ ~running => NoneOf(Metronome, entries)
  /\ \A i \in DOMAIN entries : entries[i].callback = Metronome => entries[i].interval = beat

\* The player has an entry exactly while it waits; in a HandleTimer() that
\* Notify() has called, it still has the one that Notify() is at.
PlayerInv ==
  /\ Unique(Player, entries)
  /\ \A i \in DOMAIN entries : entries[i].callback = Player => entries[i].interval = 0
  /\ ~handling =>
       /\ isPlaying /\ ~pause => ~NoneOf(Player, entries)
       /\ ~(isPlaying /\ ~pause) => NoneOf(Player, entries)
       /\ \A i \in DOMAIN entries :
            entries[i].callback = Player => entries[i].time <= Times[pos] + start
  /\ handling /\ walk = 0 => NoneOf(Player, entries)
  /\ handling /\ walk # 0 => walk \in DOMAIN entries /\ entries[walk].callback = Player

LEMMA WithoutKeeps ==
  ASSUME NEW es \in Seq(EntryTypes), NEW c, NEW d, c # d, d # NoCallback
  PROVE  Kept(d, es, WithoutTimer(es, c))
  BY DEF Kept, WithoutTimer, EntryTypes

\* A set of places has a first one.
LEMMA LeastPlace ==
  ASSUME NEW S \in SUBSET Nat, S # {}
  PROVE  Least(S) \in S /\ \A y \in S : Least(S) <= y
  <1>1. PICK less : /\ IsWellFoundedOn(less, Nat)
                    /\ \A x, y \in Nat : x < y => <<x, y>> \in less
    <2>1. \A x, y \in Nat : x < y => <<x, y>> \in OpToRel(<, Nat)
      BY DEF OpToRel
    <2>2. QED
      BY <2>1, NatLessThanWellFounded
  <1>2. \E x \in S : \A y \in S : ~(<<y, x>> \in less)
    <2>1. S \subseteq Nat
      OBVIOUS
    <2>2. IsWellFoundedOn(less, Nat)
      BY <1>1
    <2>3. QED
      BY <2>1, <2>2, WFMin, Zenon
  <1>3. PICK x \in S : \A y \in S : ~(<<y, x>> \in less)
    BY <1>2
  <1>4. ASSUME NEW y \in S PROVE x <= y
    <2>1. x \in Nat /\ y \in Nat
      OBVIOUS
    <2>2. ~(y < x)
      BY <1>1, <1>3, <2>1
    <2>3. QED
      BY <2>1, <2>2
  <1>5. QED
    BY <1>4 DEF Least

LEMMA WithTimerAdds ==
  ASSUME NEW es \in Seq(EntryTypes), NEW e \in EntryTypes
  PROVE  Adds(e, es, WithTimer(es, e))
  <1> DEFINE free == DOMAIN es \ Live(es)
  <1>1. DOMAIN es = 1 .. Len(es) /\ Len(es) \in Nat
    BY LenProperties
  <1>2. CASE free = {}
    <2>1. WithTimer(es, e) = Append(es, e)
      BY <1>2 DEF WithTimer
    <2>2. DOMAIN Append(es, e) = 1 .. Len(es) + 1 /\ Append(es, e)[Len(es) + 1] = e
      BY <1>1
    <2>3. \A i \in 1 .. Len(es) : Append(es, e)[i] = es[i]
      BY <1>1
    <2> DEFINE fs == Append(es, e)
    <2>4. DOMAIN es \subseteq DOMAIN fs /\ Len(es) + 1 \in DOMAIN fs
      BY <1>1, <2>2
    <2>5. \A i \in DOMAIN fs : i # Len(es) + 1 => i \in DOMAIN es /\ fs[i] = es[i]
      BY <1>1, <2>2, <2>3
    <2>6. ~(Len(es) + 1 \in DOMAIN es) /\ fs[Len(es) + 1] = e
      BY <1>1, <2>2
    <2> HIDE DEF fs
    <2>7. Adds(e, es, fs)
      BY <2>4, <2>5, <2>6 DEF Adds
    <2>8. QED
      BY <2>1, <2>7 DEF fs
  <1>3. CASE free # {}
    <2>1. WithTimer(es, e) = [es EXCEPT ![Least(free)] = e]
      BY <1>3 DEF WithTimer
    <2>2. Least(free) \in free
      <3>1. free \in SUBSET Nat
        BY <1>1
      <3>2. QED
        BY <1>3, <3>1, LeastPlace
    <2>3. es[Least(free)].callback = NoCallback
      BY <2>2 DEF Live
    <2>4. QED
      BY <2>1, <2>2, <2>3 DEF Adds
  <1>4. QED
    BY <1>2, <1>3

\* An entry that is added keeps those of the other callbacks.
LEMMA AddsKeeps ==
  ASSUME NEW es, NEW fs, NEW e, Adds(e, es, fs), NEW d, d # e.callback, d # NoCallback
  PROVE  Kept(d, es, fs)
  BY DEF Adds, Kept

\* An entry that is added to none is the only one.
LEMMA AddsOnly ==
  ASSUME NEW es, NEW fs, NEW e, Adds(e, es, fs), NoneOf(e.callback, es)
  PROVE  /\ Unique(e.callback, fs) /\ ~NoneOf(e.callback, fs)
         /\ \A i \in DOMAIN fs : fs[i].callback = e.callback => fs[i] = e
  BY DEF Adds, Unique, NoneOf

\* Setting an entry of the walk again, or freeing it, keeps those of the others.
LEMMA ReturnKeeps ==
  ASSUME NEW es \in Seq(EntryTypes), NEW w, NEW d, d # NoCallback,
         w \in DOMAIN es => es[w].callback # d
  PROVE  Kept(d, es, [es EXCEPT ![w] = AfterCall(@)])
  <1>1. w \in DOMAIN es => AfterCall(es[w]).callback # d
    BY DEF AfterCall, EntryTypes
  <1>2. QED
    BY <1>1 DEF Kept

\* Whatever keeps the metronome's entries keeps its invariant.
LEMMA KeptMetronome ==
  ASSUME MetronomeInv, Kept(Metronome, entries, entries'), UNCHANGED <<running, beat>>
  PROVE  MetronomeInv'
  BY DEF MetronomeInv, Kept, Unique, NoneOf

\* The player's own calls do not touch the entries of the metronome.
LEMMA MetronomeStep == ASSUME IInv, MetronomeInv, PlayerInv, Next PROVE MetronomeInv'
  <1> USE DEF Types
  <1>1. CASE TimePasses \/ TimerWalks \/ GoOn
    BY <1>1 DEF TimePasses, Tick, TimerWalks, Notify, Skip, WalkEnds, GoOn, MetronomeInv
  <1>2. CASE Play \/ Stop \/ Pause
    <2>1. Kept(Metronome, entries, WithoutTimer(entries, Player))
      BY WithoutKeeps DEF Player, Metronome, NoCallback
    <2>2. QED
      BY <1>2, <2>1, KeptMetronome DEF Play, Stop, Pause, EntriesOfStopped
  <1>3. ASSUME MetronomeOn PROVE MetronomeInv'
    <2> DEFINE without == WithoutTimer(entries, Metronome)
               e == Entry(0, Metronome, beat)
    <2>1. without \in Seq(EntryTypes) /\ NoneOf(Metronome, without)
      BY WithoutTimerFacts
    <2>2. e \in EntryTypes /\ e.callback = Metronome /\ e.interval = beat
      BY IntervalType DEF Entry, EntryTypes
    <2>3. Adds(e, without, WithTimer(without, e))
      <3> HIDE DEF without, e
      <3>1. QED
        BY <2>1, <2>2, WithTimerAdds
    <2>4. CASE running
      <3>1. entries' = without /\ ~running'
        BY <1>3, <2>4 DEF MetronomeOn, MetronomeEntries
      <3>2. QED
        BY <2>1, <3>1 DEF MetronomeInv, Unique, NoneOf
    <2>5. CASE ~running
      <3>1. entries' = WithTimer(without, e) /\ running' /\ beat' = beat
        BY <1>3, <2>5 DEF MetronomeOn, MetronomeEntries
      <3>2. /\ Unique(Metronome, entries') /\ ~NoneOf(Metronome, entries')
            /\ \A i \in DOMAIN entries' : entries'[i].callback = Metronome => entries'[i] = e
        <4> HIDE DEF without, e
        <4>1. QED
          BY <2>1, <2>2, <2>3, <3>1, AddsOnly
      <3>3. QED
        BY <2>2, <3>1, <3>2 DEF MetronomeInv, Unique, NoneOf
    <2>6. QED
      BY <2>4, <2>5
  <1>4. CASE PressMetronome
    BY <1>3, <1>4 DEF PressMetronome
  <1>5. CASE UpdateBPM
    <2>1. CASE running
      <3>1. entries' = WithInterval(entries, Metronome, beat') /\ running' = running
        BY <1>5, <2>1 DEF UpdateBPM
      <3>2. /\ DOMAIN entries' = DOMAIN entries
            /\ \A i \in DOMAIN entries :
                 /\ entries'[i].callback = entries[i].callback
                 /\ entries[i].callback = Metronome => entries'[i].interval = beat'
        <4>1. \A i \in DOMAIN entries : entries[i] \in EntryTypes
          OBVIOUS
        <4>2. QED
          BY <3>1, <4>1 DEF WithInterval, EntryTypes
      <3>3. QED
        BY <3>1, <3>2 DEF MetronomeInv, Unique, NoneOf
    <2>2. CASE ~running
      BY <1>5, <2>2 DEF UpdateBPM, MetronomeInv, Unique, NoneOf
    <2>3. QED
      BY <2>1, <2>2
  <1>6. CASE HandleTimer
    <2>1. isPlaying
      BY <1>6 DEF HandleTimer, Calls, PlayerInv, NoneOf
    <2>2. QED
      BY <1>6, <2>1 DEF HandleTimer, MetronomeInv
  <1>7. CASE PlayEvent
    <2>1. MetronomeOn \/ UNCHANGED <<entries, metronomeVars>>
      BY <1>7 DEF PlayEvent
    <2>2. QED
      BY <1>3, <2>1 DEF MetronomeInv
  <1>8. ASSUME NEW es \in Seq(EntryTypes), Leave(es), Kept(Metronome, entries, es),
               handling, walk # 0 /\ walk \in DOMAIN es => es[walk].callback # Metronome,
               UNCHANGED metronomeVars
        PROVE  MetronomeInv'
    <2>1. Kept(Metronome, es, entries')
      <3>1. CASE walk = 0
        BY <1>8, <3>1 DEF Leave, Kept
      <3>2. CASE walk # 0
        BY <1>8, <3>2, ReturnKeeps DEF Leave, Metronome, NoCallback
      <3>3. QED
        BY <3>1, <3>2
    <2>2. Kept(Metronome, entries, entries')
      BY <1>8, <2>1 DEF Kept
    <2>3. QED
      BY <1>8, <2>2, KeptMetronome
  <1>9. CASE LastEvent
    <2> DEFINE es == WithoutTimer(entries, Player)
    <2>1. es \in Seq(EntryTypes) /\ Kept(Metronome, entries, es)
      BY WithoutTimerFacts, WithoutKeeps DEF Player, Metronome, NoCallback
    <2>2. walk # 0 /\ walk \in DOMAIN es => es[walk].callback # Metronome
      BY <1>9 DEF LastEvent, PlayerInv, WithoutTimer, EntryTypes, Player, Metronome, NoCallback
    <2>3. Leave(es) /\ handling /\ UNCHANGED metronomeVars
      BY <1>9 DEF LastEvent
    <2>4. QED
      <3> HIDE DEF es
      <3>1. QED
        BY <1>8, <2>1, <2>2, <2>3
  <1>10. CASE WaitForEvent
    <2> DEFINE e == Entry(NextCall, Player, 0)
               es == WithTimer(entries, e)
    <2>1. e \in EntryTypes /\ e.callback = Player
      BY <1>10, NextCallType DEF WaitForEvent, Entry
    <2>2. es \in Seq(EntryTypes) /\ Adds(e, entries, es)
      <3> HIDE DEF e
      <3>1. QED
        BY <2>1, WithTimerFacts, WithTimerAdds
    <2>3. Kept(Metronome, entries, es)
      <3> HIDE DEF e, es
      <3>1. QED
        BY <2>1, <2>2, AddsKeeps DEF Player, Metronome, NoCallback
    <2>4. walk # 0 => es[walk].callback = Player
      <3> HIDE DEF e, es
      <3>1. QED
        BY <1>10, <2>1, <2>2 DEF WaitForEvent, PlayerInv, Adds, Player, NoCallback
    <2>5. Leave(es) /\ handling /\ UNCHANGED metronomeVars
      BY <1>10 DEF WaitForEvent
    <2>6. QED
      <3> HIDE DEF e, es
      <3>1. QED
        BY <1>8, <2>2, <2>3, <2>4, <2>5 DEF Player, Metronome
  <1>11. CASE BeatSounds
    <2>1. walk \in DOMAIN entries /\ entries[walk].callback = Metronome
      BY <1>11 DEF BeatSounds, Calls
    <2>2. entries[walk].interval # 0
      BY <2>1 DEF MetronomeInv
    <2>3. entries' = [entries EXCEPT ![walk] = [@ EXCEPT !.time = NextTime(entries[walk])]]
      BY <1>11, <2>2 DEF BeatSounds, AfterCall
    <2>4. /\ DOMAIN entries' = DOMAIN entries
          /\ \A i \in DOMAIN entries : /\ entries'[i].callback = entries[i].callback
                                       /\ entries'[i].interval = entries[i].interval
      <3>1. \A i \in DOMAIN entries : entries[i] \in EntryTypes
        OBVIOUS
      <3>2. QED
        BY <2>3, <3>1 DEF EntryTypes
    <2>5. UNCHANGED <<running, beat>>
      BY <1>11 DEF BeatSounds
    <2>6. QED
      BY <2>4, <2>5 DEF MetronomeInv, Unique, NoneOf
  <1>12. QED
    BY <1>1, <1>2, <1>4, <1>5, <1>6, <1>7, <1>9, <1>10, <1>11 DEF Next, User, Handlers

\* The next call of a player is no later than its next event.
LEMMA NextCallInTime ==
  ASSUME IInv, handling
  PROVE  NextCall <= Times[pos] + start
  <1> USE DEF Types
  <1>1. Times[pos] \in Nat
    BY File DEF PlayInv, HandlingInv
  <1>2. Times[pos] + start \in Int /\ start + (seconds + 1) * Second \in Int
    BY <1>1
  <1>3. ASSUME NEW a \in Int, NEW b \in Int
        PROVE  Least({a, b}) <= a
    <2>1. \E x \in {a, b} : \A y \in {a, b} : x <= y
      <3>1. CASE a <= b
        BY <3>1
      <3>2. CASE b <= a
        BY <3>2
      <3>3. QED
        BY <3>1, <3>2
    <2>2. QED
      BY <2>1 DEF Least
  <1>4. QED
    BY <1>2, <1>3 DEF NextCall

\* While the player waits, or its HandleTimer() goes on, others keep its entries.
LEMMA KeptPlayer ==
  ASSUME PlayerInv, Kept(Player, entries, entries'),
         UNCHANGED <<isPlaying, pause, handling, start, pos>>, handling => walk' = walk
  PROVE  PlayerInv'
  BY DEF PlayerInv, Kept, Unique, NoneOf

LEMMA MetronomeKeepsPlayer ==
  ASSUME IInv, MetronomeOn
  PROVE  Kept(Player, entries, entries')
  <1> USE DEF Types
  <1> DEFINE without == WithoutTimer(entries, Metronome)
             e == Entry(0, Metronome, beat)
             set == WithTimer(without, e)
  <1>1. without \in Seq(EntryTypes) /\ Kept(Player, entries, without)
    BY WithoutTimerFacts, WithoutKeeps DEF Player, Metronome, NoCallback
  <1>2. e \in EntryTypes /\ e.callback = Metronome
    BY IntervalType DEF Entry, EntryTypes
  <1>3. Kept(Player, without, set)
    <2> HIDE DEF without, e
    <2>1. QED
      BY <1>1, <1>2, WithTimerAdds, AddsKeeps DEF Player, Metronome, NoCallback
  <1>4. entries' \in {without, set}
    BY DEF MetronomeOn, MetronomeEntries
  <1>5. Kept(Player, entries, set)
    <2> HIDE DEF without, set
    <2>1. QED
      BY <1>1, <1>3 DEF Kept
  <1>6. QED
    BY <1>1, <1>4, <1>5

\* One entry while the player waits, none while it pauses or has stopped.
LEMMA PlayerStep == ASSUME IInv, PlayerInv, Next PROVE PlayerInv'
  <1> USE DEF Types
  <1>1. CASE TimePasses \/ TimerWalks
    <2>1. /\ UNCHANGED <<entries, isPlaying, pause, handling, start, pos>>
          /\ handling => walk' = walk
      BY <1>1 DEF TimePasses, Tick, TimerWalks, Notify, Skip, WalkEnds
    <2>2. Kept(Player, entries, entries')
      BY <2>1 DEF Kept
    <2>3. QED
      BY <2>1, <2>2, KeptPlayer
  <1>2. CASE Play \/ Stop \/ Pause
    <2>1. NoneOf(Player, entries')
      BY <1>2, WithoutTimerFacts DEF Play, Stop, Pause, EntriesOfStopped
    <2>2. walk' = 0
      BY <1>2 DEF Play, Stop, Pause, Idle
    <2>3. ~handling' => ~(isPlaying' /\ ~pause')
      BY <1>2 DEF Play, Stop, Pause, Begin
    <2>4. QED
      BY <2>1, <2>2, <2>3 DEF PlayerInv, Unique, NoneOf
  <1>3. CASE GoOn
    <2>1. NoneOf(Player, entries)
      BY <1>3 DEF GoOn, Idle, PlayerInv
    <2>2. entries' = entries /\ walk' = 0 /\ handling'
      BY <1>3 DEF GoOn, Idle, Begin
    <2>3. QED
      BY <2>1, <2>2 DEF PlayerInv, Unique, NoneOf
  <1>4. CASE PressMetronome
    BY <1>4, MetronomeKeepsPlayer, KeptPlayer DEF PressMetronome
  <1>5. CASE UpdateBPM
    <2>1. \A i \in DOMAIN entries : entries[i] \in EntryTypes
      OBVIOUS
    <2>2. Kept(Player, entries, WithInterval(entries, Metronome, beat'))
      BY <2>1 DEF WithInterval, Kept, EntryTypes, Player, Metronome
    <2>3. Kept(Player, entries, entries)
      BY DEF Kept
    <2>4. Kept(Player, entries, entries')
      BY <1>5, <2>2, <2>3 DEF UpdateBPM
    <2>5. QED
      BY <1>5, <2>4, KeptPlayer DEF UpdateBPM
  <1>6. CASE HandleTimer
    <2>1. walk \in DOMAIN entries /\ entries[walk].callback = Player /\ ~handling
      BY <1>6 DEF HandleTimer, Calls
    <2>2. isPlaying
      BY <2>1 DEF PlayerInv, NoneOf
    <2>3. handling' /\ entries' = entries /\ walk' = walk
      BY <1>6, <2>2 DEF HandleTimer, Begin
    <2>4. walk # 0
      BY <2>1
    <2>5. QED
      BY <2>1, <2>3, <2>4 DEF PlayerInv
  <1>7. CASE PlayEvent
    <2>1. Kept(Player, entries, entries')
      BY <1>7, MetronomeKeepsPlayer DEF PlayEvent, Kept
    <2>2. handling /\ handling' /\ walk' = walk
      BY <1>7 DEF PlayEvent
    <2>3. QED
      BY <2>1, <2>2 DEF PlayerInv, Kept, Unique, NoneOf
  <1>8. CASE LastEvent
    <2> DEFINE es == WithoutTimer(entries, Player)
    <2>1. es \in Seq(EntryTypes) /\ NoneOf(Player, es)
      BY WithoutTimerFacts
    <2>2. NoneOf(Player, entries')
      <3> HIDE DEF es
      <3>1. Leave(es)
        BY <1>8 DEF LastEvent, es
      <3>2. QED
        BY <2>1, <3>1, ReturnFacts DEF Leave
    <2>3. ~handling' /\ ~isPlaying'
      BY <1>8 DEF LastEvent, Leave
    <2>4. QED
      BY <2>2, <2>3 DEF PlayerInv, Unique, NoneOf
  <1>9. CASE WaitForEvent
    <2> DEFINE e == Entry(NextCall, Player, 0)
               es == WithTimer(entries, e)
    <2>1. /\ e \in EntryTypes /\ e.callback = Player /\ e.interval = 0
          /\ e.time <= Times[pos] + start
      BY <1>9, NextCallType, NextCallInTime DEF WaitForEvent, Entry
    <2>2. es \in Seq(EntryTypes) /\ Adds(e, entries, es)
      <3> HIDE DEF e
      <3>1. QED
        BY <2>1, WithTimerFacts, WithTimerAdds
    <2>3. Leave(es) /\ handling
      BY <1>9 DEF WaitForEvent
    <2>4. /\ ~handling' /\ isPlaying' /\ ~pause'
          /\ UNCHANGED <<start, pos>>
      BY <1>9 DEF WaitForEvent, Leave, PlayInv, HandlingInv
    <2>5. /\ Unique(Player, entries') /\ ~NoneOf(Player, entries')
          /\ \A i \in DOMAIN entries' : entries'[i].callback = Player => entries'[i] = e
      <3> HIDE DEF e, es
      <3>1. CASE walk = 0
        <4>1. entries' = es /\ NoneOf(Player, entries)
          BY <2>3, <3>1 DEF Leave, PlayerInv
        <4>2. QED
          BY <2>1, <2>2, <4>1, AddsOnly
      <3>2. CASE walk # 0
        <4>1. /\ walk \in DOMAIN entries /\ entries[walk].callback = Player
              /\ entries[walk].interval = 0
          BY <2>3, <3>2 DEF PlayerInv
        <4>2. PICK j \in DOMAIN es :
                /\ es[j] = e /\ j # walk
                /\ walk \in DOMAIN es /\ es[walk] = entries[walk]
                /\ \A i \in DOMAIN es : i # j => i \in DOMAIN entries /\ es[i] = entries[i]
          BY <2>2, <4>1 DEF Adds, Player, NoCallback
        <4>3. entries' = [es EXCEPT ![walk] = [@ EXCEPT !.callback = NoCallback]]
          BY <2>3, <3>2, <4>1, <4>2 DEF Leave, AfterCall
        <4>4. es[walk] \in EntryTypes
          BY <2>2, <4>2
        <4>5. /\ DOMAIN entries' = DOMAIN es /\ entries'[walk].callback # Player
              /\ \A i \in DOMAIN es : i # walk => entries'[i] = es[i]
          BY <4>2, <4>3, <4>4 DEF EntryTypes, Player, NoCallback
        <4>6. \A i \in DOMAIN es : i # walk /\ i # j => es[i].callback # Player
          BY <4>1, <4>2 DEF PlayerInv, Unique
        <4>7. QED
          BY <2>1, <4>2, <4>5, <4>6 DEF Unique, NoneOf
      <3>3. QED
        BY <3>1, <3>2
    <2>6. QED
      <3> HIDE DEF e
      <3>1. QED
        BY <2>1, <2>4, <2>5 DEF PlayerInv
  <1>10. CASE BeatSounds
    <2>1. ~handling /\ walk \in DOMAIN entries /\ entries[walk].callback = Metronome
      BY <1>10 DEF BeatSounds, Calls
    <2>2. Kept(Player, entries, [entries EXCEPT ![walk] = AfterCall(@)])
      BY <2>1, ReturnKeeps DEF Player, Metronome, NoCallback
    <2>3. QED
      BY <1>10, <2>1, <2>2, KeptPlayer DEF BeatSounds
  <1>11. QED
    BY <1>1, <1>2, <1>3, <1>4, <1>5, <1>6, <1>7, <1>8, <1>9, <1>10 DEF Next, User, Handlers

TableInv == MetronomeInv /\ PlayerInv

LEMMA InitTable == Init => TableInv
  BY DEF Init, TimerInit, TableInv, MetronomeInv, PlayerInv, Unique, NoneOf

LEMMA TableStutter == ASSUME TableInv, UNCHANGED vars PROVE TableInv'
  BY DEF vars, TableInv, MetronomeInv, PlayerInv, Unique, NoneOf

\* A callback with one entry has one, and one with none has none.
LEMMA Counted ==
  ASSUME NEW c, Unique(c, entries)
  PROVE  Cardinality(Of(entries, c)) = IF NoneOf(c, entries) THEN 0 ELSE 1
  <1>1. CASE NoneOf(c, entries)
    <2>1. Of(entries, c) = {}
      BY <1>1 DEF Of, NoneOf
    <2>2. QED
      BY <1>1, <2>1, FS_EmptySet
  <1>2. CASE ~NoneOf(c, entries)
    <2>1. PICK i \in DOMAIN entries : entries[i].callback = c
      BY <1>2 DEF NoneOf
    <2>2. Of(entries, c) = {i}
      BY <2>1 DEF Of, Unique
    <2>3. QED
      BY <1>2, <2>2, FS_Singleton
  <1>3. QED
    BY <1>1, <1>2

-----------------------------------------------------------------------------
(* The alarm *)

NotBefore0(es) == \A i \in DOMAIN es : es[i].time >= 0

\* The wxTimer fires no later than for any entry, or as soon as it can.
Awaits(es, d, n) ==
  \A i \in Live(es) : d \in Nat /\ (d <= es[i].time \/ d <= n + 1)

\* Outside of Notify() the wxTimer waits for every entry, and no moment that a
\* timer is set for lies before the start of the program.
AlarmInv ==
  /\ walk \in Nat /\ asOf >= 0 /\ seconds >= 0
  /\ isPlaying => 0 <= played /\ played <= now
  /\ NotBefore0(entries)
  /\ walk = 0 => Awaits(entries, due, now)

LEMMA ScheduledAwaits ==
  ASSUME NEW es \in Seq(EntryTypes), NotBefore0(es), now \in Nat
  PROVE  Awaits(es, Scheduled(es), now)
  <1> DEFINE times == {es[i].time : i \in Live(es)}
  <1>1. CASE Live(es) = {}
    BY <1>1 DEF Awaits
  <1>2. CASE Live(es) # {}
    <2>1. \A i \in Live(es) : es[i] \in EntryTypes /\ es[i].time >= 0
      BY DEF Live, NotBefore0
    <2>2. times \in SUBSET Nat /\ times # {}
      BY <1>2, <2>1 DEF EntryTypes
    <2>3. Least(times) \in Nat /\ \A i \in Live(es) : Least(times) <= es[i].time
      <3> HIDE DEF times
      <3>1. Least(times) \in Nat /\ \A t \in times : Least(times) <= t
        BY <2>2, LeastPlace
      <3>2. QED
        BY <3>1 DEF times
    <2>4. Scheduled(es) = IF Least(times) > now THEN Least(times) ELSE now + 1
      BY <1>2 DEF Scheduled
    <2> HIDE DEF times
    <2>5. Scheduled(es) \in Nat
      BY <2>3, <2>4
    <2>6. ASSUME NEW i \in Live(es)
          PROVE  Scheduled(es) <= es[i].time \/ Scheduled(es) <= now + 1
      BY <2>3, <2>4
    <2>7. QED
      BY <2>5, <2>6 DEF Awaits
  <1>3. QED
    BY <1>1, <1>2

LEMMA WithoutTimerAwaits ==
  ASSUME NEW es \in Seq(EntryTypes), NEW c \in {Player, Metronome}, NotBefore0(es)
  PROVE  LET fs == WithoutTimer(es, c)
         IN  NotBefore0(fs) /\ \A d, n : Awaits(es, d, n) => Awaits(fs, d, n)
  <1> DEFINE fs == WithoutTimer(es, c)
  <1>1. DOMAIN fs = DOMAIN es
    BY DEF WithoutTimer
  <1>2. ASSUME NEW i \in DOMAIN es
        PROVE  fs[i].time = es[i].time /\ (i \in Live(fs) => i \in Live(es))
    <2>1. es[i] \in EntryTypes
      OBVIOUS
    <2>2. fs[i] = IF es[i].callback = c THEN [es[i] EXCEPT !.callback = NoCallback]
                                         ELSE es[i]
      BY DEF WithoutTimer
    <2>3. QED
      BY <1>1, <2>1, <2>2 DEF EntryTypes, Live
  <1> HIDE DEF fs
  <1>3. \A i \in Live(fs) : i \in Live(es) /\ fs[i].time = es[i].time
    BY <1>1, <1>2 DEF Live
  <1>4. QED
    BY <1>1, <1>2, <1>3 DEF NotBefore0, Awaits, fs

LEMMA WithTimerNotBefore0 ==
  ASSUME NEW es \in Seq(EntryTypes), NEW e \in EntryTypes, NotBefore0(es), e.time >= 0
  PROVE  NotBefore0(WithTimer(es, e))
  BY WithTimerAdds DEF Adds, NotBefore0

LEMMA ReturnNotBefore0 ==
  ASSUME NEW es \in Seq(EntryTypes), NotBefore0(es), asOf \in Int, asOf >= 0, NEW w
  PROVE  NotBefore0([es EXCEPT ![w] = AfterCall(@)])
  <1> DEFINE fs == [es EXCEPT ![w] = AfterCall(@)]
  <1>1. DOMAIN fs = DOMAIN es /\ \A i \in DOMAIN es : i # w => fs[i] = es[i]
    OBVIOUS
  <1>2. ASSUME w \in DOMAIN es PROVE fs[w].time >= 0
    <2>1. es[w] \in EntryTypes /\ es[w].time >= 0
      BY <1>2 DEF NotBefore0
    <2>2. NextTime(es[w]) \in Int /\ NextTime(es[w]) >= 0
      <3>1. es[w].interval \in Nat /\ es[w].time \in Int
        BY IntervalType, <2>1 DEF EntryTypes
      <3>2. QED
        BY <3>1, <2>1 DEF NextTime
    <2>3. AfterCall(es[w]).time >= 0
      BY <2>1, <2>2 DEF AfterCall, EntryTypes
    <2>4. QED
      BY <1>2, <2>3
  <1> HIDE DEF fs
  <1>3. QED
    BY <1>1, <1>2 DEF NotBefore0, fs

LEMMA IntervalAwaits ==
  ASSUME NEW es \in Seq(EntryTypes), NEW b \in Beats, NotBefore0(es)
  PROVE  LET fs == WithInterval(es, Metronome, b)
         IN  NotBefore0(fs) /\ \A d, n : Awaits(es, d, n) => Awaits(fs, d, n)
  <1> DEFINE fs == WithInterval(es, Metronome, b)
  <1>1. DOMAIN fs = DOMAIN es
    BY DEF WithInterval
  <1>2. ASSUME NEW i \in DOMAIN es
        PROVE  fs[i].time = es[i].time /\ fs[i].callback = es[i].callback
    <2>1. es[i] \in EntryTypes
      OBVIOUS
    <2>2. fs[i] \in {es[i], [es[i] EXCEPT !.interval = b]}
      BY DEF WithInterval
    <2>3. QED
      BY <2>1, <2>2 DEF EntryTypes
  <1> HIDE DEF fs
  <1>3. QED
    BY <1>1, <1>2 DEF NotBefore0, Awaits, Live, fs

\* The metronome's button schedules, or leaves it to Notify().
LEMMA MetronomeAwaits ==
  ASSUME IInv, AlarmInv, MetronomeOn
  PROVE  NotBefore0(entries') /\ (walk = 0 => Awaits(entries', due', now))
  <1> USE DEF Types
  <1> DEFINE without == WithoutTimer(entries, Metronome)
             set == WithTimer(without, Entry(0, Metronome, beat))
  <1>1. /\ without \in Seq(EntryTypes) /\ NotBefore0(without)
        /\ walk = 0 => Awaits(without, due, now)
    BY WithoutTimerFacts, WithoutTimerAwaits DEF AlarmInv
  <1>2. Entry(0, Metronome, beat) \in EntryTypes /\ Entry(0, Metronome, beat).time = 0
    BY IntervalType DEF Entry, EntryTypes
  <1>3. set \in Seq(EntryTypes) /\ NotBefore0(set)
    <2> HIDE DEF without
    <2>1. QED
      BY <1>1, <1>2, WithTimerFacts, WithTimerNotBefore0
  <1>4. CASE running
    <2>1. entries' = without /\ due' = due
      BY <1>4 DEF MetronomeOn, MetronomeEntries
    <2>2. QED
      BY <1>1, <2>1
  <1>5. CASE ~running
    <2>1. entries' = set /\ (walk = 0 => due' = Scheduled(set))
      BY <1>5 DEF MetronomeOn, MetronomeEntries, AfterSetTimer
    <2> HIDE DEF set
    <2>2. Awaits(set, Scheduled(set), now)
      BY <1>3, ScheduledAwaits
    <2>3. QED
      BY <1>3, <2>1, <2>2
  <1>6. QED
    BY <1>4, <1>5

\* The player sets its timer for a moment after the start of the program.
LEMMA NextCallNotBefore0 ==
  ASSUME IInv, AlarmInv, handling
  PROVE  Entry(NextCall, Player, 0).time >= 0
  <1> USE DEF Types
  <1>1. start \in Nat
    BY DEF PlayInv, HandlingInv, StartMeasures, AlarmInv
  <1>2. Times[pos] \in Nat
    BY File DEF PlayInv, HandlingInv
  <1>3. (seconds + 1) * Second \in Nat
    BY DEF AlarmInv
  <1>4. {Times[pos] + start, start + (seconds + 1) * Second} \in SUBSET Nat
    BY <1>1, <1>2, <1>3
  <1>5. NextCall \in Nat
    BY <1>4, LeastPlace DEF NextCall
  <1>6. QED
    BY <1>5 DEF Entry

\* The parts of AlarmInv that are about the clock only.
LEMMA ClockStep ==
  ASSUME IInv, AlarmInv, Next
  PROVE  /\ walk' \in Nat /\ asOf' >= 0 /\ seconds' >= 0
         /\ (isPlaying => 0 <= played /\ played <= now)'
  <1> USE DEF Types, AlarmInv
  <1>1. CASE TimePasses \/ TimerWalks
    <2>1. CASE TimePasses
      <3>1. now' = now + 1 /\ UNCHANGED <<walk, asOf, seconds, isPlaying>>
        BY <2>1 DEF TimePasses, Tick
      <3>2. played' \in {played, played + 1}
        BY <2>1 DEF TimePasses
      <3>3. QED
        BY <3>1, <3>2
    <2>2. CASE TimerWalks
      <3>1. walk' \in {0, 1, walk + 1} /\ asOf' \in {0, now, asOf}
        BY <2>2 DEF TimerWalks, Notify, Skip, WalkEnds
      <3>2. UNCHANGED <<now, seconds, isPlaying, played>>
        BY <2>2 DEF TimerWalks, Notify, Skip, WalkEnds
      <3>3. QED
        BY <3>1, <3>2
    <2>3. QED
      BY <1>1, <2>1, <2>2
  <1>2. CASE Play \/ Stop \/ Pause
    BY <1>2 DEF Play, Stop, Pause, Begin
  <1>3. CASE GoOn
    BY <1>3 DEF GoOn, Begin
  <1>4. CASE PressMetronome \/ UpdateBPM
    BY <1>4 DEF PressMetronome, UpdateBPM
  <1>5. CASE HandleTimer
    BY <1>5 DEF HandleTimer, Begin
  <1>6. CASE PlayEvent
    BY <1>6 DEF PlayEvent
  <1>7. CASE LastEvent \/ WaitForEvent
    <2>1. \E es : Leave(es)
      BY <1>7 DEF LastEvent, WaitForEvent
    <2>2. UNCHANGED <<now, asOf>> /\ walk' \in {walk, walk + 1}
      BY <2>1 DEF Leave
    <2>3. UNCHANGED <<seconds, played>> /\ (isPlaying' => isPlaying)
      BY <1>7 DEF LastEvent, WaitForEvent
    <2>4. QED
      BY <2>2, <2>3
  <1>8. CASE BeatSounds
    BY <1>8 DEF BeatSounds
  <1> HIDE DEF Types, AlarmInv
  <1>9. \/ TimePasses \/ TimerWalks \/ Play \/ Stop \/ Pause \/ GoOn \/ PressMetronome
        \/ UpdateBPM \/ HandleTimer \/ PlayEvent \/ LastEvent \/ WaitForEvent \/ BeatSounds
    BY DEF Next, User, Handlers
  <1>10. QED
    BY <1>1, <1>2, <1>3, <1>4, <1>5, <1>6, <1>7, <1>8, <1>9, Zenon

\* The table and the alarm.
LEMMA AlarmStep ==
  ASSUME IInv, AlarmInv, Next
  PROVE  NotBefore0(entries') /\ (walk' = 0 => Awaits(entries', due', now'))
  <1> USE DEF Types, AlarmInv
  <1> DEFINE after(es) == [es EXCEPT ![walk] = AfterCall(@)]
  <1>0. /\ walk + 1 # 0
        /\ \A es \in Seq(EntryTypes) : NotBefore0(es) => NotBefore0(after(es))
    <2>1. walk + 1 # 0
      OBVIOUS
    <2>2. asOf \in Int /\ asOf >= 0
      OBVIOUS
    <2>3. ASSUME NEW es \in Seq(EntryTypes), NotBefore0(es)
          PROVE  NotBefore0([es EXCEPT ![walk] = AfterCall(@)])
      BY <2>2, <2>3, ReturnNotBefore0
    <2>4. QED
      BY <2>1, <2>3
  <1> HIDE DEF after
  <1>1. CASE TimePasses
    <2>1. now' = now + 1 /\ UNCHANGED <<entries, due, walk>>
      BY <1>1 DEF TimePasses, Tick
    <2>2. ASSUME NEW i \in Live(entries), walk = 0
          PROVE  due \in Nat /\ (due <= entries[i].time \/ due <= now' + 1)
      <3>1. due \in Nat /\ (due <= entries[i].time \/ due <= now + 1)
        BY <2>2 DEF Awaits
      <3>2. QED
        BY <2>1, <3>1
    <2>3. QED
      BY <2>1, <2>2 DEF Awaits
  <1>2. CASE TimerWalks
    <2>1. now' = now /\ entries' = entries /\ (walk' = 0 => due' = Scheduled(entries))
      BY <1>2 DEF TimerWalks, Notify, Skip, WalkEnds
    <2>2. QED
      BY <2>1, ScheduledAwaits
  <1>3. CASE Play \/ Stop \/ Pause
    <2>1. UNCHANGED <<now, due, walk>> /\ entries' = WithoutTimer(entries, Player)
      BY <1>3 DEF Play, Stop, Pause, EntriesOfStopped
    <2>2. QED
      BY <2>1, WithoutTimerAwaits
  <1>4. CASE GoOn
    BY <1>4 DEF GoOn
  <1>5. CASE PressMetronome
    BY <1>5, MetronomeAwaits DEF PressMetronome
  <1>6. CASE UpdateBPM
    <2>1. UNCHANGED <<now, due, walk>> /\ beat' \in Beats
      BY <1>6 DEF UpdateBPM
    <2>2. entries' \in {entries, WithInterval(entries, Metronome, beat')}
      BY <1>6 DEF UpdateBPM
    <2>3. QED
      BY <2>1, <2>2, IntervalAwaits
  <1>7. CASE HandleTimer
    <2>1. \/ UNCHANGED <<now, due, walk, entries>>
          \/ walk' = walk + 1 /\ entries' = after(entries)
      BY <1>7 DEF HandleTimer, after
    <2>2. QED
      BY <1>0, <2>1
  <1>8. CASE PlayEvent
    <2>1. now' = now /\ walk' = walk /\ (MetronomeOn \/ UNCHANGED <<entries, due>>)
      BY <1>8 DEF PlayEvent
    <2>2. QED
      BY <2>1, MetronomeAwaits
  <1>9. CASE LastEvent
    <2> DEFINE es == WithoutTimer(entries, Player)
    <2>1. /\ es \in Seq(EntryTypes) /\ NotBefore0(es)
          /\ walk = 0 => Awaits(es, due, now)
      BY WithoutTimerFacts, WithoutTimerAwaits
    <2>2. /\ now' = now /\ due' = due
          /\ \/ walk' = walk /\ entries' = es
             \/ walk' = walk + 1 /\ entries' = after(es)
      BY <1>9 DEF LastEvent, Leave, after
    <2> HIDE DEF es
    <2>3. QED
      BY <1>0, <2>1, <2>2
  <1>10. CASE WaitForEvent
    <2> DEFINE es == WithTimer(entries, Entry(NextCall, Player, 0))
    <2>1. es \in Seq(EntryTypes) /\ NotBefore0(es)
      BY <1>10, NextCallType, NextCallNotBefore0, WithTimerFacts, WithTimerNotBefore0
         DEF WaitForEvent
    <2>2. /\ now' = now
          /\ walk = 0 => walk' = 0 /\ entries' = es /\ due' = Scheduled(es)
          /\ walk # 0 => walk' = walk + 1 /\ entries' = after(es)
      BY <1>10 DEF WaitForEvent, Leave, AfterSetTimer, after
    <2> HIDE DEF es
    <2>3. Awaits(es, Scheduled(es), now)
      BY <2>1, ScheduledAwaits
    <2>4. QED
      BY <1>0, <2>1, <2>2, <2>3
  <1>11. CASE BeatSounds
    <2>1. walk' = walk + 1 /\ entries' = after(entries)
      BY <1>11 DEF BeatSounds, after
    <2>2. QED
      BY <1>0, <2>1
  <1> HIDE DEF Types, AlarmInv
  <1>12. \/ TimePasses \/ TimerWalks \/ Play \/ Stop \/ Pause \/ GoOn \/ PressMetronome
         \/ UpdateBPM \/ HandleTimer \/ PlayEvent \/ LastEvent \/ WaitForEvent \/ BeatSounds
    BY DEF Next, User, Handlers
  <1>13. QED
    BY <1>1, <1>2, <1>3, <1>4, <1>5, <1>6, <1>7, <1>8, <1>9, <1>10, <1>11, <1>12, Zenon

LEMMA InitAlarm == Init => AlarmInv
  BY DEF Init, TimerInit, AlarmInv, NotBefore0, Awaits, Live

LEMMA AlarmStutter == ASSUME AlarmInv, UNCHANGED vars PROVE AlarmInv'
  BY DEF vars, AlarmInv, NotBefore0, Awaits, Live

\* What the alarm waits for includes the earliest entry.
LEMMA ArmedFromAlarm == ASSUME IInv, AlarmInv PROVE Armed
  <1> USE DEF Types
  <1> DEFINE times == {entries[i].time : i \in Live(entries)}
  <1> SUFFICES ASSUME walk = 0, Live(entries) # {}
               PROVE  /\ due # Never
                      /\ due <= IF Least(times) > now THEN Least(times) ELSE now + 1
    BY DEF Armed, Idle
  <1>1. \A i \in Live(entries) : entries[i] \in EntryTypes /\ entries[i].time >= 0
    BY DEF Live, NotBefore0, AlarmInv
  <1>2. times \in SUBSET Nat /\ times # {}
    BY <1>1 DEF EntryTypes
  <1>3. Least(times) \in times
    <2> HIDE DEF times
    <2>1. QED
      BY <1>2, LeastPlace
  <1>4. PICK i \in Live(entries) : entries[i].time = Least(times)
    BY <1>3
  <1>5. due \in Nat /\ (due <= Least(times) \/ due <= now + 1)
    BY <1>4 DEF AlarmInv, Awaits
  <1>6. Least(times) \in Nat
    BY <1>1, <1>4 DEF EntryTypes
  <1> HIDE DEF times
  <1>7. QED
    BY <1>5, <1>6 DEF Never

-----------------------------------------------------------------------------
\* The clock, the table of timers and the position in the file agree forever.
THEOREM PlayerInvariant == Spec => [](IInv /\ TableInv /\ AlarmInv)
  <1>1. IInv /\ [Next]_vars => IInv'
    BY FlagsStep, EntriesStep, PlayStep, Stutter
  <1>2. IInv /\ TableInv /\ [Next]_vars => TableInv'
    <2>1. ASSUME IInv, TableInv, Next PROVE TableInv'
      BY <2>1, MetronomeStep, PlayerStep DEF TableInv
    <2>2. QED
      BY <2>1, TableStutter
  <1>3. IInv /\ AlarmInv /\ [Next]_vars => AlarmInv'
    <2>1. ASSUME IInv, AlarmInv, Next PROVE AlarmInv'
      BY <2>1, ClockStep, AlarmStep DEF AlarmInv
    <2>2. QED
      BY <2>1, AlarmStutter
  <1>4. QED
    BY <1>1, <1>2, <1>3, InitIInv, InitTable, InitAlarm, PTL DEF Spec

\* An event is played no earlier than its time from the start of the file,
\* not counting the time for which the player paused.
THEOREM NotBeforeItsTimeAlways == Spec => []NotBeforeItsTime
  <1>1. IInv => NotBeforeItsTime
    BY DEF IInv, PlayInv
  <1>2. QED
    BY <1>1, PlayerInvariant, PTL

\* Whatever the handlers do to the table in the middle of a walk: a file that
\* plays has exactly one timer, at or before its next event, the metronome has
\* one exactly while it runs, and a stopped or pausing player has none.
THEOREM OneTimerEachAlways == Spec => []OneTimerEach
  <1>1. IInv /\ TableInv => OneTimerEach
    <2> SUFFICES ASSUME IInv, MetronomeInv, PlayerInv, Idle
                 PROVE  /\ Cardinality(Of(entries, Player)) = IF isPlaying /\ ~pause THEN 1 ELSE 0
                        /\ \A i \in Of(entries, Player) : entries[i].time <= Times[pos] + start
                        /\ Cardinality(Of(entries, Metronome)) = IF running THEN 1 ELSE 0
                        /\ \A i \in Of(entries, Metronome) : entries[i].interval = beat
      BY DEF TableInv, OneTimerEach
    <2>1. NoneOf(Player, entries) <=> ~(isPlaying /\ ~pause)
      BY DEF PlayerInv, Idle
    <2>2. NoneOf(Metronome, entries) <=> ~running
      BY DEF MetronomeInv
    <2>3. /\ Cardinality(Of(entries, Player)) = IF isPlaying /\ ~pause THEN 1 ELSE 0
          /\ Cardinality(Of(entries, Metronome)) = IF running THEN 1 ELSE 0
      BY <2>1, <2>2, Counted DEF PlayerInv, MetronomeInv
    <2>4. QED
      BY <2>3 DEF PlayerInv, MetronomeInv, Of, Idle
  <1>2. QED
    BY <1>1, PlayerInvariant, PTL

\* Whenever the GUI thread is idle and an entry waits, the wxTimer runs and
\* fires no later than for the earliest of them, whether SetTimer() scheduled
\* it or left that to the Notify() that it was called in.
THEOREM ArmedAlways == Spec => []Armed
  BY PlayerInvariant, ArmedFromAlarm, PTL

-----------------------------------------------------------------------------
(* Types *)

\* What the types of the table and of the clock leave open.
RestInv == now <= MaxTime /\ pos <= NEvents + 1 /\ due \in Int

LEMMA ScheduledType ==
  ASSUME NEW es \in Seq(EntryTypes), NotBefore0(es), now \in Nat, due \in Int
  PROVE  Scheduled(es) \in Int /\ AfterSetTimer(es) \in Int
  <1>1. CASE Live(es) = {}
    BY <1>1 DEF Scheduled, AfterSetTimer
  <1>2. CASE Live(es) # {}
    BY <1>2, ScheduledAwaits DEF Awaits, AfterSetTimer
  <1>3. QED
    BY <1>1, <1>2

LEMMA RestStep ==
  ASSUME IInv, AlarmInv, RestInv, IInv', AlarmInv', Next
  PROVE  RestInv'
  <1> USE DEF RestInv
  <1>1. now \in Nat /\ entries \in Seq(EntryTypes) /\ NotBefore0(entries) /\ NEvents \in Nat
    BY File DEF Types, AlarmInv
  <1>2. entries' \in Seq(EntryTypes) /\ NotBefore0(entries') /\ pos \in Nat
    BY DEF Types, AlarmInv
  <1>3. AfterSetTimer(entries') \in Int /\ Scheduled(entries) \in Int
    BY <1>1, <1>2, ScheduledType
  <1>4. CASE TimePasses
    BY <1>4, TimerAssumption, <1>1 DEF TimePasses, Tick, NEvents
  <1>5. CASE TimerWalks
    BY <1>5, <1>3 DEF TimerWalks, Notify, Skip, WalkEnds, Never, NEvents
  <1>6. CASE User
    BY <1>6, <1>1, <1>3 DEF User, Play, Stop, Pause, GoOn, PressMetronome, UpdateBPM, MetronomeOn, Begin, NEvents
  <1>7. CASE HandleTimer \/ PlayEvent \/ LastEvent \/ BeatSounds
    BY <1>7, <1>1, <1>2, <1>3 DEF HandleTimer, PlayEvent, LastEvent, BeatSounds, MetronomeOn, Begin, Leave, NEvents
  <1>8. CASE WaitForEvent
    <2> DEFINE es == WithTimer(entries, Entry(NextCall, Player, 0))
    <2>1. due' = AfterSetTimer(es) /\ (walk = 0 => entries' = es) /\ UNCHANGED <<now, pos>>
      BY <1>8 DEF WaitForEvent, Leave
    <2> HIDE DEF es
    <2>2. AfterSetTimer(es) \in Int
      <3>1. CASE walk = 0
        BY <1>3, <2>1, <3>1
      <3>2. CASE walk # 0
        BY <3>2 DEF AfterSetTimer
      <3>3. QED
        BY <3>1, <3>2
    <2>3. QED
      BY <2>1, <2>2 DEF NEvents
  <1>9. QED
    BY <1>4, <1>5, <1>6, <1>7, <1>8 DEF Next, Handlers

\* The table, the alarm, the walk and the player's position keep to their types: the walk
\* and the position never leave the table and the file, and every interval is 0 or a tempo.
THEOREM PlayerTypeCorrect == Spec => []TypeOK
  <1> DEFINE Inv == IInv /\ TableInv /\ AlarmInv
  <1>1. Init => RestInv
    BY TimerAssumption, File DEF Init, TimerInit, RestInv, Never
  <1>2. Inv /\ Inv' /\ RestInv /\ [Next]_vars => RestInv'
    <2>1. CASE Next
      BY <2>1, RestStep
    <2>2. CASE UNCHANGED vars
      BY <2>2 DEF vars, RestInv, NEvents
    <2>3. QED
      BY <2>1, <2>2
  <1>3. Inv /\ RestInv => TypeOK
    <2> SUFFICES ASSUME Inv, RestInv PROVE TypeOK
      OBVIOUS
    <2>1. \A i \in DOMAIN entries : entries[i] \in EntryTypes
      BY DEF Types
    <2>2. NEvents \in Nat
      BY File
    <2>3. QED
      BY <2>1, <2>2, TimerAssumption DEF RestInv, Types, Flags, AlarmInv, EntryTypes, Intervals, TypeOK
  <1>4. QED
    BY <1>1, <1>2, <1>3, PlayerInvariant, PTL DEF Spec

==============================================================================
