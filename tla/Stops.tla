-------------------------------- MODULE Stops --------------------------------
(***************************************************************************)
(* The pipe end of the key action: GOStop passes the keys of its manual to *)
(* the ranks, GORank lets a pipe speak as loudly as the loudest stop asks. *)
(*                                                                         *)
(* All handlers run on the main thread, one after another and depth first. *)
(* `calls' is what the handler that runs has still to call, the next call  *)
(* first: a step takes it and puts the calls it makes itself in its place. *)
(* Couplers.tla adds the manuals and the couplers.                         *)
(***************************************************************************)
EXTENDS Integers, Sequences, FiniteSets

CONSTANTS
  Stops, Ranks,
  FirstKey,    \* m_FirstAccessiblePipeLogicalKeyNumber of each stop, from 1
  NKeysOfStop, \* m_NumberOfAccessiblePipes
  RankInfo,    \* m_RankInfo: a sequence of [rank, firstKey, firstPipe, count]
  NPipes,      \* m_Pipes.size() of each rank
  MaxVelocity  \* 0x7f

ASSUME StopsAssumption ==
  /\ FirstKey \in [Stops -> Nat \ {0}] /\ NKeysOfStop \in [Stops -> Nat \ {0}]
  /\ NPipes \in [Ranks -> Nat \ {0}] /\ MaxVelocity \in Nat \ {0}
  /\ RankInfo \in [Stops -> Seq([rank : Ranks, firstKey : Nat \ {0},
                                 firstPipe : Nat \ {0}, count : Nat \ {0}])]

VARIABLES
  calls,    \* what is still to be called
  stopOn,   \* IsEngaged() of each stop
  stopKey,  \* its m_KeyVelocities, by key index from 0
  asked,    \* m_NoteStopVelocities: by rank, pipe, and <<stop, rank info>>
  pipe      \* m_MaxNoteVelocities, the velocity of each pipe

stopVars == <<stopOn, stopKey, asked, pipe>>

StopKeys(s) == 0..NKeysOfStop[s] - 1
Pipes(r)    == 0..NPipes[r] - 1

\* RegisterStop(): every use of a rank by a stop has its own number.
Users(r) == UNION {{<<s, i>> : i \in {i \in DOMAIN RankInfo[s] : RankInfo[s][i].rank = r}} :
                   s \in Stops}

\* IsForEffects(): a single pipe sounds as long as the stop is engaged.
Effects == {s \in Stops : Len(RankInfo[s]) = 1 /\ NPipes[RankInfo[s][1].rank] = 1}

PipeLevels == 0..MaxVelocity

SetMax(S) == CHOOSE x \in S : \A y \in S : x >= y

----------------------------------------------------------------------------
(* The calls *)

StopKeyCall(s, key, vel)    == [op |-> "StopKey", at |-> s, key |-> key, vel |-> vel]
RanksCall(s, key, vel)      == [op |-> "Ranks", at |-> s, key |-> key, vel |-> vel]
RankKeyCall(s, i, key, vel) == [op |-> "RankKey", at |-> <<s, i>>, key |-> key, vel |-> vel]

StopCalls ==
  [op : {"StopKey", "Ranks"}, at : Stops, key : Nat, vel : PipeLevels] \union
  [op : {"RankKey"}, at : UNION {{s} \X DOMAIN RankInfo[s] : s \in Stops},
   key : Nat, vel : PipeLevels]

Call          == Head(calls)
Doing(op)     == calls # <<>> /\ Call.op = op
Continue(seq) == calls' = seq \o Tail(calls)

\* Does this use of a rank take the key? The upper end takes one key too many.
Reaches(info, key) == key + 1 >= info.firstKey /\ key < info.firstKey + info.count

PipeOf(info, key) == key + info.firstPipe - info.firstKey

\* Faulty: the pipe follows the last stop that asks.
NewMaximumLast(old, before, vel, others) == vel

\* GORank::SetPipeState(): the maximum is searched for again only if this stop
\* asked for it and now asks for less.
NewMaximum(old, before, vel, others) ==
  IF vel > old \/ vel < before
    THEN IF vel >= old THEN vel ELSE SetMax(others \union {vel})
    ELSE old

\* GOStop::SetRankKeyState(): every rank of the stop ...
SetRankKeyState ==
  /\ Doing("Ranks")
  /\ Continue([i \in DOMAIN RankInfo[Call.at] |-> RankKeyCall(Call.at, i, Call.key, Call.vel)])
  /\ UNCHANGED stopVars

\* ... and one of them.
RankKey ==
  /\ Doing("RankKey")
  /\ LET s    == Call.at[1]
         info == RankInfo[s][Call.at[2]]
         r    == info.rank
         p    == PipeOf(info, Call.key)
     IN  IF Reaches(info, Call.key) /\ p \in Pipes(r)
           THEN /\ asked' = [asked EXCEPT ![r][p][Call.at] = Call.vel]
                /\ pipe' = [pipe EXCEPT ![r][p] =
                     NewMaximum(@, asked[r][p][Call.at], Call.vel,
                                {asked[r][p][u] : u \in Users(r) \ {Call.at}})]
           ELSE UNCHANGED <<asked, pipe>>
  /\ Continue(<<>>)
  /\ UNCHANGED <<stopOn, stopKey>>

\* GOStop::SetKeyState(): the key is remembered whether or not the stop is on.
StopKey ==
  /\ Doing("StopKey")
  /\ LET s == Call.at
         k == Call.key - FirstKey[s]
     IN  IF k \in StopKeys(s) /\ s \notin Effects /\ stopKey[s][k] # Call.vel
           THEN /\ stopKey' = [stopKey EXCEPT ![s][k] = Call.vel]
                /\ Continue(IF stopOn[s] THEN <<RanksCall(s, k, Call.vel)>> ELSE <<>>)
           ELSE UNCHANGED stopKey /\ Continue(<<>>)
  /\ UNCHANGED <<stopOn, asked, pipe>>

\* OnDrawstopStateChanged() of a stop
SwitchStop(s) ==
  /\ calls = <<>>
  /\ stopOn' = [stopOn EXCEPT ![s] = ~@]
  /\ calls' = IF s \in Effects
                THEN <<RanksCall(s, 0, IF stopOn[s] THEN 0 ELSE MaxVelocity)>>
                ELSE [k \in 1..NKeysOfStop[s] |->
                       RanksCall(s, k - 1, IF stopOn[s] THEN 0 ELSE stopKey[s][k - 1])]
  /\ UNCHANGED <<stopKey, asked, pipe>>

NoStopKeys == [s \in Stops |-> [k \in StopKeys(s) |-> 0]]
NotAsked   == [r \in Ranks |-> [p \in Pipes(r) |-> [u \in Users(r) |-> 0]]]
NoPipes    == [r \in Ranks |-> [p \in Pipes(r) |-> 0]]

StopsInit ==
  /\ stopOn = [s \in Stops |-> FALSE]
  /\ stopKey = NoStopKeys /\ asked = NotAsked /\ pipe = NoPipes

\* PreparePlayback() of stops and ranks, after AbortPlayback() has switched the
\* effects off: the sound starts with silent pipes.
PrepareStops ==
  /\ stopOn' = [s \in Stops |-> stopOn[s] /\ s \notin Effects]
  /\ stopKey' = NoStopKeys /\ asked' = NotAsked /\ pipe' = NoPipes

StopsTypeOK ==
  /\ stopOn \in [Stops -> BOOLEAN]
  /\ \A s \in Stops : stopKey[s] \in [StopKeys(s) -> PipeLevels]
  /\ \A r \in Ranks : /\ asked[r] \in [Pipes(r) -> [Users(r) -> PipeLevels]]
                      /\ pipe[r] \in [Pipes(r) -> PipeLevels]

\* What the engaged stop s asks of pipe p through its rank info i.
Asks(s, i, p) ==
  LET info == RankInfo[s][i]
  IN  {0} \union
      (IF ~stopOn[s] THEN {}
       ELSE IF s \in Effects
         THEN {MaxVelocity : k \in {k \in {0} : Reaches(info, k) /\ PipeOf(info, k) = p}}
         ELSE {stopKey[s][k] : k \in {k \in StopKeys(s) : Reaches(info, k) /\ PipeOf(info, k) = p}})
==============================================================================
