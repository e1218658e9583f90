-------------------------------- MODULE Timer --------------------------------
(***************************************************************************)
(* GOTimer: a table of entries on top of one one-shot wxTimer.  All of it  *)
(* runs in the GUI thread.  Notify() walks the table and calls HandleTimer *)
(* of the entries that are due; what a handler does to the table in the    *)
(* middle of the walk (SetTimer, DeleteTimer) is the point of the model.   *)
(*                                                                         *)
(* The handlers belong to the module that extends this one: it takes       *)
(* Calls(c) as the moment at which HandleTimer of c begins, and Return as  *)
(* the moment at which Notify() goes on.                                   *)
(***************************************************************************)
EXTENDS Integers, Sequences, FiniteSets

CONSTANTS MaxTime   \* bound: the clock stops here

ASSUME TimerAssumption == MaxTime \in Nat

VARIABLES
  now,      \* wxGetLocalTimeMillis()
  entries,  \* m_Entries
  due,      \* when the wxTimer fires, or Never
  walk,     \* index of the entry that Notify() is at, 0 outside of it
  asOf      \* the local now of Notify()

timerVars == <<now, entries, due, walk, asOf>>

NoCallback == "none"
Never == -1

TimerInit == /\ now = 0
             /\ entries = << >>
             /\ due = Never
             /\ walk = 0
             /\ asOf = 0

Entry(time, c, interval) == [time |-> time, callback |-> c, interval |-> interval]
Live(es) == {i \in DOMAIN es : es[i].callback # NoCallback}
Of(es, c) == {i \in DOMAIN es : es[i].callback = c}
Least(S) == CHOOSE x \in S : \A y \in S : x <= y

(* SetTimer(): the first free entry, or a new one. *)
WithTimer(es, e) ==
  LET free == DOMAIN es \ Live(es)
  IN  IF free = {} THEN Append(es, e) ELSE [es EXCEPT ![Least(free)] = e]

(* DeleteTimer() frees every entry of the callback. *)
WithoutTimer(es, c) ==
  [i \in DOMAIN es |-> IF es[i].callback = c
                         THEN [es[i] EXCEPT !.callback = NoCallback] ELSE es[i]]

WithInterval(es, c, interval) ==
  [i \in DOMAIN es |-> IF es[i].callback = c
                         THEN [es[i] EXCEPT !.interval = interval] ELSE es[i]]

(* Schedule() starts the wxTimer for the earliest entry, if there is any. *)
Scheduled(es) ==
  IF Live(es) = {} THEN due
  ELSE LET next == Least({es[i].time : i \in Live(es)})
       IN  IF next > now THEN next ELSE now + 1

\* Faulty: Schedule() is left to Notify().
ScheduledByNotify(es) == due

(* SetTimer() schedules if it gets m_Lock, which Notify() holds. *)
AfterSetTimer(es) == IF walk = 0 THEN Scheduled(es) ELSE due

Tick == /\ now < MaxTime
        /\ now' = now + 1
        /\ UNCHANGED <<entries, due, walk, asOf>>

(* The wxTimer fires. *)
Notify == /\ walk = 0
          /\ due # Never
          /\ due <= now
          /\ walk' = 1
          /\ asOf' = now
          /\ due' = Never
          /\ UNCHANGED <<now, entries>>

IsDue(i) == i \in Live(entries) /\ entries[i].time <= asOf

Skip == /\ walk \in DOMAIN entries
        /\ ~IsDue(walk)
        /\ walk' = walk + 1
        /\ UNCHANGED <<now, entries, due, asOf>>

Calls(c) == walk \in DOMAIN entries /\ IsDue(walk) /\ entries[walk].callback = c

(* After HandleTimer(): a periodic entry is set again, another is freed.   *)
(* The entry is looked up anew: the handler may have freed or reused it.   *)
NextTime(e) == (IF e.time <= asOf + e.interval THEN asOf ELSE e.time) + e.interval

\* Faulty: the entry is freed, whatever its interval.
AfterCallOnce(e) == [e EXCEPT !.callback = NoCallback]

AfterCall(e) == IF e.interval # 0 THEN [e EXCEPT !.time = NextTime(e)]
                ELSE [e EXCEPT !.callback = NoCallback]

Return(es) == /\ entries' = [es EXCEPT ![walk] = AfterCall(@)]
              /\ walk' = walk + 1
              /\ UNCHANGED <<now, asOf>>

WalkEnds == /\ walk # 0
            /\ walk > Len(entries)
            /\ walk' = 0
            /\ asOf' = 0
            /\ due' = Scheduled(entries)
            /\ UNCHANGED <<now, entries>>
=============================================================================
