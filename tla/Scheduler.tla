------------------------------ MODULE Scheduler ------------------------------
(***************************************************************************)
(* GOScheduler's work list and plan as pure operators: the order of the    *)
(* list (SortList), and the plan that GetNextTask() hands out (Update).    *)
(*                                                                         *)
(* The work list is a sequence of tasks (m_Work[0] is list[1]).  A plan is *)
(* a sequence of positions in that list, as m_Tasks is a vector of         *)
(* pointers to its slots.  Remove(), which only the tests call, and the    *)
(* null slots it leaves are not modelled.                                  *)
(***************************************************************************)
EXTENDS Integers, Sequences, FiniteSets, SequencesExt

CONSTANTS
  Tasks,
  Priority,      \* GetPriority() of each task
  Repeatable,    \* the tasks for which IsRepeatable()
  RepeatCount    \* m_RepeatCount

ASSUME SchedulerAssumption ==
  /\ Priority \in [Tasks -> Nat]
  /\ Repeatable \subseteq Tasks
  /\ RepeatCount \in Nat \ {0}   \* the setting ReleaseConcurrency is at least 1

\* Faulty: the cost alone decides.
CompareByCost(cost, a, b) == cost[a] < cost[b]

\* CompareItem(): b is to be scheduled before a. The cost decides even against
\* the priority.
CompareItem(cost, a, b) == Priority[a] > Priority[b] \/ cost[a] < cost[b]

\* Faulty: the item is written over another one.
InsertOverwriting(cost, list, n) ==
  IF CompareItem(cost, list[n - 1], list[n])
    THEN [list EXCEPT ![n - 1] = list[n]]
    ELSE list

\* One round of the insertion sort: the item at n moves towards the front past
\* the items it precedes, but never past the first one ("j > 0").
Insert(cost, list, n) ==
  LET k == CHOOSE k \in 2..n :
             /\ \A m \in k..(n - 1) : CompareItem(cost, list[m], list[n])
             /\ k = 2 \/ ~CompareItem(cost, list[k - 1], list[n])
  IN  InsertAt(RemoveAt(list, n), k, list[n])

SortList(cost, list) ==
  LET from[n \in Nat \ {0}] ==
        [l \in [DOMAIN list -> Tasks] |->
           IF n >= Len(list) THEN l ELSE from[n + 1][Insert(cost, l, n + 1)]]
  IN  from[1][list]

\* The end of the run of equal priorities that begins at i.
RunEnd(list, i) ==
  CHOOSE e \in i..Len(list) :
    /\ \A m \in i..e : Priority[list[m]] = Priority[list[i]]
    /\ e = Len(list) \/ Priority[list[e + 1]] # Priority[list[i]]

\* Update(): one run after the other; a run that begins with a repeatable task
\* is planned RepeatCount times.
Plan(list) ==
  LET from[i \in Nat \ {0}] ==
        IF i > Len(list) THEN <<>>
        ELSE LET e == RunEnd(list, i)
                 n == e - i + 1
                 r == IF list[i] \in Repeatable THEN RepeatCount ELSE 1
             IN  [m \in 1..(n * r) |-> i + ((m - 1) % n)] \o from[e + 1]
  IN  from[1]

\* How often the plan hands a task out in one round.
Offers(plan, list, t) == Cardinality({k \in DOMAIN plan : list[plan[k]] = t})

==============================================================================
