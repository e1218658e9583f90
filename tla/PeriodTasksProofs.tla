--------------------------- MODULE PeriodTasksProofs ---------------------------
(***************************************************************************)
(* The tasks of the audio periods, for every graph of tasks, every number  *)
(* of workers and every repeat count.                                      *)
(*                                                                         *)
(* The work list.  Sorting moves a task towards the front past tasks of a  *)
(* higher priority or of a lower cost.  A task that sums buffers has no    *)
(* cost, so it never gets past one of a lower priority: that is Behind,    *)
(* which every single insertion keeps, for whatever costs (InsertKeeps).   *)
(* The plan holds positions of a list whose runs of priorities it covers   *)
(* one after the other (PlanCovers), so it stays complete when the list is *)
(* sorted under it.                                                        *)
(*                                                                         *)
(* The rounds.  The calls that a thread is in form a stack of tasks that   *)
(* it holds, each asked for by the next one (Stack).  While the callback   *)
(* completes the round, the tasks before its position are done, and while  *)
(* it renews them the tasks from there on still are (OwnerInv): nobody is  *)
(* in a task of an earlier round.  A task that is open again stands behind *)
(* its inputs, so these are open or done in the new round as well          *)
(* (InputCurrent), and what it sums is fresh (Fresh).                      *)
(*                                                                         *)
(* SortList(), Plan() and Prerequisites() recurse towards the end of a     *)
(* list.  Recursive shows that such a function exists, Downwards is the    *)
(* induction along it.                                                     *)
(***************************************************************************)
EXTENDS PeriodTasks, SequenceTheorems, FiniteSetTheorems, WellFoundedInduction, TLAPS

\* The positions of a list, and those after its end
Places == Nat \ {0}

-----------------------------------------------------------------------------
(* Recursion towards the end of a list *)

\* A set of natural numbers has a least element.
LEMMA Least ==
  ASSUME NEW S \in SUBSET Nat, S # {}
  PROVE  \E x \in S : \A y \in S : x <= y
  <1>1. PICK less : /\ IsWellFoundedOn(less, Nat)
                    /\ \A x, y \in Nat : x < y => <<x, y>> \in less
    <2>1. \A x, y \in Nat : x < y => <<x, y>> \in OpToRel(<, Nat)
      BY DEF OpToRel
    <2> QED  BY <2>1, NatLessThanWellFounded
  <1>2. PICK x \in S : \A y \in S : ~(<<y, x>> \in less)
    <2>1. S \subseteq Nat /\ IsWellFoundedOn(less, Nat)
      BY <1>1
    <2> QED  BY <2>1, WFMin, Zenon
  <1>3. ASSUME NEW y \in S PROVE x <= y
    <2>1. x \in Nat /\ y \in Nat /\ ~(y < x)
      BY <1>1, <1>2
    <2> QED  BY <2>1
  <1> QED  BY <1>3

\* Induction from the end of a list towards its beginning
LEMMA Downwards ==
  ASSUME NEW L \in Nat, NEW S,
         \A n \in Places : n > L => n \in S,
         \A n \in Places : (\A m \in Places : m > n => m \in S) => n \in S
  PROVE  Places \subseteq S
  <1> DEFINE missing == {d \in Nat : L - d \in Places \ S}
  <1> SUFFICES ASSUME NEW n \in Places, n \notin S
               PROVE  FALSE
    OBVIOUS
  <1>1. L - n \in missing
    BY DEF Places
  <1>2. PICK d \in missing : \A e \in missing : d <= e
    BY <1>1, Least
  <1>3. \A m \in Places : m > L - d => m \in S
    <2> SUFFICES ASSUME NEW m \in Places, m > L - d, m \notin S
                 PROVE  FALSE
      OBVIOUS
    <2>1. L - m \in missing /\ L - m < d
      BY DEF Places
    <2> QED  BY <1>2, <2>1
  <1> QED  BY <1>2, <1>3

\* A step that looks at later places only, up to the end of the list
LooksAhead(Step, T, L) ==
  \A n \in Places : \A g, h \in [Places -> T] :
    n > L \/ (\A m \in Places : m > n => g[m] = h[m]) => Step[n][g] = Step[n][h]

HasFunction(Step, T) == \E f \in [Places -> T] : \A n \in Places : f[n] = Step[n][f]

\* Such a step defines a function: from the end of the list its places are filled in one
\* by one.
LEMMA Recursive ==
  ASSUME NEW L \in Nat, NEW T, NEW z \in T,
         NEW Step \in [Places -> [[Places -> T] -> T]], LooksAhead(Step, T, L)
  PROVE  HasFunction(Step, T)
  <1> DEFINE S == {k \in Places : \E f \in [Places -> T] :
                     \A n \in Places : n >= k => f[n] = Step[n][f]}
  <1>1. \A k \in Places : k > L => k \in S
    <2> DEFINE g == [m \in Places |-> z]
               f == [n \in Places |-> Step[n][g]]
    <2>1. g \in [Places -> T] /\ f \in [Places -> T]
      OBVIOUS
    <2>2. \A n \in Places : f[n] = Step[n][g]
      OBVIOUS
    <2> HIDE DEF f, g
    <2>3. \A n \in Places : n > L => f[n] = Step[n][f]
      BY <2>1, <2>2 DEF LooksAhead
    <2> SUFFICES ASSUME NEW k \in Places, k > L
                 PROVE  \A n \in Places : n >= k => f[n] = Step[n][f]
      BY <2>1
    <2> QED  BY <2>3 DEF Places
  <1>2. \A k \in Places : (\A m \in Places : m > k => m \in S) => k \in S
    <2> SUFFICES ASSUME NEW k \in Places, \A m \in Places : m > k => m \in S
                 PROVE  \E f \in [Places -> T] : \A n \in Places : n >= k => f[n] = Step[n][f]
      OBVIOUS
    <2>1. k + 1 \in Places /\ k + 1 > k
      BY DEF Places
    <2>2. PICK g \in [Places -> T] : \A n \in Places : n >= k + 1 => g[n] = Step[n][g]
      BY <2>1
    <2> DEFINE f == [g EXCEPT ![k] = Step[k][g]]
    <2>3. f \in [Places -> T] /\ f[k] = Step[k][g] /\ \A n \in Places : n # k => f[n] = g[n]
      OBVIOUS
    <2> HIDE DEF f
    <2>4. ASSUME NEW n \in Places, n >= k
          PROVE  f[n] = Step[n][f]
      <3>1. \A m \in Places : m > n => f[m] = g[m]
        BY <2>3, <2>4 DEF Places
      <3>2. Step[n][f] = Step[n][g]
        BY <2>3, <3>1 DEF LooksAhead
      <3>3. CASE n = k
        BY <2>3, <3>2, <3>3
      <3>4. CASE n # k
        <4>1. n >= k + 1
          BY <2>4, <3>4 DEF Places
        <4> QED  BY <2>2, <2>3, <3>2, <3>4, <4>1
      <3> QED  BY <3>3, <3>4
    <2> QED  BY <2>3, <2>4
  <1> HIDE DEF S
  <1>3. Places \subseteq S
    BY <1>1, <1>2, Downwards
  <1>4. 1 \in S
    BY <1>3 DEF Places
  <1>5. \A n \in Places : n >= 1
    BY DEF Places
  <1> QED  BY <1>4, <1>5 DEF S, HasFunction

-----------------------------------------------------------------------------
(* The order of the list *)

\* Up to n, a task that sums buffers stands before none of a lower priority. (The first
\* one of the list is never moved.)
Behind(list, n) ==
  \A i, j \in DOMAIN list :
    1 < i /\ i < j /\ j < n => Inputs[list[i]] = <<>> \/ Priority[list[i]] <= Priority[list[j]]

\* The same tasks, in another order
Reordered(list, new) ==
  /\ new \in Seq(Tasks) /\ Len(new) = Len(list)
  /\ list # <<>> => new[1] = list[1]
  /\ ToSet(new) = ToSet(list)
  /\ IsInjective(list) => IsInjective(new)

\* The place at which Insert() puts the item exists.
LEMMA InsertPlace ==
  ASSUME NEW cost \in Costs, NEW list \in Seq(Tasks), NEW n \in 2..Len(list)
  PROVE  \E k \in 2..n :
           /\ \A m \in k..(n - 1) : CompareItem(cost, list[m], list[n])
           /\ k = 2 \/ ~CompareItem(cost, list[k - 1], list[n])
           /\ Insert(cost, list, n) = InsertAt(RemoveAt(list, n), k, list[n])
  <1> DEFINE Fits(k) == \A m \in k..(n - 1) : CompareItem(cost, list[m], list[n])
             places  == {k \in 2..n : Fits(k)}
  <1>1. n \in places /\ places \in SUBSET Nat
    OBVIOUS
  <1>2. PICK k \in places : \A m \in places : k <= m
    BY <1>1, Least
  <1>3. k = 2 \/ ~CompareItem(cost, list[k - 1], list[n])
    <2> SUFFICES ASSUME k # 2, CompareItem(cost, list[k - 1], list[n])
                 PROVE  FALSE
      OBVIOUS
    <2>1. k - 1 \in 2..n /\ \A m \in (k - 1)..(n - 1) : m = k - 1 \/ m \in k..(n - 1)
      BY <1>2
    <2>2. Fits(k - 1)
      BY <1>2, <2>1
    <2> QED  BY <1>2, <2>1, <2>2
  <1>4. \E q \in 2..n : /\ \A m \in q..(n - 1) : CompareItem(cost, list[m], list[n])
                        /\ q = 2 \/ ~CompareItem(cost, list[q - 1], list[n])
    BY <1>2, <1>3
  <1> QED  BY <1>4 DEF Insert

\* Moving the item at n to place k shifts what lies between by one.
LEMMA InsertShape ==
  ASSUME NEW list \in Seq(Tasks), NEW n \in 2..Len(list), NEW k \in 2..n
  PROVE  LET new == InsertAt(RemoveAt(list, n), k, list[n])
         IN  /\ new \in Seq(Tasks) /\ Len(new) = Len(list)
             /\ \A m \in 1..Len(list) :
                  new[m] = IF m < k THEN list[m] ELSE IF m = k THEN list[n]
                           ELSE IF m <= n THEN list[m - 1] ELSE list[m]
  <1> DEFINE L == Len(list)
             a == SubSeq(list, 1, n - 1)
             b == SubSeq(list, n + 1, L)
             r == RemoveAt(list, n)
             c == SubSeq(r, 1, k - 1)
             d == SubSeq(r, k, Len(r))
             e == <<list[n]>>
             new == InsertAt(r, k, list[n])
  <1>1. L \in Nat /\ \A i \in 1..L : list[i] \in Tasks
    BY LenProperties, ElementOfSeq
  <1> HIDE DEF L
  <1>2. n \in Nat /\ k \in Nat /\ 2 <= k /\ k <= n /\ n <= L
    BY <1>1 DEF L
  <1>3. /\ a \in Seq(Tasks) /\ Len(a) = n - 1 /\ \A i \in 1..(n - 1) : a[i] = list[i]
    <2>1. \A i \in 1..(n - 1) : list[i] \in Tasks
      BY <1>1, <1>2
    <2>2. 1 \in Int /\ n - 1 \in Int
      BY <1>2
    <2>3. /\ a \in Seq(Tasks)
          /\ Len(a) = IF 1 <= n - 1 THEN (n - 1) - 1 + 1 ELSE 0
          /\ \A i \in 1..(n - 1) - 1 + 1 : a[i] = list[1 + i - 1]
      BY <2>1, <2>2, SubSeqProperties
    <2> HIDE DEF a
    <2> QED  BY <1>2, <2>3
  <1>4. /\ b \in Seq(Tasks) /\ Len(b) = L - n /\ \A i \in 1..(L - n) : b[i] = list[n + i]
    <2>1. \A i \in (n + 1)..L : list[i] \in Tasks
      BY <1>1, <1>2
    <2>2. n + 1 \in Int /\ L \in Int
      BY <1>1, <1>2
    <2>3. /\ b \in Seq(Tasks)
          /\ Len(b) = IF n + 1 <= L THEN L - (n + 1) + 1 ELSE 0
          /\ \A i \in 1..L - (n + 1) + 1 : b[i] = list[(n + 1) + i - 1]
      BY <2>1, <2>2, SubSeqProperties
    <2> HIDE DEF b
    <2> QED  BY <1>1, <1>2, <2>3
  <1> HIDE DEF a, b
  <1>5. /\ r \in Seq(Tasks) /\ Len(r) = L - 1
        /\ \A i \in 1..(L - 1) : r[i] = IF i < n THEN list[i] ELSE list[i + 1]
    <2>1. r = a \o b
      BY DEF RemoveAt, a, b, L
    <2> HIDE DEF r
    <2>2. /\ a \o b \in Seq(Tasks) /\ Len(a \o b) = Len(a) + Len(b)
          /\ \A i \in 1..Len(a) + Len(b) :
               (a \o b)[i] = IF i <= Len(a) THEN a[i] ELSE b[i - Len(a)]
      BY <1>3, <1>4, ConcatProperties
    <2>3. Len(a) + Len(b) = L - 1
      BY <1>1, <1>2, <1>3, <1>4
    <2>4. ASSUME NEW i \in 1..(L - 1)
          PROVE  r[i] = IF i < n THEN list[i] ELSE list[i + 1]
      <3>1. CASE i < n
        BY <1>1, <1>2, <1>3, <2>1, <2>2, <2>3, <3>1
      <3>2. CASE i >= n
        <4>1. r[i] = b[i - (n - 1)]
          BY <1>1, <1>2, <1>3, <2>1, <2>2, <2>3, <3>2
        <4>2. i - (n - 1) \in 1..(L - n) /\ n + (i - (n - 1)) = i + 1
          BY <1>1, <1>2, <3>2
        <4> QED  BY <1>2, <1>4, <3>2, <4>1, <4>2
      <3> QED  BY <1>2, <3>1, <3>2
    <2> QED  BY <2>1, <2>2, <2>3, <2>4
  <1> HIDE DEF r
  <1>6. /\ c \in Seq(Tasks) /\ Len(c) = k - 1 /\ \A i \in 1..(k - 1) : c[i] = r[i]
    <2>1. \A i \in 1..(k - 1) : r[i] \in Tasks
      BY <1>1, <1>2, <1>5, ElementOfSeq
    <2>2. 1 \in Int /\ k - 1 \in Int
      BY <1>2
    <2>3. /\ c \in Seq(Tasks)
          /\ Len(c) = IF 1 <= k - 1 THEN (k - 1) - 1 + 1 ELSE 0
          /\ \A i \in 1..(k - 1) - 1 + 1 : c[i] = r[1 + i - 1]
      BY <2>1, <2>2, SubSeqProperties
    <2> HIDE DEF c
    <2> QED  BY <1>2, <2>3
  <1>7. /\ d \in Seq(Tasks) /\ Len(d) = L - k /\ \A i \in 1..(L - k) : d[i] = r[k + i - 1]
    <2>1. \A i \in k..(L - 1) : r[i] \in Tasks
      BY <1>1, <1>2, <1>5, ElementOfSeq
    <2>2. k \in Int /\ L - 1 \in Int
      BY <1>1, <1>2
    <2>3. d = SubSeq(r, k, L - 1)
      BY <1>5
    <2> HIDE DEF d
    <2>4. /\ d \in Seq(Tasks)
          /\ Len(d) = IF k <= L - 1 THEN (L - 1) - k + 1 ELSE 0
          /\ \A i \in 1..(L - 1) - k + 1 : d[i] = r[k + i - 1]
      BY <2>1, <2>2, <2>3, SubSeqProperties
    <2> QED  BY <1>1, <1>2, <2>4
  <1>8. e \in Seq(Tasks) /\ Len(e) = 1 /\ e[1] = list[n]
    BY <1>1, <1>2
  <1>9. new = (c \o e) \o d
    BY DEF InsertAt
  <1> HIDE DEF c, d, e, new
  <1> DEFINE ce == c \o e
  <1>10. /\ ce \in Seq(Tasks) /\ Len(ce) = k /\ new = ce \o d
         /\ \A i \in 1..k : (i < k => ce[i] = r[i]) /\ (i = k => ce[i] = list[n])
    <2>1. /\ c \o e \in Seq(Tasks) /\ Len(c \o e) = Len(c) + Len(e)
          /\ \A i \in 1..Len(c) + Len(e) :
               (c \o e)[i] = IF i <= Len(c) THEN c[i] ELSE e[i - Len(c)]
      BY <1>6, <1>8, ConcatProperties
    <2>2. Len(c) + Len(e) = k
      BY <1>2, <1>6, <1>8
    <2>3. ASSUME NEW i \in 1..k
          PROVE  (i < k => ce[i] = r[i]) /\ (i = k => ce[i] = list[n])
      <3>1. ce[i] = IF i <= k - 1 THEN c[i] ELSE e[i - (k - 1)]
        BY <1>6, <2>1, <2>2
      <3>2. k - (k - 1) = 1 /\ (i < k => i <= k - 1 /\ i \in 1..(k - 1)) /\ ~(k <= k - 1)
        BY <1>2
      <3> QED  BY <1>6, <1>8, <3>1, <3>2
    <2> QED  BY <1>9, <2>1, <2>2, <2>3
  <1> HIDE DEF ce
  <1>11. k + (L - k) = L
    BY <1>1, <1>2
  <1>12. /\ new \in Seq(Tasks) /\ Len(new) = L
         /\ \A m \in 1..L : (m <= k => new[m] = ce[m]) /\ (m > k => new[m] = d[m - k])
    <2>1. ce \in Seq(Tasks) /\ Len(ce) = k
      BY <1>10
    <2>2. new = ce \o d
      BY <1>10
    <2>3. /\ ce \o d \in Seq(Tasks) /\ Len(ce \o d) = Len(ce) + Len(d)
          /\ \A m \in 1..Len(ce) + Len(d) :
               (ce \o d)[m] = IF m <= Len(ce) THEN ce[m] ELSE d[m - Len(ce)]
      BY <1>7, <2>1, ConcatProperties
    <2>4. Len(ce) + Len(d) = L
      BY <1>7, <1>11, <2>1
    <2>5. \A m \in 1..L : new[m] = IF m <= k THEN ce[m] ELSE d[m - k]
      BY <2>1, <2>2, <2>3, <2>4
    <2>6. ASSUME NEW m \in 1..L
          PROVE  (m <= k => new[m] = ce[m]) /\ (m > k => new[m] = d[m - k])
      BY <1>1, <1>2, <2>5
    <2> QED  BY <2>2, <2>3, <2>4, <2>6
  <1>13. ASSUME NEW m \in 1..L
         PROVE  new[m] = IF m < k THEN list[m] ELSE IF m = k THEN list[n]
                         ELSE IF m <= n THEN list[m - 1] ELSE list[m]
    <2>1. CASE m < k
      <3>1. new[m] = r[m] /\ m \in 1..(L - 1) /\ m < n
        <4>1. m \in 1..k /\ m \in 1..(L - 1) /\ m < n
          BY <1>1, <1>2, <2>1
        <4>2. new[m] = ce[m]
          BY <1>2, <1>12, <1>11, <2>1, <4>1
        <4>3. ce[m] = r[m]
          BY <1>10, <2>1, <4>1
        <4> QED  BY <4>1, <4>2, <4>3
      <3>2. r[m] = list[m]
        BY <1>5, <3>1
      <3> QED  BY <1>2, <2>1, <3>1, <3>2
    <2>2. CASE m = k
      BY <1>1, <1>2, <1>10, <1>12, <1>11, <2>2
    <2>3. CASE m > k
      <3>1. new[m] = d[m - k] /\ m - k \in 1..(L - k) /\ k + (m - k) - 1 = m - 1
        BY <1>1, <1>2, <1>12, <1>11, <2>3
      <3>2. new[m] = r[m - 1] /\ m - 1 \in 1..(L - 1)
        BY <1>1, <1>2, <1>7, <2>3, <3>1
      <3>3. (m - 1) + 1 = m
        OBVIOUS
      <3> QED  BY <1>2, <1>5, <2>3, <3>2, <3>3
    <2> QED  BY <1>2, <2>1, <2>2, <2>3
  <1> QED  BY <1>12, <1>11, <1>13 DEF new, r, L

LEMMA SetOfList ==
  ASSUME NEW list \in Seq(Tasks)
  PROVE  /\ \A i \in 1..Len(list) : list[i] \in Tasks
         /\ Len(list) \in Nat /\ DOMAIN list = 1..Len(list)
         /\ \A t : t \in ToSet(list) <=> \E i \in 1..Len(list) : list[i] = t
  BY LenProperties, ElementOfSeq DEF ToSet

\* A task that sums buffers has no cost.
LEMMA CostOf ==
  ASSUME NEW cost \in Costs, NEW t \in Tasks
  PROVE  cost[t] \in Nat /\ Priority[t] \in Nat /\ (Inputs[t] # <<>> => cost[t] = 0)
  <1>1. cost[t] \in 0..1 /\ (t \notin Cells => cost[t] = 0)
    BY DEF Costs
  <1>2. Priority[t] \in Nat
    BY SchedulerAssumption
  <1>3. t \in Cells => Inputs[t] = <<>>
    BY GraphAssumption
  <1> QED  BY <1>1, <1>2, <1>3

\* One insertion keeps the tasks and sorts one more of them, for whatever costs.
LEMMA InsertKeeps ==
  ASSUME NEW cost \in Costs, NEW list \in Seq(Tasks), NEW n \in 2..Len(list)
  PROVE  /\ Reordered(list, Insert(cost, list, n))
         /\ Behind(list, n) => Behind(Insert(cost, list, n), n + 1)
  <1> DEFINE new == Insert(cost, list, n)
             L   == Len(list)
  <1>1. PICK k \in 2..n : /\ \A m \in k..(n - 1) : CompareItem(cost, list[m], list[n])
                          /\ k = 2 \/ ~CompareItem(cost, list[k - 1], list[n])
                          /\ new = InsertAt(RemoveAt(list, n), k, list[n])
    BY InsertPlace
  <1>2. /\ new \in Seq(Tasks) /\ Len(new) = L
        /\ \A m \in 1..L : new[m] = IF m < k THEN list[m] ELSE IF m = k THEN list[n]
                                    ELSE IF m <= n THEN list[m - 1] ELSE list[m]
    <2> DEFINE moved == InsertAt(RemoveAt(list, n), k, list[n])
    <2>1. /\ moved \in Seq(Tasks) /\ Len(moved) = L
          /\ \A m \in 1..L : moved[m] = IF m < k THEN list[m] ELSE IF m = k THEN list[n]
                                        ELSE IF m <= n THEN list[m - 1] ELSE list[m]
      BY InsertShape
    <2>2. new = moved
      BY <1>1
    <2> HIDE DEF moved, new
    <2> QED  BY <2>1, <2>2
  <1>3. /\ \A i \in 1..L : list[i] \in Tasks
        /\ L \in Nat /\ DOMAIN list = 1..L /\ DOMAIN new = 1..L
    BY <1>2, SetOfList
  <1> HIDE DEF new, L
  <1>4. n \in Nat /\ k \in Nat /\ 2 <= k /\ k <= n /\ n <= L
    BY <1>1, <1>3 DEF L
  <1> DEFINE old(m) == IF m < k THEN m ELSE IF m = k THEN n ELSE IF m <= n THEN m - 1 ELSE m
  <1>5. \A m \in 1..L : old(m) \in 1..L /\ new[m] = list[old(m)]
    BY <1>2, <1>3, <1>4
  <1>6. \A i, j \in 1..L : old(i) = old(j) => i = j
    BY <1>3, <1>4
  <1>7. \A i \in 1..L : \E m \in 1..L : old(m) = i
    <2> SUFFICES ASSUME NEW i \in 1..L
                 PROVE  \E m \in 1..L : old(m) = i
      OBVIOUS
    <2>1. CASE i < k \/ i > n
      <3>1. old(i) = i
        BY <1>3, <1>4, <2>1
      <3> QED  BY <3>1
    <2>2. CASE i = n
      <3>1. old(k) = i /\ k \in 1..L
        BY <1>3, <1>4, <2>2
      <3> QED  BY <3>1
    <2>3. CASE k <= i /\ i < n
      <3>1. old(i + 1) = i /\ i + 1 \in 1..L
        BY <1>3, <1>4, <2>3
      <3> QED  BY <3>1
    <2> QED  BY <1>3, <1>4, <2>1, <2>2, <2>3
  <1>8. old(1) = 1
    BY <1>4
  <1>9. \A i, j \in 1..L : i < j => old(i) < old(j) \/ (i = k /\ k < j /\ j <= n)
    BY <1>3, <1>4
  <1>10. old(k) = n /\ \A j \in 1..L : /\ k < j /\ j <= n => old(j) \in k..(n - 1)
                                       /\ j < n + 1 /\ j # k => old(j) < n
                                       /\ j < k => old(j) = j
                                       /\ 1 < j => 1 < old(j)
    BY <1>3, <1>4
  <1> HIDE DEF old
  <1>11. Reordered(list, new)
    <2>1. list # <<>> => new[1] = list[1]
      BY <1>3, <1>4, <1>5, <1>8
    <2>2. ToSet(new) = ToSet(list)
      <3>1. \A t : t \in ToSet(list) <=> \E i \in 1..L : list[i] = t
        BY <1>3 DEF ToSet
      <3>2. \A t : t \in ToSet(new) <=> \E i \in 1..L : new[i] = t
        BY <1>3 DEF ToSet
      <3>3. \A t : t \in ToSet(new) => t \in ToSet(list)
        BY <1>5, <3>1, <3>2
      <3>4. \A t : t \in ToSet(list) => t \in ToSet(new)
        <4> SUFFICES ASSUME NEW i \in 1..L
                     PROVE  \E m \in 1..L : new[m] = list[i]
          BY <3>1, <3>2
        <4>1. PICK m \in 1..L : old(m) = i
          BY <1>7
        <4> QED  BY <1>5, <4>1
      <3> QED  BY <3>3, <3>4
    <2>3. IsInjective(list) => IsInjective(new)
      BY <1>3, <1>5, <1>6 DEF IsInjective
    <2> QED  BY <1>2, <2>1, <2>2, <2>3 DEF Reordered, L
  <1>12. ASSUME NEW i \in 1..L, NEW j \in 1..L, 1 < i, i < j, j < n + 1, Behind(list, n)
         PROVE  Inputs[new[i]] = <<>> \/ Priority[new[i]] <= Priority[new[j]]
    <2>1. old(i) \in 1..L /\ old(j) \in 1..L /\ new[i] = list[old(i)] /\ new[j] = list[old(j)]
      BY <1>5
    <2>2. i \in Nat /\ j \in Nat
      OBVIOUS
    <2>3. CASE old(i) < old(j) /\ old(j) < n
      <3>1. 1 < old(i)
        BY <1>10, <1>12
      <3> QED  BY <1>3, <1>12, <2>1, <2>3, <3>1 DEF Behind
    \* The one that has been moved passes others of a higher priority, if it has no cost.
    <2>4. CASE i = k
      <3>1. new[i] = list[n] /\ list[n] \in Tasks /\ list[old(j)] \in Tasks
        BY <1>3, <1>4, <1>10, <2>1, <2>4
      <3>2. CompareItem(cost, list[old(j)], list[n])
        BY <1>1, <1>4, <1>10, <1>12, <2>2, <2>4
      <3>3. Priority[list[old(j)]] > Priority[list[n]] \/ cost[list[old(j)]] < cost[list[n]]
        BY <3>2 DEF CompareItem
      <3>4. /\ cost[list[n]] \in Nat /\ cost[list[old(j)]] \in Nat
            /\ Priority[list[n]] \in Nat /\ Priority[list[old(j)]] \in Nat
            /\ Inputs[list[n]] # <<>> => cost[list[n]] = 0
        BY <3>1, CostOf
      <3> QED  BY <2>1, <3>1, <3>3, <3>4
    \* It stays behind one of a lower rank, which is behind all that sum buffers.
    <2>5. CASE j = k
      <3>1. /\ i \in 2..(k - 1) /\ k - 1 \in 1..L /\ k - 1 < n /\ k # 2
            /\ new[j] = list[n] /\ new[i] = list[i]
        BY <1>3, <1>4, <1>10, <1>12, <2>1, <2>2, <2>5
      <3>2. list[n] \in Tasks /\ list[k - 1] \in Tasks /\ list[i] \in Tasks
        BY <1>3, <1>4, <3>1
      <3>3. Priority[list[k - 1]] <= Priority[list[n]]
        <4>1. ~(Priority[list[k - 1]] > Priority[list[n]])
          BY <1>1, <3>1 DEF CompareItem
        <4> QED  BY <3>2, <4>1, CostOf
      <3>4. Inputs[list[i]] = <<>> \/ Priority[list[i]] <= Priority[list[k - 1]]
        <4>1. CASE i = k - 1
          BY <3>2, <4>1, CostOf
        <4>2. CASE i < k - 1
          BY <1>3, <1>12, <3>1, <4>2 DEF Behind
        <4> QED  BY <1>4, <2>2, <3>1, <4>1, <4>2
      <3>5. Priority[list[n]] \in Nat /\ Priority[list[k - 1]] \in Nat /\ Priority[list[i]] \in Nat
        BY <3>2, CostOf
      <3> QED  BY <3>1, <3>3, <3>4, <3>5
    <2>6. i # k => old(i) < old(j)
      BY <1>9, <1>12
    <2>7. j # k => old(j) < n
      BY <1>10, <1>12
    <2> QED  BY <2>3, <2>4, <2>5, <2>6, <2>7
  <1>13. Behind(list, n) => Behind(new, n + 1)
    BY <1>3, <1>12 DEF Behind
  <1> QED  BY <1>11, <1>13 DEF new

LEMMA ReorderedTwice ==
  ASSUME NEW a \in Seq(Tasks), NEW b, NEW c, Reordered(a, b), Reordered(b, c)
  PROVE  Reordered(a, c)
  <1>1. a # <<>> => b # <<>>
    <2>1. b = <<>> => Len(b) = 0
      BY EmptySeq
    <2>2. a # <<>> => Len(a) \in Nat \ {0}
      BY EmptySeq
    <2> QED  BY <2>1, <2>2 DEF Reordered
  <1> QED  BY <1>1 DEF Reordered

\* Whatever the list was and whatever the costs are, SortList() returns the same tasks, the
\* first of them at the same place, and sorts the others as far as it can.
LEMMA Sorted ==
  ASSUME NEW cost \in Costs, NEW list \in Seq(Tasks)
  PROVE  /\ Reordered(list, SortList(cost, list))
         /\ Behind(SortList(cost, list), Len(list) + 1)
  <1> DEFINE L == Len(list)
             D == [1..L -> Tasks]
             T == [D -> D]
             ins(l, n) == Insert(cost, l, n + 1)
             place(n, h) == [l \in D |-> IF n >= L THEN l ELSE h[n + 1][ins(l, n)]]
             from == CHOOSE f : f = [n \in Places |-> place(n, f)]
  <1>1. L \in Nat /\ list \in D /\ DOMAIN list = 1..L
    BY LenProperties
  <1>2. SortList(cost, list) = from[1][list]
    BY <1>1 DEF SortList, Places
  <1>3. ASSUME NEW l \in D
        PROVE  l \in Seq(Tasks) /\ Len(l) = L
    BY <1>1, IsASeq
  <1>4. ASSUME NEW l \in D, NEW n \in Places, ~(n >= L)
        PROVE  /\ ins(l, n) \in D /\ Reordered(l, ins(l, n))
               /\ Behind(l, n + 1) => Behind(ins(l, n), n + 2)
    <2>1. l \in Seq(Tasks) /\ Len(l) = L /\ n + 1 \in 2..Len(l) /\ (n + 1) + 1 = n + 2
      BY <1>1, <1>3, <1>4 DEF Places
    <2>2. Reordered(l, ins(l, n)) /\ (Behind(l, n + 1) => Behind(ins(l, n), n + 2))
      BY <2>1, InsertKeeps
    <2> HIDE DEF ins
    <2>3. ins(l, n) \in D
      BY <2>1, <2>2, LenProperties DEF Reordered
    <2> QED  BY <2>2, <2>3
  <1> HIDE DEF ins, L
  <1>5. from = [n \in Places |-> place(n, from)]
    <2> DEFINE Step == [n \in Places |-> [h \in [Places -> T] |-> place(n, h)]]
               z == [l \in D |-> l]
    <2>1. z \in T
      OBVIOUS
    <2>2. ASSUME NEW n \in Places, NEW h \in [Places -> T]
          PROVE  place(n, h) \in T
      <3>1. n + 1 \in Places
        BY DEF Places
      <3>2. ASSUME NEW l \in D
            PROVE  (IF n >= L THEN l ELSE h[n + 1][ins(l, n)]) \in D
        BY <1>4, <3>1
      <3> QED  BY <3>2
    <2>3. Step \in [Places -> [[Places -> T] -> T]]
      BY <2>2
    <2>4. ASSUME NEW n \in Places, NEW g \in [Places -> T], NEW h \in [Places -> T],
                 n > L \/ (\A m \in Places : m > n => g[m] = h[m])
          PROVE  Step[n][g] = Step[n][h]
      <3>1. n + 1 \in Places /\ n + 1 > n /\ (n > L => n >= L)
        BY <1>1 DEF Places
      <3>2. n >= L \/ g[n + 1] = h[n + 1]
        BY <2>4, <3>1
      <3>3. place(n, g) = place(n, h)
        BY <3>2
      <3> QED  BY <3>3
    <2>5. \A n \in Places : \A h \in [Places -> T] : Step[n][h] = place(n, h)
      OBVIOUS
    <2> HIDE DEF Step, place, z, D, T
    <2>8. LooksAhead(Step, T, L)
      BY <2>4 DEF LooksAhead
    <2>9. HasFunction(Step, T)
      BY <1>1, <2>1, <2>3, <2>8, Recursive
    <2>6. PICK f \in [Places -> T] : \A n \in Places : f[n] = Step[n][f]
      BY <2>9 DEF HasFunction
    <2>7. f = [n \in Places |-> place(n, f)]
      BY <2>5, <2>6
    <2> QED  BY <2>7
  <1> HIDE DEF from
  <1> DEFINE Good(n) == \A l \in D : Behind(l, n + 1) =>
                          /\ from[n][l] \in D /\ Reordered(l, from[n][l])
                          /\ Behind(from[n][l], L + 1)
             S == {n \in Places : Good(n)}
  <1>6. ASSUME NEW n \in Places, NEW l \in D
        PROVE  from[n][l] = IF n >= L THEN l ELSE from[n + 1][ins(l, n)]
    <2>1. from[n] = place(n, from)
      BY <1>5
    <2>2. place(n, from)[l] = IF n >= L THEN l ELSE from[n + 1][ins(l, n)]
      OBVIOUS
    <2> QED  BY <2>1, <2>2
  <1> HIDE DEF from
  <1>7. ASSUME NEW n \in Places, n >= L
        PROVE  Good(n)
    <2> SUFFICES ASSUME NEW l \in D, Behind(l, n + 1)
                 PROVE  /\ from[n][l] \in D /\ Reordered(l, from[n][l])
                        /\ Behind(from[n][l], L + 1)
      OBVIOUS
    <2>1. from[n][l] = l
      BY <1>6, <1>7
    <2>2. Reordered(l, l)
      BY <1>3 DEF Reordered
    <2>3. Behind(l, L + 1)
      BY <1>1, <1>7 DEF Behind, Places
    <2> QED  BY <2>1, <2>2, <2>3
  <1>8. ASSUME NEW n \in Places, ~(n >= L), Good(n + 1)
        PROVE  Good(n)
    <2> SUFFICES ASSUME NEW l \in D, Behind(l, n + 1)
                 PROVE  /\ from[n][l] \in D /\ Reordered(l, from[n][l])
                        /\ Behind(from[n][l], L + 1)
      OBVIOUS
    <2>1. from[n][l] = from[n + 1][ins(l, n)]
      BY <1>6, <1>8
    <2>2. ins(l, n) \in D /\ Reordered(l, ins(l, n)) /\ Behind(ins(l, n), n + 2)
      BY <1>4, <1>8
    <2>3. (n + 1) + 1 = n + 2
      BY DEF Places
    <2>4. /\ from[n][l] \in D /\ Reordered(ins(l, n), from[n][l])
          /\ Behind(from[n][l], L + 1)
      BY <1>8, <2>1, <2>2, <2>3
    <2> QED  BY <1>3, <2>2, <2>4, ReorderedTwice
  <1> HIDE DEF Good, D
  <1>9. Places \subseteq S
    <2>1. \A n \in Places : n > L => n \in S
      BY <1>1, <1>7 DEF Places
    <2>2. ASSUME NEW n \in Places, \A m \in Places : m > n => m \in S
          PROVE  n \in S
      <3>1. n + 1 \in Places /\ n + 1 > n
        BY DEF Places
      <3> QED  BY <1>7, <1>8, <2>2, <3>1
    <2> HIDE DEF S
    <2> QED  BY <1>1, <2>1, <2>2, Downwards
  <1>10. Good(1)
    <2>1. 1 \in Places
      BY DEF Places
    <2> QED  BY <1>9, <2>1
  <1>11. Behind(list, 1 + 1)
    BY DEF Behind
  <1>12. Reordered(list, from[1][list]) /\ Behind(from[1][list], L + 1)
    BY <1>1, <1>10, <1>11 DEF Good
  <1> QED  BY <1>2, <1>12 DEF L

-----------------------------------------------------------------------------
(* The plan *)

\* A run of equal priorities ends within the list.
LEMMA RunEndAt ==
  ASSUME NEW list \in Seq(Tasks), NEW i \in 1..Len(list)
  PROVE  RunEnd(list, i) \in i..Len(list)
  <1> DEFINE L    == Len(list)
             Same(m) == Priority[list[m]] = Priority[list[i]]
             ends == {e \in i..L : e = L \/ ~Same(e + 1)}
  <1>1. L \in Nat
    BY LenProperties
  <1> HIDE DEF L
  <1>2. L \in ends /\ ends \in SUBSET Nat
    BY <1>1 DEF L
  <1>3. PICK e \in ends : \A m \in ends : e <= m
    BY <1>2, Least
  <1>4. \A m \in i..e : Same(m)
    <2> SUFFICES ASSUME NEW m \in i..e, m # i, ~Same(m)
                 PROVE  FALSE
      OBVIOUS
    <2>1. m - 1 \in i..L /\ (m - 1) + 1 = m /\ m - 1 < e
      BY <1>1, <1>3 DEF L
    <2>2. m - 1 \in ends
      BY <2>1
    <2> QED  BY <1>3, <2>1, <2>2
  <1>5. \E x \in i..L : /\ \A m \in i..x : Same(m)
                        /\ x = L \/ ~Same(x + 1)
    BY <1>3, <1>4
  <1> QED  BY <1>5 DEF RunEnd, L

\* One pass over a run is the run.
LEMMA RunPasses ==
  ASSUME NEW i \in Nat, NEW n \in Nat \ {0}, NEW r \in Nat \ {0}
  PROVE  /\ n * r \in Nat /\ n <= n * r
         /\ \A m \in 1..(n * r) : i + ((m - 1) % n) \in i..(i + n - 1)
         /\ \A m \in 1..n : i + ((m - 1) % n) = i + m - 1
  <1>1. n * r \in Nat /\ n <= n * r
    OBVIOUS
  <1>2. ASSUME NEW m \in 1..(n * r)
        PROVE  (m - 1) % n \in 0..(n - 1)
    BY <1>1
  <1>3. ASSUME NEW m \in 1..n
        PROVE  (m - 1) % n = m - 1
    OBVIOUS
  <1> QED  BY <1>1, <1>2, <1>3

\* Update() plans every position, however the list is divided into runs.
LEMMA PlanCovers ==
  ASSUME NEW list \in Seq(Tasks)
  PROVE  /\ Plan(list) \in Seq(1..Len(list))
         /\ \A i \in 1..Len(list) : \E k \in DOMAIN Plan(list) : Plan(list)[k] = i
  <1> DEFINE L == Len(list)
             T == Seq(1..L)
             end(i)  == RunEnd(list, i)
             size(i) == end(i) - i + 1
             times(i) == IF list[i] \in Repeatable THEN RepeatCount ELSE 1
             passes(i) == [m \in 1..(size(i) * times(i)) |-> i + ((m - 1) % size(i))]
             place(i, h) == IF i > L THEN <<>> ELSE passes(i) \o h[end(i) + 1]
             from == CHOOSE f : f = [i \in Places |-> place(i, f)]
  <1>1. L \in Nat
    BY LenProperties
  <1>2. Plan(list) = from[1]
    BY DEF Plan, Places
  <1>3. ASSUME NEW i \in Places, ~(i > L)
        PROVE  end(i) \in i..L /\ end(i) + 1 \in Places /\ end(i) + 1 > i /\ i \in Nat
    <2>1. i \in 1..L /\ i \in Nat
      BY <1>1, <1>3 DEF Places
    <2>2. end(i) \in i..L
      BY <2>1, RunEndAt
    <2> HIDE DEF end
    <2> QED  BY <1>1, <2>1, <2>2 DEF Places
  <1> HIDE DEF end
  <1>4. ASSUME NEW i \in Places, ~(i > L)
        PROVE  /\ passes(i) \in T
               /\ \A j \in i..end(i) : \E k \in 1..Len(passes(i)) : passes(i)[k] = j
    <2>1. size(i) \in Nat \ {0} /\ times(i) \in Nat \ {0} /\ i \in Nat
      BY <1>1, <1>3, <1>4, SchedulerAssumption
    <2> DEFINE n == size(i)  N == n * times(i)
    <2>2. i + n - 1 = end(i) /\ i..end(i) \subseteq 1..L
      BY <1>1, <1>3, <1>4 DEF Places
    <2>3. /\ N \in Nat /\ n <= N
          /\ \A m \in 1..N : i + ((m - 1) % n) \in i..(i + n - 1)
          /\ \A m \in 1..n : i + ((m - 1) % n) = i + m - 1
      <3> HIDE DEF size, times
      <3> QED  BY <2>1, RunPasses
    <2>4. passes(i) = [m \in 1..N |-> i + ((m - 1) % n)]
      OBVIOUS
    <2>5. n \in Nat \ {0}
      BY <2>1
    <2> HIDE DEF N, n, passes
    <2>6. \A m \in 1..N : i + ((m - 1) % n) \in 1..L
      BY <2>2, <2>3
    <2>7. passes(i) \in T /\ Len(passes(i)) = N
      BY <2>3, <2>4, <2>6, IsASeq
    <2>8. ASSUME NEW j \in i..end(i)
          PROVE  \E k \in 1..Len(passes(i)) : passes(i)[k] = j
      <3>1. j - i + 1 \in 1..n /\ j - i + 1 \in 1..N /\ i + (j - i + 1) - 1 = j
        BY <1>1, <1>3, <1>4, <2>1, <2>2, <2>3, <2>5
      <3>2. passes(i)[j - i + 1] = j
        BY <2>3, <2>4, <3>1
      <3> QED  BY <2>7, <3>1, <3>2
    <2> QED  BY <2>7, <2>8
  <1> HIDE DEF passes
  <1>5. from = [i \in Places |-> place(i, from)]
    <2> DEFINE Step == [i \in Places |-> [h \in [Places -> T] |-> place(i, h)]]
    <2>1. <<>> \in T
      BY EmptySeq
    <2> HIDE DEF L
    <2>2. ASSUME NEW i \in Places, NEW h \in [Places -> T]
          PROVE  place(i, h) \in T
      <3>1. CASE i > L
        BY <2>1, <3>1
      <3>2. CASE ~(i > L)
        <4>1. passes(i) \in T /\ h[end(i) + 1] \in T
          BY <1>3, <1>4, <3>2
        <4> QED  BY <3>2, <4>1, ConcatProperties
      <3> QED  BY <3>1, <3>2
    <2>3. Step \in [Places -> [[Places -> T] -> T]]
      <3> HIDE DEF place, T
      <3> QED  BY <2>2
    <2>4. ASSUME NEW i \in Places, NEW g \in [Places -> T], NEW h \in [Places -> T],
                 i > L \/ (\A m \in Places : m > i => g[m] = h[m])
          PROVE  place(i, g) = place(i, h)
      <3>1. i > L \/ g[end(i) + 1] = h[end(i) + 1]
        BY <1>3, <2>4
      <3> QED  BY <3>1
    <2>5. \A i \in Places : \A h \in [Places -> T] : Step[i][h] = place(i, h)
      OBVIOUS
    <2> HIDE DEF Step, place, T
    <2>6. LooksAhead(Step, T, L)
      BY <2>4, <2>5 DEF LooksAhead
    <2>7. HasFunction(Step, T)
      BY <1>1, <2>1, <2>3, <2>6, Recursive
    <2>8. PICK f \in [Places -> T] : \A i \in Places : f[i] = Step[i][f]
      BY <2>7 DEF HasFunction
    <2>9. f = [i \in Places |-> place(i, f)]
      BY <2>5, <2>8
    <2> QED  BY <2>9
  <1>6. \A i \in Places : from[i] = place(i, from)
    BY <1>5
  <1> HIDE DEF from
  <1> DEFINE Covers(i) == /\ from[i] \in T
                          /\ \A j \in i..L : \E k \in 1..Len(from[i]) : from[i][k] = j
             S == {i \in Places : Covers(i)}
  <1>7. ASSUME NEW i \in Places, i > L
        PROVE  Covers(i)
    <2>1. from[i] = <<>>
      BY <1>6, <1>7
    <2>2. \A j : j \notin i..L
      BY <1>1, <1>7 DEF Places
    <2> QED  BY <2>1, <2>2, EmptySeq
  <1>8. ASSUME NEW i \in Places, ~(i > L), Covers(end(i) + 1)
        PROVE  Covers(i)
    <2> DEFINE a == passes(i)
               b == from[end(i) + 1]
    <2>1. from[i] = a \o b
      BY <1>6, <1>8
    <2>2. /\ a \in T /\ \A j \in i..end(i) : \E k \in 1..Len(a) : a[k] = j
      BY <1>4, <1>8
    <2>3. b \in T /\ \A j \in (end(i) + 1)..L : \E k \in 1..Len(b) : b[k] = j
      BY <1>8
    <2> HIDE DEF a, b
    <2>4. /\ a \o b \in T /\ Len(a \o b) = Len(a) + Len(b)
          /\ \A k \in 1..Len(a) + Len(b) :
               (a \o b)[k] = IF k <= Len(a) THEN a[k] ELSE b[k - Len(a)]
      BY <2>2, <2>3, ConcatProperties
    <2>5. Len(a) \in Nat /\ Len(b) \in Nat
      BY <2>2, <2>3, LenProperties
    <2>6. ASSUME NEW j \in i..L
          PROVE  \E k \in 1..Len(a) + Len(b) : (a \o b)[k] = j
      <3>1. CASE j <= end(i)
        <4>1. j \in i..end(i)
          BY <1>1, <1>3, <1>8, <3>1
        <4>2. PICK k \in 1..Len(a) : a[k] = j
          BY <2>2, <4>1
        <4>3. k \in 1..Len(a) + Len(b) /\ k <= Len(a)
          BY <2>5
        <4> QED  BY <2>4, <4>2, <4>3
      <3>2. CASE j > end(i)
        <4>1. j \in (end(i) + 1)..L
          BY <1>1, <1>3, <1>8, <3>2
        <4>2. PICK k \in 1..Len(b) : b[k] = j
          BY <2>3, <4>1
        <4>3. /\ k + Len(a) \in 1..Len(a) + Len(b) /\ ~(k + Len(a) <= Len(a))
              /\ (k + Len(a)) - Len(a) = k
          BY <2>5
        <4>4. (a \o b)[k + Len(a)] = j
          BY <2>4, <4>2, <4>3
        <4> QED  BY <4>3, <4>4
      <3>3. j <= end(i) \/ j > end(i)
        BY <1>1, <1>3, <1>8
      <3> QED  BY <3>1, <3>2, <3>3
    <2> QED  BY <2>1, <2>4, <2>6
  <1> HIDE DEF Covers
  <1>9. Places \subseteq S
    <2>1. \A i \in Places : i > L => i \in S
      BY <1>7
    <2>2. ASSUME NEW i \in Places, \A m \in Places : m > i => m \in S
          PROVE  i \in S
      <3>1. CASE i > L
        BY <1>7, <3>1
      <3>2. CASE ~(i > L)
        BY <1>3, <1>8, <2>2, <3>2
      <3> QED  BY <3>1, <3>2
    <2> HIDE DEF S
    <2> QED  BY <1>1, <2>1, <2>2, Downwards
  <1>10. Covers(1)
    <2>1. 1 \in Places
      BY DEF Places
    <2> QED  BY <1>9, <2>1
  <1>11. /\ from[1] \in T /\ DOMAIN from[1] = 1..Len(from[1])
         /\ \A j \in 1..L : \E k \in 1..Len(from[1]) : from[1][k] = j
    BY <1>10, LenProperties DEF Covers
  <1> QED  BY <1>2, <1>11 DEF L

-----------------------------------------------------------------------------
(* The prerequisites of a task *)

LEMMA OneElement ==
  ASSUME NEW S, NEW x \in S
  PROVE  <<x>> \in Seq(S)
  OBVIOUS

LEMMA SeqSubset ==
  ASSUME NEW S, NEW T, NEW s \in Seq(S), S \subseteq T
  PROVE  s \in Seq(T)
  BY SeqMonotonic

\* Nobody asks for a task that has not been committed.
LEMMA PrerequisitesType ==
  ASSUME NEW p \in Tasks
  PROVE  Prerequisites(p) \in Seq(Registered)
  <1> DEFINE all == Inputs[p] \o Amplitudes[p]
             L   == Len(all)
             T   == Seq(Registered)
             one(n) == IF all[n] \in Registered THEN <<all[n]>> ELSE <<>>
             place(n, h) == IF n > L THEN <<>> ELSE one(n) \o h[n + 1]
             from == CHOOSE f : f = [n \in Places |-> place(n, f)]
  <1>1. L \in Nat
    <2>1. Inputs[p] \in Seq(Tasks) /\ Amplitudes[p] \in Seq(Tasks)
      BY GraphAssumption
    <2>2. all \in Seq(Tasks)
      BY <2>1, ConcatProperties
    <2> QED  BY <2>2, LenProperties
  <1>2. Prerequisites(p) = from[1]
    BY DEF Prerequisites, Places
  <1>3. ASSUME NEW n \in Places
        PROVE  one(n) \in T
    <2>1. <<>> \in T
      BY EmptySeq
    <2>2. CASE all[n] \in Registered
      <3>1. <<all[n]>> \in T
        BY <2>2, OneElement
      <3> QED  BY <2>2, <3>1
    <2>3. CASE all[n] \notin Registered
      BY <2>1, <2>3
    <2> QED  BY <2>2, <2>3
  <1>4. <<>> \in T
    BY EmptySeq
  <1> HIDE DEF one, L, T
  <1>5. ASSUME NEW n \in Places, NEW rest \in T
        PROVE  one(n) \o rest \in T
    BY <1>3, ConcatProperties DEF T
  <1>6. from = [n \in Places |-> place(n, from)]
    <2> DEFINE Step == [n \in Places |-> [h \in [Places -> T] |-> place(n, h)]]
    <2>1. ASSUME NEW n \in Places, NEW h \in [Places -> T]
          PROVE  place(n, h) \in T
      <3>1. h[n + 1] \in T
        BY DEF Places
      <3> QED  BY <1>4, <1>5, <3>1
    <2>2. Step \in [Places -> [[Places -> T] -> T]]
      BY <2>1
    <2>3. ASSUME NEW n \in Places, NEW g \in [Places -> T], NEW h \in [Places -> T],
                 n > L \/ (\A m \in Places : m > n => g[m] = h[m])
          PROVE  place(n, g) = place(n, h)
      <3>1. n + 1 \in Places /\ n + 1 > n
        BY DEF Places
      <3>2. n > L \/ g[n + 1] = h[n + 1]
        BY <2>3, <3>1
      <3> QED  BY <3>2
    <2>4. \A n \in Places : \A h \in [Places -> T] : Step[n][h] = place(n, h)
      OBVIOUS
    <2> HIDE DEF Step, place
    <2>5. LooksAhead(Step, T, L)
      BY <2>3, <2>4 DEF LooksAhead
    <2>6. HasFunction(Step, T)
      BY <1>1, <1>4, <2>2, <2>5, Recursive
    <2>7. PICK f \in [Places -> T] : \A n \in Places : f[n] = Step[n][f]
      BY <2>6 DEF HasFunction
    <2>8. f = [n \in Places |-> place(n, f)]
      BY <2>4, <2>7
    <2> QED  BY <2>8
  <1>7. \A n \in Places : from[n] = place(n, from)
    BY <1>6
  <1> HIDE DEF from
  <1> DEFINE S == {n \in Places : from[n] \in T}
  <1>8. Places \subseteq S
    <2>1. \A n \in Places : n > L => n \in S
      BY <1>4, <1>7
    <2>2. ASSUME NEW n \in Places, \A m \in Places : m > n => m \in S
          PROVE  n \in S
      <3>1. n + 1 \in Places /\ n + 1 > n
        BY DEF Places
      <3>2. from[n + 1] \in T
        BY <2>2, <3>1
      <3> QED  BY <1>4, <1>5, <1>7, <3>2
    <2> HIDE DEF S
    <2> QED  BY <1>1, <2>1, <2>2, Downwards
  <1>9. 1 \in Places
    BY DEF Places
  <1> QED  BY <1>2, <1>8, <1>9 DEF T

-----------------------------------------------------------------------------
(* The list and the plan *)

ListTypes ==
  /\ work \in Seq(Tasks)
  /\ Registered \in {Tasks, Tasks \ {LateTask}}
  /\ IsInjective(work)
  /\ plan \in Seq(DOMAIN work)
  /\ nextItem \in Nat \ {0}

\* The first task has no inputs, the others are sorted, and the plan has every position.
ListInv ==
  /\ ListTypes
  /\ work # <<>> /\ Inputs[work[1]] = <<>>
  /\ Behind(work, Len(work) + 1)
  /\ \A i \in DOMAIN work : \E k \in DOMAIN plan : plan[k] = i

LEMMA RegisteredTasks == Registered = ToSet(work)
  BY DEF Registered, ToSet

\* What sorting does to the work list
LEMMA SortedWork ==
  ASSUME NEW cost \in Costs, NEW list \in Seq(Tasks), list # <<>>, Inputs[list[1]] = <<>>,
         IsInjective(list), work' = SortList(cost, list)
  PROVE  /\ work' \in Seq(Tasks) /\ Len(work') = Len(list) /\ DOMAIN work' = 1..Len(list)
         /\ Registered' = ToSet(list)
         /\ IsInjective(work') /\ work' # <<>> /\ Inputs[work'[1]] = <<>>
         /\ Behind(work', Len(work') + 1)
  <1>1. Reordered(list, work') /\ Behind(work', Len(list) + 1)
    BY Sorted
  <1>2. /\ work' \in Seq(Tasks) /\ Len(work') = Len(list) /\ work'[1] = list[1]
        /\ ToSet(work') = ToSet(list) /\ IsInjective(work')
    BY <1>1 DEF Reordered
  <1>3. Registered' = ToSet(work')
    BY DEF Registered, ToSet
  <1>4. Len(list) # 0 /\ DOMAIN work' = 1..Len(work')
    BY <1>2, EmptySeq, LenProperties
  <1>5. work' # <<>>
    BY <1>2, <1>4, EmptySeq
  <1> QED  BY <1>1, <1>2, <1>3, <1>4, <1>5

LEMMA PlannedWork ==
  ASSUME work' \in Seq(Tasks), plan' = Plan(work')
  PROVE  /\ plan' \in Seq(DOMAIN work')
         /\ \A i \in DOMAIN work' : \E k \in DOMAIN plan' : plan'[k] = i
  <1>1. DOMAIN work' = 1..Len(work')
    BY LenProperties
  <1> QED  BY <1>1, PlanCovers

LEMMA NoCostType == NoCost \in Costs
  BY DEF NoCost, Costs

LEMMA ListInit == Init => ListInv
  <1> SUFFICES ASSUME Init
               PROVE  ListInv
    OBVIOUS
  <1>1. /\ BuildOrder \in Seq(Tasks) /\ BuildOrder # <<>> /\ Inputs[BuildOrder[1]] = <<>>
        /\ IsInjective(BuildOrder) /\ ToSet(BuildOrder) = Tasks \ {LateTask}
    BY GraphAssumption
  <1>2. /\ work = SortList(NoCost, BuildOrder) /\ plan = Plan(work) /\ nextItem = 1
    BY DEF Init
  <1>3. /\ Reordered(BuildOrder, work) /\ Behind(work, Len(BuildOrder) + 1)
    BY <1>1, <1>2, NoCostType, Sorted
  <1>4. /\ work \in Seq(Tasks) /\ Len(work) = Len(BuildOrder) /\ work[1] = BuildOrder[1]
        /\ ToSet(work) = ToSet(BuildOrder) /\ IsInjective(work)
    BY <1>1, <1>3 DEF Reordered
  <1>5. work # <<>> /\ DOMAIN work = 1..Len(work)
    BY <1>1, <1>4, EmptySeq, LenProperties
  <1>6. /\ plan \in Seq(1..Len(work))
        /\ \A i \in 1..Len(work) : \E k \in DOMAIN plan : plan[k] = i
    BY <1>2, <1>4, PlanCovers
  <1>7. Registered = Tasks \ {LateTask}
    BY <1>1, <1>4, RegisteredTasks
  <1> QED  BY <1>1, <1>2, <1>3, <1>4, <1>5, <1>6, <1>7 DEF ListInv, ListTypes

\* NewRound() sorts the list, under the plan as it is.
LEMMA ListAdvance ==
  ASSUME ListInv, AdvanceRound
  PROVE  /\ ListInv' /\ Registered' = Registered /\ DOMAIN work' = DOMAIN work
         /\ Len(work') = Len(work)
  <1>1. PICK cost \in Costs : work' = SortList(cost, work)
    BY DEF AdvanceRound
  <1>2. plan' = plan /\ nextItem' = nextItem
    BY DEF AdvanceRound
  <1>3. /\ work \in Seq(Tasks) /\ work # <<>> /\ Inputs[work[1]] = <<>> /\ IsInjective(work)
        /\ DOMAIN work = 1..Len(work)
    BY LenProperties DEF ListInv, ListTypes
  <1>4. /\ work' \in Seq(Tasks) /\ Len(work') = Len(work) /\ DOMAIN work' = 1..Len(work)
        /\ Registered' = ToSet(work)
        /\ IsInjective(work') /\ work' # <<>> /\ Inputs[work'[1]] = <<>>
        /\ Behind(work', Len(work') + 1)
    BY <1>1, <1>3, SortedWork
  <1>5. Registered' = Registered /\ DOMAIN work' = DOMAIN work
    BY <1>3, <1>4, RegisteredTasks
  <1> QED  BY <1>2, <1>4, <1>5 DEF ListInv, ListTypes

\* Add() sorts the longer list and plans it anew.
LEMMA ListCommit ==
  ASSUME ListInv, CommitSoundRouting
  PROVE  /\ ListInv' /\ Registered' = Registered \union {LateTask} /\ Len(work') = Len(work) + 1
  <1> DEFINE longer == Append(work, LateTask)
  <1>1. PICK cost \in Costs : work' = SortList(cost, longer) /\ plan' = Plan(work')
    BY DEF CommitSoundRouting
  <1>2. nextItem' = nextItem /\ LateTask \notin Registered
    BY DEF CommitSoundRouting
  <1>3. /\ work \in Seq(Tasks) /\ work # <<>> /\ Inputs[work[1]] = <<>> /\ IsInjective(work)
        /\ DOMAIN work = 1..Len(work) /\ Len(work) \in Nat \ {0} /\ LateTask \in Tasks
    BY GraphAssumption, EmptySeq, LenProperties DEF ListInv, ListTypes
  <1>4. /\ longer \in Seq(Tasks) /\ longer # <<>> /\ Len(longer) = Len(work) + 1
        /\ \A i \in 1..Len(work) : longer[i] = work[i]
        /\ longer[Len(work) + 1] = LateTask
        /\ DOMAIN longer = 1..Len(work) + 1
    BY <1>3, AppendProperties, LenProperties
  <1> HIDE DEF longer
  <1>5. longer[1] = work[1]
    BY <1>3, <1>4
  <1>6. ToSet(longer) = Registered \union {LateTask}
    <2>1. \A t : t \in ToSet(longer) <=> \E i \in 1..Len(work) + 1 : longer[i] = t
      BY <1>4 DEF ToSet
    <2>2. \A t : t \in Registered <=> \E i \in 1..Len(work) : work[i] = t
      BY <1>3 DEF Registered
    <2>3. \A i \in 1..Len(work) + 1 : i \in 1..Len(work) \/ i = Len(work) + 1
      BY <1>3
    <2>4. \A i \in 1..Len(work) : i \in 1..Len(work) + 1
      BY <1>3
    <2>5. Len(work) + 1 \in 1..Len(work) + 1
      BY <1>3
    <2> QED  BY <1>4, <2>1, <2>2, <2>3, <2>4, <2>5
  <1>7. IsInjective(longer)
    <2>1. \A i \in 1..Len(work) : longer[i] = work[i] /\ longer[i] # LateTask
      BY <1>2, <1>3, <1>4 DEF Registered
    <2>2. \A i \in 1..Len(work) + 1 : i \in 1..Len(work) \/ i = Len(work) + 1
      BY <1>3
    <2> QED  BY <1>3, <1>4, <2>1, <2>2 DEF IsInjective
  <1>8. /\ work' \in Seq(Tasks) /\ Len(work') = Len(longer) /\ DOMAIN work' = 1..Len(longer)
        /\ Registered' = ToSet(longer)
        /\ IsInjective(work') /\ work' # <<>> /\ Inputs[work'[1]] = <<>>
        /\ Behind(work', Len(work') + 1)
    BY <1>1, <1>3, <1>4, <1>5, <1>7, SortedWork
  <1>9. /\ plan' \in Seq(DOMAIN work')
        /\ \A i \in DOMAIN work' : \E k \in DOMAIN plan' : plan'[k] = i
    BY <1>1, <1>8, PlannedWork
  <1>10. Registered' \in {Tasks, Tasks \ {LateTask}}
    BY <1>3, <1>6, <1>8 DEF ListInv, ListTypes
  <1> QED  BY <1>2, <1>4, <1>6, <1>8, <1>9, <1>10 DEF ListInv, ListTypes

\* All other steps leave the list and the plan alone.
LEMMA ListOther ==
  ASSUME ListInv, [Next]_vars, ~AdvanceRound, ~CommitSoundRouting
  PROVE  /\ UNCHANGED <<work, plan>> /\ nextItem' \in Nat \ {0}
  <1> USE DEF planVars, taskVars, threadVars, ownerVars
  <1>1. nextItem \in Nat \ {0}
    BY DEF ListInv, ListTypes
  <1>2. ASSUME NEW t \in Threads, Run(t)
        PROVE  UNCHANGED <<work, plan, nextItem>>
    BY <1>2 DEF Run, FindDone, LeaveCell, Enter, Ask, Read, Finish
  <1>3. ASSUME NEW w \in Workers, GetNextTask(w) \/ LingerInRelease(w)
        PROVE  UNCHANGED <<work, plan>> /\ nextItem' \in Nat \ {0}
    BY <1>1, <1>3 DEF GetNextTask, LingerInRelease
  <1>4. ASSUME Callback \/ Copied \/ CompleteTask
        PROVE  UNCHANGED <<work, plan, nextItem>>
    BY <1>4 DEF Callback, Copied, CompleteTask
  <1>5. ASSUME RenewTask
        PROVE  UNCHANGED <<work, plan>> /\ nextItem' \in Nat \ {0}
    BY <1>1, <1>5 DEF RenewTask
  <1>6. ASSUME UNCHANGED vars
        PROVE  UNCHANGED <<work, plan, nextItem>>
    BY <1>6 DEF vars
  <1> QED  BY <1>1, <1>2, <1>3, <1>4, <1>5, <1>6 DEF Next, OwnerStep

LEMMA ListNext == ListInv /\ [Next]_vars => ListInv'
  <1> SUFFICES ASSUME ListInv, [Next]_vars
               PROVE  ListInv'
    OBVIOUS
  <1>1. CASE AdvanceRound
    BY <1>1, ListAdvance
  <1>2. CASE CommitSoundRouting
    BY <1>2, ListCommit
  <1>3. CASE ~AdvanceRound /\ ~CommitSoundRouting
    <2>1. UNCHANGED <<work, plan>> /\ nextItem' \in Nat \ {0}
      BY <1>3, ListOther
    <2> QED  BY <2>1 DEF ListInv, ListTypes, Registered
  <1> QED  BY <1>1, <1>2, <1>3

\* The priorities of the inputs are lower, and the first task has none.
LEMMA InputsBefore == ListInv => InputsFirst
  <1> SUFFICES ASSUME ListInv, NEW i \in DOMAIN work, NEW j \in DOMAIN work,
                      IsInput(work[j], work[i])
               PROVE  j < i
    BY DEF InputsFirst
  <1>1. /\ work \in Seq(Tasks) /\ DOMAIN work = 1..Len(work) /\ Len(work) \in Nat
        /\ work[i] \in Tasks /\ work[j] \in Tasks
    BY LenProperties, ElementOfSeq DEF ListInv, ListTypes
  <1>2. Priority[work[j]] < Priority[work[i]]
    BY <1>1, GraphAssumption DEF IsInput
  <1>3. Inputs[work[i]] # <<>>
    <2>1. DOMAIN Inputs[work[i]] # {}
      BY DEF IsInput
    <2>2. DOMAIN <<>> = {}
      OBVIOUS
    <2> QED  BY <2>1, <2>2
  <1>4. i # 1
    BY <1>3 DEF ListInv
  <1>5. Priority[work[i]] \in Nat /\ Priority[work[j]] \in Nat
    BY <1>1, SchedulerAssumption
  <1>6. i # j
    BY <1>2, <1>5
  <1>7. ~(1 < i /\ i < j /\ j < Len(work) + 1)
    <2>1. Behind(work, Len(work) + 1)
      BY DEF ListInv
    <2> QED  BY <1>2, <1>3, <1>5, <2>1 DEF Behind
  <1> QED  BY <1>1, <1>4, <1>6, <1>7

\* However often the list is sorted by costs that change, and whatever is added to it, a
\* task stands behind those whose buffers it sums. (GOScheduler::SortList)
THEOREM InputsAlwaysFirst == Spec => []InputsFirst
  <1>1. Spec => []ListInv
    BY ListInit, ListNext, PTL DEF Spec
  <1> QED  BY <1>1, InputsBefore, PTL

\* In every round every task is handed out, although the plan is made when a task is
\* added and the list is sorted anew in every round. (GOScheduler::Update)
THEOREM AllTasksOffered == Spec => []EveryTaskOffered
  <1>1. Spec => []ListInv
    BY ListInit, ListNext, PTL DEF Spec
  <1>2. ListInv => EveryTaskOffered
    <2> SUFFICES ASSUME ListInv, NEW t \in Registered
                 PROVE  Offers(plan, work, t) >= 1
      BY DEF EveryTaskOffered
    <2> DEFINE offers == {k \in DOMAIN plan : work[plan[k]] = t}
    <2>1. PICK i \in DOMAIN work : work[i] = t
      BY DEF Registered
    <2>2. PICK k \in DOMAIN plan : plan[k] = i
      BY DEF ListInv
    <2>3. k \in offers
      BY <2>1, <2>2
    <2>4. DOMAIN plan = 1..Len(plan) /\ Len(plan) \in Nat
      BY LenProperties DEF ListInv, ListTypes
    <2>5. IsFiniteSet(offers)
      <3>1. IsFiniteSet(1..Len(plan))
        BY <2>4, FS_Interval
      <3> QED  BY <2>4, <3>1, FS_Subset
    <2>6. Cardinality(offers) \in Nat /\ Cardinality(offers) # 0
      BY <2>3, <2>5, FS_CardinalityType, FS_EmptySet
    <2> HIDE DEF offers
    <2>7. Cardinality(offers) >= 1
      BY <2>6
    <2> QED  BY <2>7 DEF Offers, offers
  <1> QED  BY <1>1, <1>2, PTL

-----------------------------------------------------------------------------
(* The tasks and who is in them *)

DataTypes ==
  /\ done \in [Tasks -> BOOLEAN]
  /\ holder \in [Tasks -> Threads \union {None}]
  /\ want \in [Threads -> Tasks \union {None}]
  /\ calls \in [Threads -> Seq(Frames)]
  /\ oldBuffer \in [Tasks -> BOOLEAN] /\ oldAmplitude \in [Tasks -> BOOLEAN]
  /\ owner \in {"play", "copy", "complete", "advance", "renew"}
  /\ visit \in 1..(Len(work) + 1)
  /\ paused \in BOOLEAN

\* Who is in a task holds its mutex, and sums nothing of an earlier round.
FrameOK(t, f) ==
  /\ f.task \in Registered /\ holder[f.task] = t /\ ~done[f.task] /\ f.buffer = FALSE
  /\ f.todo \in Seq(Registered)
  /\ f.asked => f.todo # <<>>

\* A thread is in tasks each of which has asked for the one before. What has been asked
\* for and sums buffers is done when its Run() has returned.
Stack(t) ==
  /\ want[t] # None => want[t] \in Registered
  /\ \A i \in DOMAIN calls[t] : FrameOK(t, calls[t][i])
  /\ \A i, j \in DOMAIN calls[t] : calls[t][i].task = calls[t][j].task => i = j
  /\ \A i \in DOMAIN calls[t] : i > 1 =>
       calls[t][i].asked /\ Head(calls[t][i].todo) = calls[t][i - 1].task
  /\ calls[t] # <<>> =>
       LET f == calls[t][1]
       IN  /\ want[t] # None => f.asked /\ Head(f.todo) = want[t]
           /\ f.asked /\ want[t] = None /\ IsInput(Head(f.todo), f.task) => done[Head(f.todo)]

Stacks == \A t \in Threads : Stack(t)

Held ==
  \A q \in Tasks : holder[q] # None =>
    \E i \in DOMAIN calls[holder[q]] : calls[holder[q]][i].task = q

\* What the callback's thread is about
Pursues(q) ==
  \/ want[Owner] = q /\ calls[Owner] = <<>>
  \/ calls[Owner] # <<>> /\ calls[Owner][Len(calls[Owner])].task = q

OwnerInv ==
  /\ owner \notin {"copy", "complete"} => AtRest(Owner)
  /\ paused => owner \in {"advance", "renew"} /\ \A t \in Threads : AtRest(t)
  /\ owner = "copy" => done[Output] \/ Pursues(Output)
  /\ owner = "complete" =>
       \A i \in DOMAIN work : i < visit =>
         done[work[i]] \/ (i = visit - 1 /\ Pursues(work[i]))
  /\ owner = "advance" => paused \/ \A i \in DOMAIN work : done[work[i]]
  /\ owner = "renew" => paused \/ \A i \in DOMAIN work : i >= visit => done[work[i]]

\* The tasks that are open for, or done in, the round that is played next
Current(q) ==
  \/ owner \in {"play", "copy", "complete"}
  \/ owner = "renew" /\ \E i \in DOMAIN work : i < visit /\ work[i] = q

Fresh == \A q \in Registered : Current(q) /\ done[q] => ~oldBuffer[q]

IInv == ListInv /\ DataTypes /\ Stacks /\ Held /\ OwnerInv /\ Fresh

\* The list holds every registered task once.
LEMMA WorkFacts ==
  ASSUME ListInv
  PROVE  /\ work \in Seq(Tasks) /\ Len(work) \in Nat /\ DOMAIN work = 1..Len(work)
         /\ \A i \in DOMAIN work : work[i] \in Tasks /\ work[i] \in Registered
         /\ Registered \subseteq Tasks
         /\ \A i, j \in DOMAIN work : work[i] = work[j] => i = j
         /\ \A q \in Registered : \E i \in DOMAIN work : work[i] = q
         /\ Output \in Registered /\ Groups \subseteq Registered
  <1>1. work \in Seq(Tasks) /\ Len(work) \in Nat /\ DOMAIN work = 1..Len(work)
    BY LenProperties DEF ListInv, ListTypes
  <1>2. \A i \in DOMAIN work : work[i] \in Tasks /\ work[i] \in Registered
    BY <1>1, ElementOfSeq DEF Registered
  <1>3. Registered \in {Tasks, Tasks \ {LateTask}}
    BY DEF ListInv, ListTypes
  <1>4. \A i, j \in DOMAIN work : work[i] = work[j] => i = j
    BY DEF ListInv, ListTypes, IsInjective
  <1>5. Output \in Registered /\ Groups \subseteq Registered
    BY <1>3, GraphAssumption
  <1>6. \A q \in Registered : \E i \in DOMAIN work : work[i] = q
    BY DEF Registered
  <1> QED  BY <1>1, <1>2, <1>3, <1>4, <1>5, <1>6

\* The frames of a thread
LEMMA CallsOf ==
  ASSUME DataTypes, NEW t \in Threads
  PROVE  /\ calls[t] \in Seq(Frames) /\ Len(calls[t]) \in Nat
         /\ DOMAIN calls[t] = 1..Len(calls[t])
         /\ \A i \in DOMAIN calls[t] : calls[t][i] \in Frames
         /\ calls[t] # <<>> <=> Len(calls[t]) >= 1
         /\ calls[t] = <<>> <=> DOMAIN calls[t] = {}
         /\ calls[t] # <<>> => 1 \in DOMAIN calls[t] /\ Len(calls[t]) \in DOMAIN calls[t]
  <1>1. calls[t] \in Seq(Frames)
    BY DEF DataTypes
  <1>2. /\ Len(calls[t]) \in Nat /\ DOMAIN calls[t] = 1..Len(calls[t])
        /\ \A i \in 1..Len(calls[t]) : calls[t][i] \in Frames
    BY <1>1, LenProperties, ElementOfSeq
  <1>3. calls[t] # <<>> <=> Len(calls[t]) >= 1
    BY <1>1, <1>2, EmptySeq
  <1> QED  BY <1>1, <1>2, <1>3

\* The mutexes keep the threads apart.
LEMMA Apart ==
  ASSUME Stacks, NEW t \in Threads, NEW i \in DOMAIN calls[t]
  PROVE  /\ FrameOK(t, calls[t][i]) /\ holder[calls[t][i].task] = t /\ t # None
  BY GraphAssumption DEF Stacks, Stack, FrameOK, Threads

\* A task with inputs is not current before they are.
LEMMA InputCurrent ==
  ASSUME ListInv, DataTypes, NEW q, Current(q), NEW p \in Registered, IsInput(p, q)
  PROVE  Current(p)
  <1>1. CASE owner \in {"play", "copy", "complete"}
    BY <1>1 DEF Current
  <1>2. CASE owner = "renew" /\ \E i \in DOMAIN work : i < visit /\ work[i] = q
    <2>1. PICK i \in DOMAIN work : i < visit /\ work[i] = q
      BY <1>2
    <2>2. PICK j \in DOMAIN work : work[j] = p
      BY WorkFacts
    <2>3. j < i
      BY <2>1, <2>2, InputsBefore DEF InputsFirst
    <2>4. i \in Nat /\ j \in Nat /\ visit \in Nat
      BY WorkFacts DEF DataTypes
    <2>5. j < visit
      BY <2>1, <2>3, <2>4
    <2> QED  BY <1>2, <2>2, <2>5 DEF Current
  <1> QED  BY <1>1, <1>2 DEF Current

\* Nobody is in a task of an earlier round.
LEMMA FrameCurrent ==
  ASSUME IInv, NEW t \in Threads, NEW i \in DOMAIN calls[t]
  PROVE  Current(calls[t][i].task) /\ ~paused
  <1> DEFINE q == calls[t][i].task
  <1>1. q \in Registered /\ ~done[q]
    BY Apart DEF IInv, FrameOK
  <1>2. ~paused
    BY CallsOf DEF IInv, OwnerInv, AtRest
  <1>3. PICK j \in DOMAIN work : work[j] = q
    BY <1>1, WorkFacts DEF IInv
  <1>4. owner # "advance"
    BY <1>1, <1>2, <1>3 DEF IInv, OwnerInv
  <1>5. owner = "renew" => j < visit
    <2>1. owner = "renew" => ~(j >= visit)
      BY <1>1, <1>2, <1>3 DEF IInv, OwnerInv
    <2>2. j \in Nat /\ visit \in Nat
      BY <1>3, WorkFacts DEF IInv, DataTypes
    <2> QED  BY <2>1, <2>2
  <1>6. owner \in {"play", "copy", "complete", "advance", "renew"}
    BY DEF IInv, DataTypes
  <1> QED  BY <1>2, <1>3, <1>4, <1>5, <1>6 DEF Current

-----------------------------------------------------------------------------
(* Run() *)

\* What a step of Run() does to the thread itself, to the others, to what the callback is
\* about, and to the buffers.
Ran(t) ==
  /\ Stack(t)' /\ Held' /\ DataTypes'
  /\ \A u \in Threads \ {t} : \A q \in Tasks :
       holder[q] = u => holder'[q] = u /\ done'[q] = done[q]
  /\ \A q \in Tasks : done[q] => done'[q]
  /\ t = Owner => \A q \in Tasks : Pursues(q) => Pursues(q)' \/ done'[q]
  /\ \A q \in Registered : done'[q] /\ Current(q) => ~oldBuffer'[q]

\* What a frame has to be after the step
FrameNext(t, f) ==
  /\ f.task \in Registered' /\ holder'[f.task] = t /\ ~done'[f.task] /\ f.buffer = FALSE
  /\ f.todo \in Seq(Registered')
  /\ f.asked => f.todo # <<>>

LEMMA RunAlone ==
  ASSUME IInv, NEW t \in Threads, Run(t)
  PROVE  /\ UNCHANGED <<planVars, ownerVars>> /\ Registered' = Registered
         /\ ~AtRest(t)
         /\ \A u \in Threads \ {t} : calls'[u] = calls[u] /\ want'[u] = want[u]
  <1>1. UNCHANGED <<planVars, ownerVars>>
    BY DEF Run, FindDone, LeaveCell, Enter, Ask, Read, Finish
  <1>2. Registered' = Registered
    BY <1>1 DEF Registered, planVars
  <1>3. ~AtRest(t)
    <2>1. want[t] \in Repeatable => want[t] # None
      BY GraphAssumption, SchedulerAssumption
    <2> QED  BY <2>1 DEF Run, FindDone, LeaveCell, Enter, Ask, Read, Finish, AtRest
  <1>4. calls \in [Threads -> Seq(Frames)] /\ want \in [Threads -> Tasks \union {None}]
    BY DEF IInv, DataTypes
  <1>5. \A u \in Threads \ {t} : calls'[u] = calls[u] /\ want'[u] = want[u]
    <2>1. CASE FindDone(t) \/ LeaveCell(t)
      BY <1>4, <2>1 DEF FindDone, LeaveCell
    <2>2. CASE Enter(t)
      BY <1>4, <2>2 DEF Enter
    <2>3. CASE Ask(t)
      BY <1>4, <2>3 DEF Ask
    <2>4. CASE Read(t)
      BY <1>4, <2>4 DEF Read
    <2>5. CASE Finish(t)
      BY <1>4, <2>5 DEF Finish
    <2> QED  BY <2>1, <2>2, <2>3, <2>4, <2>5 DEF Run
  <1> QED  BY <1>1, <1>2, <1>3, <1>5

\* Another thread's step leaves a stack as it is.
LEMMA StackKept ==
  ASSUME Stacks, DataTypes, NEW u \in Threads, calls'[u] = calls[u], want'[u] = want[u],
         Registered \subseteq Registered',
         \A q \in Registered : holder[q] = u => holder'[q] = u /\ done'[q] = done[q],
         \A q \in Registered : done[q] => done'[q]
  PROVE  Stack(u)'
  <1>1. Stack(u)
    BY DEF Stacks
  <1>2. ASSUME NEW i \in DOMAIN calls[u]
        PROVE  FrameOK(u, calls[u][i])'
    <2>1. FrameOK(u, calls[u][i])
      BY <1>1 DEF Stack
    <2>2. calls[u][i].todo \in Seq(Registered')
      BY <2>1 DEF FrameOK
    <2> QED  BY <2>1, <2>2 DEF FrameOK
  <1>3. ASSUME calls[u] # <<>>, calls[u][1].asked, want[u] = None,
               IsInput(Head(calls[u][1].todo), calls[u][1].task)
        PROVE  done'[Head(calls[u][1].todo)]
    <2>1. 1 \in DOMAIN calls[u]
      BY <1>3, CallsOf
    <2>2. calls[u][1].todo \in Seq(Registered) /\ calls[u][1].todo # <<>>
      BY <1>1, <1>3, <2>1 DEF Stack, FrameOK
    <2>3. Head(calls[u][1].todo) \in Registered
      BY <2>2, HeadTailProperties
    <2> QED  BY <1>1, <1>3, <2>3 DEF Stack
  <1> QED  BY <1>1, <1>2, <1>3 DEF Stack

\* The steps after which a thread wants nothing.
LEMMA Unwanted ==
  ASSUME IInv, NEW t \in Threads, want[t] # None,
         want' = [want EXCEPT ![t] = None],
         UNCHANGED <<planVars, taskVars, calls, ownerVars>>,
         done[want[t]] \/ (t # Owner /\ calls[t] = <<>>)
  PROVE  Ran(t)
  <1> USE DEF IInv, planVars, taskVars, ownerVars
  <1>1. /\ want'[t] = None /\ want' \in [Threads -> Tasks \union {None}]
        /\ \A u \in Threads \ {t} : want'[u] = want[u]
    BY DEF DataTypes
  <1>2. Stack(t)
    BY DEF Stacks
  <1>3. Stack(t)'
    <2>1. Registered' = Registered
      BY DEF Registered
    <2>2. \A i \in DOMAIN calls[t] : FrameOK(t, calls[t][i])'
      BY <1>2, <2>1 DEF Stack, FrameOK
    <2>3. calls[t] # <<>> => calls[t][1].asked /\ done[Head(calls[t][1].todo)]
      BY <1>2 DEF Stack
    <2> QED  BY <1>1, <1>2, <2>2, <2>3 DEF Stack
  <1>4. Held'
    BY DEF Held
  <1>5. DataTypes'
    BY <1>1 DEF DataTypes
  <1>6. ASSUME t = Owner, NEW q \in Tasks, Pursues(q)
        PROVE  Pursues(q)' \/ done'[q]
    BY <1>6 DEF Pursues
  <1>7. \A q \in Registered : done'[q] /\ Current(q) => ~oldBuffer'[q]
    BY DEF Fresh
  <1> QED  BY <1>3, <1>4, <1>5, <1>6, <1>7 DEF Ran

LEMMA FindDoneRan ==
  ASSUME IInv, NEW t \in Threads, FindDone(t)
  PROVE  Ran(t)
  BY Unwanted DEF FindDone

LEMMA LeaveCellRan ==
  ASSUME IInv, NEW t \in Threads, LeaveCell(t)
  PROVE  Ran(t)
  <1>1. t # Owner /\ None \notin Tasks
    BY GraphAssumption DEF LeaveCell
  <1>2. want[t] # None
    BY <1>1, SchedulerAssumption DEF LeaveCell
  <1> QED  BY <1>1, <1>2, Unwanted DEF LeaveCell

LEMMA EnterRan ==
  ASSUME IInv, NEW t \in Threads, Enter(t)
  PROVE  Ran(t)
  <1> USE DEF IInv, planVars, taskVars, ownerVars
  <1> DEFINE q == want[t]
             c == calls[t]
             new == [task |-> q, todo |-> Prerequisites(q), asked |-> FALSE,
                     buffer |-> FALSE, amplitude |-> FALSE]
  <1>1. /\ q # None /\ ~done[q] /\ holder[q] = None
        /\ holder' = [holder EXCEPT ![q] = t]
        /\ calls' = [calls EXCEPT ![t] = <<new>> \o c]
        /\ want' = [want EXCEPT ![t] = None]
        /\ UNCHANGED <<planVars, done, oldBuffer, oldAmplitude, ownerVars>>
    BY DEF Enter
  <1>2. Stack(t)
    BY DEF Stacks
  <1>3. q \in Registered /\ q \in Tasks /\ Registered \subseteq Tasks
    BY <1>1, <1>2, WorkFacts DEF Stack
  <1>4. /\ Prerequisites(q) \in Seq(Registered) /\ Prerequisites(q) \in Seq(Tasks)
    <2>1. Prerequisites(q) \in Seq(Registered)
      BY <1>3, PrerequisitesType
    <2> QED  BY <1>3, <2>1, SeqSubset
  <1>5. new \in Frames
    BY <1>3, <1>4 DEF Frames
  <1>6. /\ new.task = q /\ new.todo = Prerequisites(q) /\ new.asked = FALSE
        /\ new.buffer = FALSE
    OBVIOUS
  <1> HIDE DEF new
  <1>7. c \in Seq(Frames) /\ Len(c) \in Nat /\ DOMAIN c = 1..Len(c)
        /\ (c # <<>> <=> Len(c) >= 1)
    BY CallsOf
  <1>8. /\ <<new>> \in Seq(Frames) /\ Len(<<new>>) = 1 /\ <<new>>[1] = new
    BY <1>5
  <1> DEFINE d == calls'[t]
  <1>9. calls' \in [Threads -> Seq(Frames)] /\ d = <<new>> \o c
        /\ \A u \in Threads \ {t} : calls'[u] = calls[u]
    <2>1. <<new>> \o c \in Seq(Frames)
      BY <1>7, <1>8, ConcatProperties
    <2> QED  BY <1>1, <2>1 DEF DataTypes
  <1>10. /\ Len(d) = Len(c) + 1 /\ DOMAIN d = 1..(Len(c) + 1)
         /\ d[1] = new /\ \A i \in DOMAIN d : i # 1 => i - 1 \in DOMAIN c /\ d[i] = c[i - 1]
    <2> DEFINE e == <<new>>
    <2>0. e \in Seq(Frames) /\ Len(e) = 1 /\ e[1] = new /\ d = e \o c
      BY <1>8, <1>9
    <2> HIDE DEF e, d, c
    <2>1. /\ e \o c \in Seq(Frames) /\ Len(e \o c) = Len(e) + Len(c)
          /\ \A i \in 1..Len(e) + Len(c) : (e \o c)[i] = IF i <= Len(e) THEN e[i] ELSE c[i - Len(e)]
      BY <1>7, <2>0, ConcatProperties
    <2>2. Len(d) = Len(c) + 1 /\ d \in Seq(Frames)
      BY <1>7, <2>0, <2>1
    <2>3. DOMAIN d = 1..(Len(c) + 1)
      BY <2>2, LenProperties
    <2>4. \A i \in 1..(Len(c) + 1) : d[i] = IF i <= 1 THEN e[i] ELSE c[i - 1]
      BY <1>7, <2>0, <2>1
    <2> QED  BY <1>7, <2>0, <2>2, <2>3, <2>4
  <1> HIDE DEF c, d
  <1>11. holder'[q] = t /\ \A p \in Tasks \ {q} : holder'[p] = holder[p]
    BY <1>1, <1>3 DEF DataTypes
  <1>12. /\ want'[t] = None /\ \A u \in Threads \ {t} : want'[u] = want[u]
    BY <1>1 DEF DataTypes
  <1>13. Registered' = Registered
    BY <1>1 DEF Registered
  <1>14. \A i \in DOMAIN c : FrameOK(t, c[i]) /\ c[i].task # q
    BY <1>1, <1>2, Apart DEF Stack, c
  <1>15. Stack(t)'
    <2>1. ASSUME NEW i \in DOMAIN d
          PROVE  FrameNext(t, d[i])
      <3>1. CASE i = 1
        BY <1>1, <1>3, <1>4, <1>6, <1>10, <1>11, <1>13, <3>1 DEF FrameNext
      <3>2. CASE i # 1
        <4>1. i - 1 \in DOMAIN c /\ d[i] = c[i - 1]
          BY <1>10, <3>2
        <4>2. FrameOK(t, c[i - 1]) /\ c[i - 1].task # q
          BY <1>14, <4>1
        <4> QED  BY <1>1, <1>3, <1>11, <1>13, <4>1, <4>2 DEF FrameOK, FrameNext
      <3> QED  BY <3>1, <3>2
    <2>2. ASSUME NEW i \in DOMAIN d, NEW j \in DOMAIN d, d[i].task = d[j].task
          PROVE  i = j
      <3>1. CASE i = 1 /\ j # 1
        BY <1>6, <1>10, <1>14, <2>2, <3>1
      <3>2. CASE i # 1 /\ j = 1
        BY <1>6, <1>10, <1>14, <2>2, <3>2
      <3>3. CASE i # 1 /\ j # 1
        <4>1. i - 1 \in DOMAIN c /\ d[i] = c[i - 1] /\ j - 1 \in DOMAIN c /\ d[j] = c[j - 1]
          BY <1>10, <3>3
        <4>2. i - 1 = j - 1
          BY <1>2, <2>2, <4>1 DEF Stack, c
        <4>3. i \in Int /\ j \in Int
          BY <1>7, <1>10
        <4> QED  BY <4>2, <4>3
      <3> QED  BY <3>1, <3>2, <3>3
    <2>3. ASSUME NEW i \in DOMAIN d, i > 1
          PROVE  d[i].asked /\ Head(d[i].todo) = d[i - 1].task
      <3>1. i \in Int /\ i # 1 /\ i - 1 \in DOMAIN c /\ d[i] = c[i - 1] /\ i - 1 \in DOMAIN d
        BY <1>7, <1>10, <2>3
      <3>2. CASE i - 1 = 1
        <4>1. c # <<>> /\ d[i] = c[1] /\ d[i - 1].task = q
          BY <1>6, <1>7, <1>10, <3>1, <3>2
        <4>2. c[1].asked /\ Head(c[1].todo) = q
          BY <1>1, <1>2, <4>1 DEF Stack, c
        <4> QED  BY <4>1, <4>2
      <3>3. CASE i - 1 # 1
        <4>1. d[i - 1] = c[(i - 1) - 1] /\ i - 1 > 1
          BY <1>7, <1>10, <3>1, <3>3
        <4>2. c[i - 1].asked /\ Head(c[i - 1].todo) = c[(i - 1) - 1].task
          BY <1>2, <3>1, <4>1 DEF Stack, c
        <4> QED  BY <3>1, <4>1, <4>2
      <3> QED  BY <3>2, <3>3
    <2>4. ~d[1].asked
      BY <1>6, <1>10
    <2> QED  BY <1>12, <2>1, <2>2, <2>3, <2>4 DEF Stack, FrameOK, FrameNext, d
  <1>16. Held'
    <2> SUFFICES ASSUME NEW p \in Tasks, holder'[p] # None
                 PROVE  \E i \in DOMAIN calls'[holder'[p]] : calls'[holder'[p]][i].task = p
      BY DEF Held
    <2>1. CASE p = q
      <3>1. 1 \in DOMAIN d /\ d[1].task = p
        BY <1>6, <1>7, <1>10, <2>1
      <3> QED  BY <1>11, <2>1, <3>1 DEF d
    <2>2. CASE p # q
      <3>1. holder'[p] = holder[p] /\ holder[p] \in Threads
        BY <1>11, <2>2 DEF DataTypes
      <3>2. PICK i \in DOMAIN calls[holder[p]] : calls[holder[p]][i].task = p
        BY <3>1 DEF Held
      <3>3. CASE holder[p] # t
        BY <1>9, <3>1, <3>2, <3>3
      <3>4. CASE holder[p] = t
        <4>1. i \in DOMAIN c /\ c[i].task = p
          BY <3>2, <3>4 DEF c
        <4>2. i + 1 \in DOMAIN d /\ i + 1 # 1 /\ (i + 1) - 1 = i
          BY <1>7, <1>10, <4>1
        <4>3. d[i + 1].task = p
          BY <1>10, <4>1, <4>2
        <4> QED  BY <3>1, <3>4, <4>2, <4>3 DEF d
      <3> QED  BY <3>3, <3>4
    <2> QED  BY <2>1, <2>2
  <1>17. DataTypes'
    <2>1. holder' \in [Tasks -> Threads \union {None}] /\ want' \in [Threads -> Tasks \union {None}]
      BY <1>1, <1>3 DEF DataTypes
    <2> QED  BY <1>1, <1>9, <2>1 DEF DataTypes
  <1>18. \A u \in Threads \ {t} : \A p \in Tasks :
           holder[p] = u => holder'[p] = u /\ done'[p] = done[p]
    <2>1. \A u \in Threads : u # None
      BY GraphAssumption DEF Threads
    <2> QED  BY <1>1, <1>11, <2>1
  <1>19. ASSUME t = Owner, NEW p \in Tasks, Pursues(p)
         PROVE  Pursues(p)'
    <2>1. Len(d) \in DOMAIN d /\ d # <<>> /\ Len(d) = Len(c) + 1
      <3>1. Len(d) \in DOMAIN d
        BY <1>7, <1>10
      <3>2. DOMAIN <<>> = {}
        OBVIOUS
      <3> QED  BY <1>10, <3>1, <3>2
    <2>2. CASE c = <<>>
      <3>1. Len(d) = 1 /\ q = p
        BY <1>7, <1>10, <1>19, <2>2, EmptySeq DEF Pursues, c
      <3> QED  BY <1>6, <1>10, <1>19, <2>1, <3>1 DEF Pursues, d
    <2>3. CASE c # <<>>
      <3>1. c[Len(c)].task = p
        BY <1>19, <2>3 DEF Pursues, c
      <3>2. d[Len(d)] = c[Len(c)]
        <4>1. Len(d) # 1 /\ Len(d) - 1 = Len(c)
          BY <1>7, <1>10, <2>3
        <4> QED  BY <1>10, <2>1, <4>1
      <3> QED  BY <1>19, <2>1, <3>1, <3>2 DEF Pursues, d
    <2> QED  BY <2>2, <2>3
  <1>20. \A p \in Registered : done'[p] /\ Current(p) => ~oldBuffer'[p]
    BY <1>1 DEF Fresh
  <1> QED  BY <1>1, <1>15, <1>16, <1>17, <1>18, <1>19, <1>20 DEF Ran

\* The innermost frame goes on.
LEMMA TopChanged ==
  ASSUME IInv, NEW t \in Threads, calls[t] # <<>>, NEW g \in Frames,
         g.task = calls[t][1].task, g.buffer = FALSE, g.todo \in Seq(Registered),
         g.asked => g.todo # <<>> /\ want'[t] # None,
         calls' = [calls EXCEPT ![t] = [calls[t] EXCEPT ![1] = g]],
         want' \in [Threads -> Tasks \union {None}],
         \A u \in Threads \ {t} : want'[u] = want[u],
         want'[t] # None => want'[t] \in Registered /\ g.asked /\ Head(g.todo) = want'[t],
         UNCHANGED <<planVars, taskVars, ownerVars>>
  PROVE  Ran(t)
  <1> USE DEF IInv, planVars, taskVars, ownerVars
  <1> DEFINE c == calls[t]
             d == calls'[t]
  <1>1. Stack(t)
    BY DEF Stacks
  <1>2. /\ c \in Seq(Frames) /\ Len(c) \in Nat /\ DOMAIN c = 1..Len(c) /\ 1 \in DOMAIN c
        /\ Len(c) \in DOMAIN c
    BY CallsOf
  <1>3. d = [c EXCEPT ![1] = g] /\ \A u \in Threads \ {t} : calls'[u] = calls[u]
    BY DEF DataTypes
  <1>4. d \in Seq(Frames) /\ Len(d) = Len(c)
    BY <1>2, <1>3, ExceptSeq
  <1>5. DOMAIN d = DOMAIN c /\ d[1] = g /\ \A i \in DOMAIN c : i # 1 => d[i] = c[i]
    BY <1>2, <1>3
  <1>6. calls' \in [Threads -> Seq(Frames)]
    BY <1>3, <1>4 DEF DataTypes
  <1>7. Registered' = Registered
    BY DEF Registered
  <1>8. \A i \in DOMAIN c : d[i].task = c[i].task
    BY <1>5
  <1>9. d # <<>> /\ c # <<>>
    <2>1. DOMAIN <<>> = {}
      OBVIOUS
    <2> QED  BY <1>2, <1>5, <2>1
  <1> HIDE DEF c, d
  <1>10. \A i \in DOMAIN c : FrameOK(t, c[i])
    BY <1>1 DEF Stack, c
  <1>11. ASSUME NEW i \in DOMAIN d
         PROVE  FrameNext(t, d[i])
    <2>1. CASE i = 1
      <3>1. FrameOK(t, c[1])
        BY <1>2, <1>10
      <3> QED  BY <1>5, <1>7, <2>1, <3>1 DEF FrameOK, FrameNext, c
    <2>2. CASE i # 1
      <3>1. FrameOK(t, c[i]) /\ d[i] = c[i]
        BY <1>5, <1>10, <2>2
      <3> QED  BY <1>7, <3>1 DEF FrameOK, FrameNext
    <2> QED  BY <2>1, <2>2
  <1>12. \A i, j \in DOMAIN d : d[i].task = d[j].task => i = j
    BY <1>1, <1>5, <1>8 DEF Stack, c
  <1>13. ASSUME NEW i \in DOMAIN d, i > 1
         PROVE  d[i].asked /\ Head(d[i].todo) = d[i - 1].task
    <2>1. i # 1 /\ i - 1 \in DOMAIN c /\ i \in DOMAIN c
      BY <1>2, <1>5, <1>13
    <2>2. c[i].asked /\ Head(c[i].todo) = c[i - 1].task
      BY <1>1, <1>13, <2>1 DEF Stack, c
    <2> QED  BY <1>5, <1>8, <2>1, <2>2
  <1>14. Stack(t)'
    BY <1>5, <1>7, <1>11, <1>12, <1>13 DEF Stack, FrameOK, FrameNext, d
  <1>15. Held'
    <2> SUFFICES ASSUME NEW p \in Tasks, holder[p] # None
                 PROVE  \E i \in DOMAIN calls'[holder[p]] : calls'[holder[p]][i].task = p
      BY DEF Held
    <2>1. holder[p] \in Threads
      BY DEF DataTypes
    <2>2. PICK i \in DOMAIN calls[holder[p]] : calls[holder[p]][i].task = p
      BY DEF Held
    <2>3. CASE holder[p] = t
      <3>1. i \in DOMAIN d /\ d[i].task = p
        BY <1>5, <1>8, <2>2, <2>3 DEF c
      <3> QED  BY <2>3, <3>1 DEF d
    <2>4. CASE holder[p] # t
      BY <1>3, <2>1, <2>2, <2>4
    <2> QED  BY <2>3, <2>4
  <1>16. DataTypes'
    BY <1>6 DEF DataTypes
  <1>17. ASSUME t = Owner, NEW p \in Tasks, Pursues(p)
         PROVE  Pursues(p)'
    <2>1. c[Len(c)].task = p
      BY <1>9, <1>17 DEF Pursues, c
    <2>2. d[Len(d)].task = p
      BY <1>2, <1>4, <1>8, <2>1
    <2> QED  BY <1>9, <1>17, <2>2 DEF Pursues, d
  <1>18. \A p \in Registered : done'[p] /\ Current(p) => ~oldBuffer'[p]
    BY DEF Fresh
  <1> QED  BY <1>14, <1>15, <1>16, <1>17, <1>18 DEF Ran

LEMMA AskRan ==
  ASSUME IInv, NEW t \in Threads, Ask(t)
  PROVE  Ran(t)
  <1> DEFINE f == calls[t][1]
             g == [f EXCEPT !.asked = TRUE]
  <1>1. /\ want[t] = None /\ calls[t] # <<>> /\ f.todo # <<>>
        /\ want' = [want EXCEPT ![t] = Head(f.todo)]
        /\ UNCHANGED <<planVars, taskVars, ownerVars>>
    BY DEF Ask
  <1>2. 1 \in DOMAIN calls[t] /\ f \in Frames
    BY <1>1, CallsOf DEF IInv
  <1>3. calls' = [calls EXCEPT ![t] = [calls[t] EXCEPT ![1] = g]]
    BY DEF Ask
  <1>4. FrameOK(t, f)
    BY <1>2, Apart DEF IInv
  <1>5. g \in Frames /\ g.task = f.task /\ g.buffer = FALSE /\ g.todo = f.todo /\ g.asked
    BY <1>2, <1>4 DEF Frames, FrameOK
  <1>6. Head(f.todo) \in Registered /\ Head(f.todo) \in Tasks /\ Head(f.todo) # None
    <2>1. Head(f.todo) \in Registered
      BY <1>1, <1>4, HeadTailProperties DEF FrameOK
    <2>2. Head(f.todo) \in Tasks
      BY <2>1, WorkFacts DEF IInv
    <2> QED  BY <2>1, <2>2, GraphAssumption
  <1>7. /\ want' \in [Threads -> Tasks \union {None}] /\ want'[t] = Head(f.todo)
        /\ \A u \in Threads \ {t} : want'[u] = want[u]
    BY <1>1, <1>6 DEF IInv, DataTypes
  <1>8. g.todo \in Seq(Registered) /\ g.todo # <<>>
    BY <1>1, <1>4, <1>5 DEF FrameOK
  <1> HIDE DEF g
  <1> QED  BY <1>1, <1>3, <1>5, <1>6, <1>7, <1>8, TopChanged

LEMMA ReadRan ==
  ASSUME IInv, NEW t \in Threads, Read(t)
  PROVE  Ran(t)
  <1> DEFINE f == calls[t][1]
             p == Head(f.todo)
             sums == f.buffer \/ (IsInput(p, f.task) /\ oldBuffer[p])
             uses == f.amplitude \/ oldAmplitude[p]
             g == [f EXCEPT !.todo = Tail(f.todo), !.asked = FALSE,
                            !.buffer = sums, !.amplitude = uses]
  <1>1. /\ want[t] = None /\ calls[t] # <<>> /\ f.todo # <<>> /\ (f.asked \/ done[p])
        /\ UNCHANGED <<planVars, taskVars, want, ownerVars>>
    BY DEF Read
  <1>2. 1 \in DOMAIN calls[t] /\ f \in Frames
    BY <1>1, CallsOf DEF IInv
  <1>3. calls' = [calls EXCEPT ![t] = [calls[t] EXCEPT ![1] = g]]
    BY DEF Read
  <1>4. FrameOK(t, f)
    BY <1>2, Apart DEF IInv
  <1>5. p \in Registered /\ Tail(f.todo) \in Seq(Registered) /\ Tail(f.todo) \in Seq(Tasks)
    <2>1. p \in Registered /\ Tail(f.todo) \in Seq(Registered)
      BY <1>1, <1>4, HeadTailProperties DEF FrameOK
    <2> QED  BY <2>1, WorkFacts, SeqSubset DEF IInv
  <1>6. sums = FALSE
    <2>1. ASSUME IsInput(p, f.task)
          PROVE  ~oldBuffer[p]
      <3>1. done[p]
        BY <1>1, <2>1 DEF IInv, Stacks, Stack
      <3>2. Current(f.task)
        BY <1>2, FrameCurrent
      <3>3. Current(p)
        BY <1>5, <2>1, <3>2, InputCurrent DEF IInv
      <3> QED  BY <1>5, <3>1, <3>3 DEF IInv, Fresh
    <2>2. f.buffer = FALSE
      BY <1>4 DEF FrameOK
    <2> QED  BY <2>1, <2>2
  <1>7. sums \in BOOLEAN /\ uses \in BOOLEAN
    OBVIOUS
  <1> HIDE DEF sums, uses
  <1>8. /\ g \in Frames /\ g.task = f.task /\ g.buffer = FALSE /\ g.todo = Tail(f.todo)
        /\ ~g.asked
    BY <1>2, <1>5, <1>6, <1>7 DEF Frames
  <1> HIDE DEF g
  <1>9. want' = want /\ want \in [Threads -> Tasks \union {None}]
    BY <1>1 DEF IInv, DataTypes
  <1> QED  BY <1>1, <1>3, <1>5, <1>8, <1>9, TopChanged

LEMMA FinishRan ==
  ASSUME IInv, NEW t \in Threads, Finish(t)
  PROVE  Ran(t)
  <1> USE DEF IInv, planVars, ownerVars
  <1> DEFINE c == calls[t]
             d == calls'[t]
             f == calls[t][1]
             q == calls[t][1].task
  <1>1. /\ want[t] = None /\ c # <<>> /\ f.todo = <<>>
        /\ done' = [done EXCEPT ![q] = TRUE]
        /\ holder' = [holder EXCEPT ![q] = None]
        /\ oldBuffer' = [oldBuffer EXCEPT ![q] = f.buffer]
        /\ oldAmplitude' = [oldAmplitude EXCEPT ![q] = f.amplitude]
        /\ calls' = [calls EXCEPT ![t] = Tail(c)]
        /\ UNCHANGED <<planVars, want, ownerVars>>
    BY DEF Finish
  <1>2. Stack(t)
    BY DEF Stacks
  <1>3. /\ c \in Seq(Frames) /\ Len(c) \in Nat /\ DOMAIN c = 1..Len(c) /\ 1 \in DOMAIN c
        /\ Len(c) \in DOMAIN c /\ f \in Frames
    BY <1>1, CallsOf
  <1>4. FrameOK(t, f) /\ q \in Registered /\ q \in Tasks /\ f.buffer = FALSE
    <2>1. FrameOK(t, f)
      BY <1>3, Apart
    <2> QED  BY <2>1, WorkFacts DEF FrameOK
  <1>5. /\ d \in Seq(Frames) /\ Len(d) = Len(c) - 1 /\ DOMAIN d = 1..(Len(c) - 1)
        /\ \A i \in DOMAIN d : i + 1 \in DOMAIN c /\ d[i] = c[i + 1]
    <2>1. d = Tail(c)
      BY <1>1 DEF DataTypes
    <2> HIDE DEF c, d
    <2>2. /\ d \in Seq(Frames) /\ Len(d) = Len(c) - 1
          /\ \A i \in 1..Len(d) : d[i] = c[i + 1]
      BY <1>1, <1>3, <2>1, HeadTailProperties
    <2>3. DOMAIN d = 1..(Len(c) - 1)
      BY <2>2, LenProperties
    <2> QED  BY <1>3, <2>2, <2>3
  <1>6. calls' \in [Threads -> Seq(Frames)] /\ \A u \in Threads \ {t} : calls'[u] = calls[u]
    BY <1>1, <1>5 DEF DataTypes
  <1>7. /\ \A p \in Tasks \ {q} : holder'[p] = holder[p] /\ done'[p] = done[p]
                                 /\ oldBuffer'[p] = oldBuffer[p]
        /\ holder'[q] = None /\ done'[q] /\ oldBuffer'[q] = FALSE
    BY <1>1, <1>4 DEF DataTypes
  <1>8. Registered' = Registered
    BY <1>1 DEF Registered
  <1>9. holder[q] = t /\ t # None
    BY <1>3, Apart
  <1> HIDE DEF c, d
  <1>10. ASSUME NEW i \in DOMAIN d
         PROVE  FrameNext(t, d[i])
    <2>1. i + 1 \in DOMAIN c /\ d[i] = c[i + 1] /\ i + 1 # 1
      BY <1>3, <1>5
    <2>2. FrameOK(t, c[i + 1]) /\ c[i + 1].task # q
      BY <1>2, <1>3, <2>1 DEF Stack, c
    <2>3. c[i + 1].task \in Tasks \ {q}
      BY <2>2, WorkFacts DEF FrameOK
    <2> QED  BY <1>7, <1>8, <2>1, <2>2, <2>3 DEF FrameOK, FrameNext
  <1>11. ASSUME NEW i \in DOMAIN d, NEW j \in DOMAIN d, d[i].task = d[j].task
         PROVE  i = j
    <2>1. i + 1 = j + 1
      BY <1>2, <1>5, <1>11 DEF Stack, c
    <2>2. i \in Int /\ j \in Int
      BY <1>5
    <2> QED  BY <2>1, <2>2
  <1>12. ASSUME NEW i \in DOMAIN d, i > 1
         PROVE  d[i].asked /\ Head(d[i].todo) = d[i - 1].task
    <2>1. /\ i - 1 \in DOMAIN d /\ (i - 1) + 1 = i /\ i + 1 \in DOMAIN c /\ i + 1 > 1
          /\ (i + 1) - 1 = i
      BY <1>3, <1>5, <1>12
    <2>2. c[i + 1].asked /\ Head(c[i + 1].todo) = c[i].task
      BY <1>2, <2>1 DEF Stack, c
    <2> QED  BY <1>5, <2>1, <2>2
  <1>13. d # <<>> => d[1].asked /\ Head(d[1].todo) = q
    <2> SUFFICES ASSUME d # <<>>
                 PROVE  d[1].asked /\ Head(d[1].todo) = q
      OBVIOUS
    <2>1. Len(d) # 0
      BY <1>5, EmptySeq
    <2>2. 1 \in DOMAIN d /\ 2 \in DOMAIN c /\ d[1] = c[2]
      BY <1>3, <1>5, <2>1
    <2>3. c[2].asked /\ Head(c[2].todo) = c[2 - 1].task
      BY <1>2, <2>2 DEF Stack, c
    <2> QED  BY <2>2, <2>3 DEF c
  <1>14. want'[t] = None
    BY <1>1
  <1>15. Stack(t)'
    BY <1>7, <1>10, <1>11, <1>12, <1>13, <1>14 DEF Stack, FrameOK, FrameNext, d
  <1>16. Held'
    <2> SUFFICES ASSUME NEW p \in Tasks, holder'[p] # None
                 PROVE  \E i \in DOMAIN calls'[holder'[p]] : calls'[holder'[p]][i].task = p
      BY DEF Held
    <2>1. p # q /\ holder'[p] = holder[p] /\ holder[p] \in Threads
      BY <1>7 DEF DataTypes
    <2>2. PICK i \in DOMAIN calls[holder[p]] : calls[holder[p]][i].task = p
      BY <2>1 DEF Held
    <2>3. CASE holder[p] = t
      <3>1. i \in DOMAIN c /\ c[i].task = p /\ i # 1
        BY <2>1, <2>2, <2>3 DEF c
      <3>2. i - 1 \in DOMAIN d /\ (i - 1) + 1 = i
        BY <1>3, <1>5, <3>1
      <3>3. d[i - 1].task = p
        BY <1>5, <3>1, <3>2
      <3> QED  BY <2>1, <2>3, <3>2, <3>3 DEF d
    <2>4. CASE holder[p] # t
      BY <1>6, <2>1, <2>2, <2>4
    <2> QED  BY <2>3, <2>4
  <1>17. DataTypes'
    <2>1. f.amplitude \in BOOLEAN /\ f.buffer \in BOOLEAN
      BY <1>3 DEF Frames
    <2> HIDE DEF f
    <2>2. oldBuffer' \in [Tasks -> BOOLEAN] /\ oldAmplitude' \in [Tasks -> BOOLEAN]
      BY <1>1, <2>1 DEF DataTypes
    <2>3. done' \in [Tasks -> BOOLEAN] /\ holder' \in [Tasks -> Threads \union {None}]
      BY <1>1 DEF DataTypes
    <2> QED  BY <1>1, <1>6, <2>2, <2>3 DEF DataTypes
  <1>18. \A u \in Threads \ {t} : \A p \in Tasks :
           holder[p] = u => holder'[p] = u /\ done'[p] = done[p]
    BY <1>7, <1>9
  <1>19. ASSUME t = Owner, NEW p \in Tasks, Pursues(p)
         PROVE  Pursues(p)' \/ done'[p]
    <2>1. c[Len(c)].task = p
      BY <1>1, <1>19 DEF Pursues, c
    <2>2. CASE Len(c) = 1
      BY <1>7, <2>1, <2>2 DEF c
    <2>3. CASE Len(c) # 1
      <3>1. Len(d) \in DOMAIN d /\ Len(d) + 1 = Len(c)
        BY <1>3, <1>5, <2>3
      <3>2. d[Len(d)].task = p
        BY <1>5, <2>1, <3>1
      <3>3. d # <<>>
        <4>1. DOMAIN <<>> = {}
          OBVIOUS
        <4> QED  BY <3>1, <4>1
      <3> QED  BY <1>19, <3>2, <3>3 DEF Pursues, d
    <2> QED  BY <2>2, <2>3
  <1>20. \A p \in Registered : done'[p] /\ Current(p) => ~oldBuffer'[p]
    <2>1. \A p \in Registered : p \in Tasks
      BY WorkFacts
    <2> QED  BY <1>7, <2>1 DEF Fresh
  <1>21. \A p \in Tasks : done[p] => done'[p]
    BY <1>7
  <1> QED  BY <1>15, <1>16, <1>17, <1>18, <1>19, <1>20, <1>21 DEF Ran

\* Nobody who is at rest pursues anything.
LEMMA RestPursuesNothing ==
  ASSUME NEW q \in Tasks, AtRest(Owner)
  PROVE  ~Pursues(q)
  BY GraphAssumption DEF AtRest, Pursues

\* What the callback waits for gets done, or is still being run.
LEMMA RunPursues ==
  ASSUME IInv, NEW t \in Threads, Run(t), Ran(t), NEW q \in Tasks, Pursues(q)
  PROVE  Pursues(q)' \/ done'[q]
  <1>1. CASE t = Owner
    BY <1>1 DEF Ran
  <1>2. CASE t # Owner
    <2>1. Owner \in Threads
      BY DEF Threads
    <2>2. calls'[Owner] = calls[Owner] /\ want'[Owner] = want[Owner]
      BY <1>2, <2>1, RunAlone
    <2> QED  BY <2>2 DEF Pursues
  <1> QED  BY <1>1, <1>2

\* A step of Run(), of any thread
LEMMA RunInv ==
  ASSUME IInv, NEW t \in Threads, Run(t)
  PROVE  IInv'
  <1>1. Ran(t)
    BY FindDoneRan, LeaveCellRan, EnterRan, AskRan, ReadRan, FinishRan DEF Run
  <1>2. /\ UNCHANGED <<work, plan, nextItem, owner, visit, paused>> /\ Registered' = Registered
        /\ ~AtRest(t)
        /\ \A u \in Threads \ {t} : calls'[u] = calls[u] /\ want'[u] = want[u]
    BY RunAlone DEF planVars, ownerVars
  <1>3. ListInv'
    BY <1>2 DEF IInv, ListInv, ListTypes
  <1>4. ASSUME NEW u \in Threads
        PROVE  Stack(u)'
    <2>1. CASE u = t
      BY <1>1, <2>1 DEF Ran
    <2>2. CASE u # t
      <3>1. Registered \subseteq Tasks
        BY WorkFacts DEF IInv
      <3>2. \A q \in Registered : holder[q] = u => holder'[q] = u /\ done'[q] = done[q]
        BY <1>1, <2>2, <3>1 DEF Ran
      <3>3. \A q \in Registered : done[q] => done'[q]
        BY <1>1, <3>1 DEF Ran
      <3>4. calls'[u] = calls[u] /\ want'[u] = want[u]
        BY <1>2, <2>2
      <3> QED  BY <1>2, <3>2, <3>3, <3>4, StackKept DEF IInv
    <2> QED  BY <2>1, <2>2
  <1>5. OwnerInv'
    <2>1. \A q \in Tasks : done[q] => done'[q]
      BY <1>1 DEF Ran
    <2>2. \A i \in DOMAIN work : work[i] \in Tasks
      BY WorkFacts DEF IInv
    <2>3. Output \in Tasks /\ Owner \in Threads
      BY GraphAssumption DEF Threads
    <2>4. owner \notin {"copy", "complete"} => AtRest(Owner)'
      <3> SUFFICES ASSUME owner \notin {"copy", "complete"}
                   PROVE  AtRest(Owner)'
        OBVIOUS
      <3>1. AtRest(Owner)
        BY DEF IInv, OwnerInv
      <3>2. t # Owner
        BY <1>2, <3>1
      <3>3. calls'[Owner] = calls[Owner] /\ want'[Owner] = want[Owner]
        BY <1>2, <2>3, <3>2
      <3> QED  BY <3>1, <3>3 DEF AtRest
    <2>5. ~paused
      BY <1>2 DEF IInv, OwnerInv
    <2>6. owner = "copy" => done'[Output] \/ Pursues(Output)'
      BY <1>1, <2>1, <2>3, RunPursues DEF IInv, OwnerInv
    <2>7. ASSUME owner = "complete", NEW i \in DOMAIN work, i < visit
          PROVE  done'[work[i]] \/ (i = visit - 1 /\ Pursues(work[i])')
      <3>1. done[work[i]] \/ (i = visit - 1 /\ Pursues(work[i]))
        BY <2>7 DEF IInv, OwnerInv
      <3>2. PICK q \in Tasks : q = work[i]
        BY <2>2
      <3>3. Pursues(q) => Pursues(q)' \/ done'[q]
        BY <1>1, RunPursues
      <3> QED  BY <1>2, <2>1, <3>1, <3>2, <3>3 DEF Pursues
    <2>8. owner = "advance" => \A i \in DOMAIN work : done'[work[i]]
      BY <2>1, <2>2, <2>5 DEF IInv, OwnerInv
    <2>9. owner = "renew" => \A i \in DOMAIN work : i >= visit => done'[work[i]]
      BY <2>1, <2>2, <2>5 DEF IInv, OwnerInv
    <2> QED  BY <1>2, <2>4, <2>5, <2>6, <2>7, <2>8, <2>9 DEF OwnerInv
  <1>6. Fresh'
    BY <1>1, <1>2 DEF Ran, Fresh, Current
  <1> QED  BY <1>1, <1>3, <1>4, <1>5, <1>6 DEF IInv, Ran, Stacks

\* Threads at rest that begin something registered; nothing else happens to the tasks.
LEMMA Begun ==
  ASSUME IInv, UNCHANGED <<work, plan, done, holder, calls>>, nextItem' \in Nat \ {0},
         want' \in [Threads -> Tasks \union {None}],
         \A u \in Threads :
           want'[u] = want[u] \/ (calls[u] = <<>> /\ want'[u] \in Registered)
  PROVE  ListInv' /\ Stacks' /\ Held'
  <1>1. Registered' = Registered
    BY DEF Registered
  <1>2. ListInv'
    BY <1>1 DEF IInv, ListInv, ListTypes
  <1>3. ASSUME NEW u \in Threads
        PROVE  Stack(u)'
    <2>1. CASE want'[u] = want[u]
      BY <1>1, <2>1, StackKept DEF IInv
    <2>2. CASE calls[u] = <<>> /\ want'[u] \in Registered
      BY <1>1, <2>2 DEF Stack
    <2> QED  BY <1>3, <2>1, <2>2
  <1>4. Held'
    BY DEF IInv, Held
  <1> QED  BY <1>2, <1>3, <1>4 DEF Stacks

LEMMA WorkerInv ==
  ASSUME IInv, NEW w \in Workers, GetNextTask(w) \/ LingerInRelease(w)
  PROVE  IInv'
  <1> USE DEF taskVars, ownerVars, planVars
  <1>1. /\ AtRest(w) /\ ~paused
        /\ UNCHANGED <<work, plan, taskVars, calls, ownerVars>>
    BY DEF GetNextTask, LingerInRelease
  <1>2. nextItem' \in Nat \ {0}
    <2>1. nextItem \in Nat \ {0}
      BY DEF IInv, ListInv, ListTypes
    <2> QED  BY <2>1 DEF GetNextTask, LingerInRelease
  <1>3. PICK q \in Registered : want' = [want EXCEPT ![w] = q]
    <2>1. CASE GetNextTask(w)
      <3>1. want' = [want EXCEPT ![w] = work[plan[nextItem]]] /\ nextItem <= Len(plan)
        BY <2>1 DEF GetNextTask
      <3>2. nextItem \in Nat \ {0} /\ plan \in Seq(DOMAIN work)
        BY DEF IInv, ListInv, ListTypes
      <3>3. Len(plan) \in Nat
        BY <3>2, LenProperties
      <3>4. plan[nextItem] \in DOMAIN work
        BY <3>1, <3>2, <3>3, ElementOfSeq
      <3> QED  BY <3>1, <3>4 DEF Registered
    <2>2. CASE LingerInRelease(w)
      <3>1. Groups \subseteq Registered
        BY WorkFacts DEF IInv
      <3> QED  BY <2>2, <3>1 DEF LingerInRelease
    <2> QED  BY <2>1, <2>2
  <1>4. w # Owner /\ w \in Threads /\ q \in Tasks
    <2>1. w # Owner /\ w \in Threads
      BY GraphAssumption DEF Threads
    <2>2. q \in Tasks
      BY WorkFacts DEF IInv
    <2> QED  BY <2>1, <2>2
  <1>5. /\ want' \in [Threads -> Tasks \union {None}] /\ want'[w] = q
        /\ \A u \in Threads \ {w} : want'[u] = want[u]
    BY <1>3, <1>4 DEF IInv, DataTypes
  <1>6. ListInv' /\ Stacks' /\ Held'
    BY <1>1, <1>2, <1>4, <1>5, Begun DEF AtRest
  <1>7. DataTypes'
    BY <1>1, <1>5 DEF IInv, DataTypes
  <1>8. want'[Owner] = want[Owner]
    BY <1>4, <1>5 DEF Threads
  <1>9. OwnerInv'
    <2>1. AtRest(Owner)' <=> AtRest(Owner)
      BY <1>1, <1>8 DEF AtRest
    <2>2. \A p : Pursues(p) => Pursues(p)'
      BY <1>1, <1>8 DEF Pursues
    <2> QED  BY <1>1, <2>1, <2>2 DEF IInv, OwnerInv
  <1>10. Fresh'
    BY <1>1 DEF IInv, Fresh, Current, Registered
  <1> QED  BY <1>6, <1>7, <1>9, <1>10 DEF IInv

\* The callback's thread begins a task.
LEMMA OwnerWants ==
  ASSUME IInv, AtRest(Owner), NEW q \in Registered, want' = [want EXCEPT ![Owner] = q],
         UNCHANGED <<planVars, taskVars, calls>>
  PROVE  /\ ListInv' /\ Stacks' /\ Held' /\ want' \in [Threads -> Tasks \union {None}]
         /\ Pursues(q)' /\ Registered' = Registered
  <1> USE DEF planVars, taskVars
  <1>1. Owner \in Threads /\ q \in Tasks
    BY WorkFacts DEF IInv, Threads
  <1>2. /\ want' \in [Threads -> Tasks \union {None}] /\ want'[Owner] = q
        /\ \A u \in Threads \ {Owner} : want'[u] = want[u]
    BY <1>1 DEF IInv, DataTypes
  <1>3. nextItem' \in Nat \ {0}
    BY DEF IInv, ListInv, ListTypes
  <1>4. ListInv' /\ Stacks' /\ Held'
    BY <1>2, <1>3, Begun DEF AtRest
  <1> QED  BY <1>2, <1>4 DEF AtRest, Pursues, Registered

LEMMA CallbackInv ==
  ASSUME IInv, Callback
  PROVE  IInv'
  <1> USE DEF taskVars, planVars
  <1>1. /\ owner = "play" /\ owner' = "copy" /\ want' = [want EXCEPT ![Owner] = Output]
        /\ UNCHANGED <<planVars, taskVars, calls, visit, paused>>
    BY DEF Callback
  <1>2. AtRest(Owner) /\ ~paused
    BY <1>1 DEF IInv, OwnerInv
  <1>3. Output \in Registered
    BY WorkFacts DEF IInv
  <1>4. /\ ListInv' /\ Stacks' /\ Held' /\ want' \in [Threads -> Tasks \union {None}]
        /\ Pursues(Output)' /\ Registered' = Registered
    BY <1>1, <1>2, <1>3, OwnerWants
  <1>5. DataTypes'
    BY <1>1, <1>4 DEF IInv, DataTypes
  <1>6. OwnerInv'
    BY <1>1, <1>2, <1>4 DEF OwnerInv
  <1>7. Fresh'
    BY <1>1, <1>4 DEF IInv, Fresh, Current
  <1> QED  BY <1>4, <1>5, <1>6, <1>7 DEF IInv

LEMMA CopiedInv ==
  ASSUME IInv, Copied
  PROVE  IInv'
  <1> USE DEF taskVars, planVars, threadVars
  <1>1. /\ owner = "copy" /\ owner' = "complete" /\ visit' = 1 /\ AtRest(Owner)
        /\ UNCHANGED <<planVars, taskVars, threadVars, paused>>
    BY DEF Copied
  <1>2. ~paused
    BY <1>1 DEF IInv, OwnerInv
  <1>3. /\ want \in [Threads -> Tasks \union {None}] /\ nextItem \in Nat \ {0}
        /\ Registered' = Registered
    BY <1>1 DEF IInv, DataTypes, ListInv, ListTypes, Registered
  <1>4. ListInv' /\ Stacks' /\ Held'
    BY <1>1, <1>3, Begun
  <1>5. Len(work) \in Nat /\ DOMAIN work = 1..Len(work)
    BY WorkFacts DEF IInv
  <1>6. DataTypes'
    BY <1>1, <1>5 DEF IInv, DataTypes
  <1>7. OwnerInv'
    BY <1>1, <1>2, <1>5 DEF OwnerInv
  <1>8. Fresh'
    BY <1>1, <1>3 DEF IInv, Fresh, Current
  <1> QED  BY <1>4, <1>6, <1>7, <1>8 DEF IInv

LEMMA CompleteTaskInv ==
  ASSUME IInv, CompleteTask
  PROVE  IInv'
  <1> USE DEF taskVars, planVars, threadVars
  <1>1. /\ owner = "complete" /\ AtRest(Owner)
        /\ UNCHANGED <<planVars, taskVars, calls, paused>>
    BY DEF CompleteTask
  <1>2. ~paused
    BY <1>1 DEF IInv, OwnerInv
  <1>3. /\ Len(work) \in Nat /\ DOMAIN work = 1..Len(work) /\ visit \in 1..(Len(work) + 1)
        /\ \A i \in DOMAIN work : work[i] \in Registered /\ work[i] \in Tasks
    BY WorkFacts DEF IInv, DataTypes
  <1>4. ASSUME NEW i \in DOMAIN work, i < visit
        PROVE  done[work[i]]
    <2>1. ~Pursues(work[i])
      BY <1>1, <1>3, RestPursuesNothing
    <2> QED  BY <1>1, <1>4, <2>1 DEF IInv, OwnerInv
  <1>5. CASE visit <= Len(work)
    <2>1. want' = [want EXCEPT ![Owner] = work[visit]] /\ visit' = visit + 1 /\ owner' = owner
      BY <1>5 DEF CompleteTask
    <2>2. visit \in DOMAIN work
      BY <1>3, <1>5
    <2>3. PICK q \in Registered : q = work[visit]
      BY <1>3, <2>2
    <2>4. want' = [want EXCEPT ![Owner] = q]
      BY <2>1, <2>3
    <2>5. /\ ListInv' /\ Stacks' /\ Held' /\ want' \in [Threads -> Tasks \union {None}]
          /\ Pursues(q)' /\ Registered' = Registered
      BY <1>1, <2>4, OwnerWants
    <2>6. DataTypes'
      BY <1>1, <1>3, <1>5, <2>1, <2>5 DEF IInv, DataTypes
    <2>7. OwnerInv'
      <3> SUFFICES ASSUME NEW i \in DOMAIN work, i < visit + 1
                   PROVE  done[work[i]] \/ (i = visit /\ Pursues(q)' /\ q = work[i])
        BY <1>1, <1>2, <1>3, <2>1 DEF OwnerInv, Pursues
      <3>1. i < visit \/ i = visit
        BY <1>3
      <3> QED  BY <1>4, <2>3, <2>5, <3>1
    <2>8. Fresh'
      BY <1>1, <2>1, <2>5 DEF IInv, Fresh, Current
    <2> QED  BY <2>5, <2>6, <2>7, <2>8 DEF IInv
  <1>6. CASE ~(visit <= Len(work))
    <2>1. owner' = "advance" /\ UNCHANGED <<want, visit>>
      BY <1>6 DEF CompleteTask
    <2>2. /\ want \in [Threads -> Tasks \union {None}] /\ nextItem \in Nat \ {0}
          /\ Registered' = Registered
      BY <1>1 DEF IInv, DataTypes, ListInv, ListTypes, Registered
    <2>3. ListInv' /\ Stacks' /\ Held'
      BY <1>1, <2>1, <2>2, Begun
    <2>4. DataTypes'
      BY <1>1, <2>1 DEF IInv, DataTypes
    <2>5. \A i \in DOMAIN work : done[work[i]]
      BY <1>3, <1>4, <1>6
    <2>6. OwnerInv'
      BY <1>1, <1>2, <2>1, <2>5 DEF OwnerInv, AtRest
    <2>7. Fresh'
      BY <2>1 DEF Fresh, Current
    <2> QED  BY <2>3, <2>4, <2>6, <2>7 DEF IInv
  <1> QED  BY <1>5, <1>6

LEMMA AdvanceRoundInv ==
  ASSUME IInv, AdvanceRound
  PROVE  IInv'
  <1> USE DEF threadVars
  <1>1. /\ owner = "advance" /\ owner' = "renew" /\ visit' = 1
        /\ oldBuffer' = [q \in Tasks |-> TRUE] /\ oldAmplitude' = [q \in Tasks |-> TRUE]
        /\ UNCHANGED <<plan, nextItem, done, holder, threadVars, paused>>
    BY DEF AdvanceRound
  <1>2. /\ ListInv' /\ Registered' = Registered /\ DOMAIN work' = DOMAIN work
        /\ Len(work') = Len(work)
    BY ListAdvance DEF IInv
  <1>3. Len(work) \in Nat /\ DOMAIN work = 1..Len(work)
    BY WorkFacts DEF IInv
  <1>4. DataTypes'
    BY <1>1, <1>2, <1>3 DEF IInv, DataTypes
  <1>5. ASSUME NEW u \in Threads
        PROVE  Stack(u)'
    BY <1>1, <1>2, StackKept DEF IInv
  <1>6. Held'
    BY <1>1 DEF IInv, Held
  <1>7. OwnerInv'
    <2>1. AtRest(Owner)'
      BY <1>1 DEF IInv, OwnerInv, AtRest
    <2>2. paused => \A t \in Threads : AtRest(t)'
      BY <1>1 DEF IInv, OwnerInv, AtRest
    <2>3. ASSUME ~paused, NEW i \in DOMAIN work'
          PROVE  done[work'[i]]
      <3>1. work'[i] \in Registered
        BY <1>2 DEF Registered
      <3>2. PICK j \in DOMAIN work : work[j] = work'[i]
        BY <3>1 DEF Registered
      <3>3. done[work[j]]
        BY <1>1, <2>3 DEF IInv, OwnerInv
      <3> QED  BY <3>2, <3>3
    <2> QED  BY <1>1, <2>1, <2>2, <2>3 DEF OwnerInv
  <1>8. Fresh'
    <2>1. \A i \in DOMAIN work' : ~(i < 1)
      BY <1>2, <1>3
    <2> QED  BY <1>1, <2>1 DEF Fresh, Current
  <1> QED  BY <1>2, <1>4, <1>5, <1>6, <1>7, <1>8 DEF IInv, Stacks

LEMMA CommitInv ==
  ASSUME IInv, CommitSoundRouting
  PROVE  IInv'
  <1> USE DEF threadVars, taskVars
  <1>1. /\ owner = "advance" /\ \A w \in Workers : AtRest(w)
        /\ paused' = TRUE
        /\ UNCHANGED <<nextItem, taskVars, threadVars, owner, visit>>
    BY DEF CommitSoundRouting
  <1>2. /\ ListInv' /\ Registered' = Registered \union {LateTask} /\ Len(work') = Len(work) + 1
    BY ListCommit DEF IInv
  <1>3. Len(work) \in Nat
    BY WorkFacts DEF IInv
  <1>4. DataTypes'
    BY <1>1, <1>2, <1>3 DEF IInv, DataTypes
  <1>5. ASSUME NEW u \in Threads
        PROVE  Stack(u)'
    BY <1>1, <1>2, StackKept DEF IInv
  <1>6. Held'
    BY <1>1 DEF IInv, Held
  <1>7. OwnerInv'
    <2>1. AtRest(Owner)
      BY <1>1 DEF IInv, OwnerInv
    <2>2. \A t \in Threads : AtRest(t)'
      BY <1>1, <2>1 DEF Threads, AtRest
    <2> QED  BY <1>1, <2>2 DEF OwnerInv, Threads
  <1>8. Fresh'
    BY <1>1 DEF Fresh, Current
  <1> QED  BY <1>2, <1>4, <1>5, <1>6, <1>7, <1>8 DEF IInv, Stacks

\* A thread in a task holds inputs that have been renewed already.
LEMMA RenewedStack ==
  ASSUME IInv, owner = "renew", visit \in DOMAIN work, holder[work[visit]] = None,
         done' = [done EXCEPT ![work[visit]] = FALSE],
         UNCHANGED <<work, holder, threadVars>>,
         NEW t \in Threads
  PROVE  Stack(t)'
  <1> USE DEF threadVars
  <1>1. Stack(t)
    BY DEF IInv, Stacks
  <1>2. Registered' = Registered
    BY DEF Registered
  <1>3. \A q \in Tasks : ~done[q] => ~done'[q]
    BY DEF IInv, DataTypes
  <1>4. ASSUME NEW i \in DOMAIN calls[t]
        PROVE  FrameOK(t, calls[t][i])'
    <2>1. FrameOK(t, calls[t][i])
      BY <1>1 DEF Stack
    <2>2. calls[t][i].task \in Tasks
      BY <2>1, WorkFacts DEF IInv, FrameOK
    <2> QED  BY <1>2, <1>3, <2>1, <2>2 DEF FrameOK
  <1>5. ASSUME calls[t] # <<>>, calls[t][1].asked, want[t] = None,
               IsInput(Head(calls[t][1].todo), calls[t][1].task)
        PROVE  done'[Head(calls[t][1].todo)]
    <2> DEFINE p == Head(calls[t][1].todo)
               q == calls[t][1].task
    <2>1. 1 \in DOMAIN calls[t]
      BY <1>5, CallsOf DEF IInv
    <2>2. FrameOK(t, calls[t][1])
      BY <1>1, <2>1 DEF Stack
    <2>3. p \in Registered
      BY <1>5, <2>2, HeadTailProperties DEF FrameOK
    <2>4. done[p]
      BY <1>1, <1>5 DEF Stack
    <2>5. Current(q)
      BY <2>1, FrameCurrent
    <2>6. PICK i \in DOMAIN work : i < visit /\ work[i] = q
      BY <2>5 DEF Current
    <2>7. PICK j \in DOMAIN work : work[j] = p
      BY <2>3, WorkFacts DEF IInv
    <2>8. j < i
      BY <1>5, <2>6, <2>7, InputsBefore DEF IInv, InputsFirst
    <2>9. i \in Nat /\ j \in Nat /\ visit \in Nat
      BY WorkFacts DEF IInv
    <2>10. p # work[visit]
      <3>1. j # visit
        BY <2>6, <2>8, <2>9
      <3> QED  BY <2>7, <3>1, WorkFacts DEF IInv
    <2>11. p \in Tasks
      BY <2>3, WorkFacts DEF IInv
    <2> QED  BY <2>4, <2>10, <2>11 DEF IInv, DataTypes
  <1>6. /\ want' = want /\ calls' = calls
        /\ \A i \in DOMAIN calls[t] : FrameOK(t, calls[t][i])'
    BY <1>4
  <1> QED  BY <1>1, <1>2, <1>5, <1>6 DEF Stack

LEMMA RenewTaskInv ==
  ASSUME IInv, RenewTask
  PROVE  IInv'
  <1> USE DEF threadVars
  <1>1. /\ owner = "renew"
        /\ UNCHANGED <<work, plan, holder, oldBuffer, oldAmplitude, threadVars>>
    BY DEF RenewTask
  <1>2. /\ Len(work) \in Nat /\ DOMAIN work = 1..Len(work) /\ visit \in 1..(Len(work) + 1)
        /\ \A i \in DOMAIN work : work[i] \in Registered /\ work[i] \in Tasks
        /\ \A i, j \in DOMAIN work : work[i] = work[j] => i = j
        /\ \A q \in Registered : q \in Tasks
    BY WorkFacts DEF IInv, DataTypes
  <1>3. AtRest(Owner)
    BY <1>1 DEF IInv, OwnerInv
  <1>4. Registered' = Registered /\ nextItem' \in Nat \ {0}
    BY <1>1 DEF IInv, ListInv, ListTypes, Registered, RenewTask
  <1>5. ListInv'
    BY <1>1, <1>4 DEF IInv, ListInv, ListTypes
  <1>6. Held'
    BY <1>1 DEF IInv, Held
  <1>7. CASE visit <= Len(work)
    <2>1. /\ holder[work[visit]] = None
          /\ done' = [done EXCEPT ![work[visit]] = FALSE]
          /\ visit' = visit + 1
          /\ UNCHANGED <<nextItem, owner, paused>>
      BY <1>7 DEF RenewTask
    <2>2. visit \in DOMAIN work
      BY <1>2, <1>7
    <2>3. DataTypes'
      BY <1>1, <1>2, <1>7, <2>1 DEF IInv, DataTypes
    <2>4. \A t \in Threads : Stack(t)'
      BY <1>1, <2>1, <2>2, RenewedStack
    <2>5. /\ ~done'[work[visit]]
          /\ \A q \in Tasks : q # work[visit] => done'[q] = done[q]
      BY <1>2, <2>1, <2>2 DEF IInv, DataTypes
    <2>6. OwnerInv'
      <3>1. ASSUME ~paused, NEW i \in DOMAIN work, i >= visit + 1
            PROVE  done'[work[i]]
        <4>1. i # visit /\ i >= visit
          BY <1>2, <3>1
        <4>2. done[work[i]] /\ work[i] # work[visit]
          BY <1>1, <1>2, <2>2, <3>1, <4>1 DEF IInv, OwnerInv
        <4> QED  BY <1>2, <2>5, <4>2
      <3>2. paused => \A t \in Threads : AtRest(t)'
        BY <1>1 DEF IInv, OwnerInv, AtRest
      <3> QED  BY <1>1, <1>3, <2>1, <3>1, <3>2 DEF OwnerInv, AtRest
    <2>7. Fresh'
      <3> SUFFICES ASSUME NEW q \in Registered, done'[q],
                          NEW i \in DOMAIN work, i < visit + 1, work[i] = q
                   PROVE  ~oldBuffer[q]
        BY <1>1, <1>4, <2>1 DEF Fresh, Current
      <3>1. q # work[visit] /\ q \in Tasks
        BY <1>2, <2>5
      <3>2. i < visit
        BY <1>2, <3>1
      <3>3. Current(q) /\ done[q]
        BY <1>1, <2>5, <3>1, <3>2 DEF Current
      <3> QED  BY <3>3 DEF IInv, Fresh
    <2> QED  BY <1>5, <1>6, <2>3, <2>4, <2>6, <2>7 DEF IInv, Stacks
  <1>8. CASE ~(visit <= Len(work))
    <2>1. owner' = "play" /\ paused' = FALSE /\ UNCHANGED <<done, visit>>
      BY <1>8 DEF RenewTask
    <2>2. DataTypes'
      BY <1>1, <2>1 DEF IInv, DataTypes
    <2>3. \A t \in Threads : Stack(t)'
      BY <1>1, <1>4, <2>1, StackKept DEF IInv
    <2>4. OwnerInv'
      BY <1>1, <1>3, <2>1 DEF OwnerInv, AtRest
    <2>5. Fresh'
      <3> SUFFICES ASSUME NEW q \in Registered, done[q]
                   PROVE  ~oldBuffer[q]
        BY <1>1, <1>4, <2>1 DEF Fresh
      <3>1. PICK i \in DOMAIN work : work[i] = q
        BY WorkFacts DEF IInv
      <3>2. i < visit
        BY <1>2, <1>8
      <3>3. Current(q)
        BY <1>1, <3>1, <3>2 DEF Current
      <3> QED  BY <3>3 DEF IInv, Fresh
    <2> QED  BY <1>5, <1>6, <2>2, <2>3, <2>4, <2>5 DEF IInv, Stacks
  <1> QED  BY <1>7, <1>8

LEMMA StutterInv ==
  ASSUME IInv, UNCHANGED vars
  PROVE  IInv'
  <1>1. UNCHANGED <<work, plan, nextItem, done, holder, oldBuffer, oldAmplitude, want, calls,
                    owner, visit, paused>>
    BY DEF vars, planVars, taskVars, threadVars, ownerVars
  <1>2. want' \in [Threads -> Tasks \union {None}] /\ nextItem' \in Nat \ {0}
    BY <1>1 DEF IInv, DataTypes, ListInv, ListTypes
  <1>3. ListInv' /\ Stacks' /\ Held'
    BY <1>1, <1>2, Begun
  <1>4. DataTypes'
    BY <1>1 DEF IInv, DataTypes
  <1>5. OwnerInv'
    BY <1>1 DEF IInv, OwnerInv, AtRest, Pursues
  <1>6. Fresh'
    BY <1>1 DEF IInv, Fresh, Current, Registered
  <1> QED  BY <1>3, <1>4, <1>5, <1>6 DEF IInv

LEMMA InvInit == Init => IInv
  <1> SUFFICES ASSUME Init
               PROVE  IInv
    OBVIOUS
  <1>1. ListInv
    BY ListInit
  <1>2. /\ done = [q \in Tasks |-> FALSE] /\ holder = [q \in Tasks |-> None]
        /\ want = [t \in Threads |-> None] /\ calls = [t \in Threads |-> <<>>]
        /\ oldBuffer = [q \in Tasks |-> TRUE] /\ oldAmplitude = [q \in Tasks |-> TRUE]
        /\ owner = "play" /\ visit = 1 /\ paused = FALSE
    BY DEF Init
  <1>3. /\ Len(work) \in Nat /\ Registered \subseteq Tasks
    BY <1>1, WorkFacts
  <1>4. DataTypes
    <2>1. visit \in 1..(Len(work) + 1)
      BY <1>2, <1>3
    <2>2. calls \in [Threads -> Seq(Frames)]
      <3>1. <<>> \in Seq(Frames)
        BY EmptySeq
      <3> QED  BY <1>2, <3>1
    <2>3. /\ done \in [Tasks -> BOOLEAN] /\ oldBuffer \in [Tasks -> BOOLEAN]
          /\ oldAmplitude \in [Tasks -> BOOLEAN]
      BY <1>2
    <2>4. holder \in [Tasks -> Threads \union {None}] /\ want \in [Threads -> Tasks \union {None}]
      BY <1>2
    <2> QED  BY <1>2, <2>1, <2>2, <2>3, <2>4 DEF DataTypes
  <1>5. Stacks
    BY <1>2 DEF Stacks, Stack
  <1>6. Held
    BY <1>2 DEF Held
  <1>7. OwnerInv
    BY <1>2 DEF OwnerInv, AtRest, Threads
  <1>8. Fresh
    BY <1>2, <1>3 DEF Fresh
  <1> QED  BY <1>1, <1>4, <1>5, <1>6, <1>7, <1>8 DEF IInv

LEMMA InvNext == IInv /\ [Next]_vars => IInv'
  BY RunInv, WorkerInv, CallbackInv, CopiedInv, CompleteTaskInv, AdvanceRoundInv,
     RenewTaskInv, CommitInv, StutterInv DEF Next, OwnerStep

LEMMA Invariant == Spec => []IInv
  BY InvInit, InvNext, PTL DEF Spec

\* The list is always one of the tasks, each once, and nobody ever takes a task from a
\* position that is not in it. (GOScheduler::GetNextTask)
THEOREM PeriodTypeOK == Spec => []TypeOK
  <1>1. IInv => TypeOK
    BY DEF IInv, ListInv, ListTypes, DataTypes, TypeOK
  <1> QED  BY <1>1, Invariant, PTL

\* An output is never played before its task is done, and what is done in the round that
\* is played sums nothing of an earlier one, although the workers take tasks of the next
\* round while the callback still renews the others. (GOSoundOutputTask::DoRun)
THEOREM OutputAlwaysFresh == Spec => []OutputFresh
  <1>1. IInv => OutputFresh
    <2> SUFFICES ASSUME IInv
                 PROVE  OutputFresh
      OBVIOUS
    <2>1. owner = "copy" /\ AtRest(Owner) => done[Output]
      BY GraphAssumption, RestPursuesNothing DEF IInv, OwnerInv
    <2>2. owner \in {"play", "copy", "complete"} =>
            \A t \in Registered : done[t] => ~oldBuffer[t]
      BY DEF IInv, Fresh, Current
    <2> QED  BY <2>1, <2>2 DEF OutputFresh
  <1> QED  BY <1>1, Invariant, PTL

\* No task is renewed while somebody is in it: no DoRun() straddles NewRound().
\* (GOScheduler::NewRoundList)
THEOREM AlwaysRenewedAtRest == Spec => []RenewedAtRest
  <1>1. IInv => RenewedAtRest
    <2> SUFFICES ASSUME IInv, owner \in {"advance", "renew"}, NEW i \in DOMAIN work,
                        owner = "advance" \/ visit <= i, holder[work[i]] # None
                 PROVE  FALSE
      BY DEF RenewedAtRest
    <2> DEFINE q == work[i]
    <2>1. q \in Tasks /\ DOMAIN work = 1..Len(work) /\ Len(work) \in Nat
      BY WorkFacts DEF IInv
    <2>2. holder[q] \in Threads
      BY <2>1 DEF IInv, DataTypes
    <2>3. PICK k \in DOMAIN calls[holder[q]] : calls[holder[q]][k].task = q
      BY <2>1 DEF IInv, Held
    <2>4. Current(q)
      BY <2>2, <2>3, FrameCurrent
    <2>5. PICK j \in DOMAIN work : owner = "renew" /\ j < visit /\ work[j] = q
      BY <2>4 DEF Current
    <2>6. j = i
      BY <2>5, WorkFacts DEF IInv
    <2>7. visit \in Int /\ i \in Int
      BY <2>1 DEF IInv, DataTypes
    <2> QED  BY <2>5, <2>6, <2>7
  <1> QED  BY <1>1, Invariant, PTL

================================================================================
