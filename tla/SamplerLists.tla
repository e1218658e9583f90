----------------------------- MODULE SamplerLists -----------------------------
(***************************************************************************)
(* The linked lists of samplers, pointer by pointer: the pool of free      *)
(* samplers (GOSoundSamplerPool over GOSoundSimpleSamplerList) and the two *)
(* halves of a cell's list (GOSoundSamplerList), all of them stacks that   *)
(* are pushed and popped with compare-and-exchange through the one next    *)
(* pointer of a sampler.                                                   *)
(*                                                                         *)
(* Players start samplers: GetSampler(), then Add() to the cell.  Workers  *)
(* mix the cell, round after round, as in WindchestGroupTask: they pop the *)
(* round's list and push every sampler to the next round's list or back    *)
(* into the pool.                                                          *)
(*                                                                         *)
(* Both the main thread and the release task start samplers.  Two threads  *)
(* that take from the pool can meet the ABA problem: an exchange succeeds  *)
(* although the next pointer it stores is no longer the head's, because    *)
(* the head has been away in the meantime.  The history variable aba says  *)
(* that this has happened; the lists are then whatever the code makes of   *)
(* them.                                                                   *)
(***************************************************************************)
EXTENDS Integers, FiniteSets

CONSTANTS
  Players,
  Workers,
  Pool,   \* m_Samplers; SetUsageLimit() creates as many as may be used
  Null,
  UsedMod \* 2^width of m_SamplerCount (atomic_uint), scaled down

ASSUME ListsAssumption ==
  /\ Players \intersect Workers = {}
  /\ IsFiniteSet(Pool) /\ Null \notin Pool
  /\ UsedMod \in Nat /\ UsedMod > Cardinality(Pool)

Threads == Players \union Workers

\* The pool's m_List, a cell's m_PutList and m_GetList, and the chain that
\* Move() has taken off the one and not yet attached to the other.
Lists == {"avail", "put", "get", "moved"}

Pointers == Pool \union {Null}

VARIABLES
  next,    \* GOSoundSampler::next
  top,     \* the heads of the lists
  used,    \* m_SamplerCount
  phase,   \* the cell's round: "rest", "moving", "mixing"
  pc,      \* where each thread is
  list,    \* the list it operates on
  head,    \* the head it has loaded
  nxt,     \* the next pointer it has read in Get()
  mine,    \* the sampler it owns
  taken,   \* history: the samplers popped off the round's list
  aba      \* history: a head was exchanged for a next pointer that was not its own

linkVars   == <<next, top>>
threadVars == <<pc, list, head, nxt, mine>>
listVars   == <<linkVars, used, phase, threadVars, taken, aba>>

Goto(t, to) == pc' = [pc EXCEPT ![t] = to]

\* The samplers that are reached from pointer p: the smallest set that holds p
\* and what its members point to. And the last one of them.
HoldsNext(S) == \A s \in S : next[s] # Null => next[s] \in S

Chain(p) ==
  {s \in Pool : \A S \in SUBSET Pool :
                      HoldsNext(S) /\ (p # Null => p \in S) => s \in S}

Last(p) == CHOOSE s \in Chain(p) : next[s] = Null

----------------------------------------------------------------------------
(* Get(): load the head, read its next pointer, exchange the head. *)

LoadHead(t) ==
  /\ pc[t] = "load"
  /\ top[list[t]] # Null
  /\ head' = [head EXCEPT ![t] = top[list[t]]]
  /\ Goto(t, "next")
  /\ UNCHANGED <<linkVars, used, phase, list, nxt, mine, taken, aba>>

ReadNext(t) ==
  /\ pc[t] = "next"
  /\ nxt' = [nxt EXCEPT ![t] = next[head[t]]]
  /\ Goto(t, "pop")
  /\ UNCHANGED <<linkVars, used, phase, list, head, mine, taken, aba>>

\* Faulty: the head is stored without being compared.
PopWithoutCompare(t) ==
  /\ pc[t] = "pop"
  /\ head' = [head EXCEPT ![t] = Null]
  /\ nxt' = [nxt EXCEPT ![t] = Null]
  /\ top' = [top EXCEPT ![list[t]] = nxt[t]]
  /\ mine' = [mine EXCEPT ![t] = head[t]]
  /\ taken' = IF list[t] = "get" THEN taken \union {head[t]} ELSE taken
  /\ Goto(t, "got")
  /\ aba' = (aba \/ (top[list[t]] = head[t] /\ nxt[t] # next[head[t]]))
  /\ UNCHANGED <<next, used, phase, list>>

Pop(t) ==
  /\ pc[t] = "pop"
  /\ head' = [head EXCEPT ![t] = Null]
  /\ nxt' = [nxt EXCEPT ![t] = Null]
  /\ IF top[list[t]] = head[t]
       THEN /\ top' = [top EXCEPT ![list[t]] = nxt[t]]
            /\ mine' = [mine EXCEPT ![t] = head[t]]
            /\ taken' = IF list[t] = "get" THEN taken \union {head[t]} ELSE taken
            /\ Goto(t, "got")
       ELSE /\ Goto(t, "load")
            /\ UNCHANGED <<top, mine, taken>>
  /\ aba' = (aba \/ (top[list[t]] = head[t] /\ nxt[t] # next[head[t]]))
  /\ UNCHANGED <<next, used, phase, list>>

(* Put(): point the sampler at the head, exchange the head. *)

Link(t) ==
  /\ pc[t] = "link"
  /\ head' = [head EXCEPT ![t] = top[list[t]]]
  /\ next' = [next EXCEPT ![mine[t]] = top[list[t]]]
  /\ Goto(t, "push")
  /\ UNCHANGED <<top, used, phase, list, nxt, mine, taken, aba>>

\* Where a thread goes on: a worker takes the next sampler of the round.
Pushed(t) ==
  /\ list' = [list EXCEPT ![t] = IF t \in Workers THEN "get" ELSE "avail"]
  /\ Goto(t, IF t \in Workers THEN "load" ELSE "out")

\* Faulty: the sampler is not linked again before the next attempt.
PushRetryingStale(t) ==
  /\ pc[t] = "push"
  /\ top[list[t]] = head[t]
  /\ top' = [top EXCEPT ![list[t]] = mine[t]]
  /\ mine' = [mine EXCEPT ![t] = Null]
  /\ Pushed(t)
  /\ head' = [head EXCEPT ![t] = Null]
  /\ UNCHANGED <<next, used, phase, nxt, taken, aba>>

Push(t) ==
  /\ pc[t] = "push"
  /\ head' = [head EXCEPT ![t] = Null]
  /\ IF top[list[t]] = head[t]
       THEN /\ top' = [top EXCEPT ![list[t]] = mine[t]]
            /\ mine' = [mine EXCEPT ![t] = Null]
            /\ Pushed(t)
       ELSE /\ Goto(t, "link")
            /\ UNCHANGED <<top, mine, list>>
  /\ UNCHANGED <<next, used, phase, nxt, taken, aba>>

----------------------------------------------------------------------------
(* Starting a sampler *)

\* GetSampler(), unless the limit has been reached.
GetSampler(p) ==
  /\ p \in Players /\ pc[p] = "out"
  /\ used < Cardinality(Pool)
  /\ Goto(p, "load")
  /\ UNCHANGED <<linkVars, used, phase, list, head, nxt, mine, taken, aba>>

\* The pool is empty all the same.
PoolEmpty(p) ==
  /\ p \in Players /\ pc[p] = "load" /\ top["avail"] = Null
  /\ Goto(p, "out")
  /\ UNCHANGED <<linkVars, used, phase, list, head, nxt, mine, taken, aba>>

\* Faulty: the sampler is handed out uncounted.
StartSamplerUncounted(p) ==
  /\ p \in Players /\ pc[p] = "got"
  /\ next' = [next EXCEPT ![mine[p]] = Null]
  /\ list' = [list EXCEPT ![p] = "put"]
  /\ Goto(p, "link")
  /\ UNCHANGED <<top, used, phase, head, nxt, mine, taken, aba>>

\* The rest of GetSampler(): count the sampler and clear it; then
\* StartSampler().
StartSampler(p) ==
  /\ p \in Players /\ pc[p] = "got"
  /\ used' = (used + 1) % UsedMod
  /\ next' = [next EXCEPT ![mine[p]] = Null]
  /\ list' = [list EXCEPT ![p] = "put"]
  /\ Goto(p, "link")
  /\ UNCHANGED <<top, phase, head, nxt, mine, taken, aba>>

----------------------------------------------------------------------------
(* Mixing *)

\* A worker claims the round; Move() takes the whole list.
Claim(w) ==
  /\ w \in Workers /\ pc[w] = "out"
  /\ phase = "rest"
  /\ phase' = "moving"
  /\ top' = [top EXCEPT !["moved"] = top["put"], !["put"] = Null]
  /\ Goto(w, "attach")
  /\ UNCHANGED <<next, used, list, head, nxt, mine, taken, aba>>

\* Move() puts the chain in front of what is left of the round's list. Nobody
\* pops that list meanwhile, so its exchange succeeds.
Attach(w) ==
  /\ pc[w] = "attach"
  /\ top' = [top EXCEPT !["moved"] = Null,
                        !["get"] = IF top["moved"] = Null THEN @ ELSE top["moved"]]
  /\ next' = IF top["moved"] = Null \/ top["get"] = Null THEN next
             ELSE [next EXCEPT ![Last(top["moved"])] = top["get"]]
  /\ phase' = "mixing"
  /\ Goto(w, "load")
  /\ UNCHANGED <<used, list, head, nxt, mine, taken, aba>>

\* A worker joins while there is something left.
Join(w) ==
  /\ w \in Workers /\ pc[w] = "out"
  /\ phase = "mixing" /\ top["get"] # Null
  /\ Goto(w, "load")
  /\ UNCHANGED <<linkVars, used, phase, list, head, nxt, mine, taken, aba>>

\* Faulty: the sampler goes back to the list of the round that is being mixed.
RequeueIntoRound(w) ==
  /\ w \in Workers /\ pc[w] = "got"
  /\ list' = [list EXCEPT ![w] = "get"]
  /\ Goto(w, "link")
  /\ UNCHANGED <<linkVars, used, phase, head, nxt, mine, taken, aba>>

\* The sampler goes on playing: Put() for the next round.
Requeue(w) ==
  /\ w \in Workers /\ pc[w] = "got"
  /\ list' = [list EXCEPT ![w] = "put"]
  /\ Goto(w, "link")
  /\ UNCHANGED <<linkVars, used, phase, head, nxt, mine, taken, aba>>

\* Faulty: the sampler returns to the pool but still counts.
ReturnWithoutCounting(w) ==
  /\ w \in Workers /\ pc[w] = "got"
  /\ list' = [list EXCEPT ![w] = "avail"]
  /\ Goto(w, "link")
  /\ UNCHANGED <<linkVars, used, phase, head, nxt, mine, taken, aba>>

\* It has ended: ReturnSampler().
ReturnSampler(w) ==
  /\ w \in Workers /\ pc[w] = "got"
  /\ used' = (used - 1) % UsedMod
  /\ list' = [list EXCEPT ![w] = "avail"]
  /\ Goto(w, "link")
  /\ UNCHANGED <<linkVars, phase, head, nxt, mine, taken, aba>>

\* The list is empty: the worker leaves, the last one ends the round.
Leave(w) ==
  /\ w \in Workers /\ pc[w] = "load"
  /\ top["get"] = Null
  /\ Goto(w, "out")
  /\ IF \A v \in Workers \ {w} : pc[v] = "out"
       THEN phase' = "rest" /\ taken' = {}
       ELSE UNCHANGED <<phase, taken>>
  /\ UNCHANGED <<linkVars, used, list, head, nxt, mine, aba>>

----------------------------------------------------------------------------

Step(t) ==
  \/ LoadHead(t) \/ ReadNext(t) \/ Pop(t) \/ Link(t) \/ Push(t)
  \/ PoolEmpty(t) \/ StartSampler(t)
  \/ Attach(t) \/ Requeue(t) \/ ReturnSampler(t) \/ Leave(t)

\* ReturnAll() has put every sampler into the pool.
ListsInit ==
  /\ \E order \in [1..Cardinality(Pool) -> Pool] :
       /\ \A i, j \in DOMAIN order : order[i] = order[j] => i = j
       /\ next = [s \in Pool |->
                   LET i == CHOOSE i \in DOMAIN order : order[i] = s
                   IN  IF i = Cardinality(Pool) THEN Null ELSE order[i + 1]]
       /\ top = [l \in Lists |-> IF l = "avail" /\ Pool # {} THEN order[1] ELSE Null]
  /\ used = 0
  /\ phase = "rest"
  /\ pc = [t \in Threads |-> "out"]
  /\ list = [t \in Threads |-> IF t \in Workers THEN "get" ELSE "avail"]
  /\ head = [t \in Threads |-> Null]
  /\ nxt = [t \in Threads |-> Null]
  /\ mine = [t \in Threads |-> Null]
  /\ taken = {}
  /\ aba = FALSE

ListsNext ==
  \E t \in Threads : GetSampler(t) \/ Claim(t) \/ Join(t) \/ Step(t)

\* Threads run; nothing makes notes start or rounds begin.
ListsFairness == \A t \in Threads : WF_listVars(Step(t))

ListsSpec     == ListsInit /\ [][ListsNext]_listVars
ListsFairSpec == ListsSpec /\ ListsFairness

----------------------------------------------------------------------------
(* Properties *)

\* The type of every variable. Until an exchange has met the ABA problem
\* m_SamplerCount neither wraps below zero nor exceeds the limit.
ListsTypeOK ==
  /\ next \in [Pool -> Pointers]
  /\ top \in [Lists -> Pointers]
  /\ used \in 0..(UsedMod - 1)
  /\ ~aba => used <= Cardinality(Pool)
  /\ phase \in {"rest", "moving", "mixing"}
  /\ pc \in [Threads -> {"out", "load", "next", "pop", "got", "link", "push", "attach"}]
  /\ list \in [Threads -> Lists]
  /\ head \in [Threads -> Pointers] /\ nxt \in [Threads -> Pointers]
  /\ mine \in [Threads -> Pointers]
  /\ taken \subseteq Pool
  /\ aba \in BOOLEAN

\* Every sampler is in exactly one list or in the hands of exactly one thread, and
\* every list ends. ("The sampler will automatically be placed back in the pool",
\* CreateReleaseSampler().) Not so with two threads that take from the pool.
NoneLost ==
  /\ \A s \in Pool :
       Cardinality({l \in Lists : s \in Chain(top[l])})
         + Cardinality({t \in Threads : mine[t] = s}) = 1
  /\ \A l \in Lists :
       top[l] # Null => \E s \in Chain(top[l]) : next[s] = Null

\* No sampler is lost and none is handed out twice, however the compare-and-exchange
\* loops of any number of players and workers interleave, unless an exchange has met
\* the ABA problem: nothing else breaks the lists.
Conserved == ~aba => NoneLost

\* m_SamplerCount is the number of samplers that are not free, those excepted that a
\* thread has popped and not counted yet, or discounted and not pushed. The players
\* look at the limit before they take, and count after it: together they still never
\* take more samplers than there are.
UsedExact ==
  ~aba =>
    used = Cardinality(Pool) - Cardinality(Chain(top["avail"]))
             - Cardinality({t \in Threads : mine[t] # Null /\ list[t] = "avail"})

\* A sampler that has been mixed in this round does not come up again in it,
\* though workers push and pop at the same time.
MixedSamplersStayOut == ~aba => taken \intersect Chain(top["get"]) = {}

\* The ABA problem needs two threads that take from the pool; the workers, who take
\* from the round's list, do not meet it.
AbaNeedsTwoPlayers == aba => \E p, q \in Players : p # q

\* The lists are lock-free: whatever exchanges fail, a round that is being mixed
\* ends.
MixingEnds == phase = "mixing" ~> phase = "rest"

==============================================================================
