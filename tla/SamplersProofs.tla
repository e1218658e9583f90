---------------------------- MODULE SamplersProofs ----------------------------
(***************************************************************************)
(* Samplers, for any number of them.                                       *)
(*                                                                         *)
(* First the life of a note (SamplerPlayer.tla), for any notes and delays: *)
(* the inductive invariant behind LoopsAccounted, StopsNoOtherAttack and   *)
(* OneRelease.                                                             *)
(*                                                                         *)
(* Then the lists of samplers (SamplerLists.tla), for any number of        *)
(* threads that start notes and of workers that mix them: until the ABA    *)
(* problem is met the lists lose nothing, hand nothing out twice and count *)
(* exactly, and it takes two threads that start notes to meet it.          *)
(***************************************************************************)
EXTENDS SamplerPlayer, SamplerLists, FiniteSetTheorems, WellFoundedInduction, TLAPS

\* What is true of a sampler whoever holds it: why it is where it is (the release
\* task is given those that have a time set), a stop time was told and not acted
\* upon, a release ends, and a percussive attack ends and is never switched.
SamplerOK(r) ==
  /\ r.place = "release" => r.stop # 0 \/ r.newAttack # 0
  /\ r.place = "stopping" => r.stop # 0
  /\ r.place = "switching" => r.newAttack # 0
  /\ r.stop # 0 => r.told
  /\ r.isRelease => r.life # Forever
  /\ r.provider \in Oneshots /\ r.place # "free" /\ ~r.isRelease
       => r.life # Forever /\ r.newAttack = 0

SamplersInv == \A s \in Samplers : SamplerOK(sampler[s])

\* It plays the attack of a note.
IsAttack(r) == r.place # "free" /\ ~r.isRelease /\ r.provider # None

\* The attack of a note that is not percussive is the one its note holds, unless
\* it was told to stop or StartPlayback() started it.
HeldInv ==
  \A s \in Samplers :
    LET r == sampler[s]
    IN  IsAttack(r) /\ r.provider \notin Oneshots
          => handle[r.provider] = s \/ r.stop # 0 \/ r.unheld

\* A note that holds a sampler is not started again.
HandleInv ==
  \A n \in Notes : handle[n] # None =>
    /\ n \notin Oneshots
    /\ IF n \in Tremulants THEN down[n] \/ (call.op = "stop" /\ call.note = n)
                           ELSE instances[n]

\* What StopSample() and SwitchSample() have seen may change before they write:
\* the sampler may end, go back to the pool and become a release, no more.
CallInv ==
  call.op # "none" =>
    /\ call.note \in Notes /\ handle[call.note] # None
    /\ LET r == sampler[handle[call.note]]
       IN  IsAttack(r) => (call.valid <=> r.provider = call.note)

\* What is still to be mixed is in its cell.
DueInv == \A s \in due : sampler[s].place = "cell"

IInv == TypeOK /\ SamplersInv /\ HeldInv /\ HandleInv /\ CallInv /\ DueInv

----------------------------------------------------------------------------
(* Samplers are records of their type *)

LEMMA NumberFacts ==
  /\ Forever \in Nat /\ Forever > MaxLife /\ MaxLife \in Nat \ {0}
  /\ Lives \subseteq 0..Forever /\ Forever \notin Lives /\ 0 \notin Lives
  /\ LoopLives \subseteq 0..Forever
  /\ Forever \in 0..Forever /\ Forever # 0
  /\ \A n \in Notes : Delay[n] \in Nat
  /\ None \notin Notes /\ None \notin Samplers
  BY PlayerAssumption DEF Forever, Lives, LoopLives

LEMMA StartedTyped ==
  ASSUME NEW n \in Notes, NEW b \in BOOLEAN, NEW wait \in Nat, NEW life \in 0..Forever
  PROVE  Started(n, b, wait, life) \in Sampler
  BY DEF Started, Sampler

LEMMA AttackTyped ==
  ASSUME NEW n \in Notes, NEW life \in 0..Forever
  PROVE  Attack(n, life) \in Sampler /\ Unheld(n, life) \in Sampler
  <1>1. Attack(n, life) \in Sampler
    BY StartedTyped, NumberFacts DEF Attack
  <1>2. QED
    BY <1>1 DEF Unheld, Sampler

LEMMA FreedTyped ==
  ASSUME NEW p \in Notes \union {None}
  PROVE  Freed(p) \in Sampler
  BY NumberFacts DEF Freed, Sampler

LEMMA AttackLivesTyped ==
  ASSUME NEW n \in Notes, NEW life \in AttackLives(n)
  PROVE  life \in 0..Forever /\ (n \in Oneshots => life # Forever)
  BY NumberFacts DEF AttackLives

\* A sampler that is started or freed has nothing to account for but itself.
LEMMA ReleaseStartedOK ==
  ASSUME NEW n \in Notes, NEW wait \in Nat, NEW life \in Lives
  PROVE  LET r == Started(n, TRUE, wait, life)
         IN  r \in Sampler /\ SamplerOK(r) /\ ~IsAttack(r)
  BY StartedTyped, NumberFacts DEF Started, SamplerOK, IsAttack

LEMMA FreedOK ==
  ASSUME NEW p \in Notes \union {None}
  PROVE  Freed(p) \in Sampler /\ SamplerOK(Freed(p)) /\ ~IsAttack(Freed(p))
  BY FreedTyped DEF Freed, SamplerOK, IsAttack

LEMMA UnheldOK ==
  ASSUME NEW t \in Tremulants
  PROVE  LET r == Unheld(t, Forever)
         IN  r \in Sampler /\ SamplerOK(r) /\ r.unheld
  BY AttackTyped, NumberFacts, PlayerAssumption DEF Unheld, Attack, Started, SamplerOK

----------------------------------------------------------------------------
(* The invariant *)

\* Right after a start nothing is held.
LEMMA StartPlaybackOK ==
  ASSUME NEW engaged \in SUBSET Tremulants, NEW f,
         NEW p \in [Samplers -> Notes \union {None}]
  PROVE  LET g == StartPlayback(engaged, f, p)
         IN  /\ g \in [Samplers -> Sampler]
             /\ \A s \in Samplers : SamplerOK(g[s]) /\ (IsAttack(g[s]) => g[s].unheld)
  <1> DEFINE g == StartPlayback(engaged, f, p)
  <1>1. ASSUME NEW s \in Samplers
        PROVE  /\ g[s] \in Sampler /\ SamplerOK(g[s])
               /\ IsAttack(g[s]) => g[s].unheld
    <2>1. CASE \E t \in engaged : f[t] = s
      <3> DEFINE u == CHOOSE t \in engaged : f[t] = s
      <3>1. u \in Tremulants
        BY <2>1
      <3>2. g[s] = Unheld(u, Forever)
        BY <2>1 DEF StartPlayback
      <3> HIDE DEF u, g
      <3>3. QED
        BY <3>1, <3>2, UnheldOK
    <2>2. CASE ~\E t \in engaged : f[t] = s
      <3>1. g[s] = Freed(p[s])
        BY <2>2 DEF StartPlayback
      <3> HIDE DEF g
      <3>2. QED
        BY <3>1, FreedOK
    <2>3. QED
      BY <2>1, <2>2
  <1>2. g \in [Samplers -> Sampler]
    BY <1>1 DEF StartPlayback
  <1> HIDE DEF g
  <1>3. QED
    BY <1>1, <1>2 DEF g

LEMMA NoCallTyped ==
  /\ NoCall \in [op : {"none", "stop", "switch"}, note : Notes \union {None},
                 valid : BOOLEAN]
  /\ NoCall.op = "none"
  BY DEF NoCall

LEMMA InitIInv == Init => IInv
  <1> SUFFICES ASSUME Init PROVE IInv
    OBVIOUS
  <1>1. PICK engaged \in SUBSET Tremulants, f \in Placements :
          /\ down = [n \in Notes |-> n \in engaged]
          /\ sampler = StartPlayback(engaged, f, [s \in Samplers |-> None])
    BY DEF Init
  <1>2. [s \in Samplers |-> None] \in [Samplers -> Notes \union {None}]
    OBVIOUS
  <1>3. /\ sampler \in [Samplers -> Sampler]
        /\ \A s \in Samplers :
             SamplerOK(sampler[s]) /\ (IsAttack(sampler[s]) => sampler[s].unheld)
    BY <1>1, <1>2, StartPlaybackOK
  <1>4. TypeOK
    <2>1. down \in [Notes -> BOOLEAN] /\ instances \in [Notes -> BOOLEAN]
      BY <1>1 DEF Init
    <2>2. QED
      BY <1>3, <2>1, NoCallTyped DEF Init, TypeOK
  <1>5. SamplersInv /\ HeldInv
    BY <1>3 DEF SamplersInv, HeldInv
  <1>6. HandleInv /\ CallInv /\ DueInv
    BY NoCallTyped DEF Init, HandleInv, CallInv, DueInv
  <1>7. QED
    BY <1>4, <1>5, <1>6 DEF IInv

\* Starting a note: it holds nothing before.
LEMMA PressIInv == ASSUME IInv, NEW n \in Notes, Press(n) PROVE IInv'
  <1> USE DEF IInv
  <1>1. /\ call.op = "none" /\ call' = call /\ due' = due
        /\ down' = [down EXCEPT ![n] = TRUE]
        /\ handle[n] = None
    BY NoCallTyped DEF Press, HandleInv
  <1>2. CallInv'
    BY <1>1 DEF CallInv
  <1>3. CASE Free = {} /\ UNCHANGED <<sampler, instances, handle>>
    <2>1. TypeOK' /\ SamplersInv' /\ HeldInv' /\ DueInv'
      BY <1>1, <1>3 DEF TypeOK, SamplersInv, HeldInv, DueInv
    <2>2. HandleInv'
      BY <1>1, <1>3 DEF TypeOK, HandleInv
    <2>3. QED
      BY <1>2, <2>1, <2>2
  <1>4. ASSUME NEW s \in Free, NEW life \in AttackLives(n),
               sampler' = [sampler EXCEPT ![s] = Attack(n, life)],
               instances' = [instances EXCEPT ![n] = TRUE],
               handle' = [handle EXCEPT ![n] = IF n \in Oneshots THEN None ELSE s]
        PROVE  IInv'
    <2>1. s \in Samplers /\ Attack(n, life) \in Sampler /\ life \in 0..Forever
      BY AttackTyped, AttackLivesTyped DEF Free
    <2>2. /\ sampler'[s] = Attack(n, life)
          /\ \A u \in Samplers \ {s} : sampler'[u] = sampler[u]
      BY <1>4, <2>1 DEF TypeOK
    <2>3. TypeOK'
      BY <1>1, <1>4, <2>1 DEF TypeOK
    <2>4. SamplerOK(Attack(n, life))
      BY AttackLivesTyped DEF Attack, Started, SamplerOK
    <2>5. SamplersInv'
      BY <2>2, <2>4 DEF SamplersInv
    <2>6. ASSUME NEW u \in Samplers, IsAttack(sampler'[u]),
                 sampler'[u].provider \notin Oneshots
          PROVE  \/ handle'[sampler'[u].provider] = u
                 \/ sampler'[u].stop # 0 \/ sampler'[u].unheld
      <3>1. CASE u = s
        <4>1. sampler'[u].provider = n
          BY <2>2, <3>1 DEF Attack, Started
        <4>2. QED
          BY <1>4, <2>6, <3>1, <4>1 DEF TypeOK
      <3>2. CASE u # s
        <4>1. sampler'[u] = sampler[u] /\ sampler[u] \in Sampler
          BY <2>2, <3>2 DEF TypeOK
        <4>2. sampler[u].provider \in Notes
          BY <2>6, <4>1 DEF Sampler, IsAttack
        <4>3. handle[sampler[u].provider] = u => handle'[sampler[u].provider] = u
          BY <1>1, <1>4, <4>2, NumberFacts DEF TypeOK
        <4>4. QED
          BY <2>6, <4>1, <4>3 DEF HeldInv
      <3>3. QED
        BY <3>1, <3>2
    <2>7. HeldInv'
      BY <2>6 DEF HeldInv
    <2>8. HandleInv'
      BY <1>1, <1>4 DEF TypeOK, HandleInv
    <2>9. DueInv'
      BY <1>1, <2>2 DEF TypeOK, DueInv, Free
    <2>10. QED
      BY <1>2, <2>3, <2>5, <2>7, <2>8, <2>9
  <1>5. QED
    BY <1>3, <1>4 DEF Press

\* The check.
LEMMA CheckIInv ==
  ASSUME IInv, NEW n \in Notes, Release(n) \/ SwitchWaveTremulant(n)
  PROVE  IInv'
  <1> USE DEF IInv
  <1>1. /\ sampler' = sampler /\ due' = due /\ instances' = instances /\ handle' = handle
        /\ handle[n] # None /\ call.op = "none"
    BY NoCallTyped DEF Release, SwitchWaveTremulant
  <1>2. PICK op \in {"stop", "switch"} :
          /\ call' = [op |-> op, note |-> n, valid |-> sampler[handle[n]].provider = n]
          /\ down' = IF op = "stop" THEN [down EXCEPT ![n] = FALSE] ELSE down
    BY DEF Release, SwitchWaveTremulant
  <1>3. /\ call'.note = n /\ call'.op = op
        /\ call'.valid <=> sampler[handle[n]].provider = n
    BY <1>2
  <1>4. call' \in [op : {"none", "stop", "switch"}, note : Notes \union {None},
                   valid : BOOLEAN]
    BY <1>2
  <1>5. /\ down' \in [Notes -> BOOLEAN]
        /\ \A m \in Notes : down[m] => down'[m] \/ (m = n /\ op = "stop")
    BY <1>2 DEF TypeOK
  <1>6. TypeOK' /\ SamplersInv' /\ HeldInv' /\ DueInv'
    BY <1>1, <1>4, <1>5 DEF TypeOK, SamplersInv, HeldInv, DueInv
  <1>7. HandleInv'
    BY <1>1, <1>3, <1>5 DEF HandleInv
  <1>8. CallInv'
    BY <1>1, <1>3 DEF CallInv
  <1>9. QED
    BY <1>6, <1>7, <1>8

\* The write.
LEMMA WriteIInv == ASSUME IInv, Write PROVE IInv'
  <1> USE DEF IInv
  <1>1. PICK n \in Notes, s \in Samplers :
          /\ n = call.note /\ s = handle[n] /\ Delay[n] \in Nat /\ s # None
          /\ IsAttack(sampler[s]) => (call.valid <=> sampler[s].provider = n)
    BY NumberFacts DEF Write, WriteStop, WriteNewAttack, CallInv, TypeOK
  <1>2. sampler[s] \in Sampler /\ SamplerOK(sampler[s]) /\ n \notin Oneshots
    BY <1>1 DEF TypeOK, SamplersInv, HandleInv
  <1>3. call' = NoCall /\ due' = due /\ down' = down
    BY DEF Write, WriteStop, WriteNewAttack
  <1>4. CallInv'
    BY <1>3, NoCallTyped DEF CallInv
  <1>5. CASE WriteStop
    <2> DEFINE r == [sampler[s] EXCEPT !.stop = 1 + Delay[n], !.told = TRUE]
    <2>1. /\ handle' = [handle EXCEPT ![n] = None]
          /\ instances' = [instances EXCEPT ![n] = FALSE]
          /\ sampler' = IF call.valid THEN [sampler EXCEPT ![s] = r] ELSE sampler
          /\ call.op = "stop"
      BY <1>1, <1>5 DEF WriteStop
    <2>2. r \in Sampler /\ SamplerOK(r) /\ r.stop # 0 /\ r.place = sampler[s].place
      <3> DEFINE time == 1 + Delay[n]
                 q    == sampler[s]
      <3>1. time \in Nat /\ time # 0 /\ r = [q EXCEPT !.stop = time, !.told = TRUE]
        BY <1>1
      <3>2. q \in Sampler
        BY <1>2
      <3> HIDE DEF r, time, q
      <3>3. /\ r \in Sampler /\ r.stop = time /\ r.told = TRUE
            /\ r.place = q.place /\ r.provider = q.provider
            /\ r.isRelease = q.isRelease /\ r.life = q.life
            /\ r.newAttack = q.newAttack
        BY <3>1, <3>2 DEF Sampler
      <3>4. QED
        BY <1>2, <3>1, <3>3 DEF SamplerOK, q
    <2> HIDE DEF r
    <2>3. /\ sampler' \in [Samplers -> Sampler]
          /\ \A u \in Samplers \ {s} : sampler'[u] = sampler[u]
          /\ sampler'[s] = IF call.valid THEN r ELSE sampler[s]
      BY <1>1, <2>1, <2>2 DEF TypeOK
    <2>4. TypeOK'
      BY <1>1, <1>3, <2>1, <2>3, NoCallTyped DEF TypeOK
    <2>5. SamplersInv'
      BY <1>2, <2>2, <2>3 DEF SamplersInv
    <2>6. ASSUME NEW u \in Samplers, IsAttack(sampler'[u]),
                 sampler'[u].provider \notin Oneshots
          PROVE  \/ handle'[sampler'[u].provider] = u
                 \/ sampler'[u].stop # 0 \/ sampler'[u].unheld
      <3>1. CASE u = s /\ call.valid
        BY <2>2, <2>3, <3>1
      <3>2. CASE ~(u = s /\ call.valid)
        <4>1. sampler'[u] = sampler[u] /\ sampler[u] \in Sampler
          BY <2>3, <3>2 DEF TypeOK
        <4>2. sampler[u].provider \in Notes
          BY <2>6, <4>1 DEF Sampler, IsAttack
        <4>3. handle[sampler[u].provider] = u => sampler[u].provider # n
          BY <1>1, <2>6, <3>2, <4>1
        <4>4. handle[sampler[u].provider] = u => handle'[sampler[u].provider] = u
          BY <2>1, <4>2, <4>3 DEF TypeOK
        <4>5. QED
          BY <2>6, <4>1, <4>4 DEF HeldInv
      <3>3. QED
        BY <3>1, <3>2
    <2>7. HeldInv'
      BY <2>6 DEF HeldInv
    <2>8. HandleInv'
      BY <1>1, <1>3, <2>1, NoCallTyped DEF TypeOK, HandleInv
    <2>9. DueInv'
      BY <1>3, <2>2, <2>3 DEF TypeOK, DueInv
    <2>10. QED
      BY <1>4, <2>4, <2>5, <2>7, <2>8, <2>9
  <1>6. CASE WriteNewAttack
    <2> DEFINE r == [sampler[s] EXCEPT !.newAttack = 1 + Delay[n]]
    <2>1. /\ handle' = handle /\ instances' = instances
          /\ sampler' = IF call.valid THEN [sampler EXCEPT ![s].newAttack = 1 + Delay[n]]
                                      ELSE sampler
          /\ call.op = "switch"
      BY <1>1, <1>6 DEF WriteNewAttack
    <2>2. sampler' = IF call.valid THEN [sampler EXCEPT ![s] = r] ELSE sampler
      BY <1>1, <2>1 DEF TypeOK
    <2>3. /\ r \in Sampler /\ r.stop = sampler[s].stop /\ r.unheld = sampler[s].unheld
          /\ r.provider = sampler[s].provider /\ r.place = sampler[s].place
          /\ IsAttack(r) <=> IsAttack(sampler[s])
      BY <1>1, <1>2 DEF Sampler, IsAttack
    <2>4. call.valid => SamplerOK(r)
      <3>1. IsAttack(sampler[s]) /\ call.valid => sampler[s].provider \notin Oneshots
        BY <1>1, <1>2
      <3>2. sampler[s].provider \in Oneshots => sampler[s].provider # None
        BY PlayerAssumption
      <3>3. QED
        BY <1>1, <1>2, <3>1, <3>2 DEF Sampler, SamplerOK, IsAttack
    <2> HIDE DEF r
    <2>5. /\ sampler' \in [Samplers -> Sampler]
          /\ \A u \in Samplers \ {s} : sampler'[u] = sampler[u]
          /\ sampler'[s] = IF call.valid THEN r ELSE sampler[s]
      BY <1>1, <2>2, <2>3 DEF TypeOK
    <2>6. TypeOK'
      BY <1>3, <2>1, <2>5, NoCallTyped DEF TypeOK
    <2>7. SamplersInv'
      BY <1>2, <2>4, <2>5 DEF SamplersInv
    <2>8. HeldInv'
      <3>1. ASSUME NEW u \in Samplers
            PROVE  /\ IsAttack(sampler'[u]) <=> IsAttack(sampler[u])
                   /\ sampler'[u].provider = sampler[u].provider
                   /\ sampler'[u].stop = sampler[u].stop
                   /\ sampler'[u].unheld = sampler[u].unheld
        BY <2>3, <2>5
      <3>2. QED
        BY <2>1, <3>1 DEF HeldInv
    <2>9. HandleInv'
      BY <1>3, <2>1 DEF HandleInv
    <2>10. DueInv'
      BY <1>3, <2>3, <2>5 DEF TypeOK, DueInv
    <2>11. QED
      BY <1>4, <2>6, <2>7, <2>8, <2>9, <2>10
  <1>7. QED
    BY <1>5, <1>6 DEF Write

\* What a step may make of a sampler: if it plays an attack afterwards, it did
\* before, of the same note and with the same claims on it.
Continues(r, q) ==
  IsAttack(q) =>
    /\ IsAttack(r) /\ q.provider = r.provider /\ q.unheld = r.unheld
    /\ r.stop # 0 => q.stop # 0

\* So it is enough to look at each sampler by itself.
LEMMA SamplersIInv ==
  ASSUME IInv, sampler' \in [Samplers -> Sampler], handle' = handle,
         \A s \in Samplers : SamplerOK(sampler'[s]) /\ Continues(sampler[s], sampler'[s])
  PROVE  SamplersInv' /\ HeldInv' /\ (call' = call => CallInv')
  <1> USE DEF IInv
  <1>1. SamplersInv'
    BY DEF SamplersInv
  <1>2. HeldInv'
    BY DEF HeldInv, Continues
  <1>3. ASSUME call' = call PROVE CallInv'
    <2>1. CASE call.op = "none"
      BY <1>3, <2>1 DEF CallInv
    <2>2. CASE call.op # "none"
      <3>1. /\ call.note \in Notes /\ handle[call.note] # None
            /\ handle[call.note] \in Samplers
        BY <2>2 DEF CallInv, TypeOK
      <3>2. Continues(sampler[handle[call.note]], sampler'[handle[call.note]])
        BY <3>1
      <3>3. QED
        BY <1>3, <2>2, <3>1, <3>2 DEF CallInv, Continues
    <2>3. QED
      BY <2>1, <2>2
  <1>4. QED
    BY <1>1, <1>2, <1>3

LEMMA TasksIInv ==
  ASSUME IInv, UNCHANGED keyVars, due' \subseteq Samplers,
         sampler' \in [Samplers -> Sampler],
         \A s \in Samplers : SamplerOK(sampler'[s]) /\ Continues(sampler[s], sampler'[s]),
         \A s \in due' : sampler'[s].place = "cell"
  PROVE  IInv'
  <1>1. handle' = handle /\ call' = call /\ down' = down /\ instances' = instances
    BY DEF keyVars
  <1>2. SamplersInv' /\ HeldInv' /\ CallInv'
    BY <1>1, SamplersIInv
  <1>3. TypeOK'
    BY <1>1 DEF IInv, TypeOK
  <1>4. HandleInv'
    BY <1>1 DEF IInv, HandleInv
  <1>5. QED
    BY <1>2, <1>3, <1>4 DEF IInv, DueInv

\* The steps that change one sampler, and those that start another one, too.
LEMMA OneSampler ==
  ASSUME IInv, NEW s \in Samplers, NEW r \in Sampler,
         sampler' = [sampler EXCEPT ![s] = r],
         SamplerOK(r), Continues(sampler[s], r)
  PROVE  /\ sampler' \in [Samplers -> Sampler]
         /\ \A u \in Samplers : SamplerOK(sampler'[u]) /\ Continues(sampler[u], sampler'[u])
         /\ \A u \in due \ {s} : sampler'[u].place = "cell"
  <1>1. /\ sampler' \in [Samplers -> Sampler] /\ sampler'[s] = r
        /\ \A u \in Samplers \ {s} : sampler'[u] = sampler[u]
    BY DEF IInv, TypeOK
  <1>2. \A u \in Samplers : SamplerOK(sampler[u]) /\ Continues(sampler[u], sampler[u])
    BY DEF IInv, SamplersInv, Continues
  <1>3. \A u \in due \ {s} : sampler'[u].place = "cell"
    BY <1>1 DEF IInv, TypeOK, DueInv
  <1>4. QED
    BY <1>1, <1>2, <1>3

LEMMA TwoSamplers ==
  ASSUME IInv, NEW s \in Samplers \ Free, NEW r \in Sampler, NEW u \in Free,
         NEW n \in Notes, NEW wait \in Nat, NEW life \in Lives,
         sampler' = [sampler EXCEPT ![s] = r, ![u] = Started(n, TRUE, wait, life)],
         SamplerOK(r), Continues(sampler[s], r)
  PROVE  /\ sampler' \in [Samplers -> Sampler]
         /\ \A v \in Samplers : SamplerOK(sampler'[v]) /\ Continues(sampler[v], sampler'[v])
         /\ \A v \in due \ {s} : sampler'[v].place = "cell"
  <1> DEFINE q == Started(n, TRUE, wait, life)
  <1>1. q \in Sampler /\ SamplerOK(q) /\ ~IsAttack(q)
    BY ReleaseStartedOK
  <1>2. u \in Samplers /\ u # s
    BY DEF Free
  <1> HIDE DEF q
  <1>3. /\ sampler' \in [Samplers -> Sampler] /\ sampler'[s] = r /\ sampler'[u] = q
        /\ \A v \in Samplers \ {s, u} : sampler'[v] = sampler[v]
    BY <1>1, <1>2 DEF IInv, TypeOK, q
  <1>4. \A v \in Samplers : SamplerOK(sampler[v]) /\ Continues(sampler[v], sampler[v])
    BY DEF IInv, SamplersInv, Continues
  <1>5. Continues(sampler[u], q)
    BY <1>1 DEF Continues
  <1>6. \A v \in due \ {s} : sampler'[v].place = "cell"
    BY <1>3 DEF IInv, TypeOK, DueInv, Free
  <1>7. QED
    BY <1>1, <1>3, <1>4, <1>5, <1>6

LEMMA ReleaseWithoutHandleIInv ==
  ASSUME IInv, NEW n \in Notes, ReleaseWithoutHandle(n) PROVE IInv'
  <1>1. /\ handle' = handle /\ call' = call /\ due' = due /\ handle[n] = None
        /\ down' = [down EXCEPT ![n] = FALSE]
        /\ instances' = [instances EXCEPT ![n] = FALSE]
    BY DEF ReleaseWithoutHandle
  <1>2. HandleInv'
    BY <1>1 DEF IInv, TypeOK, HandleInv
  <1>3. /\ sampler' \in [Samplers -> Sampler]
        /\ \A s \in Samplers : SamplerOK(sampler'[s]) /\ Continues(sampler[s], sampler'[s])
        /\ \A s \in due : sampler'[s].place = "cell"
    <2>1. CASE UNCHANGED sampler
      BY <2>1 DEF IInv, TypeOK, SamplersInv, DueInv, Continues
    <2>2. ASSUME NEW u \in Free, NEW life \in Lives,
                 sampler' = [sampler EXCEPT ![u] = Started(n, TRUE, Delay[n], life)]
          PROVE  /\ sampler' \in [Samplers -> Sampler]
                 /\ \A s \in Samplers : SamplerOK(sampler'[s]) /\ Continues(sampler[s], sampler'[s])
                 /\ \A s \in due : sampler'[s].place = "cell"
      <3> DEFINE q == Started(n, TRUE, Delay[n], life)
      <3>1. q \in Sampler /\ SamplerOK(q) /\ Continues(sampler[u], q)
        BY ReleaseStartedOK, NumberFacts DEF Continues
      <3>2. u \in Samplers /\ u \notin due
        BY DEF Free, IInv, DueInv
      <3> HIDE DEF q
      <3>3. QED
        BY <2>2, <3>1, <3>2, OneSampler DEF q
    <2>3. QED
      BY <2>1, <2>2 DEF ReleaseWithoutHandle
  <1>4. SamplersInv' /\ HeldInv' /\ CallInv'
    BY <1>1, <1>3, SamplersIInv
  <1>5. TypeOK' /\ DueInv'
    BY <1>1, <1>3 DEF IInv, TypeOK, DueInv
  <1>6. QED
    BY <1>2, <1>4, <1>5 DEF IInv

LEMMA RestartIInv == ASSUME IInv, Restart PROVE IInv'
  <1> DEFINE engaged == {t \in Tremulants : down[t]}
             p       == [s \in Samplers |-> sampler[s].provider]
  <1>1. PICK f \in Placements : sampler' = StartPlayback(engaged, f, p)
    BY DEF Restart
  <1>2. engaged \in SUBSET Tremulants /\ p \in [Samplers -> Notes \union {None}]
    BY DEF IInv, TypeOK, Sampler
  <1> HIDE DEF engaged, p
  <1>3. /\ sampler' \in [Samplers -> Sampler]
        /\ \A s \in Samplers :
             SamplerOK(sampler'[s]) /\ (IsAttack(sampler'[s]) => sampler'[s].unheld)
    BY <1>1, <1>2, StartPlaybackOK
  <1>4. /\ down' \in [Notes -> BOOLEAN] /\ due' = {}
        /\ instances' = [n \in Notes |-> FALSE] /\ handle' = [n \in Notes |-> None]
        /\ call' = NoCall
    BY DEF Restart, IInv, TypeOK
  <1>5. TypeOK'
    BY <1>3, <1>4, NoCallTyped DEF TypeOK
  <1>6. SamplersInv' /\ HeldInv'
    BY <1>3 DEF SamplersInv, HeldInv
  <1>7. HandleInv' /\ CallInv' /\ DueInv'
    BY <1>4, NoCallTyped DEF HandleInv, CallInv, DueInv
  <1>8. QED
    BY <1>5, <1>6, <1>7 DEF IInv

LEMMA MixIInv == ASSUME IInv, NEW s \in Samplers, Mix(s) PROVE IInv'
  <1> DEFINE r == sampler[s]
             life == IF r.life \in {0, Forever} THEN r.life ELSE r.life - 1
  <1>1. r \in Sampler /\ SamplerOK(r) /\ TypeOK
    BY DEF IInv, TypeOK, SamplersInv
  <1>2. life \in 0..Forever /\ (life = Forever => r.life = Forever)
    BY <1>1, NumberFacts DEF Sampler
  <1>3. /\ UNCHANGED keyVars /\ due' \subseteq Samplers /\ due' = due \ {s}
        /\ r.place = "cell"
    BY <1>1 DEF Mix, IInv, TypeOK, DueInv
  <1>4. CASE UNCHANGED sampler
    <2>1. /\ sampler' \in [Samplers -> Sampler]
          /\ \A u \in Samplers : SamplerOK(sampler'[u]) /\ Continues(sampler[u], sampler'[u])
          /\ \A u \in due' : sampler'[u].place = "cell"
      BY <1>3, <1>4 DEF IInv, TypeOK, SamplersInv, DueInv, Continues
    <2>2. QED
      BY <1>3, <2>1, TasksIInv
  <1>5. ASSUME NEW p \in {r.provider} \union (IF life = 0 THEN {None} ELSE {}),
               sampler' = [sampler EXCEPT ![s] =
                 IF 1 \in {r.stop, r.newAttack}
                   THEN [r EXCEPT !.place = "release", !.provider = p, !.life = life]
                 ELSE IF life = 0 THEN Freed(p)
                 ELSE [r EXCEPT !.life = life]]
        PROVE  IInv'
    <2> DEFINE q == IF 1 \in {r.stop, r.newAttack}
                      THEN [r EXCEPT !.place = "release", !.provider = p, !.life = life]
                    ELSE IF life = 0 THEN Freed(p)
                    ELSE [r EXCEPT !.life = life]
    <2>1. p \in Notes \union {None} /\ (p = None \/ p = r.provider)
      BY <1>1 DEF Sampler
    <2> HIDE DEF life
    <2>3. q \in Sampler /\ SamplerOK(q) /\ Continues(r, q)
      <3>1. CASE 1 \in {r.stop, r.newAttack}
        <4> DEFINE x == [r EXCEPT !.place = "release", !.provider = p, !.life = life]
        <4>1. /\ x.place = "release" /\ x.provider = p /\ x.life = life
              /\ x.stop = r.stop /\ x.newAttack = r.newAttack /\ x.unheld = r.unheld
              /\ x.told = r.told /\ x.isRelease = r.isRelease /\ x \in Sampler
          BY <1>1, <1>2, <2>1 DEF Sampler
        <4>2. q = x
          BY <3>1
        <4> HIDE DEF x, q
        <4>3. SamplerOK(x)
          <5>1. r.place # "free"
            BY <1>3
          <5>2. None \notin Oneshots
            BY PlayerAssumption
          <5>3. QED
            BY <3>1, <4>1, <5>1, <5>2, <1>1, <1>2, <2>1 DEF SamplerOK
        <4>4. Continues(r, x)
          <5>1. r.place # "free"
            BY <1>3
          <5>2. QED
            BY <4>1, <2>1, <5>1 DEF Continues, IsAttack
        <4>5. QED
          BY <4>1, <4>2, <4>3, <4>4
      <3>2. CASE 1 \notin {r.stop, r.newAttack} /\ life = 0
        BY <2>1, <3>2, FreedOK DEF Continues
      <3>3. CASE 1 \notin {r.stop, r.newAttack} /\ life # 0
        <4> DEFINE x == [r EXCEPT !.life = life]
        <4>1. /\ x.place = r.place /\ x.provider = r.provider /\ x.life = life
              /\ x.stop = r.stop /\ x.newAttack = r.newAttack /\ x.unheld = r.unheld
              /\ x.told = r.told /\ x.isRelease = r.isRelease /\ x \in Sampler
          BY <1>1, <1>2 DEF Sampler
        <4>2. q = x
          BY <3>3
        <4> HIDE DEF x, q
        <4>3. SamplerOK(x) /\ Continues(r, x)
          BY <4>1, <1>1, <1>2 DEF SamplerOK, Continues, IsAttack
        <4>4. QED
          BY <4>1, <4>2, <4>3
      <3>4. QED
        BY <3>1, <3>2, <3>3
    <2>4. sampler' = [sampler EXCEPT ![s] = q]
      BY <1>5 DEF life
    <2> HIDE DEF q, r
    <2>5. QED
      BY <1>3, <2>3, <2>4, OneSampler, TasksIInv DEF r
  <1>6. QED
    BY <1>4, <1>5 DEF Mix

LEMMA TakeReleaseIInv == ASSUME IInv, NEW s \in Samplers, TakeRelease(s) PROVE IInv'
  <1> DEFINE r == sampler[s]
             q == [r EXCEPT !.place = IF r.stop # 0 THEN "stopping" ELSE "switching"]
  <1>1. r \in Sampler /\ SamplerOK(r) /\ r.place = "release"
    BY DEF IInv, TypeOK, SamplersInv, TakeRelease
  <1>2. /\ q \in Sampler /\ q.place = (IF r.stop # 0 THEN "stopping" ELSE "switching")
        /\ q.provider = r.provider /\ q.isRelease = r.isRelease /\ q.life = r.life
        /\ q.stop = r.stop /\ q.newAttack = r.newAttack /\ q.unheld = r.unheld
        /\ q.told = r.told
    BY <1>1 DEF Sampler
  <1>3. sampler' = [sampler EXCEPT ![s] = q]
    BY DEF TakeRelease, IInv, TypeOK
  <1> HIDE DEF q
  <1>4. SamplerOK(q) /\ Continues(r, q)
    BY <1>1, <1>2 DEF SamplerOK, Continues, IsAttack
  <1>5. UNCHANGED keyVars /\ due' = due /\ due' \subseteq Samplers /\ s \notin due
    BY <1>1 DEF TakeRelease, IInv, TypeOK, DueInv
  <1>6. QED
    BY <1>2, <1>3, <1>4, <1>5, OneSampler, TasksIInv

\* A sampler that the release task has stopped plays no attack any more.
LEMMA StopIInv == ASSUME IInv, NEW s \in Samplers, Stop(s) PROVE IInv'
  <1> DEFINE r == [sampler[s] EXCEPT !.place = "cell", !.stop = 0, !.told = FALSE]
  <1>1. /\ sampler[s] \in Sampler /\ SamplerOK(sampler[s])
        /\ sampler[s].place = "stopping"
    BY DEF IInv, TypeOK, SamplersInv, Stop
  <1>2. /\ r \in Sampler /\ r.place = "cell" /\ r.stop = 0
        /\ r.provider = sampler[s].provider /\ r.isRelease = sampler[s].isRelease
        /\ r.life = sampler[s].life /\ r.newAttack = sampler[s].newAttack
    BY <1>1 DEF Sampler
  <1>3. /\ UNCHANGED keyVars /\ due' = due /\ due' \subseteq Samplers /\ s \notin due
        /\ s \in Samplers \ Free
    BY <1>1 DEF Stop, IInv, TypeOK, DueInv, Free
  <1>4. CASE r.provider = None /\ sampler' = [sampler EXCEPT ![s] = r]
    <2> HIDE DEF r
    <2>1. None \notin Oneshots
      BY PlayerAssumption
    <2>2. SamplerOK(r) /\ Continues(sampler[s], r)
      BY <1>1, <1>2, <1>4, <2>1 DEF SamplerOK, Continues, IsAttack
    <2>3. QED
      BY <1>2, <1>3, <1>4, <2>2, OneSampler, TasksIInv
  <1>5. ASSUME NEW fade \in Lives, NEW tail \in Lives, r.provider # None,
               LET fading == [r EXCEPT !.isRelease = TRUE,
                                       !.life = IF fade < @ THEN fade ELSE @]
               IN  \/ sampler' = [sampler EXCEPT ![s] = fading]
                   \/ \E u \in Free :
                        sampler' = [sampler EXCEPT
                          ![s] = fading, ![u] = Started(r.provider, TRUE, 1, tail)]
        PROVE  IInv'
    <2> DEFINE life   == IF fade < r.life THEN fade ELSE r.life
               fading == [r EXCEPT !.isRelease = TRUE,
                                   !.life = IF fade < @ THEN fade ELSE @]
    <2>1. life \in 0..Forever /\ life # Forever
      <3>1. r.life \in 0..Forever
        BY <1>2 DEF Sampler
      <3> HIDE DEF r
      <3>2. QED
        BY <3>1, NumberFacts
    <2>2. fading = [r EXCEPT !.isRelease = TRUE, !.life = life]
      <3> HIDE DEF r
      <3>1. QED
        BY <1>2 DEF Sampler
    <2> HIDE DEF life, r
    <2>3. /\ fading \in Sampler /\ fading.stop = 0 /\ fading.place = "cell"
          /\ fading.isRelease /\ fading.life = life
      <3> HIDE DEF fading
      <3>1. QED
        BY <1>2, <2>1, <2>2 DEF Sampler
    <2> HIDE DEF fading
    <2>4. SamplerOK(fading) /\ Continues(sampler[s], fading)
      BY <2>1, <2>3 DEF SamplerOK, Continues, IsAttack
    <2>5. r.provider \in Notes
      BY <1>2, <1>5 DEF Sampler
    <2>6. CASE sampler' = [sampler EXCEPT ![s] = fading]
      BY <1>3, <2>3, <2>4, <2>6, OneSampler, TasksIInv
    <2>7. ASSUME NEW u \in Free,
                 sampler' = [sampler EXCEPT
                   ![s] = fading, ![u] = Started(r.provider, TRUE, 1, tail)]
          PROVE  IInv'
      BY <1>3, <2>3, <2>4, <2>5, <2>7, TwoSamplers, TasksIInv
    <2>8. QED
      BY <1>5, <2>6, <2>7 DEF fading
  <1>6. QED
    BY <1>4, <1>5 DEF Stop

\* A sampler that is switched goes on as the attack it was.
LEMMA SwitchIInv == ASSUME IInv, NEW s \in Samplers, Switch(s) PROVE IInv'
  <1> DEFINE r == [sampler[s] EXCEPT !.place = "cell", !.newAttack = 0]
  <1>1. /\ sampler[s] \in Sampler /\ SamplerOK(sampler[s])
        /\ sampler[s].place = "switching"
    BY DEF IInv, TypeOK, SamplersInv, Switch
  <1>2. /\ r \in Sampler /\ r.place = "cell" /\ r.newAttack = 0
        /\ r.provider = sampler[s].provider /\ r.isRelease = sampler[s].isRelease
        /\ r.life = sampler[s].life /\ r.stop = sampler[s].stop
        /\ r.told = sampler[s].told /\ r.unheld = sampler[s].unheld
    BY <1>1 DEF Sampler
  <1>3. /\ UNCHANGED keyVars /\ due' = due /\ due' \subseteq Samplers /\ s \notin due
        /\ s \in Samplers \ Free
    BY <1>1 DEF Switch, IInv, TypeOK, DueInv, Free
  <1>4. CASE sampler' = [sampler EXCEPT ![s] = r]
    <2> HIDE DEF r
    <2>1. SamplerOK(r) /\ Continues(sampler[s], r)
      BY <1>1, <1>2 DEF SamplerOK, Continues, IsAttack
    <2>2. QED
      BY <1>2, <1>3, <1>4, <2>1, OneSampler, TasksIInv
  <1>5. ASSUME r.provider # None, ~r.isRelease, NEW u \in Free, NEW fade \in Lives,
               NEW life \in LoopLives,
               sampler' = [sampler EXCEPT
                 ![s] = [r EXCEPT !.wait = 1, !.life = life],
                 ![u] = Started(r.provider, TRUE, 0, fade)]
        PROVE  IInv'
    <2> DEFINE again == [r EXCEPT !.wait = 1, !.life = life]
    <2> HIDE DEF r
    <2>1. life \in 0..Forever
      BY NumberFacts
    <2>2. /\ again \in Sampler /\ again.place = "cell" /\ again.newAttack = 0
          /\ again.provider = r.provider /\ again.isRelease = r.isRelease
          /\ again.stop = r.stop /\ again.told = r.told /\ again.unheld = r.unheld
      BY <1>2, <2>1 DEF Sampler
    <2>3. sampler' = [sampler EXCEPT ![s] = again, ![u] = Started(r.provider, TRUE, 0, fade)]
      BY <1>5
    <2> HIDE DEF again
    <2>4. r.provider \in Notes \ Oneshots
      <3>1. r.provider \in Notes
        BY <1>2, <1>5 DEF Sampler
      <3>2. r.provider \notin Oneshots
        BY <1>1, <1>2, <1>5 DEF SamplerOK
      <3>3. QED
        BY <3>1, <3>2
    <2>5. SamplerOK(again) /\ Continues(sampler[s], again)
      BY <1>1, <1>2, <1>5, <2>2, <2>4 DEF SamplerOK, Continues, IsAttack
    <2>6. /\ sampler' \in [Samplers -> Sampler]
          /\ \A v \in Samplers : SamplerOK(sampler'[v]) /\ Continues(sampler[v], sampler'[v])
          /\ \A v \in due \ {s} : sampler'[v].place = "cell"
      <3>1. 0 \in Nat
        OBVIOUS
      <3>2. QED
        BY <1>3, <2>2, <2>3, <2>4, <2>5, <3>1, TwoSamplers
    <2>7. QED
      BY <1>3, <2>6, TasksIInv
  <1>6. QED
    BY <1>4, <1>5 DEF Switch

LEMMA TickOK ==
  ASSUME NEW r \in Sampler, SamplerOK(r)
  PROVE  Tick(r) \in Sampler /\ SamplerOK(Tick(r)) /\ Continues(r, Tick(r))
  <1>1. CASE r.place = "free"
    BY <1>1 DEF Tick, Continues
  <1>2. CASE r.place # "free"
    <2> DEFINE place     == IF r.place = "release" THEN "cell" ELSE r.place
               wait      == IF r.wait > 0 THEN r.wait - 1 ELSE 0
               stop      == IF r.stop > 1 THEN r.stop - 1 ELSE r.stop
               newAttack == IF r.newAttack > 1 THEN r.newAttack - 1 ELSE r.newAttack
               q         == Tick(r)
    <2>1. q = [r EXCEPT !.place = place, !.wait = wait, !.stop = stop,
                        !.newAttack = newAttack]
      BY <1>2 DEF Tick, Sampler
    <2>2. wait \in Nat /\ stop \in Nat /\ newAttack \in Nat
          /\ (stop = 0 <=> r.stop = 0) /\ (newAttack = 0 <=> r.newAttack = 0)
      BY DEF Sampler
    <2>3. place \in {"free", "cell", "release", "stopping", "switching"}
          /\ place # "release" /\ place # "free"
          /\ (place \in {"stopping", "switching"} => place = r.place)
      BY <1>2 DEF Sampler
    <2> HIDE DEF wait, stop, newAttack, place, q
    <2>4. /\ q \in Sampler /\ q.place = place /\ q.stop = stop /\ q.newAttack = newAttack
          /\ q.provider = r.provider /\ q.isRelease = r.isRelease /\ q.life = r.life
          /\ q.unheld = r.unheld /\ q.told = r.told
      BY <2>1, <2>2, <2>3 DEF Sampler
    <2>5. SamplerOK(q) /\ Continues(r, q)
      BY <1>2, <2>2, <2>3, <2>4 DEF SamplerOK, Continues, IsAttack
    <2>6. QED
      BY <2>4, <2>5 DEF q
  <1>3. QED
    BY <1>1, <1>2

LEMMA NextPeriodIInv == ASSUME IInv, NextPeriod PROVE IInv'
  <1>1. \A s \in Samplers : sampler[s] \in Sampler /\ SamplerOK(sampler[s])
    BY DEF IInv, TypeOK, SamplersInv
  <1>2. \A s \in Samplers : sampler'[s] = Tick(sampler[s])
    BY DEF NextPeriod
  <1>3. /\ sampler' \in [Samplers -> Sampler]
        /\ \A s \in Samplers : SamplerOK(sampler'[s]) /\ Continues(sampler[s], sampler'[s])
    BY <1>1, <1>2, TickOK DEF NextPeriod
  <1>4. UNCHANGED keyVars /\ due' = {s \in Samplers : sampler'[s].place = "cell"}
    BY DEF NextPeriod
  <1>5. QED
    BY <1>3, <1>4, TasksIInv

LEMMA NextIInv == IInv /\ [Next]_vars => IInv'
  <1> SUFFICES ASSUME IInv, [Next]_vars PROVE IInv'
    OBVIOUS
  <1>1. ASSUME NEW n \in Notes,
               Press(n) \/ Release(n) \/ ReleaseWithoutHandle(n) \/ SwitchWaveTremulant(n)
        PROVE  IInv'
    BY <1>1, PressIInv, CheckIInv, ReleaseWithoutHandleIInv
  <1>2. CASE Write \/ Restart
    BY <1>2, WriteIInv, RestartIInv
  <1>3. ASSUME NEW s \in Samplers, Mix(s) \/ TakeRelease(s) \/ Stop(s) \/ Switch(s)
        PROVE  IInv'
    BY <1>3, MixIInv, TakeReleaseIInv, StopIInv, SwitchIInv
  <1>4. CASE NextPeriod
    BY <1>4, NextPeriodIInv
  <1>5. CASE UNCHANGED vars
    BY <1>5 DEF vars, keyVars, IInv, TypeOK, SamplersInv, HeldInv, HandleInv, CallInv, DueInv
  <1>6. QED
    BY <1>1, <1>2, <1>3, <1>4, <1>5 DEF Next

\* The invariant holds in every reachable state: what GOSoundingPipe and
\* GOTremulant hold and the times in the samplers always agree as far as a
\* sampler that plays an attack is concerned, and no further.
THEOREM Invariant == Spec => []IInv
  <1>1. QED
    BY InitIInv, NextIInv, PTL DEF Spec

\* Every variable has its type: no time is negative, no life is too long.
THEOREM TypeCorrect == Spec => []TypeOK
  <1>1. IInv => TypeOK
    BY DEF IInv
  <1>2. QED
    BY <1>1, Invariant, PTL

\* StopSample() and SwitchSample() never write to a sampler that plays the attack
\* of another note, whatever ends, is returned and is taken again between the
\* check and the write.
THEOREM StopsNoOtherAttackAlways == Spec => []StopsNoOtherAttack
  <1>1. IInv => StopsNoOtherAttack
    BY DEF IInv, CallInv, IsAttack, StopsNoOtherAttack
  <1>2. QED
    BY <1>1, Invariant, PTL

\* A stop is acted upon once, however often the sampler passes through the
\* release task.
THEOREM OneReleaseAlways == Spec => []OneRelease
  <1>1. IInv => OneRelease
    BY DEF IInv, SamplersInv, SamplerOK, OneRelease
  <1>2. QED
    BY <1>1, Invariant, PTL

\* No note is forgotten: whatever would sound for ever is held by its note, has
\* been told to stop or was started by GOTremulant::StartPlayback().
THEOREM LoopsAccountedAlways == Spec => []LoopsAccounted
  <1>1. IInv => LoopsAccounted
    <2> SUFFICES ASSUME IInv, NEW s \in Samplers, NEW n \in Notes, Sounds(s, n)
                 PROVE  handle[n] = s \/ sampler[s].stop # 0 \/ sampler[s].unheld
      BY DEF LoopsAccounted
    <2>1. /\ SamplerOK(sampler[s]) /\ sampler[s].place # "free"
          /\ sampler[s].provider = n /\ sampler[s].life = Forever
      BY DEF IInv, SamplersInv, Sounds
    <2>2. IsAttack(sampler[s]) /\ n \notin Oneshots
      BY <2>1, NumberFacts DEF SamplerOK, IsAttack
    <2>3. QED
      BY <2>1, <2>2 DEF IInv, HeldInv
  <1>2. QED
    BY <1>1, Invariant, PTL

----------------------------------------------------------------------------
(* The lists of samplers *)

\* One thread starts notes.
OnePlayer == \A p, q \in Players : p = q

\* The types of the variables, and what a thread that pops has loaded.
TypeInv ==
  /\ next \in [Pool -> Pointers]
  /\ top \in [Lists -> Pointers]
  /\ phase \in {"rest", "moving", "mixing"}
  /\ pc \in [Threads -> {"out", "load", "next", "pop", "got", "link", "push", "attach"}]
  /\ list \in [Threads -> Lists]
  /\ head \in [Threads -> Pointers] /\ nxt \in [Threads -> Pointers]
  /\ mine \in [Threads -> Pointers]
  /\ taken \subseteq Pool
  /\ used \in 0..(UsedMod - 1)
  /\ aba \in BOOLEAN
  /\ \A t \in Threads : pc[t] \in {"next", "pop"} => head[t] \in Pool

\* The list a thread takes samplers from.
Home(t) == IF t \in Workers THEN "get" ELSE "avail"

Owning == {"got", "link", "push"}

\* What a thread owns, and which list it operates on, follow from where it is; a
\* sampler that is about to be pushed points to the head the thread has loaded.
ThreadInv ==
  \A t \in Threads :
    /\ mine[t] # Null <=> pc[t] \in Owning
    /\ pc[t] \notin {"link", "push"} => list[t] = Home(t)
    /\ pc[t] \in {"link", "push"} =>
         list[t] \in IF t \in Workers THEN {"put", "avail"} ELSE {"put"}
    /\ pc[t] = "push" => next[mine[t]] = head[t]
    /\ pc[t] = "attach" => t \in Workers

\* Only in a round do workers pop; Move() works alone, on an empty list.
RoundInv ==
  /\ phase = "rest" => \A w \in Workers : pc[w] = "out"
  /\ \A w \in Workers : pc[w] = "attach" =>
       phase = "moving" /\ \A v \in Workers \ {w} : pc[v] = "out"
  /\ phase = "moving" => \A w \in Workers : pc[w] \in {"out", "attach"}
  /\ phase # "mixing" => top["get"] = Null /\ taken = {}
  /\ phase # "moving" => top["moved"] = Null

\* Where each sampler is: in a list, or in the hands of a thread.
Places == Lists \union {"held"}
In(where, l) == {s \in Pool : where[s] = l}

\* The next pointers stay in a list and come nearer to its end.
Linked(where, depth) ==
  \A s \in Pool : where[s] \in Lists =>
    IF next[s] = Null THEN depth[s] = 0
    ELSE where[next[s]] = where[s] /\ depth[s] = depth[next[s]] + 1

\* Every sampler of a list but the first has one in front of it.
Headed(where, depth) ==
  \A l \in Lists :
    IF top[l] = Null THEN In(where, l) = {}
    ELSE /\ where[top[l]] = l
         /\ \A s \in In(where, l) :
              /\ depth[s] <= depth[top[l]]
              /\ s # top[l] => \E u \in In(where, l) : next[u] = s

\* A sampler outside the lists is owned by one thread, one inside by none.
Owned(where) ==
  /\ \A s \in Pool : where[s] = "held" <=> \E t \in Threads : mine[t] = s
  /\ \A t, u \in Threads : mine[t] = mine[u] /\ mine[t] # Null => t = u

\* What Get() has loaded: a worker's head is in the round's list or was popped by
\* another worker. While it is in its list, the next pointer that was read is still
\* its own: nothing that was popped from the round's list comes back to it under the
\* eyes of a thread that pops. The same holds of the pool for a single player; of
\* several, each may have loaded a sampler that another has taken since.
Loaded(where) ==
  \A t \in Threads : pc[t] \in {"next", "pop"} /\ (t \in Workers \/ OnePlayer) =>
    /\ where[head[t]] = Home(t) \/ (t \in Workers /\ head[t] \in taken)
    /\ pc[t] = "pop" /\ where[head[t]] = Home(t) => nxt[t] = next[head[t]]

MixedOut(where) == taken \intersect In(where, "get") = {}

\* The samplers that count.
Busy(where) ==
  {s \in Pool : /\ where[s] # "avail"
                    /\ \A t \in Threads : mine[t] = s => list[t] # "avail"}

Counted(where) == used = Cardinality(Busy(where))

ListsInv(where, depth) ==
  /\ Linked(where, depth) /\ Headed(where, depth) /\ Owned(where)
  /\ Loaded(where) /\ MixedOut(where) /\ Counted(where)

PoolInv ==
  /\ TypeInv /\ ThreadInv /\ RoundInv
  /\ \E where \in [Pool -> Places], depth \in [Pool -> Nat] : ListsInv(where, depth)

\* In every state, and until an exchange has met the ABA problem.
ListsIInv ==
  /\ TypeInv
  /\ ~aba => PoolInv
  /\ OnePlayer => ~aba

USE DEF Threads, Pointers, Lists

----------------------------------------------------------------------------
(* The four ways in which the lists change *)

\* Popping the first sampler of list l.
LEMMA PopLists ==
  ASSUME TypeInv, NEW where \in [Pool -> Places], NEW depth \in [Pool -> Nat],
         Linked(where, depth), Headed(where, depth), NEW l \in Lists,
         NEW h \in Pool, top[l] = h, top' = [top EXCEPT ![l] = next[h]], next' = next
  PROVE  LET w == [where EXCEPT ![h] = "held"]
         IN  w \in [Pool -> Places] /\ Linked(w, depth)' /\ Headed(w, depth)'
  <1> DEFINE w == [where EXCEPT ![h] = "held"]
  <1> USE ListsAssumption DEF TypeInv, Places
  <1>1. h \in Pool /\ where[h] = l /\ w \in [Pool -> Places]
    BY DEF Headed
  <1>2. ASSUME NEW s \in Pool, where[s] = l, s # h
        PROVE  depth[s] < depth[h] /\ next[s] # h
    <2>1. PICK u \in Pool : where[u] = l /\ next[u] = s
      BY <1>1, <1>2 DEF Headed, In
    <2>2. depth[u] = depth[s] + 1 /\ depth[u] <= depth[h]
      BY <1>1, <1>2, <2>1 DEF Linked, Headed, In
    <2>3. next[s] = h => depth[s] = depth[h] + 1
      BY <1>1, <1>2 DEF Linked
    <2> QED  BY <2>2, <2>3, <1>1
  <1>3. next[h] # h
    BY <1>1 DEF Linked
  <1>4. Linked(w, depth)'
    <2> SUFFICES ASSUME NEW s \in Pool, w[s] \in Lists
                 PROVE  IF next[s] = Null THEN depth[s] = 0
                        ELSE w[next[s]] = w[s] /\ depth[s] = depth[next[s]] + 1
      BY DEF Linked
    <2>1. s # h /\ w[s] = where[s]
      BY <1>1
    <2>2. CASE next[s] = Null
      BY <2>1, <2>2 DEF Linked
    <2>3. CASE next[s] # Null
      <3>1. where[next[s]] = where[s] /\ depth[s] = depth[next[s]] + 1 /\ next[s] \in Pool
        BY <2>1, <2>3 DEF Linked
      <3>2. next[s] # h
        BY <2>1, <3>1, <1>1, <1>2
      <3> QED  BY <2>1, <2>3, <3>1, <3>2
    <2> QED  BY <2>2, <2>3
  <1>5. Headed(w, depth)'
    <2> SUFFICES ASSUME NEW k \in Lists
                 PROVE  IF top'[k] = Null THEN In(w, k) = {}
                        ELSE /\ w[top'[k]] = k
                             /\ \A s \in In(w, k) :
                                  /\ depth[s] <= depth[top'[k]]
                                  /\ s # top'[k] => \E u \in In(w, k) : next[u] = s
      BY DEF Headed, In
    <2>1. CASE k # l
      <3>1. top'[k] = top[k] /\ In(w, k) = In(where, k) /\ top[k] # h
        BY <2>1, <1>1 DEF In, Headed
      <3> QED  BY <3>1, <1>1 DEF Headed, In
    <2>2. CASE k = l /\ next[h] = Null
      <3>1. top'[k] = Null /\ depth[h] = 0
        BY <2>2, <1>1 DEF Linked
      <3>2. In(w, k) = {}
        BY <3>1, <2>2, <1>1, <1>2 DEF In
      <3> QED  BY <3>1, <3>2
    <2>3. CASE k = l /\ next[h] # Null
      <3>1. next[h] \in Pool /\ where[next[h]] = l /\ depth[h] = depth[next[h]] + 1
        BY <2>3, <1>1 DEF Linked
      <3>2. top'[k] = next[h] /\ w[next[h]] = k
        BY <2>3, <3>1, <1>1, <1>3
      <3>3. ASSUME NEW s \in In(w, k) PROVE depth[s] <= depth[next[h]]
        BY <3>1, <3>3, <2>3, <1>1, <1>2 DEF In
      <3>4. ASSUME NEW s \in In(w, k), s # next[h]
            PROVE  \E u \in In(w, k) : next[u] = s
        <4>1. s \in Pool /\ where[s] = l /\ s # h
          BY <3>4, <2>3, <1>1 DEF In
        <4>2. PICK u \in Pool : where[u] = l /\ next[u] = s
          BY <4>1, <1>1 DEF Headed, In
        <4> QED  BY <4>2, <3>4, <2>3, <1>1 DEF In
      <3> QED  BY <3>1, <3>2, <3>3, <3>4
    <2> QED  BY <2>1, <2>2, <2>3
  <1> QED  BY <1>1, <1>4, <1>5

\* Pushing a sampler that points to the head.
LEMMA PushLists ==
  ASSUME TypeInv, NEW where \in [Pool -> Places], NEW depth \in [Pool -> Nat],
         Linked(where, depth), Headed(where, depth), NEW l \in Lists,
         NEW s \in Pool, where[s] = "held", NEW p, top[l] = p, next[s] = p,
         top' = [top EXCEPT ![l] = s], next' = next
  PROVE  LET w == [where EXCEPT ![s] = l]
             d == [depth EXCEPT ![s] = IF p = Null THEN 0 ELSE depth[p] + 1]
         IN  /\ w \in [Pool -> Places] /\ d \in [Pool -> Nat]
             /\ Linked(w, d)' /\ Headed(w, d)'
  <1> DEFINE w == [where EXCEPT ![s] = l]
             d == [depth EXCEPT ![s] = IF p = Null THEN 0 ELSE depth[p] + 1]
  <1> USE ListsAssumption DEF TypeInv, Places
  <1>1. w \in [Pool -> Places] /\ d \in [Pool -> Nat]
    OBVIOUS
  <1>2. \A k \in Lists : top[k] # s
    BY DEF Headed
  <1>3. \A r \in Pool : where[r] \in Lists => next[r] # s /\ r # s
    BY DEF Linked
  <1>4. Linked(w, d)'
    <2> SUFFICES ASSUME NEW r \in Pool, w[r] \in Lists
                 PROVE  IF next[r] = Null THEN d[r] = 0
                        ELSE w[next[r]] = w[r] /\ d[r] = d[next[r]] + 1
      BY DEF Linked
    <2>1. CASE r = s
      BY <2>1, <1>2 DEF Headed
    <2>2. CASE r # s
      BY <2>2, <1>3 DEF Linked
    <2> QED  BY <2>1, <2>2
  <1>5. Headed(w, d)'
    <2> SUFFICES ASSUME NEW k \in Lists
                 PROVE  IF top'[k] = Null THEN In(w, k) = {}
                        ELSE /\ w[top'[k]] = k
                             /\ \A r \in In(w, k) :
                                  /\ d[r] <= d[top'[k]]
                                  /\ r # top'[k] => \E u \in In(w, k) : next[u] = r
      BY DEF Headed, In
    <2>1. CASE k # l
      <3>1. top'[k] = top[k] /\ In(w, k) = In(where, k) /\ top[k] # s /\ s \notin In(where, k)
        BY <2>1, <1>2 DEF In
      <3> QED  BY <3>1 DEF Headed, In
    <2>2. CASE k = l
      <3>1. top'[k] = s /\ w[s] = k /\ In(w, k) = In(where, k) \union {s}
        BY <2>2 DEF In
      <3>2. ASSUME NEW r \in In(w, k)
            PROVE  d[r] <= d[s] /\ (r # s => \E u \in In(w, k) : next[u] = r)
        <4>1. CASE r = s
          BY <4>1, <1>1
        <4>2. CASE r # s
          <5>1. r \in In(where, l) /\ top[l] # Null
            BY <4>2, <3>1, <2>2 DEF Headed
          <5>2. d[r] <= d[s]
            BY <5>1, <4>2 DEF Headed, In
          <5>3. ASSUME r = p PROVE next[s] = r /\ s \in In(w, k)
            BY <5>3, <3>1
          <5>4. ASSUME r # p PROVE \E u \in In(where, l) : next[u] = r
            BY <5>1, <5>4 DEF Headed
          <5> QED  BY <5>2, <5>3, <5>4, <3>1, <2>2
        <4> QED  BY <4>1, <4>2
      <3> QED  BY <3>1, <3>2
    <2> QED  BY <2>1, <2>2
  <1> QED  BY <1>1, <1>4, <1>5

\* Changing the next pointer of a sampler outside the lists.
LEMMA RelinkLists ==
  ASSUME TypeInv, NEW where \in [Pool -> Places], NEW depth \in [Pool -> Nat],
         Linked(where, depth), Headed(where, depth),
         NEW s \in Pool, where[s] = "held", NEW p,
         next' = [next EXCEPT ![s] = p], top' = top
  PROVE  Linked(where, depth)' /\ Headed(where, depth)'
  <1> USE DEF TypeInv, Places
  <1>1. \A r \in Pool : where[r] \in Lists => next'[r] = next[r]
    OBVIOUS
  <1>2. Linked(where, depth)'
    BY <1>1 DEF Linked
  <1>3. ASSUME NEW l \in Lists, NEW u \in In(where, l) PROVE next'[u] = next[u]
    BY <1>1, <1>3 DEF In
  <1>4. Headed(where, depth)'
    BY <1>3 DEF Headed, In
  <1> QED  BY <1>2, <1>4

\* Moving list a to an empty list b.
LEMMA MoveLists ==
  ASSUME TypeInv, NEW where \in [Pool -> Places], NEW depth \in [Pool -> Nat],
         Linked(where, depth), Headed(where, depth),
         NEW a \in Lists, NEW b \in Lists, a # b, top[b] = Null,
         top' = [top EXCEPT ![b] = top[a], ![a] = Null], next' = next
  PROVE  LET w == [s \in Pool |-> IF where[s] = a THEN b ELSE where[s]]
         IN  w \in [Pool -> Places] /\ Linked(w, depth)' /\ Headed(w, depth)'
  <1> DEFINE w == [s \in Pool |-> IF where[s] = a THEN b ELSE where[s]]
  <1> USE ListsAssumption DEF TypeInv, Places
  <1>1. w \in [Pool -> Places]
    OBVIOUS
  <1>2. In(where, b) = {}
    BY DEF Headed
  <1>3. In(w, b) = In(where, a) /\ In(w, a) = {}
    BY <1>2 DEF In
  <1>4. \A k \in Lists \ {a, b} : In(w, k) = In(where, k)
    BY DEF In
  <1>5. Linked(w, depth)'
    BY DEF Linked
  <1>6. Headed(w, depth)'
    <2> SUFFICES ASSUME NEW k \in Lists
                 PROVE  IF top'[k] = Null THEN In(w, k) = {}
                        ELSE /\ w[top'[k]] = k
                             /\ \A r \in In(w, k) :
                                  /\ depth[r] <= depth[top'[k]]
                                  /\ r # top'[k] => \E u \in In(w, k) : next[u] = r
      BY DEF Headed, In
    <2>1. CASE k = a
      BY <2>1, <1>3
    <2>2. CASE k = b
      <3>1. top'[k] = top[a] /\ (top[a] # Null => w[top[a]] = b)
        BY <2>2 DEF Headed
      <3>2. CASE top[a] = Null
        BY <2>2, <3>1, <3>2, <1>3 DEF Headed
      <3>3. ASSUME top[a] # Null, NEW r \in In(where, a)
            PROVE  /\ depth[r] <= depth[top[a]]
                   /\ r # top[a] => \E u \in In(where, a) : next[u] = r
        BY <3>3 DEF Headed
      <3> QED  BY <2>2, <3>1, <3>2, <3>3, <1>3
    <2>3. CASE k \notin {a, b}
      <3>1. top'[k] = top[k] /\ In(w, k) = In(where, k) /\ (top[k] # Null => w[top[k]] = k)
        BY <2>3, <1>4 DEF Headed
      <3>2. CASE top[k] = Null
        BY <3>1, <3>2 DEF Headed
      <3>3. ASSUME top[k] # Null, NEW r \in In(where, k)
            PROVE  /\ depth[r] <= depth[top[k]]
                   /\ r # top[k] => \E u \in In(where, k) : next[u] = r
        BY <3>3 DEF Headed
      <3> QED  BY <3>1, <3>2, <3>3
    <2> QED  BY <2>1, <2>2, <2>3
  <1> QED  BY <1>1, <1>5, <1>6

----------------------------------------------------------------------------
(* Facts of one state that the steps share *)

\* The samplers that count are finitely many.
LEMMA BusyFinite ==
  ASSUME NEW where
  PROVE  IsFiniteSet(Busy(where)) /\ Cardinality(Busy(where)) \in 0..Cardinality(Pool)
  <1>1. Busy(where) \in SUBSET Pool
    BY DEF Busy
  <1> QED  BY <1>1, ListsAssumption, FS_Subset, FS_CardinalityType

\* The counter does not wrap as long as it counts samplers.
LEMMA SmallCount ==
  /\ \A n \in Int : n % UsedMod \in 0..(UsedMod - 1)
  /\ \A n \in 0..Cardinality(Pool) : n % UsedMod = n /\ n \in 0..(UsedMod - 1)
  <1>1. UsedMod \in Nat /\ Cardinality(Pool) \in Nat /\ Cardinality(Pool) < UsedMod
    BY ListsAssumption, FS_CardinalityType
  <1>2. \A n \in Int : n % UsedMod \in 0..(UsedMod - 1)
    BY <1>1
  <1>3. \A n \in 0..(UsedMod - 1) : n % UsedMod = n
    BY <1>1
  <1> QED  BY <1>1, <1>2, <1>3

\* The count survives a step that neither counts nor makes a sampler busy.
LEMMA CountKept ==
  ASSUME NEW where, NEW w, Counted(where), used' = used, Busy(w)' = Busy(where)
  PROVE  Counted(w)'
  BY DEF Counted

\* Only the place of one thread changes, and no worker starts or ends its part.
LEMMA RoundKept ==
  ASSUME TypeInv, RoundInv, NEW t \in Threads, NEW to,
         t \in Workers => pc[t] \notin {"out", "attach"}, to # "attach",
         pc' = [pc EXCEPT ![t] = to], phase' = phase, top'["moved"] = top["moved"],
         phase # "mixing" => top'["get"] = top["get"] /\ taken' = taken
  PROVE  RoundInv'
  <1> USE ListsAssumption DEF TypeInv, RoundInv
  <1>1. CASE t \in Workers
    <2>1. phase = "mixing"
      BY <1>1
    <2>2. \A w \in Workers : pc[w] # "attach"
      BY <2>1
    <2> QED  BY <1>1, <2>1, <2>2
  <1>2. CASE t \notin Workers
    <2>1. \A w \in Workers : pc'[w] = pc[w]
      BY <1>2
    <2> QED  BY <1>2, <2>1
  <1> QED  BY <1>1, <1>2

\* A step that leaves the lists and what the threads own alone.
LEMMA PlacesKept ==
  ASSUME NEW where, NEW depth, ListsInv(where, depth), UNCHANGED <<linkVars, mine>>
  PROVE  Linked(where, depth)' /\ Headed(where, depth)' /\ Owned(where)'
  BY DEF ListsInv, Linked, Headed, Owned, linkVars

----------------------------------------------------------------------------
(* The steps of Get() and Put() *)

LEMMA LoadHeadIInv ==
  ASSUME PoolInv, NEW t \in Threads, LoadHead(t)
  PROVE  PoolInv'
  <1> USE ListsAssumption DEF PoolInv, TypeInv, LoadHead, Goto, linkVars
  <1> PICK where \in [Pool -> Places], depth \in [Pool -> Nat] :
        ListsInv(where, depth)
    OBVIOUS
  <1>1. TypeInv'
    OBVIOUS
  <1>2. ThreadInv'
    BY DEF ThreadInv, Owning
  <1>3. RoundInv'
    BY RoundKept
  <1>4. Linked(where, depth)' /\ Headed(where, depth)' /\ Owned(where)'
    BY PlacesKept
  <1>5. top[list[t]] \in Pool /\ where[top[list[t]]] = Home(t)
    BY DEF ListsInv, Headed, ThreadInv
  <1>6. Loaded(where)'
    BY <1>5 DEF ListsInv, Loaded
  <1>7. MixedOut(where)'
    BY DEF ListsInv, MixedOut
  <1>8. Counted(where)'
    BY DEF ListsInv, Counted, Busy
  <1> QED  BY <1>1, <1>2, <1>3, <1>4, <1>6, <1>7, <1>8 DEF ListsInv

LEMMA ReadNextIInv ==
  ASSUME PoolInv, NEW t \in Threads, ReadNext(t)
  PROVE  PoolInv'
  <1> USE ListsAssumption DEF PoolInv, TypeInv, ReadNext, Goto, linkVars
  <1> PICK where \in [Pool -> Places], depth \in [Pool -> Nat] :
        ListsInv(where, depth)
    OBVIOUS
  <1>1. head[t] \in Pool
    BY DEF ListsInv, Loaded
  <1>2. TypeInv'
    BY <1>1
  <1>3. ThreadInv'
    BY DEF ThreadInv, Owning
  <1>4. RoundInv'
    BY RoundKept
  <1>5. Linked(where, depth)' /\ Headed(where, depth)' /\ Owned(where)'
    BY PlacesKept
  <1>6. Loaded(where)'
    BY <1>1 DEF ListsInv, Loaded
  <1>7. MixedOut(where)'
    BY DEF ListsInv, MixedOut
  <1>8. Counted(where)'
    BY DEF ListsInv, Counted, Busy
  <1> QED  BY <1>2, <1>3, <1>4, <1>5, <1>6, <1>7, <1>8 DEF ListsInv

\* The exchange fails: another thread has changed the head.
LEMMA PopAgainIInv ==
  ASSUME PoolInv, NEW t \in Threads, Pop(t), top[list[t]] # head[t]
  PROVE  PoolInv'
  <1> USE ListsAssumption DEF PoolInv, TypeInv, Pop, Goto, linkVars
  <1> PICK where \in [Pool -> Places], depth \in [Pool -> Nat] :
        ListsInv(where, depth)
    OBVIOUS
  <1>1. TypeInv'
    OBVIOUS
  <1>2. ThreadInv'
    BY DEF ThreadInv, Owning
  <1>3. RoundInv'
    BY RoundKept
  <1>4. Linked(where, depth)' /\ Headed(where, depth)' /\ Owned(where)'
    BY PlacesKept
  <1>5. Loaded(where)'
    BY DEF ListsInv, Loaded
  <1>6. MixedOut(where)'
    BY DEF ListsInv, MixedOut
  <1>7. Counted(where)'
    BY DEF ListsInv, Counted, Busy
  <1> QED  BY <1>1, <1>2, <1>3, <1>4, <1>5, <1>6, <1>7 DEF ListsInv

\* The exchange succeeds: the head that was loaded is still the first, and the
\* next pointer that was read with it still its own.
LEMMA PoppedIInv ==
  ASSUME PoolInv, NEW t \in Threads, Pop(t), top[list[t]] = head[t], ~aba'
  PROVE  PoolInv'
  <1> USE ListsAssumption DEF PoolInv, TypeInv
  <1> PICK where \in [Pool -> Places], depth \in [Pool -> Nat] :
        ListsInv(where, depth)
    OBVIOUS
  <1>1. /\ pc[t] = "pop" /\ list[t] = Home(t) /\ mine[t] = Null /\ head[t] \in Pool
        /\ where[head[t]] = Home(t)
    BY DEF Pop, ThreadInv, Owning, ListsInv, Headed
  <1>2. nxt[t] = next[head[t]]
    BY DEF Pop
  <1>3. PICK h \in Pool : h = head[t]
    BY <1>1
  <1>4. PICK l \in Lists : l = list[t]
    OBVIOUS
  <1> DEFINE w == [where EXCEPT ![h] = "held"]
  <1>5. /\ top' = [top EXCEPT ![l] = next[h]] /\ mine' = [mine EXCEPT ![t] = h]
        /\ pc' = [pc EXCEPT ![t] = "got"] /\ head' = [head EXCEPT ![t] = Null]
        /\ nxt' = [nxt EXCEPT ![t] = Null]
        /\ taken' = IF l = "get" THEN taken \union {h} ELSE taken
        /\ aba' \in BOOLEAN
        /\ UNCHANGED <<next, used, phase, list>>
    BY <1>2, <1>3, <1>4 DEF Pop, Goto
  <1>6. TypeInv'
    BY <1>5
  <1>7. ThreadInv'
    BY <1>1, <1>3, <1>5 DEF ThreadInv, Owning
  <1>8. RoundInv'
    <2>1. t \in Workers => phase = "mixing"
      BY <1>1 DEF RoundInv
    <2>2. t \notin Workers => l = "avail"
      BY <1>1, <1>4 DEF Home
    <2>3. l \in {"get", "avail"} /\ (t \in Workers => pc[t] \notin {"out", "attach"})
      BY <1>1, <1>4 DEF Home
    <2>4. phase # "mixing" => top'["get"] = top["get"] /\ taken' = taken
      BY <1>5, <2>1, <2>2
    <2> QED  BY <1>5, <2>3, <2>4, RoundKept
  <1>9. /\ w \in [Pool -> Places]
        /\ Linked(w, depth)' /\ Headed(w, depth)'
    <2>1. Linked(where, depth) /\ Headed(where, depth) /\ top[l] = h
      BY <1>3, <1>4 DEF ListsInv
    <2> QED  BY <1>5, <2>1, PopLists
  <1>10. where[h] = l /\ l \in {"get", "avail"}
    BY <1>1, <1>3, <1>4 DEF Home
  <1>11. \A u \in Threads : mine[u] # h
    BY <1>10 DEF ListsInv, Owned
  <1>12. Owned(w)'
    BY <1>1, <1>5, <1>11 DEF ListsInv, Owned, Places
  <1>13. Loaded(w)'
    <2> SUFFICES ASSUME NEW u \in Threads, pc'[u] \in {"next", "pop"},
                        u \in Workers \/ OnePlayer
                 PROVE  /\ w[head'[u]] = Home(u) \/ (u \in Workers /\ head'[u] \in taken')
                        /\ pc'[u] = "pop" /\ w[head'[u]] = Home(u)
                             => nxt'[u] = next'[head'[u]]
      BY DEF Loaded, Home, OnePlayer
    <2>1. u # t /\ pc[u] = pc'[u] /\ head'[u] = head[u] /\ nxt'[u] = nxt[u]
      BY <1>5
    <2>2. /\ head[u] \in Pool
          /\ where[head[u]] = Home(u) \/ (u \in Workers /\ head[u] \in taken)
          /\ pc[u] = "pop" /\ where[head[u]] = Home(u) => nxt[u] = next[head[u]]
      BY <2>1 DEF ListsInv, Loaded
    <2>3. CASE head[u] # h
      BY <1>5, <2>1, <2>2, <2>3
    <2>4. CASE head[u] = h
      <3>1. w[h] = "held" /\ Home(u) # "held"
        BY DEF Home, Places
      <3>2. u \in Workers /\ h \in taken'
        BY <1>1, <1>4, <1>5, <1>10, <2>1, <2>2, <2>4 DEF OnePlayer, Home
      <3> QED  BY <2>1, <2>2, <2>4, <3>1, <3>2
    <2> QED  BY <2>3, <2>4
  <1>14. MixedOut(w)'
    BY <1>5 DEF ListsInv, MixedOut, In, Places
  <1>15. Counted(w)'
    <2>1. Busy(w)' = Busy(where)
      BY <1>1, <1>4, <1>5, <1>10, <1>11 DEF Busy, Places
    <2> QED  BY <2>1, <1>5, CountKept DEF ListsInv
  <1> QED
    BY <1>6, <1>7, <1>8, <1>9, <1>12, <1>13, <1>14, <1>15 DEF ListsInv

\* A single player, like the workers, finds the next pointer its own.
LEMMA PoppedClean ==
  ASSUME OnePlayer, PoolInv, NEW t \in Threads, Pop(t), ~aba
  PROVE  ~aba'
  <1> USE ListsAssumption DEF PoolInv, TypeInv
  <1> PICK where \in [Pool -> Places], depth \in [Pool -> Nat] :
        ListsInv(where, depth)
    OBVIOUS
  <1> SUFFICES ASSUME top[list[t]] = head[t] PROVE nxt[t] = next[head[t]]
    BY DEF Pop
  <1>1. pc[t] = "pop" /\ list[t] = Home(t) /\ where[head[t]] = Home(t)
    BY DEF Pop, ThreadInv, ListsInv, Headed
  <1> QED  BY <1>1 DEF ListsInv, Loaded

LEMMA LinkIInv ==
  ASSUME PoolInv, NEW t \in Threads, Link(t)
  PROVE  PoolInv'
  <1> USE ListsAssumption DEF PoolInv, TypeInv
  <1> PICK where \in [Pool -> Places], depth \in [Pool -> Nat] :
        ListsInv(where, depth)
    OBVIOUS
  <1>1. mine[t] \in Pool /\ where[mine[t]] = "held"
    BY DEF Link, ThreadInv, Owning, ListsInv, Owned
  <1>2. PICK s \in Pool : s = mine[t]
    BY <1>1
  <1>3. \A u \in Threads : mine[u] = s => u = t
    BY <1>2 DEF ListsInv, Owned
  <1>4. TypeInv'
    BY <1>2 DEF Link, Goto
  <1>5. ThreadInv'
    BY <1>1, <1>2, <1>3 DEF ThreadInv, Owning, Link, Goto
  <1>6. RoundInv'
    BY RoundKept DEF Link, Goto
  <1>7. Linked(where, depth)' /\ Headed(where, depth)'
    BY <1>1, <1>2, RelinkLists DEF Link, ListsInv
  <1>8. Owned(where)'
    BY DEF Link, ListsInv, Owned
  <1>9. Loaded(where)'
    BY <1>1, <1>2 DEF Link, Goto, ListsInv, Loaded, Home
  <1>10. MixedOut(where)'
    BY DEF Link, ListsInv, MixedOut
  <1>11. Counted(where)'
    BY DEF Link, ListsInv, Counted, Busy
  <1> QED  BY <1>4, <1>5, <1>6, <1>7, <1>8, <1>9, <1>10, <1>11 DEF ListsInv

LEMMA PushAgainIInv ==
  ASSUME PoolInv, NEW t \in Threads, Push(t), top[list[t]] # head[t]
  PROVE  PoolInv'
  <1> USE ListsAssumption DEF PoolInv, TypeInv, Push, Goto, linkVars
  <1> PICK where \in [Pool -> Places], depth \in [Pool -> Nat] :
        ListsInv(where, depth)
    OBVIOUS
  <1>1. TypeInv'
    OBVIOUS
  <1>2. ThreadInv'
    BY DEF ThreadInv, Owning
  <1>3. RoundInv'
    BY RoundKept
  <1>4. Linked(where, depth)' /\ Headed(where, depth)' /\ Owned(where)'
    BY PlacesKept
  <1>5. Loaded(where)'
    BY DEF ListsInv, Loaded
  <1>6. MixedOut(where)'
    BY DEF ListsInv, MixedOut
  <1>7. Counted(where)'
    BY DEF ListsInv, Counted, Busy
  <1> QED  BY <1>1, <1>2, <1>3, <1>4, <1>5, <1>6, <1>7 DEF ListsInv

\* The exchange succeeds: whatever happened to the list meanwhile, the sampler
\* points to its first.
LEMMA PushedIInv ==
  ASSUME PoolInv, NEW t \in Threads, Push(t), top[list[t]] = head[t]
  PROVE  PoolInv'
  <1> USE ListsAssumption DEF PoolInv, TypeInv
  <1> PICK where \in [Pool -> Places], depth \in [Pool -> Nat] :
        ListsInv(where, depth)
    OBVIOUS
  <1>1. /\ pc[t] = "push" /\ mine[t] \in Pool /\ where[mine[t]] = "held"
        /\ next[mine[t]] = head[t] /\ list[t] \in {"put", "avail"}
    BY DEF Push, ThreadInv, Owning, ListsInv, Owned
  <1>2. PICK s \in Pool : s = mine[t]
    BY <1>1
  <1>3. PICK l \in Lists : l = list[t]
    OBVIOUS
  <1>4. PICK p \in Pointers : p = top[l]
    BY <1>3
  <1> DEFINE w == [where EXCEPT ![s] = l]
             d == [depth EXCEPT ![s] = IF p = Null THEN 0 ELSE depth[p] + 1]
  <1>5. /\ top' = [top EXCEPT ![l] = s] /\ mine' = [mine EXCEPT ![t] = Null]
        /\ pc' = [pc EXCEPT ![t] = IF t \in Workers THEN "load" ELSE "out"]
        /\ list' = [list EXCEPT ![t] = Home(t)]
        /\ head' = [head EXCEPT ![t] = Null]
        /\ UNCHANGED <<next, used, phase, nxt, taken, aba>>
    BY <1>2, <1>3 DEF Push, Pushed, Goto, Home
  <1>6. \A u \in Threads : mine[u] = s => u = t
    BY <1>2 DEF ListsInv, Owned
  <1>7. TypeInv'
    BY <1>5 DEF Home
  <1>8. ThreadInv'
    BY <1>1, <1>5 DEF ThreadInv, Owning, Home
  <1>9. RoundInv'
    BY <1>1, <1>3, <1>5, RoundKept
  <1>10. /\ w \in [Pool -> Places] /\ d \in [Pool -> Nat]
         /\ Linked(w, d)' /\ Headed(w, d)'
    <2>1. Linked(where, depth) /\ Headed(where, depth)
      BY DEF ListsInv
    <2>2. where[s] = "held" /\ top[l] = p /\ next[s] = p
      BY <1>1, <1>2, <1>3, <1>4
    <2> QED  BY <1>5, <2>1, <2>2, PushLists
  <1>11. Owned(w)'
    BY <1>2, <1>5, <1>6 DEF ListsInv, Owned, Places
  <1>12. Loaded(w)'
    <2> SUFFICES ASSUME NEW u \in Threads, pc'[u] \in {"next", "pop"},
                        u \in Workers \/ OnePlayer
                 PROVE  /\ w[head'[u]] = Home(u) \/ (u \in Workers /\ head'[u] \in taken')
                        /\ pc'[u] = "pop" /\ w[head'[u]] = Home(u)
                             => nxt'[u] = next'[head'[u]]
      BY DEF Loaded, Home, OnePlayer
    <2>1. u # t /\ pc[u] = pc'[u] /\ head'[u] = head[u] /\ nxt'[u] = nxt[u]
      BY <1>5
    <2>2. /\ head[u] \in Pool
          /\ where[head[u]] = Home(u) \/ (u \in Workers /\ head[u] \in taken)
          /\ pc[u] = "pop" /\ where[head[u]] = Home(u) => nxt[u] = next[head[u]]
      BY <2>1 DEF ListsInv, Loaded
    <2>3. CASE head[u] # s
      BY <1>5, <2>1, <2>2, <2>3
    <2>4. CASE head[u] = s
      <3>1. where[s] = "held" /\ Home(u) # "held"
        BY <1>1, <1>2 DEF Home
      <3>2. u \in Workers /\ s \in taken /\ Home(u) = "get" /\ w[s] # "get"
        BY <1>1, <1>3, <2>2, <2>4, <3>1 DEF Home
      <3> QED  BY <1>5, <2>1, <2>2, <2>4, <3>2
    <2> QED  BY <2>3, <2>4
  <1>13. MixedOut(w)'
    BY <1>1, <1>3, <1>5 DEF ListsInv, MixedOut, In
  <1>14. Counted(w)'
    <2>1. Busy(w)' = Busy(where)
      BY <1>1, <1>2, <1>3, <1>5, <1>6 DEF Busy
    <2> QED  BY <2>1, <1>5, CountKept DEF ListsInv
  <1> QED
    BY <1>7, <1>8, <1>9, <1>10, <1>11, <1>12, <1>13, <1>14 DEF ListsInv

----------------------------------------------------------------------------
(* Starting a sampler *)

LEMMA GetSamplerIInv ==
  ASSUME PoolInv, NEW t \in Threads, GetSampler(t) \/ PoolEmpty(t)
  PROVE  PoolInv'
  <1> USE ListsAssumption DEF PoolInv, TypeInv, GetSampler, PoolEmpty, Goto, linkVars
  <1> PICK where \in [Pool -> Places], depth \in [Pool -> Nat] :
        ListsInv(where, depth)
    OBVIOUS
  <1>1. TypeInv'
    OBVIOUS
  <1>2. ThreadInv'
    BY DEF ThreadInv, Owning
  <1>3. RoundInv'
    BY RoundKept
  <1>4. Linked(where, depth)' /\ Headed(where, depth)' /\ Owned(where)'
    BY PlacesKept
  <1>5. Loaded(where)'
    BY DEF ListsInv, Loaded
  <1>6. MixedOut(where)'
    BY DEF ListsInv, MixedOut
  <1>7. Counted(where)'
    <2>1. Busy(where)' = Busy(where)
      BY DEF Busy
    <2> QED  BY <2>1, CountKept DEF ListsInv
  <1> QED  BY <1>1, <1>2, <1>3, <1>4, <1>5, <1>6, <1>7 DEF ListsInv

LEMMA StartSamplerIInv ==
  ASSUME PoolInv, NEW t \in Threads, StartSampler(t)
  PROVE  PoolInv'
  <1> USE ListsAssumption DEF PoolInv, TypeInv
  <1> PICK where \in [Pool -> Places], depth \in [Pool -> Nat] :
        ListsInv(where, depth)
    OBVIOUS
  <1>1. mine[t] \in Pool /\ where[mine[t]] = "held" /\ list[t] = "avail" /\ t \notin Workers
    BY DEF StartSampler, ThreadInv, Owning, Home, ListsInv, Owned
  <1>2. PICK s \in Pool : s = mine[t]
    BY <1>1
  <1>3. \A u \in Threads : mine[u] = s => u = t
    BY <1>2 DEF ListsInv, Owned
  <1>4. TypeInv'
    BY <1>2 DEF StartSampler, Goto
  <1>5. ThreadInv'
    BY <1>1, <1>2, <1>3 DEF ThreadInv, Owning, StartSampler, Goto
  <1>6. RoundInv'
    BY <1>1, RoundKept DEF StartSampler, Goto
  <1>7. Linked(where, depth)' /\ Headed(where, depth)'
    BY <1>1, <1>2, RelinkLists DEF StartSampler, ListsInv
  <1>8. Owned(where)'
    BY DEF StartSampler, ListsInv, Owned
  <1>9. Loaded(where)'
    BY <1>1, <1>2 DEF StartSampler, Goto, ListsInv, Loaded, Home
  <1>10. MixedOut(where)'
    BY DEF StartSampler, ListsInv, MixedOut
  <1>11. Counted(where)'
    <2>1. s \notin Busy(where) /\ Busy(where)' = Busy(where) \union {s}
      BY <1>1, <1>2, <1>3 DEF StartSampler, Busy
    <2>2. Cardinality(Busy(where) \union {s}) = Cardinality(Busy(where)) + 1
      BY <2>1, BusyFinite, FS_AddElement
    <2>3. Busy(where) \union {s} \in SUBSET Pool
      BY DEF Busy
    <2>4. Cardinality(Busy(where) \union {s}) \in 0..Cardinality(Pool)
      BY <2>3, ListsAssumption, FS_Subset, FS_CardinalityType
    <2> QED  BY <2>1, <2>2, <2>4, SmallCount DEF StartSampler, ListsInv, Counted
  <1> QED  BY <1>4, <1>5, <1>6, <1>7, <1>8, <1>9, <1>10, <1>11 DEF ListsInv

----------------------------------------------------------------------------
(* Mixing *)

LEMMA ClaimIInv ==
  ASSUME PoolInv, NEW t \in Threads, Claim(t)
  PROVE  PoolInv'
  <1> USE ListsAssumption DEF PoolInv, TypeInv
  <1> PICK where \in [Pool -> Places], depth \in [Pool -> Nat] :
        ListsInv(where, depth)
    OBVIOUS
  <1> DEFINE w == [s \in Pool |-> IF where[s] = "put" THEN "moved" ELSE where[s]]
  <1>1. t \in Workers /\ \A v \in Workers : pc[v] = "out"
    BY DEF Claim, RoundInv
  <1>2. top["moved"] = Null /\ top["get"] = Null /\ taken = {}
    BY DEF Claim, RoundInv
  <1>3. TypeInv'
    BY DEF Claim, Goto
  <1>4. ThreadInv'
    BY DEF Claim, Goto, ThreadInv, Owning
  <1>5. RoundInv'
    BY <1>1, <1>2 DEF Claim, Goto, RoundInv
  <1>6. w \in [Pool -> Places] /\ Linked(w, depth)' /\ Headed(w, depth)'
    BY <1>2, MoveLists DEF Claim, ListsInv
  <1>7. Owned(w)'
    BY DEF Claim, ListsInv, Owned, Places
  <1>8. Loaded(w)'
    <2>1. \A u \in Threads : pc'[u] \in {"next", "pop"} => u \notin Workers /\ pc'[u] = pc[u]
      BY <1>1 DEF Claim, Goto
    <2>2. \A s \in Pool : where[s] = "avail" <=> w[s] = "avail"
      OBVIOUS
    <2> QED  BY <2>1, <2>2 DEF Claim, ListsInv, Loaded, Home
  <1>9. MixedOut(w)'
    BY <1>2 DEF Claim, MixedOut
  <1>10. Counted(w)'
    <2>1. Busy(w)' = Busy(where)
      BY DEF Claim, Busy
    <2> QED  BY <2>1, CountKept DEF Claim, ListsInv
  <1> QED  BY <1>3, <1>4, <1>5, <1>6, <1>7, <1>8, <1>9, <1>10 DEF ListsInv

LEMMA AttachIInv ==
  ASSUME PoolInv, NEW t \in Threads, Attach(t)
  PROVE  PoolInv'
  <1> USE ListsAssumption DEF PoolInv, TypeInv
  <1> PICK where \in [Pool -> Places], depth \in [Pool -> Nat] :
        ListsInv(where, depth)
    OBVIOUS
  <1> DEFINE w == [s \in Pool |-> IF where[s] = "moved" THEN "get" ELSE where[s]]
  <1>1. /\ t \in Workers /\ \A v \in Workers \ {t} : pc[v] = "out"
        /\ top["get"] = Null /\ taken = {}
    BY DEF Attach, ThreadInv, RoundInv
  <1>2. /\ next' = next
        /\ top' = [top EXCEPT !["get"] = top["moved"], !["moved"] = Null]
    BY <1>1 DEF Attach
  <1>3. TypeInv'
    <2>1. next' \in [Pool -> Pointers] /\ top' \in [Lists -> Pointers]
      BY <1>2
    <2> QED  BY <2>1 DEF Attach, Goto
  <1>4. ThreadInv'
    BY <1>2 DEF Attach, Goto, ThreadInv, Owning
  <1>5. RoundInv'
    BY <1>1, <1>2 DEF Attach, Goto, RoundInv
  <1>6. w \in [Pool -> Places] /\ Linked(w, depth)' /\ Headed(w, depth)'
    BY <1>1, <1>2, MoveLists DEF ListsInv
  <1>7. Owned(w)'
    BY DEF Attach, ListsInv, Owned, Places
  <1>8. Loaded(w)'
    <2>1. \A u \in Threads : pc'[u] \in {"next", "pop"} => u \notin Workers /\ pc'[u] = pc[u]
      BY <1>1 DEF Attach, Goto
    <2>2. \A s \in Pool : where[s] = "avail" <=> w[s] = "avail"
      OBVIOUS
    <2> QED  BY <1>2, <2>1, <2>2 DEF Attach, ListsInv, Loaded, Home
  <1>9. MixedOut(w)'
    BY <1>1 DEF Attach, MixedOut
  <1>10. Counted(w)'
    <2>1. Busy(w)' = Busy(where)
      BY DEF Attach, Busy
    <2> QED  BY <2>1, CountKept DEF Attach, ListsInv
  <1> QED  BY <1>3, <1>4, <1>5, <1>6, <1>7, <1>8, <1>9, <1>10 DEF ListsInv

LEMMA JoinIInv ==
  ASSUME PoolInv, NEW t \in Threads, Join(t)
  PROVE  PoolInv'
  <1> USE ListsAssumption DEF PoolInv, TypeInv, Join, Goto, linkVars
  <1> PICK where \in [Pool -> Places], depth \in [Pool -> Nat] :
        ListsInv(where, depth)
    OBVIOUS
  <1>1. TypeInv'
    OBVIOUS
  <1>2. ThreadInv'
    BY DEF ThreadInv, Owning
  <1>3. RoundInv'
    BY DEF RoundInv
  <1>4. Linked(where, depth)' /\ Headed(where, depth)' /\ Owned(where)'
    BY PlacesKept
  <1>5. Loaded(where)'
    BY DEF ListsInv, Loaded
  <1>6. MixedOut(where)'
    BY DEF ListsInv, MixedOut
  <1>7. Counted(where)'
    BY DEF ListsInv, Counted, Busy
  <1> QED  BY <1>1, <1>2, <1>3, <1>4, <1>5, <1>6, <1>7 DEF ListsInv

LEMMA RequeueIInv ==
  ASSUME PoolInv, NEW t \in Threads, Requeue(t) \/ ReturnSampler(t)
  PROVE  PoolInv'
  <1> USE ListsAssumption DEF PoolInv, TypeInv, Requeue, ReturnSampler, Goto, linkVars
  <1> PICK where \in [Pool -> Places], depth \in [Pool -> Nat] :
        ListsInv(where, depth)
    OBVIOUS
  <1>1. mine[t] \in Pool /\ where[mine[t]] = "held" /\ list[t] = "get"
    BY DEF ThreadInv, Owning, Home, ListsInv, Owned
  <1>2. PICK s \in Pool : s = mine[t]
    BY <1>1
  <1>3. \A u \in Threads : mine[u] = s => u = t
    BY <1>2 DEF ListsInv, Owned
  <1>4. TypeInv'
    OBVIOUS
  <1>5. ThreadInv'
    BY DEF ThreadInv, Owning
  <1>6. RoundInv'
    BY RoundKept
  <1>7. Linked(where, depth)' /\ Headed(where, depth)' /\ Owned(where)'
    BY PlacesKept
  <1>8. Loaded(where)'
    BY DEF ListsInv, Loaded
  <1>9. MixedOut(where)'
    BY DEF ListsInv, MixedOut
  <1>10. Counted(where)'
    <2>1. CASE Requeue(t)
      <3>1. Busy(where)' = Busy(where)
        BY <1>1, <1>2, <1>3, <2>1 DEF Busy
      <3> QED  BY <2>1, <3>1, CountKept DEF ListsInv
    <2>2. CASE ReturnSampler(t)
      <3>1. s \in Busy(where) /\ Busy(where)' = Busy(where) \ {s}
        BY <1>1, <1>2, <1>3, <2>2 DEF Busy
      <3>2. Cardinality(Busy(where) \ {s}) = Cardinality(Busy(where)) - 1
        BY <3>1, BusyFinite, FS_RemoveElement
      <3>3. Cardinality(Busy(where) \ {s}) \in 0..Cardinality(Pool)
        <4>1. IsFiniteSet(Busy(where)) /\ Cardinality(Busy(where)) \in 0..Cardinality(Pool)
          BY BusyFinite
        <4>2. IsFiniteSet(Busy(where) \ {s})
          BY <4>1, FS_RemoveElement
        <4>3. Cardinality(Busy(where) \ {s}) \in Nat /\ Cardinality(Pool) \in Nat
          BY <4>2, ListsAssumption, FS_CardinalityType
        <4> HIDE DEF Busy
        <4> QED  BY <3>2, <4>1, <4>3
      <3> QED  BY <2>2, <3>1, <3>2, <3>3, SmallCount DEF ListsInv, Counted
    <2> QED  BY <2>1, <2>2
  <1> QED  BY <1>4, <1>5, <1>6, <1>7, <1>8, <1>9, <1>10 DEF ListsInv

LEMMA LeaveIInv ==
  ASSUME PoolInv, NEW t \in Threads, Leave(t)
  PROVE  PoolInv'
  <1> USE ListsAssumption DEF PoolInv, TypeInv, Leave, Goto, linkVars
  <1> PICK where \in [Pool -> Places], depth \in [Pool -> Nat] :
        ListsInv(where, depth)
    OBVIOUS
  <1>1. TypeInv'
    BY DEF TypeInv
  <1>2. ThreadInv'
    BY DEF ThreadInv, Owning
  <1>3. RoundInv'
    BY DEF RoundInv
  <1>4. Linked(where, depth)' /\ Headed(where, depth)' /\ Owned(where)'
    BY PlacesKept
  <1>5. Loaded(where)'
    BY DEF ListsInv, Loaded, Home
  <1>6. MixedOut(where)'
    BY DEF ListsInv, MixedOut
  <1>7. Counted(where)'
    BY DEF ListsInv, Counted, Busy
  <1> QED  BY <1>1, <1>2, <1>3, <1>4, <1>5, <1>6, <1>7 DEF ListsInv

----------------------------------------------------------------------------
(* The invariant *)

LEMMA InitPoolInv == ListsInit => PoolInv
  <1> SUFFICES ASSUME ListsInit PROVE PoolInv
    OBVIOUS
  <1> DEFINE n == Cardinality(Pool)
  <1>1. n \in Nat
    BY ListsAssumption, FS_CardinalityType
  <1>2. PICK order \in [1..n -> Pool] :
          /\ \A i, j \in DOMAIN order : order[i] = order[j] => i = j
          /\ next = [s \in Pool |->
                      LET i == CHOOSE i \in DOMAIN order : order[i] = s
                      IN  IF i = n THEN Null ELSE order[i + 1]]
          /\ top = [l \in Lists |->
                     IF l = "avail" /\ Pool # {} THEN order[1] ELSE Null]
    BY DEF ListsInit
  <1>3. \A s \in Pool : \E i \in 1..n : order[i] = s
    <2>1. order \in Injection(1..n, Pool)
      BY <1>2 DEF Injection, IsInjective
    <2>2. Cardinality(1..n) = n
      BY <1>1, FS_Interval
    <2>3. order \in Surjection(1..n, Pool)
      BY <2>1, <2>2, ListsAssumption, FS_Injection
    <2> QED  BY <2>3 DEF Surjection
  <1> DEFINE at == [s \in Pool |-> CHOOSE i \in 1..n : order[i] = s]
             where == [s \in Pool |-> "avail"]
             depth == [s \in Pool |-> n - at[s]]
  <1>4. ASSUME NEW s \in Pool PROVE at[s] \in 1..n /\ order[at[s]] = s
    BY <1>3
  <1>5. ASSUME NEW i \in 1..n PROVE order[i] \in Pool /\ at[order[i]] = i
    BY <1>2, <1>4
  <1>6. ASSUME NEW s \in Pool
        PROVE  next[s] = IF at[s] = n THEN Null ELSE order[at[s] + 1]
    BY <1>2, <1>6
  <1> HIDE DEF at
  <1>7. where \in [Pool -> Places] /\ depth \in [Pool -> Nat]
    BY <1>1, <1>4 DEF Places
  <1>8. Linked(where, depth)
    <2> SUFFICES ASSUME NEW s \in Pool
                 PROVE  IF next[s] = Null THEN depth[s] = 0
                        ELSE where[next[s]] = where[s] /\ depth[s] = depth[next[s]] + 1
      BY DEF Linked
    <2>1. CASE at[s] = n
      BY <1>1, <1>6, <2>1
    <2>2. CASE at[s] # n
      <3>1. at[s] + 1 \in 1..n
        BY <1>1, <1>4, <2>2
      <3>2. next[s] = order[at[s] + 1] /\ next[s] \in Pool /\ at[next[s]] = at[s] + 1
        BY <1>5, <1>6, <2>2, <3>1
      <3> QED  BY <1>1, <1>4, <3>2, ListsAssumption
    <2> QED  BY <2>1, <2>2
  <1>9. Headed(where, depth)
    <2> SUFFICES ASSUME NEW l \in Lists
                 PROVE  IF top[l] = Null THEN In(where, l) = {}
                        ELSE /\ where[top[l]] = l
                             /\ \A s \in In(where, l) :
                                  /\ depth[s] <= depth[top[l]]
                                  /\ s # top[l] => \E u \in In(where, l) : next[u] = s
      BY DEF Headed
    <2>1. CASE l # "avail" \/ Pool = {}
      BY <1>2, <2>1 DEF In
    <2>2. CASE l = "avail" /\ Pool # {}
      <3>1. 1 \in 1..n
        BY <1>1, <1>4, <2>2
      <3>2. top[l] = order[1] /\ top[l] \in Pool /\ at[top[l]] = 1
        BY <1>2, <1>5, <2>2, <3>1
      <3>3. ASSUME NEW s \in Pool PROVE depth[s] <= depth[top[l]]
        BY <1>1, <1>4, <3>2
      <3>4. ASSUME NEW s \in Pool, s # top[l] PROVE \E u \in In(where, l) : next[u] = s
        <4>1. at[s] # 1
          BY <1>4, <3>2, <3>4
        <4>2. at[s] - 1 \in 1..n /\ at[s] - 1 # n
          BY <1>1, <1>4, <4>1
        <4>3. PICK u \in Pool : u = order[at[s] - 1]
          BY <1>5, <4>2
        <4>4. at[u] = at[s] - 1
          BY <1>5, <4>2, <4>3
        <4>5. next[u] = order[at[u] + 1] /\ at[u] + 1 = at[s]
          BY <1>1, <1>4, <1>6, <4>2, <4>4
        <4> QED  BY <1>4, <4>3, <4>5, <2>2 DEF In
      <3> QED  BY <2>2, <3>2, <3>3, <3>4, ListsAssumption DEF In
    <2> QED  BY <2>1, <2>2
  <1>10. Owned(where) /\ Loaded(where) /\ MixedOut(where)
    BY ListsAssumption DEF ListsInit, Owned, Loaded, MixedOut
  <1>11. Counted(where)
    <2>1. Busy(where) = {}
      BY DEF Busy
    <2> QED  BY <2>1, FS_EmptySet DEF ListsInit, Counted
  <1>12. TypeInv
    <2>1. next \in [Pool -> Pointers]
      <3>1. ASSUME NEW s \in Pool PROVE next[s] \in Pointers
        <4>1. CASE at[s] = n
          BY <1>6, <4>1
        <4>2. CASE at[s] # n
          BY <1>1, <1>4, <1>5, <1>6, <4>2
        <4> QED  BY <4>1, <4>2
      <3> QED  BY <1>2, <3>1
    <2>2. top \in [Lists -> Pointers]
      <3>1. Pool # {} => order[1] \in Pool
        BY <1>1, <1>4, <1>5
      <3> QED  BY <1>2, <3>1
    <2>3. used \in 0..(UsedMod - 1)
      BY SmallCount, ListsAssumption, FS_CardinalityType DEF ListsInit
    <2> QED  BY <2>1, <2>2, <2>3 DEF ListsInit, TypeInv
  <1>13. ThreadInv /\ RoundInv
    BY <1>2 DEF ListsInit, ThreadInv, RoundInv, Owning, Home
  <1> QED
    BY <1>7, <1>8, <1>9, <1>10, <1>11, <1>12, <1>13 DEF PoolInv, ListsInv

\* The types keep, whatever becomes of the lists.
LEMMA NextTypeInv == ASSUME TypeInv, [ListsNext]_listVars PROVE TypeInv'
  <1> USE ListsAssumption, SmallCount DEF TypeInv, Goto, linkVars
  <1>1. ASSUME NEW t \in Threads, GetSampler(t) \/ Claim(t) \/ Join(t) PROVE TypeInv'
    BY <1>1 DEF GetSampler, Claim, Join
  <1>2. ASSUME NEW t \in Threads, LoadHead(t) \/ ReadNext(t) \/ PoolEmpty(t) PROVE TypeInv'
    BY <1>2 DEF LoadHead, ReadNext, PoolEmpty
  <1>3. ASSUME NEW t \in Threads, Pop(t) PROVE TypeInv'
    BY <1>3 DEF Pop
  <1>4. ASSUME NEW t \in Threads, Link(t) PROVE TypeInv'
    BY <1>4 DEF Link
  <1>5. ASSUME NEW t \in Threads, Push(t) PROVE TypeInv'
    <2>1. CASE top[list[t]] = head[t]
      BY <1>5, <2>1 DEF Push, Pushed
    <2>2. CASE top[list[t]] # head[t]
      BY <1>5, <2>2 DEF Push
    <2> QED  BY <2>1, <2>2
  <1>6. ASSUME NEW t \in Threads, StartSampler(t) PROVE TypeInv'
    <2>1. used' \in 0..(UsedMod - 1)
      BY <1>6 DEF StartSampler
    <2> QED  BY <1>6, <2>1 DEF StartSampler
  <1>7. ASSUME NEW t \in Threads, Attach(t) PROVE TypeInv'
    BY <1>7 DEF Attach
  <1>8. ASSUME NEW t \in Threads, Requeue(t) PROVE TypeInv'
    BY <1>8 DEF Requeue
  <1>9. ASSUME NEW t \in Threads, ReturnSampler(t) PROVE TypeInv'
    <2>1. used' \in 0..(UsedMod - 1)
      BY <1>9 DEF ReturnSampler
    <2> QED  BY <1>9, <2>1 DEF ReturnSampler
  <1>10. ASSUME NEW t \in Threads, Leave(t) PROVE TypeInv'
    BY <1>10 DEF Leave
  <1>11. CASE UNCHANGED listVars
    BY <1>11 DEF listVars, threadVars
  <1> QED
    BY <1>1, <1>2, <1>3, <1>4, <1>5, <1>6, <1>7, <1>8, <1>9, <1>10, <1>11 DEF ListsNext, Step

\* No step but an exchange meets the ABA problem, and none forgets it.
LEMMA AbaByPop ==
  ASSUME [ListsNext]_listVars PROVE aba' = aba \/ \E t \in Threads : Pop(t) /\ (aba => aba')
  BY DEF ListsNext, Step, GetSampler, Claim, Join, LoadHead, ReadNext, Pop, Link, Push,
     PoolEmpty, StartSampler, Attach, Requeue, ReturnSampler, Leave, listVars

LEMMA NextPoolInv == ASSUME PoolInv, [ListsNext]_listVars, ~aba' PROVE PoolInv'
  <1>1. ASSUME NEW t \in Threads, Step(t) PROVE PoolInv'
    <2>1. CASE Pop(t)
      BY <2>1, PoppedIInv, PopAgainIInv
    <2>2. CASE Push(t)
      BY <2>2, PushedIInv, PushAgainIInv
    <2>3. CASE LoadHead(t) \/ ReadNext(t) \/ Link(t)
      BY <2>3, LoadHeadIInv, ReadNextIInv, LinkIInv
    <2>4. CASE PoolEmpty(t) \/ StartSampler(t)
      BY <2>4, GetSamplerIInv, StartSamplerIInv
    <2>5. CASE Attach(t) \/ Requeue(t) \/ ReturnSampler(t) \/ Leave(t)
      BY <2>5, AttachIInv, RequeueIInv, LeaveIInv
    <2> QED  BY <1>1, <2>1, <2>2, <2>3, <2>4, <2>5 DEF Step
  <1>2. ASSUME NEW t \in Threads, GetSampler(t) \/ Claim(t) \/ Join(t) PROVE PoolInv'
    BY <1>2, GetSamplerIInv, ClaimIInv, JoinIInv
  <1>3. CASE UNCHANGED listVars
    <2> USE <1>3 DEF listVars, linkVars, threadVars
    <2>1. TypeInv' /\ ThreadInv' /\ RoundInv'
      BY DEF PoolInv, TypeInv, ThreadInv, RoundInv
    <2>2. ASSUME NEW where, NEW depth, ListsInv(where, depth) PROVE ListsInv(where, depth)'
      BY <2>2 DEF ListsInv, Linked, Headed, Owned, Loaded, MixedOut, Counted, Busy
    <2> QED  BY <2>1, <2>2 DEF PoolInv
  <1> QED  BY <1>1, <1>2, <1>3 DEF ListsNext

LEMMA NextListsIInv == ListsIInv /\ [ListsNext]_listVars => ListsIInv'
  <1> SUFFICES ASSUME ListsIInv, [ListsNext]_listVars PROVE ListsIInv'
    OBVIOUS
  <1>1. TypeInv'
    BY NextTypeInv DEF ListsIInv
  <1>2. ASSUME ~aba' PROVE PoolInv'
    <2>1. ~aba
      BY <1>2, AbaByPop
    <2> QED  BY <1>2, <2>1, NextPoolInv DEF ListsIInv
  <1>3. ASSUME OnePlayer PROVE ~aba'
    BY <1>3, AbaByPop, PoppedClean DEF ListsIInv
  <1> QED  BY <1>1, <1>2, <1>3 DEF ListsIInv, OnePlayer

----------------------------------------------------------------------------
(* What the invariant says of the chains *)

\* A nonempty set of numbers has a least member.
LEMMA LeastNumber ==
  ASSUME NEW T, T \subseteq Nat, T # {}
  PROVE  \E n \in T : \A m \in T : n <= m
  <1>1. PICK less : /\ IsWellFoundedOn(less, Nat)
                    /\ \A m, n \in Nat : m < n => <<m, n>> \in less
    <2>1. \A m, n \in Nat : m < n => <<m, n>> \in OpToRel(<, Nat)
      BY DEF OpToRel
    <2> QED  BY <2>1, NatLessThanWellFounded
  <1>2. PICK n \in T : \A m \in T : ~ (<<m, n>> \in less)
    <2>1. IsWellFoundedOn(less, Nat)
      BY <1>1
    <2> QED  BY <2>1, WFMin, Zenon
  <1>3. \A m \in T : ~ (m < n)
    BY <1>1, <1>2
  <1> QED  BY <1>2, <1>3

\* The samplers that are reached from the head of a list are those that are in it.
LEMMA ChainIsList ==
  ASSUME TypeInv, NEW where \in [Pool -> Places], NEW depth \in [Pool -> Nat],
         Linked(where, depth), Headed(where, depth), NEW l \in Lists
  PROVE  Chain(top[l]) = In(where, l)
  <1> USE ListsAssumption DEF TypeInv, Places
  <1>1. HoldsNext(In(where, l)) /\ In(where, l) \in SUBSET Pool
    BY DEF HoldsNext, In, Linked
  <1>2. top[l] # Null => top[l] \in In(where, l)
    BY DEF In, Headed
  <1>3. Chain(top[l]) \subseteq In(where, l)
    BY <1>1, <1>2 DEF Chain
  <1>4. ASSUME NEW S \in SUBSET Pool, HoldsNext(S), top[l] # Null => top[l] \in S
        PROVE  In(where, l) \subseteq S
    <2> SUFFICES ASSUME In(where, l) \ S # {} PROVE FALSE
      OBVIOUS
    <2>1. top[l] \in Pool /\ top[l] \in S /\ where[top[l]] = l
      BY <1>4 DEF Headed, In
    <2> DEFINE h == top[l]
               T == {n \in Nat : \E s \in In(where, l) \ S : n = depth[h] - depth[s]}
    <2>2. ASSUME NEW s \in In(where, l) PROVE depth[h] - depth[s] \in Nat
      BY <2>1 DEF Headed, In
    <2>3. T \subseteq Nat /\ T # {}
      BY <2>2
    <2>4. PICK n \in T : \A m \in T : n <= m
      BY <2>3, LeastNumber
    <2>5. PICK s \in In(where, l) \ S : n = depth[h] - depth[s]
      BY <2>4
    <2>6. PICK u \in In(where, l) : next[u] = s
      BY <2>1, <2>5 DEF Headed
    <2>7. u \notin S
      BY <1>4, <2>5, <2>6 DEF HoldsNext, In
    <2>8. depth[u] = depth[s] + 1
      BY <2>5, <2>6 DEF Linked, In
    <2>9. depth[h] - depth[u] \in T
      BY <2>2, <2>6, <2>7
    <2>10. n <= depth[h] - depth[u]
      BY <2>4, <2>9
    <2> QED  BY <2>1, <2>5, <2>6, <2>8, <2>10 DEF In
  <1>5. In(where, l) \subseteq Chain(top[l])
    BY <1>4 DEF Chain, In
  <1> QED  BY <1>3, <1>5

\* A list that is not empty ends.
LEMMA ListEnds ==
  ASSUME TypeInv, NEW where \in [Pool -> Places], NEW depth \in [Pool -> Nat],
         Linked(where, depth), NEW l \in Lists, In(where, l) # {}
  PROVE  \E s \in In(where, l) : next[s] = Null
  <1> USE ListsAssumption DEF TypeInv, Places
  <1> DEFINE T == {n \in Nat : \E s \in In(where, l) : n = depth[s]}
  <1>1. T \subseteq Nat /\ T # {}
    BY DEF In
  <1>2. PICK n \in T : \A m \in T : n <= m
    BY <1>1, LeastNumber
  <1>3. PICK s \in In(where, l) : n = depth[s]
    BY <1>2
  <1>4. ASSUME next[s] # Null PROVE FALSE
    <2>1. next[s] \in In(where, l) /\ depth[s] = depth[next[s]] + 1
      BY <1>3, <1>4 DEF Linked, In
    <2>2. depth[next[s]] \in T
      BY <2>1 DEF In
    <2>3. n <= depth[next[s]]
      BY <1>2, <2>2
    <2> QED  BY <1>3, <2>1, <2>3 DEF In
  <1> QED  BY <1>3, <1>4

LEMMA PoolTypeOK == ListsIInv => ListsTypeOK
  <1> SUFFICES ASSUME ListsIInv PROVE ListsTypeOK
    OBVIOUS
  <1>1. ASSUME ~aba PROVE used <= Cardinality(Pool)
    <2>1. PICK where \in [Pool -> Places] : Counted(where)
      BY <1>1 DEF ListsIInv, PoolInv, ListsInv
    <2> QED  BY <2>1, BusyFinite DEF Counted
  <1> QED  BY <1>1 DEF ListsIInv, TypeInv, ListsTypeOK

LEMMA PoolConserved == PoolInv => NoneLost
  <1> SUFFICES ASSUME PoolInv PROVE NoneLost
    OBVIOUS
  <1> USE ListsAssumption
  <1> PICK where \in [Pool -> Places], depth \in [Pool -> Nat] :
        ListsInv(where, depth)
    BY DEF PoolInv
  <1>1. ASSUME NEW l \in Lists PROVE Chain(top[l]) = In(where, l)
    BY ChainIsList DEF PoolInv, ListsInv
  <1>2. ASSUME NEW s \in Pool
        PROVE  Cardinality({l \in Lists : s \in Chain(top[l])})
                 + Cardinality({t \in Threads : mine[t] = s}) = 1
    <2> DEFINE Reached == {l \in Lists : s \in Chain(top[l])}
               Owners == {t \in Threads : mine[t] = s}
    <2>1. Reached = {l \in Lists : where[s] = l}
      BY <1>1 DEF In
    <2>2. CASE where[s] = "held"
      <3>1. Reached = {}
        BY <2>1, <2>2
      <3>2. PICK t \in Threads : mine[t] = s
        BY <2>2 DEF ListsInv, Owned
      <3>3. Owners = {t}
        BY <3>2 DEF ListsInv, Owned
      <3> HIDE DEF Reached, Owners
      <3>4. Cardinality(Reached) = 0 /\ Cardinality(Owners) = 1
        BY <3>1, <3>3, FS_EmptySet, FS_Singleton
      <3> QED  BY <3>4 DEF Reached, Owners
    <2>3. CASE where[s] # "held"
      <3>1. where[s] \in Lists
        BY <2>3 DEF Places
      <3>2. Reached = {where[s]}
        BY <2>1, <3>1
      <3>3. Owners = {}
        BY <2>3 DEF ListsInv, Owned
      <3> HIDE DEF Reached, Owners
      <3>4. Cardinality(Reached) = 1 /\ Cardinality(Owners) = 0
        BY <3>2, <3>3, FS_EmptySet, FS_Singleton
      <3> QED  BY <3>4 DEF Reached, Owners
    <2> QED  BY <2>2, <2>3
  <1>3. ASSUME NEW l \in Lists, top[l] # Null
        PROVE  \E s \in Chain(top[l]) : next[s] = Null
    <2>1. In(where, l) # {}
      BY <1>3 DEF PoolInv, TypeInv, ListsInv, Headed, In
    <2>2. \E s \in In(where, l) : next[s] = Null
      BY <2>1, ListEnds DEF PoolInv, ListsInv
    <2> QED  BY <2>2, <1>1
  <1> QED  BY <1>2, <1>3 DEF NoneLost

LEMMA PoolUsedExact == PoolInv => UsedExact
  <1> SUFFICES ASSUME PoolInv PROVE UsedExact
    OBVIOUS
  <1> USE ListsAssumption
  <1> PICK where \in [Pool -> Places], depth \in [Pool -> Nat] :
        ListsInv(where, depth)
    BY DEF PoolInv
  <1> DEFINE InPool == In(where, "avail")
             Between == {t \in Threads : mine[t] # Null /\ list[t] = "avail"}
             Passing == {s \in Pool : \E t \in Between : mine[t] = s}
  <1>1. Chain(top["avail"]) = InPool
    BY ChainIsList DEF PoolInv, ListsInv
  <1>2. InPool \in SUBSET Pool /\ Passing \in SUBSET Pool
    BY DEF In
  <1>3. IsFiniteSet(InPool) /\ IsFiniteSet(Passing)
    BY <1>2, FS_Subset
  <1>4. IsFiniteSet(Between) /\ Cardinality(Between) = Cardinality(Passing)
    <2> DEFINE f == [t \in Between |-> mine[t]]
    <2>1. f \in [Between -> Passing]
      BY DEF PoolInv, TypeInv
    <2>2. f \in Injection(Between, Passing)
      BY <2>1 DEF Injection, IsInjective, ListsInv, Owned
    <2>3. f \in Surjection(Between, Passing)
      BY <2>1 DEF Surjection
    <2> QED  BY <1>3, <2>2, <2>3, FS_Injection
  <1>5. InPool \intersect Passing = {}
    BY DEF In, ListsInv, Owned
  <1>6. Busy(where) = Pool \ (InPool \union Passing)
    <2>1. ASSUME NEW s \in Pool
          PROVE  s \in Passing <=> \E t \in Threads : mine[t] = s /\ list[t] = "avail"
      OBVIOUS
    <2> QED  BY <2>1 DEF Busy, In
  <1>7. Cardinality(InPool \union Passing) = Cardinality(InPool) + Cardinality(Passing)
    <2> HIDE DEF InPool, Passing
    <2>1. /\ Cardinality(InPool \union Passing) =
               Cardinality(InPool) + Cardinality(Passing) - Cardinality({})
      BY <1>3, <1>5, FS_Union
    <2> QED  BY <1>3, <2>1, FS_EmptySet, FS_CardinalityType
  <1>8. Cardinality(Busy(where)) = Cardinality(Pool) - Cardinality(InPool \union Passing)
    <2>1. Pool \intersect (InPool \union Passing) = InPool \union Passing
      BY <1>2
    <2> HIDE DEF InPool, Passing
    <2>2. Cardinality(Pool \ (InPool \union Passing)) =
            Cardinality(Pool) - Cardinality(Pool \intersect (InPool \union Passing))
      BY FS_Difference
    <2> QED  BY <1>6, <2>1, <2>2
  <1>9. /\ Cardinality(Pool) \in Nat /\ Cardinality(InPool) \in Nat
        /\ Cardinality(Passing) \in Nat
    BY <1>3, FS_CardinalityType
  <1>10. used = Cardinality(Busy(where))
    BY DEF ListsInv, Counted
  <1> HIDE DEF InPool, Between, Passing
  <1>11. used = Cardinality(Pool) - Cardinality(InPool) - Cardinality(Between)
    BY <1>4, <1>7, <1>8, <1>9, <1>10
  <1> QED  BY <1>1, <1>11 DEF UsedExact, Between

LEMMA PoolStayOut == PoolInv => MixedSamplersStayOut
  <1> SUFFICES ASSUME PoolInv PROVE MixedSamplersStayOut
    OBVIOUS
  <1> PICK where \in [Pool -> Places], depth \in [Pool -> Nat] :
        ListsInv(where, depth)
    BY DEF PoolInv
  <1>1. Chain(top["get"]) = In(where, "get")
    BY ChainIsList DEF PoolInv, ListsInv
  <1> QED  BY <1>1 DEF ListsInv, MixedOut, MixedSamplersStayOut

----------------------------------------------------------------------------
(* The theorems *)

\* The strengthened invariant, for any number of players and workers.
THEOREM ListsInvariant == ListsSpec => []ListsIInv
  <1>1. ListsInit => ListsIInv
    BY InitPoolInv DEF ListsInit, ListsIInv, PoolInv
  <1> QED  BY <1>1, NextListsIInv, PTL DEF ListsSpec

\* Every variable of the lists and of the threads that use them keeps its type; until
\* the ABA problem m_SamplerCount neither wraps below zero nor exceeds the limit.
THEOREM ListsTypeCorrect == ListsSpec => []ListsTypeOK
  BY ListsInvariant, PoolTypeOK, PTL

\* However many players and workers interleave their exchanges, no sampler is lost and
\* none is in two hands, as long as no exchange has met the ABA problem.
THEOREM SamplersConserved == ListsSpec => []Conserved
  <1>1. ListsIInv => Conserved
    BY PoolConserved DEF ListsIInv, Conserved
  <1> QED  BY <1>1, ListsInvariant, PTL

\* m_SamplerCount is exact but for the samplers that are on their way, with several
\* players that look at the limit before they take and count afterwards.
THEOREM CountExact == ListsSpec => []UsedExact
  <1>1. ListsIInv => UsedExact
    BY PoolUsedExact DEF ListsIInv, UsedExact
  <1> QED  BY <1>1, ListsInvariant, PTL

\* No sampler is mixed twice in a round.
THEOREM MixedStayOut == ListsSpec => []MixedSamplersStayOut
  <1>1. ListsIInv => MixedSamplersStayOut
    BY PoolStayOut DEF ListsIInv, MixedSamplersStayOut
  <1> QED  BY <1>1, ListsInvariant, PTL

\* The ABA problem needs a second thread that takes from the pool: with one player and
\* any number of workers no exchange stores a next pointer that is not the head's own.
THEOREM AbaNeedsTwo == ListsSpec => []AbaNeedsTwoPlayers
  <1>1. ListsIInv => AbaNeedsTwoPlayers
    BY DEF ListsIInv, OnePlayer, AbaNeedsTwoPlayers
  <1> QED  BY <1>1, ListsInvariant, PTL

==============================================================================
