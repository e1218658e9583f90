----------------------------- MODULE MidiPlayer -----------------------------
(***************************************************************************)
(* GOMidiPlayer and GOMetronome on the organ's GOTimer.  The player sets a *)
(* one-shot timer for its next event from within HandleTimer(), which is   *)
(* called by Notify() and by Play() and Pause() themselves; an event of    *)
(* the file may press the metronome's button in the middle of it.  Events  *)
(* that press the player's own buttons are left out.  m_Speed is 1.        *)
(***************************************************************************)
EXTENDS Timer

CONSTANTS
  Times,     \* the time of each event of the file
  Presses,   \* the events that press the metronome's button
  Second,    \* 1000 ms
  Beats      \* the intervals 60000 / m_BPM that the user chooses from

ASSUME MidiPlayerAssumption ==
  /\ Times \in Seq(Nat) /\ Times # << >>
  /\ Presses \subseteq DOMAIN Times
  /\ Second \in Nat \ {0}
  /\ Beats \subseteq Nat \ {0} /\ Beats # {}

VARIABLES
  isPlaying,  \* m_IsPlaying
  pause,      \* m_Pause
  start,      \* m_Start; the time played so far while m_Pause
  seconds,    \* m_PlayingSeconds
  pos,        \* m_content's m_Pos, from 1
  handling,   \* is the player in HandleTimer()?
  since,      \* the local now of HandleTimer()
  running,    \* m_Running of the metronome
  beat,       \* 60000 / m_BPM
  played      \* how long the clock has run since Play() without the pauses

playerVars == <<isPlaying, pause, start, seconds, pos, handling, since>>
metronomeVars == <<running, beat>>
vars == <<timerVars, playerVars, metronomeVars, played>>

Player == "player"
Metronome == "metronome"
NEvents == Len(Times)
Idle == walk = 0 /\ ~handling

Init == /\ TimerInit
        /\ isPlaying = FALSE
        /\ pause = FALSE
        /\ start = 0
        /\ seconds = 0
        /\ pos = 1
        /\ handling = FALSE
        /\ since = 0
        /\ running = FALSE
        /\ beat \in Beats
        /\ played = 0

-----------------------------------------------------------------------------
(* GOMetronome: StartTimer() and StopTimer() by the ON button, UpdateBPM().*)
MetronomeEntries(es) ==
  LET without == WithoutTimer(es, Metronome)
  IN  IF running THEN without ELSE WithTimer(without, Entry(0, Metronome, beat))

MetronomeOn ==
  /\ running' = ~running
  /\ entries' = MetronomeEntries(entries)
  /\ due' = IF running THEN due ELSE AfterSetTimer(entries')
  /\ UNCHANGED beat

PressMetronome == /\ Idle
                  /\ MetronomeOn
                  /\ UNCHANGED <<now, walk, asOf, playerVars, played>>

UpdateBPM == /\ Idle
             /\ beat' \in Beats
             /\ entries' = IF running THEN WithInterval(entries, Metronome, beat')
                                      ELSE entries
             /\ UNCHANGED <<now, due, walk, asOf, playerVars, running, played>>

BeatSounds == /\ ~handling
              /\ Calls(Metronome)
              /\ Return(entries)
              /\ UNCHANGED <<due, playerVars, metronomeVars, played>>

-----------------------------------------------------------------------------
(* GOMidiPlayer::HandleTimer() begins: one more second may have passed. *)
Begin(startsAt, inSeconds) ==
  /\ handling' = TRUE
  /\ since' = now
  /\ seconds' = IF startsAt + (inSeconds + 1) * Second <= now
                  THEN inSeconds + 1 ELSE inSeconds

(* Play(): StopPlaying() first, then the first HandleTimer(). *)
Play == /\ Idle
        /\ entries' = WithoutTimer(entries, Player)
        /\ isPlaying' = TRUE
        /\ pause' = FALSE
        /\ pos' = 1
        /\ start' = now
        /\ Begin(now, 0)
        /\ played' = 0
        /\ UNCHANGED <<now, due, walk, asOf, metronomeVars>>

\* Faulty: DeleteTimer() is left out of StopPlaying().
EntriesKept == entries

EntriesOfStopped == WithoutTimer(entries, Player)

Stop == /\ Idle
        /\ isPlaying' = FALSE
        /\ entries' = EntriesOfStopped
        /\ UNCHANGED <<now, due, walk, asOf, pause, start, seconds, pos, handling,
                       since, metronomeVars, played>>

\* Faulty: the file goes on as if there had been no pause.
StartUnchanged == start

(* m_Start holds the time played so far while the player pauses. *)
StartAfterPause == now - start

Pause == /\ Idle
         /\ isPlaying
         /\ ~pause
         /\ pause' = TRUE
         /\ start' = now - start
         /\ entries' = WithoutTimer(entries, Player)
         /\ UNCHANGED <<now, due, walk, asOf, isPlaying, seconds, pos, handling,
                        since, metronomeVars, played>>

GoOn == /\ Idle
        /\ isPlaying
        /\ pause
        /\ pause' = FALSE
        /\ start' = StartAfterPause
        /\ Begin(start', seconds)
        /\ UNCHANGED <<now, entries, due, walk, asOf, isPlaying, pos, metronomeVars,
                       played>>

(* The loop of HandleTimer() over the events. *)
EventIsDue == Times[pos] + start <= since

PlayEvent == /\ handling
             /\ EventIsDue
             /\ pos < NEvents
             /\ pos' = pos + 1
             /\ IF pos \in Presses THEN MetronomeOn
                ELSE UNCHANGED <<entries, due, metronomeVars>>
             /\ UNCHANGED <<now, walk, asOf, isPlaying, pause, start, seconds,
                            handling, since, played>>

Leave(es) == /\ handling' = FALSE
             /\ since' = 0
             /\ IF walk # 0 THEN Return(es)
                ELSE /\ entries' = es
                     /\ UNCHANGED <<now, walk, asOf>>

(* Next() finds no event after the last one: StopPlaying(). *)
LastEvent == /\ handling
             /\ EventIsDue
             /\ pos = NEvents
             /\ pos' = pos + 1
             /\ isPlaying' = FALSE
             /\ Leave(WithoutTimer(entries, Player))
             /\ UNCHANGED <<due, pause, start, seconds, metronomeVars, played>>

(* The next event or the next second, whichever comes first. *)
NextCall == Least({Times[pos] + start, start + (seconds + 1) * Second})

WaitForEvent ==
  /\ handling
  /\ ~EventIsDue
  /\ LET es == WithTimer(entries, Entry(NextCall, Player, 0))
     IN  Leave(es) /\ due' = AfterSetTimer(es)
  /\ UNCHANGED <<isPlaying, pause, start, seconds, pos, metronomeVars, played>>

(* Notify() calls the player. *)
HandleTimer == /\ ~handling
               /\ Calls(Player)
               /\ IF isPlaying THEN Begin(start, seconds) /\ UNCHANGED timerVars
                  ELSE Return(entries) /\ UNCHANGED <<due, handling, since, seconds>>
               /\ UNCHANGED <<isPlaying, pause, start, pos, metronomeVars, played>>

-----------------------------------------------------------------------------
TimePasses == /\ Tick
              /\ played' = IF isPlaying /\ ~pause THEN played + 1 ELSE played
              /\ UNCHANGED <<playerVars, metronomeVars>>

TimerWalks == /\ ~handling
              /\ Notify \/ Skip \/ WalkEnds
              /\ UNCHANGED <<playerVars, metronomeVars, played>>

User == Play \/ Stop \/ Pause \/ GoOn \/ PressMetronome \/ UpdateBPM
Handlers == HandleTimer \/ PlayEvent \/ LastEvent \/ WaitForEvent \/ BeatSounds

Next == TimePasses \/ TimerWalks \/ Handlers \/ User

Spec == Init /\ [][Next]_vars

-----------------------------------------------------------------------------
(* Types of the variables. *)
TypeOK ==
  /\ now \in 0 .. MaxTime
  /\ \A i \in DOMAIN entries :
       entries[i] \in [time : Int, callback : {Player, Metronome, NoCallback},
                       interval : Beats \union {0}]
  /\ due \in Int
  /\ walk \in Nat
  /\ isPlaying \in BOOLEAN /\ pause \in BOOLEAN /\ running \in BOOLEAN
  /\ pos \in 1 .. NEvents + 1
  /\ seconds \in Nat
  /\ beat \in Beats

(* Whenever the GUI thread is idle and an entry waits, the wxTimer runs    *)
(* and fires no later than for the earliest of them: a SetTimer() within   *)
(* Notify(), which may not schedule, is scheduled at its end, and a        *)
(* DeleteTimer() takes no alarm away from the others.                      *)
Armed ==
  Idle /\ Live(entries) # {}
    => /\ due # Never
       /\ due <= LET next == Least({entries[i].time : i \in Live(entries)})
                 IN  IF next > now THEN next ELSE now + 1

(* Whatever the handlers do to the table in the middle of a walk, a file   *)
(* that plays has exactly one timer, at or before its next event, and the  *)
(* metronome has one exactly while it runs; a stopped or pausing player    *)
(* has none.                                                               *)
OneTimerEach ==
  Idle =>
    /\ Cardinality(Of(entries, Player)) = IF isPlaying /\ ~pause THEN 1 ELSE 0
    /\ \A i \in Of(entries, Player) : entries[i].time <= Times[pos] + start
    /\ Cardinality(Of(entries, Metronome)) = IF running THEN 1 ELSE 0
    /\ \A i \in Of(entries, Metronome) : entries[i].interval = beat

(* An event is played no earlier than its time from the start of the file, *)
(* not counting the time for which the player paused.                      *)
NotBeforeItsTime == isPlaying => \A k \in 1 .. pos - 1 : Times[k] <= played
=============================================================================
