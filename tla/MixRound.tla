------------------------------- MODULE MixRound -------------------------------
(***************************************************************************)
(* What one (windchest, audio group) cell promises to the tasks that read  *)
(* its buffer, round after round: a round takes over every sampler queued  *)
(* so far, and when it is done the buffer holds each of them exactly once  *)
(* (or has dropped it because it was late), and nothing else, until the    *)
(* next round begins.  A round that is opened over one that is still being *)
(* mixed is broken, and promises nothing; the next one that is opened in   *)
(* peace keeps the promise again.                                          *)
(***************************************************************************)
CONSTANT Samplers

VARIABLES
  queue,    \* samplers waiting for a round to take them over
  phase,    \* "idle", "mixing", "done"
  batch,    \* the samplers of this round
  output,   \* the samplers in the buffer, once the round is done
  broken    \* the round was opened while the last one was being mixed

mixVars == <<queue, phase, batch, output, broken>>

MixInit ==
  /\ queue = {}
  /\ phase = "idle"
  /\ batch = {}
  /\ output = {}
  /\ broken = FALSE

\* A sampler starts playing, or one that was mixed goes on in the next round.
Enqueue ==
  /\ \E s \in Samplers : queue' = queue \union {s}
  /\ UNCHANGED <<phase, batch, output>>

Claim ==
  /\ phase = "idle"
  /\ phase' = "mixing"
  /\ batch' = queue
  /\ queue' = {}
  /\ UNCHANGED output

Publish ==
  /\ phase = "mixing"
  /\ phase' = "done"
  /\ output' \subseteq batch
  /\ UNCHANGED <<queue, batch>>

Renew ==
  /\ phase = "done"
  /\ phase' = "idle"
  /\ batch' = {}
  /\ output' = {}
  /\ UNCHANGED queue

\* A round is opened over one that is still being mixed.
Break ==
  /\ phase = "mixing"
  /\ broken' = TRUE
  /\ phase' = "idle"
  /\ batch' = {}
  /\ output' = {}
  /\ UNCHANGED queue

\* Nothing is promised of a broken round, until one is opened in peace.
Broken ==
  /\ broken
  /\ ~broken' => phase' = "idle" /\ batch' = {} /\ output' = {}

MixNext ==
  \/ ~broken /\ (Enqueue \/ Claim \/ Publish \/ Renew) /\ UNCHANGED broken
  \/ ~broken /\ Break
  \/ Broken

MixSpec == MixInit /\ [][MixNext]_mixVars

==============================================================================
