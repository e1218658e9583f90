---------------------------- MODULE MCMidiPlayer ----------------------------
(***************************************************************************)
(* A file of four events, two at one time, the second and third of which   *)
(* press the metronome's button: it is started and stopped in one walk of  *)
(* Notify(), and started in one and stopped by the user.                   *)
(***************************************************************************)
EXTENDS MidiPlayer

MCTimes == <<0, 2, 2, 5>>
=============================================================================
