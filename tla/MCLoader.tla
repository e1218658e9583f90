------------------------------ MODULE MCLoader ------------------------------
(***************************************************************************)
(* The main thread and two load threads on three objects: one thread can   *)
(* be late, out of memory or stopped while two others go on.  Two settings *)
(* tell an up-to-date cache file from an outdated one.                     *)
(***************************************************************************)
EXTENDS Loader

CONSTANTS OldBits, NewBits

MCSettings == {OldBits, NewBits}
=============================================================================
