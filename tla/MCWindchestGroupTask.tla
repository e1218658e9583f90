------------------------ MODULE MCWindchestGroupTask ------------------------
(* Two workers and the owner mix two samplers. *)
EXTENDS WindchestGroupTask, TLC

\* Workers and samplers are interchangeable.
Symmetry == Permutations(Workers) \union Permutations(Samplers)
==============================================================================
