--------------------------- MODULE MCSamplerLists ---------------------------
(* Three samplers, started by the main thread and the release task and mixed  *)
(* by two workers.                                                            *)
EXTENDS SamplerLists, TLC

\* Players, workers and samplers are interchangeable.
Symmetry == Permutations(Players) \union Permutations(Workers) \union Permutations(Pool)

\* Nothing is promised of the lists after the ABA problem: every state in which it has
\* just been met is checked, and not followed.
BeforeAba == ~aba
=============================================================================
