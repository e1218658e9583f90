--------------------------- MODULE MCSamplerPlayer ---------------------------
(* A pipe with a delay, a percussive one and a synthesized tremulant, with    *)
(* fewer samplers than they could use.                                        *)
EXTENDS SamplerPlayer

MCDelay == [n \in Notes |-> IF n \in Oneshots \union Tremulants THEN 0 ELSE 1]
==============================================================================
