------------------------------- MODULE MCSetter -------------------------------
(* Two stops that the organist draws, the second one not stored without Full  *)
(* and engaged when the organ is loaded, and a switch that is on while they   *)
(* differ.  General cancel engages the second stop.  A general for which the  *)
(* organ lists the second stop only, two frames with a combination each, the  *)
(* second one protected, and a crescendo that adds first one stop, then the   *)
(* other, in a step that is protected.                                        *)
EXTENDS Setter

CONSTANTS principal, trumpet, both

MCFunction    == [d \in Drawstops |-> IF d = both THEN "xor" ELSE "input"]
MCControlling == [d \in Drawstops |-> IF d = both THEN <<principal, trumpet>> ELSE <<>>]
MCControlled  == [d \in Drawstops |-> IF d = both THEN <<>> ELSE <<both>>]
MCGCState     == [d \in Drawstops |-> IF d = trumpet THEN 1 ELSE 0]
MCInitEngaged == {trumpet}
MCStateNames  == Crescendos
MCOrder       == <<principal, trumpet, both>>

\* Stored with Full, and with Scope
FullWith(on)  == FillWithCurrent(NoCombination, "regular", TRUE, on)
ScopeWith(on) == FillWithCurrent(NoCombination, "scope", TRUE, on)

\* What is listed in the organ definition, and nothing else
Listed(on) == [NoCombination EXCEPT !.state = [e \in Elements |-> IF e \in on THEN "on" ELSE "keep"]]

MCGeneral   == [g \in Generals |-> Listed({trumpet})]
MCFrame     == [p \in Frames |-> IF p = 0 THEN FullWith({principal}) ELSE ScopeWith({trumpet})]
MCCrescendo == [i \in Steps |-> IF i = 0 THEN FullWith({trumpet})
                                 ELSE FullWith({principal, trumpet})]
MCOverride  == [b \in Crescendos |-> FALSE]
===============================================================================
