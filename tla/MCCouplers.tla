------------------------------ MODULE MCCouplers ------------------------------
(* A manual of three keys, the outer two in the player's reach, and one of two   *)
(* that is only played through couplers.  The first is coupled to the second by a *)
(* normal and a bass coupler, in one row with a "Couple Through" button; the      *)
(* second leads back to the first, one key up, through a coupler that triggers    *)
(* further ones, so that keys go in a circle.  The first can be switched unison   *)
(* off, in the row of its couplers to itself.  A stop on each manual, both on the *)
(* same rank; a bell.                                                             *)
EXTENDS Couplers

CONSTANTS toSecond, bass, toFirst, unison, stop1, stop2, bell, rank, bellRank

MCNKeys      == <<3, 2>>
MCFirstNote  == <<36, 36>>
MCPlayable   == <<{0, 2}, {}>>
MCStopsOf    == <<<<stop1, bell>>, <<stop2>>>>
MCCouplersOf == <<<<toSecond, bass, unison>>, <<toFirst>>>>
MCDest       == [c \in Couplers |-> IF c = toFirst THEN 1 ELSE IF c = unison THEN 1 ELSE 2]
MCKind       == [c \in Couplers |-> CASE c = bass -> "bass" [] c = unison -> "unisonoff"
                                      [] OTHER -> "normal"]
MCKeyshift   == [c \in Couplers |-> IF c = toFirst THEN 1 ELSE 0]
MCFirst      == [c \in Couplers |-> 0]
MCCount      == [c \in Couplers |-> 127]
MCFlags      == [c \in Couplers |-> IF c = toFirst THEN Flag ELSE {}]
MCThrough    == <<<<toSecond, bass>>, <<unison>>>>

\* The way back leads one key down, so that a pressed key is always a lower one.
MCKeysToGoDown == <<3, 3>>
MCKeyshiftDown == [c \in Couplers |-> IF c = toFirst THEN -1 ELSE 0]

MCFirstKey   == [s \in Stops |-> 1]
MCNKeysOf    == [s \in Stops |-> IF s = bell THEN 1 ELSE 2]
MCRankInfo   == [s \in Stops |-> <<[rank |-> IF s = bell THEN bellRank ELSE rank, firstKey |-> 1,
                                   firstPipe |-> 1, count |-> MCNKeysOf[s]]>>]
MCNPipes     == [r \in Ranks |-> IF r = bellRank THEN 1 ELSE 2]
===============================================================================
