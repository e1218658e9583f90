----------------------------- MODULE Combinations -----------------------------
(***************************************************************************)
(* GOCombination: what a combination stores of the drawstops, and how it   *)
(* is written to a combination file and read from it.  Pure operators.     *)
(***************************************************************************)

EXTENDS Sequences

CONSTANTS
  ElementOrder, \* r_ElementDefinitions: the drawstops that it can store
  Always        \* those stored also without "Full": store_unconditional

Elements == {ElementOrder[i] : i \in DOMAIN ElementOrder}

ASSUME CombinationsAssumption == ElementOrder \in Seq(Elements) /\ Always \subseteq Elements

SetterTypes == {"regular", "scope", "scoped"}

\* m_ElementStates (BOOL3_TRUE, BOOL3_FALSE, BOOL3_DEFAULT), m_IsFull, m_HasScope
Combination == [state : [Elements -> {"on", "off", "keep"}], full : BOOLEAN, scope : BOOLEAN]

\* Clear()
NoCombination == [state |-> [e \in Elements |-> "keep"], full |-> FALSE, scope |-> FALSE]

IsEmpty(c) == \A e \in Elements : c.state[e] = "keep"

\* What Push() and FillWithCurrent() return.
Used(c) == \E e \in Elements : c.state[e] = "on"

\* FillWithCurrent(): `on' are the drawstops that are engaged.
FillWithCurrent(c, type, invisible, on) ==
  LET Stores(e) == IF type = "scoped" THEN c.state[e] # "keep"
                   ELSE (invisible \/ e \in Always) /\ (type = "scope" => e \in on)
  IN  [state |-> [e \in Elements |->
                    IF ~Stores(e) THEN "keep" ELSE IF e \in on THEN "on" ELSE "off"],
       full |-> invisible, scope |-> type # "regular"]

\* What this program stores in a combination that is not copied: with a scope some
\* drawstops, without one those that are always stored or, with Full, all.
WellStored(c) ==
  c.scope \/ IsEmpty(c) \/ \A e \in Elements : c.state[e] # "keep" <=> c.full \/ e \in Always

\* Copy(): not m_IsFull and m_HasScope.
Copied(from, to) == [to EXCEPT !.state = from.state]

\* ToYaml() and PutToYamlMap(): an empty combination is not in the file.
ToYaml(c) ==
  IF IsEmpty(c) THEN [present |-> FALSE]
  ELSE [present |-> TRUE, full |-> c.full, scope |-> c.scope,
        on |-> {e \in Elements : c.state[e] = "on"},
        inScope |-> {e \in Elements : c.scope /\ c.state[e] # "keep"}]

\* The combinations of a file
CmbInFile == {[present |-> FALSE]} \union
  [present : {TRUE}, full : BOOLEAN, scope : BOOLEAN,
   on : SUBSET Elements, inScope : SUBSET Elements]

\* Faulty: what the file does not mention is left alone if it is not always stored.
FromYamlAlways(y) ==
  IF ~y.present THEN NoCombination
  ELSE [state |-> [e \in Elements |->
          IF e \in y.on THEN "on"
          ELSE IF IF y.scope THEN e \in y.inScope ELSE e \in Always THEN "off" ELSE "keep"],
        full |-> y.full, scope |-> y.scope]

\* FromYaml(): without a scope, what is not mentioned is switched off.
FromYaml(y) ==
  IF ~y.present THEN NoCombination
  ELSE [state |-> [e \in Elements |->
          IF e \in y.on THEN "on"
          ELSE IF IF y.scope THEN e \in y.inScope ELSE e \in Always \/ y.full THEN "off"
          ELSE "keep"],
        full |-> y.full, scope |-> y.scope]
==============================================================================
