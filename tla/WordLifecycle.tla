----------------------------- MODULE WordLifecycle -----------------------------
(***************************************************************************)
(* What the vocabulary promises, one word at a time: a word is learnt      *)
(* (added, at level 1), then edited and studied any number of times, each  *)
(* in one indivisible step, and at last retired for good.  An edit leaves  *)
(* the level alone and a study leaves the entry alone.                     *)
(***************************************************************************)
EXTENDS Naturals

CONSTANTS WordIds, Terms, Defs, Unused, Retired

VARIABLE entry  \* by word: Unused, Retired, or the word and its level

Entry == [term: Terms, def: Defs, level: 1..3]

Learning(w) == entry[w] \notin {Unused, Retired}

Learn(w) ==
    /\ entry[w] = Unused
    /\ \E t \in Terms, d \in Defs :
          entry' = [entry EXCEPT ![w] = [term |-> t, def |-> d, level |-> 1]]

Edit(w) ==
    /\ Learning(w)
    /\ \E t \in Terms, d \in Defs :
          entry' = [entry EXCEPT ![w] = [term |-> t, def |-> d,
                                         level |-> entry[w].level]]

Study(w) ==
    /\ Learning(w)
    /\ \E l \in 1..3 :
          entry' = [entry EXCEPT ![w] = [term |-> entry[w].term,
                                         def |-> entry[w].def, level |-> l]]

Retire(w) ==
    /\ Learning(w)
    /\ entry' = [entry EXCEPT ![w] = Retired]

Init == entry = [w \in WordIds |-> Unused]
Next == \E w \in WordIds : Learn(w) \/ Edit(w) \/ Study(w) \/ Retire(w)
Spec == Init /\ [][Next]_entry
=============================================================================
