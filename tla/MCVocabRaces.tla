----------------------------- MODULE MCVocabRaces -----------------------------
(***************************************************************************)
(* VocabRaces on small instances, with the symmetries of MCVocabStore.     *)
(***************************************************************************)
EXTENDS VocabRaces, TLC

CONSTANTS r1, r2, r3, w1, w2, t1, t2, d1, d2

Symmetry == Permutations(Reqs) \cup Permutations(WordIds)
            \cup Permutations(Terms) \cup Permutations(Defs)
=============================================================================
