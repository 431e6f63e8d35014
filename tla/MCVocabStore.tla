----------------------------- MODULE MCVocabStore -----------------------------
(***************************************************************************)
(* VocabStore on small instances.  Where every connection has the same     *)
(* role they are interchangeable, and so are the ids, terms and            *)
(* definitions: no definition singles one out.                             *)
(***************************************************************************)
EXTENDS VocabStore, TLC

CONSTANTS r1, r2, r3, w1, w2, t1, t2, d1, d2

WordSymmetry == Permutations(WordIds) \cup Permutations(Terms)
                \cup Permutations(Defs)

Symmetry == Permutations(Reqs) \cup WordSymmetry
=============================================================================
