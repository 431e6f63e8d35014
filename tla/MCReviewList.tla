----------------------------- MODULE MCReviewList -----------------------------
(***************************************************************************)
(* ReviewList on small instances.  Words are interchangeable.              *)
(***************************************************************************)
EXTENDS ReviewList, TLC

CONSTANTS r1, w1, w2

ListSymmetry == Permutations(WordIds)
=============================================================================
