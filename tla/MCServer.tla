------------------------------- MODULE MCServer -------------------------------
(***************************************************************************)
(* Server on a small instance.  It checks liveness, so without symmetry.   *)
(***************************************************************************)
EXTENDS Server

CONSTANTS r1, r2
=============================================================================
