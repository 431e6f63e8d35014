------------------------------ MODULE MCAccounts ------------------------------
(***************************************************************************)
(* Accounts on small instances.  Connections are interchangeable, and so   *)
(* are the tokens of one kind and the passwords.                           *)
(***************************************************************************)
EXTENDS Accounts, TLC

CONSTANTS r1, r2, r3, v1, v2, k1, k2, p1, p2

TokenSymmetry == Permutations(VTokens) \cup Permutations(RTokens)
                 \cup Permutations(Passwords)

AccountSymmetry == Permutations(Reqs) \cup TokenSymmetry
=============================================================================
