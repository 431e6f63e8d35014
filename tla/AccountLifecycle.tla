--------------------------- MODULE AccountLifecycle ---------------------------
(***************************************************************************)
(* What the account service promises about the account of one address:     *)
(* somebody signs up with a password, and activates the account later, or  *)
(* signs up with Google, and has an active one at once.  An account is     *)
(* never taken back.  It may be linked to Google once, and a password can  *)
(* be changed but neither gained nor lost.                                 *)
(***************************************************************************)
CONSTANTS Passwords, Absent

VARIABLES status, password, linked

account == <<status, password, linked>>

SignUp(p) ==
    /\ status = "none"
    /\ status' = "inactive" /\ password' = p
    /\ UNCHANGED linked

SignUpWithGoogle ==
    /\ status = "none"
    /\ status' = "active" /\ linked' = TRUE
    /\ UNCHANGED password

Activate ==
    /\ status = "inactive"
    /\ status' = "active"
    /\ UNCHANGED <<password, linked>>

Link ==
    /\ status # "none" /\ ~linked
    /\ linked' = TRUE
    /\ UNCHANGED <<status, password>>

ChangePassword(p) ==
    /\ password # Absent
    /\ password' = p
    /\ UNCHANGED <<status, linked>>

Init == status = "none" /\ password = Absent /\ linked = FALSE

Next == \/ \E p \in Passwords : SignUp(p) \/ ChangePassword(p)
        \/ SignUpWithGoogle \/ Activate \/ Link

Spec == Init /\ [][Next]_account
=============================================================================
