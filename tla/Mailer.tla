-------------------------------- MODULE Mailer --------------------------------
(***************************************************************************)
(* What the services may expect of a call of Mailer.Send, whichever mailer *)
(* is configured: it takes as long as it likes, copies of the message may  *)
(* leave all the while, none is called back, and in one step it returns an *)
(* error or none.  The error and the copies have nothing to do with each   *)
(* other.  Nothing is sent before the call or after its return, and the    *)
(* caller does not go on without the result.                               *)
(***************************************************************************)
EXTENDS Naturals

CONSTANTS Senders, MaxCopies

VARIABLES
    send,   \* by sender: "none", "sending", "ok" or "failed"
    copies  \* by sender: the copies on their way

mailer == <<send, copies>>

Init ==
    /\ send = [s \in Senders |-> "none"]
    /\ copies = [s \in Senders |-> 0]

Call(s) ==
    /\ send[s] = "none"
    /\ send' = [send EXCEPT ![s] = "sending"]
    /\ UNCHANGED copies

\* Copies leave while the caller waits, with no result in sight.
Transmit(s) ==
    /\ send[s] = "sending"
    /\ \E n \in copies[s]..MaxCopies : copies' = [copies EXCEPT ![s] = n]
    /\ UNCHANGED send

Return(s) ==
    /\ send[s] = "sending"
    /\ \E result \in {"ok", "failed"}, n \in copies[s]..MaxCopies :
          /\ send' = [send EXCEPT ![s] = result]
          /\ copies' = [copies EXCEPT ![s] = n]

\* The caller has used the result; its next call is another story.
Forget(s) ==
    /\ send[s] \in {"ok", "failed"}
    /\ send' = [send EXCEPT ![s] = "none"]
    /\ copies' = [copies EXCEPT ![s] = 0]

Next == \E s \in Senders : Call(s) \/ Transmit(s) \/ Return(s) \/ Forget(s)

Spec == Init /\ [][Next]_mailer
=============================================================================
