------------------------------- MODULE Mailers --------------------------------
(***************************************************************************)
(* The three mailers of internal/service/mailer.go and mailer_ses.go.      *)
(* Which one is used is decided at start.  The steps that need the mail    *)
(* server may never be taken: no mailer sets a deadline, and none looks at *)
(* the context of the request.                                             *)
(***************************************************************************)
EXTENDS Naturals

CONSTANTS
    Reqs,        \* the requests that may send a message
    MaxAttempts  \* how often the AWS SDK tries one SendEmail

ASSUME MailersAssumption == MaxAttempts \in Nat \ {0}

Kinds == {"log", "smtp", "ses"}

\* Where a call of Send may be.
Sending == {"log", "dialogue", "endOfData", "sendEmail"}

VARIABLES
    kind,   \* the mailer in use, "none" before it is chosen
    send,   \* by request: "none", where Send is, or "ok" or "failed"
    copies  \* by request: copies of its message that were taken for delivery

mailVars == <<kind, send, copies>>

MailInit ==
    /\ kind = "none"
    /\ send = [r \in Reqs |-> "none"]
    /\ copies = [r \in Reqs |-> 0]

At(r, step) == send' = [send EXCEPT ![r] = step]

-----------------------------------------------------------------------------
\* An unknown type is a LogMailer.
NewMailer == kind = "none" /\ kind' \in Kinds /\ UNCHANGED <<send, copies>>

Send(r) ==
    /\ send[r] = "none"
    /\ At(r, CASE kind = "log" -> "log"
               [] kind = "smtp" -> "dialogue"
               [] kind = "ses" -> "sendEmail")
    /\ UNCHANGED <<kind, copies>>

\* LogMailer: the message goes to the log and nowhere else.
LogMessage(r) ==
    /\ send[r] = "log"
    /\ At(r, "ok")
    /\ UNCHANGED <<kind, copies>>

\* Connect, MAIL FROM, RCPT TO and DATA, and the body, which goes to a buffer:
\* any of them may be refused, or lose the connection, over which the deferred
\* Close cannot end the message any more.
Dialogue(r) ==
    /\ send[r] = "dialogue"
    /\ At(r, "endOfData") \/ At(r, "failed")
    /\ UNCHANGED <<kind, copies>>

\* Mutant: the message is ended behind the caller's back.
EndDataLater(r) ==
    /\ send[r] \in {"endOfData", "ok"} /\ kind = "smtp"
    /\ IF send[r] = "endOfData"
       THEN At(r, "ok") /\ UNCHANGED copies
       ELSE copies[r] = 0 /\ copies' = [copies EXCEPT ![r] = 1] /\ UNCHANGED send
    /\ UNCHANGED kind

\* Mutant: the answer to the body decides.
EndDataChecked(r) ==
    /\ send[r] = "endOfData"
    /\ \E n \in {0, 1} : copies' = [copies EXCEPT ![r] = n]
    /\ At(r, "ok") \/ At(r, "failed")
    /\ UNCHANGED kind

\* The deferred Close flushes the buffer and ends the message.  Its error, that
\* is the server's answer to the whole message, is dropped.
EndData(r) ==
    /\ send[r] = "endOfData"
    /\ \E n \in {0, 1} : copies' = [copies EXCEPT ![r] = n]
    /\ At(r, "ok")
    /\ UNCHANGED kind

\* Mutant: the attempts are counted on top of the first one.
TryOnceMore(r) ==
    /\ send[r] = "sendEmail" /\ copies[r] < MaxAttempts
    /\ copies' = [copies EXCEPT ![r] = @ + 1]
    /\ UNCHANGED <<kind, send>>

\* The SDK tries again after a failure, although the message was taken and only
\* the answer got lost.  (A try that leaves nothing behind changes nothing.)
TryAgain(r) ==
    /\ send[r] = "sendEmail" /\ copies[r] + 1 < MaxAttempts
    /\ copies' = [copies EXCEPT ![r] = @ + 1]
    /\ UNCHANGED <<kind, send>>

\* SESMailer: the last try, whose result is the one that Send returns.
SendEmail(r) ==
    /\ send[r] = "sendEmail"
    /\ \/ At(r, "ok") /\ copies' = [copies EXCEPT ![r] = @ + 1]
       \/ At(r, "failed") /\ copies' \in {copies, [copies EXCEPT ![r] = @ + 1]}
    /\ UNCHANGED kind

\* The caller has used the result.
Forget(r) ==
    /\ At(r, "none")
    /\ copies' = [copies EXCEPT ![r] = 0]
    /\ UNCHANGED kind

MailServer(r) == Dialogue(r) \/ EndData(r) \/ TryAgain(r) \/ SendEmail(r)

-----------------------------------------------------------------------------
(* When Send over SMTP returns an error, no copy is on its way: whatever   *)
(* step of the dialogue failed and wherever the connection broke, a client *)
(* that is told "could not send" will not find the message later.          *)
SmtpFailureDeliversNothing ==
    \A r \in Reqs : kind = "smtp" /\ send[r] = "failed" => copies[r] = 0

(* Seen by the services, each call of Send returns once, with one result,  *)
(* after which nothing more is sent.                                       *)
Promise == INSTANCE Mailer WITH
    Senders <- Reqs,
    MaxCopies <- MaxAttempts,
    send <- [r \in Reqs |-> IF send[r] \in Sending THEN "sending" ELSE send[r]]

ImplementsMailer == Promise!Spec
=============================================================================
