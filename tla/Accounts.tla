------------------------------- MODULE Accounts -------------------------------
(***************************************************************************)
(* The account behind one e-mail address: its row of tenants, its local    *)
(* and Google identities, its verification and password-reset tokens, and  *)
(* the requests of internal/service/auth_service.go that work on them.     *)
(* Addresses do not interact: every row is found by the address, by the    *)
(* tenant found by it, or by a token issued to it.                         *)
(*                                                                         *)
(* As in VocabStore, a step is one SQL statement at READ COMMITTED, or one *)
(* call of the mailer, with the Go code up to the next.  Time is not       *)
(* counted: a token that has been saved expires at some later moment.      *)
(***************************************************************************)
EXTENDS Naturals, FiniteSets

CONSTANTS
    Reqs,       \* connections, each serving one request after another
    Ops,        \* the operations a run allows, a subset of Operations
    VTokens,    \* the verification tokens that may be generated
    RTokens,    \* the password-reset tokens that may be generated
    Passwords,
    Faults,     \* the failures a run allows, a subset of FaultKinds
    None

Operations ==
    {"register", "verify", "login", "google", "me", "forgot", "reset"}

\* mail: Send fails, or reports a success or a failure that is not one.
FaultKinds == {"error", "unacked", "crash", "mail", "expiry"}

Tokens == VTokens \cup RTokens

ASSUME AccountsAssumption ==
    /\ Ops \subseteq Operations
    /\ Faults \subseteq FaultKinds
    /\ VTokens \cap RTokens = {}

Request == [op: Operations, token: Tokens \cup {None},
            password: Passwords \cup {None}]

ASSUME SentinelAssumption ==
    /\ None \notin Passwords \cup Tokens \cup Request
    /\ None \notin {"inactive", "active", "insert", "delete"}

Statements == {"findTenant", "insertTenant", "insertIdentity", "insertToken",
               "sendMail", "findToken", "dropExpired", "activate",
               "setPassword", "deleteToken", "findIdentity", "readTenant",
               "mailOnly", "commit"}

Answers == {"none", "lost", "200", "400", "403", "404", "409", "500"}

VARIABLES
    tenant,    \* "none", "inactive" or "active": the row of tenants
    local,     \* the password of the local identity, None without one
    google,    \* there is a Google identity
    tok,       \* by token: "none" (no row), "valid" or "expired"
    accepted,  \* the tokens whose message the mailer took without an error
    inbox,     \* the tokens whose message reached the owner of the address
    session,   \* the client holds a JWT that has not expired
    pc, req, resp,
    tput,      \* uncommitted state of the tenants row, or None
    lput,      \* uncommitted password of the local identity, or None
    gput,      \* an uncommitted Google identity
    kput       \* "insert" or "delete": uncommitted write of req[r].token

db == <<tenant, local, google, tok>>
outside == <<accepted, inbox, session>>
txVars == <<tput, lput, gput, kput>>
vars == <<db, outside, pc, req, resp, txVars>>

Init ==
    /\ tenant = "none" /\ local = None /\ google = FALSE
    /\ tok = [t \in Tokens |-> "none"]
    /\ accepted = {} /\ inbox = {} /\ session = FALSE
    /\ pc = [r \in Reqs |-> "idle"]
    /\ req = [r \in Reqs |-> None]
    /\ resp = [r \in Reqs |-> "none"]
    /\ tput = [r \in Reqs |-> None]
    /\ lput = [r \in Reqs |-> None]
    /\ gput = [r \in Reqs |-> FALSE]
    /\ kput = [r \in Reqs |-> None]

-----------------------------------------------------------------------------
(***************************************************************************)
(* Row locks and unique indexes: a write waits for another transaction's   *)
(* uncommitted write of the same row or of the same unique key.            *)
(***************************************************************************)
TenantFree(r) == \A o \in Reqs : o # r => tput[o] = None
LocalFree(r) == \A o \in Reqs : o # r => lput[o] = None
GoogleFree(r) == \A o \in Reqs : o # r => ~gput[o]
TokenFree(r) ==
    \A o \in Reqs : o # r /\ kput[o] # None => req[o].token # req[r].token

Goto(r, statement) == pc' = [pc EXCEPT ![r] = statement]

\* generateAppJWT: the server keeps nothing of the token it signs.
IssuesSession(r) == req[r].op \in {"login", "google"}

Finish(r, answer) ==
    /\ Goto(r, "idle")
    /\ resp' = [resp EXCEPT ![r] = answer]
    /\ tput' = [tput EXCEPT ![r] = None]
    /\ lput' = [lput EXCEPT ![r] = None]
    /\ gput' = [gput EXCEPT ![r] = FALSE]
    /\ kput' = [kput EXCEPT ![r] = None]
    /\ session' = (session \/ (answer = "200" /\ IssuesSession(r)))
    /\ UNCHANGED <<accepted, inbox, req>>

Rollback(r, answer) == Finish(r, answer) /\ UNCHANGED db

CommitTx(r, answer) ==
    /\ tenant' = IF tput[r] = None THEN tenant ELSE tput[r]
    /\ local' = IF lput[r] = None THEN local ELSE lput[r]
    /\ google' = (google \/ gput[r])
    /\ tok' = IF kput[r] = None THEN tok
              ELSE [tok EXCEPT ![req[r].token] =
                                  IF kput[r] = "insert" THEN "valid" ELSE "none"]
    /\ Finish(r, answer)

-----------------------------------------------------------------------------
(***************************************************************************)
(* Requests.  A token in a request is one that reached the owner.  The     *)
(* random token a request will generate is drawn here.                     *)
(***************************************************************************)
Receive(r, request, statement) ==
    /\ pc[r] = "idle"
    /\ request.op \in Ops
    /\ req' = [req EXCEPT ![r] = request]
    /\ resp' = [resp EXCEPT ![r] = "none"]
    /\ Goto(r, statement)
    /\ UNCHANGED <<db, outside, txVars>>

Fresh(r, kind) ==
    {t \in kind :
        /\ tok[t] = "none" /\ t \notin accepted \cup inbox
        /\ \A o \in Reqs \ {r} :
              pc[o] # "idle" \/ resp[o] = "200" => req[o].token # t}

ReceiveRegister(r) ==
    \E t \in Fresh(r, VTokens), p \in Passwords :
        Receive(r, [op |-> "register", token |-> t, password |-> p],
                "findTenant")

ReceiveVerify(r) ==
    \E t \in VTokens \cap inbox :
        Receive(r, [op |-> "verify", token |-> t, password |-> None],
                "findToken")

ReceiveLogin(r) ==
    \E p \in Passwords :
        Receive(r, [op |-> "login", token |-> None, password |-> p],
                "findIdentity")

ReceiveGoogle(r) ==
    Receive(r, [op |-> "google", token |-> None, password |-> None],
            "findIdentity")

\* JWTAuthMiddleware lets a valid token through, and answers 403 by itself.
ReceiveMe(r) ==
    LET request == [op |-> "me", token |-> None, password |-> None] IN
    IF session THEN Receive(r, request, "readTenant")
    ELSE /\ pc[r] = "idle" /\ "me" \in Ops
         /\ req' = [req EXCEPT ![r] = request]
         /\ resp' = [resp EXCEPT ![r] = "403"]
         /\ UNCHANGED <<db, outside, pc, txVars>>

ReceiveForgot(r) ==
    \E t \in Fresh(r, RTokens) :
        Receive(r, [op |-> "forgot", token |-> t, password |-> None],
                "findIdentity")

ReceiveReset(r) ==
    \E t \in RTokens \cap inbox, p \in Passwords :
        Receive(r, [op |-> "reset", token |-> t, password |-> p], "findToken")

-----------------------------------------------------------------------------
(***************************************************************************)
(* RegisterTenant, and the second half of HandleGoogleLogin.               *)
(***************************************************************************)
\* A taken address is a conflict for a registration; Google links to it.
FindTenant(r) ==
    /\ pc[r] = "findTenant"
    /\ IF tenant # "none" /\ req[r].op = "register"
       THEN Rollback(r, "409")
       ELSE /\ Goto(r, IF tenant = "none" THEN "insertTenant"
                                          ELSE "insertIdentity")
            /\ UNCHANGED <<db, outside, req, resp, txVars>>

\* Mutant: the new row is not part of the transaction.
InsertTenantAutocommit(r) ==
    /\ pc[r] = "insertTenant"
    /\ TenantFree(r)
    /\ IF tenant # "none"
       THEN Rollback(r, "409")
       ELSE /\ tenant' = IF req[r].op = "google" THEN "active" ELSE "inactive"
            /\ Goto(r, "insertIdentity")
            /\ UNCHANGED <<local, google, tok, outside, req, resp, txVars>>

\* Mutant: any error of the insert is answered as a conflict.
InsertTenantConflict(r) ==
    /\ pc[r] = "insertTenant"
    /\ IF ~TenantFree(r) \/ tenant # "none"
       THEN Rollback(r, "409")
       ELSE /\ tput' = [tput EXCEPT ![r] = IF req[r].op = "google"
                                           THEN "active" ELSE "inactive"]
            /\ Goto(r, "insertIdentity")
            /\ UNCHANGED <<db, outside, req, resp, lput, gput, kput>>

\* Mutant: without the unique index, the row is inserted over the old one.
InsertTenantUpsert(r) ==
    /\ pc[r] = "insertTenant"
    /\ TenantFree(r)
    /\ tput' = [tput EXCEPT ![r] = IF req[r].op = "google"
                                   THEN "active" ELSE "inactive"]
    /\ Goto(r, "insertIdentity")
    /\ UNCHANGED <<db, outside, req, resp, lput, gput, kput>>

InsertTenant(r) ==
    /\ pc[r] = "insertTenant"
    /\ TenantFree(r)
    /\ IF tenant # "none"
       THEN Rollback(r, "409")
       ELSE /\ tput' = [tput EXCEPT ![r] = IF req[r].op = "google"
                                           THEN "active" ELSE "inactive"]
            /\ Goto(r, "insertIdentity")
            /\ UNCHANGED <<db, outside, req, resp, lput, gput, kput>>

\* The local identity of a tenant row just inserted cannot exist yet.
InsertLocalIdentity(r) ==
    /\ pc[r] = "insertIdentity" /\ req[r].op = "register"
    /\ LocalFree(r)
    /\ lput' = [lput EXCEPT ![r] = req[r].password]
    /\ Goto(r, "insertToken")
    /\ UNCHANGED <<db, outside, req, resp, tput, gput, kput>>

InsertGoogleIdentity(r) ==
    /\ pc[r] = "insertIdentity" /\ req[r].op = "google"
    /\ GoogleFree(r)
    /\ IF google
       THEN Rollback(r, "500")
       ELSE /\ gput' = [gput EXCEPT ![r] = TRUE]
            /\ Goto(r, "commit")
            /\ UNCHANGED <<db, outside, req, resp, tput, lput, kput>>

\* Mutant: the mail is left to a background job.
InsertVerificationTokenOnly(r) ==
    /\ pc[r] = "insertToken" /\ req[r].op = "register"
    /\ kput' = [kput EXCEPT ![r] = "insert"]
    /\ Goto(r, "commit")
    /\ UNCHANGED <<db, outside, req, resp, tput, lput, gput>>

InsertVerificationToken(r) ==
    /\ pc[r] = "insertToken" /\ req[r].op = "register"
    /\ kput' = [kput EXCEPT ![r] = "insert"]
    /\ Goto(r, "sendMail")
    /\ UNCHANGED <<db, outside, req, resp, tput, lput, gput>>

(***************************************************************************)
(* One call of the mailer (module Mailer).  Send returns an error or not,  *)
(* and the message arrives or not.  An error rolls a registration back;    *)
(* the token of a password reset has been saved for good by then.          *)
(***************************************************************************)
SendMail(r) ==
    /\ pc[r] \in {"sendMail", "mailOnly"}
    /\ \E sent, arrived \in BOOLEAN :
          /\ ~(sent /\ arrived) => "mail" \in Faults
          /\ accepted' = IF sent THEN accepted \cup {req[r].token} ELSE accepted
          /\ inbox' = IF arrived THEN inbox \cup {req[r].token} ELSE inbox
          /\ IF sent /\ pc[r] = "sendMail" /\ req[r].op = "register"
             THEN Goto(r, "commit") /\ UNCHANGED <<resp, txVars>>
             ELSE /\ Goto(r, "idle")
                  /\ resp' = [resp EXCEPT ![r] =
                                 IF sent /\ pc[r] = "sendMail"
                                 THEN "200" ELSE "500"]
                  /\ tput' = [tput EXCEPT ![r] = None]
                  /\ lput' = [lput EXCEPT ![r] = None]
                  /\ kput' = [kput EXCEPT ![r] = None]
                  /\ UNCHANGED gput
    /\ UNCHANGED <<db, session, req>>

\* Mutant: the transaction is not bound to the context of the request.
AbandonKeepsTransaction(r) ==
    /\ pc[r] = "sendMail" /\ req[r].op = "register"
    /\ Goto(r, "mailOnly")
    /\ UNCHANGED <<db, outside, req, resp, txVars>>

(***************************************************************************)
(* The context ends (the client has left, or sixty seconds are over) while *)
(* a registration waits for the mail server.  The mailer does not look at  *)
(* the context, but database/sql does: it rolls the transaction back.      *)
(***************************************************************************)
Abandon(r) ==
    /\ pc[r] = "sendMail" /\ req[r].op = "register"
    /\ Goto(r, "mailOnly")
    /\ tput' = [tput EXCEPT ![r] = None]
    /\ lput' = [lput EXCEPT ![r] = None]
    /\ kput' = [kput EXCEPT ![r] = None]
    /\ UNCHANGED <<db, outside, req, resp, gput>>

-----------------------------------------------------------------------------
(***************************************************************************)
(* VerifyAccount and ResetPassword.                                        *)
(***************************************************************************)
FindToken(r) ==
    /\ pc[r] = "findToken"
    /\ LET t == req[r].token IN
       IF tok[t] = "none" THEN Rollback(r, "400")
       ELSE /\ Goto(r, IF tok[t] = "expired" THEN "dropExpired"
                       ELSE IF req[r].op = "verify" THEN "activate"
                       ELSE "setPassword")
            /\ UNCHANGED <<db, outside, req, resp, txVars>>

\* The expired token is deleted, and the error returned next undoes that.
DropExpired(r) ==
    /\ pc[r] = "dropExpired"
    /\ TokenFree(r)
    /\ Rollback(r, "400")

Activate(r) ==
    /\ pc[r] = "activate"
    /\ IF tenant = "none"
       THEN Rollback(r, "404")
       ELSE /\ TenantFree(r)
            /\ tput' = [tput EXCEPT ![r] = "active"]
            /\ Goto(r, "deleteToken")
            /\ UNCHANGED <<db, outside, req, resp, lput, gput, kput>>

SetPassword(r) ==
    /\ pc[r] = "setPassword"
    /\ IF local = None
       THEN Rollback(r, "404")
       ELSE /\ LocalFree(r)
            /\ lput' = [lput EXCEPT ![r] = req[r].password]
            /\ Goto(r, "deleteToken")
            /\ UNCHANGED <<db, outside, req, resp, tput, gput, kput>>

\* Mutant: the token is deleted outside the transaction.
DeleteTokenAutocommit(r) ==
    /\ pc[r] = "deleteToken"
    /\ TokenFree(r)
    /\ tok' = [tok EXCEPT ![req[r].token] = "none"]
    /\ Goto(r, "commit")
    /\ UNCHANGED <<tenant, local, google, outside, req, resp, txVars>>

DeleteToken(r) ==
    /\ pc[r] = "deleteToken"
    /\ TokenFree(r)
    /\ kput' = IF tok[req[r].token] = "none" THEN kput
               ELSE [kput EXCEPT ![r] = "delete"]
    /\ Goto(r, "commit")
    /\ UNCHANGED <<db, outside, req, resp, tput, lput, gput>>

\* Mutant: the transaction's own error is ignored as well.
DeleteTokenFailsQuietly(r) ==
    /\ "error" \in Faults
    /\ pc[r] = "deleteToken"
    /\ Rollback(r, "200")

\* The service ignores the error and goes on to commit, but the transaction is
\* aborted: PostgreSQL rolls it back and the driver reports an error.
DeleteTokenFails(r) ==
    /\ "error" \in Faults
    /\ pc[r] = "deleteToken"
    /\ Rollback(r, "500")

-----------------------------------------------------------------------------
(***************************************************************************)
(* Login, the first half of HandleGoogleLogin, and RequestPasswordReset.   *)
(* Their statements are not in a transaction.                              *)
(***************************************************************************)
FindIdentity(r) ==
    /\ pc[r] = "findIdentity"
    /\ CASE req[r].op = "login" ->
              IF local # None /\ local = req[r].password
              THEN Goto(r, "readTenant") /\ UNCHANGED <<db, outside, req, resp, txVars>>
              ELSE Rollback(r, "400")
         [] req[r].op = "google" ->
              /\ Goto(r, IF google THEN "readTenant" ELSE "findTenant")
              /\ UNCHANGED <<db, outside, req, resp, txVars>>
         [] req[r].op = "forgot" ->
              IF local # None
              THEN Goto(r, "insertToken") /\ UNCHANGED <<db, outside, req, resp, txVars>>
              ELSE Rollback(r, "200")

\* The end of Login and HandleGoogleLogin, and GetTenant.  Only a password
\* login asks whether the account is active.
ReadTenant(r) ==
    /\ pc[r] = "readTenant"
    /\ Rollback(r, IF tenant = "none"
                   THEN IF req[r].op = "me" THEN "404" ELSE "500"
                   ELSE IF tenant = "active" \/ req[r].op # "login"
                   THEN "200" ELSE "403")

\* Mutant: the token is saved in a transaction that nobody commits.
SaveResetTokenUncommitted(r) ==
    /\ pc[r] = "insertToken" /\ req[r].op = "forgot"
    /\ kput' = [kput EXCEPT ![r] = "insert"]
    /\ Goto(r, "sendMail")
    /\ UNCHANGED <<db, outside, req, resp, tput, lput, gput>>

SaveResetToken(r) ==
    /\ pc[r] = "insertToken" /\ req[r].op = "forgot"
    /\ tok' = [tok EXCEPT ![req[r].token] = "valid"]
    /\ Goto(r, "sendMail")
    /\ UNCHANGED <<tenant, local, google, outside, req, resp, txVars>>

\* The token is saved, but the acknowledgement is lost: no mail is sent.
SaveResetTokenUnacked(r) ==
    /\ "unacked" \in Faults
    /\ pc[r] = "insertToken" /\ req[r].op = "forgot"
    /\ tok' = [tok EXCEPT ![req[r].token] = "valid"]
    /\ \E answer \in {"500", "lost"} : Finish(r, answer)
    /\ UNCHANGED <<tenant, local, google>>

-----------------------------------------------------------------------------
Commit(r) == pc[r] = "commit" /\ CommitTx(r, "200")

\* The commit took effect but its acknowledgement, or the answer, was lost.
CommitUnacked(r) ==
    /\ "unacked" \in Faults
    /\ pc[r] = "commit"
    /\ \E answer \in {"500", "lost"} : CommitTx(r, answer)

\* Mutant: the error of a Google login's transaction is not looked at.
ErrorUnchecked(r) ==
    /\ "error" \in Faults
    /\ pc[r] \notin {"idle", "sendMail", "mailOnly", "deleteToken"}
    /\ Rollback(r, IF \/ pc[r] = "dropExpired"
                      \/ pc[r] = "findToken" /\ req[r].op = "reset"
                   THEN "400"
                   ELSE IF pc[r] = "commit" /\ req[r].op = "google"
                   THEN "200" ELSE "500")

\* A statement, or a call to Google, fails, or the request's context ends.
\* ResetPassword takes any error of its first query for an unknown token, and
\* the error of deleting an expired token is ignored.  (Failures of the mailer
\* and of deleteToken are actions of their own.)
Error(r) ==
    /\ "error" \in Faults
    /\ pc[r] \notin {"idle", "sendMail", "mailOnly", "deleteToken"}
    /\ Rollback(r, IF \/ pc[r] = "dropExpired"
                      \/ pc[r] = "findToken" /\ req[r].op = "reset"
                   THEN "400" ELSE "500")

Crash ==
    /\ "crash" \in Faults
    /\ \E r \in Reqs : pc[r] # "idle"
    /\ pc' = [r \in Reqs |-> "idle"]
    /\ resp' = [r \in Reqs |-> IF pc[r] = "idle" THEN resp[r] ELSE "lost"]
    /\ tput' = [r \in Reqs |-> None]
    /\ lput' = [r \in Reqs |-> None]
    /\ gput' = [r \in Reqs |-> FALSE]
    /\ kput' = [r \in Reqs |-> None]
    /\ UNCHANGED <<db, outside, req>>

ExpireSession ==
    /\ "expiry" \in Faults
    /\ session
    /\ session' = FALSE
    /\ UNCHANGED <<db, accepted, inbox, pc, req, resp, txVars>>

Expire(t) ==
    /\ "expiry" \in Faults
    /\ tok[t] = "valid"
    /\ tok' = [tok EXCEPT ![t] = "expired"]
    /\ UNCHANGED <<tenant, local, google, outside, pc, req, resp, txVars>>

Arrive(r) == ReceiveRegister(r) \/ ReceiveVerify(r) \/ ReceiveLogin(r)
             \/ ReceiveGoogle(r) \/ ReceiveMe(r) \/ ReceiveForgot(r)
             \/ ReceiveReset(r)

Statement(r) ==
    FindTenant(r) \/ InsertTenant(r) \/ InsertLocalIdentity(r)
    \/ InsertGoogleIdentity(r) \/ InsertVerificationToken(r) \/ FindToken(r)
    \/ DropExpired(r) \/ Activate(r) \/ SetPassword(r) \/ DeleteToken(r)
    \/ FindIdentity(r) \/ ReadTenant(r) \/ SaveResetToken(r) \/ Commit(r)

Next == \/ \E r \in Reqs : \/ Arrive(r) \/ Statement(r) \/ SendMail(r)
                           \/ Abandon(r) \/ DeleteTokenFails(r)
                           \/ CommitUnacked(r) \/ SaveResetTokenUnacked(r)
                           \/ Error(r)
        \/ \E t \in Tokens : Expire(t)
        \/ ExpireSession
        \/ Crash

Spec == Init /\ [][Next]_vars

(***************************************************************************)
(* Fairness.  As in VocabStore a request is served without being asked     *)
(* again, and waits in line for a row lock.  The middleware ends the       *)
(* context of every request after a while.  A mail server may hang for     *)
(* ever: SmtpMailer and SESMailer set no deadline.                         *)
(***************************************************************************)
Fairness == \A r \in Reqs : SF_vars(Statement(r)) /\ WF_vars(Abandon(r))

FairSpec == Spec /\ Fairness

-----------------------------------------------------------------------------
TypeOK ==
    /\ tenant \in {"none", "inactive", "active"}
    /\ local \in Passwords \cup {None}
    /\ google \in BOOLEAN
    /\ tok \in [Tokens -> {"none", "valid", "expired"}]
    /\ accepted \subseteq Tokens /\ inbox \subseteq Tokens
    /\ session \in BOOLEAN
    /\ pc \in [Reqs -> Statements \cup {"idle"}]
    /\ req \in [Reqs -> Request \cup {None}]
    /\ resp \in [Reqs -> Answers]
    /\ tput \in [Reqs -> {"inactive", "active", None}]
    /\ lput \in [Reqs -> Passwords \cup {None}]
    /\ gput \in [Reqs -> BOOLEAN]
    /\ kput \in [Reqs -> {"insert", "delete", None}]

(* A registration is whole or absent: an account has an identity to log in *)
(* with and an identity has its account, whatever fails in between or runs *)
(* at the same time.                                                       *)
AccountHasIdentity == tenant # "none" <=> local # None \/ google

(* An account that is not active has one verification token, and the       *)
(* mailer took the message with it.                                        *)
InactiveWasMailed ==
    tenant = "inactive" =>
        \E t \in VTokens \cap accepted :
            tok[t] # "none" /\ \A u \in VTokens \ {t} : tok[u] = "none"

(* An answer of success is true, for good, of both tables it is about: a   *)
(* verification activated the account and spent its token, a reset spent   *)
(* its token, a registration mailed a token that has not been lost, and no *)
(* "mail sent" leaves a saved reset token that the mailer did not take.    *)
AnswersAreTrue ==
    \A r \in Reqs : pc[r] = "idle" /\ resp[r] = "200" =>
        CASE req[r].op = "register" ->
                /\ req[r].token \in accepted
                /\ tenant = "active" \/ tok[req[r].token] # "none"
          [] req[r].op = "verify" ->
                tenant = "active" /\ tok[req[r].token] = "none"
          [] req[r].op = "reset" ->
                local # None /\ tok[req[r].token] = "none"
          [] req[r].op = "login" -> tenant = "active" /\ local # None
          [] req[r].op = "google" -> google
          [] req[r].op = "forgot" ->
                tok[req[r].token] # "none" => req[r].token \in accepted
          [] OTHER -> TRUE

(* A registration answers 409 only when the account exists: not because of *)
(* another registration that is rolled back in the end.                    *)
ConflictMeansAccountExists ==
    \A r \in Reqs : resp[r] = "409" => tenant # "none"

(* Whoever holds a session token has an account: tokens are only signed    *)
(* for what is committed, so that GetMe never answers "not found"; nor     *)
(* does a verification or a reset, whose link is only valid with a row.    *)
SessionFindsAccount ==
    /\ session => tenant # "none"
    /\ \A r \in Reqs : resp[r] # "404"

(* A token that has not expired disappears only in the step in which it    *)
(* does what it is for, so that a request that fails half-way can be       *)
(* repeated with the same link.                                            *)
TokenSpentWithEffect ==
    [][\A t \in Tokens :
          tok[t] = "valid" /\ tok'[t] = "none" =>
             \E r \in Reqs :
                /\ pc[r] = "commit" /\ req[r].token = t
                /\ req[r].op = "verify" => tenant' = "active"
                /\ req[r].op = "reset" => local' = req[r].password]_vars

(* A password-reset link that reaches the owner can be found in the table. *)
MailedResetTokenIsSaved ==
    [][\A t \in RTokens : t \in inbox' \ inbox => tok'[t] # "none"]_vars

(* Seen from outside, each request is at most one indivisible step of the  *)
(* account: signed up, activated, linked, or given another password.       *)
Lifecycle == INSTANCE AccountLifecycle WITH
    Absent <- None, status <- tenant, password <- local, linked <- google

ImplementsAccount == Lifecycle!Spec

(* A mail server that hangs holds up only who waits for its answer.        *)
AtMailServer(r) ==
    \/ pc[r] = "mailOnly"
    \/ pc[r] = "sendMail" /\ req[r].op = "forgot"

(* Every request is eventually answered, although it may wait for the rows *)
(* that others have written and the mail server may never answer: whoever  *)
(* waits for the mail server holds no row for long, and waits alone.       *)
AnsweredOrMailing ==
    \A r \in Reqs : pc[r] # "idle" ~> pc[r] = "idle" \/ AtMailServer(r)

-----------------------------------------------------------------------------
(***************************************************************************)
(* What the repository's comments and messages promise and only holds      *)
(* while nothing races, or not at all: see the runs.                       *)
(***************************************************************************)
Answered(r, answer) == pc[r] # "idle" /\ pc'[r] = "idle" /\ resp'[r] = answer

(* A reset link works once: once a reset with it has been answered 200, no *)
(* other request changes the password with it ("already used").            *)
ResetTokenWorksOnce ==
    [][\A r, o \in Reqs :
          /\ r # o /\ Answered(r, "200") /\ req[r].op = "reset"
          /\ pc[o] = "idle" /\ resp[o] = "200" /\ req[o].op = "reset"
          => req[o].token # req[r].token]_vars

-----------------------------------------------------------------------------
(***************************************************************************)
(* The inductive invariant.                                                *)
(***************************************************************************)
\* Which operations have which statements.
StatementsOf ==
    [register |-> {"findTenant", "insertTenant", "insertIdentity",
                   "insertToken", "sendMail", "mailOnly", "commit"},
     google |-> {"findIdentity", "readTenant", "findTenant", "insertTenant",
                 "insertIdentity", "commit"},
     verify |-> {"findToken", "dropExpired", "activate", "deleteToken",
                 "commit"},
     reset |-> {"findToken", "dropExpired", "setPassword", "deleteToken",
                "commit"},
     login |-> {"findIdentity", "readTenant"},
     me |-> {"readTenant"},
     forgot |-> {"findIdentity", "insertToken", "sendMail"}]

\* What a request carries, and which writes it holds at which statement.
ScriptOf(r) ==
    /\ req[r] = None => pc[r] = "idle" /\ resp[r] = "none"
    /\ req[r] # None =>
          /\ req[r].op \in {"register", "verify"} => req[r].token \in VTokens
          /\ req[r].op \in {"forgot", "reset"} => req[r].token \in RTokens
          /\ req[r].op \in {"verify", "reset"} => req[r].token \in inbox
          /\ req[r].op \in {"register", "reset"} => req[r].password # None
    /\ pc[r] # "idle" => pc[r] \in StatementsOf[req[r].op]
    /\ tput[r] # None <=>
          \/ pc[r] \in {"insertIdentity", "insertToken", "sendMail", "commit"}
             /\ req[r].op = "register"
          \/ pc[r] \in {"deleteToken", "commit"} /\ req[r].op = "verify"
          \/ pc[r] \in {"insertIdentity", "commit"} /\ req[r].op = "google"
             /\ tenant = "none"
    /\ tput[r] # None => (tput[r] = "inactive" <=> req[r].op = "register")
    /\ lput[r] # None <=>
          \/ pc[r] \in {"insertToken", "sendMail", "commit"}
             /\ req[r].op = "register"
          \/ pc[r] \in {"deleteToken", "commit"} /\ req[r].op = "reset"
    /\ lput[r] # None => lput[r] = req[r].password
    /\ gput[r] <=> pc[r] = "commit" /\ req[r].op = "google"
    /\ kput[r] = "insert" <=>
          pc[r] \in {"sendMail", "commit"} /\ req[r].op = "register"
    /\ kput[r] = "delete" =>
          pc[r] = "commit" /\ req[r].op \in {"verify", "reset"}

Script == \A r \in Reqs : ScriptOf(r)

\* Row locks and unique indexes: one writer for each row.
OneWriterPerRow ==
    \A r, o \in Reqs : r # o =>
        /\ tput[r] = None \/ tput[o] = None
        /\ lput[r] = None \/ lput[o] = None
        /\ ~gput[r] \/ ~gput[o]
        /\ kput[r] # None /\ kput[o] # None => req[r].token # req[o].token

\* r has drawn a token of its own.
Drawing(r) == pc[r] # "idle" /\ req[r].op \in {"register", "forgot"}

\* r has seen the row of its token.
HasSeenToken(r) ==
    /\ req[r] # None
    /\ req[r].op \in {"verify", "reset"}
    /\ \/ pc[r] \notin {"idle", "findToken"}
       \/ pc[r] = "idle" /\ resp[r] = "200"

\* r was told that its mail is on the way, if there is anyone to mail to.
IsTold(r) ==
    pc[r] = "idle" /\ resp[r] = "200" /\ req[r].op = "forgot"

\* A token is drawn once, and nobody else knows it before its request
\* commits, or has sent it off.
DrawnTokens ==
    \A r \in Reqs : Drawing(r) =>
        /\ req[r].op = "register" \/ pc[r] # "sendMail" =>
              tok[req[r].token] = "none"
        /\ pc[r] # "commit" => req[r].token \notin accepted \cup inbox
        /\ \A o \in Reqs \ {r} :
              Drawing(o) \/ HasSeenToken(o) \/ IsTold(o) =>
                  req[o].token # req[r].token

\* What each kind of request knows about the rows it works on.
KnowledgeOf(r) ==
    /\ pc[r] # "idle" /\ req[r].op = "register" =>
          /\ tput[r] # None => tenant = "none"
          /\ pc[r] = "commit" => req[r].token \in accepted
    /\ pc[r] # "idle" /\ req[r].op = "google" =>
          /\ pc[r] = "readTenant" => google
          /\ gput[r] => ~google
    /\ pc[r] = "commit" /\ req[r].op \in {"verify", "reset"} =>
          (kput[r] = "delete" <=> tok[req[r].token] # "none")
    /\ HasSeenToken(r) =>
          /\ req[r].op = "verify" => tenant # "none"
          /\ req[r].op = "reset" => local # None
    /\ pc[r] \in {"readTenant", "insertToken", "sendMail"}
       /\ req[r].op \in {"login", "forgot"} => local # None
    /\ pc[r] = "readTenant" => tenant # "none"

Knowledge == \A r \in Reqs : KnowledgeOf(r)

\* A token row has the account it was made for.
TokensHaveAccount ==
    /\ \A t \in VTokens : tok[t] # "none" => tenant # "none"
    /\ \A t \in RTokens : tok[t] # "none" => local # None

IInv ==
    /\ TypeOK
    /\ Script
    /\ OneWriterPerRow
    /\ DrawnTokens
    /\ Knowledge
    /\ TokensHaveAccount
    /\ AccountHasIdentity
    /\ InactiveWasMailed
    /\ AnswersAreTrue
    /\ SessionFindsAccount

=============================================================================
