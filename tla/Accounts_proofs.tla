---------------------------- MODULE Accounts_proofs ----------------------------
(***************************************************************************)
(* Proofs about Accounts for any number of connections, tokens and         *)
(* passwords, any choice of the operations and any of the failures.        *)
(***************************************************************************)
EXTENDS Accounts, TLAPS

-----------------------------------------------------------------------------
(***************************************************************************)
(* Types.                                                                  *)
(***************************************************************************)
\* Every request that arrives is one the service knows.
LEMMA ReceiveType ==
    ASSUME TypeOK, NEW r \in Reqs, NEW request \in Request,
           NEW statement \in Statements, Receive(r, request, statement)
    PROVE  TypeOK'
  BY DEF TypeOK, Receive, Goto, Answers, db, outside, txVars

\* A request that ends keeps the types, whatever its tables become.
LEMMA FinishType ==
    ASSUME TypeOK, NEW r \in Reqs, NEW answer \in Answers, Finish(r, answer),
           tenant' \in {"none", "inactive", "active"},
           local' \in Passwords \cup {None}, google' \in BOOLEAN,
           tok' \in [Tokens -> {"none", "valid", "expired"}]
    PROVE  TypeOK'
  BY DEF TypeOK, Finish, Goto, IssuesSession

LEMMA RollbackType ==
    ASSUME TypeOK, NEW r \in Reqs, NEW answer \in Answers, Rollback(r, answer)
    PROVE  TypeOK'
  BY FinishType DEF TypeOK, Rollback, db

LEMMA CommitType ==
    ASSUME TypeOK, NEW r \in Reqs, NEW answer \in Answers, CommitTx(r, answer)
    PROVE  TypeOK'
<1>1. /\ tenant' \in {"none", "inactive", "active"}
      /\ local' \in Passwords \cup {None}
      /\ google' \in BOOLEAN
      /\ tok' \in [Tokens -> {"none", "valid", "expired"}]
  BY DEF TypeOK, CommitTx
<1>2. QED
  BY <1>1, FinishType DEF CommitTx

\* The operations that have a statement.
LEMMA AtStatement ==
    ASSUME TypeOK, NEW r \in Reqs, ScriptOf(r), pc[r] # "idle"
    PROVE  /\ req[r] \in Request /\ req[r] # None
           /\ req[r].op = "register" =>
                 pc[r] \in {"findTenant", "insertTenant", "insertIdentity",
                           "insertToken", "sendMail", "mailOnly", "commit"}
           /\ req[r].op = "google" =>
                 pc[r] \in {"findIdentity", "readTenant", "findTenant",
                           "insertTenant", "insertIdentity", "commit"}
           /\ req[r].op = "verify" =>
                 pc[r] \in {"findToken", "dropExpired", "activate",
                           "deleteToken", "commit"}
           /\ req[r].op = "reset" =>
                 pc[r] \in {"findToken", "dropExpired", "setPassword",
                           "deleteToken", "commit"}
           /\ req[r].op = "login" => pc[r] \in {"findIdentity", "readTenant"}
           /\ req[r].op = "me" => pc[r] = "readTenant"
           /\ req[r].op = "forgot" =>
                 pc[r] \in {"findIdentity", "insertToken", "sendMail"}
  BY DEF TypeOK, ScriptOf, StatementsOf

LEMMA TypeStep == TypeOK /\ Script /\ [Next]_vars => TypeOK'
<1> USE AccountsAssumption
<1> SUFFICES ASSUME TypeOK, Script, [Next]_vars PROVE TypeOK'
  OBVIOUS
<1>1. ASSUME NEW r \in Reqs, Arrive(r) PROVE TypeOK'
  <2>1. CASE ReceiveRegister(r)
    BY <2>1, ReceiveType
    DEF ReceiveRegister, Request, Operations, Statements, Fresh, Tokens
  <2>2. CASE ReceiveVerify(r)
    BY <2>2, ReceiveType
    DEF ReceiveVerify, Request, Operations, Statements, Tokens
  <2>3. CASE ReceiveLogin(r)
    BY <2>3, ReceiveType DEF ReceiveLogin, Request, Operations, Statements
  <2>4. CASE ReceiveGoogle(r)
    BY <2>4, ReceiveType DEF ReceiveGoogle, Request, Operations, Statements
  <2>5. CASE ReceiveMe(r) /\ session
    BY <2>5, ReceiveType DEF ReceiveMe, Request, Operations, Statements
  <2>6. CASE ReceiveMe(r) /\ ~session
    <3>1. [op |-> "me", token |-> None, password |-> None] \in Request
      BY DEF Request, Operations
    <3>2. QED
      BY <2>6, <3>1 DEF ReceiveMe, TypeOK, Answers, db, outside, txVars
  <2>7. CASE ReceiveForgot(r)
    BY <2>7, ReceiveType
    DEF ReceiveForgot, Request, Operations, Statements, Fresh, Tokens
  <2>8. CASE ReceiveReset(r)
    BY <2>8, ReceiveType
    DEF ReceiveReset, Request, Operations, Statements, Tokens
  <2>9. QED
    BY <1>1, <2>1, <2>2, <2>3, <2>4, <2>5, <2>6, <2>7, <2>8 DEF Arrive
<1>2. ASSUME NEW r \in Reqs, Statement(r) PROVE TypeOK'
  <2>1. pc[r] # "idle" => req[r].password \in Passwords \cup {None}
    BY AtStatement DEF Script, Request
  <2>2. ASSUME NEW answer \in Answers, Rollback(r, answer) PROVE TypeOK'
    BY <2>2, RollbackType
  <2>3. ASSUME NEW statement \in Statements, Goto(r, statement),
               UNCHANGED <<db, outside, req, resp, txVars>>
        PROVE  TypeOK'
    BY <2>3 DEF TypeOK, Goto, db, outside, txVars
  <2>4. CASE FindTenant(r) \/ FindToken(r) \/ DropExpired(r)
    BY <2>2, <2>3, <2>4
    DEF FindTenant, FindToken, DropExpired, Answers, Statements
  <2>5. CASE InsertTenant(r) \/ InsertGoogleIdentity(r)
    BY <2>2, <2>5
    DEF InsertTenant, InsertGoogleIdentity, TypeOK, Goto, db, outside,
        Answers, Statements
  <2>6. CASE InsertLocalIdentity(r) \/ SetPassword(r)
    BY <2>1, <2>2, <2>6
    DEF InsertLocalIdentity, SetPassword, TypeOK, Goto, db, outside, Answers,
        Statements
  <2>7. CASE InsertVerificationToken(r) \/ Activate(r) \/ DeleteToken(r)
             \/ SaveResetToken(r)
    BY <2>2, <2>7
    DEF InsertVerificationToken, Activate, DeleteToken, SaveResetToken, TypeOK,
        Goto, db, outside, txVars, Answers, Statements
  <2>8. CASE FindIdentity(r)
    <3>1. req[r].op \in {"login", "google", "forgot"}
      BY <2>8, AtStatement DEF FindIdentity, Script, Request, Operations
    <3>2. QED
      BY <2>2, <2>3, <2>8, <3>1 DEF FindIdentity, Answers, Statements
  <2>9. CASE ReadTenant(r)
    BY <2>2, <2>9 DEF ReadTenant, Answers
  <2>10. CASE Commit(r)
    BY <2>10, CommitType DEF Commit, Answers
  <2>11. QED
    BY <1>2, <2>4, <2>5, <2>6, <2>7, <2>8, <2>9, <2>10 DEF Statement
<1>3. ASSUME NEW r \in Reqs, SendMail(r) PROVE TypeOK'
  <2>1. pc[r] # "idle" /\ req[r].op \in {"register", "forgot"}
    BY <1>3, AtStatement DEF SendMail, Script, Request, Operations
  <2>2. req[r].token \in Tokens
    BY <2>1 DEF Script, ScriptOf, Tokens
  <2>3. accepted' \subseteq Tokens /\ inbox' \subseteq Tokens
    BY <1>3, <2>2 DEF SendMail, TypeOK
  <2>4. QED
    BY <1>3, <2>3
    DEF SendMail, TypeOK, Goto, db, txVars, Statements, Answers
<1>4. ASSUME NEW r \in Reqs, Abandon(r) PROVE TypeOK'
  BY <1>4 DEF Abandon, TypeOK, Goto, db, outside, Statements
<1>5. ASSUME NEW r \in Reqs,
             DeleteTokenFails(r) \/ CommitUnacked(r) \/ Error(r)
      PROVE  TypeOK'
  BY <1>5, RollbackType, CommitType
  DEF DeleteTokenFails, CommitUnacked, Error, Answers
<1>6. ASSUME NEW r \in Reqs, SaveResetTokenUnacked(r) PROVE TypeOK'
  <2>1. tok' \in [Tokens -> {"none", "valid", "expired"}]
    BY <1>6 DEF SaveResetTokenUnacked, TypeOK
  <2>2. QED
    BY <1>6, <2>1, FinishType DEF SaveResetTokenUnacked, TypeOK, Answers
<1>7. ASSUME NEW t \in Tokens, Expire(t) PROVE TypeOK'
  BY <1>7 DEF Expire, TypeOK, outside, txVars
<1>8. CASE ExpireSession \/ UNCHANGED vars
  BY <1>8 DEF ExpireSession, TypeOK, vars, db, outside, txVars
<1>9. CASE Crash
  BY <1>9 DEF Crash, TypeOK, db, outside, Answers
<1>10. QED
  BY <1>1, <1>2, <1>3, <1>4, <1>5, <1>6, <1>7, <1>8, <1>9 DEF Next

-----------------------------------------------------------------------------
(***************************************************************************)
(* What a step does to the tables.                                         *)
(***************************************************************************)
CommitsWith(r, answer) == pc[r] = "commit" /\ CommitTx(r, answer)

\* A password reset saves its token, acknowledged or not.
Saves(r) == SaveResetToken(r) \/ SaveResetTokenUnacked(r)

\* The rows that a verification and a reset update are there: whoever has seen
\* a token's row knows of its account, and accounts are not deleted.
LEMMA RowsToUpdate ==
    ASSUME IInv, NEW r \in Reqs
    PROVE  /\ Activate(r) =>
                 /\ pc[r] = "activate" /\ TenantFree(r)
                 /\ tput' = [tput EXCEPT ![r] = "active"]
                 /\ Goto(r, "deleteToken")
                 /\ UNCHANGED <<db, outside, req, resp, lput, gput, kput>>
           /\ SetPassword(r) =>
                 /\ pc[r] = "setPassword" /\ LocalFree(r)
                 /\ lput' = [lput EXCEPT ![r] = req[r].password]
                 /\ Goto(r, "deleteToken")
                 /\ UNCHANGED <<db, outside, req, resp, tput, gput, kput>>
<1>1. TypeOK /\ ScriptOf(r) /\ KnowledgeOf(r)
  BY DEF IInv, Script, Knowledge
<1>2. pc[r] = "activate" => tenant # "none"
  BY <1>1, AtStatement DEF KnowledgeOf, HasSeenToken, Request, Operations
<1>3. pc[r] = "setPassword" => local # None
  BY <1>1, AtStatement DEF KnowledgeOf, HasSeenToken, Request, Operations
<1>4. QED
  BY <1>2, <1>3 DEF Activate, SetPassword

\* Only four things write: a commit, a password reset that saves its token
\* outside a transaction, and time.
LEMMA Writers ==
    ASSUME IInv, [Next]_vars
    PROVE  \/ UNCHANGED db
           \/ \E r \in Reqs, answer \in {"200", "500", "lost"} :
                 CommitsWith(r, answer)
           \/ \E r \in Reqs : Saves(r)
           \/ \E t \in Tokens : Expire(t)
<1>1. ASSUME NEW r \in Reqs, Arrive(r) PROVE UNCHANGED db
  BY <1>1 DEF Arrive, ReceiveRegister, ReceiveVerify, ReceiveLogin,
     ReceiveGoogle, ReceiveMe, ReceiveForgot, ReceiveReset, Receive
<1>2. ASSUME NEW r \in Reqs, Statement(r), ~Commit(r), ~SaveResetToken(r)
      PROVE  UNCHANGED db
  <2>1. CASE FindIdentity(r)
    <3>1. req[r].op \in {"login", "google", "forgot"}
      BY <2>1, AtStatement DEF FindIdentity, IInv, Script, Request, Operations
    <3>2. QED
      BY <2>1, <3>1 DEF FindIdentity, Rollback
  <2>2. CASE ~FindIdentity(r)
    BY <1>2, <2>2, RowsToUpdate
    DEF Statement, FindTenant, InsertTenant, InsertLocalIdentity,
        InsertGoogleIdentity, InsertVerificationToken, FindToken, DropExpired,
        DeleteToken, ReadTenant, Rollback
  <2>3. QED
    BY <2>1, <2>2
<1>3. ASSUME NEW r \in Reqs, Commit(r) \/ CommitUnacked(r)
      PROVE  \E answer \in {"200", "500", "lost"} : CommitsWith(r, answer)
  BY <1>3 DEF Commit, CommitUnacked, CommitsWith
<1>4. ASSUME NEW r \in Reqs, SendMail(r) \/ Abandon(r) PROVE UNCHANGED db
  BY <1>4 DEF SendMail, Abandon
<1>5. ASSUME NEW r \in Reqs, DeleteTokenFails(r) \/ Error(r)
      PROVE  UNCHANGED db
  BY <1>5 DEF DeleteTokenFails, Error, Rollback
<1>6. CASE Crash \/ ExpireSession \/ UNCHANGED vars
  BY <1>6 DEF Crash, ExpireSession, vars
<1>7. QED
  BY <1>1, <1>2, <1>3, <1>4, <1>5, <1>6 DEF Statement, Saves, Next

\* What a commit finds in the tables and what it leaves there.
LEMMA CommitEffect ==
    ASSUME IInv, NEW r \in Reqs, NEW answer, CommitsWith(r, answer),
           NEW t, t = req[r].token
    PROVE  /\ req[r] \in Request
           /\ req[r].op \in {"register", "google", "verify", "reset"}
           /\ req[r].op = "register" =>
                 /\ tenant = "none" /\ tenant' = "inactive"
                 /\ local = None /\ local' = req[r].password
                 /\ local' \in Passwords
                 /\ google' = google
                 /\ t \in VTokens /\ t \in accepted /\ tok[t] = "none"
                 /\ tok' = [tok EXCEPT ![t] = "valid"]
           /\ req[r].op = "google" =>
                 /\ ~google /\ google' = TRUE
                 /\ tenant' = IF tenant = "none" THEN "active" ELSE tenant
                 /\ local' = local /\ tok' = tok
           /\ req[r].op = "verify" =>
                 /\ tenant # "none" /\ tenant' = "active"
                 /\ local' = local /\ google' = google
                 /\ t \in VTokens /\ tok' = [tok EXCEPT ![t] = "none"]
           /\ req[r].op = "reset" =>
                 /\ tenant' = tenant /\ google' = google
                 /\ local # None /\ local' = req[r].password
                 /\ local' \in Passwords
                 /\ t \in RTokens /\ tok' = [tok EXCEPT ![t] = "none"]
<1> USE AccountsAssumption, SentinelAssumption
<1>1. /\ TypeOK /\ ScriptOf(r) /\ KnowledgeOf(r)
      /\ pc[r] = "commit" /\ CommitTx(r, answer)
  BY DEF IInv, Script, Knowledge, CommitsWith
<1>2. /\ req[r] \in Request /\ req[r] # None
      /\ req[r].op \in {"register", "google", "verify", "reset"}
  BY <1>1, AtStatement DEF Request, Operations
<1>3. tok \in [Tokens -> {"none", "valid", "expired"}] /\ t \in Tokens \cup {None}
  BY <1>1, <1>2 DEF TypeOK, Request
<1>4. CASE req[r].op = "register"
  <2>1. /\ tput[r] = "inactive" /\ tenant = "none"
        /\ lput[r] # None /\ lput[r] = req[r].password /\ ~gput[r]
        /\ kput[r] = "insert" /\ t \in VTokens /\ t \in accepted
    BY <1>1, <1>2, <1>4 DEF ScriptOf, KnowledgeOf
  <2>2. tok[t] = "none" /\ local = None
    BY <1>3, <2>1 DEF IInv, TokensHaveAccount, AccountHasIdentity, Tokens
  <2>3. local' \in Passwords
    BY <1>1, <2>1 DEF TypeOK, CommitTx
  <2>4. QED
    BY <1>1, <1>2, <1>4, <2>1, <2>2, <2>3 DEF CommitTx, TypeOK
<1>5. CASE req[r].op = "google"
  BY <1>1, <1>2, <1>5 DEF ScriptOf, KnowledgeOf, CommitTx, TypeOK
<1>6. CASE req[r].op = "verify"
  <2>1. /\ tput[r] = "active" /\ tenant # "none" /\ t \in VTokens
        /\ lput[r] = None /\ ~gput[r] /\ kput[r] \in {"delete", None}
        /\ kput[r] = "delete" <=> tok[t] # "none"
    BY <1>1, <1>2, <1>6 DEF ScriptOf, KnowledgeOf, HasSeenToken, TypeOK
  <2>2. tok' = [tok EXCEPT ![t] = "none"]
    BY <1>1, <1>3, <2>1 DEF CommitTx
  <2>3. QED
    BY <1>1, <1>2, <1>6, <2>1, <2>2 DEF CommitTx, TypeOK
<1>7. CASE req[r].op = "reset"
  <2>1. /\ tput[r] = None /\ local # None /\ t \in RTokens /\ ~gput[r]
        /\ lput[r] # None /\ lput[r] = req[r].password
        /\ kput[r] \in {"delete", None}
        /\ kput[r] = "delete" <=> tok[t] # "none"
    BY <1>1, <1>2, <1>7 DEF ScriptOf, KnowledgeOf, HasSeenToken, TypeOK
  <2>2. tok' = [tok EXCEPT ![t] = "none"]
    BY <1>1, <1>3, <2>1 DEF CommitTx
  <2>3. QED
    BY <1>1, <1>2, <1>7, <2>1, <2>2 DEF CommitTx, TypeOK
<1>8. QED
  BY <1>2, <1>4, <1>5, <1>6, <1>7

\* Only the mailer delivers.
LEMMA OnlyMailerSends ==
    ASSUME IInv, [Next]_vars
    PROVE  UNCHANGED <<accepted, inbox>> \/ \E r \in Reqs : SendMail(r)
<1>1. ASSUME NEW r \in Reqs, Arrive(r) PROVE UNCHANGED outside
  BY <1>1 DEF Arrive, ReceiveRegister, ReceiveVerify, ReceiveLogin,
     ReceiveGoogle, ReceiveMe, ReceiveForgot, ReceiveReset, Receive
<1>2. ASSUME NEW r \in Reqs, Statement(r) PROVE UNCHANGED <<accepted, inbox>>
  <2>1. CASE FindIdentity(r)
    <3>1. req[r].op \in {"login", "google", "forgot"}
      BY <2>1, AtStatement DEF FindIdentity, IInv, Script, Request, Operations
    <3>2. QED
      BY <2>1, <3>1 DEF FindIdentity, Rollback, Finish, outside
  <2>2. CASE ~FindIdentity(r)
    BY <1>2, <2>2, RowsToUpdate
    DEF Statement, FindTenant, InsertTenant, InsertLocalIdentity,
        InsertGoogleIdentity, InsertVerificationToken, FindToken, DropExpired,
        DeleteToken, ReadTenant, SaveResetToken, Commit, Rollback, CommitTx,
        Finish, outside
  <2>3. QED
    BY <2>1, <2>2
<1>3. ASSUME NEW r \in Reqs, \/ Abandon(r) \/ DeleteTokenFails(r)
                             \/ CommitUnacked(r) \/ Error(r)
                             \/ SaveResetTokenUnacked(r)
      PROVE  UNCHANGED <<accepted, inbox>>
  BY <1>3 DEF Abandon, DeleteTokenFails, CommitUnacked, Error,
     SaveResetTokenUnacked, Rollback, CommitTx, Finish, outside
<1>4. CASE (\E t \in Tokens : Expire(t)) \/ ExpireSession \/ Crash
           \/ UNCHANGED vars
  BY <1>4 DEF Expire, ExpireSession, Crash, vars, outside
<1>5. QED
  BY <1>1, <1>2, <1>3, <1>4 DEF Next, outside

\* Nothing of an account is ever lost.
LEMMA NothingLost ==
    ASSUME IInv, [Next]_vars
    PROVE  /\ tenant # "none" => tenant' # "none"
           /\ tenant = "active" => tenant' = "active"
           /\ local # None => local' # None
           /\ google => google'
           /\ accepted \subseteq accepted' /\ inbox \subseteq inbox'
<1> USE SentinelAssumption
<1>1. ASSUME UNCHANGED <<tenant, local, google>>
      PROVE  /\ tenant # "none" => tenant' # "none"
             /\ tenant = "active" => tenant' = "active"
             /\ local # None => local' # None
             /\ google => google'
  BY <1>1
<1>2. ASSUME NEW r \in Reqs, NEW answer, CommitsWith(r, answer)
      PROVE  /\ tenant # "none" => tenant' # "none"
             /\ tenant = "active" => tenant' = "active"
             /\ local # None => local' # None
             /\ google => google'
  <2> PICK t : t = req[r].token
    OBVIOUS
  <2>1. QED
    BY <1>2, CommitEffect
<1>3. ASSUME \/ UNCHANGED db
             \/ \E r \in Reqs : Saves(r)
             \/ \E t \in Tokens : Expire(t)
      PROVE  UNCHANGED <<tenant, local, google>>
  BY <1>3 DEF Saves, SaveResetToken, SaveResetTokenUnacked, Expire, db
<1>4. accepted \subseteq accepted' /\ inbox \subseteq inbox'
  BY OnlyMailerSends DEF SendMail
<1>5. /\ tenant # "none" => tenant' # "none"
      /\ tenant = "active" => tenant' = "active"
      /\ local # None => local' # None
      /\ google => google'
  BY <1>1, <1>2, <1>3, Writers
<1>6. QED
  BY <1>4, <1>5

-----------------------------------------------------------------------------
(***************************************************************************)
(* What a step does to a connection.                                       *)
(***************************************************************************)
\* Nothing.
Waits(o) ==
    /\ pc'[o] = pc[o] /\ req'[o] = req[o] /\ resp'[o] = resp[o]
    /\ tput'[o] = tput[o] /\ lput'[o] = lput[o]
    /\ gput'[o] = gput[o] /\ kput'[o] = kput[o]

\* Its request is answered, or dies.
Ends(o, answer) ==
    /\ pc[o] # "idle" /\ pc'[o] = "idle"
    /\ req'[o] = req[o] /\ resp'[o] = answer
    /\ tput'[o] = None /\ lput'[o] = None /\ ~gput'[o] /\ kput'[o] = None

\* Everybody else waits while a request arrives or runs a statement.
LEMMA OthersWait ==
    ASSUME IInv, NEW o \in Reqs, NEW r \in Reqs, r # o,
           Arrive(r) \/ Statement(r) \/ SendMail(r) \/ Abandon(r)
    PROVE  Waits(o)
<1>1. TypeOK
  BY DEF IInv
<1>2. ASSUME NEW answer, Finish(r, answer) PROVE Waits(o)
  BY <1>1, <1>2 DEF Finish, Goto, TypeOK, Waits
<1>3. ASSUME NEW statement, Goto(r, statement), req' = req, resp' = resp,
             tput'[o] = tput[o], lput'[o] = lput[o], gput'[o] = gput[o],
             kput'[o] = kput[o]
      PROVE  Waits(o)
  BY <1>1, <1>3 DEF Goto, TypeOK, Waits
<1>4. CASE FindIdentity(r)
  <2>1. req[r].op \in {"login", "google", "forgot"}
    BY <1>4, AtStatement DEF FindIdentity, IInv, Script, Request, Operations
  <2>2. QED
    BY <1>2, <1>3, <1>4, <2>1 DEF FindIdentity, Rollback, txVars
<1>5. CASE FindTenant(r) \/ FindToken(r) \/ DropExpired(r) \/ ReadTenant(r)
  BY <1>2, <1>3, <1>5
  DEF FindTenant, FindToken, DropExpired, ReadTenant, Rollback, txVars
<1>6. CASE InsertTenant(r) \/ InsertGoogleIdentity(r)
  BY <1>1, <1>2, <1>3, <1>6
  DEF InsertTenant, InsertGoogleIdentity, Rollback, TypeOK
<1>7. CASE \/ InsertLocalIdentity(r) \/ InsertVerificationToken(r)
           \/ Activate(r) \/ SetPassword(r) \/ DeleteToken(r)
           \/ SaveResetToken(r)
  BY <1>1, <1>3, <1>7, RowsToUpdate
  DEF InsertLocalIdentity, InsertVerificationToken, DeleteToken,
      SaveResetToken, TypeOK, txVars
<1>8. CASE Commit(r)
  BY <1>2, <1>8 DEF Commit, CommitTx
<1>9. CASE SendMail(r)
  BY <1>1, <1>9 DEF SendMail, Goto, TypeOK, Waits, txVars
<1>10. CASE Abandon(r)
  BY <1>1, <1>10 DEF Abandon, Goto, TypeOK, Waits
<1>11. CASE Arrive(r)
  BY <1>1, <1>11 DEF Arrive, ReceiveRegister, ReceiveVerify, ReceiveLogin,
     ReceiveGoogle, ReceiveMe, ReceiveForgot, ReceiveReset, Receive, Goto,
     TypeOK, Waits, txVars
<1>12. QED
  BY <1>4, <1>5, <1>6, <1>7, <1>8, <1>9, <1>10, <1>11 DEF Statement

LEMMA WhoMoves ==
    ASSUME IInv, [Next]_vars, NEW o \in Reqs
    PROVE  \/ Waits(o)
           \/ Arrive(o)
           \/ \E answer \in Answers \ {"200"} : Ends(o, answer)
           \/ (Commit(o) \/ ReadTenant(o) \/ FindIdentity(o))
              /\ Ends(o, "200")
           \/ SendMail(o) /\ req[o].op = "forgot" /\ Ends(o, "200")
           \/ /\ Statement(o) \/ SendMail(o) \/ Abandon(o)
              /\ pc[o] # "idle" /\ pc'[o] # "idle"
<1>1. TypeOK /\ ScriptOf(o)
  BY DEF IInv, Script
<1>2. ASSUME NEW r \in Reqs, NEW answer, Finish(r, answer), pc[r] # "idle"
      PROVE  IF r = o THEN Ends(o, answer) ELSE Waits(o)
  BY <1>1, <1>2 DEF Finish, Goto, TypeOK, Waits, Ends
<1>3. ASSUME NEW r \in Reqs, Arrive(r) PROVE Waits(o) \/ Arrive(o)
  BY <1>3, OthersWait
<1>4. ASSUME NEW r \in Reqs, r # o, Statement(r) \/ SendMail(r) \/ Abandon(r)
      PROVE  Waits(o)
  BY <1>4, OthersWait
<1>5. ASSUME Statement(o)
      PROVE  \/ \E answer \in Answers \ {"200"} : Ends(o, answer)
             \/ (Commit(o) \/ ReadTenant(o) \/ FindIdentity(o))
                /\ Ends(o, "200")
             \/ pc[o] # "idle" /\ pc'[o] # "idle"
  <2>1. pc[o] # "idle"
    BY <1>5 DEF Statement, FindTenant, InsertTenant, InsertLocalIdentity,
       InsertGoogleIdentity, InsertVerificationToken, FindToken, DropExpired,
       Activate, SetPassword, DeleteToken, FindIdentity, ReadTenant,
       SaveResetToken, Commit
  <2>2. ASSUME NEW statement, Goto(o, statement), statement # "idle"
        PROVE  pc'[o] # "idle"
    BY <1>1, <2>2 DEF Goto, TypeOK
  <2>3. ASSUME NEW answer, Rollback(o, answer) PROVE Ends(o, answer)
    BY <1>2, <2>1, <2>3 DEF Rollback
  <2>4. CASE FindIdentity(o)
    <3>1. req[o].op \in {"login", "google", "forgot"}
      BY <2>4, AtStatement DEF FindIdentity, IInv, Script, Request, Operations
    <3>2. QED
      BY <2>1, <2>2, <2>3, <2>4, <3>1 DEF FindIdentity, Answers
  <2>5. CASE FindTenant(o) \/ FindToken(o) \/ DropExpired(o) \/ ReadTenant(o)
    BY <2>1, <2>2, <2>3, <2>5
    DEF FindTenant, FindToken, DropExpired, ReadTenant, Answers
  <2>6. CASE InsertTenant(o) \/ InsertGoogleIdentity(o)
    BY <2>1, <2>2, <2>3, <2>6
    DEF InsertTenant, InsertGoogleIdentity, Answers
  <2>7. CASE \/ InsertLocalIdentity(o) \/ InsertVerificationToken(o)
             \/ Activate(o) \/ SetPassword(o) \/ DeleteToken(o)
             \/ SaveResetToken(o)
    BY <2>1, <2>2, <2>7, RowsToUpdate
    DEF InsertLocalIdentity, InsertVerificationToken, DeleteToken,
        SaveResetToken
  <2>8. CASE Commit(o)
    BY <1>2, <2>1, <2>8 DEF Commit, CommitTx
  <2>9. QED
    BY <1>5, <2>4, <2>5, <2>6, <2>7, <2>8 DEF Statement
<1>6. ASSUME SendMail(o)
      PROVE  \/ Ends(o, "500")
             \/ req[o].op = "forgot" /\ Ends(o, "200")
             \/ pc[o] # "idle" /\ pc'[o] # "idle"
  <2>1. pc[o] # "idle" /\ req[o].op \in {"register", "forgot"} /\ ~gput[o]
    BY <1>1, <1>6, AtStatement DEF SendMail, ScriptOf, Request, Operations
  <2>2. PICK sent, arrived \in BOOLEAN :
           IF sent /\ pc[o] = "sendMail" /\ req[o].op = "register"
           THEN Goto(o, "commit")
           ELSE /\ Goto(o, "idle")
                /\ resp' = [resp EXCEPT ![o] =
                               IF sent /\ pc[o] = "sendMail"
                               THEN "200" ELSE "500"]
                /\ tput' = [tput EXCEPT ![o] = None]
                /\ lput' = [lput EXCEPT ![o] = None]
                /\ kput' = [kput EXCEPT ![o] = None]
                /\ gput' = gput
    BY <1>6 DEF SendMail
  <2>3. req' = req
    BY <1>6 DEF SendMail
  <2>4. QED
    BY <1>1, <2>1, <2>2, <2>3 DEF Goto, TypeOK, Ends
<1>7. ASSUME Abandon(o) PROVE pc[o] # "idle" /\ pc'[o] # "idle"
  BY <1>1, <1>7 DEF Abandon, Goto, TypeOK
<1>8. ASSUME NEW r \in Reqs,
             \/ DeleteTokenFails(r) \/ CommitUnacked(r) \/ Error(r)
             \/ SaveResetTokenUnacked(r)
      PROVE  Waits(o) \/ \E answer \in Answers \ {"200"} : Ends(o, answer)
  BY <1>2, <1>8
  DEF DeleteTokenFails, CommitUnacked, CommitTx, Error, SaveResetTokenUnacked,
      Rollback, Answers
<1>9. ASSUME \/ \E t \in Tokens : Expire(t)
             \/ ExpireSession
             \/ UNCHANGED vars
      PROVE  Waits(o)
  BY <1>9 DEF Expire, ExpireSession, vars, txVars, Waits
<1>10. CASE Crash
  <2>1. /\ pc'[o] = "idle" /\ req'[o] = req[o]
        /\ resp'[o] = IF pc[o] = "idle" THEN resp[o] ELSE "lost"
        /\ tput'[o] = None /\ lput'[o] = None /\ gput'[o] = FALSE
        /\ kput'[o] = None
    BY <1>10 DEF Crash
  <2>2. CASE pc[o] = "idle"
    <3>1. tput[o] = None /\ lput[o] = None /\ ~gput[o] /\ kput[o] = None
      BY <1>1, <2>2 DEF ScriptOf, TypeOK
    <3>2. gput[o] \in BOOLEAN
      BY <1>1 DEF TypeOK
    <3>3. QED
      BY <2>1, <2>2, <3>1, <3>2 DEF Waits
  <2>3. CASE pc[o] # "idle"
    BY <2>1, <2>3 DEF Ends, Answers
  <2>4. QED
    BY <2>2, <2>3
<1>11. ASSUME NEW r \in Reqs, Statement(r) \/ SendMail(r) \/ Abandon(r)
       PROVE  \/ Waits(o)
              \/ Statement(o) \/ SendMail(o) \/ Abandon(o)
  <2>1. CASE r = o
    BY <1>11, <2>1
  <2>2. CASE r # o
    BY <1>11, <2>2, <1>4
  <2>3. QED
    BY <2>1, <2>2
<1>12. CASE Statement(o) \/ SendMail(o) \/ Abandon(o)
  BY <1>5, <1>6, <1>7, <1>12 DEF Answers
<1>13. QED
  BY <1>3, <1>8, <1>9, <1>10, <1>11, <1>12 DEF Next

\* What a request that has arrived carries, and where it starts.
LEMMA Arrival ==
    ASSUME IInv, NEW o \in Reqs, Arrive(o)
    PROVE  /\ pc[o] = "idle" /\ req'[o] \in Request
           /\ UNCHANGED <<db, outside, txVars>>
           /\ \/ /\ req'[o].op = "register" /\ pc'[o] = "findTenant"
                 /\ req'[o].token \in Fresh(o, VTokens)
                 /\ req'[o].password \in Passwords /\ resp'[o] = "none"
              \/ /\ req'[o].op = "verify" /\ pc'[o] = "findToken"
                 /\ req'[o].token \in VTokens \cap inbox /\ resp'[o] = "none"
              \/ /\ req'[o].op \in {"login", "google"}
                 /\ pc'[o] = "findIdentity" /\ resp'[o] = "none"
              \/ /\ req'[o].op = "me" /\ pc'[o] = "readTenant"
                 /\ session /\ resp'[o] = "none"
              \/ req'[o].op = "me" /\ pc'[o] = "idle" /\ resp'[o] = "403"
              \/ /\ req'[o].op = "forgot" /\ pc'[o] = "findIdentity"
                 /\ req'[o].token \in Fresh(o, RTokens) /\ resp'[o] = "none"
              \/ /\ req'[o].op = "reset" /\ pc'[o] = "findToken"
                 /\ req'[o].token \in RTokens \cap inbox
                 /\ req'[o].password \in Passwords /\ resp'[o] = "none"
<1>1. TypeOK
  BY DEF IInv
<1>2. ASSUME NEW request, NEW statement, Receive(o, request, statement)
      PROVE  /\ pc[o] = "idle" /\ req'[o] = request
             /\ pc'[o] = statement /\ resp'[o] = "none"
             /\ UNCHANGED <<db, outside, txVars>>
  BY <1>1, <1>2 DEF Receive, Goto, TypeOK
<1>3. CASE ReceiveRegister(o)
  BY <1>2, <1>3 DEF ReceiveRegister, Request, Operations, Fresh, Tokens
<1>4. CASE ReceiveVerify(o)
  BY <1>2, <1>4 DEF ReceiveVerify, Request, Operations, Tokens
<1>5. CASE ReceiveLogin(o) \/ ReceiveGoogle(o)
  <2>1. CASE ReceiveLogin(o)
    BY <1>2, <2>1 DEF ReceiveLogin, Request, Operations
  <2>2. CASE ReceiveGoogle(o)
    <3>1. [op |-> "google", token |-> None, password |-> None] \in Request
      BY DEF Request, Operations
    <3>2. QED
      BY <1>2, <2>2, <3>1 DEF ReceiveGoogle
  <2>3. QED
    BY <1>5, <2>1, <2>2
<1>6. CASE ReceiveMe(o)
  <2>1. [op |-> "me", token |-> None, password |-> None] \in Request
    BY DEF Request, Operations
  <2>2. CASE session
    BY <1>2, <1>6, <2>1, <2>2 DEF ReceiveMe
  <2>3. CASE ~session
    BY <1>1, <1>6, <2>1, <2>3 DEF ReceiveMe, TypeOK, db, outside, txVars
  <2>4. QED
    BY <2>2, <2>3
<1>7. CASE ReceiveForgot(o)
  BY <1>2, <1>7 DEF ReceiveForgot, Request, Operations, Fresh, Tokens
<1>8. CASE ReceiveReset(o)
  BY <1>2, <1>8 DEF ReceiveReset, Request, Operations, Tokens
<1>9. QED
  BY <1>3, <1>4, <1>5, <1>6, <1>7, <1>8 DEF Arrive

\* Who waits with a row locked finds it as it was.
LEMMA HeldRows ==
    ASSUME IInv, [Next]_vars, NEW o \in Reqs, Waits(o)
    PROVE  /\ tput[o] # None => tenant' = tenant
           /\ lput[o] # None => local' = local
           /\ gput[o] => google' = google
<1>1. ASSUME NEW r \in Reqs, NEW answer, CommitsWith(r, answer)
      PROVE  /\ tput[o] # None => tenant' = tenant
             /\ lput[o] # None => local' = local
             /\ gput[o] => google' = google
  <2>1. r # o
    BY <1>1 DEF CommitsWith, CommitTx, Finish, Goto, IInv, TypeOK, Waits
  <2>2. google \in BOOLEAN
    BY DEF IInv, TypeOK
  <2>3. QED
    BY <1>1, <2>1, <2>2 DEF CommitsWith, CommitTx, IInv, OneWriterPerRow
<1>2. QED
  BY <1>1, Writers DEF db, Saves, SaveResetToken, SaveResetTokenUnacked, Expire

\* How the row of a token comes and goes.
LEMMA TokenFate ==
    ASSUME IInv, [Next]_vars, NEW t \in Tokens
    PROVE  \/ tok'[t] = "none" <=> tok[t] = "none"
           \/ /\ tok[t] = "none" /\ tok'[t] = "valid"
              /\ \E r \in Reqs :
                    /\ Drawing(r) /\ req[r].token = t
                    /\ \/ Saves(r)
                       \/ /\ req[r].op = "register"
                          /\ \E answer : CommitsWith(r, answer)
           \/ /\ tok[t] # "none" /\ tok'[t] = "none"
              /\ \E r \in Reqs :
                    /\ HasSeenToken(r) /\ req[r].token = t
                    /\ req[r].op \in {"verify", "reset"} /\ kput[r] = "delete"
                    /\ \E answer : CommitsWith(r, answer)
<1>1. TypeOK
  BY DEF IInv
<1>2. ASSUME NEW r \in Reqs, NEW answer, CommitsWith(r, answer),
             ~(tok'[t] = "none" <=> tok[t] = "none")
      PROVE  \/ /\ tok[t] = "none" /\ tok'[t] = "valid"
                /\ Drawing(r) /\ req[r].token = t /\ req[r].op = "register"
             \/ /\ tok[t] # "none" /\ tok'[t] = "none"
                /\ HasSeenToken(r) /\ req[r].token = t
                /\ req[r].op \in {"verify", "reset"} /\ kput[r] = "delete"
  <2> PICK u : u = req[r].token
    OBVIOUS
  <2>1. pc[r] = "commit" /\ ScriptOf(r) /\ KnowledgeOf(r)
    BY <1>2 DEF CommitsWith, IInv, Script, Knowledge
  <2>2. u = t
    <3>1. \/ tok' = tok
          \/ \E value : tok' = [tok EXCEPT ![u] = value]
      BY <1>2, CommitEffect
    <3>2. QED
      BY <1>1, <1>2, <3>1 DEF TypeOK
  <2>3. CASE req[r].op = "register"
    BY <1>1, <1>2, <2>1, <2>2, <2>3, CommitEffect DEF TypeOK, Drawing
  <2>4. CASE req[r].op = "google"
    BY <1>2, <2>4, CommitEffect
  <2>5. CASE req[r].op \in {"verify", "reset"}
    <3>1. tok'[t] = "none"
      BY <1>1, <1>2, <2>2, <2>5, CommitEffect DEF TypeOK
    <3>2. tok[t] # "none" /\ req[r] # None
      BY <1>2, <2>1, <3>1 DEF ScriptOf
    <3>3. QED
      BY <2>1, <2>2, <2>5, <3>1, <3>2 DEF KnowledgeOf, HasSeenToken
  <2>6. QED
    BY <1>2, <2>3, <2>4, <2>5, CommitEffect
<1>3. ASSUME NEW r \in Reqs, Saves(r),
             ~(tok'[t] = "none" <=> tok[t] = "none")
      PROVE  /\ tok[t] = "none" /\ tok'[t] = "valid"
             /\ Drawing(r) /\ req[r].token = t
  BY <1>1, <1>3
  DEF Saves, SaveResetToken, SaveResetTokenUnacked, TypeOK, Drawing
<1>4. ASSUME NEW u \in Tokens, Expire(u)
      PROVE  tok'[t] = "none" <=> tok[t] = "none"
  BY <1>1, <1>4 DEF Expire, TypeOK
<1>5. QED
  BY <1>2, <1>3, <1>4, Writers DEF db

\* How a request goes on to its next statement, by operation.
Keeps(o) ==
    /\ tput'[o] = tput[o] /\ lput'[o] = lput[o]
    /\ gput'[o] = gput[o] /\ kput'[o] = kput[o]

RegisterGoes(o, from, to) ==
    \/ from = "findTenant" /\ to = "insertTenant" /\ Keeps(o)
    \/ /\ from = "insertTenant" /\ to = "insertIdentity"
       /\ TenantFree(o) /\ tenant = "none" /\ tput'[o] = "inactive"
       /\ lput'[o] = lput[o] /\ gput'[o] = gput[o] /\ kput'[o] = kput[o]
    \/ /\ from = "insertIdentity" /\ to = "insertToken"
       /\ LocalFree(o) /\ lput'[o] = req[o].password
       /\ tput'[o] = tput[o] /\ gput'[o] = gput[o] /\ kput'[o] = kput[o]
    \/ /\ from = "insertToken" /\ to = "sendMail" /\ kput'[o] = "insert"
       /\ tput'[o] = tput[o] /\ lput'[o] = lput[o] /\ gput'[o] = gput[o]
    \/ /\ from = "sendMail" /\ to = "commit" /\ Keeps(o)
       /\ req[o].token \in accepted'
    \/ /\ from = "sendMail" /\ to = "mailOnly"
       /\ tput'[o] = None /\ lput'[o] = None /\ kput'[o] = None
       /\ gput'[o] = gput[o]

GoogleGoes(o, from, to) ==
    \/ from = "findIdentity" /\ to = "readTenant" /\ google /\ Keeps(o)
    \/ from = "findIdentity" /\ to = "findTenant" /\ Keeps(o)
    \/ /\ from = "findTenant" /\ Keeps(o)
       /\ to = IF tenant = "none" THEN "insertTenant" ELSE "insertIdentity"
    \/ /\ from = "insertTenant" /\ to = "insertIdentity"
       /\ TenantFree(o) /\ tenant = "none" /\ tput'[o] = "active"
       /\ lput'[o] = lput[o] /\ gput'[o] = gput[o] /\ kput'[o] = kput[o]
    \/ /\ from = "insertIdentity" /\ to = "commit"
       /\ GoogleFree(o) /\ ~google /\ gput'[o] = TRUE
       /\ tput'[o] = tput[o] /\ lput'[o] = lput[o] /\ kput'[o] = kput[o]

TokenGoes(o, from, to) ==
    \/ /\ from = "findToken" /\ Keeps(o) /\ tok[req[o].token] # "none"
       /\ to \in {"dropExpired", IF req[o].op = "verify" THEN "activate"
                                                       ELSE "setPassword"}
    \/ /\ from = "activate" /\ to = "deleteToken" /\ req[o].op = "verify"
       /\ TenantFree(o) /\ tput'[o] = "active"
       /\ lput'[o] = lput[o] /\ gput'[o] = gput[o] /\ kput'[o] = kput[o]
    \/ /\ from = "setPassword" /\ to = "deleteToken" /\ req[o].op = "reset"
       /\ LocalFree(o) /\ lput'[o] = req[o].password
       /\ tput'[o] = tput[o] /\ gput'[o] = gput[o] /\ kput'[o] = kput[o]
    \/ /\ from = "deleteToken" /\ to = "commit" /\ TokenFree(o)
       /\ kput'[o] = IF tok[req[o].token] = "none" THEN kput[o] ELSE "delete"
       /\ tput'[o] = tput[o] /\ lput'[o] = lput[o] /\ gput'[o] = gput[o]

ForgotGoes(o, from, to) ==
    /\ Keeps(o)
    /\ \/ from = "findIdentity" /\ to = "insertToken" /\ local # None
       \/ from = "insertToken" /\ to = "sendMail" /\ SaveResetToken(o)

GoesOn(o) ==
    /\ req[o] \in Request /\ req[o] # None
    /\ req'[o] = req[o] /\ resp'[o] = resp[o] /\ session' = session
    /\ pc[o] \in Statements /\ pc'[o] \in Statements
    /\ SaveResetToken(o) \/ UNCHANGED db
    /\ \/ req[o].op = "register" /\ RegisterGoes(o, pc[o], pc'[o])
       \/ req[o].op = "google" /\ GoogleGoes(o, pc[o], pc'[o])
       \/ req[o].op \in {"verify", "reset"} /\ TokenGoes(o, pc[o], pc'[o])
       \/ req[o].op = "forgot" /\ ForgotGoes(o, pc[o], pc'[o])
       \/ /\ req[o].op = "login" /\ Keeps(o) /\ local # None
          /\ pc[o] = "findIdentity" /\ pc'[o] = "readTenant"

LEMMA HowItGoes ==
    ASSUME IInv, NEW o \in Reqs, Statement(o) \/ SendMail(o) \/ Abandon(o),
           pc[o] # "idle", pc'[o] # "idle"
    PROVE  GoesOn(o)
<1>1. TypeOK /\ ScriptOf(o)
  BY DEF IInv, Script
<1>2. /\ \A answer : ~Rollback(o, answer) /\ ~CommitTx(o, answer)
      /\ pc[o] \in Statements
      /\ pc' \in [Reqs -> Statements \cup {"idle"}] => pc'[o] \in Statements
  BY <1>1 DEF Rollback, CommitTx, Finish, Goto, TypeOK
<1>3. CASE FindTenant(o)
  BY <1>1, <1>2, <1>3, AtStatement
  DEF FindTenant, Goto, GoesOn, RegisterGoes, GoogleGoes, Keeps, TypeOK,
      outside, txVars, Request, Operations, Statements
<1>4. CASE InsertTenant(o)
  BY <1>1, <1>2, <1>4, AtStatement
  DEF InsertTenant, Goto, GoesOn, RegisterGoes, GoogleGoes, TypeOK,
      outside, Request, Operations, Statements
<1>5. CASE InsertLocalIdentity(o) \/ InsertVerificationToken(o)
  BY <1>1, <1>2, <1>5, AtStatement
  DEF InsertLocalIdentity, InsertVerificationToken, Goto, GoesOn,
      RegisterGoes, TypeOK, outside, Statements
<1>6. CASE InsertGoogleIdentity(o)
  BY <1>1, <1>2, <1>6, AtStatement
  DEF InsertGoogleIdentity, Goto, GoesOn, GoogleGoes, TypeOK, outside,
      Statements
<1>7. CASE FindToken(o) \/ DropExpired(o)
  BY <1>1, <1>2, <1>7, AtStatement
  DEF FindToken, DropExpired, Goto, GoesOn, TokenGoes, Keeps, TypeOK, outside,
      txVars, Request, Operations, Statements
<1>8. CASE Activate(o) \/ SetPassword(o)
  BY <1>1, <1>2, <1>8, AtStatement, RowsToUpdate
  DEF Goto, GoesOn, TokenGoes, TypeOK, outside, Request, Operations, Statements
<1>9. CASE DeleteToken(o)
  BY <1>1, <1>2, <1>9, AtStatement
  DEF DeleteToken, Goto, GoesOn, TokenGoes, TypeOK, outside, Request,
      Operations, Statements
<1>10. CASE FindIdentity(o)
  <2>1. req[o].op \in {"login", "google", "forgot"}
    BY <1>1, <1>10, AtStatement DEF FindIdentity, Request, Operations
  <2>2. QED
    BY <1>1, <1>2, <1>10, <2>1, AtStatement
    DEF FindIdentity, Goto, GoesOn, GoogleGoes, ForgotGoes, Keeps, TypeOK,
        outside, txVars, Statements
<1>11. CASE SaveResetToken(o)
  BY <1>1, <1>2, <1>11, AtStatement
  DEF SaveResetToken, Goto, GoesOn, ForgotGoes, Keeps, TypeOK, outside, txVars,
      Statements
<1>12. CASE ReadTenant(o) \/ Commit(o)
  BY <1>2, <1>12 DEF ReadTenant, Commit
<1>13. CASE SendMail(o)
  BY <1>1, <1>2, <1>13, AtStatement
  DEF SendMail, Goto, GoesOn, RegisterGoes, Keeps, TypeOK, txVars, Statements
<1>14. CASE Abandon(o)
  BY <1>1, <1>2, <1>14, AtStatement
  DEF Abandon, Goto, GoesOn, RegisterGoes, TypeOK, outside, Statements
<1>15. QED
  BY <1>3, <1>4, <1>5, <1>6, <1>7, <1>8, <1>9, <1>10, <1>11, <1>12, <1>13,
     <1>14 DEF Statement

-----------------------------------------------------------------------------
(***************************************************************************)
(* Each part of the invariant is kept by every step.                       *)
(***************************************************************************)
LEMMA ScriptStep == IInv /\ [Next]_vars => Script'
<1> USE AccountsAssumption, SentinelAssumption
<1> SUFFICES ASSUME IInv, [Next]_vars, NEW o \in Reqs PROVE ScriptOf(o)'
  BY DEF Script
<1>1. TypeOK /\ ScriptOf(o)
  BY DEF IInv, Script
<1>2. CASE Waits(o)
  <2>1. /\ tput[o] # None => tenant' = tenant
        /\ tenant # "none" => tenant' # "none"
        /\ inbox \subseteq inbox'
    BY <1>2, HeldRows, NothingLost
  <2>2. QED
    BY <1>1, <1>2, <2>1 DEF ScriptOf, Waits
<1>3. CASE Arrive(o)
  <2>1. /\ pc[o] = "idle" /\ req'[o] \in Request /\ req'[o] # None
        /\ UNCHANGED <<db, outside, txVars>>
    BY <1>3, Arrival
  <2>2. /\ tput[o] = None /\ lput[o] = None /\ ~gput[o]
        /\ kput[o] \notin {"insert", "delete"}
    BY <1>1, <2>1 DEF ScriptOf
  <2>3. /\ tput'[o] = None /\ lput'[o] = None /\ ~gput'[o]
        /\ kput'[o] \notin {"insert", "delete"} /\ inbox' = inbox
    BY <2>1, <2>2 DEF txVars, outside
  <2>4. /\ req'[o].op \in {"register", "verify"} => req'[o].token \in VTokens
        /\ req'[o].op \in {"forgot", "reset"} => req'[o].token \in RTokens
        /\ req'[o].op \in {"verify", "reset"} => req'[o].token \in inbox
        /\ req'[o].op \in {"register", "reset"} => req'[o].password # None
        /\ pc'[o] # "idle" => pc'[o] \in StatementsOf[req'[o].op]
        /\ pc'[o] \in {"idle", "findTenant", "findToken", "findIdentity",
                       "readTenant"}
    BY <1>3, Arrival DEF Fresh, StatementsOf
  <2>5. QED
    BY <2>1, <2>3, <2>4 DEF ScriptOf
<1>4. ASSUME NEW answer, Ends(o, answer) PROVE ScriptOf(o)'
  <2>1. inbox \subseteq inbox'
    BY NothingLost
  <2>2. QED
    BY <1>1, <1>4, <2>1 DEF ScriptOf, Ends
<1>5. CASE GoesOn(o)
  <2>1. inbox \subseteq inbox'
    BY NothingLost
  <2>2. CASE req[o].op = "register"
    BY <1>1, <1>5, <2>1, <2>2
    DEF GoesOn, RegisterGoes, Keeps, ScriptOf, StatementsOf, Statements
  <2>3. CASE req[o].op = "google"
    <3>1. tenant' = tenant
      BY <1>5, <2>3 DEF GoesOn, SaveResetToken, db
    <3>2. QED
      BY <1>1, <1>5, <2>1, <2>3, <3>1
      DEF GoesOn, GoogleGoes, Keeps, ScriptOf, StatementsOf, Statements
  <2>4. CASE req[o].op \in {"verify", "reset"}
    BY <1>1, <1>5, <2>1, <2>4
    DEF GoesOn, TokenGoes, Keeps, ScriptOf, StatementsOf, Statements
  <2>5. CASE req[o].op \in {"forgot", "login"}
    BY <1>1, <1>5, <2>1, <2>5
    DEF GoesOn, ForgotGoes, Keeps, ScriptOf, StatementsOf, Statements
  <2>6. QED
    BY <1>5, <2>2, <2>3, <2>4, <2>5 DEF GoesOn
<1>6. QED
  BY <1>2, <1>3, <1>4, <1>5, WhoMoves, HowItGoes

\* A request takes no row that somebody holds.
Apart(r, o) ==
    /\ tput[r] = None \/ tput[o] = None
    /\ lput[r] = None \/ lput[o] = None
    /\ ~gput[r] \/ ~gput[o]
    /\ kput[r] # None /\ kput[o] # None => req[r].token # req[o].token

LEMMA TakesFreeRows ==
    ASSUME IInv, NEW r \in Reqs, NEW o \in Reqs, r # o, GoesOn(r), Waits(o)
    PROVE  Apart(r, o)'
<1> USE SentinelAssumption
<1>1. /\ TypeOK /\ ScriptOf(o) /\ ScriptOf(r) /\ Apart(r, o)
      /\ Drawing(r) /\ (Drawing(o) \/ HasSeenToken(o)) =>
            req[o].token # req[r].token
  BY DEF IInv, Script, OneWriterPerRow, Apart, DrawnTokens
<1>2. kput[o] # None => Drawing(o) \/ HasSeenToken(o)
  BY <1>1 DEF ScriptOf, Drawing, HasSeenToken, TypeOK
<1>3. CASE req[r].op = "register"
  BY <1>1, <1>2, <1>3
  DEF GoesOn, RegisterGoes, Keeps, Apart, Waits, TenantFree, LocalFree, Drawing,
      Statements
<1>4. CASE req[r].op = "google"
  BY <1>1, <1>4 DEF GoesOn, GoogleGoes, Keeps, Apart, Waits, TenantFree, GoogleFree
<1>5. CASE req[r].op \in {"verify", "reset"}
  BY <1>1, <1>5
  DEF GoesOn, TokenGoes, Keeps, Apart, Waits, TenantFree, LocalFree, TokenFree
<1>6. CASE req[r].op \in {"forgot", "login"}
  BY <1>1, <1>6 DEF GoesOn, ForgotGoes, Keeps, Apart, Waits
<1>7. QED
  BY <1>3, <1>4, <1>5, <1>6 DEF GoesOn

\* Requests that come or go hold nothing.
LEMMA HoldsNothing ==
    ASSUME IInv, NEW o \in Reqs,
           Arrive(o) \/ \E answer : Ends(o, answer)
    PROVE  tput'[o] = None /\ lput'[o] = None /\ ~gput'[o] /\ kput'[o] = None
<1>1. TypeOK /\ ScriptOf(o)
  BY DEF IInv, Script
<1>2. CASE Arrive(o)
  <2>1. pc[o] = "idle" /\ UNCHANGED txVars
    BY <1>2, Arrival
  <2>2. tput[o] = None /\ lput[o] = None /\ ~gput[o] /\ kput[o] = None
    BY <1>1, <2>1 DEF ScriptOf, TypeOK
  <2>3. QED
    BY <2>1, <2>2 DEF txVars
<1>3. QED
  BY <1>2 DEF Ends

LEMMA WritersStep == IInv /\ [Next]_vars => OneWriterPerRow'
<1> SUFFICES ASSUME IInv, [Next]_vars, NEW r \in Reqs, NEW o \in Reqs, r # o
             PROVE  Apart(r, o)'
  BY DEF OneWriterPerRow, Apart
<1>1. Apart(r, o)
  BY DEF IInv, OneWriterPerRow, Apart
<1>2. CASE \/ Arrive(o) \/ Arrive(r)
           \/ \E answer : Ends(o, answer) \/ Ends(r, answer)
  BY <1>2, HoldsNothing DEF Apart
<1>3. CASE Waits(r) /\ Waits(o)
  BY <1>1, <1>3 DEF Apart, Waits
<1>4. CASE Statement(r) \/ SendMail(r) \/ Abandon(r)
  <2>1. Waits(o)
    BY <1>4, OthersWait
  <2>2. CASE pc[r] # "idle" /\ pc'[r] # "idle"
    BY <1>4, <2>1, <2>2, HowItGoes, TakesFreeRows
  <2>3. QED
    BY <1>2, <1>3, <2>1, <2>2, WhoMoves
<1>5. CASE Statement(o) \/ SendMail(o) \/ Abandon(o)
  <2>1. Waits(r)
    BY <1>5, OthersWait
  <2>2. CASE pc[o] # "idle" /\ pc'[o] # "idle"
    <3>1. Apart(o, r)'
      BY <1>5, <2>1, <2>2, HowItGoes, TakesFreeRows
    <3>2. QED
      BY <3>1 DEF Apart
  <2>3. QED
    BY <1>2, <1>3, <2>1, <2>2, WhoMoves
<1>6. QED
  BY <1>2, <1>3, <1>4, <1>5, WhoMoves

\* Who delivers is sending what it has drawn.
LEMMA SenderDrew ==
    ASSUME IInv, NEW r \in Reqs, SendMail(r)
    PROVE  /\ Drawing(r) /\ pc[r] \in {"sendMail", "mailOnly"}
           /\ accepted' \subseteq accepted \cup {req[r].token}
           /\ inbox' \subseteq inbox \cup {req[r].token}
           /\ UNCHANGED db
<1>1. TypeOK /\ ScriptOf(r)
  BY DEF IInv, Script
<1>2. QED
  BY <1>1, AtStatement DEF SendMail, Drawing, Request, Operations

\* What r has drawn, and o's token is another.
DrawnOf(r) ==
    Drawing(r) =>
        /\ req[r].op = "register" \/ pc[r] # "sendMail" =>
              tok[req[r].token] = "none"
        /\ pc[r] # "commit" => req[r].token \notin accepted \cup inbox

OtherToken(r, o) ==
    Drawing(r) /\ (Drawing(o) \/ HasSeenToken(o) \/ IsTold(o)) =>
        req[o].token # req[r].token

LEMMA DrawnStep == IInv /\ [Next]_vars => DrawnTokens'
<1> USE AccountsAssumption, SentinelAssumption
<1> SUFFICES ASSUME IInv, [Next]_vars, NEW r \in Reqs
             PROVE  /\ DrawnOf(r)'
                    /\ \A o \in Reqs \ {r} : OtherToken(r, o)'
  BY DEF DrawnTokens, DrawnOf, OtherToken
<1>1. /\ TypeOK /\ DrawnOf(r) /\ \A o \in Reqs : ScriptOf(o)
      /\ \A o \in Reqs : o # r => OtherToken(r, o) /\ OtherToken(o, r)
  BY DEF IInv, Script, DrawnTokens, DrawnOf, OtherToken
<1>2. CASE Waits(r)
  <2>1. DrawnOf(r)'
    <3> SUFFICES ASSUME Drawing(r)' PROVE DrawnOf(r)'
      BY DEF DrawnOf
    <3> PICK t : t = req[r].token
      OBVIOUS
    <3>1. Drawing(r) /\ t \in Tokens /\ pc'[r] = pc[r] /\ req'[r] = req[r]
      BY <1>1, <1>2 DEF Drawing, Waits, ScriptOf, Tokens
    <3>2. ~ \E q \in Reqs : /\ q # r /\ Drawing(q) /\ req[q].token = t
      BY <1>1, <3>1 DEF OtherToken
    <3>3. \A q \in Reqs : Saves(q) \/ SendMail(q)
                           \/ (\E answer : CommitsWith(q, answer)) => q # r
      BY <1>1, <1>2 DEF Saves, SaveResetToken, SaveResetTokenUnacked, SendMail,
         CommitsWith, CommitTx, Finish, Goto, TypeOK, Waits
    <3>4. tok[t] = "none" => tok'[t] = "none"
      BY <3>1, <3>2, <3>3, TokenFate
    <3>5. t \notin accepted \cup inbox => t \notin accepted' \cup inbox'
      BY <3>2, <3>3, OnlyMailerSends, SenderDrew
    <3>6. QED
      BY <1>1, <3>1, <3>4, <3>5 DEF DrawnOf, Drawing
  <2>2. ASSUME NEW o \in Reqs, o # r PROVE OtherToken(r, o)'
    <3> SUFFICES ASSUME Drawing(r)',
                        Drawing(o)' \/ HasSeenToken(o)' \/ IsTold(o)'
                 PROVE  req'[o].token # req'[r].token
      BY DEF OtherToken
    <3>1. Drawing(r) /\ pc'[r] = pc[r] /\ req'[r] = req[r]
      BY <1>2 DEF Drawing, Waits
    <3>2. ASSUME Drawing(o) \/ HasSeenToken(o) \/ IsTold(o), req'[o] = req[o]
          PROVE  req'[o].token # req'[r].token
      BY <1>1, <2>2, <3>1, <3>2 DEF OtherToken
    <3>3. CASE Waits(o)
      BY <3>2, <3>3 DEF Waits, Drawing, HasSeenToken, IsTold
    <3>4. CASE Arrive(o)
      BY <2>2, <3>1, <3>4, Arrival DEF Fresh, Drawing, HasSeenToken, IsTold
    <3>5. ASSUME NEW answer, Ends(o, answer),
                 answer # "200" \/ Commit(o) \/ ReadTenant(o)
                 \/ FindIdentity(o) \/ (SendMail(o) /\ req[o].op = "forgot")
          PROVE  req'[o].token # req'[r].token
      <4>1. /\ HasSeenToken(o)' \/ IsTold(o)'
            /\ req'[o] = req[o] /\ answer = "200" /\ pc[o] # "idle"
        BY <3>5 DEF Ends, Drawing, HasSeenToken, IsTold
      <4>2. CASE IsTold(o)'
        BY <3>2, <4>1, <4>2 DEF IsTold, Drawing
      <4>3. CASE HasSeenToken(o)'
        <5>1. pc[o] \notin {"idle", "findToken"}
          BY <1>1, <3>5, <4>1, <4>3, AtStatement
          DEF Commit, ReadTenant, FindIdentity, HasSeenToken
        <5>2. HasSeenToken(o)
          BY <4>1, <4>3, <5>1 DEF HasSeenToken
        <5>3. QED
          BY <3>2, <4>1, <5>2
      <4>4. QED
        BY <4>1, <4>2, <4>3
    <3>6. CASE GoesOn(o)
      <4>1. req'[o] = req[o] /\ pc[o] # "idle"
        BY <3>6 DEF GoesOn, Statements
      <4>2. CASE pc[o] = "findToken"
        <5>1. tok[req[o].token] # "none" /\ req[o].token \in inbox
          BY <1>1, <3>6, <4>2
          DEF GoesOn, TokenGoes, RegisterGoes, GoogleGoes, ForgotGoes, ScriptOf
        <5>2. QED
          BY <1>1, <3>1, <4>1, <5>1 DEF DrawnOf, Drawing
      <4>3. CASE pc[o] # "findToken"
        BY <3>2, <3>6, <4>1, <4>3
        DEF Drawing, HasSeenToken, IsTold, GoesOn, Statements
      <4>4. QED
        BY <4>2, <4>3
    <3>7. QED
      BY <3>3, <3>4, <3>5, <3>6, WhoMoves, HowItGoes
  <2>3. QED
    BY <2>1, <2>2
<1>3. CASE Arrive(r)
  <2>1. ASSUME Drawing(r)' PROVE DrawnOf(r)'
    BY <1>3, <2>1, Arrival DEF DrawnOf, Drawing, Fresh, db, outside
  <2>2. ASSUME NEW o \in Reqs, o # r PROVE OtherToken(r, o)'
    <3> SUFFICES ASSUME Drawing(r)',
                        Drawing(o)' \/ HasSeenToken(o)' \/ IsTold(o)'
                 PROVE  req'[o].token # req'[r].token
      BY DEF OtherToken
    <3>1. Waits(o)
      BY <1>3, <2>2, OthersWait
    <3>2. /\ req'[r].token \notin inbox
          /\ pc[o] # "idle" \/ resp[o] = "200" =>
                req[o].token # req'[r].token
      BY <1>3, <2>2, Arrival DEF Drawing, Fresh
    <3>3. pc[o] = "idle" => req[o].token \in inbox \/ resp[o] = "200"
      BY <1>1, <3>1 DEF Drawing, HasSeenToken, IsTold, Waits, ScriptOf
    <3>4. QED
      BY <3>1, <3>2, <3>3 DEF Waits
  <2>3. QED
    BY <2>1, <2>2 DEF DrawnOf
<1>4. CASE \E answer : Ends(r, answer)
  BY <1>4 DEF Ends, DrawnOf, OtherToken, Drawing
<1>5. CASE GoesOn(r) /\ (Statement(r) \/ SendMail(r) \/ Abandon(r))
  <2>1. \A o \in Reqs \ {r} : Waits(o)
    BY <1>5, OthersWait
  <2>2. req'[r] = req[r] /\ pc[r] # "idle"
    BY <1>5 DEF GoesOn, Statements
  <2>3. pc'[r] # "commit" => UNCHANGED <<accepted, inbox>>
    <3>1. ASSUME NEW q \in Reqs, SendMail(q) PROVE q = r
      BY <1>1, <2>1, <3>1 DEF SendMail, Goto, TypeOK, Waits
    <3>2. SendMail(r) => pc'[r] = "commit"
      BY <1>1, <1>5 DEF SendMail, Goto, TypeOK, GoesOn, Statements
    <3>3. QED
      BY <3>1, <3>2, OnlyMailerSends
  <2>4. ASSUME Drawing(r)' PROVE DrawnOf(r)'
    BY <1>1, <1>5, <2>2, <2>3
    DEF DrawnOf, Drawing, GoesOn, RegisterGoes, ForgotGoes, SaveResetToken, db
  <2>5. ASSUME NEW o \in Reqs, o # r PROVE OtherToken(r, o)'
    BY <1>1, <2>1, <2>2, <2>5
    DEF OtherToken, Waits, Drawing, HasSeenToken, IsTold
  <2>6. QED
    BY <2>4, <2>5 DEF DrawnOf
<1>6. QED
  BY <1>2, <1>3, <1>4, <1>5, WhoMoves, HowItGoes

\* A connection that has seen its token's row still has when it ends well.
LEMMA SawToken ==
    ASSUME IInv, [Next]_vars, NEW o \in Reqs,
           \E answer : Ends(o, answer), HasSeenToken(o)'
    PROVE  HasSeenToken(o) /\ req'[o] = req[o] /\ Commit(o)
<1>1. TypeOK /\ ScriptOf(o) /\ resp'[o] = "200" /\ req'[o] = req[o]
      /\ pc[o] # "idle" /\ pc'[o] = "idle"
  BY DEF IInv, Script, Ends, HasSeenToken
<1>2. Commit(o) \/ ReadTenant(o) \/ FindIdentity(o)
  BY <1>1, WhoMoves, Arrival DEF Waits, Ends, HasSeenToken
<1>3. req[o].op \in {"verify", "reset"}
  BY <1>1 DEF HasSeenToken
<1>4. Commit(o) /\ pc[o] = "commit"
  BY <1>1, <1>2, <1>3, AtStatement DEF Commit, ReadTenant, FindIdentity
<1>5. QED
  BY <1>1, <1>3, <1>4 DEF HasSeenToken, ScriptOf

LEMMA KnowledgeStep == IInv /\ [Next]_vars => Knowledge'
<1> USE AccountsAssumption, SentinelAssumption
<1> SUFFICES ASSUME IInv, [Next]_vars, NEW r \in Reqs PROVE KnowledgeOf(r)'
  BY DEF Knowledge
<1>1. /\ TypeOK /\ ScriptOf(r) /\ KnowledgeOf(r)
      /\ TokensHaveAccount /\ AccountHasIdentity /\ SessionFindsAccount
  BY DEF IInv, Script, Knowledge
<1>2. /\ tenant # "none" => tenant' # "none"
      /\ local # None => local' # None
      /\ google => google'
      /\ accepted \subseteq accepted'
  BY NothingLost
<1>3. CASE Waits(r)
  <2>1. /\ tput[r] # None => tenant' = tenant
        /\ gput[r] => google' = google
    BY <1>3, HeldRows
  <2>2. ASSUME pc[r] = "commit", req[r].op \in {"verify", "reset"}
        PROVE  tok'[req[r].token] = "none" <=> tok[req[r].token] = "none"
    <3> PICK t : t = req[r].token
      OBVIOUS
    <3>1. HasSeenToken(r) /\ t \in Tokens
      BY <1>1, <2>2 DEF HasSeenToken, ScriptOf, Tokens
    <3>2. \A q \in Reqs : q # r /\ Drawing(q) => req[q].token # t
      BY <3>1 DEF IInv, DrawnTokens
    <3>3. \A q \in Reqs : Saves(q) \/ (\E answer : CommitsWith(q, answer))
                              => q # r
      BY <1>1, <1>3 DEF Saves, SaveResetToken, SaveResetTokenUnacked,
         CommitsWith, CommitTx, Finish, Goto, TypeOK, Waits
    <3>4. \A q \in Reqs : q # r /\ kput[q] = "delete" /\ req[q].token = t =>
             kput[r] = None
      BY DEF IInv, OneWriterPerRow
    <3>5. kput[r] = None => tok[t] = "none"
      BY <1>1, <2>2 DEF KnowledgeOf
    <3>6. QED
      BY <3>1, <3>2, <3>3, <3>4, <3>5, TokenFate
  <2>3. QED
    BY <1>1, <1>2, <1>3, <2>1, <2>2 DEF KnowledgeOf, Waits, HasSeenToken
<1>4. CASE Arrive(r)
  <2>1. UNCHANGED db /\ ~HasSeenToken(r)' /\ ~gput'[r] /\ tput'[r] = None
    BY <1>4, Arrival, HoldsNothing DEF HasSeenToken
  <2>2. /\ pc'[r] \in {"findTenant", "findToken", "findIdentity", "readTenant",
                       "idle"}
        /\ pc'[r] = "readTenant" => session /\ req'[r].op = "me"
    BY <1>4, Arrival
  <2>3. QED
    BY <1>1, <2>1, <2>2 DEF KnowledgeOf, SessionFindsAccount, db
<1>5. CASE \E answer : Ends(r, answer)
  <2>1. pc'[r] = "idle" /\ ~gput'[r]
    BY <1>5 DEF Ends
  <2>2. HasSeenToken(r)' => HasSeenToken(r) /\ req'[r] = req[r]
    BY <1>5, SawToken
  <2>3. QED
    BY <1>1, <1>2, <2>1, <2>2 DEF KnowledgeOf
<1>6. CASE GoesOn(r)
  <2>1. req'[r] = req[r] /\ tenant' = tenant /\ local' = local
        /\ google' = google /\ pc[r] # "idle" /\ pc'[r] # "idle"
    BY <1>6 DEF GoesOn, Statements, db, SaveResetToken
  <2>2. CASE req[r].op = "register"
    BY <1>1, <1>2, <1>6, <2>1, <2>2
    DEF GoesOn, RegisterGoes, Keeps, KnowledgeOf, HasSeenToken
  <2>3. CASE req[r].op = "google"
    BY <1>1, <1>6, <2>1, <2>3
    DEF GoesOn, GoogleGoes, Keeps, KnowledgeOf, HasSeenToken, AccountHasIdentity,
        ScriptOf
  <2>4. CASE req[r].op \in {"verify", "reset"}
    <3>1. UNCHANGED tok
      BY <1>6, <2>4 DEF GoesOn, TokenGoes, SaveResetToken, db
    <3>2. CASE pc[r] = "findToken"
      <4>1. tok[req[r].token] # "none" /\ pc'[r] # "commit"
            /\ pc'[r] # "readTenant"
        BY <1>6, <2>4, <3>2 DEF GoesOn, TokenGoes
      <4>2. /\ req[r].op = "verify" => tenant # "none"
            /\ req[r].op = "reset" => local # None
        BY <1>1, <2>1, <2>4, <4>1 DEF ScriptOf, TokensHaveAccount
      <4>3. QED
        BY <2>1, <2>4, <4>1, <4>2 DEF KnowledgeOf
    <3>3. CASE pc[r] # "findToken"
      <4>1. HasSeenToken(r)
        BY <1>1, <2>1, <2>4, <3>3 DEF HasSeenToken, ScriptOf
      <4>2. pc'[r] # "readTenant"
        BY <1>6, <2>4 DEF GoesOn, TokenGoes
      <4>3. pc'[r] = "commit" => (kput'[r] = "delete" <=> tok[req[r].token] # "none")
        BY <1>1, <1>6, <2>4, <3>3 DEF GoesOn, TokenGoes, ScriptOf
      <4>4. QED
        BY <1>1, <2>1, <2>4, <3>1, <4>1, <4>2, <4>3 DEF KnowledgeOf
    <3>4. QED
      BY <3>2, <3>3
  <2>5. CASE req[r].op = "forgot"
    BY <1>1, <1>6, <2>1, <2>5
    DEF GoesOn, ForgotGoes, Keeps, KnowledgeOf, HasSeenToken
  <2>6. CASE req[r].op = "login"
    BY <1>1, <1>6, <2>1, <2>6
    DEF GoesOn, Keeps, KnowledgeOf, HasSeenToken, AccountHasIdentity
  <2>7. QED
    BY <1>6, <2>2, <2>3, <2>4, <2>5, <2>6 DEF GoesOn
<1>7. QED
  BY <1>3, <1>4, <1>5, <1>6, WhoMoves, HowItGoes

\* The account, its identities and its tokens come and go together.
LEMMA TablesStep ==
    ASSUME IInv, [Next]_vars
    PROVE  TokensHaveAccount' /\ AccountHasIdentity' /\ InactiveWasMailed'
<1> USE AccountsAssumption, SentinelAssumption
<1>1. /\ TypeOK /\ TokensHaveAccount /\ AccountHasIdentity
      /\ InactiveWasMailed
  BY DEF IInv
<1>2. accepted \subseteq accepted'
  BY NothingLost
<1>3. VTokens \subseteq Tokens /\ RTokens \subseteq Tokens
  BY DEF Tokens
<1>4. ASSUME UNCHANGED <<tenant, local, google>>,
             \A t \in VTokens : tok'[t] = "none" <=> tok[t] = "none",
             \A t \in RTokens : tok'[t] # "none" => local # None
      PROVE  TokensHaveAccount' /\ AccountHasIdentity' /\ InactiveWasMailed'
  BY <1>1, <1>2, <1>4
  DEF TokensHaveAccount, AccountHasIdentity, InactiveWasMailed
<1>5. CASE UNCHANGED db
  BY <1>1, <1>4, <1>5 DEF db, TokensHaveAccount
<1>6. ASSUME NEW r \in Reqs, NEW answer, CommitsWith(r, answer)
      PROVE  TokensHaveAccount' /\ AccountHasIdentity' /\ InactiveWasMailed'
  <2> PICK t : t = req[r].token
    OBVIOUS
  <2>1. tok \in [Tokens -> {"none", "valid", "expired"}]
    BY <1>1 DEF TypeOK
  <2>2. CASE req[r].op = "register"
    <3>1. /\ tenant = "none" /\ tenant' = "inactive" /\ local' # None
          /\ local = None /\ t \in VTokens /\ t \in accepted
          /\ tok' = [tok EXCEPT ![t] = "valid"]
      BY <1>6, <2>2, CommitEffect
    <3>2. /\ \A u \in VTokens \ {t} : tok'[u] = "none"
          /\ \A u \in RTokens : tok'[u] = "none"
          /\ tok'[t] = "valid"
      BY <1>1, <1>3, <2>1, <3>1 DEF TokensHaveAccount
    <3>3. QED
      BY <1>2, <3>1, <3>2
      DEF TokensHaveAccount, AccountHasIdentity, InactiveWasMailed
  <2>3. CASE req[r].op = "google"
    BY <1>1, <1>2, <1>6, <2>3, CommitEffect
    DEF TokensHaveAccount, AccountHasIdentity, InactiveWasMailed
  <2>4. CASE req[r].op = "verify"
    <3>1. /\ tenant # "none" /\ tenant' = "active" /\ local' = local
          /\ google' = google /\ t \in VTokens
          /\ tok' = [tok EXCEPT ![t] = "none"]
      BY <1>6, <2>4, CommitEffect
    <3>2. \A u \in RTokens : tok'[u] = tok[u]
      BY <1>3, <2>1, <3>1
    <3>3. QED
      BY <1>1, <3>1, <3>2
      DEF TokensHaveAccount, AccountHasIdentity, InactiveWasMailed
  <2>5. CASE req[r].op = "reset"
    <3>1. /\ tenant' = tenant /\ google' = google /\ local # None
          /\ local' # None /\ t \in RTokens
          /\ tok' = [tok EXCEPT ![t] = "none"]
      BY <1>6, <2>5, CommitEffect
    <3>2. \A u \in VTokens : tok'[u] = tok[u]
      BY <1>3, <2>1, <3>1
    <3>3. QED
      BY <1>1, <1>2, <3>1, <3>2
      DEF TokensHaveAccount, AccountHasIdentity, InactiveWasMailed
  <2>6. QED
    BY <1>6, <2>2, <2>3, <2>4, <2>5, CommitEffect
<1>7. ASSUME NEW r \in Reqs, Saves(r)
      PROVE  TokensHaveAccount' /\ AccountHasIdentity' /\ InactiveWasMailed'
  <2>1. /\ UNCHANGED <<tenant, local, google>> /\ local # None
        /\ req[r].token \in RTokens
        /\ tok' = [tok EXCEPT ![req[r].token] = "valid"]
    BY <1>7 DEF Saves, SaveResetToken, SaveResetTokenUnacked, IInv, Script,
       ScriptOf, Knowledge, KnowledgeOf
  <2>2. \A t \in VTokens : tok'[t] = tok[t]
    BY <1>1, <1>3, <2>1 DEF TypeOK
  <2>3. QED
    BY <1>4, <2>1, <2>2
<1>8. ASSUME NEW t \in Tokens, Expire(t)
      PROVE  TokensHaveAccount' /\ AccountHasIdentity' /\ InactiveWasMailed'
  <2>1. /\ UNCHANGED <<tenant, local, google>>
        /\ \A u \in Tokens : tok'[u] = "none" <=> tok[u] = "none"
    BY <1>1, <1>8 DEF Expire, TypeOK
  <2>2. QED
    BY <1>1, <1>3, <1>4, <2>1 DEF TokensHaveAccount
<1>9. QED
  BY <1>5, <1>6, <1>7, <1>8, Writers

\* An answer of success is true, and stays true.
AnswerOf(r) ==
    pc[r] = "idle" /\ resp[r] = "200" =>
        /\ req[r].op = "register" =>
              /\ req[r].token \in accepted
              /\ tenant = "active" \/ tok[req[r].token] # "none"
        /\ req[r].op = "verify" =>
              tenant = "active" /\ tok[req[r].token] = "none"
        /\ req[r].op = "reset" =>
              local # None /\ tok[req[r].token] = "none"
        /\ req[r].op = "login" => tenant = "active" /\ local # None
        /\ req[r].op = "google" => google
        /\ req[r].op = "forgot" =>
              (tok[req[r].token] # "none" => req[r].token \in accepted)

LEMMA AnswersByOp == AnswersAreTrue <=> \A r \in Reqs : AnswerOf(r)
  BY DEF AnswersAreTrue, AnswerOf

LEMMA AnswersStep == IInv /\ [Next]_vars => AnswersAreTrue'
<1> USE AccountsAssumption, SentinelAssumption
<1>0. (AnswersAreTrue <=> \A r \in Reqs : AnswerOf(r))'
  BY AnswersByOp, PTL
<1> SUFFICES ASSUME IInv, [Next]_vars, NEW r \in Reqs PROVE AnswerOf(r)'
  BY <1>0
<1>1. /\ TypeOK /\ ScriptOf(r) /\ KnowledgeOf(r) /\ AnswerOf(r)
  BY AnswersByOp DEF IInv, Script, Knowledge
<1>2. /\ tenant = "active" => tenant' = "active"
      /\ local # None => local' # None
      /\ google => google'
      /\ accepted \subseteq accepted'
  BY NothingLost
<1>3. CASE Waits(r)
  <2> SUFFICES ASSUME pc[r] = "idle", resp[r] = "200" PROVE AnswerOf(r)'
    BY <1>3 DEF AnswerOf, Waits
  <2> PICK t : t = req[r].token
    OBVIOUS
  <2>1. req[r] # None
    BY <1>1 DEF ScriptOf
  <2>2. CASE req[r].op = "register"
    <3>1. t \in VTokens /\ t \in Tokens
      BY <1>1, <2>1, <2>2 DEF ScriptOf, Tokens
    <3>2. ASSUME NEW q \in Reqs, NEW answer, CommitsWith(q, answer),
                 req[q].op \in {"verify", "reset"}, req[q].token = t
          PROVE  tenant' = "active"
      BY <3>1, <3>2, CommitEffect
    <3>3. tok[t] # "none" => tok'[t] # "none" \/ tenant' = "active"
      BY <3>1, <3>2, TokenFate
    <3>4. QED
      BY <1>1, <1>2, <1>3, <2>2, <3>3 DEF AnswerOf, Waits
  <2>3. CASE req[r].op \in {"verify", "reset"}
    <3>1. HasSeenToken(r) /\ t \in Tokens
      BY <1>1, <2>1, <2>3 DEF ScriptOf, HasSeenToken, Tokens
    <3>2. \A q \in Reqs : Drawing(q) => q # r /\ req[q].token # t
      BY <3>1 DEF IInv, DrawnTokens, Drawing
    <3>3. tok[t] = "none" => tok'[t] = "none"
      BY <3>1, <3>2, TokenFate
    <3>4. QED
      BY <1>1, <1>2, <1>3, <2>3, <3>3 DEF AnswerOf, Waits
  <2>4. CASE req[r].op = "forgot"
    <3>1. IsTold(r) /\ t \in Tokens
      BY <1>1, <2>1, <2>4 DEF ScriptOf, IsTold, Tokens
    <3>2. \A q \in Reqs : Drawing(q) => q # r /\ req[q].token # t
      BY <3>1 DEF IInv, DrawnTokens, Drawing
    <3>3. tok[t] = "none" => tok'[t] = "none"
      BY <3>1, <3>2, TokenFate
    <3>4. QED
      BY <1>1, <1>2, <1>3, <2>4, <3>3 DEF AnswerOf, Waits
  <2>5. CASE req[r].op \notin {"register", "verify", "reset", "forgot"}
    BY <1>1, <1>2, <1>3, <2>5 DEF AnswerOf, Waits
  <2>6. QED
    BY <2>2, <2>3, <2>4, <2>5
<1>4. CASE Arrive(r)
  BY <1>4, Arrival DEF AnswerOf
<1>5. CASE GoesOn(r)
  BY <1>5 DEF GoesOn, Statements, AnswerOf
<1>6. ASSUME NEW answer, answer # "200", Ends(r, answer) PROVE AnswerOf(r)'
  BY <1>6 DEF Ends, AnswerOf
<1>7. CASE Commit(r) /\ Ends(r, "200")
  <2> PICK t : t = req[r].token
    OBVIOUS
  <2>1. CommitsWith(r, "200") /\ req'[r] = req[r]
    BY <1>7 DEF Commit, CommitsWith, Ends
  <2>2. CASE req[r].op = "register"
    <3>1. t \in VTokens /\ t \in accepted /\ tok' = [tok EXCEPT ![t] = "valid"]
      BY <2>1, <2>2, CommitEffect
    <3>2. QED
      BY <1>1, <1>2, <2>1, <2>2, <3>1 DEF AnswerOf, TypeOK, Tokens
  <2>3. CASE req[r].op = "google"
    BY <2>1, <2>3, CommitEffect DEF AnswerOf
  <2>4. CASE req[r].op = "verify"
    <3>1. t \in VTokens /\ tenant' = "active" /\ tok' = [tok EXCEPT ![t] = "none"]
      BY <2>1, <2>4, CommitEffect
    <3>2. QED
      BY <1>1, <2>1, <2>4, <3>1 DEF AnswerOf, TypeOK, Tokens
  <2>5. CASE req[r].op = "reset"
    <3>1. t \in RTokens /\ local' # None /\ tok' = [tok EXCEPT ![t] = "none"]
      BY <2>1, <2>5, CommitEffect
    <3>2. QED
      BY <1>1, <2>1, <2>5, <3>1 DEF AnswerOf, TypeOK, Tokens
  <2>6. QED
    BY <2>1, <2>2, <2>3, <2>4, <2>5, CommitEffect
<1>8. CASE ReadTenant(r) /\ Ends(r, "200")
  <2>1. /\ pc[r] = "readTenant" /\ req'[r] = req[r] /\ UNCHANGED db
        /\ tenant = "active" \/ req[r].op # "login"
    BY <1>1, <1>8 DEF ReadTenant, Rollback, Finish, TypeOK, Ends
  <2>2. req[r].op \in {"google", "login", "me"}
    BY <1>1, <2>1, AtStatement DEF Request, Operations
  <2>3. QED
    BY <1>1, <2>1, <2>2 DEF AnswerOf, KnowledgeOf, db
<1>9. CASE FindIdentity(r) /\ Ends(r, "200")
  <2>1. req[r].op \in {"login", "google", "forgot"}
    BY <1>1, <1>9, AtStatement DEF FindIdentity, Request, Operations
  <2>2. req[r].op = "forgot" /\ req'[r] = req[r] /\ tok' = tok
    BY <1>1, <1>9, <2>1
    DEF FindIdentity, Rollback, Finish, Goto, TypeOK, Ends, db
  <2>3. Drawing(r) /\ pc[r] # "sendMail"
    BY <1>9, <2>2 DEF FindIdentity, Drawing
  <2>4. tok[req[r].token] = "none"
    BY <2>3 DEF IInv, DrawnTokens
  <2>5. QED
    BY <2>2, <2>4 DEF AnswerOf
<1>10. CASE SendMail(r) /\ req[r].op = "forgot" /\ Ends(r, "200")
  <2>1. req'[r] = req[r] /\ resp'[r] = "200"
    BY <1>10 DEF Ends
  <2>2. req[r].token \in accepted'
    BY <1>1, <1>10, <2>1 DEF SendMail, TypeOK
  <2>3. QED
    BY <1>10, <2>1, <2>2 DEF AnswerOf
<1>11. QED
  BY <1>3, <1>4, <1>5, <1>6, <1>7, <1>8, <1>9, <1>10, WhoMoves, HowItGoes

\* Who signs a session token knows of the account, and who says that there
\* is none, or that there is one already, has looked.
LEMMA SessionStep ==
    ASSUME IInv, [Next]_vars
    PROVE  /\ SessionFindsAccount'
           /\ \A r \in Reqs :
                 resp'[r] = "409" => resp[r] = "409" \/ tenant # "none"
<1> USE SentinelAssumption
<1>1. TypeOK /\ SessionFindsAccount /\ \A r \in Reqs : KnowledgeOf(r)
  BY DEF IInv, Knowledge
<1>2. tenant # "none" => tenant' # "none"
  BY NothingLost
<1> DEFINE Goal == /\ SessionFindsAccount'
                   /\ \A r \in Reqs :
                         resp'[r] = "409" => resp[r] = "409" \/ tenant # "none"
<1>3. ASSUME session' => session \/ tenant' # "none",
             \A r \in Reqs : \/ resp'[r] = resp[r]
                             \/ resp'[r] \notin {"404", "409"}
                             \/ resp'[r] = "409" /\ tenant # "none"
      PROVE  Goal
  BY <1>1, <1>2, <1>3 DEF SessionFindsAccount
<1>4. ASSUME NEW r \in Reqs, NEW answer, Finish(r, answer),
             answer = "200" /\ IssuesSession(r) => tenant' # "none",
             answer # "404", answer = "409" => tenant # "none"
      PROVE  Goal
  BY <1>1, <1>3, <1>4 DEF Finish, TypeOK
<1>5. ASSUME NEW r \in Reqs, UNCHANGED session,
             UNCHANGED resp \/ \E answer \in {"none", "403", "200", "500"} :
                                 resp' = [resp EXCEPT ![r] = answer]
      PROVE  Goal
  BY <1>1, <1>3, <1>5 DEF TypeOK
<1>6. ASSUME NEW r \in Reqs, Arrive(r) PROVE Goal
  BY <1>5, <1>6 DEF Arrive, ReceiveRegister, ReceiveVerify, ReceiveLogin,
     ReceiveGoogle, ReceiveMe, ReceiveForgot, ReceiveReset, Receive, outside
<1>7. ASSUME NEW r \in Reqs, Statement(r) PROVE Goal
  <2>1. CASE FindIdentity(r)
    <3>1. req[r].op \in {"login", "google", "forgot"}
      BY <2>1, AtStatement DEF FindIdentity, IInv, Script, Request, Operations
    <3>2. QED
      BY <1>4, <1>5, <2>1, <3>1
      DEF FindIdentity, Rollback, IssuesSession, outside
  <2>2. CASE FindTenant(r) \/ FindToken(r) \/ DropExpired(r)
             \/ InsertTenant(r) \/ InsertGoogleIdentity(r)
    BY <1>4, <1>5, <2>2
    DEF FindTenant, FindToken, DropExpired, InsertTenant, InsertGoogleIdentity,
        Rollback, outside
  <2>3. CASE \/ InsertLocalIdentity(r) \/ InsertVerificationToken(r)
             \/ Activate(r) \/ SetPassword(r) \/ DeleteToken(r)
             \/ SaveResetToken(r)
    BY <1>5, <2>3, RowsToUpdate
    DEF InsertLocalIdentity, InsertVerificationToken, DeleteToken,
        SaveResetToken, outside
  <2>4. CASE ReadTenant(r)
    <3>1. tenant # "none"
      BY <1>1, <2>4 DEF ReadTenant, KnowledgeOf
    <3>2. QED
      BY <1>2, <1>4, <2>4, <3>1 DEF ReadTenant, Rollback
  <2>5. CASE Commit(r)
    <3> PICK t : t = req[r].token
      OBVIOUS
    <3>1. CommitsWith(r, "200") /\ Finish(r, "200")
      BY <2>5 DEF Commit, CommitTx, CommitsWith
    <3>2. IssuesSession(r) => tenant' # "none"
      BY <3>1, CommitEffect DEF IssuesSession
    <3>3. QED
      BY <1>4, <3>1, <3>2
  <2>6. QED
    BY <1>7, <2>1, <2>2, <2>3, <2>4, <2>5 DEF Statement
<1>8. ASSUME NEW r \in Reqs, SendMail(r) PROVE Goal
  BY <1>5, <1>8 DEF SendMail
<1>9. ASSUME NEW r \in Reqs, Abandon(r) PROVE Goal
  BY <1>5, <1>9 DEF Abandon, outside
<1>10. ASSUME NEW r \in Reqs,
              \/ DeleteTokenFails(r) \/ CommitUnacked(r) \/ Error(r)
              \/ SaveResetTokenUnacked(r)
       PROVE  Goal
  BY <1>4, <1>10
  DEF DeleteTokenFails, CommitUnacked, CommitTx, Error, SaveResetTokenUnacked,
      Rollback
<1>11. CASE (\E t \in Tokens : Expire(t)) \/ ExpireSession \/ Crash
            \/ UNCHANGED vars
  BY <1>3, <1>11 DEF Expire, ExpireSession, Crash, vars, outside
<1>12. QED
  BY <1>6, <1>7, <1>8, <1>9, <1>10, <1>11 DEF Next

-----------------------------------------------------------------------------
(***************************************************************************)
(* The invariant, and what it says.                                        *)
(***************************************************************************)
LEMMA InvInit == Init => IInv
<1> USE SentinelAssumption
<1> SUFFICES ASSUME Init PROVE IInv
  OBVIOUS
<1>1. TypeOK
  BY DEF Init, TypeOK, Answers
<1>2. Script
  BY DEF Init, Script, ScriptOf
<1>3. OneWriterPerRow /\ DrawnTokens /\ Knowledge
  BY DEF Init, OneWriterPerRow, DrawnTokens, Drawing, HasSeenToken, Knowledge,
     KnowledgeOf
<1>4. TokensHaveAccount /\ AccountHasIdentity /\ InactiveWasMailed
  BY DEF Init, TokensHaveAccount, AccountHasIdentity, InactiveWasMailed, Tokens
<1>5. AnswersAreTrue /\ SessionFindsAccount
  BY DEF Init, AnswersAreTrue, SessionFindsAccount
<1>6. QED
  BY <1>1, <1>2, <1>3, <1>4, <1>5 DEF IInv

LEMMA InvStep == IInv /\ [Next]_vars => IInv'
<1> SUFFICES ASSUME IInv, [Next]_vars PROVE IInv'
  OBVIOUS
<1>1. TypeOK' /\ Script' /\ OneWriterPerRow' /\ DrawnTokens' /\ Knowledge'
  BY TypeStep, ScriptStep, WritersStep, DrawnStep, KnowledgeStep DEF IInv
<1>2. /\ TokensHaveAccount' /\ AccountHasIdentity' /\ InactiveWasMailed'
      /\ AnswersAreTrue' /\ SessionFindsAccount'
  BY TablesStep, AnswersStep, SessionStep
<1>3. QED
  BY <1>1, <1>2 DEF IInv

(* The inductive invariant of the account service: the statements each     *)
(* handler of auth_service.go may be at and what it holds there, the row   *)
(* locks, the tokens nobody else knows yet, and what each request has      *)
(* learnt from the rows it has read.                                       *)
THEOREM Invariance == Spec => []IInv
  BY InvInit, InvStep, PTL DEF Spec

(* A registration is whole or absent: RegisterTenant and                   *)
(* HandleGoogleLogin insert the tenant and its identity in one             *)
(* transaction, whatever fails in between or runs at the same time.        *)
THEOREM WholeAccounts == Spec => []AccountHasIdentity
<1>1. IInv => AccountHasIdentity
  BY DEF IInv
<1>2. QED
  BY <1>1, Invariance, PTL

(* An account that is not active has one verification token, and the       *)
(* mailer took the message with it: RegisterTenant commits after Send.     *)
THEOREM InactiveMailed == Spec => []InactiveWasMailed
<1>1. IInv => InactiveWasMailed
  BY DEF IInv
<1>2. QED
  BY <1>1, Invariance, PTL

(* An answer of success to any operation of auth_service.go is true, for   *)
(* good, of both tables it is about.                                       *)
THEOREM TrueAnswers == Spec => []AnswersAreTrue
<1>1. IInv => AnswersAreTrue
  BY DEF IInv
<1>2. QED
  BY <1>1, Invariance, PTL

(* Whoever holds a session token has an account, so that GetTenant finds   *)
(* it: generateAppJWT only signs for what is committed.                    *)
THEOREM SessionsFind == Spec => []SessionFindsAccount
<1>1. IInv => SessionFindsAccount
  BY DEF IInv
<1>2. QED
  BY <1>1, Invariance, PTL

(* A registration answers 409 only when the account exists: the unique     *)
(* index makes RegisterTenant wait for a rival that may still roll back.   *)
THEOREM ConflictsExist == Spec => []ConflictMeansAccountExists
<1>1. Init => ConflictMeansAccountExists
  BY DEF Init, ConflictMeansAccountExists
<1>2. IInv /\ ConflictMeansAccountExists /\ [Next]_vars =>
         ConflictMeansAccountExists'
  BY SessionStep, NothingLost DEF ConflictMeansAccountExists
<1>3. QED
  BY <1>1, <1>2, Invariance, PTL DEF Spec

(* A valid token goes only in the commit in which it does what it is for   *)
(* (VerifyAccount and ResetPassword delete it in the same transaction), so *)
(* that a request that fails half-way can be repeated with the same link.  *)
THEOREM TokensSpent == Spec => TokenSpentWithEffect
<1>1. ASSUME IInv, [Next]_vars, NEW t \in Tokens, tok[t] = "valid",
             tok'[t] = "none"
      PROVE  \E r \in Reqs :
                /\ pc[r] = "commit" /\ req[r].token = t
                /\ req[r].op = "verify" => tenant' = "active"
                /\ req[r].op = "reset" => local' = req[r].password
  <2>1. PICK r \in Reqs :
           req[r].token = t /\ \E answer : CommitsWith(r, answer)
    BY <1>1, TokenFate
  <2>2. QED
    BY <1>1, <2>1, CommitEffect DEF CommitsWith
<1>2. IInv /\ [Next]_vars =>
         [\A t \in Tokens :
             tok[t] = "valid" /\ tok'[t] = "none" =>
                \E r \in Reqs :
                   /\ pc[r] = "commit" /\ req[r].token = t
                   /\ req[r].op = "verify" => tenant' = "active"
                   /\ req[r].op = "reset" => local' = req[r].password]_vars
  BY <1>1
<1>3. QED
  BY <1>2, Invariance, PTL DEF Spec, TokenSpentWithEffect

\* The token of a password reset is in the table while its mail is sent.
SavedOf(r) ==
    pc[r] = "sendMail" /\ req[r].op = "forgot" => tok[req[r].token] # "none"

SavedTokens == \A r \in Reqs : SavedOf(r)

LEMMA SavedStep == IInv /\ SavedTokens /\ [Next]_vars => SavedTokens'
<1> SUFFICES ASSUME IInv, SavedTokens, [Next]_vars, NEW r \in Reqs
             PROVE  SavedOf(r)'
  BY DEF SavedTokens
<1>1. TypeOK /\ ScriptOf(r) /\ SavedOf(r)
  BY DEF IInv, Script, SavedTokens
<1>2. CASE Waits(r)
  <2> SUFFICES ASSUME pc[r] = "sendMail", req[r].op = "forgot"
               PROVE  tok'[req[r].token] # "none"
    BY <1>2 DEF SavedOf, Waits
  <2> PICK t : t = req[r].token
    OBVIOUS
  <2>1. Drawing(r) /\ t \in Tokens /\ tok[t] # "none"
    BY <1>1 DEF Drawing, ScriptOf, SavedOf, Tokens
  <2>2. \A q \in Reqs : HasSeenToken(q) => q = r \/ req[q].token # t
    BY <2>1 DEF IInv, DrawnTokens
  <2>3. ~HasSeenToken(r)
    BY DEF HasSeenToken
  <2>4. tok'[t] # "none"
    BY <2>1, <2>2, <2>3, TokenFate
  <2>5. QED
    BY <2>4
<1>3. CASE Arrive(r)
  BY <1>3, Arrival DEF SavedOf
<1>4. CASE \E answer : Ends(r, answer)
  BY <1>4 DEF Ends, SavedOf
<1>5. CASE GoesOn(r)
  <2> SUFFICES ASSUME pc'[r] = "sendMail", req'[r].op = "forgot"
               PROVE  SavedOf(r)'
    BY DEF SavedOf
  <2>1. SaveResetToken(r) /\ req'[r] = req[r] /\ req[r].token \in Tokens
    BY <1>1, <1>5 DEF GoesOn, ForgotGoes, ScriptOf, Tokens
  <2>2. QED
    BY <1>1, <2>1 DEF SaveResetToken, TypeOK, SavedOf
<1>6. QED
  BY <1>2, <1>3, <1>4, <1>5, WhoMoves, HowItGoes

(* A password-reset link that reaches the owner can be found in the table: *)
(* RequestPasswordReset saves the token before it sends it, and nobody     *)
(* else can have spent it.                                                 *)
THEOREM ResetTokensSaved == Spec => MailedResetTokenIsSaved
<1>1. Init => SavedTokens
  BY DEF Init, SavedTokens, SavedOf
<1>2. Spec => [](IInv /\ SavedTokens)
  BY <1>1, SavedStep, Invariance, PTL DEF Spec
<1>3. ASSUME IInv, SavedTokens, [Next]_vars, NEW t \in RTokens,
             t \in inbox' \ inbox
      PROVE  tok'[t] # "none"
  <2>1. PICK r \in Reqs : SendMail(r)
    BY <1>3, OnlyMailerSends
  <2>2. req[r].token = t /\ Drawing(r) /\ UNCHANGED db
        /\ pc[r] \in {"sendMail", "mailOnly"}
    BY <1>3, <2>1, SenderDrew
  <2>3. TypeOK /\ ScriptOf(r) /\ req[r] # None /\ req[r].op # "register"
    BY <1>3, <2>2, AccountsAssumption DEF IInv, Script, ScriptOf, Drawing
  <2>4. pc[r] = "sendMail" /\ req[r].op = "forgot"
    BY <2>2, <2>3, AtStatement DEF Drawing
  <2>5. QED
    BY <1>3, <2>2, <2>4 DEF SavedTokens, SavedOf, db
<1>4. IInv /\ SavedTokens /\ [Next]_vars =>
         [\A t \in RTokens : t \in inbox' \ inbox => tok'[t] # "none"]_vars
  BY <1>3
<1>5. QED
  BY <1>2, <1>4, PTL DEF Spec, MailedResetTokenIsSaved

-----------------------------------------------------------------------------
(* Seen from outside, each request to auth_service.go is at most one       *)
(* indivisible step of the account (AccountLifecycle): signed up,          *)
(* activated, linked, or given another password.                           *)
THEOREM Implementation == Spec => ImplementsAccount
<1> USE SentinelAssumption
<1>1. Init => Lifecycle!Init
  BY DEF Init, Lifecycle!Init
<1>2. ASSUME IInv, NEW r \in Reqs, NEW answer, CommitsWith(r, answer)
      PROVE  Lifecycle!Next \/ UNCHANGED <<tenant, local, google>>
  <2> PICK t : t = req[r].token
    OBVIOUS
  <2>1. TypeOK /\ AccountHasIdentity
    BY <1>2 DEF IInv
  <2>2. CASE req[r].op = "register"
    BY <1>2, <2>2, CommitEffect DEF Lifecycle!Next, Lifecycle!SignUp
  <2>3. CASE req[r].op = "google" /\ tenant = "none"
    BY <1>2, <2>3, CommitEffect DEF Lifecycle!Next, Lifecycle!SignUpWithGoogle
  <2>4. CASE req[r].op = "google" /\ tenant # "none"
    BY <1>2, <2>4, CommitEffect DEF Lifecycle!Next, Lifecycle!Link
  <2>5. CASE req[r].op = "verify" /\ tenant = "inactive"
    BY <1>2, <2>5, CommitEffect DEF Lifecycle!Next, Lifecycle!Activate
  <2>6. CASE req[r].op = "verify" /\ tenant # "inactive"
    BY <1>2, <2>1, <2>6, CommitEffect DEF TypeOK
  <2>7. CASE req[r].op = "reset"
    BY <1>2, <2>7, CommitEffect DEF Lifecycle!Next, Lifecycle!ChangePassword
  <2>8. QED
    BY <1>2, <2>2, <2>3, <2>4, <2>5, <2>6, <2>7, CommitEffect
<1>3. IInv /\ [Next]_vars => [Lifecycle!Next]_<<tenant, local, google>>
  BY <1>2, Writers DEF db, Saves, SaveResetToken, SaveResetTokenUnacked, Expire
<1>4. QED
  BY <1>1, <1>3, Invariance, PTL
  DEF Spec, ImplementsAccount, Lifecycle!Spec, Lifecycle!account

=============================================================================
