---------------------------- MODULE Server_proofs -----------------------------
(***************************************************************************)
(* Proofs about Server for any number of requests, any choice of the paths *)
(* they take, and any size of the connection pool.                         *)
(***************************************************************************)
EXTENDS Server, SequenceTheorems, TLAPS

-----------------------------------------------------------------------------
(***************************************************************************)
(* Agendas and what is left of them.                                       *)
(***************************************************************************)
StageNames == {"authenticate", "decode", "callGoogle", "statement", "begin",
               "mail", "commit", "respond"}

\* What is left to do from the begin of a transaction on: mail, if there is
\* any, comes between begin and commit, and the answer after the commit.
TxAgenda(s) ==
    \/ Len(s) = 2 /\ s[1] = "commit" /\ s[2] = "respond"
    \/ /\ Len(s) = 3
       /\ s[1] \in {"begin", "mail"} /\ s[2] = "commit" /\ s[3] = "respond"
    \/ /\ Len(s) = 4
       /\ s[1] = "begin" /\ s[2] = "mail" /\ s[3] = "commit" /\ s[4] = "respond"

\* Every path ends with the answer, has none before, and begins no transaction
\* without committing it.
LEMMA AgendaShape ==
    ASSUME NEW path \in DOMAIN Stages
    PROVE  /\ Agenda(path) \in Seq(StageNames)
           /\ Len(Agenda(path)) >= 2
           /\ \A k \in 1..Len(Agenda(path)) :
                 Agenda(path)[k] = "respond" <=> k = Len(Agenda(path))
           /\ BeginsTx(Agenda(path)) <=> BeginsTx(Stages[path])
           /\ \A k \in 1..Len(Agenda(path)) :
                 Agenda(path)[k] = "begin" =>
                    TxAgenda(SubSeq(Agenda(path), k, Len(Agenda(path))))
<1> DEFINE S == Stages[path]
           n == Len(S)
<1>0. S \in {<<"statement">>,
            <<"authenticate", "statement">>,
            <<"authenticate", "statement", "statement">>,
            <<"authenticate", "decode", "begin", "commit">>,
            <<"decode", "statement", "statement">>,
            <<"decode", "begin", "commit">>,
            <<"decode", "callGoogle", "statement", "statement">>,
            <<"decode", "callGoogle", "statement", "begin", "commit">>,
            <<"decode", "begin", "mail", "commit">>,
            <<"decode", "statement", "statement", "mail">>,
            <<"decode", "statement">>}
  BY DEF Stages
<1>1. /\ S \in Seq(StageNames) /\ n \in 1..5
      /\ \A k \in 1..n : S[k] # "respond"
      /\ \A k \in 1..n : S[k] = "begin" =>
            /\ k \in {n - 1, n - 2} /\ S[n] = "commit"
            /\ \A i \in (k + 1)..(n - 1) : S[i] = "mail"
  <2>1. CASE S = <<"statement">>
    BY <2>1 DEF StageNames
  <2>2. CASE S = <<"authenticate", "statement">>
    BY <2>2 DEF StageNames
  <2>3. CASE S = <<"authenticate", "statement", "statement">>
    BY <2>3 DEF StageNames
  <2>4. CASE S = <<"authenticate", "decode", "begin", "commit">>
    BY <2>4 DEF StageNames
  <2>5. CASE S = <<"decode", "statement", "statement">>
    BY <2>5 DEF StageNames
  <2>6. CASE S = <<"decode", "begin", "commit">>
    BY <2>6 DEF StageNames
  <2>7. CASE S = <<"decode", "callGoogle", "statement", "statement">>
    BY <2>7 DEF StageNames
  <2>8. CASE S = <<"decode", "callGoogle", "statement", "begin", "commit">>
    BY <2>8 DEF StageNames
  <2>9. CASE S = <<"decode", "begin", "mail", "commit">>
    BY <2>9 DEF StageNames
  <2>10. CASE S = <<"decode", "statement", "statement", "mail">>
    BY <2>10 DEF StageNames
  <2>11. CASE S = <<"decode", "statement">>
    BY <2>11 DEF StageNames
  <2>12. QED
    BY <1>0, <2>1, <2>2, <2>3, <2>4, <2>5, <2>6, <2>7, <2>8, <2>9, <2>10, <2>11
<1>3. /\ Agenda(path) \in Seq(StageNames)
      /\ Len(Agenda(path)) = n + 1
      /\ \A k \in 1..n : Agenda(path)[k] = S[k]
      /\ Agenda(path)[n + 1] = "respond"
  BY <1>1, AppendProperties DEF Agenda, StageNames
<1>4. ASSUME NEW k \in 1..(n + 1), Agenda(path)[k] = "begin"
      PROVE  TxAgenda(SubSeq(Agenda(path), k, n + 1))
  <2> DEFINE s == SubSeq(Agenda(path), k, n + 1)
  <2>1. k \in 1..n /\ S[k] = "begin"
    BY <1>1, <1>3, <1>4
  <2>2. Len(s) = n + 2 - k /\ \A i \in 1..(n + 2 - k) : s[i] = Agenda(path)[k + i - 1]
    BY <1>1, <1>3, <2>1, SubSeqProperties
  <2>3. CASE k = n - 1
    <3>1. Len(s) = 3 /\ s[1] = S[n - 1] /\ s[2] = S[n] /\ s[3] = "respond"
      BY <1>1, <1>3, <2>1, <2>2, <2>3
    <3>2. S[n - 1] = "begin" /\ S[n] = "commit"
      BY <1>1, <2>1, <2>3
    <3>3. QED
      BY <3>1, <3>2 DEF TxAgenda
  <2>4. CASE k = n - 2
    <3>1. /\ Len(s) = 4
          /\ s[1] = S[n - 2] /\ s[2] = S[n - 1] /\ s[3] = S[n] /\ s[4] = "respond"
      BY <1>1, <1>3, <2>1, <2>2, <2>4
    <3>2. S[n - 2] = "begin" /\ S[n] = "commit" /\ S[n - 1] = "mail"
      <4>1. n - 1 \in (k + 1)..(n - 1)
        BY <1>1, <2>4
      <4>2. QED
        BY <1>1, <2>1, <2>4, <4>1
    <3>3. QED
      BY <3>1, <3>2 DEF TxAgenda
  <2>5. QED
    BY <1>1, <2>1, <2>3, <2>4
<1>5. BeginsTx(Agenda(path)) <=> BeginsTx(S)
  <2>1. \A i \in 1..n : i \in 1..(n + 1)
    BY <1>1
  <2>2. \A i \in 1..(n + 1) : i \in 1..n \/ i = n + 1
    BY <1>1
  <2>3. QED
    BY <1>3, <2>1, <2>2 DEF BeginsTx
<1>6. \A k \in 1..(n + 1) : Agenda(path)[k] = "respond" <=> k = n + 1
  BY <1>1, <1>3
<1>7. QED
  BY <1>1, <1>3, <1>4, <1>5, <1>6

\* The rest of an agenda is one after each stage, and when a stage ends the
\* request.
LEMMA RemainderShape ==
    ASSUME NEW s \in Remainders, s # <<>>
    PROVE  /\ s \in Seq(StageNames) /\ Len(s) >= 1
           /\ Tail(s) \in Remainders
           /\ <<"respond">> \in Remainders
           /\ Head(s) = "begin" => TxAgenda(s)
           /\ Head(s) = "respond" => ~BeginsTx(s)
<1>0. PICK path \in Paths :
         s \in {SubSeq(Agenda(path), k, Len(Agenda(path))) : k \in 1..Len(Agenda(path))}
  BY DEF Remainders
<1>1. PICK k \in 1..Len(Agenda(path)) : s = SubSeq(Agenda(path), k, Len(Agenda(path)))
  BY <1>0
<1> DEFINE a == Agenda(path)
           n == Len(a)
<1>2. /\ a \in Seq(StageNames) /\ n >= 2 /\ n \in Nat /\ a[n] = "respond"
      /\ \A i \in 1..n : a[i] = "respond" => i = n
  BY AgendaShape, LenProperties, ServerAssumption
<1>3. s \in Seq(StageNames) /\ Len(s) = n + 1 - k /\ s[1] = a[k]
  BY <1>1, <1>2, SubSeqProperties
<1>4. Tail(s) \in Remainders
  <2>1. Tail(s) = SubSeq(a, k + 1, n)
    BY <1>1, <1>2, HeadTailOfSubSeq
  <2>2. CASE k = n
    BY <2>1, <2>2, <1>2, SubSeqEmpty DEF Remainders
  <2>3. CASE k # n
    <3>1. k + 1 \in 1..n
      BY <1>2, <2>3
    <3>2. Tail(s) \in {SubSeq(a, j, n) : j \in 1..n}
      BY <2>1, <3>1
    <3>3. QED
      BY <3>2 DEF Remainders
  <2>4. QED
    BY <2>2, <2>3
<1>5. <<"respond">> \in Remainders
  <2>1. SubSeq(a, n, n) = <<"respond">>
    <3> DEFINE t == SubSeq(a, n, n)
    <3>1. t \in Seq(StageNames) /\ Len(t) = 1 /\ t[1] = "respond"
      BY <1>2, SubSeqProperties
    <3>2. /\ <<"respond">> \in Seq(StageNames)
          /\ Len(<<"respond">>) = 1 /\ <<"respond">>[1] = "respond"
      BY DEF StageNames
    <3>3. \A i \in 1..Len(t) : t[i] = <<"respond">>[i]
      BY <3>1, <3>2
    <3>4. QED
      BY <3>1, <3>2, <3>3, SeqEqual
  <2>2. <<"respond">> \in {SubSeq(a, j, n) : j \in 1..n}
    BY <2>1, <1>2
  <2>3. QED
    BY <2>2 DEF Remainders
<1>6. Head(s) = "begin" => TxAgenda(s)
  BY <1>1, <1>2, <1>3, AgendaShape, ServerAssumption
<1>7. Head(s) = "respond" => ~BeginsTx(s)
  <2>1. SUFFICES ASSUME Head(s) = "respond" PROVE ~BeginsTx(s)
    OBVIOUS
  <2>2. a[k] = "respond"
    BY <1>1, <1>2, <1>3, <2>1
  <2>3. Len(s) = 1 /\ s[1] = "respond"
    BY <1>2, <1>3, <2>2
  <2>4. QED
    BY <2>3 DEF BeginsTx
<1>8. QED
  BY <1>2, <1>3, <1>4, <1>5, <1>6, <1>7

\* A stage that begins nothing leaves what is to be begun.
LEMMA BeginTail ==
    ASSUME NEW s \in Seq(StageNames), s # <<>>, s[1] # "begin"
    PROVE  BeginsTx(Tail(s)) <=> BeginsTx(s)
<1>1. /\ Len(s) \in Nat /\ Len(Tail(s)) = Len(s) - 1
      /\ \A i \in 1..Len(Tail(s)) : Tail(s)[i] = s[i + 1]
  BY HeadTailProperties
<1>2. ASSUME NEW i \in 1..Len(Tail(s)), Tail(s)[i] = "begin"
      PROVE  BeginsTx(s)
  <2>1. i + 1 \in 1..Len(s) /\ s[i + 1] = "begin"
    BY <1>1, <1>2
  <2>2. QED
    BY <2>1 DEF BeginsTx
<1>3. ASSUME NEW i \in 1..Len(s), s[i] = "begin"
      PROVE  BeginsTx(Tail(s))
  <2>1. i # 1
    BY <1>3
  <2>2. i - 1 \in 1..Len(Tail(s)) /\ (i - 1) + 1 = i
    BY <1>1, <2>1
  <2>3. Tail(s)[i - 1] = "begin"
    BY <1>1, <1>3, <2>2
  <2>4. QED
    BY <2>2, <2>3 DEF BeginsTx
<1>4. QED
  BY <1>2, <1>3 DEF BeginsTx

\* Where a request in a transaction goes from a stage.
LEMMA TxTail ==
    ASSUME NEW s \in Seq(StageNames), TxAgenda(s)
    PROVE  /\ s # <<>> /\ s[1] \in {"begin", "mail", "commit"}
           /\ Tail(s) # <<>>
           /\ s[1] = "commit" => Tail(s)[1] = "respond"
           /\ s[1] # "commit" => TxAgenda(Tail(s)) /\ Tail(s)[1] # "begin"
<1>1. Len(s) \in {2, 3, 4}
  BY DEF TxAgenda
<1>2. s # <<>>
  BY <1>1
<1>3. /\ Tail(s) \in Seq(StageNames)
      /\ Len(Tail(s)) = Len(s) - 1
      /\ \A i \in 1..Len(Tail(s)) : Tail(s)[i] = s[i + 1]
  BY <1>2, HeadTailProperties
<1>4. Tail(s) # <<>>
  <2>1. Len(Tail(s)) # 0 /\ Len(<<>>) = 0
    BY <1>1, <1>3
  <2>2. QED
    BY <2>1
<1>5. CASE Len(s) = 2
  <2>1. Tail(s)[1] = s[2]
    BY <1>3, <1>5
  <2>2. QED
    BY <1>2, <1>4, <1>5, <2>1 DEF TxAgenda
<1>6. CASE Len(s) = 3
  <2>1. s[1] \in {"begin", "mail"} /\ s[2] = "commit" /\ s[3] = "respond"
    BY <1>6 DEF TxAgenda
  <2>2. Len(Tail(s)) = 2 /\ Tail(s)[1] = "commit" /\ Tail(s)[2] = "respond"
    BY <1>3, <1>6, <2>1
  <2>3. TxAgenda(Tail(s))
    BY <2>2 DEF TxAgenda
  <2>4. QED
    BY <1>2, <1>4, <2>1, <2>2, <2>3
<1>7. CASE Len(s) = 4
  <2>1. s[1] = "begin" /\ s[2] = "mail" /\ s[3] = "commit" /\ s[4] = "respond"
    BY <1>7 DEF TxAgenda
  <2>2. /\ Len(Tail(s)) = 3 /\ Tail(s)[1] = "mail"
        /\ Tail(s)[2] = "commit" /\ Tail(s)[3] = "respond"
    BY <1>3, <1>7, <2>1
  <2>3. TxAgenda(Tail(s))
    BY <2>2 DEF TxAgenda
  <2>4. QED
    BY <1>2, <1>4, <2>1, <2>2, <2>3
<1>8. QED
  BY <1>1, <1>5, <1>6, <1>7

-----------------------------------------------------------------------------
(***************************************************************************)
(* The inductive invariant.  ConnectionsOwned and the truth of an answer   *)
(* both rest on where in its agenda a request can be while it has a        *)
(* transaction, the latter also on what is ahead of it before that; what a *)
(* mailer promises, on who can be at which of its steps; and what is       *)
(* logged, on which deadline comes first.                                  *)
(***************************************************************************)
\* A transaction is open, or lost behind the back of its handler, only on the
\* way to its commit, and committed only when there is nothing left but to say
\* so.
TransactionsOnTheWay ==
    \A r \in Reqs :
        /\ tx[r] \in {"open", "rolledback"} => TxAgenda(todo[r])
        /\ tx[r] = "rolledback" => Stage(r) # "begin"
        /\ tx[r] = "committed" => Stage(r) = "respond"

\* Before its transaction a request has it ahead, if its path has one, and after
\* it nothing but an error: this is what tells a handler that has no transaction
\* from one whose transaction failed.
BeginIsAhead ==
    \A r \in Reqs :
        /\ tx[r] # "none" => BeginsTx(Stages[route[r]])
        /\ /\ ~Idle(r) /\ tx[r] = "none"
           /\ Stage(r) = "respond" => answer[r] = "200"
           => (BeginsTx(todo[r]) <=> BeginsTx(Stages[route[r]]))

\* A call of Send is at the steps of the mailer that was chosen.  It has sent
\* nothing before the last of them, and SES has an attempt left.
CallsOfTheMailer ==
    /\ Running => kind \in Kinds
    /\ \A r \in Reqs :
          /\ kind = "none" => send[r] = "none"
          /\ send[r] \in {"dialogue", "endOfData"} => kind = "smtp"
          /\ send[r] = "sendEmail" => kind = "ses"
          /\ send[r] \in (Sending \ {"sendEmail"}) \cup {"none"} => copies[r] = 0
          /\ send[r] = "sendEmail" => copies[r] < MaxAttempts

\* The client of a handler that meets chi's deadline was given up before.
DeadlineIsLate == \A r \in Reqs : ctx[r] = "deadline" => late[r]

ServerInv ==
    /\ TypeOK
    /\ TransactionsOnTheWay
    /\ BeginIsAhead
    /\ ConnectionsOwned
    /\ CallsOfTheMailer
    /\ SmtpFailureDeliversNothing
    /\ DeadlineIsLate

\* What is known of a request at one of its stages.
LEMMA AtStage ==
    ASSUME TypeOK, NEW r \in Reqs, ~Idle(r)
    PROVE  /\ todo[r] \in Seq(StageNames) /\ todo[r] # <<>>
           /\ Stage(r) = todo[r][1] /\ Stage(r) \in StageNames
           /\ Tail(todo[r]) \in Remainders
           /\ <<"respond">> \in Remainders
           /\ Stage(r) = "begin" => TxAgenda(todo[r])
           /\ Stage(r) = "respond" => ~BeginsTx(todo[r])
<1>1. todo[r] \in Remainders /\ todo[r] # <<>>
  BY DEF TypeOK, Idle
<1>2. Stage(r) = Head(todo[r])
  BY DEF Stage
<1>3. QED
  BY <1>1, <1>2, RemainderShape, HeadTailProperties

\* The sequence of one stage.
LEMMA LastStage ==
    <<"respond">> # <<>> /\ Head(<<"respond">>) = "respond"
  OBVIOUS

LEMMA ServerInit ==
    Init => ServerInv
<1> SUFFICES ASSUME Init PROVE ServerInv
  OBVIOUS
<1>1. TypeOK
  BY MailersAssumption DEF Init, MailInit, TypeOK, Remainders
<1>2. QED
  BY <1>1 DEF Init, MailInit, ServerInv, TransactionsOnTheWay, BeginIsAhead,
     ConnectionsOwned,
     CallsOfTheMailer, SmtpFailureDeliversNothing, DeadlineIsLate, Running,
     Stage, Idle

-----------------------------------------------------------------------------
(***************************************************************************)
(* The steps.                                                              *)
(***************************************************************************)
\* A request that goes on, or ends, has a rest of its agenda before it.
LEMMA StageEnds ==
    ASSUME TypeOK, NEW r \in Reqs, ~Idle(r),
           GoOn(r) \/ EndWith(r, "4xx") \/ EndWith(r, "500")
    PROVE  /\ todo' \in [Reqs -> Remainders] /\ route' = route
           /\ answer' \in [Reqs -> {"none", "200", "4xx", "500"}]
<1>1. Tail(todo[r]) \in Remainders /\ <<"respond">> \in Remainders
  BY AtStage
<1>2. QED
  BY <1>1 DEF TypeOK, GoOn, EndWith

\* What the mail server and the mailer do keeps the types of a call.
LEMMA MailType ==
    ASSUME TypeOK, CallsOfTheMailer, Running, NEW r \in Reqs,
           Send(r) \/ LogMessage(r) \/ MailServer(r) \/ Forget(r)
    PROVE  /\ kind' \in Kinds \cup {"none"}
           /\ send' \in [Reqs -> Sending \cup {"none", "ok", "failed"}]
           /\ copies' \in [Reqs -> 0..MaxAttempts]
<1>1. kind \in Kinds
  BY DEF CallsOfTheMailer
<1>2. CASE Send(r)
  BY <1>1, <1>2 DEF TypeOK, Send, At, Kinds, Sending
<1>3. CASE LogMessage(r)
  BY <1>3 DEF TypeOK, LogMessage, At
<1>4. CASE Dialogue(r)
  BY <1>4 DEF TypeOK, Dialogue, At, Sending
<1>5. CASE EndData(r)
  BY <1>5, MailersAssumption DEF TypeOK, EndData, At
<1>6. CASE TryAgain(r) \/ SendEmail(r)
  <2>1. copies[r] \in 0..MaxAttempts /\ copies[r] < MaxAttempts
    BY <1>6 DEF TypeOK, CallsOfTheMailer, TryAgain, SendEmail
  <2>2. copies[r] + 1 \in 0..MaxAttempts
    BY <2>1, MailersAssumption
  <2>3. copies' \in {copies, [copies EXCEPT ![r] = copies[r] + 1]}
    BY <1>6 DEF TryAgain, SendEmail
  <2>4. copies' \in [Reqs -> 0..MaxAttempts]
    BY <2>2, <2>3 DEF TypeOK
  <2>5. /\ kind' = kind
        /\ send' = send \/ At(r, "ok") \/ At(r, "failed")
    BY <1>6 DEF TryAgain, SendEmail
  <2>6. QED
    BY <2>4, <2>5 DEF TypeOK, At
<1>7. CASE Forget(r)
  BY <1>7, MailersAssumption DEF TypeOK, Forget, At
<1>8. QED
  BY <1>2, <1>3, <1>4, <1>5, <1>6, <1>7 DEF MailServer

\* The steps of a request, one by one, and those of the process.
LEMMA ServerSteps ==
    ASSUME Next
    PROVE  \/ /\ LoadConfig \/ OpenDatabase \/ ListenFails \/ Signal \/ Stop \/ ForceStop
              /\ UNCHANGED <<reqVars, mailVars>>
           \/ ChooseMailer
           \/ \E r \in Reqs :
                 \/ Accept(r)
                 \/ Running /\ (Authenticate(r) \/ Decode(r) \/ CallGoogle(r))
                 \/ Running /\ (Acquire(r) \/ GiveUp(r) \/ Statement(r))
                 \/ Running /\ (InTransaction(r) \/ ContextRollsBack(r) \/ Commit(r))
                 \/ Running /\ (CallMailer(r) \/ MailerReturns(r))
                 \/ /\ Running /\ Stage(r) = "mail" /\ MailServer(r)
                    /\ UNCHANGED <<phase, reqVars>>
                 \/ Running /\ (Respond(r) \/ Cancel(r))
                 \/ Running /\ (WriteDeadline(r) \/ HandlerDeadline(r))
  BY DEF Next, LoadConfig, OpenDatabase, ListenFails, Signal, Stop, ForceStop,
     Serve, Outside, Time

LEMMA TypeStep ==
    ASSUME ServerInv, Next
    PROVE  TypeOK'
<1> USE DEF ServerInv
<1>1. CASE LoadConfig \/ OpenDatabase \/ ListenFails \/ Signal \/ Stop \/ ForceStop
  BY <1>1 DEF TypeOK, LoadConfig, OpenDatabase, ListenFails, Signal, Stop,
     ForceStop, reqVars, mailVars
<1>2. CASE ChooseMailer
  BY <1>2 DEF TypeOK, ChooseMailer, NewMailer, reqVars, mailVars, Kinds
<1>3. ASSUME NEW r \in Reqs, Accept(r)
      PROVE  TypeOK'
  <2>1. \A path \in Paths : Agenda(path) \in Remainders
    <3>1. ASSUME NEW path \in Paths
          PROVE  Agenda(path) \in Remainders
      <4>1. Agenda(path) \in Seq(StageNames) /\ Len(Agenda(path)) >= 2
        BY AgendaShape, ServerAssumption
      <4>2. Agenda(path) = SubSeq(Agenda(path), 1, Len(Agenda(path)))
        BY <4>1, SubSeqFull
      <4>3. Agenda(path) \in {SubSeq(Agenda(path), k, Len(Agenda(path))) :
                                 k \in 1..Len(Agenda(path))}
        BY <4>1, <4>2
      <4>4. QED
        BY <4>3 DEF Remainders
    <3>2. QED
      BY <3>1
  <2>2. QED
    BY <1>3, <2>1 DEF TypeOK, Accept, mailVars
<1>4. ASSUME NEW r \in Reqs,
             Authenticate(r) \/ Decode(r) \/ CallGoogle(r) \/ GiveUp(r)
             \/ Statement(r) \/ InTransaction(r) \/ Commit(r)
      PROVE  TypeOK'
  <2>1. ~Idle(r)
    BY <1>4 DEF Authenticate, Decode, CallGoogle, GiveUp, NeedsConnection,
       Statement, InTransaction, Commit, Stage
  <2>2. GoOn(r) \/ EndWith(r, "4xx") \/ EndWith(r, "500")
    BY <1>4 DEF Authenticate, Decode, CallGoogle, GiveUp, Statement,
       InTransaction, Commit
  <2>3. /\ todo' \in [Reqs -> Remainders] /\ route' = route
        /\ answer' \in [Reqs -> {"none", "200", "4xx", "500"}]
    BY <2>1, <2>2, StageEnds
  <2>4. QED
    BY <1>4, <2>3 DEF TypeOK, Authenticate, Decode, CallGoogle, GiveUp,
       Statement, InTransaction, Commit, mailVars
<1>5. ASSUME NEW r \in Reqs, Running, MailerReturns(r)
      PROVE  TypeOK'
  <2>1. ~Idle(r) /\ (GoOn(r) \/ EndWith(r, "500")) /\ Forget(r)
    BY <1>5 DEF MailerReturns, Stage
  <2>2. /\ todo' \in [Reqs -> Remainders] /\ route' = route
        /\ answer' \in [Reqs -> {"none", "200", "4xx", "500"}]
    BY <2>1, StageEnds
  <2>3. /\ kind' \in Kinds \cup {"none"}
        /\ send' \in [Reqs -> Sending \cup {"none", "ok", "failed"}]
        /\ copies' \in [Reqs -> 0..MaxAttempts]
    BY <1>5, <2>1, MailType
  <2>4. QED
    BY <1>5, <2>2, <2>3 DEF TypeOK, MailerReturns
<1>6. ASSUME NEW r \in Reqs, Running,
             CallMailer(r) \/ (MailServer(r) /\ UNCHANGED <<phase, reqVars>>)
      PROVE  TypeOK'
  <2>1. /\ kind' \in Kinds \cup {"none"}
        /\ send' \in [Reqs -> Sending \cup {"none", "ok", "failed"}]
        /\ copies' \in [Reqs -> 0..MaxAttempts]
    BY <1>6, MailType DEF CallMailer
  <2>2. UNCHANGED <<phase, reqVars>>
    BY <1>6 DEF CallMailer
  <2>3. QED
    BY <2>1, <2>2 DEF TypeOK, reqVars
<1>7. ASSUME NEW r \in Reqs,
             Acquire(r) \/ ContextRollsBack(r) \/ Respond(r) \/ Cancel(r)
             \/ WriteDeadline(r) \/ HandlerDeadline(r)
      PROVE  TypeOK'
  BY <1>7 DEF TypeOK, Acquire, ContextRollsBack, Respond, Cancel, WriteDeadline,
     HandlerDeadline, Remainders, mailVars
<1>8. QED
  BY <1>1, <1>2, <1>3, <1>4, <1>5, <1>6, <1>7, ServerSteps

\* The stages and the transaction of a request are its own.
LEMMA OtherAgendas ==
    ASSUME TypeOK, NEW r \in Reqs, NEW q \in Reqs, q # r,
           GoOn(r) \/ EndWith(r, "4xx") \/ EndWith(r, "500")
    PROVE  todo'[q] = todo[q] /\ Stage(q)' = Stage(q)
  BY DEF TypeOK, GoOn, EndWith, Stage, Idle

\* Where a request is after a stage.
LEMMA NextStage ==
    ASSUME TypeOK, NEW r \in Reqs, ~Idle(r)
    PROVE  /\ EndWith(r, "4xx") \/ EndWith(r, "500") => Stage(r)' = "respond"
           /\ GoOn(r) => todo'[r] = Tail(todo[r])
           /\ GoOn(r) /\ TxAgenda(todo[r]) =>
                 /\ Stage(r) = "commit" => Stage(r)' = "respond"
                 /\ Stage(r) # "commit" =>
                       TxAgenda(todo'[r]) /\ Stage(r)' # "begin"
<1>1. todo[r] \in Seq(StageNames) /\ todo[r] # <<>> /\ Stage(r) = todo[r][1]
  BY AtStage
<1>2. EndWith(r, "4xx") \/ EndWith(r, "500") => Stage(r)' = "respond"
  BY LastStage DEF TypeOK, EndWith, Stage, Idle
<1>3. GoOn(r) => todo'[r] = Tail(todo[r])
  BY DEF TypeOK, GoOn
<1>4. ASSUME GoOn(r), TxAgenda(todo[r])
      PROVE  /\ Stage(r) = "commit" => Stage(r)' = "respond"
             /\ Stage(r) # "commit" => TxAgenda(todo'[r]) /\ Stage(r)' # "begin"
  <2>1. Tail(todo[r]) # <<>> /\ Tail(todo[r]) \in Seq(StageNames)
    BY <1>1, <1>4, TxTail, HeadTailProperties
  <2>2. Stage(r)' = Tail(todo[r])[1]
    <3>1. Stage(r)' = Head(Tail(todo[r]))
      BY <1>3, <1>4, <2>1 DEF Stage, Idle
    <3>2. QED
      BY <2>1, <3>1
  <2>3. QED
    BY <1>1, <1>3, <1>4, <2>2, TxTail
<1>5. QED
  BY <1>2, <1>3, <1>4

\* A transaction has its request at begin, mail or commit.
LEMMA TxStage ==
    ASSUME TypeOK, NEW r \in Reqs, TxAgenda(todo[r])
    PROVE  ~Idle(r) /\ Stage(r) \in {"begin", "mail", "commit"}
<1>1. ~Idle(r)
  <2>1. Len(todo[r]) # 0 /\ Len(<<>>) = 0
    BY DEF TxAgenda
  <2>2. QED
    BY <2>1 DEF Idle
<1>2. QED
  BY <1>1, AtStage, TxTail

LEMMA TransactionsStep ==
    ASSUME ServerInv, Next
    PROVE  TransactionsOnTheWay' /\ ConnectionsOwned'
<1> USE DEF ServerInv
<1> DEFINE Fine(q) == /\ tx[q] \in {"open", "rolledback"} => TxAgenda(todo[q])
                      /\ tx[q] = "rolledback" => Stage(q) # "begin"
                      /\ tx[q] = "committed" => Stage(q) = "respond"
                      /\ tx[q] = "open" => q \in conns
                      /\ q \in conns => tx[q] = "open" \/ Stage(q) = "statement"
<1>0. /\ \A q \in Reqs : Fine(q)
      /\ (\A q \in Reqs : Fine(q)') => TransactionsOnTheWay' /\ ConnectionsOwned'
  BY DEF TransactionsOnTheWay, ConnectionsOwned
<1> HIDE DEF Fine
<1>1. ASSUME UNCHANGED <<todo, tx, conns>>
      PROVE  \A q \in Reqs : Fine(q)'
  BY <1>0, <1>1 DEF Fine, Stage, Idle
<1>2. ASSUME NEW r \in Reqs,
             \A q \in Reqs \ {r} : /\ todo'[q] = todo[q] /\ tx'[q] = tx[q]
                                   /\ q \in conns' <=> q \in conns,
             Fine(r)'
      PROVE  \A q \in Reqs : Fine(q)'
  BY <1>0, <1>2 DEF Fine, Stage, Idle
<1>3. ASSUME NEW r \in Reqs, Accept(r)
      PROVE  \A q \in Reqs : Fine(q)'
  <2>1. Stage(r) = "none" /\ tx[r] = "none" /\ r \notin conns
    <3>1. Idle(r) /\ Stage(r) = "none"
      BY <1>3 DEF Accept, Stage
    <3>2. ~TxAgenda(todo[r])
      BY <3>1, TxStage
    <3>3. QED
      BY <1>0, <3>1, <3>2 DEF Fine, TypeOK
  <2>2. Fine(r)'
    BY <1>3, <2>1 DEF Fine, Accept
  <2>3. QED
    BY <1>2, <1>3, <2>2 DEF Accept, TypeOK
<1>4. ASSUME NEW r \in Reqs, Authenticate(r) \/ Decode(r) \/ CallGoogle(r)
      PROVE  \A q \in Reqs : Fine(q)'
  <2>1. /\ Stage(r) \in {"authenticate", "decode", "callGoogle"} /\ ~Idle(r)
        /\ GoOn(r) \/ EndWith(r, "4xx") \/ EndWith(r, "500")
        /\ UNCHANGED <<conns, tx>>
    BY <1>4 DEF Authenticate, Decode, CallGoogle, Stage
  <2>2. tx[r] = "none" /\ r \notin conns
    BY <1>0, <2>1, TxStage DEF Fine, TypeOK
  <2>3. QED
    BY <1>2, <2>1, <2>2, OtherAgendas DEF Fine
<1>5. ASSUME NEW r \in Reqs, Acquire(r)
      PROVE  \A q \in Reqs : Fine(q)'
  <2>1. /\ Stage(r) \in {"statement", "begin"} /\ ~Idle(r) /\ r \notin conns
        /\ conns' = conns \cup {r} /\ UNCHANGED todo
        /\ tx' = IF Stage(r) = "begin" THEN [tx EXCEPT ![r] = "open"] ELSE tx
    BY <1>5 DEF Acquire, NeedsConnection, Stage
  <2>2. tx[r] = "none"
    BY <1>0, <2>1, TxStage DEF Fine, TypeOK
  <2>3. Stage(r) = "begin" => TxAgenda(todo[r])
    BY <2>1, AtStage
  <2>4. Fine(r)'
    BY <2>1, <2>2, <2>3 DEF Fine, Stage, Idle, TypeOK
  <2>5. QED
    BY <1>2, <2>1, <2>4 DEF TypeOK
<1>6. ASSUME NEW r \in Reqs, GiveUp(r) \/ Statement(r)
      PROVE  \A q \in Reqs : Fine(q)'
  <2>1. /\ Stage(r) \in {"statement", "begin"} /\ ~Idle(r)
        /\ Stage(r) = "begin" => r \notin conns
        /\ GoOn(r) \/ EndWith(r, "4xx") \/ EndWith(r, "500")
        /\ r \notin conns' /\ conns' \cup {r} = conns \cup {r} /\ UNCHANGED tx
    BY <1>6 DEF GiveUp, NeedsConnection, Statement, Stage
  <2>2. tx[r] = "none"
    BY <1>0, <2>1, TxStage DEF Fine, TypeOK
  <2>3. QED
    BY <1>2, <2>1, <2>2, OtherAgendas DEF Fine
<1>7. ASSUME NEW r \in Reqs, InTransaction(r)
      PROVE  \A q \in Reqs : Fine(q)'
  <2>1. Stage(r) = "begin" /\ ~Idle(r) /\ r \in conns /\ tx[r] = "open"
    BY <1>0, <1>7 DEF InTransaction, Stage, Fine
  <2>2. TxAgenda(todo[r])
    BY <2>1, AtStage
  <2>3. CASE GoOn(r) /\ UNCHANGED <<conns, tx>>
    BY <1>2, <2>1, <2>2, <2>3, OtherAgendas, NextStage DEF Fine
  <2>4. CASE /\ EndWith(r, "4xx") \/ EndWith(r, "500")
             /\ conns' = conns \ {r} /\ tx' = [tx EXCEPT ![r] = "none"]
    <3>1. Fine(r)'
      BY <2>1, <2>4, NextStage DEF Fine, TypeOK
    <3>2. QED
      BY <1>2, <2>1, <2>4, <3>1, OtherAgendas DEF TypeOK
  <2>5. QED
    BY <1>7, <2>3, <2>4 DEF InTransaction
<1>8. ASSUME NEW r \in Reqs, ContextRollsBack(r)
      PROVE  \A q \in Reqs : Fine(q)'
  <2>1. Fine(r)'
    BY <1>0, <1>8 DEF ContextRollsBack, Fine, Stage, Idle, TypeOK
  <2>2. QED
    BY <1>2, <1>8, <2>1 DEF ContextRollsBack, TypeOK
<1>9. ASSUME NEW r \in Reqs, MailerReturns(r)
      PROVE  \A q \in Reqs : Fine(q)'
  <2>1. Stage(r) = "mail" /\ ~Idle(r)
    BY <1>9 DEF MailerReturns, Stage
  <2>2. CASE GoOn(r) /\ UNCHANGED <<conns, tx>>
    <3>1. tx[r] \in {"none", "open", "rolledback"}
      BY <1>0, <2>1 DEF Fine, TypeOK
    <3>2. Fine(r)'
      BY <1>0, <2>1, <2>2, <3>1, NextStage DEF Fine
    <3>3. QED
      BY <1>2, <2>2, <3>2, OtherAgendas
  <2>3. CASE /\ EndWith(r, "500")
             /\ conns' = conns \ {r} /\ tx' = [tx EXCEPT ![r] = "none"]
    <3>1. Fine(r)'
      BY <2>1, <2>3, NextStage DEF Fine, TypeOK
    <3>2. QED
      BY <1>2, <2>3, <3>1, OtherAgendas DEF TypeOK
  <2>4. QED
    BY <1>9, <2>2, <2>3 DEF MailerReturns
<1>10. ASSUME NEW r \in Reqs, Commit(r)
       PROVE  \A q \in Reqs : Fine(q)'
  <2>1. Stage(r) = "commit" /\ ~Idle(r) /\ conns' = conns \ {r}
    BY <1>10 DEF Commit, Stage
  <2>2. CASE tx[r] = "open" /\ tx' = [tx EXCEPT ![r] = "committed"] /\ GoOn(r)
    <3>1. TxAgenda(todo[r])
      BY <1>0, <2>2 DEF Fine
    <3>2. Fine(r)'
      BY <2>1, <2>2, <3>1, NextStage DEF Fine, TypeOK
    <3>3. QED
      BY <1>2, <2>1, <2>2, <3>2, OtherAgendas DEF TypeOK
  <2>3. CASE tx' = [tx EXCEPT ![r] = "none"] /\ EndWith(r, "500")
    <3>1. Fine(r)'
      BY <2>1, <2>3, NextStage DEF Fine, TypeOK
    <3>2. QED
      BY <1>2, <2>1, <2>3, <3>1, OtherAgendas DEF TypeOK
  <2>4. QED
    BY <1>10, <2>2, <2>3 DEF Commit
<1>11. ASSUME NEW r \in Reqs, Respond(r)
       PROVE  \A q \in Reqs : Fine(q)'
  <2>1. Stage(r) = "respond" /\ UNCHANGED conns
    BY <1>11 DEF Respond
  <2>2. r \notin conns
    BY <1>0, <2>1, TxStage DEF Fine
  <2>3. Fine(r)'
    BY <1>11, <2>2 DEF Fine, Respond, TypeOK
  <2>4. QED
    BY <1>2, <1>11, <2>3 DEF Respond, TypeOK
<1>12. ASSUME \/ UNCHANGED reqVars \/ ChooseMailer
              \/ \E r \in Reqs : \/ CallMailer(r) \/ Cancel(r)
                                 \/ WriteDeadline(r) \/ HandlerDeadline(r)
       PROVE  \A q \in Reqs : Fine(q)'
  <2>1. UNCHANGED <<todo, tx, conns>>
    BY <1>12 DEF ChooseMailer, CallMailer, Cancel, WriteDeadline,
       HandlerDeadline, reqVars
  <2>2. QED
    BY <1>1, <2>1
<1>13. \A q \in Reqs : Fine(q)'
  BY <1>3, <1>4, <1>5, <1>6, <1>7, <1>8, <1>9, <1>10, <1>11, <1>12, ServerSteps
<1>14. QED
  BY <1>0, <1>13

LEMMA BeginStep ==
    ASSUME ServerInv, Next
    PROVE  BeginIsAhead'
<1> USE DEF ServerInv
<1> DEFINE Ahead(q) == /\ tx[q] # "none" => BeginsTx(Stages[route[q]])
                       /\ /\ ~Idle(q) /\ tx[q] = "none"
                          /\ Stage(q) = "respond" => answer[q] = "200"
                          => (BeginsTx(todo[q]) <=> BeginsTx(Stages[route[q]]))
<1>0. /\ \A q \in Reqs : Ahead(q)
      /\ (\A q \in Reqs : Ahead(q)') => BeginIsAhead'
  BY DEF BeginIsAhead
<1> HIDE DEF Ahead
<1>1. ASSUME UNCHANGED <<route, todo, tx, answer>>
      PROVE  \A q \in Reqs : Ahead(q)'
  BY <1>0, <1>1 DEF Ahead, Stage, Idle
<1>2. ASSUME NEW r \in Reqs,
             \A q \in Reqs \ {r} : /\ route'[q] = route[q] /\ todo'[q] = todo[q]
                                   /\ tx'[q] = tx[q] /\ answer'[q] = answer[q],
             Ahead(r)'
      PROVE  \A q \in Reqs : Ahead(q)'
  BY <1>0, <1>2 DEF Ahead, Stage, Idle
<1>3. ASSUME NEW r \in Reqs, GoOn(r), ~Idle(r), Stage(r) \notin {"begin", "respond"},
             tx' = tx
      PROVE  \A q \in Reqs : Ahead(q)'
  <2>1. /\ todo[r] \in Seq(StageNames) /\ todo[r] # <<>> /\ todo[r][1] # "begin"
        /\ todo'[r] = Tail(todo[r])
    BY <1>3, AtStage, NextStage
  <2>2. BeginsTx(todo'[r]) <=> BeginsTx(todo[r])
    BY <2>1, BeginTail
  <2>3. Ahead(r)'
    BY <1>0, <1>3, <2>2 DEF Ahead, GoOn
  <2>4. QED
    BY <1>2, <1>3, <2>3 DEF GoOn, TypeOK
<1>4. ASSUME NEW r \in Reqs, GoOn(r), tx[r] # "none", tx'[r] # "none",
             \A q \in Reqs \ {r} : tx'[q] = tx[q]
      PROVE  \A q \in Reqs : Ahead(q)'
  <2>1. Ahead(r)'
    BY <1>0, <1>4 DEF Ahead, GoOn
  <2>2. QED
    BY <1>2, <1>4, <2>1 DEF GoOn, TypeOK
<1>5. ASSUME NEW r \in Reqs, EndWith(r, "4xx") \/ EndWith(r, "500"), ~Idle(r),
             tx' = tx \/ tx' = [tx EXCEPT ![r] = "none"]
      PROVE  \A q \in Reqs : Ahead(q)'
  <2>1. Stage(r)' = "respond" /\ answer'[r] # "200" /\ route' = route
    BY <1>5, NextStage DEF EndWith, TypeOK
  <2>2. tx'[r] # "none" => tx[r] # "none"
    BY <1>5 DEF TypeOK
  <2>3. Ahead(r)'
    BY <1>0, <2>1, <2>2 DEF Ahead
  <2>4. QED
    BY <1>2, <1>5, <2>3 DEF EndWith, TypeOK
<1>6. ASSUME NEW r \in Reqs, Accept(r)
      PROVE  \A q \in Reqs : Ahead(q)'
  <2>1. Idle(r) /\ tx[r] = "none" /\ tx' = tx
    <3>1. Idle(r) /\ ~TxAgenda(todo[r]) /\ Stage(r) = "none"
      BY <1>6, TxStage DEF Accept, Stage
    <3>2. QED
      BY <1>6, <3>1 DEF TransactionsOnTheWay, TypeOK, Accept
  <2>2. PICK p \in Paths : /\ route' = [route EXCEPT ![r] = p]
                           /\ todo' = [todo EXCEPT ![r] = Agenda(p)]
    BY <1>6 DEF Accept
  <2>3. route'[r] = p /\ todo'[r] = Agenda(p)
    BY <2>2 DEF TypeOK
  <2>4. BeginsTx(Agenda(p)) <=> BeginsTx(Stages[p])
    BY AgendaShape, ServerAssumption
  <2>5. Ahead(r)'
    BY <2>1, <2>3, <2>4 DEF Ahead
  <2>6. QED
    BY <1>2, <1>6, <2>1, <2>2, <2>5 DEF Accept, TypeOK
<1>7. ASSUME NEW r \in Reqs, Acquire(r)
      PROVE  \A q \in Reqs : Ahead(q)'
  <2>1. /\ Stage(r) \in {"statement", "begin"} /\ ~Idle(r)
        /\ UNCHANGED <<route, todo, answer>>
        /\ tx' = IF Stage(r) = "begin" THEN [tx EXCEPT ![r] = "open"] ELSE tx
    BY <1>7 DEF Acquire, NeedsConnection, Stage
  <2>2. CASE Stage(r) = "begin"
    <3>1. todo[r][1] = "begin" /\ TxAgenda(todo[r])
      BY <2>1, <2>2, AtStage
    <3>2. BeginsTx(todo[r])
      <4>1. PICK n : n = Len(todo[r])
        OBVIOUS
      <4>2. n \in {2, 3, 4}
        BY <3>1, <4>1 DEF TxAgenda
      <4>3. 1 \in 1..n
        BY <4>2
      <4>4. QED
        BY <3>1, <4>1, <4>3 DEF BeginsTx
    <3>3. BeginsTx(Stages[route[r]])
      BY <1>0, <2>1, <2>2, <3>2 DEF Ahead
    <3>4. Ahead(r)'
      BY <2>1, <2>2, <3>3 DEF Ahead, TypeOK
    <3>5. QED
      BY <1>2, <2>1, <3>4 DEF TypeOK
  <2>3. CASE Stage(r) # "begin"
    BY <1>1, <2>1, <2>3
  <2>4. QED
    BY <2>2, <2>3
<1>8. ASSUME NEW r \in Reqs, Authenticate(r) \/ Decode(r) \/ CallGoogle(r)
                             \/ GiveUp(r) \/ Statement(r)
      PROVE  \A q \in Reqs : Ahead(q)'
  <2>1. /\ ~Idle(r) /\ tx' = tx
        /\ \/ EndWith(r, "4xx") \/ EndWith(r, "500")
           \/ GoOn(r) /\ Stage(r) \notin {"begin", "respond"}
    BY <1>8 DEF Authenticate, Decode, CallGoogle, GiveUp, NeedsConnection,
       Statement, Stage
  <2>2. QED
    BY <1>3, <1>5, <2>1
<1>9. ASSUME NEW r \in Reqs, InTransaction(r)
      PROVE  \A q \in Reqs : Ahead(q)'
  <2>1. ~Idle(r) /\ tx[r] = "open"
    BY <1>9 DEF InTransaction, Stage, ConnectionsOwned
  <2>2. \/ GoOn(r) /\ tx' = tx
        \/ /\ EndWith(r, "4xx") \/ EndWith(r, "500")
           /\ tx' = [tx EXCEPT ![r] = "none"]
    BY <1>9 DEF InTransaction
  <2>3. QED
    BY <1>4, <1>5, <2>1, <2>2
<1>10. ASSUME NEW r \in Reqs, ContextRollsBack(r)
       PROVE  \A q \in Reqs : Ahead(q)'
  <2>1. tx[r] = "open" /\ UNCHANGED <<route, todo, answer>>
        /\ tx' = [tx EXCEPT ![r] = "rolledback"]
    BY <1>10 DEF ContextRollsBack
  <2>2. Ahead(r)'
    BY <1>0, <2>1 DEF Ahead, TypeOK
  <2>3. QED
    BY <1>2, <2>1, <2>2 DEF TypeOK
<1>11. ASSUME NEW r \in Reqs, MailerReturns(r)
       PROVE  \A q \in Reqs : Ahead(q)'
  <2>1. /\ Stage(r) = "mail" /\ ~Idle(r)
        /\ \/ GoOn(r) /\ tx' = tx
           \/ EndWith(r, "500") /\ tx' = [tx EXCEPT ![r] = "none"]
    BY <1>11 DEF MailerReturns, Stage
  <2>2. QED
    BY <1>3, <1>5, <2>1
<1>12. ASSUME NEW r \in Reqs, Commit(r)
       PROVE  \A q \in Reqs : Ahead(q)'
  <2>1. /\ ~Idle(r)
        /\ \/ tx[r] = "open" /\ GoOn(r) /\ tx' = [tx EXCEPT ![r] = "committed"]
           \/ EndWith(r, "500") /\ tx' = [tx EXCEPT ![r] = "none"]
    BY <1>12 DEF Commit, Stage
  <2>2. CASE tx[r] = "open" /\ GoOn(r) /\ tx' = [tx EXCEPT ![r] = "committed"]
    <3>1. tx'[r] # "none" /\ \A q \in Reqs \ {r} : tx'[q] = tx[q]
      BY <2>2 DEF TypeOK
    <3>2. QED
      BY <1>4, <2>2, <3>1
  <2>3. QED
    BY <1>5, <2>1, <2>2
<1>13. ASSUME NEW r \in Reqs, Respond(r)
       PROVE  \A q \in Reqs : Ahead(q)'
  <2>1. Idle(r)' /\ tx'[r] = "none"
    BY <1>13 DEF Respond, Idle, TypeOK
  <2>2. Ahead(r)'
    BY <2>1 DEF Ahead
  <2>3. QED
    BY <1>2, <1>13, <2>2 DEF Respond, TypeOK
<1>14. ASSUME \/ UNCHANGED reqVars \/ ChooseMailer
              \/ \E r \in Reqs : \/ CallMailer(r) \/ Cancel(r)
                                 \/ WriteDeadline(r) \/ HandlerDeadline(r)
       PROVE  \A q \in Reqs : Ahead(q)'
  <2>1. UNCHANGED <<route, todo, tx, answer>>
    BY <1>14 DEF ChooseMailer, CallMailer, Cancel, WriteDeadline,
       HandlerDeadline, reqVars
  <2>2. QED
    BY <1>1, <2>1
<1>15. \A q \in Reqs : Ahead(q)'
  BY <1>6, <1>7, <1>8, <1>9, <1>10, <1>11, <1>12, <1>13, <1>14, ServerSteps
<1>16. QED
  BY <1>0, <1>15

\* The steps of a mailer, and the others, that leave it alone.
LEMMA MailSteps ==
    ASSUME Next
    PROVE  \/ UNCHANGED mailVars
           \/ NewMailer /\ phase = "mailer"
           \/ \E r \in Reqs : /\ Running /\ UNCHANGED phase
                              /\ \/ Send(r) \/ LogMessage(r) \/ MailServer(r)
                                 \/ send[r] \in {"ok", "failed"} /\ Forget(r)
<1> DEFINE Calls(r) == /\ Running /\ UNCHANGED phase
                       /\ \/ Send(r) \/ LogMessage(r) \/ MailServer(r)
                          \/ send[r] \in {"ok", "failed"} /\ Forget(r)
<1>1. ASSUME ChooseMailer
      PROVE  UNCHANGED mailVars \/ (NewMailer /\ phase = "mailer")
  BY <1>1 DEF ChooseMailer
<1>2. ASSUME NEW r \in Reqs, Running, CallMailer(r) \/ MailerReturns(r)
      PROVE  Calls(r)
  BY <1>2 DEF CallMailer, MailerReturns
<1>3. ASSUME NEW r \in Reqs, Running, MailServer(r), UNCHANGED <<phase, reqVars>>
      PROVE  Calls(r)
  BY <1>3
<1>4. ASSUME NEW r \in Reqs,
             \/ Accept(r) \/ Authenticate(r) \/ Decode(r) \/ CallGoogle(r)
             \/ Acquire(r) \/ GiveUp(r) \/ Statement(r) \/ InTransaction(r)
             \/ ContextRollsBack(r) \/ Commit(r) \/ Respond(r) \/ Cancel(r)
             \/ WriteDeadline(r) \/ HandlerDeadline(r)
      PROVE  UNCHANGED mailVars
  BY <1>4 DEF Accept, Authenticate, Decode, CallGoogle, Acquire, GiveUp,
     Statement, InTransaction, ContextRollsBack, Commit, Respond, Cancel,
     WriteDeadline, HandlerDeadline
<1> HIDE DEF Calls
<1>5. \/ UNCHANGED mailVars \/ (NewMailer /\ phase = "mailer")
      \/ \E r \in Reqs : Calls(r)
  BY <1>1, <1>2, <1>3, <1>4, ServerSteps
<1>6. QED
  BY <1>5 DEF Calls

LEMMA CallsStep ==
    ASSUME ServerInv, Next
    PROVE  CallsOfTheMailer' /\ SmtpFailureDeliversNothing'
<1> USE DEF ServerInv, CallsOfTheMailer, SmtpFailureDeliversNothing
<1>1. ASSUME UNCHANGED mailVars
      PROVE  CallsOfTheMailer' /\ SmtpFailureDeliversNothing'
  <2>1. Running' => Running \/ kind' \in Kinds
    BY <1>1 DEF Next, LoadConfig, OpenDatabase, ChooseMailer, NewMailer, mailVars,
       ListenFails, Signal, Stop, ForceStop, Running, Serve, Outside, Time,
       Accept, Authenticate, Decode, CallGoogle, Acquire, GiveUp, Statement,
       InTransaction, CallMailer, MailerReturns, ContextRollsBack, Commit,
       Respond, Cancel, WriteDeadline, HandlerDeadline
  <2>2. QED
    BY <1>1, <2>1 DEF mailVars, Sending
<1>2. ASSUME NewMailer
      PROVE  CallsOfTheMailer' /\ SmtpFailureDeliversNothing'
  BY <1>2 DEF NewMailer, Kinds, Sending
<1>3. ASSUME NEW r \in Reqs, Running, UNCHANGED phase,
             \/ Send(r) \/ LogMessage(r) \/ MailServer(r)
             \/ send[r] \in {"ok", "failed"} /\ Forget(r)
      PROVE  CallsOfTheMailer' /\ SmtpFailureDeliversNothing'
  <2>1. kind \in Kinds /\ kind' = kind /\ Running'
    BY <1>3 DEF Send, LogMessage, MailServer, Dialogue, EndData, TryAgain, SendEmail,
       Forget, Running
  <2>2. \A q \in Reqs \ {r} : send'[q] = send[q] /\ copies'[q] = copies[q]
    BY <1>3 DEF TypeOK, Send, LogMessage, MailServer, Dialogue, EndData,
       TryAgain, SendEmail, Forget, At
  <2>3. /\ send'[r] \in {"dialogue", "endOfData"} => kind = "smtp"
        /\ send'[r] = "sendEmail" => kind = "ses"
        /\ send'[r] \in (Sending \ {"sendEmail"}) \cup {"none"} => copies'[r] = 0
        /\ send'[r] = "sendEmail" => copies'[r] < MaxAttempts
        /\ kind = "smtp" /\ send'[r] = "failed" => copies'[r] = 0
    <3>1. CASE Send(r)
      <4>1. copies'[r] = 0
        BY <3>1 DEF Send
      <4>2. 0 < MaxAttempts
        BY MailersAssumption
      <4>3. send'[r] \in {"log", "dialogue", "sendEmail"}
        BY <2>1, <3>1 DEF TypeOK, Send, At, Kinds
      <4>4. send'[r] = "dialogue" => kind = "smtp"
        BY <2>1, <3>1 DEF TypeOK, Send, At, Kinds
      <4>5. send'[r] = "sendEmail" => kind = "ses"
        BY <2>1, <3>1 DEF TypeOK, Send, At, Kinds
      <4>6. QED
        BY <4>1, <4>2, <4>3, <4>4, <4>5
    <3>2. CASE LogMessage(r)
      BY <2>1, <3>2 DEF TypeOK, LogMessage, At, Kinds, Sending
    <3>3. CASE Dialogue(r)
      BY <2>1, <3>3 DEF TypeOK, Dialogue, At, Kinds, Sending
    <3>4. CASE EndData(r)
      BY <2>1, <3>4 DEF TypeOK, EndData, At, Kinds, Sending
    <3>5. CASE TryAgain(r) \/ SendEmail(r)
      BY <2>1, <3>5 DEF TypeOK, TryAgain, SendEmail, At, Kinds, Sending
    <3>6. CASE Forget(r)
      BY <2>1, <3>6 DEF TypeOK, Forget, At, Kinds, Sending
    <3>7. QED
      BY <1>3, <3>1, <3>2, <3>3, <3>4, <3>5, <3>6 DEF MailServer
  <2>4. QED
    BY <2>1, <2>2, <2>3 DEF Kinds
<1>4. QED
  BY <1>1, <1>2, <1>3, MailSteps

LEMMA DeadlineStep ==
    ASSUME ServerInv, Next
    PROVE  DeadlineIsLate'
<1> USE DEF ServerInv, DeadlineIsLate
<1>1. ASSUME UNCHANGED <<ctx, late>>
      PROVE  DeadlineIsLate'
  BY <1>1
<1>2. ASSUME NEW r \in Reqs, Respond(r) \/ Cancel(r) \/ WriteDeadline(r)
      PROVE  DeadlineIsLate'
  <2>1. CASE Respond(r)
    BY <2>1 DEF TypeOK, Respond
  <2>2. CASE Cancel(r)
    BY <2>2 DEF TypeOK, Cancel
  <2>3. CASE WriteDeadline(r)
    BY <2>3 DEF TypeOK, WriteDeadline
  <2>4. QED
    BY <1>2, <2>1, <2>2, <2>3
<1>3. ASSUME NEW r \in Reqs, HandlerDeadline(r)
      PROVE  DeadlineIsLate'
  BY <1>3 DEF TypeOK, HandlerDeadline, HandlerTimeout, WriteTimeout
<1>4. ASSUME NEW r \in Reqs,
             \/ Accept(r) \/ Authenticate(r) \/ Decode(r) \/ CallGoogle(r)
             \/ Acquire(r) \/ GiveUp(r) \/ Statement(r) \/ InTransaction(r)
             \/ ContextRollsBack(r) \/ Commit(r) \/ CallMailer(r) \/ MailerReturns(r)
      PROVE  UNCHANGED <<ctx, late>>
  BY <1>4 DEF Accept, Authenticate, Decode, CallGoogle, Acquire, GiveUp,
     Statement, InTransaction, ContextRollsBack, Commit, CallMailer,
     MailerReturns, reqVars
<1>5. ASSUME UNCHANGED reqVars \/ ChooseMailer
      PROVE  UNCHANGED <<ctx, late>>
  BY <1>5 DEF ChooseMailer, reqVars
<1>6. QED
  BY <1>1, <1>2, <1>3, <1>4, <1>5, ServerSteps

\* A step that changes nothing.
LEMMA ServerStutter ==
    ASSUME ServerInv, UNCHANGED vars
    PROVE  ServerInv'
  BY DEF ServerInv, vars, reqVars, mailVars, TypeOK, TransactionsOnTheWay,
     BeginIsAhead, ConnectionsOwned, CallsOfTheMailer, SmtpFailureDeliversNothing,
     DeadlineIsLate, Running, Stage, Idle

\* The inductive invariant of a server and its mailers.
THEOREM ServerInvariance == Spec => []ServerInv
<1>1. ServerInv /\ [Next]_vars => ServerInv'
  <2>1. ASSUME ServerInv, Next
        PROVE  ServerInv'
    BY <2>1, TypeStep, TransactionsStep, BeginStep, CallsStep, DeadlineStep
    DEF ServerInv
  <2>2. QED
    BY <2>1, ServerStutter
<1>2. QED
  BY ServerInit, <1>1, PTL DEF Spec

(* Every request is at a stage of a path it may take, every call of a      *)
(* mailer at one of its steps, and no mailer sends more copies than the    *)
(* SDK has attempts.                                                       *)
THEOREM ServerTypes == Spec => []TypeOK
<1>1. ServerInv => TypeOK
  BY DEF ServerInv
<1>2. QED
  BY <1>1, ServerInvariance, PTL

(* No connection leaks: the statements and transactions of the code give   *)
(* back what they take, and an open transaction keeps its connection,      *)
(* whatever the size of the pool and wherever deadlines and clients that   *)
(* leave meet a handler.                                                   *)
THEOREM ConnectionsAreOwned == Spec => []ConnectionsOwned
<1>1. ServerInv => ConnectionsOwned
  BY DEF ServerInv
<1>2. QED
  BY <1>1, ServerInvariance, PTL

(* On a path that begins a transaction, what a handler answers as a        *)
(* success is committed: its transaction is not still open, was not rolled *)
(* back behind its back by database/sql, and did not fail.                 *)
THEOREM SuccessesAreTrue == Spec => []SuccessIsTrue
<1>1. ASSUME ServerInv, NEW r \in Reqs, Stage(r) = "respond", answer[r] = "200"
      PROVE  tx[r] = IF BeginsTx(Stages[route[r]]) THEN "committed" ELSE "none"
  <2>1. ~Idle(r) /\ tx[r] \in {"none", "committed"}
    BY <1>1, TxStage DEF ServerInv, TransactionsOnTheWay, TypeOK, Stage
  <2>2. ~BeginsTx(todo[r])
    BY <1>1, <2>1, AtStage DEF ServerInv
  <2>3. tx[r] = "none" => ~BeginsTx(Stages[route[r]])
    BY <1>1, <2>1, <2>2 DEF ServerInv, BeginIsAhead
  <2>4. tx[r] = "committed" => BeginsTx(Stages[route[r]])
    BY <1>1 DEF ServerInv, BeginIsAhead
  <2>5. QED
    BY <2>1, <2>3, <2>4
<1>2. ServerInv => SuccessIsTrue
  BY <1>1 DEF SuccessIsTrue
<1>3. QED
  BY <1>2, ServerInvariance, PTL

(* The status in the log is the one the client got: chi's Timeout comes    *)
(* only after the server's WriteTimeout has given the client up.           *)
THEOREM LogIsTrue == Spec => []LogMatchesAnswer
<1>1. ServerInv => LogMatchesAnswer
  BY DEF ServerInv, DeadlineIsLate, LogMatchesAnswer, Logged
<1>2. QED
  BY <1>1, ServerInvariance, PTL

(* When SMTPMailer's Send returns an error, no message is on its way: it   *)
(* is the deferred Close that ends a message, and only after the last step *)
(* that could fail.                                                        *)
THEOREM SmtpFailuresSendNothing == Spec => []SmtpFailureDeliversNothing
<1>1. ServerInv => SmtpFailureDeliversNothing
  BY DEF ServerInv
<1>2. QED
  BY <1>1, ServerInvariance, PTL

\* What the services see of a call.
Seen == [r \in Reqs |-> IF send[r] \in Sending THEN "sending" ELSE send[r]]

\* One step of a mailer is one of the promise, or none that a service sees.
LEMMA MailerStep ==
    ASSUME ServerInv, [Next]_vars
    PROVE  [Promise!Next]_(Promise!mailer)
<1> USE DEF ServerInv
<1>1. ASSUME UNCHANGED <<send, copies>>
      PROVE  UNCHANGED Promise!mailer
  BY <1>1 DEF Promise!mailer
<1>2. ASSUME NEW r \in Reqs, Running,
             \/ Send(r) \/ LogMessage(r) \/ MailServer(r)
             \/ send[r] \in {"ok", "failed"} /\ Forget(r)
      PROVE  \/ UNCHANGED Promise!mailer
             \/ Promise!Call(r) \/ Promise!Transmit(r) \/ Promise!Return(r)
             \/ Promise!Forget(r)
  <2>1. CASE Send(r)
    <3>1. kind \in Kinds
      BY <1>2 DEF CallsOfTheMailer
    <3>2. Promise!Call(r)
      BY <2>1, <3>1 DEF Promise!Call, Send, At, TypeOK, Kinds, Sending
    <3>3. QED
      BY <3>2
  <2>0. ASSUME NEW result \in {"ok", "failed"}, NEW n \in copies[r]..MaxAttempts,
               send[r] \in Sending, At(r, result), copies' = [copies EXCEPT ![r] = n]
        PROVE  Promise!Return(r)
    <3>1. Seen[r] = "sending" /\ Seen' = [Seen EXCEPT ![r] = result]
      BY <2>0 DEF Seen, At, TypeOK, Sending
    <3>2. QED
      BY <2>0, <3>1 DEF Promise!Return, Seen
  <2>2. CASE LogMessage(r)
    <3>1. copies' = [copies EXCEPT ![r] = copies[r]] /\ copies[r] \in copies[r]..MaxAttempts
      BY <2>2 DEF LogMessage, TypeOK
    <3>2. QED
      BY <2>0, <2>2, <3>1 DEF LogMessage, Sending
  <2>3. CASE Dialogue(r)
    <3>1. CASE At(r, "endOfData")
      <4>1. Seen' = Seen /\ copies' = copies
        BY <2>3, <3>1 DEF Seen, Dialogue, At, TypeOK, Sending
      <4>2. QED
        BY <4>1 DEF Promise!mailer, Seen
    <3>2. CASE At(r, "failed")
      <4>1. copies' = [copies EXCEPT ![r] = copies[r]] /\ copies[r] \in copies[r]..MaxAttempts
        BY <2>3 DEF Dialogue, TypeOK
      <4>2. QED
        BY <2>0, <2>3, <3>2, <4>1 DEF Dialogue, Sending
    <3>3. QED
      BY <2>3, <3>1, <3>2 DEF Dialogue
  <2>4. CASE EndData(r)
    <3>1. copies[r] = 0
      BY <2>4 DEF EndData, CallsOfTheMailer, Sending
    <3>2. \A n \in {0, 1} : n \in copies[r]..MaxAttempts
      BY <3>1, MailersAssumption
    <3>3. QED
      BY <2>0, <2>4, <3>2 DEF EndData, Sending
  <2>5. CASE SendEmail(r)
    <3>1. copies[r] \in Nat /\ copies[r] < MaxAttempts
      BY <2>5 DEF SendEmail, CallsOfTheMailer, TypeOK
    <3>2. copies[r] \in copies[r]..MaxAttempts /\ copies[r] + 1 \in copies[r]..MaxAttempts
      BY <3>1, MailersAssumption
    <3>3. \/ copies' = [copies EXCEPT ![r] = copies[r]]
          \/ copies' = [copies EXCEPT ![r] = copies[r] + 1]
      BY <2>5 DEF SendEmail, TypeOK
    <3>4. send[r] \in Sending /\ (At(r, "ok") \/ At(r, "failed"))
      BY <2>5 DEF SendEmail, Sending
    <3>5. QED
      BY <2>0, <3>2, <3>3, <3>4
  <2>8. CASE TryAgain(r)
    <3>1. copies[r] + 1 \in copies[r]..MaxAttempts
      BY <2>8, MailersAssumption DEF TryAgain, TypeOK
    <3>2. Seen[r] = "sending" /\ UNCHANGED Seen
      BY <2>8 DEF Seen, TryAgain, Sending
    <3>3. copies' = [copies EXCEPT ![r] = copies[r] + 1]
      BY <2>8 DEF TryAgain
    <3>4. Promise!Transmit(r)
      BY <3>1, <3>2, <3>3 DEF Promise!Transmit, Seen
    <3>5. QED
      BY <3>4
  <2>6. CASE send[r] \in {"ok", "failed"} /\ Forget(r)
    <3>1. Promise!Forget(r)
      BY <2>6 DEF Promise!Forget, Forget, At, TypeOK, Sending
    <3>2. QED
      BY <3>1
  <2>7. QED
    BY <1>2, <2>1, <2>2, <2>3, <2>4, <2>5, <2>6, <2>8 DEF MailServer
<1>3. CASE Next
  BY <1>1, <1>2, <1>3, MailSteps DEF Promise!Next, mailVars, NewMailer
<1>4. CASE UNCHANGED vars
  BY <1>1, <1>4 DEF vars, mailVars
<1>5. QED
  BY <1>3, <1>4

(* Whichever mailer is configured, the services see a call of Send take    *)
(* its time and return once, with an error or none and some copies on      *)
(* their way: what Mailer promises holds of the server and its mailers.    *)
THEOREM MailersImplement == Spec => ImplementsMailer
<1>1. Init => Promise!Init
  BY DEF Init, MailInit, Promise!Init, Sending
<1>2. ServerInv /\ [Next]_vars => [Promise!Next]_(Promise!mailer)
  BY MailerStep
<1>3. QED
  BY <1>1, <1>2, ServerInvariance, PTL DEF Spec, ImplementsMailer, Promise!Spec
=============================================================================
