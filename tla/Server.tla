-------------------------------- MODULE Server --------------------------------
(***************************************************************************)
(* The life of the process and of the requests in it: start, middleware,   *)
(* the connection pool, transactions bound to a request's context,         *)
(* deadlines, and the stop on a signal (cmd/main.go, internal/middleware,  *)
(* internal/repository/db.go), together with the mailers.  Which rows the  *)
(* statements touch is left to VocabStore and Accounts.                    *)
(*                                                                         *)
(* A request goes through the stages of its path.  It waits for a          *)
(* connection at "statement" and at "begin", and keeps it from "begin" to  *)
(* the end of the transaction.                                             *)
(***************************************************************************)
EXTENDS Mailers, Sequences, FiniteSets

CONSTANTS
    Paths,    \* those a run takes, a subset of DOMAIN Stages
    PoolSize  \* SetMaxOpenConns

\* The ways through the handlers that end in success.
Stages ==
    [health |-> <<"statement">>,
     read |-> <<"authenticate", "statement">>,
     list |-> <<"authenticate", "statement", "statement">>,
     write |-> <<"authenticate", "decode", "begin", "commit">>,
     login |-> <<"decode", "statement", "statement">>,
     redeem |-> <<"decode", "begin", "commit">>,
     google |-> <<"decode", "callGoogle", "statement", "statement">>,
     googleNew |-> <<"decode", "callGoogle", "statement", "begin", "commit">>,
     register |-> <<"decode", "begin", "mail", "commit">>,
     forgot |-> <<"decode", "statement", "statement", "mail">>,
     forgotUnknown |-> <<"decode", "statement">>]

ASSUME ServerAssumption ==
    /\ Paths \subseteq DOMAIN Stages
    /\ PoolSize \in Nat \ {0}

Agenda(path) == Append(Stages[path], "respond")

\* Whether a path goes through a transaction: BeginsTx(Stages[path]).
BeginsTx(stages) == \E i \in 1..Len(stages) : stages[i] = "begin"

\* Seconds: http.Server.WriteTimeout, and the Timeout of chi's middleware.
WriteTimeoutLonger == 90
WriteTimeout == 10
HandlerTimeout == 60

VARIABLES
    phase,   \* "config", "database", "mailer", "serving", "draining",
             \* "stopped" after the last request, or "exited" whatever was open
    route,   \* the path its request takes, or "none"
    todo,    \* the stages its request still has to go through, the current one
             \* first; <<>> without a request
    conns,   \* the requests that hold a connection of the pool
    ctx,     \* its context: "live", "canceled" or "deadline"
    late,    \* an answer no longer reaches the client
    tx,      \* its transaction: "open", "committed", "rolledback" behind the
             \* back of its handler, or "none" before it, when it failed, and
             \* on a path without one
    answer   \* the status its handler writes, or will write if all goes well

reqVars == <<route, todo, conns, ctx, late, tx, answer>>
vars == <<phase, reqVars, mailVars>>

Init ==
    /\ phase = "config"
    /\ route = [r \in Reqs |-> "none"]
    /\ todo = [r \in Reqs |-> <<>>]
    /\ conns = {}
    /\ ctx = [r \in Reqs |-> "live"]
    /\ late = [r \in Reqs |-> FALSE]
    /\ tx = [r \in Reqs |-> "none"]
    /\ answer = [r \in Reqs |-> "none"]
    /\ MailInit

Running == phase \in {"serving", "draining"}
Idle(r) == todo[r] = <<>>
Stage(r) == IF Idle(r) THEN "none" ELSE Head(todo[r])

-----------------------------------------------------------------------------
(***************************************************************************)
(* The process.                                                            *)
(***************************************************************************)
LoadConfig ==
    /\ phase = "config"
    /\ phase' \in {"database", "exited"}
    /\ UNCHANGED <<reqVars, mailVars>>

\* NewDB pings; the process does not wait for a database that comes up later.
OpenDatabase ==
    /\ phase = "database"
    /\ phase' \in {"mailer", "exited"}
    /\ UNCHANGED <<reqVars, mailVars>>

\* NewSESMailer panics without the credentials it is told to use.
ChooseMailer ==
    /\ phase = "mailer"
    /\ \/ NewMailer /\ phase' = "serving"
       \/ phase' = "exited" /\ UNCHANGED mailVars
    /\ UNCHANGED reqVars

\* ListenAndServe returns an error, at once or later: os.Exit(1).
ListenFails ==
    /\ phase = "serving"
    /\ phase' = "exited"
    /\ UNCHANGED <<reqVars, mailVars>>

Signal ==
    /\ phase = "serving"
    /\ phase' = "draining"
    /\ UNCHANGED <<reqVars, mailVars>>

\* Mutant: main returns without waiting for the handlers.
StopAtOnce ==
    /\ phase = "draining"
    /\ phase' = "stopped"
    /\ UNCHANGED <<reqVars, mailVars>>

\* Shutdown returns when no request is left.
Stop ==
    /\ phase = "draining"
    /\ \A r \in Reqs : Idle(r)
    /\ phase' = "stopped"
    /\ UNCHANGED <<reqVars, mailVars>>

\* Mutant: Shutdown is given a context without a deadline.
ForceStopNever ==
    /\ phase = "draining"
    /\ \A r \in Reqs : Idle(r)
    /\ phase' = "exited"
    /\ UNCHANGED <<reqVars, mailVars>>

\* Five seconds are over: main returns, whatever the handlers are doing.
ForceStop ==
    /\ phase = "draining"
    /\ phase' = "exited"
    /\ UNCHANGED <<reqVars, mailVars>>

-----------------------------------------------------------------------------
(***************************************************************************)
(* From stage to stage.                                                    *)
(***************************************************************************)
GoOn(r) ==
    /\ todo' = [todo EXCEPT ![r] = Tail(@)]
    /\ UNCHANGED <<route, answer>>

EndWith(r, status) ==
    /\ todo' = [todo EXCEPT ![r] = <<"respond">>]
    /\ answer' = [answer EXCEPT ![r] = status]
    /\ UNCHANGED route

\* Shutdown closes the listener and the idle connections, but net/http still
\* serves the first request of a connection it had just accepted.
Accept(r) ==
    /\ Running /\ Idle(r)
    /\ \E path \in Paths :
          /\ route' = [route EXCEPT ![r] = path]
          /\ todo' = [todo EXCEPT ![r] = Agenda(path)]
    /\ answer' = [answer EXCEPT ![r] = "200"]
    /\ UNCHANGED <<phase, conns, ctx, late, tx, mailVars>>

\* JWTAuthMiddleware looks at the token only, not at the database.
Authenticate(r) ==
    /\ Stage(r) = "authenticate"
    /\ GoOn(r) \/ EndWith(r, "4xx")
    /\ UNCHANGED <<phase, conns, ctx, late, tx, mailVars>>

\* DecodeJSONBody and the validator.
Decode(r) ==
    /\ Stage(r) = "decode"
    /\ GoOn(r) \/ EndWith(r, "4xx")
    /\ UNCHANGED <<phase, conns, ctx, late, tx, mailVars>>

\* The code exchange and http.Get; the latter has neither context nor timeout.
CallGoogle(r) ==
    /\ Stage(r) = "callGoogle"
    /\ GoOn(r) \/ EndWith(r, "500")
    /\ UNCHANGED <<phase, conns, ctx, late, tx, mailVars>>

NeedsConnection(r) ==
    Stage(r) \in {"statement", "begin"} /\ r \notin conns

Acquire(r) ==
    /\ NeedsConnection(r)
    /\ ctx[r] = "live"
    /\ Cardinality(conns) < PoolSize
    /\ conns' = conns \cup {r}
    /\ tx' = IF Stage(r) = "begin" THEN [tx EXCEPT ![r] = "open"] ELSE tx
    /\ UNCHANGED <<phase, route, todo, ctx, late, answer, mailVars>>

\* Who waits for a connection waits for the end of its context as well.
GiveUp(r) ==
    /\ NeedsConnection(r)
    /\ ctx[r] # "live"
    /\ EndWith(r, "500")
    /\ UNCHANGED <<phase, conns, ctx, late, tx, mailVars>>

\* One statement outside a transaction, that may fail, or find what ends the
\* request with an error.
Statement(r) ==
    /\ Stage(r) = "statement" /\ r \in conns
    /\ conns' = conns \ {r}
    /\ \/ ctx[r] = "live" /\ (GoOn(r) \/ EndWith(r, "4xx"))
       \/ EndWith(r, "500")
    /\ UNCHANGED <<phase, ctx, late, tx, mailVars>>

\* The statements of a transaction, up to the mail or the commit.  All of them
\* run on the connection of the transaction.
InTransaction(r) ==
    /\ Stage(r) = "begin" /\ r \in conns
    /\ \/ /\ ctx[r] = "live"
          /\ GoOn(r)
          /\ UNCHANGED <<conns, tx>>
       \/ /\ EndWith(r, "4xx") \/ EndWith(r, "500")
          /\ conns' = conns \ {r}
          /\ tx' = [tx EXCEPT ![r] = "none"]
    /\ UNCHANGED <<phase, ctx, late, mailVars>>

CallMailer(r) ==
    /\ Stage(r) = "mail"
    /\ Send(r) \/ LogMessage(r)
    /\ UNCHANGED <<phase, reqVars>>

\* Mutant: a failed Send leaves a hand-made transaction behind.
MailerReturnsEarly(r) ==
    /\ Stage(r) = "mail"
    /\ \/ send[r] = "ok" /\ GoOn(r) /\ UNCHANGED tx
       \/ /\ send[r] = "failed"
          /\ EndWith(r, "500")
          /\ tx' = [tx EXCEPT ![r] = "none"]
    /\ Forget(r)
    /\ UNCHANGED <<phase, conns, ctx, late>>

\* An error of Send ends the transaction, if there still is one.
MailerReturns(r) ==
    /\ Stage(r) = "mail"
    /\ \/ send[r] = "ok" /\ GoOn(r) /\ UNCHANGED <<conns, tx>>
       \/ /\ send[r] = "failed"
          /\ EndWith(r, "500")
          /\ conns' = conns \ {r}
          /\ tx' = [tx EXCEPT ![r] = "none"]
    /\ Forget(r)
    /\ UNCHANGED <<phase, ctx, late>>

\* Mutant: the transaction is not begun with the context of the request.
ContextIgnored(r) ==
    /\ Stage(r) = "mail" /\ tx[r] = "open" /\ ctx[r] # "live"
    /\ send[r] = "ok"
    /\ tx' = [tx EXCEPT ![r] = "rolledback"]
    /\ conns' = conns \ {r}
    /\ UNCHANGED <<phase, route, todo, ctx, late, answer, mailVars>>

\* db.WithContext(ctx).Transaction: when the context ends, database/sql rolls
\* the transaction back and takes the connection, while the handler is away.
ContextRollsBack(r) ==
    /\ Stage(r) = "mail" /\ tx[r] = "open" /\ ctx[r] # "live"
    /\ tx' = [tx EXCEPT ![r] = "rolledback"]
    /\ conns' = conns \ {r}
    /\ UNCHANGED <<phase, route, todo, ctx, late, answer, mailVars>>

\* Mutant: the error of the commit is not looked at.
CommitUnchecked(r) ==
    /\ Stage(r) = "commit"
    /\ conns' = conns \ {r}
    /\ \/ /\ tx[r] = "open" /\ ctx[r] = "live"
          /\ tx' = [tx EXCEPT ![r] = "committed"]
       \/ tx' = [tx EXCEPT ![r] = "none"]
    /\ GoOn(r)
    /\ UNCHANGED <<phase, ctx, late, mailVars>>

\* A commit that fails, or meets the end of the context on its way, may have
\* taken effect or not.
Commit(r) ==
    /\ Stage(r) = "commit"
    /\ conns' = conns \ {r}
    /\ \/ /\ tx[r] = "open" /\ ctx[r] = "live"
          /\ tx' = [tx EXCEPT ![r] = "committed"]
          /\ GoOn(r)
       \/ /\ tx' = [tx EXCEPT ![r] = "none"]
          /\ EndWith(r, "500")
    /\ UNCHANGED <<phase, ctx, late, mailVars>>

\* The handler has written its answer: the middlewares finish, the answer is
\* flushed, and the connection to the client is free for another request.
Respond(r) ==
    /\ Stage(r) = "respond"
    /\ route' = [route EXCEPT ![r] = "none"]
    /\ todo' = [todo EXCEPT ![r] = <<>>]
    /\ ctx' = [ctx EXCEPT ![r] = "live"]
    /\ late' = [late EXCEPT ![r] = FALSE]
    /\ tx' = [tx EXCEPT ![r] = "none"]
    /\ answer' = [answer EXCEPT ![r] = "none"]
    /\ UNCHANGED <<phase, conns, mailVars>>

-----------------------------------------------------------------------------
(***************************************************************************)
(* Deadlines and clients that leave.                                       *)
(***************************************************************************)
\* The client closes the connection, or net/http meets its read deadline.
Cancel(r) ==
    /\ ~Idle(r) /\ ctx[r] = "live"
    /\ ctx' = [ctx EXCEPT ![r] = "canceled"]
    /\ late' \in {late, [late EXCEPT ![r] = TRUE]}
    /\ UNCHANGED <<phase, route, todo, conns, tx, answer, mailVars>>

WriteDeadline(r) ==
    /\ ~Idle(r) /\ ~late[r]
    /\ WriteTimeout > HandlerTimeout => ctx[r] # "live"
    /\ late' = [late EXCEPT ![r] = TRUE]
    /\ UNCHANGED <<phase, route, todo, conns, ctx, tx, answer, mailVars>>

HandlerDeadline(r) ==
    /\ ~Idle(r) /\ ctx[r] = "live"
    /\ HandlerTimeout > WriteTimeout => late[r]
    /\ ctx' = [ctx EXCEPT ![r] = "deadline"]
    /\ UNCHANGED <<phase, route, todo, conns, late, tx, answer, mailVars>>

-----------------------------------------------------------------------------
\* What the server does by itself, with the database at hand.
Serve(r) ==
    /\ Running
    /\ \/ Authenticate(r) \/ Decode(r) \/ Acquire(r) \/ GiveUp(r)
       \/ Statement(r) \/ InTransaction(r) \/ CallMailer(r) \/ MailerReturns(r)
       \/ ContextRollsBack(r) \/ Commit(r) \/ Respond(r)

\* What waits for somebody else's server.
Outside(r) ==
    /\ Running
    /\ \/ CallGoogle(r)
       \/ Stage(r) = "mail" /\ MailServer(r) /\ UNCHANGED <<phase, reqVars>>

Time(r) == Running /\ (Cancel(r) \/ WriteDeadline(r) \/ HandlerDeadline(r))

Next == \/ LoadConfig \/ OpenDatabase \/ ChooseMailer \/ ListenFails
        \/ Signal \/ Stop \/ ForceStop
        \/ \E r \in Reqs : Accept(r) \/ Serve(r) \/ Outside(r) \/ Time(r)

Spec == Init /\ [][Next]_vars

(***************************************************************************)
(* Fairness: goroutines go on by themselves, a free connection goes to one *)
(* of those that wait (strong fairness), and clocks run.  None for clients *)
(* nor for the servers of others: a mail server or Google may hang.        *)
(***************************************************************************)
Fairness ==
    /\ \A r \in Reqs :
          /\ SF_vars(Serve(r))
          /\ WF_vars(Running /\ WriteDeadline(r))
          /\ WF_vars(Running /\ HandlerDeadline(r))
    /\ WF_vars(Stop) /\ WF_vars(ForceStop)

FairSpec == Spec /\ Fairness

-----------------------------------------------------------------------------
\* What can be left to do: the end of an agenda.
Remainders ==
    {<<>>} \cup UNION {{SubSeq(Agenda(path), k, Len(Agenda(path))) :
                            k \in 1..Len(Agenda(path))} : path \in Paths}

TypeOK ==
    /\ phase \in {"config", "database", "mailer", "serving", "draining",
                  "stopped", "exited"}
    /\ route \in [Reqs -> Paths \cup {"none"}]
    /\ todo \in [Reqs -> Remainders]
    /\ conns \subseteq Reqs
    /\ ctx \in [Reqs -> {"live", "canceled", "deadline"}]
    /\ late \in [Reqs -> BOOLEAN]
    /\ tx \in [Reqs -> {"none", "open", "committed", "rolledback"}]
    /\ answer \in [Reqs -> {"none", "200", "4xx", "500"}]
    /\ kind \in Kinds \cup {"none"}
    /\ send \in [Reqs -> Sending \cup {"none", "ok", "failed"}]
    /\ copies \in [Reqs -> 0..MaxAttempts]

(* No connection leaks: one is held only for a statement being run or by a *)
(* transaction that is open, and an open transaction holds one, also while *)
(* its context ends, its mailer fails or its commit does.                  *)
ConnectionsOwned ==
    \A r \in Reqs :
        /\ tx[r] = "open" => r \in conns
        /\ r \in conns => tx[r] = "open" \/ Stage(r) = "statement"

(* What is answered as a success was committed, on every path that begins  *)
(* a transaction: also when the context, and the transaction with it,      *)
(* ended while the mailer was busy, or when the commit failed.             *)
SuccessIsTrue ==
    \A r \in Reqs :
        Stage(r) = "respond" /\ answer[r] = "200" =>
            tx[r] = IF BeginsTx(Stages[route[r]]) THEN "committed" ELSE "none"

\* The status in the log, that of the last WriteHeader: chi's Timeout writes
\* 504 on its way out, which net/http ignores after the handler's.
Logged(r) == IF ctx[r] = "deadline" THEN "504" ELSE answer[r]

(* The log shows the status the client gets, if it gets one.               *)
LogMatchesAnswer ==
    \A r \in Reqs : Stage(r) = "respond" /\ ~late[r] => Logged(r) = answer[r]

(* Every connection returns to the pool, although a mail server may hang   *)
(* while a registration keeps its transaction open.                        *)
ConnectionsReturn ==
    \A r \in Reqs : r \in conns ~> r \notin conns \/ ~Running

(* Every request ends (a health check too, with the pool exhausted) unless *)
(* it waits, without a connection, for a server that is not ours; and a    *)
(* clean stop leaves none behind.                                          *)
WaitsOutside(r) == Stage(r) \in {"mail", "callGoogle"} /\ r \notin conns

EveryRequestEnds ==
    \A r \in Reqs :
        ~Idle(r) ~> Idle(r) \/ WaitsOutside(r) \/ phase = "exited"

(* After a signal the process ends, whatever the handlers wait for.        *)
StopsOnSignal == phase = "draining" ~> phase \in {"stopped", "exited"}
=============================================================================
