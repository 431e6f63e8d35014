# A TLA+ model of Kioku

Kioku is a vocabulary trainer: a Go HTTP server (`cmd/main.go`) over PostgreSQL.
A tenant registers, adds words, and reviews each one on a schedule that depends on
the level the word has reached. This directory holds a TLA+ model of the server,
the TLC configurations that check it and TLAPS proofs about it. Paths below are
relative to the repository's root.

## 1. The system

| component | code | state | operations |
|---|---|---|---|
| word service | `internal/service/word_service.go`, `internal/repository/word_repository.go`, `internal/handlers/word_handler.go` | table `words` (soft-deleted), and through it `learning_progress` | post, put, patch, delete, get, list |
| review service | `internal/service/review_service.go`, `internal/repository/progress_repository.go`, `internal/handlers/review_handler.go` | table `learning_progress` (one row per word, hard-deleted) | record a review result; list and count the words due |
| account service | `internal/service/auth_service.go`, `internal/repository/{tenant,identity,token}_repository.go`, `internal/handlers/auth_handler.go` | tables `tenants`, `identities`, `user_verification_tokens`, `password_reset_tokens` | register, verify, log in, log in with Google, request and perform a password reset, who am I |
| mailers | `internal/service/mailer*.go` | none | send a message to the log, over SMTP or over SES |
| session tokens | `internal/middleware/auth.go`, `generateAppJWT` | none at the server | sign at login, check on every request |
| server | `cmd/main.go`, `internal/repository/db.go`, `internal/middleware/logging.go`, `internal/webutil` | the connection pool; the context, the deadlines and the transaction of each request | start, middleware, decoding, error mapping, health check, timeouts, shutdown |
| configuration, schema | `internal/config`, `db/migrations` | none at run time | read once at start |

Requests are goroutines that share nothing but the database. Every mutating
operation is a gorm `Transaction` closure, that is a PostgreSQL transaction at
READ COMMITTED: each statement sees what is committed when it starts and the
transaction's own writes, and a write waits for the row lock of another
transaction. No code takes a lock of its own, uses `SELECT ... FOR UPDATE` or
keeps a version column, so that everything interesting happens between the
statements of concurrent transactions, and between a transaction and what lies
outside it: the clock, the mail, the client that never receives its answer.

### What is hard here, and what correct means

*Words and reviews.* A request reads a row in one statement and writes it in a
later one, and other requests commit in between: two posts of one term, two puts of
one word, two reviews of one word, a delete beside any of them. A word lives in two
tables that must agree. Correct means: a live word always has its progress row, a
deleted word stays as it is, answers are true, levels follow the rule, and each
request looks like one indivisible step.

*Lists.* The due day is a `DATE` of the server's time zone, "today" is cut off at
midnight UTC, and the list is put together in two statements outside a transaction.
Correct means: nothing comes up before its day or a day late, new words come up at
once, the list holds what its summary announced.

*Accounts.* A registration writes three tables and sends a message in the middle of
the transaction; tokens are read, used and deleted in separate statements; a
verification, a reset, a login and a Google login of one address may run at once.
Correct means: registrations are whole, a success answer is true for good, a token
that is still valid is spent exactly when it takes effect, a mailed token exists.

*The process.* Requests share a pool of connections; a transaction is bound to the
context of its request and is rolled back under the handler when that ends; a mailer
may hang, inside a transaction. Correct means: connections come back, what is
answered as a success on a path with a transaction was committed, requests end, the log tells what the client
was told, the process stops when it is told to.

The full list of hazards, each at its line and with the properties about it, is in
`PROJECT.json`.

## 2. Modules

| module | what it is |
|---|---|
| `ReviewSchedule` | pure operators: levels, intervals, next due day (`calculateNextProgress`) |
| `VocabStore` | one tenant's words and progress rows, one SQL statement per step |
| `WordLifecycle` | what `VocabStore` promises: words learnt, edited, studied, retired in one step each |
| `VocabRaces` | `VocabStore` with a history variable: what remains true when requests race |
| `ReviewList` | `GET /reviews` in two statements, and its summary, beside changing words, with hours and time zones |
| `Accounts` | the account of one address, one SQL statement or mail per step |
| `AccountLifecycle` | what `Accounts` promises: signed up, activated, linked, password changed in one step each |
| `Mailers` | the log, SMTP and SES mailers, with a mail server that may hang |
| `Mailer` | what `Mailers` promises: copies leave during a call only, and it returns once |
| `Server` | the process from start to stop: requests, middleware, connection pool, contexts, deadlines; extends `Mailers` |
| `MCVocabStore`, `MCVocabRaces`, `MCReviewList`, `MCAccounts`, `MCServer` | instances for TLC: model values and symmetry |
| `VocabStore_proofs`, `VocabAnswers_proofs`, `VocabRaces_proofs` | proofs about `VocabStore`: the inductive invariant; answers, days and the refinement; races |
| `ReviewList_proofs`, `Accounts_proofs`, `Server_proofs` | proofs about `ReviewList`, `Accounts`, and `Server` with its `Mailers` |

### VocabStore

`words` and `prog` are the committed rows of `words` and `learning_progress`; `day`
is the calendar. Each element of `Reqs` is a connection that serves one request
after another: `pc[r]` names the statement that runs next, `req[r]` is the request,
`resp[r]` its answer, `found[r]` and `plan[r]` are Go variables that survive from one
statement to the next (the row `PutWord` read, the row a review computed), `wput[r]`
and `pput[r]` the uncommitted versions of the two rows its transaction has written.

A step runs one statement together with the Go code up to the next one. It reads
committed rows and its own writes (READ COMMITTED); a write is enabled only while no
other transaction has an uncommitted write of the row (`WordRowFree`,
`ProgressRowFree`). `CommitTx` makes the writes visible together, `Rollback` drops
them. The actions carry the names of the repository calls in the service's code:
`CheckTerm`, `InsertWord`, `InsertProgress`, `Commit` for `PostWord`; `FindWord`,
`CheckTerm`, `UpdateWord`, `RereadWord`, `Commit` for `PutWord` and `PatchWord`;
`DeleteProgress`, `DeleteWord`, `Commit` for `DeleteWord`; `FindProgress`,
`CreateProgress` or `UpdateProgress`, `Commit` for a review. `Error` (a statement
fails or the context ends), `CommitUnacked` (committed, but the client does not
learn it) and `Crash` (every open transaction is lost) are switched on by `Faults`.

Assumptions about the outside: a request names an id that the server has handed out
(for another id the word requests answer 404 or, deleting, 204 without an effect, and a
review fails at the foreign key of its insert); an id is fresh (`uuid.New()`); a patch that
names both fields is the same as a put and is not enumerated twice; the id of a
progress row is reduced to who inserted it, since a word sees at most one row of
each kind. Tenants do not interact: every statement is qualified by `tenant_id`.

### VocabRaces

Nothing locks what it reads, so `UniqueLiveTerms` and `LevelClimbsOneRung` do not hold
(runs `duplicate_term`, `level_jump`), and a put may leave a mixture. `VocabRaces` says
how far that goes. `overtaken[r]` becomes true when another request commits a change that
bears on what `r` has read: an edit of the same word or of the term `r` has checked, or a
review of the same word. It is only written, never read by the system, so that the
behaviours are those of `VocabStore`. `DuplicateOnlyIfOvertaken`,
`PutReplacesUnlessOvertaken` and `JumpOnlyIfOvertaken` then say that nobody else breaks
a promise: requests that follow each other keep them, and so does any other interleaving.

### ReviewList

Words change here in single steps, which is what the run `two_words` shows of
`VocabStore`; a review may go by a level read earlier, since `level_jump` shows that
too. `hour` counts hours of UTC; `LocalDay` is the day the driver sends for a
`time.Time`, `Today` the day after `Truncate(24 * time.Hour)`. `FindReviewable` picks
any `ReviewLimit` of the due words (`ORDER BY RANDOM()`), `PreloadWords` fetches the
words and drops rows without one. `CountReviewable` is the summary: the length of the
same first statement with the limit 9999. `summary[r]` forgets the count when a word or
"today" changes, so that `SummaryMatchesList` compares a list with a summary that is
still true. A word may be deleted between the two statements of the list and drop out.

### Accounts

`tenant` is the row of `tenants` of one address, `local` the password of its local
identity, `google` whether it has a Google identity, `tok` the rows of both token
tables. `accepted` and `inbox` tell which messages `Send` reported as sent and which
arrived: the two differ because `SmtpMailer` ignores the server's answer to the
message body and because an error can come after delivery. `tput`, `lput`, `gput`,
`kput` are uncommitted writes. Login, the first half of a Google login and
`RequestPasswordReset` run outside a transaction, as in the code. Passwords stand for
their hashes (bcrypt is taken to tell them apart), tokens do not collide, a Google
account belongs to one address, and time only shows as `Expire` and `ExpireSession`.
Requests with tokens use one that has reached the mail box. `session` says that the
client holds a JWT that has not expired; the server keeps nothing of it
(`IssuesSession`, `ReceiveMe`). `Abandon` is the end of a registration's context while
its message is being sent: database/sql rolls the transaction back and frees the rows,
and the handler, still at the mailer ("mailOnly"), finds out when it wants to commit.
A message that leaves before a crash is, here, a `Send` that fails after the message left,
and then the crash.

### Mailers and Server

`Mailers` has a call of `Send` go through the steps that wait for the mail server: for
SMTP the dialogue up to the body, any part of which may fail, and the end of the message,
whose answer the deferred `Close` drops (`EndData`); for SES the
attempts of the SDK, up to `MaxAttempts`: a message that was taken although the answer got
lost is sent again (`TryAgain`), and the last attempt has the result (`SendEmail`); an
attempt that leaves nothing behind changes nothing. `copies` counts the messages taken for
delivery, so that deadlines and a stop may come when some of them have left. Seen by a
caller this is `Mailer`: copies leave during the call, none is called back, and the result
has nothing to do with them. `Accounts` uses the mailer in that form.

`Server` has the parts of a request that do not depend on what is in the tables. A
request goes through the stages of its path (`Stages`: the success paths of the routes in
`cmd/main.go`; any stage may end it with an error), with `route`, that path, and `todo`,
what is left of it; `conns`, the connections taken
from the pool; `ctx`, the state of its context; `late`, an answer would no longer reach
the client; `tx`, its transaction; `answer`, the status. `phase` is the phase of `main`.
Connections are held for one statement or for a transaction. `Cancel`, `WriteDeadline`
(10 s) and `HandlerDeadline` (60 s) come at any time, in the order the two timeouts allow.
A process that stops leaves the requests as they are: what becomes of their transactions
is in the `Crash` of the other modules. Status codes are reduced to 200, 4xx and 500.

## 3. Runs

`Spec` has every interleaving of the steps above. All bounds are in the `.cfg` files.
Symmetry (interchangeable connections, ids, terms, definitions, tokens, passwords) is
used for safety only, and connections are permuted only where they have one role.

| run | shows | instance |
|---|---|---|
| `two_words` | `EveryLiveWordIsScheduled`, `DeleteAcknowledged`, `NotFoundMeansDeleted`, `DeletedWordIsFrozen`, `DuplicateOnlyIfOvertaken`, and that each request is one step of `WordLifecycle` | 2 connections, 2 words, 2 terms, all faults |
| `one_word_days` | `DueWithinInterval`, `PatchKeepsTheRest`, `PutReplacesUnlessOvertaken`, `JumpOnlyIfOvertaken` | 2 connections, 1 word, 3 days |
| `answered` | `EveryRequestAnswered`: row locks never block for ever; the inductive invariant `IInv` | 3 connections (one edits and deletes, one deletes, one reviews), 1 word, 2 days, all faults, fairness |
| `account` | `AccountHasIdentity`, `InactiveWasMailed`, `AnswersAreTrue`, `ConflictMeansAccountExists`, `SessionFindsAccount`, `TokenSpentWithEffect`, `MailedResetTokenIsSaved`, and that each request is at most one step of `AccountLifecycle` | 2 connections, 2 verification tokens, 1 reset token, 2 passwords, all faults |
| `account_answered` | `AnsweredOrMailing`: a request is answered, or waits for the mail server without keeping anybody else waiting; the invariant `IInv` | 3 connections, 1 token of each kind, errors, fairness, a mail server that may hang |
| `list_tokyo` | `NewWordsAreListable`, `NeverEarly`, `LessThanADayLate`, `SummaryMatchesList` | UTC+9, 2 words, list of 1, four days in steps of 3 hours |
| `server` | `ConnectionsOwned`, `SuccessIsTrue`, `LogMatchesAnswer`, `SmtpFailureDeliversNothing`; `ConnectionsReturn`, `EveryRequestEnds`, `StopsOnSignal`; that the mailers implement `Mailer` | 2 requests, 4 paths (health check, write, Google, registration), 1 connection, all mailers, fairness |

Why the bounds are enough: a race needs two transactions on one row, and a third to
wait behind them; words meet only in the check for a term, which needs two; terms and
definitions need a second value to show which of two writes won. Two verification
tokens allow a second registration, one reset token two resets with one link. Three
days cover a wrong answer before and after a change of day, four the shortest
interval (3 days). In `server` one connection for two requests is a pool that is exhausted
as soon as one of them has it, and a third request would only wait as the second does. The
four paths have every stage between them, a health check and a transaction with a mail and
one without included; the mail of a forgotten password, sent without a connection, is a wait
for somebody else's server that `EveryRequestEnds` exempts as it does Google's.
Two attempts are the least that can deliver a message twice.

Runs in which TLC finds a counterexample, each for something a comment, message or
document of the repository says (quoted in `PROJECT.json`, `findings`):

| run | the code |
|---|---|
| `duplicate_term` | two posts of one term both pass the check and both commit |
| `level_jump` | a review overwrites a wrong answer committed since it read: level 1 to 3 at once |
| `delete_again` | deleting a word twice rolls back the delete of that row and answers 204 |
| `reset_twice` | two resets with one link both succeed |
| `list_before_nine` | nine hours ahead of UTC, words of today are listed from nine o'clock on |

In other places, too, the code does something else than a comment or message says.
The models contain them; a run of its own would say no more than the text of the
action:

- `PutWord` "replaces completely" (`internal/handlers/word_handler.go:131`) but writes
  the columns that differ from the row it has read, so that two puts can leave a
  mixture (`Edited`; `PutReplacesUnlessOvertaken` says when);
- a wrong answer makes the word due at once (`internal/service/review_service.go:146`;
  `NextDue`), where the comment above says "the next day" and two tests expect
  `now.AddDate(0, 0, 1)` (`internal/service/review_service_test.go:209-219`, `:270-285`).
  No property asks for either; `DueWithinInterval` says how late a word may be due;
- a review of a deleted word inserts a progress row for it and answers 204, since a row
  hidden by the join looks like none (`internal/service/review_service.go:100`;
  `CreateProgress`), where a test expects a 404
  (`internal/service/review_service_test.go:324-341`). `ReviewInsertsOnlyForDeleted`, a part
  of `IInv`, says that this is the only way;
- an expired verification token is deleted, as the comment says, but the error returned next
  rolls that back, and the token stays (`internal/service/auth_service.go:153-154`;
  `DropExpired`). `TokenSpentWithEffect` therefore is about tokens that have not expired;
- the "not fatal" failure to delete a used token undoes the activation
  (`internal/service/auth_service.go:169-171`; `DeleteTokenFails`);
- a message is sent before the registration it belongs to commits (`:119` there), so that a
  link can arrive for an account that does not exist; after its only token has expired
  an account that exists cannot be activated or registered any more (`:80`, `:150`);
- the list is a random choice of the due words
  (`internal/repository/progress_repository.go:106`; `FindReviewable`), while `README.md`
  promises the words answered worst first.

And some things nothing in the repository promises, so that no property asks for them: a
message that is lost after the mailer took it is not noticed (`AnswersAreTrue` says of a
"mail sent" that the token was saved and the message taken); a request whose mail server
or Google never answers never ends, but for the stop of the process; a word deleted
between the two statements of a list drops out of it.

**Fairness.** `FairSpec` adds strong fairness of each connection's statements. A
goroutine goes on by itself, and a statement that waits for a row lock queues for it
in PostgreSQL in order of arrival, so it is not passed over for ever although the
lock is taken and released by others meanwhile; weak fairness would not say that.
Nothing forces requests to arrive, failures to happen or days to pass. `Accounts` adds weak
fairness of `Abandon`, because the timeout middleware ends every context after sixty
seconds. The mail server and Google may hang for ever, as `SmtpMailer`, `SESMailer` and
`http.Get` set no deadline. `Server` assumes the same: strong fairness of what a request
does by itself (a free connection is given to one of the requests that wait for it, which
none of them loses every time), weak fairness of the clocks (`WriteDeadline`,
`HandlerDeadline`, `ForceStop`) and of `Stop`. There a request that waits for somebody
else's server may stay for ever, but without a connection, and not beyond the stop of the
process. No run uses fairness of an action that is not the server's or the clock's.

**Mutants.** Every property of a passing run has a mutant, an operator next to the
definition it replaces that shows a plausible bug (a lost transaction, an ignored
error, a dropped scope); `PROJECT.json` says which one breaks which property.

## 4. Proofs

Every invariant, every action property and every refinement that a passing run checks is
also a theorem, for every number of connections, words, terms, tokens and days. The
assumptions are those the modules state: roles are sets of connections and paths are paths
of the server (`RolesAssumption`, `AccountsAssumption`, `ServerAssumption`,
`MailersAssumption`), an offset between -12 and +14 hours and finitely many words
(`ReviewListAssumption`), and, in each module that has them, that the marks for "no row",
"no request" or "field left out" are nothing else (`SentinelAssumption`,
`ReviewListSentinels`): they stand for SQL's `NULL` and Go's `nil`, which no value of the
column equals.

**`VocabStore_proofs`.** `TypeCorrect`, `Invariance` and `LiveWordsScheduled`. That a live
word has its progress row is not inductive: a commit publishes writes that earlier
statements prepared. `IInv` therefore adds

- `Script`: at which statement a request of each kind can be, and what it then holds;
- `Targets`: a post owns an id nobody else names, any other request names a known word;
- `OneWriterPerRow`: what the row locks achieve;
- `PendingWrites`: what is about to be committed. A post writes both rows or none. A
  delete that found the word live has, from its first statement on, removed the
  progress row - which needs that no review can insert one while the word lives;
- `ReviewInsertsOnlyForDeleted`: a row whose word is live is never one that a review has
  inserted, so that the update of a review always meets the row it has read.

The proof has one lemma for each way a step touches the state: `ArriveStep` and
`StatementStep` (the committed rows stay, only one connection's state moves,
`LocalStep`), `RollbackStep`, and `CommitStep`, the only one in which what other
connections know could become wrong; there `OneWriterPerRow` and `Targets` do the work.

**`VocabAnswers_proofs`.** Two lemmas carry the rest: only a commit changes the tables
(`OnlyCommitsWrite`), and what the commit of each kind of request does to the rows of its
word and to no other (`CommitEffect`). From them follow `DeletedFrozen` (no commit touches a
deleted word, although a review may insert a progress row for it) and `Implementation`: a
commit maps to the step of `WordLifecycle` of that word, or, when it changes nothing that
shows, to none. The answers need an invariant of their own (`AnswerInv`). A 404 or a 204 is
true because the word was deleted when it was given, and stays so; the difficult case is a
review whose update meets no row, which is possible only when a delete has removed the row
that `PostWord` inserted, so that `AnswerInv` says that the row a review is going to update
is that one. `DueInTime` needs the same of rows that are about to be committed, possibly
on a later day (`DueInv`): the level and the date of each come from one computation
(`InTime`). `PatchKeeps` needs that the row about to be written is
the row in the table with the changed columns replaced, and that the row lock keeps it so
until the commit (`PendingEdits`, `LockedRowStays`).

**`VocabRaces_proofs`.** The history variable adds nothing (`RaceSteps`: `RaceSpec` implies
`Spec`), so that all of the above holds of `RaceSpec`. `RaceInv` says what a request in
flight knows: what it carries comes from what it read (`ReadsOf`), and unless it was
overtaken the word is as it read it (`WordAsRead`), the term still free (`TermAsChecked`)
and the level it writes at most one above the one in the table (`LevelAsRead`). The
heart is `NotConcerned`: a commit that does not bear on what another request has read
leaves all of this true. `Duplicates`, `PutReplaces` and `LevelJumps` follow.

**`ReviewList_proofs`.** `TypeCorrect`, `NewWordsListable`, `AlmostOnTime`, `NotEarly` and
`SummaryAgrees`. Everything rests on `TodayLag`: the "today" of a list is the server's day
or the day before. A new word is due on the day before the server's day of the moment it
was written (`NewIsPast`), and days do not go back (`DaysAdvance`). `NotEarly` covers the rows a reader
holds between its statements. `SummaryAgrees` rests on two invariants: a count that has not
been forgotten is the number of words due now (`SummaryIsCurrent`), and the rows picked since
are still current, one for each word picked (`RowsAreCurrent`, `RowsPicked`), so that
`PreloadWords` drops none (`SummaryStep`).

**`Accounts_proofs`.** `Invariance` proves `IInv`, the conjunction of what the services
promise (`AccountHasIdentity`, `InactiveWasMailed`, `AnswersAreTrue`,
`SessionFindsAccount`) and of why:

- `Script`: the statements of each operation, and which uncommitted writes it holds there;
- `OneWriterPerRow`: what the row locks and the unique indexes achieve, an insert included:
  a second one of the same key waits for the end of the first;
- `DrawnTokens`: a token that a request has drawn but not committed is known to nobody
  else, so that nobody can spend it, and is in no mail box before it is sent;
- `Knowledge`: what a request has learnt from a row and relies on in a later statement,
  although it locked nothing. It stays true because accounts and identities never
  disappear (`NothingLost`), and because of the locks where a row is written;
- `TokensHaveAccount`: a token row has the account, or the local identity, it was made for,
  so that the updates of a verification and of a reset never miss their row and the 404
  after them is never answered (`RowsToUpdate`).

There, too, only a commit changes the tables, but for `SaveResetToken`, acknowledged or not,
and `Expire` (`Writers`, `Saves`); `CommitEffect` says what each commit does. `WhoMoves` splits a step, seen from
one connection, into arriving, going on, ending and waiting, and `HowItGoes` says what going
on means for each operation; each part of `IInv` is then preserved by cases on these.
`TokensSpent` uses that a token row can only be deleted by the commit of a request that has
seen it valid (`TokenFate`). That a request for a reset is told the truth needs that its
token, once it is told, is drawn by nobody else (`DrawnTokens`). `ResetTokensSaved` adds `SavedTokens`: while a reset mail is being
sent its token stays in the table, since nobody can have it. `Implementation` maps commits
to steps of `AccountLifecycle`. The messages: an account is committed as inactive only after
`Send` returned (`Knowledge`), and what has been accepted stays accepted.

**`Server_proofs`.** `ServerInvariance` proves `ServerInv`, from which the invariants of the
run `server` follow. It rests on where in its agenda a request can be while it has a
transaction (`TransactionsOnTheWay`): whatever path it takes, from `begin` on there are
left at most a mail, a commit and the answer (`TxAgenda`, established for every path by
`AgendaShape`), a transaction lost behind the handler's back is past `begin`, and a
committed one has nothing but the answer left. `ConnectionsOwned` is inductive only with
it: a request that gives up, or responds, must not leave an open transaction behind.
`SuccessesAreTrue` needs to tell a handler without a transaction from one whose transaction
failed (`BeginIsAhead`): as long as there is none, and no error, the `begin` of a path that
has one is still ahead, and at the answer nothing is.
`LogMatchesAnswer` follows from `DeadlineIsLate`, which is where the order of `WriteTimeout`
and the handlers' timeout enters, and `SmtpFailureDeliversNothing` from `CallsOfTheMailer`:
a call is at the steps of the mailer that was chosen, has sent nothing before the last, and
SES has an attempt left.
`MailersImplement` maps each step of a mailer to a step of `Mailer` or to none
(`MailerStep`).

**Model-checked only.** Liveness under fairness, which is beyond the prover:
`EveryRequestAnswered`, `AnsweredOrMailing`, `ConnectionsReturn`, `EveryRequestEnds` and
`StopsOnSignal`. What the runs that end in a counterexample show is shown by that
counterexample; a theorem could only repeat it.

## 5. Not modelled

- `GetWord` and `GetWords`: single reads whose result nothing else uses. As users of a
  connection they are paths of `Server`.
- JWTs are taken to be forged by nobody. A session outlives a password reset; no document
  says otherwise.
- The commands of the SMTP dialogue one by one: each can only go on or fail before the end
  of the message, which is a step of its own. The protocol of SES inside one attempt.
- The text of validation messages (`internal/webutil/validator.go`), the masking of headers
  in the log, CORS, how viper merges files and environment: no state that changes. Which
  error gives which answer is in the actions.
- Several tenants or addresses at once: no statement touches the rows of two.
- The migrations, whose result is used, the two sample programs under `cmd`, mocks and
  deployment.
- PostgreSQL itself is taken at its word: row locks, unique indexes and READ COMMITTED
  as its manual describes them. Deadlock detection has no model because no two
  transactions can wait for each other, which `answered` and `account_answered` check.

## 6. Plan

1. Done: the modules above, their runs, and the proofs of section 4, which cover every
   safety property of the runs.
2. Left: that the pool is never overdrawn, for a finite set of requests.
