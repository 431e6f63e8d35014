------------------------------ MODULE VocabStore ------------------------------
(***************************************************************************)
(* The vocabulary of one tenant: its rows of the tables words and          *)
(* learning_progress, and the requests of the word and review services     *)
(* that read and write them (internal/service/word_service.go and          *)
(* review_service.go over internal/repository).                            *)
(*                                                                         *)
(* Each request runs in a goroutine of its own and, through gorm, in one   *)
(* PostgreSQL transaction at the default isolation level, READ COMMITTED.  *)
(* A step of this module is one SQL statement, executed together with the  *)
(* Go code up to the next one.  A statement sees the committed rows and    *)
(* the writes of its own transaction; a write to a row that another        *)
(* transaction has written waits until that transaction ends.              *)
(***************************************************************************)
EXTENDS ReviewSchedule, FiniteSets

CONSTANTS
    Reqs,       \* connections, each serving one request after another
    Editors,    \* those that may post, put or patch a word
    Deleters,   \* those that may delete a word
    Reviewers,  \* those that may submit a review result
    WordIds,    \* the values uuid.New() may return for a word
    Terms, Defs,
    MaxDay,     \* bound on the calendar
    Faults,     \* the failures a run allows, a subset of FaultKinds
    None,       \* no row, no pending write
    Gone,       \* a pending delete
    Keep        \* a field the patch body leaves out

FaultKinds == {"error", "unacked", "crash"}

ASSUME RolesAssumption ==
    /\ Editors \subseteq Reqs
    /\ Deleters \subseteq Reqs
    /\ Reviewers \subseteq Reqs
    /\ Faults \subseteq FaultKinds
    /\ MaxDay \in Nat

\* A row of words: deleted_at IS NULL exactly when live.
Word == [term: Terms, def: Defs, live: BOOLEAN]

(***************************************************************************)
(* A row of learning_progress.  id stands for progress_id and only tells   *)
(* the row PostWord inserts from one a review inserts: at most one of each *)
(* exists in the life of a word.  due is the day of next_review_date.      *)
(***************************************************************************)
Progress == [id: {"post", "review"}, level: Levels, due: Int]

Request == [op: {"post", "put", "patch", "delete", "review"},
            w: WordIds,
            term: Terms \cup {Keep},
            def: Defs \cup {Keep},
            correct: BOOLEAN]

ASSUME SentinelAssumption ==
    /\ None \notin Word \cup Progress \cup Request
    /\ Gone \notin Progress
    /\ Gone # None
    /\ Keep \notin Terms \cup Defs
    /\ {None, Gone} \cap [term: Terms, def: Defs, level: Levels] = {}

Statements == {"checkTerm", "insertWord", "insertProgress", "findWord",
               "updateWord", "rereadWord", "deleteProgress", "deleteWord",
               "findProgress", "createProgress", "updateProgress", "commit"}

Answers == {"none", "lost", "200", "201", "204", "404", "409", "500"}

VARIABLES
    words,  \* committed rows of words
    prog,   \* committed rows of learning_progress, by word_id
    day,    \* today
    pc,     \* the statement a request runs next, "idle" between requests
    req,    \* the request in hand, or the last one served
    resp,   \* its answer
    found,  \* the words row PutWord or PatchWord has read
    plan,   \* the learning_progress row a review has computed
    wput,   \* uncommitted version of the words row of req[r].w
    pput    \* uncommitted version of its learning_progress row

vars == <<words, prog, day, pc, req, resp, found, plan, wput, pput>>
txVars == <<found, plan, wput, pput>>

Init ==
    /\ words = [w \in WordIds |-> None]
    /\ prog = [w \in WordIds |-> None]
    /\ day = 0
    /\ pc = [r \in Reqs |-> "idle"]
    /\ req = [r \in Reqs |-> None]
    /\ resp = [r \in Reqs |-> "none"]
    /\ found = [r \in Reqs |-> None]
    /\ plan = [r \in Reqs |-> None]
    /\ wput = [r \in Reqs |-> None]
    /\ pput = [r \in Reqs |-> None]

-----------------------------------------------------------------------------
(***************************************************************************)
(* What a statement sees, and what it waits for.                           *)
(***************************************************************************)
IsLive(row) == row # None /\ row.live

\* gormWordRepository.FindByID: the row as r sees it, unless soft-deleted.
FindByID(r) ==
    LET row == IF wput[r] # None THEN wput[r] ELSE words[req[r].w]
    IN IF IsLive(row) THEN row ELSE None

\* Mutant: the count is compared with one too many.
CheckTermExistsTwice(term, except) ==
    \E v, w \in WordIds \ except :
        /\ v # w
        /\ IsLive(words[v]) /\ words[v].term = term
        /\ IsLive(words[w]) /\ words[w].term = term

\* gormWordRepository.CheckTermExists; except is {} or the word being edited.
CheckTermExists(term, except) ==
    \E w \in WordIds \ except : IsLive(words[w]) /\ words[w].term = term

\* gormProgressRepository.FindByWordID: the join drops a soft-deleted word.
FindByWordID(w) == IF IsLive(words[w]) THEN prog[w] ELSE None

\* No other transaction holds the words row of r's word.
WordRowFree(r) ==
    \A o \in Reqs : o # r /\ wput[o] # None => req[o].w # req[r].w

\* No other transaction holds the learning_progress row of r's word.
ProgressRowFree(r) ==
    \A o \in Reqs : o # r /\ pput[o] # None => req[o].w # req[r].w

-----------------------------------------------------------------------------
(***************************************************************************)
(* How a transaction ends.  Finish releases its writes and answers.        *)
(***************************************************************************)
Goto(r, statement) == pc' = [pc EXCEPT ![r] = statement]

Finish(r, answer) ==
    /\ Goto(r, "idle")
    /\ resp' = [resp EXCEPT ![r] = answer]
    /\ found' = [found EXCEPT ![r] = None]
    /\ plan' = [plan EXCEPT ![r] = None]
    /\ wput' = [wput EXCEPT ![r] = None]
    /\ pput' = [pput EXCEPT ![r] = None]
    /\ UNCHANGED req

Rollback(r, answer) == Finish(r, answer) /\ UNCHANGED <<words, prog, day>>

CommitTx(r, answer) ==
    /\ words' = IF wput[r] = None THEN words
                ELSE [words EXCEPT ![req[r].w] = wput[r]]
    /\ prog' = IF pput[r] = None THEN prog
               ELSE [prog EXCEPT ![req[r].w] =
                                     IF pput[r] = Gone THEN None ELSE pput[r]]
    /\ Finish(r, answer)
    /\ UNCHANGED day

Success(op) == IF op = "post" THEN "201"
               ELSE IF op \in {"put", "patch"} THEN "200" ELSE "204"

-----------------------------------------------------------------------------
(***************************************************************************)
(* A request arrives.  A word_id in a request is one the server has handed *)
(* to this tenant before, so its row has been committed; the word may have *)
(* been deleted since.  The id of a new word is drawn here rather than at  *)
(* the INSERT, which nobody can tell.                                      *)
(***************************************************************************)
Receive(r, request, statement) ==
    /\ pc[r] = "idle"
    /\ req' = [req EXCEPT ![r] = request]
    /\ resp' = [resp EXCEPT ![r] = "none"]
    /\ Goto(r, statement)
    /\ UNCHANGED <<words, prog, day, txVars>>

Known == {w \in WordIds : words[w] # None}

Fresh == {w \in WordIds \ Known :
              \A o \in Reqs : pc[o] # "idle" => req[o].w # w}

ReceivePost(r) ==
    /\ r \in Editors
    /\ \E w \in Fresh, t \in Terms, d \in Defs :
          Receive(r, [op |-> "post", w |-> w, term |-> t, def |-> d,
                      correct |-> FALSE], "checkTerm")

ReceivePut(r) ==
    /\ r \in Editors
    /\ \E w \in Known, t \in Terms, d \in Defs :
          Receive(r, [op |-> "put", w |-> w, term |-> t, def |-> d,
                      correct |-> FALSE], "findWord")

\* A patch that names both fields runs the statements of a put.
ReceivePatch(r) ==
    /\ r \in Editors
    /\ \E w \in Known, t \in Terms \cup {Keep}, d \in Defs \cup {Keep} :
          /\ Keep \in {t, d}
          /\ Receive(r, [op |-> "patch", w |-> w, term |-> t, def |-> d,
                         correct |-> FALSE], "findWord")

ReceiveDelete(r) ==
    /\ r \in Deleters
    /\ \E w \in Known :
          Receive(r, [op |-> "delete", w |-> w, term |-> Keep, def |-> Keep,
                      correct |-> FALSE], "deleteProgress")

ReceiveReview(r) ==
    /\ r \in Reviewers
    /\ \E w \in Known, c \in BOOLEAN :
          Receive(r, [op |-> "review", w |-> w, term |-> Keep, def |-> Keep,
                      correct |-> c], "findProgress")

-----------------------------------------------------------------------------
(***************************************************************************)
(* PostWord, PutWord and PatchWord.                                        *)
(***************************************************************************)
TermChanges(r, row) == req[r].term \notin {Keep, row.term}
DefChanges(r, row) == req[r].def \notin {Keep, row.def}

CheckTerm(r) ==
    /\ pc[r] = "checkTerm"
    /\ IF CheckTermExists(req[r].term,
                          IF req[r].op = "post" THEN {} ELSE {req[r].w})
       THEN Rollback(r, "409")
       ELSE /\ Goto(r, IF req[r].op = "post" THEN "insertWord"
                                             ELSE "updateWord")
            /\ UNCHANGED <<words, prog, day, req, resp, txVars>>

\* Mutant: the INSERT runs on the service's connection, outside the transaction.
InsertWordAutocommit(r) ==
    /\ pc[r] = "insertWord"
    /\ words' = [words EXCEPT ![req[r].w] =
                     [term |-> req[r].term, def |-> req[r].def, live |-> TRUE]]
    /\ Goto(r, "insertProgress")
    /\ UNCHANGED <<prog, day, req, resp, txVars>>

InsertWord(r) ==
    /\ pc[r] = "insertWord"
    /\ wput' = [wput EXCEPT ![r] = [term |-> req[r].term, def |-> req[r].def,
                                    live |-> TRUE]]
    /\ Goto(r, "insertProgress")
    /\ UNCHANGED <<words, prog, day, req, resp, found, plan, pput>>

\* A new word is due yesterday, so that today's list already holds it.
InsertProgress(r) ==
    /\ pc[r] = "insertProgress"
    /\ pput' = [pput EXCEPT ![r] = [id |-> "post", level |-> 1,
                                    due |-> FirstDue(day)]]
    /\ Goto(r, "commit")
    /\ UNCHANGED <<words, prog, day, req, resp, found, plan, wput>>

FindWord(r) ==
    /\ pc[r] = "findWord"
    /\ LET row == FindByID(r) IN
       IF row = None THEN Rollback(r, "404")
       ELSE /\ found' = [found EXCEPT ![r] = row]
            /\ Goto(r, IF TermChanges(r, row) THEN "checkTerm"
                       ELSE IF DefChanges(r, row) THEN "updateWord"
                       ELSE "rereadWord")
            /\ UNCHANGED <<words, prog, day, req, resp, plan, wput, pput>>

\* Mutant: the row read earlier is saved whole.
EditedSaveAll(r) ==
    [term |-> IF TermChanges(r, found[r]) THEN req[r].term ELSE found[r].term,
     def |-> IF DefChanges(r, found[r]) THEN req[r].def ELSE found[r].def,
     live |-> words[req[r].w].live]

\* Mutant: a changed definition is written only when the term stays.
EditedOneColumn(r) ==
    LET row == words[req[r].w] IN
    [term |-> IF TermChanges(r, found[r]) THEN req[r].term ELSE row.term,
     def |-> IF DefChanges(r, found[r]) /\ ~TermChanges(r, found[r])
             THEN req[r].def ELSE row.def,
     live |-> row.live]

\* The row with the columns that differed from the row read earlier replaced.
Edited(r) ==
    LET row == words[req[r].w] IN
    [term |-> IF TermChanges(r, found[r]) THEN req[r].term ELSE row.term,
     def |-> IF DefChanges(r, found[r]) THEN req[r].def ELSE row.def,
     live |-> row.live]

\* Mutant: the UPDATE forgets deleted_at IS NULL.
UpdateWordUnscoped(r) ==
    /\ pc[r] = "updateWord"
    /\ WordRowFree(r)
    /\ wput' = [wput EXCEPT ![r] = Edited(r)]
    /\ Goto(r, "commit")
    /\ UNCHANGED <<words, prog, day, req, resp, found, plan, pput>>

\* Mutant: optimistic locking, a row changed since it was read is not found.
UpdateWordIfUnchanged(r) ==
    /\ pc[r] = "updateWord"
    /\ IF words[req[r].w] = found[r]
       THEN /\ WordRowFree(r)
            /\ wput' = [wput EXCEPT ![r] = Edited(r)]
            /\ Goto(r, "rereadWord")
            /\ UNCHANGED <<words, prog, day, req, resp, found, plan, pput>>
       ELSE Rollback(r, "404")

UpdateWord(r) ==
    /\ pc[r] = "updateWord"
    /\ IF IsLive(words[req[r].w])
       THEN /\ WordRowFree(r)
            /\ wput' = [wput EXCEPT ![r] = Edited(r)]
            /\ Goto(r, "rereadWord")
            /\ UNCHANGED <<words, prog, day, req, resp, found, plan, pput>>
       ELSE Rollback(r, "404")

RereadWord(r) ==
    /\ pc[r] = "rereadWord"
    /\ IF FindByID(r) = None THEN Rollback(r, "404")
       ELSE /\ Goto(r, "commit")
            /\ UNCHANGED <<words, prog, day, req, resp, txVars>>

-----------------------------------------------------------------------------
(***************************************************************************)
(* DeleteWord: the progress row goes first, then the word is soft-deleted. *)
(* When there is no live word the transaction is rolled back, the deleted  *)
(* progress row with it, and the request still succeeds.                   *)
(***************************************************************************)
\* Mutant: the progress row is deleted outside the transaction.
DeleteProgressAutocommit(r) ==
    /\ pc[r] = "deleteProgress"
    /\ ProgressRowFree(r)
    /\ prog' = [prog EXCEPT ![req[r].w] = None]
    /\ Goto(r, "deleteWord")
    /\ UNCHANGED <<words, day, req, resp, txVars>>

DeleteProgress(r) ==
    /\ pc[r] = "deleteProgress"
    /\ IF prog[req[r].w] = None THEN UNCHANGED pput
       ELSE /\ ProgressRowFree(r)
            /\ pput' = [pput EXCEPT ![r] = Gone]
    /\ Goto(r, "deleteWord")
    /\ UNCHANGED <<words, prog, day, req, resp, found, plan, wput>>

\* Mutant: a locked row counts as not found.
DeleteWordSkipLocked(r) ==
    /\ pc[r] = "deleteWord"
    /\ LET row == words[req[r].w] IN
       IF IsLive(row) /\ WordRowFree(r)
       THEN /\ wput' = [wput EXCEPT ![r] = [term |-> row.term,
                                            def |-> row.def,
                                            live |-> FALSE]]
            /\ Goto(r, "commit")
            /\ UNCHANGED <<words, prog, day, req, resp, found, plan, pput>>
       ELSE Rollback(r, "204")

\* Mutant: "not found" answers without ending the transaction.
DeleteWordLeak(r) ==
    /\ pc[r] = "deleteWord"
    /\ LET row == words[req[r].w] IN
       IF IsLive(row)
       THEN /\ WordRowFree(r)
            /\ wput' = [wput EXCEPT ![r] = [term |-> row.term,
                                            def |-> row.def,
                                            live |-> FALSE]]
            /\ Goto(r, "commit")
            /\ UNCHANGED <<words, prog, day, req, resp, found, plan, pput>>
       ELSE /\ Goto(r, "idle")
            /\ resp' = [resp EXCEPT ![r] = "204"]
            /\ UNCHANGED <<words, prog, day, req, txVars>>

DeleteWord(r) ==
    /\ pc[r] = "deleteWord"
    /\ LET row == words[req[r].w] IN
       IF IsLive(row)
       THEN /\ WordRowFree(r)
            /\ wput' = [wput EXCEPT ![r] = [term |-> row.term,
                                            def |-> row.def,
                                            live |-> FALSE]]
            /\ Goto(r, "commit")
            /\ UNCHANGED <<words, prog, day, req, resp, found, plan, pput>>
       ELSE Rollback(r, "204")

-----------------------------------------------------------------------------
(***************************************************************************)
(* UpsertLearningProgressBasedOnReview.                                    *)
(***************************************************************************)
\* Mutant: the interval is looked up with the level the word has just reached.
CalculateNextProgressByNewLevel(p, correct) ==
    LET level == IF p = None THEN 1 ELSE p.level
        next == NextLevel(level, correct)
    IN [id |-> IF p = None THEN "review" ELSE p.id,
        level |-> next,
        due |-> NextDue(next, correct, day)]

\* A missing row counts as level 1, and is then inserted.
CalculateNextProgress(p, correct) ==
    LET level == IF p = None THEN 1 ELSE p.level IN
    [id |-> IF p = None THEN "review" ELSE p.id,
     level |-> NextLevel(level, correct),
     due |-> NextDue(level, correct, day)]

FindProgress(r) ==
    /\ pc[r] = "findProgress"
    /\ LET p == FindByWordID(req[r].w) IN
       /\ plan' = [plan EXCEPT ![r] = CalculateNextProgress(p, req[r].correct)]
       /\ Goto(r, IF p = None THEN "createProgress" ELSE "updateProgress")
    /\ UNCHANGED <<words, prog, day, req, resp, found, wput, pput>>

WriteProgress(r) ==
    /\ ProgressRowFree(r)
    /\ pput' = [pput EXCEPT ![r] = plan[r]]
    /\ Goto(r, "commit")
    /\ UNCHANGED <<words, prog, day, req, resp, found, plan, wput>>

\* The INSERT waits for a transaction that writes the same (tenant_id, word_id)
\* and fails on the unique constraint when that leaves a row.  The foreign key
\* is satisfied by a soft-deleted word.
CreateProgress(r) ==
    /\ pc[r] = "createProgress"
    /\ IF prog[req[r].w] = None THEN WriteProgress(r)
       ELSE ProgressRowFree(r) /\ Rollback(r, "500")

\* The UPDATE is by progress_id; no row with that id means 404.
UpdateProgress(r) ==
    /\ pc[r] = "updateProgress"
    /\ IF prog[req[r].w] # None /\ prog[req[r].w].id = plan[r].id
       THEN WriteProgress(r)
       ELSE Rollback(r, "404")

-----------------------------------------------------------------------------
(***************************************************************************)
(* Commit, and the failures.                                               *)
(***************************************************************************)
Commit(r) == pc[r] = "commit" /\ CommitTx(r, Success(req[r].op))

\* The commit took effect but its acknowledgement, or the answer, was lost.
CommitUnacked(r) ==
    /\ "unacked" \in Faults
    /\ pc[r] = "commit"
    /\ \E answer \in {"500", "lost"} : CommitTx(r, answer)

\* A statement fails, or the request's context ends, before the commit.
Error(r) == "error" \in Faults /\ pc[r] # "idle" /\ Rollback(r, "500")

\* The process stops: PostgreSQL rolls every open transaction back.
Crash ==
    /\ "crash" \in Faults
    /\ \E r \in Reqs : pc[r] # "idle"
    /\ pc' = [r \in Reqs |-> "idle"]
    /\ resp' = [r \in Reqs |-> IF pc[r] = "idle" THEN resp[r] ELSE "lost"]
    /\ found' = [r \in Reqs |-> None]
    /\ plan' = [r \in Reqs |-> None]
    /\ wput' = [r \in Reqs |-> None]
    /\ pput' = [r \in Reqs |-> None]
    /\ UNCHANGED <<words, prog, day, req>>

NextDay ==
    /\ day < MaxDay
    /\ day' = day + 1
    /\ UNCHANGED <<words, prog, pc, req, resp, txVars>>

Arrive(r) == ReceivePost(r) \/ ReceivePut(r) \/ ReceivePatch(r)
             \/ ReceiveDelete(r) \/ ReceiveReview(r)

Serve(r) == CheckTerm(r) \/ InsertWord(r) \/ InsertProgress(r) \/ FindWord(r)
            \/ UpdateWord(r) \/ RereadWord(r) \/ DeleteProgress(r)
            \/ DeleteWord(r) \/ FindProgress(r) \/ CreateProgress(r)
            \/ UpdateProgress(r) \/ Commit(r)

Next == \/ \E r \in Reqs : Arrive(r) \/ Serve(r) \/ CommitUnacked(r) \/ Error(r)
        \/ Crash
        \/ NextDay

Spec == Init /\ [][Next]_vars

(***************************************************************************)
(* Fairness.  The server runs a request's statements without being asked   *)
(* again, which is weak fairness; a statement that waits for a row lock    *)
(* queues for it in PostgreSQL, first come first served, so that it is not *)
(* passed over for ever: strong fairness.  Nothing forces requests to      *)
(* come, failures to happen or days to pass.                               *)
(***************************************************************************)
Fairness == \A r \in Reqs : SF_vars(Serve(r))

FairSpec == Spec /\ Fairness

-----------------------------------------------------------------------------
TypeOK ==
    /\ words \in [WordIds -> Word \cup {None}]
    /\ prog \in [WordIds -> Progress \cup {None}]
    /\ day \in 0..MaxDay
    /\ pc \in [Reqs -> Statements \cup {"idle"}]
    /\ req \in [Reqs -> Request \cup {None}]
    /\ resp \in [Reqs -> Answers]
    /\ found \in [Reqs -> Word \cup {None}]
    /\ plan \in [Reqs -> Progress \cup {None}]
    /\ wput \in [Reqs -> Word \cup {None}]
    /\ pput \in [Reqs -> Progress \cup {Gone, None}]

(* A live word has its progress row: PostWord inserts both in one          *)
(* transaction and DeleteWord removes both in one, whatever a crash or a   *)
(* concurrent review does.  Without it the word never comes up for review. *)
EveryLiveWordIsScheduled ==
    \A w \in WordIds : IsLive(words[w]) => prog[w] # None

(* A soft-deleted word is never brought back and never edited again, even  *)
(* by a request that had read it while it was live.                        *)
DeletedWordIsFrozen ==
    [][\A w \in WordIds :
          words[w] # None /\ ~words[w].live => words'[w] = words[w]]_vars

(* An answer 204 to DELETE means that the word is deleted, also when the   *)
(* service answers it for "no such row" after racing another DELETE.       *)
DeleteAcknowledged ==
    \A r \in Reqs :
        resp[r] = "204" /\ req[r].op = "delete" => ~IsLive(words[req[r].w])

(* A put, patch or review that answers 404 named a word that is deleted:   *)
(* the update "row not found" of a race is never about a live word.        *)
NotFoundMeansDeleted ==
    \A r \in Reqs : resp[r] = "404" => ~IsLive(words[req[r].w])

(* A patch that leaves a field out never changes it, also when another     *)
(* request has changed that field since the patch read the row.            *)
PatchKeepsTheRest ==
    [][\A r \in Reqs :
          pc[r] = "commit" /\ pc'[r] = "idle" /\ req[r].op = "patch" =>
             /\ req[r].term = Keep =>
                   words'[req[r].w].term = words[req[r].w].term
             /\ req[r].def = Keep =>
                   words'[req[r].w].def = words[req[r].w].def]_vars

\* The longest a word may have to wait for its next review, by its level.
LongestWait == [level \in Levels |->
                   IF level = 1 THEN 1 ELSE IF level = 2 THEN 3 ELSE 14]

(* No word is put off for longer than its level allows: the level and the  *)
(* day of a row come from one review, whatever reviews raced it and on     *)
(* whichever later day it was committed, so that a word that fell back to  *)
(* level 1 never keeps the date of a higher level.                         *)
DueWithinInterval ==
    \A w \in WordIds :
        prog[w] # None => prog[w].due <= day + LongestWait[prog[w].level]

(* A row inserted by a review belongs to a deleted word: the rows of live  *)
(* words are the ones PostWord inserted, so a review never replaces one.   *)
ReviewInsertsOnlyForDeleted ==
    \A w \in WordIds :
        prog[w] # None /\ prog[w].id = "review" => ~IsLive(words[w])

\* What a client sees of a word: nothing yet, the word and its level, or that
\* it is gone.  (A live word without a progress row would show as level 0.)
EntryOf(w) ==
    IF words[w] = None THEN None
    ELSE IF words[w].live
         THEN [term |-> words[w].term, def |-> words[w].def,
               level |-> IF prog[w] = None THEN 0 ELSE prog[w].level]
         ELSE Gone

Vocabulary == [w \in WordIds |-> EntryOf(w)]

(* Seen from outside, each request is one indivisible step of the life of  *)
(* one word: added, edited, studied or retired.                            *)
Lifecycle == INSTANCE WordLifecycle WITH
    Unused <- None, Retired <- Gone, entry <- Vocabulary

ImplementsLifecycle == Lifecycle!Spec

(* A request that is being served is eventually answered, although it may  *)
(* wait for the row locks of others.                                       *)
EveryRequestAnswered ==
    \A r \in Reqs : pc[r] # "idle" ~> pc[r] = "idle"

-----------------------------------------------------------------------------
(***************************************************************************)
(* What the repository's comments and tests promise and only holds while   *)
(* nothing races, or not at all: see the runs.                             *)
(***************************************************************************)
Answered(r, answer) == pc[r] # "idle" /\ pc'[r] = "idle" /\ resp'[r] = answer

(* No two live words of the tenant have the same term.                     *)
UniqueLiveTerms ==
    \A v, w \in WordIds :
        IsLive(words[v]) /\ IsLive(words[w]) /\ words[v].term = words[w].term
            => v = w

(* A review raises the level of a word by one rung at most.                *)
LevelClimbsOneRung ==
    [][\A w \in WordIds :
          prog[w] # None /\ prog'[w] # None =>
             prog'[w].level <= prog[w].level + 1]_vars

(* A delete that answers 204 leaves no progress row behind.                *)
DeleteLeavesNoProgress ==
    [][\A r \in Reqs :
          Answered(r, "204") /\ req[r].op = "delete" =>
             prog'[req[r].w] = None]_vars

-----------------------------------------------------------------------------
(***************************************************************************)
(* The inductive invariant.                                                *)
(***************************************************************************)
\* Which statements a request may be at, and which writes it then holds.
ScriptOf(r) ==
    /\ pc[r] = "idle" => wput[r] = None /\ pput[r] = None
    /\ pc[r] # "idle" => req[r] # None
    /\ pc[r] # "idle" /\ req[r].op \in {"post", "put"} =>
          req[r].term # Keep /\ req[r].def # Keep
    /\ pc[r] \in {"insertWord", "insertProgress"} => req[r].op = "post"
    /\ pc[r] \in {"findWord", "updateWord", "rereadWord"} =>
          req[r].op \in {"put", "patch"}
    /\ pc[r] = "checkTerm" => req[r].op \in {"post", "put", "patch"}
    /\ pc[r] \in {"deleteProgress", "deleteWord"} => req[r].op = "delete"
    /\ pc[r] \in {"findProgress", "createProgress", "updateProgress"} =>
          req[r].op = "review"
    /\ wput[r] # None => pc[r] \in {"insertProgress", "rereadWord", "commit"}
    /\ pput[r] # None => pc[r] \in {"deleteWord", "commit"}
    /\ pc[r] = "insertProgress" => wput[r] # None
    /\ pc[r] \in {"checkTerm", "updateWord"} /\ req[r].op # "post" =>
          found[r] # None
    /\ pc[r] \in {"createProgress", "updateProgress"} => plan[r] # None

Script == \A r \in Reqs : ScriptOf(r)

\* A request in flight owns the id it adds, and otherwise names a known word.
TargetOf(r) ==
    pc[r] # "idle" =>
    IF req[r].op = "post"
    THEN /\ words[req[r].w] = None
         /\ \A o \in Reqs : o # r /\ pc[o] # "idle" => req[o].w # req[r].w
    ELSE words[req[r].w] # None

Targets == \A r \in Reqs : TargetOf(r)

\* Row locks: one writer for each row.
OneWriterPerRow ==
    \A r, o \in Reqs :
        r # o /\ pc[r] # "idle" /\ pc[o] # "idle" /\ req[r].w = req[o].w =>
            /\ wput[r] = None \/ wput[o] = None
            /\ pput[r] = None \/ pput[o] = None

\* What each kind of request is about to commit.
PendingOf(r) ==
    /\ pc[r] # "idle" /\ req[r].op = "post" =>
          /\ wput[r] # None => wput[r].live
          /\ pc[r] = "commit" => wput[r] # None /\ pput[r] \in Progress
          /\ pput[r] # None =>
                pput[r] # Gone /\ pput[r].id = "post" /\ pput[r].level = 1
    /\ pc[r] # "idle" /\ req[r].op \in {"put", "patch"} =>
          /\ wput[r] # None => wput[r].live /\ IsLive(words[req[r].w])
          /\ pput[r] = None
    /\ pc[r] # "idle" /\ req[r].op = "delete" =>
          /\ pput[r] \in {None, Gone}
          /\ wput[r] # None => pc[r] = "commit"
          /\ pc[r] \in {"deleteWord", "commit"} /\ IsLive(words[req[r].w])
                => pput[r] = Gone
          /\ pc[r] = "commit" =>
                /\ wput[r] # None /\ ~wput[r].live
                /\ IsLive(words[req[r].w])
    /\ pc[r] # "idle" /\ req[r].op = "review" =>
          /\ wput[r] = None
          /\ pput[r] # Gone
          /\ pc[r] = "createProgress" =>
                /\ ~IsLive(words[req[r].w])
                /\ plan[r].id = "review"
          /\ pc[r] = "commit" =>
                /\ pput[r] # None
                /\ IF prog[req[r].w] = None
                   THEN ~IsLive(words[req[r].w]) /\ pput[r].id = "review"
                   ELSE pput[r].id = prog[req[r].w].id

PendingWrites == \A r \in Reqs : PendingOf(r)

IInv ==
    /\ TypeOK
    /\ Script
    /\ Targets
    /\ OneWriterPerRow
    /\ PendingWrites
    /\ EveryLiveWordIsScheduled
    /\ ReviewInsertsOnlyForDeleted

=============================================================================
