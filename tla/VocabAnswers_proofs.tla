-------------------------- MODULE VocabAnswers_proofs --------------------------
(***************************************************************************)
(* What a step of VocabStore does to the tables, and what its answers are  *)
(* worth afterwards: for any number of connections, words and days.        *)
(***************************************************************************)
EXTENDS VocabStore_proofs

-----------------------------------------------------------------------------
(***************************************************************************)
(* Only a commit writes, and it writes what its operation is meant to.     *)
(***************************************************************************)
CommitsWith(r, answer) == pc[r] = "commit" /\ CommitTx(r, answer)

\* The statements leave the tables alone.
LEMMA OnlyCommitsWrite ==
    ASSUME [Next]_vars
    PROVE  \/ UNCHANGED <<words, prog>>
           \/ \E r \in Reqs, answer \in Answers : CommitsWith(r, answer)
<1>1. ASSUME NEW r \in Reqs, Arrive(r) PROVE UNCHANGED <<words, prog>>
  BY <1>1 DEF Arrive, ReceivePost, ReceivePut, ReceivePatch, ReceiveDelete,
     ReceiveReview, Receive
<1>2. ASSUME NEW r \in Reqs, Serve(r), ~Commit(r)
      PROVE  UNCHANGED <<words, prog>>
  BY <1>2 DEF Serve, CheckTerm, InsertWord, InsertProgress, FindWord,
     UpdateWord, RereadWord, DeleteProgress, DeleteWord, FindProgress,
     CreateProgress, UpdateProgress, WriteProgress, Rollback
<1>3. ASSUME NEW r \in Reqs, Commit(r)
      PROVE  \E answer \in Answers : CommitsWith(r, answer)
  BY <1>3 DEF Commit, CommitsWith, Success, Answers
<1>4. ASSUME NEW r \in Reqs, CommitUnacked(r)
      PROVE  \E answer \in Answers : CommitsWith(r, answer)
  BY <1>4 DEF CommitUnacked, CommitsWith, Answers
<1>5. ASSUME NEW r \in Reqs, Error(r) PROVE UNCHANGED <<words, prog>>
  BY <1>5 DEF Error, Rollback
<1>6. CASE Crash \/ NextDay \/ UNCHANGED vars
  BY <1>6 DEF Crash, NextDay, vars
<1>7. QED
  BY <1>1, <1>2, <1>3, <1>4, <1>5, <1>6 DEF Next

\* What a commit finds in the tables and what it leaves there.
LEMMA CommitEffect ==
    ASSUME IInv, NEW r \in Reqs, NEW answer \in Answers, CommitsWith(r, answer),
           NEW w, w = req[r].w
    PROVE  /\ req[r] \in Request /\ req[r] # None /\ w \in WordIds
           /\ \A v \in WordIds \ {w} :
                 words'[v] = words[v] /\ prog'[v] = prog[v]
           /\ words'[w] = IF wput[r] = None THEN words[w] ELSE wput[r]
           /\ prog'[w] = IF pput[r] = None THEN prog[w]
                         ELSE IF pput[r] = Gone THEN None ELSE pput[r]
           /\ wput[r] \in Word \cup {None}
           /\ pput[r] \in Progress \cup {Gone, None}
           /\ req[r].op = "post" =>
                 /\ words[w] = None
                 /\ wput[r] # None /\ wput[r].live
                 /\ pput[r] \in Progress /\ pput[r].level = 1
           /\ req[r].op \in {"put", "patch"} =>
                 /\ wput[r] # None => wput[r].live /\ IsLive(words[w])
                 /\ pput[r] = None
           /\ req[r].op = "delete" =>
                 /\ IsLive(words[w])
                 /\ wput[r] # None /\ ~wput[r].live
                 /\ pput[r] = Gone
           /\ req[r].op = "review" =>
                 /\ wput[r] = None /\ words[w] # None
                 /\ pput[r] \in Progress
<1> USE SentinelAssumption
<1>1. /\ TypeOK /\ ScriptOf(r) /\ TargetOf(r) /\ PendingOf(r)
  BY DEF IInv, Script, Targets, PendingWrites
<1>2. pc[r] = "commit" /\ CommitTx(r, answer)
  BY DEF CommitsWith
<1>3. req[r] \in Request /\ req[r] # None /\ w \in WordIds
  BY <1>1, <1>2 DEF TypeOK, ScriptOf, Request
<1>4. /\ \A v \in WordIds \ {w} : words'[v] = words[v] /\ prog'[v] = prog[v]
      /\ words'[w] = IF wput[r] = None THEN words[w] ELSE wput[r]
      /\ prog'[w] = IF pput[r] = None THEN prog[w]
                    ELSE IF pput[r] = Gone THEN None ELSE pput[r]
  BY <1>1, <1>2, <1>3 DEF CommitTx, TypeOK
<1>5. /\ wput[r] \in Word \cup {None}
      /\ pput[r] \in Progress \cup {Gone, None}
  BY <1>1 DEF TypeOK
<1>6. CASE req[r].op = "post"
  BY <1>1, <1>2, <1>3, <1>4, <1>5, <1>6 DEF TargetOf, PendingOf
<1>7. CASE req[r].op \in {"put", "patch"}
  BY <1>1, <1>2, <1>3, <1>4, <1>5, <1>7 DEF TargetOf, PendingOf
<1>8. CASE req[r].op = "delete"
  BY <1>1, <1>2, <1>3, <1>4, <1>5, <1>8 DEF TargetOf, PendingOf
<1>9. CASE req[r].op = "review"
  BY <1>1, <1>2, <1>3, <1>4, <1>5, <1>9 DEF TargetOf, PendingOf
<1>10. QED
  BY <1>3, <1>4, <1>5, <1>6, <1>7, <1>8, <1>9

-----------------------------------------------------------------------------
(***************************************************************************)
(* Deleted words.                                                          *)
(***************************************************************************)
Deleted(w) == words[w] # None /\ ~words[w].live

\* No step changes a deleted word.
LEMMA DeletedStays ==
    ASSUME IInv, [Next]_vars, NEW w \in WordIds, Deleted(w)
    PROVE  words'[w] = words[w] /\ Deleted(w)'
<1>1. ASSUME NEW r \in Reqs, NEW answer \in Answers, CommitsWith(r, answer)
      PROVE  words'[w] = words[w]
  <2>1. CASE w = req[r].w
    BY <1>1, <2>1, CommitEffect DEF Deleted, IsLive, Request
  <2>2. CASE w # req[r].w
    BY <1>1, <2>2, CommitEffect
  <2>3. QED
    BY <2>1, <2>2
<1>2. words'[w] = words[w]
  BY <1>1, OnlyCommitsWrite
<1>3. QED
  BY <1>2 DEF Deleted

(* A soft-deleted word is never brought back and never edited again: what  *)
(* an edit writes was found live under the row lock (UpdateWord), and the  *)
(* id of a post is new (PostWord).                                         *)
THEOREM DeletedFrozen == Spec => DeletedWordIsFrozen
<1>1. IInv /\ [Next]_vars =>
         [\A w \in WordIds :
             words[w] # None /\ ~words[w].live => words'[w] = words[w]]_vars
  BY DeletedStays DEF Deleted
<1>2. QED
  BY <1>1, Invariance, PTL DEF Spec, DeletedWordIsFrozen

-----------------------------------------------------------------------------
(***************************************************************************)
(* The vocabulary as WordLifecycle promises it.                            *)
(***************************************************************************)
\* A live word shows at one of the three levels.
LiveEntries ==
    \A w \in WordIds : IsLive(words[w]) =>
        /\ words[w] \in Word /\ prog[w] \in Progress
        /\ EntryOf(w) = [term |-> words[w].term, def |-> words[w].def,
                         level |-> prog[w].level]
        /\ EntryOf(w) \notin {None, Gone}

LEMMA LiveEntry == IInv => LiveEntries
<1> SUFFICES ASSUME IInv, NEW w \in WordIds, IsLive(words[w])
             PROVE  /\ words[w] \in Word /\ prog[w] \in Progress
                    /\ EntryOf(w) = [term |-> words[w].term,
                                     def |-> words[w].def,
                                     level |-> prog[w].level]
                    /\ EntryOf(w) \notin {None, Gone}
  BY DEF LiveEntries
<1>1. words[w] \in Word /\ prog[w] \in Progress
  BY SentinelAssumption DEF IInv, TypeOK, EveryLiveWordIsScheduled, IsLive
<1>2. EntryOf(w) = [term |-> words[w].term, def |-> words[w].def,
                    level |-> prog[w].level]
  BY <1>1, SentinelAssumption DEF EntryOf, IsLive
<1>3. EntryOf(w) \in [term: Terms, def: Defs, level: Levels]
  BY <1>1, <1>2 DEF Word, Progress
<1>4. QED
  BY <1>1, <1>2, <1>3, SentinelAssumption

\* A commit is one step in the life of the word it names, or invisible.
LEMMA CommitIsStep ==
    ASSUME IInv, IInv', NEW r \in Reqs, NEW answer \in Answers,
           CommitsWith(r, answer)
    PROVE  Lifecycle!Next \/ Vocabulary' = Vocabulary
<1> USE SentinelAssumption
<1> PICK w : w = req[r].w
  OBVIOUS
<1>0. LiveEntries /\ LiveEntries'
  BY LiveEntry, PTL
<1>1. w \in WordIds /\ req[r] \in Request
  BY CommitEffect
<1>2. \A v \in WordIds \ {w} : EntryOf(v)' = EntryOf(v)
  BY CommitEffect DEF EntryOf
<1>3. Vocabulary' = [Vocabulary EXCEPT ![w] = EntryOf(w)']
  BY <1>1, <1>2 DEF Vocabulary
<1>4. Vocabulary[w] = EntryOf(w)
  BY <1>1 DEF Vocabulary
<1>5. ASSUME EntryOf(w)' = EntryOf(w) PROVE Vocabulary' = Vocabulary
  BY <1>1, <1>2, <1>5 DEF Vocabulary
<1>6. CASE req[r].op = "post"
  <2>1. words[w] = None /\ words'[w] = wput[r] /\ prog'[w] = pput[r]
        /\ IsLive(words[w])' /\ pput[r].level = 1
    BY <1>6, CommitEffect DEF IsLive, Progress
  <2>2. /\ EntryOf(w)' = [term |-> words'[w].term, def |-> words'[w].def,
                          level |-> 1]
        /\ words'[w] \in Word
    BY <1>0, <1>1, <2>1 DEF LiveEntries
  <2>3. EntryOf(w) = None
    BY <2>1 DEF EntryOf
  <2>4. Lifecycle!Learn(w)
    BY <1>3, <1>4, <2>2, <2>3 DEF Lifecycle!Learn, Word
  <2>5. QED
    BY <1>1, <2>4 DEF Lifecycle!Next
<1>7. CASE req[r].op \in {"put", "patch"} /\ wput[r] # None
  <2>1. IsLive(words[w]) /\ IsLive(words[w])' /\ prog'[w] = prog[w]
    BY <1>7, CommitEffect DEF IsLive
  <2>2. /\ EntryOf(w).level = prog[w].level
        /\ EntryOf(w) \notin {None, Gone}
    BY <1>0, <1>1, <2>1 DEF LiveEntries
  <2>3. /\ EntryOf(w)' = [term |-> words'[w].term, def |-> words'[w].def,
                          level |-> prog[w].level]
        /\ words'[w] \in Word
    BY <1>0, <1>1, <2>1 DEF LiveEntries
  <2>4. Lifecycle!Edit(w)
    BY <1>3, <1>4, <2>2, <2>3
    DEF Lifecycle!Edit, Lifecycle!Learning, Word
  <2>5. QED
    BY <1>1, <2>4 DEF Lifecycle!Next
<1>8. CASE req[r].op \in {"put", "patch"} /\ wput[r] = None
  <2>1. words'[w] = words[w] /\ prog'[w] = prog[w]
    BY <1>8, CommitEffect
  <2>2. QED
    BY <1>5, <2>1 DEF EntryOf
<1>9. CASE req[r].op = "delete"
  <2>1. IsLive(words[w]) /\ words'[w] # None /\ ~words'[w].live
    BY <1>9, CommitEffect
  <2>2. EntryOf(w)' = Gone /\ EntryOf(w) \notin {None, Gone}
    BY <1>0, <1>1, <2>1 DEF LiveEntries, EntryOf
  <2>3. Lifecycle!Retire(w)
    BY <1>3, <1>4, <2>2 DEF Lifecycle!Retire, Lifecycle!Learning
  <2>4. QED
    BY <1>1, <2>3 DEF Lifecycle!Next
<1>10. CASE req[r].op = "review" /\ ~IsLive(words[w])
  <2>1. words'[w] = words[w]
    BY <1>10, CommitEffect
  <2>2. QED
    BY <1>5, <1>10, <2>1 DEF EntryOf, IsLive
<1>11. CASE req[r].op = "review" /\ IsLive(words[w])
  <2>1. words'[w] = words[w] /\ IsLive(words[w])'
    BY <1>11, CommitEffect DEF IsLive
  <2>2. /\ EntryOf(w).term = words[w].term /\ EntryOf(w).def = words[w].def
        /\ EntryOf(w) \notin {None, Gone}
    BY <1>0, <1>1, <1>11 DEF LiveEntries
  <2>3. /\ EntryOf(w)' = [term |-> words[w].term, def |-> words[w].def,
                          level |-> prog'[w].level]
        /\ prog'[w] \in Progress
    BY <1>0, <1>1, <2>1 DEF LiveEntries
  <2>4. Lifecycle!Study(w)
    BY <1>3, <1>4, <2>2, <2>3
    DEF Lifecycle!Study, Lifecycle!Learning, Progress, Levels
  <2>5. QED
    BY <1>1, <2>4 DEF Lifecycle!Next
<1>12. QED
  BY <1>1, <1>6, <1>7, <1>8, <1>9, <1>10, <1>11 DEF Request

(* Seen from outside, each request is one indivisible step of the life of  *)
(* one word (WordLifecycle), whatever runs at the same time or fails.      *)
THEOREM Implementation == Spec => ImplementsLifecycle
<1>1. Init => Lifecycle!Init
  BY DEF Init, Lifecycle!Init, Vocabulary, EntryOf
<1>2. IInv /\ IInv' /\ [Next]_vars => [Lifecycle!Next]_Vocabulary
  <2> SUFFICES ASSUME IInv, IInv', [Next]_vars
               PROVE  Lifecycle!Next \/ Vocabulary' = Vocabulary
    OBVIOUS
  <2>1. CASE UNCHANGED <<words, prog>>
    BY <2>1 DEF Vocabulary, EntryOf
  <2>2. ASSUME NEW r \in Reqs, NEW answer \in Answers, CommitsWith(r, answer)
        PROVE  Lifecycle!Next \/ Vocabulary' = Vocabulary
    BY <2>2, CommitIsStep
  <2>3. QED
    BY <2>1, <2>2, OnlyCommitsWrite
<1>3. QED
  BY <1>1, <1>2, Invariance, PTL DEF Spec, ImplementsLifecycle, Lifecycle!Spec

-----------------------------------------------------------------------------
(***************************************************************************)
(* What an answer is worth.  DELETE answers 204 for "no such row" too, and *)
(* an update that meets no row answers 404; neither is inductive.  An      *)
(* answer stays true because deleted words stay deleted, and the update of *)
(* a review looks for the row that PostWord inserted: it is missing only   *)
(* when the word is deleted.                                               *)
(***************************************************************************)
SaysDeleted(r) ==
    resp[r] = "404" \/ (resp[r] = "204" /\ req[r].op = "delete")

AnswerOf(r) ==
    /\ resp[r] # "none" => req[r] # None
    /\ SaysDeleted(r) => req[r].w \in WordIds /\ Deleted(req[r].w)
    /\ pc[r] = "updateProgress" => plan[r].id = "post"

AnswerInv == \A r \in Reqs : AnswerOf(r)

\* A connection that the step does not concern keeps its answer.
LEMMA AnswerStays ==
    ASSUME IInv, [Next]_vars, NEW o \in Reqs, AnswerOf(o),
           req'[o] = req[o], resp'[o] = resp[o],
           pc'[o] = pc[o] \/ pc'[o] # "updateProgress",
           plan'[o] = plan[o] \/ pc'[o] # "updateProgress"
    PROVE  AnswerOf(o)'
<1>1. SaysDeleted(o)' => SaysDeleted(o)
  BY DEF SaysDeleted
<1>2. \A w \in WordIds : Deleted(w) => Deleted(w)'
  BY DeletedStays
<1>3. SaysDeleted(o) => Deleted(req[o].w)'
  <2> SUFFICES ASSUME SaysDeleted(o) PROVE Deleted(req[o].w)'
    OBVIOUS
  <2> PICK w \in WordIds : w = req[o].w
    BY DEF AnswerOf
  <2>1. Deleted(w)'
    BY <1>2 DEF AnswerOf
  <2>2. QED
    BY <2>1 DEF Deleted
<1>4. QED
  BY <1>1, <1>3 DEF AnswerOf

\* A request that is answered without a change of the tables: the answer is
\* true already.
LEMMA AnswerRollback ==
    ASSUME IInv, [Next]_vars, AnswerInv, NEW r \in Reqs, pc[r] # "idle",
           NEW answer \in Answers, Rollback(r, answer),
           answer = "404" \/ (answer = "204" /\ req[r].op = "delete") =>
              ~IsLive(words[req[r].w]) /\ req[r].op # "post"
    PROVE  AnswerInv'
<1> SUFFICES ASSUME NEW o \in Reqs PROVE AnswerOf(o)'
  BY DEF AnswerInv
<1>1. AnswerOf(o) /\ AnswerOf(r)
  BY DEF AnswerInv
<1>2. CASE o # r
  BY <1>1, <1>2, AnswerStays DEF Rollback, Finish, Goto, IInv, TypeOK
<1>3. CASE o = r
  <2>1. /\ req' = req /\ words' = words
        /\ resp'[r] = answer /\ pc'[r] = "idle"
    BY DEF Rollback, Finish, Goto, IInv, TypeOK
  <2>2. /\ req[r] # None /\ req[r].w \in WordIds
        /\ req[r].op # "post" => words[req[r].w] # None
    BY DEF IInv, TypeOK, Script, ScriptOf, Targets, TargetOf, Request
  <2>3. QED
    BY <1>3, <2>1, <2>2 DEF AnswerOf, SaysDeleted, Deleted, IsLive
<1>4. QED
  BY <1>2, <1>3

\* A commit: only a delete says that the word is deleted, and it is.
LEMMA AnswerCommit ==
    ASSUME IInv, [Next]_vars, AnswerInv, NEW r \in Reqs,
           NEW answer \in Answers, CommitsWith(r, answer), answer # "404"
    PROVE  AnswerInv'
<1> SUFFICES ASSUME NEW o \in Reqs PROVE AnswerOf(o)'
  BY DEF AnswerInv
<1>1. AnswerOf(o)
  BY DEF AnswerInv
<1>2. CASE o # r
  BY <1>1, <1>2, AnswerStays DEF CommitsWith, CommitTx, Finish, Goto, IInv, TypeOK
<1>3. CASE o = r
  <2> PICK w : w = req[r].w
    OBVIOUS
  <2>1. req' = req /\ resp'[r] = answer /\ pc'[r] = "idle"
    BY DEF CommitsWith, CommitTx, Finish, Goto, IInv, TypeOK
  <2>2. req[r] # None /\ w \in WordIds
    BY CommitEffect
  <2>3. req[r].op = "delete" => words'[w] # None /\ ~words'[w].live
    BY CommitEffect
  <2>4. QED
    BY <1>3, <2>1, <2>2, <2>3 DEF AnswerOf, SaysDeleted, Deleted
<1>4. QED
  BY <1>2, <1>3

\* The statements before the commit.
LEMMA AnswerStatement ==
    ASSUME IInv, [Next]_vars, AnswerInv, NEW r \in Reqs, Serve(r), ~Commit(r)
    PROVE  AnswerInv'
<1> USE SentinelAssumption
<1>1. /\ TypeOK /\ ScriptOf(r) /\ PendingOf(r) /\ AnswerOf(r)
      /\ EveryLiveWordIsScheduled /\ ReviewInsertsOnlyForDeleted
  BY DEF IInv, Script, PendingWrites, AnswerInv
<1>2. pc[r] # "idle" /\ req[r] \in Request /\ req[r].w \in WordIds
  <2>1. pc[r] # "idle"
    BY DEF Serve, CheckTerm, InsertWord, InsertProgress, FindWord, UpdateWord,
       RereadWord, DeleteProgress, DeleteWord, FindProgress, CreateProgress,
       UpdateProgress, Commit
  <2>2. QED
    BY <1>1, <2>1 DEF ScriptOf, TypeOK, Request
<1>3. ASSUME req' = req, resp' = resp,
             \A o \in Reqs \ {r} : pc'[o] = pc[o] /\ plan'[o] = plan[o],
             pc'[r] # "updateProgress"
      PROVE  AnswerInv'
  <2> SUFFICES ASSUME NEW o \in Reqs PROVE AnswerOf(o)'
    BY DEF AnswerInv
  <2>1. AnswerOf(o)
    BY DEF AnswerInv
  <2>2. QED
    BY <1>3, <2>1, AnswerStays
<1>4. CASE CheckTerm(r)
  <2>1. CASE Rollback(r, "409")
    BY <1>2, <2>1, AnswerRollback DEF Answers
  <2>2. CASE ~Rollback(r, "409")
    BY <1>1, <1>3, <1>4, <2>2 DEF CheckTerm, Goto, TypeOK, txVars
  <2>3. QED
    BY <2>1, <2>2
<1>5. CASE InsertWord(r) \/ InsertProgress(r) \/ DeleteProgress(r)
  BY <1>1, <1>3, <1>5
  DEF InsertWord, InsertProgress, DeleteProgress, Goto, TypeOK
<1>6. CASE FindWord(r)
  <2>1. CASE FindByID(r) = None
    <3>1. wput[r] = None /\ req[r].op # "post"
      BY <1>1, <1>6 DEF FindWord, ScriptOf
    <3>2. ~IsLive(words[req[r].w])
      BY <2>1, <3>1 DEF FindByID, IsLive
    <3>3. QED
      BY <1>2, <1>6, <2>1, <3>1, <3>2, AnswerRollback DEF FindWord, Answers
  <2>2. CASE FindByID(r) # None
    BY <1>1, <1>3, <1>6, <2>2 DEF FindWord, Goto, TypeOK
  <2>3. QED
    BY <2>1, <2>2
<1>7. CASE UpdateWord(r)
  <2>1. CASE ~IsLive(words[req[r].w])
    <3>1. req[r].op # "post"
      BY <1>1, <1>7 DEF UpdateWord, ScriptOf
    <3>2. QED
      BY <1>2, <1>7, <2>1, <3>1, AnswerRollback DEF UpdateWord, Answers
  <2>2. CASE IsLive(words[req[r].w])
    BY <1>1, <1>3, <1>7, <2>2 DEF UpdateWord, Goto, TypeOK
  <2>3. QED
    BY <2>1, <2>2
<1>8. CASE RereadWord(r)
  <2>1. CASE FindByID(r) = None
    <3>1. req[r].op \in {"put", "patch"}
      BY <1>1, <1>8 DEF RereadWord, ScriptOf
    <3>2. wput[r] = None
      BY <1>1, <1>8, <2>1, <3>1 DEF RereadWord, PendingOf, FindByID, IsLive
    <3>3. ~IsLive(words[req[r].w])
      BY <2>1, <3>2 DEF FindByID, IsLive
    <3>4. QED
      BY <1>2, <1>8, <2>1, <3>1, <3>3, AnswerRollback DEF RereadWord, Answers
  <2>2. CASE FindByID(r) # None
    BY <1>1, <1>3, <1>8, <2>2 DEF RereadWord, Goto, TypeOK, txVars
  <2>3. QED
    BY <2>1, <2>2
<1>9. CASE DeleteWord(r)
  <2>1. CASE ~IsLive(words[req[r].w])
    <3>1. req[r].op # "post"
      BY <1>1, <1>9 DEF DeleteWord, ScriptOf
    <3>2. QED
      BY <1>2, <1>9, <2>1, <3>1, AnswerRollback DEF DeleteWord, Answers
  <2>2. CASE IsLive(words[req[r].w])
    BY <1>1, <1>3, <1>9, <2>2 DEF DeleteWord, Goto, TypeOK
  <2>3. QED
    BY <2>1, <2>2
<1>10. CASE FindProgress(r)
  <2> DEFINE p == FindByWordID(req[r].w)
  <2>1. /\ req' = req /\ resp' = resp
        /\ \A o \in Reqs \ {r} : pc'[o] = pc[o] /\ plan'[o] = plan[o]
    BY <1>1, <1>10 DEF FindProgress, Goto, TypeOK
  <2>2. CASE p = None
    <3>1. pc'[r] = "createProgress"
      BY <1>1, <1>10, <2>2 DEF FindProgress, Goto, TypeOK
    <3>2. QED
      BY <1>3, <2>1, <3>1
  <2>3. CASE p # None
    <3>1. p = prog[req[r].w] /\ p \in Progress /\ p.id = "post"
      BY <1>1, <1>2, <2>3
      DEF FindByWordID, TypeOK, ReviewInsertsOnlyForDeleted, Progress
    <3>2. plan'[r].id = "post"
      BY <1>1, <1>10, <2>3, <3>1 DEF FindProgress, CalculateNextProgress, TypeOK
    <3>3. AnswerOf(r)'
      BY <1>1, <1>10, <3>2
      DEF AnswerOf, SaysDeleted, FindProgress, Deleted
    <3>4. \A o \in Reqs \ {r} : AnswerOf(o)'
      BY <2>1, AnswerStays DEF AnswerInv
    <3>5. QED
      BY <3>3, <3>4 DEF AnswerInv
  <2>4. QED
    BY <2>2, <2>3
<1>11. CASE WriteProgress(r)
  BY <1>1, <1>3, <1>11 DEF WriteProgress, Goto, TypeOK
<1>12. CASE CreateProgress(r)
  BY <1>2, <1>11, <1>12, AnswerRollback DEF CreateProgress, Answers
<1>13. CASE UpdateProgress(r)
  <2>1. CASE Rollback(r, "404")
    <3>1. /\ req[r].op = "review" /\ plan[r].id = "post"
          /\ pc[r] = "updateProgress"
      BY <1>1, <1>13 DEF UpdateProgress, ScriptOf, AnswerOf
    <3>2. CASE prog[req[r].w] # None /\ prog[req[r].w].id = plan[r].id
      BY <1>1, <1>11, <1>13, <3>2 DEF UpdateProgress
    <3>3. CASE ~(prog[req[r].w] # None /\ prog[req[r].w].id = plan[r].id)
      <4>1. ~IsLive(words[req[r].w])
        BY <1>1, <1>2, <3>1, <3>3
        DEF EveryLiveWordIsScheduled, ReviewInsertsOnlyForDeleted, TypeOK,
            Progress
      <4>2. QED
        BY <1>2, <2>1, <3>1, <4>1, AnswerRollback DEF Answers
    <3>4. QED
      BY <3>2, <3>3
  <2>2. CASE ~Rollback(r, "404")
    BY <1>11, <1>13, <2>2 DEF UpdateProgress
  <2>3. QED
    BY <2>1, <2>2
<1>14. QED
  BY <1>4, <1>5, <1>6, <1>7, <1>8, <1>9, <1>10, <1>12, <1>13 DEF Serve

LEMMA AnswerStep == IInv /\ AnswerInv /\ [Next]_vars => AnswerInv'
<1> SUFFICES ASSUME IInv, AnswerInv, [Next]_vars PROVE AnswerInv'
  OBVIOUS
<1>1. ASSUME NEW r \in Reqs, Arrive(r) PROVE AnswerInv'
  <2>1. PICK request, statement :
           /\ Receive(r, request, statement)
           /\ request \in Request
           /\ statement # "updateProgress"
    BY <1>1 DEF Arrive, ReceivePost, ReceivePut, ReceivePatch, ReceiveDelete,
       ReceiveReview, Request, Known, Fresh
  <2>2. /\ resp'[r] = "none" /\ pc'[r] = statement
        /\ \A o \in Reqs \ {r} : /\ pc'[o] = pc[o] /\ plan'[o] = plan[o]
                                 /\ req'[o] = req[o] /\ resp'[o] = resp[o]
    BY <2>1 DEF Receive, Goto, IInv, TypeOK, txVars
  <2>3. AnswerOf(r)'
    BY <2>1, <2>2 DEF AnswerOf, SaysDeleted
  <2>4. \A o \in Reqs \ {r} : AnswerOf(o)'
    BY <2>2, AnswerStays DEF AnswerInv
  <2>5. QED
    BY <2>3, <2>4 DEF AnswerInv
<1>2. ASSUME NEW r \in Reqs, Serve(r) PROVE AnswerInv'
  <2>1. CASE Commit(r)
    BY <2>1, AnswerCommit DEF Commit, CommitsWith, Success, Answers
  <2>2. CASE ~Commit(r)
    BY <1>2, <2>2, AnswerStatement
  <2>3. QED
    BY <2>1, <2>2
<1>3. ASSUME NEW r \in Reqs, CommitUnacked(r) PROVE AnswerInv'
  BY <1>3, AnswerCommit DEF CommitUnacked, CommitsWith, Answers
<1>4. ASSUME NEW r \in Reqs, Error(r) PROVE AnswerInv'
  BY <1>4, AnswerRollback DEF Error, Answers
<1>5. CASE Crash
  <2> SUFFICES ASSUME NEW o \in Reqs PROVE AnswerOf(o)'
    BY DEF AnswerInv
  <2>1. /\ pc'[o] = "idle" /\ req' = req /\ words' = words
        /\ resp'[o] = IF pc[o] = "idle" THEN resp[o] ELSE "lost"
    BY <1>5 DEF Crash
  <2>2. AnswerOf(o) /\ ScriptOf(o)
    BY DEF AnswerInv, IInv, Script
  <2>3. QED
    BY <2>1, <2>2 DEF AnswerOf, SaysDeleted, ScriptOf, Deleted
<1>6. CASE NextDay \/ UNCHANGED vars
  BY <1>6 DEF NextDay, vars, txVars, AnswerInv, AnswerOf, SaysDeleted, Deleted
<1>7. QED
  BY <1>1, <1>2, <1>3, <1>4, <1>5, <1>6 DEF Next

THEOREM AnswerInvariance == Spec => [](IInv /\ AnswerInv)
<1>1. Init => AnswerInv
  BY DEF Init, AnswerInv, AnswerOf, SaysDeleted
<1>2. QED
  BY <1>1, AnswerStep, Invariance, PTL DEF Spec

(* An answer 204 to DELETE means that the word is deleted, also when the   *)
(* service gave it for "no such row" (DeleteWord) after racing another.    *)
THEOREM DeletesTold == Spec => []DeleteAcknowledged
<1>1. AnswerInv => DeleteAcknowledged
  BY DEF AnswerInv, AnswerOf, SaysDeleted, DeleteAcknowledged, Deleted, IsLive
<1>2. QED
  BY <1>1, AnswerInvariance, PTL

(* "Not found" is never said of a live word, whichever statement of a put, *)
(* a patch or a review has met no row.                                     *)
THEOREM NotFoundTold == Spec => []NotFoundMeansDeleted
<1>1. AnswerInv => NotFoundMeansDeleted
  BY DEF AnswerInv, AnswerOf, SaysDeleted, NotFoundMeansDeleted, Deleted, IsLive
<1>2. QED
  BY <1>1, AnswerInvariance, PTL

-----------------------------------------------------------------------------
(***************************************************************************)
(* The day a word comes up again.  A row waits no longer than its level    *)
(* allows from the moment a request computes it, and days do not go back.  *)
(***************************************************************************)
InTime(row) == row.due <= day + LongestWait[row.level]

DueInv ==
    /\ DueWithinInterval
    /\ \A r \in Reqs : plan[r] # None => InTime(plan[r])
    /\ \A r \in Reqs : pput[r] \in Progress => InTime(pput[r])

\* Where uncommitted rows of learning_progress come from.
LEMMA PendingProgress ==
    ASSUME IInv, [Next]_vars, NEW o \in Reqs
    PROVE  /\ plan'[o] \in {plan[o], None} \/ FindProgress(o)
           /\ pput'[o] \in {pput[o], plan[o], Gone, None} \/ InsertProgress(o)
<1> USE DEF IInv, TypeOK
<1>1. ASSUME NEW r \in Reqs, NEW answer, Rollback(r, answer)
      PROVE  plan'[o] \in {plan[o], None} /\ pput'[o] \in {pput[o], None}
  BY <1>1 DEF Rollback, Finish
<1>2. ASSUME NEW r \in Reqs, NEW answer, CommitTx(r, answer)
      PROVE  plan'[o] \in {plan[o], None} /\ pput'[o] \in {pput[o], None}
  BY <1>2 DEF CommitTx, Finish
<1>3. ASSUME NEW r \in Reqs, Arrive(r)
      PROVE  UNCHANGED <<plan, pput>>
  BY <1>3 DEF Arrive, ReceivePost, ReceivePut, ReceivePatch, ReceiveDelete,
     ReceiveReview, Receive, txVars
<1>4. ASSUME NEW r \in Reqs, WriteProgress(r)
      PROVE  plan'[o] = plan[o] /\ pput'[o] \in {pput[o], plan[o]}
  BY <1>4 DEF WriteProgress
<1>5. ASSUME NEW r \in Reqs, Serve(r)
      PROVE  /\ plan'[o] \in {plan[o], None} \/ FindProgress(o)
             /\ pput'[o] \in {pput[o], plan[o], Gone, None}
                \/ InsertProgress(o)
  <2>1. CASE CheckTerm(r) \/ RereadWord(r)
    BY <1>1, <2>1 DEF CheckTerm, RereadWord, txVars
  <2>2. CASE FindWord(r) \/ UpdateWord(r) \/ DeleteWord(r)
    BY <1>1, <2>2 DEF FindWord, UpdateWord, DeleteWord
  <2>3. CASE InsertWord(r)
    BY <2>3 DEF InsertWord
  <2>4. CASE InsertProgress(r)
    BY <2>4 DEF InsertProgress
  <2>5. CASE DeleteProgress(r)
    BY <2>5 DEF DeleteProgress
  <2>6. CASE FindProgress(r)
    BY <2>6 DEF FindProgress
  <2>7. CASE CreateProgress(r) \/ UpdateProgress(r)
    BY <1>1, <1>4, <2>7 DEF CreateProgress, UpdateProgress
  <2>8. CASE Commit(r)
    BY <1>2, <2>8 DEF Commit
  <2>9. QED
    BY <1>5, <2>1, <2>2, <2>3, <2>4, <2>5, <2>6, <2>7, <2>8 DEF Serve
<1>6. ASSUME NEW r \in Reqs, CommitUnacked(r) \/ Error(r)
      PROVE  plan'[o] \in {plan[o], None} /\ pput'[o] \in {pput[o], None}
  BY <1>1, <1>2, <1>6 DEF CommitUnacked, Error
<1>7. CASE Crash \/ NextDay \/ UNCHANGED vars
  BY <1>7 DEF Crash, NextDay, vars, txVars
<1>8. QED
  BY <1>3, <1>5, <1>6, <1>7 DEF Next

LEMMA DueStep == IInv /\ DueInv /\ [Next]_vars => DueInv'
<1> SUFFICES ASSUME IInv, DueInv, [Next]_vars PROVE DueInv'
  OBVIOUS
<1> USE SentinelAssumption
<1>1. day \in Int /\ (day' = day \/ day' = day + 1)
  <2>1. day \in Int
    BY DEF IInv, TypeOK
  <2>2. ASSUME NEW r \in Reqs, Arrive(r) \/ CommitUnacked(r) \/ Error(r)
        PROVE  day' = day
    BY <2>2 DEF Arrive, ReceivePost, ReceivePut, ReceivePatch, ReceiveDelete,
       ReceiveReview, Receive, CommitUnacked, CommitTx, Error, Rollback
  <2>3. ASSUME NEW r \in Reqs, Serve(r) PROVE day' = day
    BY <2>3 DEF Serve, CheckTerm, InsertWord, InsertProgress, FindWord,
       UpdateWord, RereadWord, DeleteProgress, DeleteWord, FindProgress,
       CreateProgress, UpdateProgress, WriteProgress, Commit, CommitTx,
       Rollback
  <2>4. QED
    BY <2>1, <2>2, <2>3 DEF Next, Crash, NextDay, vars
<1>2. ASSUME NEW row \in Progress, row.due <= day + LongestWait[row.level]
      PROVE  row.due <= day' + LongestWait[row.level]
  <2>1. row.due \in Int /\ row.level \in Levels
    BY DEF Progress
  <2>2. LongestWait[row.level] \in Int
    BY <2>1 DEF LongestWait
  <2>3. QED
    BY <1>1, <1>2, <2>1, <2>2
<1>3. ASSUME NEW o \in Reqs, FindProgress(o)
      PROVE  plan'[o] \in Progress /\ InTime(plan[o])'
  <2> DEFINE p == FindByWordID(req[o].w)
             next == CalculateNextProgress(p, req[o].correct)
  <2>1. plan'[o] = next /\ day' = day
    BY <1>3 DEF FindProgress, IInv, TypeOK
  <2>2. req[o] \in Request /\ req[o].w \in WordIds
    BY <1>3 DEF FindProgress, IInv, Script, ScriptOf, TypeOK, Request
  <2>3. p \in Progress \cup {None}
    BY <2>2 DEF FindByWordID, IInv, TypeOK
  <2>4. next \in Progress
    BY <1>1, <2>2, <2>3, NextProgressType DEF Request
  <2>5. next.due <= day + LongestWait[next.level]
    <3> DEFINE level == IF p = None THEN 1 ELSE p.level
    <3>1. level \in Levels /\ req[o].correct \in BOOLEAN
      BY <2>2, <2>3 DEF Progress, Levels, Request
    <3>2. next.level = NextLevel(level, req[o].correct)
          /\ next.due = NextDue(level, req[o].correct, day)
      BY DEF CalculateNextProgress
    <3>3. QED
      BY <1>1, <3>1, <3>2
      DEF NextLevel, NextDue, Interval, LongestWait, Levels
  <2> HIDE DEF next
  <2>6. QED
    BY <2>1, <2>4, <2>5 DEF InTime
<1>4. ASSUME NEW o \in Reqs, InsertProgress(o)
      PROVE  InTime(pput[o])'
  BY <1>1, <1>4
  DEF InsertProgress, FirstDue, InTime, LongestWait, Levels, IInv, TypeOK
<1>5. ASSUME NEW o \in Reqs PROVE plan'[o] # None => InTime(plan[o])'
  <2>1. CASE FindProgress(o)
    BY <1>3, <2>1
  <2>2. CASE plan'[o] = plan[o] /\ plan[o] # None
    <3>1. plan[o] \in Progress /\ InTime(plan[o])
      BY <2>2 DEF DueInv, IInv, TypeOK
    <3>2. QED
      BY <1>2, <2>2, <3>1 DEF InTime
  <2>3. QED
    BY <2>1, <2>2, PendingProgress
<1>6. ASSUME NEW o \in Reqs, pput'[o] \in Progress PROVE InTime(pput[o])'
  <2>1. CASE InsertProgress(o)
    BY <1>4, <2>1
  <2>2. CASE pput'[o] \in {pput[o], plan[o]}
    <3>1. InTime(pput'[o])
      BY <1>6, <2>2 DEF DueInv
    <3>2. QED
      BY <1>2, <1>6, <3>1 DEF InTime
  <2>3. QED
    BY <1>6, <2>1, <2>2, PendingProgress
<1>7. DueWithinInterval'
  <2> SUFFICES ASSUME NEW v \in WordIds, prog'[v] # None
               PROVE  prog'[v].due <= day' + LongestWait[prog'[v].level]
    BY DEF DueWithinInterval
  <2>1. CASE prog'[v] = prog[v]
    <3>1. prog[v] \in Progress /\ InTime(prog[v])
      BY <2>1 DEF DueInv, DueWithinInterval, InTime, IInv, TypeOK
    <3>2. QED
      BY <1>2, <2>1, <3>1 DEF InTime
  <2>2. CASE prog'[v] # prog[v]
    <3>1. PICK r \in Reqs, answer \in Answers : CommitsWith(r, answer)
      BY <2>2, OnlyCommitsWrite
    <3>2. prog'[v] = pput[r] /\ pput[r] \in Progress
      <4> PICK w : w = req[r].w
        OBVIOUS
      <4>1. v = w
        BY <2>2, <3>1, CommitEffect
      <4>2. QED
        BY <2>2, <3>1, <4>1, CommitEffect
    <3>3. InTime(pput[r])
      BY <3>2 DEF DueInv
    <3>4. QED
      BY <1>2, <3>2, <3>3 DEF InTime
  <2>3. QED
    BY <2>1, <2>2
<1>8. QED
  BY <1>5, <1>6, <1>7 DEF DueInv

(* No word is put off for longer than its level allows, across concurrent  *)
(* reviews and changes of day (calculateNextProgress, PostWord).           *)
THEOREM DueInTime == Spec => []DueWithinInterval
<1>1. Init => DueInv
  BY SentinelAssumption DEF Init, DueInv, DueWithinInterval
<1>2. DueInv => DueWithinInterval
  BY DEF DueInv
<1>3. QED
  BY <1>1, <1>2, DueStep, Invariance, PTL DEF Spec

-----------------------------------------------------------------------------
(***************************************************************************)
(* What an edit is about to write: the row as it is, under the row lock,   *)
(* with the columns replaced that differed from the row read earlier.      *)
(***************************************************************************)
EditOf(r) ==
    pc[r] # "idle" /\ wput[r] # None =>
        /\ req[r].op \in {"put", "patch"} => wput[r] = Edited(r)
        /\ req[r].op = "post" =>
              wput[r].term = req[r].term /\ wput[r].def = req[r].def
        /\ req[r].op = "delete" =>
              /\ wput[r].term = words[req[r].w].term
              /\ wput[r].def = words[req[r].w].def

PendingEdits == \A r \in Reqs : EditOf(r)

\* Who holds the lock keeps the row: nobody else's commit changes it.
LEMMA LockedRowStays ==
    ASSUME IInv, [Next]_vars, NEW o \in Reqs, pc[o] # "idle", wput[o] # None,
           NEW w \in WordIds, w = req[o].w,
           \A answer : ~CommitsWith(o, answer)
    PROVE  words'[w] = words[w]
<1>1. CASE UNCHANGED <<words, prog>>
  BY <1>1
<1>2. ASSUME NEW r \in Reqs, NEW answer \in Answers, CommitsWith(r, answer)
      PROVE  words'[w] = words[w]
  <2> PICK v : v = req[r].w
    OBVIOUS
  <2>1. CASE v # w
    BY <1>2, <2>1, CommitEffect
  <2>2. CASE v = w
    <3>1. r # o /\ pc[r] # "idle"
      BY <1>2 DEF CommitsWith
    <3>2. wput[r] = None
      BY <2>2, <3>1 DEF IInv, OneWriterPerRow
    <3>3. QED
      BY <1>2, <2>2, <3>2, CommitEffect
  <2>3. QED
    BY <2>1, <2>2
<1>3. QED
  BY <1>1, <1>2, OnlyCommitsWrite

\* Where uncommitted rows of words come from.
LEMMA PendingWord ==
    ASSUME IInv, [Next]_vars, NEW o \in Reqs, pc'[o] # "idle", wput'[o] # None
    PROVE  \/ /\ pc[o] # "idle" /\ req'[o] = req[o]
              /\ wput'[o] = wput[o] /\ found'[o] = found[o]
           \/ UpdateWord(o) /\ IsLive(words[req[o].w])
           \/ InsertWord(o)
           \/ DeleteWord(o)
<1> DEFINE Keeps == /\ pc[o] # "idle" /\ req'[o] = req[o]
                    /\ wput'[o] = wput[o] /\ found'[o] = found[o]
<1>1. TypeOK /\ ScriptOf(o)
  BY DEF IInv, Script
<1>2. ASSUME NEW r \in Reqs, o # r,
             \/ \E answer : Finish(r, answer)
             \/ \E statement : Goto(r, statement)
      PROVE  pc[o] # "idle"
  BY <1>1, <1>2 DEF Finish, Goto, TypeOK
<1>3. ASSUME NEW r \in Reqs, NEW answer, Finish(r, answer) PROVE Keeps
  BY <1>1, <1>2, <1>3 DEF Finish, Goto, TypeOK
<1>4. ASSUME NEW r \in Reqs, Arrive(r) PROVE Keeps
  <2>1. pc[r] = "idle" /\ UNCHANGED txVars
        /\ \A q \in Reqs \ {r} : pc'[q] = pc[q] /\ req'[q] = req[q]
    BY <1>1, <1>4 DEF Arrive, ReceivePost, ReceivePut, ReceivePatch,
       ReceiveDelete, ReceiveReview, Receive, Goto, TypeOK
  <2>2. QED
    BY <1>1, <2>1 DEF txVars, ScriptOf
<1>5. ASSUME NEW r \in Reqs, pc[r] # "idle", NEW statement,
             Goto(r, statement), req' = req, wput'[o] = wput[o],
             found'[o] = found[o]
      PROVE  Keeps
  BY <1>1, <1>2, <1>5 DEF Goto, TypeOK
<1>6. ASSUME NEW r \in Reqs, Serve(r)
      PROVE  \/ Keeps
             \/ UpdateWord(o) /\ IsLive(words[req[o].w])
             \/ InsertWord(o)
             \/ DeleteWord(o)
  <2>1. CASE CheckTerm(r) \/ RereadWord(r)
    BY <1>3, <1>5, <2>1 DEF CheckTerm, RereadWord, Rollback, txVars
  <2>2. CASE InsertWord(r)
    <3>1. CASE r = o
      BY <2>2, <3>1
    <3>2. CASE r # o
      BY <1>1, <1>5, <2>2, <3>2 DEF InsertWord, TypeOK
    <3>3. QED
      BY <3>1, <3>2
  <2>3. CASE InsertProgress(r) \/ DeleteProgress(r) \/ FindProgress(r)
    BY <1>5, <2>3 DEF InsertProgress, DeleteProgress, FindProgress
  <2>4. CASE FindWord(r)
    <3>1. CASE r = o
      BY <1>1, <1>3, <2>4, <3>1 DEF FindWord, Rollback, ScriptOf
    <3>2. CASE r # o
      BY <1>1, <1>3, <1>5, <2>4, <3>2 DEF FindWord, Rollback, TypeOK
    <3>3. QED
      BY <3>1, <3>2
  <2>5. CASE UpdateWord(r)
    <3>1. CASE Rollback(r, "404")
      BY <1>3, <3>1 DEF Rollback
    <3>2. CASE r = o /\ ~Rollback(r, "404")
      BY <2>5, <3>2 DEF UpdateWord
    <3>3. CASE r # o /\ ~Rollback(r, "404")
      BY <1>1, <1>5, <2>5, <3>3 DEF UpdateWord, TypeOK
    <3>4. QED
      BY <3>1, <3>2, <3>3
  <2>6. CASE DeleteWord(r)
    <3>1. CASE Rollback(r, "204")
      BY <1>3, <3>1 DEF Rollback
    <3>2. CASE r = o /\ ~Rollback(r, "204")
      BY <2>6, <3>2
    <3>3. CASE r # o /\ ~Rollback(r, "204")
      BY <1>1, <1>5, <2>6, <3>3 DEF DeleteWord, TypeOK
    <3>4. QED
      BY <3>1, <3>2, <3>3
  <2>7. CASE CreateProgress(r) \/ UpdateProgress(r)
    BY <1>3, <1>5, <2>7
    DEF CreateProgress, UpdateProgress, WriteProgress, Rollback
  <2>8. CASE Commit(r)
    BY <1>3, <2>8 DEF Commit, CommitTx
  <2>9. QED
    BY <1>6, <2>1, <2>2, <2>3, <2>4, <2>5, <2>6, <2>7, <2>8 DEF Serve
<1>7. ASSUME NEW r \in Reqs, CommitUnacked(r) \/ Error(r) PROVE Keeps
  BY <1>3, <1>7 DEF CommitUnacked, CommitTx, Error, Rollback
<1>8. CASE Crash \/ NextDay \/ UNCHANGED vars
  BY <1>8 DEF Crash, NextDay, vars, txVars
<1>9. QED
  BY <1>4, <1>6, <1>7, <1>8 DEF Next

LEMMA EditStep == IInv /\ PendingEdits /\ [Next]_vars => PendingEdits'
<1> SUFFICES ASSUME IInv, PendingEdits, [Next]_vars, NEW o \in Reqs,
                    pc'[o] # "idle", wput'[o] # None
             PROVE  EditOf(o)'
  BY DEF PendingEdits, EditOf
<1>1. TypeOK /\ ScriptOf(o) /\ EditOf(o)
  BY DEF IInv, Script, PendingEdits
<1>2. CASE /\ pc[o] # "idle" /\ req'[o] = req[o]
           /\ wput'[o] = wput[o] /\ found'[o] = found[o]
  <2> PICK w \in WordIds : w = req[o].w
    BY <1>1, <1>2 DEF TypeOK, ScriptOf, Request
  <2>1. \A answer : ~CommitsWith(o, answer)
    BY <1>1 DEF CommitsWith, CommitTx, Finish, Goto, TypeOK
  <2>2. words'[w] = words[w]
    BY <1>2, <2>1, LockedRowStays
  <2>3. QED
    BY <1>1, <1>2, <2>2 DEF EditOf, Edited, TermChanges, DefChanges
<1>3. CASE UpdateWord(o) /\ IsLive(words[req[o].w])
  <2>1. /\ wput'[o] = Edited(o) /\ req[o].op \in {"put", "patch"}
        /\ UNCHANGED <<words, req, found>>
    BY <1>1, <1>3 DEF UpdateWord, TypeOK, ScriptOf
  <2>2. QED
    BY <2>1 DEF EditOf, Edited, TermChanges, DefChanges
<1>4. CASE InsertWord(o)
  BY <1>1, <1>4 DEF InsertWord, EditOf, TypeOK, ScriptOf
<1>5. CASE DeleteWord(o)
  <2>1. ~Rollback(o, "204")
    BY <1>1 DEF Rollback, Finish, Goto, TypeOK
  <2>2. IsLive(words[req[o].w])
    BY <1>5, <2>1 DEF DeleteWord
  <2>3. /\ wput'[o] = [term |-> words[req[o].w].term,
                       def |-> words[req[o].w].def, live |-> FALSE]
        /\ UNCHANGED <<words, req>>
    BY <1>1, <1>5, <2>2 DEF DeleteWord, TypeOK
  <2>4. req[o].op = "delete"
    BY <1>1, <1>5 DEF DeleteWord, ScriptOf
  <2>5. QED
    BY <2>3, <2>4 DEF EditOf
<1>6. QED
  BY <1>2, <1>3, <1>4, <1>5, PendingWord

LEMMA EditInvariance == Spec => [](IInv /\ PendingEdits)
<1>1. Init => PendingEdits
  BY DEF Init, PendingEdits, EditOf
<1>2. QED
  BY <1>1, EditStep, Invariance, PTL DEF Spec

(* A patch that leaves a field out never changes it (PatchWord writes only *)
(* the columns that differ from the row it has read), although another     *)
(* edit may have changed the field in between.                             *)
THEOREM PatchKeeps == Spec => PatchKeepsTheRest
<1>1. ASSUME IInv, PendingEdits, [Next]_vars, NEW r \in Reqs,
             pc[r] = "commit", pc'[r] = "idle", req[r].op = "patch"
      PROVE  /\ req[r].term = Keep =>
                   words'[req[r].w].term = words[req[r].w].term
             /\ req[r].def = Keep =>
                   words'[req[r].w].def = words[req[r].w].def
  <2>1. CASE UNCHANGED <<words, prog>>
    BY <2>1
  <2>2. ASSUME NEW o \in Reqs, NEW answer \in Answers, CommitsWith(o, answer)
        PROVE  /\ o = r
               /\ words'[req[r].w] = IF wput[r] = None THEN words[req[r].w]
                                     ELSE wput[r]
    <3>1. o = r
      BY <1>1, <2>2 DEF CommitsWith, CommitTx, Finish, Goto, IInv, TypeOK
    <3> PICK w : w = req[r].w
      OBVIOUS
    <3>2. words'[w] = IF wput[r] = None THEN words[w] ELSE wput[r]
      BY <1>1, <2>2, <3>1, CommitEffect
    <3>3. QED
      BY <3>1, <3>2
  <2>3. wput[r] # None => wput[r] = Edited(r)
    BY <1>1 DEF PendingEdits, EditOf
  <2>4. QED
    BY <1>1, <2>1, <2>2, <2>3, OnlyCommitsWrite
    DEF Edited, TermChanges, DefChanges
<1>2. IInv /\ PendingEdits /\ [Next]_vars =>
         [\A r \in Reqs :
             pc[r] = "commit" /\ pc'[r] = "idle" /\ req[r].op = "patch" =>
                /\ req[r].term = Keep =>
                      words'[req[r].w].term = words[req[r].w].term
                /\ req[r].def = Keep =>
                      words'[req[r].w].def = words[req[r].w].def]_vars
  BY <1>1
<1>3. QED
  BY <1>2, EditInvariance, PTL DEF Spec, PatchKeepsTheRest

=============================================================================
