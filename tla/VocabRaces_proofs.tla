--------------------------- MODULE VocabRaces_proofs ---------------------------
(***************************************************************************)
(* What requests that race can do to the vocabulary is done by a request   *)
(* that was overtaken, and by no other: for any number of connections,     *)
(* words and days.                                                         *)
(***************************************************************************)
EXTENDS VocabRaces, VocabAnswers_proofs

-----------------------------------------------------------------------------
\* The history variable adds nothing to the behaviours.
LEMMA RaceSteps == RaceSpec => Spec /\ [][RaceNext]_raceVars
<1>1. RaceInit => Init
  BY DEF RaceInit
<1>2. [RaceNext]_raceVars => [Next]_vars
  BY DEF RaceNext, raceVars
<1>3. QED
  BY <1>1, <1>2, PTL DEF RaceSpec, Spec

\* A request that is in flight after a step: it comes, goes on or waits.
Waits(o) ==
    /\ pc[o] # "idle" /\ pc'[o] = pc[o] /\ req'[o] = req[o]
    /\ found'[o] = found[o] /\ plan'[o] = plan[o]
    /\ wput'[o] = wput[o] /\ pput'[o] = pput[o]

LEMMA WhoMoves ==
    ASSUME IInv, [Next]_vars, NEW o \in Reqs, pc'[o] # "idle"
    PROVE  \/ Waits(o)
           \/ Arrive(o)
           \/ Serve(o) /\ ~Commit(o) /\ pc[o] # "idle"
<1>1. TypeOK
  BY DEF IInv
<1>2. ASSUME NEW r \in Reqs, NEW answer, Finish(r, answer)
      PROVE  Waits(o)
  BY <1>1, <1>2 DEF Finish, Goto, TypeOK, Waits
<1>3. ASSUME NEW r \in Reqs, Arrive(r) PROVE Waits(o) \/ Arrive(o)
  <2>1. CASE r = o
    BY <1>3, <2>1
  <2>2. CASE r # o
    BY <1>1, <1>3, <2>2 DEF Arrive, ReceivePost, ReceivePut, ReceivePatch,
       ReceiveDelete, ReceiveReview, Receive, Goto, TypeOK, Waits, txVars
  <2>3. QED
    BY <2>1, <2>2
<1>4. ASSUME NEW r \in Reqs, Serve(r)
      PROVE  Waits(o) \/ (Serve(o) /\ ~Commit(o) /\ pc[o] # "idle")
  <2>1. CASE Commit(r)
    BY <1>2, <2>1 DEF Commit, CommitTx
  <2>2. CASE ~Commit(r) /\ r = o
    <3>1. pc[r] # "idle"
      BY <1>4, <2>2 DEF Serve, CheckTerm, InsertWord, InsertProgress,
         FindWord, UpdateWord, RereadWord, DeleteProgress, DeleteWord,
         FindProgress, CreateProgress, UpdateProgress
    <3>2. QED
      BY <1>4, <2>2, <3>1
  <2>3. CASE ~Commit(r) /\ r # o
    <3>1. ASSUME NEW statement, Goto(r, statement), req' = req,
                 found'[o] = found[o], plan'[o] = plan[o],
                 wput'[o] = wput[o], pput'[o] = pput[o]
          PROVE  Waits(o)
      BY <1>1, <2>3, <3>1 DEF Goto, TypeOK, Waits
    <3>2. CASE CheckTerm(r) \/ RereadWord(r)
      BY <1>2, <3>1, <3>2 DEF CheckTerm, RereadWord, Rollback, txVars
    <3>3. CASE InsertWord(r) \/ InsertProgress(r) \/ DeleteProgress(r)
               \/ FindProgress(r)
      BY <1>1, <2>3, <3>1, <3>3
      DEF InsertWord, InsertProgress, DeleteProgress, FindProgress, TypeOK
    <3>4. CASE FindWord(r)
      BY <1>1, <1>2, <2>3, <3>1, <3>4 DEF FindWord, Rollback, TypeOK
    <3>5. CASE UpdateWord(r)
      BY <1>1, <1>2, <2>3, <3>1, <3>5 DEF UpdateWord, Rollback, TypeOK
    <3>6. CASE DeleteWord(r)
      BY <1>1, <1>2, <2>3, <3>1, <3>6 DEF DeleteWord, Rollback, TypeOK
    <3>7. CASE CreateProgress(r) \/ UpdateProgress(r)
      BY <1>1, <1>2, <2>3, <3>1, <3>7
      DEF CreateProgress, UpdateProgress, WriteProgress, Rollback, TypeOK
    <3>8. QED
      BY <1>4, <2>3, <3>2, <3>3, <3>4, <3>5, <3>6, <3>7 DEF Serve
  <2>4. QED
    BY <2>1, <2>2, <2>3
<1>5. ASSUME NEW r \in Reqs, CommitUnacked(r) \/ Error(r) PROVE Waits(o)
  BY <1>2, <1>5 DEF CommitUnacked, CommitTx, Error, Rollback
<1>6. CASE Crash \/ NextDay \/ UNCHANGED vars
  BY <1>6 DEF Crash, NextDay, vars, txVars, Waits
<1>7. QED
  BY <1>3, <1>4, <1>5, <1>6 DEF Next

-----------------------------------------------------------------------------
(***************************************************************************)
(* The invariant.  What a request in flight has read is still so, unless   *)
(* it was overtaken.                                                       *)
(***************************************************************************)
\* What a request carries to its commit comes from what it has read.
ReadsOf(r) ==
    /\ req[r].op \in {"put", "patch"} /\ pc[r] \in {"rereadWord", "commit"} =>
          /\ found[r] # None
          /\ wput[r] = None =>
                ~TermChanges(r, found[r]) /\ ~DefChanges(r, found[r])
    /\ req[r].op = "review" /\ pc[r] = "commit" => pput[r] = plan[r]

\* The word is as it was read.
WordAsRead(r) ==
    req[r].op \in {"put", "patch"} /\ pc[r] # "findWord" =>
        /\ words[req[r].w].term = found[r].term
        /\ words[req[r].w].def = found[r].def

\* The new term is still free.
TermAsChecked(r) ==
    HasChecked(r)
    /\ \/ req[r].op = "post"
       \/ req[r].op \in {"put", "patch"} /\ TermChanges(r, found[r])
    => \A v \in WordIds :
          IsLive(words[v]) /\ words[v].term = req[r].term => v = req[r].w

\* The level to be written is at most one rung above the one in the table.
LevelAsRead(r) ==
    req[r].op = "review" /\ pc[r] # "findProgress" /\ prog[req[r].w] # None =>
        plan[r].level <= prog[req[r].w].level + 1

RaceOf(r) ==
    pc[r] # "idle" =>
        /\ ReadsOf(r)
        /\ ~overtaken[r] => WordAsRead(r) /\ TermAsChecked(r) /\ LevelAsRead(r)

RaceInv == \A r \in Reqs : RaceOf(r)

\* A request that waits while another commits behind it, without being
\* concerned.
LEMMA NotConcerned ==
    ASSUME IInv, PendingEdits, NEW o \in Reqs, RaceOf(o), ~overtaken[o],
           Waits(o), NEW r \in Reqs, r # o, NEW answer \in Answers,
           CommitsWith(r, answer), ~Concerns(r, o)
    PROVE  WordAsRead(o)' /\ TermAsChecked(o)' /\ LevelAsRead(o)'
<1> USE SentinelAssumption
<1> PICK w : w = req[r].w
  OBVIOUS
<1> PICK u : u = req[o].w
  OBVIOUS
<1>1. /\ TypeOK /\ ScriptOf(o) /\ TargetOf(o) /\ PendingOf(o)
      /\ TargetOf(r) /\ EditOf(r) /\ pc[r] = "commit"
      /\ WordAsRead(o) /\ TermAsChecked(o) /\ LevelAsRead(o) /\ ReadsOf(o)
      /\ pc[o] # "idle" /\ u \in WordIds
  BY DEF IInv, Script, Targets, PendingWrites, PendingEdits, CommitsWith,
     RaceOf, Waits, TypeOK, ScriptOf, Request
<1>2. WordAsRead(o)'
  <2> SUFFICES ASSUME req[o].op \in {"put", "patch"}, pc[o] # "findWord"
               PROVE  /\ words'[u].term = found[o].term
                      /\ words'[u].def = found[o].def
    BY DEF WordAsRead, Waits
  <2>1. found[o] # None
    BY <1>1 DEF ScriptOf, ReadsOf, TypeOK, Statements, IInv, PendingOf
  <2>2. words[u].term = found[o].term /\ words[u].def = found[o].def
    BY <1>1 DEF WordAsRead
  <2>3. CASE u # w
    BY <1>1, <2>2, <2>3, CommitEffect
  <2>4. CASE u = w
    <3>1. req[r].op \in {"delete", "review"}
      BY <2>1, <2>4, CommitEffect DEF Concerns, Edits, Request
    <3>2. CASE req[r].op = "review"
      BY <2>2, <2>4, <3>2, CommitEffect
    <3>3. CASE req[r].op = "delete"
      BY <1>1, <2>2, <2>4, <3>3, CommitEffect DEF EditOf
    <3>4. QED
      BY <3>1, <3>2, <3>3
  <2>5. QED
    BY <2>3, <2>4
<1>3. TermAsChecked(o)'
  <2> SUFFICES ASSUME HasChecked(o),
                      \/ req[o].op = "post"
                      \/ /\ req[o].op \in {"put", "patch"}
                         /\ TermChanges(o, found[o]),
                      NEW v \in WordIds, IsLive(words'[v]),
                      words'[v].term = req[o].term
               PROVE  v = u
    BY DEF TermAsChecked, HasChecked, TermChanges, Waits, IsLive
  <2>1. IsLive(words[v]) /\ words[v].term = req[o].term => v = u
    BY <1>1 DEF TermAsChecked
  <2>2. CASE words'[v] = words[v]
    BY <2>1, <2>2
  <2>3. CASE words'[v] # words[v]
    <3>1. v = w /\ words'[v] = wput[r] /\ wput[r] # None
      BY <2>3, CommitEffect
    <3>2. req[r].op \in Edits
      BY <3>1, CommitEffect DEF Edits, Request, IsLive
    <3>3. QED
      BY <3>1, <3>2 DEF Concerns, Edits
  <2>4. QED
    BY <2>2, <2>3
<1>4. LevelAsRead(o)'
  <2> SUFFICES ASSUME req[o].op = "review", pc[o] # "findProgress",
                      prog'[u] # None
               PROVE  plan[o].level <= prog'[u].level + 1
    BY DEF LevelAsRead, Waits
  <2>1. prog[u] # None => plan[o].level <= prog[u].level + 1
    BY <1>1 DEF LevelAsRead
  <2>2. CASE prog'[u] = prog[u]
    BY <2>1, <2>2
  <2>3. CASE prog'[u] # prog[u]
    <3>1. u = w
      BY <1>1, <2>3, CommitEffect
    <3>2. req[r].op = "review"
      <4>1. req[r].op # "post"
        BY <1>1, <3>1 DEF TargetOf
      <4>2. req[r].op \notin {"put", "patch"}
        BY <2>3, <3>1, CommitEffect
      <4>3. req[r].op # "delete"
        BY <3>1, CommitEffect
      <4>4. QED
        BY <4>1, <4>2, <4>3, CommitEffect DEF Request
    <3>3. plan[o] # None
      BY <1>1 DEF ScriptOf, ReadsOf, TypeOK, Statements, PendingOf
    <3>4. QED
      BY <3>1, <3>2, <3>3 DEF Concerns
  <2>4. QED
    BY <2>2, <2>3
<1>5. QED
  BY <1>2, <1>3, <1>4

LEMMA RaceStep ==
    IInv /\ PendingEdits /\ RaceInv /\ [RaceNext]_raceVars => RaceInv'
<1> USE SentinelAssumption
<1> SUFFICES ASSUME IInv, PendingEdits, RaceInv, [RaceNext]_raceVars,
                    NEW o \in Reqs, pc'[o] # "idle"
             PROVE  RaceOf(o)'
  BY DEF RaceInv, RaceOf
<1>1. /\ TypeOK /\ ScriptOf(o) /\ TargetOf(o) /\ PendingOf(o) /\ RaceOf(o)
      /\ [Next]_vars
  BY DEF IInv, Script, Targets, PendingWrites, RaceInv, RaceNext, raceVars
<1>2. pc[o] # "idle" /\ ~overtaken'[o] =>
         /\ ~overtaken[o]
         /\ \A r \in Reqs \ {o} : Commits(r) => ~Concerns(r, o)
  BY DEF RaceNext, Observe, raceVars, vars, Commits
<1>3. CASE Waits(o)
  <2>1. ReadsOf(o)'
    BY <1>1, <1>3 DEF RaceOf, ReadsOf, Waits, TermChanges, DefChanges
  <2>2. ASSUME ~overtaken'[o]
        PROVE  WordAsRead(o)' /\ TermAsChecked(o)' /\ LevelAsRead(o)'
    <3>1. pc[o] # "idle" /\ ~overtaken[o]
      BY <1>2, <1>3, <2>2 DEF Waits
    <3>2. CASE UNCHANGED <<words, prog>>
      BY <1>1, <1>3, <3>1, <3>2
      DEF RaceOf, Waits, WordAsRead, TermAsChecked, LevelAsRead, HasChecked,
          TermChanges
    <3>3. ASSUME NEW r \in Reqs, NEW answer \in Answers,
                 CommitsWith(r, answer), <<words, prog>>' # <<words, prog>>
          PROVE  WordAsRead(o)' /\ TermAsChecked(o)' /\ LevelAsRead(o)'
      <4>1. pc[r] = "commit" /\ pc'[r] = "idle"
        BY <1>1, <3>3 DEF CommitsWith, CommitTx, Finish, Goto, TypeOK
      <4>2. r # o /\ ~Concerns(r, o)
        BY <1>2, <1>3, <2>2, <3>3, <4>1 DEF Waits, Commits
      <4>3. QED
        BY <1>1, <1>3, <3>1, <3>3, <4>2, NotConcerned
    <3>4. QED
      BY <1>1, <3>2, <3>3, OnlyCommitsWrite
  <2>3. QED
    BY <2>1, <2>2 DEF RaceOf
<1>4. CASE Arrive(o)
  <2>1. \/ req'[o].op \in {"post", "delete"} /\ pc'[o] \in {"checkTerm", "deleteProgress"}
        \/ req'[o].op \in {"put", "patch"} /\ pc'[o] = "findWord"
        \/ req'[o].op = "review" /\ pc'[o] = "findProgress"
    BY <1>1, <1>4 DEF Arrive, ReceivePost, ReceivePut, ReceivePatch,
       ReceiveDelete, ReceiveReview, Receive, Goto, TypeOK
  <2>2. QED
    BY <2>1 DEF RaceOf, ReadsOf, WordAsRead, TermAsChecked, HasChecked,
       LevelAsRead
<1>5. CASE Serve(o) /\ ~Commit(o) /\ pc[o] # "idle"
  <2> PICK w \in WordIds : w = req[o].w
    BY <1>1, <1>5 DEF TypeOK, ScriptOf, Request
  <2>1. /\ \A answer : ~Rollback(o, answer)
        /\ req[o] \in Request
    BY <1>1, <1>5 DEF Rollback, Finish, Goto, TypeOK, ScriptOf
  <2>2. ReadsOf(o) /\ (~overtaken'[o] => /\ WordAsRead(o)
                                         /\ TermAsChecked(o)
                                         /\ LevelAsRead(o))
    BY <1>1, <1>2, <1>5 DEF RaceOf
  <2>3. CASE CheckTerm(o)
    <3>1. /\ ~CheckTermExists(req[o].term,
                              IF req[o].op = "post" THEN {} ELSE {w})
          /\ pc'[o] \in {"insertWord", "updateWord"} /\ req[o].op # "review"
          /\ pc[o] = "checkTerm"
          /\ UNCHANGED <<words, prog, req, found, plan, wput, pput>>
      BY <1>1, <2>1, <2>3 DEF CheckTerm, Goto, TypeOK, txVars, ScriptOf
    <3>2. QED
      BY <2>2, <3>1
      DEF RaceOf, ReadsOf, WordAsRead, TermAsChecked, LevelAsRead,
          CheckTermExists
  <2>4. CASE InsertWord(o) \/ InsertProgress(o)
    <3>1. /\ req[o].op = "post" /\ HasChecked(o)
          /\ UNCHANGED <<words, req, found>>
      BY <1>1, <2>4 DEF InsertWord, InsertProgress, ScriptOf, HasChecked
    <3>2. QED
      BY <2>2, <3>1
      DEF RaceOf, ReadsOf, WordAsRead, TermAsChecked, LevelAsRead
  <2>5. CASE FindWord(o)
    <3>1. /\ req[o].op \in {"put", "patch"} /\ wput[o] = None
          /\ words[w] # None /\ words[w] \in Word
          /\ FindByID(o) = words[w] /\ found'[o] = words[w]
          /\ UNCHANGED <<words, req, wput>>
          /\ pc'[o] = IF TermChanges(o, words[w]) THEN "checkTerm"
                      ELSE IF DefChanges(o, words[w]) THEN "updateWord"
                      ELSE "rereadWord"
      BY <1>1, <2>1, <2>5 DEF FindWord, FindByID, Goto, TypeOK, ScriptOf, IsLive
    <3>2. QED
      BY <3>1
      DEF RaceOf, ReadsOf, WordAsRead, TermAsChecked, LevelAsRead, HasChecked,
          TermChanges, DefChanges
  <2>6. CASE UpdateWord(o) \/ RereadWord(o)
    <3>1. /\ req[o].op \in {"put", "patch"} /\ HasChecked(o)
          /\ pc[o] # "findWord"
          /\ UNCHANGED <<words, req, found>>
          /\ \/ UpdateWord(o) /\ found[o] # None
             \/ pc[o] = "rereadWord" /\ wput' = wput
      BY <1>1, <2>1, <2>6
      DEF UpdateWord, RereadWord, ScriptOf, HasChecked, txVars
    <3>2. ASSUME UpdateWord(o) PROVE wput'[o] # None
      <4>1. wput'[o] = Edited(o) /\ IsLive(words[w])
        BY <1>1, <2>1, <3>2 DEF UpdateWord, TypeOK
      <4>2. Edited(o) \in Word
        BY <1>1, <2>1, <3>1, <4>1
        DEF Edited, IsLive, Word, TypeOK, TermChanges, DefChanges, Request
      <4>3. QED
        BY <4>1, <4>2
    <3>3. QED
      BY <2>2, <3>1, <3>2
      DEF RaceOf, ReadsOf, WordAsRead, TermAsChecked, LevelAsRead,
          TermChanges, DefChanges
  <2>7. CASE DeleteProgress(o) \/ DeleteWord(o)
    <3>1. req[o].op = "delete" /\ req' = req
      BY <1>1, <2>1, <2>7 DEF DeleteProgress, DeleteWord, ScriptOf
    <3>2. QED
      BY <3>1
      DEF RaceOf, ReadsOf, WordAsRead, TermAsChecked, LevelAsRead
  <2>8. CASE FindProgress(o)
    <3>1. /\ req[o].op = "review" /\ UNCHANGED <<prog, req>>
          /\ plan'[o] = CalculateNextProgress(FindByWordID(w), req[o].correct)
          /\ pc'[o] # "commit" /\ req[o].correct \in BOOLEAN
          /\ prog[w] \in Progress \cup {None}
      BY <1>1, <2>1, <2>8 DEF FindProgress, Goto, TypeOK, ScriptOf, Request
    <3>2. prog[w] # None => plan'[o].level <= prog[w].level + 1
      BY <3>1
      DEF CalculateNextProgress, NextLevel, FindByWordID, Progress, Levels
    <3>3. QED
      BY <3>1, <3>2
      DEF RaceOf, ReadsOf, WordAsRead, TermAsChecked, LevelAsRead
  <2>9. CASE CreateProgress(o) \/ UpdateProgress(o)
    <3>1. /\ req[o].op = "review" /\ UNCHANGED <<prog, req, plan>>
          /\ pput'[o] = plan[o] /\ pc[o] # "findProgress"
      BY <1>1, <2>1, <2>9
      DEF CreateProgress, UpdateProgress, WriteProgress, TypeOK, ScriptOf
    <3>2. QED
      BY <2>2, <3>1
      DEF RaceOf, ReadsOf, WordAsRead, TermAsChecked, LevelAsRead
  <2>10. QED
    BY <1>5, <2>3, <2>4, <2>5, <2>6, <2>7, <2>8, <2>9 DEF Serve
<1>6. QED
  BY <1>1, <1>3, <1>4, <1>5, WhoMoves

LEMMA RaceInvariance == RaceSpec => [](IInv /\ PendingEdits /\ RaceInv)
<1>1. RaceInit => RaceInv
  BY DEF RaceInit, Init, RaceInv, RaceOf
<1>2. QED
  BY <1>1, RaceSteps, EditInvariance, RaceStep, PTL DEF RaceSpec

-----------------------------------------------------------------------------
(***************************************************************************)
(* What follows for a commit.                                              *)
(***************************************************************************)
\* A commit of VocabStore that changes something is a commit of VocabRaces.
LEMMA CommitSeen ==
    ASSUME IInv, NEW r \in Reqs, NEW answer \in Answers, CommitsWith(r, answer),
           <<words, prog>>' # <<words, prog>>
    PROVE  Commits(r)
  BY DEF CommitsWith, CommitTx, Finish, Goto, IInv, TypeOK, Commits

\* The commit of a request that was not overtaken adds no duplicate.
LEMMA CommitKeepsTerms ==
    ASSUME IInv, PendingEdits, RaceInv, NEW r \in Reqs,
           NEW answer \in Answers, CommitsWith(r, answer), ~overtaken[r],
           NEW v \in WordIds, NEW w \in WordIds, v # w, w = req[r].w,
           SameLiveTerm(v, w)'
    PROVE  SameLiveTerm(v, w)
<1>1. /\ ReadsOf(r) /\ WordAsRead(r) /\ TermAsChecked(r) /\ EditOf(r)
      /\ HasChecked(r) /\ pc[r] = "commit"
  BY DEF RaceInv, RaceOf, PendingEdits, CommitsWith, HasChecked
<1>2. /\ words'[v] = words[v] /\ IsLive(words[v])
      /\ IsLive(words'[w]) /\ words[v].term = words'[w].term
  BY CommitEffect DEF SameLiveTerm, IsLive
<1>3. CASE words'[w] = words[w]
  BY <1>2, <1>3 DEF SameLiveTerm
<1>4. CASE words'[w] # words[w]
  <2>1. words'[w] = wput[r] /\ wput[r] # None
    BY <1>4, CommitEffect
  <2>2. req[r].op \in {"post", "put", "patch"}
    BY <1>2, <2>1, CommitEffect DEF IsLive, Request
  <2>3. CASE req[r].op = "post"
    BY <1>1, <1>2, <2>1, <2>3 DEF EditOf, TermAsChecked
  <2>4. CASE req[r].op # "post" /\ TermChanges(r, found[r])
    BY <1>1, <1>2, <2>1, <2>2, <2>4 DEF EditOf, Edited, TermAsChecked
  <2>5. CASE req[r].op # "post" /\ ~TermChanges(r, found[r])
    <3>1. wput[r].term = words[w].term
      BY <1>1, <2>1, <2>2, <2>5 DEF EditOf, Edited
    <3>2. IsLive(words[w])
      BY <2>1, <2>2, <2>5, CommitEffect
    <3>3. QED
      BY <1>2, <2>1, <3>1, <3>2 DEF SameLiveTerm
  <2>6. QED
    BY <2>3, <2>4, <2>5
<1>5. QED
  BY <1>3, <1>4

(* A second live word of a term only arises when a post, put or patch      *)
(* commits after another one committed that term behind its check          *)
(* (CheckTermExists in PostWord, PutWord and PatchWord).                   *)
THEOREM Duplicates == RaceSpec => DuplicateOnlyIfOvertaken
<1>1. ASSUME IInv, PendingEdits, RaceInv, [Next]_vars,
             NEW v \in WordIds, NEW w \in WordIds, v # w,
             SameLiveTerm(v, w)', ~SameLiveTerm(v, w)
      PROVE  \E r \in Reqs : Commits(r) /\ overtaken[r]
  <2>1. ~UNCHANGED <<words, prog>>
    BY <1>1 DEF SameLiveTerm, IsLive
  <2>2. ASSUME NEW r \in Reqs, NEW answer \in Answers, CommitsWith(r, answer)
        PROVE  Commits(r) /\ overtaken[r]
    <3>1. Commits(r)
      BY <1>1, <2>1, <2>2, CommitSeen
    <3>2. req[r].w \in {v, w}
      <4>1. ASSUME req[r].w \notin {v, w} PROVE FALSE
        <5> PICK u : u = req[r].w
          OBVIOUS
        <5>1. words'[v] = words[v] /\ words'[w] = words[w]
          BY <1>1, <2>2, <4>1, CommitEffect
        <5>2. QED
          BY <1>1, <5>1 DEF SameLiveTerm, IsLive
      <4>2. QED
        BY <4>1
    <3>3. SameLiveTerm(w, v)' /\ ~SameLiveTerm(w, v)
      BY <1>1 DEF SameLiveTerm
    <3>4. CASE req[r].w = w
      BY <1>1, <2>2, <3>1, <3>4, CommitKeepsTerms
    <3>5. CASE req[r].w = v
      BY <1>1, <2>2, <3>1, <3>3, <3>5, CommitKeepsTerms
    <3>6. QED
      BY <3>2, <3>4, <3>5
  <2>3. QED
    BY <1>1, <2>1, <2>2, OnlyCommitsWrite
<1>2. IInv /\ PendingEdits /\ RaceInv /\ [RaceNext]_raceVars =>
         [\A v, w \in WordIds :
             v # w /\ SameLiveTerm(v, w)' /\ ~SameLiveTerm(v, w) =>
                \E r \in Reqs : Commits(r) /\ overtaken[r]]_raceVars
  BY <1>1 DEF RaceNext, raceVars
<1>3. QED
  BY <1>2, RaceInvariance, PTL DEF RaceSpec, DuplicateOnlyIfOvertaken

\* 200 is the answer of a commit, and of nothing else.
LEMMA AnswerOfCommit ==
    ASSUME IInv, [Next]_vars, NEW r \in Reqs, Answered(r, "200")
    PROVE  CommitsWith(r, "200")
<1>1. TypeOK /\ pc[r] # "idle" /\ pc'[r] = "idle" /\ resp'[r] = "200"
  BY DEF IInv, Answered
<1>2. ASSUME NEW o \in Reqs, NEW statement, statement # "idle",
             Goto(o, statement)
      PROVE  FALSE
  BY <1>1, <1>2 DEF Goto, TypeOK
<1>3. ASSUME NEW o \in Reqs, NEW answer, Finish(o, answer)
      PROVE  o = r /\ answer = "200"
  BY <1>1, <1>3 DEF Finish, Goto, TypeOK
<1>4. ASSUME NEW o \in Reqs, Arrive(o) PROVE FALSE
  BY <1>2, <1>4 DEF Arrive, ReceivePost, ReceivePut, ReceivePatch,
     ReceiveDelete, ReceiveReview, Receive
<1>5. ASSUME NEW o \in Reqs, Serve(o) PROVE Commit(o)
  BY <1>2, <1>3, <1>5
  DEF Serve, CheckTerm, InsertWord, InsertProgress, FindWord, UpdateWord,
      RereadWord, DeleteProgress, DeleteWord, FindProgress, CreateProgress,
      UpdateProgress, WriteProgress, Rollback
<1>6. ASSUME NEW o \in Reqs, Commit(o) PROVE CommitsWith(r, "200")
  BY <1>3, <1>6 DEF Commit, CommitTx, CommitsWith
<1>7. ASSUME NEW o \in Reqs, CommitUnacked(o) \/ Error(o) PROVE FALSE
  BY <1>3, <1>7 DEF CommitUnacked, CommitTx, Error, Rollback
<1>8. CASE Crash \/ NextDay \/ UNCHANGED vars
  BY <1>1, <1>8 DEF Crash, NextDay, vars, TypeOK
<1>9. QED
  BY <1>4, <1>5, <1>6, <1>7, <1>8 DEF Next

(* A put that answers 200 leaves the word exactly as its body says, unless *)
(* another edit of the word committed after PutWord had read it: what did  *)
(* not differ from the row read, and is therefore not written, still does  *)
(* not differ.                                                             *)
THEOREM PutReplaces == RaceSpec => PutReplacesUnlessOvertaken
<1>1. ASSUME IInv, PendingEdits, RaceInv, [Next]_vars, NEW r \in Reqs,
             Answered(r, "200"), req[r].op = "put", ~overtaken[r]
      PROVE  /\ words'[req[r].w].term = req[r].term
             /\ words'[req[r].w].def = req[r].def
  <2> PICK w : w = req[r].w
    OBVIOUS
  <2>1. CommitsWith(r, "200") /\ pc[r] = "commit"
    BY <1>1, AnswerOfCommit DEF CommitsWith
  <2>2. /\ words'[w] = IF wput[r] = None THEN words[w] ELSE wput[r]
        /\ wput[r] # None => wput[r] = Edited(r)
    BY <1>1, <2>1, CommitEffect DEF PendingEdits, EditOf, Answers
  <2>3. /\ words[w].term = found[r].term /\ words[w].def = found[r].def
        /\ wput[r] = None =>
              ~TermChanges(r, found[r]) /\ ~DefChanges(r, found[r])
        /\ req[r].term # Keep /\ req[r].def # Keep
    BY <1>1, <2>1
    DEF RaceInv, RaceOf, WordAsRead, ReadsOf, IInv, Script, ScriptOf
  <2>4. QED
    BY <2>2, <2>3 DEF Edited, TermChanges, DefChanges
<1>2. IInv /\ PendingEdits /\ RaceInv /\ [RaceNext]_raceVars =>
         [\A r \in Reqs :
             Answered(r, "200") /\ req[r].op = "put" /\ ~overtaken[r] =>
                /\ words'[req[r].w].term = req[r].term
                /\ words'[req[r].w].def = req[r].def]_raceVars
  BY <1>1 DEF RaceNext, raceVars
<1>3. QED
  BY <1>2, RaceInvariance, PTL DEF RaceSpec, PutReplacesUnlessOvertaken

(* A level climbs more than one rung only in the commit of a review that   *)
(* had read the progress row before another review changed it              *)
(* (UpsertLearningProgressBasedOnReview takes no lock when it reads).      *)
THEOREM LevelJumps == RaceSpec => JumpOnlyIfOvertaken
<1>1. ASSUME IInv, PendingEdits, RaceInv, [Next]_vars, NEW w \in WordIds,
             prog[w] # None, prog'[w] # None, prog'[w].level > prog[w].level + 1
      PROVE  \E r \in Reqs : Commits(r) /\ overtaken[r] /\ req[r].w = w
  <2>1. prog[w].level \in Levels
    BY <1>1 DEF IInv, TypeOK, Progress
  <2>2. prog'[w] # prog[w]
    BY <1>1, <2>1 DEF Levels
  <2>3. ASSUME NEW r \in Reqs, NEW answer \in Answers, CommitsWith(r, answer)
        PROVE  Commits(r) /\ overtaken[r] /\ req[r].w = w
    <3> PICK u : u = req[r].w
      OBVIOUS
    <3>1. u = w
      BY <1>1, <2>2, <2>3, CommitEffect
    <3>2. prog'[w] = pput[r] /\ pput[r] \in Progress
      BY <1>1, <2>2, <2>3, <3>1, CommitEffect
    <3>3. req[r].op = "review"
      BY <1>1, <2>1, <2>3, <3>1, <3>2, CommitEffect, SentinelAssumption
      DEF Request, Levels
    <3>4. ReadsOf(r) /\ (~overtaken[r] => LevelAsRead(r)) /\ pc[r] = "commit"
      BY <1>1, <2>3 DEF RaceInv, RaceOf, CommitsWith
    <3>5. overtaken[r]
      BY <1>1, <2>1, <3>1, <3>2, <3>3, <3>4
      DEF ReadsOf, LevelAsRead, Levels, Progress
    <3>6. QED
      BY <1>1, <2>2, <2>3, <3>1, <3>5, CommitSeen
  <2>4. QED
    BY <1>1, <2>2, <2>3, OnlyCommitsWrite
<1>2. IInv /\ PendingEdits /\ RaceInv /\ [RaceNext]_raceVars =>
         [\A w \in WordIds :
             prog[w] # None /\ prog'[w] # None
             /\ prog'[w].level > prog[w].level + 1 =>
                \E r \in Reqs :
                   Commits(r) /\ overtaken[r] /\ req[r].w = w]_raceVars
  BY <1>1 DEF RaceNext, raceVars
<1>3. QED
  BY <1>2, RaceInvariance, PTL DEF RaceSpec, JumpOnlyIfOvertaken

=============================================================================
