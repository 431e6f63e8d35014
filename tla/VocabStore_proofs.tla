--------------------------- MODULE VocabStore_proofs ---------------------------
(***************************************************************************)
(* Proofs about VocabStore for any number of connections, words, terms,    *)
(* definitions and days, and any of the failures.                          *)
(***************************************************************************)
EXTENDS VocabStore, TLAPS

-----------------------------------------------------------------------------
(***************************************************************************)
(* Types.                                                                  *)
(***************************************************************************)

\* A review always leaves a row the table accepts.
LEMMA NextProgressType ==
    ASSUME NEW p \in Progress \cup {None}, NEW correct \in BOOLEAN, day \in Int
    PROVE  CalculateNextProgress(p, correct) \in Progress
  BY DEF CalculateNextProgress, NextLevel, NextDue, Interval, Progress, Levels

\* Rolling a transaction back keeps the types.
LEMMA RollbackType ==
    ASSUME TypeOK, NEW r \in Reqs, NEW answer \in Answers, Rollback(r, answer)
    PROVE  TypeOK'
  BY DEF TypeOK, Rollback, Finish, Goto

\* So does committing it.
LEMMA CommitType ==
    ASSUME TypeOK, NEW r \in Reqs, NEW answer \in Answers, req[r] # None,
           CommitTx(r, answer)
    PROVE  TypeOK'
<1>1. req[r].w \in WordIds
  BY DEF TypeOK, Request
<1>2. words' \in [WordIds -> Word \cup {None}]
  BY <1>1 DEF TypeOK, CommitTx
<1>3. prog' \in [WordIds -> Progress \cup {None}]
  BY <1>1 DEF TypeOK, CommitTx
<1>4. /\ day' \in 0..MaxDay
      /\ pc' \in [Reqs -> Statements \cup {"idle"}]
      /\ req' \in [Reqs -> Request \cup {None}]
      /\ resp' \in [Reqs -> Answers]
  BY DEF TypeOK, CommitTx, Finish, Goto
<1>5. /\ found' \in [Reqs -> Word \cup {None}]
      /\ plan' \in [Reqs -> Progress \cup {None}]
      /\ wput' \in [Reqs -> Word \cup {None}]
      /\ pput' \in [Reqs -> Progress \cup {Gone, None}]
  BY DEF TypeOK, CommitTx, Finish
<1>6. QED
  BY <1>2, <1>3, <1>4, <1>5 DEF TypeOK

\* And so does taking up a request.
LEMMA ReceiveType ==
    ASSUME TypeOK, NEW r \in Reqs, NEW request \in Request,
           NEW statement \in Statements, Receive(r, request, statement)
    PROVE  TypeOK'
  BY DEF TypeOK, Receive, Goto, Answers, txVars

\* Every step keeps the types.
LEMMA TypeOKStep ==
    ASSUME TypeOK, Script, [Next]_vars
    PROVE  TypeOK'
<1> USE RolesAssumption, SentinelAssumption
<1>1. ASSUME NEW r \in Reqs, Arrive(r) PROVE TypeOK'
  <2>1. CASE ReceivePost(r)
    BY <2>1, ReceiveType DEF ReceivePost, Fresh, Known, Request, Statements
  <2>2. CASE ReceivePut(r)
    BY <2>2, ReceiveType DEF ReceivePut, Known, Request, Statements
  <2>3. CASE ReceivePatch(r)
    BY <2>3, ReceiveType DEF ReceivePatch, Known, Request, Statements
  <2>4. CASE ReceiveDelete(r)
    BY <2>4, ReceiveType DEF ReceiveDelete, Known, Request, Statements
  <2>5. CASE ReceiveReview(r)
    BY <2>5, ReceiveType DEF ReceiveReview, Known, Request, Statements
  <2>6. QED
    BY <1>1, <2>1, <2>2, <2>3, <2>4, <2>5 DEF Arrive
<1>2. ASSUME NEW r \in Reqs, Serve(r) PROVE TypeOK'
  <2>1. pc[r] # "idle" /\ req[r] # None /\ req[r] \in Request
    <3>1. pc[r] # "idle"
      BY <1>2 DEF Serve, CheckTerm, InsertWord, InsertProgress, FindWord,
           UpdateWord, RereadWord, DeleteProgress, DeleteWord, FindProgress,
           CreateProgress, UpdateProgress, Commit
    <3>2. QED
      BY <3>1 DEF Script, ScriptOf, TypeOK
  <2>w. words[req[r].w] \in Word \cup {None}
    BY <2>1 DEF TypeOK, Request
  <2>2. CASE CheckTerm(r)
    <3>1. CASE Rollback(r, "409")
      BY <3>1, RollbackType DEF Answers
    <3>2. CASE ~Rollback(r, "409")
      BY <2>2, <3>2 DEF CheckTerm, TypeOK, Goto, Statements, txVars
    <3>3. QED
      BY <3>1, <3>2
  <2>3. CASE InsertWord(r)
    <3>1. [term |-> req[r].term, def |-> req[r].def, live |-> TRUE] \in Word
      BY <2>1, <2>3 DEF InsertWord, Script, ScriptOf, Request, Word
    <3>2. QED
      BY <2>3, <3>1 DEF InsertWord, TypeOK, Goto, Statements
  <2>4. CASE InsertProgress(r)
    <3>1. [id |-> "post", level |-> 1, due |-> FirstDue(day)] \in Progress
      BY DEF Progress, Levels, FirstDue, TypeOK
    <3>2. QED
      BY <2>4, <3>1 DEF InsertProgress, TypeOK, Goto, Statements
  <2>5. CASE FindWord(r)
    <3>1. CASE FindByID(r) = None
      BY <2>5, <3>1, RollbackType DEF FindWord, Answers
    <3>2. CASE FindByID(r) # None
      <4>1. FindByID(r) \in Word
        BY <2>w, <3>2 DEF FindByID, TypeOK
      <4>2. QED
        BY <2>5, <3>2, <4>1 DEF FindWord, TypeOK, Goto, Statements
    <3>3. QED
      BY <3>1, <3>2
  <2>6. CASE UpdateWord(r)
    <3>1. CASE ~IsLive(words[req[r].w])
      BY <2>6, <3>1, RollbackType DEF UpdateWord, Answers
    <3>2. CASE IsLive(words[req[r].w])
      <4>1. Edited(r) \in Word
        BY <2>1, <2>w, <3>2
        DEF Edited, TermChanges, DefChanges, IsLive, Word, Request
      <4>2. QED
        BY <2>6, <3>2, <4>1 DEF UpdateWord, TypeOK, Goto, Statements
    <3>3. QED
      BY <3>1, <3>2
  <2>7. CASE RereadWord(r)
    <3>1. CASE FindByID(r) = None
      BY <2>7, <3>1, RollbackType DEF RereadWord, Answers
    <3>2. CASE FindByID(r) # None
      BY <2>7, <3>2 DEF RereadWord, TypeOK, Goto, Statements, txVars
    <3>3. QED
      BY <3>1, <3>2
  <2>8. CASE DeleteProgress(r)
    BY <2>8 DEF DeleteProgress, TypeOK, Goto, Statements
  <2>9. CASE DeleteWord(r)
    <3>1. CASE ~IsLive(words[req[r].w])
      BY <2>9, <3>1, RollbackType DEF DeleteWord, Answers
    <3>2. CASE IsLive(words[req[r].w])
      <4> DEFINE dead == [term |-> words[req[r].w].term,
                          def |-> words[req[r].w].def, live |-> FALSE]
      <4>1. dead \in Word
        BY <2>w, <3>2 DEF IsLive, Word
      <4>2. /\ wput' = [wput EXCEPT ![r] = dead]
            /\ Goto(r, "commit")
            /\ UNCHANGED <<words, prog, day, req, resp, found, plan, pput>>
        BY <2>9, <3>2 DEF DeleteWord
      <4> HIDE DEF dead
      <4>3. QED
        BY <4>1, <4>2 DEF TypeOK, Goto, Statements
    <3>3. QED
      BY <3>1, <3>2
  <2>10. CASE FindProgress(r)
    <3>1. FindByWordID(req[r].w) \in Progress \cup {None}
      BY <2>1 DEF FindByWordID, TypeOK, Request
    <3>2. CalculateNextProgress(FindByWordID(req[r].w), req[r].correct)
             \in Progress
      BY <2>1, <3>1, NextProgressType DEF TypeOK, Request
    <3>3. QED
      BY <2>10, <3>2 DEF FindProgress, TypeOK, Goto, Statements
  <2>11. CASE WriteProgress(r)
    BY <2>11 DEF WriteProgress, TypeOK, Goto, Statements
  <2>12. CASE CreateProgress(r)
    BY <2>11, <2>12, RollbackType DEF CreateProgress, Answers
  <2>13. CASE UpdateProgress(r)
    BY <2>11, <2>13, RollbackType DEF UpdateProgress, Answers
  <2>14. CASE Commit(r)
    BY <2>1, <2>14, CommitType DEF Commit, Success, Answers
  <2>15. QED
    BY <1>2, <2>2, <2>3, <2>4, <2>5, <2>6, <2>7, <2>8, <2>9, <2>10, <2>12,
       <2>13, <2>14 DEF Serve
<1>3. ASSUME NEW r \in Reqs, CommitUnacked(r) PROVE TypeOK'
  <2>1. req[r] # None
    BY <1>3 DEF CommitUnacked, Script, ScriptOf
  <2>2. QED
    BY <1>3, <2>1, CommitType DEF CommitUnacked, Answers
<1>4. ASSUME NEW r \in Reqs, Error(r) PROVE TypeOK'
  BY <1>4, RollbackType DEF Error, Answers
<1>5. CASE Crash
  BY <1>5 DEF Crash, TypeOK, Answers
<1>6. CASE NextDay
  BY <1>6 DEF NextDay, TypeOK, txVars
<1>7. CASE UNCHANGED vars
  BY <1>7 DEF vars, TypeOK
<1>8. QED
  BY <1>1, <1>2, <1>3, <1>4, <1>5, <1>6, <1>7 DEF Next

-----------------------------------------------------------------------------
(***************************************************************************)
(* The inductive invariant.  A statement before the commit touches nothing *)
(* but the local state of its own request, so that only that request's     *)
(* conjuncts, and its locks, are to be looked at.                          *)
(***************************************************************************)
LocalTo(r) ==
    /\ UNCHANGED <<words, prog>>
    /\ \A o \in Reqs \ {r} :
          /\ pc'[o] = pc[o] /\ req'[o] = req[o]
          /\ found'[o] = found[o] /\ plan'[o] = plan[o]
          /\ wput'[o] = wput[o] /\ pput'[o] = pput[o]

Exclusive(r) ==
    \A o \in Reqs :
        r # o /\ pc[r] # "idle" /\ pc[o] # "idle" /\ req[r].w = req[o].w =>
            /\ wput[r] = None \/ wput[o] = None
            /\ pput[r] = None \/ pput[o] = None

Owned(r) == \A o \in Reqs \ {r} : TargetOf(o)'

\* A step local to r keeps the invariant if it keeps what concerns r.
LEMMA LocalStep ==
    ASSUME IInv, NEW r \in Reqs, LocalTo(r), TypeOK',
           ScriptOf(r)', TargetOf(r)', PendingOf(r)', Exclusive(r)', Owned(r)
    PROVE  IInv'
<1>1. Script'
  <2> SUFFICES ASSUME NEW o \in Reqs, o # r PROVE ScriptOf(o)'
    BY DEF Script
  <2>1. ScriptOf(o)
    BY DEF IInv, Script
  <2>2. QED
    BY <2>1 DEF LocalTo, ScriptOf
<1>2. Targets'
  BY DEF Targets, Owned
<1>3. OneWriterPerRow'
  <2> SUFFICES ASSUME NEW p \in Reqs, NEW o \in Reqs,
                      (p # o /\ pc[p] # "idle" /\ pc[o] # "idle"
                         /\ req[p].w = req[o].w)'
               PROVE  /\ (wput[p] = None \/ wput[o] = None)'
                      /\ (pput[p] = None \/ pput[o] = None)'
    BY DEF OneWriterPerRow
  <2>1. CASE p = r \/ o = r
    BY <2>1 DEF Exclusive
  <2>2. CASE p # r /\ o # r
    BY <2>2 DEF LocalTo, IInv, OneWriterPerRow
  <2>3. QED
    BY <2>1, <2>2
<1>4. PendingWrites'
  <2> SUFFICES ASSUME NEW o \in Reqs, o # r PROVE PendingOf(o)'
    BY DEF PendingWrites
  <2>1. PendingOf(o)
    BY DEF IInv, PendingWrites
  <2>2. QED
    BY <2>1 DEF LocalTo, PendingOf, IsLive
<1>5. EveryLiveWordIsScheduled' /\ ReviewInsertsOnlyForDeleted'
  BY DEF IInv, LocalTo, EveryLiveWordIsScheduled, ReviewInsertsOnlyForDeleted,
     IsLive
<1>6. QED
  BY <1>1, <1>2, <1>3, <1>4, <1>5 DEF IInv

\* While r is served, no other request loses the id it adds to r.
LEMMA ServedKeepsOwned ==
    ASSUME IInv, NEW r \in Reqs, LocalTo(r), pc[r] # "idle", req' = req
    PROVE  Owned(r)
  BY DEF IInv, Targets, TargetOf, LocalTo, Owned

\* A rollback keeps the invariant.
LEMMA RollbackStep ==
    ASSUME IInv, NEW r \in Reqs, pc[r] # "idle", NEW answer \in Answers,
           Rollback(r, answer)
    PROVE  IInv'
<1>1. TypeOK'
  BY RollbackType DEF IInv
<1>2. LocalTo(r) /\ req' = req
  BY DEF LocalTo, Rollback, Finish, Goto, IInv, TypeOK
<1>3. pc'[r] = "idle" /\ wput'[r] = None /\ pput'[r] = None
  BY DEF Rollback, Finish, Goto, IInv, TypeOK
<1>4. ScriptOf(r)' /\ TargetOf(r)' /\ PendingOf(r)' /\ Exclusive(r)'
  BY <1>3 DEF ScriptOf, TargetOf, PendingOf, Exclusive
<1>5. QED
  BY <1>1, <1>2, <1>4, ServedKeepsOwned, LocalStep

\* Taking up a request keeps the invariant.
LEMMA ArriveStep ==
    ASSUME IInv, NEW r \in Reqs, Arrive(r), TypeOK'
    PROVE  IInv'
<1> USE SentinelAssumption DEF IInv
<1>1. /\ pc[r] = "idle" /\ LocalTo(r)
      /\ wput'[r] = None /\ pput'[r] = None
  <2>1. ASSUME NEW request, NEW statement, Receive(r, request, statement)
        PROVE  /\ pc[r] = "idle" /\ LocalTo(r)
               /\ wput'[r] = None /\ pput'[r] = None
    BY <2>1 DEF Receive, Goto, LocalTo, TypeOK, txVars, Script, ScriptOf
  <2>2. QED
    BY <2>1 DEF Arrive, ReceivePost, ReceivePut, ReceivePatch, ReceiveDelete,
       ReceiveReview
<1>2. Exclusive(r)'
  BY <1>1 DEF Exclusive
<1>3. CASE ReceivePost(r)
  <2>1. PICK w \in Fresh, t \in Terms, d \in Defs :
           Receive(r, [op |-> "post", w |-> w, term |-> t, def |-> d,
                       correct |-> FALSE], "checkTerm")
    BY <1>3 DEF ReceivePost
  <2>2. /\ pc'[r] = "checkTerm"
        /\ req'[r] = [op |-> "post", w |-> w, term |-> t, def |-> d,
                      correct |-> FALSE]
    BY <2>1 DEF Receive, Goto, TypeOK
  <2>3. /\ words[w] = None
        /\ \A o \in Reqs : pc[o] # "idle" => req[o].w # w
    BY DEF Fresh, Known
  <2>4. req'[r] # None
    <3>1. req'[r] \in Request
      BY <2>2 DEF Request, Fresh
    <3>2. QED
      BY <3>1
  <2>5. ScriptOf(r)' /\ PendingOf(r)'
    BY <1>1, <2>2, <2>4 DEF ScriptOf, PendingOf
  <2>6. TargetOf(r)' /\ Owned(r)
    BY <1>1, <2>2, <2>3 DEF TargetOf, Owned, LocalTo, Targets
  <2>7. QED
    BY <1>1, <1>2, <2>5, <2>6, LocalStep
<1>4. ASSUME NEW w \in Known, NEW request \in Request,
             NEW statement \in {"findWord", "deleteProgress", "findProgress"},
             Receive(r, request, statement),
             request.w = w,
             request.op = IF statement = "findWord" THEN request.op
                          ELSE IF statement = "deleteProgress" THEN "delete"
                          ELSE "review",
             request.op # "post",
             statement = "findWord" => request.op \in {"put", "patch"},
             request.op = "put" => request.term # Keep /\ request.def # Keep
      PROVE  IInv'
  <2>1. pc'[r] = statement /\ req'[r] = request /\ request # None
    BY <1>4 DEF Receive, Goto, TypeOK
  <2>2. words[w] # None
    BY DEF Known
  <2>3. ScriptOf(r)' /\ PendingOf(r)'
    BY <1>1, <1>4, <2>1 DEF ScriptOf, PendingOf
  <2>4. TargetOf(r)' /\ Owned(r)
    BY <1>1, <1>4, <2>1, <2>2 DEF TargetOf, Owned, LocalTo, Targets
  <2>5. QED
    BY <1>1, <1>2, <2>3, <2>4, LocalStep
<1>5. CASE ReceivePut(r)
  BY <1>4, <1>5 DEF ReceivePut, Request, Known
<1>6. CASE ReceivePatch(r)
  BY <1>4, <1>6 DEF ReceivePatch, Request, Known
<1>7. CASE ReceiveDelete(r)
  BY <1>4, <1>7 DEF ReceiveDelete, Request, Known
<1>8. CASE ReceiveReview(r)
  BY <1>4, <1>8 DEF ReceiveReview, Request, Known
<1>9. QED
  BY <1>3, <1>5, <1>6, <1>7, <1>8 DEF Arrive

\* A statement before the commit keeps the invariant.
LEMMA StatementStep ==
    ASSUME IInv, NEW r \in Reqs, Serve(r), pc[r] # "commit", TypeOK'
    PROVE  IInv'
<1> USE SentinelAssumption DEF IInv
<1>0. pc[r] # "idle"
  BY DEF Serve, CheckTerm, InsertWord, InsertProgress, FindWord,
     UpdateWord, RereadWord, DeleteProgress, DeleteWord, FindProgress,
     CreateProgress, UpdateProgress, Commit
<1>1. ScriptOf(r) /\ TargetOf(r) /\ PendingOf(r) /\ Exclusive(r)
  BY DEF Script, Targets, PendingWrites, OneWriterPerRow, Exclusive
<1>2. ASSUME LocalTo(r), req' = req, ScriptOf(r)', PendingOf(r)', Exclusive(r)'
      PROVE  IInv'
  <2>1. TargetOf(r)'
    BY <1>0, <1>1, <1>2 DEF TargetOf, LocalTo
  <2>2. QED
    BY <1>0, <1>2, <2>1, ServedKeepsOwned, LocalStep
<1>3. ASSUME LocalTo(r), req' = req, pc'[r] # "idle",
             wput'[r] = wput[r], pput'[r] = pput[r]
      PROVE  Exclusive(r)'
  BY <1>0, <1>1, <1>3 DEF Exclusive, LocalTo
<1>4. CASE CheckTerm(r)
  <2>1. CASE Rollback(r, "409")
    BY <1>0, <2>1, RollbackStep DEF Answers
  <2>2. CASE ~Rollback(r, "409")
    <3>1. /\ LocalTo(r) /\ req' = req
          /\ pc'[r] = IF req[r].op = "post" THEN "insertWord" ELSE "updateWord"
          /\ wput'[r] = wput[r] /\ pput'[r] = pput[r] /\ found'[r] = found[r]
      BY <1>4, <2>2 DEF CheckTerm, LocalTo, Goto, TypeOK, txVars
    <3>2. ScriptOf(r)' /\ PendingOf(r)'
      BY <1>1, <1>4, <3>1 DEF CheckTerm, ScriptOf, PendingOf, LocalTo
    <3>3. QED
      BY <1>2, <1>3, <3>1, <3>2
  <2>3. QED
    BY <2>1, <2>2
<1>5. CASE InsertWord(r)
  <2> DEFINE new == [term |-> req[r].term, def |-> req[r].def, live |-> TRUE]
  <2>1. /\ LocalTo(r) /\ req' = req /\ pc'[r] = "insertProgress"
        /\ wput'[r] = new /\ pput'[r] = pput[r]
    BY <1>5 DEF InsertWord, LocalTo, Goto, TypeOK
  <2>2. new \in Word /\ new # None /\ new.live
    <3>1. req[r] \in Request /\ req[r].term # Keep /\ req[r].def # Keep
      BY <1>1, <1>5 DEF InsertWord, ScriptOf, TypeOK
    <3>2. new \in Word
      BY <3>1 DEF Request, Word
    <3>3. QED
      BY <3>2
  <2> HIDE DEF new
  <2>3. ScriptOf(r)' /\ PendingOf(r)'
    BY <1>1, <1>5, <2>1, <2>2 DEF InsertWord, ScriptOf, PendingOf, LocalTo
  <2>4. Exclusive(r)'
    BY <1>1, <1>5, <2>1 DEF InsertWord, Exclusive, LocalTo, ScriptOf, TargetOf
  <2>5. QED
    BY <1>2, <2>1, <2>3, <2>4
<1>6. CASE InsertProgress(r)
  <2> DEFINE new == [id |-> "post", level |-> 1, due |-> FirstDue(day)]
  <2>1. /\ LocalTo(r) /\ req' = req /\ pc'[r] = "commit"
        /\ wput'[r] = wput[r] /\ pput'[r] = new
    BY <1>6 DEF InsertProgress, LocalTo, Goto, TypeOK
  <2>2. /\ new \in Progress /\ new # None /\ new # Gone
        /\ new.id = "post" /\ new.level = 1
    BY DEF TypeOK, Progress, Levels, FirstDue
  <2> HIDE DEF new
  <2>3. ScriptOf(r)' /\ PendingOf(r)'
    BY <1>1, <1>6, <2>1, <2>2 DEF InsertProgress, ScriptOf, PendingOf, LocalTo
  <2>4. Exclusive(r)'
    BY <1>1, <1>6, <2>1 DEF InsertProgress, Exclusive, LocalTo, ScriptOf,
       TargetOf
  <2>5. QED
    BY <1>2, <2>1, <2>3, <2>4
<1>7. CASE FindWord(r)
  <2>1. CASE FindByID(r) = None
    BY <1>0, <1>7, <2>1, RollbackStep DEF FindWord, Answers
  <2>2. CASE FindByID(r) # None
    <3>1. /\ LocalTo(r) /\ req' = req
          /\ pc'[r] \in {"checkTerm", "updateWord", "rereadWord"}
          /\ wput'[r] = wput[r] /\ pput'[r] = pput[r] /\ found'[r] # None
      BY <1>7, <2>2 DEF FindWord, LocalTo, Goto, TypeOK
    <3>2. ScriptOf(r)' /\ PendingOf(r)'
      BY <1>1, <1>7, <3>1 DEF FindWord, ScriptOf, PendingOf, LocalTo
    <3>3. QED
      BY <1>2, <1>3, <3>1, <3>2
  <2>3. QED
    BY <2>1, <2>2
<1>8. CASE UpdateWord(r)
  <2>1. CASE ~IsLive(words[req[r].w])
    BY <1>0, <1>8, <2>1, RollbackStep DEF UpdateWord, Answers
  <2>2. CASE IsLive(words[req[r].w])
    <3>1. /\ LocalTo(r) /\ req' = req /\ pc'[r] = "rereadWord"
          /\ wput'[r] = Edited(r) /\ pput'[r] = pput[r]
      BY <1>8, <2>2 DEF UpdateWord, LocalTo, Goto, TypeOK
    <3>2. Edited(r).live
      BY <2>2 DEF Edited, IsLive
    <3>3. ScriptOf(r)' /\ PendingOf(r)'
      BY <1>1, <1>8, <2>2, <3>1, <3>2
      DEF UpdateWord, ScriptOf, PendingOf, LocalTo
    <3>4. Exclusive(r)'
      BY <1>1, <1>8, <2>2, <3>1
      DEF UpdateWord, Exclusive, LocalTo, ScriptOf, WordRowFree
    <3>5. QED
      BY <1>2, <3>1, <3>3, <3>4
  <2>3. QED
    BY <2>1, <2>2
<1>9. CASE RereadWord(r)
  <2>1. CASE FindByID(r) = None
    BY <1>0, <1>9, <2>1, RollbackStep DEF RereadWord, Answers
  <2>2. CASE FindByID(r) # None
    <3>1. /\ LocalTo(r) /\ req' = req /\ pc'[r] = "commit"
          /\ wput'[r] = wput[r] /\ pput'[r] = pput[r]
      BY <1>9, <2>2 DEF RereadWord, LocalTo, Goto, TypeOK, txVars
    <3>2. ScriptOf(r)' /\ PendingOf(r)'
      BY <1>1, <1>9, <3>1 DEF RereadWord, ScriptOf, PendingOf, LocalTo
    <3>3. QED
      BY <1>2, <1>3, <3>1, <3>2
  <2>3. QED
    BY <2>1, <2>2
<1>10. CASE DeleteProgress(r)
  <2>1. /\ LocalTo(r) /\ req' = req /\ pc'[r] = "deleteWord"
        /\ wput'[r] = wput[r]
        /\ \/ prog[req[r].w] = None /\ pput'[r] = pput[r]
           \/ ProgressRowFree(r) /\ pput'[r] = Gone
    BY <1>10 DEF DeleteProgress, LocalTo, Goto, TypeOK
  <2>2. prog[req[r].w] = None => ~IsLive(words[req[r].w])
    BY <1>0, <1>1 DEF EveryLiveWordIsScheduled, ScriptOf, TypeOK, Request
  <2>3. ScriptOf(r)' /\ PendingOf(r)'
    BY <1>1, <1>10, <2>1, <2>2 DEF DeleteProgress, ScriptOf, PendingOf, LocalTo
  <2>4. Exclusive(r)'
    BY <1>1, <1>10, <2>1
    DEF DeleteProgress, Exclusive, LocalTo, ScriptOf, ProgressRowFree
  <2>5. QED
    BY <1>2, <2>1, <2>3, <2>4
<1>11. CASE DeleteWord(r)
  <2>1. CASE ~IsLive(words[req[r].w])
    BY <1>0, <1>11, <2>1, RollbackStep DEF DeleteWord, Answers
  <2>2. CASE IsLive(words[req[r].w])
    <3> DEFINE dead == [term |-> words[req[r].w].term,
                        def |-> words[req[r].w].def, live |-> FALSE]
    <3>1. /\ LocalTo(r) /\ req' = req /\ pc'[r] = "commit"
          /\ wput'[r] = dead /\ pput'[r] = pput[r]
      BY <1>11, <2>2 DEF DeleteWord, LocalTo, Goto, TypeOK
    <3>2. dead # None /\ ~dead.live
      <4>1. words[req[r].w] \in Word
        BY <1>0, <1>1, <2>2 DEF IsLive, ScriptOf, TypeOK, Request
      <4>2. dead \in Word
        BY <4>1 DEF Word
      <4>3. QED
        BY <4>2
    <3> HIDE DEF dead
    <3>3. ScriptOf(r)' /\ PendingOf(r)'
      BY <1>1, <1>11, <2>2, <3>1, <3>2
      DEF DeleteWord, ScriptOf, PendingOf, LocalTo
    <3>4. Exclusive(r)'
      BY <1>1, <1>11, <2>2, <3>1
      DEF DeleteWord, Exclusive, LocalTo, WordRowFree
    <3>5. QED
      BY <1>2, <3>1, <3>3, <3>4
  <2>3. QED
    BY <2>1, <2>2
<1>12. CASE FindProgress(r)
  <2> DEFINE p == FindByWordID(req[r].w)
             next == CalculateNextProgress(p, req[r].correct)
  <2>1. /\ LocalTo(r) /\ req' = req
        /\ pc'[r] = IF p = None THEN "createProgress" ELSE "updateProgress"
        /\ wput'[r] = wput[r] /\ pput'[r] = pput[r] /\ plan'[r] = next
    BY <1>12 DEF FindProgress, LocalTo, Goto, TypeOK
  <2>2. req[r] \in Request
    BY <1>0, <1>1 DEF ScriptOf, TypeOK
  <2>3. p = None => ~IsLive(words[req[r].w]) /\ next.id = "review"
    BY <2>2 DEF FindByWordID, EveryLiveWordIsScheduled, CalculateNextProgress,
       Request
  <2>4. p \in Progress \cup {None}
    BY <2>2 DEF FindByWordID, TypeOK, Request
  <2>5. next \in Progress
    BY <2>2, <2>4, NextProgressType DEF TypeOK, Request
  <2> HIDE DEF p, next
  <2>6. ScriptOf(r)' /\ PendingOf(r)'
    BY <1>1, <1>12, <2>1, <2>3, <2>5
    DEF FindProgress, ScriptOf, PendingOf, LocalTo
  <2>7. QED
    BY <1>2, <1>3, <2>1, <2>6
<1>13. ASSUME WriteProgress(r), pc[r] \in {"createProgress", "updateProgress"},
              IF pc[r] = "createProgress" THEN prog[req[r].w] = None
              ELSE prog[req[r].w] # None /\ prog[req[r].w].id = plan[r].id
       PROVE  IInv'
  <2>1. /\ LocalTo(r) /\ req' = req /\ pc'[r] = "commit"
        /\ wput'[r] = wput[r] /\ pput'[r] = plan[r]
    BY <1>13 DEF WriteProgress, LocalTo, Goto, TypeOK
  <2>2. plan[r] # None /\ plan[r] \in Progress
    BY <1>1, <1>13 DEF ScriptOf, TypeOK
  <2>3. ScriptOf(r)' /\ PendingOf(r)'
    BY <1>1, <1>13, <2>1, <2>2 DEF ScriptOf, PendingOf, LocalTo
  <2>4. Exclusive(r)'
    BY <1>1, <1>13, <2>1
    DEF WriteProgress, Exclusive, LocalTo, ScriptOf, ProgressRowFree
  <2>5. QED
    BY <1>2, <2>1, <2>3, <2>4
<1>14. CASE CreateProgress(r)
  BY <1>0, <1>13, <1>14, RollbackStep DEF CreateProgress, Answers
<1>15. CASE UpdateProgress(r)
  BY <1>0, <1>13, <1>15, RollbackStep DEF UpdateProgress, Answers
<1>16. QED
  BY <1>4, <1>5, <1>6, <1>7, <1>8, <1>9, <1>10, <1>11, <1>12, <1>14, <1>15
  DEF Serve, Commit

\* A commit keeps the invariant: what it writes was pending under a row lock.
LEMMA CommitStep ==
    ASSUME IInv, NEW r \in Reqs, pc[r] = "commit", NEW answer \in Answers,
           CommitTx(r, answer)
    PROVE  IInv'
<1> USE SentinelAssumption
<1> DEFINE w == req[r].w
<1>1. /\ TypeOK /\ ScriptOf(r) /\ TargetOf(r) /\ PendingOf(r)
      /\ req[r] \in Request /\ w \in WordIds /\ req[r] # None
  <2>1. /\ TypeOK /\ ScriptOf(r) /\ TargetOf(r) /\ PendingOf(r)
    BY DEF IInv, Script, Targets, PendingWrites
  <2>2. QED
    BY <2>1 DEF TypeOK, ScriptOf, Request
<1>2. TypeOK'
  BY <1>1, CommitType
<1>3. /\ pc'[r] = "idle" /\ wput'[r] = None /\ pput'[r] = None
      /\ req' = req
      /\ \A o \in Reqs \ {r} :
            /\ pc'[o] = pc[o] /\ found'[o] = found[o] /\ plan'[o] = plan[o]
            /\ wput'[o] = wput[o] /\ pput'[o] = pput[o]
  BY <1>1 DEF CommitTx, Finish, Goto, TypeOK
<1>4. /\ \A v \in WordIds \ {w} : words'[v] = words[v] /\ prog'[v] = prog[v]
      /\ words'[w] = IF wput[r] = None THEN words[w] ELSE wput[r]
      /\ prog'[w] = IF pput[r] = None THEN prog[w]
                    ELSE IF pput[r] = Gone THEN None ELSE pput[r]
  BY <1>1 DEF CommitTx, TypeOK
<1>5. /\ wput[r] # None => wput[r] \in Word
      /\ pput[r] \notin {None, Gone} => pput[r] \in Progress
  BY <1>1 DEF TypeOK
<1>6. words'[w] # None /\ (IsLive(words[w]) \/ words[w] = None \/ words'[w] = words[w])
  BY <1>1, <1>4, <1>5 DEF TargetOf, PendingOf, IsLive, Request
<1>7. IsLive(words'[w]) => prog'[w] # None
  BY <1>1, <1>4, <1>5
  DEF PendingOf, IsLive, Request, IInv, EveryLiveWordIsScheduled
<1>8. prog'[w] # None /\ prog'[w].id = "review" => ~IsLive(words'[w])
  BY <1>1, <1>4, <1>5
  DEF PendingOf, IsLive, Request, IInv, ReviewInsertsOnlyForDeleted,
      EveryLiveWordIsScheduled
<1>9. EveryLiveWordIsScheduled' /\ ReviewInsertsOnlyForDeleted'
  BY <1>1, <1>4, <1>7, <1>8
  DEF IInv, EveryLiveWordIsScheduled, ReviewInsertsOnlyForDeleted, IsLive
<1>10. Script'
  <2> SUFFICES ASSUME NEW o \in Reqs PROVE ScriptOf(o)'
    BY DEF Script
  <2>1. CASE o = r
    BY <1>3, <2>1 DEF ScriptOf
  <2>2. CASE o # r
    BY <1>3, <2>2 DEF ScriptOf, IInv, Script
  <2>3. QED
    BY <2>1, <2>2
<1>11. OneWriterPerRow'
  BY <1>3 DEF IInv, OneWriterPerRow
<1>12. ASSUME NEW o \in Reqs, o # r, pc[o] # "idle"
       PROVE  TargetOf(o)' /\ PendingOf(o)'
  <2>1. TargetOf(o) /\ PendingOf(o) /\ ScriptOf(o) /\ req[o] \in Request
    BY <1>1, <1>12 DEF IInv, Targets, PendingWrites, Script, ScriptOf, TypeOK
  <2>2. req[o].w \in WordIds
    BY <2>1 DEF Request
  <2>3. CASE req[o].w # w
    <3>1. words'[req[o].w] = words[req[o].w] /\ prog'[req[o].w] = prog[req[o].w]
      BY <1>4, <2>2, <2>3
    <3>2. PendingOf(o)'
      BY <1>3, <1>12, <2>1, <3>1 DEF PendingOf, IsLive
    <3>3. TargetOf(o)'
      BY <1>3, <1>12, <2>1, <3>1 DEF TargetOf
    <3>4. QED
      BY <3>2, <3>3
  <2>4. CASE req[o].w = w
    <3>1. req[o].op # "post" /\ req[r].op # "post" /\ words[w] # None
      BY <1>1, <1>12, <2>1, <2>4 DEF TargetOf
    <3>2. /\ wput[r] = None \/ wput[o] = None
          /\ pput[r] = None \/ pput[o] = None
      BY <1>12, <2>4 DEF IInv, OneWriterPerRow
    <3>3. TargetOf(o)'
      BY <1>3, <1>6, <2>4, <3>1 DEF TargetOf
    <3>4. ~IsLive(words[w]) => ~IsLive(words'[w])
      BY <1>6, <3>1
    <3>5. wput[o] # None => words'[w] = words[w]
      BY <1>4, <3>2
    <3>6. pput[o] # None => prog'[w] = prog[w]
      BY <1>4, <3>2
    <3>7. PendingOf(o)'
      BY <1>3, <1>12, <2>1, <2>4, <3>1, <3>4, <3>5, <3>6 DEF PendingOf, IsLive
    <3>8. QED
      BY <3>3, <3>7
  <2>5. QED
    BY <2>3, <2>4
<1>13. Targets' /\ PendingWrites'
  <2> SUFFICES ASSUME NEW o \in Reqs PROVE TargetOf(o)' /\ PendingOf(o)'
    BY DEF Targets, PendingWrites
  <2>1. CASE pc'[o] = "idle"
    BY <2>1 DEF TargetOf, PendingOf
  <2>2. CASE pc'[o] # "idle"
    BY <1>3, <1>12, <2>2
  <2>3. QED
    BY <2>1, <2>2
<1>14. QED
  BY <1>2, <1>9, <1>10, <1>11, <1>13 DEF IInv

LEMMA InvInit == Init => IInv
  BY RolesAssumption, SentinelAssumption
  DEF Init, IInv, TypeOK, Script, ScriptOf, Targets, TargetOf, OneWriterPerRow,
      PendingWrites, PendingOf, EveryLiveWordIsScheduled,
      ReviewInsertsOnlyForDeleted, IsLive, Answers

LEMMA InvStep == IInv /\ [Next]_vars => IInv'
<1> SUFFICES ASSUME IInv, [Next]_vars PROVE IInv'
  OBVIOUS
<1>1. TypeOK'
  BY TypeOKStep DEF IInv
<1>2. ASSUME NEW r \in Reqs, Arrive(r) PROVE IInv'
  BY <1>1, <1>2, ArriveStep
<1>3. ASSUME NEW r \in Reqs, Serve(r) PROVE IInv'
  <2>1. CASE pc[r] = "commit"
    <3>1. Commit(r)
      BY <1>3, <2>1 DEF Serve, CheckTerm, InsertWord, InsertProgress, FindWord,
         UpdateWord, RereadWord, DeleteProgress, DeleteWord, FindProgress,
         CreateProgress, UpdateProgress
    <3>2. QED
      BY <2>1, <3>1, CommitStep DEF Commit, Success, Answers
  <2>2. CASE pc[r] # "commit"
    BY <1>1, <1>3, <2>2, StatementStep
  <2>3. QED
    BY <2>1, <2>2
<1>4. ASSUME NEW r \in Reqs, CommitUnacked(r) PROVE IInv'
  BY <1>4, CommitStep DEF CommitUnacked, Answers
<1>5. ASSUME NEW r \in Reqs, Error(r) PROVE IInv'
  BY <1>5, RollbackStep DEF Error, Answers
<1>6. CASE Crash
  <2>1. /\ \A r \in Reqs : pc'[r] = "idle" /\ wput'[r] = None /\ pput'[r] = None
        /\ UNCHANGED <<words, prog>>
    BY <1>6 DEF Crash
  <2>2. QED
    BY <1>1, <2>1 DEF IInv, Script, ScriptOf, Targets, TargetOf,
       OneWriterPerRow, PendingWrites, PendingOf, EveryLiveWordIsScheduled,
       ReviewInsertsOnlyForDeleted
<1>7. CASE NextDay \/ UNCHANGED vars
  <2>1. UNCHANGED <<words, prog, pc, req, resp, txVars>>
    BY <1>7 DEF NextDay, vars, txVars
  <2>2. QED
    BY <1>1, <2>1 DEF txVars, IInv, Script, ScriptOf, Targets, TargetOf,
       OneWriterPerRow, PendingWrites, PendingOf, EveryLiveWordIsScheduled,
       ReviewInsertsOnlyForDeleted
<1>8. QED
  BY <1>2, <1>3, <1>4, <1>5, <1>6, <1>7 DEF Next

THEOREM Invariance == Spec => []IInv
<1>1. QED
  BY InvInit, InvStep, PTL DEF Spec

THEOREM TypeCorrect == Spec => []TypeOK
<1>1. IInv => TypeOK
  BY DEF IInv
<1>2. QED
  BY <1>1, Invariance, PTL

THEOREM LiveWordsScheduled == Spec => []EveryLiveWordIsScheduled
<1>1. IInv => EveryLiveWordIsScheduled
  BY DEF IInv
<1>2. QED
  BY <1>1, Invariance, PTL

=============================================================================
