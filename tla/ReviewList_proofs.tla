--------------------------- MODULE ReviewList_proofs ---------------------------
(***************************************************************************)
(* Proofs about ReviewList: for every time zone, limit, set of words and   *)
(* sequence of steps.  The arithmetic of days is in two lemmas.            *)
(***************************************************************************)
EXTENDS ReviewList, FiniteSetTheorems, TLAPS

\* "Today" is the server's day or the one before.
LEMMA TodayLag ==
    ASSUME NEW h \in Nat
    PROVE  /\ LocalDay(h) \in Int /\ Today(h) \in Int
           /\ Today(h) <= LocalDay(h)
           /\ LocalDay(h) <= Today(h) + 1
  BY ReviewListAssumption DEF LocalDay, Today

\* Neither day goes back.
LEMMA DaysAdvance ==
    ASSUME NEW h \in Nat, NEW d \in Nat
    PROVE  LocalDay(h) <= LocalDay(h + d) /\ Today(h) <= Today(h + d)
  BY ReviewListAssumption DEF LocalDay, Today

\* The due words can be counted, and so can what a limit leaves of them.
LEMMA DueWordsFinite ==
    /\ IsFiniteSet(DueWords)
    /\ Cardinality(DueWords) \in Nat
    /\ UpTo(SummaryLimit, Cardinality(DueWords)) \in Nat
<1>1. DueWords \in SUBSET WordIds
  BY DEF DueWords, Live
<1>2. IsFiniteSet(DueWords)
  BY <1>1, FS_Subset, ReviewListAssumption
<1>3. Cardinality(DueWords) \in Nat
  BY <1>2, FS_CardinalityType
<1>4. QED
  BY <1>2, <1>3, ReviewListAssumption DEF UpTo

\* A review leads to a proper schedule.
LEMMA NextScheduled ==
    ASSUME NEW level \in Levels, NEW correct \in BOOLEAN, NEW today \in Int
    PROVE  /\ NextLevel(level, correct) \in Levels
           /\ NextDue(level, correct, today) \in Int
  BY DEF Levels, NextLevel, NextDue, Interval

-----------------------------------------------------------------------------
(***************************************************************************)
(* Types.                                                                  *)
(***************************************************************************)
LEMMA TypeStep == TypeOK /\ [Next]_vars => TypeOK'
<1> SUFFICES ASSUME TypeOK, [Next]_vars PROVE TypeOK'
  OBVIOUS
<1>1. LocalDay(hour) \in Int
  BY TodayLag DEF TypeOK
<1>2. ASSUME NEW w \in WordIds, Learn(w) PROVE TypeOK'
  <2>1. [level |-> 1, due |-> FirstDue(LocalDay(hour)), new |-> TRUE]
           \in Scheduled
    BY <1>1 DEF Scheduled, Levels, FirstDue
  <2>2. QED
    BY <1>2, <2>1 DEF Learn, Outdate, TypeOK
<1>3. ASSUME NEW w \in WordIds, Study(w) PROVE TypeOK'
  <2>1. PICK level \in Levels, correct \in BOOLEAN :
           word' = [word EXCEPT ![w] =
                      [level |-> NextLevel(level, correct),
                       due |-> NextDue(level, correct, LocalDay(hour)),
                       new |-> FALSE]]
    BY <1>3 DEF Study
  <2>2. [level |-> NextLevel(level, correct),
         due |-> NextDue(level, correct, LocalDay(hour)),
         new |-> FALSE] \in Scheduled
    BY <1>1, NextScheduled DEF Scheduled
  <2>3. QED
    BY <1>3, <2>1, <2>2 DEF Study, Outdate, TypeOK
<1>4. ASSUME NEW w \in WordIds, Retire(w) PROVE TypeOK'
  BY <1>4 DEF Retire, Outdate, TypeOK
<1>5. ASSUME NEW r \in Readers, FindReviewable(r) PROVE TypeOK'
  <2>1. PICK picked \in SUBSET DueWords :
           rows' = [rows EXCEPT ![r] =
                      {[w |-> w, level |-> word[w].level, due |-> word[w].due]
                          : w \in picked}]
    BY <1>5 DEF FindReviewable
  <2>2. {[w |-> w, level |-> word[w].level, due |-> word[w].due]
            : w \in picked} \in SUBSET Row
    BY <2>1 DEF DueWords, Live, Scheduled, Row
  <2>3. QED
    BY <1>5, <2>1, <2>2 DEF FindReviewable, TypeOK
<1>6. ASSUME NEW r \in Readers, PreloadWords(r) PROVE TypeOK'
  BY <1>6 DEF PreloadWords, TypeOK
<1>7. CASE Pass
  BY <1>7, ReviewListAssumption DEF Pass, Outdate, TypeOK
<1>8. ASSUME NEW r \in Readers, CountReviewable(r) PROVE TypeOK'
  BY <1>8, DueWordsFinite DEF CountReviewable, TypeOK
<1>9. CASE UNCHANGED vars
  BY <1>9 DEF vars, TypeOK
<1>10. QED
  BY <1>2, <1>3, <1>4, <1>5, <1>6, <1>7, <1>8, <1>9 DEF Next

(* The state keeps its type. *)
THEOREM TypeCorrect == Spec => []TypeOK
<1>1. Init => TypeOK
  BY DEF Init, TypeOK
<1>2. QED
  BY <1>1, TypeStep, PTL DEF Spec

-----------------------------------------------------------------------------
(***************************************************************************)
(* A new word can be listed at once.  Its due day is before the server's   *)
(* day when it is set, hence not after "today", and stays there while the  *)
(* clock runs.                                                             *)
(***************************************************************************)
NewIsPast ==
    \A w \in Live : word[w].new => word[w].due < LocalDay(hour)

LEMMA NewStep == TypeOK /\ NewIsPast /\ [Next]_vars => NewIsPast'
<1> SUFFICES ASSUME TypeOK, NewIsPast, [Next]_vars,
                    NEW v \in Live', word'[v].new
             PROVE  word'[v].due < LocalDay(hour')
  BY DEF NewIsPast
<1>1. LocalDay(hour) \in Int /\ LocalDay(hour') \in Int
      /\ LocalDay(hour) <= LocalDay(hour')
  <2>1. hour' = hour \/ hour' = hour + Tick
    BY DEF Next, vars, Learn, Study, Retire, FindReviewable, PreloadWords,
       CountReviewable, Pass
  <2>2. QED
    BY <2>1, TypeStep, TodayLag, DaysAdvance, ReviewListAssumption DEF TypeOK
<1>2. v \in WordIds /\ word' \in [WordIds -> Scheduled \cup {None, Gone}]
      /\ word'[v] \in Scheduled
  BY TypeStep DEF Live, TypeOK
<1>3. CASE word'[v] = word[v]
  BY <1>1, <1>2, <1>3 DEF NewIsPast, Live, Scheduled
<1>4. ASSUME NEW w \in WordIds, Learn(w), w = v
      PROVE  word'[v].due < LocalDay(hour')
  BY <1>1, <1>4 DEF Learn, FirstDue, TypeOK
<1>5. ASSUME NEW w \in WordIds, Study(w), w = v PROVE FALSE
  <2>1. PICK level \in Levels, correct \in BOOLEAN :
           word' = [word EXCEPT ![w] =
                      [level |-> NextLevel(level, correct),
                       due |-> NextDue(level, correct, LocalDay(hour)),
                       new |-> FALSE]]
    BY <1>5 DEF Study
  <2>2. word'[v].new = FALSE
    BY <1>5, <2>1 DEF TypeOK
  <2>3. QED
    BY <2>2
<1>6. ASSUME NEW w \in WordIds, Retire(w), w = v PROVE FALSE
  BY <1>2, <1>6, ReviewListSentinels DEF Retire, TypeOK
<1>7. ASSUME NEW w \in WordIds, w # v, Learn(w) \/ Study(w) \/ Retire(w)
      PROVE  word'[v] = word[v]
  BY <1>2, <1>7 DEF Learn, Study, Retire, TypeOK
<1>8. CASE \E w \in WordIds : Learn(w) \/ Study(w) \/ Retire(w)
  BY <1>3, <1>4, <1>5, <1>6, <1>7, <1>8
<1>9. CASE word' = word
  BY <1>3, <1>9
<1>10. QED
  BY <1>8, <1>9 DEF Next, vars, FindReviewable, PreloadWords,
       CountReviewable, Pass

(* A new word can be reviewed at any hour, in every time zone, although    *)
(* "today" is cut off at midnight UTC.                                     *)
THEOREM NewWordsListable == Spec => []NewWordsAreListable
<1>1. Init => TypeOK /\ NewIsPast
  BY ReviewListSentinels DEF Init, TypeOK, NewIsPast, Live
<1>2. TypeOK /\ NewIsPast => NewWordsAreListable
  BY TodayLag DEF TypeOK, NewIsPast, NewWordsAreListable, DueWords, Live,
     Scheduled
<1>3. QED
  BY <1>1, <1>2, TypeStep, NewStep, PTL DEF Spec

-----------------------------------------------------------------------------
(* In every time zone a word is listed less than a day after its day has   *)
(* begun: "today" is at most one day behind.                               *)
THEOREM AlmostOnTime == Spec => []LessThanADayLate
<1>1. TypeOK => LessThanADayLate
  BY TodayLag DEF TypeOK, LessThanADayLate, DueWords, Live, Scheduled
<1>2. QED
  BY <1>1, TypeCorrect, PTL

(* In every time zone a word is listed on the day of its review or later.  *)
THEOREM NotEarly == Spec => []NeverEarly
<1>1. Init => NeverEarly
  BY DEF Init, NeverEarly
<1>2. TypeOK /\ NeverEarly /\ [Next]_vars => NeverEarly'
  <2> SUFFICES ASSUME TypeOK, NeverEarly, [Next]_vars,
                      NEW r \in Readers, NEW row \in rows'[r] \cup list'[r]
               PROVE  row.due <= LocalDay(hour')
    BY DEF NeverEarly
  <2>1. /\ LocalDay(hour) \in Int /\ LocalDay(hour') \in Int
        /\ LocalDay(hour) <= LocalDay(hour')
        /\ row.due \in Int
    <3>1. hour' = hour \/ hour' = hour + Tick
      BY DEF Next, vars, Learn, Study, Retire, FindReviewable, PreloadWords,
         CountReviewable, Pass
    <3>2. row.due \in Int
      BY TypeStep DEF TypeOK, Row
    <3>3. hour \in Nat /\ hour' \in Nat /\ Tick \in Nat
      BY TypeStep, ReviewListAssumption DEF TypeOK
    <3>4. QED
      BY <3>1, <3>2, <3>3, TodayLag, DaysAdvance
  <2>2. CASE row \in rows[r] \cup list[r]
    BY <2>1, <2>2 DEF NeverEarly
  <2>3. CASE FindReviewable(r)
    <3>1. CASE row \in list'[r]
      BY <2>2, <2>3, <3>1 DEF FindReviewable
    <3>2. CASE row \in rows'[r]
      <4>1. PICK picked \in SUBSET DueWords :
               rows' = [rows EXCEPT ![r] =
                          {[w |-> w, level |-> word[w].level,
                            due |-> word[w].due] : w \in picked}]
        BY <2>3 DEF FindReviewable
      <4>2. PICK w \in picked : row = [w |-> w, level |-> word[w].level,
                                       due |-> word[w].due]
        BY <3>2, <4>1 DEF TypeOK
      <4>3. word[w].due <= Today(hour) /\ word[w].due \in Int
        BY DEF DueWords, Live, Scheduled
      <4>4. QED
        BY <2>1, <4>2, <4>3, TodayLag DEF TypeOK
    <3>3. QED
      BY <3>1, <3>2
  <2>4. row \in rows[r] \cup list[r] \/ FindReviewable(r)
    BY DEF Next, vars, Learn, Study, Retire, FindReviewable, PreloadWords,
       CountReviewable, Pass, TypeOK
  <2>5. QED
    BY <2>2, <2>3, <2>4
<1>3. QED
  BY <1>1, <1>2, TypeCorrect, PTL DEF Spec

-----------------------------------------------------------------------------
(***************************************************************************)
(* The summary and the list.  A summary that is not out of date counts the *)
(* words that are due now.                                                 *)
(***************************************************************************)
SummaryIsCurrent ==
    \A r \in Readers : summary[r] # None =>
        summary[r] = UpTo(SummaryLimit, Cardinality(DueWords))

\* Between the two statements of a list nothing is lost unless words change.
RowsAreCurrent ==
    \A r \in Readers : pc[r] = "preload" /\ summary[r] # None =>
        /\ \A row \in rows[r] : row.w \in Live
        /\ ReviewLimit <= SummaryLimit =>
              Cardinality(rows[r]) = UpTo(ReviewLimit, summary[r])

SummaryInv == TypeOK /\ SummaryIsCurrent /\ RowsAreCurrent

LEMMA CurrentStep ==
    TypeOK /\ SummaryIsCurrent /\ [Next]_vars => SummaryIsCurrent'
<1> SUFFICES ASSUME TypeOK, SummaryIsCurrent, [Next]_vars,
                    NEW r \in Readers, summary'[r] # None
             PROVE  summary'[r] = UpTo(SummaryLimit, Cardinality(DueWords'))
  BY DEF SummaryIsCurrent
<1>1. CASE Outdate
  BY <1>1 DEF Outdate
<1>2. ASSUME word' = word, Today(hour') = Today(hour)
      PROVE  DueWords' = DueWords
  BY <1>2 DEF DueWords, Live
<1>3. CASE word' = word /\ Today(hour') = Today(hour) /\ UNCHANGED summary
  BY <1>2, <1>3 DEF SummaryIsCurrent
<1>4. ASSUME NEW q \in Readers, CountReviewable(q)
      PROVE  summary'[r] = UpTo(SummaryLimit, Cardinality(DueWords'))
  BY <1>2, <1>4 DEF CountReviewable, SummaryIsCurrent, TypeOK
<1>5. QED
  BY <1>1, <1>3, <1>4
  DEF Next, vars, Learn, Study, Retire, FindReviewable, PreloadWords, Pass

\* The first statement returns as many rows as are due, up to its limit.
LEMMA RowsPicked ==
    ASSUME TypeOK, NEW r \in Readers, FindReviewable(r)
    PROVE  Cardinality(rows'[r]) = UpTo(ReviewLimit, Cardinality(DueWords))
<1> DEFINE row(w) == [w |-> w, level |-> word[w].level, due |-> word[w].due]
<1>1. PICK picked \in SUBSET DueWords :
         /\ Cardinality(picked) <= ReviewLimit
         /\ picked # DueWords => Cardinality(picked) = ReviewLimit
         /\ rows' = [rows EXCEPT ![r] = {row(w) : w \in picked}]
  BY DEF FindReviewable
<1>2. /\ IsFiniteSet(picked)
      /\ Cardinality(picked) \in Nat
      /\ Cardinality(picked) <= Cardinality(DueWords)
  BY DueWordsFinite, FS_Subset, FS_CardinalityType
<1>3. Cardinality({row(w) : w \in picked}) = Cardinality(picked)
  <2> DEFINE f == [w \in picked |-> row(w)]
             image == {row(w) : w \in picked}
  <2>1. f \in Bijection(picked, image)
    <3>1. f \in [picked -> image]
      OBVIOUS
    <3>2. ASSUME NEW v \in picked, NEW w \in picked, f[v] = f[w] PROVE v = w
      <4>1. row(v) = row(w)
        BY <3>2
      <4>2. QED
        BY <4>1
    <3>3. \A t \in image : \E w \in picked : f[w] = t
      OBVIOUS
    <3>4. DOMAIN f = picked
      OBVIOUS
    <3> HIDE DEF f, image
    <3>5. IsInjective(f)
      BY <3>2, <3>4 DEF IsInjective
    <3>6. QED
      BY <3>1, <3>3, <3>5 DEF Bijection, Injection, Surjection
  <2> HIDE DEF f
  <2>2. ExistsBijection(picked, image)
    BY <2>1 DEF ExistsBijection
  <2>3. QED
    BY <1>2, <2>2, FS_Bijection
<1>4. Cardinality(rows'[r]) = Cardinality(picked)
  BY <1>1, <1>3 DEF TypeOK
<1>5. Cardinality(picked) = UpTo(ReviewLimit, Cardinality(DueWords))
  BY <1>1, <1>2, DueWordsFinite, ReviewListAssumption DEF UpTo
<1>6. QED
  BY <1>4, <1>5

LEMMA SummaryStep == SummaryInv /\ [Next]_vars => SummaryInv'
<1> SUFFICES ASSUME SummaryInv, [Next]_vars,
                    NEW r \in Readers, pc'[r] = "preload", summary'[r] # None
             PROVE  /\ \A row \in rows'[r] : row.w \in Live'
                    /\ ReviewLimit <= SummaryLimit =>
                          Cardinality(rows'[r]) = UpTo(ReviewLimit, summary'[r])
  BY TypeStep, CurrentStep DEF SummaryInv, RowsAreCurrent
<1>1. CASE FindReviewable(r)
  <2>1. summary'[r] = UpTo(SummaryLimit, Cardinality(DueWords))
    BY <1>1 DEF FindReviewable, SummaryInv, SummaryIsCurrent
  <2>2. ReviewLimit <= SummaryLimit =>
           UpTo(ReviewLimit, summary'[r])
              = UpTo(ReviewLimit, Cardinality(DueWords))
    BY <2>1, DueWordsFinite, ReviewListAssumption DEF UpTo
  <2>3. \A row \in rows'[r] : row.w \in Live
    BY <1>1 DEF FindReviewable, DueWords, SummaryInv, TypeOK
  <2>4. Live' = Live
    BY <1>1 DEF FindReviewable, Live
  <2>5. QED
    BY <1>1, <2>2, <2>3, <2>4, RowsPicked DEF SummaryInv
<1>2. CASE /\ pc[r] = "preload" /\ rows'[r] = rows[r]
           /\ summary'[r] = summary[r] /\ word' = word
  BY <1>2 DEF SummaryInv, RowsAreCurrent, Live
<1>3. ASSUME Outdate PROVE FALSE
  BY <1>3 DEF Outdate
<1>4. QED
  BY <1>1, <1>2, <1>3 DEF Next, vars, Learn, Study, Retire, FindReviewable,
     PreloadWords, CountReviewable, Pass, SummaryInv, TypeOK

(* For every limit, time zone, set of words and sequence of steps the list *)
(* holds what the summary before it announced, as long as that is current. *)
THEOREM SummaryAgrees == Spec => SummaryMatchesList
<1>1. Init => SummaryInv
  BY DEF Init, SummaryInv, TypeOK, SummaryIsCurrent, RowsAreCurrent
<1>2. ASSUME SummaryInv, [Next]_vars, NEW r \in Readers,
             pc[r] = "preload", pc'[r] = "idle", summary[r] # None,
             ReviewLimit <= SummaryLimit
      PROVE  Cardinality(list'[r]) = UpTo(ReviewLimit, summary[r])
  <2>1. PreloadWords(r)
    BY <1>2 DEF Next, vars, Learn, Study, Retire, FindReviewable, PreloadWords,
       CountReviewable, Pass, SummaryInv, TypeOK
  <2>2. list'[r] = {row \in rows[r] : row.w \in Live}
    BY <1>2, <2>1 DEF PreloadWords, SummaryInv, TypeOK
  <2>3. list'[r] = rows[r]
    BY <1>2, <2>2 DEF SummaryInv, RowsAreCurrent
  <2>4. QED
    BY <1>2, <2>3 DEF SummaryInv, RowsAreCurrent
<1>3. SummaryInv /\ [Next]_vars =>
         [\A r \in Readers :
             pc[r] = "preload" /\ pc'[r] = "idle" /\ summary[r] # None
             /\ ReviewLimit <= SummaryLimit =>
                Cardinality(list'[r]) = UpTo(ReviewLimit, summary[r])]_vars
  BY <1>2
<1>4. QED
  BY <1>1, <1>3, SummaryStep, PTL DEF Spec, SummaryMatchesList

=============================================================================
