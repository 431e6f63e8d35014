---------------------------- MODULE ReviewSchedule ----------------------------
(***************************************************************************)
(* The levels of a word and the day of its next review                     *)
(* (calculateNextProgress in internal/service/review_service.go).  A word  *)
(* without a progress row counts as level 1.                               *)
(***************************************************************************)
EXTENDS Integers

Levels == 1..3

\* Mutant: the top level is not capped.
NextLevelUncapped(level, correct) == IF correct THEN level + 1 ELSE 1

\* Mutant: a correct answer at level 1 goes straight to the top.
NextLevelSkips(level, correct) == IF correct THEN 3 ELSE 1

NextLevel(level, correct) ==
    IF ~correct THEN 1 ELSE IF level = 3 THEN 3 ELSE level + 1

\* Days until the next review after a correct answer.
Interval == [level \in Levels |->
                IF level = 1 THEN 3 ELSE IF level = 2 THEN 7 ELSE 14]

NextDue(level, correct, today) ==
    IF correct THEN today + Interval[level] ELSE today - 1

\* Mutant: a new word is due on the day itself.
FirstDueToday(today) == today

\* PostWord: a new word is due since yesterday.
FirstDue(today) == today - 1
=============================================================================
