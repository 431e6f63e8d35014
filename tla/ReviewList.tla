------------------------------ MODULE ReviewList ------------------------------
(***************************************************************************)
(* GET /reviews beside the requests that change the words: GetReviewWords  *)
(* in internal/service/review_service.go over FindReviewableByTenant in    *)
(* internal/repository/progress_repository.go.  It is not a transaction:   *)
(* one statement picks the rows that are due, at most the limit, in random *)
(* order, and a second one (Preload) fetches their words.                  *)
(*                                                                         *)
(* The summary (GetReviewWordsCount) is the length of that first statement *)
(* with another limit.                                                     *)
(*                                                                         *)
(* Words change here in the indivisible steps that VocabStore is shown to  *)
(* amount to.  Time is counted in hours of UTC: next_review_date is a DATE *)
(* of the server's time zone, while "today" is cut off at midnight UTC.    *)
(***************************************************************************)
EXTENDS ReviewSchedule, FiniteSets

CONSTANTS
    WordIds,
    Readers,      \* requests that list the words to review
    ReviewLimit,  \* config App.ReviewLimit
    SummaryLimit, \* the limit of the summary, 9999 in the code
    Offset,       \* hours by which the server's time zone is ahead of UTC
    Tick,         \* hours between two moments a run looks at
    MaxHour,      \* bound on the clock
    None, Gone    \* a word not yet posted, a word deleted; no summary

ASSUME ReviewListAssumption ==
    /\ IsFiniteSet(WordIds)
    /\ ReviewLimit \in Nat
    /\ SummaryLimit \in Nat
    /\ Offset \in -12..14
    /\ Tick \in Nat
    /\ MaxHour \in Nat

\* new marks a word that has not been reviewed yet (last_reviewed_at IS NULL).
Scheduled == [level: Levels, due: Int, new: BOOLEAN]

ASSUME ReviewListSentinels ==
    /\ None \notin Scheduled
    /\ Gone \notin Scheduled

Row == [w: WordIds, level: Levels, due: Int]

VARIABLES
    hour,
    word,   \* by word: None, Gone, or the progress of a live word
    pc,     \* "idle" or "preload"
    rows,   \* what the first statement of a reader returned
    list,   \* what the reader answered last
    summary \* the count it answered last, None once that is out of date

vars == <<hour, word, pc, rows, list, summary>>

Init ==
    /\ hour = 0
    /\ word = [w \in WordIds |-> None]
    /\ pc = [r \in Readers |-> "idle"]
    /\ rows = [r \in Readers |-> {}]
    /\ list = [r \in Readers |-> {}]
    /\ summary = [r \in Readers |-> None]

-----------------------------------------------------------------------------
\* The calendar day of the server at hour h; day 0 may begin before hour 0.
LocalDay(h) == (h + Offset) \div 24

\* Mutant: rounded instead of truncated.
TodayRounded(h) == LocalDay(((h + 12) \div 24) * 24)

\* today.Truncate(24 * time.Hour) counts from midnight UTC; the driver sends
\* the calendar day of that instant in the server's time zone.
Today(h) == LocalDay((h \div 24) * 24)

\* LIMIT.
UpTo(limit, n) == IF n <= limit THEN n ELSE limit

Live == {w \in WordIds : word[w] \in Scheduled}

\* Mutant: the comparison leaves the day itself out.
DueWordsStrict == {w \in Live : word[w].due < Today(hour)}

DueWords == {w \in Live : word[w].due <= Today(hour)}

\* A summary is about the words as they were when it was counted.
Outdate == summary' = [r \in Readers |-> None]

Learn(w) ==
    /\ word[w] = None
    /\ word' = [word EXCEPT ![w] = [level |-> 1,
                                    due |-> FirstDue(LocalDay(hour)),
                                    new |-> TRUE]]
    /\ Outdate
    /\ UNCHANGED <<hour, pc, rows, list>>

\* The level a review goes by may be one it read before another review.
Study(w) ==
    /\ w \in Live
    /\ \E level \in Levels, correct \in BOOLEAN :
          word' = [word EXCEPT ![w] =
                      [level |-> NextLevel(level, correct),
                       due |-> NextDue(level, correct, LocalDay(hour)),
                       new |-> FALSE]]
    /\ Outdate
    /\ UNCHANGED <<hour, pc, rows, list>>

Retire(w) ==
    /\ w \in Live
    /\ word' = [word EXCEPT ![w] = Gone]
    /\ Outdate
    /\ UNCHANGED <<hour, pc, rows, list>>

\* ORDER BY RANDOM() LIMIT ReviewLimit: any of the due words, up to the limit.
FindReviewable(r) ==
    /\ pc[r] = "idle"
    /\ \E picked \in SUBSET DueWords :
          /\ Cardinality(picked) <= ReviewLimit
          /\ picked # DueWords => Cardinality(picked) = ReviewLimit
          /\ rows' = [rows EXCEPT ![r] =
                        {[w |-> w, level |-> word[w].level, due |-> word[w].due]
                            : w \in picked}]
    /\ pc' = [pc EXCEPT ![r] = "preload"]
    /\ UNCHANGED <<hour, word, list, summary>>

\* Preload finds live words only, and GetReviewWords skips a row without one.
PreloadWords(r) ==
    /\ pc[r] = "preload"
    /\ list' = [list EXCEPT ![r] = {row \in rows[r] : row.w \in Live}]
    /\ pc' = [pc EXCEPT ![r] = "idle"]
    /\ rows' = [rows EXCEPT ![r] = {}]
    /\ UNCHANGED <<hour, word, summary>>

\* Mutant: counts up to the day of the server, not up to "today".
CountReviewableLocally(r) ==
    LET due == {w \in Live : word[w].due <= LocalDay(hour)}
    IN  /\ pc[r] = "idle"
        /\ summary' = [summary EXCEPT ![r] = UpTo(SummaryLimit, Cardinality(due))]
        /\ UNCHANGED <<hour, word, pc, rows, list>>

\* GET /reviews/summary: the length of the same first statement.
CountReviewable(r) ==
    /\ pc[r] = "idle"
    /\ summary' = [summary EXCEPT ![r] =
                      UpTo(SummaryLimit, Cardinality(DueWords))]
    /\ UNCHANGED <<hour, word, pc, rows, list>>

Pass ==
    /\ hour + Tick <= MaxHour
    /\ hour' = hour + Tick
    /\ IF Today(hour') = Today(hour) THEN UNCHANGED summary ELSE Outdate
    /\ UNCHANGED <<word, pc, rows, list>>

Next == \/ \E w \in WordIds : Learn(w) \/ Study(w) \/ Retire(w)
        \/ \E r \in Readers :
              FindReviewable(r) \/ PreloadWords(r) \/ CountReviewable(r)
        \/ Pass

Spec == Init /\ [][Next]_vars

-----------------------------------------------------------------------------
TypeOK ==
    /\ hour \in Nat
    /\ word \in [WordIds -> Scheduled \cup {None, Gone}]
    /\ pc \in [Readers -> {"idle", "preload"}]
    /\ rows \in [Readers -> SUBSET Row]
    /\ list \in [Readers -> SUBSET Row]
    /\ summary \in [Readers -> Int \cup {None}]

(* A new word can be reviewed at any hour in any time zone, from the moment *)
(* it is posted: its due day is yesterday, and "today" is never more than a *)
(* day behind the day of the server.                                        *)
NewWordsAreListable ==
    \A w \in Live : word[w].new => w \in DueWords

(* No word comes up before the day of its review in the server's time      *)
(* zone, neither in a list being put together nor in one answered.         *)
NeverEarly ==
    \A r \in Readers :
        \A row \in rows[r] \cup list[r] : row.due <= LocalDay(hour)

(* Cutting the day off at midnight UTC delays a word by less than a day.   *)
LessThanADayLate ==
    \A w \in Live : word[w].due < LocalDay(hour) => w \in DueWords

(* The summary and the list agree: unless a word or "today" changed since  *)
(* the summary, whatever the hour, the list that is answered holds as many *)
(* words as were counted, or as fit; none is dropped between its two       *)
(* statements.                                                             *)
SummaryMatchesList ==
    [][\A r \in Readers :
          pc[r] = "preload" /\ pc'[r] = "idle" /\ summary[r] # None
          /\ ReviewLimit <= SummaryLimit =>
             Cardinality(list'[r]) = UpTo(ReviewLimit, summary[r])]_vars

(* A word can be reviewed from the first hour of its day on ("the          *)
(* beginning (00:00:00) of today"): true in UTC only.                      *)
DueFromMidnight ==
    \A w \in Live : word[w].due <= LocalDay(hour) => w \in DueWords
=============================================================================
