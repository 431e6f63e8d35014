------------------------------ MODULE VocabRaces ------------------------------
(***************************************************************************)
(* What remains true of VocabStore when requests race.  No statement locks *)
(* what it reads, so that a request may act on rows that another has       *)
(* changed since: two live words of one term, a put that leaves a mixture, *)
(* a level that jumps.  A history variable remembers which requests that   *)
(* has happened to; the properties say that nobody else does any of it.    *)
(***************************************************************************)
EXTENDS VocabStore

VARIABLE overtaken  \* what the request in flight has read was changed since

raceVars == <<vars, overtaken>>

Edits == {"post", "put", "patch"}

\* r has passed CheckTermExists.
HasChecked(r) ==
    pc[r] \in {"insertWord", "insertProgress", "updateWord", "rereadWord",
               "commit"}

\* What o is about to commit bears on what r has read.
Concerns(o, r) ==
    \/ /\ req[o].op \in Edits /\ req[r].op \in Edits
       /\ \/ req[o].w = req[r].w /\ found[r] # None
          \/ wput[o].term = req[r].term /\ HasChecked(r)
    \/ /\ req[o].op = "review" /\ req[r].op = "review"
       /\ req[o].w = req[r].w /\ plan[r] # None

Commits(o) ==
    /\ pc[o] = "commit" /\ pc'[o] = "idle"
    /\ <<words, prog>>' # <<words, prog>>

Observe ==
    overtaken' = [r \in Reqs |->
        /\ pc[r] # "idle" /\ pc'[r] # "idle"
        /\ overtaken[r] \/ \E o \in Reqs \ {r} : Commits(o) /\ Concerns(o, r)]

RaceInit == Init /\ overtaken = [r \in Reqs |-> FALSE]

RaceNext == Next /\ Observe

RaceSpec == RaceInit /\ [][RaceNext]_raceVars

-----------------------------------------------------------------------------
SameLiveTerm(v, w) ==
    IsLive(words[v]) /\ IsLive(words[w]) /\ words[v].term = words[w].term

(* A second live word of a term only arises when a post, put or patch      *)
(* commits after another one committed that term behind its check: edits   *)
(* that follow each other keep terms unique, and so does every other       *)
(* interleaving with reviews, deletes, failures and retries.               *)
DuplicateOnlyIfOvertaken ==
    [][\A v, w \in WordIds :
          v # w /\ SameLiveTerm(v, w)' /\ ~SameLiveTerm(v, w) =>
             \E r \in Reqs : Commits(r) /\ overtaken[r]]_raceVars

(* A put that answers 200 leaves the word exactly as its body says, unless *)
(* another edit of the word committed after the put had read it.           *)
PutReplacesUnlessOvertaken ==
    [][\A r \in Reqs :
          Answered(r, "200") /\ req[r].op = "put" /\ ~overtaken[r] =>
             /\ words'[req[r].w].term = req[r].term
             /\ words'[req[r].w].def = req[r].def]_raceVars

(* Across any number of reviews, days and lost answers, a level climbs     *)
(* more than one rung only in the commit of a review that had read the row *)
(* before another review changed it.                                       *)
JumpOnlyIfOvertaken ==
    [][\A w \in WordIds :
          prog[w] # None /\ prog'[w] # None
          /\ prog'[w].level > prog[w].level + 1 =>
             \E r \in Reqs : Commits(r) /\ overtaken[r] /\ req[r].w = w]_raceVars
=============================================================================
