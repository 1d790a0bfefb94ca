--------------------------- MODULE MCOptimizerRun ---------------------------
(* One run, executed by a first task and, after Resume, by others.  All    *)
(* tasks lock the run.                                                     *)
EXTENDS OptimizerRun, TLC

CONSTANTS t1, t2, t3, w1, w2, optimizer, theRun, u1, u2

MCPoolOf == [t \in Task |-> optimizer]
MCResourceOf == [t \in Task |-> theRun]
MCConcurrency == [p \in Pool |-> 1]

\* Another process takes the task over while the first is still writing.
TakingOver(t) == [workers |-> Worker, cancelOnStop |-> {optimizer}, tasks |-> {t},
                  handled |-> Task, expires |-> "anytime", requests |-> 0]

\* One process, two requests of operators, tasks for two resumes: of one caller after
\* the other, or of two callers that read the same run.
Resuming(w) == [workers |-> {w}, cancelOnStop |-> {optimizer}, tasks |-> Task,
                handled |-> Task, expires |-> "unrenewed", requests |-> 2]

\* Scores that differ: a failed run is resumed, or a task is leased again.
Ranking == {[Resuming(w) EXCEPT !.requests = 1] : w \in Worker}
             \cup {[TakingOver(t) EXCEPT !.expires = "unrenewed"] : t \in Task}

\* No lease expires under its holder.
Losing == [TakingOver(t1) EXCEPT !.expires = "abandoned"]
Cancelling == [TakingOver(t1) EXCEPT !.expires = "unrenewed", !.requests = 1]

SafetySettings == {TakingOver(t) : t \in Task} \cup {Resuming(w) : w \in Worker} \cup Ranking
LivenessSettings == {Losing}
OrphanSettings == {Cancelling}

\* Scores that differ matter to the choice of the best candidate only.
MCMaxScore == [s \in Setting |-> IF s \in Ranking THEN 2 ELSE 1]

\* One call fails, except where leases expire at any time and where an operator
\* cancels a run that is taken over.
MCMaxCallErrors == [s \in Setting |-> IF s.expires = "anytime" \/ s = Cancelling THEN 0 ELSE 1]

\* The settings treat all workers and all tasks alike.
Symmetry == Permutations(Worker) \cup Permutations(Task) \cup Permutations(User)
=============================================================================
