---------------------------- MODULE EvaluationRun ----------------------------
(***************************************************************************)
(* Runner.Run: an evaluation run reads its dataset, answers and judges     *)
(* every item, and only then writes its rows, one statement each: the run, *)
(* its judge runs, the results, the judge results, the pairwise results.   *)
(* Items may be added to the dataset meanwhile; every query, judge call    *)
(* and write may fail, and what was written before a failure stays.        *)
(***************************************************************************)
EXTENDS Integers, FiniteSets

CONSTANTS
    EvalItem,    \* dataset items
    Holdout,     \* those of the split a request may ask for
    EvalID,      \* evaluation run identifiers
    JudgeSets    \* the sets of judges a request may ask for

Judge == {"judge", "qag", "pairwise"}

ASSUME EvaluationAssumption == Holdout \subseteq EvalItem /\ JudgeSets \subseteq SUBSET Judge

VARIABLES
    dataset,     \* items of the dataset
    evaluation,  \* Runner.Run in flight, or how it ended
    rows         \* the rows stored for every run

evaluationVars == <<dataset, evaluation, rows>>

\* summary and items are what the two reads of the dataset returned.
NoEvaluation == [step |-> "idle", split |-> FALSE, judges |-> {}, summary |-> {},
                 items |-> {}, answered |-> {}]

EvaluationInit ==
    /\ dataset = {}
    /\ evaluation = [r \in EvalID |-> NoEvaluation]
    /\ rows = [r \in EvalID |-> {}]

-----------------------------------------------------------------------------

AddItem(i) ==
    /\ i \notin dataset
    /\ dataset' = dataset \cup {i}
    /\ UNCHANGED <<evaluation, rows>>

Goto(r, rec) ==
    /\ evaluation' = [evaluation EXCEPT ![r] = rec]
    /\ UNCHANGED <<dataset, rows>>

InSplit(S, split) == IF split THEN S \cap Holdout ELSE S

\* The whole dataset is read for the summary of its splits; a request for a
\* split reads its items in a second statement.
ReadItems(r, split, judges) ==
    /\ evaluation[r].step = "idle"
    /\ Goto(r, [NoEvaluation EXCEPT !.step = IF split THEN "split" ELSE "check", !.split = split,
                                    !.judges = judges, !.summary = InSplit(dataset, split),
                                    !.items = InSplit(dataset, split)])

ReadSplit(r) ==
    /\ evaluation[r].step = "split"
    /\ Goto(r, [evaluation[r] EXCEPT !.step = "check", !.items = InSplit(dataset, TRUE)])

\* Without items the run is refused, unless it asks for a split under a
\* holdout gate: then its only row is the run, marked as missing its split.
CheckItems(r) ==
    /\ evaluation[r].step = "check"
    /\ \E gate \in BOOLEAN :
         Goto(r, [evaluation[r] EXCEPT !.step =
                    CASE evaluation[r].items # {} -> "answer"
                      [] evaluation[r].items = {} /\ evaluation[r].split /\ gate -> "store"
                      [] OTHER -> "failed",
                    !.judges = IF evaluation[r].items = {} THEN {} ELSE @])

\* The next item is answered, scored and judged; any error ends the run with
\* nothing stored.
AnswerItem(r) ==
    /\ evaluation[r].step = "answer"
    /\ \/ \E i \in evaluation[r].items \ evaluation[r].answered :
            Goto(r, [evaluation[r] EXCEPT !.answered = @ \cup {i}])
       \/ Goto(r, [evaluation[r] EXCEPT !.step = "failed"])

AllAnswered(e) == e.answered = e.items

BeginStore(r) ==
    /\ evaluation[r].step = "answer"
    /\ AllAnswered(evaluation[r])
    /\ Goto(r, [evaluation[r] EXCEPT !.step = "store"])

Row(rank, judge, item) == [rank |-> rank, judge |-> judge, item |-> item]
RunRow == Row(1, {}, {})

\* The rows of a run, by their rank in the order of the writes.
Writes(e) ==
    {RunRow}
    \cup {Row(2, {j}, {}) : j \in e.judges}
    \cup {Row(3, {}, {i}) : i \in e.items}
    \cup {Row(4, {j}, {i}) : j \in e.judges \ {"pairwise"}, i \in e.items}
    \cup {Row(5, {j}, {i}) : j \in e.judges \cap {"pairwise"}, i \in e.items}

\* Mutant: rows in any order.
AnyOrder(w, left) == TRUE

InOrder(w, left) == \A x \in left : w.rank <= x.rank

\* One write, or its failure, which ends the run and leaves the rows before it.
StoreRow(r) ==
    /\ evaluation[r].step = "store"
    /\ LET left == Writes(evaluation[r]) \ rows[r]
       IN  \/ \E w \in left :
                /\ InOrder(w, left)
                /\ rows' = [rows EXCEPT ![r] = @ \cup {w}]
                /\ UNCHANGED <<dataset, evaluation>>
           \/ left # {} /\ Goto(r, [evaluation[r] EXCEPT !.step = "failed"])
           \/ left = {} /\ Goto(r, [evaluation[r] EXCEPT !.step = "returned"])

EvaluationNext ==
    \/ \E i \in EvalItem : AddItem(i)
    \/ \E r \in EvalID :
         \/ \E split \in BOOLEAN, judges \in JudgeSets : ReadItems(r, split, judges)
         \/ ReadSplit(r) \/ CheckItems(r) \/ AnswerItem(r) \/ BeginStore(r) \/ StoreRow(r)

EvaluationSpec == EvaluationInit /\ [][EvaluationNext]_evaluationVars

-----------------------------------------------------------------------------
(***************************************************************************)
(* Properties                                                              *)
(***************************************************************************)

\* A run that can be looked up, compared or used as release evidence answered
\* and judged every item it counts: an error in the middle leaves no run row.
RunRowEarned ==
    \A r \in EvalID : RunRow \in rows[r] => evaluation[r].answered = evaluation[r].items

\* A reader of the details never meets an orphan, whatever write failed: no
\* row without its run, no judge result without its judge run and the result
\* of its item.
DetailHasParents ==
    \A r \in EvalID : \A w \in rows[r] :
        /\ RunRow \in rows[r]
        /\ w.rank \in {4, 5} => Row(2, w.judge, {}) \in rows[r] /\ Row(3, {}, w.item) \in rows[r]

\* A run reported to its caller has a result and a verdict of every judge it
\* asked for, for every item.
ReturnedIsComplete ==
    \A r \in EvalID :
        evaluation[r].step = "returned" =>
            \A i \in evaluation[r].items :
                /\ Row(3, {}, {i}) \in rows[r]
                /\ \A j \in evaluation[r].judges :
                     Row(4, {j}, {i}) \in rows[r] \/ Row(5, {j}, {i}) \in rows[r]

\* The split summary of a run never counts an item the run did not evaluate:
\* the summary is read first and items are only ever added.
SummaryCovered ==
    \A r \in EvalID :
        evaluation[r].step \notin {"idle", "split", "failed"} =>
            evaluation[r].summary \subseteq evaluation[r].items

\* Whichever query, judgement or write fails: a row of the run was written after all
\* its items were answered, no detail is stored before its parent, and what Runner.Run
\* returns is complete.
StoredRunIsWhole == RunRowEarned /\ DetailHasParents /\ ReturnedIsComplete /\ SummaryCovered
=============================================================================
