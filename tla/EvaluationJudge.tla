--------------------------- MODULE EvaluationJudge ---------------------------
(* The judge of an evaluation (internal/eval/llm_judge.go): one call of      *)
(* Judge, Compare or ScoreQAG asks a model several times and aggregates what *)
(* it says.  Every attempt takes from one budget; any error that is not      *)
(* retried ends the call without a result.  One metric stands for the map of *)
(* scores; scores and preference strengths are integers, Whole is 1.0.       *)
EXTENDS Integers, Sequences, FiniteSetsExt, SequencesExt

CONSTANTS
    JudgeConf,     \* [ask, models, repeat, swap, retries, circuit, maxCalls]
    ScoreAnswer,   \* [scored, score, label]: what a model may say of an answer
    PairAnswer,    \* [winner, preference]: what it may say of two
    ClaimAnswer    \* [claims, score]: the claims it may find, a sequence of verdicts

\* A judge has a model; a negative number of retries is none.
ASSUME JudgeAssumption ==
    /\ JudgeConf \subseteq
         [ask : {"score", "pairwise", "qag"}, models : Nat \ {0}, repeat : Int, swap : BOOLEAN,
          retries : Nat, circuit : Int, maxCalls : Int]
    /\ ScoreAnswer \subseteq [scored : BOOLEAN, score : Int, label : STRING]
    /\ PairAnswer \subseteq [winner : STRING, preference : STRING]
    /\ ClaimAnswer \subseteq [claims : Seq(STRING), score : Int]

VARIABLE judging  \* the call: configuration, where it is, what it heard

Whole == 20

NoResult == [kind |-> "none"]

JudgeInit == judging = [pc |-> "idle", conf |-> NoResult, attempt |-> 0, used |-> 0, sent |-> 0,
                        heard |-> << >>, outputs |-> << >>, result |-> NoResult]

max1(n) == IF n > 1 THEN n ELSE 1

Fails(j) == [j EXCEPT !.pc = "failed"]

\* Judge, Compare, ScoreQAG up to the first call, or an error: no model, a
\* prompt that cannot be rendered.
StartJudge(c) ==
    /\ judging.pc = "idle"
    /\ judging' \in {[judging EXCEPT !.pc = "call", !.conf = c], Fails(judging)}

------------------------------------------------------------------------------
\* parseJudgeOutput: normalizeScores with clamp01, coarseLabel.
clamp01(x) == IF x < 0 THEN 0 ELSE IF x > Whole THEN Whole ELSE x

coarseLabel(x) == IF 10 * x >= 8 * Whole THEN "good" ELSE IF 2 * x >= Whole THEN "mixed" ELSE "bad"

parseJudgeOutput(r) ==
    LET x == clamp01(r.score)
    IN  [scored |-> r.scored, score |-> x,
         label |-> IF r.label = "" /\ r.scored THEN coarseLabel(x) ELSE r.label]

\* Place n of the values of f in ascending order, and the middle of them.
Sorted(f, n) ==
    CHOOSE x \in Range(f) :
        Cardinality({i \in DOMAIN f : f[i] < x}) < n /\ n <= Cardinality({i \in DOMAIN f : f[i] <= x})

median(f) ==
    LET n == Cardinality(DOMAIN f)
        mid == n \div 2
    IN  IF n % 2 = 1 THEN Sorted(f, mid + 1) ELSE (Sorted(f, mid) + Sorted(f, mid + 1)) \div 2

Votes(votes, x) == Cardinality({i \in DOMAIN votes : votes[i] = x})

\* The order of strings, for the labels and winners of this model.
Alphabet == <<"", "A", "B", "bad", "good", "mixed", "tie">>
Before(a, b) == \E i \in 1..Len(Alphabet) : \E k \in (i + 1)..Len(Alphabet) : Alphabet[i] = a /\ Alphabet[k] = b

\* majorityLabel, majorityWinner: most votes, then the smaller string.
MostVoted(votes) ==
    IF votes = << >> THEN ""
    ELSE CHOOSE x \in Range(votes) : \A y \in Range(votes) \ {x} :
             Votes(votes, x) > Votes(votes, y) \/ (Votes(votes, x) = Votes(votes, y) /\ Before(x, y))

aggregateJudgeOutputs(outputs) ==
    LET scored == {i \in DOMAIN outputs : outputs[i].scored}
        labelled == {i \in DOMAIN outputs : outputs[i].label # ""}
    IN  [kind |-> "score", scored |-> scored # {},
         score |-> IF scored = {} THEN 0 ELSE median([i \in scored |-> outputs[i].score]),
         label |-> MostVoted([i \in labelled |-> outputs[i].label])]

------------------------------------------------------------------------------
\* preferenceStrength: what the model wrote, else half a point for the winner.
preferenceStrength(o) ==
    CASE o.preference = "A_much_better" -> Whole
      [] o.preference = "A_better" -> Whole \div 2
      [] o.preference = "B_better" -> -(Whole \div 2)
      [] o.preference = "B_much_better" -> -Whole
      [] OTHER -> IF o.winner = "A" THEN Whole \div 2 ELSE IF o.winner = "B" THEN -(Whole \div 2) ELSE 0

\* Mutant: the answer to the exchanged question is taken as it is.
mapSwappedWinnerNot(w) == w

mapSwappedWinner(w) == IF w = "A" THEN "B" ELSE IF w = "B" THEN "A" ELSE w

mapSwappedPairwise(o) ==
    [winner |-> mapSwappedWinner(o.winner),
     preference |-> CASE o.preference = "A_much_better" -> "B_much_better"
                      [] o.preference = "A_better" -> "B_better"
                      [] o.preference = "B_better" -> "A_better"
                      [] o.preference = "B_much_better" -> "A_much_better"
                      [] OTHER -> o.preference]

pairwiseAgrees(a, b) ==
    \/ a.winner = "tie" /\ b.winner = "tie"
    \/ a.winner = b.winner /\ a.preference # "" /\ b.preference # ""

\* comparePair: one order, or both.
OneOrder(o) == [winner |-> o.winner, preference |-> o.preference, stable |-> TRUE]

BothOrders(first, exchanged) ==
    LET swapped == mapSwappedPairwise(exchanged)
        stable == pairwiseAgrees(first, swapped)
    IN  [winner |-> first.winner, preference |-> IF stable THEN first.preference ELSE "unstable", stable |-> stable]

Stable(outputs) == {i \in DOMAIN outputs : outputs[i].stable}

Abs(n) == IF n < 0 THEN -n ELSE n

\* The size of averagePreferenceStrength, times the number of outputs.
StrengthSum(outputs) == Abs(MapThenSumSet(LAMBDA i : preferenceStrength(outputs[i]), Stable(outputs)))

preferenceFromWinnerAndStrength(winner, sum, n) ==
    IF winner = "tie" \/ 4 * sum < Whole * n THEN "tie"
    ELSE IF 4 * sum >= 3 * Whole * n
    THEN IF winner = "A" THEN "A_much_better" ELSE "B_much_better"
    ELSE IF winner = "A" THEN "A_better" ELSE "B_better"

\* A majority of all comparisons.
Majority(count, outputs) == count > 0 /\ count * 2 > Len(outputs)

aggregatePairwiseOutputs(outputs) ==
    LET votes == [i \in Stable(outputs) |-> outputs[i].winner]
        winner == MostVoted(votes)
    IN  IF Len(outputs) = 1
        THEN [kind |-> "pair", winner |-> outputs[1].winner, stable |-> outputs[1].stable,
              preference |-> outputs[1].preference]
        ELSE IF Majority(Votes(votes, winner), outputs)
        THEN [kind |-> "pair", winner |-> winner, stable |-> TRUE,
              preference |-> preferenceFromWinnerAndStrength(winner, StrengthSum(outputs), Cardinality(Stable(outputs)))]
        ELSE [kind |-> "pair", winner |-> "tie", stable |-> FALSE, preference |-> "unstable"]

\* The metric of the item: only stable verdicts are scored.
PairwiseMetric(result) ==
    IF ~result.stable THEN {}
    ELSE {CASE result.winner = "A" -> Whole [] result.winner = "tie" -> Whole \div 2 [] OTHER -> 0}

------------------------------------------------------------------------------
\* parseQAGOutput: a verdict that is none of the three is an error; without
\* claims the score is the one the model wrote.
QAGVerdicts == {"supported", "contradicted", "unverifiable"}

summarizeQAGClaims(r) ==
    LET n == Len(r.claims)
    IN  [kind |-> "qag", claims |-> r.claims,
         score |-> IF n = 0 THEN clamp01(r.score) ELSE (Whole * Votes(r.claims, "supported")) \div n,
         unverifiable |-> IF n = 0 THEN 0 ELSE (Whole * Votes(r.claims, "unverifiable")) \div n]

------------------------------------------------------------------------------
\* Comparisons of a Compare call, scores of a Judge call.
Wanted(c) == IF c.ask = "pairwise" THEN c.models * max1(c.repeat) ELSE IF c.ask = "score" THEN max1(c.repeat) ELSE 1

\* The second order of a comparison is still to be asked.
AwaitsSwap(j) == j.conf.ask = "pairwise" /\ j.conf.swap /\ Len(j.heard) % 2 = 1

Output(j) ==
    LET n == Len(j.heard)
    IN  CASE j.conf.ask = "score" -> parseJudgeOutput(j.heard[n])
          [] j.conf.ask = "pairwise" -> IF j.conf.swap THEN BothOrders(j.heard[n - 1], j.heard[n]) ELSE OneOrder(j.heard[n])
          [] j.conf.ask = "qag" -> summarizeQAGClaims(j.heard[n])

Aggregate(c, outputs) ==
    CASE c.ask = "score" -> aggregateJudgeOutputs(outputs)
      [] c.ask = "pairwise" -> aggregatePairwiseOutputs(outputs)
      [] c.ask = "qag" -> outputs[1]

\* An answer that parses: the next question, or the aggregate of all.
Hears(j, r) ==
    LET h == [j EXCEPT !.heard = Append(@, r), !.attempt = 0]
        o == IF AwaitsSwap(h) THEN h ELSE [h EXCEPT !.outputs = Append(@, Output(h))]
    IN  IF Len(o.outputs) < Wanted(o.conf) THEN o
        ELSE [o EXCEPT !.pc = "done", !.result = Aggregate(o.conf, o.outputs)]

\* Decoded strictly: an unknown field, text after the object, or a verdict or
\* winner that is none of the allowed ones is an error, like no JSON at all.
Parses(j, r) ==
    CASE j.conf.ask = "score" -> TRUE
      [] j.conf.ask = "pairwise" -> r.winner \in {"A", "B", "tie"}
      [] j.conf.ask = "qag" -> ToSet(r.claims) \subseteq QAGVerdicts

Sayings(c) == CASE c.ask = "score" -> ScoreAnswer [] c.ask = "pairwise" -> PairAnswer [] c.ask = "qag" -> ClaimAnswer

\* judgeCallLimiter.take.
Used(j) == j.used + 1

Exhausted(j) == j.conf.maxCalls > 0 /\ j.used >= j.conf.maxCalls

\* The end of an attempt that failed with a rate limit or an outage: the last
\* one, the one that opens the circuit breaker, or a wait.
Retries(j) ==
    IF j.attempt >= j.conf.retries \/ (j.conf.circuit > 0 /\ j.attempt + 1 >= j.conf.circuit) THEN Fails(j)
    ELSE [j EXCEPT !.pc = "wait", !.attempt = @ + 1]

\* callChat: one attempt.
JudgeChat ==
    /\ judging.pc = "call"
    /\ \/ Exhausted(judging) /\ judging' = Fails(judging)
       \/ /\ ~Exhausted(judging)
          /\ LET j == [judging EXCEPT !.used = Used(judging), !.sent = @ + 1]
             IN  \/ \E r \in Sayings(j.conf) : judging' = IF Parses(j, r) THEN Hears(j, r) ELSE Fails(j)
                 \/ judging' = Fails(j)
                 \/ judging' = Retries(j)

\* sleepWithContext.
JudgeBackoff == judging.pc = "wait" /\ judging' \in {[judging EXCEPT !.pc = "call"], Fails(judging)}

JudgeNext == (\E c \in JudgeConf : StartJudge(c)) \/ JudgeChat \/ JudgeBackoff

JudgeSpec == JudgeInit /\ [][JudgeNext]_judging

------------------------------------------------------------------------------
\* A call asks no more than its budget allows, retries included, and no more
\* than the retries of every question it has to ask.
JudgeCallsBounded ==
    judging.pc # "idle" /\ judging.conf # NoResult =>
        LET c == judging.conf
            questions == Wanted(c) * (IF c.ask = "pairwise" /\ c.swap THEN 2 ELSE 1)
        IN  /\ c.maxCalls > 0 => judging.sent <= c.maxCalls
            /\ judging.sent <= questions * (c.retries + 1)

\* The answer the model named in comparison i, or "" when its two orders name
\* different ones.
Named(i) ==
    IF ~judging.conf.swap THEN judging.heard[i].winner
    ELSE LET a == judging.heard[2 * i - 1].winner
             b == judging.heard[2 * i].winner
         IN  IF a = "tie" /\ b = "tie" THEN "tie"
             ELSE IF {a, b} = {"A", "B"} THEN a ELSE ""

\* The primary pairwise metric of an item says that an answer won only if
\* more than half of the comparisons named it, in both orders when the orders
\* are exchanged: a model that prefers the first place scores nothing.
ScoredWinnerHasMajority ==
    judging.pc = "done" /\ judging.result.kind = "pair" =>
        \A m \in PairwiseMetric(judging.result) :
            LET w == CASE m = Whole -> "A" [] m = 0 -> "B" [] OTHER -> "tie"
            IN  2 * Cardinality({i \in 1..Len(judging.outputs) : Named(i) = w}) > Len(judging.outputs)

\* An aggregated score does not follow a minority: what more than half of the
\* scores reach, it reaches, and it stays between 0 and 1.
MedianFollowsMajority ==
    judging.pc = "done" /\ judging.result.kind = "score" /\ judging.result.scored =>
        LET scored == {i \in 1..Len(judging.outputs) : judging.outputs[i].scored}
            atLeast(t) == {i \in scored : judging.outputs[i].score >= t}
            atMost(t) == {i \in scored : judging.outputs[i].score <= t}
        IN  /\ judging.result.score \in 0..Whole
            /\ \A t \in 0..Whole :
                 /\ 2 * Cardinality(atLeast(t)) > Cardinality(scored) => judging.result.score >= t
                 /\ 2 * Cardinality(atMost(t)) > Cardinality(scored) => judging.result.score <= t

\* A claim that is contradicted or cannot be verified keeps the score below
\* one, and supported and unverifiable shares do not overlap.
ClaimsKeepScoreDown ==
    judging.pc = "done" /\ judging.result.kind = "qag" /\ judging.result.claims # << >> =>
        /\ judging.result.score + judging.result.unverifiable <= Whole
        /\ (\E i \in 1..Len(judging.result.claims) : judging.result.claims[i] # "supported") => judging.result.score < Whole

\* A verdict is what the models said, within the budget: no minority, no first
\* place and no unsupported claim decides it (Judge, Compare, ScoreQAG).
VerdictIsHeard == JudgeCallsBounded /\ ScoredWinnerHasMajority /\ MedianFollowsMajority /\ ClaimsKeepScoreDown
============================================================================
