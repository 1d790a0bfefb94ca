-------------------------- MODULE EvaluationMetrics --------------------------
(* The numbers of an evaluation (internal/eval): the metrics of one item and *)
(* the paired comparison of two runs.  A quotient is kept as its numerator   *)
(* and denominator; the discount 1/log2(rank+1) is a table in thousandths.   *)
EXTENDS Integers, Sequences, FiniteSets, SequencesExt, FiniteSetsExt

CONSTANTS
    EvalDoc,     \* documents
    EvalChunk,   \* [id, hash, text, doc, source]: chunks a query may retrieve, "" for what one has not
    MaxRetrieved,\* bound: results of one query
    AspectsOf,   \* [references -> aspects]: the annotations of an item
    EvalItem,    \* dataset items of a comparison
    ItemWeight,  \* [EvalItem -> Nat \ {0}]
    ItemValue    \* values an item's metric may have

VARIABLES
    sample,  \* an item's relevant documents and what its query returned
    scores,  \* its metrics
    pairing  \* two runs to compare by a metric, and the decision

metricVars == <<sample, scores, pairing>>

------------------------------------------------------------------------------
\* results[:k], all of them when k is zero or too large.
retrievalLimit(n, k) == IF k <= 0 \/ k > n THEN n ELSE k

rankDiscount == <<1000, 631, 500, 431, 387>>

DiscountSum(ranks) == SumSet({rankDiscount[r] : r \in ranks})

\* Mutant: a relevant document counts every time one of its chunks appears.
HitRanksRepeated(relevant, results, limit) == {r \in 1..limit : results[r].doc \in relevant}

\* The ranks at which a relevant document appears for the first time.
HitRanks(relevant, results, limit) ==
    {r \in 1..limit : /\ results[r].doc \in relevant
                      /\ \A s \in 1..(r - 1) : results[s].doc # results[r].doc}

\* idealRetrievalDCG: the relevant documents first.
idealRetrievalDCG(n, limit) == DiscountSum(1..(IF limit <= 0 \/ limit > n THEN n ELSE limit))

\* precisionSum over a common denominator: 60 is divisible by every rank.
PrecisionSum(ranks) ==
    FoldSet(LAMBDA r, acc : acc + (60 * Cardinality({s \in ranks : s <= r})) \div r, 0, ranks)

retrievalMetrics(relevant, results, k) ==
    LET ranks == HitRanks(relevant, results, retrievalLimit(Len(results), k))
    IN  [hits |-> Cardinality(ranks), of |-> Cardinality(relevant),
         failed |-> relevant # {} /\ ranks = {},
         first |-> IF ranks = {} THEN 0 ELSE Min(ranks),
         precision |-> PrecisionSum(ranks),
         dcg |-> DiscountSum(ranks),
         ideal |-> idealRetrievalDCG(Cardinality(relevant), retrievalLimit(Len(results), k))]

\* contextRecall looks at all results, not at the first k.
contextRecall(relevant, results) ==
    IF relevant = {} THEN [hits |-> IF results = << >> THEN 0 ELSE 1, of |-> 1]
    ELSE [hits |-> Cardinality({results[i].doc : i \in DOMAIN results} \cap relevant), of |-> Cardinality(relevant)]

citationPrecision(relevant, cited) ==
    [hits |-> IF relevant = {} THEN Len(cited) ELSE Len(SelectSeq(cited, LAMBDA d : d \in relevant)), of |-> Len(cited)]

\* duplicateKey: the chunk, else the hash in its metadata, else its text with
\* the document or the source it is from; none without a text.
duplicateKey(c) ==
    CASE c.id # "" -> <<"chunk", c.id>>
      [] c.id = "" /\ c.hash # "" -> <<"metadata", c.hash>>
      [] c.id = "" /\ c.hash = "" /\ c.text = "" -> << >>
      [] OTHER -> CASE c.doc # "" -> <<"doc_text", c.doc, c.text>>
                    [] c.doc = "" /\ c.source # "" -> <<"source_text", c.source, c.text>>
                    [] OTHER -> <<"text", c.text>>

duplicateChunkCount(results) ==
    LET keyed == SelectSeq(results, LAMBDA c : duplicateKey(c) # << >>)
    IN  Len(keyed) - Cardinality({duplicateKey(keyed[i]) : i \in DOMAIN keyed})

------------------------------------------------------------------------------
\* labelsForSearchResult: the aspects of a chunk and of its document.
AspectsFor(c) == UNION {AspectsOf[r] : r \in DOMAIN AspectsOf \cap {c.id, c.doc}}

AllAspects == UNION {AspectsOf[r] : r \in DOMAIN AspectsOf}

\* alphaGain with alpha one half: an aspect counts half after every repetition.
alphaGain(labels, seen) == FoldSet(LAMBDA a, acc : acc + (8 \div (2^seen[a])), 0, labels)

Seen(ranked, n) == [a \in AllAspects |-> Cardinality({i \in 1..(n - 1) : a \in ranked[i]})]

alphaDCG(ranked) ==
    FoldSet(LAMBDA i, acc : acc + alphaGain(ranked[i], Seen(ranked, i)) * rankDiscount[i], 0, DOMAIN ranked)

\* greedyIdealAlphaDCG: references in the order of a greedy choice.  Ties are
\* broken by the order of a map, which is not fixed.
GreedyOrders(k) ==
    {o \in UNION {[1..n -> DOMAIN AspectsOf] : n \in 0..k} :
        LET ranked == [i \in DOMAIN o |-> AspectsOf[o[i]]]
            left(i) == DOMAIN AspectsOf \ {o[j] : j \in 1..(i - 1)}
        IN  /\ \A i \in DOMAIN o : o[i] \in left(i)
            /\ \A i \in DOMAIN o : \A r \in left(i) :
                 alphaGain(AspectsOf[r], Seen(ranked, i)) <= alphaGain(AspectsOf[o[i]], Seen(ranked, i))
            /\ Len(o) = k \/ Len(o) = Cardinality(DOMAIN AspectsOf)}

\* ScoreDiversity.
Diversity(results, k) ==
    LET limit == retrievalLimit(Len(results), k)
        ranked == [i \in 1..limit |-> AspectsFor(results[i])]
    IN  {[covered |-> UNION {ranked[i] : i \in DOMAIN ranked}, dcg |-> alphaDCG(ranked),
          ideal |-> alphaDCG([i \in DOMAIN o |-> AspectsOf[o[i]]])] : o \in GreedyOrders(limit)}

NoScores == [kind |-> "none"]

\* ScoreItemWithOptions: the answer of a query is scored against the item.
ScoreItem(relevant, results, cited, k) ==
    /\ sample' = [relevant |-> relevant, results |-> results, cited |-> cited, k |-> k]
    /\ \E d \in Diversity(results, k) :
         scores' = [kind |-> "scores", ranking |-> retrievalMetrics(relevant, results, k),
                    recall |-> contextRecall(relevant, results), citations |-> citationPrecision(relevant, cited),
                    duplicates |-> duplicateChunkCount(results), diversity |-> d]
    /\ UNCHANGED pairing

------------------------------------------------------------------------------
\* defaultMetricMetadata: what a higher value of an aggregated metric means.
MetricDirections == {"higher_is_better", "lower_is_better"}

\* The fingerprint of a run that was stored without one.
NoFingerprint == 0

\* ComparePairedMetrics: the items both runs measured, of the frozen dataset
\* and with the annotations the metric needs.
Pairs(b, c, labelled) == {<<b[i], c[i], i>> : i \in DOMAIN c \cap DOMAIN b \cap labelled}

\* The sign of a weighted mean of deltas is the one of their sum.
ResampleDelta(draw) == FoldSeq(LAMBDA p, acc : acc + ItemWeight[p[3]] * (p[2] - p[1]), 0, draw)

\* bootstrapPairedDelta: two of the deltas of resampled pairs.
Intervals(pairs) ==
    LET draws == [1..Cardinality(pairs) -> pairs]
        deltas == {ResampleDelta(d) : d \in draws}
    IN  {<<lo, hi>> \in deltas \X deltas : lo <= hi}

\* summarizePairedMetric.
DecisionOf(pairs, interval) ==
    IF Cardinality(pairs) < 2 THEN "insufficient_sample"
    ELSE IF interval[1] >= 0 THEN "improved"
    ELSE IF interval[2] < 0 THEN "regressed" ELSE "inconclusive"

\* CompareRuns: a difference in dataset, split, base or judge, and a run
\* stored without a fingerprint of them.
Comparable(b, c) == b.inputs # NoFingerprint /\ c.inputs = b.inputs

\* compareEvaluation, for two runs of one project that the caller may read:
\* only comparable ones are compared.  The catalog gives every metric a
\* direction; the comparison does not ask for it.
CompareEvaluation(b, c, labelled, direction) ==
    /\ IF ~Comparable(b, c)
       THEN pairing' = [b |-> b, c |-> c, labelled |-> labelled, direction |-> direction, decision |-> "not_comparable"]
       ELSE \E interval \in Intervals(Pairs(b.values, c.values, labelled)) :
              pairing' = [b |-> b, c |-> c, labelled |-> labelled, direction |-> direction,
                          decision |-> DecisionOf(Pairs(b.values, c.values, labelled), interval)]
    /\ UNCHANGED <<sample, scores>>

------------------------------------------------------------------------------
Runs == [inputs : {NoFingerprint, 1, 2}, values : UNION {[S -> ItemValue] : S \in SUBSET EvalItem}]

MetricsInit ==
    /\ sample = [relevant |-> {}, results |-> << >>, cited |-> << >>, k |-> 0]
    /\ scores = NoScores
    /\ pairing = [b |-> [inputs |-> 1, values |-> << >>], c |-> [inputs |-> 1, values |-> << >>],
                  labelled |-> {}, direction |-> "higher_is_better", decision |-> "open"]

\* One item scored or two runs compared.
MetricsNext ==
    /\ scores = NoScores /\ pairing.decision = "open"
    /\ \/ \E relevant \in SUBSET EvalDoc, n \in 0..MaxRetrieved, k \in 0..(MaxRetrieved - 1) :
            \E results \in [1..n -> EvalChunk], cited \in {<< >>} \cup {<<d>> : d \in EvalDoc} :
                ScoreItem(relevant, results, cited, k)
       \/ \E b \in {r \in Runs : r.inputs # 2} : \E c \in {r \in Runs : r.inputs \in {b.inputs, 2}} :
            \E labelled \in SUBSET EvalItem, direction \in MetricDirections : CompareEvaluation(b, c, labelled, direction)

------------------------------------------------------------------------------
\* A result that the ranking metrics should prefer is never scored lower:
\* moving the chunk of a relevant document one place up, in front of one of a
\* document that is not relevant, lowers neither nDCG, precision nor
\* reciprocal rank; and nDCG is never above one.
RankingRewardsOrder ==
    scores # NoScores =>
        LET m == scores.ranking
        IN  /\ m.dcg <= m.ideal \/ sample.relevant = {}
            /\ \A i \in 1..(Len(sample.results) - 1) :
                 LET up == [sample.results EXCEPT ![i] = sample.results[i + 1], ![i + 1] = sample.results[i]]
                     better == retrievalMetrics(sample.relevant, up, sample.k)
                 IN  sample.results[i].doc \notin sample.relevant /\ sample.results[i + 1].doc \in sample.relevant =>
                       /\ better.dcg >= m.dcg /\ better.precision >= m.precision /\ better.hits >= m.hits
                       /\ m.first = 0 \/ better.first <= m.first

\* What is counted as a duplicate repeats an earlier result: with all of them
\* taken out, the same documents and chunks remain.
DuplicatesAreRepeats ==
    scores # NoScores =>
        scores.duplicates = Cardinality({i \in DOMAIN sample.results :
            \E j \in 1..(i - 1) : duplicateKey(sample.results[i]) = duplicateKey(sample.results[j])
                                  /\ duplicateKey(sample.results[i]) # << >>})

\* Repeating aspects does not pay: a chunk all of whose aspects appeared
\* before it adds nothing to the coverage and at most half of what it would
\* have added to the gain in first position.
RepeatsGainLess ==
    scores # NoScores =>
        LET limit == retrievalLimit(Len(sample.results), sample.k)
            ranked == [i \in 1..limit |-> AspectsFor(sample.results[i])]
            before == SubSeq(ranked, 1, limit - 1)
            earlier == UNION {before[i] : i \in DOMAIN before}
        IN  limit > 0 /\ ranked[limit] \subseteq earlier =>
              /\ scores.diversity.covered = earlier
              /\ 2 * (scores.diversity.dcg - alphaDCG(before)) <= 8 * Cardinality(ranked[limit]) * rankDiscount[limit]

\* The decision follows the values of the items both runs measured, whatever
\* the resampling draws, and items only one run measured have no say.  Where a
\* higher value is better, worse on every item is regressed, and worse on none,
\* equal runs included, is improved.  Where a lower value is better (latency_ms,
\* redundancy_rate) the words change sides, because the comparison takes
\* candidate minus baseline for every metric: better on every item is called
\* regressed, and better on none improved.
DecisionIsUnanimous ==
    pairing.decision \in {"improved", "regressed", "inconclusive"} =>
        LET both == DOMAIN pairing.b.values \cap DOMAIN pairing.c.values \cap pairing.labelled
            higher == pairing.direction = "higher_is_better"
            Worse(i) == IF higher THEN pairing.c.values[i] < pairing.b.values[i] ELSE pairing.c.values[i] > pairing.b.values[i]
            Better(i) == IF higher THEN pairing.c.values[i] > pairing.b.values[i] ELSE pairing.c.values[i] < pairing.b.values[i]
        IN  /\ higher => /\ (\A i \in both : Worse(i)) => pairing.decision = "regressed"
                         /\ (\A i \in both : ~Worse(i)) => pairing.decision = "improved"
            /\ ~higher => /\ (\A i \in both : Better(i)) => pairing.decision = "regressed"
                          /\ (\A i \in both : ~Better(i)) => pairing.decision = "improved"

\* The metrics of an item reward a better order and new aspects and take
\* repetitions as such; the decision between two runs follows the values of a
\* metric, which is a judgement only where a higher value is the better one.
MetricsReward == RankingRewardsOrder /\ DuplicatesAreRepeats /\ RepeatsGainLess /\ DecisionIsUnanimous
============================================================================
