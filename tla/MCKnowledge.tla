---------------------------- MODULE MCKnowledge ----------------------------
(* The knowledge base, one part at a time: how documents come in and go, how *)
(* questions are answered, how the packs of documents are released, and what *)
(* the experiments on them measure.  Ingestion has a source with two         *)
(* contents, one with a single blank content and one without a URI; one      *)
(* version is active at first.                                               *)
EXTENDS KnowledgeIngest, QueryPipeline, PackRelease, TutorialExperiment, TLC

CONSTANTS s1, s2, s3, d1, d2, d3, d4, h1, h2, k1, k2, y1, y2, q1, x1, x2, b1, b2, txt1, txt2, txt3, m1, m2

OwnContent == s1 :> {d1, d2} @@ s2 :> {d3} @@ s3 :> {d4}
OneLoaded  == [d \in Doc |-> IF d = d1 THEN s1 ELSE None]

\* One process, ingestions against deletions of the base.
Alone(h) == [hosts |-> {h}, sources |-> {s1, s2}, deleters |-> Deleter, readers |-> {},
             ingests |-> 3, lostAcks |-> FALSE]

\* Two processes and a query; one source has no URI.
Beside == [hosts |-> Host, sources |-> {s1, s3}, deleters |-> {}, readers |-> Reader,
           ingests |-> 2, lostAcks |-> TRUE]

\* One process, one ingestion, a query and a deletion of the base.
Ending(h, x) == [hosts |-> {h}, sources |-> {s1}, deleters |-> {x}, readers |-> Reader,
                 ingests |-> 1, lostAcks |-> FALSE]

Deployments == {Alone(h) : h \in Host} \cup {Beside} \cup {Ending(h, y1) : h \in Host}

\* A chunk in each of two bases; questions without a route, complex, and direct.
ChunkBases == (x1 :> b1) @@ (x2 :> b2)
TextRoutes == (txt1 :> "none") @@ (txt2 :> "multi") @@ (txt3 :> "direct")
NearTexts == {txt1, txt2} \X {txt1, txt2}

Ask(kb, text, profile, topK, trc) ==
    [mode |-> "graph", namespace |-> "", base |-> kb, text |-> text, profile |-> profile,
     topK |-> topK, scoped |-> FALSE, trace |-> trc]

Questions == {Ask(b1, txt1, "", 0, 1), Ask(b2, txt1, "", 0, 1), Ask(b1, txt2, "", 1, 1),
              Ask(b1, txt1, "high_precision", 0, 2), Ask(b1, txt3, "", 0, 2),
              [Ask(b1, txt1, "", 0, 2) EXCEPT !.scoped = TRUE],
              [Ask(b1, txt1, "", 0, 2) EXCEPT !.mode = "execute", !.namespace = "candidate"]}

\* Two checkouts: an archive between texts the quick corpus has no room for,
\* and a first text that is larger than its budget.
SourceFile(isText, size) == [text |-> isText, bytes |-> size]
TwoCheckouts ==
    (m1 :> <<SourceFile(TRUE, 2), SourceFile(FALSE, 9), SourceFile(TRUE, 1), SourceFile(TRUE, 1)>>)
    @@ (m2 :> <<SourceFile(TRUE, 7), SourceFile(TRUE, 1)>>)

\* The pack of all chapters, and packs that are refused: a candidate that
\* changes two things, one under the name of another, one twice, and one that
\* needs a JSON document.
Chapter(v) == [id |-> v, chapter |-> v, set |-> Canonical[v]]
PackOf(candidates) == [profile |-> "realtime", topK |-> 5, json |-> TRUE, candidates |-> candidates]
Packs ==
    <<PackOf(<<Chapter("p1"), Chapter("p2"), Chapter("p3"), Chapter("p4"), Chapter("p5"), Chapter("p6"), Chapter("p7"),
              Chapter("p8")>>),
     PackOf(<<[Chapter("p4") EXCEPT !.set.rerank = TRUE]>>), PackOf(<<[Chapter("p3") EXCEPT !.id = "p2"]>>),
     PackOf(<<Chapter("p6"), Chapter("p6")>>), [PackOf(<<Chapter("p1")>>) EXCEPT !.json = FALSE]>>

CONSTANT Part   \* the parts to check

VARIABLE part

KnowledgeVars == <<vars, queryVars, packVars, experimentVars, part>>

KnowledgeInit ==
    /\ part \in Part
    /\ Init /\ QueryInit /\ PackInit /\ ExpInit
    /\ part # "ingest" => deployment = Beside
    /\ part # "query" => backend = "memory"

KnowledgeNext ==
    /\ \/ part = "ingest" /\ Next /\ UNCHANGED <<queryVars, packVars, experimentVars>>
       \/ part = "query" /\ QueryNext /\ UNCHANGED <<vars, packVars, experimentVars>>
       \/ part = "pack" /\ PackNext /\ UNCHANGED <<vars, queryVars, experimentVars>>
       \/ part = "experiment" /\ ExpNext /\ UNCHANGED <<vars, queryVars, packVars>>
    /\ UNCHANGED part

KnowledgeSpec == KnowledgeInit /\ [][KnowledgeNext]_KnowledgeVars

\* Only one part moves: the processes and callers of all parts may be exchanged
\* together.
Exchanges(S) == {f \in Permutations(S) : \A x \in S : f[x] # x}

Symmetry ==
    Permutations(Ingest) \cup {f @@ g @@ i @@ j : f \in Exchanges(Host), g \in Exchanges(ExpHost),
                                                i \in Exchanges(QueryCall), j \in Exchanges(PackExecutor)}
============================================================================
