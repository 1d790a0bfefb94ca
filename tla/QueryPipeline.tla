--------------------------- MODULE QueryPipeline ---------------------------
(* The query pipeline (internal/graph, internal/rag), the semantic caches    *)
(* and the trace store.  A query runs the nodes of the graph one after the   *)
(* other; a failing node ends it.  The optimizer and the tutorials call the  *)
(* service itself (Execute): the same steps without graph and trace.  Vectors*)
(* are abstract: Near relates a question to the ones whose vectors pass the  *)
(* threshold.  Sets of chunks stand for ranked results, so that reranking,   *)
(* fusion and packing may drop any of them, and retrieval may find any of a  *)
(* base's chunks, whatever is ingested meanwhile.                            *)
EXTENDS Integers, FiniteSets

CONSTANTS
    QueryCall,      \* queries under way at one time
    QueryRequest,   \* [mode, namespace, base, text, profile, topK, scoped, trace]
    Chunk, BaseOf,  \* chunks and the base, of one tenant, each belongs to
    ItemChunk,      \* the source chunks of the offline item under evaluation
    RouteOf,        \* text -> none (no router), direct, single or multi
    Near,           \* pairs of texts with near vectors
    CacheBackend,   \* subset of {"memory", "qdrant"}
    MaxEntries,     \* max of the cache in memory
    MaxQueries,     \* bound: queries begun
    MaxQueryFaults  \* bound: failing calls

NoCall == "none"

ASSUME QueryAssumption == QueryRequest # {} /\ ItemChunk \subseteq Chunk /\ NoCall \notin QueryCall

VARIABLES
    backend,    \* the cache in use
    entries,    \* the semantic cache
    call,       \* [QueryCall -> State of its graph run]
    trace,      \* trace id -> the row and the spans of rag_traces
    lockedBy,   \* trace id -> the transaction that has updated the row
    queries, queryFaults

queryVars == <<backend, entries, call, trace, lockedBy, queries, queryFaults>>

TraceId == {r.trace : r \in QueryRequest}

NoResponse == [hit |-> FALSE, chunks |-> {}, citations |-> {}, made |-> {}]

NoTrace == [run |-> 0, nodes |-> 0, error |-> FALSE]
Untraced == [row |-> NoTrace, spans |-> NoTrace]

NewState(r, run) == [request |-> r, run |-> run, pc |-> "init", profile |-> "", topK |-> 0, route |-> "none",
                nodes |-> 0, error |-> FALSE, hit |-> FALSE, results |-> {}, citations |-> {},
                response |-> NoResponse, before |-> Untraced]

QueryInit ==
    /\ backend \in CacheBackend
    /\ entries = {}
    /\ call = [c \in QueryCall |-> [NewState(CHOOSE r \in QueryRequest : TRUE, 0) EXCEPT !.pc = "idle"]]
    /\ trace = [t \in TraceId |-> Untraced]
    /\ lockedBy = [t \in TraceId |-> NoCall]
    /\ queries = 0 /\ queryFaults = 0

QueryFault == queryFaults < MaxQueryFaults /\ queryFaults' = queryFaults + 1

AtNode(c, pc) == call[c].pc = pc
Graph(c) == call[c].request.mode = "graph"

\* withSpan: the node ends, its span is collected, the next one starts.
Step(c, next, st) ==
    /\ call' = [call EXCEPT ![c] = [st EXCEPT !.pc = next, !.nodes = @ + 1]]
    /\ UNCHANGED <<backend, trace, lockedBy, queries>>

\* A node returns an error: the graph stops, its trace is stored all the same.
Fails(c) ==
    /\ QueryFault
    /\ Step(c, IF Graph(c) THEN "trace" ELSE "done", [call[c] EXCEPT !.error = TRUE])
    /\ UNCHANGED entries

Quiet == UNCHANGED <<entries, queryFaults>>

------------------------------------------------------------------------------
\* Query: a request of a client, of an evaluation run or of a candidate.
Query(c, r) ==
    /\ call[c].pc \in {"idle", "done"} /\ queries < MaxQueries
    /\ queries' = queries + 1
    /\ call' = [call EXCEPT ![c] = NewState(r, queries + 1)]
    /\ UNCHANGED <<backend, trace, lockedBy>> /\ Quiet

\* Service.Profile: the requested profile, else the default.
Profile(requested) == IF requested = "" THEN "realtime" ELSE requested

DefaultTopK == 2

InitNode(c) ==
    LET r == call[c].request
    IN  /\ AtNode(c, "init")
        /\ Step(c, "route", [call[c] EXCEPT !.profile = Profile(r.profile),
                                            !.topK = IF r.topK > 0 THEN r.topK ELSE DefaultTopK])
        /\ Quiet

\* QueryRoute: a route decides over the requested profile.
RoutedProfile(route, profile) ==
    CASE route = "single" -> "realtime" [] route = "multi" -> "high_precision" [] OTHER -> profile

QueryRoute(c) ==
    LET route == RouteOf[call[c].request.text]
    IN  /\ AtNode(c, "route")
        /\ Step(c, "lookup", [call[c] EXCEPT !.route = route, !.profile = RoutedProfile(route, @)])
        /\ Quiet

\* What an entry is stored under; Execute and the graph use the same.  A text stands
\* for all its spellings (normalizeCacheQuery).  In memory the whole key is lower-cased;
\* ids are lower-case hexadecimal already, so bases stay apart, but candidates that a
\* client named in different cases would share a namespace.
CacheKey(st) == [namespace |-> st.request.namespace, base |-> st.request.base,
                 profile |-> st.profile, topK |-> st.topK, text |-> st.request.text]

\* semanticCacheLookupFilter: all but the text.
FilterMatches(key, k) ==
    /\ key.namespace = k.namespace /\ key.base = k.base
    /\ key.profile = k.profile /\ key.topK = k.topK

\* The entries a lookup may find: the one under the key in memory, the nearest
\* one above the threshold in Qdrant.
CacheHits(st) ==
    LET k == CacheKey(st)
    IN  IF backend = "memory" THEN {e \in entries : e.key = k}
        ELSE {e \in entries : FilterMatches(e.key, k) /\ <<k.text, e.key.text>> \in Near}

CachedResponse(e) == [e.response EXCEPT !.hit = TRUE]

SemanticCacheLookup(c) ==
    /\ AtNode(c, "lookup")
    /\ \/ /\ call[c].route = "direct" \/ CacheHits(call[c]) = {}
          /\ Step(c, "rewrite", call[c]) /\ Quiet
       \/ /\ call[c].route # "direct"
          /\ \E e \in CacheHits(call[c]) :
               Step(c, "rewrite", [call[c] EXCEPT !.hit = TRUE, !.response = CachedResponse(e)])
          /\ Quiet
       \* The lookup fails: a warning.
       \/ call[c].route # "direct" /\ QueryFault /\ Step(c, "rewrite", call[c]) /\ UNCHANGED entries
       \* The embedding fails.
       \/ call[c].route # "direct" /\ Fails(c)

\* The nodes that a hit, or the direct route, passes through.
Skips(c) == call[c].hit \/ call[c].route = "direct"

\* QueryRewrite and MultiQuery ask the model for other wordings.  Whatever it
\* answers, or fails to, the question itself is left to retrieve with.
QueryRewrite(c) == AtNode(c, "rewrite") /\ Step(c, "expand", call[c]) /\ Quiet
MultiQuery(c) == AtNode(c, "expand") /\ Step(c, "retrieve", call[c]) /\ Quiet

\* HybridRetriever: what either side finds in the base; one may fail.
RetrieveOne(st) == SUBSET {x \in Chunk : BaseOf[x] = st.request.base}

\* RetrieveExpanded: the best topK of what the wordings find, fused by RRF.
Retrieved(st) == {R \in SUBSET UNION RetrieveOne(st) : Cardinality(R) <= st.topK}

HybridRetrieve(c) ==
    /\ AtNode(c, "retrieve")
    /\ \/ Skips(c) /\ Step(c, "rerank", call[c]) /\ Quiet
       \/ /\ ~Skips(c)
          /\ \E R \in Retrieved(call[c]) : Step(c, "rerank", [call[c] EXCEPT !.results = R])
          /\ Quiet
       \/ ~Skips(c) /\ Fails(c)

\* ApplyRerank: in another order, without the indices out of range.
Rerank(c) ==
    /\ AtNode(c, "rerank")
    /\ \E R \in SUBSET call[c].results : Step(c, "pack", [call[c] EXCEPT !.results = R])
    /\ Quiet

\* Mutant: the sources of an item are read without the base.
InjectedAnywhere(st) == {{}, ItemChunk}

\* ApplyShadowRetrieval: the sources of a matching item, read anew, come first;
\* an error, or the configuration, leaves them out.  (Execute fails on an error of an
\* item in scope, but only the paired regression sets one, and it runs the graph.)
Injected(st) == {{}, {x \in ItemChunk : BaseOf[x] = st.request.base}}

\* Pack: the first results up to TopN and the token budget are cited.
ContextPack(c) ==
    /\ AtNode(c, "pack")
    /\ IF call[c].hit \/ call[c].results = {} THEN Step(c, "prefix", call[c])
       ELSE \E I \in Injected(call[c]) :
              LET R == call[c].results \cup I
              IN  \E cited \in {R} \cup {{x} : x \in R} \cup {{}} :
                    Step(c, "prefix", [call[c] EXCEPT !.results = R, !.citations = cited])
    /\ Quiet

PromptPrefixCache(c) == AtNode(c, "prefix") /\ Step(c, "generate", call[c]) /\ Quiet

\* ValidateCitations drops what was not retrieved; without results the answer
\* is the fixed one, on the direct route the model answers alone.
Generated(st) ==
    IF st.route = "direct" THEN NoResponse
    ELSE [hit |-> FALSE, chunks |-> st.results, citations |-> st.citations \cap st.results,
          made |-> {[key |-> CacheKey(st), scoped |-> st.request.scoped]}]

Generate(c) ==
    /\ AtNode(c, "generate")
    /\ \/ call[c].hit /\ Step(c, "write", call[c]) /\ Quiet
       \/ /\ ~call[c].hit
          /\ Step(c, "write", [call[c] EXCEPT !.response = Generated(call[c])]) /\ Quiet
       \/ ~call[c].hit /\ (call[c].route = "direct" \/ call[c].results # {}) /\ Fails(c)

\* Put: one entry goes, whichever, when the map is full.
Overfull == Cardinality(entries) >= MaxEntries

Kept(key) ==
    LET rest == {e \in entries : e.key # key}
    IN  IF backend = "memory" /\ Overfull THEN {entries \ {e} : e \in entries} ELSE {rest}

\* An answer without citations, or one that came from the cache, is not stored.
WorthStoring(st) == ~st.hit /\ st.response.citations # {}

SemanticCacheWrite(c) ==
    LET key == CacheKey(call[c])
        next == IF Graph(c) THEN "trace" ELSE "done"
    IN  /\ AtNode(c, "write")
        /\ \/ ~WorthStoring(call[c]) /\ Step(c, next, call[c]) /\ Quiet
           \/ /\ WorthStoring(call[c])
              /\ \E kept \in Kept(key) :
                   entries' = {e \in kept : e.key # key} \cup {[key |-> key, response |-> call[c].response]}
              /\ Step(c, next, call[c])
              /\ UNCHANGED queryFaults
           \* The write fails: a warning.
           \/ WorthStoring(call[c]) /\ QueryFault /\ Step(c, next, call[c]) /\ UNCHANGED entries

------------------------------------------------------------------------------
(* InvokeCompiled stores the trace on success and on error; StoreTrace is a  *)
(* transaction whose first statement writes, and locks, the row.             *)

TraceRecord(st) == [run |-> st.run, nodes |-> st.nodes, error |-> st.error]

RowFree(t) == lockedBy[t] = NoCall

UpsertTrace(c) ==
    LET t == call[c].request.trace
    IN  /\ AtNode(c, "trace") /\ RowFree(t)
        /\ trace' = [trace EXCEPT ![t].row = TraceRecord(call[c])]
        /\ lockedBy' = [lockedBy EXCEPT ![t] = c]
        /\ call' = [call EXCEPT ![c].pc = "spans", ![c].before = trace[t]]
        /\ UNCHANGED <<backend, queries>> /\ Quiet

\* The spans of the earlier query with this trace id go, the new ones come; COMMIT.
ReplaceSpans(c) ==
    LET t == call[c].request.trace
    IN  /\ AtNode(c, "spans")
        /\ trace' = [trace EXCEPT ![t].spans = TraceRecord(call[c])]
        /\ lockedBy' = [lockedBy EXCEPT ![t] = NoCall]
        /\ call' = [call EXCEPT ![c].pc = "done", ![c].before = Untraced]
        /\ UNCHANGED <<backend, queries>> /\ Quiet

\* A statement fails and the transaction is rolled back; the query's answer
\* carries a warning.
StoreTraceFails(c) ==
    LET t == call[c].request.trace
    IN  /\ call[c].pc \in {"trace", "spans"} /\ QueryFault
        /\ trace' = IF AtNode(c, "spans") THEN [trace EXCEPT ![t] = call[c].before] ELSE trace
        /\ lockedBy' = IF AtNode(c, "spans") THEN [lockedBy EXCEPT ![t] = NoCall] ELSE lockedBy
        /\ call' = [call EXCEPT ![c].pc = "done", ![c].before = Untraced]
        /\ UNCHANGED <<backend, queries, entries>>

NodeStep(c) ==
    \/ InitNode(c) \/ QueryRoute(c) \/ SemanticCacheLookup(c) \/ QueryRewrite(c) \/ MultiQuery(c)
    \/ HybridRetrieve(c) \/ Rerank(c) \/ ContextPack(c) \/ PromptPrefixCache(c) \/ Generate(c) \/ SemanticCacheWrite(c)
    \/ UpsertTrace(c) \/ ReplaceSpans(c) \/ StoreTraceFails(c)

QueryNext ==
    \E c \in QueryCall : NodeStep(c) \/ \E r \in QueryRequest : Query(c, r)

QuerySpec == QueryInit /\ [][QueryNext]_queryVars

------------------------------------------------------------------------------
QueryAnswered(c) == AtNode(c, "done") /\ ~call[c].error

\* An answer, computed or from the cache, holds chunks of the base the query
\* asked, of no other base and no other tenant's.
AnswerInBase ==
    \A c \in QueryCall : QueryAnswered(c) =>
        \A x \in call[c].response.chunks : BaseOf[x] = call[c].request.base

\* A hit is the answer to a question as near as the threshold asks, computed
\* with the profile, top_k and namespace of this query, and never the answer
\* given for want of context: what a candidate of the optimizer computed is
\* not served to clients.
HitMatches ==
    \A c \in QueryCall : QueryAnswered(c) /\ call[c].response.hit =>
        /\ call[c].response.citations # {}
        /\ \A m \in call[c].response.made :
             /\ FilterMatches(m.key, CacheKey(call[c]))
             /\ m.key.topK = call[c].topK /\ m.key.base = call[c].request.base
             /\ backend = "memory" => m.key.text = call[c].request.text

\* A trace shows one query: unless a transaction is under way, the row and the
\* spans under a trace id were written by the same run of the graph, also when
\* clients reuse the id.
TraceOfOneQuery == \A t \in TraceId : lockedBy[t] = NoCall => trace[t].row = trace[t].spans

\* Paired evaluation: an answer of the run with the optimization is computed
\* with the item in scope, one of the baseline without.
PairedAnswersDiffer ==
    \A c \in QueryCall : QueryAnswered(c) =>
        \A m \in call[c].response.made : m.scoped = call[c].request.scoped

\* Answer, cache entry and trace of a query are its own, whatever other queries
\* store and whichever trace ids they use.
AnswersAreOwn == AnswerInBase /\ HitMatches /\ TraceOfOneQuery
=============================================================================
