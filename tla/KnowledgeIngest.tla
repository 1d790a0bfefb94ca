--------------------------- MODULE KnowledgeIngest ---------------------------
(***************************************************************************)
(* One knowledge base, kept in two stores that share no transaction: the   *)
(* documents and chunks rows in PostgreSQL, whose searchable flag decides  *)
(* what a query may see, and the points in Qdrant, which dense retrieval   *)
(* searches.  Ingest (internal/ingest/service.go) writes a new version of  *)
(* a source through the staged protocol of kb.CompositeIndexer: store,     *)
(* prepare, commit, finalize, or abort.  DeleteKnowledgeBase empties the   *)
(* cache, then the points, then the rows.  Retrieve reads pages of points  *)
(* and filters each one against PostgreSQL; the answer made of them goes   *)
(* into the cache.                                                         *)
(*                                                                         *)
(* A document is identified by its content (documentID hashes it), so Doc  *)
(* stands for the contents as well.  The chunks of one document move       *)
(* together and are one value here.  The searchable payload that Qdrant    *)
(* keeps beside a point is never read by a query and is left out; the      *)
(* calls that write it remain, as calls that may fail.                     *)
(***************************************************************************)
EXTENDS Naturals, FiniteSets

CONSTANTS
    Ingest,      \* concurrent ingestion requests
    Deleter,     \* concurrent DELETE requests for the knowledge base
    Reader,      \* concurrent dense queries
    Host,        \* owners of a sourceLocks map: processes, variant services
    Source,      \* source URIs
    NoURI,       \* the empty URI, which replaces nothing
    Doc,         \* documents, by content
    Blank,       \* contents that split into no chunk
    ContentOf,   \* ContentOf[s]: the contents that source s takes over time
    Preloaded,   \* [Doc -> Source \cup {None}]: the active versions at first
    None,        \* no row, no point
    MaxFaults,   \* bound: failing calls and crashes
    MaxPages,    \* pages of points one query reads
    Deployment   \* who runs beside whom; see the variable deployment

ASSUME IngestAssumption ==
    /\ Blank \subseteq Doc
    /\ ContentOf \in [Source -> SUBSET Doc]
    /\ Preloaded \in [Doc -> Source \cup {None}]
    /\ None \notin Source /\ IsFiniteSet(Host)
    /\ MaxFaults \in Nat /\ MaxPages \in Nat
    /\ Deployment \subseteq
         [hosts : SUBSET Host, sources : SUBSET Source, deleters : SUBSET Deleter,
          readers : SUBSET Reader, ingests : Nat, lostAcks : BOOLEAN]

VARIABLES
    deployment, \* the hosts, sources, requests and bound on ingestions of this
              \* behaviour, and whether the answer of a COMMIT may be lost
    base,     \* the knowledge_bases row exists
    docs,     \* documents: source_uri of each row, None where there is none
    chunks,   \* chunks of each document: none, staged or searchable
    points,   \* Qdrant points: source_uri of each document's, or None
    cached,   \* the semantic cache: the queries whose answers it holds, None
              \* for an answer from before
    req,      \* the ingestion requests
    del,      \* the DELETE requests
    query,    \* the dense queries
    begun,    \* ingestions begun
    faults,   \* failing calls and crashes so far
    late      \* history: the points and answers written after a deletion had
              \* cleaned their store

store == <<base, docs, chunks, points, cached, late>>
vars  == <<deployment, base, docs, chunks, points, cached, req, del, query, begun, faults, late>>

IdleRequest == [pc |-> "idle", host |-> None, source |-> None, doc |-> None,
                prior |-> {}, job |-> "none"]

Init ==
    /\ deployment \in Deployment
    /\ base = TRUE
    /\ docs = Preloaded
    /\ chunks = [d \in Doc |-> IF Preloaded[d] = None THEN "none" ELSE "searchable"]
    /\ points = Preloaded
    /\ cached = {None}
    /\ req = [k \in Ingest |-> IdleRequest]
    /\ del = [x \in Deleter |-> [pc |-> "idle", answer |-> "none"]]
    /\ query = [q \in Reader |-> [pc |-> "idle", page |-> {}, pages |-> 0, results |-> {}]]
    /\ begun = 0
    /\ faults = 0
    /\ late = [points |-> {}, answers |-> {}]

-----------------------------------------------------------------------------
(* What the stores hold.                                                   *)

(* FilterSearchableChunkIDs: PostgreSQL alone decides what is active.      *)
Searchable == {d \in Doc : chunks[d] = "searchable"}
Active(s)  == {d \in Searchable : docs[d] = s}

(* Mutant: the candidate is not looked for.                                *)
CandidateAssumed(d) == d \in Doc

(* deleteDocumentSource: the other documents of the source, none for "".   *)
Superseded(s, d) == IF s = NoURI THEN {} ELSE {e \in Doc \ {d} : docs[e] = s}

(* documentSourceExceptDocumentFilter: the points finalization removes.    *)
Obsolete(s, d) == IF s = NoURI THEN {} ELSE {e \in Doc \ {d} : points[e] = s}

(* The candidate check of CommitActivation: its row and its chunks exist.  *)
CandidateExists(d) == docs[d] # None /\ chunks[d] # "none"

(* AbortActivation deletes the chunks that are not searchable ...          *)
Abandoned(d) == IF chunks[d] = "staged" THEN "none" ELSE chunks[d]

(* A deletion that goes on, at one of pcs, or that is over will not clean  *)
(* again what is written now.                                              *)
CleanedBefore(pcs) == ~base \/ \E x \in Deleter : del[x].pc \in pcs

Without(f, gone, value) == [d \in Doc |-> IF d \in gone THEN value ELSE f[d]]

-----------------------------------------------------------------------------
(* Ingest.                                                                 *)

At(k, pc) == req[k].pc = pc
Goto(k, pc) == req' = [req EXCEPT ![k].pc = pc]
Others == UNCHANGED <<del, query, begun>>

(* The request waits outside of its source's mutex in these two places.    *)
HoldsLock(k) == req[k].pc \notin {"idle", "lock"}

LockFree(k) ==
    \A j \in Ingest \ {k} :
        HoldsLock(j) => req[j].host # req[k].host \/ req[j].source # req[k].source

Fault == faults < MaxFaults /\ faults' = faults + 1

(* Ingest: the knowledge base exists; queue for the source's mutex.        *)
Begin(k, h, s, d) ==
    /\ At(k, "idle") /\ begun < deployment.ingests
    /\ base
    /\ req' = [req EXCEPT ![k] = [IdleRequest EXCEPT !.pc = "lock", !.host = h,
                                                     !.source = s, !.doc = d]]
    /\ begun' = begun + 1
    /\ UNCHANGED <<store, del, query, faults>>

(* CreateJob, which the foreign key refuses once the base is gone.         *)
CreateJob(k) ==
    /\ At(k, "lock") /\ LockFree(k)
    /\ req' = [req EXCEPT ![k] =
         IF base THEN [@ EXCEPT !.pc = "stage", !.job = "running",
                                !.prior = Active(req[k].source)]
                 ELSE [@ EXCEPT !.pc = "idle"]]
    /\ UNCHANGED <<store, faults>> /\ Others

(* Repository.Store with StageChunks: the row takes the new source_uri at  *)
(* once; chunks that exist keep their searchable flag.                     *)
StageDocument(k) ==
    LET d == req[k].doc IN
    /\ At(k, "stage")
    /\ IF base
       THEN /\ docs' = [docs EXCEPT ![d] = req[k].source]
            /\ chunks' = [chunks EXCEPT ![d] =
                            IF @ = "none" /\ d \notin Blank THEN "staged" ELSE @]
            /\ Goto(k, "vectors")
       ELSE Goto(k, "fail") /\ UNCHANGED <<docs, chunks>>
    /\ UNCHANGED <<base, points, cached, late, faults>> /\ Others

(* VectorStore.Store: one upsert of the points, nothing without chunks,    *)
(* and nothing that asks whether the base still exists.                    *)
StageVectors(k) ==
    LET d == req[k].doc IN
    /\ At(k, "vectors")
    /\ points' = [points EXCEPT ![d] = IF d \in Blank THEN @ ELSE req[k].source]
    /\ late' = [late EXCEPT !.points =
                  IF d \in Blank THEN @ ELSE IF CleanedBefore({"rows"}) THEN @ \cup {d} ELSE @ \ {d}]
    /\ Goto(k, "prepare")
    /\ UNCHANGED <<base, docs, chunks, cached, faults>> /\ Others

(* PrepareActivation writes the payload only.                              *)
Prepare(k) ==
    /\ At(k, "prepare")
    /\ Goto(k, "commit")
    /\ UNCHANGED <<store, faults>> /\ Others

(* The transaction of Repository.CommitActivation.                         *)
Activated(s, d) ==
    /\ docs' = Without(docs, Superseded(s, d), None)
    /\ chunks' = [Without(chunks, Superseded(s, d), "none") EXCEPT ![d] = "searchable"]

CommitActivation(k) ==
    LET d == req[k].doc IN
    /\ At(k, "commit")
    /\ \/ d \in Blank /\ Goto(k, "finalize") /\ UNCHANGED <<docs, chunks>>
       \/ /\ d \notin Blank /\ CandidateExists(d)
          /\ Activated(req[k].source, d)
          /\ Goto(k, "finalize")
       \/ /\ d \notin Blank /\ ~CandidateExists(d)
          /\ Goto(k, "abort_vectors") /\ UNCHANGED <<docs, chunks>>
    /\ UNCHANGED <<base, points, cached, late, faults>> /\ Others

(* The server applies the COMMIT, the connection drops before the answer.  *)
CommitUnacknowledged(k) ==
    LET d == req[k].doc IN
    /\ deployment.lostAcks /\ At(k, "commit") /\ d \notin Blank /\ CandidateExists(d)
    /\ Activated(req[k].source, d)
    /\ Goto(k, "abort_vectors")
    /\ Fault
    /\ UNCHANGED <<base, points, cached, late>> /\ Others

(* FinalizeActivation: the points of the source's other documents go.      *)
FinalizeActivation(k) ==
    LET d == req[k].doc IN
    /\ At(k, "finalize")
    /\ points' = IF d \in Blank THEN points
                 ELSE Without(points, Obsolete(req[k].source, d), None)
    /\ Goto(k, "succeed")
    /\ UNCHANGED <<base, docs, chunks, cached, late, faults>> /\ Others

(* abortActivation runs in reverse order; Qdrant's part is payload only.   *)
AbortVectors(k) ==
    /\ At(k, "abort_vectors")
    /\ Goto(k, "abort_rows")
    /\ UNCHANGED <<store, faults>> /\ Others

(* ... and the row of a document that is left without chunks.              *)
AbortRows(k) ==
    LET d == req[k].doc IN
    /\ At(k, "abort_rows")
    /\ chunks' = [chunks EXCEPT ![d] = Abandoned(d)]
    /\ docs' = [docs EXCEPT ![d] = IF Abandoned(d) = "none" THEN None ELSE @]
    /\ Goto(k, "fail")
    /\ UNCHANGED <<base, points, cached, late, faults>> /\ Others

(* UpdateJob with the outcome, an update of no row once the base is gone.  *)
Finish(k) ==
    /\ req[k].pc \in {"succeed", "fail"}
    /\ req' = [req EXCEPT ![k].pc = "idle",
                 ![k].job = IF ~base THEN "none"
                            ELSE IF req[k].pc = "succeed" THEN "succeeded" ELSE "failed"]
    /\ UNCHANGED <<store, faults>> /\ Others

(* Where an error of the call made at pc leads.  Parsing and embedding     *)
(* fail with the document's Store, before anything is written; an error of *)
(* finalization is a warning; errors of the aborts are joined to the cause *)
(* and an error of UpdateJob leaves the job running.                       *)
OnError(pc) ==
    CASE pc = "lock" -> "idle"
      [] pc = "stage" -> "fail"
      [] pc = "vectors" -> "abort_rows"
      [] pc \in {"prepare", "commit"} -> "abort_vectors"
      [] pc = "finalize" -> "succeed"
      [] pc = "abort_vectors" -> "abort_rows"
      [] pc = "abort_rows" -> "fail"
      [] pc \in {"succeed", "fail"} -> "idle"

CallFails(k) ==
    /\ req[k].pc # "idle"
    /\ At(k, "lock") => LockFree(k)
    /\ Fault
    /\ Goto(k, OnError(req[k].pc))
    /\ UNCHANGED store /\ Others

(* The process dies: its requests stop where they are, its locks are gone. *)
Crash(h) ==
    /\ \E k \in Ingest : req[k].host = h /\ req[k].pc # "idle"
    /\ Fault
    /\ req' = [k \in Ingest |-> IF req[k].host = h THEN [req[k] EXCEPT !.pc = "idle"]
                                                   ELSE req[k]]
    /\ UNCHANGED store /\ Others

IngestStep(k) ==
    \/ \E h \in deployment.hosts, s \in deployment.sources : \E d \in ContentOf[s] : Begin(k, h, s, d)
    \/ CreateJob(k)
    \/ StageDocument(k)
    \/ StageVectors(k)
    \/ Prepare(k)
    \/ CommitActivation(k)
    \/ CommitUnacknowledged(k)
    \/ FinalizeActivation(k)
    \/ AbortVectors(k)
    \/ AbortRows(k)
    \/ Finish(k)
    \/ CallFails(k)

-----------------------------------------------------------------------------
(* knowledgeBaseStore.DeleteKnowledgeBase: external indexes first, the     *)
(* rows last, and an error anywhere ends the attempt.                      *)

DelAt(x, pc) == del[x].pc = pc
DelGoto(x, pc) == del' = [del EXCEPT ![x].pc = pc]
Answer(x, a) == del' = [del EXCEPT ![x] = [pc |-> "idle", answer |-> a]]
Spared == UNCHANGED <<query, begun>>

(* A request that was answered "deleted" is over; others may be repeated.  *)
DeleteLookup(x) ==
    /\ DelAt(x, "idle") /\ del[x].answer # "deleted"
    /\ IF base THEN DelGoto(x, "cache") ELSE Answer(x, "missing")
    /\ UNCHANGED <<store, req, faults>> /\ Spared

DeleteSemanticCache(x) ==
    /\ DelAt(x, "cache")
    /\ cached' = {} /\ late' = [late EXCEPT !.answers = {}]
    /\ DelGoto(x, "points")
    /\ UNCHANGED <<base, docs, chunks, points, req, faults>> /\ Spared

DeleteVectors(x) ==
    /\ DelAt(x, "points")
    /\ points' = [d \in Doc |-> None] /\ late' = [late EXCEPT !.points = {}]
    /\ DelGoto(x, "rows")
    /\ UNCHANGED <<base, docs, chunks, cached, req, faults>> /\ Spared

(* The transaction of Repository.DeleteKnowledgeBase: the row is locked,   *)
(* or the answer is that there is nothing to delete.                       *)
RowsDeleted ==
    /\ base' = FALSE
    /\ docs' = [d \in Doc |-> None]
    /\ chunks' = [d \in Doc |-> "none"]
    /\ req' = [k \in Ingest |-> [req[k] EXCEPT !.job = "none"]]

MetadataAnswer == IF base THEN "deleted" ELSE "missing"

DeleteMetadata(x) ==
    /\ DelAt(x, "rows")
    /\ IF base THEN RowsDeleted ELSE UNCHANGED <<base, docs, chunks, req>>
    /\ Answer(x, MetadataAnswer)
    /\ UNCHANGED <<points, cached, late, faults>> /\ Spared

(* Mutant: the errors of the external cleanups are dropped.                *)
DeleteIgnoresErrors(x) ==
    /\ ~DelAt(x, "idle")
    /\ Fault
    /\ IF DelAt(x, "rows") THEN Answer(x, "error") ELSE DelGoto(x, "rows")
    /\ UNCHANGED <<store, req>> /\ Spared

DeleteFails(x) ==
    /\ ~DelAt(x, "idle")
    /\ Fault
    /\ Answer(x, "error")
    /\ UNCHANGED <<store, req>> /\ Spared

DeleteStep(x) ==
    \/ DeleteLookup(x) \/ DeleteSemanticCache(x) \/ DeleteVectors(x)
    \/ DeleteMetadata(x) \/ DeleteFails(x)

-----------------------------------------------------------------------------
(* VectorStore.Retrieve: a page of points from Qdrant, then one statement  *)
(* that keeps the searchable ones, until the pages suffice.  The results   *)
(* are kept by page.                                                       *)

SearchPage(q) ==
    /\ query[q].pc = "idle" /\ query[q].pages < MaxPages
    /\ \E page \in (SUBSET {d \in Doc : points[d] # None}) \ {{}} :
         query' = [query EXCEPT ![q].pc = "filter", ![q].page = page]
    /\ UNCHANGED <<store, req, del, begun, faults>>

FilterPage(q) ==
    /\ query[q].pc = "filter"
    /\ query' = [query EXCEPT ![q] =
         [pc |-> "idle", page |-> {}, pages |-> @.pages + 1,
          results |-> @.results \cup {@.page \cap Searchable}]]
    /\ UNCHANGED <<store, req, del, begun, faults>>

(* Service.StoreSemanticCache, at the end of a query that cites something: *)
(* it does not ask whether the base still exists.                          *)
StoreSemanticCache(q) ==
    /\ query[q].pc = "idle" /\ \E page \in query[q].results : page # {}
    /\ query' = [query EXCEPT ![q].pc = "done"]
    /\ cached' = cached \cup {q}
    /\ late' = [late EXCEPT !.answers =
                  IF CleanedBefore({"points", "rows"}) THEN @ \cup {q} ELSE @ \ {q}]
    /\ UNCHANGED <<base, docs, chunks, points, req, del, begun, faults>>

QueryStep(q) == SearchPage(q) \/ FilterPage(q) \/ StoreSemanticCache(q)

-----------------------------------------------------------------------------
Next ==
    /\ \/ \E k \in Ingest : IngestStep(k)
       \/ \E h \in deployment.hosts : Crash(h)
       \/ \E x \in deployment.deleters : DeleteStep(x)
       \/ \E q \in deployment.readers : QueryStep(q)
    /\ UNCHANGED deployment

IngestSpec == Init /\ [][Next]_vars

-----------------------------------------------------------------------------
(* Properties.                                                             *)

(* CommitActivation leaves one searchable version of each named source,    *)
(* in whatever order the commits, aborts and crashes of several processes  *)
(* come.                                                                   *)
OneActiveVersion == \A s \in Source \ {NoURI} : Cardinality(Active(s)) <= 1

(* A source that can be queried stays queryable: whatever fails, no step   *)
(* but the deletion of the base takes away its last searchable version.    *)
NoGap ==
    [][\A s \in Source : Active(s) # {} /\ base' => Active(s)' # {}]_vars

(* No DELETE has been sent yet.                                            *)
Undeleted == \A x \in Deleter : del[x] = [pc |-> "idle", answer |-> "none"]

(* One process whose COMMITs are answered: the source's mutex is then the  *)
(* only way to a source.                                                   *)
OneProcess == Cardinality(deployment.hosts) = 1 /\ ~deployment.lostAcks

(* Until a DELETE empties Qdrant, every searchable version has its points, *)
(* so that dense and sparse retrieval agree.  Two processes, or a COMMIT   *)
(* whose answer is lost, can break this.                                   *)
ActiveHasPoints == Undeleted /\ OneProcess => \A d \in Searchable : points[d] # None

(* An ingestion that fails leaves its source as it found it when it took   *)
(* the source's mutex: the earlier version active, its own not.            *)
FailedLeavesPrior ==
    OneProcess => \A k \in Ingest :
        req[k].pc = "fail" /\ base => Active(req[k].source) = req[k].prior

(* The named sources whose contents include d.                             *)
SourcesOf(d) == {s \in Source \ {NoURI} : d \in ContentOf[s]}

(* No page of dense retrieval holds two versions of a source, although its *)
(* points were read before PostgreSQL was asked.  An answer of several     *)
(* pages does hold two when a commit comes between them, although          *)
(* docs/superpowers/specs/2026-07-15-qdrant-staged-visibility-design.md    *)
(* (lines 194, 207 and 261) promises that no query sees mixed versions.    *)
(* Read with contents that belong to one source each.                      *)
PageUnmixed ==
    \A q \in Reader : \A page \in query[q].results : \A d, e \in page :
        d # e => SourcesOf(d) \cap SourcesOf(e) = {}

(* What outlives the row that lets a DELETE be repeated was written by an  *)
(* ingestion or a query that overlapped the deletion, after its store had  *)
(* been cleaned; everything older is gone, however often DELETE fails and  *)
(* is repeated.  Nothing removes such late points and answers, although    *)
(* docs/superpowers/specs/2026-07-15-kb-delete-retry-design.md:72 says     *)
(* that "no hidden orphan state is created".                               *)
OnlyLateWritesRemain ==
    ~base => {d \in Doc : points[d] # None} \subseteq late.points /\ cached \subseteq late.answers

(* Of concurrent DELETE requests at most one reports the deletion, and     *)
(* none before the rows are gone.                                          *)
DeletedOnce ==
    LET told == {x \in Deleter : del[x].answer = "deleted"}
    IN Cardinality(told) <= 1 /\ (told # {} => ~base)

(* No row of a deleted base comes back, whatever an ingestion under way    *)
(* does next.                                                              *)
RowsStayDeleted ==
    ~base => \A d \in Doc : docs[d] = None /\ chunks[d] = "none"

\* What can be found is one whole version of every source at all times: the
\* failures, crashes and commits of several ingestions neither take the last
\* version away, nor leave two, nor leave half of one; and no page of a query
\* mixes two.
SearchStaysWhole ==
    /\ NoGap
    /\ [](OneActiveVersion /\ FailedLeavesPrior /\ ActiveHasPoints /\ PageUnmixed)

\* A deletion ends once and brings no row back; of what it found nothing is
\* left behind, however it fails, is repeated, and meets ingestions and
\* queries, whose late writes alone can remain (DeleteKnowledgeBase).
DeletionIsFinal == OnlyLateWritesRemain /\ DeletedOnce /\ RowsStayDeleted
=============================================================================
