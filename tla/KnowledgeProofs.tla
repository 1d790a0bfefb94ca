--------------------------- MODULE KnowledgeProofs ---------------------------
(***************************************************************************)
(* Machine-checked proofs about the knowledge base: its deletion, which    *)
(* meets ingestions half way; what can be found of its sources while       *)
(* ingestions replace them; the answers of the query pipeline, which a     *)
(* shared cache and reused trace ids could mix up; the tutorial packs,     *)
(* which two machines may release at once; and the experiments on them,    *)
(* whose runs processes of several environments take over.                 *)
(***************************************************************************)
EXTENDS KnowledgeIngest, QueryPipeline, PackRelease, TutorialExperiment, NumberLemmas, FiniteSetTheorems, TLAPS

(***************************************************************************)
(* Deletion                                                                *)
(***************************************************************************)

Phases == {"idle", "lock", "stage", "vectors", "prepare", "commit", "finalize",
           "abort_vectors", "abort_rows", "succeed", "fail"}

RequestRow == [pc : Phases, host : Host \cup {None}, source : Source \cup {None}, doc : Doc \cup {None},
               prior : SUBSET Doc, job : {"none", "running", "succeeded", "failed"}]

DeleteRow == [pc : {"idle", "cache", "points", "rows"}, answer : {"none", "missing", "deleted", "error"}]

RowsGone == \A d \in Doc : docs[d] = None /\ chunks[d] = "none"

PointsGone == \A d \in Doc : points[d] = None

\* What is left was written after the store was cleaned.
PointsClean == \A d \in Doc : points[d] # None => d \in late.points

CacheClean == cached \subseteq late.answers

\* How far the deletion is, by the place of any of its requests.
DeletePlace ==
    \A x \in Deleter :
        /\ del[x].pc # "idle" => del[x].answer # "deleted"
        /\ del[x].pc \in {"points", "rows"} => CacheClean
        /\ del[x].pc = "rows" => PointsClean
        /\ del[x].answer = "deleted" => base = FALSE

ToldOnce == \A x, y \in Deleter : del[x].answer = "deleted" /\ del[y].answer = "deleted" => x = y

\* The inductive invariant.
DeleteIInv ==
    /\ deployment \in Deployment
    /\ base \in BOOLEAN /\ cached \in SUBSET (Reader \cup {None})
    /\ late \in [points : SUBSET Doc, answers : SUBSET Reader]
    /\ docs \in [Doc -> Source \cup {None}]
    /\ chunks \in [Doc -> {"none", "staged", "searchable"}]
    /\ points \in [Doc -> Source \cup {None}]
    /\ req \in [Ingest -> RequestRow]
    /\ del \in [Deleter -> DeleteRow]
    /\ \A k \in Ingest : req[k].pc # "idle" => req[k].source \in Source /\ req[k].doc \in Doc
    /\ base = FALSE => CacheClean /\ RowsGone /\ PointsClean
    /\ DeletePlace
    /\ ToldOnce

\* A step that leaves the base, the cache and the DELETE requests alone, brings
\* no row back to a deleted base and keeps what was cleaned clean.
LEMMA IngestKeeps ==
    ASSUME DeleteIInv, base' = base, cached' = cached, del' = del, deployment' = deployment,
           late' \in [points : SUBSET Doc, answers : SUBSET Reader], late'.answers = late.answers,
           req' \in [Ingest -> RequestRow],
           docs' \in [Doc -> Source \cup {None}],
           chunks' \in [Doc -> {"none", "staged", "searchable"}],
           points' \in [Doc -> Source \cup {None}],
           \A k \in Ingest : req'[k].pc # "idle" => req'[k].source \in Source /\ req'[k].doc \in Doc,
           base = FALSE => RowsGone',
           CleanedBefore({"rows"}) => (PointsClean => PointsClean')
    PROVE  DeleteIInv'
<1>1. CacheClean => CacheClean'
  BY DEF CacheClean
<1>2. base = FALSE => (PointsClean => PointsClean')
  BY DEF CleanedBefore
<1>3. base' = FALSE => CacheClean' /\ RowsGone' /\ PointsClean'
  BY <1>1, <1>2 DEF DeleteIInv
<1>4. \A x \in Deleter : del[x].pc = "rows" => (PointsClean => PointsClean')
  BY DEF CleanedBefore
<1>5. DeletePlace'
  BY <1>1, <1>4 DEF DeleteIInv, DeletePlace
<1>6. ToldOnce'
  BY DEF DeleteIInv, ToldOnce
<1> QED BY <1>3, <1>5, <1>6 DEF DeleteIInv

\* The same where the points stay.
LEMMA StoredKeeps ==
    ASSUME DeleteIInv, base' = base, cached' = cached, late' = late, points' = points, del' = del,
           deployment' = deployment,
           req' \in [Ingest -> RequestRow],
           docs' \in [Doc -> Source \cup {None}],
           chunks' \in [Doc -> {"none", "staged", "searchable"}],
           \A k \in Ingest : req'[k].pc # "idle" => req'[k].source \in Source /\ req'[k].doc \in Doc,
           base = FALSE => RowsGone'
    PROVE  DeleteIInv'
<1>1. PointsClean => PointsClean'
  BY DEF PointsClean
<1>2. /\ late' \in [points : SUBSET Doc, answers : SUBSET Reader] /\ late'.answers = late.answers
      /\ points' \in [Doc -> Source \cup {None}]
  BY DEF DeleteIInv
<1> QED BY <1>1, <1>2, IngestKeeps

\* One request moves on in its own phase.
LEMMA GotoKeeps ==
    ASSUME DeleteIInv, NEW k \in Ingest, req[k].pc # "idle", NEW pc \in Phases, Goto(k, pc)
    PROVE  /\ req' \in [Ingest -> RequestRow]
           /\ \A j \in Ingest : req'[j].pc # "idle" => req'[j].source \in Source /\ req'[j].doc \in Doc
<1>1. req \in [Ingest -> RequestRow] /\ req' = [req EXCEPT ![k] = [req[k] EXCEPT !.pc = pc]]
  BY DEF DeleteIInv, Goto
<1>2. [req[k] EXCEPT !.pc = pc] \in RequestRow /\ [req[k] EXCEPT !.pc = pc].source = req[k].source
      /\ [req[k] EXCEPT !.pc = pc].doc = req[k].doc
  BY <1>1 DEF RequestRow
<1>3. \A j \in Ingest : req'[j].source = req[j].source /\ req'[j].doc = req[j].doc /\ (j # k => req'[j] = req[j])
  BY <1>1, <1>2
<1> QED BY <1>1, <1>2, <1>3 DEF DeleteIInv

\* A request moves on and the stores stay.
LEMMA QuietKeeps ==
    ASSUME DeleteIInv, NEW k \in Ingest, req[k].pc # "idle", NEW pc \in Phases, Goto(k, pc),
           UNCHANGED store, del' = del, deployment' = deployment
    PROVE  DeleteIInv'
<1>1. /\ base' = base /\ cached' = cached /\ late' = late /\ docs' = docs /\ chunks' = chunks /\ points' = points
  BY DEF store
<1>2. /\ req' \in [Ingest -> RequestRow]
      /\ \A j \in Ingest : req'[j].pc # "idle" => req'[j].source \in Source /\ req'[j].doc \in Doc
  BY GotoKeeps
<1>3. base = FALSE => RowsGone'
  BY <1>1 DEF DeleteIInv, RowsGone
<1>4. docs' \in [Doc -> Source \cup {None}] /\ chunks' \in [Doc -> {"none", "staged", "searchable"}]
  BY <1>1 DEF DeleteIInv
<1> QED BY <1>1, <1>2, <1>3, <1>4, StoredKeeps

\* A request moves on and writes rows, which it cannot without a base.
LEMMA RowsKeep ==
    ASSUME DeleteIInv, NEW k \in Ingest, req[k].pc # "idle", NEW pc \in Phases, Goto(k, pc),
           base' = base, cached' = cached, late' = late, points' = points, del' = del, deployment' = deployment,
           docs' \in [Doc -> Source \cup {None}],
           chunks' \in [Doc -> {"none", "staged", "searchable"}],
           base = FALSE => RowsGone'
    PROVE  DeleteIInv'
<1>1. /\ req' \in [Ingest -> RequestRow]
      /\ \A j \in Ingest : req'[j].pc # "idle" => req'[j].source \in Source /\ req'[j].doc \in Doc
  BY GotoKeeps
<1> QED BY <1>1, StoredKeeps

\* A request moves on and writes points, late ones where they were cleaned.
LEMMA PointsKeep ==
    ASSUME DeleteIInv, NEW k \in Ingest, req[k].pc # "idle", NEW pc \in Phases, Goto(k, pc),
           base' = base, cached' = cached, docs' = docs, chunks' = chunks, del' = del,
           deployment' = deployment, points' \in [Doc -> Source \cup {None}],
           late' \in [points : SUBSET Doc, answers : SUBSET Reader], late'.answers = late.answers,
           CleanedBefore({"rows"}) => (PointsClean => PointsClean')
    PROVE  DeleteIInv'
<1>1. /\ req' \in [Ingest -> RequestRow]
      /\ \A j \in Ingest : req'[j].pc # "idle" => req'[j].source \in Source /\ req'[j].doc \in Doc
  BY GotoKeeps
<1>2. docs' \in [Doc -> Source \cup {None}] /\ chunks' \in [Doc -> {"none", "staged", "searchable"}]
      /\ (base = FALSE => RowsGone')
  BY DEF DeleteIInv, RowsGone
<1> QED BY <1>1, <1>2, IngestKeeps

LEMMA ActivatedKeeps ==
    ASSUME DeleteIInv, NEW s \in Source, NEW d \in Doc, CandidateExists(d), Activated(s, d)
    PROVE  /\ docs' \in [Doc -> Source \cup {None}]
           /\ chunks' \in [Doc -> {"none", "staged", "searchable"}]
           /\ base # FALSE
<1>1. docs' \in [Doc -> Source \cup {None}] /\ chunks' \in [Doc -> {"none", "staged", "searchable"}]
  BY DEF DeleteIInv, Activated, Without
<1>2. base # FALSE
  BY DEF DeleteIInv, CandidateExists, RowsGone
<1> QED BY <1>1, <1>2

LEMMA IngestStepKeeps ==
    ASSUME DeleteIInv, NEW k \in Ingest, IngestStep(k), deployment' = deployment
    PROVE  DeleteIInv'
<1>t. /\ req \in [Ingest -> RequestRow] /\ req[k] \in RequestRow /\ base \in BOOLEAN
      /\ docs \in [Doc -> Source \cup {None}] /\ chunks \in [Doc -> {"none", "staged", "searchable"}]
      /\ points \in [Doc -> Source \cup {None}]
      /\ req[k].pc # "idle" => req[k].source \in Source /\ req[k].doc \in Doc
      /\ base = FALSE => RowsGone
      /\ late \in [points : SUBSET Doc, answers : SUBSET Reader]
  BY DEF DeleteIInv
<1>1. ASSUME NEW h \in deployment.hosts, NEW s \in deployment.sources, NEW d \in ContentOf[s], Begin(k, h, s, d)
      PROVE  DeleteIInv'
  <2> DEFINE rq == [[[[IdleRequest EXCEPT !.pc = "lock"] EXCEPT !.host = h] EXCEPT !.source = s] EXCEPT !.doc = d]
  <2>1. h \in Host /\ s \in Source /\ d \in Doc
    BY IngestAssumption DEF DeleteIInv
  <2>2. rq \in RequestRow /\ rq.source = s /\ rq.doc = d
    BY <2>1 DEF RequestRow, IdleRequest, Phases
  <2>3. /\ req' = [req EXCEPT ![k] = rq]
        /\ base' = base /\ cached' = cached /\ late' = late /\ docs' = docs /\ chunks' = chunks /\ points' = points /\ del' = del
    BY <1>1 DEF Begin, store, IdleRequest
  <2> HIDE DEF rq
  <2>4. req' \in [Ingest -> RequestRow] /\ \A j \in Ingest : req'[j] = IF j = k THEN rq ELSE req[j]
    BY <1>t, <2>2, <2>3
  <2>5. \A j \in Ingest : req'[j].pc # "idle" => req'[j].source \in Source /\ req'[j].doc \in Doc
    BY <1>t, <2>1, <2>2, <2>3, <2>4 DEF DeleteIInv
  <2>7. base = FALSE => RowsGone'
    BY <1>t, <2>3 DEF RowsGone
  <2> QED BY <1>t, <2>3, <2>4, <2>5, <2>7, StoredKeeps
<1>2. CASE CreateJob(k)
  <2> DEFINE started == [[[req[k] EXCEPT !.pc = "stage"] EXCEPT !.job = "running"] EXCEPT !.prior = Active(req[k].source)]
             refused == [req[k] EXCEPT !.pc = "idle"]
  <2>1. Active(req[k].source) \in SUBSET Doc
    BY DEF Active, Searchable
  <2>2. /\ started \in RequestRow /\ started.source = req[k].source /\ started.doc = req[k].doc
        /\ refused \in RequestRow /\ refused.pc = "idle"
    BY <1>t, <2>1 DEF RequestRow, Phases
  <2>3. /\ req[k].pc = "lock"
        /\ req' = [req EXCEPT ![k] = IF base THEN started ELSE refused]
        /\ base' = base /\ cached' = cached /\ late' = late /\ docs' = docs /\ chunks' = chunks /\ points' = points
        /\ del' = del
    BY <1>2, <1>t DEF CreateJob, At, Others, store
  <2> HIDE DEF started, refused
  <2>4. PICK rq \in RequestRow : /\ req' = [req EXCEPT ![k] = rq]
                                 /\ rq.pc # "idle" => rq.source = req[k].source /\ rq.doc = req[k].doc
    BY <2>2, <2>3
  <2>5. req' \in [Ingest -> RequestRow] /\ \A j \in Ingest : req'[j] = IF j = k THEN rq ELSE req[j]
    BY <1>t, <2>4
  <2>6. \A j \in Ingest : req'[j].pc # "idle" => req'[j].source \in Source /\ req'[j].doc \in Doc
    BY <1>t, <2>3, <2>4, <2>5 DEF DeleteIInv
  <2>7. base = FALSE => RowsGone'
    BY <1>t, <2>3 DEF RowsGone
  <2> QED BY <1>t, <2>3, <2>5, <2>6, <2>7, StoredKeeps
<1>3. CASE StageDocument(k)
  <2>0. /\ req[k].pc = "stage" /\ req[k].doc \in Doc /\ req[k].source \in Source
        /\ base' = base /\ cached' = cached /\ late' = late /\ points' = points /\ del' = del
    BY <1>3, <1>t DEF StageDocument, At, Others
  <2>1. CASE base
    <3>1. docs' \in [Doc -> Source \cup {None}] /\ chunks' \in [Doc -> {"none", "staged", "searchable"}] /\ Goto(k, "vectors")
      BY <1>3, <1>t, <2>0, <2>1 DEF StageDocument
    <3> QED BY <2>0, <2>1, <3>1, RowsKeep DEF Phases
  <2>2. CASE ~base
    <3>1. docs' = docs /\ chunks' = chunks /\ Goto(k, "fail")
      BY <1>3, <2>2 DEF StageDocument
    <3>2. base = FALSE => RowsGone'
      BY <1>t, <3>1 DEF RowsGone
    <3> QED BY <1>t, <2>0, <3>1, <3>2, RowsKeep DEF Phases
  <2> QED BY <2>1, <2>2
<1>4. CASE StageVectors(k)
  <2>1. /\ req[k].pc = "vectors" /\ Goto(k, "prepare") /\ req[k].doc \in Doc /\ req[k].source \in Source
        /\ base' = base /\ cached' = cached /\ docs' = docs /\ chunks' = chunks /\ del' = del
        /\ points' \in [Doc -> Source \cup {None}]
    BY <1>4, <1>t DEF StageVectors, At, Others
  <2>2. PICK d \in Doc : d = req[k].doc
    BY <2>1
  <2> DEFINE now == IF d \in Blank THEN late.points
                    ELSE IF CleanedBefore({"rows"}) THEN late.points \cup {d} ELSE late.points \ {d}
  <2>p. now \in SUBSET Doc /\ late' = [late EXCEPT !.points = now]
    BY <1>4, <1>t, <2>2 DEF StageVectors
  <2>3. PICK written \in SUBSET Doc : late' = [late EXCEPT !.points = written] /\ written = now
    BY <2>p
  <2>4. /\ late' \in [points : SUBSET Doc, answers : SUBSET Reader] /\ late'.answers = late.answers
        /\ late'.points = written
    BY <1>t, <2>3
  <2>5. \A e \in Doc : e # d \/ d \in Blank => points'[e] = points[e]
    BY <1>4, <1>t, <2>2 DEF StageVectors
  <2>6. CleanedBefore({"rows"}) => (PointsClean => PointsClean')
    BY <2>3, <2>4, <2>5 DEF PointsClean
  <2> QED BY <2>1, <2>4, <2>6, PointsKeep DEF Phases
<1>5. CASE Prepare(k)
  BY <1>5, QuietKeeps DEF Prepare, At, Others, Phases
<1>6. CASE CommitActivation(k)
  <2>0. /\ req[k].pc = "commit" /\ req[k].doc \in Doc /\ req[k].source \in Source
        /\ base' = base /\ cached' = cached /\ late' = late /\ points' = points /\ del' = del
    BY <1>6, <1>t DEF CommitActivation, At, Others
  <2>1. CASE CandidateExists(req[k].doc) /\ Activated(req[k].source, req[k].doc) /\ Goto(k, "finalize")
    <3>1. /\ docs' \in [Doc -> Source \cup {None}] /\ chunks' \in [Doc -> {"none", "staged", "searchable"}]
          /\ base # FALSE
      BY <2>0, <2>1, ActivatedKeeps
    <3> QED BY <2>0, <2>1, <3>1, RowsKeep DEF Phases
  <2>2. CASE docs' = docs /\ chunks' = chunks /\ (Goto(k, "finalize") \/ Goto(k, "abort_vectors"))
    <3>1. base = FALSE => RowsGone'
      BY <1>t, <2>2 DEF RowsGone
    <3> QED BY <1>t, <2>0, <2>2, <3>1, RowsKeep DEF Phases
  <2> QED BY <1>6, <2>1, <2>2 DEF CommitActivation
<1>7. CASE CommitUnacknowledged(k)
  <2>0. /\ req[k].pc = "commit" /\ req[k].doc \in Doc /\ req[k].source \in Source
        /\ base' = base /\ cached' = cached /\ late' = late /\ points' = points /\ del' = del
        /\ CandidateExists(req[k].doc) /\ Activated(req[k].source, req[k].doc) /\ Goto(k, "abort_vectors")
    BY <1>7, <1>t DEF CommitUnacknowledged, At, Others
  <2>1. /\ docs' \in [Doc -> Source \cup {None}] /\ chunks' \in [Doc -> {"none", "staged", "searchable"}]
        /\ base # FALSE
    BY <2>0, ActivatedKeeps
  <2> QED BY <2>0, <2>1, RowsKeep DEF Phases
<1>8. CASE FinalizeActivation(k)
  <2>1. /\ req[k].pc = "finalize" /\ Goto(k, "succeed")
        /\ base' = base /\ cached' = cached /\ late' = late /\ docs' = docs /\ chunks' = chunks /\ del' = del
        /\ points' \in [Doc -> Source \cup {None}]
        /\ \A e \in Doc : points'[e] = points[e] \/ points'[e] = None
    BY <1>8, <1>t DEF FinalizeActivation, At, Others, Without
  <2>2. PointsClean => PointsClean'
    BY <2>1 DEF PointsClean
  <2> QED BY <1>t, <2>1, <2>2, PointsKeep DEF Phases
<1>9. CASE AbortVectors(k)
  BY <1>9, QuietKeeps DEF AbortVectors, At, Others, Phases
<1>10. CASE AbortRows(k)
  <2>0. /\ req[k].pc = "abort_rows" /\ req[k].doc \in Doc /\ Goto(k, "fail")
        /\ base' = base /\ cached' = cached /\ late' = late /\ points' = points /\ del' = del
        /\ docs' \in [Doc -> Source \cup {None}] /\ chunks' \in [Doc -> {"none", "staged", "searchable"}]
    BY <1>10, <1>t DEF AbortRows, At, Others, Abandoned
  <2>1. RowsGone => RowsGone'
    BY <1>10, <1>t, <2>0 DEF AbortRows, RowsGone, Abandoned
  <2> QED BY <1>t, <2>0, <2>1, RowsKeep DEF Phases
<1>11. CASE Finish(k)
  <2> DEFINE job == IF ~base THEN "none" ELSE IF req[k].pc = "succeed" THEN "succeeded" ELSE "failed"
             rq == [[req[k] EXCEPT !.pc = "idle"] EXCEPT !.job = job]
  <2>1. /\ req' = [req EXCEPT ![k] = rq]
        /\ base' = base /\ cached' = cached /\ late' = late /\ docs' = docs /\ chunks' = chunks /\ points' = points
        /\ del' = del
    BY <1>11, <1>t DEF Finish, Others, store
  <2>2. job \in {"none", "running", "succeeded", "failed"}
    OBVIOUS
  <2> HIDE DEF job
  <2>3. rq \in RequestRow /\ rq.pc = "idle"
    BY <1>t, <2>2 DEF RequestRow, Phases
  <2> HIDE DEF rq
  <2>4. req' \in [Ingest -> RequestRow] /\ \A j \in Ingest : req'[j] = IF j = k THEN rq ELSE req[j]
    BY <1>t, <2>1, <2>3
  <2>5. \A j \in Ingest : req'[j].pc # "idle" => req'[j].source \in Source /\ req'[j].doc \in Doc
    BY <1>t, <2>1, <2>3, <2>4 DEF DeleteIInv
  <2>6. base = FALSE => RowsGone'
    BY <1>t, <2>1 DEF RowsGone
  <2> QED BY <1>t, <2>1, <2>4, <2>5, <2>6, StoredKeeps
<1>12. CASE CallFails(k)
  <2>1. req[k].pc \in Phases \ {"idle"}
    BY <1>12, <1>t DEF CallFails, RequestRow
  <2>2. OnError(req[k].pc) \in Phases
    BY <2>1 DEF OnError, Phases
  <2> QED BY <1>12, <2>1, <2>2, QuietKeeps DEF CallFails, Others
<1> QED BY <1>1, <1>2, <1>3, <1>4, <1>5, <1>6, <1>7, <1>8, <1>9, <1>10, <1>11, <1>12 DEF IngestStep

LEMMA CrashKeeps ==
    ASSUME DeleteIInv, NEW h, Crash(h), deployment' = deployment
    PROVE  DeleteIInv'
<1>1. /\ base' = base /\ cached' = cached /\ late' = late /\ docs' = docs /\ chunks' = chunks /\ points' = points
      /\ del' = del
  BY DEF Crash, store, Others
<1>2. req' = [k \in Ingest |-> IF req[k].host = h THEN [req[k] EXCEPT !.pc = "idle"] ELSE req[k]]
  BY DEF Crash
<1>3. ASSUME NEW j \in Ingest
      PROVE  req'[j] \in RequestRow /\ (req'[j].pc # "idle" => req'[j] = req[j])
  BY <1>2, <1>3 DEF DeleteIInv, RequestRow, Phases
<1>4. /\ req' \in [Ingest -> RequestRow]
      /\ \A j \in Ingest : req'[j].pc # "idle" => req'[j].source \in Source /\ req'[j].doc \in Doc
  BY <1>2, <1>3 DEF DeleteIInv
<1>5. /\ docs' \in [Doc -> Source \cup {None}] /\ chunks' \in [Doc -> {"none", "staged", "searchable"}]
      /\ (base = FALSE => RowsGone')
  BY <1>1 DEF DeleteIInv, RowsGone
<1> QED BY <1>1, <1>4, <1>5, StoredKeeps

\* What one DELETE request writes about itself.
LEMMA DeleterMoves ==
    ASSUME DeleteIInv, NEW x \in Deleter, NEW row \in DeleteRow, del' = [del EXCEPT ![x] = row]
    PROVE  del' \in [Deleter -> DeleteRow] /\ \A y \in Deleter : del'[y] = IF y = x THEN row ELSE del[y]
BY DEF DeleteIInv

LEMMA GotoOrAnswer ==
    ASSUME DeleteIInv, NEW x \in Deleter
    PROVE  /\ \A pc \in {"idle", "cache", "points", "rows"} : DelGoto(x, pc) =>
                \E row \in DeleteRow : del' = [del EXCEPT ![x] = row] /\ row.pc = pc /\ row.answer = del[x].answer
           /\ \A a \in {"none", "missing", "deleted", "error"} : Answer(x, a) =>
                \E row \in DeleteRow : del' = [del EXCEPT ![x] = row] /\ row.pc = "idle" /\ row.answer = a
<1>1. del \in [Deleter -> DeleteRow] /\ del[x] \in DeleteRow
  BY DEF DeleteIInv
<1>2. ASSUME NEW pc \in {"idle", "cache", "points", "rows"}, DelGoto(x, pc)
      PROVE  \E row \in DeleteRow : del' = [del EXCEPT ![x] = row] /\ row.pc = pc /\ row.answer = del[x].answer
  <2> DEFINE row == [del[x] EXCEPT !.pc = pc]
  <2>1. row \in DeleteRow /\ row.pc = pc /\ row.answer = del[x].answer
    BY <1>1, <1>2 DEF DeleteRow
  <2>2. del' = [del EXCEPT ![x] = row]
    BY <1>1, <1>2 DEF DelGoto
  <2> QED BY <2>1, <2>2
<1>3. ASSUME NEW a \in {"none", "missing", "deleted", "error"}, Answer(x, a)
      PROVE  \E row \in DeleteRow : del' = [del EXCEPT ![x] = row] /\ row.pc = "idle" /\ row.answer = a
  <2>1. [pc |-> "idle", answer |-> a] \in DeleteRow
    BY <1>3 DEF DeleteRow
  <2> QED BY <1>3, <2>1 DEF Answer
<1> QED BY <1>2, <1>3

\* A DELETE that leaves the rows alone: what it clears stays clear.
LEMMA CleanupKeeps ==
    ASSUME DeleteIInv, NEW x \in Deleter, NEW row \in DeleteRow, del' = [del EXCEPT ![x] = row],
           row.answer # "deleted",
           base' = base, docs' = docs, chunks' = chunks, req' = req, deployment' = deployment,
           cached' \in SUBSET (Reader \cup {None}), late' \in [points : SUBSET Doc, answers : SUBSET Reader],
           CacheClean => CacheClean', PointsClean => PointsClean',
           points' \in [Doc -> Source \cup {None}],
           row.pc \in {"points", "rows"} => CacheClean',
           row.pc = "rows" => PointsClean'
    PROVE  DeleteIInv'
<1>1. del' \in [Deleter -> DeleteRow] /\ \A y \in Deleter : del'[y] = IF y = x THEN row ELSE del[y]
  BY DeleterMoves
<1>2. RowsGone => RowsGone'
  BY DEF RowsGone
<1>3. DeletePlace'
  BY <1>1 DEF DeleteIInv, DeletePlace
<1>4. ToldOnce'
  BY <1>1 DEF DeleteIInv, ToldOnce
<1> QED BY <1>1, <1>2, <1>3, <1>4 DEF DeleteIInv

LEMMA DeleteStepKeeps ==
    ASSUME DeleteIInv, NEW x \in deployment.deleters, DeleteStep(x), deployment' = deployment
    PROVE  DeleteIInv'
<1>t. /\ x \in Deleter /\ del \in [Deleter -> DeleteRow] /\ del[x] \in DeleteRow
      /\ points \in [Doc -> Source \cup {None}] /\ cached \in SUBSET (Reader \cup {None}) /\ base \in BOOLEAN
      /\ late \in [points : SUBSET Doc, answers : SUBSET Reader]
  BY IngestAssumption DEF DeleteIInv
<1>k. cached' = cached /\ late' = late /\ points' = points
        => (CacheClean => CacheClean') /\ (PointsClean => PointsClean')
  BY DEF CacheClean, PointsClean
<1>1. CASE DeleteLookup(x)
  <2>1. PICK row \in DeleteRow : del' = [del EXCEPT ![x] = row] /\ row.pc \in {"idle", "cache"} /\ row.answer # "deleted"
    BY <1>t, <1>1, GotoOrAnswer DEF DeleteLookup
  <2>2. /\ base' = base /\ cached' = cached /\ late' = late /\ docs' = docs /\ chunks' = chunks /\ points' = points
        /\ req' = req
    BY <1>1 DEF DeleteLookup, store, Spared
  <2> QED BY <1>t, <1>k, <2>1, <2>2, CleanupKeeps
<1>2. CASE DeleteSemanticCache(x)
  <2>0. del[x].pc = "cache" /\ del[x].answer # "deleted"
    BY <1>t, <1>2 DEF DeleteSemanticCache, DelAt, DeleteIInv, DeletePlace
  <2>1. PICK row \in DeleteRow : del' = [del EXCEPT ![x] = row] /\ row.pc = "points" /\ row.answer # "deleted"
    BY <1>t, <1>2, <2>0, GotoOrAnswer DEF DeleteSemanticCache
  <2>2. /\ base' = base /\ cached' = {} /\ docs' = docs /\ chunks' = chunks /\ points' = points
        /\ req' = req /\ late' = [late EXCEPT !.answers = {}]
    BY <1>2 DEF DeleteSemanticCache, Spared
  <2>3. late' \in [points : SUBSET Doc, answers : SUBSET Reader] /\ late'.points = late.points
    BY <1>t, <2>2
  <2>4. CacheClean' /\ (PointsClean => PointsClean') /\ cached' \in SUBSET (Reader \cup {None})
    BY <2>2, <2>3 DEF CacheClean, PointsClean
  <2> QED BY <1>t, <2>1, <2>2, <2>3, <2>4, CleanupKeeps
<1>3. CASE DeleteVectors(x)
  <2>0. del[x].pc = "points" /\ del[x].answer # "deleted" /\ CacheClean
    BY <1>t, <1>3 DEF DeleteVectors, DelAt, DeleteIInv, DeletePlace
  <2>1. PICK row \in DeleteRow : del' = [del EXCEPT ![x] = row] /\ row.pc = "rows" /\ row.answer # "deleted"
    BY <1>t, <1>3, <2>0, GotoOrAnswer DEF DeleteVectors
  <2>2. /\ base' = base /\ cached' = cached /\ docs' = docs /\ chunks' = chunks
        /\ req' = req /\ points' = [d \in Doc |-> None] /\ late' = [late EXCEPT !.points = {}]
    BY <1>3 DEF DeleteVectors, Spared
  <2>3. late' \in [points : SUBSET Doc, answers : SUBSET Reader] /\ late'.answers = late.answers
    BY <1>t, <2>2
  <2>4. PointsClean' /\ CacheClean' /\ points' \in [Doc -> Source \cup {None}]
    BY <2>0, <2>2, <2>3 DEF PointsClean, CacheClean
  <2> QED BY <1>t, <2>1, <2>2, <2>3, <2>4, CleanupKeeps
<1>4. CASE DeleteMetadata(x)
  <2>0. /\ del[x].pc = "rows" /\ del[x].answer # "deleted" /\ CacheClean /\ PointsClean
    BY <1>t, <1>4 DEF DeleteMetadata, DelAt, DeleteIInv, DeletePlace
  <2>1. points' = points /\ cached' = cached /\ late' = late
    BY <1>4 DEF DeleteMetadata, Spared
  <2>2. CASE ~base
    <3>1. PICK row \in DeleteRow : del' = [del EXCEPT ![x] = row] /\ row.pc = "idle" /\ row.answer # "deleted"
      BY <1>t, <1>4, <2>2, GotoOrAnswer DEF DeleteMetadata, MetadataAnswer
    <3>2. base' = base /\ docs' = docs /\ chunks' = chunks /\ req' = req
      BY <1>4, <2>2 DEF DeleteMetadata
    <3> QED BY <1>t, <1>k, <2>0, <2>1, <3>1, <3>2, CleanupKeeps
  <2>3. CASE base
    <3>1. PICK row \in DeleteRow : del' = [del EXCEPT ![x] = row] /\ row.pc = "idle" /\ row.answer = "deleted"
      BY <1>t, <1>4, <2>3, GotoOrAnswer DEF DeleteMetadata, MetadataAnswer
    <3>2. del' \in [Deleter -> DeleteRow] /\ \A y \in Deleter : del'[y] = IF y = x THEN row ELSE del[y]
      BY <1>t, <3>1, DeleterMoves
    <3>3. RowsDeleted
      BY <1>4, <2>3 DEF DeleteMetadata
    <3>4. /\ base' = FALSE /\ RowsGone' /\ docs' \in [Doc -> Source \cup {None}]
          /\ chunks' \in [Doc -> {"none", "staged", "searchable"}]
      BY <3>3 DEF RowsDeleted, RowsGone
    <3>5. req' = [k \in Ingest |-> [req[k] EXCEPT !.job = "none"]]
      BY <3>3 DEF RowsDeleted
    <3>6. ASSUME NEW j \in Ingest
          PROVE  /\ req'[j] \in RequestRow /\ req'[j].pc = req[j].pc
                 /\ req'[j].source = req[j].source /\ req'[j].doc = req[j].doc
      BY <3>5, <3>6 DEF DeleteIInv, RequestRow
    <3>7. /\ req' \in [Ingest -> RequestRow]
          /\ \A j \in Ingest : req'[j].pc # "idle" => req'[j].source \in Source /\ req'[j].doc \in Doc
      BY <2>1, <3>5, <3>6 DEF DeleteIInv
    <3>8. CacheClean' /\ PointsClean'
      BY <1>k, <2>0, <2>1
    <3>9. \A y \in Deleter : del[y].answer # "deleted"
      BY <2>3 DEF DeleteIInv, DeletePlace
    <3>10. DeletePlace'
      BY <2>0, <2>1, <3>1, <3>2, <3>4, <3>8, <3>9 DEF DeleteIInv, DeletePlace
    <3>11. ToldOnce'
      BY <3>2, <3>9 DEF ToldOnce
    <3>12. /\ cached' \in SUBSET (Reader \cup {None}) /\ late' \in [points : SUBSET Doc, answers : SUBSET Reader]
           /\ points' \in [Doc -> Source \cup {None}]
      BY <1>t, <2>1
    <3> QED BY <3>2, <3>4, <3>7, <3>8, <3>10, <3>11, <3>12 DEF DeleteIInv
  <2> QED BY <2>2, <2>3
<1>5. CASE DeleteFails(x)
  <2>1. PICK row \in DeleteRow : del' = [del EXCEPT ![x] = row] /\ row.pc = "idle" /\ row.answer # "deleted"
    BY <1>t, <1>5, GotoOrAnswer DEF DeleteFails
  <2>2. /\ base' = base /\ cached' = cached /\ late' = late /\ docs' = docs /\ chunks' = chunks /\ points' = points
        /\ req' = req
    BY <1>5 DEF DeleteFails, store, Spared
  <2> QED BY <1>t, <1>k, <2>1, <2>2, CleanupKeeps
<1> QED BY <1>1, <1>2, <1>3, <1>4, <1>5 DEF DeleteStep

LEMMA UnchangedKeeps ==
    ASSUME DeleteIInv, UNCHANGED <<deployment, base, docs, chunks, points, cached, late, req, del>>
    PROVE  DeleteIInv'
BY DEF DeleteIInv, RowsGone, PointsClean, CacheClean, DeletePlace, ToldOnce

\* An answer that is stored where the cache was cleaned is a late one.
LEMMA StoreAnswerKeeps ==
    ASSUME DeleteIInv, NEW q \in deployment.readers, StoreSemanticCache(q), deployment' = deployment
    PROVE  DeleteIInv'
<1>t. /\ q \in Reader /\ cached \in SUBSET (Reader \cup {None}) /\ base \in BOOLEAN
      /\ late \in [points : SUBSET Doc, answers : SUBSET Reader]
  BY IngestAssumption DEF DeleteIInv
<1>1. /\ base' = base /\ docs' = docs /\ chunks' = chunks /\ points' = points /\ req' = req /\ del' = del
      /\ cached' = cached \cup {q}
  BY DEF StoreSemanticCache
<1>2. PICK stored \in SUBSET Reader :
          /\ late' = [late EXCEPT !.answers = stored]
          /\ CleanedBefore({"points", "rows"}) => stored = late.answers \cup {q}
  BY <1>t DEF StoreSemanticCache
<1>3. /\ late' \in [points : SUBSET Doc, answers : SUBSET Reader]
      /\ late'.points = late.points /\ late'.answers = stored
  BY <1>t, <1>2
<1>4. PointsClean => PointsClean'
  BY <1>1, <1>3 DEF PointsClean
<1>5. CleanedBefore({"points", "rows"}) => (CacheClean => CacheClean')
  BY <1>1, <1>2, <1>3 DEF CacheClean
<1>6. base' = FALSE => CacheClean' /\ RowsGone' /\ PointsClean'
  BY <1>1, <1>4, <1>5 DEF DeleteIInv, CleanedBefore, RowsGone
<1>7. \A x \in Deleter : del[x].pc \in {"points", "rows"} => (CacheClean => CacheClean')
  BY <1>5 DEF CleanedBefore
<1>8. DeletePlace'
  BY <1>1, <1>4, <1>7 DEF DeleteIInv, DeletePlace
<1>9. ToldOnce' /\ cached' \in SUBSET (Reader \cup {None})
  BY <1>t, <1>1 DEF DeleteIInv, ToldOnce
<1> QED BY <1>1, <1>3, <1>6, <1>8, <1>9 DEF DeleteIInv

LEMMA DeleteInitial == Init => DeleteIInv
<1> SUFFICES ASSUME Init PROVE DeleteIInv
  OBVIOUS
<1>1. /\ req = [k \in Ingest |-> IdleRequest] /\ IdleRequest \in RequestRow /\ IdleRequest.pc = "idle"
  BY DEF Init, IdleRequest, RequestRow, Phases
<1>2. del \in [Deleter -> DeleteRow] /\ \A x \in Deleter : del[x].pc = "idle" /\ del[x].answer = "none"
  BY DEF Init, DeleteRow
<1>3. cached \in SUBSET (Reader \cup {None}) /\ late \in [points : SUBSET Doc, answers : SUBSET Reader]
  BY DEF Init
<1> QED BY <1>1, <1>2, <1>3, IngestAssumption DEF Init, DeleteIInv, DeletePlace, ToldOnce

LEMMA DeleteInductive == DeleteIInv /\ [Next]_vars => DeleteIInv'
<1> SUFFICES ASSUME DeleteIInv, [Next]_vars PROVE DeleteIInv'
  OBVIOUS
<1>1. ASSUME NEW k \in Ingest, IngestStep(k), deployment' = deployment PROVE DeleteIInv'
  BY <1>1, IngestStepKeeps
<1>2. ASSUME NEW h \in deployment.hosts, Crash(h), deployment' = deployment PROVE DeleteIInv'
  BY <1>2, CrashKeeps
<1>3. ASSUME NEW x \in deployment.deleters, DeleteStep(x), deployment' = deployment PROVE DeleteIInv'
  BY <1>3, DeleteStepKeeps
<1>4. ASSUME NEW q \in deployment.readers, QueryStep(q), deployment' = deployment PROVE DeleteIInv'
  BY <1>4, UnchangedKeeps, StoreAnswerKeeps DEF QueryStep, SearchPage, FilterPage, store
<1>5. CASE UNCHANGED vars
  BY <1>5, UnchangedKeeps DEF vars
<1> QED BY <1>1, <1>2, <1>3, <1>4, <1>5 DEF Next

LEMMA DeleteImplies == DeleteIInv => DeletionIsFinal
<1> SUFFICES ASSUME DeleteIInv PROVE DeletionIsFinal
  OBVIOUS
<1>1. OnlyLateWritesRemain /\ RowsStayDeleted
  BY DEF DeleteIInv, OnlyLateWritesRemain, RowsStayDeleted, RowsGone, PointsClean, CacheClean
<1> DEFINE told == {x \in Deleter : del[x].answer = "deleted"}
<1>2. Cardinality(told) <= 1
  <2>1. CASE told = {}
    BY <2>1, FS_EmptySet
  <2>2. CASE told # {}
    <3>0. PICK x \in Deleter : x \in told
      BY <2>2
    <3>1. told = {x}
      BY <3>0 DEF DeleteIInv, ToldOnce
    <3>2. Cardinality({x}) = 1
      BY FS_Singleton
    <3> HIDE DEF told
    <3> QED BY <3>1, <3>2
  <2> QED BY <2>1, <2>2
<1>3. told # {} => ~base
  BY DEF DeleteIInv, DeletePlace
<1> QED BY <1>1, <1>2, <1>3 DEF DeletionIsFinal, DeletedOnce

\* A deletion ends once and leaves nothing behind of what it found; only what an
\* ingestion or a query wrote after its store was cleaned remains, whatever number of
\* requests, processes and faults it meets (DeleteKnowledgeBase).
THEOREM DeletionFinal == IngestSpec => []DeletionIsFinal
<1>1. Init => DeleteIInv
  BY DeleteInitial
<1>2. DeleteIInv /\ [Next]_vars => DeleteIInv'
  BY DeleteInductive
<1>3. DeleteIInv => DeletionIsFinal
  BY DeleteImplies
<1> QED BY <1>1, <1>2, <1>3, PTL DEF IngestSpec

(***************************************************************************)
(* What can be found                                                       *)
(***************************************************************************)

\* Every content belongs to one source, and a named source has one version
\* when the service starts.
SeparateContents ==
    /\ \A s, r \in Source : ContentOf[s] \cap ContentOf[r] # {} => s = r
    /\ \A d \in Doc : Preloaded[d] # None => d \in ContentOf[Preloaded[d]]
    /\ \A d, e \in Doc : Preloaded[d] \notin {None, NoURI} /\ Preloaded[d] = Preloaded[e] => d = e

\* The places where a request has taken its source's mutex and committed nothing.
Unsettled == {"stage", "vectors", "prepare", "commit", "abort_vectors", "abort_rows", "fail"}

\* Rows and points are those of their source; chunks have a row.
OwnRows ==
    \A d \in Doc : /\ docs[d] # None => d \in ContentOf[docs[d]]
                   /\ points[d] # None => d \in ContentOf[points[d]]
                   /\ chunks[d] # "none" => docs[d] # None

OneVersion == \A s \in Source \ {NoURI} : \A d, e \in Active(s) : d = e

OwnRequests ==
    \A k \in Ingest : req[k].pc # "idle" => req[k].doc \in ContentOf[req[k].source] /\ req[k].host \in deployment.hosts

\* sourceLocks: one request of a process at a time works on a source.
SourceMutex ==
    \A j, k \in Ingest : HoldsLock(j) /\ HoldsLock(k) /\ j # k => req[j].host # req[k].host \/ req[j].source # req[k].source

PriorActive ==
    OneProcess => \A k \in Ingest : req[k].pc \in Unsettled /\ base => Active(req[k].source) = req[k].prior

\* What finalization removes has been superseded.
OnlyNewActive ==
    OneProcess => \A k \in Ingest :
        req[k].pc = "finalize" /\ req[k].doc \notin Blank /\ req[k].source # NoURI => Active(req[k].source) \subseteq {req[k].doc}

\* A version has its points before it is committed.
PointsFirst ==
    OneProcess /\ Undeleted =>
        /\ \A d \in Searchable : points[d] # None
        /\ \A k \in Ingest : req[k].pc \in {"prepare", "commit"} /\ req[k].doc \notin Blank => points[req[k].doc] # None

\* The inductive invariant, beside DeleteIInv.
WholeIInv ==
    /\ OwnRows /\ OneVersion /\ OwnRequests /\ SourceMutex
    /\ PriorActive /\ OnlyNewActive /\ PointsFirst

\* A request that holds a mutex held it before, with what it has now; one that
\* has committed nothing had committed nothing.
RequestsGoOn ==
    \A j \in Ingest : HoldsLock(j)' =>
        /\ HoldsLock(j)
        /\ req'[j].host = req[j].host /\ req'[j].source = req[j].source
        /\ req'[j].doc = req[j].doc /\ req'[j].prior = req[j].prior
        /\ req'[j].pc \in Unsettled => req[j].pc \in Unsettled

SameActive == \A s \in Source : Active(s)' = Active(s)

\* The step of NoGap.
NoLoss == \A s \in Source : Active(s) # {} /\ base' => Active(s)' # {}

LEMMA MutexKept ==
    ASSUME SourceMutex, RequestsGoOn
    PROVE  SourceMutex'
BY DEF SourceMutex, RequestsGoOn

LEMMA PriorKept ==
    ASSUME DeleteIInv, PriorActive, RequestsGoOn, deployment' = deployment, base' => base, base' => SameActive
    PROVE  PriorActive'
<1> SUFFICES ASSUME OneProcess', NEW j \in Ingest, req'[j].pc \in Unsettled, base'
             PROVE  Active(req[j].source)' = req'[j].prior
  BY DEF PriorActive
<1>1. OneProcess
  BY DEF OneProcess
<1>2. req[j].pc \in Unsettled /\ req'[j].source = req[j].source /\ req'[j].prior = req[j].prior /\ req[j].pc # "idle"
  BY DEF RequestsGoOn, HoldsLock, Unsettled
<1>3. PICK s \in Source : s = req[j].source
  BY <1>2 DEF DeleteIInv
<1>4. Active(s) = req[j].prior
  BY <1>1, <1>2, <1>3 DEF PriorActive
<1>5. Active(req[j].source)' = Active(s)'
  BY <1>2, <1>3 DEF Active
<1> QED BY <1>2, <1>4, <1>5 DEF SameActive

LEMMA OnlyNewKept ==
    ASSUME DeleteIInv, OnlyNewActive, RequestsGoOn, deployment' = deployment,
           \A s \in Source : Active(s)' \subseteq Active(s),
           \A j \in Ingest : req'[j].pc = "finalize" => req[j].pc = "finalize" \/ req[j].doc \in Blank
    PROVE  OnlyNewActive'
<1> SUFFICES ASSUME OneProcess', NEW j \in Ingest, req'[j].pc = "finalize", req'[j].doc \notin Blank, req'[j].source # NoURI
             PROVE  Active(req[j].source)' \subseteq {req'[j].doc}
  BY DEF OnlyNewActive
<1>1. OneProcess
  BY DEF OneProcess
<1>2. req'[j].source = req[j].source /\ req'[j].doc = req[j].doc /\ req[j].pc = "finalize"
  BY DEF RequestsGoOn, HoldsLock
<1>3. PICK s \in Source : s = req[j].source
  BY <1>2 DEF DeleteIInv
<1>4. Active(s) \subseteq {req[j].doc}
  BY <1>1, <1>2, <1>3 DEF OnlyNewActive
<1>5. Active(req[j].source)' = Active(s)'
  BY <1>2, <1>3 DEF Active
<1> QED BY <1>2, <1>4, <1>5

LEMMA VersionKept ==
    ASSUME OneVersion, \A s \in Source : Active(s)' \subseteq Active(s)
    PROVE  OneVersion'
<1> SUFFICES ASSUME NEW s \in Source \ {NoURI}, NEW d \in Active(s)', NEW e \in Active(s)'
             PROVE  d = e
  BY DEF OneVersion
<1>1. d \in Active(s) /\ e \in Active(s)
  OBVIOUS
<1> QED BY <1>1 DEF OneVersion

LEMMA PointsKept ==
    ASSUME DeleteIInv, PointsFirst, RequestsGoOn, deployment' = deployment, Undeleted' => Undeleted,
           \A d \in Searchable' : d \in Searchable,
           \A d \in Doc : points[d] # None => points'[d] # None,
           \A j \in Ingest : req'[j].pc \in {"prepare", "commit"} => req[j].pc \in {"prepare", "commit"}
    PROVE  PointsFirst'
<1> SUFFICES ASSUME OneProcess', Undeleted'
             PROVE  /\ \A d \in Searchable' : points'[d] # None
                    /\ \A k \in Ingest : req'[k].pc \in {"prepare", "commit"} /\ req'[k].doc \notin Blank
                                            => points'[req'[k].doc] # None
  BY DEF PointsFirst
<1>1. OneProcess /\ Undeleted
  BY DEF OneProcess
<1>2. \A d \in Searchable' : points'[d] # None
  BY <1>1 DEF PointsFirst, Searchable
<1>3. ASSUME NEW k \in Ingest, req'[k].pc \in {"prepare", "commit"}, req'[k].doc \notin Blank
      PROVE  points'[req'[k].doc] # None
  <2>1. req[k].pc \in {"prepare", "commit"} /\ req'[k].doc = req[k].doc /\ req[k].doc \in Doc
    BY <1>3 DEF RequestsGoOn, HoldsLock, DeleteIInv
  <2>2. points[req[k].doc] # None
    BY <1>1, <1>3, <2>1 DEF PointsFirst
  <2> QED BY <2>1, <2>2
<1> QED BY <1>2, <1>3

\* Two requests of the one process work on two sources.
LEMMA OtherSource ==
    ASSUME DeleteIInv, OwnRequests, SourceMutex, OneProcess, NEW j \in Ingest, NEW k \in Ingest, j # k,
           HoldsLock(j), HoldsLock(k)
    PROVE  req[j].source # req[k].source
<1>1. deployment.hosts \subseteq Host /\ IsFiniteSet(deployment.hosts)
  BY IngestAssumption, FS_Subset DEF DeleteIInv
<1>2. PICK h : deployment.hosts = {h}
  BY <1>1, FS_Singleton DEF OneProcess
<1>3. req[j].host = h /\ req[k].host = h
  BY <1>2 DEF OwnRequests, HoldsLock
<1> QED BY <1>3 DEF SourceMutex

LEMMA WholeKept ==
    ASSUME DeleteIInv, WholeIInv, deployment' = deployment, OwnRows', OwnRequests', PointsFirst', RequestsGoOn,
           base' => base, base' => SameActive, \A s \in Source : Active(s)' \subseteq Active(s),
           \A j \in Ingest : req'[j].pc = "finalize" => req[j].pc = "finalize" \/ req[j].doc \in Blank
    PROVE  WholeIInv' /\ NoLoss
<1>1. SourceMutex' /\ PriorActive' /\ OnlyNewActive' /\ OneVersion'
  BY MutexKept, PriorKept, OnlyNewKept, VersionKept DEF WholeIInv
<1>2. NoLoss
  BY DEF NoLoss, SameActive
<1> QED BY <1>1, <1>2 DEF WholeIInv

LEMMA OwnRequestsKept ==
    ASSUME OwnRequests, deployment' = deployment,
           \A j \in Ingest : req'[j].pc # "idle" =>
               req[j].pc # "idle" /\ req'[j].host = req[j].host /\ req'[j].source = req[j].source /\ req'[j].doc = req[j].doc
    PROVE  OwnRequests'
BY DEF OwnRequests

\* The stores and the DELETE requests stay as they are.
LEMMA StoresKept ==
    ASSUME DeleteIInv, WholeIInv, deployment' = deployment, OwnRequests', RequestsGoOn,
           base' = base, docs' = docs, chunks' = chunks, points' = points, del' = del,
           \A j \in Ingest : req'[j].pc = "finalize" => req[j].pc = "finalize" \/ req[j].doc \in Blank,
           \A j \in Ingest : req'[j].pc \in {"prepare", "commit"} => req[j].pc \in {"prepare", "commit"}
    PROVE  WholeIInv' /\ NoLoss
<1>1. OwnRows'
  BY DEF WholeIInv, OwnRows
<1>2. Searchable' = Searchable /\ (Undeleted' => Undeleted)
  BY DEF Searchable, Undeleted
<1>3. \A s \in Source : Active(s)' = Active(s)
  BY <1>2 DEF Active
<1>4. PointsFirst'
  BY <1>2, PointsKept DEF WholeIInv
<1> QED BY <1>1, <1>3, <1>4, WholeKept DEF SameActive

\* One request moves on in its own phase.
LEMMA GotoMoves ==
    ASSUME DeleteIInv, NEW k \in Ingest, NEW pc \in Phases, Goto(k, pc)
    PROVE  /\ req'[k].pc = pc
           /\ \A j \in Ingest : /\ req'[j].host = req[j].host /\ req'[j].source = req[j].source
                                /\ req'[j].doc = req[j].doc /\ req'[j].prior = req[j].prior
                                /\ j # k => req'[j].pc = req[j].pc
<1>1. req \in [Ingest -> RequestRow] /\ req' = [req EXCEPT ![k] = [req[k] EXCEPT !.pc = pc]]
  BY DEF DeleteIInv, Goto
<1>2. PICK row : row = [req[k] EXCEPT !.pc = pc]
  OBVIOUS
<1>3. /\ row.pc = pc /\ row.host = req[k].host /\ row.source = req[k].source /\ row.doc = req[k].doc
      /\ row.prior = req[k].prior
  BY <1>1, <1>2 DEF RequestRow
<1>4. \A j \in Ingest : req'[j] = IF j = k THEN row ELSE req[j]
  BY <1>1, <1>2
<1> QED BY <1>3, <1>4

LEMMA GotoGoesOn ==
    ASSUME DeleteIInv, OwnRequests, deployment' = deployment, NEW k \in Ingest, NEW pc \in Phases, Goto(k, pc),
           req[k].pc # "idle", pc \in {"idle", "lock"} \/ HoldsLock(k), pc \in Unsettled => req[k].pc \in Unsettled
    PROVE  RequestsGoOn /\ OwnRequests'
<1>1. /\ req'[k].pc = pc
      /\ \A j \in Ingest : /\ req'[j].host = req[j].host /\ req'[j].source = req[j].source
                           /\ req'[j].doc = req[j].doc /\ req'[j].prior = req[j].prior
                           /\ j # k => req'[j].pc = req[j].pc
  BY GotoMoves
<1>2. \A j \in Ingest : HoldsLock(j)' => HoldsLock(j) /\ (req'[j].pc \in Unsettled => req[j].pc \in Unsettled)
  BY <1>1 DEF HoldsLock
<1>3. RequestsGoOn
  BY <1>1, <1>2 DEF RequestsGoOn
<1>4. OwnRequests'
  BY <1>1, OwnRequestsKept
<1> QED BY <1>3, <1>4

\* A request moves on and the stores stay.
LEMMA QuietWhole ==
    ASSUME DeleteIInv, WholeIInv, deployment' = deployment, NEW k \in Ingest, NEW pc \in Phases, Goto(k, pc),
           req[k].pc # "idle", pc \in {"idle", "lock"} \/ HoldsLock(k), pc \in Unsettled => req[k].pc \in Unsettled,
           base' = base, docs' = docs, chunks' = chunks, points' = points, del' = del,
           pc = "finalize" => req[k].doc \in Blank,
           pc \in {"prepare", "commit"} => req[k].pc \in {"prepare", "commit"}
    PROVE  WholeIInv' /\ NoLoss
<1>1. RequestsGoOn /\ OwnRequests'
  BY GotoGoesOn DEF WholeIInv
<1>2. /\ \A j \in Ingest : req'[j].pc = "finalize" => req[j].pc = "finalize" \/ req[j].doc \in Blank
      /\ \A j \in Ingest : req'[j].pc \in {"prepare", "commit"} => req[j].pc \in {"prepare", "commit"}
  BY GotoMoves
<1> QED BY <1>1, <1>2, StoresKept

\* The transaction of CommitActivation replaces what its source had.
LEMMA CommitActive ==
    ASSUME SeparateContents, DeleteIInv, OwnRows, NEW s \in Source, NEW d \in ContentOf[s],
           CandidateExists(d), Activated(s, d), points' = points
    PROVE  /\ OwnRows'
           /\ d \in Active(s)' /\ (s # NoURI => Active(s)' = {d})
           /\ \A r \in Source : r # s => Active(r)' = Active(r)
           /\ \A e \in Searchable' : e \in Searchable \/ e = d
<1>t. /\ docs \in [Doc -> Source \cup {None}] /\ chunks \in [Doc -> {"none", "staged", "searchable"}] /\ d \in Doc
      /\ None \notin Source
  BY IngestAssumption DEF DeleteIInv
<1>1. /\ \A e \in Doc : docs'[e] = IF e \in Superseded(s, d) THEN None ELSE docs[e]
      /\ \A e \in Doc : chunks'[e] = IF e = d THEN "searchable" ELSE IF e \in Superseded(s, d) THEN "none" ELSE chunks[e]
  BY <1>t DEF Activated, Without
<1>2. docs[d] = s
  BY <1>t DEF CandidateExists, OwnRows, SeparateContents
<1>3. /\ d \notin Superseded(s, d) /\ \A e \in Superseded(s, d) : docs[e] = s /\ e \in Doc
      /\ s # NoURI => \A e \in Doc : e # d /\ docs[e] = s => e \in Superseded(s, d)
  BY DEF Superseded
<1>4. OwnRows'
  BY <1>t, <1>1, <1>2, <1>3 DEF OwnRows
<1>5. d \in Active(s)'
  BY <1>t, <1>1, <1>2, <1>3 DEF Active, Searchable
<1>6. s # NoURI => Active(s)' = {d}
  BY <1>t, <1>1, <1>3, <1>5 DEF Active, Searchable
<1>7. \A r \in Source : r # s => Active(r)' = Active(r)
  BY <1>t, <1>1, <1>2, <1>3 DEF Active, Searchable
<1>8. \A e \in Searchable' : e \in Searchable \/ e = d
  BY <1>t, <1>1 DEF Searchable
<1> QED BY <1>4, <1>5, <1>6, <1>7, <1>8

\* ... for a request whose next phase is pc; without its answer in a process
\* that is not alone.
LEMMA CommitWhole ==
    ASSUME SeparateContents, DeleteIInv, WholeIInv, deployment' = deployment, NEW k \in Ingest, At(k, "commit"),
           CandidateExists(req[k].doc), Activated(req[k].source, req[k].doc), NEW pc \in {"finalize", "abort_vectors"},
           Goto(k, pc), pc = "abort_vectors" => deployment.lostAcks,
           req[k].doc \notin Blank, base' = base, points' = points, del' = del
    PROVE  WholeIInv' /\ NoLoss
<1>1. PICK s \in Source : s = req[k].source
  BY DEF DeleteIInv, At
<1>2. PICK d \in ContentOf[s] : d = req[k].doc
  BY <1>1 DEF WholeIInv, OwnRequests, At
<1>3. /\ OwnRows'
      /\ d \in Active(s)' /\ (s # NoURI => Active(s)' = {d})
      /\ \A r \in Source : r # s => Active(r)' = Active(r)
      /\ \A e \in Searchable' : e \in Searchable \/ e = d
  BY <1>1, <1>2, CommitActive DEF WholeIInv
<1>4. HoldsLock(k) /\ req[k].pc = "commit" /\ pc \in Phases
  BY DEF HoldsLock, At, Phases
<1>5. RequestsGoOn /\ OwnRequests'
  BY <1>4, GotoGoesOn DEF WholeIInv, Unsettled
<1>6. /\ req'[k].pc = pc
      /\ \A j \in Ingest : /\ req'[j].host = req[j].host /\ req'[j].source = req[j].source
                           /\ req'[j].doc = req[j].doc /\ req'[j].prior = req[j].prior
                           /\ j # k => req'[j].pc = req[j].pc
  BY <1>4, GotoMoves
<1>7. SourceMutex'
  BY <1>5, MutexKept DEF WholeIInv
<1>8. OneVersion'
  <2> SUFFICES ASSUME NEW r \in Source \ {NoURI}, NEW x \in Active(r)', NEW y \in Active(r)' PROVE x = y
    BY DEF OneVersion
  <2>1. CASE r = s
    BY <1>3, <2>1
  <2>2. CASE r # s
    BY <1>3, <2>2 DEF WholeIInv, OneVersion
  <2> QED BY <2>1, <2>2
<1>9. ASSUME OneProcess', NEW j \in Ingest, j # k, HoldsLock(j)
      PROVE  Active(req[j].source)' = Active(req[j].source)
  <2>1. OneProcess
    BY <1>9 DEF OneProcess
  <2>2. PICK r \in Source : r = req[j].source
    BY <1>9 DEF DeleteIInv, HoldsLock
  <2>3. r # s
    BY <1>1, <1>4, <1>9, <2>1, <2>2, OtherSource DEF WholeIInv
  <2>4. Active(req[j].source)' = Active(r)'
    BY <1>6, <2>2 DEF Active
  <2> QED BY <1>3, <2>2, <2>3, <2>4
<1>10. PriorActive'
  <2> SUFFICES ASSUME OneProcess', NEW j \in Ingest, req'[j].pc \in Unsettled, base'
               PROVE  Active(req[j].source)' = req'[j].prior
    BY DEF PriorActive
  <2>1. j # k
    BY <1>6 DEF OneProcess, Unsettled
  <2>2. HoldsLock(j) /\ req[j].pc \in Unsettled /\ OneProcess
    BY <1>6, <2>1 DEF HoldsLock, Unsettled, OneProcess
  <2>3. Active(req[j].source) = req[j].prior
    BY <2>2 DEF WholeIInv, PriorActive
  <2> QED BY <1>6, <1>9, <2>1, <2>2, <2>3
<1>11. OnlyNewActive'
  <2> SUFFICES ASSUME OneProcess', NEW j \in Ingest, req'[j].pc = "finalize", req'[j].doc \notin Blank,
                      req'[j].source # NoURI
               PROVE  Active(req[j].source)' \subseteq {req'[j].doc}
    BY DEF OnlyNewActive
  <2>1. CASE j = k
    <3>1. Active(req[j].source)' = Active(s)'
      BY <1>1, <1>6, <2>1 DEF Active
    <3> QED BY <1>1, <1>2, <1>3, <1>6, <2>1, <3>1
  <2>2. CASE j # k
    <3>1. HoldsLock(j) /\ req[j].pc = "finalize" /\ OneProcess
      BY <1>6, <2>2 DEF HoldsLock, OneProcess
    <3>2. Active(req[j].source) \subseteq {req[j].doc}
      BY <1>6, <3>1 DEF WholeIInv, OnlyNewActive
    <3> QED BY <1>6, <1>9, <2>2, <3>1, <3>2
  <2> QED BY <2>1, <2>2
<1>12. PointsFirst'
  <2> SUFFICES ASSUME OneProcess', Undeleted'
               PROVE  /\ \A e \in Searchable' : points'[e] # None
                      /\ \A j \in Ingest : req'[j].pc \in {"prepare", "commit"} /\ req'[j].doc \notin Blank
                                              => points'[req'[j].doc] # None
    BY DEF PointsFirst
  <2>1. OneProcess /\ Undeleted
    BY DEF OneProcess, Undeleted
  <2>2. points[d] # None
    BY <1>2, <1>4, <2>1 DEF WholeIInv, PointsFirst
  <2>3. \A e \in Searchable' : points'[e] # None
    BY <1>3, <2>1, <2>2 DEF WholeIInv, PointsFirst
  <2>4. \A j \in Ingest : req'[j].pc \in {"prepare", "commit"} => req[j].pc \in {"prepare", "commit"}
    BY <1>4, <1>6
  <2>5. \A j \in Ingest : req'[j].pc \in {"prepare", "commit"} /\ req'[j].doc \notin Blank => points'[req'[j].doc] # None
    BY <1>6, <2>1, <2>4 DEF WholeIInv, PointsFirst
  <2> QED BY <2>3, <2>5
<1>13. NoLoss
  BY <1>3 DEF NoLoss
<1> QED BY <1>3, <1>5, <1>7, <1>8, <1>10, <1>11, <1>12, <1>13 DEF WholeIInv

\* Rows are written or abandoned below what is searchable.
LEMMA RowsWhole ==
    ASSUME DeleteIInv, WholeIInv, deployment' = deployment, NEW k \in Ingest, NEW pc \in Phases, Goto(k, pc),
           HoldsLock(k), pc \in Unsettled, req[k].pc \in Unsettled, pc \notin {"prepare", "commit"},
           base' = base, points' = points, del' = del, OwnRows',
           \A d \in Doc : (chunks'[d] = "searchable" <=> chunks[d] = "searchable")
                          /\ (chunks[d] = "searchable" => docs'[d] = docs[d])
    PROVE  WholeIInv' /\ NoLoss
<1>1. RequestsGoOn /\ OwnRequests'
  BY GotoGoesOn DEF WholeIInv, HoldsLock
<1>2. /\ \A j \in Ingest : req'[j].pc = "finalize" => req[j].pc = "finalize" \/ req[j].doc \in Blank
      /\ \A j \in Ingest : req'[j].pc \in {"prepare", "commit"} => req[j].pc \in {"prepare", "commit"}
  BY GotoMoves DEF Unsettled
<1>3. Searchable' = Searchable /\ (Undeleted' => Undeleted)
  BY DEF Searchable, Undeleted
<1>4. \A s \in Source : Active(s)' = Active(s)
  BY <1>3 DEF Active, Searchable
<1>5. PointsFirst'
  BY <1>1, <1>2, <1>3, PointsKept DEF WholeIInv
<1> QED BY <1>1, <1>2, <1>4, <1>5, WholeKept DEF SameActive

LEMMA BeginWhole ==
    ASSUME DeleteIInv, WholeIInv, deployment' = deployment, NEW k \in Ingest,
           NEW h \in deployment.hosts, NEW s \in deployment.sources, NEW d \in ContentOf[s], Begin(k, h, s, d)
    PROVE  WholeIInv' /\ NoLoss
<1> DEFINE rq == [[[[IdleRequest EXCEPT !.pc = "lock"] EXCEPT !.host = h] EXCEPT !.source = s] EXCEPT !.doc = d]
<1>1. rq.pc = "lock" /\ rq.source = s /\ rq.doc = d /\ rq.host = h
  BY DEF IdleRequest
<1>2. /\ req' = [req EXCEPT ![k] = rq]
      /\ base' = base /\ docs' = docs /\ chunks' = chunks /\ points' = points /\ del' = del
  BY DEF Begin, store, IdleRequest
<1> HIDE DEF rq
<1>3. \A j \in Ingest : req'[j] = IF j = k THEN rq ELSE req[j]
  BY <1>2 DEF DeleteIInv
<1>4. OwnRequests'
  BY <1>1, <1>3 DEF WholeIInv, OwnRequests
<1>5. RequestsGoOn
  BY <1>1, <1>3 DEF RequestsGoOn, HoldsLock
<1>6. /\ \A j \in Ingest : req'[j].pc = "finalize" => req[j].pc = "finalize" \/ req[j].doc \in Blank
      /\ \A j \in Ingest : req'[j].pc \in {"prepare", "commit"} => req[j].pc \in {"prepare", "commit"}
  BY <1>1, <1>3
<1> QED BY <1>2, <1>4, <1>5, <1>6, StoresKept

\* The mutex is taken, and what is active noted.
LEMMA CreateJobWhole ==
    ASSUME DeleteIInv, WholeIInv, deployment' = deployment, NEW k \in Ingest, CreateJob(k)
    PROVE  WholeIInv' /\ NoLoss
<1>t. /\ req \in [Ingest -> RequestRow] /\ req[k] \in RequestRow /\ base \in BOOLEAN
  BY DEF DeleteIInv
<1> DEFINE started == [[[req[k] EXCEPT !.pc = "stage"] EXCEPT !.job = "running"] EXCEPT !.prior = Active(req[k].source)]
           refused == [req[k] EXCEPT !.pc = "idle"]
<1>1. /\ started.pc = "stage" /\ started.host = req[k].host /\ started.source = req[k].source /\ started.doc = req[k].doc
      /\ started.prior = Active(req[k].source) /\ refused.pc = "idle"
  BY <1>t DEF RequestRow
<1>2. /\ req[k].pc = "lock" /\ LockFree(k)
      /\ req' = [req EXCEPT ![k] = IF base THEN started ELSE refused]
      /\ base' = base /\ docs' = docs /\ chunks' = chunks /\ points' = points /\ del' = del
  BY <1>t DEF CreateJob, At, Others, store
<1> HIDE DEF started, refused
<1>3. CASE ~base
  <2>1. \A j \in Ingest : req'[j] = IF j = k THEN refused ELSE req[j]
    BY <1>t, <1>2, <1>3
  <2>2. OwnRequests'
    BY <1>1, <2>1, OwnRequestsKept DEF WholeIInv
  <2>3. RequestsGoOn
    BY <1>1, <2>1 DEF RequestsGoOn, HoldsLock
  <2>4. /\ \A j \in Ingest : req'[j].pc = "finalize" => req[j].pc = "finalize" \/ req[j].doc \in Blank
        /\ \A j \in Ingest : req'[j].pc \in {"prepare", "commit"} => req[j].pc \in {"prepare", "commit"}
    BY <1>1, <2>1
  <2> QED BY <1>2, <2>2, <2>3, <2>4, StoresKept
<1>4. CASE base
  <2>1. \A j \in Ingest : req'[j] = IF j = k THEN started ELSE req[j]
    BY <1>t, <1>2, <1>4
  <2>2. OwnRequests'
    BY <1>1, <1>2, <2>1, OwnRequestsKept DEF WholeIInv
  <2>3. OwnRows' /\ Searchable' = Searchable
    BY <1>2 DEF WholeIInv, OwnRows, Searchable
  <2>4. SourceMutex'
    <3>1. \A j \in Ingest : /\ j # k => (HoldsLock(j)' <=> HoldsLock(j))
                            /\ req'[j].host = req[j].host /\ req'[j].source = req[j].source
      BY <1>1, <2>1 DEF HoldsLock
    <3>2. \A j \in Ingest : j # k /\ HoldsLock(j) => req[j].host # req[k].host \/ req[j].source # req[k].source
      BY <1>2 DEF LockFree
    <3> QED BY <3>1, <3>2 DEF WholeIInv, SourceMutex
  <2>5. \A s \in Source : Active(s)' = Active(s)
    BY <1>2, <2>3 DEF Active
  <2>6. \A j \in Ingest : Active(req[j].source)' = Active(req[j].source)
    BY <1>1, <1>2, <2>1, <2>3 DEF Active
  <2>7. PriorActive'
    <3> SUFFICES ASSUME OneProcess', NEW j \in Ingest, req'[j].pc \in Unsettled, base'
                 PROVE  Active(req[j].source)' = req'[j].prior
      BY DEF PriorActive
    <3>1. CASE j = k
      BY <1>1, <2>1, <2>6, <3>1
    <3>2. CASE j # k
      BY <1>2, <2>1, <2>6, <3>2 DEF WholeIInv, PriorActive, OneProcess
    <3> QED BY <3>1, <3>2
  <2>8. OnlyNewActive'
    <3> SUFFICES ASSUME OneProcess', NEW j \in Ingest, req'[j].pc = "finalize", req'[j].doc \notin Blank,
                        req'[j].source # NoURI
                 PROVE  Active(req[j].source)' \subseteq {req'[j].doc}
      BY DEF OnlyNewActive
    <3>1. j # k
      BY <1>1, <2>1
    <3> QED BY <2>1, <2>6, <3>1 DEF WholeIInv, OnlyNewActive, OneProcess
  <2>9. PointsFirst'
    BY <1>1, <1>2, <2>1, <2>3 DEF WholeIInv, PointsFirst, OneProcess, Undeleted
  <2>10. OneVersion' /\ NoLoss
    BY <2>5, VersionKept DEF WholeIInv, NoLoss
  <2> QED BY <2>2, <2>3, <2>4, <2>7, <2>8, <2>9, <2>10 DEF WholeIInv
<1> QED BY <1>3, <1>4

LEMMA StageVectorsWhole ==
    ASSUME DeleteIInv, WholeIInv, deployment' = deployment, NEW k \in Ingest, StageVectors(k)
    PROVE  WholeIInv' /\ NoLoss
<1>1. /\ req[k].pc = "vectors" /\ Goto(k, "prepare") /\ HoldsLock(k)
      /\ base' = base /\ docs' = docs /\ chunks' = chunks /\ del' = del
  BY DEF StageVectors, At, Others, HoldsLock
<1>2. PICK d \in Doc : d = req[k].doc
  BY <1>1 DEF DeleteIInv
<1>3. PICK s \in Source : s = req[k].source /\ d \in ContentOf[s] /\ s # None
  BY <1>1, <1>2, IngestAssumption DEF DeleteIInv, WholeIInv, OwnRequests
<1>4. \A e \in Doc : points'[e] = IF e = d /\ d \notin Blank THEN s ELSE points[e]
  BY <1>2, <1>3 DEF StageVectors, DeleteIInv
<1>5. RequestsGoOn /\ OwnRequests'
  BY <1>1, GotoGoesOn DEF WholeIInv, Unsettled, Phases
<1>6. /\ req'[k].pc = "prepare"
      /\ \A j \in Ingest : req'[j].doc = req[j].doc /\ (j # k => req'[j].pc = req[j].pc)
  BY <1>1, GotoMoves DEF Phases
<1>7. OwnRows'
  BY <1>1, <1>3, <1>4 DEF WholeIInv, OwnRows
<1>8. Searchable' = Searchable
  BY <1>1 DEF Searchable
<1>9. \A r \in Source : Active(r)' = Active(r)
  BY <1>1, <1>8 DEF Active
<1>10. PointsFirst'
  <2> SUFFICES ASSUME OneProcess', Undeleted'
               PROVE  /\ \A e \in Searchable' : points'[e] # None
                      /\ \A j \in Ingest : req'[j].pc \in {"prepare", "commit"} /\ req'[j].doc \notin Blank
                                              => points'[req'[j].doc] # None
    BY DEF PointsFirst
  <2>1. OneProcess /\ Undeleted
    BY <1>1 DEF OneProcess, Undeleted
  <2>2. \A e \in Searchable' : points'[e] # None
    BY <1>3, <1>4, <1>8, <2>1 DEF WholeIInv, PointsFirst, Searchable
  <2>3. ASSUME NEW j \in Ingest, req'[j].pc \in {"prepare", "commit"}, req'[j].doc \notin Blank
        PROVE  points'[req'[j].doc] # None
    <3>1. CASE j = k
      BY <1>2, <1>3, <1>4, <1>6, <2>3, <3>1
    <3>2. CASE j # k
      <4>1. req[j].pc \in {"prepare", "commit"} /\ req[j].doc \in Doc /\ req'[j].doc = req[j].doc
        BY <1>6, <2>3, <3>2 DEF DeleteIInv
      <4>2. points[req[j].doc] # None
        BY <2>1, <2>3, <4>1 DEF WholeIInv, PointsFirst
      <4> QED BY <1>3, <1>4, <4>1, <4>2
    <3> QED BY <3>1, <3>2
  <2> QED BY <2>2, <2>3
<1>11. \A j \in Ingest : req'[j].pc = "finalize" => req[j].pc = "finalize" \/ req[j].doc \in Blank
  BY <1>6
<1> QED BY <1>1, <1>5, <1>7, <1>9, <1>10, <1>11, WholeKept DEF SameActive

LEMMA FinalizeWhole ==
    ASSUME SeparateContents, DeleteIInv, WholeIInv, deployment' = deployment, NEW k \in Ingest, FinalizeActivation(k)
    PROVE  WholeIInv' /\ NoLoss
<1>1. /\ req[k].pc = "finalize" /\ Goto(k, "succeed") /\ HoldsLock(k)
      /\ base' = base /\ docs' = docs /\ chunks' = chunks /\ del' = del
  BY DEF FinalizeActivation, At, Others, HoldsLock
<1>2. PICK s \in Source : s = req[k].source
  BY <1>1 DEF DeleteIInv
<1>3. PICK d \in Doc : d = req[k].doc
  BY <1>1 DEF DeleteIInv
<1>4. \A e \in Doc : points'[e] = IF d \notin Blank /\ e \in Obsolete(s, d) THEN None ELSE points[e]
  BY <1>2, <1>3 DEF FinalizeActivation, Without, DeleteIInv
<1>o. \A e \in Obsolete(s, d) : s # NoURI /\ e # d /\ points[e] = s /\ e \in Doc
  BY DEF Obsolete
<1>5. RequestsGoOn /\ OwnRequests'
  BY <1>1, GotoGoesOn DEF WholeIInv, Unsettled, Phases
<1>6. /\ req'[k].pc = "succeed"
      /\ \A j \in Ingest : req'[j].doc = req[j].doc /\ (j # k => req'[j].pc = req[j].pc)
  BY <1>1, GotoMoves DEF Phases
<1>7. OwnRows'
  BY <1>1, <1>4 DEF WholeIInv, OwnRows
<1>8. Searchable' = Searchable
  BY <1>1 DEF Searchable
<1>9. \A r \in Source : Active(r)' = Active(r)
  BY <1>1, <1>8 DEF Active
<1>n. None \notin Source /\ docs \in [Doc -> Source \cup {None}] /\ points \in [Doc -> Source \cup {None}]
  BY IngestAssumption DEF DeleteIInv
<1>10. PointsFirst'
  <2> SUFFICES ASSUME OneProcess', Undeleted'
               PROVE  /\ \A e \in Searchable' : points'[e] # None
                      /\ \A j \in Ingest : req'[j].pc \in {"prepare", "commit"} /\ req'[j].doc \notin Blank
                                              => points'[req'[j].doc] # None
    BY DEF PointsFirst
  <2>1. OneProcess /\ Undeleted
    BY <1>1 DEF OneProcess, Undeleted
  <2>2. ASSUME NEW e \in Searchable' PROVE points'[e] # None
    <3>1. e \in Searchable /\ e \in Doc /\ points[e] # None
      BY <1>8, <2>1, <2>2 DEF WholeIInv, PointsFirst, Searchable
    <3>2. ASSUME d \notin Blank, e \in Obsolete(s, d) PROVE FALSE
      <4>1. points[e] = s /\ e # d /\ s # NoURI /\ e \in ContentOf[s]
        BY <1>o, <3>1, <3>2 DEF WholeIInv, OwnRows
      <4>2. docs[e] \in Source /\ e \in ContentOf[docs[e]]
        BY <1>n, <3>1 DEF WholeIInv, OwnRows, Searchable
      <4>3. docs[e] = s
        BY <4>1, <4>2 DEF SeparateContents
      <4>4. e \in Active(s)
        BY <3>1, <4>3 DEF Active
      <4>5. Active(s) \subseteq {d}
        BY <1>1, <1>2, <1>3, <2>1, <3>2, <4>1 DEF WholeIInv, OnlyNewActive
      <4> QED BY <4>1, <4>4, <4>5
    <3> QED BY <1>4, <3>1, <3>2
  <2>3. ASSUME NEW j \in Ingest, req'[j].pc \in {"prepare", "commit"}, req'[j].doc \notin Blank
        PROVE  points'[req'[j].doc] # None
    <3>1. j # k
      BY <1>6, <2>3
    <3>2. req[j].pc \in {"prepare", "commit"} /\ req'[j].doc = req[j].doc /\ HoldsLock(j)
      BY <1>6, <2>3, <3>1 DEF HoldsLock
    <3>3. req[j].source # s
      BY <1>1, <1>2, <2>1, <3>1, <3>2, OtherSource DEF WholeIInv
    <3>4. PICK r \in Source : r = req[j].source
      BY <3>2 DEF DeleteIInv
    <3>5. PICK e \in Doc : e = req[j].doc
      BY <3>2 DEF DeleteIInv
    <3>6. e \in ContentOf[r] /\ points[e] # None
      BY <2>1, <2>3, <3>2, <3>4, <3>5 DEF WholeIInv, OwnRequests, PointsFirst
    <3>7. points[e] # s
      BY <3>3, <3>4, <3>6, <1>n DEF WholeIInv, OwnRows, SeparateContents
    <3> QED BY <1>4, <1>o, <3>2, <3>5, <3>6, <3>7
  <2> QED BY <2>2, <2>3
<1>11. \A j \in Ingest : req'[j].pc = "finalize" => req[j].pc = "finalize" \/ req[j].doc \in Blank
  BY <1>6
<1> QED BY <1>1, <1>5, <1>7, <1>9, <1>10, <1>11, WholeKept DEF SameActive

LEMMA StageDocumentWhole ==
    ASSUME SeparateContents, DeleteIInv, WholeIInv, deployment' = deployment, NEW k \in Ingest, StageDocument(k)
    PROVE  WholeIInv' /\ NoLoss
<1>1. /\ req[k].pc = "stage" /\ HoldsLock(k) /\ req[k].pc \in Unsettled
      /\ base' = base /\ points' = points /\ del' = del
  BY DEF StageDocument, At, Others, HoldsLock, Unsettled
<1>2. CASE base
  <2>1. PICK s \in Source : s = req[k].source
    BY <1>1 DEF DeleteIInv
  <2>2. PICK d \in Doc : d = req[k].doc /\ d \in ContentOf[s] /\ None \notin Source
    BY <1>1, <2>1, IngestAssumption DEF DeleteIInv, WholeIInv, OwnRequests
  <2>3. /\ \A e \in Doc : docs'[e] = IF e = d THEN s ELSE docs[e]
        /\ \A e \in Doc : chunks'[e] = IF e = d /\ chunks[d] = "none" /\ d \notin Blank THEN "staged" ELSE chunks[e]
        /\ Goto(k, "vectors")
    BY <1>2, <2>1, <2>2 DEF StageDocument, DeleteIInv
  <2>4. OwnRows'
    BY <1>1, <2>2, <2>3 DEF WholeIInv, OwnRows
  <2>5. chunks[d] = "searchable" => docs[d] = s
    BY <2>2 DEF WholeIInv, OwnRows, SeparateContents, DeleteIInv
  <2>6. \A e \in Doc : (chunks'[e] = "searchable" <=> chunks[e] = "searchable")
                       /\ (chunks[e] = "searchable" => docs'[e] = docs[e])
    BY <2>3, <2>5
  <2> QED BY <1>1, <2>3, <2>4, <2>6, RowsWhole DEF Phases, Unsettled
<1>3. CASE ~base
  <2>1. docs' = docs /\ chunks' = chunks /\ Goto(k, "fail")
    BY <1>3 DEF StageDocument
  <2> QED BY <1>1, <2>1, QuietWhole DEF Phases
<1> QED BY <1>2, <1>3

LEMMA AbortRowsWhole ==
    ASSUME DeleteIInv, WholeIInv, deployment' = deployment, NEW k \in Ingest, AbortRows(k)
    PROVE  WholeIInv' /\ NoLoss
<1>1. /\ req[k].pc = "abort_rows" /\ HoldsLock(k) /\ req[k].pc \in Unsettled /\ Goto(k, "fail")
      /\ base' = base /\ points' = points /\ del' = del
  BY DEF AbortRows, At, Others, HoldsLock, Unsettled
<1>2. PICK d \in Doc : d = req[k].doc
  BY <1>1 DEF DeleteIInv
<1>3. /\ \A e \in Doc : chunks'[e] = IF e = d THEN Abandoned(d) ELSE chunks[e]
      /\ \A e \in Doc : docs'[e] = IF e = d /\ Abandoned(d) = "none" THEN None ELSE docs[e]
  BY <1>2 DEF AbortRows, DeleteIInv
<1>4. OwnRows'
  BY <1>1, <1>3 DEF WholeIInv, OwnRows, Abandoned
<1>5. \A e \in Doc : (chunks'[e] = "searchable" <=> chunks[e] = "searchable")
                     /\ (chunks[e] = "searchable" => docs'[e] = docs[e])
  BY <1>3 DEF Abandoned
<1> QED BY <1>1, <1>4, <1>5, RowsWhole DEF Phases, Unsettled

LEMMA FinishWhole ==
    ASSUME DeleteIInv, WholeIInv, deployment' = deployment, NEW k \in Ingest, Finish(k)
    PROVE  WholeIInv' /\ NoLoss
<1>t. req \in [Ingest -> RequestRow] /\ req[k] \in RequestRow
  BY DEF DeleteIInv
<1> DEFINE job == IF ~base THEN "none" ELSE IF req[k].pc = "succeed" THEN "succeeded" ELSE "failed"
           rq == [[req[k] EXCEPT !.pc = "idle"] EXCEPT !.job = job]
<1>1. /\ req' = [req EXCEPT ![k] = rq] /\ rq.pc = "idle"
      /\ base' = base /\ docs' = docs /\ chunks' = chunks /\ points' = points /\ del' = del
  BY <1>t DEF Finish, Others, store, RequestRow
<1> HIDE DEF rq
<1>2. \A j \in Ingest : req'[j] = IF j = k THEN rq ELSE req[j]
  BY <1>t, <1>1
<1>3. OwnRequests'
  BY <1>1, <1>2, OwnRequestsKept DEF WholeIInv
<1>4. RequestsGoOn
  BY <1>1, <1>2 DEF RequestsGoOn, HoldsLock
<1>5. /\ \A j \in Ingest : req'[j].pc = "finalize" => req[j].pc = "finalize" \/ req[j].doc \in Blank
      /\ \A j \in Ingest : req'[j].pc \in {"prepare", "commit"} => req[j].pc \in {"prepare", "commit"}
  BY <1>1, <1>2
<1> QED BY <1>1, <1>3, <1>4, <1>5, StoresKept

LEMMA IngestStepWhole ==
    ASSUME SeparateContents, DeleteIInv, WholeIInv, deployment' = deployment, NEW k \in Ingest, IngestStep(k)
    PROVE  WholeIInv' /\ NoLoss
<1>1. ASSUME NEW h \in deployment.hosts, NEW s \in deployment.sources, NEW d \in ContentOf[s], Begin(k, h, s, d)
      PROVE  WholeIInv' /\ NoLoss
  BY <1>1, BeginWhole
<1>2. CASE Prepare(k)
  <2>1. /\ req[k].pc = "prepare" /\ Goto(k, "commit") /\ HoldsLock(k)
        /\ base' = base /\ docs' = docs /\ chunks' = chunks /\ points' = points /\ del' = del
    BY <1>2 DEF Prepare, At, Others, store, HoldsLock
  <2> QED BY <2>1, QuietWhole DEF Phases, Unsettled
<1>3. CASE CommitActivation(k)
  <2>1. /\ req[k].pc = "commit" /\ At(k, "commit") /\ HoldsLock(k)
        /\ base' = base /\ points' = points /\ del' = del
    BY <1>3 DEF CommitActivation, At, Others, HoldsLock
  <2>2. CASE req[k].doc \notin Blank /\ CandidateExists(req[k].doc) /\ Activated(req[k].source, req[k].doc)
             /\ Goto(k, "finalize")
    BY <2>1, <2>2, CommitWhole
  <2>3. CASE req[k].doc \in Blank /\ Goto(k, "finalize") /\ docs' = docs /\ chunks' = chunks
    BY <2>1, <2>3, QuietWhole DEF Phases, Unsettled
  <2>4. CASE Goto(k, "abort_vectors") /\ docs' = docs /\ chunks' = chunks
    BY <2>1, <2>4, QuietWhole DEF Phases, Unsettled
  <2> QED BY <1>3, <2>2, <2>3, <2>4 DEF CommitActivation
<1>4. CASE CommitUnacknowledged(k)
  BY <1>4, CommitWhole DEF CommitUnacknowledged, Others
<1>5. CASE AbortVectors(k)
  <2>1. /\ req[k].pc = "abort_vectors" /\ Goto(k, "abort_rows") /\ HoldsLock(k)
        /\ base' = base /\ docs' = docs /\ chunks' = chunks /\ points' = points /\ del' = del
    BY <1>5 DEF AbortVectors, At, Others, store, HoldsLock
  <2> QED BY <2>1, QuietWhole DEF Phases, Unsettled
<1>6. CASE CallFails(k)
  <2>1. /\ req[k].pc # "idle" /\ Goto(k, OnError(req[k].pc)) /\ req[k].pc \in Phases
        /\ base' = base /\ docs' = docs /\ chunks' = chunks /\ points' = points /\ del' = del
    BY <1>6 DEF CallFails, Others, store, DeleteIInv, RequestRow
  <2>2. PICK pc : pc = OnError(req[k].pc)
    OBVIOUS
  <2>3. /\ pc \in Phases \ {"finalize", "prepare", "commit"} /\ (pc = "idle" \/ HoldsLock(k))
        /\ pc \in Unsettled => req[k].pc \in Unsettled
    BY <2>1, <2>2 DEF OnError, Phases, HoldsLock, Unsettled
  <2> QED BY <2>1, <2>2, <2>3, QuietWhole
<1> QED BY <1>1, <1>2, <1>3, <1>4, <1>5, <1>6, CreateJobWhole, StageDocumentWhole, StageVectorsWhole,
           FinalizeWhole, AbortRowsWhole, FinishWhole DEF IngestStep

LEMMA CrashWhole ==
    ASSUME DeleteIInv, WholeIInv, deployment' = deployment, NEW h, Crash(h)
    PROVE  WholeIInv' /\ NoLoss
<1>1. base' = base /\ docs' = docs /\ chunks' = chunks /\ points' = points /\ del' = del
  BY DEF Crash, store, Others
<1>2. req' = [k \in Ingest |-> IF req[k].host = h THEN [req[k] EXCEPT !.pc = "idle"] ELSE req[k]]
  BY DEF Crash
<1>3. ASSUME NEW j \in Ingest
      PROVE  req'[j].pc # "idle" => req'[j] = req[j]
  BY <1>2, <1>3 DEF DeleteIInv, RequestRow
<1>4. OwnRequests'
  BY <1>3, OwnRequestsKept DEF WholeIInv
<1>5. RequestsGoOn
  BY <1>3 DEF RequestsGoOn, HoldsLock
<1>6. /\ \A j \in Ingest : req'[j].pc = "finalize" => req[j].pc = "finalize" \/ req[j].doc \in Blank
      /\ \A j \in Ingest : req'[j].pc \in {"prepare", "commit"} => req[j].pc \in {"prepare", "commit"}
  BY <1>3
<1> QED BY <1>1, <1>4, <1>5, <1>6, StoresKept

\* After a DELETE nothing is promised of the points; the rest goes as a whole.
LEMMA DeleteStepWhole ==
    ASSUME DeleteIInv, WholeIInv, deployment' = deployment, NEW x \in deployment.deleters, DeleteStep(x)
    PROVE  WholeIInv' /\ NoLoss
<1>t. x \in Deleter /\ del[x] \in DeleteRow /\ base \in BOOLEAN
  BY IngestAssumption DEF DeleteIInv
<1>1. PICK row \in DeleteRow : del' = [del EXCEPT ![x] = row] /\ (row.pc # "idle" \/ row.answer # "none")
  BY <1>t, GotoOrAnswer DEF DeleteStep, DeleteLookup, DeleteSemanticCache, DeleteVectors, DeleteMetadata, DeleteFails,
     MetadataAnswer
<1>2. del'[x] = row
  BY <1>t, <1>1, DeleterMoves
<1>3. ~Undeleted'
  BY <1>t, <1>1, <1>2 DEF Undeleted
<1>4. PointsFirst'
  BY <1>3 DEF PointsFirst
<1>5. CASE base' = base /\ docs' = docs /\ chunks' = chunks /\ req' = req /\ (points' = points \/ PointsGone')
  <2>1. OwnRows' /\ OwnRequests' /\ RequestsGoOn
    BY <1>5 DEF WholeIInv, OwnRows, OwnRequests, RequestsGoOn, PointsGone, HoldsLock
  <2>2. \A s \in Source : Active(s)' = Active(s)
    BY <1>5 DEF Active, Searchable
  <2> QED BY <1>4, <1>5, <2>1, <2>2, WholeKept DEF SameActive
<1>6. CASE RowsDeleted /\ points' = points
  <2>1. base' = FALSE /\ \A d \in Doc : docs'[d] = None /\ chunks'[d] = "none"
    BY <1>6 DEF RowsDeleted
  <2>2. ASSUME NEW j \in Ingest
        PROVE  /\ req'[j].pc = req[j].pc /\ req'[j].host = req[j].host /\ req'[j].source = req[j].source
               /\ req'[j].doc = req[j].doc /\ req'[j].prior = req[j].prior
    BY <1>6, <2>2 DEF RowsDeleted, DeleteIInv, RequestRow
  <2>3. OwnRows'
    BY <1>6, <2>1 DEF WholeIInv, OwnRows
  <2>4. OwnRequests' /\ RequestsGoOn
    BY <2>2 DEF WholeIInv, OwnRequests, RequestsGoOn, HoldsLock
  <2>5. \A s \in Source : Active(s)' \subseteq Active(s)
    BY <2>1 DEF Active, Searchable
  <2> QED BY <1>4, <2>1, <2>2, <2>3, <2>4, <2>5, WholeKept
<1>7. DeleteVectors(x) => PointsGone'
  BY DEF DeleteVectors, PointsGone
<1> QED BY <1>5, <1>6, <1>7 DEF DeleteStep, DeleteLookup, DeleteSemanticCache, DeleteVectors, DeleteMetadata, DeleteFails, store

LEMMA SameWhole ==
    ASSUME WholeIInv, UNCHANGED <<deployment, base, docs, chunks, points, req, del>>
    PROVE  WholeIInv' /\ NoLoss
<1>1. Searchable' = Searchable
  BY DEF Searchable
<1>2. ASSUME NEW s \in Source PROVE Active(s)' = Active(s)
  BY <1>1 DEF Active
<1>3. ASSUME NEW j \in Ingest PROVE Active(req[j].source)' = Active(req[j].source)
  BY <1>1 DEF Active
<1>4. OwnRows' /\ OwnRequests' /\ SourceMutex' /\ OneVersion'
  BY <1>2 DEF WholeIInv, OwnRows, OwnRequests, SourceMutex, HoldsLock, OneVersion
<1>5. PriorActive' /\ OnlyNewActive'
  BY <1>3 DEF WholeIInv, PriorActive, OnlyNewActive, OneProcess
<1>6. PointsFirst'
  BY <1>1 DEF WholeIInv, PointsFirst, OneProcess, Undeleted
<1>7. NoLoss
  BY <1>2 DEF NoLoss
<1> QED BY <1>4, <1>5, <1>6, <1>7 DEF WholeIInv

LEMMA WholeInitial == SeparateContents /\ Init => WholeIInv
<1> SUFFICES ASSUME SeparateContents, Init PROVE WholeIInv
  OBVIOUS
<1>1. \A k \in Ingest : req[k].pc = "idle"
  BY DEF Init, IdleRequest
<1>2. OwnRequests /\ SourceMutex /\ PriorActive /\ OnlyNewActive
  BY <1>1 DEF OwnRequests, SourceMutex, HoldsLock, PriorActive, OnlyNewActive, Unsettled
<1>3. OwnRows
  BY DEF Init, OwnRows, SeparateContents
<1>4. \A d \in Searchable : Preloaded[d] # None
  BY DEF Init, Searchable
<1>5. PointsFirst
  BY <1>1, <1>4 DEF Init, PointsFirst
<1>6. OneVersion
  BY <1>4 DEF OneVersion, Active, Searchable, Init, SeparateContents
<1> QED BY <1>2, <1>3, <1>5, <1>6 DEF WholeIInv

LEMMA WholeInductive == SeparateContents /\ DeleteIInv /\ WholeIInv /\ [Next]_vars => WholeIInv' /\ NoLoss
<1> SUFFICES ASSUME SeparateContents, DeleteIInv, WholeIInv, [Next]_vars PROVE WholeIInv' /\ NoLoss
  OBVIOUS
<1>1. ASSUME NEW k \in Ingest, IngestStep(k), deployment' = deployment PROVE WholeIInv' /\ NoLoss
  BY <1>1, IngestStepWhole
<1>2. ASSUME NEW h \in deployment.hosts, Crash(h), deployment' = deployment PROVE WholeIInv' /\ NoLoss
  BY <1>2, CrashWhole
<1>3. ASSUME NEW x \in deployment.deleters, DeleteStep(x), deployment' = deployment PROVE WholeIInv' /\ NoLoss
  BY <1>3, DeleteStepWhole
<1>4. ASSUME NEW q \in deployment.readers, QueryStep(q), deployment' = deployment PROVE WholeIInv' /\ NoLoss
  BY <1>4, SameWhole DEF QueryStep, SearchPage, FilterPage, StoreSemanticCache, store
<1>5. CASE UNCHANGED vars
  BY <1>5, SameWhole DEF vars
<1> QED BY <1>1, <1>2, <1>3, <1>4, <1>5 DEF Next

LEMMA WholeImplies == WholeIInv => OneActiveVersion /\ FailedLeavesPrior /\ ActiveHasPoints
<1> SUFFICES ASSUME WholeIInv PROVE OneActiveVersion /\ FailedLeavesPrior /\ ActiveHasPoints
  OBVIOUS
<1>1. FailedLeavesPrior /\ ActiveHasPoints
  BY DEF WholeIInv, PriorActive, PointsFirst, FailedLeavesPrior, ActiveHasPoints, Unsettled
<1>2. ASSUME NEW s \in Source \ {NoURI} PROVE Cardinality(Active(s)) <= 1
  <2>1. CASE Active(s) = {}
    BY <2>1, FS_EmptySet
  <2>2. CASE Active(s) # {}
    <3>1. PICK d : Active(s) = {d}
      BY <2>2 DEF WholeIInv, OneVersion
    <3>2. Cardinality({d}) = 1
      BY FS_Singleton
    <3> QED BY <3>1, <3>2
  <2> QED BY <2>1, <2>2
<1> QED BY <1>1, <1>2 DEF OneActiveVersion

\* Every page of an answer holds one version of a source.
PageIInv ==
    /\ query \in [Reader -> [pc : {"idle", "filter", "done"}, page : SUBSET Doc, pages : Nat,
                              results : SUBSET (SUBSET Doc)]]
    /\ PageUnmixed

LEMMA PageInitial == Init => PageIInv
BY DEF Init, PageIInv, PageUnmixed

LEMMA PageInductive ==
    SeparateContents /\ DeleteIInv /\ WholeIInv /\ PageIInv /\ [Next]_vars => PageIInv'
<1> SUFFICES ASSUME SeparateContents, DeleteIInv, WholeIInv, PageIInv, [Next]_vars PROVE PageIInv'
  OBVIOUS
<1> DEFINE Row == [pc : {"idle", "filter", "done"}, page : SUBSET Doc, pages : Nat, results : SUBSET (SUBSET Doc)]
<1>t. query \in [Reader -> Row]
  BY DEF PageIInv
<1>1. CASE query' = query
  BY <1>1 DEF PageIInv, PageUnmixed
<1>m. ASSUME NEW q \in Reader, NEW r \in Row, query' = [query EXCEPT ![q] = r],
             \A page \in r.results : \A d, e \in page : d # e => SourcesOf(d) \cap SourcesOf(e) = {}
      PROVE  PageIInv'
  <2>1. query' \in [Reader -> Row] /\ \A p \in Reader : query'[p] = IF p = q THEN r ELSE query[p]
    BY <1>t, <1>m
  <2>2. PageUnmixed'
    BY <1>m, <2>1 DEF PageIInv, PageUnmixed
  <2> QED BY <2>1, <2>2 DEF PageIInv
<1>2. ASSUME NEW q \in deployment.readers, SearchPage(q) \/ StoreSemanticCache(q) PROVE PageIInv'
  <2>1. q \in Reader /\ query[q] \in Row
    BY <1>t, IngestAssumption DEF DeleteIInv
  <2>2. CASE SearchPage(q)
    <3>1. PICK page \in SUBSET Doc : query' = [query EXCEPT ![q].pc = "filter", ![q].page = page]
      BY <2>2 DEF SearchPage
    <3>2. PICK r : r = [[query[q] EXCEPT !.pc = "filter"] EXCEPT !.page = page]
      OBVIOUS
    <3>3. r \in Row /\ r.results = query[q].results
      BY <2>1, <3>2
    <3>4. query' = [query EXCEPT ![q] = r]
      BY <1>t, <2>1, <3>1, <3>2
    <3> HIDE DEF Row
    <3> QED BY <1>m, <2>1, <3>3, <3>4 DEF PageIInv, PageUnmixed
  <2>3. CASE StoreSemanticCache(q)
    <3>1. PICK r : r = [query[q] EXCEPT !.pc = "done"]
      OBVIOUS
    <3>2. r \in Row /\ r.results = query[q].results
      BY <2>1, <3>1
    <3>3. query' = [query EXCEPT ![q] = r]
      BY <1>t, <2>1, <2>3, <3>1 DEF StoreSemanticCache
    <3> HIDE DEF Row
    <3> QED BY <1>m, <2>1, <3>2, <3>3 DEF PageIInv, PageUnmixed
  <2> QED BY <1>2, <2>2, <2>3
<1>3. ASSUME NEW q \in deployment.readers, FilterPage(q) PROVE PageIInv'
  <2>1. q \in Reader /\ query[q] \in Row
    BY <1>t, IngestAssumption DEF DeleteIInv
  <2>2. PICK r : r = [pc |-> "idle", page |-> {}, pages |-> query[q].pages + 1,
                      results |-> query[q].results \cup {query[q].page \cap Searchable}]
    OBVIOUS
  <2>3. r \in Row /\ r.results = query[q].results \cup {query[q].page \cap Searchable}
    BY <2>1, <2>2 DEF Searchable
  <2>4. query' = [query EXCEPT ![q] = r]
    BY <1>t, <1>3, <2>1, <2>2 DEF FilterPage
  <2>5. ASSUME NEW d \in Searchable, NEW e \in Searchable, NEW s \in SourcesOf(d) \cap SourcesOf(e) PROVE d = e
    <3>1. s \in Source \ {NoURI} /\ d \in ContentOf[s] /\ e \in ContentOf[s]
      BY <2>5 DEF SourcesOf
    <3>2. docs[d] \in Source /\ docs[e] \in Source /\ d \in ContentOf[docs[d]] /\ e \in ContentOf[docs[e]]
      BY <2>5 DEF Searchable, WholeIInv, OwnRows, DeleteIInv
    <3>3. docs[d] = s /\ docs[e] = s
      BY <3>1, <3>2 DEF SeparateContents
    <3> QED BY <3>1, <3>3 DEF Active, WholeIInv, OneVersion
  <2>6. \A page \in r.results : \A d, e \in page : d # e => SourcesOf(d) \cap SourcesOf(e) = {}
    BY <2>1, <2>3, <2>5 DEF PageIInv, PageUnmixed
  <2> HIDE DEF Row
  <2> QED BY <1>m, <2>1, <2>3, <2>4, <2>6
<1> QED BY <1>1, <1>2, <1>3 DEF Next, IngestStep, Begin, CreateJob, StageDocument, StageVectors, Prepare,
       CommitActivation, CommitUnacknowledged, FinalizeActivation, AbortVectors, AbortRows, Finish, CallFails, Crash,
       Others, DeleteStep, DeleteLookup, DeleteSemanticCache, DeleteVectors, DeleteMetadata, DeleteFails, Spared,
       QueryStep, vars

\* Whatever number of processes, requests and faults: no step but a deletion
\* takes away the last version of a source, none leaves two; and where one
\* process hears the answers of its COMMITs, a failed ingestion leaves what it
\* found, and what is searchable has its points (CommitActivation and the
\* staged protocol around it).
THEOREM SourcesWhole ==
    SeparateContents => (IngestSpec => NoGap /\ [](OneActiveVersion /\ FailedLeavesPrior /\ ActiveHasPoints))
<1> SUFFICES ASSUME SeparateContents PROVE IngestSpec => NoGap /\ [](OneActiveVersion /\ FailedLeavesPrior /\ ActiveHasPoints)
  OBVIOUS
<1>1. Init => DeleteIInv /\ WholeIInv
  BY DeleteInitial, WholeInitial
<1>2. DeleteIInv /\ WholeIInv /\ [Next]_vars => (DeleteIInv /\ WholeIInv)'
  BY DeleteInductive, WholeInductive
<1>3. DeleteIInv /\ WholeIInv /\ [Next]_vars => [\A s \in Source : Active(s) # {} /\ base' => Active(s)' # {}]_vars
  BY WholeInductive DEF NoLoss
<1>4. DeleteIInv /\ WholeIInv => OneActiveVersion /\ FailedLeavesPrior /\ ActiveHasPoints
  BY WholeImplies
<1> QED BY <1>1, <1>2, <1>3, <1>4, PTL DEF IngestSpec, NoGap

\* What can be found is one whole version of every source at all times, and no
\* page of a query mixes two (VectorStore.Retrieve beside Ingest).
THEOREM SearchWhole == SeparateContents => (IngestSpec => SearchStaysWhole)
<1> SUFFICES ASSUME SeparateContents PROVE IngestSpec => SearchStaysWhole
  OBVIOUS
<1>1. Init => DeleteIInv /\ WholeIInv /\ PageIInv
  BY DeleteInitial, WholeInitial, PageInitial
<1>2. DeleteIInv /\ WholeIInv /\ PageIInv /\ [Next]_vars => (DeleteIInv /\ WholeIInv /\ PageIInv)'
  BY DeleteInductive, WholeInductive, PageInductive
<1>3. PageIInv => PageUnmixed
  BY DEF PageIInv
<1>4. IngestSpec => NoGap /\ [](OneActiveVersion /\ FailedLeavesPrior /\ ActiveHasPoints)
  BY SourcesWhole
<1>5. IngestSpec => []PageUnmixed
  BY <1>1, <1>2, <1>3, PTL DEF IngestSpec
<1> QED BY <1>4, <1>5, PTL DEF SearchStaysWhole

(***************************************************************************)
(* Answers                                                                 *)
(***************************************************************************)

Field == [profile |-> {"", "realtime", "high_precision"} \cup {r.profile : r \in QueryRequest},
          topK    |-> {0, DefaultTopK} \cup {r.topK : r \in QueryRequest},
          route   |-> {"none"} \cup {RouteOf[r.text] : r \in QueryRequest}]

Key == [namespace : {r.namespace : r \in QueryRequest}, base : {r.base : r \in QueryRequest},
        profile : Field.profile, topK : Field.topK, text : {r.text : r \in QueryRequest}]

Response == [hit : BOOLEAN, chunks : SUBSET Chunk, citations : SUBSET Chunk,
             made : SUBSET [key : Key, scoped : {r.scoped : r \in QueryRequest}]]

Record == [run : Nat, nodes : Nat, error : BOOLEAN]
TraceRow == [row : Record, spans : Record]

\* The places before the lookup has been decided.
Early == {"idle", "init", "route", "lookup"}

\* The places outside of the transaction that stores the trace.
Place == Early \cup {"rewrite", "expand", "retrieve", "rerank", "pack", "prefix", "generate", "write", "trace", "done"}

CallState == [request : QueryRequest, run : Nat, pc : Place \cup {"spans"}, profile : Field.profile,
              topK : Field.topK, route : Field.route, nodes : Nat, error : BOOLEAN, hit : BOOLEAN,
              results : SUBSET Chunk, citations : SUBSET Chunk, response : Response, before : TraceRow]

InBase(X, b) == \A x \in X : BaseOf[x] = b

EntryOwn(e) ==
    /\ e.response.citations # {}
    /\ InBase(e.response.chunks, e.key.base)
    /\ \A m \in e.response.made : m.key = e.key

Fresh(st) == st.hit = FALSE /\ st.response = NoResponse

\* What the query found and answers is its own: of its base, computed for its
\* key, or for one the lookup takes for its key.
Own(st) ==
    /\ InBase(st.results, st.request.base)
    /\ InBase(st.response.chunks, st.request.base)
    /\ st.hit = FALSE => st.response.hit = FALSE /\ \A m \in st.response.made : m.key = CacheKey(st)
    /\ st.hit = TRUE =>
         /\ st.response.citations # {}
         /\ \A m \in st.response.made : FilterMatches(m.key, CacheKey(st))
                                        /\ (backend = "memory" => m.key = CacheKey(st))

\* The holder of a row's lock wrote the row and can restore it.
Holds(c) ==
    LET t == call[c].request.trace
    IN  /\ lockedBy[t] = c
        /\ trace[t].row = TraceRecord(call[c])
        /\ call[c].before.row = call[c].before.spans

QueryType ==
    /\ queries \in Nat
    /\ call \in [QueryCall -> CallState]
    /\ entries \subseteq [key : Key, response : Response]
    /\ trace \in [TraceId -> TraceRow]
    /\ lockedBy \in [TraceId -> QueryCall \cup {NoCall}]

\* The inductive invariant.
QueryIInv ==
    /\ QueryType
    /\ \A e \in entries : EntryOwn(e)
    /\ \A c \in QueryCall : Own(call[c]) /\ (call[c].pc \in Early => Fresh(call[c]))
    /\ \A c \in QueryCall : call[c].pc = "spans" => Holds(c)
    /\ TraceOfOneQuery

LEMMA NoResponseTyped == NoResponse \in Response /\ NoResponse.hit = FALSE /\ NoResponse.chunks = {} /\ NoResponse.made = {}
BY DEF NoResponse, Response

LEMMA RequestFields ==
    ASSUME NEW r \in QueryRequest
    PROVE  r.trace \in TraceId /\ Profile(r.profile) \in Field.profile /\ r.topK \in Field.topK
           /\ RouteOf[r.text] \in Field.route /\ DefaultTopK \in Field.topK
BY DEF TraceId, Profile, Field

LEMMA KeyTyped ==
    ASSUME NEW st \in CallState
    PROVE  CacheKey(st) \in Key /\ CacheKey(st).base = st.request.base
BY DEF CacheKey, Key, CallState

LEMMA OwnMoves ==
    ASSUME NEW st, NEW new, Own(st), backend' = backend, new.request = st.request, new.hit = st.hit,
           new.response = st.response, new.results = st.results, CacheKey(new) = CacheKey(st)
    PROVE  Own(new)'
BY DEF Own

\* A node ends and the query stays clear of the trace's transaction.
LEMMA StepKeeps ==
    ASSUME QueryIInv, NEW c \in QueryCall, call[c].pc # "spans",
           NEW st \in CallState, Own(st), NEW next \in Place, next \in Early => Fresh(st), Step(c, next, st),
           entries' \subseteq [key : Key, response : Response], \A e \in entries' : EntryOwn(e)
    PROVE  QueryIInv'
<1>0. PICK n \in Nat : n = st.nodes + 1
  BY DEF CallState
<1> DEFINE new == [[st EXCEPT !.pc = next] EXCEPT !.nodes = n]
<1>1. call' = [call EXCEPT ![c] = new]
  BY <1>0 DEF Step, CallState
<1>2. new \in CallState
  BY DEF CallState
<1>3. /\ new.pc = next /\ new.request = st.request
      /\ new.hit = st.hit /\ new.response = st.response /\ new.results = st.results
      /\ CacheKey(new) = CacheKey(st)
  BY DEF CallState, CacheKey
<1> HIDE DEF new
<1>4. backend' = backend /\ trace' = trace /\ lockedBy' = lockedBy /\ queries' = queries
  BY DEF Step
<1>5. call' \in [QueryCall -> CallState] /\ call'[c] = new /\ \A d \in QueryCall : d # c => call'[d] = call[d]
  BY <1>1, <1>2 DEF QueryIInv, QueryType
<1>6. QueryType'
  BY <1>4, <1>5 DEF QueryIInv, QueryType
<1>7. Own(new)'
  BY <1>3, <1>4, OwnMoves
<1>8. \A d \in QueryCall : Own(call[d])' /\ (call'[d].pc \in Early => Fresh(call'[d]))
  <2> SUFFICES ASSUME NEW d \in QueryCall PROVE Own(call[d])' /\ (call'[d].pc \in Early => Fresh(call'[d]))
    OBVIOUS
  <2>1. CASE d = c
    <3>1. Fresh(st) => Fresh(new)
      BY <1>3 DEF Fresh
    <3>2. Own(call[d])'
      BY <1>5, <1>7, <2>1 DEF Own
    <3> QED BY <1>3, <1>5, <2>1, <3>1, <3>2
  <2>2. CASE d # c
    <3>1. Own(call[d]) /\ (call[d].pc \in Early => Fresh(call[d])) /\ call'[d] = call[d]
      BY <1>5, <2>2 DEF QueryIInv
    <3>2. Own(call[d])'
      BY <1>4, <3>1 DEF Own
    <3> QED BY <3>1, <3>2
  <2> QED BY <2>1, <2>2
<1>9. \A d \in QueryCall : call'[d].pc = "spans" => d # c /\ Holds(d)
  BY <1>3, <1>5 DEF QueryIInv, Place, Early
<1>10. \A d \in QueryCall : call'[d].pc = "spans" => Holds(d)'
  BY <1>4, <1>5, <1>9 DEF Holds
<1>11. TraceOfOneQuery'
  BY <1>4 DEF QueryIInv, TraceOfOneQuery
<1> QED BY <1>6, <1>8, <1>10, <1>11 DEF QueryIInv

LEMMA FreshOwn ==
    ASSUME NEW st, Fresh(st), InBase(st.results, st.request.base)
    PROVE  Own(st)
BY NoResponseTyped DEF Fresh, Own, InBase

LEMMA SameOwn ==
    ASSUME NEW st, NEW new, Own(st), new.request = st.request, new.hit = st.hit,
           new.response = st.response, new.results = st.results, new.profile = st.profile, new.topK = st.topK
    PROVE  Own(new)
<1>1. CacheKey(new) = CacheKey(st)
  BY DEF CacheKey
<1> QED BY <1>1 DEF Own

\* What a call is before one of its steps.
LEMMA CallFacts ==
    ASSUME QueryIInv, NEW c \in QueryCall
    PROVE  /\ call[c] \in CallState /\ call[c].request \in QueryRequest /\ Own(call[c])
           /\ call[c].pc \in Early => Fresh(call[c])
           /\ entries \subseteq [key : Key, response : Response] /\ \A e \in entries : EntryOwn(e)
BY DEF QueryIInv, QueryType, CallState

LEMMA PassKeeps ==
    ASSUME QueryIInv, NEW c \in QueryCall, call[c].pc \notin Early \cup {"spans"}, NEW next \in Place \ Early,
           Step(c, next, call[c]), entries' = entries
    PROVE  QueryIInv'
<1>1. PICK st : st = call[c]
  OBVIOUS
<1>2. st \in CallState /\ Own(st) /\ Step(c, next, st)
  BY <1>1, CallFacts DEF Step
<1>3. entries' \subseteq [key : Key, response : Response] /\ \A e \in entries' : EntryOwn(e)
  BY CallFacts
<1> QED BY <1>2, <1>3, StepKeeps

LEMMA FailsKeeps ==
    ASSUME QueryIInv, NEW c \in QueryCall, call[c].pc # "spans", Fails(c)
    PROVE  QueryIInv'
<1>1. PICK st : st = [call[c] EXCEPT !.error = TRUE]
  OBVIOUS
<1>2. PICK next \in Place \ Early : Step(c, next, st)
  <2>1. Step(c, IF Graph(c) THEN "trace" ELSE "done", st)
    BY <1>1 DEF Fails, Step
  <2> QED BY <2>1 DEF Place, Early
<1>3. st \in CallState
  BY <1>1, CallFacts DEF CallState
<1>4. /\ st.request = call[c].request /\ st.hit = call[c].hit /\ st.response = call[c].response
      /\ st.results = call[c].results /\ st.profile = call[c].profile /\ st.topK = call[c].topK
  BY <1>1, CallFacts DEF CallState
<1>5. Own(st)
  BY <1>4, CallFacts, SameOwn
<1>6. entries' \subseteq [key : Key, response : Response] /\ \A e \in entries' : EntryOwn(e)
  BY CallFacts DEF Fails
<1> QED BY <1>2, <1>3, <1>5, <1>6, StepKeeps

LEMMA QueryBegins ==
    ASSUME QueryIInv, NEW c \in QueryCall, NEW r \in QueryRequest, Query(c, r)
    PROVE  QueryIInv'
<1>1. PICK new : new = NewState(r, queries + 1)
  OBVIOUS
<1>2. new \in CallState
  <2>1. queries + 1 \in Nat
    BY DEF QueryIInv, QueryType
  <2>2. Untraced \in TraceRow
    BY DEF Untraced, NoTrace, TraceRow, Record
  <2> QED BY <1>1, <2>1, <2>2, NoResponseTyped DEF NewState, CallState, Place, Early, Field
<1>3. /\ new.pc = "init" /\ new.hit = FALSE /\ new.response = NoResponse /\ new.results = {}
  BY <1>1 DEF NewState
<1>4. Fresh(new) /\ InBase(new.results, new.request.base)
  BY <1>3 DEF Fresh, InBase
<1>5. Own(new)' /\ Fresh(new)
  <2>1. Own(new)
    BY <1>4, FreshOwn
  <2>2. backend' = backend
    BY DEF Query
  <2> QED BY <1>4, <2>1, <2>2 DEF Own
<1>6. /\ call' = [call EXCEPT ![c] = new] /\ queries' = queries + 1
      /\ backend' = backend /\ trace' = trace /\ lockedBy' = lockedBy /\ entries' = entries
  BY <1>1 DEF Query, Quiet
<1>7. /\ call' \in [QueryCall -> CallState] /\ call'[c] = new /\ \A d \in QueryCall : d # c => call'[d] = call[d]
  BY <1>2, <1>6 DEF QueryIInv, QueryType
<1>8. QueryType'
  BY <1>6, <1>7 DEF QueryIInv, QueryType
<1>9. \A d \in QueryCall : Own(call[d])' /\ (call'[d].pc \in Early => Fresh(call'[d]))
  <2> SUFFICES ASSUME NEW d \in QueryCall PROVE Own(call[d])' /\ (call'[d].pc \in Early => Fresh(call'[d]))
    OBVIOUS
  <2>1. CASE d = c
    <3>1. Own(call[d])'
      BY <1>5, <1>7, <2>1 DEF Own
    <3> QED BY <1>5, <1>7, <2>1, <3>1
  <2>2. CASE d # c
    <3>1. Own(call[d]) /\ (call[d].pc \in Early => Fresh(call[d])) /\ call'[d] = call[d]
      BY <1>7, <2>2 DEF QueryIInv
    <3>2. Own(call[d])'
      BY <1>6, <3>1 DEF Own
    <3> QED BY <3>1, <3>2
  <2> QED BY <2>1, <2>2
<1>10. \A d \in QueryCall : call'[d].pc = "spans" => d # c /\ Holds(d)
  BY <1>3, <1>7 DEF QueryIInv
<1>11. \A d \in QueryCall : call'[d].pc = "spans" => Holds(d)'
  BY <1>6, <1>7, <1>10 DEF Holds
<1>12. TraceOfOneQuery'
  BY <1>6 DEF QueryIInv, TraceOfOneQuery
<1>13. \A e \in entries' : EntryOwn(e)
  BY <1>6 DEF QueryIInv
<1> QED BY <1>8, <1>9, <1>11, <1>12, <1>13 DEF QueryIInv

\* The steps up to the lookup leave the answer empty.
LEMMA EarlyKeeps ==
    ASSUME QueryIInv, NEW c \in QueryCall, InitNode(c) \/ QueryRoute(c)
    PROVE  QueryIInv'
<1>0. /\ call[c] \in CallState /\ call[c].request \in QueryRequest /\ Own(call[c])
      /\ entries \subseteq [key : Key, response : Response] /\ \A e \in entries : EntryOwn(e)
  BY CallFacts
<1>1. entries' = entries
  BY DEF InitNode, QueryRoute, Quiet
<1>2. CASE InitNode(c)
  <2> DEFINE r == call[c].request
             k == IF r.topK > 0 THEN r.topK ELSE DefaultTopK
  <2>1. Profile(r.profile) \in Field.profile /\ k \in Field.topK
    BY <1>0, RequestFields
  <2> HIDE DEF k
  <2>2. PICK st : st = [[call[c] EXCEPT !.profile = Profile(r.profile)] EXCEPT !.topK = k]
    OBVIOUS
  <2>3. st \in CallState
    BY <1>0, <2>1, <2>2 DEF CallState
  <2>4. st.hit = call[c].hit /\ st.response = call[c].response /\ st.results = call[c].results /\ st.request = call[c].request
    BY <1>0, <2>2 DEF CallState
  <2>5. call[c].pc = "init" /\ Fresh(call[c])
    BY <1>2, CallFacts DEF InitNode, AtNode, Early
  <2>6. Fresh(st) /\ Own(st)
    BY <1>0, <2>4, <2>5, FreshOwn DEF Fresh, Own
  <2>7. Step(c, "route", st)
    BY <1>0, <1>2, <2>2 DEF InitNode, Step, k, CallState
  <2> QED BY <1>0, <1>1, <2>3, <2>5, <2>6, <2>7, StepKeeps DEF Place, Early
<1>3. CASE QueryRoute(c)
  <2> DEFINE route == RouteOf[call[c].request.text]
  <2>1. route \in Field.route
    BY <1>0, RequestFields
  <2>2. RoutedProfile(route, call[c].profile) \in Field.profile
    BY <1>0 DEF RoutedProfile, Field, CallState
  <2>3. PICK st : st = [[call[c] EXCEPT !.route = route] EXCEPT !.profile = RoutedProfile(route, call[c].profile)]
    OBVIOUS
  <2>4. st \in CallState
    BY <1>0, <2>1, <2>2, <2>3 DEF CallState
  <2>5. st.hit = call[c].hit /\ st.response = call[c].response /\ st.results = call[c].results /\ st.request = call[c].request
    BY <1>0, <2>3 DEF CallState
  <2>6. call[c].pc = "route" /\ Fresh(call[c])
    BY <1>3, CallFacts DEF QueryRoute, AtNode, Early
  <2>7. Fresh(st) /\ Own(st)
    BY <1>0, <2>5, <2>6, FreshOwn DEF Fresh, Own
  <2>8. Step(c, "lookup", st)
    BY <1>0, <1>3, <2>3 DEF QueryRoute, Step, CallState
  <2> QED BY <1>0, <1>1, <2>4, <2>6, <2>7, <2>8, StepKeeps DEF Place, Early
<1> QED BY <1>2, <1>3

\* A hit takes over an entry that the filter admits.
LEMMA HitOwn ==
    ASSUME QueryIInv, NEW c \in QueryCall, call[c].pc = "lookup", NEW e \in CacheHits(call[c]),
           NEW st, st = [[call[c] EXCEPT !.hit = TRUE] EXCEPT !.response = CachedResponse(e)]
    PROVE  st \in CallState /\ Own(st)
<1>0. /\ call[c] \in CallState /\ Own(call[c])
      /\ entries \subseteq [key : Key, response : Response] /\ \A x \in entries : EntryOwn(x)
  BY CallFacts
<1>1. /\ e \in entries /\ FilterMatches(e.key, CacheKey(call[c])) /\ (backend = "memory" => e.key = CacheKey(call[c]))
  BY DEF CacheHits, FilterMatches
<1>2. /\ CachedResponse(e) \in Response /\ CachedResponse(e).citations = e.response.citations
      /\ CachedResponse(e).chunks = e.response.chunks /\ CachedResponse(e).made = e.response.made
  BY <1>0, <1>1 DEF CachedResponse, Response
<1>3. PICK answer \in Response : answer = CachedResponse(e)
  BY <1>2
<1>4. st = [[call[c] EXCEPT !.hit = TRUE] EXCEPT !.response = answer]
  BY <1>3
<1>5. st \in CallState
  BY <1>0, <1>4 DEF CallState
<1>6. /\ st.hit = TRUE /\ st.response = answer /\ st.request = call[c].request
      /\ st.results = call[c].results /\ st.profile = call[c].profile /\ st.topK = call[c].topK
  BY <1>0, <1>4 DEF CallState
<1>7. CacheKey(st) = CacheKey(call[c]) /\ CacheKey(call[c]).base = call[c].request.base
  BY <1>6 DEF CacheKey
<1>8. e.key.base = call[c].request.base
  BY <1>1, <1>7 DEF FilterMatches
<1>9. EntryOwn(e)
  BY <1>0, <1>1
<1>10. InBase(answer.chunks, st.request.base) /\ answer.citations # {} /\ \A m \in answer.made : m.key = e.key
  BY <1>2, <1>3, <1>6, <1>8, <1>9 DEF EntryOwn
<1>11. InBase(st.results, st.request.base)
  BY <1>0, <1>6 DEF Own
<1>12. Own(st)
  BY <1>1, <1>6, <1>7, <1>10, <1>11 DEF Own
<1> QED BY <1>5, <1>12

LEMMA LookupKeeps ==
    ASSUME QueryIInv, NEW c \in QueryCall, SemanticCacheLookup(c)
    PROVE  QueryIInv'
<1>0. /\ call[c] \in CallState /\ Own(call[c]) /\ call[c].pc = "lookup"
      /\ entries \subseteq [key : Key, response : Response] /\ \A e \in entries : EntryOwn(e)
  BY CallFacts DEF SemanticCacheLookup, AtNode
<1>1. CASE Step(c, "rewrite", call[c]) /\ entries' = entries
  <2>1. PICK st : st = call[c]
    OBVIOUS
  <2>2. st \in CallState /\ Own(st) /\ Step(c, "rewrite", st)
    BY <1>0, <1>1, <2>1 DEF Step
  <2> QED BY <1>0, <1>1, <2>2, StepKeeps DEF Place, Early
<1>2. ASSUME NEW e \in CacheHits(call[c]), entries' = entries,
             Step(c, "rewrite", [call[c] EXCEPT !.hit = TRUE, !.response = CachedResponse(e)])
      PROVE  QueryIInv'
  <2>1. PICK st : st = [[call[c] EXCEPT !.hit = TRUE] EXCEPT !.response = CachedResponse(e)]
    OBVIOUS
  <2>2. st \in CallState /\ Own(st)
    BY <1>0, <2>1, HitOwn
  <2>3. Step(c, "rewrite", st)
    BY <1>0, <1>2, <2>1 DEF Step, CallState
  <2> QED BY <1>0, <1>2, <2>2, <2>3, StepKeeps DEF Place, Early
<1>3. CASE Fails(c)
  BY <1>0, <1>3, FailsKeeps
<1> QED BY <1>1, <1>2, <1>3 DEF SemanticCacheLookup, Quiet

\* A query whose results change: it has not answered, and they are its base's.
LEMMA ResultsKeep ==
    ASSUME QueryIInv, NEW c \in QueryCall, call[c].pc \notin Early \cup {"spans"}, NEW next \in Place \ Early,
           NEW R \in SUBSET Chunk, InBase(R, call[c].request.base), NEW C \in SUBSET Chunk,
           NEW st, st = [[call[c] EXCEPT !.results = R] EXCEPT !.citations = C], Step(c, next, st), entries' = entries
    PROVE  QueryIInv'
<1>0. /\ call[c] \in CallState /\ Own(call[c])
      /\ entries' \subseteq [key : Key, response : Response] /\ \A e \in entries' : EntryOwn(e)
  BY CallFacts
<1>1. st \in CallState
  BY <1>0 DEF CallState
<1>2. /\ st.request = call[c].request /\ st.hit = call[c].hit /\ st.response = call[c].response
      /\ st.results = R /\ st.profile = call[c].profile /\ st.topK = call[c].topK
  BY <1>0 DEF CallState
<1>3. CacheKey(st) = CacheKey(call[c])
  BY <1>2 DEF CacheKey
<1>4. Own(st)
  BY <1>0, <1>2, <1>3 DEF Own
<1> QED BY <1>0, <1>1, <1>4, StepKeeps

LEMMA SearchKeeps ==
    ASSUME QueryIInv, NEW c \in QueryCall,
           QueryRewrite(c) \/ MultiQuery(c) \/ HybridRetrieve(c) \/ Rerank(c) \/ ContextPack(c) \/ PromptPrefixCache(c)
    PROVE  QueryIInv'
<1>0. /\ call[c] \in CallState /\ Own(call[c]) /\ call[c].results \in SUBSET Chunk /\ call[c].citations \in SUBSET Chunk
      /\ InBase(call[c].results, call[c].request.base)
  BY CallFacts DEF CallState, Own
<1>p. /\ {"rewrite", "expand", "retrieve", "rerank", "pack", "prefix", "generate"} \subseteq Place \ Early
      /\ "spans" \notin Place
  BY DEF Place, Early
<1>1. CASE QueryRewrite(c)
  BY <1>1, <1>p, PassKeeps DEF QueryRewrite, AtNode, Quiet, Early
<1>2. CASE MultiQuery(c)
  BY <1>2, <1>p, PassKeeps DEF MultiQuery, AtNode, Quiet, Early
<1>3. CASE HybridRetrieve(c)
  <2>0. call[c].pc = "retrieve" /\ call[c].pc \notin Early \cup {"spans"}
    BY <1>3 DEF HybridRetrieve, AtNode, Early
  <2>1. CASE Step(c, "rerank", call[c]) /\ Quiet
    BY <1>p, <2>0, <2>1, PassKeeps DEF Quiet
  <2>2. ASSUME NEW R \in Retrieved(call[c]), Step(c, "rerank", [call[c] EXCEPT !.results = R]), Quiet
        PROVE  QueryIInv'
    <3>1. R \in SUBSET Chunk /\ InBase(R, call[c].request.base)
      BY <2>2 DEF Retrieved, RetrieveOne, InBase
    <3>2. PICK C : C = call[c].citations
      OBVIOUS
    <3>3. PICK st : st = [[call[c] EXCEPT !.results = R] EXCEPT !.citations = C]
      OBVIOUS
    <3>4. Step(c, "rerank", st)
      BY <1>0, <2>2, <3>2, <3>3 DEF Step, CallState
    <3> QED BY <1>0, <1>p, <2>0, <2>2, <3>1, <3>2, <3>3, <3>4, ResultsKeep DEF Quiet
  <2>3. CASE Fails(c)
    BY <2>0, <2>3, FailsKeeps
  <2> QED BY <1>3, <2>1, <2>2, <2>3 DEF HybridRetrieve
<1>4. CASE Rerank(c)
  <2>0. call[c].pc = "rerank" /\ call[c].pc \notin Early \cup {"spans"}
    BY <1>4 DEF Rerank, AtNode, Early
  <2>1. PICK R \in SUBSET call[c].results : Step(c, "pack", [call[c] EXCEPT !.results = R])
    BY <1>4 DEF Rerank
  <2>2. R \in SUBSET Chunk /\ InBase(R, call[c].request.base)
    BY <1>0, <2>1 DEF InBase
  <2>3. PICK C : C = call[c].citations
    OBVIOUS
  <2>4. PICK st : st = [[call[c] EXCEPT !.results = R] EXCEPT !.citations = C]
    OBVIOUS
  <2>5. Step(c, "pack", st)
    BY <1>0, <2>1, <2>3, <2>4 DEF Step, CallState
  <2> QED BY <1>0, <1>4, <1>p, <2>0, <2>2, <2>3, <2>4, <2>5, ResultsKeep DEF Rerank, Quiet
<1>5. CASE ContextPack(c)
  <2>0. call[c].pc = "pack" /\ call[c].pc \notin Early \cup {"spans"} /\ entries' = entries
    BY <1>5 DEF ContextPack, AtNode, Early, Quiet
  <2>1. CASE Step(c, "prefix", call[c])
    BY <1>p, <2>0, <2>1, PassKeeps
  <2>2. ASSUME NEW I \in Injected(call[c]), NEW cited \in SUBSET (call[c].results \cup I),
               Step(c, "prefix", [call[c] EXCEPT !.results = call[c].results \cup I, !.citations = cited])
        PROVE  QueryIInv'
    <3>1. PICK R : R = call[c].results \cup I
      OBVIOUS
    <3>2. I \in SUBSET Chunk /\ InBase(I, call[c].request.base)
      BY <2>2, QueryAssumption DEF Injected, InBase
    <3>3. R \in SUBSET Chunk /\ InBase(R, call[c].request.base) /\ cited \in SUBSET Chunk
      BY <1>0, <2>2, <3>1, <3>2 DEF InBase
    <3>4. PICK st : st = [[call[c] EXCEPT !.results = R] EXCEPT !.citations = cited]
      OBVIOUS
    <3>5. Step(c, "prefix", st)
      BY <1>0, <2>2, <3>1, <3>4 DEF Step, CallState
    <3> QED BY <1>p, <2>0, <3>3, <3>4, <3>5, ResultsKeep
  <2>3. ASSUME NEW I \in Injected(call[c]), NEW cited \in {call[c].results \cup I} \cup {{x} : x \in call[c].results \cup I} \cup {{}}
        PROVE  cited \in SUBSET (call[c].results \cup I)
    BY <2>3
  <2> QED BY <1>5, <2>1, <2>2, <2>3 DEF ContextPack
<1>6. CASE PromptPrefixCache(c)
  BY <1>6, <1>p, PassKeeps DEF PromptPrefixCache, AtNode, Quiet, Early
<1> QED BY <1>1, <1>2, <1>3, <1>4, <1>5, <1>6

LEMMA GenerateKeeps ==
    ASSUME QueryIInv, NEW c \in QueryCall, Generate(c)
    PROVE  QueryIInv'
<1>0. /\ call[c] \in CallState /\ Own(call[c]) /\ call[c].request \in QueryRequest
      /\ entries \subseteq [key : Key, response : Response] /\ \A e \in entries : EntryOwn(e)
      /\ call[c].pc = "generate" /\ call[c].pc \notin Early \cup {"spans"} /\ "write" \in Place \ Early
  BY CallFacts DEF Generate, AtNode, Place, Early
<1>1. CASE Step(c, "write", call[c]) /\ Quiet
  BY <1>0, <1>1, PassKeeps DEF Quiet
<1>2. CASE ~call[c].hit /\ Step(c, "write", [call[c] EXCEPT !.response = Generated(call[c])]) /\ Quiet
  <2>1. call[c].hit = FALSE /\ call[c].results \in SUBSET Chunk /\ call[c].citations \in SUBSET Chunk
    BY <1>0, <1>2 DEF CallState
  <2>2. PICK answer : answer = Generated(call[c])
    OBVIOUS
  <2>3. /\ answer \in Response /\ answer.hit = FALSE /\ answer.chunks \subseteq call[c].results
        /\ \A m \in answer.made : m.key = CacheKey(call[c])
    <3>1. CASE call[c].route = "direct"
      BY <2>2, <3>1, NoResponseTyped DEF Generated
    <3>2. CASE call[c].route # "direct"
      <4>1. answer = [hit |-> FALSE, chunks |-> call[c].results, citations |-> call[c].citations \cap call[c].results,
                      made |-> {[key |-> CacheKey(call[c]), scoped |-> call[c].request.scoped]}]
        BY <2>2, <3>2 DEF Generated
      <4>2. [key |-> CacheKey(call[c]), scoped |-> call[c].request.scoped]
              \in [key : Key, scoped : {r.scoped : r \in QueryRequest}]
        BY <1>0, KeyTyped
      <4> QED BY <2>1, <4>1, <4>2 DEF Response
    <3> QED BY <3>1, <3>2
  <2>4. PICK st : st = [call[c] EXCEPT !.response = answer]
    OBVIOUS
  <2>5. st \in CallState
    BY <1>0, <2>3, <2>4 DEF CallState
  <2>6. /\ st.request = call[c].request /\ st.hit = FALSE /\ st.response = answer
        /\ st.results = call[c].results /\ st.profile = call[c].profile /\ st.topK = call[c].topK
    BY <1>0, <2>1, <2>4 DEF CallState
  <2>7. CacheKey(st) = CacheKey(call[c])
    BY <2>6 DEF CacheKey
  <2>8. InBase(st.results, st.request.base) /\ InBase(answer.chunks, st.request.base)
    BY <1>0, <2>3, <2>6 DEF Own, InBase
  <2>9. Own(st)
    BY <2>3, <2>6, <2>7, <2>8 DEF Own
  <2>10. Step(c, "write", st)
    BY <1>2, <2>2, <2>4 DEF Step
  <2> QED BY <1>0, <1>2, <2>5, <2>9, <2>10, StepKeeps DEF Quiet
<1>3. CASE Fails(c)
  BY <1>0, <1>3, FailsKeeps
<1> QED BY <1>1, <1>2, <1>3 DEF Generate

\* The entry that is written is the answer to its own key.
LEMMA WriteKeeps ==
    ASSUME QueryIInv, NEW c \in QueryCall, SemanticCacheWrite(c)
    PROVE  QueryIInv'
<1>0. /\ call[c] \in CallState /\ Own(call[c])
      /\ entries \subseteq [key : Key, response : Response] /\ \A e \in entries : EntryOwn(e)
      /\ call[c].pc = "write" /\ call[c].pc \notin Early \cup {"spans"}
  BY CallFacts DEF SemanticCacheWrite, AtNode, Early
<1>1. PICK next \in Place \ Early : next = IF Graph(c) THEN "trace" ELSE "done"
  BY DEF Place, Early
<1>2. CASE Step(c, next, call[c]) /\ entries' = entries
  BY <1>0, <1>2, PassKeeps
<1>3. ASSUME WorthStoring(call[c]), NEW kept \in Kept(CacheKey(call[c])), Step(c, next, call[c]),
             entries' = {e \in kept : e.key # CacheKey(call[c])} \cup {[key |-> CacheKey(call[c]), response |-> call[c].response]}
      PROVE  QueryIInv'
  <2>1. PICK st : st = call[c]
    OBVIOUS
  <2>2. st \in CallState /\ Own(st) /\ Step(c, next, st)
    BY <1>0, <1>3, <2>1 DEF Step
  <2>3. kept \subseteq entries
    BY <1>3 DEF Kept
  <2>4. PICK new : new = [key |-> CacheKey(call[c]), response |-> call[c].response]
    OBVIOUS
  <2>5. new \in [key : Key, response : Response] /\ new.key = CacheKey(st) /\ new.response = st.response
    BY <1>0, <2>1, <2>4, KeyTyped DEF CallState
  <2>6. st.hit = FALSE /\ st.response.citations # {}
    BY <1>3, <2>1, <2>2 DEF WorthStoring, CallState
  <2>7. EntryOwn(new)
    BY <2>2, <2>5, <2>6, KeyTyped DEF EntryOwn, Own
  <2>8. entries' \subseteq [key : Key, response : Response] /\ \A e \in entries' : EntryOwn(e)
    BY <1>0, <1>3, <2>3, <2>4, <2>5, <2>7
  <2> QED BY <1>0, <2>2, <2>8, StepKeeps
<1> QED BY <1>1, <1>2, <1>3 DEF SemanticCacheWrite, Quiet

\* A statement of the transaction that stores the trace: of the call it changes
\* the place and what a rollback would restore.
TraceStep(c, t, pc, b, row, holder) ==
    /\ t = call[c].request.trace
    /\ call' = [call EXCEPT ![c] = [[call[c] EXCEPT !.pc = pc] EXCEPT !.before = b]]
    /\ trace' = [trace EXCEPT ![t] = row]
    /\ lockedBy' = [lockedBy EXCEPT ![t] = holder]
    /\ backend' = backend /\ queries' = queries /\ entries' = entries
    /\ \A d \in QueryCall \ {c} : call[d].pc = "spans" => call[d].request.trace # t
    /\ holder = NoCall => row.row = row.spans
    /\ pc = "spans" => holder = c /\ row.row = TraceRecord(call[c]) /\ b.row = b.spans

LEMMA TraceStepKeeps ==
    ASSUME QueryIInv, NEW c \in QueryCall, NEW pc \in {"spans", "done"}, NEW b \in TraceRow, NEW t,
           NEW row \in TraceRow, NEW holder \in QueryCall \cup {NoCall}, TraceStep(c, t, pc, b, row, holder)
    PROVE  QueryIInv'
<1> USE DEF TraceStep
<1> DEFINE new == [[call[c] EXCEPT !.pc = pc] EXCEPT !.before = b]
<1>0. /\ call[c] \in CallState /\ Own(call[c]) /\ call[c].request \in QueryRequest /\ t \in TraceId
  BY CallFacts, RequestFields
<1>1. new \in CallState
  BY <1>0 DEF CallState, Place
<1>2. /\ new.pc = pc /\ new.request = call[c].request /\ new.before = b /\ TraceRecord(new) = TraceRecord(call[c])
  BY <1>0 DEF CallState, TraceRecord
<1>3. /\ new.hit = call[c].hit /\ new.response = call[c].response /\ new.results = call[c].results
      /\ new.profile = call[c].profile /\ new.topK = call[c].topK
  BY <1>0 DEF CallState
<1>4. Own(new)
  BY <1>0, <1>2, <1>3, SameOwn
<1>5. PICK cs : cs = new
  OBVIOUS
<1> HIDE DEF new
<1>6. call' \in [QueryCall -> CallState] /\ call'[c] = cs /\ \A d \in QueryCall : d # c => call'[d] = call[d]
  BY <1>1, <1>5 DEF QueryIInv, QueryType, new
<1>7. QueryType'
  BY <1>0, <1>6 DEF QueryIInv, QueryType
<1>8. \A d \in QueryCall : Own(call[d])' /\ (call'[d].pc \in Early => Fresh(call'[d]))
  <2> SUFFICES ASSUME NEW d \in QueryCall PROVE Own(call[d])' /\ (call'[d].pc \in Early => Fresh(call'[d]))
    OBVIOUS
  <2>1. CASE d = c
    <3>1. Own(call[d])'
      BY <1>4, <1>5, <1>6, <2>1 DEF Own
    <3> QED BY <1>2, <1>5, <1>6, <2>1, <3>1 DEF Early
  <2>2. CASE d # c
    <3>1. Own(call[d]) /\ (call[d].pc \in Early => Fresh(call[d])) /\ call'[d] = call[d]
      BY <1>6, <2>2 DEF QueryIInv
    <3>2. Own(call[d])'
      BY <3>1 DEF Own
    <3> QED BY <3>1, <3>2
  <2> QED BY <2>1, <2>2
<1>9. /\ trace'[t] = row /\ lockedBy'[t] = holder
      /\ \A u \in TraceId : u # t => trace'[u] = trace[u] /\ lockedBy'[u] = lockedBy[u]
  BY <1>0 DEF QueryIInv, QueryType
<1>10. \A d \in QueryCall : call'[d].pc = "spans" => Holds(d)'
  <2> SUFFICES ASSUME NEW d \in QueryCall, call'[d].pc = "spans" PROVE Holds(d)'
    OBVIOUS
  <2>1. CASE d = c
    BY <1>2, <1>5, <1>6, <1>9, <2>1 DEF Holds
  <2>2. CASE d # c
    <3>1. Holds(d) /\ call'[d] = call[d] /\ call[d].request.trace # t /\ call[d].request.trace \in TraceId
      BY <1>6, <2>2, CallFacts, RequestFields DEF QueryIInv
    <3> QED BY <1>9, <3>1 DEF Holds
  <2> QED BY <2>1, <2>2
<1>11. TraceOfOneQuery'
  BY <1>9 DEF QueryIInv, TraceOfOneQuery
<1>12. \A e \in entries' : EntryOwn(e)
  BY DEF QueryIInv
<1> QED BY <1>7, <1>8, <1>10, <1>11, <1>12 DEF QueryIInv

LEMMA StoreTraceKeeps ==
    ASSUME QueryIInv, NEW c \in QueryCall, UpsertTrace(c) \/ ReplaceSpans(c) \/ StoreTraceFails(c)
    PROVE  QueryIInv'
<1>0. PICK t : t = call[c].request.trace
  OBVIOUS
<1>1. /\ call[c] \in CallState /\ t \in TraceId /\ trace[t] \in TraceRow
      /\ call \in [QueryCall -> CallState] /\ trace \in [TraceId -> TraceRow]
      /\ lockedBy \in [TraceId -> QueryCall \cup {NoCall}]
      /\ call[c].before \in TraceRow /\ Untraced \in TraceRow /\ TraceRecord(call[c]) \in Record
  BY <1>0, CallFacts, RequestFields DEF QueryIInv, QueryType, CallState, Untraced, NoTrace, TraceRow, Record, TraceRecord
<1>2. call[c].pc = "spans" =>
        /\ lockedBy[t] = c /\ trace[t].row = TraceRecord(call[c]) /\ call[c].before.row = call[c].before.spans
        /\ \A d \in QueryCall \ {c} : call[d].pc = "spans" => call[d].request.trace # t
  BY <1>0 DEF QueryIInv, Holds
<1>3. /\ backend' = backend /\ queries' = queries /\ entries' = entries
  BY DEF UpsertTrace, ReplaceSpans, StoreTraceFails, Quiet
<1>4. CASE UpsertTrace(c)
  <2>1. PICK row : row = [trace[t] EXCEPT !.row = TraceRecord(call[c])]
    OBVIOUS
  <2>2. row \in TraceRow /\ row.row = TraceRecord(call[c])
    BY <1>1, <2>1 DEF TraceRow
  <2>3. PICK b \in TraceRow : b = trace[t]
    BY <1>1
  <2>4. /\ trace' = [trace EXCEPT ![t] = row] /\ lockedBy' = [lockedBy EXCEPT ![t] = c]
        /\ call' = [call EXCEPT ![c] = [[call[c] EXCEPT !.pc = "spans"] EXCEPT !.before = b]]
    BY <1>0, <1>1, <1>4, <2>1, <2>3 DEF UpsertTrace
  <2>5. lockedBy[t] = NoCall
    BY <1>0, <1>4 DEF UpsertTrace, RowFree
  <2>6. \A d \in QueryCall \ {c} : call[d].pc = "spans" => call[d].request.trace # t
    BY <2>5, QueryAssumption DEF QueryIInv, Holds
  <2>7. b.row = b.spans
    BY <1>1, <2>3, <2>5 DEF QueryIInv, TraceOfOneQuery
  <2>8. c # NoCall
    BY QueryAssumption
  <2>9. TraceStep(c, t, "spans", b, row, c)
    BY <1>0, <1>3, <2>2, <2>4, <2>6, <2>7, <2>8 DEF TraceStep
  <2> QED BY <2>2, <2>9, TraceStepKeeps
<1>5. CASE ReplaceSpans(c)
  <2>1. PICK row : row = [trace[t] EXCEPT !.spans = TraceRecord(call[c])]
    OBVIOUS
  <2>2. row \in TraceRow /\ row.spans = TraceRecord(call[c]) /\ row.row = trace[t].row
    BY <1>1, <2>1 DEF TraceRow
  <2>3. PICK b \in TraceRow : b = Untraced
    BY <1>1
  <2>4. /\ trace' = [trace EXCEPT ![t] = row] /\ lockedBy' = [lockedBy EXCEPT ![t] = NoCall]
        /\ call' = [call EXCEPT ![c] = [[call[c] EXCEPT !.pc = "done"] EXCEPT !.before = b]]
    BY <1>0, <1>1, <1>5, <2>1, <2>3 DEF ReplaceSpans
  <2>5. call[c].pc = "spans"
    BY <1>5 DEF ReplaceSpans, AtNode
  <2>6. row.row = row.spans
    BY <1>2, <2>2, <2>5
  <2>7. TraceStep(c, t, "done", b, row, NoCall)
    BY <1>0, <1>2, <1>3, <2>4, <2>5, <2>6 DEF TraceStep
  <2> QED BY <2>2, <2>7, TraceStepKeeps
<1>6. CASE StoreTraceFails(c)
  <2>1. PICK b \in TraceRow : b = Untraced
    BY <1>1
  <2>2. call' = [call EXCEPT ![c] = [[call[c] EXCEPT !.pc = "done"] EXCEPT !.before = b]]
    BY <1>1, <1>6, <2>1 DEF StoreTraceFails
  <2>3. CASE call[c].pc = "spans"
    <3>1. PICK row \in TraceRow : row = call[c].before
      BY <1>1
    <3>2. trace' = [trace EXCEPT ![t] = row] /\ lockedBy' = [lockedBy EXCEPT ![t] = NoCall]
      BY <1>0, <1>6, <2>3, <3>1 DEF StoreTraceFails, AtNode
    <3>3. row.row = row.spans
      BY <1>2, <2>3, <3>1
    <3>4. TraceStep(c, t, "done", b, row, NoCall)
      BY <1>0, <1>2, <1>3, <2>2, <2>3, <3>2, <3>3 DEF TraceStep
    <3> QED BY <3>4, TraceStepKeeps
  <2>4. CASE call[c].pc = "trace"
    <3>1. trace' = trace /\ lockedBy' = lockedBy
      BY <1>6, <2>4 DEF StoreTraceFails, AtNode
    <3>2. PICK st : st = [call[c] EXCEPT !.before = b]
      OBVIOUS
    <3>3. PICK new : new = [st EXCEPT !.pc = "done"]
      OBVIOUS
    <3>4. st \in CallState /\ new \in CallState
      BY <1>1, <3>2, <3>3 DEF CallState, Place
    <3>5. /\ new.pc = "done" /\ new.request = call[c].request /\ new.hit = call[c].hit /\ new.response = call[c].response
          /\ new.results = call[c].results /\ new.profile = call[c].profile /\ new.topK = call[c].topK
      BY <1>1, <3>2, <3>3 DEF CallState
    <3>6. Own(new)
      BY <3>5, CallFacts, SameOwn
    <3>7. call'[c] = new /\ call' \in [QueryCall -> CallState] /\ \A d \in QueryCall : d # c => call'[d] = call[d]
      BY <1>1, <2>2, <3>2, <3>3, <3>4 DEF CallState
    <3>8. QueryType'
      BY <1>3, <3>1, <3>7 DEF QueryIInv, QueryType
    <3>9. \A d \in QueryCall : Own(call[d])' /\ (call'[d].pc \in Early => Fresh(call'[d]))
      <4> SUFFICES ASSUME NEW d \in QueryCall PROVE Own(call[d])' /\ (call'[d].pc \in Early => Fresh(call'[d]))
        OBVIOUS
      <4>1. CASE d = c
        <5>1. Own(call[d])'
          BY <1>3, <3>6, <3>7, <4>1 DEF Own
        <5> QED BY <3>5, <3>7, <4>1, <5>1 DEF Early
      <4>2. CASE d # c
        <5>1. Own(call[d]) /\ (call[d].pc \in Early => Fresh(call[d])) /\ call'[d] = call[d]
          BY <3>7, <4>2 DEF QueryIInv
        <5>2. Own(call[d])'
          BY <1>3, <5>1 DEF Own
        <5> QED BY <5>1, <5>2
      <4> QED BY <4>1, <4>2
    <3>10. \A d \in QueryCall : call'[d].pc = "spans" => Holds(d)'
      <4>1. \A d \in QueryCall : call'[d].pc = "spans" => d # c /\ Holds(d)
        BY <3>5, <3>7 DEF QueryIInv
      <4> QED BY <3>1, <3>7, <4>1 DEF Holds
    <3>11. TraceOfOneQuery'
      BY <3>1 DEF QueryIInv, TraceOfOneQuery
    <3>12. \A e \in entries' : EntryOwn(e)
      BY <1>3 DEF QueryIInv
    <3> QED BY <3>8, <3>9, <3>10, <3>11, <3>12 DEF QueryIInv
  <2> QED BY <1>6, <2>3, <2>4 DEF StoreTraceFails
<1> QED BY <1>4, <1>5, <1>6

LEMMA QueryInitial == QueryInit => QueryIInv
<1> SUFFICES ASSUME QueryInit PROVE QueryIInv
  OBVIOUS
<1>1. PICK r \in QueryRequest : r = CHOOSE x \in QueryRequest : TRUE
  BY QueryAssumption
<1>2. PICK st : st = [NewState(r, 0) EXCEPT !.pc = "idle"]
  OBVIOUS
<1>3. Untraced \in TraceRow /\ Untraced.row = Untraced.spans
  BY DEF Untraced, NoTrace, TraceRow, Record
<1>4. NewState(r, 0) \in CallState
  BY <1>3, NoResponseTyped DEF NewState, CallState, Place, Early, Field
<1>5. st \in CallState
  BY <1>2, <1>4 DEF CallState, Place, Early
<1>6. st.pc = "idle" /\ st.hit = FALSE /\ st.response = NoResponse /\ st.results = {}
  BY <1>2 DEF NewState
<1>7. Fresh(st) /\ Own(st)
  BY <1>6, FreshOwn DEF Fresh, InBase
<1>8. call = [c \in QueryCall |-> st]
  BY <1>1, <1>2 DEF QueryInit
<1>9. QueryType
  BY <1>3, <1>5, <1>8 DEF QueryInit, QueryType
<1>10. TraceOfOneQuery /\ \A e \in entries : EntryOwn(e)
  BY <1>3 DEF QueryInit, TraceOfOneQuery
<1> QED BY <1>6, <1>7, <1>8, <1>9, <1>10 DEF QueryIInv

LEMMA QueryInductive == QueryIInv /\ [QueryNext]_queryVars => QueryIInv'
<1> SUFFICES ASSUME QueryIInv, [QueryNext]_queryVars PROVE QueryIInv'
  OBVIOUS
<1>1. ASSUME NEW c \in QueryCall, NodeStep(c) PROVE QueryIInv'
  BY <1>1, EarlyKeeps, LookupKeeps, SearchKeeps, GenerateKeeps, WriteKeeps, StoreTraceKeeps DEF NodeStep
<1>2. ASSUME NEW c \in QueryCall, NEW r \in QueryRequest, Query(c, r) PROVE QueryIInv'
  BY <1>2, QueryBegins
<1>3. CASE UNCHANGED queryVars
  BY <1>3 DEF queryVars, QueryIInv, QueryType, Own, Holds, TraceOfOneQuery
<1> QED BY <1>1, <1>2, <1>3 DEF QueryNext

LEMMA QueryImplies == QueryIInv => AnswersAreOwn
<1> SUFFICES ASSUME QueryIInv PROVE AnswersAreOwn
  OBVIOUS
<1>1. AnswerInBase
  BY DEF QueryIInv, Own, InBase, AnswerInBase
<1>2. ASSUME NEW c \in QueryCall, call[c].response.hit
      PROVE  /\ call[c].response.citations # {}
             /\ \A m \in call[c].response.made :
                  /\ FilterMatches(m.key, CacheKey(call[c]))
                  /\ m.key.topK = call[c].topK /\ m.key.base = call[c].request.base
                  /\ backend = "memory" => m.key.text = call[c].request.text
  <2>1. call[c].hit = TRUE
    BY <1>2, CallFacts DEF Own, CallState
  <2>2. /\ call[c].response.citations # {}
        /\ \A m \in call[c].response.made : FilterMatches(m.key, CacheKey(call[c]))
                                            /\ (backend = "memory" => m.key = CacheKey(call[c]))
    BY <2>1, CallFacts DEF Own
  <2>3. /\ CacheKey(call[c]).topK = call[c].topK /\ CacheKey(call[c]).base = call[c].request.base
        /\ CacheKey(call[c]).text = call[c].request.text
    BY DEF CacheKey
  <2> QED BY <2>2, <2>3 DEF FilterMatches
<1>3. HitMatches
  BY <1>2 DEF HitMatches
<1> QED BY <1>1, <1>3 DEF AnswersAreOwn, QueryIInv

\* Answer, cache entry and trace of a query are its own, for any number of
\* queries, bases, cache entries and faults, with either cache (internal/graph).
THEOREM AnswersOwn == QuerySpec => []AnswersAreOwn
<1>1. QueryInit => QueryIInv
  BY QueryInitial
<1>2. QueryIInv /\ [QueryNext]_queryVars => QueryIInv'
  BY QueryInductive
<1>3. QueryIInv => AnswersAreOwn
  BY QueryImplies
<1> QED BY <1>1, <1>2, <1>3, PTL DEF QuerySpec

-----------------------------------------------------------------------------
(***************************************************************************)
(* Pack release                                                            *)
(***************************************************************************)

\* A root holds its machine's files; the checksums are the last of them.
RootStands(m, root) ==
    /\ root.pc \in {"none", "built", "failed"}
    /\ root.files \in [PackFile -> {NoFile, WholeFile(m), CutFile(m)}]
    /\ root.pc = "none" => \A f \in PackFile : root.files[f] = NoFile
    /\ root.files["sums"] = WholeFile(m) => \A f \in PackFile : root.files[f] = WholeFile(m)

\* What is public under a key comes from a root and is what that root holds.
PublicStands(f) ==
    publicPack[f] # NoFile =>
        \E m \in Machine : publicPack[f] = building[m].files[f]

\* What a publication has behind it is public, as its root holds it.
PublishStands(m, run) ==
    /\ run.pc \in {"idle", "check", "head", "put", "done", "failed"}
    /\ run.pc \in {"check", "head", "put"} =>
          /\ building[m].pc # "none"
          /\ run.files = releaseFiles(m) /\ run.left \subseteq run.files /\ run.left # {}
    /\ run.pc \in {"head", "put"} =>
          \A f \in run.files \ run.left : publicPack[f] = building[m].files[f]

\* So is what a verification with a whole list has behind it.
VerifyStands(m, run) ==
    /\ run.pc \in {"idle", "fetch", "verified"} /\ run.left \subseteq SumsListed
    /\ run.pc # "idle" => building[m].pc # "none"
    /\ run.pc = "fetch" => run.left # {}
    /\ run.pc = "verified" => run.left = {}
    /\ run.pc # "idle" /\ building[m].files["sums"] = WholeFile(m) =>
          \A f \in SumsListed \ run.left : publicPack[f] = building[m].files[f]

\* An executor has read a whole manifest, and has what it declares.
InstallStands(x) ==
    /\ x.pc \in {"idle", "fetch", "stat", "copy", "installed"}
    /\ x.pc # "idle" => \E m \in Machine : x.manifest = WholeFile(m)
    /\ x.pc \in {"stat", "copy"} => x.temp = WholeFile(x.manifest.of)
    /\ x.pc = "installed" => privatePack[x.manifest.of] = WholeFile(x.manifest.of)

\* The inductive invariant.
PackIInv ==
    /\ building = [m \in Machine |-> building[m]] /\ publishing = [m \in Machine |-> publishing[m]]
    /\ verifying = [m \in Machine |-> verifying[m]] /\ installing = [e \in PackExecutor |-> installing[e]]
    /\ publicPack = [f \in PackFile |-> publicPack[f]] /\ privatePack = [m \in Machine |-> privatePack[m]]
    /\ \A m \in Machine : RootStands(m, building[m])
    /\ \A f \in PackFile : PublicStands(f)
    /\ \A m \in Machine : PublishStands(m, publishing[m]) /\ VerifyStands(m, verifying[m])
    /\ \A m \in Machine : privatePack[m] \in {NoFile, WholeFile(m)}
    /\ \A e \in PackExecutor : InstallStands(installing[e])
    /\ QuickKeepsBudget /\ ManifestBacked

-----------------------------------------------------------------------------
LEMMA FileKinds ==
    ASSUME NEW m, NEW n
    PROVE  /\ WholeFile(m) # NoFile /\ CutFile(m) # NoFile /\ WholeFile(m) # CutFile(n)
           /\ WholeFile(m) = WholeFile(n) => m = n
           /\ CutFile(m) = CutFile(n) => m = n
           /\ WholeFile(m).of = m /\ WholeFile(m).state = "whole"
           /\ CutFile(m).of = m /\ CutFile(m).state = "part"
           /\ NoFile.state = "absent"
<1>1. /\ WholeFile(m).of = m /\ WholeFile(m).state = "whole" /\ WholeFile(n).of = n
      /\ CutFile(m).of = m /\ CutFile(m).state = "part" /\ CutFile(n).of = n /\ CutFile(n).state = "part"
      /\ NoFile.state = "absent"
  BY DEF WholeFile, CutFile, NoFile
<1> QED BY <1>1

\* The path of a file has a place of its own.
LEMMA Paths ==
    /\ \A f \in PackFile : PathPlace[f] \in 1..7
    /\ \A f, g \in PackFile : PathPlace[f] = PathPlace[g] => f = g
<1>1. /\ PathPlace["sums"] = 1 /\ PathPlace["source"] = 2 /\ PathPlace["benchmark"] = 3
      /\ PathPlace["benchmark_manifest"] = 4 /\ PathPlace["quick"] = 5 /\ PathPlace["quick_manifest"] = 6
      /\ PathPlace["archive"] = 7
  BY DEF PathPlace
<1> QED BY <1>1 DEF PackFile

\* There is a first file to take.
LEMMA FirstFile ==
    ASSUME NEW L \in SUBSET PackFile, L # {}
    PROVE  /\ \E f \in L : \A g \in L : f = g \/ Precedes(f, g)
           /\ \E f \in L : \A g \in L : PathPlace[f] <= PathPlace[g]
<1> DEFINE Rank(f) == IF f \in Manifests THEN PathPlace[f] + 7 ELSE PathPlace[f]
<1>1. ASSUME NEW A \in SUBSET PackFile, A # {}
      PROVE  \E f \in A : \A g \in A : PathPlace[f] <= PathPlace[g]
  <2> DEFINE T == {x \in Nat : \E f \in A : x = PathPlace[f]}
  <2>1. \A f \in A : PathPlace[f] \in T
    BY Paths
  <2>2. T \in SUBSET Nat /\ T # {}
    BY <2>1, <1>1
  <2>3. PICK x \in T : \A y \in T : x <= y
    BY <2>2, LeastOf
  <2> QED BY <2>1, <2>3
<1>2. CASE L \subseteq Manifests
  <2>1. PICK f \in L : \A g \in L : PathPlace[f] <= PathPlace[g]
    BY <1>1
  <2>2. \A g \in L : f # g => PathPlace[f] < PathPlace[g]
    BY <2>1, Paths
  <2> QED BY <1>1, <1>2, <2>2 DEF Precedes
<1>3. CASE ~(L \subseteq Manifests)
  <2>1. PICK f \in L \ Manifests : \A g \in L \ Manifests : PathPlace[f] <= PathPlace[g]
    BY <1>1, <1>3
  <2>2. \A g \in L \ Manifests : f # g => PathPlace[f] < PathPlace[g]
    BY <2>1, Paths
  <2> QED BY <1>1, <2>2 DEF Precedes
<1> QED BY <1>2, <1>3

-----------------------------------------------------------------------------
\* The records writeCorpus takes.
LEMMA QuickFits ==
    ASSUME NEW m \in Machine, textCorpusFiles(Checkout[m]) # {}
    PROVE  FitsBudget(Checkout[m], CorpusRecords(Checkout[m], QuickMaxBytes))
<1> DEFINE source == Checkout[m]
           texts == textCorpusFiles(source)
           quick == CorpusRecords(source, QuickMaxBytes)
           Fits(j) == (\A i \in texts : j <= i) \/ Bytes(source, UpTo(texts, j)) <= QuickMaxBytes
<1>1. source \in Seq([text : BOOLEAN, bytes : Nat \ {0}]) /\ Len(source) \in Nat /\ DOMAIN source = 1..Len(source)
  BY PackAssumption
<1>2. texts \in SUBSET (1..Len(source)) /\ texts \in SUBSET Nat
  BY <1>1 DEF textCorpusFiles
<1>3. quick = {k \in texts : \A j \in UpTo(texts, k) : Fits(j)}
  BY DEF CorpusRecords
<1>4. PICK first \in texts : \A i \in texts : first <= i
  BY <1>2, LeastOf
<1> HIDE DEF texts, quick, source
<1>5. first \in quick
  <2>1. \A j \in UpTo(texts, first) : j = first
    BY <1>2, <1>4 DEF UpTo
  <2> QED BY <1>3, <1>4, <2>1
<1>6. \A k \in quick : UpTo(texts, k) \subseteq quick
  <2> SUFFICES ASSUME NEW k \in quick, NEW i \in UpTo(texts, k) PROVE i \in quick
    OBVIOUS
  <2>1. i \in texts /\ i <= k /\ k \in texts
    BY <1>3 DEF UpTo
  <2>2. UpTo(texts, i) \subseteq UpTo(texts, k)
    <3> SUFFICES ASSUME NEW j \in texts, j <= i PROVE j <= k
      BY DEF UpTo
    <3> QED BY <1>2, <2>1
  <2> QED BY <1>3, <2>1, <2>2
<1>7. ASSUME NEW i \in quick, NEW j \in quick, i # j PROVE Bytes(source, quick) <= QuickMaxBytes
  <2>1. quick \in SUBSET (1..Len(source)) /\ quick # {}
    BY <1>2, <1>3, <1>5
  <2>2. PICK last \in quick : \A k \in quick : k <= last
    BY <1>1, <2>1, HasGreatest DEF source
  <2>3. last \in texts /\ UpTo(texts, last) = quick
    BY <1>3, <1>6, <2>2 DEF UpTo
  <2>4. ~(\A k \in texts : last <= k)
    BY <1>2, <1>3, <1>7, <2>2
  <2>5. last \in UpTo(texts, last)
    BY <1>2, <2>3 DEF UpTo
  <2> QED BY <1>3, <2>3, <2>4, <2>5
<1>8. ASSUME NEW next \in texts \ quick, \A i \in texts \ quick : next <= i
      PROVE  ~(Bytes(source, quick \cup {next}) <= QuickMaxBytes)
  <2>1. PICK j \in UpTo(texts, next) : ~Fits(j)
    BY <1>3, <1>8
  <2>2. j \in texts /\ j <= next
    BY DEF UpTo
  <2>3. j \notin quick
    <3>1. j \in UpTo(texts, j)
      BY <1>2, <2>2 DEF UpTo
    <3> QED BY <1>3, <2>1, <3>1
  <2>4. j = next
    BY <1>2, <1>8, <2>2, <2>3
  <2>5. UpTo(texts, next) = quick \cup {next}
    <3>1. ASSUME NEW i \in quick PROVE i <= next
      <4>1. i \in texts /\ next \in texts /\ i \in Nat /\ next \in Nat
        BY <1>2, <1>3, <1>8
      <4>2. CASE next <= i
        <5>1. next \in UpTo(texts, i)
          BY <4>1, <4>2 DEF UpTo
        <5> QED BY <1>6, <1>8, <5>1
      <4> QED BY <4>1, <4>2
    <3>2. ASSUME NEW i \in UpTo(texts, next), i # next PROVE i \in quick
      BY <1>2, <1>8, <3>2 DEF UpTo
    <3>3. quick \subseteq texts /\ next \in texts /\ next <= next
      BY <1>2, <1>3
    <3> QED BY <3>1, <3>2, <3>3 DEF UpTo
  <2> QED BY <2>1, <2>4, <2>5
<1>9. quick # {}
  BY <1>5
<1> QED BY <1>6, <1>7, <1>8, <1>9 DEF texts, quick, source, FitsBudget

-----------------------------------------------------------------------------
\* A file that is public is the file of the root it names.
LEMMA PublicOwner ==
    ASSUME PackIInv, NEW f \in PackFile, publicPack[f] # NoFile
    PROVE  /\ publicPack[f].of \in Machine
           /\ building[publicPack[f].of].pc # "none"
           /\ building[publicPack[f].of].files[f] = publicPack[f]
<1>1. PICK m \in Machine : publicPack[f] = building[m].files[f]
  BY DEF PackIInv, PublicStands
<1>2. RootStands(m, building[m])
  BY DEF PackIInv
<1>3. publicPack[f] \in {WholeFile(m), CutFile(m)}
  BY <1>1, <1>2 DEF RootStands
<1>4. publicPack[f].of = m
  BY <1>3, FileKinds
<1>5. building[m].pc # "none"
  BY <1>1, <1>2 DEF RootStands
<1> QED BY <1>1, <1>4, <1>5

\* A build begins with an empty root and leaves the others alone.
LEMMA BuildKeeps ==
    ASSUME PackIInv, NEW m \in Machine, Build(m)
    PROVE  PackIInv'
<1> USE DEF PackIInv
<1>1. /\ building[m].pc = "none" /\ textCorpusFiles(Checkout[m]) # {}
      /\ UNCHANGED <<publishing, publicPack, verifying, installing, privatePack>>
  BY DEF Build
<1>2. PICK pc \in {"built", "failed"}, n \in 0..7, left \in {NoFile, CutFile(m)} :
        building' = [building EXCEPT ![m] = [pc |-> pc, quick |-> CorpusRecords(Checkout[m], QuickMaxBytes),
                                             files |-> Root(m, n, left)]]
  <2>1. 7 \in 0..7 /\ 0..6 \subseteq 0..7
    OBVIOUS
  <2> QED BY <2>1 DEF Build
<1>3. /\ building'[m] = [pc |-> pc, quick |-> CorpusRecords(Checkout[m], QuickMaxBytes), files |-> Root(m, n, left)]
      /\ \A k \in Machine \ {m} : building'[k] = building[k]
      /\ building' = [k \in Machine |-> building'[k]]
  BY <1>2
<1>4. building'[m].pc = pc /\ building'[m].files = Root(m, n, left)
      /\ building'[m].quick = CorpusRecords(Checkout[m], QuickMaxBytes)
  BY <1>3
<1>5. RootStands(m, building[m])'
  <2>1. \A f \in PackFile : Root(m, n, left)[f] \in {NoFile, WholeFile(m), CutFile(m)}
    BY DEF Root
  <2>2. Root(m, n, left) \in [PackFile -> {NoFile, WholeFile(m), CutFile(m)}]
    BY <2>1 DEF Root
  <2>3. Root(m, n, left)["sums"] = WholeFile(m) => \A f \in PackFile : Root(m, n, left)[f] = WholeFile(m)
    <3>1. /\ BuildPlace["sums"] = 7 /\ BuildPlace["source"] = 6 /\ BuildPlace["benchmark"] = 3
          /\ BuildPlace["benchmark_manifest"] = 5 /\ BuildPlace["quick"] = 2 /\ BuildPlace["quick_manifest"] = 4
          /\ BuildPlace["archive"] = 1
      BY DEF BuildPlace
    <3>2. \A f \in PackFile : BuildPlace[f] \in 1..7
      BY <3>1 DEF PackFile
    <3>3. CASE n = 7
      BY <3>2, <3>3 DEF Root
    <3>4. CASE n # 7
      <4>1. "sums" \in PackFile /\ n \in Int /\ ~(7 <= n)
        BY <3>4 DEF PackFile
      <4>2. Root(m, n, left)["sums"] \in {NoFile, CutFile(m)}
        BY <3>1, <4>1 DEF Root
      <4> QED BY <4>2, FileKinds
    <3> QED BY <3>3, <3>4
  <2> QED BY <1>3, <1>4, <2>2, <2>3 DEF RootStands
<1>6. \A k \in Machine : RootStands(k, building[k])'
  BY <1>3, <1>5 DEF RootStands
<1>7. \A f \in PackFile : building[m].files[f] = NoFile
  BY <1>1 DEF RootStands
<1>8. ASSUME NEW f \in PackFile PROVE PublicStands(f)'
  BY <1>1, <1>3, <1>7 DEF PublicStands
<1>9. ASSUME NEW k \in Machine PROVE PublishStands(k, publishing[k])' /\ VerifyStands(k, verifying[k])'
  <2>1. CASE k = m
    BY <1>1, <2>1 DEF PublishStands, VerifyStands
  <2>2. CASE k # m
    <3>1. building'[k] = building[k] /\ publishing'[k] = publishing[k] /\ verifying'[k] = verifying[k]
      BY <1>1, <1>3, <2>2
    <3>2. releaseFiles(k)' = releaseFiles(k)
      BY <3>1 DEF releaseFiles
    <3>3. PublishStands(k, publishing[k])'
      <4>1. PublishStands(k, publishing[k])
        OBVIOUS
      <4> QED BY <1>1, <3>1, <3>2, <4>1 DEF PublishStands
    <3>4. VerifyStands(k, verifying[k])'
      <4>1. VerifyStands(k, verifying[k])
        OBVIOUS
      <4> QED BY <1>1, <3>1, <4>1 DEF VerifyStands
    <3> QED BY <3>3, <3>4
  <2> QED BY <2>1, <2>2
<1>10. QuickKeepsBudget'
  <2> SUFFICES ASSUME NEW k \in Machine, building'[k].pc # "none"
               PROVE  FitsBudget(Checkout[k], building'[k].quick)
    BY DEF QuickKeepsBudget
  <2>1. CASE k = m
    BY <1>1, <1>4, <2>1, QuickFits
  <2>2. CASE k # m
    BY <1>3, <2>2 DEF QuickKeepsBudget
  <2> QED BY <2>1, <2>2
<1>11. ManifestBacked'
  <2> SUFFICES ASSUME NEW manifest \in Manifests, publicPack[manifest].state = "whole",
                      NEW f \in PackFile \ Manifests
               PROVE  building'[publicPack[manifest].of].files[f] \in {NoFile, publicPack[f]}
    BY <1>1 DEF ManifestBacked
  <2>1. manifest \in PackFile /\ publicPack[manifest] # NoFile
    BY FileKinds DEF Manifests, ManifestOf, Tier, PackFile
  <2>2. publicPack[manifest].of \in Machine \ {m}
    BY <1>1, <2>1, PublicOwner
  <2> QED BY <1>3, <2>2 DEF ManifestBacked
<1>12. \A e \in PackExecutor : InstallStands(installing[e])'
  BY <1>1 DEF InstallStands
<1> QED BY <1>1, <1>3, <1>6, <1>8, <1>9, <1>10, <1>11, <1>12

-----------------------------------------------------------------------------
\* The next file of a publication.
LEMMA NextFile ==
    ASSUME PackIInv, NEW m \in Machine, publishing[m].pc \in {"check", "head", "put"}
    PROVE  /\ PublishedFile(m) \in publishing[m].left
           /\ PublishedFile(m) \in releaseFiles(m) /\ PublishedFile(m) \in PackFile
           /\ \A g \in publishing[m].left : PublishedFile(m) = g \/ Precedes(PublishedFile(m), g)
<1>1. /\ publishing[m].left \subseteq publishing[m].files /\ publishing[m].files = releaseFiles(m)
      /\ publishing[m].left # {}
  BY DEF PackIInv, PublishStands
<1>2. publishing[m].left \in SUBSET PackFile
  BY <1>1 DEF releaseFiles
<1>3. \E f \in publishing[m].left : \A g \in publishing[m].left : f = g \/ Precedes(f, g)
  BY <1>1, <1>2, FirstFile
<1>4. /\ PublishedFile(m) \in publishing[m].left
      /\ \A g \in publishing[m].left : PublishedFile(m) = g \/ Precedes(PublishedFile(m), g)
  BY <1>3 DEF PublishedFile
<1> QED BY <1>1, <1>2, <1>4

\* What a step may do to the bucket: a publication may create its next file.
MayCreate(m) ==
    \/ publicPack' = publicPack
    \/ /\ publishing[m].pc = "put" /\ publicPack[PublishedFile(m)] = NoFile
       /\ publicPack' = [publicPack EXCEPT ![PublishedFile(m)] = building[m].files[PublishedFile(m)]]

LEMMA Created ==
    ASSUME PackIInv, NEW m \in Machine, MayCreate(m)
    PROVE  /\ publicPack' = [f \in PackFile |-> publicPack'[f]]
           /\ \A f \in PackFile : publicPack[f] # NoFile => publicPack'[f] = publicPack[f]
           /\ \A f \in PackFile : publicPack'[f] = publicPack[f] \/ publicPack'[f] = building[m].files[f]
           /\ \A f \in PackFile : publicPack'[f] # publicPack[f] =>
                 f = PublishedFile(m) /\ publishing[m].pc = "put"
<1>1. publicPack = [f \in PackFile |-> publicPack[f]]
  BY DEF PackIInv
<1>2. CASE publicPack' = publicPack
  BY <1>1, <1>2
<1>3. CASE publicPack' # publicPack
  <2>1. /\ publishing[m].pc = "put" /\ publicPack[PublishedFile(m)] = NoFile
        /\ publicPack' = [publicPack EXCEPT ![PublishedFile(m)] = building[m].files[PublishedFile(m)]]
    BY <1>3 DEF MayCreate
  <2>2. PublishedFile(m) \in PackFile
    BY <2>1, NextFile
  <2> QED BY <1>1, <2>1, <2>2
<1> QED BY <1>2, <1>3

\* What was said of the bucket is still true.
LEMMA StandsOn ==
    ASSUME PackIInv, NEW m \in Machine, MayCreate(m), building' = building, NEW k \in Machine, NEW run
    PROVE  /\ PublishStands(k, run) => PublishStands(k, run)'
           /\ VerifyStands(k, run) => VerifyStands(k, run)'
<1>1. releaseFiles(k)' = releaseFiles(k)
  BY DEF releaseFiles
<1>2. ASSUME PublishStands(k, run) PROVE PublishStands(k, run)'
  <2>1. ASSUME run.pc \in {"head", "put"}, NEW f \in run.files \ run.left
        PROVE  publicPack'[f] = building[k].files[f]
    <3>1. f \in PackFile /\ building[k].files[f] # NoFile /\ publicPack[f] = building[k].files[f]
      BY <1>2, <2>1 DEF PublishStands, releaseFiles
    <3> QED BY <3>1, Created
  <2> QED BY <1>1, <1>2, <2>1 DEF PublishStands
<1>3. ASSUME VerifyStands(k, run) PROVE VerifyStands(k, run)'
  <2>1. ASSUME run.pc # "idle", building[k].files["sums"] = WholeFile(k), NEW f \in SumsListed \ run.left
        PROVE  publicPack'[f] = building[k].files[f]
    <3>1. f \in PackFile /\ publicPack[f] = building[k].files[f]
      BY <1>3, <2>1 DEF VerifyStands, SumsListed
    <3>2. building[k].files[f] = WholeFile(k)
      BY <2>1, <3>1 DEF PackIInv, RootStands
    <3> QED BY <3>1, <3>2, Created, FileKinds
  <2> QED BY <1>3, <2>1 DEF VerifyStands
<1> QED BY <1>2, <1>3

\* A step of Publish or VerifyPublic.
LEMMA ReleaseStep ==
    ASSUME PackIInv, NEW m \in Machine, NEW run, NEW check,
           MayCreate(m), UNCHANGED <<building, installing, privatePack>>,
           publishing' = [publishing EXCEPT ![m] = run], verifying' = [verifying EXCEPT ![m] = check],
           PublishStands(m, run)', VerifyStands(m, check)'
    PROVE  PackIInv'
<1> USE DEF PackIInv
<1>1. /\ publishing' = [k \in Machine |-> publishing'[k]] /\ publishing'[m] = run
      /\ verifying' = [k \in Machine |-> verifying'[k]] /\ verifying'[m] = check
      /\ \A k \in Machine \ {m} : publishing'[k] = publishing[k] /\ verifying'[k] = verifying[k]
  OBVIOUS
<1>2. ASSUME NEW k \in Machine PROVE PublishStands(k, publishing[k])'
  <2>1. PICK old : old = publishing[k]
    OBVIOUS
  <2>2. PublishStands(k, old)'
    BY <2>1, StandsOn
  <2>4. CASE k = m
    BY <1>1, <2>4 DEF PublishStands
  <2>5. CASE k # m
    BY <1>1, <2>1, <2>2, <2>5 DEF PublishStands
  <2> QED BY <2>4, <2>5
<1>3. ASSUME NEW k \in Machine PROVE VerifyStands(k, verifying[k])'
  <2>1. PICK old : old = verifying[k]
    OBVIOUS
  <2>2. VerifyStands(k, old)'
    BY <2>1, StandsOn
  <2>4. CASE k = m
    BY <1>1, <2>4 DEF VerifyStands
  <2>5. CASE k # m
    BY <1>1, <2>1, <2>2, <2>5 DEF VerifyStands
  <2> QED BY <2>4, <2>5
<1>4. ASSUME NEW f \in PackFile PROVE PublicStands(f)'
  BY Created DEF PublicStands
<1>5. ManifestBacked'
  <2> SUFFICES ASSUME NEW manifest \in Manifests, publicPack'[manifest].state = "whole",
                      NEW f \in PackFile \ Manifests
               PROVE  building[publicPack'[manifest].of].files[f] \in {NoFile, publicPack'[f]}
    BY DEF ManifestBacked
  <2>1. manifest \in PackFile
    BY DEF Manifests, ManifestOf, Tier, PackFile
  <2>2. CASE publicPack'[manifest] = publicPack[manifest]
    <3>1. building[publicPack[manifest].of].files[f] \in {NoFile, publicPack[f]}
      BY <2>2 DEF ManifestBacked
    <3> QED BY <2>2, <3>1, Created
  <2>3. CASE publicPack'[manifest] # publicPack[manifest]
    <3>1. /\ manifest = PublishedFile(m) /\ publishing[m].pc = "put"
          /\ publicPack'[manifest] = building[m].files[manifest]
      BY <2>1, <2>3, Created
    <3>2. building[m].files[manifest] \in {NoFile, WholeFile(m), CutFile(m)}
      BY <2>1 DEF RootStands
    <3>3. publicPack'[manifest].of = m
      BY <3>1, <3>2, FileKinds
    <3>4. f \notin publishing[m].left
      <4>1. ~Precedes(manifest, f) /\ manifest # f
        BY DEF Precedes
      <4> QED BY <3>1, <4>1, NextFile
    <3>5. CASE f \in releaseFiles(m)
      <4>1. publicPack[f] = building[m].files[f] /\ publicPack[f] # NoFile
        BY <3>1, <3>4, <3>5 DEF PublishStands, releaseFiles
      <4> QED BY <3>3, <4>1, Created
    <3>6. CASE f \notin releaseFiles(m)
      BY <3>3, <3>6 DEF releaseFiles
    <3> QED BY <3>5, <3>6
  <2> QED BY <2>2, <2>3
<1>6. \A e \in PackExecutor : InstallStands(installing[e])'
  BY DEF InstallStands
<1>7. QuickKeepsBudget'
  BY DEF QuickKeepsBudget
<1>8. \A k \in Machine : RootStands(k, building[k])'
  BY DEF RootStands
<1> QED BY <1>1, <1>2, <1>3, <1>4, <1>5, <1>6, <1>7, <1>8, Created

LEMMA PublishKeeps ==
    ASSUME PackIInv, NEW m \in Machine,
           Publish(m) \/ CheckExisting(m) \/ HeadObject(m) \/ PutObject(m) \/ PublishFails(m)
    PROVE  PackIInv'
<1> DEFINE now == publishing[m]
<1>1. PublishStands(m, now) /\ VerifyStands(m, verifying[m])
  BY DEF PackIInv
<1>2. PICK check : check = verifying[m]
  OBVIOUS
<1>3. verifying' = [verifying EXCEPT ![m] = check] /\ UNCHANGED <<building, installing, privatePack>>
  <2>1. verifying' = verifying /\ UNCHANGED <<building, installing, privatePack>>
    BY DEF Publish, CheckExisting, HeadObject, PutObject, PublishFails
  <2>2. verifying = [k \in Machine |-> verifying[k]]
    BY DEF PackIInv
  <2> QED BY <1>2, <2>1, <2>2
<1>4. ASSUME MayCreate(m) PROVE VerifyStands(m, check)'
  BY <1>1, <1>2, <1>3, <1>4, StandsOn
<1>5. releaseFiles(m)' = releaseFiles(m)
  BY <1>3 DEF releaseFiles
\* It is enough to look at the row of the publication.
<1>6. ASSUME NEW run, publishing' = [publishing EXCEPT ![m] = run], MayCreate(m), PublishStands(m, run)'
      PROVE  PackIInv'
  BY <1>3, <1>4, <1>6, ReleaseStep
<1>7. CASE Publish(m)
  <2>1. PICK run : run = [pc |-> "check", files |-> releaseFiles(m), left |-> releaseFiles(m)]
    OBVIOUS
  <2>2. /\ publishing' = [publishing EXCEPT ![m] = run] /\ MayCreate(m)
        /\ building[m].pc # "none" /\ releaseFiles(m) # {}
    BY <1>7, <2>1 DEF Publish, MayCreate
  <2>3. run.pc = "check" /\ run.files = releaseFiles(m) /\ run.left = releaseFiles(m)
    BY <2>1
  <2>4. PublishStands(m, run)'
    BY <1>3, <1>5, <2>2, <2>3 DEF PublishStands
  <2> QED BY <1>6, <2>2, <2>4
\* A publication that ends.
<1>8. ASSUME NEW run, run.pc \in {"failed", "done"} PROVE PublishStands(m, run)'
  BY <1>8 DEF PublishStands
<1>9. CASE CheckExisting(m)
  <2>1. now.pc = "check" /\ MayCreate(m)
    BY <1>9 DEF CheckExisting, MayCreate
  <2>2. CASE publicPack[PublishedFile(m)] # NoFile
    <3>1. PICK run : run = [now EXCEPT !.pc = "failed"]
      OBVIOUS
    <3>2. publishing' = [publishing EXCEPT ![m] = run]
      BY <1>9, <2>2, <3>1 DEF CheckExisting
    <3>3. run.pc = "failed"
      BY <3>1, <1>1 DEF PublishStands
    <3>4. PublishStands(m, run)'
      BY <1>8, <3>3
    <3> QED BY <1>6, <2>1, <3>2, <3>4
  <2>3. CASE publicPack[PublishedFile(m)] = NoFile
    <3>1. PICK run : run = Proceeds(m, "check", "head")
      OBVIOUS
    <3>2. publishing' = [publishing EXCEPT ![m] = run]
      BY <1>9, <2>3, <3>1 DEF CheckExisting
    <3>3. /\ run.files = releaseFiles(m) /\ run.left \subseteq releaseFiles(m) /\ run.left # {}
          /\ run.pc \in {"check", "head"} /\ (run.pc = "head" => run.left = run.files)
      <4>1. /\ now.files = releaseFiles(m) /\ now.left \subseteq releaseFiles(m) /\ releaseFiles(m) # {}
        BY <1>1, <2>1 DEF PublishStands
      <4> QED BY <3>1, <4>1 DEF Proceeds
    <3>4. PublishStands(m, run)'
      BY <1>1, <1>3, <1>5, <2>1, <3>3 DEF PublishStands
    <3> QED BY <1>6, <2>1, <3>2, <3>4
  <2> QED BY <2>2, <2>3
<1>10. ASSUME now.pc \in {"head", "put"}, NEW pc \in {"put", "failed"}, NEW run,
              run.pc = pc, run.files = now.files, run.left = now.left, MayCreate(m)
       PROVE  PublishStands(m, run)'
  <2>1. PublishStands(m, run)
    BY <1>1, <1>10 DEF PublishStands
  <2> QED BY <1>3, <1>10, <2>1, StandsOn
<1>11. CASE HeadObject(m)
  <2>1. now.pc = "head" /\ MayCreate(m)
    BY <1>11 DEF HeadObject, MayCreate
  <2>2. PICK pc : pc = IF publicPack[PublishedFile(m)] = NoFile THEN "put" ELSE "failed"
    OBVIOUS
  <2>3. pc \in {"put", "failed"}
    BY <2>2
  <2>4. PICK run : run = [now EXCEPT !.pc = pc]
    OBVIOUS
  <2>5. publishing' = [publishing EXCEPT ![m] = run]
    BY <1>11, <2>2, <2>4 DEF HeadObject
  <2>6. run.pc = pc /\ run.files = now.files /\ run.left = now.left
    BY <2>4, <1>1 DEF PublishStands
  <2> QED BY <1>6, <1>10, <2>1, <2>3, <2>5, <2>6
<1>12. CASE PutObject(m)
  <2>1. now.pc = "put" /\ MayCreate(m)
    BY <1>12 DEF PutObject, MayCreate, Creates
  <2>2. CASE ~Creates(PublishedFile(m))
    <3>1. PICK run : run = [now EXCEPT !.pc = "failed"]
      OBVIOUS
    <3>2. publishing' = [publishing EXCEPT ![m] = run]
      BY <1>12, <2>2, <3>1 DEF PutObject
    <3>3. run.pc = "failed"
      BY <3>1, <1>1 DEF PublishStands
    <3>4. PublishStands(m, run)'
      BY <1>8, <3>3
    <3> QED BY <1>6, <2>1, <3>2, <3>4
  <2>3. CASE Creates(PublishedFile(m))
    <3>1. PICK run : run = Proceeds(m, "head", "done")
      OBVIOUS
    <3>2. /\ publishing' = [publishing EXCEPT ![m] = run]
          /\ publicPack' = [publicPack EXCEPT ![PublishedFile(m)] = building[m].files[PublishedFile(m)]]
      BY <1>12, <2>3, <3>1 DEF PutObject
    <3>3. now.files = releaseFiles(m) /\ now.left \subseteq releaseFiles(m)
      BY <1>1, <2>1 DEF PublishStands
    <3>4. CASE now.left \ {PublishedFile(m)} = {}
      <4>1. run.pc = "done"
        BY <3>1, <3>4 DEF Proceeds
      <4>2. PublishStands(m, run)'
        BY <1>8, <4>1
      <4> QED BY <1>6, <2>1, <3>2, <4>2
    <3>5. CASE now.left \ {PublishedFile(m)} # {}
      <4>1. run.pc = "head" /\ run.files = releaseFiles(m) /\ run.left = now.left \ {PublishedFile(m)}
        BY <3>1, <3>3, <3>5 DEF Proceeds
      <4>2. ASSUME NEW f \in run.files \ run.left PROVE publicPack'[f] = building[m].files[f]
        <5>1. f \in PackFile /\ building[m].files[f] # NoFile
          BY <4>1 DEF releaseFiles
        <5>2. CASE f = PublishedFile(m)
          BY <3>2, <5>1, <5>2 DEF PackIInv
        <5>3. CASE f # PublishedFile(m)
          <6>1. publicPack[f] = building[m].files[f]
            BY <1>1, <2>1, <3>3, <4>1, <5>3 DEF PublishStands
          <6> QED BY <2>1, <5>1, <6>1, Created
        <5> QED BY <5>2, <5>3
      <4>3. PublishStands(m, run)'
        <5>1. building[m].pc # "none" /\ run.left # {} /\ run.left \subseteq run.files
          BY <1>1, <2>1, <3>3, <3>5, <4>1 DEF PublishStands
        <5> QED BY <1>3, <1>5, <4>1, <4>2, <5>1 DEF PublishStands
      <4> QED BY <1>6, <2>1, <3>2, <4>3
    <3> QED BY <3>4, <3>5
  <2> QED BY <2>2, <2>3
<1>13. CASE PublishFails(m)
  <2>1. MayCreate(m)
    BY <1>13 DEF PublishFails, MayCreate, Creates
  <2>2. PICK run : run = [now EXCEPT !.pc = "failed"]
    OBVIOUS
  <2>3. publishing' = [publishing EXCEPT ![m] = run]
    BY <1>13, <2>2 DEF PublishFails
  <2>4. run.pc = "failed"
    BY <2>2, <1>1 DEF PublishStands
  <2>5. PublishStands(m, run)'
    BY <1>8, <2>4
  <2> QED BY <1>6, <2>1, <2>3, <2>5
<1> QED BY <1>7, <1>9, <1>11, <1>12, <1>13

LEMMA VerifyKeeps ==
    ASSUME PackIInv, NEW m \in Machine, VerifyPublic(m) \/ VerifyFile(m)
    PROVE  PackIInv'
<1> DEFINE now == verifying[m]
<1>1. PublishStands(m, publishing[m]) /\ VerifyStands(m, now) /\ RootStands(m, building[m])
  BY DEF PackIInv
<1>2. PICK run : run = publishing[m]
  OBVIOUS
<1>3. /\ publishing' = [publishing EXCEPT ![m] = run] /\ MayCreate(m)
      /\ UNCHANGED <<building, publicPack, installing, privatePack>>
  <2>1. publishing' = publishing /\ UNCHANGED <<building, publicPack, installing, privatePack>>
    BY DEF VerifyPublic, VerifyFile
  <2>2. publishing = [k \in Machine |-> publishing[k]]
    BY DEF PackIInv
  <2> QED BY <1>2, <2>1, <2>2 DEF MayCreate
<1>4. PublishStands(m, run)'
  BY <1>1, <1>2, <1>3, StandsOn
<1>5. ASSUME NEW check, verifying' = [verifying EXCEPT ![m] = check], VerifyStands(m, check)
      PROVE  PackIInv'
  <2>1. VerifyStands(m, check)'
    BY <1>3, <1>5, StandsOn
  <2> QED BY <1>3, <1>4, <1>5, <2>1, ReleaseStep
<1>6. CASE VerifyPublic(m)
  <2>1. PICK listed \in Listed(building[m].files["sums"]) :
          verifying' = [verifying EXCEPT ![m] = [pc |-> "fetch", left |-> listed]]
    BY <1>6 DEF VerifyPublic
  <2>2. PICK check : check = [pc |-> "fetch", left |-> listed]
    OBVIOUS
  <2>3. check.pc = "fetch" /\ check.left = listed
    BY <2>2
  <2>4. building[m].files["sums"] # NoFile
    BY <1>6 DEF VerifyPublic
  <2>5. building[m].pc # "none"
    BY <1>1, <2>4 DEF RootStands, PackFile
  <2>6. listed \subseteq SumsListed /\ listed # {}
    <3>1. "source" \in SumsListed
      BY DEF SumsListed, PackFile
    <3>2. PathPlace["source"] = 2
      BY DEF PathPlace
    <3>3. CASE building[m].files["sums"].state = "whole"
      BY <2>1, <3>1, <3>3 DEF Listed
    <3>4. CASE building[m].files["sums"].state # "whole"
      <4>1. PICK k \in 2..7 : listed = {f \in SumsListed : PathPlace[f] <= k}
        BY <2>1, <3>4 DEF Listed
      <4> QED BY <3>1, <3>2, <4>1
    <3> QED BY <3>3, <3>4
  <2>7. building[m].files["sums"] = WholeFile(m) => listed = SumsListed
    BY <2>1, FileKinds DEF Listed
  <2>8. VerifyStands(m, check)
    BY <2>3, <2>5, <2>6, <2>7 DEF VerifyStands
  <2> QED BY <1>5, <2>1, <2>2, <2>8
<1>7. CASE VerifyFile(m)
  <2>1. now.pc = "fetch" /\ now.left \subseteq SumsListed /\ now.left # {} /\ now.left \in SUBSET PackFile
    BY <1>1, <1>7 DEF VerifyFile, VerifyStands, SumsListed
  <2>2. PICK f : f = CHOOSE g \in now.left : \A h \in now.left : PathPlace[g] <= PathPlace[h]
    OBVIOUS
  <2>3. f \in now.left
    BY <2>1, <2>2, FirstFile
  <2>4. PICK check : check = IF ~ChecksumMatches(m, f) THEN IdleVerify
                             ELSE [pc |-> IF now.left \ {f} = {} THEN "verified" ELSE "fetch", left |-> now.left \ {f}]
    OBVIOUS
  <2>5. verifying' = [verifying EXCEPT ![m] = check]
    BY <1>7, <2>2, <2>4 DEF VerifyFile
  <2>6. VerifyStands(m, check)
    <3>1. CASE ~ChecksumMatches(m, f)
      <4>1. check.pc = "idle" /\ check.left = {}
        BY <2>4, <3>1 DEF IdleVerify
      <4> QED BY <4>1 DEF VerifyStands
    <3>2. CASE ChecksumMatches(m, f)
      <4>1. /\ check.pc \in {"verified", "fetch"} /\ (check.pc = "verified" <=> check.left = {})
            /\ check.left = now.left \ {f}
        BY <2>4, <3>2
      <4>2. publicPack[f] = building[m].files[f]
        BY <3>2 DEF ChecksumMatches
      <4>3. building[m].pc # "none"
        BY <1>1, <2>1 DEF VerifyStands
      <4> QED BY <1>1, <2>1, <4>1, <4>2, <4>3 DEF VerifyStands
    <3> QED BY <3>1, <3>2
  <2> QED BY <1>5, <2>5, <2>6
<1> QED BY <1>6, <1>7

-----------------------------------------------------------------------------
\* A step of an executor, which may store what its manifest declares.
LEMMA InstallStep ==
    ASSUME PackIInv, NEW e \in PackExecutor, NEW x,
           UNCHANGED <<building, publishing, publicPack, verifying>>,
           installing' = [installing EXCEPT ![e] = x], InstallStands(x)',
           \/ privatePack' = privatePack
           \/ \E m \in Machine : privatePack' = [privatePack EXCEPT ![m] = WholeFile(m)]
    PROVE  PackIInv'
<1> USE DEF PackIInv
<1>1. /\ privatePack' = [m \in Machine |-> privatePack'[m]]
      /\ \A m \in Machine : privatePack'[m] \in {NoFile, WholeFile(m)}
      /\ \A m \in Machine : privatePack[m] = WholeFile(m) => privatePack'[m] = WholeFile(m)
  OBVIOUS
<1>2. /\ installing' = [k \in PackExecutor |-> installing'[k]] /\ installing'[e] = x
      /\ \A k \in PackExecutor \ {e} : installing'[k] = installing[k]
  OBVIOUS
<1>3. ASSUME NEW k \in PackExecutor PROVE InstallStands(installing[k])'
  <2>1. CASE k = e
    BY <1>2, <2>1 DEF InstallStands
  <2>2. CASE k # e
    <3>1. InstallStands(installing[k]) /\ installing'[k] = installing[k]
      BY <1>2, <2>2
    <3>2. ASSUME installing[k].pc = "installed"
          PROVE  privatePack'[installing[k].manifest.of] = WholeFile(installing[k].manifest.of)
      <4>1. PICK m \in Machine : installing[k].manifest = WholeFile(m)
        BY <3>1, <3>2 DEF InstallStands
      <4>2. installing[k].manifest.of = m
        BY <4>1, FileKinds
      <4> QED BY <1>1, <3>1, <3>2, <4>2 DEF InstallStands
    <3> QED BY <3>1, <3>2 DEF InstallStands
  <2> QED BY <2>1, <2>2
<1>4. ASSUME NEW m \in Machine
      PROVE  RootStands(m, building[m])' /\ PublishStands(m, publishing[m])' /\ VerifyStands(m, verifying[m])'
  <2>1. RootStands(m, building[m]) /\ PublishStands(m, publishing[m]) /\ VerifyStands(m, verifying[m])
    OBVIOUS
  <2>2. releaseFiles(m)' = releaseFiles(m)
    BY DEF releaseFiles
  <2>3. RootStands(m, building[m])'
    BY <2>1 DEF RootStands
  <2>4. PublishStands(m, publishing[m])'
    BY <2>1, <2>2 DEF PublishStands
  <2>5. VerifyStands(m, verifying[m])'
    BY <2>1 DEF VerifyStands
  <2> QED BY <2>3, <2>4, <2>5
<1>5. \A f \in PackFile : PublicStands(f)'
  BY DEF PublicStands
<1>6. QuickKeepsBudget' /\ ManifestBacked'
  BY DEF QuickKeepsBudget, ManifestBacked
<1> QED BY <1>1, <1>2, <1>3, <1>4, <1>5, <1>6

LEMMA InstallKeeps ==
    ASSUME PackIInv, NEW e \in PackExecutor,
           FetchPackManifest(e) \/ FetchPackObject(e) \/ StatPrivate(e) \/ CopyPrivate(e) \/ InstallFails(e)
    PROVE  PackIInv'
<1> DEFINE now == installing[e]
<1>1. InstallStands(now) /\ \A m \in Machine : privatePack[m] \in {NoFile, WholeFile(m)}
  BY DEF PackIInv
<1>2. UNCHANGED <<building, publishing, publicPack, verifying>>
  BY DEF FetchPackManifest, FetchPackObject, StatPrivate, CopyPrivate, InstallFails
<1>3. ASSUME NEW x, installing' = [installing EXCEPT ![e] = x], InstallStands(x), privatePack' = privatePack
      PROVE  PackIInv'
  <2>1. InstallStands(x)'
    BY <1>3 DEF InstallStands
  <2> QED BY <1>2, <1>3, <2>1, InstallStep
<1>4. ASSUME installing' = [installing EXCEPT ![e] = IdleInstall], privatePack' = privatePack PROVE PackIInv'
  <2>1. PICK x : x = IdleInstall
    OBVIOUS
  <2>2. InstallStands(x)
    BY <2>1 DEF InstallStands, IdleInstall
  <2> QED BY <1>3, <1>4, <2>1, <2>2
<1>5. CASE FetchPackManifest(e)
  <2>1. PICK manifest : manifest = publicPack[ManifestOf(CloneTier)]
    OBVIOUS
  <2>2. PICK x : x = [pc |-> "fetch", manifest |-> manifest, temp |-> NoFile]
    OBVIOUS
  <2>3. installing' = [installing EXCEPT ![e] = x] /\ manifest.state = "whole" /\ privatePack' = privatePack
    BY <1>5, <2>1, <2>2 DEF FetchPackManifest, MovesTo
  <2>4. ManifestOf(CloneTier) \in PackFile
    BY PackAssumption DEF ManifestOf, PackFile
  <2>5. manifest # NoFile
    BY <2>3, FileKinds
  <2>6. PICK m \in Machine : manifest = building[m].files[ManifestOf(CloneTier)]
    BY <2>1, <2>4, <2>5 DEF PackIInv, PublicStands
  <2>7. manifest \in {NoFile, WholeFile(m), CutFile(m)}
    BY <2>4, <2>6 DEF PackIInv, RootStands
  <2>8. manifest = WholeFile(m)
    BY <2>3, <2>5, <2>7, FileKinds
  <2>9. x.pc = "fetch" /\ x.manifest = manifest
    BY <2>2
  <2>10. InstallStands(x)
    BY <2>8, <2>9 DEF InstallStands
  <2> QED BY <1>3, <2>3, <2>10
<1>6. CASE FetchPackObject(e)
  <2>1. now.pc = "fetch" /\ privatePack' = privatePack
    BY <1>6 DEF FetchPackObject
  <2>2. PICK answer : IF VerifiesObject(e, answer)
                      THEN MovesTo(e, [now EXCEPT !.pc = "stat", !.temp = answer])
                      ELSE MovesTo(e, IdleInstall)
    BY <1>6 DEF FetchPackObject
  <2>3. CASE ~VerifiesObject(e, answer)
    BY <1>4, <2>1, <2>2, <2>3 DEF MovesTo
  <2>4. CASE VerifiesObject(e, answer)
    <3>1. PICK x : x = [now EXCEPT !.pc = "stat", !.temp = answer]
      OBVIOUS
    <3>2. installing' = [installing EXCEPT ![e] = x]
      BY <2>2, <2>4, <3>1 DEF MovesTo
    <3>3. answer = WholeFile(now.manifest.of)
      BY <2>4 DEF VerifiesObject
    <3>4. x.pc = "stat" /\ x.manifest = now.manifest /\ x.temp = answer
      BY <3>1, <1>1 DEF InstallStands
    <3>5. InstallStands(x)
      BY <1>1, <2>1, <3>3, <3>4 DEF InstallStands
    <3> QED BY <1>3, <2>1, <3>2, <3>5
  <2> QED BY <2>3, <2>4
<1>7. CASE StatPrivate(e)
  <2>1. now.pc = "stat" /\ privatePack' = privatePack
    BY <1>7 DEF StatPrivate
  <2>2. PICK m \in Machine : now.manifest = WholeFile(m)
    BY <1>1, <2>1 DEF InstallStands
  <2>3. now.manifest.of = m /\ StoredPack(e) = privatePack[m]
    BY <2>2, FileKinds DEF StoredPack
  <2>4. CASE StoredPack(e) = NoFile
    <3>1. PICK x : x = [now EXCEPT !.pc = "copy"]
      OBVIOUS
    <3>2. installing' = [installing EXCEPT ![e] = x]
      <4>1. StoredPack(e).state # "whole"
        BY <2>4, FileKinds
      <4> QED BY <1>7, <2>4, <3>1, <4>1 DEF StatPrivate, MovesTo
    <3>3. x.pc = "copy" /\ x.manifest = now.manifest /\ x.temp = now.temp
      BY <3>1, <1>1 DEF InstallStands
    <3>4. InstallStands(x)
      BY <1>1, <2>1, <3>3 DEF InstallStands
    <3> QED BY <1>3, <2>1, <3>2, <3>4
  <2>5. CASE StoredPack(e) = WholeFile(m)
    <3>1. PICK x : x = [now EXCEPT !.pc = "installed"]
      OBVIOUS
    <3>2. installing' = [installing EXCEPT ![e] = x]
      <4>1. StoredPack(e).state = "whole" /\ StoredPack(e) # NoFile
        BY <2>5, FileKinds
      <4> QED BY <1>7, <3>1, <4>1 DEF StatPrivate, MovesTo
    <3>3. x.pc = "installed" /\ x.manifest = now.manifest
      BY <3>1, <1>1 DEF InstallStands
    <3>4. InstallStands(x)
      BY <2>2, <2>3, <2>5, <3>3 DEF InstallStands
    <3> QED BY <1>3, <2>1, <3>2, <3>4
  <2> QED BY <1>1, <2>3, <2>4, <2>5
<1>8. CASE CopyPrivate(e)
  <2>1. now.pc = "copy"
    BY <1>8 DEF CopyPrivate
  <2>2. PICK m \in Machine : now.manifest = WholeFile(m)
    BY <1>1, <2>1 DEF InstallStands
  <2>3. now.manifest.of = m /\ now.temp = WholeFile(m)
    BY <1>1, <2>1, <2>2, FileKinds DEF InstallStands
  <2>4. PICK x : x = [now EXCEPT !.pc = "installed"]
    OBVIOUS
  <2>5. installing' = [installing EXCEPT ![e] = x] /\ privatePack' = [privatePack EXCEPT ![m] = WholeFile(m)]
    BY <1>8, <2>3, <2>4 DEF CopyPrivate, MovesTo, PutPrivate
  <2>6. x.pc = "installed" /\ x.manifest = now.manifest
    BY <2>4, <1>1 DEF InstallStands
  <2>7. privatePack'[m] = WholeFile(m)
    BY <2>5 DEF PackIInv
  <2>8. InstallStands(x)'
    BY <2>2, <2>3, <2>6, <2>7 DEF InstallStands
  <2> QED BY <1>2, <2>5, <2>8, InstallStep
<1>9. CASE InstallFails(e)
  BY <1>4, <1>9 DEF InstallFails, MovesTo
<1> QED BY <1>5, <1>6, <1>7, <1>8, <1>9

-----------------------------------------------------------------------------
LEMMA PackInitial == PackInit => PackIInv
<1> SUFFICES ASSUME PackInit PROVE PackIInv
  OBVIOUS
<1>1. \A m \in Machine : /\ building[m] = [pc |-> "none", quick |-> {}, files |-> [f \in PackFile |-> NoFile]]
                         /\ publishing[m] = [pc |-> "idle", files |-> {}, left |-> {}]
                         /\ verifying[m] = IdleVerify /\ privatePack[m] = NoFile
  BY DEF PackInit
<1>2. \A e \in PackExecutor : installing[e].pc = "idle"
  BY DEF PackInit, IdleInstall
<1>3. \A f \in PackFile : publicPack[f] = NoFile
  BY DEF PackInit
<1>4. ASSUME NEW m \in Machine
      PROVE  RootStands(m, building[m]) /\ PublishStands(m, publishing[m]) /\ VerifyStands(m, verifying[m])
  <2>1. building[m].pc = "none" /\ building[m].files = [f \in PackFile |-> NoFile] /\ "sums" \in PackFile
    BY <1>1 DEF PackFile
  <2>2. publishing[m].pc = "idle" /\ verifying[m].pc = "idle" /\ verifying[m].left = {}
    BY <1>1 DEF IdleVerify
  <2>3. building[m].files["sums"] # WholeFile(m)
    BY <2>1, FileKinds
  <2> QED BY <2>1, <2>2, <2>3 DEF RootStands, PublishStands, VerifyStands
<1>5. QuickKeepsBudget /\ ManifestBacked
  <2>1. \A f \in Manifests : f \in PackFile
    BY DEF Manifests, ManifestOf, Tier, PackFile
  <2>2. \A f \in Manifests : publicPack[f].state # "whole"
    BY <1>3, <2>1, FileKinds
  <2> QED BY <1>1, <2>2 DEF QuickKeepsBudget, ManifestBacked
<1>6. /\ building = [m \in Machine |-> building[m]] /\ publishing = [m \in Machine |-> publishing[m]]
      /\ verifying = [m \in Machine |-> verifying[m]] /\ installing = [e \in PackExecutor |-> installing[e]]
      /\ publicPack = [f \in PackFile |-> publicPack[f]] /\ privatePack = [m \in Machine |-> privatePack[m]]
  BY DEF PackInit
<1> QED BY <1>1, <1>2, <1>3, <1>4, <1>5, <1>6 DEF PackIInv, PublicStands, InstallStands

LEMMA PackInductive == PackIInv /\ [PackNext]_packVars => PackIInv'
<1> SUFFICES ASSUME PackIInv, [PackNext]_packVars PROVE PackIInv'
  OBVIOUS
<1>1. ASSUME NEW m \in Machine, Build(m) PROVE PackIInv'
  BY <1>1, BuildKeeps
<1>2. ASSUME NEW m \in Machine,
             Publish(m) \/ CheckExisting(m) \/ HeadObject(m) \/ PutObject(m) \/ PublishFails(m)
      PROVE  PackIInv'
  BY <1>2, PublishKeeps
<1>3. ASSUME NEW m \in Machine, VerifyPublic(m) \/ VerifyFile(m) PROVE PackIInv'
  BY <1>3, VerifyKeeps
<1>4. ASSUME NEW e \in PackExecutor,
             FetchPackManifest(e) \/ FetchPackObject(e) \/ StatPrivate(e) \/ CopyPrivate(e) \/ InstallFails(e)
      PROVE  PackIInv'
  BY <1>4, InstallKeeps
<1>5. CASE UNCHANGED packVars
  <2> USE <1>5 DEF packVars, PackIInv
  <2>1. ASSUME NEW m \in Machine
        PROVE  RootStands(m, building[m])' /\ PublishStands(m, publishing[m])' /\ VerifyStands(m, verifying[m])'
    <3>1. RootStands(m, building[m]) /\ PublishStands(m, publishing[m]) /\ VerifyStands(m, verifying[m])
      OBVIOUS
    <3>2. releaseFiles(m)' = releaseFiles(m)
      BY DEF releaseFiles
    <3>3. RootStands(m, building[m])' /\ VerifyStands(m, verifying[m])'
      BY <3>1 DEF RootStands, VerifyStands
    <3>4. PublishStands(m, publishing[m])'
      BY <3>1, <3>2 DEF PublishStands
    <3> QED BY <3>3, <3>4
  <2>2. (\A f \in PackFile : PublicStands(f)') /\ \A e \in PackExecutor : InstallStands(installing[e])'
    BY DEF PublicStands, InstallStands
  <2>3. QuickKeepsBudget' /\ ManifestBacked'
    BY DEF QuickKeepsBudget, ManifestBacked
  <2> QED BY <2>1, <2>2, <2>3
<1> QED BY <1>1, <1>2, <1>3, <1>4, <1>5 DEF PackNext

LEMMA PackImplies == PackIInv => PackIsSound
<1> SUFFICES ASSUME PackIInv PROVE PackIsSound
  OBVIOUS
<1>1. VerifiedIsPublic
  <2> SUFFICES ASSUME NEW m \in Machine, verifying[m].pc = "verified",
                      building[m].files["sums"] = WholeFile(m), NEW f \in PackFile
               PROVE  publicPack[f] = WholeFile(m)
    BY DEF VerifiedIsPublic
  <2>1. \A g \in PackFile : building[m].files[g] = WholeFile(m)
    BY DEF PackIInv, RootStands
  <2>2. \A g \in SumsListed : publicPack[g] = WholeFile(m)
    BY <2>1 DEF PackIInv, VerifyStands, SumsListed
  <2>3. CASE f # "sums"
    BY <2>2, <2>3 DEF SumsListed
  <2>4. CASE f = "sums"
    <3>1. "quick_manifest" \in Manifests /\ "quick_manifest" \in SumsListed /\ "sums" \in PackFile \ Manifests
      BY DEF Manifests, ManifestOf, Tier, SumsListed, PackFile
    <3>2. publicPack["quick_manifest"].state = "whole" /\ publicPack["quick_manifest"].of = m
      BY <2>2, <3>1, FileKinds
    <3>3. building[m].files["sums"] \in {NoFile, publicPack["sums"]}
      BY <3>1, <3>2 DEF PackIInv, ManifestBacked
    <3> QED BY <2>1, <2>4, <3>3, FileKinds
  <2> QED BY <2>3, <2>4
<1>2. StoredIsDeclared
  BY DEF PackIInv, InstallStands, StoredIsDeclared, StoredPack
<1> QED BY <1>1, <1>2 DEF PackIInv, PackIsSound

\* From the checkout to the private store a pack is whole or refused, for any
\* number of machines that release one version, executors, failures and files
\* (Build, Publish, VerifyPublic, FetchObject, PutVerified).
THEOREM PacksAreSound == PackSpec => []PackIsSound
<1>1. PackInit => PackIInv
  BY PackInitial
<1>2. PackIInv /\ [PackNext]_packVars => PackIInv'
  BY PackInductive
<1>3. PackIInv => PackIsSound
  BY PackImplies
<1> QED BY <1>1, <1>2, <1>3, PTL DEF PackSpec

-----------------------------------------------------------------------------
(***************************************************************************)
(* What an experiment compares                                             *)
(***************************************************************************)

Variant == {"baseline"} \cup DOMAIN Canonical

Environments == ExpEnvironment \cup {FirstEnvironment}

\* The one definition of a variant, whatever the pack.
DefOf(v) == IF v = "baseline" THEN BaselineDefinition ELSE CandidateDefinition(v, Canonical[v])

RunRow ==
    [variant : Variant, key : ExpKey, baseline : Nat, def : {DefOf(v) : v \in Variant},
     fingerprint : [pack : SUBSET OfferedPack, env : SUBSET Environments], env : Environments,
     stage : {"index", "evaluate", "completed"},
     status : {"queued", "running", "cancel_requested", "cancelled", "failed", "completed"},
     stats : [chunks : BOOLEAN, contexts : BOOLEAN], indexEnv : SUBSET Environments,
     evalEnv : SUBSET Environments, kbEnv : SUBSET Environments, done : Nat]

\* A candidate names a baseline that was completed under its fingerprint.
Based(row) ==
    /\ row.baseline \in DOMAIN expRuns
    /\ expRuns[row.baseline].variant = "baseline" /\ expRuns[row.baseline].status = "completed"
    /\ expRuns[row.baseline].fingerprint = row.fingerprint

\* Its environment has built the knowledge base of a run.
Built(row) == row.env \in expIndex[row.def.kb]

\* Whatever processes worked on a run, they did it in the environment it was
\* started in.
RowMeasures(row) ==
    /\ row.def = DefOf(row.variant) /\ row.fingerprint.env = {row.env}
    /\ row.indexEnv \subseteq {row.env} /\ row.evalEnv \subseteq {row.env}
    /\ row.stage = "evaluate" => Built(row)
    /\ row.stage = "completed" => row.status = "completed"
    /\ row.status = "completed" => row.evalEnv = {row.env} /\ row.env \in row.kbEnv /\ Built(row)
    /\ row.stats.contexts => row.def.contextual
    /\ IsFiniteSet(row.kbEnv)
    /\ row.variant # "baseline" => Based(row)

\* What a process has in hand: a row it will create, or a run of its environment.
WorkMeasures(h, w) ==
    /\ "step" \in DOMAIN w
    /\ w.step \in {"rest", "create", "index", "record", "advance", "evaluate", "complete", "fail", "cancel"}
    /\ w.step = "create" => w.row \in RunRow /\ RowMeasures(w.row) /\ w.row.status = "queued"
    /\ w.step \in {"index", "record", "advance", "evaluate", "complete", "fail", "cancel"} =>
          {"run", "stage"} \subseteq DOMAIN w /\ w.run \in DOMAIN expRuns
    /\ w.step \in {"index", "record", "advance", "evaluate", "complete"} => expEnv[h] = expRuns[w.run].env
    /\ w.step \in {"record", "advance", "evaluate", "complete"} => Built(expRuns[w.run])
    /\ w.step = "record" =>
          /\ w.stats \in [chunks : BOOLEAN, contexts : BOOLEAN]
          /\ w.stats.contexts => expRuns[w.run].def.contextual
    /\ w.step = "complete" =>
          w.seen \in SUBSET Environments /\ IsFiniteSet(w.seen) /\ expRuns[w.run].env \in w.seen

\* The inductive invariant.
ExpIInv ==
    /\ expEnv \in [ExpHost -> Environments]
    /\ expPack \in SUBSET OfferedPack /\ \A pack \in expPack : ValidPack(pack)
    /\ expRuns \in Seq(RunRow) /\ \A n \in DOMAIN expRuns : RowMeasures(expRuns[n])
    /\ expIndex \in [Variant -> SUBSET Environments] /\ \A kb \in Variant : IsFiniteSet(expIndex[kb])
    /\ DOMAIN expWork = ExpHost /\ \A h \in ExpHost : WorkMeasures(h, expWork[h])

-----------------------------------------------------------------------------
\* A step may add rows and work on those that are not completed.
RowsMove ==
    /\ DOMAIN expRuns \subseteq DOMAIN expRuns'
    /\ \A n \in DOMAIN expRuns :
          /\ expRuns'[n].variant = expRuns[n].variant /\ expRuns'[n].def = expRuns[n].def
          /\ expRuns'[n].env = expRuns[n].env /\ expRuns'[n].fingerprint = expRuns[n].fingerprint
          /\ expRuns[n].status = "completed" => expRuns'[n] = expRuns[n]

IndexGrows ==
    /\ expIndex' \in [Variant -> SUBSET Environments] /\ \A kb \in Variant : IsFiniteSet(expIndex'[kb])
    /\ \A kb \in Variant : expIndex[kb] \subseteq expIndex'[kb]

RowsKept ==
    RowsMove /\ expRuns' \in Seq(RunRow) /\ \A n \in DOMAIN expRuns' : RowMeasures(expRuns[n])'

LEMMA DefinedBase == \A v \in Variant : DefOf(v).kb \in Variant
<1> SUFFICES ASSUME NEW v \in Variant PROVE DefOf(v).kb \in Variant
  OBVIOUS
<1>1. CASE v = "baseline"
  BY <1>1 DEF DefOf, BaselineDefinition, Variant
<1>2. CASE v # "baseline"
  BY <1>2 DEF DefOf, CandidateDefinition, Variant
<1> QED BY <1>1, <1>2

\* What the invariant says of a row.
LEMMA RowFacts ==
    ASSUME ExpIInv, NEW n \in DOMAIN expRuns
    PROVE  /\ expRuns[n] \in RunRow /\ RowMeasures(expRuns[n])
           /\ expRuns[n].def.kb \in Variant /\ n \in Nat /\ DOMAIN expRuns = 1..Len(expRuns) /\ Len(expRuns) \in Nat
<1>1. expRuns \in Seq(RunRow) /\ RowMeasures(expRuns[n])
  BY DEF ExpIInv
<1>2. expRuns[n] \in RunRow /\ n \in Nat /\ DOMAIN expRuns = 1..Len(expRuns) /\ Len(expRuns) \in Nat
  BY <1>1
<1>3. expRuns[n].def = DefOf(expRuns[n].variant) /\ expRuns[n].variant \in Variant
  BY <1>1, <1>2 DEF RowMeasures, RunRow
<1> QED BY <1>1, <1>2, <1>3, DefinedBase

LEMMA RowStays ==
    ASSUME ExpIInv, RowsMove, IndexGrows, NEW row \in RunRow, RowMeasures(row)
    PROVE  RowMeasures(row)'
<1>1. row.variant \in Variant /\ row.def = DefOf(row.variant) /\ row.def.kb \in Variant
  BY DefinedBase DEF RunRow, RowMeasures
<1>2. Built(row) => Built(row)'
  BY <1>1 DEF Built, IndexGrows
<1>3. Based(row) => Based(row)'
  BY DEF Based, RowsMove
<1> QED BY <1>2, <1>3 DEF RowMeasures

LEMMA WorkStays ==
    ASSUME ExpIInv, RowsMove, IndexGrows, NEW h \in ExpHost, expEnv'[h] = expEnv[h], NEW w, WorkMeasures(h, w)
    PROVE  WorkMeasures(h, w)'
<1>1. ASSUME w.step = "create" PROVE RowMeasures(w.row)'
  <2>1. w.row \in RunRow /\ RowMeasures(w.row)
    BY <1>1 DEF WorkMeasures
  <2> QED BY <2>1, RowStays
<1>2. ASSUME w.run \in DOMAIN expRuns
      PROVE  /\ w.run \in DOMAIN expRuns' /\ expRuns'[w.run].env = expRuns[w.run].env
             /\ expRuns'[w.run].def = expRuns[w.run].def
             /\ Built(expRuns[w.run]) => Built(expRuns[w.run])'
  <2>1. w.run \in DOMAIN expRuns' /\ expRuns'[w.run].env = expRuns[w.run].env
        /\ expRuns'[w.run].def = expRuns[w.run].def
    BY <1>2 DEF RowsMove
  <2>2. expRuns[w.run].def.kb \in Variant
    BY <1>2, RowFacts
  <2> QED BY <2>1, <2>2 DEF Built, IndexGrows
<1> QED BY <1>1, <1>2 DEF WorkMeasures

\* A process works on, or it is as before.
LEMMA AllStand ==
    ASSUME ExpIInv, RowsKept, IndexGrows, expEnv' \in [ExpHost -> Environments], DOMAIN expWork' = ExpHost,
           expPack' \in SUBSET OfferedPack, \A pack \in expPack' : ValidPack(pack),
           \A g \in ExpHost :
              WorkMeasures(g, expWork[g])' \/ (expWork'[g] = expWork[g] /\ expEnv'[g] = expEnv[g])
    PROVE  ExpIInv'
<1>1. ASSUME NEW g \in ExpHost, expWork'[g] = expWork[g], expEnv'[g] = expEnv[g] PROVE WorkMeasures(g, expWork[g])'
  <2>1. PICK w : w = expWork[g]
    OBVIOUS
  <2>2. WorkMeasures(g, w)
    BY <2>1 DEF ExpIInv
  <2>3. WorkMeasures(g, w)'
    BY <1>1, <2>2, WorkStays DEF RowsKept
  <2>4. expWork'[g] = w
    BY <1>1, <2>1
  <2> QED BY <2>3, <2>4
<1>2. \A g \in ExpHost : WorkMeasures(g, expWork[g])'
  BY <1>1
<1>3. \A pack \in expPack' : ValidPack(pack)'
  BY DEF ValidPack, ValidCandidate
<1> QED BY <1>2, <1>3 DEF ExpIInv, RowsKept, IndexGrows

\* One process takes a step.
LEMMA HostMoves ==
    ASSUME ExpIInv, NEW h \in ExpHost, NEW w, expWork' = [expWork EXCEPT ![h] = w], RowsKept, IndexGrows,
           expEnv' = expEnv, expPack' = expPack, WorkMeasures(h, w)'
    PROVE  ExpIInv'
<1>1. DOMAIN expWork' = ExpHost /\ \A g \in ExpHost : expWork'[g] = IF g = h THEN w ELSE expWork[g]
  BY DEF ExpIInv
<1>2. WorkMeasures(h, expWork[h])'
  BY <1>1
<1>3. \A g \in ExpHost : WorkMeasures(g, expWork[g])' \/ (expWork'[g] = expWork[g] /\ expEnv'[g] = expEnv[g])
  BY <1>1, <1>2
<1>4. expEnv' \in [ExpHost -> Environments] /\ expPack' \in SUBSET OfferedPack
      /\ \A pack \in expPack' : ValidPack(pack)
  BY DEF ExpIInv
<1> QED BY <1>1, <1>3, <1>4, AllStand

\* Nothing happens to the index.
LEMMA IndexStays ==
    ASSUME ExpIInv, expIndex' = expIndex
    PROVE  IndexGrows
BY DEF ExpIInv, IndexGrows

\* Nothing happens to the rows.
LEMMA RowsStay ==
    ASSUME ExpIInv, expRuns' = expRuns, IndexGrows
    PROVE  RowsKept
<1>1. RowsMove
  BY DEF RowsMove
<1>2. ASSUME NEW n \in DOMAIN expRuns' PROVE RowMeasures(expRuns[n])'
  <2>1. PICK row : row = expRuns[n]
    OBVIOUS
  <2>2. row \in RunRow /\ RowMeasures(row)
    BY <2>1, RowFacts
  <2>3. RowMeasures(row)'
    BY <1>1, <2>2, RowStays
  <2>4. expRuns'[n] = row
    BY <2>1
  <2> QED BY <2>3, <2>4
<1>3. expRuns' \in Seq(RunRow)
  BY DEF ExpIInv
<1> QED BY <1>1, <1>2, <1>3 DEF RowsKept

\* One row is worked on.
LEMMA RowChanges ==
    ASSUME ExpIInv, NEW n \in DOMAIN expRuns, NEW row \in RunRow, expRuns' = [expRuns EXCEPT ![n] = row], IndexGrows,
           expRuns[n].status # "completed", row.variant = expRuns[n].variant, row.def = expRuns[n].def,
           row.env = expRuns[n].env, row.fingerprint = expRuns[n].fingerprint, RowMeasures(row)
    PROVE  RowsKept
<1>1. expRuns' \in Seq(RunRow) /\ DOMAIN expRuns' = DOMAIN expRuns
      /\ \A k \in DOMAIN expRuns : expRuns'[k] = IF k = n THEN row ELSE expRuns[k]
  <2>1. expRuns \in Seq(RunRow)
    BY DEF ExpIInv
  <2> QED BY <2>1
<1>2. RowsMove
  BY <1>1 DEF RowsMove
<1>3. ASSUME NEW k \in DOMAIN expRuns' PROVE RowMeasures(expRuns[k])'
  <2>1. PICK other : other = IF k = n THEN row ELSE expRuns[k]
    OBVIOUS
  <2>2. other \in RunRow /\ RowMeasures(other)
    <3>1. CASE k = n
      BY <2>1, <3>1
    <3>2. CASE k # n
      BY <1>1, <2>1, <3>2, RowFacts
    <3> QED BY <3>1, <3>2
  <2>3. RowMeasures(other)'
    BY <1>2, <2>2, RowStays
  <2>4. expRuns'[k] = other
    BY <1>1, <2>1
  <2> QED BY <2>3, <2>4
<1> QED BY <1>1, <1>2, <1>3 DEF RowsKept

-----------------------------------------------------------------------------
LEMMA AtRestMeasures ==
    ASSUME NEW h \in ExpHost
    PROVE  WorkMeasures(h, AtRest)'
BY DEF WorkMeasures, AtRest

\* A change of status alone.
LEMMA StatusChanges ==
    ASSUME NEW row \in RunRow, RowMeasures(row), row.status # "completed",
           NEW s \in {"queued", "running", "cancel_requested", "cancelled", "failed"}
    PROVE  /\ [row EXCEPT !.status = s] \in RunRow /\ RowMeasures([row EXCEPT !.status = s])
           /\ [row EXCEPT !.status = s].variant = row.variant /\ [row EXCEPT !.status = s].def = row.def
           /\ [row EXCEPT !.status = s].env = row.env /\ [row EXCEPT !.status = s].fingerprint = row.fingerprint
<1>1. PICK new : new = [row EXCEPT !.status = s]
  OBVIOUS
<1>2. /\ new \in RunRow /\ new.status = s /\ new.variant = row.variant /\ new.def = row.def /\ new.env = row.env
      /\ new.fingerprint = row.fingerprint /\ new.indexEnv = row.indexEnv /\ new.evalEnv = row.evalEnv
      /\ new.kbEnv = row.kbEnv /\ new.stage = row.stage /\ new.stats = row.stats /\ new.baseline = row.baseline
  BY <1>1 DEF RunRow
<1>3. RowMeasures(new)
  BY <1>2 DEF RowMeasures, Based, Built
<1> QED BY <1>1, <1>2, <1>3

\* A status is all that a step changes.
LEMMA StatusKeeps ==
    ASSUME ExpIInv, IndexGrows, NEW n \in DOMAIN expRuns, expRuns[n].status # "completed",
           NEW s \in {"queued", "running", "cancel_requested", "cancelled", "failed"},
           expRuns' = [expRuns EXCEPT ![n] = [expRuns[n] EXCEPT !.status = s]]
    PROVE  RowsKept
<1>1. PICK row : row = expRuns[n]
  OBVIOUS
<1>2. row \in RunRow /\ RowMeasures(row)
  BY <1>1, RowFacts
<1>3. PICK new : new = [row EXCEPT !.status = s]
  OBVIOUS
<1>4. /\ new \in RunRow /\ RowMeasures(new) /\ new.variant = row.variant /\ new.def = row.def /\ new.env = row.env
      /\ new.fingerprint = row.fingerprint
  BY <1>1, <1>2, <1>3, StatusChanges
<1>5. expRuns' = [expRuns EXCEPT ![n] = new]
  BY <1>1, <1>3
<1> QED BY <1>1, <1>4, <1>5, RowChanges

LEMMA CancelKeeps ==
    ASSUME ExpIInv, NEW n \in DOMAIN expRuns, CancelRun(n)
    PROVE  ExpIInv'
<1>1. IndexGrows
  BY IndexStays DEF CancelRun
<1>2. RowsKept
  <2>1. CASE /\ expRuns[n].status = "queued"
             /\ expRuns' = [expRuns EXCEPT ![n] = [expRuns[n] EXCEPT !.status = "cancelled"]]
    BY <1>1, <2>1, StatusKeeps
  <2>2. CASE /\ expRuns[n].status = "running"
             /\ expRuns' = [expRuns EXCEPT ![n] = [expRuns[n] EXCEPT !.status = "cancel_requested"]]
    BY <1>1, <2>2, StatusKeeps
  <2> QED BY <2>1, <2>2 DEF CancelRun, SetExpRun
<1>3. /\ expEnv' = expEnv /\ expPack' = expPack /\ expWork' = expWork
  BY DEF CancelRun
<1>4. /\ expEnv' \in [ExpHost -> Environments] /\ DOMAIN expWork' = ExpHost /\ expPack' \in SUBSET OfferedPack
      /\ \A pack \in expPack' : ValidPack(pack)
  BY <1>3 DEF ExpIInv
<1> QED BY <1>1, <1>2, <1>3, <1>4, AllStand

LEMMA InstallPackKeeps ==
    ASSUME ExpIInv, NEW pack \in OfferedPack, InstallPack(pack)
    PROVE  ExpIInv'
<1>1. IndexGrows
  BY IndexStays DEF InstallPack
<1>2. RowsKept
  BY <1>1, RowsStay DEF InstallPack
<1>3. expEnv' = expEnv /\ expPack' = {pack} /\ expWork' = expWork /\ ValidPack(pack)
  BY DEF InstallPack
<1>4. /\ expEnv' \in [ExpHost -> Environments] /\ DOMAIN expWork' = ExpHost /\ expPack' \in SUBSET OfferedPack
      /\ \A p \in expPack' : ValidPack(p)
  BY <1>3 DEF ExpIInv
<1> QED BY <1>1, <1>2, <1>3, <1>4, AllStand

LEMMA RestartKeeps ==
    ASSUME ExpIInv, NEW h \in ExpHost, RestartHost(h)
    PROVE  ExpIInv'
<1>1. IndexGrows
  BY IndexStays DEF RestartHost
<1>2. expRuns \in Seq(RunRow) /\ DOMAIN expRuns = 1..Len(expRuns) /\ Len(expRuns) \in Nat
  BY DEF ExpIInv
<1>3. ASSUME NEW n \in DOMAIN expRuns
      PROVE  \E new \in RunRow :
                /\ new = Recovered(expRuns[n]) /\ RowMeasures(new)
                /\ new.variant = expRuns[n].variant /\ new.def = expRuns[n].def
                /\ new.env = expRuns[n].env /\ new.fingerprint = expRuns[n].fingerprint
                /\ expRuns[n].status = "completed" => new = expRuns[n]
  <2>1. PICK row : row = expRuns[n]
    OBVIOUS
  <2>2. row \in RunRow /\ RowMeasures(row)
    BY <1>3, <2>1, RowFacts
  <2>3. CASE row.status = "running"
    BY <2>1, <2>2, <2>3, StatusChanges DEF Recovered
  <2>4. CASE row.status = "cancel_requested"
    BY <2>1, <2>2, <2>4, StatusChanges DEF Recovered
  <2>5. CASE row.status \notin {"running", "cancel_requested"}
    BY <2>1, <2>2, <2>5 DEF Recovered
  <2> QED BY <2>3, <2>4, <2>5
<1>4. DOMAIN expRuns' = DOMAIN expRuns /\ \A n \in DOMAIN expRuns : expRuns'[n] = Recovered(expRuns[n])
  BY DEF RestartHost
<1>5. \A n \in DOMAIN expRuns : expRuns'[n] \in RunRow
  BY <1>3, <1>4
<1>6. expRuns' \in Seq(RunRow)
  <2>1. expRuns' = [n \in 1..Len(expRuns) |-> expRuns'[n]]
    BY <1>2 DEF RestartHost
  <2> QED BY <1>2, <1>5, <2>1
<1>7. RowsMove
  BY <1>3, <1>4 DEF RowsMove
<1>8. ASSUME NEW n \in DOMAIN expRuns' PROVE RowMeasures(expRuns[n])'
  <2>1. PICK new \in RunRow : new = Recovered(expRuns[n]) /\ RowMeasures(new)
    BY <1>3, <1>4
  <2>2. RowMeasures(new)'
    BY <1>1, <1>7, <2>1, RowStays
  <2>3. expRuns'[n] = new
    BY <1>4, <2>1
  <2> QED BY <2>2, <2>3
<1>9. RowsKept
  BY <1>6, <1>7, <1>8 DEF RowsKept
<1>10. PICK e \in ExpEnvironment : expEnv' = [expEnv EXCEPT ![h] = e]
  BY DEF RestartHost
<1>11. expEnv' \in [ExpHost -> Environments] /\ \A g \in ExpHost \ {h} : expEnv'[g] = expEnv[g]
  BY <1>10 DEF ExpIInv, Environments
<1>12. DOMAIN expWork' = ExpHost /\ expWork'[h] = AtRest /\ \A g \in ExpHost \ {h} : expWork'[g] = expWork[g]
  BY DEF ExpIInv, RestartHost
<1>13. WorkMeasures(h, expWork[h])'
  BY <1>12, AtRestMeasures
<1>14. expPack' \in SUBSET OfferedPack /\ \A p \in expPack' : ValidPack(p)
  BY DEF ExpIInv, RestartHost
<1>15. \A g \in ExpHost : WorkMeasures(g, expWork[g])' \/ (expWork'[g] = expWork[g] /\ expEnv'[g] = expEnv[g])
  BY <1>11, <1>12, <1>13
<1> QED BY <1>1, <1>9, <1>11, <1>12, <1>14, <1>15, AllStand

-----------------------------------------------------------------------------
\* The three tables.  The numbers matter only as far as they differ.
LEMMA Numbers ==
    /\ TutorialBaselineChunkSizeTokens \in Nat /\ TutorialBaselineChunkSizeTokens > 0
    /\ TutorialP2ChunkSizeTokens \in Nat /\ TutorialP2ChunkSizeTokens > 0
    /\ TutorialP8ContextPackTopN \in Nat /\ TutorialP8ContextPackTopN > 0
    /\ TutorialContextPackMaxTokens \in Nat /\ TutorialContextPackMaxTokens > 0
    /\ TutorialP2ChunkSizeTokens # TutorialBaselineChunkSizeTokens
    /\ TutorialP8ContextPackTopN # TutorialBaselineContextPackTopN
BY DEF TutorialBaselineChunkSizeTokens, TutorialP2ChunkSizeTokens, TutorialP8ContextPackTopN,
       TutorialContextPackMaxTokens, TutorialBaselineContextPackTopN

LEMMA Chapters == DOMAIN Canonical = {"p1", "p2", "p3", "p4", "p5", "p6", "p7", "p8"}
BY DEF Canonical

LEMMA BaselineColumns ==
    /\ BaselineDefinition.kb = "baseline" /\ BaselineDefinition.parser = "basic"
    /\ BaselineDefinition.size = TutorialBaselineChunkSizeTokens
    /\ BaselineDefinition.overlap = TutorialBaselineChunkOverlapTokens
    /\ BaselineDefinition.contextual = FALSE /\ BaselineDefinition.strategy = "hybrid"
    /\ BaselineDefinition.reuse = FALSE /\ BaselineDefinition.mode = "none" /\ BaselineDefinition.queries = 0
    /\ BaselineDefinition.rerank = FALSE /\ BaselineDefinition.graph = FALSE
    /\ BaselineDefinition.topN = TutorialBaselineContextPackTopN
    /\ BaselineDefinition.maxTokens = TutorialContextPackMaxTokens
BY DEF BaselineDefinition

LEMMA BaselineDomain ==
    DOMAIN BaselineDefinition =
        {"kb", "parser", "size", "overlap", "contextual", "prompt", "strategy", "reuse", "mode", "queries", "rerank",
         "graph", "topN", "maxTokens"}
BY DEF BaselineDefinition

LEMMA TheColumns ==
    Columns = {"parser", "size", "overlap", "contextual", "strategy", "reuse", "mode", "queries", "rerank", "graph",
               "topN", "maxTokens"}
BY BaselineDomain DEF Columns

LEMMA Structured ==
    ASSUME NEW d, d = DefOf("p1"), NEW c, c = ComparableDefinition("p1")
    PROVE  /\ d.kb = "p1" /\ d.reuse = FALSE /\ \A f \in Columns : d[f] = c[f]
           /\ d.parser # BaselineDefinition.parser
           /\ \A f \in Columns \ {"parser"} : d[f] = BaselineDefinition[f]
<1>1. PICK s : s = Canonical["p1"]
  OBVIOUS
<1>2. s = [PlainCandidate EXCEPT !.parser = "structured_json", !.size = 0, !.overlap = 0]
  BY <1>1 DEF Canonical
<1>3. /\ s.size = 0 /\ s.overlap = 0
      /\ s.queries = 0 /\ s.topN = 0 /\ s.maxTokens = 0
  BY ONLY <1>2 DEF PlainCandidate
<1>4. s.parser = "structured_json" /\ s.strategy = ""
  BY ONLY <1>2 DEF PlainCandidate
<1>5. s.contextual = FALSE /\ s.reuse = FALSE /\ s.rerank = FALSE /\ s.graph = FALSE
  BY ONLY <1>2 DEF PlainCandidate
<1>6. ~(s.size > 0) /\ ~(s.queries > 0) /\ ~(s.topN > 0) /\ ~(s.maxTokens > 0)
  BY ONLY <1>3, Numbers
<1>7. d = CandidateDefinition("p1", s)
  BY <1>1 DEF DefOf
<1>8. /\ d.size = TutorialBaselineChunkSizeTokens /\ d.overlap = TutorialBaselineChunkOverlapTokens
      /\ d.topN = TutorialBaselineContextPackTopN /\ d.maxTokens = TutorialContextPackMaxTokens /\ d.queries = 0
  BY ONLY <1>3, <1>6, <1>7 DEF CandidateDefinition
<1>9. d.mode = "none"
  BY ONLY <1>6, <1>7 DEF CandidateDefinition
<1>10. d.parser = "structured_json" /\ d.strategy = "hybrid"
  BY ONLY <1>4, <1>7 DEF CandidateDefinition
<1>11. d.kb = "p1" /\ d.contextual = FALSE /\ d.reuse = FALSE /\ d.rerank = FALSE /\ d.graph = FALSE
  BY ONLY <1>5, <1>7 DEF CandidateDefinition
<1>12. \A f \in Columns \ {"parser"} : d[f] = BaselineDefinition[f]
  <2>1. \A f \in {"strategy", "mode"} : d[f] = BaselineDefinition[f]
    BY ONLY <1>9, <1>10, BaselineColumns
  <2>2. \A f \in {"size", "overlap", "queries", "topN", "maxTokens"} : d[f] = BaselineDefinition[f]
    BY ONLY <1>8, BaselineColumns
  <2>3. \A f \in {"contextual", "reuse", "rerank", "graph"} : d[f] = BaselineDefinition[f]
    BY ONLY <1>11, BaselineColumns
  <2> QED BY ONLY <2>1, <2>2, <2>3, TheColumns
<1>13. c = [[BaselineDefinition EXCEPT !.kb = "p1"] EXCEPT !.parser = "structured_json"]
  BY DEF ComparableDefinition
<1>14. \A f \in Columns \ {"parser"} : c[f] = BaselineDefinition[f]
  BY ONLY <1>13, BaselineDomain, TheColumns
<1>15. c.parser = "structured_json"
  BY ONLY <1>13, BaselineDomain
<1>16. \A f \in {"parser"} : d[f] = c[f]
  BY ONLY <1>8, <1>9, <1>10, <1>11, <1>15
<1>17. \A f \in Columns : d[f] = c[f]
  BY ONLY <1>12, <1>14, <1>16
<1>18. d.parser # BaselineDefinition.parser
  BY ONLY <1>8, <1>9, <1>10, <1>11, BaselineColumns, Numbers
<1> QED BY ONLY <1>11, <1>12, <1>17, <1>18

LEMMA Chunked ==
    ASSUME NEW d, d = DefOf("p2"), NEW c, c = ComparableDefinition("p2")
    PROVE  /\ d.kb = "p2" /\ d.reuse = FALSE /\ \A f \in Columns : d[f] = c[f]
           /\ d.size # BaselineDefinition.size
           /\ \A f \in Columns \ {"size", "overlap"} : d[f] = BaselineDefinition[f]
<1>1. PICK s : s = Canonical["p2"]
  OBVIOUS
<1>2. s = [PlainCandidate EXCEPT !.size = TutorialP2ChunkSizeTokens, !.overlap = TutorialP2ChunkOverlapTokens]
  BY <1>1 DEF Canonical
<1>3. /\ s.size = TutorialP2ChunkSizeTokens /\ s.overlap = TutorialP2ChunkOverlapTokens
      /\ s.queries = 0 /\ s.topN = 0 /\ s.maxTokens = 0
  BY ONLY <1>2 DEF PlainCandidate
<1>4. s.parser = "basic" /\ s.strategy = ""
  BY ONLY <1>2 DEF PlainCandidate
<1>5. s.contextual = FALSE /\ s.reuse = FALSE /\ s.rerank = FALSE /\ s.graph = FALSE
  BY ONLY <1>2 DEF PlainCandidate
<1>6. s.size > 0 /\ ~(s.queries > 0) /\ ~(s.topN > 0) /\ ~(s.maxTokens > 0)
  BY ONLY <1>3, Numbers
<1>7. d = CandidateDefinition("p2", s)
  BY <1>1 DEF DefOf
<1>8. /\ d.size = TutorialP2ChunkSizeTokens /\ d.overlap = TutorialP2ChunkOverlapTokens
      /\ d.topN = TutorialBaselineContextPackTopN /\ d.maxTokens = TutorialContextPackMaxTokens /\ d.queries = 0
  BY ONLY <1>3, <1>6, <1>7 DEF CandidateDefinition
<1>9. d.mode = "none"
  BY ONLY <1>6, <1>7 DEF CandidateDefinition
<1>10. d.parser = "basic" /\ d.strategy = "hybrid"
  BY ONLY <1>4, <1>7 DEF CandidateDefinition
<1>11. d.kb = "p2" /\ d.contextual = FALSE /\ d.reuse = FALSE /\ d.rerank = FALSE /\ d.graph = FALSE
  BY ONLY <1>5, <1>7 DEF CandidateDefinition
<1>12. \A f \in Columns \ {"size", "overlap"} : d[f] = BaselineDefinition[f]
  <2>1. \A f \in {"parser", "strategy", "mode"} : d[f] = BaselineDefinition[f]
    BY ONLY <1>9, <1>10, BaselineColumns
  <2>2. \A f \in {"queries", "topN", "maxTokens"} : d[f] = BaselineDefinition[f]
    BY ONLY <1>8, BaselineColumns
  <2>3. \A f \in {"contextual", "reuse", "rerank", "graph"} : d[f] = BaselineDefinition[f]
    BY ONLY <1>11, BaselineColumns
  <2> QED BY ONLY <2>1, <2>2, <2>3, TheColumns
<1>13. c = [[BaselineDefinition EXCEPT !.kb = "p2"] EXCEPT !.size = TutorialP2ChunkSizeTokens, !.overlap = TutorialP2ChunkOverlapTokens]
  BY DEF ComparableDefinition
<1>14. \A f \in Columns \ {"size", "overlap"} : c[f] = BaselineDefinition[f]
  BY ONLY <1>13, BaselineDomain, TheColumns
<1>15. c.size = TutorialP2ChunkSizeTokens /\ c.overlap = TutorialP2ChunkOverlapTokens
  BY ONLY <1>13, BaselineDomain
<1>16. \A f \in {"size", "overlap"} : d[f] = c[f]
  BY ONLY <1>8, <1>9, <1>10, <1>11, <1>15
<1>17. \A f \in Columns : d[f] = c[f]
  BY ONLY <1>12, <1>14, <1>16
<1>18. d.size # BaselineDefinition.size
  BY ONLY <1>8, <1>9, <1>10, <1>11, BaselineColumns, Numbers
<1> QED BY ONLY <1>11, <1>12, <1>17, <1>18

LEMMA Contextual ==
    ASSUME NEW d, d = DefOf("p3"), NEW c, c = ComparableDefinition("p3")
    PROVE  /\ d.kb = "p3" /\ d.reuse = FALSE /\ \A f \in Columns : d[f] = c[f]
           /\ d.contextual # BaselineDefinition.contextual
           /\ \A f \in Columns \ {"contextual"} : d[f] = BaselineDefinition[f]
<1>1. PICK s : s = Canonical["p3"]
  OBVIOUS
<1>2. s = [PlainCandidate EXCEPT !.contextual = TRUE]
  BY <1>1 DEF Canonical
<1>3. /\ s.size = TutorialBaselineChunkSizeTokens /\ s.overlap = TutorialBaselineChunkOverlapTokens
      /\ s.queries = 0 /\ s.topN = 0 /\ s.maxTokens = 0
  BY ONLY <1>2 DEF PlainCandidate
<1>4. s.parser = "basic" /\ s.strategy = ""
  BY ONLY <1>2 DEF PlainCandidate
<1>5. s.contextual = TRUE /\ s.reuse = FALSE /\ s.rerank = FALSE /\ s.graph = FALSE
  BY ONLY <1>2 DEF PlainCandidate
<1>6. s.size > 0 /\ ~(s.queries > 0) /\ ~(s.topN > 0) /\ ~(s.maxTokens > 0)
  BY ONLY <1>3, Numbers
<1>7. d = CandidateDefinition("p3", s)
  BY <1>1 DEF DefOf
<1>8. /\ d.size = TutorialBaselineChunkSizeTokens /\ d.overlap = TutorialBaselineChunkOverlapTokens
      /\ d.topN = TutorialBaselineContextPackTopN /\ d.maxTokens = TutorialContextPackMaxTokens /\ d.queries = 0
  BY ONLY <1>3, <1>6, <1>7 DEF CandidateDefinition
<1>9. d.mode = "none"
  BY ONLY <1>6, <1>7 DEF CandidateDefinition
<1>10. d.parser = "basic" /\ d.strategy = "hybrid"
  BY ONLY <1>4, <1>7 DEF CandidateDefinition
<1>11. d.kb = "p3" /\ d.contextual = TRUE /\ d.reuse = FALSE /\ d.rerank = FALSE /\ d.graph = FALSE
  BY ONLY <1>5, <1>7 DEF CandidateDefinition
<1>12. \A f \in Columns \ {"contextual"} : d[f] = BaselineDefinition[f]
  <2>1. \A f \in {"parser", "strategy", "mode"} : d[f] = BaselineDefinition[f]
    BY ONLY <1>9, <1>10, BaselineColumns
  <2>2. \A f \in {"size", "overlap", "queries", "topN", "maxTokens"} : d[f] = BaselineDefinition[f]
    BY ONLY <1>8, BaselineColumns
  <2>3. \A f \in {"reuse", "rerank", "graph"} : d[f] = BaselineDefinition[f]
    BY ONLY <1>11, BaselineColumns
  <2> QED BY ONLY <2>1, <2>2, <2>3, TheColumns
<1>13. c = [[BaselineDefinition EXCEPT !.kb = "p3"] EXCEPT !.contextual = TRUE, !.prompt = "tutorial_contextual_v1"]
  BY DEF ComparableDefinition
<1>14. \A f \in Columns \ {"contextual"} : c[f] = BaselineDefinition[f]
  BY ONLY <1>13, BaselineDomain, TheColumns
<1>15. c.contextual = TRUE
  BY ONLY <1>13, BaselineDomain
<1>16. \A f \in {"contextual"} : d[f] = c[f]
  BY ONLY <1>8, <1>9, <1>10, <1>11, <1>15
<1>17. \A f \in Columns : d[f] = c[f]
  BY ONLY <1>12, <1>14, <1>16
<1>18. d.contextual # BaselineDefinition.contextual
  BY ONLY <1>8, <1>9, <1>10, <1>11, BaselineColumns, Numbers
<1> QED BY ONLY <1>11, <1>12, <1>17, <1>18

LEMMA Sparse ==
    ASSUME NEW d, d = DefOf("p4"), NEW c, c = ComparableDefinition("p4")
    PROVE  /\ d.kb = "baseline" /\ d.reuse = TRUE /\ \A f \in Columns : d[f] = c[f]
           /\ d.strategy # BaselineDefinition.strategy
           /\ \A f \in Columns \ {"strategy", "reuse"} : d[f] = BaselineDefinition[f]
<1>1. PICK s : s = Canonical["p4"]
  OBVIOUS
<1>2. s = [ReusingCandidate EXCEPT !.strategy = "sparse"]
  BY <1>1 DEF Canonical
<1>3. /\ s.size = TutorialBaselineChunkSizeTokens /\ s.overlap = TutorialBaselineChunkOverlapTokens
      /\ s.queries = 0 /\ s.topN = 0 /\ s.maxTokens = 0
  BY ONLY <1>2 DEF PlainCandidate, ReusingCandidate
<1>4. s.parser = "basic" /\ s.strategy = "sparse"
  BY ONLY <1>2 DEF PlainCandidate, ReusingCandidate
<1>5. s.contextual = FALSE /\ s.reuse = TRUE /\ s.rerank = FALSE /\ s.graph = FALSE
  BY ONLY <1>2 DEF PlainCandidate, ReusingCandidate
<1>6. s.size > 0 /\ ~(s.queries > 0) /\ ~(s.topN > 0) /\ ~(s.maxTokens > 0)
  BY ONLY <1>3, Numbers
<1>7. d = CandidateDefinition("p4", s)
  BY <1>1 DEF DefOf
<1>8. /\ d.size = TutorialBaselineChunkSizeTokens /\ d.overlap = TutorialBaselineChunkOverlapTokens
      /\ d.topN = TutorialBaselineContextPackTopN /\ d.maxTokens = TutorialContextPackMaxTokens /\ d.queries = 0
  BY ONLY <1>3, <1>6, <1>7 DEF CandidateDefinition
<1>9. d.mode = "none"
  BY ONLY <1>6, <1>7 DEF CandidateDefinition
<1>10. d.parser = "basic" /\ d.strategy = "sparse"
  BY ONLY <1>4, <1>7 DEF CandidateDefinition
<1>11. d.kb = "baseline" /\ d.contextual = FALSE /\ d.reuse = TRUE /\ d.rerank = FALSE /\ d.graph = FALSE
  BY ONLY <1>5, <1>7 DEF CandidateDefinition
<1>12. \A f \in Columns \ {"strategy", "reuse"} : d[f] = BaselineDefinition[f]
  <2>1. \A f \in {"parser", "mode"} : d[f] = BaselineDefinition[f]
    BY ONLY <1>9, <1>10, BaselineColumns
  <2>2. \A f \in {"size", "overlap", "queries", "topN", "maxTokens"} : d[f] = BaselineDefinition[f]
    BY ONLY <1>8, BaselineColumns
  <2>3. \A f \in {"contextual", "rerank", "graph"} : d[f] = BaselineDefinition[f]
    BY ONLY <1>11, BaselineColumns
  <2> QED BY ONLY <2>1, <2>2, <2>3, TheColumns
<1>13. c = [BaselineDefinition EXCEPT !.strategy = "sparse", !.reuse = TRUE]
  BY DEF ComparableDefinition
<1>14. \A f \in Columns \ {"strategy", "reuse"} : c[f] = BaselineDefinition[f]
  BY ONLY <1>13, BaselineDomain, TheColumns
<1>15. c.strategy = "sparse" /\ c.reuse = TRUE
  BY ONLY <1>13, BaselineDomain
<1>16. \A f \in {"strategy", "reuse"} : d[f] = c[f]
  BY ONLY <1>8, <1>9, <1>10, <1>11, <1>15
<1>17. \A f \in Columns : d[f] = c[f]
  BY ONLY <1>12, <1>14, <1>16
<1>18. d.strategy # BaselineDefinition.strategy
  BY ONLY <1>8, <1>9, <1>10, <1>11, BaselineColumns, Numbers
<1> QED BY ONLY <1>11, <1>12, <1>17, <1>18

LEMMA Expanded ==
    ASSUME NEW d, d = DefOf("p5"), NEW c, c = ComparableDefinition("p5")
    PROVE  /\ d.kb = "baseline" /\ d.reuse = TRUE /\ \A f \in Columns : d[f] = c[f]
           /\ d.mode # BaselineDefinition.mode
           /\ \A f \in Columns \ {"mode", "queries", "reuse"} : d[f] = BaselineDefinition[f]
<1>1. PICK s : s = Canonical["p5"]
  OBVIOUS
<1>2. s = [ReusingCandidate EXCEPT !.queries = 3]
  BY <1>1 DEF Canonical
<1>3. /\ s.size = TutorialBaselineChunkSizeTokens /\ s.overlap = TutorialBaselineChunkOverlapTokens
      /\ s.queries = 3 /\ s.topN = 0 /\ s.maxTokens = 0
  BY ONLY <1>2 DEF PlainCandidate, ReusingCandidate
<1>4. s.parser = "basic" /\ s.strategy = "hybrid"
  BY ONLY <1>2 DEF PlainCandidate, ReusingCandidate
<1>5. s.contextual = FALSE /\ s.reuse = TRUE /\ s.rerank = FALSE /\ s.graph = FALSE
  BY ONLY <1>2 DEF PlainCandidate, ReusingCandidate
<1>6. s.size > 0 /\ s.queries > 0 /\ ~(s.topN > 0) /\ ~(s.maxTokens > 0)
  BY ONLY <1>3, Numbers
<1>7. d = CandidateDefinition("p5", s)
  BY <1>1 DEF DefOf
<1>8. /\ d.size = TutorialBaselineChunkSizeTokens /\ d.overlap = TutorialBaselineChunkOverlapTokens
      /\ d.topN = TutorialBaselineContextPackTopN /\ d.maxTokens = TutorialContextPackMaxTokens /\ d.queries = 3
  BY ONLY <1>3, <1>6, <1>7 DEF CandidateDefinition
<1>9. d.mode = "multi_query"
  BY ONLY <1>6, <1>7 DEF CandidateDefinition
<1>10. d.parser = "basic" /\ d.strategy = "hybrid"
  BY ONLY <1>4, <1>7 DEF CandidateDefinition
<1>11. d.kb = "baseline" /\ d.contextual = FALSE /\ d.reuse = TRUE /\ d.rerank = FALSE /\ d.graph = FALSE
  BY ONLY <1>5, <1>7 DEF CandidateDefinition
<1>12. \A f \in Columns \ {"mode", "queries", "reuse"} : d[f] = BaselineDefinition[f]
  <2>1. \A f \in {"parser", "strategy"} : d[f] = BaselineDefinition[f]
    BY ONLY <1>9, <1>10, BaselineColumns
  <2>2. \A f \in {"size", "overlap", "topN", "maxTokens"} : d[f] = BaselineDefinition[f]
    BY ONLY <1>8, BaselineColumns
  <2>3. \A f \in {"contextual", "rerank", "graph"} : d[f] = BaselineDefinition[f]
    BY ONLY <1>11, BaselineColumns
  <2> QED BY ONLY <2>1, <2>2, <2>3, TheColumns
<1>13. c = [BaselineDefinition EXCEPT !.mode = "multi_query", !.queries = 3, !.reuse = TRUE]
  BY DEF ComparableDefinition
<1>14. \A f \in Columns \ {"mode", "queries", "reuse"} : c[f] = BaselineDefinition[f]
  BY ONLY <1>13, BaselineDomain, TheColumns
<1>15. c.mode = "multi_query" /\ c.queries = 3 /\ c.reuse = TRUE
  BY ONLY <1>13, BaselineDomain
<1>16. \A f \in {"mode", "queries", "reuse"} : d[f] = c[f]
  BY ONLY <1>8, <1>9, <1>10, <1>11, <1>15
<1>17. \A f \in Columns : d[f] = c[f]
  BY ONLY <1>12, <1>14, <1>16
<1>18. d.mode # BaselineDefinition.mode
  BY ONLY <1>8, <1>9, <1>10, <1>11, BaselineColumns, Numbers
<1> QED BY ONLY <1>11, <1>12, <1>17, <1>18

LEMMA Reranked ==
    ASSUME NEW d, d = DefOf("p6"), NEW c, c = ComparableDefinition("p6")
    PROVE  /\ d.kb = "baseline" /\ d.reuse = TRUE /\ \A f \in Columns : d[f] = c[f]
           /\ d.rerank # BaselineDefinition.rerank
           /\ \A f \in Columns \ {"rerank", "reuse"} : d[f] = BaselineDefinition[f]
<1>1. PICK s : s = Canonical["p6"]
  OBVIOUS
<1>2. s = [ReusingCandidate EXCEPT !.rerank = TRUE]
  BY <1>1 DEF Canonical
<1>3. /\ s.size = TutorialBaselineChunkSizeTokens /\ s.overlap = TutorialBaselineChunkOverlapTokens
      /\ s.queries = 0 /\ s.topN = 0 /\ s.maxTokens = 0
  BY ONLY <1>2 DEF PlainCandidate, ReusingCandidate
<1>4. s.parser = "basic" /\ s.strategy = "hybrid"
  BY ONLY <1>2 DEF PlainCandidate, ReusingCandidate
<1>5. s.contextual = FALSE /\ s.reuse = TRUE /\ s.rerank = TRUE /\ s.graph = FALSE
  BY ONLY <1>2 DEF PlainCandidate, ReusingCandidate
<1>6. s.size > 0 /\ ~(s.queries > 0) /\ ~(s.topN > 0) /\ ~(s.maxTokens > 0)
  BY ONLY <1>3, Numbers
<1>7. d = CandidateDefinition("p6", s)
  BY <1>1 DEF DefOf
<1>8. /\ d.size = TutorialBaselineChunkSizeTokens /\ d.overlap = TutorialBaselineChunkOverlapTokens
      /\ d.topN = TutorialBaselineContextPackTopN /\ d.maxTokens = TutorialContextPackMaxTokens /\ d.queries = 0
  BY ONLY <1>3, <1>6, <1>7 DEF CandidateDefinition
<1>9. d.mode = "none"
  BY ONLY <1>6, <1>7 DEF CandidateDefinition
<1>10. d.parser = "basic" /\ d.strategy = "hybrid"
  BY ONLY <1>4, <1>7 DEF CandidateDefinition
<1>11. d.kb = "baseline" /\ d.contextual = FALSE /\ d.reuse = TRUE /\ d.rerank = TRUE /\ d.graph = FALSE
  BY ONLY <1>5, <1>7 DEF CandidateDefinition
<1>12. \A f \in Columns \ {"rerank", "reuse"} : d[f] = BaselineDefinition[f]
  <2>1. \A f \in {"parser", "strategy", "mode"} : d[f] = BaselineDefinition[f]
    BY ONLY <1>9, <1>10, BaselineColumns
  <2>2. \A f \in {"size", "overlap", "queries", "topN", "maxTokens"} : d[f] = BaselineDefinition[f]
    BY ONLY <1>8, BaselineColumns
  <2>3. \A f \in {"contextual", "graph"} : d[f] = BaselineDefinition[f]
    BY ONLY <1>11, BaselineColumns
  <2> QED BY ONLY <2>1, <2>2, <2>3, TheColumns
<1>13. c = [BaselineDefinition EXCEPT !.rerank = TRUE, !.reuse = TRUE]
  BY DEF ComparableDefinition
<1>14. \A f \in Columns \ {"rerank", "reuse"} : c[f] = BaselineDefinition[f]
  BY ONLY <1>13, BaselineDomain, TheColumns
<1>15. c.rerank = TRUE /\ c.reuse = TRUE
  BY ONLY <1>13, BaselineDomain
<1>16. \A f \in {"rerank", "reuse"} : d[f] = c[f]
  BY ONLY <1>8, <1>9, <1>10, <1>11, <1>15
<1>17. \A f \in Columns : d[f] = c[f]
  BY ONLY <1>12, <1>14, <1>16
<1>18. d.rerank # BaselineDefinition.rerank
  BY ONLY <1>8, <1>9, <1>10, <1>11, BaselineColumns, Numbers
<1> QED BY ONLY <1>11, <1>12, <1>17, <1>18

LEMMA Graphed ==
    ASSUME NEW d, d = DefOf("p7"), NEW c, c = ComparableDefinition("p7")
    PROVE  /\ d.kb = "p7" /\ d.reuse = FALSE /\ \A f \in Columns : d[f] = c[f]
           /\ d.strategy # BaselineDefinition.strategy
           /\ \A f \in Columns \ {"strategy", "graph"} : d[f] = BaselineDefinition[f]
<1>1. PICK s : s = Canonical["p7"]
  OBVIOUS
<1>2. s = [PlainCandidate EXCEPT !.strategy = "graph", !.graph = TRUE]
  BY <1>1 DEF Canonical
<1>3. /\ s.size = TutorialBaselineChunkSizeTokens /\ s.overlap = TutorialBaselineChunkOverlapTokens
      /\ s.queries = 0 /\ s.topN = 0 /\ s.maxTokens = 0
  BY ONLY <1>2 DEF PlainCandidate
<1>4. s.parser = "basic" /\ s.strategy = "graph"
  BY ONLY <1>2 DEF PlainCandidate
<1>5. s.contextual = FALSE /\ s.reuse = FALSE /\ s.rerank = FALSE /\ s.graph = TRUE
  BY ONLY <1>2 DEF PlainCandidate
<1>6. s.size > 0 /\ ~(s.queries > 0) /\ ~(s.topN > 0) /\ ~(s.maxTokens > 0)
  BY ONLY <1>3, Numbers
<1>7. d = CandidateDefinition("p7", s)
  BY <1>1 DEF DefOf
<1>8. /\ d.size = TutorialBaselineChunkSizeTokens /\ d.overlap = TutorialBaselineChunkOverlapTokens
      /\ d.topN = TutorialBaselineContextPackTopN /\ d.maxTokens = TutorialContextPackMaxTokens /\ d.queries = 0
  BY ONLY <1>3, <1>6, <1>7 DEF CandidateDefinition
<1>9. d.mode = "none"
  BY ONLY <1>6, <1>7 DEF CandidateDefinition
<1>10. d.parser = "basic" /\ d.strategy = "graph"
  BY ONLY <1>4, <1>7 DEF CandidateDefinition
<1>11. d.kb = "p7" /\ d.contextual = FALSE /\ d.reuse = FALSE /\ d.rerank = FALSE /\ d.graph = TRUE
  BY ONLY <1>5, <1>7 DEF CandidateDefinition
<1>12. \A f \in Columns \ {"strategy", "graph"} : d[f] = BaselineDefinition[f]
  <2>1. \A f \in {"parser", "mode"} : d[f] = BaselineDefinition[f]
    BY ONLY <1>9, <1>10, BaselineColumns
  <2>2. \A f \in {"size", "overlap", "queries", "topN", "maxTokens"} : d[f] = BaselineDefinition[f]
    BY ONLY <1>8, BaselineColumns
  <2>3. \A f \in {"contextual", "reuse", "rerank"} : d[f] = BaselineDefinition[f]
    BY ONLY <1>11, BaselineColumns
  <2> QED BY ONLY <2>1, <2>2, <2>3, TheColumns
<1>13. c = [[BaselineDefinition EXCEPT !.kb = "p7"] EXCEPT !.strategy = "graph", !.graph = TRUE]
  BY DEF ComparableDefinition
<1>14. \A f \in Columns \ {"strategy", "graph"} : c[f] = BaselineDefinition[f]
  BY ONLY <1>13, BaselineDomain, TheColumns
<1>15. c.strategy = "graph" /\ c.graph = TRUE
  BY ONLY <1>13, BaselineDomain
<1>16. \A f \in {"strategy", "graph"} : d[f] = c[f]
  BY ONLY <1>8, <1>9, <1>10, <1>11, <1>15
<1>17. \A f \in Columns : d[f] = c[f]
  BY ONLY <1>12, <1>14, <1>16
<1>18. d.strategy # BaselineDefinition.strategy
  BY ONLY <1>8, <1>9, <1>10, <1>11, BaselineColumns, Numbers
<1> QED BY ONLY <1>11, <1>12, <1>17, <1>18

LEMMA Packed ==
    ASSUME NEW d, d = DefOf("p8"), NEW c, c = ComparableDefinition("p8")
    PROVE  /\ d.kb = "baseline" /\ d.reuse = TRUE /\ \A f \in Columns : d[f] = c[f]
           /\ d.topN # BaselineDefinition.topN
           /\ \A f \in Columns \ {"topN", "reuse"} : d[f] = BaselineDefinition[f]
<1>1. PICK s : s = Canonical["p8"]
  OBVIOUS
<1>2. s = [ReusingCandidate EXCEPT !.topN = TutorialP8ContextPackTopN, !.maxTokens = TutorialContextPackMaxTokens]
  BY <1>1 DEF Canonical
<1>3. /\ s.size = TutorialBaselineChunkSizeTokens /\ s.overlap = TutorialBaselineChunkOverlapTokens
      /\ s.queries = 0 /\ s.topN = TutorialP8ContextPackTopN /\ s.maxTokens = TutorialContextPackMaxTokens
  BY ONLY <1>2 DEF PlainCandidate, ReusingCandidate
<1>4. s.parser = "basic" /\ s.strategy = "hybrid"
  BY ONLY <1>2 DEF PlainCandidate, ReusingCandidate
<1>5. s.contextual = FALSE /\ s.reuse = TRUE /\ s.rerank = FALSE /\ s.graph = FALSE
  BY ONLY <1>2 DEF PlainCandidate, ReusingCandidate
<1>6. s.size > 0 /\ ~(s.queries > 0) /\ s.topN > 0 /\ s.maxTokens > 0
  BY ONLY <1>3, Numbers
<1>7. d = CandidateDefinition("p8", s)
  BY <1>1 DEF DefOf
<1>8. /\ d.size = TutorialBaselineChunkSizeTokens /\ d.overlap = TutorialBaselineChunkOverlapTokens
      /\ d.topN = TutorialP8ContextPackTopN /\ d.maxTokens = TutorialContextPackMaxTokens /\ d.queries = 0
  BY ONLY <1>3, <1>6, <1>7 DEF CandidateDefinition
<1>9. d.mode = "none"
  BY ONLY <1>6, <1>7 DEF CandidateDefinition
<1>10. d.parser = "basic" /\ d.strategy = "hybrid"
  BY ONLY <1>4, <1>7 DEF CandidateDefinition
<1>11. d.kb = "baseline" /\ d.contextual = FALSE /\ d.reuse = TRUE /\ d.rerank = FALSE /\ d.graph = FALSE
  BY ONLY <1>5, <1>7 DEF CandidateDefinition
<1>12. \A f \in Columns \ {"topN", "reuse"} : d[f] = BaselineDefinition[f]
  <2>1. \A f \in {"parser", "strategy", "mode"} : d[f] = BaselineDefinition[f]
    BY ONLY <1>9, <1>10, BaselineColumns
  <2>2. \A f \in {"size", "overlap", "queries", "maxTokens"} : d[f] = BaselineDefinition[f]
    BY ONLY <1>8, BaselineColumns
  <2>3. \A f \in {"contextual", "rerank", "graph"} : d[f] = BaselineDefinition[f]
    BY ONLY <1>11, BaselineColumns
  <2> QED BY ONLY <2>1, <2>2, <2>3, TheColumns
<1>13. c = [BaselineDefinition EXCEPT !.topN = TutorialP8ContextPackTopN, !.reuse = TRUE]
  BY DEF ComparableDefinition
<1>14. \A f \in Columns \ {"topN", "reuse"} : c[f] = BaselineDefinition[f]
  BY ONLY <1>13, BaselineDomain, TheColumns
<1>15. c.topN = TutorialP8ContextPackTopN /\ c.reuse = TRUE
  BY ONLY <1>13, BaselineDomain
<1>16. \A f \in {"topN", "reuse"} : d[f] = c[f]
  BY ONLY <1>8, <1>9, <1>10, <1>11, <1>15
<1>17. \A f \in Columns : d[f] = c[f]
  BY ONLY <1>12, <1>14, <1>16
<1>18. d.topN # BaselineDefinition.topN
  BY ONLY <1>8, <1>9, <1>10, <1>11, BaselineColumns, Numbers
<1> QED BY ONLY <1>11, <1>12, <1>17, <1>18

LEMMA FactorsApart ==
    /\ \A a \in Factors : a \subseteq Columns \ {"reuse"}
    /\ \A a, b \in Factors : a # b => a \cap b = {}
<1>1. \A a \in Factors : a \subseteq Columns \ {"reuse"}
  BY TheColumns DEF Factors
<1>2. \A a, b \in Factors : a # b => a \cap b = {}
  BY DEF Factors
<1> QED BY <1>1, <1>2

\* A definition that differs from the baseline's within one factor.
DiffersIn(d, own) ==
    /\ \E f \in own : BaselineDefinition[f] # d[f]
    /\ \A other \in Factors \ {own} : \A f \in other : BaselineDefinition[f] = d[f]

Reusing == {"p4", "p5", "p6", "p8"}

\* The definition that is derived from an accepted candidate is the one that
\* is compared, and one factor is not the baseline's.
LEMMA TablesAgree ==
    ASSUME NEW v \in DOMAIN Canonical, NEW d, d = DefOf(v), NEW c, c = ComparableDefinition(v)
    PROVE  /\ \A f \in Columns : d[f] = c[f]
           /\ \E own \in Factors : DiffersIn(d, own)
           /\ d.kb = (IF v \in Reusing THEN "baseline" ELSE v)
           /\ d.reuse \in BOOLEAN /\ (d.reuse <=> v \in Reusing)
<1>1. CASE v = "p1"
  <2>1. d = DefOf("p1") /\ c = ComparableDefinition("p1")
    BY <1>1, Zenon
  <2>2. /\ d.kb = "p1" /\ d.reuse = FALSE /\ \A f \in Columns : d[f] = c[f]
        /\ d.parser # BaselineDefinition.parser /\ \A f \in Columns \ {"parser"} : d[f] = BaselineDefinition[f]
    BY <2>1, Structured, Zenon
  <2>3. {"parser"} \in Factors
    BY DEF Factors
  <2>4. \A other \in Factors \ {{"parser"}} : other \subseteq Columns \ {"parser"}
    BY ONLY <2>3, FactorsApart
  <2>5. DiffersIn(d, {"parser"})
    BY ONLY <2>2, <2>4 DEF DiffersIn
  <2>6. d.kb = (IF v \in Reusing THEN "baseline" ELSE v)
        /\ d.reuse \in BOOLEAN /\ (d.reuse <=> v \in Reusing)
    <3>1. v \notin Reusing
      BY ONLY <1>1 DEF Reusing
    <3> QED BY ONLY <1>1, <2>2, <3>1
  <2> QED BY ONLY <2>2, <2>3, <2>5, <2>6
<1>2. CASE v = "p2"
  <2>1. d = DefOf("p2") /\ c = ComparableDefinition("p2")
    BY <1>2, Zenon
  <2>2. /\ d.kb = "p2" /\ d.reuse = FALSE /\ \A f \in Columns : d[f] = c[f]
        /\ d.size # BaselineDefinition.size /\ \A f \in Columns \ {"size", "overlap"} : d[f] = BaselineDefinition[f]
    BY <2>1, Chunked, Zenon
  <2>3. {"size", "overlap"} \in Factors
    BY DEF Factors
  <2>4. \A other \in Factors \ {{"size", "overlap"}} : other \subseteq Columns \ {"size", "overlap"}
    BY ONLY <2>3, FactorsApart
  <2>5. DiffersIn(d, {"size", "overlap"})
    BY ONLY <2>2, <2>4 DEF DiffersIn
  <2>6. d.kb = (IF v \in Reusing THEN "baseline" ELSE v)
        /\ d.reuse \in BOOLEAN /\ (d.reuse <=> v \in Reusing)
    <3>1. v \notin Reusing
      BY ONLY <1>2 DEF Reusing
    <3> QED BY ONLY <1>2, <2>2, <3>1
  <2> QED BY ONLY <2>2, <2>3, <2>5, <2>6
<1>3. CASE v = "p3"
  <2>1. d = DefOf("p3") /\ c = ComparableDefinition("p3")
    BY <1>3, Zenon
  <2>2. /\ d.kb = "p3" /\ d.reuse = FALSE /\ \A f \in Columns : d[f] = c[f]
        /\ d.contextual # BaselineDefinition.contextual /\ \A f \in Columns \ {"contextual"} : d[f] = BaselineDefinition[f]
    BY <2>1, Contextual, Zenon
  <2>3. {"contextual"} \in Factors
    BY DEF Factors
  <2>4. \A other \in Factors \ {{"contextual"}} : other \subseteq Columns \ {"contextual"}
    BY ONLY <2>3, FactorsApart
  <2>5. DiffersIn(d, {"contextual"})
    BY ONLY <2>2, <2>4 DEF DiffersIn
  <2>6. d.kb = (IF v \in Reusing THEN "baseline" ELSE v)
        /\ d.reuse \in BOOLEAN /\ (d.reuse <=> v \in Reusing)
    <3>1. v \notin Reusing
      BY ONLY <1>3 DEF Reusing
    <3> QED BY ONLY <1>3, <2>2, <3>1
  <2> QED BY ONLY <2>2, <2>3, <2>5, <2>6
<1>4. CASE v = "p4"
  <2>1. d = DefOf("p4") /\ c = ComparableDefinition("p4")
    BY <1>4, Zenon
  <2>2. /\ d.kb = "baseline" /\ d.reuse = TRUE /\ \A f \in Columns : d[f] = c[f]
        /\ d.strategy # BaselineDefinition.strategy /\ \A f \in Columns \ {"strategy", "reuse"} : d[f] = BaselineDefinition[f]
    BY <2>1, Sparse, Zenon
  <2>3. {"strategy", "graph"} \in Factors
    BY DEF Factors
  <2>4. \A other \in Factors \ {{"strategy", "graph"}} : other \subseteq Columns \ {"strategy", "reuse"}
    BY ONLY <2>3, FactorsApart
  <2>5. DiffersIn(d, {"strategy", "graph"})
    BY ONLY <2>2, <2>4 DEF DiffersIn
  <2>6. d.kb = (IF v \in Reusing THEN "baseline" ELSE v)
        /\ d.reuse \in BOOLEAN /\ (d.reuse <=> v \in Reusing)
    <3>1. v \in Reusing
      BY ONLY <1>4 DEF Reusing
    <3> QED BY ONLY <1>4, <2>2, <3>1
  <2> QED BY ONLY <2>2, <2>3, <2>5, <2>6
<1>5. CASE v = "p5"
  <2>1. d = DefOf("p5") /\ c = ComparableDefinition("p5")
    BY <1>5, Zenon
  <2>2. /\ d.kb = "baseline" /\ d.reuse = TRUE /\ \A f \in Columns : d[f] = c[f]
        /\ d.mode # BaselineDefinition.mode /\ \A f \in Columns \ {"mode", "queries", "reuse"} : d[f] = BaselineDefinition[f]
    BY <2>1, Expanded, Zenon
  <2>3. {"mode", "queries"} \in Factors
    BY DEF Factors
  <2>4. \A other \in Factors \ {{"mode", "queries"}} : other \subseteq Columns \ {"mode", "queries", "reuse"}
    BY ONLY <2>3, FactorsApart
  <2>5. DiffersIn(d, {"mode", "queries"})
    BY ONLY <2>2, <2>4 DEF DiffersIn
  <2>6. d.kb = (IF v \in Reusing THEN "baseline" ELSE v)
        /\ d.reuse \in BOOLEAN /\ (d.reuse <=> v \in Reusing)
    <3>1. v \in Reusing
      BY ONLY <1>5 DEF Reusing
    <3> QED BY ONLY <1>5, <2>2, <3>1
  <2> QED BY ONLY <2>2, <2>3, <2>5, <2>6
<1>6. CASE v = "p6"
  <2>1. d = DefOf("p6") /\ c = ComparableDefinition("p6")
    BY <1>6, Zenon
  <2>2. /\ d.kb = "baseline" /\ d.reuse = TRUE /\ \A f \in Columns : d[f] = c[f]
        /\ d.rerank # BaselineDefinition.rerank /\ \A f \in Columns \ {"rerank", "reuse"} : d[f] = BaselineDefinition[f]
    BY <2>1, Reranked, Zenon
  <2>3. {"rerank"} \in Factors
    BY DEF Factors
  <2>4. \A other \in Factors \ {{"rerank"}} : other \subseteq Columns \ {"rerank", "reuse"}
    BY ONLY <2>3, FactorsApart
  <2>5. DiffersIn(d, {"rerank"})
    BY ONLY <2>2, <2>4 DEF DiffersIn
  <2>6. d.kb = (IF v \in Reusing THEN "baseline" ELSE v)
        /\ d.reuse \in BOOLEAN /\ (d.reuse <=> v \in Reusing)
    <3>1. v \in Reusing
      BY ONLY <1>6 DEF Reusing
    <3> QED BY ONLY <1>6, <2>2, <3>1
  <2> QED BY ONLY <2>2, <2>3, <2>5, <2>6
<1>7. CASE v = "p7"
  <2>1. d = DefOf("p7") /\ c = ComparableDefinition("p7")
    BY <1>7, Zenon
  <2>2. /\ d.kb = "p7" /\ d.reuse = FALSE /\ \A f \in Columns : d[f] = c[f]
        /\ d.strategy # BaselineDefinition.strategy /\ \A f \in Columns \ {"strategy", "graph"} : d[f] = BaselineDefinition[f]
    BY <2>1, Graphed, Zenon
  <2>3. {"strategy", "graph"} \in Factors
    BY DEF Factors
  <2>4. \A other \in Factors \ {{"strategy", "graph"}} : other \subseteq Columns \ {"strategy", "graph"}
    BY ONLY <2>3, FactorsApart
  <2>5. DiffersIn(d, {"strategy", "graph"})
    BY ONLY <2>2, <2>4 DEF DiffersIn
  <2>6. d.kb = (IF v \in Reusing THEN "baseline" ELSE v)
        /\ d.reuse \in BOOLEAN /\ (d.reuse <=> v \in Reusing)
    <3>1. v \notin Reusing
      BY ONLY <1>7 DEF Reusing
    <3> QED BY ONLY <1>7, <2>2, <3>1
  <2> QED BY ONLY <2>2, <2>3, <2>5, <2>6
<1>8. CASE v = "p8"
  <2>1. d = DefOf("p8") /\ c = ComparableDefinition("p8")
    BY <1>8, Zenon
  <2>2. /\ d.kb = "baseline" /\ d.reuse = TRUE /\ \A f \in Columns : d[f] = c[f]
        /\ d.topN # BaselineDefinition.topN /\ \A f \in Columns \ {"topN", "reuse"} : d[f] = BaselineDefinition[f]
    BY <2>1, Packed, Zenon
  <2>3. {"topN", "maxTokens"} \in Factors
    BY DEF Factors
  <2>4. \A other \in Factors \ {{"topN", "maxTokens"}} : other \subseteq Columns \ {"topN", "reuse"}
    BY ONLY <2>3, FactorsApart
  <2>5. DiffersIn(d, {"topN", "maxTokens"})
    BY ONLY <2>2, <2>4 DEF DiffersIn
  <2>6. d.kb = (IF v \in Reusing THEN "baseline" ELSE v)
        /\ d.reuse \in BOOLEAN /\ (d.reuse <=> v \in Reusing)
    <3>1. v \in Reusing
      BY ONLY <1>8 DEF Reusing
    <3> QED BY ONLY <1>8, <2>2, <3>1
  <2> QED BY ONLY <2>2, <2>3, <2>5, <2>6
<1> QED BY <1>1, <1>2, <1>3, <1>4, <1>5, <1>6, <1>7, <1>8, Chapters

LEMMA Definitions ==
    /\ DefOf("baseline") = BaselineDefinition /\ BaselineDefinition.kb = "baseline" /\ ~BaselineDefinition.contextual
    /\ BaselineDefinition.reuse = FALSE /\ \A v \in Variant : DefOf(v).reuse \in BOOLEAN
    /\ \A v \in Variant : DefOf(v).reuse => DefOf(v).kb = "baseline"
<1>1. DefOf("baseline") = BaselineDefinition /\ BaselineDefinition.kb = "baseline" /\ ~BaselineDefinition.contextual
      /\ BaselineDefinition.reuse = FALSE
  BY DEF DefOf, BaselineDefinition
<1>2. ASSUME NEW v \in Variant
      PROVE  DefOf(v).reuse \in BOOLEAN /\ (DefOf(v).reuse => DefOf(v).kb = "baseline")
  <2>1. CASE v \in DOMAIN Canonical
    <3>1. PICK d, c : d = DefOf(v) /\ c = ComparableDefinition(v)
      OBVIOUS
    <3>2. d.kb = (IF v \in Reusing THEN "baseline" ELSE v) /\ d.reuse \in BOOLEAN /\ (d.reuse <=> v \in Reusing)
      BY ONLY <2>1, <3>1, TablesAgree
    <3> QED BY ONLY <3>1, <3>2
  <2>2. CASE v = "baseline"
    <3>1. DefOf(v) = BaselineDefinition
      BY <2>2 DEF DefOf
    <3> QED BY ONLY <1>1, <3>1
  <2> QED BY <2>1, <2>2 DEF Variant
<1> QED BY ONLY <1>1, <1>2

-----------------------------------------------------------------------------
\* Requests.

\* A pack that was accepted declares the one form of each candidate.
LEMMA OneDefinition ==
    ASSUME ExpIInv, NEW v \in Variant, NEW def \in VariantDefinitions(v)
    PROVE  def = DefOf(v)
<1>1. CASE v = "baseline"
  BY <1>1 DEF VariantDefinitions, DefOf
<1>2. CASE v # "baseline"
  <2>1. PICK c \in Declared(v) : def = CandidateDefinition(c.id, c.set)
    BY <1>2 DEF VariantDefinitions
  <2>2. c.id = v /\ \E pack \in expPack : c \in Candidates(pack)
    BY DEF Declared
  <2>3. PICK pack \in expPack : c \in Candidates(pack)
    BY <2>2
  <2>4. PICK i \in DOMAIN RuntimeOf[pack].candidates : c = RuntimeOf[pack].candidates[i]
    BY <2>3 DEF Candidates
  <2>5. ValidCandidate(c, RuntimeOf[pack].json)
    BY <2>4 DEF ExpIInv, ValidPack
  <2>6. c.set = Canonical[v]
    BY <2>2, <2>5 DEF ValidCandidate
  <2> QED BY <1>2, <2>1, <2>2, <2>6 DEF DefOf
<1> QED BY <1>1, <1>2

LEMMA StartKeeps ==
    ASSUME ExpIInv, NEW h \in ExpHost, NEW v \in Variant, NEW key \in ExpKey, StartVariant(h, v, key)
    PROVE  ExpIInv'
<1>1. PICK def \in VariantDefinitions(v), b \in {0} \cup DOMAIN expRuns :
         /\ IF v = "baseline" THEN b = 0 ELSE b \in CompletedBaselines(ComparisonFingerprint(h))
         /\ expWork' = [expWork EXCEPT ![h] = [step |-> "create", row |-> NewExpRun(h, v, key, def, b)]]
  BY DEF StartVariant, Works
<1>2. PICK row : row = NewExpRun(h, v, key, def, b)
  OBVIOUS
<1>3. def = DefOf(v)
  BY OneDefinition
<1>4. IndexGrows /\ RowsKept
  BY IndexStays, RowsStay DEF StartVariant
<1>5. expEnv[h] \in Environments /\ expPack \in SUBSET OfferedPack
  BY DEF ExpIInv
<1>6. b \in Nat /\ (b # 0 => expRuns[b] \in RunRow)
  BY <1>1, RowFacts
<1>7. v # "baseline" =>
         /\ b \in DOMAIN expRuns /\ expRuns[b].variant = "baseline" /\ expRuns[b].status = "completed"
         /\ expRuns[b].fingerprint = ComparisonFingerprint(h) /\ b # 0
  <2>1. DOMAIN expRuns \in SUBSET (Nat \ {0})
    <3>1. expRuns \in Seq(RunRow)
      BY DEF ExpIInv
    <3> QED BY <3>1
  <2> QED BY <1>1, <2>1 DEF CompletedBaselines
<1>8. row.stats \in [chunks : BOOLEAN, contexts : BOOLEAN]
  BY <1>2, <1>6 DEF NewExpRun, NoStats, RunRow
<1>9. /\ row.variant = v /\ row.key = key /\ row.baseline = b /\ row.def = def /\ row.env = expEnv[h]
      /\ row.fingerprint = ComparisonFingerprint(h) /\ row.status = "queued"
      /\ row.stage = (IF def.reuse THEN "evaluate" ELSE "index")
      /\ row.indexEnv = {} /\ row.evalEnv = {} /\ row.kbEnv = {} /\ row.done = 0
      /\ row.stats = IF b = 0 THEN NoStats ELSE expRuns[b].stats
  BY <1>2 DEF NewExpRun
<1>10. ComparisonFingerprint(h) \in [pack : SUBSET OfferedPack, env : SUBSET Environments]
       /\ ComparisonFingerprint(h).env = {expEnv[h]}
  BY <1>5 DEF ComparisonFingerprint
<1>11. row \in RunRow
  <2>1. row = [variant |-> v, key |-> key, baseline |-> b, def |-> def, fingerprint |-> ComparisonFingerprint(h),
               env |-> expEnv[h], stage |-> row.stage, status |-> "queued", stats |-> row.stats, indexEnv |-> {},
               evalEnv |-> {}, kbEnv |-> {}, done |-> 0]
    BY <1>2 DEF NewExpRun
  <2>2. row.stage \in {"index", "evaluate"}
    BY <1>9
  <2>3. def \in {DefOf(u) : u \in Variant}
    BY <1>3
  <2> QED BY <1>5, <1>6, <1>8, <1>10, <2>1, <2>2, <2>3 DEF RunRow
<1>12. ASSUME v # "baseline"
       PROVE  /\ ~expRuns[b].stats.contexts /\ expRuns[b].env = expEnv[h] /\ expEnv[h] \in expIndex["baseline"]
  <2>1. RowMeasures(expRuns[b])
    BY <1>7, <1>12, RowFacts
  <2>2. expRuns[b].def = BaselineDefinition
    BY <1>7, <1>12, <2>1, Definitions DEF RowMeasures
  <2>3. {expRuns[b].env} = {expEnv[h]}
    BY <1>7, <1>10, <1>12, <2>1 DEF RowMeasures
  <2>4. Built(expRuns[b])
    BY <1>7, <1>12, <2>1 DEF RowMeasures
  <2>5. ~expRuns[b].stats.contexts
    BY <2>1, <2>2, Definitions DEF RowMeasures
  <2> QED BY <2>2, <2>3, <2>4, <2>5, Definitions DEF Built
<1>13. RowMeasures(row)
  <2>1. row.stage = "evaluate" => Built(row)
    <3> SUFFICES ASSUME row.stage = "evaluate" PROVE Built(row)
      OBVIOUS
    <3>1. def.reuse
      BY <1>9
    <3>2. v # "baseline"
      BY <1>3, <3>1, Definitions
    <3>3. def.kb = "baseline"
      BY <1>3, <3>1, Definitions
    <3> QED BY <1>9, <1>12, <3>2, <3>3 DEF Built
  <2>2. ~row.stats.contexts
    BY <1>1, <1>7, <1>9, <1>12 DEF NoStats
  <2>3. v # "baseline" => Based(row)
    BY <1>7, <1>9 DEF Based
  <2>4. IsFiniteSet(row.kbEnv)
    BY <1>9, FS_EmptySet
  <2> QED BY <1>3, <1>9, <1>10, <2>1, <2>2, <2>3, <2>4 DEF RowMeasures
<1>14. RowMeasures(row)'
  BY <1>4, <1>11, <1>13, RowStays DEF RowsKept
<1>15. PICK w : w = [step |-> "create", row |-> row]
  OBVIOUS
<1>16. "step" \in DOMAIN w /\ w.step = "create" /\ w.row = row
  BY <1>15
<1>17. WorkMeasures(h, w)'
  BY <1>9, <1>11, <1>14, <1>16 DEF WorkMeasures
<1>18. expWork' = [expWork EXCEPT ![h] = w] /\ expEnv' = expEnv /\ expPack' = expPack
  BY <1>1, <1>2, <1>15 DEF StartVariant
<1> QED BY <1>4, <1>17, <1>18, HostMoves

LEMMA CreateKeeps ==
    ASSUME ExpIInv, NEW h \in ExpHost, CreateOrGetRun(h)
    PROVE  ExpIInv'
<1>1. IndexGrows
  BY IndexStays DEF CreateOrGetRun
<1>2. PICK row : row = expWork[h].row
  OBVIOUS
<1>3. row \in RunRow /\ RowMeasures(row)
  BY <1>2 DEF CreateOrGetRun, ExpIInv, WorkMeasures
<1>4. CASE expRuns' = expRuns
  <2>1. RowsKept
    BY <1>1, <1>4, RowsStay
  <2> QED BY <1>1, <2>1, HostMoves, AtRestMeasures DEF CreateOrGetRun, Works
<1>5. CASE expRuns' = Append(expRuns, row)
  <2>1. /\ expRuns' \in Seq(RunRow) /\ DOMAIN expRuns = 1..Len(expRuns) /\ DOMAIN expRuns' = 1..(Len(expRuns) + 1)
        /\ Len(expRuns) \in Nat /\ \A n \in DOMAIN expRuns : expRuns'[n] = expRuns[n]
        /\ expRuns'[Len(expRuns) + 1] = row
    <3>1. expRuns \in Seq(RunRow)
      BY DEF ExpIInv
    <3> QED BY <1>3, <1>5, <3>1
  <2>2. RowsMove
    BY <2>1 DEF RowsMove
  <2>3. ASSUME NEW n \in DOMAIN expRuns' PROVE RowMeasures(expRuns[n])'
    <3>1. PICK other : other = expRuns'[n]
      OBVIOUS
    <3>2. other \in RunRow /\ RowMeasures(other)
      <4>1. CASE n \in DOMAIN expRuns
        BY <2>1, <3>1, <4>1, RowFacts
      <4>2. CASE n \notin DOMAIN expRuns
        <5>1. n = Len(expRuns) + 1
          BY <2>1, <2>3, <4>2
        <5> QED BY <1>3, <2>1, <3>1, <5>1
      <4> QED BY <4>1, <4>2
    <3>3. RowMeasures(other)'
      BY <1>1, <2>2, <3>2, RowStays
    <3> QED BY <3>1, <3>3
  <2>4. RowsKept
    BY <2>1, <2>2, <2>3 DEF RowsKept
  <2> QED BY <1>1, <2>4, HostMoves, AtRestMeasures DEF CreateOrGetRun, Works
<1> QED BY <1>2, <1>4, <1>5 DEF CreateOrGetRun

-----------------------------------------------------------------------------
\* Execute.

\* The steps of a process with a run in hand.
Busy == {"index", "record", "advance", "evaluate", "complete", "fail", "cancel"}

LEMMA HostGoesOn ==
    ASSUME ExpIInv, NEW h \in ExpHost, NEW w, expWork' = [expWork EXCEPT ![h] = w], RowsKept, IndexGrows,
           expEnv' = expEnv, expPack' = expPack, WorkMeasures(h, w)
    PROVE  ExpIInv'
<1>1. WorkMeasures(h, w)'
  BY WorkStays DEF RowsKept
<1> QED BY <1>1, HostMoves

\* A run is given up.
LEMMA GivesUp ==
    ASSUME NEW h \in ExpHost, NEW w, WorkMeasures(h, w), w.step \in Busy, NEW t \in {"fail", "cancel"}
    PROVE  WorkMeasures(h, [w EXCEPT !.step = t])
<1>1. "step" \in DOMAIN w /\ {"run", "stage"} \subseteq DOMAIN w /\ w.run \in DOMAIN expRuns
  BY DEF WorkMeasures, Busy
<1>2. PICK new : new = [w EXCEPT !.step = t]
  OBVIOUS
<1>3. DOMAIN new = DOMAIN w /\ new.step = t /\ new.run = w.run
  BY <1>1, <1>2
<1>4. WorkMeasures(h, new)
  BY <1>1, <1>3 DEF WorkMeasures
<1> QED BY <1>2, <1>4

LEMMA WorkFacts ==
    ASSUME ExpIInv, NEW h \in ExpHost
    PROVE  /\ WorkMeasures(h, expWork[h])
           /\ expWork[h].step \in Busy => expWork[h].run \in DOMAIN expRuns
BY DEF ExpIInv, WorkMeasures, Busy

LEMMA AcquireKeeps ==
    ASSUME ExpIInv, NEW h \in ExpHost, NEW n \in DOMAIN expRuns, Acquire(h, n)
    PROVE  ExpIInv'
<1>1. IndexGrows
  BY IndexStays DEF Acquire
<1>2. expRuns[n].status # "completed"
      /\ expRuns' = [expRuns EXCEPT ![n] = [expRuns[n] EXCEPT !.status = "running"]]
  BY DEF Acquire, SetExpRun
<1>3. RowsKept
  BY <1>1, <1>2, StatusKeeps
<1>4. PICK w : w = [step |-> IF Matches(h, n) THEN expRuns[n].stage ELSE "fail", run |-> n, stage |-> expRuns[n].stage]
  OBVIOUS
<1>5. /\ DOMAIN w = {"step", "run", "stage"} /\ w.run = n
      /\ w.step = IF Matches(h, n) THEN expRuns[n].stage ELSE "fail"
  BY <1>4
<1>6. expRuns[n] \in RunRow /\ RowMeasures(expRuns[n])
  BY RowFacts
<1>7. CASE Matches(h, n) /\ expRuns[n].stage = "index"
  <2>1. w.step = "index" /\ expEnv[h] = expRuns[n].env
    BY <1>5, <1>7 DEF Matches
  <2> QED
    <3>1. WorkMeasures(h, w)
      BY <1>5, <2>1 DEF WorkMeasures
    <3> QED BY <1>1, <1>3, <1>4, <3>1, HostGoesOn DEF Acquire, Works
<1>8. CASE Matches(h, n) /\ expRuns[n].stage = "evaluate"
  <2>1. w.step = "evaluate" /\ expEnv[h] = expRuns[n].env /\ Built(expRuns[n])
    BY <1>5, <1>6, <1>8 DEF Matches, RowMeasures
  <2>2. WorkMeasures(h, w)
    BY <1>5, <2>1 DEF WorkMeasures
  <2> QED BY <1>1, <1>3, <1>4, <2>2, HostGoesOn DEF Acquire, Works
<1>9. CASE ~Matches(h, n)
  <2>1. w.step = "fail"
    BY <1>5, <1>9
  <2>2. WorkMeasures(h, w)
    BY <1>5, <2>1 DEF WorkMeasures
  <2> QED BY <1>1, <1>3, <1>4, <2>2, HostGoesOn DEF Acquire, Works
<1>10. expRuns[n].stage \in {"index", "evaluate"}
  BY <1>2, <1>6 DEF RunRow, RowMeasures
<1> QED BY <1>7, <1>8, <1>9, <1>10

LEMMA IndexKeeps ==
    ASSUME ExpIInv, NEW h \in ExpHost, Index(h)
    PROVE  ExpIInv'
<1>1. PICK w : w = expWork[h]
  OBVIOUS
<1>2. w.step = "index" /\ WorkMeasures(h, w)
  BY <1>1, WorkFacts DEF Index
<1>3. w.run \in DOMAIN expRuns /\ expEnv[h] = expRuns[w.run].env
  BY <1>2 DEF WorkMeasures
<1>4. PICK kb \in Variant : kb = expRuns[w.run].def.kb
  BY <1>3, RowFacts
<1>5. expIndex' = [expIndex EXCEPT ![kb] = expIndex[kb] \cup {expEnv[h]}]
  BY <1>1, <1>4 DEF Index
<1>6. IndexGrows /\ expEnv[h] \in expIndex'[kb]
  <2>1. expIndex \in [Variant -> SUBSET Environments] /\ expEnv[h] \in Environments
        /\ \A b \in Variant : IsFiniteSet(expIndex[b])
    BY DEF ExpIInv
  <2>2. IsFiniteSet(expIndex[kb] \cup {expEnv[h]})
    BY <2>1, FS_AddElement
  <2>3. expIndex' \in [Variant -> SUBSET Environments]
        /\ \A b \in Variant : expIndex'[b] = IF b = kb THEN expIndex[kb] \cup {expEnv[h]} ELSE expIndex[b]
    BY <1>5, <2>1
  <2> QED BY <2>1, <2>2, <2>3 DEF IndexGrows
<1>7. expRuns' = expRuns /\ expEnv' = expEnv /\ expPack' = expPack
  BY DEF Index
<1>8. RowsKept
  BY <1>6, <1>7, RowsStay
<1>9. CASE Works(h, [w EXCEPT !.step = "fail"])
  <2>1. WorkMeasures(h, [w EXCEPT !.step = "fail"])
    BY <1>2, GivesUp DEF Busy
  <2>2. PICK new : new = [w EXCEPT !.step = "fail"]
    OBVIOUS
  <2> QED BY <1>6, <1>7, <1>8, <1>9, <2>1, <2>2, HostGoesOn DEF Works
<1>10. ASSUME NEW some \in BOOLEAN, NEW contexts \in BOOLEAN,
              contexts => some /\ expRuns[w.run].def.contextual,
              Works(h, [step |-> "record", run |-> w.run, stage |-> w.stage,
                        stats |-> [chunks |-> some, contexts |-> contexts]])
       PROVE  ExpIInv'
  <2>1. PICK new : new = [step |-> "record", run |-> w.run, stage |-> w.stage,
                          stats |-> [chunks |-> some, contexts |-> contexts]]
    OBVIOUS
  <2>2. /\ DOMAIN new = {"step", "run", "stage", "stats"} /\ new.step = "record" /\ new.run = w.run
        /\ new.stats \in [chunks : BOOLEAN, contexts : BOOLEAN] /\ (new.stats.contexts => contexts)
    BY <2>1
  <2>3. Built(expRuns[w.run])'
    BY <1>3, <1>4, <1>6, <1>7 DEF Built
  <2>4. WorkMeasures(h, new)'
    BY <1>3, <1>7, <1>10, <2>2, <2>3 DEF WorkMeasures
  <2> QED BY <1>6, <1>7, <1>8, <1>10, <2>1, <2>4, HostMoves DEF Works
<1> QED BY <1>1, <1>9, <1>10 DEF Index

\* An update of a run that is still in hand.
LEMMA UpdateKeeps ==
    ASSUME ExpIInv, NEW h \in ExpHost, expWork[h].step \in Busy, NEW n, n = expWork[h].run, NEW row, NEW next,
           Updates(h, row, next), WorkMeasures(h, next),
           expRuns[n].status = "running" /\ expRuns[n].stage = expWork[h].stage =>
              /\ row \in RunRow /\ RowMeasures(row) /\ row.variant = expRuns[n].variant /\ row.def = expRuns[n].def
              /\ row.env = expRuns[n].env /\ row.fingerprint = expRuns[n].fingerprint
    PROVE  ExpIInv'
<1>1. IndexGrows /\ expEnv' = expEnv /\ expPack' = expPack
  BY IndexStays DEF Updates
<1>2. n \in DOMAIN expRuns /\ WorkMeasures(h, expWork[h])
  BY WorkFacts
<1>3. CASE expRuns[n].status = "running" /\ expRuns[n].stage = expWork[h].stage
  <2>1. expRuns' = [expRuns EXCEPT ![n] = row] /\ expWork' = [expWork EXCEPT ![h] = next]
    BY <1>3 DEF Updates, SetExpRun, Works
  <2>2. RowsKept
    BY <1>1, <1>2, <1>3, <2>1, RowChanges
  <2> QED BY <1>1, <2>1, <2>2, HostGoesOn
<1>4. CASE ~(expRuns[n].status = "running" /\ expRuns[n].stage = expWork[h].stage)
  <2>1. expRuns' = expRuns /\ expWork' = [expWork EXCEPT ![h] = [expWork[h] EXCEPT !.step = "cancel"]]
    BY <1>4 DEF Updates, Works
  <2>2. RowsKept
    BY <1>1, <2>1, RowsStay
  <2>3. PICK w : w = expWork[h]
    OBVIOUS
  <2>4. PICK new : new = [w EXCEPT !.step = "cancel"]
    OBVIOUS
  <2>5. WorkMeasures(h, new)
    BY <1>2, <2>3, <2>4, GivesUp
  <2> QED BY <1>1, <2>1, <2>2, <2>3, <2>4, <2>5, HostGoesOn
<1> QED BY <1>3, <1>4

LEMMA RestWorks ==
    ASSUME NEW h \in ExpHost
    PROVE  WorkMeasures(h, AtRest)
BY DEF WorkMeasures, AtRest

LEMMA RecordKeeps ==
    ASSUME ExpIInv, NEW h \in ExpHost, RecordIndexStats(h)
    PROVE  ExpIInv'
<1>1. PICK w : w = expWork[h]
  OBVIOUS
<1>2. w.step = "record" /\ WorkMeasures(h, w)
  BY <1>1, WorkFacts DEF RecordIndexStats
<1>3. PICK n \in DOMAIN expRuns : n = w.run
  BY <1>2 DEF WorkMeasures
<1>4. /\ expEnv[h] = expRuns[n].env /\ Built(expRuns[n]) /\ w.stats \in [chunks : BOOLEAN, contexts : BOOLEAN]
      /\ w.stats.contexts => expRuns[n].def.contextual
  BY <1>2, <1>3 DEF WorkMeasures
<1>5. PICK old : old = expRuns[n]
  OBVIOUS
<1>6. old \in RunRow /\ RowMeasures(old) /\ old.env = expEnv[h] /\ (w.stats.contexts => old.def.contextual)
  BY <1>4, <1>5, RowFacts
<1>7. PICK row : row = [old EXCEPT !.stats = w.stats, !.indexEnv = {expEnv[h]}]
  OBVIOUS
<1>8. expEnv[h] \in Environments
  BY DEF ExpIInv
<1>9. /\ row \in RunRow /\ row.stats = w.stats /\ row.indexEnv = {expEnv[h]} /\ row.variant = old.variant
      /\ row.def = old.def /\ row.env = old.env /\ row.fingerprint = old.fingerprint /\ row.evalEnv = old.evalEnv
      /\ row.kbEnv = old.kbEnv /\ row.stage = old.stage /\ row.status = old.status /\ row.baseline = old.baseline
  BY <1>4, <1>6, <1>7, <1>8 DEF RunRow
<1>10. RowMeasures(row)
  BY <1>6, <1>9 DEF RowMeasures, Based, Built
<1>11. PICK next : next = [step |-> "advance", run |-> w.run, stage |-> w.stage]
  OBVIOUS
<1>12. DOMAIN next = {"step", "run", "stage"} /\ next.step = "advance" /\ next.run = n
  BY <1>3, <1>11
<1>13. WorkMeasures(h, next)
  BY <1>4, <1>12 DEF WorkMeasures
<1>14. Updates(h, row, next)
  BY <1>1, <1>3, <1>5, <1>7, <1>11 DEF RecordIndexStats
<1>15. expWork[h].step \in Busy /\ n = expWork[h].run
  BY <1>1, <1>2, <1>3 DEF Busy
<1> QED BY <1>5, <1>9, <1>10, <1>13, <1>14, <1>15, UpdateKeeps

LEMMA AdvanceKeeps ==
    ASSUME ExpIInv, NEW h \in ExpHost, AdvanceRun(h)
    PROVE  ExpIInv'
<1>1. PICK w : w = expWork[h]
  OBVIOUS
<1>2. w.step = "advance" /\ WorkMeasures(h, w)
  BY <1>1, WorkFacts DEF AdvanceRun
<1>3. PICK n \in DOMAIN expRuns : n = w.run
  BY <1>2 DEF WorkMeasures
<1>4. Built(expRuns[n])
  BY <1>2, <1>3 DEF WorkMeasures
<1>5. PICK old : old = expRuns[n]
  OBVIOUS
<1>6. old \in RunRow /\ RowMeasures(old) /\ Built(old)
  BY <1>4, <1>5, RowFacts
<1>7. PICK row : row = [old EXCEPT !.stage = "evaluate", !.status = "queued"]
  OBVIOUS
<1>8. /\ row \in RunRow /\ row.stage = "evaluate" /\ row.status = "queued" /\ row.variant = old.variant
      /\ row.def = old.def /\ row.env = old.env /\ row.fingerprint = old.fingerprint /\ row.evalEnv = old.evalEnv
      /\ row.kbEnv = old.kbEnv /\ row.indexEnv = old.indexEnv /\ row.stats = old.stats /\ row.baseline = old.baseline
  BY <1>6, <1>7 DEF RunRow
<1>9. RowMeasures(row)
  BY <1>6, <1>8 DEF RowMeasures, Based, Built
<1>10. Updates(h, row, AtRest)
  BY <1>1, <1>3, <1>5, <1>7 DEF AdvanceRun
<1>11. expWork[h].step \in Busy /\ n = expWork[h].run
  BY <1>1, <1>2, <1>3 DEF Busy
<1>12. PICK next : next = AtRest
  OBVIOUS
<1>13. WorkMeasures(h, next) /\ Updates(h, row, next)
  BY <1>10, <1>12, RestWorks
<1> QED BY <1>5, <1>8, <1>9, <1>11, <1>13, UpdateKeeps

LEMMA EvaluateKeeps ==
    ASSUME ExpIInv, NEW h \in ExpHost, EvaluateRun(h)
    PROVE  ExpIInv'
<1>1. IndexGrows /\ RowsKept /\ expEnv' = expEnv /\ expPack' = expPack
  BY IndexStays, RowsStay DEF EvaluateRun
<1>2. PICK w : w = expWork[h]
  OBVIOUS
<1>3. w.step = "evaluate" /\ WorkMeasures(h, w)
  BY <1>2, WorkFacts DEF EvaluateRun
<1>4. w.run \in DOMAIN expRuns /\ expEnv[h] = expRuns[w.run].env /\ Built(expRuns[w.run])
  BY <1>3 DEF WorkMeasures
<1>5. CASE Works(h, [w EXCEPT !.step = "fail"])
  <2>1. PICK new : new = [w EXCEPT !.step = "fail"]
    OBVIOUS
  <2>2. WorkMeasures(h, new)
    BY <1>3, <2>1, GivesUp DEF Busy
  <2> QED BY <1>1, <1>5, <2>1, <2>2, HostGoesOn DEF Works
<1>6. CASE Works(h, [step |-> "complete", run |-> w.run, stage |-> w.stage, seen |-> expIndex[expRuns[w.run].def.kb]])
  <2>1. PICK new : new = [step |-> "complete", run |-> w.run, stage |-> w.stage, seen |-> expIndex[expRuns[w.run].def.kb]]
    OBVIOUS
  <2>2. DOMAIN new = {"step", "run", "stage", "seen"} /\ new.step = "complete" /\ new.run = w.run
        /\ new.seen = expIndex[expRuns[w.run].def.kb]
    BY <2>1
  <2>3. expRuns[w.run].def.kb \in Variant
    BY <1>4, RowFacts
  <2>4. new.seen \in SUBSET Environments /\ IsFiniteSet(new.seen)
    BY <2>2, <2>3 DEF ExpIInv
  <2>5. expRuns[w.run].env \in new.seen
    BY <1>4, <2>2 DEF Built
  <2>6. WorkMeasures(h, new)
    BY <1>4, <2>2, <2>4, <2>5 DEF WorkMeasures
  <2> QED BY <1>1, <1>6, <2>1, <2>6, HostGoesOn DEF Works
<1> QED BY <1>2, <1>5, <1>6 DEF EvaluateRun

LEMMA CompleteKeeps ==
    ASSUME ExpIInv, NEW h \in ExpHost, CompleteRun(h)
    PROVE  ExpIInv'
<1>1. PICK w : w = expWork[h]
  OBVIOUS
<1>2. w.step = "complete" /\ WorkMeasures(h, w)
  BY <1>1, WorkFacts DEF CompleteRun
<1>3. PICK n \in DOMAIN expRuns : n = w.run
  BY <1>2 DEF WorkMeasures
<1>4. /\ expEnv[h] = expRuns[n].env /\ Built(expRuns[n]) /\ w.seen \in SUBSET Environments /\ IsFiniteSet(w.seen)
      /\ expRuns[n].env \in w.seen
  BY <1>2, <1>3 DEF WorkMeasures
<1>5. PICK old : old = expRuns[n]
  OBVIOUS
<1>6. /\ old \in RunRow /\ RowMeasures(old) /\ old.env = expEnv[h] /\ Built(old) /\ old.env \in w.seen
  BY <1>4, <1>5, RowFacts
<1>7. PICK done \in Nat : done = CompletedSoFar + 1
  <2>1. DOMAIN expRuns = 1..Len(expRuns) /\ Len(expRuns) \in Nat
    BY <1>3, RowFacts
  <2>2. IsFiniteSet(1..Len(expRuns))
    BY <2>1, FS_Interval
  <2>3. IsFiniteSet({k \in DOMAIN expRuns : expRuns[k].status = "completed"})
    BY <2>1, <2>2, FS_Subset
  <2>4. CompletedSoFar \in Nat
    BY <2>3, FS_CardinalityType DEF CompletedSoFar
  <2> QED BY <2>4
<1>8. PICK row : row = [old EXCEPT !.stage = "completed", !.status = "completed", !.evalEnv = {expEnv[h]},
                                   !.kbEnv = w.seen, !.done = done]
  OBVIOUS
<1>9. expEnv[h] \in Environments
  BY DEF ExpIInv
<1>10. /\ row \in RunRow /\ row.status = "completed" /\ row.evalEnv = {expEnv[h]} /\ row.kbEnv = w.seen
       /\ row.variant = old.variant /\ row.def = old.def /\ row.env = old.env /\ row.fingerprint = old.fingerprint
       /\ row.stage = "completed" /\ row.indexEnv = old.indexEnv /\ row.stats = old.stats /\ row.baseline = old.baseline
  BY <1>4, <1>6, <1>8, <1>9 DEF RunRow
<1>11. RowMeasures(row)
  BY <1>4, <1>6, <1>10 DEF RowMeasures, Based, Built
<1>12. PICK next : next = AtRest
  OBVIOUS
<1>13. WorkMeasures(h, next) /\ Updates(h, row, next)
  BY <1>1, <1>3, <1>5, <1>7, <1>8, <1>12, RestWorks DEF CompleteRun
<1>14. expWork[h].step \in Busy /\ n = expWork[h].run
  BY <1>1, <1>2, <1>3 DEF Busy
<1> QED BY <1>5, <1>10, <1>11, <1>13, <1>14, UpdateKeeps

LEMMA FailKeeps ==
    ASSUME ExpIInv, NEW h \in ExpHost, FailRun(h)
    PROVE  ExpIInv'
<1>1. PICK n \in DOMAIN expRuns : n = expWork[h].run /\ expWork[h].step \in Busy
  BY WorkFacts DEF FailRun, Busy
<1>2. PICK old : old = expRuns[n]
  OBVIOUS
<1>3. old \in RunRow /\ RowMeasures(old)
  BY <1>2, RowFacts
<1>4. PICK row : row = [old EXCEPT !.status = "failed"]
  OBVIOUS
<1>5. old.status # "completed" =>
        /\ row \in RunRow /\ RowMeasures(row) /\ row.variant = old.variant /\ row.def = old.def /\ row.env = old.env
        /\ row.fingerprint = old.fingerprint
  BY <1>3, <1>4, StatusChanges
<1>6. PICK next : next = AtRest
  OBVIOUS
<1>7. WorkMeasures(h, next) /\ Updates(h, row, next)
  BY <1>1, <1>2, <1>4, <1>6, RestWorks DEF FailRun
<1> QED BY <1>1, <1>2, <1>5, <1>7, UpdateKeeps

LEMMA MarkKeeps ==
    ASSUME ExpIInv, NEW h \in ExpHost, MarkCancelled(h)
    PROVE  ExpIInv'
<1>1. PICK n \in DOMAIN expRuns : n = expWork[h].run
  BY WorkFacts DEF MarkCancelled, Busy
<1>2. IndexGrows /\ expEnv' = expEnv /\ expPack' = expPack /\ expWork' = [expWork EXCEPT ![h] = AtRest]
  BY IndexStays DEF MarkCancelled, Works
<1>3. RowsKept
  <2>1. CASE expRuns[n].status = "cancel_requested"
    <3>1. expRuns' = [expRuns EXCEPT ![n] = [expRuns[n] EXCEPT !.status = "cancelled"]]
      BY <1>1, <2>1 DEF MarkCancelled, SetExpRun
    <3> QED BY <1>2, <2>1, <3>1, StatusKeeps
  <2>2. CASE expRuns[n].status # "cancel_requested"
    BY <1>1, <1>2, <2>2, RowsStay DEF MarkCancelled
  <2> QED BY <2>1, <2>2
<1>4. PICK w : w = AtRest
  OBVIOUS
<1> QED BY <1>2, <1>3, <1>4, RestWorks, HostGoesOn

LEMMA StatementKeeps ==
    ASSUME ExpIInv, NEW h \in ExpHost, StatementFails(h)
    PROVE  ExpIInv'
<1>1. IndexGrows /\ RowsKept /\ expEnv' = expEnv /\ expPack' = expPack
  BY IndexStays, RowsStay DEF StatementFails
<1>2. CASE expWork[h].step \in {"index", "record"}
  <2>1. expWork[h].run \in DOMAIN expRuns
    BY <1>2, WorkFacts DEF Busy
  <2>2. PICK w : w = [step |-> "fail", run |-> expWork[h].run, stage |-> expWork[h].stage]
    OBVIOUS
  <2>3. DOMAIN w = {"step", "run", "stage"} /\ w.step = "fail" /\ w.run \in DOMAIN expRuns
    BY <2>1, <2>2
  <2>4. WorkMeasures(h, w)
    BY <2>3 DEF WorkMeasures
  <2> QED BY <1>1, <1>2, <2>2, <2>4, HostGoesOn DEF StatementFails, Works
<1>3. CASE expWork[h].step \notin {"index", "record"}
  <2>1. PICK w : w = AtRest
    OBVIOUS
  <2> QED BY <1>1, <1>3, <2>1, RestWorks, HostGoesOn DEF StatementFails, Works
<1> QED BY <1>2, <1>3

-----------------------------------------------------------------------------
LEMMA ExpInitial == ExpInit => ExpIInv
<1> SUFFICES ASSUME ExpInit PROVE ExpIInv
  OBVIOUS
<1>1. expEnv \in [ExpHost -> Environments] /\ expPack = {}
  BY DEF ExpInit, Environments
<1>2. expRuns \in Seq(RunRow) /\ DOMAIN expRuns = {}
  BY DEF ExpInit
<1>3. expIndex \in [Variant -> SUBSET Environments] /\ \A kb \in Variant : IsFiniteSet(expIndex[kb])
  BY FS_EmptySet DEF ExpInit, Variant
<1>4. DOMAIN expWork = ExpHost /\ \A h \in ExpHost : WorkMeasures(h, expWork[h])
  BY RestWorks DEF ExpInit
<1> QED BY <1>1, <1>2, <1>3, <1>4 DEF ExpIInv

LEMMA ExpInductive == ExpIInv /\ [ExpNext]_experimentVars => ExpIInv'
<1> SUFFICES ASSUME ExpIInv, [ExpNext]_experimentVars PROVE ExpIInv'
  OBVIOUS
<1>1. ASSUME NEW pack \in OfferedPack, InstallPack(pack) PROVE ExpIInv'
  BY <1>1, InstallPackKeeps
<1>2. ASSUME NEW n \in DOMAIN expRuns, CancelRun(n) PROVE ExpIInv'
  BY <1>2, CancelKeeps
<1>3. ASSUME NEW h \in ExpHost, NEW v \in {"baseline"} \cup DOMAIN Canonical, NEW key \in ExpKey, StartVariant(h, v, key)
      PROVE  ExpIInv'
  <2>1. v \in Variant
    BY DEF Variant
  <2> QED BY <1>3, <2>1, StartKeeps
<1>4. ASSUME NEW h \in ExpHost, NEW n \in DOMAIN expRuns, Acquire(h, n) PROVE ExpIInv'
  BY <1>4, AcquireKeeps
<1>5. ASSUME NEW h \in ExpHost,
             RestartHost(h) \/ CreateOrGetRun(h) \/ Index(h) \/ RecordIndexStats(h) \/ AdvanceRun(h)
             \/ EvaluateRun(h) \/ CompleteRun(h) \/ FailRun(h) \/ MarkCancelled(h) \/ StatementFails(h)
      PROVE  ExpIInv'
  BY <1>5, RestartKeeps, CreateKeeps, IndexKeeps, RecordKeeps, AdvanceKeeps, EvaluateKeeps, CompleteKeeps, FailKeeps,
     MarkKeeps, StatementKeeps
<1>6. CASE UNCHANGED experimentVars
  <2>1. expEnv' = expEnv /\ expPack' = expPack /\ expRuns' = expRuns /\ expIndex' = expIndex /\ expWork' = expWork
    BY <1>6 DEF experimentVars
  <2>2. IndexGrows /\ RowsKept
    BY <2>1, IndexStays, RowsStay
  <2>3. /\ expEnv' \in [ExpHost -> Environments] /\ DOMAIN expWork' = ExpHost /\ expPack' \in SUBSET OfferedPack
        /\ \A p \in expPack' : ValidPack(p)
    BY <2>1 DEF ExpIInv
  <2> QED BY <2>1, <2>2, <2>3, AllStand
<1> QED BY <1>1, <1>2, <1>3, <1>4, <1>5, <1>6 DEF ExpNext

\* What the invariant says of a candidate that was completed and its baseline.
LEMMA FairFactor == ExpIInv => OneFactor
<1> SUFFICES ASSUME ExpIInv, NEW b \in DOMAIN expRuns, NEW n \in DOMAIN expRuns, RunsComparable(b, n)
             PROVE  LET both(f) == expRuns[b][f] \cup expRuns[n][f]
                    IN  /\ Cardinality(both("indexEnv") \cup both("evalEnv")) = 1
                        /\ Cardinality(both("kbEnv")) = 1 => both("kbEnv") = both("evalEnv")
                        /\ Cardinality(ChangedFactors(b, n)) = 1
  BY DEF OneFactor
<1>1. PICK prior, row : prior = expRuns[b] /\ row = expRuns[n]
  OBVIOUS
<1>2. prior \in RunRow /\ RowMeasures(prior) /\ row \in RunRow /\ RowMeasures(row)
  BY <1>1, RowFacts
<1>3. /\ prior.status = "completed" /\ row.status = "completed" /\ prior.variant = "baseline"
      /\ row.variant \in DOMAIN Canonical /\ prior.env = row.env
  BY <1>1 DEF RunsComparable, IsComparableCandidate
<1>4. PICK e : e = row.env
  OBVIOUS
<1>5. /\ prior.evalEnv = {e} /\ row.evalEnv = {e} /\ prior.indexEnv \subseteq {e} /\ row.indexEnv \subseteq {e}
      /\ e \in prior.kbEnv /\ e \in row.kbEnv /\ IsFiniteSet(prior.kbEnv) /\ IsFiniteSet(row.kbEnv)
  BY <1>2, <1>3, <1>4 DEF RowMeasures
<1>6. Cardinality((prior.indexEnv \cup row.indexEnv) \cup (prior.evalEnv \cup row.evalEnv)) = 1
  <2>1. (prior.indexEnv \cup row.indexEnv) \cup (prior.evalEnv \cup row.evalEnv) = {e}
    BY <1>5
  <2> QED BY <2>1, FS_Singleton
<1>7. ASSUME Cardinality(prior.kbEnv \cup row.kbEnv) = 1 PROVE prior.kbEnv \cup row.kbEnv = prior.evalEnv \cup row.evalEnv
  <2>1. IsFiniteSet(prior.kbEnv \cup row.kbEnv)
    BY <1>5, FS_Union
  <2>2. \E x : prior.kbEnv \cup row.kbEnv = {x}
    BY <1>7, <2>1, FS_Singleton
  <2> QED BY <1>5, <2>2
<1>8. Cardinality(ChangedFactors(b, n)) = 1
  <2>1. PICK d, c : d = row.def /\ c = ComparableDefinition(row.variant)
    OBVIOUS
  <2>2. d = DefOf(row.variant) /\ prior.def = BaselineDefinition
    BY <1>2, <1>3, <2>1, Definitions DEF RowMeasures
  <2>3. PICK v \in DOMAIN Canonical : v = row.variant
    BY <1>3
  <2>4. d = DefOf(v) /\ c = ComparableDefinition(v)
    BY <2>1, <2>2, <2>3
  <2>5. PICK own \in Factors : DiffersIn(d, own)
    BY ONLY <2>3, <2>4, TablesAgree
  <2>6. ChangedFactors(b, n) = {factor \in Factors : \E f \in factor : BaselineDefinition[f] # d[f]}
    BY <1>1, <2>1, <2>2 DEF ChangedFactors
  <2>7. ChangedFactors(b, n) = {own}
    BY ONLY <2>5, <2>6 DEF DiffersIn
  <2> QED BY <2>7, FS_Singleton
<1> QED BY <1>1, <1>6, <1>7, <1>8

LEMMA FairTables == ExpIInv => CandidateIsComparable
<1> SUFFICES ASSUME ExpIInv, NEW n \in DOMAIN expRuns, expRuns[n].status = "completed",
                    expRuns[n].variant # "baseline", expRuns[n].stats.chunks,
                    expRuns[expRuns[n].baseline].stats.chunks, expRuns[n].variant = "p3" => expRuns[n].stats.contexts
             PROVE  RunsComparable(expRuns[n].baseline, n)
  BY DEF CandidateIsComparable
<1>1. PICK row : row = expRuns[n]
  OBVIOUS
<1>2. row \in RunRow /\ RowMeasures(row)
  BY <1>1, RowFacts
<1>3. PICK b \in DOMAIN expRuns : b = row.baseline /\ Based(row)
  BY <1>1, <1>2 DEF RowMeasures, Based
<1>4. PICK prior : prior = expRuns[b]
  OBVIOUS
<1>5. prior \in RunRow /\ RowMeasures(prior)
  BY <1>4, RowFacts
<1>6. prior.variant = "baseline" /\ prior.status = "completed" /\ prior.fingerprint = row.fingerprint
  BY <1>3, <1>4 DEF Based
<1>7. {prior.env} = {row.env}
  BY <1>2, <1>5, <1>6 DEF RowMeasures
<1>8. prior.def = BaselineDefinition /\ row.def = DefOf(row.variant)
  BY <1>2, <1>5, <1>6, Definitions DEF RowMeasures
<1>9. ~prior.stats.contexts
  BY <1>5, <1>8, Definitions DEF RowMeasures
<1>10. PICK v \in DOMAIN Canonical : v = row.variant
  BY <1>1, <1>2 DEF RunRow, Variant
<1>11. PICK d, c : d = DefOf(v) /\ c = ComparableDefinition(v)
  OBVIOUS
<1>12. (\A f \in Columns : d[f] = c[f]) /\ d.kb = (IF v \in Reusing THEN "baseline" ELSE v)
  BY ONLY <1>10, <1>11, TablesAgree
<1>13. row.def = d /\ ComparableDefinition(row.variant) = c
  BY <1>8, <1>10, <1>11
<1>14. IsComparableCandidate(row)
  BY <1>1, <1>10, <1>12, <1>13 DEF IsComparableCandidate
<1>15. RightBase(prior, row)
  <2>1. prior.def.kb = "baseline"
    BY <1>8, Definitions
  <2>2. row.variant \in Reusing => row.def.kb = "baseline"
    BY <1>10, <1>12, <1>13
  <2>3. row.variant = "p7" => row.def.kb = "p7"
    BY <1>10, <1>12, <1>13 DEF Reusing
  <2> QED BY <2>1, <2>2, <2>3 DEF RightBase, Reusing
<1> QED BY <1>1, <1>3, <1>4, <1>6, <1>7, <1>8, <1>9, <1>14, <1>15 DEF RunsComparable

\* Two runs that are called comparable were measured in one environment and
\* differ in one factor, and every candidate that was accepted is comparable
\* with its baseline: for any packs, processes, environments, restarts and
\* failures, whoever takes a run over from whom (StartVariant, Execute,
\* runsComparable).
THEOREM ComparisonsAreFair == ExpSpec => []ComparisonIsFair
<1>1. ExpIInv => ComparisonIsFair
  BY FairFactor, FairTables DEF ComparisonIsFair
<1> QED BY <1>1, ExpInitial, ExpInductive, PTL DEF ExpSpec
=============================================================================
