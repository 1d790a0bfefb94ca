--------------------------- MODULE ReleaseLifecycle ---------------------------
(***************************************************************************)
(* The release lifecycle of one project: immutable pipeline versions,      *)
(* evaluation evidence, the three environments, the release history and    *)
(* the queries that resolve the production environment.                    *)
(*                                                                         *)
(* Activate, Promote and Rollback read the environments and the evidence   *)
(* with separate statements and then commit with a compare-and-swap on the *)
(* revision of the target environment alone.  Each such request is a small *)
(* process here, with one step per read that can meet different data.  A   *)
(* request the code refuses changes nothing, so a request only enters with *)
(* what its first read accepts, and leaves when a later read refuses it.   *)
(*                                                                         *)
(* An evaluation run is abstracted to what Freeze computes from it: whether*)
(* its metrics pass every gate of the policy.                              *)
(***************************************************************************)
EXTENDS Integers, Sequences, FiniteSets

CONSTANTS
    Version,      \* version identifiers
    NoVersion,    \* no active version (the empty identifier)
    EvalRun,      \* completed evaluation runs of the policy's project and dataset
    PassingRun,   \* those whose metrics pass every gate
    NoRun,        \* evidence without a run (manual validation)
    Request,      \* release requests in flight
    Query,        \* production queries in flight
    Unbound,      \* environments still without a binding when the model starts
    MaxReleases,  \* bound of the model: committed releases
    MaxEvidence   \* bound of the model: writes of release evidence

ASSUME ReleaseAssumption ==
    /\ NoVersion \notin Version
    /\ NoRun \notin EvalRun
    /\ PassingRun \subseteq EvalRun
    /\ MaxReleases \in Nat /\ MaxEvidence \in Nat

Environment == {"development", "staging", "production"}

VARIABLES
    version,     \* pipeline_versions
    evidence,    \* project_release_validations
    saves,       \* evidence writes so far
    env,         \* project_environments, with the binding
    releases,    \* project_releases in commit order, each with the version it replaced (history)
    request,     \* release requests in flight
    query,       \* production queries in flight
    everPassed   \* history: version, environment and run of all evidence that passed

releaseVars == <<version, evidence, saves, env, releases, request, query, everPassed>>

-----------------------------------------------------------------------------

\* A version is frozen from a draft, or registered by hand with a content hash
\* and without a definition.
VersionRow == {"absent", "frozen", "manual"}

NoEvidence == [passed |-> FALSE, run |-> NoRun]
EvidenceRow == [passed : BOOLEAN, run : EvalRun \cup {NoRun}]

EnvironmentRow == [active : Version \cup {NoVersion}, release : Nat, revision : Nat, bound : BOOLEAN]

\* The memory repository's environments start bound, those of PostgreSQL are
\* bound by Bind.
NewEnvironment(bound) == [active |-> NoVersion, release |-> 0, revision |-> 0, bound |-> bound]

Idle == [action |-> "idle", step |-> "idle", target |-> NoVersion, from |-> "development",
         to |-> "development", expected |-> NoVersion, revision |-> 0]

NoQuery == [step |-> "idle", version |-> NoVersion, release |-> 0, run |-> NoRun]

ReleaseInit ==
    /\ version = [v \in Version |-> "absent"]
    /\ evidence = [v \in Version |-> [e \in Environment |-> NoEvidence]]
    /\ saves = 0
    /\ env = [e \in Environment |-> NewEnvironment(e \notin Unbound)]
    /\ releases = <<>>
    /\ request = [q \in Request |-> Idle]
    /\ query = [q \in Query |-> NoQuery]
    /\ everPassed = {}

-----------------------------------------------------------------------------
(***************************************************************************)
(* Versions, evidence and bindings                                         *)
(***************************************************************************)

\* A version is inserted once; a second insert is a conflict.
CreateVersion(v, kind) ==
    /\ version[v] = "absent"
    /\ version' = [version EXCEPT ![v] = kind]
    /\ UNCHANGED <<evidence, saves, env, releases, request, query, everPassed>>

\* SaveEvidence overwrites the row of the version and environment.
SaveEvidence(v, e, row) ==
    /\ saves < MaxEvidence
    /\ saves' = saves + 1
    /\ evidence' = [evidence EXCEPT ![v][e] = row]
    /\ everPassed' = IF row.passed THEN everPassed \cup {<<v, e, row.run>>} ELSE everPassed
    /\ UNCHANGED <<version, env, releases, request, query>>

\* Draft versions are only validated from a completed evaluation.
ManuallyValidated(v) == version[v] = "manual"

\* The handler validatePipelineVersion: the client says whether the version
\* passed and repeats its content hash.
validatePipelineVersion(v, e, passed) ==
    /\ ManuallyValidated(v)
    /\ SaveEvidence(v, e, [passed |-> passed, run |-> NoRun])

\* Freeze: passed when every gate's metric is present and within its bound.
Freeze(r) == r \in PassingRun

\* The handler recordProjectEvaluationEvidence: the result is derived from the
\* stored run and recorded twice, as append-only policy evidence and as the
\* release evidence.  Runs and versions are immutable and nothing reads the
\* policy evidence back, so the second write is the step; when it fails the
\* first stays without it.
RecordEvidence(v, e, r) ==
    /\ version[v] # "absent"
    /\ SaveEvidence(v, e, [passed |-> Freeze(r), run |-> r])

\* A second Bind replaces the reference, which no response shows.
Bind(e) ==
    /\ ~env[e].bound
    /\ env' = [env EXCEPT ![e].bound = TRUE]
    /\ UNCHANGED <<version, evidence, saves, releases, request, query, everPassed>>

-----------------------------------------------------------------------------
(***************************************************************************)
(* Release requests                                                        *)
(***************************************************************************)

Continue(q, rec) ==
    /\ request' = [request EXCEPT ![q] = rec]
    /\ UNCHANGED <<version, evidence, saves, env, releases, query, everPassed>>

\* A request enters while it may still be committed within the bound.
MayBegin(q) == request[q].step = "idle" /\ Len(releases) < MaxReleases

validPromotion(from, to) ==
    <<from, to>> \in {<<"development", "staging">>, <<"staging", "production">>}

\* Promote reads the source environment first: it must be active on v.
PromoteReadsSource(q, from, to, v) ==
    /\ MayBegin(q)
    /\ validPromotion(from, to)
    /\ env[from].active = v
    /\ Continue(q, [Idle EXCEPT !.action = "promote", !.step = "target", !.target = v,
                                !.from = from, !.to = to])

\* The request as it goes on after its read of the target environment: the
\* version the caller expected was the active one.
AfterTarget(rq) ==
    [rq EXCEPT !.step = "evidence", !.expected = env[rq.to].active,
               !.revision = env[rq.to].revision]

\* Then the target; definition and binding are required.
PromoteReadsTarget(q) ==
    /\ request[q].step = "target"
    /\ Continue(q, IF version[request[q].target] = "frozen" /\ env[request[q].to].bound
                   THEN AfterTarget(request[q]) ELSE Idle)

ActivateReads(q, v) ==
    /\ MayBegin(q)
    /\ version[v] = "frozen"
    /\ env["development"].bound
    /\ Continue(q, AfterTarget([Idle EXCEPT !.action = "activate", !.target = v]))

\* Rollback asks for neither a pipeline nor a definition.
RollbackReads(q, e, v) ==
    /\ MayBegin(q)
    /\ version[v] # "absent"
    /\ env[e].active # v
    /\ env[e].bound
    /\ Continue(q, AfterTarget([Idle EXCEPT !.action = "rollback", !.target = v,
                                            !.from = e, !.to = e]))

\* Mutant: the evidence of the environment the version comes from.
GateOfSource(rq) == evidence[rq.target][rq.from].passed

\* Evidence, or PreviouslyValidated, for the target environment.  The hash was
\* compared when the evidence was saved, and versions are immutable.
Gate(rq) == evidence[rq.target][rq.to].passed

ReadEvidence(q) ==
    /\ request[q].step = "evidence"
    /\ Continue(q, IF Gate(request[q]) THEN [request[q] EXCEPT !.step = "commit"] ELSE Idle)

\* Mutant: the environment is written whatever its revision.
UncheckedRevision(rq) == TRUE

\* Commit's UPDATE ... WHERE revision = the revision that was read.
RevisionUnchanged(rq) == env[rq.to].revision = rq.revision

MovedPointer(rq) ==
    [env EXCEPT ![rq.to] = [@ EXCEPT !.active = rq.target, !.revision = rq.revision + 1,
                                     !.release = Len(releases) + 1]]

\* One transaction: the pointer moves and the record is appended, or it is a
\* conflict and nothing happens.
Commit(q) ==
    LET rq == request[q]
    IN  /\ rq.step = "commit"
        /\ Len(releases) < MaxReleases
        /\ IF RevisionUnchanged(rq)
           THEN /\ env' = MovedPointer(rq)
                /\ releases' = Append(releases, [action |-> rq.action, to |-> rq.to,
                                        target |-> rq.target, expected |-> rq.expected])
           ELSE UNCHANGED <<env, releases>>
        /\ request' = [request EXCEPT ![q] = Idle]
        /\ UNCHANGED <<version, evidence, saves, query, everPassed>>

-----------------------------------------------------------------------------
(***************************************************************************)
(* Production queries                                                      *)
(***************************************************************************)

\* The environment row gives the version and the release together.
QueryEnvironment(q) ==
    /\ query[q].step = "idle"
    /\ env["production"].active # NoVersion
    /\ query' = [query EXCEPT ![q] = [@ EXCEPT !.step = "resolved",
                    !.version = env["production"].active, !.release = env["production"].release]]
    /\ UNCHANGED <<version, evidence, saves, env, releases, request, everPassed>>

\* The frozen definition is compiled and the evidence is read; without a
\* definition the query fails.
QueryRun(q) ==
    /\ query[q].step = "resolved"
    /\ query' = [query EXCEPT ![q] =
                    IF version[query[q].version] = "frozen"
                    THEN [@ EXCEPT !.step = "answered",
                                   !.run = evidence[query[q].version]["production"].run]
                    ELSE NoQuery]
    /\ UNCHANGED <<version, evidence, saves, env, releases, request, everPassed>>

-----------------------------------------------------------------------------

EvidenceStep ==
    \/ \E v \in Version, kind \in VersionRow \ {"absent"} : CreateVersion(v, kind)
    \/ \E v \in Version, e \in Environment :
         \/ \E passed \in BOOLEAN : validatePipelineVersion(v, e, passed)
         \/ \E r \in EvalRun : RecordEvidence(v, e, r)
    \/ \E e \in Environment : Bind(e)

RequestStep ==
    \E q \in Request :
        \/ \E v \in Version :
             \/ \E from, to \in Environment : PromoteReadsSource(q, from, to, v)
             \/ ActivateReads(q, v)
             \/ \E e \in Environment : RollbackReads(q, e, v)
        \/ PromoteReadsTarget(q) \/ ReadEvidence(q) \/ Commit(q)

QueryStep == \E q \in Query : QueryEnvironment(q) \/ QueryRun(q)

ReleaseNext == EvidenceStep \/ RequestStep \/ QueryStep

ReleaseSpec == ReleaseInit /\ [][ReleaseNext]_releaseVars

-----------------------------------------------------------------------------
(***************************************************************************)
(* Properties                                                              *)
(***************************************************************************)

\* The places of the environment's records in the history, and the version the
\* last of some records put into place.
CommittedTo(e) == {i \in 1..Len(releases) : releases[i].to = e}

LastTarget(records) ==
    IF records = {} THEN NoVersion
    ELSE releases[CHOOSE i \in records : \A j \in records : j <= i].target

\* "optimistic concurrency": every commit replaces exactly the version its
\* caller expected, so the records of an environment form a chain that ends in
\* the active version, however the requests interleave.
HistoryChained ==
    \A e \in Environment :
        /\ env[e].revision = Cardinality(CommittedTo(e))
        /\ env[e].active = LastTarget(CommittedTo(e))
        /\ \A i \in CommittedTo(e) :
              releases[i].expected = LastTarget({j \in CommittedTo(e) : j < i})

\* A promotion is ordered: its version had been active in the environment
\* before the target when the record was committed.  This is said of
\* promotions only: a rollback names any version that has passing evidence.
PromotedThroughSource ==
    \A i \in 1..Len(releases) :
        releases[i].action = "promote" =>
            \E j \in 1..(i - 1) :
                /\ releases[j].target = releases[i].target
                /\ <<releases[j].to, releases[i].to>> \in
                     {<<"development", "staging">>, <<"staging", "production">>}

\* Activations and promotions release frozen definitions.  A version without
\* one, registered by hand, gets into an environment by a rollback alone.
ReleasedIsFrozen ==
    \A i \in 1..Len(releases) : releases[i].action # "rollback" => version[releases[i].target] = "frozen"

WasValidated(v, e) == \E r \in EvalRun \cup {NoRun} : <<v, e, r>> \in everPassed

\* Whatever the action, a version is released to an environment after evidence
\* for that environment passed, although evidence may be overwritten between
\* the read and the commit.  Of a version registered by hand the evidence may
\* be the client's word (validatePipelineVersion).
ReleasedWasValidated == \A i \in 1..Len(releases) : WasValidated(releases[i].target, releases[i].to)

\* All passing evidence a frozen version ever had was derived by the server
\* from a stored evaluation run that met the gates of the policy.
EvidenceIsDerived ==
    \A v \in Version, e \in Environment, r \in EvalRun \cup {NoRun} :
        <<v, e, r>> \in everPassed /\ version[v] = "frozen" => r \in PassingRun

\* The lineage of an answer: the release it names put its version into
\* production, even when the pointer has moved since.
AnswerLineage ==
    \A q \in Query :
        query[q].step # "idle" =>
            /\ query[q].release \in 1..Len(releases)
            /\ releases[query[q].release].target = query[q].version
            /\ releases[query[q].release].to = "production"

\* What answers in production is a frozen definition that an evaluation run
\* passed for production: a rollback to a version that has no definition, or
\* only its client's word, is never answered from.
AnswerWasEvaluated ==
    \A q \in Query :
        query[q].step = "answered" =>
            /\ version[query[q].version] = "frozen"
            /\ \E r \in PassingRun : <<query[q].version, "production", r>> \in everPassed

\* What a release has behind it when requests read environments and evidence
\* one after the other: a promotion the source environment and a frozen
\* definition, an activation a frozen definition, a rollback nothing but
\* evidence that passed for its environment; and an answer in production the
\* release that put its version there and an evaluation run that passed.
ActiveIsEarned ==
    /\ PromotedThroughSource /\ ReleasedIsFrozen /\ ReleasedWasValidated /\ EvidenceIsDerived
    /\ AnswerLineage /\ AnswerWasEvaluated
=============================================================================
