------------------------- MODULE ControlPlaneProofs -------------------------
(***************************************************************************)
(* Proofs about the control plane: evaluation policies, pipeline drafts,   *)
(* releases, evaluation runs and judges.  Each has an inductive invariant, *)
(* the lemmas that a step preserves it, and the theorems.                  *)
(***************************************************************************)
EXTENDS ReleaseLifecycle, PipelineDraft, EvaluationPolicy, EvaluationRun, EvaluationJudge, NumberLemmas,
        TLAPS

-----------------------------------------------------------------------------
(***************************************************************************)
(* Evaluation policies                                                     *)
(***************************************************************************)

\* What a call is about to insert was the next version when it listed, so it
\* is by now an existing one or still the next.
PolicyIInv ==
    /\ policies \in [PolicyName -> Seq(Nat)]
    /\ creator \in [Creator -> {NoCreate} \cup [step : {"insert"}, name : PolicyName, version : Nat]]
    /\ PolicyVersionsDense
    /\ \A c \in Creator :
         creator[c].step = "insert" => creator[c].version \in 1..(Len(policies[creator[c].name]) + 1)

\* On a dense list the greatest version plus one is the length plus one.
LEMMA NextIsDense ==
    ASSUME PolicyIInv, NEW n \in PolicyName
    PROVE  /\ Versions(n) = 1..Len(policies[n])
           /\ nextVersion(n) = Len(policies[n]) + 1
<1> DEFINE L == Len(policies[n])
<1>1. L \in Nat
  BY DEF PolicyIInv
<1>2. Versions(n) = 1..L
  BY DEF PolicyIInv, PolicyVersionsDense, Versions
<1>3. ASSUME NEW k \in 1..(L + 1), k \notin 1..L
      PROVE  k = L + 1
  BY <1>1, <1>3
<1>4. \E k \in 1..(L + 1) : k \notin Versions(n) /\ \A j \in Versions(n) : j < k
  <2>1. L + 1 \in 1..(L + 1) /\ L + 1 \notin 1..L /\ \A j \in 1..L : j < L + 1
    BY <1>1
  <2> QED BY <1>2, <2>1
<1>5. nextVersion(n) \in 1..(L + 1) /\ nextVersion(n) \notin Versions(n)
  BY <1>4 DEF nextVersion
<1> QED BY <1>2, <1>3, <1>5

LEMMA PolicyStep == PolicyIInv /\ [PolicyNext]_policyVars => PolicyIInv'
<1> SUFFICES ASSUME PolicyIInv, [PolicyNext]_policyVars PROVE PolicyIInv'
  OBVIOUS
<1> USE DEF PolicyIInv
<1>1. ASSUME NEW c \in Creator, NEW n \in PolicyName, ListPolicies(c, n) PROVE PolicyIInv'
  <2>1. creator' = [creator EXCEPT ![c] = [step |-> "insert", name |-> n, version |-> Len(policies[n]) + 1]]
        /\ policies' = policies
    BY <1>1, NextIsDense DEF ListPolicies
  <2>2. Len(policies[n]) + 1 \in 1..(Len(policies[n]) + 1)
    OBVIOUS
  <2> QED BY <2>1, <2>2 DEF PolicyVersionsDense
<1>2. ASSUME NEW c \in Creator, InsertPolicy(c) PROVE PolicyIInv'
  <2> DEFINE n == creator[c].name
             k == creator[c].version
  <2>1. /\ n \in PolicyName /\ k \in 1..(Len(policies[n]) + 1) /\ k \in Nat
        /\ creator' = [creator EXCEPT ![c] = NoCreate]
    BY <1>2 DEF InsertPolicy, NoCreate
  <2>2. CASE Conflict(n, k)
    <3>1. policies' = policies
      BY <1>2, <2>2 DEF InsertPolicy
    <3> QED BY <2>1, <3>1 DEF PolicyVersionsDense, NoCreate
  <2>3. CASE ~Conflict(n, k)
    <3> HIDE DEF n, k
    <3>0. Len(policies[n]) \in Nat /\ k \notin 1..Len(policies[n])
      BY <2>1, <2>3, NextIsDense DEF Conflict
    <3>1. k = Len(policies[n]) + 1
      BY <2>1, <3>0
    <3>2. policies' = [policies EXCEPT ![n] = Append(policies[n], k)]
      BY <1>2, <2>3 DEF InsertPolicy, n, k
    <3>3. /\ policies' \in [PolicyName -> Seq(Nat)]
          /\ \A m \in PolicyName : Len(policies'[m]) >= Len(policies[m])
      BY <2>1, <3>2
    <3>4. PolicyVersionsDense'
      BY <2>1, <3>1, <3>2 DEF PolicyVersionsDense
    <3>5. \A d \in Creator : creator'[d].step = "insert" =>
             creator[d].step = "insert" /\ creator'[d] = creator[d]
      BY <2>1 DEF NoCreate
    <3>6. ASSUME NEW d \in Creator, creator'[d].step = "insert"
          PROVE  creator'[d].version \in 1..(Len(policies'[creator'[d].name]) + 1)
      <4>1. creator'[d] \in [step : {"insert"}, name : PolicyName, version : Nat]
        BY <3>5, <3>6 DEF NoCreate
      <4>2. creator'[d].version \in 1..(Len(policies[creator'[d].name]) + 1)
        BY <3>5, <3>6
      <4> QED BY <3>3, <4>1, <4>2
    <3>7. creator' \in [Creator -> {NoCreate} \cup [step : {"insert"}, name : PolicyName, version : Nat]]
      BY <2>1
    <3> QED BY <3>3, <3>4, <3>6, <3>7
  <2> QED BY <2>2, <2>3
<1>3. CASE UNCHANGED policyVars
  BY <1>3 DEF policyVars, PolicyVersionsDense
<1> QED BY <1>1, <1>2, <1>3 DEF PolicyNext

\* Concurrent Create calls number the versions of a name 1, 2, 3, ... in the
\* order of their insertion.
THEOREM PoliciesDense == PolicySpec => []PolicyVersionsDense
<1>1. PolicyInit => PolicyIInv
  BY DEF PolicyInit, PolicyIInv, PolicyVersionsDense, NoCreate
<1> QED BY <1>1, PolicyStep, PTL DEF PolicySpec, PolicyIInv

-----------------------------------------------------------------------------
(***************************************************************************)
(* Pipeline drafts                                                         *)
(***************************************************************************)

DraftRow == [revision : Int, definition : Definition]

\* What revision n of the draft holds.
RevisionOf(n) == IF n = 0 THEN EmptyDefinition ELSE saved[n].definition

\* A row or a copy of it that is some revision saved so far.
IsRevision(d) == d.revision \in 0..Len(saved) /\ d.definition = RevisionOf(d.revision)

\* The row is the last revision, every copy some revision; NoDraft stands for a
\* row that does not exist and was never loaded.
DraftIInv ==
    /\ draft \in DraftRow
    /\ author \in [Author -> DraftRow]
    /\ saved \in Seq([definition : ValidDefinition, base : Int])
    /\ draft = NoDraft => saved = <<>>
    /\ draft # NoDraft => draft.revision = Len(saved) /\ IsRevision(draft)
    /\ \A a \in Author : author[a] # NoDraft => IsRevision(author[a])
    /\ \A i \in 1..Len(saved) : saved[i].base = i - 1
    /\ \A s \in snapshots : s.revision \in 1..Len(saved) /\ s.definition = RevisionOf(s.revision)

LEMMA DraftStep == DraftIInv /\ [DraftNext]_draftVars => DraftIInv'
<1> SUFFICES ASSUME DraftIInv, [DraftNext]_draftVars PROVE DraftIInv'
  OBVIOUS
<1> USE DraftAssumption DEF DraftIInv
<1>0. Len(saved) \in Nat
  OBVIOUS
<1>1. CASE CreatePipelineRow
  BY <1>1 DEF CreatePipelineRow, IsRevision, RevisionOf
<1>2. CASE CreateDraftRow
  <2>1. draft' = [revision |-> 0, definition |-> EmptyDefinition] /\ saved' = <<>> /\ saved = <<>>
        /\ UNCHANGED <<author, snapshots>>
    BY <1>2 DEF CreateDraftRow
  <2>2. draft' \in DraftRow /\ draft' # NoDraft /\ draft'.revision = Len(saved') /\ IsRevision(draft)'
    BY <2>1 DEF DraftRow, NoDraft, IsRevision, RevisionOf
  <2> QED BY <2>1, <2>2 DEF IsRevision, RevisionOf
<1>3. ASSUME NEW a \in Author, GetDraft(a) PROVE DraftIInv'
  BY <1>3 DEF GetDraft, IsRevision, RevisionOf
<1>4. ASSUME NEW a \in Author, NEW d \in Definition, SaveDraft(a, d) PROVE DraftIInv'
  <2> DEFINE s == [definition |-> d, base |-> author[a].revision]
  <2>1. /\ draft # NoDraft /\ d \in ValidDefinition
        /\ author[a].revision = draft.revision
        /\ draft' = [revision |-> draft.revision + 1, definition |-> d]
        /\ saved' = Append(saved, s)
        /\ UNCHANGED <<author, snapshots>>
    BY <1>4 DEF SaveDraft, RevisionMatches
  <2>2. s \in [definition : ValidDefinition, base : Int] /\ s.base = Len(saved) /\ s.definition = d
    BY <2>1, <1>0
  <2> HIDE DEF s
  <2>3. /\ saved' \in Seq([definition : ValidDefinition, base : Int])
        /\ Len(saved') = Len(saved) + 1
        /\ saved'[Len(saved) + 1] = s
        /\ \A i \in 1..Len(saved) : saved'[i] = saved[i]
    BY <2>1, <2>2
  <2>4. \A n \in 0..Len(saved) : RevisionOf(n)' = RevisionOf(n)
    BY <2>3 DEF RevisionOf
  <2>5. \A c : IsRevision(c) => c.revision \in 0..Len(saved') /\ c.definition = RevisionOf(c.revision)'
    BY <1>0, <2>3, <2>4 DEF IsRevision
  <2>6. draft' \in DraftRow /\ draft'.revision = Len(saved') /\ draft'.definition = d /\ draft' # NoDraft
    BY <1>0, <2>1, <2>3 DEF DraftRow, NoDraft
  <2>7. IsRevision(draft)'
    BY <1>0, <2>2, <2>3, <2>6 DEF IsRevision, RevisionOf
  <2>8. ASSUME NEW i \in 1..Len(saved') PROVE saved'[i].base = i - 1
    <3>1. i \in 1..Len(saved) \/ i = Len(saved) + 1
      BY <1>0, <2>3
    <3>2. CASE i \in 1..Len(saved)
      BY <2>3, <3>2
    <3>3. CASE i = Len(saved) + 1
      BY <1>0, <2>2, <2>3, <3>3
    <3> QED BY <3>1, <3>2, <3>3
  <2>9. \A b \in Author : author'[b] # NoDraft => IsRevision(author[b])'
    BY <2>1, <2>5 DEF IsRevision
  <2>10. \A x \in snapshots' : x.revision \in 1..Len(saved') /\ x.definition = RevisionOf(x.revision)'
    BY <1>0, <2>1, <2>3, <2>4
  <2> QED BY <2>1, <2>3, <2>6, <2>7, <2>8, <2>9, <2>10
<1>5. ASSUME NEW a \in Author, NEW n \in 0..MaxSaves, Snapshot(a, n) PROVE DraftIInv'
  <2>1. /\ author[a] # NoDraft /\ author[a].revision = n
        /\ author[a].definition \in ValidDefinition
        /\ snapshots' = snapshots \cup {[revision |-> n, definition |-> author[a].definition]}
        /\ UNCHANGED <<draft, author, saved>>
    BY <1>5 DEF Snapshot, LoadedRevision
  <2>2. n \in 1..Len(saved) /\ author[a].definition = RevisionOf(n)
    BY <1>0, <2>1 DEF IsRevision, RevisionOf
  <2>3. \A x \in snapshots' : x.revision \in 1..Len(saved) /\ x.definition = RevisionOf(x.revision)
    BY <2>1, <2>2
  <2> QED BY <2>1, <2>3 DEF IsRevision, RevisionOf
<1>6. CASE UNCHANGED draftVars
  BY <1>6 DEF draftVars, IsRevision, RevisionOf
<1> QED BY <1>1, <1>2, <1>3, <1>4, <1>5, <1>6 DEF DraftNext

\* Saves that overlap lose no update, and what is frozen or executed is one of
\* the saved revisions, unchanged.
THEOREM DraftRevisions == DraftSpec => []RevisionsAreKept
<1>1. DraftInit => DraftIInv
  BY DraftAssumption DEF DraftInit, DraftIInv, NoDraft, DraftRow
<1>2. DraftIInv => RevisionsAreKept
  <2> SUFFICES ASSUME DraftIInv PROVE RevisionsAreKept
    OBVIOUS
  <2>1. Len(saved) \in Nat
    BY DEF DraftIInv
  <2>2. saved # <<>> => Len(saved) # 0
    BY DEF DraftIInv
  <2>3. saved # <<>> => draft.revision = Len(saved) /\ draft.definition = saved[Len(saved)].definition
    BY <2>1, <2>2 DEF DraftIInv, IsRevision, RevisionOf
  <2>4. NoLostUpdate
    BY <2>3 DEF DraftIInv, NoLostUpdate, DraftRow
  <2>5. SnapshotIsRevision
    BY <2>1 DEF DraftIInv, SnapshotIsRevision, RevisionOf
  <2> QED BY <2>4, <2>5 DEF RevisionsAreKept
<1> QED BY <1>1, <1>2, DraftStep, PTL DEF DraftSpec

-----------------------------------------------------------------------------
(***************************************************************************)
(* Releases                                                                *)
(***************************************************************************)

Record == [action : {"promote", "activate", "rollback"}, to : Environment,
           target : Version, expected : Version \cup {NoVersion}]

RequestRow == [action : {"idle", "promote", "activate", "rollback"},
               step : {"idle", "target", "evidence", "commit"},
               target : Version \cup {NoVersion}, from : Environment, to : Environment,
               expected : Version \cup {NoVersion}, revision : Nat]

QueryRow == [step : {"idle", "resolved", "answered"}, version : Version \cup {NoVersion},
             release : Nat, run : EvalRun \cup {NoRun}]

ReleaseTypeOK ==
    /\ version \in [Version -> VersionRow]
    /\ evidence \in [Version -> [Environment -> EvidenceRow]]
    /\ env \in [Environment -> EnvironmentRow]
    /\ releases \in Seq(Record)
    /\ request \in [Request -> RequestRow]
    /\ query \in [Query -> QueryRow]
    /\ everPassed \subseteq Version \X Environment \X (EvalRun \cup {NoRun})

\* The pointer of an environment names the last record of its history, and its
\* revision counts them.
PointerIsLast ==
    \A e \in Environment :
        /\ env[e].revision = Cardinality(CommittedTo(e))
        /\ CommittedTo(e) = {} => env[e].active = NoVersion
        /\ CommittedTo(e) # {} =>
             /\ env[e].release \in CommittedTo(e)
             /\ \A j \in CommittedTo(e) : j <= env[e].release
             /\ releases[env[e].release].target = env[e].active

\* Each record replaced what the record before it had put into place.
ChainOfRecords ==
    \A e \in Environment : \A i \in CommittedTo(e) :
        releases[i].expected = LastTarget({j \in CommittedTo(e) : j < i})

\* A request between its read of the target and its commit: its expectation is
\* current unless the revision has moved on since.
ExpectationFresh ==
    \A q \in Request :
        request[q].step \in {"evidence", "commit"} =>
            /\ request[q].revision <= env[request[q].to].revision
            /\ request[q].revision = env[request[q].to].revision =>
                 request[q].expected = env[request[q].to].active

\* A request that is under way has a version, and a promotion one that was
\* released to the source before.
SourceReleased ==
    \A q \in Request :
        request[q].step # "idle" =>
            /\ request[q].target \in Version
            /\ request[q].action # "idle"
            /\ request[q].action = "promote" =>
                 /\ validPromotion(request[q].from, request[q].to)
                 /\ \E j \in 1..Len(releases) :
                      releases[j].target = request[q].target /\ releases[j].to = request[q].from

\* A request past its checks of the definition has a frozen version, unless it
\* is a rollback.
DefinitionChecked ==
    \A q \in Request :
        request[q].step \in {"evidence", "commit"} /\ request[q].action # "rollback" =>
            version[request[q].target] = "frozen"

\* Evidence that passes has been noted, and so has what a commit relies on.
GatesNoted ==
    /\ \A v \in Version, e \in Environment : evidence[v][e].passed => <<v, e, evidence[v][e].run>> \in everPassed
    /\ \A q \in Request : request[q].step = "commit" => WasValidated(request[q].target, request[q].to)

\* No evidence precedes its version.
EvidenceHasVersion ==
    \A v \in Version, e \in Environment, r \in EvalRun \cup {NoRun} :
        <<v, e, r>> \in everPassed => version[v] # "absent"

ReleaseIInv ==
    /\ ReleaseTypeOK
    /\ PointerIsLast /\ ChainOfRecords
    /\ ExpectationFresh /\ SourceReleased
    /\ DefinitionChecked /\ GatesNoted /\ EvidenceHasVersion
    /\ ActiveIsEarned

\* The version the pointer's record put into place is the last one.
LEMMA PointerTarget ==
    ASSUME ReleaseTypeOK, PointerIsLast, NEW e \in Environment
    PROVE  LastTarget(CommittedTo(e)) = env[e].active
<1>1. CASE CommittedTo(e) = {}
  BY <1>1 DEF LastTarget, PointerIsLast
<1>2. CASE CommittedTo(e) # {}
  <2> DEFINE i == CHOOSE i \in CommittedTo(e) : \A j \in CommittedTo(e) : j <= i
             r == env[e].release
  <2>1. r \in CommittedTo(e) /\ \A j \in CommittedTo(e) : j <= r
    BY <1>2 DEF PointerIsLast
  <2>2. i \in CommittedTo(e) /\ \A j \in CommittedTo(e) : j <= i
    BY <2>1
  <2>3. i \in Int /\ r \in Int
    BY <2>1, <2>2 DEF CommittedTo
  <2>4. i = r
    BY <2>1, <2>2, <2>3
  <2> QED BY <1>2, <2>4 DEF LastTarget, PointerIsLast
<1> QED BY <1>1, <1>2

\* An active version has its record.
LEMMA ActiveHasRecord ==
    ASSUME ReleaseTypeOK, PointerIsLast, NEW e \in Environment, env[e].active # NoVersion
    PROVE  /\ env[e].release \in 1..Len(releases)
           /\ releases[env[e].release].target = env[e].active
           /\ releases[env[e].release].to = e
BY DEF PointerIsLast, CommittedTo

\* A step that appends no record leaves the history and its reading as they are.
LEMMA SameRecords ==
    ASSUME UNCHANGED releases
    PROVE  /\ \A e : CommittedTo(e)' = CommittedTo(e)
           /\ \A records : LastTarget(records)' = LastTarget(records)
           /\ ChainOfRecords => ChainOfRecords'
<1>1. \A e : CommittedTo(e)' = CommittedTo(e)
  BY DEF CommittedTo
<1>2. \A records : LastTarget(records)' = LastTarget(records)
  BY DEF LastTarget
<1>3. ASSUME ChainOfRecords, NEW e \in Environment, NEW i \in CommittedTo(e)'
      PROVE  releases'[i].expected = LastTarget({j \in CommittedTo(e) : j < i})'
  <2>1. i \in CommittedTo(e) /\ releases'[i].expected = LastTarget({j \in CommittedTo(e) : j < i})
    BY <1>1, <1>3 DEF ChainOfRecords
  <2>2. LastTarget({j \in CommittedTo(e) : j < i})' = LastTarget({j \in CommittedTo(e) : j < i})
    BY DEF LastTarget, CommittedTo
  <2> QED BY <2>1, <2>2
<1>4. ChainOfRecords => ChainOfRecords'
  BY <1>3 DEF ChainOfRecords
<1> QED BY <1>1, <1>2, <1>4

\* Evidence, versions and bindings: no pointer and no record moves.
LEMMA EvidenceKeepsIInv == ReleaseIInv /\ EvidenceStep => ReleaseIInv'
<1> SUFFICES ASSUME ReleaseIInv, EvidenceStep PROVE ReleaseIInv'
  OBVIOUS
<1> USE ReleaseAssumption DEF ReleaseIInv
<1>1. ASSUME UNCHANGED <<env, releases>>
      PROVE  PointerIsLast' /\ ChainOfRecords' /\ PromotedThroughSource'
  BY <1>1, SameRecords DEF PointerIsLast, ActiveIsEarned, PromotedThroughSource
<1>7. \A i \in 1..Len(releases) : releases[i].target \in Version /\ releases[i].to \in Environment
  <2>1. ASSUME NEW i \in 1..Len(releases) PROVE releases[i] \in Record
    BY DEF ReleaseTypeOK
  <2> QED BY <2>1 DEF Record
<1>8. \A q \in Query : query[q].step # "idle" => query[q].version \in Version
  BY <1>7 DEF ActiveIsEarned, AnswerLineage
<1>2. ASSUME NEW v \in Version, NEW kind \in VersionRow \ {"absent"}, CreateVersion(v, kind)
      PROVE  ReleaseIInv'
  <2>1. /\ version' = [version EXCEPT ![v] = kind] /\ version[v] = "absent"
        /\ UNCHANGED <<evidence, env, releases, request, query, everPassed>>
    BY <1>2 DEF CreateVersion
  <2>2. ReleaseTypeOK'
    BY <2>1 DEF ReleaseTypeOK
  <2>3. ExpectationFresh' /\ SourceReleased' /\ GatesNoted'
    BY <2>1 DEF ExpectationFresh, SourceReleased, GatesNoted, WasValidated
  <2>4. EvidenceHasVersion' /\ EvidenceIsDerived'
    BY <2>1 DEF EvidenceHasVersion, EvidenceIsDerived, ReleaseTypeOK, ActiveIsEarned
  <2>5. ReleasedWasValidated' /\ AnswerLineage'
    BY <2>1 DEF ReleasedWasValidated, WasValidated, AnswerLineage, ActiveIsEarned
  <2>6. \A u \in Version : version[u] = "frozen" => version'[u] = "frozen"
    BY <2>1 DEF ReleaseTypeOK
  <2>7. DefinitionChecked'
    BY <2>1, <2>6 DEF DefinitionChecked, SourceReleased
  <2>8. ReleasedIsFrozen'
    BY <1>7, <2>1, <2>6 DEF ReleasedIsFrozen, ActiveIsEarned
  <2>9. AnswerWasEvaluated'
    BY <1>8, <2>1, <2>6 DEF AnswerWasEvaluated, ActiveIsEarned
  <2> QED BY <1>1, <2>1, <2>2, <2>3, <2>4, <2>5, <2>7, <2>8, <2>9 DEF ActiveIsEarned
<1>3. ASSUME NEW v \in Version, NEW e \in Environment, NEW row \in EvidenceRow,
             SaveEvidence(v, e, row), version[v] # "absent",
             row.passed /\ version[v] = "frozen" => row.run \in PassingRun
      PROVE  ReleaseIInv'
  <2>1. /\ evidence' = [evidence EXCEPT ![v][e] = row]
        /\ everPassed' = IF row.passed THEN everPassed \cup {<<v, e, row.run>>} ELSE everPassed
        /\ UNCHANGED <<version, env, releases, request, query>>
    BY <1>3 DEF SaveEvidence
  <2>2. /\ evidence' \in [Version -> [Environment -> EvidenceRow]]
        /\ \A u \in Version, f \in Environment :
              evidence'[u][f] = IF u = v /\ f = e THEN row ELSE evidence[u][f]
    BY <2>1 DEF ReleaseTypeOK
  <2>3. ReleaseTypeOK'
    <3>1. row.run \in EvalRun \cup {NoRun}
      BY DEF EvidenceRow
    <3>2. everPassed' \subseteq Version \X Environment \X (EvalRun \cup {NoRun})
      BY <2>1, <3>1 DEF ReleaseTypeOK
    <3> QED BY <2>1, <2>2, <3>2 DEF ReleaseTypeOK
  <2>4. ExpectationFresh' /\ SourceReleased' /\ DefinitionChecked'
    BY <2>1 DEF ExpectationFresh, SourceReleased, DefinitionChecked
  <2>5. everPassed \subseteq everPassed'
    BY <2>1
  <2>6. GatesNoted'
    <3>1. ASSUME NEW u \in Version, NEW f \in Environment, evidence'[u][f].passed
          PROVE  <<u, f, evidence'[u][f].run>> \in everPassed'
      BY <2>1, <2>2, <3>1 DEF GatesNoted
    <3>2. \A q \in Request : request'[q].step = "commit" => WasValidated(request[q].target, request[q].to)'
      BY <2>1, <2>5 DEF GatesNoted, WasValidated
    <3> QED BY <3>1, <3>2 DEF GatesNoted
  <2>7. EvidenceHasVersion' /\ EvidenceIsDerived'
    <3> SUFFICES ASSUME NEW u \in Version, NEW f \in Environment, NEW r \in EvalRun \cup {NoRun},
                        <<u, f, r>> \in everPassed'
                 PROVE  version[u] # "absent" /\ (version[u] = "frozen" => r \in PassingRun)
      BY <2>1 DEF EvidenceHasVersion, EvidenceIsDerived
    <3>1. CASE <<u, f, r>> \in everPassed
      BY <3>1 DEF EvidenceHasVersion, EvidenceIsDerived, ActiveIsEarned
    <3>2. CASE row.passed /\ <<u, f, r>> = <<v, e, row.run>>
      <4>1. u = v /\ r = row.run
        BY <3>2
      <4> QED BY <1>3, <3>2, <4>1
    <3> QED BY <2>1, <3>1, <3>2
  <2>8. AnswerLineage' /\ ReleasedIsFrozen'
    BY <2>1 DEF AnswerLineage, ReleasedIsFrozen, ActiveIsEarned
  <2>10. ReleasedWasValidated'
    BY <2>1, <2>5 DEF ReleasedWasValidated, WasValidated, ActiveIsEarned
  <2>11. AnswerWasEvaluated'
    BY <2>1, <2>5 DEF AnswerWasEvaluated, ActiveIsEarned
  <2> QED BY <1>1, <2>1, <2>3, <2>4, <2>6, <2>7, <2>8, <2>10, <2>11 DEF ActiveIsEarned
<1>4. ASSUME NEW v \in Version, NEW e \in Environment, NEW passed \in BOOLEAN,
             validatePipelineVersion(v, e, passed)
      PROVE  ReleaseIInv'
  <2>1. [passed |-> passed, run |-> NoRun] \in EvidenceRow
    BY DEF EvidenceRow
  <2> QED BY <1>3, <1>4, <2>1 DEF validatePipelineVersion, ManuallyValidated
<1>5. ASSUME NEW v \in Version, NEW e \in Environment, NEW r \in EvalRun, RecordEvidence(v, e, r)
      PROVE  ReleaseIInv'
  <2>1. [passed |-> Freeze(r), run |-> r] \in EvidenceRow
    BY DEF EvidenceRow, Freeze
  <2> QED BY <1>3, <1>5, <2>1 DEF RecordEvidence, Freeze
<1>6. ASSUME NEW e \in Environment, Bind(e) PROVE ReleaseIInv'
  <2>1. /\ env' = [env EXCEPT ![e].bound = TRUE]
        /\ UNCHANGED <<version, evidence, releases, request, query, everPassed>>
    BY <1>6 DEF Bind
  <2>2. /\ env' \in [Environment -> EnvironmentRow]
        /\ \A f \in Environment : /\ env'[f].active = env[f].active
                                  /\ env'[f].release = env[f].release
                                  /\ env'[f].revision = env[f].revision
    BY <2>1 DEF ReleaseTypeOK, EnvironmentRow
  <2>3. ReleaseTypeOK'
    BY <2>1, <2>2 DEF ReleaseTypeOK
  <2>4. PointerIsLast' /\ ChainOfRecords' /\ PromotedThroughSource'
    BY <2>1, <2>2, SameRecords DEF PointerIsLast, ActiveIsEarned, PromotedThroughSource
  <2>5. ExpectationFresh' /\ SourceReleased' /\ GatesNoted' /\ EvidenceHasVersion' /\ DefinitionChecked'
    <3>1. ExpectationFresh'
      BY <2>1, <2>2 DEF ExpectationFresh, ReleaseTypeOK, RequestRow
    <3>2. SourceReleased' /\ DefinitionChecked' /\ EvidenceHasVersion'
      BY <2>1 DEF SourceReleased, EvidenceHasVersion, DefinitionChecked
    <3>3. GatesNoted'
      BY <2>1 DEF GatesNoted, WasValidated
    <3> QED BY <3>1, <3>2, <3>3
  <2>6. ReleasedWasValidated' /\ EvidenceIsDerived' /\ AnswerLineage'
    BY <2>1, <2>2 DEF ReleasedWasValidated, WasValidated, EvidenceIsDerived, AnswerLineage, ActiveIsEarned
  <2>7. ReleasedIsFrozen' /\ AnswerWasEvaluated'
    BY <2>1 DEF ReleasedIsFrozen, AnswerWasEvaluated, ActiveIsEarned
  <2> QED BY <2>3, <2>4, <2>5, <2>6, <2>7 DEF ActiveIsEarned
<1> QED BY <1>2, <1>4, <1>5, <1>6 DEF EvidenceStep

\* A request goes on, or ends without a commit.
LEMMA ContinueKeepsIInv ==
    ASSUME ReleaseIInv, NEW q \in Request, NEW rec \in RequestRow, Continue(q, rec),
           rec.step \in {"evidence", "commit"} =>
               /\ rec.revision <= env[rec.to].revision
               /\ rec.revision = env[rec.to].revision => rec.expected = env[rec.to].active,
           rec.step # "idle" =>
               /\ rec.target \in Version
               /\ rec.action # "idle"
               /\ rec.action = "promote" =>
                    /\ validPromotion(rec.from, rec.to)
                    /\ \E j \in 1..Len(releases) : releases[j].target = rec.target /\ releases[j].to = rec.from,
           rec.step \in {"evidence", "commit"} /\ rec.action # "rollback" => version[rec.target] = "frozen",
           rec.step = "commit" => WasValidated(rec.target, rec.to)
    PROVE  ReleaseIInv'
<1> USE DEF ReleaseIInv
<1>1. /\ request' = [request EXCEPT ![q] = rec]
      /\ UNCHANGED <<version, evidence, env, releases, query, everPassed>>
  BY DEF Continue
<1>2. \A p \in Request : request'[p] = IF p = q THEN rec ELSE request[p]
  BY <1>1 DEF ReleaseTypeOK
<1>3. ReleaseTypeOK'
  BY <1>1 DEF ReleaseTypeOK
<1>4. PointerIsLast' /\ ChainOfRecords'
  BY <1>1, SameRecords DEF PointerIsLast
<1>5. ExpectationFresh'
  BY <1>1, <1>2 DEF ExpectationFresh
<1>6. SourceReleased'
  BY <1>1, <1>2 DEF SourceReleased
<1>7. GatesNoted' /\ EvidenceHasVersion' /\ DefinitionChecked'
  <2>1. EvidenceHasVersion' /\ DefinitionChecked'
    BY <1>1, <1>2 DEF EvidenceHasVersion, DefinitionChecked
  <2>2. \A p \in Request : request'[p].step = "commit" => WasValidated(request'[p].target, request'[p].to)
    BY <1>2 DEF GatesNoted
  <2> QED BY <1>1, <2>1, <2>2 DEF GatesNoted, WasValidated
<1>8. ActiveIsEarned'
  BY <1>1 DEF ActiveIsEarned, PromotedThroughSource, ReleasedIsFrozen, ReleasedWasValidated, WasValidated,
              EvidenceIsDerived, AnswerLineage, AnswerWasEvaluated
<1> QED BY <1>3, <1>4, <1>5, <1>6, <1>7, <1>8

\* A commit appends the record of the pointer's move, or changes nothing.
LEMMA CommitKeepsIInv == ASSUME ReleaseIInv, NEW q \in Request, Commit(q) PROVE ReleaseIInv'
<1> USE ReleaseAssumption DEF ReleaseIInv
<1> DEFINE rq == request[q]
           L == Len(releases)
           rec == [action |-> rq.action, to |-> rq.to, target |-> rq.target, expected |-> rq.expected]
<1>1. /\ rq \in RequestRow /\ rq.step = "commit" /\ L \in Nat
      /\ request' = [request EXCEPT ![q] = Idle]
      /\ UNCHANGED <<version, evidence, query, everPassed>>
  BY DEF Commit, ReleaseTypeOK
<1>2. /\ Idle \in RequestRow /\ Idle.step = "idle"
      /\ request' \in [Request -> RequestRow]
      /\ \A p \in Request : request'[p].step # "idle" => p # q /\ request'[p] = request[p]
  BY <1>1 DEF ReleaseTypeOK, Idle, RequestRow, Environment
<1>3. GatesNoted' /\ EvidenceHasVersion' /\ EvidenceIsDerived' /\ DefinitionChecked' /\ AnswerWasEvaluated'
  BY <1>1, <1>2 DEF GatesNoted, WasValidated, EvidenceHasVersion, EvidenceIsDerived, DefinitionChecked,
                    AnswerWasEvaluated, ActiveIsEarned
<1>4. CASE ~RevisionUnchanged(rq)
  <2>1. UNCHANGED <<env, releases>>
    BY <1>4 DEF Commit
  <2>2. ReleaseTypeOK'
    BY <1>1, <1>2, <2>1 DEF ReleaseTypeOK
  <2>3. PointerIsLast' /\ ChainOfRecords'
    BY <2>1, SameRecords DEF PointerIsLast
  <2>4. ExpectationFresh' /\ SourceReleased'
    BY <1>2, <2>1 DEF ExpectationFresh, SourceReleased
  <2>5. ActiveIsEarned'
    BY <1>1, <1>3, <2>1 DEF ActiveIsEarned, PromotedThroughSource, ReleasedIsFrozen, ReleasedWasValidated,
                            WasValidated, AnswerLineage
  <2> QED BY <1>3, <2>2, <2>3, <2>4, <2>5
<1>5. CASE RevisionUnchanged(rq)
  <2>0. PICK e \in Environment : e = rq.to
    BY <1>1 DEF RequestRow
  <2> DEFINE row == [env[e] EXCEPT !.active = rq.target, !.revision = rq.revision + 1, !.release = L + 1]
  <2>1. /\ e \in Environment /\ rq.target \in Version /\ rq.action # "idle"
        /\ rq.revision \in Nat
        /\ env[e].revision = rq.revision /\ rq.expected = env[e].active
        /\ rec \in Record
    BY <1>1, <1>5, <2>0 DEF RevisionUnchanged, ExpectationFresh, SourceReleased, RequestRow, Record
  <2>2. env' = [env EXCEPT ![e] = row] /\ releases' = Append(releases, rec)
    BY <1>5, <2>0 DEF Commit, MovedPointer
  <2>3. /\ row \in EnvironmentRow /\ row.active = rq.target
        /\ row.revision = rq.revision + 1 /\ row.release = L + 1
    <3>1. env[e] \in EnvironmentRow
      BY <2>1 DEF ReleaseTypeOK
    <3>2. L + 1 \in Nat /\ rq.revision + 1 \in Nat
      BY <1>1, <2>1
    <3> HIDE DEF L, rq
    <3> QED BY <2>1, <3>1, <3>2 DEF EnvironmentRow
  <2>4. rec.to = e /\ rec.target = rq.target /\ rec.expected = rq.expected /\ rec.action = rq.action
    BY <2>0
  <2> HIDE DEF rec, row
  <2>5. /\ releases' \in Seq(Record) /\ Len(releases') = L + 1
        /\ releases'[L + 1] = rec
        /\ \A i \in 1..L : releases'[i] = releases[i]
    BY <1>1, <2>1, <2>2 DEF ReleaseTypeOK
  <2>6. /\ env' \in [Environment -> EnvironmentRow] /\ env'[e] = row
        /\ \A f \in Environment : f # e => env'[f] = env[f]
    BY <2>1, <2>2, <2>3 DEF ReleaseTypeOK
  <2>7. ReleaseTypeOK'
    BY <1>1, <1>2, <2>5, <2>6 DEF ReleaseTypeOK
  <2> HIDE DEF L
  <2>8. /\ CommittedTo(e)' = CommittedTo(e) \cup {L + 1}
        /\ L + 1 \notin CommittedTo(e)
        /\ \A f \in Environment : f # e => CommittedTo(f)' = CommittedTo(f)
        /\ \A f \in Environment : CommittedTo(f) \subseteq 1..L
    <3>1. \A f \in Environment : CommittedTo(f) = {i \in 1..L : releases[i].to = f}
      BY DEF CommittedTo, L
    <3>2. \A f \in Environment : CommittedTo(f)' = {i \in 1..(L + 1) : releases'[i].to = f}
      BY <2>5 DEF CommittedTo
    <3>3. 1..(L + 1) = 1..L \cup {L + 1} /\ L + 1 \notin 1..L
      BY <1>1
    <3>4. \A f \in Environment : \A i \in 1..L : i \in CommittedTo(f)' <=> i \in CommittedTo(f)
      BY <2>5, <3>1, <3>2, <3>3
    <3>5. \A f \in Environment : L + 1 \in CommittedTo(f)' <=> f = e
      BY <2>1, <2>4, <2>5, <3>2, <3>3
    <3>6. \A f \in Environment : CommittedTo(f) \subseteq 1..L /\ CommittedTo(f)' \subseteq 1..L \cup {L + 1}
      BY <3>1, <3>2, <3>3
    <3>7. L + 1 \notin CommittedTo(e)
      BY <2>1, <3>3, <3>6
    <3>8. CommittedTo(e)' = CommittedTo(e) \cup {L + 1}
      BY <2>1, <3>4, <3>5, <3>6
    <3>9. ASSUME NEW f \in Environment, f # e PROVE CommittedTo(f)' = CommittedTo(f)
      BY <3>4, <3>5, <3>6, <3>9
    <3> QED BY <3>6, <3>7, <3>8, <3>9
  <2>9. \A records \in SUBSET (1..L) : LastTarget(records)' = LastTarget(records)
    <3> SUFFICES ASSUME NEW records \in SUBSET (1..L), records # {}
                 PROVE  LastTarget(records)' = LastTarget(records)
      BY DEF LastTarget
    <3> DEFINE i == CHOOSE i \in records : \A j \in records : j <= i
    <3>1. \E m \in records : \A j \in records : j <= m
      BY <1>1, HasGreatest DEF L
    <3>2. i \in 1..L
      BY <3>1
    <3>3. LastTarget(records) = releases[i].target /\ LastTarget(records)' = releases'[i].target
      BY DEF LastTarget
    <3> QED BY <2>5, <3>2, <3>3
  <2>10. PointerIsLast'
    <3>1. Cardinality(CommittedTo(e) \cup {L + 1}) = Cardinality(CommittedTo(e)) + 1
      <4>1. IsFiniteSet(1..L)
        BY <1>1, FS_Interval DEF L
      <4>2. IsFiniteSet(CommittedTo(e))
        BY <2>1, <2>8, <4>1, FS_Subset
      <4> QED BY <2>8, <4>2, FS_AddElement
    <3>2. /\ row.revision = Cardinality(CommittedTo(e)')
          /\ row.release \in CommittedTo(e)'
          /\ \A j \in CommittedTo(e)' : j <= row.release
          /\ releases'[row.release].target = row.active
      <4>1. row.revision = Cardinality(CommittedTo(e)')
        BY <2>1, <2>3, <2>8, <3>1 DEF PointerIsLast
      <4>2. \A j \in 1..L : j <= L + 1
        BY <1>1
      <4> QED BY <2>1, <2>3, <2>4, <2>5, <2>8, <4>1, <4>2
    <3>3. ASSUME NEW f \in Environment, f # e
          PROVE  /\ env'[f].revision = Cardinality(CommittedTo(f)')
                 /\ CommittedTo(f)' = {} => env'[f].active = NoVersion
                 /\ CommittedTo(f)' # {} =>
                      /\ env'[f].release \in CommittedTo(f)'
                      /\ \A j \in CommittedTo(f)' : j <= env'[f].release
                      /\ releases'[env'[f].release].target = env'[f].active
      BY <2>5, <2>6, <2>8, <3>3 DEF PointerIsLast
    <3>4. CommittedTo(e)' # {}
      BY <2>8
    <3> SUFFICES ASSUME NEW f \in Environment
                 PROVE  /\ env'[f].revision = Cardinality(CommittedTo(f)')
                        /\ CommittedTo(f)' = {} => env'[f].active = NoVersion
                        /\ CommittedTo(f)' # {} =>
                             /\ env'[f].release \in CommittedTo(f)'
                             /\ \A j \in CommittedTo(f)' : j <= env'[f].release
                             /\ releases'[env'[f].release].target = env'[f].active
      BY DEF PointerIsLast
    <3>5. CASE f = e
      BY <2>6, <3>2, <3>4, <3>5
    <3> QED BY <3>3, <3>5
  <2>11. ChainOfRecords'
    <3> SUFFICES ASSUME NEW f \in Environment, NEW i \in CommittedTo(f)'
                 PROVE  releases'[i].expected = LastTarget({j \in CommittedTo(f) : j < i})'
      BY DEF ChainOfRecords
    <3>0. PICK K : K = {j \in CommittedTo(f)' : j < i}
      OBVIOUS
    <3> SUFFICES releases'[i].expected = LastTarget(K)'
      BY <3>0 DEF LastTarget
    <3>1. CASE i \in 1..L
      <4>1. i \in CommittedTo(f)
        BY <1>1, <2>8, <3>1
      <4>2. K = {j \in CommittedTo(f) : j < i}
        BY <1>1, <2>8, <3>0, <3>1
      <4>3. K \in SUBSET (1..L)
        BY <2>8, <4>2
      <4> QED BY <2>5, <2>9, <3>1, <4>1, <4>2, <4>3 DEF ChainOfRecords
    <3>2. CASE i \notin 1..L
      <4>1. f = e /\ i = L + 1
        BY <2>8, <3>2
      <4>2. K = CommittedTo(e)
        BY <1>1, <2>8, <3>0, <4>1
      <4>3. LastTarget(CommittedTo(e)) = rq.expected
        BY <2>1, PointerTarget
      <4> QED BY <2>4, <2>5, <2>8, <2>9, <4>1, <4>2, <4>3
    <3> QED BY <3>1, <3>2
  <2>12. ExpectationFresh'
    <3> SUFFICES ASSUME NEW p \in Request, request'[p].step \in {"evidence", "commit"}
                 PROVE  /\ request'[p].revision <= env'[request'[p].to].revision
                        /\ request'[p].revision = env'[request'[p].to].revision =>
                             request'[p].expected = env'[request'[p].to].active
      BY DEF ExpectationFresh
    <3>1. /\ request'[p] = request[p] /\ request[p] \in RequestRow
          /\ request[p].revision <= env[request[p].to].revision
          /\ request[p].revision = env[request[p].to].revision => request[p].expected = env[request[p].to].active
      BY <1>2 DEF ExpectationFresh, ReleaseTypeOK
    <3>2. request[p].revision \in Nat /\ request[p].to \in Environment
      BY <3>1 DEF RequestRow
    <3> QED BY <2>1, <2>3, <2>6, <3>1, <3>2
  <2>13. SourceReleased'
    <3> SUFFICES ASSUME NEW p \in Request, request'[p].step # "idle", request[p].action = "promote"
                 PROVE  \E j \in 1..Len(releases') :
                          releases'[j].target = request[p].target /\ releases'[j].to = request[p].from
      BY <1>2 DEF SourceReleased
    <3>1. PICK j \in 1..L : releases[j].target = request[p].target /\ releases[j].to = request[p].from
      BY <1>2 DEF SourceReleased, L
    <3> QED BY <1>1, <2>5, <3>1
  <2>14. PromotedThroughSource'
    <3> SUFFICES ASSUME NEW i \in 1..Len(releases'), releases'[i].action = "promote"
                 PROVE  \E j \in 1..(i - 1) :
                          /\ releases'[j].target = releases'[i].target
                          /\ validPromotion(releases'[j].to, releases'[i].to)
      BY DEF PromotedThroughSource, validPromotion
    <3>1. CASE i \in 1..L
      <4>1. PICK j \in 1..(i - 1) : /\ releases[j].target = releases[i].target
                                    /\ validPromotion(releases[j].to, releases[i].to)
        BY <2>5, <3>1 DEF ActiveIsEarned, PromotedThroughSource, validPromotion, L
      <4>2. j \in 1..L
        BY <1>1, <3>1, <4>1
      <4> QED BY <2>5, <3>1, <4>1, <4>2
    <3>2. CASE i = L + 1
      <4>1. PICK j \in 1..L : releases[j].target = rq.target /\ releases[j].to = rq.from
        BY <1>1, <2>4, <2>5, <3>2 DEF SourceReleased, L
      <4>2. validPromotion(rq.from, rq.to)
        BY <1>1, <2>4, <2>5, <3>2 DEF SourceReleased
      <4>3. j \in 1..(i - 1)
        BY <1>1, <3>2, <4>1
      <4> QED BY <2>0, <2>4, <2>5, <3>2, <4>1, <4>2, <4>3
    <3> QED BY <1>1, <2>5, <3>1, <3>2
  <2>15. ReleasedWasValidated' /\ ReleasedIsFrozen'
    <3>1. /\ WasValidated(rq.target, e)
          /\ rq.action # "rollback" => version[rq.target] = "frozen"
      BY <1>1, <2>0 DEF GatesNoted, DefinitionChecked
    <3> SUFFICES ASSUME NEW i \in 1..Len(releases')
                 PROVE  /\ WasValidated(releases'[i].target, releases'[i].to)
                        /\ releases'[i].action # "rollback" => version[releases'[i].target] = "frozen"
      BY <1>1 DEF ReleasedWasValidated, ReleasedIsFrozen, WasValidated
    <3>3. CASE i \in 1..L
      BY <2>5, <3>3 DEF ActiveIsEarned, ReleasedWasValidated, ReleasedIsFrozen, L
    <3>4. CASE i = L + 1
      BY <2>4, <2>5, <3>1, <3>4
    <3> QED BY <1>1, <2>5, <3>3, <3>4
  <2>16. AnswerLineage'
    BY <1>1, <2>5 DEF AnswerLineage, ActiveIsEarned, L
  <2> QED BY <1>3, <2>7, <2>10, <2>11, <2>12, <2>13, <2>14, <2>15, <2>16 DEF ActiveIsEarned
<1> QED BY <1>4, <1>5

LEMMA RequestKeepsIInv == ReleaseIInv /\ RequestStep => ReleaseIInv'
<1> SUFFICES ASSUME ReleaseIInv, NEW q \in Request,
                    \/ \E v \in Version :
                         \/ \E from, to \in Environment : PromoteReadsSource(q, from, to, v)
                         \/ ActivateReads(q, v)
                         \/ \E e \in Environment : RollbackReads(q, e, v)
                    \/ PromoteReadsTarget(q) \/ ReadEvidence(q) \/ Commit(q)
             PROVE  ReleaseIInv'
  BY DEF RequestStep
<1> USE ReleaseAssumption
<1>0. /\ Idle \in RequestRow /\ Idle.step = "idle" /\ request[q] \in RequestRow
      /\ "development" \in Environment
      /\ \A e \in Environment : env[e] \in EnvironmentRow
  BY DEF ReleaseIInv, ReleaseTypeOK, Idle, RequestRow, Environment
\* After the read of the target the expectation is the active version.
<1>1. ASSUME NEW rq \in RequestRow
      PROVE  LET rec == AfterTarget(rq)
             IN  /\ rec \in RequestRow /\ rec.step = "evidence"
                 /\ rec.revision = env[rec.to].revision /\ rec.expected = env[rec.to].active
                 /\ rec.target = rq.target /\ rec.action = rq.action /\ rec.from = rq.from /\ rec.to = rq.to
  BY <1>0 DEF AfterTarget, RequestRow, EnvironmentRow
<1>2. ASSUME NEW v \in Version, NEW from \in Environment, NEW to \in Environment,
             PromoteReadsSource(q, from, to, v)
      PROVE  ReleaseIInv'
  <2> DEFINE rec == [Idle EXCEPT !.action = "promote", !.step = "target", !.target = v,
                                 !.from = from, !.to = to]
  <2>1. rec \in RequestRow /\ rec.step = "target" /\ rec.target = v /\ rec.from = from /\ rec.to = to
        /\ rec.action = "promote"
    BY <1>0 DEF RequestRow
  <2>2. env[from].active = v /\ validPromotion(from, to) /\ Continue(q, rec)
    BY <1>2 DEF PromoteReadsSource
  <2>3. \E j \in 1..Len(releases) : releases[j].target = v /\ releases[j].to = from
    BY <2>2, ActiveHasRecord DEF ReleaseIInv
  <2> HIDE DEF rec
  <2> QED BY <2>1, <2>2, <2>3, ContinueKeepsIInv
<1>3. ASSUME NEW v \in Version, ActivateReads(q, v) PROVE ReleaseIInv'
  <2> DEFINE rq == [Idle EXCEPT !.action = "activate", !.target = v]
  <2>1. rq \in RequestRow /\ rq.target = v /\ rq.action = "activate"
    BY <1>0 DEF RequestRow
  <2>2. Continue(q, AfterTarget(rq)) /\ version[v] = "frozen"
    BY <1>3 DEF ActivateReads
  <2> HIDE DEF rq
  <2> DEFINE rec == AfterTarget(rq)
  <2>3. /\ rec \in RequestRow /\ rec.step = "evidence" /\ rec.target = v /\ rec.action \notin {"idle", "promote"}
        /\ rec.revision = env[rec.to].revision /\ rec.expected = env[rec.to].active
    BY <1>1, <2>1
  <2>4. rec.revision <= env[rec.to].revision
    BY <2>3 DEF RequestRow
  <2> HIDE DEF rec
  <2> QED BY <2>2, <2>3, <2>4, ContinueKeepsIInv DEF rec
<1>4. ASSUME NEW v \in Version, NEW e \in Environment, RollbackReads(q, e, v) PROVE ReleaseIInv'
  <2> DEFINE rq == [Idle EXCEPT !.action = "rollback", !.target = v, !.from = e, !.to = e]
  <2>1. rq \in RequestRow /\ rq.target = v /\ rq.action = "rollback"
    BY <1>0 DEF RequestRow
  <2>2. Continue(q, AfterTarget(rq))
    BY <1>4 DEF RollbackReads
  <2> HIDE DEF rq
  <2> DEFINE rec == AfterTarget(rq)
  <2>3. /\ rec \in RequestRow /\ rec.step = "evidence" /\ rec.target = v /\ rec.action = "rollback"
        /\ rec.revision = env[rec.to].revision /\ rec.expected = env[rec.to].active
    BY <1>1, <2>1
  <2>4. rec.revision <= env[rec.to].revision
    BY <2>3 DEF RequestRow
  <2> HIDE DEF rec
  <2> QED BY <2>2, <2>3, <2>4, ContinueKeepsIInv DEF rec
<1>5. CASE PromoteReadsTarget(q)
  <2>1. /\ request[q].step = "target"
        /\ \/ version[request[q].target] = "frozen" /\ Continue(q, AfterTarget(request[q]))
           \/ Continue(q, Idle)
    BY <1>5 DEF PromoteReadsTarget
  <2> DEFINE rec == AfterTarget(request[q])
  <2>2. /\ rec \in RequestRow /\ rec.step = "evidence"
        /\ rec.revision = env[rec.to].revision /\ rec.expected = env[rec.to].active
        /\ rec.target = request[q].target /\ rec.action = request[q].action
        /\ rec.from = request[q].from /\ rec.to = request[q].to
        /\ rec.revision \in Nat
    BY <1>0, <1>1 DEF RequestRow
  <2>3. CASE Continue(q, Idle)
    BY <1>0, <2>3, ContinueKeepsIInv
  <2>4. CASE version[request[q].target] = "frozen" /\ Continue(q, AfterTarget(request[q]))
    <3>1. /\ request[q].target \in Version /\ request[q].action # "idle"
          /\ request[q].action = "promote" =>
                 /\ validPromotion(request[q].from, request[q].to)
                 /\ \E j \in 1..Len(releases) :
                      releases[j].target = request[q].target /\ releases[j].to = request[q].from
      BY <2>1 DEF ReleaseIInv, SourceReleased
    <3>2. Continue(q, rec) /\ rec.revision <= env[rec.to].revision
      BY <2>2, <2>4
    <3> HIDE DEF rec
    <3> QED BY <2>2, <2>4, <3>1, <3>2, ContinueKeepsIInv
  <2> QED BY <2>1, <2>3, <2>4
<1>6. CASE ReadEvidence(q)
  <2> DEFINE rec == [request[q] EXCEPT !.step = "commit"]
  <2>1. request[q].step = "evidence" /\ ((Gate(request[q]) /\ Continue(q, rec)) \/ Continue(q, Idle))
    BY <1>6 DEF ReadEvidence
  <2>2. CASE Continue(q, Idle)
    BY <1>0, <2>2, ContinueKeepsIInv
  <2>3. CASE Gate(request[q]) /\ Continue(q, rec)
    <3>1. /\ rec \in RequestRow /\ rec.step = "commit" /\ rec.target = request[q].target
          /\ rec.action = request[q].action /\ rec.from = request[q].from /\ rec.to = request[q].to
          /\ rec.expected = request[q].expected /\ rec.revision = request[q].revision
      BY <1>0 DEF RequestRow
    <3>2. /\ request[q].revision <= env[request[q].to].revision
          /\ request[q].revision = env[request[q].to].revision => request[q].expected = env[request[q].to].active
          /\ request[q].target \in Version /\ request[q].action # "idle"
          /\ request[q].action = "promote" =>
                 /\ validPromotion(request[q].from, request[q].to)
                 /\ \E j \in 1..Len(releases) :
                      releases[j].target = request[q].target /\ releases[j].to = request[q].from
      BY <2>1 DEF ReleaseIInv, ExpectationFresh, SourceReleased
    <3>3. WasValidated(request[q].target, request[q].to)
      <4>1. request[q].to \in Environment
        BY <1>0 DEF RequestRow
      <4>2. evidence[request[q].target][request[q].to].run \in EvalRun \cup {NoRun}
        BY <3>2, <4>1 DEF ReleaseIInv, ReleaseTypeOK, EvidenceRow
      <4> QED BY <2>3, <3>2, <4>1, <4>2 DEF Gate, ReleaseIInv, GatesNoted, WasValidated
    <3>4. request[q].action # "rollback" => version[request[q].target] = "frozen"
      BY <2>1 DEF ReleaseIInv, DefinitionChecked
    <3> HIDE DEF rec
    <3> QED BY <2>3, <3>1, <3>2, <3>3, <3>4, ContinueKeepsIInv
  <2> QED BY <2>1, <2>2, <2>3
<1>7. CASE Commit(q)
  BY <1>7, CommitKeepsIInv
<1> QED BY <1>2, <1>3, <1>4, <1>5, <1>6, <1>7

LEMMA QueryKeepsIInv == ReleaseIInv /\ QueryStep => ReleaseIInv'
<1> SUFFICES ASSUME ReleaseIInv, NEW q \in Query, QueryEnvironment(q) \/ QueryRun(q) PROVE ReleaseIInv'
  BY DEF QueryStep
<1> USE ReleaseAssumption DEF ReleaseIInv
<1>1. UNCHANGED <<version, evidence, env, releases, request, everPassed>>
  BY DEF QueryEnvironment, QueryRun
<1>2. PointerIsLast' /\ ChainOfRecords'
  BY <1>1, SameRecords DEF PointerIsLast
<1>3. ExpectationFresh' /\ SourceReleased' /\ GatesNoted' /\ EvidenceHasVersion' /\ DefinitionChecked'
  BY <1>1 DEF ExpectationFresh, SourceReleased, GatesNoted, WasValidated, EvidenceHasVersion, DefinitionChecked
<1>4. PromotedThroughSource' /\ ReleasedIsFrozen' /\ ReleasedWasValidated' /\ EvidenceIsDerived'
  BY <1>1 DEF ActiveIsEarned, PromotedThroughSource, ReleasedIsFrozen, ReleasedWasValidated, WasValidated,
              EvidenceIsDerived
<1>5. PICK r : query' = [query EXCEPT ![q] = r] /\ r \in QueryRow
        /\ (r.step # "idle" => /\ r.release \in 1..Len(releases)
                               /\ releases[r.release].target = r.version
                               /\ releases[r.release].to = "production")
        /\ (r.step = "answered" => version[r.version] = "frozen")
  <2>0. query[q] \in QueryRow /\ NoQuery \in QueryRow /\ NoQuery.step = "idle" /\ "production" \in Environment
    BY DEF ReleaseTypeOK, NoQuery, QueryRow, Environment
  <2>1. CASE QueryEnvironment(q)
    <3> DEFINE p == env["production"]
               r == [query[q] EXCEPT !.step = "resolved", !.version = p.active, !.release = p.release]
    <3>1. query' = [query EXCEPT ![q] = r] /\ p.active # NoVersion
      BY <2>1 DEF QueryEnvironment
    <3>2. p \in EnvironmentRow
      BY <2>0 DEF ReleaseTypeOK
    <3>3. p.release \in 1..Len(releases) /\ releases[p.release].target = p.active
          /\ releases[p.release].to = "production"
      BY <2>0, <3>1, ActiveHasRecord
    <3> HIDE DEF p
    <3>4. r \in QueryRow /\ r.step = "resolved" /\ r.release = p.release /\ r.version = p.active
      BY <2>0, <3>2 DEF QueryRow, EnvironmentRow
    <3> QED BY <3>1, <3>3, <3>4
  <2>2. CASE QueryRun(q)
    <3> DEFINE r == [query[q] EXCEPT !.step = "answered", !.run = evidence[query[q].version]["production"].run]
    <3>1. query[q].step = "resolved"
      BY <2>2 DEF QueryRun
    <3>2. /\ query[q].release \in 1..Len(releases)
          /\ releases[query[q].release].target = query[q].version
          /\ releases[query[q].release].to = "production"
      BY <3>1 DEF ActiveIsEarned, AnswerLineage
    <3>3. query[q].version \in Version
      <4>1. releases[query[q].release] \in Record
        BY <3>2 DEF ReleaseTypeOK
      <4> QED BY <3>2, <4>1 DEF Record
    <3>4. evidence[query[q].version]["production"].run \in EvalRun \cup {NoRun}
      BY <2>0, <3>3 DEF ReleaseTypeOK, EvidenceRow
    <3>5. r \in QueryRow /\ r.release = query[q].release /\ r.version = query[q].version
      BY <2>0, <3>4 DEF QueryRow
    <3>6. \/ query' = [query EXCEPT ![q] = r] /\ version[query[q].version] = "frozen"
          \/ query' = [query EXCEPT ![q] = NoQuery]
      BY <2>2 DEF QueryRun
    <3> HIDE DEF r
    <3> QED BY <2>0, <3>2, <3>5, <3>6
  <2> QED BY <2>1, <2>2
<1>6. ReleaseTypeOK'
  BY <1>1, <1>5 DEF ReleaseTypeOK
<1>7. AnswerLineage'
  BY <1>1, <1>5 DEF ActiveIsEarned, AnswerLineage, ReleaseTypeOK
<1>8. AnswerWasEvaluated'
  <2> SUFFICES ASSUME NEW p \in Query, query'[p].step = "answered"
               PROVE  /\ version[query'[p].version] = "frozen"
                      /\ \E x \in PassingRun : <<query'[p].version, "production", x>> \in everPassed
    BY <1>1 DEF AnswerWasEvaluated
  <2>1. version[query'[p].version] = "frozen"
    BY <1>5 DEF ActiveIsEarned, AnswerWasEvaluated, ReleaseTypeOK
  <2>2. PICK i \in 1..Len(releases) : releases[i].target = query'[p].version /\ releases[i].to = "production"
    BY <1>1, <1>7 DEF AnswerLineage
  <2>3. PICK x \in EvalRun \cup {NoRun} : <<query'[p].version, "production", x>> \in everPassed
    BY <2>2 DEF ActiveIsEarned, ReleasedWasValidated, WasValidated
  <2>4. query'[p].version \in Version /\ "production" \in Environment
    <3>1. releases[i] \in Record
      BY <2>2 DEF ReleaseTypeOK
    <3> QED BY <2>2, <3>1 DEF Record, Environment
  <2>5. x \in PassingRun
    BY <2>1, <2>3, <2>4 DEF ActiveIsEarned, EvidenceIsDerived
  <2> QED BY <2>1, <2>3, <2>5
<1> QED BY <1>2, <1>3, <1>4, <1>6, <1>7, <1>8 DEF ActiveIsEarned

LEMMA ReleaseInductive == ReleaseSpec => []ReleaseIInv
<1>1. ReleaseInit => ReleaseIInv
  <2> SUFFICES ASSUME ReleaseInit PROVE ReleaseIInv
    OBVIOUS
  <2> USE ReleaseAssumption DEF ReleaseInit
  <2>1. releases = <<>> /\ Len(releases) = 0 /\ \A e : CommittedTo(e) = {}
    BY DEF CommittedTo
  <2>2. /\ \A e \in Environment : env[e].active = NoVersion /\ env[e].revision = 0 /\ env[e] \in EnvironmentRow
        /\ env \in [Environment -> EnvironmentRow]
    BY DEF NewEnvironment, EnvironmentRow
  <2>3. ReleaseTypeOK
    BY <2>1, <2>2 DEF ReleaseTypeOK, VersionRow, EvidenceRow, NoEvidence, Idle, RequestRow, NoQuery, QueryRow, Environment
  <2>4. PointerIsLast /\ ChainOfRecords
    BY <2>1, <2>2, FS_EmptySet DEF PointerIsLast, ChainOfRecords
  <2>5. ExpectationFresh /\ SourceReleased /\ GatesNoted /\ EvidenceHasVersion /\ DefinitionChecked
    BY DEF ExpectationFresh, SourceReleased, GatesNoted, EvidenceHasVersion, DefinitionChecked, Idle, NoEvidence
  <2>6. ActiveIsEarned
    BY <2>1, <2>2 DEF ActiveIsEarned, PromotedThroughSource, ReleasedIsFrozen, ReleasedWasValidated,
                      EvidenceIsDerived, AnswerLineage, AnswerWasEvaluated, NoQuery
  <2> QED BY <2>3, <2>4, <2>5, <2>6 DEF ReleaseIInv
<1>2. ReleaseIInv /\ UNCHANGED releaseVars => ReleaseIInv'
  <2> SUFFICES ASSUME ReleaseIInv, UNCHANGED releaseVars PROVE ReleaseIInv'
    OBVIOUS
  <2> USE DEF ReleaseIInv, releaseVars
  <2>1. ReleaseTypeOK' /\ PointerIsLast' /\ ChainOfRecords'
    BY SameRecords DEF ReleaseTypeOK, PointerIsLast
  <2>2. ExpectationFresh' /\ SourceReleased' /\ GatesNoted' /\ EvidenceHasVersion' /\ DefinitionChecked'
    BY DEF ExpectationFresh, SourceReleased, GatesNoted, WasValidated, EvidenceHasVersion, DefinitionChecked
  <2>3. ActiveIsEarned'
    BY DEF ActiveIsEarned, PromotedThroughSource, ReleasedIsFrozen, ReleasedWasValidated, WasValidated,
           EvidenceIsDerived, AnswerLineage, AnswerWasEvaluated
  <2> QED BY <2>1, <2>2, <2>3
<1>3. ReleaseIInv /\ [ReleaseNext]_releaseVars => ReleaseIInv'
  BY <1>2, EvidenceKeepsIInv, RequestKeepsIInv, QueryKeepsIInv DEF ReleaseNext
<1> QED BY <1>1, <1>3, PTL DEF ReleaseSpec

\* Commit's compare-and-swap on the revision of one environment is enough: the
\* records of every environment form a chain that ends in its active version.
THEOREM ReleaseHistory == ReleaseSpec => []HistoryChained
<1>1. ReleaseIInv => HistoryChained
  BY PointerTarget DEF ReleaseIInv, PointerIsLast, ChainOfRecords, HistoryChained
<1> QED BY <1>1, ReleaseInductive, PTL

\* Although requests read environments and evidence one after the other, only
\* frozen definitions are activated or promoted, and promoted through the source
\* environment; a rollback needs no more than evidence that once passed for its
\* environment; and what answers in production names its release and was passed
\* by an evaluation run.
THEOREM ReleasesEarned == ReleaseSpec => []ActiveIsEarned
BY ReleaseInductive, PTL DEF ReleaseIInv

-----------------------------------------------------------------------------
(***************************************************************************)
(* Evaluation runs                                                         *)
(***************************************************************************)

EvaluationRow == [step : {"idle", "split", "check", "answer", "store", "failed", "returned"},
                  split : BOOLEAN, judges : SUBSET Judge, summary : SUBSET EvalItem,
                  items : SUBSET EvalItem, answered : SUBSET EvalItem]

\* The rows that are there come first in the order of the writes.
StoredInOrder(e, stored) ==
    /\ stored \subseteq Writes(e)
    /\ \A w \in stored, x \in Writes(e) \ stored : w.rank <= x.rank

\* One run: nothing is stored before every item was answered, the rows are a
\* beginning of the writes, and the summary counts no more than the items.
WholeSoFar(e, stored, data) ==
    /\ e.step \in {"idle", "split", "check"} => e.answered = {}
    /\ e.step \in {"idle", "split", "check", "answer"} => stored = {}
    /\ e.step \in {"store", "returned"} \/ stored # {} => e.answered = e.items
    /\ StoredInOrder(e, stored)
    /\ e.step = "returned" => Writes(e) \subseteq stored
    /\ e.step = "split" => e.summary \subseteq data \cap Holdout
    /\ e.step \notin {"idle", "split", "failed"} => e.summary \subseteq e.items

EvaluationIInv ==
    /\ dataset \subseteq EvalItem
    /\ evaluation \in [EvalID -> EvaluationRow]
    /\ rows \in [EvalID -> SUBSET [rank : 1..5, judge : SUBSET Judge, item : SUBSET EvalItem]]
    /\ \A r \in EvalID : WholeSoFar(evaluation[r], rows[r], dataset)

\* Any two rows of a run, in the words of the definition of Writes.
LEMMA WritesOf ==
    ASSUME NEW e \in EvaluationRow, NEW w
    PROVE  w \in Writes(e) <=>
             \/ w = RunRow
             \/ \E j \in e.judges : w = Row(2, {j}, {})
             \/ \E i \in e.items : w = Row(3, {}, {i})
             \/ \E j \in e.judges \ {"pairwise"}, i \in e.items : w = Row(4, {j}, {i})
             \/ \E j \in e.judges \cap {"pairwise"}, i \in e.items : w = Row(5, {j}, {i})
BY DEF Writes

\* A row of rank 4 or 5 is the verdict of one judge on one item.
LEMMA DetailRow ==
    ASSUME NEW e \in EvaluationRow, NEW w \in Writes(e), w.rank \in {4, 5}
    PROVE  \E j \in e.judges, i \in e.items : w = Row(4, {j}, {i}) \/ w = Row(5, {j}, {i})
<1>1. w # RunRow
  BY DEF RunRow, Row
<1>2. \A j \in e.judges : w # Row(2, {j}, {})
  BY DEF Row
<1>3. \A i \in e.items : w # Row(3, {}, {i})
  BY DEF Row
<1>4. \/ w = RunRow
      \/ \E j \in e.judges : w = Row(2, {j}, {})
      \/ \E i \in e.items : w = Row(3, {}, {i})
      \/ \E j \in e.judges \ {"pairwise"}, i \in e.items : w = Row(4, {j}, {i})
      \/ \E j \in e.judges \cap {"pairwise"}, i \in e.items : w = Row(5, {j}, {i})
  BY WritesOf
<1>5. CASE \E j \in e.judges \ {"pairwise"}, i \in e.items : w = Row(4, {j}, {i})
  BY <1>5
<1>6. CASE \E j \in e.judges \cap {"pairwise"}, i \in e.items : w = Row(5, {j}, {i})
  BY <1>6
<1> QED BY <1>1, <1>2, <1>3, <1>4, <1>5, <1>6

LEMMA WritesType ==
    ASSUME NEW e \in EvaluationRow
    PROVE  Writes(e) \subseteq [rank : 1..5, judge : SUBSET Judge, item : SUBSET EvalItem]
<1> SUFFICES ASSUME NEW w \in Writes(e)
             PROVE  w \in [rank : 1..5, judge : SUBSET Judge, item : SUBSET EvalItem]
  OBVIOUS
<1>1. e.judges \subseteq Judge /\ e.items \subseteq EvalItem
  BY DEF EvaluationRow
<1>2. 1 \in 1..5 /\ 2 \in 1..5 /\ 3 \in 1..5 /\ 4 \in 1..5 /\ 5 \in 1..5
  OBVIOUS
<1> QED BY <1>1, <1>2, WritesOf DEF Row, RunRow

\* A step of one run that stores nothing.
LEMMA GotoKeepsIInv ==
    ASSUME EvaluationIInv, NEW r \in EvalID, NEW e \in EvaluationRow, Goto(r, e), WholeSoFar(e, rows[r], dataset)
    PROVE  EvaluationIInv'
<1>1. evaluation' = [evaluation EXCEPT ![r] = e] /\ dataset' = dataset /\ rows' = rows
  BY DEF Goto
<1>2. \A q \in EvalID : evaluation'[q] = IF q = r THEN e ELSE evaluation[q]
  BY <1>1 DEF EvaluationIInv
<1>3. \A q \in EvalID : WholeSoFar(evaluation[q], rows[q], dataset)'
  BY <1>1, <1>2 DEF EvaluationIInv
<1> QED BY <1>1, <1>3 DEF EvaluationIInv

LEMMA EvaluationStep == EvaluationIInv /\ [EvaluationNext]_evaluationVars => EvaluationIInv'
<1> SUFFICES ASSUME EvaluationIInv, [EvaluationNext]_evaluationVars PROVE EvaluationIInv'
  OBVIOUS
<1> USE EvaluationAssumption
<1>0. ASSUME NEW r \in EvalID
      PROVE  /\ evaluation[r] \in EvaluationRow /\ WholeSoFar(evaluation[r], rows[r], dataset)
             /\ NoEvaluation \in EvaluationRow
             /\ \A split \in BOOLEAN : InSplit(dataset, split) \subseteq EvalItem
  BY DEF EvaluationIInv, NoEvaluation, EvaluationRow, InSplit
<1>1. ASSUME NEW i \in EvalItem, AddItem(i) PROVE EvaluationIInv'
  <2>1. dataset' = dataset \cup {i} /\ evaluation' = evaluation /\ rows' = rows
    BY <1>1 DEF AddItem
  <2>2. ASSUME NEW r \in EvalID PROVE WholeSoFar(evaluation[r], rows[r], dataset)'
    BY <1>0, <2>1 DEF WholeSoFar
  <2> QED BY <2>1, <2>2 DEF EvaluationIInv
<1>2. ASSUME NEW r \in EvalID, NEW split \in BOOLEAN, NEW judges \in JudgeSets, ReadItems(r, split, judges)
      PROVE  EvaluationIInv'
  <2> DEFINE e == [NoEvaluation EXCEPT !.step = IF split THEN "split" ELSE "check", !.split = split,
                                    !.judges = judges, !.summary = InSplit(dataset, split),
                                    !.items = InSplit(dataset, split)]
  <2>1. Goto(r, e) /\ rows[r] = {}
    BY <1>0, <1>2 DEF ReadItems, WholeSoFar
  <2>2. /\ e \in EvaluationRow /\ e.answered = {} /\ e.step \in {"split", "check"}
        /\ e.summary = InSplit(dataset, split) /\ e.items = e.summary
        /\ e.step = "split" => split
    BY <1>0 DEF NoEvaluation, EvaluationRow
  <2> HIDE DEF e
  <2>3. WholeSoFar(e, {}, dataset)
    BY <2>2 DEF WholeSoFar, StoredInOrder, InSplit
  <2> QED BY <2>1, <2>2, <2>3, GotoKeepsIInv
<1>3. ASSUME NEW r \in EvalID, ReadSplit(r) PROVE EvaluationIInv'
  <2> DEFINE e == [evaluation[r] EXCEPT !.step = "check", !.items = InSplit(dataset, TRUE)]
  <2>1. Goto(r, e) /\ rows[r] = {} /\ evaluation[r].step = "split"
    BY <1>0, <1>3 DEF ReadSplit, WholeSoFar
  <2>2. /\ e \in EvaluationRow /\ e.answered = evaluation[r].answered /\ e.step = "check"
        /\ e.summary = evaluation[r].summary /\ e.items = InSplit(dataset, TRUE)
    BY <1>0 DEF EvaluationRow
  <2> HIDE DEF e
  <2>3. WholeSoFar(e, {}, dataset)
    BY <1>0, <2>1, <2>2 DEF WholeSoFar, StoredInOrder, InSplit
  <2> QED BY <2>1, <2>2, <2>3, GotoKeepsIInv
<1>4. ASSUME NEW r \in EvalID, CheckItems(r) PROVE EvaluationIInv'
  <2>1. PICK step \in {"answer", "store", "failed"}, judges \in SUBSET Judge :
          /\ Goto(r, [evaluation[r] EXCEPT !.step = step, !.judges = judges])
          /\ step = "store" => evaluation[r].items = {}
    BY <1>0, <1>4 DEF CheckItems, EvaluationRow
  <2> DEFINE e == [evaluation[r] EXCEPT !.step = step, !.judges = judges]
  <2>2. rows[r] = {} /\ evaluation[r].step = "check"
    BY <1>0, <1>4 DEF CheckItems, WholeSoFar
  <2>3. /\ e \in EvaluationRow /\ e.answered = evaluation[r].answered /\ e.step = step
        /\ e.summary = evaluation[r].summary /\ e.items = evaluation[r].items
    BY <1>0 DEF EvaluationRow
  <2>4. Goto(r, e)
    BY <2>1
  <2> HIDE DEF e
  <2>5. WholeSoFar(e, {}, dataset)
    BY <1>0, <2>1, <2>2, <2>3 DEF WholeSoFar, StoredInOrder
  <2> QED BY <2>2, <2>3, <2>4, <2>5, GotoKeepsIInv
<1>5. ASSUME NEW r \in EvalID, AnswerItem(r) PROVE EvaluationIInv'
  <2>1. rows[r] = {} /\ evaluation[r].step = "answer" /\ evaluation[r].summary \subseteq evaluation[r].items
    BY <1>0, <1>5 DEF AnswerItem, WholeSoFar
  <2>2. CASE Goto(r, [evaluation[r] EXCEPT !.step = "failed"])
    <3> DEFINE e == [evaluation[r] EXCEPT !.step = "failed"]
    <3>1. e \in EvaluationRow /\ e.step = "failed"
      BY <1>0 DEF EvaluationRow
    <3> HIDE DEF e
    <3>2. WholeSoFar(e, {}, dataset)
      BY <3>1 DEF WholeSoFar, StoredInOrder
    <3> QED BY <2>1, <2>2, <3>1, <3>2, GotoKeepsIInv DEF e
  <2>3. ASSUME NEW i \in evaluation[r].items, Goto(r, [evaluation[r] EXCEPT !.answered = @ \cup {i}])
        PROVE  EvaluationIInv'
    <3> DEFINE e == [evaluation[r] EXCEPT !.answered = @ \cup {i}]
    <3>1. /\ e \in EvaluationRow /\ e.step = "answer"
          /\ e.summary = evaluation[r].summary /\ e.items = evaluation[r].items
      BY <1>0, <2>1 DEF EvaluationRow
    <3> HIDE DEF e
    <3>2. WholeSoFar(e, {}, dataset)
      BY <2>1, <3>1 DEF WholeSoFar, StoredInOrder
    <3> QED BY <2>1, <2>3, <3>1, <3>2, GotoKeepsIInv DEF e
  <2> QED BY <1>5, <2>2, <2>3 DEF AnswerItem
<1>6. ASSUME NEW r \in EvalID, BeginStore(r) PROVE EvaluationIInv'
  <2> DEFINE e == [evaluation[r] EXCEPT !.step = "store"]
  <2>1. /\ rows[r] = {} /\ evaluation[r].summary \subseteq evaluation[r].items
        /\ evaluation[r].answered = evaluation[r].items /\ Goto(r, e)
    BY <1>0, <1>6 DEF BeginStore, AllAnswered, WholeSoFar
  <2>2. /\ e \in EvaluationRow /\ e.step = "store" /\ e.answered = evaluation[r].answered
        /\ e.summary = evaluation[r].summary /\ e.items = evaluation[r].items
    BY <1>0 DEF EvaluationRow
  <2> HIDE DEF e
  <2>3. WholeSoFar(e, {}, dataset)
    BY <2>1, <2>2 DEF WholeSoFar, StoredInOrder
  <2> QED BY <2>1, <2>2, <2>3, GotoKeepsIInv
<1>7. ASSUME NEW r \in EvalID, StoreRow(r) PROVE EvaluationIInv'
  <2> DEFINE left == Writes(evaluation[r]) \ rows[r]
  <2>1. evaluation[r].step = "store" /\ evaluation[r].answered = evaluation[r].items
        /\ evaluation[r].summary \subseteq evaluation[r].items
        /\ StoredInOrder(evaluation[r], rows[r])
    BY <1>0, <1>7 DEF StoreRow, WholeSoFar
  <2>2. ASSUME NEW w \in left, InOrder(w, left), rows' = [rows EXCEPT ![r] = @ \cup {w}],
               UNCHANGED <<dataset, evaluation>>
        PROVE  EvaluationIInv'
    <3>1. rows'[r] = rows[r] \cup {w} /\ \A q \in EvalID : q # r => rows'[q] = rows[q]
      BY <2>2 DEF EvaluationIInv
    <3>2. /\ w \in [rank : 1..5, judge : SUBSET Judge, item : SUBSET EvalItem]
          /\ rows' \in [EvalID -> SUBSET [rank : 1..5, judge : SUBSET Judge, item : SUBSET EvalItem]]
      BY <1>0, <2>2, WritesType DEF EvaluationIInv
    <3>3. StoredInOrder(evaluation[r], rows[r] \cup {w})
      BY <2>1, <2>2 DEF StoredInOrder, InOrder
    <3>4. WholeSoFar(evaluation[r], rows[r] \cup {w}, dataset)
      BY <1>0, <2>1, <3>3 DEF WholeSoFar
    <3>5. ASSUME NEW q \in EvalID PROVE WholeSoFar(evaluation[q], rows[q], dataset)'
      BY <1>0, <2>2, <3>1, <3>4
    <3> QED BY <2>2, <3>2, <3>5 DEF EvaluationIInv
  <2>3. ASSUME NEW step \in {"failed", "returned"}, step = "returned" => left = {},
               Goto(r, [evaluation[r] EXCEPT !.step = step])
        PROVE  EvaluationIInv'
    <3> DEFINE e == [evaluation[r] EXCEPT !.step = step]
    <3>1. /\ e \in EvaluationRow /\ e.step = step /\ e.answered = evaluation[r].answered
          /\ e.summary = evaluation[r].summary /\ e.items = evaluation[r].items
          /\ e.judges = evaluation[r].judges
      BY <1>0 DEF EvaluationRow
    <3>2. Goto(r, e)
      BY <2>3
    <3> HIDE DEF e
    <3>3. Writes(e) = Writes(evaluation[r])
      BY <3>1 DEF Writes
    <3>4. WholeSoFar(e, rows[r], dataset)
      BY <2>1, <2>3, <3>1, <3>3 DEF WholeSoFar, StoredInOrder
    <3> QED BY <3>1, <3>2, <3>4, GotoKeepsIInv
  <2> QED BY <1>7, <2>2, <2>3 DEF StoreRow
<1>8. CASE UNCHANGED evaluationVars
  <2>1. dataset' = dataset /\ evaluation' = evaluation /\ rows' = rows
    BY <1>8 DEF evaluationVars
  <2> QED BY <2>1 DEF EvaluationIInv
<1> QED BY <1>1, <1>2, <1>3, <1>4, <1>5, <1>6, <1>7, <1>8 DEF EvaluationNext

\* Whichever query, judgement or write of Runner.Run fails, a row of a run means that
\* all its items were answered, details have their parents, and what is returned is
\* complete.
THEOREM EvaluationStored == EvaluationSpec => []StoredRunIsWhole
<1>1. EvaluationInit => EvaluationIInv
  BY DEF EvaluationInit, EvaluationIInv, NoEvaluation, EvaluationRow, WholeSoFar, StoredInOrder
<1>2. EvaluationIInv => StoredRunIsWhole
  <2> SUFFICES ASSUME EvaluationIInv, NEW r \in EvalID
               PROVE  /\ RunRow \in rows[r] => evaluation[r].answered = evaluation[r].items
                      /\ \A w \in rows[r] :
                           /\ RunRow \in rows[r]
                           /\ w.rank \in {4, 5} => Row(2, w.judge, {}) \in rows[r] /\ Row(3, {}, w.item) \in rows[r]
                      /\ evaluation[r].step = "returned" =>
                           \A i \in evaluation[r].items :
                             /\ Row(3, {}, {i}) \in rows[r]
                             /\ \A j \in evaluation[r].judges :
                                  Row(4, {j}, {i}) \in rows[r] \/ Row(5, {j}, {i}) \in rows[r]
                      /\ evaluation[r].step \notin {"idle", "split", "failed"} =>
                           evaluation[r].summary \subseteq evaluation[r].items
    BY DEF StoredRunIsWhole, RunRowEarned, DetailHasParents, ReturnedIsComplete, SummaryCovered
  <2> DEFINE e == evaluation[r]
  <2>1. e \in EvaluationRow /\ WholeSoFar(e, rows[r], dataset)
    BY DEF EvaluationIInv
  <2> HIDE DEF e
  <2>2. \A n, j, i : Row(n, j, i).rank = n /\ Row(n, j, i).judge = j /\ Row(n, j, i).item = i
    BY DEF Row
  <2>3. RunRow \in rows[r] => e.answered = e.items
    BY <2>1 DEF WholeSoFar
  <2>4. ASSUME NEW w \in rows[r] PROVE RunRow \in rows[r]
    <3>1. w \in Writes(e) /\ RunRow \in Writes(e) /\ RunRow.rank = 1
      BY <2>1, <2>2, WritesOf DEF WholeSoFar, StoredInOrder, RunRow
    <3>2. RunRow \notin rows[r] => w.rank <= 1
      BY <2>1, <3>1 DEF WholeSoFar, StoredInOrder
    <3>3. w = RunRow \/ w.rank \in {2, 3, 4, 5}
      BY <2>1, <3>1, WritesOf DEF Row
    <3> QED BY <3>2, <3>3
  <2>5. ASSUME NEW w \in rows[r], w.rank \in {4, 5}
        PROVE  Row(2, w.judge, {}) \in rows[r] /\ Row(3, {}, w.item) \in rows[r]
    <3>1. w \in Writes(e)
      BY <2>1 DEF WholeSoFar, StoredInOrder
    <3>2. PICK j \in e.judges, i \in e.items : w = Row(4, {j}, {i}) \/ w = Row(5, {j}, {i})
      BY <2>1, <2>5, <3>1, DetailRow
    <3>3. w.judge = {j} /\ w.item = {i}
      BY <2>2, <3>2
    <3>4. Row(2, {j}, {}) \in Writes(e) /\ Row(3, {}, {i}) \in Writes(e)
      BY <2>1, <3>2, WritesOf
    <3>5. ~(w.rank <= 2) /\ ~(w.rank <= 3)
      BY <2>5
    <3>6. Row(2, {j}, {}).rank = 2 /\ Row(3, {}, {i}).rank = 3
      BY <2>2
    <3> QED BY <2>1, <3>3, <3>4, <3>5, <3>6 DEF WholeSoFar, StoredInOrder
  <2>6. ASSUME e.step = "returned", NEW i \in e.items
        PROVE  /\ Row(3, {}, {i}) \in rows[r]
               /\ \A j \in e.judges : Row(4, {j}, {i}) \in rows[r] \/ Row(5, {j}, {i}) \in rows[r]
    BY <2>1, <2>6, WritesOf DEF WholeSoFar
  <2>7. e.step \notin {"idle", "split", "failed"} => e.summary \subseteq e.items
    BY <2>1 DEF WholeSoFar
  <2> QED BY <2>3, <2>4, <2>5, <2>6, <2>7 DEF e
<1> QED BY <1>1, <1>2, EvaluationStep, PTL DEF EvaluationSpec

-----------------------------------------------------------------------------
(***************************************************************************)
(* The judge of an evaluation                                              *)
(***************************************************************************)

BothAsked(c) == c.ask = "pairwise" /\ c.swap

Questions(c) == Wanted(c) * (IF BothAsked(c) THEN 2 ELSE 1)

\* Output i of the answers heard.
OutputAt(c, heard, i) ==
    CASE c.ask = "score" -> parseJudgeOutput(heard[i])
      [] c.ask = "pairwise" -> IF c.swap THEN BothOrders(heard[2 * i - 1], heard[2 * i]) ELSE OneOrder(heard[i])
      [] c.ask = "qag" -> summarizeQAGClaims(heard[i])

SaidOf(c, r) ==
    /\ c.ask = "score" => r \in ScoreAnswer
    /\ c.ask = "pairwise" => r \in PairAnswer /\ r.winner \in {"A", "B", "tie"}
    /\ c.ask = "qag" => r \in ClaimAnswer

\* The outputs are those of the answers, and no answer is left out.
OutputsFit(c, heard, outputs) ==
    /\ Len(outputs) = IF BothAsked(c) THEN Len(heard) \div 2 ELSE Len(heard)
    /\ \A i \in 1..Len(heard) : SaidOf(c, heard[i])
    /\ \A i \in 1..Len(outputs) : outputs[i] = OutputAt(c, heard, i)

WithinBudget(j) ==
    /\ j.conf.maxCalls > 0 => j.sent <= j.conf.maxCalls
    /\ j.sent <= Questions(j.conf) * (j.conf.retries + 1)

\* Every question heard took at most all its attempts, the one asked now took
\* those that are counted.
AsksOn(j) ==
    /\ j.conf \in JudgeConf /\ j.used = j.sent
    /\ j.conf.maxCalls > 0 => j.sent <= j.conf.maxCalls
    /\ j.attempt <= j.conf.retries
    /\ j.sent <= Len(j.heard) * (j.conf.retries + 1) + j.attempt
    /\ OutputsFit(j.conf, j.heard, j.outputs)
    /\ Len(j.outputs) < Wanted(j.conf)

HasResult(j) ==
    /\ j.conf \in JudgeConf /\ WithinBudget(j)
    /\ OutputsFit(j.conf, j.heard, j.outputs) /\ Len(j.outputs) >= 1
    /\ j.result = Aggregate(j.conf, j.outputs)

JudgeRow(T, U) ==
    [pc : {"idle", "call", "wait", "done", "failed"}, conf : JudgeConf \cup {NoResult}, attempt : Nat,
     used : Nat, sent : Nat, heard : Seq(T), outputs : Seq(T), result : U]

JudgeSound(j) ==
    /\ \E T, U : j \in JudgeRow(T, U)
    /\ j.pc = "idle" => j.conf = NoResult /\ j.heard = << >> /\ j.outputs = << >> /\ j.attempt = 0 /\ j.used = 0 /\ j.sent = 0
    /\ j.pc \in {"call", "wait"} => AsksOn(j)
    /\ j.pc = "done" => HasResult(j)
    /\ j.pc = "failed" => j.conf = NoResult \/ (j.conf \in JudgeConf /\ WithinBudget(j))

JudgeIInv == JudgeSound(judging)

-----------------------------------------------------------------------------

LEMMA ConfType ==
    ASSUME NEW c \in JudgeConf
    PROVE  /\ c.ask \in {"score", "pairwise", "qag"} /\ c.swap \in BOOLEAN
           /\ c.retries \in Nat /\ c.circuit \in Int /\ c.maxCalls \in Int
           /\ Wanted(c) \in Nat /\ Wanted(c) >= 1 /\ Questions(c) \in Nat
           /\ Questions(c) = (IF BothAsked(c) THEN 2 * Wanted(c) ELSE Wanted(c))
<1>1. /\ c.ask \in {"score", "pairwise", "qag"} /\ c.models \in Nat \ {0} /\ c.repeat \in Int /\ c.swap \in BOOLEAN
      /\ c.retries \in Nat /\ c.circuit \in Int /\ c.maxCalls \in Int
  BY JudgeAssumption
<1>2. PICK m \in Nat : m = max1(c.repeat) /\ m >= 1
  BY <1>1 DEF max1
<1>3. c.models * m \in Nat /\ c.models * m >= 1
  BY <1>1, <1>2
<1>4. Wanted(c) \in Nat /\ Wanted(c) >= 1
  BY <1>1, <1>2, <1>3 DEF Wanted
<1> HIDE DEF Wanted
<1>5. Questions(c) = (IF BothAsked(c) THEN 2 * Wanted(c) ELSE Wanted(c))
  BY <1>4 DEF Questions
<1> QED BY <1>1, <1>4, <1>5

\* A question that is still asked stays within the attempts of all questions.
LEMMA AttemptsFit ==
    ASSUME NEW s \in Nat, NEW h \in Nat, NEW q \in Nat, NEW r \in Nat, NEW a \in Nat,
           h < q, a <= r, s <= h * (r + 1) + a + 1
    PROVE  s <= q * (r + 1)
<1>1. PICK d \in Nat : q = h + 1 + d
  <2>1. q - h - 1 \in Nat /\ q = h + 1 + (q - h - 1)
    OBVIOUS
  <2> QED BY <2>1
<1>2. PICK k \in Nat : k = r + 1
  OBVIOUS
<1>3. q * k = h * k + k + d * k
  BY <1>1, <1>2
<1>4. d * k \in Nat /\ h * k \in Nat /\ q * k \in Nat
  BY <1>1, <1>2
<1>5. s <= h * k + a + 1 /\ a + 1 <= k
  BY <1>2
<1>6. s <= q * k
  BY <1>3, <1>4, <1>5
<1> QED BY <1>2, <1>6

LEMMA Widened ==
    ASSUME NEW T, NEW s \in Seq(T), NEW e
    PROVE  /\ s \in Seq(T \cup {e}) /\ Append(s, e) \in Seq(T \cup {e})
           /\ Len(Append(s, e)) = Len(s) + 1 /\ Len(s) \in Nat
           /\ \A i \in 1..Len(s) : Append(s, e)[i] = s[i]
           /\ Append(s, e)[Len(s) + 1] = e
<1>1. s \in Seq(T \cup {e})
  OBVIOUS
<1> QED BY <1>1

LEMMA JudgeStart == JudgeInit => JudgeIInv
<1> SUFFICES ASSUME JudgeInit PROVE JudgeSound(judging)
  BY DEF JudgeIInv
<1>1. judging \in JudgeRow({}, {NoResult})
  BY DEF JudgeInit, JudgeRow
<1> QED BY <1>1 DEF JudgeInit, JudgeSound

\* Outputs that are missing are questions that are left.
LEMMA QuestionsLeft ==
    ASSUME NEW c \in JudgeConf, NEW h \in Nat, NEW o \in Nat, o < Wanted(c),
           o = IF BothAsked(c) THEN h \div 2 ELSE h
    PROVE  h < Questions(c)
<1>1. PICK w \in Nat : w = Wanted(c)
  BY ConfType
<1>2. CASE BothAsked(c)
  <2>1. Questions(c) = 2 * w /\ h \div 2 < w
    BY <1>1, <1>2, ConfType
  <2> QED BY <2>1
<1>3. CASE ~BothAsked(c)
  <2>1. Questions(c) = w /\ h < w
    BY <1>1, <1>3, ConfType
  <2> QED BY <2>1
<1> QED BY <1>2, <1>3

\* A call that fails stays within its budget, the attempt that failed included.
LEMMA AskFails ==
    ASSUME NEW T, NEW U, NEW j \in JudgeRow(T, U), AsksOn(j), NEW s \in Nat, s \in {j.sent, j.sent + 1},
           j.conf.maxCalls > 0 => s <= j.conf.maxCalls,
           NEW k, k \in JudgeRow(T, U), k.pc = "failed", k.conf = j.conf, k.sent = s
    PROVE  JudgeSound(k)
<1>1. PICK c \in JudgeConf : c = j.conf
  BY DEF AsksOn
<1>2. c.retries \in Nat /\ Questions(c) \in Nat /\ Len(j.heard) \in Nat /\ Len(j.heard) < Questions(c) /\ j.attempt \in Nat
  <2>1. j.attempt \in Nat /\ Len(j.heard) \in Nat /\ Len(j.outputs) \in Nat
    BY DEF JudgeRow
  <2>2. Len(j.outputs) < Wanted(c) /\ Len(j.outputs) = IF BothAsked(c) THEN Len(j.heard) \div 2 ELSE Len(j.heard)
    BY <1>1 DEF AsksOn, OutputsFit
  <2>3. Len(j.heard) < Questions(c)
    BY <2>1, <2>2, QuestionsLeft
  <2> QED BY <2>1, <2>3, ConfType
<1>3. s <= Len(j.heard) * (c.retries + 1) + j.attempt + 1
  <2>1. j.sent <= Len(j.heard) * (c.retries + 1) + j.attempt /\ j.sent \in Nat
    BY <1>1 DEF AsksOn, JudgeRow
  <2>2. Len(j.heard) * (c.retries + 1) \in Nat
    BY <1>2
  <2> QED BY <1>2, <2>1, <2>2
<1>4. s <= Questions(c) * (c.retries + 1)
  BY <1>1, <1>2, <1>3, AttemptsFit DEF AsksOn
<1>5. WithinBudget(k)
  BY <1>1, <1>4 DEF WithinBudget
<1> QED BY <1>1, <1>5 DEF JudgeSound

LEMMA StartStep ==
    ASSUME JudgeIInv, NEW c \in JudgeConf, StartJudge(c)
    PROVE  JudgeIInv'
<1>1. PICK T, U : judging \in JudgeRow(T, U)
  BY DEF JudgeIInv, JudgeSound
<1>2. /\ judging.pc = "idle" /\ judging.conf = NoResult /\ judging.heard = << >> /\ judging.outputs = << >>
      /\ judging.attempt = 0 /\ judging.used = 0 /\ judging.sent = 0
  BY DEF JudgeIInv, JudgeSound, StartJudge
<1>3. CASE judging' = Fails(judging)
  <2>1. judging' \in JudgeRow(T, U) /\ judging'.pc = "failed" /\ judging'.conf = NoResult
    BY <1>1, <1>2, <1>3 DEF Fails, JudgeRow
  <2> QED BY <2>1 DEF JudgeIInv, JudgeSound
<1>4. CASE judging' = [judging EXCEPT !.pc = "call", !.conf = c]
  <2>1. /\ judging' \in JudgeRow(T, U) /\ judging'.pc = "call" /\ judging'.conf = c
        /\ judging'.heard = << >> /\ judging'.outputs = << >>
        /\ judging'.attempt = 0 /\ judging'.used = 0 /\ judging'.sent = 0
    BY <1>1, <1>2, <1>4 DEF JudgeRow
  <2>2. OutputsFit(c, << >>, << >>)
    BY DEF OutputsFit
  <2>3. c.retries \in Nat /\ Wanted(c) >= 1 /\ Wanted(c) \in Nat
    BY ConfType
  <2>4. 0 <= Len(judging'.heard) * (c.retries + 1) + 0 /\ Len(judging'.outputs) < Wanted(c)
    BY <2>1, <2>3
  <2>5. AsksOn(judging')
    <3>1. PICK k : k = judging'
      OBVIOUS
    <3>2. k.heard = << >> /\ k.outputs = << >> /\ k.conf = c /\ k.attempt = 0 /\ k.used = 0 /\ k.sent = 0
      BY <2>1, <3>1
    <3>3. AsksOn(k)
      <4>1. k.attempt <= c.retries /\ k.sent <= Len(k.heard) * (c.retries + 1) + k.attempt /\ Len(k.outputs) < Wanted(c)
        BY <2>3, <2>4, <3>1, <3>2
      <4>2. c.maxCalls > 0 => k.sent <= c.maxCalls
        BY <3>2, ConfType
      <4> QED BY <2>2, <3>2, <4>1, <4>2 DEF AsksOn
    <3> QED BY <3>1, <3>3
  <2> QED BY <2>1, <2>5 DEF JudgeIInv, JudgeSound
<1> QED BY <1>3, <1>4 DEF StartJudge

LEMMA BackoffStep ==
    ASSUME JudgeIInv, JudgeBackoff
    PROVE  JudgeIInv'
<1>1. PICK T, U : judging \in JudgeRow(T, U)
  BY DEF JudgeIInv, JudgeSound
<1>2. judging.pc = "wait" /\ AsksOn(judging)
  BY DEF JudgeIInv, JudgeSound, JudgeBackoff
<1>3. CASE judging' = Fails(judging)
  <2>1. /\ judging' \in JudgeRow(T, U) /\ judging'.pc = "failed" /\ judging'.conf = judging.conf
        /\ judging'.sent = judging.sent /\ judging.sent \in Nat
    BY <1>1, <1>3 DEF Fails, JudgeRow
  <2>2. judging.conf.maxCalls > 0 => judging.sent <= judging.conf.maxCalls
    BY <1>2 DEF AsksOn
  <2>3. PICK k : k = judging'
    OBVIOUS
  <2>4. PICK j : j = judging
    OBVIOUS
  <2>5. JudgeSound(k)
    BY <1>1, <1>2, <2>1, <2>2, <2>3, <2>4, AskFails
  <2> QED BY <2>3, <2>5 DEF JudgeIInv
<1>4. CASE judging' = [judging EXCEPT !.pc = "call"]
  <2>1. /\ judging' \in JudgeRow(T, U) /\ judging'.pc = "call" /\ judging'.conf = judging.conf
        /\ judging'.sent = judging.sent /\ judging'.used = judging.used /\ judging'.attempt = judging.attempt
        /\ judging'.heard = judging.heard /\ judging'.outputs = judging.outputs
    BY <1>1, <1>4 DEF JudgeRow
  <2>2. AsksOn(judging')
    BY <1>2, <2>1 DEF AsksOn
  <2> QED BY <2>1, <2>2 DEF JudgeIInv, JudgeSound
<1> QED BY <1>3, <1>4 DEF JudgeBackoff

\* A failed attempt is the last one, or is counted.
LEMMA RetryStep ==
    ASSUME NEW T, NEW U, NEW i \in JudgeRow(T, U), AsksOn(i), ~Exhausted(i),
           NEW j, j = [i EXCEPT !.used = Used(i), !.sent = @ + 1]
    PROVE  JudgeSound(Fails(j)) /\ JudgeSound(Retries(j)) /\ JudgeSound(Fails(i))
<1>1. PICK c \in JudgeConf : c = i.conf
  BY DEF AsksOn
<1>2. /\ i.used = i.sent /\ i.sent \in Nat /\ i.attempt \in Nat /\ i.attempt <= c.retries /\ Len(i.heard) \in Nat
      /\ i.sent <= Len(i.heard) * (c.retries + 1) + i.attempt
      /\ OutputsFit(c, i.heard, i.outputs) /\ Len(i.outputs) < Wanted(c)
      /\ c.maxCalls > 0 => i.sent <= c.maxCalls
  BY <1>1 DEF AsksOn, JudgeRow
<1>3. c.retries \in Nat /\ c.maxCalls \in Int /\ c.circuit \in Int
  BY ConfType
<1>4. c.maxCalls > 0 => i.sent + 1 <= c.maxCalls
  BY <1>1, <1>2, <1>3 DEF Exhausted
<1>5. /\ j \in JudgeRow(T, U) /\ j.conf = c /\ j.used = i.sent + 1 /\ j.sent = i.sent + 1 /\ j.attempt = i.attempt
      /\ j.heard = i.heard /\ j.outputs = i.outputs /\ j.pc = i.pc
  <2>1. PICK n \in Nat : n = i.sent + 1
    BY <1>2
  <2>2. j = [i EXCEPT !.used = n, !.sent = n]
    BY <1>2, <2>1 DEF Used
  <2>3. j = [pc |-> i.pc, conf |-> i.conf, attempt |-> i.attempt, used |-> n, sent |-> n, heard |-> i.heard,
             outputs |-> i.outputs, result |-> i.result]
    BY <2>2 DEF JudgeRow
  <2>4. j \in JudgeRow(T, U)
    BY <2>3 DEF JudgeRow
  <2>5. /\ j.conf = i.conf /\ j.used = n /\ j.sent = n /\ j.attempt = i.attempt
        /\ j.heard = i.heard /\ j.outputs = i.outputs /\ j.pc = i.pc
    BY ONLY <2>3
  <2> QED BY <1>1, <2>1, <2>4, <2>5
<1>6. JudgeSound(Fails(i))
  <2>1. PICK k : k = Fails(i)
    OBVIOUS
  <2>2. k \in JudgeRow(T, U) /\ k.pc = "failed" /\ k.conf = i.conf /\ k.sent = i.sent
    BY <2>1 DEF Fails, JudgeRow
  <2>3. JudgeSound(k)
    BY <1>1, <1>2, <2>2, AskFails
  <2> QED BY <2>1, <2>3
<1>7. JudgeSound(Fails(j))
  <2>1. PICK k : k = Fails(j)
    OBVIOUS
  <2>2. k \in JudgeRow(T, U) /\ k.pc = "failed" /\ k.conf = i.conf /\ k.sent = i.sent + 1
    BY <1>1, <1>5, <2>1 DEF Fails, JudgeRow
  <2>3. JudgeSound(k)
    <3>1. PICK n \in Nat : n = i.sent + 1
      BY <1>2
    <3> QED BY <1>1, <1>2, <1>4, <2>2, <3>1, AskFails
  <2> QED BY <2>1, <2>3
<1>8. ASSUME ~(j.attempt >= j.conf.retries) PROVE JudgeSound([j EXCEPT !.pc = "wait", !.attempt = @ + 1])
  <2>1. PICK k : k = [j EXCEPT !.pc = "wait", !.attempt = @ + 1]
    OBVIOUS
  <2>2. /\ k \in JudgeRow(T, U) /\ k.pc = "wait" /\ k.conf = c /\ k.sent = i.sent + 1 /\ k.used = i.sent + 1
        /\ k.attempt = i.attempt + 1 /\ k.heard = i.heard /\ k.outputs = i.outputs
    <3>1. PICK n \in Nat : n = i.attempt + 1
      BY <1>2
    <3>2. k = [pc |-> "wait", conf |-> j.conf, attempt |-> n, used |-> j.used, sent |-> j.sent, heard |-> j.heard,
               outputs |-> j.outputs, result |-> j.result]
      BY <1>5, <2>1, <3>1 DEF JudgeRow
    <3>3. k \in JudgeRow(T, U)
      BY <1>5, <3>1, <3>2 DEF JudgeRow
    <3> QED BY <1>5, <3>1, <3>2, <3>3
  <2>3. i.attempt + 1 <= c.retries
    BY <1>2, <1>3, <1>5, <1>8
  <2>4. i.sent + 1 <= Len(i.heard) * (c.retries + 1) + (i.attempt + 1)
    <3>1. Len(i.heard) * (c.retries + 1) \in Nat
      BY <1>2, <1>3
    <3> QED BY <1>2, <3>1
  <2>5. AsksOn(k)
    BY <1>2, <1>4, <2>2, <2>3, <2>4 DEF AsksOn
  <2>6. JudgeSound(k)
    BY <2>2, <2>5 DEF JudgeSound
  <2> QED BY <2>1, <2>6
<1> QED BY <1>6, <1>7, <1>8 DEF Retries
\* An output depends on its own answers only.
LEMMA SameOutput ==
    ASSUME NEW c \in JudgeConf, NEW n \in Nat, NEW i \in Nat, i >= 1, NEW s, NEW t,
           IF BothAsked(c) THEN 2 * i <= n ELSE i <= n, \A k \in 1..n : s[k] = t[k]
    PROVE  OutputAt(c, s, i) = OutputAt(c, t, i)
<1>1. c.ask \in {"score", "pairwise", "qag"}
  BY ConfType
<1>2. CASE BothAsked(c)
  <2>1. 2 * i - 1 \in 1..n /\ 2 * i \in 1..n
    BY <1>2
  <2>2. s[2 * i - 1] = t[2 * i - 1] /\ s[2 * i] = t[2 * i]
    BY <2>1
  <2> QED BY <1>2, <2>2 DEF OutputAt, BothAsked
<1>3. CASE ~BothAsked(c)
  <2>1. s[i] = t[i]
    BY <1>3
  <2> QED BY <1>1, <1>3, <2>1 DEF OutputAt, BothAsked
<1> QED BY <1>2, <1>3

\* An answer that is heard completes an output, unless the other order follows.
LEMMA FitsNext ==
    ASSUME NEW c \in JudgeConf, NEW T, NEW heard \in Seq(T), NEW outputs \in Seq(T), OutputsFit(c, heard, outputs),
           NEW r, SaidOf(c, r), NEW more, more = Append(heard, r), NEW e, NEW out, out = Append(outputs, e)
    PROVE  IF BothAsked(c) /\ (Len(heard) + 1) % 2 = 1 THEN OutputsFit(c, more, outputs)
           ELSE e = OutputAt(c, more, Len(outputs) + 1) => OutputsFit(c, more, out)
<1>1. PICK n \in Nat : n = Len(heard)
  OBVIOUS
<1>2. PICK m \in Nat : m = Len(outputs)
  OBVIOUS
<1>3. Len(more) = n + 1 /\ (\A i \in 1..n : more[i] = heard[i]) /\ more[n + 1] = r
  BY <1>1, Widened
<1>4. Len(out) = m + 1 /\ (\A i \in 1..m : out[i] = outputs[i]) /\ out[m + 1] = e
  BY <1>2, Widened
<1>5. m = (IF BothAsked(c) THEN n \div 2 ELSE n)
  BY <1>1, <1>2 DEF OutputsFit
<1>6. \A i \in 1..Len(more) : SaidOf(c, more[i])
  <2> SUFFICES ASSUME NEW i \in 1..(n + 1) PROVE SaidOf(c, more[i])
    BY <1>3
  <2>1. CASE i = n + 1
    BY <1>3, <2>1
  <2>2. CASE i # n + 1
    <3>1. i \in 1..n /\ i \in 1..Len(heard)
      BY <1>1, <2>2
    <3> QED BY <1>3, <3>1 DEF OutputsFit
  <2> QED BY <2>1, <2>2
<1>7. \A i \in 1..m : outputs[i] = OutputAt(c, more, i)
  <2> SUFFICES ASSUME NEW i \in 1..m PROVE outputs[i] = OutputAt(c, more, i)
    OBVIOUS
  <2>1. outputs[i] = OutputAt(c, heard, i)
    BY <1>2 DEF OutputsFit
  <2>2. i \in Nat /\ i >= 1 /\ IF BothAsked(c) THEN 2 * i <= n ELSE i <= n
    BY <1>5
  <2>3. OutputAt(c, more, i) = OutputAt(c, heard, i)
    <3>1. \A k \in 1..n : more[k] = heard[k]
      BY <1>3
    <3>2. PICK x \in Nat : x = i
      BY <2>2
    <3>3. x >= 1 /\ IF BothAsked(c) THEN 2 * x <= n ELSE x <= n
      BY <2>2, <3>2
    <3>4. OutputAt(c, more, x) = OutputAt(c, heard, x)
      BY ONLY <3>1, <3>3, x \in Nat, n \in Nat, c \in JudgeConf, SameOutput
    <3> QED BY <3>2, <3>4
  <2> QED BY <2>1, <2>3
<1>8. CASE BothAsked(c) /\ (Len(heard) + 1) % 2 = 1
  <2>1. (n + 1) \div 2 = m
    BY <1>1, <1>5, <1>8
  <2>2. Len(outputs) = IF BothAsked(c) THEN Len(more) \div 2 ELSE Len(more)
    BY <1>2, <1>3, <1>8, <2>1
  <2> QED BY <1>2, <1>6, <1>7, <1>8, <2>2 DEF OutputsFit
<1>9. CASE ~(BothAsked(c) /\ (Len(heard) + 1) % 2 = 1)
  <2> SUFFICES ASSUME e = OutputAt(c, more, m + 1) PROVE OutputsFit(c, more, out)
    BY <1>2, <1>9
  <2>1. m + 1 = (IF BothAsked(c) THEN (n + 1) \div 2 ELSE n + 1)
    BY <1>1, <1>5, <1>9
  <2>2. \A i \in 1..(m + 1) : out[i] = OutputAt(c, more, i)
    <3> SUFFICES ASSUME NEW i \in 1..(m + 1) PROVE out[i] = OutputAt(c, more, i)
      OBVIOUS
    <3>1. CASE i = m + 1
      BY <1>4, <3>1
    <3>2. CASE i # m + 1
      <4>1. i \in 1..m
        BY <3>2
      <4> QED BY <1>4, <1>7, <4>1
    <3> QED BY <3>1, <3>2
  <2> QED BY <1>3, <1>4, <1>6, <2>1, <2>2 DEF OutputsFit
<1> QED BY <1>8, <1>9

\* An answer that parses is the start of the next question or the last one.
LEMMA HearStep ==
    ASSUME NEW T, NEW U, NEW j \in JudgeRow(T, U), j.pc = "call", j.conf \in JudgeConf, j.used = j.sent,
           j.conf.maxCalls > 0 => j.sent <= j.conf.maxCalls,
           j.sent <= Len(j.heard) * (j.conf.retries + 1) + j.conf.retries + 1,
           OutputsFit(j.conf, j.heard, j.outputs), Len(j.outputs) < Wanted(j.conf),
           NEW r \in Sayings(j.conf), Parses(j, r)
    PROVE  JudgeSound(Hears(j, r))
<1>1. PICK c \in JudgeConf : c = j.conf
  OBVIOUS
<1>2. /\ j.heard \in Seq(T) /\ j.outputs \in Seq(T) /\ j.sent \in Nat /\ Len(j.heard) \in Nat /\ Len(j.outputs) \in Nat
      /\ c.retries \in Nat /\ Wanted(c) \in Nat /\ c.ask \in {"score", "pairwise", "qag"} /\ c.swap \in BOOLEAN
  BY ConfType DEF JudgeRow
<1>3. SaidOf(c, r)
  BY <1>1, <1>2 DEF Sayings, Parses, SaidOf
<1>4. PICK more : more = Append(j.heard, r)
  OBVIOUS
<1>5. PICK h : h = [j EXCEPT !.heard = Append(@, r), !.attempt = 0]
  OBVIOUS
<1>6. more \in Seq(T \cup {r}) /\ j.outputs \in Seq(T \cup {r}) /\ Len(more) = Len(j.heard) + 1
  BY <1>2, <1>4, Widened
<1>7. h = [pc |-> "call", conf |-> c, attempt |-> 0, used |-> j.sent, sent |-> j.sent, heard |-> more,
           outputs |-> j.outputs, result |-> j.result]
  BY <1>1, <1>4, <1>5 DEF JudgeRow
<1>8. /\ h.pc = "call" /\ h.conf = c /\ h.attempt = 0 /\ h.used = j.sent /\ h.sent = j.sent /\ h.heard = more
      /\ h.outputs = j.outputs
  BY ONLY <1>7
<1>9. AwaitsSwap(h) <=> BothAsked(c) /\ (Len(j.heard) + 1) % 2 = 1
  BY <1>6, <1>8 DEF AwaitsSwap, BothAsked
<1>10. j.sent <= Len(more) * (c.retries + 1) + 0
  <2>1. PICK n \in Nat : n = Len(j.heard)
    BY <1>2
  <2>2. PICK k \in Nat : k = c.retries + 1
    BY <1>2
  <2>3. (n + 1) * k = n * k + k /\ n * k \in Nat
    BY ONLY n \in Nat, k \in Nat
  <2>4. j.sent <= n * k + k
    BY <1>1, <1>2, <2>1, <2>2, <2>3
  <2> QED BY <1>6, <2>1, <2>2, <2>3, <2>4
<1>11. CASE AwaitsSwap(h)
  <2>1. Hears(j, r) = h
    BY <1>1, <1>5, <1>8, <1>11 DEF Hears
  <2>2. OutputsFit(c, more, j.outputs)
    BY <1>1, <1>2, <1>3, <1>4, <1>9, <1>11, FitsNext
  <2>3. AsksOn(h)
    BY <1>1, <1>2, <1>8, <1>10, <2>2 DEF AsksOn
  <2>4. h \in JudgeRow(T \cup {r}, U)
    BY <1>2, <1>6, <1>7 DEF JudgeRow
  <2> QED BY <1>8, <2>1, <2>3, <2>4 DEF JudgeSound
<1>12. CASE ~AwaitsSwap(h)
  <2>1. PICK e : e = Output(h)
    OBVIOUS
  <2>2. PICK out : out = Append(j.outputs, e)
    OBVIOUS
  <2>3. /\ out \in Seq(T \cup {r} \cup {e}) /\ more \in Seq(T \cup {r} \cup {e})
        /\ Len(out) = Len(j.outputs) + 1 /\ Len(out) \in Nat
    <3>1. Len(out) = Len(j.outputs) + 1 /\ out \in Seq((T \cup {r}) \cup {e})
      BY <1>6, <2>2, Widened
    <3>2. more \in Seq((T \cup {r}) \cup {e})
      BY <1>6, Widened
    <3> QED BY <1>2, <3>1, <3>2
  <2>4. e = OutputAt(c, more, Len(j.outputs) + 1)
    <3>1. PICK n \in Nat : n = Len(j.heard)
      BY <1>2
    <3>2. Len(j.outputs) = IF BothAsked(c) THEN n \div 2 ELSE n
      BY <1>1, <3>1 DEF OutputsFit
    <3>3. ASSUME BothAsked(c) PROVE 2 * (Len(j.outputs) + 1) = n + 1
      <4>1. (n + 1) % 2 # 1
        BY <1>9, <1>12, <3>1, <3>3
      <4>2. 2 * (n \div 2 + 1) = n + 1
        BY <4>1
      <4> QED BY <3>2, <3>3, <4>2
    <3>4. ~BothAsked(c) => Len(j.outputs) + 1 = n + 1
      BY <3>2
    <3>5. Len(h.heard) = n + 1
      BY <1>6, <1>8, <3>1
    <3>6. CASE BothAsked(c)
      <4>1. c.ask = "pairwise" /\ c.swap
        BY <3>6 DEF BothAsked
      <4>2. e = BothOrders(more[n + 1 - 1], more[n + 1])
        BY <1>8, <2>1, <3>5, <4>1 DEF Output
      <4> QED BY <3>3, <3>6, <4>1, <4>2 DEF OutputAt
    <3>7. CASE ~BothAsked(c)
      BY <1>2, <1>8, <2>1, <3>4, <3>5, <3>7 DEF Output, OutputAt, BothAsked
    <3> QED BY <3>6, <3>7
  <2>5. OutputsFit(c, more, out)
    BY <1>1, <1>2, <1>3, <1>4, <1>9, <1>12, <2>2, <2>4, FitsNext
  <2>6. PICK o : o = [h EXCEPT !.outputs = Append(@, Output(h))]
    OBVIOUS
  <2>7. o = [pc |-> "call", conf |-> c, attempt |-> 0, used |-> j.sent, sent |-> j.sent, heard |-> more,
             outputs |-> out, result |-> j.result]
    BY <1>7, <1>8, <2>1, <2>2, <2>6
  <2>8. /\ o.pc = "call" /\ o.conf = c /\ o.attempt = 0 /\ o.used = j.sent /\ o.sent = j.sent /\ o.heard = more
        /\ o.outputs = out
    BY ONLY <2>7
  <2>9. CASE Len(out) < Wanted(c)
    <3>1. Hears(j, r) = o
      BY <1>5, <1>12, <2>6, <2>8, <2>9 DEF Hears
    <3>2. AsksOn(o)
      BY <1>1, <1>2, <1>10, <2>5, <2>8, <2>9 DEF AsksOn
    <3>3. o \in JudgeRow(T \cup {r} \cup {e}, U)
      BY <1>2, <2>3, <2>7 DEF JudgeRow
    <3> QED BY <2>8, <3>1, <3>2, <3>3 DEF JudgeSound
  <2>10. CASE ~(Len(out) < Wanted(c))
    <3>1. PICK res : res = Aggregate(c, out)
      OBVIOUS
    <3>2. PICK k : k = [o EXCEPT !.pc = "done", !.result = Aggregate(o.conf, o.outputs)]
      OBVIOUS
    <3>3. Hears(j, r) = k
      BY <1>5, <1>12, <2>6, <2>8, <2>10, <3>2 DEF Hears
    <3>4. k = [pc |-> "done", conf |-> c, attempt |-> 0, used |-> j.sent, sent |-> j.sent, heard |-> more,
               outputs |-> out, result |-> res]
      BY <2>7, <2>8, <3>1, <3>2
    <3>5. /\ k.pc = "done" /\ k.conf = c /\ k.sent = j.sent /\ k.heard = more /\ k.outputs = out /\ k.result = res
      BY ONLY <3>4
    <3>6. k \in JudgeRow(T \cup {r} \cup {e}, U \cup {res})
      BY <1>2, <2>3, <3>4 DEF JudgeRow
    <3>7. j.sent <= Questions(c) * (c.retries + 1)
      <4>1. Len(j.heard) < Questions(c) /\ Questions(c) \in Nat
        <5>1. Len(j.outputs) = IF BothAsked(c) THEN Len(j.heard) \div 2 ELSE Len(j.heard)
          BY <1>1 DEF OutputsFit
        <5> QED BY <1>1, <1>2, <5>1, QuestionsLeft, ConfType
      <4>2. PICK n, q, a \in Nat : n = Len(j.heard) /\ q = Questions(c) /\ a = c.retries
        BY <1>2, <4>1
      <4>3. n < q /\ j.sent <= n * (a + 1) + a + 1
        BY <1>1, <4>1, <4>2
      <4>4. a <= a /\ j.sent \in Nat
        BY <1>2
      <4>5. j.sent <= q * (a + 1)
        BY <4>3, <4>4, AttemptsFit
      <4> QED BY <4>2, <4>5
    <3>8. HasResult(k)
      <4>1. WithinBudget(k)
        BY <1>1, <3>5, <3>7 DEF WithinBudget
      <4>2. Len(out) >= 1
        BY <1>2, <2>3
      <4> QED BY <2>5, <3>1, <3>5, <4>1, <4>2 DEF HasResult
    <3> QED BY <3>3, <3>5, <3>6, <3>8 DEF JudgeSound
  <2> QED BY <2>9, <2>10
<1> QED BY <1>11, <1>12
LEMMA ChatStep ==
    ASSUME JudgeIInv, JudgeChat
    PROVE  JudgeIInv'
<1>1. PICK i : i = judging
  OBVIOUS
<1>2. PICK T, U : i \in JudgeRow(T, U)
  BY <1>1 DEF JudgeIInv, JudgeSound
<1>3. i.pc = "call" /\ AsksOn(i)
  BY <1>1 DEF JudgeIInv, JudgeSound, JudgeChat
<1>4. CASE Exhausted(i)
  <2>1. PICK k : k = Fails(i)
    OBVIOUS
  <2>2. /\ k \in JudgeRow(T, U) /\ k.pc = "failed" /\ k.conf = i.conf /\ k.sent = i.sent /\ i.sent \in Nat
    BY <1>2, <2>1 DEF Fails, JudgeRow
  <2>3. JudgeSound(k)
    BY <1>2, <1>3, <2>2, AskFails DEF AsksOn
  <2>4. judging' = k
    BY <1>1, <1>4, <2>1 DEF JudgeChat
  <2> QED BY <2>3, <2>4 DEF JudgeIInv
<1>5. CASE ~Exhausted(i)
  <2>1. PICK j : j = [i EXCEPT !.used = Used(i), !.sent = @ + 1]
    OBVIOUS
  <2>2. JudgeSound(Fails(j)) /\ JudgeSound(Retries(j))
    BY <1>2, <1>3, <1>5, <2>1, RetryStep
  <2>3. ASSUME NEW r \in Sayings(j.conf), Parses(j, r) PROVE JudgeSound(Hears(j, r))
    <3>1. PICK c \in JudgeConf : c = i.conf
      BY <1>3 DEF AsksOn
    <3>2. /\ i.used = i.sent /\ i.sent \in Nat /\ i.attempt \in Nat /\ i.attempt <= c.retries /\ Len(i.heard) \in Nat
          /\ i.sent <= Len(i.heard) * (c.retries + 1) + i.attempt
          /\ OutputsFit(c, i.heard, i.outputs) /\ Len(i.outputs) < Wanted(c)
      BY <1>2, <1>3, <3>1 DEF AsksOn, JudgeRow
    <3>3. c.retries \in Nat /\ c.maxCalls \in Int
      BY ConfType
    <3>4. c.maxCalls > 0 => i.sent + 1 <= c.maxCalls
      BY <1>5, <3>1, <3>2, <3>3 DEF Exhausted
    <3>5. PICK n \in Nat : n = i.sent + 1
      BY <3>2
    <3>6. j = [pc |-> "call", conf |-> c, attempt |-> i.attempt, used |-> n, sent |-> n, heard |-> i.heard,
               outputs |-> i.outputs, result |-> i.result]
      <4>1. j = [i EXCEPT !.used = n, !.sent = n]
        BY <2>1, <3>2, <3>5 DEF Used
      <4> QED BY <1>2, <1>3, <3>1, <4>1 DEF JudgeRow
    <3>7. /\ j.pc = "call" /\ j.conf = c /\ j.used = n /\ j.sent = n /\ j.heard = i.heard /\ j.outputs = i.outputs
      BY ONLY <3>6
    <3>8. j \in JudgeRow(T, U)
      BY <1>2, <3>1, <3>6 DEF JudgeRow
    <3>9. j.sent <= Len(j.heard) * (c.retries + 1) + c.retries + 1
      <4>1. PICK x \in Nat : x = Len(i.heard) * (c.retries + 1)
        BY <3>2, <3>3
      <4>2. i.sent <= x + i.attempt
        BY <3>2, <4>1
      <4>3. i.sent + 1 <= x + c.retries + 1
        BY ONLY <3>2, <3>3, <4>2, x \in Nat
      <4> QED BY <3>5, <3>7, <4>1, <4>3
    <3> QED BY <2>3, <3>2, <3>4, <3>5, <3>7, <3>8, <3>9, HearStep
  <2>4. \/ \E r \in Sayings(j.conf) : judging' = IF Parses(j, r) THEN Hears(j, r) ELSE Fails(j)
        \/ judging' = Fails(j)
        \/ judging' = Retries(j)
    BY <1>1, <1>5, <2>1 DEF JudgeChat
  <2>5. JudgeSound(judging')
    BY <2>2, <2>3, <2>4
  <2> QED BY <2>5 DEF JudgeIInv
<1> QED BY <1>4, <1>5

-----------------------------------------------------------------------------

LEMMA BudgetKept == JudgeIInv => JudgeCallsBounded
<1> SUFFICES ASSUME JudgeIInv, judging.pc # "idle", judging.conf # NoResult PROVE JudgeCallsBounded
  BY DEF JudgeCallsBounded
<1>1. judging.conf \in JudgeConf /\ judging.pc \in {"call", "wait", "done", "failed"} /\ judging.sent \in Nat
  BY DEF JudgeIInv, JudgeSound, JudgeRow
<1>2. WithinBudget(judging)
  <2>1. CASE judging.pc \in {"done", "failed"}
    BY <2>1 DEF JudgeIInv, JudgeSound, HasResult
  <2>2. CASE judging.pc \in {"call", "wait"}
    <3>1. PICK T, U : judging \in JudgeRow(T, U)
      BY DEF JudgeIInv, JudgeSound
    <3>2. AsksOn(judging)
      BY <2>2 DEF JudgeIInv, JudgeSound
    <3>3. PICK h, o, a, s, c : /\ h = Len(judging.heard) /\ o = Len(judging.outputs) /\ a = judging.attempt
                               /\ s = judging.sent /\ c = judging.conf
      OBVIOUS
    <3>4. h \in Nat /\ o \in Nat /\ a \in Nat /\ s \in Nat /\ c \in JudgeConf
      BY <1>1, <3>1, <3>3 DEF JudgeRow
    <3>5. /\ c.maxCalls > 0 => s <= c.maxCalls
          /\ a <= c.retries /\ s <= h * (c.retries + 1) + a
          /\ o = (IF BothAsked(c) THEN h \div 2 ELSE h) /\ o < Wanted(c)
      BY <3>2, <3>3 DEF AsksOn, OutputsFit
    <3>6. PICK r, q \in Nat : r = c.retries /\ q = Questions(c)
      BY <3>4, ConfType
    <3>7. h < q
      BY <3>4, <3>5, <3>6, QuestionsLeft
    <3>8. h * (r + 1) \in Nat
      BY <3>4, <3>6
    <3>9. s <= h * (r + 1) + a + 1 /\ a <= r
      BY <3>4, <3>5, <3>6, <3>8
    <3>10. s <= q * (r + 1)
      BY <3>4, <3>7, <3>9, AttemptsFit
    <3> QED BY <3>3, <3>5, <3>6, <3>10 DEF WithinBudget
  <2> QED BY <1>1, <2>1, <2>2
<1> QED BY <1>2 DEF WithinBudget, JudgeCallsBounded, Questions, BothAsked
\* A stable comparison names its winner in every order that was asked.
LEMMA StableIsNamed ==
    ASSUME HasResult(judging), judging.conf.ask = "pairwise", NEW i \in 1..Len(judging.outputs),
           judging.outputs[i].stable, Len(judging.heard) \in Nat
    PROVE  judging.outputs[i].winner \in {"A", "B", "tie"} /\ Named(i) = judging.outputs[i].winner
<1>1. PICK c \in JudgeConf : c = judging.conf
  BY DEF HasResult
<1>2. PICK n \in Nat : n = Len(judging.heard)
  OBVIOUS
<1>3. /\ Len(judging.outputs) = IF BothAsked(c) THEN n \div 2 ELSE n
      /\ judging.outputs[i] = OutputAt(c, judging.heard, i)
      /\ \A k \in 1..n : judging.heard[k] \in PairAnswer /\ judging.heard[k].winner \in {"A", "B", "tie"}
  BY <1>1, <1>2 DEF HasResult, OutputsFit, SaidOf
<1>4. CASE c.swap
  <2>1. BothAsked(c)
    BY <1>1, <1>4 DEF BothAsked
  <2>2. 2 * i - 1 \in 1..n /\ 2 * i \in 1..n
    BY <1>3, <2>1
  <2>3. PICK a, b : a = judging.heard[2 * i - 1] /\ b = judging.heard[2 * i]
    OBVIOUS
  <2>4. a.winner \in {"A", "B", "tie"} /\ b.winner \in {"A", "B", "tie"}
    BY <1>3, <2>2, <2>3
  <2>5. judging.outputs[i] = BothOrders(a, b)
    BY <1>1, <1>3, <1>4, <2>3 DEF OutputAt
  <2>6. judging.outputs[i].winner = a.winner /\ pairwiseAgrees(a, mapSwappedPairwise(b))
    BY <2>5 DEF BothOrders
  <2>7. mapSwappedPairwise(b).winner = mapSwappedWinner(b.winner)
    BY DEF mapSwappedPairwise
  <2>8. a.winner = mapSwappedWinner(b.winner)
    BY <2>6, <2>7 DEF pairwiseAgrees
  <2>9. Named(i) = IF a.winner = "tie" /\ b.winner = "tie" THEN "tie"
                   ELSE IF {a.winner, b.winner} = {"A", "B"} THEN a.winner ELSE ""
    BY <1>1, <1>4, <2>3 DEF Named
  <2>10. \/ a.winner = "tie" /\ b.winner = "tie"
         \/ a.winner = "A" /\ b.winner = "B"
         \/ a.winner = "B" /\ b.winner = "A"
    BY <2>4, <2>8 DEF mapSwappedWinner
  <2> QED BY <2>6, <2>9, <2>10
<1>5. CASE ~c.swap
  <2>1. i \in 1..n
    BY <1>3, <1>5 DEF BothAsked
  <2>2. judging.outputs[i] = OneOrder(judging.heard[i])
    BY <1>1, <1>3, <1>5 DEF OutputAt
  <2> QED BY <1>1, <1>3, <1>5, <2>1, <2>2 DEF OneOrder, Named
<1> QED BY <1>4, <1>5

LEMMA MetricNames ==
    ASSUME NEW x \in {"A", "B", "tie"}, NEW m,
           m \in {CASE x = "A" -> Whole [] x = "tie" -> Whole \div 2 [] OTHER -> 0}
    PROVE  x = (CASE m = Whole -> "A" [] m = 0 -> "B" [] OTHER -> "tie")
<1>1. Whole = 20 /\ Whole \div 2 = 10
  BY DEF Whole
<1> QED BY <1>1

LEMMA MajorityKept == JudgeIInv => ScoredWinnerHasMajority
<1> SUFFICES ASSUME JudgeIInv, judging.pc = "done", judging.result.kind = "pair",
                    NEW m \in PairwiseMetric(judging.result)
             PROVE  LET w == CASE m = Whole -> "A" [] m = 0 -> "B" [] OTHER -> "tie"
                    IN  2 * Cardinality({i \in 1..Len(judging.outputs) : Named(i) = w}) > Len(judging.outputs)
  BY DEF ScoredWinnerHasMajority
<1>1. PICK T, U : judging \in JudgeRow(T, U)
  BY DEF JudgeIInv, JudgeSound
<1>2. HasResult(judging)
  BY DEF JudgeIInv, JudgeSound
<1>3. PICK outputs \in Seq(T) : outputs = judging.outputs
  BY <1>1 DEF JudgeRow
<1>4. PICK n \in Nat : n = Len(outputs) /\ n >= 1 /\ DOMAIN outputs = 1..n
  BY <1>2, <1>3 DEF HasResult
<1>5. judging.conf.ask = "pairwise" /\ judging.result = aggregatePairwiseOutputs(outputs)
  <2>1. judging.conf.ask \in {"score", "pairwise", "qag"} /\ judging.result = Aggregate(judging.conf, outputs)
    BY <1>2, <1>3, ConfType DEF HasResult
  <2>2. judging.conf.ask # "score"
    <3>1. aggregateJudgeOutputs(outputs).kind = "score"
      BY DEF aggregateJudgeOutputs
    <3>2. judging.conf.ask = "score" => judging.result = aggregateJudgeOutputs(outputs)
      BY <2>1 DEF Aggregate
    <3> QED BY <3>1, <3>2
  <2>3. judging.conf.ask # "qag"
    <3> SUFFICES ASSUME judging.conf.ask = "qag" PROVE FALSE
      OBVIOUS
    <3>1. judging.result = outputs[1]
      BY <2>1 DEF Aggregate
    <3>2. 1 \in 1..Len(judging.outputs)
      BY <1>3, <1>4
    <3>3. outputs[1] = OutputAt(judging.conf, judging.heard, 1)
      BY <1>2, <1>3, <3>2 DEF HasResult, OutputsFit
    <3>4. outputs[1] = summarizeQAGClaims(judging.heard[1])
      BY <3>3 DEF OutputAt
    <3> QED BY <3>1, <3>4 DEF summarizeQAGClaims
  <2> QED BY <2>1, <2>2, <2>3 DEF Aggregate
<1>6. \A i \in 1..n : outputs[i].stable => outputs[i].winner \in {"A", "B", "tie"} /\ Named(i) = outputs[i].winner
  BY <1>1, <1>2, <1>3, <1>4, <1>5, StableIsNamed DEF JudgeRow
<1>7. judging.result.stable /\ m \in {CASE judging.result.winner = "A" -> Whole [] judging.result.winner = "tie" -> Whole \div 2 [] OTHER -> 0}
  BY DEF PairwiseMetric
<1>8. ASSUME NEW x \in {"A", "B", "tie"}, x = judging.result.winner, NEW V, V \subseteq {i \in 1..n : Named(i) = x},
             2 * Cardinality(V) > n
      PROVE  2 * Cardinality({i \in 1..n : Named(i) = x}) > n
  <2>1. PICK D : D = {i \in 1..n : Named(i) = x}
    OBVIOUS
  <2>2. IsFiniteSet(1..n) /\ D \subseteq 1..n
    BY <2>1, FS_Interval
  <2>3. IsFiniteSet(D) /\ Cardinality(D) \in Nat
    BY <2>2, FS_Subset, FS_CardinalityType
  <2>4. Cardinality(V) \in Nat /\ Cardinality(V) <= Cardinality(D)
    BY <1>8, <2>1, <2>3, FS_Subset, FS_CardinalityType
  <2>5. 2 * Cardinality(D) > n
    BY <1>8, <2>3, <2>4
  <2> QED BY <2>1, <2>5
<1>9. ASSUME NEW x \in {"A", "B", "tie"}, x = judging.result.winner, 2 * Cardinality({i \in 1..n : Named(i) = x}) > n
      PROVE  LET w == CASE m = Whole -> "A" [] m = 0 -> "B" [] OTHER -> "tie"
             IN  2 * Cardinality({i \in 1..Len(judging.outputs) : Named(i) = w}) > Len(judging.outputs)
  <2>1. m \in {CASE x = "A" -> Whole [] x = "tie" -> Whole \div 2 [] OTHER -> 0}
    BY <1>7, <1>9
  <2>2. PICK w : w = CASE m = Whole -> "A" [] m = 0 -> "B" [] OTHER -> "tie"
    OBVIOUS
  <2>3. x = w
    BY <2>1, <2>2, MetricNames
  <2>4. Len(judging.outputs) = n
    BY <1>3, <1>4
  <2>5. 2 * Cardinality({i \in 1..Len(judging.outputs) : Named(i) = w}) > Len(judging.outputs)
    BY <1>9, <2>3, <2>4
  <2> QED BY <2>2, <2>5
<1>10. CASE n = 1
  <2>1. judging.result.winner = outputs[1].winner /\ judging.result.stable = outputs[1].stable
    BY <1>4, <1>5, <1>10 DEF aggregatePairwiseOutputs
  <2>2. outputs[1].winner \in {"A", "B", "tie"} /\ Named(1) = outputs[1].winner
    BY <1>6, <1>7, <1>10, <2>1
  <2>3. {1} \subseteq {i \in 1..n : Named(i) = outputs[1].winner} /\ Cardinality({1}) = 1
    <3>1. Cardinality({1}) = 1
      BY FS_Singleton
    <3>2. 1 \in 1..n
      BY <1>10
    <3> QED BY <2>2, <3>1, <3>2
  <2>4. PICK V : V = {1}
    OBVIOUS
  <2>5. 2 * Cardinality(V) > n
    BY <1>10, <2>3, <2>4
  <2> QED BY <1>8, <1>9, <2>1, <2>2, <2>3, <2>4, <2>5
<1>11. CASE n # 1
  <2>1. PICK votes : votes = [i \in Stable(outputs) |-> outputs[i].winner]
    OBVIOUS
  <2>2. PICK x : x = MostVoted(votes)
    OBVIOUS
  <2>3. Majority(Votes(votes, x), outputs) /\ judging.result.winner = x
    <3>1. Majority(Votes(votes, x), outputs)
      BY <1>4, <1>5, <1>7, <1>11, <2>1, <2>2 DEF aggregatePairwiseOutputs
    <3>2. judging.result.winner = x
      BY <1>4, <1>5, <1>11, <2>1, <2>2, <3>1 DEF aggregatePairwiseOutputs
    <3> QED BY <3>1, <3>2
  <2>4. PICK V : V = {i \in Stable(outputs) : outputs[i].winner = x}
    OBVIOUS
  <2>5. V = {i \in DOMAIN votes : votes[i] = x} /\ V \subseteq 1..n
    BY <1>4, <2>1, <2>4 DEF Stable
  <2>6. Cardinality(V) > 0 /\ Cardinality(V) * 2 > n
    BY <1>4, <2>3, <2>5 DEF Majority, Votes
  <2>7. IsFiniteSet(V) /\ Cardinality(V) \in Nat
    <3>1. IsFiniteSet(1..n)
      BY ONLY n \in Nat, FS_Interval
    <3> QED BY <2>5, <3>1, FS_Subset, FS_CardinalityType
  <2>8. V # {}
    <3>1. Cardinality(V) # 0
      BY ONLY <2>6, <2>7
    <3>2. Cardinality({}) = 0
      BY ONLY FS_EmptySet
    <3> QED BY ONLY <3>1, <3>2, Zenon
  <2>9. \A i \in V : outputs[i].winner = x /\ x \in {"A", "B", "tie"} /\ Named(i) = x /\ i \in 1..n
    BY <1>4, <1>6, <2>4 DEF Stable
  <2>10. x \in {"A", "B", "tie"} /\ V \subseteq {i \in 1..n : Named(i) = x} /\ 2 * Cardinality(V) > n
    BY <2>6, <2>7, <2>8, <2>9
  <2> QED BY <1>8, <1>9, <2>3, <2>10
<1> QED BY <1>10, <1>11
-----------------------------------------------------------------------------

LEMMA DivisionBelow ==
    ASSUME NEW a \in Nat, NEW n \in Nat, n >= 1
    PROVE  a \div n \in Nat /\ (a \div n) * n <= a
OBVIOUS

\* Two shares of n do not exceed the whole, and less than n is less than it.
LEMMA SharesFit ==
    ASSUME NEW s \in Nat, NEW u \in Nat, NEW n \in Nat, n >= 1, s + u <= n, NEW w \in Nat, w >= 1
    PROVE  /\ (w * s) \div n + (w * u) \div n <= w
           /\ s < n => (w * s) \div n < w
<1>1. PICK a, b \in Nat : a = w * s /\ b = w * u
  OBVIOUS
<1>2. PICK p, q \in Nat : p = a \div n /\ q = b \div n
  BY DivisionBelow
<1>3. p * n <= a /\ q * n <= b
  BY <1>2, DivisionBelow
<1>4. a + b <= w * n
  <2>1. PICK d \in Nat : n = s + u + d
    <3>1. n - s - u \in Nat /\ n = s + u + (n - s - u)
      OBVIOUS
    <3> QED BY <3>1
  <2>2. w * n = w * s + w * u + w * d /\ w * d \in Nat
    BY <2>1
  <2> QED BY <1>1, <2>2
<1>5. p + q <= w
  <2> SUFFICES ASSUME p + q >= w + 1 PROVE FALSE
    OBVIOUS
  <2>1. PICK d \in Nat : p + q = w + 1 + d
    <3>1. p + q - w - 1 \in Nat /\ p + q = w + 1 + (p + q - w - 1)
      OBVIOUS
    <3> QED BY <3>1
  <2>2. p * n + q * n = (p + q) * n
    OBVIOUS
  <2>3. (w + 1 + d) * n = w * n + n + d * n /\ d * n \in Nat /\ w * n \in Nat
    OBVIOUS
  <2>4. (p + q) * n = w * n + n + d * n
    BY <2>1, <2>3
  <2>5. p * n \in Nat /\ q * n \in Nat
    OBVIOUS
  <2> QED BY <1>3, <1>4, <2>2, <2>3, <2>4, <2>5
<1>6. ASSUME s < n PROVE p < w
  <2> SUFFICES ASSUME p >= w PROVE FALSE
    OBVIOUS
  <2>1. PICK d \in Nat : p = w + d
    <3>1. p - w \in Nat /\ p = w + (p - w)
      OBVIOUS
    <3> QED BY <3>1
  <2>2. PICK e \in Nat : n = s + 1 + e
    <3>1. n - s - 1 \in Nat /\ n = s + 1 + (n - s - 1)
      BY <1>6
    <3> QED BY <3>1
  <2>3. (w + d) * n = w * n + d * n /\ d * n \in Nat
    OBVIOUS
  <2>4. w * n = w * s + w + w * e /\ w * e \in Nat /\ w * s \in Nat
    BY <2>2
  <2>5. p * n = w * n + d * n
    BY <2>1, <2>3
  <2> QED BY <1>1, <1>3, <2>3, <2>4, <2>5
<1> QED BY <1>1, <1>2, <1>5, <1>6

LEMMA ClaimsKept == JudgeIInv => ClaimsKeepScoreDown
<1> SUFFICES ASSUME JudgeIInv, judging.pc = "done", judging.result.kind = "qag", judging.result.claims # << >>
             PROVE  /\ judging.result.score + judging.result.unverifiable <= Whole
                    /\ (\E i \in 1..Len(judging.result.claims) : judging.result.claims[i] # "supported")
                         => judging.result.score < Whole
  BY DEF ClaimsKeepScoreDown
<1>1. PICK T, U : judging \in JudgeRow(T, U)
  BY DEF JudgeIInv, JudgeSound
<1>2. HasResult(judging)
  BY DEF JudgeIInv, JudgeSound
<1>3. PICK outputs \in Seq(T) : outputs = judging.outputs
  BY <1>1 DEF JudgeRow
<1>4. judging.conf.ask = "qag" /\ judging.result = outputs[1]
  <2>1. judging.conf.ask \in {"score", "pairwise", "qag"} /\ judging.result = Aggregate(judging.conf, outputs)
    BY <1>2, <1>3, ConfType DEF HasResult
  <2>2. judging.conf.ask # "score"
    <3>1. aggregateJudgeOutputs(outputs).kind = "score"
      BY DEF aggregateJudgeOutputs
    <3>2. judging.conf.ask = "score" => judging.result = aggregateJudgeOutputs(outputs)
      BY <2>1 DEF Aggregate
    <3> QED BY <3>1, <3>2
  <2>3. judging.conf.ask # "pairwise"
    <3>1. aggregatePairwiseOutputs(outputs).kind = "pair"
      BY DEF aggregatePairwiseOutputs
    <3>2. judging.conf.ask = "pairwise" => judging.result = aggregatePairwiseOutputs(outputs)
      BY <2>1 DEF Aggregate
    <3> QED BY <3>1, <3>2
  <2> QED BY <2>1, <2>2, <2>3 DEF Aggregate
<1>5. PICK r \in ClaimAnswer : r = judging.heard[1] /\ outputs[1] = summarizeQAGClaims(r)
  <2>1. 1 \in 1..Len(judging.outputs) /\ Len(judging.outputs) = Len(judging.heard)
    BY <1>1, <1>2, <1>4 DEF HasResult, OutputsFit, BothAsked, JudgeRow
  <2>2. outputs[1] = OutputAt(judging.conf, judging.heard, 1) /\ judging.heard[1] \in ClaimAnswer
    BY <1>2, <1>3, <1>4, <2>1 DEF HasResult, OutputsFit, SaidOf
  <2> QED BY <1>4, <2>2 DEF OutputAt
<1>6. PICK claims \in Seq(STRING) : claims = r.claims
  BY JudgeAssumption
<1>7. PICK n \in Nat : n = Len(claims) /\ DOMAIN claims = 1..n
  OBVIOUS
<1>8. PICK s, u : s = Votes(claims, "supported") /\ u = Votes(claims, "unverifiable")
  OBVIOUS
<1>9. judging.result.claims = claims
  BY <1>4, <1>5, <1>6 DEF summarizeQAGClaims
<1>10. n # 0
  BY <1>7, <1>9
<1>11. judging.result.score = (Whole * s) \div n /\ judging.result.unverifiable = (Whole * u) \div n
  BY <1>4, <1>5, <1>6, <1>7, <1>8, <1>10 DEF summarizeQAGClaims
<1>12. PICK A, B : A = {i \in 1..n : claims[i] = "supported"} /\ B = {i \in 1..n : claims[i] = "unverifiable"}
  OBVIOUS
<1>13. s = Cardinality(A) /\ u = Cardinality(B)
  BY <1>7, <1>8, <1>12 DEF Votes
<1>14. IsFiniteSet(1..n) /\ Cardinality(1..n) = n
  BY ONLY n \in Nat, FS_Interval
<1>15. A \subseteq 1..n /\ B \subseteq 1..n /\ A \cap B = {}
  BY <1>12
<1>16. IsFiniteSet(A) /\ IsFiniteSet(B) /\ s \in Nat /\ u \in Nat
  BY <1>13, <1>14, <1>15, FS_Subset, FS_CardinalityType
<1>17. s + u <= n
  <2>1. IsFiniteSet(A \cup B) /\ Cardinality(A \cup B) = Cardinality(A) + Cardinality(B) - Cardinality(A \cap B)
    BY ONLY <1>16, FS_Union
  <2>2. Cardinality(A \cap B) = 0
    BY <1>15, FS_EmptySet, Zenon
  <2>3. Cardinality(A \cup B) <= n
    BY <1>14, <1>15, FS_Subset
  <2> QED BY ONLY <1>13, <1>16, <2>1, <2>2, <2>3, n \in Nat
<1>18. Whole \in Nat /\ Whole >= 1
  BY DEF Whole
<1>19. n >= 1
  BY <1>10
<1>20. /\ (Whole * s) \div n + (Whole * u) \div n <= Whole
       /\ s < n => (Whole * s) \div n < Whole
  BY ONLY <1>16, <1>17, <1>18, <1>19, n \in Nat, SharesFit
<1>21. ASSUME NEW i \in 1..n, claims[i] # "supported" PROVE s < n
  <2>1. A \subseteq (1..n) \ {i}
    BY <1>12, <1>21
  <2>2. IsFiniteSet((1..n) \ {i}) /\ Cardinality((1..n) \ {i}) = n - 1
    BY <1>14, <1>21, FS_RemoveElement
  <2>3. Cardinality(A) <= n - 1
    <3>1. PICK D : D = (1..n) \ {i}
      OBVIOUS
    <3>2. A \subseteq D /\ IsFiniteSet(D) /\ Cardinality(D) = n - 1
      BY <2>1, <2>2, <3>1
    <3>3. Cardinality(A) <= Cardinality(D)
      BY ONLY <3>2, FS_Subset
    <3> QED BY <3>2, <3>3
  <2> QED BY ONLY <1>13, <1>16, <2>3, n \in Nat
<1> QED BY <1>7, <1>9, <1>11, <1>20, <1>21
-----------------------------------------------------------------------------

Low(S, f, x) == {i \in S : f[i] < x}
UpTo(S, f, x) == {i \in S : f[i] <= x}

\* Every place of the ascending order is taken.
LEMMA PlaceIsTaken ==
    ASSUME NEW S, IsFiniteSet(S), NEW w \in Nat, NEW f \in [S -> 0..w], NEW n \in Nat, n >= 1, n <= Cardinality(S),
           NEW x, x = Sorted(f, n)
    PROVE  /\ x \in 0..w
           /\ Cardinality(Low(S, f, x)) < n /\ n <= Cardinality(UpTo(S, f, x))
<1> DEFINE R == {f[i] : i \in S}
           T == {y \in R : n <= Cardinality(UpTo(S, f, y))}
<1>1. R \subseteq 0..w /\ R \in SUBSET Nat /\ Range(f) = R /\ DOMAIN f = S
  BY DEF Range
<1>2. ASSUME NEW y \in Int
      PROVE  /\ IsFiniteSet(Low(S, f, y)) /\ IsFiniteSet(UpTo(S, f, y))
             /\ Cardinality(Low(S, f, y)) \in Nat /\ Cardinality(UpTo(S, f, y)) \in Nat
  <2>1. Low(S, f, y) \subseteq S /\ UpTo(S, f, y) \subseteq S
    BY DEF Low, UpTo
  <2> QED BY <2>1, FS_Subset, FS_CardinalityType
<1>3. ASSUME NEW I, I \subseteq S, I # {}
      PROVE  \E k \in I : \A i \in I : f[i] <= f[k]
  <2>1. PICK V : V = {f[i] : i \in I}
    OBVIOUS
  <2>2. V \subseteq 0..w /\ V \in SUBSET Nat /\ V # {}
    BY <1>3, <2>1
  <2>3. IsFiniteSet(0..w)
    BY ONLY w \in Nat, FS_Interval
  <2>4. IsFiniteSet(V)
    BY <2>2, <2>3, FS_Subset
  <2>5. PICK g \in V : \A v \in V : v <= g
    BY <2>2, <2>4, GreatestOf
  <2> QED BY <2>1, <2>5
<1>4. T # {}
  <2>1. S # {}
    <3>1. Cardinality(S) \in Nat /\ Cardinality(S) # 0
      BY FS_CardinalityType
    <3>2. Cardinality({}) = 0
      BY FS_EmptySet
    <3> QED BY ONLY <3>1, <3>2, Zenon
  <2>2. PICK k \in S : \A i \in S : f[i] <= f[k]
    BY <1>3, <2>1
  <2>3. UpTo(S, f, f[k]) = S
    BY <2>2 DEF UpTo
  <2>4. n <= Cardinality(UpTo(S, f, f[k]))
    BY <2>3
  <2> QED BY <2>4
<1>5. T \in SUBSET Nat
  BY <1>1
<1>6. PICK y \in T : \A v \in T : y <= v
  BY <1>4, <1>5, LeastOf
<1>7. y \in R /\ y \in Int /\ n <= Cardinality(UpTo(S, f, y))
  BY <1>1, <1>6
<1>8. Cardinality(Low(S, f, y)) < n
  <2> SUFFICES ASSUME ~(Cardinality(Low(S, f, y)) < n) PROVE FALSE
    OBVIOUS
  <2>1. n <= Cardinality(Low(S, f, y)) /\ Cardinality(Low(S, f, y)) # 0
    BY <1>2, <1>7
  <2>2. Low(S, f, y) # {} /\ Low(S, f, y) \subseteq S
    <3>1. Cardinality({}) = 0
      BY FS_EmptySet
    <3>2. Low(S, f, y) # {}
      BY ONLY <2>1, <3>1, Zenon
    <3> QED BY <3>2 DEF Low
  <2>3. PICK k \in Low(S, f, y) : \A i \in Low(S, f, y) : f[i] <= f[k]
    BY <1>3, <2>2
  <2>4. k \in S /\ f[k] \in R /\ f[k] < y /\ f[k] \in Int
    BY <1>1, <1>7, <2>3 DEF Low
  <2>5. Low(S, f, y) \subseteq UpTo(S, f, f[k])
    BY <2>3 DEF Low, UpTo
  <2>6. Cardinality(Low(S, f, y)) <= Cardinality(UpTo(S, f, f[k]))
    BY <1>2, <2>4, <2>5, FS_Subset
  <2>7. n <= Cardinality(UpTo(S, f, f[k]))
    BY <1>2, <1>7, <2>1, <2>4, <2>6
  <2>8. f[k] \in T
    BY <2>4, <2>7
  <2> QED BY <1>6, <1>7, <2>4, <2>8
<1> HIDE DEF R, T
<1>9. x = CHOOSE z \in R : Cardinality(Low(S, f, z)) < n /\ n <= Cardinality(UpTo(S, f, z))
  BY <1>1 DEF Sorted, Low, UpTo
<1>10. x \in R /\ Cardinality(Low(S, f, x)) < n /\ n <= Cardinality(UpTo(S, f, x))
  BY <1>7, <1>8, <1>9
<1> QED BY <1>1, <1>10
\* Two parts of a finite set that do not meet.
LEMMA PartsFit ==
    ASSUME NEW S, IsFiniteSet(S), NEW A \in SUBSET S, NEW B \in SUBSET S, A \cap B = {}
    PROVE  /\ Cardinality(A) \in Nat /\ Cardinality(B) \in Nat /\ Cardinality(S) \in Nat
           /\ Cardinality(A) + Cardinality(B) <= Cardinality(S)
<1>1. IsFiniteSet(A) /\ IsFiniteSet(B)
  BY FS_Subset
<1>2. Cardinality(A) \in Nat /\ Cardinality(B) \in Nat /\ Cardinality(S) \in Nat
  BY <1>1, FS_CardinalityType
<1>3. IsFiniteSet(A \cup B) /\ Cardinality(A \cup B) = Cardinality(A) + Cardinality(B) - Cardinality(A \cap B)
  BY <1>1, FS_Union
<1>4. Cardinality(A \cap B) = 0
  BY FS_EmptySet, Zenon
<1>5. Cardinality(A \cup B) <= Cardinality(S)
  BY FS_Subset
<1> QED BY <1>2, <1>3, <1>4, <1>5

\* What a majority reaches, or does not exceed, place n does too.
LEMMA PlaceFollows ==
    ASSUME NEW S, IsFiniteSet(S), NEW w \in Nat, NEW f \in [S -> 0..w], NEW n \in Nat, n >= 1, n <= Cardinality(S),
           NEW x, x = Sorted(f, n), NEW t \in 0..w
    PROVE  /\ Cardinality({i \in S : f[i] >= t}) + n > Cardinality(S) => x >= t
           /\ Cardinality({i \in S : f[i] <= t}) >= n => x <= t
<1>1. x \in 0..w /\ Cardinality(Low(S, f, x)) < n /\ n <= Cardinality(UpTo(S, f, x))
  BY PlaceIsTaken
<1>2. ASSUME x < t PROVE Cardinality({i \in S : f[i] >= t}) + n <= Cardinality(S)
  <2>1. PICK A : A = {i \in S : f[i] >= t}
    OBVIOUS
  <2>2. A \in SUBSET S /\ UpTo(S, f, x) \in SUBSET S /\ A \cap UpTo(S, f, x) = {}
    BY <1>1, <1>2, <2>1 DEF UpTo
  <2>3. /\ Cardinality(A) \in Nat /\ Cardinality(UpTo(S, f, x)) \in Nat /\ Cardinality(S) \in Nat
        /\ Cardinality(A) + Cardinality(UpTo(S, f, x)) <= Cardinality(S)
    BY <2>2, PartsFit
  <2>4. Cardinality(A) + n <= Cardinality(S)
    BY <1>1, <2>3
  <2> QED BY <2>1, <2>4
<1>3. ASSUME x > t PROVE Cardinality({i \in S : f[i] <= t}) < n
  <2>1. PICK A : A = {i \in S : f[i] <= t}
    OBVIOUS
  <2>2. A \subseteq Low(S, f, x) /\ Low(S, f, x) \subseteq S
    BY <1>1, <1>3, <2>1 DEF Low
  <2>3. IsFiniteSet(Low(S, f, x)) /\ IsFiniteSet(A) /\ Cardinality(A) <= Cardinality(Low(S, f, x))
    BY <2>2, FS_Subset
  <2>4. Cardinality(Low(S, f, x)) \in Nat /\ Cardinality(A) \in Nat
    BY <2>3, FS_CardinalityType
  <2>5. Cardinality(A) < n
    BY <1>1, <2>3, <2>4
  <2> QED BY <2>1, <2>5
<1>4. PICK a, b, k : /\ a = Cardinality({i \in S : f[i] >= t}) /\ b = Cardinality({i \in S : f[i] <= t})
                     /\ k = Cardinality(S)
  OBVIOUS
<1>5. a \in Nat /\ b \in Nat /\ k \in Nat
  <2>1. PICK A, B : A = {i \in S : f[i] >= t} /\ B = {i \in S : f[i] <= t}
    OBVIOUS
  <2>2. A \subseteq S /\ B \subseteq S
    BY <2>1
  <2>3. IsFiniteSet(A) /\ IsFiniteSet(B)
    BY <2>2, FS_Subset
  <2> QED BY <1>4, <2>1, <2>3, FS_CardinalityType
<1>6. (x < t => a + n <= k) /\ (x > t => b < n)
  BY <1>2, <1>3, <1>4
<1>7. x \in Int /\ t \in Int
  BY <1>1
<1>8. (a + n > k => x >= t) /\ (b >= n => x <= t)
  BY ONLY <1>5, <1>6, <1>7, n \in Nat
<1> QED BY <1>4, <1>8

LEMMA MedianFollows ==
    ASSUME NEW S, IsFiniteSet(S), S # {}, NEW w \in Nat, NEW f \in [S -> 0..w]
    PROVE  /\ median(f) \in 0..w
           /\ \A t \in 0..w :
                /\ 2 * Cardinality({i \in S : f[i] >= t}) > Cardinality(S) => median(f) >= t
                /\ 2 * Cardinality({i \in S : f[i] <= t}) > Cardinality(S) => median(f) <= t
<1>1. PICK n \in Nat : n = Cardinality(S) /\ n >= 1
  <2>1. Cardinality(S) \in Nat
    BY FS_CardinalityType
  <2>2. Cardinality(S) # 0
    BY FS_EmptySet
  <2> QED BY <2>1, <2>2
<1>2. PICK m \in Nat : m = n \div 2
  OBVIOUS
<1>3. DOMAIN f = S
  OBVIOUS
<1>4. ASSUME NEW t \in 0..w
      PROVE  Cardinality({i \in S : f[i] >= t}) \in Nat /\ Cardinality({i \in S : f[i] <= t}) \in Nat
  <2>1. PICK A, B : A = {i \in S : f[i] >= t} /\ B = {i \in S : f[i] <= t}
    OBVIOUS
  <2>2. A \subseteq S /\ B \subseteq S
    BY <2>1
  <2>3. IsFiniteSet(A) /\ IsFiniteSet(B)
    BY <2>2, FS_Subset
  <2> QED BY <2>1, <2>3, FS_CardinalityType
<1>5. CASE n % 2 = 1
  <2>1. n = 2 * m + 1
    BY <1>2, <1>5
  <2>2. PICK k \in Nat : k = m + 1 /\ k >= 1 /\ k <= n
    BY <2>1
  <2>3. PICK x : x = Sorted(f, k)
    OBVIOUS
  <2>4. median(f) = x
    BY <1>1, <1>2, <1>3, <1>5, <2>2, <2>3 DEF median
  <2>5. x \in 0..w
    BY <1>1, <2>2, <2>3, PlaceIsTaken
  <2>6. ASSUME NEW t \in 0..w
        PROVE  /\ 2 * Cardinality({i \in S : f[i] >= t}) > Cardinality(S) => x >= t
               /\ 2 * Cardinality({i \in S : f[i] <= t}) > Cardinality(S) => x <= t
    <3>1. /\ Cardinality({i \in S : f[i] >= t}) + k > Cardinality(S) => x >= t
          /\ Cardinality({i \in S : f[i] <= t}) >= k => x <= t
      <4>1. k <= Cardinality(S) /\ k >= 1
        BY <1>1, <2>2
      <4> QED BY ONLY <2>3, <4>1, IsFiniteSet(S), w \in Nat, f \in [S -> 0..w], t \in 0..w, k \in Nat, PlaceFollows
    <3>2. PICK a, b \in Nat : a = Cardinality({i \in S : f[i] >= t}) /\ b = Cardinality({i \in S : f[i] <= t})
      BY <1>4
    <3>3. (a + k > n => x >= t) /\ (b >= k => x <= t)
      BY <1>1, <3>1, <3>2
    <3>4. (2 * a > n => x >= t) /\ (2 * b > n => x <= t)
      BY <2>1, <2>2, <3>3
    <3> QED BY <1>1, <3>2, <3>4
  <2> QED BY <2>4, <2>5, <2>6
<1>6. CASE n % 2 # 1
  <2>1. n = 2 * m /\ m >= 1 /\ m <= n
    BY <1>1, <1>2, <1>6
  <2>2. PICK k \in Nat : k = m + 1 /\ k >= 1 /\ k <= n
    BY <2>1
  <2>3. PICK x, y : x = Sorted(f, m) /\ y = Sorted(f, k)
    OBVIOUS
  <2>4. median(f) = (x + y) \div 2
    BY <1>1, <1>2, <1>3, <1>6, <2>2, <2>3 DEF median
  <2>5. x \in 0..w /\ y \in 0..w
    BY <1>1, <2>1, <2>2, <2>3, PlaceIsTaken
  <2>6. (x + y) \div 2 \in 0..w
    BY <2>5
  <2>7. ASSUME NEW t \in 0..w
        PROVE  /\ 2 * Cardinality({i \in S : f[i] >= t}) > Cardinality(S) => (x + y) \div 2 >= t
               /\ 2 * Cardinality({i \in S : f[i] <= t}) > Cardinality(S) => (x + y) \div 2 <= t
    <3>1. /\ Cardinality({i \in S : f[i] >= t}) + k > Cardinality(S) => y >= t
          /\ Cardinality({i \in S : f[i] <= t}) >= k => y <= t
      <4>1. k <= Cardinality(S) /\ k >= 1
        BY <1>1, <2>2
      <4>2. y = Sorted(f, k)
        BY <2>3
      <4> QED BY ONLY <4>1, <4>2, IsFiniteSet(S), w \in Nat, f \in [S -> 0..w], t \in 0..w, k \in Nat, PlaceFollows
    <3>2. /\ Cardinality({i \in S : f[i] >= t}) + m > Cardinality(S) => x >= t
          /\ Cardinality({i \in S : f[i] <= t}) >= m => x <= t
      <4>1. m <= Cardinality(S) /\ m >= 1
        BY <1>1, <2>1
      <4>2. x = Sorted(f, m)
        BY <2>3
      <4> QED BY ONLY <4>1, <4>2, IsFiniteSet(S), w \in Nat, f \in [S -> 0..w], t \in 0..w, m \in Nat, PlaceFollows
    <3>3. PICK a, b \in Nat : a = Cardinality({i \in S : f[i] >= t}) /\ b = Cardinality({i \in S : f[i] <= t})
      BY <1>4
    <3>4. (a + k > n => y >= t) /\ (b >= k => y <= t) /\ (a + m > n => x >= t) /\ (b >= m => x <= t)
      BY <1>1, <3>1, <3>2, <3>3
    <3>5. (2 * a > n => x >= t /\ y >= t) /\ (2 * b > n => x <= t /\ y <= t)
      BY <2>1, <2>2, <3>4
    <3>6. (2 * a > n => (x + y) \div 2 >= t) /\ (2 * b > n => (x + y) \div 2 <= t)
      BY <2>5, <3>5
    <3> QED BY <1>1, <3>3, <3>6
  <2> QED BY <2>4, <2>6, <2>7
<1> QED BY <1>5, <1>6

LEMMA ScoreFields ==
    ASSUME NEW outputs, NEW S, S = {i \in DOMAIN outputs : outputs[i].scored}
    PROVE  /\ aggregateJudgeOutputs(outputs).scored = (S # {})
           /\ S # {} => aggregateJudgeOutputs(outputs).score = median([i \in S |-> outputs[i].score])
<1>1. PICK l, x, b : /\ l = MostVoted([i \in {k \in DOMAIN outputs : outputs[k].label # ""} |-> outputs[i].label])
                     /\ x = IF S = {} THEN 0 ELSE median([i \in S |-> outputs[i].score])
                     /\ b = (S # {})
  OBVIOUS
<1>2. aggregateJudgeOutputs(outputs) = [kind |-> "score", scored |-> b, score |-> x, label |-> l]
  BY ONLY <1>1, S = {i \in DOMAIN outputs : outputs[i].scored}, Zenon DEF aggregateJudgeOutputs
<1>3. aggregateJudgeOutputs(outputs).scored = b /\ aggregateJudgeOutputs(outputs).score = x
  BY ONLY <1>2
<1> QED BY ONLY <1>1, <1>3, Zenon

LEMMA MedianKept == JudgeIInv => MedianFollowsMajority
<1> SUFFICES ASSUME JudgeIInv, judging.pc = "done", judging.result.kind = "score", judging.result.scored
             PROVE  MedianFollowsMajority
  BY DEF MedianFollowsMajority
<1>1. PICK T, U : judging \in JudgeRow(T, U)
  BY DEF JudgeIInv, JudgeSound
<1>2. HasResult(judging)
  BY DEF JudgeIInv, JudgeSound
<1>3. PICK outputs \in Seq(T) : outputs = judging.outputs
  BY <1>1 DEF JudgeRow
<1>4. PICK n \in Nat : n = Len(outputs) /\ n >= 1 /\ DOMAIN outputs = 1..n
  BY <1>2, <1>3 DEF HasResult
<1>5. judging.conf.ask = "score" /\ judging.result = aggregateJudgeOutputs(outputs)
  <2>1. judging.conf.ask \in {"score", "pairwise", "qag"} /\ judging.result = Aggregate(judging.conf, outputs)
    BY <1>2, <1>3, ConfType DEF HasResult
  <2>2. judging.conf.ask # "pairwise"
    <3>1. aggregatePairwiseOutputs(outputs).kind = "pair"
      BY DEF aggregatePairwiseOutputs
    <3>2. judging.conf.ask = "pairwise" => judging.result = aggregatePairwiseOutputs(outputs)
      BY <2>1 DEF Aggregate
    <3> QED BY <3>1, <3>2
  <2>3. judging.conf.ask # "qag"
    <3> SUFFICES ASSUME judging.conf.ask = "qag" PROVE FALSE
      OBVIOUS
    <3>1. judging.result = outputs[1]
      BY <2>1 DEF Aggregate
    <3>2. 1 \in 1..Len(judging.outputs)
      BY <1>3, <1>4
    <3>3. outputs[1] = OutputAt(judging.conf, judging.heard, 1)
      BY <1>2, <1>3, <3>2 DEF HasResult, OutputsFit
    <3>4. outputs[1] = summarizeQAGClaims(judging.heard[1])
      BY <3>3 DEF OutputAt
    <3> QED BY <3>1, <3>4 DEF summarizeQAGClaims
  <2> QED BY <2>1, <2>2, <2>3 DEF Aggregate
<1>6. \A i \in 1..n : outputs[i].score \in 0..Whole
  <2> SUFFICES ASSUME NEW i \in 1..n PROVE outputs[i].score \in 0..Whole
    OBVIOUS
  <2>1. Len(judging.heard) = n
    BY <1>2, <1>3, <1>4, <1>5 DEF HasResult, OutputsFit, BothAsked
  <2>2. outputs[i] = OutputAt(judging.conf, judging.heard, i) /\ judging.heard[i] \in ScoreAnswer
    BY <1>2, <1>3, <1>4, <1>5, <2>1 DEF HasResult, OutputsFit, SaidOf
  <2>3. outputs[i] = parseJudgeOutput(judging.heard[i])
    BY <1>5, <2>2 DEF OutputAt
  <2>4. outputs[i].score = clamp01(judging.heard[i].score)
    <3>1. PICK r : r = judging.heard[i]
      OBVIOUS
    <3>2. PICK x, l : /\ x = clamp01(r.score)
                      /\ l = IF r.label = "" /\ r.scored THEN coarseLabel(x) ELSE r.label
      OBVIOUS
    <3>3. parseJudgeOutput(r) = [scored |-> r.scored, score |-> x, label |-> l]
      BY ONLY <3>2, Zenon DEF parseJudgeOutput
    <3>4. outputs[i].score = x
      BY ONLY <2>3, <3>1, <3>3
    <3> QED BY ONLY <3>1, <3>2, <3>4
  <2>5. judging.heard[i].score \in Int
    BY <2>2, JudgeAssumption
  <2>6. PICK x \in Int : x = judging.heard[i].score
    BY <2>5
  <2>7. clamp01(x) \in 0..Whole
    BY ONLY x \in Int DEF clamp01, Whole
  <2> QED BY <2>4, <2>6, <2>7
<1>7. PICK S : S = {i \in DOMAIN outputs : outputs[i].scored}
  OBVIOUS
<1>8. PICK f : f = [i \in S |-> outputs[i].score]
  OBVIOUS
<1>9. f \in [S -> 0..Whole] /\ S \subseteq 1..n
  BY <1>4, <1>6, <1>7, <1>8
<1>10. S # {}
  BY <1>5, <1>7, ScoreFields
<1>11. judging.result.score = median(f)
  BY <1>5, <1>7, <1>8, <1>10, ScoreFields
<1>12. IsFiniteSet(S)
  <2>1. IsFiniteSet(1..n)
    BY ONLY n \in Nat, FS_Interval
  <2> QED BY <1>9, <2>1, FS_Subset
<1>13. Whole \in Nat
  BY DEF Whole
<1>14. /\ median(f) \in 0..Whole
       /\ \A t \in 0..Whole :
            /\ 2 * Cardinality({i \in S : f[i] >= t}) > Cardinality(S) => median(f) >= t
            /\ 2 * Cardinality({i \in S : f[i] <= t}) > Cardinality(S) => median(f) <= t
  BY ONLY <1>9, <1>10, <1>12, <1>13, MedianFollows
<1>15. S = {i \in 1..Len(judging.outputs) : judging.outputs[i].scored}
  BY <1>3, <1>4, <1>7
<1>16. ASSUME NEW t \in 0..Whole
       PROVE  /\ {i \in S : f[i] >= t} = {i \in S : judging.outputs[i].score >= t}
              /\ {i \in S : f[i] <= t} = {i \in S : judging.outputs[i].score <= t}
  BY <1>3, <1>8
<1>17. \A t \in 0..Whole :
         /\ 2 * Cardinality({i \in S : judging.outputs[i].score >= t}) > Cardinality(S) => judging.result.score >= t
         /\ 2 * Cardinality({i \in S : judging.outputs[i].score <= t}) > Cardinality(S) => judging.result.score <= t
  BY <1>11, <1>14, <1>16
<1> QED BY <1>11, <1>14, <1>15, <1>17 DEF MedianFollowsMajority

\* Whatever the models say and however often they fail, a verdict follows a
\* majority of what was heard and no first place or unsupported claim, and no
\* call asks more than its budget and its retries allow, for every judge and
\* every answer (Judge, Compare, ScoreQAG).
THEOREM VerdictsHeard == JudgeSpec => []VerdictIsHeard
<1>1. JudgeIInv /\ [JudgeNext]_judging => JudgeIInv'
  <2> SUFFICES ASSUME JudgeIInv, [JudgeNext]_judging PROVE JudgeIInv'
    OBVIOUS
  <2>1. CASE JudgeNext
    BY <2>1, StartStep, ChatStep, BackoffStep DEF JudgeNext
  <2>2. CASE UNCHANGED judging
    BY <2>2 DEF JudgeIInv
  <2> QED BY <2>1, <2>2
<1>2. JudgeIInv => VerdictIsHeard
  BY BudgetKept, MajorityKept, MedianKept, ClaimsKept DEF VerdictIsHeard
<1> QED BY <1>1, <1>2, JudgeStart, PTL DEF JudgeSpec
=============================================================================
