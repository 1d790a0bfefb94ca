---------------------------- MODULE PipelineDraft ----------------------------
(***************************************************************************)
(* The draft of one pipeline: authors load it and save over the revision   *)
(* they loaded, others freeze it into an immutable version or execute it   *)
(* in the debugger.  Validation is the predicate ValidDefinition; module   *)
(* PipelineValidation models how it is computed.                           *)
(***************************************************************************)
EXTENDS Integers, Sequences

CONSTANTS
    Definition,       \* pipeline definitions
    EmptyDefinition,  \* the definition a draft is created with
    ValidDefinition,  \* those Validate accepts
    Author,           \* clients with the draft open
    MaxSaves          \* bound of the model: saved revisions

ASSUME DraftAssumption ==
    /\ EmptyDefinition \in Definition
    /\ ValidDefinition \subseteq Definition \ {EmptyDefinition}
    /\ MaxSaves \in Nat

VARIABLES
    pipelineRow, \* whether the row of pipelines exists
    draft,       \* the row of pipeline_drafts
    author,      \* what each client last loaded
    saved,       \* history: the saves in commit order, with the revision each was based on
    snapshots    \* versions frozen and definitions executed, with the revision asked for

draftVars == <<pipelineRow, draft, author, saved, snapshots>>

NoDraft == [revision |-> -1, definition |-> EmptyDefinition]

DraftInit ==
    /\ pipelineRow = FALSE
    /\ draft = NoDraft
    /\ author = [a \in Author |-> NoDraft]
    /\ saved = <<>>
    /\ snapshots = {}

-----------------------------------------------------------------------------

\* CreatePipeline inserts the pipeline and then, in a statement of its own,
\* the empty draft; a failure in between leaves a pipeline without a draft.
CreatePipelineRow ==
    /\ ~pipelineRow
    /\ pipelineRow' = TRUE
    /\ UNCHANGED <<draft, author, saved, snapshots>>

CreateDraftRow ==
    /\ pipelineRow
    /\ draft = NoDraft
    /\ draft' = [revision |-> 0, definition |-> EmptyDefinition]
    /\ UNCHANGED <<pipelineRow, author, saved, snapshots>>

\* GetDraft: a client, the version handler or the debugger loads the row.
GetDraft(a) ==
    /\ draft # NoDraft
    /\ author' = [author EXCEPT ![a] = draft]
    /\ UNCHANGED <<pipelineRow, draft, saved, snapshots>>

\* Mutant: the last writer wins.
AnyRevision(expected) == draft # NoDraft

\* UPDATE ... WHERE revision = the expected one.
RevisionMatches(expected) == draft # NoDraft /\ draft.revision = expected

\* SaveDraft over the revision the client loaded.  An invalid definition and a
\* stale revision are refused.
SaveDraft(a, d) ==
    /\ Len(saved) < MaxSaves
    /\ author[a] # NoDraft
    /\ d \in ValidDefinition
    /\ RevisionMatches(author[a].revision)
    /\ draft' = [revision |-> draft.revision + 1, definition |-> d]
    /\ saved' = Append(saved, [definition |-> d, base |-> author[a].revision])
    /\ UNCHANGED <<pipelineRow, author, snapshots>>

\* The draft that was loaded has the revision the request names.
LoadedRevision(a, expected) == author[a] # NoDraft /\ author[a].revision = expected

\* createPipelineVersionFromDraft and DebugRunner.Run use the draft as loaded,
\* however the row has changed since.
Snapshot(a, expected) ==
    /\ LoadedRevision(a, expected)
    /\ author[a].definition \in ValidDefinition
    /\ snapshots' = snapshots \cup {[revision |-> expected, definition |-> author[a].definition]}
    /\ UNCHANGED <<pipelineRow, draft, author, saved>>

DraftNext ==
    \/ CreatePipelineRow \/ CreateDraftRow
    \/ \E a \in Author :
         \/ GetDraft(a)
         \/ \E d \in Definition : SaveDraft(a, d)
         \/ \E n \in 0..MaxSaves : Snapshot(a, n)

DraftSpec == DraftInit /\ [][DraftNext]_draftVars

-----------------------------------------------------------------------------
(***************************************************************************)
(* Properties                                                              *)
(***************************************************************************)

\* SaveDraft loses no update: every saved revision was written by a client
\* that had loaded the revision before it, and the row is the last save.
NoLostUpdate ==
    /\ \A i \in 1..Len(saved) : saved[i].base = i - 1
    /\ saved # <<>> => draft = [revision |-> Len(saved), definition |-> saved[Len(saved)].definition]

\* "DebugRunner executes exactly the draft revision loaded at the beginning of
\* the request", and a version frozen from a revision holds what that revision
\* saved, whatever was saved meanwhile.
SnapshotIsRevision ==
    \A s \in snapshots :
        s.revision \in 1..Len(saved) /\ s.definition = saved[s.revision].definition

\* The revisions of a draft are a history: no save overwrites an unseen one,
\* and what is frozen or executed is one of them.
RevisionsAreKept == NoLostUpdate /\ SnapshotIsRevision
=============================================================================
