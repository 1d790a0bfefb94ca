----------------------------- MODULE OfflineItem -----------------------------
(***************************************************************************)
(* The life of one optimization item of the offline knowledge organizer.   *)
(*                                                                         *)
(* TransitionOptimizationItem, RunRegressionForItem and RevalidateItem each*)
(* read the row, decide on the copy, and write the whole row back without a*)
(* condition; a regression or a validation runs for minutes in between.    *)
(* Each request is a small process with one step per repository call.  The *)
(* item events are an append-only log that no step reads and are left out. *)
(* The shadow retriever lists the eligible items with one query per status.*)
(***************************************************************************)
EXTENDS Integers, Sequences, FiniteSets

CONSTANTS
    ItemRequest,       \* requests on the item in flight
    MaxItemRequests    \* bound of the model: requests accepted in all

ASSUME ItemAssumption == MaxItemRequests \in Nat

VARIABLES
    item,        \* the row: status, eval_report, published_at
    itemRequest, \* the requests in flight, each with its copy of the row
    accepted,    \* requests so far
    behind,      \* history: the requests that read the row before its last write
    shadow       \* a retrieval: how many lists it has read, how often it saw the item

itemVars == <<item, itemRequest, accepted, behind, shadow>>

-----------------------------------------------------------------------------

ItemStatus == {"candidate", "evidence_validating", "needs_review", "verified",
               "shadow_enabled", "regression_passed", "regression_failed", "published",
               "knowledge_gap", "rejected", "stale", "deprecated"}

\* itemStatusTransitions: the statuses reachable from each one.
itemStatusTransitions ==
    [s \in ItemStatus |->
        CASE s = "candidate"           -> {"evidence_validating"}
          [] s = "evidence_validating" -> {"rejected", "knowledge_gap", "needs_review", "verified"}
          [] s = "needs_review"        -> {"verified", "rejected"}
          [] s = "verified"            -> {"shadow_enabled", "rejected"}
          [] s = "shadow_enabled"      -> {"regression_passed", "regression_failed"}
          [] s = "regression_failed"   -> {"needs_review", "rejected", "verified"}
          [] s = "regression_passed"   -> {"published", "rejected", "deprecated"}
          [] s = "published"           -> {"stale", "deprecated"}
          [] s = "stale"               -> {"evidence_validating", "deprecated"}
          [] s \in {"rejected", "knowledge_gap"} -> {"candidate"}
          [] OTHER                     -> {}]

\* Mutant: any item may start again as a candidate.
CanTransitionOrReset(from, to) == to \in itemStatusTransitions[from] \/ to = "candidate"

CanTransition(from, to) == to \in itemStatusTransitions[from]

NoRequest == [step |-> "idle", copy |-> [status |-> "candidate", report |-> "none", published |-> FALSE]]

NoRetrieval == [lists |-> 0, seen |-> 0, eligible |-> TRUE, outdated |-> FALSE]

\* What ProcessCluster may insert: the action of the analysis, or the verdict
\* of the validator, decides the first status.
Created == {[status |-> s, report |-> "none", published |-> FALSE] :
              s \in {"rejected", "knowledge_gap", "needs_review", "verified"}}

ItemInit ==
    /\ item \in Created
    /\ itemRequest = [a \in ItemRequest |-> NoRequest]
    /\ accepted = 0
    /\ behind = {}
    /\ shadow = NoRetrieval

-----------------------------------------------------------------------------
(***************************************************************************)
(* Requests                                                                *)
(***************************************************************************)

shadowStatusEligible(status) ==
    status \in {"verified", "shadow_enabled", "regression_passed", "published"}

\* A write of the row leaves the other copies behind; a history in the record
\* of the retrieval in progress tells whether the item stayed eligible, and
\* whether a request wrote an outdated copy.
WriteItem(a, row) ==
    /\ item' = row
    /\ behind' = behind \cup {b \in ItemRequest \ {a} : itemRequest[b].step # "idle"}
    /\ shadow' = [shadow EXCEPT !.eligible = @ /\ shadowStatusEligible(row.status),
                                !.outdated = @ \/ a \in behind]

Begin(a, step, copy) ==
    /\ accepted < MaxItemRequests
    /\ itemRequest[a].step = "idle"
    /\ itemRequest' = [itemRequest EXCEPT ![a] = [step |-> step, copy |-> copy]]
    /\ accepted' = accepted + 1
    /\ behind' = behind \ {a}
    /\ UNCHANGED <<item, shadow>>

GoOn(a, request) ==
    /\ itemRequest' = [itemRequest EXCEPT ![a] = request]
    /\ UNCHANGED accepted

\* The statuses a request may ask for: the five actions of the HTTP handler,
\* and the reactions to changed sources that only the service's method offers.
Requested == {"verified", "rejected", "shadow_enabled", "published", "deprecated",
              "stale", "candidate", "evidence_validating"}

\* TransitionOptimizationItem up to its write.
TransitionReads(a, next) ==
    /\ CanTransition(item.status, next)
    /\ Begin(a, "write", [item EXCEPT !.status = next, !.published = @ \/ next = "published"])

canRunRegressionForStatus(status) == status \in {"shadow_enabled", "regression_failed"}

RegressionReads(a) ==
    /\ canRunRegressionForStatus(item.status)
    /\ Begin(a, "regression", item)

\* The row after the regression: verdict and report go together.
Reported(copy, passed) ==
    [copy EXCEPT !.status = IF passed THEN "regression_passed" ELSE "regression_failed",
                 !.report = IF passed THEN "passed" ELSE "failed"]

\* The result is checked against the transitions of the copy; a regression
\* that fails to run is an error as well.
RegressionEnds(a, passed) ==
    LET copy == itemRequest[a].copy
        row == Reported(copy, passed)
    IN  /\ itemRequest[a].step = "regression"
        /\ GoOn(a, IF row.status = copy.status \/ CanTransition(copy.status, row.status)
                   THEN [step |-> "write", copy |-> row] ELSE NoRequest)
        /\ UNCHANGED <<item, behind, shadow>>

RevalidateReads(a) ==
    /\ item.status = "stale"
    /\ Begin(a, "mark", item)

\* UpdateOptimizationItemStatus touches the status only.
RevalidateMarks(a) ==
    /\ itemRequest[a].step = "mark"
    /\ WriteItem(a, [item EXCEPT !.status = "evidence_validating"])
    /\ GoOn(a, [itemRequest[a] EXCEPT !.step = "validate"])

\* A stale fingerprint or a missing source retires the item, any other error
\* rejects it.
RevalidateValidates(a, verdict) ==
    /\ itemRequest[a].step = "validate"
    /\ GoOn(a, [step |-> "write", copy |-> [itemRequest[a].copy EXCEPT !.status = verdict]])
    /\ UNCHANGED <<item, behind, shadow>>

\* UpdateOptimizationItem: the whole row, whatever it holds by now.
UpdateOptimizationItem(a) ==
    /\ itemRequest[a].step = "write"
    /\ WriteItem(a, itemRequest[a].copy)
    /\ GoOn(a, NoRequest)

\* The process of the request dies, or one of its calls fails.
RequestDies(a) ==
    /\ itemRequest[a].step # "idle"
    /\ GoOn(a, NoRequest)
    /\ UNCHANGED <<item, behind, shadow>>

-----------------------------------------------------------------------------
(***************************************************************************)
(* Shadow retrieval                                                        *)
(***************************************************************************)

\* The order in which listEligibleItems asks for the statuses.
EligibleStatuses == <<"verified", "shadow_enabled", "regression_passed", "published">>

RetrievalBegins ==
    /\ shadow.lists = Len(EligibleStatuses)
    /\ shadow' = [NoRetrieval EXCEPT !.eligible = shadowStatusEligible(item.status)]
    /\ UNCHANGED <<item, itemRequest, accepted, behind>>

\* One ListOptimizationItems query.
ListsStatus ==
    /\ shadow.lists < Len(EligibleStatuses)
    /\ shadow' = [lists |-> shadow.lists + 1,
                  seen |-> shadow.seen + IF item.status = EligibleStatuses[shadow.lists + 1] THEN 1 ELSE 0,
                  eligible |-> shadow.eligible /\ shadowStatusEligible(item.status),
                  outdated |-> shadow.outdated]
    /\ UNCHANGED <<item, itemRequest, accepted, behind>>

-----------------------------------------------------------------------------

ItemNext ==
    \/ \E a \in ItemRequest :
         \/ \E next \in Requested : TransitionReads(a, next)
         \/ RegressionReads(a) \/ RevalidateReads(a) \/ RevalidateMarks(a)
         \/ \E passed \in BOOLEAN : RegressionEnds(a, passed)
         \/ \E verdict \in {"verified", "deprecated", "rejected"} : RevalidateValidates(a, verdict)
         \/ UpdateOptimizationItem(a) \/ RequestDies(a)
    \/ RetrievalBegins \/ ListsStatus

ItemSpec == ItemInit /\ [][ItemNext]_itemVars

-----------------------------------------------------------------------------
(***************************************************************************)
(* Properties                                                              *)
(***************************************************************************)

\* "Only items that pass the regression thresholds may enter
\* regression_passed": whoever writes last, an item that passed or was
\* published carries the passing report, and a published one its time.
ReportBacksStatus ==
    /\ item.status \in {"regression_passed", "published", "stale"} => item.report = "passed"
    /\ item.status \in {"published", "stale"} => item.published

\* An archived item comes back only by a request that read the row before it
\* was archived.  (Such a request does bring it back, because
\* UpdateOptimizationItem writes without a condition, although
\* docs/plans/2026-07-08-offline-knowledge-optimization.md:396 calls deprecated
\* "the archived terminal state".)
ArchivedIsFinal ==
    [][item.status = "deprecated" /\ item'.status # "deprecated" =>
         \E a \in behind : itemRequest'[a] # itemRequest[a]]_itemVars

\* Four queries without a snapshot miss an item that was eligible from the
\* first to the last of them only when a request wrote an outdated copy
\* meanwhile, which can move the item back: the lists are read in the order in
\* which an item moves on.
EligibleIsFound ==
    shadow.lists = Len(EligibleStatuses) /\ shadow.eligible => shadow.seen > 0 \/ shadow.outdated

\* What the status of an item is worth while requests that work for minutes on
\* copies of the row overlap and write it back: a report backs it always; only
\* the write of an outdated copy brings an archived item back, or hides an
\* eligible one from a retrieval.
StatusIsTrue == ArchivedIsFinal /\ [](ReportBacksStatus /\ EligibleIsFound)
=============================================================================
