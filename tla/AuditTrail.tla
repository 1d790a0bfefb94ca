----------------------------- MODULE AuditTrail -----------------------------
(* The audit trail in Postgres: the synchronous audit service that App      *)
(* builds (internal/app/app.go:126 gives it no buffer), its table           *)
(* (internal/storage/postgres/audit.go) and a reader that follows the       *)
(* cursors of the list.  The three kinds of writers differ in what they     *)
(* fill in: the task service and the model readiness probe set an id and    *)
(* the time, the task handlers an id only, the HTTP handlers neither.       *)
EXTENDS Integers, FiniteSets

CONSTANTS AuditId, MaxAuditTime, PageLimit, MaxAudited

ASSUME AuditAssumption ==
    AuditId \subseteq Nat \ {0} /\ MaxAuditTime \in Nat /\ PageLimit \in Nat \ {0}

VARIABLES
    trail,      \* the rows of audit_events
    audited,    \* the number of actions that recorded an event
    auditClock,
    reader      \* a caller of GET /v1/audit-events that follows next_cursor

auditVars == <<trail, audited, auditClock, reader>>

BlankId == 0       \* the empty string
ZeroTime == 0      \* time.Time{}
NoCursor == [at |-> ZeroTime, id |-> BlankId]
NoReader == [pages |-> "none", cursor |-> NoCursor, present |-> {}, seen |-> {}, repeated |-> FALSE]

AuditInit ==
    /\ trail = {}
    /\ audited = 0
    /\ auditClock = 1
    /\ reader = NoReader

AuditTimePasses ==
    /\ auditClock < MaxAuditTime
    /\ auditClock' = auditClock + 1
    /\ UNCHANGED <<trail, audited, reader>>

Event(id, at) == [id |-> id, at |-> at, action |-> audited + 1]

\* INSERT: an id that is there already fails, and every caller ignores the
\* error.
Record(event) ==
    /\ audited < MaxAudited
    /\ audited' = audited + 1
    /\ trail' = IF \E e \in trail : e.id = event.id THEN trail ELSE trail \cup {event}
    /\ UNCHANGED <<auditClock, reader>>

FreshIds == {i \in AuditId : \A e \in trail : e.id # i}

\* createKnowledgeBase, enqueueDocumentImport, enqueueEvaluation.
HandlerRecords == Record(Event(BlankId, ZeroTime))
\* documentImportTaskHandler, evaluationTaskHandler.
TaskRecords(i) == i \in FreshIds /\ Record(Event(i, ZeroTime))
\* taskqueue.Service.record, ProbeService.
ServiceRecords(i) == i \in FreshIds /\ Record(Event(i, auditClock))

Newer(e, f) == e.at > f.at \/ (e.at = f.at /\ e.id > f.id)

\* Mutant: the rows of the cursor's moment are skipped.
OlderThan(e, cursor) == e.at < cursor.at

\* (created_at < $1 OR (created_at = $1 AND id < $2))
After(e, cursor) == e.at < cursor.at \/ (e.at = cursor.at /\ e.id < cursor.id)

\* A cursor whose time is the zero time is taken for none.
Matching(cursor) ==
    IF cursor.at = ZeroTime THEN trail ELSE {e \in trail : After(e, cursor)}

FirstOf(rows, n) == {e \in rows : Cardinality({f \in rows : Newer(f, e)}) < n}

\* One page, and the cursor of the next if a further row was fetched.
Page(cursor) == FirstOf(Matching(cursor), PageLimit)
LastOf(page) == CHOOSE e \in page : \A f \in page \ {e} : Newer(f, e)
HasNext(cursor) == Cardinality(FirstOf(Matching(cursor), PageLimit + 1)) > PageLimit

\* The reader asks for the first page, and for the next with each cursor it gets.
ListPage ==
    LET cursor == IF reader.pages = "none" THEN NoCursor ELSE reader.cursor
        page == Page(cursor)
    IN  /\ reader.pages # "end"
        /\ reader' = [pages |-> IF HasNext(cursor) THEN "more" ELSE "end",
                      cursor |-> IF HasNext(cursor) THEN [at |-> LastOf(page).at, id |-> LastOf(page).id] ELSE NoCursor,
                      present |-> IF reader.pages = "none" THEN trail ELSE reader.present,
                      seen |-> reader.seen \cup page,
                      repeated |-> reader.repeated \/ reader.seen \cap page # {}]
        /\ UNCHANGED <<trail, audited, auditClock>>

AuditNext ==
    \/ AuditTimePasses \/ HandlerRecords \/ ListPage
    \/ \E i \in AuditId : TaskRecords(i) \/ ServiceRecords(i)

AuditSpec == AuditInit /\ [][AuditNext]_auditVars

-----------------------------------------------------------------------------

\* A reader that followed the cursors to the end has seen every event that
\* was there when it began, whatever was recorded meanwhile.
PagesComplete == reader.pages = "end" => reader.present \subseteq reader.seen

\* And saw none twice, as long as every event has a time: a page that ends
\* on an event without one starts the list over.
PagesRepeatNothing == (\A e \in trail : e.at # ZeroTime) => ~reader.repeated

\* Whoever follows the cursors gets every event there was while others are recorded,
\* and none twice while every event carries a time, which the HTTP and the task
\* handlers do not set (List).
PagesAreExact == PagesComplete /\ PagesRepeatNothing
=============================================================================
