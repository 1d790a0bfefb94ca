------------------------------- MODULE SelfOps -------------------------------
(***************************************************************************)
(* The self-operations executor of the MCP server: a maintenance plan      *)
(* records a snapshot of the checkout; an approved apply takes the lock of *)
(* its scope, captures the snapshot again, and runs the action of the plan *)
(* when nothing drifted.  Anyone may edit the checkout at any moment.      *)
(*                                                                         *)
(* The loop on standard input hands over one call at a time; the executor  *)
(* is modelled with the concurrent callers that its mutex and locks serve. *)
(*                                                                         *)
(* A hash is the version of what it hashes: manifest and head are versions,*)
(* artifacts the manifest they were generated from, or Edited by hand.     *)
(*                                                                         *)
(* The second half is the MCP server itself: it reads a line, hands the    *)
(* request to the self checks, the diagnostics, the executor above or the  *)
(* HTTP API, and writes at most one answer before it reads the next line.  *)
(* A self check runs the checks of its scope one after the other under a   *)
(* deadline for all of them and a timeout for each command.                *)
(***************************************************************************)
EXTENDS Integers, FiniteSets, Sequences, SequencesExt

CONSTANTS
    OpCaller,      \* callers of one executor
    ScopeAsked,    \* scopes the callers plan for
    Manifest,      \* versions of the capability manifest
    GitHead,       \* commits of the checkout
    FirstCheckout, \* the checkout at first: one of Snapshots
    MaxOps,        \* bound of the model: plans and applies in all
    MaxEdits       \* bound of the model: edits of the checkout

ASSUME OpsAssumption ==
    /\ MaxOps \in Nat /\ MaxEdits \in Nat
    /\ 0 \notin Manifest
    /\ FirstCheckout \in [manifest : Manifest, head : GitHead, artifacts : Manifest \cup {0}]

VARIABLES
    checkout,      \* [manifest, head, artifacts] of the working directory
    opPlans,       \* plans by id
    opCompleted,   \* idempotency keys with a completed result
    opLocks,       \* lock keys that are held
    opCalls,       \* the call of each caller
    applied,       \* history: what was run, on which recaptured snapshot
    opsMade,       \* calls so far
    edits          \* edits so far

opsVars == <<checkout, opPlans, opCompleted, opLocks, opCalls, applied, opsMade, edits>>

-----------------------------------------------------------------------------
Edited == 0

\* actionForScope: an action with commands, one that is blocked, or none.
Actions ==
    [agent_artifacts              |-> [blocked |-> FALSE, writes |-> TRUE],
     migration_status             |-> [blocked |-> FALSE, writes |-> FALSE],
     qdrant_collection_validation |-> [blocked |-> FALSE, writes |-> FALSE],
     remediation_issue            |-> [blocked |-> TRUE, writes |-> FALSE]]

Snapshots == [manifest : Manifest, head : GitHead, artifacts : Manifest \cup {Edited}]

NewPlan(scope, snapshot) == [scope |-> scope, snapshot |-> snapshot]

\* The fingerprint that names a plan: its scope is not part of it.
PlanId(snapshot) == snapshot

\* The git head is not part of the key.
IdempotencyKey(plan) == <<plan.scope, plan.snapshot.manifest, plan.snapshot.artifacts>>

\* The parts of a snapshot in the order the files are read.
SnapshotOrder == <<"manifest", "head", "artifacts">>

NewCall == [pc |-> "idle", op |-> "plan", plan |-> NewPlan("remediation_issue", FirstCheckout),
            approved |-> FALSE, part |-> 1, seen |-> FirstCheckout, moved |-> FALSE, answer |-> "none"]

OpsInit ==
    /\ checkout = FirstCheckout
    /\ opPlans = << >>
    /\ opCompleted = {}
    /\ opLocks = {}
    /\ opCalls = [c \in OpCaller |-> NewCall]
    /\ applied = {}
    /\ opsMade = 0
    /\ edits = 0

\* A call moves on, or gives its answer.
Moves(c, call) == opCalls' = [opCalls EXCEPT ![c] = call]

Replied(c, word) == [NewCall EXCEPT !.plan = opCalls[c].plan, !.answer = word]

Replies(c, word) == Moves(c, Replied(c, word))

Asks == opsMade < MaxOps /\ opsMade' = opsMade + 1

\* The checkout changes under every apply that has its lock.
Disturbs(calls, now) ==
    [c \in OpCaller |-> IF calls[c].op = "apply" /\ calls[c].pc \in {"read", "captured", "run"}
                        THEN [calls[c] EXCEPT !.moved = @ \/ now # checkout] ELSE calls[c]]

-----------------------------------------------------------------------------
\* Plan.

\* validatePlanRequest accepts dry runs of known scopes.
Plan(c) ==
    /\ opCalls[c].pc = "idle" /\ Asks
    /\ \E scope \in ScopeAsked \cap DOMAIN Actions :
          Moves(c, [NewCall EXCEPT !.pc = "read", !.plan.scope = scope])
    /\ UNCHANGED <<checkout, opPlans, opCompleted, opLocks, applied, edits>>

\* FileSnapshotProvider reads one part after the other.
ReadSnapshot(c) ==
    /\ opCalls[c].pc = "read"
    /\ LET call == opCalls[c]
           name == SnapshotOrder[call.part]
       IN  Moves(c, [call EXCEPT !.seen[name] = checkout[name],
                                 !.pc = IF call.part = 3 THEN "captured" ELSE "read",
                                 !.part = IF call.part = 3 THEN 1 ELSE call.part + 1])
    /\ UNCHANGED <<checkout, opPlans, opCompleted, opLocks, applied, opsMade, edits>>

\* The plan replaces the one of the same id.
StorePlan(c) ==
    /\ opCalls[c].pc = "captured" /\ opCalls[c].op = "plan"
    /\ LET plan == NewPlan(opCalls[c].plan.scope, opCalls[c].seen)
           id == PlanId(plan.snapshot)
       IN  opPlans' = [other \in DOMAIN opPlans \cup {id} |-> IF other = id THEN plan ELSE opPlans[other]]
    /\ Replies(c, "planned")
    /\ UNCHANGED <<checkout, opCompleted, opLocks, applied, opsMade, edits>>

-----------------------------------------------------------------------------
\* Apply.

\* The plan is read; without approval, or for a blocked action, that is all.
Apply(c) ==
    /\ opCalls[c].pc = "idle" /\ Asks
    /\ \E id \in DOMAIN opPlans, approved \in BOOLEAN :
          LET call == [NewCall EXCEPT !.op = "apply", !.plan = opPlans[id], !.approved = approved]
          IN  Moves(c, IF approved /\ ~Actions[call.plan.scope].blocked
                       THEN [call EXCEPT !.pc = "check"] ELSE [NewCall EXCEPT !.answer = "blocked"])
    /\ UNCHANGED <<checkout, opPlans, opCompleted, opLocks, applied, edits>>

\* completedResult: the answer is given again.
CheckCompleted(c) ==
    /\ opCalls[c].pc = "check"
    /\ IF IdempotencyKey(opCalls[c].plan) \in opCompleted
       THEN Replies(c, "skipped")
       ELSE Moves(c, [opCalls[c] EXCEPT !.pc = "lock"])
    /\ UNCHANGED <<checkout, opPlans, opCompleted, opLocks, applied, opsMade, edits>>

TryLock(c) ==
    /\ opCalls[c].pc = "lock"
    /\ LET key == opCalls[c].plan.scope
       IN  IF key \in opLocks
           THEN Replies(c, "blocked") /\ UNCHANGED opLocks
           ELSE /\ opLocks' = opLocks \cup {key}
                /\ Moves(c, [opCalls[c] EXCEPT !.pc = "read", !.moved = FALSE])
    /\ UNCHANGED <<checkout, opPlans, opCompleted, applied, opsMade, edits>>

\* Mutant: the artifacts are not compared.
DriftsWithoutArtifacts(expected, actual) ==
    \E name \in {"head", "manifest"} : actual[name] # expected[name]

driftReason(expected, actual) == \E name \in DOMAIN expected : actual[name] # expected[name]

\* The deferred unlock runs on every return after tryLock.
KeepsLock(c) == FALSE

Unlocked(c) == IF KeepsLock(c) THEN opLocks ELSE opLocks \ {opCalls[c].plan.scope}

CheckDrift(c) ==
    /\ opCalls[c].pc = "captured" /\ opCalls[c].op = "apply"
    /\ IF driftReason(opCalls[c].plan.snapshot, opCalls[c].seen)
       THEN Replies(c, "blocked") /\ opLocks' = Unlocked(c)
       ELSE Moves(c, [opCalls[c] EXCEPT !.pc = "run"]) /\ UNCHANGED opLocks
    /\ UNCHANGED <<checkout, opPlans, opCompleted, applied, opsMade, edits>>

\* The commands of the action: "make agent-sync" generates the artifacts.
Synced(c) ==
    [checkout EXCEPT !.artifacts = IF Actions[opCalls[c].plan.scope].writes THEN checkout.manifest ELSE @]

RunAction(c) ==
    /\ opCalls[c].pc = "run"
    /\ checkout' = Synced(c)
    /\ applied' = applied \cup {[scope |-> opCalls[c].plan.scope, seen |-> opCalls[c].seen]}
    /\ opCalls' = Disturbs([opCalls EXCEPT ![c].pc = "record"], Synced(c))
    /\ UNCHANGED <<opPlans, opCompleted, opLocks, opsMade, edits>>

\* A command that fails may have written some of the artifacts.
ActionFails(c) ==
    /\ opCalls[c].pc = "run"
    /\ \E partial \in BOOLEAN :
          checkout' = IF partial /\ Actions[opCalls[c].plan.scope].writes
                      THEN [checkout EXCEPT !.artifacts = Edited] ELSE checkout
    /\ opCalls' = Disturbs([opCalls EXCEPT ![c] = Replied(c, "blocked")], checkout')
    /\ opLocks' = Unlocked(c)
    /\ UNCHANGED <<opPlans, opCompleted, applied, opsMade, edits>>

RecordCompleted(c) ==
    /\ opCalls[c].pc = "record"
    /\ opCompleted' = opCompleted \cup {IdempotencyKey(opCalls[c].plan)}
    /\ Moves(c, [opCalls[c] EXCEPT !.pc = "unlock"])
    /\ UNCHANGED <<checkout, opPlans, opLocks, applied, opsMade, edits>>

Unlock(c) ==
    /\ opCalls[c].pc = "unlock"
    /\ opLocks' = Unlocked(c)
    /\ Replies(c, "completed")
    /\ UNCHANGED <<checkout, opPlans, opCompleted, applied, opsMade, edits>>

\* A commit, an edit of the manifest or of the artifacts, a restored file.
EditCheckout ==
    /\ edits < MaxEdits /\ edits' = edits + 1
    /\ checkout' \in Snapshots /\ checkout' # checkout
    /\ opCalls' = Disturbs(opCalls, checkout')
    /\ UNCHANGED <<opPlans, opCompleted, opLocks, applied, opsMade>>

OpsNext ==
    \/ \E c \in OpCaller :
          \/ Plan(c) \/ ReadSnapshot(c) \/ StorePlan(c)
          \/ Apply(c) \/ CheckCompleted(c) \/ TryLock(c) \/ CheckDrift(c)
          \/ RunAction(c) \/ ActionFails(c) \/ RecordCompleted(c) \/ Unlock(c)
    \/ EditCheckout

OpsSpec == OpsInit /\ [][OpsNext]_opsVars

-----------------------------------------------------------------------------
\* A call of Apply between tryLock and its deferred unlock.
Inside(c, scope) ==
    /\ opCalls[c].op = "apply" /\ opCalls[c].plan.scope = scope
    /\ opCalls[c].pc \in {"read", "captured", "run", "record", "unlock"}

\* The lock of a scope is held exactly while one apply of the scope is between
\* tryLock and its return, whichever way it returns: two never run together,
\* and none leaves a lock that blocks the scope for ever (Apply).
LockIsHeld ==
    \A scope \in DOMAIN Actions : Cardinality({c \in OpCaller : Inside(c, scope)}) = IF scope \in opLocks THEN 1 ELSE 0

\* An action is run on approval only, never for a scope without a backend, and
\* on the checkout its plan described: unless the checkout changed after the
\* lock was taken it is, part by part, the one of the plan (the recapture
\* in Apply).
RunsOnPlanned ==
    \A c \in OpCaller : opCalls[c].pc = "run" =>
        /\ opCalls[c].approved /\ ~Actions[opCalls[c].plan.scope].blocked
        /\ opCalls[c].moved \/ checkout = opCalls[c].plan.snapshot

\* An apply that is skipped repeats work that was done: its action was run
\* before, on the same manifest and the same artifacts (completedResult).
ReplayIsEarned ==
    \A c \in OpCaller : opCalls[c].answer = "skipped" =>
        \E run \in applied :
            /\ run.scope = opCalls[c].plan.scope
            /\ run.seen.manifest = opCalls[c].plan.snapshot.manifest
            /\ run.seen.artifacts = opCalls[c].plan.snapshot.artifacts

\* An approved action runs alone, on the checkout its plan described, or is
\* skipped because it was done (Apply).
ApplyIsPlanned == LockIsHeld /\ RunsOnPlanned /\ ReplayIsEarned

-----------------------------------------------------------------------------
\* The MCP server.

CONSTANTS
    RpcLine,       \* lines of standard input: [long, json, rpc, id, method, params, tool, args]
    ToolSchema,    \* input schemas of the tools: [required, properties]
    Runtime,       \* the environment: [timeoutValid, backend, database, configured, baseURL]
    MaxRpcLines    \* bound of the model: lines that are read

ASSUME RpcAssumption ==
    /\ MaxRpcLines \in Nat
    /\ \A l \in RpcLine : l.long \in BOOLEAN /\ l.json \in BOOLEAN /\ l.rpc \in BOOLEAN /\ l.id \in BOOLEAN

VARIABLES
    rpcPc,         \* "read", "check", "command", "call", "lookup", "ops" or "over"
    linesRead,     \* the lines read so far, the last one in hand
    rpcAnswers,    \* what was written to standard output
    checkScope,    \* the scope of the self check in progress
    checkResults,  \* the verdicts of its checks so far
    checkRan,      \* history: what became of each of these checks
    checkOver,     \* its overall deadline has passed
    checkLate      \* the timeout of the running command has passed

rpcVars == <<rpcPc, linesRead, rpcAnswers, checkScope, checkResults, checkRan, checkOver, checkLate>>
checkVars == <<checkScope, checkResults, checkRan, checkOver, checkLate>>

RpcInit ==
    /\ rpcPc = "read"
    /\ linesRead = << >>
    /\ rpcAnswers = << >>
    /\ checkScope = "health" /\ checkResults = << >> /\ checkRan = << >>
    /\ checkOver = FALSE /\ checkLate = FALSE

\* Arguments are functions from names to values [kind, val].
validateValue(schema, value) ==
    CASE schema.type = "string"  -> value.kind = "string" /\ (schema.enum # {} => value.val \in schema.enum)
      [] schema.type = "integer" -> value.kind = "integer" /\ value.val >= schema.minimum
      [] schema.type = "boolean" -> value.kind = "boolean"
      [] OTHER -> TRUE

\* Required arguments are there; arguments without a schema are let through.
validateObject(schema, args) ==
    /\ schema.required \subseteq DOMAIN args
    /\ \A name \in DOMAIN args \cap DOMAIN schema.properties : validateValue(schema.properties[name], args[name])

\* A missing argument, or one of another type, reads as the zero value.
stringArg(args, key) == IF key \in DOMAIN args /\ args[key].kind = "string" THEN args[key].val ELSE ""
intArg(args, key) == IF key \in DOMAIN args THEN args[key].val ELSE 0
WholeArg(args, key) == key \in DOMAIN args => args[key].kind = "integer"

DiagnosticTool == {"orag_trace_lookup", "orag_diagnose", "orag_runbook_suggest"}
SelfOpsTool == {"orag_maintenance_plan", "orag_apply_low_risk_action", "orag_create_remediation_issue"}

\* The executor of a tools/call, or why there is none.
handleToolCall(line) ==
    IF ~line.params \/ line.tool \notin DOMAIN ToolSchema \/ ~validateObject(ToolSchema[line.tool], line.args)
    THEN "error"
    ELSE CASE line.tool = "orag_check"        -> "check"
           [] line.tool \in DiagnosticTool    -> IF line.tool = "orag_trace_lookup" THEN "lookup" ELSE "diagnose"
           [] line.tool \in SelfOpsTool       -> "ops"
           [] OTHER                           -> "call"

\* What is done with a line: a notification, which has no id, is never
\* carried out nor answered; a line that is no JSON is answered without one.
Handle(line) ==
    IF ~line.json THEN "error"
    ELSE IF ~line.rpc THEN (IF line.id THEN "error" ELSE "nothing")
    ELSE IF ~line.id THEN "nothing"
    ELSE IF line.method \in {"initialize", "tools/list"} THEN "result"
    ELSE IF line.method = "tools/call" THEN handleToolCall(line) ELSE "error"

ExitCode(verdict) == CASE verdict = "pass" -> 0 [] verdict = "fail" -> 1 [] verdict = "blocked" -> 2 [] OTHER -> 3

\* An answer to a line; results of the API carry no verdict, and only those
\* of self checks the verdicts of their checks.
RpcAnswer(number, kind, verdict, results, ran) ==
    [number |-> number, kind |-> kind, verdict |-> verdict, exit |-> ExitCode(verdict),
     isError |-> kind = "result" /\ verdict \notin {"pass", "none"}, results |-> results, ran |-> ran]

Writes(number, kind, verdict) ==
    /\ rpcPc' = "read"
    /\ rpcAnswers' = Append(rpcAnswers, RpcAnswer(number, kind, verdict, << >>, << >>))

SelfScopes == {"health", "contract", "agent_sync", "smoke", "storage", "config", "release", "all"}

normalizeScope(scope) == IF scope = "" THEN "trace" ELSE IF scope \in {"agent", "agentsync"} THEN "agent_sync" ELSE scope

knownScope(scope) == scope \in SelfScopes \cup {"mcp", "trace"}

\* The diagnostics run nothing: a failed command is evidence of its caller.
Diagnose(args) ==
    IF ~knownScope(normalizeScope(stringArg(args, "scope"))) THEN "invalid"
    ELSE IF stringArg(args, "failed_command") # "" \/ intArg(args, "failed_command_exit_code") # 0 THEN "fail"
    ELSE "pass"

RunbookSuggest(args) == IF knownScope(normalizeScope(stringArg(args, "scope"))) THEN "pass" ELSE "invalid"

\* The request of a self check is valid: its scope and its mode are known.
ValidCheck(args) ==
    /\ WholeArg(args, "overall_deadline_seconds") /\ WholeArg(args, "per_check_timeout_seconds")
    /\ stringArg(args, "scope") \in SelfScopes /\ stringArg(args, "mode") \in {"focused", "broad"}

\* The executor refuses the request of a tool whose arguments fit its schema.
Refused(todo, line) ==
    \/ todo = "check" /\ ~ValidCheck(line.args)
    \/ todo = "diagnose" /\ line.tool = "orag_diagnose" /\ ~WholeArg(line.args, "failed_command_exit_code")

\* One round of Serve as far as it needs nobody else.
Serve(line) ==
    /\ rpcPc = "read" /\ Len(linesRead) < MaxRpcLines /\ ~line.long
    /\ linesRead' = Append(linesRead, line)
    /\ LET todo == Handle(line)
           Says(kind, verdict) == Writes(Len(linesRead) + 1, kind, verdict) /\ UNCHANGED checkVars
       IN  \/ todo = "nothing" /\ UNCHANGED <<rpcPc, rpcAnswers, checkVars>>
           \/ todo = "error" /\ Says("error", "none")
           \/ todo = "result" /\ Says("result", "none")
           \/ Refused(todo, line) /\ Says("error", "none")
           \/ /\ todo = "diagnose" /\ ~Refused(todo, line)
              /\ Says("result", IF line.tool = "orag_diagnose" THEN Diagnose(line.args) ELSE RunbookSuggest(line.args))
           \/ todo \in {"lookup", "ops", "call"} /\ rpcPc' = todo /\ UNCHANGED <<rpcAnswers, checkVars>>
           \/ /\ todo = "check" /\ ~Refused(todo, line)
              /\ rpcPc' = "check" /\ checkScope' = stringArg(line.args, "scope")
              /\ checkResults' = << >> /\ checkRan' = << >> /\ checkOver' = FALSE /\ checkLate' = FALSE
              /\ UNCHANGED rpcAnswers

\* The end of the input, a line beyond the buffer of the scanner, or the write
\* of the last answer to an output that is closed ends the server.
ServeEnds ==
    /\ rpcPc = "read"
    /\ rpcPc' = "over"
    /\ UNCHANGED <<linesRead, rpcAnswers, checkVars>>

rpcLine == linesRead[Len(linesRead)]

\* The executor that was asked answers the line in hand.
Answers(kind, verdict) ==
    /\ Writes(Len(linesRead), kind, verdict)
    /\ UNCHANGED <<linesRead, checkVars>>

\* GetTrace and TraceLookup: without an id or a configuration, after an error
\* and for an unknown trace the lookup is blocked.
TraceLookup(found) ==
    /\ rpcPc = "lookup"
    /\ found => Runtime.configured /\ Runtime.baseURL /\ stringArg(rpcLine.args, "trace_id") # ""
    /\ Answers("result", IF found THEN "pass" ELSE "blocked")

\* CallTool: a configuration that is not complete, a timeout, an API that is
\* not there, does not answer JSON or refuses are errors; nothing is retried.
CallTool(answered) ==
    /\ rpcPc = "call"
    /\ answered => Runtime.baseURL /\ (ToolSchema[rpcLine.tool].auth => Runtime.configured)
    /\ Answers(IF answered THEN "result" ELSE "error", "none")

\* handleSelfOps: an error, or a result with the verdict of the executor; no
\* backend files remediation issues.
HandleSelfOps(kind, verdict) ==
    /\ rpcPc = "ops"
    /\ rpcLine.tool = "orag_create_remediation_issue" => kind = "result" /\ verdict = "blocked"
    /\ Answers(kind, IF kind = "error" THEN "none" ELSE verdict)

-----------------------------------------------------------------------------
\* The self checks.

checksForScope(scope) ==
    CASE scope = "release" -> <<"agent_sync", "contract", "smoke", "config">>
      [] scope = "all"     -> <<"health", "config", "agent_sync", "contract", "smoke", "storage">>
      [] OTHER             -> <<scope>>

\* Checks that run a command; the others probe the environment.
CommandCheck == {"agent_sync", "contract", "smoke"}

runProbe(check) ==
    IF \/ check = "config" /\ ~Runtime.timeoutValid
       \/ check = "storage" /\ Runtime.backend # "memory" /\ ~Runtime.database
    THEN "fail" ELSE "pass"

NextCheck == checksForScope(checkScope)[Len(checkResults) + 1]

\* The check in turn gets its verdict; the history says what became of it.
Judged(verdict, what) ==
    /\ rpcPc' = "check"
    /\ checkResults' = Append(checkResults, verdict) /\ checkRan' = Append(checkRan, what)
    /\ checkLate' = FALSE
    /\ UNCHANGED <<linesRead, rpcAnswers, checkScope, checkOver>>

Pending == rpcPc = "check" /\ Len(checkResults) < Len(checksForScope(checkScope))

\* blockedResult: the deadline passed before the check was started.
SkipCheck == Pending /\ checkOver /\ Judged("blocked", "skipped")

\* A probe does not look at the deadline.
RunProbe ==
    /\ Pending /\ ~checkOver /\ NextCheck \notin CommandCheck
    /\ Judged(runProbe(NextCheck), IF runProbe(NextCheck) = "pass" THEN "sound" ELSE "failed")

StartCommand ==
    /\ Pending /\ ~checkOver /\ NextCheck \in CommandCheck
    /\ rpcPc' = "command"
    /\ UNCHANGED <<linesRead, rpcAnswers, checkVars>>

\* Time passes: the overall deadline, or the timeout of the command.
DeadlinePasses ==
    /\ rpcPc \in {"check", "command"} /\ ~checkOver /\ checkOver' = TRUE
    /\ UNCHANGED <<rpcPc, linesRead, rpcAnswers, checkScope, checkResults, checkRan, checkLate>>

CommandTimesOut ==
    /\ rpcPc = "command" /\ ~checkLate /\ checkLate' = TRUE
    /\ UNCHANGED <<rpcPc, linesRead, rpcAnswers, checkScope, checkResults, checkRan, checkOver>>

\* The context of the command ends with its timeout and with the deadline.
TooLate == checkLate \/ checkOver

\* runOne after the command: what it says does not count when it comes late,
\* even if it succeeded.
CommandReturns(succeeds) ==
    /\ rpcPc = "command"
    /\ Judged(IF TooLate THEN "blocked" ELSE IF succeeds THEN "pass" ELSE "fail",
              IF TooLate THEN "late" ELSE IF succeeds THEN "sound" ELSE "failed")

\* A failure decides; without one, a check that did not finish does.
aggregateVerdict(results) ==
    IF "fail" \in ToSet(results) THEN "fail" ELSE IF "blocked" \in ToSet(results) THEN "blocked" ELSE "pass"

\* The end of Execute, and the answer of handleSelfCheck.
FinishChecks ==
    /\ rpcPc = "check" /\ ~Pending /\ rpcPc' = "read"
    /\ rpcAnswers' = Append(rpcAnswers, RpcAnswer(Len(linesRead), "result", aggregateVerdict(checkResults),
                                                  checkResults, checkRan))
    /\ UNCHANGED <<linesRead, checkVars>>

RpcNext ==
    \/ \E line \in RpcLine : Serve(line)
    \/ ServeEnds
    \/ \E yes \in BOOLEAN : TraceLookup(yes) \/ CallTool(yes) \/ CommandReturns(yes)
    \/ \E kind \in {"error", "result"}, verdict \in {"pass", "blocked"} : HandleSelfOps(kind, verdict)
    \/ SkipCheck \/ RunProbe \/ StartCommand \/ DeadlinePasses \/ CommandTimesOut \/ FinishChecks

RpcSpec == RpcInit /\ [][RpcNext]_rpcVars

-----------------------------------------------------------------------------
\* A line that is answered: one with an id, or one that is no JSON.
Answerable(line) == line.id \/ ~line.json

\* The line in hand while an executor is at work.
OpenLines == IF rpcPc \in {"read", "over"} THEN {} ELSE {Len(linesRead)}

\* Every request with an id is answered exactly once and in the order of the
\* requests, a notification never, whichever executor serves it; and no
\* executor is at work for a notification (Serve, Handle).
OneAnswerEach ==
    /\ {a.number : a \in ToSet(rpcAnswers)} = {n \in DOMAIN linesRead : Answerable(linesRead[n])} \ OpenLines
    /\ \A i, j \in DOMAIN rpcAnswers : i < j => rpcAnswers[i].number < rpcAnswers[j].number
    /\ \A n \in OpenLines : linesRead[n].id

\* The self checks that were answered with a result.
CheckAnswers ==
    {a \in ToSet(rpcAnswers) : a.kind = "result" /\ Handle(linesRead[a.number]) = "check"}

\* The verdict of a self check is earned: it passes, with exit code 0, only
\* when every check of its scope was carried out in time and was sound; it
\* fails exactly when one really failed; a deadline that falls between or
\* during the checks leaves it blocked, with every later check skipped, and no
\* check is left out of the results (Execute, runOne, aggregateVerdict).
VerdictIsEarned ==
    \A a \in CheckAnswers :
        /\ DOMAIN a.ran = DOMAIN checksForScope(stringArg(linesRead[a.number].args, "scope"))
        /\ a.exit = 0 <=> \A i \in DOMAIN a.ran : a.ran[i] = "sound"
        /\ a.exit = 1 <=> \E i \in DOMAIN a.ran : a.ran[i] = "failed"
        /\ a.isError <=> a.exit # 0
        /\ \A i, j \in DOMAIN a.ran : i < j /\ a.ran[i] = "skipped" => a.ran[j] = "skipped"

\* Maintenance runs as it was planned, and the MCP server answers each request
\* once, with a verdict that was earned.
OpsAreSound == ApplyIsPlanned /\ OneAnswerEach /\ VerdictIsEarned
=============================================================================
