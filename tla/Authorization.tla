--------------------------- MODULE Authorization ---------------------------
(* Who may do what in the HTTP API: the policy (internal/auth/policy.go),   *)
(* and the lookups the handlers of internal/http make before they ask it.   *)
(* A principal comes from a login token or an API key; it belongs to a      *)
(* tenant and may be bound to one project; the middleware shows a bound     *)
(* principal only some of the routes.  Knowledge bases, datasets, and the   *)
(* evaluations, optimization runs, tasks, traces, ingestion jobs and runs   *)
(* of offline knowledge made from them carry the tenant and the project     *)
(* they were created in, which never change.  A task is carried out later,  *)
(* by its tenant and by what its payload names, whoever asked for it.       *)
(* Every handler is one step here: what the work behind it does over time   *)
(* is the subject of the other modules.                                     *)
EXTENDS Integers, FiniteSets

CONSTANTS Tenant, Project, ProjectTenant, BaseId, DatasetId, WorkId

NoProject == "no project"
Absent == [route |-> "none"]
Deleted == [route |-> "deleted"]

ASSUME AuthorizationAssumption ==
    /\ ProjectTenant \in [Project -> Tenant]
    /\ NoProject \notin Project

VARIABLES
    bases,     \* [BaseId -> Absent, Deleted or row]: knowledge_bases, whose ids are not used again
    datasets,  \* [DatasetId -> Absent or row]
    works,     \* [WorkId -> Absent or row]: evaluations, optimization runs, tasks, traces, jobs, offline runs
    outcomes,  \* [WorkId -> Absent or row]: the job or the evaluation a worker made of the task
    access     \* the request being answered: who, how, to a resource of which tenant and project, served?

authVars == <<bases, datasets, works, outcomes, access>>

Role == {"tenant_admin", "project_editor", "project_viewer"}

\* A project role needs a project; a key's project belongs to its tenant
\* (createAPIKey), and a login token is an administrator without one.
Principals ==
    {p \in [tenant : Tenant, role : Role, project : Project \cup {NoProject}] :
       /\ p.role # "tenant_admin" => p.project # NoProject
       /\ p.project # NoProject => ProjectTenant[p.project] = p.tenant}

TenantWide == {"api_key.manage", "project.create", "project.list", "tutorial_clone.create"}
ProjectActions == {"project.read", "project.update"}
ViewerActions == {"project.read", "resource.read", "tutorial_clone.read", "tutorial_run.read"}
EditorActions ==
    ViewerActions \cup {"resource.write", "tutorial_clone.retry", "tutorial_run.create", "tutorial_run.cancel"}
ScopedActions == ProjectActions \cup EditorActions

RoleAllows(role, action) ==
    \/ role = "tenant_admin"
    \/ role = "project_editor" /\ action \in EditorActions
    \/ role = "project_viewer" /\ action \in ViewerActions

\* A resource without a project is for an administrator without one.
Authorize(p, action, tenant, project) ==
    /\ p.tenant = tenant
    /\ IF action \in TenantWide
       THEN project = NoProject /\ p.project = NoProject /\ p.role = "tenant_admin"
       ELSE /\ action \in ScopedActions
            /\ IF project = NoProject
               THEN action \notin ProjectActions /\ p.project = NoProject /\ p.role = "tenant_admin"
               ELSE p.project \in {NoProject, project} /\ RoleAllows(p.role, action)

\* The routes under a project of the path, with the action each handler asks
\* the policy for.
ProjectRoute ==
    [getProject |-> "project.read", updateProject |-> "project.update",
     listProjectAuditEvents |-> "project.read",
     listReleases |-> "resource.read", promoteRelease |-> "resource.write",
     activateDevelopmentRelease |-> "resource.write",
     getPipelineDraft |-> "resource.read", savePipelineDraft |-> "resource.write"]

\* The same for the tutorial routes.
TutorialRoute ==
    [getProjectTutorialExperiment |-> "tutorial_clone.read",
     importTutorialVideoSource |-> "tutorial_clone.create",
     activateTutorialVideoEvaluation |-> "tutorial_clone.create",
     startTutorialExperimentRun |-> "tutorial_run.create",
     getTutorialExperimentRun |-> "tutorial_run.read",
     tutorialExperimentRunAction |-> "tutorial_run.cancel"]

\* The handlers of these routes look at the tenant only.
TenantRoute ==
    {"getTrace", "listTraces", "traceStats", "getIngestionJob", "createOfflineKnowledgeRun", "listOfflineKnowledgeRuns",
     "getOfflineKnowledgeRun", "offlineKnowledgeRunAction", "listOfflineKnowledgeQuestions", "listOptimizationItems",
     "getOptimizationItem", "optimizationItemAction", "bulkRevalidateOptimizationItems"}

\* The routes a principal that is bound to a project may ask for at all.
projectScopedRouteSupported(route) ==
    route \notin (TenantRoute \cup {"activateDevelopmentRelease"} \cup DOMAIN TutorialRoute)

Admitted(p, route) == p.project # NoProject => projectScopedRouteSupported(route)

AuthInit ==
    /\ bases = [b \in BaseId |-> Absent]
    /\ datasets = [d \in DatasetId |-> Absent]
    /\ works = [w \in WorkId |-> Absent]
    /\ outcomes = [w \in WorkId |-> Absent]
    /\ access = Absent

Answered(p, action, row, served) ==
    access' = [who |-> p, action |-> action, tenant |-> row.tenant, project |-> row.project, served |-> served]

Accessed(p, action, row) == Answered(p, action, row, TRUE)

\* Mutant: a lookup by id alone.
FoundById(p, row) == row \notin {Absent, Deleted}

\* Lookups are by tenant, and by project for a principal bound to one.
Found(p, row) ==
    /\ row \notin {Absent, Deleted}
    /\ row.tenant = p.tenant
    /\ p.project # NoProject => row.project = p.project

Permitted(p, action, row) == Found(p, row) /\ Authorize(p, action, row.tenant, row.project)

authorizedKnowledgeBase(p, b, action) == Permitted(p, action, bases[b])
authorizedDataset(p, d, action) == Permitted(p, action, datasets[d])

\* The project of what a principal creates: its own, or the one it asks for.
CreationProject(p, requested) == IF p.project # NoProject THEN p.project ELSE requested

authorizeResourceCreation(p, requested) ==
    LET project == CreationProject(p, requested)
    IN  /\ p.project # NoProject => requested \in {NoProject, p.project}
        /\ project # NoProject => ProjectTenant[project] = p.tenant
        /\ Authorize(p, "resource.write", p.tenant, project)

NewRow(p, requested) == [tenant |-> p.tenant, project |-> CreationProject(p, requested)]

createKnowledgeBase(p, b, requested) ==
    /\ bases[b] = Absent
    /\ authorizeResourceCreation(p, requested)
    /\ bases' = [bases EXCEPT ![b] = NewRow(p, requested)]
    /\ Accessed(p, "resource.write", NewRow(p, requested))
    /\ UNCHANGED <<datasets, works, outcomes>>

createDataset(p, d, requested) ==
    /\ datasets[d] = Absent
    /\ authorizeResourceCreation(p, requested)
    /\ datasets' = [datasets EXCEPT ![d] = NewRow(p, requested)]
    /\ Accessed(p, "resource.write", NewRow(p, requested))
    /\ UNCHANGED <<bases, works, outcomes>>

deleteKnowledgeBase(p, b) ==
    /\ authorizedKnowledgeBase(p, b, "resource.write")
    /\ bases' = [bases EXCEPT ![b] = Deleted]
    /\ Accessed(p, "resource.write", bases[b])
    /\ UNCHANGED <<datasets, works, outcomes>>

getKnowledgeBase(p, b) ==
    /\ authorizedKnowledgeBase(p, b, "resource.read")
    /\ Accessed(p, "resource.read", bases[b])
    /\ UNCHANGED <<bases, datasets, works, outcomes>>

addDatasetItem(p, d) ==
    /\ authorizedDataset(p, d, "resource.write")
    /\ Accessed(p, "resource.write", datasets[d])
    /\ UNCHANGED <<bases, datasets, works, outcomes>>

listKnowledgeBases(p, b) ==
    /\ Authorize(p, "resource.read", p.tenant, p.project)
    /\ Found(p, bases[b])
    /\ Accessed(p, "resource.read", bases[b])
    /\ UNCHANGED <<bases, datasets, works, outcomes>>

\* A row made from a base, a dataset, or both; vetted tells whether a handler
\* looked them up for the principal, and is a history.
Work(kind, tenant, project, base, dataset, vetted) ==
    [kind |-> kind, tenant |-> tenant, project |-> project, base |-> base, dataset |-> dataset, vetted |-> vetted]

\* What a request adds to the works, and the answer to who made it.
NewWork(p, w, action, row) ==
    /\ works[w] = Absent
    /\ works' = [works EXCEPT ![w] = row]
    /\ Accessed(p, action, row)
    /\ UNCHANGED <<bases, datasets, outcomes>>

\* The tasks that name a base or a dataset in their payload.
TaskKind == {"document.import", "evaluation.run"}

\* A query leaves a trace of the base's project.
query(p, w, b) ==
    /\ authorizedKnowledgeBase(p, b, "resource.read")
    /\ NewWork(p, w, "resource.read",
               Work("trace", p.tenant, bases[b].project, bases[b], Absent, TRUE))

\* uploadDocument and the synchronous importDocument leave a job of the base.
uploadDocument(p, w, b) ==
    /\ authorizedKnowledgeBase(p, b, "resource.write")
    /\ NewWork(p, w, "resource.write",
               Work("job", p.tenant, bases[b].project, bases[b], Absent, TRUE))

\* importDocument with Prefer: respond-async.
enqueueDocumentImport(p, w, b) ==
    /\ authorizedKnowledgeBase(p, b, "resource.write")
    /\ NewWork(p, w, "resource.write",
               Work("document.import", p.tenant, bases[b].project, bases[b], Absent, TRUE))

projectIDsConflict(left, right) == left # NoProject /\ right # NoProject /\ left # right

firstNonEmpty(left, right) == IF left # NoProject THEN left ELSE right

\* runEvaluation and optimizationSubmitRequest: the dataset is looked up to
\* write, the base to read.
SubmitAllowed(p, d, b) ==
    /\ authorizedDataset(p, d, "resource.write")
    /\ authorizedKnowledgeBase(p, b, "resource.read")
    /\ ~projectIDsConflict(datasets[d].project, bases[b].project)

Submit(p, w, kind, d, b) ==
    /\ SubmitAllowed(p, d, b)
    /\ NewWork(p, w, "resource.write",
               Work(kind, p.tenant, firstNonEmpty(datasets[d].project, bases[b].project), bases[b], datasets[d], TRUE))

\* At once, or as a task with the same project.
runEvaluation(p, w, d, b) == Submit(p, w, "evaluation", d, b)
enqueueEvaluation(p, w, d, b) == Submit(p, w, "evaluation.run", d, b)

\* runEvaluation with Prefer: respond-async looks up what the request names: a
\* request without a base, or without a dataset, is enqueued all the same, the
\* latter without any action asked of the policy.
enqueueWithoutBase(p, w, d) ==
    /\ authorizedDataset(p, d, "resource.write")
    /\ NewWork(p, w, "resource.write",
               Work("evaluation.run", p.tenant, datasets[d].project, Absent, datasets[d], TRUE))

enqueueWithoutDataset(p, w) ==
    NewWork(p, w, "none",
            Work("evaluation.run", p.tenant, NoProject, Absent, Absent, TRUE))

optimize(p, w, d, b) == Submit(p, w, "optimization", d, b)

\* The project is the one the request names, which is not looked up; neither is
\* what the payload names, any base and dataset there are.
createTask(p, w, requested, kind, base, dataset) ==
    /\ Authorize(p, "resource.write", p.tenant, requested)
    /\ base # Deleted
    /\ NewWork(p, w, "resource.write",
               Work(kind, p.tenant, requested, base, IF kind = "evaluation.run" THEN dataset ELSE Absent, FALSE))

\* A row of the tenant that is still there.
StillThere(row, rows, tenant) == row # Absent /\ row \in rows /\ row.tenant = tenant

\* documentImportTaskHandler: Ingest looks the base up by the tenant of the task.
HandleImport(w) ==
    LET task == works[w]
    IN  /\ task # Absent /\ task.kind = "document.import" /\ outcomes[w] = Absent
        /\ StillThere(task.base, {bases[b] : b \in BaseId}, task.tenant)
        /\ outcomes' = [outcomes EXCEPT ![w] =
                       Work("job", task.tenant, task.base.project, task.base, Absent, task.vetted)]
        /\ UNCHANGED <<bases, datasets, works, access>>

\* evaluationTaskHandler: Run looks the dataset up by the tenant and compares
\* its project with the task's; the queries find the chunks of the tenant's base.
HandleEvaluation(w) ==
    LET task == works[w]
        base == IF StillThere(task.base, {bases[b] : b \in BaseId}, task.tenant) THEN task.base ELSE Absent
    IN  /\ task # Absent /\ task.kind = "evaluation.run" /\ outcomes[w] = Absent
        /\ StillThere(task.dataset, {datasets[d] : d \in DatasetId}, task.tenant) /\ task.base # Absent
        /\ ~projectIDsConflict(task.project, task.dataset.project)
        /\ outcomes' = [outcomes EXCEPT ![w] =
                       Work("evaluation", task.tenant, firstNonEmpty(task.dataset.project, task.project),
                            base, task.dataset, task.vetted)]
        /\ UNCHANGED <<bases, datasets, works, access>>

\* What was made, by a request or by a worker.
Rows == {works[w] : w \in WorkId} \cup {outcomes[w] : w \in WorkId}

UseWork(p, row, action) ==
    /\ Accessed(p, action, row)
    /\ UNCHANGED <<bases, datasets, works, outcomes>>

getEvaluation(p, row) ==
    /\ Permitted(p, "resource.read", row) /\ row.kind = "evaluation"
    /\ UseWork(p, row, "resource.read")

getOptimization(p, row) ==
    /\ Permitted(p, "resource.read", row) /\ row.kind = "optimization"
    /\ UseWork(p, row, "resource.read")

cancelOptimization(p, row) ==
    /\ Permitted(p, "resource.write", row) /\ row.kind = "optimization"
    /\ UseWork(p, row, "resource.write")

\* The stored request is checked like a new one.
resumeOptimization(p, row, d, b) ==
    /\ Permitted(p, "resource.write", row) /\ row.kind = "optimization"
    /\ SubmitAllowed(p, d, b)
    /\ UseWork(p, row, "resource.write")

\* Tasks are looked up by tenant only, and the policy compares the project.
authorizeTask(p, row, action) ==
    /\ row # Absent /\ row.tenant = p.tenant /\ row.kind \in TaskKind
    /\ Authorize(p, action, p.tenant, row.project)

getTask(p, row) == authorizeTask(p, row, "resource.read") /\ UseWork(p, row, "resource.read")
cancelTask(p, row) == authorizeTask(p, row, "resource.write") /\ UseWork(p, row, "resource.write")

\* One of the tenant's works of a kind, whatever its project.
UseTenantWork(p, route, row, kind, action) ==
    /\ Admitted(p, route)
    /\ row # Absent /\ row.tenant = p.tenant /\ row.kind = kind
    /\ UseWork(p, row, action)

getTrace(p, row) == UseTenantWork(p, "getTrace", row, "trace", "resource.read")
listTraces(p, row) == UseTenantWork(p, "listTraces", row, "trace", "resource.read")
traceStats(p, row) == UseTenantWork(p, "traceStats", row, "trace", "resource.read")
getIngestionJob(p, row) == UseTenantWork(p, "getIngestionJob", row, "job", "resource.read")

\* A run of offline knowledge, one row with its questions and items, belongs
\* to no project; the knowledge base it names is not looked up.
createOfflineKnowledgeRun(p, w) ==
    /\ Admitted(p, "createOfflineKnowledgeRun")
    /\ NewWork(p, w, "resource.write", Work("offline_run", p.tenant, NoProject, Absent, Absent, TRUE))

UseOfflineRun(p, route, row, action) == UseTenantWork(p, route, row, "offline_run", action)

listOfflineKnowledgeRuns(p, row) == UseOfflineRun(p, "listOfflineKnowledgeRuns", row, "resource.read")
getOfflineKnowledgeRun(p, row) == UseOfflineRun(p, "getOfflineKnowledgeRun", row, "resource.read")
offlineKnowledgeRunAction(p, row) == UseOfflineRun(p, "offlineKnowledgeRunAction", row, "resource.write")
listOfflineKnowledgeQuestions(p, row) == UseOfflineRun(p, "listOfflineKnowledgeQuestions", row, "resource.read")
listOptimizationItems(p, row) == UseOfflineRun(p, "listOptimizationItems", row, "resource.read")
getOptimizationItem(p, row) == UseOfflineRun(p, "getOptimizationItem", row, "resource.read")
optimizationItemAction(p, row) == UseOfflineRun(p, "optimizationItemAction", row, "resource.write")
bulkRevalidateOptimizationItems(p, row) == UseOfflineRun(p, "bulkRevalidateOptimizationItems", row, "resource.write")

\* A bound principal may ask for its own project or for none, and gets its own.
scopeTaskFilter(p, asked) == IF p.project # NoProject THEN p.project ELSE asked

\* listTasks and listAuditEvents show the rows of the filter's project, or all
\* of the tenant's.
listTasks(p, asked, row) ==
    LET filter == scopeTaskFilter(p, asked)
    IN  /\ p.project # NoProject => asked \in {NoProject, p.project}
        /\ row # Absent /\ row.tenant = p.tenant /\ row.kind \in TaskKind
        /\ filter # NoProject => row.project = filter
        /\ UseWork(p, row, "resource.read")

\* A request under /v1/projects/j: refused by the middleware or the policy, or
\* the services look for j among the tenant's projects.
ProjectRequest(p, route, action, j) ==
    LET served == Admitted(p, route) /\ Authorize(p, action, p.tenant, j)
    IN  /\ served => ProjectTenant[j] = p.tenant
        /\ Answered(p, action, [tenant |-> p.tenant, project |-> j], served)
        /\ UNCHANGED <<bases, datasets, works, outcomes>>

BaseRequest(p) ==
    \E b \in BaseId :
      \/ \E r \in Project \cup {NoProject} : createKnowledgeBase(p, b, r)
      \/ deleteKnowledgeBase(p, b) \/ listKnowledgeBases(p, b)
      \/ getKnowledgeBase(p, b)
      \/ \E w \in WorkId : query(p, w, b) \/ uploadDocument(p, w, b) \/ enqueueDocumentImport(p, w, b)

DatasetRequest(p) ==
    \E d \in DatasetId :
      \/ \E r \in Project \cup {NoProject} : createDataset(p, d, r)
      \/ addDatasetItem(p, d)
      \/ \E w \in WorkId : enqueueWithoutBase(p, w, d)
      \/ \E b \in BaseId :
           \/ \E w \in WorkId : runEvaluation(p, w, d, b) \/ enqueueEvaluation(p, w, d, b) \/ optimize(p, w, d, b)
           \/ \E row \in Rows : resumeOptimization(p, row, d, b)

WorkRequest(p) ==
    \/ \E w \in WorkId :
         \/ enqueueWithoutDataset(p, w)
         \/ \E r \in Project \cup {NoProject}, kind \in TaskKind, b \in BaseId, d \in DatasetId :
              createTask(p, w, r, kind, bases[b], datasets[d])
    \/ \E row \in Rows :
         \/ \E r \in Project \cup {NoProject} : listTasks(p, r, row)
         \/ getTask(p, row) \/ cancelTask(p, row)
         \/ getEvaluation(p, row) \/ getOptimization(p, row) \/ cancelOptimization(p, row)

TenantRequest(p) ==
    \/ \E w \in WorkId : createOfflineKnowledgeRun(p, w)
    \/ \E row \in Rows :
         \/ getTrace(p, row) \/ listTraces(p, row) \/ traceStats(p, row) \/ getIngestionJob(p, row)
         \/ listOfflineKnowledgeRuns(p, row) \/ getOfflineKnowledgeRun(p, row)
         \/ offlineKnowledgeRunAction(p, row) \/ listOfflineKnowledgeQuestions(p, row)
         \/ listOptimizationItems(p, row) \/ getOptimizationItem(p, row)
         \/ optimizationItemAction(p, row) \/ bulkRevalidateOptimizationItems(p, row)

\* The client has its answer, and the next request may come.
AnswerDelivered == access # Absent /\ access' = Absent /\ UNCHANGED <<bases, datasets, works, outcomes>>

AuthNext ==
    \/ AnswerDelivered
    \/ /\ access = Absent
       /\ \E w \in WorkId : HandleImport(w) \/ HandleEvaluation(w)
    \/ /\ access = Absent
       /\ \E p \in Principals :
            \/ BaseRequest(p) \/ DatasetRequest(p) \/ WorkRequest(p) \/ TenantRequest(p)
            \/ \E j \in Project :
                 \/ \E r \in DOMAIN ProjectRoute : ProjectRequest(p, r, ProjectRoute[r], j)
                 \/ \E r \in DOMAIN TutorialRoute : ProjectRequest(p, r, TutorialRoute[r], j)

AuthSpec == AuthInit /\ [][AuthNext]_authVars

-----------------------------------------------------------------------------

\* No request reaches a resource of another tenant; a principal bound to a
\* project reaches nothing outside it, whether it names the resource, lists
\* it or made it from others; and a viewer only reads.  One request is let
\* through unchecked: an asynchronous evaluation without a dataset leaves a
\* task without a project, which no evaluation comes of.
AccessInScope ==
    (access # Absent /\ access.served) =>
      /\ access.tenant = access.who.tenant
      /\ access.action # "none" =>
           /\ access.who.project # NoProject => access.project = access.who.project
           /\ access.who.role = "project_viewer" => access.action \in ViewerActions

\* What was made from a dataset and a knowledge base belongs to the project of
\* both, so that who may read the one may read the others, except for a task
\* made at POST /v1/tasks and what comes of it: its base may be any of the
\* tenant's, because createTask and the task handlers do not compare projects
\* (docs/api/auth-and-errors.md:51 lets a project's key reach the bases of its
\* project).  Even then the tenants stay apart, an evaluation has the project of
\* its dataset, and none comes of a task without a dataset.
RowKeepsProject(row) ==
    LET sources == {row.base, row.dataset} \ {Absent}
    IN  /\ row.vetted => \A s \in sources : s.project \in {NoProject, row.project}
        /\ row.kind \notin TaskKind => \A s \in sources : s.tenant = row.tenant
        /\ row.kind = "evaluation" => row.dataset # Absent /\ row.dataset.project \in {NoProject, row.project}

WorkKeepsProject == \A row \in Rows \ {Absent} : RowKeepsProject(row)

\* Nobody is answered with another tenant's or project's resources, and work made
\* from resources that were looked up stays in their project; work made from the
\* payload of POST /v1/tasks stays in the tenant only.
ProjectsAreSeparate == AccessInScope /\ WorkKeepsProject
=============================================================================
