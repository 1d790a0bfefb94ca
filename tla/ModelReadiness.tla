--------------------------- MODULE ModelReadiness ---------------------------
(* Readiness probes (internal/modelreadiness): a request probes the          *)
(* capabilities it names, each in a goroutine of its own and with a timeout, *)
(* through the client the process was configured with.  The service's mutex  *)
(* is held from the first probe to the last.                                 *)
EXTENDS ModelClient

CONSTANTS
    Prober,     \* requests under way
    ProbeAsked  \* the sets of capabilities a request may name

VARIABLES
    probing,  \* the request that holds the mutex
    readiness \* [Prober -> [asked, expects, results, answers, overall]]

readinessVars == <<probing, readiness>>

modelsVars == <<modelVars, readinessVars>>

NoProber == "nobody"

\* multimodal calls image2text, provider_auth chats.
Probe == {"chat", "embedding", "rerank", "multimodal", "provider_auth"}

ASSUME ReadinessAssumption == ProbeAsked \subseteq SUBSET Probe

CallOf(p) == CASE p = "multimodal" -> "image2text" [] p = "provider_auth" -> "chat" [] OTHER -> p

\* No probe has a result yet.
NoResults == [p \in {} |-> "skipped"]

\* The map of a probe's goroutine with its result added.
Noted(f, p, x) == [q \in DOMAIN f \cup {p} |-> IF q = p THEN x ELSE f[q]]

ReadinessInit ==
    /\ probing = NoProber
    /\ readiness = [u \in Prober |-> [asked |-> {}, expects |-> FALSE, results |-> NoResults,
                                    answers |-> NoResults, overall |-> "none"]]

\* The handler skips what the request does not name and names no multimodal
\* model, so that this probe is always skipped.
Skipped(asked) == [p \in (Probe \ asked) \cup {"multimodal"} |-> "skipped"]

\* runModelReadiness and RunProbes, up to the goroutines.  A request that
\* expects embedding dimensions states those of the configuration.
RunProbes(u, asked, expects) ==
    /\ client = "built" /\ probing = NoProber /\ readiness[u].overall = "none"
    /\ probing' = u
    /\ readiness' = [readiness EXCEPT ![u] = [asked |-> asked, expects |-> expects, results |-> Skipped(asked),
                                              answers |-> NoResults, overall |-> "running"]]
    /\ modelCall' = [w \in ModelCaller |-> IF w \in Probe THEN NoModelCall ELSE modelCall[w]]
    /\ UNCHANGED <<modelConfig, client, calls>>

Pending(u, p) == p \in readiness[u].asked \ DOMAIN readiness[u].results

ProbeSize(p) == IF p = "rerank" THEN 2 ELSE 1

StartProbe(p) ==
    /\ probing # NoProber /\ Pending(probing, p)
    /\ CallModel(p, CallOf(p), ProbeSize(p))
    /\ UNCHANGED readinessVars

ChatPasses(call) == call.ok /\ ~call.blank

EmbeddingPasses(call, expects) == call.ok /\ call.count > 0 /\ ~call.blank /\ (expects => call.fits)

RerankPasses(call) == call.ok /\ call.count > 0

AuthPasses(call) == call.ok

ProbeStatus(p, call, expects) ==
    IF CASE p = "chat" -> ChatPasses(call)
         [] p = "embedding" -> EmbeddingPasses(call, expects)
         [] p = "rerank" -> RerankPasses(call)
         [] p = "provider_auth" -> AuthPasses(call)
    THEN "pass" ELSE "fail"

EndProbe(p) ==
    /\ probing # NoProber /\ Pending(probing, p) /\ modelCall[p].pc = "answered"
    /\ readiness' = [readiness EXCEPT
           ![probing].results = Noted(@, p, ProbeStatus(p, modelCall[p], readiness[probing].expects)),
           ![probing].answers = Noted(@, p, modelCall[p])]
    /\ UNCHANGED <<probing, modelVars>>

computeOverallStatus(results) ==
    LET found == {results[p] : p \in DOMAIN results}
    IN  IF found \subseteq {"skipped"} THEN "skipped" ELSE IF "fail" \in found THEN "fail" ELSE "pass"

\* Mutant: the run is stored while goroutines still run.
AllJoinedEarly(u) == DOMAIN readiness[u].results # {}

\* wg.Wait.
AllJoined(u) == DOMAIN readiness[u].results = Probe

\* The end of RunProbes: the run is stored and the mutex released.
StoreRun ==
    /\ probing # NoProber /\ AllJoined(probing)
    /\ readiness' = [readiness EXCEPT ![probing].overall = computeOverallStatus(readiness[probing].results)]
    /\ probing' = NoProber
    /\ UNCHANGED modelVars

------------------------------------------------------------------------------
\* Every call of the process, the ones of the probes among them.
ModelStep ==
    \/ ValidateConfig /\ UNCHANGED readinessVars
    \/ NewClient /\ UNCHANGED readinessVars
    \/ \E w \in ModelCaller : (Post(w) \/ Backoff(w) \/ CancelModel(w)) /\ UNCHANGED readinessVars
    \/ \E w \in ModelCaller \ Probe, cap \in Capability, n \in 0..MaxTexts :
           CallModel(w, cap, n) /\ UNCHANGED readinessVars
    \/ \E w \in ModelCaller \ Probe : UseAnswer(w) /\ UNCHANGED readinessVars

\* Expected dimensions only matter to a request that names embedding.
Stated(asked) == IF "embedding" \in asked THEN BOOLEAN ELSE {FALSE}

ProbeStep ==
    \/ \E u \in Prober, asked \in ProbeAsked : \E expects \in Stated(asked) : RunProbes(u, asked, expects)
    \/ \E p \in ModelCaller \cap Probe : StartProbe(p) \/ EndProbe(p)
    \/ StoreRun

ModelsInit == ModelInit /\ ReadinessInit
ModelsNext == ModelStep \/ ProbeStep
ModelsSpec == ModelsInit /\ [][ModelsNext]_modelsVars

------------------------------------------------------------------------------
\* A stored run that passed has an answer behind every capability the request
\* named but multimodal, whose probe is skipped while the run still passes:
\* a vector that is not empty, results to rank, text.  The vector has the
\* dimensions of the configuration only if the request stated them
\* (probe.go:265): without them none are compared, where the governance plan
\* of 2026-07-26 asks for those of the configuration or the collection.
ReadyIsEarned ==
    \A u \in Prober :
        readiness[u].overall = "pass" =>
            /\ DOMAIN readiness[u].answers = readiness[u].asked \ {"multimodal"}
            /\ \A p \in DOMAIN readiness[u].answers :
                 LET call == readiness[u].answers[p]
                 IN  /\ call.ok
                     /\ p = "embedding" => /\ FirstVector(call).pc = "searched" /\ ~call.blank
                                           /\ readiness[u].expects => call.fits
                     /\ p = "rerank" => call.count > 0
                     /\ p = "chat" => ~call.blank

\* Models are what the configuration says they are: what is accepted is built,
\* nothing is made up in production, calls are bounded, answers of another
\* number than the request's are not used, and ready means that the probes
\* that were run had answers, of the dimensions the request stated if any.
ModelsAreSound == AcceptedBuilds /\ NoFakeInProduction /\ RequestsBounded /\ AnswersFit /\ ReadyIsEarned
============================================================================
