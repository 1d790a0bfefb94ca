---------------------------- MODULE ModelClient ----------------------------
(* The clients of the model services (internal/llm, configured by            *)
(* internal/config): a configuration is validated, an adapter is built for   *)
(* each capability, and calls post one request per attempt.  A service may   *)
(* refuse, answer garbage or an empty body, or answer with any number of     *)
(* items; contents are abstracted to whether the first one is blank.         *)
(* ChatStream, which hands on pieces as they arrive, is left out.            *)
EXTENDS Integers, Sequences, FiniteSets

CONSTANTS
    ModelConfig,  \* [env, chat, embedding, rerank, image2text, keys, urls, mock]
    ModelCaller,  \* callers at one time
    RetryTimes,   \* ARK_RETRY_TIMES
    MaxTexts,     \* bound: texts or documents of one request
    MaxCalls      \* bound: calls begun

ASSUME ModelAssumption == RetryTimes \in Nat /\ MaxTexts \in Nat

VARIABLES
    modelConfig,
    client,     \* none, valid, built; refused by the validation; failed
    modelCall,  \* [ModelCaller -> the call it makes]
    calls

modelVars == <<modelConfig, client, modelCall, calls>>

Capability == {"chat", "embedding", "rerank", "image2text"}

\* The providers of the registry that differ: jina, openai and the others
\* speak the protocol of openai.
Capabilities ==
    [p \in {"openai", "azure-openai", "anthropic", "gemini", "google-cloud", "cohere", "deepseek",
            "tongyi-qianwen", "volcengine", "voyage-ai", "mock"} |->
        CASE p \in {"openai", "tongyi-qianwen", "volcengine", "mock"} -> Capability
          [] p \in {"azure-openai", "gemini", "google-cloud"} -> Capability \ {"rerank"}
          [] p = "anthropic" -> {"chat", "image2text"}
          [] p = "cohere" -> Capability \ {"image2text"}
          [] p = "voyage-ai" -> {"embedding", "rerank"}
          [] OTHER -> {"chat"}]

\* Registry.Get: names are normalized and aliases followed.
Canonical(name) == IF name \in {"ark", "volc"} THEN "volcengine"
                   ELSE IF name \in {"qwen", "aliyun"} THEN "tongyi-qianwen" ELSE name

\* DefaultBaseURL: "" for these two.
NoDefaultURL == {"azure-openai", "google-cloud"}

Registered(c, cap) == /\ Canonical(c[cap]) \in DOMAIN Capabilities
                      /\ cap \in Capabilities[Canonical(c[cap])]

\* validateModelProviders, with the variables it finds missing.
ValidProviders(c) ==
    \A cap \in Capability :
        LET p == Canonical(c[cap])
        IN  /\ Registered(c, cap)
            /\ IF p = "mock" THEN c.mock
               ELSE p \in c.keys /\ (p \in c.urls \/ p \notin NoDefaultURL)

\* validateProductionConfiguration.
ValidProduction(c) ==
    c.env = "production" => ~c.mock /\ \A cap \in Capability : c[cap] # "mock"

\* resolveAdapter returns no error.
Resolves(c, cap) ==
    LET p == Canonical(c[cap])
    IN  /\ Registered(c, cap)
        /\ IF p = "mock" THEN c.mock
           ELSE p \in c.keys /\ (p \in c.urls \/ p \notin NoDefaultURL)

\* apiKeyFor, with the name of the registry's entry.
KeyOf(c, cap) == Canonical(c[cap]) \in c.keys

\* buildChatAdapter, buildEmbeddingAdapter, buildRerankAdapter and
\* buildMultimodalAdapter; the embedding model of volcengine is a vision model.
AdapterOf(c, cap) ==
    LET p == Canonical(c[cap])
    IN  [key |-> KeyOf(c, cap),
         kind |-> CASE p \in {"cohere", "azure-openai", "anthropic", "voyage-ai"} -> p
                    [] p \in {"gemini", "google-cloud"} -> "gemini"
                    [] p = "tongyi-qianwen" /\ cap = "rerank" -> "aliyun"
                    [] p = "volcengine" /\ cap = "embedding" -> "vision"
                    [] OTHER -> "ark"]

NoModelCall == [pc |-> "idle", cap |-> "chat", n |-> 0, item |-> 0, attempt |-> 0, posts |-> 0,
             ok |-> FALSE, fake |-> FALSE, count |-> 0, blank |-> FALSE, fits |-> TRUE, used |-> {}]

ModelInit ==
    /\ modelConfig \in ModelConfig
    /\ client = "none"
    /\ modelCall = [w \in ModelCaller |-> NoModelCall]
    /\ calls = 0

\* Load and Validate: the process ends on an error.
ValidateConfig ==
    /\ client = "none"
    /\ client' = IF ValidProviders(modelConfig) /\ ValidProduction(modelConfig) THEN "valid" ELSE "refused"
    /\ UNCHANGED <<modelConfig, modelCall, calls>>

\* NewClient: the first adapter that cannot be built is an error.
NewClient ==
    /\ client = "valid"
    /\ client' = IF \A cap \in Capability : Resolves(modelConfig, cap) THEN "built" ELSE "failed"
    /\ UNCHANGED <<modelConfig, modelCall, calls>>

Adapter(cap) == AdapterOf(modelConfig, cap)

------------------------------------------------------------------------------
\* What a service may do with a request; vectors have the expected size or not.
Response(cap) ==
    [body : {"refused", "garbled", "empty"}, items : {0}, blank : {TRUE}, alt : {FALSE}, fits : {TRUE}]
    \cup [body : {"json"}, items : IF cap \in {"embedding", "rerank"} THEN 0..(MaxTexts + 1) ELSE {0, 1},
          blank : IF cap = "rerank" THEN {FALSE} ELSE BOOLEAN,
          alt : IF cap = "image2text" THEN BOOLEAN ELSE {FALSE},
          fits : IF cap = "embedding" THEN BOOLEAN ELSE {TRUE}]

Text(r) == r.items > 0 /\ ~r.blank

\* The answer of each adapter to a body it could decode: TRUE is success.
\* postJSON of azure, voyage and cohere takes an empty body for an empty answer.
AzureAnswers(cap, r) == r.body # "garbled" /\ (cap # "embedding" => Text(r))

VoyageAnswers(cap, r) == r.body # "garbled"

CohereAnswers(cap, r) ==
    /\ r.body # "garbled"
    /\ cap = "chat" => Text(r)
    /\ cap = "embedding" => r.items > 0

AnthropicAnswers(cap, r) == r.body = "json" /\ Text(r)

GeminiAnswers(cap, r) == r.body = "json" /\ Text(r)

\* Embed of the client of ark: one vector per text.
ArkEmbeds(n, r) == r.items = n

\* Chat of the client of ark: a blank text is an answer.
ArkChats(r) == r.items > 0

\* Its other calls; a parse in the alternative format may be blank.
ArkAnswers(cap, n, r) ==
    /\ r.body # "garbled"
    /\ cap = "chat" => ArkChats(r)
    /\ cap = "embedding" => ArkEmbeds(n, r)
    /\ cap = "image2text" => Text(r) \/ (r.items > 0 /\ r.alt)

\* embedMultimodal asks for one text at a time.
VisionAnswers(r) == r.body # "garbled" /\ Text(r)

Answers(a, cap, n, r) ==
    CASE a = "azure-openai" -> AzureAnswers(cap, r)
      [] a = "voyage-ai" -> VoyageAnswers(cap, r)
      [] a = "cohere" -> CohereAnswers(cap, r)
      [] a = "anthropic" -> AnthropicAnswers(cap, r)
      [] a = "gemini" -> GeminiAnswers(cap, r)
      [] a = "vision" -> VisionAnswers(r)
      [] OTHER -> ArkAnswers(cap, n, r)

Retrying == {"ark", "vision", "aliyun"}

\* One request per text.
ByText(a, cap) == a = "vision" \/ (a = "gemini" /\ cap = "embedding")

\* A client without a key answers itself.
Fake(a) == a.kind \in {"ark", "vision"} /\ ~a.key

\* Chat, Embed, Rerank, MultimodalParse.  A client that posts one request per
\* text posts none for no text.
CallModel(w, cap, n) ==
    /\ client = "built" /\ modelCall[w].pc = "idle" /\ calls < MaxCalls
    /\ calls' = calls + 1
    /\ modelCall' = [modelCall EXCEPT ![w] =
           LET call == [NoModelCall EXCEPT !.cap = cap, !.n = n]
           IN  IF cap = "image2text" /\ n = 0 THEN [call EXCEPT !.pc = "answered"]
               ELSE IF Fake(Adapter(cap))
               THEN [call EXCEPT !.pc = "answered", !.ok = TRUE, !.fake = TRUE, !.count = n, !.used = 1..n]
               ELSE IF n = 0 /\ ByText(Adapter(cap).kind, cap) THEN [call EXCEPT !.pc = "answered", !.ok = TRUE]
               ELSE [call EXCEPT !.pc = "post"]]
    /\ UNCHANGED <<modelConfig, client>>

\* The loop of postJSONWithBearer: attempt <= RetryTimes.
AttemptsLeft(call) == call.attempt <= RetryTimes

\* A refused request of the client of ark waits and is sent again; those of
\* the other adapters are not.
Refused(call, a) == IF a \in Retrying THEN [call EXCEPT !.pc = "backoff", !.attempt = @ + 1]
                    ELSE [call EXCEPT !.pc = "answered"]

\* The indices of a rerank answer are whatever the service writes.
Indices(call, r) ==
    IF call.cap # "rerank" THEN {{}} ELSE {I \in SUBSET (0..call.n) : Cardinality(I) <= r.items}

Decoded(call, a, r, I) ==
    LET ok == Answers(a, call.cap, call.n, r)
        last == ~ByText(a, call.cap) \/ call.item + 1 >= call.n
    IN  IF ok /\ ~last THEN [call EXCEPT !.item = @ + 1, !.attempt = 0]
        ELSE [call EXCEPT !.pc = "answered", !.ok = ok, !.blank = r.blank, !.fits = r.fits, !.used = I,
                          !.count = IF ByText(a, call.cap) THEN call.n ELSE r.items]

\* One request and the service's answer to it.
Post(w) ==
    /\ modelCall[w].pc = "post"
    /\ LET a == Adapter(modelCall[w].cap).kind
           sent == [modelCall[w] EXCEPT !.posts = @ + 1]
       IN  \E r \in Response(sent.cap) :
             \/ r.body = "refused" /\ modelCall' = [modelCall EXCEPT ![w] = Refused(sent, a)]
             \/ /\ r.body # "refused"
                /\ \E I \in Indices(sent, r) : modelCall' = [modelCall EXCEPT ![w] = Decoded(sent, a, r, I)]
    /\ UNCHANGED <<modelConfig, client, calls>>

\* The wait after a failed attempt, the last one too.
Backoff(w) ==
    /\ modelCall[w].pc = "backoff"
    /\ modelCall' = [modelCall EXCEPT ![w].pc = IF AttemptsLeft(modelCall[w]) THEN "post" ELSE "answered"]
    /\ UNCHANGED <<modelConfig, client, calls>>

\* The context ends while the request or the wait lasts.
CancelModel(w) ==
    /\ modelCall[w].pc \in {"post", "backoff"}
    /\ modelCall' = [modelCall EXCEPT ![w].pc = "answered"]
    /\ UNCHANGED <<modelConfig, client, calls>>

------------------------------------------------------------------------------
\* Ingestion stores the vectors of its chunks.
StoreVectors(call) == [call EXCEPT !.pc = IF call.ok /\ call.count = call.n THEN "stored" ELSE "failed"]

\* A query uses the first vector.
FirstVector(call) == [call EXCEPT !.pc = IF call.ok /\ call.count > 0 THEN "searched" ELSE "failed"]

\* The results ApplyRerank keeps: indices below the number of results.
Reranked(call) == {i \in call.used : i < call.n}

ApplyRerank(call) ==
    [call EXCEPT !.pc = "reranked",
                 !.used = IF ~call.ok \/ call.count = 0 THEN 0..(call.n - 1) ELSE Reranked(call)]

UseAnswer(w) ==
    /\ modelCall[w].pc = "answered"
    /\ modelCall' = [modelCall EXCEPT ![w] =
           CASE @.cap = "embedding" /\ @.n # 1 -> StoreVectors(@)
             [] @.cap = "embedding" /\ @.n = 1 -> FirstVector(@)
             [] @.cap = "rerank" -> ApplyRerank(@)
             [] OTHER -> [@ EXCEPT !.pc = IF modelCall[w].ok THEN "used" ELSE "failed"]]
    /\ UNCHANGED <<modelConfig, client, calls>>

------------------------------------------------------------------------------
\* A configuration the validation accepts always builds a client: the two
\* checks, in config and in provider, agree.
AcceptedBuilds == client # "failed"

\* In production nobody gets an answer the client made up.
NoFakeInProduction ==
    modelConfig.env = "production" => \A w \in ModelCaller : ~modelCall[w].fake

\* A call sends at most one request and RetryTimes repetitions per text.
RequestsBounded ==
    \A w \in ModelCaller :
        modelCall[w].posts <= (RetryTimes + 1) * (IF modelCall[w].n > 0 THEN modelCall[w].n ELSE 1)

\* Whatever the service answers, the callers use what fits their request: a
\* vector per chunk, some vector for the query, results that were retrieved;
\* and what is stored or searched with came from a request that was posted,
\* or from a client without a key.  Sizes are not compared, and the vector of
\* the query may be an empty one.
AnswersFit ==
    \A w \in ModelCaller :
        LET call == modelCall[w]
        IN  /\ call.pc = "stored" => call.count = call.n
            /\ call.pc = "searched" => call.count > 0
            /\ call.pc \in {"stored", "searched"} /\ call.n > 0 => call.fake \/ call.posts > 0
            /\ call.pc = "reranked" => call.used \subseteq 0..(call.n - 1)
============================================================================
