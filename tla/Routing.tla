------------------------------- MODULE Routing -------------------------------
(***************************************************************************)
(* From a question to the branch that answers it: the query resolver, the  *)
(* router node with its cascade (rule, embedding, LLM) and its fallback    *)
(* chain (LLM, embedding, rule), and the dispatch (app/routing/resolver.py *)
(* app/routing/router, app/agent/graphs/routed_rag.py).                    *)
(*                                                                         *)
(* The routers are shared by all requests of the process: the embedding    *)
(* router keeps the vectors of its examples and of the last queries.  Only *)
(* an await lets another request in, so a step runs from one to the next.  *)
(* Every call to a model may raise, every request may be cancelled.        *)
(***************************************************************************)
EXTENDS Naturals, SequencesExt

CONSTANTS
    Requests,         \* requests of the process
    Queries,          \* questions
    MetaQueries,      \* those a META pattern of the rule router matches
    MetadataQueries,  \* those only a METADATA pattern matches
    ClearQueries,     \* those within the threshold of an example sentence
    LlmRoutes,        \* routes the LLM may choose, LOOKUP among them
    QueryCacheSize    \* _QUERY_CACHE_SIZE

Routes == {"LOOKUP", "GLOBAL", "METADATA", "MULTI_HOP", "NO_RETRIEVAL", "META"}
DefaultRoute == "LOOKUP"

ASSUME QueriesAssumption ==
    /\ MetaQueries \cup MetadataQueries \cup ClearQueries \subseteq Queries
    /\ MetaQueries \cap MetadataQueries = {}
ASSUME RoutesAssumption == DefaultRoute \in LlmRoutes /\ LlmRoutes \subseteq Routes
ASSUME CacheAssumption == QueryCacheSize \in Nat \ {0}

VARIABLES
    examples,       \* whether _example_vectors is set
    query_vectors,  \* keys of _query_vectors, least recently used first
    request         \* the turn each request is in

routingVars == <<examples, query_vectors, request>>

(* score and fallback_score are the similarity LLMRouter computes for the  *)
(* route the model chose.                                                  *)
EmbeddingPhases == {"embedding", "score", "fallback_embedding", "fallback_score"}
LlmPhases == {"llm", "fallback_llm"}
Phases == {"resolve", "rule", "fallback_rule", "decided", "dispatched", "cancelled"}
          \cup EmbeddingPhases \cup LlmPhases

(* Where an embedding phase is: before the query's vector, waiting for it, *)
(* waiting for the examples, or over.                                      *)
Stages == {"start", "query", "examples", "scored", "raised"}

(* A layer that raised is recorded under the name of its phase.            *)
Failures == {"embedding", "llm", "fallback_llm", "fallback_embedding"}
Degradations == Failures \cup {"embedding_rejected", "rule_rejected"}

(* failed and llm are history: the layers that raised in this turn, and    *)
(* the route the model chose, if it answered.                              *)
Turn == [phase: Phases, stage: Stages, resolved_query: Queries, route: Routes,
         accepted: BOOLEAN, confident: BOOLEAN, trace: SUBSET Degradations,
         failed: SUBSET Failures, llm: Routes \cup {"none"}]

RoutingTypeOK ==
    /\ examples \in BOOLEAN
    /\ query_vectors \in Seq(Queries)
    /\ Len(query_vectors) <= QueryCacheSize
    /\ IsInjective(query_vectors)
    /\ request \in [Requests -> Turn]

RoutingInit ==
    /\ examples = FALSE
    /\ query_vectors = <<>>
    /\ request \in [Requests ->
        [phase: {"resolve"}, stage: {"start"}, resolved_query: Queries, route: {DefaultRoute},
         accepted: {FALSE}, confident: {FALSE}, trace: {{}}, failed: {{}}, llm: {"none"}]]

Shared == <<examples, query_vectors>>

At(r, phase, stage) == request[r].phase = phase /\ request[r].stage = stage

(* The turn of r enters another phase, with the given fields changed.      *)
Goes(r, phase, turn) == request' = [request EXCEPT ![r] = [turn EXCEPT !.phase = phase, !.stage = "start"]]

Decides(r, route, confident, turn) ==
    Goes(r, "decided", [turn EXCEPT !.route = route, !.accepted = TRUE, !.confident = confident])

Degraded(turn, what) == [turn EXCEPT !.trace = @ \cup {what}]
Raised(turn, layer) == [Degraded(turn, layer) EXCEPT !.failed = @ \cup {layer}]

(* Without dialogue, with an empty rewrite, or when the rewriter raises,   *)
(* the question itself is the resolved query.                              *)
Resolve(r) ==
    /\ At(r, "resolve", "start")
    /\ \E q \in Queries : Goes(r, "rule", [request[r] EXCEPT !.resolved_query = q])
    /\ UNCHANGED Shared

RuleRoute(q) == IF q \in MetaQueries THEN "META"
                ELSE IF q \in MetadataQueries THEN "METADATA" ELSE "none"

RuleLayer(r) ==
    LET route == RuleRoute(request[r].resolved_query) IN
    /\ At(r, "rule", "start")
    /\ IF route # "none" THEN Decides(r, route, TRUE, request[r])
                         ELSE Goes(r, "embedding", request[r])
    /\ UNCHANGED Shared

SetStage(r, stage) == request' = [request EXCEPT ![r].stage = stage]

(* What _ensure_example_vectors does once there is a vector for the query. *)
AfterQuery(r) == SetStage(r, IF examples THEN "scored" ELSE "examples")

EmbedHit(r) ==
    LET q == request[r].resolved_query IN
    /\ request[r].phase \in EmbeddingPhases /\ request[r].stage = "start"
    /\ Contains(query_vectors, q)
    /\ query_vectors' = Append(RemoveFirst(query_vectors, q), q)
    /\ AfterQuery(r)
    /\ UNCHANGED examples

EmbedMiss(r) ==
    /\ request[r].phase \in EmbeddingPhases /\ request[r].stage = "start"
    /\ ~Contains(query_vectors, request[r].resolved_query)
    /\ SetStage(r, "query")
    /\ UNCHANGED Shared

(* Assignment leaves a key that another request added meanwhile in place.  *)
Remember(q) ==
    IF Contains(query_vectors, q) THEN query_vectors
    ELSE IF Len(query_vectors) < QueryCacheSize THEN Append(query_vectors, q)
    ELSE Append(Tail(query_vectors), q)

EmbedQuery(r) ==
    /\ request[r].phase \in EmbeddingPhases /\ request[r].stage = "query"
    /\ query_vectors' = Remember(request[r].resolved_query)
    /\ AfterQuery(r)
    /\ UNCHANGED examples

EmbedExamples(r) ==
    /\ request[r].phase \in EmbeddingPhases /\ request[r].stage = "examples"
    /\ examples' = TRUE
    /\ SetStage(r, "scored")
    /\ UNCHANGED query_vectors

EmbedRaises(r) ==
    /\ request[r].phase \in EmbeddingPhases /\ request[r].stage \in {"query", "examples"}
    /\ SetStage(r, "raised")
    /\ UNCHANGED Shared

Clear(r) == request[r].resolved_query \in ClearQueries

(* Bug: an exception of the embedding router goes past the fallback chain. *)
EmbeddingLayerUncaught(r) ==
    /\ At(r, "embedding", "scored")
    /\ IF Clear(r) THEN \E route \in LlmRoutes : Decides(r, route, TRUE, request[r])
                   ELSE Goes(r, "llm", request[r])
    /\ UNCHANGED Shared

(* The nearest example may be of any route.  Below the threshold the       *)
(* decision goes to the LLM; an exception leaves the cascade.              *)
EmbeddingLayer(r) ==
    /\ \/ /\ At(r, "embedding", "scored")
          /\ IF Clear(r) THEN \E route \in LlmRoutes : Decides(r, route, TRUE, request[r])
                         ELSE Goes(r, "llm", request[r])
       \/ /\ At(r, "embedding", "raised")
          /\ Goes(r, "fallback_llm", Raised(request[r], "embedding"))
    /\ UNCHANGED Shared

LlmAnswers(r) ==
    /\ request[r].phase \in LlmPhases
    /\ \E route \in LlmRoutes :
        Goes(r, IF request[r].phase = "llm" THEN "score" ELSE "fallback_score",
             [request[r] EXCEPT !.route = route, !.llm = route])
    /\ UNCHANGED Shared

(* The similarity is only observed: a failure to compute it is swallowed   *)
(* and the route of the model is accepted whatever it is.                  *)
Score(r) ==
    /\ request[r].phase \in {"score", "fallback_score"} /\ request[r].stage \in {"scored", "raised"}
    /\ Decides(r, request[r].route, Clear(r) /\ request[r].stage = "scored", request[r])
    /\ UNCHANGED Shared

(* Bug: the fallback chain forgets the layers that failed before.          *)
LlmRaisesSilently(r) ==
    /\ request[r].phase \in LlmPhases
    /\ LET turn == [request[r] EXCEPT !.failed = @ \cup {request[r].phase}] IN
       IF request[r].phase = "llm" THEN Decides(r, DefaultRoute, FALSE, turn)
                                   ELSE Goes(r, "fallback_embedding", turn)
    /\ UNCHANGED Shared

(* The cascade has no further layer and takes LOOKUP; the fallback chain   *)
(* goes on to its next layer.                                              *)
LlmRaises(r) ==
    /\ request[r].phase \in LlmPhases
    /\ LET turn == Raised(request[r], request[r].phase) IN
       IF request[r].phase = "llm" THEN Decides(r, DefaultRoute, FALSE, turn)
                                   ELSE Goes(r, "fallback_embedding", turn)
    /\ UNCHANGED Shared

FallbackEmbedding(r) ==
    /\ \/ /\ At(r, "fallback_embedding", "scored")
          /\ IF Clear(r) THEN \E route \in LlmRoutes : Decides(r, route, TRUE, request[r])
             ELSE Decides(r, DefaultRoute, FALSE, Degraded(request[r], "embedding_rejected"))
       \/ /\ At(r, "fallback_embedding", "raised")
          /\ Goes(r, "fallback_rule", Raised(request[r], "fallback_embedding"))
    /\ UNCHANGED Shared

(* The rule router never raises, so no request gets past it.               *)
FallbackRule(r) ==
    LET route == RuleRoute(request[r].resolved_query) IN
    /\ At(r, "fallback_rule", "start")
    /\ IF route # "none" THEN Decides(r, route, TRUE, request[r])
       ELSE Decides(r, DefaultRoute, FALSE, Degraded(request[r], "rule_rejected"))
    /\ UNCHANGED Shared

(* RouterNode looks at accepted alone, and select_branch at the route.     *)
Dispatch(r) ==
    /\ At(r, "decided", "start")
    /\ LET route == IF request[r].accepted THEN request[r].route ELSE DefaultRoute IN
       Goes(r, "dispatched", [request[r] EXCEPT !.route = route])
    /\ UNCHANGED Shared

CancelTurn(r) ==
    /\ request[r].phase \in {"resolve"} \cup EmbeddingPhases \cup LlmPhases
    /\ Goes(r, "cancelled", request[r])
    /\ UNCHANGED Shared

RoutingStep(r) ==
    \/ Resolve(r) \/ RuleLayer(r)
    \/ EmbedHit(r) \/ EmbedMiss(r) \/ EmbedQuery(r) \/ EmbedExamples(r) \/ EmbedRaises(r)
    \/ EmbeddingLayer(r) \/ LlmAnswers(r) \/ LlmRaises(r) \/ Score(r)
    \/ FallbackEmbedding(r) \/ FallbackRule(r) \/ Dispatch(r)

RoutingNext == \E r \in Requests : RoutingStep(r) \/ CancelTurn(r)

RoutingSpec == RoutingInit /\ [][RoutingNext]_routingVars

(* Every call returns or raises: the providers have timeouts               *)
(* (LLM_TIMEOUT_SECONDS), and nothing in the routers waits for another     *)
(* request.                                                                *)
RoutingFairness == \A r \in Requests : WF_routingVars(RoutingStep(r))

Dispatched(r) == request[r].phase = "dispatched"

(* Whatever combination of calls fails, every request that is not          *)
(* cancelled gets a branch.                                                *)
EventuallyRouted == \A r \in Requests : <>(request[r].phase \in {"dispatched", "cancelled"})

(* A turn records the layers that failed in this turn, all of them and no  *)
(* others, although the routers and their caches are shared by concurrent  *)
(* requests; and a rejection is recorded only where it led to LOOKUP.      *)
DegradationsRecorded ==
    \A r \in Requests : Dispatched(r) =>
        /\ request[r].trace \cap Failures = request[r].failed
        /\ request[r].trace \ Failures # {} => request[r].route = DefaultRoute

(* The route the model chose is the branch that runs, whatever the         *)
(* similarity says and whichever of the two chains asked the model.        *)
LlmRouteIsTaken ==
    \A r \in Requests : Dispatched(r) /\ request[r].llm # "none" =>
        request[r].route = request[r].llm

(* A question the rules know is answered by the branch they name and never *)
(* waits for a model, so it is routed even when every provider is down.    *)
RulesComeFirst ==
    \A r \in Requests : RuleRoute(request[r].resolved_query) # "none" =>
        /\ request[r].phase \in {"resolve", "rule", "decided", "dispatched", "cancelled"}
        /\ Dispatched(r) => request[r].route = RuleRoute(request[r].resolved_query)

(* What chat() can rely on of the routing: a route by the right layer, and *)
(* a trace that says what failed on the way.                               *)
RoutesAreRight ==
    RoutingTypeOK /\ DegradationsRecorded /\ LlmRouteIsTaken /\ RulesComeFirst
==============================================================================
