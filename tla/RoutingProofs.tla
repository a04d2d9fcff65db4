----------------------------- MODULE RoutingProofs -----------------------------
(***************************************************************************)
(* The routing of concurrent requests over shared caches: a turn keeps     *)
(* the record of its own failures, the route the model chose and the       *)
(* precedence of the rules, whatever the other requests do meanwhile; and  *)
(* the multi-hop branch under its guardrails.                              *)
(***************************************************************************)
EXTENDS Routing, MultiHop, SequenceLemmas

(* How far a turn has come says what it may hold: a rejection leads to     *)
(* LOOKUP at once, only the model's answer sets the route it is kept       *)
(* under, and no layer but the rules sees a question they know.            *)
TurnInv(turn) ==
    LET rule == RuleRoute(turn.resolved_query)
        over == turn.phase \in {"decided", "dispatched"} IN
    /\ turn.trace \cap Failures = turn.failed
    /\ turn.trace \ Failures # {} => over /\ turn.route = DefaultRoute
    /\ turn.llm # "none" =>
        /\ turn.phase \in {"score", "fallback_score", "decided", "dispatched", "cancelled"}
        /\ turn.route = turn.llm
    /\ rule # "none" =>
        /\ turn.phase \in {"resolve", "rule", "decided", "dispatched", "cancelled"}
        /\ over => turn.route = rule
    /\ turn.phase = "decided" => turn.accepted

RoutingInv == RoutingTypeOK /\ \A r \in Requests : TurnInv(request[r])

(* The rules name a route or none. *)
LEMMA RuleRouteType == \A q : RuleRoute(q) \in Routes \cup {"none"}
  BY DEF RuleRoute, Routes

(* The turns stay good when one of them becomes another good one. *)
LEMMA TurnChanged ==
  ASSUME request \in [Requests -> Turn], \A s \in Requests : TurnInv(request[s]),
         NEW r \in Requests, NEW new \in Turn, TurnInv(new),
         request' = [request EXCEPT ![r] = new]
  PROVE  request' \in [Requests -> Turn] /\ \A s \in Requests : TurnInv(request[s])'
<1>1. \A s \in Requests : request'[s] = IF s = r THEN new ELSE request[s]
  OBVIOUS
<1>2. ASSUME NEW s \in Requests PROVE TurnInv(request'[s])
  BY <1>1
<1>3. ASSUME NEW s \in Requests PROVE TurnInv(request[s])'
  BY <1>2 DEF TurnInv, RuleRoute
<1> QED BY <1>3

(* A turn enters another phase. *)
LEMMA TurnGoes ==
  ASSUME request \in [Requests -> Turn], \A s \in Requests : TurnInv(request[s]),
         NEW r \in Requests, NEW turn \in Turn, NEW phase \in Phases, Goes(r, phase, turn),
         TurnInv([turn EXCEPT !.phase = phase, !.stage = "start"])
  PROVE  request' \in [Requests -> Turn] /\ \A s \in Requests : TurnInv(request[s])'
<1> DEFINE new == [turn EXCEPT !.phase = phase, !.stage = "start"]
<1>1. new \in Turn
  BY DEF Turn, Stages
<1>2. TurnInv(new) /\ request' = [request EXCEPT ![r] = new]
  BY DEF Goes
<1> HIDE DEF new
<1> QED BY <1>1, <1>2, TurnChanged

(* A turn decides on a route. *)
LEMMA TurnDecides ==
  ASSUME request \in [Requests -> Turn], \A s \in Requests : TurnInv(request[s]),
         NEW r \in Requests, NEW turn \in Turn, NEW route \in Routes, NEW confident \in BOOLEAN,
         Decides(r, route, confident, turn),
         turn.trace \cap Failures = turn.failed,
         turn.trace \ Failures # {} => route = DefaultRoute,
         turn.llm # "none" => route = turn.llm,
         RuleRoute(turn.resolved_query) # "none" => route = RuleRoute(turn.resolved_query)
  PROVE  request' \in [Requests -> Turn] /\ \A s \in Requests : TurnInv(request[s])'
<1> DEFINE decided == [turn EXCEPT !.route = route, !.accepted = TRUE, !.confident = confident]
<1>1. decided \in Turn /\ "decided" \in Phases
  BY DEF Turn, Phases
<1>2. Goes(r, "decided", decided)
  BY DEF Decides
<1>3. TurnInv([decided EXCEPT !.phase = "decided", !.stage = "start"])
  BY DEF TurnInv, Turn
<1> HIDE DEF decided
<1> QED BY <1>1, <1>2, <1>3, TurnGoes

(* Within a phase only the stage changes. *)
LEMMA StageChanges ==
  ASSUME request \in [Requests -> Turn], \A s \in Requests : TurnInv(request[s]),
         NEW r \in Requests, NEW stage \in Stages, SetStage(r, stage)
  PROVE  request' \in [Requests -> Turn] /\ \A s \in Requests : TurnInv(request[s])'
<1> DEFINE new == [request[r] EXCEPT !.stage = stage]
<1>1. new \in Turn /\ request' = [request EXCEPT ![r] = new]
  BY DEF SetStage, Turn
<1>2. TurnInv(new)
  BY DEF TurnInv, Turn
<1> HIDE DEF new
<1> QED BY <1>1, <1>2, TurnChanged

(* The cache of query vectors holds each key once and never more than its  *)
(* bound, whatever keys concurrent requests add.                           *)
LEMMA RememberKeeps ==
  ASSUME RoutingTypeOK, NEW q \in Queries
  PROVE  /\ Remember(q) \in Seq(Queries)
         /\ Len(Remember(q)) <= QueryCacheSize
         /\ IsInjective(Remember(q))
<1>1. query_vectors \in Seq(Queries) /\ IsInjective(query_vectors)
      /\ Len(query_vectors) <= QueryCacheSize /\ QueryCacheSize \in Nat \ {0}
  BY CacheAssumption DEF RoutingTypeOK
<1>2. CASE Contains(query_vectors, q)
  BY <1>1, <1>2 DEF Remember
<1>3. CASE ~Contains(query_vectors, q) /\ Len(query_vectors) < QueryCacheSize
  <2>1. q \notin ToSet(query_vectors)
    BY <1>1, <1>3 DEF Contains, ToSet
  <2> QED BY <1>1, <1>3, <2>1, AppendDistinct DEF Remember
<1>4. CASE ~Contains(query_vectors, q) /\ ~(Len(query_vectors) < QueryCacheSize)
  <2> DEFINE t == Tail(query_vectors)
  <2>1. q \notin ToSet(query_vectors)
    BY <1>1, <1>4 DEF Contains, ToSet
  <2>2. t \in Seq(Queries) /\ Len(t) = Len(query_vectors) - 1
        /\ \A i \in 1..Len(t) : t[i] = query_vectors[i + 1]
    BY <1>1, <1>4
  <2>3. IsInjective(t)
    <3> SUFFICES ASSUME NEW i \in 1..Len(t), NEW j \in 1..Len(t), t[i] = t[j] PROVE i = j
      BY <2>2 DEF IsInjective
    <3> QED BY <1>1, <2>2 DEF IsInjective
  <2>4. q \notin ToSet(t)
    BY <1>1, <2>1, <2>2 DEF ToSet
  <2>5. Remember(q) = Append(t, q)
    BY <1>4 DEF Remember
  <2>6. /\ Append(t, q) \in Seq(Queries)
        /\ IsInjective(Append(t, q))
        /\ Len(Append(t, q)) = Len(t) + 1
    BY <2>2, <2>3, <2>4, AppendDistinct
  <2> QED BY <1>1, <2>2, <2>5, <2>6
<1> QED BY <1>2, <1>3, <1>4

(* The initial states are good. *)
LEMMA RoutingInitInv == RoutingInit => RoutingInv
<1> SUFFICES ASSUME RoutingInit PROVE RoutingInv
  OBVIOUS
<1>1. examples \in BOOLEAN /\ query_vectors \in Seq(Queries) /\ Len(query_vectors) = 0
      /\ IsInjective(query_vectors)
  <2>1. examples = FALSE /\ query_vectors = <<>>
    BY DEF RoutingInit
  <2>2. DOMAIN query_vectors = {}
    BY <2>1
  <2>3. IsInjective(query_vectors)
    BY <2>2 DEF IsInjective
  <2>4. query_vectors \in Seq(Queries) /\ Len(query_vectors) = 0
    BY <2>1
  <2> QED BY <2>1, <2>3, <2>4
<1>2. ASSUME NEW r \in Requests
      PROVE  request[r] \in Turn /\ TurnInv(request[r])
  <2>1. request[r] \in [phase: {"resolve"}, stage: {"start"}, resolved_query: Queries, route: {DefaultRoute},
         accepted: {FALSE}, confident: {FALSE}, trace: {{}}, failed: {{}}, llm: {"none"}]
    BY DEF RoutingInit
  <2>2. request[r] \in Turn
    BY <2>1 DEF Turn, Phases, Stages, Routes, DefaultRoute
  <2>3. TurnInv(request[r])
    BY <2>1 DEF TurnInv
  <2> QED BY <2>2, <2>3
<1>3. request \in [Requests -> Turn]
  BY <1>2 DEF RoutingInit
<1>4. RoutingTypeOK
  BY <1>1, <1>3, CacheAssumption DEF RoutingTypeOK
<1>5. \A r \in Requests : TurnInv(request[r])
  BY <1>2
<1> QED BY <1>4, <1>5 DEF RoutingInv

(* Every step of every request keeps the turns good. *)
LEMMA StepKeepsTurns ==
  ASSUME RoutingInv, NEW r \in Requests, RoutingStep(r) \/ CancelTurn(r)
  PROVE  request' \in [Requests -> Turn] /\ \A s \in Requests : TurnInv(request[s])'
<1>1. request \in [Requests -> Turn] /\ request[r] \in Turn
      /\ (\A s \in Requests : TurnInv(request[s])) /\ TurnInv(request[r])
  BY DEF RoutingInv, RoutingTypeOK
<1> DEFINE t == request[r]
<1>2. CASE Resolve(r)
  <2>1. PICK q \in Queries : Goes(r, "rule", [request[r] EXCEPT !.resolved_query = q])
    BY <1>2 DEF Resolve
  <2> DEFINE new == [request[r] EXCEPT !.resolved_query = q]
  <2>2. new \in Turn /\ "rule" \in Phases
    BY <1>1 DEF Turn, Phases
  <2>3. TurnInv([new EXCEPT !.phase = "rule", !.stage = "start"])
    BY <1>1, <1>2 DEF TurnInv, Turn, Resolve, At
  <2>4. Goes(r, "rule", new)
    BY <2>1
  <2> HIDE DEF new
  <2> QED BY <1>1, <2>2, <2>3, <2>4, TurnGoes
<1>3. CASE RuleLayer(r)
  <2> DEFINE route == RuleRoute(request[r].resolved_query)
  <2>1. CASE route # "none"
    <3>1. route \in Routes
      BY <2>1, RuleRouteType
    <3>2. Decides(r, route, TRUE, request[r])
      BY <1>3, <2>1 DEF RuleLayer
    <3>3. t.trace \cap Failures = t.failed /\ t.trace \ Failures = {} /\ t.llm = "none"
      BY <1>1, <1>3 DEF RuleLayer, At, TurnInv
    <3> QED BY <1>1, <3>1, <3>2, <3>3, TurnDecides
  <2>2. CASE route = "none"
    <3>1. Goes(r, "embedding", request[r]) /\ "embedding" \in Phases
      BY <1>3, <2>2 DEF RuleLayer, Phases, EmbeddingPhases
    <3>2. TurnInv([request[r] EXCEPT !.phase = "embedding", !.stage = "start"])
      BY <1>1, <1>3, <2>2 DEF TurnInv, Turn, RuleLayer, At
    <3> QED BY <1>1, <3>1, <3>2, TurnGoes
  <2> QED BY <2>1, <2>2
<1>4. CASE EmbedHit(r) \/ EmbedMiss(r) \/ EmbedQuery(r) \/ EmbedExamples(r) \/ EmbedRaises(r)
  <2>1. PICK stage \in Stages : SetStage(r, stage)
    <3>1. \/ SetStage(r, "scored") \/ SetStage(r, "examples")
          \/ SetStage(r, "query") \/ SetStage(r, "raised")
      BY <1>4 DEF EmbedHit, EmbedMiss, EmbedQuery, EmbedExamples, EmbedRaises, AfterQuery
    <3> QED BY <3>1 DEF Stages
  <2> QED BY <1>1, <2>1, StageChanges
<1>5. CASE EmbeddingLayer(r)
  <2>1. t.phase = "embedding" /\ RuleRoute(t.resolved_query) = "none" /\ t.llm = "none"
        /\ t.trace \cap Failures = t.failed /\ t.trace \ Failures = {}
    BY <1>1, <1>5 DEF EmbeddingLayer, At, TurnInv
  <2>2. CASE \E route \in LlmRoutes : Decides(r, route, TRUE, request[r])
    <3>1. PICK route \in LlmRoutes : Decides(r, route, TRUE, request[r])
      BY <2>2
    <3>2. route \in Routes
      BY RoutesAssumption
    <3> QED BY <1>1, <2>1, <3>1, <3>2, TurnDecides
  <2>3. CASE Goes(r, "llm", request[r])
    <3>1. TurnInv([request[r] EXCEPT !.phase = "llm", !.stage = "start"]) /\ "llm" \in Phases
      BY <1>1, <2>1 DEF TurnInv, Turn, Phases, LlmPhases
    <3> QED BY <1>1, <2>3, <3>1, TurnGoes
  <2>4. CASE Goes(r, "fallback_llm", Raised(request[r], "embedding"))
    <3> DEFINE new == Raised(request[r], "embedding")
    <3>1. new \in Turn /\ "fallback_llm" \in Phases
      BY <1>1 DEF Turn, Raised, Degraded, Failures, Degradations, Phases, LlmPhases
    <3>2. TurnInv([new EXCEPT !.phase = "fallback_llm", !.stage = "start"])
      BY <1>1, <2>1 DEF TurnInv, Turn, Raised, Degraded, Failures
    <3>3. Goes(r, "fallback_llm", new)
      BY <2>4
    <3> HIDE DEF new
    <3> QED BY <1>1, <3>1, <3>2, <3>3, TurnGoes
  <2> QED BY <1>5, <2>2, <2>3, <2>4 DEF EmbeddingLayer
<1>6. CASE LlmAnswers(r)
  <2> DEFINE phase == IF request[r].phase = "llm" THEN "score" ELSE "fallback_score"
  <2>1. PICK route \in LlmRoutes :
          Goes(r, phase, [request[r] EXCEPT !.route = route, !.llm = route])
    BY <1>6 DEF LlmAnswers
  <2> DEFINE new == [request[r] EXCEPT !.route = route, !.llm = route]
  <2>2. route \in Routes
    BY RoutesAssumption
  <2>3. new \in Turn /\ phase \in Phases /\ phase \in {"score", "fallback_score"}
    BY <1>1, <2>2 DEF Turn, Phases, EmbeddingPhases
  <2>4. RuleRoute(t.resolved_query) = "none"
        /\ t.trace \cap Failures = t.failed /\ t.trace \ Failures = {}
    BY <1>1, <1>6 DEF LlmAnswers, LlmPhases, TurnInv
  <2>5. TurnInv([new EXCEPT !.phase = phase, !.stage = "start"])
    BY <1>1, <2>2, <2>3, <2>4 DEF TurnInv, Turn
  <2>6. Goes(r, phase, new)
    BY <2>1
  <2> HIDE DEF new, phase
  <2> QED BY <1>1, <2>3, <2>5, <2>6, TurnGoes
<1>7. CASE LlmRaises(r)
  <2> DEFINE new == Raised(request[r], request[r].phase)
  <2>1. t.phase \in LlmPhases /\ t.phase \in Failures
    BY <1>7 DEF LlmRaises, LlmPhases, Failures
  <2>2. new \in Turn
    BY <1>1, <2>1 DEF Turn, Raised, Degraded, Failures, Degradations
  <2>3. RuleRoute(t.resolved_query) = "none" /\ t.llm = "none"
        /\ t.trace \cap Failures = t.failed /\ t.trace \ Failures = {}
    BY <1>1, <2>1 DEF LlmPhases, TurnInv
  <2>4. /\ RuleRoute(new.resolved_query) = "none" /\ new.llm = "none"
        /\ new.trace \cap Failures = new.failed /\ new.trace \ Failures = {}
        /\ new.accepted = t.accepted /\ new.route = t.route
    BY <1>1, <2>1, <2>3 DEF Turn, Raised, Degraded
  <2>5. CASE t.phase = "llm"
    <3>1. Decides(r, DefaultRoute, FALSE, new) /\ DefaultRoute \in Routes
      BY <1>7, <2>5 DEF LlmRaises, DefaultRoute, Routes
    <3> HIDE DEF new
    <3> QED BY <1>1, <2>2, <2>4, <3>1, TurnDecides
  <2>6. CASE t.phase # "llm"
    <3>1. Goes(r, "fallback_embedding", new) /\ "fallback_embedding" \in Phases
      BY <1>7, <2>6 DEF LlmRaises, Phases, EmbeddingPhases
    <3> HIDE DEF new
    <3>2. TurnInv([new EXCEPT !.phase = "fallback_embedding", !.stage = "start"])
      BY <2>2, <2>4 DEF TurnInv, Turn
    <3> QED BY <1>1, <2>2, <3>1, <3>2, TurnGoes
  <2> QED BY <2>5, <2>6
<1>8. CASE Score(r)
  <2> DEFINE confident == Clear(r) /\ request[r].stage = "scored"
  <2>1. Decides(r, request[r].route, confident, request[r]) /\ confident \in BOOLEAN
    BY <1>8 DEF Score
  <2>2. RuleRoute(t.resolved_query) = "none" /\ t.route \in Routes
        /\ (t.llm # "none" => t.route = t.llm)
        /\ t.trace \cap Failures = t.failed /\ t.trace \ Failures = {}
    BY <1>1, <1>8 DEF Score, TurnInv, Turn
  <2> HIDE DEF confident
  <2> QED BY <1>1, <2>1, <2>2, TurnDecides
<1>9. CASE FallbackEmbedding(r)
  <2>1. t.phase = "fallback_embedding" /\ RuleRoute(t.resolved_query) = "none" /\ t.llm = "none"
        /\ t.trace \cap Failures = t.failed /\ t.trace \ Failures = {}
    BY <1>1, <1>9 DEF FallbackEmbedding, At, TurnInv
  <2>2. CASE \E route \in LlmRoutes : Decides(r, route, TRUE, request[r])
    <3>1. PICK route \in LlmRoutes : Decides(r, route, TRUE, request[r])
      BY <2>2
    <3>2. route \in Routes
      BY RoutesAssumption
    <3> QED BY <1>1, <2>1, <3>1, <3>2, TurnDecides
  <2>3. CASE Decides(r, DefaultRoute, FALSE, Degraded(request[r], "embedding_rejected"))
    <3> DEFINE new == Degraded(request[r], "embedding_rejected")
    <3>1. new \in Turn
      BY <1>1 DEF Turn, Degraded, Degradations
    <3>2. RuleRoute(new.resolved_query) = "none" /\ new.llm = "none"
          /\ new.trace \cap Failures = new.failed
      BY <1>1, <2>1 DEF Turn, Degraded, Failures
    <3>3. Decides(r, DefaultRoute, FALSE, new) /\ DefaultRoute \in Routes
      BY <2>3 DEF DefaultRoute, Routes
    <3> HIDE DEF new
    <3> QED BY <1>1, <3>1, <3>2, <3>3, TurnDecides
  <2>4. CASE Goes(r, "fallback_rule", Raised(request[r], "fallback_embedding"))
    <3> DEFINE new == Raised(request[r], "fallback_embedding")
    <3>1. new \in Turn /\ "fallback_rule" \in Phases
      BY <1>1 DEF Turn, Raised, Degraded, Failures, Degradations, Phases
    <3>2. TurnInv([new EXCEPT !.phase = "fallback_rule", !.stage = "start"])
      BY <1>1, <2>1 DEF TurnInv, Turn, Raised, Degraded, Failures
    <3>3. Goes(r, "fallback_rule", new)
      BY <2>4
    <3> HIDE DEF new
    <3> QED BY <1>1, <3>1, <3>2, <3>3, TurnGoes
  <2> QED BY <1>9, <2>2, <2>3, <2>4 DEF FallbackEmbedding
<1>10. CASE FallbackRule(r)
  <2>1. t.phase = "fallback_rule" /\ RuleRoute(t.resolved_query) = "none" /\ t.llm = "none"
        /\ t.trace \cap Failures = t.failed
    BY <1>1, <1>10 DEF FallbackRule, At, TurnInv
  <2> DEFINE new == Degraded(request[r], "rule_rejected")
  <2>2. Decides(r, DefaultRoute, FALSE, new) /\ DefaultRoute \in Routes
    BY <1>10, <2>1 DEF FallbackRule, DefaultRoute, Routes
  <2>3. new \in Turn
    BY <1>1 DEF Turn, Degraded, Degradations
  <2>4. RuleRoute(new.resolved_query) = "none" /\ new.llm = "none"
        /\ new.trace \cap Failures = new.failed
    BY <1>1, <2>1 DEF Turn, Degraded, Failures
  <2> HIDE DEF new
  <2> QED BY <1>1, <2>2, <2>3, <2>4, TurnDecides
<1>11. CASE Dispatch(r)
  <2> DEFINE new == [request[r] EXCEPT !.route = request[r].route]
  <2>1. t.phase = "decided" /\ t.accepted
    BY <1>1, <1>11 DEF Dispatch, At, TurnInv
  <2>2. Goes(r, "dispatched", new) /\ "dispatched" \in Phases
    BY <1>11, <2>1 DEF Dispatch, Phases
  <2>3. new \in Turn
    BY <1>1 DEF Turn
  <2>4. TurnInv([new EXCEPT !.phase = "dispatched", !.stage = "start"])
    BY <1>1, <2>1 DEF TurnInv, Turn
  <2> HIDE DEF new
  <2> QED BY <1>1, <2>2, <2>3, <2>4, TurnGoes
<1>12. CASE CancelTurn(r)
  <2>1. Goes(r, "cancelled", request[r]) /\ "cancelled" \in Phases
    BY <1>12 DEF CancelTurn, Phases
  <2>2. TurnInv([request[r] EXCEPT !.phase = "cancelled", !.stage = "start"])
    BY <1>1, <1>12 DEF TurnInv, Turn, CancelTurn, EmbeddingPhases, LlmPhases
  <2> QED BY <1>1, <2>1, <2>2, TurnGoes
<1> QED
  BY <1>2, <1>3, <1>4, <1>5, <1>6, <1>7, <1>8, <1>9, <1>10, <1>11, <1>12 DEF RoutingStep

(* Every step keeps the shared caches good. *)
LEMMA StepKeepsCaches ==
  ASSUME RoutingInv, NEW r \in Requests, RoutingStep(r) \/ CancelTurn(r)
  PROVE  /\ examples' \in BOOLEAN /\ query_vectors' \in Seq(Queries)
         /\ Len(query_vectors') <= QueryCacheSize /\ IsInjective(query_vectors')
<1>1. RoutingTypeOK /\ request[r].resolved_query \in Queries /\ QueryCacheSize \in Nat \ {0}
  BY CacheAssumption DEF RoutingInv, RoutingTypeOK, Turn
<1>2. CASE EmbedHit(r)
  <2> DEFINE q == request[r].resolved_query
  <2>1. query_vectors' = Append(RemoveFirst(query_vectors, q), q) /\ examples' = examples
        /\ q \in ToSet(query_vectors)
    BY <1>1, <1>2 DEF EmbedHit, Contains, ToSet, RoutingTypeOK
  <2>2. query_vectors \in Seq(Queries) /\ IsInjective(query_vectors) /\ q \in Queries
    BY <1>1 DEF RoutingTypeOK
  <2> HIDE DEF q
  <2>3. /\ Append(RemoveFirst(query_vectors, q), q) \in Seq(Queries)
        /\ IsInjective(Append(RemoveFirst(query_vectors, q), q))
        /\ Len(Append(RemoveFirst(query_vectors, q), q)) = Len(query_vectors)
    BY <2>1, <2>2, MovedToEnd
  <2> QED BY <1>1, <2>1, <2>3 DEF RoutingTypeOK
<1>3. CASE EmbedQuery(r)
  BY <1>1, <1>3, RememberKeeps DEF EmbedQuery, RoutingTypeOK
<1>4. CASE EmbedExamples(r)
  BY <1>1, <1>4 DEF EmbedExamples, RoutingTypeOK
<1>5. CASE ~EmbedHit(r) /\ ~EmbedQuery(r) /\ ~EmbedExamples(r)
  <2>1. UNCHANGED Shared
    BY <1>5 DEF RoutingStep, Resolve, RuleLayer, EmbedMiss, EmbedRaises, EmbeddingLayer, LlmAnswers,
       LlmRaises, Score, FallbackEmbedding, FallbackRule, Dispatch, CancelTurn
  <2> QED BY <1>1, <2>1 DEF Shared, RoutingTypeOK
<1> QED BY <1>2, <1>3, <1>4, <1>5

(* The strengthened invariant is inductive. *)
LEMMA RoutingNextInv == RoutingInv /\ [RoutingNext]_routingVars => RoutingInv'
<1> SUFFICES ASSUME RoutingInv, [RoutingNext]_routingVars PROVE RoutingInv'
  OBVIOUS
<1>1. CASE RoutingNext
  <2>1. PICK r \in Requests : RoutingStep(r) \/ CancelTurn(r)
    BY <1>1 DEF RoutingNext
  <2>2. request' \in [Requests -> Turn] /\ \A s \in Requests : TurnInv(request[s])'
    BY <2>1, StepKeepsTurns
  <2> QED BY <2>1, <2>2, StepKeepsCaches DEF RoutingInv, RoutingTypeOK
<1>2. CASE UNCHANGED routingVars
  BY <1>2 DEF routingVars, RoutingInv, RoutingTypeOK, TurnInv, RuleRoute
<1> QED BY <1>1, <1>2

(* The strengthened invariant says what chat() relies on. *)
LEMMA RoutingInvRight == RoutingInv => RoutesAreRight
<1> SUFFICES ASSUME RoutingInv PROVE RoutesAreRight
  OBVIOUS
<1>1. DegradationsRecorded
  BY DEF RoutingInv, TurnInv, DegradationsRecorded, Dispatched
<1>2. LlmRouteIsTaken
  BY DEF RoutingInv, TurnInv, LlmRouteIsTaken, Dispatched
<1>3. RulesComeFirst
  BY DEF RoutingInv, TurnInv, RulesComeFirst, Dispatched
<1> QED BY <1>1, <1>2, <1>3 DEF RoutingInv, RoutesAreRight

(* However many requests share the routers and whatever calls fail: the    *)
(* vectors kept stay within their bound, a turn records its own failures   *)
(* and no others, the model's route is taken as it was chosen, and a       *)
(* question the rules know never gets past them.                           *)
THEOREM RoutesAlwaysRight == RoutingSpec => []RoutesAreRight
<1>1. RoutingInit => RoutingInv
  BY RoutingInitInv
<1>2. RoutingInv /\ [RoutingNext]_routingVars => RoutingInv'
  BY RoutingNextInv
<1>3. RoutingInv => RoutesAreRight
  BY RoutingInvRight
<1> QED BY <1>1, <1>2, <1>3, PTL DEF RoutingSpec

(* Where the branch is says what was spent and what is asked for: pending  *)
(* sub-queries only between the decomposer and their retrieval, all of     *)
(* them asked, and before every round the cap is not reached.              *)
HopInv ==
    /\ HopTypeOK
    /\ HopsDistinct
    /\ ToSet(hops) \cup ToSet(pending) \subseteq asked
    /\ Len(pending) <= MaxSubQueries
    /\ step # "retrieve" /\ step # "failed" => pending = <<>>
    /\ step = "decompose" => units < MaxCostUnits
    /\ step = "retrieve" => units < MaxCostUnits + MaxHopUsage
    /\ CostBounded
    /\ GuardrailIsTrue

(* Sequences that each hold their elements once, and none in common, hold  *)
(* them once together; and the other way round.                            *)
LEMMA DistinctTogether ==
  ASSUME NEW S, NEW s \in Seq(S), NEW t \in Seq(S)
  PROVE  /\ IsInjective(s) /\ IsInjective(t) /\ ToSet(s) \cap ToSet(t) = {} => IsInjective(s \o t)
         /\ IsInjective(s \o t) => IsInjective(s)
         /\ ToSet(s \o t) = ToSet(s) \cup ToSet(t)
<1> DEFINE u == s \o t
<1>1. /\ u \in Seq(S) /\ Len(u) = Len(s) + Len(t)
      /\ \A i \in 1..Len(u) : u[i] = IF i <= Len(s) THEN s[i] ELSE t[i - Len(s)]
  BY ConcatProperties
<1>2. DOMAIN u = 1..Len(u) /\ DOMAIN s = 1..Len(s) /\ DOMAIN t = 1..Len(t)
      /\ Len(s) \in Nat /\ Len(t) \in Nat
  BY <1>1
<1> HIDE DEF u
<1>3. \A i \in 1..Len(s) : i \in 1..Len(u) /\ u[i] = s[i]
  BY <1>1, <1>2
<1>4. ASSUME NEW i \in 1..Len(t) PROVE Len(s) + i \in 1..Len(u) /\ u[Len(s) + i] = t[i]
  <2>1. Len(s) + i \in 1..Len(u) /\ ~(Len(s) + i <= Len(s)) /\ (Len(s) + i) - Len(s) = i
    BY <1>1, <1>2
  <2>2. u[Len(s) + i] = t[(Len(s) + i) - Len(s)]
    BY <1>1, <2>1
  <2> QED BY <2>1, <2>2
<1>5. ASSUME NEW i \in 1..Len(u)
      PROVE  (i \in 1..Len(s) /\ u[i] = s[i]) \/ (i > Len(s) /\ i - Len(s) \in 1..Len(t) /\ u[i] = t[i - Len(s)])
  BY <1>1, <1>2
<1>6. ToSet(u) = ToSet(s) \cup ToSet(t)
  <2>1. \A e : e \in ToSet(u) <=> \E i \in 1..Len(u) : u[i] = e
    BY <1>1, ElementsAt
  <2>2. \A e : e \in ToSet(s) <=> \E i \in 1..Len(s) : s[i] = e
    BY ElementsAt
  <2>3. \A e : e \in ToSet(t) <=> \E i \in 1..Len(t) : t[i] = e
    BY ElementsAt
  <2>4. ASSUME NEW e, e \in ToSet(u) PROVE e \in ToSet(s) \cup ToSet(t)
    <3>1. PICK i \in 1..Len(u) : u[i] = e
      BY <2>1, <2>4
    <3> QED BY <1>5, <2>2, <2>3, <3>1
  <2>5. ASSUME NEW e, e \in ToSet(s) PROVE e \in ToSet(u)
    BY <1>3, <2>1, <2>2, <2>5
  <2>6. ASSUME NEW e, e \in ToSet(t) PROVE e \in ToSet(u)
    <3>1. PICK i \in 1..Len(t) : t[i] = e
      BY <2>3, <2>6
    <3> QED BY <1>4, <2>1, <3>1
  <2> QED BY <2>4, <2>5, <2>6
<1>7. ASSUME IsInjective(u) PROVE IsInjective(s)
  <2> SUFFICES ASSUME NEW i \in 1..Len(s), NEW j \in 1..Len(s), s[i] = s[j] PROVE i = j
    BY <1>2 DEF IsInjective
  <2>1. i \in 1..Len(u) /\ j \in 1..Len(u) /\ u[i] = u[j]
    BY <1>3
  <2> QED BY <1>2, <1>7, <2>1 DEF IsInjective
<1>8. ASSUME IsInjective(s), IsInjective(t), ToSet(s) \cap ToSet(t) = {} PROVE IsInjective(u)
  <2> SUFFICES ASSUME NEW i \in 1..Len(u), NEW j \in 1..Len(u), u[i] = u[j] PROVE i = j
    BY <1>2 DEF IsInjective
  <2>1. \A k \in 1..Len(s) : s[k] \in ToSet(s)
    BY ElementsAt
  <2>2. \A k \in 1..Len(t) : t[k] \in ToSet(t)
    BY ElementsAt
  <2>3. CASE i \in 1..Len(s) /\ j \in 1..Len(s)
    <3>1. s[i] = s[j]
      BY <1>3, <2>3
    <3> QED BY <1>2, <1>8, <2>3, <3>1 DEF IsInjective
  <2>4. CASE i \notin 1..Len(s) /\ j \notin 1..Len(s)
    <3>1. i - Len(s) \in 1..Len(t) /\ j - Len(s) \in 1..Len(t) /\ t[i - Len(s)] = t[j - Len(s)]
      BY <1>5, <2>4
    <3>2. i - Len(s) = j - Len(s)
      BY <1>2, <1>8, <3>1 DEF IsInjective
    <3> QED BY <1>2, <3>2
  <2>5. CASE i \in 1..Len(s) /\ j \notin 1..Len(s)
    <3>1. u[i] \in ToSet(s)
      BY <1>3, <2>1, <2>5
    <3>2. u[j] \in ToSet(t)
      BY <1>5, <2>2, <2>5
    <3> QED BY <1>8, <3>1, <3>2
  <2>6. CASE i \notin 1..Len(s) /\ j \in 1..Len(s)
    <3>1. u[j] \in ToSet(s)
      BY <1>3, <2>1, <2>6
    <3>2. u[i] \in ToSet(t)
      BY <1>5, <2>2, <2>6
    <3> QED BY <1>8, <3>1, <3>2
  <2> QED BY <2>3, <2>4, <2>5, <2>6
<1> QED BY <1>6, <1>7, <1>8 DEF u

(* The sub-queries let through are new, each once, and no more than the    *)
(* decomposer returned.                                                    *)
LEMMA NewSubQueriesAreNew ==
  ASSUME NEW q \in Seq(SubQueries)
  PROVE  LET new == NewSubQueries(q) IN
         /\ new \in Seq(SubQueries)
         /\ Len(new) <= Len(q)
         /\ IsInjective(new)
         /\ ToSet(new) \subseteq ToSet(q)
         /\ ToSet(new) \cap asked = {}
<1> DEFINE I == {i \in DOMAIN q : q[i] \notin asked /\ \A j \in 1..(i - 1) : q[j] # q[i]}
           new == Those(q, I)
           p == InOrder(I)
<1>1. NewSubQueries(q) = new
  BY DEF NewSubQueries
<1>2. I \in SUBSET (1..Len(q))
  OBVIOUS
<1>3. /\ \A i \in I : q[i] \notin asked
      /\ \A i, j \in I : i < j => q[i] # q[j]
  <2>1. ASSUME NEW i \in I, NEW j \in I, i < j PROVE q[i] # q[j]
    <3>1. i \in 1..(j - 1)
      BY <2>1
    <3> QED BY <3>1
  <2> QED BY <2>1
<1> HIDE DEF I
<1>4. /\ new \in Seq(SubQueries) /\ Len(new) = Cardinality(I) /\ Cardinality(I) \in 0..Len(q)
      /\ p \in [1..Len(new) -> I]
      /\ \A k \in 1..Len(new) : new[k] = q[p[k]]
      /\ \A j, k \in 1..Len(new) : j < k => p[j] < p[k]
  BY <1>2, ThoseListed
<1>5. \A e : e \in ToSet(new) <=> \E i \in I : q[i] = e
  BY <1>2, ThoseElements
<1> HIDE DEF new, p
<1>6. IsInjective(new)
  <2> SUFFICES ASSUME NEW j \in 1..Len(new), NEW k \in 1..Len(new), j # k PROVE new[j] # new[k]
    BY <1>4 DEF IsInjective
  <2>1. p[j] \in I /\ p[k] \in I /\ new[j] = q[p[j]] /\ new[k] = q[p[k]]
    BY <1>4
  <2>2. p[j] < p[k] \/ p[k] < p[j]
    BY <1>4
  <2> QED BY <1>3, <2>1, <2>2
<1>7. ToSet(new) \subseteq ToSet(q)
  <2> SUFFICES ASSUME NEW e \in ToSet(new) PROVE e \in ToSet(q)
    OBVIOUS
  <2>1. PICK i \in I : q[i] = e
    BY <1>5
  <2> QED BY <1>2, <2>1, ElementsAt
<1>8. ToSet(new) \cap asked = {}
  BY <1>3, <1>5
<1>9. Len(new) <= Len(q)
  BY <1>4
<1> QED BY <1>1, <1>4, <1>6, <1>7, <1>8, <1>9

(* What a round may cost at most. *)
LEMMA RoundCost ==
  ASSUME NEW n \in Nat, n <= MaxSubQueries, NEW cost \in 0..(MaxUnits * n)
  PROVE  cost \in Nat /\ cost <= MaxUnits * MaxSubQueries
<1>1. MaxUnits \in Nat /\ MaxSubQueries \in Nat
  BY HopAssumption
<1>2. PICK d \in Nat : MaxSubQueries = n + d
  <2>1. MaxSubQueries - n \in Nat /\ MaxSubQueries = n + (MaxSubQueries - n)
    BY <1>1
  <2> QED BY <2>1
<1>3. MaxUnits * n \in Nat /\ MaxUnits * d \in Nat
  BY <1>1
<1>4. MaxUnits * (n + d) = MaxUnits * n + MaxUnits * d
  BY <1>1
<1> QED BY <1>2, <1>3, <1>4

(* The initial state of the branch is good. *)
LEMMA HopInitInv == HopInit => HopInv
<1> SUFFICES ASSUME HopInit PROVE HopInv
  OBVIOUS
<1>1. /\ step = "decompose" /\ round = 0 /\ hops = <<>> /\ asked = {} /\ pending = <<>>
      /\ units = 0 /\ guardrails = <<>>
  BY DEF HopInit
<1>2. /\ MaxSubQueries \in Nat /\ MaxUnits \in Nat /\ MaxHopUsage \in Nat
      /\ RecursionLimit \in Nat \ {0} /\ MaxCostUnits \in Nat \ {0}
      /\ MaxUnits * MaxSubQueries \in Nat
  BY HopAssumption
<1>3. HopTypeOK
  BY <1>1, <1>2 DEF HopTypeOK, HopSteps
<1>4. hops \o pending = <<>> /\ ToSet(hops) = {} /\ ToSet(pending) = {} /\ Len(pending) = 0
  BY <1>1 DEF ToSet
<1>5. DOMAIN (hops \o pending) = {}
  BY <1>4
<1>6. HopsDistinct
  BY <1>5 DEF HopsDistinct, IsInjective
<1>7. CostBounded
  BY <1>1, <1>2 DEF CostBounded
<1>8. GuardrailIsTrue
  BY <1>1, <1>2 DEF GuardrailIsTrue
<1> QED BY <1>1, <1>2, <1>3, <1>4, <1>6, <1>7, <1>8 DEF HopInv

(* The decomposer's sub-queries, freed of those asked before, keep it. *)
LEMMA DecomposeKeeps ==
  ASSUME HopInv, Decompose
  PROVE  HopInv'
<1>1. PICK q \in BoundedSeq(SubQueries, MaxSubQueries), usage \in 0..MaxHopUsage :
        /\ pending' = NewSubQueries(q)
        /\ asked' = asked \cup ToSet(q)
        /\ units' = units + usage
        /\ step' = IF pending' = <<>> THEN "stopped" ELSE "retrieve"
  BY DEF Decompose
<1>2. /\ MaxSubQueries \in Nat /\ MaxUnits \in Nat /\ MaxHopUsage \in Nat
      /\ RecursionLimit \in Nat \ {0} /\ MaxCostUnits \in Nat \ {0}
      /\ MaxUnits * MaxSubQueries \in Nat
  BY HopAssumption
<1>3. /\ step = "decompose" /\ round' = round /\ hops' = hops /\ guardrails' = guardrails
      /\ pending = <<>> /\ guardrails = <<>> /\ round < RecursionLimit /\ units < MaxCostUnits
  BY DEF Decompose, HopInv, GuardrailIsTrue
<1>4. HopTypeOK
  BY DEF HopInv
<1>5. q \in Seq(SubQueries) /\ Len(q) <= MaxSubQueries
  <2>1. PICK m \in 0..MaxSubQueries : q \in [1..m -> SubQueries]
    BY DEF BoundedSeq, SeqOf
  <2>2. m \in Nat /\ m <= MaxSubQueries
    BY <1>2
  <2>3. q \in Seq(SubQueries) /\ Len(q) = m
    BY <2>1, <2>2
  <2> QED BY <2>2, <2>3
<1>6. /\ pending' \in Seq(SubQueries) /\ Len(pending') <= Len(q) /\ IsInjective(pending')
      /\ ToSet(pending') \subseteq ToSet(q) /\ ToSet(pending') \cap asked = {}
  BY <1>1, <1>5, NewSubQueriesAreNew
<1>7. ToSet(q) \subseteq SubQueries
  BY <1>5, ElementsAt
<1>8. HopTypeOK'
  BY <1>1, <1>2, <1>3, <1>4, <1>6, <1>7 DEF HopTypeOK, HopSteps
<1>9. HopsDistinct'
  <2>1. hops \in Seq(SubQueries)
    BY <1>4 DEF HopTypeOK
  <2>2. IsInjective(hops \o pending) /\ ToSet(hops) \subseteq asked
    BY DEF HopInv, HopsDistinct
  <2>3. IsInjective(hops)
    <3>1. hops \o pending = hops
      BY <1>3, <2>1
    <3> QED BY <2>2, <3>1
  <2>4. ToSet(hops) \cap ToSet(pending') = {}
    BY <1>6, <2>2
  <2> HIDE DEF HopsDistinct
  <2>5. PICK new \in Seq(SubQueries) : new = pending'
    BY <1>6
  <2>6. IsInjective(hops \o new)
    BY <1>6, <2>1, <2>3, <2>4, <2>5, DistinctTogether
  <2> QED BY <1>3, <2>5, <2>6 DEF HopsDistinct
<1>10. (ToSet(hops) \cup ToSet(pending))' \subseteq asked'
  BY <1>1, <1>3, <1>6 DEF HopInv
<1>11. Len(pending') <= MaxSubQueries
  BY <1>2, <1>5, <1>6
<1>12. units' < MaxCostUnits + MaxHopUsage /\ units' \in Nat
  BY <1>1, <1>2, <1>3, <1>4 DEF HopTypeOK
<1>13. CostBounded'
  BY <1>2, <1>12 DEF CostBounded
<1>14. GuardrailIsTrue'
  <2>1. guardrails' = <<>> /\ Len(guardrails') = 0
    BY <1>3
  <2> QED BY <1>1, <1>2, <1>3, <1>12, <2>1, <1>8 DEF GuardrailIsTrue, HopTypeOK
<1>15. /\ step' # "retrieve" /\ step' # "failed" => pending' = <<>>
       /\ step' # "decompose"
  BY <1>1
<1> QED BY <1>8, <1>9, <1>10, <1>11, <1>12, <1>13, <1>14, <1>15 DEF HopInv

(* So does a round of retrievals, and what follows it. *)
LEMMA RetrieveKeeps ==
  ASSUME HopInv, Retrieve
  PROVE  HopInv'
<1>1. PICK cost \in 0..(MaxUnits * Len(pending)) : units' = units + cost
  BY DEF Retrieve
<1>2. /\ MaxSubQueries \in Nat /\ MaxUnits \in Nat /\ MaxHopUsage \in Nat
      /\ RecursionLimit \in Nat \ {0} /\ MaxCostUnits \in Nat \ {0}
      /\ MaxUnits * MaxSubQueries \in Nat
  BY HopAssumption
<1>3. /\ step = "retrieve" /\ hops' = hops \o pending /\ round' = round + 1 /\ pending' = <<>>
      /\ asked' = asked /\ step' = AfterRound[1] /\ guardrails' = guardrails \o AfterRound[2]
  BY DEF Retrieve
<1>4. HopTypeOK /\ guardrails = <<>> /\ round < RecursionLimit /\ units < MaxCostUnits + MaxHopUsage
      /\ Len(pending) <= MaxSubQueries /\ pending \in Seq(SubQueries) /\ hops \in Seq(SubQueries)
      /\ units \in Nat /\ round \in Nat /\ Len(pending) \in Nat
  BY <1>3 DEF HopInv, GuardrailIsTrue, HopTypeOK
<1>5. cost \in Nat /\ cost <= MaxUnits * MaxSubQueries
  BY <1>4, RoundCost
<1>6. units' \in Nat /\ units' < MaxCostUnits + MaxHopUsage + MaxUnits * MaxSubQueries
  BY <1>1, <1>2, <1>4, <1>5
<1>7. \/ units' >= MaxCostUnits /\ step' = "stopped" /\ guardrails' = <<"cost_cap">>
      \/ units' < MaxCostUnits /\ round' = RecursionLimit /\ step' = "stopped"
         /\ guardrails' = <<"recursion_limit">>
      \/ units' < MaxCostUnits /\ round' # RecursionLimit /\ step' = "decompose" /\ guardrails' = <<>>
  <2>1. CASE units' >= MaxCostUnits
    <3>1. AfterRound = <<"stopped", <<"cost_cap">>>>
      BY <2>1 DEF AfterRound
    <3>2. step' = "stopped" /\ guardrails' = <<>> \o <<"cost_cap">>
      BY <1>3, <1>4, <3>1
    <3> QED BY <2>1, <3>2
  <2>2. CASE ~(units' >= MaxCostUnits) /\ round' = RecursionLimit
    <3>1. AfterRound = <<"stopped", <<"recursion_limit">>>>
      BY <2>2 DEF AfterRound
    <3>2. step' = "stopped" /\ guardrails' = <<>> \o <<"recursion_limit">>
      BY <1>3, <1>4, <3>1
    <3> QED BY <1>2, <1>6, <2>2, <3>2
  <2>3. CASE ~(units' >= MaxCostUnits) /\ round' # RecursionLimit
    <3>1. AfterRound = <<"decompose", <<>>>>
      BY <2>3 DEF AfterRound
    <3>2. step' = "decompose" /\ guardrails' = <<>> \o <<>>
      BY <1>3, <1>4, <3>1
    <3> QED BY <1>2, <1>6, <2>3, <3>2
  <2> QED BY <2>1, <2>2, <2>3
<1>8. guardrails' \in Seq(Guardrails) /\ Len(guardrails') <= 1
  <2>1. \A g \in Guardrails : <<g>> \in Seq(Guardrails) /\ Len(<<g>>) = 1
    OBVIOUS
  <2>2. <<>> \in Seq(Guardrails) /\ Len(<<>>) = 0
    OBVIOUS
  <2>3. "cost_cap" \in Guardrails /\ "recursion_limit" \in Guardrails
    BY DEF Guardrails
  <2>4. \/ guardrails' = <<"cost_cap">> \/ guardrails' = <<"recursion_limit">> \/ guardrails' = <<>>
    BY <1>7
  <2>5. CASE guardrails' = <<"cost_cap">>
    BY <2>1, <2>3, <2>5
  <2>6. CASE guardrails' = <<"recursion_limit">>
    BY <2>1, <2>3, <2>6
  <2>7. CASE guardrails' = <<>>
    BY <2>2, <2>7
  <2> QED BY <2>4, <2>5, <2>6, <2>7
<1>9. HopTypeOK'
  <2>1. round' \in 0..RecursionLimit /\ step' \in HopSteps
    BY <1>2, <1>3, <1>4, <1>7 DEF HopSteps
  <2>2. hops' \in Seq(SubQueries) /\ pending' \in Seq(SubQueries) /\ asked' \subseteq SubQueries
    BY <1>3, <1>4 DEF HopTypeOK
  <2> QED BY <1>6, <1>8, <2>1, <2>2 DEF HopTypeOK
<1>10. HopsDistinct' /\ (ToSet(hops) \cup ToSet(pending))' \subseteq asked'
  <2>1. ToSet(hops \o pending) = ToSet(hops) \cup ToSet(pending)
    BY <1>4, DistinctTogether
  <2>2. (hops \o pending)' = hops \o pending
    BY <1>3, <1>4
  <2>3. ToSet(pending') = {}
    BY <1>3 DEF ToSet
  <2>4. ToSet(hops') = ToSet(hops) \cup ToSet(pending)
    BY <1>3, <2>1
  <2>5. HopsDistinct /\ ToSet(hops) \cup ToSet(pending) \subseteq asked
    BY DEF HopInv
  <2> QED BY <1>3, <2>2, <2>3, <2>4, <2>5 DEF HopsDistinct
<1>11. CostBounded'
  BY <1>6 DEF CostBounded
<1>12. GuardrailIsTrue'
  <2>1. round' \in Nat /\ round' <= RecursionLimit /\ units' \in Nat
    BY <1>2, <1>3, <1>4, <1>6
  <2>2. CASE units' >= MaxCostUnits /\ step' = "stopped" /\ guardrails' = <<"cost_cap">>
    <3>1. guardrails' # <<"recursion_limit">>
      BY <2>2
    <3> QED BY <1>8, <2>2, <3>1 DEF GuardrailIsTrue
  <2>3. CASE units' < MaxCostUnits /\ round' = RecursionLimit /\ step' = "stopped"
             /\ guardrails' = <<"recursion_limit">>
    <3>1. guardrails' # <<"cost_cap">>
      BY <2>3
    <3>2. ~(units' >= MaxCostUnits + MaxHopUsage)
      BY <1>2, <2>1, <2>3
    <3> QED BY <1>8, <2>3, <3>1, <3>2 DEF GuardrailIsTrue
  <2>4. CASE units' < MaxCostUnits /\ round' # RecursionLimit /\ step' = "decompose"
             /\ guardrails' = <<>>
    <3>1. guardrails' # <<"cost_cap">> /\ guardrails' # <<"recursion_limit">>
      BY <2>4
    <3>2. ~(units' >= MaxCostUnits + MaxHopUsage) /\ round' < RecursionLimit
      BY <1>2, <2>1, <2>4
    <3> QED BY <1>8, <2>4, <3>1, <3>2 DEF GuardrailIsTrue
  <2> QED BY <1>7, <2>2, <2>3, <2>4
<1>13. Len(pending') <= MaxSubQueries
  BY <1>2, <1>3
<1>14. step' # "retrieve" /\ (step' = "decompose" => units' < MaxCostUnits) /\ pending' = <<>>
  BY <1>3, <1>7
<1> QED BY <1>9, <1>10, <1>11, <1>12, <1>13, <1>14 DEF HopInv

(* And the ends of the branch: the timeout, a failure, the answer. *)
LEMMA EndKeeps ==
  ASSUME HopInv, Timeout \/ HopFails \/ Synthesize
  PROVE  HopInv'
<1>1. round' = round /\ hops' = hops /\ asked' = asked /\ units' = units
      /\ step' \in {"stopped", "failed", "answered"}
  BY DEF Timeout, HopFails, Synthesize
<1>2. /\ MaxSubQueries \in Nat /\ MaxHopUsage \in Nat /\ MaxCostUnits \in Nat
      /\ RecursionLimit \in Nat
  BY HopAssumption
<1>3. \/ pending' = pending /\ guardrails' = guardrails /\ (step' = "failed" \/ (step # "retrieve" /\ step # "failed"))
      \/ pending' = <<>> /\ guardrails' = Append(guardrails, "global_timeout")
         /\ step \in {"decompose", "retrieve"}
  BY DEF Timeout, HopFails, Synthesize
<1>4. HopTypeOK /\ HopsDistinct /\ CostBounded /\ GuardrailIsTrue
      /\ ToSet(hops) \cup ToSet(pending) \subseteq asked /\ Len(pending) <= MaxSubQueries
  BY DEF HopInv
<1>5. hops \in Seq(SubQueries) /\ pending \in Seq(SubQueries) /\ units \in Nat
  BY <1>4 DEF HopTypeOK
<1>6. CASE pending' = <<>> /\ guardrails' = Append(guardrails, "global_timeout")
           /\ step \in {"decompose", "retrieve"}
  <2>1. guardrails = <<>> /\ units < MaxCostUnits + MaxHopUsage
    BY <1>2, <1>4, <1>5, <1>6 DEF GuardrailIsTrue, HopInv
  <2>2. guardrails' = <<"global_timeout">>
    BY <1>6, <2>1
  <2>3. HopTypeOK'
    BY <1>1, <1>4, <1>6, <2>2 DEF HopTypeOK, HopSteps, Guardrails
  <2>4. HopsDistinct' /\ ToSet(pending') = {} /\ Len(pending') = 0
    <3>1. (hops \o pending)' = hops
      BY <1>1, <1>5, <1>6
    <3>2. IsInjective(hops)
      BY <1>4, <1>5, DistinctTogether DEF HopsDistinct
    <3>3. ToSet(pending') = {} /\ Len(pending') = 0
      BY <1>6 DEF ToSet
    <3> QED BY <3>1, <3>2, <3>3 DEF HopsDistinct
  <2>5. CostBounded'
    BY <1>1, <1>4 DEF CostBounded
  <2>6. GuardrailIsTrue'
    <3>1. Len(guardrails') = 1 /\ guardrails' # <<"cost_cap">> /\ guardrails' # <<"recursion_limit">>
      BY <2>2
    <3>2. ~(units' >= MaxCostUnits + MaxHopUsage)
      BY <1>1, <1>2, <1>5, <2>1
    <3> QED BY <1>1, <3>1, <3>2 DEF GuardrailIsTrue
  <2>7. (ToSet(hops) \cup ToSet(pending))' \subseteq asked'
    BY <1>1, <1>4, <2>4
  <2> QED BY <1>1, <1>2, <1>6, <2>3, <2>4, <2>5, <2>6, <2>7 DEF HopInv
<1>7. CASE pending' = pending /\ guardrails' = guardrails
           /\ (step' = "failed" \/ (step # "retrieve" /\ step # "failed"))
  <2>1. HopTypeOK'
    BY <1>1, <1>4, <1>7 DEF HopTypeOK, HopSteps
  <2>2. HopsDistinct' /\ (ToSet(hops) \cup ToSet(pending))' \subseteq asked' /\ CostBounded'
    BY <1>1, <1>4, <1>7 DEF HopsDistinct, CostBounded
  <2>3. GuardrailIsTrue'
    BY <1>1, <1>4, <1>7 DEF GuardrailIsTrue
  <2>4. step' # "failed" => pending' = <<>>
    BY <1>7 DEF HopInv
  <2> QED BY <1>1, <1>4, <1>7, <2>1, <2>2, <2>3, <2>4 DEF HopInv
<1> QED BY <1>3, <1>6, <1>7

(* The strengthened invariant of the branch is inductive. *)
LEMMA HopNextInv == HopInv /\ [HopNext]_hopVars => HopInv'
<1> SUFFICES ASSUME HopInv, [HopNext]_hopVars PROVE HopInv'
  OBVIOUS
<1>1. CASE UNCHANGED hopVars
  BY <1>1 DEF hopVars, HopInv, HopTypeOK, HopsDistinct, CostBounded, GuardrailIsTrue
<1> QED BY <1>1, DecomposeKeeps, RetrieveKeeps, EndKeeps DEF HopNext

(* Whatever the decomposer returns and whenever the timeout cancels the    *)
(* rounds: no sub-query is retrieved twice, the cost overshoots its cap by *)
(* one round at most, and the guardrail reported is the one that ended it. *)
THEOREM HopsAlwaysRight == HopSpec => []HopsAreRight
<1>1. HopInit => HopInv
  BY HopInitInv
<1>2. HopInv /\ [HopNext]_hopVars => HopInv'
  BY HopNextInv
<1>3. HopInv => HopsAreRight
  BY DEF HopInv, HopsAreRight
<1> QED BY <1>1, <1>2, <1>3, PTL DEF HopSpec

(* No step takes a hop away again: the timeout cancels the rounds, not     *)
(* their results.                                                          *)
THEOREM HopsStay == HopSpec => HopsAreKept
<1>1. ASSUME HopInv, [HopNext]_hopVars PROVE [IsPrefix(hops, hops')]_hopVars
  <2>1. hops \in Seq(SubQueries) /\ pending \in Seq(SubQueries)
    BY <1>1 DEF HopInv, HopTypeOK
  <2>2. IsPrefix(hops, hops) /\ IsPrefix(hops, hops \o pending)
    BY <2>1, PrefixExtends
  <2>3. hops' = hops \/ hops' = hops \o pending
    BY <1>1 DEF HopNext, Decompose, Retrieve, Timeout, HopFails, Synthesize, hopVars
  <2> QED BY <2>2, <2>3
<1>2. HopInit => HopInv
  BY HopInitInv
<1>3. HopInv /\ [HopNext]_hopVars => HopInv'
  BY HopNextInv
<1> QED BY <1>1, <1>2, <1>3, PTL DEF HopSpec, HopsAreKept
================================================================================
