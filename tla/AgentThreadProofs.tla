-------------------------- MODULE AgentThreadProofs --------------------------
(***************************************************************************)
(* Proofs about conversation threads, for every number of clients and      *)
(* turns and every budget: the types, the budgets of a turn, its length,   *)
(* and, where only the routed graph runs, the history the model is sent.   *)
(***************************************************************************)
EXTENDS MCAgentThread, SequenceLemmas, TLAPS

(***************************************************************************)
(* Budgets.  What a turn has executed, counted and used when it is about   *)
(* to run a node; the requests pending before tools are already counted.   *)
(***************************************************************************)
Grading == {"grade_docs", "rewrite_question", "web_searcher"}

CallsCounted(r) ==
    /\ r.step \in Grading \cup {"idle", "resolve", "route", "branch", "retrieve_docs"} => r.executed = 0
    /\ r.step \in Grading => r.state.tool_calls_count = 0
    /\ r.step = "generate" => r.state.tool_calls_count = r.executed
    /\ r.step \in {"tools", "finalize"} =>
         /\ r.state.history # <<>>
         /\ Last(r.state.history).calls > 0
         /\ r.state.tool_calls_count = r.executed + Last(r.state.history).calls
    /\ r.step = "tools" => r.state.tool_calls_count <= MaxToolCalls
    /\ r.executed <= MaxToolCalls

TokensCounted(r) ==
    /\ r.step \in Grading => r.state.token_count = 0
    /\ r.step \in {"generate", "tools"} => r.state.token_count <= MaxTokens
    /\ r.step = "finalize" => r.state.token_count <= MaxTokens + MaxUsage
    /\ r.step = "branch" => ~ r.is_lookup
    /\ (r.step \in {"respond", "done"} /\ r.is_lookup) =>
         r.state.token_count <= MaxTokens + 2 * MaxUsage

(* The nodes a turn can have run when it is about to run a node.           *)
StepsCounted(r) ==
    /\ r.step \in {"idle", "resolve"} => r.steps = 0
    /\ r.step = "route" => r.steps <= 1
    /\ r.step \in {"branch", "retrieve_docs"} => r.steps <= 2
    /\ r.step = "grade_docs" => r.steps <= 3 + 3 * r.state.loop_count
    /\ r.step = "rewrite_question" =>
         r.steps <= 4 + 3 * r.state.loop_count /\ r.state.loop_count < RewriteLimit
    /\ r.step = "web_searcher" =>
         r.steps <= 2 + 3 * r.state.loop_count
    /\ r.step = "generate" => r.steps <= 10 + 2 * r.executed
    /\ r.step \in {"tools", "finalize"} => r.steps <= 11 + 2 * r.executed
    /\ r.step = "respond" => r.steps <= 12 + 2 * r.executed
    /\ r.step = "done" => r.steps <= 13 + 2 * r.executed

Counted(r) == CallsCounted(r) /\ TokensCounted(r) /\ StepsCounted(r)

BInv == TypeOK /\ \A c \in Clients : Counted(run[c])

(* What a node makes of the run of its client.                             *)
Left(c, next, state) ==
    [run[c] EXCEPT !.step = next, !.state = state, !.steps = @ + 1]

Moved(left, c, next, state) ==
    /\ left.step = next /\ left.state = state /\ left.steps = run[c].steps + 1
    /\ left.is_lookup = run[c].is_lookup /\ left.executed = run[c].executed

Nodes == LookupNodes \cup RoutedNodes \cup {"idle", "done"}

(* Sequences of messages.                                                  *)
LEMMA LastAppended ==
  ASSUME NEW S, NEW h \in Seq(S), NEW m \in S
  PROVE  /\ Append(h, m) \in Seq(S)
         /\ Append(h, m) # <<>>
         /\ Last(Append(h, m)) = m
  BY DEF Last

(* The last message of a history is one of its elements. *)
LEMMA LastInside ==
  ASSUME NEW S, NEW h \in Seq(S), h # <<>>
  PROVE  Last(h) \in S
  BY DEF Last

(* The question of a turn and a plain answer are messages. *)
LEMMA PlainMessages == Human \in Messages /\ Answer \in Messages
  BY ModelAssumption DEF Messages, Human, Answer

(* So are a model answer that asks for n tool calls and n replies. *)
LEMMA CallMessages ==
  ASSUME NEW n \in 0..MaxRequests
  PROVE  /\ Requests(n) \in Messages /\ Replies(n) \in Messages
         /\ Requests(n).calls = n
  BY ModelAssumption DEF Messages, Requests, Replies

(* A state with another history is a state. *)
LEMMA HistoryTyped ==
  ASSUME NEW state \in States, NEW h \in Seq(Messages)
  PROVE  [state EXCEPT !.history = h] \in States
  BY DEF States

(* Runs that have moved on are runs.                                       *)
LEMMA StepsTyped ==
  ASSUME NEW r \in Runs
  PROVE  [r EXCEPT !.steps = @ + 1] \in Runs
  BY DEF Runs

(* Executing more tool calls keeps a run typed. *)
LEMMA ExecutedTyped ==
  ASSUME NEW r \in Runs, NEW n \in Nat
  PROVE  [r EXCEPT !.executed = @ + n] \in Runs
  BY DEF Runs

(* Counting more tokens keeps a state typed. *)
LEMMA TokensTyped ==
  ASSUME NEW state \in States, NEW n \in Nat
  PROVE  [state EXCEPT !.token_count = @ + n] \in States
  BY DEF States

(* What a node leaves behind is a typed run. *)
LEMMA LeftTyped ==
  ASSUME NEW c \in Clients, run[c] \in Runs, NEW next \in Nodes, NEW state \in States
  PROVE  Left(c, next, state) \in Runs
  <1>1. [run[c] EXCEPT !.step = next, !.state = state] \in Runs
    BY DEF Runs, Nodes
  <1>2. QED
    BY <1>1, StepsTyped DEF Left

(* One client moves on, the others stay where they are.                    *)
LEMMA OneMoves ==
  ASSUME BInv, NEW c \in Clients, NEW r \in Runs, Counted(r),
         run' = [run EXCEPT ![c] = r], thread' \in States, turns' \in 0..MaxTurns
  PROVE  BInv'
  <1>1. TypeOK'
    BY DEF BInv, TypeOK
  <1>2. ASSUME NEW d \in Clients PROVE Counted(run'[d])
    BY <1>2 DEF BInv, TypeOK
  <1>3. (\A d \in Clients : Counted(run[d]))'
    BY <1>2 DEF Counted, CallsCounted, TokensCounted, StepsCounted
  <1>4. QED
    BY <1>1, <1>3 DEF BInv

(* A node that goes by Leave keeps BInv if the run it leaves is counted. *)
LEMMA NodeLeaves ==
  ASSUME BInv, NEW c \in Clients, NEW next \in Nodes, NEW state \in States,
         Leave(c, next, state),
         \A left \in Runs : Moved(left, c, next, state) => Counted(left)
  PROVE  BInv'
  <1>1. run[c] \in Runs /\ thread \in States /\ turns \in 0..MaxTurns
    BY DEF BInv, TypeOK
  <1>2. Left(c, next, state) \in Runs
    BY <1>1, LeftTyped
  <1>3. run' = [run EXCEPT ![c] = Left(c, next, state)]
    BY <1>1 DEF Leave, Left, BInv, TypeOK
  <1>4. Moved(Left(c, next, state), c, next, state)
    BY <1>1 DEF Moved, Left, Runs
  <1>5. Counted(Left(c, next, state))
    BY <1>2, <1>4
  <1>6. thread' \in States /\ turns' \in 0..MaxTurns
    BY <1>1 DEF Leave
  <1>7. QED
    BY <1>2, <1>3, <1>5, <1>6, OneMoves

(* The nodes of the routed graph.                                          *)
LEMMA RoutedKeepsBInv ==
  ASSUME BInv, NEW c \in Clients, Resolve(c) \/ Route(c) \/ Branch(c) \/ Respond(c)
  PROVE  BInv'
  <1> DEFINE r == run[c]
  <1>1. r \in Runs /\ r.state \in States /\ Counted(r) /\ thread \in States /\ turns \in 0..MaxTurns
    BY DEF BInv, TypeOK, Runs
  <1>2. CASE Resolve(c)
    <2>1. ASSUME NEW left \in Runs, Moved(left, c, "route", r.state) PROVE Counted(left)
      BY <2>1, <1>1, <1>2 DEF Resolve, At, Moved, Runs, Counted, CallsCounted, TokensCounted,
                        StepsCounted, Grading
    <2>2. QED
      BY <1>1, <1>2, <2>1, NodeLeaves DEF Resolve, Nodes, RoutedNodes
  <1>3. CASE Route(c)
    <2>1. PICK is_lookup \in BOOLEAN :
            LET next == IF is_lookup THEN "retrieve_docs" ELSE "branch" IN
            /\ run' = [run EXCEPT ![c].step = next, ![c].is_lookup = is_lookup, ![c].steps = @ + 1]
            /\ thread' = run[c].state
      BY <1>3 DEF Route
    <2> DEFINE next == IF is_lookup THEN "retrieve_docs" ELSE "branch"
               moved == [r EXCEPT !.step = next, !.is_lookup = is_lookup, !.steps = @ + 1]
    <2>2. moved \in Runs
      <3>1. [r EXCEPT !.step = next, !.is_lookup = is_lookup] \in Runs
        BY <1>1 DEF Runs, LookupNodes, RoutedNodes
      <3>2. QED
        BY <3>1, StepsTyped
    <2>3. run' = [run EXCEPT ![c] = moved]
      BY <1>1, <2>1 DEF BInv, TypeOK
    <2>4. Counted(moved)
      <3>1. /\ moved.step = next /\ moved.is_lookup = is_lookup /\ moved.steps = r.steps + 1
            /\ moved.state = r.state /\ moved.executed = r.executed
        BY <1>1 DEF Runs
      <3>2. r.step = "route" /\ r.steps \in Nat
        BY <1>1, <1>3 DEF Route, At, Runs
      <3>3. QED
        BY <1>1, <3>1, <3>2 DEF Moved, Runs, Counted, CallsCounted, TokensCounted, StepsCounted, Grading
    <2>5. thread' \in States /\ turns' \in 0..MaxTurns
      BY <1>1, <1>3, <2>1 DEF Route
    <2>6. QED
      BY <2>2, <2>3, <2>4, <2>5, OneMoves
  <1>4. CASE Branch(c)
    <2>1. PICK used \in BranchUsage \cup {r.state.token_count} :
            Leave(c, "respond", [r.state EXCEPT !.token_count = used])
      BY <1>4 DEF Branch
    <2>2. [r.state EXCEPT !.token_count = used] \in States
      BY <1>1, ModelAssumption DEF States
    <2> DEFINE state == [r.state EXCEPT !.token_count = used]
    <2>3. /\ r.step = "branch" /\ ~ r.is_lookup /\ r.executed = 0 /\ r.steps <= 2 /\ r.steps \in Nat
          /\ "respond" \in Nodes
      BY <1>1, <1>4 DEF Branch, At, Runs, Counted, CallsCounted, TokensCounted, StepsCounted, Nodes,
                        RoutedNodes
    <2> HIDE DEF state
    <2>4. ASSUME NEW left \in Runs, Moved(left, c, "respond", state) PROVE Counted(left)
      BY <2>3, <2>4, BudgetAssumption
         DEF Moved, Counted, CallsCounted, TokensCounted, StepsCounted, Grading
    <2>5. QED
      BY <2>1, <2>2, <2>3, <2>4, NodeLeaves DEF state
  <1>5. CASE Respond(c)
    <2> DEFINE state == IF r.is_lookup THEN r.state
                        ELSE [r.state EXCEPT !.history = Append(@, Answer)]
    <2>1. state \in States
      <3>1. Append(r.state.history, Answer) \in Seq(Messages)
        BY <1>1, PlainMessages DEF States
      <3>2. QED
        BY <1>1, <3>1, HistoryTyped
    <2>2. /\ Leave(c, "done", state) /\ "done" \in Nodes
          /\ r.step = "respond" /\ r.steps \in Nat /\ r.executed \in Nat
          /\ r.is_lookup => state.token_count = r.state.token_count
      BY <1>1, <1>5 DEF Respond, At, Runs, Nodes
    <2> HIDE DEF state
    <2>3. ASSUME NEW left \in Runs, Moved(left, c, "done", state) PROVE Counted(left)
      BY <2>2, <2>3, <1>1
         DEF Moved, Counted, CallsCounted, TokensCounted, StepsCounted, Grading
    <2>4. QED
      BY <2>1, <2>2, <2>3, NodeLeaves
  <1>6. QED
    BY <1>2, <1>3, <1>4, <1>5

(* The nodes of the lookup graph up to the generation.                     *)
LEMMA GradingKeepsBInv ==
  ASSUME BInv, NEW c \in Clients, Retrieve(c) \/ Grade(c) \/ Rewrite(c) \/ WebSearch(c)
  PROVE  BInv'
  <1> DEFINE r == run[c]
  <1>1. r \in Runs /\ r.state \in States /\ Counted(r)
    BY DEF BInv, TypeOK, Runs
  <1>2. CASE Retrieve(c)
    <2> DEFINE state == [r.state EXCEPT !.tool_calls_count = 0, !.token_count = 0]
    <2>1. state \in States /\ state.tool_calls_count = 0 /\ state.token_count = 0
      BY <1>1 DEF States
    <2>2. Leave(c, "grade_docs", state) /\ r.step = "retrieve_docs"
      BY <1>2 DEF Retrieve, At
    <2> HIDE DEF state
    <2>3. "grade_docs" \in Nodes /\ state.loop_count \in Nat
      BY <2>1 DEF Nodes, LookupNodes, States, RewriteLimit
    <2>4. ASSUME NEW left \in Runs, Moved(left, c, "grade_docs", state) PROVE Counted(left)
      BY <2>4, <1>1, <2>1, <2>2, <2>3, BudgetAssumption
         DEF Moved, Runs, Counted, CallsCounted, TokensCounted, StepsCounted, Grading
    <2>5. QED
      BY <2>1, <2>2, <2>3, <2>4, NodeLeaves
  <1>3. CASE Grade(c)
    <2>1. PICK good \in BOOLEAN :
            Leave(c, IF good \/ r.state.loop_count >= RewriteLimit
                       THEN "generate" ELSE "rewrite_question", r.state)
      BY <1>3 DEF Grade
    <2> DEFINE next == IF good \/ r.state.loop_count >= RewriteLimit
                         THEN "generate" ELSE "rewrite_question"
    <2>2. r.step = "grade_docs" /\ next \in Nodes /\ r.state.loop_count \in 0..RewriteLimit
      BY <1>1, <1>3 DEF Grade, At, Nodes, LookupNodes, States
    <2>3. next \in {"generate", "rewrite_question"}
          /\ (next = "rewrite_question" => r.state.loop_count < RewriteLimit)
      BY <2>2 DEF RewriteLimit
    <2>4. Leave(c, next, r.state)
      BY <2>1
    <2> HIDE DEF next
    <2>5. ASSUME NEW left \in Runs, Moved(left, c, next, r.state) PROVE Counted(left)
      BY <2>5, <1>1, <2>2, <2>3, BudgetAssumption
         DEF Moved, Runs, Counted, CallsCounted, TokensCounted, StepsCounted, Grading, RewriteLimit
    <2>6. QED
      BY <1>1, <2>2, <2>4, <2>5, NodeLeaves
  <1>4. CASE Rewrite(c)
    <2> DEFINE state == [r.state EXCEPT !.loop_count = @ + 1]
    <2>1. r.step = "rewrite_question" /\ r.state.loop_count < RewriteLimit
      BY <1>1, <1>4 DEF Rewrite, At, Counted, StepsCounted
    <2>2. /\ state \in States /\ state.loop_count = r.state.loop_count + 1
          /\ r.state.loop_count \in Nat
          /\ state.tool_calls_count = r.state.tool_calls_count
          /\ state.token_count = r.state.token_count
      BY <1>1, <2>1 DEF States, RewriteLimit
    <2>3. Leave(c, "web_searcher", state) /\ "web_searcher" \in Nodes
      BY <1>4 DEF Rewrite, Nodes, LookupNodes
    <2> HIDE DEF state
    <2>4. ASSUME NEW left \in Runs, Moved(left, c, "web_searcher", state) PROVE Counted(left)
      BY <2>4, <1>1, <2>1, <2>2
         DEF Moved, Runs, Counted, CallsCounted, TokensCounted, StepsCounted, Grading
    <2>5. QED
      BY <2>2, <2>3, <2>4, NodeLeaves
  <1>5. CASE WebSearch(c)
    <2>1. /\ r.step = "web_searcher" /\ Leave(c, "grade_docs", r.state)
          /\ "grade_docs" \in Nodes /\ r.state.loop_count \in Nat
      BY <1>1, <1>5 DEF WebSearch, At, Nodes, LookupNodes, States, RewriteLimit
    <2>2. ASSUME NEW left \in Runs, Moved(left, c, "grade_docs", r.state) PROVE Counted(left)
      BY <2>2, <1>1, <2>1 DEF Moved, Runs, Counted, CallsCounted, TokensCounted, StepsCounted, Grading
    <2>3. QED
      BY <1>1, <2>1, <2>2, NodeLeaves
  <1>6. QED
    BY <1>2, <1>3, <1>4, <1>5

(* What a generation makes of a state.                                     *)
Generated(s, m, n, u) ==
    [s EXCEPT !.history = Append(@, m), !.tool_calls_count = @ + n, !.token_count = @ + u]

(* It is a state, with one message more and both counters raised. *)
LEMMA GeneratedState ==
  ASSUME NEW s \in States, NEW m \in Messages, NEW n \in Nat, NEW u \in Nat
  PROVE  /\ Generated(s, m, n, u) \in States
         /\ Generated(s, m, n, u).history = Append(s.history, m)
         /\ Generated(s, m, n, u).tool_calls_count = s.tool_calls_count + n
         /\ Generated(s, m, n, u).token_count = s.token_count + u
  <1> DEFINE h == Append(s.history, m)
             calls == s.tool_calls_count + n
             tokens == s.token_count + u
  <1>1. h \in Seq(Messages) /\ calls \in Nat /\ tokens \in Nat
    BY DEF States
  <1>2. Generated(s, m, n, u) =
          [s EXCEPT !.history = h, !.tool_calls_count = calls, !.token_count = tokens]
    BY DEF Generated
  <1> HIDE DEF h, calls, tokens
  <1>3. Generated(s, m, n, u) \in States
    BY <1>1, <1>2 DEF States
  <1>4. /\ Generated(s, m, n, u).history = h
        /\ Generated(s, m, n, u).tool_calls_count = calls
        /\ Generated(s, m, n, u).token_count = tokens
    BY <1>2 DEF States
  <1>5. QED
    BY <1>3, <1>4 DEF h, calls, tokens

(* A generation counts its requests, then decides: an edge to tools means the budget covers them. *)
LEMMA GenerateKeepsBInv ==
  ASSUME BInv, NEW c \in Clients, Generate(c)
  PROVE  BInv'
  <1> DEFINE r == run[c]
  <1>1. r \in Runs /\ r.state \in States /\ Counted(r)
    BY DEF BInv, TypeOK, Runs
  <1>2. PICK requested \in 0..MaxRequests, used \in 0..MaxUsage :
          LET state == [r.state EXCEPT !.history = Append(@, Requests(requested)),
                                       !.tool_calls_count = @ + requested,
                                       !.token_count = @ + used]
          IN Leave(c, AfterGenerate(c, requested, state), state)
    BY DEF Generate
  <1> DEFINE state == [r.state EXCEPT !.history = Append(@, Requests(requested)),
                                      !.tool_calls_count = @ + requested,
                                      !.token_count = @ + used]
             next == AfterGenerate(c, requested, state)
  <1>3. /\ requested \in Nat /\ used \in Nat /\ used <= MaxUsage
        /\ r.state.history \in Seq(Messages)
        /\ r.state.tool_calls_count \in Nat /\ r.state.token_count \in Nat
        /\ Requests(requested) \in Messages /\ Requests(requested).calls = requested
    BY <1>1, CallMessages, ModelAssumption DEF States
  <1>4. /\ state \in States
        /\ state.history = Append(r.state.history, Requests(requested))
        /\ state.tool_calls_count = r.state.tool_calls_count + requested
        /\ state.token_count = r.state.token_count + used
    <2>1. state = Generated(r.state, Requests(requested), requested, used)
      BY DEF Generated
    <2>2. requested \in Nat /\ used \in Nat /\ Requests(requested) \in Messages
      BY <1>3
    <2>3. /\ Generated(r.state, Requests(requested), requested, used) \in States
          /\ Generated(r.state, Requests(requested), requested, used).history
               = Append(r.state.history, Requests(requested))
          /\ Generated(r.state, Requests(requested), requested, used).tool_calls_count
               = r.state.tool_calls_count + requested
          /\ Generated(r.state, Requests(requested), requested, used).token_count
               = r.state.token_count + used
      BY <1>1, <2>2, GeneratedState
    <2> HIDE DEF state
    <2>4. QED
      BY <2>1, <2>3
  <1>5. Leave(c, next, state) /\ r.step = "generate"
    BY <1>2 DEF Generate, At
  <1> HIDE DEF state
  <1>6. state.history # <<>> /\ Last(state.history).calls = requested
    <2>1. r.state.history \in Seq(Messages) /\ Requests(requested) \in Messages
      BY <1>3
    <2>2. /\ Append(r.state.history, Requests(requested)) # <<>>
          /\ Last(Append(r.state.history, Requests(requested))) = Requests(requested)
      BY <2>1, LastAppended
    <2>3. QED
      BY <1>3, <1>4, <2>2
  <1>7. /\ next \in {"done", "respond", "tools", "finalize"}
        /\ next \in {"tools", "finalize"} => requested # 0
        /\ next = "tools" => ~ OverBudget(state)
    <2>1. LookupEnds(c) \in {"done", "respond"}
      BY DEF LookupEnds
    <2>2. next = IF requested = 0 THEN LookupEnds(c)
                 ELSE IF OverBudget(state) THEN "finalize" ELSE "tools"
      BY DEF AfterGenerate
    <2> HIDE DEF next
    <2>3. CASE requested = 0
      BY <2>1, <2>2, <2>3
    <2>4. CASE requested # 0 /\ OverBudget(state)
      BY <2>2, <2>4
    <2>5. CASE requested # 0 /\ ~ OverBudget(state)
      BY <2>2, <2>5
    <2>6. QED
      BY <2>3, <2>4, <2>5
  <1>8. next = "tools" => /\ state.tool_calls_count <= MaxToolCalls
                          /\ state.token_count <= MaxTokens
    <2>1. state.tool_calls_count \in Nat /\ state.token_count \in Nat
      BY <1>4 DEF States
    <2>2. ~ OverBudget(state) => /\ state.tool_calls_count <= MaxToolCalls
                                 /\ state.token_count <= MaxTokens
      BY <2>1, BudgetAssumption DEF OverBudget
    <2>3. QED
      BY <1>7, <2>2
  <1> HIDE DEF next
  <1>9. ASSUME NEW left \in Runs, Moved(left, c, next, state) PROVE Counted(left)
    <2>1. /\ left.step = next /\ left.state = state /\ left.steps = r.steps + 1
          /\ left.is_lookup = r.is_lookup /\ left.executed = r.executed
      BY <1>9 DEF Moved
    <2>2. CallsCounted(left)
      <3>1. /\ r.state.tool_calls_count = r.executed
            /\ r.executed \in Nat /\ r.executed <= MaxToolCalls
        BY <1>1, <1>5 DEF Runs, Counted, CallsCounted
      <3>2. state.tool_calls_count = left.executed + Last(state.history).calls
        BY <1>3, <1>4, <1>6, <2>1, <3>1
      <3>3. next \in {"tools", "finalize"} => Last(state.history).calls > 0
        BY <1>3, <1>6, <1>7
      <3>4. QED
        BY <1>6, <1>7, <1>8, <2>1, <3>1, <3>2, <3>3 DEF CallsCounted, Grading
    <2>3. TokensCounted(left)
      <3>1. r.state.token_count <= MaxTokens
        BY <1>1, <1>5 DEF Counted, TokensCounted
      <3>2. MaxTokens \in Nat /\ MaxUsage \in Nat
        BY BudgetAssumption, ModelAssumption
      <3>3. state.token_count <= MaxTokens + MaxUsage
        BY <1>3, <1>4, <3>1, <3>2
      <3>4. state.token_count <= MaxTokens + 2 * MaxUsage
        BY <1>3, <1>4, <3>2, <3>3
      <3>5. QED
        BY <1>7, <1>8, <2>1, <3>3, <3>4 DEF TokensCounted, Grading
    <2>4. StepsCounted(left)
      BY <1>1, <1>5, <1>7, <2>1 DEF Runs, Counted, StepsCounted
    <2>5. QED
      BY <2>2, <2>3, <2>4 DEF Counted
  <1>10. next \in Nodes
    BY <1>7 DEF Nodes, LookupNodes, RoutedNodes
  <1>11. QED
    BY <1>4, <1>5, <1>9, <1>10, NodeLeaves

(* The messages that answer the pending requests.                          *)
LEMMA PendingTyped ==
  ASSUME BInv, NEW c \in Clients, run[c].step \in {"tools", "finalize"}
  PROVE  /\ run[c].state.history \in Seq(Messages) /\ run[c].state.history # <<>>
         /\ Pending(c) \in 0..MaxRequests /\ Pending(c) > 0
         /\ Replies(Pending(c)) \in Messages
  <1>1. run[c] \in Runs /\ Counted(run[c])
    BY DEF BInv, TypeOK
  <1>2. run[c].state.history \in Seq(Messages) /\ run[c].state.history # <<>>
    BY <1>1 DEF Runs, States, Counted, CallsCounted
  <1>3. Last(run[c].state.history) \in Messages
    BY <1>2, LastInside
  <1>4. Pending(c) \in 0..MaxRequests /\ Pending(c) > 0
    BY <1>1, <1>3 DEF Pending, Messages, Counted, CallsCounted
  <1>5. QED
    BY <1>2, <1>4, CallMessages

(* Executing the pending calls, which generate has counted, keeps BInv. *)
LEMMA ToolsKeepBInv ==
  ASSUME BInv, NEW c \in Clients, Tools(c)
  PROVE  BInv'
  <1> DEFINE r == run[c]
             n == Pending(c)
             state == [r.state EXCEPT !.history = Append(@, Replies(n))]
             moved == [r EXCEPT !.step = "generate", !.state = state,
                                !.executed = @ + n, !.steps = @ + 1]
  <1>1. /\ r \in Runs /\ r.state \in States /\ Counted(r) /\ r.step = "tools"
        /\ r.executed \in Nat /\ r.steps \in Nat /\ thread \in States /\ turns \in 0..MaxTurns
    BY DEF BInv, TypeOK, Runs, Tools, At
  <1>2. n \in Nat /\ n > 0 /\ n = Last(r.state.history).calls
        /\ Append(r.state.history, Replies(n)) \in Seq(Messages)
    BY <1>1, PendingTyped, ModelAssumption DEF Pending
  <1>3. /\ state \in States
        /\ state.tool_calls_count = r.state.tool_calls_count
        /\ state.token_count = r.state.token_count
    BY <1>1, <1>2 DEF States
  <1> HIDE DEF state, n
  <1>4. moved \in Runs
    <2>1. [r EXCEPT !.step = "generate", !.state = state] \in Runs
      BY <1>1, <1>3 DEF Runs, LookupNodes
    <2>2. [r EXCEPT !.step = "generate", !.state = state, !.executed = @ + n] \in Runs
      BY <1>2, <2>1, ExecutedTyped
    <2>3. QED
      BY <2>2, StepsTyped
  <1>5. run' = [run EXCEPT ![c] = moved] /\ thread' \in States /\ turns' \in 0..MaxTurns
    BY <1>1, <1>3 DEF Tools, BInv, TypeOK, state, n
  <1>6. /\ moved.step = "generate" /\ moved.state = state /\ moved.executed = r.executed + n
        /\ moved.steps = r.steps + 1
    BY <1>1 DEF Runs
  <1> HIDE DEF moved
  <1>7. Counted(moved)
    <2>1. CallsCounted(moved)
      BY <1>1, <1>2, <1>3, <1>6, BudgetAssumption DEF Counted, CallsCounted, Grading
    <2>2. TokensCounted(moved)
      BY <1>1, <1>3, <1>6 DEF Counted, TokensCounted, Grading
    <2>3. StepsCounted(moved)
      <3>1. r.steps <= 11 + 2 * r.executed
        BY <1>1 DEF Counted, StepsCounted
      <3>2. r.executed \in Nat /\ r.steps \in Nat /\ n \in Nat /\ n > 0
        BY <1>1, <1>2
      <3>3. r.steps + 1 <= 10 + 2 * (r.executed + n)
        BY <3>1, <3>2
      <3>4. moved.steps <= 10 + 2 * moved.executed
        BY <1>6, <3>3
      <3>5. QED
        BY <1>6, <3>4 DEF StepsCounted
    <2>4. QED
      BY <2>1, <2>2, <2>3 DEF Counted
  <1>8. QED
    BY <1>4, <1>5, <1>7, OneMoves

(* The finalizing call is the second one a budget may be exceeded by. *)
LEMMA FinalizeKeepsBInv ==
  ASSUME BInv, NEW c \in Clients, Finalize(c)
  PROVE  BInv'
  <1> DEFINE r == run[c]
             next == LookupEnds(c)
  <1>1. /\ r \in Runs /\ r.state \in States /\ Counted(r) /\ r.step = "finalize"
        /\ r.executed \in Nat /\ r.steps \in Nat
    BY DEF BInv, TypeOK, Runs, Finalize, At
  <1>2. PICK used \in 0..MaxUsage :
          Leave(c, next, [r.state EXCEPT !.history = @ \o <<Replies(Pending(c)), Answer>>,
                                         !.token_count = @ + used])
    BY DEF Finalize
  <1> DEFINE state == [r.state EXCEPT !.history = @ \o <<Replies(Pending(c)), Answer>>,
                                      !.token_count = @ + used]
  <1>3. r.state.history \o <<Replies(Pending(c)), Answer>> \in Seq(Messages)
    BY <1>1, PendingTyped, PlainMessages
  <1>4. state \in States /\ state.token_count = r.state.token_count + used
        /\ r.state.token_count \in Nat /\ used \in Nat /\ used <= MaxUsage
    <2>1. used \in Nat /\ used <= MaxUsage
      BY ModelAssumption
    <2>2. [r.state EXCEPT !.history = @ \o <<Replies(Pending(c)), Answer>>] \in States
      BY <1>1, <1>3, HistoryTyped
    <2>3. state \in States
      BY <2>1, <2>2, TokensTyped
    <2>4. state.token_count = r.state.token_count + used /\ r.state.token_count \in Nat
      BY <1>1 DEF States
    <2>5. QED
      BY <2>1, <2>3, <2>4
  <1>5. Leave(c, next, state)
    BY <1>2
  <1>6. next \in Nodes /\ next \in {"respond", "done"}
    BY DEF LookupEnds, Nodes, RoutedNodes
  <1> HIDE DEF state, next
  <1>7. ASSUME NEW left \in Runs, Moved(left, c, next, state) PROVE Counted(left)
    <2>1. CallsCounted(left)
      BY <1>1, <1>6, <1>7 DEF Moved, Counted, CallsCounted, Grading
    <2>2. TokensCounted(left)
      BY <1>1, <1>4, <1>6, <1>7, BudgetAssumption, ModelAssumption
         DEF Moved, Counted, TokensCounted, Grading
    <2>3. StepsCounted(left)
      BY <1>1, <1>6, <1>7 DEF Moved, Counted, StepsCounted
    <2>4. QED
      BY <2>1, <2>2, <2>3 DEF Counted
  <1>8. QED
    BY <1>4, <1>5, <1>6, <1>7, NodeLeaves

(* Turns begin and end.                                                    *)
LEMMA NoRunTyped == NoState \in States /\ NoRun \in Runs /\ Counted(NoRun)
  <1>1. NoState \in States
    BY DEF NoState, States, RewriteLimit
  <1>2. NoRun \in Runs
    BY <1>1 DEF NoRun, Runs
  <1>3. Counted(NoRun)
    BY BudgetAssumption DEF NoRun, Counted, CallsCounted, TokensCounted, StepsCounted, Grading
  <1>4. QED
    BY <1>1, <1>2, <1>3

(* A turn begins with nothing executed, whatever the thread has counted. *)
LEMMA AskKeepsBInv ==
  ASSUME BInv, NEW c \in Clients, NEW strategy \in Strategies, Ask(c, strategy)
  PROVE  BInv'
  <1>1. PICK kept \in {thread, NoState} :
          LET state == [kept EXCEPT !.history = Append(thread.history, Human)] IN
          /\ run' = [run EXCEPT ![c] =
               [NoRun EXCEPT !.step = IF strategy = "SEARCH" THEN "retrieve_docs" ELSE "resolve",
                             !.strategy = strategy, !.state = state]]
          /\ thread' = state
    BY DEF Ask
  <1> DEFINE state == [kept EXCEPT !.history = Append(thread.history, Human)]
             first == IF strategy = "SEARCH" THEN "retrieve_docs" ELSE "resolve"
             r == [NoRun EXCEPT !.step = first, !.strategy = strategy, !.state = state]
  <1>2. thread \in States /\ kept \in States
    BY <1>1, NoRunTyped DEF BInv, TypeOK
  <1>3. state \in States
    <2>1. Append(thread.history, Human) \in Seq(Messages)
      BY <1>2, PlainMessages DEF States
    <2>2. QED
      BY <1>2, <2>1, HistoryTyped
  <1>4. run' = [run EXCEPT ![c] = r] /\ thread' \in States
    BY <1>1, <1>3
  <1>5. turns' \in 0..MaxTurns
    BY TurnsAssumption DEF Ask, BInv, TypeOK
  <1> HIDE DEF state
  <1>6. r \in Runs
    BY <1>3, StrategiesAssumption DEF NoRun, Runs, LookupNodes, RoutedNodes
  <1>7. Counted(r)
    BY BudgetAssumption DEF NoRun, Counted, CallsCounted, TokensCounted, StepsCounted, Grading
  <1>8. QED
    BY <1>4, <1>5, <1>6, <1>7, OneMoves

(* The counters of every run keep to the bounds of their node: the
   inductive invariant of the budget theorems, for every instance. *)
THEOREM BInvHolds == Spec => []BInv
  <1>1. Init => BInv
    BY NoRunTyped, TurnsAssumption DEF Init, BInv, TypeOK
  <1>2. BInv /\ [Next]_vars => BInv'
    <2> SUFFICES ASSUME BInv, [Next]_vars PROVE BInv'
      OBVIOUS
    <2>1. CASE Next
      <3>1. PICK c \in Clients : \/ \E strategy \in Strategies : Ask(c, strategy)
                                 \/ Node(c) \/ Finish(c) \/ Abort(c)
        BY <2>1 DEF Next
      <3>2. CASE \E strategy \in Strategies : Ask(c, strategy)
        BY <3>2, AskKeepsBInv
      <3>3. CASE Node(c)
        BY <3>3, RoutedKeepsBInv, GradingKeepsBInv, GenerateKeepsBInv, ToolsKeepBInv,
           FinalizeKeepsBInv DEF Node
      <3>4. CASE Finish(c) \/ Abort(c)
        <4>1. /\ run' = [run EXCEPT ![c] = NoRun] /\ thread' \in States
              /\ turns' \in 0..MaxTurns
          BY <3>4 DEF Finish, Abort, BInv, TypeOK
        <4>2. QED
          BY <4>1, NoRunTyped, OneMoves
      <3>5. QED
        BY <3>1, <3>2, <3>3, <3>4
    <2>2. CASE UNCHANGED vars
      BY <2>2 DEF vars, BInv, TypeOK, Counted, CallsCounted, TokensCounted, StepsCounted
    <2>3. QED
      BY <2>1, <2>2
  <1>3. QED
    BY <1>1, <1>2, PTL DEF Spec

(* Every variable of the thread and its runs keeps its type: loop_count    *)
(* never passes the limit, whatever the checkpoint carries over.           *)
THEOREM ThreadTypeCorrect == Spec => []TypeOK
  <1>1. BInv => TypeOK
    BY DEF BInv
  <1>2. QED
    BY <1>1, BInvHolds, PTL

(* No turn executes more tool calls than its budget, for every number of   *)
(* calls the model may ask for at once (generate, decider_from_tools).     *)
THEOREM ToolBudgetHolds == Spec => []ToolBudget
  <1>1. BInv => ToolBudget
    BY DEF BInv, Counted, CallsCounted, ToolBudget
  <1>2. QED
    BY <1>1, BInvHolds, PTL

(* A lookup overruns its token budget by at most two model calls.          *)
THEOREM TokenBudgetHolds == Spec => []TokenBudget
  <1>1. ASSUME BInv, NEW c \in Clients, Counting(c)
        PROVE  run[c].state.token_count <= MaxTokens + 2 * MaxUsage
    <2>1. run[c] \in Runs /\ Counted(run[c]) /\ run[c].state.token_count \in Nat
      BY <1>1 DEF BInv, TypeOK, Runs, States
    <2>2. TokensCounted(run[c])
      BY <2>1 DEF Counted
    <2>3. run[c].is_lookup /\ run[c].step \in Grading \cup {"generate", "tools", "finalize", "respond", "done"}
      BY <1>1 DEF Counting, LookupNodes, Grading
    <2>4. QED
      BY <2>1, <2>2, <2>3, BudgetAssumption, ModelAssumption DEF TokensCounted, Grading
  <1>2. BInv => TokenBudget
    BY <1>1 DEF TokenBudget
  <1>3. QED
    BY <1>2, BInvHolds, PTL

(* Every turn is over after 13 + 2 * MaxToolCalls nodes: the corrective    *)
(* loop and the tool loop both end (decider_from_grade, decider_from_tools).*)
THEOREM TurnsAreBounded == Spec => []TurnBounded
  <1>1. ASSUME BInv, NEW c \in Clients
        PROVE  run[c].steps <= 13 + 2 * MaxToolCalls
    <2>1. /\ run[c] \in Runs /\ CallsCounted(run[c]) /\ StepsCounted(run[c])
          /\ run[c].steps \in Nat /\ run[c].executed \in Nat
          /\ run[c].executed <= MaxToolCalls
          /\ run[c].step \in Nodes /\ run[c].state.loop_count \in 0..RewriteLimit
      BY <1>1 DEF BInv, TypeOK, Runs, States, Counted, CallsCounted, Nodes
    <2>2. run[c].steps <= 13 + 2 * run[c].executed
      BY <2>1 DEF StepsCounted, Nodes, LookupNodes, RoutedNodes, RewriteLimit
    <2>3. QED
      BY <2>1, <2>2, BudgetAssumption
  <1>2. BInv => TurnBounded
    BY <1>1 DEF TurnBounded
  <1>3. QED
    BY <1>2, BInvHolds, PTL

(***************************************************************************)
(* The history, where every turn runs the routed graph.                    *)
(***************************************************************************)

(* The last message asks for tool calls; all requests before it have their *)
(* replies.                                                                *)
Request(m) == m.kind = "ai" /\ m.calls > 0

Open(history) ==
    /\ history # <<>>
    /\ Request(Last(history))
    /\ \A i \in 1..(Len(history) - 1) :
         Request(history[i]) => history[i + 1] = Replies(history[i].calls)

Accepted(r) ==
    /\ r.step # "idle" => r.strategy = "ROUTED"
    /\ IF r.step \in {"tools", "finalize"} THEN Open(r.state.history) ELSE Answered(r.state.history)

HInv == BInv /\ Answered(thread.history) /\ \A c \in Clients : Accepted(run[c])

(* A message that asks for nothing leaves an answered history answered. *)
LEMMA AnsweredMore ==
  ASSUME NEW h \in Seq(Messages), Answered(h), NEW m \in Messages, ~ Request(m)
  PROVE  Answered(Append(h, m))
  BY DEF Answered, Request

(* A request leaves an answered history open: answered but for its last message. *)
LEMMA RequestOpens ==
  ASSUME NEW h \in Seq(Messages), Answered(h), NEW m \in Messages, Request(m)
  PROVE  Open(Append(h, m))
  BY DEF Answered, Request, Open, Last

(* As many replies as the last message asks for close an open history. *)
LEMMA RepliesClose ==
  ASSUME NEW h \in Seq(Messages), Open(h), Replies(Last(h).calls) \in Messages
  PROVE  Answered(Append(h, Replies(Last(h).calls)))
  BY DEF Answered, Request, Open, Last, Replies

(* So do those replies with an answer behind them, as finalize writes them. *)
LEMMA RepliesAndAnswerClose ==
  ASSUME NEW h \in Seq(Messages), Open(h), Replies(Last(h).calls) \in Messages
  PROVE  Answered(h \o <<Replies(Last(h).calls), Answer>>)
  <1>1. Answered(Append(h, Replies(Last(h).calls)))
    BY RepliesClose
  <1>2. Answer \in Messages /\ ~ Request(Answer)
    BY PlainMessages DEF Request, Answer
  <1>3. Append(h, Replies(Last(h).calls)) \in Seq(Messages)
    OBVIOUS
  <1>4. Answered(Append(Append(h, Replies(Last(h).calls)), Answer))
    BY <1>1, <1>2, <1>3, AnsweredMore
  <1>5. h \o <<Replies(Last(h).calls), Answer>> = Append(Append(h, Replies(Last(h).calls)), Answer)
    BY <1>2
  <1>6. QED
    BY <1>4, <1>5

(* HInv is kept by a step that changes one run and checkpoints an answered history. *)
LEMMA OneMovesAccepted ==
  ASSUME HInv, BInv', NEW c \in Clients, NEW r, Accepted(r),
         run' = [run EXCEPT ![c] = r], Answered(thread'.history)
  PROVE  HInv'
  <1>1. ASSUME NEW d \in Clients PROVE Accepted(run'[d])
    BY DEF HInv, BInv, TypeOK
  <1>2. (\A d \in Clients : Accepted(run[d]))'
    BY <1>1 DEF Accepted, Open, Answered, Request, Last
  <1>3. Answered(thread.history)'
    BY DEF Answered
  <1>4. QED
    BY <1>2, <1>3 DEF HInv

(* A node of the routed graph that goes by Leave keeps HInv: only an answered
   history leaves the lookup graph. *)
LEMMA NodeLeavesAccepted ==
  ASSUME HInv, BInv', NEW c \in Clients, NEW next \in Nodes, NEW state \in States,
         Leave(c, next, state), run[c].step # "idle",
         IF next \in {"tools", "finalize"} THEN Open(state.history) ELSE Answered(state.history),
         next \in {"tools", "finalize"} => run[c].step = "generate"
  PROVE  HInv'
  <1>1. run[c] \in Runs /\ Accepted(run[c]) /\ run[c].strategy = "ROUTED"
    BY DEF HInv, BInv, TypeOK, Accepted
  <1>2. run' = [run EXCEPT ![c] = Left(c, next, state)]
    BY DEF Leave, Left, HInv, BInv, TypeOK
  <1>3. Accepted(Left(c, next, state))
    <2>1. /\ Left(c, next, state).step = next /\ Left(c, next, state).state = state
          /\ Left(c, next, state).strategy = "ROUTED"
      BY <1>1 DEF Left, Runs
    <2>2. QED
      BY <2>1 DEF Accepted
  <1>4. Answered(thread'.history)
    <2>1. CASE next \in {"tools", "finalize"}
      BY <1>1, <2>1 DEF Leave, Checkpointed, RoutedNodes, HInv
    <2>2. CASE next \notin {"tools", "finalize"}
      BY <2>2 DEF Leave, HInv
    <2>3. QED
      BY <2>1, <2>2
  <1>5. QED
    BY <1>2, <1>3, <1>4, OneMovesAccepted

(* Nodes that add no message, or the answer of another branch.             *)
LEMMA PlainNodesKeepHInv ==
  ASSUME HInv, BInv', NEW c \in Clients,
         Resolve(c) \/ Route(c) \/ Branch(c) \/ Respond(c)
         \/ Retrieve(c) \/ Grade(c) \/ Rewrite(c) \/ WebSearch(c)
  PROVE  HInv'
  <1> DEFINE r == run[c]
  <1>1. r \in Runs /\ r.state \in States /\ Accepted(r) /\ r.state.history \in Seq(Messages)
    BY DEF HInv, BInv, TypeOK, Runs, States
  <1>2. r.step \in {"resolve", "route", "branch", "respond", "retrieve_docs", "grade_docs",
                    "rewrite_question", "web_searcher"}
    BY DEF Resolve, Route, Branch, Respond, Retrieve, Grade, Rewrite, WebSearch, At
  <1>3. r.step # "idle" /\ Answered(r.state.history) /\ r.strategy = "ROUTED"
    BY <1>1, <1>2 DEF Accepted
  <1>4. CASE Route(c)
    <2>1. PICK is_lookup \in BOOLEAN :
            LET next == IF is_lookup THEN "retrieve_docs" ELSE "branch" IN
            /\ run' = [run EXCEPT ![c].step = next, ![c].is_lookup = is_lookup, ![c].steps = @ + 1]
            /\ thread' = run[c].state
      BY <1>4 DEF Route
    <2> DEFINE next == IF is_lookup THEN "retrieve_docs" ELSE "branch"
               moved == [r EXCEPT !.step = next, !.is_lookup = is_lookup, !.steps = @ + 1]
    <2>2. run' = [run EXCEPT ![c] = moved]
      BY <1>1, <2>1 DEF HInv, BInv, TypeOK
    <2>3. moved.step = next /\ moved.state = r.state /\ moved.strategy = r.strategy
      BY <1>1 DEF Runs
    <2>4. Accepted(moved)
      BY <1>3, <2>3 DEF Accepted
    <2>5. QED
      BY <1>3, <2>1, <2>2, <2>4, OneMovesAccepted
  <1>5. ASSUME NEW next \in Nodes, NEW state \in States,
               Leave(c, next, state), next \notin {"tools", "finalize"},
               state.history = r.state.history \/ state.history = Append(r.state.history, Answer)
        PROVE  HInv'
    <2>1. Answer \in Messages /\ ~ Request(Answer)
      BY PlainMessages DEF Request, Answer
    <2>2. Answered(state.history)
      BY <1>1, <1>3, <1>5, <2>1, AnsweredMore
    <2>3. QED
      BY <1>3, <1>5, <2>2, NodeLeavesAccepted
  <1>6. CASE Resolve(c) \/ WebSearch(c)
    <2>1. "route" \in Nodes /\ "grade_docs" \in Nodes
      BY DEF Nodes, LookupNodes, RoutedNodes
    <2>2. Leave(c, "route", r.state) \/ Leave(c, "grade_docs", r.state)
      BY <1>6 DEF Resolve, WebSearch
    <2>3. QED
      BY <1>1, <1>5, <2>1, <2>2
  <1>7. CASE Branch(c)
    <2>1. PICK used \in BranchUsage \cup {r.state.token_count} :
            Leave(c, "respond", [r.state EXCEPT !.token_count = used])
      BY <1>7 DEF Branch
    <2> DEFINE state == [r.state EXCEPT !.token_count = used]
    <2>2. state \in States /\ state.history = r.state.history
      BY <1>1, ModelAssumption DEF States
    <2>3. Leave(c, "respond", state) /\ "respond" \in Nodes
      BY <2>1 DEF Nodes, RoutedNodes
    <2> HIDE DEF state
    <2>4. QED
      BY <1>5, <2>2, <2>3
  <1>8. CASE Respond(c)
    <2> DEFINE appended == [r.state EXCEPT !.history = Append(@, Answer)]
    <2>1. appended \in States
      <3>1. Append(r.state.history, Answer) \in Seq(Messages)
        BY <1>1, PlainMessages
      <3>2. QED
        BY <1>1, <3>1, HistoryTyped
    <2>2. appended.history = Append(r.state.history, Answer)
      BY <1>1 DEF States
    <2>3. Leave(c, "done", r.state) \/ Leave(c, "done", appended)
      BY <1>8 DEF Respond
    <2>4. "done" \in Nodes
      BY DEF Nodes
    <2> HIDE DEF appended
    <2>5. QED
      BY <1>1, <1>5, <2>1, <2>2, <2>3, <2>4
  <1>9. CASE Retrieve(c)
    <2> DEFINE state == [r.state EXCEPT !.tool_calls_count = 0, !.token_count = 0]
    <2>1. state \in States /\ state.history = r.state.history
      BY <1>1 DEF States
    <2>2. Leave(c, "grade_docs", state) /\ "grade_docs" \in Nodes
      BY <1>9 DEF Retrieve, Nodes, LookupNodes
    <2> HIDE DEF state
    <2>3. QED
      BY <1>5, <2>1, <2>2
  <1>10. CASE Grade(c)
    <2>1. PICK next \in {"generate", "rewrite_question"} : Leave(c, next, r.state)
      BY <1>10 DEF Grade
    <2>2. next \in Nodes
      BY DEF Nodes, LookupNodes
    <2>3. QED
      BY <1>1, <1>5, <2>1, <2>2
  <1>11. CASE Rewrite(c)
    <2> DEFINE state == [r.state EXCEPT !.loop_count = @ + 1]
    <2>1. r.step = "rewrite_question" /\ r.state.loop_count < RewriteLimit
      BY <1>11 DEF Rewrite, At, HInv, BInv, Counted, StepsCounted
    <2>2. state \in States /\ state.history = r.state.history
      BY <1>1, <2>1 DEF States, RewriteLimit
    <2>3. Leave(c, "web_searcher", state) /\ "web_searcher" \in Nodes
      BY <1>11 DEF Rewrite, Nodes, LookupNodes
    <2> HIDE DEF state
    <2>4. QED
      BY <1>5, <2>2, <2>3
  <1>12. QED
    BY <1>4, <1>6, <1>7, <1>8, <1>9, <1>10, <1>11

(* A generation that asks for tools leaves an open history, and is not checkpointed. *)
LEMMA GenerateKeepsHInv ==
  ASSUME HInv, BInv', NEW c \in Clients, Generate(c)
  PROVE  HInv'
  <1> DEFINE r == run[c]
  <1>1. /\ r \in Runs /\ r.state \in States /\ r.state.history \in Seq(Messages)
        /\ r.step = "generate" /\ Answered(r.state.history)
    BY DEF HInv, BInv, TypeOK, Runs, States, Accepted, Generate, At
  <1>2. PICK requested \in 0..MaxRequests, used \in 0..MaxUsage :
          LET state == [r.state EXCEPT !.history = Append(@, Requests(requested)),
                                       !.tool_calls_count = @ + requested,
                                       !.token_count = @ + used]
          IN Leave(c, AfterGenerate(c, requested, state), state)
    BY DEF Generate
  <1> DEFINE state == [r.state EXCEPT !.history = Append(@, Requests(requested)),
                                      !.tool_calls_count = @ + requested,
                                      !.token_count = @ + used]
             next == AfterGenerate(c, requested, state)
  <1>3. Leave(c, next, state)
    BY <1>2
  <1>4. state \in States /\ state.history = Append(r.state.history, Requests(requested))
    <2>1. requested \in Nat /\ used \in Nat /\ Requests(requested) \in Messages
      BY CallMessages, ModelAssumption
    <2>2. state = Generated(r.state, Requests(requested), requested, used)
      BY DEF Generated
    <2>3. /\ Generated(r.state, Requests(requested), requested, used) \in States
          /\ Generated(r.state, Requests(requested), requested, used).history
               = Append(r.state.history, Requests(requested))
          /\ Generated(r.state, Requests(requested), requested, used).tool_calls_count
               = r.state.tool_calls_count + requested
          /\ Generated(r.state, Requests(requested), requested, used).token_count
               = r.state.token_count + used
      BY <1>1, <2>1, GeneratedState
    <2> HIDE DEF state
    <2>4. QED
      BY <2>2, <2>3
  <1>5. /\ next \in Nodes
        /\ requested = 0 => next \in {"done", "respond"}
        /\ requested # 0 => next \in {"tools", "finalize"}
    BY DEF AfterGenerate, LookupEnds, Nodes, LookupNodes, RoutedNodes
  <1> HIDE DEF state, next
  <1>6. CASE requested = 0
    <2>1. Requests(requested) \in Messages /\ ~ Request(Requests(requested))
      BY <1>6, CallMessages DEF Request
    <2>2. Answered(state.history)
      BY <1>1, <1>4, <2>1, AnsweredMore
    <2>3. QED
      BY <1>1, <1>3, <1>4, <1>5, <1>6, <2>2, NodeLeavesAccepted
  <1>7. CASE requested # 0
    <2>1. Requests(requested) \in Messages /\ Request(Requests(requested))
      BY <1>7, CallMessages, ModelAssumption DEF Request, Requests
    <2>2. Open(state.history)
      BY <1>1, <1>4, <2>1, RequestOpens
    <2>3. QED
      BY <1>1, <1>3, <1>4, <1>5, <1>7, <2>2, NodeLeavesAccepted
  <1>8. QED
    BY <1>6, <1>7

(* tools and finalize answer what is pending. *)
LEMMA RepliesKeepHInv ==
  ASSUME HInv, BInv', NEW c \in Clients, Tools(c) \/ Finalize(c)
  PROVE  HInv'
  <1> DEFINE r == run[c]
             h == r.state.history
  <1>1. /\ r \in Runs /\ r.state \in States /\ h \in Seq(Messages)
        /\ r.step \in {"tools", "finalize"} /\ r.strategy = "ROUTED" /\ Open(h)
    BY DEF HInv, BInv, TypeOK, Runs, States, Accepted, Tools, Finalize, At
  <1>2. Pending(c) = Last(h).calls /\ Replies(Last(h).calls) \in Messages
    <2>1. BInv
      BY DEF HInv
    <2>2. QED
      BY <1>1, <2>1, PendingTyped DEF Pending
  <1>3. CASE Tools(c)
    <2> DEFINE state == [r.state EXCEPT !.history = Append(@, Replies(Pending(c)))]
               moved == [r EXCEPT !.step = "generate", !.state = state,
                                  !.executed = @ + Pending(c), !.steps = @ + 1]
    <2>1. state.history = Append(h, Replies(Last(h).calls))
      BY <1>1, <1>2 DEF States
    <2>2. Answered(state.history)
      BY <1>1, <1>2, <2>1, RepliesClose
    <2>3. run' = [run EXCEPT ![c] = moved]
      BY <1>1, <1>3 DEF Tools, HInv, BInv, TypeOK
    <2>4. thread' = thread \/ thread' = state
      BY <1>3 DEF Tools
    <2> HIDE DEF state
    <2>5. moved.step = "generate" /\ moved.state = state /\ moved.strategy = "ROUTED"
      BY <1>1 DEF Runs
    <2> HIDE DEF moved
    <2>6. Accepted(moved)
      BY <2>2, <2>5 DEF Accepted
    <2>7. Answered(thread'.history)
      BY <2>2, <2>4 DEF HInv
    <2>8. QED
      BY <2>3, <2>6, <2>7, OneMovesAccepted
  <1>4. CASE Finalize(c)
    <2>1. PICK used \in 0..MaxUsage :
            Leave(c, LookupEnds(c), [r.state EXCEPT !.history = @ \o <<Replies(Pending(c)), Answer>>,
                                                    !.token_count = @ + used])
      BY <1>4 DEF Finalize
    <2> DEFINE state == [r.state EXCEPT !.history = @ \o <<Replies(Pending(c)), Answer>>,
                                        !.token_count = @ + used]
    <2>2. h \o <<Replies(Pending(c)), Answer>> \in Seq(Messages)
      BY <1>1, <1>2, PlainMessages
    <2>3. state \in States
      <3>1. [r.state EXCEPT !.history = @ \o <<Replies(Pending(c)), Answer>>] \in States
        BY <1>1, <2>2, HistoryTyped
      <3>2. used \in Nat
        BY ModelAssumption
      <3>3. QED
        BY <3>1, <3>2, TokensTyped
    <2>4. state.history = h \o <<Replies(Last(h).calls), Answer>>
      BY <1>1, <1>2 DEF States
    <2>5. Answered(state.history)
      BY <1>1, <1>2, <2>4, RepliesAndAnswerClose
    <2>6. Leave(c, LookupEnds(c), state)
      BY <2>1
    <2>7. LookupEnds(c) \in Nodes /\ LookupEnds(c) \notin {"tools", "finalize"}
      BY DEF LookupEnds, Nodes, RoutedNodes
    <2> HIDE DEF state
    <2>8. QED
      BY <1>1, <2>3, <2>5, <2>6, <2>7, NodeLeavesAccepted
  <1>5. QED
    BY <1>3, <1>4

(* A turn begins on the checkpointed history, which is answered. *)
LEMMA AskKeepsHInv ==
  ASSUME HInv, BInv', NEW c \in Clients, Ask(c, "ROUTED")
  PROVE  HInv'
  <1>1. PICK kept \in {thread, NoState} :
          LET state == [kept EXCEPT !.history = Append(thread.history, Human)] IN
          /\ run' = [run EXCEPT ![c] = [NoRun EXCEPT !.step = "resolve", !.strategy = "ROUTED",
                                                     !.state = state]]
          /\ thread' = state
    BY DEF Ask
  <1> DEFINE state == [kept EXCEPT !.history = Append(thread.history, Human)]
             r == [NoRun EXCEPT !.step = "resolve", !.strategy = "ROUTED", !.state = state]
  <1>2. thread.history \in Seq(Messages) /\ Answered(thread.history) /\ kept \in States
    BY <1>1, NoRunTyped DEF HInv, BInv, TypeOK, States
  <1>3. state.history = Append(thread.history, Human)
    BY <1>2 DEF States
  <1>4. Human \in Messages /\ ~ Request(Human)
    BY PlainMessages DEF Request, Human
  <1>5. Answered(state.history)
    BY <1>2, <1>3, <1>4, AnsweredMore
  <1>6. run' = [run EXCEPT ![c] = r] /\ thread' = state
    BY <1>1
  <1> HIDE DEF state
  <1>7. Accepted(r)
    BY <1>5 DEF Accepted, NoRun
  <1>8. QED
    BY <1>5, <1>6, <1>7, OneMovesAccepted

(* A thread and its runs begin with an answered history. *)
LEMMA NoRunAccepted == Answered(<<>>) /\ NoState.history = <<>> /\ Accepted(NoRun)
  BY DEF Answered, NoState, NoRun, Accepted

(* HInv is kept as long as every turn that begins is one of the routed graph. *)
LEMMA NextKeepsHInv ==
  ASSUME HInv, BInv', [Next]_vars,
         \A c \in Clients, strategy \in Strategies : Ask(c, strategy) => strategy = "ROUTED"
  PROVE  HInv'
  <1>1. CASE Next
    <2>1. PICK c \in Clients : \/ \E strategy \in Strategies : Ask(c, strategy)
                               \/ Node(c) \/ Finish(c) \/ Abort(c)
      BY <1>1 DEF Next
    <2>2. CASE \E strategy \in Strategies : Ask(c, strategy)
      BY <2>2, AskKeepsHInv
    <2>3. CASE Node(c)
      BY <2>3, PlainNodesKeepHInv, GenerateKeepsHInv, RepliesKeepHInv DEF Node
    <2>4. CASE Finish(c) \/ Abort(c)
      <3>1. run' = [run EXCEPT ![c] = NoRun] /\ Answered(thread'.history)
        BY <2>4 DEF Finish, Abort, HInv
      <3>2. QED
        BY <3>1, NoRunAccepted, OneMovesAccepted
    <2>5. QED
      BY <2>1, <2>2, <2>3, <2>4
  <1>2. CASE UNCHANGED vars
    BY <1>2 DEF vars, HInv, Accepted, Open, Answered, Request, Last
  <1>3. QED
    BY <1>1, <1>2

(* Where only the routed graph runs, the model is always sent a history    *)
(* that every request for tool calls is answered in, although turns fail,  *)
(* are cut off, and run at the same time: the lookup graph hands over its  *)
(* messages only when it has ended (lookup_rag.py, finalizer.py).          *)
THEOREM RoutedHistoryAccepted ==
  ASSUME Strategies \subseteq {"ROUTED"}
  PROVE  Spec => []HistoryAccepted
  <1>1. Init /\ BInv => HInv
    BY NoRunAccepted DEF Init, HInv
  <1>2. HInv /\ BInv' /\ [Next]_vars => HInv'
    BY NextKeepsHInv
  <1>3. HInv => HistoryAccepted
    BY DEF HInv, Accepted, HistoryAccepted, At
  <1>4. QED
    BY <1>1, <1>2, <1>3, BInvHolds, PTL DEF Spec

(***************************************************************************)
(* The last message of a completed turn.                                   *)
(***************************************************************************)

(* A lookup has its answer when it ends; the other branches get theirs     *)
(* from respond.                                                           *)
Recorded(r) ==
    (r.step = "done" \/ (r.step = "respond" /\ r.is_lookup)) =>
      r.state.history # <<>> /\ Last(r.state.history) = Answer

RInv == BInv /\ \A c \in Clients : Recorded(run[c])

(* RInv is kept by a step that leaves one run recorded. *)
LEMMA OneMovesRecorded ==
  ASSUME RInv, BInv', NEW c \in Clients, NEW r, Recorded(r), run' = [run EXCEPT ![c] = r]
  PROVE  RInv'
  <1>1. ASSUME NEW d \in Clients PROVE Recorded(run'[d])
    BY DEF RInv, BInv, TypeOK
  <1>2. (\A d \in Clients : Recorded(run[d]))'
    BY <1>1 DEF Recorded, Last, Answer
  <1>3. QED
    BY <1>2 DEF RInv

(* A node that does not end a turn's messages owes no answer. *)
LEMMA NodeLeavesRecorded ==
  ASSUME RInv, BInv', NEW c \in Clients, NEW next, NEW state, Leave(c, next, state),
         (next = "done" \/ (next = "respond" /\ run[c].is_lookup)) =>
           state.history # <<>> /\ Last(state.history) = Answer
  PROVE  RInv'
  <1>1. run[c] \in Runs
    BY DEF RInv, BInv, TypeOK
  <1>2. run' = [run EXCEPT ![c] = Left(c, next, state)]
    BY DEF Leave, Left, RInv, BInv, TypeOK
  <1>3. /\ Left(c, next, state).step = next /\ Left(c, next, state).state = state
        /\ Left(c, next, state).is_lookup = run[c].is_lookup
    BY <1>1 DEF Left, Runs
  <1>4. Recorded(Left(c, next, state))
    BY <1>3 DEF Recorded
  <1>5. QED
    BY <1>2, <1>4, OneMovesRecorded

(* A generation that asks for nothing is the answer; respond appends one   *)
(* where the lookup graph did not run.                                     *)
LEMMA AnsweringKeepsRInv ==
  ASSUME RInv, BInv', NEW c \in Clients, Respond(c) \/ Generate(c) \/ Finalize(c)
  PROVE  RInv'
  <1> DEFINE r == run[c]
             h == r.state.history
  <1>1. r \in Runs /\ r.state \in States /\ h \in Seq(Messages) /\ Recorded(r) /\ BInv
    BY DEF RInv, BInv, TypeOK, Runs, States
  <1>2. Answer \in Messages
    BY PlainMessages
  <1>3. CASE Respond(c)
    <2>1. r.step = "respond"
      BY <1>3 DEF Respond, At
    <2>2. CASE r.is_lookup
      <3>1. Leave(c, "done", r.state)
        BY <1>3, <2>2 DEF Respond
      <3>2. h # <<>> /\ Last(h) = Answer
        BY <1>1, <2>1, <2>2 DEF Recorded
      <3>3. QED
        BY <3>1, <3>2, NodeLeavesRecorded
    <2>3. CASE ~ r.is_lookup
      <3> DEFINE state == [r.state EXCEPT !.history = Append(@, Answer)]
      <3>1. Leave(c, "done", state)
        BY <1>3, <2>3 DEF Respond
      <3>2. state.history = Append(h, Answer)
        BY <1>1 DEF States
      <3>3. state.history # <<>> /\ Last(state.history) = Answer
        BY <1>1, <1>2, <3>2, LastAppended
      <3> HIDE DEF state
      <3>4. QED
        BY <3>1, <3>3, NodeLeavesRecorded
    <2>4. QED
      BY <2>2, <2>3
  <1>4. CASE Generate(c)
    <2>1. PICK requested \in 0..MaxRequests, used \in 0..MaxUsage :
            LET state == [r.state EXCEPT !.history = Append(@, Requests(requested)),
                                         !.tool_calls_count = @ + requested,
                                         !.token_count = @ + used]
            IN Leave(c, AfterGenerate(c, requested, state), state)
      BY <1>4 DEF Generate
    <2> DEFINE state == [r.state EXCEPT !.history = Append(@, Requests(requested)),
                                        !.tool_calls_count = @ + requested,
                                        !.token_count = @ + used]
               next == AfterGenerate(c, requested, state)
    <2>2. Leave(c, next, state)
      BY <2>1
    <2>3. Requests(requested) \in Messages
      BY CallMessages
    <2>4. state.history = Append(h, Requests(requested))
      <3>1. state = Generated(r.state, Requests(requested), requested, used)
        BY DEF Generated
      <3>2. requested \in Nat /\ used \in Nat
        BY ModelAssumption
      <3> HIDE DEF state
      <3>3. QED
        BY <1>1, <2>3, <3>1, <3>2, GeneratedState
    <2>5. state.history # <<>> /\ Last(state.history) = Requests(requested)
      BY <1>1, <2>3, <2>4, LastAppended
    <2>6. next \in {"done", "respond"} => requested = 0
      BY DEF AfterGenerate
    <2>7. requested = 0 => Requests(requested) = Answer
      BY DEF Requests, Answer
    <2> HIDE DEF state, next
    <2>8. QED
      BY <2>2, <2>5, <2>6, <2>7, NodeLeavesRecorded
  <1>5. CASE Finalize(c)
    <2>1. PICK used \in 0..MaxUsage :
            Leave(c, LookupEnds(c), [r.state EXCEPT !.history = @ \o <<Replies(Pending(c)), Answer>>,
                                                    !.token_count = @ + used])
      BY <1>5 DEF Finalize
    <2> DEFINE state == [r.state EXCEPT !.history = @ \o <<Replies(Pending(c)), Answer>>,
                                        !.token_count = @ + used]
    <2>2. Leave(c, LookupEnds(c), state)
      BY <2>1
    <2>3. Replies(Pending(c)) \in Messages
      BY <1>1, <1>5, PendingTyped DEF Finalize, At
    <2>4. state.history = h \o <<Replies(Pending(c)), Answer>>
      BY <1>1 DEF States
    <2>5. h \o <<Replies(Pending(c)), Answer>> = Append(Append(h, Replies(Pending(c))), Answer)
      <3>1. PICK m \in Messages : m = Replies(Pending(c))
        BY <2>3
      <3>2. PICK g \in Seq(Messages) : g = h
        BY <1>1
      <3>3. g \o <<m, Answer>> = Append(Append(g, m), Answer)
        BY <1>2, TwoAppended
      <3> HIDE DEF h, state
      <3>4. QED
        BY <3>1, <3>2, <3>3
    <2>6. Append(h, Replies(Pending(c))) \in Seq(Messages)
      BY <1>1, <2>3
    <2>7. state.history # <<>> /\ Last(state.history) = Answer
      <3>1. PICK g \in Seq(Messages) : g = Append(h, Replies(Pending(c)))
        BY <2>6
      <3>2. Append(g, Answer) # <<>> /\ Last(Append(g, Answer)) = Answer
        BY <1>2, LastAppended
      <3>3. state.history = Append(g, Answer)
        BY <2>4, <2>5, <3>1
      <3> HIDE DEF state
      <3>4. QED
        BY <3>2, <3>3
    <2> HIDE DEF state
    <2>8. QED
      BY <2>2, <2>7, NodeLeavesRecorded
  <1>6. QED
    BY <1>3, <1>4, <1>5

(* Every other step leaves a run from which no answer is expected yet. *)
LEMMA OthersKeepRInv ==
  ASSUME RInv, BInv', NEW c \in Clients,
         \/ Resolve(c) \/ Route(c) \/ Branch(c) \/ Retrieve(c) \/ Grade(c) \/ Rewrite(c)
         \/ WebSearch(c) \/ Tools(c) \/ Finish(c) \/ Abort(c)
         \/ \E strategy \in Strategies : Ask(c, strategy)
  PROVE  RInv'
  <1> DEFINE r == run[c]
  <1>1. r \in Runs /\ Counted(r)
    BY DEF RInv, BInv, TypeOK
  <1>2. CASE Branch(c)
    <2>1. ~ r.is_lookup
      BY <1>1, <1>2 DEF Branch, At, Counted, TokensCounted
    <2>2. PICK state : Leave(c, "respond", state)
      BY <1>2 DEF Branch
    <2>3. QED
      BY <2>1, <2>2, NodeLeavesRecorded
  <1>3. CASE Resolve(c) \/ Retrieve(c) \/ Grade(c) \/ Rewrite(c) \/ WebSearch(c)
    <2>1. PICK next, state : Leave(c, next, state) /\ next \notin {"done", "respond"}
      BY <1>3 DEF Resolve, Retrieve, Grade, Rewrite, WebSearch
    <2>2. QED
      BY <2>1, NodeLeavesRecorded
  <1>4. CASE Route(c) \/ Tools(c) \/ Finish(c) \/ Abort(c) \/ \E strategy \in Strategies : Ask(c, strategy)
    <2>1. \E new : run' = [run EXCEPT ![c] = new] /\ new.step \notin {"done", "respond"}
      <3>1. CASE Route(c)
        <4>1. PICK is_lookup \in BOOLEAN :
                run' = [run EXCEPT ![c].step = IF is_lookup THEN "retrieve_docs" ELSE "branch",
                                   ![c].is_lookup = is_lookup, ![c].steps = @ + 1]
          BY <3>1 DEF Route
        <4> DEFINE new == [r EXCEPT !.step = IF is_lookup THEN "retrieve_docs" ELSE "branch",
                                    !.is_lookup = is_lookup, !.steps = @ + 1]
        <4>2. run' = [run EXCEPT ![c] = new]
          BY <4>1 DEF RInv, BInv, TypeOK
        <4>3. new.step \notin {"done", "respond"}
          BY <1>1 DEF Runs
        <4>4. QED
          BY <4>2, <4>3
      <3>2. CASE Tools(c)
        <4> DEFINE state == [r.state EXCEPT !.history = Append(@, Replies(Pending(c)))]
                   new == [r EXCEPT !.step = "generate", !.state = state,
                                    !.executed = @ + Pending(c), !.steps = @ + 1]
        <4>1. run' = [run EXCEPT ![c] = new]
          BY <3>2 DEF Tools, RInv, BInv, TypeOK
        <4>2. new.step \notin {"done", "respond"}
          BY <1>1 DEF Runs
        <4>3. QED
          BY <4>1, <4>2
      <3>3. CASE Finish(c) \/ Abort(c)
        <4>1. run' = [run EXCEPT ![c] = NoRun]
          BY <3>3 DEF Finish, Abort
        <4>2. NoRun.step \notin {"done", "respond"}
          BY DEF NoRun
        <4>3. QED
          BY <4>1, <4>2
      <3>4. ASSUME NEW strategy \in Strategies, Ask(c, strategy)
            PROVE  \E new : run' = [run EXCEPT ![c] = new] /\ new.step \notin {"done", "respond"}
        <4>1. PICK state : run' = [run EXCEPT ![c] =
                [NoRun EXCEPT !.step = IF strategy = "SEARCH" THEN "retrieve_docs" ELSE "resolve",
                              !.strategy = strategy, !.state = state]]
          BY <3>4 DEF Ask
        <4>2. [NoRun EXCEPT !.step = IF strategy = "SEARCH" THEN "retrieve_docs" ELSE "resolve",
                            !.strategy = strategy, !.state = state].step \notin {"done", "respond"}
          BY DEF NoRun
        <4>3. QED
          BY <4>1, <4>2
      <3>5. QED
        BY <1>4, <3>1, <3>2, <3>3, <3>4
    <2>2. PICK new : run' = [run EXCEPT ![c] = new] /\ new.step \notin {"done", "respond"}
      BY <2>1
    <2>3. Recorded(new)
      BY <2>2 DEF Recorded
    <2>4. QED
      BY <2>2, <2>3, OneMovesRecorded
  <1>5. QED
    BY <1>2, <1>3, <1>4

(* Whatever strategy and branch a turn runs, and whether its tool budget   *)
(* lets the model finish or not, a turn that completes has its answer as   *)
(* the last message: the history the next turn continues never ends in a   *)
(* request (respond_node, finalizer.py).                                   *)
THEOREM AnswersAreRecorded == Spec => []AnswerRecorded
  <1>1. Init /\ BInv => RInv
    BY DEF Init, NoRun, RInv, Recorded
  <1>2. RInv /\ BInv' /\ [Next]_vars => RInv'
    <2> SUFFICES ASSUME RInv, BInv', [Next]_vars PROVE RInv'
      OBVIOUS
    <2>1. CASE Next
      <3>1. PICK c \in Clients : \/ \E strategy \in Strategies : Ask(c, strategy)
                                 \/ Node(c) \/ Finish(c) \/ Abort(c)
        BY <2>1 DEF Next
      <3>2. QED
        BY <3>1, AnsweringKeepsRInv, OthersKeepRInv DEF Node
    <2>2. CASE UNCHANGED vars
      BY <2>2 DEF vars, RInv, Recorded, Last, Answer
    <2>3. QED
      BY <2>1, <2>2
  <1>3. RInv => AnswerRecorded
    BY DEF RInv, Recorded, AnswerRecorded, At
  <1>4. QED
    BY <1>1, <1>2, <1>3, BInvHolds, PTL DEF Spec

(***************************************************************************)
(* Threads whose turns overlap or follow each other (MCAgentThread).       *)
(***************************************************************************)

(* Such a thread is a thread: what is proved of Spec holds of it. *)
LEMMA ThreadsRun == ThreadSpec => Spec
  <1>1. ThreadInit => Init
    BY DEF ThreadInit
  <1>2. [ThreadNext]_threadVars => [Next]_vars
    BY DEF ThreadNext, threadVars, vars
  <1>3. QED
    BY <1>1, <1>2, PTL DEF ThreadSpec, Spec

(* While turns of the routed graph overlap, which a client may make them   *)
(* do and nothing in the code prevents, the model is sent no history it    *)
(* rejects: a turn that another one overtakes leaves nothing half done in  *)
(* the thread.  RoutedHistoryAccepted says the same of any number of tool  *)
(* calls at a time.                                                        *)
THEOREM OverlappingHistoryAccepted == ThreadSpec => []RoutedHistoryIsAccepted
  <1>1. ThreadInit /\ BInv => (overlapping => HInv)
    BY NoRunAccepted DEF ThreadInit, Init, HInv
  <1>2. (overlapping => HInv) /\ BInv' /\ [ThreadNext]_threadVars => (overlapping => HInv)'
    <2> SUFFICES ASSUME overlapping => HInv, BInv', [ThreadNext]_threadVars, overlapping'
                 PROVE  HInv'
      OBVIOUS
    <2>1. HInv
      BY DEF ThreadNext, threadVars
    <2>2. [Next]_vars
      BY DEF ThreadNext, threadVars, vars
    <2>3. CASE ThreadNext
      <3>1. Routed'
        BY <2>3 DEF ThreadNext
      <3>2. ASSUME NEW c \in Clients, NEW strategy \in Strategies, Ask(c, strategy)
            PROVE  strategy = "ROUTED"
        <4>1. PICK state : run' = [run EXCEPT ![c] =
                [NoRun EXCEPT !.step = IF strategy = "SEARCH" THEN "retrieve_docs" ELSE "resolve",
                              !.strategy = strategy, !.state = state]]
          BY <3>2 DEF Ask
        <4>2. run'[c].step # "idle" /\ run'[c].strategy = strategy
          BY <2>1, <4>1 DEF NoRun, HInv, BInv, TypeOK
        <4>3. QED
          BY <3>1, <4>2 DEF Routed, At
      <3>3. QED
        BY <2>1, <2>2, <3>2, NextKeepsHInv
    <2>4. CASE UNCHANGED threadVars
      BY <2>1, <2>4 DEF threadVars, vars, HInv, Accepted, Open, Answered, Request, Last
    <2>5. QED
      BY <2>3, <2>4
  <1>3. (overlapping => HInv) => RoutedHistoryIsAccepted
    BY DEF HInv, Accepted, HistoryAccepted, At, RoutedHistoryIsAccepted
  <1>4. QED
    BY <1>1, <1>2, <1>3, ThreadsRun, BInvHolds, PTL DEF ThreadSpec

(* What a step of a turn does to the history: the run's copy only grows,   *)
(* and the thread stays or becomes that copy.                              *)
Grown(c) ==
    /\ run' = [run EXCEPT ![c] = run'[c]]
    /\ run'[c].state.history \in Seq(Messages)
    /\ IsPrefix(run[c].state.history, run'[c].state.history)
    /\ thread' = thread \/ thread' = run'[c].state

(* A node that goes by Leave with a history that has grown. *)
LEMMA LeaveGrows ==
  ASSUME BInv, NEW c \in Clients, NEW next, NEW state, Leave(c, next, state),
         \/ state.history = run[c].state.history
         \/ \E more \in Seq(Messages) : state.history = run[c].state.history \o more
  PROVE  Grown(c)
  <1>1. run[c] \in Runs /\ run[c].state.history \in Seq(Messages) /\ run \in [Clients -> Runs]
    BY DEF BInv, TypeOK, Runs, States
  <1>2. run' = [run EXCEPT ![c] = Left(c, next, state)]
    BY <1>1 DEF Leave, Left
  <1>3. Left(c, next, state).state = state
    BY <1>1 DEF Left, Runs
  <1>4. run'[c] = Left(c, next, state)
    BY <1>1, <1>2
  <1>5. state.history \in Seq(Messages) /\ IsPrefix(run[c].state.history, state.history)
    <2>1. CASE state.history = run[c].state.history
      BY <1>1, <2>1, PrefixExtends
    <2>2. ASSUME NEW more \in Seq(Messages), state.history = run[c].state.history \o more
          PROVE  state.history \in Seq(Messages) /\ IsPrefix(run[c].state.history, state.history)
      BY <1>1, <2>2, PrefixExtends, ConcatProperties
    <2>3. QED
      BY <2>1, <2>2
  <1>6. thread' = thread \/ thread' = state
    BY DEF Leave
  <1>7. QED
    BY <1>2, <1>3, <1>4, <1>5, <1>6 DEF Grown

(* Every node lets the history of its run grow or leaves it. *)
LEMMA NodeGrows ==
  ASSUME BInv, NEW c \in Clients, Node(c)
  PROVE  Grown(c)
  <1> DEFINE r == run[c]
             h == r.state.history
  <1>1. r \in Runs /\ r.state \in States /\ h \in Seq(Messages) /\ run \in [Clients -> Runs]
    BY DEF BInv, TypeOK, Runs, States
  <1>2. ASSUME NEW m \in Messages PROVE <<m>> \in Seq(Messages) /\ Append(h, m) = h \o <<m>>
    BY <1>1
  <1>3. CASE Resolve(c) \/ Branch(c) \/ Retrieve(c) \/ Grade(c) \/ Rewrite(c) \/ WebSearch(c)
    <2>1. \E next, state : Leave(c, next, state) /\ state.history = h
      <3>1. CASE Resolve(c) \/ Grade(c) \/ WebSearch(c)
        BY <3>1 DEF Resolve, Grade, WebSearch
      <3>2. CASE Branch(c)
        <4>1. PICK used : Leave(c, "respond", [r.state EXCEPT !.token_count = used])
          BY <3>2 DEF Branch
        <4>2. [r.state EXCEPT !.token_count = used].history = h
          BY <1>1 DEF States
        <4>3. QED
          BY <4>1, <4>2
      <3>3. CASE Retrieve(c)
        <4>1. Leave(c, "grade_docs", [r.state EXCEPT !.tool_calls_count = 0, !.token_count = 0])
          BY <3>3 DEF Retrieve
        <4>2. [r.state EXCEPT !.tool_calls_count = 0, !.token_count = 0].history = h
          BY <1>1 DEF States
        <4>3. QED
          BY <4>1, <4>2
      <3>4. CASE Rewrite(c)
        <4>1. Leave(c, "web_searcher", [r.state EXCEPT !.loop_count = @ + 1])
          BY <3>4 DEF Rewrite
        <4>2. [r.state EXCEPT !.loop_count = @ + 1].history = h
          BY <1>1 DEF States
        <4>3. QED
          BY <4>1, <4>2
      <3>5. QED
        BY <1>3, <3>1, <3>2, <3>3, <3>4
    <2>2. PICK next, state : Leave(c, next, state) /\ state.history = h
      BY <2>1
    <2>3. QED
      BY <2>2, LeaveGrows
  <1>4. CASE Respond(c)
    <2>1. PICK state : Leave(c, "done", state) /\ state \in {r.state, [r.state EXCEPT !.history = Append(@, Answer)]}
      BY <1>4 DEF Respond
    <2>2. [r.state EXCEPT !.history = Append(@, Answer)].history = Append(h, Answer)
      BY <1>1 DEF States
    <2>3. Append(h, Answer) = h \o <<Answer>> /\ <<Answer>> \in Seq(Messages)
      BY <1>2, PlainMessages
    <2>4. state.history = h \/ \E more \in Seq(Messages) : state.history = h \o more
      BY <2>1, <2>2, <2>3
    <2>5. QED
      BY <2>1, <2>4, LeaveGrows
  <1>5. CASE Route(c)
    <2>1. PICK is_lookup \in BOOLEAN :
            /\ run' = [run EXCEPT ![c].step = IF is_lookup THEN "retrieve_docs" ELSE "branch",
                                  ![c].is_lookup = is_lookup, ![c].steps = @ + 1]
            /\ thread' = r.state
      BY <1>5 DEF Route
    <2> DEFINE new == [r EXCEPT !.step = IF is_lookup THEN "retrieve_docs" ELSE "branch",
                                !.is_lookup = is_lookup, !.steps = @ + 1]
    <2>2. run' = [run EXCEPT ![c] = new] /\ new.state = r.state
      BY <1>1, <2>1 DEF Runs
    <2> HIDE DEF new
    <2>3. run'[c].state = r.state /\ run' = [run EXCEPT ![c] = run'[c]]
      BY <1>1, <2>2
    <2>4. QED
      BY <1>1, <2>1, <2>3, PrefixExtends DEF Grown
  <1>6. CASE Generate(c)
    <2>1. PICK requested \in 0..MaxRequests, used \in 0..MaxUsage :
            LET state == [r.state EXCEPT !.history = Append(@, Requests(requested)),
                                         !.tool_calls_count = @ + requested,
                                         !.token_count = @ + used]
            IN Leave(c, AfterGenerate(c, requested, state), state)
      BY <1>6 DEF Generate
    <2> DEFINE state == [r.state EXCEPT !.history = Append(@, Requests(requested)),
                                        !.tool_calls_count = @ + requested,
                                        !.token_count = @ + used]
               next == AfterGenerate(c, requested, state)
    <2>2. Leave(c, next, state)
      BY <2>1
    <2>3. Requests(requested) \in Messages /\ requested \in Nat /\ used \in Nat
      BY CallMessages, ModelAssumption
    <2>4. state = Generated(r.state, Requests(requested), requested, used)
      BY DEF Generated
    <2> HIDE DEF state, next
    <2>5. state.history = Append(h, Requests(requested))
      BY <1>1, <2>3, <2>4, GeneratedState
    <2>6. state.history = h \o <<Requests(requested)>> /\ <<Requests(requested)>> \in Seq(Messages)
      BY <1>2, <2>3, <2>5
    <2>7. QED
      BY <2>2, <2>6, LeaveGrows
  <1>7. CASE Tools(c)
    <2> DEFINE state == [r.state EXCEPT !.history = Append(@, Replies(Pending(c)))]
               new == [r EXCEPT !.step = "generate", !.state = state,
                                !.executed = @ + Pending(c), !.steps = @ + 1]
    <2>1. run' = [run EXCEPT ![c] = new] /\ (thread' = thread \/ thread' = state)
      BY <1>1, <1>7 DEF Tools
    <2>2. state.history = Append(h, Replies(Pending(c))) /\ new.state = state
      BY <1>1 DEF States, Runs
    <2>3. Replies(Pending(c)) \in Messages
      BY <1>1, <1>7, PendingTyped DEF Tools, At
    <2> HIDE DEF state, new
    <2>4. state.history \in Seq(Messages) /\ IsPrefix(h, state.history)
      <3>1. PICK m \in Messages : m = Replies(Pending(c))
        BY <2>3
      <3>2. PICK g \in Seq(Messages) : g = h
        BY <1>1
      <3>3. Append(g, m) = g \o <<m>> /\ <<m>> \in Seq(Messages) /\ Append(g, m) \in Seq(Messages)
        OBVIOUS
      <3>4. IsPrefix(g, Append(g, m))
        BY <3>3, PrefixExtends
      <3>5. QED
        BY <2>2, <3>1, <3>2, <3>3, <3>4
    <2>5. run'[c] = new
      BY <1>1, <2>1
    <2>6. QED
      BY <2>1, <2>2, <2>4, <2>5 DEF Grown
  <1>8. CASE Finalize(c)
    <2>1. PICK used \in 0..MaxUsage :
            Leave(c, LookupEnds(c), [r.state EXCEPT !.history = @ \o <<Replies(Pending(c)), Answer>>,
                                                    !.token_count = @ + used])
      BY <1>8 DEF Finalize
    <2> DEFINE state == [r.state EXCEPT !.history = @ \o <<Replies(Pending(c)), Answer>>,
                                        !.token_count = @ + used]
    <2>2. state.history = h \o <<Replies(Pending(c)), Answer>>
      BY <1>1 DEF States
    <2>3. Replies(Pending(c)) \in Messages /\ Answer \in Messages
      BY <1>1, <1>8, PendingTyped, PlainMessages DEF Finalize, At
    <2>4. <<Replies(Pending(c)), Answer>> \in Seq(Messages)
      BY <2>3
    <2>5. Leave(c, LookupEnds(c), state)
      BY <2>1
    <2> HIDE DEF state
    <2>6. QED
      BY <2>2, <2>4, <2>5, LeaveGrows
  <1>9. QED
    BY <1>3, <1>4, <1>5, <1>6, <1>7, <1>8 DEF Node

(* Where turns follow each other, the running one builds on what the       *)
(* thread has.                                                             *)
MInv ==
    ~ overlapping =>
      /\ InTurn
      /\ \A c \in Clients : At(c, "idle") \/ IsPrefix(thread.history, run[c].state.history)

(* A step of the only running turn extends the thread and stays ahead of it. *)
LEMMA GrownRemembers ==
  ASSUME BInv, MInv, BInv', ~ overlapping, NEW c \in Clients, ~ At(c, "idle"), Grown(c)
  PROVE  /\ IsPrefix(thread.history, thread'.history)
         /\ \A d \in Clients : run'[d].step = "idle" \/ IsPrefix(thread'.history, run'[d].state.history)
  <1>1. /\ thread.history \in Seq(Messages) /\ run[c].state.history \in Seq(Messages)
        /\ run \in [Clients -> Runs]
    BY DEF BInv, TypeOK, Runs, States
  <1>2. IsPrefix(thread.history, run[c].state.history)
    BY DEF MInv
  <1>3. run'[c].state.history \in Seq(Messages) /\ IsPrefix(run[c].state.history, run'[c].state.history)
    BY DEF Grown
  <1>4. IsPrefix(thread.history, run'[c].state.history)
    BY <1>1, <1>2, <1>3, PrefixTransitive
  <1>5. IsPrefix(thread.history, thread'.history) /\ IsPrefix(thread'.history, run'[c].state.history)
    BY <1>1, <1>3, <1>4, PrefixExtends DEF Grown
  <1>6. ASSUME NEW d \in Clients, d # c PROVE run'[d].step = "idle"
    BY <1>1, <1>6 DEF Grown, MInv, InTurn, At
  <1>7. QED
    BY <1>5, <1>6

(* A turn that begins when no other runs extends the thread by its question. *)
LEMMA AskRemembers ==
  ASSUME BInv, NEW c \in Clients, NEW strategy \in Strategies, Ask(c, strategy), InTurn'
  PROVE  /\ IsPrefix(thread.history, thread'.history)
         /\ \A d \in Clients : run'[d].step = "idle" \/ IsPrefix(thread'.history, run'[d].state.history)
  <1>1. PICK kept \in {thread, NoState} :
          LET state == [kept EXCEPT !.history = Append(thread.history, Human)] IN
          /\ run' = [run EXCEPT ![c] =
               [NoRun EXCEPT !.step = IF strategy = "SEARCH" THEN "retrieve_docs" ELSE "resolve",
                             !.strategy = strategy, !.state = state]]
          /\ thread' = state
    BY DEF Ask
  <1>2. /\ thread \in States /\ kept \in States /\ thread.history \in Seq(Messages)
        /\ run \in [Clients -> Runs]
    BY <1>1, NoRunTyped DEF BInv, TypeOK, States
  <1>3. thread'.history = Append(thread.history, Human) /\ run'[c].state = thread'
        /\ run'[c].step # "idle"
    BY <1>1, <1>2 DEF States, NoRun
  <1>4. PICK h \in Seq(Messages) : h = thread.history
    BY <1>2
  <1>5. Human \in Messages
    BY PlainMessages
  <1>6. <<Human>> \in Seq(Messages) /\ Append(h, Human) = h \o <<Human>> /\ Append(h, Human) \in Seq(Messages)
    BY <1>5
  <1>7. IsPrefix(h, Append(h, Human)) /\ IsPrefix(Append(h, Human), Append(h, Human))
    BY <1>6, PrefixExtends
  <1>8. ASSUME NEW d \in Clients, d # c PROVE run'[d].step = "idle"
    BY <1>3, <1>8 DEF InTurn, At
  <1>9. QED
    BY <1>3, <1>4, <1>7, <1>8

(* A step of a thread whose turns follow each other forgets nothing, and   *)
(* leaves the running turn ahead of the thread.                            *)
LEMMA NextRemembers ==
  ASSUME BInv, BInv', MInv, ThreadNext, ~ overlapping
  PROVE  IsPrefix(thread.history, thread'.history) /\ MInv'
  <1>1. InTurn' /\ Next /\ overlapping' = overlapping
    BY DEF ThreadNext
  <1>2. PICK c \in Clients : \/ \E strategy \in Strategies : Ask(c, strategy)
                             \/ Node(c) \/ Finish(c) \/ Abort(c)
    BY <1>1 DEF Next
  <1>3. /\ IsPrefix(thread.history, thread'.history)
        /\ \A d \in Clients : run'[d].step = "idle" \/ IsPrefix(thread'.history, run'[d].state.history)
    <2>1. CASE \E strategy \in Strategies : Ask(c, strategy)
      BY <1>1, <2>1, AskRemembers
    <2>2. CASE Node(c)
      <3>1. ~ At(c, "idle")
        BY <2>2 DEF Node, Resolve, Route, Branch, Respond, Retrieve, Grade, Rewrite, WebSearch,
                    Generate, Tools, Finalize, At
      <3>2. QED
        BY <2>2, <3>1, NodeGrows, GrownRemembers
    <2>3. CASE Finish(c) \/ Abort(c)
      <3>1. run' = [run EXCEPT ![c] = NoRun] /\ thread' = thread /\ ~ At(c, "idle")
        BY <2>3 DEF Finish, Abort, At
      <3>2. run \in [Clients -> Runs] /\ thread.history \in Seq(Messages)
        BY DEF BInv, TypeOK, States
      <3>3. ASSUME NEW d \in Clients PROVE run'[d].step = "idle"
        BY <3>1, <3>2, <3>3 DEF NoRun, MInv, InTurn, At
      <3>4. QED
        BY <3>1, <3>2, <3>3, PrefixExtends
    <2>4. QED
      BY <1>2, <2>1, <2>2, <2>3
  <1>4. MInv'
    BY <1>1, <1>3 DEF MInv, At
  <1>5. QED
    BY <1>3, <1>4

(* As long as turns follow each other, what is checkpointed stays: failing *)
(* and abandoned turns, a change of strategy between turns and counters    *)
(* that start afresh only ever add to the history.                         *)
THEOREM ThreadsRememberTurns == ThreadSpec => ThreadRemembersTurns
  <1>1. ThreadInit => MInv
    BY DEF ThreadInit, Init, NoRun, MInv, InTurn, At
  <1>2. BInv /\ BInv' /\ MInv /\ [ThreadNext]_threadVars
          => MInv' /\ [~overlapping => IsPrefix(thread.history, thread'.history)]_threadVars
    <2> SUFFICES ASSUME BInv, BInv', MInv, [ThreadNext]_threadVars
                 PROVE  MInv' /\ [~overlapping => IsPrefix(thread.history, thread'.history)]_threadVars
      OBVIOUS
    <2>1. CASE ThreadNext /\ ~ overlapping
      BY <2>1, NextRemembers
    <2>2. CASE ThreadNext /\ overlapping
      BY <2>2 DEF ThreadNext, MInv
    <2>3. CASE UNCHANGED threadVars
      BY <2>3 DEF threadVars, vars, MInv, InTurn, At
    <2>4. QED
      BY <2>1, <2>2, <2>3
  <1>3. QED
    BY <1>1, <1>2, ThreadsRun, BInvHolds, PTL DEF ThreadSpec, ThreadRemembersTurns
=============================================================================
