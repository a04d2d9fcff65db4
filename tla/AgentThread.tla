----------------------------- MODULE AgentThread -----------------------------
(***************************************************************************)
(* A conversation thread of the agent (app/agent): turns run the lookup    *)
(* graph (graphs/lookup_rag.py, edges/conditional.py, nodes), alone or as  *)
(* a branch of the routed graph (graphs/routed_rag.py), on a state that    *)
(* the checkpointer keeps from turn to turn.                               *)
(*                                                                         *)
(* One step is one node and the conditional edge after it.  The graph that *)
(* owns the thread checkpoints after every node; the lookup graph inside   *)
(* the routed graph has no checkpoint of its own in the thread and hands   *)
(* its state over when it ends.  Nothing keeps two turns of a thread from  *)
(* running at the same time: each works on its own copy, and the latest    *)
(* checkpoint is what the next turn starts from.                           *)
(***************************************************************************)
EXTENDS Integers, Sequences, SequencesExt

CONSTANTS
    Clients,       \* requests that may run at the same time
    Strategies,    \* settings.GRAPH_STRATEGY, which a deploy may change
    MaxToolCalls,  \* BudgetLimits.max_tool_calls
    MaxTokens,     \* BudgetLimits.max_tokens
    MaxRequests,   \* the most tool calls one answer of the model asks for
    MaxUsage,      \* the most tokens one model call uses
    BranchUsage,   \* the tokens another branch may report for all its calls
    MaxTurns       \* bound: turns of the thread

ASSUME StrategiesAssumption == Strategies \subseteq {"SEARCH", "ROUTED"}
ASSUME BudgetAssumption == MaxToolCalls \in Nat /\ MaxTokens \in Nat
ASSUME ModelAssumption == MaxRequests \in Nat /\ MaxUsage \in Nat /\ BranchUsage \subseteq Nat
ASSUME TurnsAssumption == MaxTurns \in Nat

VARIABLES
    thread,  \* the state in the latest checkpoint
    run,     \* the turn each client is running, if any
    turns    \* turns begun so far

vars == <<thread, run, turns>>

(* A message of chat_history; calls is the number of tool calls an AI      *)
(* message asks for, or the number of ToolMessages in a row.               *)
Messages == [kind: {"human", "ai", "tools"}, calls: 0..MaxRequests]
Human == [kind |-> "human", calls |-> 0]
Answer == [kind |-> "ai", calls |-> 0]
Requests(n) == [kind |-> "ai", calls |-> n]
Replies(n) == [kind |-> "tools", calls |-> n]

(* The limit of decider_from_grade.                                        *)
RewriteLimit == 2

States == [history: Seq(Messages), loop_count: 0..RewriteLimit,
           tool_calls_count: Nat, token_count: Nat]
NoState == [history |-> <<>>, loop_count |-> 0, tool_calls_count |-> 0, token_count |-> 0]

LookupNodes == {"retrieve_docs", "grade_docs", "rewrite_question", "web_searcher",
                "generate", "tools", "finalize"}
RoutedNodes == {"resolve", "route", "branch", "respond"}

(* executed and steps are history: tool calls executed and nodes run in    *)
(* this turn.                                                              *)
Runs == [step: {"idle", "done"} \cup LookupNodes \cup RoutedNodes,
         strategy: {"SEARCH", "ROUTED"}, is_lookup: BOOLEAN, state: States,
         executed: Nat, steps: Nat]
NoRun == [step |-> "idle", strategy |-> "SEARCH", is_lookup |-> TRUE, state |-> NoState,
          executed |-> 0, steps |-> 0]

TypeOK ==
    /\ thread \in States
    /\ run \in [Clients -> Runs]
    /\ turns \in 0..MaxTurns

Init ==
    /\ thread = NoState
    /\ run = [c \in Clients |-> NoRun]
    /\ turns = 0

At(c, node) == run[c].step = node

(* Bug: the lookup graph within the routed graph is given the checkpointer.*)
CheckpointedAlways(c, next) == TRUE

(* The state the node of a turn leaves behind, and the node that follows.  *)
(* It is checkpointed unless the node is one of the lookup graph within    *)
(* the routed graph; that graph's state is handed over as it ends.         *)
Checkpointed(c, next) ==
    run[c].strategy = "SEARCH" \/ run[c].step \in RoutedNodes \/ next = "respond"

Leave(c, next, state) ==
    /\ run' = [run EXCEPT ![c].step = next, ![c].state = state, ![c].steps = @ + 1]
    /\ thread' = IF Checkpointed(c, next) THEN state ELSE thread
    /\ UNCHANGED turns

LookupEnds(c) == IF run[c].strategy = "SEARCH" THEN "done" ELSE "respond"

(* Bug: chat_history without its reducer, the input replaces it.           *)
AskAfresh(c, strategy) ==
    /\ At(c, "idle")
    /\ turns < MaxTurns
    /\ LET state == [thread EXCEPT !.history = <<Human>>] IN
         /\ run' = [run EXCEPT ![c] =
                      [NoRun EXCEPT !.step = IF strategy = "SEARCH" THEN "retrieve_docs" ELSE "resolve",
                                    !.strategy = strategy, !.state = state]]
         /\ thread' = state
    /\ turns' = turns + 1

(***************************************************************************)
(* A turn begins with the question appended to the history of the latest   *)
(* checkpoint.  The input leaves loop_count and the counters at their      *)
(* defaults; whether the library then keeps the checkpointed values, as    *)
(* retrieval.py says, or writes the defaults is left open.                 *)
(***************************************************************************)
Ask(c, strategy) ==
    /\ At(c, "idle")
    /\ turns < MaxTurns
    /\ \E kept \in {thread, NoState} :
         LET state == [kept EXCEPT !.history = Append(thread.history, Human)] IN
         /\ run' = [run EXCEPT ![c] =
                      [NoRun EXCEPT !.step = IF strategy = "SEARCH" THEN "retrieve_docs" ELSE "resolve",
                                    !.strategy = strategy, !.state = state]]
         /\ thread' = state
    /\ turns' = turns + 1

(***************************************************************************)
(* The routed graph.                                                       *)
(***************************************************************************)

(* A rewriter that fails is degraded to the original question.             *)
Resolve(c) == At(c, "resolve") /\ Leave(c, "route", run[c].state)

Route(c) ==
    /\ At(c, "route")
    /\ \E is_lookup \in BOOLEAN :
         LET next == IF is_lookup THEN "retrieve_docs" ELSE "branch" IN
         /\ run' = [run EXCEPT ![c].step = next, ![c].is_lookup = is_lookup, ![c].steps = @ + 1]
         /\ thread' = run[c].state
    /\ UNCHANGED turns

(* One of the other five branches: it writes answer, and a token_count of  *)
(* its own or none.                                                        *)
Branch(c) ==
    /\ At(c, "branch")
    /\ \E used \in BranchUsage \cup {run[c].state.token_count} :
         Leave(c, "respond", [run[c].state EXCEPT !.token_count = used])

Respond(c) ==
    /\ At(c, "respond")
    /\ Leave(c, "done", IF run[c].is_lookup THEN run[c].state
                        ELSE [run[c].state EXCEPT !.history = Append(@, Answer)])

(***************************************************************************)
(* The lookup graph.                                                       *)
(***************************************************************************)

(* Bug: the counters are not reset at the start of a run.                  *)
RetrieveOnly(c) == At(c, "retrieve_docs") /\ Leave(c, "grade_docs", run[c].state)

Retrieve(c) ==
    /\ At(c, "retrieve_docs")
    /\ Leave(c, "grade_docs", [run[c].state EXCEPT !.tool_calls_count = 0, !.token_count = 0])

(* Bug: a third rewrite is admitted.                                       *)
GradeOnceMore(c) ==
    /\ At(c, "grade_docs")
    /\ \E good \in BOOLEAN :
         Leave(c, IF good \/ run[c].state.loop_count > RewriteLimit
                    THEN "generate" ELSE "rewrite_question", run[c].state)

(* decider_from_grade: good documents, or no rewrite left.                 *)
Grade(c) ==
    /\ At(c, "grade_docs")
    /\ \E good \in BOOLEAN :
         Leave(c, IF good \/ run[c].state.loop_count >= RewriteLimit
                    THEN "generate" ELSE "rewrite_question", run[c].state)

(* Bug: rewrites are not counted.                                          *)
RewriteUncounted(c) == At(c, "rewrite_question") /\ Leave(c, "web_searcher", run[c].state)

Rewrite(c) ==
    /\ At(c, "rewrite_question")
    /\ Leave(c, "web_searcher", [run[c].state EXCEPT !.loop_count = @ + 1])

WebSearch(c) == At(c, "web_searcher") /\ Leave(c, "grade_docs", run[c].state)

(* Bug: a limit that admits one tool call too many.                        *)
OverBudgetByOne(state) ==
    state.tool_calls_count > MaxToolCalls + 1 \/ state.token_count > MaxTokens

OverBudget(state) ==
    state.tool_calls_count > MaxToolCalls \/ state.token_count > MaxTokens

(* Bug: out of budget, the turn ends with its tool calls pending.          *)
FallThrough(c, requested, state) ==
    IF requested = 0 \/ OverBudget(state) THEN LookupEnds(c) ELSE "tools"

(* decider_from_tools, on the state generate leaves.                       *)
AfterGenerate(c, requested, state) ==
    IF requested = 0 THEN LookupEnds(c) ELSE IF OverBudget(state) THEN "finalize" ELSE "tools"

Generate(c) ==
    /\ At(c, "generate")
    /\ \E requested \in 0..MaxRequests, used \in 0..MaxUsage :
         LET state == [run[c].state EXCEPT !.history = Append(@, Requests(requested)),
                                           !.tool_calls_count = @ + requested,
                                           !.token_count = @ + used]
         IN Leave(c, AfterGenerate(c, requested, state), state)

Pending(c) == Last(run[c].state.history).calls

Tools(c) ==
    LET state == [run[c].state EXCEPT !.history = Append(@, Replies(Pending(c)))] IN
    /\ At(c, "tools")
    /\ run' = [run EXCEPT ![c].step = "generate", ![c].state = state,
                          ![c].executed = @ + Pending(c), ![c].steps = @ + 1]
    /\ thread' = IF Checkpointed(c, "generate") THEN state ELSE thread
    /\ UNCHANGED turns

Finalize(c) ==
    /\ At(c, "finalize")
    /\ \E used \in 0..MaxUsage :
         Leave(c, LookupEnds(c),
               [run[c].state EXCEPT !.history = @ \o <<Replies(Pending(c)), Answer>>,
                                    !.token_count = @ + used])

(***************************************************************************)
(* The end of a turn.  Any node may raise, the client may disconnect and   *)
(* the process may die: the thread stays as the last checkpoint left it.   *)
(***************************************************************************)
Finish(c) ==
    /\ At(c, "done")
    /\ run' = [run EXCEPT ![c] = NoRun]
    /\ UNCHANGED <<thread, turns>>

Abort(c) ==
    /\ run[c].step \notin {"idle", "done"}
    /\ run' = [run EXCEPT ![c] = NoRun]
    /\ UNCHANGED <<thread, turns>>

Node(c) ==
    \/ Resolve(c) \/ Route(c) \/ Branch(c) \/ Respond(c)
    \/ Retrieve(c) \/ Grade(c) \/ Rewrite(c) \/ WebSearch(c)
    \/ Generate(c) \/ Tools(c) \/ Finalize(c)

Next ==
    \E c \in Clients :
      \/ \E strategy \in Strategies : Ask(c, strategy)
      \/ Node(c) \/ Finish(c) \/ Abort(c)

Spec == Init /\ [][Next]_vars

(***************************************************************************)
(* Properties.                                                             *)
(***************************************************************************)

(* However many calls the model asks for in a round, a turn executes at    *)
(* most max_tool_calls of them (generate counts before the edge decides).  *)
ToolBudget == \A c \in Clients : run[c].executed <= MaxToolCalls

(* A lookup uses at most its token budget and two more calls: the one that *)
(* exceeds it and the one that finalizes.  What earlier turns and other    *)
(* branches of the thread have used does not count.                        *)
Counting(c) ==
    run[c].is_lookup /\ run[c].step \in (LookupNodes \ {"retrieve_docs"}) \cup {"respond", "done"}

TokenBudget ==
    \A c \in Clients : Counting(c) => run[c].state.token_count <= MaxTokens + 2 * MaxUsage

(* A turn ends after a number of nodes that its tool budget bounds: three  *)
(* of the routed graph, nine to get documents graded, then a generation    *)
(* per tool call and one, and finalize.                                    *)
TurnBounded == \A c \in Clients : run[c].steps <= 13 + 2 * MaxToolCalls

(* Every request for tool calls is followed by as many replies: providers  *)
(* reject a history in which it is not (finalizer.py).                     *)
Answered(history) ==
    \A i \in DOMAIN history :
      (history[i].kind = "ai" /\ history[i].calls > 0) =>
        i < Len(history) /\ history[i + 1] = Replies(history[i].calls)

(* The model is never sent a history it rejects, whatever became of the    *)
(* turns before.                                                           *)
HistoryAccepted ==
    \A c \in Clients : At(c, "generate") => Answered(run[c].state.history)

(* A completed turn leaves an answer, and no request, as the last message  *)
(* of its history: what respond_node returns, and what the next turn       *)
(* builds on.                                                              *)
AnswerRecorded ==
    \A c \in Clients : At(c, "done") => Last(run[c].state.history) = Answer
=============================================================================
