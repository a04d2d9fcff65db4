------------------------------ MODULE MultiHop ------------------------------
(***************************************************************************)
(* The multi-hop branch (app/routing/branches/multi_hop.py): rounds of     *)
(* decompose and retrieve, each round depending on the hops before it,     *)
(* stopped by convergence or by one of the guardrails, then one answer     *)
(* from the hops there are.                                                *)
(*                                                                         *)
(* A sub-query stands for its normalized key.  Costs are the units of      *)
(* _estimate_cost and the tokens the decomposer used.                      *)
(***************************************************************************)
EXTENDS Naturals, SequencesExt, Selection

CONSTANTS
    SubQueries,      \* normalized sub-queries
    MaxSubQueries,   \* bound: sub-queries the decomposer returns at once
    MaxUnits,        \* bound: cost of one retrieval
    MaxHopUsage,     \* bound: tokens of one decompose call
    RecursionLimit,  \* recursion_limit
    MaxCostUnits     \* max_cost_units

ASSUME HopAssumption ==
    /\ MaxSubQueries \in Nat /\ MaxUnits \in Nat /\ MaxHopUsage \in Nat
    /\ RecursionLimit \in Nat \ {0} /\ MaxCostUnits \in Nat \ {0}

VARIABLES
    step,        \* where the branch is
    round,       \* rounds completed
    hops,        \* sub-queries of the hops, in order
    asked,       \* every sub-query let through so far
    pending,     \* sub-queries of this round
    units,       \* retrieval_units plus usage.total_tokens
    guardrails   \* guardrail_hits

hopVars == <<step, round, hops, asked, pending, units, guardrails>>

HopSteps == {"decompose", "retrieve", "stopped", "answered", "failed"}
Guardrails == {"global_timeout", "cost_cap", "recursion_limit"}

HopTypeOK ==
    /\ step \in HopSteps
    /\ round \in 0..RecursionLimit
    /\ hops \in Seq(SubQueries)
    /\ asked \subseteq SubQueries
    /\ pending \in Seq(SubQueries)
    /\ units \in Nat
    /\ guardrails \in Seq(Guardrails)

HopInit ==
    /\ step = "decompose"
    /\ round = 0
    /\ hops = <<>>
    /\ asked = {}
    /\ pending = <<>>
    /\ units = 0
    /\ guardrails = <<>>

(* The first occurrence of every sub-query not asked before, in order.     *)
NewSubQueries(sub_queries) ==
    Those(sub_queries,
          {i \in DOMAIN sub_queries : /\ sub_queries[i] \notin asked
                                      /\ \A j \in 1..(i - 1) : sub_queries[j] # sub_queries[i]})

Decompose ==
    /\ step = "decompose"
    /\ \E sub_queries \in BoundedSeq(SubQueries, MaxSubQueries), usage \in 0..MaxHopUsage :
        /\ pending' = NewSubQueries(sub_queries)
        /\ asked' = asked \cup ToSet(sub_queries)
        /\ units' = units + usage
        /\ step' = IF pending' = <<>> THEN "stopped" ELSE "retrieve"
    /\ UNCHANGED <<round, hops, guardrails>>

(* Bug: the cost is only compared when another round would follow.         *)
AfterRoundLimitFirst ==
    IF round' = RecursionLimit THEN <<"stopped", <<"recursion_limit">>>>
    ELSE IF units' > MaxCostUnits THEN <<"stopped", <<"cost_cap">>>>
    ELSE <<"decompose", <<>>>>

(* What follows a round: the cost is compared after every round, the last  *)
(* one included, and for/else adds recursion_limit when no round broke off.*)
AfterRound ==
    IF units' >= MaxCostUnits THEN <<"stopped", <<"cost_cap">>>>
    ELSE IF round' = RecursionLimit THEN <<"stopped", <<"recursion_limit">>>>
    ELSE <<"decompose", <<>>>>

(* The retrievals of a round run together; the results are appended and    *)
(* charged without an await in between.                                    *)
Retrieve ==
    /\ step = "retrieve"
    /\ \E cost \in 0..(MaxUnits * Len(pending)) : units' = units + cost
    /\ hops' = hops \o pending
    /\ round' = round + 1
    /\ pending' = <<>>
    /\ step' = AfterRound[1]
    /\ guardrails' = guardrails \o AfterRound[2]
    /\ UNCHANGED asked

(* Bug: the hops are returned by _run_hops and lost with it.               *)
TimeoutDropsHops ==
    /\ step \in {"decompose", "retrieve"}
    /\ step' = "stopped"
    /\ guardrails' = Append(guardrails, "global_timeout")
    /\ pending' = <<>>
    /\ hops' = <<>>
    /\ UNCHANGED <<round, asked, units>>

(* wait_for cancels _run_hops at an await: the retrievals of the running   *)
(* round are lost, the hops appended before it stay.                       *)
Timeout ==
    /\ step \in {"decompose", "retrieve"}
    /\ step' = "stopped"
    /\ guardrails' = Append(guardrails, "global_timeout")
    /\ pending' = <<>>
    /\ UNCHANGED <<round, hops, asked, units>>

(* The decomposer, a retrieval or the synthesizer raises: the turn fails.  *)
HopFails ==
    /\ step \in {"decompose", "retrieve"} \/ (step = "stopped" /\ hops # <<>>)
    /\ step' = "failed"
    /\ UNCHANGED <<round, hops, asked, pending, units, guardrails>>

(* Synthesized from the hops, or the fixed message when there are none;    *)
(* outside the timeout.                                                    *)
Synthesize ==
    /\ step = "stopped"
    /\ step' = "answered"
    /\ UNCHANGED <<round, hops, asked, pending, units, guardrails>>

HopNext == Decompose \/ Retrieve \/ Timeout \/ HopFails \/ Synthesize

HopSpec == HopInit /\ [][HopNext]_hopVars

(* No sub-query is retrieved twice, neither in two rounds nor, when the    *)
(* decomposer repeats itself, in the same round.                           *)
HopsDistinct == IsInjective(hops \o pending)

(* The rounds stop at the cap: what was spent before the last round is     *)
(* below max_cost_units, so a question overshoots it by at most one round. *)
CostBounded == units < MaxCostUnits + MaxHopUsage + MaxUnits * MaxSubQueries

(* At most one guardrail is reported, and it is the true one: cost_cap     *)
(* exactly when the cap was reached after a round, recursion_limit only    *)
(* when all rounds were used below the cap.                                *)
GuardrailIsTrue ==
    /\ Len(guardrails) <= 1
    /\ guardrails = <<"recursion_limit">> => round = RecursionLimit /\ units < MaxCostUnits
    /\ guardrails = <<"cost_cap">> => units >= MaxCostUnits
    /\ step \in {"decompose", "retrieve"} => guardrails = <<>> /\ round < RecursionLimit
    /\ round > 0 /\ units >= MaxCostUnits + MaxHopUsage => guardrails = <<"cost_cap">>

(* A hop that was appended is never lost: the timeout cancels the rounds   *)
(* and not their results, and the answer is made from all of them.         *)
HopsAreKept == [][IsPrefix(hops, hops')]_hopVars

(* The guardrails of a multi-hop run together: nothing is retrieved twice, *)
(* the cost is bounded, and the trace names the guardrail that ended it.   *)
HopsAreRight ==
    HopTypeOK /\ HopsDistinct /\ CostBounded /\ GuardrailIsTrue
==============================================================================
