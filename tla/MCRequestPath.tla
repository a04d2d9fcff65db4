---------------------------- MODULE MCRequestPath ----------------------------
(***************************************************************************)
(* The parts a request runs through, for TLC in one run.  They share no    *)
(* state, so a behaviour is one of a single part, picked at the start,     *)
(* while the others stay where they begin; the states of the run are the   *)
(* sum of the states of the parts, not their product.                      *)
(***************************************************************************)
EXTENDS Routing, MultiHop, GlobalSummary, Speculation, Summarizer, Conversation

VARIABLE part

Parts == {"routing", "multi_hop", "global", "speculation", "summarizer", "conversation"}

partVars == <<part, routingVars, hopVars, globalVars, speculationVars, summarizerVars, chatVars>>

AnyQuery == CHOOSE q \in Queries : TRUE

Init ==
    /\ part \in Parts
    /\ RoutingInit /\ (part # "routing" => \A r \in Requests : request[r].resolved_query = AnyQuery)
    /\ HopInit /\ GlobalInit /\ SpeculationInit /\ ChatInit
    /\ SummarizerInit /\ (part # "summarizer" => sections = 1)

Rest(name) ==
    /\ part = name
    /\ UNCHANGED part
    /\ name = "routing" \/ UNCHANGED routingVars
    /\ name = "multi_hop" \/ UNCHANGED hopVars
    /\ name = "global" \/ UNCHANGED globalVars
    /\ name = "speculation" \/ UNCHANGED speculationVars
    /\ name = "summarizer" \/ UNCHANGED summarizerVars
    /\ name = "conversation" \/ UNCHANGED chatVars

Next ==
    \/ RoutingNext /\ Rest("routing")
    \/ HopNext /\ Rest("multi_hop")
    \/ GlobalNext /\ Rest("global")
    \/ SpeculationNext /\ Rest("speculation")
    \/ SummarizerNext /\ Rest("summarizer")
    \/ ChatNext /\ Rest("conversation")

(* The fairness of each part, for the part that runs.                      *)
Fairness ==
    \/ part = "routing" /\ RoutingFairness
    \/ part = "global" /\ GlobalFairness
    \/ part = "summarizer" /\ SummarizerFairness
    \/ part \in {"multi_hop", "speculation", "conversation"}

Spec == Init /\ [][Next]_partVars /\ Fairness

(* EventuallyRouted of Routing: every request that is not cancelled gets a *)
(* branch, whatever fails.                                                 *)
RequestsAreRouted == part = "routing" => EventuallyRouted

(* EventuallyAnswered of GlobalSummary: every turn ends, also when other   *)
(* requests hold all permits.                                              *)
SummariesAreAnswered == part = "global" => EventuallyAnswered

(* EventuallySummarized of Summarizer: a summary ends even when the model  *)
(* never writes a shorter text.                                            *)
DocumentsAreSummarized == part = "summarizer" => EventuallySummarized
==============================================================================
