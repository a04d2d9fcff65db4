----------------------------- MODULE Summarizer -----------------------------
(***************************************************************************)
(* DocumentSummarizer.summarize (app/ingestion/summarizer.py): a document  *)
(* in sections is mapped in parallel, collapsed batch by batch until the   *)
(* partial summaries fit one call, and reduced to its summary.             *)
(*                                                                         *)
(* One failed call fails the summary, but gather leaves its siblings       *)
(* running.  A text is the set of sections it speaks for; the model is     *)
(* free to write more than it was asked for, so what fits is not known.    *)
(***************************************************************************)
EXTENDS Naturals, FiniteSets, SequencesExt

CONSTANTS
    SectionCounts,      \* numbers of sections a document may have
    SummaryBatchSize,   \* batch_size
    SummaryConcurrency  \* max_concurrency

ASSUME SummarizerAssumption ==
    /\ SectionCounts \subseteq Nat \ {0} /\ IsFiniteSet(SectionCounts)
    /\ SummaryBatchSize \in Nat /\ SummaryBatchSize >= 2
    /\ SummaryConcurrency \in Nat \ {0}

VARIABLES
    phase,    \* where summarize() is
    sections, \* number of sections
    inputs,   \* texts of the calls of this round
    outcomes  \* state of each of those calls

summarizerVars == <<phase, sections, inputs, outcomes>>

SummaryPhases == {"map", "collapse", "reduce", "summarized", "failed"}

SummarizerTypeOK ==
    /\ phase \in SummaryPhases
    /\ sections \in SectionCounts
    /\ inputs \in Seq(SUBSET (1..sections))
    /\ outcomes \in Seq({"waiting", "running", "ok"}) /\ Len(outcomes) = Len(inputs)

AllWaiting(texts) == [i \in DOMAIN texts |-> "waiting"]

(* A document of one section goes straight to the reduce call; one that is *)
(* empty is refused before any call.                                       *)
SummarizerInit ==
    /\ sections \in SectionCounts
    /\ phase = IF sections = 1 THEN "reduce" ELSE "map"
    /\ inputs = [i \in 1..sections |-> {i}]
    /\ outcomes = AllWaiting(inputs)

RunningCalls == {i \in DOMAIN outcomes : outcomes[i] = "running"}

(* Of a failed summary the calls that wait for the semaphore still start.  *)
StartCall ==
    /\ phase \in {"map", "reduce", "failed"}
    /\ Cardinality(RunningCalls) < SummaryConcurrency
    /\ \E i \in DOMAIN outcomes : outcomes[i] = "waiting" /\ outcomes' = [outcomes EXCEPT ![i] = "running"]
    /\ UNCHANGED <<phase, sections, inputs>>

(* A result; of a failed summary, one nobody waits for.                    *)
CallReturns ==
    /\ \E i \in RunningCalls : outcomes' = [outcomes EXCEPT ![i] = "ok"]
    /\ UNCHANGED <<phase, sections, inputs>>

(* An exception, or an empty answer: gather raises the first one.          *)
CallRaises ==
    /\ \E i \in RunningCalls : outcomes' = [outcomes EXCEPT ![i] = "ok"]
    /\ phase' = "failed"
    /\ UNCHANGED <<sections, inputs>>

AllReturned == \A i \in DOMAIN outcomes : outcomes[i] = "ok"

Mapped ==
    /\ phase = "map" /\ AllReturned
    /\ phase' = "collapse"
    /\ UNCHANGED <<sections, inputs, outcomes>>

NextCalls(next_phase, texts) ==
    /\ phase' = next_phase
    /\ inputs' = texts
    /\ outcomes' = AllWaiting(texts)
    /\ UNCHANGED sections

(* Bug: the last, shorter batch is left out.                               *)
BatchesFull(texts) ==
    [i \in 1..(Len(texts) \div SummaryBatchSize) |->
       UNION ToSet(SubSeq(texts, (i - 1) * SummaryBatchSize + 1, i * SummaryBatchSize))]

Batches(texts) ==
    [i \in 1..((Len(texts) + SummaryBatchSize - 1) \div SummaryBatchSize) |->
       UNION {texts[j] : j \in {k \in DOMAIN texts : (k - 1) \div SummaryBatchSize = i - 1}}]

(* Bug: the loop ends by the length of the text alone.                     *)
CollapseByLength ==
    /\ phase = "collapse"
    /\ NextCalls("map", Batches(inputs))

(* The partial summaries are still too long for one call.                  *)
Collapse ==
    /\ phase = "collapse" /\ Len(inputs) > 1
    /\ NextCalls("map", Batches(inputs))

(* They fit, or there is only one.                                         *)
Reduce ==
    /\ phase = "collapse"
    /\ NextCalls("reduce", <<UNION ToSet(inputs)>>)

Summarized ==
    /\ phase = "reduce" /\ AllReturned
    /\ phase' = "summarized"
    /\ UNCHANGED <<sections, inputs, outcomes>>

SummarizerNext ==
    StartCall \/ CallReturns \/ CallRaises \/ Mapped \/ Collapse \/ Reduce \/ Summarized

SummarizerSpec == SummarizerInit /\ [][SummarizerNext]_summarizerVars

(* Calls return or raise (provider timeouts) and summarize() goes on.      *)
SummarizerFairness == WF_summarizerVars(SummarizerNext)

(* The reduce call has every section of the document in its text, over any *)
(* number of rounds and whatever their batches.                            *)
SummaryIsWhole == phase \in {"reduce", "summarized"} => UNION ToSet(inputs) = 1..sections

(* No more calls run at a time than max_concurrency, the calls a failed    *)
(* summary leaves behind included.                                         *)
CallsBounded == Cardinality(RunningCalls) <= SummaryConcurrency

(* summarize() ends even when the model never writes a shorter text.       *)
EventuallySummarized == <>(phase \in {"summarized", "failed"})

(* Every section gets into the summary, with no more calls at a time than  *)
(* allowed.                                                                *)
SummaryIsRight ==
    SummarizerTypeOK /\ SummaryIsWhole /\ CallsBounded
==============================================================================
