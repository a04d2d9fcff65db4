---------------------------- MODULE GlobalSummary ----------------------------
(***************************************************************************)
(* The global branch (app/routing/branches/global_summary.py): the         *)
(* summaries of a knowledge base are condensed by rounds of parallel MAP   *)
(* calls until they fit one ANSWER call.  All calls of all requests of the *)
(* process share one semaphore.  A failed MAP call leaves its documents    *)
(* out, which the answer must say.                                         *)
(*                                                                         *)
(* A text is the set of documents it speaks for.                           *)
(***************************************************************************)
EXTENDS Naturals, FiniteSets, SequencesExt, Selection

CONSTANTS
    Askers,        \* requests of the process
    Totals,        \* numbers of documents with a summary
    BatchSize,     \* batch_size
    GuardSize,     \* guard_size
    MaxDocuments   \* max_documents

ASSUME GlobalAssumption ==
    /\ Totals \subseteq Nat /\ MaxDocuments \in Nat \ {0}
    /\ BatchSize \in Nat /\ BatchSize >= 2 /\ GuardSize \in Nat \ {0}

VARIABLES
    permits,  \* free permits of _guard
    asker     \* the turn of each request

globalVars == <<permits, asker>>

(* What a request works on: total summaries fetched, the current texts,    *)
(* the state of the calls of this round, the count of failed batches and,  *)
(* once answered, which notices the answer carries.                        *)
NoAsker == [step |-> "fetch", total |-> 0, current |-> <<>>, calls |-> <<>>,
            failed_batches |-> 0, notices |-> {}]

Texts == Seq(SUBSET (1..MaxDocuments))
GlobalSteps == {"fetch", "ready", "map", "answer", "answered", "empty", "failed", "cancelled"}
CallStates == {"waiting", "running", "ok", "error"}

GlobalTypeOK ==
    /\ permits \in 0..GuardSize
    /\ asker \in [Askers -> [step: GlobalSteps, total: Nat, current: Texts, calls: Seq(CallStates),
                             failed_batches: Nat, notices: SUBSET {"truncated", "partial"}]]

GlobalInit ==
    /\ permits = GuardSize
    /\ asker = [a \in Askers |-> NoAsker]

(* INDEXED documents with a summary, in a fixed order, the first           *)
(* max_documents of them.                                                  *)
Fetch(a) ==
    /\ asker[a].step = "fetch"
    /\ \E total \in Totals :
        LET used == IF total < MaxDocuments THEN total ELSE MaxDocuments IN
        asker' = [asker EXCEPT ![a].total = total,
                               ![a].step = IF total = 0 THEN "empty" ELSE "ready",
                               ![a].current = [i \in 1..used |-> {i}]]
    /\ UNCHANGED permits

BatchCount(texts) == (Len(texts) + BatchSize - 1) \div BatchSize

(* The i-th batch as the documents it speaks for.                          *)
Batch(texts, i) ==
    UNION {texts[j] : j \in {k \in DOMAIN texts : (k - 1) \div BatchSize = i - 1}}

(* The head of the while loop: MAP calls for all batches, or the ANSWER.   *)
StartRound(a) ==
    LET current == asker[a].current IN
    /\ asker[a].step = "ready"
    /\ IF Len(current) > BatchSize
       THEN asker' = [asker EXCEPT ![a].step = "map",
                                   ![a].calls = [i \in 1..BatchCount(current) |-> "waiting"]]
       ELSE asker' = [asker EXCEPT ![a].step = "answer", ![a].calls = <<"waiting">>]
    /\ UNCHANGED permits

(* The calls of a gather reach the semaphore in order.                     *)
Acquire(a) ==
    /\ permits > 0
    /\ \E i \in DOMAIN asker[a].calls :
        /\ asker[a].calls[i] = "waiting"
        /\ \A j \in 1..(i - 1) : asker[a].calls[j] # "waiting"
        /\ asker' = [asker EXCEPT ![a].calls[i] = "running"]
    /\ permits' = permits - 1

(* Bug: the permit is released by hand, which an exception skips.          *)
CallEndsLeaking(a) ==
    \E i \in DOMAIN asker[a].calls, result \in {"ok", "error"} :
        /\ asker[a].calls[i] = "running"
        /\ asker' = [asker EXCEPT ![a].calls[i] = result]
        /\ permits' = IF result = "ok" THEN permits + 1 ELSE permits

(* A call returns or raises; async with releases the permit either way.    *)
CallEnds(a) ==
    \E i \in DOMAIN asker[a].calls, result \in {"ok", "error"} :
        /\ asker[a].calls[i] = "running"
        /\ asker' = [asker EXCEPT ![a].calls[i] = result]
        /\ permits' = permits + 1

Errors(a) == {i \in DOMAIN asker[a].calls : asker[a].calls[i] = "error"}
AllEnded(a) == \A i \in DOMAIN asker[a].calls : asker[a].calls[i] \in {"ok", "error"}

(* The texts of the batches that succeeded, in order.                      *)
Condensed(a) ==
    Those([i \in DOMAIN asker[a].calls |-> Batch(asker[a].current, i)],
          {i \in DOMAIN asker[a].calls : asker[a].calls[i] = "ok"})

(* Bug: failed_batches holds the failures of the last round only.          *)
RoundEndsForgetting(a) ==
    /\ asker[a].step = "map" /\ AllEnded(a)
    /\ IF 2 * Cardinality(Errors(a)) > Len(asker[a].calls)
       THEN asker' = [asker EXCEPT ![a].step = "failed", ![a].calls = <<>>]
       ELSE asker' = [asker EXCEPT ![a].step = "ready", ![a].calls = <<>>,
                                   ![a].current = Condensed(a),
                                   ![a].failed_batches = Cardinality(Errors(a))]
    /\ UNCHANGED permits

(* Too many failures, all of them included, end the turn with an error     *)
(* (max_failure_ratio is one half).                                        *)
RoundEnds(a) ==
    /\ asker[a].step = "map" /\ AllEnded(a)
    /\ IF 2 * Cardinality(Errors(a)) > Len(asker[a].calls)
       THEN asker' = [asker EXCEPT ![a].step = "failed", ![a].calls = <<>>]
       ELSE asker' = [asker EXCEPT ![a].step = "ready", ![a].calls = <<>>,
                                   ![a].current = Condensed(a),
                                   ![a].failed_batches = @ + Cardinality(Errors(a))]
    /\ UNCHANGED permits

Notices(a) ==
    {n \in {"truncated", "partial"} :
        \/ n = "truncated" /\ asker[a].total > MaxDocuments
        \/ n = "partial" /\ asker[a].failed_batches > 0}

AnswerEnds(a) ==
    /\ asker[a].step = "answer" /\ AllEnded(a)
    /\ IF Errors(a) = {}
       THEN asker' = [asker EXCEPT ![a].step = "answered", ![a].calls = <<>>, ![a].notices = Notices(a)]
       ELSE asker' = [asker EXCEPT ![a].step = "failed", ![a].calls = <<>>]
    /\ UNCHANGED permits

(* The turn is cancelled: gather cancels its calls, which give up their    *)
(* permits and their places in the queue.                                  *)
CancelAsker(a) ==
    /\ asker[a].step \in {"fetch", "map", "answer"}
    /\ asker' = [asker EXCEPT ![a].step = "cancelled", ![a].calls = <<>>]
    /\ permits' = permits + Cardinality({i \in DOMAIN asker[a].calls : asker[a].calls[i] = "running"})

GlobalProgress(a) ==
    Fetch(a) \/ StartRound(a) \/ CallEnds(a) \/ RoundEnds(a) \/ AnswerEnds(a)

GlobalNext == \E a \in Askers : GlobalProgress(a) \/ Acquire(a) \/ CancelAsker(a)

GlobalSpec == GlobalInit /\ [][GlobalNext]_globalVars

(* Calls return or raise (provider timeouts), and the waiters of an        *)
(* asyncio.Semaphore are served in order, so none waits for ever.          *)
GlobalFairness ==
    \A a \in Askers :
        /\ WF_globalVars(GlobalProgress(a))
        /\ SF_globalVars(Acquire(a))

RunningOf(a) == {<<a, i>> : i \in {j \in DOMAIN asker[a].calls : asker[a].calls[j] = "running"}}

(* Permits are neither lost nor made up, whatever fails and whoever is     *)
(* cancelled: the free ones and the running calls are guard_size together, *)
(* so the process never runs more calls than that.                         *)
PermitsConserved ==
    permits + Cardinality(UNION {RunningOf(a) : a \in Askers}) = GuardSize

(* The answer says what it lacks: the partial notice exactly when a        *)
(* document that was read is in no text of the ANSWER call, the truncated  *)
(* notice exactly when not all documents were read, over any number of     *)
(* rounds.                                                                 *)
NoticesAreTrue ==
    \A a \in Askers : asker[a].step = "answered" =>
        LET covered == UNION Range(asker[a].current) IN
        /\ "truncated" \in asker[a].notices <=> Cardinality(covered) < asker[a].total
                                                /\ asker[a].total > MaxDocuments
        /\ "partial" \in asker[a].notices <=>
             covered # 1..(IF asker[a].total < MaxDocuments THEN asker[a].total ELSE MaxDocuments)

(* The ANSWER call never gets more texts than fit a call, nor none.        *)
AnswerFits ==
    \A a \in Askers : asker[a].step \in {"answer", "answered"} =>
        Len(asker[a].current) \in 1..BatchSize

(* Every turn ends, also when all permits are taken by other requests.     *)
EventuallyAnswered ==
    \A a \in Askers : <>(asker[a].step \in {"answered", "empty", "failed", "cancelled"})

(* What askers that share the semaphore can rely on together.              *)
SummariesAreTrue ==
    GlobalTypeOK /\ PermitsConserved /\ NoticesAreTrue /\ AnswerFits
==============================================================================
