---------------------------- MODULE SemanticCache ----------------------------
(***************************************************************************)
(* SemanticCache (app/routing/cache/semantic_cache.py): route decisions,   *)
(* found again by the similarity of the question, for one tenant's         *)
(* knowledge base and one version of the router.                           *)
(*                                                                         *)
(* get() and put() may each await an embedding; everything else in them    *)
(* runs without an await.  A question stands for its vector, an entry for  *)
(* the decision it holds.                                                  *)
(***************************************************************************)
EXTENDS Naturals, SequencesExt, Selection

CONSTANTS
    Callers,         \* requests of the process
    CacheKeys,       \* tenant_id:knowledge_base_id
    RouterVersions,  \* values of router_version
    Vectors,         \* questions
    Near,            \* sets of two questions within the threshold
    TtlSeconds,      \* ttl_seconds
    MaxEntries,      \* max_entries
    MaxClock         \* bound: how far the clock runs

ASSUME SemanticAssumption ==
    /\ TtlSeconds \in Nat /\ MaxEntries \in Nat \ {0} /\ MaxClock \in Nat
    /\ Near \subseteq SUBSET Vectors

VARIABLES
    now,      \* the monotonic clock
    entries,  \* _entries
    call      \* what each caller is doing

semanticVars == <<now, entries, call>>

Entry == [cache_key: CacheKeys, vector: Vectors, router_version: RouterVersions, created_at: 0..MaxClock]

(* asked_at is the clock when the call came; answer is a sequence of at    *)
(* most one entry.                                                         *)
Calls == [state: {"idle", "get", "put", "answered"}, cache_key: CacheKeys, vector: Vectors,
          router_version: RouterVersions, candidates: Seq(Entry), asked_at: 0..MaxClock, answer: Seq(Entry)]

NoCall(c) == call[c].state \in {"idle", "answered"}

SemanticTypeOK ==
    /\ now \in 0..MaxClock
    /\ entries \in Seq(Entry)
    /\ call \in [Callers -> Calls]

SemanticInit ==
    /\ now = 0
    /\ entries = <<>>
    /\ call \in [Callers -> [state: {"idle"}, cache_key: CacheKeys, vector: Vectors,
                             router_version: RouterVersions, candidates: {<<>>},
                             asked_at: {0}, answer: {<<>>}]]

Tick ==
    /\ now < MaxClock
    /\ now' = now + 1
    /\ UNCHANGED <<entries, call>>

Fresh(e) == now - e.created_at <= TtlSeconds

(* Bug: entries of other versions of the router are found too.             *)
CandidatesOfAnyVersion(c) ==
    Those(entries, {i \in DOMAIN entries : entries[i].cache_key = call[c].cache_key /\ Fresh(entries[i])})

Candidates(c) ==
    Those(entries, {i \in DOMAIN entries : /\ entries[i].cache_key = call[c].cache_key
                                           /\ entries[i].router_version = call[c].router_version
                                           /\ Fresh(entries[i])})

(* The similarity as far as it is compared: 0 is below the threshold.      *)
Similarity(u, v) == IF u = v THEN 2 ELSE IF {u, v} \in Near THEN 1 ELSE 0

(* The first of the most similar candidates, if it reaches the threshold.  *)
Best(vector, candidates) ==
    LET score(i) == Similarity(vector, candidates[i].vector) IN
    Those(candidates, {i \in DOMAIN candidates :
                         /\ score(i) > 0
                         /\ \A j \in DOMAIN candidates : score(j) <= score(i) /\ (j < i => score(j) < score(i))})

(* get(): the candidates are taken before the question is embedded, and    *)
(* without any there is no embedding.                                      *)
Get(c) ==
    /\ call[c].state = "idle"
    /\ call' = [call EXCEPT ![c].state = IF Candidates(c) = <<>> THEN "answered" ELSE "get",
                            ![c].candidates = Candidates(c), ![c].asked_at = now]
    /\ UNCHANGED <<now, entries>>

GetAnswers(c) ==
    /\ call[c].state = "get"
    /\ call' = [call EXCEPT ![c].state = "answered", ![c].candidates = <<>>,
                            ![c].answer = Best(call[c].vector, call[c].candidates)]
    /\ UNCHANGED <<now, entries>>

Put(c) ==
    /\ NoCall(c)
    /\ call' = [call EXCEPT ![c].state = "put", ![c].asked_at = now, ![c].answer = <<>>]
    /\ UNCHANGED <<now, entries>>

Purged == Those(entries, {i \in DOMAIN entries : Fresh(entries[i])})

(* Bug: the newest entries go.                                             *)
RoomForOneOldest(kept) ==
    IF Len(kept) + 1 > MaxEntries THEN SubSeq(kept, 1, MaxEntries - 1) ELSE kept

(* The oldest entries go, so that there is room for one more.              *)
RoomForOne(kept) ==
    IF Len(kept) + 1 > MaxEntries THEN SubSeq(kept, Len(kept) + 2 - MaxEntries, Len(kept)) ELSE kept

NewEntry(c, created_at) ==
    [cache_key |-> call[c].cache_key, vector |-> call[c].vector,
     router_version |-> call[c].router_version, created_at |-> created_at]

(* With the vector at hand: purge, make room, append, without an await.    *)
PutStores(c) ==
    /\ call[c].state = "put"
    /\ entries' = Append(RoomForOne(Purged), NewEntry(c, now))
    /\ call' = [call EXCEPT ![c].state = "idle"]
    /\ UNCHANGED now

(* The embedding raises or the caller is cancelled: no trace of the call.  *)
EmbedFails(c) ==
    /\ call[c].state \in {"get", "put"}
    /\ call' = [call EXCEPT ![c].state = "idle", ![c].candidates = <<>>]
    /\ UNCHANGED <<now, entries>>

SemanticNext ==
    \/ Tick
    \/ \E c \in Callers : Get(c) \/ GetAnswers(c) \/ Put(c) \/ PutStores(c) \/ EmbedFails(c)

SemanticSpec == SemanticInit /\ [][SemanticNext]_semanticVars

(* The entries are never more than max_entries and stand in the order of   *)
(* their dates, which the eviction of the oldest relies on, although the   *)
(* embeddings of concurrent put()s end in any order.                       *)
EntriesInOrder ==
    /\ Len(entries) <= MaxEntries
    /\ \A i, j \in DOMAIN entries : i < j => entries[i].created_at <= entries[j].created_at

(* A decision is reused only for its tenant and knowledge base, by the     *)
(* router version that made it, for a question near its own, and if it was *)
(* within its time to live when the question came.                         *)
HitsMatch ==
    \A c \in Callers : call[c].answer # <<>> =>
        LET hit == call[c].answer[1] IN
        /\ hit.cache_key = call[c].cache_key
        /\ hit.router_version = call[c].router_version
        /\ Similarity(hit.vector, call[c].vector) > 0
        /\ call[c].asked_at - hit.created_at <= TtlSeconds

(* An entry goes because it expired or because it is among the oldest of a *)
(* full cache: none that stays is older than one that goes fresh.          *)
OldestGoFirst ==
    [][\A gone \in ToSet(entries) \ ToSet(entries') :
          Fresh(gone) => /\ Len(entries') = MaxEntries
                         /\ \A kept \in ToSet(entries') : gone.created_at <= kept.created_at]_semanticVars

(* What the cache holds and what it answers.                               *)
HitsAreRight ==
    SemanticTypeOK /\ EntriesInOrder /\ HitsMatch
==============================================================================
