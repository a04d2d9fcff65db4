----------------------------- MODULE KbIndexCache -----------------------------
(***************************************************************************)
(* The BM25 indexes of knowledge bases that a process keeps in memory      *)
(* (rag/retriever/bm25_index.py), and the writes of the vector store that  *)
(* invalidate them (vectorstore/StoreIndexer.py, vectorstore/events.py).   *)
(*                                                                         *)
(* The content of a knowledge base is the number of writes it has seen.    *)
(* Readers and writers are threads; a step is a critical section, a clock  *)
(* reading, or one call to the vector store.  Writes that other processes  *)
(* or scripts make reach the store and notify nobody here.                 *)
(***************************************************************************)
EXTENDS Integers, Sequences, SequencesExt

CONSTANTS
    Kbs,         \* cache keys: one per (tenant, user, knowledge base)
    Readers,     \* executor threads that call BM25IndexProvider.get
    Writers,     \* threads that write through StoreIndexer
    MaxIndexes,  \* max_indexes of the provider
    Ttl,         \* ttl_seconds of the provider
    MaxWrites,   \* bound: writes per knowledge base
    MaxTime      \* bound: ticks of the monotonic clock

ASSUME KbsAssumption == Kbs # {}
ASSUME MaxIndexesAssumption == MaxIndexes \in Nat \ {0}
ASSUME TtlAssumption == Ttl \in Nat
ASSUME BoundsAssumption == MaxWrites \in Nat /\ MaxTime \in Nat

VARIABLES
    now,          \* the clock
    store,        \* writes the vector store has applied
    changed_at,   \* when it applied each of them (history)
    told,         \* the last write of this process that was notified (history)
    cached,       \* keys of _indexes
    lru,          \* the same keys, least recently used first
    entry,        \* the cached (index, built_at), for keys in cached
    generations,  \* _generations
    reader,       \* local variables of each get() call
    writer        \* local variables of each write

storeVars == <<store, changed_at>>
cacheVars == <<cached, lru, entry, generations>>
vars == <<now, storeVars, told, cacheVars, reader, writer>>

Versions == 0..MaxWrites
Times == 0..MaxTime
Indexes == [version: Versions, built_at: Times]

(* asked_at and owed are history: when the call looked into the cache, and *)
(* which write had been notified by then.                                  *)
ReaderSteps == {"idle", "stamp", "load", "insert", "done"}
Calls == [step: ReaderSteps, kb: Kbs, generation: Nat, index: Indexes,
          asked_at: Times, owed: Versions]
Writes == [step: {"idle", "written"}, kb: Kbs, version: Versions]

NoIndex == [version |-> 0, built_at |-> 0]
AnyKb == CHOOSE k \in Kbs : TRUE
NoCall == [step |-> "idle", kb |-> AnyKb, generation |-> 0, index |-> NoIndex,
           asked_at |-> 0, owed |-> 0]
NoWrite == [step |-> "idle", kb |-> AnyKb, version |-> 0]

TypeOK ==
    /\ now \in Times
    /\ store \in [Kbs -> Versions]
    /\ changed_at \in [Kbs -> [1..MaxWrites -> Times]]
    /\ told \in [Kbs -> Versions]
    /\ cached \subseteq Kbs
    /\ lru \in Seq(Kbs)
    /\ entry \in [Kbs -> Indexes]
    /\ generations \in [Kbs -> Nat]
    /\ reader \in [Readers -> Calls]
    /\ writer \in [Writers -> Writes]

Init ==
    /\ now = 0
    /\ store = [k \in Kbs |-> 0]
    /\ changed_at = [k \in Kbs |-> [v \in 1..MaxWrites |-> 0]]
    /\ told = [k \in Kbs |-> 0]
    /\ cached = {}
    /\ lru = <<>>
    /\ entry = [k \in Kbs |-> NoIndex]
    /\ generations = [k \in Kbs |-> 0]
    /\ reader = [r \in Readers |-> NoCall]
    /\ writer = [w \in Writers |-> NoWrite]

Tick ==
    /\ now < MaxTime
    /\ now' = now + 1
    /\ UNCHANGED <<storeVars, told, cacheVars, reader, writer>>

(***************************************************************************)
(* Writing: StoreIndexer changes the collection, possibly in several parts *)
(* and possibly failing midway, and notifies in the finally clause.  A     *)
(* write that raised counts as a write: the store may hold part of it.     *)
(***************************************************************************)
Apply(k) ==
    /\ store[k] < MaxWrites
    /\ store' = [store EXCEPT ![k] = @ + 1]
    /\ changed_at' = [changed_at EXCEPT ![k][store[k] + 1] = now]

Write(w, k) ==
    /\ writer[w].step = "idle" \/ writer[w].kb = k
    /\ Apply(k)
    /\ writer' = [writer EXCEPT ![w] = [step |-> "written", kb |-> k, version |-> store[k] + 1]]
    /\ UNCHANGED <<now, told, cacheVars, reader>>

ForeignWrite(k) ==
    /\ Apply(k)
    /\ UNCHANGED <<now, told, cacheVars, reader, writer>>

Drop(k) ==
    /\ cached' = cached \ {k}
    /\ lru' = RemoveFirst(lru, k)

(* Bug: the cached index is dropped but a build in progress is not told.   *)
InvalidateQuietly(k) == Drop(k) /\ UNCHANGED <<entry, generations>>

Invalidate(k) ==
    /\ Drop(k)
    /\ generations' = [generations EXCEPT ![k] = @ + 1]
    /\ UNCHANGED entry

Notify(w) ==
    LET k == writer[w].kb IN
    /\ writer[w].step = "written"
    /\ Invalidate(k)
    /\ told' = [told EXCEPT ![k] = IF @ < writer[w].version THEN writer[w].version ELSE @]
    /\ writer' = [writer EXCEPT ![w] = NoWrite]
    /\ UNCHANGED <<now, storeVars, reader>>

(***************************************************************************)
(* Reading: BM25IndexProvider.get.                                         *)
(***************************************************************************)
Fresh(k) == now - entry[k].built_at <= Ttl

Call(r, k, step, index) ==
    reader' = [reader EXCEPT ![r] =
                 [step |-> step, kb |-> k, generation |-> generations[k], index |-> index,
                  asked_at |-> now, owed |-> told[k]]]

Hit(r, k) ==
    /\ reader[r].step = "idle"
    /\ k \in cached
    /\ Fresh(k)
    /\ lru' = Append(RemoveFirst(lru, k), k)
    /\ Call(r, k, "done", entry[k])
    /\ UNCHANGED <<now, storeVars, told, cached, entry, generations, writer>>

Miss(r, k) ==
    /\ reader[r].step = "idle"
    /\ k \in cached => ~ Fresh(k)
    /\ Drop(k)
    /\ Call(r, k, "stamp", NoIndex)
    /\ UNCHANGED <<now, storeVars, told, entry, generations, writer>>

Stamp(r) ==
    /\ reader[r].step = "stamp"
    /\ reader' = [reader EXCEPT ![r].step = "load", ![r].index.built_at = now]
    /\ UNCHANGED <<now, storeVars, told, cacheVars, writer>>

Load(r) ==
    /\ reader[r].step = "load"
    /\ reader' = [reader EXCEPT ![r].step = "insert", ![r].index.version = store[reader[r].kb]]
    /\ UNCHANGED <<now, storeVars, told, cacheVars, writer>>

LoadRaises(r) ==
    /\ reader[r].step = "load"
    /\ reader' = [reader EXCEPT ![r] = NoCall]
    /\ UNCHANGED <<now, storeVars, told, cacheVars, writer>>

(* Bug: the least recently used indexes are not evicted.                   *)
KeepAll(keys) == keys

(* popitem(last=False) until at most MaxIndexes are left.                  *)
Evict(keys) ==
    IF Len(keys) <= MaxIndexes THEN keys
    ELSE SubSeq(keys, Len(keys) - MaxIndexes + 1, Len(keys))

(* Bug: the age of an index counted from when it is cached.                *)
InsertStampedLate(r) ==
    LET k == reader[r].kb IN
    /\ reader[r].step = "insert"
    /\ IF generations[k] = reader[r].generation
         THEN /\ lru' = Evict(Append(RemoveFirst(lru, k), k))
              /\ cached' = {j \in cached \cup {k} : \E i \in DOMAIN lru' : lru'[i] = j}
              /\ entry' = [entry EXCEPT ![k] = [reader[r].index EXCEPT !.built_at = now]]
         ELSE UNCHANGED <<lru, cached, entry>>
    /\ reader' = [reader EXCEPT ![r].step = "done"]
    /\ UNCHANGED <<now, storeVars, told, generations, writer>>

Insert(r) ==
    LET k == reader[r].kb IN
    /\ reader[r].step = "insert"
    /\ IF generations[k] = reader[r].generation
         THEN /\ lru' = Evict(Append(RemoveFirst(lru, k), k))
              /\ cached' = {j \in cached \cup {k} : \E i \in DOMAIN lru' : lru'[i] = j}
              /\ entry' = [entry EXCEPT ![k] = reader[r].index]
         ELSE UNCHANGED <<lru, cached, entry>>
    /\ reader' = [reader EXCEPT ![r].step = "done"]
    /\ UNCHANGED <<now, storeVars, told, generations, writer>>

Return(r) ==
    /\ reader[r].step = "done"
    /\ reader' = [reader EXCEPT ![r] = NoCall]
    /\ UNCHANGED <<now, storeVars, told, cacheVars, writer>>

Next ==
    \/ Tick
    \/ \E k \in Kbs : ForeignWrite(k)
    \/ \E w \in Writers : Notify(w) \/ \E k \in Kbs : Write(w, k)
    \/ \E r \in Readers, k \in Kbs : Hit(r, k) \/ Miss(r, k)
    \/ \E r \in Readers : Stamp(r) \/ Load(r) \/ LoadRaises(r) \/ Insert(r) \/ Return(r)

Spec == Init /\ [][Next]_vars

(***************************************************************************)
(* Properties.                                                             *)
(***************************************************************************)

(* An index in the cache contains every write this process was notified    *)
(* of, although indexes are built outside the lock while writes go on.     *)
CacheSeesWrites == \A k \in cached : entry[k].version >= told[k]

(* A get() returns nothing older than the writes notified before it began, *)
(* whether it found the index, built and kept it, or built it for itself.  *)
AnswerSeesWrites ==
    \A r \in Readers : reader[r].step = "done" => reader[r].index.version >= reader[r].owed

(* A write nobody was notified of is missing from an answer for at most    *)
(* ttl_seconds: the age of an index counts from before it was loaded.      *)
AnswerWithinTtl ==
    \A r \in Readers :
      LET call == reader[r] IN
      call.step = "done" =>
        \A v \in 1..store[call.kb] :
          v > call.index.version => changed_at[call.kb][v] >= call.asked_at - Ttl

(* The cache holds at most MaxIndexes, each with one place in the order of *)
(* use, however lookups, builds and invalidations interleave.              *)
CacheBounded ==
    /\ Len(lru) <= MaxIndexes
    /\ cached = ToSet(lru)
    /\ IsInjective(lru)

(* Neither the cache nor an answer lacks a write this process was told of. *)
WritesAreSeen ==
    CacheSeesWrites /\ AnswerSeesWrites
=============================================================================
