------------------------------- MODULE Handles -------------------------------
(***************************************************************************)
(* Collection_manager (app/vectorstore/collection_manager.py): an LRU      *)
(* cache of collection handles shared by the threads of the process.  A    *)
(* handle is built outside the lock, so lookups and evictions of the same  *)
(* collection interleave.                                                  *)
(***************************************************************************)
EXTENDS Naturals, FiniteSets, SequencesExt

CONSTANTS
    Threads,
    Collections,    \* collection names
    MaxCollections  \* max_collections

ASSUME HandlesAssumption == MaxCollections \in Nat \ {0}

VARIABLES
    cached,  \* names in _cache, least recently used first
    lookup   \* what each thread is doing

handlesVars == <<cached, lookup>>

(* others is history: the other collections looked up since the thread's   *)
(* last lookup ended; evicted is history: its collection was evicted.      *)
Lookups == [at: {"idle", "build", "done"}, name: Collections, others: SUBSET Collections, evicted: BOOLEAN]

HandlesTypeOK ==
    /\ cached \in Seq(Collections)
    /\ lookup \in [Threads -> Lookups]

HandlesInit ==
    /\ cached = <<>>
    /\ lookup \in [Threads -> [at: {"idle"}, name: Collections, others: {{}}, evicted: {FALSE}]]

(* The lookup of t ends with the handle of its collection.                 *)
Returns(t, name) ==
    lookup' = [s \in Threads |->
        IF s = t THEN [at |-> "done", name |-> name, others |-> {}, evicted |-> FALSE]
        ELSE IF lookup[s].at = "done" /\ lookup[s].name # name
             THEN [lookup[s] EXCEPT !.others = @ \cup {name}] ELSE lookup[s]]

MoveToEnd(name) == Append(RemoveFirst(cached, name), name)

(* Bug: a hit does not make the collection the most recently used.         *)
CacheHitInPlace(t) ==
    /\ lookup[t].at # "build"
    /\ \E name \in ToSet(cached) : Returns(t, name)
    /\ UNCHANGED cached

CacheHit(t) ==
    /\ lookup[t].at # "build"
    /\ \E name \in ToSet(cached) : Returns(t, name) /\ cached' = MoveToEnd(name)

CacheMiss(t) ==
    /\ lookup[t].at # "build"
    /\ \E name \in Collections \ ToSet(cached) :
        lookup' = [lookup EXCEPT ![t] = [at |-> "build", name |-> name, others |-> {}, evicted |-> FALSE]]
    /\ UNCHANGED cached

(* The least recently used handles go.                                     *)
Within(names) == IF Len(names) > MaxCollections THEN Tail(names) ELSE names

(* Another thread may have stored a handle of the same name meanwhile.     *)
StoreHandle(t) ==
    /\ lookup[t].at = "build"
    /\ Returns(t, lookup[t].name)
    /\ cached' = Within(MoveToEnd(lookup[t].name))

BuildFails(t) ==
    /\ lookup[t].at = "build"
    /\ lookup' = [lookup EXCEPT ![t].at = "idle"]
    /\ UNCHANGED cached

(* The collection is deleted.                                              *)
Evict ==
    \E name \in Collections :
        /\ cached' = RemoveFirst(cached, name)
        /\ lookup' = [t \in Threads |-> IF lookup[t].name = name
                                        THEN [lookup[t] EXCEPT !.evicted = TRUE] ELSE lookup[t]]

HandlesNext == Evict \/ \E t \in Threads : CacheHit(t) \/ CacheMiss(t) \/ StoreHandle(t) \/ BuildFails(t)

HandlesSpec == HandlesInit /\ [][HandlesNext]_handlesVars

(* One handle for a collection, and never more than max_collections,       *)
(* although threads build handles of the same collection side by side.     *)
HandlesBounded == IsInjective(cached) /\ Len(cached) <= MaxCollections

(* The collections in use stay: the handle a thread got last is still      *)
(* cached until max_collections others were looked up, or it was evicted.  *)
RecentHandleStays ==
    \A t \in Threads :
        lookup[t].at = "done" /\ ~lookup[t].evicted /\ lookup[t].name \notin ToSet(cached) =>
            Cardinality(lookup[t].others) >= MaxCollections

(* The cache keeps the handles in use, and no others beyond its bound.     *)
HandlesAreKept ==
    HandlesTypeOK /\ HandlesBounded /\ RecentHandleStays
==============================================================================
