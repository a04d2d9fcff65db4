-------------------------- MODULE KbIndexCacheProofs --------------------------
(***************************************************************************)
(* Proofs about the index cache, for any number of threads and knowledge   *)
(* bases, any size of the cache and any time to live.                      *)
(***************************************************************************)
EXTENDS KbIndexCache, SequenceLemmas, TLAPS

(* The part of TypeOK the proofs need.                                     *)
Types ==
    /\ now \in Times
    /\ store \in [Kbs -> Versions]
    /\ changed_at \in [Kbs -> [1..MaxWrites -> Times]]
    /\ told \in [Kbs -> Versions]
    /\ cached \subseteq Kbs
    /\ entry \in [Kbs -> Indexes]
    /\ generations \in [Kbs -> Nat]
    /\ reader \in [Readers -> Calls]
    /\ writer \in [Writers -> Writes]

(* Only writes that were applied are notified.                             *)
ToldApplied ==
    /\ \A k \in Kbs : told[k] <= store[k]
    /\ \A w \in Writers : writer[w].step = "written" => writer[w].version <= store[writer[w].kb]

(* A build that no invalidation has overtaken has loaded every notified    *)
(* write; one that was overtaken is told so by its generation.             *)
BuildKnows(call) ==
    /\ call.step # "idle" => call.generation <= generations[call.kb]
    /\ (call.step = "insert" /\ call.generation = generations[call.kb])
         => call.index.version >= told[call.kb]

CallSees(call) ==
    /\ call.step \in {"stamp", "load"} => call.owed <= store[call.kb]
    /\ call.step \in {"insert", "done"} => call.index.version >= call.owed

BuildsKnow == \A r \in Readers : BuildKnows(reader[r])
CallsSee == \A r \in Readers : CallSees(reader[r])

FreshInv == Types /\ ToldApplied /\ BuildsKnow /\ CallsSee /\ CacheSeesWrites

(* Versions and times are numbers and begin with 0. *)
LEMMA Numbers == Versions \subseteq Nat /\ Times \subseteq Nat /\ 0 \in Versions /\ 0 \in Times
  BY BoundsAssumption DEF Versions, Times

(* The empty index, call and write are typed. *)
LEMMA Nothing == NoIndex \in Indexes /\ AnyKb \in Kbs /\ NoCall \in Calls /\ NoWrite \in Writes
  <1>1. AnyKb \in Kbs
    BY KbsAssumption DEF AnyKb
  <1>2. NoIndex \in Indexes
    BY Numbers DEF NoIndex, Indexes
  <1>3. QED
    BY <1>1, <1>2, Numbers DEF NoCall, Calls, NoWrite, Writes, ReaderSteps

(* The initial state is typed. *)
LEMMA InitTypes == Init => Types
  BY Numbers, Nothing DEF Init, Types

(* Every step keeps the types. *)
LEMMA NextTypes == Types /\ [Next]_vars => Types'
  <1> SUFFICES ASSUME Types, [Next]_vars PROVE Types'
    OBVIOUS
  <1>1. CASE UNCHANGED vars
    BY <1>1 DEF Types, vars, storeVars, cacheVars
  <1>2. CASE Tick
    BY <1>2, BoundsAssumption DEF Tick, Types, storeVars, cacheVars, Times
  <1>3. ASSUME NEW k \in Kbs, Apply(k)
        PROVE  /\ store' \in [Kbs -> Versions]
               /\ changed_at' \in [Kbs -> [1..MaxWrites -> Times]]
               /\ store[k] + 1 \in Versions
    BY <1>3, BoundsAssumption DEF Apply, Types, Versions
  <1>4. ASSUME NEW k \in Kbs, ForeignWrite(k) PROVE Types'
    BY <1>3, <1>4 DEF ForeignWrite, Types, cacheVars
  <1>5. ASSUME NEW w \in Writers, NEW k \in Kbs, Write(w, k) PROVE Types'
    <2>1. writer' \in [Writers -> Writes]
      BY <1>3, <1>5 DEF Write, Types, Writes
    <2>2. QED
      BY <1>3, <1>5, <2>1 DEF Write, Types, cacheVars
  <1>6. ASSUME NEW w \in Writers, Notify(w) PROVE Types'
    <2>1. writer[w] \in Writes
      BY DEF Types
    <2>2. writer[w].kb \in Kbs /\ writer[w].version \in Versions
      BY <2>1 DEF Writes
    <2>3. told' \in [Kbs -> Versions] /\ writer' \in [Writers -> Writes]
      BY <1>6, <2>2, Nothing DEF Notify, Types
    <2>4. generations' \in [Kbs -> Nat] /\ cached' \subseteq Kbs
      BY <1>6, <2>2 DEF Notify, Invalidate, Drop, Types
    <2>5. QED
      BY <1>6, <2>3, <2>4 DEF Notify, Invalidate, Types, storeVars
  <1>7. ASSUME NEW r \in Readers, NEW k \in Kbs, NEW step \in ReaderSteps, NEW index \in Indexes,
               Call(r, k, step, index)
        PROVE  reader' \in [Readers -> Calls]
    BY <1>7 DEF Call, Types, Calls
  <1>8. ASSUME NEW r \in Readers, NEW k \in Kbs, Hit(r, k) PROVE Types'
    <2>1. entry[k] \in Indexes
      BY DEF Types
    <2>2. reader' \in [Readers -> Calls]
      BY <1>7, <1>8, <2>1 DEF Hit, ReaderSteps
    <2>3. QED
      BY <1>8, <2>2 DEF Hit, Types, storeVars
  <1>9. ASSUME NEW r \in Readers, NEW k \in Kbs, Miss(r, k) PROVE Types'
    <2>1. reader' \in [Readers -> Calls]
      BY <1>7, <1>9, Nothing DEF Miss, ReaderSteps
    <2>2. QED
      BY <1>9, <2>1 DEF Miss, Drop, Types, storeVars
  <1>10. ASSUME NEW r \in Readers, Stamp(r) \/ Load(r) \/ LoadRaises(r) \/ Return(r) PROVE Types'
    <2>1. reader[r] \in Calls
      BY DEF Types
    <2>2. /\ reader[r].index \in Indexes
          /\ reader[r].kb \in Kbs
          /\ store[reader[r].kb] \in Versions
      BY <2>1 DEF Calls, Types
    <2>3. CASE Stamp(r)
      <3>1. [reader[r].index EXCEPT !.built_at = now] \in Indexes
        BY <2>2 DEF Types, Indexes
      <3>2. [[reader[r] EXCEPT !.step = "load"] EXCEPT !.index.built_at = now] \in Calls
        BY <2>1, <3>1 DEF Calls, ReaderSteps
      <3>3. reader' \in [Readers -> Calls]
        BY <2>3, <3>2 DEF Stamp, Types
      <3>4. QED
        BY <2>3, <3>3 DEF Stamp, Types, storeVars, cacheVars
    <2>4. CASE Load(r)
      <3>1. [reader[r].index EXCEPT !.version = store[reader[r].kb]] \in Indexes
        BY <2>2 DEF Indexes
      <3>2. [[reader[r] EXCEPT !.step = "insert"] EXCEPT !.index.version = store[reader[r].kb]]
              \in Calls
        BY <2>1, <3>1 DEF Calls, ReaderSteps
      <3>3. reader' \in [Readers -> Calls]
        BY <2>4, <3>2 DEF Load, Types
      <3>4. QED
        BY <2>4, <3>3 DEF Load, Types, storeVars, cacheVars
    <2>5. CASE LoadRaises(r) \/ Return(r)
      BY <2>5, Nothing DEF LoadRaises, Return, Types, storeVars, cacheVars
    <2>6. QED
      BY <1>10, <2>3, <2>4, <2>5
  <1>11. ASSUME NEW r \in Readers, Insert(r) PROVE Types'
    <2>1. reader[r] \in Calls
      BY DEF Types
    <2>2. reader[r].index \in Indexes /\ reader[r].kb \in Kbs
      BY <2>1 DEF Calls
    <2>3. [reader[r] EXCEPT !.step = "done"] \in Calls
      BY <2>1 DEF Calls, ReaderSteps
    <2>4. reader' \in [Readers -> Calls]
      BY <1>11, <2>3 DEF Insert, Types
    <2>5. entry' \in [Kbs -> Indexes] /\ cached' \subseteq Kbs
      BY <1>11, <2>2 DEF Insert, Types
    <2>6. QED
      BY <1>11, <2>4, <2>5 DEF Insert, Types, storeVars
  <1>12. QED
    BY <1>1, <1>2, <1>4, <1>5, <1>6, <1>8, <1>9, <1>10, <1>11 DEF Next

(***************************************************************************)
(* Freshness.                                                              *)
(***************************************************************************)
LEMMA InitFresh == Init => FreshInv
  BY InitTypes DEF Init, FreshInv, ToldApplied, BuildsKnow, BuildKnows, CallsSee, CallSees,
                    CacheSeesWrites, NoCall, NoWrite

(* Applying a write only makes the store newer.                            *)
LEMMA ApplyFresh ==
  ASSUME FreshInv, NEW k \in Kbs, Apply(k), Types', UNCHANGED <<told, cacheVars, reader>>,
         \A w \in Writers : writer'[w].step = "written" =>
           \/ writer'[w].version <= store[writer'[w].kb]
           \/ writer'[w].kb = k /\ writer'[w].version <= store[k] + 1
  PROVE  FreshInv'
  <1>0. \A j \in Kbs : store[j] \in Nat /\ told[j] \in Nat
    BY Numbers DEF FreshInv, Types
  <1>1. \A j \in Kbs : /\ store[j] \in Nat /\ store'[j] \in Nat /\ told[j] \in Nat
                       /\ store[j] <= store'[j]
    <2>1. \A j \in Kbs : store'[j] = IF j = k THEN store[k] + 1 ELSE store[j]
      BY DEF FreshInv, Types, Apply
    <2>2. QED
      BY <1>0, <2>1
  <1>2. store'[k] = store[k] + 1
    BY DEF FreshInv, Types, Apply
  <1>3. ToldApplied'
    <2>1. \A w \in Writers : writer'[w].kb \in Kbs /\ writer'[w].version \in Nat
      BY Numbers DEF Types, Writes
    <2>2. \A w \in Writers : writer'[w].step = "written" => writer'[w].version <= store'[writer'[w].kb]
      BY <1>1, <1>2, <2>1
    <2>3. \A j \in Kbs : told'[j] <= store'[j]
      BY <1>1 DEF FreshInv, ToldApplied
    <2>4. QED
      BY <2>2, <2>3 DEF ToldApplied
  <1>4. BuildsKnow'
    BY DEF FreshInv, BuildsKnow, BuildKnows, cacheVars
  <1>5. CallsSee'
    <2>1. \A r \in Readers : reader[r].kb \in Kbs /\ reader[r].owed \in Nat
      BY Numbers DEF FreshInv, Types, Calls
    <2>2. ASSUME NEW r \in Readers PROVE CallSees(reader[r])'
      <3>1. CallSees(reader[r]) /\ reader'[r] = reader[r]
        BY DEF FreshInv, CallsSee
      <3>2. QED
        BY <1>1, <2>1, <3>1 DEF CallSees
    <2>3. QED
      BY <2>2 DEF CallsSee
  <1>6. CacheSeesWrites'
    BY DEF FreshInv, CacheSeesWrites, cacheVars
  <1>7. QED
    BY <1>3, <1>4, <1>5, <1>6 DEF FreshInv

(* An invalidation drops the entry or outdates the builds that may lack the write. *)
LEMMA NotifyFresh ==
  ASSUME FreshInv, NEW w \in Writers, Notify(w), Types'
  PROVE  FreshInv'
  <1> DEFINE k == writer[w].kb
             v == writer[w].version
  <1>1. /\ writer[w].step = "written" /\ k \in Kbs /\ v \in Nat /\ v <= store[k]
        /\ \A j \in Kbs : told[j] \in Nat /\ store[j] \in Nat /\ generations[j] \in Nat
    BY Numbers DEF FreshInv, Types, Writes, Notify, ToldApplied
  <1>2. /\ cached' = cached \ {k}
        /\ generations' = [generations EXCEPT ![k] = @ + 1]
        /\ told' = [told EXCEPT ![k] = IF @ < v THEN v ELSE @]
        /\ writer' = [writer EXCEPT ![w] = NoWrite]
        /\ UNCHANGED <<now, store, changed_at, entry, reader>>
    BY DEF Notify, Invalidate, Drop, storeVars
  <1>3. ToldApplied'
    BY <1>1, <1>2 DEF FreshInv, ToldApplied, Types, NoWrite
  <1>4. BuildsKnow'
    <2>1. generations'[k] = generations[k] + 1
      BY <1>1, <1>2 DEF FreshInv, Types
    <2>2. \A j \in Kbs \ {k} : generations'[j] = generations[j] /\ told'[j] = told[j]
      BY <1>2 DEF FreshInv, Types
    <2>3. ASSUME NEW r \in Readers, reader[r].step # "idle" PROVE BuildKnows(reader[r])'
      <3>1. /\ reader[r].kb \in Kbs
            /\ reader[r].generation \in Nat
            /\ reader[r].generation <= generations[reader[r].kb]
            /\ BuildKnows(reader[r])
        BY <2>3 DEF FreshInv, BuildsKnow, BuildKnows, Types, Calls
      <3>2. CASE reader[r].kb = k
        <4>1. generations[k] \in Nat
          BY <1>1
        <4>2. /\ reader[r].generation <= generations'[reader[r].kb]
              /\ reader[r].generation # generations'[reader[r].kb]
          BY <2>1, <3>1, <3>2, <4>1
        <4>3. QED
          BY <1>2, <4>2 DEF BuildKnows
      <3>3. CASE reader[r].kb # k
        BY <1>2, <2>2, <3>1, <3>3 DEF BuildKnows
      <3>4. QED
        BY <3>2, <3>3
    <2>4. ASSUME NEW r \in Readers, reader[r].step = "idle" PROVE BuildKnows(reader[r])'
      BY <1>2, <2>4 DEF BuildKnows
    <2>5. QED
      BY <2>3, <2>4 DEF BuildsKnow
  <1>5. CallsSee'
    BY <1>2 DEF FreshInv, CallsSee, CallSees
  <1>6. CacheSeesWrites'
    BY <1>1, <1>2 DEF FreshInv, CacheSeesWrites, Types
  <1>7. QED
    BY <1>3, <1>4, <1>5, <1>6 DEF FreshInv

(* The lookup, the clock reading and the load of one get().                *)
LEMMA ReadFresh ==
  ASSUME FreshInv, NEW r \in Readers, Types',
         \/ \E k \in Kbs : Hit(r, k) \/ Miss(r, k)
         \/ Stamp(r) \/ Load(r) \/ LoadRaises(r) \/ Return(r)
  PROVE  FreshInv'
  <1>1. /\ UNCHANGED <<store, told, entry, generations, writer>>
        /\ cached' \subseteq cached
        /\ \A q \in Readers \ {r} : reader'[q] = reader[q]
    BY DEF Hit, Miss, Drop, Call, Stamp, Load, LoadRaises, Return, storeVars, cacheVars,
           FreshInv, Types
  <1>2. ToldApplied' /\ CacheSeesWrites'
    BY <1>1 DEF FreshInv, ToldApplied, CacheSeesWrites
  <1>3. \A j \in Kbs : /\ told[j] \in Nat /\ store[j] \in Nat /\ generations[j] \in Nat
                       /\ told[j] <= store[j]
    BY Numbers DEF FreshInv, ToldApplied, Types
  <1>4. reader[r] \in Calls /\ BuildKnows(reader[r]) /\ CallSees(reader[r])
    BY DEF FreshInv, Types, BuildsKnow, CallsSee
  <1>5. BuildKnows(reader'[r]) /\ CallSees(reader'[r])
    <2>1. ASSUME NEW k \in Kbs, Hit(r, k) PROVE BuildKnows(reader'[r]) /\ CallSees(reader'[r])
      <3>1. reader'[r] = [step |-> "done", kb |-> k, generation |-> generations[k],
                          index |-> entry[k], asked_at |-> now, owed |-> told[k]]
        BY <2>1 DEF Hit, Call, FreshInv, Types
      <3>2. entry[k].version >= told[k]
        BY <2>1 DEF Hit, FreshInv, CacheSeesWrites
      <3>3. QED
        BY <1>3, <3>1, <3>2 DEF BuildKnows, CallSees
    <2>2. ASSUME NEW k \in Kbs, Miss(r, k) PROVE BuildKnows(reader'[r]) /\ CallSees(reader'[r])
      <3>1. reader'[r] = [step |-> "stamp", kb |-> k, generation |-> generations[k],
                          index |-> NoIndex, asked_at |-> now, owed |-> told[k]]
        BY <2>2 DEF Miss, Call, FreshInv, Types
      <3>2. QED
        BY <1>3, <3>1 DEF BuildKnows, CallSees
    <2>3. CASE Stamp(r)
      <3>1. reader'[r] = [[reader[r] EXCEPT !.step = "load"] EXCEPT !.index.built_at = now]
        BY <2>3 DEF Stamp, FreshInv, Types
      <3>2. reader[r].step = "stamp"
        BY <2>3 DEF Stamp
      <3>3. /\ reader'[r].step = "load"
            /\ reader'[r].kb = reader[r].kb
            /\ reader'[r].generation = reader[r].generation
            /\ reader'[r].owed = reader[r].owed
        BY <1>4, <3>1 DEF Calls
      <3>4. QED
        BY <1>4, <3>2, <3>3 DEF BuildKnows, CallSees
    <2>4. CASE Load(r)
      <3>1. reader'[r] = [[reader[r] EXCEPT !.step = "insert"]
                            EXCEPT !.index.version = store[reader[r].kb]]
        BY <2>4 DEF Load, FreshInv, Types
      <3>2. /\ reader[r].step = "load"
            /\ reader[r].index \in Indexes
            /\ reader[r].kb \in Kbs
            /\ reader[r].owed \in Nat
        BY <1>4, <2>4, Numbers DEF Calls, Load
      <3>3. /\ reader'[r].step = "insert"
            /\ reader'[r].kb = reader[r].kb
            /\ reader'[r].generation = reader[r].generation
            /\ reader'[r].owed = reader[r].owed
        BY <1>4, <3>1 DEF Calls
      <3>4. reader'[r].index = [reader[r].index EXCEPT !.version = store[reader[r].kb]]
        BY <1>4, <3>1 DEF Calls
      <3>5. reader'[r].index.version = store[reader[r].kb]
        BY <3>2, <3>4 DEF Indexes
      <3>6. QED
        BY <1>3, <1>4, <3>2, <3>3, <3>5 DEF BuildKnows, CallSees
    <2>5. CASE LoadRaises(r) \/ Return(r)
      <3>1. reader'[r].step = "idle"
        BY <2>5 DEF LoadRaises, Return, NoCall, FreshInv, Types
      <3>2. QED
        BY <3>1 DEF BuildKnows, CallSees
    <2>6. QED
      BY <2>1, <2>2, <2>3, <2>4, <2>5
  <1>6. BuildsKnow' /\ CallsSee'
    BY <1>1, <1>5 DEF FreshInv, BuildsKnow, CallsSee, BuildKnows, CallSees
  <1>7. QED
    BY <1>2, <1>6 DEF FreshInv

(* What is inserted was built in the current generation, so it has every notified write. *)
LEMMA InsertFresh ==
  ASSUME FreshInv, NEW r \in Readers, Insert(r), Types'
  PROVE  FreshInv'
  <1> DEFINE k == reader[r].kb
  <1>1. /\ reader[r] \in Calls /\ k \in Kbs /\ reader[r].step = "insert"
        /\ UNCHANGED <<store, told, generations, writer>>
    BY DEF FreshInv, Types, Calls, Insert, storeVars
  <1>2. /\ reader'[r] = [reader[r] EXCEPT !.step = "done"]
        /\ \A q \in Readers \ {r} : reader'[q] = reader[q]
    BY DEF Insert, FreshInv, Types
  <1>3. /\ reader'[r].step = "done"
        /\ reader'[r].kb = k
        /\ reader'[r].generation = reader[r].generation
        /\ reader'[r].owed = reader[r].owed
        /\ reader'[r].index = reader[r].index
    BY <1>1, <1>2 DEF Calls
  <1>4. ToldApplied'
    BY <1>1 DEF FreshInv, ToldApplied
  <1>5. BuildsKnow' /\ CallsSee'
    <2>1. \A q \in Readers : BuildKnows(reader[q]) /\ CallSees(reader[q])
      BY DEF FreshInv, BuildsKnow, CallsSee
    <2>2. ASSUME NEW q \in Readers, q # r PROVE BuildKnows(reader[q])' /\ CallSees(reader[q])'
      BY <1>1, <1>2, <2>1, <2>2 DEF BuildKnows, CallSees
    <2>3. BuildKnows(reader[r])'
      BY <1>1, <1>3, <2>1 DEF BuildKnows
    <2>4. CallSees(reader[r])'
      BY <1>1, <1>3, <2>1 DEF CallSees
    <2>5. QED
      BY <2>2, <2>3, <2>4 DEF BuildsKnow, CallsSee
  <1>6. CacheSeesWrites'
    <2>1. CASE generations[k] = reader[r].generation
      <3>1. reader[r].index.version >= told[k]
        BY <1>1, <2>1 DEF FreshInv, BuildsKnow, BuildKnows
      <3>2. cached' \subseteq cached \cup {k} /\ entry' = [entry EXCEPT ![k] = reader[r].index]
        BY <2>1 DEF Insert
      <3>3. QED
        BY <1>1, <3>1, <3>2 DEF FreshInv, CacheSeesWrites, Types
    <2>2. CASE generations[k] # reader[r].generation
      BY <1>1, <2>2 DEF Insert, FreshInv, CacheSeesWrites
    <2>3. QED
      BY <2>1, <2>2
  <1>7. QED
    BY <1>4, <1>5, <1>6 DEF FreshInv

(* Every step keeps FreshInv. *)
LEMMA NextFresh == FreshInv /\ [Next]_vars => FreshInv'
  <1> SUFFICES ASSUME FreshInv, [Next]_vars PROVE FreshInv'
    OBVIOUS
  <1>1. Types'
    BY NextTypes DEF FreshInv
  <1>2. CASE UNCHANGED vars \/ Tick
    BY <1>1, <1>2 DEF vars, Tick, storeVars, cacheVars, FreshInv, ToldApplied, BuildsKnow, BuildKnows,
                      CallsSee, CallSees, CacheSeesWrites
  <1>3. ASSUME NEW k \in Kbs, ForeignWrite(k) PROVE FreshInv'
    <2>1. UNCHANGED <<told, cacheVars, reader, writer>> /\ Apply(k)
      BY <1>3 DEF ForeignWrite
    <2>2. QED
      BY <1>1, <2>1, ApplyFresh DEF FreshInv, ToldApplied
  <1>4. ASSUME NEW w \in Writers, NEW k \in Kbs, Write(w, k) PROVE FreshInv'
    <2>1. /\ UNCHANGED <<told, cacheVars, reader>> /\ Apply(k)
          /\ writer' = [writer EXCEPT ![w] = [step |-> "written", kb |-> k, version |-> store[k] + 1]]
      BY <1>4 DEF Write
    <2>2. store[k] \in Nat
      BY Numbers DEF FreshInv, Types
    <2>3. \A x \in Writers : writer'[x].step = "written" =>
            \/ writer'[x].version <= store[writer'[x].kb]
            \/ writer'[x].kb = k /\ writer'[x].version <= store[k] + 1
      BY <2>1, <2>2 DEF FreshInv, ToldApplied, Types
    <2>4. QED
      BY <1>1, <2>1, <2>3, ApplyFresh
  <1>5. QED
    BY <1>1, <1>2, <1>3, <1>4, NotifyFresh, ReadFresh, InsertFresh DEF Next

(* FreshInv holds in every reachable state. *)
LEMMA SpecFresh == Spec => []FreshInv
  BY InitFresh, NextFresh, PTL DEF Spec

(* No cached index predates a write this process was notified of.          *)
THEOREM CacheAlwaysSeesWrites == Spec => []CacheSeesWrites
  <1>1. FreshInv => CacheSeesWrites
    BY DEF FreshInv
  <1>2. QED
    BY <1>1, SpecFresh, PTL

(* No get() answers with an index that predates a write notified before it.*)
THEOREM AnswersAlwaysSeeWrites == Spec => []AnswerSeesWrites
  <1>1. FreshInv => AnswerSeesWrites
    BY DEF FreshInv, CallsSee, CallSees, AnswerSeesWrites
  <1>2. QED
    BY <1>1, SpecFresh, PTL

(* Neither cached index nor answer lacks a notified write.                 *)
THEOREM WritesAreAlwaysSeen == Spec => []WritesAreSeen
  <1>1. CacheSeesWrites /\ AnswerSeesWrites => WritesAreSeen
    BY DEF WritesAreSeen
  <1>2. QED
    BY <1>1, CacheAlwaysSeesWrites, AnswersAlwaysSeeWrites, PTL

(***************************************************************************)
(* Age.                                                                    *)
(***************************************************************************)

(* What an index of knowledge base k lacks was written after its built_at. *)
LacksOnlySince(k, index, time) ==
    \A v \in 1..store[k] : v > index.version => changed_at[k][v] >= time

(* The answer of a finished call lacks only what AnswerWithinTtl allows.   *)
AgeKnown(call) ==
    /\ call.step # "idle" => call.asked_at <= now
    /\ call.step \in {"load", "insert"} =>
         call.asked_at <= call.index.built_at /\ call.index.built_at <= now
    /\ call.step = "insert" => LacksOnlySince(call.kb, call.index, call.index.built_at)
    /\ call.step = "done" => LacksOnlySince(call.kb, call.index, call.asked_at - Ttl)

CallAges == \A r \in Readers : AgeKnown(reader[r])

CacheAges ==
    \A k \in cached : /\ entry[k].built_at <= now
                      /\ LacksOnlySince(k, entry[k], entry[k].built_at)

AgeInv == Types /\ CallAges /\ CacheAges

(* Nothing has an age in the beginning. *)
LEMMA InitAge == Init => AgeInv
  BY InitTypes DEF Init, AgeInv, CallAges, AgeKnown, CacheAges, NoCall

(* The numbers a state holds, spelled out for the arithmetic of the steps. *)
LEMMA CallTypes ==
  ASSUME Types
  PROVE  /\ now \in Nat
         /\ \A k \in Kbs : store[k] \in Nat /\ entry[k].built_at \in Nat /\ entry[k].version \in Nat
         /\ \A r \in Readers :
              /\ reader[r] \in Calls
              /\ reader[r].kb \in Kbs /\ reader[r].asked_at \in Nat
              /\ reader[r].index \in Indexes
              /\ reader[r].index.built_at \in Nat /\ reader[r].index.version \in Nat
         /\ \A k \in Kbs, v \in 1..MaxWrites : changed_at[k][v] \in Nat
         /\ \A k \in Kbs : store[k] <= MaxWrites
  <1>1. now \in Nat /\ \A k \in Kbs : store[k] \in Nat /\ entry[k] \in Indexes
    BY Numbers DEF Types
  <1>2. \A k \in Kbs : entry[k].built_at \in Nat /\ entry[k].version \in Nat
    BY <1>1, Numbers DEF Indexes
  <1>3. \A r \in Readers : reader[r] \in Calls
    BY DEF Types
  <1>4. \A r \in Readers : /\ reader[r].kb \in Kbs /\ reader[r].asked_at \in Nat
                          /\ reader[r].index \in Indexes
    BY <1>3, Numbers DEF Calls
  <1>5. \A r \in Readers : reader[r].index.built_at \in Nat /\ reader[r].index.version \in Nat
    BY <1>4, Numbers DEF Indexes
  <1>6. \A k \in Kbs, v \in 1..MaxWrites : changed_at[k][v] \in Nat
    BY Numbers DEF Types
  <1>7. \A k \in Kbs : store[k] <= MaxWrites
    BY BoundsAssumption DEF Types, Versions
  <1>8. QED
    BY <1>1, <1>2, <1>3, <1>4, <1>5, <1>6, <1>7

(* A write is stamped with the present, which is later than any built_at.  *)
LEMMA ApplyAge ==
  ASSUME AgeInv, NEW k \in Kbs, Apply(k), Types', UNCHANGED <<now, cacheVars, reader>>
  PROVE  AgeInv'
  <1>1. ASSUME NEW j \in Kbs, NEW index, NEW time \in Int, time <= now, index.version \in Nat,
               LacksOnlySince(j, index, time)
        PROVE  LacksOnlySince(j, index, time)'
    <2>1. store[k] \in Nat /\ store[k] < MaxWrites /\ MaxWrites \in Nat /\ now \in Nat
      BY CallTypes, BoundsAssumption DEF AgeInv, Apply
    <2>2. /\ store'[k] = store[k] + 1
          /\ changed_at'[k] = [changed_at[k] EXCEPT ![store[k] + 1] = now]
          /\ DOMAIN changed_at[k] = 1..MaxWrites
          /\ j # k => store'[j] = store[j] /\ changed_at'[j] = changed_at[j]
      BY DEF AgeInv, Types, Apply
    <2>3. CASE j # k
      BY <1>1, <2>2, <2>3 DEF LacksOnlySince
    <2>4. CASE j = k
      <3>1. ASSUME NEW v \in 1..(store[k] + 1), v > index.version
            PROVE  changed_at'[k][v] >= time
        <4>1. CASE v = store[k] + 1
          <5>1. v \in 1..MaxWrites
            BY <2>1, <4>1
          <5>2. changed_at'[k][v] = now
            BY <2>2, <4>1, <5>1
          <5>3. QED
            BY <1>1, <2>1, <5>2
        <4>2. CASE v # store[k] + 1
          <5>1. v \in 1..store[k]
            BY <2>1, <4>2
          <5>2. changed_at[k][v] >= time
            BY <1>1, <2>4, <3>1, <5>1 DEF LacksOnlySince
          <5>3. v \in 1..MaxWrites
            BY <2>1, <5>1
          <5>4. changed_at'[k][v] = changed_at[k][v]
            BY <2>2, <4>2, <5>3
          <5>5. QED
            BY <5>2, <5>4
        <4>3. QED
          BY <4>1, <4>2
      <3>2. QED
        BY <2>2, <2>4, <3>1 DEF LacksOnlySince
    <2>5. QED
      BY <2>3, <2>4
  <1>2. CallAges'
    <2>1. ASSUME NEW r \in Readers PROVE AgeKnown(reader[r])'
      <3>1. AgeKnown(reader[r]) /\ reader'[r] = reader[r] /\ now' = now
        BY DEF AgeInv, CallAges
      <3>2. /\ now \in Nat /\ reader[r].kb \in Kbs /\ reader[r].asked_at \in Nat
            /\ reader[r].index.built_at \in Nat /\ reader[r].index.version \in Nat
            /\ Ttl \in Nat
        BY CallTypes, TtlAssumption DEF AgeInv
      <3>3. reader[r].step = "insert" =>
              LacksOnlySince(reader[r].kb, reader[r].index, reader[r].index.built_at)'
        BY <1>1, <3>1, <3>2 DEF AgeKnown
      <3>4. reader[r].step = "done" =>
              LacksOnlySince(reader[r].kb, reader[r].index, reader[r].asked_at - Ttl)'
        <4>1. ASSUME reader[r].step = "done"
              PROVE  /\ reader[r].asked_at - Ttl \in Int
                     /\ reader[r].asked_at - Ttl <= now
          BY <3>1, <3>2, <4>1 DEF AgeKnown
        <4>2. QED
          BY <1>1, <3>1, <3>2, <4>1 DEF AgeKnown
      <3>5. QED
        BY <3>1, <3>3, <3>4 DEF AgeKnown
    <2>2. QED
      BY <2>1 DEF CallAges
  <1>3. CacheAges'
    <2>1. ASSUME NEW j \in cached
          PROVE  entry[j].built_at <= now /\ LacksOnlySince(j, entry[j], entry[j].built_at)'
      <3>1. /\ j \in Kbs /\ entry[j].built_at \in Nat /\ entry[j].version \in Nat
            /\ entry[j].built_at <= now /\ LacksOnlySince(j, entry[j], entry[j].built_at)
        BY CallTypes DEF AgeInv, CacheAges, Types
      <3>2. LacksOnlySince(j, entry[j], entry[j].built_at)'
        <4>1. entry[j].built_at \in Int /\ entry' = entry
          BY <3>1 DEF cacheVars
        <4>2. \A time \in Int : (time <= now /\ LacksOnlySince(j, entry[j], time))
                              => \A v \in 1..store'[j] : v > entry[j].version => changed_at'[j][v] >= time
          BY <1>1, <3>1 DEF LacksOnlySince
        <4>3. QED
          BY <3>1, <4>1, <4>2 DEF LacksOnlySince
      <3>3. QED
        BY <3>1, <3>2
    <2>2. QED
      BY <2>1 DEF CacheAges, cacheVars
  <1>4. QED
    BY <1>2, <1>3 DEF AgeInv

(* The lookup, the clock reading and the load of one get().                *)
LEMMA ReadAge ==
  ASSUME AgeInv, NEW r \in Readers, Types',
         \/ \E k \in Kbs : Hit(r, k) \/ Miss(r, k)
         \/ Stamp(r) \/ Load(r) \/ LoadRaises(r) \/ Return(r)
  PROVE  AgeInv'
  <1>1. /\ UNCHANGED <<now, store, changed_at, entry>>
        /\ cached' \subseteq cached
        /\ \A q \in Readers \ {r} : reader'[q] = reader[q]
    BY DEF Hit, Miss, Drop, Call, Stamp, Load, LoadRaises, Return, storeVars, cacheVars,
           AgeInv, Types
  <1>2. CacheAges'
    BY <1>1 DEF AgeInv, CacheAges, LacksOnlySince
  <1>3. /\ now \in Nat /\ Ttl \in Nat
        /\ reader[r] \in Calls /\ AgeKnown(reader[r])
        /\ reader[r].kb \in Kbs /\ reader[r].asked_at \in Nat
        /\ reader[r].index \in Indexes /\ reader[r].index.built_at \in Nat
    BY CallTypes, TtlAssumption DEF AgeInv, CallAges
  <1>4. AgeKnown(reader'[r])
    <2>1. ASSUME NEW k \in Kbs, Hit(r, k) PROVE AgeKnown(reader'[r])
      <3>1. reader'[r] = [step |-> "done", kb |-> k, generation |-> generations[k],
                          index |-> entry[k], asked_at |-> now, owed |-> told[k]]
        BY <2>1 DEF Hit, Call, AgeInv, Types
      <3>2. /\ entry[k].built_at \in Nat
            /\ now - entry[k].built_at <= Ttl
            /\ LacksOnlySince(k, entry[k], entry[k].built_at)
        BY <2>1, CallTypes DEF Hit, Fresh, AgeInv, CacheAges
      <3>3. /\ store[k] \in Nat /\ store[k] <= MaxWrites /\ MaxWrites \in Nat
            /\ \A v \in 1..MaxWrites : changed_at[k][v] \in Nat
        BY CallTypes, BoundsAssumption DEF AgeInv
      <3>4. LacksOnlySince(k, entry[k], now - Ttl)
        <4>1. ASSUME NEW v \in 1..store[k], v > entry[k].version
              PROVE  changed_at[k][v] >= now - Ttl
          <5>1. v \in 1..MaxWrites
            BY <3>3
          <5>2. changed_at[k][v] >= entry[k].built_at /\ changed_at[k][v] \in Nat
            BY <3>2, <3>3, <4>1, <5>1 DEF LacksOnlySince
          <5>3. QED
            BY <1>3, <3>2, <5>2
        <4>2. QED
          BY <4>1 DEF LacksOnlySince
      <3>5. QED
        BY <1>3, <3>1, <3>4 DEF AgeKnown
    <2>2. ASSUME NEW k \in Kbs, Miss(r, k) PROVE AgeKnown(reader'[r])
      <3>1. reader'[r] = [step |-> "stamp", kb |-> k, generation |-> generations[k],
                          index |-> NoIndex, asked_at |-> now, owed |-> told[k]]
        BY <2>2 DEF Miss, Call, AgeInv, Types
      <3>2. QED
        BY <1>3, <3>1 DEF AgeKnown
    <2>3. CASE Stamp(r)
      <3>1. reader'[r] = [[reader[r] EXCEPT !.step = "load"] EXCEPT !.index.built_at = now]
        BY <2>3 DEF Stamp, AgeInv, Types
      <3>2. reader[r].step = "stamp"
        BY <2>3 DEF Stamp
      <3>3. /\ reader'[r].step = "load"
            /\ reader'[r].asked_at = reader[r].asked_at
            /\ reader'[r].index = [reader[r].index EXCEPT !.built_at = now]
        BY <1>3, <3>1 DEF Calls
      <3>4. reader'[r].index.built_at = now
        BY <1>3, <3>3 DEF Indexes
      <3>5. QED
        BY <1>3, <3>2, <3>3, <3>4 DEF AgeKnown
    <2>4. CASE Load(r)
      <3>1. reader'[r] = [[reader[r] EXCEPT !.step = "insert"]
                            EXCEPT !.index.version = store[reader[r].kb]]
        BY <2>4 DEF Load, AgeInv, Types
      <3>2. reader[r].step = "load"
        BY <2>4 DEF Load
      <3>3. /\ reader'[r].step = "insert"
            /\ reader'[r].kb = reader[r].kb
            /\ reader'[r].asked_at = reader[r].asked_at
            /\ reader'[r].index = [reader[r].index EXCEPT !.version = store[reader[r].kb]]
        BY <1>3, <3>1 DEF Calls
      <3>4. /\ reader'[r].index.version = store[reader[r].kb]
            /\ reader'[r].index.built_at = reader[r].index.built_at
        BY <1>3, <3>3 DEF Indexes
      <3>5. store[reader[r].kb] \in Nat
        BY <1>3, CallTypes DEF AgeInv
      <3>6. LacksOnlySince(reader'[r].kb, reader'[r].index, reader'[r].index.built_at)
        BY <3>3, <3>4, <3>5 DEF LacksOnlySince
      <3>7. QED
        BY <1>3, <3>2, <3>3, <3>4, <3>6 DEF AgeKnown
    <2>5. CASE LoadRaises(r) \/ Return(r)
      <3>1. reader'[r].step = "idle"
        BY <2>5 DEF LoadRaises, Return, NoCall, AgeInv, Types
      <3>2. QED
        BY <3>1 DEF AgeKnown
    <2>6. QED
      BY <2>1, <2>2, <2>3, <2>4, <2>5
  <1>5. CallAges'
    BY <1>1, <1>4 DEF AgeInv, CallAges, AgeKnown, LacksOnlySince
  <1>6. QED
    BY <1>2, <1>5 DEF AgeInv

(* Inserting and evicting keep the ages of entries. *)
LEMMA InsertAge ==
  ASSUME AgeInv, NEW r \in Readers, Insert(r), Types'
  PROVE  AgeInv'
  <1> DEFINE k == reader[r].kb
             index == reader[r].index
  <1>1. /\ reader[r].step = "insert"
        /\ UNCHANGED <<now, store, changed_at>>
        /\ reader'[r] = [reader[r] EXCEPT !.step = "done"]
        /\ \A q \in Readers \ {r} : reader'[q] = reader[q]
    BY DEF Insert, storeVars, AgeInv, Types
  <1>2. /\ reader[r] \in Calls /\ k \in Kbs /\ now \in Nat /\ Ttl \in Nat
        /\ reader[r].asked_at \in Nat /\ index.built_at \in Nat
        /\ store[k] \in Nat /\ store[k] <= MaxWrites /\ MaxWrites \in Nat
        /\ \A v \in 1..MaxWrites : changed_at[k][v] \in Nat
    BY CallTypes, TtlAssumption, BoundsAssumption DEF AgeInv
  <1>3. /\ reader[r].asked_at <= now
        /\ reader[r].asked_at <= index.built_at
        /\ index.built_at <= now
        /\ LacksOnlySince(k, index, index.built_at)
    BY <1>1 DEF AgeInv, CallAges, AgeKnown
  <1>4. LacksOnlySince(k, index, reader[r].asked_at - Ttl)
    <2>1. ASSUME NEW v \in 1..store[k], v > index.version
          PROVE  changed_at[k][v] >= reader[r].asked_at - Ttl
      <3>1. v \in 1..MaxWrites
        BY <1>2
      <3>2. changed_at[k][v] >= index.built_at /\ changed_at[k][v] \in Nat
        BY <1>2, <1>3, <2>1, <3>1 DEF LacksOnlySince
      <3>3. QED
        BY <1>2, <1>3, <3>2
    <2>2. QED
      BY <2>1 DEF LacksOnlySince
  <1>5. /\ reader'[r].step = "done" /\ reader'[r].kb = k /\ reader'[r].index = index
        /\ reader'[r].asked_at = reader[r].asked_at
    BY <1>1, <1>2 DEF Calls
  <1>6. CallAges'
    <2>1. AgeKnown(reader[r])'
      BY <1>1, <1>3, <1>4, <1>5 DEF AgeKnown, LacksOnlySince
    <2>2. ASSUME NEW q \in Readers \ {r} PROVE AgeKnown(reader[q])'
      BY <1>1 DEF AgeInv, CallAges, AgeKnown, LacksOnlySince
    <2>3. QED
      BY <2>1, <2>2 DEF CallAges
  <1>7. CacheAges'
    <2>1. CASE generations[k] = reader[r].generation
      <3>1. /\ cached' \subseteq cached \cup {k}
            /\ entry'[k] = index
            /\ \A j \in Kbs \ {k} : entry'[j] = entry[j]
        BY <1>2, <2>1 DEF Insert, AgeInv, Types
      <3>2. ASSUME NEW j \in cached', j # k
            PROVE  entry'[j].built_at <= now' /\ LacksOnlySince(j, entry[j], entry[j].built_at)'
        <4>1. j \in cached /\ entry'[j] = entry[j]
          BY <3>1, <3>2 DEF AgeInv, Types
        <4>2. entry[j].built_at <= now /\ LacksOnlySince(j, entry[j], entry[j].built_at)
          BY <4>1 DEF AgeInv, CacheAges
        <4>3. QED
          BY <1>1, <4>1, <4>2 DEF LacksOnlySince
      <3>3. ASSUME NEW j \in cached', j = k
            PROVE  entry'[j].built_at <= now' /\ LacksOnlySince(j, entry[j], entry[j].built_at)'
        BY <1>1, <1>3, <3>1, <3>3 DEF LacksOnlySince
      <3>4. QED
        BY <3>2, <3>3 DEF CacheAges
    <2>2. CASE generations[k] # reader[r].generation
      BY <1>1, <2>2 DEF Insert, AgeInv, CacheAges, LacksOnlySince
    <2>3. QED
      BY <2>1, <2>2
  <1>8. QED
    BY <1>6, <1>7 DEF AgeInv

(* Every step keeps AgeInv. *)
LEMMA NextAge == AgeInv /\ [Next]_vars => AgeInv'
  <1> SUFFICES ASSUME AgeInv, [Next]_vars PROVE AgeInv'
    OBVIOUS
  <1>1. Types'
    BY NextTypes DEF AgeInv
  <1>2. CASE UNCHANGED vars
    BY <1>1, <1>2 DEF vars, storeVars, cacheVars, AgeInv, CallAges, CacheAges, AgeKnown, LacksOnlySince
  <1>3. CASE Tick
    <2>1. /\ now' = now + 1 /\ now \in Nat
          /\ \A k \in Kbs : entry[k].built_at \in Nat
          /\ \A r \in Readers : reader[r].asked_at \in Nat /\ reader[r].index.built_at \in Nat
      BY <1>3, CallTypes DEF Tick, AgeInv
    <2>2. UNCHANGED <<storeVars, cacheVars, reader>>
      BY <1>3 DEF Tick
    <2>3. ASSUME NEW r \in Readers PROVE AgeKnown(reader[r])'
      <3>1. AgeKnown(reader[r])
        BY DEF AgeInv, CallAges
      <3>2. QED
        BY <2>1, <2>2, <3>1 DEF AgeKnown, LacksOnlySince, storeVars
    <2>4. ASSUME NEW k \in cached
          PROVE  entry[k].built_at <= now' /\ LacksOnlySince(k, entry[k], entry[k].built_at)'
      <3>1. /\ entry[k].built_at <= now /\ entry[k].built_at \in Nat
            /\ LacksOnlySince(k, entry[k], entry[k].built_at)
        BY <2>1 DEF AgeInv, CacheAges, Types
      <3>2. QED
        BY <2>1, <2>2, <3>1 DEF LacksOnlySince, storeVars, cacheVars
    <2>5. QED
      BY <1>1, <2>2, <2>3, <2>4 DEF AgeInv, CallAges, CacheAges, cacheVars
  <1>4. ASSUME NEW k \in Kbs, ForeignWrite(k) PROVE AgeInv'
    BY <1>1, <1>4, ApplyAge DEF ForeignWrite
  <1>5. ASSUME NEW w \in Writers, NEW k \in Kbs, Write(w, k) PROVE AgeInv'
    BY <1>1, <1>5, ApplyAge DEF Write
  <1>6. ASSUME NEW w \in Writers, Notify(w) PROVE AgeInv'
    <2>1. UNCHANGED <<now, storeVars, entry, reader>> /\ cached' \subseteq cached
      BY <1>6 DEF Notify, Invalidate, Drop
    <2>2. QED
      BY <1>1, <2>1 DEF AgeInv, CallAges, CacheAges, AgeKnown, LacksOnlySince, storeVars
  <1>7. QED
    BY <1>1, <1>2, <1>3, <1>4, <1>5, <1>6, ReadAge, InsertAge DEF Next

(* An answer lacks no write, notified or not, that was made more than Ttl  *)
(* before the question.                                                    *)
THEOREM AnswersAlwaysWithinTtl == Spec => []AnswerWithinTtl
  <1>1. Spec => []AgeInv
    BY InitAge, NextAge, PTL DEF Spec
  <1>2. AgeInv => AnswerWithinTtl
    BY DEF AgeInv, CallAges, AgeKnown, LacksOnlySince, AnswerWithinTtl
  <1>3. QED
    BY <1>1, <1>2, PTL

(***************************************************************************)
(* The order of use.  It is a sequence of distinct keys, the cached ones,  *)
(* so that what popitem takes from its front is an index that is cached.   *)
(***************************************************************************)
LruInv == Types /\ lru \in Seq(Kbs) /\ CacheBounded

(* Dropping a key keeps the order of the others. *)
LEMMA DropLru ==
  ASSUME LruInv, NEW k \in Kbs, Drop(k), Types'
  PROVE  LruInv'
  <1>1. /\ lru \in Seq(Kbs) /\ IsInjective(lru) /\ cached = ToSet(lru)
        /\ Len(lru) <= MaxIndexes /\ lru' = RemoveFirst(lru, k) /\ cached' = cached \ {k}
    BY DEF LruInv, CacheBounded, Drop
  <1>2. /\ lru' \in Seq(Kbs) /\ IsInjective(lru') /\ cached' = ToSet(lru')
        /\ Len(lru') <= Len(lru)
    BY <1>1, RemoveFirstDistinct
  <1>3. Len(lru') <= MaxIndexes
    <2>1. Len(lru) \in Nat /\ Len(lru') \in Nat /\ MaxIndexes \in Nat
      BY <1>1, <1>2, MaxIndexesAssumption
    <2>2. QED
      BY <1>1, <1>2, <2>1
  <1>4. QED
    BY <1>2, <1>3 DEF LruInv, CacheBounded

(* Making room keeps distinct keys, at most MaxIndexes of them. *)
LEMMA EvictFits ==
  ASSUME NEW keys \in Seq(Kbs), IsInjective(keys)
  PROVE  /\ Evict(keys) \in Seq(Kbs)
         /\ IsInjective(Evict(keys))
         /\ ToSet(Evict(keys)) \subseteq ToSet(keys)
         /\ Len(Evict(keys)) <= MaxIndexes
  <1>1. MaxIndexes \in Nat \ {0} /\ Len(keys) \in Nat
    BY MaxIndexesAssumption
  <1>2. CASE Len(keys) <= MaxIndexes
    BY <1>2 DEF Evict
  <1>3. CASE ~ Len(keys) <= MaxIndexes
    <2>1. MaxIndexes <= Len(keys)
      BY <1>1, <1>3
    <2>2. Evict(keys) = SubSeq(keys, Len(keys) - MaxIndexes + 1, Len(keys))
      BY <1>3 DEF Evict
    <2>3. QED
      BY <1>1, <2>1, <2>2, SuffixDistinct
  <1>4. QED
    BY <1>2, <1>3

(* Caching a build keeps the order one of the cached keys. *)
LEMMA InsertLru ==
  ASSUME LruInv, NEW r \in Readers, Insert(r), Types'
  PROVE  LruInv'
  <1>1. CASE generations[reader[r].kb] # reader[r].generation
    BY <1>1 DEF Insert, LruInv, CacheBounded
  <1>2. CASE generations[reader[r].kb] = reader[r].generation
    <2>1. PICK k \in Kbs : k = reader[r].kb
      BY DEF LruInv, Types, Calls
    <2>2. PICK keys : keys = Append(RemoveFirst(lru, k), k)
      OBVIOUS
    <2>3. /\ lru' = Evict(keys)
          /\ cached' = {j \in cached \cup {k} : \E i \in DOMAIN lru' : lru'[i] = j}
      BY <1>2, <2>1, <2>2 DEF Insert
    <2>4. lru \in Seq(Kbs) /\ IsInjective(lru) /\ cached = ToSet(lru)
      BY DEF LruInv, CacheBounded
    <2>5. keys \in Seq(Kbs) /\ IsInjective(keys) /\ ToSet(keys) = cached \cup {k}
      BY <2>1, <2>2, <2>4, MovedToEnd
    <2>6. /\ lru' \in Seq(Kbs) /\ IsInjective(lru') /\ Len(lru') <= MaxIndexes
          /\ ToSet(lru') \subseteq cached \cup {k}
      BY <2>3, <2>5, EvictFits
    <2>7. cached' = ToSet(lru')
      BY <2>3, <2>6 DEF ToSet
    <2>8. QED
      BY <2>6, <2>7 DEF LruInv, CacheBounded
  <1>3. QED
    BY <1>1, <1>2

(* Every step keeps LruInv. *)
LEMMA NextLru == LruInv /\ [Next]_vars => LruInv'
  <1> SUFFICES ASSUME LruInv, [Next]_vars PROVE LruInv'
    OBVIOUS
  <1>1. Types'
    BY NextTypes DEF LruInv
  <1>2. CASE UNCHANGED <<lru, cached>>
    BY <1>1, <1>2 DEF LruInv, CacheBounded
  <1>3. ASSUME NEW r \in Readers, NEW k \in Kbs, Hit(r, k) PROVE LruInv'
    <2>1. /\ lru \in Seq(Kbs) /\ IsInjective(lru) /\ cached = ToSet(lru) /\ k \in ToSet(lru)
          /\ Len(lru) <= MaxIndexes /\ lru' = Append(RemoveFirst(lru, k), k) /\ cached' = cached
      BY <1>3 DEF LruInv, CacheBounded, Hit
    <2>2. /\ lru' \in Seq(Kbs) /\ IsInjective(lru') /\ ToSet(lru') = ToSet(lru) \cup {k}
          /\ Len(lru') = Len(lru)
      BY <2>1, MovedToEnd
    <2>3. QED
      BY <1>1, <2>1, <2>2 DEF LruInv, CacheBounded
  <1>4. ASSUME NEW r \in Readers, NEW k \in Kbs, Miss(r, k) PROVE LruInv'
    BY <1>1, <1>4, DropLru DEF Miss
  <1>5. ASSUME NEW w \in Writers, Notify(w) PROVE LruInv'
    <2>1. writer[w].kb \in Kbs
      BY DEF LruInv, Types, Writes
    <2>2. Drop(writer[w].kb)
      BY <1>5 DEF Notify, Invalidate
    <2>3. QED
      BY <1>1, <2>1, <2>2, DropLru
  <1>6. ASSUME NEW r \in Readers, Insert(r) PROVE LruInv'
    BY <1>1, <1>6, InsertLru
  <1>7. CASE UNCHANGED vars
    BY <1>2, <1>7 DEF vars, cacheVars
  <1>8. CASE Tick \/ \E k \in Kbs : ForeignWrite(k) \/ \E w \in Writers : Write(w, k)
    BY <1>2, <1>8 DEF Tick, ForeignWrite, Write, cacheVars
  <1>9. CASE \E r \in Readers : Stamp(r) \/ Load(r) \/ LoadRaises(r) \/ Return(r)
    BY <1>2, <1>9 DEF Stamp, Load, LoadRaises, Return, cacheVars
  <1>10. QED
    BY <1>3, <1>4, <1>5, <1>6, <1>7, <1>8, <1>9 DEF Next

(* The cache begins empty. *)
LEMMA InitLru == Init => LruInv
  <1> SUFFICES ASSUME Init PROVE LruInv
    OBVIOUS
  <1>1. lru = <<>> /\ cached = {} /\ DOMAIN lru = {} /\ Len(lru) = 0 /\ lru \in Seq(Kbs)
    BY DEF Init
  <1>2. ToSet(lru) = {} /\ IsInjective(lru)
    BY <1>1 DEF ToSet, IsInjective
  <1>3. QED
    BY <1>1, <1>2, InitTypes, MaxIndexesAssumption DEF LruInv, CacheBounded

(* However lookups, builds and invalidations interleave, at most           *)
(* MaxIndexes indexes are cached, and each has one place in the order of   *)
(* use from which it can be evicted.                                       *)
THEOREM CacheAlwaysBounded == Spec => []CacheBounded
  <1>1. Init => LruInv
    BY InitLru
  <1>2. LruInv => CacheBounded
    BY DEF LruInv
  <1>3. QED
    BY <1>1, <1>2, NextLru, PTL DEF Spec

(* The types of all variables, the order of use with them. *)
THEOREM CacheTypesHold == Spec => []TypeOK
  <1>1. Init => LruInv
    BY InitLru
  <1>2. LruInv => TypeOK
    BY DEF LruInv, Types, TypeOK
  <1>3. QED
    BY <1>1, <1>2, NextLru, PTL DEF Spec
=============================================================================
