------------------------------ MODULE CachesProofs ------------------------------
(***************************************************************************)
(* Proofs about what the process keeps between requests and what it reads  *)
(* of the documents: the cache of collection handles, the semantic cache   *)
(* and the lists of the metadata branch.                                   *)
(***************************************************************************)
EXTENDS Handles, SemanticCache, Metadata, SequenceLemmas

(***************************************************************************)
(* The collection handles.  The names after a thread's own in the order of *)
(* the cache were looked up since, so its handle goes first only after     *)
(* max_collections others.                                                 *)
(***************************************************************************)

(* The elements after n. *)
After(c, n) == {e \in ToSet(c) : \E i, j \in 1..Len(c) : i < j /\ c[i] = n /\ c[j] = e}

Recent(l, c) ==
    l.at = "done" /\ ~l.evicted =>
        /\ After(c, l.name) \subseteq l.others
        /\ l.name \in ToSet(c) \/ Cardinality(l.others) >= MaxCollections

HandlesInv ==
    /\ HandlesTypeOK
    /\ HandlesBounded
    /\ \A t \in Threads : IsFiniteSet(lookup[t].others) /\ Recent(lookup[t], cached)

(* Taking an element out leaves the order of the others. *)
LEMMA AfterRemoved ==
  ASSUME NEW S, NEW c \in Seq(S), IsInjective(c), NEW e, NEW n
  PROVE  After(RemoveFirst(c, e), n) \subseteq After(c, n)
<1>1. CASE e \notin ToSet(c)
  <2>1. RemoveFirst(c, e) = c
    <3>1. \A i \in 1..Len(c) : c[i] # e
      BY <1>1, ElementsAt
    <3> QED BY <3>1 DEF RemoveFirst
  <2> QED BY <2>1
<1>2. CASE e \in ToSet(c)
  <2>1. PICK p \in 1..Len(c) : c[p] = e
    BY <1>2, ElementsAt
  <2> DEFINE r == RemoveFirst(c, e)
  <2>2. r = RemoveAt(c, p)
    BY <2>1, OnlyPosition
  <2>3. /\ r \in Seq(S) /\ Len(r) = Len(c) - 1
        /\ \A j \in 1..(Len(c) - 1) : r[j] = IF j < p THEN c[j] ELSE c[j + 1]
    <3>1. /\ RemoveAt(c, p) \in Seq(S) /\ Len(RemoveAt(c, p)) = Len(c) - 1
          /\ \A j \in 1..(Len(c) - 1) : RemoveAt(c, p)[j] = IF j < p THEN c[j] ELSE c[j + 1]
      BY RemoveAtAt
    <3> QED BY <2>2, <3>1
  <2> HIDE DEF r
  <2> SUFFICES ASSUME NEW d \in After(r, n) PROVE d \in After(c, n)
    BY DEF r
  <2>4. PICK i \in 1..Len(r), j \in 1..Len(r) : i < j /\ r[i] = n /\ r[j] = d
    BY DEF After
  <2> DEFINE at(x) == IF x < p THEN x ELSE x + 1
  <2>5. ASSUME NEW x \in 1..Len(r) PROVE at(x) \in 1..Len(c) /\ c[at(x)] = r[x]
    <3>1. x \in 1..(Len(c) - 1) /\ Len(c) \in Nat
      BY <2>3
    <3>2. CASE x < p
      BY <2>3, <3>1, <3>2
    <3>3. CASE ~(x < p)
      BY <2>3, <3>1, <3>3
    <3> QED BY <3>2, <3>3
  <2>6. at(i) < at(j)
    BY <2>4
  <2> HIDE DEF at
  <2>7. PICK k \in 1..Len(c) : c[k] = n /\ k = at(i)
    BY <2>4, <2>5
  <2>8. PICK l \in 1..Len(c) : c[l] = d /\ l = at(j)
    BY <2>4, <2>5
  <2>9. k < l
    BY <2>7, <2>8, <2>6
  <2>10. d \in ToSet(c)
    BY <2>8, ElementsAt
  <2> QED BY <2>7, <2>8, <2>9, <2>10 DEF After
<1> QED BY <1>1, <1>2

(* An element appended comes after all the others. *)
LEMMA AfterAppended ==
  ASSUME NEW S, NEW c \in Seq(S), NEW e \in S, e \notin ToSet(c), NEW n
  PROVE  /\ After(Append(c, e), n) \subseteq After(c, n) \cup {e}
         /\ After(Append(c, e), e) = {}
<1> DEFINE a == Append(c, e)
<1>1. /\ a \in Seq(S) /\ Len(a) = Len(c) + 1 /\ Len(c) \in Nat
      /\ \A i \in 1..Len(c) : a[i] = c[i]
      /\ a[Len(c) + 1] = e
  OBVIOUS
<1> HIDE DEF a
<1>2. \A i \in 1..Len(a) : i \in 1..Len(c) \/ i = Len(c) + 1
  BY <1>1
<1>3. \A i \in 1..Len(c) : c[i] # e
  BY ElementsAt
<1>4. ASSUME NEW d \in After(a, n) PROVE d \in After(c, n) \cup {e}
  <2>1. PICK i \in 1..Len(a), j \in 1..Len(a) : i < j /\ a[i] = n /\ a[j] = d
    BY <1>4 DEF After
  <2>2. CASE j = Len(c) + 1
    BY <1>1, <2>1, <2>2
  <2>3. CASE j \in 1..Len(c)
    <3>1. i \in 1..Len(c)
      BY <1>1, <2>1, <2>3
    <3>2. c[i] = n /\ c[j] = d
      BY <1>1, <2>1, <2>3, <3>1
    <3>3. d \in ToSet(c)
      BY <2>3, <3>2, ElementsAt
    <3> QED BY <2>1, <2>3, <3>1, <3>2, <3>3 DEF After
  <2> QED BY <1>2, <2>2, <2>3
<1>5. ASSUME NEW d \in After(a, e) PROVE FALSE
  <2>1. PICK i \in 1..Len(a), j \in 1..Len(a) : i < j /\ a[i] = e /\ a[j] = d
    BY <1>5 DEF After
  <2>2. i \in 1..Len(c)
    BY <1>1, <2>1
  <2> QED BY <1>1, <1>3, <2>1, <2>2
<1> QED BY <1>4, <1>5 DEF a

(* A lookup that ends makes its collection the last of the order, for the  *)
(* other threads one more collection looked up.                            *)
LEMMA LookupEnds ==
  ASSUME HandlesInv, NEW t \in Threads, NEW name \in Collections, Returns(t, name)
  PROVE  /\ lookup' \in [Threads -> Lookups]
         /\ MoveToEnd(name) \in Seq(Collections) /\ IsInjective(MoveToEnd(name))
         /\ Len(MoveToEnd(name)) = IF name \in ToSet(cached) THEN Len(cached) ELSE Len(cached) + 1
         /\ \A s \in Threads : IsFiniteSet(lookup'[s].others) /\ Recent(lookup'[s], MoveToEnd(name))
<1> DEFINE m == MoveToEnd(name)
           r == RemoveFirst(cached, name)
<1>1. cached \in Seq(Collections) /\ lookup \in [Threads -> Lookups] /\ IsInjective(cached)
  BY DEF HandlesInv, HandlesTypeOK, HandlesBounded
<1>2. /\ m \in Seq(Collections) /\ IsInjective(m) /\ ToSet(m) = ToSet(cached) \cup {name}
      /\ Len(m) = IF name \in ToSet(cached) THEN Len(cached) ELSE Len(cached) + 1
  BY <1>1, MovedToEnd DEF MoveToEnd
<1>3. r \in Seq(Collections) /\ name \notin ToSet(r)
  BY <1>1, RemoveFirstDistinct
<1>4. \A n : After(r, n) \subseteq After(cached, n)
  BY <1>1, AfterRemoved
<1>5. m = Append(r, name)
  BY DEF MoveToEnd
<1> HIDE DEF m, r
<1>6. After(m, name) = {} /\ \A n : After(m, n) \subseteq After(cached, n) \cup {name}
  <2>1. \A n : After(m, n) \subseteq After(r, n) \cup {name} /\ After(m, name) = {}
    BY <1>3, <1>5, AfterAppended
  <2> QED BY <1>4, <2>1
<1>7. \A s \in Threads : lookup'[s] =
        IF s = t THEN [at |-> "done", name |-> name, others |-> {}, evicted |-> FALSE]
        ELSE IF lookup[s].at = "done" /\ lookup[s].name # name
             THEN [lookup[s] EXCEPT !.others = @ \cup {name}] ELSE lookup[s]
  BY DEF Returns
<1>8. lookup' \in [Threads -> Lookups]
  <2>1. ASSUME NEW s \in Threads PROVE lookup'[s] \in Lookups
    <3>1. lookup[s] \in Lookups
      BY <1>1
    <3>2. CASE s = t
      <4>1. lookup'[s] = [at |-> "done", name |-> name, others |-> {}, evicted |-> FALSE]
        BY <1>7, <3>2
      <4> QED BY <4>1 DEF Lookups
    <3>3. CASE s # t /\ lookup[s].at = "done" /\ lookup[s].name # name
      <4>1. lookup'[s] = [lookup[s] EXCEPT !.others = @ \cup {name}]
        BY <1>7, <3>3
      <4>2. lookup[s].others \cup {name} \in SUBSET Collections
        BY <3>1 DEF Lookups
      <4> QED BY <3>1, <4>1, <4>2 DEF Lookups
    <3>4. CASE s # t /\ ~(lookup[s].at = "done" /\ lookup[s].name # name)
      BY <1>7, <3>1, <3>4
    <3> QED BY <3>2, <3>3, <3>4
  <2>2. DOMAIN lookup' = Threads /\ lookup' = [s \in Threads |-> lookup'[s]]
    BY DEF Returns
  <2> QED BY <2>1, <2>2
<1>9. ASSUME NEW s \in Threads PROVE IsFiniteSet(lookup'[s].others) /\ Recent(lookup'[s], m)
  <2>1. IsFiniteSet(lookup[s].others) /\ Recent(lookup[s], cached) /\ lookup[s] \in Lookups
    BY <1>1 DEF HandlesInv
  <2>2. CASE s = t
    <3>1. lookup'[s] = [at |-> "done", name |-> name, others |-> {}, evicted |-> FALSE]
      BY <1>7, <2>2
    <3>2. lookup'[s].others = {} /\ lookup'[s].name = name
      BY <3>1
    <3> QED BY <1>2, <1>6, <3>2, FS_EmptySet DEF Recent
  <2>3. CASE s # t /\ lookup[s].at = "done" /\ lookup[s].name # name
    <3>1. lookup'[s] = [lookup[s] EXCEPT !.others = @ \cup {name}]
      BY <1>7, <2>3
    <3>2. /\ lookup'[s].others = lookup[s].others \cup {name} /\ lookup'[s].name = lookup[s].name
          /\ lookup'[s].at = lookup[s].at /\ lookup'[s].evicted = lookup[s].evicted
      BY <2>1, <3>1 DEF Lookups
    <3>3. /\ IsFiniteSet(lookup'[s].others)
          /\ Cardinality(lookup'[s].others) >= Cardinality(lookup[s].others)
          /\ Cardinality(lookup'[s].others) \in Nat /\ Cardinality(lookup[s].others) \in Nat
      <4> DEFINE o == lookup[s].others
      <4>1. IsFiniteSet(o \cup {name})
            /\ Cardinality(o \cup {name}) = IF name \in o THEN Cardinality(o) ELSE Cardinality(o) + 1
        BY <2>1, FS_AddElement
      <4>2. Cardinality(o) \in Nat
        BY <2>1, FS_CardinalityType
      <4> QED BY <3>2, <4>1, <4>2
    <3>4. SUFFICES ASSUME lookup[s].at = "done", ~lookup[s].evicted
                   PROVE  /\ After(m, lookup[s].name) \subseteq lookup[s].others \cup {name}
                          /\ lookup[s].name \in ToSet(m)
                             \/ Cardinality(lookup'[s].others) >= MaxCollections
      BY <3>2, <3>3 DEF Recent
    <3>5. /\ After(cached, lookup[s].name) \subseteq lookup[s].others
          /\ lookup[s].name \in ToSet(cached) \/ Cardinality(lookup[s].others) >= MaxCollections
      BY <2>1, <3>4 DEF Recent
    <3>6. After(m, lookup[s].name) \subseteq lookup[s].others \cup {name}
      BY <1>6, <3>5
    <3>7. lookup[s].name \in ToSet(m) \/ Cardinality(lookup'[s].others) >= MaxCollections
      BY <1>2, <3>3, <3>5, HandlesAssumption
    <3> QED BY <3>6, <3>7
  <2>4. CASE s # t /\ lookup[s].at = "done" /\ lookup[s].name = name
    <3>1. lookup'[s] = lookup[s]
      BY <1>7, <2>4
    <3> QED BY <1>2, <1>6, <2>1, <2>4, <3>1 DEF Recent
  <2>5. CASE s # t /\ lookup[s].at # "done"
    <3>1. lookup'[s] = lookup[s]
      BY <1>7, <2>5
    <3> QED BY <2>1, <2>5, <3>1 DEF Recent
  <2> QED BY <2>2, <2>3, <2>4, <2>5
<1> QED BY <1>2, <1>8, <1>9 DEF m

(* Whose handle is the first of more than fit has seen as many others as   *)
(* fit.                                                                    *)
LEMMA FirstGoes ==
  ASSUME NEW c \in Seq(Collections), IsInjective(c), Len(c) = MaxCollections + 1,
         NEW l \in Lookups, IsFiniteSet(l.others), Recent(l, c)
  PROVE  Recent(l, Tail(c))
<1> DEFINE d == Tail(c)
<1>1. MaxCollections \in Nat \ {0}
  BY HandlesAssumption
<1>2. /\ d \in Seq(Collections) /\ Len(d) = MaxCollections
      /\ \A i \in 1..MaxCollections : d[i] = c[i + 1] /\ i + 1 \in 1..Len(c)
  BY <1>1
<1> HIDE DEF d
<1> SUFFICES ASSUME l.at = "done", ~l.evicted
             PROVE  /\ After(d, l.name) \subseteq l.others
                    /\ l.name \in ToSet(d) \/ Cardinality(l.others) >= MaxCollections
  BY DEF Recent, d
<1>3. /\ After(c, l.name) \subseteq l.others
      /\ l.name \in ToSet(c) \/ Cardinality(l.others) >= MaxCollections
  BY DEF Recent
<1>4. After(d, l.name) \subseteq After(c, l.name)
  <2> SUFFICES ASSUME NEW e \in After(d, l.name) PROVE e \in After(c, l.name)
    OBVIOUS
  <2>1. PICK i \in 1..Len(d), j \in 1..Len(d) : i < j /\ d[i] = l.name /\ d[j] = e
    BY DEF After
  <2>2. c[i + 1] = l.name /\ c[j + 1] = e /\ i + 1 \in 1..Len(c) /\ j + 1 \in 1..Len(c) /\ i + 1 < j + 1
    BY <1>1, <1>2, <2>1
  <2>3. e \in ToSet(c)
    BY <2>2, ElementsAt
  <2> QED BY <2>2, <2>3 DEF After
<1>5. ASSUME l.name \notin ToSet(d), l.name \in ToSet(c) PROVE Cardinality(l.others) >= MaxCollections
  <2>1. PICK p \in 1..Len(c) : c[p] = l.name
    BY <1>5, ElementsAt
  <2>2. p = 1
    <3> SUFFICES ASSUME p # 1 PROVE FALSE
      OBVIOUS
    <3>1. p - 1 \in 1..Len(d) /\ d[p - 1] = c[p]
      BY <1>1, <1>2
    <3> QED BY <1>2, <1>5, <2>1, <3>1, ElementsAt
  <2>3. ASSUME NEW i \in 1..MaxCollections PROVE d[i] \in l.others
    <3>1. i + 1 \in 1..Len(c) /\ 1 < i + 1 /\ d[i] = c[i + 1] /\ 1 \in 1..Len(c)
      BY <1>1, <1>2
    <3>2. d[i] \in ToSet(c)
      BY <3>1, ElementsAt
    <3>3. d[i] \in After(c, l.name)
      BY <2>1, <2>2, <3>1, <3>2 DEF After
    <3> QED BY <1>3, <3>3
  <2>4. ASSUME NEW i \in 1..MaxCollections, NEW j \in 1..MaxCollections, d[i] = d[j] PROVE i = j
    <3>1. i + 1 \in DOMAIN c /\ j + 1 \in DOMAIN c /\ c[i + 1] = c[j + 1]
      BY <1>1, <1>2, <2>4
    <3>2. i + 1 = j + 1
      BY <3>1 DEF IsInjective
    <3> QED BY <1>1, <3>2
  <2> DEFINE f == [i \in 1..MaxCollections |-> d[i]]
  <2>5. f \in Injection(1..MaxCollections, l.others)
    BY <2>3, <2>4 DEF Injection, IsInjective
  <2> HIDE DEF f
  <2>6. Cardinality(1..MaxCollections) <= Cardinality(l.others)
    BY <2>5, FS_Injection
  <2>7. Cardinality(1..MaxCollections) = MaxCollections
    BY <1>1, PositionsCount
  <2>8. Cardinality(l.others) \in Nat
    BY FS_CardinalityType
  <2> QED BY <1>1, <2>6, <2>7, <2>8
<1> QED BY <1>3, <1>4, <1>5

(* A hit keeps the handles in use. *)
LEMMA HitKeeps ==
  ASSUME HandlesInv, NEW t \in Threads, CacheHit(t)
  PROVE  HandlesInv'
<1>1. PICK name \in ToSet(cached) : Returns(t, name) /\ cached' = MoveToEnd(name)
  BY DEF CacheHit
<1>2. cached \in Seq(Collections) /\ Len(cached) <= MaxCollections /\ name \in Collections
  BY ElementsAt DEF HandlesInv, HandlesTypeOK, HandlesBounded
<1>3. /\ lookup' \in [Threads -> Lookups]
      /\ cached' \in Seq(Collections) /\ IsInjective(cached') /\ Len(cached') = Len(cached)
      /\ \A s \in Threads : IsFiniteSet(lookup'[s].others) /\ Recent(lookup'[s], cached')
  BY <1>1, <1>2, LookupEnds
<1>4. HandlesTypeOK' /\ HandlesBounded'
  BY <1>2, <1>3 DEF HandlesTypeOK, HandlesBounded
<1>5. ASSUME NEW s \in Threads PROVE (IsFiniteSet(lookup[s].others) /\ Recent(lookup[s], cached))'
  BY <1>3 DEF Recent, After
<1> QED BY <1>4, <1>5 DEF HandlesInv

(* Storing a handle evicts the least recently used one only. *)
LEMMA StoreKeeps ==
  ASSUME HandlesInv, NEW t \in Threads, StoreHandle(t)
  PROVE  HandlesInv'
<1> DEFINE name == lookup[t].name
           m == MoveToEnd(name)
<1>1. Returns(t, name) /\ cached' = Within(m)
  BY DEF StoreHandle
<1>2. /\ cached \in Seq(Collections) /\ Len(cached) <= MaxCollections /\ name \in Collections
      /\ MaxCollections \in Nat \ {0} /\ Len(cached) \in Nat
  BY HandlesAssumption DEF HandlesInv, HandlesTypeOK, HandlesBounded, Lookups
<1> HIDE DEF name
<1>3. /\ lookup' \in [Threads -> Lookups]
      /\ m \in Seq(Collections) /\ IsInjective(m) /\ Len(m) <= MaxCollections + 1
      /\ \A s \in Threads : IsFiniteSet(lookup'[s].others) /\ Recent(lookup'[s], m)
  <2>1. Len(m) = IF name \in ToSet(cached) THEN Len(cached) ELSE Len(cached) + 1
    BY <1>1, <1>2, LookupEnds
  <2>2. Len(m) <= MaxCollections + 1
    BY <1>2, <2>1
  <2> QED BY <1>1, <1>2, <2>2, LookupEnds
<1> HIDE DEF m
<1>4. /\ cached' \in Seq(Collections) /\ IsInjective(cached') /\ Len(cached') <= MaxCollections
      /\ \A s \in Threads : Recent(lookup'[s], cached')
  <2>1. CASE Len(m) > MaxCollections
    <3>1. cached' = Tail(m) /\ Len(m) = MaxCollections + 1
      BY <1>1, <1>2, <1>3, <2>1 DEF Within
    <3>2. /\ Tail(m) \in Seq(Collections) /\ Len(Tail(m)) = MaxCollections
          /\ \A i \in 1..MaxCollections : Tail(m)[i] = m[i + 1] /\ i + 1 \in DOMAIN m
      BY <1>2, <1>3, <3>1
    <3>3. IsInjective(Tail(m))
      <4> SUFFICES ASSUME NEW i \in 1..MaxCollections, NEW j \in 1..MaxCollections,
                          Tail(m)[i] = Tail(m)[j]
                   PROVE  i = j
        BY <3>2 DEF IsInjective
      <4>1. i + 1 = j + 1
        BY <1>3, <3>2 DEF IsInjective
      <4> QED BY <1>2, <4>1
    <3>4. ASSUME NEW s \in Threads PROVE Recent(lookup'[s], Tail(m))
      <4>1. lookup'[s] \in Lookups
        BY <1>3
      <4> QED BY <1>3, <3>1, <4>1, FirstGoes
    <3> QED BY <1>2, <3>1, <3>2, <3>3, <3>4
  <2>2. CASE ~(Len(m) > MaxCollections)
    <3>1. cached' = m
      BY <1>1, <2>2 DEF Within
    <3> QED BY <1>2, <1>3, <2>2, <3>1
  <2> QED BY <2>1, <2>2
<1>5. HandlesTypeOK' /\ HandlesBounded'
  BY <1>3, <1>4 DEF HandlesTypeOK, HandlesBounded
<1>6. ASSUME NEW s \in Threads PROVE (IsFiniteSet(lookup[s].others) /\ Recent(lookup[s], cached))'
  BY <1>3, <1>4 DEF Recent, After
<1> QED BY <1>5, <1>6 DEF HandlesInv

(* A miss and a failed build end the thread's claim on its handle. *)
LEMMA MissKeeps ==
  ASSUME HandlesInv, NEW t \in Threads, CacheMiss(t) \/ BuildFails(t)
  PROVE  HandlesInv'
<1>1. cached' = cached /\ lookup \in [Threads -> Lookups]
  BY DEF CacheMiss, BuildFails, HandlesInv, HandlesTypeOK
<1>2. PICK new \in Lookups : /\ lookup' = [lookup EXCEPT ![t] = new] /\ new.at # "done"
                             /\ IsFiniteSet(new.others)
  <2>1. CASE CacheMiss(t)
    <3>1. PICK name \in Collections \ ToSet(cached) :
            lookup' = [lookup EXCEPT ![t] = [at |-> "build", name |-> name, others |-> {}, evicted |-> FALSE]]
      BY <2>1 DEF CacheMiss
    <3> DEFINE new == [at |-> "build", name |-> name, others |-> {}, evicted |-> FALSE]
    <3>2. new \in Lookups /\ new.at # "done" /\ IsFiniteSet(new.others)
      BY FS_EmptySet DEF Lookups
    <3> QED BY <3>1, <3>2
  <2>2. CASE BuildFails(t)
    <3> DEFINE new == [lookup[t] EXCEPT !.at = "idle"]
    <3>1. lookup' = [lookup EXCEPT ![t] = new]
      BY <1>1, <2>2 DEF BuildFails
    <3>2. new \in Lookups /\ new.at # "done" /\ new.others = lookup[t].others
      BY <1>1 DEF Lookups
    <3>3. IsFiniteSet(lookup[t].others)
      BY DEF HandlesInv
    <3> QED BY <3>1, <3>2, <3>3
  <2> QED BY <2>1, <2>2
<1>3. lookup' \in [Threads -> Lookups]
  BY <1>1, <1>2
<1>4. HandlesTypeOK' /\ HandlesBounded'
  BY <1>1, <1>3 DEF HandlesInv, HandlesTypeOK, HandlesBounded
<1>5. ASSUME NEW s \in Threads PROVE IsFiniteSet(lookup'[s].others) /\ Recent(lookup'[s], cached)
  <2>1. lookup'[s] = IF s = t THEN new ELSE lookup[s]
    BY <1>1, <1>2
  <2>2. IsFiniteSet(lookup[s].others) /\ Recent(lookup[s], cached)
    BY DEF HandlesInv
  <2>3. CASE s = t
    BY <1>2, <2>1, <2>3 DEF Recent
  <2>4. CASE s # t
    BY <2>1, <2>2, <2>4
  <2> QED BY <2>3, <2>4
<1>6. ASSUME NEW s \in Threads PROVE (IsFiniteSet(lookup[s].others) /\ Recent(lookup[s], cached))'
  BY <1>1, <1>5 DEF Recent, After
<1> QED BY <1>4, <1>6 DEF HandlesInv

(* An eviction takes the handle from those who hold it, and from no other. *)
LEMMA EvictKeeps ==
  ASSUME HandlesInv, Evict
  PROVE  HandlesInv'
<1>1. PICK name \in Collections :
        /\ cached' = RemoveFirst(cached, name)
        /\ lookup' = [t \in Threads |-> IF lookup[t].name = name
                                        THEN [lookup[t] EXCEPT !.evicted = TRUE] ELSE lookup[t]]
  BY DEF Evict
<1>2. /\ cached \in Seq(Collections) /\ IsInjective(cached) /\ Len(cached) <= MaxCollections
      /\ lookup \in [Threads -> Lookups] /\ MaxCollections \in Nat
  BY HandlesAssumption DEF HandlesInv, HandlesTypeOK, HandlesBounded
<1>3. /\ cached' \in Seq(Collections) /\ IsInjective(cached') /\ ToSet(cached') = ToSet(cached) \ {name}
      /\ Len(cached') <= Len(cached)
  BY <1>1, <1>2, RemoveFirstDistinct
<1>4. \A n : After(cached', n) \subseteq After(cached, n)
  <2>1. \A n : After(RemoveFirst(cached, name), n) \subseteq After(cached, n)
    BY <1>2, AfterRemoved
  <2> QED BY <1>1, <2>1
<1>5. ASSUME NEW s \in Threads
      PROVE  lookup'[s] \in Lookups /\ IsFiniteSet(lookup'[s].others) /\ Recent(lookup'[s], cached')
  <2>1. IsFiniteSet(lookup[s].others) /\ Recent(lookup[s], cached) /\ lookup[s] \in Lookups
    BY <1>2 DEF HandlesInv
  <2>2. CASE lookup[s].name = name
    <3>1. lookup'[s] = [lookup[s] EXCEPT !.evicted = TRUE]
      BY <1>1, <2>2
    <3>2. lookup'[s] \in Lookups /\ lookup'[s].others = lookup[s].others /\ lookup'[s].evicted
      BY <2>1, <3>1 DEF Lookups
    <3> QED BY <2>1, <3>2 DEF Recent
  <2>3. CASE lookup[s].name # name
    <3>1. lookup'[s] = lookup[s]
      BY <1>1, <2>3
    <3> QED BY <1>3, <1>4, <2>1, <2>3, <3>1 DEF Recent
  <2> QED BY <2>2, <2>3
<1>6. lookup' \in [Threads -> Lookups]
  BY <1>1, <1>5
<1>7. HandlesTypeOK' /\ HandlesBounded'
  <2>1. Len(cached') <= MaxCollections
    BY <1>2, <1>3
  <2> QED BY <1>3, <1>6, <2>1 DEF HandlesTypeOK, HandlesBounded
<1>8. ASSUME NEW s \in Threads PROVE (IsFiniteSet(lookup[s].others) /\ Recent(lookup[s], cached))'
  BY <1>5 DEF Recent, After
<1> QED BY <1>7, <1>8 DEF HandlesInv

(* An empty cache to start with. *)
LEMMA HandlesInitInv == HandlesInit => HandlesInv
<1> SUFFICES ASSUME HandlesInit PROVE HandlesInv
  OBVIOUS
<1>1. cached = <<>>
  BY DEF HandlesInit
<1>2. cached \in Seq(Collections) /\ Len(cached) = 0 /\ DOMAIN cached = {}
  BY <1>1
<1>3. IsInjective(cached)
  BY <1>2 DEF IsInjective
<1>4. ASSUME NEW t \in Threads
      PROVE  lookup[t] \in Lookups /\ lookup[t].others = {} /\ lookup[t].at = "idle"
  <2>1. lookup[t] \in [at: {"idle"}, name: Collections, others: {{}}, evicted: {FALSE}]
    BY DEF HandlesInit
  <2> QED BY <2>1 DEF Lookups
<1>5. lookup \in [Threads -> Lookups]
  BY <1>4 DEF HandlesInit
<1>6. HandlesTypeOK /\ HandlesBounded
  BY <1>2, <1>3, <1>5, HandlesAssumption DEF HandlesTypeOK, HandlesBounded
<1>7. ASSUME NEW t \in Threads PROVE IsFiniteSet(lookup[t].others) /\ Recent(lookup[t], cached)
  BY <1>4, FS_EmptySet DEF Recent
<1> QED BY <1>6, <1>7 DEF HandlesInv

(* For any number of threads and collections: the cache holds a name once  *)
(* and never more than max_collections, and a thread's last handle stays   *)
(* until that many others were looked up or its collection was evicted.    *)
THEOREM HandlesAlwaysKept == HandlesSpec => []HandlesAreKept
<1>1. HandlesInit => HandlesInv
  BY HandlesInitInv
<1>2. HandlesInv /\ [HandlesNext]_handlesVars => HandlesInv'
  <2> SUFFICES ASSUME HandlesInv, [HandlesNext]_handlesVars PROVE HandlesInv'
    OBVIOUS
  <2>1. CASE UNCHANGED handlesVars
    BY <2>1 DEF handlesVars, HandlesInv, HandlesTypeOK, HandlesBounded, Recent, After
  <2> QED BY <2>1, EvictKeeps, HitKeeps, MissKeeps, StoreKeeps DEF HandlesNext
<1>3. HandlesInv => HandlesAreKept
  BY DEF HandlesInv, HandlesAreKept, RecentHandleStays, Recent
<1> QED BY <1>1, <1>2, <1>3, PTL DEF HandlesSpec

(***************************************************************************)
(* The semantic cache.  The entries stand in the order of their dates and  *)
(* none is from the future; the candidates of a get() matched when it came,*)
(* and nothing of a call is answered before it is over.                    *)
(***************************************************************************)

MatchedWhenAsked(l, e) ==
    /\ e.cache_key = l.cache_key
    /\ e.router_version = l.router_version
    /\ l.asked_at - e.created_at <= TtlSeconds

CallRight(l) ==
    /\ l.state = "get" => \A i \in 1..Len(l.candidates) : MatchedWhenAsked(l, l.candidates[i])
    /\ l.state # "answered" => l.answer = <<>>
    /\ l.answer # <<>> => /\ MatchedWhenAsked(l, l.answer[1])
                          /\ Similarity(l.answer[1].vector, l.vector) > 0

InDateOrder(s) ==
    /\ \A i, j \in 1..Len(s) : i < j => s[i].created_at <= s[j].created_at
    /\ \A i \in 1..Len(s) : s[i].created_at <= now

SemanticInv ==
    /\ SemanticTypeOK
    /\ Len(entries) <= MaxEntries
    /\ InDateOrder(entries)
    /\ \A c \in Callers : CallRight(call[c])

(* The purge keeps the fresh entries, in their order. *)
LEMMA PurgedKeeps ==
  ASSUME SemanticInv
  PROVE  /\ Purged \in Seq(Entry)
         /\ InDateOrder(Purged)
         /\ \A e \in ToSet(entries) : Fresh(e) => e \in ToSet(Purged)
<1> DEFINE I == {i \in DOMAIN entries : Fresh(entries[i])}
           t == Those(entries, I)
           p == InOrder(I)
           n == Cardinality(I)
<1>1. entries \in Seq(Entry) /\ DOMAIN entries = 1..Len(entries) /\ Len(entries) \in Nat
  BY DEF SemanticInv, SemanticTypeOK
<1>2. I \in SUBSET (1..Len(entries))
  BY <1>1
<1>3. Purged = t
  BY DEF Purged
<1>4. \A e : e \in ToSet(t) <=> \E i \in I : entries[i] = e
  <2> HIDE DEF I
  <2> QED BY <1>1, <1>2, ThoseElements
<1>5. \A e \in ToSet(entries) : Fresh(e) => \E i \in I : entries[i] = e
  BY <1>1, ElementsAt
<1> HIDE DEF I
<1>6. /\ t \in Seq(Entry) /\ Len(t) = n /\ n \in Nat
      /\ p \in [1..n -> I]
      /\ \A k \in 1..n : t[k] = entries[p[k]]
      /\ \A j, k \in 1..n : j < k => p[j] < p[k]
  BY <1>1, <1>2, ThoseListed
<1> HIDE DEF t, p, n
<1>7. \A k \in 1..n : p[k] \in 1..Len(entries) /\ t[k] = entries[p[k]]
  BY <1>2, <1>6
<1>8. InDateOrder(entries)
  BY DEF SemanticInv
<1>9. InDateOrder(t)
  BY <1>6, <1>7, <1>8 DEF InDateOrder
<1> QED BY <1>3, <1>4, <1>5, <1>6, <1>9

(* Of a list in the order of the dates, making room for one takes those of *)
(* the front, and none while there is room.                                *)
LEMMA RoomMade ==
  ASSUME NEW kept \in Seq(Entry)
  PROVE  \E d \in 0..Len(kept) :
           /\ RoomForOne(kept) \in Seq(Entry)
           /\ Len(RoomForOne(kept)) = Len(kept) - d
           /\ Len(kept) - d < MaxEntries
           /\ d > 0 => Len(kept) - d = MaxEntries - 1
           /\ \A i \in 1..(Len(kept) - d) : RoomForOne(kept)[i] = kept[i + d]
<1>1. MaxEntries \in Nat \ {0} /\ Len(kept) \in Nat
  BY SemanticAssumption
<1>2. CASE Len(kept) + 1 > MaxEntries
  <2> DEFINE d == Len(kept) + 1 - MaxEntries
             r == SubSeq(kept, d + 1, Len(kept))
  <2>1. d \in 0..Len(kept) /\ d > 0 /\ Len(kept) - d = MaxEntries - 1 /\ d \in Nat
    BY <1>1, <1>2
  <2>2. d + 1 = Len(kept) + 2 - MaxEntries
    BY <1>1
  <2>3. RoomForOne(kept) = r
    BY <1>2, <2>2 DEF RoomForOne
  <2> HIDE DEF d
  <2>4. /\ r \in Seq(Entry) /\ Len(r) = Len(kept) - d
        /\ \A i \in 1..(Len(kept) - d) : r[i] = kept[i + d]
    BY <1>1, <2>1
  <2> HIDE DEF r
  <2>5. Len(kept) - d < MaxEntries
    BY <1>1, <2>1
  <2> QED BY <2>1, <2>3, <2>4, <2>5
<1>3. CASE ~(Len(kept) + 1 > MaxEntries)
  <2>1. RoomForOne(kept) = kept
    BY <1>3 DEF RoomForOne
  <2> DEFINE d == 0
  <2>2. d \in 0..Len(kept) /\ Len(kept) - d = Len(kept) /\ Len(kept) < MaxEntries /\ ~(d > 0)
    BY <1>1, <1>3
  <2>3. \A i \in 1..(Len(kept) - d) : kept[i] = kept[i + d]
    BY <1>1
  <2> HIDE DEF d
  <2> QED BY <2>1, <2>2, <2>3
<1> QED BY <1>2, <1>3

(* What a put() stores: at most max_entries in the order of their dates,   *)
(* and a fresh entry that goes is older than all the others of a full      *)
(* cache.                                                                  *)
LEMMA PutStoresRight ==
  ASSUME SemanticInv, NEW c \in Callers, PutStores(c)
  PROVE  /\ entries' \in Seq(Entry) /\ Len(entries') <= MaxEntries /\ InDateOrder(entries')
         /\ \A gone \in ToSet(entries) \ ToSet(entries') :
              Fresh(gone) => /\ Len(entries') = MaxEntries
                             /\ \A kept \in ToSet(entries') : gone.created_at <= kept.created_at
<1> DEFINE k == Purged
           r == RoomForOne(k)
           e == NewEntry(c, now)
<1>1. entries' = Append(r, e)
  BY DEF PutStores
<1>2. /\ k \in Seq(Entry) /\ InDateOrder(k)
      /\ \A g \in ToSet(entries) : Fresh(g) => g \in ToSet(k)
  BY PurgedKeeps
<1>3. e \in Entry /\ e.created_at = now /\ now \in 0..MaxClock /\ entries \in Seq(Entry)
  BY DEF SemanticInv, SemanticTypeOK, Calls, NewEntry, Entry
<1> HIDE DEF k, e
<1>4. PICK d \in 0..Len(k) :
        /\ r \in Seq(Entry) /\ Len(r) = Len(k) - d
        /\ Len(k) - d < MaxEntries
        /\ d > 0 => Len(k) - d = MaxEntries - 1
        /\ \A i \in 1..(Len(k) - d) : r[i] = k[i + d]
  BY <1>2, RoomMade
<1> HIDE DEF r
<1>5. MaxEntries \in Nat \ {0} /\ Len(k) \in Nat /\ Len(r) \in Nat /\ MaxClock \in Nat
  BY <1>2, <1>4, SemanticAssumption
<1>6. /\ entries' \in Seq(Entry) /\ Len(entries') = Len(r) + 1
      /\ \A i \in 1..Len(r) : entries'[i] = k[i + d] /\ i + d \in 1..Len(k)
      /\ entries'[Len(r) + 1] = e
      /\ \A i \in 1..(Len(r) + 1) : i \in 1..Len(r) \/ i = Len(r) + 1
  <2>1. /\ entries' \in Seq(Entry) /\ Len(entries') = Len(r) + 1
        /\ \A i \in 1..Len(r) : entries'[i] = r[i]
        /\ entries'[Len(r) + 1] = e
    BY <1>1, <1>3, <1>4, AppendProperties
  <2>2. \A i \in 1..(Len(r) + 1) : i \in 1..Len(r) \/ i = Len(r) + 1
    BY <1>5
  <2>3. \A i \in 1..Len(r) : r[i] = k[i + d] /\ i + d \in 1..Len(k)
    BY <1>4, <1>5
  <2> QED BY <2>1, <2>2, <2>3
<1>7. \A i \in 1..Len(k) : k[i].created_at \in Nat /\ k[i].created_at <= now
  <2>1. \A i \in 1..Len(k) : k[i] \in Entry
    BY <1>2
  <2>2. \A f \in Entry : f.created_at \in Nat
    BY SemanticAssumption DEF Entry
  <2> QED BY <1>2, <2>1, <2>2 DEF InDateOrder
<1>8. ASSUME NEW i \in 1..Len(entries') PROVE entries'[i].created_at <= now
  <2>1. CASE i \in 1..Len(r)
    BY <1>6, <1>7, <2>1
  <2>2. CASE i = Len(r) + 1
    BY <1>3, <1>6, <2>2
  <2> QED BY <1>6, <2>1, <2>2
<1>9. ASSUME NEW i \in 1..Len(entries'), NEW j \in 1..Len(entries'), i < j
      PROVE  entries'[i].created_at <= entries'[j].created_at
  <2>1. i \in 1..Len(r) /\ entries'[i] = k[i + d] /\ i + d \in 1..Len(k)
    BY <1>5, <1>6, <1>9
  <2>2. CASE j \in 1..Len(r)
    <3>1. entries'[j] = k[j + d] /\ j + d \in 1..Len(k) /\ i + d < j + d
      BY <1>4, <1>5, <1>6, <1>9, <2>2
    <3> QED BY <1>2, <2>1, <3>1 DEF InDateOrder
  <2>3. CASE j = Len(r) + 1
    BY <1>3, <1>6, <1>7, <2>1, <2>3
  <2> QED BY <1>6, <2>2, <2>3
<1>10. now' = now
  BY DEF PutStores
<1>11. Len(entries') <= MaxEntries
  BY <1>4, <1>5, <1>6
<1>12. InDateOrder(entries')
  BY <1>8, <1>9, <1>10 DEF InDateOrder
<1>13. ASSUME NEW gone \in ToSet(entries), gone \notin ToSet(entries'), Fresh(gone)
       PROVE  /\ Len(entries') = MaxEntries
              /\ \A kept \in ToSet(entries') : gone.created_at <= kept.created_at
  <2>1. PICK g \in 1..Len(k) : k[g] = gone
    BY <1>2, <1>13, ElementsAt
  <2>2. g <= d
    <3> SUFFICES ASSUME g > d PROVE FALSE
      BY <2>1, <1>4
    <3>1. g - d \in 1..Len(r) /\ (g - d) + d = g
      BY <1>4, <1>5
    <3>2. entries'[g - d] = gone
      BY <1>6, <2>1, <3>1
    <3>3. g - d \in 1..Len(entries')
      BY <1>5, <1>6, <3>1
    <3> QED BY <1>6, <1>13, <3>2, <3>3, ElementsAt
  <2>3. Len(entries') = MaxEntries
    BY <1>4, <1>5, <1>6, <2>2
  <2>4. ASSUME NEW kept \in ToSet(entries') PROVE gone.created_at <= kept.created_at
    <3>1. PICK i \in 1..Len(entries') : entries'[i] = kept
      BY <1>6, ElementsAt
    <3>2. CASE i \in 1..Len(r)
      <4>1. kept = k[i + d] /\ i + d \in 1..Len(k) /\ g < i + d
        BY <1>4, <1>5, <1>6, <2>2, <3>1, <3>2
      <4> QED BY <1>2, <2>1, <4>1 DEF InDateOrder
    <3>3. CASE i = Len(r) + 1
      BY <1>3, <1>6, <1>7, <2>1, <3>1, <3>3
    <3> QED BY <1>6, <3>1, <3>2, <3>3
  <2> QED BY <2>3, <2>4
<1> QED BY <1>6, <1>11, <1>12, <1>13

(* The candidates of a get() are entries that match it. *)
LEMMA CandidatesMatch ==
  ASSUME SemanticInv, NEW c \in Callers
  PROVE  /\ Candidates(c) \in Seq(Entry)
         /\ \A k \in 1..Len(Candidates(c)) :
              /\ Candidates(c)[k].cache_key = call[c].cache_key
              /\ Candidates(c)[k].router_version = call[c].router_version
              /\ now - Candidates(c)[k].created_at <= TtlSeconds
<1> DEFINE I == {i \in DOMAIN entries : /\ entries[i].cache_key = call[c].cache_key
                                        /\ entries[i].router_version = call[c].router_version
                                        /\ Fresh(entries[i])}
           t == Those(entries, I)
<1>1. entries \in Seq(Entry) /\ DOMAIN entries = 1..Len(entries)
  BY DEF SemanticInv, SemanticTypeOK
<1>2. I \in SUBSET (1..Len(entries))
  BY <1>1
<1>3. Candidates(c) = t
  BY DEF Candidates
<1>4. \A i \in I : /\ entries[i].cache_key = call[c].cache_key
                   /\ entries[i].router_version = call[c].router_version
                   /\ now - entries[i].created_at <= TtlSeconds
  BY DEF Fresh
<1> HIDE DEF I
<1>5. t \in Seq(Entry)
  BY <1>1, <1>2, ThoseListed
<1>6. \A e : e \in ToSet(t) <=> \E i \in I : entries[i] = e
  BY <1>1, <1>2, ThoseElements
<1> HIDE DEF t
<1>7. ASSUME NEW k \in 1..Len(t) PROVE \E i \in I : entries[i] = t[k]
  <2>1. t[k] \in ToSet(t)
    BY <1>5, ElementsAt
  <2> QED BY <1>6, <2>1
<1>8. ASSUME NEW k \in 1..Len(t)
      PROVE  /\ t[k].cache_key = call[c].cache_key
             /\ t[k].router_version = call[c].router_version
             /\ now - t[k].created_at <= TtlSeconds
  BY <1>4, <1>7
<1> QED BY <1>3, <1>5, <1>8

(* What is answered is a candidate near the question. *)
LEMMA BestIsNear ==
  ASSUME NEW v, NEW s \in Seq(Entry)
  PROVE  /\ Best(v, s) \in Seq(Entry)
         /\ Best(v, s) # <<>> =>
              \E i \in 1..Len(s) : Best(v, s)[1] = s[i] /\ Similarity(v, s[i].vector) > 0
<1> DEFINE score(i) == Similarity(v, s[i].vector)
           I == {i \in DOMAIN s :
                   /\ score(i) > 0
                   /\ \A j \in DOMAIN s : score(j) <= score(i) /\ (j < i => score(j) < score(i))}
           t == Those(s, I)
<1>1. Best(v, s) = t
  BY DEF Best
<1>2. I \in SUBSET (1..Len(s)) /\ \A i \in I : Similarity(v, s[i].vector) > 0
  OBVIOUS
<1> HIDE DEF I
<1>3. t \in Seq(Entry)
  BY <1>2, ThoseListed
<1>4. \A e : e \in ToSet(t) <=> \E i \in I : s[i] = e
  BY <1>2, ThoseElements
<1> HIDE DEF t
<1>5. ASSUME t # <<>> PROVE \E i \in 1..Len(s) : t[1] = s[i] /\ Similarity(v, s[i].vector) > 0
  <2>1. 1 \in 1..Len(t)
    BY <1>3, <1>5
  <2>2. t[1] \in ToSet(t)
    BY <1>3, <2>1, ElementsAt
  <2> QED BY <1>2, <1>4, <2>2
<1> QED BY <1>1, <1>3, <1>5

(* The similarity is the same both ways. *)
LEMMA SimilarBothWays ==
  ASSUME NEW u, NEW v
  PROVE  Similarity(u, v) = Similarity(v, u)
<1>1. {u, v} = {v, u}
  OBVIOUS
<1> QED BY <1>1 DEF Similarity

(* Each step of a call leaves it a right one. *)
LEMMA CallStaysRight ==
  ASSUME SemanticInv, NEW c \in Callers,
         Get(c) \/ GetAnswers(c) \/ Put(c) \/ PutStores(c) \/ EmbedFails(c)
  PROVE  \E new \in Calls : call' = [call EXCEPT ![c] = new] /\ CallRight(new)
<1> DEFINE l == call[c]
<1>1. call \in [Callers -> Calls] /\ l \in Calls /\ CallRight(l) /\ now \in 0..MaxClock
  BY DEF SemanticInv, SemanticTypeOK
<1>2. <<>> \in Seq(Entry)
  OBVIOUS
<1>3. CASE Get(c)
  <2> DEFINE s == IF Candidates(c) = <<>> THEN "answered" ELSE "get"
             new == [l EXCEPT !.state = s, !.candidates = Candidates(c), !.asked_at = now]
  <2>1. call' = [call EXCEPT ![c] = new] /\ l.state = "idle"
    BY <1>1, <1>3 DEF Get
  <2>2. /\ Candidates(c) \in Seq(Entry)
        /\ \A k \in 1..Len(Candidates(c)) :
              /\ Candidates(c)[k].cache_key = l.cache_key
              /\ Candidates(c)[k].router_version = l.router_version
              /\ now - Candidates(c)[k].created_at <= TtlSeconds
    BY CandidatesMatch
  <2>3. new \in Calls
    BY <1>1, <2>2 DEF Calls
  <2>4. /\ new.candidates = Candidates(c) /\ new.asked_at = now /\ new.answer = l.answer
        /\ new.cache_key = l.cache_key /\ new.router_version = l.router_version
    BY <1>1 DEF Calls
  <2>5. new.answer = <<>>
    BY <1>1, <2>1, <2>4 DEF CallRight
  <2> HIDE DEF new
  <2>6. \A i \in 1..Len(new.candidates) : MatchedWhenAsked(new, new.candidates[i])
    BY <2>2, <2>4 DEF MatchedWhenAsked
  <2>7. CallRight(new)
    BY <2>5, <2>6 DEF CallRight
  <2> QED BY <2>1, <2>3, <2>7
<1>4. CASE GetAnswers(c)
  <2> DEFINE b == Best(l.vector, l.candidates)
             new == [l EXCEPT !.state = "answered", !.candidates = <<>>, !.answer = b]
  <2>1. call' = [call EXCEPT ![c] = new] /\ l.state = "get"
    BY <1>1, <1>4 DEF GetAnswers
  <2>2. l.candidates \in Seq(Entry)
    BY <1>1 DEF Calls
  <2>3. /\ b \in Seq(Entry)
        /\ b # <<>> => \E i \in 1..Len(l.candidates) :
                          b[1] = l.candidates[i] /\ Similarity(l.vector, l.candidates[i].vector) > 0
    BY <2>2, BestIsNear
  <2>4. \A i \in 1..Len(l.candidates) : MatchedWhenAsked(l, l.candidates[i])
    BY <1>1, <2>1 DEF CallRight
  <2> HIDE DEF b
  <2>5. new \in Calls
    BY <1>1, <1>2, <2>3 DEF Calls
  <2>6. /\ new.state = "answered" /\ new.asked_at = l.asked_at /\ new.answer = b /\ new.vector = l.vector
        /\ new.cache_key = l.cache_key /\ new.router_version = l.router_version
    BY <1>1 DEF Calls
  <2> HIDE DEF new
  <2>7. ASSUME b # <<>>
        PROVE  MatchedWhenAsked(new, b[1]) /\ Similarity(b[1].vector, new.vector) > 0
    <3>1. PICK i \in 1..Len(l.candidates) :
            b[1] = l.candidates[i] /\ Similarity(l.vector, l.candidates[i].vector) > 0
      BY <2>3, <2>7
    <3>2. MatchedWhenAsked(l, b[1])
      BY <2>4, <3>1
    <3>3. Similarity(b[1].vector, l.vector) > 0
      BY <3>1, SimilarBothWays
    <3> QED BY <2>6, <3>2, <3>3 DEF MatchedWhenAsked
  <2>8. CallRight(new)
    BY <2>6, <2>7 DEF CallRight
  <2> QED BY <2>1, <2>5, <2>8
<1>5. CASE Put(c)
  <2> DEFINE new == [l EXCEPT !.state = "put", !.asked_at = now, !.answer = <<>>]
  <2>1. call' = [call EXCEPT ![c] = new]
    BY <1>1, <1>5 DEF Put
  <2>2. new \in Calls
    BY <1>1, <1>2 DEF Calls
  <2>3. new.state = "put" /\ new.answer = <<>>
    BY <1>1 DEF Calls
  <2> HIDE DEF new
  <2> QED BY <2>1, <2>2, <2>3 DEF CallRight
<1>6. CASE PutStores(c)
  <2> DEFINE new == [l EXCEPT !.state = "idle"]
  <2>1. call' = [call EXCEPT ![c] = new] /\ l.state = "put"
    BY <1>1, <1>6 DEF PutStores
  <2>2. new \in Calls
    BY <1>1 DEF Calls
  <2>3. new.state = "idle" /\ new.answer = l.answer
    BY <1>1 DEF Calls
  <2> HIDE DEF new
  <2> QED BY <1>1, <2>1, <2>2, <2>3 DEF CallRight
<1>7. CASE EmbedFails(c)
  <2> DEFINE new == [l EXCEPT !.state = "idle", !.candidates = <<>>]
  <2>1. call' = [call EXCEPT ![c] = new] /\ l.state \in {"get", "put"}
    BY <1>1, <1>7 DEF EmbedFails
  <2>2. new \in Calls
    BY <1>1, <1>2 DEF Calls
  <2>3. new.state = "idle" /\ new.answer = l.answer
    BY <1>1 DEF Calls
  <2> HIDE DEF new
  <2> QED BY <1>1, <2>1, <2>2, <2>3 DEF CallRight
<1> QED BY <1>3, <1>4, <1>5, <1>6, <1>7

(* The steps keep the invariant. *)
LEMMA SemanticKeeps ==
  ASSUME SemanticInv, [SemanticNext]_semanticVars
  PROVE  SemanticInv'
<1>1. /\ now \in 0..MaxClock /\ entries \in Seq(Entry) /\ call \in [Callers -> Calls] /\ MaxClock \in Nat
      /\ Len(entries) <= MaxEntries /\ InDateOrder(entries) /\ \A c \in Callers : CallRight(call[c])
  BY SemanticAssumption DEF SemanticInv, SemanticTypeOK
<1>2. CASE Tick
  <2>1. now' = now + 1 /\ now' \in 0..MaxClock /\ entries' = entries /\ call' = call
    BY <1>1, <1>2 DEF Tick
  <2>2. \A i \in 1..Len(entries) : entries[i].created_at \in Nat
    <3>1. \A f \in Entry : f.created_at \in Nat
      BY <1>1 DEF Entry
    <3>2. \A i \in 1..Len(entries) : entries[i] \in Entry
      BY <1>1
    <3> QED BY <3>1, <3>2
  <2>3. InDateOrder(entries)'
    BY <1>1, <2>1, <2>2 DEF InDateOrder
  <2>4. SemanticTypeOK'
    BY <1>1, <2>1 DEF SemanticTypeOK
  <2> QED BY <1>1, <2>1, <2>3, <2>4 DEF SemanticInv, CallRight, MatchedWhenAsked
<1>3. ASSUME NEW c \in Callers, Get(c) \/ GetAnswers(c) \/ Put(c) \/ PutStores(c) \/ EmbedFails(c)
      PROVE  SemanticInv'
  <2>1. PICK new \in Calls : call' = [call EXCEPT ![c] = new] /\ CallRight(new)
    BY <1>3, CallStaysRight
  <2>2. call' \in [Callers -> Calls]
    BY <1>1, <2>1
  <2>3. \A d \in Callers : CallRight(call'[d])
    BY <1>1, <2>1
  <2>4. now' = now /\ entries' \in Seq(Entry) /\ Len(entries') <= MaxEntries /\ InDateOrder(entries')
    <3>1. CASE PutStores(c)
      BY <3>1, PutStoresRight DEF PutStores
    <3>2. CASE ~PutStores(c)
      <4>1. now' = now /\ entries' = entries
        BY <1>3, <3>2 DEF Get, GetAnswers, Put, EmbedFails
      <4> QED BY <1>1, <4>1
    <3> QED BY <3>1, <3>2
  <2>5. SemanticTypeOK'
    BY <1>1, <2>2, <2>4 DEF SemanticTypeOK
  <2>6. InDateOrder(entries)'
    BY <2>4 DEF InDateOrder
  <2>7. \A d \in Callers : CallRight(call[d])'
    BY <2>3 DEF CallRight, MatchedWhenAsked
  <2> QED BY <2>4, <2>5, <2>6, <2>7 DEF SemanticInv
<1>4. CASE UNCHANGED semanticVars
  <2>1. now' = now /\ entries' = entries /\ call' = call
    BY <1>4 DEF semanticVars
  <2> QED BY <1>1, <2>1 DEF SemanticInv, SemanticTypeOK, InDateOrder, CallRight, MatchedWhenAsked
<1> QED BY <1>2, <1>3, <1>4 DEF SemanticNext

(* An empty cache and calls that have not come to start with. *)
LEMMA SemanticStarts == SemanticInit => SemanticInv
<1> SUFFICES ASSUME SemanticInit PROVE SemanticInv
  OBVIOUS
<1>1. now = 0 /\ entries = <<>> /\ MaxClock \in Nat /\ MaxEntries \in Nat
  BY SemanticAssumption DEF SemanticInit
<1>2. entries \in Seq(Entry) /\ Len(entries) = 0
  BY <1>1
<1>3. <<>> \in Seq(Entry) /\ 0 \in 0..MaxClock
  BY <1>1
<1>4. ASSUME NEW c \in Callers PROVE call[c] \in Calls /\ CallRight(call[c])
  <2>1. call[c] \in [state: {"idle"}, cache_key: CacheKeys, vector: Vectors,
                     router_version: RouterVersions, candidates: {<<>>},
                     asked_at: {0}, answer: {<<>>}]
    BY DEF SemanticInit
  <2>2. call[c] \in Calls
    BY <1>3, <2>1 DEF Calls
  <2>3. call[c].state = "idle" /\ call[c].answer = <<>>
    BY <2>1
  <2> QED BY <2>2, <2>3 DEF CallRight
<1>5. call \in [Callers -> Calls]
  BY <1>4 DEF SemanticInit
<1>6. SemanticTypeOK
  BY <1>1, <1>2, <1>3, <1>5 DEF SemanticTypeOK
<1>7. InDateOrder(entries)
  BY <1>2 DEF InDateOrder
<1> QED BY <1>1, <1>2, <1>4, <1>6, <1>7 DEF SemanticInv

(* What the runs check follows from the invariant. *)
LEMMA SemanticImplies == SemanticInv => HitsAreRight
<1> SUFFICES ASSUME SemanticInv PROVE HitsAreRight
  OBVIOUS
<1>1. DOMAIN entries = 1..Len(entries)
  BY DEF SemanticInv, SemanticTypeOK
<1>2. EntriesInOrder
  BY <1>1 DEF SemanticInv, InDateOrder, EntriesInOrder
<1>3. HitsMatch
  BY DEF SemanticInv, CallRight, MatchedWhenAsked, HitsMatch
<1> QED BY <1>2, <1>3 DEF SemanticInv, HitsAreRight

(* For any callers, sizes and times: the cache is bounded and in the order *)
(* of its dates, and a hit is one for its key, version and question and    *)
(* was within its time to live when the question came.                     *)
THEOREM HitsAlwaysRight == SemanticSpec => []HitsAreRight
<1>1. SemanticInit => SemanticInv
  BY SemanticStarts
<1>2. SemanticInv /\ [SemanticNext]_semanticVars => SemanticInv'
  BY SemanticKeeps
<1>3. SemanticInv => HitsAreRight
  BY SemanticImplies
<1> QED BY <1>1, <1>2, <1>3, PTL DEF SemanticSpec

(* No step drops a fresh entry but the oldest of a full cache. *)
THEOREM OldestAlwaysGoFirst == SemanticSpec => OldestGoFirst
<1> DEFINE GoesRight ==
      \A gone \in ToSet(entries) \ ToSet(entries') :
          Fresh(gone) => /\ Len(entries') = MaxEntries
                         /\ \A kept \in ToSet(entries') : gone.created_at <= kept.created_at
<1>1. SemanticInit => SemanticInv
  BY SemanticStarts
<1>2. SemanticInv /\ [SemanticNext]_semanticVars => SemanticInv'
  BY SemanticKeeps
<1>3. SemanticInv /\ [SemanticNext]_semanticVars => [GoesRight]_semanticVars
  <2> SUFFICES ASSUME SemanticInv, [SemanticNext]_semanticVars
               PROVE  GoesRight
    OBVIOUS
  <2>1. CASE \E c \in Callers : PutStores(c)
    BY <2>1, PutStoresRight
  <2>2. CASE ~ \E c \in Callers : PutStores(c)
    <3>1. entries' = entries
      BY <2>2 DEF SemanticNext, semanticVars, Tick, Get, GetAnswers, Put, EmbedFails
    <3> QED BY <3>1
  <2> QED BY <2>1, <2>2
<1> HIDE DEF GoesRight
<1>4. SemanticSpec => [][GoesRight]_semanticVars
  BY <1>1, <1>2, <1>3, PTL DEF SemanticSpec
<1> QED BY <1>4 DEF GoesRight, OldestGoFirst

(***************************************************************************)
(* The lists of the metadata branch.  The version told for a row is at     *)
(* most the number of the caller's committed rows of its name up to        *)
(* itself.  No later upload changes that number, and an earlier one only   *)
(* by its commit; an answer was right for the rows there were.             *)
(***************************************************************************)

WantedBy(params, row) ==
    /\ row.scope = OwnScope
    /\ CASE params.query_type = "BY_DATE_RANGE" ->
              row.created_dt \div 2 \in params.start_date..params.end_date
         [] params.query_type = "BY_DOCUMENT_TYPE" ->
              row.file_extension = params.file_extension
         [] OTHER -> row.filename = params.filename

AnswerRight(b, rows) ==
    /\ b.at = "query" => b.params \in QueryParams
    /\ b.at = "answered" =>
        /\ b.seen \subseteq 1..Len(rows)
        /\ \A k \in 1..Len(b.rows) : b.rows[k] \in 1..Len(rows) /\ WantedBy(b.params, rows[b.rows[k]])
        /\ ~b.hint => \A i \in b.seen :
                        WantedBy(b.params, rows[i]) => \E k \in 1..Len(b.rows) : b.rows[k] = i

(* The caller's committed rows with the name of row p, up to it. *)
SameName(p, rows) ==
    {j \in 1..p : /\ rows[j].state = "committed" /\ rows[j].scope = OwnScope
                  /\ rows[j].filename = rows[p].filename}

ToldRight(t, rows) ==
    /\ t.row \in 1..Len(rows)
    /\ rows[t.row].scope = OwnScope /\ rows[t.row].state = "committed"
    /\ t.version <= Cardinality(SameName(t.row, rows))
    /\ ~t.overlapped =>
        /\ t.version = Cardinality(SameName(t.row, rows))
        /\ \A j \in 1..t.row : ~ (/\ rows[j].state = "uploading" /\ rows[j].scope = OwnScope
                                 /\ rows[j].filename = rows[t.row].filename)

MetadataInv ==
    /\ MetadataTypeOK
    /\ AnswerRight(branch, documents)
    /\ \A t \in told : ToldRight(t, documents)

(* A time is of a day of the range if it is not before the start of the    *)
(* first day and before the start of the day after the last.               *)
LEMMA DaysOfRange ==
  ASSUME NEW c \in Nat, NEW s \in Nat, NEW e \in Nat
  PROVE  c >= 2 * s /\ c < 2 * (e + 1) <=> c \div 2 \in s..e
  OBVIOUS

(* The WHERE clause selects what the question asked for. *)
LEMMA SelectsWanted ==
  ASSUME branch.params \in QueryParams, NEW row \in Row
  PROVE  Selects(row) <=> row.state = "committed" /\ WantedBy(branch.params, row)
<1> DEFINE q == branch.params
<1>1. MaxDay \in Nat
  BY MetadataAssumption
<1>2. row.created_dt \in Nat
  BY <1>1 DEF Row, Times
<1>3. CASE q \in {r \in [query_type: {"BY_DATE_RANGE"}, start_date: 0..MaxDay, end_date: 0..MaxDay] :
                    r.start_date <= r.end_date}
  <2>1. q.query_type = "BY_DATE_RANGE" /\ q.start_date \in Nat /\ q.end_date \in Nat
    BY <1>1, <1>3
  <2> HIDE DEF q
  <2>2. row.created_dt >= 2 * q.start_date /\ row.created_dt < 2 * (q.end_date + 1)
        <=> row.created_dt \div 2 \in q.start_date..q.end_date
    BY <1>2, <2>1, DaysOfRange
  <2>3. WantedBy(q, row) <=>
          row.scope = OwnScope /\ row.created_dt \div 2 \in q.start_date..q.end_date
    BY <2>1 DEF WantedBy
  <2>4. Selects(row) <=> /\ row.state = "committed" /\ row.scope = OwnScope
                         /\ row.created_dt >= 2 * q.start_date
                         /\ row.created_dt < 2 * (q.end_date + 1)
    BY <2>1 DEF Selects, EndDateExclusive, q
  <2>5. WantedBy(q, row) <=> WantedBy(branch.params, row)
    BY DEF q
  <2> QED BY <2>2, <2>3, <2>4, <2>5
<1>4. CASE q \in [query_type: {"BY_DOCUMENT_TYPE"}, file_extension: Extensions]
  BY <1>4 DEF Selects, WantedBy
<1>5. CASE q \in [query_type: {"BY_VERSION"}, filename: Filenames]
  BY <1>5 DEF Selects, WantedBy
<1> QED BY <1>3, <1>4, <1>5 DEF QueryParams

(* The selected rows, the newest first, and the place of each among them.  *)
LEMMA SelectedRows ==
  ASSUME documents \in Seq(Row)
  PROVE  \E n \in 0..Len(documents) : \E p \in [1..n -> 1..Len(documents)] :
           /\ Selected \in Seq(1..Len(documents)) /\ Len(Selected) = n
           /\ \A k \in 1..n : n + 1 - k \in 1..n /\ Selected[k] = p[n + 1 - k]
           /\ \A k \in 1..n : Selects(documents[p[k]])
           /\ \A i \in 1..Len(documents) : Selects(documents[i]) => \E k \in 1..n : p[k] = i
           /\ \A v \in 1..n :
                Cardinality({j \in 1..p[v] : Selects(documents[j])}) = v
<1> DEFINE d == Len(documents)
           I == {i \in DOMAIN documents : Selects(documents[i])}
           n == Cardinality(I)
           p == InOrder(I)
<1>1. d \in Nat /\ DOMAIN documents = 1..d
  OBVIOUS
<1>2. I \in SUBSET (1..d) /\ \A i \in 1..d : i \in I <=> Selects(documents[i])
  BY <1>1
<1>3. Selected = Reverse(p)
  BY DEF Selected
<1> HIDE DEF I
<1>4. /\ n \in 0..d /\ p \in [1..n -> I]
      /\ \A e \in I : \E i \in 1..n : p[i] = e
  BY <1>1, <1>2, InOrderLists
<1>5. \A v \in 1..n : Cardinality({j \in I : j <= p[v]}) = v
  BY <1>1, <1>2, InOrderRank
<1> HIDE DEF n, p
<1>6. p \in [1..n -> 1..d] /\ p \in Seq(1..d) /\ Len(p) = n
  <2> HIDE DEF d
  <2>1. n \in Nat
    BY <1>1, <1>4
  <2>2. p \in [1..n -> 1..d]
    BY <1>2, <1>4
  <2>3. p \in Seq(1..d)
    BY <2>1, <2>2, ListOf
  <2> QED BY <2>1, <2>2, <2>3
<1>7. /\ Reverse(p) \in Seq(1..d) /\ Len(Reverse(p)) = n
      /\ \A k \in 1..n : n + 1 - k \in 1..n /\ Reverse(p)[k] = p[n + 1 - k]
  <2>1. \A k \in 1..n : n + 1 - k \in 1..n /\ (n - k) + 1 = n + 1 - k
    BY <1>1, <1>4
  <2>2. Reverse(p) = [k \in 1..n |-> p[(n - k) + 1]]
    BY <1>6 DEF Reverse
  <2>3. \A k \in 1..n : p[(n - k) + 1] \in 1..d
    BY <1>6, <2>1
  <2>4. Reverse(p) \in [1..n -> 1..d]
    BY <2>2, <2>3
  <2>5. Reverse(p) \in Seq(1..d) /\ Len(Reverse(p)) = n
    BY <1>1, <1>4, <2>4
  <2>6. \A k \in 1..n : Reverse(p)[k] = p[(n - k) + 1]
    BY <2>2
  <2>7. \A k \in 1..n : Reverse(p)[k] = p[n + 1 - k]
    BY <2>1, <2>6
  <2> QED BY <2>1, <2>5, <2>7
<1>8. \A k \in 1..n : Selects(documents[p[k]])
  BY <1>2, <1>4
<1>9. \A i \in 1..d : Selects(documents[i]) => \E k \in 1..n : p[k] = i
  BY <1>2, <1>4
<1>10. ASSUME NEW v \in 1..n PROVE Cardinality({j \in 1..p[v] : Selects(documents[j])}) = v
  <2>1. p[v] \in 1..d
    BY <1>6
  <2>2. {j \in 1..p[v] : Selects(documents[j])} = {j \in I : j <= p[v]}
    <3>1. \A j : j \in 1..p[v] <=> j \in 1..d /\ j <= p[v]
      BY <1>1, <2>1
    <3> QED BY <1>2, <3>1
  <2> QED BY <1>5, <2>2
<1> QED BY <1>3, <1>4, <1>6, <1>7, <1>8, <1>9, <1>10

(* The limit keeps the newest, and without the hint all. *)
LEMMA NewestKeeps ==
  ASSUME NEW S, NEW s \in Seq(S)
  PROVE  /\ Newest(s) \in Seq(S) /\ Len(Newest(s)) <= Len(s)
         /\ \A k \in 1..Len(Newest(s)) : Newest(s)[k] = s[k]
         /\ ~Hint(Newest(s)) => Newest(s) = s
<1>1. Limit \in Nat \ {0} /\ Len(s) \in Nat
  BY MetadataAssumption
<1>2. CASE Len(s) > Limit
  <2>1. Newest(s) = SubSeq(s, 1, Limit)
    BY <1>2 DEF Newest
  <2>2. /\ SubSeq(s, 1, Limit) \in Seq(S) /\ Len(SubSeq(s, 1, Limit)) = Limit
        /\ \A k \in 1..Limit : SubSeq(s, 1, Limit)[k] = s[k]
    BY <1>1, <1>2
  <2>3. Limit <= Len(s)
    BY <1>1, <1>2
  <2>4. Hint(Newest(s))
    BY <1>1, <2>1, <2>2 DEF Hint
  <2> QED BY <2>1, <2>2, <2>3, <2>4
<1>3. CASE ~(Len(s) > Limit)
  <2>1. Newest(s) = s
    BY <1>3 DEF Newest
  <2> QED BY <1>1, <2>1
<1> QED BY <1>2, <1>3

(* The rows of a query: asked for, told with their place among those of    *)
(* their name, and all of them without the hint.                           *)
LEMMA QueryRight ==
  ASSUME MetadataInv, Query
  PROVE  MetadataInv'
<1> DEFINE d == Len(documents)
           s == Selected
           rows == Newest(s)
           seen == {i \in DOMAIN documents : documents[i].state = "committed"}
<1>1. /\ documents \in Seq(Row) /\ d \in 0..MaxRows /\ MaxRows \in Nat /\ d \in Nat
      /\ branch \in Branch /\ branch.params \in QueryParams
      /\ told \subseteq Told
      /\ clock \in Times /\ \A t \in told : ToldRight(t, documents)
  <2>1. branch.at = "query"
    BY DEF Query
  <2> QED BY <2>1, MetadataAssumption DEF MetadataInv, MetadataTypeOK, AnswerRight
<1>2. /\ branch' = [branch EXCEPT !.at = "answered", !.rows = rows, !.hint = Hint(rows), !.seen = seen]
      /\ told' = IF branch.params.query_type = "BY_VERSION"
                 THEN told \cup {[row |-> rows[i], version |-> Version(i), overlapped |-> Overlapped(rows[i])] :
                                  i \in DOMAIN rows} ELSE told
      /\ clock' = clock /\ documents' = documents
  BY DEF Query
<1>3. \A row \in Row : Selects(row) <=> row.state = "committed" /\ WantedBy(branch.params, row)
  BY <1>1, SelectsWanted
<1>4. PICK n \in 0..d : \E p \in [1..n -> 1..d] :
        /\ s \in Seq(1..d) /\ Len(s) = n
        /\ \A k \in 1..n : n + 1 - k \in 1..n /\ s[k] = p[n + 1 - k]
        /\ \A k \in 1..n : Selects(documents[p[k]])
        /\ \A i \in 1..d : Selects(documents[i]) => \E k \in 1..n : p[k] = i
        /\ \A v \in 1..n : Cardinality({j \in 1..p[v] : Selects(documents[j])}) = v
  BY <1>1, SelectedRows
<1>5. PICK p \in [1..n -> 1..d] :
        /\ s \in Seq(1..d) /\ Len(s) = n
        /\ \A k \in 1..n : n + 1 - k \in 1..n /\ s[k] = p[n + 1 - k]
        /\ \A k \in 1..n : Selects(documents[p[k]])
        /\ \A i \in 1..d : Selects(documents[i]) => \E k \in 1..n : p[k] = i
        /\ \A v \in 1..n : Cardinality({j \in 1..p[v] : Selects(documents[j])}) = v
  BY <1>4
<1>6. \A k : Version(k) = n + 1 - k
  BY <1>5 DEF Version
<1> HIDE DEF s
<1>7. /\ rows \in Seq(1..d) /\ Len(rows) <= n
      /\ \A k \in 1..Len(rows) : rows[k] = s[k]
      /\ ~Hint(rows) => rows = s
  BY <1>5, NewestKeeps
<1>21. seen \subseteq 1..d /\ \A i \in seen : documents[i].state = "committed"
  BY <1>1
<1> HIDE DEF rows, d, seen
<1>8. n \in Nat /\ Len(rows) \in Nat /\ DOMAIN rows = 1..Len(rows)
      /\ \A k \in 1..Len(rows) : k \in 1..n
  BY <1>1, <1>4, <1>7
<1>9. ASSUME NEW k \in 1..Len(rows)
      PROVE  /\ n + 1 - k \in 1..n /\ rows[k] = p[n + 1 - k] /\ rows[k] \in 1..d
             /\ Selects(documents[rows[k]])
  BY <1>5, <1>7, <1>8
<1>10. \A i \in 1..d : documents[i] \in Row
  BY <1>1 DEF d
<1>11. ASSUME ~Hint(rows), NEW i \in 1..d, Selects(documents[i])
       PROVE  \E k \in 1..Len(rows) : rows[k] = i
  <2>1. PICK l \in 1..n : p[l] = i
    BY <1>5, <1>11
  <2> DEFINE k == n + 1 - l
  <2>2. k \in 1..n /\ n + 1 - k = l
    BY <1>8
  <2> HIDE DEF k
  <2>3. rows = s /\ s[k] = p[l]
    BY <1>5, <1>7, <1>11, <2>2
  <2> QED BY <1>5, <2>1, <2>2, <2>3
<1>12. branch' \in Branch
  <2>1. rows \in Seq(1..MaxRows)
    BY <1>1, <1>7
  <2>2. Hint(rows) \in BOOLEAN
    BY DEF Hint
  <2>3. seen \in SUBSET (1..MaxRows)
    BY <1>1, <1>21
  <2> QED BY <1>1, <1>2, <2>1, <2>2, <2>3 DEF Branch
<1>13. /\ branch'.at = "answered" /\ branch'.params = branch.params /\ branch'.rows = rows
       /\ branch'.hint = Hint(rows) /\ branch'.seen = seen
  BY <1>1, <1>2 DEF Branch
<1>14. AnswerRight(branch', documents)
  <2>1. \A k \in 1..Len(rows) : rows[k] \in 1..d /\ WantedBy(branch.params, documents[rows[k]])
    BY <1>3, <1>9, <1>10
  <2>2. ~Hint(rows) => \A i \in seen :
          WantedBy(branch.params, documents[i]) => \E k \in 1..Len(rows) : rows[k] = i
    BY <1>3, <1>10, <1>11, <1>21
  <2>3. seen \subseteq 1..Len(documents) /\ d = Len(documents)
    BY <1>21 DEF d
  <2> QED BY <1>13, <2>1, <2>2, <2>3 DEF AnswerRight
<1>15. ASSUME NEW t \in told', t \notin told
       PROVE  t \in Told /\ ToldRight(t, documents)
  <2>1. branch.params.query_type = "BY_VERSION"
    BY <1>2, <1>15
  <2>2. PICK k \in 1..Len(rows) :
          t = [row |-> rows[k], version |-> Version(k), overlapped |-> Overlapped(rows[k])]
    BY <1>2, <1>8, <1>15, <2>1
  <2> DEFINE v == n + 1 - k
  <2>3. /\ v \in 1..n /\ rows[k] = p[v] /\ p[v] \in 1..d
        /\ t = [row |-> p[v], version |-> v, overlapped |-> Overlapped(p[v])]
    BY <1>6, <1>9, <2>2
  <2>4. Selects(documents[p[v]])
    BY <1>9, <2>3
  <2> HIDE DEF v
  <2>5. \A i \in 1..d : Selects(documents[i]) <=>
          /\ documents[i].state = "committed" /\ documents[i].scope = OwnScope
          /\ documents[i].filename = branch.params.filename
    BY <2>1 DEF Selects
  <2>6. SameName(p[v], documents) = {j \in 1..p[v] : Selects(documents[j])}
    <3>1. \A j \in 1..p[v] : j \in 1..d
      BY <1>1, <2>3
    <3>2. documents[p[v]].filename = branch.params.filename
      BY <2>3, <2>4, <2>5
    <3>3. \A j \in 1..p[v] : Selects(documents[j]) <=>
            /\ documents[j].state = "committed" /\ documents[j].scope = OwnScope
            /\ documents[j].filename = documents[p[v]].filename
      BY <2>5, <3>1, <3>2
    <3> QED BY <3>3 DEF SameName
  <2>7. Cardinality(SameName(p[v], documents)) = v
    BY <1>5, <2>3, <2>6
  <2>8. documents[p[v]].scope = OwnScope /\ documents[p[v]].state = "committed"
    BY <2>3, <2>4, <2>5
  <2>9. p[v] \in 1..MaxRows /\ v \in 1..MaxRows /\ Overlapped(p[v]) \in BOOLEAN
    BY <1>1, <1>4, <2>3 DEF Overlapped
  <2>10. /\ t.row = p[v] /\ t.version = v /\ (t.overlapped <=> Overlapped(p[v])) /\ t \in Told
    BY <2>3, <2>9 DEF Told
  <2>11. v <= Cardinality(SameName(p[v], documents)) /\ p[v] \in 1..Len(documents)
    BY <1>8, <2>3, <2>7 DEF d
  <2>12. ToldRight(t, documents)
    BY <2>7, <2>8, <2>10, <2>11 DEF ToldRight, Overlapped
  <2> QED BY <2>10, <2>12
<1>16. told' \subseteq Told /\ \A t \in told' : ToldRight(t, documents)
  BY <1>1, <1>15
<1>17. MetadataTypeOK'
  BY <1>1, <1>2, <1>12, <1>16 DEF MetadataTypeOK, d
<1>18. AnswerRight(branch, documents)'
  BY <1>2, <1>14 DEF AnswerRight, WantedBy
<1>19. ASSUME NEW t \in told' PROVE ToldRight(t, documents')
  BY <1>2, <1>16
<1> QED BY <1>17, <1>18, <1>19 DEF MetadataInv, ToldRight, SameName

(* Rows that gain a row, or the end of an upload, keep what was told and   *)
(* answered right.                                                         *)
LEMMA RowsGrow ==
  ASSUME NEW rows \in Seq(Row), NEW more \in Seq(Row), Len(rows) <= Len(more),
         \A i \in 1..Len(rows) : /\ more[i].scope = rows[i].scope /\ more[i].filename = rows[i].filename
                                 /\ more[i].file_extension = rows[i].file_extension
                                 /\ more[i].created_dt = rows[i].created_dt
                                 /\ rows[i].state \in {"uploading", more[i].state}
  PROVE  /\ \A b \in Branch : AnswerRight(b, rows) => AnswerRight(b, more)
         /\ \A t \in Told : ToldRight(t, rows) => ToldRight(t, more)
<1>1. Len(rows) \in Nat /\ Len(more) \in Nat /\ \A i \in 1..Len(rows) : i \in 1..Len(more)
  OBVIOUS
<1>2. ASSUME NEW b \in Branch, AnswerRight(b, rows) PROVE AnswerRight(b, more)
  <2>1. \A i \in 1..Len(rows) : WantedBy(b.params, more[i]) <=> WantedBy(b.params, rows[i])
    BY DEF WantedBy
  <2>2. b.at = "query" => b.params \in QueryParams
    BY <1>2 DEF AnswerRight
  <2>3. ASSUME b.at = "answered"
        PROVE  /\ b.seen \subseteq 1..Len(more)
               /\ \A k \in 1..Len(b.rows) : b.rows[k] \in 1..Len(more) /\ WantedBy(b.params, more[b.rows[k]])
               /\ ~b.hint => \A i \in b.seen :
                    WantedBy(b.params, more[i]) => \E k \in 1..Len(b.rows) : b.rows[k] = i
    <3>1. /\ b.seen \subseteq 1..Len(rows)
          /\ \A k \in 1..Len(b.rows) : b.rows[k] \in 1..Len(rows) /\ WantedBy(b.params, rows[b.rows[k]])
          /\ ~b.hint => \A i \in b.seen :
               WantedBy(b.params, rows[i]) => \E k \in 1..Len(b.rows) : b.rows[k] = i
      BY <1>2, <2>3 DEF AnswerRight
    <3> QED BY <1>1, <2>1, <3>1
  <2> QED BY <2>2, <2>3 DEF AnswerRight
<1>3. ASSUME NEW t \in Told, ToldRight(t, rows) PROVE ToldRight(t, more)
  <2> DEFINE r == t.row
             old == SameName(r, rows)
             new == SameName(r, more)
             Earlier(j, d) == d[j].state = "uploading" /\ d[j].scope = OwnScope /\ d[j].filename = d[r].filename
  <2>1. /\ r \in 1..Len(rows) /\ rows[r].scope = OwnScope /\ rows[r].state = "committed"
        /\ t.version <= Cardinality(old)
        /\ ~t.overlapped => t.version = Cardinality(old) /\ \A j \in 1..r : ~Earlier(j, rows)
    BY <1>3 DEF ToldRight
  <2>2. \A j \in 1..r : j \in 1..Len(rows)
    BY <1>1, <2>1
  <2>3. r \in 1..Len(more) /\ more[r].scope = OwnScope /\ more[r].state = "committed"
    BY <1>1, <2>1
  <2>4. more[r].filename = rows[r].filename
    BY <2>1
  <2>5. old \subseteq new
    BY <2>2, <2>4 DEF SameName
  <2>6. IsFiniteSet(new)
    <3>1. r \in Nat
      BY <1>1, <2>1
    <3>2. IsFiniteSet(1..r)
      BY <3>1, PositionsCount
    <3>3. new \subseteq 1..r
      BY DEF SameName
    <3> QED BY <3>2, <3>3, FS_Subset
  <2>7. /\ Cardinality(old) \in Nat /\ Cardinality(new) \in Nat /\ Cardinality(old) <= Cardinality(new)
    BY <2>5, <2>6, FS_Subset, FS_CardinalityType
  <2>8. t.version \in Nat
    BY DEF Told
  <2>9. ASSUME ~t.overlapped PROVE new = old /\ \A j \in 1..r : ~Earlier(j, more)
    <3>1. \A j \in 1..r : ~Earlier(j, rows)
      BY <2>1, <2>9
    <3>2. ASSUME NEW j \in 1..r, more[j].scope = OwnScope, more[j].filename = more[r].filename
          PROVE  more[j].state = rows[j].state /\ more[j].state # "uploading"
      BY <2>2, <2>4, <3>1, <3>2
    <3>3. new \subseteq old
      BY <2>2, <2>4, <3>2 DEF SameName
    <3> QED BY <2>5, <3>2, <3>3
  <2>10. t.version <= Cardinality(new)
    <3> HIDE DEF old, new
    <3> QED BY <2>1, <2>7, <2>8
  <2>11. ~t.overlapped => t.version = Cardinality(new)
    BY <2>1, <2>9
  <2> QED BY <2>3, <2>9, <2>10, <2>11 DEF ToldRight
<1> QED BY <1>2, <1>3

(* The start and the end of an upload change nothing of what was told and  *)
(* answered.                                                               *)
LEMMA UploadRight ==
  ASSUME MetadataInv, BeginUpload \/ EndUpload
  PROVE  MetadataInv'
<1>1. /\ documents \in Seq(Row) /\ Len(documents) \in Nat /\ MaxRows \in Nat /\ Len(documents) <= MaxRows
      /\ branch \in Branch /\ told \subseteq Told
      /\ clock \in Times /\ AnswerRight(branch, documents) /\ \A t \in told : ToldRight(t, documents)
  BY MetadataAssumption DEF MetadataInv, MetadataTypeOK
<1>2. clock' = clock /\ branch' = branch /\ told' = told
  BY DEF BeginUpload, EndUpload
<1> DEFINE Grown(more) ==
      /\ more \in Seq(Row) /\ Len(more) <= MaxRows /\ Len(documents) <= Len(more)
      /\ \A i \in 1..Len(documents) : /\ more[i].scope = documents[i].scope
                                      /\ more[i].filename = documents[i].filename
                                      /\ more[i].file_extension = documents[i].file_extension
                                      /\ more[i].created_dt = documents[i].created_dt
                                      /\ documents[i].state \in {"uploading", more[i].state}
<1>3. ASSUME BeginUpload PROVE Grown(documents')
  <2>1. PICK scope \in Scopes, filename \in Filenames, extension \in Extensions :
          documents' = Append(documents, [scope |-> scope, filename |-> filename, file_extension |-> extension,
                                          created_dt |-> clock, state |-> "uploading"])
    BY <1>3 DEF BeginUpload
  <2> DEFINE row == [scope |-> scope, filename |-> filename, file_extension |-> extension,
                     created_dt |-> clock, state |-> "uploading"]
  <2>2. row \in Row /\ documents' = Append(documents, row)
    BY <1>1, <2>1 DEF Row
  <2> HIDE DEF row
  <2>3. /\ documents' \in Seq(Row) /\ Len(documents') = Len(documents) + 1
        /\ \A i \in 1..Len(documents) : documents'[i] = documents[i]
    BY <1>1, <2>2
  <2>4. Len(documents) < MaxRows
    BY <1>3 DEF BeginUpload
  <2> QED BY <1>1, <2>3, <2>4
<1>4. ASSUME EndUpload PROVE Grown(documents')
  <2>1. PICK i \in DOMAIN documents, state \in {"committed", "failed"} :
          documents[i].state = "uploading" /\ documents' = [documents EXCEPT ![i].state = state]
    BY <1>4 DEF EndUpload
  <2> DEFINE row == [documents[i] EXCEPT !.state = state]
  <2>2. i \in 1..Len(documents) /\ documents[i] \in Row
    BY <1>1, <2>1
  <2>3. /\ row \in Row /\ row.scope = documents[i].scope /\ row.filename = documents[i].filename
        /\ row.file_extension = documents[i].file_extension /\ row.created_dt = documents[i].created_dt
    BY <2>2 DEF Row
  <2>4. documents' = [documents EXCEPT ![i] = row]
    BY <2>1
  <2> HIDE DEF row
  <2>5. /\ documents' \in Seq(Row) /\ Len(documents') = Len(documents)
        /\ \A j \in 1..Len(documents) : documents'[j] = IF j = i THEN row ELSE documents[j]
    BY <1>1, <2>2, <2>3, <2>4
  <2> QED BY <1>1, <2>1, <2>3, <2>5
<1>5. Grown(documents')
  BY <1>3, <1>4
<1>6. /\ \A b \in Branch : AnswerRight(b, documents) => AnswerRight(b, documents')
      /\ \A t \in Told : ToldRight(t, documents) => ToldRight(t, documents')
  BY <1>1, <1>5, RowsGrow
<1>7. MetadataTypeOK'
  BY <1>1, <1>2, <1>5 DEF MetadataTypeOK
<1>8. AnswerRight(branch, documents') /\ \A t \in told : ToldRight(t, documents')
  BY <1>1, <1>6
<1>9. AnswerRight(branch, documents)'
  BY <1>2, <1>8 DEF AnswerRight, WantedBy
<1> QED BY <1>2, <1>7, <1>8, <1>9 DEF MetadataInv, ToldRight, SameName

(* The other steps of a turn tell nothing. *)
LEMMA TurnRight ==
  ASSUME MetadataInv, Pass \/ ExtractFails \/ Extract \/ QueryFails \/ NextTurn \/ UNCHANGED metadataVars
  PROVE  MetadataInv'
<1>1. /\ documents \in Seq(Row) /\ Len(documents) <= MaxRows
      /\ branch \in Branch /\ told \subseteq Told /\ clock \in Times
      /\ AnswerRight(branch, documents) /\ \A t \in told : ToldRight(t, documents)
  BY DEF MetadataInv, MetadataTypeOK
<1>2. documents' = documents /\ told' = told
  BY DEF Pass, ExtractFails, Extract, QueryFails, NextTurn, metadataVars
<1>3. clock' \in Times
  <2>1. CASE Pass
    BY <1>1, <2>1, MetadataAssumption DEF Pass, Times
  <2>2. CASE ~Pass
    BY <1>1, <2>2 DEF ExtractFails, Extract, QueryFails, NextTurn, metadataVars
  <2> QED BY <2>1, <2>2
<1>4. branch' \in Branch /\ AnswerRight(branch', documents)
  <2>1. CASE branch' = branch
    BY <1>1, <2>1
  <2>2. CASE ExtractFails \/ QueryFails
    <3> DEFINE new == [branch EXCEPT !.at = "degraded"]
    <3>1. branch' = new
      BY <2>2 DEF ExtractFails, QueryFails
    <3>2. new \in Branch /\ new.at = "degraded"
      BY <1>1 DEF Branch
    <3> HIDE DEF new
    <3> QED BY <3>1, <3>2 DEF AnswerRight
  <2>3. CASE Extract
    <3>1. PICK params \in QueryParams : branch' = [branch EXCEPT !.at = "query", !.params = params]
      BY <2>3 DEF Extract
    <3> DEFINE new == [branch EXCEPT !.at = "query", !.params = params]
    <3>2. new \in Branch /\ new.at = "query" /\ new.params = params
      BY <1>1 DEF Branch
    <3>3. branch' = new
      BY <3>1
    <3> HIDE DEF new
    <3> QED BY <3>2, <3>3 DEF AnswerRight
  <2>4. CASE NextTurn
    <3> DEFINE new == [NoBranch EXCEPT !.asked = branch.asked + 1]
    <3>1. branch' = new /\ branch.asked + 1 \in 0..MaxAsked
      BY <1>1, <2>4, MetadataAssumption DEF NextTurn, Branch
    <3>2. NoBranch \in Branch
      BY MetadataAssumption DEF Branch, NoBranch
    <3>3. new \in Branch /\ new.at = "extract"
      BY <3>1, <3>2 DEF Branch, NoBranch
    <3> HIDE DEF new
    <3> QED BY <3>1, <3>3 DEF AnswerRight
  <2> QED BY <2>1, <2>2, <2>3, <2>4 DEF Pass, metadataVars
<1>5. MetadataTypeOK'
  BY <1>1, <1>2, <1>3, <1>4 DEF MetadataTypeOK
<1>6. AnswerRight(branch, documents)'
  BY <1>2, <1>4 DEF AnswerRight, WantedBy
<1> QED BY <1>1, <1>2, <1>5, <1>6 DEF MetadataInv, ToldRight, SameName

(* No rows and no turn to start with. *)
LEMMA MetadataStarts == MetadataInit => MetadataInv
<1> SUFFICES ASSUME MetadataInit PROVE MetadataInv
  OBVIOUS
<1>1. clock = 0 /\ documents = <<>> /\ told = {} /\ branch \in {NoBranch, [NoBranch EXCEPT !.at = "no_scope"]}
  BY DEF MetadataInit
<1>2. MaxRows \in Nat /\ MaxDay \in Nat /\ MaxAsked \in Nat
  BY MetadataAssumption
<1>3. documents \in Seq(Row) /\ Len(documents) = 0
  BY <1>1
<1>4. <<>> \in Seq(1..MaxRows)
  OBVIOUS
<1>5. NoBranch \in Branch /\ NoBranch.at = "extract"
  BY <1>2, <1>4 DEF Branch, NoBranch
<1>6. [NoBranch EXCEPT !.at = "no_scope"] \in Branch /\ [NoBranch EXCEPT !.at = "no_scope"].at = "no_scope"
  BY <1>5 DEF Branch
<1>7. branch \in Branch /\ branch.at \in {"extract", "no_scope"}
  BY <1>1, <1>5, <1>6
<1>8. clock \in Times
  BY <1>1, <1>2 DEF Times
<1>9. MetadataTypeOK
  BY <1>1, <1>2, <1>3, <1>7, <1>8 DEF MetadataTypeOK
<1>10. AnswerRight(branch, documents)
  BY <1>7 DEF AnswerRight
<1> QED BY <1>1, <1>9, <1>10 DEF MetadataInv

(* A row has more rows of its name up to itself than an earlier one has. *)
LEMMA LaterHasMore ==
  ASSUME MetadataInv, NEW a \in 1..Len(documents), NEW b \in 1..Len(documents), a < b,
         documents[b].scope = OwnScope, documents[b].state = "committed",
         documents[a].filename = documents[b].filename
  PROVE  /\ Cardinality(SameName(a, documents)) \in Nat /\ Cardinality(SameName(b, documents)) \in Nat
         /\ Cardinality(SameName(a, documents)) < Cardinality(SameName(b, documents))
<1> DEFINE A == SameName(a, documents)
           B == SameName(b, documents)
<1>1. Len(documents) \in Nat
  BY DEF MetadataInv, MetadataTypeOK
<1>2. IsFiniteSet(1..b) /\ B \subseteq 1..b
  BY PositionsCount DEF SameName
<1>3. A \subseteq B
  <2>1. \A j \in 1..a : j \in 1..b
    BY <1>1
  <2> QED BY <2>1 DEF SameName
<1>4. b \in B /\ b \notin A
  BY <1>1 DEF SameName
<1> HIDE DEF A, B
<1>5. IsFiniteSet(B) /\ IsFiniteSet(A)
  BY <1>2, <1>3, FS_Subset
<1>6. /\ Cardinality(A) <= Cardinality(B)
      /\ Cardinality(B) = Cardinality(A) => B = A
  BY <1>3, <1>5, FS_Subset
<1>7. Cardinality(A) \in Nat /\ Cardinality(B) \in Nat
  BY <1>5, FS_CardinalityType
<1>8. Cardinality(A) < Cardinality(B)
  BY <1>4, <1>6, <1>7
<1> QED BY <1>7, <1>8 DEF A, B

(* What is told by the number of rows up to one agrees. *)
LEMMA ToldAgree == MetadataInv => VersionsAgree
<1> SUFFICES ASSUME MetadataInv, NEW t \in told, NEW u \in told,
                    documents[t.row].filename = documents[u.row].filename, ~u.overlapped
             PROVE  /\ t.row = u.row => t.version <= u.version /\ (t.overlapped \/ t.version = u.version)
                    /\ t.row < u.row => t.version < u.version
  BY DEF VersionsAgree
<1>1. /\ t.row \in 1..Len(documents) /\ t.version <= Cardinality(SameName(t.row, documents))
      /\ ~t.overlapped => t.version = Cardinality(SameName(t.row, documents))
  BY DEF MetadataInv, ToldRight
<1>2. /\ u.row \in 1..Len(documents) /\ documents[u.row].scope = OwnScope
      /\ documents[u.row].state = "committed"
      /\ u.version = Cardinality(SameName(u.row, documents))
  BY DEF MetadataInv, ToldRight
<1>3. t.version \in Nat /\ u.version \in Nat
  BY DEF MetadataInv, MetadataTypeOK, Told
<1>4. t.row < u.row => t.version < u.version
  BY <1>1, <1>2, <1>3, LaterHasMore
<1> QED BY <1>1, <1>2, <1>4

(* What the runs check follows from the invariant. *)
LEMMA MetadataImplies == MetadataInv => ListsAreRight
<1> SUFFICES ASSUME MetadataInv PROVE ListsAreRight
  OBVIOUS
<1>1. \A row : Wanted(row) <=> WantedBy(branch.params, row)
  BY DEF Wanted, WantedBy
<1>2. branch.rows \in Seq(1..MaxRows)
  BY DEF MetadataInv, MetadataTypeOK, Branch
<1>3. \A i : i \in ToSet(branch.rows) <=> \E k \in 1..Len(branch.rows) : branch.rows[k] = i
  BY <1>2, ElementsAt
<1>4. AnswerIsComplete
  BY <1>1, <1>3 DEF MetadataInv, AnswerRight, AnswerIsComplete
<1> QED BY <1>4, ToldAgree DEF MetadataInv, ListsAreRight

(* For any number of overlapping uploads, days and questions: a version    *)
(* told while no earlier upload of its name was under way stays right for  *)
(* ever, and an answer lists what was asked for, all that was committed    *)
(* when it gives no hint that there is more.                               *)
THEOREM ListsAlwaysRight == MetadataSpec => []ListsAreRight
<1>1. MetadataInit => MetadataInv
  BY MetadataStarts
<1>2. MetadataInv /\ [MetadataNext]_metadataVars => MetadataInv'
  BY QueryRight, UploadRight, TurnRight DEF MetadataNext
<1>3. MetadataInv => ListsAreRight
  BY MetadataImplies
<1> QED BY <1>1, <1>2, <1>3, PTL DEF MetadataSpec
================================================================================
