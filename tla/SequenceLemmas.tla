---------------------------- MODULE SequenceLemmas ----------------------------
(***************************************************************************)
(* What the proofs need to know of sequences: the operations on an ordered *)
(* dict whose order is a sequence of distinct keys (pop, move_to_end and   *)
(* the eviction from the front), prefixes, and the selection of positions  *)
(* in order, which rests on an induction over the natural numbers.         *)
(***************************************************************************)
EXTENDS Integers, Selection, FiniteSetTheorems, SequenceTheorems, WellFoundedInduction, TLAPS

(* The elements of a sequence are what its positions hold. *)
LEMMA ElementsAt ==
  ASSUME NEW S, NEW s \in Seq(S), NEW e
  PROVE  /\ e \in ToSet(s) <=> \E i \in 1..Len(s) : s[i] = e
         /\ ToSet(s) \subseteq S
  BY DEF ToSet

(* The first position of an element of a sequence of distinct elements is its only one. *)
LEMMA OnlyPosition ==
  ASSUME NEW S, NEW s \in Seq(S), IsInjective(s), NEW e, NEW i \in 1..Len(s), s[i] = e
  PROVE  RemoveFirst(s, e) = RemoveAt(s, i)
  <1>1. {j \in 1..Len(s) : s[j] = e} = {i}
    BY DEF IsInjective
  <1>2. Min({i}) = i
    BY DEF Min
  <1>3. QED
    BY <1>1, <1>2 DEF SelectInSeq, RemoveFirst

(* Taking a position out closes the gap. *)
LEMMA RemoveAtAt ==
  ASSUME NEW S, NEW s \in Seq(S), NEW i \in 1..Len(s)
  PROVE  /\ RemoveAt(s, i) \in Seq(S)
         /\ Len(RemoveAt(s, i)) = Len(s) - 1
         /\ \A j \in 1..(Len(s) - 1) :
              RemoveAt(s, i)[j] = IF j < i THEN s[j] ELSE s[j + 1]
  <1> DEFINE a == SubSeq(s, 1, i - 1)
             b == SubSeq(s, i + 1, Len(s))
  <1>1. i \in Nat /\ Len(s) \in Nat /\ 1 <= i /\ i <= Len(s)
    OBVIOUS
  <1>2. a \in Seq(S) /\ Len(a) = i - 1 /\ \A j \in 1..(i - 1) : a[j] = s[j]
    BY <1>1
  <1>3. b \in Seq(S) /\ Len(b) = Len(s) - i /\ \A j \in 1..(Len(s) - i) : b[j] = s[i + j]
    BY <1>1
  <1> HIDE DEF a, b
  <1>4. /\ a \o b \in Seq(S) /\ Len(a \o b) = Len(a) + Len(b)
        /\ \A j \in 1..(Len(a) + Len(b)) :
             (a \o b)[j] = IF j <= Len(a) THEN a[j] ELSE b[j - Len(a)]
    BY <1>2, <1>3, ConcatProperties
  <1>5. ASSUME NEW j \in 1..(Len(s) - 1)
        PROVE  (a \o b)[j] = IF j < i THEN s[j] ELSE s[j + 1]
    <2>1. CASE j < i
      BY <1>1, <1>2, <1>3, <1>4, <2>1
    <2>2. CASE j >= i
      <3>1. (a \o b)[j] = b[j - (i - 1)]
        <4>1. Len(a) = i - 1 /\ Len(b) = Len(s) - i
          BY <1>2, <1>3
        <4>2. j \in 1..(Len(a) + Len(b)) /\ ~ j <= Len(a)
          BY <1>1, <2>2, <4>1
        <4>3. QED
          BY <1>4, <4>1, <4>2
      <3>2. j - (i - 1) \in 1..(Len(s) - i)
        BY <1>1, <2>2
      <3>3. QED
        <4>1. b[j - (i - 1)] = s[i + (j - (i - 1))] /\ i + (j - (i - 1)) = j + 1 /\ ~ j < i
          BY <1>1, <1>3, <2>2, <3>2
        <4>2. QED
          BY <3>1, <4>1
    <2>3. j < i \/ j >= i
      BY <1>1
    <2>4. QED
      BY <2>1, <2>2, <2>3
  <1>6. QED
    <2>1. RemoveAt(s, i) = a \o b
      BY DEF RemoveAt, a, b
    <2>2. QED
      <3>1. Len(a \o b) = Len(s) - 1
        BY <1>1, <1>2, <1>3, <1>4
      <3>2. QED
        BY <1>4, <1>5, <2>1, <3>1

(* Popping a key from distinct keys takes that key out and no other. *)
LEMMA RemoveFirstDistinct ==
  ASSUME NEW S, NEW s \in Seq(S), IsInjective(s), NEW e
  PROVE  /\ RemoveFirst(s, e) \in Seq(S)
         /\ IsInjective(RemoveFirst(s, e))
         /\ ToSet(RemoveFirst(s, e)) = ToSet(s) \ {e}
         /\ Len(RemoveFirst(s, e)) <= Len(s)
         /\ e \in ToSet(s) => Len(RemoveFirst(s, e)) = Len(s) - 1
  <1>1. CASE e \notin ToSet(s)
    <2>1. ~ \E i \in 1..Len(s) : s[i] = e
      BY <1>1 DEF ToSet
    <2>2. RemoveFirst(s, e) = s
      BY <2>1 DEF RemoveFirst
    <2>3. QED
      BY <1>1, <2>2
  <1>2. CASE e \in ToSet(s)
    <2>1. PICK i \in 1..Len(s) : s[i] = e
      BY <1>2, ElementsAt
    <2>3. RemoveFirst(s, e) = RemoveAt(s, i)
      BY <2>1, OnlyPosition
    <2> DEFINE t == RemoveAt(s, i)
    <2>4. /\ t \in Seq(S) /\ Len(t) = Len(s) - 1
          /\ \A j \in 1..Len(t) : t[j] = IF j < i THEN s[j] ELSE s[j + 1]
      BY RemoveAtAt
    <2>5. DOMAIN t = 1..Len(t) /\ DOMAIN s = 1..Len(s) /\ Len(s) \in Nat /\ Len(t) \in Nat
      BY <2>4
    <2> HIDE DEF t
    <2>6. IsInjective(t)
      <3>1. \A j, m \in 1..Len(s) : s[j] = s[m] => j = m
        BY <2>5 DEF IsInjective
      <3>2. ASSUME NEW j \in 1..Len(t), NEW m \in 1..Len(t), t[j] = t[m] PROVE j = m
        BY <2>4, <2>5, <3>1, <3>2
      <3>3. QED
        BY <2>5, <3>2 DEF IsInjective
    <2>7. ToSet(t) = ToSet(s) \ {e}
      <3>1. ASSUME NEW x \in ToSet(t) PROVE x \in ToSet(s) \ {e}
        <4>1. PICK j \in 1..Len(t) : t[j] = x
          BY <2>5 DEF ToSet
        <4>2. PICK m \in 1..Len(s) : s[m] = x /\ m # i
          BY <2>4, <2>5, <4>1
        <4>3. QED
          BY <2>1, <2>5, <4>2 DEF IsInjective, ToSet
      <3>2. ASSUME NEW x \in ToSet(s) \ {e} PROVE x \in ToSet(t)
        <4>1. PICK m \in 1..Len(s) : s[m] = x
          BY <2>5 DEF ToSet
        <4>2. m # i
          BY <2>1, <4>1
        <4>3. CASE m < i
          BY <2>4, <2>5, <4>1, <4>3 DEF ToSet
        <4>4. CASE m > i
          <5>1. m - 1 \in 1..Len(t) /\ t[m - 1] = x
            BY <2>4, <2>5, <4>1, <4>4
          <5>2. QED
            BY <2>5, <5>1 DEF ToSet
        <4>5. QED
          BY <4>2, <4>3, <4>4
      <3>3. QED
        BY <3>1, <3>2
    <2>8. QED
      BY <2>3, <2>4, <2>5, <2>6, <2>7 DEF t
  <1>3. QED
    BY <1>1, <1>2

(* A key appended to keys it is not among stays the only one of its kind. *)
LEMMA AppendDistinct ==
  ASSUME NEW S, NEW s \in Seq(S), IsInjective(s), NEW e \in S, e \notin ToSet(s)
  PROVE  /\ Append(s, e) \in Seq(S)
         /\ IsInjective(Append(s, e))
         /\ ToSet(Append(s, e)) = ToSet(s) \cup {e}
         /\ Len(Append(s, e)) = Len(s) + 1
  <1> DEFINE t == Append(s, e)
  <1>1. /\ t \in Seq(S) /\ Len(t) = Len(s) + 1 /\ Len(s) \in Nat
        /\ DOMAIN t = 1..Len(t) /\ DOMAIN s = 1..Len(s)
        /\ \A i \in 1..Len(s) : t[i] = s[i]
        /\ t[Len(s) + 1] = e
    OBVIOUS
  <1> HIDE DEF t
  <1>2. \A i \in 1..Len(s) : s[i] # e
    BY <1>1 DEF ToSet
  <1>3. IsInjective(t)
    <2>1. ASSUME NEW i \in 1..Len(t), NEW j \in 1..Len(t), t[i] = t[j] PROVE i = j
      BY <1>1, <1>2, <2>1 DEF IsInjective
    <2>2. QED
      BY <1>1, <2>1 DEF IsInjective
  <1>4. ToSet(t) = ToSet(s) \cup {e}
    <2>1. ToSet(t) = {t[i] : i \in 1..Len(t)} /\ ToSet(s) = {s[i] : i \in 1..Len(s)}
      BY <1>1 DEF ToSet
    <2>2. 1..Len(t) = 1..Len(s) \cup {Len(s) + 1} /\ Len(s) + 1 \in 1..Len(t)
      BY <1>1
    <2>3. QED
      BY <1>1, <2>1, <2>2
  <1>5. QED
    BY <1>1, <1>3, <1>4 DEF t

(* move_to_end keeps the keys, each once. *)
LEMMA MovedToEnd ==
  ASSUME NEW S, NEW s \in Seq(S), IsInjective(s), NEW e \in S
  PROVE  /\ Append(RemoveFirst(s, e), e) \in Seq(S)
         /\ IsInjective(Append(RemoveFirst(s, e), e))
         /\ ToSet(Append(RemoveFirst(s, e), e)) = ToSet(s) \cup {e}
         /\ Len(Append(RemoveFirst(s, e), e)) = IF e \in ToSet(s) THEN Len(s) ELSE Len(s) + 1
  <1> DEFINE t == RemoveFirst(s, e)
  <1>1. /\ t \in Seq(S) /\ IsInjective(t) /\ ToSet(t) = ToSet(s) \ {e}
        /\ e \in ToSet(s) => Len(t) = Len(s) - 1
        /\ e \notin ToSet(s) => t = s
    BY RemoveFirstDistinct, ElementsAt DEF RemoveFirst
  <1> HIDE DEF t
  <1>2. /\ Append(t, e) \in Seq(S) /\ IsInjective(Append(t, e))
        /\ ToSet(Append(t, e)) = ToSet(t) \cup {e}
        /\ Len(Append(t, e)) = Len(t) + 1
    BY <1>1, AppendDistinct
  <1>3. Len(s) \in Nat /\ Len(t) \in Nat
    BY <1>1
  <1>4. QED
    BY <1>1, <1>2, <1>3 DEF t

(* What is left after dropping from the front are distinct keys, the last  *)
(* of which is still there.                                                *)
LEMMA SuffixDistinct ==
  ASSUME NEW S, NEW s \in Seq(S), IsInjective(s), NEW n \in Nat \ {0}, n <= Len(s)
  PROVE  /\ SubSeq(s, Len(s) - n + 1, Len(s)) \in Seq(S)
         /\ IsInjective(SubSeq(s, Len(s) - n + 1, Len(s)))
         /\ ToSet(SubSeq(s, Len(s) - n + 1, Len(s))) \subseteq ToSet(s)
         /\ Len(SubSeq(s, Len(s) - n + 1, Len(s))) = n
         /\ SubSeq(s, Len(s) - n + 1, Len(s))[n] = s[Len(s)]
  <1> DEFINE m == Len(s) - n
             t == SubSeq(s, m + 1, Len(s))
  <1>1. m \in Nat /\ Len(s) \in Nat /\ DOMAIN s = 1..Len(s)
    OBVIOUS
  <1>2. /\ t \in Seq(S) /\ Len(t) = n /\ DOMAIN t = 1..n
        /\ \A i \in 1..n : t[i] = s[m + i]
    BY <1>1
  <1> HIDE DEF t
  <1>3. \A i \in 1..n : m + i \in 1..Len(s)
    OBVIOUS
  <1>4. IsInjective(t)
    <2>1. \A i, j \in 1..Len(s) : s[i] = s[j] => i = j
      BY <1>1 DEF IsInjective
    <2>2. ASSUME NEW i \in 1..n, NEW j \in 1..n, t[i] = t[j] PROVE i = j
      BY <1>1, <1>2, <1>3, <2>1, <2>2
    <2>3. QED
      BY <1>2, <2>2 DEF IsInjective
  <1>5. ASSUME NEW x \in ToSet(t) PROVE x \in ToSet(s)
    <2>1. PICK i \in 1..n : t[i] = x
      BY <1>2 DEF ToSet
    <2>2. s[m + i] = x /\ m + i \in DOMAIN s
      BY <1>1, <1>2, <1>3, <2>1
    <2>3. QED
      BY <2>2 DEF ToSet
  <1>6. t[n] = s[Len(s)]
    BY <1>1, <1>2
  <1>7. QED
    BY <1>2, <1>4, <1>5, <1>6 DEF t

(* A prefix agrees with the sequence on its own positions. *)
LEMMA PrefixAt ==
  ASSUME NEW S, NEW s \in Seq(S), NEW t \in Seq(S)
  PROVE  IsPrefix(s, t) <=> Len(s) <= Len(t) /\ \A i \in 1..Len(s) : s[i] = t[i]
  <1>1. Len(s) \in Nat /\ Len(t) \in Nat
    OBVIOUS
  <1>2. ASSUME Len(s) <= Len(t)
        PROVE  SubSeq(s, 1, Len(s)) = SubSeq(t, 1, Len(s)) <=> \A i \in 1..Len(s) : s[i] = t[i]
    <2> DEFINE a == SubSeq(s, 1, Len(s))
               b == SubSeq(t, 1, Len(s))
    <2>1. a \in Seq(S) /\ Len(a) = Len(s) /\ \A i \in 1..Len(s) : a[i] = s[i]
      BY <1>1
    <2>2. b \in Seq(S) /\ Len(b) = Len(s) /\ \A i \in 1..Len(s) : b[i] = t[i]
      BY <1>1, <1>2
    <2> HIDE DEF a, b
    <2>3. (\A i \in 1..Len(s) : a[i] = b[i]) => a = b
      BY <2>1, <2>2, SeqEqual
    <2>4. a = b <=> \A i \in 1..Len(s) : s[i] = t[i]
      BY <2>1, <2>2, <2>3
    <2>5. QED
      BY <2>4 DEF a, b
  <1>3. QED
    BY <1>2 DEF IsPrefix

(* A sequence is a prefix of itself and of what is appended to it. *)
LEMMA PrefixExtends ==
  ASSUME NEW S, NEW s \in Seq(S), NEW t \in Seq(S)
  PROVE  IsPrefix(s, s) /\ IsPrefix(s, s \o t)
  <1>1. IsPrefix(s, s)
    BY PrefixAt
  <1>2. /\ s \o t \in Seq(S) /\ Len(s \o t) = Len(s) + Len(t)
        /\ \A i \in 1..(Len(s) + Len(t)) :
             (s \o t)[i] = IF i <= Len(s) THEN s[i] ELSE t[i - Len(s)]
    BY ConcatProperties
  <1>3. Len(s) \in Nat /\ Len(t) \in Nat
    OBVIOUS
  <1>4. Len(s) <= Len(s \o t) /\ \A i \in 1..Len(s) : s[i] = (s \o t)[i]
    BY <1>2, <1>3
  <1>5. QED
    BY <1>1, <1>2, <1>4, PrefixAt

(* What the prefix of a prefix agrees with. *)
LEMMA PrefixTransitive ==
  ASSUME NEW S, NEW s \in Seq(S), NEW t \in Seq(S), NEW u \in Seq(S),
         IsPrefix(s, t), IsPrefix(t, u)
  PROVE  IsPrefix(s, u)
  <1>1. Len(s) \in Nat /\ Len(t) \in Nat /\ Len(u) \in Nat
    OBVIOUS
  <1>2. /\ Len(s) <= Len(t) /\ \A i \in 1..Len(s) : s[i] = t[i]
        /\ Len(t) <= Len(u) /\ \A i \in 1..Len(t) : t[i] = u[i]
    BY PrefixAt
  <1>3. Len(s) <= Len(u) /\ \A i \in 1..Len(s) : s[i] = u[i]
    BY <1>1, <1>2
  <1>4. QED
    BY <1>3, PrefixAt

(* Appending two elements at once. *)
LEMMA TwoAppended ==
  ASSUME NEW S, NEW s \in Seq(S), NEW d \in S, NEW e \in S
  PROVE  s \o <<d, e>> = Append(Append(s, d), e)
  OBVIOUS

(* Induction over the natural numbers, for a property given as a set. *)
LEMMA SetInduction ==
  ASSUME NEW S \in SUBSET Nat, 0 \in S, \A n \in S : n + 1 \in S
  PROVE  S = Nat
<1> DEFINE T == Nat \ S
           below == OpToRel(<, Nat)
<1> SUFFICES ASSUME T # {} PROVE FALSE
  OBVIOUS
<1>1. IsWellFoundedOn(below, Nat)
  BY NatLessThanWellFounded
<1>2. PICK x \in T : \A y \in T : <<y, x>> \notin below
  <2> HIDE DEF below
  <2> QED BY <1>1, WFMin
<1>3. x \in Nat /\ x \notin S
  OBVIOUS
<1>4. x # 0
  BY <1>3
<1>5. x - 1 \in Nat /\ x - 1 < x /\ (x - 1) + 1 = x
  BY <1>3, <1>4
<1>6. <<x - 1, x>> \in below
  BY <1>3, <1>5 DEF OpToRel
<1>7. x - 1 \notin T
  <2> HIDE DEF below, T
  <2> QED BY <1>2, <1>6
<1>8. x - 1 \in S
  BY <1>5, <1>7
<1>9. (x - 1) + 1 \in S
  BY <1>8
<1> QED BY <1>3, <1>5, <1>9

(* The positions of a sequence that lie in a set can be listed in order. *)
LEMMA Listed ==
  \A n \in Nat : \A I \in SUBSET (1..n) : \E m \in Nat : \E p \in [1..m -> I] :
    /\ \A i, j \in 1..m : i < j => p[i] < p[j]
    /\ \A e \in I : \E i \in 1..m : p[i] = e
<1> DEFINE Good(I, m, p) == /\ \A i, j \in 1..m : i < j => p[i] < p[j]
                            /\ \A e \in I : \E i \in 1..m : p[i] = e
           S == {n \in Nat : \A I \in SUBSET (1..n) : \E m \in Nat : \E p \in [1..m -> I] : Good(I, m, p)}
<1>1. 0 \in S
  <2> SUFFICES ASSUME NEW I \in SUBSET (1..0)
               PROVE  \E m \in Nat : \E p \in [1..m -> I] : Good(I, m, p)
    OBVIOUS
  <2>1. [i \in 1..0 |-> i] \in [1..0 -> I] /\ Good(I, 0, [i \in 1..0 |-> i])
    OBVIOUS
  <2> QED BY <2>1
<1>2. ASSUME NEW n \in S PROVE n + 1 \in S
  <2>n. n \in Nat
    OBVIOUS
  <2> SUFFICES ASSUME NEW I \in SUBSET (1..(n + 1))
               PROVE  \E m \in Nat : \E p \in [1..m -> I] : Good(I, m, p)
    <3> HIDE DEF Good
    <3> QED BY <2>n
  <2> DEFINE J == I \ {n + 1}
  <2>1. J \in SUBSET (1..n)
    OBVIOUS
  <2>2. PICK m \in Nat : \E p \in [1..m -> J] : Good(J, m, p)
    BY <2>1
  <2>3. PICK p \in [1..m -> J] : Good(J, m, p)
    BY <2>2
  <2>4. CASE n + 1 \notin I
    <3>1. J = I
      BY <2>4
    <3>2. p \in [1..m -> I] /\ Good(I, m, p)
      BY <2>3, <3>1
    <3> HIDE DEF Good
    <3> QED BY <3>2
  <2>5. CASE n + 1 \in I
    <3> DEFINE q == [i \in 1..(m + 1) |-> IF i = m + 1 THEN n + 1 ELSE p[i]]
    <3>1. q \in [1..(m + 1) -> I]
      BY <2>5
    <3>2. ASSUME NEW i \in 1..(m + 1), NEW j \in 1..(m + 1), i < j PROVE q[i] < q[j]
      <4>1. i \in 1..m /\ q[i] = p[i] /\ p[i] \in 1..n
        <5>1. i \in 1..m
          BY <3>2
        <5>2. p[i] \in J
          BY <5>1
        <5>3. p[i] \in 1..n
          <6> HIDE DEF J, q
          <6> QED BY <2>1, <5>2
        <5>4. i # m + 1
          BY <5>1
        <5>5. q[i] = p[i]
          BY <5>4
        <5> HIDE DEF q
        <5> QED BY <5>1, <5>3, <5>5
      <4>2. CASE j = m + 1
        BY <2>n, <4>1, <4>2
      <4>3. CASE j # m + 1
        BY <2>3, <3>2, <4>1, <4>3
      <4> QED BY <4>2, <4>3
    <3>3. ASSUME NEW e \in I PROVE \E i \in 1..(m + 1) : q[i] = e
      <4>1. CASE e = n + 1
        <5>1. q[m + 1] = e /\ m + 1 \in 1..(m + 1)
          BY <4>1
        <5> QED BY <5>1
      <4>2. CASE e # n + 1
        <5>1. PICK i \in 1..m : p[i] = e
          BY <2>3, <4>2
        <5>2. i \in 1..(m + 1) /\ q[i] = e
          BY <5>1
        <5> QED BY <5>2
      <4> QED BY <4>1, <4>2
    <3>4. Good(I, m + 1, q) /\ m + 1 \in Nat
      <4> HIDE DEF q
      <4> QED BY <3>2, <3>3
    <3> HIDE DEF q, Good
    <3> QED BY <3>1, <3>4
  <2> QED BY <2>4, <2>5
<1>3. S = Nat
  <2> HIDE DEF S
  <2>1. S \in SUBSET Nat
    BY DEF S
  <2> QED BY <1>1, <1>2, <2>1, SetInduction
<1> QED BY <1>3

(* There are n positions in a sequence of n elements. *)
LEMMA PositionsCount ==
  ASSUME NEW n \in Nat
  PROVE  IsFiniteSet(1..n) /\ Cardinality(1..n) = n
<1>1. 1 \in Int /\ n \in Int
  OBVIOUS
<1>2. IsFiniteSet(1..n) /\ Cardinality(1..n) = IF 1 > n THEN 0 ELSE n - 1 + 1
  BY <1>1, FS_Interval
<1> QED BY <1>2

(* InOrder lists the positions it is given: all of them, each once, in     *)
(* order.                                                                  *)
LEMMA InOrderLists ==
  ASSUME NEW n \in Nat, NEW I \in SUBSET (1..n)
  PROVE  /\ IsFiniteSet(I) /\ Cardinality(I) \in 0..n
         /\ InOrder(I) \in [1..Cardinality(I) -> I]
         /\ \A i, j \in 1..Cardinality(I) : i < j => InOrder(I)[i] < InOrder(I)[j]
         /\ \A e \in I : \E i \in 1..Cardinality(I) : InOrder(I)[i] = e
<1>1. PICK m \in Nat : \E p \in [1..m -> I] :
        /\ \A i, j \in 1..m : i < j => p[i] < p[j]
        /\ \A e \in I : \E i \in 1..m : p[i] = e
  BY Listed
<1>2. PICK p \in [1..m -> I] :
        /\ \A i, j \in 1..m : i < j => p[i] < p[j]
        /\ \A e \in I : \E i \in 1..m : p[i] = e
  BY <1>1
<1>3. ASSUME NEW i \in 1..m, NEW j \in 1..m, i # j PROVE p[i] # p[j]
  <2>1. p[i] \in 1..n /\ p[j] \in 1..n
    OBVIOUS
  <2>2. CASE i < j
    BY <1>2, <2>1, <2>2
  <2>3. CASE j < i
    BY <1>2, <2>1, <2>3
  <2> QED BY <1>3, <2>2, <2>3
<1>4. p \in Bijection(1..m, I)
  BY <1>2, <1>3 DEF Bijection, Injection, Surjection, IsInjective
<1>5. Cardinality(I) = m
  BY <1>4, FS_CountingElements DEF ExistsBijection
<1>6. IsFiniteSet(1..n) /\ Cardinality(1..n) = n
  BY PositionsCount
<1>7. IsFiniteSet(I) /\ Cardinality(I) <= n
  <2>1. IsFiniteSet(I) /\ Cardinality(I) <= Cardinality(1..n)
    BY <1>6, FS_Subset
  <2> QED BY <1>6, <2>1
<1>8. p \in SetToSeqs(I) /\ DOMAIN p = 1..m
  BY <1>3, <1>5 DEF SetToSeqs
<1>9. \A i, j \in DOMAIN p : i < j => p[i] < p[j]
  BY <1>2, <1>8
<1> DEFINE q == InOrder(I)
<1>10. q \in SetToSeqs(I) /\ \A i, j \in DOMAIN q : i < j => q[i] < q[j]
  BY <1>8, <1>9 DEF InOrder
<1>11. q \in [1..m -> I] /\ \A i, j \in 1..m : i # j => q[i] # q[j]
  BY <1>5, <1>10 DEF SetToSeqs
<1>12. q \in Injection(1..m, I)
  BY <1>11 DEF Injection, IsInjective
<1>13. Cardinality(1..m) = m
  BY PositionsCount
<1> HIDE DEF q
<1>14. q \in Surjection(1..m, I)
  BY <1>5, <1>7, <1>12, <1>13, FS_Injection
<1>15. \A e \in I : \E i \in 1..m : q[i] = e
  BY <1>14 DEF Surjection
<1>16. \A i, j \in 1..m : i < j => q[i] < q[j]
  BY <1>10, <1>11
<1> QED BY <1>5, <1>7, <1>11, <1>15, <1>16 DEF q

(* The position listed at place v has v of the positions up to itself.     *)
LEMMA InOrderRank ==
  ASSUME NEW n \in Nat, NEW I \in SUBSET (1..n), NEW v \in 1..Cardinality(I)
  PROVE  Cardinality({j \in I : j <= InOrder(I)[v]}) = v
<1> DEFINE m == Cardinality(I)
           p == InOrder(I)
           B == {j \in I : j <= p[v]}
           f == [k \in 1..v |-> p[k]]
<1>1. /\ m \in 0..n /\ p \in [1..m -> I]
      /\ \A i, j \in 1..m : i < j => p[i] < p[j]
      /\ \A e \in I : \E i \in 1..m : p[i] = e
  BY InOrderLists
<1> HIDE DEF m, p
<1>2. v \in 1..m /\ v \in Nat /\ \A k \in 1..v : k \in 1..m
  BY <1>1 DEF m
<1>3. \A k \in 1..m : p[k] \in I /\ p[k] \in 1..n
  BY <1>1
<1>4. ASSUME NEW k \in 1..v PROVE p[k] \in B
  <2>1. k = v \/ k < v
    BY <1>2
  <2>2. p[k] \in I /\ p[k] \in 1..n /\ p[v] \in 1..n
    BY <1>2, <1>3
  <2>3. p[k] <= p[v]
    BY <1>1, <1>2, <2>1, <2>2
  <2> QED BY <2>2, <2>3
<1>5. ASSUME NEW i \in 1..v, NEW j \in 1..v, p[i] = p[j] PROVE i = j
  <2>1. i \in 1..m /\ j \in 1..m /\ p[i] \in 1..n /\ p[j] \in 1..n
    BY <1>2, <1>3
  <2>2. CASE i < j
    BY <1>1, <1>5, <2>1, <2>2
  <2>3. CASE j < i
    BY <1>1, <1>5, <2>1, <2>3
  <2> QED BY <2>1, <2>2, <2>3
<1>6. ASSUME NEW b \in B PROVE \E k \in 1..v : p[k] = b
  <2>1. PICK k \in 1..m : p[k] = b
    BY <1>1
  <2>2. b <= p[v] /\ b \in 1..n /\ p[v] \in 1..n
    BY <1>2, <1>3
  <2>3. ~(v < k)
    BY <1>1, <1>2, <2>1, <2>2
  <2>4. k \in 1..v
    BY <1>2, <2>3
  <2> QED BY <2>1, <2>4
<1>7. f \in Bijection(1..v, B)
  BY <1>4, <1>5, <1>6 DEF Bijection, Injection, Surjection, IsInjective
<1>8. ExistsBijection(1..v, B)
  BY <1>7 DEF ExistsBijection
<1> HIDE DEF f
<1>9. Cardinality(B) = v
  <2> HIDE DEF B
  <2> QED BY <1>2, <1>8, FS_CountingElements
<1> QED BY <1>9 DEF p

(* Those are the elements at the given positions, in the order of the      *)
(* positions: each of them, and nothing else.                              *)
LEMMA ThoseListed ==
  ASSUME NEW S, NEW s \in Seq(S), NEW I \in SUBSET (1..Len(s))
  PROVE  /\ Those(s, I) \in Seq(S)
         /\ Len(Those(s, I)) = Cardinality(I)
         /\ Cardinality(I) \in 0..Len(s)
         /\ InOrder(I) \in [1..Cardinality(I) -> I]
         /\ \A k \in 1..Cardinality(I) : Those(s, I)[k] = s[InOrder(I)[k]]
         /\ \A j, k \in 1..Cardinality(I) : j < k => InOrder(I)[j] < InOrder(I)[k]
         /\ \A i \in I : \E k \in 1..Cardinality(I) : InOrder(I)[k] = i
<1> DEFINE p == InOrder(I)
           m == Cardinality(I)
<1>1. /\ m \in 0..Len(s)
      /\ p \in [1..m -> I]
      /\ \A i, j \in 1..m : i < j => p[i] < p[j]
      /\ \A e \in I : \E i \in 1..m : p[i] = e
  BY InOrderLists
<1>2. Those(s, I) = [k \in DOMAIN p |-> s[p[k]]]
  BY DEF Those
<1> HIDE DEF p, m
<1>3. Those(s, I) = [k \in 1..m |-> s[p[k]]]
  BY <1>1, <1>2
<1>4. ASSUME NEW k \in 1..m PROVE p[k] \in 1..Len(s) /\ s[p[k]] \in S
  <2>1. p[k] \in I
    BY <1>1
  <2>2. p[k] \in 1..Len(s)
    BY <2>1
  <2> QED BY <2>2
<1>5. m \in Nat /\ [k \in 1..m |-> s[p[k]]] \in Seq(S) /\ Len([k \in 1..m |-> s[p[k]]]) = m
  BY <1>1, <1>4
<1> QED BY <1>1, <1>3, <1>5 DEF p, m

(* What Those holds, as a set. *)
LEMMA ThoseElements ==
  ASSUME NEW S, NEW s \in Seq(S), NEW I \in SUBSET (1..Len(s))
  PROVE  \A e : e \in ToSet(Those(s, I)) <=> \E i \in I : s[i] = e
<1> DEFINE t == Those(s, I)
           p == InOrder(I)
<1>1. /\ t \in Seq(S) /\ Len(t) = Cardinality(I) /\ Cardinality(I) \in Nat
      /\ p \in [1..Len(t) -> I]
      /\ \A k \in 1..Len(t) : t[k] = s[p[k]]
      /\ \A i \in I : \E k \in 1..Len(t) : p[k] = i
  BY ThoseListed
<1> HIDE DEF t, p
<1>2. ASSUME NEW e, e \in ToSet(t) PROVE \E i \in I : s[i] = e
  <2>1. PICK k \in 1..Len(t) : t[k] = e
    BY <1>1, <1>2, ElementsAt
  <2>2. p[k] \in I /\ s[p[k]] = e
    BY <1>1, <2>1
  <2> QED BY <2>2
<1>3. ASSUME NEW i \in I PROVE s[i] \in ToSet(t)
  <2>1. PICK k \in 1..Len(t) : p[k] = i
    BY <1>1
  <2>2. t[k] = s[i]
    BY <1>1, <2>1
  <2> QED BY <1>1, <2>2, ElementsAt
<1> QED BY <1>2, <1>3 DEF t

(* A function on the positions up to n is a sequence of length n. *)
LEMMA ListOf ==
  ASSUME NEW S, NEW n \in Nat, NEW p \in [1..n -> S]
  PROVE  p \in Seq(S) /\ Len(p) = n
  OBVIOUS
================================================================================
