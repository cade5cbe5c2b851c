------------------------------- MODULE Lemmas -------------------------------
(***************************************************************************)
(* Facts about numbers, sets and sequences that the proofs about several   *)
(* components cite: least and greatest elements, how often values occur in *)
(* a sequence that is used as a queue, and what is left of a sequence when *)
(* an element is taken out of it.                                          *)
(***************************************************************************)
EXTENDS Integers, SequencesExt, FiniteSetsExt, TLAPS, FiniteSetTheorems, SequenceTheorems,
        WellFoundedInduction

-----------------------------------------------------------------------------
(* Least and greatest elements.                                            *)

(* A nonempty finite set of integers has a least element: among the sets   *)
(* of the elements below an element one is minimal.                        *)
LEMMA HasLeast ==
    ASSUME NEW S \in SUBSET Int, IsFiniteSet(S), S # {}
    PROVE  \E x \in S : \A y \in S : x =< y
<1> DEFINE below(x) == { y \in S : y < x }
           T == { below(x) : x \in S }
<1>1. T \subseteq FiniteSubsetsOf(S) /\ T # {}
  <2>1. T \subseteq SUBSET S
      OBVIOUS
  <2>2. FiniteSubsetsOf(S) = SUBSET S
      BY FS_FiniteSubsetsOfFinite
  <2>3. T # {}
      OBVIOUS
  <2> QED
      BY <2>1, <2>2, <2>3
<1>2. PICK t \in T : \A u \in T : ~ (<<u, t>> \in StrictSubsetOrdering(S))
  <2> HIDE DEF T
  <2> QED
      BY <1>1, FS_StrictSubsetOrderingWellFounded, WFMin
<1>3. PICK x \in S : t = below(x)
    BY <1>2
<1>4. \A y \in S : x =< y
  <2> SUFFICES ASSUME NEW y \in S, y < x PROVE FALSE
      OBVIOUS
  <2>1. below(y) \subseteq below(x) /\ y \in below(x) /\ y \notin below(y)
    <3>1. x \in Int /\ y \in Int /\ \A z \in below(y) : z \in S /\ z \in Int /\ z < y
        OBVIOUS
    <3>2. \A z \in below(y) : z < x
        BY <3>1
    <3>3. ~ (y < y)
        BY <3>1
    <3> QED
        BY <3>1, <3>2, <3>3
  <2>2. <<below(y), t>> \in StrictSubsetOrdering(S)
      BY <1>3, <2>1 DEF StrictSubsetOrdering
  <2> QED
      BY <1>2, <2>2
<1> QED
    BY <1>4

(* Min returns it.                                                         *)
LEMMA MinIsMember ==
    ASSUME NEW S \in SUBSET Int, IsFiniteSet(S), S # {}
    PROVE  Min(S) \in S /\ \A y \in S : Min(S) =< y
    BY HasLeast DEF Min

(* Max returns the greatest element: the least of the negated ones.        *)
LEMMA MaxIsMember ==
    ASSUME NEW S \in SUBSET Int, IsFiniteSet(S), S # {}
    PROVE  Max(S) \in S /\ \A y \in S : y =< Max(S)
<1> DEFINE T == { -x : x \in S }
<1>1. T \in SUBSET Int /\ T # {}
  <2>1. \A x \in S : -x \in Int
      OBVIOUS
  <2> QED
      BY <2>1
<1>2. IsFiniteSet(T)
  <2>1. [x \in S |-> -x] \in Surjection(S, T)
      BY DEF Surjection
  <2> HIDE DEF T
  <2> QED
      BY <2>1, FS_Surjection
<1>3. PICK t \in T : \A y \in T : t =< y
    BY <1>1, <1>2, HasLeast
<1>4. PICK x \in S : t = -x
    BY <1>3
<1>5. \A y \in S : x >= y
  <2> SUFFICES ASSUME NEW y \in S PROVE x >= y
      OBVIOUS
  <2>1. -y \in T /\ y \in Int /\ x \in Int
      OBVIOUS
  <2>2. -x =< -y
      BY <1>3, <1>4, <2>1
  <2> QED
      BY <2>1, <2>2
<1> QED
    BY <1>5 DEF Max

(* A nonempty set of naturals has a least element, finite or not.          *)
LEMMA NatLeast ==
    ASSUME NEW S \in SUBSET Nat, S # {}
    PROVE  \E x \in S : \A y \in S : x =< y
<1>1. PICK n \in S : TRUE
    OBVIOUS
<1> DEFINE B == { y \in S : y =< n }
<1>2. B \in SUBSET Int /\ n \in B
  <2>1. n \in Int /\ n =< n /\ \A y \in S : y \in Int
      OBVIOUS
  <2>2. B \subseteq S /\ n \in B
      BY <2>1
  <2> QED
      BY <2>1, <2>2
<1>3. IsFiniteSet(B)
  <2>1. B \in SUBSET Nat /\ n \in Nat /\ \A y \in B : y =< n
      OBVIOUS
  <2> HIDE DEF B
  <2> QED
      BY <2>1, FS_BoundedSetOfNaturals
<1>4. PICK x \in B : \A y \in B : x =< y
    BY <1>2, <1>3, HasLeast
<1>5. \A y \in S : x =< y
    BY <1>4
<1> QED
    BY <1>4, <1>5

-----------------------------------------------------------------------------
(* Sequences.                                                              *)

(* A function on 1 .. n is a sequence of length n.                         *)
LEMMA AsSequence ==
    ASSUME NEW S, NEW n \in Nat, NEW f \in [1 .. n -> S]
    PROVE  f \in Seq(S) /\ Len(f) = n
<1>1. f \in Seq(S)
    BY SeqDef
<1>2. DOMAIN f = 1 .. n /\ DOMAIN f = 1 .. Len(f) /\ Len(f) \in Nat
    BY <1>1, LenProperties
<1> QED
    BY <1>1, <1>2

(* Taking an element out of a sequence leaves a sequence.                  *)
LEMMA RemoveAtType ==
    ASSUME NEW S, NEW s \in Seq(S), NEW i \in 1 .. Len(s)
    PROVE  RemoveAt(s, i) \in Seq(S)
<1>1. Len(s) \in Nat /\ \A j \in 1 .. Len(s) : s[j] \in S
    BY LenProperties, ElementOfSeq
<1>2. SubSeq(s, 1, i - 1) \in Seq(S)
    BY <1>1, SubSeqProperties
<1>3. SubSeq(s, i + 1, Len(s)) \in Seq(S)
    BY <1>1, SubSeqProperties
<1> QED
    BY <1>2, <1>3, ConcatProperties DEF RemoveAt

(* The places among the first k of s that hold a value of S.               *)
Occ(s, k, S) == { j \in 1 .. k : s[j] \in S }

(* There are finitely many, and none among no places.                      *)
LEMMA OccFinite ==
    ASSUME NEW s, NEW k \in Nat, NEW S
    PROVE  /\ IsFiniteSet(Occ(s, k, S))
           /\ Cardinality(Occ(s, k, S)) \in Nat
           /\ Cardinality(Occ(s, 0, S)) = 0
<1>1. IsFiniteSet(1 .. k)
    BY FS_Interval
<1>2. IsFiniteSet(Occ(s, k, S))
    BY <1>1, FS_Subset DEF Occ
<1>3. Occ(s, 0, S) = {}
    BY DEF Occ
<1> QED
    BY <1>2, <1>3, FS_CardinalityType, FS_EmptySet

(* One place more counts if it holds a value of S.                         *)
LEMMA OccNext ==
    ASSUME NEW s, NEW k \in Nat, NEW S
    PROVE  Cardinality(Occ(s, k + 1, S)) =
               Cardinality(Occ(s, k, S)) + (IF s[k + 1] \in S THEN 1 ELSE 0)
<1>1. IsFiniteSet(Occ(s, k, S)) /\ Cardinality(Occ(s, k, S)) \in Nat /\ k + 1 \notin Occ(s, k, S)
    BY OccFinite DEF Occ
<1>2. CASE s[k + 1] \in S
  <2>1. Occ(s, k + 1, S) = Occ(s, k, S) \cup {k + 1}
      BY <1>2 DEF Occ
  <2> QED
      BY <1>1, <1>2, <2>1, FS_AddElement
<1>3. CASE s[k + 1] \notin S
  <2>1. Occ(s, k + 1, S) = Occ(s, k, S)
      BY <1>3 DEF Occ
  <2> QED
      BY <1>1, <1>3, <2>1
<1> QED
    BY <1>2, <1>3

(* Append adds a place at the end.                                         *)
LEMMA OccAppend ==
    ASSUME NEW V, NEW s \in Seq(V), NEW e \in V, NEW S
    PROVE  /\ \A k \in 0 .. Len(s) : Occ(Append(s, e), k, S) = Occ(s, k, S)
           /\ Len(Append(s, e)) = Len(s) + 1
           /\ Cardinality(Occ(Append(s, e), Len(s) + 1, S)) =
                  Cardinality(Occ(s, Len(s), S)) + (IF e \in S THEN 1 ELSE 0)
<1>1. /\ Len(s) \in Nat
      /\ Len(Append(s, e)) = Len(s) + 1
      /\ \A i \in 1 .. Len(s) : Append(s, e)[i] = s[i]
      /\ Append(s, e)[Len(s) + 1] = e
    BY AppendProperties, LenProperties
<1>2. \A k \in 0 .. Len(s) : Occ(Append(s, e), k, S) = Occ(s, k, S)
    BY <1>1 DEF Occ
<1>3. Occ(Append(s, e), Len(s), S) = Occ(s, Len(s), S)
    BY <1>1, <1>2
<1>4. Cardinality(Occ(Append(s, e), Len(s) + 1, S)) =
          Cardinality(Occ(Append(s, e), Len(s), S)) + (IF Append(s, e)[Len(s) + 1] \in S THEN 1 ELSE 0)
  <2> DEFINE t == Append(s, e)
             k == Len(s)
  <2>1. k \in Nat
      BY <1>1
  <2> HIDE DEF t, k
  <2>2. Cardinality(Occ(t, k + 1, S)) = Cardinality(Occ(t, k, S)) + (IF t[k + 1] \in S THEN 1 ELSE 0)
      BY <2>1, OccNext
  <2> QED
      BY <2>2 DEF t, k
<1>5. Cardinality(Occ(Append(s, e), Len(s) + 1, S)) =
          Cardinality(Occ(s, Len(s), S)) + (IF e \in S THEN 1 ELSE 0)
    BY <1>1, <1>3, <1>4
<1> QED
    BY <1>1, <1>2, <1>5

(* Tail removes the first place.                                           *)
LEMMA OccTail ==
    ASSUME NEW V, NEW s \in Seq(V), s # <<>>, NEW k \in 0 .. Len(s) - 1, NEW S
    PROVE  Cardinality(Occ(s, k + 1, S)) =
               Cardinality(Occ(Tail(s), k, S)) + (IF Head(s) \in S THEN 1 ELSE 0)
<1>1. /\ Len(s) \in Nat \ {0}
      /\ Len(Tail(s)) = Len(s) - 1
      /\ \A i \in 1 .. Len(Tail(s)) : Tail(s)[i] = s[i + 1]
      /\ Head(s) = s[1]
    BY HeadTailProperties, LenProperties, EmptySeq
<1>2. k \in Nat /\ k =< Len(Tail(s))
    BY <1>1
<1> DEFINE A == Occ(Tail(s), k, S)
           B == { j + 1 : j \in A }
<1>3. IsFiniteSet(A) /\ Cardinality(A) \in Nat
    BY <1>2, OccFinite
<1>4. IsFiniteSet(B) /\ Cardinality(B) = Cardinality(A)
  <2> DEFINE g == [j \in A |-> j + 1]
  <2>1. \A j \in A : j \in Int
      BY <1>2 DEF Occ
  <2>2. g \in Bijection(A, B)
    <3>1. g \in [A -> B]
        OBVIOUS
    <3>2. \A a, b \in A : g[a] = g[b] => a = b
        BY <2>1
    <3>3. \A b \in B : \E a \in A : g[a] = b
        OBVIOUS
    <3> HIDE DEF g, A, B
    <3> QED
        BY <3>1, <3>2, <3>3 DEF Bijection, Injection, Surjection, IsInjective
  <2>3. ExistsBijection(A, B)
      BY <2>2 DEF ExistsBijection
  <2> QED
      BY <1>3, <2>3, FS_Bijection
<1>5. B = { j \in Occ(s, k + 1, S) : j # 1 }
  <2>1. ASSUME NEW j \in A PROVE j + 1 \in Occ(s, k + 1, S) /\ j + 1 # 1
      BY <1>1, <1>2 DEF Occ
  <2>2. ASSUME NEW j \in Occ(s, k + 1, S), j # 1 PROVE j \in B
    <3>1. j - 1 \in 1 .. k /\ s[j] \in S
        BY <1>2, <2>2 DEF Occ
    <3>2. Tail(s)[j - 1] = s[j]
      <4>1. j - 1 \in 1 .. Len(Tail(s)) /\ (j - 1) + 1 = j
          BY <1>1, <1>2, <3>1, <2>2 DEF Occ
      <4> QED
          BY <1>1, <4>1
    <3>3. j - 1 \in A /\ j = (j - 1) + 1
        BY <3>1, <3>2, <2>2, <1>2 DEF Occ
    <3> QED
        BY <3>3
  <2> QED
      BY <2>1, <2>2
<1>6. CASE Head(s) \in S
  <2>1. 1 \in Occ(s, k + 1, S)
      BY <1>1, <1>2, <1>6 DEF Occ
  <2>2. Occ(s, k + 1, S) = B \cup {1} /\ 1 \notin B
      BY <1>5, <2>1
  <2> QED
      BY <1>3, <1>4, <1>6, <2>2, FS_AddElement
<1>7. CASE Head(s) \notin S
  <2>1. 1 \notin Occ(s, k + 1, S)
      BY <1>1, <1>7 DEF Occ
  <2>2. Occ(s, k + 1, S) = B
      BY <1>5, <2>1
  <2>3. Cardinality(Occ(s, k + 1, S)) = Cardinality(A)
      BY <1>4, <2>2
  <2>4. Cardinality(A) + 0 = Cardinality(A)
    <3> HIDE DEF A
    <3> QED
        BY <1>3
  <2> QED
      BY <1>7, <2>3, <2>4
<1> QED
    BY <1>6, <1>7

(* A pair taken from the front is Tail twice.                              *)
LEMMA OccDropPair ==
    ASSUME NEW V, NEW s \in Seq(V), Len(s) >= 2, NEW k \in 0 .. Len(s) - 2, NEW S
    PROVE  /\ SubSeq(s, 3, Len(s)) \in Seq(V)
           /\ Len(SubSeq(s, 3, Len(s))) = Len(s) - 2
           /\ Cardinality(Occ(s, k + 2, S)) =
                  Cardinality(Occ(SubSeq(s, 3, Len(s)), k, S))
                  + (IF s[1] \in S THEN 1 ELSE 0) + (IF s[2] \in S THEN 1 ELSE 0)
<1> DEFINE t == Tail(s)
           u == Tail(t)
<1>1. /\ Len(s) \in Nat /\ s # <<>>
      /\ t \in Seq(V) /\ Len(t) = Len(s) - 1 /\ t # <<>>
      /\ Head(s) = s[1] /\ t[1] = s[2]
      /\ \A j \in 1 .. Len(t) : t[j] = s[j + 1]
  <2>1. Len(s) \in Nat /\ s # <<>> /\ Head(s) = s[1]
      BY LenProperties, EmptySeq
  <2>2. t \in Seq(V) /\ Len(t) = Len(s) - 1 /\ \A j \in 1 .. Len(t) : t[j] = s[j + 1]
      BY <2>1, HeadTailProperties
  <2> HIDE DEF t
  <2>3. t # <<>>
      BY <2>1, <2>2, EmptySeq
  <2>4. t[1] = s[2]
      BY <2>1, <2>2
  <2> QED
      BY <2>1, <2>2, <2>3, <2>4
<1>2. /\ u \in Seq(V) /\ Len(u) = Len(s) - 2
      /\ Head(t) = s[2]
      /\ \A j \in 1 .. Len(u) : u[j] = s[j + 2]
  <2> HIDE DEF t
  <2>1. u \in Seq(V) /\ Len(u) = Len(t) - 1 /\ Head(t) = t[1] /\ \A j \in 1 .. Len(u) : u[j] = t[j + 1]
      BY <1>1, HeadTailProperties
  <2>2. \A j \in 1 .. Len(u) : j + 1 \in 1 .. Len(t) /\ (j + 1) + 1 = j + 2
      BY <1>1, <2>1
  <2> QED
      BY <1>1, <2>1, <2>2
<1>3. SubSeq(s, 3, Len(s)) = u
  <2> DEFINE v == SubSeq(s, 3, Len(s))
  <2>1. v \in Seq(V) /\ Len(v) = Len(s) - 2 /\ \A j \in 1 .. Len(v) : v[j] = s[j + 2]
    <3>1. 3 \in 1 .. Len(s) + 1 /\ Len(s) \in 3 - 1 .. Len(s)
        BY <1>1
    <3> QED
        BY <1>1, <3>1, SubSeqProperties
  <2>2. Len(v) = Len(u) /\ \A j \in 1 .. Len(v) : v[j] = u[j]
      BY <1>2, <2>1
  <2> HIDE DEF u, v
  <2>3. v = u
      BY <1>2, <2>1, <2>2, SeqEqual
  <2> QED
      BY <2>3 DEF v
<1>4. Cardinality(Occ(s, k + 2, S)) = Cardinality(Occ(t, k + 1, S)) + (IF s[1] \in S THEN 1 ELSE 0)
  <2> DEFINE m == k + 1
  <2>1. m \in 0 .. Len(s) - 1 /\ m + 1 = k + 2
      BY <1>1
  <2> HIDE DEF m
  <2>2. Cardinality(Occ(s, m + 1, S)) = Cardinality(Occ(Tail(s), m, S)) + (IF Head(s) \in S THEN 1 ELSE 0)
      BY <1>1, <2>1, OccTail
  <2> QED
      BY <1>1, <2>1, <2>2 DEF m
<1>5. Cardinality(Occ(t, k + 1, S)) = Cardinality(Occ(u, k, S)) + (IF s[2] \in S THEN 1 ELSE 0)
  <2> HIDE DEF t
  <2>1. k \in 0 .. Len(t) - 1
      BY <1>1
  <2> QED
      BY <1>1, <1>2, <2>1, OccTail
<1>6. Cardinality(Occ(u, k, S)) \in Nat
  <2> HIDE DEF u
  <2> QED
      BY OccFinite
<1> DEFINE a == IF s[1] \in S THEN 1 ELSE 0
           b == IF s[2] \in S THEN 1 ELSE 0
<1>7. Cardinality(Occ(s, k + 2, S)) = Cardinality(Occ(u, k, S)) + a + b
  <2>1. a \in Nat /\ b \in Nat
      OBVIOUS
  <2> HIDE DEF a, b, t, u
  <2>2. Cardinality(Occ(s, k + 2, S)) = Cardinality(Occ(t, k + 1, S)) + a
      BY <1>4 DEF a
  <2>3. Cardinality(Occ(t, k + 1, S)) = Cardinality(Occ(u, k, S)) + b
      BY <1>5 DEF b
  <2> QED
      BY <1>6, <2>1, <2>2, <2>3
<1> QED
  <2> HIDE DEF t, u
  <2> QED
      BY <1>2, <1>3, <1>7

(* What is left when an element is taken out of a sequence: the others, in *)
(* their order.                                                            *)
LEMMA RemoveAtElements ==
    ASSUME NEW S, NEW s \in Seq(S), NEW i \in 1 .. Len(s)
    PROVE  /\ Len(RemoveAt(s, i)) = Len(s) - 1
           /\ DOMAIN RemoveAt(s, i) = 1 .. Len(s) - 1
           /\ \A j \in 1 .. Len(s) - 1 : RemoveAt(s, i)[j] = IF j < i THEN s[j] ELSE s[j + 1]
<1> DEFINE x == SubSeq(s, 1, i - 1)
           y == SubSeq(s, i + 1, Len(s))
<1>1. Len(s) \in Nat /\ \A j \in 1 .. Len(s) : s[j] \in S
    BY LenProperties, ElementOfSeq
<1>2. x \in Seq(S) /\ Len(x) = i - 1 /\ \A j \in 1 .. i - 1 : x[j] = s[j]
    BY <1>1, SubSeqProperties
<1>3. y \in Seq(S) /\ Len(y) = Len(s) - i /\ \A j \in 1 .. Len(s) - i : y[j] = s[j + i]
    BY <1>1, SubSeqProperties
<1>4. RemoveAt(s, i) = x \o y
    BY DEF RemoveAt
<1> HIDE DEF x, y
<1>5. /\ Len(x \o y) = Len(s) - 1
      /\ \A j \in 1 .. Len(s) - 1 : (x \o y)[j] = IF j <= i - 1 THEN x[j] ELSE y[j - (i - 1)]
    BY SMTT(30), <1>1, <1>2, <1>3, ConcatProperties
<1>6. \A j \in 1 .. Len(s) - 1 : (x \o y)[j] = IF j < i THEN s[j] ELSE s[j + 1]
    BY <1>1, <1>2, <1>3, <1>5
<1>7. x \o y \in Seq(S)
    BY <1>2, <1>3, ConcatProperties
<1>8. DOMAIN (x \o y) = 1 .. Len(x \o y)
    BY <1>7, LenProperties
<1> QED
    BY <1>4, <1>5, <1>6, <1>8

(* Of a sequence without repetitions that takes one element away and no    *)
(* other, and leaves none twice.                                           *)
LEMMA RemoveAtInjective ==
    ASSUME NEW S, NEW s \in Seq(S), NEW i \in 1 .. Len(s), IsInjective(s)
    PROVE  /\ IsInjective(RemoveAt(s, i))
           /\ ToSet(RemoveAt(s, i)) = ToSet(s) \ {s[i]}
<1> DEFINE t == RemoveAt(s, i)
           n == Len(s)
<1>1. n \in Nat /\ DOMAIN s = 1 .. n
    BY LenProperties
<1>2. DOMAIN t = 1 .. n - 1 /\ \A j \in 1 .. n - 1 : t[j] = IF j < i THEN s[j] ELSE s[j + 1]
    BY RemoveAtElements
<1>3. \A j, k \in 1 .. n : s[j] = s[k] => j = k
    BY <1>1 DEF IsInjective
<1>5. ToSet(t) = { t[j] : j \in 1 .. n - 1 } /\ ToSet(s) = { s[j] : j \in 1 .. n }
    BY <1>1, <1>2 DEF ToSet
<1> HIDE DEF t
<1>4. IsInjective(t)
  <2> SUFFICES ASSUME NEW j \in 1 .. n - 1, NEW k \in 1 .. n - 1, t[j] = t[k] PROVE j = k
      BY <1>2 DEF IsInjective
  <2> QED
      BY <1>1, <1>2, <1>3
<1>6. ASSUME NEW j \in 1 .. n - 1 PROVE t[j] \in { s[k] : k \in 1 .. n } \ {s[i]}
    BY <1>1, <1>2, <1>3
<1>7. ASSUME NEW k \in 1 .. n, s[k] # s[i] PROVE s[k] \in { t[j] : j \in 1 .. n - 1 }
  <2>1. CASE k < i
      BY <1>1, <1>2, <2>1
  <2>2. CASE k > i
    <3>1. k - 1 \in 1 .. n - 1 /\ ~ (k - 1 < i) /\ (k - 1) + 1 = k
        BY <1>1, <2>2
    <3>2. t[k - 1] = s[k]
        BY <1>2, <3>1
    <3> QED
        BY <3>1, <3>2
  <2> QED
      BY <1>1, <1>7, <2>1, <2>2
<1>8. ToSet(t) \subseteq ToSet(s) \ {s[i]}
    BY <1>5, <1>6
<1>9. ToSet(s) \ {s[i]} \subseteq ToSet(t)
    BY <1>5, <1>7
<1> QED
    BY <1>4, <1>8, <1>9 DEF t

=============================================================================
