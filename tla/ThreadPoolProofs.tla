--------------------------- MODULE ThreadPoolProofs ---------------------------
(***************************************************************************)
(* Theorems about the linked list of the thread pool, for every number of  *)
(* nodes, workers and tasks: the list stays intact, and the pool behaves   *)
(* as TaskPool, the FIFO queue, says.                                      *)
(*                                                                         *)
(* The invariant names the nodes of the list in order, a sequence s.  Each *)
(* operation of the list is one of the queue on that sequence.             *)
(***************************************************************************)
EXTENDS ThreadPool, Lemmas

(* The list is s: the nodes allocated are those of s, each once, the head  *)
(* pointer and the next pointers follow it, and the tail pointer is its    *)
(* last node unless it is empty.                                           *)
ListIs(s) ==
    /\ \A k, j \in 1 .. Len(s) : s[k] = s[j] => k = j
    /\ \A n \in Nodes : live(n) <=> \E k \in 1 .. Len(s) : s[k] = n
    /\ queue = IF s = <<>> THEN Null ELSE s[1]
    /\ \A k \in 1 .. Len(s) : node[s[k]].next = IF k = Len(s) THEN Null ELSE s[k + 1]
    /\ s # <<>> => queue_tail = s[Len(s)]

PoolInv == TypeOK /\ ~dangling /\ \E s \in Seq(Nodes) : ListIs(s)

-----------------------------------------------------------------------------
(* What the recursive definitions of the list return.                      *)

(* A list without repetition is no longer than there are nodes.            *)
LEMMA ListBounded ==
    ASSUME NEW s \in Seq(Nodes), \A k, j \in 1 .. Len(s) : s[k] = s[j] => k = j
    PROVE  Len(s) \in Nat /\ Cardinality(Nodes) \in Nat /\ Len(s) =< Cardinality(Nodes)
<1>1. Len(s) \in Nat /\ IsFiniteSet(Nodes) /\ Cardinality(Nodes) \in Nat
    BY LenProperties, ThreadPoolAssumption, FS_CardinalityType
<1>2. s \in Injection(1 .. Len(s), Nodes)
  <2>1. s \in [1 .. Len(s) -> Nodes]
      BY LenProperties, ElementOfSeq
  <2> QED
      BY <2>1 DEF Injection, IsInjective
<1>3. Cardinality(1 .. Len(s)) =< Cardinality(Nodes)
  <2> DEFINE A == 1 .. Len(s)
  <2>1. s \in Injection(A, Nodes)
      BY <1>2
  <2> HIDE DEF A
  <2>2. Cardinality(A) =< Cardinality(Nodes)
      BY <1>1, <2>1, FS_Injection
  <2> QED
      BY <2>2 DEF A
<1>4. Cardinality(1 .. Len(s)) = Len(s)
  <2> DEFINE m == 1
             n == Len(s)
  <2>1. m \in Int /\ n \in Int
      BY <1>1
  <2>2. Cardinality(m .. n) = IF m > n THEN 0 ELSE n - m + 1
    <3> HIDE DEF m, n
    <3> QED
        BY <2>1, FS_Interval
  <2> QED
      BY <1>1, <2>2
<1> QED
    BY <1>1, <1>3, <1>4

(* chain walks the nodes of s, and stays at Null after the last one.  The  *)
(* function that does so satisfies the recursive definition, and any other *)
(* that does would differ from it at a least argument, which it cannot.    *)
LEMMA ChainIsList ==
    ASSUME NEW s \in Seq(Nodes), ListIs(s)
    PROVE  \A k \in 0 .. Cardinality(Nodes) : chain[k] = IF k < Len(s) THEN s[k + 1] ELSE Null
<1> DEFINE D == 0 .. Cardinality(Nodes)
           next(f, k) == IF k = 0 THEN queue ELSE IF f[k - 1] = Null THEN Null ELSE node[f[k - 1]].next
           g == [k \in D |-> IF k < Len(s) THEN s[k + 1] ELSE Null]
<1>1. Len(s) \in Nat /\ Cardinality(Nodes) \in Nat /\ Len(s) =< Cardinality(Nodes)
    BY ListBounded DEF ListIs
<1>2. \A k \in 1 .. Len(s) : s[k] \in Nodes /\ s[k] # Null
    BY ElementOfSeq, ThreadPoolAssumption
<1>3. \A k \in D : g[k] = next(g, k)
  <2> SUFFICES ASSUME NEW k \in D PROVE g[k] = next(g, k)
      OBVIOUS
  <2>1. CASE k = 0
      BY <1>1, <2>1, EmptySeq DEF ListIs
  <2>2. CASE k # 0
    <3>1. k - 1 \in D /\ k \in Nat /\ (k - 1) + 1 = k
        BY <1>1, <2>2
    <3>2. CASE k - 1 < Len(s)
      <4>1. g[k - 1] = s[k] /\ k \in 1 .. Len(s)
          BY <1>1, <2>2, <3>1, <3>2
      <4>2. next(g, k) = IF k = Len(s) THEN Null ELSE s[k + 1]
          BY <1>2, <2>2, <4>1 DEF ListIs
      <4> QED
          BY <1>1, <3>1, <4>1, <4>2
    <3>3. CASE ~(k - 1 < Len(s))
        BY <1>1, <2>2, <3>1, <3>3
    <3> QED
        BY <3>2, <3>3
  <2> QED
      BY <2>1, <2>2
<1>4. g = [k \in D |-> next(g, k)]
    BY <1>3
<1>5. chain = [k \in D |-> next(chain, k)]
  <2>1. chain = CHOOSE f : f = [k \in D |-> next(f, k)]
      BY DEF chain
  <2> HIDE DEF D, next, g
  <2> QED
      BY <1>4, <2>1
<1>6. \A k \in D : chain[k] = g[k]
  <2> DEFINE W == { k \in D : chain[k] # g[k] }
  <2> SUFFICES ASSUME W # {} PROVE FALSE
      OBVIOUS
  <2>1. PICK k \in W : \A j \in W : k =< j
    <3>1. W \in SUBSET Nat
        BY <1>1
    <3> HIDE DEF W
    <3> QED
        BY <3>1, NatLeast
  <2>2. k \in D /\ k \in Nat /\ chain[k] # g[k]
      BY <1>1, <2>1
  <2>3. chain[k] = next(chain, k) /\ g[k] = next(g, k)
    <3> HIDE DEF D, next, g
    <3> QED
        BY <1>3, <1>5, <2>2
  <2>4. k # 0
      BY <2>2, <2>3
  <2>5. chain[k - 1] = g[k - 1]
    <3>1. k - 1 \in D /\ ~(k =< k - 1)
        BY <1>1, <2>2, <2>4
    <3> HIDE DEF D, g
    <3> QED
        BY <2>1, <3>1
  <2>6. next(chain, k) = next(g, k)
    <3> HIDE DEF g
    <3> QED
        BY <2>5
  <2> QED
    <3> HIDE DEF D, next, g
    <3> QED
        BY <2>2, <2>3, <2>6
<1> QED
    BY <1>6

(* So onList is the set of its nodes, all allocated ones, and listed the   *)
(* sequence of their tasks.                                                *)
LEMMA ListedIs ==
    \A s \in Seq(Nodes) :
        ListIs(s) =>
            /\ onList = { n \in Nodes : live(n) }
            /\ listed = [k \in 1 .. Len(s) |-> node[s[k]].task]
<1> SUFFICES ASSUME NEW s \in Seq(Nodes), ListIs(s)
             PROVE  /\ onList = { n \in Nodes : live(n) }
                    /\ listed = [k \in 1 .. Len(s) |-> node[s[k]].task]
    OBVIOUS
<1>1. Len(s) \in Nat /\ Cardinality(Nodes) \in Nat /\ Len(s) =< Cardinality(Nodes)
    BY ListBounded DEF ListIs
<1>2. \A k \in 1 .. Len(s) : s[k] \in Nodes /\ s[k] # Null
    BY ElementOfSeq, ThreadPoolAssumption
<1>3. \A k \in 0 .. Cardinality(Nodes) : chain[k] = IF k < Len(s) THEN s[k + 1] ELSE Null
    BY ChainIsList
<1>4. ASSUME NEW k \in 1 .. Len(s) PROVE k - 1 \in 0 .. Cardinality(Nodes) /\ chain[k - 1] = s[k]
  <2>1. k - 1 \in 0 .. Cardinality(Nodes) /\ k - 1 < Len(s) /\ (k - 1) + 1 = k
      BY <1>1
  <2> QED
      BY <1>3, <2>1
<1>5. onList = { n \in Nodes : live(n) }
  <2>1. ASSUME NEW n \in onList PROVE n \in Nodes /\ live(n)
    <3>1. PICK k \in 0 .. Cardinality(Nodes) : chain[k] = n /\ n # Null
        BY DEF onList
    <3>2. k < Len(s) /\ n = s[k + 1]
        BY <1>3, <3>1
    <3>3. k + 1 \in 1 .. Len(s)
        BY <1>1, <3>2
    <3> QED
        BY <1>2, <3>2, <3>3 DEF ListIs
  <2>2. ASSUME NEW n \in Nodes, live(n) PROVE n \in onList
    <3>1. PICK k \in 1 .. Len(s) : s[k] = n
        BY <2>2 DEF ListIs
    <3> QED
        BY <1>2, <1>4, <3>1 DEF onList
  <2> QED
      BY <2>1, <2>2
<1>6. length = Len(s)
  <2> DEFINE A == { k \in 0 .. Cardinality(Nodes) : chain[k] # Null }
  <2>1. A = 0 .. Len(s) - 1
    <3>1. ASSUME NEW k \in 0 .. Cardinality(Nodes) PROVE chain[k] # Null <=> k < Len(s)
      <4>1. CASE k < Len(s)
        <5>1. k + 1 \in 1 .. Len(s)
            BY <1>1, <4>1
        <5> QED
            BY <1>2, <1>3, <4>1, <5>1
      <4>2. CASE ~(k < Len(s))
          BY <1>3, <4>2
      <4> QED
          BY <4>1, <4>2
    <3>2. \A k : k \in 0 .. Len(s) - 1 <=> k \in 0 .. Cardinality(Nodes) /\ k < Len(s)
        BY <1>1
    <3> QED
        BY <3>1, <3>2
  <2>2. Cardinality(0 .. Len(s) - 1) = Len(s)
    <3> DEFINE m == 0
               n == Len(s) - 1
    <3>1. m \in Int /\ n \in Int
        BY <1>1
    <3>2. Cardinality(m .. n) = IF m > n THEN 0 ELSE n - m + 1
      <4> HIDE DEF m, n
      <4> QED
          BY <3>1, FS_Interval
    <3> QED
        BY <1>1, <3>2
  <2> QED
      BY <2>1, <2>2 DEF length
<1>7. listed = [k \in 1 .. Len(s) |-> node[s[k]].task]
    BY <1>4, <1>6 DEF listed
<1> QED
    BY <1>5, <1>7

(* The same of the state a step leads to.                                  *)
LEMMA ListedIsNext ==
    (\A s \in Seq(Nodes) :
        ListIs(s) =>
            /\ onList = { n \in Nodes : live(n) }
            /\ listed = [k \in 1 .. Len(s) |-> node[s[k]].task])'
    BY ListedIs, PTL

(* The allocated nodes, their tasks and the length of the list are finite. *)
LEMMA ListTypes ==
    ASSUME TypeOK, NEW s \in Seq(Nodes), ListIs(s)
    PROVE  /\ Len(s) \in Nat
           /\ \A k \in 1 .. Len(s) : s[k] \in Nodes /\ live(s[k]) /\ node[s[k]].task \in Tasks \cup {Exit}
           /\ s # <<>> => Len(s) > 0 /\ queue = s[1] /\ live(queue) /\ queue_tail = s[Len(s)] /\ live(queue_tail)
<1>1. Len(s) \in Nat /\ \A k \in 1 .. Len(s) : s[k] \in Nodes
    BY LenProperties, ElementOfSeq
<1>2. \A k \in 1 .. Len(s) : live(s[k])
    BY <1>1 DEF ListIs
<1>3. \A n \in Nodes : live(n) => node[n].task \in Tasks \cup {Exit}
    BY DEF live, TypeOK, Freed
<1>4. s # <<>> => Len(s) > 0
    BY <1>1, EmptySeq
<1>5. s # <<>> => 1 \in 1 .. Len(s) /\ Len(s) \in 1 .. Len(s)
    BY <1>1, <1>4
<1> QED
    BY <1>1, <1>2, <1>3, <1>4, <1>5 DEF ListIs

-----------------------------------------------------------------------------
(* Each operation of the list is one on the sequence.                      *)

(* queueAdd appends the new node.                                          *)
LEMMA QueueAdded ==
    ASSUME TypeOK, ~dangling, NEW s \in Seq(Nodes), ListIs(s),
           NEW t \in Tasks \cup {Exit}, NEW n \in Nodes, queueAdd(t, n)
    PROVE  /\ queue' \in Nodes \cup {Null} /\ queue_tail' \in Nodes \cup {Null} /\ dangling' = FALSE
           /\ node' \in [Nodes -> {Freed} \cup [task : Tasks \cup {Exit}, next : Nodes \cup {Null}]]
           /\ Append(s, n) \in Seq(Nodes)
           /\ ListIs(Append(s, n))'
           /\ listed' = Append(listed, t)
<1> DEFINE u == Append(s, n)
           Node == {Freed} \cup [task : Tasks \cup {Exit}, next : Nodes \cup {Null}]
<1>1. /\ Len(s) \in Nat
      /\ \A k \in 1 .. Len(s) : s[k] \in Nodes /\ live(s[k]) /\ node[s[k]].task \in Tasks \cup {Exit}
      /\ s # <<>> => Len(s) > 0 /\ queue = s[1] /\ live(queue) /\ queue_tail = s[Len(s)] /\ live(queue_tail)
    BY ListTypes
<1>2. /\ u \in Seq(Nodes) /\ Len(u) = Len(s) + 1 /\ u[Len(s) + 1] = n
      /\ \A k \in 1 .. Len(s) : u[k] = s[k]
      /\ u # <<>>
  <2>1. u \in Seq(Nodes) /\ Len(u) = Len(s) + 1 /\ u[Len(s) + 1] = n /\ \A k \in 1 .. Len(s) : u[k] = s[k]
      BY <1>1, AppendProperties
  <2> HIDE DEF u
  <2> QED
      BY <1>1, <2>1, EmptySeq
<1> HIDE DEF u
<1>3. ~live(n) /\ \A k \in 1 .. Len(s) : s[k] # n
    BY <1>1 DEF queueAdd
<1>4. queue = Null <=> s = <<>>
    BY <1>1, ThreadPoolAssumption DEF ListIs, live
<1>5. t # NoTask /\ Freed.task = NoTask /\ Freed.next = Null
    BY ThreadPoolAssumption DEF Freed
<1>6. /\ queue' = (IF s = <<>> THEN n ELSE queue) /\ queue_tail' = n /\ dangling' = FALSE
      /\ node' \in [Nodes -> Node]
      /\ node'[n] = [task |-> t, next |-> Null]
      /\ \A m \in Nodes \ {n} : node'[m].task = node[m].task
      /\ \A m \in Nodes \ {n} : node'[m].next = IF s # <<>> /\ m = queue_tail THEN n ELSE node[m].next
  <2> DEFINE new == [task |-> t, next |-> Null]
  <2>1. node \in [Nodes -> Node] /\ new \in Node
      BY DEF TypeOK
  <2>2. CASE s = <<>>
    <3>1. queue' = n /\ queue_tail' = n /\ node' = [node EXCEPT ![n] = new] /\ dangling' = dangling
        BY <1>4, <2>2 DEF queueAdd
    <3> HIDE DEF Node
    <3>2. node' \in [Nodes -> Node] /\ node'[n] = new /\ \A m \in Nodes \ {n} : node'[m] = node[m]
        BY <2>1, <3>1
    <3> QED
        BY <2>2, <3>1, <3>2
  <2>3. CASE s # <<>>
    <3> DEFINE q == queue_tail
               old == [node[q] EXCEPT !.next = n]
    <3>1. /\ queue' = queue /\ queue_tail' = n /\ dangling' = (dangling \/ ~live(queue_tail))
          /\ node' = [node EXCEPT ![queue_tail].next = n, ![n] = [task |-> t, next |-> Null]]
        BY <1>4, <2>3 DEF queueAdd
    <3>2. live(q) /\ q \in Nodes /\ q # n
        BY <1>1, <1>3, <2>3 DEF live
    <3>3. node[q] \in [task : Tasks \cup {Exit}, next : Nodes \cup {Null}]
        BY <1>5, <2>1, <3>2 DEF live
    <3>4. old \in Node /\ old.task = node[q].task /\ old.next = n
        BY <3>3
    <3> HIDE DEF Node, new, old
    <3>5. node' = [[node EXCEPT ![q] = old] EXCEPT ![n] = new]
        BY <3>1 DEF old, new
    <3>6. node' \in [Nodes -> Node] /\ node'[n] = new /\ \A m \in Nodes \ {n} : node'[m] = IF m = q THEN old ELSE node[m]
        BY <2>1, <3>2, <3>4, <3>5
    <3>7. queue' = queue /\ queue_tail' = n /\ dangling' = FALSE
        BY <3>1, <3>2
    <3>8. node'[n] = [task |-> t, next |-> Null]
        BY <3>6 DEF new
    <3>9. ASSUME NEW m \in Nodes \ {n}
          PROVE  node'[m].task = node[m].task /\ node'[m].next = IF m = queue_tail THEN n ELSE node[m].next
      <4>1. node'[m] = IF m = q THEN old ELSE node[m]
          BY <3>6
      <4> QED
          BY <3>4, <4>1
    <3> QED
        BY <2>3, <3>6, <3>7, <3>8, <3>9
  <2> QED
      BY <2>2, <2>3
<1>7. ListIs(u)'
  <2>1. \A k, j \in 1 .. Len(u) : u[k] = u[j] => k = j
    <3>1. \A k \in 1 .. Len(u) : k \in 1 .. Len(s) \/ k = Len(s) + 1
        BY <1>1, <1>2
    <3> QED
        BY <1>2, <1>3, <3>1 DEF ListIs
  <2>2. ASSUME NEW m \in Nodes PROVE live(m)' <=> \E k \in 1 .. Len(u) : u[k] = m
    <3>1. CASE m = n
      <4>1. Len(s) + 1 \in 1 .. Len(u)
          BY <1>1, <1>2
      <4> QED
          BY <1>2, <1>5, <1>6, <3>1, <4>1 DEF live
    <3>2. CASE m # n
      <4>1. live(m)' <=> live(m)
          BY <1>6, <3>2 DEF live
      <4>2. (\E k \in 1 .. Len(u) : u[k] = m) <=> \E k \in 1 .. Len(s) : s[k] = m
        <5>1. \A k \in 1 .. Len(u) : k \in 1 .. Len(s) \/ k = Len(s) + 1
            BY <1>1, <1>2
        <5>2. \A k \in 1 .. Len(s) : k \in 1 .. Len(u)
            BY <1>1, <1>2
        <5> QED
            BY <1>2, <3>2, <5>1, <5>2
      <4> QED
          BY <4>1, <4>2 DEF ListIs
    <3> QED
        BY <3>1, <3>2
  <2>3. queue' = IF u = <<>> THEN Null ELSE u[1]
    <3>1. CASE s = <<>>
        BY <1>1, <1>2, <1>6, <3>1
    <3>2. CASE s # <<>>
      <4>1. 1 \in 1 .. Len(s)
          BY <1>1, <3>2
      <4> QED
          BY <1>1, <1>2, <1>6, <3>2, <4>1
    <3> QED
        BY <3>1, <3>2
  <2>4. ASSUME NEW k \in 1 .. Len(u) PROVE node'[u[k]].next = IF k = Len(u) THEN Null ELSE u[k + 1]
    <3>1. CASE k = Len(s) + 1
        BY <1>2, <1>6, <3>1
    <3>2. CASE k \in 1 .. Len(s)
      <4>1. u[k] = s[k] /\ s[k] \in Nodes \ {n} /\ k # Len(u) /\ s # <<>> /\ Len(s) \in 1 .. Len(s)
          BY <1>1, <1>2, <1>3, <3>2
      <4>2. CASE k = Len(s)
          BY <1>1, <1>2, <1>6, <4>1, <4>2
      <4>3. CASE k # Len(s)
        <5>1. s[k] # queue_tail
            BY <1>1, <4>1, <4>3, <3>2 DEF ListIs
        <5>2. node[s[k]].next = s[k + 1]
            BY <3>2, <4>3 DEF ListIs
        <5>3. k + 1 \in 1 .. Len(s)
            BY <1>1, <3>2, <4>3
        <5> QED
            BY <1>2, <1>6, <4>1, <5>1, <5>2, <5>3
      <4> QED
          BY <4>2, <4>3
    <3> QED
        BY <1>1, <1>2, <3>1, <3>2
  <2> QED
      BY <1>2, <1>6, <2>1, <2>2, <2>3, <2>4 DEF ListIs
<1>8. listed' = Append(listed, t)
  <2>1. listed' = [k \in 1 .. Len(u) |-> node'[u[k]].task]
      BY <1>2, <1>7, ListedIsNext
  <2>2. listed = [k \in 1 .. Len(s) |-> node[s[k]].task]
      BY ListedIs
  <2> DEFINE V == Tasks \cup {Exit}
             a == Append(listed, t)
  <2>3. listed \in Seq(V) /\ Len(listed) = Len(s) /\ t \in V
    <3> HIDE DEF V
    <3>1. \A k \in 1 .. Len(s) : node[s[k]].task \in V
        BY <1>1 DEF V
    <3>2. listed \in [1 .. Len(s) -> V]
        BY <2>2, <3>1
    <3>3. listed \in Seq(V)
        BY <1>1, <3>2, SeqDef
    <3>4. Len(listed) = Len(s)
        BY <1>1, <3>2, <3>3, LenProperties
    <3> QED
        BY <3>3, <3>4 DEF V
  <2> HIDE DEF V
  <2>4. a \in Seq(V) /\ Len(a) = Len(s) + 1 /\ a[Len(s) + 1] = t /\ \A k \in 1 .. Len(s) : a[k] = listed[k]
      BY <2>3, AppendProperties
  <2> HIDE DEF a
  <2>5. a = [k \in 1 .. Len(s) + 1 |-> a[k]]
      BY <1>1, <2>4, LenProperties
  <2>6. ASSUME NEW k \in 1 .. Len(s) + 1 PROVE node'[u[k]].task = a[k]
    <3>1. CASE k = Len(s) + 1
        BY <1>2, <1>6, <2>4, <3>1
    <3>2. CASE k \in 1 .. Len(s)
        BY <1>1, <1>2, <1>3, <1>6, <2>2, <2>4, <3>2
    <3> QED
        BY <1>1, <3>1, <3>2
  <2>7. listed' = a
      BY <1>2, <2>1, <2>5, <2>6
  <2> QED
      BY <2>7 DEF a
<1>9. queue' \in Nodes \cup {Null} /\ queue_tail' \in Nodes \cup {Null}
    BY <1>6 DEF TypeOK
<1> QED
    BY <1>2, <1>6, <1>7, <1>8, <1>9 DEF u

(* queueTakeHead takes the first node, which is freed.                     *)
LEMMA QueueTaken ==
    ASSUME TypeOK, ~dangling, NEW s \in Seq(Nodes), ListIs(s), queue # Null, queueTakeHead
    PROVE  /\ queue' \in Nodes \cup {Null} /\ queue_tail' \in Nodes \cup {Null} /\ dangling' = FALSE
           /\ node' \in [Nodes -> {Freed} \cup [task : Tasks \cup {Exit}, next : Nodes \cup {Null}]]
           /\ Tail(s) \in Seq(Nodes)
           /\ ListIs(Tail(s))'
           /\ node[queue].task \in Tasks \cup {Exit}
           /\ listed # <<>> /\ node[queue].task = Head(listed) /\ listed' = Tail(listed)
<1> DEFINE u == Tail(s)
           Node == {Freed} \cup [task : Tasks \cup {Exit}, next : Nodes \cup {Null}]
<1>1. /\ Len(s) \in Nat
      /\ \A k \in 1 .. Len(s) : s[k] \in Nodes /\ live(s[k]) /\ node[s[k]].task \in Tasks \cup {Exit}
      /\ s # <<>> => Len(s) > 0 /\ queue = s[1] /\ live(queue) /\ queue_tail = s[Len(s)] /\ live(queue_tail)
    BY ListTypes
<1>2. s # <<>> /\ Len(s) > 0 /\ queue = s[1] /\ live(queue) /\ 1 \in 1 .. Len(s)
    BY <1>1 DEF ListIs
<1>3. u \in Seq(Nodes) /\ Len(u) = Len(s) - 1 /\ \A k \in 1 .. Len(u) : u[k] = s[k + 1]
    BY <1>2, HeadTailProperties
<1> HIDE DEF u
<1>4. u = <<>> <=> Len(s) = 1
    BY <1>1, <1>3, EmptySeq
<1>5. node[queue].next = IF Len(s) = 1 THEN Null ELSE s[2]
  <2>1. node[s[1]].next = IF 1 = Len(s) THEN Null ELSE s[1 + 1]
      BY <1>2 DEF ListIs
  <2> QED
      BY <1>2, <2>1
<1>6. /\ queue' = (IF u = <<>> THEN Null ELSE u[1])
      /\ queue_tail' = IF u = <<>> THEN Null ELSE u[Len(u)]
      /\ dangling' = FALSE
      /\ node' = [node EXCEPT ![queue] = Freed]
  <2>1. Len(s) # 1 => 2 \in 1 .. Len(s) /\ s[2] \in Nodes /\ s[2] # Null /\ u[1] = s[2] /\ u[Len(u)] = s[Len(s)]
    <3>1. Len(s) # 1 => 2 \in 1 .. Len(s) /\ 1 \in 1 .. Len(u) /\ Len(u) \in 1 .. Len(u) /\ Len(u) + 1 = Len(s)
        BY <1>1, <1>2, <1>3
    <3> QED
        BY <1>1, <1>3, <3>1, ThreadPoolAssumption
  <2> QED
      BY <1>1, <1>2, <1>4, <1>5, <2>1 DEF queueTakeHead
<1>7. /\ node' \in [Nodes -> Node] /\ node'[queue] = Freed /\ queue \in Nodes
      /\ \A m \in Nodes \ {queue} : node'[m] = node[m]
  <2>1. node \in [Nodes -> Node] /\ Freed \in Node
      BY DEF TypeOK
  <2> HIDE DEF Node
  <2> QED
      BY <1>1, <1>2, <1>6, <2>1
<1>8. \A k \in 1 .. Len(u) : k + 1 \in 1 .. Len(s) /\ u[k] = s[k + 1] /\ u[k] # queue /\ u[k] \in Nodes
  <2> SUFFICES ASSUME NEW k \in 1 .. Len(u)
               PROVE  k + 1 \in 1 .. Len(s) /\ u[k] = s[k + 1] /\ u[k] # queue /\ u[k] \in Nodes
      OBVIOUS
  <2>1. k + 1 \in 1 .. Len(s) /\ k + 1 # 1
      BY <1>1, <1>3
  <2> QED
      BY <1>1, <1>2, <1>3, <2>1 DEF ListIs
<1>9. ListIs(u)'
  <2>1. \A k, j \in 1 .. Len(u) : u[k] = u[j] => k = j
    <3> SUFFICES ASSUME NEW k \in 1 .. Len(u), NEW j \in 1 .. Len(u), u[k] = u[j] PROVE k = j
        OBVIOUS
    <3>1. k + 1 = j + 1 /\ k \in Int /\ j \in Int
        BY <1>8 DEF ListIs
    <3> QED
        BY <3>1
  <2>2. ASSUME NEW m \in Nodes PROVE live(m)' <=> \E k \in 1 .. Len(u) : u[k] = m
    <3>1. CASE m = queue
        BY <1>7, <1>8, <3>1 DEF live, Freed
    <3>2. CASE m # queue
      <4>1. live(m)' <=> live(m)
          BY <1>7, <3>2 DEF live
      <4>2. ASSUME NEW k \in 1 .. Len(s), s[k] = m PROVE \E j \in 1 .. Len(u) : u[j] = m
        <5>1. k # 1
            BY <1>2, <3>2, <4>2
        <5>2. k - 1 \in 1 .. Len(u) /\ (k - 1) + 1 = k
            BY <1>1, <1>3, <5>1
        <5> QED
            BY <1>3, <4>2, <5>2
      <4> QED
          BY <1>8, <4>1, <4>2 DEF ListIs
    <3> QED
        BY <3>1, <3>2
  <2>3. ASSUME NEW k \in 1 .. Len(u) PROVE node'[u[k]].next = IF k = Len(u) THEN Null ELSE u[k + 1]
    <3>1. node'[u[k]].next = IF k + 1 = Len(s) THEN Null ELSE s[(k + 1) + 1]
        BY <1>7, <1>8 DEF ListIs
    <3>2. k = Len(u) <=> k + 1 = Len(s)
        BY <1>1, <1>3
    <3>3. k # Len(u) => k + 1 \in 1 .. Len(u)
        BY <1>1, <1>3
    <3> QED
        BY <1>3, <3>1, <3>2, <3>3
  <2> QED
      BY <1>6, <2>1, <2>2, <2>3 DEF ListIs
<1>10. listed # <<>> /\ node[queue].task = Head(listed) /\ listed' = Tail(listed)
  <2>1. listed' = [k \in 1 .. Len(u) |-> node'[u[k]].task]
      BY <1>3, <1>9, ListedIsNext
  <2>2. listed = [k \in 1 .. Len(s) |-> node[s[k]].task]
      BY ListedIs
  <2> DEFINE V == Tasks \cup {Exit}
             a == Tail(listed)
  <2>3. listed \in Seq(V) /\ Len(listed) = Len(s) /\ listed # <<>>
    <3> HIDE DEF V
    <3>1. \A k \in 1 .. Len(s) : node[s[k]].task \in V
        BY <1>1 DEF V
    <3>2. listed \in [1 .. Len(s) -> V]
        BY <2>2, <3>1
    <3>3. listed \in Seq(V)
        BY <1>1, <3>2, SeqDef
    <3>4. Len(listed) = Len(s)
        BY <1>1, <3>2, <3>3, LenProperties
    <3> QED
        BY <1>2, <3>3, <3>4, EmptySeq DEF V
  <2> HIDE DEF V
  <2>4. a \in Seq(V) /\ Len(a) = Len(s) - 1 /\ Head(listed) = listed[1] /\ \A k \in 1 .. Len(a) : a[k] = listed[k + 1]
      BY <2>3, HeadTailProperties
  <2> HIDE DEF a
  <2>5. a = [k \in 1 .. Len(u) |-> a[k]]
      BY <1>1, <1>3, <2>4, LenProperties
  <2>6. ASSUME NEW k \in 1 .. Len(u) PROVE node'[u[k]].task = a[k]
      BY SMTT(30), <1>3, <1>7, <1>8, <2>2, <2>4
  <2>7. listed' = a
      BY <2>1, <2>5, <2>6
  <2> QED
      BY <1>2, <2>2, <2>3, <2>4, <2>7 DEF a
<1>11. queue' \in Nodes \cup {Null} /\ queue_tail' \in Nodes \cup {Null}
  <2>1. u # <<>> => 1 \in 1 .. Len(u) /\ Len(u) \in 1 .. Len(u)
      BY <1>1, <1>2, <1>3, <1>4
  <2> QED
      BY <1>6, <1>8, <2>1
<1> QED
    BY <1>1, <1>2, <1>3, <1>6, <1>7, <1>9, <1>10, <1>11 DEF u

(* freeAll frees every node and leaves the empty list.                     *)
LEMMA AllFreed ==
    ASSUME TypeOK, ~dangling, NEW s \in Seq(Nodes), ListIs(s), freeAll
    PROVE  /\ queue' \in Nodes \cup {Null} /\ dangling' = FALSE
           /\ node' \in [Nodes -> {Freed} \cup [task : Tasks \cup {Exit}, next : Nodes \cup {Null}]]
           /\ <<>> \in Seq(Nodes)
           /\ ListIs(<<>>)'
           /\ listed' = <<>>
<1>1. onList = { n \in Nodes : live(n) }
    BY ListedIs
<1>2. /\ queue' = Null /\ dangling' = FALSE
      /\ node' = [n \in Nodes |-> IF live(n) THEN Freed ELSE node[n]]
    BY <1>1 DEF freeAll
<1>3. node' \in [Nodes -> {Freed} \cup [task : Tasks \cup {Exit}, next : Nodes \cup {Null}]]
    BY <1>2 DEF TypeOK
<1>4. \A n \in Nodes : ~live(n)'
    BY <1>2 DEF live, Freed
<1>5. <<>> \in Seq(Nodes) /\ Len(<<>>) = 0
    BY EmptySeq
<1>6. ListIs(<<>>)'
    BY <1>2, <1>4, <1>5 DEF ListIs
<1>7. listed' = [k \in 1 .. 0 |-> node'[<<>>[k]].task]
    BY <1>5, <1>6, ListedIsNext
<1> DEFINE V == Tasks \cup {Exit}
<1>8. listed' \in [1 .. 0 -> V]
    BY <1>7
<1>9. listed' \in Seq(V) /\ Len(listed') = 0
    BY <1>8, SeqDef, LenProperties
<1>10. listed' = <<>>
  <2> HIDE DEF V
  <2> QED
      BY <1>9, EmptySeq
<1> QED
    BY <1>2, <1>3, <1>5, <1>6, <1>10

-----------------------------------------------------------------------------
(* The invariant and the steps of the pool.                                *)

(* Only a waiting worker is woken.                                         *)
LEMMA Signalled ==
    ASSUME NEW W, W = {"waiting", "woken", "running", "exited"},
           NEW wk \in [Workers -> W], NEW v \in signalled(wk)
    PROVE  v \in [Workers -> W]
    BY DEF signalled

(* The pool starts with an empty list.                                     *)
LEMMA PoolInvInit == Init => PoolInv
<1> SUFFICES ASSUME Init PROVE PoolInv
    OBVIOUS
<1>1. TypeOK /\ ~dangling
    BY DEF Init, TypeOK, Freed
<1>2. <<>> \in Seq(Nodes) /\ Len(<<>>) = 0
    BY EmptySeq
<1>3. ListIs(<<>>)
    BY <1>2 DEF Init, ListIs, live, Freed
<1> QED
    BY <1>1, <1>2, <1>3 DEF PoolInv

(* The list of a state in which the invariant holds is that of TaskPool's  *)
(* empty queue just when the head pointer is null.                         *)
LEMMA EmptyList ==
    ASSUME PoolInv
    PROVE  /\ queue = Null <=> listed = <<>>
           /\ listed \in Seq(Tasks \cup {Exit})
           /\ \A k \in 1 .. Len(listed) : \E n \in Nodes : node[n].task = listed[k]
<1>1. PICK s \in Seq(Nodes) : ListIs(s)
    BY DEF PoolInv
<1>2. /\ Len(s) \in Nat
      /\ \A k \in 1 .. Len(s) : s[k] \in Nodes /\ live(s[k]) /\ node[s[k]].task \in Tasks \cup {Exit}
      /\ s # <<>> => Len(s) > 0 /\ queue = s[1] /\ live(queue) /\ queue_tail = s[Len(s)] /\ live(queue_tail)
    BY <1>1, ListTypes DEF PoolInv
<1>3. listed = [k \in 1 .. Len(s) |-> node[s[k]].task]
    BY <1>1, ListedIs
<1> DEFINE V == Tasks \cup {Exit}
<1>4. listed \in Seq(V) /\ Len(listed) = Len(s)
  <2>1. listed \in [1 .. Len(s) -> V]
      BY <1>2, <1>3
  <2> HIDE DEF V
  <2>2. listed \in Seq(V)
      BY <1>2, <2>1, SeqDef
  <2> QED
      BY <1>2, <2>1, <2>2, LenProperties
<1>5. listed = <<>> <=> Len(s) = 0
  <2> HIDE DEF V
  <2> QED
      BY <1>4, EmptySeq
<1>6. s = <<>> <=> Len(s) = 0
    BY EmptySeq
<1>7. queue = Null <=> s = <<>>
    BY <1>1, <1>2, ThreadPoolAssumption DEF ListIs, live
<1> QED
    BY <1>2, <1>3, <1>4, <1>5, <1>6, <1>7

(* Every step keeps the invariant and is a step of TaskPool on the queue   *)
(* of the listed tasks.                                                    *)
LEMMA PoolStep == PoolInv /\ [Next]_vars => PoolInv' /\ [Abstract!Next]_(Abstract!poolVars)
<1> SUFFICES ASSUME PoolInv, [Next]_vars PROVE PoolInv' /\ [Abstract!Next]_(Abstract!poolVars)
    OBVIOUS
<1> DEFINE Statement == PoolInv' /\ [Abstract!Next]_(Abstract!poolVars)
           W == {"waiting", "woken", "running", "exited"}
<1>1. TypeOK /\ ~dangling
    BY DEF PoolInv
<1>2. PICK s \in Seq(Nodes) : ListIs(s)
    BY DEF PoolInv
<1>3. worker \in [Workers -> W] /\ request \in [Workers -> Tasks \cup {Exit, NoTask}]
    BY <1>1 DEF TypeOK
(* A task is added to the list.                                            *)
<1>4. ASSUME NEW t \in Tasks \cup {Exit}, NEW wk \in [Workers -> W], threadPoolAdd(t, wk)
      PROVE  /\ listed' = Append(listed, t) /\ worker' \in Abstract!signalled(wk)
             /\ request' = request /\ phase' \in {"open", "cleared", "closing", "closed"} => PoolInv'
  <2>1. PICK n \in Nodes : queueAdd(t, n)
      BY <1>4 DEF threadPoolAdd
  <2>2. worker' \in signalled(wk)
      BY <1>4 DEF threadPoolAdd
  <2>3. worker' \in [Workers -> W]
    <3> DEFINE X == W
    <3>1. X = {"waiting", "woken", "running", "exited"} /\ wk \in [Workers -> X]
        BY <1>4
    <3> HIDE DEF X
    <3>2. worker' \in [Workers -> X]
        BY <2>2, <3>1, Signalled
    <3> QED
        BY <3>2 DEF X
  <2>4. /\ queue' \in Nodes \cup {Null} /\ queue_tail' \in Nodes \cup {Null} /\ dangling' = FALSE
        /\ node' \in [Nodes -> {Freed} \cup [task : Tasks \cup {Exit}, next : Nodes \cup {Null}]]
        /\ Append(s, n) \in Seq(Nodes) /\ ListIs(Append(s, n))'
        /\ listed' = Append(listed, t)
      BY <1>1, <1>2, <2>1, QueueAdded
  <2>5. worker' \in Abstract!signalled(wk)
      BY <2>2 DEF signalled, Abstract!signalled
  <2>6. request' = request /\ phase' \in {"open", "cleared", "closing", "closed"} => TypeOK'
      BY <1>3, <2>3, <2>4 DEF TypeOK
  <2> QED
      BY <2>4, <2>5, <2>6 DEF PoolInv
(* The list does not change.                                               *)
<1>5. ASSUME UNCHANGED listVars
      PROVE  /\ listed' = listed
             /\ worker' \in [Workers -> W] /\ request' \in [Workers -> Tasks \cup {Exit, NoTask}] /\ phase' = phase
                => PoolInv'
  <2>1. ListIs(s)'
      BY <1>2, <1>5 DEF ListIs, live, listVars
  <2>2. listed' = listed
    <3>1. listed' = [k \in 1 .. Len(s) |-> node'[s[k]].task]
        BY <2>1, ListedIsNext
    <3>2. listed = [k \in 1 .. Len(s) |-> node[s[k]].task]
        BY <1>2, ListedIs
    <3> QED
        BY <1>5, <3>1, <3>2 DEF listVars
  <2>3. worker' \in [Workers -> W] /\ request' \in [Workers -> Tasks \cup {Exit, NoTask}] /\ phase' = phase => TypeOK'
      BY <1>1, <1>5 DEF TypeOK, listVars
  <2> QED
      BY <1>1, <1>5, <2>1, <2>2, <2>3 DEF PoolInv, listVars
(* The list is emptied.                                                    *)
<1>6. ASSUME freeAll, UNCHANGED <<worker, request>>, queue_tail' \in {queue_tail, Null},
             phase' \in {"open", "cleared", "closing", "closed"}
      PROVE  listed' = <<>> /\ PoolInv'
  <2>1. /\ queue' \in Nodes \cup {Null} /\ dangling' = FALSE
        /\ node' \in [Nodes -> {Freed} \cup [task : Tasks \cup {Exit}, next : Nodes \cup {Null}]]
        /\ <<>> \in Seq(Nodes) /\ ListIs(<<>>)' /\ listed' = <<>>
      BY <1>1, <1>2, <1>6, AllFreed
  <2>2. TypeOK'
      BY <1>1, <1>6, <2>1 DEF TypeOK
  <2> QED
      BY <2>1, <2>2 DEF PoolInv
<1>7. ASSUME NEW t \in Tasks, AddTask(t) PROVE Statement
  <2>1. /\ phase = "open" /\ Unserved(t) /\ threadPoolAdd(t, worker) /\ UNCHANGED <<request, phase>>
      BY <1>7 DEF AddTask
  <2>2. listed' = Append(listed, t) /\ worker' \in Abstract!signalled(worker) /\ PoolInv'
      BY <1>1, <1>3, <1>4, <2>1
  <2>3. Abstract!Unserved(t)
      BY <2>1, EmptyList DEF Unserved, Abstract!Unserved
  <2>4. Abstract!AddTask(t)
      BY <2>1, <2>2, <2>3 DEF Abstract!AddTask, Abstract!threadPoolAdd
  <2> QED
      BY <2>2, <2>4 DEF Abstract!Next
<1>8. CASE threadPoolClear
  <2>1. /\ phase = "open" /\ phase' = "cleared" /\ freeAll /\ UNCHANGED <<worker, request>>
        /\ queue_tail' \in {queue_tail, Null}
      BY <1>8 DEF threadPoolClear
  <2>2. listed' = <<>> /\ PoolInv'
      BY <1>6, <2>1
  <2>3. Abstract!threadPoolClear
      BY <2>1, <2>2 DEF Abstract!threadPoolClear
  <2> QED
      BY <2>2, <2>3 DEF Abstract!Next
<1>9. CASE AddExit
  <2>1. phase = "cleared" /\ phase' = "closing" /\ threadPoolAdd(Exit, worker) /\ UNCHANGED request
      BY <1>9 DEF AddExit
  <2>2. listed' = Append(listed, Exit) /\ worker' \in Abstract!signalled(worker) /\ PoolInv'
      BY <1>3, <1>4, <2>1
  <2>3. Abstract!AddExit
      BY <2>1, <2>2 DEF Abstract!AddExit, Abstract!threadPoolAdd
  <2> QED
      BY <2>2, <2>3 DEF Abstract!Next
<1>10. CASE workersDestroy
  <2>1. /\ phase = "closing" /\ phase' = "closed" /\ freeAll /\ UNCHANGED <<queue_tail, worker, request>>
        /\ \A w \in Workers : worker[w] = "exited"
      BY <1>10 DEF workersDestroy
  <2>2. listed' = <<>> /\ PoolInv'
      BY <1>6, <2>1
  <2>3. Abstract!workersDestroy
      BY <2>1, <2>2 DEF Abstract!workersDestroy
  <2> QED
      BY <2>2, <2>3 DEF Abstract!Next
<1>11. ASSUME NEW w \in Workers, PoolTakeTask(w) PROVE Statement
  <2>1. worker[w] \in {"waiting", "woken"} /\ phase' = phase
      BY <1>11 DEF PoolTakeTask, mayTake
  <2>2. CASE queue = Null
    <3>1. worker' = [worker EXCEPT ![w] = "waiting"] /\ UNCHANGED <<listVars, request>>
        BY <1>11, <2>2 DEF PoolTakeTask
    <3>2. listed' = listed /\ PoolInv'
        BY <1>3, <1>5, <2>1, <3>1
    <3>3. listed = <<>>
        BY <2>2, EmptyList
    <3>4. Abstract!PoolTakeTask(w)
        BY <2>1, <3>1, <3>2, <3>3 DEF Abstract!PoolTakeTask, Abstract!mayTake
    <3> QED
        BY <3>2, <3>4 DEF Abstract!Next
  <2>3. CASE queue # Null
    <3>1. /\ worker' = [worker EXCEPT ![w] = "running"]
          /\ request' = [request EXCEPT ![w] = node[queue].task]
          /\ queueTakeHead
        BY <1>11, <2>3 DEF PoolTakeTask
    <3>2. /\ queue' \in Nodes \cup {Null} /\ queue_tail' \in Nodes \cup {Null} /\ dangling' = FALSE
          /\ node' \in [Nodes -> {Freed} \cup [task : Tasks \cup {Exit}, next : Nodes \cup {Null}]]
          /\ Tail(s) \in Seq(Nodes) /\ ListIs(Tail(s))'
          /\ node[queue].task \in Tasks \cup {Exit}
          /\ listed # <<>> /\ node[queue].task = Head(listed) /\ listed' = Tail(listed)
        BY <1>1, <1>2, <2>3, <3>1, QueueTaken
    <3>3. TypeOK'
      <4>1. worker' \in [Workers -> W] /\ request' \in [Workers -> Tasks \cup {Exit, NoTask}]
          BY <1>3, <3>1, <3>2
      <4> QED
          BY <1>1, <2>1, <3>2, <4>1 DEF TypeOK
    <3>4. PoolInv'
        BY <3>2, <3>3 DEF PoolInv
    <3>5. Abstract!PoolTakeTask(w)
        BY <2>1, <3>1, <3>2 DEF Abstract!PoolTakeTask, Abstract!mayTake
    <3> QED
        BY <3>4, <3>5 DEF Abstract!Next
  <2> QED
      BY <2>2, <2>3
<1>12. ASSUME NEW w \in Workers, poolWorker(w) PROVE Statement
  <2>1. /\ worker[w] = "running" /\ request[w] \in Tasks
        /\ worker' = [worker EXCEPT ![w] = "waiting"] /\ request' = [request EXCEPT ![w] = NoTask]
        /\ UNCHANGED <<listVars, phase>>
      BY <1>12 DEF poolWorker
  <2>2. listed' = listed /\ PoolInv'
      BY <1>3, <1>5, <2>1
  <2>3. Abstract!taskDone(w)
      BY <2>1, <2>2 DEF Abstract!taskDone
  <2> QED
      BY <2>2, <2>3 DEF Abstract!Next
<1>13. ASSUME NEW w \in Workers, ThreadRequestExit(w) PROVE Statement
  <2>1. /\ worker[w] = "running" /\ request[w] = Exit /\ UNCHANGED <<request, phase>>
        /\ threadPoolAdd(Exit, [worker EXCEPT ![w] = "exited"])
      BY <1>13 DEF ThreadRequestExit
  <2>2. [worker EXCEPT ![w] = "exited"] \in [Workers -> W]
      BY <1>3
  <2>3. phase' \in {"open", "cleared", "closing", "closed"}
      BY <1>1, <2>1 DEF TypeOK
  <2>4. listed' = Append(listed, Exit) /\ worker' \in Abstract!signalled([worker EXCEPT ![w] = "exited"]) /\ PoolInv'
    <3> DEFINE wk == [worker EXCEPT ![w] = "exited"]
    <3>1. wk \in [Workers -> W] /\ threadPoolAdd(Exit, wk)
        BY <2>1, <2>2
    <3> HIDE DEF wk
    <3>2. listed' = Append(listed, Exit) /\ worker' \in Abstract!signalled(wk) /\ PoolInv'
        BY <1>4, <2>1, <2>3, <3>1
    <3> QED
        BY <3>2 DEF wk
  <2>5. Abstract!ThreadRequestExit(w)
      BY <2>1, <2>4 DEF Abstract!ThreadRequestExit
  <2> QED
      BY <2>4, <2>5 DEF Abstract!Next
<1>14. CASE UNCHANGED vars
  <2>1. UNCHANGED <<listVars, worker, request, phase>>
      BY <1>14 DEF vars
  <2>2. listed' = listed /\ PoolInv'
      BY <1>3, <1>5, <2>1
  <2> QED
      BY <2>1, <2>2 DEF Abstract!poolVars
<1> HIDE DEF Statement
<1> QED
  <2>1. Statement
      BY <1>7, <1>8, <1>9, <1>10, <1>11, <1>12, <1>13, <1>14 DEF Next, Statement
  <2> QED
      BY <2>1 DEF Statement

-----------------------------------------------------------------------------
(* The theorems.                                                           *)

(* The invariant holds of every reachable state of the pool.               *)
THEOREM PoolCorrect == Spec => []PoolInv
<1>1. PoolInv /\ [Next]_vars => PoolInv'
    BY PoolStep
<1> QED
    BY <1>1, PoolInvInit, PTL DEF Spec

(* queueAdd and queueTakeHead (ThreadPool.c:134-173) never touch a freed   *)
(* node, the tail pointer is the last node whenever the list is not empty, *)
(* and every allocated node is on the list, so that threadPoolDestroy      *)
(* frees them all.                                                         *)
THEOREM ListStaysIntact == Spec => []ListIntact
<1>1. PoolInv => ListIntact
  <2> SUFFICES ASSUME PoolInv PROVE ListIntact
      OBVIOUS
  <2>1. PICK s \in Seq(Nodes) : ListIs(s)
      BY DEF PoolInv
  <2>2. /\ Len(s) \in Nat
        /\ \A k \in 1 .. Len(s) : s[k] \in Nodes /\ live(s[k]) /\ node[s[k]].task \in Tasks \cup {Exit}
        /\ s # <<>> => Len(s) > 0 /\ queue = s[1] /\ live(queue) /\ queue_tail = s[Len(s)] /\ live(queue_tail)
      BY <2>1, ListTypes DEF PoolInv
  <2>3. { n \in Nodes : live(n) } = onList
      BY <2>1, ListedIs
  <2>4. queue # Null => live(queue_tail) /\ node[queue_tail].next = Null
    <3>1. s # <<>> => Len(s) \in 1 .. Len(s)
        BY <2>2
    <3> QED
        BY <2>1, <2>2, <3>1 DEF ListIs
  <2> QED
      BY <2>3, <2>4 DEF PoolInv, ListIntact
<1> QED
    BY <1>1, PoolCorrect, PTL

(* The linked list is the FIFO queue of TaskPool: every step of the main   *)
(* thread and of the workers is that step of TaskPool on the tasks of the  *)
(* list, in its order.                                                     *)
THEOREM PoolImplementsTaskPool == Spec => ImplementsTaskPool
<1>1. Init => Abstract!PoolInit
  <2> SUFFICES ASSUME Init PROVE Abstract!PoolInit
      OBVIOUS
  <2>1. listed = <<>>
    <3>1. PoolInv /\ queue = Null
        BY PoolInvInit DEF Init
    <3> QED
        BY <3>1, EmptyList
  <2> QED
      BY <2>1 DEF Init, Abstract!PoolInit
<1>2. PoolInv /\ [Next]_vars => [Abstract!Next]_(Abstract!poolVars)
    BY PoolStep
<1> QED
    BY <1>1, <1>2, PoolCorrect, PTL DEF Spec, ImplementsTaskPool, Abstract!Spec

===============================================================================
