---------------------------- MODULE PartsProofs ----------------------------
(***************************************************************************)
(* Theorems about the parts of the program in which one thread works on    *)
(* its own data: the lists of the store and the settings of the server.    *)
(*                                                                         *)
(* The lists.  A walk over the cells follows pointers, and pointers can    *)
(* bend a list into a circle or into another list.  HashInv says that they *)
(* do not: the cells met from the head of each list are a sequence (Chain) *)
(* without repetition that shares no cell with another list, and next and  *)
(* prev lead from each cell to its neighbours in it (Shaped).  Every       *)
(* operation then is an insertion into one of these sequences or a removal *)
(* from one, whatever cells it touches, and what a loop over a list takes  *)
(* follows from the sequence.                                              *)
(*                                                                         *)
(* The settings.  ConfigInv keeps for each setting found so far the line   *)
(* it was found at; these lines only grow.                                 *)
(***************************************************************************)
EXTENDS HashTable, Config, Lemmas

-----------------------------------------------------------------------------
(* Lists of cells.                                                         *)

Depths == 0 .. Cardinality(Cells) + 1
Pointers == Cells \cup {NULL}

(* One more cell of the walk of Walk.                                      *)
Further(f, k, link, gives) ==
    [x \in Pointers |-> IF x = NULL \/ k = 0 THEN <<>> ELSE gives[x] \o f[k - 1][link[x]]]

(* The recursion of Walk has a solution, whatever the cells are linked to. *)
LEMMA WalkExists ==
    ASSUME NEW link, NEW gives
    PROVE  \E f : f = [k \in Depths |-> Further(f, k, link, gives)]
<1> DEFINE Upto(n) == \E f : f = [k \in 0 .. n |-> Further(f, k, link, gives)]
           N == Cardinality(Cells) + 1
<1>0. N \in Nat
    BY HashTableAssumption, FS_CardinalityType
<1>1. Upto(0)
  <2> DEFINE f == [k \in 0 .. 0 |-> [x \in Pointers |-> <<>>]]
  <2>1. \A k \in 0 .. 0 : Further(f, k, link, gives) = [x \in Pointers |-> <<>>]
      BY DEF Further
  <2>2. f = [k \in 0 .. 0 |-> Further(f, k, link, gives)]
      BY <2>1
  <2> QED
      BY <2>2
<1>2. ASSUME NEW n \in Nat, Upto(n) PROVE Upto(n + 1)
  <2>1. PICK f : f = [k \in 0 .. n |-> Further(f, k, link, gives)]
      BY <1>2
  <2> DEFINE g == [k \in 0 .. n + 1 |-> IF k <= n THEN f[k] ELSE Further(f, n + 1, link, gives)]
  <2>2. ASSUME NEW k \in 0 .. n + 1 PROVE g[k] = Further(g, k, link, gives)
    <3>1. CASE k = 0
      <4>1. g[k] = f[0] /\ f[0] = Further(f, 0, link, gives)
          BY <2>1, <3>1
      <4> HIDE DEF g
      <4> QED
          BY <3>1, <4>1 DEF Further
    <3>2. CASE k # 0
      <4>1. k - 1 \in 0 .. n + 1 /\ k - 1 <= n /\ g[k - 1] = f[k - 1]
          BY <3>2
      <4>2. g[k] = Further(f, k, link, gives)
        <5>1. CASE k <= n
          <6>1. k \in 0 .. n
              BY <5>1
          <6>2. g[k] = f[k]
              BY <5>1
          <6> HIDE DEF g
          <6> QED
              BY <2>1, <6>1, <6>2
        <5>2. CASE ~(k <= n)
          <6>1. k = n + 1
              BY <5>2
          <6>2. ~(n + 1 <= n) /\ n + 1 \in 0 .. n + 1
              OBVIOUS
          <6> QED
              BY <6>1, <6>2
        <5> QED
            BY <5>1, <5>2
      <4> HIDE DEF g
      <4> QED
          BY <3>2, <4>1, <4>2 DEF Further
    <3> QED
        BY <3>1, <3>2
  <2>3. g = [k \in 0 .. n + 1 |-> Further(g, k, link, gives)]
      BY <2>2
  <2> HIDE DEF g
  <2> QED
      BY <2>3
<1> HIDE DEF Upto
<1>3. Upto(N)
  <2> DEFINE W == { n \in Nat : ~Upto(n) }
  <2> SUFFICES ASSUME W # {} PROVE FALSE
      BY <1>0
  <2>1. PICK n \in W : \A m \in W : n =< m
    <3>1. W \in SUBSET Nat
        OBVIOUS
    <3> HIDE DEF W
    <3> QED
        BY <3>1, NatLeast
  <2>2. n \in Nat /\ ~Upto(n) /\ n # 0
      BY <1>1, <2>1
  <2>3. n - 1 \in Nat /\ (n - 1) + 1 = n /\ ~(n =< n - 1)
      BY <2>2
  <2>4. Upto(n - 1)
      BY <2>1, <2>3
  <2> QED
      BY <1>2, <2>2, <2>3, <2>4
<1> QED
    BY <1>3 DEF Upto, Depths

(* A walk takes what the first cell gives, and goes on from the next one.  *)
LEMMA WalkUnfolds ==
    ASSUME NEW link, NEW gives
    PROVE  \E f : /\ \A h : Walk(h, link, gives) = f[Cardinality(Cells) + 1][h]
                  /\ \A k \in Depths : f[k] = Further(f, k, link, gives)
<1> DEFINE N == Cardinality(Cells) + 1
           f == CHOOSE f : f = [k \in Depths |-> Further(f, k, link, gives)]
<1>1. f = [k \in Depths |-> Further(f, k, link, gives)]
    BY WalkExists
<1>2. ASSUME NEW h PROVE Walk(h, link, gives) = f[N][h]
    BY DEF Walk, Further, Depths, Pointers
<1> HIDE DEF f
<1>3. \A k \in Depths : f[k] = Further(f, k, link, gives)
    BY <1>1
<1> QED
    BY <1>2, <1>3

-----------------------------------------------------------------------------
(* The lists of a state.                                                   *)

(* The i-th cell of s, NULL before its first and after its last one.       *)
At(s, i) == IF i \in 1 .. Len(s) THEN s[i] ELSE NULL

(* From h on, the links lead over the cells of s, each once, and back.     *)
Follows(h, nx, pv, s) ==
    /\ s \in Seq(Cells) /\ IsInjective(s)
    /\ h = At(s, 1)
    /\ \A i \in 1 .. Len(s) : nx[s[i]] = At(s, i + 1) /\ pv[s[i]] = At(s, i - 1)

(* The lists are those of L, and share no cell.                            *)
Shaped(L, hd, nx, pv, us) ==
    /\ L \in [Lists -> Seq(Cells)]
    /\ \A l \in Lists : Follows(hd[l], nx, pv, L[l]) /\ ToSet(L[l]) \subseteq us
    /\ \A l, m \in Lists : l # m => ToSet(L[l]) \cap ToSet(L[m]) = {}

(* What the cells hold: a bucket the records whose names fall into it, a   *)
(* record its clients, and a cell that is lost a client.                   *)
Filled(L, dt, ap, us) ==
    /\ \A l \in Buckets : \A x \in ToSet(L[l]) :
          dt[x] \in FileIds /\ ap[dt[x]] # NULL /\ Pos[ap[dt[x]]] = l
    /\ \A f \in FileIds :
          /\ \A x \in ToSet(L[f]) : dt[x] \in Clients
          /\ ap[f] = NULL => L[f] = <<>>
    /\ \A x \in us : (\A l \in Lists : x \notin ToSet(L[l])) => dt[x] \in Clients

Typed(hd, nx, pv, dt, us, ap) ==
    /\ hd \in [Lists -> Pointers]
    /\ nx \in [Cells -> Pointers]
    /\ pv \in [Cells -> Pointers]
    /\ dt \in [Cells -> FileIds \cup Clients \cup {NULL}]
    /\ us \subseteq Cells
    /\ ap \in [FileIds -> Names \cup {NULL}]

AllLists == [l \in Lists |-> Chain(l)]

HashInv ==
    /\ Typed(head, next, prev, data, used, abspath)
    /\ Shaped(AllLists, head, next, prev, used)
    /\ Filled(AllLists, data, abspath, used)

-----------------------------------------------------------------------------
(* Walks along a list.                                                     *)

(* R[k] is what a loop that stands at the k-th cell of s will still take.  *)
Taking(s, gives, R) ==
    /\ R[Len(s) + 1] = <<>>
    /\ \A k \in 1 .. Len(s) : R[k] = gives[s[k]] \o R[k + 1]

(* A list has no more cells than there are.                                *)
LEMMA FollowsLength ==
    ASSUME NEW h, NEW nx, NEW pv, NEW s, Follows(h, nx, pv, s)
    PROVE  /\ Len(s) \in Nat /\ Len(s) <= Cardinality(Cells)
           /\ DOMAIN s = 1 .. Len(s)
           /\ \A i \in 1 .. Len(s) : s[i] \in Cells
           /\ Cardinality(Cells) \in Nat
<1>1. s \in Seq(Cells) /\ IsInjective(s)
    BY DEF Follows
<1>2. Len(s) \in Nat /\ s \in [1 .. Len(s) -> Cells] /\ DOMAIN s = 1 .. Len(s)
    BY <1>1, LenProperties
<1>3. IsFiniteSet(Cells) /\ Cardinality(Cells) \in Nat
    BY HashTableAssumption, FS_CardinalityType
<1>4. s \in Injection(1 .. Len(s), Cells)
    BY <1>1, <1>2 DEF Injection, IsInjective
<1>5. Cardinality(1 .. Len(s)) <= Cardinality(Cells)
    BY <1>3, <1>4, FS_Injection
<1>6. Cardinality(1 .. Len(s)) = IF 1 > Len(s) THEN 0 ELSE Len(s) - 1 + 1
    BY <1>2, FS_Interval
<1> QED
    BY <1>2, <1>3, <1>5, <1>6

(* Walk is such a loop.                                                    *)
LEMMA WalkTakes ==
    ASSUME NEW h, NEW nx, NEW pv, NEW s, Follows(h, nx, pv, s), NEW gives
    PROVE  \E R : Taking(s, gives, R) /\ R[1] = Walk(h, nx, gives)
<1> DEFINE N == Cardinality(Cells)
           n == Len(s)
<1>1. n \in Nat /\ N \in Nat /\ n <= N /\ \A i \in 1 .. n : s[i] \in Cells
    BY FollowsLength
<1>2. PICK f : /\ \A g : Walk(g, nx, gives) = f[N + 1][g]
               /\ \A k \in Depths : f[k] = Further(f, k, nx, gives)
    BY WalkUnfolds
<1>3. /\ h = At(s, 1)
      /\ \A i \in 1 .. n : nx[s[i]] = At(s, i + 1)
    BY DEF Follows
<1>4. NULL \notin Cells
    BY HashTableAssumption
<1> DEFINE R == [k \in 1 .. n + 1 |-> f[(N + 2) - k][At(s, k)]]
<1>5. ASSUME NEW k \in 1 .. n + 1
      PROVE  /\ (N + 2) - k \in Depths /\ (N + 2) - k # 0
             /\ R[k] = f[(N + 2) - k][At(s, k)]
             /\ At(s, k) \in Pointers
    BY <1>1 DEF Depths, At, Pointers
<1>6. R[n + 1] = <<>>
  <2>1. n + 1 \in 1 .. n + 1 /\ At(s, n + 1) = NULL
      BY <1>1 DEF At
  <2> HIDE DEF R
  <2> QED
      BY <1>2, <1>5, <2>1 DEF Further
<1>7. ASSUME NEW k \in 1 .. n PROVE R[k] = gives[s[k]] \o R[k + 1]
  <2>1. k \in 1 .. n + 1 /\ k + 1 \in 1 .. n + 1 /\ At(s, k) = s[k] /\ s[k] \in Cells
      BY <1>1 DEF At
  <2>2. ((N + 2) - k) - 1 = (N + 2) - (k + 1)
      BY <1>1
  <2> HIDE DEF R
  <2>3. R[k + 1] = f[(N + 2) - (k + 1)][At(s, k + 1)]
      BY <1>5, <2>1
  <2>4. R[k] = f[(N + 2) - k][s[k]] /\ (N + 2) - k \in Depths /\ (N + 2) - k # 0
      BY <1>5, <2>1
  <2> DEFINE m == (N + 2) - k
  <2>5. f[m] = Further(f, m, nx, gives) /\ m # 0 /\ s[k] \in Pointers /\ s[k] # NULL
      BY <1>2, <1>4, <2>1, <2>4 DEF Pointers
  <2> HIDE DEF m
  <2>6. f[m][s[k]] = gives[s[k]] \o f[m - 1][nx[s[k]]]
      BY <2>5 DEF Further
  <2> QED
      BY <1>3, <2>2, <2>3, <2>4, <2>6 DEF m
<1>8. R[1] = Walk(h, nx, gives)
  <2>1. 1 \in 1 .. n + 1 /\ (N + 2) - 1 = N + 1
      BY <1>1
  <2> HIDE DEF R
  <2> QED
      BY <1>2, <1>3, <1>5, <2>1
<1> HIDE DEF R
<1> QED
    BY <1>6, <1>7, <1>8 DEF Taking

(* Two loops that take the same from each cell take the same.              *)
LEMMA TakingSame ==
    ASSUME NEW s, Len(s) \in Nat, NEW g, NEW e, NEW R, NEW Q,
           Taking(s, g, R), Taking(s, e, Q),
           \A k \in 1 .. Len(s) : g[s[k]] = e[s[k]]
    PROVE  \A k \in 1 .. Len(s) + 1 : R[k] = Q[k]
<1> DEFINE n == Len(s)
           W == { m \in Nat : m =< n /\ R[(n + 1) - m] # Q[(n + 1) - m] }
<1>1. n \in Nat
    OBVIOUS
<1>2. /\ R[n + 1] = Q[n + 1]
      /\ \A k \in 1 .. n : R[k] = g[s[k]] \o R[k + 1] /\ Q[k] = g[s[k]] \o Q[k + 1]
    BY DEF Taking
<1>3. W = {}
  <2> SUFFICES ASSUME W # {} PROVE FALSE
      OBVIOUS
  <2>1. PICK m \in W : \A j \in W : m =< j
    <3>1. W \in SUBSET Nat
        OBVIOUS
    <3> HIDE DEF W
    <3> QED
        BY <3>1, NatLeast
  <2>2. m \in Nat /\ m =< n /\ R[(n + 1) - m] # Q[(n + 1) - m]
      OBVIOUS
  <2>3. m # 0
    <3>1. (n + 1) - 0 = n + 1
        BY <1>1
    <3> QED
        BY <1>2, <2>2, <3>1
  <2>4. /\ m - 1 \in Nat /\ m - 1 =< n /\ ~(m =< m - 1)
        /\ (n + 1) - m \in 1 .. n
        /\ ((n + 1) - m) + 1 = (n + 1) - (m - 1)
      BY <1>1, <2>2, <2>3
  <2>5. R[(n + 1) - (m - 1)] = Q[(n + 1) - (m - 1)]
    <3>1. m - 1 \notin W
      <4> HIDE DEF W
      <4> QED
          BY <2>1, <2>4
    <3> QED
        BY <2>4, <3>1
  <2> QED
      BY <1>2, <2>2, <2>4, <2>5, ZenonT(60)
<1> SUFFICES ASSUME NEW k \in 1 .. n + 1 PROVE R[k] = Q[k]
    OBVIOUS
<1>4. (n + 1) - k \in Nat /\ (n + 1) - k =< n /\ (n + 1) - ((n + 1) - k) = k
    BY <1>1
<1> QED
    BY <1>3, <1>4

(* What a loop takes is made of what the cells give.                       *)
LEMMA TakingType ==
    ASSUME NEW s, Len(s) \in Nat, NEW g, NEW R, NEW D, Taking(s, g, R),
           \A k \in 1 .. Len(s) : g[s[k]] \in Seq(D)
    PROVE  \A k \in 1 .. Len(s) + 1 : R[k] \in Seq(D)
<1> DEFINE n == Len(s)
           W == { m \in Nat : m =< n /\ R[(n + 1) - m] \notin Seq(D) }
<1>1. n \in Nat
    OBVIOUS
<1>2. /\ R[n + 1] = <<>>
      /\ \A k \in 1 .. n : R[k] = g[s[k]] \o R[k + 1]
    BY DEF Taking
<1>3. W = {}
  <2> SUFFICES ASSUME W # {} PROVE FALSE
      OBVIOUS
  <2>1. PICK m \in W : \A j \in W : m =< j
    <3>1. W \in SUBSET Nat
        OBVIOUS
    <3> HIDE DEF W
    <3> QED
        BY <3>1, NatLeast
  <2>2. m \in Nat /\ m =< n /\ R[(n + 1) - m] \notin Seq(D)
      OBVIOUS
  <2>3. m # 0
    <3>1. (n + 1) - 0 = n + 1
        BY <1>1
    <3>2. <<>> \in Seq(D)
        BY EmptySeq
    <3> QED
        BY <1>2, <2>2, <3>1, <3>2
  <2>4. /\ m - 1 \in Nat /\ m - 1 =< n /\ ~(m =< m - 1)
        /\ (n + 1) - m \in 1 .. n
        /\ ((n + 1) - m) + 1 = (n + 1) - (m - 1)
      BY <1>1, <2>2, <2>3
  <2>5. R[(n + 1) - (m - 1)] \in Seq(D)
    <3>1. m - 1 \notin W
      <4> HIDE DEF W
      <4> QED
          BY <2>1, <2>4
    <3> QED
        BY <2>4, <3>1
  <2> DEFINE k == (n + 1) - m
  <2>6. k \in 1 .. n /\ R[k + 1] \in Seq(D) /\ R[k] \notin Seq(D)
      BY <2>2, <2>4, <2>5
  <2> HIDE DEF k
  <2>7. g[s[k]] \o R[k + 1] \in Seq(D)
      BY <2>6, ConcatProperties
  <2> QED
      BY <1>2, <2>6, <2>7
<1> SUFFICES ASSUME NEW k \in 1 .. n + 1 PROVE R[k] \in Seq(D)
    OBVIOUS
<1>4. (n + 1) - k \in Nat /\ (n + 1) - k =< n /\ (n + 1) - ((n + 1) - k) = k
    BY <1>1
<1> QED
    BY <1>3, <1>4
(* The walk is made of what the cells give.                                *)
LEMMA WalkType ==
    ASSUME NEW h, NEW nx, NEW pv, NEW s, Follows(h, nx, pv, s), NEW g, NEW D,
           \A k \in 1 .. Len(s) : g[s[k]] \in Seq(D)
    PROVE  Walk(h, nx, g) \in Seq(D)
<1>1. PICK R : Taking(s, g, R) /\ R[1] = Walk(h, nx, g)
    BY WalkTakes
<1>2. Len(s) \in Nat
    BY FollowsLength
<1>3. R[1] \in Seq(D)
  <2>1. 1 \in 1 .. Len(s) + 1
      BY <1>2
  <2> QED
      BY <1>1, <1>2, <2>1, TakingType
<1> QED
    BY <1>1, <1>3

(* A walk over no cell takes nothing.                                      *)
LEMMA WalkEmpty ==
    ASSUME NEW h, NEW nx, NEW pv, Follows(h, nx, pv, <<>>), NEW g
    PROVE  Walk(h, nx, g) = <<>>
<1>1. PICK R : Taking(<<>>, g, R) /\ R[1] = Walk(h, nx, g)
    BY WalkTakes
<1>2. Len(<<>>) + 1 = 1
    BY EmptySeq
<1> QED
    BY <1>1, <1>2 DEF Taking

(* Walks over the same cells that give the same are equal.                 *)
LEMMA WalkSame ==
    ASSUME NEW h, NEW nx, NEW pv, NEW s, NEW g, NEW h2, NEW nx2, NEW pv2, NEW e,
           Follows(h, nx, pv, s), Follows(h2, nx2, pv2, s),
           \A k \in 1 .. Len(s) : g[s[k]] = e[s[k]]
    PROVE  Walk(h2, nx2, e) = Walk(h, nx, g)
<1>1. PICK R : Taking(s, g, R) /\ R[1] = Walk(h, nx, g)
    BY WalkTakes
<1>2. PICK Q : Taking(s, e, Q) /\ Q[1] = Walk(h2, nx2, e)
    BY WalkTakes
<1>3. Len(s) \in Nat /\ 1 \in 1 .. Len(s) + 1
    BY FollowsLength
<1>4. R[1] = Q[1]
    BY <1>1, <1>2, <1>3, TakingSame
<1> QED
    BY <1>1, <1>2, <1>4

(* w is d with v after it.                                                 *)
Joined(w, d, v) == w = d \o v

(* A cell added at the head is taken first.                                *)
LEMMA WalkAdd ==
    ASSUME NEW h, NEW nx, NEW pv, NEW s, NEW g, NEW h2, NEW nx2, NEW pv2, NEW e, NEW x \in Cells,
           NEW t, Joined(t, <<x>>, s), Follows(h, nx, pv, s), Follows(h2, nx2, pv2, t),
           \A k \in 1 .. Len(s) : g[s[k]] = e[s[k]]
    PROVE  Joined(Walk(h2, nx2, e), e[x], Walk(h, nx, g))
<1> DEFINE n == Len(s)
<1>1. PICK R : Taking(s, g, R) /\ R[1] = Walk(h, nx, g)
    BY WalkTakes
<1>2. PICK Q : Taking(t, e, Q) /\ Q[1] = Walk(h2, nx2, e)
    BY WalkTakes
<1>3. n \in Nat /\ s \in Seq(Cells)
    BY FollowsLength DEF Follows
<1>4. <<x>> \in Seq(Cells) /\ Len(<<x>>) = 1 /\ <<x>>[1] = x
    OBVIOUS
<1>5. Len(t) = n + 1 /\ \A i \in 1 .. n + 1 : t[i] = IF i = 1 THEN x ELSE s[i - 1]
  <2>1. Len(t) = 1 + n /\ \A i \in 1 .. 1 + n : t[i] = IF i <= 1 THEN <<x>>[i] ELSE s[i - 1]
      BY <1>3, <1>4, ConcatProperties DEF Joined
  <2> QED
      BY <1>3, <1>4, <2>1
<1> DEFINE P == [k \in 1 .. n + 1 |-> Q[k + 1]]
<1>6. Taking(s, g, P)
  <2>1. P[n + 1] = <<>>
    <3>1. n + 1 \in 1 .. n + 1 /\ Len(t) + 1 = (n + 1) + 1
        BY <1>3, <1>5
    <3> QED
        BY <1>2, <3>1 DEF Taking
  <2>2. ASSUME NEW k \in 1 .. n PROVE P[k] = g[s[k]] \o P[k + 1]
    <3>1. /\ k \in 1 .. n + 1 /\ k + 1 \in 1 .. n + 1 /\ k + 1 \in 1 .. Len(t)
          /\ t[k + 1] = s[k]
      <4>1. k + 1 \in 1 .. n + 1 /\ k + 1 # 1 /\ (k + 1) - 1 = k
          BY <1>3
      <4> QED
          BY <1>3, <1>5, <4>1
    <3>2. P[k] = Q[k + 1] /\ P[k + 1] = Q[(k + 1) + 1]
        BY <3>1
    <3>3. Q[k + 1] = e[t[k + 1]] \o Q[(k + 1) + 1]
        BY <1>2, <3>1 DEF Taking
    <3>4. e[t[k + 1]] = g[s[k]]
        BY <3>1
    <3> HIDE DEF P
    <3> QED
        BY <3>2, <3>3, <3>4
  <2> HIDE DEF P
  <2> QED
      BY <2>1, <2>2 DEF Taking
<1>7. R[1] = P[1] /\ 1 \in 1 .. n + 1
  <2>1. 1 \in 1 .. n + 1
      BY <1>3
  <2> HIDE DEF P
  <2> QED
      BY <1>1, <1>3, <1>6, <2>1, TakingSame
<1>8. P[1] = Q[2]
    BY <1>7
<1>9. Q[1] = e[x] \o Q[2]
  <2>1. 1 \in 1 .. Len(t) /\ t[1] = x /\ 1 + 1 = 2
      BY <1>3, <1>5
  <2> QED
      BY <1>2, <2>1 DEF Taking
<1> QED
    BY <1>1, <1>2, <1>7, <1>8, <1>9 DEF Joined

(* A list before and after its i-th cell is taken out; what the other      *)
(* cells give is the same.                                                 *)
Unhooked(h, nx, pv, s, g, h2, nx2, pv2, e, D, i) ==
    /\ i \in 1 .. Len(s)
    /\ Follows(h, nx, pv, s) /\ Follows(h2, nx2, pv2, RemoveAt(s, i))
    /\ \A k \in 1 .. Len(s) : k # i => g[s[k]] = e[s[k]]
    /\ \A k \in 1 .. Len(s) : g[s[k]] \in Seq(D)

NothingBefore(s, g, i) == \A k \in 1 .. i - 1 : g[s[k]] = <<>>

(* A cell taken out that gives nothing is not missed.                      *)
LEMMA WalkDrop ==
    ASSUME NEW h, NEW nx, NEW pv, NEW s, NEW g, NEW h2, NEW nx2, NEW pv2, NEW e, NEW D,
           NEW i, Unhooked(h, nx, pv, s, g, h2, nx2, pv2, e, D, i),
           g[s[i]] = <<>>
    PROVE  Walk(h2, nx2, e) = Walk(h, nx, g)
<1> USE DEF Unhooked
<1> DEFINE t == RemoveAt(s, i)
           n == Len(s)
<1>1. PICK R : Taking(s, g, R) /\ R[1] = Walk(h, nx, g)
    BY WalkTakes
<1>2. PICK Q : Taking(t, e, Q) /\ Q[1] = Walk(h2, nx2, e)
    BY WalkTakes
<1>3. n \in Nat /\ s \in Seq(Cells) /\ \A k \in 1 .. n + 1 : R[k] \in Seq(D)
  <2>1. n \in Nat /\ s \in Seq(Cells)
      BY FollowsLength DEF Follows
  <2> QED
      BY <1>1, <2>1, TakingType
<1>4. Len(t) = n - 1 /\ \A j \in 1 .. n - 1 : t[j] = IF j < i THEN s[j] ELSE s[j + 1]
    BY <1>3, RemoveAtElements
<1> HIDE DEF t
<1> DEFINE P == [k \in 1 .. n |-> IF k < i THEN R[k] ELSE R[k + 1]]
<1>5. R[i] = R[i + 1]
  <2>1. R[i] = g[s[i]] \o R[i + 1]
      BY <1>1, <1>3 DEF Taking
  <2>2. R[i + 1] \in Seq(D)
    <3>1. i + 1 \in 1 .. n + 1
        BY <1>3
    <3> QED
        BY <1>3, <3>1
  <2>3. <<>> \o R[i + 1] = R[i + 1]
      BY <2>2, ConcatEmptySeq
  <2> QED
      BY <2>1, <2>3
<1>6. Taking(t, e, P)
  <2>1. P[Len(t) + 1] = <<>>
    <3>1. Len(t) + 1 = n /\ n \in 1 .. n /\ ~(n < i)
        BY <1>3, <1>4
    <3>2. P[n] = R[n + 1]
        BY <3>1
    <3> QED
        BY <1>1, <3>1, <3>2 DEF Taking
  <2>2. ASSUME NEW k \in 1 .. Len(t) PROVE P[k] = e[t[k]] \o P[k + 1]
    <3>1. k \in 1 .. n /\ k + 1 \in 1 .. n /\ k \in 1 .. n - 1
        BY <1>3, <1>4
    <3>2. CASE k < i
      <4>1. t[k] = s[k] /\ k # i /\ P[k] = R[k]
          BY <1>3, <1>4, <3>1, <3>2
      <4>2. P[k + 1] = R[k + 1]
        <5>1. CASE k + 1 < i
            BY <3>1, <5>1
        <5>2. CASE ~(k + 1 < i)
          <6>1. k + 1 = i
              BY <1>3, <3>1, <3>2, <5>2
          <6>2. P[k + 1] = R[(k + 1) + 1]
              BY <3>1, <5>2
          <6> HIDE DEF P
          <6> QED
              BY <1>5, <6>1, <6>2
        <5> QED
            BY <5>1, <5>2
      <4>3. R[k] = g[s[k]] \o R[k + 1]
          BY <1>1, <3>1 DEF Taking
      <4>4. e[t[k]] = g[s[k]]
          BY <3>1, <4>1
      <4> HIDE DEF P
      <4> QED
          BY <4>1, <4>2, <4>3, <4>4
    <3>3. CASE ~(k < i)
      <4>1. /\ t[k] = s[k + 1] /\ k + 1 # i /\ P[k] = R[k + 1]
            /\ ~(k + 1 < i) /\ P[k + 1] = R[(k + 1) + 1]
          BY <1>3, <1>4, <3>1, <3>3
      <4>2. R[k + 1] = g[s[k + 1]] \o R[(k + 1) + 1]
          BY <1>1, <3>1 DEF Taking
      <4>3. e[t[k]] = g[s[k + 1]]
          BY <3>1, <4>1
      <4> HIDE DEF P
      <4> QED
          BY <4>1, <4>2, <4>3
    <3> QED
        BY <3>2, <3>3
  <2> HIDE DEF P
  <2> QED
      BY <2>1, <2>2 DEF Taking
<1>7. P[1] = Q[1]
  <2>1. Len(t) \in Nat /\ 1 \in 1 .. Len(t) + 1
      BY <1>3, <1>4
  <2> HIDE DEF P
  <2> QED
      BY <1>2, <1>6, <2>1, TakingSame
<1>8. P[1] = R[1]
  <2>1. 1 \in 1 .. n
      BY <1>3
  <2>2. CASE 1 < i
      BY <2>1, <2>2
  <2>3. CASE ~(1 < i)
    <3>1. i = 1
        BY <1>3, <2>3
    <3>2. P[1] = R[1 + 1]
        BY <2>1, <2>3
    <3> HIDE DEF P
    <3> QED
        BY <1>5, <3>1, <3>2
  <2> QED
      BY <2>2, <2>3
<1> QED
    BY <1>1, <1>2, <1>7, <1>8

(* Of a loop that takes nothing before the i-th cell.                      *)
LEMMA TakingNothing ==
    ASSUME NEW s, NEW g, NEW R, NEW D, NEW i \in 1 .. Len(s),
           Len(s) \in Nat, Taking(s, g, R),
           \A k \in 1 .. Len(s) : g[s[k]] \in Seq(D),
           \A k \in 1 .. i - 1 : g[s[k]] = <<>>
    PROVE  R[1] = g[s[i]] \o R[i + 1]
<1> DEFINE n == Len(s)
           W == { m \in Nat : m < i /\ R[i - m] # R[i] }
<1>1. n \in Nat /\ \A k \in 1 .. n + 1 : R[k] \in Seq(D)
    BY TakingType
<1>2. \A k \in 1 .. n : R[k] = g[s[k]] \o R[k + 1]
    BY DEF Taking
<1>3. W = {}
  <2> SUFFICES ASSUME W # {} PROVE FALSE
      OBVIOUS
  <2>1. PICK m \in W : \A j \in W : m =< j
    <3>1. W \in SUBSET Nat
        OBVIOUS
    <3> HIDE DEF W
    <3> QED
        BY <3>1, NatLeast
  <2>2. m \in Nat /\ m < i /\ R[i - m] # R[i]
      OBVIOUS
  <2>3. m # 0
    <3>1. i - 0 = i
        BY <1>1
    <3> QED
        BY <2>2, <3>1
  <2>4. /\ m - 1 \in Nat /\ m - 1 < i /\ ~(m =< m - 1)
        /\ i - m \in 1 .. i - 1 /\ i - m \in 1 .. n /\ (i - m) + 1 \in 1 .. n + 1
        /\ (i - m) + 1 = i - (m - 1)
      BY <1>1, <2>2, <2>3
  <2>5. R[i - (m - 1)] = R[i]
    <3>1. m - 1 \notin W
      <4> HIDE DEF W
      <4> QED
          BY <2>1, <2>4
    <3> QED
        BY <2>4, <3>1
  <2>6. R[i - m] = <<>> \o R[i - (m - 1)] /\ R[i - (m - 1)] \in Seq(D)
      BY <1>1, <1>2, <2>4
  <2> QED
      BY <2>2, <2>5, <2>6, ConcatEmptySeq
<1>4. i - 1 \in Nat /\ i - 1 < i /\ i - (i - 1) = 1
    BY <1>1
<1>5. R[1] = R[i]
    BY <1>3, <1>4
<1> QED
    BY <1>2, <1>5

(* The cell a loop takes first: without it the loop takes the rest.        *)
LEMMA WalkFirst ==
    ASSUME NEW h, NEW nx, NEW pv, NEW s, NEW g, NEW h2, NEW nx2, NEW pv2, NEW e, NEW D,
           NEW i, Unhooked(h, nx, pv, s, g, h2, nx2, pv2, e, D, i), NothingBefore(s, g, i)
    PROVE  Joined(Walk(h, nx, g), g[s[i]], Walk(h2, nx2, e))
<1> USE DEF Unhooked, NothingBefore
<1> DEFINE t == RemoveAt(s, i)
           n == Len(s)
<1>1. PICK R : Taking(s, g, R) /\ R[1] = Walk(h, nx, g)
    BY WalkTakes
<1>2. PICK Q : Taking(t, e, Q) /\ Q[1] = Walk(h2, nx2, e)
    BY WalkTakes
<1>3. n \in Nat /\ s \in Seq(Cells) /\ \A k \in 1 .. n + 1 : R[k] \in Seq(D)
  <2>1. n \in Nat /\ s \in Seq(Cells)
      BY FollowsLength DEF Follows
  <2> QED
      BY <1>1, <2>1, TakingType
<1>4. Len(t) = n - 1 /\ \A j \in 1 .. n - 1 : t[j] = IF j < i THEN s[j] ELSE s[j + 1]
    BY <1>3, RemoveAtElements
<1> HIDE DEF t
<1> DEFINE P == [k \in 1 .. n |-> IF k < i THEN R[i + 1] ELSE R[k + 1]]
<1>6. Taking(t, e, P)
  <2>1. P[Len(t) + 1] = <<>>
    <3>1. Len(t) + 1 = n /\ n \in 1 .. n /\ ~(n < i)
        BY <1>3, <1>4
    <3>2. P[n] = R[n + 1]
        BY <3>1
    <3> QED
        BY <1>1, <3>1, <3>2 DEF Taking
  <2>2. ASSUME NEW k \in 1 .. Len(t) PROVE P[k] = e[t[k]] \o P[k + 1]
    <3>1. k \in 1 .. n /\ k + 1 \in 1 .. n /\ k \in 1 .. n - 1
        BY <1>3, <1>4
    <3>2. CASE k < i
      <4>1. t[k] = s[k] /\ k # i /\ P[k] = R[i + 1] /\ k \in 1 .. i - 1
          BY <1>3, <1>4, <3>1, <3>2
      <4>2. P[k + 1] = R[i + 1]
        <5>1. CASE k + 1 < i
            BY <3>1, <5>1
        <5>2. CASE ~(k + 1 < i)
          <6>1. k + 1 = i
              BY <1>3, <3>1, <3>2, <5>2
          <6>2. P[k + 1] = R[(k + 1) + 1]
              BY <3>1, <5>2
          <6> HIDE DEF P
          <6> QED
              BY <6>1, <6>2
        <5> QED
            BY <5>1, <5>2
      <4>3. e[t[k]] = <<>>
          BY <3>1, <4>1
      <4>4. R[i + 1] \in Seq(D)
          BY <1>3
      <4> HIDE DEF P
      <4> QED
          BY <4>1, <4>2, <4>3, <4>4, ConcatEmptySeq
    <3>3. CASE ~(k < i)
      <4>1. /\ t[k] = s[k + 1] /\ k + 1 # i /\ P[k] = R[k + 1]
            /\ ~(k + 1 < i) /\ P[k + 1] = R[(k + 1) + 1]
          BY <1>3, <1>4, <3>1, <3>3
      <4>2. R[k + 1] = g[s[k + 1]] \o R[(k + 1) + 1]
          BY <1>1, <3>1 DEF Taking
      <4>3. e[t[k]] = g[s[k + 1]]
          BY <3>1, <4>1
      <4> HIDE DEF P
      <4> QED
          BY <4>1, <4>2, <4>3
    <3> QED
        BY <3>2, <3>3
  <2> HIDE DEF P
  <2> QED
      BY <2>1, <2>2 DEF Taking
<1>7. P[1] = Q[1]
  <2>1. Len(t) \in Nat /\ 1 \in 1 .. Len(t) + 1
      BY <1>3, <1>4
  <2> HIDE DEF P
  <2> QED
      BY <1>2, <1>6, <2>1, TakingSame
<1>8. P[1] = R[i + 1]
  <2>1. 1 \in 1 .. n
      BY <1>3
  <2>2. CASE 1 < i
      BY <2>1, <2>2
  <2>3. CASE ~(1 < i)
    <3>1. i = 1
        BY <1>3, <2>3
    <3>2. P[1] = R[1 + 1]
        BY <2>1, <2>3
    <3> HIDE DEF P
    <3> QED
        BY <3>1, <3>2
  <2> QED
      BY <2>2, <2>3
<1>9. R[1] = g[s[i]] \o R[i + 1]
  <2>1. /\ Len(s) \in Nat /\ Taking(s, g, R) /\ i \in 1 .. Len(s)
        /\ \A k \in 1 .. Len(s) : g[s[k]] \in Seq(D)
        /\ \A k \in 1 .. i - 1 : g[s[k]] = <<>>
      BY <1>1, <1>3
  <2> QED
      BY ONLY <2>1, TakingNothing
<1> QED
    BY <1>1, <1>2, <1>7, <1>8, <1>9 DEF Joined

(* The cells met are those of the list.                                    *)
LEMMA ChainIsList ==
    ASSUME NEW h, NEW nx, NEW pv, NEW s, Follows(h, nx, pv, s)
    PROVE  Walk(h, nx, [x \in Cells |-> <<x>>]) = s
<1> DEFINE n == Len(s)
           g == [x \in Cells |-> <<x>>]
           P == [k \in 1 .. n + 1 |-> SubSeq(s, k, n)]
<1>1. PICK R : Taking(s, g, R) /\ R[1] = Walk(h, nx, g)
    BY WalkTakes
<1>2. n \in Nat /\ s \in Seq(Cells) /\ \A i \in 1 .. n : s[i] \in Cells
    BY FollowsLength DEF Follows
<1>3. ASSUME NEW k \in 1 .. n + 1
      PROVE  /\ P[k] = SubSeq(s, k, n)
             /\ P[k] \in Seq(Cells) /\ Len(P[k]) = (n + 1) - k
             /\ \A j \in 1 .. (n + 1) - k : P[k][j] = s[(k - 1) + j]
  <2>1. n \in k - 1 .. Len(s)
      BY <1>2
  <2>2. /\ SubSeq(s, k, n) \in Seq(Cells)
        /\ Len(SubSeq(s, k, n)) = IF k <= n THEN (n - k) + 1 ELSE 0
        /\ \A j \in 1 .. (n - k) + 1 : SubSeq(s, k, n)[j] = s[(k + j) - 1]
      BY <1>2, <2>1, SubSeqProperties
  <2>3. (IF k <= n THEN (n - k) + 1 ELSE 0) = (n + 1) - k /\ (n - k) + 1 = (n + 1) - k
      BY <1>2
  <2>4. \A j \in 1 .. (n + 1) - k : (k + j) - 1 = (k - 1) + j
      BY <1>2
  <2> QED
      BY <2>2, <2>3, <2>4
<1> HIDE DEF P
<1>4. Taking(s, g, P)
  <2>1. P[n + 1] = <<>>
    <3>1. n + 1 \in 1 .. n + 1 /\ (n + 1) - (n + 1) = 0
        BY <1>2
    <3>2. P[n + 1] \in Seq(Cells) /\ Len(P[n + 1]) = 0
        BY <1>3, <3>1
    <3> QED
        BY <3>2, EmptySeq
  <2>2. ASSUME NEW k \in 1 .. n PROVE P[k] = <<s[k]>> \o P[k + 1]
    <3> DEFINE u == <<s[k]>>
               v == P[k + 1]
    <3>1. k \in 1 .. n + 1 /\ k + 1 \in 1 .. n + 1 /\ s[k] \in Cells
        BY <1>2
    <3>2. u \in Seq(Cells) /\ Len(u) = 1 /\ u[1] = s[k]
        BY <3>1
    <3>3. /\ v \in Seq(Cells) /\ Len(v) = (n + 1) - (k + 1)
          /\ \A j \in 1 .. (n + 1) - (k + 1) : v[j] = s[((k + 1) - 1) + j]
        BY <1>3, <3>1
    <3>4. /\ P[k] \in Seq(Cells) /\ Len(P[k]) = (n + 1) - k
          /\ \A j \in 1 .. (n + 1) - k : P[k][j] = s[(k - 1) + j]
        BY <1>3, <3>1
    <3> HIDE DEF u, v
    <3>5. /\ u \o v \in Seq(Cells) /\ Len(u \o v) = 1 + Len(v)
          /\ \A j \in 1 .. 1 + Len(v) : (u \o v)[j] = IF j <= 1 THEN u[j] ELSE v[j - 1]
      <4>1. /\ u \o v \in Seq(Cells) /\ Len(u \o v) = Len(u) + Len(v)
            /\ \A j \in 1 .. Len(u) + Len(v) : (u \o v)[j] = IF j <= Len(u) THEN u[j] ELSE v[j - Len(u)]
          BY <3>2, <3>3, ConcatProperties
      <4> QED
          BY <3>2, <4>1
    <3>6. Len(P[k]) = Len(u \o v)
        BY <1>2, <3>3, <3>4, <3>5
    <3>7. ASSUME NEW j \in 1 .. Len(P[k]) PROVE P[k][j] = (u \o v)[j]
      <4>1. j \in 1 .. (n + 1) - k /\ j \in 1 .. 1 + Len(v)
          BY <1>2, <3>3, <3>4
      <4>2. CASE j = 1
        <5>1. (k - 1) + 1 = k
            BY <1>2
        <5> QED
            BY <3>2, <3>4, <3>5, <4>1, <4>2, <5>1
      <4>3. CASE j # 1
        <5>1. ~(j <= 1) /\ j - 1 \in 1 .. (n + 1) - (k + 1) /\ ((k + 1) - 1) + (j - 1) = (k - 1) + j
            BY <1>2, <4>1, <4>3
        <5> QED
            BY <3>3, <3>4, <3>5, <4>1, <5>1
      <4> QED
          BY <4>2, <4>3
    <3> QED
        BY <3>4, <3>5, <3>6, <3>7, SeqEqual DEF u, v
  <2>3. \A k \in 1 .. n : g[s[k]] = <<s[k]>>
      BY <1>2
  <2> HIDE DEF g
  <2> QED
      BY <2>1, <2>2, <2>3 DEF Taking
<1>5. R[1] = P[1]
  <2>1. 1 \in 1 .. n + 1
      BY <1>2
  <2> HIDE DEF g
  <2> QED
      BY <1>1, <1>2, <1>4, <2>1, TakingSame
<1>6. P[1] = s
  <2>1. 1 \in 1 .. n + 1 /\ (n + 1) - 1 = n /\ \A j \in 1 .. n : (1 - 1) + j = j
      BY <1>2
  <2>2. P[1] \in Seq(Cells) /\ Len(P[1]) = n /\ \A j \in 1 .. n : P[1][j] = s[j]
      BY <1>3, <2>1
  <2> QED
      BY <1>2, <2>2, SeqEqual
<1> QED
    BY <1>1, <1>5, <1>6

-----------------------------------------------------------------------------
(* Lists that change.                                                      *)

(* ToSet of a sequence, by its places.                                     *)
LEMMA ElementsOfSeq ==
    ASSUME NEW S, NEW s \in Seq(S)
    PROVE  ToSet(s) = { s[i] : i \in 1 .. Len(s) }
<1>1. DOMAIN s = 1 .. Len(s)
    BY LenProperties
<1> QED
    BY <1>1 DEF ToSet

(* A cell is at one place of one list.                                     *)
LEMMA ShapedDistinct ==
    ASSUME NEW L, NEW hd, NEW nx, NEW pv, NEW us, Shaped(L, hd, nx, pv, us),
           NEW l \in Lists
    PROVE  /\ Follows(hd[l], nx, pv, L[l]) /\ L[l] \in Seq(Cells)
           /\ Len(L[l]) \in Nat
           /\ \A i \in 1 .. Len(L[l]) : L[l][i] \in Cells /\ L[l][i] \in us
           /\ \A i, j \in 1 .. Len(L[l]) : L[l][i] = L[l][j] => i = j
           /\ \A m \in Lists : \A i \in 1 .. Len(L[l]) : \A j \in 1 .. Len(L[m]) :
                 L[l][i] = L[m][j] => l = m
           /\ ToSet(L[l]) = { L[l][i] : i \in 1 .. Len(L[l]) }
<1>1. ASSUME NEW m \in Lists
      PROVE  /\ Follows(hd[m], nx, pv, L[m]) /\ L[m] \in Seq(Cells) /\ IsInjective(L[m])
             /\ Len(L[m]) \in Nat
             /\ DOMAIN L[m] = 1 .. Len(L[m])
             /\ \A i \in 1 .. Len(L[m]) : L[m][i] \in Cells
             /\ ToSet(L[m]) \subseteq us
             /\ ToSet(L[m]) = { L[m][i] : i \in 1 .. Len(L[m]) }
  <2>1. Follows(hd[m], nx, pv, L[m]) /\ ToSet(L[m]) \subseteq us
      BY DEF Shaped
  <2>2. L[m] \in Seq(Cells) /\ IsInjective(L[m])
      BY <2>1 DEF Follows
  <2>3. Len(L[m]) \in Nat /\ DOMAIN L[m] = 1 .. Len(L[m]) /\ \A i \in 1 .. Len(L[m]) : L[m][i] \in Cells
      BY <2>1, FollowsLength
  <2>4. ToSet(L[m]) = { L[m][i] : i \in 1 .. Len(L[m]) }
      BY <2>3 DEF ToSet
  <2> QED
      BY <2>1, <2>2, <2>3, <2>4
<1>2. \A i, j \in 1 .. Len(L[l]) : L[l][i] = L[l][j] => i = j
  <2>1. IsInjective(L[l]) /\ DOMAIN L[l] = 1 .. Len(L[l])
      BY <1>1
  <2> QED
      BY <2>1 DEF IsInjective
<1>3. ASSUME NEW m \in Lists, NEW i \in 1 .. Len(L[l]), NEW j \in 1 .. Len(L[m]), L[l][i] = L[m][j]
      PROVE  l = m
  <2>1. L[l][i] \in ToSet(L[l]) /\ L[m][j] \in ToSet(L[m])
      BY <1>1
  <2>2. l # m => ToSet(L[l]) \cap ToSet(L[m]) = {}
      BY DEF Shaped
  <2> QED
      BY <1>3, <2>1, <2>2
<1>4. \A i \in 1 .. Len(L[l]) : L[l][i] \in us
    BY <1>1
<1> QED
    BY <1>1, <1>2, <1>3, <1>4

(* The links decide the lists.                                             *)
LEMMA ListsFound ==
    ASSUME NEW L, Shaped(L, head, next, prev, used)
    PROVE  AllLists = L
<1>1. L \in [Lists -> Seq(Cells)] /\ \A l \in Lists : Follows(head[l], next, prev, L[l])
    BY DEF Shaped
<1>2. \A l \in Lists : Chain(l) = L[l]
    BY <1>1, ChainIsList DEF Chain
<1> QED
    BY <1>1, <1>2 DEF AllLists

(* The same after a step.                                                   *)
LEMMA ListsFoundNext ==
    ASSUME NEW L, Shaped(L, head', next', prev', used')
    PROVE  AllLists' = L
<1>1. L \in [Lists -> Seq(Cells)] /\ \A l \in Lists : Follows(head'[l], next', prev', L[l])
    BY DEF Shaped
<1>2. \A l \in Lists : Walk(head'[l], next', [x \in Cells |-> <<x>>]) = L[l]
    BY <1>1, ChainIsList
<1>3. AllLists' = [l \in Lists |-> Walk(head'[l], next', [x \in Cells |-> <<x>>])]
    BY DEF AllLists, Chain
<1> QED
    BY <1>1, <1>2, <1>3

(* A sequence with one more element in front.                              *)
LEMMA ConsElements ==
    ASSUME NEW S, NEW s \in Seq(S), NEW x \in S
    PROVE  /\ <<x>> \o s \in Seq(S) /\ Len(<<x>> \o s) = Len(s) + 1
           /\ \A i \in 1 .. Len(s) + 1 : (<<x>> \o s)[i] = IF i = 1 THEN x ELSE s[i - 1]
           /\ DOMAIN (<<x>> \o s) = 1 .. Len(s) + 1
           /\ ToSet(<<x>> \o s) = ToSet(s) \cup {x}
<1> DEFINE n == Len(s)
           t == <<x>> \o s
<1>2. n \in Nat
    BY LenProperties
<1>2a. ToSet(s) = { s[i] : i \in 1 .. n }
    BY ElementsOfSeq
<1>4. <<x>> \in Seq(S) /\ Len(<<x>>) = 1 /\ <<x>>[1] = x
    OBVIOUS
<1>5. t \in Seq(S) /\ Len(t) = n + 1 /\ \A i \in 1 .. n + 1 : t[i] = IF i = 1 THEN x ELSE s[i - 1]
  <2>1. /\ t \in Seq(S) /\ Len(t) = Len(<<x>>) + n
        /\ \A i \in 1 .. Len(<<x>>) + n : t[i] = IF i <= Len(<<x>>) THEN <<x>>[i] ELSE s[i - Len(<<x>>)]
      BY <1>2, <1>4, ConcatProperties
  <2> HIDE DEF t
  <2> QED
      BY <1>2, <1>4, <2>1
<1>6. DOMAIN t = 1 .. n + 1
  <2> HIDE DEF t
  <2> QED
      BY <1>5, LenProperties
<1> HIDE DEF t
<1>9. ToSet(t) = ToSet(s) \cup {x}
  <2>1. \A i \in 1 .. n : i + 1 \in 1 .. n + 1 /\ i + 1 # 1 /\ t[i + 1] = s[i]
    <3>1. \A i \in 1 .. n : i + 1 \in 1 .. n + 1 /\ i + 1 # 1 /\ (i + 1) - 1 = i
        BY <1>2
    <3> QED
        BY <1>5, <3>1
  <2>2. \A i \in 1 .. n + 1 : i # 1 => i - 1 \in 1 .. n
      BY <1>2
  <2>3. 1 \in 1 .. n + 1
      BY <1>2
  <2>4. ToSet(t) = { t[i] : i \in 1 .. n + 1 }
      BY <1>6 DEF ToSet
  <2>5. ASSUME NEW i \in 1 .. n + 1 PROVE t[i] \in { s[j] : j \in 1 .. n } \cup {x}
      BY <1>5, <2>2
  <2>6. ASSUME NEW i \in 1 .. n PROVE s[i] \in { t[j] : j \in 1 .. n + 1 }
      BY <2>1
  <2>7. x \in { t[j] : j \in 1 .. n + 1 }
    <3>1. t[1] = x
        BY <1>5, <2>3
    <3> QED
        BY <2>3, <3>1
  <2> QED
      BY <1>2a, <2>4, <2>5, <2>6, <2>7
<1> QED
    BY <1>5, <1>6, <1>9 DEF t

(* DL_ListAdd.                                                             *)
LinkedIn(L, hd, nx, pv, l, x, L2, hd2, nx2, pv2) ==
    /\ L2 = [L EXCEPT ![l] = <<x>> \o L[l]]
    /\ hd2 = [hd EXCEPT ![l] = x]
    /\ nx2 = [nx EXCEPT ![x] = hd[l]]
    /\ pv2 = [y \in Cells |-> IF y = x THEN NULL ELSE IF y = hd[l] THEN x ELSE pv[y]]

(* DL_ListAdd keeps the lists apart: the new cell was in none of them.      *)
LEMMA AddShape ==
    ASSUME NEW L, NEW hd, NEW nx, NEW pv, NEW us, Shaped(L, hd, nx, pv, us),
           hd \in [Lists -> Pointers], nx \in [Cells -> Pointers],
           NEW l \in Lists, NEW x \in Cells \ us,
           NEW L2, NEW hd2, NEW nx2, NEW pv2,
           LinkedIn(L, hd, nx, pv, l, x, L2, hd2, nx2, pv2)
    PROVE  Shaped(L2, hd2, nx2, pv2, us \cup {x})
<1> DEFINE s == L[l]
           n == Len(s)
           t == <<x>> \o s
<1>1. L \in [Lists -> Seq(Cells)] /\ NULL \notin Cells
    BY HashTableAssumption DEF Shaped
<1>2. /\ s \in Seq(Cells) /\ n \in Nat
      /\ \A i \in 1 .. n : s[i] \in Cells /\ s[i] # x
      /\ \A i, j \in 1 .. n : s[i] = s[j] => i = j
  <2>1. s \in Seq(Cells) /\ n \in Nat
      BY ShapedDistinct
  <2>2. \A i \in 1 .. n : s[i] \in Cells /\ s[i] \in us
      BY ShapedDistinct
  <2>3. \A i, j \in 1 .. n : s[i] = s[j] => i = j
      BY ShapedDistinct
  <2> QED
      BY <2>1, <2>2, <2>3
<1>3. hd[l] = At(s, 1) /\ \A i \in 1 .. n : nx[s[i]] = At(s, i + 1) /\ pv[s[i]] = At(s, i - 1)
    BY DEF Shaped, Follows
<1>5. /\ t \in Seq(Cells) /\ Len(t) = n + 1
      /\ \A i \in 1 .. n + 1 : t[i] = IF i = 1 THEN x ELSE s[i - 1]
    BY <1>2, ConsElements
<1>6. DOMAIN t = 1 .. n + 1
    BY <1>2, ConsElements
<1>9. ToSet(t) = ToSet(s) \cup {x}
    BY <1>2, ConsElements
<1>7. L2 \in [Lists -> Seq(Cells)] /\ L2[l] = t /\ \A m \in Lists : m # l => L2[m] = L[m]
  <2>1. L2 = [L EXCEPT ![l] = t]
      BY DEF LinkedIn
  <2> HIDE DEF t
  <2> QED
      BY <1>1, <1>5, <2>1
<1>8. /\ hd2[l] = x /\ \A m \in Lists : m # l => hd2[m] = hd[m]
      /\ nx2[x] = hd[l] /\ pv2[x] = NULL
      /\ \A y \in Cells : y # x => nx2[y] = nx[y] /\ pv2[y] = IF y = hd[l] THEN x ELSE pv[y]
    BY DEF LinkedIn
<1> HIDE DEF t
<1>10. IsInjective(t)
  <2> SUFFICES ASSUME NEW i \in 1 .. n + 1, NEW j \in 1 .. n + 1, t[i] = t[j] PROVE i = j
      BY <1>6 DEF IsInjective
  <2>1. ASSUME NEW k \in 1 .. n + 1, k # 1 PROVE k - 1 \in 1 .. n /\ t[k] = s[k - 1]
    <3>1. k - 1 \in 1 .. n
        BY <1>2, <2>1
    <3> QED
        BY <1>5, <2>1, <3>1
  <2>2. t[1] = x /\ 1 \in 1 .. n + 1
    <3>1. 1 \in 1 .. n + 1
        BY <1>2
    <3> QED
        BY <1>5, <3>1
  <2>3. CASE i = 1 /\ j # 1
      BY <1>2, <2>1, <2>2, <2>3
  <2>4. CASE i # 1 /\ j = 1
      BY <1>2, <2>1, <2>2, <2>4
  <2>5. CASE i # 1 /\ j # 1
    <3>1. i - 1 = j - 1
        BY <1>2, <2>1, <2>5
    <3> QED
        BY <1>2, <3>1
  <2> QED
      BY <2>3, <2>4, <2>5
<1>11. ASSUME NEW i \in 1 .. n + 1 PROVE nx2[t[i]] = At(t, i + 1) /\ pv2[t[i]] = At(t, i - 1)
  <2>1. CASE i = 1
    <3>1. t[i] = x /\ pv2[t[i]] = NULL /\ nx2[t[i]] = At(s, 1)
        BY <1>2, <1>3, <1>5, <1>8, <2>1
    <3>2. At(t, i - 1) = NULL
        BY <1>5, <2>1 DEF At
    <3>3. At(t, i + 1) = At(s, 1)
      <4>1. i + 1 = 2
          BY <2>1
      <4>2. CASE n = 0
          BY <1>5, <4>1, <4>2 DEF At
      <4>3. CASE n # 0
        <5>1. 2 \in 1 .. n + 1 /\ 1 \in 1 .. n /\ t[2] = s[1]
            BY <1>2, <1>5, <4>3
        <5> QED
            BY <1>5, <4>1, <5>1 DEF At
      <4> QED
          BY <4>2, <4>3
    <3> QED
        BY <3>1, <3>2, <3>3
  <2>2. CASE i # 1
    <3>1. i - 1 \in 1 .. n /\ t[i] = s[i - 1] /\ (i - 1) + 1 = i
        BY <1>2, <1>5, <2>2
    <3>2. nx2[t[i]] = At(s, i)
        BY <1>2, <1>3, <1>8, <3>1
    <3>3. At(t, i + 1) = At(s, i)
        BY <1>2, <1>5, <2>2 DEF At
    <3>4. pv2[t[i]] = IF s[i - 1] = At(s, 1) THEN x ELSE At(s, (i - 1) - 1)
        BY <1>2, <1>3, <1>8, <3>1
    <3>5. CASE i = 2
      <4>1. 1 \in 1 .. n /\ i - 1 = 1 /\ At(s, 1) = s[1]
          BY <3>1, <3>5 DEF At
      <4>2. At(t, 1) = x
          BY <1>2, <1>5 DEF At
      <4> QED
          BY <3>2, <3>3, <3>4, <4>1, <4>2
    <3>6. CASE i # 2
      <4>1. 1 \in 1 .. n /\ i - 1 # 1 /\ At(s, 1) = s[1]
          BY <1>2, <2>2, <3>6 DEF At
      <4>2. s[i - 1] # s[1]
          BY <1>2, <3>1, <4>1
      <4>3. At(t, i - 1) = At(s, (i - 1) - 1)
          BY <1>2, <1>5, <2>2, <3>6 DEF At
      <4> QED
          BY <3>2, <3>3, <3>4, <4>1, <4>2, <4>3
    <3> QED
        BY <3>5, <3>6
  <2> QED
      BY <2>1, <2>2
<1>12. Follows(hd2[l], nx2, pv2, L2[l])
  <2>1. hd2[l] = At(t, 1)
      BY <1>2, <1>5, <1>8 DEF At
  <2> QED
      BY <1>5, <1>7, <1>10, <1>11, <2>1 DEF Follows
<1>13. ASSUME NEW m \in Lists, m # l PROVE Follows(hd2[m], nx2, pv2, L2[m])
  <2>1. Follows(hd[m], nx, pv, L[m])
      BY DEF Shaped
  <2>2. ASSUME NEW i \in 1 .. Len(L[m])
        PROVE  nx2[L[m][i]] = nx[L[m][i]] /\ pv2[L[m][i]] = pv[L[m][i]]
    <3>1. L[m][i] \in Cells /\ L[m][i] # x
        BY ShapedDistinct
    <3>2. L[m][i] # hd[l]
      <4> SUFFICES ASSUME L[m][i] = hd[l] PROVE FALSE
          OBVIOUS
      <4>1. 1 \in 1 .. n /\ L[m][i] = s[1]
          BY <1>1, <1>3, <3>1 DEF At
      <4> QED
          BY <1>13, <4>1, ShapedDistinct
    <3> QED
        BY <1>8, <3>1, <3>2
  <2>3. hd2[m] = hd[m] /\ L2[m] = L[m]
      BY <1>7, <1>8, <1>13
  <2> QED
      BY <2>1, <2>2, <2>3 DEF Follows
<1>14. ASSUME NEW m \in Lists PROVE Follows(hd2[m], nx2, pv2, L2[m])
    BY <1>12, <1>13
<1>15. ASSUME NEW m \in Lists, NEW k \in Lists, m # k PROVE ToSet(L2[m]) \cap ToSet(L2[k]) = {}
  <2>1. \A j \in Lists : ToSet(L[j]) \subseteq us
      BY DEF Shaped
  <2>2. ToSet(L[m]) \cap ToSet(L[k]) = {}
      BY <1>15 DEF Shaped
  <2>3. x \notin ToSet(L[m]) /\ x \notin ToSet(L[k])
      BY <2>1
  <2> QED
      BY <1>7, <1>9, <1>15, <2>2, <2>3
<1>16. ASSUME NEW m \in Lists PROVE ToSet(L2[m]) \subseteq us \cup {x}
  <2>1. ToSet(L[m]) \subseteq us
      BY DEF Shaped
  <2> QED
      BY <1>7, <1>9, <2>1
<1> QED
    BY <1>7, <1>14, <1>15, <1>16 DEF Shaped
(* DL_ListDeleteCell and DL_ListTake: the i-th cell x of a list leaves it. *)
(* The cells before and after it are linked to each other.                 *)
LinkedOut(L, hd, nx, pv, l, i, x, L2, hd2, nx2, pv2) ==
    /\ L2 = [L EXCEPT ![l] = RemoveAt(L[l], i)]
    /\ hd2 = [hd EXCEPT ![l] = IF x = hd[l] THEN nx[x] ELSE hd[l]]
    /\ \A y \in Cells : nx2[y] = IF y = x THEN NULL ELSE IF y = pv[x] THEN nx[x] ELSE nx[y]
    /\ \A y \in Cells : pv2[y] = IF y = x THEN NULL ELSE IF y = nx[x] THEN pv[x] ELSE pv[y]

(* A cell that leaves a list leaves its neighbours linked to each other,    *)
(* whether it was the first, the last, both, or neither.                    *)
LEMMA RemoveShape ==
    ASSUME NEW L, NEW hd, NEW nx, NEW pv, NEW us, Shaped(L, hd, nx, pv, us),
           hd \in [Lists -> Pointers],
           NEW l \in Lists, NEW i \in 1 .. Len(L[l]), NEW x, x = L[l][i],
           NEW L2, NEW hd2, NEW nx2, NEW pv2, NEW us2,
           LinkedOut(L, hd, nx, pv, l, i, x, L2, hd2, nx2, pv2), us \ {x} \subseteq us2
    PROVE  Shaped(L2, hd2, nx2, pv2, us2)
<1> DEFINE s == L[l]
           n == Len(s)
           t == RemoveAt(s, i)
<1>1. L \in [Lists -> Seq(Cells)] /\ NULL \notin Cells
    BY HashTableAssumption DEF Shaped
<1>2. /\ s \in Seq(Cells) /\ n \in Nat
      /\ \A j \in 1 .. n : s[j] \in Cells
      /\ \A j, k \in 1 .. n : s[j] = s[k] => j = k
  <2>1. s \in Seq(Cells) /\ n \in Nat
      BY ShapedDistinct
  <2>2. \A j \in 1 .. n : s[j] \in Cells
      BY ShapedDistinct
  <2>3. \A j, k \in 1 .. n : s[j] = s[k] => j = k
      BY ShapedDistinct
  <2> QED
      BY <2>1, <2>2, <2>3
<1>3. /\ hd[l] = At(s, 1) /\ IsInjective(s)
      /\ \A j \in 1 .. n : nx[s[j]] = At(s, j + 1) /\ pv[s[j]] = At(s, j - 1)
    BY DEF Shaped, Follows
<1>4. /\ t \in Seq(Cells) /\ Len(t) = n - 1
      /\ \A j \in 1 .. n - 1 : t[j] = IF j < i THEN s[j] ELSE s[j + 1]
    BY <1>2, RemoveAtElements, RemoveAtType
<1>5. IsInjective(t) /\ ToSet(t) = ToSet(s) \ {x}
    BY <1>2, <1>3, RemoveAtInjective
<1>6. L2 \in [Lists -> Seq(Cells)] /\ L2[l] = t /\ \A m \in Lists : m # l => L2[m] = L[m]
  <2>1. L2 = [L EXCEPT ![l] = t]
      BY DEF LinkedOut
  <2> HIDE DEF t
  <2> QED
      BY <1>1, <1>4, <2>1
<1>7. /\ hd2[l] = IF x = At(s, 1) THEN At(s, i + 1) ELSE At(s, 1)
      /\ \A m \in Lists : m # l => hd2[m] = hd[m]
      /\ x \in Cells /\ nx[x] = At(s, i + 1) /\ pv[x] = At(s, i - 1)
      /\ \A y \in Cells : nx2[y] = IF y = x THEN NULL ELSE IF y = pv[x] THEN nx[x] ELSE nx[y]
      /\ \A y \in Cells : pv2[y] = IF y = x THEN NULL ELSE IF y = nx[x] THEN pv[x] ELSE pv[y]
    BY <1>2, <1>3 DEF LinkedOut
<1>8. \A j \in 1 .. n : At(s, j) = s[j]
    BY DEF At
<1>9. \A j \in 1 .. n - 1 : At(t, j) = t[j]
    BY <1>4 DEF At
<1>10. At(s, 0) = NULL /\ At(t, 0) = NULL /\ At(s, n + 1) = NULL /\ At(t, n) = NULL
    BY <1>2, <1>4 DEF At
<1> HIDE DEF t
<1>11. hd2[l] = At(t, 1)
  <2>1. CASE i = 1
    <3>1. x = At(s, 1) /\ hd2[l] = At(s, 2)
        BY <1>7, <1>8, <2>1
    <3>2. CASE n = 1
        BY <1>10, <2>1, <3>1, <3>2
    <3>3. CASE n # 1
      <4>1. 1 \in 1 .. n - 1 /\ 2 \in 1 .. n /\ ~(1 < i) /\ 1 + 1 = 2
        <5>1. n \in Int /\ n >= 1 /\ n # 1
            BY <1>2, <3>3
        <5>3. ~(1 < i)
            BY <2>1
        <5> HIDE DEF n
        <5>2. n >= 2
            BY <5>1
        <5> QED
            BY <5>1, <5>2, <5>3
      <4>2. t[1] = s[2]
          BY <1>4, <4>1
      <4> QED
          BY <1>8, <1>9, <3>1, <4>1, <4>2
    <3> QED
        BY <3>2, <3>3
  <2>2. CASE i # 1
    <3>1. 1 \in 1 .. n /\ 1 \in 1 .. n - 1 /\ 1 < i
        BY <1>2, <2>2
    <3>2. x # s[1] /\ t[1] = s[1]
        BY <1>2, <1>4, <2>2, <3>1
    <3> QED
        BY <1>7, <1>8, <1>9, <3>1, <3>2
  <2> QED
      BY <2>1, <2>2
<1>12. ASSUME NEW j \in 1 .. n - 1 PROVE nx2[t[j]] = At(t, j + 1) /\ pv2[t[j]] = At(t, j - 1)
  <2>1. CASE j < i
    <3>1. j \in 1 .. n /\ j + 1 \in 1 .. n /\ t[j] = s[j] /\ s[j] \in Cells /\ s[j] # x
        BY <1>2, <1>4, <2>1, SMTT(30)
    <3>2. nx2[s[j]] = At(t, j + 1)
      <4>1. CASE j = i - 1
        <5>1. s[j] = At(s, i - 1) /\ j + 1 = i
            BY <1>8, <3>1, <4>1
        <5>2. nx2[s[j]] = At(s, i + 1)
            BY <1>7, <3>1, <5>1
        <5>3. At(t, i) = At(s, i + 1)
          <6>1. CASE i = n
              BY <1>10, <6>1
          <6>2. CASE i # n
            <7>1. i \in 1 .. n - 1 /\ ~(i < i) /\ i + 1 \in 1 .. n
                BY <1>2, <6>2
            <7> QED
                BY <1>4, <1>8, <1>9, <7>1
          <6> QED
              BY <6>1, <6>2
        <5> QED
            BY <5>1, <5>2, <5>3
      <4>2. CASE j # i - 1
        <5>1. j + 1 < i /\ j + 1 \in 1 .. n - 1 /\ i - 1 \in 1 .. n
            BY <1>2, <2>1, <4>2
        <5>2. At(s, i - 1) = s[i - 1] /\ s[j] # s[i - 1]
            BY <1>2, <1>8, <3>1, <4>2, <5>1
        <5>3. nx2[s[j]] = At(s, j + 1)
            BY <1>3, <1>7, <3>1, <5>2
        <5> QED
            BY <1>4, <1>8, <1>9, <3>1, <5>1, <5>3
      <4> QED
          BY <4>1, <4>2
    <3>3. pv2[s[j]] = At(t, j - 1)
      <4>1. s[j] # At(s, i + 1)
        <5>1. CASE i = n
            BY <1>1, <1>10, <3>1, <5>1
        <5>2. CASE i # n
          <6>1. i + 1 \in 1 .. n /\ j # i + 1
              BY <1>2, <2>1, <5>2
          <6> QED
              BY <1>2, <1>8, <3>1, <6>1
        <5> QED
            BY <5>1, <5>2
      <4>2. pv2[s[j]] = At(s, j - 1)
          BY <1>3, <1>7, <3>1, <4>1
      <4>3. CASE j = 1
          BY <1>10, <4>2, <4>3
      <4>4. CASE j # 1
        <5>1. j - 1 \in 1 .. n - 1 /\ j - 1 \in 1 .. n /\ j - 1 < i
            BY <1>2, <2>1, <4>4
        <5> QED
            BY <1>4, <1>8, <1>9, <4>2, <5>1
      <4> QED
          BY <4>3, <4>4
    <3> QED
        BY <3>1, <3>2, <3>3
  <2>2. CASE ~(j < i)
    <3>1. j + 1 \in 1 .. n /\ t[j] = s[j + 1] /\ s[j + 1] \in Cells /\ s[j + 1] # x
      <4>1. j + 1 \in 1 .. n /\ j + 1 # i
          BY <1>2, <2>2
      <4> QED
          BY <1>2, <1>4, <2>2, <4>1
    <3>2. nx2[s[j + 1]] = At(t, j + 1)
      <4>1. s[j + 1] # At(s, i - 1)
        <5>1. CASE i = 1
            BY <1>1, <1>10, <3>1, <5>1
        <5>2. CASE i # 1
          <6>1. i - 1 \in 1 .. n /\ j + 1 # i - 1
              BY <1>2, <2>2, <5>2
          <6> QED
              BY <1>2, <1>8, <3>1, <6>1
        <5> QED
            BY <5>1, <5>2
      <4>2. nx2[s[j + 1]] = At(s, (j + 1) + 1)
          BY <1>3, <1>7, <3>1, <4>1
      <4>3. CASE j = n - 1
        <5>1. j + 1 = n /\ (j + 1) + 1 = n + 1
            BY <1>2, <4>3
        <5> QED
            BY <1>10, <4>2, <5>1
      <4>4. CASE j # n - 1
        <5>1. j + 1 \in 1 .. n - 1 /\ ~(j + 1 < i) /\ (j + 1) + 1 \in 1 .. n
            BY <1>2, <2>2, <4>4
        <5> QED
            BY <1>4, <1>8, <1>9, <4>2, <5>1
      <4> QED
          BY <4>3, <4>4
    <3>3. pv2[s[j + 1]] = At(t, j - 1)
      <4>1. CASE j = i
        <5>1. s[j + 1] = At(s, i + 1)
            BY <1>8, <3>1, <4>1
        <5>2. pv2[s[j + 1]] = At(s, i - 1)
            BY <1>7, <3>1, <5>1
        <5>3. CASE i = 1
            BY <1>10, <4>1, <5>2, <5>3
        <5>4. CASE i # 1
          <6>1. i - 1 \in 1 .. n - 1 /\ i - 1 \in 1 .. n /\ i - 1 < i
              BY <1>2, <5>4
          <6> QED
              BY <1>4, <1>8, <1>9, <4>1, <5>2, <6>1
        <5> QED
            BY <5>3, <5>4
      <4>2. CASE j # i
        <5>1. /\ i + 1 \in 1 .. n /\ j + 1 # i + 1 /\ (j + 1) - 1 = j /\ j \in 1 .. n
              /\ j - 1 \in 1 .. n - 1 /\ ~(j - 1 < i) /\ (j - 1) + 1 = j
            BY <1>2, <2>2, <4>2
        <5>2. s[j + 1] # At(s, i + 1)
            BY <1>2, <1>8, <3>1, <5>1
        <5>3. pv2[s[j + 1]] = At(s, j)
          <6>1. pv2[s[j + 1]] = pv[s[j + 1]]
              BY <1>7, <3>1, <5>2
          <6>2. pv[s[j + 1]] = At(s, (j + 1) - 1)
              BY <1>3, <3>1
          <6> QED
              BY <5>1, <6>1, <6>2
        <5> QED
            BY <1>4, <1>8, <1>9, <5>1, <5>3
      <4> QED
          BY <4>1, <4>2
    <3> QED
        BY <3>1, <3>2, <3>3
  <2> QED
      BY <2>1, <2>2
<1>13. Follows(hd2[l], nx2, pv2, L2[l])
    BY <1>4, <1>5, <1>6, <1>11, <1>12 DEF Follows
<1>14. ASSUME NEW m \in Lists, m # l PROVE Follows(hd2[m], nx2, pv2, L2[m])
  <2>1. Follows(hd[m], nx, pv, L[m])
      BY DEF Shaped
  <2>2. ASSUME NEW k \in 1 .. Len(L[m])
        PROVE  nx2[L[m][k]] = nx[L[m][k]] /\ pv2[L[m][k]] = pv[L[m][k]]
    <3>1. L[m][k] \in Cells /\ \A j \in 1 .. n : L[m][k] # s[j]
        BY <1>14, ShapedDistinct
    <3>2. \A j \in {i - 1, i, i + 1} : L[m][k] # At(s, j)
        BY <1>1, <3>1 DEF At
    <3>3. L[m][k] # x /\ L[m][k] # nx[x] /\ L[m][k] # pv[x]
        BY <1>7, <3>1, <3>2
    <3> QED
        BY <1>7, <3>1, <3>3
  <2>3. hd2[m] = hd[m] /\ L2[m] = L[m]
      BY <1>6, <1>7, <1>14
  <2> QED
      BY <2>1, <2>2, <2>3 DEF Follows
<1>15. ASSUME NEW m \in Lists PROVE Follows(hd2[m], nx2, pv2, L2[m])
    BY <1>13, <1>14
<1>16. ASSUME NEW m \in Lists PROVE ToSet(L2[m]) \subseteq ToSet(L[m]) /\ x \notin ToSet(L2[m])
  <2>1. CASE m = l
      BY <1>5, <1>6, <2>1
  <2>2. CASE m # l
    <3>1. \A k \in 1 .. Len(L[m]) : L[m][k] # x
        BY <2>2, ShapedDistinct
    <3>2. L[m] \in Seq(Cells)
        BY <1>1
    <3>3. x \notin ToSet(L[m])
        BY <3>1, <3>2, ElementsOfSeq
    <3> QED
        BY <1>6, <2>2, <3>3
  <2> QED
      BY <2>1, <2>2
<1>17. ASSUME NEW m \in Lists, NEW k \in Lists, m # k PROVE ToSet(L2[m]) \cap ToSet(L2[k]) = {}
  <2>1. ToSet(L[m]) \cap ToSet(L[k]) = {}
      BY <1>17 DEF Shaped
  <2> QED
      BY <1>16, <2>1
<1>18. ASSUME NEW m \in Lists PROVE ToSet(L2[m]) \subseteq us2
  <2>1. ToSet(L[m]) \subseteq us
      BY DEF Shaped
  <2> QED
      BY <1>16, <2>1
<1> QED
    BY <1>6, <1>15, <1>17, <1>18 DEF Shaped

(* fileFree: all the cells of a list go.                                   *)
LEMMA ClearShape ==
    ASSUME NEW L, NEW hd, NEW nx, NEW pv, NEW us, Shaped(L, hd, nx, pv, us),
           hd \in [Lists -> Pointers], NEW l \in Lists,
           NEW L2, NEW hd2, NEW nx2, NEW pv2,
           L2 = [L EXCEPT ![l] = <<>>], hd2 = [hd EXCEPT ![l] = NULL],
           \A y \in Cells : y \notin ToSet(L[l]) => nx2[y] = nx[y] /\ pv2[y] = pv[y]
    PROVE  Shaped(L2, hd2, nx2, pv2, us \ ToSet(L[l]))
<1>1. L \in [Lists -> Seq(Cells)]
    BY DEF Shaped
<1>2. <<>> \in Seq(Cells) /\ Len(<<>>) = 0 /\ DOMAIN <<>> = {} /\ ToSet(<<>>) = {}
  <2>1. DOMAIN <<>> = {}
      OBVIOUS
  <2>2. ToSet(<<>>) = {}
      BY <2>1 DEF ToSet
  <2> QED
      BY <2>1, <2>2, EmptySeq
<1>3. /\ L2 \in [Lists -> Seq(Cells)] /\ L2[l] = <<>> /\ hd2[l] = NULL
      /\ \A m \in Lists : m # l => L2[m] = L[m] /\ hd2[m] = hd[m]
    BY <1>1, <1>2
<1>4. ASSUME NEW m \in Lists PROVE Follows(hd2[m], nx2, pv2, L2[m])
  <2>1. CASE m = l
    <3>1. IsInjective(<<>>) /\ At(<<>>, 1) = NULL
        BY <1>2 DEF IsInjective, At
    <3>2. \A k \in 1 .. Len(<<>>) : FALSE
        BY <1>2
    <3> QED
        BY <1>2, <1>3, <2>1, <3>1, <3>2 DEF Follows
  <2>2. CASE m # l
    <3>1. Follows(hd[m], nx, pv, L[m])
        BY DEF Shaped
    <3>2. ASSUME NEW k \in 1 .. Len(L[m])
          PROVE  nx2[L[m][k]] = nx[L[m][k]] /\ pv2[L[m][k]] = pv[L[m][k]]
      <4>1. L[m][k] \in Cells
          BY ShapedDistinct
      <4>2. ToSet(L[m]) \cap ToSet(L[l]) = {}
          BY <2>2 DEF Shaped
      <4>3. L[m][k] \in ToSet(L[m])
          BY <1>1, ElementsOfSeq
      <4> QED
          BY <4>1, <4>2, <4>3
    <3>3. hd2[m] = hd[m] /\ L2[m] = L[m]
        BY <1>3, <2>2
    <3> QED
        BY <3>1, <3>2, <3>3 DEF Follows
  <2> QED
      BY <2>1, <2>2
<1>5. ASSUME NEW m \in Lists, NEW k \in Lists, m # k PROVE ToSet(L2[m]) \cap ToSet(L2[k]) = {}
  <2>1. ToSet(L[m]) \cap ToSet(L[k]) = {}
      BY <1>5 DEF Shaped
  <2>2. CASE m = l
      BY <1>2, <1>3, <2>2
  <2>3. CASE k = l
      BY <1>2, <1>3, <2>3
  <2> QED
      BY <1>3, <2>1, <2>2, <2>3
<1>6. ASSUME NEW m \in Lists PROVE ToSet(L2[m]) \subseteq us \ ToSet(L[l])
  <2>1. CASE m = l
      BY <1>2, <1>3, <2>1
  <2>2. CASE m # l
    <3>1. ToSet(L[m]) \subseteq us /\ ToSet(L[m]) \cap ToSet(L[l]) = {}
        BY <2>2 DEF Shaped
    <3> QED
        BY <1>3, <2>2, <3>1
  <2> QED
      BY <2>1, <2>2
<1> QED
    BY <1>3, <1>4, <1>5, <1>6 DEF Shaped

-----------------------------------------------------------------------------
(* What the operations do to the lists.                                    *)

(* The lists as Chain and CellsOf show them.                               *)
LEMMA InvLists ==
    ASSUME HashInv, NEW l \in Lists
    PROVE  /\ Chain(l) = AllLists[l] /\ AllLists[l] \in Seq(Cells)
           /\ CellsOf(l) = ToSet(AllLists[l])
           /\ ToSet(AllLists[l]) = { AllLists[l][i] : i \in 1 .. Len(AllLists[l]) }
           /\ ToSet(AllLists[l]) \subseteq used /\ ToSet(AllLists[l]) \subseteq Cells
           /\ \A m \in Lists : l # m => ToSet(AllLists[l]) \cap ToSet(AllLists[m]) = {}
<1>1. Chain(l) = AllLists[l]
    BY DEF AllLists
<1>2. CellsOf(l) = ToSet(Chain(l))
    BY DEF CellsOf, ToSet
<1>3. Shaped(AllLists, head, next, prev, used) /\ used \subseteq Cells
    BY DEF HashInv, Typed
<1>4. AllLists[l] \in Seq(Cells) /\ ToSet(AllLists[l]) \subseteq used
    BY <1>3 DEF Shaped
<1>5. ToSet(AllLists[l]) = { AllLists[l][i] : i \in 1 .. Len(AllLists[l]) }
    BY <1>4, ElementsOfSeq
<1>6. \A m \in Lists : l # m => ToSet(AllLists[l]) \cap ToSet(AllLists[m]) = {}
    BY <1>3 DEF Shaped
<1> QED
    BY <1>1, <1>2, <1>3, <1>4, <1>5, <1>6

(* The cell a loop stops at, and those it has passed.                      *)
LEMMA FirstCellFound ==
    ASSUME HashInv, NEW l \in Lists, NEW Hits, FirstCell(l, Hits) # NULL
    PROVE  \E i \in 1 .. Len(AllLists[l]) :
               /\ FirstCell(l, Hits) = AllLists[l][i]
               /\ AllLists[l][i] \in Hits
               /\ \A j \in 1 .. i - 1 : AllLists[l][j] \notin Hits
<1> DEFINE s == AllLists[l]
           n == Len(s)
           at == { i \in 1 .. n : s[i] \in Hits }
<1>1. s \in Seq(Cells) /\ Chain(l) = s /\ n \in Nat /\ DOMAIN s = 1 .. n
  <2>1. s \in Seq(Cells) /\ Chain(l) = s
      BY InvLists
  <2> QED
      BY <2>1, LenProperties
<1>2. FirstCell(l, Hits) = IF at = {} THEN NULL ELSE s[CHOOSE i \in at : \A j \in at : i <= j]
    BY <1>1 DEF FirstCell
<1>3. at # {} /\ FirstCell(l, Hits) = s[CHOOSE i \in at : \A j \in at : i <= j]
    BY <1>2
<1>4. at \in SUBSET Nat
    BY <1>1
<1> DEFINE i == CHOOSE i \in at : \A j \in at : i <= j
<1>5. i \in at /\ \A j \in at : i <= j
  <2> HIDE DEF at
  <2>1. \E k \in at : \A j \in at : k =< j
      BY <1>3, <1>4, NatLeast
  <2> QED
      BY <2>1
<1> HIDE DEF i
<1>6. i \in 1 .. n /\ s[i] \in Hits
    BY <1>5
<1>7. ASSUME NEW j \in 1 .. i - 1 PROVE s[j] \notin Hits
  <2>1. j \in 1 .. n /\ ~(i <= j)
      BY <1>1, <1>6
  <2> QED
      BY <1>5, <2>1
<1>8. FirstCell(l, Hits) = s[i]
    BY <1>3 DEF i
<1> QED
    BY <1>6, <1>7, <1>8

(* DL_ListAdd puts a cell that was free in front of a list.                *)
LEMMA AddEffect ==
    ASSUME HashInv, NEW l \in Lists, NEW d \in FileIds \cup Clients, DL_ListAdd(l, d)
    PROVE  \E x \in Cells \ used :
               /\ Shaped([AllLists EXCEPT ![l] = <<x>> \o AllLists[l]], head', next', prev', used')
               /\ used' = used \cup {x} /\ data' = [data EXCEPT ![x] = d]
               /\ Typed(head', next', prev', data', used', abspath)
<1> DEFINE x == Min(Cells \ used)
<1>1. Typed(head, next, prev, data, used, abspath) /\ Shaped(AllLists, head, next, prev, used)
    BY DEF HashInv
<1>2. x \in Cells \ used
  <2>1. used \subseteq Cells /\ Cells # used
      BY <1>1 DEF Typed, DL_ListAdd
  <2>2. Cells \ used # {} /\ IsFiniteSet(Cells \ used) /\ Cells \ used \in SUBSET Int
    <3>1. IsFiniteSet(Cells) /\ Cells \subseteq Nat
        BY HashTableAssumption
    <3>2. Cells \ used \in SUBSET Cells
        OBVIOUS
    <3>3. IsFiniteSet(Cells \ used)
        BY <3>1, <3>2, FS_Subset
    <3>4. Cells \ used # {}
        BY <2>1
    <3>5. Cells \ used \in SUBSET Int
      <4>1. \A y \in Cells \ used : y \in Int
          BY <3>1
      <4> QED
          BY <4>1
    <3> QED
        BY <3>3, <3>4, <3>5
  <2> QED
      BY <2>2, MinIsMember
<1>3. /\ used' = used \cup {x}
      /\ data' = [data EXCEPT ![x] = d]
      /\ next' = [next EXCEPT ![x] = head[l]]
      /\ prev' = [y \in Cells |-> IF y = x THEN NULL ELSE IF y = head[l] THEN x ELSE prev[y]]
      /\ head' = [head EXCEPT ![l] = x]
    BY DEF DL_ListAdd
<1> HIDE DEF x
<1>4. Shaped([AllLists EXCEPT ![l] = <<x>> \o AllLists[l]], head', next', prev', used')
  <2> DEFINE L2 == [AllLists EXCEPT ![l] = <<x>> \o AllLists[l]]
  <2>1. head \in [Lists -> Pointers] /\ next \in [Cells -> Pointers]
      BY <1>1 DEF Typed
  <2>2. LinkedIn(AllLists, head, next, prev, l, x, L2, head', next', prev')
      BY <1>3 DEF LinkedIn
  <2> HIDE DEF L2
  <2>3. Shaped(L2, head', next', prev', used \cup {x})
      BY <1>1, <1>2, <2>1, <2>2, AddShape
  <2> QED
      BY <1>3, <2>3 DEF L2
<1>5. Typed(head', next', prev', data', used', abspath)
  <2>1. /\ head \in [Lists -> Pointers] /\ next \in [Cells -> Pointers] /\ prev \in [Cells -> Pointers]
        /\ data \in [Cells -> FileIds \cup Clients \cup {NULL}] /\ used \subseteq Cells
        /\ abspath \in [FileIds -> Names \cup {NULL}]
      BY <1>1 DEF Typed
  <2>2. x \in Pointers /\ head[l] \in Pointers /\ NULL \in Pointers
      BY <1>2, <2>1 DEF Pointers
  <2>3. head' \in [Lists -> Pointers]
      BY <1>3, <2>1, <2>2
  <2>4. next' \in [Cells -> Pointers]
      BY <1>3, <2>1, <2>2
  <2>5. prev' \in [Cells -> Pointers]
      BY <1>3, <2>1, <2>2
  <2>6. data' \in [Cells -> FileIds \cup Clients \cup {NULL}]
      BY <1>3, <2>1
  <2>7. used' \subseteq Cells
      BY <1>2, <1>3, <2>1
  <2> QED
      BY <2>1, <2>3, <2>4, <2>5, <2>6, <2>7 DEF Typed
<1> QED
    BY <1>2, <1>3, <1>4, <1>5

(* hashTbSearch, DL_ListDeleteCell and DL_ListTake take a cell out of a    *)
(* list, the first one or another.                                         *)
LEMMA RemoveEffect ==
    ASSUME HashInv, NEW l \in Lists, NEW i \in 1 .. Len(AllLists[l]),
           NEW x, x = AllLists[l][i],
           NEW free \in SUBSET {x}, Becomes(Without(l, x), {x}, free)
    PROVE  /\ Shaped([AllLists EXCEPT ![l] = RemoveAt(AllLists[l], i)], head', next', prev', used')
           /\ used' = used \ free
           /\ data' = [y \in Cells |-> IF y \in free THEN NULL ELSE data[y]]
           /\ Typed(head', next', prev', data', used', abspath)
<1> DEFINE s == AllLists[l]
           n == Len(s)
<1>1. /\ Shaped(AllLists, head, next, prev, used)
      /\ head \in [Lists -> Pointers] /\ next \in [Cells -> Pointers] /\ prev \in [Cells -> Pointers]
      /\ data \in [Cells -> FileIds \cup Clients \cup {NULL}] /\ used \subseteq Cells
      /\ abspath \in [FileIds -> Names \cup {NULL}]
    BY DEF HashInv, Typed
<1>2. x \in Cells /\ NULL \notin Cells /\ n \in Nat
    BY <1>1, ShapedDistinct, HashTableAssumption
<1>3. /\ head[l] = At(s, 1)
      /\ next[x] = At(s, i + 1) /\ prev[x] = At(s, i - 1)
    BY <1>1 DEF Shaped, Follows
<1>4. x = head[l] <=> i = 1
  <2>1. 1 \in 1 .. n /\ At(s, 1) = s[1]
      BY <1>2 DEF At
  <2>2. s[1] = s[i] => 1 = i
      BY <1>1, <2>1, ShapedDistinct
  <2> QED
      BY <1>3, <2>1, <2>2
<1>5. i # 1 => prev[x] \in Cells
  <2> SUFFICES ASSUME i # 1 PROVE prev[x] \in Cells
      OBVIOUS
  <2>1. i - 1 \in 1 .. n
      BY <1>2
  <2>2. prev[x] = s[i - 1]
      BY <1>3, <2>1 DEF At
  <2> QED
      BY <1>1, <2>1, <2>2, ShapedDistinct
<1>6. i = 1 => prev[x] = NULL
    BY <1>3 DEF At
<1>7. /\ head' = [head EXCEPT ![l] = IF x = head[l] THEN next[x] ELSE head[l]]
      /\ \A y \in Cells : next'[y] = IF y = x THEN NULL ELSE IF y = prev[x] THEN next[x] ELSE next[y]
      /\ \A y \in Cells : prev'[y] = IF y = x THEN NULL ELSE IF y = next[x] THEN prev[x] ELSE prev[y]
      /\ next' \in [Cells -> Pointers] /\ prev' \in [Cells -> Pointers]
      /\ used' = used \ free
      /\ data' = [y \in Cells |-> IF y \in free THEN NULL ELSE data[y]]
  <2> DEFINE w == Without(l, x)
  <2>1. /\ head' = w.head
        /\ next' = [y \in Cells |-> IF y \in {x} THEN NULL ELSE w.next[y]]
        /\ prev' = [y \in Cells |-> IF y \in {x} THEN NULL ELSE w.prev[y]]
        /\ data' = [y \in Cells |-> IF y \in free THEN NULL ELSE data[y]]
        /\ used' = used \ free
    <3> HIDE DEF w
    <3> QED
        BY DEF Becomes, w
  <2>2. next[x] \in Pointers /\ prev[x] \in Pointers /\ NULL \in Pointers
      BY <1>1, <1>2 DEF Pointers
  <2>3. CASE x = head[l]
    <3>1. w = [head |-> [head EXCEPT ![l] = next[x]],
               next |-> next,
               prev |-> [y \in Cells |-> IF y = next[x] THEN NULL ELSE prev[y]]]
        BY <2>3 DEF Without, withoutHead
    <3>2. /\ w.head = [head EXCEPT ![l] = next[x]]
          /\ w.next = next
          /\ w.prev = [y \in Cells |-> IF y = next[x] THEN NULL ELSE prev[y]]
      <4> HIDE DEF w
      <4> QED
          BY <3>1
    <3> HIDE DEF w
    <3>3. prev[x] = NULL
        BY <1>4, <1>6, <2>3
    <3>4. next' = [y \in Cells |-> IF y = x THEN NULL ELSE next[y]]
        BY <2>1, <3>2
    <3>5. prev' = [y \in Cells |-> IF y = x THEN NULL ELSE IF y = next[x] THEN NULL ELSE prev[y]]
        BY <2>1, <3>2
    <3>6. next' \in [Cells -> Pointers] /\ prev' \in [Cells -> Pointers]
        BY <1>1, <2>2, <3>4, <3>5
    <3>7. \A y \in Cells : y # prev[x]
        BY <1>2, <3>3
    <3> QED
        BY <2>1, <2>3, <3>2, <3>3, <3>4, <3>5, <3>6, <3>7
  <2>4. CASE x # head[l]
    <3>1. w = [head |-> head, next |-> [next EXCEPT ![prev[x]] = next[x]],
               prev |-> [y \in Cells |-> IF y = next[x] THEN prev[x] ELSE prev[y]]]
        BY <2>4 DEF Without, withoutCell
    <3>2. /\ w.head = head
          /\ w.next = [next EXCEPT ![prev[x]] = next[x]]
          /\ w.prev = [y \in Cells |-> IF y = next[x] THEN prev[x] ELSE prev[y]]
      <4> HIDE DEF w
      <4> QED
          BY <3>1
    <3> HIDE DEF w
    <3>3. prev[x] \in Cells
        BY <1>4, <1>5, <2>4
    <3>4. next' = [y \in Cells |-> IF y = x THEN NULL ELSE IF y = prev[x] THEN next[x] ELSE next[y]]
        BY <1>1, <2>1, <3>2, <3>3
    <3>5. prev' = [y \in Cells |-> IF y = x THEN NULL ELSE IF y = next[x] THEN prev[x] ELSE prev[y]]
        BY <2>1, <3>2
    <3>6. next' \in [Cells -> Pointers] /\ prev' \in [Cells -> Pointers]
        BY <1>1, <2>2, <3>4, <3>5
    <3>7. head = [head EXCEPT ![l] = head[l]]
        BY <1>1
    <3> QED
        BY <2>1, <2>4, <3>2, <3>4, <3>5, <3>6, <3>7
  <2> QED
      BY <2>3, <2>4
<1>8. Shaped([AllLists EXCEPT ![l] = RemoveAt(AllLists[l], i)], head', next', prev', used')
  <2> DEFINE L2 == [AllLists EXCEPT ![l] = RemoveAt(AllLists[l], i)]
  <2>1. used \ {x} \subseteq used'
      BY <1>7
  <2>2. LinkedOut(AllLists, head, next, prev, l, i, x, L2, head', next', prev')
    <3>1. L2 = [AllLists EXCEPT ![l] = RemoveAt(AllLists[l], i)]
        OBVIOUS
    <3> HIDE DEF L2
    <3> QED
        BY <1>7, <3>1 DEF LinkedOut
  <2> HIDE DEF L2
  <2>3. Shaped(L2, head', next', prev', used')
      BY <1>1, <2>1, <2>2, RemoveShape
  <2> QED
      BY <2>3 DEF L2
<1>9. Typed(head', next', prev', data', used', abspath)
  <2>1. next[x] \in Pointers /\ head[l] \in Pointers
      BY <1>1, <1>2
  <2>2. head' \in [Lists -> Pointers]
      BY <1>1, <1>7, <2>1
  <2>3. data' \in [Cells -> FileIds \cup Clients \cup {NULL}]
      BY <1>1, <1>7
  <2>4. used' \subseteq Cells
      BY <1>1, <1>7
  <2> QED
      BY <1>1, <1>7, <2>2, <2>3, <2>4 DEF Typed
<1> QED
    BY <1>7, <1>8, <1>9

(* fileFree empties the list of a record.                                  *)
LEMMA ClearEffect ==
    ASSUME HashInv, NEW f \in FileIds,
           Becomes([head |-> [head EXCEPT ![f] = NULL], next |-> next, prev |-> prev],
                   CellsOf(f), CellsOf(f))
    PROVE  /\ Shaped([AllLists EXCEPT ![f] = <<>>], head', next', prev', used')
           /\ used' = used \ ToSet(AllLists[f])
           /\ data' = [y \in Cells |-> IF y \in ToSet(AllLists[f]) THEN NULL ELSE data[y]]
           /\ Typed(head', next', prev', data', used', abspath)
<1>1. /\ Shaped(AllLists, head, next, prev, used)
      /\ head \in [Lists -> Pointers] /\ next \in [Cells -> Pointers] /\ prev \in [Cells -> Pointers]
      /\ data \in [Cells -> FileIds \cup Clients \cup {NULL}] /\ used \subseteq Cells
      /\ abspath \in [FileIds -> Names \cup {NULL}]
    BY DEF HashInv, Typed
<1>2. f \in Lists /\ NULL \in Pointers
    BY DEF Lists, Pointers
<1>3. CellsOf(f) = ToSet(AllLists[f])
    BY <1>2, InvLists
<1> DEFINE ys == ToSet(AllLists[f])
           w == [head |-> [head EXCEPT ![f] = NULL], next |-> next, prev |-> prev]
<1>4. /\ w.head = [head EXCEPT ![f] = NULL] /\ w.next = next /\ w.prev = prev
    OBVIOUS
<1> HIDE DEF w
<1>5. /\ head' = [head EXCEPT ![f] = NULL]
      /\ next' = [y \in Cells |-> IF y \in ys THEN NULL ELSE next[y]]
      /\ prev' = [y \in Cells |-> IF y \in ys THEN NULL ELSE prev[y]]
      /\ data' = [y \in Cells |-> IF y \in ys THEN NULL ELSE data[y]]
      /\ used' = used \ ys
  <2>1. Becomes(w, ys, ys)
      BY <1>3 DEF w
  <2> HIDE DEF ys
  <2> QED
      BY <1>4, <2>1 DEF Becomes
<1>6. \A y \in Cells : y \notin ys => next'[y] = next[y] /\ prev'[y] = prev[y]
    BY <1>5
<1>7. Shaped([AllLists EXCEPT ![f] = <<>>], head', next', prev', used')
  <2> DEFINE L2 == [AllLists EXCEPT ![f] = <<>>]
  <2>1. L2 = [AllLists EXCEPT ![f] = <<>>]
      OBVIOUS
  <2> HIDE DEF L2
  <2>2. Shaped(L2, head', next', prev', used \ ys)
      BY <1>1, <1>2, <1>5, <1>6, <2>1, ClearShape
  <2> QED
      BY <1>5, <2>2 DEF L2
<1>8. Typed(head', next', prev', data', used', abspath)
  <2> HIDE DEF ys
  <2>1. head' \in [Lists -> Pointers]
      BY <1>1, <1>2, <1>5
  <2>2. next' \in [Cells -> Pointers] /\ prev' \in [Cells -> Pointers]
      BY <1>1, <1>2, <1>5
  <2>3. data' \in [Cells -> FileIds \cup Clients \cup {NULL}] /\ used' \subseteq Cells
      BY <1>1, <1>5
  <2> QED
      BY <1>1, <2>1, <2>2, <2>3 DEF Typed
<1> QED
    BY <1>5, <1>7, <1>8

-----------------------------------------------------------------------------
(* What the cells hold, from one operation to the next.                    *)

(* What may stand in a cell of list l, the records being those of ap.      *)
Fits(l, d, ap) ==
    /\ l \in Buckets => d \in FileIds /\ ap[d] # NULL /\ Pos[ap[d]] = l
    /\ l \in FileIds => d \in Clients /\ ap[l] # NULL

(* A record has a name until its list of clients is empty.                 *)
Renamed(L, ap, ap2) ==
    \A g \in FileIds : /\ ap[g] # NULL => ap2[g] = ap[g]
                       /\ ap2[g] = NULL => L[g] = <<>>

(* A cell that is added holds what its list may hold.                       *)
LEMMA FilledAdd ==
    ASSUME NEW L, NEW hd, NEW nx, NEW pv, NEW us, Shaped(L, hd, nx, pv, us), us \subseteq Cells,
           NEW dt \in [Cells -> FileIds \cup Clients \cup {NULL}],
           NEW ap, Filled(L, dt, ap, us),
           NEW l \in Lists, NEW x \in Cells \ us, NEW d \in FileIds \cup Clients, NEW ap2,
           Fits(l, d, ap2), Renamed(L, ap, ap2)
    PROVE  Filled([L EXCEPT ![l] = <<x>> \o L[l]], [dt EXCEPT ![x] = d], ap2, us \cup {x})
<1> DEFINE L2 == [L EXCEPT ![l] = <<x>> \o L[l]]
           dt2 == [dt EXCEPT ![x] = d]
<1>1. /\ L \in [Lists -> Seq(Cells)]
      /\ \A m \in Lists : ToSet(L[m]) \subseteq us
    BY DEF Shaped
<1>2. ToSet(<<x>> \o L[l]) = ToSet(L[l]) \cup {x}
  <2>1. L[l] \in Seq(Cells)
      BY <1>1
  <2> QED
      BY <2>1, ConsElements
<1>3. \A m \in Lists : ToSet(L2[m]) = IF m = l THEN ToSet(L[l]) \cup {x} ELSE ToSet(L[m])
    BY <1>1, <1>2
<1>4. \A m \in Lists : m # l => L2[m] = L[m]
    BY <1>1
<1>5. dt2[x] = d /\ \A y \in Cells : y # x => dt2[y] = dt[y]
    OBVIOUS
<1> HIDE DEF L2, dt2
<1>6. \A b \in Buckets, f \in FileIds : b \in Lists /\ f \in Lists /\ b # f
    BY HashTableAssumption DEF Lists
<1>7. \A m \in Lists : \A y \in ToSet(L[m]) : y # x /\ y \in Cells
  <2>1. \A m \in Lists : L[m] \in Seq(Cells)
      BY <1>1
  <2>2. \A m \in Lists : \A y \in ToSet(L[m]) : y \in Cells
    <3> SUFFICES ASSUME NEW m \in Lists PROVE \A y \in ToSet(L[m]) : y \in Cells
        OBVIOUS
    <3>1. L[m] \in Seq(Cells)
        BY <2>1
    <3>2. ToSet(L[m]) = { L[m][i] : i \in 1 .. Len(L[m]) }
        BY <3>1, ElementsOfSeq
    <3> QED
        BY <3>1, <3>2, ElementOfSeq
  <2> QED
      BY <1>1, <2>2
<1>8. ASSUME NEW b \in Buckets, NEW y \in ToSet(L2[b])
      PROVE  dt2[y] \in FileIds /\ ap2[dt2[y]] # NULL /\ Pos[ap2[dt2[y]]] = b
  <2>1. b \in Lists
      BY DEF Lists
  <2>2. CASE y = x
    <3>1. b = l
        BY <1>3, <1>7, <2>1, <2>2
    <3> QED
        BY <1>5, <2>2, <3>1 DEF Fits
  <2>3. CASE y # x
    <3>1. y \in ToSet(L[b])
        BY <1>3, <2>1, <2>3
    <3>2. dt2[y] = dt[y]
        BY <1>5, <1>7, <2>1, <2>3, <3>1
    <3>3. dt[y] \in FileIds /\ ap[dt[y]] # NULL /\ Pos[ap[dt[y]]] = b
        BY <3>1 DEF Filled
    <3> QED
        BY <3>2, <3>3 DEF Renamed
  <2> QED
      BY <2>2, <2>3
<1>9. ASSUME NEW f \in FileIds
      PROVE  /\ \A y \in ToSet(L2[f]) : dt2[y] \in Clients
             /\ ap2[f] = NULL => L2[f] = <<>>
  <2>1. f \in Lists /\ (f = l => ap2[f] # NULL /\ d \in Clients)
      BY DEF Lists, Fits
  <2>2. ASSUME NEW y \in ToSet(L2[f]) PROVE dt2[y] \in Clients
    <3>1. CASE y = x
      <4>1. f = l
          BY <1>3, <1>7, <2>1, <3>1
      <4> QED
          BY <1>5, <2>1, <3>1, <4>1
    <3>2. CASE y # x
      <4>1. y \in ToSet(L[f]) /\ dt2[y] = dt[y]
          BY <1>3, <1>5, <1>7, <2>1, <3>2
      <4> QED
          BY <4>1 DEF Filled
    <3> QED
        BY <3>1, <3>2
  <2>3. ap2[f] = NULL => L2[f] = <<>>
      BY <1>4, <2>1 DEF Renamed
  <2> QED
      BY <2>2, <2>3
<1>10. ASSUME NEW y \in us \cup {x}, \A m \in Lists : y \notin ToSet(L2[m])
       PROVE  dt2[y] \in Clients
  <2>1. y # x /\ \A m \in Lists : y \notin ToSet(L[m])
      BY <1>3, <1>10
  <2>2. y \in us /\ dt[y] \in Clients
      BY <2>1 DEF Filled
  <2> QED
      BY <1>5, <2>1, <2>2
<1>11. Filled(L2, dt2, ap2, us \cup {x})
    BY <1>8, <1>9, <1>10 DEF Filled
<1> QED
    BY <1>11 DEF L2, dt2
(* A cell of a bucket that leaves its list is freed; of the lists of       *)
(* clients it may stay, lost.                                              *)
LEMMA FilledRemove ==
    ASSUME NEW L, NEW hd, NEW nx, NEW pv, NEW us, Shaped(L, hd, nx, pv, us), us \subseteq Cells,
           NEW dt, NEW ap, Filled(L, dt, ap, us),
           NEW l \in Lists, NEW i \in 1 .. Len(L[l]),
           NEW free \in SUBSET {L[l][i]}, l \in Buckets => free = {L[l][i]}
    PROVE  Filled([L EXCEPT ![l] = RemoveAt(L[l], i)],
                  [y \in Cells |-> IF y \in free THEN NULL ELSE dt[y]], ap, us \ free)
<1> DEFINE x == L[l][i]
           L2 == [L EXCEPT ![l] = RemoveAt(L[l], i)]
           dt2 == [y \in Cells |-> IF y \in free THEN NULL ELSE dt[y]]
<1>1. /\ L \in [Lists -> Seq(Cells)]
      /\ \A m \in Lists : ToSet(L[m]) \subseteq us /\ ToSet(L[m]) \subseteq Cells
      /\ Follows(hd[l], nx, pv, L[l])
    BY DEF Shaped
<1>2. ToSet(RemoveAt(L[l], i)) = ToSet(L[l]) \ {x} /\ x \in ToSet(L[l])
  <2>1. L[l] \in Seq(Cells) /\ IsInjective(L[l])
      BY <1>1 DEF Follows
  <2>2. x \in ToSet(L[l])
      BY <2>1, ElementsOfSeq
  <2> QED
      BY <2>1, <2>2, RemoveAtInjective
<1>3. \A m \in Lists : ToSet(L2[m]) = IF m = l THEN ToSet(L[l]) \ {x} ELSE ToSet(L[m])
    BY <1>1, <1>2
<1>4. \A m \in Lists : m # l => L2[m] = L[m]
    BY <1>1
<1>5. \A y \in Cells : y # x => dt2[y] = dt[y]
    OBVIOUS
<1>6. x \notin free => \A y \in Cells : dt2[y] = dt[y]
    OBVIOUS
<1> HIDE DEF L2, dt2
<1>7. \A m \in Lists : m # l => x \notin ToSet(L[m])
    BY <1>2 DEF Shaped
<1>8. ASSUME NEW m \in Lists, NEW y \in ToSet(L2[m])
      PROVE  y \in ToSet(L[m]) /\ dt2[y] = dt[y]
  <2>1. y \in ToSet(L[m]) /\ y # x
      BY <1>3, <1>7, <1>8
  <2> QED
      BY <1>1, <1>5, <2>1
<1>9. ASSUME NEW b \in Buckets, NEW y \in ToSet(L2[b])
      PROVE  dt2[y] \in FileIds /\ ap[dt2[y]] # NULL /\ Pos[ap[dt2[y]]] = b
  <2>1. y \in ToSet(L[b]) /\ dt2[y] = dt[y]
      BY <1>8, <1>9 DEF Lists
  <2> QED
      BY <2>1 DEF Filled
<1>10. ASSUME NEW f \in FileIds
       PROVE  /\ \A y \in ToSet(L2[f]) : dt2[y] \in Clients
              /\ ap[f] = NULL => L2[f] = <<>>
  <2>1. ASSUME NEW y \in ToSet(L2[f]) PROVE dt2[y] \in Clients
    <3>1. y \in ToSet(L[f]) /\ dt2[y] = dt[y]
        BY <1>8, <2>1 DEF Lists
    <3> QED
        BY <3>1 DEF Filled
  <2>2. ap[f] = NULL => L2[f] = <<>>
    <3>1. ap[f] = NULL => L[f] = <<>>
        BY DEF Filled
    <3>2. L[l] # <<>>
      <4>1. Len(<<>>) = 0
          BY EmptySeq
      <4> SUFFICES ASSUME L[l] = <<>> PROVE FALSE
          OBVIOUS
      <4> QED
          BY <4>1
    <3>3. f \in Lists
        BY DEF Lists
    <3> QED
        BY <1>4, <3>1, <3>2, <3>3
  <2> QED
      BY <2>1, <2>2
<1>11. ASSUME NEW y \in us \ free, \A m \in Lists : y \notin ToSet(L2[m])
       PROVE  dt2[y] \in Clients
  <2>1. CASE y = x
    <3>1. x \notin free /\ l \notin Buckets /\ l \in FileIds
        BY <2>1 DEF Lists
    <3>2. dt[x] \in Clients
        BY <1>2, <3>1 DEF Filled
    <3>3. y \in Cells
        OBVIOUS
    <3> QED
        BY <1>6, <2>1, <3>1, <3>2, <3>3
  <2>2. CASE y # x
    <3>1. \A m \in Lists : y \notin ToSet(L[m])
        BY <1>3, <1>11, <2>2
    <3>2. dt[y] \in Clients
        BY <3>1 DEF Filled
    <3> QED
        BY <1>5, <2>2, <3>2
  <2> QED
      BY <2>1, <2>2
<1>12. Filled(L2, dt2, ap, us \ free)
    BY <1>9, <1>10, <1>11 DEF Filled
<1> QED
    BY <1>12 DEF L2, dt2

(* fileFree: no bucket leads to the record any more.                       *)
LEMMA FilledClear ==
    ASSUME NEW L, NEW hd, NEW nx, NEW pv, NEW us, Shaped(L, hd, nx, pv, us), us \subseteq Cells,
           NEW dt, NEW ap, Filled(L, dt, ap, us), NEW f \in FileIds,
           \A b \in Buckets : \A y \in ToSet(L[b]) : dt[y] # f,
           NEW ap2, \A g \in FileIds : g # f => ap2[g] = ap[g]
    PROVE  Filled([L EXCEPT ![f] = <<>>],
                  [y \in Cells |-> IF y \in ToSet(L[f]) THEN NULL ELSE dt[y]], ap2, us \ ToSet(L[f]))
<1> DEFINE L2 == [L EXCEPT ![f] = <<>>]
           dt2 == [y \in Cells |-> IF y \in ToSet(L[f]) THEN NULL ELSE dt[y]]
<1>1. /\ L \in [Lists -> Seq(Cells)]
      /\ \A m \in Lists : ToSet(L[m]) \subseteq us /\ ToSet(L[m]) \subseteq Cells
      /\ f \in Lists
    BY DEF Shaped, Lists
<1>2. ToSet(<<>>) = {}
  <2>1. DOMAIN <<>> = {}
      OBVIOUS
  <2> QED
      BY <2>1 DEF ToSet
<1>3. L2[f] = <<>> /\ \A m \in Lists : m # f => L2[m] = L[m]
    BY <1>1
<1>4. \A y \in Cells : y \notin ToSet(L[f]) => dt2[y] = dt[y]
    OBVIOUS
<1> HIDE DEF L2, dt2
<1>5. ASSUME NEW m \in Lists, m # f PROVE \A y \in ToSet(L2[m]) : y \in ToSet(L[m]) /\ dt2[y] = dt[y]
  <2>1. ToSet(L[m]) \cap ToSet(L[f]) = {}
      BY <1>1, <1>5 DEF Shaped
  <2>2. L2[m] = L[m]
      BY <1>3, <1>5
  <2> QED
      BY <1>1, <1>4, <2>1, <2>2
<1>6. ASSUME NEW b \in Buckets, NEW y \in ToSet(L2[b])
      PROVE  dt2[y] \in FileIds /\ ap2[dt2[y]] # NULL /\ Pos[ap2[dt2[y]]] = b
  <2>1. b \in Lists /\ b # f
      BY HashTableAssumption DEF Lists
  <2>2. y \in ToSet(L[b]) /\ dt2[y] = dt[y]
      BY <1>5, <1>6, <2>1
  <2>3. dt[y] \in FileIds /\ ap[dt[y]] # NULL /\ Pos[ap[dt[y]]] = b /\ dt[y] # f
      BY <2>2 DEF Filled
  <2> QED
      BY <2>2, <2>3
<1>7. ASSUME NEW g \in FileIds
      PROVE  /\ \A y \in ToSet(L2[g]) : dt2[y] \in Clients
             /\ ap2[g] = NULL => L2[g] = <<>>
  <2>1. CASE g = f
      BY <1>2, <1>3, <2>1
  <2>2. CASE g # f
    <3>1. g \in Lists /\ L2[g] = L[g] /\ ap2[g] = ap[g]
        BY <1>3, <2>2 DEF Lists
    <3>2. \A y \in ToSet(L2[g]) : y \in ToSet(L[g]) /\ dt2[y] = dt[y]
        BY <1>5, <2>2, <3>1
    <3> QED
        BY <3>1, <3>2 DEF Filled
  <2> QED
      BY <2>1, <2>2
<1>8. ASSUME NEW y \in us \ ToSet(L[f]), \A m \in Lists : y \notin ToSet(L2[m])
      PROVE  dt2[y] \in Clients
  <2>1. \A m \in Lists : y \notin ToSet(L[m])
      BY <1>3, <1>8
  <2>2. dt[y] \in Clients
      BY <2>1 DEF Filled
  <2> QED
      BY <1>4, <2>2
<1>9. Filled(L2, dt2, ap2, us \ ToSet(L[f]))
    BY <1>6, <1>7, <1>8 DEF Filled
<1> QED
    BY <1>9 DEF L2, dt2

-----------------------------------------------------------------------------
(* The invariant.                                                          *)

(* At the start every list is empty.                                        *)
LEMMA HashInitInv == HashInit => HashInv
<1> SUFFICES ASSUME HashInit PROVE HashInv
    OBVIOUS
<1> DEFINE L == [l \in Lists |-> <<>>]
<1>1. /\ head = [l \in Lists |-> NULL]
      /\ next = [x \in Cells |-> NULL]
      /\ prev = [x \in Cells |-> NULL]
      /\ data = [x \in Cells |-> NULL]
      /\ used = {}
      /\ abspath = [f \in FileIds |-> NULL]
    BY DEF HashInit
<1>2. Typed(head, next, prev, data, used, abspath)
    BY <1>1 DEF Typed, Pointers
<1>3. \A l \in Lists : L[l] = <<>>
    OBVIOUS
<1>4. L \in [Lists -> Seq(Cells)]
    OBVIOUS
<1> HIDE DEF L
<1>5. /\ Len(<<>>) = 0 /\ DOMAIN <<>> = {} /\ IsInjective(<<>>)
      /\ ToSet(<<>>) = {} /\ At(<<>>, 1) = NULL /\ <<>> \in Seq(Cells)
  <2>1. DOMAIN <<>> = {}
      OBVIOUS
  <2>2. Len(<<>>) = 0 /\ <<>> \in Seq(Cells)
      BY EmptySeq
  <2> QED
      BY <2>1, <2>2 DEF IsInjective, ToSet, At
<1>6. Shaped(L, head, next, prev, used)
  <2>1. \A i \in 1 .. Len(<<>>) : FALSE
      BY <1>5
  <2>2. ASSUME NEW l \in Lists PROVE Follows(head[l], next, prev, L[l]) /\ ToSet(L[l]) \subseteq used
      BY <1>1, <1>3, <1>5, <2>1 DEF Follows
  <2> QED
      BY <1>3, <1>4, <1>5, <2>2 DEF Shaped
<1>7. AllLists = L
    BY <1>6, ListsFound
<1>8. Filled(L, data, abspath, used)
  <2>1. \A l \in Buckets : ToSet(L[l]) = {}
      BY <1>3, <1>5 DEF Lists
  <2>2. \A f \in FileIds : L[f] = <<>> /\ ToSet(L[f]) = {}
      BY <1>3, <1>5 DEF Lists
  <2> QED
      BY <1>1, <2>1, <2>2 DEF Filled
<1> QED
    BY <1>2, <1>6, <1>7, <1>8 DEF HashInv

(* hashTbAdd takes a record that is not in use and has no cells.           *)
WithRecord(n, f, x) ==
    /\ x \in Cells \ used /\ f \notin Records
    /\ abspath' = [abspath EXCEPT ![f] = n]
    /\ data' = [data EXCEPT ![x] = f]
    /\ AllLists' = [AllLists EXCEPT ![Pos[n]] = <<x>> \o AllLists[Pos[n]]]
    /\ HashInv'

(* What hashTbAdd does to the lists.                                        *)
LEMMA AddStep ==
    ASSUME HashInv, NEW n \in Names, NEW f \in FileIds, hashTbAdd(n, f)
    PROVE  \E x : WithRecord(n, f, x)
<1> DEFINE b == Pos[n]
<1>1. /\ f = Min(FileIds \ Records) /\ FileIds # Records
      /\ abspath' = [abspath EXCEPT ![f] = n]
      /\ DL_ListAdd(b, f)
    BY DEF hashTbAdd
<1>2. /\ Typed(head, next, prev, data, used, abspath)
      /\ Shaped(AllLists, head, next, prev, used)
      /\ Filled(AllLists, data, abspath, used)
      /\ data \in [Cells -> FileIds \cup Clients \cup {NULL}] /\ used \subseteq Cells
      /\ abspath \in [FileIds -> Names \cup {NULL}]
    BY DEF HashInv, Typed
<1>3. b \in Buckets /\ b \in Lists /\ n # NULL /\ b \notin FileIds
    BY HashTableAssumption DEF Lists
<1>4. f \notin Records /\ abspath[f] = NULL
  <2>1. FileIds \ Records # {}
      BY <1>1 DEF Records
  <2>2. FileIds \ Records \in SUBSET Nat
    <3>1. \A y \in FileIds \ Records : y \in Nat
        BY HashTableAssumption
    <3> QED
        BY <3>1
  <2>3. \E g \in FileIds \ Records : \A y \in FileIds \ Records : g =< y
      BY <2>1, <2>2, NatLeast
  <2>4. f \in FileIds \ Records
      BY <1>1, <2>3 DEF Min
  <2> QED
      BY <2>4 DEF Records
<1>5. PICK x \in Cells \ used :
          /\ Shaped([AllLists EXCEPT ![b] = <<x>> \o AllLists[b]], head', next', prev', used')
          /\ used' = used \cup {x} /\ data' = [data EXCEPT ![x] = f]
          /\ Typed(head', next', prev', data', used', abspath)
  <2> HIDE DEF b
  <2> QED
      BY <1>1, <1>3, AddEffect
<1>6. AllLists' = [AllLists EXCEPT ![b] = <<x>> \o AllLists[b]]
    BY <1>5, ListsFoundNext
<1>7. Typed(head', next', prev', data', used', abspath')
  <2>1. abspath' \in [FileIds -> Names \cup {NULL}]
      BY <1>1, <1>2
  <2> QED
      BY <1>5, <2>1 DEF Typed
<1>8. Fits(b, f, abspath') /\ Renamed(AllLists, abspath, abspath')
  <2>1. abspath'[f] = n /\ \A g \in FileIds : g # f => abspath'[g] = abspath[g]
      BY <1>1, <1>2
  <2>2. Fits(b, f, abspath')
      BY <1>3, <2>1 DEF Fits
  <2>3. \A g \in FileIds : abspath[g] = NULL => AllLists[g] = <<>>
      BY <1>2 DEF Filled
  <2>4. Renamed(AllLists, abspath, abspath')
      BY <1>3, <1>4, <2>1, <2>3 DEF Renamed
  <2> QED
      BY <2>2, <2>4
<1>9. Filled([AllLists EXCEPT ![b] = <<x>> \o AllLists[b]], data', abspath', used')
  <2> HIDE DEF b
  <2>1. Filled([AllLists EXCEPT ![b] = <<x>> \o AllLists[b]], [data EXCEPT ![x] = f],
               abspath', used \cup {x})
      BY <1>2, <1>3, <1>8, FilledAdd
  <2> QED
      BY <1>5, <2>1
<1>10. HashInv'
    BY <1>5, <1>6, <1>7, <1>9 DEF HashInv
<1> QED
    BY <1>1, <1>4, <1>5, <1>6, <1>10 DEF WithRecord
(* The i-th cell of a bucket leaves it and is freed.                       *)
Leaves(b, i) ==
    LET x == AllLists[b][i]
    IN  i \in 1 .. Len(AllLists[b]) /\ Becomes(Without(b, x), {x}, {x}) /\ abspath' = abspath

HasLeft(b, i) ==
    /\ \A y \in Cells : y # AllLists[b][i] => data'[y] = data[y]
    /\ AllLists' = [AllLists EXCEPT ![b] = RemoveAt(AllLists[b], i)]
    /\ HashInv'

(* What is left when a cell leaves a bucket.                                *)
LEMMA BucketStep ==
    ASSUME HashInv, NEW b \in Buckets, NEW i, Leaves(b, i)
    PROVE  HasLeft(b, i)
<1> DEFINE x == AllLists[b][i]
<1>0. i \in 1 .. Len(AllLists[b]) /\ Becomes(Without(b, x), {x}, {x}) /\ abspath' = abspath
    BY DEF Leaves
<1>1. /\ Shaped(AllLists, head, next, prev, used) /\ used \subseteq Cells
      /\ Filled(AllLists, data, abspath, used)
    BY DEF HashInv, Typed
<1>2. b \in Lists
    BY DEF Lists
<1>3. /\ Shaped([AllLists EXCEPT ![b] = RemoveAt(AllLists[b], i)], head', next', prev', used')
      /\ used' = used \ {x}
      /\ data' = [y \in Cells |-> IF y \in {x} THEN NULL ELSE data[y]]
      /\ Typed(head', next', prev', data', used', abspath)
  <2>1. {x} \in SUBSET {x}
      OBVIOUS
  <2> QED
      BY <1>0, <1>2, <2>1, RemoveEffect
<1>4. AllLists' = [AllLists EXCEPT ![b] = RemoveAt(AllLists[b], i)]
    BY <1>3, ListsFoundNext
<1>5. Filled([AllLists EXCEPT ![b] = RemoveAt(AllLists[b], i)], data', abspath', used')
  <2>1. {x} \in SUBSET {AllLists[b][i]} /\ (b \in Buckets => {x} = {AllLists[b][i]})
      OBVIOUS
  <2> DEFINE free == {x}
  <2> HIDE DEF free
  <2>2. Filled([AllLists EXCEPT ![b] = RemoveAt(AllLists[b], i)],
                  [y \in Cells |-> IF y \in free THEN NULL ELSE data[y]], abspath, used \ free)
      BY <1>0, <1>1, <1>2, <2>1, FilledRemove DEF free
  <2> QED
      BY <1>0, <1>3, <2>2 DEF free
<1> QED
  <2>1. HashInv'
      BY <1>0, <1>3, <1>4, <1>5 DEF HashInv
  <2>2. \A y \in Cells : y # x => data'[y] = data[y]
      BY <1>3
  <2> QED
      BY <1>4, <2>1, <2>2 DEF HasLeft

(* hashTbSearch takes out the first cell of its bucket whose record has    *)
(* the name.                                                               *)
WithoutName(b, n, i) ==
    LET x == AllLists[b][i]
    IN  /\ i \in 1 .. Len(AllLists[b])
        /\ abspath[data[x]] = n
        /\ \A j \in 1 .. i - 1 : abspath[data[AllLists[b][j]]] # n
        /\ taken' = taken \cup {<<n, data[x]>>}
        /\ abspath' = abspath
        /\ HasLeft(b, i)

(* What hashTbRemove does to the lists.                                     *)
LEMMA RemoveStep ==
    ASSUME HashInv, NEW n \in Names, hashTbRemove(n)
    PROVE  \E i : WithoutName(Pos[n], n, i)
<1> DEFINE b == Pos[n]
           s == AllLists[b]
           x == FirstCell(b, holds(n))
<1>1. /\ x # NULL /\ Becomes(Without(b, x), {x}, {x})
      /\ taken' = taken \cup {<<n, data[x]>>} /\ abspath' = abspath
    BY DEF hashTbRemove
<1>2. b \in Buckets /\ b \in Lists
    BY HashTableAssumption DEF Lists
<1> HIDE DEF b, x
<1>3. PICK i \in 1 .. Len(s) : /\ x = s[i] /\ s[i] \in holds(n)
                              /\ \A j \in 1 .. i - 1 : s[j] \notin holds(n)
    BY <1>1, <1>2, FirstCellFound DEF x
<1>4. /\ s \in Seq(Cells) /\ Len(s) \in Nat
      /\ \A j \in 1 .. Len(s) : s[j] \in CellsOf(b)
  <2>1. s \in Seq(Cells) /\ CellsOf(b) = { s[j] : j \in 1 .. Len(s) }
      BY <1>2, InvLists
  <2> QED
      BY <2>1, LenProperties
<1>5. abspath[data[x]] = n /\ \A j \in 1 .. i - 1 : abspath[data[s[j]]] # n
  <2>1. \A y \in CellsOf(b) : y \in holds(n) <=> abspath[data[y]] = n
      BY DEF holds, b
  <2>2. \A j \in 1 .. i - 1 : j \in 1 .. Len(s)
      BY <1>4
  <2> QED
      BY <1>3, <1>4, <2>1, <2>2
<1>6. HasLeft(b, i)
  <2>1. Leaves(b, i)
      BY <1>1, <1>3 DEF Leaves
  <2> QED
      BY <1>2, <2>1, BucketStep
<1>7. WithoutName(b, n, i)
  <2>1. abspath[data[s[i]]] = n /\ taken' = taken \cup {<<n, data[s[i]]>>}
      BY <1>1, <1>3, <1>5
  <2> QED
      BY <1>1, <1>5, <1>6, <2>1 DEF WithoutName
<1> QED
    BY <1>7 DEF b

(* hashTbDestroy takes the first cell of a bucket, and with it a name.     *)
LEMMA DestroyStep ==
    ASSUME HashInv, hashTbDestroy
    PROVE  \E b \in Buckets : \E n \in Names : Pos[n] = b /\ WithoutName(b, n, 1)
<1>1. PICK b \in Buckets : /\ head[b] # NULL
                           /\ Becomes(withoutHead(b), {head[b]}, {head[b]})
                           /\ taken' = taken \cup {<<abspath[data[head[b]]], data[head[b]]>>}
    BY DEF hashTbDestroy
<1>2. abspath' = abspath
    BY DEF hashTbDestroy
<1>3. /\ head[b] = At(AllLists[b], 1) /\ AllLists[b] \in Seq(Cells)
      /\ Filled(AllLists, data, abspath, used)
      /\ abspath \in [FileIds -> Names \cup {NULL}]
    BY DEF HashInv, Shaped, Follows, Lists, Typed
<1>4. 1 \in 1 .. Len(AllLists[b]) /\ head[b] = AllLists[b][1]
    BY <1>1, <1>3 DEF At
<1>5. HasLeft(b, 1)
  <2>1. Becomes(Without(b, head[b]), {head[b]}, {head[b]})
      BY <1>1 DEF Without
  <2>2. Leaves(b, 1)
      BY <1>2, <1>4, <2>1 DEF Leaves
  <2> QED
      BY <2>2, BucketStep
<1> DEFINE n == abspath[data[head[b]]]
<1>6. n \in Names /\ Pos[n] = b
  <2>1. head[b] \in ToSet(AllLists[b])
      BY <1>3, <1>4, ElementsOfSeq
  <2>2. data[head[b]] \in FileIds /\ n # NULL /\ Pos[n] = b
      BY <1>3, <2>1 DEF Filled
  <2> QED
      BY <1>3, <2>2
<1>7. WithoutName(b, n, 1)
  <2>1. abspath[data[AllLists[b][1]]] = n /\ taken' = taken \cup {<<n, data[AllLists[b][1]]>>}
      BY <1>1, <1>4
  <2>2. \A j \in 1 .. 1 - 1 : FALSE
      OBVIOUS
  <2> HIDE DEF n
  <2> QED
      BY <1>2, <1>4, <1>5, <2>1, <2>2 DEF WithoutName
<1> QED
    BY <1>6, <1>7

(* fileFree of a record no bucket leads to.                                *)
LEMMA FreeStep ==
    ASSUME HashInv, NEW f \in FileIds, fileFree(f)
    PROVE  /\ f \in Records \ Entries
           /\ data' = [y \in Cells |-> IF y \in ToSet(AllLists[f]) THEN NULL ELSE data[y]]
           /\ abspath' = [abspath EXCEPT ![f] = NULL]
           /\ AllLists' = [AllLists EXCEPT ![f] = <<>>]
           /\ HashInv'
<1>1. /\ f \in Records \ Entries
      /\ Becomes([head |-> [head EXCEPT ![f] = NULL], next |-> next, prev |-> prev],
                 CellsOf(f), CellsOf(f))
      /\ abspath' = [abspath EXCEPT ![f] = NULL]
    BY DEF fileFree
<1>2. /\ Shaped(AllLists, head, next, prev, used) /\ used \subseteq Cells
      /\ Filled(AllLists, data, abspath, used)
      /\ abspath \in [FileIds -> Names \cup {NULL}]
    BY DEF HashInv, Typed
<1>3. /\ Shaped([AllLists EXCEPT ![f] = <<>>], head', next', prev', used')
      /\ used' = used \ ToSet(AllLists[f])
      /\ data' = [y \in Cells |-> IF y \in ToSet(AllLists[f]) THEN NULL ELSE data[y]]
      /\ Typed(head', next', prev', data', used', abspath)
    BY <1>1, ClearEffect
<1>4. AllLists' = [AllLists EXCEPT ![f] = <<>>]
    BY <1>3, ListsFoundNext
<1>5. Typed(head', next', prev', data', used', abspath')
  <2>1. abspath' \in [FileIds -> Names \cup {NULL}]
      BY <1>1, <1>2
  <2> QED
      BY <1>3, <2>1 DEF Typed
<1>6. Filled([AllLists EXCEPT ![f] = <<>>], data', abspath', used')
  <2>1. \A b \in Buckets : \A y \in ToSet(AllLists[b]) : data[y] # f
    <3> SUFFICES ASSUME NEW b \in Buckets, NEW y \in ToSet(AllLists[b]) PROVE data[y] # f
        OBVIOUS
    <3>1. CellsOf(b) = ToSet(AllLists[b])
        BY InvLists DEF Lists
    <3>2. data[y] \in Entries
        BY <3>1 DEF Entries
    <3> QED
        BY <1>1, <3>2
  <2>2. \A g \in FileIds : g # f => abspath'[g] = abspath[g]
      BY <1>1, <1>2
  <2>3. Filled([AllLists EXCEPT ![f] = <<>>],
                  [y \in Cells |-> IF y \in ToSet(AllLists[f]) THEN NULL ELSE data[y]],
                  abspath', used \ ToSet(AllLists[f]))
      BY <1>2, <2>1, <2>2, FilledClear
  <2> QED
      BY <1>3, <2>3
<1> QED
    BY <1>1, <1>3, <1>4, <1>5, <1>6 DEF HashInv

(* A client in front of the list of a record.                              *)
WithClient(f, c, x) ==
    /\ x \in Cells \ used /\ f \in Records
    /\ abspath' = abspath
    /\ data' = [data EXCEPT ![x] = c]
    /\ AllLists' = [AllLists EXCEPT ![f] = <<x>> \o AllLists[f]]
    /\ HashInv'

(* What fileOpen does to the lists.                                         *)
LEMMA OpenStep ==
    ASSUME HashInv, NEW f \in FileIds, NEW c \in Clients, fileOpen(f, c)
    PROVE  \E x : WithClient(f, c, x)
<1>1. f \in Records /\ DL_ListAdd(f, c) /\ abspath' = abspath
    BY DEF fileOpen
<1>2. /\ Shaped(AllLists, head, next, prev, used)
      /\ Filled(AllLists, data, abspath, used)
      /\ data \in [Cells -> FileIds \cup Clients \cup {NULL}] /\ used \subseteq Cells
    BY DEF HashInv, Typed
<1>3. f \in Lists /\ f \notin Buckets
    BY HashTableAssumption DEF Lists
<1>4. PICK x \in Cells \ used :
          /\ Shaped([AllLists EXCEPT ![f] = <<x>> \o AllLists[f]], head', next', prev', used')
          /\ used' = used \cup {x} /\ data' = [data EXCEPT ![x] = c]
          /\ Typed(head', next', prev', data', used', abspath)
    BY <1>1, <1>3, AddEffect
<1>5. AllLists' = [AllLists EXCEPT ![f] = <<x>> \o AllLists[f]]
    BY <1>4, ListsFoundNext
<1>6. Fits(f, c, abspath) /\ Renamed(AllLists, abspath, abspath)
  <2>1. Fits(f, c, abspath)
      BY <1>1, <1>3 DEF Fits, Records
  <2>2. Renamed(AllLists, abspath, abspath)
      BY <1>2 DEF Renamed, Filled
  <2> QED
      BY <2>1, <2>2
<1>7. Filled([AllLists EXCEPT ![f] = <<x>> \o AllLists[f]], data', abspath', used')
  <2>1. Filled([AllLists EXCEPT ![f] = <<x>> \o AllLists[f]], [data EXCEPT ![x] = c],
               abspath, used \cup {x})
      BY <1>2, <1>3, <1>6, FilledAdd
  <2> QED
      BY <1>1, <1>4, <2>1
<1> QED
  <2>1. HashInv'
      BY <1>1, <1>4, <1>5, <1>7 DEF HashInv
  <2> QED
      BY <1>1, <1>4, <1>5, <2>1 DEF WithClient

(* A client out of the list of a record.                                   *)
WithoutClient(f, c, i) ==
    /\ i \in 1 .. Len(AllLists[f]) /\ f \in Records
    /\ data[AllLists[f][i]] = c
    /\ abspath' = abspath
    /\ HasLeft(f, i)

(* What clientPidDelete does to the lists.                                  *)
LEMMA CloseStep ==
    ASSUME HashInv, NEW f \in FileIds, NEW c \in Clients, clientPidDelete(f, c)
    PROVE  \E i : WithoutClient(f, c, i)
<1> DEFINE x == FirstCell(f, { y \in CellsOf(f) : data[y] = c })
           free == IF x = head[f] /\ next[x] # NULL THEN {} ELSE {x}
           s == AllLists[f]
<1>1. f \in Records /\ x # NULL /\ Becomes(Without(f, x), {x}, free) /\ abspath' = abspath
    BY DEF clientPidDelete
<1>2. /\ Shaped(AllLists, head, next, prev, used) /\ used \subseteq Cells
      /\ Filled(AllLists, data, abspath, used)
    BY DEF HashInv, Typed
<1>3. f \in Lists /\ f \notin Buckets
    BY HashTableAssumption DEF Lists
<1>4. PICK i \in 1 .. Len(s) : x = s[i] /\ data[x] = c
  <2> DEFINE Hits == { y \in CellsOf(f) : data[y] = c }
  <2> HIDE DEF Hits
  <2>1. \E i \in 1 .. Len(AllLists[f]) : x = AllLists[f][i] /\ AllLists[f][i] \in Hits
      BY <1>1, <1>3, FirstCellFound DEF Hits
  <2> QED
      BY <2>1 DEF Hits
<1>5. free \in SUBSET {x}
    OBVIOUS
<1> HIDE DEF x, free
<1>6. /\ Shaped([AllLists EXCEPT ![f] = RemoveAt(s, i)], head', next', prev', used')
      /\ used' = used \ free
      /\ data' = [y \in Cells |-> IF y \in free THEN NULL ELSE data[y]]
      /\ Typed(head', next', prev', data', used', abspath)
    BY <1>1, <1>3, <1>4, <1>5, RemoveEffect
<1>7. AllLists' = [AllLists EXCEPT ![f] = RemoveAt(s, i)]
    BY <1>6, ListsFoundNext
<1>8. Filled([AllLists EXCEPT ![f] = RemoveAt(s, i)], data', abspath', used')
  <2>1. free \in SUBSET {AllLists[f][i]} /\ (f \in Buckets => free = {AllLists[f][i]})
      BY <1>3, <1>4, <1>5
  <2>2. Filled([AllLists EXCEPT ![f] = RemoveAt(AllLists[f], i)],
                  [y \in Cells |-> IF y \in free THEN NULL ELSE data[y]], abspath, used \ free)
      BY <1>2, <1>3, <2>1, FilledRemove
  <2> QED
      BY <1>1, <1>6, <2>2
<1>9. HashInv'
    BY <1>1, <1>6, <1>7, <1>8 DEF HashInv
<1> QED
  <2>1. HasLeft(f, i)
    <3>1. \A y \in Cells : y # s[i] => data'[y] = data[y]
        BY <1>4, <1>5, <1>6
    <3> QED
        BY <1>7, <1>9, <3>1 DEF HasLeft
  <2> QED
      BY <1>1, <1>4, <2>1 DEF WithoutClient

(* The invariant of the lists is inductive.                                 *)
LEMMA HashStep == HashInv /\ [HashNext]_hashVars => HashInv'
<1> SUFFICES ASSUME HashInv, [HashNext]_hashVars PROVE HashInv'
    OBVIOUS
<1>1. ASSUME NEW n \in Names, hashTbRemove(n) PROVE HashInv'
    BY <1>1, RemoveStep DEF WithoutName, HasLeft
<1>2. ASSUME NEW n \in Names, NEW f \in FileIds, hashTbAdd(n, f) PROVE HashInv'
    BY <1>2, AddStep DEF WithRecord
<1>3. ASSUME NEW f \in FileIds, fileFree(f) PROVE HashInv'
    BY <1>3, FreeStep
<1>4. ASSUME NEW f \in FileIds, NEW c \in Clients, fileOpen(f, c) PROVE HashInv'
    BY <1>4, OpenStep DEF WithClient
<1>5. ASSUME NEW f \in FileIds, NEW c \in Clients, clientPidDelete(f, c) PROVE HashInv'
    BY <1>5, CloseStep DEF WithoutClient, HasLeft
<1>6. ASSUME /\ head' = head /\ next' = next /\ prev' = prev /\ data' = data
             /\ used' = used /\ abspath' = abspath
      PROVE  HashInv'
    BY <1>6 DEF HashInv, AllLists, Chain
<1>7. CASE memoryClean
    BY <1>6, <1>7 DEF memoryClean
<1>8. CASE hashTbDestroy
    BY <1>8, DestroyStep DEF WithoutName, HasLeft
<1>9. CASE UNCHANGED hashVars
    BY <1>6, <1>9 DEF hashVars
<1> QED
    BY <1>1, <1>2, <1>3, <1>4, <1>5, <1>7, <1>8, <1>9 DEF HashNext

(* HashInv gives what the runs check.                                      *)
LEMMA InvLinked == HashInv => ListsLinked
<1> SUFFICES ASSUME HashInv PROVE ListsLinked
    OBVIOUS
<1>1. /\ Shaped(AllLists, head, next, prev, used)
      /\ Filled(AllLists, data, abspath, used)
    BY DEF HashInv
<1>2. InUse \subseteq Lists
    BY DEF InUse, Lists, Records
<1>3. ASSUME NEW l \in Lists
      PROVE  /\ Len(Chain(l)) <= Cardinality(Cells)
             /\ CellsOf(l) \subseteq used
             /\ \A i \in DOMAIN Chain(l) :
                   prev[Chain(l)[i]] = IF i = 1 THEN NULL ELSE Chain(l)[i - 1]
  <2> DEFINE s == AllLists[l]
  <2>1. Chain(l) = s /\ CellsOf(l) \subseteq used
      BY InvLists
  <2>2. Follows(head[l], next, prev, s)
      BY <1>1 DEF Shaped
  <2>3. Len(s) \in Nat /\ Len(s) <= Cardinality(Cells) /\ DOMAIN s = 1 .. Len(s)
      BY <2>2, FollowsLength
  <2>4. ASSUME NEW i \in 1 .. Len(s) PROVE prev[s[i]] = IF i = 1 THEN NULL ELSE s[i - 1]
    <3>1. prev[s[i]] = At(s, i - 1)
        BY <2>2 DEF Follows
    <3>2. i - 1 \in 1 .. Len(s) <=> i # 1
        BY <2>3
    <3> QED
        BY <3>1, <3>2 DEF At
  <2> QED
      BY <2>1, <2>3, <2>4
<1>4. ASSUME NEW l \in Lists, NEW m \in Lists, l # m PROVE CellsOf(l) \cap CellsOf(m) = {}
    BY <1>4, InvLists
<1>5. ASSUME NEW x \in used \ Reached PROVE data[x] \in Clients
  <2>1. ASSUME NEW l \in Lists PROVE x \notin ToSet(AllLists[l])
    <3>1. CASE l \in InUse
      <4>1. CellsOf(l) \subseteq Reached
          BY <3>1 DEF Reached
      <4> QED
          BY <1>5, <4>1, InvLists
    <3>2. CASE l \notin InUse
      <4>1. l \in FileIds /\ abspath[l] = NULL
          BY <3>2 DEF InUse, Lists, Records
      <4>2. AllLists[l] = <<>>
          BY <1>1, <4>1 DEF Filled
      <4>3. DOMAIN <<>> = {}
          OBVIOUS
      <4> QED
          BY <4>2, <4>3 DEF ToSet
    <3> QED
        BY <3>1, <3>2
  <2> QED
      BY <1>1, <2>1 DEF Filled
<1> QED
    BY <1>2, <1>3, <1>4, <1>5 DEF ListsLinked

(* Whatever cells are added and removed, every list in use is doubly       *)
(* linked over cells that are allocated and that no other list reaches,    *)
(* and the only cells lost are cells of clients: the links are right in    *)
(* the header's sense (FileMemory.h) for any number of buckets and cells.  *)
THEOREM ListsStayLinked == HashSpec => []ListsLinked
<1>1. HashInit => HashInv
    BY HashInitInv
<1>2. HashInv /\ [HashNext]_hashVars => HashInv'
    BY HashStep
<1>3. HashInv => ListsLinked
    BY InvLinked
<1> QED
    BY <1>1, <1>2, <1>3, PTL DEF HashSpec

-----------------------------------------------------------------------------
(* The lists are the table.                                                *)

(* What a search for n takes of a cell.                                    *)
named(n, dt, ap) == [x \in Cells |-> IF ap[dt[x]] = n THEN <<dt[x]>> ELSE <<>>]

(* Where the cells of a bucket lead.                                       *)
LEMMA BucketFacts ==
    ASSUME HashInv, NEW b \in Buckets
    PROVE  /\ b \in Lists /\ b \notin FileIds
           /\ Follows(head[b], next, prev, AllLists[b])
           /\ \A k \in 1 .. Len(AllLists[b]) :
                 /\ AllLists[b][k] \in Cells /\ AllLists[b][k] \in used
                 /\ data[AllLists[b][k]] \in Records
                 /\ data[AllLists[b][k]] \in Entries
                 /\ Pos[abspath[data[AllLists[b][k]]]] = b
                 /\ AllLists[b][k] \in ToSet(AllLists[b])
<1>1. b \in Lists /\ b \notin FileIds
    BY HashTableAssumption DEF Lists
<1>2. /\ Shaped(AllLists, head, next, prev, used) /\ Filled(AllLists, data, abspath, used)
    BY DEF HashInv
<1>3. Follows(head[b], next, prev, AllLists[b])
    BY <1>1, <1>2 DEF Shaped
<1>4. /\ CellsOf(b) = ToSet(AllLists[b]) /\ ToSet(AllLists[b]) \subseteq used
      /\ ToSet(AllLists[b]) \subseteq Cells
      /\ ToSet(AllLists[b]) = { AllLists[b][k] : k \in 1 .. Len(AllLists[b]) }
    BY <1>1, InvLists
<1>5. \A x \in ToSet(AllLists[b]) :
          data[x] \in FileIds /\ abspath[data[x]] # NULL /\ Pos[abspath[data[x]]] = b
    BY <1>2 DEF Filled
<1>6. \A x \in ToSet(AllLists[b]) : data[x] \in Records /\ data[x] \in Entries
    BY <1>4, <1>5 DEF Records, Entries
<1> QED
    BY <1>1, <1>3, <1>4, <1>5, <1>6

(* What a search for a name meets are records of the table.                *)
LEMMA EntriesType ==
    ASSUME HashInv, NEW n \in Names
    PROVE  entriesOf(n) \in Seq(Entries)
<1> DEFINE b == Pos[n]
           s == AllLists[b]
<1>1. b \in Buckets
    BY HashTableAssumption
<1> HIDE DEF b
<1>2. Follows(head[b], next, prev, s)
    BY <1>1, BucketFacts
<1>3. ASSUME NEW k \in 1 .. Len(s) PROVE named(n, data, abspath)[s[k]] \in Seq(Entries)
  <2>1. s[k] \in Cells /\ data[s[k]] \in Entries
      BY <1>1, BucketFacts
  <2>2. <<data[s[k]]>> \in Seq(Entries) /\ <<>> \in Seq(Entries)
      BY <2>1
  <2> QED
      BY <2>1, <2>2 DEF named
<1>4. Walk(head[b], next, named(n, data, abspath)) \in Seq(Entries)
    BY <1>2, <1>3, WalkType
<1> QED
    BY <1>4 DEF entriesOf, named, b

(* The same after a step.                                                  *)
EntriesTyped == \A n \in Names : entriesOf(n) \in Seq(Entries)

(* What a search meets after a step.                                        *)
LEMMA EntriesTypeNext == HashInv' => \A n \in Names : entriesOf(n)' \in Seq(Entries')
<1>1. HashInv => EntriesTyped
    BY EntriesType DEF EntriesTyped
<1>2. HashInv' => EntriesTyped'
    BY <1>1, PTL
<1> QED
    BY <1>2 DEF EntriesTyped

(* A name whose bucket nothing is done to keeps its records.               *)
LEMMA EntriesFrame ==
    ASSUME HashInv, HashInv', NEW n \in Names, AllLists'[Pos[n]] = AllLists[Pos[n]],
           \A x \in ToSet(AllLists[Pos[n]]) :
               data'[x] = data[x] /\ abspath'[data[x]] = abspath[data[x]]
    PROVE  entriesOf(n)' = entriesOf(n)
<1> DEFINE b == Pos[n]
           s == AllLists[b]
<1>1. b \in Buckets
    BY HashTableAssumption
<1> HIDE DEF b
<1>2. Follows(head[b], next, prev, s)
    BY <1>1, BucketFacts
<1>3. Follows(head'[b], next', prev', s)
  <2>1. Follows(head'[b], next', prev', AllLists'[b])
      BY <1>1 DEF HashInv, Shaped, Lists
  <2> QED
      BY <2>1 DEF b
<1> DEFINE g == named(n, data, abspath)
           e == named(n, data', abspath')
<1>4. ASSUME NEW k \in 1 .. Len(s) PROVE g[s[k]] = e[s[k]]
  <2>1. s[k] \in Cells /\ s[k] \in ToSet(s)
      BY <1>1, BucketFacts
  <2>2. data'[s[k]] = data[s[k]] /\ abspath'[data[s[k]]] = abspath[data[s[k]]]
      BY <2>1 DEF b
  <2> QED
      BY <2>1, <2>2 DEF named
<1>5. Walk(head'[b], next', e) = Walk(head[b], next, g)
  <2> HIDE DEF g, e
  <2> QED
      BY <1>2, <1>3, <1>4, WalkSame
<1> QED
    BY <1>5 DEF entriesOf, named, b

(* hashTbAdd: the new record is the first of its name, and no other name   *)
(* in the bucket is touched.                                               *)
LEMMA AddEntries ==
    ASSUME HashInv, NEW n \in Names, NEW f \in FileIds, hashTbAdd(n, f), NEW m \in Names
    PROVE  entriesOf(m)' = IF m = n THEN <<f>> \o entriesOf(n) ELSE entriesOf(m)
<1> DEFINE b == Pos[n]
           s == AllLists[b]
<1>1. b \in Buckets /\ b \in Lists /\ Pos[m] \in Buckets /\ Pos[m] \in Lists
    BY HashTableAssumption DEF Lists
<1>0. PICK x : WithRecord(n, f, x)
    BY AddStep
<1>2. /\ x \in Cells \ used
      /\ f \notin Records /\ abspath' = [abspath EXCEPT ![f] = n]
      /\ data' = [data EXCEPT ![x] = f]
      /\ AllLists' = [AllLists EXCEPT ![b] = <<x>> \o s]
      /\ HashInv'
    BY <1>0 DEF WithRecord
<1>3. /\ data \in [Cells -> FileIds \cup Clients \cup {NULL}] /\ used \subseteq Cells
      /\ abspath \in [FileIds -> Names \cup {NULL}]
      /\ AllLists \in [Lists -> Seq(Cells)]
    BY DEF HashInv, Typed, Shaped
<1>4. /\ data'[x] = f /\ abspath'[f] = n
      /\ \A y \in Cells : y # x => data'[y] = data[y]
      /\ \A g \in Records : abspath'[g] = abspath[g]
      /\ AllLists'[b] = <<x>> \o s
      /\ \A l \in Lists : l # b => AllLists'[l] = AllLists[l]
  <2>1. \A g \in Records : g \in FileIds /\ g # f
      BY <1>2 DEF Records
  <2> HIDE DEF b, s
  <2> QED
      BY <1>1, <1>2, <1>3, <2>1
<1>5. ASSUME NEW c \in Buckets, NEW k \in 1 .. Len(AllLists[c])
      PROVE  /\ AllLists[c][k] \in Cells /\ AllLists[c][k] \in ToSet(AllLists[c])
             /\ data'[AllLists[c][k]] = data[AllLists[c][k]]
             /\ abspath'[data[AllLists[c][k]]] = abspath[data[AllLists[c][k]]]
  <2>1. /\ AllLists[c][k] \in Cells /\ AllLists[c][k] \in ToSet(AllLists[c])
        /\ AllLists[c][k] \in used /\ data[AllLists[c][k]] \in Records
      BY BucketFacts
  <2> QED
      BY <1>2, <1>4, <2>1
<1>6. CASE Pos[m] # b
  <2>1. \A y \in ToSet(AllLists[Pos[m]]) : data'[y] = data[y] /\ abspath'[data[y]] = abspath[data[y]]
    <3>1. ToSet(AllLists[Pos[m]]) = { AllLists[Pos[m]][k] : k \in 1 .. Len(AllLists[Pos[m]]) }
        BY <1>1, InvLists
    <3> QED
        BY <1>1, <1>5, <3>1
  <2>2. AllLists'[Pos[m]] = AllLists[Pos[m]]
      BY <1>1, <1>4, <1>6
  <2>3. entriesOf(m)' = entriesOf(m)
      BY <1>2, <2>1, <2>2, EntriesFrame
  <2> QED
      BY <1>6, <2>3
<1>7. CASE Pos[m] = b
  <2> DEFINE g == named(m, data, abspath)
             e == named(m, data', abspath')
  <2> HIDE DEF b
  <2>1. Follows(head[b], next, prev, s)
      BY <1>1, BucketFacts
  <2>2. Follows(head'[b], next', prev', <<x>> \o s)
    <3>1. Follows(head'[b], next', prev', AllLists'[b])
        BY <1>1, <1>2 DEF HashInv, Shaped
    <3> QED
        BY <1>4, <3>1
  <2>3. ASSUME NEW k \in 1 .. Len(s) PROVE g[s[k]] = e[s[k]]
      BY <1>1, <1>5 DEF named
  <2>4. x \in Cells /\ e[x] = IF m = n THEN <<f>> ELSE <<>>
    <3>1. x \in Cells
        BY <1>2
    <3>2. e[x] = IF abspath'[data'[x]] = m THEN <<data'[x]>> ELSE <<>>
        BY <3>1 DEF named
    <3> HIDE DEF e
    <3> QED
        BY <1>4, <3>1, <3>2
  <2>5. Walk(head'[b], next', e) = e[x] \o Walk(head[b], next, g)
    <3> DEFINE h == head[b]
               h2 == head'[b]
               nx2 == next'
               pv2 == prev'
               t == <<x>> \o s
    <3>0. Joined(t, <<x>>, s)
        BY DEF Joined
    <3>1. Follows(h, next, prev, s) /\ Follows(h2, nx2, pv2, t) /\ x \in Cells
        BY <2>1, <2>2, <2>4
    <3>2. \A k \in 1 .. Len(s) : g[s[k]] = e[s[k]]
        BY <2>3
    <3> HIDE DEF h, h2, nx2, pv2, g, e, s, t
    <3>3. Joined(Walk(h2, nx2, e), e[x], Walk(h, next, g))
        BY <3>0, <3>1, <3>2, WalkAdd
    <3> QED
        BY <3>3 DEF h, h2, nx2, Joined
  <2> HIDE DEF g, e
  <2>6. entriesOf(m)' = Walk(head'[b], next', e) /\ entriesOf(m) = Walk(head[b], next, g)
      BY <1>7 DEF entriesOf, named, g, e
  <2>7. <<>> \o entriesOf(m) = entriesOf(m)
      BY EntriesType, ConcatEmptySeq
  <2> QED
      BY <2>4, <2>5, <2>6, <2>7
<1> QED
    BY <1>6, <1>7

(* The first element of a sequence, and the rest.                          *)
LEMMA ConsParts ==
    ASSUME NEW S, NEW d \in S, NEW t \in Seq(S)
    PROVE  /\ <<d>> \o t # <<>>
           /\ Head(<<d>> \o t) = d /\ Tail(<<d>> \o t) = t
<1> DEFINE u == <<d>> \o t
           n == Len(t)
<1>1. /\ u \in Seq(S) /\ Len(u) = n + 1 /\ n \in Nat
      /\ \A i \in 1 .. n + 1 : u[i] = IF i = 1 THEN d ELSE t[i - 1]
    BY ConsElements, LenProperties
<1> HIDE DEF u
<1>2. u # <<>>
    BY <1>1, EmptySeq
<1>3. u[1] = d
  <2>1. 1 \in 1 .. n + 1
      BY <1>1
  <2> QED
      BY <1>1, <2>1
<1>4. Head(u) = d
    BY <1>1, <1>2, <1>3
<1>5. Tail(u) \in Seq(S) /\ Len(Tail(u)) = n /\ \A i \in 1 .. n : Tail(u)[i] = t[i]
  <2>1. /\ Tail(u) \in Seq(S) /\ Len(Tail(u)) = Len(u) - 1
        /\ \A i \in 1 .. Len(Tail(u)) : Tail(u)[i] = u[i + 1]
      BY <1>1, <1>2, HeadTailProperties
  <2>2. ASSUME NEW i \in 1 .. n PROVE u[i + 1] = t[i]
    <3>1. i + 1 \in 1 .. n + 1 /\ i + 1 # 1 /\ (i + 1) - 1 = i
        BY <1>1
    <3> QED
        BY <1>1, <3>1
  <2> QED
      BY <1>1, <2>1, <2>2
<1>6. Tail(u) = t
    BY <1>5, SeqEqual
<1> QED
    BY <1>2, <1>4, <1>6 DEF u

(* A record taken out of its bucket was the first of its name, and no other *)
(* name in the bucket is touched.                                          *)
LEMMA RemoveEntries ==
    ASSUME HashInv, NEW n \in Names, NEW i, WithoutName(Pos[n], n, i), NEW m \in Names
    PROVE  /\ m = n => Joined(entriesOf(n), <<data[AllLists[Pos[n]][i]]>>, entriesOf(n)')
           /\ m # n => entriesOf(m)' = entriesOf(m)
<1> DEFINE b == Pos[n]
           s == AllLists[b]
           x == s[i]
<1>1. b \in Buckets /\ b \in Lists /\ Pos[m] \in Buckets /\ Pos[m] \in Lists
    BY HashTableAssumption DEF Lists
<1>2. /\ i \in 1 .. Len(s)
      /\ abspath[data[x]] = n
      /\ \A j \in 1 .. i - 1 : abspath[data[s[j]]] # n
      /\ abspath' = abspath
      /\ HashInv'
      /\ \A y \in Cells : y # x => data'[y] = data[y]
      /\ AllLists' = [AllLists EXCEPT ![b] = RemoveAt(s, i)]
    BY DEF WithoutName, HasLeft
<1>3. AllLists \in [Lists -> Seq(Cells)]
    BY DEF HashInv, Shaped
<1>4. /\ AllLists'[b] = RemoveAt(s, i)
      /\ \A l \in Lists : l # b => AllLists'[l] = AllLists[l]
  <2> HIDE DEF b, s
  <2> QED
      BY <1>1, <1>2, <1>3
<1>5. /\ x \in Cells
      /\ \A k \in 1 .. Len(s) : s[k] = x => k = i
      /\ \A l \in Lists : l # b => x \notin ToSet(AllLists[l])
  <2>1. Shaped(AllLists, head, next, prev, used)
      BY DEF HashInv
  <2>2. x \in Cells /\ x \in ToSet(s)
      BY <1>1, <1>2, BucketFacts
  <2>3. \A j, k \in 1 .. Len(s) : s[j] = s[k] => j = k
      BY <1>1, <2>1, ShapedDistinct
  <2>4. \A l \in Lists : l # b => ToSet(AllLists[l]) \cap ToSet(s) = {}
      BY <1>1, InvLists
  <2> QED
      BY <1>2, <2>2, <2>3, <2>4
<1>6. CASE Pos[m] # b
  <2>1. \A y \in ToSet(AllLists[Pos[m]]) : data'[y] = data[y] /\ abspath'[data[y]] = abspath[data[y]]
    <3>1. ToSet(AllLists[Pos[m]]) \subseteq Cells /\ x \notin ToSet(AllLists[Pos[m]])
        BY <1>1, <1>5, <1>6, InvLists
    <3> QED
        BY <1>2, <3>1
  <2>2. AllLists'[Pos[m]] = AllLists[Pos[m]]
      BY <1>1, <1>4, <1>6
  <2>3. entriesOf(m)' = entriesOf(m)
      BY <1>2, <2>1, <2>2, EntriesFrame
  <2> QED
      BY <1>6, <2>3
<1>7. CASE Pos[m] = b
  <2> DEFINE g == named(m, data, abspath)
             e == named(m, data', abspath')
             h == head[b]
             h2 == head'[b]
             nx2 == next'
             pv2 == prev'
             D == Entries
  <2>1. Follows(h, next, prev, s)
      BY <1>1, BucketFacts
  <2>2. Follows(h2, nx2, pv2, RemoveAt(s, i))
    <3>1. Follows(head'[b], next', prev', AllLists'[b])
        BY <1>1, <1>2 DEF HashInv, Shaped
    <3> QED
        BY <1>4, <3>1
  <2>3. ASSUME NEW k \in 1 .. Len(s)
        PROVE  /\ s[k] \in Cells /\ data[s[k]] \in Entries
               /\ g[s[k]] = IF abspath[data[s[k]]] = m THEN <<data[s[k]]>> ELSE <<>>
    <3>1. s[k] \in Cells /\ data[s[k]] \in Entries
        BY <1>1, BucketFacts
    <3> QED
        BY <3>1 DEF named
  <2>4. ASSUME NEW k \in 1 .. Len(s), k # i PROVE g[s[k]] = e[s[k]]
    <3>1. s[k] \in Cells /\ s[k] # x
        BY <1>5, <2>3, <2>4
    <3>2. data'[s[k]] = data[s[k]]
        BY <1>2, <3>1
    <3>3. e[s[k]] = IF abspath'[data'[s[k]]] = m THEN <<data'[s[k]]>> ELSE <<>>
        BY <3>1 DEF named
    <3>4. g[s[k]] = IF abspath[data[s[k]]] = m THEN <<data[s[k]]>> ELSE <<>>
        BY <2>3
    <3>5. abspath' = abspath
        BY <1>2
    <3> HIDE DEF g, e, s, b
    <3> QED
        BY <3>2, <3>3, <3>4, <3>5
  <2>5. ASSUME NEW k \in 1 .. Len(s) PROVE g[s[k]] \in Seq(D)
    <3> DEFINE d == data[s[k]]
    <3>0. d \in D
        BY <2>3
    <3>1. <<data[s[k]]>> \in Seq(D) /\ <<>> \in Seq(D)
      <4> HIDE DEF D, d
      <4>1. <<d>> \in Seq(D) /\ <<>> \in Seq(D)
          BY <3>0
      <4> QED
          BY <4>1 DEF d
    <3> HIDE DEF g, D, s
    <3> QED
        BY <2>3, <3>1
  <2>6. entriesOf(m)' = Walk(h2, nx2, e) /\ entriesOf(m) = Walk(h, next, g)
      BY <1>7 DEF entriesOf, named
  <2>7. g[x] = IF m = n THEN <<data[x]>> ELSE <<>>
    <3> HIDE DEF g
    <3> QED
        BY <1>2, <2>3
  <2> HIDE DEF g, e, h, h2, nx2, pv2, D
  <2>8. Unhooked(h, next, prev, s, g, h2, nx2, pv2, e, D, i)
      BY <1>2, <2>1, <2>2, <2>4, <2>5 DEF Unhooked
  <2>9. CASE m # n
    <3>1. g[s[i]] = <<>>
        BY <2>7, <2>9
    <3> HIDE DEF s
    <3>2. Walk(h2, nx2, e) = Walk(h, next, g)
        BY <2>8, <3>1, WalkDrop
    <3> QED
        BY <2>6, <2>9, <3>2
  <2>10. CASE m = n
    <3>1. NothingBefore(s, g, i)
      <4>1. ASSUME NEW k \in 1 .. i - 1 PROVE g[s[k]] = <<>>
        <5>1. k \in 1 .. Len(s)
          <6>1. Len(s) \in Nat
              BY <1>1, <1>3, LenProperties
          <6> QED
              BY <1>2, <6>1
        <5> QED
            BY <1>2, <2>3, <2>10, <5>1
      <4> QED
          BY <4>1 DEF NothingBefore
    <3>2. Joined(Walk(h, next, g), g[s[i]], Walk(h2, nx2, e))
      <4> HIDE DEF s
      <4> QED
          BY <2>8, <3>1, WalkFirst
    <3>3. g[s[i]] = <<data[x]>>
        BY <2>7, <2>10
    <3> QED
        BY <2>6, <2>10, <3>2, <3>3
  <2> QED
      BY <2>9, <2>10
<1> QED
    BY <1>6, <1>7

(* The table as the lists give it: what Table is instantiated with.        *)
entriesNow == [n \in Names |-> entriesOf(n)]
openedNow ==
    [f \in FileIds |-> [c \in Clients |->
        IF f \in Records THEN Cardinality({ x \in CellsOf(f) : data[x] = c }) ELSE 0]]

(* The cells of the list of a record that a client has.                    *)
Holders(f, c) == { x \in ToSet(AllLists[f]) : data[x] = c }
openedOf == [f \in FileIds |-> [c \in Clients |-> Cardinality(Holders(f, c))]]

(* A list to which nothing is done.                                        *)
Kept(l) == AllLists'[l] = AllLists[l] /\ \A x \in ToSet(AllLists[l]) : data'[x] = data[x]

(* Both count the same: a record that is not in use has no list.           *)
CellsTell == openedNow = openedOf

(* The cells of a list count the opens of its record.                       *)
LEMMA OpenedIs == HashInv => CellsTell
<1> SUFFICES ASSUME HashInv PROVE openedNow = openedOf
    BY DEF CellsTell
<1> DEFINE now(f, c) == IF f \in Records THEN Cardinality({ x \in CellsOf(f) : data[x] = c }) ELSE 0
           of(f, c) == Cardinality(Holders(f, c))
<1>1. ASSUME NEW f \in FileIds, NEW c \in Clients PROVE now(f, c) = of(f, c)
  <2>1. CASE f \in Records
    <3>1. CellsOf(f) = ToSet(AllLists[f])
        BY InvLists DEF Lists
    <3> QED
        BY <2>1, <3>1 DEF Holders
  <2>2. CASE f \notin Records
    <3>1. AllLists[f] = <<>>
        BY <2>2 DEF HashInv, Filled, Records
    <3>2. ToSet(AllLists[f]) = {}
      <4>1. DOMAIN <<>> = {}
          OBVIOUS
      <4> QED
          BY <3>1, <4>1 DEF ToSet
    <3>3. Holders(f, c) = {}
        BY <3>2 DEF Holders
    <3> QED
        BY <2>2, <3>3, FS_EmptySet
  <2> QED
      BY <2>1, <2>2
<1> HIDE DEF now, of
<1>2. [f \in FileIds |-> [c \in Clients |-> now(f, c)]]
          = [f \in FileIds |-> [c \in Clients |-> of(f, c)]]
  <2> DEFINE row(f) == [c \in Clients |-> now(f, c)]
             rowOf(f) == [c \in Clients |-> of(f, c)]
  <2>1. ASSUME NEW f \in FileIds PROVE row(f) = rowOf(f)
      BY <1>1
  <2> HIDE DEF row, rowOf
  <2>2. [f \in FileIds |-> row(f)] = [f \in FileIds |-> rowOf(f)]
      BY <2>1
  <2> QED
      BY <2>2 DEF row, rowOf
<1> QED
    BY <1>2 DEF openedNow, openedOf, now, of

(* The same after a step.                                                  *)
LEMMA OpenedIsNext == HashInv' => openedNow' = openedOf'
<1>1. HashInv' => CellsTell'
    BY OpenedIs, PTL
<1> QED
    BY <1>1 DEF CellsTell

(* There are as many openings as cells.                                    *)
LEMMA HoldersFinite ==
    ASSUME HashInv, NEW f \in FileIds, NEW c
    PROVE  IsFiniteSet(Holders(f, c)) /\ Cardinality(Holders(f, c)) \in Nat
<1>1. Holders(f, c) \subseteq Cells
    BY InvLists DEF Lists, Holders
<1> QED
    BY <1>1, HashTableAssumption, FS_Subset, FS_CardinalityType

(* The table when no bucket, and when no record, has changed its list.     *)
LEMMA EntriesKept ==
    ASSUME HashInv, HashInv',
           \A b \in Buckets : Kept(b),
           \A g \in Entries : abspath'[g] = abspath[g]
    PROVE  entriesNow' = entriesNow
<1>1. ASSUME NEW n \in Names PROVE entriesOf(n)' = entriesOf(n)
  <2>1. Pos[n] \in Buckets /\ Pos[n] \in Lists
      BY HashTableAssumption DEF Lists
  <2>2. ASSUME NEW x \in ToSet(AllLists[Pos[n]])
        PROVE  data'[x] = data[x] /\ abspath'[data[x]] = abspath[data[x]]
    <3>1. PICK k \in 1 .. Len(AllLists[Pos[n]]) : x = AllLists[Pos[n]][k]
        BY <2>1, <2>2, InvLists
    <3>2. data[x] \in Entries
        BY <2>1, <3>1, BucketFacts
    <3> QED
        BY <2>1, <2>2, <3>2 DEF Kept
  <2>3. AllLists'[Pos[n]] = AllLists[Pos[n]]
      BY <2>1 DEF Kept
  <2> QED
      BY <2>2, <2>3, EntriesFrame
<1> QED
    BY <1>1 DEF entriesNow

(* A list to which nothing is done keeps its clients.                       *)
LEMMA HoldersKept ==
    ASSUME NEW f, Kept(f), NEW c
    PROVE  Holders(f, c)' = Holders(f, c)
    BY DEF Kept, Holders

(* When no record has changed its list, no count of opens changes.          *)
LEMMA OpenedKept ==
    ASSUME HashInv, HashInv', \A f \in FileIds : Kept(f)
    PROVE  openedNow' = openedNow
<1>1. \A f \in FileIds : \A c \in Clients : Holders(f, c)' = Holders(f, c)
    BY HoldersKept
<1>2. openedOf' = openedOf
    BY <1>1 DEF openedOf
<1> QED
    BY <1>2, OpenedIs, OpenedIsNext DEF CellsTell

-----------------------------------------------------------------------------
(* Every step of the lists is a step of the table.                         *)

(* No cell, no record, no opening.                                         *)
LEMMA TableStarts == HashInit => Table!TableInit
<1> SUFFICES ASSUME HashInit PROVE Table!TableInit
    OBVIOUS
<1>1. Follows(NULL, next, prev, <<>>)
  <2>1. <<>> \in Seq(Cells) /\ Len(<<>>) = 0 /\ IsInjective(<<>>)
      BY DEF IsInjective
  <2>2. ~(1 \in 1 .. 0) /\ \A i \in 1 .. 0 : FALSE
      OBVIOUS
  <2> QED
      BY <2>1, <2>2 DEF Follows, At
<1>2. ASSUME NEW n \in Names PROVE entriesOf(n) = <<>>
  <2>1. head[Pos[n]] = NULL
    <3>1. Pos[n] \in Lists
        BY HashTableAssumption DEF Lists
    <3> QED
        BY <3>1 DEF HashInit
  <2> DEFINE g == named(n, data, abspath)
  <2> HIDE DEF g
  <2>2. Walk(NULL, next, g) = <<>>
      BY <1>1, WalkEmpty
  <2> QED
      BY <2>1, <2>2 DEF g, entriesOf, named
<1>3. entriesNow = [n \in Names |-> <<>>]
    BY <1>2 DEF entriesNow
<1>4. Records = {}
    BY DEF HashInit, Records
<1>5. openedNow = [f \in FileIds |-> [c \in Clients |-> 0]]
    BY <1>4 DEF openedNow
<1>6. taken = {}
    BY DEF HashInit
<1> QED
    BY <1>3, <1>4, <1>5, <1>6 DEF Table!TableInit, Table!Nobody, entriesNow, openedNow

(* hashTbAdd is Add of the table.                                           *)
LEMMA TableAdds ==
    ASSUME HashInv, NEW n \in Names, NEW f \in FileIds, hashTbAdd(n, f)
    PROVE  Table!Add(n, f)
<1>0. PICK x : WithRecord(n, f, x)
    BY AddStep
<1>1. /\ x \in Cells \ used /\ f \notin Records /\ HashInv'
      /\ abspath' = [abspath EXCEPT ![f] = n]
      /\ data' = [data EXCEPT ![x] = f]
      /\ AllLists' = [AllLists EXCEPT ![Pos[n]] = <<x>> \o AllLists[Pos[n]]]
    BY <1>0 DEF WithRecord
<1>2. /\ data \in [Cells -> FileIds \cup Clients \cup {NULL}]
      /\ abspath \in [FileIds -> Names \cup {NULL}]
      /\ AllLists \in [Lists -> Seq(Cells)]
    BY DEF HashInv, Typed, Shaped
<1>3. Records' = Records \cup {f}
    BY <1>1, <1>2, HashTableAssumption DEF Records
<1>4. entriesNow' = [entriesNow EXCEPT ![n] = <<f>> \o entriesNow[n]]
  <2>1. \A m \in Names : entriesOf(m)' = IF m = n THEN <<f>> \o entriesOf(n) ELSE entriesOf(m)
      BY AddEntries
  <2> QED
      BY <2>1 DEF entriesNow
<1>5. ASSUME NEW g \in FileIds PROVE Kept(g)
  <2>1. g \in Lists /\ g # Pos[n]
      BY HashTableAssumption DEF Lists
  <2>2. AllLists'[g] = AllLists[g]
      BY <1>1, <1>2, <2>1
  <2>3. x \notin ToSet(AllLists[g]) /\ ToSet(AllLists[g]) \subseteq Cells
      BY <1>1, <2>1, InvLists
  <2>4. \A y \in ToSet(AllLists[g]) : data'[y] = data[y]
      BY <1>1, <1>2, <2>3
  <2> QED
      BY <2>2, <2>4 DEF Kept
<1>6. openedNow' = openedNow
    BY <1>1, <1>5, OpenedKept
<1>7. taken' = taken
    BY DEF hashTbAdd
<1> QED
    BY <1>1, <1>3, <1>4, <1>6, <1>7 DEF Table!Add, entriesNow, openedNow

(* A record taken out of its bucket, by a search or when the server ends,  *)
(* is Remove of the table: it was the first of its name.                   *)
LEMMA TableRemoves ==
    ASSUME HashInv, NEW n \in Names, NEW i, WithoutName(Pos[n], n, i)
    PROVE  Table!Remove(n)
<1> DEFINE b == Pos[n]
           x == AllLists[b][i]
           d == data[x]
<1>1. /\ i \in 1 .. Len(AllLists[b])
      /\ taken' = taken \cup {<<n, d>>}
      /\ abspath' = abspath
      /\ HashInv'
      /\ \A y \in Cells : y # x => data'[y] = data[y]
      /\ AllLists' = [AllLists EXCEPT ![b] = RemoveAt(AllLists[b], i)]
    BY DEF WithoutName, HasLeft
<1>2. b \in Buckets /\ b \in Lists /\ x \in ToSet(AllLists[b]) /\ d \in Entries
  <2>1. b \in Buckets
      BY HashTableAssumption
  <2> QED
      BY <1>1, <2>1, BucketFacts
<1>3. AllLists \in [Lists -> Seq(Cells)]
    BY DEF HashInv, Shaped
<1>4. Joined(entriesOf(n), <<d>>, entriesOf(n)') /\ \A m \in Names : m # n => entriesOf(m)' = entriesOf(m)
    BY RemoveEntries
<1>5. entriesOf(n)' \in Seq(Entries')
    BY <1>1, EntriesTypeNext
<1>6. ASSUME NEW g \in FileIds PROVE Kept(g)
  <2>1. g \in Lists /\ g # b
      BY <1>2, HashTableAssumption DEF Lists
  <2> HIDE DEF b
  <2>2. AllLists'[g] = AllLists[g]
      BY <1>1, <1>3, <2>1
  <2>3. x \notin ToSet(AllLists[g]) /\ ToSet(AllLists[g]) \subseteq Cells
      BY <1>2, <2>1, InvLists
  <2>4. \A y \in ToSet(AllLists[g]) : data'[y] = data[y]
      BY <1>1, <2>3
  <2> QED
      BY <2>2, <2>4 DEF Kept
<1>7. openedNow' = openedNow
    BY <1>1, <1>6, OpenedKept
<1>8. Records' = Records
    BY <1>1 DEF Records
<1>9. entriesOf(n) # <<>> /\ Head(entriesOf(n)) = d /\ Tail(entriesOf(n)) = entriesOf(n)'
  <2> DEFINE S == Entries \cup Entries'
             w == entriesOf(n)'
  <2>1. d \in S /\ w \in Seq(S)
    <3>1. Entries' \subseteq S
        OBVIOUS
    <3> HIDE DEF S
    <3>2. w \in Seq(S)
        BY <1>5, <3>1, SeqMonotonic
    <3> QED
        BY <1>2, <3>2 DEF S
  <2>2. entriesOf(n) = <<d>> \o w
      BY <1>4 DEF Joined
  <2> HIDE DEF S, w, d
  <2>3. <<d>> \o w # <<>> /\ Head(<<d>> \o w) = d /\ Tail(<<d>> \o w) = w
      BY <2>1, ConsParts
  <2> QED
      BY <2>2, <2>3 DEF w
<1>10. entriesNow' = [entriesNow EXCEPT ![n] = Tail(entriesNow[n])]
  <2> HIDE DEF d
  <2>1. \A m \in Names : entriesOf(m)' = IF m = n THEN Tail(entriesOf(n)) ELSE entriesOf(m)
      BY <1>4, <1>9
  <2> QED
      BY <2>1 DEF entriesNow
<1>11. entriesNow[n] # <<>> /\ taken' = taken \cup {<<n, Head(entriesNow[n])>>}
  <2> HIDE DEF d
  <2> QED
      BY <1>1, <1>9 DEF entriesNow
<1> QED
    BY <1>7, <1>8, <1>10, <1>11 DEF Table!Remove, entriesNow, openedNow

(* fileFree of a record that no bucket holds takes every opening with it.  *)
LEMMA TableFrees ==
    ASSUME HashInv, NEW f \in FileIds, fileFree(f)
    PROVE  Table!Free(f)
<1>1. /\ f \in Records \ Entries
      /\ data' = [y \in Cells |-> IF y \in ToSet(AllLists[f]) THEN NULL ELSE data[y]]
      /\ abspath' = [abspath EXCEPT ![f] = NULL]
      /\ AllLists' = [AllLists EXCEPT ![f] = <<>>]
      /\ HashInv'
    BY FreeStep
<1>2. /\ f \in Lists /\ AllLists \in [Lists -> Seq(Cells)]
      /\ abspath \in [FileIds -> Names \cup {NULL}]
    BY DEF HashInv, Shaped, Typed, Lists
<1>3. ASSUME NEW l \in Lists, l # f PROVE Kept(l)
  <2>1. AllLists'[l] = AllLists[l]
      BY <1>1, <1>2, <1>3
  <2>2. ToSet(AllLists[l]) \subseteq Cells /\ ToSet(AllLists[l]) \cap ToSet(AllLists[f]) = {}
      BY <1>2, <1>3, InvLists
  <2>3. \A y \in ToSet(AllLists[l]) : data'[y] = data[y]
      BY <1>1, <2>2
  <2> QED
      BY <2>1, <2>3 DEF Kept
<1>4. entriesNow' = entriesNow
  <2>1. \A b \in Buckets : Kept(b)
      BY <1>3, HashTableAssumption DEF Lists
  <2>2. \A g \in Entries : abspath'[g] = abspath[g]
    <3>1. ASSUME NEW g \in Entries PROVE g \in FileIds
      <4>1. PICK b \in Buckets : \E x \in CellsOf(b) : g = data[x]
          BY <3>1 DEF Entries
      <4>2. PICK k \in 1 .. Len(AllLists[b]) : g = data[AllLists[b][k]]
        <5>1. b \in Lists
            BY DEF Lists
        <5> QED
            BY <4>1, <5>1, InvLists
      <4> QED
          BY <4>2, BucketFacts DEF Records
    <3> QED
        BY <1>1, <1>2, <3>1
  <2> QED
      BY <1>1, <2>1, <2>2, EntriesKept
<1>5. ASSUME NEW n \in Names PROVE f \notin { entriesNow[n][i] : i \in DOMAIN entriesNow[n] }
  <2>1. entriesOf(n) \in Seq(Entries) /\ entriesNow[n] = entriesOf(n)
      BY EntriesType DEF entriesNow
  <2>2. \A i \in DOMAIN entriesNow[n] : entriesNow[n][i] \in Entries
      BY <2>1, ElementOfSeq, LenProperties
  <2> QED
      BY <1>1, <2>2
<1>6. Records' = Records \ {f}
    BY <1>1, <1>2 DEF Records
<1>7. openedNow' = [openedNow EXCEPT ![f] = [c \in Clients |-> 0]]
  <2>1. openedNow = openedOf /\ openedNow' = openedOf'
      BY <1>1, OpenedIs, OpenedIsNext DEF CellsTell
  <2>2. ASSUME NEW g \in FileIds, NEW c \in Clients, g # f
        PROVE  Cardinality(Holders(g, c)') = Cardinality(Holders(g, c))
      BY <1>3, <2>2, HoldersKept DEF Lists
  <2>3. ASSUME NEW c \in Clients PROVE Cardinality(Holders(f, c)') = 0
    <3>1. AllLists'[f] = <<>>
        BY <1>1, <1>2
    <3>2. ToSet(<<>>) = {}
      <4>1. DOMAIN <<>> = {}
          OBVIOUS
      <4> QED
          BY <4>1 DEF ToSet
    <3>3. Holders(f, c)' = {}
        BY <3>1, <3>2 DEF Holders
    <3> QED
        BY <3>3, FS_EmptySet
  <2> DEFINE row(g) == [c \in Clients |-> Cardinality(Holders(g, c))]
             row2(g) == [c \in Clients |-> Cardinality(Holders(g, c)')]
             none == [c \in Clients |-> 0]
  <2>4. \A g \in FileIds : row2(g) = IF g = f THEN none ELSE row(g)
      BY <2>2, <2>3
  <2>5. openedOf = [g \in FileIds |-> row(g)] /\ openedOf' = [g \in FileIds |-> row2(g)]
      BY DEF openedOf
  <2> HIDE DEF row, row2, none
  <2>6. openedOf' = [openedOf EXCEPT ![f] = none]
      BY <2>4, <2>5
  <2> QED
      BY <2>1, <2>6 DEF none
<1>8. taken' = { t \in taken : t[2] # f }
    BY DEF fileFree
<1> QED
    BY <1>1, <1>4, <1>5, <1>6, <1>7, <1>8
       DEF Table!Free, Table!InTable, Table!Nobody, entriesNow, openedNow

(* The openings of one client of one record are one more, or one fewer.    *)
Counted(f, c, n) == openedOf' = [openedOf EXCEPT ![f] = [openedOf[f] EXCEPT ![c] = n]]

(* One list changes, and in it the cells of one client.                     *)
LEMMA OpenedChanges ==
    ASSUME HashInv, HashInv', NEW f \in FileIds, NEW c \in Clients, NEW n,
           \A g \in FileIds : g # f => Kept(g),
           \A d \in Clients : d # c => Holders(f, d)' = Holders(f, d),
           Cardinality(Holders(f, c)') = n
    PROVE  Counted(f, c, n)
<1> DEFINE row(g) == [d \in Clients |-> Cardinality(Holders(g, d))]
           row2(g) == [d \in Clients |-> Cardinality(Holders(g, d)')]
<1>1. ASSUME NEW g \in FileIds, g # f PROVE row2(g) = row(g)
    BY <1>1, HoldersKept
<1>2. row2(f) = [row(f) EXCEPT ![c] = n]
    OBVIOUS
<1>3. openedOf = [g \in FileIds |-> row(g)] /\ openedOf' = [g \in FileIds |-> row2(g)]
    BY DEF openedOf
<1> HIDE DEF row, row2
<1> QED
    BY <1>1, <1>2, <1>3 DEF Counted

(* fileOpen is Open of the table.                                           *)
LEMMA TableOpens ==
    ASSUME HashInv, NEW f \in FileIds, NEW c \in Clients, fileOpen(f, c)
    PROVE  Table!Open(f, c)
<1>0. PICK x : WithClient(f, c, x)
    BY OpenStep
<1>1. /\ x \in Cells \ used /\ f \in Records /\ HashInv' /\ abspath' = abspath
      /\ data' = [data EXCEPT ![x] = c]
      /\ AllLists' = [AllLists EXCEPT ![f] = <<x>> \o AllLists[f]]
    BY <1>0 DEF WithClient
<1>2. /\ f \in Lists /\ AllLists \in [Lists -> Seq(Cells)]
      /\ data \in [Cells -> FileIds \cup Clients \cup {NULL}]
    BY DEF HashInv, Shaped, Typed, Lists
<1>3. ASSUME NEW l \in Lists PROVE x \notin ToSet(AllLists[l]) /\ ToSet(AllLists[l]) \subseteq Cells
    BY <1>1, InvLists
<1>4. ASSUME NEW l \in Lists, l # f PROVE Kept(l)
  <2>1. AllLists'[l] = AllLists[l]
      BY <1>1, <1>2, <1>4
  <2>2. \A y \in ToSet(AllLists[l]) : data'[y] = data[y]
      BY <1>1, <1>2, <1>3
  <2> QED
      BY <2>1, <2>2 DEF Kept
<1>5. entriesNow' = entriesNow
  <2>1. \A b \in Buckets : Kept(b)
      BY <1>4, HashTableAssumption DEF Lists
  <2>2. \A g \in Entries : abspath'[g] = abspath[g]
      BY <1>1
  <2> QED
      BY <1>1, <2>1, <2>2, EntriesKept
<1>6. ToSet(AllLists'[f]) = ToSet(AllLists[f]) \cup {x}
  <2>1. AllLists'[f] = <<x>> \o AllLists[f]
      BY <1>1, <1>2
  <2> QED
      BY <1>1, <1>2, <2>1, ConsElements
<1>7. data'[x] = c /\ \A y \in ToSet(AllLists[f]) : data'[y] = data[y]
    BY <1>1, <1>2, <1>3
<1>8. \A d \in Clients : d # c => Holders(f, d)' = Holders(f, d)
    BY <1>6, <1>7 DEF Holders
<1>9. Holders(f, c)' = Holders(f, c) \cup {x} /\ x \notin Holders(f, c)
    BY <1>2, <1>3, <1>6, <1>7 DEF Holders
<1>10. Cardinality(Holders(f, c)') = Cardinality(Holders(f, c)) + 1
    BY <1>9, HoldersFinite, FS_AddElement
<1>11. Counted(f, c, Cardinality(Holders(f, c)) + 1)
  <2>1. \A g \in FileIds : g # f => Kept(g)
      BY <1>4 DEF Lists
  <2> QED
      BY <1>1, <1>8, <1>10, <2>1, OpenedChanges
<1>12. openedNow = openedOf /\ openedNow' = openedOf'
    BY <1>1, OpenedIs, OpenedIsNext DEF CellsTell
<1>13. openedOf[f][c] = Cardinality(Holders(f, c))
    BY DEF openedOf
<1>14. openedNow' = [openedNow EXCEPT ![f] = [openedNow[f] EXCEPT ![c] = openedNow[f][c] + 1]]
    BY <1>11, <1>12, <1>13 DEF Counted
<1>15. Records' = Records
    BY <1>1 DEF Records
<1>16. taken' = taken
    BY DEF fileOpen
<1> QED
    BY <1>1, <1>5, <1>14, <1>15, <1>16 DEF Table!Open, entriesNow, openedNow

(* clientPidDelete is Close of the table: the cell it takes away was        *)
(* counted, whichever cell of the list it was.                              *)
LEMMA TableCloses ==
    ASSUME HashInv, NEW f \in FileIds, NEW c \in Clients, clientPidDelete(f, c)
    PROVE  Table!Close(f, c)
<1>0. PICK i : WithoutClient(f, c, i)
    BY CloseStep
<1> DEFINE x == AllLists[f][i]
<1>1. /\ i \in 1 .. Len(AllLists[f]) /\ f \in Records /\ HashInv' /\ abspath' = abspath
      /\ data[x] = c
      /\ \A y \in Cells : y # x => data'[y] = data[y]
      /\ AllLists' = [AllLists EXCEPT ![f] = RemoveAt(AllLists[f], i)]
    BY <1>0 DEF WithoutClient, HasLeft
<1>2. f \in Lists /\ AllLists \in [Lists -> Seq(Cells)]
    BY DEF HashInv, Shaped, Lists
<1>3. /\ x \in ToSet(AllLists[f]) /\ ToSet(AllLists[f]) \subseteq Cells
      /\ \A j, k \in 1 .. Len(AllLists[f]) : AllLists[f][j] = AllLists[f][k] => j = k
  <2>1. Shaped(AllLists, head, next, prev, used)
      BY DEF HashInv
  <2> QED
      BY <1>1, <1>2, <2>1, ShapedDistinct, InvLists
<1>4. ASSUME NEW l \in Lists, l # f PROVE Kept(l)
  <2>1. AllLists'[l] = AllLists[l]
      BY <1>1, <1>2, <1>4
  <2>2. x \notin ToSet(AllLists[l]) /\ ToSet(AllLists[l]) \subseteq Cells
      BY <1>2, <1>3, <1>4, InvLists
  <2>3. \A y \in ToSet(AllLists[l]) : data'[y] = data[y]
      BY <1>1, <2>2
  <2> QED
      BY <2>1, <2>3 DEF Kept
<1>5. entriesNow' = entriesNow
  <2>1. \A b \in Buckets : Kept(b)
      BY <1>4, HashTableAssumption DEF Lists
  <2>2. \A g \in Entries : abspath'[g] = abspath[g]
      BY <1>1
  <2> QED
      BY <1>1, <2>1, <2>2, EntriesKept
<1>6. ToSet(AllLists'[f]) = ToSet(AllLists[f]) \ {x}
  <2>1. AllLists[f] \in Seq(Cells) /\ IsInjective(AllLists[f])
      BY <1>2 DEF HashInv, Shaped, Follows
  <2>2. AllLists'[f] = RemoveAt(AllLists[f], i)
      BY <1>1, <1>2
  <2> QED
      BY <1>1, <2>1, <2>2, RemoveAtInjective
<1>7. \A d \in Clients : d # c => Holders(f, d)' = Holders(f, d)
    BY <1>1, <1>3, <1>6 DEF Holders
<1>8. x \in Holders(f, c) /\ Holders(f, c)' = Holders(f, c) \ {x}
    BY <1>1, <1>3, <1>6 DEF Holders
<1> DEFINE k == Cardinality(Holders(f, c))
<1>9. k \in Nat /\ k # 0 /\ Cardinality(Holders(f, c)') = k - 1
  <2>1. IsFiniteSet(Holders(f, c)) /\ k \in Nat
      BY HoldersFinite
  <2>2. k # 0
      BY <1>8, <2>1, FS_EmptySet
  <2> QED
      BY <1>8, <2>1, <2>2, FS_RemoveElement
<1> HIDE DEF k
<1>10. Counted(f, c, k - 1)
  <2>1. \A g \in FileIds : g # f => Kept(g)
      BY <1>4 DEF Lists
  <2> QED
      BY <1>1, <1>7, <1>9, <2>1, OpenedChanges
<1>11. openedNow = openedOf /\ openedNow' = openedOf'
    BY <1>1, OpenedIs, OpenedIsNext DEF CellsTell
<1>12. openedOf[f][c] = k
    BY DEF openedOf, k
<1>13. openedNow' = [openedNow EXCEPT ![f] = [openedNow[f] EXCEPT
                         ![c] = IF openedNow[f][c] = 0 THEN 0 ELSE openedNow[f][c] - 1]]
    BY <1>9, <1>10, <1>11, <1>12 DEF Counted
<1>14. Records' = Records
    BY <1>1 DEF Records
<1>15. taken' = taken
    BY DEF clientPidDelete
<1> QED
    BY <1>1, <1>5, <1>13, <1>14, <1>15 DEF Table!Close, entriesNow, openedNow

(* Every step is a step of the table, or leaves it alone.                  *)
LEMMA TableStep == HashInv /\ [HashNext]_hashVars => [Table!TableNext]_(Table!tableVars)
<1> SUFFICES ASSUME HashInv, [HashNext]_hashVars PROVE [Table!TableNext]_(Table!tableVars)
    OBVIOUS
<1>1. CASE \E n \in Names : hashTbRemove(n)
  <2>1. PICK n \in Names : hashTbRemove(n)
      BY <1>1
  <2>2. Table!Remove(n)
      BY <2>1, RemoveStep, TableRemoves
  <2> QED
      BY <2>2 DEF Table!TableNext
<1>2. CASE \E n \in Names : \E f \in FileIds : hashTbAdd(n, f)
    BY <1>2, TableAdds DEF Table!TableNext
<1>3. CASE \E f \in FileIds : fileFree(f)
    BY <1>3, TableFrees DEF Table!TableNext
<1>4. CASE \E f \in FileIds : \E c \in Clients : fileOpen(f, c)
    BY <1>4, TableOpens DEF Table!TableNext
<1>5. CASE \E f \in FileIds : \E c \in Clients : clientPidDelete(f, c)
    BY <1>5, TableCloses DEF Table!TableNext
<1>6. CASE hashTbDestroy
  <2>1. PICK n \in Names : WithoutName(Pos[n], n, 1)
      BY <1>6, DestroyStep
  <2>2. Table!Remove(n)
      BY <2>1, TableRemoves
  <2> QED
      BY <2>2 DEF Table!TableNext
<1>7. ASSUME head' = head, next' = next, data' = data, abspath' = abspath, taken' = taken
      PROVE  UNCHANGED Table!tableVars
  <2>1. \A n \in Names : entriesOf(n)' = entriesOf(n)
      BY <1>7 DEF entriesOf
  <2>2. entriesNow' = entriesNow
      BY <2>1 DEF entriesNow
  <2>3. \A f : CellsOf(f)' = CellsOf(f)
      BY <1>7 DEF CellsOf, Chain
  <2>4. Records' = Records
      BY <1>7 DEF Records
  <2>5. openedNow' = openedNow
      BY <1>7, <2>3, <2>4 DEF openedNow
  <2> QED
      BY <1>7, <2>2, <2>4, <2>5 DEF Table!tableVars, entriesNow, openedNow
<1>8. CASE memoryClean
    BY <1>7, <1>8 DEF memoryClean
<1>9. CASE UNCHANGED hashVars
    BY <1>7, <1>9 DEF hashVars
<1> QED
    BY <1>1, <1>2, <1>3, <1>4, <1>5, <1>6, <1>8, <1>9 DEF HashNext

(* Names that share a bucket, cells that are added at the head, and taken  *)
(* from the head, the middle or the end, and freed: whatever is done to    *)
(* the lists, a search gives what a table of sequences would, and a client *)
(* has a record open as often as a counter would say.                      *)
THEOREM ListsAreTheTable == HashSpec => ImplementsRecordTable
<1>1. HashInit => HashInv
    BY HashInitInv
<1>2. HashInv /\ [HashNext]_hashVars => HashInv'
    BY HashStep
<1>3. HashInit => Table!TableInit
    BY TableStarts
<1>4. HashInv /\ [HashNext]_hashVars => [Table!TableNext]_(Table!tableVars)
    BY TableStep
<1> QED
    BY <1>1, <1>2, <1>3, <1>4, PTL DEF HashSpec, ImplementsRecordTable, Table!TableSpec

-----------------------------------------------------------------------------
(* The settings.                                                           *)

Lines == [key : STRING, value : Int \cup {NoValue}]
Settings == 1 .. 6

(* p[k] is the line of file that setting k was found at, for the settings  *)
(* before the next one, which is looked for from line ln on.               *)
Marks(p, file, ln, nth, found) ==
    /\ \A k \in Settings : k < nth =>
          /\ p[k] \in 1 .. Len(file) /\ p[k] < ln
          /\ file[p[k]].key = Keys[k] /\ file[p[k]].value # NoValue
          /\ found[k] = Unit(k, file[p[k]].value)
    /\ \A k \in Settings : k + 1 < nth => p[k] < p[k + 1]

(* Each of the six lines there are gives the setting that is asked for.    *)
Exact(file) == Len(file) = 6 /\ \A k \in Settings : file[k].key = Keys[k]

Missing(file, k) == file[k].value = NoValue \/ Unit(k, file[k].value) = 0

ConfigInv ==
    /\ config \in Seq(Lines) /\ line \in Nat \ {0} /\ setting \in 1 .. 7
    /\ DOMAIN settings = Settings
    /\ \A k \in Settings : k >= setting => settings[k] = NoValue
    /\ loading \in {"reading", "loaded", "refused", "crashed"}
    /\ loading = "reading" => setting \in Settings
    /\ loading = "loaded" => setting = 7
    /\ \E p \in [Settings -> Nat] : Marks(p, config, line, setting, settings)
    /\ Exact(config) =>
          /\ loading = "reading" => line = setting
          /\ loading \in {"refused", "crashed"} => \E k \in Settings : Missing(config, k)

(* The six settings; the socket's name is the last.                         *)
LEMMA KeysAre ==
    /\ DOMAIN Keys = Settings /\ Len(Keys) = 6
    /\ Keys[1] = "memory_size" /\ Keys[2] = "page_size"
    /\ \A k \in Settings : Keys[k] = "socket_name" <=> k = 6
<1>1. Len(Keys) = 6 /\ DOMAIN Keys = 1 .. 6
    BY DEF Keys
<1>2. /\ Keys[1] = "memory_size" /\ Keys[2] = "page_size" /\ Keys[3] = "file_max"
      /\ Keys[4] = "file_hash_tb_size" /\ Keys[5] = "worker_threads" /\ Keys[6] = "socket_name"
    BY DEF Keys
<1>3. \A k \in Settings : k = 1 \/ k = 2 \/ k = 3 \/ k = 4 \/ k = 5 \/ k = 6
    BY DEF Settings
<1>4. \A k \in Settings : Keys[k] = "socket_name" <=> k = 6
    BY <1>2, <1>3
<1> QED
    BY <1>1, <1>2, <1>4 DEF Settings

(* Before the first line nothing is found.                                  *)
LEMMA ConfigInitInv == ConfigInit => ConfigInv
<1> SUFFICES ASSUME ConfigInit PROVE ConfigInv
    OBVIOUS
<1>1. PICK file \in Configs : ConfigStart(file)
    BY DEF ConfigInit
<1>2. /\ config = file /\ line = 1 /\ setting = 1 /\ loading = "reading"
      /\ settings = [k \in Settings |-> NoValue]
    BY <1>1, KeysAre DEF ConfigStart
<1>3. config \in Seq(Lines)
    BY <1>2, ConfigAssumption DEF Lines
<1>4. Marks([k \in Settings |-> 0], config, line, setting, settings)
    BY <1>2 DEF Marks, Settings
<1>5. [k \in Settings |-> 0] \in [Settings -> Nat]
    OBVIOUS
<1>6. \E p \in [Settings -> Nat] : Marks(p, config, line, setting, settings)
    BY <1>4, <1>5
<1> QED
    BY <1>2, <1>3, <1>6 DEF ConfigInv, Settings

(* A line that is passed over moves no mark.                               *)
LEMMA NextLineStep == ConfigInv /\ configGetAll /\ NextLine => ConfigInv'
<1> SUFFICES ASSUME ConfigInv, configGetAll, NextLine PROVE ConfigInv'
    OBVIOUS
<1>1. /\ line \in Nat \ {0} /\ line <= Len(config) /\ config[line].key # Keys[setting]
      /\ line' = line + 1 /\ setting' = setting /\ settings' = settings
      /\ loading' = loading /\ config' = config /\ loading = "reading"
    BY DEF ConfigInv, configGetAll, NextLine, matches
<1>2. ASSUME NEW p \in [Settings -> Nat], Marks(p, config, line, setting, settings)
      PROVE  Marks(p, config', line', setting', settings')
  <2>1. ASSUME NEW k \in Settings, k < setting PROVE p[k] < line + 1
    <3>1. p[k] \in Nat /\ p[k] < line
        BY <1>2, <2>1 DEF Marks
    <3> QED
        BY <1>1, <3>1
  <2> QED
      BY <1>1, <1>2, <2>1 DEF Marks
<1>3. ~Exact(config)
  <2>1. Exact(config) => line = setting /\ setting \in Settings
      BY <1>1 DEF ConfigInv
  <2> QED
      BY <1>1, <2>1 DEF Exact
<1> QED
    BY <1>1, <1>2, <1>3 DEF ConfigInv

(* The next setting gets the line it is found at as its mark.              *)
LEMMA FoundStep == ConfigInv /\ configGetAll /\ Found => ConfigInv'
<1> SUFFICES ASSUME ConfigInv, configGetAll, Found PROVE ConfigInv'
    OBVIOUS
<1> DEFINE v == config[line].value
<1>1. /\ line \in Nat \ {0} /\ line <= Len(config) /\ config[line].key = Keys[setting]
      /\ config' = config /\ loading = "reading" /\ setting \in Settings
      /\ config \in Seq(Lines) /\ DOMAIN settings = Settings
    BY DEF ConfigInv, configGetAll, Found, matches
<1>2. Exact(config) => line = setting
    BY <1>1 DEF ConfigInv
<1>3. PICK p \in [Settings -> Nat] : Marks(p, config, line, setting, settings)
    BY DEF ConfigInv
<1>4. CASE v = NoValue
  <2>1. loading' = "crashed" /\ line' = line /\ setting' = setting /\ settings' = settings
      BY <1>4 DEF Found
  <2>2. Marks(p, config', line', setting', settings')
      BY <1>1, <1>3, <2>1
  <2>3. Exact(config) => Missing(config', setting)
      BY <1>1, <1>2, <1>4 DEF Missing
  <2> QED
      BY <1>1, <1>2, <2>1, <2>2, <2>3 DEF ConfigInv
<1>5. CASE v # NoValue
  <2> DEFINE u == Unit(setting, v)
             q == [p EXCEPT ![setting] = line]
  <2>1. /\ settings' = [settings EXCEPT ![setting] = u]
        /\ line' = line + 1 /\ setting' = setting + 1
        /\ loading' = IF Keys[setting] = "socket_name" THEN "loaded"
                      ELSE IF u = 0 THEN "refused" ELSE "reading"
      BY <1>5 DEF Found, afterFound
  <2> HIDE DEF u
  <2>2. /\ loading' = IF setting = 6 THEN "loaded" ELSE IF u = 0 THEN "refused" ELSE "reading"
        /\ setting' \in 1 .. 7 /\ line' \in Nat \ {0}
      BY <1>1, <2>1, KeysAre DEF Settings
  <2>3. q \in [Settings -> Nat] /\ q[setting] = line /\ \A k \in Settings : k # setting => q[k] = p[k]
      BY <1>1
  <2> HIDE DEF q
  <2>4. ASSUME NEW k \in Settings, k < setting'
        PROVE  /\ q[k] \in 1 .. Len(config) /\ q[k] < line'
               /\ config[q[k]].key = Keys[k] /\ config[q[k]].value # NoValue
               /\ settings'[k] = Unit(k, config[q[k]].value)
    <3>1. CASE k = setting
      <4>1. line \in 1 .. Len(config) /\ line < line + 1
        <5>1. Len(config) \in Nat
            BY <1>1, LenProperties
        <5> QED
            BY <1>1, <5>1
      <4>2. settings'[k] = u
          BY <1>1, <2>1, <3>1
      <4>3. q[k] = line
          BY <2>3, <3>1
      <4>4. /\ config[q[k]].key = Keys[k] /\ config[q[k]].value # NoValue
            /\ u = Unit(k, config[q[k]].value)
          BY <1>1, <1>5, <3>1, <4>3 DEF u
      <4> HIDE DEF v
      <4> QED
          BY <2>1, <4>1, <4>2, <4>3, <4>4
    <3>2. CASE k # setting
      <4>1. k < setting /\ q[k] = p[k] /\ settings'[k] = settings[k]
        <5>1. setting' = setting + 1
            BY <2>1
        <5>2. k < setting
            BY <1>1, <2>4, <3>2, <5>1 DEF Settings
        <5>3. settings'[k] = settings[k]
            BY <1>1, <2>1, <3>2
        <5> QED
            BY <2>3, <3>2, <5>2, <5>3
      <4>2. /\ p[k] \in 1 .. Len(config) /\ p[k] < line
            /\ config[p[k]].key = Keys[k] /\ config[p[k]].value # NoValue
            /\ settings[k] = Unit(k, config[p[k]].value)
          BY <1>3, <4>1 DEF Marks
      <4>3. p[k] < line + 1
          BY <1>1, <4>2
      <4>4. config[q[k]].key = Keys[k] /\ settings'[k] = Unit(k, config[q[k]].value)
          BY <4>1, <4>2
      <4> HIDE DEF v
      <4> QED
          BY <2>1, <4>1, <4>2, <4>3, <4>4
    <3> QED
        BY <3>1, <3>2
  <2>5. ASSUME NEW k \in Settings, k + 1 < setting' PROVE q[k] < q[k + 1]
    <3>1. k + 1 \in Settings /\ k < setting /\ k # setting
        BY <1>1, <2>1, <2>5 DEF Settings
    <3>2. CASE k + 1 = setting
      <4>1. p[k] < line /\ q[k] = p[k] /\ q[k + 1] = line
          BY <1>3, <2>3, <3>1, <3>2 DEF Marks
      <4> QED
          BY <4>1
    <3>3. CASE k + 1 # setting
      <4>1. k + 1 < setting /\ q[k] = p[k] /\ q[k + 1] = p[k + 1]
        <5>1. setting' = setting + 1
            BY <2>1
        <5>2. k + 1 < setting
            BY <1>1, <2>5, <3>3, <5>1 DEF Settings
        <5> QED
            BY <2>3, <3>1, <3>3, <5>2
      <4> QED
          BY <1>3, <4>1 DEF Marks
    <3> QED
        BY <3>2, <3>3
  <2>6. Marks(q, config', line', setting', settings')
    <3> HIDE DEF v
    <3> QED
        BY <1>1, <2>4, <2>5 DEF Marks
  <2>7. ASSUME NEW k \in Settings, k >= setting' PROVE settings'[k] = NoValue
    <3>1. k # setting /\ k >= setting
      <4> HIDE DEF v
      <4> QED
          BY <1>1, <2>1, <2>7 DEF Settings
    <3>2. settings'[k] = settings[k]
        BY <1>1, <2>1, <3>1
    <3>3. settings[k] = NoValue
        BY <3>1 DEF ConfigInv
    <3> QED
        BY <3>2, <3>3
  <2>8. DOMAIN settings' = Settings
      BY <1>1, <2>1
  <2>9. Exact(config) => /\ loading' = "reading" => line' = setting'
                         /\ loading' \in {"refused", "crashed"} => Missing(config', setting)
    <3>1. Exact(config) => (u = 0 => Missing(config', setting))
        BY <1>1, <1>2 DEF Missing, u
    <3> HIDE DEF v
    <3> QED
        BY <1>2, <2>1, <2>2, <3>1
  <2>10. /\ loading' = "reading" => setting' \in Settings
         /\ loading' = "loaded" => setting' = 7
         /\ loading' \in {"reading", "loaded", "refused", "crashed"}
      BY <1>1, <2>1, <2>2 DEF Settings
  <2> HIDE DEF v
  <2> QED
      BY <1>1, <2>2, <2>3, <2>6, <2>7, <2>8, <2>9, <2>10 DEF ConfigInv
<1> QED
    BY <1>4, <1>5

(* The invariant of the reader is inductive.                                *)
LEMMA ConfigStep == ConfigInv /\ [configGetAll]_configVars => ConfigInv'
<1> SUFFICES ASSUME ConfigInv, [configGetAll]_configVars PROVE ConfigInv'
    OBVIOUS
<1>1. CASE configGetAll /\ NextLine
    BY <1>1, NextLineStep
<1>2. CASE configGetAll /\ Found
    BY <1>2, FoundStep
<1>3. CASE configGetAll /\ EndOfFile
  <2>1. /\ line > Len(config) /\ loading' = "crashed" /\ line' = line /\ setting' = setting
        /\ settings' = settings /\ config' = config /\ loading = "reading"
      BY <1>3 DEF configGetAll, EndOfFile
  <2>2. ~Exact(config)
    <3>1. Exact(config) => line = setting /\ setting \in Settings
        BY <2>1 DEF ConfigInv
    <3> QED
        BY <2>1, <3>1 DEF Exact, Settings
  <2>3. ASSUME NEW p \in [Settings -> Nat], Marks(p, config, line, setting, settings)
        PROVE  Marks(p, config', line', setting', settings')
      BY <2>1, <2>3
  <2> QED
      BY <2>1, <2>2, <2>3 DEF ConfigInv
<1>4. CASE UNCHANGED configVars
    BY <1>4 DEF configVars, ConfigInv
<1> QED
    BY <1>1, <1>2, <1>3, <1>4 DEF configGetAll

(* A size that is an int in bytes is kept.                                 *)
LEMMA UnitOfSize ==
    ASSUME NEW k \in {1, 2}, NEW v \in Int
    PROVE  Unit(k, v) = v \/ v \notin -half(k) .. half(k) - 1
<1>1. half(k) \in Int /\ half(k) > 0
    BY SMT DEF half
<1>2. Unit(k, v) = wrapped(v, half(k))
    BY KeysAre DEF Unit
<1> DEFINE h == half(k)
<1> HIDE DEF h
<1>3. ASSUME -h <= v, v < h PROVE wrapped(v, h) = v
  <2>1. /\ h \in Int /\ v + h \in Int /\ 2 * h \in Int /\ 0 <= v + h /\ v + h < 2 * h
        /\ (v + h) - h = v
      BY <1>1, <1>3 DEF h
  <2>2. \A x, m \in Int : 0 <= x /\ x < m => x % m = x
      OBVIOUS
  <2>3. (v + h) % (2 * h) = v + h
      BY <2>1, <2>2
  <2> QED
      BY <2>1, <2>3 DEF wrapped
<1>4. v \in -h .. h - 1 => -h <= v /\ v < h
    BY <1>1 DEF h
<1>5. wrapped(v, h) = v \/ v \notin -h .. h - 1
    BY <1>3, <1>4
<1> QED
    BY <1>2, <1>5 DEF h

(* Six lines that are read in order are all the lines there are.           *)
LEMMA ReadingsExact ==
    ASSUME config \in Seq(Lines), Len(config) = 6, Readings # {}
    PROVE  Exact(config)
<1>1. PICK at \in Given(1) \X Given(2) \X Given(3) \X Given(4) \X Given(5) \X Given(6) :
          \A k \in 1 .. 5 : at[k] < at[k + 1]
    BY DEF Readings
<1>2. /\ at[1] \in Given(1) /\ at[2] \in Given(2) /\ at[3] \in Given(3)
      /\ at[4] \in Given(4) /\ at[5] \in Given(5) /\ at[6] \in Given(6)
    BY <1>1
<1>3. DOMAIN config = 1 .. 6
    BY LenProperties
<1>4. /\ at[1] < at[2] /\ at[2] < at[3] /\ at[3] < at[4] /\ at[4] < at[5] /\ at[5] < at[6]
  <2>1. 1 \in 1 .. 5 /\ 2 \in 1 .. 5 /\ 3 \in 1 .. 5 /\ 4 \in 1 .. 5 /\ 5 \in 1 .. 5
      OBVIOUS
  <2>2. 1 + 1 = 2 /\ 2 + 1 = 3 /\ 3 + 1 = 4 /\ 4 + 1 = 5 /\ 5 + 1 = 6
      OBVIOUS
  <2> QED
      BY <1>1, <2>1, <2>2
<1>5. /\ at[1] \in 1 .. 6 /\ at[2] \in 1 .. 6 /\ at[3] \in 1 .. 6
      /\ at[4] \in 1 .. 6 /\ at[5] \in 1 .. 6 /\ at[6] \in 1 .. 6
    BY <1>2, <1>3 DEF Given
<1>6. at[1] = 1 /\ at[2] = 2 /\ at[3] = 3 /\ at[4] = 4 /\ at[5] = 5 /\ at[6] = 6
    BY <1>4, <1>5
<1>7. /\ config[1].key = Keys[1] /\ config[2].key = Keys[2] /\ config[3].key = Keys[3]
      /\ config[4].key = Keys[4] /\ config[5].key = Keys[5] /\ config[6].key = Keys[6]
    BY <1>2, <1>6 DEF Given
<1>8. \A k \in Settings : k = 1 \/ k = 2 \/ k = 3 \/ k = 4 \/ k = 5 \/ k = 6
    BY DEF Settings
<1> QED
    BY <1>7, <1>8 DEF Exact

(* The marks of a server that has all its settings are a reading.          *)
LEMMA MarksAreReading ==
    ASSUME config \in Seq(Lines), setting = 7, NEW p \in [Settings -> Nat],
           Marks(p, config, line, setting, settings)
    PROVE  \E at \in Readings : \A k \in DOMAIN Keys : settings[k] = Unit(k, config[at[k]].value)
<1> DEFINE at == <<p[1], p[2], p[3], p[4], p[5], p[6]>>
<1>1. \A k \in Settings : k = 1 \/ k = 2 \/ k = 3 \/ k = 4 \/ k = 5 \/ k = 6
    BY DEF Settings
<1>2. /\ at[1] = p[1] /\ at[2] = p[2] /\ at[3] = p[3]
      /\ at[4] = p[4] /\ at[5] = p[5] /\ at[6] = p[6]
    OBVIOUS
<1>3. \A k \in Settings : at[k] = p[k]
  <2> HIDE DEF at
  <2> QED
      BY <1>1, <1>2
<1>4. ASSUME NEW k \in Settings
      PROVE  p[k] \in Given(k) /\ settings[k] = Unit(k, config[p[k]].value)
  <2>1. k < setting
      BY DEF Settings
  <2>2. DOMAIN config = 1 .. Len(config)
      BY LenProperties
  <2> QED
      BY <2>1, <2>2 DEF Marks, Given
<1>5. at \in Given(1) \X Given(2) \X Given(3) \X Given(4) \X Given(5) \X Given(6)
  <2>1. 1 \in Settings /\ 2 \in Settings /\ 3 \in Settings /\ 4 \in Settings /\ 5 \in Settings /\ 6 \in Settings
      BY DEF Settings
  <2>2. /\ p[1] \in Given(1) /\ p[2] \in Given(2) /\ p[3] \in Given(3)
        /\ p[4] \in Given(4) /\ p[5] \in Given(5) /\ p[6] \in Given(6)
      BY <1>4, <2>1
  <2> QED
      BY <2>2
<1> HIDE DEF at
<1>6. ASSUME NEW k \in 1 .. 5 PROVE at[k] < at[k + 1]
  <2>1. k \in Settings /\ k + 1 \in Settings /\ k + 1 < setting
      BY DEF Settings
  <2>2. p[k] < p[k + 1]
      BY <2>1 DEF Marks
  <2> QED
      BY <1>3, <2>1, <2>2
<1>7. at \in Readings
    BY <1>5, <1>6 DEF Readings
<1> QED
    BY <1>3, <1>4, <1>7, KeysAre

(* The invariant gives what the run checks.                                 *)
LEMMA ConfigRight == ConfigInv => LoadedAsWritten
<1> SUFFICES ASSUME ConfigInv PROVE LoadedAsWritten
    OBVIOUS
<1>1. config \in Seq(Lines) /\ DOMAIN Keys = Settings /\ Len(Keys) = 6
    BY KeysAre DEF ConfigInv
<1>2. PICK p \in [Settings -> Nat] : Marks(p, config, line, setting, settings)
    BY DEF ConfigInv
<1>3. loading = "loaded" =>
          \E at \in Readings : \A k \in DOMAIN Keys : settings[k] = Unit(k, config[at[k]].value)
  <2>1. loading = "loaded" => setting = 7
      BY DEF ConfigInv
  <2> QED
      BY <1>1, <1>2, <2>1, MarksAreReading
<1>4. (loading \notin {"loaded", "reading"} /\ Len(config) = Len(Keys) /\ Readings # {}) =>
          \E k \in DOMAIN Keys : config[k].value = NoValue \/ Unit(k, config[k].value) = 0
  <2> SUFFICES ASSUME loading \notin {"loaded", "reading"}, Len(config) = Len(Keys), Readings # {}
               PROVE  \E k \in Settings : Missing(config, k)
      BY <1>1 DEF Missing
  <2>1. Exact(config)
      BY <1>1, ReadingsExact
  <2> QED
      BY <2>1 DEF ConfigInv
<1>5. ASSUME NEW k \in {1, 2}, settings[k] # NoValue
      PROVE  \E n \in DOMAIN config :
                 /\ config[n].key = Keys[k] /\ config[n].value # NoValue /\ config[n].value \in Int
                 /\ settings[k] = Unit(k, config[n].value)
  <2>1. k \in Settings /\ setting \in 1 .. 7
      BY DEF Settings, ConfigInv
  <2>2. k < setting
    <3>1. ~(k >= setting)
        BY <1>5, <2>1 DEF ConfigInv
    <3> QED
        BY <2>1, <3>1 DEF Settings
  <2>3. /\ p[k] \in 1 .. Len(config) /\ config[p[k]].key = Keys[k] /\ config[p[k]].value # NoValue
        /\ settings[k] = Unit(k, config[p[k]].value)
      BY <1>2, <2>1, <2>2 DEF Marks
  <2>4. config[p[k]] \in Lines /\ p[k] \in DOMAIN config
      BY <1>1, <2>3, ElementOfSeq, LenProperties
  <2>5. config[p[k]].value \in Int
      BY <2>3, <2>4 DEF Lines
  <2> QED
      BY <2>3, <2>4, <2>5
<1>6. ASSUME NEW k \in {1, 2}, settings[k] # NoValue
      PROVE  \E n \in DOMAIN config :
                 /\ config[n].key = Keys[k] /\ config[n].value # NoValue
                 /\ settings[k] = config[n].value \/ config[n].value \notin -half(k) .. half(k) - 1
    BY <1>5, <1>6, UnitOfSize
<1> QED
    BY <1>3, <1>4, <1>6 DEF LoadedAsWritten

(* Whatever the file, the server comes up only with six settings read in   *)
(* the order of configGetAll, each the value of its line; a file of just   *)
(* those six lines brings it up unless a value is missing or zero; and a   *)
(* size is as written unless its bytes are no int (config.c:46-62).        *)
THEOREM SettingsAreAsWritten == ConfigSpec => []LoadedAsWritten
<1>1. ConfigInit => ConfigInv
    BY ConfigInitInv
<1>2. ConfigInv /\ [configGetAll]_configVars => ConfigInv'
    BY ConfigStep
<1>3. ConfigInv => LoadedAsWritten
    BY ConfigRight
<1> QED
    BY <1>1, <1>2, <1>3, PTL DEF ConfigSpec

=============================================================================
