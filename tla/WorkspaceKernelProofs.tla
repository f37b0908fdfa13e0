------------------------ MODULE WorkspaceKernelProofs ------------------------
(***************************************************************************)
(* Proofs about the kernel of workspace-mcp: what the operations of a      *)
(* BoundedStore do, for every store; from these, that a store gives its    *)
(* caller what it set (StoreHistory), and the properties of the kernel     *)
(* over its four stores (WorkspaceKernel).                                 *)
(***************************************************************************)
EXTENDS WorkspaceKernel, StoreHistory, FiniteSetTheorems, TLAPS

-----------------------------------------------------------------------------
(***************************************************************************)
(* Pick, which keeps some of the entries of a sequence in their order.     *)
(* Rank numbers the places that are kept from 1 on, in their order.        *)
(***************************************************************************)

LEMMA RankIncreases ==
  ASSUME NEW n \in Nat, NEW P \in SUBSET (1..n)
  PROVE  /\ IsFiniteSet(P) /\ Cardinality(P) \in 0..n
         /\ \A i \in P : Rank(P, i) \in 1..Cardinality(P)
         /\ \A i, j \in P : i < j => Rank(P, i) < Rank(P, j)
<1>1. IsFiniteSet(1..n) /\ Cardinality(1..n) = n
  BY FS_Interval
<1>2. IsFiniteSet(P) /\ Cardinality(P) \in 0..n /\ \A i \in P : i \in Int
  <2>1. IsFiniteSet(P) /\ Cardinality(P) <= n
    BY <1>1, FS_Subset
  <2>2. Cardinality(P) \in Nat
    BY <2>1, FS_CardinalityType
  <2> QED
    BY <2>1, <2>2
<1>3. ASSUME NEW i \in P
      PROVE  /\ IsFiniteSet({h \in P : h <= i}) /\ Rank(P, i) \in Nat
             /\ Rank(P, i) <= Cardinality(P) /\ Rank(P, i) # 0
  <2>1. {h \in P : h <= i} \in SUBSET P /\ i \in {h \in P : h <= i}
    OBVIOUS
  <2> QED
    BY <1>2, <2>1, FS_Subset, FS_CardinalityType, FS_EmptySet DEF Rank
<1>4. ASSUME NEW i \in P, NEW j \in P, i < j PROVE Rank(P, i) < Rank(P, j)
  <2>1. {h \in P : h <= i} \in SUBSET {h \in P : h <= j}
    <3>1. \A h \in P : h <= i => h <= j
      BY <1>2, <1>4
    <3> QED
      BY <3>1
  <2>2. {h \in P : h <= i} # {h \in P : h <= j}
    <3>1. j \in {h \in P : h <= j} /\ j \notin {h \in P : h <= i}
      BY <1>2, <1>4
    <3> QED
      BY <3>1
  <2>3. Rank(P, i) \in Nat /\ Rank(P, j) \in Nat /\ IsFiniteSet({h \in P : h <= j})
    BY <1>3
  <2> QED
    BY <2>1, <2>2, <2>3, FS_Subset DEF Rank
<1>5. ASSUME NEW i \in P PROVE Rank(P, i) \in 1..Cardinality(P)
  <2>1. Rank(P, i) \in Nat /\ Rank(P, i) <= Cardinality(P) /\ Rank(P, i) # 0
    BY <1>3, Zenon
  <2>2. Cardinality(P) \in Nat
    BY <1>2
  <2> QED
    BY <2>1, <2>2
<1> QED
  BY <1>2, <1>4, <1>5

\* Every number up to that of the places is the rank of one of them.
LEMMA RankReaches ==
  ASSUME NEW n \in Nat, NEW P \in SUBSET (1..n), NEW m \in 1..Cardinality(P)
  PROVE  \E i \in P : Rank(P, i) = m
<1> DEFINE f == [i \in P |-> Rank(P, i)]
           c == Cardinality(P)
<1>1. f \in [P -> 1..c] /\ c \in Nat
  BY RankIncreases
<1>2. \A i, j \in P : f[i] = f[j] => i = j
  BY RankIncreases
<1>3. f \in Injection(P, 1..c)
  BY <1>1, <1>2 DEF Injection, IsInjective
<1>4. IsFiniteSet(1..c) /\ Cardinality(1..c) = c
  BY <1>1, FS_Interval
<1>5. f \in Surjection(P, 1..c)
  BY <1>3, <1>4, FS_Injection
<1> QED
  BY <1>5 DEF Surjection

\* The place of rank m.
Place(P, m) == CHOOSE i \in P : Rank(P, i) = m

LEMMA PlacesInOrder ==
  ASSUME NEW n \in Nat, NEW P \in SUBSET (1..n)
  PROVE  /\ \A m \in 1..Cardinality(P) : Place(P, m) \in P /\ Rank(P, Place(P, m)) = m
         /\ \A l, m \in 1..Cardinality(P) : l < m => Place(P, l) < Place(P, m)
         /\ \A i \in P : Place(P, Rank(P, i)) = i
<1>1. \A m \in 1..Cardinality(P) : Place(P, m) \in P /\ Rank(P, Place(P, m)) = m
  BY RankReaches DEF Place
<1>2. ASSUME NEW l \in 1..Cardinality(P), NEW m \in 1..Cardinality(P), l < m
      PROVE  Place(P, l) < Place(P, m)
  <2> DEFINE a == Place(P, l)
             b == Place(P, m)
  <2>1. a \in P /\ b \in P /\ Rank(P, a) = l /\ Rank(P, b) = m
    BY <1>1
  <2> HIDE DEF a, b
  <2>2. b < a => Rank(P, b) < Rank(P, a)
    BY <2>1, RankIncreases
  <2>3. a \in Int /\ b \in Int /\ l \in Int /\ m \in Int
    BY <2>1, RankIncreases
  <2> QED
    BY <1>2, <2>1, <2>2, <2>3 DEF a, b
<1>3. ASSUME NEW i \in P PROVE Place(P, Rank(P, i)) = i
  <2> DEFINE a == Place(P, Rank(P, i))
  <2>1. a \in P /\ Rank(P, a) = Rank(P, i)
    BY <1>1, RankIncreases
  <2> HIDE DEF a
  <2>2. (a < i => Rank(P, a) < Rank(P, i)) /\ (i < a => Rank(P, i) < Rank(P, a))
    BY <2>1, RankIncreases
  <2>3. a \in Int /\ i \in Int
    BY <2>1
  <2>4. Rank(P, i) \in 1..Cardinality(P)
    BY RankIncreases
  <2> QED
    BY <2>1, <2>2, <2>3, <2>4 DEF a
<1> QED
  BY <1>1, <1>2, <1>3

\* The entries of a store s are among those of a store u, in the same order.
Increases(e) == \A l, m \in DOMAIN e : l < m => e[l] < e[m]

Places(s, u) == {e \in [1..Len(s) -> 1..Len(u)] : Increases(e) /\ \A m \in 1..Len(s) : s[m] = u[e[m]]}

LEMMA PickIsSequence ==
  ASSUME NEW S, NEW s \in Seq(S), NEW P \in SUBSET DOMAIN s
  PROVE  /\ Pick(s, P) \in Seq(S)
         /\ Len(Pick(s, P)) = Cardinality(P) /\ Cardinality(P) \in 0..Len(s)
         /\ \A m \in 1..Cardinality(P) : Place(P, m) \in P /\ Pick(s, P)[m] = s[Place(P, m)]
<1>1. Len(s) \in Nat /\ DOMAIN s = 1..Len(s) /\ P \in SUBSET (1..Len(s))
  OBVIOUS
<1>2. Cardinality(P) \in 0..Len(s)
  BY <1>1, RankIncreases
<1>3. \A m \in 1..Cardinality(P) : Place(P, m) \in P
  BY <1>1, PlacesInOrder
<1>4. Pick(s, P) = [m \in 1..Cardinality(P) |-> s[Place(P, m)]]
  BY DEF Pick, Place
<1>5. \A m \in 1..Cardinality(P) : s[Place(P, m)] \in S
  BY <1>1, <1>3
<1>6. Pick(s, P) \in [1..Cardinality(P) -> S]
  BY <1>4, <1>5
<1>7. Cardinality(P) \in Nat
  BY <1>1, <1>2
<1>8. Pick(s, P) \in Seq(S) /\ Len(Pick(s, P)) = Cardinality(P)
  BY <1>6, <1>7
<1> QED
  BY <1>2, <1>3, <1>4, <1>8

\* What is picked is what was at the places, and nothing else.
LEMMA PickKeeps ==
  ASSUME NEW S, NEW s \in Seq(S), NEW P \in SUBSET DOMAIN s
  PROVE  /\ \A m \in DOMAIN Pick(s, P) : \E i \in P : Pick(s, P)[m] = s[i]
         /\ \A i \in P : \E m \in DOMAIN Pick(s, P) : Pick(s, P)[m] = s[i]
         /\ StoreKeys(Pick(s, P)) = {s[i].key : i \in P}
<1>1. Len(s) \in Nat /\ P \in SUBSET (1..Len(s)) /\ DOMAIN Pick(s, P) = 1..Cardinality(P)
  BY DEF Pick
<1>2. \A m \in DOMAIN Pick(s, P) : \E i \in P : Pick(s, P)[m] = s[i]
  BY <1>1, PickIsSequence
<1>3. ASSUME NEW i \in P PROVE \E m \in DOMAIN Pick(s, P) : Pick(s, P)[m] = s[i]
  <2>1. Rank(P, i) \in 1..Cardinality(P) /\ Place(P, Rank(P, i)) = i
    BY <1>1, RankIncreases, PlacesInOrder
  <2> QED
    BY <1>1, <2>1, PickIsSequence
<1>4. StoreKeys(Pick(s, P)) = {s[i].key : i \in P}
  BY <1>2, <1>3 DEF StoreKeys
<1> QED
  BY <1>2, <1>3, <1>4

LEMMA PickIsAmong ==
  ASSUME NEW S, NEW s \in Seq(S), NEW P \in SUBSET DOMAIN s
  PROVE  [m \in 1..Cardinality(P) |-> Place(P, m)] \in Places(Pick(s, P), s)
<1> DEFINE e == [m \in 1..Cardinality(P) |-> Place(P, m)]
<1>1. Len(s) \in Nat /\ P \in SUBSET (1..Len(s)) /\ Len(Pick(s, P)) = Cardinality(P)
  BY PickIsSequence
<1>2. e \in [1..Len(Pick(s, P)) -> 1..Len(s)]
  BY <1>1, PlacesInOrder
<1>3. Increases(e)
  BY <1>1, PlacesInOrder DEF Increases
<1>4. \A m \in 1..Len(Pick(s, P)) : Pick(s, P)[m] = s[e[m]]
  BY <1>1, PickIsSequence
<1> QED
  BY <1>2, <1>3, <1>4 DEF Places

\* Places that increase are those of the ranks.
LEMMA IncreasingIsRanked ==
  ASSUME NEW n \in Nat, NEW c \in Nat, NEW e \in [1..c -> 1..n], Increases(e)
  PROVE  /\ Cardinality({e[m] : m \in 1..c}) = c
         /\ \A m \in 1..c : Rank({e[l] : l \in 1..c}, e[m]) = m
<1> DEFINE P == {e[m] : m \in 1..c}
<1>1. P \in SUBSET (1..n) /\ \A l, m \in 1..c : e[l] \in Int /\ (e[l] <= e[m] <=> l <= m)
  <2>1. \A l \in 1..c : e[l] \in Int /\ e[l] \in 1..n
    OBVIOUS
  <2>2. ASSUME NEW l \in 1..c, NEW m \in 1..c PROVE e[l] <= e[m] <=> l <= m
    <3>1. (l < m => e[l] < e[m]) /\ (m < l => e[m] < e[l])
      BY DEF Increases
    <3> QED
      BY <2>1, <3>1
  <2> QED
    BY <2>1, <2>2
<1>2. ASSUME NEW m \in 0..c PROVE Cardinality({e[l] : l \in 1..m}) = m
  <2> DEFINE f == [l \in 1..m |-> e[l]]
  <2>1. f \in [1..m -> {e[l] : l \in 1..m}] /\ \A x \in {e[l] : l \in 1..m} : \E l \in 1..m : f[l] = x
    OBVIOUS
  <2>2. f \in Bijection(1..m, {e[l] : l \in 1..m})
    <3>1. \A k, l \in 1..m : f[k] = f[l] => k = l
      <4> SUFFICES ASSUME NEW k \in 1..m, NEW l \in 1..m, e[k] = e[l] PROVE k = l
        OBVIOUS
      <4>1. k \in 1..c /\ l \in 1..c
        OBVIOUS
      <4> QED
        BY <1>1, <4>1
    <3> QED
      BY <2>1, <3>1 DEF Bijection, Injection, Surjection, IsInjective
  <2> QED
    BY <2>2, FS_CountingElements DEF ExistsBijection
<1>3. ASSUME NEW m \in 1..c PROVE Rank(P, e[m]) = m
  <2>1. {h \in P : h <= e[m]} = {e[l] : l \in 1..m}
    <3>1. \A l \in 1..m : l \in 1..c /\ e[l] <= e[m]
      BY <1>1
    <3>2. \A l \in 1..c : e[l] <= e[m] => l \in 1..m
      BY <1>1
    <3> QED
      BY <3>1, <3>2
  <2>2. m \in 0..c
    OBVIOUS
  <2>3. Cardinality({e[l] : l \in 1..m}) = m
    BY <1>2, <2>2
  <2>4. Rank(P, e[m]) = Cardinality({h \in P : h <= e[m]})
    BY DEF Rank
  <2> HIDE DEF P
  <2> QED
    BY <2>1, <2>3, <2>4
<1>4. Cardinality(P) = c
  BY <1>2
<1> QED
  BY <1>3, <1>4

\* What is among the entries of u is what can be picked at its places there.
LEMMA AmongIsPicked ==
  ASSUME NEW S, NEW s \in Seq(S), NEW u \in Seq(S), NEW e \in Places(s, u)
  PROVE  s = Pick(u, {e[m] : m \in 1..Len(s)})
<1> DEFINE c == Len(s)
           P == {e[m] : m \in 1..c}
<1>1. c \in Nat /\ Len(u) \in Nat /\ DOMAIN s = 1..c
  OBVIOUS
<1>2. e \in [1..c -> 1..Len(u)] /\ Increases(e) /\ \A m \in 1..c : s[m] = u[e[m]]
  BY DEF Places
<1>3. P \in SUBSET (1..Len(u))
  BY <1>2
<1> HIDE DEF c
<1>4. Cardinality(P) = c /\ \A m \in 1..c : Rank(P, e[m]) = m
  BY <1>1, <1>2, IncreasingIsRanked
<1>5. ASSUME NEW m \in 1..c PROVE Place(P, m) = e[m]
  <2>1. e[m] \in P /\ Rank(P, e[m]) = m
    BY <1>4
  <2> HIDE DEF P
  <2>2. Place(P, Rank(P, e[m])) = e[m]
    BY <1>1, <1>3, <2>1, PlacesInOrder
  <2> QED
    BY <2>1, <2>2
<1>6. Pick(u, P) = [m \in 1..c |-> u[Place(P, m)]]
  BY <1>4 DEF Pick, Place
<1>7. s = [m \in 1..c |-> s[m]]
  BY <1>1 DEF c
<1>8. s = Pick(u, P)
  <2>1. \A m \in 1..c : s[m] = u[Place(P, m)]
    BY <1>2, <1>5
  <2> HIDE DEF P
  <2> QED
    BY <1>6, <1>7, <2>1
<1> QED
  BY <1>8 DEF c

\* All places together.
LEMMA PickAll ==
  ASSUME NEW S, NEW s \in Seq(S) PROVE Pick(s, 1..Len(s)) = s
<1> DEFINE e == [m \in 1..Len(s) |-> m]
<1>1. e \in Places(s, s)
  BY DEF Places, Increases
<1>2. {e[m] : m \in 1..Len(s)} = 1..Len(s)
  OBVIOUS
<1> QED
  BY <1>1, <1>2, AmongIsPicked

-----------------------------------------------------------------------------
(***************************************************************************)
(* The operations of BoundedStore, on stores that have no key twice.       *)
(***************************************************************************)

Distinct(s) == \A i, j \in DOMAIN s : s[i].key = s[j].key => i = j

Stores(K, V, T) == {s \in Seq([key : K, value : V, seen : T]) : Distinct(s)}

\* q holds no entry but those of s.
Within(q, s) == \A i \in DOMAIN q : \E j \in DOMAIN s : q[i] = s[j]

LEMMA ValueAt ==
  ASSUME NEW s, Distinct(s), NEW i \in DOMAIN s
  PROVE  Has(s, s[i].key) /\ ValueOf(s, s[i].key) = s[i].value
<1> DEFINE j == CHOOSE n \in DOMAIN s : s[n].key = s[i].key
<1>1. j \in DOMAIN s /\ s[j].key = s[i].key
  OBVIOUS
<1>2. j = i
  BY <1>1 DEF Distinct
<1> QED
  BY <1>2 DEF Has, StoreKeys, ValueOf

LEMMA WithinAgrees ==
  ASSUME NEW q, NEW s, Distinct(q), Distinct(s), Within(q, s), NEW k, Has(q, k)
  PROVE  Has(s, k) /\ ValueOf(q, k) = ValueOf(s, k)
<1>1. PICK i \in DOMAIN q : q[i].key = k
  BY DEF Has, StoreKeys
<1>2. PICK j \in DOMAIN s : q[i] = s[j]
  BY DEF Within
<1>3. ValueOf(q, k) = q[i].value /\ ValueOf(s, k) = s[j].value /\ Has(s, k)
  BY <1>1, <1>2, ValueAt
<1> QED
  BY <1>2, <1>3

LEMMA PickStore ==
  ASSUME NEW K, NEW V, NEW T, NEW s \in Stores(K, V, T), NEW P \in SUBSET DOMAIN s
  PROVE  /\ Pick(s, P) \in Stores(K, V, T) /\ Within(Pick(s, P), s)
         /\ Len(Pick(s, P)) <= Len(s) /\ (Len(Pick(s, P)) = Len(s) => Pick(s, P) = s)
<1> DEFINE S == [key : K, value : V, seen : T]
           q == Pick(s, P)
<1>1. s \in Seq(S) /\ Distinct(s)
  BY DEF Stores
<1> HIDE DEF S
<1>2. /\ q \in Seq(S) /\ Len(q) = Cardinality(P) /\ Cardinality(P) \in 0..Len(s)
      /\ \A m \in 1..Cardinality(P) : Place(P, m) \in P /\ q[m] = s[Place(P, m)]
  BY <1>1, PickIsSequence
<1>3. Len(s) \in Nat /\ P \in SUBSET (1..Len(s)) /\ DOMAIN q = 1..Cardinality(P)
  BY <1>1, <1>2
<1>4. Within(q, s)
  BY <1>2, <1>3 DEF Within
<1>5. Distinct(q)
  <2> SUFFICES ASSUME NEW l \in DOMAIN q, NEW m \in DOMAIN q, q[l].key = q[m].key
               PROVE  l = m
    BY DEF Distinct
  <2>1. l \in 1..Cardinality(P) /\ m \in 1..Cardinality(P)
    BY <1>3
  <2>2. Place(P, l) = Place(P, m)
    BY <1>1, <1>2, <2>1 DEF Distinct
  <2>3. Rank(P, Place(P, l)) = l /\ Rank(P, Place(P, m)) = m
    BY <1>3, <2>1, PlacesInOrder
  <2> QED
    BY <2>2, <2>3
<1>6. Len(q) = Len(s) => q = s
  <2> SUFFICES ASSUME Len(q) = Len(s) PROVE q = s
    OBVIOUS
  <2> DEFINE n == Len(s)
  <2>0. n \in Nat
    BY <1>3
  <2> HIDE DEF n
  <2>1. IsFiniteSet(1..n) /\ Cardinality(1..n) = n
    BY <2>0, FS_Interval
  <2>2. P = 1..Len(s)
    BY <1>2, <1>3, <2>1, FS_Subset DEF n
  <2> QED
    BY <1>1, <2>2, PickAll
<1>7. q \in Stores(K, V, T)
  BY <1>2, <1>5 DEF Stores, S
<1>8. Len(q) <= Len(s)
  BY <1>2, <1>3
<1> QED
  BY <1>4, <1>6, <1>7, <1>8

\* _evict_expired
LEMMA LiveStore ==
  ASSUME NEW K, NEW V, NEW T, NEW s \in Stores(K, V, T), NEW t, NEW lim
  PROVE  /\ Live(s, t, lim) \in Stores(K, V, T) /\ Within(Live(s, t, lim), s)
         /\ Len(Live(s, t, lim)) <= Len(s)
         /\ Len(Live(s, t, lim)) = Len(s) => Live(s, t, lim) = s
         /\ \A i \in DOMAIN s : Has(Live(s, t, lim), s[i].key) <=> t - s[i].seen <= lim.ttl
         /\ \A k : Has(Live(s, t, lim), k) => Has(s, k) /\ ValueOf(Live(s, t, lim), k) = ValueOf(s, k)
<1> DEFINE P == {i \in DOMAIN s : t - s[i].seen <= lim.ttl}
           q == Live(s, t, lim)
<1>1. q = Pick(s, P) /\ P \in SUBSET DOMAIN s
  BY DEF Live
<1>2. /\ q \in Stores(K, V, T) /\ Within(q, s)
      /\ Len(q) <= Len(s) /\ (Len(q) = Len(s) => q = s)
  BY <1>1, PickStore
<1>3. s \in Seq([key : K, value : V, seen : T]) /\ Distinct(s) /\ Distinct(q)
  BY <1>2 DEF Stores
<1>4. StoreKeys(q) = {s[i].key : i \in P}
  BY <1>1, <1>3, PickKeeps
<1>5. \A i \in DOMAIN s : Has(q, s[i].key) <=> i \in P
  BY <1>3, <1>4 DEF Has, Distinct
<1>6. \A k : Has(q, k) => Has(s, k) /\ ValueOf(q, k) = ValueOf(s, k)
  BY <1>2, <1>3, WithinAgrees
<1> QED
  BY <1>2, <1>5, <1>6

LEMMA WithoutKeyStore ==
  ASSUME NEW K, NEW V, NEW T, NEW s \in Stores(K, V, T), NEW k
  PROVE  /\ WithoutKey(s, k) \in Stores(K, V, T) /\ Within(WithoutKey(s, k), s)
         /\ Len(WithoutKey(s, k)) <= Len(s)
         /\ Len(WithoutKey(s, k)) = Len(s) => WithoutKey(s, k) = s
         /\ \A j : Has(WithoutKey(s, k), j) <=> Has(s, j) /\ j # k
         /\ \A j : Has(s, j) /\ j # k => ValueOf(WithoutKey(s, k), j) = ValueOf(s, j)
<1> DEFINE P == {i \in DOMAIN s : s[i].key # k}
           q == WithoutKey(s, k)
<1>1. q = Pick(s, P) /\ P \in SUBSET DOMAIN s
  BY DEF WithoutKey
<1>2. /\ q \in Stores(K, V, T) /\ Within(q, s)
      /\ Len(q) <= Len(s) /\ (Len(q) = Len(s) => q = s)
  BY <1>1, PickStore
<1>3. s \in Seq([key : K, value : V, seen : T]) /\ Distinct(s) /\ Distinct(q)
  BY <1>2 DEF Stores
<1>4. StoreKeys(q) = {s[i].key : i \in P}
  BY <1>1, <1>3, PickKeeps
<1>5. \A j : Has(q, j) <=> Has(s, j) /\ j # k
  BY <1>4 DEF Has, StoreKeys
<1>6. \A j : Has(q, j) => ValueOf(q, j) = ValueOf(s, j)
  BY <1>2, <1>3, WithinAgrees
<1> QED
  BY <1>2, <1>5, <1>6

\* A new key goes to the end.
LEMMA AppendStore ==
  ASSUME NEW K, NEW V, NEW T, NEW s \in Stores(K, V, T),
         NEW k \in K, NEW v \in V, NEW t \in T, ~Has(s, k)
  PROVE  LET q == Append(s, Entry(k, v, t)) IN
         /\ q \in Stores(K, V, T) /\ Len(q) = Len(s) + 1
         /\ q[Len(q)] = Entry(k, v, t) /\ \A i \in 1..Len(s) : q[i] = s[i]
         /\ Has(q, k) /\ ValueOf(q, k) = v
         /\ \A j : j # k => /\ Has(q, j) <=> Has(s, j)
                            /\ Has(s, j) => ValueOf(q, j) = ValueOf(s, j)
<1> DEFINE S == [key : K, value : V, seen : T]
           a == Entry(k, v, t)
           q == Append(s, a)
<1>1. s \in Seq(S) /\ Distinct(s)
  BY DEF Stores
<1>2. a \in S /\ a.key = k /\ a.value = v
  BY DEF Entry
<1> HIDE DEF S, a
<1>3. /\ q \in Seq(S) /\ Len(q) = Len(s) + 1 /\ Len(s) \in Nat
      /\ q[Len(q)] = a /\ \A i \in 1..Len(s) : q[i] = s[i]
      /\ DOMAIN q = 1..Len(s) + 1 /\ DOMAIN s = 1..Len(s)
  BY <1>1, <1>2
<1> HIDE DEF q
<1>4. \A i \in DOMAIN q : \/ i \in DOMAIN s /\ q[i] = s[i] /\ s[i].key # k
                          \/ i = Len(s) + 1 /\ q[i] = a
  BY <1>3 DEF Has, StoreKeys
<1>5. Distinct(q)
  BY <1>1, <1>2, <1>4 DEF Distinct
<1>6. Len(q) \in DOMAIN q /\ q[Len(q)].key = k /\ q[Len(q)].value = v
  BY <1>2, <1>3
<1>7. Has(q, k) /\ ValueOf(q, k) = v
  BY <1>5, <1>6, ValueAt
<1>8. ASSUME NEW j, j # k PROVE Has(q, j) <=> Has(s, j)
  BY <1>2, <1>3, <1>4, <1>8 DEF Has, StoreKeys
<1>9. ASSUME NEW j, j # k, Has(s, j) PROVE ValueOf(q, j) = ValueOf(s, j)
  <2>1. Within(s, q)
    BY <1>3 DEF Within
  <2> QED
    BY <1>1, <1>5, <1>9, <2>1, WithinAgrees
<1>10. q \in Stores(K, V, T)
  BY <1>3, <1>5 DEF Stores, S
<1>11. q = Append(s, Entry(k, v, t)) /\ a = Entry(k, v, t)
  BY DEF q, a
<1> QED
  BY <1>3, <1>7, <1>8, <1>9, <1>10, <1>11

\* q is the end of s.
IsTail(q, s) == \A i \in 1..Len(q) : q[i] = s[i + Len(s) - Len(q)]

\* _evict_overflow
LEMMA TrimmedStore ==
  ASSUME NEW K, NEW V, NEW T, NEW s \in Stores(K, V, T), NEW lim, lim.max \in Nat \ {0},
         NEW q, q = Trimmed(s, lim)
  PROVE  /\ q \in Stores(K, V, T) /\ Within(q, s)
         /\ Len(q) <= Len(s) /\ (Len(q) = Len(s) => q = s)
         /\ Len(q) = IF Len(s) > lim.max THEN lim.max ELSE Len(s)
         /\ IsTail(q, s)
<1> USE DEF IsTail
<1> DEFINE S == [key : K, value : V, seen : T]
<1>1. s \in Seq(S) /\ Distinct(s) /\ Len(s) \in Nat /\ DOMAIN s = 1..Len(s)
  BY DEF Stores
<1> HIDE DEF S
<1>2. CASE Len(s) > lim.max
  <2> DEFINE d == Len(s) - lim.max
  <2>0. q = SubSeq(s, d + 1, Len(s))
    BY <1>2 DEF Trimmed
  <2>1. q = SubSeq(s, d + 1, Len(s)) /\ d \in Nat /\ d + 1 \in 1..Len(s) /\ Len(s) - d = lim.max
    <3>1. d \in Nat /\ d + 1 \in 1..Len(s) /\ Len(s) - d = lim.max
      BY <1>1, <1>2
    <3> QED
      BY <2>0, <3>1
  <2> HIDE DEF d
  <2>2. /\ q \in Seq(S) /\ Len(q) = lim.max /\ DOMAIN q = 1..lim.max
        /\ \A i \in 1..lim.max : q[i] = s[i + d] /\ i + d \in DOMAIN s
    <3> DEFINE r == SubSeq(s, d + 1, Len(s))
    <3>1. r \in Seq(S) /\ Len(r) = Len(s) - d /\ DOMAIN r = 1..(Len(s) - d)
      BY <1>1, <2>1
    <3>2. \A i \in 1..(Len(s) - d) : r[i] = s[i + d] /\ i + d \in DOMAIN s
      BY <1>1, <2>1
    <3> HIDE DEF r
    <3>3. q = r
      BY <2>1 DEF r
    <3> QED
      BY <2>1, <3>1, <3>2, <3>3
  <2>3. Within(q, s)
    BY <2>2 DEF Within
  <2>4. Distinct(q)
    <3> SUFFICES ASSUME NEW i \in 1..lim.max, NEW j \in 1..lim.max, q[i].key = q[j].key
                 PROVE  i = j
      BY <2>2 DEF Distinct
    <3>1. i + d \in DOMAIN s /\ j + d \in DOMAIN s /\ s[i + d].key = s[j + d].key
      BY <2>2
    <3>2. i + d = j + d
      BY <1>1, <3>1 DEF Distinct
    <3> QED
      BY <2>1, <3>2
  <2>5. q \in Stores(K, V, T)
    BY <2>2, <2>4 DEF Stores, S
  <2>6. d = Len(s) - Len(q)
    BY <1>1, <2>1, <2>2
  <2>7. \A i \in 1..Len(q) : q[i] = s[i + Len(s) - Len(q)]
    BY <1>1, <2>1, <2>2, <2>6
  <2> QED
    BY <1>1, <1>2, <2>2, <2>3, <2>5, <2>7
<1>3. CASE ~(Len(s) > lim.max)
  <2>1. q = s
    BY <1>3 DEF Trimmed
  <2>2. \A i \in 1..Len(s) : i + Len(s) - Len(s) = i
    BY <1>1
  <2> QED
    BY <1>1, <1>3, <2>1, <2>2 DEF Within
<1> QED
  BY <1>2, <1>3

\* set: the key has the value, every other key is kept with its value or not at all.
LEMMA PutStore ==
  ASSUME NEW K, NEW V, NEW T, NEW s \in Stores(K, V, T),
         NEW k \in K, NEW v \in V, NEW t \in T, NEW lim, lim.max \in Nat \ {0}
  PROVE  LET q == Put(s, k, v, t, lim) IN
         /\ q \in Stores(K, V, T)
         /\ Has(q, k) /\ ValueOf(q, k) = v
         /\ \A j : j # k /\ Has(q, j) => Has(Live(s, t, lim), j) /\ Has(s, j) /\ ValueOf(q, j) = ValueOf(s, j)
         /\ Len(q) <= Len(s) + 1
         /\ Len(q) = Len(s) + 1 => q = Append(s, Entry(k, v, t)) /\ ~Has(s, k)
<1> DEFINE live == Live(s, t, lim)
           rest == WithoutKey(live, k)
           full == Append(rest, Entry(k, v, t))
           q == Trimmed(full, lim)
<1>1. /\ live \in Stores(K, V, T) /\ Len(live) <= Len(s) /\ (Len(live) = Len(s) => live = s)
      /\ \A j : Has(live, j) => Has(s, j) /\ ValueOf(live, j) = ValueOf(s, j)
  BY LiveStore
<1> HIDE DEF live
<1>2. /\ rest \in Stores(K, V, T) /\ Len(rest) <= Len(live) /\ (Len(rest) = Len(live) => rest = live)
      /\ \A j : Has(rest, j) <=> Has(live, j) /\ j # k
      /\ \A j : Has(live, j) /\ j # k => ValueOf(rest, j) = ValueOf(live, j)
  BY <1>1, WithoutKeyStore
<1> HIDE DEF rest
<1>3. /\ full \in Stores(K, V, T) /\ Len(full) = Len(rest) + 1 /\ full[Len(full)] = Entry(k, v, t)
      /\ Has(full, k) /\ ValueOf(full, k) = v
      /\ \A j : j # k => /\ Has(full, j) <=> Has(rest, j)
                         /\ Has(rest, j) => ValueOf(full, j) = ValueOf(rest, j)
  BY <1>2, AppendStore
<1>4. full = Append(rest, Entry(k, v, t))
  OBVIOUS
<1> HIDE DEF full
<1>5. /\ q \in Stores(K, V, T) /\ Within(q, full)
      /\ Len(q) <= Len(full) /\ (Len(q) = Len(full) => q = full)
      /\ Len(q) = IF Len(full) > lim.max THEN lim.max ELSE Len(full)
      /\ \A i \in 1..Len(q) : q[i] = full[i + Len(full) - Len(q)]
  <2>1. full \in Stores(K, V, T) /\ q = Trimmed(full, lim)
    BY <1>3
  <2> HIDE DEF q
  <2>2. lim.max \in Nat \ {0}
    OBVIOUS
  <2>3. q \in Stores(K, V, T) /\ Within(q, full)
    BY <2>1, <2>2, TrimmedStore
  <2>4. Len(q) <= Len(full) /\ (Len(q) = Len(full) => q = full)
    BY <2>1, <2>2, TrimmedStore
  <2>5. Len(q) = IF Len(full) > lim.max THEN lim.max ELSE Len(full)
    BY <2>1, <2>2, TrimmedStore
  <2>6. IsTail(q, full)
    BY <2>1, <2>2, TrimmedStore
  <2> QED
    BY <2>3, <2>4, <2>5, <2>6 DEF IsTail
<1>6. q = Put(s, k, v, t, lim)
  BY DEF Put, full, rest, live
<1> HIDE DEF q
<1>7. Len(s) \in Nat /\ Len(live) \in Nat /\ Len(rest) \in Nat /\ Len(full) \in Nat /\ Len(q) \in Nat
  BY <1>1, <1>2, <1>3, <1>5 DEF Stores
<1>8. Distinct(q) /\ Distinct(full) /\ DOMAIN q = 1..Len(q)
  BY <1>3, <1>5 DEF Stores
<1>9. Has(q, k) /\ ValueOf(q, k) = v
  <2>1. Len(q) \in DOMAIN q /\ Len(q) + Len(full) - Len(q) = Len(full)
    BY <1>3, <1>5, <1>7, <1>8
  <2>2. q[Len(q)] = Entry(k, v, t)
    BY <1>3, <1>5, <1>8, <2>1
  <2>3. q[Len(q)].key = k /\ q[Len(q)].value = v
    BY <2>2 DEF Entry
  <2> QED
    BY <1>8, <2>1, <2>3, ValueAt
<1>10. ASSUME NEW j, j # k, Has(q, j)
       PROVE  Has(live, j) /\ Has(s, j) /\ ValueOf(q, j) = ValueOf(s, j)
  <2>1. Has(full, j) /\ ValueOf(q, j) = ValueOf(full, j)
    BY <1>5, <1>8, <1>10, WithinAgrees
  <2> QED
    BY <1>1, <1>2, <1>3, <1>10, <2>1
<1>11. Len(q) <= Len(s) + 1
  BY <1>1, <1>2, <1>3, <1>5, <1>7
<1>12. ASSUME Len(q) = Len(s) + 1 PROVE q = Append(s, Entry(k, v, t)) /\ ~Has(s, k)
  <2>1. Len(live) = Len(s) /\ Len(rest) = Len(live) /\ Len(q) = Len(full)
    BY <1>1, <1>2, <1>3, <1>5, <1>7, <1>12
  <2>2. q = full /\ rest = live /\ live = s
    BY <1>1, <1>2, <1>5, <2>1
  <2> QED
    BY <1>2, <1>4, <2>2
<1> QED
  BY <1>5, <1>6, <1>9, <1>10, <1>11, <1>12 DEF live

\* get: what is not over is kept, with its values.
LEMMA TouchStore ==
  ASSUME NEW K, NEW V, NEW T, NEW s \in Stores(K, V, T), NEW k, NEW t \in T, NEW lim
  PROVE  LET q == Touch(s, k, t, lim) IN
         /\ q \in Stores(K, V, T)
         /\ \A j : Has(q, j) <=> Has(Live(s, t, lim), j)
         /\ \A j : Has(q, j) => Has(s, j) /\ ValueOf(q, j) = ValueOf(s, j)
         /\ Len(q) <= Len(s)
<1> DEFINE live == Live(s, t, lim)
           rest == WithoutKey(live, k)
           full == Append(rest, Entry(k, ValueOf(live, k), t))
           q == Touch(s, k, t, lim)
<1>1. /\ live \in Stores(K, V, T) /\ Len(live) <= Len(s)
      /\ \A j : Has(live, j) => Has(s, j) /\ ValueOf(live, j) = ValueOf(s, j)
  BY LiveStore
<1>2. q = IF Has(live, k) THEN full ELSE live
  BY DEF Touch
<1> HIDE DEF live, q
<1>3. CASE ~Has(live, k)
  BY <1>1, <1>2, <1>3 DEF live, q
<1>4. CASE Has(live, k)
  <2> DEFINE v == ValueOf(live, k)
  <2>1. v \in V /\ k \in K
    <3>1. live \in Seq([key : K, value : V, seen : T]) /\ Distinct(live)
      BY <1>1 DEF Stores
    <3>2. PICK i \in DOMAIN live : live[i].key = k
      BY <1>4 DEF Has, StoreKeys
    <3>3. v = live[i].value
      BY <3>1, <3>2, ValueAt
    <3>4. live[i].value \in V /\ live[i].key \in K
      <4> DEFINE S == [key : K, value : V, seen : T]
      <4>1. live \in Seq(S)
        BY <3>1
      <4> HIDE DEF S
      <4>2. live[i] \in S
        BY <3>2, <4>1
      <4> QED
        BY <4>2 DEF S
    <3> QED
      BY <3>2, <3>3, <3>4
  <2> HIDE DEF v
  <2>2. /\ rest \in Stores(K, V, T) /\ Len(rest) <= Len(live) /\ (Len(rest) = Len(live) => rest = live)
        /\ \A j : Has(rest, j) <=> Has(live, j) /\ j # k
        /\ \A j : Has(live, j) /\ j # k => ValueOf(rest, j) = ValueOf(live, j)
    BY <1>1, WithoutKeyStore
  <2> HIDE DEF rest
  <2>3. full = Append(rest, Entry(k, v, t))
    BY DEF v
  <2> HIDE DEF full
  <2>4. /\ full \in Stores(K, V, T) /\ Len(full) = Len(rest) + 1
        /\ Has(full, k) /\ ValueOf(full, k) = v
        /\ \A j : j # k => /\ Has(full, j) <=> Has(rest, j)
                           /\ Has(rest, j) => ValueOf(full, j) = ValueOf(rest, j)
    BY <2>1, <2>2, <2>3, AppendStore
  <2>5. Len(s) \in Nat /\ Len(live) \in Nat /\ Len(rest) \in Nat
    BY <1>1, <2>2 DEF Stores
  <2>6. Len(rest) # Len(live)
    BY <1>4, <2>2
  <2>7. q = full /\ Len(full) <= Len(s)
    BY <1>1, <1>2, <1>4, <2>2, <2>4, <2>5, <2>6
  <2>8. \A j : Has(full, j) <=> Has(live, j)
    BY <1>4, <2>2, <2>4
  <2>9. \A j : Has(full, j) => ValueOf(full, j) = ValueOf(live, j)
    BY <2>2, <2>4, <2>8 DEF v
  <2> QED
    BY <1>1, <2>4, <2>7, <2>8, <2>9 DEF live, q
<1> QED
  BY <1>3, <1>4

\* Where a key is, and what it holds.
LEMMA HasAt ==
  ASSUME NEW K, NEW V, NEW T, NEW s \in Stores(K, V, T), NEW k, Has(s, k)
  PROVE  k \in K /\ ValueOf(s, k) \in V /\ \E i \in DOMAIN s : s[i].key = k /\ s[i].value = ValueOf(s, k)
<1> DEFINE S == [key : K, value : V, seen : T]
<1>1. s \in Seq(S) /\ Distinct(s)
  BY DEF Stores
<1> HIDE DEF S
<1>2. PICK i \in DOMAIN s : s[i].key = k
  BY DEF Has, StoreKeys
<1>3. s[i].value = ValueOf(s, k)
  BY <1>1, <1>2, ValueAt
<1>4. s[i] \in S
  BY <1>1
<1>5. s[i].key \in K /\ s[i].value \in V
  BY <1>4 DEF S
<1> QED
  BY <1>2, <1>3, <1>5

LEMMA StoresWiden ==
  ASSUME NEW K, NEW V, NEW T, NEW L, K \subseteq L, NEW s \in Stores(K, V, T)
  PROVE  s \in Stores(L, V, T)
<1> DEFINE S == [key : K, value : V, seen : T]
           W == [key : L, value : V, seen : T]
<1>1. s \in Seq(S) /\ Distinct(s) /\ S \subseteq W
  BY DEF Stores
<1> HIDE DEF S, W
<1>2. s \in Seq(W)
  BY <1>1
<1> QED
  BY <1>1, <1>2 DEF Stores, W

-----------------------------------------------------------------------------
(***************************************************************************)
(* WorkspaceKernel, for any number of owners, tools, diffs, runs and calls *)
(* and any limits of the stores.                                           *)
(***************************************************************************)

Times == 0..MaxTime

NoKeyTwice == Distinct(runs) /\ Distinct(bundles) /\ Distinct(audits) /\ Distinct(events)

\* The event log has an entry for each call at most, and of runs that were started.
LogIsOfCalls ==
  /\ Len(events) <= calls
  /\ \A i \in DOMAIN events : events[i].value.run \in RunIds \cup {NoRun}

KernelInv == TypeOK /\ NoKeyTwice /\ LogIsOfCalls /\ FiguresMatchLog /\ OnlyOwnersSucceed

\* The figures of a run fit what the log holds of it.
Fit(run, whole, allowed, blocked) ==
  /\ run.allowed + run.blocked = Len(run.tools)
  /\ whole => /\ run.allowed = allowed
              /\ run.blocked <= blocked
              /\ run.status = "active" => run.blocked = blocked

LEMMA KernelInitInv == Init => KernelInv
<1> SUFFICES ASSUME Init PROVE KernelInv
  OBVIOUS
<1>1. runs = <<>> /\ bundles = <<>> /\ audits = <<>> /\ events = <<>>
      /\ now = 0 /\ issued = 0 /\ calls = 0 /\ explained = 0 /\ reply = Quiet /\ guarded \in BOOLEAN
  BY DEF Init
<1>2. reply.run = NoRun /\ reply.violation = "none"
  BY <1>1 DEF Quiet
<1>3. TypeOK
  BY <1>1, <1>2, BoundsAssumption DEF TypeOK, StoreOf, Violations
<1>4. NoKeyTwice
  BY <1>1 DEF NoKeyTwice, Distinct
<1>5. LogIsOfCalls
  BY <1>1 DEF LogIsOfCalls
<1>6. FiguresMatchLog
  BY <1>1 DEF FiguresMatchLog
<1>7. OnlyOwnersSucceed
  BY <1>2 DEF OnlyOwnersSucceed
<1> QED
  BY <1>3, <1>4, <1>5, <1>6, <1>7 DEF KernelInv

LEMMA KernelStores ==
  ASSUME KernelInv
  PROVE  /\ runs \in Stores(RunIds, RunRecords, Times) /\ bundles \in Stores(Diffs, Callers, Times)
         /\ audits \in Stores(1..calls, LogRecords, Times)
         /\ events \in Stores(1..calls, LogRecords, Times)
         /\ now \in Times /\ issued \in Nat /\ calls \in Nat /\ NoRun \notin RunIds
BY CallersAssumption, BoundsAssumption
   DEF KernelInv, TypeOK, StoreOf, NoKeyTwice, Stores, Times, RunIds

LEMMA LimitsHold ==
  /\ RunLimits.max \in Nat \ {0} /\ BundleLimits.max \in Nat \ {0} /\ AuditLimits.max \in Nat \ {0}
  /\ EventLimits.max \in Nat \ {0}
BY LimitsAssumption DEF EventLimits

\* A run that is kept.
LEMMA RunKept ==
  ASSUME KernelInv, NEW id, Has(runs, id)
  PROVE  /\ id \in RunIds /\ ValueOf(runs, id) \in RunRecords
         /\ Fit(ValueOf(runs, id), Len(events) = calls, Logged(id, "allowed"), Logged(id, "blocked"))
<1>1. runs \in Stores(RunIds, RunRecords, Times)
  BY KernelStores
<1>2. id \in RunIds /\ ValueOf(runs, id) \in RunRecords
  BY <1>1, HasAt
<1>3. PICK i \in DOMAIN runs : runs[i].key = id /\ runs[i].value = ValueOf(runs, id)
  BY <1>1, HasAt
<1> QED
  BY <1>2, <1>3 DEF KernelInv, FiguresMatchLog, Fit

\* The figures fit again, if they do for every run that is kept.
LEMMA FiguresAgain ==
  ASSUME runs' \in Stores(RunIds', RunRecords, Times),
         \A id \in RunIds' : Has(runs', id) =>
           Fit(ValueOf(runs', id), (Len(events) = calls)', Logged(id, "allowed")', Logged(id, "blocked")')
  PROVE  FiguresMatchLog'
<1>1. Distinct(runs')
  BY DEF Stores
<1> SUFFICES ASSUME NEW i \in DOMAIN runs'
             PROVE  Fit(runs'[i].value, (Len(events) = calls)', Logged(runs[i].key, "allowed")',
                        Logged(runs[i].key, "blocked")')
  BY DEF FiguresMatchLog, Fit
<1>2. Has(runs', runs'[i].key) /\ ValueOf(runs', runs'[i].key) = runs'[i].value
  BY <1>1, ValueAt
<1>3. runs'[i].key \in RunIds'
  BY <1>2, HasAt
<1> QED
  BY <1>2, <1>3 DEF Logged

\* What is logged of a run: its entries under a decision, but those of uncounted tools.
LEMMA LoggedIsCount ==
  ASSUME KernelInv, NEW id, NEW decision PROVE Logged(id, decision) \in Nat
<1> DEFINE P == {i \in DOMAIN events : events[i].value.run = id /\ events[i].value.decision = decision
                                       /\ events[i].value.tool \notin Uncounted}
<1>1. Len(events) \in Nat /\ DOMAIN events = 1..Len(events)
  BY KernelStores DEF Stores
<1>2. P \in SUBSET (1..Len(events))
  BY <1>1
<1>3. Cardinality(P) \in Nat
  BY <1>1, <1>2, RankIncreases
<1> QED
  BY <1>3 DEF Logged

\* Record: one more entry, in a log that is whole only if it was and has lost nothing.
LEMMA RecordKeeps ==
  ASSUME KernelInv, NEW entry \in LogRecords, Record(entry), issued' \in Nat, issued <= issued',
         entry.run \in RunIds' \cup {NoRun}
  PROVE  /\ calls' = calls + 1 /\ calls' \in 0..MaxCalls
         /\ audits' \in Stores(1..calls', LogRecords, Times)
         /\ events' \in Stores(1..calls', LogRecords, Times)
         /\ LogIsOfCalls'
         /\ (Len(events) = calls)' =>
              /\ Len(events) = calls
              /\ \A id, decision :
                   Logged(id, decision)' =
                     Logged(id, decision) + (IF entry.run = id /\ entry.decision = decision
                                                /\ entry.tool \notin Uncounted THEN 1 ELSE 0)
<1>1. /\ calls' = calls + 1 /\ calls \in Nat /\ calls' \in 0..MaxCalls
      /\ audits' = Put(audits, calls + 1, entry, now, AuditLimits)
      /\ events' = Put(events, calls + 1, entry, now, EventLimits)
  BY KernelStores, BoundsAssumption DEF Record
<1>2. /\ audits \in Stores(1..calls', LogRecords, Times) /\ events \in Stores(1..calls', LogRecords, Times)
      /\ now \in Times /\ calls + 1 \in 1..calls' /\ calls + 1 \notin 1..calls
  <2>1. 1..calls \subseteq 1..calls'
    BY <1>1
  <2> QED
    BY <1>1, <2>1, KernelStores, StoresWiden
<1>3. audits' \in Stores(1..calls', LogRecords, Times)
  BY <1>1, <1>2, LimitsHold, PutStore
<1>4. /\ events' \in Stores(1..calls', LogRecords, Times)
      /\ Has(events', calls + 1) /\ ValueOf(events', calls + 1) = entry
      /\ \A j : j # calls + 1 /\ Has(events', j) => Has(events, j) /\ ValueOf(events', j) = ValueOf(events, j)
      /\ Len(events') <= Len(events) + 1
      /\ Len(events') = Len(events) + 1 => events' = Append(events, Entry(calls + 1, entry, now))
  <2> DEFINE k == calls + 1
             K == 1..calls'
  <2>1. /\ events \in Stores(K, LogRecords, Times) /\ k \in K /\ now \in Times
        /\ events' = Put(events, k, entry, now, EventLimits) /\ EventLimits.max \in Nat \ {0}
    BY <1>1, <1>2, LimitsHold
  <2> HIDE DEF k, K
  <2>2. /\ events' \in Stores(K, LogRecords, Times)
        /\ Has(events', k) /\ ValueOf(events', k) = entry
        /\ \A j : j # k /\ Has(events', j) => Has(events, j) /\ ValueOf(events', j) = ValueOf(events, j)
    BY <2>1, PutStore
  <2>3. /\ Len(events') <= Len(events) + 1
        /\ Len(events') = Len(events) + 1 => events' = Append(events, Entry(k, entry, now))
    BY <2>1, PutStore
  <2> QED
    BY <2>2, <2>3 DEF k, K
<1>5. Len(events) \in Nat /\ Len(events') \in Nat /\ Len(events) <= calls
  BY <1>2, <1>4 DEF Stores, KernelInv, LogIsOfCalls
<1>6. LogIsOfCalls'
  <2>1. Len(events') <= calls'
    BY <1>1, <1>4, <1>5
  <2>2. ASSUME NEW i \in DOMAIN events' PROVE events'[i].value.run \in RunIds' \cup {NoRun}
    <3> DEFINE k == events'[i].key
    <3>1. Has(events', k) /\ ValueOf(events', k) = events'[i].value
      BY <1>4, ValueAt DEF Stores
    <3> HIDE DEF k
    <3>2. CASE k = calls + 1
      BY <1>4, <3>1, <3>2
    <3>3. CASE k # calls + 1
      <4>1. Has(events, k) /\ ValueOf(events, k) = events'[i].value
        BY <1>4, <3>1, <3>3
      <4>2. PICK j \in DOMAIN events : events[j].value = events'[i].value
        BY <1>2, <4>1, HasAt
      <4>3. events[j].value.run \in RunIds \cup {NoRun}
        BY DEF KernelInv, LogIsOfCalls
      <4>4. RunIds \subseteq RunIds'
        BY KernelStores DEF RunIds
      <4> QED
        BY <4>2, <4>3, <4>4
    <3> QED
      BY <3>2, <3>3
  <2> QED
    BY <2>1, <2>2 DEF LogIsOfCalls
<1>7. ASSUME (Len(events) = calls)'
      PROVE  /\ Len(events) = calls
             /\ \A id, decision :
                  Logged(id, decision)' =
                    Logged(id, decision) + (IF entry.run = id /\ entry.decision = decision
                                               /\ entry.tool \notin Uncounted THEN 1 ELSE 0)
  <2>1. Len(events) = calls /\ Len(events') = Len(events) + 1
    BY <1>1, <1>4, <1>5, <1>7
  <2> DEFINE n == Len(events)
             S == [key : 1..calls', value : LogRecords, seen : Times]
             a == Entry(calls + 1, entry, now)
  <2>2. events \in Seq(S) /\ a \in S /\ a.value = entry
    BY <1>2 DEF Stores, Entry
  <2> HIDE DEF S, a
  <2>3. events' = Append(events, a)
    BY <1>4, <2>1 DEF a
  <2>4. /\ n \in Nat /\ DOMAIN events = 1..n /\ DOMAIN events' = 1..n + 1
        /\ events'[n + 1].value = entry /\ \A i \in 1..n : events'[i] = events[i]
    BY <2>2, <2>3
  <2> HIDE DEF n
  <2>5. ASSUME NEW id, NEW decision
        PROVE  Logged(id, decision)' =
                 Logged(id, decision) + (IF entry.run = id /\ entry.decision = decision
                                            /\ entry.tool \notin Uncounted THEN 1 ELSE 0)
    <3> DEFINE Mine(value) == value.run = id /\ value.decision = decision /\ value.tool \notin Uncounted
               P == {i \in 1..n : Mine(events[i].value)}
               Q == {i \in 1..n + 1 : Mine(events'[i].value)}
    <3>1. Q = IF Mine(entry) THEN P \cup {n + 1} ELSE P
      <4>1. \A i \in 1..n : Mine(events'[i].value) <=> Mine(events[i].value)
        BY <2>4
      <4>2. Mine(events'[n + 1].value) <=> Mine(entry)
        BY <2>4
      <4>3. \A i \in 1..n + 1 : i \in 1..n \/ i = n + 1
        BY <2>4
      <4>4. 1..n \subseteq 1..n + 1 /\ n + 1 \in 1..n + 1
        BY <2>4
      <4> HIDE DEF Mine
      <4> QED
        BY <4>1, <4>2, <4>3, <4>4
    <3>2. P \in SUBSET (1..n) /\ n + 1 \notin P
      BY <2>4
    <3> HIDE DEF P, Q
    <3>3. IsFiniteSet(P) /\ Cardinality(P) \in Nat
      BY <2>4, <3>2, RankIncreases
    <3>4. Cardinality(P \cup {n + 1}) = Cardinality(P) + 1
      BY <3>2, <3>3, FS_AddElement
    <3>5. Cardinality(Q) = Cardinality(P) + (IF Mine(entry) THEN 1 ELSE 0)
      BY <3>1, <3>3, <3>4
    <3>6. Logged(id, decision) = Cardinality(P)
      BY <2>4 DEF Logged, P
    <3>7. Logged(id, decision)' = Cardinality(Q)
      BY <2>4 DEF Logged, Q
    <3> QED
      BY <3>5, <3>6, <3>7
  <2> QED
    BY <2>1, <2>5
<1> QED
  BY <1>1, <1>3, <1>4, <1>6, <1>7

-----------------------------------------------------------------------------
(* The verdict on a call, and the run store after it *)

LEMMA VerdictFacts ==
  ASSUME KernelInv, NEW tool, NEW id, NEW who, NEW holds \in BOOLEAN,
         NEW verdict, verdict = Verdict(tool, id, who, holds)
  PROVE  /\ verdict[1] \in Decisions /\ verdict[2] \in Violations
         /\ verdict[2] = "none" <=> verdict[1] = "allowed"
         /\ verdict[1] = "allowed" /\ id # NoRun => Found(id) /\ Concerns(id, who) /\ RunOf(id).owner = who
         /\ Concerns(id, who) => verdict[1] \in {"allowed", "blocked"}
         /\ id # NoRun /\ Found(id) /\ ~Concerns(id, who) =>
              verdict[1] = "error" \/ (verdict[1] = "blocked" /\ RunOf(id).status = "ended")
<1>1. Found(id) => RunOf(id).status \in {"active", "ended"} /\ RunOf(id).owner \in Owners
  <2>1. Found(id) => Has(runs, id)
    BY KernelStores, LiveStore DEF Found
  <2>2. Found(id) => RunOf(id) \in RunRecords
    BY <2>1, RunKept DEF RunOf
  <2> QED
    BY <2>2 DEF RunRecords
<1>2. Nobody \notin Owners
  BY CallersAssumption
<1> USE DEF Verdict, Decisions, Violations, Concerns
<1>3. CASE id # NoRun /\ who = Nobody
  BY <1>1, <1>2, <1>3
<1>4. CASE ~(id # NoRun /\ who = Nobody) /\ id # NoRun /\ ~Found(id)
  BY <1>4
<1>5. CASE id # NoRun /\ who # Nobody /\ Found(id) /\ RunOf(id).status = "ended"
  BY <1>1, <1>5
<1>6. CASE id # NoRun /\ who # Nobody /\ Found(id) /\ RunOf(id).status # "ended" /\ RunOf(id).owner # who
  BY <1>1, <1>6
<1>7. CASE id = NoRun /\ guarded /\ tool \in Writes
  BY <1>7
<1>8. CASE id = NoRun /\ ~(guarded /\ tool \in Writes)
  BY <1>8
<1>9. CASE id # NoRun /\ who # Nobody /\ Found(id) /\ RunOf(id).status # "ended" /\ RunOf(id).owner = who
  BY <1>1, <1>9
<1> QED
  BY <1>3, <1>4, <1>5, <1>6, <1>7, <1>8, <1>9

\* A run with one more call in its figures.
WithCall(run, tool, allowed) ==
  [owner |-> run.owner, status |-> run.status, tools |-> Append(run.tools, tool),
   allowed |-> IF allowed THEN run.allowed + 1 ELSE run.allowed,
   blocked |-> IF allowed THEN run.blocked ELSE run.blocked + 1]

LEMMA WithCallIsRun ==
  ASSUME NEW run \in RunRecords, NEW tool \in ToolNames, NEW allowed \in BOOLEAN
  PROVE  /\ WithCall(run, tool, allowed) \in RunRecords
         /\ [run EXCEPT !.tools = Append(@, tool),
                        !.allowed = IF allowed THEN @ + 1 ELSE @,
                        !.blocked = IF allowed THEN @ ELSE @ + 1] = WithCall(run, tool, allowed)
         /\ Len(Append(run.tools, tool)) = Len(run.tools) + 1
<1>1. /\ run.owner \in Owners /\ run.status \in {"active", "ended"} /\ run.tools \in Seq(ToolNames)
      /\ run.allowed \in Nat /\ run.blocked \in Nat
  BY DEF RunRecords
<1>2. Append(run.tools, tool) \in Seq(ToolNames) /\ Len(Append(run.tools, tool)) = Len(run.tools) + 1
  BY <1>1
<1> DEFINE t == Append(run.tools, tool)
           a == IF allowed THEN run.allowed + 1 ELSE run.allowed
           b == IF allowed THEN run.blocked ELSE run.blocked + 1
           first == [run EXCEPT !.tools = t]
           second == [first EXCEPT !.allowed = a]
           third == [second EXCEPT !.blocked = b]
<1>3. a \in Nat /\ b \in Nat
  BY <1>1
<1>4. WithCall(run, tool, allowed) = [owner |-> run.owner, status |-> run.status, tools |-> t,
                                      allowed |-> a, blocked |-> b]
  BY DEF WithCall
<1>5. [run EXCEPT !.tools = Append(@, tool), !.allowed = IF allowed THEN @ + 1 ELSE @,
                  !.blocked = IF allowed THEN @ ELSE @ + 1] = third
  BY DEF RunRecords
<1> HIDE DEF t, a, b
<1>6. first = [owner |-> run.owner, status |-> run.status, tools |-> t,
               allowed |-> run.allowed, blocked |-> run.blocked]
  BY DEF RunRecords
<1> HIDE DEF first
<1>7. second = [owner |-> run.owner, status |-> run.status, tools |-> t,
                allowed |-> a, blocked |-> run.blocked]
  BY <1>6
<1> HIDE DEF second
<1>8. third = [owner |-> run.owner, status |-> run.status, tools |-> t, allowed |-> a, blocked |-> b]
  BY <1>7
<1>9. t \in Seq(ToolNames)
  BY <1>2 DEF t
<1>10. WithCall(run, tool, allowed) \in RunRecords
  BY <1>1, <1>3, <1>4, <1>9 DEF RunRecords
<1> HIDE DEF third
<1> QED
  BY <1>2, <1>4, <1>5, <1>8, <1>10

\* A lookup of a run keeps the store but for what is over.
LEMMA LookupKeeps ==
  ASSUME KernelInv, NEW id, NEW q, q \in {runs, Touch(runs, id, now, RunLimits)}
  PROVE  /\ q \in Stores(RunIds, RunRecords, Times)
         /\ \A j : Has(q, j) => Has(runs, j) /\ ValueOf(q, j) = ValueOf(runs, j)
         /\ Found(id) => Has(q, id)
<1>1. runs \in Stores(RunIds, RunRecords, Times) /\ now \in Times
  BY KernelStores
<1>2. CASE q = runs
  BY <1>1, <1>2, LiveStore DEF Found
<1>3. CASE q = Touch(runs, id, now, RunLimits)
  BY <1>1, <1>3, TouchStore DEF Found
<1> QED
  BY <1>2, <1>3

\* A run is written over: it is kept, and every other run as it was or not at all.
LEMMA WriteKeeps ==
  ASSUME KernelInv, NEW id \in Nat, NEW run \in RunRecords, NEW Ids, RunIds \subseteq Ids, id \in Ids,
         NEW q, q = Put(runs, id, run, now, RunLimits)
  PROVE  /\ q \in Stores(Ids, RunRecords, Times)
         /\ Has(q, id) /\ ValueOf(q, id) = run
         /\ \A j : j # id /\ Has(q, j) => Has(runs, j) /\ ValueOf(q, j) = ValueOf(runs, j)
<1>1. runs \in Stores(Ids, RunRecords, Times) /\ now \in Times
  BY KernelStores, StoresWiden
<1> QED
  BY <1>1, LimitsHold, PutStore

\* The figures of runs that are left as they were still fit, if the new entry is not
\* to be counted or is a block of a run that has ended.
LEMMA FiguresStay ==
  ASSUME KernelInv, NEW id, Has(runs, id), NEW entry \in LogRecords, Record(entry),
         issued' \in Nat, issued <= issued', entry.run \in RunIds' \cup {NoRun},
         \/ entry.run # id
         \/ entry.tool \in Uncounted
         \/ entry.decision = "error"
         \/ entry.decision = "blocked" /\ ValueOf(runs, id).status = "ended"
  PROVE  Fit(ValueOf(runs, id), (Len(events) = calls)', Logged(id, "allowed")', Logged(id, "blocked")')
<1>1. /\ ValueOf(runs, id) \in RunRecords
      /\ Fit(ValueOf(runs, id), Len(events) = calls, Logged(id, "allowed"), Logged(id, "blocked"))
  BY RunKept
<1>2. ValueOf(runs, id).blocked \in Nat
  BY <1>1 DEF RunRecords
<1>3. Logged(id, "allowed") \in Nat /\ Logged(id, "blocked") \in Nat
  BY LoggedIsCount
<1>4. (Len(events) = calls)' =>
        /\ Len(events) = calls
        /\ Logged(id, "allowed")' = Logged(id, "allowed")
        /\ \/ Logged(id, "blocked")' = Logged(id, "blocked")
           \/ /\ Logged(id, "blocked")' = Logged(id, "blocked") + 1
              /\ ValueOf(runs, id).status = "ended"
  <2> SUFFICES ASSUME (Len(events) = calls)'
               PROVE  /\ Len(events) = calls
                      /\ Logged(id, "allowed")' = Logged(id, "allowed")
                      /\ \/ Logged(id, "blocked")' = Logged(id, "blocked")
                         \/ /\ Logged(id, "blocked")' = Logged(id, "blocked") + 1
                            /\ ValueOf(runs, id).status = "ended"
    OBVIOUS
  <2>1. /\ Len(events) = calls
        /\ \A decision :
             Logged(id, decision)' =
               Logged(id, decision) + (IF entry.run = id /\ entry.decision = decision
                                          /\ entry.tool \notin Uncounted THEN 1 ELSE 0)
    BY RecordKeeps
  <2>2. Logged(id, "allowed")' = Logged(id, "allowed")
    BY <1>3, <2>1
  <2> QED
    BY <1>3, <2>1, <2>2
<1> QED
  BY <1>1, <1>2, <1>3, <1>4 DEF Fit

-----------------------------------------------------------------------------
(* The steps.  Each keeps the invariant, the runs that have ended, and the owners of *)
(* the bundles.                                                                      *)

RunsFrozen ==
  \A id \in RunIds :
    Has(runs, id) /\ Has(runs', id) /\ ValueOf(runs, id).status = "ended"
    => ValueOf(runs', id) = ValueOf(runs, id)

OwnersKept ==
  \A diff \in Diffs :
    Has(Live(bundles, now, BundleLimits), diff) /\ Has(bundles', diff)
    => ValueOf(bundles', diff) = ValueOf(bundles, diff)

LEMMA KernelAgain ==
  ASSUME KernelInv,
         runs' \in Stores(RunIds', RunRecords, Times), bundles' \in Stores(Diffs, Callers, Times),
         audits' \in Stores(1..calls', LogRecords, Times),
         events' \in Stores(1..calls', LogRecords, Times),
         now' \in Times, issued' \in 0..MaxRuns, calls' \in 0..MaxCalls,
         explained' \in 0..MaxExplained, reply'.violation \in Violations, guarded' \in BOOLEAN,
         LogIsOfCalls', FiguresMatchLog', OnlyOwnersSucceed'
  PROVE  KernelInv'
<1>1. TypeOK'
  BY DEF TypeOK, StoreOf, Stores, Times
<1>2. NoKeyTwice'
  BY DEF NoKeyTwice, Stores
<1> QED
  BY <1>1, <1>2 DEF KernelInv

LEMMA LogIsRecord ==
  ASSUME NEW tool \in ToolNames, NEW decision \in Decisions, NEW violation \in Violations,
         NEW run \in Nat \cup {NoRun}, NEW owner \in Callers
  PROVE  LET entry == Log(tool, decision, violation, run, owner)
         IN entry \in LogRecords /\ entry.tool = tool /\ entry.decision = decision /\ entry.run = run
BY DEF Log, LogRecords

\* What a call of a tool that the Governor decides on does to runs and logs.
LEMMA DecideKeeps ==
  ASSUME KernelInv, NEW tool \in ToolNames, NEW id \in AnyRun, NEW who \in Callers, NEW holds \in BOOLEAN,
         NEW verdict, verdict = Verdict(tool, id, who, holds), Decide(tool, id, who, verdict),
         issued' = issued
  PROVE  /\ runs' \in Stores(RunIds', RunRecords, Times)
         /\ calls' \in 0..MaxCalls /\ audits' \in Stores(1..calls', LogRecords, Times)
         /\ events' \in Stores(1..calls', LogRecords, Times)
         /\ LogIsOfCalls' /\ FiguresMatchLog' /\ RunsFrozen
         /\ verdict[2] \in Violations
         /\ verdict[1] = "allowed" /\ id # NoRun =>
              /\ Has(runs', id) /\ ValueOf(runs', id).owner = who
              /\ ValueOf(runs', id).status = "active"
<1> DEFINE entry == Log(tool, verdict[1], verdict[2], id, LoggedOwner(tool, id, who))
           allowed == verdict[1] = "allowed"
<1>1. Record(entry) /\ runs' = Counted(tool, id, who, allowed)
  BY DEF Decide
<1>2. /\ verdict[1] \in Decisions /\ verdict[2] \in Violations
      /\ allowed /\ id # NoRun => Found(id) /\ Concerns(id, who) /\ RunOf(id).owner = who
      /\ Concerns(id, who) => verdict[1] \in {"allowed", "blocked"}
      /\ id # NoRun /\ Found(id) /\ ~Concerns(id, who) =>
           verdict[1] = "error" \/ (verdict[1] = "blocked" /\ RunOf(id).status = "ended")
  BY VerdictFacts
<1>3. /\ issued \in Nat /\ issued' \in Nat /\ issued <= issued' /\ RunIds' = RunIds
      /\ NoRun \notin RunIds /\ RunIds \subseteq Nat
      /\ (id = NoRun \/ id \in RunIds)
  BY KernelStores DEF AnyRun, RunIds
<1>4. /\ entry \in LogRecords /\ entry.run = id /\ entry.tool = tool /\ entry.decision = verdict[1]
      /\ entry.run \in RunIds' \cup {NoRun}
  BY <1>2, <1>3 DEF Log, LogRecords, LoggedOwner, Callers
<1> HIDE DEF entry, allowed
<1>5. /\ calls' \in 0..MaxCalls /\ audits' \in Stores(1..calls', LogRecords, Times)
      /\ events' \in Stores(1..calls', LogRecords, Times) /\ LogIsOfCalls'
  BY <1>1, <1>3, <1>4, RecordKeeps
<1>6. \A j : Has(runs, j) => /\ j \in RunIds /\ ValueOf(runs, j) \in RunRecords
                             /\ Fit(ValueOf(runs, j), Len(events) = calls, Logged(j, "allowed"),
                                    Logged(j, "blocked"))
  BY RunKept
<1>7. Found(id) => Has(runs, id)
  BY KernelStores, LiveStore DEF Found
<1>8. CASE Concerns(id, who) /\ tool \notin Uncounted
  <2> DEFINE old == RunOf(id)
             new == WithCall(old, tool, allowed)
  <2>1. /\ Found(id) /\ id # NoRun /\ id \in RunIds /\ id \in Nat /\ Has(runs, id)
        /\ old.status = "active" /\ old \in RunRecords
        /\ Fit(old, Len(events) = calls, Logged(id, "allowed"), Logged(id, "blocked"))
    BY <1>3, <1>6, <1>7, <1>8 DEF Concerns, RunOf
  <2>2. allowed \in BOOLEAN
    BY DEF allowed
  <2>3. new \in RunRecords /\ Len(Append(old.tools, tool)) = Len(old.tools) + 1
        /\ [old EXCEPT !.tools = Append(@, tool), !.allowed = IF allowed THEN @ + 1 ELSE @,
                       !.blocked = IF allowed THEN @ ELSE @ + 1] = new
    BY <2>1, <2>2, WithCallIsRun
  <2>4. /\ new.owner = old.owner /\ new.status = "active" /\ Len(new.tools) = Len(old.tools) + 1
        /\ new.allowed = IF allowed THEN old.allowed + 1 ELSE old.allowed
        /\ new.blocked = IF allowed THEN old.blocked ELSE old.blocked + 1
    BY <2>1, <2>3 DEF WithCall
  <2>5. runs' = Put(runs, id, new, now, RunLimits)
    BY <1>1, <1>3, <1>8, <2>1, <2>3 DEF Counted
  <2> HIDE DEF new, old
  <2>6. /\ runs' \in Stores(RunIds, RunRecords, Times)
        /\ Has(runs', id) /\ ValueOf(runs', id) = new
        /\ \A j : j # id /\ Has(runs', j) => Has(runs, j) /\ ValueOf(runs', j) = ValueOf(runs, j)
    BY <2>1, <2>3, <2>5, WriteKeeps
  <2>7. old.allowed \in Nat /\ old.blocked \in Nat /\ Len(old.tools) \in Nat
    BY <2>1 DEF RunRecords
  <2>8. Fit(new, (Len(events) = calls)', Logged(id, "allowed")', Logged(id, "blocked")')
    <3>1. Logged(id, "allowed") \in Nat /\ Logged(id, "blocked") \in Nat
      BY LoggedIsCount
    <3>2. (Len(events) = calls)' =>
            /\ Len(events) = calls
            /\ Logged(id, "allowed")' = Logged(id, "allowed") + (IF allowed THEN 1 ELSE 0)
            /\ Logged(id, "blocked")' = Logged(id, "blocked") + (IF allowed THEN 0 ELSE 1)
      <4> SUFFICES ASSUME (Len(events) = calls)'
                   PROVE  /\ Len(events) = calls
                          /\ Logged(id, "allowed")' = Logged(id, "allowed") + (IF allowed THEN 1 ELSE 0)
                          /\ Logged(id, "blocked")' = Logged(id, "blocked") + (IF allowed THEN 0 ELSE 1)
        OBVIOUS
      <4>1. /\ Len(events) = calls
            /\ \A decision :
                 Logged(id, decision)' =
                   Logged(id, decision) + (IF entry.run = id /\ entry.decision = decision
                                              /\ entry.tool \notin Uncounted THEN 1 ELSE 0)
        BY <1>1, <1>3, <1>4, RecordKeeps
      <4>2. IF allowed THEN entry.decision = "allowed" ELSE entry.decision = "blocked"
        BY <1>2, <1>4, <1>8 DEF allowed
      <4>3. Logged(id, "allowed")' = Logged(id, "allowed") + (IF entry.decision = "allowed" THEN 1 ELSE 0)
        BY <1>4, <1>8, <4>1
      <4>4. Logged(id, "blocked")' = Logged(id, "blocked") + (IF entry.decision = "blocked" THEN 1 ELSE 0)
        BY <1>4, <1>8, <4>1
      <4> QED
        BY <4>1, <4>2, <4>3, <4>4
    <3> HIDE DEF allowed
    <3>3. /\ old.allowed + old.blocked = Len(old.tools)
          /\ Len(events) = calls =>
               old.allowed = Logged(id, "allowed") /\ old.blocked = Logged(id, "blocked")
      BY <2>1 DEF Fit
    <3>4. new.allowed + new.blocked = Len(new.tools)
      BY <2>4, <2>7, <3>3
    <3>5. (Len(events) = calls)' =>
            new.allowed = Logged(id, "allowed")' /\ new.blocked = Logged(id, "blocked")'
      <4> SUFFICES ASSUME (Len(events) = calls)'
                   PROVE  new.allowed = Logged(id, "allowed")' /\ new.blocked = Logged(id, "blocked")'
        OBVIOUS
      <4>1. /\ old.allowed = Logged(id, "allowed") /\ old.blocked = Logged(id, "blocked")
            /\ Logged(id, "allowed")' = Logged(id, "allowed") + (IF allowed THEN 1 ELSE 0)
            /\ Logged(id, "blocked")' = Logged(id, "blocked") + (IF allowed THEN 0 ELSE 1)
        BY <3>2, <3>3
      <4>2. CASE allowed
        BY <2>4, <2>7, <4>1, <4>2
      <4>3. CASE ~allowed
        BY <2>4, <2>7, <4>1, <4>3
      <4> QED
        BY <4>2, <4>3
    <3>6. new.blocked \in Nat
      BY <2>4, <2>7
    <3> QED
      BY <3>4, <3>5, <3>6 DEF Fit
  <2>9. ASSUME NEW j \in RunIds', Has(runs', j)
        PROVE  Fit(ValueOf(runs', j), (Len(events) = calls)', Logged(j, "allowed")', Logged(j, "blocked")')
    <3>1. CASE j = id
      BY <2>6, <2>8, <3>1 DEF Logged
    <3>2. CASE j # id
      <4>1. Has(runs, j) /\ ValueOf(runs', j) = ValueOf(runs, j)
        BY <2>6, <2>9, <3>2
      <4>2. Fit(ValueOf(runs, j), (Len(events) = calls)', Logged(j, "allowed")', Logged(j, "blocked")')
        BY <1>1, <1>3, <1>4, <3>2, <4>1, FiguresStay
      <4> QED
        BY <4>1, <4>2
    <3> QED
      BY <3>1, <3>2
  <2>10. FiguresMatchLog'
    BY <1>3, <2>6, <2>9, FiguresAgain
  <2>11. RunsFrozen
    BY <2>1, <2>6 DEF RunsFrozen, RunOf, old
  <2> QED
    BY <1>2, <1>3, <1>5, <2>4, <2>6, <2>10, <2>11 DEF allowed, old
<1>9. CASE ~(Concerns(id, who) /\ tool \notin Uncounted)
  <2>1. runs' \in {runs, Touch(runs, id, now, RunLimits)}
    BY <1>1, <1>9 DEF Counted
  <2>2. /\ runs' \in Stores(RunIds, RunRecords, Times)
        /\ \A j : Has(runs', j) => Has(runs, j) /\ ValueOf(runs', j) = ValueOf(runs, j)
        /\ Found(id) => Has(runs', id)
    BY <2>1, LookupKeeps
  <2>3. id # NoRun /\ Has(runs', id) => Found(id)
    <3>1. id # NoRun => runs' = Touch(runs, id, now, RunLimits)
      BY <1>1, <1>9 DEF Counted
    <3>2. runs \in Stores(RunIds, RunRecords, Times) /\ now \in Times
      BY KernelStores
    <3> QED
      BY <3>1, <3>2, TouchStore DEF Found
  <2>4. ASSUME NEW j \in RunIds', Has(runs', j)
        PROVE  Fit(ValueOf(runs', j), (Len(events) = calls)', Logged(j, "allowed")', Logged(j, "blocked")')
    <3>1. Has(runs, j) /\ ValueOf(runs', j) = ValueOf(runs, j)
      BY <2>2, <2>4
    <3>2. \/ entry.run # j
          \/ entry.tool \in Uncounted
          \/ entry.decision = "error"
          \/ entry.decision = "blocked" /\ ValueOf(runs, j).status = "ended"
      BY <1>2, <1>3, <1>4, <1>9, <2>3, <2>4 DEF RunOf
    <3>3. Fit(ValueOf(runs, j), (Len(events) = calls)', Logged(j, "allowed")', Logged(j, "blocked")')
      BY <1>1, <1>3, <1>4, <3>1, <3>2, FiguresStay
    <3> QED
      BY <3>1, <3>3
  <2>5. FiguresMatchLog'
    BY <1>3, <2>2, <2>4, FiguresAgain
  <2>6. RunsFrozen
    BY <2>2 DEF RunsFrozen
  <2>7. allowed /\ id # NoRun =>
          /\ Has(runs', id) /\ ValueOf(runs', id).owner = who /\ ValueOf(runs', id).status = "active"
    BY <1>2, <2>2 DEF RunOf, Concerns
  <2> QED
    BY <1>2, <1>3, <1>5, <2>2, <2>5, <2>6, <2>7 DEF allowed
<1> QED
  BY <1>8, <1>9

\* What a call that leaves the figures alone does: its entry is not counted.
LEMMA UncountedKeeps ==
  ASSUME KernelInv, NEW entry \in LogRecords, Record(entry), issued' = issued,
         entry.run \in RunIds \cup {NoRun}, entry.run = NoRun \/ entry.tool \in Uncounted,
         runs' \in Stores(RunIds, RunRecords, Times),
         \A j : Has(runs', j) => Has(runs, j) /\ ValueOf(runs', j) = ValueOf(runs, j)
  PROVE  /\ runs' \in Stores(RunIds', RunRecords, Times)
         /\ calls' \in 0..MaxCalls /\ audits' \in Stores(1..calls', LogRecords, Times)
         /\ events' \in Stores(1..calls', LogRecords, Times)
         /\ LogIsOfCalls' /\ FiguresMatchLog' /\ RunsFrozen
<1>1. issued \in Nat /\ issued' \in Nat /\ issued <= issued' /\ RunIds' = RunIds /\ NoRun \notin RunIds
  BY KernelStores DEF RunIds
<1>2. /\ calls' \in 0..MaxCalls /\ audits' \in Stores(1..calls', LogRecords, Times)
      /\ events' \in Stores(1..calls', LogRecords, Times) /\ LogIsOfCalls'
  BY <1>1, RecordKeeps
<1>3. ASSUME NEW j \in RunIds', Has(runs', j)
      PROVE  Fit(ValueOf(runs', j), (Len(events) = calls)', Logged(j, "allowed")', Logged(j, "blocked")')
  <2>1. Has(runs, j) /\ ValueOf(runs', j) = ValueOf(runs, j)
    BY <1>3
  <2>2. Fit(ValueOf(runs, j), (Len(events) = calls)', Logged(j, "allowed")', Logged(j, "blocked")')
    BY <1>1, <2>1, FiguresStay
  <2> QED
    BY <2>1, <2>2
<1>4. FiguresMatchLog'
  BY <1>1, <1>3, FiguresAgain
<1>5. RunsFrozen
  BY DEF RunsFrozen
<1> QED
  BY <1>1, <1>2, <1>4, <1>5

\* Call, CreateBundle and BundleReport: the verdict decides.
LEMMA GovernedKeeps ==
  ASSUME KernelInv, NEW tool \in ToolNames, NEW id \in AnyRun, NEW who \in Callers, NEW holds \in BOOLEAN,
         NEW verdict, verdict = Verdict(tool, id, who, holds), Decide(tool, id, who, verdict),
         NEW subject, NEW violation \in Violations, Answer(tool, who, id, subject, violation),
         violation = "none" => verdict[1] = "allowed",
         bundles' \in Stores(Diffs, Callers, Times), OwnersKept,
         UNCHANGED <<guarded, now, issued, explained>>
  PROVE  KernelInv' /\ RunsFrozen /\ OwnersKept
<1>1. /\ runs' \in Stores(RunIds', RunRecords, Times)
      /\ calls' \in 0..MaxCalls /\ audits' \in Stores(1..calls', LogRecords, Times)
      /\ events' \in Stores(1..calls', LogRecords, Times)
      /\ LogIsOfCalls' /\ FiguresMatchLog' /\ RunsFrozen
      /\ verdict[1] = "allowed" /\ id # NoRun =>
           /\ Has(runs', id) /\ ValueOf(runs', id).owner = who
           /\ ValueOf(runs', id).status = "active"
  BY DecideKeeps
<1>2. /\ reply'.violation = violation /\ reply'.ok = (violation = "none")
      /\ reply'.run = id /\ reply'.caller = who /\ reply'.call = tool
  BY DEF Answer
<1>3. OnlyOwnersSucceed'
  BY <1>1, <1>2 DEF OnlyOwnersSucceed
<1>4. now' \in Times /\ issued' \in 0..MaxRuns /\ explained' \in 0..MaxExplained /\ guarded' \in BOOLEAN
  BY DEF KernelInv, TypeOK, Times
<1> QED
  BY <1>1, <1>2, <1>3, <1>4, KernelAgain

LEMMA CallKeeps ==
  ASSUME KernelInv, NEW who \in Callers, NEW id \in AnyRun, NEW tool \in Tools, Call(tool, id, who)
  PROVE  KernelInv' /\ RunsFrozen /\ OwnersKept
<1>1. tool \in ToolNames
  BY DEF ToolNames
<1>2. PICK holds \in BOOLEAN :
        /\ Decide(tool, id, who, Verdict(tool, id, who, holds))
        /\ Answer(tool, who, id, NoRun, Verdict(tool, id, who, holds)[2])
  BY DEF Call
<1> DEFINE verdict == Verdict(tool, id, who, holds)
<1>3. verdict[2] \in Violations /\ (verdict[2] = "none" => verdict[1] = "allowed")
  BY VerdictFacts
<1>4. bundles' \in Stores(Diffs, Callers, Times) /\ OwnersKept
  BY KernelStores DEF Call, OwnersKept
<1>5. UNCHANGED <<guarded, now, issued, explained>>
  BY DEF Call
<1> QED
  BY <1>1, <1>2, <1>3, <1>4, <1>5, GovernedKeeps

\* A bundle that is found is kept as it is.
LEMMA BundleFound ==
  ASSUME KernelInv, NEW diff, bundles' = Touch(bundles, diff, now, BundleLimits)
  PROVE  bundles' \in Stores(Diffs, Callers, Times) /\ OwnersKept
<1>1. bundles \in Stores(Diffs, Callers, Times) /\ now \in Times
  BY KernelStores
<1>2. /\ bundles' \in Stores(Diffs, Callers, Times)
      /\ \A j : Has(bundles', j) => Has(bundles, j) /\ ValueOf(bundles', j) = ValueOf(bundles, j)
  BY <1>1, TouchStore
<1> QED
  BY <1>2 DEF OwnersKept

\* One is written only if there is none.
LEMMA BundleMade ==
  ASSUME KernelInv, NEW diff \in Diffs, NEW who \in Callers, ~Has(Live(bundles, now, BundleLimits), diff),
         bundles' = Put(bundles, diff, who, now, BundleLimits)
  PROVE  bundles' \in Stores(Diffs, Callers, Times) /\ OwnersKept
<1>1. bundles \in Stores(Diffs, Callers, Times) /\ now \in Times
  BY KernelStores
<1>2. /\ bundles' \in Stores(Diffs, Callers, Times)
      /\ \A j : j # diff /\ Has(bundles', j) => Has(bundles, j) /\ ValueOf(bundles', j) = ValueOf(bundles, j)
  BY <1>1, LimitsHold, PutStore
<1> QED
  BY <1>2 DEF OwnersKept

LEMMA CreateBundleKeeps ==
  ASSUME KernelInv, NEW who \in Callers, NEW id \in AnyRun, NEW diff \in Diffs,
         CreateBundle(diff, id, who)
  PROVE  KernelInv' /\ RunsFrozen /\ OwnersKept
<1> DEFINE tool == "create_change_bundle"
<1>1. UNCHANGED <<guarded, now, issued, explained>>
  BY DEF CreateBundle
<1>2. PICK holds \in BOOLEAN, pathsSafe \in BOOLEAN :
        LET verdict == Verdict(tool, id, who, holds)
        IN /\ Decide(tool, id, who, verdict)
           /\ \/ /\ verdict[1] = "allowed" /\ pathsSafe
                 /\ bundles' = IF Has(Live(bundles, now, BundleLimits), diff)
                               THEN Touch(bundles, diff, now, BundleLimits)
                               ELSE Put(bundles, diff, who, now, BundleLimits)
                 /\ Answer(tool, who, id, diff, "none")
              \/ /\ verdict[1] = "allowed" /\ ~pathsSafe
                 /\ Answer(tool, who, id, diff, "POLICY")
                 /\ UNCHANGED bundles
              \/ /\ verdict[1] # "allowed"
                 /\ Answer(tool, who, id, diff, verdict[2])
                 /\ UNCHANGED bundles
  BY DEF CreateBundle
<1> DEFINE verdict == Verdict(tool, id, who, holds)
<1>3. verdict[2] \in Violations /\ (verdict[2] = "none" => verdict[1] = "allowed")
  BY VerdictFacts
<1>4. "none" \in Violations /\ "POLICY" \in Violations
  BY DEF Violations
<1>5. bundles' \in Stores(Diffs, Callers, Times) /\ OwnersKept
  <2>1. CASE UNCHANGED bundles
    BY <2>1, KernelStores DEF OwnersKept
  <2>2. CASE bundles' = IF Has(Live(bundles, now, BundleLimits), diff)
                        THEN Touch(bundles, diff, now, BundleLimits)
                        ELSE Put(bundles, diff, who, now, BundleLimits)
    BY <2>2, BundleFound, BundleMade
  <2> QED
    BY <1>2, <2>1, <2>2
<1>6. PICK violation \in Violations :
        Answer(tool, who, id, diff, violation) /\ (violation = "none" => verdict[1] = "allowed")
  BY <1>2, <1>3, <1>4
<1>7. Decide(tool, id, who, verdict) /\ tool \in ToolNames
  BY <1>2 DEF ToolNames
<1>8. verdict = Verdict(tool, id, who, holds)
  OBVIOUS
<1> HIDE DEF tool, verdict
<1> QED
  BY <1>1, <1>5, <1>6, <1>7, <1>8, GovernedKeeps

LEMMA BundleReportKeeps ==
  ASSUME KernelInv, NEW who \in Callers, NEW id \in AnyRun, NEW diff \in Diffs,
         BundleReport(diff, id, who)
  PROVE  KernelInv' /\ RunsFrozen /\ OwnersKept
<1> DEFINE tool == "bundle_report"
           verdict == Verdict(tool, id, who, TRUE)
<1>1. UNCHANGED <<guarded, now, issued, explained>> /\ Decide(tool, id, who, verdict)
  BY DEF BundleReport
<1>2. \/ /\ verdict[1] = "allowed"
         /\ bundles' = Touch(bundles, diff, now, BundleLimits)
         /\ \/ Answer(tool, who, id, diff, "none")
            \/ Answer(tool, who, id, diff, "BUNDLE_NOT_FOUND")
      \/ /\ verdict[1] # "allowed"
         /\ Answer(tool, who, id, diff, verdict[2])
         /\ UNCHANGED bundles
  BY DEF BundleReport
<1>3. verdict[2] \in Violations /\ (verdict[2] = "none" => verdict[1] = "allowed")
  <2>1. PICK holds \in BOOLEAN : verdict = Verdict(tool, id, who, holds)
    OBVIOUS
  <2>2. /\ verdict[1] \in Decisions /\ verdict[2] \in Violations
        /\ verdict[2] = "none" <=> verdict[1] = "allowed"
    <3> HIDE DEF verdict, tool
    <3> QED
      BY <2>1, VerdictFacts
  <2> QED
    BY <2>2
<1>4. "none" \in Violations /\ "BUNDLE_NOT_FOUND" \in Violations
  BY DEF Violations
<1>5. bundles' \in Stores(Diffs, Callers, Times) /\ OwnersKept
  <2>1. CASE UNCHANGED bundles
    BY <2>1, KernelStores DEF OwnersKept
  <2>2. CASE bundles' = Touch(bundles, diff, now, BundleLimits)
    BY <2>2, BundleFound
  <2> QED
    BY <1>2, <2>1, <2>2
<1>6. PICK violation \in Violations :
        Answer(tool, who, id, diff, violation) /\ (violation = "none" => verdict[1] = "allowed")
  BY <1>2, <1>3, <1>4
<1>7. tool \in ToolNames
  BY DEF ToolNames
<1>8. verdict = Verdict(tool, id, who, TRUE)
  OBVIOUS
<1> HIDE DEF tool, verdict
<1> QED
  BY <1>1, <1>5, <1>6, <1>7, <1>8, GovernedKeeps

\* EndRun and GetRunSummary, when they write nothing but what is over.
LEMMA LifecycleKeeps ==
  ASSUME KernelInv, NEW tool \in {"end_run", "get_run_summary"}, NEW who \in Callers, NEW id \in RunIds,
         NEW entry \in LogRecords, Record(entry),
         entry.run \in RunIds \cup {NoRun}, entry.run = NoRun \/ entry.tool \in Uncounted,
         runs' \in {runs, Touch(runs, id, now, RunLimits)},
         NEW violation \in Violations, Answer(tool, who, id, NoRun, violation),
         violation = "none" => Found(id) /\ RunOf(id).owner = who,
         UNCHANGED <<guarded, bundles, now, issued, explained>>
  PROVE  KernelInv' /\ RunsFrozen /\ OwnersKept
<1>1. /\ runs' \in Stores(RunIds, RunRecords, Times)
      /\ \A j : Has(runs', j) => Has(runs, j) /\ ValueOf(runs', j) = ValueOf(runs, j)
      /\ Found(id) => Has(runs', id)
  BY LookupKeeps
<1>2. /\ runs' \in Stores(RunIds', RunRecords, Times)
      /\ calls' \in 0..MaxCalls /\ audits' \in Stores(1..calls', LogRecords, Times)
      /\ events' \in Stores(1..calls', LogRecords, Times)
      /\ LogIsOfCalls' /\ FiguresMatchLog' /\ RunsFrozen
  BY <1>1, UncountedKeeps
<1>3. /\ reply'.violation = violation /\ reply'.ok = (violation = "none")
      /\ reply'.run = id /\ reply'.caller = who /\ reply'.call = tool
  BY DEF Answer
<1>4. OnlyOwnersSucceed'
  BY <1>1, <1>3 DEF OnlyOwnersSucceed, RunOf
<1>5. /\ now' \in Times /\ issued' \in 0..MaxRuns /\ explained' \in 0..MaxExplained /\ guarded' \in BOOLEAN
      /\ bundles' \in Stores(Diffs, Callers, Times)
  BY KernelStores DEF KernelInv, TypeOK, Times
<1>6. OwnersKept
  BY DEF OwnersKept
<1> QED
  BY <1>2, <1>3, <1>4, <1>5, <1>6, KernelAgain

LEMMA RefuseKeeps ==
  ASSUME KernelInv, NEW tool \in {"end_run", "get_run_summary"}, NEW who \in Callers, NEW id \in RunIds,
         Refuse(tool, id, who), UNCHANGED <<guarded, bundles, now, issued, explained>>
  PROVE  KernelInv' /\ RunsFrozen /\ OwnersKept
<1> DEFINE violation == Refusal(id, who)
           entry == Log(tool, IF who = Nobody THEN "blocked" ELSE "error", violation, NoRun, who)
<1>1. /\ violation # "none" /\ Record(entry) /\ Answer(tool, who, id, NoRun, violation)
      /\ runs' \in {runs, Touch(runs, id, now, RunLimits)}
  BY DEF Refuse
<1>2. violation \in Violations
  BY DEF Refusal, Violations
<1>3. entry \in LogRecords /\ entry.run = NoRun
  <2> DEFINE decision == IF who = Nobody THEN "blocked" ELSE "error"
  <2>1. decision \in Decisions /\ tool \in ToolNames
    BY DEF Decisions, ToolNames
  <2>2. PICK run \in Nat \cup {NoRun} : run = NoRun
    OBVIOUS
  <2>3. entry = Log(tool, decision, violation, run, who)
    BY <2>2
  <2> HIDE DEF decision, violation, entry
  <2> QED
    BY <1>2, <2>1, <2>2, <2>3, LogIsRecord
<1> HIDE DEF violation, entry
<1> QED
  BY <1>1, <1>2, <1>3, LifecycleKeeps

LEMMA GetRunSummaryKeeps ==
  ASSUME KernelInv, NEW who \in Callers, NEW id \in RunIds, GetRunSummary(id, who)
  PROVE  KernelInv' /\ RunsFrozen /\ OwnersKept
<1>1. UNCHANGED <<guarded, bundles, now, issued, explained>>
  BY DEF GetRunSummary
<1>2. CASE Refuse("get_run_summary", id, who)
  BY <1>1, <1>2, RefuseKeeps
<1>3. CASE ~Refuse("get_run_summary", id, who)
  <2> DEFINE entry == Log("get_run_summary", "allowed", "none", id, LoggedOwner("get_run_summary", id, who))
  <2>1. /\ Refusal(id, who) = "none" /\ runs' = Touch(runs, id, now, RunLimits) /\ Record(entry)
        /\ Answer("get_run_summary", who, id, NoRun, "none")
    BY <1>3 DEF GetRunSummary
  <2>2. /\ entry \in LogRecords /\ entry.run = id /\ entry.tool \in Uncounted
    <3>1. "allowed" \in Decisions /\ "get_run_summary" \in ToolNames
      BY DEF Decisions, ToolNames
    <3>2. "none" \in Violations
      BY DEF Violations
    <3>3. id \in Nat
      BY KernelStores DEF RunIds
    <3>4. LoggedOwner("get_run_summary", id, who) \in Callers
      BY DEF LoggedOwner, Callers
    <3>5. entry \in LogRecords /\ entry.run = id /\ entry.tool = "get_run_summary"
      BY <3>1, <3>2, <3>3, <3>4, LogIsRecord
    <3> HIDE DEF entry
    <3> QED
      BY <3>5 DEF Uncounted
  <2>3. Found(id) /\ RunOf(id).owner = who
    BY <2>1 DEF Refusal
  <2>4. "none" \in Violations
    BY DEF Violations
  <2> HIDE DEF entry
  <2> QED
    BY <1>1, <2>1, <2>2, <2>3, <2>4, LifecycleKeeps
<1> QED
  BY <1>2, <1>3

LEMMA EndRunKeeps ==
  ASSUME KernelInv, NEW who \in Callers, NEW id \in RunIds, EndRun(id, who)
  PROVE  KernelInv' /\ RunsFrozen /\ OwnersKept
<1>1. UNCHANGED <<guarded, bundles, now, issued, explained>>
  BY DEF EndRun
<1>2. id \in Nat /\ id \in RunIds' /\ RunIds' = RunIds /\ NoRun \notin RunIds /\ issued' = issued /\ issued \in Nat
  BY <1>1, KernelStores DEF RunIds
<1> DEFINE Ended(decision, violation) == Log("end_run", decision, violation, id, who)
<1>3. CASE Refuse("end_run", id, who)
  BY <1>1, <1>3, RefuseKeeps
<1>4. CASE /\ Refusal(id, who) = "none" /\ runs' = Touch(runs, id, now, RunLimits)
           /\ Record(Ended("error", "RUN_ALREADY_ENDED"))
           /\ Answer("end_run", who, id, NoRun, "RUN_ALREADY_ENDED")
  <2> DEFINE entry == Ended("error", "RUN_ALREADY_ENDED")
  <2>1. "error" \in Decisions /\ "end_run" \in ToolNames
    BY DEF Decisions, ToolNames
  <2>2. "RUN_ALREADY_ENDED" \in Violations
    BY DEF Violations
  <2>3. entry \in LogRecords /\ entry.run = id /\ entry.tool = "end_run"
    BY <1>2, <2>1, <2>2, LogIsRecord
  <2> HIDE DEF entry
  <2>4. entry.tool \in Uncounted
    BY <2>3 DEF Uncounted
  <2>5. Record(entry) /\ runs' \in {runs, Touch(runs, id, now, RunLimits)}
    BY <1>4 DEF entry
  <2> DEFINE violation == "RUN_ALREADY_ENDED"
  <2>6. violation \in Violations /\ violation # "none" /\ Answer("end_run", who, id, NoRun, violation)
    BY <1>4, <2>2
  <2> HIDE DEF violation
  <2> QED
    BY <1>1, <1>2, <2>3, <2>4, <2>5, <2>6, LifecycleKeeps
<1>5. CASE /\ Refusal(id, who) = "none" /\ RunOf(id).status = "active"
           /\ runs' = Put(runs, id, [RunOf(id) EXCEPT !.status = "ended"], now, RunLimits)
           /\ Record(Ended("allowed", "none"))
           /\ Answer("end_run", who, id, NoRun, "none")
  <2> DEFINE entry == Ended("allowed", "none")
             old == RunOf(id)
             new == [old EXCEPT !.status = "ended"]
  <2>1. "allowed" \in Decisions /\ "end_run" \in ToolNames
    BY DEF Decisions, ToolNames
  <2>2. "none" \in Violations
    BY DEF Violations
  <2>3. entry \in LogRecords /\ entry.run = id /\ entry.tool = "end_run"
    BY <1>2, <2>1, <2>2, LogIsRecord
  <2> HIDE DEF entry
  <2>4. entry.tool \in Uncounted /\ Record(entry)
    BY <1>5, <2>3 DEF Uncounted, entry
  <2>5. Found(id) /\ old.owner = who
    BY <1>5 DEF Refusal
  <2>6. Has(runs, id)
    BY <2>5, KernelStores, LiveStore DEF Found
  <2>7. /\ old \in RunRecords
        /\ Fit(old, Len(events) = calls, Logged(id, "allowed"), Logged(id, "blocked"))
    BY <2>6, RunKept DEF RunOf
  <2>8. old.status = "active" /\ runs' = Put(runs, id, new, now, RunLimits)
    BY <1>5
  <2> HIDE DEF old
  <2>9. /\ new \in RunRecords /\ new.owner = old.owner /\ new.status = "ended"
        /\ new.tools = old.tools /\ new.allowed = old.allowed /\ new.blocked = old.blocked
    BY <2>7 DEF RunRecords
  <2> HIDE DEF new
  <2>10. /\ runs' \in Stores(RunIds, RunRecords, Times)
         /\ Has(runs', id) /\ ValueOf(runs', id) = new
         /\ \A j : j # id /\ Has(runs', j) => Has(runs, j) /\ ValueOf(runs', j) = ValueOf(runs, j)
    BY <1>2, <2>8, <2>9, WriteKeeps
  <2>11. /\ calls' \in 0..MaxCalls /\ audits' \in Stores(1..calls', LogRecords, Times)
         /\ events' \in Stores(1..calls', LogRecords, Times) /\ LogIsOfCalls'
    BY <1>2, <2>3, <2>4, RecordKeeps
  <2>12. Fit(old, (Len(events) = calls)', Logged(id, "allowed")', Logged(id, "blocked")')
    BY <1>2, <2>3, <2>4, <2>6, FiguresStay DEF old, RunOf
  <2>13. ASSUME NEW j \in RunIds', Has(runs', j)
         PROVE  Fit(ValueOf(runs', j), (Len(events) = calls)', Logged(j, "allowed")', Logged(j, "blocked")')
    <3>1. CASE j = id
      <4>1. Fit(new, (Len(events) = calls)', Logged(id, "allowed")', Logged(id, "blocked")')
        BY <2>9, <2>12 DEF Fit
      <4> QED
        BY <2>10, <3>1, <4>1 DEF Logged
    <3>2. CASE j # id
      <4>1. Has(runs, j) /\ ValueOf(runs', j) = ValueOf(runs, j)
        BY <2>10, <2>13, <3>2
      <4>2. Fit(ValueOf(runs, j), (Len(events) = calls)', Logged(j, "allowed")', Logged(j, "blocked")')
        BY <1>2, <2>3, <2>4, <4>1, FiguresStay
      <4> QED
        BY <4>1, <4>2
    <3> QED
      BY <3>1, <3>2
  <2>14. FiguresMatchLog'
    BY <1>2, <2>10, <2>13, FiguresAgain
  <2>15. RunsFrozen
    BY <2>8, <2>10 DEF RunsFrozen, RunOf, old
  <2>16. /\ reply'.violation = "none" /\ reply'.run = id /\ reply'.caller = who /\ reply'.call = "end_run"
    BY <1>5 DEF Answer
  <2>17. OnlyOwnersSucceed'
    BY <2>5, <2>9, <2>10, <2>16 DEF OnlyOwnersSucceed
  <2>18. /\ now' \in Times /\ issued' \in 0..MaxRuns /\ explained' \in 0..MaxExplained /\ guarded' \in BOOLEAN
         /\ bundles' \in Stores(Diffs, Callers, Times) /\ OwnersKept
    BY <1>1, KernelStores DEF KernelInv, TypeOK, Times, OwnersKept
  <2>19. reply'.violation \in Violations
    BY <2>2, <2>16
  <2> QED
    BY <1>2, <2>10, <2>11, <2>14, <2>15, <2>17, <2>18, <2>19, KernelAgain
<1> QED
  BY <1>3, <1>4, <1>5 DEF EndRun

LEMMA StartRunKeeps ==
  ASSUME KernelInv, NEW who \in Callers, StartRun(who)
  PROVE  KernelInv' /\ RunsFrozen /\ OwnersKept
<1>1. /\ UNCHANGED <<guarded, bundles, now, explained>> /\ issued \in Nat /\ calls \in Nat
      /\ runs \in Stores(RunIds, RunRecords, Times) /\ NoRun \notin RunIds
  BY KernelStores DEF StartRun
<1>2. /\ now' \in Times /\ explained' \in 0..MaxExplained /\ guarded' \in BOOLEAN
      /\ bundles' \in Stores(Diffs, Callers, Times) /\ OwnersKept
  BY <1>1, KernelStores DEF KernelInv, TypeOK, Times, OwnersKept
<1>3. Nobody \in Callers /\ "none" \in Violations
  BY DEF Callers, Violations
<1>4. CASE /\ Record(Log("start_run", "blocked", "OWNER_ID_REQUIRED", NoRun, Nobody))
           /\ Answer("start_run", who, NoRun, NoRun, "OWNER_ID_REQUIRED")
           /\ UNCHANGED <<runs, issued>>
  <2> DEFINE entry == Log("start_run", "blocked", "OWNER_ID_REQUIRED", NoRun, Nobody)
  <2>1. "blocked" \in Decisions /\ "start_run" \in ToolNames
    BY DEF Decisions, ToolNames
  <2>2. "OWNER_ID_REQUIRED" \in Violations
    BY DEF Violations
  <2>3. entry \in LogRecords /\ entry.run = NoRun
    <3>1. PICK run \in Nat \cup {NoRun} : run = NoRun
      OBVIOUS
    <3>2. entry = Log("start_run", "blocked", "OWNER_ID_REQUIRED", run, Nobody)
      BY <3>1
    <3> HIDE DEF entry
    <3> QED
      BY <1>3, <2>1, <2>2, <3>1, <3>2, LogIsRecord
  <2> HIDE DEF entry
  <2>4. Record(entry) /\ issued' = issued /\ runs' = runs
    BY <1>4 DEF entry
  <2>5. /\ runs' \in Stores(RunIds', RunRecords, Times)
        /\ calls' \in 0..MaxCalls /\ audits' \in Stores(1..calls', LogRecords, Times)
        /\ events' \in Stores(1..calls', LogRecords, Times)
        /\ LogIsOfCalls' /\ FiguresMatchLog' /\ RunsFrozen
    <3>1. /\ entry \in LogRecords /\ Record(entry) /\ issued' = issued
          /\ entry.run \in RunIds \cup {NoRun} /\ entry.run = NoRun
          /\ runs' \in Stores(RunIds, RunRecords, Times)
          /\ \A j : Has(runs', j) => Has(runs, j) /\ ValueOf(runs', j) = ValueOf(runs, j)
      BY <1>1, <2>3, <2>4
    <3> QED
      BY <3>1, UncountedKeeps
  <2>6. reply'.violation = "OWNER_ID_REQUIRED" /\ reply'.run = NoRun
    BY <1>4 DEF Answer
  <2>7. OnlyOwnersSucceed' /\ issued' \in 0..MaxRuns /\ reply'.violation \in Violations
    BY <2>2, <2>4, <2>6 DEF OnlyOwnersSucceed, KernelInv, TypeOK
  <2> QED
    BY <1>2, <2>5, <2>7, KernelAgain
<1>5. CASE /\ who # Nobody /\ issued < MaxRuns /\ issued' = issued + 1
           /\ runs' = Put(runs, issued + 1, NewRun(who), now, RunLimits)
           /\ Record(Log("start_run", "allowed", "none", issued + 1, Nobody))
           /\ Answer("start_run", who, issued + 1, NoRun, "none")
  <2> PICK id : id = issued + 1
    OBVIOUS
  <2> DEFINE new == NewRun(who)
             entry == Log("start_run", "allowed", "none", id, Nobody)
  <2>1. "allowed" \in Decisions /\ "start_run" \in ToolNames
    BY DEF Decisions, ToolNames
  <2>2. id \in Nat /\ id \notin RunIds /\ id \in RunIds' /\ RunIds \subseteq RunIds' /\ issued' \in Nat
        /\ issued <= issued' /\ issued' \in 0..MaxRuns
    BY <1>1, <1>5, BoundsAssumption DEF RunIds
  <2>3. entry \in LogRecords /\ entry.run = id /\ entry.tool = "start_run"
    BY <1>3, <2>1, <2>2, LogIsRecord
  <2>4. /\ runs' = Put(runs, id, new, now, RunLimits) /\ Record(entry)
        /\ Answer("start_run", who, id, NoRun, "none")
    BY <1>5
  <2>5. /\ new \in RunRecords /\ new.owner = who /\ new.status = "active" /\ new.tools = <<>>
        /\ new.allowed = 0 /\ new.blocked = 0
    <3>1. who \in Owners
      BY <1>5 DEF Callers
    <3>2. <<>> \in Seq(ToolNames)
      OBVIOUS
    <3> QED
      BY <3>1, <3>2 DEF NewRun, RunRecords
  <2> HIDE DEF entry, new
  <2>6. entry.tool \in Uncounted
    BY <2>3 DEF Uncounted
  <2>7. NoRun \notin Nat
    BY CallersAssumption
  <2>8. ~Has(runs, id)
    BY <2>2, RunKept
  <2>9. /\ runs' \in Stores(RunIds', RunRecords, Times)
        /\ Has(runs', id) /\ ValueOf(runs', id) = new
        /\ \A j : j # id /\ Has(runs', j) => Has(runs, j) /\ ValueOf(runs', j) = ValueOf(runs, j)
    BY <2>2, <2>4, <2>5, WriteKeeps
  <2>10. /\ calls' \in 0..MaxCalls /\ audits' \in Stores(1..calls', LogRecords, Times)
         /\ events' \in Stores(1..calls', LogRecords, Times) /\ LogIsOfCalls'
    BY <2>2, <2>3, <2>4, RecordKeeps
  <2>11. Fit(new, (Len(events) = calls)', Logged(id, "allowed")', Logged(id, "blocked")')
    <3>1. Logged(id, "allowed") = 0 /\ Logged(id, "blocked") = 0
      <4>1. \A i \in DOMAIN events : events[i].value.run # id
        BY <2>2, <2>7 DEF KernelInv, LogIsOfCalls
      <4>2. \A decision : {i \in DOMAIN events :
               events[i].value.run = id /\ events[i].value.decision = decision
               /\ events[i].value.tool \notin Uncounted} = {}
        BY <4>1
      <4> QED
        BY <4>2, FS_EmptySet DEF Logged
    <3>2. (Len(events) = calls)' => Logged(id, "allowed")' = 0 /\ Logged(id, "blocked")' = 0
      <4> SUFFICES ASSUME (Len(events) = calls)'
                   PROVE  Logged(id, "allowed")' = 0 /\ Logged(id, "blocked")' = 0
        OBVIOUS
      <4>1. \A decision :
              Logged(id, decision)' =
                Logged(id, decision) + (IF entry.run = id /\ entry.decision = decision
                                           /\ entry.tool \notin Uncounted THEN 1 ELSE 0)
        <5>1. entry.run \in RunIds' \cup {NoRun} /\ entry \in LogRecords
          BY <2>2, <2>3
        <5> QED
          BY <2>2, <2>4, <5>1, RecordKeeps
      <4> QED
        BY <2>6, <3>1, <4>1
    <3>3. new.allowed + new.blocked = Len(new.tools)
      BY <2>5
    <3> QED
      BY <2>5, <3>2, <3>3 DEF Fit
  <2>12. ASSUME NEW j \in RunIds', Has(runs', j)
         PROVE  Fit(ValueOf(runs', j), (Len(events) = calls)', Logged(j, "allowed")', Logged(j, "blocked")')
    <3>1. CASE j = id
      BY <2>9, <2>11, <3>1
    <3>2. CASE j # id
      <4>1. Has(runs, j) /\ ValueOf(runs', j) = ValueOf(runs, j)
        BY <2>9, <2>12, <3>2
      <4>2. Fit(ValueOf(runs, j), (Len(events) = calls)', Logged(j, "allowed")', Logged(j, "blocked")')
        BY <2>2, <2>3, <2>4, <2>6, <4>1, FiguresStay
      <4> QED
        BY <4>1, <4>2
    <3> QED
      BY <3>1, <3>2
  <2>13. FiguresMatchLog'
    BY <2>9, <2>12, FiguresAgain
  <2>14. RunsFrozen
    BY <2>2, <2>9 DEF RunsFrozen
  <2>15. /\ reply'.violation = "none" /\ reply'.run = id /\ reply'.caller = who
    BY <2>4 DEF Answer
  <2>16. OnlyOwnersSucceed'
    BY <2>5, <2>9, <2>15 DEF OnlyOwnersSucceed
  <2>17. reply'.violation \in Violations
    BY <1>3, <2>15
  <2> QED
    BY <1>2, <2>2, <2>9, <2>10, <2>13, <2>14, <2>16, <2>17, KernelAgain
<1> QED
  BY <1>4, <1>5 DEF StartRun

LEMMA ExplainKeeps ==
  ASSUME KernelInv, NEW who \in Callers, NEW id \in 0..calls, Explain(id, who)
  PROVE  KernelInv' /\ RunsFrozen /\ OwnersKept
<1>1. /\ UNCHANGED <<guarded, runs, bundles, events, now, issued, calls>>
      /\ explained < MaxExplained /\ explained' = explained + 1
      /\ audits' = Touch(audits, id, now, AuditLimits)
  BY DEF Explain
<1>2. reply'.run = NoRun /\ reply'.violation \in {"none", "AUDIT_NOT_FOUND"}
  BY DEF Explain, Answer
<1>3. audits' \in Stores(1..calls', LogRecords, Times)
  BY <1>1, KernelStores, TouchStore
<1>4. OnlyOwnersSucceed' /\ reply'.violation \in Violations
  BY <1>2 DEF OnlyOwnersSucceed, Violations
<1>5. /\ runs' \in Stores(RunIds', RunRecords, Times) /\ bundles' \in Stores(Diffs, Callers, Times)
      /\ events' \in Stores(1..calls', LogRecords, Times)
      /\ now' \in Times /\ issued' \in 0..MaxRuns /\ calls' \in 0..MaxCalls /\ guarded' \in BOOLEAN
      /\ explained' \in 0..MaxExplained
  BY <1>1, KernelStores, BoundsAssumption DEF KernelInv, TypeOK, Times, RunIds
<1>6. LogIsOfCalls' /\ FiguresMatchLog'
  BY <1>1 DEF KernelInv, LogIsOfCalls, FiguresMatchLog, Logged, RunIds
<1>7. RunsFrozen /\ OwnersKept
  BY <1>1 DEF RunsFrozen, OwnersKept
<1> QED
  BY <1>3, <1>4, <1>5, <1>6, <1>7, KernelAgain

LEMMA KernelStays ==
  ASSUME KernelInv, UNCHANGED <<guarded, runs, bundles, audits, events, issued, calls, explained>>,
         now' \in Times, reply' = reply \/ reply' = Quiet
  PROVE  KernelInv' /\ RunsFrozen /\ OwnersKept
<1>1. /\ runs' \in Stores(RunIds', RunRecords, Times) /\ bundles' \in Stores(Diffs, Callers, Times)
      /\ audits' \in Stores(1..calls', LogRecords, Times) /\ events' \in Stores(1..calls', LogRecords, Times)
      /\ issued' \in 0..MaxRuns /\ calls' \in 0..MaxCalls /\ guarded' \in BOOLEAN
      /\ explained' \in 0..MaxExplained
  BY KernelStores DEF KernelInv, TypeOK, RunIds
<1>2. LogIsOfCalls' /\ FiguresMatchLog'
  BY DEF KernelInv, LogIsOfCalls, FiguresMatchLog, Logged, RunIds
<1>3. RunsFrozen /\ OwnersKept
  BY DEF RunsFrozen, OwnersKept
<1>4. OnlyOwnersSucceed' /\ reply'.violation \in Violations
  <2>1. CASE reply' = reply
    BY <2>1 DEF KernelInv, TypeOK, OnlyOwnersSucceed
  <2>2. CASE reply' = Quiet
    <3>1. reply'.run = NoRun /\ reply'.violation = "none"
      BY <2>2 DEF Quiet
    <3> QED
      BY <3>1 DEF OnlyOwnersSucceed, Violations
  <2> QED
    BY <2>1, <2>2
<1> QED
  BY <1>1, <1>2, <1>3, <1>4, KernelAgain

LEMMA KernelStepInv == KernelInv /\ [Next]_vars => KernelInv' /\ RunsFrozen /\ OwnersKept
<1> SUFFICES ASSUME KernelInv, [Next]_vars PROVE KernelInv' /\ RunsFrozen /\ OwnersKept
  OBVIOUS
<1>1. CASE \E who \in Callers : StartRun(who)
  BY <1>1, StartRunKeeps
<1>2. CASE \E who \in Callers, id \in RunIds : EndRun(id, who) \/ GetRunSummary(id, who)
  BY <1>2, EndRunKeeps, GetRunSummaryKeeps
<1>3. CASE \E who \in Callers, id \in AnyRun, tool \in Tools : Call(tool, id, who)
  BY <1>3, CallKeeps
<1>4. CASE \E who \in Callers, id \in AnyRun, diff \in Diffs :
             CreateBundle(diff, id, who) \/ BundleReport(diff, id, who)
  BY <1>4, CreateBundleKeeps, BundleReportKeeps
<1>5. CASE \E who \in Callers, id \in 0..calls : Explain(id, who)
  BY <1>5, ExplainKeeps
<1>6. CASE Tick
  <2>1. now' \in Times
    BY <1>6, KernelStores, BoundsAssumption DEF Tick, Times
  <2> QED
    BY <1>6, <2>1, KernelStays DEF Tick
<1>7. CASE UNCHANGED vars
  BY <1>7, KernelStores, KernelStays DEF vars
<1> QED
  BY <1>1, <1>2, <1>3, <1>4, <1>5, <1>6, <1>7 DEF Next

\* The inductive invariant: besides the properties themselves, no key is twice in a store,
\* and the event log has no more entries than there were calls, of runs that were started.
THEOREM KernelInvariance == Spec => []KernelInv
<1>1. KernelInv /\ [Next]_vars => KernelInv'
  BY KernelStepInv
<1> QED
  BY <1>1, KernelInitInv, PTL DEF Spec

\* The kernel's stores, log entries and answers are of their types at all times, whatever
\* the calls (Governor, RunTracker, the bundle tools and explain_policy_decision).
THEOREM KernelTypeCorrect == Spec => []TypeOK
<1>1. KernelInv => TypeOK
  BY DEF KernelInv
<1> QED
  BY <1>1, KernelInvariance, PTL

\* A call that names a run succeeds only for the run's owner, on a run that is still kept,
\* and a tool's call only before the end of it (validate_action, end_run, get_run_summary).
THEOREM OwnersOnly == Spec => []OnlyOwnersSucceed
<1>1. KernelInv => OnlyOwnersSucceed
  BY DEF KernelInv
<1> QED
  BY <1>1, KernelInvariance, PTL

\* The figures of every run agree with its tool sequence and, as long as the event log has
\* lost nothing, with what the log holds of it (_log_audit and record_call).
THEOREM FiguresTrue == Spec => []FiguresMatchLog
<1>1. KernelInv => FiguresMatchLog
  BY DEF KernelInv
<1> QED
  BY <1>1, KernelInvariance, PTL

\* No call reopens a run that has ended or adds to its figures.
THEOREM EndedFrozen == Spec => EndedRunsAreFrozen
<1>1. KernelInv /\ [Next]_vars => KernelInv'
  BY KernelStepInv
<1>2. KernelInv /\ [Next]_vars =>
        [\A id \in RunIds :
           Has(runs, id) /\ Has(runs', id) /\ ValueOf(runs, id).status = "ended"
           => ValueOf(runs', id) = ValueOf(runs, id)]_vars
  BY KernelStepInv DEF RunsFrozen
<1> QED
  BY <1>1, <1>2, KernelInitInv, PTL DEF Spec, EndedRunsAreFrozen

\* While a bundle is kept it belongs to the caller who made it first, however often the
\* same diff is bundled again.
THEOREM BundleOwners == Spec => BundlesKeepTheirOwner
<1>1. KernelInv /\ [Next]_vars => KernelInv'
  BY KernelStepInv
<1>2. KernelInv /\ [Next]_vars =>
        [\A diff \in Diffs :
           Has(Live(bundles, now, BundleLimits), diff) /\ Has(bundles', diff)
           => ValueOf(bundles', diff) = ValueOf(bundles, diff)]_vars
  BY KernelStepInv DEF OwnersKept
<1> QED
  BY <1>1, <1>2, KernelInitInv, PTL DEF Spec, BundlesKeepTheirOwner

-----------------------------------------------------------------------------
(***************************************************************************)
(* StoreHistory, for any keys and values and any limits.  First, what is   *)
(* among the entries of a store, in their order.                           *)
(***************************************************************************)

\* How many places are kept after one of them.
LEMMA PlacesAfter ==
  ASSUME NEW n \in Nat, NEW P \in SUBSET (1..n), NEW i \in P
  PROVE  /\ IsFiniteSet({h \in P : h > i}) /\ Cardinality({h \in P : h > i}) \in Nat
         /\ Cardinality(P) - Rank(P, i) = Cardinality({h \in P : h > i})
<1> DEFINE Q == {h \in P : h <= i}
           R == {h \in P : h > i}
<1>1. IsFiniteSet(P) /\ Cardinality(P) \in Nat
  BY RankIncreases
<1>2. IsFiniteSet(Q) /\ IsFiniteSet(R)
  BY <1>1, FS_Subset
<1>3. Cardinality(Q) \in Nat /\ Cardinality(R) \in Nat
  BY <1>2, FS_CardinalityType
<1>4. Q \cup R = P /\ Q \cap R = {}
  <2>1. \A h \in P : h <= i \/ h > i
    OBVIOUS
  <2>2. \A h \in P : ~(h <= i /\ h > i)
    OBVIOUS
  <2>3. Q \cup R = P
    BY <2>1
  <2>4. Q \cap R = {}
    BY <2>2
  <2> QED
    BY <2>3, <2>4
<1>5. Rank(P, i) = Cardinality(Q)
  BY DEF Rank
<1> HIDE DEF Q, R
<1>6. Cardinality(P) = Cardinality(Q) + Cardinality(R) - Cardinality({})
  BY <1>2, <1>4, FS_Union
<1>7. Cardinality({}) = 0
  BY FS_EmptySet
<1> QED
  BY <1>2, <1>3, <1>5, <1>6, <1>7 DEF R

\* Entries in order are at least as far from the end as there are entries after them.
LEMMA PlacesGap ==
  ASSUME NEW n \in Nat, NEW c \in Nat, NEW e \in [1..c -> 1..n], Increases(e), NEW m \in 1..c
  PROVE  n - e[m] >= c - m
<1> DEFINE P == {e[l] : l \in 1..c}
           i == e[m]
           R == {h \in P : h > i}
<1>1. P \in SUBSET (1..n) /\ i \in P /\ i \in 1..n
  OBVIOUS
<1>2. Cardinality(P) = c /\ Rank(P, i) = m
  <2>1. Cardinality({e[l] : l \in 1..c}) = c /\ \A j \in 1..c : Rank({e[l] : l \in 1..c}, e[j]) = j
    BY IncreasingIsRanked
  <2>2. Rank({e[l] : l \in 1..c}, e[m]) = m
    BY <2>1
  <2> QED
    BY <2>1, <2>2
<1> HIDE DEF P, i
<1>3. Cardinality(R) = c - m /\ IsFiniteSet(R)
  BY <1>1, <1>2, PlacesAfter
<1>4. R \in SUBSET (i + 1..n)
  <2>1. \A h \in P : h \in 1..n /\ (h > i => h \in i + 1..n)
    BY <1>1
  <2> QED
    BY <2>1
<1> HIDE DEF R
<1>5. IsFiniteSet(i + 1..n) /\ Cardinality(i + 1..n) = n - i
  BY <1>1, FS_Interval
<1>6. Cardinality(R) <= n - i
  BY <1>4, <1>5, FS_Subset
<1> QED
  BY <1>3, <1>6 DEF i

LEMMA PlacesCompose ==
  ASSUME NEW q, NEW s, NEW u, Len(q) \in Nat, Len(s) \in Nat, Len(u) \in Nat,
         NEW e \in Places(q, s), NEW f \in Places(s, u)
  PROVE  Places(q, u) # {}
<1> DEFINE g == [m \in 1..Len(q) |-> f[e[m]]]
<1>1. /\ e \in [1..Len(q) -> 1..Len(s)] /\ Increases(e) /\ \A m \in 1..Len(q) : q[m] = s[e[m]]
      /\ f \in [1..Len(s) -> 1..Len(u)] /\ Increases(f) /\ \A m \in 1..Len(s) : s[m] = u[f[m]]
  BY DEF Places
<1>2. g \in [1..Len(q) -> 1..Len(u)] /\ \A m \in 1..Len(q) : q[m] = u[g[m]]
  BY <1>1
<1>3. Increases(g)
  <2> SUFFICES ASSUME NEW l \in 1..Len(q), NEW m \in 1..Len(q), l < m PROVE f[e[l]] < f[e[m]]
    BY DEF Increases
  <2>1. e[l] < e[m] /\ e[l] \in 1..Len(s) /\ e[m] \in 1..Len(s)
    BY <1>1 DEF Increases
  <2> QED
    BY <1>1, <2>1 DEF Increases
<1> QED
  BY <1>2, <1>3 DEF Places

\* Entries of other keys stay in order when a key is taken out.
LEMMA PlacesWithoutKey ==
  ASSUME NEW S, NEW s \in Seq(S), NEW u \in Seq(S), NEW e \in Places(s, u), NEW k, ~Has(s, k)
  PROVE  Places(s, WithoutKey(u, k)) # {}
<1> DEFINE P == {i \in DOMAIN u : u[i].key # k}
           w == WithoutKey(u, k)
           f == [m \in 1..Len(s) |-> Rank(P, e[m])]
<1>1. /\ Len(s) \in Nat /\ Len(u) \in Nat /\ DOMAIN u = 1..Len(u) /\ DOMAIN s = 1..Len(s)
      /\ P \in SUBSET DOMAIN u /\ P \in SUBSET (1..Len(u)) /\ w = Pick(u, P)
  BY DEF WithoutKey
<1>2. e \in [1..Len(s) -> 1..Len(u)] /\ Increases(e) /\ \A m \in 1..Len(s) : s[m] = u[e[m]]
  BY DEF Places
<1>3. \A m \in 1..Len(s) : e[m] \in P
  <2> SUFFICES ASSUME NEW m \in 1..Len(s) PROVE e[m] \in P
    OBVIOUS
  <2>1. s[m].key # k
    BY <1>1 DEF Has, StoreKeys
  <2> QED
    BY <1>1, <1>2, <2>1
<1> HIDE DEF P, w
<1>4. /\ Len(w) = Cardinality(P) /\ \A m \in 1..Len(w) : w[m] = u[Place(P, m)]
  BY <1>1, PickIsSequence
<1>5. \A i \in P : Rank(P, i) \in 1..Cardinality(P) /\ Place(P, Rank(P, i)) = i
  BY <1>1, RankIncreases, PlacesInOrder
<1>6. f \in [1..Len(s) -> 1..Len(w)]
  BY <1>3, <1>4, <1>5
<1>7. \A m \in 1..Len(s) : s[m] = w[f[m]]
  <2> SUFFICES ASSUME NEW m \in 1..Len(s) PROVE s[m] = w[Rank(P, e[m])]
    OBVIOUS
  <2> DEFINE i == e[m]
  <2>1. i \in P /\ s[m] = u[i]
    BY <1>2, <1>3
  <2> HIDE DEF i
  <2>2. w[Rank(P, i)] = u[i]
    BY <1>4, <1>5, <2>1
  <2> QED
    BY <2>1, <2>2 DEF i
<1>8. Increases(f)
  <2> SUFFICES ASSUME NEW l \in 1..Len(s), NEW m \in 1..Len(s), l < m
               PROVE  Rank(P, e[l]) < Rank(P, e[m])
    BY DEF Increases
  <2>1. e[l] < e[m] /\ e[l] \in P /\ e[m] \in P
    BY <1>2, <1>3 DEF Increases
  <2> QED
    BY <1>1, <2>1, RankIncreases
<1> QED
  BY <1>6, <1>7, <1>8 DEF Places, w

LEMMA PlacesAppend ==
  ASSUME NEW S, NEW s \in Seq(S), NEW u \in Seq(S), NEW e \in Places(s, u), NEW a \in S
  PROVE  Places(Append(s, a), Append(u, a)) # {}
<1> DEFINE c == Len(s)
           n == Len(u)
           f == [m \in 1..c + 1 |-> IF m <= c THEN e[m] ELSE n + 1]
<1>1. /\ c \in Nat /\ n \in Nat /\ Len(Append(s, a)) = c + 1 /\ Len(Append(u, a)) = n + 1
      /\ Append(s, a)[c + 1] = a /\ \A m \in 1..c : Append(s, a)[m] = s[m]
      /\ Append(u, a)[n + 1] = a /\ \A m \in 1..n : Append(u, a)[m] = u[m]
  OBVIOUS
<1>2. e \in [1..c -> 1..n] /\ Increases(e) /\ \A m \in 1..c : s[m] = u[e[m]]
  BY DEF Places
<1> HIDE DEF c, n
<1>3. \A m \in 1..c + 1 : m \in 1..c \/ m = c + 1
  BY <1>1
<1>4. \A m \in 1..c : f[m] = e[m] /\ e[m] \in 1..n /\ m \in Int /\ m < c + 1
  BY <1>1, <1>2
<1>5. f[c + 1] = n + 1
  BY <1>1
<1>6. f \in [1..c + 1 -> 1..n + 1]
  <2>1. ASSUME NEW m \in 1..c + 1 PROVE f[m] \in 1..n + 1
    <3>1. f[m] \in 1..n \/ f[m] = n + 1
      BY <1>3, <1>4, <1>5
    <3> HIDE DEF f
    <3> QED
      BY <1>1, <3>1
  <2> QED
    BY <2>1
<1>7. \A l, m \in 1..c + 1 : l < m => f[l] < f[m]
  <2> SUFFICES ASSUME NEW l \in 1..c + 1, NEW m \in 1..c + 1, l < m PROVE f[l] < f[m]
    OBVIOUS
  <2>1. l \in 1..c
    BY <1>1
  <2>2. CASE m \in 1..c
    BY <1>2, <1>4, <2>1, <2>2 DEF Increases
  <2>3. CASE m = c + 1
    <3>1. f[m] = n + 1 /\ f[l] \in 1..n
      BY <1>4, <1>5, <2>1, <2>3
    <3> HIDE DEF f
    <3> QED
      BY <1>1, <3>1
  <2> QED
    BY <1>3, <2>2, <2>3
<1>8. DOMAIN f = 1..c + 1
  OBVIOUS
<1> HIDE DEF f
<1>9. \A m \in 1..c + 1 : Append(s, a)[m] = Append(u, a)[f[m]]
  <2> SUFFICES ASSUME NEW m \in 1..c + 1 PROVE Append(s, a)[m] = Append(u, a)[f[m]]
    OBVIOUS
  <2>1. CASE m \in 1..c
    BY <1>1, <1>2, <1>4, <2>1
  <2>2. CASE m = c + 1
    BY <1>1, <1>5, <2>2
  <2> QED
    BY <1>3, <2>1, <2>2
<1>10. Increases(f)
  BY <1>7, <1>8 DEF Increases
<1>11. f \in Places(Append(s, a), Append(u, a))
  BY <1>1, <1>6, <1>9, <1>10 DEF Places
<1> QED
  BY <1>11

\* An entry has one place, if no key is twice.
LEMMA PlaceOfKey ==
  ASSUME NEW s, NEW u, DOMAIN u = 1..Len(u), DOMAIN s = 1..Len(s), Distinct(u), NEW e \in Places(s, u),
         NEW m \in DOMAIN s, NEW i \in DOMAIN u, s[m].key = u[i].key
  PROVE  e[m] = i /\ s[m] = u[i]
<1>1. e[m] \in DOMAIN u /\ s[m] = u[e[m]]
  BY DEF Places
<1> QED
  BY <1>1 DEF Distinct

\* Taking out a key moves every other entry at most one place nearer to the end.
LEMMA WithoutKeyMoves ==
  ASSUME NEW S, NEW u \in Seq(S), Distinct(u), NEW k,
         NEW P, P = {i \in DOMAIN u : u[i].key # k}, NEW i \in P
  PROVE  Len(WithoutKey(u, k)) + 1 - Rank(P, i) >= Len(u) - i
<1> DEFINE n == Len(u)
           Q == {h \in P : h > i}
<1>1. n \in Nat /\ DOMAIN u = 1..n /\ P \in SUBSET (1..n) /\ P \in SUBSET DOMAIN u /\ i \in 1..n
  OBVIOUS
<1>2. Len(WithoutKey(u, k)) = Cardinality(P)
  BY <1>1, PickIsSequence DEF WithoutKey
<1> HIDE DEF n
<1>3. IsFiniteSet(Q) /\ Cardinality(Q) \in Nat /\ Cardinality(P) - Rank(P, i) = Cardinality(Q)
  BY <1>1, PlacesAfter
<1>4. PICK a : i + 1..n \subseteq Q \cup {a}
  <2>1. CASE \E h \in DOMAIN u : u[h].key = k
    <3>1. PICK a \in DOMAIN u : u[a].key = k
      BY <2>1
    <3>2. \A h \in 1..n : h = a \/ h \in P
      BY <1>1, <3>1 DEF Distinct
    <3>3. \A h \in i + 1..n : h \in 1..n /\ h > i
      BY <1>1
    <3> QED
      BY <3>2, <3>3
  <2>2. CASE ~\E h \in DOMAIN u : u[h].key = k
    <3>1. \A h \in i + 1..n : h \in 1..n /\ h > i /\ h \in P
      BY <1>1, <2>2
    <3> QED
      BY <3>1
  <2> QED
    BY <2>1, <2>2
<1> HIDE DEF Q
<1>5. IsFiniteSet(Q \cup {a}) /\ Cardinality(Q \cup {a}) <= Cardinality(Q) + 1
  <2>1. /\ IsFiniteSet(Q \cup {a})
        /\ Cardinality(Q \cup {a}) = IF a \in Q THEN Cardinality(Q) ELSE Cardinality(Q) + 1
    BY <1>3, FS_AddElement
  <2> QED
    BY <1>3, <2>1
<1>6. Cardinality(i + 1..n) = n - i
  BY <1>1, FS_Interval
<1>7. Cardinality(i + 1..n) <= Cardinality(Q \cup {a}) /\ Cardinality(Q \cup {a}) \in Nat
  BY <1>4, <1>5, FS_Subset, FS_CardinalityType
<1>8. Cardinality(P) \in Nat /\ Rank(P, i) \in Int
  <2>1. Cardinality(P) \in 0..n /\ \A h \in P : Rank(P, h) \in 1..Cardinality(P)
    BY <1>1, RankIncreases
  <2> QED
    BY <1>1, <2>1
<1> QED
  BY <1>1, <1>2, <1>3, <1>5, <1>6, <1>7, <1>8 DEF n

\* An entry of the history is in the store, or was deleted, or its time is over, or max
\* other keys were used after it: Retained, of any store, history and time.
Kept(d, u, t) ==
  \A i \in DOMAIN u :
    \/ Has(d, u[i].key)
    \/ u[i].value = Deleted
    \/ t - u[i].seen > Ttl
    \/ Len(u) - i >= MaxSize

StoreTimes == 0..StoreTime
Known == Values \cup {Deleted}

\* The inductive invariant, of any store, history and time: the entries of the store are
\* among those of the history, in the same order, and no key is twice in either.
Good(d, u, t) ==
  /\ d \in Stores(Keys, Values, StoreTimes) /\ u \in Stores(Keys, Known, StoreTimes)
  /\ t \in StoreTimes /\ Places(d, u) # {} /\ Kept(d, u, t)

StoreInv == Good(data, used, time)

LEMMA StoreFacts ==
  ASSUME NEW K, NEW V, NEW T, NEW s \in Stores(K, V, T)
  PROVE  Len(s) \in Nat /\ DOMAIN s = 1..Len(s) /\ Distinct(s) /\ s \in Seq([key : K, value : V, seen : T])
BY DEF Stores

\* What is left when the overflow is evicted is in the old order.
LEMMA TrimmedIsAmong ==
  ASSUME NEW K, NEW V, NEW T, NEW s \in Stores(K, V, T), NEW lim, lim.max \in Nat \ {0},
         NEW q, q = Trimmed(s, lim)
  PROVE  Places(q, s) # {}
<1> DEFINE e == [i \in 1..Len(q) |-> i + Len(s) - Len(q)]
<1>1. q \in Stores(K, V, T) /\ Len(q) <= Len(s) /\ \A i \in 1..Len(q) : q[i] = s[i + Len(s) - Len(q)]
  <2>1. q \in Stores(K, V, T) /\ Len(q) <= Len(s)
    BY TrimmedStore
  <2>2. IsTail(q, s)
    BY TrimmedStore
  <2> QED
    BY <2>1, <2>2 DEF IsTail
<1>2. Len(q) \in Nat /\ Len(s) \in Nat
  BY <1>1, StoreFacts
<1>3. e \in [1..Len(q) -> 1..Len(s)]
  <2>1. \A i \in 1..Len(q) : i + Len(s) - Len(q) \in 1..Len(s)
    BY <1>1, <1>2
  <2> QED
    BY <2>1
<1>4. Increases(e)
  BY <1>2 DEF Increases
<1>5. \A m \in 1..Len(q) : q[m] = s[e[m]]
  BY <1>1
<1> HIDE DEF e
<1> QED
  BY <1>3, <1>4, <1>5 DEF Places

\* k was used at t: it is at the end of the store full, which is cut down to q, and of the
\* history w, before which the history is old.
Moved(d, old, t, k, full, q, w) ==
  /\ full \in Stores(Keys, Values, StoreTimes) /\ q \in Stores(Keys, Values, StoreTimes)
  /\ w \in Stores(Keys, Known, StoreTimes)
  /\ Places(q, w) # {} /\ Places(full, w) # {}
  /\ Len(w) = Len(old) + 1 /\ w[Len(w)].key = k /\ \A i \in 1..Len(old) : w[i] = old[i]
  /\ Len(q) <= Len(full) /\ (Len(q) < Len(full) => Len(q) = MaxSize)
  /\ IsTail(q, full)
  /\ Len(q) >= 1 /\ full[Len(full)].key = k
  /\ \A i \in DOMAIN d : d[i].key # k /\ t - d[i].seen <= Ttl => Has(full, d[i].key)

\* The steps of set and of a get that finds its key: the key goes to the end of the store
\* and of the history.
LEMMA UsePlaces ==
  ASSUME NEW d, NEW u, NEW t, Good(d, u, t), NEW k \in Keys, NEW v \in Values,
         NEW full, full = Append(WithoutKey(Live(d, t, Limits), k), Entry(k, v, t)),
         NEW q \in {full, Trimmed(full, Limits)},
         NEW w, w = Append(WithoutKey(u, k), Entry(k, v, t))
  PROVE  Moved(d, WithoutKey(u, k), t, k, full, q, w)
<1> DEFINE live == Live(d, t, Limits)
           rest == WithoutKey(live, k)
           old == WithoutKey(u, k)
           a == Entry(k, v, t)
           K == Keys
           V == Known
           T == StoreTimes
           S == [key : K, value : V, seen : T]
<1>1. /\ d \in Stores(Keys, Values, T) /\ u \in Stores(K, V, T) /\ t \in T
      /\ Places(d, u) # {} /\ Kept(d, u, t) /\ k \in K /\ v \in V /\ Limits.max \in Nat \ {0}
      /\ Limits.max = MaxSize /\ Limits.ttl = Ttl
  BY StoreAssumption DEF Good, Known, Limits
<1>2. /\ live \in Stores(Keys, Values, T)
      /\ \A i \in DOMAIN d : Has(live, d[i].key) <=> t - d[i].seen <= Ttl
  BY <1>1, LiveStore
<1>3. /\ rest \in Stores(Keys, Values, T)
      /\ \A j : Has(rest, j) <=> Has(live, j) /\ j # k
  <2> HIDE DEF live
  <2> QED
    BY <1>2, WithoutKeyStore
<1>4. old \in Stores(K, V, T) /\ ~Has(old, k)
  BY <1>1, WithoutKeyStore
<1> HIDE DEF K, V, S
<1>5. /\ full \in Stores(Keys, Values, T) /\ Len(full) = Len(rest) + 1 /\ full[Len(full)] = a
      /\ Has(full, k) /\ \A j : j # k => (Has(full, j) <=> Has(rest, j))
  <2> HIDE DEF live, rest
  <2>1. ~Has(rest, k) /\ full = Append(rest, a)
    BY <1>3 DEF rest, live
  <2> QED
    BY <1>1, <1>3, <2>1, AppendStore
<1>6. /\ w \in Stores(K, V, T) /\ Len(w) = Len(old) + 1 /\ w[Len(w)] = a
      /\ \A i \in 1..Len(old) : w[i] = old[i]
  <2> HIDE DEF old
  <2>1. w = Append(old, a)
    BY DEF old
  <2> QED
    BY <1>1, <1>4, <2>1, AppendStore
<1>7. /\ q \in Stores(Keys, Values, T) /\ Len(q) <= Len(full)
      /\ Len(q) < Len(full) => Len(q) = MaxSize
      /\ Len(q) >= 1
      /\ IsTail(q, full)
      /\ Places(q, full) # {}
  <2>1. Len(full) \in Nat /\ Len(full) >= 1 /\ full \in Seq([key : Keys, value : Values, seen : T])
        /\ DOMAIN full = 1..Len(full)
    <3>1. Len(rest) \in Nat
      BY <1>3, StoreFacts
    <3>2. /\ Len(full) \in Nat /\ full \in Seq([key : Keys, value : Values, seen : T])
          /\ DOMAIN full = 1..Len(full)
      BY <1>5, StoreFacts
    <3> QED
      BY <1>5, <3>1, <3>2
  <2>2. CASE q = full
    <3>1. [m \in 1..Len(full) |-> m] \in Places(full, full)
      BY <2>1 DEF Places, Increases
    <3> QED
      BY <1>5, <2>1, <2>2, <3>1 DEF IsTail
  <2>3. CASE q = Trimmed(full, Limits)
    <3>1. /\ q \in Stores(Keys, Values, T) /\ Len(q) <= Len(full)
          /\ Len(q) = IF Len(full) > Limits.max THEN Limits.max ELSE Len(full)
          /\ IsTail(q, full)
      <4> DEFINE lim == Limits
      <4>1. /\ q = Trimmed(full, lim) /\ lim.max \in Nat \ {0}
            /\ full \in Stores(Keys, Values, T)
        BY <1>1, <1>5, <2>3
      <4> HIDE DEF lim
      <4>2. /\ q \in Stores(Keys, Values, T) /\ Len(q) <= Len(full)
            /\ Len(q) = IF Len(full) > lim.max THEN lim.max ELSE Len(full)
        BY ONLY <4>1, TrimmedStore
      <4>3. IsTail(q, full)
        BY ONLY <4>1, TrimmedStore
      <4> QED
        BY <4>2, <4>3 DEF lim
    <3>2. Places(q, full) # {}
      BY <1>1, <1>5, <2>3, TrimmedIsAmong
    <3> QED
      BY <1>1, <2>1, <3>1, <3>2
  <2> QED
    BY <2>2, <2>3
<1>8. Places(q, w) # {} /\ Places(full, w) # {}
  <2>1. /\ Len(d) \in Nat /\ Len(u) \in Nat /\ Len(live) \in Nat /\ Len(rest) \in Nat
        /\ Len(full) \in Nat /\ Len(q) \in Nat /\ Len(w) \in Nat
    BY <1>1, <1>2, <1>3, <1>5, <1>6, <1>7, StoreFacts
  <2>2. Places(live, d) # {}
    <3>1. d \in Seq([key : Keys, value : Values, seen : T])
      BY <1>1, StoreFacts
    <3> QED
      BY <3>1, PickIsAmong DEF Live
  <2>3. Places(rest, live) # {}
    <3>1. live \in Seq([key : Keys, value : Values, seen : T])
      BY <1>2, StoreFacts
    <3> HIDE DEF live
    <3> QED
      BY <3>1, PickIsAmong DEF WithoutKey
  <2>4. Places(live, u) # {}
    BY <1>1, <2>1, <2>2, PlacesCompose
  <2>5. Places(rest, u) # {}
    BY <2>1, <2>3, <2>4, PlacesCompose
  <2>6. rest \in Seq(S) /\ u \in Seq(S) /\ old \in Seq(S) /\ a \in S
    <3>1. rest \in Seq([key : Keys, value : Values, seen : T]) /\ u \in Seq(S) /\ old \in Seq(S)
      BY <1>1, <1>3, <1>4, StoreFacts DEF S
    <3>2. [key : Keys, value : Values, seen : T] \subseteq S
      BY DEF S, K, V, Known
    <3>3. a \in S
      BY <1>1 DEF S, Entry
    <3> DEFINE R == [key : Keys, value : Values, seen : T]
    <3>4. rest \in Seq(R) /\ R \subseteq S
      BY <3>1, <3>2
    <3> HIDE DEF rest, old, R, S, a
    <3>5. rest \in Seq(S)
      BY <3>4
    <3> QED
      BY <3>1, <3>3, <3>5
  <2> HIDE DEF live, rest, old, a
  <2>7. Places(rest, old) # {}
    BY <1>3, <2>5, <2>6, PlacesWithoutKey DEF old
  <2>8. Places(full, w) # {}
    BY <2>6, <2>7, PlacesAppend DEF rest, live, old, a
  <2> QED
    BY <1>7, <2>1, <2>8, PlacesCompose
<1>9. \A i \in DOMAIN d : d[i].key # k /\ t - d[i].seen <= Ttl => Has(full, d[i].key)
  BY <1>2, <1>3, <1>5
<1>10. a.key = k
  BY DEF a, Entry
<1> HIDE DEF a
<1>11. full[Len(full)].key = k /\ w[Len(w)].key = k
  BY <1>5, <1>6, <1>10
<1>12. w \in Stores(Keys, Known, StoreTimes) /\ q \in Stores(Keys, Values, StoreTimes)
       /\ full \in Stores(Keys, Values, StoreTimes)
  BY <1>5, <1>6, <1>7 DEF K, V
<1> QED
  BY <1>6, <1>7, <1>8, <1>9, <1>11, <1>12 DEF Moved, old

\* Nothing else is lost from the store than what is expired or over the limit.
LEMMA KeptAgain ==
  ASSUME NEW d, NEW u, NEW t, Good(d, u, t), NEW k, NEW full, NEW q, NEW w, NEW old,
         old = WithoutKey(u, k),
         Moved(d, old, t, k, full, q, w)
  PROVE  Kept(q, w, t)
<1> DEFINE P == {i \in DOMAIN u : u[i].key # k}
           S == [key : Keys, value : Known, seen : StoreTimes]
<1>1. /\ d \in Stores(Keys, Values, StoreTimes) /\ u \in Stores(Keys, Known, StoreTimes)
      /\ t \in StoreTimes /\ Places(d, u) # {} /\ Kept(d, u, t)
      /\ MaxSize \in Nat /\ Ttl \in Nat
  BY StoreAssumption DEF Good
<1> USE DEF Moved, IsTail
<1>2. /\ Len(w) \in Nat /\ DOMAIN w = 1..Len(w) /\ Distinct(w)
  BY StoreFacts
<1>3. /\ Len(u) \in Nat /\ DOMAIN u = 1..Len(u) /\ Distinct(u) /\ u \in Seq(S)
  BY <1>1, StoreFacts
<1>4. Len(full) \in Nat /\ DOMAIN full = 1..Len(full)
  BY StoreFacts
<1>5. Len(q) \in Nat /\ DOMAIN q = 1..Len(q)
  BY StoreFacts
<1> HIDE DEF S
<1>6. /\ P \in SUBSET DOMAIN u /\ P \in SUBSET (1..Len(u)) /\ old = Pick(u, P)
      /\ Len(old) = Cardinality(P) /\ Len(old) \in Nat
      /\ \A m \in 1..Len(old) : Place(P, m) \in P /\ old[m] = u[Place(P, m)] /\ Rank(P, Place(P, m)) = m
  <2>1. P \in SUBSET DOMAIN u /\ P \in SUBSET (1..Len(u)) /\ old = Pick(u, P)
    BY <1>3 DEF WithoutKey
  <2> HIDE DEF P
  <2>2. /\ Len(old) = Cardinality(P) /\ Cardinality(P) \in 0..Len(u)
        /\ \A m \in 1..Cardinality(P) : Place(P, m) \in P /\ old[m] = u[Place(P, m)]
    BY <1>3, <2>1, PickIsSequence
  <2>3. \A m \in 1..Cardinality(P) : Rank(P, Place(P, m)) = m
    BY <1>3, <2>1, PlacesInOrder
  <2> QED
    BY <1>3, <2>1, <2>2, <2>3
<1>7. Has(q, k)
  <2>1. Len(q) \in 1..Len(q) /\ Len(q) + Len(full) - Len(q) = Len(full)
    BY <1>4, <1>5
  <2>2. q[Len(q)] = full[Len(q) + Len(full) - Len(q)]
    BY <2>1
  <2>3. q[Len(q)].key = k /\ Len(q) \in DOMAIN q
    BY <1>5, <2>1, <2>2
  <2> QED
    BY <2>3 DEF Has, StoreKeys
<1>8. ASSUME NEW p \in DOMAIN full, p > Len(full) - Len(q) PROVE Has(q, full[p].key)
  <2> DEFINE r == p - (Len(full) - Len(q))
  <2>1. p \in 1..Len(full)
    BY <1>4
  <2>2. r \in 1..Len(q) /\ r + Len(full) - Len(q) = p
    BY <1>4, <1>5, <1>8, <2>1
  <2> HIDE DEF r
  <2>3. r \in DOMAIN q /\ q[r] = full[p]
    BY <1>5, <2>2
  <2> QED
    BY <2>3 DEF Has, StoreKeys
<1>9. ASSUME NEW p \in DOMAIN full, ~(p > Len(full) - Len(q)) PROVE Len(full) - p >= MaxSize
  <2>1. p \in 1..Len(full)
    BY <1>4
  <2>2. p <= Len(full) - Len(q) /\ p >= 1 /\ p \in Nat
    BY <1>4, <1>5, <1>9, <2>1
  <2>3. Len(q) < Len(full)
    BY <1>4, <1>5, <2>2
  <2> QED
    BY <1>4, <1>5, <2>2, <2>3
<1>10. ASSUME NEW p \in DOMAIN full, NEW m \in DOMAIN w, full[p].key = w[m].key
       PROVE  Len(w) - m >= Len(full) - p
  <2>1. PICK f : f \in Places(full, w)
    OBVIOUS
  <2>2. f[p] = m
    <3>1. /\ DOMAIN w = 1..Len(w) /\ DOMAIN full = 1..Len(full) /\ Distinct(w)
          /\ f \in Places(full, w) /\ p \in DOMAIN full /\ m \in DOMAIN w
          /\ full[p].key = w[m].key
      BY <1>2, <1>4, <1>10, <2>1
    <3> QED
      BY ONLY <3>1, PlaceOfKey
  <2>3. f \in [1..Len(full) -> 1..Len(w)] /\ Increases(f) /\ p \in 1..Len(full)
    BY <1>4, <2>1 DEF Places
  <2>4. Len(w) - f[p] >= Len(full) - p
    BY ONLY <1>2, <1>4, <2>3, PlacesGap
  <2> QED
    BY <2>2, <2>4
<1>11. ASSUME NEW n \in DOMAIN d, NEW i \in DOMAIN u, d[n].key = u[i].key
       PROVE  d[n] = u[i]
  <2>1. PICK e : e \in Places(d, u)
    BY <1>1
  <2>2. DOMAIN d = 1..Len(d)
    BY <1>1, StoreFacts
  <2>3. /\ DOMAIN u = 1..Len(u) /\ DOMAIN d = 1..Len(d) /\ Distinct(u) /\ e \in Places(d, u)
        /\ n \in DOMAIN d /\ i \in DOMAIN u /\ d[n].key = u[i].key
    BY <1>3, <1>11, <2>1, <2>2
  <2> QED
    BY ONLY <2>3, PlaceOfKey
<1>12. ASSUME NEW m \in DOMAIN w
       PROVE  Has(q, w[m].key) \/ w[m].value = Deleted \/ t - w[m].seen > Ttl \/ Len(w) - m >= MaxSize
  <2>1. m \in 1..Len(w) /\ (m \in 1..Len(old) \/ m = Len(w))
    BY <1>2, <1>6
  <2>2. CASE m = Len(w)
    BY <1>7, <2>2
  <2>3. CASE m \in 1..Len(old)
    <3> DEFINE i == Place(P, m)
    <3>1. i \in P /\ w[m] = u[i] /\ Rank(P, i) = m /\ i \in DOMAIN u /\ u[i].key # k
      BY <1>6, <2>3
    <3>2. Len(old) + 1 - Rank(P, i) >= Len(u) - i
      <4>1. P = {h \in DOMAIN u : u[h].key # k}
        OBVIOUS
      <4> HIDE DEF P, i
      <4> QED
        BY <1>3, <3>1, <4>1, WithoutKeyMoves
    <3> HIDE DEF P, i
    <3>3. Len(w) - m >= Len(u) - i
      BY <3>1, <3>2
    <3>4. CASE Has(d, u[i].key)
      <4>1. PICK n \in DOMAIN d : d[n].key = u[i].key
        BY <3>4 DEF Has, StoreKeys
      <4>2. d[n] = u[i]
        BY <1>11, <3>1, <4>1
      <4>3. u[i].seen \in Int /\ t \in Int
        <5>1. u[i] \in S
          BY <1>3, <3>1
        <5>2. u[i].seen \in StoreTimes
          BY <5>1 DEF S
        <5> QED
          BY <1>1, <5>2, StoreAssumption DEF StoreTimes
      <4>4. CASE ~(t - u[i].seen <= Ttl)
        <5>1. t - u[i].seen > Ttl
          BY <1>1, <4>3, <4>4
        <5> QED
          BY <3>1, <5>1
      <4>5. CASE t - u[i].seen <= Ttl
        <5>1. Has(full, u[i].key)
          BY <3>1, <4>1, <4>2, <4>5
        <5>2. PICK p \in DOMAIN full : full[p].key = u[i].key
          BY <5>1 DEF Has, StoreKeys
        <5>3. CASE p > Len(full) - Len(q)
          BY <1>8, <3>1, <5>2, <5>3
        <5>4. CASE ~(p > Len(full) - Len(q))
          <6>1. Len(full) - p >= MaxSize /\ Len(w) - m >= Len(full) - p
            BY <1>9, <1>10, <3>1, <5>2, <5>4
          <6>2. Len(full) - p \in Int /\ Len(w) - m \in Int
            BY <1>2, <1>4, <2>1
          <6> QED
            BY <1>1, <6>1, <6>2
        <5> QED
          BY <5>3, <5>4
      <4> QED
        BY <4>4, <4>5
    <3>5. CASE u[i].value = Deleted \/ t - u[i].seen > Ttl
      BY <3>1, <3>5
    <3>6. CASE Len(u) - i >= MaxSize
      <4>1. i \in Int /\ Len(u) \in Int /\ Len(w) \in Int /\ m \in Int
        BY <1>2, <1>3, <2>1, <3>1
      <4> QED
        BY <1>1, <3>3, <3>6, <4>1
    <3> QED
      BY <1>1, <3>1, <3>4, <3>5, <3>6 DEF Kept
  <2> QED
    BY <2>1, <2>2, <2>3
<1> QED
  BY <1>12 DEF Kept

\* The steps of set and of a get that finds its key keep all of it.
LEMMA UseKeeps ==
  ASSUME NEW d, NEW u, NEW t, Good(d, u, t), NEW k \in Keys, NEW v \in Values,
         NEW full, full = Append(WithoutKey(Live(d, t, Limits), k), Entry(k, v, t)),
         NEW q \in {full, Trimmed(full, Limits)},
         NEW w, w = Append(WithoutKey(u, k), Entry(k, v, t))
  PROVE  Good(q, w, t)
<1>1. Moved(d, WithoutKey(u, k), t, k, full, q, w)
  BY UsePlaces
<1>2. Kept(q, w, t)
  BY ONLY <1>1, Good(d, u, t), KeptAgain
<1> QED
  BY <1>1, <1>2 DEF Good, Moved

-----------------------------------------------------------------------------
(* The operations of StoreHistory *)

LEMMA SetKeeps ==
  ASSUME StoreInv, NEW k \in Keys, NEW v \in Values, Set(k, v)
  PROVE  StoreInv'
<1> DEFINE full == Append(WithoutKey(Live(data, time, Limits), k), Entry(k, v, time))
           q == Trimmed(full, Limits)
           w == Append(WithoutKey(used, k), Entry(k, v, time))
<1>1. Good(data, used, time) /\ q \in {full, Trimmed(full, Limits)}
  BY DEF StoreInv
<1>2. data' = q /\ used' = w /\ time' = time
  BY DEF Set, Put
<1>3. Good(q, w, time)
  <2>1. q = Trimmed(full, Limits)
    OBVIOUS
  <2> HIDE DEF q
  <2> QED
    BY <1>1, UseKeeps
<1> QED
  BY <1>2, <1>3 DEF StoreInv

\* A get that finds nothing evicts what is expired, and that is all that is lost.
LEMMA EvictKeeps ==
  ASSUME NEW d, NEW u, NEW t, Good(d, u, t)
  PROVE  Good(Live(d, t, Limits), u, t)
<1> DEFINE q == Live(d, t, Limits)
           S == [key : Keys, value : Known, seen : StoreTimes]
<1>1. /\ d \in Stores(Keys, Values, StoreTimes) /\ u \in Stores(Keys, Known, StoreTimes)
      /\ t \in StoreTimes /\ Places(d, u) # {} /\ Kept(d, u, t) /\ Ttl \in Nat
  BY StoreAssumption DEF Good
<1>2. /\ q \in Stores(Keys, Values, StoreTimes)
      /\ \A i \in DOMAIN d : Has(q, d[i].key) <=> t - d[i].seen <= Ttl
  BY <1>1, LiveStore DEF Limits
<1>3. Places(q, d) # {}
  <2>1. d \in Seq([key : Keys, value : Values, seen : StoreTimes])
    BY <1>1, StoreFacts
  <2> QED
    BY <2>1, PickIsAmong DEF Live
<1> HIDE DEF q, S
<1>4. /\ Len(d) \in Nat /\ DOMAIN d = 1..Len(d) /\ Len(q) \in Nat
      /\ Len(u) \in Nat /\ DOMAIN u = 1..Len(u) /\ Distinct(u)
  BY <1>1, <1>2, StoreFacts
<1>5. Places(q, u) # {}
  BY <1>1, <1>3, <1>4, PlacesCompose
<1>6. ASSUME NEW i \in DOMAIN u, Has(d, u[i].key) PROVE Has(q, u[i].key) \/ t - u[i].seen > Ttl
  <2>1. PICK n \in DOMAIN d : d[n].key = u[i].key
    BY <1>6 DEF Has, StoreKeys
  <2>2. PICK e : e \in Places(d, u)
    BY <1>1
  <2>3. d[n] = u[i]
    <3>1. /\ DOMAIN u = 1..Len(u) /\ DOMAIN d = 1..Len(d) /\ Distinct(u) /\ e \in Places(d, u)
          /\ n \in DOMAIN d /\ i \in DOMAIN u /\ d[n].key = u[i].key
      BY <1>4, <1>6, <2>1, <2>2
    <3> QED
      BY ONLY <3>1, PlaceOfKey
  <2>4. u[i].seen \in Int /\ t \in Int
    <3>1. u \in Seq(S)
      BY <1>1, StoreFacts DEF S
    <3>2. u[i] \in S
      BY <3>1
    <3>3. u[i].seen \in StoreTimes
      BY <3>2 DEF S
    <3> QED
      BY <1>1, <3>3, StoreAssumption DEF StoreTimes
  <2>5. t - u[i].seen <= Ttl \/ t - u[i].seen > Ttl
    BY <1>1, <2>4
  <2> QED
    BY <1>2, <2>1, <2>3, <2>5
<1>7. Kept(q, u, t)
  BY <1>1, <1>6 DEF Kept
<1> QED
  BY <1>1, <1>2, <1>5, <1>7 DEF Good, q

LEMMA GoodAgrees ==
  ASSUME NEW d, NEW u, NEW t, Good(d, u, t), NEW k, Has(d, k)
  PROVE  Has(u, k) /\ ValueOf(d, k) = ValueOf(u, k) /\ ValueOf(d, k) \in Values
<1>1. /\ d \in Stores(Keys, Values, StoreTimes) /\ u \in Stores(Keys, Known, StoreTimes)
      /\ Places(d, u) # {}
  BY DEF Good
<1>2. Distinct(d) /\ Distinct(u) /\ DOMAIN d = 1..Len(d) /\ DOMAIN u = 1..Len(u)
  BY <1>1, StoreFacts
<1>3. Within(d, u)
  BY <1>1, <1>2 DEF Within, Places
<1> QED
  BY <1>1, <1>2, <1>3, HasAt, WithinAgrees

LEMMA GetKeeps ==
  ASSUME StoreInv, NEW k \in Keys, Get(k)
  PROVE  StoreInv'
<1> DEFINE live == Live(data, time, Limits)
<1>1. Good(data, used, time) /\ Good(live, used, time)
  BY EvictKeeps DEF StoreInv
<1>2. CASE Has(live, k)
  <2> DEFINE v == ValueOf(live, k)
             full == Append(WithoutKey(live, k), Entry(k, v, time))
             w == Append(WithoutKey(used, k), Entry(k, v, time))
  <2>1. v \in Values /\ ValueOf(used, k) = v
    BY <1>1, <1>2, GoodAgrees
  <2>2. data' = full
    BY <1>2 DEF Get, Touch
  <2>3. Has(data', k)
    <3>1. data \in Stores(Keys, Values, StoreTimes) /\ time \in StoreTimes
      BY <1>1 DEF Good
    <3> QED
      BY <1>2, <3>1, TouchStore DEF Get
  <2>4. used' = w /\ time' = time
    BY <2>1, <2>3 DEF Get
  <2>5. Good(full, w, time)
    <3> HIDE DEF v
    <3> QED
      BY <1>1, <2>1, UseKeeps
  <2> QED
    BY <2>2, <2>4, <2>5 DEF StoreInv
<1>3. CASE ~Has(live, k)
  <2>1. data' = live /\ ~Has(data', k)
    BY <1>3 DEF Get, Touch
  <2>2. used' = used /\ time' = time
    BY <2>1 DEF Get
  <2> QED
    BY <1>1, <2>1, <2>2 DEF StoreInv
<1> QED
  BY <1>2, <1>3

LEMMA DeleteKeeps ==
  ASSUME StoreInv, NEW k \in Keys, Delete(k)
  PROVE  StoreInv'
<1> DEFINE d == data
           u == used
           t == time
           q == WithoutKey(d, k)
           w == [i \in DOMAIN u |-> IF u[i].key = k THEN [u[i] EXCEPT !.value = Deleted] ELSE u[i]]
           S == [key : Keys, value : Known, seen : StoreTimes]
<1>1. /\ d \in Stores(Keys, Values, StoreTimes) /\ u \in Stores(Keys, Known, StoreTimes)
      /\ t \in StoreTimes /\ Places(d, u) # {} /\ Kept(d, u, t)
  BY DEF StoreInv, Good
<1>2. data' = q /\ used' = w /\ time' = t
  BY DEF Delete
<1> HIDE DEF d, u, t
<1>3. /\ Len(d) \in Nat /\ DOMAIN d = 1..Len(d) /\ Distinct(d)
      /\ Len(u) \in Nat /\ DOMAIN u = 1..Len(u) /\ Distinct(u) /\ u \in Seq(S)
  BY <1>1, StoreFacts
<1>4. /\ q \in Stores(Keys, Values, StoreTimes) /\ \A j : Has(q, j) <=> Has(d, j) /\ j # k
  BY <1>1, WithoutKeyStore
<1>5. Len(q) \in Nat /\ DOMAIN q = 1..Len(q)
  <2> HIDE DEF q
  <2> QED
    BY <1>4, StoreFacts
<1> HIDE DEF S
<1>6. ASSUME NEW i \in DOMAIN u
      PROVE  /\ w[i] \in S /\ w[i].key = u[i].key /\ w[i].seen = u[i].seen
             /\ u[i].key # k => w[i] = u[i]
             /\ u[i].key = k => w[i].value = Deleted
  <2>1. u[i] \in S
    BY <1>3
  <2> QED
    BY <2>1 DEF S, Known
<1>7. w \in [1..Len(u) -> S] /\ DOMAIN w = 1..Len(u)
  <2>1. DOMAIN w = 1..Len(u) /\ w = [i \in DOMAIN u |-> w[i]]
    BY <1>3
  <2> HIDE DEF w
  <2> QED
    BY <1>3, <1>6, <2>1
<1> HIDE DEF w
<1>8. w \in Seq(S) /\ Len(w) = Len(u)
  BY <1>3, <1>7
<1>9. Distinct(w)
  BY <1>3, <1>6, <1>7 DEF Distinct
<1>10. Places(q, u) # {}
  <2>1. d \in Seq([key : Keys, value : Values, seen : StoreTimes])
    BY <1>1, StoreFacts
  <2>2. Places(q, d) # {}
    BY <2>1, PickIsAmong DEF WithoutKey
  <2> QED
    BY <1>1, <1>3, <1>5, <2>2, PlacesCompose
<1> HIDE DEF q
<1>11. Places(q, w) # {}
  <2>1. PICK e : e \in Places(q, u)
    BY <1>10
  <2>2. e \in [1..Len(q) -> 1..Len(u)] /\ Increases(e) /\ \A m \in 1..Len(q) : q[m] = u[e[m]]
    BY <2>1 DEF Places
  <2>3. ASSUME NEW m \in 1..Len(q) PROVE q[m] = w[e[m]]
    <3>1. Has(q, q[m].key)
      BY <1>5 DEF Has, StoreKeys
    <3>2. q[m].key # k
      BY <1>4, <3>1
    <3>3. e[m] \in DOMAIN u /\ q[m] = u[e[m]]
      BY <1>3, <2>2
    <3> QED
      BY <1>6, <3>2, <3>3
  <2>4. e \in Places(q, w)
    BY <1>8, <2>2, <2>3 DEF Places
  <2> QED
    BY <2>4
<1>12. ASSUME NEW i \in DOMAIN w
       PROVE  Has(q, w[i].key) \/ w[i].value = Deleted \/ t - w[i].seen > Ttl \/ Len(w) - i >= MaxSize
  <2>1. i \in DOMAIN u
    BY <1>3, <1>7
  <2>2. CASE u[i].key = k
    BY <1>6, <2>1, <2>2
  <2>3. CASE u[i].key # k
    BY <1>1, <1>4, <1>6, <1>8, <2>1, <2>3 DEF Kept
  <2> QED
    BY <2>2, <2>3
<1>13. Kept(q, w, t)
  BY <1>12 DEF Kept
<1>14. w \in Stores(Keys, Known, StoreTimes)
  BY <1>8, <1>9 DEF Stores, S
<1>15. Good(q, w, t)
  BY <1>1, <1>4, <1>11, <1>13, <1>14 DEF Good
<1> QED
  BY <1>2, <1>15 DEF StoreInv

LEMMA StoreTickKeeps ==
  ASSUME StoreInv, StoreTick
  PROVE  StoreInv'
<1> DEFINE S == [key : Keys, value : Known, seen : StoreTimes]
<1>1. /\ data \in Stores(Keys, Values, StoreTimes) /\ used \in Stores(Keys, Known, StoreTimes)
      /\ time \in StoreTimes /\ Places(data, used) # {} /\ Kept(data, used, time)
      /\ Ttl \in Nat /\ StoreTime \in Nat
  BY StoreAssumption DEF StoreInv, Good
<1>2. data' = data /\ used' = used /\ time' = time + 1 /\ time' \in StoreTimes
  BY <1>1 DEF StoreTick, StoreTimes
<1>3. ASSUME NEW i \in DOMAIN used, time - used[i].seen > Ttl PROVE time' - used[i].seen > Ttl
  <2>1. used \in Seq(S)
    BY <1>1, StoreFacts
  <2> HIDE DEF S
  <2>2. used[i] \in S
    BY <2>1
  <2>3. used[i].seen \in Int /\ time \in Int
    BY <1>1, <2>2 DEF S, StoreTimes
  <2> QED
    BY <1>1, <1>2, <1>3, <2>3
<1>4. Kept(data, used, time')
  BY <1>1, <1>3 DEF Kept
<1> QED
  BY <1>1, <1>2, <1>4 DEF StoreInv, Good

LEMMA StoreInitInv == StoreInit => StoreInv
<1> SUFFICES ASSUME StoreInit PROVE StoreInv
  OBVIOUS
<1>1. data = <<>> /\ used = <<>> /\ time = 0
  BY DEF StoreInit
<1>2. <<>> \in Stores(Keys, Values, StoreTimes) /\ <<>> \in Stores(Keys, Known, StoreTimes)
  BY DEF Stores, Distinct
<1>3. 0 \in StoreTimes
  BY StoreAssumption DEF StoreTimes
<1>4. Places(<<>>, <<>>) # {}
  <2>1. [m \in 1..0 |-> m] \in Places(<<>>, <<>>)
    BY DEF Places, Increases
  <2> QED
    BY <2>1
<1>5. Kept(<<>>, <<>>, 0)
  BY DEF Kept
<1> QED
  BY <1>1, <1>2, <1>3, <1>4, <1>5 DEF StoreInv, Good

LEMMA StoreStep == StoreInv /\ [StoreNext]_storeVars => StoreInv'
<1> SUFFICES ASSUME StoreInv, [StoreNext]_storeVars PROVE StoreInv'
  OBVIOUS
<1>1. CASE \E k \in Keys : (\E v \in Values : Set(k, v)) \/ Get(k) \/ Delete(k)
  BY <1>1, SetKeeps, GetKeeps, DeleteKeeps
<1>2. CASE StoreTick
  BY <1>2, StoreTickKeeps
<1>3. CASE UNCHANGED storeVars
  BY <1>3 DEF storeVars, StoreInv
<1> QED
  BY <1>1, <1>2, <1>3 DEF StoreNext

\* The inductive invariant: the store holds entries of the history, in the order of their
\* last use, no key twice, and every other entry is deleted, expired or over the limit.
THEOREM StoreInvariance == StoreSpec => []StoreInv
BY StoreInitInv, StoreStep, PTL DEF StoreSpec

\* A store is of its type at all times.
THEOREM StoreTypeCorrect == StoreSpec => []StoreTypeOK
<1>1. StoreInv => StoreTypeOK
  BY DEF StoreInv, Good, Stores, StoreTypeOK, Entries, Known, StoreTimes
<1> QED
  BY <1>1, StoreInvariance, PTL

\* An entry is lost only when it is deleted, or has expired, or max_size other keys have
\* been used since (set, get and the evictions of BoundedStore).
THEOREM StoreRetains == StoreSpec => []Retained
<1>1. StoreInv => Retained
  BY DEF StoreInv, Good, Kept, Retained
<1> QED
  BY <1>1, StoreInvariance, PTL

\* The store is what its use says, less what it has dropped: every value is the one set
\* last, every stamp that of the last use, in that order.
THEOREM StoreAgrees == StoreSpec => []AgreesWithUse
<1> DEFINE S == [key : Keys, value : Known, seen : StoreTimes]
           R == [key : Keys, value : Values, seen : StoreTimes]
           held == {i \in DOMAIN used : Has(data, used[i].key)}
<1>1. ASSUME StoreInv PROVE AgreesWithUse
  <2>1. /\ data \in Stores(Keys, Values, StoreTimes) /\ used \in Stores(Keys, Known, StoreTimes)
        /\ Places(data, used) # {}
    BY <1>1 DEF StoreInv, Good
  <2>2. /\ DOMAIN data = 1..Len(data) /\ DOMAIN used = 1..Len(used) /\ Distinct(used)
        /\ data \in Seq(R) /\ used \in Seq(S) /\ R \subseteq S
    BY <2>1, StoreFacts DEF Known
  <2>3. PICK e : e \in Places(data, used)
    BY <2>1
  <2>4. e \in [1..Len(data) -> 1..Len(used)] /\ \A m \in 1..Len(data) : data[m] = used[e[m]]
    BY <2>3 DEF Places
  <2> HIDE DEF R, S
  <2>5. data \in Seq(S)
    BY <2>2
  <2>6. data = Pick(used, {e[m] : m \in 1..Len(data)})
    BY <2>2, <2>3, <2>5, AmongIsPicked
  <2>7. ASSUME NEW i \in held PROVE i \in {e[m] : m \in 1..Len(data)}
    <3>1. PICK m \in DOMAIN data : data[m].key = used[i].key
      BY <2>7 DEF Has, StoreKeys
    <3>2. /\ DOMAIN used = 1..Len(used) /\ DOMAIN data = 1..Len(data) /\ Distinct(used)
          /\ e \in Places(data, used) /\ m \in DOMAIN data /\ i \in DOMAIN used
          /\ data[m].key = used[i].key
      BY <2>2, <2>3, <2>7, <3>1
    <3>3. e[m] = i
      BY ONLY <3>2, PlaceOfKey
    <3> QED
      BY <3>2, <3>3
  <2>8. ASSUME NEW m \in 1..Len(data) PROVE e[m] \in held
    <3>1. Has(data, data[m].key)
      BY <2>2 DEF Has, StoreKeys
    <3> QED
      BY <2>2, <2>4, <3>1
  <2>9. held = {e[m] : m \in 1..Len(data)}
    BY <2>7, <2>8
  <2> HIDE DEF held
  <2> QED
    BY <2>6, <2>9 DEF AgreesWithUse, held
<1> QED
  BY <1>1, StoreInvariance, PTL

\* A get finds no entry whose time is over, and leaves none in the store.
THEOREM StoreExpires == StoreSpec => ExpiredNeverServed
<1>1. StoreInv /\ [StoreNext]_storeVars =>
        [(\E k \in Keys : Get(k)) =>
           \A i \in DOMAIN data : time - data[i].seen > Ttl => ~Has(data', data[i].key)]_storeVars
  <2> SUFFICES ASSUME StoreInv, NEW k \in Keys, Get(k), NEW i \in DOMAIN data,
                      time - data[i].seen > Ttl
               PROVE  ~Has(data', data[i].key)
    OBVIOUS
  <2>1. data \in Stores(Keys, Values, StoreTimes) /\ time \in StoreTimes
    BY DEF StoreInv, Good
  <2>2. Has(data', data[i].key) <=> Has(Live(data, time, Limits), data[i].key)
    BY <2>1, TouchStore DEF Get
  <2>3. Has(Live(data, time, Limits), data[i].key) <=> time - data[i].seen <= Ttl
    BY <2>1, LiveStore DEF Limits
  <2>4. data[i].seen \in Int /\ time \in Int /\ Ttl \in Int
    <3> DEFINE R == [key : Keys, value : Values, seen : StoreTimes]
    <3>1. data \in Seq(R)
      BY <2>1, StoreFacts
    <3> HIDE DEF R
    <3>2. data[i] \in R
      BY <3>1
    <3> QED
      BY <2>1, <3>2, StoreAssumption DEF R, StoreTimes
  <2> QED
    BY <2>2, <2>3, <2>4
<1> QED
  BY <1>1, StoreStep, StoreInitInv, PTL DEF StoreSpec, ExpiredNeverServed
=============================================================================
