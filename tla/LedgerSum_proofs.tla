-------------------------- MODULE LedgerSum_proofs --------------------------
(* Facts about the sum of a ledger, for any finite set of rows whose amounts *)
(* are bounded by some b.                                                    *)
EXTENDS LedgerSum, FiniteSetTheorems, TLAPS

\* The units of finitely many bounded rows are finitely many.
LEMMA UnitsFinite ==
    ASSUME NEW K, IsFiniteSet(K), NEW amount, NEW b \in Nat,
           \A k \in K : amount[k] \in 0..b
    PROVE  IsFiniteSet(Units(amount, K))
<1>1. IsFiniteSet(1..b)
  <2>1. 1 \in Int /\ b \in Int
    OBVIOUS
  <2> QED
    BY <2>1, FS_Interval, Zenon
<1>3. IsFiniteSet(K \X (1..b))
  BY <1>1, FS_Product, Zenon
<1>2. Units(amount, K) \subseteq K \X (1..b)
  BY DEF Units
<1> QED
  BY <1>3, <1>2, FS_Subset, Zenon

\* A sum is a natural number.
LEMMA TotalType ==
    ASSUME NEW K, IsFiniteSet(K), NEW amount, NEW b \in Nat,
           \A k \in K : amount[k] \in 0..b
    PROVE  Total(amount, K) \in Nat
BY UnitsFinite, FS_CardinalityType DEF Total

\* A row that is added adds its amount.
LEMMA TotalAdd ==
    ASSUME NEW K, IsFiniteSet(K), NEW amount, NEW b \in Nat, NEW x,
           x \notin K,
           \A k \in K \cup {x} : amount[k] \in 0..b
    PROVE  Total(amount, K \cup {x}) = Total(amount, K) + amount[x]
<1> DEFINE New == {x} \X (1..amount[x])
<1>1. IsFiniteSet(Units(amount, K))
  BY UnitsFinite
<1>2. amount[x] \in Nat
  OBVIOUS
<1>3. IsFiniteSet(New) /\ Cardinality(New) = amount[x]
  <2>1. IsFiniteSet({x}) /\ Cardinality({x}) = 1
    BY FS_Singleton
  <2>2. IsFiniteSet(1..amount[x]) /\ Cardinality(1..amount[x]) = amount[x]
    <3>1. 1 \in Int /\ amount[x] \in Int
      BY <1>2
    <3>2. /\ IsFiniteSet(1..amount[x])
          /\ Cardinality(1..amount[x]) = IF 1 > amount[x] THEN 0 ELSE amount[x] - 1 + 1
      BY <3>1, FS_Interval, Zenon
    <3> QED
      BY <3>2, <1>2
  <2>3. IsFiniteSet(New) /\ Cardinality(New) = Cardinality({x}) * Cardinality(1..amount[x])
    BY <2>1, <2>2, FS_Product, Zenon
  <2> HIDE DEF New
  <2>4. Cardinality(New) = 1 * amount[x]
    BY <2>1, <2>2, <2>3
  <2> QED
    BY <2>3, <2>4, <1>2
<1>4. Units(amount, K \cup {x}) = Units(amount, K) \cup New
  BY DEF Units
<1>5. Units(amount, K) \cap New = {}
  BY DEF Units
<1>6. Cardinality(Units(amount, K) \cup New)
        = Cardinality(Units(amount, K)) + Cardinality(New) - Cardinality({})
  BY <1>1, <1>3, <1>5, FS_Union
<1>7. Cardinality(Units(amount, K)) \in Nat
  BY <1>1, FS_CardinalityType
<1> HIDE DEF New
<1>8. Cardinality({}) = 0
  BY FS_EmptySet, Zenon
<1>9. Total(amount, K \cup {x}) = Cardinality(Units(amount, K) \cup New)
  BY <1>4 DEF Total
<1> QED
  BY <1>2, <1>3, <1>6, <1>7, <1>8, <1>9 DEF Total

\* The sum depends only on the amounts of its rows.
LEMMA TotalAgree ==
    ASSUME NEW K, NEW f, NEW g, \A k \in K : f[k] = g[k]
    PROVE  Total(f, K) = Total(g, K)
<1>1. Units(f, K) = Units(g, K)
  BY DEF Units
<1> QED
  BY <1>1 DEF Total

\* Fewer rows of smaller amounts have a smaller sum.
LEMMA TotalMonotone ==
    ASSUME NEW L, IsFiniteSet(L), NEW K \in SUBSET L, NEW f, NEW g, NEW b \in Nat,
           \A k \in L : f[k] \in Nat /\ g[k] \in 0..b,
           \A k \in K : f[k] <= g[k]
    PROVE  Total(f, K) <= Total(g, L)
<1>1. Units(f, K) \subseteq Units(g, L)
  <2> SUFFICES ASSUME NEW k \in K, NEW n \in 1..f[k]
               PROVE  n \in 1..g[k]
    BY DEF Units
  <2> QED
    OBVIOUS
<1>2. IsFiniteSet(Units(g, L))
  BY UnitsFinite
<1> QED
  BY <1>1, <1>2, FS_Subset DEF Total

\* No rows sum to nothing.
LEMMA TotalEmpty == ASSUME NEW amount PROVE Total(amount, {}) = 0
<1>1. Units(amount, {}) = {}
  BY DEF Units
<1> QED
  BY <1>1, FS_EmptySet DEF Total

\* A sum with one row set apart.
LEMMA TotalSplit ==
    ASSUME NEW K, IsFiniteSet(K), NEW amount, NEW b \in Nat, NEW x,
           \A k \in K : amount[k] \in 0..b
    PROVE  Total(amount, K) = Total(amount, K \ {x}) + (IF x \in K THEN amount[x] ELSE 0)
<1>1. IsFiniteSet(K \ {x})
  BY FS_Subset
<1>2. CASE x \in K
  <2>1. K = (K \ {x}) \cup {x}
    BY <1>2
  <2>2. \A k \in (K \ {x}) \cup {x} : amount[k] \in 0..b
    BY <1>2
  <2>3. Total(amount, (K \ {x}) \cup {x}) = Total(amount, K \ {x}) + amount[x]
    BY <1>1, <2>2, TotalAdd
  <2> QED
    BY <1>2, <2>1, <2>3
<1>3. CASE x \notin K
  <2>1. K \ {x} = K
    BY <1>3
  <2>2. Total(amount, K) \in Nat
    BY TotalType
  <2> QED
    BY <1>3, <2>1, <2>2
<1> QED
  BY <1>2, <1>3

\* Two sets of rows that have none in common.
LEMMA TotalUnion ==
    ASSUME NEW K, IsFiniteSet(K), NEW L, IsFiniteSet(L), K \cap L = {},
           NEW amount, NEW b \in Nat, \A k \in K \cup L : amount[k] \in 0..b
    PROVE  Total(amount, K \cup L) = Total(amount, K) + Total(amount, L)
<1>1. IsFiniteSet(Units(amount, K)) /\ IsFiniteSet(Units(amount, L))
  BY UnitsFinite
<1>2. Units(amount, K \cup L) = Units(amount, K) \cup Units(amount, L)
  BY DEF Units
<1>3. Units(amount, K) \cap Units(amount, L) = {}
  BY DEF Units
<1>4. Cardinality(Units(amount, K) \cup Units(amount, L))
        = Cardinality(Units(amount, K)) + Cardinality(Units(amount, L)) - Cardinality({})
  BY <1>1, <1>3, FS_Union
<1>5. Cardinality({}) = 0
  BY FS_EmptySet
<1>6. Cardinality(Units(amount, K)) \in Nat /\ Cardinality(Units(amount, L)) \in Nat
  BY <1>1, FS_CardinalityType
<1>7. Total(amount, K \cup L) = Cardinality(Units(amount, K) \cup Units(amount, L))
  BY <1>2 DEF Total
<1> QED
  BY <1>4, <1>5, <1>6, <1>7 DEF Total

\* Rows that hold nothing may be left out.
LEMMA TotalDrop ==
    ASSUME NEW L, NEW K \in SUBSET L, NEW amount,
           \A k \in L \ K : amount[k] = 0
    PROVE  Total(amount, L) = Total(amount, K)
<1>1. \A k \in L \ K : {k} \X (1..amount[k]) = {}
  OBVIOUS
<1>2. Units(amount, L) = Units(amount, K)
  BY <1>1 DEF Units
<1> QED
  BY <1>2 DEF Total

\* Rows that are matched one to one with larger ones have a smaller sum.
LEMMA TotalInject ==
    ASSUME NEW L, IsFiniteSet(L), NEW K, NEW f, NEW g, NEW h, NEW b \in Nat,
           \A k \in L : g[k] \in 0..b,
           \A k \in K : h[k] \in L /\ f[k] \in Nat /\ f[k] <= g[h[k]],
           \A j, k \in K : h[j] = h[k] => j = k
    PROVE  Total(f, K) <= Total(g, L)
<1> DEFINE S == Units(f, K)
           T == Units(g, L)
           m == [u \in S |-> <<h[u[1]], u[2]>>]
<1>1. IsFiniteSet(T)
  BY UnitsFinite
<1>2. \A u \in S : u[1] \in K /\ u[2] \in 1..f[u[1]] /\ u = <<u[1], u[2]>>
  BY DEF Units
<1>3. ASSUME NEW u \in S
      PROVE  m[u] \in T
  <2>1. u[1] \in K /\ u[2] \in 1..f[u[1]]
    BY <1>2
  <2>2. h[u[1]] \in L /\ u[2] \in 1..g[h[u[1]]]
    BY <2>1
  <2>3. <<h[u[1]], u[2]>> \in T
    BY <2>2 DEF Units
  <2> QED
    BY <2>3
<1>4. ASSUME NEW u \in S, NEW v \in S, m[u] = m[v]
      PROVE  u = v
  <2>1. h[u[1]] = h[v[1]] /\ u[2] = v[2]
    BY <1>4
  <2>2. u[1] = v[1]
    BY <1>2, <2>1
  <2> QED
    BY <1>2, <2>1, <2>2
<1> HIDE DEF S, T
<1>5. m \in Injection(S, T)
  BY <1>3, <1>4 DEF Injection, IsInjective
<1>6. Cardinality(S) <= Cardinality(T)
  BY <1>1, <1>5, FS_Injection
<1> QED
  BY <1>6 DEF S, T, Total
=============================================================================
