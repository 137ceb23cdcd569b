------------------------------- MODULE SumTheorems -------------------------------
(***************************************************************************)
(* What the SQL sums of the write-side gates satisfy for any number of     *)
(* rows: a sum is a natural number, depends only on the rows it ranges     *)
(* over, grows by the amount of a row that joins, and never grows when     *)
(* rows leave.                                                             *)
(***************************************************************************)
EXTENDS Sums, FiniteSetTheorems, Functions, TLAPS

(* A sum over finitely many rows has finitely many units. *)
LEMMA UnitsFinite ==
  ASSUME NEW S, IsFiniteSet(S), NEW amount, \A x \in S : amount[x] \in Nat
  PROVE  IsFiniteSet(Units(S, amount))
<1> DEFINE f == [x \in S |-> {x} \X (1..amount[x])]
           T == {f[x] : x \in S}
<1>1. f \in Surjection(S, T)
  BY DEF Surjection
<1>2. IsFiniteSet(T)
  BY <1>1, FS_Surjection
<1>3. ASSUME NEW t \in T
      PROVE  IsFiniteSet(t)
  <2>1. PICK x \in S : t = {x} \X (1..amount[x])
    BY <1>3
  <2>2. IsFiniteSet({x})
    BY FS_Singleton
  <2>3. IsFiniteSet(1..amount[x])
    BY FS_Interval
  <2>4. QED
    BY <2>1, <2>2, <2>3, FS_Product
<1>4. IsFiniteSet(UNION T)
  BY <1>2, <1>3, FS_UNION
<1>5. Units(S, amount) = UNION T
  BY DEF Units
<1>6. QED
  BY <1>4, <1>5

(* The SUM of the gates is a natural number. *)
LEMMA TotalNat ==
  ASSUME NEW S, IsFiniteSet(S), NEW amount, \A x \in S : amount[x] \in Nat
  PROVE  Total(S, amount) \in Nat
BY UnitsFinite, FS_CardinalityType DEF Total

(* A sum depends on the amounts of its own rows only. *)
LEMMA TotalSame ==
  ASSUME NEW S, NEW f, NEW g, \A x \in S : f[x] = g[x]
  PROVE  Total(S, f) = Total(S, g)
<1>1. Units(S, f) = Units(S, g)
  BY DEF Units
<1>2. QED
  BY <1>1 DEF Total

(* A sum does not grow when rows leave it. *)
LEMMA TotalSubset ==
  ASSUME NEW S, IsFiniteSet(S), NEW amount, \A x \in S : amount[x] \in Nat,
         NEW T \in SUBSET S
  PROVE  Total(T, amount) <= Total(S, amount)
<1>1. Units(T, amount) \in SUBSET Units(S, amount)
  BY DEF Units
<1>2. QED
  BY <1>1, UnitsFinite, FS_Subset DEF Total

(* A sum grows by exactly the amount of a row that joins it. *)
LEMMA TotalAdd ==
  ASSUME NEW S, IsFiniteSet(S), NEW r, r \notin S, NEW amount,
         \A x \in S \cup {r} : amount[x] \in Nat
  PROVE  Total(S \cup {r}, amount) = Total(S, amount) + amount[r]
<1> DEFINE U == Units(S, amount)
           V == {r} \X (1..amount[r])
<1>1. IsFiniteSet(U)
  BY UnitsFinite
<1>2. IsFiniteSet({r}) /\ Cardinality({r}) = 1
  BY FS_Singleton
<1>3. amount[r] \in Nat
  OBVIOUS
<1>4. IsFiniteSet(1..amount[r]) /\ Cardinality(1..amount[r]) = amount[r]
  <2> DEFINE n == amount[r]
  <2>1. n \in Nat
    BY <1>3
  <2> HIDE DEF n
  <2>2. IsFiniteSet(1..n) /\ Cardinality(1..n) = IF 1 > n THEN 0 ELSE n - 1 + 1
    BY <2>1, FS_Interval
  <2>3. Cardinality(1..n) = n
    BY <2>1, <2>2
  <2>4. QED
    BY <2>2, <2>3 DEF n
<1>5. IsFiniteSet(V) /\ Cardinality(V) = amount[r]
  BY <1>2, <1>3, <1>4, FS_Product
<1>6. U \cap V = {}
  BY DEF Units
<1>7. Units(S \cup {r}, amount) = U \cup V
  BY DEF Units
<1>8. Cardinality(U \cup V) = Cardinality(U) + Cardinality(V) - Cardinality(U \cap V)
  BY <1>1, <1>5, FS_Union
<1>9. Cardinality(U \cap V) = 0 /\ Cardinality(U) \in Nat
  BY <1>1, <1>6, FS_EmptySet, FS_CardinalityType
<1> HIDE DEF U, V
<1>10. Cardinality(U \cup V) = Cardinality(U) + amount[r]
  BY <1>3, <1>5, <1>8, <1>9
<1> USE DEF U
<1>11. QED
  BY <1>7, <1>10 DEF Total

(* Rows that leave a sum, or stay with their amount, do not raise it. *)
LEMMA TotalShrinks ==
  ASSUME NEW S, IsFiniteSet(S), NEW f, NEW g, NEW T \in SUBSET S,
         \A x \in S : f[x] \in Nat, \A x \in T : f[x] = g[x]
  PROVE  /\ Total(T, g) <= Total(S, f)
         /\ Total(T, g) \in Nat /\ Total(S, f) \in Nat
<1>1. IsFiniteSet(T) /\ \A x \in T : g[x] \in Nat
  BY FS_Subset
<1>2. Total(T, g) = Total(T, f)
  BY TotalSame
<1>3. Total(T, f) <= Total(S, f)
  BY TotalSubset
<1>4. QED
  BY <1>1, <1>2, <1>3, TotalNat

(* One row that joins a sum, or changes its amount, raises it by at most its
   own amount. *)
LEMMA TotalGrows ==
  ASSUME NEW S, IsFiniteSet(S), NEW r, NEW f, NEW g, NEW T \in SUBSET (S \cup {r}),
         \A x \in S : f[x] \in Nat, \A x \in S \ {r} : f[x] = g[x], g[r] \in Nat
  PROVE  /\ Total(T, g) <= Total(S, f) + g[r]
         /\ Total(T, g) \in Nat /\ Total(S, f) \in Nat
<1> DEFINE R == S \ {r}
<1>1. IsFiniteSet(R) /\ IsFiniteSet(R \cup {r})
  BY FS_Subset, FS_AddElement
<1>2. \A x \in R \cup {r} : g[x] \in Nat
  OBVIOUS
<1>3. r \notin R
  OBVIOUS
<1>4. T \in SUBSET (R \cup {r})
  OBVIOUS
<1>5. R \in SUBSET S
  OBVIOUS
<1>6. \A x \in R : f[x] = g[x]
  OBVIOUS
<1>7. Total(R, g) <= Total(S, f) /\ Total(R, g) \in Nat /\ Total(S, f) \in Nat
  BY <1>5, <1>6, TotalShrinks
<1> HIDE DEF R
<1>8. Total(R \cup {r}, g) = Total(R, g) + g[r]
  BY <1>1, <1>2, <1>3, TotalAdd
<1>9. Total(T, g) <= Total(R \cup {r}, g) /\ Total(T, g) \in Nat
  BY <1>1, <1>2, <1>4, TotalShrinks
<1>10. QED
  BY <1>7, <1>8, <1>9

(* A set that gains at most one element. *)
LEMMA CountGrows ==
  ASSUME NEW S, IsFiniteSet(S), NEW r, NEW T \in SUBSET (S \cup {r})
  PROVE  /\ Cardinality(T) <= Cardinality(S) + 1
         /\ Cardinality(T) \in Nat /\ Cardinality(S) \in Nat
<1>0. Cardinality(S) \in Nat
  BY FS_CardinalityType
<1>1. IsFiniteSet(S \cup {r}) /\ Cardinality(S \cup {r}) <= Cardinality(S) + 1
  <2>1. Cardinality(S \cup {r}) = IF r \in S THEN Cardinality(S) ELSE Cardinality(S) + 1
    BY FS_AddElement
  <2>2. IsFiniteSet(S \cup {r})
    BY FS_AddElement
  <2>3. QED
    BY <1>0, <2>1, <2>2
<1>2. IsFiniteSet(T) /\ Cardinality(T) <= Cardinality(S \cup {r})
  BY <1>1, FS_Subset
<1>3. Cardinality(T) \in Nat /\ Cardinality(S \cup {r}) \in Nat
  BY <1>1, <1>2, FS_CardinalityType
<1>4. QED
  BY <1>0, <1>1, <1>2, <1>3

(* Renaming the rows of a sum does not change it. *)
LEMMA TotalImage ==
  ASSUME NEW S, IsFiniteSet(S), NEW amount, \A x \in S : amount[x] \in Nat,
         NEW f, \A x \in S, y \in S : f[x] = f[y] => x = y,
         NEW T, T = {f[x] : x \in S},
         NEW g, \A x \in S : g[f[x]] = amount[x]
  PROVE  Total(T, g) = Total(S, amount)
<1> DEFINE U == Units(S, amount)
           V == Units(T, g)
           h == [u \in U |-> <<f[u[1]], u[2]>>]
<1>1. IsFiniteSet(U)
  BY UnitsFinite
<1>2. \A u : u \in U <=> \E x \in S : \E n \in 1..amount[x] : u = <<x, n>>
  BY DEF Units
<1>3. \A v : v \in V <=> \E x \in S : \E n \in 1..amount[x] : v = <<f[x], n>>
  BY DEF Units
<1> HIDE DEF U, V
<1>4. h \in [U -> V]
  BY <1>2, <1>3
<1>5. \A v \in V : \E u \in U : h[u] = v
  <2>1. SUFFICES ASSUME NEW v \in V PROVE \E u \in U : h[u] = v
    OBVIOUS
  <2>2. PICK x \in S : \E n \in 1..amount[x] : v = <<f[x], n>>
    BY <1>3
  <2>3. PICK n \in 1..amount[x] : v = <<f[x], n>>
    BY <2>2
  <2>4. <<x, n>> \in U
    BY <1>2
  <2>5. QED
    BY <2>3, <2>4
<1>6. \A u \in U, w \in U : h[u] = h[w] => u = w
  <2>1. SUFFICES ASSUME NEW u \in U, NEW w \in U, h[u] = h[w] PROVE u = w
    OBVIOUS
  <2>2. PICK x \in S : \E n \in 1..amount[x] : u = <<x, n>>
    BY <1>2
  <2>3. PICK n \in 1..amount[x] : u = <<x, n>>
    BY <2>2
  <2>4. PICK y \in S : \E m \in 1..amount[y] : w = <<y, m>>
    BY <1>2
  <2>5. PICK m \in 1..amount[y] : w = <<y, m>>
    BY <2>4
  <2>6. f[x] = f[y] /\ n = m
    BY <2>1, <2>3, <2>5
  <2>7. QED
    BY <2>3, <2>5, <2>6
<1> HIDE DEF h
<1>7. h \in Bijection(U, V)
  BY <1>4, <1>5, <1>6 DEF Bijection, Injection, Surjection, IsInjective
<1>8. ExistsBijection(U, V)
  BY <1>7 DEF ExistsBijection
<1>9. Cardinality(V) = Cardinality(U)
  BY <1>1, <1>8, FS_Bijection
<1>10. QED
  BY <1>9 DEF Total, U, V

(* The sum over two tables is the sum of their sums. *)
LEMMA TotalUnion ==
  ASSUME NEW S, IsFiniteSet(S), NEW T, IsFiniteSet(T), S \cap T = {},
         NEW amount, \A x \in S \cup T : amount[x] \in Nat
  PROVE  Total(S \cup T, amount) = Total(S, amount) + Total(T, amount)
<1> DEFINE U == Units(S, amount)
           V == Units(T, amount)
<1>1. IsFiniteSet(U) /\ IsFiniteSet(V)
  BY UnitsFinite
<1>2. U \cap V = {} /\ Units(S \cup T, amount) = U \cup V
  BY DEF Units
<1> HIDE DEF U, V
<1>3. Cardinality(U \cup V) = Cardinality(U) + Cardinality(V) - Cardinality(U \cap V)
  BY <1>1, FS_Union
<1>4. Cardinality(U \cap V) = 0 /\ Cardinality(U) \in Nat /\ Cardinality(V) \in Nat
  BY <1>1, <1>2, FS_EmptySet, FS_CardinalityType
<1>5. Cardinality(U \cup V) = Cardinality(U) + Cardinality(V)
  BY <1>3, <1>4
<1>6. QED
  BY <1>2, <1>5 DEF Total, U, V

=============================================================================
