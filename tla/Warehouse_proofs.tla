-------------------------- MODULE Warehouse_proofs --------------------------
(***************************************************************************)
(* What the sums of Warehouse are: Total(n, S) is a natural number, 0 for  *)
(* the empty set, grows by n[x] with every new member x, depends only on   *)
(* the quantities of the members, is monotonic, and adds up over disjoint  *)
(* sets, over quantities added up, and over a partition of S.              *)
(***************************************************************************)
EXTENDS Warehouse, FunctionTheorems, FiniteSetTheorems, TLAPS

\* Finitely many members with natural quantities have finitely many units.
LEMMA TotalType ==
  ASSUME NEW S, IsFiniteSet(S), NEW n, \A x \in S : n[x] \in Nat
  PROVE  IsFiniteSet(Units(n, S)) /\ Total(n, S) \in Nat
  <1> DEFINE f == [x \in S |-> {x} \X (1..n[x])]
             Parts == {{x} \X (1..n[x]) : x \in S}
  <1>1. IsFiniteSet(Parts)
    <2>1. f \in Surjection(S, Parts)
      BY DEF Surjection
    <2> HIDE DEF f, Parts
    <2> QED
      BY <2>1, FS_Surjection
  <1>2. ASSUME NEW x \in S PROVE IsFiniteSet({x} \X (1..n[x]))
    <2>1. PICK k \in Nat : k = n[x]
      OBVIOUS
    <2>2. IsFiniteSet({x})
      BY FS_Singleton
    <2>3. IsFiniteSet(1..k)
      BY FS_Interval
    <2> QED
      BY <2>1, <2>2, <2>3, FS_Product
  <1>3. \A T \in Parts : IsFiniteSet(T)
    BY <1>2
  <1> HIDE DEF Parts
  <1>4. IsFiniteSet(UNION Parts)
    BY <1>1, <1>3, FS_UNION
  <1>5. IsFiniteSet(Units(n, S))
    BY <1>4 DEF Parts, Units
  <1> QED
    BY <1>5, FS_CardinalityType DEF Total

\* Only the quantities of the members count.
LEMMA TotalSame ==
  ASSUME NEW S, NEW n, NEW m, \A x \in S : n[x] = m[x]
  PROVE  Total(n, S) = Total(m, S)
  <1>1. Units(n, S) = Units(m, S)
    BY DEF Units
  <1> QED
    BY <1>1 DEF Total

\* Nothing adds up to 0.
LEMMA TotalEmpty == \A n : Total(n, {}) = 0
  <1>1. \A n : Units(n, {}) = {}
    BY DEF Units
  <1> QED
    BY <1>1, FS_EmptySet DEF Total

\* A new member adds its quantity.
LEMMA TotalInsert ==
  ASSUME NEW S, IsFiniteSet(S), NEW n, \A y \in S : n[y] \in Nat,
         NEW x, x \notin S, n[x] \in Nat
  PROVE  Total(n, S \cup {x}) = Total(n, S) + n[x]
  <1> DEFINE new == {x} \X (1..n[x])
  <1>1. IsFiniteSet(new) /\ Cardinality(new) = n[x]
    <2>1. PICK k \in Nat : k = n[x]
      OBVIOUS
    <2>2. IsFiniteSet({x}) /\ Cardinality({x}) = 1
      BY FS_Singleton
    <2>3. IsFiniteSet(1..k) /\ Cardinality(1..k) = k
      BY FS_Interval
    <2>4. IsFiniteSet({x} \X (1..k)) /\ Cardinality({x} \X (1..k)) = 1 * k
      <3>1. PICK A, B : A = {x} /\ B = 1..k
        OBVIOUS
      <3>2. IsFiniteSet(A \X B) /\ Cardinality(A \X B) = Cardinality(A) * Cardinality(B)
        BY <2>2, <2>3, <3>1, FS_Product
      <3> QED
        BY <2>2, <2>3, <3>1, <3>2
    <2> QED
      BY <2>1, <2>4
  <1>2. Units(n, S \cup {x}) = Units(n, S) \cup new
    BY DEF Units
  <1>3. Units(n, S) \cap new = {}
    BY DEF Units
  <1>4. IsFiniteSet(Units(n, S)) /\ Total(n, S) \in Nat
    BY TotalType
  <1> HIDE DEF new
  <1>5. Cardinality(Units(n, S) \cup new)
          = Cardinality(Units(n, S)) + Cardinality(new) - Cardinality(Units(n, S) \cap new)
    BY <1>1, <1>4, FS_Union
  <1>6. Cardinality(Units(n, S) \cap new) = 0
    BY <1>3, FS_EmptySet
  <1>7. Cardinality(Units(n, S)) \in Nat
    BY <1>4 DEF Total
  <1>8. Cardinality(Units(n, S) \cup new) = Cardinality(Units(n, S)) + n[x]
    BY <1>1, <1>5, <1>6, <1>7
  <1> QED
    BY <1>2, <1>8 DEF Total

\* One member adds up to its quantity.
LEMMA TotalSingle ==
  ASSUME NEW n, NEW x, n[x] \in Nat
  PROVE  Total(n, {x}) = n[x]
  <1>1. Total(n, {} \cup {x}) = Total(n, {}) + n[x]
    BY FS_EmptySet, TotalInsert
  <1>2. {} \cup {x} = {x}
    OBVIOUS
  <1> QED
    BY <1>1, <1>2, TotalEmpty

\* No member has more than all of them together.
LEMMA TotalBound ==
  ASSUME NEW S, IsFiniteSet(S), NEW n, \A y \in S : n[y] \in Nat, NEW x \in S
  PROVE  n[x] <= Total(n, S)
  <1> DEFINE R == S \ {x}
  <1>1. IsFiniteSet(R) /\ S = R \cup {x} /\ x \notin R /\ \A y \in R : n[y] \in Nat
    BY FS_RemoveElement
  <1> HIDE DEF R
  <1>2. Total(n, R \cup {x}) = Total(n, R) + n[x]
    BY <1>1, TotalInsert
  <1>3. Total(n, R) \in Nat
    BY <1>1, TotalType
  <1> QED
    BY <1>1, <1>2, <1>3

-----------------------------------------------------------------------------
(* Sums over different sets.                                                *)

\* A unit is a member with a number.
LEMMA UnitsOf ==
  ASSUME NEW S, NEW n
  PROVE  /\ \A u \in Units(n, S) : u = <<u[1], u[2]>> /\ u[1] \in S /\ u[2] \in 1..n[u[1]]
         /\ \A x \in S : \A i \in 1..n[x] : <<x, i>> \in Units(n, S)
  <1>1. ASSUME NEW u \in Units(n, S)
        PROVE  u = <<u[1], u[2]>> /\ u[1] \in S /\ u[2] \in 1..n[u[1]]
    <2>1. PICK x \in S : u \in {x} \X (1..n[x])
      BY <1>1 DEF Units
    <2>2. u = <<u[1], u[2]>> /\ u[1] = x /\ u[2] \in 1..n[x]
      BY <2>1
    <2> QED
      BY <2>2
  <1>2. ASSUME NEW x \in S, NEW i \in 1..n[x] PROVE <<x, i>> \in Units(n, S)
    BY DEF Units
  <1> QED
    BY <1>1, <1>2

\* Fewer members with smaller quantities add up to no more.
LEMMA TotalMonotonic ==
  ASSUME NEW S, IsFiniteSet(S), NEW T \in SUBSET S, NEW n, NEW m,
         \A x \in T : n[x] \in Nat /\ n[x] <= m[x], \A x \in S : m[x] \in Nat
  PROVE  Total(n, T) <= Total(m, S)
  <1>1. Units(n, T) \subseteq Units(m, S)
    <2>1. ASSUME NEW u \in Units(n, T) PROVE u \in Units(m, S)
      <3>1. u = <<u[1], u[2]>> /\ u[1] \in T /\ u[2] \in 1..n[u[1]]
        BY UnitsOf
      <3>2. u[1] \in S /\ u[2] \in 1..m[u[1]]
        BY <3>1
      <3> QED
        BY <3>1, <3>2, UnitsOf
    <2> QED
      BY <2>1
  <1>2. IsFiniteSet(Units(m, S))
    BY TotalType
  <1> QED
    BY <1>1, <1>2, FS_Subset DEF Total

\* Members without a quantity add up to 0.
LEMMA TotalZero ==
  ASSUME NEW S, NEW n, \A x \in S : n[x] = 0
  PROVE  Total(n, S) = 0
  <1>1. Units(n, S) = {}
    BY UnitsOf
  <1> QED
    BY <1>1, FS_EmptySet DEF Total

\* Two disjoint sets add up to the sum of both.
LEMMA TotalUnion ==
  ASSUME NEW S, IsFiniteSet(S), NEW T, IsFiniteSet(T), S \cap T = {},
         NEW n, \A x \in S \cup T : n[x] \in Nat
  PROVE  Total(n, S \cup T) = Total(n, S) + Total(n, T)
  <1>1. Units(n, S \cup T) = Units(n, S) \cup Units(n, T)
    BY DEF Units
  <1>2. Units(n, S) \cap Units(n, T) = {}
    BY UnitsOf
  <1>3. /\ IsFiniteSet(Units(n, S)) /\ Cardinality(Units(n, S)) \in Nat
        /\ IsFiniteSet(Units(n, T)) /\ Cardinality(Units(n, T)) \in Nat
    BY TotalType DEF Total
  <1>4. Cardinality(Units(n, S) \cup Units(n, T))
          = Cardinality(Units(n, S)) + Cardinality(Units(n, T)) - Cardinality(Units(n, S) \cap Units(n, T))
    BY <1>3, FS_Union
  <1>5. Cardinality(Units(n, S) \cap Units(n, T)) = 0
    BY <1>2, FS_EmptySet
  <1>6. Cardinality(Units(n, S) \cup Units(n, T))
          = Cardinality(Units(n, S)) + Cardinality(Units(n, T))
    BY <1>3, <1>4, <1>5
  <1> QED
    BY <1>1, <1>6 DEF Total

\* Renaming the members changes nothing.
LEMMA TotalImage ==
  ASSUME NEW S, IsFiniteSet(S), NEW T, NEW f \in Bijection(S, T), NEW n, NEW m,
         \A x \in S : n[x] \in Nat /\ m[f[x]] = n[x]
  PROVE  Total(m, T) = Total(n, S)
  <1>1. /\ f \in [S -> T] /\ \A x, y \in S : f[x] = f[y] => x = y
        /\ \A z \in T : \E x \in S : f[x] = z
    BY Fun_BijectionProperties
  <1> DEFINE g == [u \in Units(n, S) |-> <<f[u[1]], u[2]>>]
  <1>2. ASSUME NEW u \in Units(n, S)
        PROVE  g[u] = <<f[u[1]], u[2]>> /\ g[u] \in Units(m, T)
    <2>1. u[1] \in S /\ u[2] \in 1..n[u[1]]
      BY UnitsOf
    <2>2. f[u[1]] \in T /\ u[2] \in 1..m[f[u[1]]]
      BY <1>1, <2>1
    <2>3. <<f[u[1]], u[2]>> \in Units(m, T)
      BY <2>2, UnitsOf
    <2> QED
      BY <2>3
  <1>3. g \in [Units(n, S) -> Units(m, T)]
    BY <1>2
  <1>4. ASSUME NEW u \in Units(n, S), NEW v \in Units(n, S), g[u] = g[v]
        PROVE  u = v
    <2>1. /\ u = <<u[1], u[2]>> /\ u[1] \in S
          /\ v = <<v[1], v[2]>> /\ v[1] \in S
      BY UnitsOf
    <2>2. f[u[1]] = f[v[1]] /\ u[2] = v[2]
      BY <1>2, <1>4
    <2> QED
      BY <1>1, <2>1, <2>2
  <1>5. ASSUME NEW w \in Units(m, T)
        PROVE  \E u \in Units(n, S) : g[u] = w
    <2>1. w = <<w[1], w[2]>> /\ w[1] \in T /\ w[2] \in 1..m[w[1]]
      BY UnitsOf
    <2>2. PICK x \in S : f[x] = w[1]
      BY <1>1, <2>1
    <2>3. w[2] \in 1..n[x]
      BY <2>1, <2>2
    <2>4. <<x, w[2]>> \in Units(n, S)
      BY <2>3, UnitsOf
    <2>5. g[<<x, w[2]>>] = w
      BY <1>2, <2>1, <2>2, <2>4
    <2> QED
      BY <2>4, <2>5
  <1> HIDE DEF g
  <1>6. ExistsBijection(Units(n, S), Units(m, T))
    <2>1. g \in Bijection(Units(n, S), Units(m, T))
      BY <1>3, <1>4, <1>5, Fun_IsBij
    <2> QED
      BY <2>1 DEF ExistsBijection
  <1>7. IsFiniteSet(Units(n, S))
    BY TotalType
  <1> QED
    BY <1>6, <1>7, FS_Bijection DEF Total

\* Quantities that are sums add up to the sum of both.
LEMMA TotalAdd ==
  ASSUME NEW S, IsFiniteSet(S), NEW n, NEW k, NEW m,
         \A x \in S : n[x] \in Nat /\ k[x] \in Nat /\ m[x] = n[x] + k[x]
  PROVE  Total(m, S) = Total(n, S) + Total(k, S)
  <1> DEFINE Above == {u \in Units(m, S) : u[2] > n[u[1]]}
             g == [u \in Units(k, S) |-> <<u[1], n[u[1]] + u[2]>>]
  <1>1. ASSUME NEW u \in Units(k, S)
        PROVE  g[u] = <<u[1], n[u[1]] + u[2]>> /\ g[u] \in Above
    <2>1. u[1] \in S /\ u[2] \in 1..k[u[1]]
      BY UnitsOf
    <2>2. n[u[1]] + u[2] \in 1..m[u[1]] /\ n[u[1]] + u[2] > n[u[1]]
      BY <2>1
    <2>3. <<u[1], n[u[1]] + u[2]>> \in Units(m, S)
      BY <2>1, <2>2, UnitsOf
    <2> QED
      BY <2>2, <2>3
  <1>2. g \in [Units(k, S) -> Above]
    BY <1>1
  <1>3. ASSUME NEW u \in Units(k, S), NEW v \in Units(k, S), g[u] = g[v]
        PROVE  u = v
    <2>1. /\ u = <<u[1], u[2]>> /\ u[1] \in S /\ u[2] \in 1..k[u[1]]
          /\ v = <<v[1], v[2]>> /\ v[1] \in S /\ v[2] \in 1..k[v[1]]
      BY UnitsOf
    <2>2. u[1] = v[1] /\ n[u[1]] + u[2] = n[v[1]] + v[2]
      BY <1>1, <1>3
    <2>3. u[2] = v[2]
      BY <2>1, <2>2
    <2> QED
      BY <2>1, <2>2, <2>3
  <1>4. ASSUME NEW w \in Above
        PROVE  \E u \in Units(k, S) : g[u] = w
    <2>1. w = <<w[1], w[2]>> /\ w[1] \in S /\ w[2] \in 1..m[w[1]] /\ w[2] > n[w[1]]
      BY UnitsOf
    <2>2. PICK i : i = w[2] - n[w[1]]
      OBVIOUS
    <2>3. i \in 1..k[w[1]] /\ n[w[1]] + i = w[2]
      BY <2>1, <2>2
    <2>4. <<w[1], i>> \in Units(k, S)
      BY <2>1, <2>3, UnitsOf
    <2>5. g[<<w[1], i>>] = w
      BY <1>1, <2>1, <2>3, <2>4
    <2> QED
      BY <2>4, <2>5
  <1>5. Units(m, S) = Units(n, S) \cup Above
    <2>1. ASSUME NEW u \in Units(n, S) PROVE u \in Units(m, S)
      <3>1. u = <<u[1], u[2]>> /\ u[1] \in S /\ u[2] \in 1..n[u[1]]
        BY UnitsOf
      <3>2. u[2] \in 1..m[u[1]]
        BY <3>1
      <3> QED
        BY <3>1, <3>2, UnitsOf
    <2>2. ASSUME NEW u \in Units(m, S), u \notin Above PROVE u \in Units(n, S)
      <3>1. u = <<u[1], u[2]>> /\ u[1] \in S /\ u[2] \in 1..m[u[1]]
        BY UnitsOf
      <3>2. u[2] \in 1..n[u[1]]
        BY <2>2, <3>1
      <3> QED
        BY <3>1, <3>2, UnitsOf
    <2> QED
      BY <2>1, <2>2
  <1>6. Units(n, S) \cap Above = {}
    <2>1. ASSUME NEW u \in Units(n, S) PROVE u \notin Above
      <3>1. u[1] \in S /\ u[2] \in 1..n[u[1]]
        BY UnitsOf
      <3> QED
        BY <3>1
    <2> QED
      BY <2>1
  <1> HIDE DEF g, Above
  <1>7. /\ IsFiniteSet(Units(n, S)) /\ Cardinality(Units(n, S)) \in Nat
        /\ IsFiniteSet(Units(k, S)) /\ Cardinality(Units(k, S)) \in Nat
    BY TotalType DEF Total
  <1>8. IsFiniteSet(Above) /\ Cardinality(Above) = Cardinality(Units(k, S))
    <2>1. g \in Bijection(Units(k, S), Above)
      BY <1>2, <1>3, <1>4, Fun_IsBij
    <2>2. ExistsBijection(Units(k, S), Above)
      BY <2>1 DEF ExistsBijection
    <2> QED
      BY <1>7, <2>2, FS_Bijection
  <1>9. Cardinality(Units(n, S) \cup Above)
          = Cardinality(Units(n, S)) + Cardinality(Above) - Cardinality(Units(n, S) \cap Above)
    BY <1>7, <1>8, FS_Union
  <1>10. Cardinality(Units(n, S) \cap Above) = 0
    BY <1>6, FS_EmptySet
  <1> QED
    BY <1>5, <1>7, <1>8, <1>9, <1>10 DEF Total

\* What a set of at most one member adds up to.
LEMMA TotalOne ==
  ASSUME NEW x, NEW S \in SUBSET {x}, NEW n, n[x] \in Nat
  PROVE  Total(n, S) = IF x \in S THEN n[x] ELSE 0
  <1>1. S = {} \/ S = {x}
    OBVIOUS
  <1> QED
    BY <1>1, TotalEmpty, TotalSingle

\* One member apart.
LEMMA TotalApart ==
  ASSUME NEW S, IsFiniteSet(S), NEW n, \A y \in S : n[y] \in Nat, NEW x
  PROVE  Total(n, S) = Total(n, S \ {x}) + (IF x \in S THEN n[x] ELSE 0)
  <1>1. PICK R : R = S \ {x}
    OBVIOUS
  <1>2. IsFiniteSet(R) /\ x \notin R /\ \A y \in R : n[y] \in Nat
    BY <1>1, FS_RemoveElement
  <1>3. Total(n, R) \in Nat
    BY <1>2, TotalType
  <1>4. CASE x \in S
    <2>1. S = R \cup {x} /\ n[x] \in Nat
      BY <1>1, <1>4
    <2>2. Total(n, R \cup {x}) = Total(n, R) + n[x]
      BY <1>2, <2>1, TotalInsert
    <2> QED
      BY <1>1, <1>4, <2>1, <2>2
  <1>5. CASE x \notin S
    <2>1. R = S
      BY <1>1, <1>5
    <2> QED
      BY <1>1, <1>3, <1>5, <2>1
  <1> QED
    BY <1>4, <1>5

\* Adding up what each of several heaps adds up to is adding up everything: f names
\* the heap of a member, heap[t] is the heap named t.
LEMMA TotalFibres ==
  ASSUME NEW S, IsFiniteSet(S), NEW n, NEW f, NEW T, NEW heap, NEW m,
         \A x \in S : n[x] \in Nat /\ f[x] \in T,
         \A t \in T : m[t] = Total(n, heap[t]),
         \A t \in T : \A x : x \in heap[t] <=> x \in S /\ f[x] = t
  PROVE  Total(m, T) = Total(n, S)
  <1> DEFINE Heap(t) == Units(n, heap[t])
             b == [t \in T |-> CHOOSE h : h \in Bijection(1..m[t], Heap(t))]
             g == [u \in Units(m, T) |-> b[u[1]][u[2]]]
  <1>1. ASSUME NEW t \in T
        PROVE  b[t] \in Bijection(1..m[t], Heap(t))
    <2>1. PICK R : R = heap[t]
      OBVIOUS
    <2>2. IsFiniteSet(R) /\ \A x \in R : n[x] \in Nat
      <3>1. R \subseteq S
        BY <2>1
      <3> QED
        BY <3>1, FS_Subset
    <2>3. IsFiniteSet(Units(n, R))
      BY <2>2, TotalType
    <2>4. ExistsBijection(1..Cardinality(Units(n, R)), Units(n, R))
      BY <2>3, FS_CardinalityType
    <2>5. \E h : h \in Bijection(1..m[t], Heap(t))
      BY <2>1, <2>4 DEF ExistsBijection, Total
    <2> QED
      BY <2>5
  <1>2. ASSUME NEW t \in T
        PROVE  /\ \A i \in 1..m[t] : b[t][i] \in Heap(t)
               /\ \A i, j \in 1..m[t] : b[t][i] = b[t][j] => i = j
               /\ \A z \in Heap(t) : \E i \in 1..m[t] : b[t][i] = z
    <2> HIDE DEF b, Heap
    <2>1. PICK D, R, h : D = 1..m[t] /\ R = Heap(t) /\ h = b[t]
      OBVIOUS
    <2>2. h \in Bijection(D, R)
      BY <1>1, <2>1
    <2>3. /\ h \in [D -> R] /\ \A i, j \in D : h[i] = h[j] => i = j
          /\ \A z \in R : \E i \in D : h[i] = z
      BY <2>2, Fun_BijectionProperties
    <2> QED
      BY <2>1, <2>3
  <1>3. ASSUME NEW t \in T, NEW z
        PROVE  z \in Heap(t) <=> z \in Units(n, S) /\ f[z[1]] = t
    <2>1. ASSUME z \in Heap(t) PROVE z \in Units(n, S) /\ f[z[1]] = t
      <3>1. PICK R : R = heap[t] /\ \A x : x \in R <=> x \in S /\ f[x] = t
        OBVIOUS
      <3>2. z = <<z[1], z[2]>> /\ z[1] \in R /\ z[2] \in 1..n[z[1]]
        BY <2>1, <3>1, UnitsOf
      <3> QED
        BY <3>1, <3>2, UnitsOf
    <2>2. ASSUME z \in Units(n, S), f[z[1]] = t PROVE z \in Heap(t)
      <3>1. PICK R : R = heap[t] /\ \A x : x \in R <=> x \in S /\ f[x] = t
        OBVIOUS
      <3>2. z = <<z[1], z[2]>> /\ z[1] \in S /\ z[2] \in 1..n[z[1]]
        BY <2>2, UnitsOf
      <3>3. z[1] \in R
        BY <2>2, <3>1, <3>2
      <3>4. z \in Units(n, R)
        BY <3>2, <3>3, UnitsOf
      <3> QED
        BY <3>1, <3>4
    <2> QED
      BY <2>1, <2>2
  <1> HIDE DEF b, Heap
  <1>4. ASSUME NEW u \in Units(m, T)
        PROVE  /\ u = <<u[1], u[2]>> /\ u[1] \in T /\ u[2] \in 1..m[u[1]]
               /\ g[u] = b[u[1]][u[2]] /\ g[u] \in Units(n, S) /\ f[g[u][1]] = u[1]
    <2>1. u = <<u[1], u[2]>> /\ u[1] \in T /\ u[2] \in 1..m[u[1]]
      BY UnitsOf
    <2>2. g[u] = b[u[1]][u[2]]
      OBVIOUS
    <2>3. g[u] \in Heap(u[1])
      BY <1>2, <2>1, <2>2
    <2> HIDE DEF g
    <2> QED
      BY <1>3, <2>1, <2>2, <2>3
  <1>5. g \in [Units(m, T) -> Units(n, S)]
    BY <1>4
  <1>6. ASSUME NEW u \in Units(m, T), NEW v \in Units(m, T), g[u] = g[v]
        PROVE  u = v
    <2> HIDE DEF g
    <2>1. u[1] = v[1]
      BY <1>4, <1>6
    <2>2. u[2] = v[2]
      BY <1>2, <1>4, <1>6, <2>1
    <2> QED
      BY <1>4, <2>1, <2>2
  <1>7. ASSUME NEW z \in Units(n, S)
        PROVE  \E u \in Units(m, T) : g[u] = z
    <2>1. z[1] \in S
      BY UnitsOf
    <2>2. PICK t \in T : t = f[z[1]]
      BY <2>1
    <2>3. PICK i \in 1..m[t] : b[t][i] = z
      BY <1>2, <1>3, <2>2
    <2>4. <<t, i>> \in Units(m, T)
      BY UnitsOf
    <2>5. g[<<t, i>>] = z
      BY <2>3, <2>4
    <2> QED
      BY <2>4, <2>5
  <1> HIDE DEF g
  <1>8. ExistsBijection(Units(n, S), Units(m, T))
    <2>1. g \in Bijection(Units(m, T), Units(n, S))
      BY <1>5, <1>6, <1>7, Fun_IsBij
    <2>2. ExistsBijection(Units(m, T), Units(n, S))
      BY <2>1 DEF ExistsBijection
    <2> QED
      BY <2>2, Fun_ExistsBijSymmetric
  <1>9. IsFiniteSet(Units(n, S))
    BY TotalType
  <1> QED
    BY <1>8, <1>9, FS_Bijection DEF Total
=============================================================================
