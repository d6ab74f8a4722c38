--------------------------- MODULE TotalsTheorems ---------------------------
(***************************************************************************)
(* What the books of this code need of sums.                               *)
(***************************************************************************)
EXTENDS Totals, FiniteSetTheorems, TLAPS

LEMMA UnitsElements ==
    ASSUME NEW S, NEW f
    PROVE  /\ \A u \in Units(f, S) : /\ u = <<u[1], u[2]>> /\ u[1] \in S
                                     /\ u[2] \in 1..f[u[1]]
           /\ \A x \in S : \A n \in 1..f[x] : <<x, n>> \in Units(f, S)
BY DEF Units

\* A sum over a finite set is a natural number.
LEMMA TotalIsNat ==
    ASSUME NEW S, IsFiniteSet(S), NEW f, \A x \in S : f[x] \in Nat
    PROVE  IsFiniteSet(Units(f, S)) /\ Total(f, S) \in Nat
<1> DEFINE part == [x \in S |-> {x} \X (1..f[x])]
           parts == {{x} \X (1..f[x]) : x \in S}
<1>1. part \in Surjection(S, parts)
  BY DEF Surjection
<1>2. IsFiniteSet(parts)
  BY <1>1, FS_Surjection
<1>3. ASSUME NEW x \in S
      PROVE  IsFiniteSet({x} \X (1..f[x]))
  <2>1. IsFiniteSet({x})
    BY FS_Singleton
  <2>2. IsFiniteSet(1..f[x])
    <3>1. f[x] \in Int
      OBVIOUS
    <3> QED
      BY <3>1, FS_Interval
  <2> QED
    BY <2>1, <2>2, FS_Product
<1>4. \A T \in parts : IsFiniteSet(T)
  BY <1>3
<1>5. IsFiniteSet(UNION parts)
  <2> HIDE DEF parts
  <2> QED
    BY <1>2, <1>4, FS_UNION
<1> QED
  BY <1>5, FS_CardinalityType DEF Units, Total

LEMMA TotalSame ==
    ASSUME NEW S, NEW f, NEW g, \A x \in S : f[x] = g[x]
    PROVE  Total(f, S) = Total(g, S)
<1>1. {{x} \X (1..f[x]) : x \in S} = {{x} \X (1..g[x]) : x \in S}
  OBVIOUS
<1> QED
  BY <1>1 DEF Total, Units

\* Sums add up.
LEMMA TotalPlus ==
    ASSUME NEW S, IsFiniteSet(S), NEW f, NEW g, NEW h,
           \A x \in S : f[x] \in Nat /\ g[x] \in Nat /\ h[x] = f[x] + g[x]
    PROVE  Total(h, S) = Total(f, S) + Total(g, S)
<1> DEFINE F == Units(f, S)
           G == Units(g, S)
           H == Units(h, S)
           shift == [u \in G |-> <<u[1], u[2] + f[u[1]]>>]
<1>1. F \subseteq H
  <2> SUFFICES ASSUME NEW u \in F
               PROVE  u \in H
    OBVIOUS
  <2>1. u = <<u[1], u[2]>> /\ u[1] \in S /\ u[2] \in 1..f[u[1]]
    BY UnitsElements
  <2>2. u[2] \in 1..h[u[1]]
    BY <2>1
  <2> QED
    BY <2>1, <2>2, UnitsElements
<1>2. \A u \in G : shift[u] \in H \ F
  <2> SUFFICES ASSUME NEW u \in G
               PROVE  shift[u] \in H \ F
    OBVIOUS
  <2> DEFINE x == u[1]
             n == u[2]
  <2>1. x \in S /\ n \in 1..g[x]
    BY UnitsElements
  <2>2. n + f[x] \in 1..h[x] /\ n + f[x] \notin 1..f[x]
    BY <2>1
  <2>3. <<x, n + f[x]>> \in H
    BY <2>1, <2>2, UnitsElements
  <2>4. <<x, n + f[x]>> \notin F
    <3> SUFFICES ASSUME <<x, n + f[x]>> \in F
                 PROVE  FALSE
      OBVIOUS
    <3>1. <<x, n + f[x]>>[2] \in 1..f[<<x, n + f[x]>>[1]]
      BY UnitsElements
    <3> QED
      BY <2>2, <3>1
  <2> QED
    BY <2>3, <2>4
<1>3. \A u, v \in G : shift[u] = shift[v] => u = v
  <2> SUFFICES ASSUME NEW u \in G, NEW v \in G, shift[u] = shift[v]
               PROVE  u = v
    OBVIOUS
  <2>1. /\ u = <<u[1], u[2]>> /\ u[1] \in S /\ u[2] \in 1..g[u[1]]
        /\ v = <<v[1], v[2]>> /\ v[1] \in S /\ v[2] \in 1..g[v[1]]
    BY UnitsElements
  <2>2. u[1] = v[1] /\ u[2] + f[u[1]] = v[2] + f[v[1]]
    OBVIOUS
  <2>3. u[2] = v[2]
    BY <2>1, <2>2
  <2> QED
    BY <2>1, <2>2, <2>3
<1>4. \A w \in H \ F : \E u \in G : shift[u] = w
  <2> TAKE w \in H \ F
  <2> DEFINE x == w[1]
             n == w[2]
  <2>1. w = <<x, n>> /\ x \in S /\ n \in 1..h[x]
    BY UnitsElements
  <2>2. n \notin 1..f[x]
    BY <2>1, UnitsElements
  <2>3. n - f[x] \in 1..g[x] /\ (n - f[x]) + f[x] = n
    BY <2>1, <2>2
  <2> DEFINE u == <<x, n - f[x]>>
  <2>4. u \in G
    BY <2>1, <2>3, UnitsElements
  <2>5. shift[u] = <<x, (n - f[x]) + f[x]>>
    BY <2>4
  <2> QED
    BY <2>1, <2>3, <2>4, <2>5
<1> HIDE DEF F, G, H
<1>5. shift \in Bijection(G, H \ F)
  <2>1. shift \in [G -> H \ F]
    BY <1>2
  <2>2. shift \in Injection(G, H \ F)
    BY <2>1, <1>3 DEF Injection, IsInjective
  <2>3. shift \in Surjection(G, H \ F)
    BY <2>1, <1>4 DEF Surjection
  <2> QED
    BY <2>2, <2>3 DEF Bijection
<1>6. IsFiniteSet(F) /\ IsFiniteSet(G) /\ IsFiniteSet(H)
  <2>1. \A x \in S : h[x] \in Nat
    OBVIOUS
  <2> QED
    BY <2>1, TotalIsNat DEF F, G, H
<1>7. ExistsBijection(G, H \ F)
  BY <1>5 DEF ExistsBijection
<1>8. Cardinality(H \ F) = Cardinality(G)
  BY <1>6, <1>7, FS_Bijection
<1>9. Cardinality(H \ F) = Cardinality(H) - Cardinality(F)
  <2>1. H \cap F = F
    BY <1>1
  <2>2. Cardinality(H \ F) = Cardinality(H) - Cardinality(H \cap F)
    BY <1>6, FS_Difference
  <2> QED
    BY <2>1, <2>2
<1>10. Cardinality(F) \in Nat /\ Cardinality(G) \in Nat /\ Cardinality(H) \in Nat
  BY <1>6, FS_CardinalityType
<1> QED
  BY <1>8, <1>9, <1>10 DEF F, G, H, Total

\* Nothing adds up to nothing.
LEMMA TotalZero ==
    ASSUME NEW S, NEW f, \A x \in S : f[x] = 0
    PROVE  Total(f, S) = 0
<1>1. Units(f, S) = {}
  <2> SUFFICES ASSUME NEW u \in Units(f, S)
               PROVE  FALSE
    OBVIOUS
  <2>1. u[1] \in S /\ u[2] \in 1..f[u[1]]
    BY UnitsElements
  <2> QED
    BY <2>1
<1> QED
  BY <1>1, FS_EmptySet DEF Total

\* A sum with one amount is that amount.
LEMMA TotalOne ==
    ASSUME NEW S, NEW x \in S, NEW f, f[x] \in Nat, \A y \in S \ {x} : f[y] = 0
    PROVE  Total(f, S) = f[x]
<1> DEFINE F == Units(f, S)
           unit == [n \in 1..f[x] |-> <<x, n>>]
<1>1. \A n \in 1..f[x] : unit[n] \in F
  BY UnitsElements
<1>2. \A u \in F : \E n \in 1..f[x] : unit[n] = u
  <2> TAKE u \in F
  <2>1. u = <<u[1], u[2]>> /\ u[1] \in S /\ u[2] \in 1..f[u[1]]
    BY UnitsElements
  <2>2. u[1] = x
    BY <2>1
  <2> QED
    BY <2>1, <2>2
<1>3. \A m, n \in 1..f[x] : unit[m] = unit[n] => m = n
  OBVIOUS
<1> HIDE DEF F
<1>4. unit \in Bijection(1..f[x], F)
  <2>1. unit \in [1..f[x] -> F]
    BY <1>1
  <2> QED
    BY <2>1, <1>2, <1>3 DEF Bijection, Injection, Surjection, IsInjective
<1>5. ExistsBijection(1..f[x], F)
  BY <1>4 DEF ExistsBijection
<1> QED
  BY <1>5, FS_CountingElements DEF F, Total

\* As many times one amount.
LEMMA TotalConstant ==
    ASSUME NEW S, IsFiniteSet(S), NEW n \in Nat, NEW f, \A x \in S : f[x] = n
    PROVE  Total(f, S) = Cardinality(S) * n
<1>1. Units(f, S) = S \X (1..n)
  <2>1. ASSUME NEW u \in Units(f, S)
        PROVE  u \in S \X (1..n)
    BY <2>1, UnitsElements
  <2>2. ASSUME NEW u \in S \X (1..n)
        PROVE  u \in Units(f, S)
    <3>1. u = <<u[1], u[2]>> /\ u[1] \in S /\ u[2] \in 1..f[u[1]]
      OBVIOUS
    <3> QED
      BY <3>1, UnitsElements
  <2> QED
    BY <2>1, <2>2
<1>2. IsFiniteSet(1..n) /\ Cardinality(1..n) = n
  BY FS_Interval
<1>3. Cardinality(S \X (1..n)) = Cardinality(S) * Cardinality(1..n)
  BY <1>2, FS_Product
<1> QED
  BY <1>1, <1>2, <1>3 DEF Total

\* One amount changes: so does the sum, by as much.
LEMMA TotalChange ==
    ASSUME NEW S, IsFiniteSet(S), NEW x \in S, NEW f, NEW g,
           \A y \in S : f[y] \in Nat /\ g[y] \in Nat,
           \A y \in S \ {x} : f[y] = g[y]
    PROVE  Total(g, S) = Total(f, S) - f[x] + g[x]
<1> DEFINE rest == [y \in S |-> IF y = x THEN 0 ELSE f[y]]
           old == [y \in S |-> IF y = x THEN f[x] ELSE 0]
           new == [y \in S |-> IF y = x THEN g[x] ELSE 0]
<1>1. /\ \A y \in S : /\ rest[y] \in Nat /\ old[y] \in Nat /\ new[y] \in Nat
                      /\ f[y] = rest[y] + old[y] /\ g[y] = rest[y] + new[y]
      /\ old[x] = f[x] /\ new[x] = g[x]
      /\ \A y \in S \ {x} : old[y] = 0 /\ new[y] = 0
  OBVIOUS
<1> HIDE DEF rest, old, new
<1>2. Total(f, S) = Total(rest, S) + Total(old, S)
  BY <1>1, TotalPlus
<1>3. Total(g, S) = Total(rest, S) + Total(new, S)
  BY <1>1, TotalPlus
<1>4. Total(old, S) = f[x]
  BY <1>1, TotalOne
<1>5. Total(new, S) = g[x]
  BY <1>1, TotalOne
<1>6. Total(rest, S) \in Nat
  BY <1>1, TotalIsNat
<1> QED
  BY <1>2, <1>3, <1>4, <1>5, <1>6

\* A sum is at least each of its amounts.
LEMMA TotalAtLeast ==
    ASSUME NEW S, IsFiniteSet(S), NEW x \in S, NEW f, \A y \in S : f[y] \in Nat
    PROVE  f[x] <= Total(f, S)
<1> DEFINE rest == [y \in S |-> IF y = x THEN 0 ELSE f[y]]
<1>1. \A y \in S : rest[y] \in Nat
  OBVIOUS
<1>2. rest[x] = 0 /\ \A y \in S \ {x} : f[y] = rest[y]
  OBVIOUS
<1> HIDE DEF rest
<1>3. Total(rest, S) = Total(f, S) - f[x] + rest[x]
  BY <1>1, <1>2, TotalChange
<1>4. Total(rest, S) \in Nat /\ Total(f, S) \in Nat
  BY <1>1, TotalIsNat
<1> QED
  BY <1>2, <1>3, <1>4

\* Smaller amounts add up to less.
LEMMA TotalLess ==
    ASSUME NEW S, IsFiniteSet(S), NEW f, NEW g,
           \A x \in S : f[x] \in Nat /\ g[x] \in Nat /\ f[x] <= g[x]
    PROVE  Total(f, S) <= Total(g, S)
<1> DEFINE d == [x \in S |-> g[x] - f[x]]
<1>1. \A x \in S : d[x] \in Nat /\ g[x] = f[x] + d[x]
  OBVIOUS
<1> HIDE DEF d
<1>2. Total(g, S) = Total(f, S) + Total(d, S)
  BY <1>1, TotalPlus
<1>3. Total(f, S) \in Nat /\ Total(d, S) \in Nat
  BY <1>1, TotalIsNat
<1> QED
  BY <1>2, <1>3

\* Each k of K gets, in g, the sum of those amounts whose key it is.
AddedByKey(f, S, key, part, g, K) ==
    /\ \A x \in S : key[x] \in K /\ f[x] \in Nat
    /\ \A k \in K : /\ \A x \in S : part[k][x] = IF key[x] = k THEN f[x] ELSE 0
                    /\ g[k] = Total(part[k], S)

\* Amounts added up key by key add up to the whole.
LEMMA TotalByKey ==
    ASSUME NEW S, IsFiniteSet(S), NEW K, NEW key, NEW f, NEW g, NEW part,
           AddedByKey(f, S, key, part, g, K)
    PROVE  Total(g, K) = Total(f, S)
<1> USE DEF AddedByKey
<1> DEFINE F == Units(f, S)
           G == Units(g, K)
           P(k) == Units(part[k], S)
<1>1. ASSUME NEW k \in K
      PROVE  /\ g[k] \in Nat /\ ExistsBijection(P(k), 1..g[k])
             /\ \A u : u \in P(k) <=> u \in F /\ key[u[1]] = k
  <2>1. \A x \in S : part[k][x] \in Nat
    OBVIOUS
  <2>2. IsFiniteSet(P(k)) /\ g[k] = Cardinality(P(k)) /\ g[k] \in Nat
    BY <2>1, TotalIsNat DEF Total
  <2>3. IsFiniteSet(1..g[k]) /\ Cardinality(1..g[k]) = g[k]
    BY <2>2, FS_Interval
  <2>4. ExistsBijection(P(k), 1..g[k])
    <3> HIDE DEF P
    <3> QED
      BY <2>2, <2>3, FS_SameCardinalityBij
  <2>5. ASSUME NEW u \in P(k)
        PROVE  u \in F /\ key[u[1]] = k
    <3>1. u = <<u[1], u[2]>> /\ u[1] \in S /\ u[2] \in 1..part[k][u[1]]
      BY UnitsElements
    <3>2. key[u[1]] = k /\ u[2] \in 1..f[u[1]]
      BY <3>1
    <3> QED
      BY <3>1, <3>2, UnitsElements
  <2>6. ASSUME NEW u \in F, key[u[1]] = k
        PROVE  u \in P(k)
    <3>1. u = <<u[1], u[2]>> /\ u[1] \in S /\ u[2] \in 1..f[u[1]]
      BY UnitsElements
    <3>2. part[k][u[1]] = f[u[1]]
      BY <3>1, <2>6
    <3>3. <<u[1], u[2]>> \in P(k)
      BY <3>1, <3>2, UnitsElements
    <3> QED
      BY <3>1, <3>3
  <2> QED
    BY <2>2, <2>4, <2>5, <2>6
<1> DEFINE count(k) == CHOOSE b : b \in Bijection(P(k), 1..g[k])
           place == [u \in F |-> <<key[u[1]], count(key[u[1]])[u]>>]
<1>2. \A k \in K : count(k) \in Bijection(P(k), 1..g[k])
  <2> TAKE k \in K
  <2>1. \E b : b \in Bijection(P(k), 1..g[k])
    BY <1>1 DEF ExistsBijection
  <2> QED
    BY <2>1
<1>3. \A u \in F : u[1] \in S /\ key[u[1]] \in K
  BY UnitsElements
<1> HIDE DEF P, F, count
<1>4. ASSUME NEW u \in F
      PROVE  place[u] \in G
  <2> DEFINE k == key[u[1]]
  <2>1. k \in K /\ u \in P(k)
    BY <1>1, <1>3
  <2>2. count(k)[u] \in 1..g[k]
    BY <1>2, <2>1 DEF Bijection, Injection
  <2>3. <<k, count(k)[u]>> \in G
    BY <2>1, <2>2, UnitsElements
  <2> QED
    BY <2>3
<1>5. ASSUME NEW u \in F, NEW v \in F, place[u] = place[v]
      PROVE  u = v
  <2> DEFINE k == key[u[1]]
  <2>1. k = key[v[1]] /\ count(k)[u] = count(k)[v]
    BY <1>5
  <2>2. k \in K /\ u \in P(k) /\ v \in P(k)
    BY <1>1, <1>3, <2>1
  <2> QED
    BY <1>2, <2>1, <2>2 DEF Bijection, Injection, IsInjective
<1>6. ASSUME NEW w \in G
      PROVE  \E u \in F : place[u] = w
  <2>1. w = <<w[1], w[2]>> /\ w[1] \in K /\ w[2] \in 1..g[w[1]]
    BY UnitsElements
  <2>2. PICK u \in P(w[1]) : count(w[1])[u] = w[2]
    BY <1>2, <2>1 DEF Bijection, Surjection
  <2>3. u \in F /\ key[u[1]] = w[1]
    BY <1>1, <2>1, <2>2
  <2> QED
    BY <2>1, <2>2, <2>3
<1> HIDE DEF G
<1>7. place \in Bijection(F, G)
  <2>1. place \in [F -> G]
    BY <1>4
  <2>2. place \in Injection(F, G)
    BY <2>1, <1>5 DEF Injection, IsInjective
  <2>3. place \in Surjection(F, G)
    BY <2>1, <1>6 DEF Surjection
  <2> QED
    BY <2>2, <2>3 DEF Bijection
<1>8. IsFiniteSet(F)
  BY TotalIsNat DEF F
<1>9. Cardinality(G) = Cardinality(F)
  <2>1. ExistsBijection(F, G)
    BY <1>7 DEF ExistsBijection
  <2> QED
    BY <1>8, <2>1, FS_Bijection
<1> QED
  BY <1>9 DEF F, G, Total

\* Changing one term changes the sum of integers by as much.
LEMMA SumChange ==
    ASSUME NEW S, IsFiniteSet(S), NEW x \in S, NEW f, NEW g,
           \A y \in S : f[y] \in Int /\ g[y] \in Int,
           \A y \in S \ {x} : f[y] = g[y]
    PROVE  /\ Sum(f, S) \in Int
           /\ Sum(g, S) = Sum(f, S) - f[x] + g[x]
<1> DEFINE fi == [y \in S |-> IF f[y] > 0 THEN f[y] ELSE 0]
           fo == [y \in S |-> IF f[y] < 0 THEN -f[y] ELSE 0]
           gi == [y \in S |-> IF g[y] > 0 THEN g[y] ELSE 0]
           go == [y \in S |-> IF g[y] < 0 THEN -g[y] ELSE 0]
<1>1. /\ \A y \in S : fi[y] \in Nat /\ gi[y] \in Nat /\ fo[y] \in Nat /\ go[y] \in Nat
      /\ \A y \in S \ {x} : fi[y] = gi[y] /\ fo[y] = go[y]
      /\ f[x] = fi[x] - fo[x] /\ g[x] = gi[x] - go[x]
    OBVIOUS
<1>2. /\ Sum(f, S) = Total(fi, S) - Total(fo, S)
      /\ Sum(g, S) = Total(gi, S) - Total(go, S)
    BY DEF Sum
<1> HIDE DEF fi, fo, gi, go
<1>3. Total(gi, S) = Total(fi, S) - fi[x] + gi[x]
    BY <1>1, TotalChange
<1>4. Total(go, S) = Total(fo, S) - fo[x] + go[x]
    BY <1>1, TotalChange
<1>5. Total(fi, S) \in Nat /\ Total(fo, S) \in Nat
    BY <1>1, TotalIsNat
<1>6. QED
    BY <1>1, <1>2, <1>3, <1>4, <1>5

\* Nothing in and nothing out.
LEMMA SumZero ==
    ASSUME NEW S, NEW f, \A x \in S : f[x] = 0
    PROVE  Sum(f, S) = 0
<1> DEFINE fi == [y \in S |-> IF f[y] > 0 THEN f[y] ELSE 0]
           fo == [y \in S |-> IF f[y] < 0 THEN -f[y] ELSE 0]
<1>1. \A x \in S : fi[x] = 0 /\ fo[x] = 0
    OBVIOUS
<1>2. Sum(f, S) = Total(fi, S) - Total(fo, S)
    BY DEF Sum
<1> HIDE DEF fi, fo
<1>3. Total(fi, S) = 0 /\ Total(fo, S) = 0
    BY <1>1, TotalZero
<1>4. QED
    BY <1>2, <1>3

LEMMA SumIsInt ==
    ASSUME NEW S, IsFiniteSet(S), NEW f, \A x \in S : f[x] \in Int
    PROVE  Sum(f, S) \in Int
<1> DEFINE fi == [y \in S |-> IF f[y] > 0 THEN f[y] ELSE 0]
           fo == [y \in S |-> IF f[y] < 0 THEN -f[y] ELSE 0]
<1>1. \A x \in S : fi[x] \in Nat /\ fo[x] \in Nat
    OBVIOUS
<1>2. Sum(f, S) = Total(fi, S) - Total(fo, S)
    BY DEF Sum
<1> HIDE DEF fi, fo
<1>3. Total(fi, S) \in Nat /\ Total(fo, S) \in Nat
    BY <1>1, TotalIsNat
<1>4. QED
    BY <1>2, <1>3

\* One term more.
LEMMA TotalOneMore ==
    ASSUME NEW S, IsFiniteSet(S), NEW x, x \notin S, NEW f, \A y \in S \cup {x} : f[y] \in Nat
    PROVE  Total(f, S \cup {x}) = Total(f, S) + f[x]
<1> DEFINE T == S \cup {x}
           rest == [y \in T |-> IF y = x THEN 0 ELSE f[y]]
           one == [y \in T |-> IF y = x THEN f[x] ELSE 0]
<1>1. /\ \A y \in T : rest[y] \in Nat /\ one[y] \in Nat /\ f[y] = rest[y] + one[y]
      /\ \A y \in S : rest[y] = f[y]
      /\ \A y \in T \ {x} : one[y] = 0
      /\ one[x] = f[x] /\ f[x] \in Nat /\ rest[x] = 0 /\ x \in T
    OBVIOUS
<1>2. IsFiniteSet(T)
    BY FS_AddElement
<1> HIDE DEF rest, one
<1>3. Total(f, T) = Total(rest, T) + Total(one, T)
    BY <1>1, <1>2, TotalPlus
<1>4. Total(one, T) = f[x]
    <2>1. Total(one, T) = one[x]
        <3> HIDE DEF T
        <3>1. QED
            BY <1>1, TotalOne
    <2>2. QED
        BY <1>1, <2>1
<1>5. Total(rest, T) = Total(rest, S)
    <2>1. Units(rest, T) = Units(rest, S) \cup ({x} \X (1..rest[x]))
        BY DEF Units
    <2>2. {x} \X (1..rest[x]) = {}
        BY <1>1
    <2>3. QED
        BY <2>1, <2>2 DEF Total
<1>6. Total(rest, S) = Total(f, S)
    BY <1>1, TotalSame
<1>7. QED
    BY <1>3, <1>4, <1>5, <1>6
=============================================================================
