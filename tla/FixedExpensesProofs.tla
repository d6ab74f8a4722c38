------------------------- MODULE FixedExpensesProofs -------------------------
(***************************************************************************)
(* What holds of the periods of a fixed expense and of their payments, for *)
(* any schedules, amounts and users, and any number of synchronisations    *)
(* that overlap.                                                           *)
(***************************************************************************)
EXTENDS FixedExpenses, TotalsTheorems, WellFoundedInduction

\* A set of natural numbers that is not empty has a least one.
LEMMA LeastNumber ==
    ASSUME NEW T \in SUBSET Nat, T # {}
    PROVE  \E k \in T : \A j \in T : k <= j
<1>1. PICK k \in T : \A j \in T : ~(<<j, k>> \in OpToRel(<, Nat))
  BY NatLessThanWellFounded, WFMin
<1>2. ASSUME NEW j \in T, j < k
      PROVE  FALSE
  <2>1. j \in Nat /\ k \in Nat
    OBVIOUS
  <2>2. <<j, k>> \in OpToRel(<, Nat)
    BY <1>2, <2>1 DEF OpToRel
  <2> QED
    BY <1>1, <2>2
<1> QED
  BY <1>2

-----------------------------------------------------------------------------
\* How many members of F are up to t.
Rank(F, t) == Cardinality({u \in F : u <= t})

LEMMA RankIsNat ==
    ASSUME NEW N \in Nat, NEW F \in SUBSET (1..N), NEW t
    PROVE  /\ IsFiniteSet(F) /\ Rank(F, t) \in Nat /\ Rank(F, t) <= Cardinality(F)
           /\ IsFiniteSet({u \in F : u <= t})
<1>1. IsFiniteSet(1..N)
  BY FS_Interval
<1>2. IsFiniteSet(F)
  BY <1>1, FS_Subset
<1>3. {u \in F : u <= t} \in SUBSET F
  OBVIOUS
<1> QED
  BY <1>2, <1>3, FS_Subset, FS_CardinalityType DEF Rank

\* A number adds one to the rank before it if it is in the set.
LEMMA RankStep ==
    ASSUME NEW N \in Nat, NEW F \in SUBSET (1..N), NEW k \in Nat \ {0}
    PROVE  Rank(F, k) = Rank(F, k - 1) + (IF k \in F THEN 1 ELSE 0)
<1> DEFINE before == {u \in F : u <= k - 1}
<1>1. IsFiniteSet(before)
  BY RankIsNat
<1>2. k \notin before
  OBVIOUS
<1>3. {u \in F : u <= k} = IF k \in F THEN before \cup {k} ELSE before
  <2>1. \A u \in F : u \in Nat /\ (u <= k <=> u <= k - 1 \/ u = k)
    OBVIOUS
  <2>2. k <= k
    OBVIOUS
  <2> QED
    BY <2>1, <2>2
<1>4. Cardinality(before) \in Nat /\ Rank(F, k - 1) = Cardinality(before)
  BY <1>1, FS_CardinalityType DEF Rank
<1> HIDE DEF before
<1>5. Cardinality(before \cup {k}) = Cardinality(before) + 1
  BY <1>1, <1>2, FS_AddElement
<1> QED
  BY <1>3, <1>4, <1>5 DEF Rank

\* Each rank up to the size of the set is that of a member.
LEMMA RankExists ==
    ASSUME NEW N \in Nat, NEW F \in SUBSET (1..N), NEW r \in 1..Cardinality(F)
    PROVE  \E t \in F : Rank(F, t) = r
<1> DEFINE T == {k \in Nat : Rank(F, k) >= r}
<1>1. Cardinality(F) \in Nat /\ r \in Nat /\ r >= 1
  <2>1. Cardinality(F) \in Nat
    BY RankIsNat, FS_CardinalityType
  <2> QED
    BY <2>1
<1>2. N \in T
  <2>1. {u \in F : u <= N} = F
    <3>1. \A u \in F : u <= N
      OBVIOUS
    <3> QED
      BY <3>1
  <2>2. Rank(F, N) = Cardinality(F)
    BY <2>1 DEF Rank
  <2> QED
    BY <1>1, <2>2
<1>3. PICK k \in T : \A j \in T : k <= j
  BY <1>2, LeastNumber
<1>4. k # 0
  <2>1. {u \in F : u <= 0} = {}
    <3>1. \A u \in F : ~(u <= 0)
      OBVIOUS
    <3> QED
      BY <3>1
  <2>2. Rank(F, 0) = 0
    BY <2>1, FS_EmptySet DEF Rank
  <2> QED
    BY <1>1, <2>2
<1>5. Rank(F, k - 1) < r /\ Rank(F, k - 1) \in Nat
  <2>1. k - 1 \in Nat /\ k - 1 \notin T
    BY <1>3, <1>4
  <2>2. Rank(F, k - 1) \in Nat
    BY RankIsNat
  <2> QED
    BY <1>1, <2>1, <2>2
<1>6. Rank(F, k) = Rank(F, k - 1) + (IF k \in F THEN 1 ELSE 0)
  BY <1>4, RankStep
<1>7. Rank(F, k) >= r /\ Rank(F, k) \in Nat
  BY RankIsNat
<1> QED
  BY <1>1, <1>5, <1>6, <1>7

\* Members of the same rank are the same.
LEMMA RankUnique ==
    ASSUME NEW N \in Nat, NEW F \in SUBSET (1..N), NEW t \in F, NEW u \in F,
           Rank(F, t) = Rank(F, u)
    PROVE  t = u
<1>1. ASSUME NEW a \in F, NEW b \in F, a < b, Rank(F, a) = Rank(F, b)
      PROVE  FALSE
  <2> DEFINE A == {x \in F : x <= a}
             B == {x \in F : x <= b}
  <2>1. a \in Nat /\ b \in Nat
    OBVIOUS
  <2>2. A \in SUBSET B /\ b \in B /\ b \notin A
    <3>1. \A x \in F : x <= a => x <= b
      <4> TAKE x \in F
      <4>1. x \in Nat
        OBVIOUS
      <4> QED
        BY <1>1, <2>1, <4>1
    <3>2. b <= b /\ ~(b <= a)
      BY <1>1, <2>1
    <3> QED
      BY <3>1, <3>2
  <2>3. IsFiniteSet(B) /\ Cardinality(B) = Cardinality(A)
    BY <1>1, RankIsNat DEF Rank
  <2> HIDE DEF A, B
  <2> QED
    BY <2>2, <2>3, FS_Subset
<1>2. t \in Nat /\ u \in Nat
  OBVIOUS
<1> QED
  BY <1>1, <1>2

-----------------------------------------------------------------------------
\* What a sum over a larger set adds, if it adds nothing, is nothing.
LEMMA TotalOfPart ==
    ASSUME NEW S, NEW R \in SUBSET S, NEW f, \A x \in S \ R : f[x] = 0
    PROVE  Total(f, S) = Total(f, R)
<1>1. ASSUME NEW u \in Units(f, S)
      PROVE  u \in Units(f, R)
  <2>1. u = <<u[1], u[2]>> /\ u[1] \in S /\ u[2] \in 1..f[u[1]]
    BY UnitsElements
  <2>2. u[1] \in R
    <3> SUFFICES ASSUME u[1] \notin R
                 PROVE  FALSE
      OBVIOUS
    <3>1. u[2] \in 1..0
      BY <2>1
    <3> QED
      BY <3>1
  <2> QED
    BY <2>1, <2>2, UnitsElements
<1>2. ASSUME NEW u \in Units(f, R)
      PROVE  u \in Units(f, S)
  <2>1. u = <<u[1], u[2]>> /\ u[1] \in R /\ u[2] \in 1..f[u[1]]
    BY UnitsElements
  <2> QED
    BY <2>1, UnitsElements
<1>3. Units(f, S) = Units(f, R)
  BY <1>1, <1>2
<1> QED
  BY <1>3 DEF Total

\* A further member adds what it has.
LEMMA TotalAnother ==
    ASSUME NEW S, IsFiniteSet(S), NEW x, x \notin S, NEW f,
           \A y \in S \cup {x} : f[y] \in Nat
    PROVE  Total(f, S \cup {x}) = Total(f, S) + f[x]
<1> DEFINE T == S \cup {x}
           old == [y \in T |-> IF y = x THEN 0 ELSE f[y]]
           one == [y \in T |-> IF y = x THEN f[x] ELSE 0]
<1>1. IsFiniteSet(T)
  BY FS_AddElement
<1>2. /\ \A y \in T : old[y] \in Nat /\ one[y] \in Nat /\ f[y] = old[y] + one[y]
      /\ one[x] = f[x] /\ old[x] = 0
      /\ \A y \in S : old[y] = f[y]
      /\ \A y \in T \ {x} : one[y] = 0
      /\ x \in T /\ S \in SUBSET T /\ \A y \in T \ S : y = x
  OBVIOUS
<1> HIDE DEF T, old, one
<1>3. Total(f, T) = Total(old, T) + Total(one, T)
  BY <1>1, <1>2, TotalPlus
<1>4. Total(one, T) = f[x]
  BY <1>2, TotalOne
<1>5. Total(old, T) = Total(old, S)
  BY <1>2, TotalOfPart
<1>6. Total(old, S) = Total(f, S)
  BY <1>2, TotalSame
<1> QED
  BY <1>3, <1>4, <1>5, <1>6 DEF T

\* What is left of an amount for member n, after those before it took theirs.
Greedy(b, ns, amount, share) ==
    \A n \in ns :
        /\ b[n] \in Nat
        /\ LET left == amount - Total(b, {m \in ns : m < n})
           IN  share[n] = IF left <= 0 THEN 0 ELSE IF left < b[n] THEN left ELSE b[n]

LEMMA GreedyShares ==
    ASSUME NEW N \in Nat, NEW ns \in SUBSET (1..N), NEW b, NEW amount \in Nat, NEW share,
           Greedy(b, ns, amount, share)
    PROVE  \A n \in ns : share[n] \in Nat /\ share[n] <= b[n]
<1> TAKE n \in ns
<1> DEFINE before == {m \in ns : m < n}
<1>1. IsFiniteSet(ns)
  BY RankIsNat
<1>2. before \in SUBSET ns
  OBVIOUS
<1>3. IsFiniteSet(before)
  BY <1>1, <1>2, FS_Subset
<1>4. \A m \in before : b[m] \in Nat
  BY DEF Greedy
<1>5. Total(b, before) \in Nat
  BY <1>3, <1>4, TotalIsNat
<1>6. PICK left : left = amount - Total(b, before)
  OBVIOUS
<1>7. share[n] = (IF left <= 0 THEN 0 ELSE IF left < b[n] THEN left ELSE b[n]) /\ b[n] \in Nat
  BY <1>6 DEF Greedy
<1>8. left \in Int
  BY <1>5, <1>6
<1> QED
  BY <1>7, <1>8

\* The members up to k take all of an amount, or all they need.
TakenUpTo(b, ns, amount, share, k) ==
    LET first == {m \in ns : m <= k}
    IN  Total(share, first) = IF amount <= Total(b, first) THEN amount ELSE Total(b, first)

\* So do shares that are taken one after the other.
LEMMA GreedyUpTo ==
    ASSUME NEW N \in Nat, NEW ns \in SUBSET (1..N), NEW b, NEW amount \in Nat, NEW share,
           Greedy(b, ns, amount, share),
           NEW j \in Nat
    PROVE  TakenUpTo(b, ns, amount, share, j)
<1> DEFINE upTo(k) == {m \in ns : m <= k}
           Holds(k) == Total(share, upTo(k)) =
                           IF amount <= Total(b, upTo(k)) THEN amount ELSE Total(b, upTo(k))
           T == {k \in Nat : ~Holds(k)}
<1> SUFFICES T = {}
  BY DEF TakenUpTo
<1>1. IsFiniteSet(ns) /\ \A n \in ns : n \in Nat /\ b[n] \in Nat /\ share[n] \in Nat
  <2>1. IsFiniteSet(ns)
    BY RankIsNat
  <2>2. \A n \in ns : share[n] \in Nat
    BY GreedyShares
  <2>3. \A n \in ns : b[n] \in Nat
    BY DEF Greedy
  <2>4. \A n \in ns : n \in Nat
    OBVIOUS
  <2> QED
    BY <2>1, <2>2, <2>3, <2>4
<1>2. \A k : IsFiniteSet(upTo(k)) /\ Total(b, upTo(k)) \in Nat /\ Total(share, upTo(k)) \in Nat
  <2> TAKE k
  <2>1. upTo(k) \in SUBSET ns
    OBVIOUS
  <2>2. IsFiniteSet(upTo(k))
    BY <1>1, <2>1, FS_Subset
  <2> HIDE DEF upTo
  <2>3. \A n \in upTo(k) : b[n] \in Nat /\ share[n] \in Nat
    BY <1>1, <2>1
  <2> QED
    BY <2>2, <2>3, TotalIsNat
<1>3. Holds(0)
  <2>1. upTo(0) = {}
    <3>1. \A m \in ns : ~(m <= 0)
      OBVIOUS
    <3> QED
      BY <3>1
  <2>2. Total(b, {}) = 0 /\ Total(share, {}) = 0
    BY TotalZero
  <2>3. Total(b, upTo(0)) = 0 /\ Total(share, upTo(0)) = 0
    BY <2>1, <2>2
  <2> HIDE DEF upTo
  <2> QED
    BY <2>3
<1>4. ASSUME NEW k \in Nat, Holds(k)
      PROVE  Holds(k + 1)
  <2>1. upTo(k + 1) = IF k + 1 \in ns THEN upTo(k) \cup {k + 1} ELSE upTo(k)
    <3>1. \A m \in ns : m \in Nat /\ (m <= k + 1 <=> m <= k \/ m = k + 1)
      OBVIOUS
    <3>2. k + 1 <= k + 1
      OBVIOUS
    <3> QED
      BY <3>1, <3>2
  <2>2. CASE k + 1 \in ns
    <3>1. upTo(k) = {m \in ns : m < k + 1}
      <4>1. \A m \in ns : m <= k <=> m < k + 1
        BY <1>1
      <4> QED
        BY <4>1
    <3>2. k + 1 \notin upTo(k) /\ upTo(k) \in SUBSET ns
      OBVIOUS
    <3>3. upTo(k + 1) = upTo(k) \cup {k + 1}
      BY <2>1, <2>2
    <3>4. PICK before : before = upTo(k)
      OBVIOUS
    <3>5. PICK left : left = amount - Total(b, before)
      OBVIOUS
    <3>6. share[k + 1] = (IF left <= 0 THEN 0 ELSE IF left < b[k + 1] THEN left ELSE b[k + 1])
      BY <2>2, <3>1, <3>4, <3>5 DEF Greedy
    <3> HIDE DEF upTo
    <3>7. /\ IsFiniteSet(before) /\ k + 1 \notin before
          /\ \A y \in before \cup {k + 1} : b[y] \in Nat /\ share[y] \in Nat
      BY <1>1, <1>2, <2>2, <3>2, <3>4
    <3>8. /\ Total(b, before \cup {k + 1}) = Total(b, before) + b[k + 1]
          /\ Total(share, before \cup {k + 1}) = Total(share, before) + share[k + 1]
      BY <3>7, TotalAnother
    <3>9. Total(b, before) \in Nat /\ b[k + 1] \in Nat
      BY <1>1, <1>2, <2>2, <3>4
    <3>10. Total(share, before) = IF amount <= Total(b, before) THEN amount ELSE Total(b, before)
      BY <1>4, <3>4
    <3>11. PICK B \in Nat, c \in Nat :
              B = Total(b, before) /\ c = b[k + 1]
      BY <3>9
    <3>12. Total(share, before) + share[k + 1] = IF amount <= B + c THEN amount ELSE B + c
      BY ONLY <3>5, <3>6, <3>10, <3>11, amount \in Nat
    <3> QED
      BY <3>3, <3>4, <3>8, <3>11, <3>12
  <2>3. CASE k + 1 \notin ns
    BY <1>4, <2>1, <2>3
  <2> QED
    BY <2>2, <2>3
<1> HIDE DEF Holds
<1> SUFFICES ASSUME T # {}
             PROVE  FALSE
  OBVIOUS
<1>5. PICK k \in T : \A i \in T : k <= i
  BY LeastNumber
<1>6. k \in Nat /\ k # 0
  BY <1>3
<1>7. k - 1 \in Nat /\ Holds(k - 1)
  BY <1>5, <1>6
<1>8. Holds((k - 1) + 1)
  BY <1>4, <1>7
<1>9. (k - 1) + 1 = k
  BY <1>6
<1> QED
  BY <1>8, <1>9

\* An amount that the members need is spread over them to the last unit.
LEMMA GreedyAddsUp ==
    ASSUME NEW N \in Nat, NEW ns \in SUBSET (1..N), NEW b, NEW amount \in Nat, NEW share,
           Greedy(b, ns, amount, share), amount <= Total(b, ns)
    PROVE  Total(share, ns) = amount
<1>1. ns = {m \in ns : m <= N}
  <2>1. \A m \in ns : m <= N
    OBVIOUS
  <2> QED
    BY <2>1
<1>2. TakenUpTo(b, ns, amount, share, N)
  BY GreedyUpTo
<1> QED
  BY <1>1, <1>2 DEF TakenUpTo

-----------------------------------------------------------------------------
\* The instants after the start, up to one, at which a month or half of it ends.
Ends(s, now) == {t \in 1..now : t > s.start /\ IsAnchor(s.unit, t)}

LEMMA EndsUpTo ==
    ASSUME NEW s \in Schedules, NEW t \in Nat, NEW now \in Nat, t <= now
    PROVE  Ends(s, t) = {u \in Ends(s, now) : u <= t}
<1>1. \A u : u \in 1..t <=> u \in 1..now /\ u <= t
  OBVIOUS
<1> QED
  BY <1>1 DEF Ends

LEMMA EndsCounted ==
    ASSUME NEW s \in Schedules, NEW now \in Nat
    PROVE  /\ Cardinality(Ends(s, now)) \in Nat /\ Cardinality(Ends(s, now)) <= now
           /\ Ends(s, now) \in SUBSET (1..now)
<1>1. Ends(s, now) \in SUBSET (1..now)
  BY DEF Ends
<1>2. IsFiniteSet(1..now) /\ Cardinality(1..now) = now
  BY FS_Interval
<1> QED
  BY <1>1, <1>2, FS_Subset, FS_CardinalityType

\* Whole intervals in a span of time.
LEMMA WholeIntervals ==
    ASSUME NEW span \in Nat, NEW every \in Nat \ {0}
    PROVE  span \div every \in Nat /\ span \div every <= span
           /\ (span \div every) * every <= span
OBVIOUS

LEMMA ExpectedIsNat ==
    ASSUME NEW s \in Schedules, NEW now \in Nat
    PROVE  ExpectedPeriods(s, now) \in Nat /\ ExpectedPeriods(s, now) <= now
<1>1. s.start \in Nat /\ s.every \in Nat \ {0}
  BY FixedExpensesAssumption
<1>2. CASE s.unit = "legacy"
  <2>1. CASE now > s.start
    <3>1. now - s.start \in Nat
      BY <1>1, <2>1
    <3>2. PICK span \in Nat : span = now - s.start
      BY <3>1
    <3>3. span \div s.every \in Nat /\ span \div s.every <= span
      BY <1>1, WholeIntervals
    <3>4. ExpectedPeriods(s, now) = span \div s.every
      BY <1>2, <2>1, <3>2 DEF ExpectedPeriods
    <3>5. span <= now
      BY <1>1, <3>2
    <3> QED
      BY <3>3, <3>4, <3>5
  <2>2. CASE ~(now > s.start)
    BY <1>2, <2>2 DEF ExpectedPeriods
  <2> QED
    BY <2>1, <2>2
<1>3. CASE s.unit # "legacy"
  <2>1. ExpectedPeriods(s, now) = Cardinality(Ends(s, now))
    BY <1>3 DEF ExpectedPeriods, Ends
  <2> QED
    BY <2>1, EndsCounted
<1> QED
  BY <1>2, <1>3

\* A period that is expected by an instant fell due at it, or before.
LEMMA DueInTime ==
    ASSUME NEW s \in Schedules, NEW now \in Nat, now <= Horizon,
           NEW n \in Nat \ {0}, n <= ExpectedPeriods(s, now)
    PROVE  DueAt(s, n) \in Nat /\ DueAt(s, n) <= now
<1>1. s.start \in Nat /\ s.every \in Nat \ {0} /\ Horizon \in Nat
  BY FixedExpensesAssumption
<1>2. CASE s.unit = "legacy"
  <2>1. now > s.start
    BY <1>2 DEF ExpectedPeriods
  <2>2. PICK span \in Nat : span = now - s.start
    BY <1>1, <2>1
  <2>3. n <= span \div s.every
    BY <1>2, <2>1, <2>2 DEF ExpectedPeriods
  <2>4. PICK q \in Nat, e \in Nat \ {0} : q = span \div s.every /\ e = s.every
    BY <1>1, WholeIntervals
  <2>5. q * e <= span
    BY <1>1, <2>4, WholeIntervals
  <2>6. n * e \in Nat /\ n * e <= q * e
    BY <2>3, <2>4
  <2>7. q * e \in Nat
    BY <2>4
  <2>8. n * e <= span
    BY <2>5, <2>6, <2>7
  <2>9. DueAt(s, n) = s.start + n * e
    BY <1>2, <2>4 DEF DueAt
  <2> QED
    BY <1>1, <2>2, <2>6, <2>8, <2>9
<1>3. CASE s.unit # "legacy"
  <2> DEFINE E == Ends(s, Horizon)
             Falls(t) == /\ t > s.start /\ IsAnchor(s.unit, t)
                         /\ Cardinality({u \in 1..t : u > s.start /\ IsAnchor(s.unit, u)}) = n
  <2>1. E \in SUBSET Numbers /\ Ends(s, now) \in SUBSET (1..now)
    BY EndsCounted, <1>1 DEF Numbers
  <2>2. n \in 1..Cardinality(Ends(s, now))
    <3>1. ExpectedPeriods(s, now) = Cardinality(Ends(s, now))
      BY <1>3 DEF ExpectedPeriods, Ends
    <3> QED
      BY <3>1, EndsCounted
  <2>3. PICK t \in Ends(s, now) : Rank(Ends(s, now), t) = n
    BY <2>1, <2>2, RankExists
  <2>4. t \in Nat /\ t <= now /\ t \in Numbers
    BY <1>1, <2>1, <2>3 DEF Numbers
  <2>5. \A u \in Numbers : Falls(u) <=> u \in E /\ Rank(E, u) = n
    <3> TAKE u \in Numbers
    <3>1. u \in Nat /\ u <= Horizon
      BY <1>1 DEF Numbers
    <3>2. Ends(s, u) = {v \in E : v <= u}
      BY <1>1, <3>1, EndsUpTo
    <3>3. Cardinality(Ends(s, u)) = Rank(E, u)
      BY <3>2 DEF Rank
    <3>4. u \in E <=> u > s.start /\ IsAnchor(s.unit, u)
      BY DEF Ends, Numbers
    <3> QED
      BY <3>3, <3>4 DEF Ends
  <2>6. t \in E /\ Rank(E, t) = n
    <3>1. t \in E
      BY <2>3, <2>4 DEF Ends, Numbers
    <3>2. Ends(s, t) = {u \in E : u <= t} /\ Ends(s, t) = {u \in Ends(s, now) : u <= t}
      BY <1>1, <2>4, EndsUpTo
    <3> QED
      BY <2>3, <3>1, <3>2 DEF Rank
  <2>7. DueAt(s, n) = CHOOSE u \in Numbers : Falls(u)
    BY <1>3 DEF DueAt
  <2> HIDE DEF E, Falls
  <2>8. Falls(t)
    BY <2>4, <2>5, <2>6
  <2>9. DueAt(s, n) \in Numbers /\ Falls(DueAt(s, n))
    BY <2>4, <2>7, <2>8
  <2>10. DueAt(s, n) \in E /\ Rank(E, DueAt(s, n)) = n
    BY <2>5, <2>9
  <2>11. E \in SUBSET (1..Horizon)
    BY <2>1 DEF Numbers
  <2>12. DueAt(s, n) = t
    BY <1>1, <2>6, <2>10, <2>11, RankUnique
  <2> QED
    BY <2>4, <2>12
<1> QED
  BY <1>2, <1>3

-----------------------------------------------------------------------------
\* What a synchronisation knows: an amount, periods that were due when it
\* began, and that those it read or passed exist.
SyncKnows(s) ==
    LET c == sync[s] IN
    /\ c.step # "idle" => c.amount > 0
    /\ c.next >= 1 /\ c.expected <= Horizon
    /\ \A n \in Numbers : n <= c.expected =>
          DueAt(c.schedule, n) \in Nat /\ DueAt(c.schedule, n) <= clock
    /\ \A n \in Numbers : n < c.next \/ n \in c.existing => FellDue(n)

SyncsKnow == \A s \in Syncs : SyncKnows(s)

\* A cashier marks a period that exists.
MarksKnown ==
    \A c \in Cashiers : marking[c] # NotMarking =>
        marking[c].number \in Numbers /\ FellDue(marking[c].number)

PeriodsKnown == \A n \in Numbers : ~FellDue(n) => period[n] = NotDue

FixedInv ==
    /\ FixedTypeOK /\ clock <= Horizon /\ fixed.amount > 0
    /\ SyncsKnow /\ MarksKnown /\ PeriodsKnown
    /\ PeriodsWithoutGaps /\ PaymentsAddUp

LEMMA FixedStart == FixedInit => FixedInv
<1> SUFFICES ASSUME FixedInit
             PROVE  FixedInv
  OBVIOUS
<1> USE FixedExpensesAssumption
<1>1. /\ clock = 0 /\ fixed \in [schedule : Schedules, amount : Charges, archived : {FALSE}]
      /\ period = [n \in Numbers |-> NotDue]
      /\ alerts = [n \in Numbers |-> 0]
      /\ sync = [s \in Syncs |-> SyncIdle]
      /\ cooling = FALSE
      /\ outlay = [o \in Outlays |-> NoOutlay]
      /\ funds = Funds
      /\ marking = [c \in Cashiers |-> NotMarking]
      /\ changes = 0
  BY DEF FixedInit
<1>2. fixed.schedule \in Schedules /\ fixed.amount \in Nat /\ fixed.amount > 0
      /\ fixed \in [schedule : Schedules, amount : Nat, archived : BOOLEAN]
  <2>1. fixed.schedule \in Schedules /\ fixed.amount \in Charges /\ fixed.archived \in {FALSE}
        /\ fixed = [schedule |-> fixed.schedule, amount |-> fixed.amount,
                    archived |-> fixed.archived]
    BY <1>1
  <2>2. fixed.amount \in Nat /\ fixed.amount > 0
    BY <2>1
  <2> QED
    BY <2>1, <2>2
<1>3. SyncIdle \in Sync
  BY <1>2 DEF SyncIdle, Sync
<1>4. NotDue \in PeriodRow /\ NoOutlay \in OutlayRow
  BY DEF NotDue, PeriodRow, NoOutlay, OutlayRow
<1>5. NotMarking \in [number : Numbers \cup {NoPeriod}, amount : Nat]
  BY DEF NotMarking
<1>6. FixedTypeOK
  BY <1>1, <1>2, <1>3, <1>4, <1>5 DEF FixedTypeOK
<1>7. SyncsKnow
  <2> SUFFICES ASSUME NEW s \in Syncs
               PROVE  SyncKnows(s)
    BY DEF SyncsKnow
  <2>1. sync[s] = SyncIdle
    BY <1>1
  <2>2. /\ sync[s].step = "idle" /\ sync[s].next = 1 /\ sync[s].expected = 0
        /\ sync[s].existing = {}
    BY <2>1 DEF SyncIdle
  <2>3. \A n \in Numbers : n \in Nat /\ n >= 1
    BY DEF Numbers
  <2> QED
    BY <2>2, <2>3 DEF SyncKnows
<1>8. MarksKnown /\ PeriodsKnown /\ PeriodsWithoutGaps
  BY <1>1 DEF MarksKnown, PeriodsKnown, PeriodsWithoutGaps, FellDue, NotDue
<1>9. PaymentsAddUp
  <2>1. \A n \in Numbers : PaidBy(n) = 0
    <3> TAKE n \in Numbers
    <3>1. \A o \in Outlays : PaidOn(n)[o] = 0
      BY <1>1 DEF PaidOn, NoOutlay
    <3> QED
      BY <3>1, TotalZero DEF PaidBy
  <2>2. OutOfPocket = 0
    <3>1. \A o \in Outlays : Standing[o] = 0
      BY <1>1 DEF Standing, NoOutlay
    <3> QED
      BY <3>1, TotalZero DEF OutOfPocket
  <2>3. \A n \in Numbers : period[n].paid = 0 /\ period[n].amount = 0 /\ ~FellDue(n)
    BY <1>1 DEF NotDue, FellDue
  <2> QED
    BY <1>1, <2>1, <2>2, <2>3 DEF PaymentsAddUp
<1> QED
  BY <1>1, <1>2, <1>6, <1>7, <1>8, <1>9 DEF FixedInv

\* Steps that touch neither the periods nor the money.
LEMMA QuietKeeps ==
    ASSUME FixedInv, FixedTypeOK', clock' <= Horizon, fixed'.amount > 0,
           clock <= clock', period' = period, alerts' = alerts, outlay' = outlay, funds' = funds,
           SyncsKnow', MarksKnown'
    PROVE  FixedInv'
<1>1. PeriodsKnown'
  BY DEF FixedInv, PeriodsKnown, FellDue
<1>2. PeriodsWithoutGaps'
  <2>1. \A n \in Numbers : period[n].due \in Nat
    BY DEF FixedInv, FixedTypeOK, PeriodRow
  <2>2. clock \in Nat /\ clock' \in Nat
    BY DEF FixedInv, FixedTypeOK
  <2> QED
    BY <2>1, <2>2 DEF FixedInv, PeriodsWithoutGaps, FellDue
<1>3. PaymentsAddUp'
  BY DEF FixedInv, PaymentsAddUp, PaidBy, PaidOn, OutOfPocket, Standing, FellDue, Balance
<1> QED
  BY <1>1, <1>2, <1>3 DEF FixedInv

\* A synchronisation that does not run knows nothing that could be wrong.
LEMMA IdleKnows ==
    ASSUME NEW s \in Syncs, sync'[s] = SyncIdle
    PROVE  SyncKnows(s)'
<1>1. /\ sync'[s].step = "idle" /\ sync'[s].next = 1 /\ sync'[s].expected = 0
      /\ sync'[s].existing = {}
  BY DEF SyncIdle
<1>2. \A n \in Numbers : n \in Nat /\ n >= 1
  BY FixedExpensesAssumption DEF Numbers
<1>3. Horizon \in Nat
  BY FixedExpensesAssumption
<1> QED
  BY <1>1, <1>2, <1>3 DEF SyncKnows

\* Nor does what a synchronisation knows change while periods only appear.
LEMMA StillKnows ==
    ASSUME FixedInv, NEW s \in Syncs, sync'[s] = sync[s], clock' \in Nat, clock <= clock',
           \A n \in Numbers : FellDue(n) => FellDue(n)'
    PROVE  SyncKnows(s)'
<1>1. SyncKnows(s) /\ clock \in Nat
  BY DEF FixedInv, SyncsKnow, FixedTypeOK
<1> QED
  BY <1>1 DEF SyncKnows

LEMMA SyncIdleTyped ==
    ASSUME FixedInv
    PROVE  SyncIdle \in Sync
<1>1. fixed.schedule \in Schedules
  BY DEF FixedInv, FixedTypeOK
<1> QED
  BY <1>1 DEF SyncIdle, Sync

LEMMA NumbersAreNat == Horizon \in Nat /\ Numbers \in SUBSET (1..Horizon)
                       /\ \A n \in Numbers : n \in Nat /\ n >= 1 /\ n <= Horizon
BY FixedExpensesAssumption DEF Numbers

-----------------------------------------------------------------------------
LEMMA BeginSyncKeeps ==
    ASSUME FixedInv, NEW s \in Syncs, NEW force, BeginSync(s, force)
    PROVE  FixedInv'
<1> DEFINE E == ExpectedPeriods(fixed.schedule, clock)
<1>1. /\ clock \in Nat /\ clock <= Horizon /\ fixed.schedule \in Schedules
      /\ fixed.amount \in Nat /\ fixed.amount > 0 /\ sync \in [Syncs -> Sync]
  BY DEF FixedInv, FixedTypeOK
<1>2. PICK c : c = [SyncIdle EXCEPT !.step = "read", !.schedule = fixed.schedule,
                                    !.amount = fixed.amount, !.expected = E]
  OBVIOUS
<1>3. /\ cooling' = TRUE /\ sync' = [sync EXCEPT ![s] = c]
      /\ UNCHANGED <<clock, fixed, period, alerts, outlay, funds, marking, changes>>
  BY <1>2 DEF BeginSync
<1>4. E \in Nat /\ E <= clock
  BY <1>1, ExpectedIsNat
<1>5. c \in Sync /\ c.step = "read" /\ c.schedule = fixed.schedule /\ c.amount = fixed.amount
      /\ c.expected = E /\ c.existing = {} /\ c.next = 1
  <2> HIDE DEF E
  <2> QED
    BY <1>1, <1>2, <1>4 DEF SyncIdle, Sync
<1>6. \A n \in Numbers : n <= E => DueAt(fixed.schedule, n) \in Nat
                                   /\ DueAt(fixed.schedule, n) <= clock
  <2> SUFFICES ASSUME NEW n \in Numbers, n <= E
               PROVE  DueAt(fixed.schedule, n) \in Nat /\ DueAt(fixed.schedule, n) <= clock
    OBVIOUS
  <2>1. n \in Nat \ {0}
    BY NumbersAreNat
  <2> QED
    BY <1>1, <2>1, DueInTime
<1> HIDE DEF E
<1>7. FixedTypeOK'
  BY <1>3, <1>5 DEF FixedInv, FixedTypeOK
<1>8. SyncsKnow'
  <2> SUFFICES ASSUME NEW r \in Syncs
               PROVE  SyncKnows(r)'
    BY DEF SyncsKnow
  <2>1. CASE r = s
    <3>1. sync'[r] = c
      BY <1>1, <1>3, <2>1
    <3>2. \A n \in Numbers : ~(n < 1)
      BY NumbersAreNat
    <3>3. E <= Horizon
      BY <1>1, <1>4, NumbersAreNat
    <3> QED
      BY <1>1, <1>3, <1>5, <1>6, <3>1, <3>2, <3>3 DEF SyncKnows
  <2>2. CASE r # s
    <3>1. sync'[r] = sync[r]
      BY <1>1, <1>3, <2>2
    <3> QED
      BY <1>1, <1>3, <3>1, StillKnows DEF FellDue
  <2> QED
    BY <2>1, <2>2
<1>9. MarksKnown'
  BY <1>3 DEF FixedInv, MarksKnown, FellDue
<1> QED
  BY <1>1, <1>3, <1>7, <1>8, <1>9, QuietKeeps

LEMMA ReadExistingKeeps ==
    ASSUME FixedInv, NEW s \in Syncs, ReadExisting(s)
    PROVE  FixedInv'
<1>1. /\ clock \in Nat /\ clock <= Horizon /\ fixed.amount > 0
      /\ sync \in [Syncs -> Sync] /\ SyncKnows(s)
  BY DEF FixedInv, FixedTypeOK, SyncsKnow
<1>2. /\ sync' = [sync EXCEPT ![s] = [sync[s] EXCEPT !.step = "insert",
                                                     !.existing = {n \in Numbers : FellDue(n)}]]
      /\ sync[s].step = "read"
      /\ UNCHANGED <<clock, fixed, period, alerts, cooling, outlay, funds, marking, changes>>
  BY <1>1 DEF ReadExisting, Sync
<1>3. PICK c : c = [sync[s] EXCEPT !.step = "insert", !.existing = {n \in Numbers : FellDue(n)}]
  OBVIOUS
<1>4. c \in Sync /\ c.step = "insert" /\ c.schedule = sync[s].schedule /\ c.amount = sync[s].amount
      /\ c.expected = sync[s].expected /\ c.next = sync[s].next
      /\ c.existing = {n \in Numbers : FellDue(n)}
  BY <1>1, <1>3 DEF Sync
<1>5. FixedTypeOK'
  BY <1>2, <1>3, <1>4 DEF FixedInv, FixedTypeOK
<1>6. SyncsKnow'
  <2> SUFFICES ASSUME NEW r \in Syncs
               PROVE  SyncKnows(r)'
    BY DEF SyncsKnow
  <2>1. CASE r = s
    <3>1. sync'[r] = c
      BY <1>1, <1>2, <1>3, <2>1
    <3>2. /\ c.amount > 0 /\ c.next >= 1 /\ c.expected <= Horizon
          /\ \A n \in Numbers : n <= c.expected =>
                DueAt(c.schedule, n) \in Nat /\ DueAt(c.schedule, n) <= clock
          /\ \A n \in Numbers : n < c.next => FellDue(n)
      BY <1>1, <1>2, <1>4 DEF SyncKnows
    <3>3. \A n \in c.existing : FellDue(n)
      BY <1>4
    <3>4. \A n \in Numbers : FellDue(n) => FellDue(n)'
      BY <1>2 DEF FellDue
    <3>5. \A n \in Numbers : n < c.next \/ n \in c.existing => FellDue(n)'
      BY <3>2, <3>3, <3>4
    <3>6. clock' = clock
      BY <1>2
    <3> QED
      BY <3>1, <3>2, <3>5, <3>6 DEF SyncKnows
  <2>2. CASE r # s
    <3>1. sync'[r] = sync[r]
      BY <1>1, <1>2, <2>2
    <3>2. clock' \in Nat /\ clock <= clock' /\ \A n \in Numbers : FellDue(n) => FellDue(n)'
      BY <1>1, <1>2 DEF FellDue
    <3> QED
      BY <3>1, <3>2, StillKnows
  <2> QED
    BY <2>1, <2>2
<1>7. MarksKnown'
  BY <1>2 DEF FixedInv, MarksKnown, FellDue
<1> QED
  BY <1>1, <1>2, <1>5, <1>6, <1>7, QuietKeeps

\* A synchronisation ends, fails, or is gone with the process.
LEMMA SyncsStopKeeps ==
    ASSUME FixedInv, FixedTypeOK',
           \A s \in Syncs : sync'[s] = sync[s] \/ sync'[s] = SyncIdle,
           clock' <= Horizon, clock <= clock', fixed'.amount > 0,
           UNCHANGED <<period, alerts, outlay, funds>>, MarksKnown'
    PROVE  FixedInv'
<1>1. SyncsKnow'
  <2> SUFFICES ASSUME NEW r \in Syncs
               PROVE  SyncKnows(r)'
    BY DEF SyncsKnow
  <2>1. CASE sync'[r] = sync[r]
    <3>1. clock' \in Nat /\ \A n \in Numbers : FellDue(n) => FellDue(n)'
      BY DEF FixedTypeOK, FellDue
    <3> QED
      BY <2>1, <3>1, StillKnows
  <2>2. CASE sync'[r] = SyncIdle
    BY <2>2, IdleKnows
  <2> QED
    BY <2>1, <2>2
<1> QED
  BY <1>1, QuietKeeps

LEMMA InsertPeriodKeeps ==
    ASSUME FixedInv, NEW s \in Syncs, InsertPeriod(s)
    PROVE  FixedInv'
<1>1. /\ FixedTypeOK /\ clock \in Nat /\ clock <= Horizon /\ fixed.amount > 0
      /\ sync \in [Syncs -> Sync] /\ sync[s] \in Sync /\ SyncKnows(s)
      /\ period \in [Numbers -> PeriodRow] /\ alerts \in [Numbers -> Nat]
  BY DEF FixedInv, FixedTypeOK, SyncsKnow
<1>2. PICK c, n : c \in Sync /\ c = sync[s] /\ n = c.next
  BY <1>1
<1>3. /\ c.step = "insert" /\ n \in Nat /\ n >= 1 /\ n <= c.expected /\ c.expected <= Horizon
      /\ c.amount \in Nat /\ c.amount > 0 /\ c.expected \in Nat
      /\ c.existing \in SUBSET Numbers
  BY <1>1, <1>2 DEF InsertPeriod, SyncKnows, Sync
<1>4. n \in Numbers
  BY <1>3, NumbersAreNat DEF Numbers
<1>5. PICK due : due = DueAt(c.schedule, n)
  OBVIOUS
<1>6. due \in Nat /\ due <= clock
  BY <1>1, <1>2, <1>3, <1>4, <1>5 DEF SyncKnows
<1>7. PICK row : row = [status |-> "PENDING", amount |-> c.amount, paid |-> 0, due |-> due]
  OBVIOUS
<1>8. row \in PeriodRow /\ row.status = "PENDING" /\ row.paid = 0 /\ row.amount = c.amount
      /\ row.due = due
  BY <1>3, <1>6, <1>7 DEF PeriodRow
<1>9. /\ sync' = [sync EXCEPT ![s].next = n + 1]
      /\ UNCHANGED <<clock, fixed, cooling, outlay, funds, marking, changes>>
  BY <1>2 DEF InsertPeriod
<1>10. n \in c.existing => FellDue(n)
  BY <1>1, <1>2, <1>4 DEF SyncKnows
<1>11. period' = IF FellDue(n) THEN period ELSE [period EXCEPT ![n] = row]
  BY <1>2, <1>5, <1>7, <1>10 DEF InsertPeriod, Skipped
<1>12. alerts' = IF FellDue(n) THEN alerts ELSE [alerts EXCEPT ![n] = @ + 1]
  BY <1>2, <1>10 DEF InsertPeriod, Skipped, Inserted
<1>13. /\ \A m \in Numbers \ {n} : period'[m] = period[m] /\ alerts'[m] = alerts[m]
       /\ FellDue(n) => period'[n] = period[n] /\ alerts'[n] = alerts[n]
       /\ ~FellDue(n) => period'[n] = row /\ alerts'[n] = alerts[n] + 1
       /\ period' \in [Numbers -> PeriodRow] /\ alerts' \in [Numbers -> Nat]
  BY <1>1, <1>4, <1>8, <1>11, <1>12
<1>14. /\ FellDue(n)'
       /\ \A m \in Numbers : FellDue(m) => FellDue(m)'
       /\ \A m \in Numbers \ {n} : FellDue(m)' => FellDue(m)
  BY <1>4, <1>8, <1>13 DEF FellDue
<1>15. sync'[s] = [c EXCEPT !.next = n + 1] /\ sync' \in [Syncs -> Sync]
       /\ \A r \in Syncs \ {s} : sync'[r] = sync[r]
  BY <1>1, <1>2, <1>3, <1>9 DEF Sync
<1>16. FixedTypeOK'
  BY <1>1, <1>9, <1>13, <1>15 DEF FixedTypeOK
<1>17. SyncsKnow'
  <2> SUFFICES ASSUME NEW r \in Syncs
               PROVE  SyncKnows(r)'
    BY DEF SyncsKnow
  <2>1. CASE r = s
    <3>1. PICK d : d = [c EXCEPT !.next = n + 1]
      OBVIOUS
    <3>2. /\ d.step = c.step /\ d.amount = c.amount /\ d.expected = c.expected
          /\ d.schedule = c.schedule /\ d.existing = c.existing /\ d.next = n + 1
      BY <3>1 DEF Sync
    <3>3. /\ d.amount > 0 /\ d.next >= 1 /\ d.expected <= Horizon
          /\ \A m \in Numbers : m <= d.expected =>
                DueAt(d.schedule, m) \in Nat /\ DueAt(d.schedule, m) <= clock
          /\ \A m \in Numbers : m < n \/ m \in d.existing => FellDue(m)
      BY <1>1, <1>2, <1>3, <3>2 DEF SyncKnows
    <3>4. \A m \in Numbers : m < d.next => m < n \/ m = n
      BY <1>3, <3>2, NumbersAreNat
    <3>5. \A m \in Numbers : m < d.next \/ m \in d.existing => FellDue(m)'
      BY <1>14, <3>3, <3>4
    <3>6. sync'[r] = d /\ clock' = clock
      BY <1>9, <1>15, <2>1, <3>1
    <3> QED
      BY <3>3, <3>5, <3>6 DEF SyncKnows
  <2>2. CASE r # s
    <3>1. sync'[r] = sync[r] /\ clock' \in Nat /\ clock <= clock'
      BY <1>1, <1>9, <1>15, <2>2
    <3> QED
      BY <1>14, <3>1, StillKnows
  <2> QED
    BY <2>1, <2>2
<1>18. MarksKnown'
  BY <1>9, <1>14 DEF FixedInv, MarksKnown
<1>19. PeriodsKnown'
  <2> SUFFICES ASSUME NEW m \in Numbers, ~FellDue(m)'
               PROVE  period'[m] = NotDue
    BY DEF PeriodsKnown
  <2>1. m # n /\ ~FellDue(m)
    BY <1>14
  <2> QED
    BY <1>13, <2>1 DEF FixedInv, PeriodsKnown
<1>20. PeriodsWithoutGaps'
  <2> SUFFICES ASSUME NEW m \in Numbers
               PROVE  /\ FellDue(m)' => /\ \A k \in 1..m : FellDue(k)'
                                        /\ period'[m].due <= clock'
                      /\ alerts'[m] = IF FellDue(m)' THEN 1 ELSE 0
    BY DEF PeriodsWithoutGaps
  <2>1. /\ FellDue(m) => (\A k \in 1..m : FellDue(k)) /\ period[m].due <= clock
        /\ alerts[m] = IF FellDue(m) THEN 1 ELSE 0
    BY DEF FixedInv, PeriodsWithoutGaps
  <2>2. \A k \in 1..m : k \in Numbers /\ (k < m \/ k = m)
    BY NumbersAreNat DEF Numbers
  <2>3. CASE FellDue(m)
    BY <1>9, <1>13, <1>14, <2>1, <2>2, <2>3
  <2>4. CASE ~FellDue(m) /\ m = n
    <3>1. \A k \in 1..m : FellDue(k)'
      <4>1. \A k \in Numbers : k < n => FellDue(k)
        BY <1>1, <1>2 DEF SyncKnows
      <4> QED
        BY <1>14, <2>2, <2>4, <4>1
    <3>2. period'[m].due <= clock' /\ alerts'[m] = 1
      BY <1>6, <1>8, <1>9, <1>13, <2>1, <2>4
    <3> QED
      BY <1>14, <2>4, <3>1, <3>2
  <2>5. CASE ~FellDue(m) /\ m # n
    BY <1>13, <1>14, <2>1, <2>5
  <2> QED
    BY <2>3, <2>4, <2>5
<1>21. PaymentsAddUp'
  <2>1. \A m \in Numbers : PaidBy(m)' = PaidBy(m)
    BY <1>9 DEF PaidBy, PaidOn
  <2>2. funds' = Funds - OutOfPocket'
    BY <1>9 DEF FixedInv, PaymentsAddUp, OutOfPocket, Standing
  <2>3. ASSUME NEW m \in Numbers
        PROVE  /\ period'[m].paid = PaidBy(m)' /\ period'[m].paid <= period'[m].amount
               /\ FellDue(m)' => (period'[m].status = "PAID") = (Balance(m)' = 0)
    <3>1. /\ period[m].paid = PaidBy(m) /\ period[m].paid <= period[m].amount
          /\ FellDue(m) => (period[m].status = "PAID") = (Balance(m) = 0)
      BY DEF FixedInv, PaymentsAddUp
    <3>2. CASE period'[m] = period[m]
      BY <2>1, <3>1, <3>2 DEF FellDue, Balance
    <3>3. CASE m = n /\ ~FellDue(n)
      <4>1. period[m].paid = 0
        BY <3>3 DEF FixedInv, PeriodsKnown, NotDue
      <4>2. period'[m] = row /\ PaidBy(m)' = 0
        BY <1>13, <2>1, <3>1, <3>3, <4>1
      <4> QED
        BY <1>3, <1>8, <4>2 DEF Balance
    <3> QED
      BY <1>13, <3>2, <3>3
  <2> QED
    BY <2>2, <2>3 DEF PaymentsAddUp
<1> QED
  BY <1>1, <1>9, <1>16, <1>17, <1>18, <1>19, <1>20, <1>21 DEF FixedInv

-----------------------------------------------------------------------------
\* A period that takes what it owes, or part of it.
LEMMA PayingTakes ==
    ASSUME FixedInv, NEW n \in Numbers, FellDue(n), NEW a \in Nat, a <= Balance(n)
    PROVE  LET row == Paying(n, a) IN
           /\ row \in PeriodRow /\ row.status # "none"
           /\ row.due = period[n].due /\ row.amount = period[n].amount
           /\ row.paid = period[n].paid + a /\ row.paid <= row.amount
           /\ (row.status = "PAID") = (row.amount - row.paid = 0)
<1>1. period[n] \in PeriodRow
  BY DEF FixedInv, FixedTypeOK
<1>2. PICK due \in Nat, amount \in Nat, paid \in Nat :
          due = period[n].due /\ amount = period[n].amount /\ paid = period[n].paid
  BY <1>1 DEF PeriodRow
<1>3. paid + a <= amount /\ paid + a \in Nat
  BY <1>2 DEF Balance
<1>4. PICK settled \in {"PAID", "PARTIALLY_PAID"} : settled = SettledAs(n, paid + a)
  BY DEF SettledAs
<1>5. (settled = "PAID") = (amount - (paid + a) = 0)
  BY <1>2, <1>3, <1>4 DEF SettledAs
<1>6. Paying(n, a) = [period[n] EXCEPT !.paid = paid + a, !.status = settled]
  BY <1>1, <1>2, <1>4 DEF Paying, PeriodRow
<1>7. PICK row : row = Paying(n, a)
  OBVIOUS
<1>8. row \in PeriodRow /\ row.status = settled /\ row.paid = paid + a
      /\ row.due = due /\ row.amount = amount
  BY <1>1, <1>2, <1>3, <1>6, <1>7 DEF PeriodRow
<1> QED
  BY <1>2, <1>3, <1>5, <1>7, <1>8

\* One transaction that pays periods: each gets its share and a row of its own.
Payment(paid, share, row) ==
    /\ paid \in SUBSET Numbers
    /\ \A n \in paid : /\ FellDue(n) /\ share[n] \in Nat /\ share[n] <= Balance(n)
                       /\ row[n] \in FreeOutlays
                       /\ \A m \in paid : row[m] = row[n] => m = n
    /\ period' = [n \in Numbers |-> IF n \in paid THEN Paying(n, share[n]) ELSE period[n]]
    /\ outlay' \in [Outlays -> OutlayRow]
    /\ \A n \in paid :
          outlay'[row[n]] = [number |-> n, amount |-> share[n], archived |-> FALSE]
    /\ \A o \in Outlays : (\A n \in paid : row[n] # o) => outlay'[o] = outlay[o]
    /\ funds' \in Nat /\ funds' = funds - Total(share, paid)
    /\ marking' = marking \/ \E c \in Cashiers : marking' = [marking EXCEPT ![c] = NotMarking]
    /\ UNCHANGED <<clock, fixed, alerts, sync, cooling, changes>>

LEMMA OutlaysAreFinite ==
    /\ IsFiniteSet(Outlays) /\ Outlays \in SUBSET (1..MaxOutlays) /\ MaxOutlays \in Nat
    /\ IsFiniteSet(Numbers)
BY FixedExpensesAssumption, FS_Interval DEF Outlays, Numbers

LEMMA OutlayAmounts ==
    ASSUME FixedTypeOK
    PROVE  /\ \A n : \A o \in Outlays : PaidOn(n)[o] \in Nat
           /\ \A o \in Outlays : Standing[o] \in Nat
BY DEF FixedTypeOK, OutlayRow, PaidOn, Standing

\* The rows written add up to what left the account.
LEMMA PaymentLeaves ==
    ASSUME FixedInv, NEW paid, NEW share, NEW row, Payment(paid, share, row)
    PROVE  OutOfPocket' = OutOfPocket + Total(share, paid)
<1> DEFINE old == Standing
           added == [o \in Outlays |-> IF \E n \in paid : row[n] = o
                                       THEN share[CHOOSE n \in paid : row[n] = o] ELSE 0]
           part == [o \in Outlays |-> [n \in paid |-> IF row[n] = o THEN share[n] ELSE 0]]
<1>1. /\ paid \in SUBSET Numbers /\ IsFiniteSet(paid)
      /\ \A n \in paid : /\ share[n] \in Nat /\ row[n] \in Outlays /\ outlay[row[n]] = NoOutlay
                         /\ \A m \in paid : row[m] = row[n] => m = n
                         /\ outlay'[row[n]] = [number |-> n, amount |-> share[n],
                                               archived |-> FALSE]
      /\ \A o \in Outlays : (\A n \in paid : row[n] # o) => outlay'[o] = outlay[o]
  <2>1. paid \in SUBSET Numbers
    BY DEF Payment
  <2>2. IsFiniteSet(paid)
    BY <2>1, OutlaysAreFinite, FS_Subset
  <2> QED
    BY <2>1, <2>2 DEF Payment, FreeOutlays
<1>2. \A n \in paid : added[row[n]] = share[n]
  <2> TAKE n \in paid
  <2>1. (CHOOSE m \in paid : row[m] = row[n]) = n
    BY <1>1
  <2> QED
    BY <1>1, <2>1
<1>3. \A o \in Outlays : (\A n \in paid : row[n] # o) => added[o] = 0
  OBVIOUS
<1>4. \A o \in Outlays : added[o] = Total(part[o], paid)
  <2> TAKE o \in Outlays
  <2>1. \A n \in paid : part[o][n] = IF row[n] = o THEN share[n] ELSE 0
    OBVIOUS
  <2>2. PICK f : f = part[o]
    OBVIOUS
  <2> HIDE DEF part, added
  <2>3. CASE \E n \in paid : row[n] = o
    <3>1. PICK n \in paid : row[n] = o
      BY <2>3
    <3>2. f[n] = share[n] /\ f[n] \in Nat /\ \A m \in paid \ {n} : f[m] = 0
      BY <1>1, <2>1, <2>2, <3>1
    <3>3. Total(f, paid) = f[n]
      BY <3>2, TotalOne
    <3> QED
      BY <1>2, <2>2, <3>1, <3>2, <3>3
  <2>4. CASE \A n \in paid : row[n] # o
    <3>1. \A m \in paid : f[m] = 0
      BY <2>1, <2>2, <2>4
    <3>2. Total(f, paid) = 0
      BY <3>1, TotalZero
    <3> QED
      BY <1>3, <2>2, <2>4, <3>2
  <2> QED
    BY <2>3, <2>4
<1>5. AddedByKey(share, paid, row, part, added, Outlays)
  <2>1. \A n \in paid : row[n] \in Outlays /\ share[n] \in Nat
    BY <1>1
  <2>2. \A o \in Outlays : \A n \in paid : part[o][n] = IF row[n] = o THEN share[n] ELSE 0
    OBVIOUS
  <2> HIDE DEF part, added
  <2> QED
    BY <1>4, <2>1, <2>2 DEF AddedByKey
<1> HIDE DEF part, added
<1>6. Total(added, Outlays) = Total(share, paid)
  BY <1>1, <1>5, TotalByKey
<1>7. \A o \in Outlays : old[o] \in Nat /\ added[o] \in Nat /\ Standing'[o] = old[o] + added[o]
  <2> TAKE o \in Outlays
  <2>1. old[o] \in Nat
    BY OutlayAmounts DEF FixedInv
  <2>2. Standing'[o] = IF outlay'[o].archived THEN 0 ELSE outlay'[o].amount
    BY DEF Standing
  <2>3. old[o] = IF outlay[o].archived THEN 0 ELSE outlay[o].amount
    BY DEF Standing
  <2> HIDE DEF old
  <2>4. CASE \E n \in paid : row[n] = o
    <3>1. PICK n \in paid : row[n] = o
      BY <2>4
    <3>2. added[o] = share[n] /\ share[n] \in Nat /\ outlay[o] = NoOutlay
          /\ outlay'[o] = [number |-> n, amount |-> share[n], archived |-> FALSE]
      BY <1>1, <1>2, <3>1
    <3>3. old[o] = 0
      BY <2>3, <3>2 DEF NoOutlay
    <3> QED
      BY <2>2, <3>2, <3>3
  <2>5. CASE \A n \in paid : row[n] # o
    <3>1. outlay'[o] = outlay[o] /\ added[o] = 0
      BY <1>1, <1>3, <2>5
    <3> QED
      BY <2>1, <2>2, <2>3, <3>1
  <2> QED
    BY <2>4, <2>5
<1>8. PICK new : new = Standing'
  OBVIOUS
<1>9. \A o \in Outlays : old[o] \in Nat /\ added[o] \in Nat /\ new[o] = old[o] + added[o]
  BY <1>7, <1>8
<1> HIDE DEF old
<1>10. Total(new, Outlays) = Total(old, Outlays) + Total(added, Outlays)
  BY <1>9, OutlaysAreFinite, TotalPlus
<1> QED
  BY <1>6, <1>8, <1>10 DEF OutOfPocket, old

\* What each period got is what the rows linked to it add up to.
LEMMA PaymentReaches ==
    ASSUME FixedInv, NEW paid, NEW share, NEW row, Payment(paid, share, row), NEW n \in Numbers
    PROVE  PaidBy(n)' = PaidBy(n) + (IF n \in paid THEN share[n] ELSE 0)
<1> DEFINE old == PaidOn(n)
<1>1. /\ \A m \in paid : /\ share[m] \in Nat /\ row[m] \in Outlays /\ outlay[row[m]] = NoOutlay
                         /\ \A k \in paid : row[k] = row[m] => k = m
                         /\ outlay'[row[m]] = [number |-> m, amount |-> share[m],
                                               archived |-> FALSE]
      /\ \A o \in Outlays : (\A m \in paid : row[m] # o) => outlay'[o] = outlay[o]
  BY DEF Payment, FreeOutlays
<1>2. PICK new : new = PaidOn(n)'
  OBVIOUS
<1>3. \A o \in Outlays :
          /\ new[o] = IF outlay'[o].number = n THEN outlay'[o].amount ELSE 0
          /\ old[o] = IF outlay[o].number = n THEN outlay[o].amount ELSE 0
          /\ old[o] \in Nat
  BY <1>2, OutlayAmounts DEF PaidOn, FixedInv
<1>4. PaidBy(n)' = Total(new, Outlays) /\ PaidBy(n) = Total(old, Outlays)
  BY <1>2 DEF PaidBy
<1>5. n # NoPeriod
  BY NumbersAreNat DEF NoPeriod
<1> HIDE DEF old
<1>6. \A m \in paid : old[row[m]] = 0 /\ new[row[m]] = IF m = n THEN share[m] ELSE 0
  <2> TAKE m \in paid
  <2>1. outlay[row[m]].number = NoPeriod /\ row[m] \in Outlays
    <3>1. outlay[row[m]] = NoOutlay /\ row[m] \in Outlays
      BY <1>1, Zenon
    <3> QED
      BY ONLY <3>1 DEF NoOutlay
  <2>2. outlay'[row[m]].number = m /\ outlay'[row[m]].amount = share[m]
    <3>1. outlay'[row[m]] = [number |-> m, amount |-> share[m], archived |-> FALSE]
      BY <1>1, Zenon
    <3> QED
      BY ONLY <3>1
  <2> QED
    BY <1>3, <1>5, <2>1, <2>2
<1>7. \A o \in Outlays : (\A m \in paid : row[m] # o) => new[o] = old[o]
  BY <1>1, <1>3
<1>8. CASE n \in paid
  <2>1. PICK r \in Outlays : r = row[n]
    BY <1>1, <1>8
  <2>2. old[r] = 0 /\ new[r] = share[n] /\ share[n] \in Nat
    BY <1>1, <1>6, <1>8, <2>1
  <2>3. \A o \in Outlays \ {r} : new[o] = old[o]
    <3> TAKE o \in Outlays \ {r}
    <3>1. CASE \E m \in paid : row[m] = o
      <4>1. PICK m \in paid : row[m] = o
        BY <3>1
      <4>2. m # n
        BY <2>1, <4>1
      <4> QED
        BY <1>6, <4>1, <4>2
    <3>2. CASE \A m \in paid : row[m] # o
      BY <1>7, <3>2
    <3> QED
      BY <3>1, <3>2
  <2>4. \A o \in Outlays : old[o] \in Nat /\ new[o] \in Nat
    BY <1>3, <2>2, <2>3
  <2>5. Total(new, Outlays) = Total(old, Outlays) - old[r] + new[r]
    <3>1. \A o \in Outlays \ {r} : old[o] = new[o]
      BY <2>3
    <3>2. r \in Outlays /\ IsFiniteSet(Outlays)
      BY OutlaysAreFinite
    <3> QED
      BY ONLY <2>4, <3>1, <3>2, TotalChange
  <2>6. Total(old, Outlays) \in Nat
    BY <2>4, OutlaysAreFinite, TotalIsNat
  <2> QED
    BY <1>4, <1>8, <2>2, <2>5, <2>6
<1>9. CASE n \notin paid
  <2>1. \A o \in Outlays : new[o] = old[o]
    <3> TAKE o \in Outlays
    <3>1. CASE \E m \in paid : row[m] = o
      BY <1>6, <1>9, <3>1
    <3>2. CASE \A m \in paid : row[m] # o
      BY <1>7, <3>2
    <3> QED
      BY <3>1, <3>2
  <2>2. Total(new, Outlays) = Total(old, Outlays)
    BY <2>1, TotalSame
  <2>3. Total(old, Outlays) \in Nat
    BY <1>3, OutlaysAreFinite, TotalIsNat
  <2> QED
    BY <1>4, <1>9, <2>2, <2>3
<1> QED
  BY <1>8, <1>9

LEMMA PaymentKeeps ==
    ASSUME FixedInv, NEW paid, NEW share, NEW row, Payment(paid, share, row)
    PROVE  FixedInv'
<1>1. /\ FixedTypeOK /\ clock \in Nat /\ clock <= Horizon /\ fixed.amount > 0
      /\ period \in [Numbers -> PeriodRow]
      /\ marking \in [Cashiers -> [number : Numbers \cup {NoPeriod}, amount : Nat]]
  BY DEF FixedInv, FixedTypeOK
<1>2. /\ paid \in SUBSET Numbers
      /\ \A n \in paid : FellDue(n) /\ share[n] \in Nat /\ share[n] <= Balance(n)
      /\ period' = [n \in Numbers |-> IF n \in paid THEN Paying(n, share[n]) ELSE period[n]]
      /\ outlay' \in [Outlays -> OutlayRow]
      /\ funds' \in Nat /\ funds' = funds - Total(share, paid)
      /\ marking' = marking \/ \E c \in Cashiers : marking' = [marking EXCEPT ![c] = NotMarking]
      /\ UNCHANGED <<clock, fixed, alerts, sync, cooling, changes>>
  BY DEF Payment
<1>3. ASSUME NEW n \in paid
      PROVE  /\ period'[n] \in PeriodRow /\ period'[n].status # "none"
             /\ period'[n].due = period[n].due /\ period'[n].amount = period[n].amount
             /\ period'[n].paid = period[n].paid + share[n]
             /\ period'[n].paid <= period'[n].amount
             /\ (period'[n].status = "PAID") = (period'[n].amount - period'[n].paid = 0)
  <2>1. period'[n] = Paying(n, share[n]) /\ n \in Numbers
    BY <1>2
  <2> QED
    BY <1>2, <2>1, PayingTakes
<1>4. \A n \in Numbers \ paid : period'[n] = period[n]
  BY <1>2
<1>5. \A n \in Numbers : (FellDue(n)' <=> FellDue(n)) /\ period'[n].due = period[n].due
  BY <1>2, <1>3, <1>4 DEF FellDue
<1>6. FixedTypeOK'
  <2>1. \A n \in Numbers : period'[n] \in PeriodRow
    BY <1>1, <1>3, <1>4
  <2>2. period' \in [Numbers -> PeriodRow]
    BY <1>2, <2>1
  <2>3. NotMarking \in [number : Numbers \cup {NoPeriod}, amount : Nat]
    BY DEF NotMarking
  <2>4. marking' \in [Cashiers -> [number : Numbers \cup {NoPeriod}, amount : Nat]]
    BY <1>1, <1>2, <2>3
  <2> QED
    BY <1>1, <1>2, <2>2, <2>4 DEF FixedTypeOK
<1>7. SyncsKnow'
  <2> SUFFICES ASSUME NEW s \in Syncs
               PROVE  SyncKnows(s)'
    BY DEF SyncsKnow
  <2>1. sync'[s] = sync[s] /\ clock' \in Nat /\ clock <= clock'
    BY <1>1, <1>2
  <2> QED
    BY <1>5, <2>1, StillKnows
<1>8. MarksKnown'
  <2> SUFFICES ASSUME NEW c \in Cashiers, marking'[c] # NotMarking
               PROVE  (marking[c].number \in Numbers /\ FellDue(marking[c].number))'
    BY DEF MarksKnown
  <2>1. marking'[c] = marking[c]
    BY <1>1, <1>2
  <2>2. PICK n \in Numbers : n = marking[c].number /\ FellDue(n)
    BY <2>1 DEF FixedInv, MarksKnown
  <2>3. FellDue(n)'
    BY <1>5, <2>2
  <2> QED
    BY <2>1, <2>2, <2>3 DEF FellDue
<1>9. PeriodsKnown'
  BY <1>2, <1>4, <1>5 DEF FixedInv, PeriodsKnown
<1>10. PeriodsWithoutGaps'
  <2>1. \A n \in Numbers : 1..n \in SUBSET Numbers
    BY NumbersAreNat DEF Numbers
  <2> QED
    BY <1>2, <1>5, <2>1 DEF FixedInv, PeriodsWithoutGaps
<1>11. PaymentsAddUp'
  <2>1. ASSUME NEW n \in Numbers
        PROVE  /\ period'[n].paid = PaidBy(n)' /\ period'[n].paid <= period'[n].amount
               /\ FellDue(n)' => (period'[n].status = "PAID") = (Balance(n)' = 0)
    <3>1. /\ period[n].paid = PaidBy(n) /\ period[n].paid <= period[n].amount
          /\ FellDue(n) => (period[n].status = "PAID") = (Balance(n) = 0)
          /\ period[n].paid \in Nat
      BY <1>1 DEF FixedInv, PaymentsAddUp, PeriodRow
    <3>2. PaidBy(n)' = PaidBy(n) + (IF n \in paid THEN share[n] ELSE 0)
      BY PaymentReaches
    <3>3. CASE n \in paid
      BY <1>3, <3>1, <3>2, <3>3 DEF Balance
    <3>4. CASE n \notin paid
      BY <1>4, <1>5, <3>1, <3>2, <3>4 DEF Balance
    <3> QED
      BY <3>3, <3>4
  <2>2. funds' = Funds - OutOfPocket'
    <3>1. OutOfPocket' = OutOfPocket + Total(share, paid)
      BY PaymentLeaves
    <3>2. OutOfPocket \in Nat
      BY OutlaysAreFinite, OutlayAmounts, <1>1, TotalIsNat DEF OutOfPocket
    <3>3. Total(share, paid) \in Nat
      <4>1. IsFiniteSet(paid)
        BY <1>2, OutlaysAreFinite, FS_Subset
      <4> QED
        BY <1>2, <4>1, TotalIsNat
    <3>4. funds = Funds - OutOfPocket /\ Funds \in Nat
      BY FixedExpensesAssumption DEF FixedInv, PaymentsAddUp
    <3> QED
      BY <1>2, <3>1, <3>2, <3>3, <3>4
  <2> QED
    BY <2>1, <2>2 DEF PaymentsAddUp
<1> QED
  BY <1>1, <1>2, <1>6, <1>7, <1>8, <1>9, <1>10, <1>11 DEF FixedInv

\* Marking paid is a payment of one period.
LEMMA MarkPaidKeeps ==
    ASSUME FixedInv, NEW c \in Cashiers, MarkPaid(c)
    PROVE  FixedInv'
<1>1. PICK n, a, o :
          /\ o \in Outlays /\ n = marking[c].number /\ a = marking[c].amount
          /\ a <= Balance(n) /\ Affords(a) /\ outlay[o] = NoOutlay
          /\ period' = [period EXCEPT ![n] = Paying(n, a)]
          /\ outlay' = [outlay EXCEPT ![o] = [number |-> n, amount |-> a, archived |-> FALSE]]
          /\ funds' = funds - a
  BY DEF MarkPaid
<1>2. /\ marking[c] # NotMarking /\ marking' = [marking EXCEPT ![c] = NotMarking]
      /\ UNCHANGED <<clock, fixed, alerts, sync, cooling, changes>>
  BY DEF MarkPaid
<1>3. n \in Numbers /\ FellDue(n)
  BY <1>1, <1>2 DEF FixedInv, MarksKnown
<1>4. /\ a \in Nat /\ funds \in Nat /\ outlay \in [Outlays -> OutlayRow]
      /\ period \in [Numbers -> PeriodRow]
  BY <1>1 DEF FixedInv, FixedTypeOK
<1>5. [number |-> n, amount |-> a, archived |-> FALSE] \in OutlayRow
  BY <1>3, <1>4 DEF OutlayRow
<1>6. PICK share, row : share = [m \in {n} |-> a] /\ row = [m \in {n} |-> o]
  OBVIOUS
<1>7. share[n] = a /\ row[n] = o
  BY <1>6
<1>8. Total(share, {n}) = a
  <2>1. n \in {n} /\ share[n] \in Nat /\ \A m \in {n} \ {n} : share[m] = 0
    BY <1>4, <1>7
  <2>2. Total(share, {n}) = share[n]
    BY ONLY <2>1, TotalOne
  <2> QED
    BY <1>7, <2>2
<1>9. period' = [m \in Numbers |-> IF m \in {n} THEN Paying(m, share[m]) ELSE period[m]]
  BY <1>1, <1>3, <1>4, <1>7
<1>10. outlay' \in [Outlays -> OutlayRow] /\ outlay'[o] = [number |-> n, amount |-> a,
                                                           archived |-> FALSE]
       /\ \A p \in Outlays : p # o => outlay'[p] = outlay[p]
  BY <1>1, <1>4, <1>5
<1>11. funds' \in Nat
  BY <1>1, <1>4 DEF Affords
<1>12. Payment({n}, share, row)
  <2>1. \A m \in {n} : m = n
    OBVIOUS
  <2>2. \A m \in {n} : /\ FellDue(m) /\ share[m] \in Nat /\ share[m] <= Balance(m)
                       /\ row[m] \in FreeOutlays
                       /\ \A k \in {n} : row[k] = row[m] => k = m
    BY <1>1, <1>3, <1>4, <1>7, <2>1 DEF FreeOutlays
  <2>3. /\ \A m \in {n} : outlay'[row[m]] = [number |-> m, amount |-> share[m],
                                             archived |-> FALSE]
        /\ \A p \in Outlays : (\A m \in {n} : row[m] # p) => outlay'[p] = outlay[p]
    BY <1>7, <1>10, <2>1
  <2>4. {n} \in SUBSET Numbers /\ funds' = funds - Total(share, {n})
    BY <1>1, <1>3, <1>8
  <2> QED
    BY <1>2, <1>9, <1>10, <1>11, <2>2, <2>3, <2>4 DEF Payment
<1> QED
  BY <1>12, PaymentKeeps

LEMMA PayPeriodsKeeps ==
    ASSUME FixedInv, NEW selected \in SUBSET Numbers, NEW amount \in Payable,
           PayPeriods(selected, amount)
    PROVE  FixedInv'
<1>1. PICK ns, share, paid :
          /\ ns = Owing(selected)
          /\ share = [n \in Numbers |-> IF n \in ns THEN Allotted(ns, amount, n) ELSE 0]
          /\ paid = {n \in ns : share[n] > 0}
  OBVIOUS
<1>2. /\ \A n \in selected : FellDue(n)
      /\ amount <= OwedBy(ns) /\ Affords(amount)
      /\ Cardinality(paid) <= Cardinality(FreeOutlays)
      /\ period' = [n \in Numbers |-> IF n \in paid THEN Paying(n, share[n]) ELSE period[n]]
      /\ outlay' = [o \in Outlays |->
            IF \E n \in paid : RowOf(paid, n) = o
            THEN LET n == CHOOSE n \in paid : RowOf(paid, n) = o
                 IN  [number |-> n, amount |-> share[n], archived |-> FALSE]
            ELSE outlay[o]]
      /\ funds' = funds - amount
      /\ UNCHANGED <<clock, fixed, alerts, sync, cooling, marking, changes>>
  BY <1>1 DEF PayPeriods
<1>3. /\ amount \in Nat /\ funds \in Nat /\ outlay \in [Outlays -> OutlayRow]
      /\ \A n \in Numbers : period[n] \in PeriodRow
  BY FixedExpensesAssumption DEF FixedInv, FixedTypeOK
<1>4. \A n \in Numbers : Balance(n) \in Nat
  <2> TAKE n \in Numbers
  <2>1. period[n].paid <= period[n].amount /\ period[n].paid \in Nat /\ period[n].amount \in Nat
    BY <1>3 DEF FixedInv, PaymentsAddUp, PeriodRow
  <2> QED
    BY <2>1 DEF Balance
<1>5. ns \in SUBSET selected /\ ns \in SUBSET Numbers /\ ns \in SUBSET (1..Horizon)
      /\ paid \in SUBSET ns
  BY <1>1, NumbersAreNat DEF Owing
<1>6. PICK b : b = [n \in Numbers |-> Balance(n)]
  OBVIOUS
<1>7. Greedy(b, ns, amount, share)
  <2> SUFFICES ASSUME NEW n \in ns
               PROVE  /\ b[n] \in Nat
                      /\ LET left == amount - Total(b, {m \in ns : m < n})
                         IN  share[n] = IF left <= 0 THEN 0
                                        ELSE IF left < b[n] THEN left ELSE b[n]
    BY DEF Greedy
  <2>1. n \in Numbers /\ b[n] = Balance(n)
    BY <1>5, <1>6
  <2>2. share[n] = Allotted(ns, amount, n)
    BY <1>1, <2>1
  <2> QED
    BY <1>4, <1>6, <2>1, <2>2 DEF Allotted, OwedBy
<1>8. Total(share, ns) = amount
  <2>1. amount <= Total(b, ns)
    BY <1>2, <1>6 DEF OwedBy
  <2> QED
    BY <1>3, <1>5, <1>7, <2>1, NumbersAreNat, GreedyAddsUp
<1>9. \A n \in ns : share[n] \in Nat /\ share[n] <= Balance(n)
  <2>1. \A n \in ns : share[n] \in Nat /\ share[n] <= b[n]
    BY <1>3, <1>5, <1>7, NumbersAreNat, GreedyShares
  <2> QED
    BY <1>5, <1>6, <2>1
<1>10. Total(share, paid) = amount
  <2>1. \A n \in ns \ paid : share[n] = 0
    BY <1>1, <1>9
  <2>2. Total(share, ns) = Total(share, paid)
    BY <1>5, <2>1, TotalOfPart
  <2> QED
    BY <1>8, <2>2
<1>11. PICK row : row = [n \in paid |-> RowOf(paid, n)]
  OBVIOUS
<1>12. paid \in SUBSET (1..Horizon) /\ FreeOutlays \in SUBSET (1..MaxOutlays)
  BY <1>5, OutlaysAreFinite DEF FreeOutlays
<1>13. ASSUME NEW n \in paid
       PROVE  row[n] \in FreeOutlays /\ Rank(FreeOutlays, row[n]) = Rank(paid, n)
  <2>1. Rank(paid, n) \in Nat /\ Rank(paid, n) <= Cardinality(paid)
    BY <1>12, NumbersAreNat, RankIsNat
  <2>2. Rank(paid, n) # 0
    <3>1. n \in {m \in paid : m <= n}
      <4>1. n \in Nat
        BY <1>5, NumbersAreNat
      <4>2. n <= n
        BY <4>1
      <4> QED
        BY <4>2
    <3>2. IsFiniteSet({m \in paid : m <= n})
      BY <1>12, NumbersAreNat, RankIsNat
    <3>3. {m \in paid : m <= n} # {}
      BY <3>1
    <3> QED
      BY <3>2, <3>3, FS_EmptySet DEF Rank
  <2>3. Cardinality(paid) \in Nat /\ Cardinality(FreeOutlays) \in Nat
    <3>1. IsFiniteSet(paid) /\ IsFiniteSet(FreeOutlays)
      BY <1>12, NumbersAreNat, OutlaysAreFinite, RankIsNat
    <3> QED
      BY <3>1, FS_CardinalityType
  <2>4. Rank(paid, n) \in 1..Cardinality(FreeOutlays)
    BY <1>2, <2>1, <2>2, <2>3
  <2>5. \E o \in FreeOutlays : Rank(FreeOutlays, o) = Rank(paid, n)
    BY <1>12, <2>4, OutlaysAreFinite, RankExists
  <2>6. row[n] = CHOOSE o \in FreeOutlays : Rank(FreeOutlays, o) = Rank(paid, n)
    BY <1>11 DEF RowOf, Rank
  <2> QED
    BY <2>5, <2>6
<1>14. ASSUME NEW m \in paid, NEW n \in paid, row[m] = row[n]
       PROVE  m = n
  <2>1. Rank(paid, m) = Rank(paid, n)
    BY <1>13, <1>14
  <2> QED
    BY <1>12, <2>1, NumbersAreNat, RankUnique
<1>15. ASSUME NEW n \in paid
       PROVE  outlay'[row[n]] = [number |-> n, amount |-> share[n], archived |-> FALSE]
  <2>1. row[n] = RowOf(paid, n) /\ row[n] \in Outlays
    BY <1>11, <1>13 DEF FreeOutlays
  <2>2. (CHOOSE m \in paid : RowOf(paid, m) = row[n]) = n
    <3>1. \A m \in paid : RowOf(paid, m) = row[n] => m = n
      BY <1>11, <1>14
    <3> QED
      BY <2>1, <3>1
  <2> QED
    BY <1>2, <2>1, <2>2
<1>16. \A o \in Outlays : (\A n \in paid : row[n] # o) => outlay'[o] = outlay[o]
  BY <1>2, <1>11
<1>17. outlay' \in [Outlays -> OutlayRow]
  <2>1. ASSUME NEW o \in Outlays
        PROVE  outlay'[o] \in OutlayRow
    <3>1. CASE \E n \in paid : row[n] = o
      <4>1. PICK n \in paid : row[n] = o
        BY <3>1
      <4>2. n \in Numbers /\ share[n] \in Nat
        BY <1>5, <1>9
      <4>3. outlay'[o] = [number |-> n, amount |-> share[n], archived |-> FALSE]
        BY <1>15, <4>1
      <4> QED
        BY <4>2, <4>3 DEF OutlayRow
    <3>2. CASE \A n \in paid : row[n] # o
      BY <1>3, <1>16, <3>2
    <3> QED
      BY <3>1, <3>2
  <2>2. outlay' = [o \in Outlays |-> outlay'[o]]
    BY <1>2
  <2> QED
    BY <2>1, <2>2
<1>18. funds' \in Nat /\ funds' = funds - Total(share, paid)
  BY <1>2, <1>3, <1>10 DEF Affords
<1>19. Payment(paid, share, row)
  <2>1. paid \in SUBSET Numbers
    BY <1>5
  <2>2. \A n \in paid : /\ FellDue(n) /\ share[n] \in Nat /\ share[n] <= Balance(n)
                        /\ row[n] \in FreeOutlays
                        /\ \A m \in paid : row[m] = row[n] => m = n
    BY <1>2, <1>5, <1>9, <1>13, <1>14
  <2> QED
    BY <1>2, <1>15, <1>16, <1>17, <1>18, <2>1, <2>2 DEF Payment
<1> QED
  BY <1>19, PaymentKeeps

LEMMA VoidOutlayKeeps ==
    ASSUME FixedInv, NEW o \in Outlays, VoidOutlay(o)
    PROVE  FixedInv'
<1>1. /\ outlay[o] # NoOutlay /\ ~outlay[o].archived
      /\ outlay' = [outlay EXCEPT ![o].archived = TRUE]
      /\ funds' = funds + outlay[o].amount
      /\ UNCHANGED <<clock, fixed, period, alerts, sync, cooling, marking, changes>>
  BY DEF VoidOutlay
<1>2. /\ FixedTypeOK /\ clock \in Nat /\ clock <= Horizon /\ fixed.amount > 0
      /\ outlay \in [Outlays -> OutlayRow] /\ outlay[o] \in OutlayRow /\ funds \in Nat
      /\ outlay[o].amount \in Nat
  BY DEF FixedInv, FixedTypeOK, OutlayRow
<1>3. PICK row : row = [outlay[o] EXCEPT !.archived = TRUE]
  OBVIOUS
<1>4. row \in OutlayRow /\ row.archived = TRUE /\ row.number = outlay[o].number
      /\ row.amount = outlay[o].amount
  BY <1>2, <1>3 DEF OutlayRow
<1>5. outlay' = [outlay EXCEPT ![o] = row]
  BY <1>1, <1>2, <1>3 DEF OutlayRow
<1>6. /\ outlay' \in [Outlays -> OutlayRow] /\ outlay'[o] = row
      /\ \A p \in Outlays \ {o} : outlay'[p] = outlay[p]
  BY <1>2, <1>4, <1>5
<1>7. FixedTypeOK'
  BY <1>1, <1>2, <1>6 DEF FixedTypeOK
<1>8. SyncsKnow' /\ MarksKnown' /\ PeriodsKnown' /\ PeriodsWithoutGaps'
  BY <1>1 DEF FixedInv, SyncsKnow, SyncKnows, MarksKnown, PeriodsKnown, PeriodsWithoutGaps,
              FellDue
<1>9. \A n \in Numbers : PaidBy(n)' = PaidBy(n)
  <2> TAKE n \in Numbers
  <2>1. PICK new : new = PaidOn(n)'
    OBVIOUS
  <2>2. \A p \in Outlays : new[p] = PaidOn(n)[p]
    BY <1>4, <1>6, <2>1 DEF PaidOn
  <2>3. Total(new, Outlays) = Total(PaidOn(n), Outlays)
    BY <2>2, TotalSame
  <2> QED
    BY <2>1, <2>3 DEF PaidBy
<1>10. OutOfPocket' = OutOfPocket - outlay[o].amount /\ OutOfPocket \in Nat
  <2>1. PICK new, old : new = Standing' /\ old = Standing
    OBVIOUS
  <2>2. \A p \in Outlays : old[p] \in Nat
    BY <1>2, <2>1, OutlayAmounts
  <2>3. new[o] = 0
    BY <1>4, <1>6, <2>1 DEF Standing
  <2>4. old[o] = outlay[o].amount
    BY <1>1, <2>1 DEF Standing
  <2>5. \A p \in Outlays \ {o} : old[p] = new[p]
    BY <1>6, <2>1 DEF Standing
  <2>6. \A p \in Outlays : old[p] \in Nat /\ new[p] \in Nat
    BY <2>2, <2>3, <2>5
  <2>7. o \in Outlays /\ IsFiniteSet(Outlays)
    BY OutlaysAreFinite
  <2>8. Total(new, Outlays) = Total(old, Outlays) - old[o] + new[o]
    BY ONLY <2>5, <2>6, <2>7, TotalChange
  <2>9. Total(old, Outlays) \in Nat
    BY <2>2, OutlaysAreFinite, TotalIsNat
  <2> QED
    BY <1>2, <2>1, <2>3, <2>4, <2>8, <2>9 DEF OutOfPocket
<1>11. PaymentsAddUp'
  <2>1. \A n \in Numbers :
            /\ period'[n].paid = PaidBy(n)' /\ period'[n].paid <= period'[n].amount
            /\ FellDue(n)' => (period'[n].status = "PAID") = (Balance(n)' = 0)
    BY <1>1, <1>9 DEF FixedInv, PaymentsAddUp, FellDue, Balance
  <2>2. funds = Funds - OutOfPocket /\ Funds \in Nat
    BY FixedExpensesAssumption DEF FixedInv, PaymentsAddUp
  <2>3. funds' = Funds - OutOfPocket'
    BY <1>1, <1>2, <1>10, <2>2
  <2> QED
    BY <2>1, <2>3 DEF PaymentsAddUp
<1>12. funds' \in Nat
  BY <1>1, <1>2
<1> QED
  BY <1>1, <1>2, <1>7, <1>8, <1>11 DEF FixedInv

-----------------------------------------------------------------------------
LEMMA FixedStep == FixedInv /\ [FixedNext]_fixedVars => FixedInv'
<1> SUFFICES ASSUME FixedInv, [FixedNext]_fixedVars
             PROVE  FixedInv'
  OBVIOUS
<1>0. /\ FixedTypeOK /\ clock \in Nat /\ clock <= Horizon /\ fixed.amount > 0
      /\ sync \in [Syncs -> Sync] /\ MarksKnown /\ SyncIdle \in Sync /\ Horizon \in Nat
      /\ fixed \in [schedule : Schedules, amount : Nat, archived : BOOLEAN]
      /\ marking \in [Cashiers -> [number : Numbers \cup {NoPeriod}, amount : Nat]]
      /\ NotMarking \in [number : Numbers \cup {NoPeriod}, amount : Nat]
  BY SyncIdleTyped, NumbersAreNat DEF FixedInv, FixedTypeOK, NotMarking
<1>1. ASSUME NEW s \in Syncs, NEW force \in BOOLEAN, BeginSync(s, force)
      PROVE  FixedInv'
  BY <1>1, BeginSyncKeeps
<1>2. ASSUME NEW s \in Syncs, ReadExisting(s)
      PROVE  FixedInv'
  BY <1>2, ReadExistingKeeps
<1>3. ASSUME NEW s \in Syncs, InsertPeriod(s)
      PROVE  FixedInv'
  BY <1>3, InsertPeriodKeeps
<1>4. ASSUME NEW s \in Syncs, EndSync(s) \/ FailSync(s)
      PROVE  FixedInv'
  <2>1. /\ sync' = [sync EXCEPT ![s] = SyncIdle]
        /\ UNCHANGED <<clock, fixed, period, alerts, cooling, outlay, funds, marking, changes>>
    BY <1>4 DEF EndSync, FailSync
  <2>2. sync' \in [Syncs -> Sync] /\ \A r \in Syncs : sync'[r] = sync[r] \/ sync'[r] = SyncIdle
    BY <1>0, <2>1
  <2>3. FixedTypeOK'
    BY <1>0, <2>1, <2>2 DEF FixedTypeOK
  <2>4. MarksKnown'
    BY <1>0, <2>1 DEF MarksKnown, FellDue
  <2> QED
    BY <1>0, <2>1, <2>2, <2>3, <2>4, SyncsStopKeeps
<1>5. CASE Cool \/ Restart
  <2>1. /\ cooling' = FALSE /\ UNCHANGED <<clock, fixed, period, alerts, outlay, funds, changes>>
        /\ sync' = sync \/ sync' = [s \in Syncs |-> SyncIdle]
        /\ marking' = marking \/ marking' = [c \in Cashiers |-> NotMarking]
    BY <1>5 DEF Cool, Restart
  <2>2. sync' \in [Syncs -> Sync] /\ \A r \in Syncs : sync'[r] = sync[r] \/ sync'[r] = SyncIdle
    BY <1>0, <2>1
  <2>3. marking' \in [Cashiers -> [number : Numbers \cup {NoPeriod}, amount : Nat]]
    BY <1>0, <2>1
  <2>4. FixedTypeOK'
    BY <1>0, <2>1, <2>2, <2>3 DEF FixedTypeOK
  <2>5. MarksKnown'
    <3>1. CASE marking' = marking
      BY <1>0, <2>1, <3>1 DEF MarksKnown, FellDue
    <3>2. CASE marking' = [c \in Cashiers |-> NotMarking]
      BY <3>2 DEF MarksKnown
    <3> QED
      BY <2>1, <3>1, <3>2
  <2> QED
    BY <1>0, <2>1, <2>2, <2>4, <2>5, SyncsStopKeeps
<1>6. CASE Pass
  <2>1. /\ clock < Horizon /\ clock' = clock + 1
        /\ UNCHANGED <<fixed, period, alerts, sync, cooling, outlay, funds, marking, changes>>
    BY <1>6 DEF Pass
  <2>2. FixedTypeOK' /\ clock' <= Horizon /\ clock <= clock'
    BY <1>0, <2>1 DEF FixedTypeOK
  <2>3. MarksKnown'
    BY <1>0, <2>1 DEF MarksKnown, FellDue
  <2> QED
    BY <1>0, <2>1, <2>2, <2>3, SyncsStopKeeps
<1>7. ASSUME ArchiveFixed \/ \E s \in Schedules, amount \in Charges : ChangeFixed(s, amount)
      PROVE  FixedInv'
  <2>1. /\ fixed' \in [schedule : Schedules, amount : Nat, archived : BOOLEAN]
        /\ fixed'.amount > 0 /\ changes' \in Nat
    <3>1. CASE ArchiveFixed
      <4>1. fixed' = [fixed EXCEPT !.archived = TRUE] /\ changes' = changes
        BY <3>1 DEF ArchiveFixed
      <4>2. changes \in Nat
        BY <1>0 DEF FixedTypeOK
      <4> QED
        BY <1>0, <4>1, <4>2
    <3>2. CASE \E s \in Schedules, amount \in Charges : ChangeFixed(s, amount)
      <4>1. PICK s \in Schedules, amount \in Charges : ChangeFixed(s, amount)
        BY <3>2
      <4>2. amount \in Nat /\ amount > 0
        BY FixedExpensesAssumption
      <4>3. /\ fixed' = [fixed EXCEPT !.schedule = s, !.amount = amount]
            /\ changes' = changes + 1
        BY <4>1 DEF ChangeFixed
      <4>4. changes' \in Nat
        BY <1>0, <4>3 DEF FixedTypeOK
      <4>5. PICK row : row = [fixed EXCEPT !.schedule = s, !.amount = amount]
        OBVIOUS
      <4>6. row \in [schedule : Schedules, amount : Nat, archived : BOOLEAN]
            /\ row.amount = amount
        BY ONLY <1>0, <4>2, <4>5, s \in Schedules
      <4> QED
        BY <4>2, <4>3, <4>4, <4>5, <4>6
    <3> QED
      BY <1>7, <3>1, <3>2
  <2>2. UNCHANGED <<clock, period, alerts, sync, cooling, outlay, funds, marking>>
    BY <1>7 DEF ArchiveFixed, ChangeFixed
  <2>3. FixedTypeOK'
    BY <1>0, <2>1, <2>2 DEF FixedTypeOK
  <2>4. MarksKnown'
    BY <1>0, <2>2 DEF MarksKnown, FellDue
  <2> QED
    BY <1>0, <2>1, <2>2, <2>3, <2>4, SyncsStopKeeps
<1>8. ASSUME NEW selected \in SUBSET Numbers, NEW amount \in Payable,
             PayPeriods(selected, amount)
      PROVE  FixedInv'
  BY <1>8, PayPeriodsKeeps
<1>9. ASSUME NEW c \in Cashiers, NEW n \in Numbers, ReadToMark(c, n)
      PROVE  FixedInv'
  <2>1. /\ FellDue(n) /\ Balance(n) > 0
        /\ marking' = [marking EXCEPT ![c] = [number |-> n, amount |-> Balance(n)]]
        /\ UNCHANGED <<clock, fixed, period, alerts, sync, cooling, outlay, funds, changes>>
    BY <1>9 DEF ReadToMark
  <2>2. period[n].amount \in Nat /\ period[n].paid \in Nat
    BY <1>0 DEF FixedTypeOK, PeriodRow
  <2>3. PICK due \in Nat : due = Balance(n)
    BY <2>1, <2>2 DEF Balance
  <2>4. marking' \in [Cashiers -> [number : Numbers \cup {NoPeriod}, amount : Nat]]
        /\ marking'[c].number = n /\ \A d \in Cashiers \ {c} : marking'[d] = marking[d]
    BY <1>0, <2>1, <2>3
  <2>5. FixedTypeOK'
    BY <1>0, <2>1, <2>4 DEF FixedTypeOK
  <2>6. MarksKnown'
    BY <1>0, <2>1, <2>4 DEF MarksKnown, FellDue
  <2> QED
    BY <1>0, <2>1, <2>5, <2>6, SyncsStopKeeps
<1>10. ASSUME NEW c \in Cashiers, MarkPaid(c)
       PROVE  FixedInv'
  BY <1>10, MarkPaidKeeps
<1>11. ASSUME NEW c \in Cashiers, RefuseMark(c)
       PROVE  FixedInv'
  <2>1. /\ marking' = [marking EXCEPT ![c] = NotMarking]
        /\ UNCHANGED <<clock, fixed, period, alerts, sync, cooling, outlay, funds, changes>>
    BY <1>11 DEF RefuseMark
  <2>2. marking' \in [Cashiers -> [number : Numbers \cup {NoPeriod}, amount : Nat]]
        /\ \A d \in Cashiers : marking'[d] = marking[d] \/ marking'[d] = NotMarking
    BY <1>0, <2>1
  <2>3. FixedTypeOK'
    BY <1>0, <2>1, <2>2 DEF FixedTypeOK
  <2>4. MarksKnown'
    BY <1>0, <2>1, <2>2 DEF MarksKnown, FellDue
  <2> QED
    BY <1>0, <2>1, <2>3, <2>4, SyncsStopKeeps
<1>12. ASSUME NEW o \in Outlays, VoidOutlay(o)
       PROVE  FixedInv'
  BY <1>12, VoidOutlayKeeps
<1>13. CASE UNCHANGED fixedVars
  <2>1. UNCHANGED <<clock, fixed, period, alerts, sync, cooling, outlay, funds, marking, changes>>
    BY <1>13 DEF fixedVars
  <2>2. FixedTypeOK' /\ MarksKnown'
    BY <1>0, <2>1 DEF FixedTypeOK, MarksKnown, FellDue
  <2> QED
    BY <1>0, <2>1, <2>2, SyncsStopKeeps
<1> QED
  BY <1>1, <1>2, <1>3, <1>4, <1>5, <1>6, <1>7, <1>8, <1>9, <1>10, <1>11, <1>12, <1>13
     DEF FixedNext

LEMMA FixedAlways == FixedSpec => []FixedInv
BY FixedStart, FixedStep, PTL DEF FixedSpec

-----------------------------------------------------------------------------
\* The variables keep their types: no account goes below zero by a payment,
\* and no run works on a number that is none.
THEOREM FixedTypes == FixedSpec => []FixedTypeOK
BY FixedAlways, PTL DEF FixedInv

\* Whatever runs overlap, fail or work from an old schedule, and however the
\* schedule is edited, the periods of an expense are numbered without gaps,
\* none appears before it was due and each raised one alert.
THEOREM NoPeriodIsMissing == FixedSpec => []PeriodsWithoutGaps
BY FixedAlways, PTL DEF FixedInv

\* However payments over several periods, marks from a stale balance and voids
\* interleave, what a period says was paid is what the expenses linked to it
\* add up to, and the account is short of exactly those not voided.
THEOREM PeriodPaymentsAddUp == FixedSpec => []PaymentsAddUp
BY FixedAlways, PTL DEF FixedInv

\* A run that ends without failing leaves every period that was due when it
\* began, also those that a rival inserted first.
THEOREM SyncsAreComplete == FixedSpec => FinishedSyncIsComplete
<1> DEFINE Complete ==
        \A s \in Syncs :
            sync[s].step = "insert" /\ sync[s].next > sync[s].expected /\ sync'[s].step = "idle"
            => \A n \in 1..sync[s].expected : FellDue(n)
<1>1. FixedInv => Complete
  <2> SUFFICES ASSUME FixedInv, NEW s \in Syncs, sync[s].next > sync[s].expected,
                      NEW n \in 1..sync[s].expected
               PROVE  FellDue(n)
    OBVIOUS
  <2>1. SyncKnows(s) /\ sync[s].expected \in Nat /\ sync[s].next \in Nat
    BY DEF FixedInv, SyncsKnow, FixedTypeOK, Sync
  <2>2. n \in Nat /\ n < sync[s].next /\ n \in Numbers
    BY <2>1, NumbersAreNat DEF Numbers, SyncKnows
  <2> QED
    BY <2>1, <2>2 DEF SyncKnows
<1>2. FixedInv /\ [FixedNext]_fixedVars => [Complete]_fixedVars
  BY <1>1
<1> QED
  BY <1>2, FixedAlways, PTL DEF FixedSpec, FinishedSyncIsComplete
=============================================================================
