---------------------------- MODULE ProofBasics ----------------------------
(***************************************************************************)
(* Facts about numbers and finite sets that several proofs use.            *)
(***************************************************************************)
EXTENDS Naturals, FunctionTheorems, FiniteSetTheorems, WellFoundedInduction, TLAPS

\* A nonempty set of naturals has a least element: among the intervals 1 .. k
\* for k in T, one is minimal for strict inclusion.
LEMMA LeastNat ==
  ASSUME NEW T \in SUBSET Nat, T # {}
  PROVE  \E x \in T : \A y \in T : x <= y
<1> DEFINE I == {1 .. k : k \in T}
<1>1. \A k \in T : 1 .. k \in FiniteSubsetsOf(Nat)
  <2>1. ASSUME NEW k \in T  PROVE  IsFiniteSet(1 .. k)
    BY FS_Interval
  <2>2. \A k \in T : 1 .. k \in SUBSET Nat
    OBVIOUS
  <2>3. QED  BY <2>1, <2>2 DEF FiniteSubsetsOf
<1>2. I \subseteq FiniteSubsetsOf(Nat) /\ I # {}
  BY <1>1
<1>3. PICK m \in I : \A u \in I : ~ (<<u, m>> \in StrictSubsetOrdering(Nat))
  <2> HIDE DEF I
  <2>1. IsWellFoundedOn(StrictSubsetOrdering(Nat), FiniteSubsetsOf(Nat))
    BY FS_StrictSubsetOrderingWellFounded
  <2>2. QED  BY <1>2, <2>1, WFMin
<1>4. PICK x \in T : m = 1 .. x
  OBVIOUS
<1>5. ASSUME NEW y \in T, y < x
      PROVE  FALSE
  <2>1. 1 .. y \in SUBSET Nat /\ 1 .. x \in SUBSET Nat
    OBVIOUS
  <2>2. 1 .. y \subseteq 1 .. x /\ x \in 1 .. x /\ x \notin 1 .. y
    BY <1>5
  <2>3. <<1 .. y, 1 .. x>> \in StrictSubsetOrdering(Nat)
    BY <2>1, <2>2 DEF StrictSubsetOrdering
  <2>4. QED  BY <1>3, <1>4, <2>3
<1>6. QED  BY <1>5

\* Induction on the naturals, with a set for what is shown of each.
LEMMA NatSet ==
  ASSUME NEW S, 0 \in S, \A n \in Nat : n \in S => n + 1 \in S
  PROVE  Nat \subseteq S
<1> DEFINE Bad == {n \in Nat : n \notin S}
<1>1. SUFFICES ASSUME Bad # {}  PROVE  FALSE
  OBVIOUS
<1>2. PICK n \in Bad : \A k \in Bad : n <= k
  <2>1. Bad \in SUBSET Nat
    OBVIOUS
  <2> HIDE DEF Bad
  <2>2. QED  BY <1>1, <2>1, LeastNat
<1>3. n \in Nat /\ n # 0 /\ n \notin S
  OBVIOUS
<1>4. n - 1 \in Nat /\ n - 1 \notin Bad /\ (n - 1) + 1 = n
  BY <1>2, <1>3
<1>5. QED  BY <1>3, <1>4

\* The image of a finite set, for a function given as such.
LEMMA FiniteImage ==
  ASSUME NEW S, IsFiniteSet(S), NEW T, NEW f \in [S -> T], \A y \in T : \E x \in S : f[x] = y
  PROVE  IsFiniteSet(T)
<1>1. f \in Surjection(S, T)
  BY DEF Surjection
<1>2. QED  BY <1>1, FS_Surjection

\* A finite set fits one-to-one into one that is as large.
LEMMA InjectionExists ==
  ASSUME NEW S, NEW T, IsFiniteSet(S), IsFiniteSet(T), Cardinality(S) <= Cardinality(T)
  PROVE  \E f \in [S -> T] : \A x, y \in S : f[x] = f[y] => x = y
<1> DEFINE n == Cardinality(S)
           m == Cardinality(T)
<1>1. n \in Nat /\ m \in Nat /\ 1 .. n \subseteq 1 .. m
  BY FS_CardinalityType
<1>2. PICK b \in [S -> 1 .. n] : \A x, y \in S : b[x] = b[y] => x = y
  <2>1. ExistsBijection(1 .. n, S)
    BY FS_CardinalityType
  <2>2. ExistsBijection(S, 1 .. n)
    BY <2>1, Fun_ExistsBijSymmetric
  <2>3. PICK g \in Bijection(S, 1 .. n) : TRUE
    BY <2>2 DEF ExistsBijection
  <2>4. g \in [S -> 1 .. n] /\ \A x, y \in S : g[x] = g[y] => x = y
    BY <2>3, Fun_BijectionProperties
  <2>5. QED  BY <2>4
<1>3. PICK c \in [1 .. m -> T] : \A i, j \in 1 .. m : c[i] = c[j] => i = j
  <2>1. ExistsBijection(1 .. m, T)
    BY FS_CardinalityType
  <2>2. PICK g \in Bijection(1 .. m, T) : TRUE
    BY <2>1 DEF ExistsBijection
  <2>3. g \in [1 .. m -> T] /\ \A i, j \in 1 .. m : g[i] = g[j] => i = j
    BY <2>2, Fun_BijectionProperties
  <2>4. QED  BY <2>3
<1> HIDE DEF n, m
<1>4. \A x \in S : b[x] \in 1 .. m
  BY <1>1, <1>2
<1>5. [x \in S |-> c[b[x]]] \in [S -> T]
  BY <1>3, <1>4
<1>6. \A x, y \in S : c[b[x]] = c[b[y]] => x = y
  BY <1>2, <1>3, <1>4
<1>7. QED  BY <1>5, <1>6

\* Rounding down to a page.
LEMMA DivBounds ==
  ASSUME NEW a \in Nat, NEW n \in Nat \ {0}
  PROVE  a \div n \in Nat /\ n * (a \div n) <= a /\ a < n * ((a \div n) + 1)
OBVIOUS

LEMMA DivMonotone ==
  ASSUME NEW a \in Nat, NEW b \in Nat, NEW n \in Nat \ {0}, a <= b
  PROVE  a \div n <= b \div n
<1>1. a \div n \in Nat /\ n * (a \div n) <= a
  BY DivBounds
<1>2. b \div n \in Nat /\ b < n * ((b \div n) + 1)
  BY DivBounds
<1>3. ASSUME NEW k \in Nat, NEW m \in Nat, n * k <= a, b < n * (m + 1), k > m
      PROVE  FALSE
  <2>1. k >= m + 1
    BY <1>3
  <2>2. n * k >= n * (m + 1)
    BY <1>3, <2>1
  <2>3. QED  BY <1>3, <2>2
<1>4. QED  BY <1>1, <1>2, <1>3

\* Multiplication keeps the order.
LEMMA MulMonotone ==
  ASSUME NEW a \in Nat, NEW b \in Nat, NEW n \in Nat, a <= b
  PROVE  n * a <= n * b
<1>1. PICK c \in Nat : b = a + c
  <2>1. b - a \in Nat /\ b = a + (b - a)
    OBVIOUS
  <2>2. QED  BY <2>1
<1>2. n * b = n * a + n * c /\ n * a \in Nat /\ n * c \in Nat
  BY <1>1
<1>3. QED  BY <1>2

\* Dividing twice is dividing by the square.
LEMMA DivTwice ==
  ASSUME NEW x \in Nat, NEW n \in Nat \ {0}
  PROVE  x \div (n * n) = (x \div n) \div n
<1> DEFINE a == x \div n
           b == a \div n
           q == x \div (n * n)
<1>1. a \in Nat /\ n * a <= x /\ x < n * (a + 1)
  BY DivBounds
<1>2. b \in Nat /\ n * b <= a /\ a < n * (b + 1)
  BY <1>1, DivBounds
<1>3. n * n \in Nat \ {0}
  OBVIOUS
<1>4. q \in Nat /\ (n * n) * q <= x /\ x < (n * n) * (q + 1)
  BY <1>3, DivBounds
<1> HIDE DEF a, b, q
<1>5. \A y \in Nat : (n * n) * y = n * (n * y) /\ n * y \in Nat /\ (n * n) * y \in Nat
  OBVIOUS
<1>6. ~ (q + 1 <= b)
  <2> SUFFICES ASSUME q + 1 <= b  PROVE  FALSE
    OBVIOUS
  <2>1. (n * n) * (q + 1) <= (n * n) * b
    BY <1>2, <1>3, <1>4, MulMonotone
  <2>2. n * (n * b) <= n * a
    BY <1>1, <1>2, <1>5, MulMonotone
  <2>3. /\ (n * n) * b = n * (n * b) /\ (n * n) * b \in Nat
        /\ (n * n) * (q + 1) \in Nat /\ n * a \in Nat
    BY <1>1, <1>2, <1>4, <1>5
  <2>4. QED  BY <1>1, <1>4, <2>1, <2>2, <2>3
<1>7. ~ (b + 1 <= q)
  <2> SUFFICES ASSUME b + 1 <= q  PROVE  FALSE
    OBVIOUS
  <2>1. (n * n) * (b + 1) <= (n * n) * q
    BY <1>2, <1>3, <1>4, MulMonotone
  <2>2. n * (a + 1) <= n * (n * (b + 1))
    <3>1. n * (b + 1) \in Nat /\ a + 1 \in Nat /\ a + 1 <= n * (b + 1)
      BY <1>1, <1>2, <1>5
    <3>2. QED  BY <3>1, MulMonotone
  <2>3. /\ (n * n) * (b + 1) = n * (n * (b + 1)) /\ (n * n) * (b + 1) \in Nat
        /\ (n * n) * q \in Nat /\ n * (a + 1) \in Nat
    BY <1>1, <1>2, <1>4, <1>5
  <2>4. QED  BY <1>1, <1>4, <2>1, <2>2, <2>3
<1>8. q = b
  BY <1>2, <1>4, <1>6, <1>7
<1>9. QED  BY <1>8 DEF a, b, q

\* The quotient is the one number whose multiple leaves a rest.
LEMMA DivUnique ==
  ASSUME NEW n \in Nat \ {0}, NEW q \in Nat, NEW r \in 0 .. n - 1
  PROVE  (n * q + r) \div n = q /\ (n * q + r) % n = r
<1> DEFINE a == n * q + r
           b == a \div n
<1>1. a \in Nat /\ n * q \in Nat
  OBVIOUS
<1>2. b \in Nat /\ n * b <= a /\ a < n * (b + 1)
  BY <1>1, DivBounds
<1> HIDE DEF b
<1>3. ~ (q + 1 <= b)
  <2> SUFFICES ASSUME q + 1 <= b  PROVE  FALSE
    OBVIOUS
  <2>1. n * (q + 1) <= n * b
    BY <1>2, MulMonotone
  <2>2. n * (q + 1) = n * q + n /\ n * b \in Nat
    BY <1>2
  <2>3. QED  BY <1>1, <1>2, <2>1, <2>2
<1>4. ~ (b + 1 <= q)
  <2> SUFFICES ASSUME b + 1 <= q  PROVE  FALSE
    OBVIOUS
  <2>1. n * (b + 1) <= n * q
    BY <1>2, MulMonotone
  <2>2. n * (b + 1) \in Nat
    BY <1>2
  <2>3. QED  BY <1>1, <1>2, <2>1, <2>2
<1>5. b = q
  BY <1>2, <1>3, <1>4
<1>6. a % n = a - n * (a \div n)
  <2> HIDE DEF a
  <2>1. a = n * (a \div n) + (a % n) /\ a % n \in Nat /\ n * (a \div n) \in Nat
    BY <1>1
  <2>2. QED  BY <1>1, <2>1
<1>7. QED  BY <1>1, <1>5, <1>6 DEF b
=============================================================================
