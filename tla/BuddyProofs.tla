---------------------------- MODULE BuddyProofs ----------------------------
(***************************************************************************)
(* Proofs about Buddy, for every power of two and every size of request.   *)
(***************************************************************************)
EXTENDS Buddy, ProofBasics

-----------------------------------------------------------------------------
\* Powers of two.

\* The recursion has a solution on 0 .. n, and only one.
Doubles(f, n) ==
  f \in [0 .. n -> Nat] /\ f[0] = 1 /\ \A k \in 1 .. n : f[k] = 2 * f[k - 1]

LEMMA DoublesExists ==
  ASSUME NEW n \in Nat
  PROVE  \E f : Doubles(f, n)
<1> DEFINE S == {m \in Nat : \E f : Doubles(f, m)}
<1>1. 0 \in S
  <2>1. Doubles([k \in 0 .. 0 |-> 1], 0)
    BY DEF Doubles
  <2>2. QED  BY <2>1
<1>2. ASSUME NEW m \in Nat, m \in S  PROVE  m + 1 \in S
  <2>1. PICK f : Doubles(f, m)
    BY <1>2
  <2> DEFINE g == [k \in 0 .. m + 1 |-> IF k = m + 1 THEN 2 * f[m] ELSE f[k]]
  <2>2. g \in [0 .. m + 1 -> Nat] /\ g[0] = 1
    BY <2>1 DEF Doubles
  <2>3. ASSUME NEW k \in 1 .. m + 1  PROVE  g[k] = 2 * g[k - 1]
    <3>1. CASE k = m + 1
      <4>1. k - 1 = m /\ g[k] = 2 * f[m] /\ g[m] = f[m]
        BY <3>1
      <4>2. QED  BY <4>1
    <3>2. CASE k # m + 1
      <4>1. k \in 1 .. m /\ k - 1 \in 0 .. m
        BY <3>2
      <4>2. g[k] = f[k] /\ g[k - 1] = f[k - 1]
        BY <4>1
      <4>3. QED  BY <2>1, <4>1, <4>2 DEF Doubles
    <3>3. QED  BY <3>1, <3>2
  <2> HIDE DEF g
  <2>4. Doubles(g, m + 1)
    BY <2>2, <2>3 DEF Doubles
  <2>5. QED  BY <2>4
<1> HIDE DEF S
<1>3. Nat \subseteq S
  BY <1>1, <1>2, NatSet
<1>4. QED  BY <1>3 DEF S

LEMMA DoublesAgree ==
  ASSUME NEW m \in Nat, NEW n \in Nat, NEW f, NEW g, Doubles(f, m), Doubles(g, n)
  PROVE  \A k \in Nat : k <= m /\ k <= n => f[k] = g[k]
<1> DEFINE S == {k \in Nat : k <= m /\ k <= n => f[k] = g[k]}
<1>1. 0 \in S
  BY DEF Doubles
<1>2. ASSUME NEW k \in Nat, k \in S  PROVE  k + 1 \in S
  <2>1. CASE k + 1 <= m /\ k + 1 <= n
    <3>1. k + 1 \in 1 .. m /\ k + 1 \in 1 .. n /\ (k + 1) - 1 = k /\ f[k] = g[k]
      BY <1>2, <2>1
    <3>2. f[k + 1] = 2 * f[k] /\ g[k + 1] = 2 * g[k]
      BY <3>1 DEF Doubles
    <3>3. QED  BY <3>1, <3>2
  <2>2. CASE ~ (k + 1 <= m /\ k + 1 <= n)
    BY <2>2
  <2>3. QED  BY <2>1, <2>2
<1> HIDE DEF S
<1>3. Nat \subseteq S
  BY <1>1, <1>2, NatSet
<1>4. QED  BY <1>3 DEF S

LEMMA Pow2Facts ==
  /\ pow2 \in [Nat -> Nat \ {0}]
  /\ pow2[0] = 1
  /\ \A k \in Nat : pow2[k + 1] = 2 * pow2[k]
<1> DEFINE G == [n \in Nat |-> CHOOSE f : Doubles(f, n)]
           p == [n \in Nat |-> G[n][n]]
<1>1. \A n \in Nat : Doubles(G[n], n)
  BY DoublesExists
<1> HIDE DEF G
<1>2. ASSUME NEW n \in Nat, NEW k \in 0 .. n  PROVE  G[n][k] = p[k]
  BY <1>1, DoublesAgree
<1>3. p[0] = 1
  BY <1>1 DEF Doubles
<1>4. ASSUME NEW k \in Nat  PROVE  p[k + 1] = 2 * p[k] /\ p[k] \in Nat
  <2>1. Doubles(G[k + 1], k + 1)
    BY <1>1
  <2>2. G[k + 1][k + 1] = 2 * G[k + 1][k] /\ G[k + 1][k] \in Nat
    BY <2>1 DEF Doubles
  <2>3. G[k + 1][k + 1] = p[k + 1] /\ G[k + 1][k] = p[k]
    BY <1>2
  <2>4. QED  BY <2>2, <2>3
<1>5. p = [k \in Nat |-> IF k = 0 THEN 1 ELSE 2 * p[k - 1]]
  <2>1. ASSUME NEW k \in Nat  PROVE  p[k] = IF k = 0 THEN 1 ELSE 2 * p[k - 1]
    <3>1. CASE k = 0
      BY <1>3, <3>1
    <3>2. CASE k # 0
      <4>1. k - 1 \in Nat /\ (k - 1) + 1 = k
        BY <3>2
      <4>2. p[(k - 1) + 1] = 2 * p[k - 1]
        BY <1>4, <4>1
      <4> HIDE DEF p
      <4>3. QED  BY <3>2, <4>1, <4>2
    <3>3. QED  BY <3>1, <3>2
  <2>2. p = [k \in Nat |-> p[k]]
    OBVIOUS
  <2> HIDE DEF p
  <2>3. QED  BY <2>1, <2>2
<1> HIDE DEF p
<1>6. pow2 = [k \in Nat |-> IF k = 0 THEN 1 ELSE 2 * pow2[k - 1]]
  BY <1>5 DEF pow2
<1>7. /\ pow2[0] = 1
      /\ \A k \in Nat : pow2[k + 1] = 2 * pow2[k]
  <2>1. pow2[0] = 1
    BY <1>6
  <2>2. ASSUME NEW k \in Nat  PROVE  pow2[k + 1] = 2 * pow2[k]
    <3>1. k + 1 \in Nat /\ k + 1 # 0 /\ (k + 1) - 1 = k
      OBVIOUS
    <3>2. QED  BY <1>6, <3>1
  <2>3. QED  BY <2>1, <2>2
<1>8. pow2 = [k \in Nat |-> pow2[k]]
  BY <1>6
<1> DEFINE S == {k \in Nat : pow2[k] \in Nat \ {0}}
<1>9. 0 \in S /\ \A k \in Nat : k \in S => k + 1 \in S
  <2>1. \A k \in Nat : pow2[k] \in Nat \ {0} => 2 * pow2[k] \in Nat \ {0}
    OBVIOUS
  <2>2. QED  BY <1>7, <2>1
<1> HIDE DEF S
<1>10. Nat \subseteq S
  BY <1>9, NatSet
<1>11. QED  BY <1>7, <1>8, <1>10 DEF S

Powers == {pow2[k] : k \in Nat}

\* A power of two is 1 or twice a power of two.
LEMMA PowerHalf ==
  ASSUME NEW p \in Powers
  PROVE  /\ p \in Nat \ {0} /\ 2 * p \in Powers
         /\ p # 1 => p \div 2 \in Powers /\ p = 2 * (p \div 2)
<1>1. PICK k \in Nat : p = pow2[k]
  BY DEF Powers
<1>2. p \in Nat \ {0} /\ 2 * p = pow2[k + 1]
  BY <1>1, Pow2Facts
<1>3. CASE k = 0
  BY <1>1, <1>2, <1>3, Pow2Facts DEF Powers
<1>4. CASE k # 0
  <2>1. k - 1 \in Nat /\ (k - 1) + 1 = k
    BY <1>4
  <2>2. p = 2 * pow2[k - 1] /\ pow2[k - 1] \in Nat
    BY <1>1, <2>1, Pow2Facts
  <2>3. p \div 2 = pow2[k - 1]
    BY <2>2
  <2>4. QED  BY <1>2, <2>1, <2>2, <2>3 DEF Powers
<1>5. QED  BY <1>3, <1>4

LEMMA PowerPlus ==
  ASSUME NEW a \in Nat, NEW d \in Nat
  PROVE  pow2[a + d] = pow2[a] * pow2[d]
<1> DEFINE S == {c \in Nat : pow2[a + c] = pow2[a] * pow2[c]}
<1>1. 0 \in S
  <2>1. a + 0 = a /\ pow2[0] = 1 /\ pow2[a] \in Nat
    BY Pow2Facts
  <2>2. pow2[a + 0] = pow2[a] * pow2[0]
    BY <2>1
  <2>3. QED  BY <2>2
<1>2. ASSUME NEW c \in Nat, c \in S  PROVE  c + 1 \in S
  <2>1. a + c \in Nat /\ a + (c + 1) = (a + c) + 1
    OBVIOUS
  <2>2. pow2[a + (c + 1)] = 2 * pow2[a + c] /\ pow2[c + 1] = 2 * pow2[c]
    BY <2>1, Pow2Facts
  <2>3. pow2[a] \in Nat /\ pow2[c] \in Nat /\ pow2[a + c] = pow2[a] * pow2[c]
    BY <1>2, Pow2Facts
  <2>4. \A x, y \in Nat : 2 * (x * y) = x * (2 * y)
    OBVIOUS
  <2>5. pow2[a + (c + 1)] = pow2[a] * pow2[c + 1]
    BY <2>2, <2>3, <2>4
  <2>6. QED  BY <2>5
<1> HIDE DEF S
<1>3. Nat \subseteq S
  BY <1>1, <1>2, NatSet
<1>4. QED  BY <1>3 DEF S

\* Of two powers of two the smaller divides the larger, and is at most half of it.
LEMMA PowerDivides ==
  ASSUME NEW p \in Powers, NEW q \in Powers, p <= q
  PROVE  /\ \E m \in Nat : q = p * m
         /\ p # q => p <= q \div 2
<1>1. PICK a \in Nat, b \in Nat : p = pow2[a] /\ q = pow2[b]
  BY DEF Powers
<1>2. p \in Nat \ {0} /\ q \in Nat \ {0}
  BY PowerHalf
<1>3. CASE a <= b
  <2>1. b - a \in Nat /\ a + (b - a) = b
    BY <1>3
  <2>2. q = p * pow2[b - a] /\ pow2[b - a] \in Nat
    BY <1>1, <2>1, PowerPlus, Pow2Facts
  <2>3. ASSUME p # q  PROVE  p <= q \div 2
    <3>1. a # b
      BY <1>1, <2>3
    <3>2. b - 1 \in Nat /\ (b - 1) - a \in Nat /\ a + ((b - 1) - a) = b - 1 /\ (b - 1) + 1 = b
      BY <1>3, <3>1
    <3>3. pow2[b - 1] = p * pow2[(b - 1) - a] /\ pow2[(b - 1) - a] \in Nat \ {0}
      BY <1>1, <3>2, PowerPlus, Pow2Facts
    <3>4. p * 1 <= p * pow2[(b - 1) - a]
      BY <1>2, <3>3, MulMonotone
    <3>5. q = 2 * pow2[b - 1] /\ pow2[b - 1] \in Nat
      BY <1>1, <3>2, Pow2Facts
    <3>6. QED  BY <1>2, <3>3, <3>4, <3>5
  <2>4. QED  BY <2>2, <2>3
<1>4. CASE b < a
  <2>1. a - 1 \in Nat /\ (a - 1) - b \in Nat /\ b + ((a - 1) - b) = a - 1 /\ (a - 1) + 1 = a
    BY <1>4
  <2>2. pow2[a - 1] = q * pow2[(a - 1) - b] /\ pow2[(a - 1) - b] \in Nat \ {0}
    BY <1>1, <2>1, PowerPlus, Pow2Facts
  <2>3. q * 1 <= q * pow2[(a - 1) - b]
    BY <1>2, <2>2, MulMonotone
  <2>4. p = 2 * pow2[a - 1] /\ pow2[a - 1] \in Nat
    BY <1>1, <2>1, Pow2Facts
  <2>5. QED  BY <1>2, <2>2, <2>3, <2>4
<1>5. QED  BY <1>3, <1>4

\* What fixsize makes of a request.
LEMMA FixsizeIsPower ==
  ASSUME NEW n \in Nat
  PROVE  fixsize(n) \in Powers
<1> DEFINE Fit(m) == \E k \in 0 .. m : pow2[k] >= m /\ (pow2[k] = 1 \/ pow2[k] < 2 * m)
           S == {m \in Nat : Fit(m)}
<1>1. 0 \in S
  <2>1. 0 \in 0 .. 0 /\ pow2[0] >= 0 /\ pow2[0] = 1
    BY Pow2Facts
  <2>2. QED  BY <2>1
<1>2. ASSUME NEW m \in Nat, m \in S  PROVE  m + 1 \in S
  <2>1. PICK k \in 0 .. m : pow2[k] >= m /\ (pow2[k] = 1 \/ pow2[k] < 2 * m)
    BY <1>2
  <2>2. k \in Nat /\ pow2[k] \in Nat \ {0} /\ pow2[k + 1] = 2 * pow2[k]
    BY Pow2Facts
  <2>3. CASE pow2[k] >= m + 1
    <3>1. k \in 0 .. m + 1 /\ (pow2[k] = 1 \/ pow2[k] < 2 * (m + 1))
      BY <2>1, <2>2
    <3>2. Fit(m + 1)
      BY <2>3, <3>1
    <3>3. QED  BY <3>2
  <2>4. CASE pow2[k] = m
    <3>1. k + 1 \in 0 .. m + 1 /\ pow2[k + 1] >= m + 1 /\ pow2[k + 1] < 2 * (m + 1)
      BY <2>2, <2>4
    <3>2. Fit(m + 1)
      BY <3>1
    <3>3. QED  BY <3>2
  <2>5. QED  BY <2>1, <2>2, <2>3, <2>4
<1> HIDE DEF S
<1>3. Nat \subseteq S
  BY <1>1, <1>2, NatSet
<1>4. Fit(n)
  BY <1>3 DEF S
<1> HIDE DEF Fit
<1>5. \E p \in {pow2[k] : k \in 0 .. n} : p >= n /\ (p = 1 \/ p < 2 * n)
  BY <1>4 DEF Fit
<1>6. fixsize(n) \in {pow2[k] : k \in 0 .. n}
  BY <1>5 DEF fixsize
<1>7. QED  BY <1>6 DEF Powers

-----------------------------------------------------------------------------
\* The tree.
Inner(i) == i < size - 1

LEMMA SizeFacts == size \in Powers /\ size \in Nat /\ size >= 2
<1>1. PICK k \in 1 .. size : size = pow2[k]
  BY BuddyAssumption
<1>2. k - 1 \in Nat /\ (k - 1) + 1 = k /\ k \in Nat
  BY BuddyAssumption
<1>3. size = 2 * pow2[k - 1] /\ pow2[k - 1] \in Nat \ {0}
  BY <1>1, <1>2, Pow2Facts
<1>4. size \in Powers
  BY <1>1, <1>2 DEF Powers
<1>5. QED  BY <1>3, <1>4

LEMMA Above ==
  ASSUME NEW i \in Nodes, i # 0
  PROVE  /\ PARENT(i) \in Nodes /\ PARENT(i) < i /\ Inner(PARENT(i))
         /\ i = LEFT_LEAF(PARENT(i)) \/ i = RIGHT_LEAF(PARENT(i))
BY SizeFacts DEF Nodes, PARENT, Inner, LEFT_LEAF, RIGHT_LEAF

LEMMA Below ==
  ASSUME NEW i \in Nodes, Inner(i)
  PROVE  /\ LEFT_LEAF(i) \in Nodes /\ i < LEFT_LEAF(i) /\ PARENT(LEFT_LEAF(i)) = i
         /\ RIGHT_LEAF(i) \in Nodes /\ i < RIGHT_LEAF(i) /\ PARENT(RIGHT_LEAF(i)) = i
         /\ LEFT_LEAF(i) # RIGHT_LEAF(i)
BY SizeFacts DEF Nodes, PARENT, Inner, LEFT_LEAF, RIGHT_LEAF

\* Induction from the root to the leaves, and from the leaves to the root.
LEMMA FromRoot ==
  ASSUME NEW S, 0 \in S, \A i \in Nodes : i # 0 /\ PARENT(i) \in S => i \in S
  PROVE  Nodes \subseteq S
<1> DEFINE Bad == {i \in Nodes : i \notin S}
<1>1. SUFFICES ASSUME Bad # {}  PROVE  FALSE
  OBVIOUS
<1>2. PICK i \in Bad : \A k \in Bad : i <= k
  <2>1. Bad \in SUBSET Nat
    BY SizeFacts DEF Nodes
  <2> HIDE DEF Bad
  <2>2. QED  BY <1>1, <2>1, LeastNat
<1>3. i \in Nodes /\ i # 0 /\ i \notin S /\ i \in Nat
  BY DEF Nodes
<1>4. PARENT(i) \in Nodes /\ PARENT(i) < i /\ PARENT(i) \in Nat
  BY <1>3, Above DEF Nodes
<1>5. PARENT(i) \notin Bad
  <2> HIDE DEF Bad
  <2>1. QED  BY <1>2, <1>3, <1>4
<1>6. QED  BY <1>3, <1>4, <1>5

LEMMA FromLeaves ==
  ASSUME NEW S,
         \A i \in Nodes : ~ Inner(i) => i \in S,
         \A i \in Nodes : Inner(i) /\ LEFT_LEAF(i) \in S /\ RIGHT_LEAF(i) \in S => i \in S
  PROVE  Nodes \subseteq S
<1> DEFINE T == {n \in Nat : \A i \in Nodes : i >= 2 * size - n => i \in S}
<1>1. 0 \in T
  BY SizeFacts DEF Nodes
<1>2. ASSUME NEW n \in Nat, n \in T  PROVE  n + 1 \in T
  <2> SUFFICES ASSUME NEW i \in Nodes, i >= 2 * size - (n + 1)  PROVE  i \in S
    OBVIOUS
  <2>1. CASE Inner(i)
    <3>1. /\ LEFT_LEAF(i) \in Nodes /\ LEFT_LEAF(i) >= 2 * size - n
          /\ RIGHT_LEAF(i) \in Nodes /\ RIGHT_LEAF(i) >= 2 * size - n
      BY <2>1, Below, SizeFacts DEF Nodes
    <3>2. QED  BY <1>2, <2>1, <3>1
  <2>2. QED  BY <2>1
<1>3. Nat \subseteq T
  <2> HIDE DEF T
  <2>1. QED  BY <1>1, <1>2, NatSet
<1>4. 2 * size \in T
  BY <1>3, SizeFacts
<1>5. QED  BY <1>4, SizeFacts DEF Nodes

\* A recursion from the root, and one from where it stops, have solutions.
RootRecursion(V, z, G) == z \in V /\ G \in [Nodes -> [V -> V]]

RootSolution(f, V, z, G) ==
  /\ f \in [Nodes -> V]
  /\ \A i \in Nodes : f[i] = IF i = 0 THEN z ELSE G[i][f[PARENT(i)]]

LEMMA RootRecursionSolved ==
  ASSUME NEW V, NEW z, NEW G, RootRecursion(V, z, G)
  PROVE  \E f : RootSolution(f, V, z, G)
<1> USE DEF RootRecursion
<1> DEFINE Done(f, i) == f[i] = IF i = 0 THEN z ELSE G[i][f[PARENT(i)]]
           S == {n \in Nat : \E f \in [Nodes -> V] : \A i \in Nodes : i <= n => Done(f, i)}
<1>1. 0 \in S
  <2> DEFINE f == [i \in Nodes |-> z]
  <2>1. f \in [Nodes -> V] /\ \A i \in Nodes : i <= 0 => Done(f, i)
    BY DEF Nodes
  <2>2. QED  BY <2>1
<1>2. ASSUME NEW n \in Nat, n \in S  PROVE  n + 1 \in S
  <2>1. PICK f \in [Nodes -> V] : \A i \in Nodes : i <= n => Done(f, i)
    BY <1>2
  <2> DEFINE g == [i \in Nodes |-> IF i = n + 1 THEN G[n + 1][f[PARENT(n + 1)]] ELSE f[i]]
  <2>2. g \in [Nodes -> V]
    <3>1. n + 1 \in Nodes => G[n + 1][f[PARENT(n + 1)]] \in V
      BY Above
    <3>2. QED  BY <3>1
  <2>3. ASSUME NEW i \in Nodes, i <= n + 1  PROVE  Done(g, i)
    <3>1. CASE i = n + 1
      <4>1. i # 0 /\ PARENT(i) \in Nodes /\ PARENT(i) # n + 1
        BY <3>1, Above DEF Nodes
      <4>2. g[i] = G[i][f[PARENT(i)]] /\ g[PARENT(i)] = f[PARENT(i)]
        BY <3>1, <4>1
      <4> HIDE DEF g
      <4>3. QED  BY <4>1, <4>2
    <3>2. CASE i # n + 1
      <4>1. i <= n /\ g[i] = f[i]
        BY <2>3, <3>2 DEF Nodes
      <4>2. i # 0 => PARENT(i) \in Nodes /\ PARENT(i) # n + 1
        BY <4>1, Above DEF Nodes
      <4>3. i # 0 => g[PARENT(i)] = f[PARENT(i)]
        BY <4>2
      <4> HIDE DEF g
      <4>4. QED  BY <2>1, <4>1, <4>3
    <3>3. QED  BY <3>1, <3>2
  <2> HIDE DEF g, Done
  <2>4. QED  BY <2>2, <2>3
<1>3. Nat \subseteq S
  <2> HIDE DEF S
  <2>1. QED  BY <1>1, <1>2, NatSet
<1>4. 2 * size \in S
  <2> HIDE DEF S
  <2>1. QED  BY <1>3, SizeFacts
<1>5. \A i \in Nodes : i <= 2 * size
  BY SizeFacts DEF Nodes
<1>6. PICK f \in [Nodes -> V] : \A i \in Nodes : i <= 2 * size => Done(f, i)
  <2> HIDE DEF Done
  <2>1. QED  BY <1>4
<1>7. QED  BY <1>5, <1>6 DEF RootSolution

LeafRecursion(V, D, Stop, B, G) ==
  /\ D \subseteq Nodes /\ Stop \subseteq D /\ B \in [D -> V]
  /\ G \in [Nodes -> [V -> [V -> V]]]
  /\ \A i \in D \ Stop : LEFT_LEAF(i) \in D /\ RIGHT_LEAF(i) \in D

LeafSolution(f, V, D, Stop, B, G) ==
  /\ f \in [D -> V]
  /\ \A i \in D : f[i] = IF i \in Stop THEN B[i] ELSE G[i][f[LEFT_LEAF(i)]][f[RIGHT_LEAF(i)]]

LEMMA LeafRecursionSolved ==
  ASSUME NEW V, NEW D, NEW Stop, NEW B, NEW G, LeafRecursion(V, D, Stop, B, G)
  PROVE  \E f : LeafSolution(f, V, D, Stop, B, G)
<1> DEFINE E(f, i) == IF i \in Stop THEN B[i] ELSE G[i][f[LEFT_LEAF(i)]][f[RIGHT_LEAF(i)]]
           S == {n \in Nat : \E f \in [D -> V] : \A i \in D : i >= 2 * size - n => f[i] = E(f, i)}
<1> USE DEF LeafRecursion
<1>1. 0 \in S
  <2>1. B \in [D -> V] /\ \A i \in D : ~ (i >= 2 * size - 0)
    BY SizeFacts DEF Nodes
  <2> HIDE DEF E
  <2>2. QED  BY <2>1
<1>2. ASSUME NEW f \in [D -> V], NEW i \in D  PROVE  E(f, i) \in V
  <2>1. CASE i \in Stop
    BY <2>1
  <2>2. CASE i \notin Stop
    <3>1. f[LEFT_LEAF(i)] \in V /\ f[RIGHT_LEAF(i)] \in V /\ i \in Nodes
      BY <2>2
    <3>2. G[i][f[LEFT_LEAF(i)]][f[RIGHT_LEAF(i)]] \in V
      BY <3>1
    <3>3. QED  BY <2>2, <3>2
  <2>3. QED  BY <2>1, <2>2
<1>3. ASSUME NEW i \in D \ Stop  PROVE  LEFT_LEAF(i) > i /\ RIGHT_LEAF(i) > i
  BY SizeFacts DEF Nodes, LEFT_LEAF, RIGHT_LEAF
<1>4. ASSUME NEW n \in Nat, n \in S  PROVE  n + 1 \in S
  <2>1. PICK f \in [D -> V] : \A i \in D : i >= 2 * size - n => f[i] = E(f, i)
    BY <1>4
  <2> DEFINE m == 2 * size - (n + 1)
             g == [i \in D |-> IF i = m THEN E(f, i) ELSE f[i]]
  <2>2. g \in [D -> V]
    BY <1>2
  <2>3. ASSUME NEW i \in D, i >= m  PROVE  g[i] = E(g, i)
    <3>1. E(g, i) = E(f, i)
      <4>1. CASE i \in Stop
        BY <4>1
      <4>2. CASE i \notin Stop
        <5>1. /\ LEFT_LEAF(i) \in D /\ LEFT_LEAF(i) # m
              /\ RIGHT_LEAF(i) \in D /\ RIGHT_LEAF(i) # m
          BY <1>3, <2>3, <4>2, SizeFacts DEF Nodes, LEFT_LEAF, RIGHT_LEAF
        <5>2. g[LEFT_LEAF(i)] = f[LEFT_LEAF(i)] /\ g[RIGHT_LEAF(i)] = f[RIGHT_LEAF(i)]
          BY <5>1
        <5> HIDE DEF g
        <5>3. QED  BY <4>2, <5>2
      <4>3. QED  BY <4>1, <4>2
    <3>2. CASE i = m
      BY <3>1, <3>2
    <3>3. CASE i # m
      <4>1. i >= 2 * size - n /\ g[i] = f[i]
        BY <2>3, <3>3, SizeFacts DEF Nodes
      <4> HIDE DEF g, E
      <4>2. QED  BY <2>1, <3>1, <4>1
    <3>4. QED  BY <3>2, <3>3
  <2> HIDE DEF g, E
  <2>4. QED  BY <2>2, <2>3
<1>5. Nat \subseteq S
  <2> HIDE DEF S
  <2>1. QED  BY <1>1, <1>4, NatSet
<1>6. 2 * size \in S
  <2> HIDE DEF S
  <2>1. QED  BY <1>5, SizeFacts
<1>7. \A i \in D : i >= 2 * size - 2 * size
  BY SizeFacts DEF Nodes
<1>8. PICK f \in [D -> V] : \A i \in D : f[i] = E(f, i)
  <2> HIDE DEF E
  <2>1. QED  BY <1>6, <1>7
<1>9. QED  BY <1>8 DEF LeafSolution

-----------------------------------------------------------------------------
\* The pages under a node.
LEMMA NodeSizes ==
  /\ node_size \in [Nodes -> Nat]
  /\ \A i \in Nodes : node_size[i] = IF i = 0 THEN size ELSE node_size[PARENT(i)] \div 2
<1> DEFINE G == [i \in Nodes |-> [v \in Nat |-> v \div 2]]
<1>1. G \in [Nodes -> [Nat -> Nat]]
  OBVIOUS
<1>2. PICK f \in [Nodes -> Nat] :
        \A i \in Nodes : f[i] = IF i = 0 THEN size ELSE G[i][f[PARENT(i)]]
  <2> DEFINE V == Nat
  <2> HIDE DEF G
  <2>1. RootRecursion(V, size, G)
    BY <1>1, SizeFacts DEF RootRecursion
  <2> HIDE DEF V
  <2>2. PICK f : RootSolution(f, V, size, G)
    BY <2>1, RootRecursionSolved
  <2>3. QED  BY <2>2 DEF V, RootSolution
<1>3. ASSUME NEW i \in Nodes
      PROVE  f[i] = IF i = 0 THEN size ELSE f[PARENT(i)] \div 2
  <2>1. i # 0 => f[PARENT(i)] \in Nat
    BY Above
  <2>2. i # 0 => G[i][f[PARENT(i)]] = f[PARENT(i)] \div 2
    BY <2>1
  <2> HIDE DEF G
  <2>3. QED  BY <1>2, <2>2
<1>4. f = [i \in Nodes |-> IF i = 0 THEN size ELSE f[PARENT(i)] \div 2]
  BY <1>3
<1>5. node_size = [i \in Nodes |-> IF i = 0 THEN size ELSE node_size[PARENT(i)] \div 2]
  BY <1>4 DEF node_size
<1>6. \A i \in Nodes : node_size[i] = IF i = 0 THEN size ELSE node_size[PARENT(i)] \div 2
  BY <1>5
<1> DEFINE S == {i \in Nodes : node_size[i] \in Nat}
<1>7. 0 \in S
  BY <1>6, SizeFacts DEF Nodes
<1>8. \A i \in Nodes : i # 0 /\ PARENT(i) \in S => i \in S
  BY <1>6
<1>9. Nodes \subseteq S
  <2> HIDE DEF S
  <2>1. QED  BY <1>7, <1>8, FromRoot
<1>10. QED  BY <1>5, <1>6, <1>9

\* A node has a power of two of them, and their numbers fit the level.
LEMMA NodeFits ==
  ASSUME NEW i \in Nodes
  PROVE  /\ node_size[i] \in Powers
         /\ size <= (i + 1) * node_size[i] /\ (i + 2) * node_size[i] <= 2 * size
<1> DEFINE Fits(j) == /\ node_size[j] \in Powers
                      /\ size <= (j + 1) * node_size[j] /\ (j + 2) * node_size[j] <= 2 * size
           S == {j \in Nodes : Fits(j)}
<1>1. 0 \in S
  <2>1. 0 \in Nodes /\ node_size[0] = size
    BY NodeSizes, SizeFacts DEF Nodes
  <2>2. size <= (0 + 1) * size /\ (0 + 2) * size <= 2 * size
    BY SizeFacts
  <2>3. QED  BY <2>1, <2>2, SizeFacts
<1>2. ASSUME NEW j \in Nodes, j # 0, PARENT(j) \in S  PROVE  j \in S
  <2> DEFINE p == PARENT(j)
             n == node_size[p]
             h == node_size[j]
  <2>1. /\ p \in Nodes /\ p \in Nat /\ p + 1 < size /\ j \in Nat
        /\ j = 2 * p + 1 \/ j = 2 * p + 2
    BY <1>2, Above, SizeFacts DEF Nodes, Inner, LEFT_LEAF, RIGHT_LEAF
  <2>2. h = n \div 2 /\ n \in Powers /\ size <= (p + 1) * n /\ (p + 2) * n <= 2 * size
    BY <1>2, <2>1, NodeSizes
  <2>3. n # 1
    BY <2>1, <2>2, SizeFacts
  <2>4. h \in Powers /\ n = 2 * h /\ h \in Nat
    BY <2>2, <2>3, PowerHalf
  <2> HIDE DEF p, n, h
  <2>5. (p + 1) * n = (2 * p + 2) * h /\ (p + 2) * n = (2 * p + 4) * h
    BY <2>1, <2>4
  <2>6. /\ (j + 1) * h = (2 * p + 2) * h \/ (j + 1) * h = (2 * p + 2) * h + h
        /\ (j + 2) * h = (2 * p + 4) * h \/ (j + 2) * h + h = (2 * p + 4) * h
    <3>1. CASE j = 2 * p + 1
      <4>1. (j + 1) * h = (2 * p + 2) * h /\ (j + 2) * h + h = (2 * p + 4) * h
        BY <2>1, <2>4, <3>1
      <4>2. QED  BY <4>1
    <3>2. CASE j = 2 * p + 2
      <4>1. (j + 1) * h = (2 * p + 2) * h + h /\ (j + 2) * h = (2 * p + 4) * h
        BY <2>1, <2>4, <3>2
      <4>2. QED  BY <4>1
    <3>3. QED  BY <2>1, <3>1, <3>2
  <2>7. /\ (2 * p + 2) * h \in Nat /\ (2 * p + 4) * h \in Nat
        /\ (j + 1) * h \in Nat /\ (j + 2) * h \in Nat
    BY <2>1, <2>4
  <2>8. size <= (j + 1) * h /\ (j + 2) * h <= 2 * size
    <3> DEFINE A == (2 * p + 2) * h
               B == (2 * p + 4) * h
               C == (j + 1) * h
               D == (j + 2) * h
    <3>1. /\ A \in Nat /\ B \in Nat /\ C \in Nat /\ D \in Nat /\ size \in Nat /\ h \in Nat
          /\ size <= A /\ B <= 2 * size /\ (C = A \/ C = A + h) /\ (D = B \/ D + h = B)
      BY <2>2, <2>4, <2>5, <2>6, <2>7, SizeFacts
    <3> HIDE DEF A, B, C, D
    <3>2. size <= C /\ D <= 2 * size
      BY <3>1
    <3>3. QED  BY <3>2 DEF C, D
  <2>9. QED  BY <2>4, <2>8 DEF h
<1>3. Nodes \subseteq S
  <2> HIDE DEF S
  <2>1. QED  BY <1>1, <1>2, FromRoot
<1>4. QED  BY <1>3

\* Halving: what a child has, and what a leaf.
LEMMA Half ==
  ASSUME NEW i \in Nodes
  PROVE  /\ node_size[i] \in Nat \ {0} /\ node_size[i] \in Powers
         /\ node_size[0] = size
         /\ ~ Inner(i) => node_size[i] = 1
         /\ Inner(i) => /\ node_size[i] = 2 * node_size[LEFT_LEAF(i)]
                        /\ node_size[i] = 2 * node_size[RIGHT_LEAF(i)]
<1> DEFINE n == node_size[i]
<1>1. /\ n \in Powers /\ n \in Nat \ {0} /\ i \in Nat
      /\ size <= (i + 1) * n /\ (i + 2) * n <= 2 * size
  BY NodeFits, PowerHalf DEF Nodes
<1>2. node_size[0] = size
  BY NodeSizes, SizeFacts DEF Nodes
<1> HIDE DEF n
<1>3. ASSUME ~ Inner(i)  PROVE  n = 1
  <2>1. size + 1 <= i + 2
    BY <1>1, <1>3, SizeFacts DEF Inner
  <2>2. n * (size + 1) <= n * (i + 2)
    BY <1>1, <2>1, SizeFacts, MulMonotone
  <2>3. n * (i + 2) = (i + 2) * n /\ n * (size + 1) = n * size + n
        /\ n * size \in Nat /\ (i + 2) * n \in Nat
    BY <1>1, SizeFacts
  <2>4. n * size < 2 * size
    <3> DEFINE A == n * size
               B == (i + 2) * n
    <3>1. A \in Nat /\ B \in Nat /\ A + n <= B /\ B <= 2 * size
      BY <1>1, <2>2, <2>3
    <3> HIDE DEF A, B
    <3>2. A < 2 * size
      BY <1>1, <3>1, SizeFacts
    <3>3. QED  BY <3>2 DEF A
  <2>5. n < 2
    <3> SUFFICES ASSUME 2 <= n  PROVE  FALSE
      BY <1>1
    <3>1. size * 2 <= size * n
      BY <1>1, SizeFacts, MulMonotone
    <3>2. size * n = n * size /\ size * 2 = 2 * size
      BY <1>1, SizeFacts
    <3>3. QED  BY <2>3, <2>4, <3>1, <3>2, SizeFacts
  <2>6. QED  BY <1>1, <2>5
<1>4. ASSUME Inner(i)
      PROVE  n = 2 * node_size[LEFT_LEAF(i)] /\ n = 2 * node_size[RIGHT_LEAF(i)]
  <2>1. n # 1
    BY <1>1, <1>4, SizeFacts DEF Inner
  <2>2. n = 2 * (n \div 2)
    BY <1>1, <2>1, PowerHalf
  <2>3. /\ LEFT_LEAF(i) \in Nodes /\ PARENT(LEFT_LEAF(i)) = i /\ LEFT_LEAF(i) # 0
        /\ RIGHT_LEAF(i) \in Nodes /\ PARENT(RIGHT_LEAF(i)) = i /\ RIGHT_LEAF(i) # 0
    BY <1>1, <1>4, Below
  <2>4. node_size[LEFT_LEAF(i)] = n \div 2 /\ node_size[RIGHT_LEAF(i)] = n \div 2
    BY <2>3, NodeSizes DEF n
  <2>5. QED  BY <2>2, <2>4
<1>5. QED  BY <1>1, <1>2, <1>3, <1>4 DEF n

Under(i) == first_page(i) .. first_page(i) + node_size[i] - 1

\* They are a run: the left child has its first half.
LEMMA Runs ==
  ASSUME NEW i \in Nodes
  PROVE  /\ first_page(i) \in Nat /\ first_page(i) + node_size[i] <= size
         /\ first_page(0) = 0
         /\ ~ Inner(i) => i = first_page(i) + size - 1
         /\ Inner(i) => /\ first_page(LEFT_LEAF(i)) = first_page(i)
                        /\ first_page(RIGHT_LEAF(i)) = first_page(i) + node_size[LEFT_LEAF(i)]
<1> DEFINE n == node_size[i]
<1>1. /\ n \in Nat \ {0} /\ i \in Nat /\ size <= (i + 1) * n /\ (i + 2) * n <= 2 * size
      /\ (i + 2) * n = (i + 1) * n + n /\ (i + 1) * n \in Nat
  BY Half, NodeFits DEF Nodes
<1>2. first_page(i) = (i + 1) * n - size
  BY DEF first_page
<1> HIDE DEF n
<1>3. first_page(i) \in Nat /\ first_page(i) + n <= size
  <2> DEFINE A == (i + 1) * n
  <2>1. A \in Nat /\ n \in Nat /\ size <= A /\ A + n <= 2 * size /\ first_page(i) = A - size
    BY <1>1, <1>2
  <2> HIDE DEF A
  <2>2. QED  BY <2>1, SizeFacts
<1>4. first_page(0) = 0
  <2>1. 0 \in Nodes /\ node_size[0] = size /\ (0 + 1) * size = size
    BY Half, SizeFacts DEF Nodes
  <2>2. QED  BY <2>1, SizeFacts DEF first_page
<1>5. ASSUME ~ Inner(i)  PROVE  i = first_page(i) + size - 1
  <2>1. n = 1
    BY <1>5, Half DEF n
  <2>2. (i + 1) * n = i + 1
    BY <1>1, <2>1
  <2>3. QED  BY <1>1, <1>2, <2>2, SizeFacts
<1>6. ASSUME Inner(i)
      PROVE  /\ first_page(LEFT_LEAF(i)) = first_page(i)
             /\ first_page(RIGHT_LEAF(i)) = first_page(i) + node_size[LEFT_LEAF(i)]
  <2> DEFINE h == node_size[LEFT_LEAF(i)]
  <2>1. /\ n = 2 * h /\ h \in Nat /\ node_size[RIGHT_LEAF(i)] = h
    <3>1. LEFT_LEAF(i) \in Nodes /\ RIGHT_LEAF(i) \in Nodes
      BY <1>6, Below
    <3>2. node_size[LEFT_LEAF(i)] \in Nat /\ node_size[RIGHT_LEAF(i)] \in Nat
      BY <3>1, NodeSizes
    <3>3. n = 2 * node_size[LEFT_LEAF(i)] /\ n = 2 * node_size[RIGHT_LEAF(i)]
      BY <1>6, Half DEF n
    <3>4. QED  BY <3>2, <3>3
  <2>2. /\ first_page(LEFT_LEAF(i)) = (2 * i + 2) * h - size
        /\ first_page(RIGHT_LEAF(i)) = (2 * i + 3) * h - size
    <3>1. (2 * i + 1) + 1 = 2 * i + 2 /\ (2 * i + 2) + 1 = 2 * i + 3
      BY <1>1
    <3> HIDE DEF h
    <3>2. QED  BY <2>1, <3>1 DEF first_page, LEFT_LEAF, RIGHT_LEAF, h
  <2> HIDE DEF h
  <2>3. (i + 1) * n = (2 * i + 2) * h /\ (2 * i + 3) * h = (2 * i + 2) * h + h
    BY <1>1, <2>1
  <2>4. (2 * i + 2) * h \in Nat
    BY <1>1, <2>1
  <2>5. first_page(LEFT_LEAF(i)) = first_page(i) /\ first_page(RIGHT_LEAF(i)) = first_page(i) + h
    <3> DEFINE A == (2 * i + 2) * h
    <3>1. /\ A \in Nat /\ h \in Nat /\ first_page(i) = A - size
          /\ first_page(LEFT_LEAF(i)) = A - size /\ first_page(RIGHT_LEAF(i)) = (A + h) - size
      BY <1>2, <2>1, <2>2, <2>3, <2>4
    <3> HIDE DEF A
    <3>2. QED  BY <3>1, SizeFacts
  <2>6. QED  BY <2>5 DEF h
<1>7. QED  BY <1>3, <1>4, <1>5, <1>6 DEF n

\* A node's pages are those of its children.
LEMMA UnderChildren ==
  ASSUME NEW i \in Nodes, Inner(i)
  PROVE  Under(i) = Under(LEFT_LEAF(i)) \cup Under(RIGHT_LEAF(i))
<1> DEFINE l == LEFT_LEAF(i)
           r == RIGHT_LEAF(i)
<1>1. l \in Nodes /\ r \in Nodes
  BY Below
<1>2. /\ node_size[i] \in Nat /\ node_size[l] \in Nat /\ node_size[r] \in Nat /\ first_page(i) \in Nat
      /\ node_size[i] = 2 * node_size[l] /\ node_size[i] = 2 * node_size[r]
      /\ first_page(l) = first_page(i) /\ first_page(r) = first_page(i) + node_size[l]
  BY <1>1, Half, Runs
<1> HIDE DEF l, r
<1>3. Under(i) = Under(l) \cup Under(r)
  BY <1>2 DEF Under
<1>4. QED  BY <1>3 DEF l, r

-----------------------------------------------------------------------------
\* Nodes above and below each other.
LEMMA PathFacts ==
  /\ Path[0] = {0}
  /\ \A i \in Nodes : i # 0 => Path[i] = {i} \cup Path[PARENT(i)]
  /\ \A i \in Nodes : Path[i] \subseteq Nodes /\ i \in Path[i] /\ 0 \in Path[i]
  /\ \A i \in Nodes : \A a \in Path[i] : a <= i
<1> DEFINE V == SUBSET Nodes
           G == [i \in Nodes |-> [v \in V |-> {i} \cup v]]
<1>1. G \in [Nodes -> [V -> V]] /\ {0} \in V
  BY SizeFacts DEF Nodes
<1>2. PICK f \in [Nodes -> V] :
        \A i \in Nodes : f[i] = IF i = 0 THEN {0} ELSE G[i][f[PARENT(i)]]
  <2> DEFINE z == {0}
  <2> HIDE DEF G, V
  <2>1. RootRecursion(V, z, G)
    BY <1>1 DEF RootRecursion
  <2> HIDE DEF z
  <2>2. PICK f : RootSolution(f, V, z, G)
    BY <2>1, RootRecursionSolved
  <2>3. QED  BY <2>2 DEF z, RootSolution
<1>3. ASSUME NEW i \in Nodes
      PROVE  f[i] = IF i = 0 THEN {0} ELSE {i} \cup f[PARENT(i)]
  <2>1. i # 0 => f[PARENT(i)] \in V
    BY <1>2, Above
  <2>2. i # 0 => G[i][f[PARENT(i)]] = {i} \cup f[PARENT(i)]
    BY <2>1
  <2> HIDE DEF G
  <2>3. QED  BY <1>2, <2>2
<1>4. f = [i \in Nodes |-> IF i = 0 THEN {0} ELSE {i} \cup f[PARENT(i)]]
  BY <1>2, <1>3
<1>5. Path = [i \in Nodes |-> IF i = 0 THEN {0} ELSE {i} \cup Path[PARENT(i)]]
  BY <1>4 DEF Path
<1>6. Path[0] = {0} /\ \A i \in Nodes : i # 0 => Path[i] = {i} \cup Path[PARENT(i)]
  <2>1. 0 \in Nodes
    BY SizeFacts DEF Nodes
  <2>2. \A i \in Nodes : Path[i] = IF i = 0 THEN {0} ELSE {i} \cup Path[PARENT(i)]
    BY <1>5
  <2>3. QED  BY <2>1, <2>2
<1> DEFINE Q(i) == /\ Path[i] \subseteq Nodes /\ i \in Path[i] /\ 0 \in Path[i]
                   /\ \A a \in Path[i] : a <= i
           S == {i \in Nodes : Q(i)}
<1>7. 0 \in S
  BY <1>6, SizeFacts DEF Nodes
<1>8. ASSUME NEW i \in Nodes, i # 0, PARENT(i) \in S  PROVE  i \in S
  <2>1. PARENT(i) \in Nodes /\ PARENT(i) < i /\ Path[i] = {i} \cup Path[PARENT(i)] /\ Q(PARENT(i))
    BY <1>6, <1>8, Above
  <2>2. Path[i] \subseteq Nodes /\ i \in Path[i] /\ 0 \in Path[i]
    BY <2>1
  <2>3. \A a \in Path[i] : a <= i
    BY <2>1 DEF Nodes
  <2>4. QED  BY <2>2, <2>3
<1>9. Nodes \subseteq S
  <2> HIDE DEF S
  <2>1. QED  BY <1>7, <1>8, FromRoot
<1>10. QED  BY <1>6, <1>9

LEMMA PathUp ==
  ASSUME NEW i \in Nodes, NEW a \in Path[i], a # 0
  PROVE  PARENT(a) \in Path[i]
<1> DEFINE S == {j \in Nodes : \A b \in Path[j] : b # 0 => PARENT(b) \in Path[j]}
<1>1. 0 \in S
  BY PathFacts, SizeFacts DEF Nodes
<1>2. ASSUME NEW j \in Nodes, j # 0, PARENT(j) \in S  PROVE  j \in S
  <2>1. PARENT(j) \in Nodes /\ PARENT(j) \in Path[PARENT(j)] /\ Path[j] = {j} \cup Path[PARENT(j)]
    BY <1>2, Above, PathFacts
  <2>2. QED  BY <1>2, <2>1
<1>3. Nodes \subseteq S
  <2> HIDE DEF S
  <2>1. QED  BY <1>1, <1>2, FromRoot
<1>4. QED  BY <1>3

LEMMA PathTransitive ==
  ASSUME NEW i \in Nodes, NEW a \in Path[i]
  PROVE  Path[a] \subseteq Path[i]
<1> DEFINE S == {j \in Nodes : \A b \in Path[j] : Path[b] \subseteq Path[j]}
<1>1. 0 \in S
  BY PathFacts, SizeFacts DEF Nodes
<1>2. ASSUME NEW j \in Nodes, j # 0, PARENT(j) \in S  PROVE  j \in S
  <2>1. Path[j] = {j} \cup Path[PARENT(j)]
    BY <1>2, PathFacts
  <2>2. QED  BY <1>2, <2>1
<1>3. Nodes \subseteq S
  <2> HIDE DEF S
  <2>1. QED  BY <1>1, <1>2, FromRoot
<1>4. QED  BY <1>3

\* A node's pages are under those above it.
LEMMA UnderPath ==
  ASSUME NEW i \in Nodes, NEW a \in Path[i]
  PROVE  Under(i) \subseteq Under(a)
<1> DEFINE S == {j \in Nodes : \A b \in Path[j] : Under(j) \subseteq Under(b)}
<1>1. 0 \in S
  BY PathFacts, SizeFacts DEF Nodes
<1>2. ASSUME NEW j \in Nodes, j # 0, PARENT(j) \in S  PROVE  j \in S
  <2>1. Path[j] = {j} \cup Path[PARENT(j)]
    BY <1>2, PathFacts
  <2>2. Under(j) \subseteq Under(PARENT(j))
    BY <1>2, Above, UnderChildren
  <2>3. QED  BY <1>2, <2>1, <2>2
<1>3. Nodes \subseteq S
  <2> HIDE DEF S
  <2>1. QED  BY <1>1, <1>2, FromRoot
<1>4. QED  BY <1>3

\* Two nodes above the same one: one is above the other.
LEMMA PathLinear ==
  ASSUME NEW i \in Nodes, NEW a \in Path[i], NEW b \in Path[i]
  PROVE  a \in Path[b] \/ b \in Path[a]
<1> DEFINE S == {j \in Nodes : \A x, y \in Path[j] : x \in Path[y] \/ y \in Path[x]}
<1>1. 0 \in S
  BY PathFacts, SizeFacts DEF Nodes
<1>2. ASSUME NEW j \in Nodes, j # 0, PARENT(j) \in S  PROVE  j \in S
  <2>1. Path[j] = {j} \cup Path[PARENT(j)]
    BY <1>2, PathFacts
  <2>2. QED  BY <1>2, <2>1
<1>3. Nodes \subseteq S
  <2> HIDE DEF S
  <2>1. QED  BY <1>1, <1>2, FromRoot
<1>4. QED  BY <1>3

\* A node above another has one of its children on the way.
LEMMA PathChild ==
  ASSUME NEW i \in Nodes, NEW a \in Path[i], a # i
  PROVE  /\ a \in Nodes /\ Inner(a)
         /\ LEFT_LEAF(a) \in Path[i] \/ RIGHT_LEAF(a) \in Path[i]
<1> DEFINE Q(j) == \A b \in Path[j] : b # j =>
                     /\ Inner(b)
                     /\ LEFT_LEAF(b) \in Path[j] \/ RIGHT_LEAF(b) \in Path[j]
           S == {j \in Nodes : Q(j)}
<1>1. 0 \in S
  BY PathFacts, SizeFacts DEF Nodes
<1>2. ASSUME NEW j \in Nodes, j # 0, PARENT(j) \in S  PROVE  j \in S
  <2>1. /\ Path[j] = {j} \cup Path[PARENT(j)] /\ Q(PARENT(j))
        /\ Inner(PARENT(j)) /\ (j = LEFT_LEAF(PARENT(j)) \/ j = RIGHT_LEAF(PARENT(j)))
    BY <1>2, PathFacts, Above
  <2>2. ASSUME NEW b \in Path[j], b # j
        PROVE  Inner(b) /\ (LEFT_LEAF(b) \in Path[j] \/ RIGHT_LEAF(b) \in Path[j])
    <3>1. b \in Path[PARENT(j)]
      BY <2>1, <2>2
    <3>2. CASE b = PARENT(j)
      BY <2>1, <3>2
    <3>3. CASE b # PARENT(j)
      BY <2>1, <3>1, <3>3
    <3>4. QED  BY <3>2, <3>3
  <2>3. QED  BY <2>2
<1>3. Nodes \subseteq S
  <2> HIDE DEF S
  <2>1. QED  BY <1>1, <1>2, FromRoot
<1>4. QED  BY <1>3, PathFacts

\* The leaf of a page; the nodes above it are those that have the page.
Leaf(p) == p + size - 1

LEMMA LeafPath ==
  ASSUME NEW p \in Pfns, NEW i \in Nodes
  PROVE  Leaf(p) \in Nodes /\ (p \in Under(i) <=> i \in Path[Leaf(p)])
<1>1. Leaf(p) \in Nodes /\ ~ Inner(Leaf(p)) /\ p \in Nat
  BY SizeFacts DEF Leaf, Nodes, Pfns, Inner
<1> DEFINE S == {j \in Nodes : p \in Under(j) => j \in Path[Leaf(p)]}
<1>2. ASSUME NEW j \in Nodes, ~ Inner(j)  PROVE  j \in S
  <2>1. node_size[j] = 1 /\ j = first_page(j) + size - 1 /\ first_page(j) \in Nat
    BY <1>2, Half, Runs
  <2>2. p \in Under(j) => j = Leaf(p)
    BY <1>1, <2>1, SizeFacts DEF Under, Leaf
  <2>3. QED  BY <1>1, <2>2, PathFacts
<1>3. ASSUME NEW j \in Nodes, Inner(j), LEFT_LEAF(j) \in S, RIGHT_LEAF(j) \in S
      PROVE  j \in S
  <2> SUFFICES ASSUME p \in Under(j)  PROVE  j \in Path[Leaf(p)]
    OBVIOUS
  <2>1. p \in Under(LEFT_LEAF(j)) \/ p \in Under(RIGHT_LEAF(j))
    BY <1>1, <1>3, UnderChildren
  <2>2. PICK c \in Nodes : c # 0 /\ PARENT(c) = j /\ c \in Path[Leaf(p)]
    BY <1>3, <2>1, Below DEF Nodes
  <2>3. QED  BY <1>1, <2>2, PathUp
<1>4. Nodes \subseteq S
  <2> HIDE DEF S
  <2>1. QED  BY <1>2, <1>3, FromLeaves
<1>5. ASSUME i \in Path[Leaf(p)]  PROVE  p \in Under(i)
  <2>1. p \in Under(Leaf(p))
    <3>1. /\ node_size[Leaf(p)] = 1 /\ Leaf(p) = first_page(Leaf(p)) + size - 1
          /\ first_page(Leaf(p)) \in Nat
      BY <1>1, Half, Runs
    <3>2. first_page(Leaf(p)) = p
      <4> DEFINE f == first_page(Leaf(p))
      <4>1. p + size - 1 = f + size - 1 /\ f \in Nat
        BY <3>1 DEF Leaf
      <4> HIDE DEF f
      <4>2. f = p
        BY <1>1, <4>1, SizeFacts
      <4>3. QED  BY <4>2 DEF f
    <3>3. QED  BY <1>1, <3>1, <3>2 DEF Under
  <2>2. QED  BY <1>1, <1>5, <2>1, UnderPath
<1>6. QED  BY <1>1, <1>4, <1>5

-----------------------------------------------------------------------------
\* What the entries of the tree say of each other: an inner node has what its
\* children give together, unless it was taken, from a whole node.
Halves(l, r, n) == IF l + r = n THEN n ELSE MAX(l, r)

TreeOK(bm) ==
  /\ bm \in [Nodes -> Nat]
  /\ \A i \in Nodes : bm[i] <= node_size[i]
  /\ \A i \in Nodes : Inner(i) =>
       LET l == LEFT_LEAF(i)
           r == RIGHT_LEAF(i) IN
       \/ bm[i] = Halves(bm[l], bm[r], node_size[i])
       \/ bm[i] = 0 /\ bm[l] = node_size[l] /\ bm[r] = node_size[r]

\* The nodes buddy_alloc took and buddy_free has not given back, read off the
\* tree.
Taken(bm) == {i \in Nodes : bm[i] = 0 /\ (Inner(i) => bm[LEFT_LEAF(i)] # 0)}

LEMMA TreeCases ==
  ASSUME NEW bm, TreeOK(bm), NEW i \in Nodes
  PROVE  /\ bm[i] \in Nat /\ bm[i] <= node_size[i] /\ node_size[i] \in Nat \ {0}
         /\ ~ Inner(i) => (i \in Taken(bm) /\ bm[i] = 0) \/ (i \notin Taken(bm) /\ bm[i] = node_size[i])
         /\ Inner(i) /\ i \in Taken(bm) =>
              /\ bm[i] = 0
              /\ bm[LEFT_LEAF(i)] = node_size[LEFT_LEAF(i)]
              /\ bm[RIGHT_LEAF(i)] = node_size[RIGHT_LEAF(i)]
         /\ Inner(i) /\ i \notin Taken(bm) =>
              bm[i] = Halves(bm[LEFT_LEAF(i)], bm[RIGHT_LEAF(i)], node_size[i])
<1>1. bm[i] \in Nat /\ bm[i] <= node_size[i] /\ node_size[i] \in Nat \ {0}
  BY Half DEF TreeOK
<1>2. ASSUME ~ Inner(i)
      PROVE  (i \in Taken(bm) /\ bm[i] = 0) \/ (i \notin Taken(bm) /\ bm[i] = node_size[i])
  BY <1>1, <1>2, Half DEF Taken
<1>3. ASSUME Inner(i)
      PROVE  /\ i \in Taken(bm) =>
                  /\ bm[i] = 0
                  /\ bm[LEFT_LEAF(i)] = node_size[LEFT_LEAF(i)]
                  /\ bm[RIGHT_LEAF(i)] = node_size[RIGHT_LEAF(i)]
             /\ i \notin Taken(bm) =>
                  bm[i] = Halves(bm[LEFT_LEAF(i)], bm[RIGHT_LEAF(i)], node_size[i])
  <2> DEFINE l == LEFT_LEAF(i)
             r == RIGHT_LEAF(i)
  <2>1. /\ l \in Nodes /\ r \in Nodes
        /\ bm[l] \in Nat /\ bm[r] \in Nat /\ node_size[l] \in Nat \ {0} /\ node_size[r] \in Nat \ {0}
    BY <1>3, Below, Half DEF TreeOK
  <2>2. \/ bm[i] = Halves(bm[l], bm[r], node_size[i])
        \/ bm[i] = 0 /\ bm[l] = node_size[l] /\ bm[r] = node_size[r]
    BY <1>3 DEF TreeOK
  <2>3. i \in Taken(bm) <=> bm[i] = 0 /\ bm[l] # 0
    BY <1>3 DEF Taken
  <2> HIDE DEF l, r
  <2>4. i \in Taken(bm) => bm[i] = 0 /\ bm[l] = node_size[l] /\ bm[r] = node_size[r]
    BY <1>1, <2>1, <2>2, <2>3 DEF Halves, MAX
  <2>5. i \notin Taken(bm) => bm[i] = Halves(bm[l], bm[r], node_size[i])
    BY <1>1, <2>1, <2>2, <2>3
  <2>6. QED  BY <2>4, <2>5 DEF l, r
<1>4. QED  BY <1>1, <1>2, <1>3

\* An inner node that was not taken: it is whole when its children are, has
\* room where they have, and has as much as one of them otherwise.
LEMMA Combined ==
  ASSUME NEW bm, TreeOK(bm), NEW i \in Nodes, Inner(i), i \notin Taken(bm),
         NEW l, NEW r, l = LEFT_LEAF(i), r = RIGHT_LEAF(i)
  PROVE  /\ l \in Nodes /\ r \in Nodes
         /\ bm[i] \in Nat /\ bm[l] \in Nat /\ bm[r] \in Nat
         /\ bm[l] <= bm[i] /\ bm[r] <= bm[i]
         /\ bm[i] = node_size[i] <=> bm[l] = node_size[l] /\ bm[r] = node_size[r]
         /\ bm[i] # node_size[i] => bm[i] = bm[l] \/ bm[i] = bm[r]
<1>1. /\ l \in Nodes /\ r \in Nodes /\ bm[i] = Halves(bm[l], bm[r], node_size[i])
      /\ bm[i] \in Nat /\ bm[l] \in Nat /\ bm[r] \in Nat
      /\ bm[l] <= node_size[l] /\ bm[r] <= node_size[r]
  BY Below, TreeCases
<1>2. /\ node_size[i] = 2 * node_size[l] /\ node_size[i] = 2 * node_size[r]
      /\ node_size[i] \in Nat \ {0} /\ node_size[l] \in Nat /\ node_size[r] \in Nat
  BY <1>1, Half
<1>3. QED  BY <1>1, <1>2 DEF Halves, MAX

\* All of a whole node is free.
LEMMA WholeBelow ==
  ASSUME NEW bm, TreeOK(bm), NEW i \in Nodes, NEW a \in Path[i], bm[a] = node_size[a]
  PROVE  bm[i] = node_size[i] /\ i \notin Taken(bm)
<1> DEFINE S == {j \in Nodes : \A b \in Path[j] : bm[b] = node_size[b] => bm[j] = node_size[j]}
<1>1. 0 \in S
  BY PathFacts, SizeFacts DEF Nodes
<1>2. ASSUME NEW j \in Nodes, j # 0, PARENT(j) \in S  PROVE  j \in S
  <2> DEFINE p == PARENT(j)
  <2>1. /\ p \in Nodes /\ Inner(p) /\ (j = LEFT_LEAF(p) \/ j = RIGHT_LEAF(p))
        /\ Path[j] = {j} \cup Path[p]
    BY <1>2, Above, PathFacts
  <2>2. ASSUME bm[p] = node_size[p]  PROVE  bm[j] = node_size[j]
    <3>1. p \notin Taken(bm)
      BY <2>1, <2>2, TreeCases DEF Taken
    <3>2. QED  BY <2>1, <2>2, <3>1, Combined
  <2>3. QED  BY <1>2, <2>1, <2>2
<1>3. Nodes \subseteq S
  <2> HIDE DEF S
  <2>1. QED  BY <1>1, <1>2, FromRoot
<1>4. bm[i] = node_size[i]
  BY <1>3
<1>5. QED  BY <1>4, TreeCases DEF Taken

\* All below a node that was taken is as it was when it was whole.
LEMMA TakenBelow ==
  ASSUME NEW bm, TreeOK(bm), NEW i \in Nodes, NEW a \in Path[i], a \in Taken(bm), i # a
  PROVE  bm[i] = node_size[i] /\ i \notin Taken(bm)
<1>1. a \in Nodes /\ Inner(a) /\ (LEFT_LEAF(a) \in Path[i] \/ RIGHT_LEAF(a) \in Path[i])
  BY PathChild
<1>2. /\ bm[LEFT_LEAF(a)] = node_size[LEFT_LEAF(a)]
      /\ bm[RIGHT_LEAF(a)] = node_size[RIGHT_LEAF(a)]
  BY <1>1, TreeCases
<1>3. QED  BY <1>1, <1>2, WholeBelow

\* Nodes that were taken have no page in common.
LEMMA TakenApart ==
  ASSUME NEW bm, TreeOK(bm), NEW a \in Taken(bm), NEW b \in Taken(bm), NEW p \in Pfns,
         p \in Under(a), p \in Under(b)
  PROVE  a = b
<1>1. a \in Nodes /\ b \in Nodes
  BY DEF Taken
<1>2. a \in Path[b] \/ b \in Path[a]
  BY <1>1, LeafPath, PathLinear
<1>3. QED  BY <1>1, <1>2, TakenBelow

\* Where nothing was taken above, a node has no more than those above it.
LEMMA RoomAbove ==
  ASSUME NEW bm, TreeOK(bm), NEW i \in Nodes, NEW a \in Path[i], Path[i] \cap Taken(bm) \subseteq {i}
  PROVE  bm[i] <= bm[a]
<1> DEFINE Q(j) == Path[j] \cap Taken(bm) \subseteq {j} => \A b \in Path[j] : bm[j] <= bm[b]
           S == {j \in Nodes : Q(j)}
<1>1. 0 \in S
  BY PathFacts, SizeFacts, TreeCases DEF Nodes
<1>2. ASSUME NEW j \in Nodes, j # 0, PARENT(j) \in S  PROVE  j \in S
  <2> DEFINE p == PARENT(j)
  <2> SUFFICES ASSUME Path[j] \cap Taken(bm) \subseteq {j}, NEW b \in Path[j]
               PROVE  bm[j] <= bm[b]
    BY <1>2
  <2>1. /\ p \in Nodes /\ Inner(p) /\ p # j /\ (j = LEFT_LEAF(p) \/ j = RIGHT_LEAF(p))
        /\ Path[j] = {j} \cup Path[p] /\ p \in Path[p] /\ p < j
    BY <1>2, Above, PathFacts DEF Nodes
  <2>2. p \notin Taken(bm) /\ j \notin Path[p]
    BY <2>1, PathFacts DEF Nodes
  <2>3. Path[p] \cap Taken(bm) \subseteq {p}
    BY <2>1, <2>2
  <2>4. bm[j] <= bm[p] /\ bm[j] \in Nat /\ bm[p] \in Nat
    BY <2>1, <2>2, Combined
  <2>5. CASE b = j
    BY <2>4, <2>5
  <2>6. CASE b # j
    <3>1. b \in Path[p] /\ b \in Nodes
      BY <2>1, <2>6, PathFacts
    <3>2. bm[p] <= bm[b] /\ bm[b] \in Nat
      BY <1>2, <2>3, <3>1, TreeCases
    <3>3. QED  BY <2>4, <3>2
  <2>7. QED  BY <2>5, <2>6
<1>3. Nodes \subseteq S
  <2> HIDE DEF S
  <2>1. QED  BY <1>1, <1>2, FromRoot
<1>4. QED  BY <1>3

\* A node with nothing taken above or below is whole.
LEMMA WholeWhereFree ==
  ASSUME NEW bm, TreeOK(bm), NEW i \in Nodes, \A b \in Taken(bm) : i \notin Path[b]
  PROVE  bm[i] = node_size[i]
<1> DEFINE Q(j) == (\A b \in Taken(bm) : j \notin Path[b]) => bm[j] = node_size[j]
           S == {j \in Nodes : Q(j)}
<1>1. ASSUME NEW j \in Nodes, ~ Inner(j)  PROVE  j \in S
  BY <1>1, TreeCases, PathFacts DEF Taken
<1>2. ASSUME NEW j \in Nodes, Inner(j), LEFT_LEAF(j) \in S, RIGHT_LEAF(j) \in S
      PROVE  j \in S
  <2> SUFFICES ASSUME \A b \in Taken(bm) : j \notin Path[b]  PROVE  bm[j] = node_size[j]
    BY <1>2
  <2>1. j \notin Taken(bm)
    BY PathFacts
  <2>2. /\ LEFT_LEAF(j) \in Nodes /\ PARENT(LEFT_LEAF(j)) = j /\ LEFT_LEAF(j) # 0
        /\ RIGHT_LEAF(j) \in Nodes /\ PARENT(RIGHT_LEAF(j)) = j /\ RIGHT_LEAF(j) # 0
    BY <1>2, Below DEF Nodes
  <2>3. \A b \in Taken(bm) : LEFT_LEAF(j) \notin Path[b] /\ RIGHT_LEAF(j) \notin Path[b]
    BY <2>2, PathUp DEF Taken
  <2>4. bm[LEFT_LEAF(j)] = node_size[LEFT_LEAF(j)] /\ bm[RIGHT_LEAF(j)] = node_size[RIGHT_LEAF(j)]
    BY <1>2, <2>3
  <2>5. QED  BY <1>2, <2>1, <2>4, Combined
<1>3. Nodes \subseteq S
  <2> HIDE DEF S
  <2>1. QED  BY <1>1, <1>2, FromLeaves
<1>4. QED  BY <1>3

\* Under a node without room every page is taken.
LEMMA NoRoom ==
  ASSUME NEW bm, TreeOK(bm), NEW i \in Nodes, bm[i] = 0, NEW p \in Pfns, p \in Under(i)
  PROVE  \E b \in Taken(bm) : p \in Under(b)
<1> DEFINE Q(j) == bm[j] = 0 /\ p \in Under(j) => \E b \in Taken(bm) : p \in Under(b)
           S == {j \in Nodes : Q(j)}
<1>1. ASSUME NEW j \in Nodes, ~ Inner(j)  PROVE  j \in S
  BY <1>1 DEF Taken
<1>2. ASSUME NEW j \in Nodes, Inner(j), LEFT_LEAF(j) \in S, RIGHT_LEAF(j) \in S
      PROVE  j \in S
  <2> SUFFICES ASSUME bm[j] = 0, p \in Under(j), j \notin Taken(bm)
               PROVE  \E b \in Taken(bm) : p \in Under(b)
    BY <1>2
  <2>1. bm[LEFT_LEAF(j)] = 0 /\ bm[RIGHT_LEAF(j)] = 0
    BY <1>2, Combined
  <2>2. p \in Under(LEFT_LEAF(j)) \/ p \in Under(RIGHT_LEAF(j))
    BY <1>2, UnderChildren
  <2>3. QED  BY <1>2, <2>1, <2>2
<1>3. Nodes \subseteq S
  <2> HIDE DEF S
  <2>1. QED  BY <1>1, <1>2, FromLeaves
<1>4. QED  BY <1>3

-----------------------------------------------------------------------------
\* buddy_alloc and buddy_free change a node and follow up to the root.
Rebuild(bm, i, v, G) ==
  /\ bm \in [Nodes -> Nat] /\ i \in Nodes /\ v \in Nat
  /\ G \in [Nodes -> [Nat -> [Nat -> Nat]]]

Rebuilt(f, bm, i, v, G) ==
  /\ f \in [Nodes -> Nat]
  /\ \A j \in Nodes :
       f[j] = IF j = i THEN v ELSE IF j \notin Path[i] THEN bm[j]
              ELSE G[j][f[LEFT_LEAF(j)]][f[RIGHT_LEAF(j)]]

LEMMA RebuildExists ==
  ASSUME NEW bm, NEW i, NEW v, NEW G, Rebuild(bm, i, v, G)
  PROVE  \E f : Rebuilt(f, bm, i, v, G)
<1> DEFINE V == Nat
           D == Nodes
           Stop == {i} \cup (Nodes \ Path[i])
           B == [j \in Nodes |-> IF j = i THEN v ELSE bm[j]]
<1> USE DEF Rebuild
<1>1. /\ D \subseteq Nodes /\ Stop \subseteq D /\ B \in [D -> V]
      /\ G \in [Nodes -> [V -> [V -> V]]]
  OBVIOUS
<1>2. \A j \in D \ Stop : LEFT_LEAF(j) \in D /\ RIGHT_LEAF(j) \in D
  BY PathChild, Below
<1>3. PICK f : LeafSolution(f, V, D, Stop, B, G)
  <2> HIDE DEF D, V, Stop, B
  <2>1. LeafRecursion(V, D, Stop, B, G)
    BY <1>1, <1>2 DEF LeafRecursion
  <2>2. QED  BY <2>1, LeafRecursionSolved
<1>4. f \in [Nodes -> Nat]
  BY <1>3 DEF LeafSolution
<1>5. ASSUME NEW j \in Nodes
      PROVE  f[j] = IF j = i THEN v ELSE IF j \notin Path[i] THEN bm[j]
                    ELSE G[j][f[LEFT_LEAF(j)]][f[RIGHT_LEAF(j)]]
  <2>1. f[j] = IF j \in Stop THEN B[j] ELSE G[j][f[LEFT_LEAF(j)]][f[RIGHT_LEAF(j)]]
    BY <1>3 DEF LeafSolution
  <2>2. B[j] = IF j = i THEN v ELSE bm[j]
    OBVIOUS
  <2> HIDE DEF B
  <2>3. QED  BY <2>1, <2>2
<1>6. QED  BY <1>4, <1>5 DEF Rebuilt

\* The loop of buddy_alloc.
LEMMA TakingIs ==
  ASSUME NEW i \in Nodes, bitmap \in [Nodes -> Nat]
  PROVE  /\ Taking(i) \in [Nodes -> Nat]
         /\ Taking(i)[i] = 0
         /\ \A j \in Nodes : j \notin Path[i] => Taking(i)[j] = bitmap[j]
         /\ \A j \in Path[i] : j # i =>
              Taking(i)[j] = MAX(Taking(i)[LEFT_LEAF(j)], Taking(i)[RIGHT_LEAF(j)])
<1> DEFINE Step(f, j) == IF j = i THEN 0
                         ELSE IF j \in Path[i] THEN MAX(f[LEFT_LEAF(j)], f[RIGHT_LEAF(j)])
                         ELSE bitmap[j]
           F == CHOOSE f : f = [j \in Nodes |-> Step(f, j)]
           G == [j \in Nodes |-> [x \in Nat |-> [y \in Nat |-> MAX(x, y)]]]
<1>1. Taking(i) = F
  BY DEF Taking
<1>2. G \in [Nodes -> [Nat -> [Nat -> Nat]]]
  BY DEF MAX
<1>3. PICK f : Rebuilt(f, bitmap, i, 0, G)
  <2> HIDE DEF G
  <2>1. Rebuild(bitmap, i, 0, G)
    BY <1>2 DEF Rebuild
  <2>2. QED  BY <2>1, RebuildExists
<1>4. ASSUME NEW j \in Nodes  PROVE  f[j] = Step(f, j)
  <2>1. CASE j = i \/ j \notin Path[i]
    <3> HIDE DEF G
    <3>1. QED  BY <1>3, <2>1 DEF Rebuilt
  <2>2. CASE j # i /\ j \in Path[i]
    <3>1. f[LEFT_LEAF(j)] \in Nat /\ f[RIGHT_LEAF(j)] \in Nat
      BY <1>3, <2>2, PathChild, Below DEF Rebuilt
    <3>2. G[j][f[LEFT_LEAF(j)]][f[RIGHT_LEAF(j)]] = MAX(f[LEFT_LEAF(j)], f[RIGHT_LEAF(j)])
      BY <3>1
    <3> HIDE DEF G
    <3>3. QED  BY <1>3, <2>2, <3>2 DEF Rebuilt
  <2>3. QED  BY <2>1, <2>2
<1>5. f = [j \in Nodes |-> Step(f, j)]
  <2>1. f \in [Nodes -> Nat]
    BY <1>3 DEF Rebuilt
  <2> HIDE DEF Step
  <2>2. QED  BY <1>4, <2>1
<1>6. F = [j \in Nodes |-> Step(F, j)]
  <2> HIDE DEF Step
  <2>1. QED  BY <1>5
<1> HIDE DEF F
<1>7. \A j \in Nodes : F[j] = Step(F, j)
  <2> HIDE DEF Step
  <2>1. QED  BY <1>6
<1> DEFINE S == {j \in Nodes : F[j] \in Nat}
<1>8. ASSUME NEW j \in Nodes, ~ Inner(j)  PROVE  j \in S
  <2>1. j = i \/ j \notin Path[i]
    BY <1>8, PathChild
  <2>2. QED  BY <1>7, <2>1
<1>9. ASSUME NEW j \in Nodes, LEFT_LEAF(j) \in S, RIGHT_LEAF(j) \in S  PROVE  j \in S
  BY <1>7, <1>9 DEF MAX
<1>10. Nodes \subseteq S
  <2> HIDE DEF S
  <2>1. QED  BY <1>8, <1>9, FromLeaves
<1>11. F \in [Nodes -> Nat]
  <2>1. \A j \in Nodes : F[j] \in Nat
    BY <1>10
  <2> HIDE DEF Step
  <2>2. QED  BY <1>6, <2>1
<1>12. QED  BY <1>1, <1>7, <1>11, PathFacts

\* The loop of buddy_free.
LEMMA ReturningIs ==
  ASSUME NEW i \in Nodes, bitmap \in [Nodes -> Nat]
  PROVE  /\ Returning(i) \in [Nodes -> Nat]
         /\ Returning(i)[i] = node_size[i]
         /\ \A j \in Nodes : j \notin Path[i] => Returning(i)[j] = bitmap[j]
         /\ \A j \in Path[i] : j # i =>
              Returning(i)[j] = Halves(Returning(i)[LEFT_LEAF(j)], Returning(i)[RIGHT_LEAF(j)],
                                       node_size[j])
<1> DEFINE Step(f, j) == IF j = i THEN node_size[i]
                         ELSE IF j \notin Path[i] THEN bitmap[j]
                         ELSE Halves(f[LEFT_LEAF(j)], f[RIGHT_LEAF(j)], node_size[j])
           F == CHOOSE f : f = [j \in Nodes |-> Step(f, j)]
           G == [j \in Nodes |-> [x \in Nat |-> [y \in Nat |-> Halves(x, y, node_size[j])]]]
<1>1. Returning(i) = F
  BY DEF Returning, Halves
<1>2. G \in [Nodes -> [Nat -> [Nat -> Nat]]]
  BY NodeSizes DEF Halves, MAX
<1>3. PICK f : Rebuilt(f, bitmap, i, node_size[i], G)
  <2> HIDE DEF G
  <2>1. Rebuild(bitmap, i, node_size[i], G)
    BY <1>2, NodeSizes DEF Rebuild
  <2>2. QED  BY <2>1, RebuildExists
<1>4. ASSUME NEW j \in Nodes  PROVE  f[j] = Step(f, j)
  <2>1. CASE j = i \/ j \notin Path[i]
    <3> HIDE DEF G
    <3>1. QED  BY <1>3, <2>1 DEF Rebuilt
  <2>2. CASE j # i /\ j \in Path[i]
    <3>1. f[LEFT_LEAF(j)] \in Nat /\ f[RIGHT_LEAF(j)] \in Nat
      BY <1>3, <2>2, PathChild, Below DEF Rebuilt
    <3>2. G[j][f[LEFT_LEAF(j)]][f[RIGHT_LEAF(j)]]
            = Halves(f[LEFT_LEAF(j)], f[RIGHT_LEAF(j)], node_size[j])
      BY <3>1
    <3> HIDE DEF G
    <3>3. QED  BY <1>3, <2>2, <3>2 DEF Rebuilt
  <2>3. QED  BY <2>1, <2>2
<1>5. f = [j \in Nodes |-> Step(f, j)]
  <2>1. f \in [Nodes -> Nat]
    BY <1>3 DEF Rebuilt
  <2> HIDE DEF Step
  <2>2. QED  BY <1>4, <2>1
<1>6. F = [j \in Nodes |-> Step(F, j)]
  <2> HIDE DEF Step
  <2>1. QED  BY <1>5
<1> HIDE DEF F
<1>7. \A j \in Nodes : F[j] = Step(F, j)
  <2> HIDE DEF Step
  <2>1. QED  BY <1>6
<1> DEFINE S == {j \in Nodes : F[j] \in Nat}
<1>8. ASSUME NEW j \in Nodes, ~ Inner(j)  PROVE  j \in S
  <2>1. j = i \/ j \notin Path[i]
    BY <1>8, PathChild
  <2>2. QED  BY <1>7, <2>1, NodeSizes
<1>9. ASSUME NEW j \in Nodes, LEFT_LEAF(j) \in S, RIGHT_LEAF(j) \in S  PROVE  j \in S
  BY <1>7, <1>9, NodeSizes DEF Halves, MAX
<1>10. Nodes \subseteq S
  <2> HIDE DEF S
  <2>1. QED  BY <1>8, <1>9, FromLeaves
<1>11. F \in [Nodes -> Nat]
  <2>1. \A j \in Nodes : F[j] \in Nat
    BY <1>10
  <2> HIDE DEF Step
  <2>2. QED  BY <1>6, <2>1
<1>12. QED  BY <1>1, <1>7, <1>11, PathFacts

\* Taking a whole node with nothing taken above it keeps the tree right, and
\* adds the node.
LEMMA TakingTree ==
  ASSUME TreeOK(bitmap), NEW i \in Nodes, bitmap[i] = node_size[i], Path[i] \cap Taken(bitmap) = {}
  PROVE  TreeOK(Taking(i)) /\ Taken(Taking(i)) = Taken(bitmap) \cup {i}
<1> DEFINE T == Taking(i)
           B == bitmap
<1>1. /\ T \in [Nodes -> Nat] /\ T[i] = 0
      /\ \A j \in Nodes : j \notin Path[i] => T[j] = B[j]
      /\ \A j \in Path[i] : j # i => T[j] = MAX(T[LEFT_LEAF(j)], T[RIGHT_LEAF(j)])
  BY TakingIs DEF TreeOK
<1>2. B \in [Nodes -> Nat] /\ \A j \in Nodes : B[j] <= node_size[j] /\ node_size[j] \in Nat \ {0}
  BY Half DEF TreeOK
<1> HIDE DEF T, B
<1> DEFINE Q(j) == T[j] <= node_size[j] /\ (j \in Path[i] => T[j] < node_size[j])
           S == {j \in Nodes : Q(j)}
<1>3. ASSUME NEW j \in Nodes, ~ Inner(j)  PROVE  j \in S
  <2>1. j = i \/ j \notin Path[i]
    BY <1>3, PathChild
  <2>2. QED  BY <1>1, <1>2, <2>1
<1>4. ASSUME NEW j \in Nodes, Inner(j), LEFT_LEAF(j) \in S, RIGHT_LEAF(j) \in S
      PROVE  j \in S
  <2>1. CASE j = i \/ j \notin Path[i]
    BY <1>1, <1>2, <2>1
  <2>2. CASE j # i /\ j \in Path[i]
    <3> DEFINE l == LEFT_LEAF(j)
               r == RIGHT_LEAF(j)
    <3>1. /\ l \in Nodes /\ r \in Nodes /\ T[l] \in Nat /\ T[r] \in Nat
          /\ T[l] <= node_size[l] /\ T[r] <= node_size[r]
          /\ node_size[j] = 2 * node_size[l] /\ node_size[j] = 2 * node_size[r]
          /\ node_size[l] \in Nat \ {0} /\ node_size[r] \in Nat \ {0}
          /\ T[j] = MAX(T[l], T[r])
      BY <1>1, <1>2, <1>4, <2>2, Below, Half
    <3> HIDE DEF l, r
    <3>2. T[j] < node_size[j] /\ T[j] <= node_size[j]
      BY <3>1 DEF MAX
    <3>3. QED  BY <3>2
  <2>3. QED  BY <2>1, <2>2
<1>5. \A j \in Nodes : Q(j)
  <2>1. Nodes \subseteq S
    <3> HIDE DEF S
    <3>1. QED  BY <1>3, <1>4, FromLeaves
  <2>2. QED  BY <2>1
<1>6. ASSUME NEW j \in Nodes, Inner(j)
      PROVE  LET l == LEFT_LEAF(j)
                 r == RIGHT_LEAF(j) IN
             /\ \/ T[j] = Halves(T[l], T[r], node_size[j])
                \/ T[j] = 0 /\ T[l] = node_size[l] /\ T[r] = node_size[r]
             /\ j \in Taken(T) <=> j \in Taken(B) \/ j = i
  <2> DEFINE l == LEFT_LEAF(j)
             r == RIGHT_LEAF(j)
  <2>1. /\ l \in Nodes /\ r \in Nodes /\ l > j /\ r > j /\ l # 0 /\ r # 0
        /\ PARENT(l) = j /\ PARENT(r) = j
    BY <1>6, Below DEF Nodes
  <2>2. /\ j \in Taken(T) <=> T[j] = 0 /\ T[l] # 0
        /\ j \in Taken(B) <=> B[j] = 0 /\ B[l] # 0
    BY <1>6 DEF Taken
  <2>3. \/ B[j] = Halves(B[l], B[r], node_size[j])
        \/ B[j] = 0 /\ B[l] = node_size[l] /\ B[r] = node_size[r]
    BY <1>6 DEF TreeOK, B
  <2>4. CASE j = i
    <3>1. l \notin Path[i] /\ r \notin Path[i]
      BY <2>1, <2>4, PathFacts DEF Nodes
    <3>2. T[l] = B[l] /\ T[r] = B[r]
      BY <1>1, <2>1, <3>1
    <3>3. B[l] = node_size[l] /\ B[r] = node_size[r]
      <4>1. i \notin Taken(B)
        BY PathFacts DEF B
      <4>2. QED  BY <1>6, <2>4, <4>1, Combined DEF B
    <3>4. T[l] # 0
      BY <1>2, <2>1, <3>2, <3>3
    <3>5. QED  BY <1>1, <2>2, <2>4, <3>2, <3>3, <3>4
  <2>5. CASE j # i /\ j \in Path[i]
    <3>1. l \in Path[i] \/ r \in Path[i]
      BY <2>5, PathChild
    <3>2. /\ T[j] \in Nat /\ T[l] \in Nat /\ T[r] \in Nat /\ node_size[j] \in Nat
          /\ node_size[l] \in Nat /\ node_size[r] \in Nat
          /\ node_size[j] = 2 * node_size[l] /\ node_size[j] = 2 * node_size[r]
      BY <1>1, <1>2, <1>6, <2>1, Half
    <3>3. /\ T[l] <= node_size[l] /\ T[r] <= node_size[r]
          /\ T[l] < node_size[l] \/ T[r] < node_size[r]
          /\ T[j] = MAX(T[l], T[r])
      BY <1>1, <1>5, <2>1, <2>5, <3>1
    <3> HIDE DEF l, r
    <3>4. T[j] = Halves(T[l], T[r], node_size[j]) /\ (T[j] = 0 => T[l] = 0)
      BY <3>2, <3>3 DEF Halves, MAX
    <3>5. j \notin Taken(B)
      BY <2>5 DEF B
    <3>6. QED  BY <2>2, <2>5, <3>4, <3>5 DEF l, r
  <2>6. CASE j \notin Path[i]
    <3>1. l \notin Path[i] /\ r \notin Path[i]
      BY <2>1, <2>6, PathUp
    <3>2. T[j] = B[j] /\ T[l] = B[l] /\ T[r] = B[r]
      BY <1>1, <2>1, <2>6, <3>1
    <3>3. j # i
      BY <2>6, PathFacts
    <3>4. QED  BY <2>2, <2>3, <3>2, <3>3
  <2>7. QED  BY <2>4, <2>5, <2>6
<1>7. ASSUME NEW j \in Nodes, ~ Inner(j)
      PROVE  j \in Taken(T) <=> j \in Taken(B) \/ j = i
  <2>1. j = i \/ j \notin Path[i]
    BY <1>7, PathChild
  <2>2. (j \in Taken(T) <=> T[j] = 0) /\ (j \in Taken(B) <=> B[j] = 0)
    BY <1>7 DEF Taken
  <2>3. QED  BY <1>1, <2>1, <2>2
<1>8. TreeOK(T)
  BY <1>1, <1>5, <1>6 DEF TreeOK
<1>9. Taken(T) = Taken(B) \cup {i}
  <2>1. \A j \in Nodes : j \in Taken(T) <=> j \in Taken(B) \/ j = i
    BY <1>6, <1>7
  <2>2. Taken(T) \subseteq Nodes /\ Taken(B) \subseteq Nodes
    BY DEF Taken
  <2>3. QED  BY <2>1, <2>2
<1>10. QED  BY <1>8, <1>9 DEF T, B

\* Giving a node back keeps the tree right, and takes the node away.
LEMMA ReturningTree ==
  ASSUME TreeOK(bitmap), NEW i \in Taken(bitmap)
  PROVE  TreeOK(Returning(i)) /\ Taken(Returning(i)) = Taken(bitmap) \ {i}
<1> DEFINE T == Returning(i)
           B == bitmap
<1>0. i \in Nodes /\ B[i] = 0
  BY DEF Taken
<1>1. /\ T \in [Nodes -> Nat] /\ T[i] = node_size[i]
      /\ \A j \in Nodes : j \notin Path[i] => T[j] = B[j]
      /\ \A j \in Path[i] : j # i => T[j] = Halves(T[LEFT_LEAF(j)], T[RIGHT_LEAF(j)], node_size[j])
  BY <1>0, ReturningIs DEF TreeOK
<1>2. B \in [Nodes -> Nat] /\ \A j \in Nodes : B[j] <= node_size[j] /\ node_size[j] \in Nat \ {0}
  BY Half DEF TreeOK
<1>3. \A j \in Path[i] : j # i => j \notin Taken(B)
  BY <1>0, <1>2, TakenBelow
<1> HIDE DEF T, B
<1> DEFINE Q(j) == T[j] <= node_size[j]
           S == {j \in Nodes : Q(j)}
<1>4. ASSUME NEW j \in Nodes, ~ Inner(j)  PROVE  j \in S
  <2>1. j = i \/ j \notin Path[i]
    BY <1>0, <1>4, PathChild
  <2>2. QED  BY <1>1, <1>2, <2>1
<1>5. ASSUME NEW j \in Nodes, Inner(j), LEFT_LEAF(j) \in S, RIGHT_LEAF(j) \in S
      PROVE  j \in S
  <2>1. CASE j = i \/ j \notin Path[i]
    BY <1>1, <1>2, <2>1
  <2>2. CASE j # i /\ j \in Path[i]
    <3> DEFINE l == LEFT_LEAF(j)
               r == RIGHT_LEAF(j)
    <3>1. /\ l \in Nodes /\ r \in Nodes /\ T[l] \in Nat /\ T[r] \in Nat
          /\ T[l] <= node_size[l] /\ T[r] <= node_size[r]
          /\ node_size[j] = 2 * node_size[l] /\ node_size[j] = 2 * node_size[r]
          /\ node_size[l] \in Nat \ {0} /\ node_size[r] \in Nat \ {0}
          /\ T[j] = Halves(T[l], T[r], node_size[j])
      BY <1>1, <1>2, <1>5, <2>2, Below, Half
    <3> HIDE DEF l, r
    <3>2. T[j] <= node_size[j]
      BY <3>1 DEF Halves, MAX
    <3>3. QED  BY <3>2
  <2>3. QED  BY <2>1, <2>2
<1>6. \A j \in Nodes : Q(j)
  <2>1. Nodes \subseteq S
    <3> HIDE DEF S
    <3>1. QED  BY <1>4, <1>5, FromLeaves
  <2>2. QED  BY <2>1
<1>7. ASSUME NEW j \in Nodes, Inner(j)
      PROVE  LET l == LEFT_LEAF(j)
                 r == RIGHT_LEAF(j) IN
             /\ \/ T[j] = Halves(T[l], T[r], node_size[j])
                \/ T[j] = 0 /\ T[l] = node_size[l] /\ T[r] = node_size[r]
             /\ j \in Taken(T) <=> j \in Taken(B) /\ j # i
  <2> DEFINE l == LEFT_LEAF(j)
             r == RIGHT_LEAF(j)
  <2>1. /\ l \in Nodes /\ r \in Nodes /\ l > j /\ r > j /\ l # 0 /\ r # 0
        /\ PARENT(l) = j /\ PARENT(r) = j
    BY <1>7, Below DEF Nodes
  <2>2. /\ j \in Taken(T) <=> T[j] = 0 /\ T[l] # 0
        /\ j \in Taken(B) <=> B[j] = 0 /\ B[l] # 0
    BY <1>7 DEF Taken
  <2>3. \/ B[j] = Halves(B[l], B[r], node_size[j])
        \/ B[j] = 0 /\ B[l] = node_size[l] /\ B[r] = node_size[r]
    BY <1>7 DEF TreeOK, B
  <2>4. /\ T[j] \in Nat /\ T[l] \in Nat /\ T[r] \in Nat /\ node_size[j] \in Nat \ {0}
        /\ node_size[l] \in Nat /\ node_size[r] \in Nat
        /\ node_size[j] = 2 * node_size[l] /\ node_size[j] = 2 * node_size[r]
    BY <1>1, <1>2, <1>7, <2>1, Half
  <2>5. CASE j = i
    <3>1. l \notin Path[i] /\ r \notin Path[i]
      BY <2>1, <2>5, PathFacts DEF Nodes
    <3>2. T[l] = B[l] /\ T[r] = B[r]
      BY <1>1, <2>1, <3>1
    <3>3. B[l] = node_size[l] /\ B[r] = node_size[r]
      BY <1>7, <2>5, TreeCases DEF B
    <3> HIDE DEF l, r
    <3>4. T[j] = Halves(T[l], T[r], node_size[j]) /\ T[j] # 0
      BY <1>1, <2>4, <2>5, <3>2, <3>3 DEF Halves
    <3>5. QED  BY <2>2, <2>5, <3>4 DEF l, r
  <2>6. CASE j # i /\ j \in Path[i]
    <3>1. T[j] = Halves(T[l], T[r], node_size[j])
      BY <1>1, <2>6
    <3>2. T[l] <= node_size[l] /\ T[r] <= node_size[r]
      BY <1>6, <2>1
    <3>3. j \notin Taken(B)
      BY <1>3, <2>6
    <3> HIDE DEF l, r
    <3>4. T[j] = 0 => T[l] = 0
      BY <2>4, <3>1, <3>2 DEF Halves, MAX
    <3>5. QED  BY <2>2, <3>1, <3>3, <3>4 DEF l, r
  <2>7. CASE j \notin Path[i]
    <3>1. l \notin Path[i] /\ r \notin Path[i]
      BY <1>0, <2>1, <2>7, PathUp
    <3>2. T[j] = B[j] /\ T[l] = B[l] /\ T[r] = B[r]
      BY <1>1, <2>1, <2>7, <3>1
    <3>3. j # i
      BY <1>0, <2>7, PathFacts
    <3>4. QED  BY <2>2, <2>3, <3>2, <3>3
  <2>8. QED  BY <2>5, <2>6, <2>7
<1>8. ASSUME NEW j \in Nodes, ~ Inner(j)
      PROVE  j \in Taken(T) <=> j \in Taken(B) /\ j # i
  <2>1. j = i \/ j \notin Path[i]
    BY <1>0, <1>8, PathChild
  <2>2. (j \in Taken(T) <=> T[j] = 0) /\ (j \in Taken(B) <=> B[j] = 0)
    BY <1>8 DEF Taken
  <2>3. j # i => T[j] = B[j]
    BY <1>1, <2>1
  <2>4. T[i] # 0
    BY <1>0, <1>1, <1>2
  <2>5. QED  BY <2>2, <2>3, <2>4
<1>9. TreeOK(T)
  BY <1>1, <1>6, <1>7 DEF TreeOK
<1>10. Taken(T) = Taken(B) \ {i}
  <2>1. \A j \in Nodes : j \in Taken(T) <=> j \in Taken(B) /\ j # i
    BY <1>7, <1>8
  <2>2. Taken(T) \subseteq Nodes /\ Taken(B) \subseteq Nodes
    BY DEF Taken
  <2>3. QED  BY <2>1, <2>2
<1>11. QED  BY <1>9, <1>10 DEF T, B

-----------------------------------------------------------------------------
\* The searches.

\* From the leaf of any of its pages buddy_free finds the node that was taken.
LEMMA ClimbIs ==
  ASSUME TreeOK(bitmap), NEW b \in Taken(bitmap), NEW p \in Pfns, p \in Under(b)
  PROVE  Climb(p) = b
<1> DEFINE V == Nodes
           z == 0
           G == [i \in Nodes |-> [v \in V |-> IF bitmap[i] = 0 THEN i ELSE v]]
           Step(f, i) == IF bitmap[i] = 0 \/ i = 0 THEN i ELSE f[PARENT(i)]
           F == CHOOSE f : f = [i \in Nodes |-> Step(f, i)]
<1>1. G \in [Nodes -> [V -> V]] /\ z \in V
  BY SizeFacts DEF Nodes
<1>2. PICK f \in [Nodes -> V] : \A i \in Nodes : f[i] = IF i = 0 THEN z ELSE G[i][f[PARENT(i)]]
  <2> HIDE DEF G, V, z
  <2>1. RootRecursion(V, z, G)
    BY <1>1 DEF RootRecursion
  <2>2. PICK f : RootSolution(f, V, z, G)
    BY <2>1, RootRecursionSolved
  <2>3. QED  BY <2>2 DEF RootSolution
<1>3. ASSUME NEW i \in Nodes  PROVE  f[i] = Step(f, i)
  <2>1. CASE i = 0
    <3> HIDE DEF G
    <3>1. QED  BY <1>2, <2>1
  <2>2. CASE i # 0
    <3>1. f[PARENT(i)] \in V
      BY <1>2, <2>2, Above
    <3>2. G[i][f[PARENT(i)]] = IF bitmap[i] = 0 THEN i ELSE f[PARENT(i)]
      BY <3>1
    <3> HIDE DEF G
    <3>3. QED  BY <1>2, <2>2, <3>2
  <2>3. QED  BY <2>1, <2>2
<1>4. f = [i \in Nodes |-> Step(f, i)]
  <2> HIDE DEF Step
  <2>1. QED  BY <1>2, <1>3
<1>5. F = [i \in Nodes |-> Step(F, i)]
  <2> HIDE DEF Step
  <2>1. QED  BY <1>4
<1>6. Climb(p) = F[Leaf(p)]
  BY DEF Climb, Leaf
<1> HIDE DEF F
<1>7. \A i \in Nodes : F[i] = Step(F, i)
  <2> HIDE DEF Step
  <2>1. QED  BY <1>5
<1> DEFINE Q(i) == b \in Path[i] => F[i] = b
           S == {i \in Nodes : Q(i)}
<1>8. b \in Nodes /\ bitmap[b] = 0
  BY DEF Taken
<1>9. F[b] = b
  BY <1>7, <1>8
<1>10. 0 \in S
  BY <1>9, PathFacts, SizeFacts DEF Nodes
<1>11. ASSUME NEW i \in Nodes, i # 0, PARENT(i) \in S  PROVE  i \in S
  <2> SUFFICES ASSUME b \in Path[i], i # b  PROVE  F[i] = b
    BY <1>9
  <2>1. Path[i] = {i} \cup Path[PARENT(i)]
    BY <1>11, PathFacts
  <2>2. bitmap[i] # 0
    BY TakenBelow, Half
  <2>3. QED  BY <1>7, <1>11, <2>1, <2>2
<1>12. Nodes \subseteq S
  <2> HIDE DEF S
  <2>1. QED  BY <1>10, <1>11, FromRoot
<1>13. QED  BY <1>6, <1>8, <1>12, LeafPath

\* buddy_alloc finds a whole node of the size, with nothing taken above it;
\* asked for one page, it finds the lowest that is free.
LEMMA DescendIs ==
  ASSUME TreeOK(bitmap), NEW n \in Powers, bitmap[0] >= n
  PROVE  LET i == Descend(n) IN
         /\ i \in Nodes /\ node_size[i] = n /\ bitmap[i] = n
         /\ Path[i] \cap Taken(bitmap) = {}
         /\ n = 1 => \A p \in Pfns : p < first_page(i) => \E b \in Taken(bitmap) : p \in Under(b)
<1> DEFINE V == Nodes
           D == {j \in Nodes : node_size[j] >= n}
           Stop == {j \in D : node_size[j] = n}
           B == [j \in D |-> j]
           G == [j \in Nodes |-> [x \in V |-> [y \in V |-> IF bitmap[LEFT_LEAF(j)] >= n THEN x ELSE y]]]
           Step(f, j) == IF node_size[j] = n THEN j
                         ELSE IF bitmap[LEFT_LEAF(j)] >= n THEN f[LEFT_LEAF(j)] ELSE f[RIGHT_LEAF(j)]
           F == CHOOSE f : f = [j \in D |-> Step(f, j)]
<1>1. n \in Nat \ {0}
  BY PowerHalf
<1>2. ASSUME NEW j \in D, node_size[j] # n
      PROVE  Inner(j) /\ LEFT_LEAF(j) \in D /\ RIGHT_LEAF(j) \in D
  <2>1. /\ node_size[j] \in Nat /\ node_size[j] \in Powers /\ node_size[j] > n
        /\ ~ Inner(j) => node_size[j] = 1
    BY <1>1, <1>2, Half
  <2>2. Inner(j)
    BY <1>1, <2>1
  <2>3. n <= node_size[j] \div 2
    BY <1>1, <2>1, PowerDivides
  <2>4. /\ LEFT_LEAF(j) \in Nodes /\ RIGHT_LEAF(j) \in Nodes
        /\ node_size[j] = 2 * node_size[LEFT_LEAF(j)] /\ node_size[j] = 2 * node_size[RIGHT_LEAF(j)]
        /\ node_size[LEFT_LEAF(j)] \in Nat /\ node_size[RIGHT_LEAF(j)] \in Nat
    BY <2>2, Half, Below
  <2>5. node_size[LEFT_LEAF(j)] >= n /\ node_size[RIGHT_LEAF(j)] >= n
    BY <1>1, <2>1, <2>3, <2>4
  <2>6. QED  BY <2>2, <2>4, <2>5
<1>3. LeafRecursion(V, D, Stop, B, G)
  BY <1>2 DEF LeafRecursion
<1>4. PICK f : LeafSolution(f, V, D, Stop, B, G)
  <2> HIDE DEF V, D, Stop, B, G
  <2>1. QED  BY <1>3, LeafRecursionSolved
<1>5. ASSUME NEW j \in D  PROVE  f[j] = Step(f, j)
  <2>1. f[j] = IF j \in Stop THEN B[j] ELSE G[j][f[LEFT_LEAF(j)]][f[RIGHT_LEAF(j)]]
    <3> HIDE DEF V, D, Stop, B, G
    <3>1. QED  BY <1>4 DEF LeafSolution
  <2>2. CASE node_size[j] = n
    BY <2>1, <2>2
  <2>3. CASE node_size[j] # n
    <3>1. f[LEFT_LEAF(j)] \in V /\ f[RIGHT_LEAF(j)] \in V
      <4>1. f \in [D -> V]
        BY <1>4 DEF LeafSolution
      <4> HIDE DEF V, D
      <4>2. QED  BY <1>2, <2>3, <4>1
    <3>2. G[j][f[LEFT_LEAF(j)]][f[RIGHT_LEAF(j)]]
            = IF bitmap[LEFT_LEAF(j)] >= n THEN f[LEFT_LEAF(j)] ELSE f[RIGHT_LEAF(j)]
      BY <3>1
    <3>3. j \notin Stop
      BY <2>3
    <3> HIDE DEF G, Stop
    <3>4. QED  BY <2>1, <2>3, <3>2, <3>3
  <2>4. QED  BY <2>2, <2>3
<1>6. f = [j \in D |-> Step(f, j)]
  <2>1. f \in [D -> V]
    BY <1>4 DEF LeafSolution
  <2> HIDE DEF Step, D, V
  <2>2. QED  BY <1>5, <2>1
<1>7. F = [j \in D |-> Step(F, j)]
  <2> HIDE DEF Step, D
  <2>1. QED  BY <1>6
<1>8. Descend(n) = F[0]
  BY DEF Descend
<1> HIDE DEF F
<1>9. \A j \in D : F[j] = Step(F, j)
  <2> HIDE DEF Step, D
  <2>1. QED  BY <1>7
<1> HIDE DEF G, B, Stop, V
<1> DEFINE Found(j, i) ==
             /\ i \in Nodes /\ j \in Path[i] /\ node_size[i] = n /\ bitmap[i] = n
             /\ Path[i] \cap Taken(bitmap) = {}
             /\ n = 1 => \A p \in Pfns : p \in Under(j) /\ p < first_page(i) =>
                           \E b \in Taken(bitmap) : p \in Under(b)
           Q(j) == j \in D /\ bitmap[j] >= n /\ Path[j] \cap Taken(bitmap) = {} => Found(j, F[j])
           S == {j \in Nodes : Q(j)}
<1>10. ASSUME NEW j \in D, node_size[j] = n, bitmap[j] >= n, Path[j] \cap Taken(bitmap) = {}
       PROVE  Found(j, F[j])
  <2>1. F[j] = j /\ j \in Nodes
    BY <1>9, <1>10
  <2>2. bitmap[j] = n /\ j \in Path[j]
    BY <1>1, <1>10, TreeCases, PathFacts
  <2>3. \A p \in Pfns : p \in Under(j) => ~ (p < first_page(j))
    BY <2>1, Runs DEF Under, Pfns
  <2>4. QED  BY <1>10, <2>1, <2>2, <2>3
<1>11. ASSUME NEW j \in Nodes, ~ Inner(j)  PROVE  j \in S
  <2>1. Q(j)
    <3> SUFFICES ASSUME j \in D, bitmap[j] >= n, Path[j] \cap Taken(bitmap) = {}
                 PROVE  Found(j, F[j])
      OBVIOUS
    <3>1. node_size[j] = n
      BY <1>2, <1>11
    <3> HIDE DEF Found, D
    <3>2. QED  BY <1>10, <3>1
  <2>2. QED  BY <2>1
<1>12. ASSUME NEW j \in Nodes, Inner(j), LEFT_LEAF(j) \in S, RIGHT_LEAF(j) \in S
       PROVE  j \in S
  <2> SUFFICES ASSUME j \in D, bitmap[j] >= n, Path[j] \cap Taken(bitmap) = {}, node_size[j] # n
               PROVE  Found(j, F[j])
    <3> HIDE DEF Found
    <3>1. QED  BY <1>10, <1>12
  <2> DEFINE l == LEFT_LEAF(j)
             r == RIGHT_LEAF(j)
  <2>1. l \in D /\ r \in D /\ Q(l) /\ Q(r) /\ l \in Nodes /\ r \in Nodes
    BY <1>2, <1>12
  <2>2. /\ l # 0 /\ PARENT(l) = j /\ r # 0 /\ PARENT(r) = j /\ j \notin Taken(bitmap)
    BY <1>12, Below, PathFacts DEF Nodes
  <2>3. /\ bitmap[l] \in Nat /\ bitmap[r] \in Nat
        /\ Path[l] = {l} \cup Path[j] /\ Path[r] = {r} \cup Path[j]
    BY <2>1, <2>2, TreeCases, PathFacts
  <2>4. CASE bitmap[l] >= n
    <3>1. F[j] = F[l]
      BY <1>9, <2>4
    <3>2. l \notin Taken(bitmap)
      BY <1>1, <2>4 DEF Taken
    <3>3. Found(l, F[l])
      BY <2>1, <2>3, <2>4, <3>2
    <3>4. j \in Path[F[l]]
      BY <2>1, <2>2, <3>3, PathUp
    <3>5. ASSUME NEW p \in Pfns, p \in Under(j), p < first_page(F[l])  PROVE  p \in Under(l)
      <4>1. Under(F[l]) \subseteq Under(l)
        BY <3>3, UnderPath
      <4>2. /\ first_page(F[l]) \in Nat /\ node_size[F[l]] \in Nat \ {0}
            /\ first_page(l) \in Nat /\ node_size[l] \in Nat
            /\ first_page(r) = first_page(l) + node_size[l]
        BY <1>12, <2>1, <3>3, Runs, Half
      <4>3. first_page(F[l]) \in Under(F[l])
        BY <4>2 DEF Under
      <4>4. first_page(F[l]) < first_page(r)
        BY <4>1, <4>2, <4>3 DEF Under
      <4>5. p \notin Under(r)
        BY <3>5, <4>2, <4>4 DEF Under, Pfns
      <4>6. QED  BY <1>12, <3>5, <4>5, UnderChildren
    <3>6. QED  BY <3>1, <3>3, <3>4, <3>5
  <2>5. CASE ~ (bitmap[l] >= n)
    <3>1. F[j] = F[r]
      BY <1>9, <2>5
    <3>2. bitmap[r] >= n
      <4>1. /\ bitmap[j] \in Nat /\ bitmap[j] >= n /\ node_size[l] >= n
            /\ (bitmap[j] = node_size[j] => bitmap[l] = node_size[l])
            /\ (bitmap[j] # node_size[j] => bitmap[j] = bitmap[l] \/ bitmap[j] = bitmap[r])
        BY <1>12, <2>1, <2>2, Combined
      <4>2. QED  BY <1>1, <2>3, <2>5, <4>1
    <3>3. r \notin Taken(bitmap)
      BY <1>1, <3>2 DEF Taken
    <3>4. Found(r, F[r])
      BY <2>1, <2>3, <3>2, <3>3
    <3>5. j \in Path[F[r]]
      BY <2>1, <2>2, <3>4, PathUp
    <3>6. ASSUME n = 1, NEW p \in Pfns, p \in Under(j), p < first_page(F[r])
          PROVE  \E b \in Taken(bitmap) : p \in Under(b)
      <4>1. CASE p \in Under(l)
        <5>1. bitmap[l] = 0
          BY <2>3, <2>5, <3>6
        <5>2. QED  BY <2>1, <4>1, <5>1, NoRoom
      <4>2. CASE p \in Under(r)
        BY <3>4, <3>6, <4>2
      <4>3. QED  BY <1>12, <3>6, <4>1, <4>2, UnderChildren
    <3>7. QED  BY <3>1, <3>4, <3>5, <3>6
  <2>6. QED  BY <2>4, <2>5
<1>13. Nodes \subseteq S
  <2> HIDE DEF S
  <2>1. QED  BY <1>11, <1>12, FromLeaves
<1>14. 0 \in D /\ Path[0] \cap Taken(bitmap) = {}
  <2>1. 0 \in Nodes
    BY SizeFacts DEF Nodes
  <2>2. bitmap[0] \in Nat /\ bitmap[0] <= node_size[0] /\ node_size[0] \in Nat /\ bitmap[0] # 0
    BY <1>1, <2>1, TreeCases
  <2>3. QED  BY <1>1, <2>1, <2>2, PathFacts DEF Taken
<1>15. Found(0, F[0])
  BY <1>13, <1>14
<1>16. \A p \in Pfns : p \in Under(0)
  <2>1. first_page(0) = 0 /\ node_size[0] = size
    BY <1>14, Half, Runs
  <2>2. QED  BY <2>1, SizeFacts DEF Under, Pfns
<1>17. QED  BY <1>8, <1>15, <1>16

-----------------------------------------------------------------------------
\* The invariant: the tree is right, the pages with references are the first
\* ones of the nodes that were taken, and buddy_init takes the lowest pages.
RefsOK == \A p \in Pfns : ref_cnt[p] > 0 <=> \E b \in Taken(bitmap) : first_page(b) = p

Boots ==
  booted < reserved =>
    /\ \A p \in Pfns : ref_cnt[p] = IF p < booted THEN 1 ELSE 0
    /\ \A b \in Taken(bitmap) : node_size[b] = 1

IInv == TypeOK /\ TreeOK(bitmap) /\ RefsOK /\ Boots

LEMMA FirstPage ==
  ASSUME NEW i \in Nodes
  PROVE  first_page(i) \in Pfns /\ first_page(i) \in Under(i) /\ Under(i) \subseteq Pfns
<1>1. /\ node_size[i] \in Nat \ {0} /\ first_page(i) \in Nat
      /\ first_page(i) + node_size[i] <= size /\ size \in Nat
  BY Half, Runs, SizeFacts
<1>2. QED  BY <1>1 DEF Under, Pfns

\* A page tells which node was taken for it.
LEMMA TakenByPage ==
  ASSUME NEW bm, TreeOK(bm), NEW a \in Taken(bm), NEW b \in Taken(bm), first_page(a) = first_page(b)
  PROVE  a = b
<1>1. a \in Nodes /\ b \in Nodes
  BY DEF Taken
<1>2. QED  BY <1>1, FirstPage, TakenApart

\* A whole node with nothing taken above it has no page of a node that was taken.
LEMMA FreeNode ==
  ASSUME NEW bm, TreeOK(bm), NEW i \in Nodes, bm[i] = node_size[i], Path[i] \cap Taken(bm) = {},
         NEW b \in Taken(bm), NEW p \in Under(i)
  PROVE  p \notin Under(b)
<1>1. b \in Nodes /\ p \in Pfns
  BY FirstPage DEF Taken
<1>2. SUFFICES ASSUME p \in Under(b)  PROVE  FALSE
  OBVIOUS
<1>3. i \in Path[b] \/ b \in Path[i]
  BY <1>1, <1>2, LeafPath, PathLinear
<1>4. QED  BY <1>1, <1>3, WholeBelow

LEMMA TreeType ==
  ASSUME NEW bm, TreeOK(bm)
  PROVE  bm \in [Nodes -> 0 .. size]
<1>1. ASSUME NEW i \in Nodes  PROVE  bm[i] \in 0 .. size
  <2>1. bm[i] \in Nat /\ bm[i] <= node_size[i] /\ node_size[i] \in Nat
    BY TreeCases
  <2>2. first_page(i) \in Nat /\ first_page(i) + node_size[i] <= size
    BY Runs
  <2>3. QED  BY <2>1, <2>2, SizeFacts
<1>2. bm \in [Nodes -> Nat]
  BY DEF TreeOK
<1>3. QED  BY <1>1, <1>2

\* What buddy_alloc does when there is room.
LEMMA AllocTakes ==
  ASSUME TypeOK, TreeOK(bitmap), RefsOK, NEW m \in Nat, buddy_alloc(m), ~ (bitmap[0] < fixsize(m)),
         NEW i, i = Descend(fixsize(m))
  PROVE  /\ i \in Nodes /\ node_size[i] = fixsize(m) /\ bitmap[i] = node_size[i]
         /\ Path[i] \cap Taken(bitmap) = {}
         /\ TreeOK(bitmap') /\ Taken(bitmap') = Taken(bitmap) \cup {i}
         /\ bitmap' = Taking(i)
         /\ ref_cnt' = [ref_cnt EXCEPT ![first_page(i)] = 1] /\ ret' = first_page(i)
         /\ ref_cnt' \in [Pfns -> 0 .. MaxRef] /\ ret' \in Pfns
         /\ RefsOK'
         /\ fixsize(m) = 1 => \A p \in Pfns : p < first_page(i) => \E b \in Taken(bitmap) : p \in Under(b)
<1> DEFINE n == fixsize(m)
<1>1. n \in Powers /\ n \in Nat
  BY FixsizeIsPower, PowerHalf
<1>2. 0 \in Nodes /\ bitmap[0] \in Nat
  BY SizeFacts, TreeCases DEF Nodes
<1>3. /\ bitmap' = Taking(i) /\ ref_cnt' = [ref_cnt EXCEPT ![first_page(i)] = 1]
      /\ ret' = first_page(i)
  BY DEF buddy_alloc
<1> HIDE DEF n
<1>4. bitmap[0] >= n
  BY <1>1, <1>2 DEF n
<1>5. /\ i \in Nodes /\ node_size[i] = n /\ bitmap[i] = n /\ Path[i] \cap Taken(bitmap) = {}
      /\ n = 1 => \A p \in Pfns : p < first_page(i) => \E b \in Taken(bitmap) : p \in Under(b)
  BY <1>1, <1>4, DescendIs DEF n
<1>6. TreeOK(bitmap') /\ Taken(bitmap') = Taken(bitmap) \cup {i}
  BY <1>3, <1>5, TakingTree
<1>7. first_page(i) \in Pfns
  BY <1>5, FirstPage
<1>8. ref_cnt' \in [Pfns -> 0 .. MaxRef]
  BY <1>3, <1>7, BuddyAssumption DEF TypeOK
<1>9. RefsOK'
  <2> SUFFICES ASSUME NEW p \in Pfns
               PROVE  ref_cnt'[p] > 0 <=> \E b \in Taken(bitmap') : first_page(b) = p
    BY DEF RefsOK
  <2>1. ref_cnt'[p] = IF p = first_page(i) THEN 1 ELSE ref_cnt[p]
    BY <1>3 DEF TypeOK
  <2>2. QED  BY <1>6, <2>1 DEF RefsOK
<1>10. QED  BY <1>3, <1>5, <1>6, <1>7, <1>8, <1>9 DEF n

LEMMA FixsizeOne == fixsize(1) = 1
<1>1. pow2[0] = 1 /\ pow2[1] = 2
  <2>1. pow2[0 + 1] = 2 * pow2[0]
    BY Pow2Facts
  <2>2. QED  BY <2>1, Pow2Facts
<1> DEFINE P == {pow2[k] : k \in 0 .. 1}
<1>2. P = {1, 2}
  BY <1>1
<1>3. fixsize(1) = CHOOSE p \in P : p >= 1 /\ (p = 1 \/ p < 2 * 1)
  BY DEF fixsize
<1> HIDE DEF P
<1>4. QED  BY <1>2, <1>3

\* While buddy_init takes pages there is one left, and it gets the lowest.
LEMMA ReserveTakes ==
  ASSUME IInv, Reserve
  PROVE  ~ (bitmap[0] < fixsize(1)) /\ first_page(Descend(fixsize(1))) = booted
         /\ node_size[Descend(fixsize(1))] = 1
<1> DEFINE i == Descend(fixsize(1))
<1>1. booted \in Pfns /\ booted \in Nat /\ ref_cnt[booted] = 0 /\ booted < reserved
  BY BuddyAssumption DEF IInv, TypeOK, Boots, Reserve, Pfns
<1>2. ASSUME NEW b \in Taken(bitmap), NEW p \in Pfns, p \in Under(b)
      PROVE  p = first_page(b) /\ p < booted
  <2>1. b \in Nodes /\ node_size[b] = 1 /\ first_page(b) \in Nat
    BY <1>1, <1>2, Runs DEF Taken, IInv, Boots
  <2>2. p = first_page(b)
    BY <1>2, <2>1 DEF Under
  <2>3. ref_cnt[p] > 0
    BY <1>2, <2>2 DEF IInv, RefsOK
  <2>4. QED  BY <1>1, <2>2, <2>3 DEF IInv, Boots
<1>3. ~ (bitmap[0] < fixsize(1))
  <2> SUFFICES ASSUME bitmap[0] < 1  PROVE  FALSE
    BY FixsizeOne
  <2>1. 0 \in Nodes /\ bitmap[0] = 0
    <3>1. 0 \in Nodes
      BY SizeFacts DEF Nodes
    <3>2. bitmap[0] \in Nat
      BY <3>1, TreeCases DEF IInv
    <3>3. QED  BY <3>1, <3>2
  <2>2. booted \in Under(0)
    BY <1>1, <2>1, Runs, Half, SizeFacts DEF Under, Pfns
  <2>3. \E b \in Taken(bitmap) : booted \in Under(b)
    BY <1>1, <2>1, <2>2, NoRoom DEF IInv
  <2>4. QED  BY <1>1, <1>2, <2>3
<1>4. /\ i \in Nodes /\ node_size[i] = fixsize(1) /\ bitmap[i] = node_size[i]
      /\ Path[i] \cap Taken(bitmap) = {}
      /\ fixsize(1) = 1 => \A p \in Pfns : p < first_page(i) => \E b \in Taken(bitmap) : p \in Under(b)
  <2>1. buddy_alloc(1)
    BY DEF Reserve
  <2>2. QED  BY <1>3, <2>1, AllocTakes DEF IInv
<1> HIDE DEF i
<1>5. first_page(i) \in Pfns /\ first_page(i) \in Under(i)
  BY <1>4, FirstPage
<1>6. ~ (booted < first_page(i))
  BY <1>1, <1>2, <1>4, FixsizeOne
<1>7. ~ (first_page(i) < booted)
  <2> SUFFICES ASSUME first_page(i) < booted  PROVE  FALSE
    OBVIOUS
  <2>1. ref_cnt[first_page(i)] = 1
    BY <1>1, <1>5 DEF IInv, Boots
  <2>2. PICK b \in Taken(bitmap) : first_page(b) = first_page(i)
    BY <1>5, <2>1 DEF IInv, RefsOK
  <2>3. b \in Nodes /\ first_page(i) \in Under(b)
    BY <2>2, FirstPage DEF Taken
  <2>4. QED  BY <1>4, <1>5, <2>3, FreeNode DEF IInv
<1>8. first_page(i) = booted
  BY <1>1, <1>5, <1>6, <1>7 DEF Pfns
<1>9. QED  BY <1>3, <1>4, <1>8, FixsizeOne DEF i

\* A page in use leads buddy_free to the node that was taken for it.
LEMMA InUseNode ==
  ASSUME IInv, NEW p \in Pfns, ref_cnt[p] > 0
  PROVE  Climb(p) \in Taken(bitmap) /\ Climb(p) \in Nodes /\ first_page(Climb(p)) = p
<1>1. PICK b \in Taken(bitmap) : first_page(b) = p
  BY DEF IInv, RefsOK
<1>2. b \in Nodes
  BY DEF Taken
<1>3. Climb(p) = b
  BY <1>1, <1>2, FirstPage, ClimbIs DEF IInv
<1>4. QED  BY <1>1, <1>2, <1>3

LEMMA InitInv == Init => IInv
<1> SUFFICES ASSUME Init  PROVE  IInv
  OBVIOUS
<1>1. bitmap = node_size /\ node_size \in [Nodes -> Nat]
  BY NodeSizes DEF Init
<1>2. TreeOK(bitmap)
  <2>1. \A i \in Nodes : node_size[i] \in Nat /\ node_size[i] <= node_size[i]
    BY Half
  <2>2. ASSUME NEW i \in Nodes, Inner(i)
        PROVE  node_size[i] = Halves(node_size[LEFT_LEAF(i)], node_size[RIGHT_LEAF(i)], node_size[i])
    <3>1. /\ node_size[LEFT_LEAF(i)] \in Nat /\ node_size[RIGHT_LEAF(i)] \in Nat
          /\ node_size[i] = 2 * node_size[LEFT_LEAF(i)]
          /\ node_size[i] = 2 * node_size[RIGHT_LEAF(i)]
      BY <2>2, Half, Below
    <3>2. QED  BY <3>1 DEF Halves
  <2>3. QED  BY <1>1, <2>1, <2>2 DEF TreeOK
<1>3. Taken(bitmap) = {}
  <2>1. \A i \in Nodes : bitmap[i] # 0
    BY <1>1, Half
  <2>2. QED  BY <2>1 DEF Taken
<1>4. TypeOK
  <2>1. ref_cnt \in [Pfns -> 0 .. MaxRef] /\ booted \in 0 .. reserved /\ ret \in Pfns
    BY BuddyAssumption DEF Init, Pfns
  <2>2. QED  BY <1>2, <2>1, TreeType DEF TypeOK
<1>5. RefsOK /\ Boots
  <2>1. \A p \in Pfns : ref_cnt[p] = 0 /\ ~ (p < booted)
    BY SizeFacts DEF Init, Pfns
  <2>2. QED  BY <1>3, <2>1 DEF RefsOK, Boots
<1>6. QED  BY <1>2, <1>4, <1>5 DEF IInv

LEMMA ReserveInv ==
  ASSUME IInv, Reserve
  PROVE  IInv'
<1> DEFINE i == Descend(fixsize(1))
<1>1. buddy_alloc(1) /\ booted' = booted + 1 /\ booted < reserved
  BY DEF Reserve
<1>2. ~ (bitmap[0] < fixsize(1)) /\ first_page(i) = booted /\ node_size[i] = 1
  BY ReserveTakes
<1> HIDE DEF i
<1>3. /\ i \in Nodes /\ TreeOK(bitmap') /\ Taken(bitmap') = Taken(bitmap) \cup {i}
      /\ ref_cnt' = [ref_cnt EXCEPT ![first_page(i)] = 1]
      /\ ref_cnt' \in [Pfns -> 0 .. MaxRef] /\ ret' \in Pfns /\ RefsOK'
  BY <1>1, <1>2, AllocTakes DEF IInv, i
<1>4. booted \in Nat /\ booted' \in 0 .. reserved
  BY <1>1, BuddyAssumption DEF IInv, TypeOK
<1>5. TypeOK'
  BY <1>3, <1>4, TreeType DEF TypeOK
<1>6. Boots'
  <2>1. ASSUME NEW p \in Pfns  PROVE  ref_cnt'[p] = IF p < booted + 1 THEN 1 ELSE 0
    <3>1. ref_cnt'[p] = IF p = booted THEN 1 ELSE ref_cnt[p]
      BY <1>2, <1>3 DEF IInv, TypeOK
    <3>2. ref_cnt[p] = IF p < booted THEN 1 ELSE 0
      BY <1>1 DEF IInv, Boots
    <3>3. p \in Nat
      BY DEF Pfns
    <3>4. QED  BY <1>4, <3>1, <3>2, <3>3
  <2>2. \A b \in Taken(bitmap') : node_size[b] = 1
    BY <1>1, <1>2, <1>3 DEF IInv, Boots
  <2>3. QED  BY <1>1, <2>1, <2>2 DEF Boots
<1>7. QED  BY <1>3, <1>5, <1>6 DEF IInv

LEMMA AllocInv ==
  ASSUME IInv, AllocPages
  PROVE  IInv'
<1>1. booted = reserved /\ booted' = reserved
  BY DEF AllocPages
<1>2. PICK m \in Requests : buddy_alloc(m)
  BY DEF AllocPages
<1>3. m \in Nat
  BY BuddyAssumption
<1>4. TreeOK(bitmap') /\ ref_cnt' \in [Pfns -> 0 .. MaxRef] /\ ret' \in Pfns /\ RefsOK'
  <2>1. CASE bitmap[0] < fixsize(m)
    <3>1. bitmap' = bitmap /\ ref_cnt' = ref_cnt /\ ret' = 0
      BY <1>2, <2>1 DEF buddy_alloc
    <3>2. 0 \in Pfns
      BY SizeFacts DEF Pfns
    <3>3. QED  BY <3>1, <3>2 DEF IInv, TypeOK, RefsOK
  <2>2. CASE ~ (bitmap[0] < fixsize(m))
    BY <1>2, <1>3, <2>2, AllocTakes DEF IInv
  <2>3. QED  BY <2>1, <2>2
<1>5. TypeOK'
  BY <1>1, <1>4, TreeType, BuddyAssumption DEF TypeOK
<1>6. Boots'
  BY <1>1, BuddyAssumption DEF Boots
<1>7. QED  BY <1>4, <1>5, <1>6 DEF IInv

LEMMA GetInv ==
  ASSUME IInv, GetPage
  PROVE  IInv'
<1>1. booted = reserved /\ booted' = reserved /\ bitmap' = bitmap /\ ret' = ret
  BY DEF GetPage
<1>2. PICK p \in InUse : ref_cnt[p] < MaxRef /\ ref_cnt' = [ref_cnt EXCEPT ![p] = @ + 1]
  BY DEF GetPage
<1>3. /\ p \in Pfns /\ ref_cnt[p] > 0 /\ ref_cnt' = [ref_cnt EXCEPT ![p] = ref_cnt[p] + 1]
      /\ ref_cnt \in [Pfns -> 0 .. MaxRef]
  BY <1>2 DEF InUse, IInv, TypeOK
<1>4. ref_cnt[p] + 1 \in 0 .. MaxRef
  BY <1>2, <1>3, BuddyAssumption
<1>5. ref_cnt' \in [Pfns -> 0 .. MaxRef]
  BY <1>3, <1>4
<1>6. \A q \in Pfns : ref_cnt'[q] > 0 <=> ref_cnt[q] > 0
  BY <1>3
<1>7. RefsOK'
  BY <1>1, <1>6 DEF IInv, RefsOK
<1>8. TypeOK' /\ Boots'
  BY <1>1, <1>5, BuddyAssumption DEF IInv, TypeOK, Boots
<1>9. QED  BY <1>1, <1>7, <1>8 DEF IInv

LEMMA PutInv ==
  ASSUME IInv, PutPage
  PROVE  IInv'
<1>1. booted = reserved /\ booted' = reserved /\ ret' = ret
  BY DEF PutPage
<1>2. PICK p \in InUse :
        /\ ref_cnt' = [ref_cnt EXCEPT ![p] = @ - 1]
        /\ bitmap' = buddy_free(p, ref_cnt')
  BY DEF PutPage
<1>3. /\ p \in Pfns /\ ref_cnt[p] > 0 /\ ref_cnt' = [ref_cnt EXCEPT ![p] = ref_cnt[p] - 1]
      /\ ref_cnt \in [Pfns -> 0 .. MaxRef]
  BY <1>2 DEF InUse, IInv, TypeOK
<1>4. ref_cnt' \in [Pfns -> 0 .. MaxRef] /\ ref_cnt'[p] = ref_cnt[p] - 1
  <2>1. ref_cnt[p] - 1 \in 0 .. MaxRef
    BY <1>3, BuddyAssumption
  <2>2. QED  BY <1>3, <2>1
<1>5. TreeOK(bitmap') /\ RefsOK'
  <2>1. CASE ref_cnt'[p] > 0
    <3>1. bitmap' = bitmap
      BY <1>2, <2>1 DEF buddy_free
    <3>2. \A q \in Pfns : ref_cnt'[q] > 0 <=> ref_cnt[q] > 0
      BY <1>3, <1>4, <2>1
    <3>3. QED  BY <3>1, <3>2 DEF IInv, RefsOK
  <2>2. CASE ~ (ref_cnt'[p] > 0)
    <3> DEFINE b == Climb(p)
    <3>1. bitmap' = Returning(b)
      BY <1>2, <2>2 DEF buddy_free
    <3>2. b \in Taken(bitmap) /\ first_page(b) = p
      BY <1>3, InUseNode
    <3> HIDE DEF b
    <3>3. TreeOK(bitmap') /\ Taken(bitmap') = Taken(bitmap) \ {b}
      BY <3>1, <3>2, ReturningTree DEF IInv
    <3>4. ASSUME NEW q \in Pfns
          PROVE  ref_cnt'[q] > 0 <=> \E c \in Taken(bitmap') : first_page(c) = q
      <4>1. CASE q = p
        <5>1. \A c \in Taken(bitmap) : first_page(c) = p => c = b
          BY <3>2, TakenByPage DEF IInv
        <5>2. QED  BY <2>2, <3>3, <4>1, <5>1
      <4>2. CASE q # p
        <5>1. ref_cnt'[q] = ref_cnt[q]
          BY <1>3, <4>2
        <5>2. \A c \in Taken(bitmap) : first_page(c) = q => c # b
          BY <3>2, <4>2
        <5>3. QED  BY <3>3, <5>1, <5>2 DEF IInv, RefsOK
      <4>3. QED  BY <4>1, <4>2
    <3>5. QED  BY <3>3, <3>4 DEF RefsOK
  <2>3. QED  BY <2>1, <2>2
<1>6. TypeOK' /\ Boots'
  BY <1>1, <1>4, <1>5, TreeType, BuddyAssumption DEF IInv, TypeOK, Boots
<1>7. QED  BY <1>5, <1>6 DEF IInv

\* kfree changes nothing: the page has its reference.
LEMMA KFreeNothing ==
  ASSUME KFree
  PROVE  UNCHANGED vars
BY DEF KFree, InUse, buddy_free, vars

LEMMA NextInv == IInv /\ [Next]_vars => IInv'
<1> SUFFICES ASSUME IInv, [Next]_vars  PROVE  IInv'
  OBVIOUS
<1>1. CASE Reserve
  BY <1>1, ReserveInv
<1>2. CASE AllocPages
  BY <1>2, AllocInv
<1>3. CASE GetPage
  BY <1>3, GetInv
<1>4. CASE PutPage
  BY <1>4, PutInv
<1>5. CASE UNCHANGED vars
  BY <1>5 DEF vars, IInv, TypeOK, RefsOK, Boots
<1>6. CASE KFree
  BY <1>5, <1>6, KFreeNothing
<1>7. QED  BY <1>1, <1>2, <1>3, <1>4, <1>5, <1>6 DEF Next

LEMMA InvHolds == Spec => []IInv
BY InitInv, NextInv, PTL DEF Spec

\* The tree, the counts and the answers stay in their ranges: for every size
\* of memory no entry of bitmap exceeds the pages there are, every page that is
\* handed out is one of them, and no count is taken below 0.
THEOREM BuddyTypeOK == Spec => []TypeOK
<1>1. IInv => TypeOK
  BY DEF IInv
<1>2. QED  BY <1>1, InvHolds, PTL

-----------------------------------------------------------------------------
\* What the entries mean.

\* The nodes under i that could be taken, when K are those that were.
Fit(i, K) == {j \in Nodes : i \in Path[j] /\ \A b \in K : b \notin Path[j] /\ j \notin Path[b]}

\* None of them is longer than the entry of i says.
LEMMA FitBounded ==
  ASSUME NEW bm, TreeOK(bm), NEW i \in Nodes, NEW j \in Fit(i, Taken(bm))
  PROVE  node_size[j] <= bm[i]
<1>1. /\ j \in Nodes /\ i \in Path[j] /\ Path[j] \cap Taken(bm) \subseteq {j}
      /\ \A b \in Taken(bm) : j \notin Path[b]
  BY DEF Fit
<1>2. bm[j] = node_size[j]
  BY <1>1, WholeWhereFree
<1>3. bm[j] <= bm[i]
  BY <1>1, RoomAbove
<1>4. QED  BY <1>2, <1>3

\* And there is one of that length.
LEMMA FitReached ==
  ASSUME NEW bm, TreeOK(bm), NEW i \in Nodes, Path[i] \cap Taken(bm) \subseteq {i}
  PROVE  bm[i] = 0 \/ \E j \in Fit(i, Taken(bm)) : node_size[j] = bm[i]
<1> DEFINE Q(j) == Path[j] \cap Taken(bm) \subseteq {j} =>
                     bm[j] = 0 \/ \E k \in Fit(j, Taken(bm)) : node_size[k] = bm[j]
           S == {j \in Nodes : Q(j)}
<1>1. ASSUME NEW j \in Nodes, Path[j] \cap Taken(bm) \subseteq {j}, bm[j] = node_size[j]
      PROVE  j \in Fit(j, Taken(bm))
  <2>1. j \in Path[j] /\ j \notin Taken(bm)
    BY <1>1, PathFacts, WholeBelow
  <2>2. ASSUME NEW b \in Taken(bm)  PROVE  j \notin Path[b]
    BY <1>1, WholeBelow DEF Taken
  <2>3. QED  BY <1>1, <2>1, <2>2 DEF Fit
<1>2. ASSUME NEW j \in Nodes, ~ Inner(j)  PROVE  j \in S
  BY <1>1, <1>2, TreeCases
<1>3. ASSUME NEW j \in Nodes, Inner(j), LEFT_LEAF(j) \in S, RIGHT_LEAF(j) \in S
      PROVE  j \in S
  <2> SUFFICES ASSUME Path[j] \cap Taken(bm) \subseteq {j}, bm[j] # 0, bm[j] # node_size[j]
               PROVE  \E k \in Fit(j, Taken(bm)) : node_size[k] = bm[j]
    BY <1>1, <1>3
  <2>1. j \notin Taken(bm) /\ Path[j] \cap Taken(bm) = {}
    <3>1. j \notin Taken(bm)
      BY DEF Taken
    <3>2. QED  BY <3>1
  <2>2. PICK c \in Nodes : /\ c = LEFT_LEAF(j) \/ c = RIGHT_LEAF(j)
                           /\ bm[c] = bm[j]
    BY <1>3, <2>1, Combined
  <2>3. c # 0 /\ PARENT(c) = j /\ Q(c)
    BY <1>3, <2>2, Below DEF Nodes
  <2>4. Path[c] \cap Taken(bm) \subseteq {c}
    BY <2>1, <2>3, PathFacts
  <2>5. PICK k \in Fit(c, Taken(bm)) : node_size[k] = bm[j]
    BY <2>2, <2>3, <2>4
  <2>6. k \in Fit(j, Taken(bm))
    BY <2>3, <2>5, PathUp DEF Fit
  <2>7. QED  BY <2>5, <2>6
<1>4. Nodes \subseteq S
  <2> HIDE DEF S
  <2>1. QED  BY <1>2, <1>3, FromLeaves
<1>5. QED  BY <1>4

LEMMA BlocksAreTaken ==
  ASSUME IInv
  PROVE  Blocks = Taken(bitmap)
<1>1. \A p \in Pfns : ref_cnt[p] > 0 => Climb(p) \in Taken(bitmap)
  BY InUseNode
<1>2. ASSUME NEW b \in Taken(bitmap)
      PROVE  \E p \in Pfns : ref_cnt[p] > 0 /\ Climb(p) = b
  <2>1. b \in Nodes
    BY DEF Taken
  <2>2. first_page(b) \in Pfns /\ first_page(b) \in Under(b)
    BY <2>1, FirstPage
  <2>3. ref_cnt[first_page(b)] > 0
    BY <2>2 DEF IInv, RefsOK
  <2>4. Climb(first_page(b)) = b
    BY <2>2, ClimbIs DEF IInv
  <2>5. QED  BY <2>2, <2>3, <2>4
<1>3. QED  BY <1>1, <1>2 DEF Blocks

\* Every entry of the tree outside the runs in use is the length of the longest
\* run that can be had under its node: the two loops that rebuild the entries,
\* the one of buddy_alloc and the one of buddy_free, forget no page and invent
\* none, in any order of calls and for every size of memory.
THEOREM BuddyBitmapIsLongest == Spec => []BitmapIsLongest
<1>1. IInv => BitmapIsLongest
  <2> SUFFICES ASSUME IInv, NEW i \in Nodes, Path[i] \cap Blocks \subseteq {i}
               PROVE  LET fit == Fit(i, Blocks) IN
                      bitmap[i] = IF fit = {} THEN 0
                                  ELSE CHOOSE n \in {node_size[j] : j \in fit} :
                                         \A j \in fit : node_size[j] <= n
    BY DEF BitmapIsLongest, Fit
  <2> DEFINE fit == Fit(i, Blocks)
             N == {node_size[j] : j \in fit}
  <2>1. /\ \A j \in fit : node_size[j] \in Nat \ {0} /\ node_size[j] <= bitmap[i]
        /\ bitmap[i] = 0 \/ \E j \in fit : node_size[j] = bitmap[i]
        /\ bitmap[i] \in Nat
    <3>1. TreeOK(bitmap) /\ Blocks = Taken(bitmap)
      BY BlocksAreTaken DEF IInv
    <3>2. \A j \in fit : node_size[j] \in Nat \ {0}
      BY Half DEF Fit
    <3>3. QED  BY <3>1, <3>2, FitBounded, FitReached, TreeCases
  <2> HIDE DEF fit
  <2>2. CASE fit = {}
    BY <2>1, <2>2 DEF fit
  <2>3. CASE fit # {}
    <3>1. PICK j \in fit : node_size[j] = bitmap[i]
      BY <2>1, <2>3
    <3>2. bitmap[i] \in N /\ \A k \in fit : node_size[k] <= bitmap[i]
      BY <2>1, <3>1
    <3>3. ASSUME NEW n \in N, \A k \in fit : node_size[k] <= n
          PROVE  n = bitmap[i]
      <4>1. bitmap[i] <= n /\ n <= bitmap[i] /\ n \in Nat
        BY <2>1, <3>1, <3>3
      <4>2. QED  BY <2>1, <4>1
    <3>4. bitmap[i] = CHOOSE n \in N : \A k \in fit : node_size[k] <= n
      <4> DEFINE P(n) == \A k \in fit : node_size[k] <= n
      <4>1. bitmap[i] \in N /\ P(bitmap[i]) /\ \A n \in N : P(n) => n = bitmap[i]
        BY <3>2, <3>3
      <4> HIDE DEF P, N
      <4>2. (CHOOSE n \in N : P(n)) = bitmap[i]
        BY <4>1
      <4>3. QED  BY <4>2 DEF P
    <3>5. QED  BY <2>3, <3>4 DEF fit
  <2>4. QED  BY <2>2, <2>3 DEF fit
<1>2. QED  BY <1>1, InvHolds, PTL

-----------------------------------------------------------------------------
\* The promises of PageAllocator.

\* len gives every node of K its length at its first page.
Lengths(K, len) ==
  /\ len \in [Pfns -> Nat]
  /\ \A b \in K : len[first_page(b)] = node_size[b]
  /\ \A p \in Pfns : (\A b \in K : first_page(b) # p) => len[p] = 0

LEMMA LengthsAgree ==
  ASSUME NEW K, NEW x, NEW y, Lengths(K, x), Lengths(K, y)
  PROVE  x = y
<1>1. ASSUME NEW p \in Pfns  PROVE  x[p] = y[p]
  <2>1. CASE \A b \in K : first_page(b) # p
    BY <2>1 DEF Lengths
  <2>2. CASE \E b \in K : first_page(b) = p
    BY <2>2 DEF Lengths
  <2>3. QED  BY <2>1, <2>2
<1>2. QED  BY <1>1 DEF Lengths

LengthOK == booted = reserved => Lengths(Taken(bitmap), length)

LEMMA LengthIs == IInv => LengthOK
<1> SUFFICES ASSUME IInv, booted = reserved  PROVE  Lengths(Taken(bitmap), length)
  BY DEF LengthOK
<1>1. length = [p \in Pfns |-> IF ref_cnt[p] > 0 THEN node_size[Climb(p)] ELSE 0]
  BY BuddyAssumption DEF length
<1>2. length \in [Pfns -> Nat]
  <2>1. \A p \in Pfns : ref_cnt[p] > 0 => node_size[Climb(p)] \in Nat
    BY InUseNode, NodeSizes
  <2>2. QED  BY <1>1, <2>1
<1>3. ASSUME NEW b \in Taken(bitmap)  PROVE  length[first_page(b)] = node_size[b]
  <2>1. b \in Nodes
    BY DEF Taken
  <2>2. first_page(b) \in Pfns /\ first_page(b) \in Under(b)
    BY <2>1, FirstPage
  <2>3. ref_cnt[first_page(b)] > 0 /\ Climb(first_page(b)) = b
    BY <2>2, ClimbIs DEF IInv, RefsOK
  <2>4. QED  BY <1>1, <2>2, <2>3
<1>4. ASSUME NEW p \in Pfns, \A b \in Taken(bitmap) : first_page(b) # p
      PROVE  length[p] = 0
  <2>1. ~ (ref_cnt[p] > 0)
    BY <1>4 DEF IInv, RefsOK
  <2>2. QED  BY <1>1, <2>1
<1>5. QED  BY <1>2, <1>3, <1>4 DEF Lengths

LEMMA LengthIsNext == IInv' => LengthOK'
BY LengthIs, PTL

\* The pages of the runs of PageAllocator are those of the nodes that were taken.
LEMMA TakenPages ==
  ASSUME IInv, booted = reserved, NEW p
  PROVE  p \in Allocator!Taken <=> \E b \in Taken(bitmap) : p \in Under(b)
<1>1. Lengths(Taken(bitmap), length)
  BY LengthIs DEF LengthOK
<1>2. p \in Allocator!Taken <=> \E a \in Pfns : p \in a .. a + length[a] - 1
  BY DEF Allocator!Taken, Allocator!Run, Allocator!Pages, Pfns
<1>3. ASSUME NEW a \in Pfns, p \in a .. a + length[a] - 1
      PROVE  \E b \in Taken(bitmap) : p \in Under(b)
  <2>1. length[a] # 0
    BY <1>3 DEF Pfns
  <2>2. PICK b \in Taken(bitmap) : first_page(b) = a
    BY <1>1, <2>1 DEF Lengths
  <2>3. length[a] = node_size[b]
    BY <1>1, <2>2 DEF Lengths
  <2>4. QED  BY <1>3, <2>2, <2>3 DEF Under
<1>4. ASSUME NEW b \in Taken(bitmap), p \in Under(b)
      PROVE  \E a \in Pfns : p \in a .. a + length[a] - 1
  <2>1. first_page(b) \in Pfns
    BY FirstPage DEF Taken
  <2>2. length[first_page(b)] = node_size[b]
    BY <1>1 DEF Lengths
  <2>3. p \in first_page(b) .. first_page(b) + length[first_page(b)] - 1
    BY <1>4, <2>2 DEF Under
  <2>4. QED  BY <2>1, <2>3
<1>5. QED  BY <1>2, <1>3, <1>4

\* A node's run is aligned to its length.
LEMMA Aligned ==
  ASSUME NEW i \in Nodes
  PROVE  first_page(i) % node_size[i] = 0
         /\ \E q \in Nat : first_page(i) = node_size[i] * q
<1> DEFINE n == node_size[i]
<1>1. /\ n \in Powers /\ n \in Nat \ {0} /\ first_page(i) \in Nat /\ i \in Nat
      /\ first_page(i) + n <= size
  BY Half, Runs DEF Nodes
<1>2. n <= size /\ size \in Nat /\ size \in Powers
  BY <1>1, SizeFacts
<1>3. PICK m \in Nat : size = n * m
  BY <1>1, <1>2, PowerDivides
<1>4. first_page(i) = (i + 1) * n - size
  BY DEF first_page
<1> HIDE DEF n
<1>5. m <= i + 1
  <2> SUFFICES ASSUME i + 2 <= m  PROVE  FALSE
    BY <1>1
  <2>1. n * (i + 2) <= n * m
    BY <1>1, MulMonotone
  <2>2. n * (i + 2) = (i + 1) * n + n /\ (i + 1) * n \in Nat
    BY <1>1
  <2>3. QED  BY <1>1, <1>2, <1>3, <1>4, <2>1, <2>2
<1>6. PICK q \in Nat : i + 1 = m + q
  <2>1. (i + 1) - m \in Nat /\ i + 1 = m + ((i + 1) - m)
    BY <1>1, <1>5
  <2>2. QED  BY <2>1
<1>7. first_page(i) = n * q
  <2>1. (i + 1) * n = n * m + n * q /\ n * m \in Nat /\ n * q \in Nat
    BY <1>1, <1>6
  <2>2. QED  BY <1>3, <1>4, <2>1
<1>8. first_page(i) % n = 0
  <2>1. (n * q + 0) % n = 0
    <3>1. 0 \in 0 .. n - 1
      BY <1>1
    <3>2. QED  BY <1>1, <3>1, DivUnique
  <2>2. n * q + 0 = n * q
    BY <1>1
  <2>3. QED  BY <1>7, <2>1, <2>2
<1>9. QED  BY <1>7, <1>8 DEF n

\* Every aligned run is that of a node.
LEMMA NodeOfRun ==
  ASSUME NEW n \in Powers, NEW a \in Nat, a % n = 0, a + n <= size
  PROVE  \E i \in Nodes : node_size[i] = n /\ first_page(i) = a
<1>1. n \in Nat \ {0} /\ size \in Nat /\ a \in Pfns
  BY PowerHalf, SizeFacts DEF Pfns
<1>2. PICK c \in Nat : a = n * c
  <2>1. a = n * (a \div n) + (a % n) /\ a \div n \in Nat
    BY <1>1, DivBounds
  <2>2. n * (a \div n) + 0 = n * (a \div n)
    BY <1>1, <2>1
  <2>3. QED  BY <2>1, <2>2
<1> DEFINE Q(j) == node_size[j] >= n /\ a \in Under(j) =>
                     \E i \in Nodes : node_size[i] = n /\ first_page(i) = a
           S == {j \in Nodes : Q(j)}
<1>3. ASSUME NEW j \in Nodes, node_size[j] = n, a \in Under(j)  PROVE  first_page(j) = a
  <2>1. PICK q \in Nat : first_page(j) = n * q
    BY <1>3, Aligned
  <2>2. n * q <= n * c /\ n * c < n * q + n /\ n * q \in Nat /\ n * c \in Nat
    BY <1>1, <1>2, <1>3, <2>1 DEF Under
  <2>3. ~ (c >= q + 1)
    <3> SUFFICES ASSUME q + 1 <= c  PROVE  FALSE
      OBVIOUS
    <3>1. n * (q + 1) <= n * c /\ n * (q + 1) = n * q + n
      BY <1>1, MulMonotone
    <3>2. QED  BY <1>1, <2>2, <3>1
  <2>4. ~ (q >= c + 1)
    <3> SUFFICES ASSUME c + 1 <= q  PROVE  FALSE
      OBVIOUS
    <3>1. n * (c + 1) <= n * q /\ n * (c + 1) = n * c + n
      BY <1>1, MulMonotone
    <3>2. QED  BY <1>1, <2>2, <3>1
  <2>5. c = q
    BY <2>3, <2>4
  <2>6. QED  BY <1>2, <2>1, <2>5
<1>4. ASSUME NEW j \in Nodes, ~ Inner(j)  PROVE  j \in S
  <2>1. node_size[j] >= n => node_size[j] = n
    BY <1>1, <1>4, Half
  <2>2. QED  BY <1>3, <2>1
<1>5. ASSUME NEW j \in Nodes, Inner(j), LEFT_LEAF(j) \in S, RIGHT_LEAF(j) \in S
      PROVE  j \in S
  <2> SUFFICES ASSUME node_size[j] >= n, a \in Under(j), node_size[j] # n
               PROVE  \E i \in Nodes : node_size[i] = n /\ first_page(i) = a
    BY <1>3, <1>5
  <2>1. node_size[j] \in Powers /\ node_size[j] \in Nat
    BY Half
  <2>2. n <= node_size[j] \div 2
    BY <1>1, <2>1, PowerDivides
  <2>3. /\ node_size[j] = 2 * node_size[LEFT_LEAF(j)] /\ node_size[j] = 2 * node_size[RIGHT_LEAF(j)]
        /\ node_size[LEFT_LEAF(j)] \in Nat /\ node_size[RIGHT_LEAF(j)] \in Nat
    BY <1>5, Half, Below
  <2>4. node_size[LEFT_LEAF(j)] >= n /\ node_size[RIGHT_LEAF(j)] >= n
    BY <1>1, <2>1, <2>2, <2>3
  <2>5. a \in Under(LEFT_LEAF(j)) \/ a \in Under(RIGHT_LEAF(j))
    BY <1>5, UnderChildren
  <2>6. QED  BY <1>5, <2>4, <2>5
<1>6. Nodes \subseteq S
  <2> HIDE DEF S
  <2>1. QED  BY <1>4, <1>5, FromLeaves
<1>7. 0 \in Nodes /\ node_size[0] >= n /\ a \in Under(0)
  <2>1. 0 \in Nodes
    BY SizeFacts DEF Nodes
  <2>2. node_size[0] = size /\ first_page(0) = 0
    BY <2>1, Half, Runs
  <2>3. QED  BY <1>1, <2>1, <2>2 DEF Under
<1>8. QED  BY <1>6, <1>7

\* No room in the tree: there is no aligned run of free pages of that length.
LEMMA NoRun ==
  ASSUME IInv, booted = reserved, NEW n \in Powers, bitmap[0] < n, NEW a \in Pfns
  PROVE  ~ Allocator!FreeRun(a, n)
<1>1. n \in Nat \ {0} /\ a \in Nat /\ size \in Nat /\ TreeOK(bitmap)
  BY PowerHalf, SizeFacts DEF Pfns, IInv
<1>2. SUFFICES ASSUME a % n = 0,
                      \A p \in a .. a + n - 1 : p \in Pfns /\ p \notin Allocator!Taken
               PROVE  FALSE
  BY DEF Allocator!FreeRun, Allocator!Run, Allocator!Pages, Pfns
<1>3. a + n <= size
  <2>1. a + n - 1 \in a .. a + n - 1
    BY <1>1
  <2>2. a + n - 1 \in Pfns
    BY <1>2, <2>1
  <2>3. QED  BY <1>1, <2>2 DEF Pfns
<1>4. PICK i \in Nodes : node_size[i] = n /\ first_page(i) = a
  BY <1>1, <1>2, <1>3, NodeOfRun
<1>5. ASSUME NEW b \in Taken(bitmap), NEW p \in Under(i)  PROVE  p \notin Under(b)
  BY <1>2, <1>4, TakenPages DEF Under
<1>6. ASSUME NEW b \in Taken(bitmap)  PROVE  i \notin Path[b] /\ b \notin Path[i]
  <2>1. /\ b \in Nodes /\ first_page(b) \in Under(b) /\ first_page(i) \in Under(i)
    BY FirstPage DEF Taken
  <2>2. QED  BY <1>5, <2>1, UnderPath
<1>7. bitmap[i] = n
  BY <1>1, <1>4, <1>6, WholeWhereFree
<1>8. 0 \in Path[i] /\ 0 \in Nodes
  BY PathFacts, SizeFacts DEF Nodes
<1>9. bitmap[i] <= bitmap[0] /\ bitmap[0] \in Nat
  BY <1>1, <1>6, <1>8, RoomAbove, TreeCases
<1>10. QED  BY <1>1, <1>7, <1>9

\* A whole node with nothing taken above it is such a run.
LEMMA RunOfNode ==
  ASSUME IInv, booted = reserved, NEW i \in Nodes, bitmap[i] = node_size[i],
         Path[i] \cap Taken(bitmap) = {}
  PROVE  Allocator!FreeRun(first_page(i), node_size[i])
<1>1. first_page(i) % node_size[i] = 0
  BY Aligned
<1>2. ASSUME NEW p \in Under(i)  PROVE  p \in Pfns /\ p \notin Allocator!Taken
  <2>1. \A b \in Taken(bitmap) : p \notin Under(b)
    BY FreeNode DEF IInv
  <2>2. QED  BY <2>1, FirstPage, TakenPages
<1>3. QED
  BY <1>1, <1>2 DEF Allocator!FreeRun, Allocator!Run, Allocator!Pages, Pfns, Under

\* What buddy_alloc adds to the lengths.
LEMMA LengthsTaken ==
  ASSUME NEW bm, TreeOK(bm), NEW i \in Nodes, bm[i] = node_size[i], Path[i] \cap Taken(bm) = {},
         NEW x, NEW y, Lengths(Taken(bm), x), Lengths(Taken(bm) \cup {i}, y)
  PROVE  y = [x EXCEPT ![first_page(i)] = node_size[i]]
<1> DEFINE a == first_page(i)
           z == [x EXCEPT ![a] = node_size[i]]
<1>1. x \in [Pfns -> Nat] /\ node_size[i] \in Nat /\ a \in Pfns /\ a \in Under(i)
  BY FirstPage, NodeSizes DEF Lengths
<1>2. ASSUME NEW b \in Taken(bm)  PROVE  first_page(b) # a
  BY <1>1, FirstPage, FreeNode DEF Taken
<1> HIDE DEF a
<1>3. z \in [Pfns -> Nat] /\ z[a] = node_size[i] /\ \A p \in Pfns : p # a => z[p] = x[p]
  BY <1>1
<1> HIDE DEF z
<1>4. \A b \in Taken(bm) : first_page(b) \in Pfns
  BY FirstPage DEF Taken
<1>5. Lengths(Taken(bm) \cup {i}, z)
  BY <1>2, <1>3, <1>4 DEF Lengths, a
<1>6. z = y
  BY <1>5, LengthsAgree
<1>7. QED  BY <1>6 DEF z, a

\* And what buddy_free takes from them.
LEMMA LengthsReturned ==
  ASSUME NEW bm, TreeOK(bm), NEW i \in Taken(bm),
         NEW x, NEW y, Lengths(Taken(bm), x), Lengths(Taken(bm) \ {i}, y)
  PROVE  y = [x EXCEPT ![first_page(i)] = 0]
<1> DEFINE a == first_page(i)
           z == [x EXCEPT ![a] = 0]
<1>1. x \in [Pfns -> Nat] /\ a \in Pfns
  BY FirstPage DEF Lengths, Taken
<1>2. \A b \in Taken(bm) : b # i => first_page(b) # a
  BY TakenByPage
<1> HIDE DEF a
<1>3. z \in [Pfns -> Nat] /\ z[a] = 0 /\ \A p \in Pfns : p # a => z[p] = x[p]
  BY <1>1
<1> HIDE DEF z
<1>4. \A b \in Taken(bm) : first_page(b) \in Pfns
  BY FirstPage DEF Taken
<1>5. \A b \in Taken(bm) \ {i} : z[first_page(b)] = node_size[b]
  BY <1>2, <1>3, <1>4 DEF Lengths
<1>6. ASSUME NEW p \in Pfns, \A b \in Taken(bm) \ {i} : first_page(b) # p
      PROVE  z[p] = 0
  <2>1. CASE p = a
    BY <1>3, <2>1
  <2>2. CASE p # a
    <3>1. \A b \in Taken(bm) : first_page(b) # p
      BY <1>6, <2>2 DEF a
    <3>2. QED  BY <1>3, <2>2, <3>1 DEF Lengths
  <2>3. QED  BY <2>1, <2>2
<1>7. Lengths(Taken(bm) \ {i}, z)
  BY <1>3, <1>5, <1>6 DEF Lengths
<1>8. z = y
  BY <1>7, LengthsAgree
<1>9. QED  BY <1>8 DEF z, a

\* The initial states, and each step.
LEMMA InitMaps == Init => Allocator!Init
<1> SUFFICES ASSUME Init  PROVE  Allocator!Init
  OBVIOUS
<1>1. booted < reserved /\ reserved - 1 \in Pfns
  BY BuddyAssumption, SizeFacts DEF Init, Pfns
<1>2. length = [p \in Pfns |-> IF p < reserved THEN 1 ELSE 0]
  BY <1>1 DEF length
<1>3. QED  BY <1>1, <1>2 DEF Allocator!Init, Allocator!Pages, Pfns

\* buddy_init works towards the initial state of PageAllocator.
LEMMA ReserveMaps ==
  ASSUME IInv, IInv', Reserve
  PROVE  UNCHANGED Allocator!vars
<1> DEFINE first == [p \in Pfns |-> IF p < reserved THEN 1 ELSE 0]
<1>1. booted < reserved /\ booted' = booted + 1 /\ booted \in Nat /\ reserved \in Nat
  BY BuddyAssumption DEF Reserve, IInv, TypeOK
<1>2. Allocator!vars = <<first, first, reserved - 1>>
  BY <1>1 DEF Allocator!vars, length
<1>3. CASE booted' < reserved
  BY <1>2, <1>3 DEF Allocator!vars, length
<1>4. CASE ~ (booted' < reserved)
  <2>1. booted' = reserved /\ booted = reserved - 1
    BY <1>1, <1>4
  <2> DEFINE i == Descend(fixsize(1))
  <2>2. ~ (bitmap[0] < fixsize(1)) /\ first_page(i) = booted /\ node_size[i] = 1 /\ buddy_alloc(1)
    BY ReserveTakes DEF Reserve
  <2> HIDE DEF i
  <2>3. /\ Taken(bitmap') = Taken(bitmap) \cup {i} /\ i \in Nodes
        /\ ref_cnt' = [ref_cnt EXCEPT ![first_page(i)] = 1] /\ ret' = first_page(i)
    BY <2>2, AllocTakes DEF IInv, i
  <2>4. ref_cnt' = first
    <3>1. \A p \in Pfns : ref_cnt[p] = (IF p < booted THEN 1 ELSE 0) /\ p \in Nat
      BY <1>1 DEF IInv, Boots, Pfns
    <3>2. ref_cnt \in [Pfns -> 0 .. MaxRef]
      BY DEF IInv, TypeOK
    <3>3. ASSUME NEW p \in Pfns  PROVE  ref_cnt'[p] = first[p]
      <4>1. ref_cnt'[p] = IF p = booted THEN 1 ELSE ref_cnt[p]
        BY <2>2, <2>3, <3>2
      <4>2. QED  BY <1>1, <2>1, <3>1, <4>1
    <3>4. ref_cnt' = [p \in Pfns |-> ref_cnt'[p]]
      BY <2>3, <3>2
    <3>5. QED  BY <3>3, <3>4
  <2>5. length' = first
    <3>1. Lengths(Taken(bitmap'), length')
      BY <2>1, LengthIsNext DEF LengthOK
    <3>2. \A b \in Taken(bitmap') : node_size[b] = 1
      BY <1>1, <2>2, <2>3 DEF IInv, Boots
    <3>3. \A p \in Pfns : p < reserved <=> \E b \in Taken(bitmap') : first_page(b) = p
      <4>1. \A p \in Pfns : ref_cnt'[p] > 0 <=> p < reserved
        BY <2>4
      <4>2. QED  BY <4>1 DEF IInv, RefsOK
    <3> HIDE DEF first
    <3>4. Lengths(Taken(bitmap'), first)
      <4>1. \A b \in Taken(bitmap') : first_page(b) \in Pfns
        BY FirstPage DEF Taken
      <4>2. /\ first \in [Pfns -> Nat]
            /\ \A p \in Pfns : first[p] = IF p < reserved THEN 1 ELSE 0
        BY DEF first
      <4>3. QED  BY <3>2, <3>3, <4>1, <4>2 DEF Lengths
    <3>5. QED  BY <3>1, <3>4, LengthsAgree
  <2>6. Allocator!vars' = <<first, first, reserved - 1>>
    BY <2>1, <2>2, <2>3, <2>4, <2>5, <1>4 DEF Allocator!vars
  <2>7. QED  BY <1>2, <2>6
<1>5. QED  BY <1>3, <1>4

LEMMA AllocMaps ==
  ASSUME IInv, IInv', AllocPages
  PROVE  \E n \in {fixsize(m) : m \in Requests} : Allocator!Alloc(n)
<1>1. booted = reserved /\ booted' = reserved /\ ~ (booted < reserved) /\ ~ (booted' < reserved)
  BY BuddyAssumption DEF AllocPages
<1>2. PICK m \in Requests : buddy_alloc(m)
  BY DEF AllocPages
<1> DEFINE n == fixsize(m)
<1>3. m \in Nat /\ n \in Powers
  BY BuddyAssumption, FixsizeIsPower
<1>4. Lengths(Taken(bitmap), length) /\ Lengths(Taken(bitmap'), length')
  BY <1>1, LengthIs, LengthIsNext DEF LengthOK
<1>5. CASE bitmap[0] < n
  <2>1. bitmap' = bitmap /\ ref_cnt' = ref_cnt /\ ret' = 0
    BY <1>2, <1>5 DEF buddy_alloc
  <2>2. length' = length
    BY <1>4, <2>1, LengthsAgree
  <2>3. \A a \in Pfns : ~ Allocator!FreeRun(a, n)
    BY <1>1, <1>3, <1>5, NoRun
  <2>4. Allocator!Alloc(n)
    BY <1>1, <2>1, <2>2, <2>3 DEF Allocator!Alloc, Allocator!Pages, Pfns
  <2>5. QED  BY <2>4
<1>6. CASE ~ (bitmap[0] < n)
  <2> DEFINE i == Descend(n)
             a == first_page(i)
  <2>1. /\ i \in Nodes /\ node_size[i] = n /\ bitmap[i] = node_size[i]
        /\ Path[i] \cap Taken(bitmap) = {} /\ Taken(bitmap') = Taken(bitmap) \cup {i}
        /\ ref_cnt' = [ref_cnt EXCEPT ![a] = 1] /\ ret' = a
    BY <1>2, <1>3, <1>6, AllocTakes DEF IInv
  <2> HIDE DEF i, n
  <2>2. a \in Pfns
    BY <2>1, FirstPage
  <2>3. Allocator!FreeRun(a, n)
    BY <1>1, <2>1, RunOfNode
  <2>4. length' = [length EXCEPT ![a] = n]
    BY <1>4, <2>1, LengthsTaken DEF IInv
  <2> HIDE DEF a
  <2>5. Allocator!Alloc(n)
    BY <1>1, <2>1, <2>2, <2>3, <2>4 DEF Allocator!Alloc, Allocator!Pages, Pfns
  <2>6. QED  BY <2>5 DEF n
<1>7. QED  BY <1>5, <1>6

\* The pages a caller may use were handed out after buddy_init.
LEMMA InUsePages == InUse \subseteq Allocator!Pages \ Allocator!Run(0, reserved)
BY BuddyAssumption DEF InUse, Pfns, Allocator!Pages, Allocator!Run

LEMMA GetMaps ==
  ASSUME IInv, IInv', GetPage
  PROVE  \E a \in Allocator!Pages \ Allocator!Run(0, reserved) : Allocator!Get(a)
<1>1. /\ booted = reserved /\ booted' = reserved /\ ~ (booted < reserved) /\ ~ (booted' < reserved)
      /\ bitmap' = bitmap /\ ret' = ret
  BY BuddyAssumption DEF GetPage
<1>2. PICK p \in InUse : ref_cnt' = [ref_cnt EXCEPT ![p] = @ + 1]
  BY DEF GetPage
<1>3. length' = length
  <2>1. Lengths(Taken(bitmap), length) /\ Lengths(Taken(bitmap'), length')
    BY <1>1, LengthIs, LengthIsNext DEF LengthOK
  <2>2. QED  BY <1>1, <2>1, LengthsAgree
<1>4. Allocator!Get(p)
  BY <1>1, <1>2, <1>3 DEF Allocator!Get, InUse
<1>5. QED  BY <1>4, InUsePages

LEMMA PutMaps ==
  ASSUME IInv, IInv', PutPage
  PROVE  \E a \in Allocator!Pages \ Allocator!Run(0, reserved) : Allocator!Put(a)
<1>1. /\ booted = reserved /\ booted' = reserved /\ ~ (booted < reserved) /\ ~ (booted' < reserved)
      /\ ret' = ret
  BY BuddyAssumption DEF PutPage
<1>2. PICK p \in InUse :
        /\ ref_cnt' = [ref_cnt EXCEPT ![p] = @ - 1]
        /\ bitmap' = buddy_free(p, ref_cnt')
  BY DEF PutPage
<1>3. p \in Pfns /\ ref_cnt[p] > 0 /\ ref_cnt[p] \in Nat /\ ref_cnt'[p] = ref_cnt[p] - 1
  BY <1>2, BuddyAssumption DEF InUse, IInv, TypeOK
<1>4. Lengths(Taken(bitmap), length) /\ Lengths(Taken(bitmap'), length')
  BY <1>1, LengthIs, LengthIsNext DEF LengthOK
<1>5. length' = IF ref_cnt[p] = 1 THEN [length EXCEPT ![p] = 0] ELSE length
  <2>1. CASE ref_cnt[p] = 1
    <3> DEFINE b == Climb(p)
    <3>1. bitmap' = Returning(b)
      BY <1>2, <1>3, <2>1 DEF buddy_free
    <3>2. b \in Taken(bitmap) /\ first_page(b) = p
      BY <1>3, InUseNode
    <3> HIDE DEF b
    <3>3. Taken(bitmap') = Taken(bitmap) \ {b}
      BY <3>1, <3>2, ReturningTree DEF IInv
    <3>4. length' = [length EXCEPT ![first_page(b)] = 0]
      BY <1>4, <3>2, <3>3, LengthsReturned DEF IInv
    <3>5. QED  BY <2>1, <3>2, <3>4
  <2>2. CASE ref_cnt[p] # 1
    <3>1. bitmap' = bitmap
      BY <1>2, <1>3, <2>2 DEF buddy_free
    <3>2. QED  BY <1>4, <2>2, <3>1, LengthsAgree
  <2>3. QED  BY <2>1, <2>2
<1>6. Allocator!Put(p)
  BY <1>1, <1>2, <1>3, <1>5 DEF Allocator!Put
<1>7. QED  BY <1>6, InUsePages

LEMMA NextMaps == IInv /\ IInv' /\ [Next]_vars => [Allocator!Next]_(Allocator!vars)
<1> SUFFICES ASSUME IInv, IInv', [Next]_vars  PROVE  [Allocator!Next]_(Allocator!vars)
  OBVIOUS
<1>1. CASE Reserve
  BY <1>1, ReserveMaps
<1>2. CASE AllocPages
  BY <1>2, AllocMaps DEF Allocator!Next
<1>3. CASE GetPage
  BY <1>3, GetMaps DEF Allocator!Next
<1>4. CASE PutPage
  BY <1>4, PutMaps DEF Allocator!Next
<1>5. CASE UNCHANGED vars
  <2>1. UNCHANGED <<bitmap, ref_cnt, booted, ret>>
    BY <1>5 DEF vars
  <2>2. UNCHANGED length
    BY <2>1 DEF length, Climb
  <2>3. QED  BY <2>1, <2>2 DEF Allocator!vars
<1>6. CASE KFree
  BY <1>5, <1>6, KFreeNothing
<1>7. QED  BY <1>1, <1>2, <1>3, <1>4, <1>5, <1>6 DEF Next

\* The callers of mm.c can rely on PageAllocator: buddy_alloc answers with an
\* aligned run of pages that nobody has and refuses only when there is none,
\* get_page and put_page keep a run until its last reference is given back, and
\* buddy_init takes the pages below free_page_start and no other.
THEOREM BuddyImplementsPageAllocator == Spec => ImplementsPageAllocator
BY InitMaps, NextMaps, InvHolds, PTL DEF Spec, ImplementsPageAllocator, Allocator!Spec
=============================================================================
