--------------------------- MODULE PageTableProofs ---------------------------
(***************************************************************************)
(* Proofs about PageTable and Boot, for every number of tasks and tables,  *)
(* every number of entries in a table, every layout of user pages and      *)
(* kernel regions that keep to their halves.                               *)
(***************************************************************************)
EXTENDS Boot, ProofBasics

Idx == 0 .. Fanout - 1

\* The entries of a root table that lead to user pages.
UserTop == {VPN(v, 2) : v \in UserPages}

\* Each table that was made has a name: the task it belongs to (0 for the
\* kernel), its level, and the indices that lead to it.
Names == [own : 0 .. NR_TASKS - 1, lev : 0 .. 2, i2 : Idx, i1 : Idx]

Memories == [table : [Tables -> [Idx -> Entry]], used : Nat, ptr : Nat]

\* rt[p] is the root table of task p, 0 for none; nm names the tables of m.
\* A root leads to tables of its task where user pages are, and where kernel
\* pages are to what swapper_pg_dir leads to.
Rooted(u, rt, nm) ==
  /\ rt \in [Pids -> 0 .. u]
  /\ nm \in [0 .. u -> Names]
  /\ nm[0].own = 0 /\ nm[0].lev = 2
  /\ \A p \in Pids : rt[p] # 0 => nm[rt[p]].own = p /\ nm[rt[p]].lev = 2

Linked(T, u, nm) ==
  \A t \in 0 .. u, k \in Idx : T[t][k] # None =>
    /\ nm[t].lev = 2 => /\ T[t][k].ppn \in 0 .. u
                        /\ nm[T[t][k].ppn].lev = 1
                        /\ nm[T[t][k].ppn].own = IF k \in UserTop THEN nm[t].own ELSE 0
                        /\ nm[T[t][k].ppn].i2 = k
    /\ nm[t].lev = 1 => /\ T[t][k].ppn \in 0 .. u
                        /\ nm[T[t][k].ppn].lev = 0
                        /\ nm[T[t][k].ppn].own = nm[t].own
                        /\ nm[T[t][k].ppn].i2 = nm[t].i2
                        /\ nm[T[t][k].ppn].i1 = k

KernelShared(T, rt) ==
  /\ \A k \in UserTop : T[0][k] = None
  /\ \A p \in Pids, k \in Idx \ UserTop : rt[p] # 0 => T[rt[p]][k] = T[0][k]

Unmade(T, u) == \A t \in Tables : t > u => T[t] = Empty

Sound(m, rt, nm) ==
  /\ m \in Memories /\ m.used \in Tables
  /\ Rooted(m.used, rt, nm)
  /\ Linked(m.table, m.used, nm)
  /\ KernelShared(m.table, rt)
  /\ Unmade(m.table, m.used)

-----------------------------------------------------------------------------
\* Indices.
LEMMA Sizes ==
  /\ Fanout \in Nat /\ Fanout > 0 /\ 0 \in Idx /\ Top \in Nat
  /\ NTables \in Nat /\ NR_TASKS \in Nat \ {0, 1} /\ 0 \in Tables
  /\ \A p \in Pids : p \in 0 .. NR_TASKS - 1 /\ p # 0
BY TableAssumption DEF Idx, Tables, Pids, Top

LEMMA VpnType == \A v \in Nat, j \in 0 .. 2 : VPN(v, j) \in Idx
<1> SUFFICES ASSUME NEW v \in Nat, NEW j \in 0 .. 2  PROVE  VPN(v, j) \in Idx
  OBVIOUS
<1> DEFINE d == CASE j = 0 -> 1 [] j = 1 -> Fanout [] j = 2 -> Fanout * Fanout
<1>1. d \in Nat \ {0}
  BY Sizes
<1>2. v \div d \in Nat
  BY <1>1, DivBounds
<1>3. \A a \in Nat : a % Fanout \in Idx
  BY Sizes DEF Idx
<1>4. QED  BY <1>2, <1>3 DEF VPN

\* A page number is its three indices.
LEMMA VpnInjective ==
  ASSUME NEW v \in 0 .. Top - 1, NEW w \in 0 .. Top - 1,
         VPN(v, 2) = VPN(w, 2), VPN(v, 1) = VPN(w, 1), VPN(v, 0) = VPN(w, 0)
  PROVE  v = w
<1> DEFINE F == Fanout
<1>1. F \in Nat \ {0} /\ v \in Nat /\ w \in Nat /\ F * F \in Nat \ {0}
  BY Sizes
<1>2. \A x \in Nat : x % F \in Nat /\ x \div F \in Nat /\ x = F * (x \div F) + (x % F)
  BY <1>1
<1>3. \A x \in 0 .. Top - 1 : x \div (F * F) = (x \div (F * F)) % F
  <2> SUFFICES ASSUME NEW x \in 0 .. Top - 1  PROVE  x \div (F * F) = (x \div (F * F)) % F
    OBVIOUS
  <2> DEFINE q == x \div (F * F)
  <2>1. x \in Nat /\ x < (F * F) * F
    BY Sizes DEF Top
  <2>2. q \in Nat /\ (F * F) * q <= x
    BY <1>1, <2>1, DivBounds
  <2> HIDE DEF q
  <2>3. ~ (F <= q)
    <3> SUFFICES ASSUME F <= q  PROVE  FALSE
      OBVIOUS
    <3>1. (F * F) * F <= (F * F) * q
      BY <1>1, <2>2, MulMonotone
    <3>2. (F * F) * F \in Nat /\ (F * F) * q \in Nat
      BY <1>1, <2>2
    <3>3. QED  BY <2>1, <2>2, <3>1, <3>2
  <2>4. q % F = q
    BY <1>1, <2>2, <2>3
  <2>5. QED  BY <2>4 DEF q
<1>4. /\ VPN(v, 2) = (v \div (F * F)) % F /\ VPN(w, 2) = (w \div (F * F)) % F
      /\ VPN(v, 1) = (v \div F) % F /\ VPN(w, 1) = (w \div F) % F
      /\ VPN(v, 0) = v % F /\ VPN(w, 0) = w % F
  <2>1. v \div 1 = v /\ w \div 1 = w
    BY <1>1
  <2>2. QED  BY <2>1 DEF VPN
<1>5. (v \div F) \div F = (w \div F) \div F
  BY <1>1, <1>3, <1>4, DivTwice, Zenon
<1>6. v \div F = w \div F
  BY <1>1, <1>2, <1>4, <1>5
<1>7. QED  BY <1>1, <1>2, <1>4, <1>6
-----------------------------------------------------------------------------
\* Memories and the helpers of create_mapping.
LEMMA EntryFacts ==
  /\ None \in Entry /\ None \notin [ppn : Nat, perm : SUBSET {"R", "W", "X"}]
  /\ \A t \in Nat : Directory(t) \in Entry /\ Directory(t) # None /\ Directory(t).ppn = t
  /\ \A e \in Entry : e # None => e.ppn \in Nat /\ e.perm \subseteq {"R", "W", "X"}
  /\ Empty \in [Idx -> Entry] /\ \A k \in Idx : Empty[k] = None
BY TableAssumption DEF Entry, Directory, Empty, Idx

\* A table that is written is a table, and only the slot that was meant
\* changes.
LEMMA WriteSlot ==
  ASSUME NEW T \in [Tables -> [Idx -> Entry]], NEW x \in Tables, NEW k \in Idx, NEW e \in Entry
  PROVE  LET T2 == [T EXCEPT ![x][k] = e] IN
         /\ T2 \in [Tables -> [Idx -> Entry]]
         /\ T2[x][k] = e
         /\ \A t \in Tables, l \in Idx : t # x \/ l # k => T2[t][l] = T[t][l]
         /\ \A t \in Tables : t # x => T2[t] = T[t]
OBVIOUS

\* descend makes at most one table.
LEMMA DescendUsed ==
  ASSUME NEW m, m.used \in Nat, NEW v, NEW j
  PROVE  descend(m, v, j).used \in {m.used, m.used + 1}
BY DEF descend

\* Where create_mapping may make a table under t: for a task, where user pages
\* are; for the kernel, elsewhere and before there are tasks.
MayGrow(rt, nm, t, v, j) ==
  j = 2 => \/ nm[t].own # 0 /\ VPN(v, 2) \in UserTop
           \/ t = 0 /\ VPN(v, 2) \notin UserTop /\ \A p \in Pids : rt[p] = 0

\* The name of the table under t that v leads to.
Below(n, v, j) ==
  IF j = 2 THEN [own |-> n.own, lev |-> 1, i2 |-> VPN(v, 2), i1 |-> 0]
  ELSE [own |-> n.own, lev |-> 0, i2 |-> n.i2, i1 |-> VPN(v, 1)]

\* d is m after a round of descend: at the table below, with a name for it if
\* there was none.
Descended(m, d, rt, nm, nm2, v, j) ==
  /\ Sound(d, rt, nm2) /\ m.used <= d.used
  /\ \A t \in 0 .. m.used : nm2[t] = nm[t]
  /\ d.ptr \in 0 .. d.used
  /\ nm2[d.ptr].lev = j - 1 /\ nm2[d.ptr].own = nm[m.ptr].own
  /\ j = 2 => nm2[d.ptr].i2 = VPN(v, j)
  /\ j = 1 => nm2[d.ptr].i2 = nm[m.ptr].i2 /\ nm2[d.ptr].i1 = VPN(v, j)
  /\ d.table[m.ptr][VPN(v, j)] # None /\ d.table[m.ptr][VPN(v, j)].ppn = d.ptr
  /\ \/ d.table = m.table
     \/ /\ m.table[m.ptr][VPN(v, j)] = None
        /\ d.ptr \in Tables /\ d.ptr > m.used /\ d.table[d.ptr] = Empty
        /\ \A t \in Tables, l \in Idx :
             t # m.ptr \/ l # VPN(v, j) => d.table[t][l] = m.table[t][l]

\* One round of descend from a table that has a name: it ends at the table
\* below, which it has made when there was none.
LEMMA DescendSound ==
  ASSUME NEW m, NEW rt, NEW nm, Sound(m, rt, nm),
         m.ptr \in 0 .. m.used, NEW j \in {1, 2}, nm[m.ptr].lev = j,
         NEW v \in Nat, MayGrow(rt, nm, m.ptr, v, j),
         descend(m, v, j).used \in Tables
  PROVE  \E nm2 : Descended(m, descend(m, v, j), rt, nm, nm2, v, j)
<1> DEFINE d == descend(m, v, j)
           k == VPN(v, j)
           e == m.table[m.ptr][k]
<1>1. /\ m \in Memories /\ m.used \in Tables /\ m.used \in Nat
      /\ m.table \in [Tables -> [Idx -> Entry]]
      /\ k \in Idx /\ m.ptr \in Tables
  BY VpnType, Sizes DEF Sound, Memories, Tables
<1>2. e \in Entry
  BY <1>1
<1>3. nm \in [0 .. m.used -> Names] /\ nm[m.ptr] \in Names
  BY DEF Sound, Rooted
<1>4. CASE e # None
  <2>1. d = [m EXCEPT !.ptr = e.ppn]
    BY <1>4 DEF descend
  <2>2. d.table = m.table /\ d.used = m.used /\ d.ptr = e.ppn /\ d \in Memories
    BY <1>1, <1>2, <1>4, <2>1, EntryFacts DEF Memories
  <2>3. Sound(d, rt, nm)
    BY <2>2 DEF Sound
  <2>4. /\ e.ppn \in 0 .. m.used /\ nm[e.ppn].lev = j - 1
        /\ j = 2 => nm[e.ppn].own = IF k \in UserTop THEN nm[m.ptr].own ELSE 0
        /\ j = 2 => nm[e.ppn].i2 = k
        /\ j = 1 => nm[e.ppn].own = nm[m.ptr].own
        /\ j = 1 => nm[e.ppn].i2 = nm[m.ptr].i2 /\ nm[e.ppn].i1 = k
    BY <1>1, <1>4 DEF Sound, Linked
  <2>5. nm[e.ppn].own = nm[m.ptr].own
    BY <2>4 DEF MayGrow, Sound, Rooted
  <2>6. d.ptr \in 0 .. d.used /\ d.table[m.ptr][k] # None /\ d.table[m.ptr][k].ppn = d.ptr /\ m.used <= d.used
    BY <1>1, <1>4, <2>2, <2>4
  <2>7. Descended(m, d, rt, nm, nm, v, j)
    BY <2>2, <2>3, <2>4, <2>5, <2>6 DEF Descended
  <2>8. QED  BY <2>7
<1>5. CASE e = None
  <2> DEFINE n == m.used + 1
             nm2 == [t \in 0 .. n |-> IF t = n THEN Below(nm[m.ptr], v, j) ELSE nm[t]]
  <2>1. d = [table |-> [m.table EXCEPT ![m.ptr][k] = Directory(n)], used |-> n, ptr |-> n]
    BY <1>5 DEF descend
  <2>2. n \in Tables /\ n \in Nat /\ n # m.ptr /\ n > m.used
    BY <1>1, <2>1
  <2>3. /\ d.table = [m.table EXCEPT ![m.ptr][k] = Directory(n)] /\ d.used = n /\ d.ptr = n
    BY <2>1
  <2>4. /\ d.table \in [Tables -> [Idx -> Entry]]
        /\ d.table[m.ptr][k] = Directory(n)
        /\ \A t \in Tables, l \in Idx : t # m.ptr \/ l # k => d.table[t][l] = m.table[t][l]
        /\ \A t \in Tables : t # m.ptr => d.table[t] = m.table[t]
    BY <1>1, <2>2, <2>3, WriteSlot, EntryFacts
  <2>5. d \in Memories
    BY <2>1, <2>2, <2>3, <2>4 DEF Memories
  <2>6. Below(nm[m.ptr], v, j) \in Names
    BY <1>3, VpnType, Sizes DEF Below, Names
  <2>7. /\ nm2 \in [0 .. n -> Names] /\ nm2[n] = Below(nm[m.ptr], v, j)
        /\ \A t \in 0 .. m.used : nm2[t] = nm[t] /\ t \in 0 .. n
    BY <1>1, <1>3, <2>2, <2>6
  <2> HIDE DEF nm2, d
  <2>8. Rooted(n, rt, nm2)
    BY <1>1, <2>2, <2>7 DEF Sound, Rooted
  <2>9. d.table[n] = Empty
    BY <2>2, <2>4 DEF Sound, Unmade
  <2>10. Linked(d.table, n, nm2)
    <3> SUFFICES ASSUME NEW t \in 0 .. n, NEW l \in Idx, d.table[t][l] # None
                 PROVE  /\ nm2[t].lev = 2 => /\ d.table[t][l].ppn \in 0 .. n
                                             /\ nm2[d.table[t][l].ppn].lev = 1
                                             /\ nm2[d.table[t][l].ppn].own = IF l \in UserTop THEN nm2[t].own ELSE 0
                                             /\ nm2[d.table[t][l].ppn].i2 = l
                        /\ nm2[t].lev = 1 => /\ d.table[t][l].ppn \in 0 .. n
                                             /\ nm2[d.table[t][l].ppn].lev = 0
                                             /\ nm2[d.table[t][l].ppn].own = nm2[t].own
                                             /\ nm2[d.table[t][l].ppn].i2 = nm2[t].i2
                                             /\ nm2[d.table[t][l].ppn].i1 = l
      BY DEF Linked
    <3>1. t # n
      BY <2>9, EntryFacts
    <3>2. t \in 0 .. m.used /\ t \in Tables
      BY <1>1, <2>2, <3>1, Sizes DEF Tables
    <3>3. CASE t = m.ptr /\ l = k
      <4>1. d.table[t][l].ppn = n
        BY <2>2, <2>4, <3>3, EntryFacts
      <4>2. nm2[t] = nm[m.ptr] /\ nm[m.ptr].lev = j
        BY <2>7, <3>2, <3>3
      <4>3. j = 2 => nm[m.ptr].own = IF k \in UserTop THEN nm[m.ptr].own ELSE 0
        BY DEF MayGrow, Sound, Rooted
      <4>4. QED  BY <2>2, <2>7, <3>3, <4>1, <4>2, <4>3 DEF Below
    <3>4. CASE ~ (t = m.ptr /\ l = k)
      <4>1. d.table[t][l] = m.table[t][l]
        BY <2>4, <3>2, <3>4
      <4>2. QED
        BY <2>7, <3>2, <4>1 DEF Sound, Linked
    <3>5. QED  BY <3>3, <3>4
  <2>11. KernelShared(d.table, rt)
    <3>1. \A p \in Pids : rt[p] \in Tables
      BY <1>1, Sizes DEF Sound, Rooted, Tables
    <3>2. ASSUME NEW l \in UserTop  PROVE  d.table[0][l] = None
      <4>1. l \in Idx
        BY VpnType, TableAssumption DEF UserTop
      <4>2. m.ptr # 0 \/ l # k
        <5>1. CASE j = 2
          BY <5>1 DEF MayGrow, Sound, Rooted
        <5>2. CASE j = 1
          BY <5>2 DEF Sound, Rooted
        <5>3. QED  BY <5>1, <5>2
      <4>3. QED  BY <2>4, <4>1, <4>2, Sizes DEF Sound, KernelShared
    <3>3. ASSUME NEW p \in Pids, NEW l \in Idx \ UserTop, rt[p] # 0
          PROVE  d.table[rt[p]][l] = d.table[0][l]
      <4>1. (rt[p] # m.ptr \/ l # k) /\ (0 # m.ptr \/ l # k)
        <5>1. CASE j = 2
          BY <3>3, <5>1 DEF MayGrow, Sound, Rooted
        <5>2. CASE j = 1
          BY <3>3, <5>2 DEF Sound, Rooted
        <5>3. QED  BY <5>1, <5>2
      <4>2. QED  BY <2>4, <3>1, <3>3, <4>1, Sizes DEF Sound, KernelShared
    <3>4. QED  BY <3>2, <3>3 DEF KernelShared
  <2>12. Unmade(d.table, n)
    BY <1>1, <2>2, <2>4 DEF Sound, Unmade, Tables
  <2>13. Sound(d, rt, nm2)
    BY <2>2, <2>3, <2>5, <2>8, <2>10, <2>11, <2>12 DEF Sound
  <2>14. /\ nm2[n].lev = j - 1 /\ nm2[n].own = nm[m.ptr].own
         /\ j = 2 => nm2[n].i2 = k
         /\ j = 1 => nm2[n].i2 = nm[m.ptr].i2 /\ nm2[n].i1 = k
    BY <2>7 DEF Below
  <2>15. d.table[m.ptr][k] # None /\ d.table[m.ptr][k].ppn = n
    BY <2>2, <2>4, EntryFacts
  <2>16. /\ m.used <= d.used /\ \A t \in 0 .. m.used : nm2[t] = nm[t]
         /\ d.ptr = n /\ d.ptr \in 0 .. d.used /\ d.ptr \in Tables
    BY <1>1, <2>2, <2>3, <2>7
  <2>17. m.table[m.ptr][k] = None /\ n > m.used
    BY <1>5, <2>2
  <2>18. Descended(m, d, rt, nm, nm2, v, j)
    <3> HIDE DEF n, e
    <3>1. QED
      BY <2>4, <2>9, <2>13, <2>14, <2>15, <2>16, <2>17 DEF Descended
  <2>19. QED  BY <2>18 DEF d
<1>6. QED  BY <1>4, <1>5

-----------------------------------------------------------------------------
\* The tables a walk goes through.
Roots(rt) == {0} \cup {rt[p] : p \in Pids}

\* A root belongs to one task, or to the kernel.
LEMMA RootName ==
  ASSUME NEW m, NEW rt, NEW nm, Sound(m, rt, nm), NEW s \in Roots(rt)
  PROVE  /\ s \in 0 .. m.used /\ s \in Tables /\ nm[s].lev = 2
         /\ s = 0 => nm[s].own = 0
         /\ s # 0 => nm[s].own # 0
         /\ \A r \in Roots(rt) : nm[r].own = nm[s].own => r = s
<1>1. m.used \in Nat /\ m.used <= NTables /\ 0 \in 0 .. m.used
  BY Sizes DEF Sound, Tables
<1>2. \A r \in Roots(rt) :
        /\ r \in 0 .. m.used /\ nm[r].lev = 2
        /\ r = 0 => nm[r].own = 0
        /\ r # 0 => nm[r].own \in Pids /\ rt[nm[r].own] = r
  BY <1>1 DEF Sound, Rooted, Roots
<1>3. QED  BY <1>1, <1>2, Sizes DEF Tables

\* The entries a walk reads before the last.
Second(T, s, w) == T[s][VPN(w, 2)]
First(T, s, w)  == T[Second(T, s, w).ppn][VPN(w, 1)]

LEMMA EntryIs ==
  ASSUME NEW T, NEW s, NEW w
  PROVE  entry(T, s, w) =
           IF Second(T, s, w) = None \/ First(T, s, w) = None THEN None
           ELSE T[First(T, s, w).ppn][VPN(w, 0)]
<1>1. CASE Second(T, s, w) = None
  BY <1>1 DEF entry, Second
<1>2. CASE Second(T, s, w) # None
  BY <1>2 DEF entry, Second, First
<1>3. QED  BY <1>1, <1>2

\* The walk of a page from a root meets tables with the right names.
Walk(m, nm, s, w) ==
  LET e2 == Second(m.table, s, w)
      e1 == First(m.table, s, w) IN
  /\ e2 # None => /\ e2.ppn \in 0 .. m.used /\ e2.ppn \in Tables
                  /\ nm[e2.ppn].lev = 1 /\ nm[e2.ppn].i2 = VPN(w, 2)
                  /\ nm[e2.ppn].own = IF VPN(w, 2) \in UserTop THEN nm[s].own ELSE 0
  /\ e2 # None /\ e1 # None =>
       /\ e1.ppn \in 0 .. m.used /\ e1.ppn \in Tables
       /\ nm[e1.ppn].lev = 0 /\ nm[e1.ppn].i2 = VPN(w, 2) /\ nm[e1.ppn].i1 = VPN(w, 1)
       /\ nm[e1.ppn].own = nm[e2.ppn].own

LEMMA Path ==
  ASSUME NEW m, NEW rt, NEW nm, Sound(m, rt, nm), NEW s \in Roots(rt), NEW w \in Nat
  PROVE  Walk(m, nm, s, w)
<1> DEFINE e2 == Second(m.table, s, w)
           e1 == First(m.table, s, w)
           x  == e2.ppn
<1>1. s \in 0 .. m.used /\ nm[s].lev = 2
  BY RootName
<1>2. \A t \in 0 .. m.used : t \in Tables
  <2>1. m.used \in Nat /\ m.used <= NTables
    BY Sizes DEF Sound, Tables
  <2>2. QED  BY <2>1, Sizes DEF Tables
<1>3. VPN(w, 2) \in Idx /\ VPN(w, 1) \in Idx
  BY VpnType
<1>4. Linked(m.table, m.used, nm)
  BY DEF Sound
<1>5. ASSUME e2 # None
      PROVE  /\ x \in 0 .. m.used
             /\ nm[x].lev = 1 /\ nm[x].i2 = VPN(w, 2)
             /\ nm[x].own = IF VPN(w, 2) \in UserTop THEN nm[s].own ELSE 0
  BY <1>1, <1>3, <1>4, <1>5 DEF Linked, Second
<1>6. ASSUME e2 # None, e1 # None
      PROVE  /\ e1.ppn \in 0 .. m.used
             /\ nm[e1.ppn].lev = 0 /\ nm[e1.ppn].i2 = VPN(w, 2) /\ nm[e1.ppn].i1 = VPN(w, 1)
             /\ nm[e1.ppn].own = nm[x].own
  <2>1. /\ x \in 0 .. m.used /\ nm[x].lev = 1 /\ nm[x].i2 = VPN(w, 2)
        /\ e1 = m.table[x][VPN(w, 1)]
    BY <1>5, <1>6 DEF First
  <2> HIDE DEF x, e1
  <2>2. QED  BY <1>3, <1>4, <1>6, <2>1 DEF Linked
<1> HIDE DEF e1, e2
<1>7. QED  BY <1>2, <1>5, <1>6 DEF Walk, e1, e2

\* A round of descend changes no translation.
LEMMA DescendEntry ==
  ASSUME NEW m, NEW rt, NEW nm, Sound(m, rt, nm), m.ptr \in 0 .. m.used,
         NEW j \in {1, 2}, nm[m.ptr].lev = j, NEW v \in Nat,
         NEW d, NEW nm2, Descended(m, d, rt, nm, nm2, v, j),
         NEW s \in Roots(rt), NEW w \in Nat
  PROVE  entry(d.table, s, w) = entry(m.table, s, w)
<1> DEFINE e2 == Second(m.table, s, w)
           e1 == First(m.table, s, w)
           f2 == Second(d.table, s, w)
           f1 == First(d.table, s, w)
           k  == VPN(v, j)
<1>1. CASE d.table = m.table
  BY <1>1
<1>2. CASE d.table # m.table
  <2>1. /\ m.table[m.ptr][k] = None
        /\ d.ptr \in Tables /\ d.ptr > m.used /\ d.table[d.ptr] = Empty
        /\ d.table[m.ptr][k].ppn = d.ptr
        /\ \A t \in Tables, l \in Idx : t # m.ptr \/ l # k => d.table[t][l] = m.table[t][l]
    BY <1>2 DEF Descended
  <2>2. VPN(w, 2) \in Idx /\ VPN(w, 1) \in Idx /\ VPN(w, 0) \in Idx
    BY VpnType
  <2>3. s \in Tables /\ nm[s].lev = 2 /\ Walk(m, nm, s, w)
    BY RootName, Path
  <2>4. \A l \in Idx : d.table[d.ptr][l] = None
    BY <2>1, EntryFacts
  <2>5. /\ e2 = m.table[s][VPN(w, 2)] /\ e1 = m.table[e2.ppn][VPN(w, 1)]
        /\ f2 = d.table[s][VPN(w, 2)] /\ f1 = d.table[f2.ppn][VPN(w, 1)]
    BY DEF Second, First
  <2>6. /\ entry(m.table, s, w) = IF e2 = None \/ e1 = None THEN None ELSE m.table[e1.ppn][VPN(w, 0)]
        /\ entry(d.table, s, w) = IF f2 = None \/ f1 = None THEN None ELSE d.table[f1.ppn][VPN(w, 0)]
    BY EntryIs
  <2>7. /\ e2 # None => e2.ppn \in Tables /\ nm[e2.ppn].lev = 1
        /\ e2 # None /\ e1 # None => e1.ppn \in Tables /\ nm[e1.ppn].lev = 0
    BY <2>3 DEF Walk
  <2> HIDE DEF e1, e2, f1, f2, k
  <2>8. CASE e2 = None
    <3>1. CASE s = m.ptr /\ VPN(w, 2) = k
      <4>1. f1 = None
        BY <2>1, <2>2, <2>4, <2>5, <3>1
      <4>2. QED  BY <2>6, <2>8, <4>1
    <3>2. CASE ~ (s = m.ptr /\ VPN(w, 2) = k)
      <4>1. f2 = None
        BY <2>1, <2>2, <2>3, <2>5, <2>8, <3>2
      <4>2. QED  BY <2>6, <2>8, <4>1
    <3>3. QED  BY <3>1, <3>2
  <2>9. CASE e2 # None
    <3>1. f2 = e2
      BY <2>1, <2>2, <2>3, <2>5, <2>9
    <3> DEFINE y == e2.ppn
    <3>2. y \in Tables /\ e1 = m.table[y][VPN(w, 1)] /\ f1 = d.table[y][VPN(w, 1)]
      BY <2>5, <2>7, <2>9, <3>1
    <3> HIDE DEF y
    <3>3. CASE y = m.ptr /\ VPN(w, 1) = k
      <4>1. e1 = None /\ f1.ppn = d.ptr
        BY <2>1, <3>2, <3>3
      <4>2. QED  BY <2>2, <2>4, <2>6, <4>1
    <3>4. CASE ~ (y = m.ptr /\ VPN(w, 1) = k)
      <4>1. f1 = e1
        BY <2>1, <2>2, <3>2, <3>4
      <4>2. CASE e1 = None
        BY <2>6, <4>1, <4>2
      <4>3. CASE e1 # None
        <5>1. e1.ppn \in Tables /\ e1.ppn # m.ptr
          BY <2>7, <2>9, <4>3
        <5>2. d.table[e1.ppn][VPN(w, 0)] = m.table[e1.ppn][VPN(w, 0)]
          BY <2>1, <2>2, <5>1
        <5>3. QED  BY <2>6, <2>9, <3>1, <4>1, <4>3, <5>2
      <4>4. QED  BY <4>2, <4>3
    <3>5. QED  BY <3>3, <3>4
  <2>10. QED  BY <2>8, <2>9
<1>3. QED  BY <1>1, <1>2

\* The links are those of the tables of the two upper levels.
LEMMA LinkedKept ==
  ASSUME NEW T, NEW T2, NEW u, NEW nm, Linked(T, u, nm),
         \A t \in 0 .. u : nm[t].lev # 0 => T2[t] = T[t]
  PROVE  Linked(T2, u, nm)
<1> SUFFICES ASSUME NEW t \in 0 .. u, NEW k \in Idx, T2[t][k] # None,
                    nm[t].lev = 2 \/ nm[t].lev = 1
             PROVE  /\ T[t][k] # None /\ T2[t][k] = T[t][k]
  BY DEF Linked
<1>1. nm[t].lev # 0
  OBVIOUS
<1>2. QED  BY <1>1

\* A write to a table of the last level changes one translation, that of a
\* page of a task it leads to.
LEMMA LeafWrite ==
  ASSUME NEW m, NEW rt, NEW nm, Sound(m, rt, nm), NEW r \in Roots(rt),
         NEW v \in 0 .. Top - 1, NEW e \in Entry,
         r = 0 => VPN(v, 2) \notin UserTop /\ \A p \in Pids : rt[p] = 0,
         r # 0 => VPN(v, 2) \in UserTop,
         NEW x \in 0 .. m.used, nm[x].lev = 0, nm[x].own = nm[r].own,
         nm[x].i2 = VPN(v, 2), nm[x].i1 = VPN(v, 1),
         m.table[r][VPN(v, 2)] # None,
         m.table[m.table[r][VPN(v, 2)].ppn][VPN(v, 1)] # None,
         m.table[m.table[r][VPN(v, 2)].ppn][VPN(v, 1)].ppn = x,
         NEW m2 \in Memories, m2.used = m.used, m2.table = [m.table EXCEPT ![x][VPN(v, 0)] = e]
  PROVE  /\ Sound(m2, rt, nm)
         /\ \A s \in Roots(rt), w \in 0 .. Top - 1 :
              entry(m2.table, s, w) = IF s = r /\ w = v THEN e ELSE entry(m.table, s, w)
<1>1. /\ m.table \in [Tables -> [Idx -> Entry]] /\ x \in Tables
      /\ m.used \in Nat /\ \A t \in 0 .. m.used : t \in Tables
      /\ \A w \in 0 .. Top - 1 : w \in Nat
      /\ \A w \in Nat : VPN(w, 2) \in Idx /\ VPN(w, 1) \in Idx /\ VPN(w, 0) \in Idx
  BY Sizes, VpnType DEF Sound, Memories, Tables
<1>2. /\ m2.table[x][VPN(v, 0)] = e
      /\ \A t \in Tables, l \in Idx : t # x \/ l # VPN(v, 0) => m2.table[t][l] = m.table[t][l]
      /\ \A t \in Tables : t # x => m2.table[t] = m.table[t]
  BY <1>1, WriteSlot
<1>3. Sound(m2, rt, nm)
  <2>1. Linked(m2.table, m2.used, nm)
    <3>1. Linked(m.table, m.used, nm)
      BY DEF Sound
    <3>2. \A t \in 0 .. m.used : nm[t].lev # 0 => m2.table[t] = m.table[t]
      BY <1>1, <1>2
    <3>3. Linked(m2.table, m.used, nm)
      BY <3>1, <3>2, LinkedKept
    <3>4. QED  BY <3>3
  <2>2. \A s \in Roots(rt) : m2.table[s] = m.table[s]
    BY <1>2, RootName
  <2>3. KernelShared(m2.table, rt)
    BY <2>2 DEF Sound, KernelShared, Roots
  <2>4. Unmade(m2.table, m2.used)
    BY <1>1, <1>2 DEF Sound, Unmade, Tables
  <2>5. QED  BY <2>1, <2>3, <2>4 DEF Sound
<1>4. ASSUME NEW s \in Roots(rt), NEW w \in 0 .. Top - 1
      PROVE  entry(m2.table, s, w) = IF s = r /\ w = v THEN e ELSE entry(m.table, s, w)
  <2> DEFINE e2 == Second(m.table, s, w)
             e1 == First(m.table, s, w)
             f2 == Second(m2.table, s, w)
             f1 == First(m2.table, s, w)
  <2>1. /\ entry(m.table, s, w) = IF e2 = None \/ e1 = None THEN None ELSE m.table[e1.ppn][VPN(w, 0)]
        /\ entry(m2.table, s, w) = IF f2 = None \/ f1 = None THEN None ELSE m2.table[f1.ppn][VPN(w, 0)]
    BY EntryIs
  <2>2. /\ e2 = m.table[s][VPN(w, 2)] /\ e1 = m.table[e2.ppn][VPN(w, 1)]
        /\ f2 = m2.table[s][VPN(w, 2)] /\ f1 = m2.table[f2.ppn][VPN(w, 1)]
    BY DEF Second, First
  <2>3. /\ e2 # None => e2.ppn \in Tables /\ nm[e2.ppn].lev = 1
        /\ e2 # None /\ e1 # None =>
             /\ e1.ppn \in Tables
             /\ nm[e1.ppn].i2 = VPN(w, 2) /\ nm[e1.ppn].i1 = VPN(w, 1)
             /\ nm[e1.ppn].own = IF VPN(w, 2) \in UserTop THEN nm[s].own ELSE 0
    <3>1. Walk(m, nm, s, w)
      BY <1>1, Path
    <3>2. QED  BY <3>1 DEF Walk
  <2>4. s \in Tables /\ nm[s].lev = 2
    BY RootName
  <2> HIDE DEF e1, e2, f1, f2
  <2>5. f2 = e2
    BY <1>2, <2>2, <2>4
  <2>6. ASSUME e2 # None  PROVE  f1 = e1
    <3>1. m2.table[e2.ppn] = m.table[e2.ppn]
      BY <1>2, <2>3, <2>6
    <3>2. QED  BY <2>2, <2>5, <3>1
  <2>7. CASE s = r /\ w = v
    <3>1. e2 # None /\ e1 # None /\ e1.ppn = x
      BY <2>2, <2>7
    <3>2. QED  BY <1>2, <2>1, <2>5, <2>6, <2>7, <3>1
  <2>8. CASE ~ (s = r /\ w = v) /\ e2 # None /\ e1 # None
    <3>1. /\ e1.ppn \in Tables
          /\ nm[e1.ppn].i2 = VPN(w, 2) /\ nm[e1.ppn].i1 = VPN(w, 1)
          /\ nm[e1.ppn].own = IF VPN(w, 2) \in UserTop THEN nm[s].own ELSE 0
      BY <2>3, <2>8
    <3>2. e1.ppn # x \/ VPN(w, 0) # VPN(v, 0)
      <4> SUFFICES ASSUME e1.ppn = x, VPN(w, 0) = VPN(v, 0)  PROVE  FALSE
        OBVIOUS
      <4>1. w = v
        BY <3>1, VpnInjective
      <4>2. CASE r = 0
        BY <2>8, <4>1, <4>2 DEF Roots
      <4>3. CASE r # 0
        <5>1. nm[s].own = nm[r].own
          BY <3>1, <4>1, <4>3
        <5>2. s = r
          BY <5>1, RootName
        <5>3. QED  BY <2>8, <4>1, <5>2
      <4>4. QED  BY <4>2, <4>3
    <3>3. m2.table[e1.ppn][VPN(w, 0)] = m.table[e1.ppn][VPN(w, 0)]
      <4>1. VPN(w, 0) \in Idx
        BY <1>1
      <4>2. QED  BY <1>2, <3>1, <3>2, <4>1
    <3>4. QED  BY <2>1, <2>5, <2>6, <2>8, <3>3
  <2>9. CASE ~ (s = r /\ w = v) /\ (e2 = None \/ e1 = None)
    BY <2>1, <2>5, <2>6, <2>9
  <2>10. QED  BY <2>7, <2>8, <2>9
<1>5. QED  BY <1>3, <1>4

-----------------------------------------------------------------------------
\* Mapping one page.
Good(m, rt) == \E nm : Sound(m, rt, nm)

\* Where create_mapping is called: for a task's pages from its root, for the
\* kernel's from swapper_pg_dir before there are tasks.
May(rt, r, v) ==
  /\ r \in Roots(rt) /\ v \in 0 .. Top - 1
  /\ r = 0 => VPN(v, 2) \notin UserTop /\ \A p \in Pids : rt[p] = 0
  /\ r # 0 => VPN(v, 2) \in UserTop

\* The translations of m2 are those of m but for page v from r.
Mapped(m, m2, rt, r, v, e) ==
  \A s \in Roots(rt), w \in 0 .. Top - 1 :
    entry(m2.table, s, w) = IF s = r /\ w = v THEN e ELSE entry(m.table, s, w)

\* map_page gives one page of one task its translation, if there are tables
\* enough.
LEMMA MapPage ==
  ASSUME NEW m, NEW rt, Good(m, rt), NEW r, NEW v, May(rt, r, v),
         NEW pa \in Nat, NEW perm \in SUBSET {"R", "W", "X"}
  PROVE  LET m2 == map_page(m, r, v, pa, perm) IN
         /\ m2.used \in Nat /\ m.used <= m2.used
         /\ m2.used \in Tables =>
              Good(m2, rt) /\ Mapped(m, m2, rt, r, v, [ppn |-> pa, perm |-> perm])
<1> DEFINE m0 == [m EXCEPT !.ptr = r]
           d1 == descend(m0, v, 2)
           d2 == descend(d1, v, 1)
           e  == [ppn |-> pa, perm |-> perm]
           m2 == [d2 EXCEPT !.table[d2.ptr][VPN(v, 0)] = e]
<1>1. PICK nm : Sound(m, rt, nm)
  BY DEF Good
<1>2. /\ r \in 0 .. m.used /\ r \in Tables /\ nm[r].lev = 2 /\ v \in Nat
      /\ r = 0 => nm[r].own = 0
      /\ r # 0 => nm[r].own # 0
  BY <1>1, RootName, Sizes DEF May
<1>3. /\ m0.table = m.table /\ m0.used = m.used /\ m0.ptr = r /\ m0 \in Memories
      /\ m.used \in Nat /\ m \in Memories
  BY <1>1, <1>2 DEF Sound, Memories
<1>4. Sound(m0, rt, nm)
  BY <1>1, <1>3 DEF Sound
<1>5. map_page(m, r, v, pa, perm) = m2
  BY DEF map_page
<1>6. d1.used \in {m0.used, m0.used + 1}
  BY <1>3, DescendUsed
<1>7. d1.used \in Nat /\ m.used <= d1.used
  BY <1>3, <1>6
<1>8. d2.used \in {d1.used, d1.used + 1}
  BY <1>7, DescendUsed
<1>9. d2.used \in Nat /\ d1.used <= d2.used
  BY <1>7, <1>8
<1> HIDE DEF d1
<1>10. m2.used = d2.used
  <2>1. d2 = [d1 EXCEPT !.ptr = d1.table[d1.ptr][VPN(v, 1)].ppn]
        \/ d2 = [table |-> [d1.table EXCEPT ![d1.ptr][VPN(v, 1)] = Directory(d1.used + 1)],
                 used  |-> d1.used + 1, ptr |-> d1.used + 1]
    BY DEF descend
  <2> HIDE DEF d2
  <2>2. QED  OBVIOUS
<1> HIDE DEF d2
<1>11. ASSUME m2.used \in Tables
       PROVE  Good(m2, rt) /\ Mapped(m, m2, rt, r, v, e)
  <2>1. d1.used \in Tables /\ d2.used \in Tables
    BY <1>7, <1>9, <1>10, <1>11, Sizes DEF Tables
  <2>2. MayGrow(rt, nm, m0.ptr, v, 2)
    BY <1>2, <1>3 DEF MayGrow, May
  <2>3. PICK nm1 : Descended(m0, d1, rt, nm, nm1, v, 2)
    BY <1>2, <1>3, <1>4, <2>1, <2>2, DescendSound DEF d1
  <2>4. /\ Sound(d1, rt, nm1) /\ d1.ptr \in 0 .. d1.used /\ nm1[d1.ptr].lev = 1
        /\ nm1[d1.ptr].own = nm[r].own /\ nm1[d1.ptr].i2 = VPN(v, 2)
        /\ nm1[r] = nm[r]
        /\ d1.table[r][VPN(v, 2)] # None /\ d1.table[r][VPN(v, 2)].ppn = d1.ptr
    BY <1>2, <1>3, <2>3 DEF Descended
  <2>5. MayGrow(rt, nm1, d1.ptr, v, 1)
    BY DEF MayGrow
  <2>6. PICK nm2 : Descended(d1, d2, rt, nm1, nm2, v, 1)
    BY <1>2, <2>1, <2>4, <2>5, DescendSound DEF d2
  <2>7. /\ Sound(d2, rt, nm2) /\ d2.ptr \in 0 .. d2.used /\ nm2[d2.ptr].lev = 0
        /\ nm2[d2.ptr].own = nm[r].own /\ nm2[d2.ptr].i2 = VPN(v, 2)
        /\ nm2[d2.ptr].i1 = VPN(v, 1) /\ nm2[r] = nm[r]
        /\ d2.table[d1.ptr][VPN(v, 1)] # None /\ d2.table[d1.ptr][VPN(v, 1)].ppn = d2.ptr
    BY <1>2, <1>3, <1>7, <2>4, <2>6 DEF Descended
  <2>8. d2.table[r][VPN(v, 2)] = d1.table[r][VPN(v, 2)]
    BY <1>2, <2>4, <2>6, VpnType DEF Descended
  <2>9. e \in Entry
    BY DEF Entry
  <2>10. m2.table = [d2.table EXCEPT ![d2.ptr][VPN(v, 0)] = e] /\ m2 \in Memories
    <3>1. d2 \in Memories /\ d2.ptr \in Tables /\ VPN(v, 0) \in Idx
      BY <1>2, <2>1, <2>7, VpnType, Sizes DEF Sound, Tables
    <3>2. m2.table = [d2.table EXCEPT ![d2.ptr][VPN(v, 0)] = e]
      BY <3>1 DEF Memories
    <3>3. m2.table \in [Tables -> [Idx -> Entry]]
      BY <2>9, <3>1, <3>2, WriteSlot DEF Memories
    <3>4. QED  BY <3>1, <3>2, <3>3 DEF Memories
  <2>11. Sound(m2, rt, nm2) /\ Mapped(d2, m2, rt, r, v, e)
    <3> HIDE DEF m2, e
    <3>1. /\ r \in Roots(rt) /\ v \in 0 .. Top - 1
          /\ r = 0 => VPN(v, 2) \notin UserTop /\ \A p \in Pids : rt[p] = 0
          /\ r # 0 => VPN(v, 2) \in UserTop
      BY DEF May
    <3>2. /\ d2.table[r][VPN(v, 2)] # None
          /\ d2.table[d2.table[r][VPN(v, 2)].ppn][VPN(v, 1)] # None
          /\ d2.table[d2.table[r][VPN(v, 2)].ppn][VPN(v, 1)].ppn = d2.ptr
          /\ nm2[d2.ptr].own = nm2[r].own
      BY <2>4, <2>7, <2>8
    <3>3. /\ Sound(m2, rt, nm2)
          /\ \A s \in Roots(rt), w \in 0 .. Top - 1 :
               entry(m2.table, s, w) = IF s = r /\ w = v THEN e ELSE entry(d2.table, s, w)
      <4> DEFINE x == d2.ptr
      <4>1. /\ x \in 0 .. d2.used /\ nm2[x].lev = 0 /\ nm2[x].own = nm2[r].own
            /\ nm2[x].i2 = VPN(v, 2) /\ nm2[x].i1 = VPN(v, 1)
            /\ d2.table[d2.table[r][VPN(v, 2)].ppn][VPN(v, 1)].ppn = x
            /\ m2.table = [d2.table EXCEPT ![x][VPN(v, 0)] = e]
            /\ m2 \in Memories /\ m2.used = d2.used
        BY <1>10, <2>7, <2>10, <3>2
      <4> HIDE DEF x
      <4>2. QED  BY <2>7, <2>9, <3>1, <3>2, <4>1, LeafWrite
    <3>4. QED  BY <3>3 DEF Mapped
  <2>12. \A s \in Roots(rt), w \in 0 .. Top - 1 :
           entry(d2.table, s, w) = entry(m.table, s, w)
    <3> SUFFICES ASSUME NEW s \in Roots(rt), NEW w \in 0 .. Top - 1
                 PROVE  entry(d2.table, s, w) = entry(m.table, s, w)
      OBVIOUS
    <3>1. w \in Nat
      BY Sizes
    <3>2. entry(d1.table, s, w) = entry(m0.table, s, w)
      <4>1. m0.ptr \in 0 .. m0.used /\ nm[m0.ptr].lev = 2
        BY <1>2, <1>3
      <4> HIDE DEF m0
      <4>2. QED  BY <1>2, <1>4, <2>3, <3>1, <4>1, DescendEntry
    <3>3. entry(d2.table, s, w) = entry(d1.table, s, w)
      BY <1>2, <2>4, <2>6, <3>1, DescendEntry
    <3>4. QED  BY <1>3, <3>2, <3>3
  <2>13. QED  BY <2>11, <2>12 DEF Good, Mapped
<1>12. QED
  <2> HIDE DEF m2, e
  <2>1. QED  BY <1>3, <1>5, <1>7, <1>9, <1>10, <1>11 DEF e

\* Whatever is mapped, tables are only added.
Shaped(m) == m = [table |-> m.table, used |-> m.used, ptr |-> m.ptr] /\ m.used \in Nat

LEMMA DescendShaped ==
  ASSUME NEW m, Shaped(m), NEW v, NEW j
  PROVE  Shaped(descend(m, v, j)) /\ m.used <= descend(m, v, j).used
<1>1. CASE m.table[m.ptr][VPN(v, j)] # None
  <2> DEFINE p == m.table[m.ptr][VPN(v, j)].ppn
  <2>1. descend(m, v, j) = [m EXCEPT !.ptr = p]
    BY <1>1 DEF descend
  <2> HIDE DEF p
  <2>2. [m EXCEPT !.ptr = p] = [table |-> m.table, used |-> m.used, ptr |-> p]
    BY DEF Shaped
  <2>3. QED  BY <2>1, <2>2 DEF Shaped
<1>2. CASE m.table[m.ptr][VPN(v, j)] = None
  <2> DEFINE T == [m.table EXCEPT ![m.ptr][VPN(v, j)] = Directory(m.used + 1)]
  <2>1. descend(m, v, j) = [table |-> T, used |-> m.used + 1, ptr |-> m.used + 1]
    BY <1>2 DEF descend
  <2> HIDE DEF T
  <2>2. QED  BY <2>1 DEF Shaped
<1>3. QED  BY <1>1, <1>2

LEMMA MapPageShaped ==
  ASSUME NEW m, Shaped(m), NEW root, NEW v, NEW pa, NEW perm
  PROVE  /\ Shaped(map_page(m, root, v, pa, perm))
         /\ m.used <= map_page(m, root, v, pa, perm).used
<1> DEFINE m0 == [m EXCEPT !.ptr = root]
           d1 == descend(m0, v, 2)
           d2 == descend(d1, v, 1)
           T  == [d2.table EXCEPT ![d2.ptr][VPN(v, 0)] = [ppn |-> pa, perm |-> perm]]
<1>1. m0 = [table |-> m.table, used |-> m.used, ptr |-> root] /\ Shaped(m0) /\ m0.used = m.used
  BY DEF Shaped
<1>2. Shaped(d1) /\ m0.used <= d1.used
  BY <1>1, DescendShaped
<1>3. Shaped(d2) /\ d1.used <= d2.used
  BY <1>2, DescendShaped
<1>4. map_page(m, root, v, pa, perm) = [table |-> T, used |-> d2.used, ptr |-> d2.ptr]
  <2>1. map_page(m, root, v, pa, perm) = [d2 EXCEPT !.table[d2.ptr][VPN(v, 0)] = [ppn |-> pa, perm |-> perm]]
    BY DEF map_page
  <2> HIDE DEF d2
  <2>2. d2 = [table |-> d2.table, used |-> d2.used, ptr |-> d2.ptr]
    BY <1>3 DEF Shaped
  <2>3. QED  BY <2>1, <2>2
<1> HIDE DEF m0, d1, d2, T
<1>5. QED  BY <1>1, <1>2, <1>3, <1>4 DEF Shaped

-----------------------------------------------------------------------------
\* create_mapping, page by page.
Row(i, f, m, root, va, pa, perm) ==
  IF i = 0 THEN m ELSE map_page(f[i - 1], root, va + i - 1, pa + i - 1, perm)

LEMMA Rows ==
  ASSUME NEW n \in Nat, NEW m, NEW root, NEW va, NEW pa, NEW perm
  PROVE  \E f : f = [i \in 0 .. n |-> Row(i, f, m, root, va, pa, perm)]
<1> DEFINE P(k) == \E f : f = [i \in 0 .. k |-> Row(i, f, m, root, va, pa, perm)]
           Bad  == {k \in Nat : ~ P(k)}
<1>1. SUFFICES ASSUME Bad # {}  PROVE  FALSE
  OBVIOUS
<1>2. PICK k \in Bad : \A l \in Bad : k <= l
  BY <1>1, LeastNat
<1>3. k # 0
  <2>1. [i \in 0 .. 0 |-> m] = [i \in 0 .. 0 |-> Row(i, [j \in 0 .. 0 |-> m], m, root, va, pa, perm)]
    BY DEF Row
  <2>2. P(0)
    BY <2>1
  <2>3. QED  BY <2>2
<1>4. k - 1 \in Nat /\ k - 1 \notin Bad
  BY <1>2, <1>3
<1>5. PICK g : g = [i \in 0 .. k - 1 |-> Row(i, g, m, root, va, pa, perm)]
  BY <1>4
<1> DEFINE f == [i \in 0 .. k |-> IF i = k THEN Row(k, g, m, root, va, pa, perm) ELSE g[i]]
<1>6. \A i \in 0 .. k : f[i] = Row(i, f, m, root, va, pa, perm)
  <2> SUFFICES ASSUME NEW i \in 0 .. k  PROVE  f[i] = Row(i, f, m, root, va, pa, perm)
    OBVIOUS
  <2>1. f[i] = Row(i, g, m, root, va, pa, perm)
    BY <1>3, <1>4, <1>5
  <2>2. i # 0 => i - 1 \in 0 .. k /\ i - 1 # k /\ f[i - 1] = g[i - 1]
    BY <1>4
  <2> HIDE DEF f
  <2>3. QED  BY <2>1, <2>2 DEF Row
<1>7. f = [i \in 0 .. k |-> Row(i, f, m, root, va, pa, perm)]
  <2>1. f = [i \in 0 .. k |-> f[i]]
    OBVIOUS
  <2> HIDE DEF f
  <2>2. QED  BY <1>6, <2>1
<1>8. P(k)
  <2> HIDE DEF f
  <2>1. QED  BY <1>7
<1>9. QED  BY <1>2, <1>8

\* create_mapping goes through the memories f[0] .. f[n].
LEMMA CreateRows ==
  ASSUME NEW n \in Nat, NEW m, NEW root, NEW va, NEW pa, NEW perm
  PROVE  \E f : /\ f[0] = m /\ create_mapping(m, root, va, pa, n, perm) = f[n]
                /\ \A i \in 1 .. n : f[i] = map_page(f[i - 1], root, va + i - 1, pa + i - 1, perm)
<1> DEFINE F == CHOOSE f : f = [i \in 0 .. n |-> IF i = 0 THEN m ELSE map_page(f[i - 1], root, va + i - 1, pa + i - 1, perm)]
<1>1. create_mapping(m, root, va, pa, n, perm) = F[n]
  BY DEF create_mapping
<1>2. F = [i \in 0 .. n |-> IF i = 0 THEN m ELSE map_page(F[i - 1], root, va + i - 1, pa + i - 1, perm)]
  BY Rows DEF Row
<1> HIDE DEF F
<1>3. F[0] = m /\ \A i \in 1 .. n : F[i] = map_page(F[i - 1], root, va + i - 1, pa + i - 1, perm)
  BY <1>2
<1>4. QED  BY <1>1, <1>3

\* These only have tables added.
Grows(f, n, m, root, va, pa, perm) ==
  /\ f[0] = m /\ create_mapping(m, root, va, pa, n, perm) = f[n]
  /\ \A i \in 1 .. n : f[i] = map_page(f[i - 1], root, va + i - 1, pa + i - 1, perm)
  /\ \A i \in 0 .. n : Shaped(f[i]) /\ m.used <= f[i].used
  /\ \A i \in 1 .. n : f[i - 1].used <= f[i].used

LEMMA CreateShaped ==
  ASSUME NEW n \in Nat, NEW m, Shaped(m), NEW root, NEW va, NEW pa, NEW perm
  PROVE  \E f : Grows(f, n, m, root, va, pa, perm)
<1>1. PICK f : /\ f[0] = m /\ create_mapping(m, root, va, pa, n, perm) = f[n]
               /\ \A i \in 1 .. n : f[i] = map_page(f[i - 1], root, va + i - 1, pa + i - 1, perm)
  BY CreateRows
<1> DEFINE Q(i) == Shaped(f[i]) /\ m.used <= f[i].used
           Bad == {i \in 0 .. n : ~ Q(i)}
<1>2. ASSUME Bad # {}  PROVE  FALSE
  <2>1. Bad \in SUBSET Nat
    OBVIOUS
  <2>2. PICK k \in Bad : \A l \in Bad : k <= l
    <3> HIDE DEF Bad
    <3>1. QED  BY <1>2, <2>1, LeastNat
  <2>3. k # 0
    BY <1>1 DEF Shaped
  <2>4. k \in 1 .. n /\ Q(k - 1)
    BY <2>2, <2>3
  <2>5. Shaped(f[k]) /\ f[k - 1].used <= f[k].used
    BY <1>1, <2>4, MapPageShaped
  <2>6. m.used \in Nat /\ f[k - 1].used \in Nat /\ f[k].used \in Nat
    BY <2>4, <2>5 DEF Shaped
  <2>7. QED  BY <2>2, <2>4, <2>5, <2>6
<1>3. \A i \in 0 .. n : Q(i)
  BY <1>2
<1>4. \A i \in 1 .. n : f[i - 1].used <= f[i].used
  <2> TAKE i \in 1 .. n
  <2>1. Shaped(f[i - 1])
    BY <1>3
  <2>2. QED  BY <1>1, <2>1, MapPageShaped
<1>5. Grows(f, n, m, root, va, pa, perm)
  BY <1>1, <1>3, <1>4 DEF Grows
<1>6. QED  BY <1>5

\* The translations of m2 are those of m but for n pages from r on.
MappedArea(m, m2, rt, r, va, pa, n, perm) ==
  \A s \in Roots(rt), w \in 0 .. Top - 1 :
    entry(m2.table, s, w) =
      IF s = r /\ w \in va .. va + n - 1 THEN [ppn |-> pa + w - va, perm |-> perm]
      ELSE entry(m.table, s, w)

\* create_mapping gives n pages of one task their translations, and changes no
\* other.
LEMMA CreateMapping ==
  ASSUME NEW m, NEW rt, Good(m, rt), NEW r, NEW va \in Nat, NEW n \in Nat,
         \A v \in va .. va + n - 1 : May(rt, r, v),
         NEW pa \in Nat, NEW perm \in SUBSET {"R", "W", "X"}
  PROVE  LET m2 == create_mapping(m, r, va, pa, n, perm) IN
         /\ Shaped(m2) /\ m.used <= m2.used
         /\ m2.used \in Tables => Good(m2, rt) /\ MappedArea(m, m2, rt, r, va, pa, n, perm)
<1>1. PICK f : /\ f[0] = m /\ create_mapping(m, r, va, pa, n, perm) = f[n]
               /\ \A i \in 1 .. n : f[i] = map_page(f[i - 1], r, va + i - 1, pa + i - 1, perm)
               /\ \A i \in 0 .. n : Shaped(f[i]) /\ m.used <= f[i].used
               /\ \A i \in 1 .. n : f[i - 1].used <= f[i].used
  <2>1. Shaped(m)
    BY DEF Good, Sound, Memories, Shaped
  <2>2. PICK f : Grows(f, n, m, r, va, pa, perm)
    BY <2>1, CreateShaped
  <2>3. QED  BY <2>2 DEF Grows
<1> DEFINE Q(i) == f[i].used \in Tables =>
                     Good(f[i], rt) /\ MappedArea(m, f[i], rt, r, va, pa, i, perm)
           Bad == {i \in 0 .. n : ~ Q(i)}
<1>2. SUFFICES ASSUME Bad # {}  PROVE  FALSE
  <2>1. n \in Bad \/ Q(n)
    OBVIOUS
  <2> HIDE DEF Bad
  <2>2. QED  BY <1>1, <2>1
<1>3. PICK k \in Bad : \A l \in Bad : k <= l
  <2>1. Bad \in SUBSET Nat
    OBVIOUS
  <2> HIDE DEF Bad
  <2>2. QED  BY <1>2, <2>1, LeastNat
<1>4. k # 0
  <2>1. MappedArea(m, m, rt, r, va, pa, 0, perm)
    BY DEF MappedArea
  <2>2. Q(0)
    BY <1>1, <2>1
  <2>3. QED  BY <2>2
<1> DEFINE i == k - 1
           v == va + k - 1
           x == f[i]
           y == f[k]
           e == [ppn |-> pa + k - 1, perm |-> perm]
<1>6. /\ i \in 0 .. n /\ Q(i) /\ k \in 1 .. n /\ v \in va .. va + n - 1
      /\ pa + k - 1 \in Nat
  BY <1>3, <1>4
<1>7. y = map_page(x, r, v, pa + k - 1, perm)
  BY <1>1, <1>6
<1>8. May(rt, r, v)
  BY <1>6
<1>9. x.used <= y.used /\ x.used \in Nat /\ y.used \in Nat
  BY <1>1, <1>6 DEF Shaped
<1>10. ASSUME y.used \in Tables
       PROVE  Good(y, rt) /\ MappedArea(m, y, rt, r, va, pa, k, perm)
  <2>1. x.used \in Tables
    BY <1>9, <1>10, Sizes DEF Tables
  <2>2. Good(x, rt) /\ MappedArea(m, x, rt, r, va, pa, i, perm)
    BY <1>6, <2>1
  <2>3. Good(y, rt) /\ Mapped(x, y, rt, r, v, e)
    BY <1>6, <1>7, <1>8, <1>10, <2>2, MapPage
  <2>4. MappedArea(m, y, rt, r, va, pa, k, perm)
    <3> SUFFICES ASSUME NEW s \in Roots(rt), NEW w \in 0 .. Top - 1
                 PROVE  entry(y.table, s, w) =
                          IF s = r /\ w \in va .. va + k - 1 THEN [ppn |-> pa + w - va, perm |-> perm]
                          ELSE entry(m.table, s, w)
      BY DEF MappedArea
    <3>1. entry(y.table, s, w) = IF s = r /\ w = v THEN e ELSE entry(x.table, s, w)
      BY <2>3 DEF Mapped
    <3>2. entry(x.table, s, w) =
            IF s = r /\ w \in va .. va + i - 1 THEN [ppn |-> pa + w - va, perm |-> perm]
            ELSE entry(m.table, s, w)
      BY <2>2 DEF MappedArea
    <3>3. w = v => pa + k - 1 = pa + w - va
      BY <1>6
    <3>4. w \in va .. va + k - 1 <=> w = v \/ w \in va .. va + i - 1
      BY <1>6, Sizes
    <3> HIDE DEF x, y, v, i
    <3>5. QED  BY <3>1, <3>2, <3>3, <3>4
  <2>5. QED  BY <2>3, <2>4
<1>11. QED  BY <1>3, <1>10
-----------------------------------------------------------------------------
\* setup_vm_final, region by region.
Area(i) == Regions[i].va .. Regions[i].va + Regions[i].n - 1

Translation(i, w) == [ppn |-> Regions[i].pa + w - Regions[i].va, perm |-> Regions[i].perm]

RegionRow(i, f) ==
  IF i = 0 THEN Now
  ELSE create_mapping(f[i - 1], swapper_pg_dir, Regions[i].va, Regions[i].pa,
                      Regions[i].n, Regions[i].perm)

LEMMA RegionFacts ==
  /\ Len(Regions) \in Nat /\ DOMAIN Regions = 1 .. Len(Regions)
  /\ \A i \in DOMAIN Regions :
       /\ Regions[i].va \in Nat /\ Regions[i].pa \in Nat /\ Regions[i].n \in Nat
       /\ Regions[i].perm \in SUBSET {"R", "W", "X"}
       /\ \A w \in Area(i) : w \in 0 .. Top - 1 /\ VPN(w, 2) \notin UserTop
<1>1. Regions \in Seq([va : Nat, pa : Nat, n : Nat, perm : SUBSET {"R", "W", "X"}])
  BY TableAssumption
<1>2. /\ Len(Regions) \in Nat /\ DOMAIN Regions = 1 .. Len(Regions)
      /\ \A i \in DOMAIN Regions : Regions[i] \in [va : Nat, pa : Nat, n : Nat, perm : SUBSET {"R", "W", "X"}]
  <2> DEFINE S == [va : Nat, pa : Nat, n : Nat, perm : SUBSET {"R", "W", "X"}]
  <2>1. Regions \in Seq(S)
    BY <1>1
  <2> HIDE DEF S
  <2>2. /\ Len(Regions) \in Nat /\ DOMAIN Regions = 1 .. Len(Regions)
        /\ \A i \in DOMAIN Regions : Regions[i] \in S
    BY <2>1
  <2>3. QED  BY <2>2 DEF S
<1>3. ASSUME NEW i \in DOMAIN Regions, NEW w \in Area(i)
      PROVE  w \in 0 .. Top - 1 /\ VPN(w, 2) \notin UserTop
  <2>1. Regions[i].va + Regions[i].n <= Top
    BY TableAssumption
  <2>2. w \in 0 .. Top - 1
    BY <1>2, <2>1, Sizes DEF Area
  <2>3. \A v \in UserPages : VPN(v, 2) # VPN(w, 2)
    BY HalvesAssumption DEF Area
  <2>4. QED  BY <2>2, <2>3 DEF UserTop
<1>4. QED  BY <1>2, <1>3

LEMMA RegionRows ==
  ASSUME NEW n \in Nat
  PROVE  \E f : f = [i \in 0 .. n |-> RegionRow(i, f)]
<1> DEFINE P(k) == \E f : f = [i \in 0 .. k |-> RegionRow(i, f)]
           Bad  == {k \in Nat : ~ P(k)}
<1>1. SUFFICES ASSUME Bad # {}  PROVE  FALSE
  OBVIOUS
<1>2. PICK k \in Bad : \A l \in Bad : k <= l
  BY <1>1, LeastNat
<1>3. k # 0
  <2>1. [i \in 0 .. 0 |-> Now] = [i \in 0 .. 0 |-> RegionRow(i, [j \in 0 .. 0 |-> Now])]
    BY DEF RegionRow
  <2>2. P(0)
    BY <2>1
  <2>3. QED  BY <2>2
<1>4. k - 1 \in Nat /\ k - 1 \notin Bad
  BY <1>2, <1>3
<1>5. PICK g : g = [i \in 0 .. k - 1 |-> RegionRow(i, g)]
  BY <1>4
<1> DEFINE f == [i \in 0 .. k |-> IF i = k THEN RegionRow(k, g) ELSE g[i]]
<1>6. \A i \in 0 .. k : f[i] = RegionRow(i, f)
  <2> SUFFICES ASSUME NEW i \in 0 .. k  PROVE  f[i] = RegionRow(i, f)
    OBVIOUS
  <2>1. f[i] = RegionRow(i, g)
    BY <1>3, <1>4, <1>5
  <2>2. i # 0 => i - 1 \in 0 .. k /\ i - 1 # k /\ f[i - 1] = g[i - 1]
    BY <1>4
  <2> HIDE DEF f
  <2>3. QED  BY <2>1, <2>2 DEF RegionRow
<1>7. f = [i \in 0 .. k |-> RegionRow(i, f)]
  <2>1. f = [i \in 0 .. k |-> f[i]]
    OBVIOUS
  <2> HIDE DEF f
  <2>2. QED  BY <1>6, <2>1
<1>8. P(k)
  <2> HIDE DEF f
  <2>1. QED  BY <1>7
<1>9. QED  BY <1>2, <1>8

\* setup_vm_final goes through the memories f[0] .. f[Len(Regions)].
LEMMA SetupRows ==
  ASSUME setup_vm_final
  PROVE  \E f : /\ f[0] = Now /\ used = 0 /\ pgd' = pgd
                /\ Becomes(f[Len(Regions)])
                /\ \A i \in 1 .. Len(Regions) : f[i] = RegionRow(i, f)
<1> DEFINE F == CHOOSE f : f = [i \in 0 .. Len(Regions) |->
                  IF i = 0 THEN Now
                  ELSE create_mapping(f[i - 1], swapper_pg_dir, Regions[i].va, Regions[i].pa,
                                      Regions[i].n, Regions[i].perm)]
<1>1. used = 0 /\ pgd' = pgd /\ Becomes(F[Len(Regions)])
  BY DEF setup_vm_final
<1>2. F = [i \in 0 .. Len(Regions) |->
                  IF i = 0 THEN Now
                  ELSE create_mapping(F[i - 1], swapper_pg_dir, Regions[i].va, Regions[i].pa,
                                      Regions[i].n, Regions[i].perm)]
  BY RegionRows, RegionFacts DEF RegionRow
<1> HIDE DEF F
<1>3. F[0] = Now /\ \A i \in 1 .. Len(Regions) : F[i] = RegionRow(i, F)
  BY <1>2, RegionFacts DEF RegionRow
<1>4. QED  BY <1>1, <1>3

\* The kernel's translations after k regions.
KernelUpTo(T, k) ==
  \A w \in 0 .. Top - 1 :
    /\ (\A i \in 1 .. k : w \notin Area(i)) => entry(T, 0, w) = None
    /\ \A i \in 1 .. k :
         w \in Area(i) /\ (\A j \in i + 1 .. k : w \notin Area(j)) => entry(T, 0, w) = Translation(i, w)

KernelMapped(T) == \A w \in DOMAIN KernelMap : entry(T, 0, w) = KernelMap[w]

\* Of the regions a page is in, one is the last.
LEMMA LastRegion ==
  ASSUME NEW w \in DOMAIN KernelMap
  PROVE  \E i \in DOMAIN Regions :
           /\ w \in Area(i) /\ \A j \in DOMAIN Regions : w \in Area(j) => j <= i
           /\ KernelMap[w] = Translation(i, w)
<1> DEFINE L == Len(Regions)
           In == {i \in DOMAIN Regions : w \in Area(i)}
           D  == {L - i : i \in In}
<1>1. In # {}
  BY DEF KernelMap, Area
<1>2. D \in SUBSET Nat /\ D # {}
  BY <1>1, RegionFacts
<1> HIDE DEF D
<1>3. PICK d \in D : \A x \in D : d <= x
  BY <1>2, LeastNat
<1>4. PICK i \in In : d = L - i
  BY <1>3 DEF D
<1>5. \A j \in In : j <= i
  <2> TAKE j \in In
  <2>1. L - j \in D
    BY DEF D
  <2>2. QED  BY <1>3, <1>4, <2>1, RegionFacts
<1> DEFINE Last(k) == /\ w \in Regions[k].va .. Regions[k].va + Regions[k].n - 1
                      /\ \A j \in DOMAIN Regions :
                           w \in Regions[j].va .. Regions[j].va + Regions[j].n - 1 => j <= k
           c == CHOOSE k \in DOMAIN Regions : Last(k)
<1>6. Last(i)
  BY <1>5 DEF Area
<1>7. c \in DOMAIN Regions /\ Last(c)
  BY <1>6
<1>8. c = i
  BY <1>6, <1>7, RegionFacts
<1>9. KernelMap[w] = [ppn |-> Regions[c].pa + w - Regions[c].va, perm |-> Regions[c].perm]
  BY DEF KernelMap
<1>10. QED  BY <1>5, <1>8, <1>9 DEF Area, Translation

LEMMA KernelMapped0 ==
  ASSUME NEW T, KernelUpTo(T, Len(Regions))
  PROVE  KernelMapped(T)
<1> SUFFICES ASSUME NEW w \in DOMAIN KernelMap  PROVE  entry(T, 0, w) = KernelMap[w]
  BY DEF KernelMapped
<1>1. PICK i \in DOMAIN Regions :
           /\ w \in Area(i) /\ \A j \in DOMAIN Regions : w \in Area(j) => j <= i
           /\ KernelMap[w] = Translation(i, w)
  BY LastRegion
<1>2. w \in 0 .. Top - 1
  BY <1>1, RegionFacts
<1>3. \A j \in i + 1 .. Len(Regions) : w \notin Area(j)
  BY <1>1, RegionFacts
<1>4. QED  BY <1>1, <1>2, <1>3, RegionFacts DEF KernelUpTo
-----------------------------------------------------------------------------
\* Memories with no table but swapper_pg_dir.
LEMMA NothingMapped ==
  ASSUME NEW m, NEW rt, Good(m, rt), m.used = 0
  PROVE  /\ \A k \in Idx : m.table[0][k] = None
         /\ \A w \in Nat : entry(m.table, 0, w) = None
         /\ \A p \in Pids : rt[p] = 0
<1>1. PICK nm : Sound(m, rt, nm)
  BY DEF Good
<1>2. ASSUME NEW k \in Idx  PROVE  m.table[0][k] = None
  BY <1>1 DEF Sound, Linked, Rooted
<1>3. \A w \in Nat : entry(m.table, 0, w) = None
  BY <1>2, VpnType DEF entry
<1>4. QED  BY <1>1, <1>2, <1>3 DEF Sound, Rooted

LEMMA GoodMemory ==
  ASSUME NEW m, NEW rt, Good(m, rt)
  PROVE  Good(Memory(m.table, m.used), rt)
<1>1. PICK nm : Sound(m, rt, nm)
  BY DEF Good
<1> DEFINE n == Memory(m.table, m.used)
<1>2. n.table = m.table /\ n.used = m.used /\ n \in Memories
  BY <1>1 DEF Sound, Memories, Memory
<1> HIDE DEF n
<1>3. Sound(n, rt, nm)
  BY <1>1, <1>2 DEF Sound
<1>4. QED  BY <1>3 DEF Good, n

\* setup_vm_final leads each kernel page where the last of its regions says.
LEMMA SetupSound ==
  ASSUME Good(Now, pgd), setup_vm_final
  PROVE  /\ Good(Memory(table', used'), pgd')
         /\ KernelMapped(table')
<1> DEFINE L == Len(Regions)
<1>1. PICK f : /\ f[0] = Now /\ used = 0 /\ pgd' = pgd /\ Becomes(f[L])
               /\ \A i \in 1 .. L : f[i] = RegionRow(i, f)
  BY SetupRows
<1>2. /\ L \in Nat /\ DOMAIN Regions = 1 .. L
      /\ Now.table = table /\ Now.used = used
  BY RegionFacts DEF Now, Memory
<1>3. /\ \A p \in Pids : pgd[p] = 0
      /\ \A w \in 0 .. Top - 1 : entry(table, 0, w) = None
  <2>1. \A w \in 0 .. Top - 1 : w \in Nat
    BY Sizes
  <2> DEFINE m == Now
  <2>2. Good(m, pgd) /\ m.used = 0 /\ m.table = table
    BY <1>1, <1>2
  <2> HIDE DEF m
  <2>3. QED  BY <2>1, <2>2, NothingMapped
<1> DEFINE Q(i) == /\ Shaped(f[i])
                   /\ f[i].used \in Tables => Good(f[i], pgd) /\ KernelUpTo(f[i].table, i)
           Bad == {i \in 0 .. L : ~ Q(i)}
<1>4. ASSUME Bad # {}  PROVE  FALSE
  <2>1. Bad \in SUBSET Nat
    OBVIOUS
  <2>2. PICK k \in Bad : \A l \in Bad : k <= l
    <3> HIDE DEF Bad
    <3>1. QED  BY <1>4, <2>1, LeastNat
  <2>3. k # 0
    <3>1. Shaped(Now)
      BY DEF Good, Sound, Memories, Shaped
    <3>2. KernelUpTo(Now.table, 0)
      BY <1>2, <1>3 DEF KernelUpTo
    <3>3. Q(0)
      BY <1>1, <3>1, <3>2
    <3>4. QED  BY <3>3
  <2> DEFINE i == k - 1
             x == f[i]
             y == f[k]
             g == Regions[k]
  <2>4. i \in 0 .. L /\ Q(i) /\ k \in 1 .. L
    BY <1>2, <2>2, <2>3
  <2>5. y = create_mapping(x, 0, g.va, g.pa, g.n, g.perm)
    BY <1>1, <2>4 DEF RegionRow, swapper_pg_dir
  <2>6. /\ g.va \in Nat /\ g.pa \in Nat /\ g.n \in Nat /\ g.perm \in SUBSET {"R", "W", "X"}
        /\ \A w \in g.va .. g.va + g.n - 1 : w \in 0 .. Top - 1 /\ VPN(w, 2) \notin UserTop
    BY <1>2, <2>4, RegionFacts DEF Area
  <2>7. \A w \in g.va .. g.va + g.n - 1 : May(pgd, 0, w)
    BY <1>3, <2>6 DEF May, Roots
  <2>8. Shaped(x) /\ Shaped(y) /\ x.used <= y.used
    <3> HIDE DEF x, g
    <3>1. PICK h : Grows(h, g.n, x, 0, g.va, g.pa, g.perm)
      BY <2>4, <2>6, CreateShaped DEF x
    <3>2. Shaped(x)
      BY <2>4 DEF x
    <3> HIDE DEF y
    <3>3. QED  BY <2>5, <2>6, <3>1, <3>2 DEF Grows
  <2>9. ASSUME y.used \in Tables  PROVE  Good(y, pgd) /\ KernelUpTo(y.table, k)
    <3>1. x.used \in Tables
      BY <2>8, <2>9, Sizes DEF Shaped, Tables
    <3>2. Good(x, pgd) /\ KernelUpTo(x.table, i)
      BY <2>4, <3>1
    <3>3. Good(y, pgd) /\ MappedArea(x, y, pgd, 0, g.va, g.pa, g.n, g.perm)
      <4> HIDE DEF x, y, g
      <4>1. QED  BY <2>5, <2>6, <2>7, <2>9, <3>2, CreateMapping
    <3>4. ASSUME NEW w \in 0 .. Top - 1
          PROVE  entry(y.table, 0, w) = IF w \in Area(k) THEN Translation(k, w) ELSE entry(x.table, 0, w)
      BY <3>3 DEF MappedArea, Roots, Area, Translation
    <3>5. KernelUpTo(y.table, k)
      <4> HIDE DEF x, y, g
      <4>1. \A j \in 1 .. k : j = k \/ j \in 1 .. i
        BY <2>4
      <4>2. \A j \in 1 .. i : j \in 1 .. k /\ k \in j + 1 .. k
        BY <2>4
      <4>3. \A j \in 1 .. i : \A l \in j + 1 .. i : l \in j + 1 .. k
        BY <2>4
      <4>4. k \in 1 .. k /\ \A j \in k + 1 .. k : FALSE
        BY <2>4
      <4> HIDE DEF i
      <4>5. QED  BY <3>2, <3>4, <4>1, <4>2, <4>3, <4>4 DEF KernelUpTo
    <3>6. QED  BY <3>3, <3>5
  <2>10. Q(k)
    BY <2>8, <2>9
  <2>11. QED  BY <2>2, <2>10
<1>5. f[L].used \in Tables /\ table' = f[L].table /\ used' = f[L].used
  BY <1>1 DEF Becomes
<1>6. Good(f[L], pgd) /\ KernelUpTo(f[L].table, L)
  BY <1>2, <1>4, <1>5
<1>7. QED  BY <1>1, <1>5, <1>6, GoodMemory, KernelMapped0

-----------------------------------------------------------------------------
\* What walks end at.
LEMMA EntryType ==
  ASSUME NEW m, NEW rt, Good(m, rt), NEW s \in Roots(rt), NEW w \in Nat
  PROVE  entry(m.table, s, w) \in Entry
<1>1. PICK nm : Sound(m, rt, nm)
  BY DEF Good
<1>2. Walk(m, nm, s, w)
  BY <1>1, Path
<1>3. m.table \in [Tables -> [Idx -> Entry]] /\ VPN(w, 0) \in Idx
  BY <1>1, VpnType DEF Sound, Memories
<1> DEFINE e2 == Second(m.table, s, w)
           e1 == First(m.table, s, w)
<1>4. entry(m.table, s, w) = IF e2 = None \/ e1 = None THEN None ELSE m.table[e1.ppn][VPN(w, 0)]
  BY EntryIs
<1>5. e2 # None /\ e1 # None => e1.ppn \in Tables
  BY <1>2 DEF Walk
<1> HIDE DEF e1, e2
<1>6. QED  BY <1>3, <1>4, <1>5, EntryFacts

\* All tasks have the kernel's translations where the kernel is; the kernel's
\* own table has nothing where user pages are.
LEMMA KernelAlike ==
  ASSUME NEW m, NEW rt, Good(m, rt), NEW w \in Nat
  PROVE  /\ VPN(w, 2) \in UserTop => entry(m.table, 0, w) = None
         /\ VPN(w, 2) \notin UserTop =>
              \A s \in Roots(rt) : entry(m.table, s, w) = entry(m.table, 0, w)
<1>1. PICK nm : Sound(m, rt, nm)
  BY DEF Good
<1>2. VPN(w, 2) \in Idx
  BY VpnType
<1>3. VPN(w, 2) \in UserTop => m.table[0][VPN(w, 2)] = None
  BY <1>1 DEF Sound, KernelShared
<1>4. VPN(w, 2) \notin UserTop =>
        \A s \in Roots(rt) : m.table[s][VPN(w, 2)] = m.table[0][VPN(w, 2)]
  BY <1>1, <1>2 DEF Sound, KernelShared, Roots
<1>5. QED  BY <1>3, <1>4, Zenon DEF entry

\* A new root table has the kernel's translations, and no other table is
\* changed.
LEMMA NewRoot ==
  ASSUME NEW m, NEW rt, Good(m, rt), NEW p \in Pids, rt[p] = 0, NEW parent,
         m.used + 1 \in Tables
  PROVE  LET n   == new_root(m, parent)
             rt2 == [rt EXCEPT ![p] = m.used + 1] IN
         /\ Good(n, rt2) /\ n.used = m.used + 1 /\ n.used \in Nat /\ m.used \in Nat
         /\ \A s \in Roots(rt), w \in Nat : entry(n.table, s, w) = entry(m.table, s, w)
         /\ \A w \in Nat : entry(n.table, m.used + 1, w) = entry(m.table, 0, w)
<1> DEFINE x   == m.used + 1
           n   == new_root(m, parent)
           rt2 == [rt EXCEPT ![p] = x]
<1>1. PICK nm : Sound(m, rt, nm)
  BY DEF Good
<1> DEFINE nx  == [own |-> p, lev |-> 2, i2 |-> 0, i1 |-> 0]
           nm2 == [t \in 0 .. x |-> IF t = x THEN nx ELSE nm[t]]
<1>2. /\ m.used \in Nat /\ x \in Tables /\ x \in Nat /\ x \notin 0 .. m.used /\ x # 0
      /\ 0 \in 0 .. m.used /\ \A t \in 0 .. m.used : t \in Tables /\ t \in 0 .. x
      /\ \A t \in 0 .. x : t = x \/ t \in 0 .. m.used
      /\ m.table \in [Tables -> [Idx -> Entry]]
      /\ rt \in [Pids -> 0 .. m.used] /\ nm \in [0 .. m.used -> Names]
  BY <1>1, Sizes DEF Sound, Memories, Rooted, Tables
<1>3. /\ n.table = [m.table EXCEPT ![x] = m.table[0]] /\ n.used = x /\ n.ptr = 0
      /\ n = [table |-> n.table, used |-> n.used, ptr |-> n.ptr]
  BY DEF new_root, swapper_pg_dir
<1>4. /\ n.table \in [Tables -> [Idx -> Entry]]
      /\ n.table[x] = m.table[0]
      /\ \A t \in Tables : t # x => n.table[t] = m.table[t]
  BY <1>2, <1>3, Sizes
<1>5. nx \in Names
  BY Sizes DEF Names
<1>6. nm2 \in [0 .. x -> Names] /\ nm2[x] = nx /\ \A t \in 0 .. m.used : nm2[t] = nm[t]
  BY <1>2, <1>5
<1>7. rt2 \in [Pids -> 0 .. x] /\ rt2[p] = x /\ \A q \in Pids : q # p => rt2[q] = rt[q]
  BY <1>2
<1> HIDE DEF n, nm2, rt2, x
<1>8. n \in Memories
  <2> DEFINE T == n.table
  <2>1. n = [table |-> T, used |-> x, ptr |-> 0]
    BY <1>3
  <2>2. T \in [Tables -> [Idx -> Entry]]
    BY <1>4
  <2> HIDE DEF T
  <2>3. QED  BY <1>2, <2>1, <2>2 DEF Memories
<1>9. Rooted(x, rt2, nm2)
  <2>1. nm2[0].own = 0 /\ nm2[0].lev = 2
    BY <1>1, <1>2, <1>6 DEF Sound, Rooted
  <2>2. ASSUME NEW q \in Pids, rt2[q] # 0  PROVE  nm2[rt2[q]].own = q /\ nm2[rt2[q]].lev = 2
    BY <1>1, <1>2, <1>6, <1>7, <2>2 DEF Sound, Rooted
  <2>3. QED  BY <1>6, <1>7, <2>1, <2>2 DEF Rooted
<1>10. Linked(n.table, x, nm2)
  <2> SUFFICES ASSUME NEW t \in 0 .. x, NEW l \in Idx, n.table[t][l] # None
               PROVE  /\ nm2[t].lev = 2 => /\ n.table[t][l].ppn \in 0 .. x
                                           /\ nm2[n.table[t][l].ppn].lev = 1
                                           /\ nm2[n.table[t][l].ppn].own = IF l \in UserTop THEN nm2[t].own ELSE 0
                                           /\ nm2[n.table[t][l].ppn].i2 = l
                      /\ nm2[t].lev = 1 => /\ n.table[t][l].ppn \in 0 .. x
                                           /\ nm2[n.table[t][l].ppn].lev = 0
                                           /\ nm2[n.table[t][l].ppn].own = nm2[t].own
                                           /\ nm2[n.table[t][l].ppn].i2 = nm2[t].i2
                                           /\ nm2[n.table[t][l].ppn].i1 = l
    BY DEF Linked
  <2>1. CASE t = x
    <3>1. n.table[t][l] = m.table[0][l] /\ nm2[t].lev = 2
      BY <1>4, <1>6, <2>1
    <3>2. l \notin UserTop
      BY <1>1, <3>1 DEF Sound, KernelShared
    <3>3. /\ m.table[0][l].ppn \in 0 .. m.used /\ nm[m.table[0][l].ppn].lev = 1
          /\ nm[m.table[0][l].ppn].own = 0 /\ nm[m.table[0][l].ppn].i2 = l
      BY <1>1, <1>2, <3>1, <3>2 DEF Sound, Linked, Rooted
    <3>4. QED  BY <1>2, <1>6, <3>1, <3>2, <3>3
  <2>2. CASE t # x
    <3>1. t \in 0 .. m.used /\ n.table[t][l] = m.table[t][l] /\ nm2[t] = nm[t]
      BY <1>2, <1>4, <1>6, <2>2
    <3> DEFINE c == m.table[t][l].ppn
    <3>2. /\ nm[t].lev = 2 => /\ c \in 0 .. m.used /\ nm[c].lev = 1
                              /\ nm[c].own = IF l \in UserTop THEN nm[t].own ELSE 0
                              /\ nm[c].i2 = l
          /\ nm[t].lev = 1 => /\ c \in 0 .. m.used /\ nm[c].lev = 0
                              /\ nm[c].own = nm[t].own /\ nm[c].i2 = nm[t].i2
                              /\ nm[c].i1 = l
      BY <1>1, <3>1 DEF Sound, Linked
    <3> HIDE DEF c
    <3>3. c \in 0 .. m.used => c \in 0 .. x /\ nm2[c] = nm[c]
      BY <1>2, <1>6
    <3>4. n.table[t][l].ppn = c
      BY <3>1 DEF c
    <3>5. QED  BY <3>1, <3>2, <3>3, <3>4
  <2>3. QED  BY <2>1, <2>2
<1>11. \A t \in 0 .. m.used : n.table[t] = m.table[t]
  BY <1>2, <1>4
<1>12. KernelShared(n.table, rt2)
  <2>1. n.table[0] = m.table[0]
    BY <1>2, <1>11
  <2>2. ASSUME NEW q \in Pids, NEW k \in Idx \ UserTop, rt2[q] # 0
        PROVE  n.table[rt2[q]][k] = n.table[0][k]
    BY <1>1, <1>2, <1>4, <1>7, <1>11, <2>1, <2>2 DEF Sound, KernelShared
  <2>3. QED  BY <1>1, <2>1, <2>2 DEF Sound, KernelShared
<1>13. Unmade(n.table, x)
  BY <1>1, <1>2, <1>4 DEF Sound, Unmade, Tables, x
<1>14. Sound(n, rt2, nm2)
  BY <1>2, <1>3, <1>8, <1>9, <1>10, <1>12, <1>13 DEF Sound
<1>15. ASSUME NEW s \in Roots(rt), NEW w \in Nat
       PROVE  /\ entry(n.table, s, w) = entry(m.table, s, w)
              /\ s = 0 => entry(n.table, x, w) = entry(m.table, 0, w)
  <2> DEFINE e2 == Second(m.table, s, w)
             e1 == First(m.table, s, w)
  <2>1. s \in 0 .. m.used
    BY <1>1, RootName
  <2>2. /\ e2 # None => e2.ppn \in 0 .. m.used
        /\ e2 # None /\ e1 # None => e1.ppn \in 0 .. m.used
    <3>1. Walk(m, nm, s, w)
      BY <1>1, Path
    <3>2. QED  BY <3>1 DEF Walk
  <2>3. e2 = m.table[s][VPN(w, 2)] /\ e1 = m.table[e2.ppn][VPN(w, 1)]
    BY DEF Second, First
  <2>4. entry(m.table, s, w) = IF e2 = None \/ e1 = None THEN None ELSE m.table[e1.ppn][VPN(w, 0)]
    BY EntryIs
  <2> HIDE DEF e1, e2
  <2>5. ASSUME NEW r, n.table[r] = m.table[s]  PROVE  entry(n.table, r, w) = entry(m.table, s, w)
    <3> DEFINE f2 == Second(n.table, r, w)
               f1 == First(n.table, r, w)
    <3>1. f2 = n.table[r][VPN(w, 2)] /\ f1 = n.table[f2.ppn][VPN(w, 1)]
      BY DEF Second, First
    <3>2. entry(n.table, r, w) = IF f2 = None \/ f1 = None THEN None ELSE n.table[f1.ppn][VPN(w, 0)]
      BY EntryIs
    <3> HIDE DEF f1, f2
    <3>3. f2 = e2
      BY <2>3, <2>5, <3>1
    <3>4. e2 # None => f1 = e1
      BY <1>11, <2>2, <2>3, <3>1, <3>3
    <3>5. e2 # None /\ e1 # None => n.table[e1.ppn] = m.table[e1.ppn]
      BY <1>11, <2>2
    <3>6. QED  BY <2>4, <3>2, <3>3, <3>4, <3>5
  <2>6. n.table[s] = m.table[s] /\ (s = 0 => n.table[x] = m.table[s])
    BY <1>4, <1>11, <2>1
  <2>7. QED  BY <2>5, <2>6
<1>16. QED
  <2>1. 0 \in Roots(rt)
    BY DEF Roots
  <2>2. QED  BY <1>2, <1>3, <1>14, <1>15, <2>1 DEF Good, n, rt2, x

-----------------------------------------------------------------------------
\* Sharing one page with a child.
LEMMA ReadOnlyType ==
  ASSUME NEW e \in Entry, e # None
  PROVE  LET o == [e EXCEPT !.perm = @ \ {"W"}] IN
         /\ o \in Entry /\ o # None /\ o = Spaces!ReadOnly(e)
         /\ o.ppn \in Nat /\ o.perm \in SUBSET {"R", "W", "X"}
         /\ o = [ppn |-> o.ppn, perm |-> o.perm]
<1> DEFINE R == [ppn : Nat, perm : SUBSET {"R", "W", "X"}]
           o == [e EXCEPT !.perm = @ \ {"W"}]
<1>1. e \in R
  BY DEF Entry
<1>2. o \in R /\ o = [ppn |-> o.ppn, perm |-> o.perm]
  BY <1>1
<1>3. o = Spaces!ReadOnly(e)
  BY DEF Spaces!ReadOnly
<1> HIDE DEF o
<1>4. o.ppn \in Nat /\ o.perm \in SUBSET {"R", "W", "X"}
  BY <1>2
<1>5. o \in Entry /\ o # None
  BY <1>2, EntryFacts DEF Entry
<1>6. QED  BY <1>2, <1>3, <1>4, <1>5 DEF o

LEMMA ShareShaped ==
  ASSUME NEW m, Shaped(m), NEW parent, NEW child, NEW v
  PROVE  Shaped(share(m, parent, child, v)) /\ m.used <= share(m, parent, child, v).used
<1> DEFINE e2 == m.table[parent][VPN(v, 2)]
           e1 == m.table[e2.ppn][VPN(v, 1)]
           e  == [entry(m.table, parent, v) EXCEPT !.perm = @ \ {"W"}]
           T  == [m.table EXCEPT ![e1.ppn][VPN(v, 0)] = e]
           n  == [m EXCEPT !.table[e1.ppn][VPN(v, 0)] = e]
<1>1. CASE ~ checkValid(m.table, v, parent)
  BY <1>1 DEF share, Shaped
<1>2. CASE checkValid(m.table, v, parent)
  <2>1. share(m, parent, child, v) = create_mapping(n, child, v, e.ppn, 1, e.perm)
    BY <1>2 DEF share
  <2>2. n = [table |-> T, used |-> m.used, ptr |-> m.ptr]
    <3> DEFINE x == e1.ppn
    <3> HIDE DEF x, e
    <3>1. m = [table |-> m.table, used |-> m.used, ptr |-> m.ptr]
      BY DEF Shaped
    <3>2. [m EXCEPT !.table[x][VPN(v, 0)] = e]
            = [table |-> [m.table EXCEPT ![x][VPN(v, 0)] = e], used |-> m.used, ptr |-> m.ptr]
      BY <3>1
    <3>3. QED  BY <3>2, Zenon DEF x
  <2> HIDE DEF n, T, e
  <2>3. Shaped(n) /\ n.used = m.used
    BY <2>2 DEF Shaped
  <2>4. PICK f : Grows(f, 1, n, child, v, e.ppn, e.perm)
    BY <2>3, CreateShaped
  <2>5. QED  BY <2>1, <2>3, <2>4 DEF Grows
<1>3. QED  BY <1>1, <1>2

\* share gives parent and child the parent's translation of the page, without
\* W, and changes no other.
Shared(m, m2, rt, p, c, v) ==
  \A s \in Roots(rt), w \in 0 .. Top - 1 :
    entry(m2.table, s, w) =
      IF w = v /\ s \in {rt[p], rt[c]} /\ entry(m.table, rt[p], v) # None
      THEN Spaces!ReadOnly(entry(m.table, rt[p], v)) ELSE entry(m.table, s, w)

LEMMA ShareSound ==
  ASSUME NEW m, NEW rt, Good(m, rt), NEW p \in Pids, NEW c \in Pids, p # c,
         rt[p] # 0, rt[c] # 0, NEW v \in UserPages,
         share(m, rt[p], rt[c], v).used \in Tables
  PROVE  LET m2 == share(m, rt[p], rt[c], v) IN
         Good(m2, rt) /\ Shared(m, m2, rt, p, c, v)
<1> DEFINE m2 == share(m, rt[p], rt[c], v)
           e2 == m.table[rt[p]][VPN(v, 2)]
           e1 == m.table[e2.ppn][VPN(v, 1)]
           e0 == entry(m.table, rt[p], v)
           e  == [e0 EXCEPT !.perm = @ \ {"W"}]
           x  == e1.ppn
           n  == [m EXCEPT !.table[x][VPN(v, 0)] = e]
<1>1. PICK nm : Sound(m, rt, nm)
  BY DEF Good
<1>2. /\ v \in 0 .. Top - 1 /\ v \in Nat /\ VPN(v, 2) \in UserTop /\ VPN(v, 0) \in Idx
      /\ rt[p] \in Roots(rt) /\ rt[c] \in Roots(rt)
  BY TableAssumption, Sizes, VpnType DEF UserTop, Roots
<1>3. rt[p] # rt[c]
  BY <1>1 DEF Sound, Rooted
<1>4. CASE e0 = None
  <2>1. m2 = m
    BY <1>4 DEF share, checkValid
  <2>2. QED  BY <1>4, <2>1 DEF Shared
<1>5. CASE e0 # None
  <2>1. Walk(m, nm, rt[p], v) /\ e0 \in Entry
    BY <1>1, <1>2, Path, EntryType
  <2>2. e2 # None /\ e1 # None /\ e2 = Second(m.table, rt[p], v) /\ e1 = First(m.table, rt[p], v)
    <3>1. e2 = Second(m.table, rt[p], v) /\ e1 = First(m.table, rt[p], v)
      BY DEF Second, First
    <3> HIDE DEF e1, e2
    <3>2. QED  BY <1>5, <3>1, EntryIs
  <2>3. /\ x \in 0 .. m.used /\ x \in Tables
        /\ nm[x].lev = 0 /\ nm[x].own = nm[rt[p]].own
        /\ nm[x].i2 = VPN(v, 2) /\ nm[x].i1 = VPN(v, 1)
    <3> HIDE DEF e1, e2
    <3>1. QED  BY <1>2, <2>1, <2>2 DEF Walk
  <2>4. /\ e \in Entry /\ e # None /\ e = Spaces!ReadOnly(e0)
        /\ e.ppn \in Nat /\ e.perm \in SUBSET {"R", "W", "X"}
        /\ e = [ppn |-> e.ppn, perm |-> e.perm]
    <3> HIDE DEF e0
    <3>1. QED  BY <1>5, <2>1, ReadOnlyType
  <2>5. m2 = create_mapping(n, rt[c], v, e.ppn, 1, e.perm)
    BY <1>5, Zenon DEF share, checkValid
  <2>6. /\ m \in Memories /\ m.table \in [Tables -> [Idx -> Entry]]
    BY <1>1 DEF Sound, Memories
  <2> HIDE DEF e
  <2>7. n.table = [m.table EXCEPT ![x][VPN(v, 0)] = e] /\ n.used = m.used /\ n \in Memories
    <3> HIDE DEF x
    <3>1. n.table = [m.table EXCEPT ![x][VPN(v, 0)] = e] /\ n.used = m.used
      BY <2>6 DEF Memories
    <3>2. n.table \in [Tables -> [Idx -> Entry]]
      BY <1>2, <2>3, <2>4, <2>6, <3>1, WriteSlot
    <3>3. QED  BY <2>6, <3>1, <3>2 DEF Memories
  <2> HIDE DEF n
  <2>8. /\ Sound(n, rt, nm)
        /\ \A s \in Roots(rt), w \in 0 .. Top - 1 :
             entry(n.table, s, w) = IF s = rt[p] /\ w = v THEN e ELSE entry(m.table, s, w)
    <3>1. m.table[m.table[rt[p]][VPN(v, 2)].ppn][VPN(v, 1)].ppn = x
      OBVIOUS
    <3>2. /\ m.table[rt[p]][VPN(v, 2)] # None
          /\ m.table[m.table[rt[p]][VPN(v, 2)].ppn][VPN(v, 1)] # None
      BY <2>2
    <3> DEFINE r == rt[p]
    <3>3. /\ r \in Roots(rt) /\ r # 0
          /\ m.table[r][VPN(v, 2)] # None
          /\ m.table[m.table[r][VPN(v, 2)].ppn][VPN(v, 1)] # None
          /\ m.table[m.table[r][VPN(v, 2)].ppn][VPN(v, 1)].ppn = x
          /\ nm[x].own = nm[r].own
      BY <1>2, <2>3, <3>1, <3>2, Zenon
    <3>4. v \in 0 .. Top - 1 /\ VPN(v, 2) \in UserTop
      BY <1>2
    <3> HIDE DEF x, r, e2, e1, e0
    <3>5. /\ Sound(n, rt, nm)
          /\ \A s \in Roots(rt), w \in 0 .. Top - 1 :
               entry(n.table, s, w) = IF s = r /\ w = v THEN e ELSE entry(m.table, s, w)
      BY <1>1, <2>3, <2>4, <2>7, <3>3, <3>4, LeafWrite
    <3>6. QED  BY <3>5 DEF r
  <2>9. Good(n, rt)
    BY <2>8 DEF Good
  <2>10. \A w \in v .. v + 1 - 1 : May(rt, rt[c], w)
    BY <1>2 DEF May
  <2> HIDE DEF m2
  <2>11. Good(m2, rt) /\ MappedArea(n, m2, rt, rt[c], v, e.ppn, 1, e.perm)
    BY <1>2, <2>4, <2>5, <2>9, <2>10, CreateMapping DEF m2
  <2>12. ASSUME NEW s \in Roots(rt), NEW w \in 0 .. Top - 1
         PROVE  entry(m2.table, s, w) =
                  IF w = v /\ s \in {rt[p], rt[c]} THEN e ELSE entry(m.table, s, w)
    <3>1. entry(m2.table, s, w) =
            IF s = rt[c] /\ w \in v .. v + 1 - 1 THEN [ppn |-> e.ppn + w - v, perm |-> e.perm]
            ELSE entry(n.table, s, w)
      BY <2>11 DEF MappedArea
    <3>2. w \in v .. v + 1 - 1 <=> w = v
      BY <1>2, Sizes
    <3>3. e.ppn + v - v = e.ppn
      BY <1>2, <2>4
    <3>4. CASE w = v /\ s = rt[c]
      BY <2>4, <3>1, <3>2, <3>3, <3>4
    <3>5. CASE ~ (w = v /\ s = rt[c])
      BY <1>3, <2>8, <3>1, <3>2, <3>5
    <3>6. QED  BY <3>4, <3>5
  <2>13. QED  BY <1>5, <2>4, <2>11, <2>12 DEF Shared, m2
<1>6. QED  BY <1>4, <1>5

-----------------------------------------------------------------------------
\* do_cow_fork, page by page.
ForkRow(v, f, p) ==
  IF v = 0 THEN new_root(Now, p)
  ELSE IF v - 1 \in UserPages THEN share(f[v - 1], pgd[p], used + 1, v - 1)
  ELSE f[v - 1]

LEMMA ForkRows ==
  ASSUME NEW n \in Nat, NEW p
  PROVE  \E f : f = [v \in 0 .. n |-> ForkRow(v, f, p)]
<1> DEFINE P(k) == \E f : f = [i \in 0 .. k |-> ForkRow(i, f, p)]
           Bad  == {k \in Nat : ~ P(k)}
<1>1. SUFFICES ASSUME Bad # {}  PROVE  FALSE
  OBVIOUS
<1>2. PICK k \in Bad : \A l \in Bad : k <= l
  BY <1>1, LeastNat
<1>3. k # 0
  <2> DEFINE z == new_root(Now, p)
  <2>1. \A i \in 0 .. 0 : ForkRow(i, [j \in 0 .. 0 |-> z], p) = z
    BY DEF ForkRow
  <2> HIDE DEF z
  <2>2. [i \in 0 .. 0 |-> z] = [i \in 0 .. 0 |-> ForkRow(i, [j \in 0 .. 0 |-> z], p)]
    BY <2>1
  <2>3. P(0)
    BY <2>2
  <2>4. QED  BY <2>3
<1>4. k - 1 \in Nat /\ k - 1 \notin Bad
  BY <1>2, <1>3
<1>5. PICK g : g = [i \in 0 .. k - 1 |-> ForkRow(i, g, p)]
  BY <1>4
<1> DEFINE f == [i \in 0 .. k |-> IF i = k THEN ForkRow(k, g, p) ELSE g[i]]
<1>6. \A i \in 0 .. k : f[i] = ForkRow(i, f, p)
  <2> SUFFICES ASSUME NEW i \in 0 .. k  PROVE  f[i] = ForkRow(i, f, p)
    OBVIOUS
  <2>1. f[i] = ForkRow(i, g, p)
    BY <1>3, <1>4, <1>5
  <2>2. i # 0 => i - 1 \in 0 .. k /\ i - 1 # k /\ f[i - 1] = g[i - 1]
    BY <1>4
  <2> HIDE DEF f
  <2>3. QED  BY <2>1, <2>2 DEF ForkRow
<1>7. f = [i \in 0 .. k |-> ForkRow(i, f, p)]
  <2>1. f = [i \in 0 .. k |-> f[i]]
    OBVIOUS
  <2> HIDE DEF f
  <2>2. QED  BY <1>6, <2>1
<1>8. P(k)
  <2> HIDE DEF f
  <2>1. QED  BY <1>7
<1>9. QED  BY <1>2, <1>8

\* do_cow_fork takes a free number and goes through the memories f[0] ..
\* f[Top].
LEMMA CowRows ==
  ASSUME NEW p \in Pids, do_cow_fork(p)
  PROVE  \E c \in Pids : \E f :
           /\ pgd[p] # 0 /\ pgd[c] = 0 /\ pgd' = [pgd EXCEPT ![c] = used + 1]
           /\ Becomes(f[Top])
           /\ \A v \in 0 .. Top : f[v] = ForkRow(v, f, p)
<1> DEFINE F == CHOOSE f : f = [v \in 0 .. Top |->
                  IF v = 0 THEN new_root(Now, p)
                  ELSE IF v - 1 \in UserPages THEN share(f[v - 1], pgd[p], used + 1, v - 1)
                  ELSE f[v - 1]]
           L(c) == pgd[c] = 0 /\ \A d \in Pids : pgd[d] = 0 => c <= d
           child == CHOOSE c \in Pids : L(c)
<1>1. /\ pgd[p] # 0 /\ \E c \in Pids : pgd[c] = 0
      /\ Becomes(F[Top]) /\ pgd' = [pgd EXCEPT ![child] = used + 1]
  BY DEF do_cow_fork
<1>2. F = [v \in 0 .. Top |->
                  IF v = 0 THEN new_root(Now, p)
                  ELSE IF v - 1 \in UserPages THEN share(F[v - 1], pgd[p], used + 1, v - 1)
                  ELSE F[v - 1]]
  <2>1. \E f : f = [v \in 0 .. Top |-> ForkRow(v, f, p)]
    BY ForkRows, Sizes
  <2>2. \E f : f = [v \in 0 .. Top |->
                  IF v = 0 THEN new_root(Now, p)
                  ELSE IF v - 1 \in UserPages THEN share(f[v - 1], pgd[p], used + 1, v - 1)
                  ELSE f[v - 1]]
    BY <2>1 DEF ForkRow
  <2>3. QED  BY <2>2
<1> HIDE DEF F
<1>3. \A v \in 0 .. Top : F[v] = ForkRow(v, F, p)
  BY <1>2 DEF ForkRow
<1>4. \E c \in Pids : L(c)
  <2> DEFINE C == {c \in Pids : pgd[c] = 0}
  <2>1. C \in SUBSET Nat /\ C # {}
    BY <1>1 DEF Pids
  <2> HIDE DEF C
  <2>2. PICK c \in C : \A d \in C : c <= d
    BY <2>1, LeastNat
  <2>3. QED  BY <2>2 DEF C
<1>5. child \in Pids /\ pgd[child] = 0
  BY <1>4
<1> HIDE DEF child
<1>6. QED  BY <1>1, <1>3, <1>5

\* The translations when the pages below k have been shared, p being the
\* parent and c the child; rt has the child's root.
ForkedUpTo(m, rt, p, c, k) ==
  \A s \in Roots(rt), w \in 0 .. Top - 1 :
    entry(m.table, s, w) =
      CASE w \in UserPages /\ s = rt[p] ->
             IF w < k THEN Spaces!ReadOnly(entry(table, pgd[p], w)) ELSE entry(table, pgd[p], w)
        [] w \in UserPages /\ s = rt[c] ->
             IF w < k THEN Spaces!ReadOnly(entry(table, pgd[p], w)) ELSE None
        [] OTHER -> entry(table, IF s = rt[c] THEN 0 ELSE s, w)

\* do_cow_fork gives parent and child the parent's translations, without W,
\* and changes no other.
LEMMA ForkSound ==
  ASSUME Good(Now, pgd), NEW p \in Pids, do_cow_fork(p)
  PROVE  \E c \in Pids :
           /\ pgd[p] # 0 /\ pgd[c] = 0 /\ pgd' = [pgd EXCEPT ![c] = used + 1]
           /\ used' \in Nat /\ used + 1 <= used'
           /\ Good(Memory(table', used'), pgd')
           /\ ForkedUpTo(Memory(table', used'), pgd', p, c, Top)
<1>0. PICK c \in Pids : \E f :
           /\ pgd[p] # 0 /\ pgd[c] = 0 /\ pgd' = [pgd EXCEPT ![c] = used + 1]
           /\ Becomes(f[Top])
           /\ \A v \in 0 .. Top : f[v] = ForkRow(v, f, p)
  BY CowRows
<1>1. PICK f :
           /\ pgd[p] # 0 /\ pgd[c] = 0 /\ pgd' = [pgd EXCEPT ![c] = used + 1]
           /\ Becomes(f[Top])
           /\ \A v \in 0 .. Top : f[v] = ForkRow(v, f, p)
  BY <1>0
<1> DEFINE rt == [pgd EXCEPT ![c] = used + 1]
<1>2. PICK nm : Sound(Now, pgd, nm)
  BY DEF Good
<1>3. /\ Now.table = table /\ Now.used = used /\ used \in Nat
      /\ pgd \in [Pids -> 0 .. used] /\ p # c
      /\ rt[c] = used + 1 /\ rt[p] = pgd[p] /\ rt[p] # rt[c] /\ rt[c] # 0
      /\ \A s \in Roots(rt) : s # rt[c] => s \in Roots(pgd)
  BY <1>1, <1>2 DEF Now, Memory, Sound, Memories, Rooted, Roots
<1> DEFINE Q(v) == /\ Shaped(f[v]) /\ used + 1 <= f[v].used
                   /\ f[v].used \in Tables => Good(f[v], rt) /\ ForkedUpTo(f[v], rt, p, c, v)
           Bad == {v \in 0 .. Top : ~ Q(v)}
<1>4. Q(0)
  <2> DEFINE n == new_root(Now, p)
  <2>1. f[0] = n
    BY <1>1, Sizes DEF ForkRow
  <2>2. Shaped(n) /\ n.used = used + 1
    BY <1>3 DEF new_root, Shaped
  <2>3. ASSUME n.used \in Tables
        PROVE  Good(n, rt) /\ ForkedUpTo(n, rt, p, c, 0)
    <3>1. /\ Good(n, rt)
          /\ \A s \in Roots(pgd), w \in Nat : entry(n.table, s, w) = entry(table, s, w)
          /\ \A w \in Nat : entry(n.table, used + 1, w) = entry(table, 0, w)
      <4>1. Now.used + 1 \in Tables /\ Now.used + 1 = used + 1
        BY <1>3, <2>2, <2>3
      <4>2. /\ Good(new_root(Now, p), [pgd EXCEPT ![c] = Now.used + 1])
            /\ \A s \in Roots(pgd), w \in Nat :
                 entry(new_root(Now, p).table, s, w) = entry(Now.table, s, w)
            /\ \A w \in Nat :
                 entry(new_root(Now, p).table, Now.used + 1, w) = entry(Now.table, 0, w)
        <5> HIDE DEF n, rt
        <5> DEFINE m == Now
        <5>1. Good(m, pgd) /\ pgd[c] = 0 /\ m.used + 1 \in Tables
          BY <1>1, <4>1
        <5> HIDE DEF m
        <5>2. /\ Good(new_root(m, p), [pgd EXCEPT ![c] = m.used + 1])
              /\ \A s \in Roots(pgd), w \in Nat :
                   entry(new_root(m, p).table, s, w) = entry(m.table, s, w)
              /\ \A w \in Nat :
                   entry(new_root(m, p).table, m.used + 1, w) = entry(m.table, 0, w)
          BY <5>1, NewRoot
        <5>3. QED  BY <5>2 DEF m
      <4>3. QED  BY <1>3, <4>1, <4>2
    <3> HIDE DEF n, rt
    <3>2. ASSUME NEW w \in UserPages
          PROVE  w \in Nat /\ ~ (w < 0) /\ entry(table, 0, w) = None
      <4>1. w \in Nat
        BY TableAssumption, Sizes
      <4>2. VPN(w, 2) \in UserTop
        BY DEF UserTop
      <4>3. QED  BY <1>3, <4>1, <4>2, KernelAlike
    <3>3. ASSUME NEW s \in Roots(rt), NEW w \in 0 .. Top - 1
          PROVE  entry(n.table, s, w) = entry(table, IF s = rt[c] THEN 0 ELSE s, w)
      <4>1. w \in Nat
        BY Sizes
      <4>2. QED  BY <1>3, <3>1, <4>1
    <3>4. QED  BY <1>3, <3>1, <3>2, <3>3 DEF ForkedUpTo
  <2> HIDE DEF n
  <2>4. QED  BY <1>3, <2>1, <2>2, <2>3
<1>5. ASSUME Bad # {}  PROVE  FALSE
  <2>1. Bad \in SUBSET Nat
    BY Sizes
  <2>2. PICK k \in Bad : \A l \in Bad : k <= l
    <3> HIDE DEF Bad
    <3>1. QED  BY <1>5, <2>1, LeastNat
  <2> DEFINE i == k - 1
             x == f[i]
             y == f[k]
  <2>3. k # 0
    BY <1>4, <2>2
  <2>4. k \in 1 .. Top /\ i \in 0 .. Top - 1 /\ Q(i)
    <3> HIDE DEF Q
    <3>1. k \in 1 .. Top /\ i \in 0 .. Top - 1 /\ i \in 0 .. Top /\ ~ (k <= i)
      BY <2>2, <2>3, Sizes
    <3>2. QED  BY <2>2, <3>1
  <2>5. y = IF i \in UserPages THEN share(x, rt[p], rt[c], i) ELSE x
    BY <1>1, <1>3, <2>4 DEF ForkRow
  <2> HIDE DEF rt, x, y
  <2>6. Shaped(x) /\ used + 1 <= x.used
    BY <2>4 DEF x
  <2>7. Shaped(y) /\ x.used <= y.used
    BY <2>5, <2>6, ShareShaped DEF Shaped
  <2>8. used + 1 <= y.used
    BY <1>3, <2>6, <2>7 DEF Shaped
  <2>9. ASSUME y.used \in Tables  PROVE  Good(y, rt) /\ ForkedUpTo(y, rt, p, c, k)
    <3>1. x.used \in Tables
      BY <2>6, <2>7, <2>9, Sizes DEF Shaped, Tables
    <3>2. Good(x, rt) /\ ForkedUpTo(x, rt, p, c, i)
      BY <2>4, <3>1 DEF x
    <3>3. \A w \in 0 .. Top - 1 : w < k <=> w < i \/ w = i
      BY <2>4, Sizes
    <3>4. CASE i \in UserPages
      <4>1. Good(y, rt) /\ Shared(x, y, rt, p, c, i)
        <5> HIDE DEF i
        <5>1. QED  BY <1>1, <1>3, <2>5, <2>9, <3>2, <3>4, ShareSound
      <4> DEFINE o == entry(table, pgd[p], i)
      <4>2. entry(x.table, rt[p], i) = o /\ entry(x.table, rt[c], i) = None
        BY <1>3, <2>4, <3>2, <3>4 DEF ForkedUpTo, Roots
      <4>3. Spaces!ReadOnly(None) = None
        BY DEF Spaces!ReadOnly
      <4>4. ASSUME NEW s \in Roots(rt), NEW w \in 0 .. Top - 1
            PROVE  entry(y.table, s, w) =
                     IF w = i /\ s \in {rt[p], rt[c]} THEN Spaces!ReadOnly(o)
                     ELSE entry(x.table, s, w)
        BY <4>1, <4>2, <4>3 DEF Shared
      <4>5. ForkedUpTo(y, rt, p, c, k)
        <5> SUFFICES ASSUME NEW s \in Roots(rt), NEW w \in 0 .. Top - 1
                     PROVE  entry(y.table, s, w) =
              CASE w \in UserPages /\ s = rt[p] ->
                     IF w < k THEN Spaces!ReadOnly(entry(table, pgd[p], w)) ELSE entry(table, pgd[p], w)
                [] w \in UserPages /\ s = rt[c] ->
                     IF w < k THEN Spaces!ReadOnly(entry(table, pgd[p], w)) ELSE None
                [] OTHER -> entry(table, IF s = rt[c] THEN 0 ELSE s, w)
          BY DEF ForkedUpTo
        <5>1. CASE w = i /\ s \in {rt[p], rt[c]}
          BY <3>3, <3>4, <4>4, <5>1
        <5>2. CASE ~ (w = i /\ s \in {rt[p], rt[c]})
          BY <3>2, <3>3, <4>4, <5>2 DEF ForkedUpTo
        <5>3. QED  BY <5>1, <5>2
      <4>6. QED  BY <4>1, <4>5
    <3>5. CASE i \notin UserPages
      <4>1. y = x
        BY <2>5, <3>5
      <4>2. \A w \in 0 .. Top - 1 : w \in UserPages => (w < k <=> w < i)
        BY <3>3, <3>5
      <4> HIDE DEF i
      <4>3. ForkedUpTo(x, rt, p, c, k)
        BY <3>2, <4>2 DEF ForkedUpTo
      <4>4. QED  BY <3>2, <4>1, <4>3
    <3>6. QED  BY <3>4, <3>5
  <2>10. Q(k)
    BY <2>7, <2>8, <2>9 DEF y
  <2>11. QED  BY <2>2, <2>10
<1>6. Q(Top)
  <2> HIDE DEF Q
  <2>1. Top \in 0 .. Top
    BY Sizes
  <2>2. QED  BY <1>5, <2>1
<1> DEFINE g == f[Top]
<1>7. g.used \in Tables /\ table' = g.table /\ used' = g.used /\ pgd' = rt
  BY <1>1 DEF Becomes
<1>8. Good(g, rt) /\ ForkedUpTo(g, rt, p, c, Top) /\ Shaped(g) /\ used + 1 <= g.used
  BY <1>6, <1>7
<1> HIDE DEF g
<1>9. Good(Memory(table', used'), pgd') /\ ForkedUpTo(Memory(table', used'), pgd', p, c, Top)
  <2>1. Memory(table', used').table = g.table
    BY <1>7 DEF Memory
  <2> HIDE DEF rt
  <2>2. QED  BY <1>7, <1>8, <2>1, GoodMemory DEF ForkedUpTo
<1>10. QED  BY <1>1, <1>7, <1>8, <1>9 DEF Shaped

-----------------------------------------------------------------------------
\* The invariant: there are names for the tables, and once there are tables
\* the kernel is mapped.
IInv == Good(Now, pgd) /\ (used > 0 => KernelMapped(table))

LEMMA NowFacts == Now.table = table /\ Now.used = used
BY DEF Now, Memory

LEMMA PageFacts ==
  /\ \A v \in UserPages : v \in 0 .. Top - 1 /\ v \in Nat /\ VPN(v, 2) \in UserTop
  /\ \A v \in DOMAIN KernelMap : v \in 0 .. Top - 1 /\ v \in Nat /\ VPN(v, 2) \notin UserTop
                                 /\ v \notin UserPages
<1>1. ASSUME NEW v \in UserPages
      PROVE  v \in 0 .. Top - 1 /\ v \in Nat /\ VPN(v, 2) \in UserTop
  BY TableAssumption, Sizes DEF UserTop
<1>2. ASSUME NEW v \in DOMAIN KernelMap
      PROVE  v \in 0 .. Top - 1 /\ v \in Nat /\ VPN(v, 2) \notin UserTop
  <2>1. PICK i \in DOMAIN Regions : v \in Area(i)
    BY LastRegion
  <2>2. QED  BY <2>1, RegionFacts, Sizes
<1>3. QED  BY <1>1, <1>2

\* A page fault.
LEMMA FaultSound ==
  ASSUME IInv, NEW p \in Pids, NEW v \in UserPages, page_fault(p, v)
  PROVE  \E f \in Frames, perm \in Perms :
           /\ pgd[p] # 0 /\ pgd' = pgd /\ used' \in Nat /\ used <= used'
           /\ Good(Memory(table', used'), pgd')
           /\ \A s \in Roots(pgd), w \in 0 .. Top - 1 :
                entry(table', s, w) = IF s = pgd[p] /\ w = v THEN [ppn |-> f, perm |-> perm]
                                      ELSE entry(table, s, w)
<1>1. PICK f \in Frames, perm \in Perms :
        /\ pgd[p] # 0 /\ pgd' = pgd
        /\ Becomes(create_mapping(Now, pgd[p], v, f, 1, perm))
  BY DEF page_fault
<1> DEFINE m == create_mapping(Now, pgd[p], v, f, 1, perm)
<1>2. m.used \in Tables /\ table' = m.table /\ used' = m.used
  BY <1>1 DEF Becomes
<1>3. f \in Nat /\ perm \in SUBSET {"R", "W", "X"} /\ v \in 0 .. Top - 1 /\ v \in Nat
  BY TableAssumption, PageFacts
<1>4. \A w \in v .. v + 1 - 1 : w = v /\ May(pgd, pgd[p], w)
  BY <1>1, <1>3, PageFacts DEF May, Roots
<1>5. Shaped(m) /\ used <= m.used /\ Good(m, pgd) /\ MappedArea(Now, m, pgd, pgd[p], v, f, 1, perm)
  <2> DEFINE n == Now
             r == pgd[p]
  <2>1. Good(n, pgd) /\ n.used = used /\ m = create_mapping(n, r, v, f, 1, perm)
    BY NowFacts DEF IInv
  <2>2. \A w \in v .. v + 1 - 1 : May(pgd, r, w)
    BY <1>4
  <2> HIDE DEF n, r, m
  <2>3. Shaped(m) /\ n.used <= m.used /\ Good(m, pgd) /\ MappedArea(n, m, pgd, r, v, f, 1, perm)
    BY <1>2, <1>3, <2>1, <2>2, CreateMapping
  <2>4. QED  BY <2>1, <2>3 DEF n, r
<1> HIDE DEF m
<1>6. Good(Memory(table', used'), pgd')
  BY <1>1, <1>2, <1>5, GoodMemory
<1>7. ASSUME NEW s \in Roots(pgd), NEW w \in 0 .. Top - 1
      PROVE  entry(table', s, w) = IF s = pgd[p] /\ w = v THEN [ppn |-> f, perm |-> perm]
                                   ELSE entry(table, s, w)
  <2>1. entry(table', s, w) =
          IF s = pgd[p] /\ w \in v .. v + 1 - 1 THEN [ppn |-> f + w - v, perm |-> perm]
          ELSE entry(table, s, w)
    BY <1>2, <1>5, NowFacts DEF MappedArea
  <2>2. w \in v .. v + 1 - 1 <=> w = v
    BY <1>3, Sizes
  <2>3. w = v => f + w - v = f
    BY <1>3
  <2>4. QED  BY <2>1, <2>2, <2>3
<1>8. QED  BY <1>1, <1>2, <1>5, <1>6, <1>7 DEF Shaped

\* task_init.
LEMMA FirstSound ==
  ASSUME IInv, task_init
  PROVE  /\ 1 \in Pids /\ pgd[1] = 0 /\ used > 0 /\ used \in Nat
         /\ pgd' = [pgd EXCEPT ![1] = used + 1] /\ used' = used + 1
         /\ Good(Memory(table', used'), pgd')
         /\ \A s \in Roots(pgd), w \in Nat : entry(table', s, w) = entry(table, s, w)
         /\ \A w \in Nat : entry(table', used + 1, w) = entry(table, 0, w)
<1>1. 1 \in Pids /\ pgd[1] = 0 /\ used > 0 /\ pgd' = [pgd EXCEPT ![1] = used + 1]
  BY Sizes DEF task_init, Pids
<1> DEFINE m == Now
           n == new_root(m, 0)
<1>2. /\ Good(m, pgd) /\ m.used = used /\ m.table = table
      /\ n.used \in Tables /\ table' = n.table /\ used' = n.used
  BY NowFacts DEF IInv, task_init, Becomes
<1> HIDE DEF m
<1>3. n.used = m.used + 1
  BY DEF new_root
<1> HIDE DEF n
<1>4. /\ Good(n, [pgd EXCEPT ![1] = m.used + 1]) /\ m.used \in Nat
      /\ \A s \in Roots(pgd), w \in Nat : entry(n.table, s, w) = entry(m.table, s, w)
      /\ \A w \in Nat : entry(n.table, m.used + 1, w) = entry(m.table, 0, w)
  <2>1. m.used + 1 \in Tables
    BY <1>2, <1>3
  <2> DEFINE p == 1
             z == 0
  <2>2. p \in Pids /\ pgd[p] = 0 /\ Good(m, pgd)
    BY <1>1, <1>2
  <2> HIDE DEF p, z
  <2>3. /\ Good(new_root(m, z), [pgd EXCEPT ![p] = m.used + 1]) /\ m.used \in Nat
        /\ \A s \in Roots(pgd), w \in Nat :
             entry(new_root(m, z).table, s, w) = entry(m.table, s, w)
        /\ \A w \in Nat : entry(new_root(m, z).table, m.used + 1, w) = entry(m.table, 0, w)
    BY <2>1, <2>2, NewRoot
  <2>4. QED  BY <2>3 DEF n, p, z
<1>5. Good(Memory(table', used'), pgd')
  BY <1>1, <1>2, <1>4, GoodMemory
<1>6. QED  BY <1>1, <1>2, <1>3, <1>4, <1>5

-----------------------------------------------------------------------------
\* What the steps of Boot do to the tables.
LEMMA BootIsTables ==
  ASSUME [BootNext]_bootvars
  PROVE  \/ setup_vm_final
         \/ task_init
         \/ \E p \in Pids : \E v \in UserPages : page_fault(p, v)
         \/ \E p \in Pids : do_cow_fork(p)
         \/ UNCHANGED vars
<1>1. CASE UNCHANGED bootvars
  BY <1>1 DEF bootvars
<1>2. CASE setup_vm \/ relocate \/ Ret
  BY <1>2 DEF setup_vm, relocate, Ret
<1>3. CASE Final
  BY <1>3 DEF Final
<1>4. CASE Enable
  BY <1>4 DEF Enable
<1>5. CASE \E p \in Pids : Switch(p) \/ Fault(p) \/ Fork(p)
  BY <1>5 DEF Switch, Fault, Fork
<1>6. QED  BY <1>1, <1>2, <1>3, <1>4, <1>5 DEF BootNext

LEMMA IInvInit == Init => IInv
<1> SUFFICES ASSUME Init  PROVE  IInv
  OBVIOUS
<1> DEFINE n0 == [own |-> 0, lev |-> 2, i2 |-> 0, i1 |-> 0]
           nm == [t \in 0 .. 0 |-> n0]
<1>1. /\ table = [t \in Tables |-> Empty] /\ used = 0 /\ pgd = [p \in Pids |-> 0]
      /\ Now.table = table /\ Now.used = used
  BY NowFacts DEF Init
<1>2. /\ table \in [Tables -> [Idx -> Entry]]
      /\ \A t \in Tables, k \in Idx : table[t][k] = None
  BY <1>1, EntryFacts
<1>3. Now \in Memories
  BY <1>1, <1>2 DEF Now, Memory, Memories
<1>4. Rooted(0, pgd, nm)
  <2>1. n0 \in Names
    BY Sizes DEF Names
  <2>2. nm \in [0 .. 0 -> Names] /\ nm[0].own = 0 /\ nm[0].lev = 2
    BY <2>1
  <2>3. pgd \in [Pids -> 0 .. 0] /\ \A p \in Pids : pgd[p] = 0
    BY <1>1
  <2> HIDE DEF nm
  <2>4. QED  BY <2>2, <2>3 DEF Rooted
<1>5. Linked(table, 0, nm)
  BY <1>2, Sizes DEF Linked
<1>6. KernelShared(table, pgd)
  <2>1. UserTop \subseteq Idx
    BY PageFacts, VpnType DEF UserTop
  <2>2. QED  BY <1>1, <1>2, <2>1, Sizes DEF KernelShared
<1>7. Unmade(table, 0)
  BY <1>1 DEF Unmade
<1> HIDE DEF nm
<1>8. Sound(Now, pgd, nm)
  BY <1>1, <1>3, <1>4, <1>5, <1>6, <1>7, Sizes DEF Sound
<1>9. QED  BY <1>1, <1>8 DEF IInv, Good

LEMMA IInvStep ==
  ASSUME IInv, [BootNext]_bootvars
  PROVE  IInv'
<1>1. SUFFICES Good(Memory(table', used'), pgd') /\ (used' > 0 => KernelMapped(table'))
  BY DEF IInv, Now
<1>2. CASE setup_vm_final
  BY <1>2, SetupSound DEF IInv
<1>3. ASSUME \A w \in 0 .. Top - 1 : entry(table', 0, w) = entry(table, 0, w),
             used > 0
      PROVE  KernelMapped(table')
  BY <1>3, PageFacts DEF IInv, KernelMapped
<1>4. 0 \in Roots(pgd) /\ 0 \in Roots(pgd') /\ \A w \in 0 .. Top - 1 : w \in Nat
  BY Sizes DEF Roots
<1>5. \A p \in Pids : pgd[p] # 0 => used > 0
  BY NowFacts DEF IInv, Good, Sound, Rooted, Memories
<1>6. CASE task_init
  BY <1>3, <1>4, <1>6, FirstSound
<1>7. CASE \E p \in Pids : \E v \in UserPages : page_fault(p, v)
  <2>1. PICK p \in Pids, v \in UserPages : page_fault(p, v)
    BY <1>7
  <2>2. PICK f \in Frames, perm \in Perms :
           /\ pgd[p] # 0 /\ pgd' = pgd /\ used' \in Nat /\ used <= used'
           /\ Good(Memory(table', used'), pgd')
           /\ \A s \in Roots(pgd), w \in 0 .. Top - 1 :
                entry(table', s, w) = IF s = pgd[p] /\ w = v THEN [ppn |-> f, perm |-> perm]
                                      ELSE entry(table, s, w)
    BY <2>1, FaultSound
  <2>3. QED  BY <1>3, <1>4, <1>5, <2>2
<1>8. CASE \E p \in Pids : do_cow_fork(p)
  <2>1. PICK p \in Pids : do_cow_fork(p)
    BY <1>8
  <2>2. PICK c \in Pids :
           /\ pgd[p] # 0 /\ pgd[c] = 0 /\ pgd' = [pgd EXCEPT ![c] = used + 1]
           /\ used' \in Nat /\ used + 1 <= used'
           /\ Good(Memory(table', used'), pgd')
           /\ ForkedUpTo(Memory(table', used'), pgd', p, c, Top)
    BY <2>1, ForkSound DEF IInv
  <2>3. /\ pgd'[c] # 0 /\ pgd'[p] # 0 /\ Memory(table', used').table = table'
    <3>1. used \in Nat /\ pgd \in [Pids -> 0 .. used]
      BY NowFacts DEF IInv, Good, Sound, Rooted, Memories
    <3>2. QED  BY <2>2, <3>1 DEF Memory
  <2>4. \A w \in 0 .. Top - 1 : entry(table', 0, w) = entry(table, 0, w)
    <3> TAKE w \in 0 .. Top - 1
    <3>1. 0 \in Roots(pgd') /\ 0 # pgd'[c] /\ 0 # pgd'[p]
      BY <1>4, <2>3
    <3> DEFINE M == Memory(table', used')
               rt == pgd'
    <3>2. ForkedUpTo(M, rt, p, c, Top) /\ M.table = table'
      BY <2>2, <2>3
    <3> HIDE DEF M, rt
    <3>3. entry(M.table, 0, w) = entry(table, IF 0 = rt[c] THEN 0 ELSE 0, w)
      BY <3>1, <3>2 DEF ForkedUpTo, rt
    <3>4. QED  BY <3>2, <3>3
  <2>5. QED  BY <1>3, <1>5, <2>2, <2>4
<1>9. CASE UNCHANGED vars
  BY <1>9 DEF vars, IInv, Now
<1>10. QED  BY <1>2, <1>6, <1>7, <1>8, <1>9, BootIsTables

\* The tables have names, and the kernel is mapped, whatever the programs do.
THEOREM TablesInvariant == BootSpec => []IInv
<1>1. BootInit => IInv
  BY IInvInit DEF BootInit
<1>2. IInv /\ [BootNext]_bootvars => IInv'
  BY IInvStep
<1>3. QED  BY <1>1, <1>2, PTL DEF BootSpec

\* Table entries, their number and the roots are what they should be.
THEOREM TablesTypeOK == BootSpec => []TypeOK
<1>1. IInv => TypeOK
  <2> SUFFICES ASSUME IInv  PROVE  TypeOK
    OBVIOUS
  <2>1. PICK nm : Sound(Now, pgd, nm)
    BY DEF IInv, Good
  <2>2. /\ used \in Tables /\ pgd \in [Pids -> 0 .. used]
        /\ table \in [Tables -> [Idx -> Entry]]
    BY <2>1, NowFacts DEF Sound, Rooted, Memories
  <2>3. QED  BY <2>2 DEF TypeOK, Idx
<1>2. QED  BY <1>1, TablesInvariant, PTL

LEMMA Children ==
  ASSUME NEW s, NEW x
  PROVE  x \in children(s) <=> \E t \in s, k \in Idx : table[t][k] # None /\ x = table[t][k].ppn
BY DEF children, Idx

\* A table below the root of a task is the task's or the kernel's.
LEMMA BelowRoot ==
  ASSUME NEW nm, Sound(Now, pgd, nm), NEW p \in Pids, pgd[p] # 0, NEW x \in below(pgd[p])
  PROVE  nm[x].own = p \/ x \in below(swapper_pg_dir)
<1> DEFINE r == pgd[p]
<1>1. /\ r \in 0 .. used /\ nm[r].own = p /\ nm[r].lev = 2
      /\ \A k \in Idx \ UserTop : table[r][k] = table[0][k]
      /\ Linked(table, used, nm)
  BY NowFacts DEF Sound, Rooted, KernelShared
<1>2. \A y \in children({r}) :
        /\ y \in 0 .. used /\ nm[y].lev = 1
        /\ nm[y].own = p \/ y \in children({0})
  <2> TAKE y \in children({r})
  <2>1. PICK k \in Idx : table[r][k] # None /\ y = table[r][k].ppn
    BY Children
  <2>2. CASE k \in UserTop
    BY <1>1, <2>1, <2>2 DEF Linked
  <2>3. CASE k \notin UserTop
    <3>1. table[0][k] = table[r][k]
      BY <1>1, <2>3
    <3>2. y \in children({0})
      BY <2>1, <3>1, Children
    <3>3. QED  BY <1>1, <2>1, <3>2 DEF Linked
  <2>4. QED  BY <2>2, <2>3
<1>3. CASE x = r
  BY <1>1, <1>3
<1>4. CASE x \in children({r})
  BY <1>2, <1>4 DEF below, swapper_pg_dir
<1>5. CASE x \in children(children({r}))
  <2>1. PICK y \in children({r}), k \in Idx : table[y][k] # None /\ x = table[y][k].ppn
    BY <1>5, Children
  <2>2. CASE nm[y].own = p
    <3>1. y \in 0 .. used /\ nm[y].lev = 1
      BY <1>2, <2>1
    <3>2. nm[table[y][k].ppn].own = nm[y].own
      BY <1>1, <2>1, <3>1 DEF Linked
    <3>3. QED  BY <2>1, <2>2, <3>2
  <2>3. CASE y \in children({0})
    <3>1. x \in children(children({0}))
      BY <2>1, <2>3, Children
    <3>2. QED  BY <3>1 DEF below, swapper_pg_dir
  <2>4. QED  BY <1>2, <2>1, <2>2, <2>3
<1>6. QED  BY <1>3, <1>4, <1>5 DEF below

\* Two tasks share no table but those of the kernel.
THEOREM TablesAreSeparate == BootSpec => []TablesSeparate
<1>1. IInv => TablesSeparate
  <2> SUFFICES ASSUME IInv  PROVE  TablesSeparate
    OBVIOUS
  <2>1. PICK nm : Sound(Now, pgd, nm)
    BY DEF IInv, Good
  <2>2. QED  BY <2>1, BelowRoot DEF TablesSeparate
<1>2. QED  BY <1>1, TablesInvariant, PTL

-----------------------------------------------------------------------------
\* The address spaces the tables stand for.
Tasks == 0 .. NR_TASKS - 1
Pages == UserPages \cup DOMAIN KernelMap

Live(u, rt) == {p \in Pids : rt[p] # 0} \cup (IF u > 0 THEN {0} ELSE {})

Map(T, rt) ==
  [s \in Tasks |->
     [v \in Pages |->
        IF s # 0 /\ rt[s] = 0 THEN None
        ELSE entry(T, IF s = 0 THEN swapper_pg_dir ELSE rt[s], v)]]

Root(rt, s) == IF s = 0 THEN 0 ELSE rt[s]

LEMMA SpacesActions ==
  /\ Spaces!Init <=> Live(used, pgd) = {} /\ Map(table, pgd) = [s \in Tasks |-> Spaces!NoSpace]
  /\ Spaces!vars' = Spaces!vars <=>
       Live(used', pgd') = Live(used, pgd) /\ Map(table', pgd') = Map(table, pgd)
  /\ \A s : Spaces!Create(s) <=>
       /\ s \in Tasks \ Live(used, pgd)
       /\ Live(used', pgd') = Live(used, pgd) \cup {s}
       /\ Map(table', pgd') = [Map(table, pgd) EXCEPT ![s] = Spaces!Fresh]
  /\ \A s, v : Spaces!Map(s, v) <=>
       /\ s \in Live(used, pgd) \ {0}
       /\ \E f \in Frames, perm \in Perms :
            Map(table', pgd') = [Map(table, pgd) EXCEPT ![s][v] = [ppn |-> f, perm |-> perm]]
       /\ Live(used', pgd') = Live(used, pgd)
  /\ \A s, c : Spaces!Fork(s, c) <=>
       /\ s \in Live(used, pgd) \ {0} /\ c \in Tasks \ Live(used, pgd)
       /\ Live(used', pgd') = Live(used, pgd) \cup {c}
       /\ LET shared == [v \in DOMAIN Spaces!Fresh |->
                           IF v \in UserPages THEN Spaces!ReadOnly(Map(table, pgd)[s][v])
                           ELSE Map(table, pgd)[s][v]]
          IN Map(table', pgd') = [Map(table, pgd) EXCEPT ![s] = shared, ![c] = shared]
  /\ Spaces!Next <=>
       \E s \in Tasks : \/ Spaces!Create(s)
                        \/ \E v \in UserPages : Spaces!Map(s, v)
                        \/ \E c \in Tasks : Spaces!Fork(s, c)
<1>1. Spaces!Init <=> Live(used, pgd) = {} /\ Map(table, pgd) = [s \in Tasks |-> Spaces!NoSpace]
  BY DEF Spaces!Init, Live, Map, Tasks, Pages
<1>2. Spaces!vars' = Spaces!vars <=>
       Live(used', pgd') = Live(used, pgd) /\ Map(table', pgd') = Map(table, pgd)
  BY DEF Spaces!vars, Live, Map, Tasks, Pages
<1>3. \A s : Spaces!Create(s) <=>
       /\ s \in Tasks \ Live(used, pgd)
       /\ Live(used', pgd') = Live(used, pgd) \cup {s}
       /\ Map(table', pgd') = [Map(table, pgd) EXCEPT ![s] = Spaces!Fresh]
  BY DEF Spaces!Create, Live, Map, Tasks, Pages
<1>4. \A s, v : Spaces!Map(s, v) <=>
       /\ s \in Live(used, pgd) \ {0}
       /\ \E f \in Frames, perm \in Perms :
            Map(table', pgd') = [Map(table, pgd) EXCEPT ![s][v] = [ppn |-> f, perm |-> perm]]
       /\ Live(used', pgd') = Live(used, pgd)
  BY DEF Spaces!Map, Live, Map, Tasks, Pages
<1>5. \A s, c : Spaces!Fork(s, c) <=>
       /\ s \in Live(used, pgd) \ {0} /\ c \in Tasks \ Live(used, pgd)
       /\ Live(used', pgd') = Live(used, pgd) \cup {c}
       /\ LET shared == [v \in DOMAIN Spaces!Fresh |->
                           IF v \in UserPages THEN Spaces!ReadOnly(Map(table, pgd)[s][v])
                           ELSE Map(table, pgd)[s][v]]
          IN Map(table', pgd') = [Map(table, pgd) EXCEPT ![s] = shared, ![c] = shared]
  BY DEF Spaces!Fork, Live, Map, Tasks, Pages
<1>6. Spaces!Next <=>
       \E s \in Tasks : \/ Spaces!Create(s)
                        \/ \E v \in UserPages : Spaces!Map(s, v)
                        \/ \E c \in Tasks : Spaces!Fork(s, c)
  BY DEF Spaces!Next, Tasks
<1>7. QED  BY <1>1, <1>2, <1>3, <1>4, <1>5, <1>6

LEMMA LiveFacts ==
  ASSUME IInv
  PROVE  /\ used \in Nat /\ pgd \in [Pids -> Nat]
         /\ \A p \in Pids : pgd[p] # 0 => used > 0
         /\ \A p \in Pids : p \in Tasks /\ p # 0 /\ (p \in Live(used, pgd) <=> pgd[p] # 0)
         /\ \A s \in Tasks : s = 0 \/ s \in Pids
         /\ 0 \in Tasks /\ (0 \in Live(used, pgd) <=> used > 0)
         /\ \A s \in Tasks : s = 0 \/ pgd[s] # 0 => Root(pgd, s) \in Roots(pgd)
<1>1. used \in Nat /\ pgd \in [Pids -> 0 .. used]
  BY NowFacts DEF IInv, Good, Sound, Rooted, Memories
<1>2. \A s \in Tasks : s = 0 \/ s \in Pids
  BY Sizes DEF Tasks, Pids
<1>3. \A p \in Pids : p \in Tasks /\ p # 0
  BY Sizes DEF Tasks
<1>4. QED  BY <1>1, <1>2, <1>3, Sizes DEF Live, Roots, Root, Tasks

LEMMA MapFacts ==
  ASSUME NEW T, NEW rt
  PROVE  /\ DOMAIN Map(T, rt) = Tasks
         /\ Map(T, rt) = [s \in Tasks |-> Map(T, rt)[s]]
         /\ \A s \in Tasks :
              /\ DOMAIN Map(T, rt)[s] = Pages
              /\ Map(T, rt)[s] = [v \in Pages |-> Map(T, rt)[s][v]]
BY DEF Map

LEMMA MapAt ==
  ASSUME NEW T, NEW rt, NEW s \in Tasks, NEW v \in Pages
  PROVE  Map(T, rt)[s][v] = IF s # 0 /\ rt[s] = 0 THEN None ELSE entry(T, Root(rt, s), v)
BY DEF Map, Root, swapper_pg_dir

\* Two maps that agree at every page are equal.
LEMMA MapEqual ==
  ASSUME NEW T, NEW rt, NEW g, g = [s \in Tasks |-> g[s]],
         \A s \in Tasks : g[s] = [v \in Pages |-> g[s][v]],
         \A s \in Tasks, v \in Pages : g[s][v] = Map(T, rt)[s][v]
  PROVE  Map(T, rt) = g
<1> DEFINE m == Map(T, rt)
<1>1. m = [s \in Tasks |-> m[s]] /\ \A s \in Tasks : m[s] = [v \in Pages |-> m[s][v]]
  BY MapFacts
<1> HIDE DEF m
<1>2. \A s \in Tasks : g[s] = m[s]
  <2> TAKE s \in Tasks
  <2>1. \A v \in Pages : g[s][v] = m[s][v]
    BY DEF m
  <2>2. [v \in Pages |-> g[s][v]] = [v \in Pages |-> m[s][v]]
    BY <2>1
  <2>3. QED  BY <1>1, <2>2
<1>3. [s \in Tasks |-> g[s]] = [s \in Tasks |-> m[s]]
  BY <1>2
<1>4. QED  BY <1>1, <1>3 DEF m

LEMMA FreshFacts ==
  /\ DOMAIN Spaces!Fresh = Pages
  /\ Spaces!Fresh = [v \in Pages |-> IF v \in UserPages THEN None ELSE KernelMap[v]]
  /\ \A v \in Pages : v \in 0 .. Top - 1 /\ v \in Nat
  /\ \A v \in Pages : v \notin UserPages => v \in DOMAIN KernelMap /\ VPN(v, 2) \notin UserTop
  /\ UserPages \subseteq Pages
BY PageFacts DEF Spaces!Fresh, Pages

\* The new space has the kernel's translations and no other.
LEMMA FreshSpace ==
  ASSUME NEW m, NEW rt, Good(m, rt), KernelMapped(m.table), NEW v \in Pages
  PROVE  entry(m.table, 0, v) = Spaces!Fresh[v]
<1>1. CASE v \in UserPages
  BY <1>1, PageFacts, FreshFacts, KernelAlike
<1>2. CASE v \notin UserPages
  BY <1>2, FreshFacts DEF KernelMapped
<1>3. QED  BY <1>1, <1>2

\* setup_vm_final makes the kernel's space.
LEMMA SetupSimulates ==
  ASSUME IInv, setup_vm_final, IInv'
  PROVE  Spaces!Create(0) \/ Spaces!vars' = Spaces!vars
<1>1. /\ used = 0 /\ pgd' = pgd /\ \A p \in Pids : pgd[p] = 0
      /\ \A w \in Nat : entry(table, 0, w) = None
  <2> DEFINE m == Now
  <2>1. used = 0 /\ pgd' = pgd /\ Good(m, pgd) /\ m.used = 0 /\ m.table = table
    BY NowFacts DEF IInv, setup_vm_final
  <2> HIDE DEF m
  <2>2. QED  BY <2>1, NothingMapped
<1> DEFINE n == Memory(table', used')
<1>2. Good(n, pgd) /\ KernelMapped(table') /\ n.table = table' /\ n.used = used' /\ used' \in Nat
  <2>1. Good(n, pgd') /\ KernelMapped(table')
    BY SetupSound DEF IInv
  <2>2. n.table = table' /\ n.used = used'
    BY DEF Memory
  <2> HIDE DEF n
  <2>3. QED  BY <1>1, <2>1, <2>2 DEF Good, Sound, Memories
<1> HIDE DEF n
<1>3. CASE used' = 0
  <2>1. \A w \in Nat : entry(table', 0, w) = None
    BY <1>2, <1>3, NothingMapped
  <2>2. Live(used', pgd') = Live(used, pgd)
    BY <1>1, <1>3
  <2> DEFINE g == Map(table, pgd)
  <2>3. \A s \in Tasks, v \in Pages : g[s][v] = Map(table', pgd')[s][v]
    <3> TAKE s \in Tasks, v \in Pages
    <3>1. entry(table, 0, v) = entry(table', 0, v) /\ (s = 0 \/ s \in Pids)
      BY <1>1, <2>1, FreshFacts, LiveFacts
    <3>2. s # 0 => pgd[s] = 0 /\ pgd'[s] = 0
      BY <1>1, <3>1
    <3>3. QED  BY <3>1, <3>2, MapAt DEF Root
  <2>4. Map(table', pgd') = g
    <3>1. g = [s \in Tasks |-> g[s]] /\ \A s \in Tasks : g[s] = [v \in Pages |-> g[s][v]]
      BY MapFacts
    <3> HIDE DEF g
    <3>2. QED  BY <2>3, <3>1, MapEqual
  <2>5. QED  BY <2>2, <2>4, SpacesActions
<1>4. CASE used' # 0
  <2>1. Live(used, pgd) = {} /\ Live(used', pgd') = {0} /\ 0 \in Tasks
    BY <1>1, <1>2, <1>4, LiveFacts DEF Live
  <2> DEFINE g == [Map(table, pgd) EXCEPT ![0] = Spaces!Fresh]
  <2>2. /\ g = [s \in Tasks |-> g[s]]
        /\ g[0] = Spaces!Fresh /\ \A s \in Tasks : s # 0 => g[s] = Map(table, pgd)[s]
    BY <2>1, MapFacts
  <2> HIDE DEF g
  <2>3. \A s \in Tasks : g[s] = [v \in Pages |-> g[s][v]]
    <3>1. \A s \in Tasks : Map(table, pgd)[s] = [v \in Pages |-> Map(table, pgd)[s][v]]
      BY MapFacts
    <3>2. Spaces!Fresh = [v \in Pages |-> Spaces!Fresh[v]]
      BY FreshFacts
    <3>3. QED  BY <2>2, <3>1, <3>2
  <2>4. \A s \in Tasks, v \in Pages : g[s][v] = Map(table', pgd')[s][v]
    <3> TAKE s \in Tasks, v \in Pages
    <3>1. CASE s = 0
      <4>1. entry(table', 0, v) = Spaces!Fresh[v]
        BY <1>2, FreshSpace
      <4>2. QED  BY <2>2, <3>1, <4>1, MapAt DEF Root
    <3>2. CASE s # 0
      <4>1. pgd[s] = 0 /\ pgd'[s] = 0
        BY <1>1, <3>2, LiveFacts
      <4>2. QED  BY <2>2, <3>2, <4>1, MapAt
    <3>3. QED  BY <3>1, <3>2
  <2>5. Map(table', pgd') = g
    BY <2>2, <2>3, <2>4, MapEqual
  <2>6. QED  BY <2>1, <2>5, SpacesActions DEF g
<1>5. QED  BY <1>3, <1>4

\* task_init makes the space of the first task.
LEMMA FirstSimulates ==
  ASSUME IInv, task_init, IInv'
  PROVE  Spaces!Create(1)
<1>1. /\ 1 \in Pids /\ pgd[1] = 0 /\ used > 0 /\ used \in Nat
      /\ pgd' = [pgd EXCEPT ![1] = used + 1] /\ used' = used + 1
      /\ \A s \in Roots(pgd), w \in Nat : entry(table', s, w) = entry(table, s, w)
      /\ \A w \in Nat : entry(table', used + 1, w) = entry(table, 0, w)
  BY FirstSound
<1>2. /\ \A s \in Tasks : s # 1 => pgd'[s] = pgd[s]
      /\ pgd'[1] = used + 1 /\ pgd'[1] # 0
  BY <1>1, LiveFacts
<1>3. 1 \in Tasks \ Live(used, pgd) /\ Live(used', pgd') = Live(used, pgd) \cup {1}
  <2>1. 1 \in Tasks \ Live(used, pgd)
    BY <1>1, LiveFacts
  <2>2. \A q \in Pids : pgd'[q] # 0 <=> q = 1 \/ pgd[q] # 0
    BY <1>2, LiveFacts
  <2>3. used' > 0
    BY <1>1
  <2>4. QED  BY <1>1, <2>1, <2>2, <2>3 DEF Live
<1> DEFINE g == [Map(table, pgd) EXCEPT ![1] = Spaces!Fresh]
<1>4. /\ g = [s \in Tasks |-> g[s]]
      /\ g[1] = Spaces!Fresh /\ \A s \in Tasks : s # 1 => g[s] = Map(table, pgd)[s]
  BY <1>3, MapFacts
<1> HIDE DEF g
<1>5. \A s \in Tasks : g[s] = [v \in Pages |-> g[s][v]]
  <2>1. \A s \in Tasks : Map(table, pgd)[s] = [v \in Pages |-> Map(table, pgd)[s][v]]
    BY MapFacts
  <2>2. Spaces!Fresh = [v \in Pages |-> Spaces!Fresh[v]]
    BY FreshFacts
  <2>3. QED  BY <1>4, <2>1, <2>2
<1>6. \A s \in Tasks, v \in Pages : g[s][v] = Map(table', pgd')[s][v]
  <2> TAKE s \in Tasks, v \in Pages
  <2>1. v \in Nat
    BY FreshFacts
  <2>2. CASE s = 1
    <3> DEFINE m == Now
    <3>1. Good(m, pgd) /\ KernelMapped(m.table) /\ m.table = table
      BY <1>1, NowFacts DEF IInv
    <3> HIDE DEF m
    <3>2. entry(table, 0, v) = Spaces!Fresh[v]
      BY <3>1, FreshSpace
    <3>3. Map(table', pgd')[s][v] = entry(table', used + 1, v)
      BY <1>2, <2>2, MapAt DEF Root
    <3>4. QED  BY <1>1, <1>4, <2>1, <2>2, <3>2, <3>3
  <2>3. CASE s # 1
    <3>1. pgd'[s] = pgd[s] /\ Root(pgd', s) = Root(pgd, s)
      BY <1>2, <2>3 DEF Root
    <3>2. s = 0 \/ pgd[s] # 0 => entry(table', Root(pgd, s), v) = entry(table, Root(pgd, s), v)
      BY <1>1, <2>1, LiveFacts
    <3>3. QED  BY <1>4, <2>3, <3>1, <3>2, MapAt
  <2>4. QED  BY <2>2, <2>3
<1>7. Map(table', pgd') = g
  BY <1>4, <1>5, <1>6, MapEqual
<1>8. QED  BY <1>3, <1>7, SpacesActions DEF g

\* A page fault maps one page of one task.
LEMMA FaultSimulates ==
  ASSUME IInv, NEW p \in Pids, NEW v \in UserPages, page_fault(p, v)
  PROVE  Spaces!Map(p, v)
<1>1. PICK f \in Frames, perm \in Perms :
           /\ pgd[p] # 0 /\ pgd' = pgd /\ used' \in Nat /\ used <= used'
           /\ \A s \in Roots(pgd), w \in 0 .. Top - 1 :
                entry(table', s, w) = IF s = pgd[p] /\ w = v THEN [ppn |-> f, perm |-> perm]
                                      ELSE entry(table, s, w)
  BY FaultSound
<1>2. p \in Live(used, pgd) \ {0} /\ Live(used', pgd') = Live(used, pgd)
  <2>1. used > 0 /\ used' > 0
    BY <1>1, LiveFacts
  <2>2. QED  BY <1>1, <2>1, LiveFacts DEF Live
<1> DEFINE e == [ppn |-> f, perm |-> perm]
           g == [Map(table, pgd) EXCEPT ![p][v] = e]
<1>3. p \in Tasks /\ v \in Pages
  BY LiveFacts, FreshFacts
<1>4. /\ g = [s \in Tasks |-> g[s]]
      /\ \A s \in Tasks : g[s] = [w \in Pages |-> g[s][w]]
      /\ \A s \in Tasks, w \in Pages : g[s][w] =
           IF s = p /\ w = v THEN e ELSE Map(table, pgd)[s][w]
  <2> DEFINE h == Map(table, pgd)
  <2>1. h = [s \in Tasks |-> h[s]] /\ \A s \in Tasks : h[s] = [w \in Pages |-> h[s][w]]
    BY MapFacts
  <2> HIDE DEF h, e
  <2>2. QED  BY <1>3, <2>1 DEF h
<1> HIDE DEF g
<1>5. \A s \in Tasks, w \in Pages : g[s][w] = Map(table', pgd')[s][w]
  <2> TAKE s \in Tasks, w \in Pages
  <2>1. Map(table', pgd')[s][w] = IF s # 0 /\ pgd[s] = 0 THEN None ELSE entry(table', Root(pgd, s), w)
    BY <1>1, MapAt
  <2>2. Map(table, pgd)[s][w] = IF s # 0 /\ pgd[s] = 0 THEN None ELSE entry(table, Root(pgd, s), w)
    BY MapAt
  <2>3. s = 0 \/ pgd[s] # 0 =>
          entry(table', Root(pgd, s), w) =
            IF Root(pgd, s) = pgd[p] /\ w = v THEN e ELSE entry(table, Root(pgd, s), w)
    BY <1>1, LiveFacts, FreshFacts
  <2>4. s = 0 \/ pgd[s] # 0 => (Root(pgd, s) = pgd[p] <=> s = p)
    <3>1. PICK nm : Sound(Now, pgd, nm)
      BY DEF IInv, Good
    <3>2. /\ \A q \in Pids : pgd[q] # 0 => nm[pgd[q]].own = q
          /\ s = 0 \/ s \in Pids
      BY <3>1, LiveFacts DEF Sound, Rooted
    <3>3. QED  BY <1>1, <3>2, LiveFacts DEF Root
  <2> HIDE DEF e
  <2>5. QED  BY <1>1, <1>4, <2>1, <2>2, <2>3, <2>4, LiveFacts
<1>6. Map(table', pgd') = g
  BY <1>4, <1>5, MapEqual
<1>7. QED  BY <1>2, <1>6, SpacesActions DEF g

\* do_cow_fork makes the space of the child, and takes W from the parent's.
LEMMA ForkSimulates ==
  ASSUME IInv, NEW p \in Pids, do_cow_fork(p), IInv'
  PROVE  \E c \in Tasks : Spaces!Fork(p, c)
<1>1. PICK c \in Pids :
           /\ pgd[p] # 0 /\ pgd[c] = 0 /\ pgd' = [pgd EXCEPT ![c] = used + 1]
           /\ used' \in Nat /\ used + 1 <= used'
           /\ ForkedUpTo(Memory(table', used'), pgd', p, c, Top)
  BY ForkSound DEF IInv
<1>2. /\ \A s \in Tasks : s # c => pgd'[s] = pgd[s]
      /\ pgd'[c] = used + 1 /\ pgd'[c] # 0 /\ p # c /\ used > 0 /\ used' > 0
      /\ p \in Tasks /\ c \in Tasks /\ p # 0 /\ c # 0
  BY <1>1, LiveFacts
<1>3. /\ p \in Live(used, pgd) \ {0} /\ c \in Tasks \ Live(used, pgd)
      /\ Live(used', pgd') = Live(used, pgd) \cup {c}
  <2>1. p \in Live(used, pgd) \ {0} /\ c \in Tasks \ Live(used, pgd)
    BY <1>1, <1>2, LiveFacts
  <2>2. \A q \in Pids : pgd'[q] # 0 <=> q = c \/ pgd[q] # 0
    BY <1>2, LiveFacts
  <2>3. QED  BY <1>1, <1>2, <2>1, <2>2 DEF Live
<1> DEFINE h == Map(table, pgd)
           shared == [v \in DOMAIN Spaces!Fresh |->
                        IF v \in UserPages THEN Spaces!ReadOnly(h[p][v]) ELSE h[p][v]]
           g == [h EXCEPT ![p] = shared, ![c] = shared]
<1>4. h = [s \in Tasks |-> h[s]] /\ \A s \in Tasks : h[s] = [v \in Pages |-> h[s][v]]
  BY MapFacts
<1>5. /\ shared = [v \in Pages |-> shared[v]]
      /\ \A v \in Pages : shared[v] =
           IF v \in UserPages THEN Spaces!ReadOnly(h[p][v]) ELSE h[p][v]
  BY FreshFacts
<1> HIDE DEF h, shared
<1>6. /\ g = [s \in Tasks |-> g[s]] /\ g[p] = shared /\ g[c] = shared
      /\ \A s \in Tasks : s # p /\ s # c => g[s] = h[s]
  BY <1>2, <1>4
<1> HIDE DEF g
<1>7. \A s \in Tasks : g[s] = [v \in Pages |-> g[s][v]]
  BY <1>4, <1>5, <1>6
<1>8. \A s \in Tasks, v \in Pages : g[s][v] = Map(table', pgd')[s][v]
  <2> TAKE s \in Tasks, v \in Pages
  <2> DEFINE r  == Root(pgd', s)
             o  == entry(table, pgd[p], v)
             rt == pgd'
             M  == Memory(table', used')
  <2>1. v \in 0 .. Top - 1 /\ v \in Nat /\ v < Top
    BY FreshFacts, Sizes
  <2>2. h[p][v] = o
    BY <1>1, <1>2, MapAt DEF h, Root
  <2>3. Map(table', pgd')[s][v] = IF s # 0 /\ pgd'[s] = 0 THEN None ELSE entry(table', r, v)
    BY MapAt
  <2>4. PICK nm : Sound(Now', pgd', nm)
    BY DEF IInv, Good
  <2>5. /\ s = 0 \/ s \in Pids
        /\ s = 0 \/ rt[s] # 0 => /\ r \in Roots(rt)
                                 /\ r = rt[p] <=> s = p
                                 /\ r = rt[c] <=> s = c
    <3>1. \A q \in Pids : rt[q] # 0 => nm[rt[q]].own = q
      BY <2>4 DEF Sound, Rooted
    <3>2. s = 0 \/ s \in Pids
      BY LiveFacts
    <3>3. rt[p] # 0 /\ rt[c] # 0
      BY <1>1, <1>2
    <3> HIDE DEF rt
    <3>4. Root(rt, s) \in Roots(rt)
      BY <3>2 DEF Roots, Root
    <3>5. r = Root(rt, s)
      BY DEF rt
    <3> HIDE DEF r
    <3>6. QED  BY <1>2, <3>1, <3>2, <3>3, <3>4, <3>5 DEF Root
  <2>6. ForkedUpTo(M, rt, p, c, Top) /\ M.table = table'
    BY <1>1 DEF Memory
  <2>7. rt[p] = pgd[p] /\ (s # c => r = Root(pgd, s) /\ rt[s] = pgd[s])
    BY <1>2 DEF Root
  <2>8. rt[c] # 0
    BY <1>2
  <2> HIDE DEF rt, M, r
  <2>9. s = 0 \/ rt[s] # 0 =>
          entry(table', r, v) =
            CASE v \in UserPages /\ s = p -> Spaces!ReadOnly(o)
              [] v \in UserPages /\ s = c -> Spaces!ReadOnly(o)
              [] OTHER -> entry(table, IF s = c THEN 0 ELSE r, v)
    <3> SUFFICES ASSUME s = 0 \/ rt[s] # 0
                 PROVE  entry(table', r, v) =
                          CASE v \in UserPages /\ s = p -> Spaces!ReadOnly(o)
                            [] v \in UserPages /\ s = c -> Spaces!ReadOnly(o)
                            [] OTHER -> entry(table, IF s = c THEN 0 ELSE r, v)
      OBVIOUS
    <3>1. r \in Roots(rt) /\ (r = rt[p] <=> s = p) /\ (r = rt[c] <=> s = c)
      BY <2>5
    <3>2. entry(M.table, r, v) =
            CASE v \in UserPages /\ r = rt[p] ->
                   IF v < Top THEN Spaces!ReadOnly(entry(table, pgd[p], v)) ELSE entry(table, pgd[p], v)
              [] v \in UserPages /\ r = rt[c] ->
                   IF v < Top THEN Spaces!ReadOnly(entry(table, pgd[p], v)) ELSE None
              [] OTHER -> entry(table, IF r = rt[c] THEN 0 ELSE r, v)
      BY <2>1, <2>6, <3>1 DEF ForkedUpTo
    <3>3. QED  BY <1>2, <2>1, <2>6, <3>1, <3>2
  <2>10. v \notin UserPages => entry(table, 0, v) = o
    <3> DEFINE m == Now
    <3>1. Good(m, pgd) /\ m.table = table /\ pgd[p] \in Roots(pgd)
      BY NowFacts DEF IInv, Roots
    <3> HIDE DEF m
    <3>2. v \notin UserPages => VPN(v, 2) \notin UserTop
      BY FreshFacts
    <3>3. QED  BY <2>1, <3>1, <3>2, KernelAlike
  <2>11. CASE s = p
    <3>1. Map(table', pgd')[s][v] = IF v \in UserPages THEN Spaces!ReadOnly(o) ELSE o
      BY <1>1, <1>2, <2>3, <2>7, <2>9, <2>11 DEF rt, Root
    <3>2. QED  BY <1>5, <1>6, <2>2, <2>11, <3>1
  <2>12. CASE s = c
    <3>1. Map(table', pgd')[s][v] = IF v \in UserPages THEN Spaces!ReadOnly(o) ELSE o
      BY <1>2, <2>3, <2>8, <2>9, <2>10, <2>12 DEF rt
    <3>2. QED  BY <1>5, <1>6, <2>2, <2>12, <3>1
  <2>13. CASE s # p /\ s # c
    <3>1. h[s][v] = IF s # 0 /\ pgd[s] = 0 THEN None ELSE entry(table, Root(pgd, s), v)
      BY MapAt DEF h
    <3>2. s = 0 \/ rt[s] # 0 => entry(table', r, v) = entry(table, r, v)
      BY <2>9, <2>13
    <3>3. QED  BY <1>6, <2>3, <2>7, <2>13, <3>1, <3>2 DEF rt
  <2>14. QED  BY <2>11, <2>12, <2>13
<1>9. Map(table', pgd') = g
  BY <1>6, <1>7, <1>8, MapEqual
<1>10. Spaces!Fork(p, c)
  <2>1. Map(table', pgd') = [Map(table, pgd) EXCEPT
          ![p] = [v \in DOMAIN Spaces!Fresh |->
                    IF v \in UserPages THEN Spaces!ReadOnly(Map(table, pgd)[p][v]) ELSE Map(table, pgd)[p][v]],
          ![c] = [v \in DOMAIN Spaces!Fresh |->
                    IF v \in UserPages THEN Spaces!ReadOnly(Map(table, pgd)[p][v]) ELSE Map(table, pgd)[p][v]]]
    BY <1>9 DEF g, shared, h
  <2>2. QED  BY <1>3, <2>1, SpacesActions
<1>11. QED  BY <1>2, <1>10

\* The tables implement the address spaces: mapping a page changes one
\* translation of one task, the kernel is mapped alike for all, and a fork
\* copies what the parent has.
THEOREM TablesImplementAddressSpaces == BootSpec => ImplementsAddressSpaces
<1>1. BootInit => Spaces!Init
  <2> SUFFICES ASSUME BootInit  PROVE  Spaces!Init
    OBVIOUS
  <2>1. IInv /\ used = 0 /\ \A p \in Pids : pgd[p] = 0
    BY IInvInit DEF BootInit, Init
  <2>2. Live(used, pgd) = {}
    BY <2>1 DEF Live
  <2> DEFINE g == [s \in Tasks |-> Spaces!NoSpace]
  <2>3. Spaces!NoSpace = [v \in Pages |-> None]
    BY DEF Spaces!NoSpace, Pages
  <2>4. /\ g = [s \in Tasks |-> g[s]] /\ \A s \in Tasks : g[s] = [v \in Pages |-> g[s][v]]
        /\ \A s \in Tasks, v \in Pages : g[s][v] = None
    BY <2>3
  <2> HIDE DEF g
  <2>5. \A w \in Nat : entry(table, 0, w) = None
    <3> DEFINE m == Now
    <3>1. Good(m, pgd) /\ m.used = 0 /\ m.table = table
      BY <2>1, NowFacts DEF IInv
    <3> HIDE DEF m
    <3>2. QED  BY <3>1, NothingMapped
  <2>6. \A s \in Tasks, v \in Pages : g[s][v] = Map(table, pgd)[s][v]
    <3> TAKE s \in Tasks, v \in Pages
    <3>1. v \in Nat /\ (s = 0 \/ s \in Pids)
      BY <2>1, FreshFacts, LiveFacts
    <3>2. QED  BY <2>1, <2>4, <2>5, <3>1, MapAt DEF Root
  <2>7. Map(table, pgd) = g
    BY <2>4, <2>6, MapEqual
  <2>8. QED  BY <2>2, <2>7, SpacesActions DEF g
<1>2. IInv /\ IInv' /\ [BootNext]_bootvars => [Spaces!Next]_Spaces!vars
  <2> SUFFICES ASSUME IInv, IInv', [BootNext]_bootvars
               PROVE  Spaces!Next \/ Spaces!vars' = Spaces!vars
    OBVIOUS
  <2>1. CASE setup_vm_final
    BY <2>1, SetupSimulates, SpacesActions, LiveFacts
  <2>2. CASE task_init
    <3>1. Spaces!Create(1) /\ 1 \in Tasks
      BY <2>2, FirstSimulates, FirstSound, LiveFacts
    <3>2. QED  BY <3>1, SpacesActions
  <2>3. CASE \E p \in Pids : \E v \in UserPages : page_fault(p, v)
    <3>1. PICK p \in Pids, v \in UserPages : page_fault(p, v)
      BY <2>3
    <3>2. Spaces!Map(p, v) /\ p \in Tasks
      BY <3>1, FaultSimulates, LiveFacts
    <3>3. QED  BY <3>2, SpacesActions
  <2>4. CASE \E p \in Pids : do_cow_fork(p)
    <3>1. PICK p \in Pids : do_cow_fork(p)
      BY <2>4
    <3>2. (\E c \in Tasks : Spaces!Fork(p, c)) /\ p \in Tasks
      BY <3>1, ForkSimulates, LiveFacts
    <3>3. QED  BY <3>2, SpacesActions
  <2>5. CASE UNCHANGED vars
    BY <2>5, SpacesActions DEF vars
  <2>6. QED  BY <2>1, <2>2, <2>3, <2>4, <2>5, BootIsTables
<1>3. QED  BY <1>1, <1>2, TablesInvariant, PTL DEF BootSpec, ImplementsAddressSpaces, Spaces!Spec

-----------------------------------------------------------------------------
\* The hart from reset on.
Moved == {a + PA2VA_OFFSET : a \in StackPages}

Giga == [ppn |-> (PHY_START \div GIGA) * GIGA, perm |-> {"R", "W", "X"}]

\* Where the hart is at each step of _start, and what it translates with: no
\* table, early_pgtbl with the kernel in two places, or a root that has the
\* kernel's translations.
HartInv ==
  /\ at \in {"setup_vm", "relocate", "ret", "setup_vm_final", "task_init", "start_kernel"}
  /\ at = "setup_vm" => early_pgtbl = Empty
  /\ at \in {"setup_vm", "relocate"} => satp = Bare /\ pc = TextPage /\ sp \in StackPages
  /\ at \in {"relocate", "ret", "setup_vm_final"} =>
       early_pgtbl[VPN(PHY_START, 2)] = Giga /\ early_pgtbl[VPN(VM_START, 2)] = Giga
  /\ at = "ret" => satp = Early /\ pc = TextPage /\ sp \in Moved
  /\ at = "setup_vm_final" => satp = Early /\ pc = TextPage + PA2VA_OFFSET /\ sp \in Moved
  /\ at \in {"task_init", "start_kernel"} =>
       satp \in Roots(pgd) /\ pc = TextPage + PA2VA_OFFSET /\ sp \in Moved /\ KernelMapped(table)
  /\ stvec = IF at = "start_kernel" THEN TextPage + PA2VA_OFFSET ELSE None

\* Addresses of the kernel, where it is loaded and where it is linked.
LEMMA KernelPlaces ==
  /\ GIGA \in Nat \ {0} /\ PA2VA_OFFSET \in Nat
  /\ \A a \in {TextPage} \cup StackPages :
       /\ a \in 0 .. Top - 1 /\ a + PA2VA_OFFSET \in 0 .. Top - 1
       /\ a \in Nat /\ a + PA2VA_OFFSET \in Nat
       /\ a < VM_START /\ ~ (a + PA2VA_OFFSET < VM_START) /\ a + PA2VA_OFFSET - PA2VA_OFFSET = a
       /\ VPN(a, 2) = VPN(PHY_START, 2) /\ VPN(a + PA2VA_OFFSET, 2) = VPN(VM_START, 2)
       /\ (PHY_START \div GIGA) * GIGA + (a % GIGA) = a
       /\ (PHY_START \div GIGA) * GIGA + ((a + PA2VA_OFFSET) % GIGA) = a
<1> DEFINE G == GIGA
           p == PHY_START \div G
           v == VM_START \div G
<1>1. G \in Nat \ {0} /\ G = Fanout * Fanout
  BY Sizes DEF GIGA
<1>2. PHY_START \in Nat /\ VM_START \in Nat /\ PHY_START < VM_START /\ Top \in Nat
  BY BootAssumption, Sizes
<1>3. \A x \in Nat : x % G = 0 => x \div G \in Nat /\ x = G * (x \div G)
  <2> HIDE DEF G
  <2>1. \A x \in Nat : x \div G \in Nat /\ x = G * (x \div G) + (x % G)
    BY <1>1
  <2>2. QED  BY <1>1, <2>1
<1>4. p \in Nat /\ v \in Nat /\ PHY_START = G * p /\ VM_START = G * v
  BY <1>2, <1>3, BootAssumption
<1> HIDE DEF p, v, G
<1>5. PHY_START + G <= VM_START
  <2>1. p + 1 <= v
    <3> SUFFICES ASSUME v <= p  PROVE  FALSE
      BY <1>4
    <3>1. G * v <= G * p
      BY <1>1, <1>4, MulMonotone
    <3>2. QED  BY <1>2, <1>4, <3>1
  <2>2. G * (p + 1) <= G * v
    BY <1>1, <1>4, <2>1, MulMonotone
  <2>3. G * (p + 1) = G * p + G
    BY <1>1, <1>4
  <2>4. QED  BY <1>4, <2>2, <2>3
<1>6. PA2VA_OFFSET \in Nat /\ PA2VA_OFFSET = VM_START - PHY_START
  BY <1>2 DEF PA2VA_OFFSET
<1>7. VM_START + G <= Top
  BY LayoutAssumption DEF G
<1>8. \A x, y \in Nat : x \div G = y \div G => VPN(x, 2) = VPN(y, 2)
  BY <1>1 DEF VPN
<1>9. ASSUME NEW a \in {TextPage} \cup StackPages
      PROVE  /\ a \in 0 .. Top - 1 /\ a + PA2VA_OFFSET \in 0 .. Top - 1
             /\ a \in Nat /\ a + PA2VA_OFFSET \in Nat
             /\ a < VM_START /\ ~ (a + PA2VA_OFFSET < VM_START) /\ a + PA2VA_OFFSET - PA2VA_OFFSET = a
             /\ VPN(a, 2) = VPN(PHY_START, 2) /\ VPN(a + PA2VA_OFFSET, 2) = VPN(VM_START, 2)
             /\ p * G + (a % G) = a
             /\ p * G + ((a + PA2VA_OFFSET) % G) = a
  <2> DEFINE r == a - PHY_START
  <2>1. a \in PHY_START .. PHY_START + G - 1
    BY BootAssumption DEF G
  <2>2. r \in 0 .. G - 1 /\ a = PHY_START + r /\ a + PA2VA_OFFSET = VM_START + r /\ a \in Nat
    BY <1>1, <1>2, <1>6, <2>1
  <2> HIDE DEF r
  <2>3. a \div G = p /\ a % G = r
    <3>1. (G * p + r) \div G = p /\ (G * p + r) % G = r
      BY <1>1, <1>4, <2>2, DivUnique
    <3>2. a = G * p + r
      BY <1>4, <2>2
    <3>3. QED  BY <3>1, <3>2
  <2>4. (a + PA2VA_OFFSET) \div G = v /\ (a + PA2VA_OFFSET) % G = r
    <3>1. (G * v + r) \div G = v /\ (G * v + r) % G = r
      BY <1>1, <1>4, <2>2, DivUnique
    <3>2. a + PA2VA_OFFSET = G * v + r
      BY <1>4, <2>2
    <3>3. QED  BY <3>1, <3>2
  <2>5. VPN(a, 2) = VPN(PHY_START, 2) /\ VPN(a + PA2VA_OFFSET, 2) = VPN(VM_START, 2)
    BY <1>2, <1>6, <1>8, <2>2, <2>3, <2>4 DEF p, v
  <2>6. p * G = PHY_START
    BY <1>1, <1>4
  <2>7. QED  BY <1>1, <1>2, <1>5, <1>6, <1>7, <2>2, <2>3, <2>4, <2>5, <2>6
<1>10. QED  BY <1>1, <1>6, <1>9 DEF G, p

\* What the hart sees in each state.
LEMMA HartIsMapped ==
  ASSUME IInv, HartInv
  PROVE  HartMapped
<1>1. TextPage \in {TextPage} \cup StackPages /\ StackPages \subseteq {TextPage} \cup StackPages
  OBVIOUS
<1>2. Bare # Early
  BY BootAssumption
<1>3. ASSUME at \in {"setup_vm", "relocate"}, NEW a \in {TextPage} \cup StackPages
      PROVE  Reaches(a, {"R", "W", "X"}, a)
  <2>1. walk(a) = [ppn |-> a, perm |-> {"R", "W", "X"}]
    <3>1. satp = Bare
      BY <1>3 DEF HartInv
    <3>2. QED  BY <1>2, <3>1 DEF walk
  <2>2. a \in Nat /\ a \in 0 .. Top - 1
    BY KernelPlaces
  <2>3. walk(a) # None
    BY <2>1, <2>2, EntryFacts
  <2>4. QED  BY <2>1, <2>2, <2>3 DEF Reaches
<1>4. ASSUME at \in {"ret", "setup_vm_final"}, NEW a \in {TextPage} \cup StackPages
      PROVE  Reaches(a, {"R", "W", "X"}, a) /\ Reaches(a + PA2VA_OFFSET, {"R", "W", "X"}, a)
  <2>1. /\ satp = Early
        /\ early_pgtbl[VPN(a, 2)] = Giga /\ early_pgtbl[VPN(a + PA2VA_OFFSET, 2)] = Giga
    BY <1>4, KernelPlaces DEF HartInv
  <2>2. Giga # None
    <3>1. (PHY_START \div GIGA) * GIGA \in Nat
      BY BootAssumption, KernelPlaces, DivBounds
    <3>2. QED  BY <3>1, EntryFacts DEF Giga
  <2>3. /\ walk(a) = [Giga EXCEPT !.ppn = @ + (a % GIGA)]
        /\ walk(a + PA2VA_OFFSET) = [Giga EXCEPT !.ppn = @ + ((a + PA2VA_OFFSET) % GIGA)]
    BY <1>2, <2>1, <2>2 DEF walk
  <2>4. walk(a) = [ppn |-> a, perm |-> {"R", "W", "X"}]
        /\ walk(a + PA2VA_OFFSET) = [ppn |-> a, perm |-> {"R", "W", "X"}]
    BY <2>3, KernelPlaces DEF Giga
  <2>5. walk(a) # None /\ walk(a + PA2VA_OFFSET) # None
    BY <2>4, KernelPlaces, EntryFacts
  <2>6. QED  BY <2>4, <2>5, KernelPlaces DEF Reaches
<1>5. ASSUME at \in {"task_init", "start_kernel"}
      PROVE  /\ Reaches(TextPage + PA2VA_OFFSET, {"X"}, TextPage)
             /\ \A a \in StackPages : Reaches(a + PA2VA_OFFSET, {"R", "W"}, a)
  <2>1. satp \in Roots(pgd) /\ KernelMapped(table)
    BY <1>5 DEF HartInv
  <2>2. satp # Bare /\ satp # Early
    <3>1. PICK nm : Sound(Now, pgd, nm)
      BY DEF IInv, Good
    <3>2. satp \in Tables
      BY <2>1, <3>1, RootName
    <3>3. QED  BY <3>2, BootAssumption
  <2>3. ASSUME NEW w \in DOMAIN KernelMap  PROVE  walk(w) = KernelMap[w] /\ walk(w) # None
    <3> DEFINE m == Now
    <3>1. Good(m, pgd) /\ m.table = table
      BY NowFacts DEF IInv
    <3> HIDE DEF m
    <3>2. entry(table, satp, w) = KernelMap[w]
      BY <2>1, <3>1, PageFacts, KernelAlike DEF KernelMapped
    <3>3. walk(w) = entry(table, satp, w)
      BY <2>2 DEF walk
    <3>4. KernelMap[w] # None
      <4>1. PICK i \in DOMAIN Regions : w \in Area(i) /\ KernelMap[w] = Translation(i, w)
        BY LastRegion
      <4>2. /\ Regions[i].va \in Nat /\ Regions[i].pa \in Nat /\ Regions[i].n \in Nat
            /\ Regions[i].perm \in SUBSET {"R", "W", "X"}
        BY RegionFacts
      <4>3. Regions[i].pa + w - Regions[i].va \in Nat
        BY <4>1, <4>2 DEF Area
      <4>4. QED  BY <4>1, <4>2, <4>3, EntryFacts DEF Translation
    <3>5. QED  BY <3>2, <3>3, <3>4
  <2>4. QED  BY <2>3, LayoutAssumption, KernelPlaces DEF Reaches
<1>6. CASE at \in {"setup_vm", "relocate"}
  <2>1. pc = TextPage /\ sp \in StackPages /\ stvec = None
    BY <1>6 DEF HartInv
  <2>2. home(sp) = sp
    BY <2>1, KernelPlaces DEF home
  <2>3. QED  BY <1>3, <1>6, <2>1, <2>2 DEF HartMapped, Reaches
<1>7. ASSUME sp \in Moved
      PROVE  \E a \in StackPages : sp = a + PA2VA_OFFSET /\ home(sp) = a
  <2>1. PICK a \in StackPages : sp = a + PA2VA_OFFSET
    BY <1>7 DEF Moved
  <2>2. QED  BY <2>1, KernelPlaces DEF home
<1>8. CASE at \in {"ret", "setup_vm_final"}
  <2>1. /\ pc = TextPage \/ pc = TextPage + PA2VA_OFFSET
        /\ sp \in Moved /\ stvec = None
    BY <1>8 DEF HartInv
  <2>2. PICK a \in StackPages : sp = a + PA2VA_OFFSET /\ home(sp) = a
    BY <1>7, <2>1
  <2>3. QED  BY <1>4, <1>8, <2>1, <2>2 DEF HartMapped, Reaches
<1>9. CASE at \in {"task_init", "start_kernel"}
  <2>1. /\ pc = TextPage + PA2VA_OFFSET /\ sp \in Moved
        /\ stvec # None => stvec = TextPage + PA2VA_OFFSET
    BY <1>9 DEF HartInv
  <2>2. PICK a \in StackPages : sp = a + PA2VA_OFFSET /\ home(sp) = a
    BY <1>7, <2>1
  <2>3. QED  BY <1>5, <1>9, <2>1, <2>2 DEF HartMapped
<1>10. QED  BY <1>6, <1>8, <1>9 DEF HartInv

LEMMA HartInit == BootInit => HartInv
<1> SUFFICES ASSUME BootInit  PROVE  HartInv
  OBVIOUS
<1>1. QED  BY DEF BootInit, HartInv

LEMMA HartStep ==
  ASSUME IInv, HartInv, [BootNext]_bootvars, IInv'
  PROVE  HartInv'
<1>1. CASE UNCHANGED bootvars
  BY <1>1 DEF bootvars, vars, hart, HartInv
<1>2. CASE setup_vm
  <2>1. /\ at = "setup_vm" /\ at' = "relocate" /\ early_pgtbl' = early_map(Giga)
        /\ satp' = satp /\ pc' = pc /\ sp' = sp /\ stvec' = stvec
    BY <1>2 DEF setup_vm, Giga
  <2>2. VPN(PHY_START, 2) \in Idx /\ VPN(VM_START, 2) \in Idx
    BY BootAssumption, VpnType
  <2>3. early_pgtbl \in [Idx -> Entry]
    BY <2>1, EntryFacts DEF HartInv
  <2>4. early_pgtbl'[VPN(PHY_START, 2)] = Giga /\ early_pgtbl'[VPN(VM_START, 2)] = Giga
    BY <2>1, <2>2, <2>3 DEF early_map
  <2>5. QED  BY <2>1, <2>4 DEF HartInv
<1>3. CASE relocate
  <2>1. /\ at = "relocate" /\ at' = "ret" /\ satp' = Early /\ sp' = sp + PA2VA_OFFSET
        /\ early_pgtbl' = early_pgtbl /\ pc' = pc /\ stvec' = stvec
    BY <1>3 DEF relocate, moved
  <2>2. sp' \in Moved
    BY <2>1 DEF HartInv, Moved
  <2>3. QED  BY <2>1, <2>2 DEF HartInv
<1>4. CASE Ret
  <2>1. /\ at = "ret" /\ at' = "setup_vm_final" /\ pc' = pc + PA2VA_OFFSET
        /\ early_pgtbl' = early_pgtbl /\ satp' = satp /\ sp' = sp /\ stvec' = stvec
    BY <1>4 DEF Ret
  <2>2. QED  BY <2>1 DEF HartInv
<1>5. CASE Final
  <2>1. /\ at = "setup_vm_final" /\ at' = "task_init" /\ satp' = 0 /\ setup_vm_final
        /\ pc' = pc /\ sp' = sp /\ stvec' = stvec
    BY <1>5 DEF Final, swapper_pg_dir
  <2>2. KernelMapped(table')
    BY <2>1, SetupSound DEF IInv
  <2>3. satp' \in Roots(pgd')
    BY <2>1 DEF Roots
  <2>4. QED  BY <2>1, <2>2, <2>3 DEF HartInv
<1>6. CASE Enable
  <2>1. /\ at = "task_init" /\ at' = "start_kernel" /\ stvec' = pc /\ task_init
        /\ satp' = satp /\ pc' = pc /\ sp' = sp
    BY <1>6 DEF Enable
  <2>2. KernelMapped(table')
    BY <2>1, FirstSound DEF IInv
  <2>3. satp' \in Roots(pgd')
    <3>1. satp = 0 \/ \E p \in Pids : pgd[p] # 0 /\ satp = pgd[p]
      BY <2>1 DEF HartInv, Roots
    <3>2. \A p \in Pids : pgd[p] # 0 => pgd'[p] = pgd[p]
      BY <2>1, FirstSound, LiveFacts
    <3>3. QED  BY <2>1, <3>1, <3>2 DEF Roots
  <2>4. QED  BY <2>1, <2>2, <2>3 DEF HartInv
<1>7. ASSUME Booted, pgd' = pgd \/ \A p \in Pids : pgd[p] # 0 => pgd'[p] = pgd[p],
             satp' = satp, sp' = sp, used' > 0
      PROVE  HartInv'
  <2>1. KernelMapped(table')
    BY <1>7 DEF IInv
  <2>2. /\ at = "start_kernel" /\ at' = at /\ pc' = pc /\ stvec' = stvec
        /\ early_pgtbl' = early_pgtbl
    BY <1>7 DEF Booted
  <2>3. satp' \in Roots(pgd')
    <3>1. satp = 0 \/ \E p \in Pids : pgd[p] # 0 /\ satp = pgd[p]
      BY <2>2 DEF HartInv, Roots
    <3>2. \A p \in Pids : pgd[p] # 0 => pgd'[p] = pgd[p]
      BY <1>7
    <3>3. QED  BY <1>7, <3>1, <3>2 DEF Roots
  <2>4. QED  BY <1>7, <2>1, <2>2, <2>3 DEF HartInv
<1>8. ASSUME NEW p \in Pids, Switch(p)  PROVE  HartInv'
  <2>1. /\ at = "start_kernel" /\ at' = at /\ pc' = pc /\ stvec' = stvec
        /\ early_pgtbl' = early_pgtbl /\ satp' = pgd[p] /\ sp' \in Moved
        /\ pgd' = pgd /\ table' = table
    BY <1>8 DEF Switch, Booted, Moved, vars
  <2>2. satp' \in Roots(pgd')
    BY <2>1 DEF Roots
  <2>3. QED  BY <2>1, <2>2 DEF HartInv
<1>9. ASSUME NEW p \in Pids, Fault(p)  PROVE  HartInv'
  <2>1. PICK v \in UserPages : page_fault(p, v)
    BY <1>9 DEF Fault
  <2>2. pgd[p] # 0 /\ pgd' = pgd /\ used' \in Nat /\ used <= used'
    BY <2>1, FaultSound
  <2>3. used' > 0
    BY <2>2, LiveFacts
  <2>4. QED  BY <1>7, <1>9, <2>2, <2>3 DEF Fault
<1>10. ASSUME NEW p \in Pids, Fork(p)  PROVE  HartInv'
  <2>1. PICK c \in Pids :
          /\ pgd[p] # 0 /\ pgd[c] = 0 /\ pgd' = [pgd EXCEPT ![c] = used + 1]
          /\ used' \in Nat /\ used + 1 <= used'
    BY <1>10, ForkSound DEF Fork, IInv
  <2>2. used' > 0 /\ \A q \in Pids : pgd[q] # 0 => pgd'[q] = pgd[q]
    BY <2>1, LiveFacts
  <2>3. QED  BY <1>7, <1>10, <2>2 DEF Fork
<1>11. QED  BY <1>1, <1>2, <1>3, <1>4, <1>5, <1>6, <1>8, <1>9, <1>10 DEF BootNext

\* From reset on, in the middle of relocate and after every write of satp, the
\* hart fetches the kernel's code, its stack is where it was and is writable,
\* and the trap handler is there.
THEOREM HartStaysMapped == BootSpec => []HartMapped
<1>1. BootInit => IInv /\ HartInv
  BY IInvInit, HartInit DEF BootInit
<1>2. (IInv /\ HartInv) /\ [BootNext]_bootvars => (IInv /\ HartInv)'
  BY IInvStep, HartStep
<1>3. IInv /\ HartInv => HartMapped
  BY HartIsMapped
<1>4. QED  BY <1>1, <1>2, <1>3, PTL DEF BootSpec

=============================================================================
