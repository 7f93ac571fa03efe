----------------------------- MODULE CowProofs ------------------------------
(***************************************************************************)
(* Proofs about CowMemory, for every program, every list of areas, every   *)
(* number of tasks and every size of memory; and, at the end, about        *)
(* EagerFork: with either implementation of fork built in, or both, memory *)
(* is as it is with copy-on-write alone.                                   *)
(***************************************************************************)
EXTENDS EagerFork, ProofBasics, SequenceTheorems

-----------------------------------------------------------------------------
\* Facts about sets and about page accounting.

LEMMA Finiteness ==
  /\ IsFiniteSet(Pids) /\ IsFiniteSet(Frames) /\ IsFiniteSet(Pages) /\ IsFiniteSet(Vmas)
  /\ Cardinality(Frames) = NPages /\ Cardinality(Vmas) = Len(mmap)
  /\ Pages \subseteq Nat /\ Len(mmap) \in Nat
<1>1. IsFiniteSet(Pids) /\ IsFiniteSet(Frames) /\ Cardinality(Frames) = NPages
  BY SizeAssumption, FS_Interval DEF Pids, Frames
<1>2. Vmas = 1 .. Len(mmap) /\ Len(mmap) \in Nat
  BY ProgramAssumption DEF Vmas
<1>3. IsFiniteSet(Vmas) /\ Cardinality(Vmas) = Len(mmap)
  <2>1. 1 \in Int /\ Len(mmap) \in Int
    BY <1>2
  <2>2. IsFiniteSet(1 .. Len(mmap))
    BY <2>1, FS_Interval
  <2>3. Cardinality(1 .. Len(mmap)) = IF 1 > Len(mmap) THEN 0 ELSE Len(mmap) - 1 + 1
    BY <2>1, FS_Interval
  <2>4. QED  BY <1>2, <2>2, <2>3
<1>4. IsFiniteSet(Pages)
  <2> DEFINE page == [x \in Program |-> PageOf(x.addr)]
  <2>1. page \in [Program -> Pages] /\ \A v \in Pages : \E x \in Program : page[x] = v
    BY DEF Pages
  <2>2. QED  BY <2>1, FiniteImage, ProgramAssumption
<1>5. Pages \subseteq Nat
  <2>1. \A x \in Program : x.addr \in Nat
    BY ProgramAssumption
  <2>2. \A a \in Nat : a \div PGSIZE \in Nat
    BY SizeAssumption
  <2>3. QED  BY <2>1, <2>2 DEF Pages, PageOf
<1>6. QED  BY <1>1, <1>2, <1>3, <1>4, <1>5

LEMMA FiniteTables ==
  ASSUME NEW V \in SUBSET Pages
  PROVE  IsFiniteSet(UNION {tables(v) : v \in V})
<1>1. IsFiniteSet(V)
  BY Finiteness, FS_Subset
<1> DEFINE T1 == {<<1, v \div (Fanout * Fanout)>> : v \in V}
           T0 == {<<0, v \div Fanout>> : v \in V}
           f1 == [v \in V |-> <<1, v \div (Fanout * Fanout)>>]
           f0 == [v \in V |-> <<0, v \div Fanout>>]
<1>2. IsFiniteSet(T1)
  <2>1. f1 \in [V -> T1] /\ \A y \in T1 : \E x \in V : f1[x] = y
    OBVIOUS
  <2> HIDE DEF f1, T1
  <2>2. QED  BY <1>1, <2>1, FiniteImage
<1>3. IsFiniteSet(T0)
  <2>1. f0 \in [V -> T0] /\ \A y \in T0 : \E x \in V : f0[x] = y
    OBVIOUS
  <2> HIDE DEF f0, T0
  <2>2. QED  BY <1>1, <2>1, FiniteImage
<1>4. UNION {tables(v) : v \in V} = T1 \cup T0
  BY DEF tables
<1> HIDE DEF T1, T0
<1>5. IsFiniteSet(T1 \cup T0)
  BY <1>2, <1>3, FS_Union
<1>6. QED  BY <1>4, <1>5

\* The pages taken for task structures and tables are a number.
LEMMA KernelPagesNat ==
  ASSUME TypeOK
  PROVE  KernelPages \in Nat /\ KernelPages >= 2
<1> DEFINE All == UNION {tables(v) : v \in Pages}
           Used == UNION {{p} \X TablesOf(pgd[p]) : p \in 1 .. tasks_number}
<1>1. tasks_number \in Nat /\ tasks_number >= 1 /\ 1 .. tasks_number \subseteq Pids
  BY SizeAssumption DEF TypeOK, Pids
<1>2. \A p \in 1 .. tasks_number : TablesOf(pgd[p]) \subseteq All
  BY DEF TablesOf
<1>3. Used \subseteq Pids \X All
  <2> HIDE DEF All
  <2>1. QED  BY <1>1, <1>2
<1>4. IsFiniteSet(Pids \X All)
  BY Finiteness, FiniteTables, FS_Product
<1>5. IsFiniteSet(Used)
  <2> HIDE DEF Used, All
  <2>1. QED  BY <1>3, <1>4, FS_Subset
<1>6. Cardinality(Used) \in Nat
  BY <1>5, FS_CardinalityType
<1>7. KernelPages = 2 * tasks_number + Cardinality(Used)
  BY DEF KernelPages
<1> HIDE DEF Used, All
<1>8. QED  BY <1>1, <1>6, <1>7

\* A request that memory has room for finds as many pages nobody refers to.
LEMMA RoomLeavesFrames ==
  ASSUME TypeOK, NEW n \in Nat, Room(n)
  PROVE  /\ Cardinality({f \in Frames : ref_cnt[f] = 0}) >= n
         /\ lost + n <= NPages
         /\ \E f \in Frames : ref_cnt[f] = 0
<1> DEFINE InUse == {f \in Frames : ref_cnt[f] > 0}
           Free  == {f \in Frames : ref_cnt[f] = 0}
<1>1. IsFiniteSet(InUse) /\ IsFiniteSet(Free)
  BY Finiteness, FS_Subset
<1>2. Frames = InUse \cup Free /\ InUse \cap Free = {}
  <2>1. \A f \in Frames : ref_cnt[f] \in Nat
    BY Finiteness, SizeAssumption DEF TypeOK
  <2>2. QED  BY <2>1
<1>3. Cardinality(InUse) \in Nat /\ Cardinality(Free) \in Nat
  BY <1>1, FS_CardinalityType
<1>4. NPages = Cardinality(InUse) + Cardinality(Free)
  <2> HIDE DEF InUse, Free
  <2>1. Cardinality(InUse \cap Free) = 0
    BY <1>2, FS_EmptySet
  <2>2. Cardinality(InUse \cup Free)
          = Cardinality(InUse) + Cardinality(Free) - Cardinality(InUse \cap Free)
    BY <1>1, FS_Union
  <2>3. Cardinality(InUse \cup Free) = NPages
    BY <1>2, Finiteness
  <2>4. QED  BY <1>3, <2>1, <2>2, <2>3
<1>5. KernelPages + Cardinality(InUse) + lost + n <= NPages
  BY DEF Room, PagesInUse
<1>6. lost \in Nat /\ KernelPages \in Nat /\ KernelPages >= 2 /\ NPages \in Nat
  BY KernelPagesNat, SizeAssumption DEF TypeOK
<1> HIDE DEF InUse, Free
<1>7. Cardinality(Free) >= n /\ Cardinality(Free) # 0 /\ lost + n <= NPages
  BY <1>3, <1>4, <1>5, <1>6
<1>8. Free # {}
  BY <1>7, FS_EmptySet
<1>9. QED  BY <1>7, <1>8 DEF Free

-----------------------------------------------------------------------------
\* Facts about page table entries.

LEMMA EntryType ==
  ASSUME TypeOK, NEW p \in Pids, NEW v \in Pages
  PROVE  /\ pgd[p][v] \in PTE
         /\ pgd[p][v].perm \subseteq Kinds
         /\ pgd[p][v].frame \in Frames <=> pgd[p][v] # Invalid
         /\ "W" \in pgd[p][v].perm => pgd[p][v].frame \in Frames
<1>1. pgd[p][v] \in PTE
  BY DEF TypeOK
<1>2. 0 \notin Frames
  BY DEF Frames
<1>3. QED  BY <1>1, <1>2 DEF PTE, Invalid

LEMMA EntryWithPerm ==
  ASSUME NEW e \in PTE, NEW perm
  PROVE  [e EXCEPT !.perm = perm] = [frame |-> e.frame, perm |-> perm]
<1>1. DOMAIN e = {"frame", "perm"}
  BY DEF PTE, Invalid
<1>2. DOMAIN [e EXCEPT !.perm = perm] = {"frame", "perm"}
  BY <1>1
<1>3. [e EXCEPT !.perm = perm] = [k \in {"frame", "perm"} |-> IF k = "perm" THEN perm ELSE e[k]]
  BY <1>1
<1>4. QED  BY <1>3

LEMMA AccessType ==
  ASSUME NEW x \in Program
  PROVE  PageOf(x.addr) \in Pages /\ x.kind \in Kinds
BY ProgramAssumption DEF Pages

LEMMA AreaType ==
  ASSUME NEW i \in Vmas
  PROVE  /\ mmap[i].vm_start \in Nat /\ mmap[i].vm_end \in Nat
         /\ mmap[i].vm_flags \in SUBSET Kinds
         /\ "W" \in mmap[i].vm_flags => "R" \in mmap[i].vm_flags
<1> DEFINE A == [vm_start : Nat, vm_end : Nat, vm_flags : SUBSET Kinds]
<1>1. mmap \in Seq(A) /\ i \in DOMAIN mmap
  BY ProgramAssumption DEF Vmas
<1>2. mmap[i] \in A
  <2> HIDE DEF A
  <2>1. QED  BY <1>1
<1>3. QED  BY <1>1, <1>2, ProgramAssumption

LEMMA UsersAre ==
  ASSUME NEW f, NEW p \in Pids, NEW v \in Pages
  PROVE  <<p, v>> \in Users(f) <=> pgd[p][v].frame = f
<1>1. <<p, v>> \in Pids \X Pages /\ <<p, v>>[1] = p /\ <<p, v>>[2] = v
  OBVIOUS
<1>2. QED  BY <1>1 DEF Users

LEMMA UsersFinite ==
  ASSUME NEW f
  PROVE  IsFiniteSet(Users(f)) /\ Cardinality(Users(f)) \in Nat
<1>1. IsFiniteSet(Pids \X Pages)
  BY Finiteness, FS_Product
<1>2. Users(f) \in SUBSET (Pids \X Pages)
  BY DEF Users
<1>3. QED  BY <1>1, <1>2, FS_Subset, FS_CardinalityType

\* A page that is allocated once more, although its only reference is gone,
\* or that is made writable for its only user, has no other entry.
LEMMA FewUsers ==
  ASSUME TypeOK, RefCovers, NEW f \in Frames
  PROVE  /\ ref_cnt[f] = 0 => Users(f) = {}
         /\ ref_cnt[f] = 1 => \A d, e \in Users(f) : d = e
<1>1. Cardinality(Users(f)) <= ref_cnt[f] /\ IsFiniteSet(Users(f)) /\ Cardinality(Users(f)) \in Nat
  BY UsersFinite DEF RefCovers
<1>2. ASSUME ref_cnt[f] = 0  PROVE  Users(f) = {}
  <2>1. Cardinality(Users(f)) = 0
    BY <1>1, <1>2
  <2>2. QED  BY <1>1, <2>1, FS_EmptySet
<1>3. ASSUME ref_cnt[f] = 1, NEW d \in Users(f), NEW e \in Users(f)  PROVE  d = e
  <2>1. Cardinality(Users(f)) = 0 \/ Cardinality(Users(f)) = 1
    BY <1>1, <1>3
  <2>2. CASE Cardinality(Users(f)) = 0
    BY <1>1, <1>3, <2>2, FS_EmptySet
  <2>3. CASE Cardinality(Users(f)) = 1
    <3>1. \E y : Users(f) = {y}
      BY <1>1, <2>3, FS_Singleton
    <3>2. QED  BY <3>1, <1>3
  <2>4. QED  BY <2>1, <2>2, <2>3
<1>4. QED  BY <1>2, <1>3

-----------------------------------------------------------------------------
\* The strengthening.  Fork counts the references of a page by the visits of
\* its loop, which are one per area only because no page is mapped at two
\* addresses; and the child's table is empty before.

Unborn == \A p \in Pids : p > tasks_number => pgd[p] = NoTlb

OnePlace ==
  \A p, q \in Pids, v, u \in Pages :
    pgd[p][v].frame \in Frames /\ pgd[q][u].frame = pgd[p][v].frame => v = u

RefBounded == \A f \in Frames : ref_cnt[f] <= tasks_number * Len(mmap)

IInv ==
  /\ TypeOK
  /\ Unborn
  /\ OnePlace
  /\ RefBounded
  /\ RefCovers
  /\ WritableIsExclusive
  /\ TlbSafe

\* The tables, the references and the TLB of a step that changes none of them.
LEMMA TablesUnchanged ==
  ASSUME IInv, TypeOK', UNCHANGED <<tasks_number, current, pgd, ref_cnt, tlb>>
  PROVE  IInv'
<1>1. \A f : Users(f)' = Users(f)
  BY DEF Users
<1>2. RefCovers'
  BY <1>1 DEF IInv, RefCovers
<1>3. Unborn' /\ OnePlace' /\ RefBounded' /\ WritableIsExclusive' /\ TlbSafe'
  BY DEF IInv, Unborn, OnePlace, RefBounded, WritableIsExclusive, TlbSafe
<1>4. QED  BY <1>2, <1>3 DEF IInv

LEMMA InitIInv == Init => IInv
<1> SUFFICES ASSUME Init  PROVE  IInv
  OBVIOUS
<1>1. tasks_number = 1 /\ 1 \in Pids /\ NR_TASKS \in Nat /\ Len(mmap) \in Nat
  BY SizeAssumption, Finiteness DEF Init, Pids
<1>2. NoTlb \in [Pages -> PTE] /\ \A v \in Pages : NoTlb[v] = Invalid
  BY DEF NoTlb, PTE
<1>3. (NR_TASKS - 1) * Len(mmap) \in Nat
  BY <1>1, SizeAssumption
<1>4. TypeOK
  <2>1. ref_cnt \in [Frames -> 0 .. (NR_TASKS - 1) * Len(mmap)]
    <3> DEFINE m == (NR_TASKS - 1) * Len(mmap)
    <3> HIDE DEF m
    <3>1. m \in Nat => [f \in Frames |-> 0] \in [Frames -> 0 .. m]
      OBVIOUS
    <3>2. QED  BY <1>3, <3>1 DEF Init, m
  <2>2. content \in [Frames -> Values]
    <3>1. (CHOOSE val \in Values : TRUE) \in Values
      BY ProgramAssumption
    <3>2. QED  BY <3>1 DEF Init
  <2>3. /\ pgd \in [Pids -> [Pages -> PTE]]
        /\ tlb \in [Pages -> PTE]
        /\ pend \in [Pids -> Program \cup {NoAccess}]
    BY <1>2 DEF Init
  <2>4. current \in 1 .. tasks_number /\ lost \in 0 .. NPages
    BY SizeAssumption DEF Init
  <2>5. QED  BY <1>1, <2>1, <2>2, <2>3, <2>4 DEF TypeOK, Init
<1>5. \A f \in Frames : Users(f) = {} /\ ref_cnt[f] = 0
  BY <1>2 DEF Init, Users, Invalid, Frames
<1>6. RefCovers
  BY <1>5, FS_EmptySet DEF RefCovers
<1>7. RefBounded
  BY <1>1, <1>5 DEF RefBounded
<1>8. Unborn /\ OnePlace /\ WritableIsExclusive /\ TlbSafe
  BY <1>2 DEF Init, Unborn, OnePlace, WritableIsExclusive, TlbSafe, Invalid, Frames
<1>9. QED  BY <1>4, <1>6, <1>7, <1>8 DEF IInv

-----------------------------------------------------------------------------
\* Each action keeps the strengthening.

\* A kernel that stops leaves memory as it is.
LEMMA HaltIInv ==
  ASSUME IInv, NEW why \in {"fault", "oom"}, NEW x \in Program \cup {NoAccess}, Halt(why, x)
  PROVE  IInv'
<1>1. TypeOK'
  <2>1. tasks_number' \in Pids /\ current' \in 1 .. tasks_number' /\ lost' \in 0 .. NPages
    BY DEF IInv, TypeOK, Halt
  <2>2. pend' \in [Pids -> Program \cup {NoAccess}] /\ halted' \in {"no", "fault", "oom"}
    BY DEF IInv, TypeOK, Halt
  <2>3. QED  BY <2>1, <2>2 DEF IInv, TypeOK, Halt
<1>2. QED  BY <1>1, TablesUnchanged DEF Halt

\* The entry an access goes through is one of the table or of the TLB, and is
\* what TlbSafe says of it.
LEMMA TranslateType ==
  ASSUME IInv, NEW x \in Program
  PROVE  LET v == PageOf(x.addr)
             e == translate(x) IN
         /\ e \in PTE
         /\ e # Invalid => /\ e.frame = pgd[current][v].frame
                           /\ e.perm \subseteq pgd[current][v].perm
         /\ Grants(e, x) => e.frame \in Frames /\ e # Invalid
<1> DEFINE v == PageOf(x.addr)
           e == translate(x)
<1>1. v \in Pages /\ current \in Pids
  BY AccessType, SizeAssumption DEF IInv, TypeOK, Pids
<1>2. e \in PTE
  BY <1>1 DEF translate, IInv, TypeOK
<1>3. e = tlb[v] \/ e = pgd[current][v]
  BY DEF translate
<1>4. e # Invalid => e.frame = pgd[current][v].frame /\ e.perm \subseteq pgd[current][v].perm
  BY <1>1, <1>3 DEF IInv, TlbSafe
<1>5. Grants(e, x) => e.frame \in Frames /\ e # Invalid
  BY <1>2 DEF Grants, PTE, Invalid
<1>6. QED  BY <1>2, <1>4, <1>5

LEMMA AccessIInv ==
  ASSUME IInv, NEW x \in Program, Access(x)
  PROVE  IInv'
<1> DEFINE v == PageOf(x.addr)
           e == translate(x)
<1>1. v \in Pages /\ current \in Pids
  BY AccessType, SizeAssumption DEF IInv, TypeOK, Pids
<1>2. /\ e \in PTE /\ e.frame \in Frames /\ e # Invalid
      /\ e.frame = pgd[current][v].frame
      /\ e.perm \subseteq pgd[current][v].perm
  BY TranslateType DEF Access
<1> HIDE DEF e
<1>3. /\ tlb' \in {tlb, [tlb EXCEPT ![v] = e]}
      /\ UNCHANGED <<tasks_number, current, pgd, ref_cnt, lost, halted>>
      /\ pend' = [pend EXCEPT ![current] = NoAccess]
      /\ \/ UNCHANGED content
         \/ \E val \in Values : content' = [content EXCEPT ![e.frame] = val]
  BY DEF Access, e
<1>4. TypeOK'
  <2>1. tlb' \in [Pages -> PTE]
    BY <1>1, <1>2, <1>3 DEF IInv, TypeOK
  <2>2. content' \in [Frames -> Values]
    BY <1>2, <1>3 DEF IInv, TypeOK
  <2>3. pend' \in [Pids -> Program \cup {NoAccess}]
    BY <1>3 DEF IInv, TypeOK
  <2>4. QED  BY <1>3, <2>1, <2>2, <2>3 DEF IInv, TypeOK
<1>5. TlbSafe'
  <2> SUFFICES ASSUME NEW u \in Pages, tlb'[u] # Invalid
               PROVE  /\ tlb'[u].frame = pgd[current][u].frame
                      /\ tlb'[u].perm \subseteq pgd[current][u].perm
    BY <1>3 DEF TlbSafe
  <2>1. tlb'[u] = tlb[u] \/ (u = v /\ tlb'[u] = e)
    BY <1>1, <1>3 DEF IInv, TypeOK
  <2>2. QED  BY <1>2, <2>1 DEF IInv, TlbSafe
<1>6. \A f : Users(f)' = Users(f)
  BY <1>3 DEF Users
<1>7. QED
  BY <1>3, <1>4, <1>5, <1>6
  DEF IInv, Unborn, OnePlace, RefBounded, RefCovers, WritableIsExclusive

\* An access that an area allows is in an area.
LEMMA AllowedHasArea ==
  ASSUME NEW x \in Program, NEW vma \in SUBSET Containing(x.addr),
         Allowed(x, vma)
  PROVE  Len(mmap) \in Nat /\ Len(mmap) >= 1
<1>1. \E i \in Vmas : TRUE
  BY DEF Allowed, Containing
<1>2. QED
  BY <1>1, ProgramAssumption DEF Vmas

\* What a page fault does when it gives page v of the running task a frame
\* that nobody refers to, and takes back one reference of the old one.
MapsAnew(v, f, perm, rc) ==
  /\ ref_cnt[f] = 0
  /\ pgd' = [pgd EXCEPT ![current][v] = [frame |-> f, perm |-> perm]]
  /\ ref_cnt' = [rc EXCEPT ![f] = 1]
  /\ rc \in [Frames -> Nat]
  /\ \A g \in Frames : rc[g] = IF g = pgd[current][v].frame THEN ref_cnt[g] - 1 ELSE ref_cnt[g]
  /\ UNCHANGED <<tasks_number, current>>

LEMMA UsersAfterMapsAnew ==
  ASSUME IInv, NEW v \in Pages, NEW f \in Frames, NEW perm \in SUBSET Kinds, NEW rc,
         MapsAnew(v, f, perm, rc)
  PROVE  /\ Users(f)' = {<<current, v>>}
         /\ \A g \in Frames \ {f} : Users(g)' = Users(g) \ {<<current, v>>}
         /\ pgd[current][v].frame # f
         /\ \A p \in Pids, u \in Pages :
              pgd'[p][u] = IF p = current /\ u = v THEN [frame |-> f, perm |-> perm]
                           ELSE pgd[p][u]
         /\ pgd' \in [Pids -> [Pages -> PTE]]
<1>1. current \in Pids
  BY SizeAssumption DEF IInv, TypeOK, Pids
<1>2. Users(f) = {}
  BY FewUsers DEF IInv, MapsAnew
<1>3. pgd \in [Pids -> [Pages -> PTE]] /\ [frame |-> f, perm |-> perm] \in PTE
  BY DEF IInv, TypeOK, PTE
<1>4. \A p \in Pids, u \in Pages :
        pgd'[p][u] = IF p = current /\ u = v THEN [frame |-> f, perm |-> perm] ELSE pgd[p][u]
  BY <1>1, <1>3 DEF MapsAnew
<1>5. pgd' \in [Pids -> [Pages -> PTE]]
  BY <1>1, <1>3 DEF MapsAnew
<1>6. pgd[current][v].frame # f
  BY <1>1, <1>2, UsersAre
<1>7. \A g : Users(g)' = {e \in Pids \X Pages : pgd'[e[1]][e[2]].frame = g}
  BY DEF Users
<1>8. \A e \in Pids \X Pages :
        pgd'[e[1]][e[2]].frame = IF e = <<current, v>> THEN f ELSE pgd[e[1]][e[2]].frame
  <2> TAKE e \in Pids \X Pages
  <2>1. PICK p \in Pids, u \in Pages : e = <<p, u>>
    OBVIOUS
  <2>2. QED  BY <1>4, <2>1
<1>9. Users(f)' = {<<current, v>>}
  BY <1>1, <1>2, <1>7, <1>8 DEF Users
<1>10. \A g \in Frames \ {f} : Users(g)' = Users(g) \ {<<current, v>>}
  BY <1>1, <1>7, <1>8 DEF Users
<1>11. QED  BY <1>4, <1>5, <1>6, <1>9, <1>10

LEMMA MapsAnewKeeps ==
  ASSUME IInv, NEW v \in Pages, NEW f \in Frames, NEW perm \in SUBSET Kinds, NEW rc,
         MapsAnew(v, f, perm, rc), Len(mmap) >= 1
  PROVE  /\ pgd' \in [Pids -> [Pages -> PTE]]
         /\ ref_cnt' \in [Frames -> 0 .. (NR_TASKS - 1) * Len(mmap)]
         /\ Unborn' /\ OnePlace' /\ RefBounded' /\ RefCovers' /\ WritableIsExclusive'
<1>1. current \in Pids /\ current <= tasks_number /\ tasks_number \in Nat /\ tasks_number >= 1
  BY SizeAssumption DEF IInv, TypeOK, Pids
<1>2. /\ Users(f)' = {<<current, v>>}
      /\ \A g \in Frames \ {f} : Users(g)' = Users(g) \ {<<current, v>>}
      /\ pgd[current][v].frame # f
      /\ \A p \in Pids, u \in Pages :
           pgd'[p][u] = IF p = current /\ u = v THEN [frame |-> f, perm |-> perm] ELSE pgd[p][u]
      /\ pgd' \in [Pids -> [Pages -> PTE]]
  BY UsersAfterMapsAnew
<1>3. \A g \in Frames : ref_cnt'[g] = IF g = f THEN 1
                                      ELSE IF g = pgd[current][v].frame THEN ref_cnt[g] - 1
                                      ELSE ref_cnt[g]
  BY DEF MapsAnew
<1>4. ref_cnt' \in [Frames -> Nat]
  BY DEF MapsAnew
<1> DEFINE b == tasks_number * Len(mmap)
           m == (NR_TASKS - 1) * Len(mmap)
<1>5. b \in Nat /\ 1 <= b /\ m \in Nat /\ b <= m
  <2>1. Len(mmap) \in Nat /\ NR_TASKS \in Nat /\ tasks_number <= NR_TASKS - 1
    BY Finiteness, SizeAssumption DEF IInv, TypeOK, Pids
  <2>2. QED  BY <1>1, <2>1
<1>6. \A g \in Frames : ref_cnt[g] <= b
  BY DEF IInv, RefBounded
<1> HIDE DEF b, m
<1>7. \A g \in Frames : ref_cnt'[g] <= b /\ ref_cnt'[g] \in 0 .. m
  <2> TAKE g \in Frames
  <2>1. ref_cnt'[g] \in Nat
    BY <1>4
  <2>2. ref_cnt[g] \in Int
    BY Finiteness, SizeAssumption DEF IInv, TypeOK
  <2>3. ref_cnt'[g] <= b
    BY <1>3, <1>5, <1>6, <2>2
  <2>4. QED  BY <1>5, <2>1, <2>3
<1>8. ref_cnt' \in [Frames -> 0 .. m]
  BY <1>4, <1>7
<1>9. RefBounded'
  BY <1>7 DEF RefBounded, b, MapsAnew
<1>10. Unborn'
  BY <1>1, <1>2 DEF IInv, TypeOK, Unborn, MapsAnew, NoTlb, Pids
<1>11. \A p \in Pids, u \in Pages : pgd[p][u].frame # f
  <2>1. Users(f) = {}
    BY FewUsers DEF IInv, MapsAnew
  <2>2. QED  BY <2>1, UsersAre
<1>12. OnePlace'
  BY <1>2, <1>11 DEF IInv, OnePlace
<1>13. WritableIsExclusive'
  BY <1>2, <1>11 DEF IInv, WritableIsExclusive
<1>14. RefCovers'
  <2> SUFFICES ASSUME NEW g \in Frames  PROVE  ref_cnt'[g] >= Cardinality(Users(g)')
    BY DEF RefCovers
  <2>1. CASE g = f
    <3>1. Cardinality(Users(f)') = 1
      BY <1>2, FS_Singleton
    <3>2. QED  BY <1>3, <2>1, <3>1
  <2>2. CASE g # f
    <3>1. Users(g)' = Users(g) \ {<<current, v>>}
      BY <1>2, <2>2
    <3>2. IsFiniteSet(Users(g)) /\ Cardinality(Users(g)) \in Nat
      BY UsersFinite
    <3>3. Cardinality(Users(g)') =
            IF <<current, v>> \in Users(g) THEN Cardinality(Users(g)) - 1
            ELSE Cardinality(Users(g))
      BY <3>1, <3>2, FS_RemoveElement
    <3>4. <<current, v>> \in Users(g) <=> g = pgd[current][v].frame
      BY <1>1 DEF Users
    <3>5. ref_cnt'[g] = IF <<current, v>> \in Users(g) THEN ref_cnt[g] - 1 ELSE ref_cnt[g]
      BY <1>3, <2>2, <3>4
    <3>6. ref_cnt[g] >= Cardinality(Users(g)) /\ ref_cnt[g] \in Int
      BY Finiteness, SizeAssumption DEF IInv, RefCovers, TypeOK
    <3>7. QED  BY <3>2, <3>3, <3>5, <3>6
  <2>3. QED  BY <2>1, <2>2
<1>15. QED  BY <1>2, <1>8, <1>9, <1>10, <1>12, <1>13, <1>14 DEF m

LEMMA TablesAreNumbers ==
  ASSUME NEW v \in Pages, NEW T
  PROVE  Cardinality(tables(v) \ T) \in Nat
<1>1. {v} \in SUBSET Pages /\ UNION {tables(u) : u \in {v}} = tables(v)
  OBVIOUS
<1>2. IsFiniteSet(tables(v))
  BY <1>1, FiniteTables
<1>3. QED  BY <1>2, FS_Subset, FS_CardinalityType

\* What a first touch does when there is room: the running task has the
\* access's page mapped to a frame that had no user, as the area that was found
\* allows.
LEMMA FirstTouchEffect ==
  ASSUME IInv, NEW x \in Program, NEW vma \in SUBSET Containing(x.addr),
         FirstTouch(x, vma),
         Room(1 + Cardinality(tables(PageOf(x.addr)) \ TablesOf(pgd[current])))
  PROVE  LET v == PageOf(x.addr) IN
         \E f \in Frames, i \in vma :
           /\ MapsAnew(v, f, mmap[i].vm_flags, ref_cnt)
           /\ mmap[i].vm_flags \in SUBSET Kinds
           /\ \E val \in Values : content' = [content EXCEPT ![f] = val]
           /\ pend' = [pend EXCEPT ![current] = x]
           /\ UNCHANGED <<tasks_number, current, lost, tlb, halted>>
<1> DEFINE v == PageOf(x.addr)
           n == 1 + Cardinality(tables(v) \ TablesOf(pgd[current]))
           f == alloc_page(ref_cnt)
<1>1. v \in Pages
  BY AccessType
<1>2. n \in Nat
  BY <1>1, TablesAreNumbers
<1>3. Room(n)
  OBVIOUS
<1>4. /\ \E i \in vma :
           pgd' = [pgd EXCEPT ![current][v] = [frame |-> f, perm |-> mmap[i].vm_flags]]
      /\ ref_cnt' = [ref_cnt EXCEPT ![f] = 1]
      /\ \E val \in Values : content' = [content EXCEPT ![f] = val]
      /\ pend' = [pend EXCEPT ![current] = x]
      /\ UNCHANGED <<tasks_number, current, lost, tlb, halted>>
  BY <1>3 DEF FirstTouch
<1>5. \E g \in Frames : ref_cnt[g] = 0
  <2> HIDE DEF n
  <2>1. QED  BY <1>2, <1>3, RoomLeavesFrames DEF IInv
<1>6. f \in Frames /\ ref_cnt[f] = 0
  BY <1>5 DEF alloc_page
<1> HIDE DEF f, n
<1>7. pgd[current][v].frame \notin Frames
  BY DEF FirstTouch, Invalid, Frames
<1>8. ref_cnt \in [Frames -> Nat]
  BY Finiteness, SizeAssumption DEF IInv, TypeOK
<1>9. PICK i \in vma :
         pgd' = [pgd EXCEPT ![current][v] = [frame |-> f, perm |-> mmap[i].vm_flags]]
  BY <1>4
<1>10. mmap[i].vm_flags \in SUBSET Kinds
  BY <1>9, AreaType DEF Containing
<1>11. MapsAnew(v, f, mmap[i].vm_flags, ref_cnt)
  <2>1. \A g \in Frames :
          ref_cnt[g] = IF g = pgd[current][v].frame THEN ref_cnt[g] - 1 ELSE ref_cnt[g]
    BY <1>7
  <2>2. QED  BY <1>4, <1>6, <1>8, <1>9, <2>1 DEF MapsAnew
<1>12. QED  BY <1>4, <1>6, <1>10, <1>11

LEMMA FirstTouchIInv ==
  ASSUME IInv, NEW x \in Program, NEW vma \in SUBSET Containing(x.addr),
         FirstTouch(x, vma)
  PROVE  IInv'
<1> DEFINE v == PageOf(x.addr)
<1>1. v \in Pages /\ current \in Pids
  BY AccessType, SizeAssumption DEF IInv, TypeOK, Pids
<1> DEFINE room == Room(1 + Cardinality(tables(v) \ TablesOf(pgd[current])))
<1>2. CASE ~ room
  <2>1. Halt("oom", x)
    BY <1>2 DEF FirstTouch
  <2>2. QED  BY <2>1, HaltIInv
<1>3. CASE room
  <2>1. PICK f \in Frames, i \in vma :
           /\ MapsAnew(v, f, mmap[i].vm_flags, ref_cnt)
           /\ mmap[i].vm_flags \in SUBSET Kinds
           /\ \E val \in Values : content' = [content EXCEPT ![f] = val]
           /\ pend' = [pend EXCEPT ![current] = x]
           /\ UNCHANGED <<tasks_number, current, lost, tlb, halted>>
    BY <1>3, FirstTouchEffect
  <2>2. Len(mmap) >= 1
    BY AllowedHasArea DEF FirstTouch
  <2>3. /\ pgd' \in [Pids -> [Pages -> PTE]]
        /\ ref_cnt' \in [Frames -> 0 .. (NR_TASKS - 1) * Len(mmap)]
        /\ Unborn' /\ OnePlace' /\ RefBounded' /\ RefCovers' /\ WritableIsExclusive'
    BY <1>1, <2>1, <2>2, MapsAnewKeeps
  <2>4. TypeOK'
    <3>1. content' \in [Frames -> Values] /\ pend' \in [Pids -> Program \cup {NoAccess}]
      BY <2>1 DEF IInv, TypeOK
    <3>2. QED  BY <2>1, <2>3, <3>1 DEF IInv, TypeOK
  <2>5. TlbSafe'
    <3>1. tlb[v] = Invalid
      <4>1. pgd[current][v] = Invalid /\ tlb[v] \in PTE
        BY <1>1 DEF FirstTouch, IInv, TypeOK
      <4>2. tlb[v] # Invalid => tlb[v].frame = 0
        BY <1>1, <4>1 DEF IInv, TlbSafe, Invalid
      <4>3. QED  BY <4>1, <4>2 DEF PTE, Frames
    <3>2. \A u \in Pages \ {v} : pgd'[current][u] = pgd[current][u]
      <4>1. \A p \in Pids, u \in Pages :
              pgd'[p][u] = IF p = current /\ u = v THEN [frame |-> f, perm |-> mmap[i].vm_flags]
                           ELSE pgd[p][u]
        BY <1>1, <2>1, UsersAfterMapsAnew
      <4>2. QED  BY <1>1, <4>1
    <3>3. QED  BY <2>1, <3>1, <3>2 DEF IInv, TlbSafe
  <2>6. QED  BY <2>3, <2>4, <2>5 DEF IInv
<1>4. QED  BY <1>2, <1>3

\* The entry keeps its frame and gains W.
LEMMA MakeWritableEntries ==
  ASSUME IInv, NEW x \in Program, NEW vma \in SUBSET Containing(x.addr),
         MakeWritable(x, vma), Room(1)
  PROVE  LET v == PageOf(x.addr)
             e == pgd[current][v] IN
         \A p \in Pids, u \in Pages :
           pgd'[p][u] = IF p = current /\ u = v THEN [frame |-> e.frame, perm |-> e.perm \cup {"W"}]
                        ELSE pgd[p][u]
<1> DEFINE v == PageOf(x.addr)
           e == pgd[current][v]
<1>1. v \in Pages /\ current \in Pids /\ pgd \in [Pids -> [Pages -> PTE]]
  BY AccessType, SizeAssumption DEF IInv, TypeOK, Pids
<1>2. pgd' = [pgd EXCEPT ![current][v].perm = @ \cup {"W"}]
  BY DEF MakeWritable
<1>3. [e EXCEPT !.perm = @ \cup {"W"}] = [frame |-> e.frame, perm |-> e.perm \cup {"W"}]
  BY <1>1, EntryWithPerm
<1>4. \A p \in Pids, u \in Pages :
        pgd'[p][u] = IF p = current /\ u = v THEN [e EXCEPT !.perm = @ \cup {"W"}] ELSE pgd[p][u]
  BY <1>1, <1>2
<1>5. QED  BY <1>3, <1>4

\* The only user of a page may write to it in place.
LEMMA MakeWritableIInv ==
  ASSUME IInv, NEW x \in Program, NEW vma \in SUBSET Containing(x.addr),
         MakeWritable(x, vma)
  PROVE  IInv'
<1> DEFINE v == PageOf(x.addr)
           e == pgd[current][v]
<1>1. v \in Pages /\ current \in Pids /\ e \in PTE /\ e.frame \in Frames
  <2>1. v \in Pages /\ current \in Pids
    BY AccessType, SizeAssumption DEF IInv, TypeOK, Pids
  <2>2. QED  BY <2>1, EntryType DEF IInv, MakeWritable
<1>2. CASE ~ Room(1)
  <2>1. Halt("oom", x)
    BY <1>2 DEF MakeWritable
  <2>2. QED  BY <2>1, HaltIInv
<1>3. CASE Room(1)
  <2>1. /\ pgd' = [pgd EXCEPT ![current][v].perm = @ \cup {"W"}]
        /\ lost' = lost + 1
        /\ pend' = [pend EXCEPT ![current] = x]
        /\ UNCHANGED <<tasks_number, current, ref_cnt, content, tlb, halted>>
        /\ ref_cnt[e.frame] = 1
    BY <1>3 DEF MakeWritable, SoleUser
  <2>2. \A p \in Pids, u \in Pages :
          pgd'[p][u] = IF p = current /\ u = v THEN [frame |-> e.frame, perm |-> e.perm \cup {"W"}]
                       ELSE pgd[p][u]
    BY <1>3, MakeWritableEntries
  <2>3. \A p \in Pids, u \in Pages : pgd'[p][u].frame = pgd[p][u].frame
    BY <2>2
  <2>4. pgd' \in [Pids -> [Pages -> PTE]]
    <3>1. [frame |-> e.frame, perm |-> e.perm \cup {"W"}] \in PTE
      BY <1>1 DEF PTE, Kinds, Invalid
    <3>2. DOMAIN pgd' = Pids /\ \A p \in Pids : DOMAIN pgd'[p] = Pages
      BY <1>1, <2>1 DEF IInv, TypeOK
    <3>3. \A p \in Pids, u \in Pages : pgd'[p][u] \in PTE
      BY <2>2, <3>1 DEF IInv, TypeOK
    <3>4. pgd' = [p \in Pids |-> pgd'[p]] /\ \A p \in Pids : pgd'[p] = [u \in Pages |-> pgd'[p][u]]
      BY <1>1, <2>1 DEF IInv, TypeOK
    <3>5. QED  BY <3>3, <3>4
  <2>5. TypeOK'
    <3>1. lost' \in 0 .. NPages
      <4>1. lost + 1 <= NPages
        BY <1>3, RoomLeavesFrames, 1 \in Nat DEF IInv
      <4>2. lost \in Nat /\ NPages \in Nat
        BY SizeAssumption DEF IInv, TypeOK
      <4>3. QED  BY <2>1, <4>1, <4>2
    <3>2. pend' \in [Pids -> Program \cup {NoAccess}]
      BY <2>1 DEF IInv, TypeOK
    <3>3. QED  BY <2>1, <2>4, <3>1, <3>2 DEF IInv, TypeOK
  <2>6. Unborn'
    <3>1. \A p \in Pids : p > tasks_number => p # current
      BY SizeAssumption DEF IInv, TypeOK, Pids
    <3>2. \A p \in Pids \ {current} : pgd'[p] = pgd[p]
      BY <2>1 DEF IInv, TypeOK
    <3>3. QED  BY <2>1, <3>1, <3>2 DEF IInv, Unborn, NoTlb
  <2>7. OnePlace' /\ RefBounded'
    BY <2>1, <2>3 DEF IInv, OnePlace, RefBounded
  <2>8. \A f : Users(f)' = Users(f)
    BY <2>3 DEF Users
  <2>9. RefCovers'
    BY <2>1, <2>8 DEF IInv, RefCovers
  <2>10. WritableIsExclusive'
    <3> SUFFICES ASSUME NEW p \in Pids, NEW q \in Pids, NEW w \in Pages, NEW u \in Pages,
                        "W" \in pgd'[p][w].perm, pgd'[q][u].frame = pgd'[p][w].frame
                 PROVE  p = q /\ w = u
      BY DEF WritableIsExclusive
    <3>1. pgd[q][u].frame = pgd[p][w].frame
      BY <2>3
    <3>2. CASE p = current /\ w = v
      <4>1. <<p, w>> \in Users(e.frame) /\ <<q, u>> \in Users(e.frame)
        BY <1>1, <3>1, <3>2, UsersAre
      <4>2. <<p, w>> = <<q, u>>
        BY <1>1, <2>1, <4>1, FewUsers DEF IInv
      <4>3. QED  BY <4>2
    <3>3. CASE ~ (p = current /\ w = v)
      BY <2>2, <3>1, <3>3 DEF IInv, WritableIsExclusive
    <3>4. QED  BY <3>2, <3>3
  <2>11. TlbSafe'
    <3>1. \A u \in Pages : /\ pgd'[current][u].frame = pgd[current][u].frame
                           /\ pgd[current][u].perm \subseteq pgd'[current][u].perm
      BY <1>1, <2>2
    <3>2. QED  BY <2>1, <3>1 DEF IInv, TlbSafe
  <2>12. QED  BY <2>5, <2>6, <2>7, <2>9, <2>10, <2>11 DEF IInv
<1>4. QED  BY <1>2, <1>3

\* What the copy of a shared page does when there is room.  The old page keeps
\* a reference, so it is not the one that is handed out.
LEMMA CopyPageEffect ==
  ASSUME IInv, NEW x \in Program, NEW vma \in SUBSET Containing(x.addr),
         CopyPage(x, vma), Room(2)
  PROVE  LET v == PageOf(x.addr)
             e == pgd[current][v] IN
         \E f \in Frames, rc \in [Frames -> Nat] :
           /\ MapsAnew(v, f, e.perm \cup {"W"}, rc)
           /\ e.perm \cup {"W"} \in SUBSET Kinds
           /\ e.frame \in Frames /\ rc[e.frame] >= 1
           /\ content' = [content EXCEPT ![f] = content[e.frame]]
           /\ lost' = lost + 1
           /\ tlb' = NoTlb
           /\ pend' = [pend EXCEPT ![current] = x]
           /\ UNCHANGED <<tasks_number, current, halted>>
<1> DEFINE v == PageOf(x.addr)
           e == pgd[current][v]
           rc == put_page(ref_cnt, e.frame)
           f == alloc_page(rc)
           from == IF tlb[v] # Invalid THEN tlb[v].frame ELSE e.frame
<1>1. v \in Pages /\ current \in Pids
  BY AccessType, SizeAssumption DEF IInv, TypeOK, Pids
<1>2. e \in PTE /\ e.perm \subseteq Kinds /\ e.frame \in Frames
  BY <1>1, EntryType DEF IInv, CopyPage
<1>3. ref_cnt \in [Frames -> Nat]
  BY Finiteness, SizeAssumption DEF IInv, TypeOK
<1>4. ref_cnt[e.frame] >= 2
  <2>1. <<current, v>> \in Users(e.frame)
    BY <1>1, UsersAre
  <2>2. ref_cnt[e.frame] # 0
    BY <1>2, <2>1, FewUsers DEF IInv
  <2>3. ref_cnt[e.frame] # 1
    BY DEF CopyPage, SoleUser
  <2>4. QED  BY <1>2, <1>3, <2>2, <2>3
<1>5. rc = [ref_cnt EXCEPT ![e.frame] = @ - 1]
  BY <1>2, <1>3, <1>4 DEF put_page
<1>6. from = e.frame
  BY <1>1 DEF IInv, TlbSafe
<1>7. /\ pgd' = [pgd EXCEPT ![current][v] = [frame |-> f, perm |-> e.perm \cup {"W"}]]
      /\ ref_cnt' = [rc EXCEPT ![f] = 1]
      /\ content' = [content EXCEPT ![f] = content[from]]
      /\ lost' = lost + 1
      /\ tlb' = NoTlb
      /\ pend' = [pend EXCEPT ![current] = x]
      /\ UNCHANGED <<tasks_number, current, halted>>
  BY DEF CopyPage, sfence
<1> HIDE DEF e, rc
<1>8. /\ rc \in [Frames -> Nat] /\ rc[e.frame] >= 1
      /\ \A g \in Frames : rc[g] = IF g = e.frame THEN ref_cnt[g] - 1 ELSE ref_cnt[g]
  BY <1>2, <1>3, <1>4, <1>5
<1>9. f \in Frames /\ ref_cnt[f] = 0
  <2>1. PICK g \in Frames : ref_cnt[g] = 0
    BY RoomLeavesFrames DEF IInv
  <2>2. rc[g] = 0
    BY <1>4, <1>8, <2>1
  <2>3. f \in Frames /\ rc[f] = 0
    BY <2>1, <2>2 DEF alloc_page
  <2>4. QED  BY <1>8, <2>3
<1> HIDE DEF f, from
<1>10. MapsAnew(v, f, e.perm \cup {"W"}, rc)
  BY <1>7, <1>8, <1>9 DEF MapsAnew, e
<1>11. e.perm \cup {"W"} \in SUBSET Kinds
  BY <1>2 DEF Kinds
<1>12. QED  BY <1>2, <1>6, <1>7, <1>8, <1>9, <1>10, <1>11 DEF e

LEMMA CopyPageIInv ==
  ASSUME IInv, NEW x \in Program, NEW vma \in SUBSET Containing(x.addr),
         CopyPage(x, vma)
  PROVE  IInv'
<1> DEFINE v == PageOf(x.addr)
           e == pgd[current][v]
<1>1. v \in Pages /\ current \in Pids
  BY AccessType, SizeAssumption DEF IInv, TypeOK, Pids
<1>2. CASE ~ Room(2)
  <2>1. Halt("oom", x)
    BY <1>2 DEF CopyPage
  <2>2. QED  BY <2>1, HaltIInv
<1>3. CASE Room(2)
  <2>1. PICK f \in Frames, rc \in [Frames -> Nat] :
           /\ MapsAnew(v, f, e.perm \cup {"W"}, rc)
           /\ e.perm \cup {"W"} \in SUBSET Kinds
           /\ e.frame \in Frames
           /\ content' = [content EXCEPT ![f] = content[e.frame]]
           /\ lost' = lost + 1
           /\ tlb' = NoTlb
           /\ pend' = [pend EXCEPT ![current] = x]
           /\ UNCHANGED <<tasks_number, current, halted>>
    BY <1>3, CopyPageEffect
  <2>2. Len(mmap) >= 1
    BY AllowedHasArea DEF CopyPage
  <2> HIDE DEF e
  <2>3. /\ pgd' \in [Pids -> [Pages -> PTE]]
        /\ ref_cnt' \in [Frames -> 0 .. (NR_TASKS - 1) * Len(mmap)]
        /\ Unborn' /\ OnePlace' /\ RefBounded' /\ RefCovers' /\ WritableIsExclusive'
    BY <1>1, <2>1, <2>2, MapsAnewKeeps
  <2>4. NoTlb \in [Pages -> PTE] /\ \A u \in Pages : NoTlb[u] = Invalid
    BY DEF NoTlb, PTE
  <2>5. TypeOK'
    <3>1. content' \in [Frames -> Values] /\ pend' \in [Pids -> Program \cup {NoAccess}]
      BY <2>1 DEF IInv, TypeOK
    <3>2. lost' \in 0 .. NPages
      <4>1. lost + 2 <= NPages
        BY <1>3, RoomLeavesFrames, 2 \in Nat DEF IInv
      <4>2. lost \in Nat /\ NPages \in Nat
        BY SizeAssumption DEF IInv, TypeOK
      <4>3. QED  BY <2>1, <4>1, <4>2
    <3>3. QED  BY <2>1, <2>3, <2>4, <3>1, <3>2 DEF IInv, TypeOK
  <2>6. TlbSafe'
    BY <2>1, <2>4 DEF TlbSafe
  <2>7. QED  BY <2>3, <2>5, <2>6 DEF IInv
<1>4. QED  BY <1>2, <1>3

-----------------------------------------------------------------------------
\* fork.

\* The tables after a fork, entry by entry.
LEMMA ForkEntries ==
  ASSUME IInv, ForkSucceeds,
         Room(2 + Cardinality(UNION {tables(v) : v \in Shared}))
  PROVE  LET child == tasks_number + 1 IN
         /\ pgd' \in [Pids -> [Pages -> PTE]]
         /\ \A p \in Pids, u \in Pages :
              /\ u \notin Shared => pgd'[p][u] = pgd[p][u]
              /\ p \notin {child, current} => pgd'[p][u] = pgd[p][u]
              /\ u \in Shared /\ p \in {child, current} =>
                   /\ pgd'[p][u].frame = pgd[current][u].frame
                   /\ pgd'[p][u].perm = pgd[current][u].perm \ {"W"}
              /\ pgd[child][u] = Invalid
<1> DEFINE child == tasks_number + 1
           copy == [v \in Pages |-> IF v \in Shared THEN ReadOnly(pgd[current])[v] ELSE Invalid]
<1>1. child \in Pids /\ current # child /\ current \in Pids
  BY SizeAssumption DEF IInv, TypeOK, Pids, ForkSucceeds
<1>2. pgd' = [pgd EXCEPT ![current] = ReadOnly(@), ![child] = copy]
  BY DEF ForkSucceeds
<1>3. \A u \in Pages : pgd[child][u] = Invalid
  BY <1>1, SizeAssumption DEF IInv, TypeOK, Unborn, NoTlb, Pids
<1>4. \A v \in Pages :
         /\ pgd[current][v] \in PTE
         /\ [pgd[current][v] EXCEPT !.perm = @ \ {"W"}] \in PTE
         /\ [pgd[current][v] EXCEPT !.perm = @ \ {"W"}].frame = pgd[current][v].frame
         /\ [pgd[current][v] EXCEPT !.perm = @ \ {"W"}].perm = pgd[current][v].perm \ {"W"}
  <2> TAKE v \in Pages
  <2> DEFINE e == pgd[current][v]
  <2>1. e \in PTE
    BY <1>1 DEF IInv, TypeOK
  <2> HIDE DEF e
  <2>2. [e EXCEPT !.perm = @ \ {"W"}] = [frame |-> e.frame, perm |-> e.perm \ {"W"}]
    BY <2>1, EntryWithPerm
  <2>3. [frame |-> e.frame, perm |-> e.perm \ {"W"}] \in PTE
    BY <2>1 DEF PTE, Invalid
  <2>4. QED  BY <2>1, <2>2, <2>3 DEF e
<1>5. ReadOnly(pgd[current]) \in [Pages -> PTE] /\ copy \in [Pages -> PTE]
  BY <1>4 DEF ReadOnly, PTE
<1>6. pgd \in [Pids -> [Pages -> PTE]]
  BY DEF IInv, TypeOK
<1>7. pgd' = [q \in Pids |-> IF q = child THEN copy
                             ELSE IF q = current THEN ReadOnly(pgd[current])
                             ELSE pgd[q]]
  <2> HIDE DEF copy, child
  <2>1. QED  BY <1>1, <1>2, <1>6
<1>8. pgd' \in [Pids -> [Pages -> PTE]]
  <2> HIDE DEF copy, child
  <2>1. QED  BY <1>5, <1>6, <1>7
<1>9. ASSUME NEW p \in Pids, NEW u \in Pages
      PROVE  /\ u \notin Shared => pgd'[p][u] = pgd[p][u]
             /\ p \notin {child, current} => pgd'[p][u] = pgd[p][u]
             /\ u \in Shared /\ p \in {child, current} =>
                  pgd'[p][u] = [pgd[current][u] EXCEPT !.perm = @ \ {"W"}]
  BY <1>3, <1>7 DEF ReadOnly
<1>10. QED  BY <1>3, <1>4, <1>8, <1>9

\* A page gains at most one entry, the child's at the one place where it is
\* mapped, and then the loop visits it once or more, for the areas on it.
LEMMA ForkUsers ==
  ASSUME IInv, ForkSucceeds,
         Room(2 + Cardinality(UNION {tables(v) : v \in Shared})),
         NEW f \in Frames
  PROVE  \/ Visits(f) = {} /\ Users(f)' = Users(f)
         \/ \E v \in Shared :
              /\ v \in Pages /\ pgd[current][v].frame = f
              /\ Users(f)' = Users(f) \cup {<<tasks_number + 1, v>>}
              /\ <<tasks_number + 1, v>> \notin Users(f)
              /\ Users(f) # {}
              /\ Visits(f) # {}
              /\ Visits(f) \subseteq {v} \X Vmas
<1> DEFINE child == tasks_number + 1
<1>1. current \in Pids /\ Shared \subseteq Pages
  BY SizeAssumption DEF IInv, TypeOK, Pids, Shared, Mapped
<1>2. /\ child \in Pids /\ current # child
      /\ \A p \in Pids, u \in Pages :
           /\ u \notin Shared => pgd'[p][u] = pgd[p][u]
           /\ p \notin {child, current} => pgd'[p][u] = pgd[p][u]
           /\ u \in Shared /\ p \in {child, current} => pgd'[p][u].frame = pgd[current][u].frame
           /\ pgd[child][u] = Invalid
  <2>1. child \in Pids /\ current # child
    BY SizeAssumption DEF IInv, TypeOK, Pids, ForkSucceeds
  <2>2. QED  BY <2>1, ForkEntries
<1>3. \A g : Users(g)' = {e \in Pids \X Pages : pgd'[e[1]][e[2]].frame = g}
  BY DEF Users
<1>4. \A e \in Pids \X Pages :
        pgd'[e[1]][e[2]].frame = f
          <=> e \in Users(f) \/ (e[1] = child /\ e[2] \in Shared /\ pgd[current][e[2]].frame = f)
  <2> SUFFICES ASSUME NEW p \in Pids, NEW u \in Pages
               PROVE  pgd'[p][u].frame = f
                        <=> <<p, u>> \in Users(f)
                            \/ (p = child /\ u \in Shared /\ pgd[current][u].frame = f)
    OBVIOUS
  <2>1. <<p, u>> \in Users(f) <=> pgd[p][u].frame = f
    BY UsersAre
  <2>2. pgd[child][u].frame # f
    BY <1>2 DEF Invalid, Frames
  <2>3. QED  BY <1>2, <2>1, <2>2
<1>5. CASE \A v \in Shared : pgd[current][v].frame # f
  <2>1. Visits(f) = {}
    BY <1>5 DEF Visits
  <2>2. Users(f)' = Users(f)
    BY <1>3, <1>4, <1>5 DEF Users
  <2>3. QED  BY <2>1, <2>2
<1>6. ASSUME NEW v \in Shared, pgd[current][v].frame = f
      PROVE  /\ Users(f)' = Users(f) \cup {<<child, v>>}
             /\ <<child, v>> \notin Users(f)
             /\ Users(f) # {}
             /\ Visits(f) # {}
             /\ Visits(f) \subseteq {v} \X Vmas
  <2>1. \A u \in Shared : pgd[current][u].frame = f => u = v
    BY <1>1, <1>6 DEF IInv, OnePlace
  <2>2. Visits(f) \subseteq {v} \X Vmas
    BY <2>1 DEF Visits
  <2>3. Visits(f) # {}
    <3>1. PICK i \in Vmas : v \in vma_pages(i)
      BY DEF Shared
    <3>2. <<v, i>> \in Visits(f)
      BY <1>6, <3>1 DEF Visits
    <3>3. QED  BY <3>2
  <2>4. <<child, v>> \notin Users(f)
    BY <1>1, <1>2, UsersAre DEF Invalid, Frames
  <2>5. Users(f) # {}
    BY <1>1, <1>6, UsersAre
  <2>6. Users(f)' = Users(f) \cup {<<child, v>>}
    <3>1. \A e \in Pids \X Pages :
            e[1] = child /\ e[2] \in Shared /\ pgd[current][e[2]].frame = f <=> e = <<child, v>>
      BY <1>1, <1>2, <1>6, <2>1
    <3>2. <<child, v>> \in Pids \X Pages
      BY <1>1, <1>2
    <3>3. QED  BY <1>3, <1>4, <3>1, <3>2 DEF Users
  <2>7. QED  BY <2>2, <2>3, <2>4, <2>5, <2>6
<1>7. QED  BY <1>1, <1>5, <1>6

LEMMA ForkSucceedsIInv ==
  ASSUME IInv, ForkSucceeds
  PROVE  IInv'
<1> DEFINE child == tasks_number + 1
<1>1. CASE ~ Room(2 + Cardinality(UNION {tables(v) : v \in Shared}))
  <2>1. Halt("oom", NoAccess)
    BY <1>1 DEF ForkSucceeds
  <2>2. QED  BY <2>1, HaltIInv
<1>2. CASE Room(2 + Cardinality(UNION {tables(v) : v \in Shared}))
  <2>1. /\ tasks_number' = child /\ tlb' = NoTlb /\ ref_cnt' = get_pages(ref_cnt)
        /\ UNCHANGED <<current, content, lost, pend, halted>>
    BY <1>2 DEF ForkSucceeds, sfence
  <2>2. /\ child \in Pids /\ current \in Pids /\ current # child
        /\ tasks_number \in Nat /\ current \in 1 .. tasks_number /\ NR_TASKS \in Nat
    BY SizeAssumption DEF IInv, TypeOK, Pids, ForkSucceeds
  <2>3. \A p \in Pids, u \in Pages :
          /\ u \notin Shared => pgd'[p][u] = pgd[p][u]
          /\ p \notin {child, current} => pgd'[p][u] = pgd[p][u]
          /\ u \in Shared /\ p \in {child, current} =>
               /\ pgd'[p][u].frame = pgd[current][u].frame
               /\ pgd'[p][u].perm = pgd[current][u].perm \ {"W"}
          /\ pgd[child][u] = Invalid
    BY <1>2, ForkEntries
  <2>4. pgd' \in [Pids -> [Pages -> PTE]]
    BY <1>2, ForkEntries
  <2>5. NoTlb \in [Pages -> PTE] /\ \A u \in Pages : NoTlb[u] = Invalid
    BY DEF NoTlb, PTE
  <2> DEFINE L == Len(mmap)
             b == tasks_number * L
             m == (NR_TASKS - 1) * L
             more(f) == Cardinality(Visits(f))
  <2>6. \A f \in Frames : /\ more(f) \in 0 .. L
                          /\ more(f) = 0 <=> Users(f)' = Users(f)
                          /\ more(f) > 0 =>
                               Cardinality(Users(f)') = Cardinality(Users(f)) + 1 /\ ref_cnt[f] # 0
    <3> TAKE f \in Frames
    <3>1. CASE Visits(f) = {} /\ Users(f)' = Users(f)
      BY <3>1, FS_EmptySet, Finiteness
    <3>2. CASE \E v \in Shared :
                 /\ Users(f)' = Users(f) \cup {<<child, v>>}
                 /\ <<child, v>> \notin Users(f)
                 /\ Users(f) # {}
                 /\ Visits(f) # {}
                 /\ Visits(f) \subseteq {v} \X Vmas
      <4>1. PICK v \in Shared :
                 /\ Users(f)' = Users(f) \cup {<<child, v>>}
                 /\ <<child, v>> \notin Users(f)
                 /\ Users(f) # {}
                 /\ Visits(f) # {}
                 /\ Visits(f) \subseteq {v} \X Vmas
        BY <3>2
      <4>2. IsFiniteSet({v} \X Vmas) /\ Cardinality({v} \X Vmas) = L
        <5>1. IsFiniteSet({v}) /\ Cardinality({v}) = 1
          BY FS_Singleton
        <5>2. /\ IsFiniteSet({v} \X Vmas)
              /\ Cardinality({v} \X Vmas) = Cardinality({v}) * Cardinality(Vmas)
          BY <5>1, FS_Product, Finiteness
        <5>3. QED  BY <5>1, <5>2, Finiteness
      <4>3. IsFiniteSet(Visits(f)) /\ more(f) <= L /\ more(f) \in Nat
        BY <4>1, <4>2, FS_Subset, FS_CardinalityType
      <4>4. more(f) # 0
        BY <4>1, <4>3, FS_EmptySet
      <4>5. Cardinality(Users(f)') = Cardinality(Users(f)) + 1
        BY <4>1, UsersFinite, FS_AddElement
      <4>6. ref_cnt[f] # 0
        BY <4>1, FewUsers DEF IInv
      <4>7. L \in Nat
        BY Finiteness
      <4>8. Users(f)' # Users(f)
        BY <4>1
      <4>9. QED  BY <4>3, <4>4, <4>5, <4>6, <4>7, <4>8
    <3>3. QED  BY <1>2, <3>1, <3>2, ForkUsers
  <2> HIDE DEF more
  <2>7. \A f \in Frames : ref_cnt'[f] = IF ref_cnt[f] = 0 THEN 0 ELSE ref_cnt[f] + more(f)
    BY <2>1 DEF get_pages, more
  <2>8. L \in Nat /\ b \in Nat /\ m \in Nat /\ b + L = child * L /\ child * L <= m
    <3>1. L \in Nat
      BY Finiteness
    <3>2. child <= NR_TASKS - 1 /\ child \in Nat
      BY <2>2 DEF Pids
    <3>3. QED  BY <2>2, <3>1, <3>2
  <2>9. \A f \in Frames : ref_cnt[f] \in Nat /\ ref_cnt[f] <= b
    BY Finiteness, SizeAssumption DEF IInv, TypeOK, RefBounded
  <2> DEFINE c == child * L
  <2> HIDE DEF b, m, c, L
  <2>10. \A f \in Frames : ref_cnt'[f] <= c /\ ref_cnt'[f] \in 0 .. m
    <3> TAKE f \in Frames
    <3>1. c \in Nat /\ b + L = c /\ c <= m
      BY <2>8 DEF c
    <3>2. more(f) \in Nat /\ more(f) <= L
      BY <2>6, <2>8
    <3>3. QED  BY <2>7, <2>8, <2>9, <3>1, <3>2
  <2>11. RefBounded'
    BY <2>1, <2>10 DEF RefBounded, c, L
  <2>12. ref_cnt' \in [Frames -> 0 .. m]
    BY <2>1, <2>10 DEF get_pages
  <2>13. TypeOK'
    BY <2>1, <2>2, <2>4, <2>5, <2>12 DEF IInv, TypeOK, m, L, Pids
  <2>14. RefCovers'
    <3> SUFFICES ASSUME NEW f \in Frames  PROVE  ref_cnt'[f] >= Cardinality(Users(f)')
      BY DEF RefCovers
    <3>1. ref_cnt[f] >= Cardinality(Users(f)) /\ Cardinality(Users(f)) \in Nat
      BY UsersFinite DEF IInv, RefCovers
    <3>2. CASE more(f) = 0
      BY <2>6, <2>7, <2>9, <3>1, <3>2
    <3>3. CASE more(f) # 0
      <4>1. more(f) \in Nat /\ more(f) >= 1
        BY <2>6, <2>8, <3>3
      <4>2. Cardinality(Users(f)') = Cardinality(Users(f)) + 1 /\ ref_cnt[f] # 0
        BY <2>6, <4>1
      <4>3. QED  BY <2>7, <2>9, <3>1, <4>1, <4>2
    <3>4. QED  BY <3>2, <3>3
  <2>15. Unborn'
    <3>1. \A p \in Pids : p > child => pgd'[p] = pgd[p]
      <4> SUFFICES ASSUME NEW p \in Pids, p > child  PROVE  pgd'[p] = pgd[p]
        OBVIOUS
      <4>1. p # current /\ p # child /\ p \in Nat
        BY <2>2 DEF Pids
      <4>2. \A u \in Pages : pgd'[p][u] = pgd[p][u]
        BY <2>3, <4>1
      <4>3. pgd'[p] \in [Pages -> PTE] /\ pgd[p] \in [Pages -> PTE]
        BY <2>4 DEF IInv, TypeOK
      <4>4. QED  BY <4>2, <4>3
    <3>2. QED  BY <2>1, <2>2, <3>1 DEF IInv, Unborn, NoTlb, Pids
  <2>16. OnePlace'
    <3>1. \A p \in Pids, u \in Pages :
            \/ pgd'[p][u].frame = pgd[p][u].frame
            \/ pgd'[p][u].frame = pgd[current][u].frame
      BY <2>3
    <3>2. QED  BY <2>2, <3>1 DEF IInv, OnePlace
  <2>17. WritableIsExclusive'
    <3> SUFFICES ASSUME NEW p \in Pids, NEW q \in Pids, NEW w \in Pages, NEW u \in Pages,
                        "W" \in pgd'[p][w].perm, pgd'[q][u].frame = pgd'[p][w].frame
                 PROVE  p = q /\ w = u
      BY DEF WritableIsExclusive
    <3>1. pgd'[p][w] = pgd[p][w] /\ (p = current => w \notin Shared)
      BY <2>3
    <3>2. "W" \in pgd[p][w].perm /\ pgd[p][w].frame \in Frames
      BY <3>1, EntryType DEF IInv
    <3>3. CASE u \in Shared /\ q \in {child, current}
      <4>1. pgd[current][u].frame = pgd[p][w].frame
        BY <2>3, <3>1, <3>3
      <4>2. p = current /\ w = u
        BY <2>2, <3>2, <4>1 DEF IInv, WritableIsExclusive
      <4>3. QED  BY <3>1, <3>3, <4>2
    <3>4. CASE ~ (u \in Shared /\ q \in {child, current})
      <4>1. pgd'[q][u] = pgd[q][u]
        BY <2>3, <3>4
      <4>2. QED  BY <3>1, <3>2, <4>1 DEF IInv, WritableIsExclusive
    <3>5. QED  BY <3>3, <3>4
  <2>18. TlbSafe'
    BY <2>1, <2>5 DEF TlbSafe
  <2>19. QED  BY <2>11, <2>13, <2>14, <2>15, <2>16, <2>17, <2>18 DEF IInv
<1>3. QED  BY <1>1, <1>2

LEMMA ForkFailsIInv ==
  ASSUME IInv, ForkFails
  PROVE  IInv'
<1>1. CASE ~ Room(1)
  <2>1. Halt("oom", NoAccess)
    BY <1>1 DEF ForkFails
  <2>2. QED  BY <2>1, HaltIInv
<1>2. CASE Room(1)
  <2>1. lost' = lost + 1 /\ UNCHANGED <<tasks_number, current, pgd, ref_cnt, content, tlb, pend, halted>>
    BY <1>2 DEF ForkFails
  <2>2. lost + 1 <= NPages
    BY <1>2, RoomLeavesFrames, 1 \in Nat DEF IInv
  <2>3. lost' \in 0 .. NPages
    BY <2>1, <2>2, SizeAssumption DEF IInv, TypeOK
  <2>4. TypeOK'
    BY <2>1, <2>3 DEF IInv, TypeOK
  <2>5. QED  BY <2>1, <2>4, TablesUnchanged
<1>3. QED  BY <1>1, <1>2

\* The timer and the switch.
LEMMA SwitchIInv ==
  ASSUME IInv, NEW t \in Pids, Switch(t)
  PROVE  IInv'
<1>1. NoTlb \in [Pages -> PTE] /\ \A u \in Pages : NoTlb[u] = Invalid
  BY DEF NoTlb, PTE
<1>2. /\ current' = t /\ t \in 1 .. tasks_number /\ tlb' = NoTlb
      /\ UNCHANGED <<tasks_number, pgd, ref_cnt, content, lost, pend, halted>>
  BY DEF Switch, sfence
<1>3. TypeOK'
  BY <1>1, <1>2 DEF IInv, TypeOK
<1>4. TlbSafe'
  BY <1>1, <1>2 DEF TlbSafe
<1>5. \A f : Users(f)' = Users(f)
  BY <1>2 DEF Users
<1>6. QED
  BY <1>2, <1>3, <1>4, <1>5
  DEF IInv, Unborn, OnePlace, RefBounded, RefCovers, WritableIsExclusive

LEMMA PageFaultIInv ==
  ASSUME IInv, NEW x \in Program, NEW vma \in SUBSET Containing(x.addr),
         do_page_fault(x, vma)
  PROVE  IInv'
<1>1. CASE BadAccess(x, vma)     BY <1>1, HaltIInv DEF BadAccess
<1>2. CASE FirstTouch(x, vma)    BY <1>2, FirstTouchIInv
<1>3. CASE MakeWritable(x, vma)  BY <1>3, MakeWritableIInv
<1>4. CASE CopyPage(x, vma)      BY <1>4, CopyPageIInv
<1>5. CASE NotCow(x, vma)        BY <1>5, HaltIInv DEF NotCow
<1>6. QED  BY <1>1, <1>2, <1>3, <1>4, <1>5 DEF do_page_fault

LEMMA StutterIInv == IInv /\ UNCHANGED vars => IInv'
<1> SUFFICES ASSUME IInv, UNCHANGED vars  PROVE  IInv'
  OBVIOUS
<1>1. TypeOK'
  BY DEF IInv, TypeOK, vars
<1>2. QED  BY <1>1, TablesUnchanged DEF vars

\* The steps of CowMemory, for any search of the list: found[x] is the area a
\* fault of x finds.  The steps of EagerFork are among them, but for do_fork's.
StepsIn(found) ==
  \/ \E x \in Program : Access(x) \/ do_page_fault(x, found[x])
  \/ do_cow_fork
  \/ \E t \in Pids : Switch(t)
  \/ Spin

\* It finds areas that contain the address.
Finds(found) == \A x \in Program : found[x] \in SUBSET Containing(x.addr)

First == [x \in Program |-> find_vma(x.addr)]

LEMMA NextSteps == Finds(First) /\ (Next => StepsIn(First))
<1>1. \A x \in Program : First[x] = find_vma(x.addr)
  BY DEF First
<1>2. QED  BY <1>1 DEF Finds, find_vma, Next, StepsIn, PageFault

\* Every step keeps the strengthening.
LEMMA StepsIInv ==
  ASSUME NEW found, Finds(found), IInv, [StepsIn(found)]_vars
  PROVE  IInv'
<1>1. ASSUME NEW x \in Program, Access(x)  PROVE IInv'
  BY <1>1, AccessIInv
<1>2. ASSUME NEW x \in Program, do_page_fault(x, found[x])  PROVE IInv'
  BY <1>2, PageFaultIInv DEF Finds
<1>3. CASE do_cow_fork
  BY <1>3, ForkFailsIInv, ForkSucceedsIInv DEF do_cow_fork
<1>4. ASSUME NEW t \in Pids, Switch(t)  PROVE IInv'
  BY <1>4, SwitchIInv
<1>5. CASE Spin \/ UNCHANGED vars
  BY <1>5, StutterIInv DEF Spin
<1>6. QED  BY <1>1, <1>2, <1>3, <1>4, <1>5 DEF StepsIn

LEMMA NextIInv == IInv /\ [Next]_vars => IInv'
BY NextSteps, StepsIInv

-----------------------------------------------------------------------------
\* The strengthening is an invariant of demand paging and copy-on-write.
THEOREM CowInvariant == Spec => []IInv
BY InitIInv, NextIInv, PTL DEF Spec

\* Entries lead to frames that exist, reference counts stay below one per
\* task and area, and no more pages are lost than there are.
THEOREM CowTypeOK == Spec => []TypeOK
<1>1. IInv => TypeOK  BY DEF IInv
<1>2. QED  BY <1>1, CowInvariant, PTL

\* Wherever the areas lie, a page has as many references as entries, or more:
\* page_ref_dec never frees a page that is still mapped.
THEOREM CowRefCovers == Spec => []RefCovers
<1>1. IInv => RefCovers  BY DEF IInv
<1>2. QED  BY <1>1, CowInvariant, PTL

\* No store of one task is seen by another: no page that is mapped writable is
\* mapped a second time.
THEOREM CowWritableIsExclusive == Spec => []WritableIsExclusive
<1>1. IInv => WritableIsExclusive  BY DEF IInv
<1>2. QED  BY <1>1, CowInvariant, PTL

\* The fences are where they are needed: what the hart has cached is never
\* more than the table of the running task says.
THEOREM CowTlbSafe == Spec => []TlbSafe
<1>1. IInv => TlbSafe  BY DEF IInv
<1>2. QED  BY <1>1, CowInvariant, PTL

-----------------------------------------------------------------------------
\* A copy-on-write fault gives back one reference of a page that has two or
\* more, and a fork only adds some.
LEMMA ReferencesStay ==
  ASSUME IInv, [Next]_vars, NEW f \in Frames, ref_cnt[f] > 0
  PROVE  ref_cnt'[f] > 0
<1>1. ref_cnt[f] \in Nat
  BY Finiteness, SizeAssumption DEF IInv, TypeOK
<1>2. CASE UNCHANGED ref_cnt
  BY <1>2
<1>3. ASSUME NEW x \in Program, NEW vma \in SUBSET Containing(x.addr),
         FirstTouch(x, vma), ~ UNCHANGED ref_cnt
      PROVE  ref_cnt'[f] > 0
  <2>1. Room(1 + Cardinality(tables(PageOf(x.addr)) \ TablesOf(pgd[current])))
    BY <1>3 DEF FirstTouch, Halt
  <2>2. \E g \in Frames : ref_cnt' = [ref_cnt EXCEPT ![g] = 1]
    BY <1>3, <2>1, FirstTouchEffect DEF MapsAnew
  <2>3. QED  BY <1>1, <2>2 DEF IInv, TypeOK
<1>4. ASSUME NEW x \in Program, NEW vma \in SUBSET Containing(x.addr),
         CopyPage(x, vma), ~ UNCHANGED ref_cnt
      PROVE  ref_cnt'[f] > 0
  <2> DEFINE e == pgd[current][PageOf(x.addr)]
  <2>1. Room(2)
    BY <1>4 DEF CopyPage, Halt
  <2>2. PICK g \in Frames, rc \in [Frames -> Nat] :
          /\ MapsAnew(PageOf(x.addr), g, e.perm \cup {"W"}, rc)
          /\ rc[e.frame] >= 1
    BY <1>4, <2>1, CopyPageEffect
  <2>3. /\ ref_cnt' = [rc EXCEPT ![g] = 1]
        /\ rc[f] = IF f = e.frame THEN ref_cnt[f] - 1 ELSE ref_cnt[f]
    BY <2>2 DEF MapsAnew
  <2>4. rc[f] >= 1
    BY <1>1, <2>2, <2>3
  <2>5. QED  BY <2>3, <2>4
<1>5. ASSUME ForkSucceeds, ~ UNCHANGED ref_cnt
      PROVE  ref_cnt'[f] > 0
  <2>1. /\ Room(2 + Cardinality(UNION {tables(v) : v \in Shared}))
        /\ ref_cnt'[f] = ref_cnt[f] + Cardinality(Visits(f))
    BY <1>1, <1>5 DEF ForkSucceeds, Halt, get_pages
  <2>2. Cardinality(Visits(f)) \in Nat
    <3>1. Visits(f) \in SUBSET (Pages \X Vmas)
      BY DEF Visits, Shared, Mapped
    <3>2. QED  BY <3>1, Finiteness, FS_Product, FS_Subset, FS_CardinalityType
  <2>3. QED  BY <1>1, <2>1, <2>2
<1>6. QED
  <2>1. ASSUME NEW x \in Program, Access(x) \/ do_page_fault(x, First[x])
        PROVE  ref_cnt'[f] > 0
    <3>1. First[x] \in SUBSET Containing(x.addr)
      BY NextSteps DEF Finds
    <3>2. QED
      BY <1>2, <1>3, <1>4, <2>1, <3>1
      DEF Access, do_page_fault, BadAccess, MakeWritable, NotCow, Halt
  <2>2. CASE do_cow_fork
    BY <1>2, <1>5, <2>2 DEF do_cow_fork, ForkFails, Halt
  <2>3. ASSUME NEW t \in Pids, Switch(t)
        PROVE  ref_cnt'[f] > 0
    BY <1>2, <2>3 DEF Switch
  <2>4. CASE Spin \/ UNCHANGED vars
    BY <1>2, <2>4 DEF Spin, vars
  <2>5. QED  BY <2>1, <2>2, <2>3, <2>4, NextSteps DEF StepsIn

\* A page that user entries were made for is never handed out a second time, so
\* that clearing 8 bytes of it (trap.c:128) is enough.
THEOREM CowNeverReused == Spec => NeverReused
<1>1. IInv /\ [Next]_vars => [\A f \in Frames : ref_cnt[f] > 0 => ref_cnt'[f] > 0]_vars
  BY ReferencesStay
<1>2. QED  BY <1>1, CowInvariant, PTL DEF Spec, NeverReused

-----------------------------------------------------------------------------
\* Where no two areas have a page in common, references and entries are as
\* many: the loop of do_cow_fork visits a page once.
LEMMA InitRefMatches == Init => RefMatches
<1> SUFFICES ASSUME Init, NEW f \in Frames  PROVE  ref_cnt[f] = Cardinality(Users(f))
  BY DEF RefMatches
<1>1. \A p \in Pids, v \in Pages : pgd[p][v].frame # f
  BY DEF Init, NoTlb, Invalid, Frames
<1>2. Users(f) = {}
  BY <1>1 DEF Users
<1>3. QED  BY <1>2, FS_EmptySet DEF Init

LEMMA MapsAnewMatches ==
  ASSUME IInv, RefMatches, NEW v \in Pages, NEW f \in Frames, NEW perm \in SUBSET Kinds, NEW rc,
         MapsAnew(v, f, perm, rc)
  PROVE  RefMatches'
<1> SUFFICES ASSUME NEW g \in Frames  PROVE  ref_cnt'[g] = Cardinality(Users(g)')
  BY DEF RefMatches
<1>1. /\ Users(f)' = {<<current, v>>}
      /\ \A h \in Frames \ {f} : Users(h)' = Users(h) \ {<<current, v>>}
  BY UsersAfterMapsAnew
<1>2. ref_cnt'[g] = IF g = f THEN 1
                    ELSE IF g = pgd[current][v].frame THEN ref_cnt[g] - 1 ELSE ref_cnt[g]
  BY DEF MapsAnew
<1>3. CASE g = f
  <2>1. Cardinality(Users(f)') = 1
    BY <1>1, FS_Singleton
  <2>2. QED  BY <1>2, <1>3, <2>1
<1>4. CASE g # f
  <2>1. current \in Pids
    BY SizeAssumption DEF IInv, TypeOK, Pids
  <2>2. Cardinality(Users(g)') =
          IF <<current, v>> \in Users(g) THEN Cardinality(Users(g)) - 1 ELSE Cardinality(Users(g))
    BY <1>1, <1>4, UsersFinite, FS_RemoveElement
  <2>3. <<current, v>> \in Users(g) <=> g = pgd[current][v].frame
    BY <2>1, UsersAre
  <2>4. QED  BY <1>2, <1>4, <2>2, <2>3 DEF RefMatches
<1>5. QED  BY <1>3, <1>4

LEMMA ForkMatches ==
  ASSUME AreasApart, IInv, RefMatches, ForkSucceeds,
         Room(2 + Cardinality(UNION {tables(v) : v \in Shared}))
  PROVE  RefMatches'
<1> SUFFICES ASSUME NEW f \in Frames  PROVE  ref_cnt'[f] = Cardinality(Users(f)')
  BY DEF RefMatches
<1>1. ref_cnt'[f] = IF ref_cnt[f] = 0 THEN 0 ELSE ref_cnt[f] + Cardinality(Visits(f))
  BY DEF ForkSucceeds, get_pages
<1>2. ref_cnt[f] = Cardinality(Users(f)) /\ Cardinality(Users(f)) \in Nat
  BY UsersFinite DEF RefMatches
<1>3. CASE Visits(f) = {} /\ Users(f)' = Users(f)
  BY <1>1, <1>2, <1>3, FS_EmptySet
<1>4. ASSUME NEW v \in Shared,
             Users(f)' = Users(f) \cup {<<tasks_number + 1, v>>},
             <<tasks_number + 1, v>> \notin Users(f),
             Users(f) # {}, Visits(f) # {}, Visits(f) \subseteq {v} \X Vmas
      PROVE  ref_cnt'[f] = Cardinality(Users(f)')
  <2>1. \A d, e \in Visits(f) : d = e
    <3> SUFFICES ASSUME NEW i \in Vmas, NEW j \in Vmas,
                        <<v, i>> \in Visits(f), <<v, j>> \in Visits(f)
                 PROVE  i = j
      BY <1>4
    <3>1. v \in vma_pages(i) /\ v \in vma_pages(j)
      BY DEF Visits
    <3>2. QED  BY <3>1 DEF AreasApart
  <2>2. Cardinality(Visits(f)) = 1
    <3>1. PICK d \in Visits(f) : TRUE
      BY <1>4
    <3>2. Visits(f) = {d}
      BY <2>1, <3>1
    <3>3. QED  BY <3>2, FS_Singleton
  <2>3. Cardinality(Users(f)') = Cardinality(Users(f)) + 1
    BY <1>4, UsersFinite, FS_AddElement
  <2>4. ref_cnt[f] # 0
    BY <1>2, <1>4, UsersFinite, FS_EmptySet
  <2>5. QED  BY <1>1, <1>2, <2>2, <2>3, <2>4
<1>5. QED  BY <1>3, <1>4, ForkUsers

LEMMA StepsRefMatches ==
  ASSUME NEW found, Finds(found), AreasApart, IInv, RefMatches, [StepsIn(found)]_vars
  PROVE  RefMatches'
<1>1. ASSUME UNCHANGED ref_cnt, \A p \in Pids, v \in Pages : pgd'[p][v].frame = pgd[p][v].frame
      PROVE  RefMatches'
  <2>1. \A f : Users(f)' = Users(f)
    BY <1>1 DEF Users
  <2>2. QED  BY <1>1, <2>1 DEF RefMatches
<1>2. CASE UNCHANGED <<pgd, ref_cnt>>
  BY <1>1, <1>2
<1>3. ASSUME NEW x \in Program, NEW vma \in SUBSET Containing(x.addr),
         FirstTouch(x, vma)
      PROVE  RefMatches'
  <2>1. CASE Room(1 + Cardinality(tables(PageOf(x.addr)) \ TablesOf(pgd[current])))
    <3>1. PICK f \in Frames, i \in vma :
             /\ MapsAnew(PageOf(x.addr), f, mmap[i].vm_flags, ref_cnt)
             /\ mmap[i].vm_flags \in SUBSET Kinds
      BY <1>3, <2>1, FirstTouchEffect
    <3>2. QED  BY <3>1, AccessType, MapsAnewMatches
  <2>2. QED  BY <1>2, <1>3, <2>1 DEF FirstTouch, Halt
<1>4. ASSUME NEW x \in Program, NEW vma \in SUBSET Containing(x.addr),
         MakeWritable(x, vma)
      PROVE  RefMatches'
  <2> DEFINE v == PageOf(x.addr)
  <2>1. CASE UNCHANGED <<pgd, ref_cnt>>
    BY <1>2, <2>1
  <2>2. CASE Room(1)
    <3> DEFINE e == pgd[current][v]
    <3>1. \A p \in Pids, u \in Pages : pgd'[p][u].frame = pgd[p][u].frame
      <4>1. \A p \in Pids, u \in Pages :
              pgd'[p][u] = IF p = current /\ u = v
                           THEN [frame |-> e.frame, perm |-> e.perm \cup {"W"}] ELSE pgd[p][u]
        BY <1>4, <2>2, MakeWritableEntries
      <4>2. QED  BY <4>1
    <3>2. UNCHANGED ref_cnt
      BY <1>4, <2>2 DEF MakeWritable
    <3>3. QED  BY <1>1, <3>1, <3>2
  <2>3. QED  BY <1>4, <2>1, <2>2 DEF MakeWritable, Halt
<1>5. ASSUME NEW x \in Program, NEW vma \in SUBSET Containing(x.addr),
         CopyPage(x, vma)
      PROVE  RefMatches'
  <2> DEFINE e == pgd[current][PageOf(x.addr)]
  <2>1. CASE Room(2)
    <3>1. PICK f \in Frames, rc \in [Frames -> Nat] :
            /\ MapsAnew(PageOf(x.addr), f, e.perm \cup {"W"}, rc)
            /\ e.perm \cup {"W"} \in SUBSET Kinds
      BY <1>5, <2>1, CopyPageEffect
    <3> HIDE DEF e
    <3>2. QED  BY <3>1, AccessType, MapsAnewMatches
  <2>2. QED  BY <1>2, <1>5, <2>1 DEF CopyPage, Halt
<1>6. CASE do_cow_fork
  <2>1. CASE ForkSucceeds
    BY <1>2, <2>1, ForkMatches DEF ForkSucceeds, Halt
  <2>2. CASE ForkFails
    BY <1>2, <2>2 DEF ForkFails, Halt
  <2>3. QED  BY <1>6, <2>1, <2>2 DEF do_cow_fork
<1>7. QED
  <2>1. ASSUME NEW x \in Program, Access(x) \/ do_page_fault(x, found[x])
        PROVE  RefMatches'
    <3>1. found[x] \in SUBSET Containing(x.addr)
      BY DEF Finds
    <3>2. QED
      BY <1>2, <1>3, <1>4, <1>5, <2>1, <3>1 DEF Access, do_page_fault, BadAccess, NotCow, Halt
  <2>2. ASSUME NEW t \in Pids, Switch(t)
        PROVE  RefMatches'
    BY <1>2, <2>2 DEF Switch
  <2>3. CASE Spin \/ UNCHANGED vars
    BY <1>2, <2>3 DEF Spin, vars
  <2>4. QED  BY <1>6, <2>1, <2>2, <2>3 DEF StepsIn

\* Where no two areas have a page in common, the only user of a page is always
\* recognised as such: references and entries are as many.
THEOREM CowRefMatches ==
  ASSUME AreasApart
  PROVE  Spec => []RefMatches
<1>1. Init => RefMatches
  BY InitRefMatches
<1>2. IInv /\ RefMatches /\ [Next]_vars => RefMatches'
  BY NextSteps, StepsRefMatches
<1>3. QED  BY <1>1, <1>2, CowInvariant, PTL DEF Spec

-----------------------------------------------------------------------------
\* Where areas that have a page in common agree on its permissions, an entry
\* has those of its areas, but for the W that fork takes away.
EntriesFollowAreas ==
  \A p \in Pids, v \in Pages, j \in Vmas :
    v \in vma_pages(j) /\ pgd[p][v] # Invalid =>
      /\ pgd[p][v].perm \ {"W"} = mmap[j].vm_flags \ {"W"}
      /\ "W" \in pgd[p][v].perm => "W" \in mmap[j].vm_flags

LEMMA InitEntries == Init => EntriesFollowAreas
BY DEF Init, EntriesFollowAreas, NoTlb

\* What an allowed access finds in its area is in all areas of its page.
Agree(found) ==
  \A x \in Program : \A i \in found[x], j \in Vmas :
    PageOf(x.addr) \in vma_pages(j) => mmap[i].vm_flags = mmap[j].vm_flags

LEMMA StepsEntries ==
  ASSUME NEW found, Finds(found), Agree(found),
         IInv, EntriesFollowAreas, [StepsIn(found)]_vars
  PROVE  EntriesFollowAreas'
<1>1. CASE UNCHANGED pgd
  BY <1>1 DEF EntriesFollowAreas
<1>2. current \in Pids
  BY SizeAssumption DEF IInv, TypeOK, Pids
<1>3. ASSUME NEW x \in Program, NEW i \in found[x], NEW j \in Vmas,
             PageOf(x.addr) \in vma_pages(j)
      PROVE  mmap[i].vm_flags = mmap[j].vm_flags
  BY <1>3 DEF Agree
<1>4. ASSUME NEW x \in Program,  FirstTouch(x, found[x])
      PROVE  EntriesFollowAreas'
  <2> DEFINE v == PageOf(x.addr)
  <2>1. CASE Room(1 + Cardinality(tables(v) \ TablesOf(pgd[current])))
    <3>1. PICK f \in Frames, i \in found[x] :
             /\ MapsAnew(v, f, mmap[i].vm_flags, ref_cnt)
             /\ mmap[i].vm_flags \in SUBSET Kinds
      BY <1>4, <2>1, FirstTouchEffect DEF Finds
    <3>2. v \in Pages
      BY AccessType
    <3>3. \A p \in Pids, u \in Pages :
            pgd'[p][u] = IF p = current /\ u = v THEN [frame |-> f, perm |-> mmap[i].vm_flags]
                         ELSE pgd[p][u]
      BY <3>1, <3>2, UsersAfterMapsAnew
    <3>4. QED  BY <1>3, <3>3 DEF EntriesFollowAreas
  <2>2. QED  BY <1>1, <1>4, <2>1 DEF FirstTouch, Halt
<1>5. ASSUME NEW x \in Program, NEW g, CowFault(x), Allowed(x, found[x]),
             pgd[current][PageOf(x.addr)] # Invalid,
             \A p \in Pids, u \in Pages :
               pgd'[p][u] = IF p = current /\ u = PageOf(x.addr)
                            THEN [frame |-> g,
                                  perm |-> pgd[current][PageOf(x.addr)].perm \cup {"W"}]
                            ELSE pgd[p][u]
      PROVE  EntriesFollowAreas'
  <2> DEFINE v == PageOf(x.addr)
             e == pgd[current][v]
  <2>1. PICK i \in found[x] : "W" \in mmap[i].vm_flags
    BY <1>5 DEF Allowed, CowFault
  <2>2. SUFFICES ASSUME NEW p \in Pids, NEW u \in Pages, NEW j \in Vmas,
                        u \in vma_pages(j), pgd'[p][u] # Invalid
                 PROVE  /\ pgd'[p][u].perm \ {"W"} = mmap[j].vm_flags \ {"W"}
                        /\ "W" \in pgd'[p][u].perm => "W" \in mmap[j].vm_flags
    BY DEF EntriesFollowAreas
  <2>3. CASE p = current /\ u = v
    <3>1. mmap[i].vm_flags = mmap[j].vm_flags
      BY <1>3, <2>2, <2>3
    <3>2. e.perm \ {"W"} = mmap[j].vm_flags \ {"W"}
      BY <1>2, <1>5, <2>2, <2>3 DEF EntriesFollowAreas
    <3>3. pgd'[p][u].perm = e.perm \cup {"W"}
      BY <1>5, <2>2, <2>3
    <3> HIDE DEF e
    <3>4. QED  BY <2>1, <3>1, <3>2, <3>3
  <2>4. CASE ~ (p = current /\ u = v)
    BY <1>5, <2>2, <2>4 DEF EntriesFollowAreas
  <2>5. QED  BY <2>3, <2>4
<1>6. ASSUME NEW x \in Program,  MakeWritable(x, found[x])
      PROVE  EntriesFollowAreas'
  <2> DEFINE v == PageOf(x.addr)
  <2>1. CASE Room(1)
    <3>1. \A p \in Pids, u \in Pages :
            pgd'[p][u] = IF p = current /\ u = v
                         THEN [frame |-> pgd[current][v].frame,
                               perm |-> pgd[current][v].perm \cup {"W"}]
                         ELSE pgd[p][u]
      BY <1>6, <2>1, MakeWritableEntries DEF Finds
    <3>2. QED  BY <1>5, <1>6, <3>1 DEF MakeWritable
  <2>2. QED  BY <1>1, <1>6, <2>1 DEF MakeWritable, Halt
<1>7. ASSUME NEW x \in Program,  CopyPage(x, found[x])
      PROVE  EntriesFollowAreas'
  <2> DEFINE v == PageOf(x.addr)
             e == pgd[current][v]
  <2>1. CASE Room(2)
    <3>1. PICK f \in Frames, rc \in [Frames -> Nat] :
            /\ MapsAnew(v, f, e.perm \cup {"W"}, rc)
            /\ e.perm \cup {"W"} \in SUBSET Kinds
      BY <1>7, <2>1, CopyPageEffect DEF Finds
    <3>2. v \in Pages
      BY AccessType
    <3>3. \A p \in Pids, u \in Pages :
            pgd'[p][u] = IF p = current /\ u = v THEN [frame |-> f, perm |-> e.perm \cup {"W"}]
                         ELSE pgd[p][u]
      <4> DEFINE perm == e.perm \cup {"W"}
      <4>1. perm \in SUBSET Kinds /\ MapsAnew(v, f, perm, rc)
        BY <3>1
      <4> HIDE DEF e, v, perm
      <4>2. \A p \in Pids, u \in Pages :
              pgd'[p][u] = IF p = current /\ u = v THEN [frame |-> f, perm |-> perm]
                           ELSE pgd[p][u]
        BY <3>2, <4>1, UsersAfterMapsAnew
      <4>3. QED  BY <4>2 DEF perm
    <3>4. QED  BY <1>5, <1>7, <3>3 DEF CopyPage
  <2>2. QED  BY <1>1, <1>7, <2>1 DEF CopyPage, Halt
<1>8. CASE do_cow_fork
  <2>1. CASE ForkSucceeds /\ Room(2 + Cardinality(UNION {tables(v) : v \in Shared}))
    <3>1. SUFFICES ASSUME NEW p \in Pids, NEW u \in Pages, NEW j \in Vmas,
                          u \in vma_pages(j), pgd'[p][u] # Invalid
                   PROVE  /\ pgd'[p][u].perm \ {"W"} = mmap[j].vm_flags \ {"W"}
                          /\ "W" \in pgd'[p][u].perm => "W" \in mmap[j].vm_flags
      BY DEF EntriesFollowAreas
    <3>2. CASE u \in Shared /\ p \in {tasks_number + 1, current}
      <4>1. pgd'[p][u].perm = pgd[current][u].perm \ {"W"}
        BY <2>1, <3>2, ForkEntries
      <4>2. pgd[current][u] # Invalid
        BY <3>2 DEF Shared, Mapped
      <4>3. pgd[current][u].perm \ {"W"} = mmap[j].vm_flags \ {"W"}
        BY <1>2, <3>1, <4>2 DEF EntriesFollowAreas
      <4>4. QED  BY <4>1, <4>3
    <3>3. CASE ~ (u \in Shared /\ p \in {tasks_number + 1, current})
      <4>1. pgd'[p][u] = pgd[p][u]
        BY <2>1, <3>3, ForkEntries
      <4>2. QED  BY <3>1, <4>1 DEF EntriesFollowAreas
    <3>4. QED  BY <3>2, <3>3
  <2>2. QED  BY <1>1, <1>8, <2>1 DEF do_cow_fork, ForkSucceeds, ForkFails, Halt
<1>9. QED
  <2>1. ASSUME NEW x \in Program, Access(x) \/ do_page_fault(x, found[x])
        PROVE  EntriesFollowAreas'
    BY <1>1, <1>4, <1>6, <1>7, <2>1 DEF Access, do_page_fault, BadAccess, NotCow, Halt
  <2>2. ASSUME NEW t \in Pids, Switch(t)
        PROVE  EntriesFollowAreas'
    BY <1>1, <2>2 DEF Switch
  <2>3. CASE Spin \/ UNCHANGED vars
    BY <1>1, <2>3 DEF Spin, vars
  <2>4. QED  BY <1>8, <2>1, <2>2, <2>3 DEF StepsIn

LEMMA FirstAgrees ==
  ASSUME SamePermission
  PROVE  Agree(First)
BY DEF SamePermission, Agree, First

LEMMA NextEntries ==
  ASSUME SamePermission, IInv, EntriesFollowAreas, [Next]_vars
  PROVE  EntriesFollowAreas'
BY NextSteps, FirstAgrees, StepsEntries

\* Where each area lies below the ones before it, find_vma finds the area that
\* a legal access is in, and the access's page is one of the area's.
LEMMA LegalFindsArea ==
  ASSUME AreasDescend, NEW x \in Program, Legal(x)
  PROVE  \E i \in find_vma(x.addr) : /\ x.kind \in mmap[i].vm_flags
                                     /\ PageOf(x.addr) \in vma_pages(i)
<1>1. PICK i \in Vmas : /\ mmap[i].vm_start <= x.addr /\ x.addr < mmap[i].vm_end
                        /\ x.kind \in mmap[i].vm_flags
  BY DEF Legal
<1>2. x.addr \in Nat /\ PGSIZE \in Nat \ {0}
  BY SizeAssumption, ProgramAssumption
<1>3. mmap[i].vm_start \in Nat /\ mmap[i].vm_end \in Nat /\ i \in Nat
  BY AreaType, ProgramAssumption DEF Vmas
<1>4. ASSUME NEW j \in Vmas, mmap[j].vm_start <= x.addr, x.addr <= mmap[j].vm_end
      PROVE  i <= j
  <2>1. j \in Nat /\ mmap[j].vm_start \in Nat
    BY AreaType, ProgramAssumption DEF Vmas
  <2>2. j < i => mmap[i].vm_end <= mmap[j].vm_start
    BY DEF AreasDescend
  <2>3. QED  BY <1>1, <1>2, <1>3, <1>4, <2>1, <2>2
<1>5. i \in find_vma(x.addr)
  <2>1. i \in Containing(x.addr)
    BY <1>1, <1>2, <1>3 DEF Containing
  <2>2. \A j \in Containing(x.addr) : i <= j
    BY <1>4 DEF Containing
  <2>3. QED  BY <2>1, <2>2 DEF find_vma
<1>6. PageOf(x.addr) \in vma_pages(i)
  <2>1. PageOf(mmap[i].vm_start) <= PageOf(x.addr)
    BY <1>1, <1>2, <1>3, DivMonotone DEF PageOf
  <2>2. PGSIZE * PageOf(x.addr) <= x.addr /\ PageOf(x.addr) \in Nat
    BY <1>2, DivBounds DEF PageOf
  <2>3. PageOf(x.addr) * PGSIZE < mmap[i].vm_end
    <3> DEFINE v == PageOf(x.addr)
    <3> HIDE DEF v
    <3>1. v \in Nat => v * PGSIZE = PGSIZE * v
      BY <1>2
    <3>2. QED  BY <1>1, <1>2, <1>3, <2>2, <3>1 DEF v
  <2>4. QED  BY <2>1, <2>3, AccessType DEF vma_pages
<1>7. QED  BY <1>1, <1>5, <1>6

\* Each way into untrapped_handler: the access is not legal.
LEMMA FaultIsIllegal ==
  ASSUME AreasDescend, SamePermission, ~ StrictTlb, IInv, EntriesFollowAreas,
         NEW x \in Program, Faults(x),
         BadAccess(x, find_vma(x.addr)) \/ NotCow(x, find_vma(x.addr))
  PROVE  ~ Legal(x)
<1> SUFFICES ASSUME Legal(x)  PROVE  FALSE
  OBVIOUS
<1>1. PICK i \in find_vma(x.addr) : /\ x.kind \in mmap[i].vm_flags
                                    /\ PageOf(x.addr) \in vma_pages(i)
  BY LegalFindsArea
<1>2. CASE BadAccess(x, find_vma(x.addr))
  BY <1>1, <1>2 DEF BadAccess, Allowed
<1>3. CASE NotCow(x, find_vma(x.addr))
  <2> DEFINE v == PageOf(x.addr)
             e == pgd[current][v]
  <2>1. e # Invalid /\ ~ CowFault(x)
    BY <1>3 DEF NotCow
  <2>2. x.kind \notin e.perm
    BY DEF Faults, Grants
  <2>3. x.kind # "W"
    BY <2>1, <2>2 DEF CowFault
  <2>4. i \in Vmas /\ current \in Pids /\ v \in Pages
    BY <1>1, AccessType, SizeAssumption DEF find_vma, Containing, IInv, TypeOK, Pids
  <2>5. e.perm \ {"W"} = mmap[i].vm_flags \ {"W"}
    BY <1>1, <2>1, <2>4 DEF EntriesFollowAreas
  <2>6. x.kind \in e.perm
    <3> HIDE DEF e
    <3>1. QED  BY <1>1, <2>3, <2>5
  <2>7. QED  BY <2>2, <2>6
<1>4. QED  BY <1>2, <1>3

LEMMA NextStopped ==
  ASSUME AreasDescend, SamePermission, ~ StrictTlb, IInv, EntriesFollowAreas,
         StoppedOnlyIfIllegal, [Next]_vars
  PROVE  StoppedOnlyIfIllegal'
<1>1. CASE UNCHANGED vars
  BY <1>1 DEF vars, StoppedOnlyIfIllegal, Legal
<1>2. CASE halted' # "fault"
  BY <1>2 DEF StoppedOnlyIfIllegal
<1>3. ASSUME NEW x \in Program, PageFault(x)
      PROVE  StoppedOnlyIfIllegal'
  <2>1. CASE BadAccess(x, find_vma(x.addr)) \/ NotCow(x, find_vma(x.addr))
    <3>1. current \in Pids /\ pend' = [pend EXCEPT ![current] = x] /\ current' = current
      BY <2>1, SizeAssumption DEF BadAccess, NotCow, Halt, IInv, TypeOK, Pids
    <3>2. pend'[current'] = x
      BY <3>1 DEF IInv, TypeOK
    <3>3. ~ Legal(x)
      BY <1>3, <2>1, FaultIsIllegal DEF PageFault, do_page_fault
    <3>4. QED  BY <3>2, <3>3 DEF StoppedOnlyIfIllegal, Legal
  <2>2. CASE ~ (BadAccess(x, find_vma(x.addr)) \/ NotCow(x, find_vma(x.addr)))
    <3>1. halted = "no"
      BY <1>3 DEF PageFault, do_page_fault, Issues
    <3>2. halted' # "fault"
      BY <1>3, <2>2, <3>1 DEF PageFault, do_page_fault, FirstTouch, MakeWritable, CopyPage, Halt
    <3>3. QED  BY <1>2, <3>2
  <2>3. QED  BY <2>1, <2>2
<1>4. QED
  <2>1. ASSUME NEW x \in Program, Access(x)
        PROVE  StoppedOnlyIfIllegal'
    BY <1>2, <2>1 DEF Access, Issues
  <2>2. CASE do_cow_fork
    BY <1>2, <2>2 DEF do_cow_fork, ForkSucceeds, ForkFails, Halt
  <2>3. ASSUME NEW t \in Pids, Switch(t)
        PROVE  StoppedOnlyIfIllegal'
    BY <1>2, <2>3 DEF Switch
  <2>4. CASE Spin
    BY <1>1, <2>4 DEF Spin
  <2>5. QED  BY <1>1, <1>3, <2>1, <2>2, <2>3, <2>4 DEF Next

\* Where areas that have a page in common agree on its permissions, the image
\* is in order and the hart reads its tables again before it faults, nobody
\* ends up in untrapped_handler for a legal access (trap.c:233).
THEOREM CowStoppedOnlyIfIllegal ==
  ASSUME AreasDescend, SamePermission, ~ StrictTlb
  PROVE  Spec => []StoppedOnlyIfIllegal
<1>1. Init => EntriesFollowAreas /\ StoppedOnlyIfIllegal
  BY InitEntries DEF Init, StoppedOnlyIfIllegal
<1>2. IInv /\ EntriesFollowAreas /\ StoppedOnlyIfIllegal /\ [Next]_vars
        => EntriesFollowAreas' /\ StoppedOnlyIfIllegal'
  BY NextEntries, NextStopped
<1>3. QED  BY <1>1, <1>2, CowInvariant, PTL DEF Spec

-----------------------------------------------------------------------------
\* CowMemory implements PrivateMemory.

\* What task p finds in page v is what its own entry leads to, also when it
\* goes through the TLB.
LEMMA ViewIs ==
  ASSUME IInv, NEW p \in Pids, NEW v \in Pages
  PROVE  View(p, v) = IF pgd[p][v] # Invalid THEN content[pgd[p][v].frame] ELSE Untouched
<1>1. CASE p = current /\ tlb[v] # Invalid
  <2>1. tlb[v].frame = pgd[p][v].frame /\ tlb[v] \in PTE
    BY <1>1 DEF IInv, TlbSafe, TypeOK
  <2>2. pgd[p][v] # Invalid
    BY <1>1, <2>1 DEF PTE, Invalid, Frames
  <2>3. QED  BY <1>1, <2>1, <2>2 DEF View
<1>2. CASE ~ (p = current /\ tlb[v] # Invalid)
  BY <1>2 DEF View
<1>3. QED  BY <1>1, <1>2

LEMMA ViewIsAfter ==
  ASSUME IInv', NEW p \in Pids, NEW v \in Pages
  PROVE  View(p, v)' = IF pgd'[p][v] # Invalid THEN content'[pgd'[p][v].frame] ELSE Untouched
<1>1. CASE p = current' /\ tlb'[v] # Invalid
  <2>1. tlb'[v].frame = pgd'[p][v].frame /\ tlb'[v] \in PTE
    BY <1>1 DEF IInv, TlbSafe, TypeOK
  <2>2. pgd'[p][v] # Invalid
    BY <1>1, <2>1 DEF PTE, Invalid, Frames
  <2>3. QED  BY <1>1, <2>1, <2>2 DEF View
<1>2. CASE ~ (p = current' /\ tlb'[v] # Invalid)
  BY <1>2 DEF View
<1>3. QED  BY <1>1, <1>2

\* The memory of all tasks, as PrivateMemory has it.
Memory == [p \in Pids |-> [v \in UserPages |-> View(p, v)]]

LEMMA UserPagesArePages == UserPages \subseteq Pages
BY DEF UserPages, vma_pages

LEMMA ViewType ==
  ASSUME IInv, NEW p \in Pids, NEW v \in Pages
  PROVE  View(p, v) = Untouched <=> pgd[p][v] = Invalid
<1>1. pgd[p][v] # Invalid => content[pgd[p][v].frame] \in Values
  BY EntryType DEF IInv, TypeOK
<1>2. QED  BY <1>1, ViewIs, ProgramAssumption

\* A step that leaves each view as it is, and makes no task, is a stutter.
LEMMA SameViews ==
  ASSUME UNCHANGED tasks_number,
         \A p \in Pids, v \in UserPages : View(p, v)' = View(p, v)
  PROVE  UNCHANGED Private!vars
<1>1. Memory' = Memory
  BY DEF Memory
<1>2. QED  BY <1>1 DEF Memory, Private!vars

\* A step that changes the view of one page is a step of PrivateMemory that
\* gives this page that content.
LEMMA OneView ==
  ASSUME NEW q \in Pids, NEW u \in UserPages, NEW val,
         \A p \in Pids, v \in UserPages :
           View(p, v)' = IF p = q /\ v = u THEN val ELSE View(p, v)
  PROVE  Memory' = [Memory EXCEPT ![q][u] = val]
<1>1. Memory' = [p \in Pids |-> [v \in UserPages |-> IF p = q /\ v = u THEN val ELSE View(p, v)]]
  BY DEF Memory
<1>2. [Memory EXCEPT ![q][u] = val]
        = [p \in Pids |-> [v \in UserPages |-> IF p = q /\ v = u THEN val ELSE View(p, v)]]
  BY DEF Memory
<1>3. QED  BY <1>1, <1>2

\* A store goes to a page that only its task sees.
LEMMA AccessRefines ==
  ASSUME IInv, IInv', EntriesFollowAreas, NEW x \in Program, Access(x)
  PROVE  Private!Next \/ UNCHANGED Private!vars
<1> DEFINE v == PageOf(x.addr)
           e == translate(x)
<1>1. v \in Pages /\ current \in Pids /\ current \in 1 .. tasks_number
  BY AccessType, SizeAssumption DEF IInv, TypeOK, Pids
<1>2. /\ e.frame \in Frames /\ e.frame = pgd[current][v].frame
      /\ x.kind \in e.perm /\ e.perm \subseteq pgd[current][v].perm
  BY TranslateType DEF Access, Grants
<1> HIDE DEF e
<1>3. /\ UNCHANGED <<tasks_number, pgd>>
      /\ IF x.kind = "W" THEN \E val \in Values : content' = [content EXCEPT ![e.frame] = val]
                         ELSE UNCHANGED content
  BY DEF Access, e
<1>4. CASE x.kind # "W"
  <2>1. \A p \in Pids, u \in UserPages : View(p, u)' = View(p, u)
    BY <1>3, <1>4, ViewIs, ViewIsAfter, UserPagesArePages
  <2>2. QED  BY <1>3, <2>1, SameViews
<1>5. CASE x.kind = "W"
  <2>1. PICK val \in Values : content' = [content EXCEPT ![e.frame] = val]
    BY <1>3, <1>5
  <2>2. \A p \in Pids, u \in Pages :
          pgd[p][u] # Invalid =>
            content'[pgd[p][u].frame] = IF p = current /\ u = v THEN val
                                        ELSE content[pgd[p][u].frame]
    <3> TAKE p \in Pids, u \in Pages
    <3>1. pgd[p][u].frame = e.frame => p = current /\ u = v
      BY <1>1, <1>2, <1>5 DEF IInv, WritableIsExclusive
    <3>2. pgd[p][u] # Invalid => pgd[p][u].frame \in Frames
      BY EntryType DEF IInv
    <3>3. content \in [Frames -> Values]
      BY DEF IInv, TypeOK
    <3>4. QED  BY <1>2, <2>1, <3>1, <3>2, <3>3
  <2>3. pgd[current][v] # Invalid
    BY <1>1, <1>2, EntryType DEF IInv
  <2>4. \A p \in Pids, u \in Pages :
          View(p, u)' = IF p = current /\ u = v THEN val ELSE View(p, u)
    BY <1>3, <2>2, <2>3, ViewIs, ViewIsAfter
  <2>5. CASE v \in UserPages
    <3>1. v \in UNION {vma_pages(i) : i \in {j \in Vmas : "W" \in mmap[j].vm_flags}}
      <4>1. PICK i \in Vmas : v \in vma_pages(i)
        BY <2>5 DEF UserPages
      <4>2. "W" \in mmap[i].vm_flags
        BY <1>1, <1>2, <1>5, <2>3, <4>1 DEF EntriesFollowAreas
      <4>3. QED  BY <4>1, <4>2
    <3>2. Memory' = [Memory EXCEPT ![current][v] = val]
      BY <1>1, <2>4, <2>5, OneView, UserPagesArePages
    <3>3. Memory[current][v] # Untouched
      BY <1>1, <2>3, <2>5, ViewType DEF Memory
    <3>4. Private!Store(current, v)
      BY <1>1, <1>3, <3>1, <3>2, <3>3 DEF Private!Store, Memory
    <3>5. QED  BY <1>1, <2>5, <3>4 DEF Private!Next
  <2>6. CASE v \notin UserPages
    BY <1>3, <2>4, <2>6, SameViews, UserPagesArePages
  <2>7. QED  BY <2>5, <2>6
<1>6. QED  BY <1>4, <1>5

\* A page comes into being for the task that touches it.
LEMMA FirstTouchRefines ==
  ASSUME IInv, IInv', NEW x \in Program, NEW vma \in SUBSET Containing(x.addr),
         FirstTouch(x, vma)
  PROVE  Private!Next \/ UNCHANGED Private!vars
<1> DEFINE v == PageOf(x.addr)
<1>1. v \in Pages /\ current \in Pids /\ current \in 1 .. tasks_number
  BY AccessType, SizeAssumption DEF IInv, TypeOK, Pids
<1>2. CASE ~ Room(1 + Cardinality(tables(v) \ TablesOf(pgd[current])))
  <2>1. UNCHANGED <<tasks_number, pgd, content>>
    BY <1>2 DEF FirstTouch, Halt
  <2>2. \A p \in Pids, u \in UserPages : View(p, u)' = View(p, u)
    BY <2>1, ViewIs, ViewIsAfter, UserPagesArePages
  <2>3. QED  BY <2>1, <2>2, SameViews
<1>3. CASE Room(1 + Cardinality(tables(v) \ TablesOf(pgd[current])))
  <2>1. PICK f \in Frames, i \in vma :
           /\ MapsAnew(v, f, mmap[i].vm_flags, ref_cnt)
           /\ mmap[i].vm_flags \in SUBSET Kinds
           /\ \E val \in Values : content' = [content EXCEPT ![f] = val]
           /\ UNCHANGED tasks_number
    BY <1>3, FirstTouchEffect
  <2>2. PICK val \in Values : content' = [content EXCEPT ![f] = val]
    BY <2>1
  <2>3. \A p \in Pids, u \in Pages :
          pgd'[p][u] = IF p = current /\ u = v THEN [frame |-> f, perm |-> mmap[i].vm_flags]
                       ELSE pgd[p][u]
    BY <1>1, <2>1, UsersAfterMapsAnew
  <2>4. \A p \in Pids, u \in Pages : pgd[p][u].frame # f
    <3>1. Users(f) = {}
      BY <2>1, FewUsers DEF IInv, MapsAnew
    <3>2. QED  BY <3>1, UsersAre
  <2>5. \A p \in Pids, u \in Pages :
          View(p, u)' = IF p = current /\ u = v THEN val ELSE View(p, u)
    <3> TAKE p \in Pids, u \in Pages
    <3>1. content \in [Frames -> Values] /\ content'[f] = val
      BY <2>2 DEF IInv, TypeOK
    <3>2. [frame |-> f, perm |-> mmap[i].vm_flags] # Invalid
      BY DEF Invalid, Frames
    <3>3. pgd[p][u] # Invalid => content'[pgd[p][u].frame] = content[pgd[p][u].frame]
      BY <2>2, <2>4, <3>1, EntryType DEF IInv
    <3>4. QED  BY <2>3, <3>1, <3>2, <3>3, ViewIs, ViewIsAfter
  <2>6. CASE v \in UserPages
    <3>1. Memory' = [Memory EXCEPT ![current][v] = val]
      BY <1>1, <2>5, <2>6, OneView, UserPagesArePages
    <3>2. Memory[current][v] = Untouched
      <4>1. View(current, v) = Untouched
        BY <1>1, ViewType DEF FirstTouch
      <4>2. QED  BY <1>1, <2>6, <4>1 DEF Memory
    <3>3. Private!Touch(current, v)
      BY <1>1, <2>1, <3>1, <3>2 DEF Private!Touch, Memory
    <3>4. QED  BY <1>1, <2>6, <3>3 DEF Private!Next
  <2>7. CASE v \notin UserPages
    BY <2>1, <2>5, <2>7, SameViews, UserPagesArePages
  <2>8. QED  BY <2>6, <2>7
<1>4. QED  BY <1>2, <1>3

\* Copy-on-write is invisible: the page made writable is the same, the copy
\* holds what the page held.
LEMMA CopyRefines ==
  ASSUME IInv, IInv', NEW x \in Program, NEW vma \in SUBSET Containing(x.addr),
         MakeWritable(x, vma) \/ CopyPage(x, vma)
  PROVE  UNCHANGED Private!vars
<1> DEFINE v == PageOf(x.addr)
           e == pgd[current][v]
<1>1. v \in Pages /\ current \in Pids
  BY AccessType, SizeAssumption DEF IInv, TypeOK, Pids
<1>2. UNCHANGED tasks_number
  BY DEF MakeWritable, CopyPage, Halt
<1>3. ASSUME NEW p \in Pids, NEW u \in Pages
      PROVE  View(p, u)' = View(p, u)
  <2>1. CASE UNCHANGED <<pgd, content>>
    BY <2>1, ViewIs, ViewIsAfter
  <2>2. CASE MakeWritable(x, vma) /\ Room(1)
    <3>1. pgd'[p][u] = IF p = current /\ u = v
                       THEN [frame |-> e.frame, perm |-> e.perm \cup {"W"}] ELSE pgd[p][u]
      BY <2>2, MakeWritableEntries
    <3>2. UNCHANGED content /\ e.frame \in Frames /\ e # Invalid
      BY <1>1, <2>2, EntryType DEF MakeWritable, IInv
    <3>3. [frame |-> e.frame, perm |-> e.perm \cup {"W"}] # Invalid
      BY <3>2 DEF Invalid, Frames
    <3> HIDE DEF e
    <3>4. QED  BY <3>1, <3>2, <3>3, ViewIs, ViewIsAfter DEF e
  <2>3. CASE CopyPage(x, vma) /\ Room(2)
    <3>1. PICK f \in Frames, rc \in [Frames -> Nat] :
             /\ MapsAnew(v, f, e.perm \cup {"W"}, rc)
             /\ e.perm \cup {"W"} \in SUBSET Kinds
             /\ content' = [content EXCEPT ![f] = content[e.frame]]
      BY <2>3, CopyPageEffect
    <3>2. pgd'[p][u] = IF p = current /\ u = v THEN [frame |-> f, perm |-> e.perm \cup {"W"}]
                       ELSE pgd[p][u]
      <4> DEFINE perm == e.perm \cup {"W"}
      <4>1. perm \in SUBSET Kinds /\ MapsAnew(v, f, perm, rc)
        BY <3>1
      <4> HIDE DEF e, v, perm
      <4>2. \A q \in Pids, w \in Pages :
              pgd'[q][w] = IF q = current /\ w = v THEN [frame |-> f, perm |-> perm]
                           ELSE pgd[q][w]
        BY <1>1, <4>1, UsersAfterMapsAnew
      <4>3. QED  BY <4>2 DEF perm
    <3>3. pgd[p][u].frame # f
      <4>1. Users(f) = {}
        BY <3>1, FewUsers DEF IInv, MapsAnew
      <4>2. QED  BY <4>1, UsersAre
    <3>4. content \in [Frames -> Values] /\ content'[f] = content[e.frame]
      BY <3>1 DEF IInv, TypeOK
    <3>5. pgd[p][u] # Invalid => content'[pgd[p][u].frame] = content[pgd[p][u].frame]
      BY <3>1, <3>3, <3>4, EntryType DEF IInv
    <3>6. [frame |-> f, perm |-> e.perm \cup {"W"}] # Invalid /\ e # Invalid
      BY <2>3 DEF Invalid, Frames, CopyPage
    <3>7. CASE p = current /\ u = v
      BY <1>1, <3>2, <3>4, <3>6, <3>7, ViewIs, ViewIsAfter
    <3>8. CASE ~ (p = current /\ u = v)
      BY <3>2, <3>5, <3>8, ViewIs, ViewIsAfter
    <3>9. QED  BY <3>7, <3>8
  <2>4. QED  BY <2>1, <2>2, <2>3 DEF MakeWritable, CopyPage, Halt
<1>4. QED  BY <1>2, <1>3, SameViews, UserPagesArePages

\* A fork gives the child what the parent has at that moment.
LEMMA ForkRefines ==
  ASSUME IInv, IInv', do_cow_fork
  PROVE  Private!Next \/ UNCHANGED Private!vars
<1> DEFINE child == tasks_number + 1
<1>1. CASE UNCHANGED <<tasks_number, pgd, content>>
  <2>1. \A p \in Pids, u \in UserPages : View(p, u)' = View(p, u)
    BY <1>1, ViewIs, ViewIsAfter, UserPagesArePages
  <2>2. QED  BY <1>1, <2>1, SameViews
<1>2. CASE ForkSucceeds /\ Room(2 + Cardinality(UNION {tables(v) : v \in Shared}))
  <2>1. /\ child \in Pids /\ current \in Pids /\ current # child
        /\ current \in 1 .. tasks_number /\ tasks_number \in Nat
        /\ tasks_number' = child /\ UNCHANGED content
    BY <1>2, SizeAssumption DEF IInv, TypeOK, Pids, ForkSucceeds
  <2>2. \A p \in Pids, u \in Pages :
          /\ u \notin Shared => pgd'[p][u] = pgd[p][u]
          /\ p \notin {child, current} => pgd'[p][u] = pgd[p][u]
          /\ u \in Shared /\ p \in {child, current} => pgd'[p][u].frame = pgd[current][u].frame
          /\ pgd[child][u] = Invalid
    BY <1>2, ForkEntries
  <2>3. \A u \in UserPages : u \in Shared <=> pgd[current][u] # Invalid
    BY UserPagesArePages DEF Shared, Mapped, UserPages
  <2>4. \A p \in Pids, u \in UserPages :
          View(p, u)' = IF p = child THEN View(current, u) ELSE View(p, u)
    <3> TAKE p \in Pids, u \in UserPages
    <3>1. u \in Pages
      BY UserPagesArePages
    <3>2. CASE u \in Shared /\ p \in {child, current}
      <4>1. pgd'[p][u].frame = pgd[current][u].frame /\ pgd[current][u] # Invalid
        BY <2>2, <2>3, <3>1, <3>2
      <4>2. pgd[current][u].frame \in Frames
        BY <2>1, <3>1, <4>1, EntryType DEF IInv
      <4>3. pgd'[p][u] # Invalid
        BY <4>1, <4>2 DEF Invalid, Frames
      <4>4. View(p, u)' = content[pgd[current][u].frame]
        BY <2>1, <3>1, <4>1, <4>3, ViewIsAfter
      <4>5. View(current, u) = content[pgd[current][u].frame]
        BY <2>1, <3>1, <4>1, ViewIs
      <4>6. QED  BY <3>2, <4>4, <4>5
    <3>3. CASE u \notin Shared /\ p = child
      <4>1. pgd'[p][u] = Invalid /\ pgd[current][u] = Invalid
        BY <2>2, <2>3, <3>1, <3>3
      <4>2. QED  BY <2>1, <3>1, <3>3, <4>1, ViewIs, ViewIsAfter
    <3>4. CASE p # child /\ (u \notin Shared \/ p # current)
      <4>1. pgd'[p][u] = pgd[p][u]
        BY <2>2, <3>1, <3>4
      <4>2. QED  BY <2>1, <3>1, <3>4, <4>1, ViewIs, ViewIsAfter
    <3>5. QED  BY <3>2, <3>3, <3>4
  <2>5. Memory' = [Memory EXCEPT ![child] = Memory[current]]
    <3>1. Memory' = [p \in Pids |-> [u \in UserPages |->
                      IF p = child THEN View(current, u) ELSE View(p, u)]]
      BY <2>4 DEF Memory
    <3>2. [Memory EXCEPT ![child] = Memory[current]]
            = [p \in Pids |-> [u \in UserPages |->
                 IF p = child THEN View(current, u) ELSE View(p, u)]]
      <4> HIDE DEF child
      <4>1. QED  BY <2>1 DEF Memory
    <3>3. QED  BY <3>1, <3>2
  <2>6. 1 .. tasks_number' = (1 .. tasks_number) \cup {child} /\ child \in Pids \ (1 .. tasks_number)
    BY <2>1
  <2>7. Private!Fork(current, child)
    BY <2>1, <2>5, <2>6 DEF Private!Fork, Memory
  <2>8. QED  BY <2>1, <2>7 DEF Private!Next
<1>3. QED  BY <1>1, <1>2 DEF do_cow_fork, ForkSucceeds, ForkFails, Halt

LEMMA InitRefines == Init => Private!Init
<1> SUFFICES ASSUME Init  PROVE  Private!Init
  OBVIOUS
<1>1. IInv
  BY InitIInv
<1>2. 1 .. tasks_number = {1} /\ 1 \in Pids
  BY SizeAssumption DEF Init, Pids
<1>3. \A p \in Pids, v \in UserPages : View(p, v) = Untouched
  BY <1>1, ViewIs, UserPagesArePages DEF Init, NoTlb
<1>4. [p \in Pids |-> [v \in UserPages |-> View(p, v)]]
        = [p \in Pids |-> [v \in UserPages |-> Untouched]]
  BY <1>3
<1>5. QED  BY <1>2, <1>4 DEF Private!Init, Private!Blank

LEMMA StepsRefine ==
  ASSUME NEW found, Finds(found), IInv, IInv', EntriesFollowAreas, [StepsIn(found)]_vars
  PROVE  [Private!Next]_(Private!vars)
<1>1. CASE UNCHANGED <<tasks_number, pgd, content>>
  <2>1. \A p \in Pids, u \in UserPages : View(p, u)' = View(p, u)
    BY <1>1, ViewIs, ViewIsAfter, UserPagesArePages
  <2>2. QED  BY <1>1, <2>1, SameViews
<1>2. ASSUME NEW x \in Program, Access(x)
      PROVE  [Private!Next]_(Private!vars)
  BY <1>2, AccessRefines
<1>3. ASSUME NEW x \in Program, do_page_fault(x, found[x])
      PROVE  [Private!Next]_(Private!vars)
  <2>1. CASE FirstTouch(x, found[x])
    BY <2>1, FirstTouchRefines DEF Finds
  <2>2. CASE MakeWritable(x, found[x]) \/ CopyPage(x, found[x])
    BY <2>2, CopyRefines DEF Finds
  <2>3. CASE BadAccess(x, found[x]) \/ NotCow(x, found[x])
    BY <1>1, <2>3 DEF BadAccess, NotCow, Halt
  <2>4. QED  BY <1>3, <2>1, <2>2, <2>3 DEF do_page_fault
<1>4. CASE do_cow_fork
  BY <1>4, ForkRefines
<1>5. ASSUME NEW t \in Pids, Switch(t)
      PROVE  [Private!Next]_(Private!vars)
  BY <1>1, <1>5 DEF Switch
<1>6. CASE Spin \/ UNCHANGED vars
  BY <1>1, <1>6 DEF Spin, vars
<1>7. QED  BY <1>2, <1>3, <1>4, <1>5, <1>6 DEF StepsIn

\* Demand paging and copy-on-write give every task a memory of its own: a
\* page changes only by a store of its task, and a fork copies the parent's.
THEOREM CowImplementsPrivateMemory ==
  ASSUME SamePermission
  PROVE  Spec => ImplementsPrivateMemory
<1>1. Init => Private!Init /\ EntriesFollowAreas
  BY InitRefines, InitEntries
<1>2. IInv /\ EntriesFollowAreas /\ [Next]_vars => EntriesFollowAreas'
  BY NextEntries
<1>3. IInv /\ IInv' /\ EntriesFollowAreas /\ [Next]_vars => [Private!Next]_(Private!vars)
  BY NextSteps, StepsRefine
<1>4. QED
  BY <1>1, <1>2, <1>3, CowInvariant, PTL DEF Spec, ImplementsPrivateMemory, Private!Spec

-----------------------------------------------------------------------------
\* EagerFork.

\* The strengthening: that of CowMemory, and lists that have each area.
ListsOK ==
  /\ lists \in [Pids -> Seq(Vmas)]
  /\ \A p \in Pids, i \in Vmas : \E k \in DOMAIN lists[p] : lists[p][k] = i

ForkIInv == IInv /\ ListsOK

LEMMA ListType ==
  ASSUME ForkIInv
  PROVE  /\ lists[current] \in Seq(Vmas)
         /\ DOMAIN lists[current] = 1 .. Len(lists[current]) /\ Len(lists[current]) \in Nat
         /\ \A k \in DOMAIN lists[current] : lists[current][k] \in Vmas
         /\ \A i \in Vmas : \E k \in DOMAIN lists[current] : lists[current][k] = i
<1>1. current \in Pids
  BY SizeAssumption DEF ForkIInv, IInv, TypeOK, Pids
<1>2. /\ lists[current] \in Seq(Vmas)
      /\ \A i \in Vmas : \E k \in DOMAIN lists[current] : lists[current][k] = i
  BY <1>1 DEF ForkIInv, ListsOK
<1>3. QED  BY <1>2

\* Every shared page is copied once or more: the pages taken are enough.
LEMMA PagesForType ==
  ASSUME ForkIInv
  PROVE  /\ IsFiniteSet(Shared) /\ Cardinality(Shared) \in Nat
         /\ PagesFor(lists[current]) \in Nat
         /\ Cardinality(Shared) <= PagesFor(lists[current])
<1> DEFINE list == lists[current]
           C == Copies(list)
           page == [e \in C |-> e[2]]
<1>1. IsFiniteSet(Shared) /\ Cardinality(Shared) \in Nat
  <2>1. Shared \in SUBSET Pages
    BY DEF Shared, Mapped
  <2>2. QED  BY <2>1, Finiteness, FS_Subset, FS_CardinalityType
<1>2. Len(list) \in Nat /\ IsFiniteSet(DOMAIN list)
  BY ListType, FS_Interval
<1>3. IsFiniteSet(C) /\ Cardinality(C) \in Nat
  <2>1. IsFiniteSet((DOMAIN list) \X Shared)
    BY <1>1, <1>2, FS_Product
  <2>2. C \in SUBSET ((DOMAIN list) \X Shared)
    BY DEF Copies
  <2>3. QED  BY <2>1, <2>2, FS_Subset, FS_CardinalityType
<1>4. page \in Surjection(C, Shared)
  <2>1. page \in [C -> Shared]
    BY DEF Copies
  <2>2. ASSUME NEW v \in Shared  PROVE  \E e \in C : page[e] = v
    <3>1. PICK i \in Vmas : v \in vma_pages(i)
      BY DEF Shared
    <3>2. PICK k \in DOMAIN list : list[k] = i
      BY ListType
    <3>3. <<k, v>> \in C
      BY <3>1, <3>2 DEF Copies
    <3>4. QED  BY <3>3
  <2>3. QED  BY <2>1, <2>2 DEF Surjection
<1>5. Cardinality(Shared) <= Cardinality(C)
  <2> HIDE DEF C, page
  <2>1. QED  BY <1>3, <1>4, FS_Surjection
<1>6. PagesFor(list) = Len(list) + Cardinality(C)
  BY DEF PagesFor
<1> HIDE DEF list, C
<1>7. QED  BY <1>1, <1>2, <1>3, <1>5, <1>6 DEF list

\* The permission of a copy is that of an area the page lies in.
LEMMA AreaPermIs ==
  ASSUME ForkIInv, NEW v \in Shared
  PROVE  \E i \in Vmas : v \in vma_pages(i) /\ AreaPerm(v) = mmap[i].vm_flags
<1> DEFINE list == lists[current]
           P == Places(list, AreasOf(v))
           T == {Len(list) - k : k \in P}
<1>1. P \subseteq 1 .. Len(list) /\ Len(list) \in Nat
  BY ListType DEF Places
<1>2. P # {}
  <2>1. PICK i \in Vmas : v \in vma_pages(i)
    BY DEF Shared
  <2>2. PICK k \in DOMAIN list : list[k] = i
    BY ListType
  <2>3. QED  BY <2>1, <2>2 DEF Places, AreasOf
<1> HIDE DEF P
<1>3. \E k \in P : \A l \in P : l <= k
  <2>1. T \in SUBSET Nat /\ T # {}
    <3>1. ASSUME NEW k \in P  PROVE  Len(list) - k \in Nat
      <4>1. k \in 1 .. Len(list)
        BY <1>1
      <4> HIDE DEF list
      <4>2. QED  BY <1>1, <4>1
    <3>2. QED  BY <1>2, <3>1
  <2>2. PICK m \in T : \A n \in T : m <= n
    <3> HIDE DEF T
    <3>1. QED  BY <2>1, LeastNat
  <2>3. PICK k \in P : m = Len(list) - k
    OBVIOUS
  <2>4. ASSUME NEW l \in P  PROVE  l <= k
    <3>1. Len(list) - k <= Len(list) - l
      BY <2>2, <2>3
    <3>2. QED  BY <1>1, <3>1
  <2>5. QED  BY <2>4
<1> DEFINE last == CHOOSE k \in P : \A l \in P : l <= k
<1>4. last \in P
  BY <1>3
<1>5. AreaPerm(v) = mmap[list[last]].vm_flags
  BY DEF AreaPerm, P
<1> HIDE DEF last
<1>6. list[last] \in Vmas /\ v \in vma_pages(list[last])
  BY <1>4 DEF P, Places, AreasOf
<1>7. QED  BY <1>5, <1>6

\* The pages do_fork needs are there when it has room for them, so each page
\* of the child gets a frame of its own that nobody refers to.
LEMMA NewFramesType ==
  ASSUME ForkIInv, NEW n \in Nat, Room(2 + n + PagesFor(lists[current]))
  PROVE  LET new == NewFrames(ref_cnt) IN
         /\ new \in [Shared -> {g \in Frames : ref_cnt[g] = 0}]
         /\ \A v, u \in Shared : new[v] = new[u] => v = u
         /\ PagesFor(lists[current]) \in Nat
         /\ Cardinality(Shared) \in Nat
         /\ Cardinality(Shared) <= PagesFor(lists[current])
         /\ lost + PagesFor(lists[current]) <= NPages
<1> DEFINE Free == {g \in Frames : ref_cnt[g] = 0}
           c == Cardinality(Shared)
           need == PagesFor(lists[current])
<1>1. IsFiniteSet(Shared) /\ c \in Nat /\ need \in Nat /\ c <= need
  BY PagesForType
<1>2. IsFiniteSet(Free)
  <2>1. Free \in SUBSET Frames
    OBVIOUS
  <2>2. QED  BY <2>1, Finiteness, FS_Subset
<1> HIDE DEF c, need
<1>3. 2 + n + need \in Nat /\ Room(2 + n + need)
  BY <1>1 DEF need
<1>4. Cardinality(Free) >= 2 + n + need /\ lost + (2 + n + need) <= NPages
  BY <1>3, RoomLeavesFrames DEF ForkIInv, IInv
<1>5. lost \in Nat /\ NPages \in Nat /\ Cardinality(Free) \in Nat
  BY <1>2, FS_CardinalityType, SizeAssumption DEF ForkIInv, IInv, TypeOK
<1>6. \E f \in [Shared -> Free] : \A v, u \in Shared : f[v] = f[u] => v = u
  <2>1. Cardinality(Shared) <= Cardinality(Free)
    <3> HIDE DEF Free
    <3>1. QED  BY <1>1, <1>4, <1>5 DEF c
  <2>2. QED  BY <1>1, <1>2, <2>1, InjectionExists
<1>7. lost + need <= NPages
  BY <1>1, <1>4, <1>5
<1>8. QED  BY <1>1, <1>6, <1>7 DEF NewFrames, need, c

\* What do_fork does when there is room.
LEMMA CopyAllEffect ==
  ASSUME ForkIInv, CopyAll,
         Room(2 + Cardinality(UNION {tables(v) : v \in Shared}) + PagesFor(lists[current]))
  PROVE  LET child == tasks_number + 1 IN
         \E new \in [Shared -> Frames] :
           /\ \A v, u \in Shared : new[v] = new[u] => v = u
           /\ \A v \in Shared : ref_cnt[new[v]] = 0
           /\ child \in Pids /\ tasks_number' = child
           /\ pgd' \in [Pids -> [Pages -> PTE]]
           /\ \A p \in Pids, u \in Pages :
                /\ p # child => pgd'[p][u] = pgd[p][u]
                /\ u \in Shared => pgd'[child][u] = [frame |-> new[u], perm |-> AreaPerm(u)]
                /\ u \notin Shared => pgd'[child][u] = Invalid
           /\ ref_cnt' = [f \in Frames |-> IF \E v \in Shared : new[v] = f THEN 1 ELSE ref_cnt[f]]
           /\ content' \in [Frames -> Values]
           /\ \A v \in Shared : content'[new[v]] = content[pgd[current][v].frame]
           /\ \A f \in Frames : (\A v \in Shared : new[v] # f) => content'[f] = content[f]
           /\ lost' \in 0 .. NPages
           /\ UNCHANGED <<current, tlb, pend, halted>>
<1> DEFINE child == tasks_number + 1
           new   == NewFrames(ref_cnt)
           kept  == {new[v] : v \in Shared}
           need  == PagesFor(lists[current])
           table == [v \in Pages |-> IF v \in Shared
                                     THEN [frame |-> new[v], perm |-> AreaPerm(v)]
                                     ELSE Invalid]
           copied == [f \in Frames |->
                        IF f \in kept
                        THEN LET v == CHOOSE u \in Shared : new[u] = f IN content[Source(v, f)]
                        ELSE content[f]]
<1>1. /\ child \in Pids /\ tasks_number' = child
      /\ pgd' = [pgd EXCEPT ![child] = table]
      /\ ref_cnt' = [f \in Frames |-> IF f \in kept THEN 1 ELSE ref_cnt[f]]
      /\ content' = copied
      /\ lost' = lost + need - Cardinality(Shared)
      /\ UNCHANGED <<current, tlb, pend, halted>>
  BY DEF CopyAll
<1>2. Cardinality(UNION {tables(v) : v \in Shared}) \in Nat
  <2>1. Shared \in SUBSET Pages
    BY DEF Shared, Mapped
  <2>2. IsFiniteSet(UNION {tables(v) : v \in Shared})
    BY <2>1, FiniteTables
  <2>3. QED  BY <2>2, FS_CardinalityType
<1>3. /\ new \in [Shared -> {g \in Frames : ref_cnt[g] = 0}]
      /\ \A v, u \in Shared : new[v] = new[u] => v = u
      /\ need \in Nat /\ Cardinality(Shared) \in Nat /\ Cardinality(Shared) <= need
      /\ lost + need <= NPages
  BY <1>2, NewFramesType
<1> HIDE DEF new, need
<1>4. new \in [Shared -> Frames] /\ \A v \in Shared : ref_cnt[new[v]] = 0
  BY <1>3
<1>5. \A v \in Shared : v \in Pages /\ AreaPerm(v) \in SUBSET Kinds
  <2> TAKE v \in Shared
  <2>1. v \in Pages
    BY DEF Shared, Mapped
  <2>2. QED  BY <2>1, AreaPermIs, AreaType
<1>6. table \in [Pages -> PTE]
  BY <1>4, <1>5 DEF PTE
<1>7. pgd \in [Pids -> [Pages -> PTE]]
  BY DEF ForkIInv, IInv, TypeOK
<1>8. pgd' \in [Pids -> [Pages -> PTE]]
  <2> HIDE DEF table, child
  <2>1. QED  BY <1>1, <1>6, <1>7
<1>9. \A p \in Pids, u \in Pages :
         /\ p # child => pgd'[p][u] = pgd[p][u]
         /\ u \in Shared => pgd'[child][u] = [frame |-> new[u], perm |-> AreaPerm(u)]
         /\ u \notin Shared => pgd'[child][u] = Invalid
  <2>1. \A p \in Pids : pgd'[p] = IF p = child THEN table ELSE pgd[p]
    <3> HIDE DEF table, child
    <3>1. QED  BY <1>1, <1>7
  <2>2. QED  BY <1>1, <2>1
<1>10. \A f \in Frames : f \in kept <=> \E v \in Shared : new[v] = f
  OBVIOUS
<1>11. \A v \in Shared, f \in Frames :
          Source(v, f) = pgd[current][v].frame /\ pgd[current][v].frame \in Frames
  <2> TAKE v \in Shared, f \in Frames
  <2>1. v \in Pages /\ current \in Pids /\ pgd[current][v] # Invalid
    BY SizeAssumption DEF Shared, Mapped, ForkIInv, IInv, TypeOK, Pids
  <2>2. pgd[current][v].frame \in Frames
    BY <2>1, EntryType DEF ForkIInv, IInv
  <2>3. Source(v, f) = pgd[current][v].frame
    BY <2>1 DEF Source, ForkIInv, IInv, TlbSafe
  <2>4. QED  BY <2>2, <2>3
<1>12. content \in [Frames -> Values]
  BY DEF ForkIInv, IInv, TypeOK
<1>13. \A v \in Shared : copied[new[v]] = content[pgd[current][v].frame]
  <2> TAKE v \in Shared
  <2>1. new[v] \in Frames /\ new[v] \in kept
    BY <1>4
  <2>2. (CHOOSE u \in Shared : new[u] = new[v]) = v
    BY <1>3
  <2>3. copied[new[v]] = content[Source(v, new[v])]
    BY <2>1, <2>2
  <2>4. QED  BY <1>11, <2>1, <2>3
<1>14. \A f \in Frames : (\A v \in Shared : new[v] # f) => copied[f] = content[f]
  OBVIOUS
<1>15. copied \in [Frames -> Values]
  <2>1. \A f \in Frames : copied[f] \in Values
    <3> TAKE f \in Frames
    <3>1. CASE \E v \in Shared : new[v] = f
      BY <1>11, <1>12, <1>13, <3>1
    <3>2. CASE \A v \in Shared : new[v] # f
      BY <1>12, <1>14, <3>2
    <3>3. QED  BY <3>1, <3>2
  <2>2. DOMAIN copied = Frames /\ copied = [f \in Frames |-> copied[f]]
    OBVIOUS
  <2> HIDE DEF copied
  <2>3. QED  BY <2>1, <2>2
<1>16. lost' \in 0 .. NPages
  <2>1. lost \in Nat /\ NPages \in Nat
    BY SizeAssumption DEF ForkIInv, IInv, TypeOK
  <2>2. QED  BY <1>1, <1>3, <2>1
<1>17. ref_cnt' = [f \in Frames |-> IF \E v \in Shared : new[v] = f THEN 1 ELSE ref_cnt[f]]
  BY <1>1, <1>10
<1> HIDE DEF copied, table, child, kept
<1>18. QED
  BY <1>1, <1>3, <1>4, <1>8, <1>9, <1>13, <1>14, <1>15, <1>16, <1>17 DEF child

\* The frames of the child's pages gain one user each; no other frame does.
LEMMA CopyAllUsers ==
  ASSUME ForkIInv, CopyAll,
         Room(2 + Cardinality(UNION {tables(v) : v \in Shared}) + PagesFor(lists[current]))
  PROVE  \A f \in Frames :
           \/ Users(f)' = Users(f) /\ ref_cnt'[f] = ref_cnt[f]
           \/ /\ Users(f) = {} /\ ref_cnt[f] = 0 /\ ref_cnt'[f] = 1
              /\ \E v \in Shared : Users(f)' = {<<tasks_number + 1, v>>}
<1> DEFINE child == tasks_number + 1
<1>1. PICK new \in [Shared -> Frames] :
           /\ \A v, u \in Shared : new[v] = new[u] => v = u
           /\ \A v \in Shared : ref_cnt[new[v]] = 0
           /\ child \in Pids
           /\ \A p \in Pids, u \in Pages :
                /\ p # child => pgd'[p][u] = pgd[p][u]
                /\ u \in Shared => pgd'[child][u] = [frame |-> new[u], perm |-> AreaPerm(u)]
                /\ u \notin Shared => pgd'[child][u] = Invalid
           /\ ref_cnt' = [f \in Frames |-> IF \E v \in Shared : new[v] = f THEN 1 ELSE ref_cnt[f]]
  BY CopyAllEffect
<1>2. \A u \in Pages : pgd[child][u].frame = 0
  <2>1. child \in Pids /\ child > tasks_number
    BY <1>1, SizeAssumption DEF ForkIInv, IInv, TypeOK, Pids
  <2>2. pgd[child] = NoTlb
    BY <2>1 DEF ForkIInv, IInv, Unborn
  <2>3. QED  BY <2>2 DEF NoTlb, Invalid
<1> HIDE DEF child
<1>3. SUFFICES ASSUME NEW f \in Frames
               PROVE  \/ Users(f)' = Users(f) /\ ref_cnt'[f] = ref_cnt[f]
                      \/ /\ Users(f) = {} /\ ref_cnt[f] = 0 /\ ref_cnt'[f] = 1
                         /\ \E v \in Shared : Users(f)' = {<<child, v>>}
  BY DEF child
<1>4. Users(f)' = {e \in Pids \X Pages : pgd'[e[1]][e[2]].frame = f}
  BY DEF Users
<1>5. \A e \in Pids \X Pages :
        pgd'[e[1]][e[2]].frame = f
          <=> e \in Users(f) \/ (e[1] = child /\ e[2] \in Shared /\ new[e[2]] = f)
  <2> SUFFICES ASSUME NEW p \in Pids, NEW u \in Pages
               PROVE  pgd'[p][u].frame = f
                        <=> <<p, u>> \in Users(f) \/ (p = child /\ u \in Shared /\ new[u] = f)
    OBVIOUS
  <2>1. <<p, u>> \in Users(f) <=> pgd[p][u].frame = f
    BY UsersAre
  <2>2. CASE p # child
    BY <1>1, <2>1, <2>2
  <2>3. CASE p = child /\ u \in Shared
    <3>1. pgd'[p][u] = [frame |-> new[u], perm |-> AreaPerm(u)]
      BY <1>1, <2>3
    <3>2. pgd[p][u].frame # f
      BY <1>2, <2>3 DEF Frames
    <3>3. QED  BY <2>1, <2>3, <3>1, <3>2
  <2>4. CASE p = child /\ u \notin Shared
    <3>1. pgd'[p][u] = Invalid
      BY <1>1, <2>4
    <3>2. pgd'[p][u].frame # f
      BY <3>1 DEF Invalid, Frames
    <3>3. pgd[p][u].frame # f
      BY <1>2, <2>4 DEF Frames
    <3>4. QED  BY <2>1, <2>4, <3>2, <3>3
  <2>5. QED  BY <2>2, <2>3, <2>4
<1>6. CASE \A v \in Shared : new[v] # f
  <2>1. Users(f)' = Users(f)
    BY <1>4, <1>5, <1>6 DEF Users
  <2>2. QED  BY <1>1, <1>6, <2>1
<1>7. ASSUME NEW v \in Shared, new[v] = f
      PROVE  /\ Users(f) = {} /\ ref_cnt[f] = 0 /\ ref_cnt'[f] = 1
             /\ Users(f)' = {<<child, v>>}
  <2>1. ref_cnt[f] = 0 /\ ref_cnt'[f] = 1
    BY <1>1, <1>7
  <2>2. Users(f) = {}
    BY <2>1, FewUsers DEF ForkIInv, IInv
  <2>3. v \in Pages
    BY DEF Shared, Mapped
  <2>4. <<child, v>> \in Pids \X Pages
    BY <1>1, <2>3
  <2>5. \A e \in Pids \X Pages :
          e[1] = child /\ e[2] \in Shared /\ new[e[2]] = f <=> e = <<child, v>>
    BY <1>1, <1>7
  <2>6. Users(f)' = {<<child, v>>}
    BY <1>4, <1>5, <2>2, <2>4, <2>5
  <2>7. QED  BY <2>1, <2>2, <2>6
<1>8. QED  BY <1>6, <1>7

\* do_fork keeps the strengthening: the child's frames are new and distinct,
\* so nothing that was mapped gains a user.
LEMMA CopyAllIInv ==
  ASSUME ForkIInv, CopyAll
  PROVE  IInv'
<1> DEFINE child == tasks_number + 1
           room == Room(2 + Cardinality(UNION {tables(v) : v \in Shared}) + PagesFor(lists[current]))
<1>1. CASE ~ room
  <2>1. Halt("oom", NoAccess)
    BY <1>1 DEF CopyAll
  <2>2. QED  BY <2>1, HaltIInv DEF ForkIInv
<1>2. CASE room
  <2>1. PICK new \in [Shared -> Frames] :
           /\ \A v, u \in Shared : new[v] = new[u] => v = u
           /\ \A v \in Shared : ref_cnt[new[v]] = 0
           /\ child \in Pids /\ tasks_number' = child
           /\ pgd' \in [Pids -> [Pages -> PTE]]
           /\ \A p \in Pids, u \in Pages :
                /\ p # child => pgd'[p][u] = pgd[p][u]
                /\ u \in Shared => pgd'[child][u] = [frame |-> new[u], perm |-> AreaPerm(u)]
                /\ u \notin Shared => pgd'[child][u] = Invalid
           /\ ref_cnt' = [f \in Frames |-> IF \E v \in Shared : new[v] = f THEN 1 ELSE ref_cnt[f]]
           /\ content' \in [Frames -> Values]
           /\ lost' \in 0 .. NPages
           /\ UNCHANGED <<current, tlb, pend, halted>>
    BY <1>2, CopyAllEffect
  <2>2. /\ tasks_number \in Nat /\ NR_TASKS \in Nat /\ current \in Pids
        /\ current \in 1 .. tasks_number /\ current # child
    BY SizeAssumption DEF ForkIInv, IInv, TypeOK, Pids
  <2>3. \A u \in Pages : pgd[child][u] = Invalid
    BY <2>1, <2>2 DEF ForkIInv, IInv, Unborn, NoTlb
  <2>4. \A p \in Pids, u \in Pages, v \in Shared : pgd[p][u].frame # new[v]
    <3> TAKE p \in Pids, u \in Pages, v \in Shared
    <3>1. Users(new[v]) = {}
      BY <2>1, FewUsers DEF ForkIInv, IInv
    <3>2. QED  BY <3>1, UsersAre
  \* What a frame of the new table says of the task and page it is reached by.
  <2>5. \A p \in Pids, u \in Pages :
          p # child => pgd'[p][u].frame = pgd[p][u].frame /\ pgd'[p][u].perm = pgd[p][u].perm
    BY <2>1
  <2>6. \A u \in Pages :
          pgd'[child][u].frame \in Frames => u \in Shared /\ pgd'[child][u].frame = new[u]
    <3> TAKE u \in Pages
    <3>1. CASE u \in Shared
      <4>1. pgd'[child][u] = [frame |-> new[u], perm |-> AreaPerm(u)]
        BY <2>1, <3>1
      <4>2. QED  BY <3>1, <4>1
    <3>2. CASE u \notin Shared
      <4>1. pgd'[child][u] = Invalid
        BY <2>1, <3>2
      <4>2. QED  BY <4>1 DEF Invalid, Frames
    <3>3. QED  BY <3>1, <3>2
  <2>7. \A p \in Pids, u \in Pages : "W" \in pgd'[p][u].perm => pgd'[p][u].frame \in Frames
    <3> TAKE p \in Pids, u \in Pages
    <3>1. pgd'[p][u] \in PTE
      BY <2>1
    <3>2. QED  BY <3>1 DEF PTE, Invalid
  <2>8. \A p, q \in Pids, w, u \in Pages :
          pgd'[p][w].frame \in Frames /\ pgd'[q][u].frame = pgd'[p][w].frame =>
            \/ p # child /\ q # child
            \/ p = child /\ q = child /\ w = u
    <3> SUFFICES ASSUME NEW p \in Pids, NEW q \in Pids, NEW w \in Pages, NEW u \in Pages,
                        pgd'[p][w].frame \in Frames, pgd'[q][u].frame = pgd'[p][w].frame
                 PROVE  \/ p # child /\ q # child
                        \/ p = child /\ q = child /\ w = u
      OBVIOUS
    <3>1. CASE p = child /\ q = child
      <4>1. w \in Shared /\ u \in Shared /\ new[w] = new[u]
        BY <2>6, <3>1
      <4>2. w = u
        BY <2>1, <4>1
      <4>3. QED  BY <3>1, <4>2
    <3>2. CASE p = child /\ q # child
      BY <2>4, <2>5, <2>6, <3>2
    <3>3. CASE p # child /\ q = child
      BY <2>4, <2>5, <2>6, <3>3
    <3>4. QED  BY <3>1, <3>2, <3>3
  <2> DEFINE L == Len(mmap)
             m == (NR_TASKS - 1) * L
             b == tasks_number * L
             c == child * L
  <2>9. /\ L \in Nat /\ m \in Nat /\ b \in Nat /\ c \in Nat /\ b <= c /\ c <= m
        /\ L >= 1 => c >= 1
    <3>1. L \in Nat
      BY Finiteness
    <3>2. child <= NR_TASKS - 1 /\ child \in Nat /\ child >= 1 /\ tasks_number <= child
      BY <2>1, <2>2 DEF Pids
    <3>3. QED  BY <2>2, <3>1, <3>2
  <2>10. \A v \in Shared : L >= 1
    <3> TAKE v \in Shared
    <3>1. \E i \in Vmas : TRUE
      BY DEF Shared
    <3>2. QED  BY <3>1, Finiteness, ProgramAssumption DEF Vmas
  <2>11. \A f \in Frames : ref_cnt[f] \in Nat /\ ref_cnt[f] <= b
    BY Finiteness, SizeAssumption DEF ForkIInv, IInv, TypeOK, RefBounded
  <2> HIDE DEF L, m, b, c
  <2>12. \A f \in Frames : ref_cnt'[f] \in 0 .. m /\ ref_cnt'[f] <= c
    BY <2>1, <2>9, <2>10, <2>11
  <2>13. ref_cnt' \in [Frames -> 0 .. m]
    BY <2>1, <2>12
  <2>14. RefBounded'
    BY <2>1, <2>12 DEF RefBounded, c, L
  <2>15. TypeOK'
    BY <2>1, <2>2, <2>13 DEF ForkIInv, IInv, TypeOK, m, L
  <2>16. RefCovers'
    <3> SUFFICES ASSUME NEW f \in Frames  PROVE  ref_cnt'[f] >= Cardinality(Users(f)')
      BY DEF RefCovers
    <3>1. CASE Users(f)' = Users(f) /\ ref_cnt'[f] = ref_cnt[f]
      BY <3>1 DEF ForkIInv, IInv, RefCovers
    <3>2. CASE ref_cnt'[f] = 1 /\ \E v \in Shared : Users(f)' = {<<child, v>>}
      <4>1. PICK v \in Shared : Users(f)' = {<<child, v>>}
        BY <3>2
      <4>2. Cardinality(Users(f)') = 1
        BY <4>1, FS_Singleton
      <4>3. QED  BY <3>2, <4>2
    <3>3. QED  BY <1>2, <3>1, <3>2, CopyAllUsers
  <2>17. Unborn'
    <3>1. \A p \in Pids : p > child => pgd'[p] = pgd[p]
      <4> SUFFICES ASSUME NEW p \in Pids, p > child  PROVE  pgd'[p] = pgd[p]
        OBVIOUS
      <4>1. p # child
        BY <2>2
      <4>2. \A u \in Pages : pgd'[p][u] = pgd[p][u]
        BY <2>1, <4>1
      <4>3. pgd'[p] \in [Pages -> PTE] /\ pgd[p] \in [Pages -> PTE]
        BY <2>1 DEF ForkIInv, IInv, TypeOK
      <4>4. QED  BY <4>2, <4>3
    <3>2. QED  BY <2>1, <2>2, <3>1 DEF ForkIInv, IInv, Unborn, NoTlb, Pids
  <2>18. OnePlace'
    BY <2>5, <2>8 DEF ForkIInv, IInv, OnePlace
  <2>19. WritableIsExclusive'
    BY <2>5, <2>7, <2>8 DEF ForkIInv, IInv, WritableIsExclusive
  <2>20. TlbSafe'
    BY <2>1, <2>2 DEF ForkIInv, IInv, TlbSafe
  <2>21. QED  BY <2>14, <2>15, <2>16, <2>17, <2>18, <2>19, <2>20 DEF IInv
<1>3. QED  BY <1>1, <1>2

\* A fork puts the reverse before the child's list, or passes it on.
LEMMA ForkLists ==
  ASSUME ForkIInv, Fork
  PROVE  ListsOK'
<1> DEFINE list == lists[current]
           rev  == Reverse(list)
<1>1. /\ list \in Seq(Vmas) /\ DOMAIN list = 1 .. Len(list) /\ Len(list) \in Nat
      /\ \A i \in Vmas : \E k \in DOMAIN list : list[k] = i
  BY ListType
<1> HIDE DEF list
<1>2. rev \in Seq(Vmas) /\ Len(rev) = Len(list)
  <2>1. rev = [k \in 1 .. Len(list) |-> list[(Len(list) - k) + 1]]
    BY DEF Reverse
  <2>2. \A k \in 1 .. Len(list) : list[(Len(list) - k) + 1] \in Vmas
    BY <1>1
  <2>3. QED  BY <1>1, <2>1, <2>2
<1> HIDE DEF rev
<1>3. rev \o list \in Seq(Vmas) /\ \A i \in Vmas : \E k \in DOMAIN (rev \o list) : (rev \o list)[k] = i
  <2>1. rev \o list \in Seq(Vmas) /\ Len(rev \o list) = Len(rev) + Len(list)
    BY <1>1, <1>2
  <2>2. ASSUME NEW i \in Vmas
        PROVE  \E k \in DOMAIN (rev \o list) : (rev \o list)[k] = i
    <3>1. PICK k \in 1 .. Len(list) : list[k] = i
      BY <1>1
    <3>2. Len(rev) + k \in DOMAIN (rev \o list)
      BY <1>1, <1>2, <2>1
    <3>3. Len(rev) + k \notin 1 .. Len(rev) /\ (Len(rev) + k) - Len(rev) = k
      BY <1>1, <1>2, <3>1
    <3>4. (rev \o list)[Len(rev) + k] = list[(Len(rev) + k) - Len(rev)]
      <4>1. \A n \in 1 .. Len(rev) + Len(list) :
              (rev \o list)[n] = IF n <= Len(rev) THEN rev[n] ELSE list[n - Len(rev)]
        BY <1>1, <1>2, ConcatProperties
      <4>2. Len(rev) + k \in 1 .. Len(rev) + Len(list) /\ ~(Len(rev) + k <= Len(rev))
        BY <1>1, <1>2, <3>1
      <4>3. QED  BY <4>1, <4>2
    <3>5. QED  BY <3>1, <3>2, <3>3, <3>4
  <2>3. QED  BY <2>1, <2>2
<1>4. Inherited \in Seq(Vmas) /\ \A i \in Vmas : \E k \in DOMAIN Inherited : Inherited[k] = i
  BY <1>1, <1>3 DEF Inherited, list, rev
<1>5. \/ lists' = lists
      \/ lists' = [lists EXCEPT ![tasks_number'] = Inherited]
  BY DEF Fork
<1> HIDE DEF Inherited
<1>6. lists' \in [Pids -> Seq(Vmas)] /\ \A p \in Pids : lists'[p] = lists[p] \/ lists'[p] = Inherited
  BY <1>4, <1>5 DEF ForkIInv, ListsOK
<1>7. ASSUME NEW p \in Pids, NEW i \in Vmas
      PROVE  \E k \in DOMAIN lists'[p] : lists'[p][k] = i
  <2>1. CASE lists'[p] = lists[p]
    BY <2>1 DEF ForkIInv, ListsOK
  <2>2. CASE lists'[p] = Inherited
    BY <1>4, <2>2
  <2>3. QED  BY <1>6, <2>1, <2>2
<1>8. QED  BY <1>6, <1>7 DEF ListsOK

LEMMA ForkInitIInv == ForkInit => ForkIInv
<1> SUFFICES ASSUME ForkInit  PROVE  ForkIInv
  OBVIOUS
<1>1. IInv
  BY InitIInv DEF ForkInit
<1>2. ListsOK
  <2> DEFINE list == [i \in 1 .. Len(mmap) |-> i]
  <2>1. Vmas = 1 .. Len(mmap) /\ Len(mmap) \in Nat
    BY ProgramAssumption DEF Vmas
  <2>2. list \in Seq(Vmas) /\ DOMAIN list = Vmas /\ \A i \in Vmas : list[i] = i
    BY <2>1
  <2>3. lists = [p \in Pids |-> list]
    BY DEF ForkInit
  <2> HIDE DEF list
  <2>4. QED  BY <2>2, <2>3 DEF ListsOK
<1>3. QED  BY <1>1, <1>2 DEF ForkIInv

\* What a fault finds in the list of the running task.
FoundIn(list) == [x \in Program |-> find_vma_in(list, x.addr)]

LEMMA ForkFinds ==
  Finds(FoundIn(lists[current]))
<1>1. \A x \in Program : FoundIn(lists[current])[x] = find_vma_in(lists[current], x.addr)
  BY DEF FoundIn
<1>2. \A a : find_vma_in(lists[current], a) \in SUBSET Containing(a)
  BY DEF find_vma_in, Places
<1>3. QED  BY <1>1, <1>2 DEF Finds

\* A step of ForkNext is a step of CowMemory with the list of the running task,
\* or a fork by do_fork.
LEMMA ForkNextCases ==
  ASSUME [ForkNext]_forkVars
  PROVE  \/ \E found : Finds(found) /\ [StepsIn(found)]_vars
         \/ Fork /\ do_fork
<1>1. CASE UNCHANGED forkVars
  BY <1>1, ForkFinds DEF forkVars
<1>2. CASE Fork
  BY <1>2, ForkFinds DEF Fork, StepsIn
<1>3. CASE ForkNext /\ ~ Fork
  <2> DEFINE found == FoundIn(lists[current])
  <2>1. \A x \in Program : ForkFault(x) => do_page_fault(x, found[x])
    BY DEF ForkFault, FoundIn
  <2> HIDE DEF found
  <2>2. StepsIn(found)
    BY <1>3, <2>1 DEF ForkNext, StepsIn
  <2>3. QED  BY <2>2, ForkFinds DEF found
<1>4. QED  BY <1>1, <1>2, <1>3

LEMMA ForkNextIInv == ForkIInv /\ [ForkNext]_forkVars => ForkIInv'
<1> SUFFICES ASSUME ForkIInv, [ForkNext]_forkVars  PROVE  ForkIInv'
  OBVIOUS
<1>1. IInv'
  <2>1. ASSUME NEW found, Finds(found), [StepsIn(found)]_vars
        PROVE  IInv'
    BY <2>1, StepsIInv DEF ForkIInv
  <2>2. CASE do_fork
    BY <2>2, CopyAllIInv, ForkFailsIInv DEF do_fork, ForkIInv
  <2>3. QED  BY <2>1, <2>2, ForkNextCases
<1>2. ListsOK'
  <2>1. CASE Fork
    BY <2>1, ForkLists
  <2>2. CASE UNCHANGED lists
    BY <2>2 DEF ForkIInv, ListsOK
  <2>3. QED  BY <2>1, <2>2 DEF ForkNext, forkVars
<1>3. QED  BY <1>1, <1>2 DEF ForkIInv

THEOREM ForkInvariant == ForkSpec => []ForkIInv
BY ForkInitIInv, ForkNextIInv, PTL DEF ForkSpec

\* With do_fork too, a task can store only to pages that no other entry leads
\* to: the child has copies, whose permissions come from the areas.
THEOREM ForkWritableIsExclusive == ForkSpec => []WritableIsExclusive
<1>1. ForkIInv => WritableIsExclusive  BY DEF ForkIInv, IInv
<1>2. QED  BY <1>1, ForkInvariant, PTL

\* do_fork flushes nothing, and need not: it changes no entry that was valid.
THEOREM ForkTlbSafe == ForkSpec => []TlbSafe
<1>1. ForkIInv => TlbSafe  BY DEF ForkIInv, IInv
<1>2. QED  BY <1>1, ForkInvariant, PTL

-----------------------------------------------------------------------------
\* References and entries.

LEMMA ForkNextRefMatches ==
  ASSUME AreasApart, ForkIInv, RefMatches, [ForkNext]_forkVars
  PROVE  RefMatches'
<1>1. ASSUME NEW found, Finds(found), [StepsIn(found)]_vars
      PROVE  RefMatches'
  BY <1>1, StepsRefMatches DEF ForkIInv
<1>2. CASE do_fork
  <2>1. ASSUME UNCHANGED <<pgd, ref_cnt>>
        PROVE  RefMatches'
    <3>1. \A f : Users(f)' = Users(f)
      BY <2>1 DEF Users
    <3>2. QED  BY <2>1, <3>1 DEF RefMatches
  <2>2. CASE /\ CopyAll
             /\ Room(2 + Cardinality(UNION {tables(v) : v \in Shared}) + PagesFor(lists[current]))
    <3> SUFFICES ASSUME NEW f \in Frames  PROVE  ref_cnt'[f] = Cardinality(Users(f)')
      BY DEF RefMatches
    <3>1. CASE Users(f)' = Users(f) /\ ref_cnt'[f] = ref_cnt[f]
      BY <3>1 DEF RefMatches
    <3>2. CASE ref_cnt'[f] = 1 /\ \E v \in Shared : Users(f)' = {<<tasks_number + 1, v>>}
      <4>1. PICK v \in Shared : Users(f)' = {<<tasks_number + 1, v>>}
        BY <3>2
      <4>2. Cardinality(Users(f)') = 1
        BY <4>1, FS_Singleton
      <4>3. QED  BY <3>2, <4>2
    <3>3. QED  BY <2>2, <3>1, <3>2, CopyAllUsers
  <2>3. QED  BY <1>2, <2>1, <2>2 DEF do_fork, ForkFails, CopyAll, Halt
<1>3. QED  BY <1>1, <1>2, ForkNextCases

\* Where no two areas have a page in common, references and entries are as
\* many, whichever fork made the tasks.
THEOREM ForkRefMatches ==
  ASSUME AreasApart
  PROVE  ForkSpec => []RefMatches
<1>1. ForkInit => RefMatches
  BY InitRefMatches DEF ForkInit
<1>2. ForkIInv /\ RefMatches /\ [ForkNext]_forkVars => RefMatches'
  BY ForkNextRefMatches
<1>3. QED  BY <1>1, <1>2, ForkInvariant, PTL DEF ForkSpec

-----------------------------------------------------------------------------
\* EagerFork implements PrivateMemory.

LEMMA CopyAllEntries ==
  ASSUME AnyOrder, ForkIInv, EntriesFollowAreas, CopyAll,
         Room(2 + Cardinality(UNION {tables(v) : v \in Shared}) + PagesFor(lists[current]))
  PROVE  EntriesFollowAreas'
<1> DEFINE child == tasks_number + 1
<1>1. PICK new \in [Shared -> Frames] :
         \A p \in Pids, u \in Pages :
           /\ p # child => pgd'[p][u] = pgd[p][u]
           /\ u \in Shared => pgd'[child][u] = [frame |-> new[u], perm |-> AreaPerm(u)]
           /\ u \notin Shared => pgd'[child][u] = Invalid
  BY CopyAllEffect
<1> HIDE DEF child
<1> SUFFICES ASSUME NEW p \in Pids, NEW u \in Pages, NEW j \in Vmas,
                    u \in vma_pages(j), pgd'[p][u] # Invalid
             PROVE  /\ pgd'[p][u].perm \ {"W"} = mmap[j].vm_flags \ {"W"}
                    /\ "W" \in pgd'[p][u].perm => "W" \in mmap[j].vm_flags
  BY DEF EntriesFollowAreas
<1>2. CASE p # child
  <2>1. pgd'[p][u] = pgd[p][u]
    BY <1>1, <1>2
  <2>2. QED  BY <2>1 DEF EntriesFollowAreas
<1>3. CASE p = child
  <2>1. pgd'[p][u] = [frame |-> new[u], perm |-> AreaPerm(u)]
    BY <1>1, <1>3
  <2>2. AreaPerm(u) = mmap[j].vm_flags
    <3>1. u \in Shared
      BY <1>1, <1>3
    <3>2. PICK i \in Vmas : u \in vma_pages(i) /\ AreaPerm(u) = mmap[i].vm_flags
      BY <3>1, AreaPermIs
    <3>3. vma_pages(i) \cap vma_pages(j) # {}
      BY <3>2
    <3>4. QED  BY <3>2, <3>3 DEF AnyOrder
  <2>3. pgd'[p][u].perm = mmap[j].vm_flags
    BY <2>1, <2>2
  <2>4. QED  BY <2>3
<1>4. QED  BY <1>2, <1>3

LEMMA ForkNextEntries ==
  ASSUME AnyOrder, ForkIInv, EntriesFollowAreas, [ForkNext]_forkVars
  PROVE  EntriesFollowAreas'
<1>1. ASSUME NEW found, Finds(found), [StepsIn(found)]_vars
      PROVE  EntriesFollowAreas'
  <2>1. Agree(found)
    BY <1>1 DEF AnyOrder, Agree, Finds
  <2>2. QED  BY <1>1, <2>1, StepsEntries DEF ForkIInv
<1>2. CASE do_fork
  <2>1. CASE UNCHANGED pgd
    BY <2>1 DEF EntriesFollowAreas
  <2>2. QED  BY <1>2, <2>1, CopyAllEntries DEF do_fork, ForkFails, CopyAll, Halt
<1>3. QED  BY <1>1, <1>2, ForkNextCases

\* The child's copies hold what the parent's pages hold.
LEMMA CopyAllRefines ==
  ASSUME ForkIInv, IInv', CopyAll,
         Room(2 + Cardinality(UNION {tables(v) : v \in Shared}) + PagesFor(lists[current]))
  PROVE  Private!Next
<1> DEFINE child == tasks_number + 1
<1>1. PICK new \in [Shared -> Frames] :
         /\ \A v \in Shared : ref_cnt[new[v]] = 0
         /\ child \in Pids /\ tasks_number' = child
         /\ \A p \in Pids, u \in Pages :
              /\ p # child => pgd'[p][u] = pgd[p][u]
              /\ u \in Shared => pgd'[child][u] = [frame |-> new[u], perm |-> AreaPerm(u)]
              /\ u \notin Shared => pgd'[child][u] = Invalid
         /\ \A v \in Shared : content'[new[v]] = content[pgd[current][v].frame]
         /\ \A f \in Frames : (\A v \in Shared : new[v] # f) => content'[f] = content[f]
  BY CopyAllEffect
<1>2. IInv /\ current \in Pids /\ current \in 1 .. tasks_number /\ tasks_number \in Nat
  BY SizeAssumption DEF ForkIInv, IInv, TypeOK, Pids
<1>3. \A u \in UserPages : u \in Shared <=> pgd[current][u] # Invalid
  BY UserPagesArePages DEF Shared, Mapped, UserPages
<1>4. \A p \in Pids, u \in Pages, v \in Shared : pgd[p][u].frame # new[v]
  <2> TAKE p \in Pids, u \in Pages, v \in Shared
  <2>1. Users(new[v]) = {}
    BY <1>1, FewUsers DEF ForkIInv, IInv
  <2>2. QED  BY <2>1, UsersAre
<1>5. child # current /\ 1 .. child = (1 .. tasks_number) \cup {child} /\ child \notin 1 .. tasks_number
  BY <1>2
<1> HIDE DEF child
<1>6. \A p \in Pids, u \in UserPages :
        View(p, u)' = IF p = child THEN View(current, u) ELSE View(p, u)
  <2> TAKE p \in Pids, u \in UserPages
  <2>1. u \in Pages
    BY UserPagesArePages
  <2>2. CASE p = child /\ u \in Shared
    <3>1. pgd'[p][u] = [frame |-> new[u], perm |-> AreaPerm(u)]
      BY <1>1, <2>1, <2>2
    <3>2. pgd'[p][u].frame = new[u] /\ pgd'[p][u] # Invalid
      BY <2>2, <3>1 DEF Invalid, Frames
    <3>3. View(p, u)' = content'[new[u]]
      BY <2>1, <3>2, ViewIsAfter
    <3>4. View(current, u) = content[pgd[current][u].frame]
      BY <1>2, <1>3, <2>1, <2>2, ViewIs
    <3>5. QED  BY <1>1, <2>2, <3>3, <3>4
  <2>3. CASE p = child /\ u \notin Shared
    <3>1. pgd'[p][u] = Invalid /\ pgd[current][u] = Invalid
      BY <1>1, <1>3, <2>1, <2>3
    <3>2. View(p, u)' = Untouched
      BY <2>1, <3>1, ViewIsAfter
    <3>3. View(current, u) = Untouched
      BY <1>2, <2>1, <3>1, ViewIs
    <3>4. QED  BY <2>3, <3>2, <3>3
  <2>4. CASE p # child
    <3>1. pgd'[p][u] = pgd[p][u]
      BY <1>1, <2>1, <2>4
    <3>2. pgd[p][u] # Invalid => content'[pgd[p][u].frame] = content[pgd[p][u].frame]
      <4>1. pgd[p][u] # Invalid => pgd[p][u].frame \in Frames
        BY <1>2, <2>1, EntryType DEF IInv
      <4>2. \A v \in Shared : new[v] # pgd[p][u].frame
        BY <1>4, <2>1
      <4>3. QED  BY <1>1, <4>1, <4>2
    <3>3. View(p, u) = IF pgd[p][u] # Invalid THEN content[pgd[p][u].frame] ELSE Untouched
      BY <1>2, <2>1, ViewIs
    <3>4. View(p, u)' = IF pgd'[p][u] # Invalid THEN content'[pgd'[p][u].frame] ELSE Untouched
      BY <2>1, ViewIsAfter
    <3>5. QED  BY <2>4, <3>1, <3>2, <3>3, <3>4
  <2>5. QED  BY <2>2, <2>3, <2>4
<1>7. Memory' = [Memory EXCEPT ![child] = Memory[current]]
  <2>1. Memory' = [p \in Pids |-> [u \in UserPages |->
                    IF p = child THEN View(current, u) ELSE View(p, u)]]
    BY <1>6 DEF Memory
  <2>2. [Memory EXCEPT ![child] = Memory[current]]
          = [p \in Pids |-> [u \in UserPages |->
               IF p = child THEN View(current, u) ELSE View(p, u)]]
    BY <1>2 DEF Memory
  <2>3. QED  BY <2>1, <2>2
<1>8. tasks_number' = child /\ child \in Pids
  BY <1>1
<1>9. Private!Fork(current, child)
  BY <1>2, <1>5, <1>7, <1>8 DEF Private!Fork, Memory
<1>10. QED  BY <1>2, <1>8, <1>9 DEF Private!Next

LEMMA ForkNextRefines ==
  ASSUME ForkIInv, ForkIInv', EntriesFollowAreas, [ForkNext]_forkVars
  PROVE  [Private!Next]_(Private!vars)
<1>1. IInv /\ IInv'
  BY DEF ForkIInv
<1>2. ASSUME NEW found, Finds(found), [StepsIn(found)]_vars
      PROVE  [Private!Next]_(Private!vars)
  BY <1>1, <1>2, StepsRefine
<1>3. CASE do_fork
  <2>1. CASE UNCHANGED <<tasks_number, pgd, content>>
    <3>1. \A p \in Pids, u \in UserPages : View(p, u)' = View(p, u)
      BY <1>1, <2>1, ViewIs, ViewIsAfter, UserPagesArePages
    <3>2. QED  BY <2>1, <3>1, SameViews
  <2>2. QED  BY <1>1, <1>3, <2>1, CopyAllRefines DEF do_fork, ForkFails, CopyAll, Halt
<1>4. QED  BY <1>2, <1>3, ForkNextCases

\* do_fork and do_cow_fork keep the same promise: each task has a memory of
\* its own, and a fork gives the child what the parent has.  The order of the
\* areas differs between a task and its child by do_fork, so they must agree
\* where they meet whichever of them is found.
THEOREM ForkImplementsPrivateMemory ==
  ASSUME AnyOrder
  PROVE  ForkSpec => ImplementsPrivateMemory
<1>1. ForkInit => Private!Init /\ EntriesFollowAreas
  BY InitRefines, InitEntries DEF ForkInit
<1>2. ForkIInv /\ EntriesFollowAreas /\ [ForkNext]_forkVars => EntriesFollowAreas'
  BY ForkNextEntries
<1>3. ForkIInv /\ ForkIInv' /\ EntriesFollowAreas /\ [ForkNext]_forkVars
        => [Private!Next]_(Private!vars)
  BY ForkNextRefines
<1>4. QED
  BY <1>1, <1>2, <1>3, ForkInvariant, PTL DEF ForkSpec, ImplementsPrivateMemory, Private!Spec
=============================================================================
