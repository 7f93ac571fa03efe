----------------------------- MODULE LoadProofs -----------------------------
(***************************************************************************)
(* Proofs about ElfImage and DemandLoad, for every image whose segments    *)
(* come in the order of their addresses, every size of a page and every    *)
(* access.                                                                 *)
(***************************************************************************)
EXTENDS DemandLoad, ProofBasics

\* The area do_mmap makes of a header, and that of the stack.
AreaOf(h) == vm_area_struct(h.p_vaddr, h.p_memsz, h.p_offset, h.p_filesz, perm(h.p_flags))
StackArea == vm_area_struct(USER_END - PGSIZE, PGSIZE, 0, 0, 7)

AreaType ==
  [vm_start : Int, vm_end : Int, vm_flags : Nat, vm_pgoff : Nat, vm_filesz : Nat]

\* The page before the copy.
Blank == [k \in Offsets |-> Hole]

Progress ==
  /\ phdrs \in Images
  /\ i \in 0 .. Len(phdrs)
  /\ phase \in {"vma", "ready", "loaded", "stopped"}
  /\ phase # "vma" => i = Len(phdrs)

\* The list has the segments read so far and, at the end, the stack; each area
\* lies below the ones in front of it.
Listed ==
  /\ mmap \in Seq(AreaType)
  /\ \A k \in DOMAIN mmap :
       \/ \E j \in Loads(phdrs) : j <= i /\ mmap[k] = AreaOf(phdrs[j])
       \/ phase # "vma" /\ mmap[k] = StackArea
  /\ \A j \in Loads(phdrs) : j <= i => \E k \in DOMAIN mmap : mmap[k] = AreaOf(phdrs[j])
  /\ phase # "vma" => \E k \in DOMAIN mmap : mmap[k] = StackArea

Descending == \A k, l \in DOMAIN mmap : k < l => mmap[l].vm_end <= mmap[k].vm_start

\* What a fault has done.
Faulted ==
  /\ VMA_VA \in Nat /\ kind \in Kinds
  /\ phase \in {"vma", "ready"} => page = Blank
  /\ phase = "loaded" =>
       \E k \in find_vma(VMA_VA) :
         /\ Bit(mmap[k].vm_flags, VM[kind]) = 1
         /\ Bit(mmap[k].vm_flags, 0) # 1 =>
              page = [n \in Offsets |->
                        IF n \in offset(mmap[k], VMA_VA)
                                 .. offset(mmap[k], VMA_VA) + copied(mmap[k], VMA_VA) - 1
                        THEN start_copy(mmap[k], VMA_VA) - SRAMDISK + n - offset(mmap[k], VMA_VA)
                        ELSE Hole]
  /\ phase = "stopped" => \A k \in find_vma(VMA_VA) : Bit(mmap[k].vm_flags, VM[kind]) = 0

IInv == Progress /\ Listed /\ Descending /\ Faulted

-----------------------------------------------------------------------------
\* Headers and areas.

\* X, W and R are moved, and the area is not anonymous.
LEMMA FlagsMoved ==
  ASSUME NEW f \in 0 .. 7
  PROVE  /\ perm(f) \in Nat /\ Bit(perm(f), 0) = 0
         /\ \A a \in Kinds : Bit(perm(f), VM[a]) = Bit(f, PF[a])
<1>1. f \in {0, 1, 2, 3, 4, 5, 6, 7}
  OBVIOUS
<1>2. 2^0 = 1 /\ 2^1 = 2 /\ 2^2 = 4 /\ 2^3 = 8
  OBVIOUS
<1>3. perm(f) \in Nat /\ Bit(perm(f), 0) = 0
  BY <1>1, <1>2 DEF perm, Bit, PF
<1>4. /\ Bit(perm(f), 1) = Bit(f, 2) /\ Bit(perm(f), 2) = Bit(f, 1)
      /\ Bit(perm(f), 3) = Bit(f, 0)
  BY <1>1, <1>2 DEF perm, Bit, PF
<1>5. \A a \in Kinds : Bit(perm(f), VM[a]) = Bit(f, PF[a])
  BY <1>4 DEF Kinds, VM, PF
<1>6. QED  BY <1>3, <1>5

LEMMA StackFlags ==
  /\ Bit(7, 0) = 1
  /\ Bit(7, VM["R"]) = 1 /\ Bit(7, VM["W"]) = 1 /\ Bit(7, VM["X"]) = 0
<1>1. 2^0 = 1 /\ 2^1 = 2 /\ 2^2 = 4 /\ 2^3 = 8
  OBVIOUS
<1>2. QED  BY <1>1 DEF Bit, VM

LEMMA HeaderType ==
  ASSUME phdrs \in Images, NEW j \in Loads(phdrs)
  PROVE  /\ j \in 1 .. Len(phdrs) /\ phdrs[j] \in Phdr /\ phdrs[j].p_flags \in 0 .. 7
         /\ phdrs[j].p_vaddr \in Nat /\ phdrs[j].p_memsz \in Nat \ {0}
         /\ phdrs[j].p_offset \in Nat /\ phdrs[j].p_filesz \in Nat
         /\ phdrs[j].p_filesz <= phdrs[j].p_memsz
         /\ phdrs[j].p_vaddr % PGSIZE = phdrs[j].p_offset % PGSIZE
         /\ phdrs[j].p_vaddr + phdrs[j].p_memsz < USER_END - PGSIZE
         /\ SRAMDISK + phdrs[j].p_offset + phdrs[j].p_memsz + PGSIZE < WORD
         /\ \A l \in Loads(phdrs) : j < l => phdrs[j].p_vaddr + phdrs[j].p_memsz <= phdrs[l].p_vaddr
<1>1. phdrs \in Seq(Phdr) /\ j \in DOMAIN phdrs /\ DOMAIN phdrs = 1 .. Len(phdrs)
  BY ImageAssumption DEF Loads
<1>2. phdrs[j] \in Phdr
  BY <1>1
<1>3. /\ 0 < phdrs[j].p_memsz /\ phdrs[j].p_filesz <= phdrs[j].p_memsz
      /\ phdrs[j].p_vaddr % PGSIZE = phdrs[j].p_offset % PGSIZE
      /\ phdrs[j].p_vaddr + phdrs[j].p_memsz < USER_END - PGSIZE
      /\ SRAMDISK + phdrs[j].p_offset + phdrs[j].p_memsz + PGSIZE < WORD
      /\ \A l \in Loads(phdrs) : j < l => phdrs[j].p_vaddr + phdrs[j].p_memsz <= phdrs[l].p_vaddr
  BY ImageAssumption
<1>4. QED  BY <1>1, <1>2, <1>3 DEF Phdr

LEMMA AreasTyped ==
  ASSUME phdrs \in Images
  PROVE  /\ StackArea \in AreaType
         /\ \A j \in Loads(phdrs) : AreaOf(phdrs[j]) \in AreaType
<1>1. StackArea \in AreaType
  BY ImageAssumption DEF StackArea, vm_area_struct, AreaType
<1>2. ASSUME NEW j \in Loads(phdrs)
      PROVE  AreaOf(phdrs[j]) \in AreaType
  <2>1. perm(phdrs[j].p_flags) \in Nat
    BY HeaderType, FlagsMoved
  <2>2. QED  BY <2>1, HeaderType DEF AreaOf, vm_area_struct, AreaType
<1>3. QED  BY <1>1, <1>2

\* do_mmap puts a node in front of a list.
LEMMA InFront ==
  ASSUME NEW S, NEW a \in S, NEW q \in Seq(S)
  PROVE  LET s == <<a>> \o q IN
         /\ s \in Seq(S) /\ DOMAIN s = 1 .. Len(q) + 1 /\ s[1] = a
         /\ \A k \in 1 .. Len(q) : s[k + 1] = q[k]
OBVIOUS

\* What is in front of the list keeps its order if it lies above it.
LEMMA FrontDescends ==
  ASSUME NEW a \in AreaType, mmap \in Seq(AreaType), Descending, mmap' = <<a>> \o mmap,
         \A k \in DOMAIN mmap : mmap[k].vm_end <= a.vm_start
  PROVE  /\ mmap' \in Seq(AreaType) /\ Descending'
         /\ \A k \in DOMAIN mmap' : mmap'[k] = a \/ \E l \in DOMAIN mmap : mmap'[k] = mmap[l]
         /\ \E k \in DOMAIN mmap' : mmap'[k] = a
         /\ \A l \in DOMAIN mmap : \E k \in DOMAIN mmap' : mmap'[k] = mmap[l]
<1>1. /\ mmap' \in Seq(AreaType) /\ DOMAIN mmap' = 1 .. Len(mmap) + 1 /\ mmap'[1] = a
      /\ \A k \in 1 .. Len(mmap) : mmap'[k + 1] = mmap[k]
  BY InFront
<1>2. DOMAIN mmap = 1 .. Len(mmap) /\ Len(mmap) \in Nat
  OBVIOUS
<1>3. \A k \in DOMAIN mmap' : k # 1 => k - 1 \in DOMAIN mmap /\ mmap'[k] = mmap[k - 1]
  BY <1>1, <1>2
<1>4. Descending'
  <2> SUFFICES ASSUME NEW k \in DOMAIN mmap', NEW l \in DOMAIN mmap', k < l
               PROVE  mmap'[l].vm_end <= mmap'[k].vm_start
    BY DEF Descending
  <2>1. k \in Nat /\ l \in Nat /\ k >= 1
    BY <1>1, <1>2
  <2>2. l # 1 /\ l - 1 \in DOMAIN mmap /\ mmap'[l] = mmap[l - 1]
    BY <1>3, <2>1
  <2>3. CASE k = 1
    BY <1>1, <2>2, <2>3
  <2>4. CASE k # 1
    BY <1>3, <2>1, <2>2, <2>4 DEF Descending
  <2>5. QED  BY <2>3, <2>4
<1>5. \A l \in DOMAIN mmap : l + 1 \in DOMAIN mmap' /\ mmap'[l + 1] = mmap[l]
  BY <1>1, <1>2
<1>6. 1 \in DOMAIN mmap'
  BY <1>1, <1>2
<1>7. QED  BY <1>1, <1>3, <1>4, <1>5, <1>6

-----------------------------------------------------------------------------
\* The invariant.
LEMMA InitIInv == Init => IInv
<1> SUFFICES ASSUME Init  PROVE  IInv
  OBVIOUS
<1> USE DEF Init, ImageInit
<1>1. phdrs \in Seq(Phdr)
  BY ImageAssumption
<1>2. Progress
  BY <1>1 DEF Progress
<1>3. mmap \in Seq(AreaType) /\ DOMAIN mmap = {}
  OBVIOUS
<1>4. \A j \in Loads(phdrs) : ~ (j <= i)
  BY HeaderType
<1>5. Listed
  BY <1>3, <1>4 DEF Listed
<1>6. Descending
  BY <1>3 DEF Descending
<1>7. Faulted
  BY DEF Faulted, Blank, Kinds
<1>8. QED  BY <1>2, <1>5, <1>6, <1>7 DEF IInv

\* An area of a segment that was read lies below one of a later segment, and
\* below the stack.
LEMMA HeaderIInv == IInv /\ Header /\ UNCHANGED <<VMA_VA, kind, page>> => IInv'
<1> SUFFICES ASSUME IInv, Header, UNCHANGED <<VMA_VA, kind, page>>  PROVE  IInv'
  OBVIOUS
<1> DEFINE h == phdrs[i + 1]
<1>1. /\ phase = "vma" /\ phase' = "vma" /\ phdrs' = phdrs /\ i' = i + 1
      /\ i \in Nat /\ i < Len(phdrs) /\ phdrs \in Images /\ Len(phdrs) \in Nat
  <2>1. phdrs \in Seq(Phdr)
    BY ImageAssumption DEF IInv, Progress
  <2>2. QED  BY <2>1 DEF IInv, Progress, Header
<1>2. Progress'
  BY <1>1 DEF IInv, Progress
<1>3. Faulted'
  BY <1>1 DEF IInv, Faulted
<1>4. i + 1 \in DOMAIN phdrs
  <2>1. phdrs \in Seq(Phdr)
    BY <1>1, ImageAssumption
  <2>2. QED  BY <1>1, <2>1
<1>5. \A j \in Loads(phdrs) : j \in Nat
  BY <1>1, HeaderType
<1>6. CASE h.p_type = PT_LOAD
  <2>1. mmap' = <<AreaOf(h)>> \o mmap
    BY <1>6 DEF Header, do_mmap, AreaOf
  <2>2. i + 1 \in Loads(phdrs)
    BY <1>4, <1>6 DEF Loads
  <2>3. AreaOf(h) \in AreaType
    BY <1>1, <2>2, AreasTyped
  <2>4. ASSUME NEW k \in DOMAIN mmap
        PROVE  mmap[k].vm_end <= AreaOf(h).vm_start
    <3>1. PICK j \in Loads(phdrs) : j <= i /\ mmap[k] = AreaOf(phdrs[j])
      BY <1>1, <2>4 DEF IInv, Listed
    <3>2. phdrs[j].p_vaddr + phdrs[j].p_memsz <= phdrs[i + 1].p_vaddr
      BY <1>1, <1>5, <2>2, <3>1, HeaderType
    <3>3. QED  BY <3>1, <3>2 DEF AreaOf, vm_area_struct
  <2>5. /\ mmap' \in Seq(AreaType) /\ Descending'
        /\ \A k \in DOMAIN mmap' : mmap'[k] = AreaOf(h) \/ \E l \in DOMAIN mmap : mmap'[k] = mmap[l]
        /\ \E k \in DOMAIN mmap' : mmap'[k] = AreaOf(h)
        /\ \A l \in DOMAIN mmap : \E k \in DOMAIN mmap' : mmap'[k] = mmap[l]
    <3> HIDE DEF h
    <3>1. mmap \in Seq(AreaType) /\ Descending
      BY DEF IInv, Listed
    <3>2. QED  BY <2>1, <2>3, <2>4, <3>1, FrontDescends
  <2>6. \A k \in DOMAIN mmap' : \E j \in Loads(phdrs) : j <= i + 1 /\ mmap'[k] = AreaOf(phdrs[j])
    <3>1. \A l \in DOMAIN mmap : \E j \in Loads(phdrs) : j <= i /\ mmap[l] = AreaOf(phdrs[j])
      BY <1>1 DEF IInv, Listed
    <3>2. QED  BY <1>1, <1>5, <2>2, <2>5, <3>1
  <2>7. \A j \in Loads(phdrs) : j <= i + 1 => \E k \in DOMAIN mmap' : mmap'[k] = AreaOf(phdrs[j])
    <3>1. \A j \in Loads(phdrs) : j <= i + 1 => j <= i \/ j = i + 1
      BY <1>1, <1>5
    <3>2. \A j \in Loads(phdrs) : j <= i => \E k \in DOMAIN mmap : mmap[k] = AreaOf(phdrs[j])
      BY DEF IInv, Listed
    <3>3. QED  BY <2>5, <3>1, <3>2
  <2>8. Listed'
    BY <1>1, <2>5, <2>6, <2>7 DEF Listed
  <2>9. QED  BY <1>2, <1>3, <2>5, <2>8 DEF IInv
<1>7. CASE h.p_type # PT_LOAD
  <2>1. mmap' = mmap
    BY <1>7 DEF Header
  <2>2. i + 1 \notin Loads(phdrs)
    BY <1>7 DEF Loads
  <2>3. \A j \in Loads(phdrs) : j <= i + 1 <=> j <= i
    BY <1>1, <1>5, <2>2
  <2>4. Listed' /\ Descending'
    BY <1>1, <2>1, <2>3 DEF IInv, Listed, Descending
  <2>5. QED  BY <1>2, <1>3, <2>4 DEF IInv
<1>8. QED  BY <1>6, <1>7

LEMMA StackIInv == IInv /\ Stack /\ UNCHANGED <<VMA_VA, kind, page>> => IInv'
<1> SUFFICES ASSUME IInv, Stack, UNCHANGED <<VMA_VA, kind, page>>  PROVE  IInv'
  OBVIOUS
<1>1. /\ phase = "vma" /\ phase' = "ready" /\ phdrs' = phdrs /\ i' = i /\ i = Len(phdrs)
      /\ phdrs \in Images /\ mmap' = <<StackArea>> \o mmap
  BY DEF IInv, Progress, Stack, do_mmap, StackArea
<1>2. Progress' /\ Faulted'
  BY <1>1 DEF IInv, Progress, Faulted
<1>3. \A k \in DOMAIN mmap : \E j \in Loads(phdrs) : j <= i /\ mmap[k] = AreaOf(phdrs[j])
  BY <1>1 DEF IInv, Listed
<1>4. ASSUME NEW k \in DOMAIN mmap
      PROVE  mmap[k].vm_end <= StackArea.vm_start
  <2>1. PICK j \in Loads(phdrs) : mmap[k] = AreaOf(phdrs[j])
    BY <1>3
  <2>2. phdrs[j].p_vaddr + phdrs[j].p_memsz <= USER_END - PGSIZE
    BY <1>1, HeaderType, ImageAssumption
  <2>3. QED  BY <2>1, <2>2 DEF AreaOf, StackArea, vm_area_struct
<1>5. /\ mmap' \in Seq(AreaType) /\ Descending'
      /\ \A k \in DOMAIN mmap' : mmap'[k] = StackArea \/ \E l \in DOMAIN mmap : mmap'[k] = mmap[l]
      /\ \E k \in DOMAIN mmap' : mmap'[k] = StackArea
      /\ \A l \in DOMAIN mmap : \E k \in DOMAIN mmap' : mmap'[k] = mmap[l]
  <2>1. mmap \in Seq(AreaType) /\ Descending /\ StackArea \in AreaType
    BY <1>1, AreasTyped DEF IInv, Listed
  <2>2. QED  BY <1>1, <1>4, <2>1, FrontDescends
<1>6. \A j \in Loads(phdrs) : j <= i => \E k \in DOMAIN mmap' : mmap'[k] = AreaOf(phdrs[j])
  BY <1>5 DEF IInv, Listed
<1>7. Listed'
  BY <1>1, <1>3, <1>5, <1>6 DEF Listed
<1>8. QED  BY <1>2, <1>5, <1>7 DEF IInv

LEMMA FaultIInv ==
  ASSUME IInv, NEW va \in 0 .. USER_END, NEW access \in Kinds, do_page_fault(va, access)
  PROVE  IInv'
<1>1. /\ phase = "ready" /\ phdrs' = phdrs /\ i' = i /\ mmap' = mmap
      /\ VMA_VA' = va /\ kind' = access /\ phase' \in {"loaded", "stopped"}
      /\ phdrs \in Images /\ page = Blank
  BY DEF IInv, Progress, Faulted, do_page_fault
<1>2. Progress' /\ Listed' /\ Descending'
  BY <1>1 DEF IInv, Progress, Listed, Descending
<1>3. find_vma(VMA_VA)' = find_vma(va)
  BY <1>1 DEF find_vma
<1>4. VMA_VA' \in Nat /\ kind' \in Kinds
  BY <1>1, ImageAssumption
<1>5. CASE phase' = "loaded"
  <2>1. PICK k \in find_vma(va) :
          /\ Bit(mmap[k].vm_flags, VM[access]) = 1
          /\ page' = IF Bit(mmap[k].vm_flags, 0) = 1 THEN page ELSE memcpy(mmap[k], va)
    BY <1>5 DEF do_page_fault
  <2>2. Bit(mmap[k].vm_flags, 0) # 1 =>
          page' = [n \in Offsets |->
                     IF n \in offset(mmap[k], va) .. offset(mmap[k], va) + copied(mmap[k], va) - 1
                     THEN start_copy(mmap[k], va) - SRAMDISK + n - offset(mmap[k], va)
                     ELSE Hole]
    BY <1>1, <2>1 DEF memcpy, Blank
  <2>3. QED  BY <1>1, <1>2, <1>3, <1>4, <1>5, <2>1, <2>2 DEF IInv, Faulted
<1>6. CASE phase' = "stopped"
  <2>1. \A k \in find_vma(va) : Bit(mmap[k].vm_flags, VM[access]) = 0
    BY <1>6 DEF do_page_fault
  <2>2. QED  BY <1>1, <1>2, <1>3, <1>4, <1>6, <2>1 DEF IInv, Faulted
<1>7. QED  BY <1>1, <1>5, <1>6

LEMMA NextIInv == IInv /\ [Next]_vars => IInv'
<1> SUFFICES ASSUME IInv, [Next]_vars  PROVE  IInv'
  OBVIOUS
<1>1. CASE VMA_init /\ UNCHANGED <<VMA_VA, kind, page>>
  BY <1>1, HeaderIInv, StackIInv DEF VMA_init
<1>2. ASSUME NEW va \in 0 .. USER_END, NEW access \in Kinds, do_page_fault(va, access)
      PROVE  IInv'
  BY <1>2, FaultIInv
<1>3. CASE UNCHANGED vars
  BY <1>3
  DEF vars, IInv, Progress, Listed, Descending, Faulted, find_vma
<1>4. QED  BY <1>1, <1>2, <1>3 DEF Next

\* The list of areas is that of the image's segments, from the highest down,
\* and a fault has gone by the area it found.
THEOREM LoadInvariant == Spec => []IInv
BY InitIInv, NextIInv, PTL DEF Spec

-----------------------------------------------------------------------------
\* find_vma finds the area that has the address before its end, whichever
\* area it may be the end of.
LEMMA AreaFound ==
  ASSUME IInv, NEW k \in DOMAIN mmap, NEW va \in Nat,
         mmap[k].vm_start <= va, va < mmap[k].vm_end
  PROVE  find_vma(va) = {k}
<1>1. /\ DOMAIN mmap = 1 .. Len(mmap) /\ Len(mmap) \in Nat
      /\ \A l \in DOMAIN mmap : mmap[l].vm_start \in Int /\ mmap[l].vm_end \in Int
  <2>1. mmap \in Seq(AreaType)
    BY DEF IInv, Listed
  <2>2. \A l \in DOMAIN mmap : mmap[l] \in AreaType
    BY <2>1
  <2>3. \A a \in AreaType : a.vm_start \in Int /\ a.vm_end \in Int
    BY DEF AreaType
  <2>4. DOMAIN mmap = 1 .. Len(mmap) /\ Len(mmap) \in Nat
    BY <2>1
  <2>5. QED  BY <2>2, <2>3, <2>4
<1>2. \A l \in 1 .. k - 1 : ~ (mmap[l].vm_start <= va /\ va <= mmap[l].vm_end)
  BY <1>1 DEF IInv, Descending
<1>3. k \in find_vma(va)
  BY <1>1, <1>2 DEF find_vma
<1>4. ASSUME NEW l \in find_vma(va)  PROVE  l = k
  <2>1. /\ l \in DOMAIN mmap /\ mmap[l].vm_start <= va /\ va <= mmap[l].vm_end
        /\ \A j \in 1 .. l - 1 : ~ (mmap[j].vm_start <= va /\ va <= mmap[j].vm_end)
    BY DEF find_vma
  <2>2. ~ (l < k)
    BY <1>1, <1>2, <2>1
  <2>3. ~ (k < l)
    BY <1>1, <2>1
  <2>4. QED  BY <1>1, <2>1, <2>2, <2>3
<1>5. QED  BY <1>3, <1>4

\* An address in a segment leads to the area of its header and of no other.
LEMMA SegmentFound ==
  ASSUME IInv, phase # "vma", NEW h \in Segment
  PROVE  /\ \E k \in DOMAIN mmap : find_vma(VMA_VA) = {k} /\ mmap[k] = AreaOf(h)
         /\ \E j \in Loads(phdrs) : h = phdrs[j]
         /\ h.p_vaddr <= VMA_VA /\ VMA_VA < h.p_vaddr + h.p_memsz
         /\ Segment = {h}
<1>1. PICK j \in Loads(phdrs) :
        /\ h = phdrs[j]
        /\ h.p_vaddr <= VMA_VA /\ VMA_VA < h.p_vaddr + h.p_memsz
  BY DEF Segment
<1>2. phdrs \in Images /\ i = Len(phdrs) /\ VMA_VA \in Nat
  BY DEF IInv, Progress, Faulted
<1>3. PICK k \in DOMAIN mmap : mmap[k] = AreaOf(h)
  <2>1. j <= i
    <3>1. phdrs \in Seq(Phdr)
      BY <1>2, ImageAssumption
    <3>2. QED  BY <1>2, <3>1, HeaderType
  <2>2. QED  BY <1>1, <2>1 DEF IInv, Listed
<1>4. find_vma(VMA_VA) = {k}
  <2>1. mmap[k].vm_start <= VMA_VA /\ VMA_VA < mmap[k].vm_end
    BY <1>1, <1>3 DEF AreaOf, vm_area_struct
  <2>2. QED  BY <1>2, <2>1, AreaFound
<1>5. ASSUME NEW g \in Segment  PROVE  g = h
  <2>1. PICK l \in Loads(phdrs) :
          g = phdrs[l] /\ g.p_vaddr <= VMA_VA /\ VMA_VA < g.p_vaddr + g.p_memsz
    BY DEF Segment
  <2>2. /\ l \in Nat /\ j \in Nat
        /\ h.p_vaddr \in Nat /\ h.p_memsz \in Nat /\ g.p_vaddr \in Nat /\ g.p_memsz \in Nat
    <3>1. phdrs \in Seq(Phdr)
      BY <1>2, ImageAssumption
    <3>2. QED  BY <1>1, <1>2, <2>1, <3>1, HeaderType
  <2>3. ~ (j < l)
    <3>1. j < l => h.p_vaddr + h.p_memsz <= g.p_vaddr
      BY <1>1, <1>2, <2>1, HeaderType
    <3>2. QED  BY <1>1, <1>2, <2>1, <2>2, <3>1
  <2>4. ~ (l < j)
    <3>1. l < j => g.p_vaddr + g.p_memsz <= h.p_vaddr
      BY <1>1, <1>2, <2>1, HeaderType
    <3>2. QED  BY <1>1, <1>2, <2>1, <2>2, <3>1
  <2>5. l = j
    BY <2>2, <2>3, <2>4
  <2>6. QED  BY <1>1, <2>1, <2>5
<1>6. QED  BY <1>1, <1>3, <1>4, <1>5

\* An access inside a segment is allowed if and only if the segment's program
\* header allows it, also at an address where one area ends and the next one
\* begins; the stack can be read and written.
THEOREM LoadAccessRight == Spec => []AccessRight
<1>1. ASSUME IInv  PROVE  AccessRight
  <2>1. kind \in Kinds /\ VMA_VA \in Nat /\ phdrs \in Images
    BY <1>1 DEF IInv, Progress, Faulted
  <2>2. ASSUME NEW h \in Segment, phase \in {"loaded", "stopped"}
        PROVE  /\ phase = "loaded" => Bit(h.p_flags, PF[kind]) = 1
               /\ phase = "stopped" => Bit(h.p_flags, PF[kind]) = 0
    <3>1. PICK k \in DOMAIN mmap : find_vma(VMA_VA) = {k} /\ mmap[k] = AreaOf(h)
      BY <1>1, <2>2, SegmentFound
    <3>2. h.p_flags \in 0 .. 7
      BY <1>1, <2>1, <2>2, SegmentFound, HeaderType
    <3>3. Bit(mmap[k].vm_flags, VM[kind]) = Bit(h.p_flags, PF[kind])
      BY <2>1, <3>1, <3>2, FlagsMoved DEF AreaOf, vm_area_struct
    <3>4. /\ phase = "loaded" => Bit(mmap[k].vm_flags, VM[kind]) = 1
          /\ phase = "stopped" => Bit(mmap[k].vm_flags, VM[kind]) = 0
      BY <1>1, <3>1 DEF IInv, Faulted
    <3>5. QED  BY <3>3, <3>4
  <2>3. ASSUME InStack, phase \in {"loaded", "stopped"}
        PROVE  (phase = "loaded") = (kind # "X")
    <3>1. PICK k \in DOMAIN mmap : mmap[k] = StackArea
      BY <1>1, <2>3 DEF IInv, Listed
    <3>2. find_vma(VMA_VA) = {k}
      <4>1. mmap[k].vm_start <= VMA_VA /\ VMA_VA < mmap[k].vm_end
        BY <2>1, <2>3, <3>1, ImageAssumption DEF InStack, StackArea, vm_area_struct
      <4>2. QED  BY <1>1, <2>1, <4>1, AreaFound
    <3>3. mmap[k].vm_flags = 7
      BY <3>1 DEF StackArea, vm_area_struct
    <3>4. /\ phase = "loaded" => Bit(7, VM[kind]) = 1
          /\ phase = "stopped" => Bit(7, VM[kind]) = 0
      BY <1>1, <3>2, <3>3 DEF IInv, Faulted
    <3>5. Bit(7, VM[kind]) = IF kind = "X" THEN 0 ELSE 1
      BY <2>1, StackFlags DEF Kinds
    <3>6. QED  BY <2>3, <3>4, <3>5
  <2>4. QED  BY <2>2, <2>3 DEF AccessRight
<1>2. QED  BY <1>1, LoadInvariant, PTL

-----------------------------------------------------------------------------
\* Pages and the addresses in them.
LEMMA SizeFacts ==
  PGSIZE \in Nat \ {0} /\ WORD \in Nat /\ SRAMDISK \in Nat /\ USER_END \in Nat
BY ImageAssumption

\* A page and an offset in it.
LEMMA Split ==
  ASSUME NEW a \in Nat
  PROVE  \E q \in Nat, r \in 0 .. PGSIZE - 1 :
           /\ a = PGSIZE * q + r /\ q = a \div PGSIZE /\ r = a % PGSIZE
           /\ PGROUNDDOWN(a) = PGSIZE * q
<1> DEFINE q == a \div PGSIZE
           r == a - PGSIZE * q
<1>1. q \in Nat /\ PGSIZE * q <= a /\ a < PGSIZE * (q + 1) /\ PGSIZE * q \in Nat
  BY SizeFacts, DivBounds
<1>2. PGSIZE * (q + 1) = PGSIZE * q + PGSIZE
  BY <1>1, SizeFacts
<1>3. r \in 0 .. PGSIZE - 1 /\ a = PGSIZE * q + r
  <2> HIDE DEF q
  <2>1. QED  BY <1>1, <1>2, SizeFacts
<1>4. r = a % PGSIZE
  <2>1. (PGSIZE * q + r) % PGSIZE = r
    <3> HIDE DEF q, r
    <3>1. QED  BY <1>1, <1>3, SizeFacts, DivUnique
  <2>2. QED  BY <1>3, <2>1
<1>5. PGROUNDDOWN(a) = PGSIZE * q
  <2>1. PGROUNDDOWN(a) = q * PGSIZE
    BY DEF PGROUNDDOWN
  <2> HIDE DEF q
  <2>2. QED  BY <1>1, <2>1, SizeFacts
<1>6. q = a \div PGSIZE
  OBVIOUS
<1> HIDE DEF q, r
<1>7. QED  BY <1>1, <1>3, <1>4, <1>5, <1>6

LEMMA Rounded ==
  ASSUME NEW q \in Nat, NEW r \in 0 .. PGSIZE - 1
  PROVE  /\ PGSIZE * q \in Nat /\ PGSIZE * (q + 1) = PGSIZE * q + PGSIZE
         /\ PGROUNDDOWN(PGSIZE * q + r) = PGSIZE * q
         /\ (PGSIZE * q + r) % PGSIZE = r
         /\ PGROUNDUP(PGSIZE * q + r) = IF r = 0 THEN PGSIZE * q ELSE PGSIZE * q + PGSIZE
<1> DEFINE P == PGSIZE
<1>1. P \in Nat \ {0} /\ P * q \in Nat /\ P * (q + 1) = P * q + P
  BY SizeFacts
<1>2. (P * q + r) \div P = q /\ (P * q + r) % P = r
  BY <1>1, DivUnique
<1>3. q * P = P * q /\ (q + 1) * P = P * (q + 1)
  BY <1>1
<1>4. PGROUNDDOWN(P * q + r) = P * q
  BY <1>2, <1>3 DEF PGROUNDDOWN
<1>5. CASE r = 0
  <2>1. P * q + r + P - 1 = P * q + (P - 1) /\ P - 1 \in 0 .. P - 1
    BY <1>1, <1>5
  <2>2. (P * q + (P - 1)) \div P = q
    BY <1>1, <2>1, DivUnique
  <2>3. PGROUNDUP(P * q + r) = P * q
    BY <1>3, <2>1, <2>2 DEF PGROUNDUP
  <2>4. QED  BY <1>1, <1>2, <1>4, <1>5, <2>3
<1>6. CASE r # 0
  <2>1. P * q + r + P - 1 = P * (q + 1) + (r - 1) /\ r - 1 \in 0 .. P - 1
    BY <1>1, <1>6
  <2>2. (P * (q + 1) + (r - 1)) \div P = q + 1
    BY <1>1, <2>1, DivUnique
  <2>3. PGROUNDUP(P * q + r) = P * (q + 1)
    BY <1>3, <2>1, <2>2 DEF PGROUNDUP
  <2>4. QED  BY <1>1, <1>2, <1>4, <1>6, <2>3
<1>7. QED  BY <1>5, <1>6

\* An address at or past the start of a page is in that page or a later one.
LEMMA DownFrom ==
  ASSUME NEW q \in Nat, NEW a \in Nat, PGSIZE * q <= a
  PROVE  PGSIZE * q <= PGROUNDDOWN(a)
<1>1. PICK p \in Nat, r \in 0 .. PGSIZE - 1 :
        a = PGSIZE * p + r /\ p = a \div PGSIZE /\ PGROUNDDOWN(a) = PGSIZE * p
  BY Split
<1>2. (PGSIZE * q) \div PGSIZE = q
  <2>1. PGSIZE * q + 0 = PGSIZE * q /\ 0 \in 0 .. PGSIZE - 1 /\ PGSIZE * q \in Nat
    BY SizeFacts
  <2>2. QED  BY <2>1, SizeFacts, DivUnique
<1>3. q <= p
  <2>1. PGSIZE * q \in Nat
    BY SizeFacts
  <2>2. QED  BY <1>1, <1>2, <2>1, SizeFacts, DivMonotone
<1>4. QED  BY <1>1, <1>3, SizeFacts, MulMonotone

\* The copy of a later page of a segment, or of the first one when the segment
\* starts on a page boundary: the page's own offset in the segment, from
\* whichever address in it faulted.
LEMMA CopyStart ==
  ASSUME NEW ptr, NEW va \in Nat, ptr.vm_start \in Nat, ptr.vm_pgoff \in Nat,
         ptr.vm_start <= va, ptr.vm_start % PGSIZE = ptr.vm_pgoff % PGSIZE,
         ptr.vm_start % PGSIZE = 0 \/ ~ InFirstPage(ptr, va)
  PROVE  /\ ptr.vm_start <= PGROUNDDOWN(va)
         /\ offset(ptr, va) = 0
         /\ start_copy(ptr, va) = SRAMDISK + ptr.vm_pgoff + (PGROUNDDOWN(va) - ptr.vm_start)
<1> DEFINE P == PGSIZE
           v == ptr.vm_start
           o == ptr.vm_pgoff
           down == PGROUNDDOWN(va)
<1>1. PICK b \in Nat, r \in 0 .. P - 1 : v = P * b + r /\ r = v % P
  BY Split
<1>2. PICK c \in Nat : o = P * c + r
  <2>1. PICK c \in Nat, x \in 0 .. P - 1 : o = P * c + x /\ x = o % P
    BY Split
  <2>2. QED  BY <1>1, <2>1
<1>3. PICK t \in Nat : SRAMDISK = P * t
  <2>1. PICK t \in Nat, x \in 0 .. P - 1 : SRAMDISK = P * t + x /\ x = SRAMDISK % P
    BY Split, SizeFacts
  <2>2. P * t \in Nat
    BY SizeFacts
  <2>3. QED  BY <2>1, <2>2, ImageAssumption
<1> DEFINE m == t + c
<1>4. m \in Nat /\ P * m = P * t + P * c /\ P * t \in Nat /\ P * c \in Nat /\ P * b \in Nat
  BY SizeFacts
<1>5. start_elf_va(ptr) = P * m + r
  BY <1>2, <1>3, <1>4 DEF start_elf_va
<1>6. PICK e \in Nat : va = v + e
  <2>1. va - v \in Nat /\ va = v + (va - v)
    OBVIOUS
  <2>2. QED  BY <2>1
<1>7. va - ptr.vm_start + start_elf_va(ptr) = P * m + (r + e)
  <2> DEFINE x == P * m
  <2>1. x \in Nat /\ va - v = e
    BY <1>4, <1>6
  <2>2. va - ptr.vm_start + start_elf_va(ptr) = e + (x + r)
    BY <1>5, <2>1
  <2> HIDE DEF x
  <2>3. e + (x + r) = x + (r + e)
    BY <2>1
  <2> USE DEF x
  <2>4. QED  BY <2>2, <2>3
<1>8. P \in Nat \ {0} /\ P * m \in Nat /\ down \in Nat
  <2>1. PICK q \in Nat : down = P * q
    BY Split
  <2>2. QED  BY <1>4, <2>1, SizeFacts
<1> HIDE DEF m
<1>9. CASE r = 0
  <2>1. v <= down
    <3>1. v = P * b
      <4> DEFINE x == P * b
      <4>1. x \in Nat /\ v = x + r
        BY <1>1, <1>4
      <4> HIDE DEF x
      <4>2. v = x
        BY <1>9, <4>1
      <4> USE DEF x
      <4>3. QED  BY <4>2
    <3>2. P * b <= down
      BY <3>1, DownFrom
    <3>3. QED  BY <3>1, <3>2
  <2>2. offset(ptr, va) = 0
    BY <1>1, <1>9 DEF offset
  <2>3. CASE InFirstPage(ptr, va)
    <3>1. PICK k \in Nat, x \in 0 .. P - 1 : e = P * k + x
      BY Split
    <3>2. P * m + (r + e) = P * (m + k) + x /\ P * (m + k) = P * m + P * k /\ P * k \in Nat
      BY <1>4, <1>9, <3>1, SizeFacts
    <3>3. PGROUNDUP(P * m + r) = P * m
      BY <1>4, <1>9, Rounded
    <3>4. PGROUNDUP(P * (m + k) + x) = IF x = 0 THEN P * (m + k) ELSE P * (m + k) + P
      <4>1. m + k \in Nat /\ x \in 0 .. P - 1
        BY <1>4, <3>1
      <4>2. QED  BY <4>1, Rounded
    <3>5. P * m = IF x = 0 THEN P * (m + k) ELSE P * (m + k) + P
      BY <1>5, <1>7, <2>3, <3>2, <3>3, <3>4 DEF InFirstPage
    <3>6. P * k = 0 /\ x = 0
      BY <1>8, <3>2, <3>5
    <3>7. va = v
      BY <1>6, <3>1, <3>6
    <3>8. down = v
      BY <1>1, <1>9, <3>7, Rounded
    <3>9. start_copy(ptr, va) = SRAMDISK + o
      BY <2>3 DEF start_copy, start_elf_va
    <3>10. QED  BY <2>1, <2>2, <3>8, <3>9, SizeFacts
  <2>4. CASE ~ InFirstPage(ptr, va)
    <3>1. start_copy(ptr, va) = SRAMDISK + o + down - v
      BY <2>4 DEF start_copy, start_elf_va
    <3>2. QED  BY <1>8, <2>1, <2>2, <3>1, SizeFacts
  <2>5. QED  BY <2>3, <2>4
<1>10. CASE r # 0
  <2>1. ~ InFirstPage(ptr, va)
    BY <1>1, <1>10
  <2>2. PGROUNDUP(P * m + r) = P * m + P
    BY <1>4, <1>10, Rounded
  <2>3. r + e > P
    <3>1. ASSUME r + e < P  PROVE  FALSE
      <4>1. r + e \in 0 .. P - 1 /\ r + e # 0
        BY <1>8, <1>10, <3>1
      <4>2. PGROUNDUP(P * m + (r + e)) = P * m + P
        BY <1>4, <4>1, Rounded
      <4>3. QED  BY <1>5, <1>7, <2>1, <2>2, <4>2 DEF InFirstPage
    <3>2. ASSUME r + e = P  PROVE  FALSE
      <4>1. P * m + (r + e) = P * (m + 1) + 0 /\ 0 \in 0 .. P - 1 /\ m + 1 \in Nat
        BY <1>4, <1>8, <3>2
      <4>2. PGROUNDUP(P * (m + 1) + 0) = P * (m + 1)
        BY <4>1, Rounded
      <4>3. P * (m + 1) = P * m + P
        BY <1>4, <1>8
      <4>4. QED  BY <1>5, <1>7, <2>1, <2>2, <4>1, <4>2, <4>3 DEF InFirstPage
    <3>3. QED  BY <1>8, <3>1, <3>2
  <2>4. P * (b + 1) = P * b + P
    BY <1>8
  <2>5. P * (b + 1) <= va
    <3> DEFINE x == P * b
    <3>1. x \in Nat /\ va = x + r + e /\ P * (b + 1) = x + P
      BY <1>1, <1>4, <1>6, <2>4
    <3> HIDE DEF x
    <3>2. x + P <= x + r + e
      BY <1>8, <2>3, <3>1
    <3>3. QED  BY <3>1, <3>2
  <2>6. P * (b + 1) <= down
    BY <2>5, DownFrom
  <2>7. v <= down
    BY <1>1, <1>4, <1>8, <2>4, <2>6
  <2>8. offset(ptr, va) = 0 /\ start_copy(ptr, va) = SRAMDISK + o + down - v
    BY <2>1 DEF offset, start_copy, start_elf_va
  <2>9. QED  BY <1>8, <2>7, <2>8, SizeFacts
<1>11. QED  BY <1>9, <1>10

LEMMA CopyLength ==
  ASSUME NEW ptr, NEW va \in Nat, NEW d \in Nat, ptr.vm_pgoff \in Nat, ptr.vm_filesz \in Nat,
         PGSIZE < WORD, offset(ptr, va) = 0,
         start_copy(ptr, va) = SRAMDISK + ptr.vm_pgoff + d
  PROVE  copied(ptr, va) = IF ptr.vm_filesz < d THEN 0
                           ELSE IF ptr.vm_filesz - d <= PGSIZE THEN ptr.vm_filesz - d
                           ELSE PGSIZE
<1> DEFINE from == SRAMDISK + ptr.vm_pgoff + d
           end  == end_elf_va(ptr)
           f    == ptr.vm_filesz
<1>1. /\ from \in Nat /\ end \in Nat /\ f \in Nat /\ end - from = f - d
      /\ PGSIZE \in Nat \ {0} /\ WORD \in Nat
  BY SizeFacts DEF end_elf_va
<1>2. copied(ptr, va) = IF from <= end /\ end <= from + PGSIZE THEN (end - from - 0) % WORD
                        ELSE IF end > from + PGSIZE THEN PGSIZE - 0
                        ELSE 0
  BY DEF copied
<1> HIDE DEF from, end, f
<1>3. CASE f < d
  <2>1. ~ (from <= end) /\ ~ (end > from + PGSIZE)
    BY <1>1, <1>3
  <2>2. QED  BY <1>2, <1>3, <2>1 DEF f
<1>4. CASE d <= f /\ f - d <= PGSIZE
  <2>1. from <= end /\ end <= from + PGSIZE
    BY <1>1, <1>4
  <2>2. (end - from - 0) % WORD = f - d
    <3>1. f - d \in Nat /\ f - d < WORD /\ end - from - 0 = f - d
      BY <1>1, <1>4
    <3>2. QED  BY <1>1, <3>1
  <2>3. QED  BY <1>1, <1>2, <1>4, <2>1, <2>2 DEF f
<1>5. CASE d <= f /\ f - d > PGSIZE
  <2>1. ~ (end <= from + PGSIZE) /\ end > from + PGSIZE
    BY <1>1, <1>5
  <2>2. QED  BY <1>1, <1>2, <1>5, <2>1 DEF f
<1>6. QED  BY <1>1, <1>3, <1>4, <1>5

\* The page a fault has filled, where the code has its place in the segment
\* right.
LEMMA PageIs ==
  ASSUME IInv, phase = "loaded", NEW h \in Segment,
         \/ h.p_vaddr % PGSIZE = 0
         \/ PGROUNDUP(SRAMDISK + h.p_offset) # PGROUNDUP(VMA_VA - h.p_vaddr + SRAMDISK + h.p_offset)
  PROVE  /\ h.p_vaddr <= PGROUNDDOWN(VMA_VA)
         /\ page = [n \in Offsets |->
                      IF PGROUNDDOWN(VMA_VA) + n < h.p_vaddr + h.p_filesz
                      THEN h.p_offset + (PGROUNDDOWN(VMA_VA) + n - h.p_vaddr)
                      ELSE Hole]
<1> DEFINE va   == VMA_VA
           down == PGROUNDDOWN(va)
<1>1. PICK k \in DOMAIN mmap : find_vma(va) = {k} /\ mmap[k] = AreaOf(h)
  BY SegmentFound
<1> DEFINE ptr == mmap[k]
<1>2. PICK j \in Loads(phdrs) : h = phdrs[j]
  BY SegmentFound
<1>3. phdrs \in Images /\ va \in Nat
  BY DEF IInv, Progress, Faulted
<1>4. /\ h.p_flags \in 0 .. 7
      /\ h.p_vaddr \in Nat /\ h.p_memsz \in Nat /\ h.p_offset \in Nat /\ h.p_filesz \in Nat
      /\ h.p_vaddr % PGSIZE = h.p_offset % PGSIZE
      /\ SRAMDISK + h.p_offset + h.p_memsz + PGSIZE < WORD
      /\ h.p_vaddr <= va
  BY <1>2, <1>3, HeaderType, SegmentFound
<1>5. /\ ptr.vm_start = h.p_vaddr /\ ptr.vm_pgoff = h.p_offset /\ ptr.vm_filesz = h.p_filesz
      /\ ptr.vm_flags = perm(h.p_flags)
  BY <1>1 DEF AreaOf, vm_area_struct
<1> DEFINE off  == offset(ptr, va)
           from == start_copy(ptr, va)
           len  == copied(ptr, va)
<1>6. page = [n \in Offsets |-> IF n \in off .. off + len - 1 THEN from - SRAMDISK + n - off ELSE Hole]
  <2>1. Bit(ptr.vm_flags, 0) # 1
    BY <1>4, <1>5, FlagsMoved
  <2>2. QED  BY <1>1, <2>1 DEF IInv, Faulted
<1>7. h.p_vaddr % PGSIZE = 0 \/ ~ InFirstPage(ptr, va)
  <2>1. va - h.p_vaddr + (SRAMDISK + h.p_offset) = va - h.p_vaddr + SRAMDISK + h.p_offset
    BY <1>3, <1>4, SizeFacts
  <2>2. QED  BY <1>5, <2>1 DEF InFirstPage, start_elf_va
<1> DEFINE d == down - h.p_vaddr
<1>8. h.p_vaddr <= down /\ off = 0 /\ from = SRAMDISK + h.p_offset + d
  <2> HIDE DEF ptr, down
  <2>1. /\ ptr.vm_start \in Nat /\ ptr.vm_pgoff \in Nat /\ ptr.vm_start <= va
        /\ ptr.vm_start % PGSIZE = ptr.vm_pgoff % PGSIZE
        /\ ptr.vm_start % PGSIZE = 0 \/ ~ InFirstPage(ptr, va)
    BY <1>4, <1>5, <1>7
  <2>2. QED  BY <1>3, <1>5, <2>1, CopyStart DEF down
<1>9. down \in Nat /\ d \in Nat
  <2>1. down \in Nat
    <3>1. PICK q \in Nat : down = PGSIZE * q
      BY <1>3, Split
    <3>2. QED  BY <3>1, SizeFacts
  <2>2. QED  BY <1>4, <1>8, <2>1
<1>10. len = IF h.p_filesz < d THEN 0
             ELSE IF h.p_filesz - d <= PGSIZE THEN h.p_filesz - d ELSE PGSIZE
  <2>1. PGSIZE < WORD
    BY <1>4, SizeFacts
  <2> HIDE DEF ptr, d
  <2>2. QED  BY <1>3, <1>4, <1>5, <1>8, <1>9, <2>1, CopyLength
<1>11. ASSUME NEW n \in Offsets
       PROVE  /\ n \in off .. off + len - 1 <=> down + n < h.p_vaddr + h.p_filesz
              /\ from - SRAMDISK + n - off = h.p_offset + (down + n - h.p_vaddr)
  <2>1. n \in 0 .. PGSIZE - 1
    BY DEF Offsets
  <2> HIDE DEF off, from, len, down
  <2>2. n \in off .. off + len - 1 <=> d + n < h.p_filesz
    <3> HIDE DEF d
    <3>1. QED  BY <1>4, <1>8, <1>9, <1>10, <2>1, SizeFacts
  <2>3. n \in Nat /\ h.p_vaddr \in Nat /\ h.p_offset \in Nat /\ h.p_filesz \in Nat /\ down \in Nat
    BY <1>4, <1>9, <2>1, SizeFacts
  <2>4. d + n < h.p_filesz <=> down + n < h.p_vaddr + h.p_filesz
    BY <2>3
  <2>5. SRAMDISK + h.p_offset + d - SRAMDISK + n - 0 = h.p_offset + (down + n - h.p_vaddr)
    BY <2>3, SizeFacts
  <2>6. from - SRAMDISK + n - off = h.p_offset + (down + n - h.p_vaddr)
    BY <1>8, <1>9, <2>3, <2>5, SizeFacts
  <2>7. QED  BY <2>2, <2>4, <2>6
<1> HIDE DEF off, from, len, down, d
<1>12. QED  BY <1>6, <1>8, <1>11 DEF down

\* Where the code has the place of a page in its segment right, the page holds
\* exactly the bytes of the file that belong there.
THEOREM LoadLoadedRight == Spec => []LoadedRight
<1>1. ASSUME IInv  PROVE  LoadedRight
  <2> SUFFICES ASSUME NEW h \in Segment, phase = "loaded",
                      \/ h.p_vaddr % PGSIZE = 0
                      \/ PGROUNDUP(SRAMDISK + h.p_offset)
                           # PGROUNDUP(VMA_VA - h.p_vaddr + SRAMDISK + h.p_offset)
               PROVE  page = Wanted
    BY DEF LoadedRight
  <2> DEFINE down == PGROUNDDOWN(VMA_VA)
  <2>1. /\ h.p_vaddr <= down
        /\ page = [n \in Offsets |-> IF down + n < h.p_vaddr + h.p_filesz
                                     THEN h.p_offset + (down + n - h.p_vaddr) ELSE Hole]
    BY <1>1, PageIs
  <2>2. (CHOOSE s \in Segment : TRUE) = h
    BY <1>1, SegmentFound
  <2>3. Wanted = [n \in Offsets |->
                    IF h.p_vaddr <= down + n /\ down + n < h.p_vaddr + h.p_filesz
                    THEN h.p_offset + (down + n) - h.p_vaddr ELSE Hole]
    BY <2>2 DEF Wanted
  <2>4. h.p_vaddr \in Nat /\ h.p_offset \in Nat /\ h.p_filesz \in Nat /\ down \in Nat
    <3>1. phdrs \in Images /\ VMA_VA \in Nat
      BY <1>1 DEF IInv, Progress, Faulted
    <3>2. PICK q \in Nat : down = PGSIZE * q
      BY <3>1, Split
    <3>3. down \in Nat
      BY <3>2, SizeFacts
    <3>4. QED  BY <1>1, <3>1, <3>3, SegmentFound, HeaderType
  <2> HIDE DEF down
  <2>5. ASSUME NEW n \in Offsets
        PROVE  /\ h.p_vaddr <= down + n
               /\ h.p_offset + (down + n - h.p_vaddr) = h.p_offset + (down + n) - h.p_vaddr
    <3>1. n \in Nat
      BY SizeFacts DEF Offsets
    <3>2. QED  BY <2>1, <2>4, <3>1
  <2>6. QED  BY <2>1, <2>3, <2>5
<1>2. QED  BY <1>1, LoadInvariant, PTL

-----------------------------------------------------------------------------
\* Eager loading.

\* A multiple of the page size at or above an address, or above it, is so by
\* pages.
LEMMA NextPage ==
  ASSUME NEW q \in Nat, NEW u \in Nat, PGSIZE * q < PGSIZE * u
  PROVE  PGSIZE * q + PGSIZE <= PGSIZE * u
<1>1. ~ (u <= q)
  <2>1. ASSUME u <= q  PROVE  FALSE
    <3>1. PGSIZE * u <= PGSIZE * q
      BY <2>1, SizeFacts, MulMonotone
    <3>2. PGSIZE * u \in Nat /\ PGSIZE * q \in Nat
      BY SizeFacts
    <3>3. QED  BY <3>1, <3>2
  <2>2. QED  BY <2>1
<1>2. q + 1 <= u
  BY <1>1
<1>3. PGSIZE * (q + 1) <= PGSIZE * u
  BY <1>2, SizeFacts, MulMonotone
<1>4. PGSIZE * (q + 1) = PGSIZE * q + PGSIZE
  BY SizeFacts
<1>5. QED  BY <1>3, <1>4

LEMMA UpAbove ==
  ASSUME NEW a \in Nat
  PROVE  \E u \in Nat : PGROUNDUP(a) = PGSIZE * u /\ a <= PGSIZE * u
<1>1. PICK q \in Nat, r \in 0 .. PGSIZE - 1 : a = PGSIZE * q + r
  BY Split
<1>2. /\ PGSIZE * q \in Nat /\ PGSIZE * (q + 1) = PGSIZE * q + PGSIZE
      /\ PGROUNDUP(a) = IF r = 0 THEN PGSIZE * q ELSE PGSIZE * q + PGSIZE
  BY <1>1, Rounded
<1>3. CASE r = 0
  <2>1. PGROUNDUP(a) = PGSIZE * q /\ a <= PGSIZE * q
    BY <1>1, <1>2, <1>3
  <2>2. QED  BY <2>1
<1>4. CASE r # 0
  <2>1. PGROUNDUP(a) = PGSIZE * (q + 1)
    BY <1>2, <1>4
  <2>2. a <= PGSIZE * (q + 1)
    BY <1>1, <1>2, SizeFacts
  <2>3. QED  BY <2>1, <2>2
<1>5. QED  BY <1>3, <1>4

\* An address on a page boundary is its page's first.
LEMMA Aligned ==
  ASSUME NEW a \in Nat, a % PGSIZE = 0
  PROVE  \E q \in Nat : a = PGSIZE * q /\ PGROUNDDOWN(a) = a
<1>1. PICK q \in Nat, r \in 0 .. PGSIZE - 1 :
        a = PGSIZE * q + r /\ r = a % PGSIZE /\ PGROUNDDOWN(a) = PGSIZE * q
  BY Split
<1>2. PGSIZE * q \in Nat
  BY SizeFacts
<1>3. a = PGSIZE * q
  BY <1>1, <1>2
<1>4. QED  BY <1>1, <1>3

\* Of the headers whose pages have an address of a segment's page, the
\* segment's is the last.
LEMMA LastMapped ==
  ASSUME IInv, phase = "loaded", \A l \in Loads(phdrs) : phdrs[l].p_vaddr % PGSIZE = 0,
         NEW j \in Loads(phdrs), phdrs[j].p_vaddr <= VMA_VA,
         VMA_VA < phdrs[j].p_vaddr + phdrs[j].p_memsz,
         phdrs[j].p_vaddr <= PGROUNDDOWN(VMA_VA), NEW n \in Offsets
  PROVE  /\ mapped(phdrs[j], PGROUNDDOWN(VMA_VA) + n)
         /\ \A l \in Loads(phdrs) : mapped(phdrs[l], PGROUNDDOWN(VMA_VA) + n) => l <= j
<1> DEFINE va == VMA_VA
           h  == phdrs[j]
           a  == PGROUNDDOWN(va) + n
<1>1. phdrs \in Images /\ va \in Nat
  BY DEF IInv, Progress, Faulted
<1>2. PICK q \in Nat, x \in 0 .. PGSIZE - 1 : va = PGSIZE * q + x /\ PGROUNDDOWN(va) = PGSIZE * q
  BY <1>1, Split
<1>3. h.p_vaddr \in Nat /\ h.p_memsz \in Nat
  BY <1>1, HeaderType
<1>4. PICK b \in Nat : h.p_vaddr = PGSIZE * b /\ PGROUNDDOWN(h.p_vaddr) = h.p_vaddr
  BY <1>3, Aligned
<1>5. n \in Nat /\ n < PGSIZE /\ PGSIZE \in Nat \ {0} /\ PGSIZE * q \in Nat /\ PGSIZE * b \in Nat
  BY SizeFacts DEF Offsets
<1>6. a = PGSIZE * q + n
  BY <1>2
<1>7. mapped(h, a)
  <2>1. PICK u \in Nat : PGROUNDUP(h.p_memsz) = PGSIZE * u /\ h.p_memsz <= PGSIZE * u
    BY <1>3, UpAbove
  <2>2. PGSIZE * (b + u) = PGSIZE * b + PGSIZE * u /\ PGSIZE * u \in Nat /\ b + u \in Nat
    BY SizeFacts
  <2>3. PGSIZE * q < PGSIZE * (b + u)
    <3> DEFINE Q == PGSIZE * q
               B == PGSIZE * b
               U == PGSIZE * u
    <3>1. /\ Q \in Nat /\ B \in Nat /\ U \in Nat /\ x \in Nat
          /\ Q + x < B + h.p_memsz /\ h.p_memsz <= U /\ PGSIZE * (b + u) = B + U
      BY <1>2, <1>4, <1>5, <2>1, <2>2
    <3> HIDE DEF Q, B, U
    <3>2. Q < B + U
      BY <1>3, <3>1
    <3> USE DEF Q
    <3>3. QED  BY <3>1, <3>2
  <2>4. PGSIZE * q + PGSIZE <= PGSIZE * (b + u)
    BY <2>2, <2>3, NextPage
  <2>5. a \in Nat /\ h.p_vaddr <= a /\ a <= h.p_vaddr + PGROUNDUP(h.p_memsz) - 1
    <3> DEFINE Q == PGSIZE * q
               B == PGSIZE * b
               U == PGSIZE * u
    <3>1. /\ Q \in Nat /\ B \in Nat /\ U \in Nat
          /\ Q + PGSIZE <= B + U /\ a = Q + n /\ h.p_vaddr = B /\ B <= Q
          /\ PGROUNDUP(h.p_memsz) = U
      BY <1>2, <1>4, <1>5, <1>6, <2>1, <2>2, <2>4
    <3> HIDE DEF Q, B, U, a
    <3>2. QED  BY <1>5, <3>1
  <2>6. PGROUNDUP(h.p_memsz) \in Nat
    BY <2>1, <2>2
  <2> HIDE DEF a, h
  <2>7. QED  BY <1>3, <1>4, <2>5, <2>6 DEF mapped
<1>8. ASSUME NEW l \in Loads(phdrs), l > j  PROVE  ~ mapped(phdrs[l], a)
  <2> DEFINE w == phdrs[l].p_vaddr
  <2>1. w \in Nat /\ h.p_vaddr + h.p_memsz <= w
    BY <1>1, <1>8, HeaderType
  <2>2. PICK c \in Nat : w = PGSIZE * c /\ PGROUNDDOWN(w) = w
    BY <2>1, Aligned
  <2>3. PGSIZE * q < PGSIZE * c
    <3> DEFINE Q == PGSIZE * q
    <3>1. Q \in Nat /\ x \in Nat /\ Q + x < h.p_vaddr + h.p_memsz
      BY <1>2, <1>5
    <3> HIDE DEF Q, w, h
    <3>2. Q < w
      BY <1>3, <2>1, <3>1
    <3> USE DEF Q
    <3>3. QED  BY <2>2, <3>2
  <2>4. PGSIZE * q + PGSIZE <= w
    BY <2>2, <2>3, NextPage
  <2>5. a < w
    BY <1>5, <1>6, <2>1, <2>4
  <2> HIDE DEF a
  <2>6. QED  BY <2>1, <2>2, <2>5, SizeFacts DEF mapped
<1>9. \A l \in Loads(phdrs) : l \in Nat
  <2>1. phdrs \in Seq(Phdr)
    BY <1>1, ImageAssumption
  <2>2. QED  BY <1>1, <2>1, HeaderType
<1>10. QED  BY <1>7, <1>8, <1>9

\* A byte of the page, by its address.
LEMMA PageByte ==
  ASSUME IInv, phase = "loaded", NEW h \in Segment, h.p_vaddr % PGSIZE = 0,
         NEW n \in Offsets, NEW a, a = PGROUNDDOWN(VMA_VA) + n
  PROVE  page[n] = IF a < h.p_vaddr + h.p_filesz THEN h.p_offset + (a - h.p_vaddr) ELSE Hole
<1>1. page = [m \in Offsets |->
                IF PGROUNDDOWN(VMA_VA) + m < h.p_vaddr + h.p_filesz
                THEN h.p_offset + (PGROUNDDOWN(VMA_VA) + m - h.p_vaddr)
                ELSE Hole]
  BY PageIs
<1>2. page[n] = IF PGROUNDDOWN(VMA_VA) + n < h.p_vaddr + h.p_filesz
                THEN h.p_offset + (PGROUNDDOWN(VMA_VA) + n - h.p_vaddr) ELSE Hole
  BY <1>1
<1>3. phdrs \in Images /\ VMA_VA \in Nat
  BY DEF IInv, Progress, Faulted
<1>4. PICK q \in Nat : PGROUNDDOWN(VMA_VA) = PGSIZE * q
  BY <1>3, Split
<1>5. PGROUNDDOWN(VMA_VA) \in Nat /\ n \in Nat /\ h.p_vaddr \in Nat
  BY <1>3, <1>4, SizeFacts, SegmentFound, HeaderType DEF Offsets
<1>6. PGROUNDDOWN(VMA_VA) + n - h.p_vaddr = a - h.p_vaddr
  BY <1>5
<1>7. QED  BY <1>2, <1>6

\* A program whose segments start on page boundaries gets on demand, page by
\* page, the memory load_program gave it all at once.
THEOREM LoadLoadsAgree == Spec => []LoadsAgree
<1>1. ASSUME IInv  PROVE  LoadsAgree
  <2> SUFFICES ASSUME Filled, \A l \in Loads(phdrs) : phdrs[l].p_vaddr % PGSIZE = 0,
                      NEW n \in Offsets
               PROVE  page[n] = load_program(PGROUNDDOWN(VMA_VA) + n)
    BY DEF LoadsAgree
  <2> DEFINE down == PGROUNDDOWN(VMA_VA)
             a    == down + n
             here == {k \in Loads(phdrs) : mapped(phdrs[k], a)}
  <2>1. PICK j \in Loads(phdrs) :
          /\ phdrs[j] \in Segment
          /\ phdrs[j].p_vaddr <= VMA_VA /\ VMA_VA < phdrs[j].p_vaddr + phdrs[j].p_memsz
    BY DEF Filled, Segment
  <2> DEFINE h == phdrs[j]
  <2>2. /\ h.p_vaddr <= down
        /\ page[n] = IF a < h.p_vaddr + h.p_filesz THEN h.p_offset + (a - h.p_vaddr) ELSE Hole
    <3>1. phase = "loaded" /\ h \in Segment /\ h.p_vaddr % PGSIZE = 0
      BY <2>1 DEF Filled
    <3> HIDE DEF h
    <3>2. h.p_vaddr <= down
      BY <1>1, <3>1, PageIs
    <3>3. a = PGROUNDDOWN(VMA_VA) + n
      OBVIOUS
    <3> HIDE DEF a
    <3>4. page[n] = IF a < h.p_vaddr + h.p_filesz THEN h.p_offset + (a - h.p_vaddr) ELSE Hole
      BY <1>1, <3>1, <3>3, PageByte
    <3>5. QED  BY <3>2, <3>4
  <2>3. mapped(h, a) /\ \A l \in Loads(phdrs) : mapped(phdrs[l], a) => l <= j
    BY <1>1, <2>1, <2>2, LastMapped DEF Filled
  <2>4. phdrs \in Images /\ VMA_VA \in Nat
    BY <1>1 DEF IInv, Progress, Faulted
  <2>5. /\ h.p_vaddr \in Nat /\ h.p_offset \in Nat /\ h.p_filesz \in Nat
        /\ \A l \in Loads(phdrs) : l \in Nat
    <3>1. phdrs \in Seq(Phdr)
      BY <2>4, ImageAssumption
    <3>2. QED  BY <2>4, <3>1, HeaderType
  <2>6. (CHOOSE k \in here : \A l \in here : l <= k) = j
    <3>1. j \in here /\ \A l \in here : l <= j
      BY <2>3
    <3>2. \A k \in here : (\A l \in here : l <= k) => k = j
      BY <2>5, <3>1
    <3> HIDE DEF here
    <3>3. QED  BY <3>1, <3>2
  <2>7. here # {}
    BY <2>3
  <2>8. load_program(a) = PVA(h, a - PGROUNDDOWN(h.p_vaddr))
    BY <2>6, <2>7 DEF load_program
  <2>9. PGROUNDDOWN(h.p_vaddr) = h.p_vaddr
    BY <2>5, Aligned
  <2>10. down \in Nat /\ n \in Nat
    <3>1. PICK q \in Nat : down = PGSIZE * q
      BY <2>4, Split
    <3>2. QED  BY <3>1, SizeFacts DEF Offsets
  <2>11. PVA(h, a - h.p_vaddr) =
           IF a - h.p_vaddr - 0 \in 0 .. h.p_filesz - 1 THEN h.p_offset + (a - h.p_vaddr - 0) ELSE Hole
    BY DEF PVA
  <2> HIDE DEF down, h
  <2>12. a - h.p_vaddr - 0 = a - h.p_vaddr
         /\ (a - h.p_vaddr \in 0 .. h.p_filesz - 1 <=> a < h.p_vaddr + h.p_filesz)
    BY <2>2, <2>5, <2>10
  <2>13. PVA(h, a - h.p_vaddr) = page[n]
    <3>1. CASE a < h.p_vaddr + h.p_filesz
      BY <2>2, <2>11, <2>12, <3>1
    <3>2. CASE ~ (a < h.p_vaddr + h.p_filesz)
      BY <2>2, <2>11, <2>12, <3>2
    <3>3. QED  BY <3>1, <3>2
  <2>14. QED  BY <2>8, <2>9, <2>13 DEF down
<1>2. QED  BY <1>1, LoadInvariant, PTL
=============================================================================
