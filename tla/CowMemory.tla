----------------------------- MODULE CowMemory -----------------------------
(***************************************************************************)
(* User memory: demand paging (do_page_fault in trap.c), copy-on-write fork*)
(* (do_cow_fork in syscall.c), the page reference counts of mm.c, the user *)
(* half of the page tables (create_mapping in vm.c), the VMA list          *)
(* (find_vma in proc.c) and the TLB of the one hart.                       *)
(*                                                                         *)
(* Kernel paths run with interrupts off, so each is one step; user code is *)
(* a sequence of memory accesses, and a timer interrupt may come between   *)
(* any two of them and between a fault and the retry of its instruction.   *)
(*                                                                         *)
(* A page's content is one value.  Page table entries carry a frame and    *)
(* the R, W, X bits; U is always set and A, D are set by the hardware.     *)
(***************************************************************************)
EXTENDS Naturals, Sequences, FiniteSets

CONSTANTS
  NR_TASKS,   \* entries of task[], idle included
  NPages,     \* pages the buddy allocator has left once task_init is done
  PGSIZE,
  Fanout,     \* entries of a page table
  mmap,       \* the VMA list, in list order; fork shares it
  Program,    \* the accesses the user program may make
  Values,     \* contents of a page
  Untouched,
  StrictTlb   \* TRUE: a cached entry that lacks a permission may fault, as the
              \* privileged architecture allows; FALSE: the page table is read
              \* again, as QEMU does

Pids   == 1 .. NR_TASKS - 1
Frames == 1 .. NPages
Kinds  == {"R", "W", "X"}     \* scause 13, 15, 12

PageOf(a) == a \div PGSIZE
Pages     == {PageOf(x.addr) : x \in Program}

ASSUME SizeAssumption ==
  /\ NR_TASKS \in Nat /\ NR_TASKS > 1
  /\ NPages \in Nat /\ NPages > 1
  /\ PGSIZE \in Nat \ {0}
  /\ Fanout \in Nat \ {0}

\* W without R is a reserved encoding.
ASSUME ProgramAssumption ==
  /\ mmap \in Seq([vm_start : Nat, vm_end : Nat, vm_flags : SUBSET Kinds])
  /\ \A i \in DOMAIN mmap : "W" \in mmap[i].vm_flags => "R" \in mmap[i].vm_flags
  /\ Program \subseteq [kind : Kinds, addr : Nat] /\ IsFiniteSet(Program)
  /\ Values # {}
  /\ Untouched \notin Values
  /\ StrictTlb \in BOOLEAN

VARIABLES
  tasks_number,  \* task[1] .. task[tasks_number] exist
  current,
  pgd,           \* pgd[p][v]: the entry of page v in the table of task p
  ref_cnt,       \* buddy.ref_cnt of the pages mapped by user entries
  content,       \* what each of these pages holds
  lost,          \* pages allocated since boot that nothing refers to
  tlb,           \* translations the hart has cached
  pend,          \* the access of each task that faulted and will be retried
  halted         \* "fault": in untrapped_handler; "oom": a NULL page was used

vars == <<tasks_number, current, pgd, ref_cnt, content, lost, tlb, pend, halted>>

Invalid  == [frame |-> 0, perm |-> {}]
NoAccess == [kind |-> "none", addr |-> 0]
NoTlb    == [v \in Pages |-> Invalid]
PTE      == [frame : Frames, perm : SUBSET Kinds] \cup {Invalid}

TypeOK ==
  /\ tasks_number \in Pids
  /\ current \in 1 .. tasks_number
  /\ pgd \in [Pids -> [Pages -> PTE]]
  /\ ref_cnt \in [Frames -> 0 .. (NR_TASKS - 1) * Len(mmap)]
  /\ content \in [Frames -> Values]
  /\ lost \in 0 .. NPages
  /\ tlb \in [Pages -> PTE]
  /\ pend \in [Pids -> Program \cup {NoAccess}]
  /\ halted \in {"no", "fault", "oom"}

\* task_init has made task 1, which has touched nothing.
Init ==
  /\ tasks_number = 1
  /\ current = 1
  /\ pgd = [p \in Pids |-> NoTlb]
  /\ ref_cnt = [f \in Frames |-> 0]
  /\ content = [f \in Frames |-> CHOOSE val \in Values : TRUE]
  /\ lost = 0
  /\ tlb = NoTlb
  /\ pend = [p \in Pids |-> NoAccess]
  /\ halted = "no"

-----------------------------------------------------------------------------
\* Virtual memory areas.

Vmas == DOMAIN mmap

\* The areas that contain a, vm_end included.
Containing(a) == {i \in Vmas : mmap[i].vm_start <= a /\ a <= mmap[i].vm_end}

\* The first of them in the list; none or one.
find_vma(a) == {i \in Containing(a) : \A j \in Containing(a) : i <= j}

\* The test of do_page_fault: an area was found for x, and permits it.
Allowed(x, vma) == \E i \in vma : x.kind \in mmap[i].vm_flags

\* The pages the loop of do_cow_fork visits for area i.
vma_pages(i) == {v \in Pages : PageOf(mmap[i].vm_start) <= v /\ v * PGSIZE < mmap[i].vm_end}

-----------------------------------------------------------------------------
\* Page accounting.  A task takes a page for its task_struct and kernel stack
\* and one for its root table; create_mapping takes one for each lower table.

tables(v)  == {<<1, v \div (Fanout * Fanout)>>, <<0, v \div Fanout>>}
TablesOf(entries) == UNION {tables(v) : v \in {u \in Pages : entries[u] # Invalid}}

Mapped(entries) == {v \in Pages : entries[v] # Invalid}

KernelPages ==
  2 * tasks_number + Cardinality(UNION {{p} \X TablesOf(pgd[p]) : p \in 1 .. tasks_number})

PagesInUse == KernelPages + Cardinality({f \in Frames : ref_cnt[f] > 0}) + lost

Room(n) == PagesInUse + n <= NPages

\* alloc_page picks a page nobody refers to.
alloc_page(rc) == CHOOSE f \in Frames : rc[f] = 0

\* Mutant: the reference is not given back.
put_page_Forgotten(rc, f) == rc

\* put_page: page_ref_dec, which frees the page at 0.
put_page(rc, f) == IF rc[f] > 0 THEN [rc EXCEPT ![f] = @ - 1] ELSE rc

-----------------------------------------------------------------------------
\* The MMU.

Grants(e, x) == x.kind \in e.perm

\* The entry x goes through, when the hart has it cached or reads the table.
translate(x) ==
  LET v == PageOf(x.addr) IN IF Grants(tlb[v], x) THEN tlb[v] ELSE pgd[current][v]

\* x raises a page fault.
Faults(x) ==
  LET v == PageOf(x.addr) IN
  /\ ~ Grants(tlb[v], x)
  /\ ~ Grants(pgd[current][v], x) \/ (StrictTlb /\ tlb[v] # Invalid)

\* Mutant: the fence is left out.
sfence_Nop == tlb

\* sfence.vma zero, zero: nothing stays cached.
sfence == NoTlb

\* The running task is about to make access x; if its last one faulted, that
\* is the one.
Issues(x) == halted = "no" /\ pend[current] \in {NoAccess, x}

\* An access that does not fault.  The hart may keep the translation.
Access(x) ==
  LET v == PageOf(x.addr)
      e == translate(x) IN
  /\ Issues(x)
  /\ Grants(e, x)
  /\ IF x.kind = "W" THEN \E val \in Values : content' = [content EXCEPT ![e.frame] = val]
                     ELSE UNCHANGED content
  /\ tlb' \in {tlb, [tlb EXCEPT ![v] = e]}
  /\ pend' = [pend EXCEPT ![current] = NoAccess]
  /\ UNCHANGED <<tasks_number, current, pgd, ref_cnt, lost, halted>>

-----------------------------------------------------------------------------
\* The page fault handler.  vma is the area found for the access x, if any: a
\* set of at most one.

\* untrapped_handler, or a NULL page used in supervisor mode: the kernel does
\* not come back, and x stays the access of the running task.
Halt(why, x) ==
  /\ halted' = why
  /\ pend' = [pend EXCEPT ![current] = x]
  /\ UNCHANGED <<tasks_number, current, pgd, ref_cnt, content, lost, tlb>>

\* No area, or none that allows the access.
BadAccess(x, vma) ==
  /\ ~ Allowed(x, vma)
  /\ Halt("fault", x)

\* A page that has no entry yet gets a new frame with the area's permissions.
\* What the frame holds is up to the loader and, past its first 8 bytes, to
\* what was in memory.
FirstTouch(x, vma) ==
  LET v == PageOf(x.addr)
      f == alloc_page(ref_cnt) IN
  /\ Allowed(x, vma)
  /\ pgd[current][v] = Invalid
  /\ IF Room(1 + Cardinality(tables(v) \ TablesOf(pgd[current])))
     THEN /\ \E i \in vma :
               pgd' = [pgd EXCEPT ![current][v] = [frame |-> f, perm |-> mmap[i].vm_flags]]
          /\ ref_cnt' = [ref_cnt EXCEPT ![f] = 1]
          /\ \E val \in Values : content' = [content EXCEPT ![f] = val]
          /\ pend' = [pend EXCEPT ![current] = x]
          /\ UNCHANGED <<tasks_number, current, lost, tlb, halted>>
     ELSE Halt("oom", x)

\* The condition f of do_page_fault: a store to a page that is read-only
\* although its area is not.
CowFault(x) ==
  /\ x.kind = "W"
  /\ "W" \notin pgd[current][PageOf(x.addr)].perm

\* Mutant: off by one.
SoleUser_OrTwo(f) == ref_cnt[f] <= 2

SoleUser(f) == ref_cnt[f] = 1

\* The only user of the page makes it writable in place, and flushes nothing.
\* The page allocated before the entry was looked at is lost.
MakeWritable(x, vma) ==
  LET v == PageOf(x.addr)
      e == pgd[current][v] IN
  /\ Allowed(x, vma)
  /\ e # Invalid /\ CowFault(x)
  /\ SoleUser(e.frame)
  /\ IF Room(1)
     THEN /\ pgd' = [pgd EXCEPT ![current][v].perm = @ \cup {"W"}]
          /\ lost' = lost + 1
          /\ pend' = [pend EXCEPT ![current] = x]
          /\ UNCHANGED <<tasks_number, current, ref_cnt, content, tlb, halted>>
     ELSE Halt("oom", x)

\* The page is shared: it is given up and copied, through the user address.
CopyPage(x, vma) ==
  LET v  == PageOf(x.addr)
      e  == pgd[current][v]
      rc == put_page(ref_cnt, e.frame)
      f  == alloc_page(rc)
      from == IF tlb[v] # Invalid THEN tlb[v].frame ELSE e.frame IN
  /\ Allowed(x, vma)
  /\ e # Invalid /\ CowFault(x)
  /\ ~ SoleUser(e.frame)
  /\ IF Room(2)
     THEN /\ pgd' = [pgd EXCEPT ![current][v] = [frame |-> f, perm |-> e.perm \cup {"W"}]]
          /\ ref_cnt' = [rc EXCEPT ![f] = 1]
          /\ content' = [content EXCEPT ![f] = content[from]]
          /\ lost' = lost + 1
          /\ tlb' = sfence
          /\ pend' = [pend EXCEPT ![current] = x]
          /\ UNCHANGED <<tasks_number, current, halted>>
     ELSE Halt("oom", x)

\* The entry is valid and the fault is not the one above.
NotCow(x, vma) ==
  /\ Allowed(x, vma)
  /\ pgd[current][PageOf(x.addr)] # Invalid /\ ~ CowFault(x)
  /\ Halt("fault", x)

\* x faults, and vma is what find_vma finds for it.
do_page_fault(x, vma) ==
  /\ Issues(x)
  /\ Faults(x)
  /\ \/ BadAccess(x, vma)
     \/ FirstTouch(x, vma)
     \/ MakeWritable(x, vma) \/ CopyPage(x, vma)
     \/ NotCow(x, vma)

PageFault(x) == do_page_fault(x, find_vma(x.addr))

-----------------------------------------------------------------------------
\* fork.

\* The pages of the running task the child will share.
Shared == {v \in Mapped(pgd[current]) : \E i \in Vmas : v \in vma_pages(i)}

\* Mutant: the entries keep their permissions.
ReadOnly_Not(entries) == entries

\* Mutant: the mask takes PTE_R with PTE_W.
ReadOnly_MaskTooWide(entries) ==
  [v \in Pages |-> IF v \in Shared THEN [entries[v] EXCEPT !.perm = @ \ {"R", "W"}] ELSE entries[v]]

\* What becomes of their entries, in both tables.
ReadOnly(entries) ==
  [v \in Pages |-> IF v \in Shared THEN [entries[v] EXCEPT !.perm = @ \ {"W"}] ELSE entries[v]]

\* Mutant: the loop takes no reference.
get_pages_None(rc) == rc

\* Mutant: it gives one back.
get_pages_Dec(rc) == [f \in Frames |-> IF rc[f] = 0 THEN 0 ELSE rc[f] - 1]

\* The visits of the loop to a page with frame f: pairs of page and area.
Visits(f) == {e \in Shared \X Vmas : e[1] \in vma_pages(e[2]) /\ pgd[current][e[1]].frame = f}

\* get_page, once for each of them.
get_pages(rc) ==
  [f \in Frames |->
     IF rc[f] = 0 THEN 0
     ELSE rc[f] + Cardinality(Visits(f))]

\* The table is full: -1, and the page taken for the child is lost.
ForkFails ==
  /\ tasks_number = NR_TASKS - 1
  /\ IF Room(1)
     THEN /\ lost' = lost + 1
          /\ UNCHANGED <<tasks_number, current, pgd, ref_cnt, content, tlb, pend, halted>>
     ELSE Halt("oom", NoAccess)

ForkSucceeds ==
  LET child == tasks_number + 1 IN
  /\ child \in Pids
  /\ IF Room(2 + Cardinality(UNION {tables(v) : v \in Shared}))
     THEN /\ tasks_number' = child
          /\ pgd' = [pgd EXCEPT
                       ![current] = ReadOnly(@),
                       ![child]   = [v \in Pages |-> IF v \in Shared
                                                     THEN ReadOnly(pgd[current])[v]
                                                     ELSE Invalid]]
          /\ ref_cnt' = get_pages(ref_cnt)
          /\ tlb' = sfence
          /\ UNCHANGED <<current, content, lost, pend, halted>>
     ELSE Halt("oom", NoAccess)

do_cow_fork ==
  /\ halted = "no" /\ pend[current] = NoAccess
  /\ ForkFails \/ ForkSucceeds

-----------------------------------------------------------------------------
\* A timer interrupt gives the CPU to t: __switch_to loads satp and flushes.
Switch(t) ==
  /\ halted = "no"
  /\ t \in 1 .. tasks_number \ {current}
  /\ current' = t
  /\ tlb' = sfence
  /\ UNCHANGED <<tasks_number, pgd, ref_cnt, content, lost, pend, halted>>

\* while(1) with interrupts off.
Spin == halted # "no" /\ UNCHANGED vars

Next ==
  \/ \E x \in Program : Access(x) \/ PageFault(x)
  \/ do_cow_fork
  \/ \E t \in Pids : Switch(t)
  \/ Spin

Spec == Init /\ [][Next]_vars

-----------------------------------------------------------------------------
\* What some of the properties need of the areas, and which images meet.

\* No two areas have a page in common.
AreasApart == \A i, j \in Vmas : i # j => vma_pages(i) \cap vma_pages(j) = {}

\* Each area lies below the ones before it in the list: VMA_init takes the
\* segments in order of address, the stack last, and do_mmap adds at the head.
AreasDescend == \A i, j \in Vmas : i < j => mmap[j].vm_end <= mmap[i].vm_start

\* Where areas have a page in common they give it the same permissions.
SamePermission ==
  /\ \A i, j \in Vmas : vma_pages(i) \cap vma_pages(j) # {} => mmap[i].vm_flags = mmap[j].vm_flags
  /\ \A x \in Program : \A i \in find_vma(x.addr), j \in Vmas :
       PageOf(x.addr) \in vma_pages(j) => mmap[i].vm_flags = mmap[j].vm_flags

-----------------------------------------------------------------------------
\* The entries that lead to frame f: pairs of task and page.
Users(f) == {e \in Pids \X Pages : pgd[e[1]][e[2]].frame = f}

\* Each page mapped by user entries has as many references as there are
\* entries with it, so the only user of a page is recognised as such, and no
\* page in use is handed out again.
RefMatches == \A f \in Frames : ref_cnt[f] = Cardinality(Users(f))

\* The same where two areas lie on one page, which the loop of do_cow_fork
\* then counts once for each: a page has at least as many references as there
\* are entries with it, so it is never taken for a page of one user, or of
\* none, while others have it mapped.
RefCovers == \A f \in Frames : ref_cnt[f] >= Cardinality(Users(f))

\* A page that was mapped is never given back to the allocator.  So a page
\* that is handed out is as it was at reset, which do_page_fault, clearing 8
\* bytes of it (trap.c:128), and create_mapping, clearing nothing of a table
\* (vm.c:129), rely on.
NeverReused == [][\A f \in Frames : ref_cnt[f] > 0 => ref_cnt'[f] > 0]_vars

\* A task can store only to pages that no other entry leads to.
WritableIsExclusive ==
  \A p, q \in Pids, v, u \in Pages :
    "W" \in pgd[p][v].perm /\ pgd[q][u].frame = pgd[p][v].frame => p = q /\ v = u

\* What the hart has cached leads where the page table of the running task
\* leads, and allows no more.
TlbSafe ==
  \A v \in Pages :
    tlb[v] # Invalid => /\ tlb[v].frame = pgd[current][v].frame
                        /\ tlb[v].perm \subseteq pgd[current][v].perm

\* The half-open areas of proc.c:56 and the permissions they give.
Legal(x) == \E i \in Vmas : /\ mmap[i].vm_start <= x.addr /\ x.addr < mmap[i].vm_end
                           /\ x.kind \in mmap[i].vm_flags

\* untrapped_handler "is to handler those problem that has no permission or
\* accessing the invalid memory" (trap.c:233): nobody else ends up there.
StoppedOnlyIfIllegal == halted = "fault" => ~ Legal(pend[current])

\* No page is given away for nothing (proc.c:145: "avoiding the case that
\* cause page waste").
NoPageWasted == lost = 0

\* A legal access that faulted goes through in the end, unless the machine is
\* out of memory.  This is of programs that stay in their areas: a bad
\* access of any task stops the machine for all.
LegalAccessCompletes ==
  \A p \in Pids :
    pend[p] # NoAccess /\ Legal(pend[p]) ~> pend[p] = NoAccess \/ halted = "oom"

\* Every task has a memory of its own: what task p finds in page v.
View(p, v) ==
  IF p = current /\ tlb[v] # Invalid THEN content[tlb[v].frame]
  ELSE IF pgd[p][v] # Invalid THEN content[pgd[p][v].frame]
  ELSE Untouched

UserPages == UNION {vma_pages(i) : i \in Vmas}

Private ==
  INSTANCE PrivateMemory WITH
    Task     <- Pids,
    Page     <- UserPages,
    Writable <- UNION {vma_pages(i) : i \in {j \in Vmas : "W" \in mmap[j].vm_flags}},
    Value    <- Values,
    live     <- 1 .. tasks_number,
    mem      <- [p \in Pids |-> [v \in UserPages |-> View(p, v)]]

ImplementsPrivateMemory == Private!Spec
=============================================================================
