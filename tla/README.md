# ZJU_OS: a TLA+ model of the kernel

ZJU_OS is a small RISC-V (RV64, Sv39) teaching kernel. One hart runs in supervisor mode above
OpenSBI, with interrupts off: the kernel is preempted by nothing, and the user programs by a
one-second timer. It has a counter-based scheduler, a page table per process, a buddy allocator
with page reference counts, demand paging of an ELF image, and `fork` with copy-on-write.

These modules model that kernel's logic. TLC checks them on small instances; TLAPS proves theorems
about the scheduler, user memory, their composition, the trap path, the page tables, the boot
sequence, the loader and the allocator for every size. Paths below are relative to `src/`; `kernel/` stands for
`arch/riscv/kernel/`.

## 1. Inventory

| Component | State | Operations | Where |
|---|---|---|---|
| Scheduler and task table | `task[]`, `tasks_number`, `current`, each task's `counter` and `priority`, the armed timer | `task_init`, `schedule`, `switch_to`, `do_timer`, `clock_set_next_event`, the table part of `do_cow_fork` | `kernel/proc.c`, `kernel/clock.c`, `kernel/trap.c`, `kernel/syscall.c`, `init/main.c` |
| Trap path | registers, `sscratch`, `sepc`, kernel stacks, `task_struct.thread` | `_traps`, `trap_handler`, `__ret_from_fork`, `__dummy`, `__switch_to`, the frame copied by `do_cow_fork` | `kernel/entry.S`, `kernel/trap.c`, `kernel/syscall.c` |
| Demand paging and copy-on-write | user page table entries, `buddy.ref_cnt`, page contents, the TLB | `do_page_fault`, `untrapped_handler`, `do_cow_fork`, the older `do_fork`, `get_page`, `put_page` | `kernel/trap.c`, `kernel/syscall.c`, `kernel/mm.c` |
| Page tables | `swapper_pg_dir` and the tables below it, one root per task | `create_mapping`, `checkValid`, `setup_vm_final`, root tables of `task_init` and `do_cow_fork` | `kernel/vm.c`, `kernel/syscall.c`, `kernel/proc.c` |
| Buddy allocator | `buddy.bitmap`, `buddy.ref_cnt` | `buddy_init`, `buddy_alloc`, `buddy_free`, `get_page`, `put_page`, `kfree` | `kernel/mm.c` |
| VMA list | `task_struct.mm.mmap`, never changed after `task_init`; with `do_cow_fork` a child has its parent's, with `do_fork` that list with each of its areas once more in front, in reverse order | `do_mmap`, `find_vma`, `VMA_init` | `kernel/proc.c` |
| Segment loader | one fresh page and the ELF image | the address arithmetic of `do_page_fault`, the older `load_program` | `kernel/trap.c`, `kernel/proc.c` |
| System calls | none of their own | `write`, `getpid`, `fork` | `kernel/syscall.c`, `kernel/trap.c` |
| Boot | `early_pgtbl`, `satp`, `pc`, `sp`, `stvec` | `_start`, `setup_vm`, `relocate`, `setup_vm_final`, `mm_init`, `task_init` | `kernel/head.S`, `kernel/vm.c` |
| Formatted output | the user library's `buffer` and `tail`, one of each per process | `vprintfmt`, `print_dec_int`, `strtol`, `putc`, `printk`, `printf` | `lib/printk.c`, `user/printf.c` |
| User programs | their counter, loop variable and message, in each process's own memory | the mains of `main.c`, `wait`, `fork`, `getpid` | `user/main.c` |
| SBI | none | `sbi_ecall` and wrappers | `kernel/sbi.c` |
| Library, build | none | `memset`, `memcpy`, `rand` | `lib/`, `Makefile`s |

### How the parts interact

- A **trap** is the only way into the kernel once it has booted. `_traps` saves a frame on the
  kernel stack of the current task and calls `trap_handler`, which dispatches: timer →
  `clock_set_next_event`, `do_timer` → `schedule` → `switch_to` → `__switch_to`; `ecall` → the
  system call; page fault → `do_page_fault`.
- **fork** touches everything at once: it takes an entry of the task table, copies the page that
  holds the parent's `task_struct` and kernel stack (with the frame of the running trap in it),
  makes a root page table, takes write permission from the parent's pages, gives them to the child
  and counts a reference on each.
- **`do_page_fault`** takes pages from the allocator, reads the VMA list, asks the reference count
  whether a page is shared and writes the page table; the interrupted instruction is retried.
- The **shared state** is the reference counts (all tasks), the kernel's half of the page tables,
  and the TLB, which belongs to the hart and outlives the task that filled it.

### What is hard

Kernel paths do not interleave with each other. What does interleave is *whole kernel paths of
different tasks*: a task that faults may lose the CPU before it retries; it may be copied by `fork`
at any point of its life; the page it is about to upgrade may have been shared or released by
others in the meantime. A task leaves the CPU in the middle of its handler and comes back after
others have trapped, forked and switched. Beyond that the hard cases are stale TLB entries, pages
and task table at their limit, unsigned arithmetic at page boundaries, and long sequences of
allocations. User code, `printf` included, is preempted between any two instructions. Nothing is persisted and there is no second hart, so crash recovery, message loss and
data races do not occur.

### What makes each component correct

- *Scheduler*: no entry that `schedule` reads is NULL and none is forgotten; unsigned counters never
  wrap; time is shared in rounds; nobody starves, and there is a bound on waiting.
- *Trap path*: a trap is invisible to the interrupted program; each task returns through its own
  kernel stack; a child starts right after its parent's `ecall`, with 0 in `a0`.
- *Copy-on-write*: reference counts equal the number of entries that lead to a page; a writable page
  is nobody else's; the TLB never leads elsewhere than the table; each task sees a memory of its own;
  a legal access completes.
- *Page tables*: mapping a page changes that page's translation in that task only; the kernel is
  mapped alike for all.
- *Allocator*: no page is handed out twice, none gets lost in the tree, a request is refused only
  when there is no room.
- *VMA list and loader*: an access is judged by the header of the segment it falls in; a page holds exactly
  the bytes of the file that belong in it.
- *Boot*: whatever table is in `satp`, the next instruction, the stack and the trap handler are mapped.
- *Output and programs*: a line reaches the console whole, says what its arguments say, and no process's
  text or count shows in another's.

## 2. The modules

| Abstract specification | Implementation | Proofs | Instance | Runs |
|---|---|---|---|---|
| `FairShare` | `Sched`, `SchedWait` (history variable) | `SchedProofs` | `MCSched.cfg` | `sched` |
| `PrivateMemory` | `CowMemory`; `EagerFork` (with `do_fork`) | `CowProofs` | `MCCow`, `MCFork` | `cow_shared`, `cow_strict_tlb`, `cow_waste` |
| those of its parts | `Kernel` = `Sched` + `CowMemory` | `KernelProofs` | `MCKernel` | `kernel` |
| `Processes` | `Trap` | `TrapProofs` | `MCTrap*.cfg` | `trap`, `trap_drift` |
| `AddressSpaces` | `PageTable`, in the order of `Boot` | `PageTableProofs` | `MCPageTable` | `page_table` |
| `PageAllocator` | `Buddy` | `BuddyProofs` | `MCBuddy.cfg` | `buddy` |
| the segments: `Wanted`, `load_program` | `ElfImage`, `DemandLoad` | `LoadProofs` | `MCLoad` | `load_pages`, `load_unaligned` |
| the formatting functions: `Printk` | `UserPrintf`, `Programs` | | `MCPrograms` | `programs` |

`ProofBasics` has facts about sets, numbers and functions that several of the proof modules use.

Each implementation has one action per kernel path. Since the kernel runs with `sstatus.SIE` = 0
a path is one atomic step, except in `Trap`, whose subject is the inside of a path: there, entry,
handler, switch and return are steps of their own. An operator whose name ends in a suffix after an
underscore and whose comment starts with *Mutant:* is a plausible bug used to see that a
property can fail; it takes no part in the specifications.

### Sched, FairShare, SchedWait

`task` is the set of indices of `task[]` that are not NULL. `StartKernel` is `start_kernel`'s call of
`schedule`; `TimerInterrupt` the timer branch of `trap_handler` with all of `do_timer` and
`schedule` in it, the recursive call after a refill included; `Fork` the table part of
`do_cow_fork`, with its failure. `ra` says where a task goes when `__switch_to` returns; it matters
because a task that does not come back through `trap_handler` must not rely on code after
`do_timer`. The code sets `tasks_number` to the entry that `fork` found; `Sched` does the same,
so that `TableDense` is a fact to be checked. `rand()` is any priority in range, and so is each
task's at boot.

`FairShare` knows no order among tasks: credit is handed out in rounds and the CPU may go to anyone
with credit left. `SchedWait` adds the number of ticks each task has been waiting.

### CowMemory, PrivateMemory

User code is a sequence of accesses (`Access`) from the set `Program`; one that faults runs
`PageFault`, which is `do_page_fault` with the area that `find_vma` finds (a set: none or one) and splits as the code does: `BadAccess` (no area, or not permitted), `FirstTouch`
(no entry yet), `MakeWritable` (the only user), `CopyPage` (shared), `NotCow` (none of these).
`pend` is the instruction at `sepc` that will be retried. `do_cow_fork` is the memory part of fork;
`Switch` is `__switch_to` writing `satp`, with its `sfence.vma`. `untrapped_handler` and the use of a NULL page
stop the machine (`halted`).

- *TLB.* The hart may keep the translation of any access. `StrictTlb = TRUE`: it may also raise a fault
  on a cached entry that lacks a permission, as the privileged architecture allows. `FALSE`: it walks the
  table again first, as QEMU does. The safety properties are checked under `TRUE`, which allows more.
- *Memory.* `NPages` is what the allocator has left. The pages of task structures, root tables and
  lower tables are counted, not modelled; `alloc_page` gives the lowest frame that nobody refers to.
  A run out of memory makes the code use page 0 in supervisor mode, from where it never returns;
  that is `Halt("oom", ...)`.
- *Content* of a page is one value; a fresh page holds any value. Which bytes it should hold is
  `DemandLoad`'s subject, which tables lead to it `PageTable`'s.

In `PrivateMemory` there are no frames: every task has its own function from pages to values, only its
own stores change it, and a fork copies it.

### EagerFork

`do_fork`, the implementation of `fork` that `do_cow_fork` has replaced behind the same interface. One of the two is
"built in" (`call`), and both have to implement `PrivateMemory`. Each task has its own list of areas (`lists`): the child's
`task_struct` is a copy of the parent's, list head included, and `do_mmap` puts an area at its head for each area of the parent that the loop of `do_fork` visits.
So a child has its parent's areas in reverse order and behind them its parent's list (`Inherited`). Two things follow, and both are modelled.
Where areas adjoin or have a page in common, a fault of the child may find another area than the same fault of the parent (`ForkFault` searches the task's own list), and the copy
of a page has the permissions of the area visited last (`AreaPerm`). And each visit of a mapped page takes a page for a copy (`Copies`): once for each place of an area that has it, twice as often in the child's forks as
in its parent's. Of the copies the last stays mapped, the others are lost, which `CopyAll` counts, with the nodes of the list.

### Kernel

`Sched` and `CowMemory` as two instances over one `current`: a tick that changes the task is also `CowMemory`'s `Switch`, a fork
is a step of both, accesses and faults are steps of `CowMemory` alone. The instance has two data areas on *one* page, as a
linker that does not align segments makes them: the loop of `do_cow_fork` then counts that page twice for each entry
(`get_pages` sums over areas). References no longer equal entries, so `RefMatches` does not hold here;
`RefCovers` does, and it is what safety needs: a page counted too high is copied once too often, never shared by mistake.
`NeverReused` says that no page that was mapped goes back to the allocator, which the code needs twice: it clears 8
bytes of a fresh user page (`sizeof` of a pointer) and nothing of a fresh page table.

### Trap, Processes

`stack[t]` is the last frame in the page of task `t`, with its place; addresses are a page and a
word offset, so a pointer into the wrong page is visible. The pages, the frame (36 words) and what
is given back (35 words) are in words of 8 bytes as in `entry.S`. `_traps` is everything to the call of
`trap_handler`; `Timer`, `Syscall`, `Fork`, `Other` are the branches of the latter; `__switch_to` includes
the way back up to the end of `trap_handler` for a task that left inside `switch_to`;
`__ret_from_fork` is the restoring half of `_traps`, where a child enters. The exchange of `sp` and
`sscratch`, taken back when it gives 0, is `swap`.

Left out: registers that nothing singles out are one value (`rest`); `sstatus`, which has one value in
every task (0x40020 as `task_init` writes it); traps taken in supervisor mode (interrupts are off, and
the only fault is the one after memory has run out). What a frame that no longer fits overwrites is
not followed (`overrun`).

`Processes` has one context per task and says that a trap changes none but the result of a system
call.

### PageTable, AddressSpaces

Real three-level tables with `Fanout` entries: `descend` is the inner loop of `create_mapping`, `share` one round
of the loop of `do_cow_fork` (through `checkValid` and the hand-written walk), `new_root` the copy of `swapper_pg_dir`.
Pages of tables are never used twice, because no path frees them; so a table from `kalloc` is as
the reset left it. The code relies on that too (`NeverReused` of `Kernel` for the user pages).

### Boot

The hart's `satp`, `pc`, `sp` and `stvec` over `PageTable`, one action per call of `_start`: `setup_vm`, `relocate` (which ends
with `satp` written and `pc` still at the old address), its `ret`, `setup_vm_final`, `task_init` with the lines that set
`stvec`. From then on tasks fault, fork and switch. Page numbers stand for addresses. `walk` is the hart's translation, with
the 1 GiB leaves of `early_pgtbl`.

### Buddy, PageAllocator

The bitmap tree of `mm.c`, node by node; `Descend` and `Climb` are the two searches, `Taking` and `Returning` the
two loops back to the root, written as recursive functions over the nodes (the descent over those nodes that are large
enough, the only ones it is at). `Reserve` is one round of
the loop in `buddy_init` that takes the kernel's own pages *by asking for as many single pages*; the
refinement says that this ends with exactly the lowest pages taken. `buddy_free` climbs from the leaf to the first
node whose entry is 0; `PutPage` calls it when the last reference goes, and `KFree` is `kfree` (with `free_pages` and the rounds of
`kfreerange`, which no path calls) on a page that has been handed out and carries no reference.

### ElfImage, DemandLoad

`VMA_init` runs over the program headers of an image, one action per header, and `do_mmap` puts each area in front. Then one fault at any
address, with any kind of access: `find_vma`, the test of the flags, and the copy, byte by byte, with addresses modulo `WORD`.
A page maps each of its offsets to the position in the file it was copied from. `Wanted` says what should be
there; `load_program`, eager loading, is a function from addresses to bytes of the file that no longer has a caller and serves as a second reference.

### Printk, UserPrintf, Programs

Texts are sequences of pieces: directives and digits are single characters, the plain text between them is one
piece. `Printk` is the kernel's `vprintfmt` as a fold over the format, with `print_dec_int`, the hexadecimal branch and `strtol`, and
integers modulo 2^`INT_BITS` and 2^`LONG_BITS`. `UserPrintf` is the user library's copy of it as a machine: one step per round of a loop or
per character put, `buffer` and `tail` included. `Programs` puts the mains of `main.c`, as sequences of statements, on
processes that interleave at each of these steps, with `fork`, `getpid` and `write`. The kernel's
`printk("%s", buf)` at the end of `write` is `Printk`'s. That `buffer`, `tail` and the counters are each process's own is what `CowMemory` is shown to
implement, and is taken from there. The program and the size of the task table (`built`) are chosen at the start. In the code's table of nine
`MCPrograms` lets a process finish its `printf` before another takes a step: the steps of `printf` touch what belongs to their process only, so every order of forks is still there.

## 3. What the runs check

| Run | Question | Result |
|---|---|---|
| `sched` | every order of ticks and forks, past a full table: `TypeOK`, `TableDense`, `RunningHasCredit`, `WaitBounded`, `EveryTaskRuns`, `ImplementsFairShare` | hold |
| `cow_shared` | both implementations of fork, up to three tasks sharing a stack page, a child of `do_fork` that finds another area than its parent where two adjoin, a TLB that may fault on cached entries, an illegal store, memory that runs out: `RefMatches`, `WritableIsExclusive`, `TlbSafe`, `ImplementsPrivateMemory` | hold |
| `kernel` | scheduler and memory together, two areas on a page, legal programs, a re-walking TLB: `TypeOK`, `StoppedOnlyIfIllegal`, `RefCovers`, `WritableIsExclusive`, `NeverReused`, `LegalAccessCompletes` | hold |
| `cow_strict_tlb` | legal programs on a TLB that may fault on cached entries: `StoppedOnlyIfIllegal` | **violated** |
| `cow_waste` | `NoPageWasted` | **violated** |
| `trap` | two tasks, every order of traps, calls, switches and a fork: `TypeOK`, `StacksSeparate`, `ImplementsProcesses` | hold |
| `trap_drift` | `KernelStackUnwound` | **violated** |
| `page_table` | reset, boot, then faults, forks and switches: `TypeOK`, `TablesSeparate`, `HartMapped`, `ImplementsAddressSpaces` | hold |
| `buddy` | boot, then every order of requests, references, releases: `TypeOK`, `BitmapIsLongest`, `ImplementsPageAllocator` | hold |
| `load_pages` | every access to every address of small images: `AccessRight`, `LoadsAgree`, and, where the code has the page's place right, `LoadedRight` | hold |
| `load_unaligned` | the bytes of the page for any alignment: `SegmentRight` | **violated** |
| `programs` | the mains of `main.c` and any caller of `printf`, three processes; `FORK3` with all its eight: `TypeOK`, `WholeLines`, `CountsOn`, `ForksDouble`, `BuffersFit`, `ReadsBack`, `PrintfAdvances` | hold |

### Findings

1. `kernel/trap.c:207`. The only user of a read-only page gets `PTE_W` in place and no `sfence.vma` follows. On a
   hart that goes on using its cached entry, the retried store faults again, now with `PTE_W` set, and a legal
   program ends in `untrapped_handler`. QEMU hides this (`kernel`).
2. `kernel/trap.c:127`, `kernel/syscall.c:189`. A page is allocated before it is known whether it is needed
   and is lost on every copy-on-write fault and every fork with a full table.
3. `kernel/trap.c:173`. For a segment that starts inside a page, the length of the first copy is
   short by the offset, or wraps; and `PGROUNDUP` at line 155 confuses a fault on the first byte of the second
   page with one in the first.
4. `kernel/entry.S:128`. A frame takes 288 bytes and 280 are given back: the kernel stack of a task
   sinks by 8 bytes with each trap, until frames reach its `task_struct`.

`find_vma` (`kernel/proc.c:396`) takes `vm_end` as part of the area, where its callers do not. `AccessRight` shows when that does no harm:
areas that adjoin are in the list with the higher one first, because headers come in the order of their addresses and `do_mmap` puts each in
front. An access just behind an area that nothing adjoins is let in; no property says it must not be.

### Bounds, and why they are enough

- `sched`: `NR_TASKS` = 5, two tasks at boot, priorities 1–3. Forks find a free entry twice and a full table after
  that; counters of parent, child and others can be ordered in every way. `WaitBounded`'s figure is exact:
  one tick less is exceeded with 4 and with 5 entries and `PRIORITY_MAX` from 1 to 4.
- `cow_shared`: three tasks, so a page can have 1, 2 or 3 users and the decision between upgrade
  and copy is taken on each side of its boundary; 22 pages, which forks and the copies use up, so memory runs out at
  every kind of request. One stack page is enough there: pages interact only through frames and counts. The area below it, which the program does not
  use, ends at the stack's first address, so at that address the order of a task's list decides which of the two `find_vma` gives.
  `do_fork` needs more than `do_cow_fork`: 22 pages are enough for a fork by a child, whose list is twice as long.
- `kernel`: two tasks, priorities 1 and 2, 15 pages, a text page and a page with two data areas. That is enough for two forks (one fails), for each
  task to fault on each page, and for memory to run out at the end of every order of them.
- `cow_strict_tlb`, `cow_waste`: two tasks, 13 or 14 pages, a text and a stack area on different pages; the
  text area starts inside its page, as linked programs do.
- `trap`: pages of 71 words, which gives each task three traps before the sinking stack reaches `task_struct`:
  enough for a task to be forked, switched out inside its handler and be trapped again. One `ecall` and two
  instruction addresses.
- `page_table`: two entries per table, eight virtual pages, the upper half the kernel's. Two of
  the three user pages share all tables and the third shares only the root. `NTables` = 11 is the number
  that two tasks with all their pages need, so `Becomes` never refuses a step that the code would take there.
- `buddy`: eight pages, three reserved, requests of 0 to 8 pages (so rounding, refusal, and a request
  for everything occur), at most two references (`MaxRef`).
  The root table's two entries are also the 1 GiB leaves of `early_pgtbl`, one for each half.
- `load_*`: pages of 4 bytes, every segment with a start in two pages and up to 10 bytes: a first, a middle and a last page; pairs of
  segments that adjoin on a page boundary, adjoin inside a page or lie apart, with all permissions; headers that are not loaded.
  `CHECK_DEADLOCK FALSE` here only: a behaviour is one fault.
- `programs`: `int` of 4 bits, `long` of 8, with arguments at the edges of both, in formats that take every branch of `vprintfmt`; a table for three
  processes, which `FORK3` wants to exceed; a buffer of 11 places, which is exactly what the longest of the lines
  needs with its NUL, so that a line put behind another does not fit (a line too long by itself is not the library's subject: nothing promises room for it); the message of
  `FORK2` is longer than the line after it, which would show a missing terminator; `MAX_LINES` = 2 stops a process in `wait()` once it has counted so far.
  `FORK3` runs a second time with `NR_TASKS` = 9, as in the code: its eight processes fill that table and no fork is refused.

### Fairness

`Sched`: weak fairness of `StartKernel` (boot reaches it) and of `TimerInterrupt` (a programmed timer fires;
interrupts are on in user mode). Nothing is assumed of `Fork`. `Kernel`: the same two for the composed steps, so that the CPU comes back to a task is
the scheduler's doing and not assumed; and strong fairness of `Retry(p)`, which says that a task that gets
the CPU again and again once completes an instruction: a slice is at least a second. The other modules state no fairness; that `printf` comes back is
the action property `PrintfAdvances`, each step moving on in a finite order.

## 4. What is proved

Each theorem holds for every value of the constants that meets the named assumptions of its module. These are
what the code fixes (sizes are positive, the list of areas is a list, the stack ends in the user's half); TLC evaluates them
in every run. Some theorems need more of the *image*, the program and its areas:

- `AreasApart`: no two areas have a page in common. A linker that aligns segments makes such images; `MCFork`'s is one.
- `AreasDescend`: each area lies below those before it in the list, as `VMA_init` and `do_mmap` leave it (segments come in
  the order of their addresses, the stack last, and each goes in front).
- `SamePermission`: the area `find_vma` gives for an access and any other that has the page accessed have the same permissions.
- `AnyOrder`: the same whatever the order of the list: areas that have a page in common have the same permissions, and so have an area and those
  that have the page it ends at the edge of, if an access falls there. `do_fork` needs it, because its child's list is in another order.

`NR_TASKS > 2` (it is 9 in the code) asks for a table with room for two tasks; in one for a single task nobody waits, and `WaitBounded`'s figure is below 0.

The four on the image are hypotheses of the theorems that need them, and the `ImageAssumption` of `MCCow` and `MCKernel` and the `ForkImageAssumption` of `MCFork` have TLC evaluate them
on the instances the runs use. Without `SamePermission` the properties are false of the code: the permissions of a page are those of the area its
first access fell in, so an instruction fetch from a second area on a page mapped as data faults on a valid entry and ends in `NotCow`, that is in
`untrapped_handler`.

| Module | Theorems | Needs |
|---|---|---|
| `SchedProofs` | `SchedTypeOK`, `SchedTableDense`, `SchedRunningHasCredit`, `SchedImplementsFairShare` | |
| | `SchedWaitBounded` | `NR_TASKS > 2` |
| `CowProofs` | `CowTypeOK`, `CowRefCovers`, `CowWritableIsExclusive`, `CowTlbSafe`, `CowNeverReused` | |
| | `CowRefMatches` | `AreasApart` |
| | `CowStoppedOnlyIfIllegal` | `AreasDescend`, `SamePermission`, `~StrictTlb` |
| | `CowImplementsPrivateMemory` | `SamePermission` |
| `CowProofs`, for `EagerFork` | `ForkWritableIsExclusive`, `ForkTlbSafe` | |
| | `ForkRefMatches`; `ForkImplementsPrivateMemory` | `AreasApart`; `AnyOrder` |
| `KernelProofs` | `KernelTypeOK`, `KernelRefCovers`, `KernelWritableIsExclusive`, `KernelNeverReused`, `KernelImplementsFairShare` | |
| | `KernelStoppedOnlyIfIllegal`, `KernelImplementsPrivateMemory` | as for `CowMemory` |
| `TrapProofs` | `TrapTypeOK`, `TrapStacksSeparate`, `TrapImplementsProcesses` | |
| `PageTableProofs` | `TablesTypeOK`, `TablesAreSeparate`, `TablesImplementAddressSpaces`, `HartStaysMapped` | |
| `LoadProofs` | `LoadAccessRight`, `LoadLoadedRight`, `LoadLoadsAgree` | |
| `BuddyProofs` | `BuddyTypeOK`, `BuddyBitmapIsLongest`, `BuddyImplementsPageAllocator` | |

### Scheduler

The inductive invariant `IInv` is the three invariants and two facts they need. *PrioritiesInRange*:
a refill puts the best entry above 0 only if each entry in use has a priority of at least `PRIORITY_MIN`;
without it, a task could be dispatched with 0 ticks and the next tick would wrap its counter.
*BootCounters*: while `idle` runs, all counters are 0, so the first scheduling decision opens a round, which
`FairShare!Start` demands. `TableDense` in turn is needed for the counters: `schedule` scans
`1 .. tasks_number` and a task outside would be refilled by nobody.

The argument: `NextIsABest` (the scan's choice exists and has the largest counter; `LeastNat` gives the
first among equals) → `ScheduleEffect` (what a call of `schedule` does in a state of `IInv`) → one lemma per
action that it preserves `IInv` → `NextIInv` → the theorems. For the refinement `ScheduleRefines` says which of
`FairShare`'s choices a call of `schedule` makes, and one lemma per action maps it to `Start`, one of the three
cases of `Tick`, `Spawn` or a stutter (a fork that fails).

`WaitBounded` speaks of the past, so its invariant `WInv` has to say what is still to come: `Ahead` of a waiting task is the number of ticks others may run before it does
(what they have left, and a turn of the next round of those that come before it there, if its own turn of this one is over; `Left` lists the cases), and *Waits* bounds the ticks waited and those ahead together. A tick takes at least one from what is ahead (`TickAhead`), also when
it opens a round, since the turns of the new round have been reckoned with. A fork adds none: a slot of the table that is empty counts with the most a child can bring. What a task has ahead when it leaves the CPU is the hard case: with two whole
turns of everybody the figure would be too large by one turn and more. Two facts bring it down. *InOrder*: those that come before a task by priority have at least begun their turn when it has; so nobody has two whole turns. *Origins*: a task in the middle of a turn that it did not run
itself is a child, and the one it descends from is before it in the table, at the same priority; so if the task dispatched next has a turn before the leaver's in the next round, an ancestor of it has one too and has used up its turn of this round (`LeaverAhead`).
The sum is the size of a set with an element for each tick (`Turns`), which needs no induction over the table.

### User memory

`IInv` is `TypeOK`, `RefCovers`, `WritableIsExclusive`, `TlbSafe` and three facts. *Unborn*: the table of a task that does not exist is
empty, so `do_cow_fork` adds entries to it and replaces none. *OnePlace*: a frame is mapped at one address only, in however many tasks;
the loop of `do_cow_fork` counts a visit per area, and this is what makes a visit of the loop at most one
new entry of the frame. *RefBounded*: no count exceeds one per task and area, which keeps the counts in their type.

`RefCovers` carries the rest. A page with count 1 has one user, so granting `PTE_W` in place leaves it exclusive; and `alloc_page`
gives frames of count 0, to which no entry leads. Each action is a case that shows where the frames of its new entries come from: a free frame (`FirstTouch`, `CopyPage`),
the same frame (`MakeWritable`), or the parent's, read-only, with as many new references as entries (`do_cow_fork`). The counting is about finite sets: `Users(f)` before and
after a step differ by one pair, or by pairs that map one to one into the loop's `Visits(f)`. With `AreasApart` that map is also onto, and counts
are exact (`CowRefMatches`). `CowNeverReused` is an action property: `put_page` is called only for a page of count 2 or more.

`CowStoppedOnlyIfIllegal` and the refinement add *EntriesFollowAreas*: an entry has the permissions of its area but for the `W` that fork takes away.
So a legal access that faults on a valid entry is a store, to a page whose area is writable, and the copy-on-write branch takes it. `AreasDescend` is there because
`find_vma` accepts an address equal to `vm_end`: only the order of the list gives the right area to a page where two adjoin.

The refinement maps a task and a page to `View`, the content of the frame its entry leads to. A store changes one view because of `WritableIsExclusive`,
a store through the TLB because of `TlbSafe`, a new frame none because of `RefCovers`; a fork copies a row; a copy-on-write fault is a stutter.

For `EagerFork`, each lemma on a page fault is about any area that contains the address (`do_page_fault(x, vma)` with `vma` a subset of `Containing(x.addr)`), so it holds for the first of any list; *Finds*
says of a search that its result is one of these. `StepsIn(found)` is `Next` with such a search, and what the
theorems of `CowMemory` rest on is proved of it (`StepsIInv`, `StepsRefMatches`, `StepsEntries`, `StepsRefine`); `First` is the search of `CowMemory`, `FoundIn` that of a task's own list. The invariant adds *ListsOK*: each task's list
has every area, once or more. So the areas a search can give do not depend on the order; which one it gives does, and `AnyOrder` says that this does not change the permissions (*Agree*), which `SamePermission`, about the parent's order, would not.
`do_fork` gives the child frames that nobody refers to, one for each page, and of what it copies
more than once it keeps the last; that they exist follows from the room it has asked for (a count of free frames, `ProofBasics`), and `AreaPermIs` says that the permissions are those of an area the page lies in.

### The composition

`KernelProofs` has `SchedProofs` and `CowProofs` as instances. A step of `Kernel` is a step of `Sched` or leaves its variables alone, and so for `CowMemory`, where the `idle` of boot
stands for task 1 (as in `Kernel`): `KernelSched` and `KernelMemory` are `Spec => SP!Spec` and `Spec => MP!Spec`. All theorems of the parts then hold of the whole. The rest of the
module shows that `Kernel`'s own instances are the same operators.

### Trap path

`IInv` says, for each place a task can be in, what its frame, its saved thread fields, `sp` and `sscratch` are: *Booting* (before the first `sret`), *InUser*
(`sscratch` is in the running task's page and `sp` in the user's), *InKernel* (`sp` is at the frame just saved), *Waiting* (each other task has a whole frame in
its own page, and `thread.sp` is at it or at `DEPTH` below it, as `ra` says), *AtEcall*, *Results* (the saved `a0` of a task is a value the calls give).
`TrapStacksSeparate` follows; `IInv` is needed because `__switch_to` loads pointers stored many steps before by a task that others have copied in between. In the refinement `_traps`, `__switch_to` and the exchange of `sp`
with `sscratch` are stutters and the mapped context of a task stays what it was when it trapped.

### Page tables and boot

That two tasks share no table cannot be seen in one table: it is a matter of how one gets to it. The invariant says that there are *names*
(`Names`: the task a table belongs to, its level, and the indices that lead to it) such that each valid entry leads to the table that its own name and index
give (`Linked`), the roots have level 2, the kernel's part of each root is that of `swapper_pg_dir` (`KernelShared`), and tables not yet made are empty (`Unmade`: the code clears none of
them). `below` of two roots then meets in tables of owner 0 only, which is `TablesAreSeparate`; and `LeafWrite` says that a write to a table of the last
level changes one translation, of one page from one root, since a page is determined by its three indices (`VpnInjective`).

`create_mapping`, `setup_vm_final` and the loop of `do_cow_fork` are recursive functions over rows of pages. Their theorems are about functions that satisfy
the recursion for as far as they are used; that such functions exist and have the stated effect on every row is shown with the least row at which it would fail. `SetupSimulates`, `FirstSimulates`,
`FaultSimulates` and `ForkSimulates` map the four operations to those of `AddressSpaces`.

Two assumptions on the layout: `HalvesAssumption` (user and kernel pages differ in the first index: `USER_END` and `VM_START` are in different halves of Sv39) and, for boot, `LayoutAssumption` (the regions that
`setup_vm_final` maps contain code and stacks, at `PA2VA_OFFSET`, with the permissions they need: the linker script's sections). `HartInv` lists for each call of `_start` what `satp`, `pc`, `sp` and `early_pgtbl` are. The two steps at which
`pc` and `satp` disagree (after `relocate`, before its `ret`) are why `early_pgtbl` maps the kernel twice; from `task_init` on `satp` is always a root, and roots share the kernel's translations.

### Loader

For every size of a page, every word size and every image that meets `ImageAssumption` (what ELF demands of a program's loadable segments: same place of a page in file and in
memory, ascending, not overlapping, below the stack). `IInv` says that the list has the areas of the headers read so far, and the stack's once all are read (*Listed*), that each lies below the ones in
front of it (*Descending*), and what the fault has done with the area `find_vma` gave (*Faulted*). `AreaFound` is the heart of `LoadAccessRight`: since `find_vma` takes `vm_end` as part of an area, an address may satisfy it
for two, and *Descending* makes the first of the list the one that has the address inside.

`LoadLoadedRight` is arithmetic on unsigned words: `Split` and `Rounded` say what `PGROUNDUP` and `PGROUNDDOWN` give, `CopyStart` that the copy starts at the page's own place in the file from whichever address faulted,
`CopyLength` that the three cases of the code's length, the one modulo `WORD` included, give the file's part of the page. The cases left out of the property are those of finding 3. For `LoadLoadsAgree`, `LastMapped` shows that of the headers whose pages
have an address the last is the one the address belongs to, so the page `load_program` leaves mapped is that segment's.

### Allocator

`buddy.bitmap` stores, for each node, a length; what it means is said of the whole tree below the node. `BitmapIsLongest` is that meaning (an entry is the length of the
longest free aligned run of pages under its node), and it is not inductive: `buddy_free` takes the first entry 0 on its way up for the block that was handed out, and an entry is 0 too when its two
halves are full. `IInv` therefore keeps the tree's shape: *TreeOK*, each inner node is what its halves give, whole if both are whole and the longer of the two otherwise, or is 0 over two whole
halves; the latter are the nodes *Taken*, and a leaf is taken if it is 0. *RefsOK*: the pages with references are the first pages of taken nodes,
so `put_page` on the last reference finds its own block. *Boots*: while `buddy_init` reserves the kernel's pages, exactly the pages below the round it is in are taken, one by one.

The argument: `ClimbIs` and `DescendIs` give the node each search ends at, that the descent is at a node
with room throughout, and that it takes the leftmost one; `TakingTree` and `ReturningTree` give the tree after each of the two loops, which is *TreeOK* with one node more or less in `Taken`. `FitBounded` and `FitReached` read `BitmapIsLongest` off *TreeOK*.
For the refinement `Lengths` maps each taken node to its first page and its length; taken nodes do not overlap (`Taken` nodes have no taken node above them), `NoRun` says that
the root's entry is too small only if no aligned run of the size is free, and `ReserveMaps` that the rounds of `buddy_init` are stutters that end in `PageAllocator`'s initial state.

Searches and loops are recursive functions over the nodes, and there is no induction over operators to cite. `RootRecursionSolved` and `LeafRecursionSolved` show that a recursion away from the root, or from the leaves, has a solution; `FromRoot` and `FromLeaves` are
induction over *sets* of nodes, and every statement about all nodes is put as such a set. Sizes are powers of two, and of two such numbers one divides the other: that a node's block is
aligned, and that two blocks are nested or apart, follows from this.

### Model-checked only

- **Liveness** (`EveryTaskRuns`, `LegalAccessCompletes`) and `PrintfAdvances`: fairness and ENABLED are out of the prover's reach for the first two, `PrintfAdvances` is an
  order on the states of a machine over sequences.
- **`Programs`**: what its properties say is what `Printk` makes of a format and its arguments. `Printk` is built from folds over
  sequences, whose results for every input would need induction over data; so are the sums of `ForksDouble`, which `programs` checks at the code's own table size.

## 5. What is not modelled, and why

- **`sbi_ecall`**: a register-level wrapper of a firmware call; the debug console and system reset are pure I/O. When the
  programmed timer expires is left open (`get_cycles`, `TIMECLOCK`).
- **`dummy`, `test_switch`, `#if TEST_SCHED`**: the kernel threads and self-test of an earlier stage; nothing calls them.
- **`rand`**: any priority. **`memset`, `memcpy`**: assignments, except the copy of `do_page_fault`. `Log` and its colours: plain text.
- **Traps from supervisor mode**: interrupts are off in the kernel, and the only fault there is the one after memory has run out.
- **User programs other than `main.c`'s**: arbitrary sequences of accesses, computations, calls of `printf`.
- **`elf.h`**: a vendored header of 3400 lines of which four definitions are used. **Build files, linker scripts**: their layout is assumed.

Hazards that no property covers (they are listed in `PROJECT.json` with their reason):

- `kernel/mm.c:143`: `alloc_page` returns 0 when memory is out and no caller looks. `CowMemory` stops there (`oom`), and the properties except it: no text of the
  repository says what the kernel should do instead.
- `kernel/entry.S:12`: `sscratch` is not 0 in the kernel, so a nested trap would take the user stack; see traps from supervisor mode above.
- `kernel/syscall.c:24`: `write` reads the user's text in supervisor mode. `printf` has stored to each page of it before the call; a program that
  calls `write` itself with an unmapped address is not modelled.
- `user/main.c:65`: no program looks whether `fork` returned -1. `FORK3`, the one that fills the table, goes on alike after either result.
- `lib/printk.c:243`: `%u` of an `int` prints its sign extension to 64 bits. `ReadsBack` takes that as it is; nothing here prints an unsigned `int`.
- `user/printf.c:294`: the `asm` statement changes registers it does not declare. What becomes of that is the compiler's choice.

That one task's bad access stops all tasks (`kernel/trap.c:239`) is how `untrapped_handler` is written; `CowMemory` models it.

## 6. Plan

Done, most important behaviour first: the scheduler with its proofs; copy-on-write; the allocator; the loader; the trap
path; the page tables; the areas computed from program headers; boot; output and the user programs; the composition of scheduler and
memory, with two areas on one page; the eager `do_fork` and `load_program`.

Proved: the scheduler, its refinement and the bound on waiting; user memory with both forks, and its refinement; their composition; the trap path and its refinement; the page tables, their
refinement, and that the hart stays mapped from reset on; the loader; the allocator and its refinement.

Next: the composition of `CowMemory` with the allocation order of `Buddy`.
