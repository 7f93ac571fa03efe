-------------------------------- MODULE Boot --------------------------------
(***************************************************************************)
(* From reset to the first user program, and on: head.S with setup_vm, and *)
(* the root table in satp at every moment, over the page tables of         *)
(* PageTable.  The kernel is linked at VM_START and loaded at PHY_START;   *)
(* pc, sp and stvec are page numbers of addresses as the hart holds them.  *)
(***************************************************************************)
EXTENDS PageTable

CONSTANTS
  PHY_START, VM_START,
  TextPage,    \* the page of physical memory that holds the kernel's code
  StackPages,  \* those of boot_stack and of the tasks' kernel stacks
  Bare, Early  \* satp: no translation; the root table is early_pgtbl

\* The pages one entry of a root table maps.
GIGA == Fanout * Fanout

PA2VA_OFFSET == VM_START - PHY_START

ASSUME BootAssumption ==
  /\ PHY_START \in Nat /\ VM_START \in Nat /\ PHY_START < VM_START
  /\ PHY_START % GIGA = 0 /\ VM_START % GIGA = 0
  /\ {TextPage} \cup StackPages \subseteq PHY_START .. PHY_START + GIGA - 1
  /\ Bare \notin Tables /\ Early \notin Tables /\ Bare # Early

\* The kernel's first giga of addresses is there, and of the regions of
\* setup_vm_final the last that has the page of the code leads to it and is
\* executable, likewise for the stacks and writable.
ASSUME LayoutAssumption ==
  /\ VM_START + GIGA <= Top
  /\ \A a \in {TextPage} \cup StackPages :
       /\ a + PA2VA_OFFSET \in DOMAIN KernelMap
       /\ KernelMap[a + PA2VA_OFFSET].ppn = a
  /\ "X" \in KernelMap[TextPage + PA2VA_OFFSET].perm
  /\ \A a \in StackPages : {"R", "W"} \subseteq KernelMap[a + PA2VA_OFFSET].perm

VARIABLES
  early_pgtbl,
  satp,   \* Bare, Early or a table of PageTable
  pc, sp, stvec,
  at      \* what _start does next

hart == <<early_pgtbl, satp, pc, sp, stvec, at>>
bootvars == <<vars, hart>>

BootInit ==
  /\ Init
  /\ early_pgtbl = Empty
  /\ satp = Bare
  /\ pc = TextPage
  /\ sp \in StackPages
  /\ stvec = None
  /\ at = "setup_vm"

-----------------------------------------------------------------------------
\* Mutant: the kernel is mapped where it is linked, and only there.
early_map_Once(e) == [early_pgtbl EXCEPT ![VPN(VM_START, 2)] = e]

\* The two entries setup_vm writes: the kernel where it is and where it is
\* linked.
early_map(e) == [early_pgtbl EXCEPT ![VPN(PHY_START, 2)] = e, ![VPN(VM_START, 2)] = e]

setup_vm ==
  /\ at = "setup_vm"
  /\ early_pgtbl' = early_map([ppn  |-> (PHY_START \div GIGA) * GIGA, perm |-> {"R", "W", "X"}])
  /\ at' = "relocate"
  /\ UNCHANGED <<vars, satp, pc, sp, stvec>>

\* relocate adds the offset to sp, and to the return address.
moved(a) == a + PA2VA_OFFSET

\* relocate: after the write of satp the hart still fetches at the address of
\* before, until its ret.
relocate ==
  /\ at = "relocate"
  /\ satp' = Early
  /\ sp' = moved(sp)
  /\ at' = "ret"
  /\ UNCHANGED <<vars, early_pgtbl, pc, stvec>>

Ret ==
  /\ at = "ret"
  /\ pc' = pc + PA2VA_OFFSET
  /\ at' = "setup_vm_final"
  /\ UNCHANGED <<vars, early_pgtbl, satp, sp, stvec>>

\* mm_init writes no table (Buddy follows it); setup_vm_final ends with the
\* write of satp and a fence.
Final ==
  /\ at = "setup_vm_final"
  /\ setup_vm_final
  /\ satp' = swapper_pg_dir
  /\ at' = "task_init"
  /\ UNCHANGED <<early_pgtbl, pc, sp, stvec>>

\* task_init, then la, which is relative to pc, and stvec, sie and the first
\* timer event.
Enable ==
  /\ at = "task_init"
  /\ task_init
  /\ stvec' = pc
  /\ at' = "start_kernel"
  /\ UNCHANGED <<early_pgtbl, satp, pc, sp>>

Booted == at = "start_kernel" /\ UNCHANGED <<early_pgtbl, pc, stvec, at>>

\* __switch_to: the next instruction is fetched through the new table.
Switch(p) ==
  /\ Booted
  /\ pgd[p] # 0
  /\ satp' = pgd[p]
  /\ sp' \in {a + PA2VA_OFFSET : a \in StackPages}
  /\ UNCHANGED vars

\* The task whose table is in satp faults or forks.
Fault(p) ==
  /\ Booted /\ satp = pgd[p]
  /\ \E v \in UserPages : page_fault(p, v)
  /\ UNCHANGED <<satp, sp>>

Fork(p) ==
  /\ Booted /\ satp = pgd[p]
  /\ do_cow_fork(p)
  /\ UNCHANGED <<satp, sp>>

BootNext ==
  \/ setup_vm \/ relocate \/ Ret \/ Final \/ Enable
  \/ \E p \in Pids : Switch(p) \/ Fault(p) \/ Fork(p)

BootSpec == BootInit /\ [][BootNext]_bootvars

-----------------------------------------------------------------------------
\* Where page v leads.
walk(v) ==
  CASE satp = Bare -> [ppn |-> v, perm |-> {"R", "W", "X"}]
    [] satp = Early ->
         LET e == early_pgtbl[VPN(v, 2)] IN
         IF e = None THEN None ELSE [e EXCEPT !.ppn = @ + (v % GIGA)]
    [] OTHER -> entry(table, satp, v)

Reaches(v, perm, page) ==
  /\ v \in 0 .. Top - 1
  /\ walk(v) # None
  /\ walk(v).ppn = page
  /\ perm \subseteq walk(v).perm

\* The memory an address of the kernel stands for, in either form.
home(a) == IF a < VM_START THEN a ELSE a - PA2VA_OFFSET

\* Whatever table is in satp, in the middle of relocate and right after every
\* write of satp by setup_vm_final and __switch_to, the hart goes on fetching
\* the kernel's code, its stack is the page it was before, writable, and once
\* traps are on their handler is there to be fetched.
HartMapped ==
  /\ Reaches(pc, {"X"}, TextPage)
  /\ Reaches(sp, {"R", "W"}, home(sp))
  /\ stvec # None => Reaches(stvec, {"X"}, TextPage)
=============================================================================
