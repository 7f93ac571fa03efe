----------------------------- MODULE PageTable -----------------------------
(***************************************************************************)
(* The Sv39 page tables: create_mapping and setup_vm_final in vm.c,        *)
(* checkValid in syscall.c, the root tables task_init and do_cow_fork make.*)
(* Table 0 is swapper_pg_dir; all others come from kalloc, which in the    *)
(* running system never hands out a page twice.                            *)
(*                                                                         *)
(* Boot puts these operations in order, from reset on.  Virtual addresses  *)
(* are page numbers and a table has Fanout entries.                        *)
(***************************************************************************)
EXTENDS Naturals, Sequences

CONSTANTS
  NR_TASKS,
  NTables,    \* bound of the model: tables that can be made
  Fanout,
  UserPages,  \* the pages of user programs, in their areas
  Regions,    \* the calls of setup_vm_final, in order
  Frames,     \* frames given to user pages
  Perms,      \* permissions of the areas
  None

Pids   == 1 .. NR_TASKS - 1
Tables == 0 .. NTables
swapper_pg_dir == 0
Top    == Fanout * Fanout * Fanout

ASSUME TableAssumption ==
  /\ NR_TASKS \in Nat \ {0, 1} /\ NTables \in Nat /\ Fanout \in Nat \ {0}
  /\ UserPages \subseteq 0 .. Top - 1
  /\ Regions \in Seq([va : Nat, pa : Nat, n : Nat, perm : SUBSET {"R", "W", "X"}])
  /\ \A i \in DOMAIN Regions : Regions[i].va + Regions[i].n <= Top
  /\ Frames \subseteq Nat /\ Perms \subseteq SUBSET {"R", "W", "X"}
  /\ None \notin [ppn : Nat, perm : SUBSET {"R", "W", "X"}]

VARIABLES
  table,   \* table[t][k]: entry k of table t
  used,    \* tables 0 .. used have been made
  pgd      \* pgd[p]: the root table of task p; 0 when there is no task p

vars == <<table, used, pgd>>

\* An entry is valid unless it is None; one without permissions leads to a
\* table.
Entry == [ppn : Nat, perm : SUBSET {"R", "W", "X"}] \cup {None}
Empty == [k \in 0 .. Fanout - 1 |-> None]
Directory(t) == [ppn |-> t, perm |-> {}]

TypeOK ==
  /\ used \in Tables
  /\ \A t \in Tables : DOMAIN table[t] = 0 .. Fanout - 1
  /\ \A t \in Tables, k \in 0 .. Fanout - 1 : table[t][k] \in Entry
  /\ pgd \in [Pids -> 0 .. used]

\* Memory after the reset; setup_vm_final clears swapper_pg_dir.
Init ==
  /\ table = [t \in Tables |-> Empty]
  /\ used = 0
  /\ pgd = [p \in Pids |-> 0]

-----------------------------------------------------------------------------
VPN(v, j) == (v \div (CASE j = 0 -> 1 [] j = 1 -> Fanout [] j = 2 -> Fanout * Fanout)) % Fanout

\* User programs have the lower half of the addresses and the kernel the upper
\* one: they differ in the first index.
ASSUME HalvesAssumption ==
  \A v \in UserPages, i \in DOMAIN Regions :
    \A w \in Regions[i].va .. Regions[i].va + Regions[i].n - 1 : VPN(v, 2) # VPN(w, 2)

\* One round of the inner loop of create_mapping, m holding the tables, their
\* number and ptr: a new table if the entry is not valid.
descend(m, v, j) ==
  LET e == m.table[m.ptr][VPN(v, j)] IN
  IF e # None THEN [m EXCEPT !.ptr = e.ppn]
  ELSE [table |-> [m.table EXCEPT ![m.ptr][VPN(v, j)] = Directory(m.used + 1)],
        used  |-> m.used + 1,
        ptr   |-> m.used + 1]

\* One round of the outer loop.
map_page(m, root, v, pa, perm) ==
  LET leaf == descend(descend([m EXCEPT !.ptr = root], v, 2), v, 1) IN
  [leaf EXCEPT !.table[leaf.ptr][VPN(v, 0)] = [ppn |-> pa, perm |-> perm]]

create_mapping(m, root, va, pa, n, perm) ==
  LET after[i \in 0 .. n] ==
        IF i = 0 THEN m ELSE map_page(after[i - 1], root, va + i - 1, pa + i - 1, perm)
  IN after[n]

\* The three levels checkValid looks at, and the entry it ends at.
entry(t, root, v) ==
  LET e2 == t[root][VPN(v, 2)]
      e1 == IF e2 = None THEN None ELSE t[e2.ppn][VPN(v, 1)]
  IN IF e1 = None THEN None ELSE t[e1.ppn][VPN(v, 0)]

checkValid(t, v, root) == entry(t, root, v) # None

Memory(t, n) == [table |-> t, used |-> n, ptr |-> 0]
Now          == Memory(table, used)

Becomes(m) == m.used \in Tables /\ table' = m.table /\ used' = m.used

-----------------------------------------------------------------------------
setup_vm_final ==
  LET after[i \in 0 .. Len(Regions)] ==
        IF i = 0 THEN Now
        ELSE LET r == Regions[i]
             IN create_mapping(after[i - 1], swapper_pg_dir, r.va, r.pa, r.n, r.perm)
  IN /\ used = 0
     /\ Becomes(after[Len(Regions)])
     /\ UNCHANGED pgd

\* Mutant: the child starts from its parent's root table.
new_root_OfParent(m, parent) ==
  [table |-> [m.table EXCEPT ![m.used + 1] = m.table[IF parent = 0 THEN 0 ELSE pgd[parent]]],
   used |-> m.used + 1, ptr |-> 0]

\* Mutant: the page is taken, but may be taken again.
new_root_NotTaken(m, parent) ==
  [table |-> [m.table EXCEPT ![m.used + 1] = m.table[swapper_pg_dir]],
   used |-> m.used, ptr |-> 0]

\* A root table: the entries of swapper_pg_dir are copied, the tables below
\* them are shared.
new_root(m, parent) ==
  [table |-> [m.table EXCEPT ![m.used + 1] = m.table[swapper_pg_dir]],
   used |-> m.used + 1, ptr |-> 0]

task_init ==
  /\ used > 0 /\ pgd[1] = 0
  /\ Becomes(new_root(Now, 0))
  /\ pgd' = [pgd EXCEPT ![1] = used + 1]

\* do_page_fault gives page v of task p a frame, its first or a copy.
page_fault(p, v) ==
  /\ pgd[p] # 0
  /\ \E f \in Frames, perm \in Perms :
       Becomes(create_mapping(Now, pgd[p], v, f, 1, perm))
  /\ UNCHANGED pgd

\* Mutant: the cleared bit reaches the child's entry only.
share_ChildOnly(m, parent, child, v) ==
  IF ~ checkValid(m.table, v, parent) THEN m
  ELSE LET e == entry(m.table, parent, v)
       IN create_mapping(m, child, v, e.ppn, 1, e.perm \ {"W"})

\* One round of the loop of do_cow_fork: W is cleared in the parent's entry,
\* which is then given to the child.
share(m, parent, child, v) ==
  IF ~ checkValid(m.table, v, parent) THEN m
  ELSE LET e2 == m.table[parent][VPN(v, 2)]
           e1 == m.table[e2.ppn][VPN(v, 1)]
           e  == [entry(m.table, parent, v) EXCEPT !.perm = @ \ {"W"}]
       IN create_mapping([m EXCEPT !.table[e1.ppn][VPN(v, 0)] = e], child, v, e.ppn, 1, e.perm)

do_cow_fork(p) ==
  LET child == CHOOSE c \in Pids : pgd[c] = 0 /\ \A d \in Pids : pgd[d] = 0 => c <= d
      root  == used + 1
      after[v \in 0 .. Top] ==
        IF v = 0 THEN new_root(Now, p)
        ELSE IF v - 1 \in UserPages THEN share(after[v - 1], pgd[p], root, v - 1)
        ELSE after[v - 1]
  IN /\ pgd[p] # 0
     /\ \E c \in Pids : pgd[c] = 0
     /\ Becomes(after[Top])
     /\ pgd' = [pgd EXCEPT ![child] = root]

-----------------------------------------------------------------------------
\* The tables the entries of the tables in s lead to.
children(s) ==
  UNION {{table[t][k].ppn : k \in {j \in 0 .. Fanout - 1 : table[t][j] # None}} : t \in s}

\* The tables below a root, with the root.
below(root) == {root} \cup children({root}) \cup children(children({root}))

\* Two tasks share no table but those of the kernel, and create_mapping for a
\* task never lands in one of those: user and kernel pages differ in their
\* first index.
TablesSeparate ==
  \A p, q \in Pids : p # q /\ pgd[p] # 0 /\ pgd[q] # 0 =>
    below(pgd[p]) \cap below(pgd[q]) \subseteq below(swapper_pg_dir)

\* The translations of setup_vm_final: the last region that has the page.
KernelMap ==
  [v \in UNION {Regions[i].va .. Regions[i].va + Regions[i].n - 1 : i \in DOMAIN Regions} |->
     LET i == CHOOSE i \in DOMAIN Regions :
                /\ v \in Regions[i].va .. Regions[i].va + Regions[i].n - 1
                /\ \A j \in DOMAIN Regions :
                     v \in Regions[j].va .. Regions[j].va + Regions[j].n - 1 => j <= i
     IN [ppn |-> Regions[i].pa + v - Regions[i].va, perm |-> Regions[i].perm]]

Spaces ==
  INSTANCE AddressSpaces WITH
    Space    <- 0 .. NR_TASKS - 1,
    UserPage <- UserPages,
    Kernel   <- KernelMap,
    Frame    <- Frames,
    live     <- {p \in Pids : pgd[p] # 0} \cup (IF used > 0 THEN {0} ELSE {}),
    map      <- [s \in 0 .. NR_TASKS - 1 |->
                   [v \in UserPages \cup DOMAIN KernelMap |->
                      IF s # 0 /\ pgd[s] = 0 THEN None
                      ELSE entry(table, IF s = 0 THEN swapper_pg_dir ELSE pgd[s], v)]]

\* The tables implement one translation per task: mapping a page changes the
\* translation of that page for that task and nothing else, the kernel is
\* mapped alike for all, and a fork copies what the parent has.
ImplementsAddressSpaces == Spaces!Spec
=============================================================================
