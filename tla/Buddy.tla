------------------------------- MODULE Buddy -------------------------------
(***************************************************************************)
(* The buddy allocator and the page reference counts of                    *)
(* arch/riscv/kernel/mm.c.  bitmap is a complete binary tree in an array:  *)
(* node 0 stands for all pages, the last size nodes for one page each, and *)
(* bitmap[i] is the longest run that can be taken under node i.            *)
(*                                                                         *)
(* Kernel code runs with interrupts off, so each call is one step.  The    *)
(* callers use get_page and put_page on pages they were given and free a   *)
(* page through its references only; kfree has no caller so far.           *)
(***************************************************************************)
EXTENDS Naturals

CONSTANTS
  size,       \* buddy.size
  reserved,   \* pages below free_page_start
  Requests,   \* values of nrpages
  MaxRef      \* bound of the model: get_page is not called above it

\* The powers of two.
pow2[k \in Nat] == IF k = 0 THEN 1 ELSE 2 * pow2[k - 1]

ASSUME BuddyAssumption ==
  /\ size \in Nat /\ \E k \in 1 .. size : size = pow2[k]
  /\ reserved \in 1 .. size
  /\ Requests \subseteq Nat
  /\ MaxRef \in Nat \ {0}

Nodes == 0 .. 2 * size - 2
Pfns  == 0 .. size - 1

VARIABLES
  bitmap,    \* buddy.bitmap
  ref_cnt,   \* buddy.ref_cnt
  booted,    \* pages reserved so far by the loop of buddy_init
  ret        \* what the last buddy_alloc returned

vars == <<bitmap, ref_cnt, booted, ret>>

LEFT_LEAF(i)  == 2 * i + 1
RIGHT_LEAF(i) == 2 * i + 2
PARENT(i)     == (i + 1) \div 2 - 1
MAX(a, b)     == IF a > b THEN a ELSE b

\* The loop of buddy_init: the pages under node i.
node_size[i \in Nodes] == IF i = 0 THEN size ELSE node_size[PARENT(i)] \div 2

\* The least power of two that is at least n; buddy_alloc(0) means 1.
fixsize(n) == CHOOSE p \in {pow2[k] : k \in 0 .. n} : p >= n /\ (p = 1 \/ p < 2 * n)

TypeOK ==
  /\ bitmap \in [Nodes -> 0 .. size]
  /\ ref_cnt \in [Pfns -> 0 .. MaxRef]
  /\ booted \in 0 .. reserved
  /\ ret \in Pfns

Init ==
  /\ bitmap = node_size
  /\ ref_cnt = [p \in Pfns |-> 0]
  /\ booted = 0
  /\ ret = 0

-----------------------------------------------------------------------------
\* i and the nodes above it.
Path[i \in Nodes] == IF i = 0 THEN {0} ELSE {i} \cup Path[PARENT(i)]

\* The loop at the end of buddy_alloc: node i becomes 0, those above follow.
Taking(i) ==
  LET up[j \in Nodes] ==
        IF j = i THEN 0
        ELSE IF j \in Path[i] THEN MAX(up[LEFT_LEAF(j)], up[RIGHT_LEAF(j)])
        ELSE bitmap[j]
  IN up

\* Mutant: node_size is doubled once too often.
Returning_Double(i) ==
  LET up[j \in Nodes] ==
        IF j = i THEN 2 * node_size[i]
        ELSE IF j \in Path[i] THEN MAX(up[LEFT_LEAF(j)], up[RIGHT_LEAF(j)])
        ELSE bitmap[j]
  IN up

\* The loop at the end of buddy_free: node i becomes whole, and so does a
\* node above when both its halves are.
Returning(i) ==
  LET up[j \in Nodes] ==
        IF j = i THEN node_size[i]
        ELSE IF j \notin Path[i] THEN bitmap[j]
        ELSE LET l == up[LEFT_LEAF(j)]
                 r == up[RIGHT_LEAF(j)]
             IN IF l + r = node_size[j] THEN node_size[j] ELSE MAX(l, r)
  IN up

\* Mutant: to the right if there is room, so that pages come from the top.
Descend_Right(n) ==
  LET down[i \in {j \in Nodes : node_size[j] >= n}] ==
        IF node_size[i] = n THEN i
        ELSE IF bitmap[RIGHT_LEAF(i)] >= n THEN down[RIGHT_LEAF(i)]
        ELSE down[LEFT_LEAF(i)]
  IN down[0]

\* The search of buddy_alloc, from the root: to the left if there is room.
Descend(n) ==
  LET down[i \in {j \in Nodes : node_size[j] >= n}] ==
        IF node_size[i] = n THEN i
        ELSE IF bitmap[LEFT_LEAF(i)] >= n THEN down[LEFT_LEAF(i)]
        ELSE down[RIGHT_LEAF(i)]
  IN down[0]

\* The search of buddy_free, from the leaf of pfn to the first node that is
\* 0, the one buddy_alloc took.  (From a free page it would end past the root;
\* nobody frees one.)
Climb(pfn) ==
  LET up[i \in Nodes] == IF bitmap[i] = 0 \/ i = 0 THEN i ELSE up[PARENT(i)]
  IN up[pfn + size - 1]

\* Mutant: a page is freed under those who still refer to it.
buddy_free_InUse(pfn, refs) == Returning(Climb(pfn))

\* buddy_free turns back where a reference is left.
buddy_free(pfn, refs) == IF refs[pfn] > 0 THEN bitmap ELSE Returning(Climb(pfn))

first_page(i) == (i + 1) * node_size[i] - size

\* buddy_alloc; 0 says that there is no room.
buddy_alloc(nrpages) ==
  LET n == fixsize(nrpages) IN
  IF bitmap[0] < n
  THEN ret' = 0 /\ UNCHANGED <<bitmap, ref_cnt>>
  ELSE LET i == Descend(n) IN
       /\ bitmap' = Taking(i)
       /\ ref_cnt' = [ref_cnt EXCEPT ![first_page(i)] = 1]
       /\ ret' = first_page(i)

-----------------------------------------------------------------------------
\* buddy_init takes the pages up to free_page_start, which are the lowest.
Reserve ==
  /\ booted < reserved
  /\ booted' = booted + 1
  /\ buddy_alloc(1)

\* alloc_pages, alloc_page, kalloc.
AllocPages ==
  /\ booted = reserved
  /\ \E n \in Requests : buddy_alloc(n)
  /\ UNCHANGED booted

\* The pages in use that were handed out after buddy_init.
InUse == {p \in Pfns : p >= reserved /\ ref_cnt[p] > 0}

GetPage ==
  /\ booted = reserved
  /\ \E p \in InUse : ref_cnt[p] < MaxRef /\ ref_cnt' = [ref_cnt EXCEPT ![p] = @ + 1]
  /\ UNCHANGED <<bitmap, booted, ret>>

\* put_page: page_ref_dec and, at 0, buddy_free.
PutPage ==
  /\ booted = reserved
  /\ \E p \in InUse :
       /\ ref_cnt' = [ref_cnt EXCEPT ![p] = @ - 1]
       /\ bitmap' = buddy_free(p, ref_cnt')
  /\ UNCHANGED <<booted, ret>>

\* kfree, free_pages and each round of kfreerange, on a page in use: the
\* reference that comes with every page keeps it where it is.
KFree ==
  /\ booted = reserved
  /\ \E p \in InUse : bitmap' = buddy_free(p, ref_cnt)
  /\ UNCHANGED <<ref_cnt, booted, ret>>

Next == Reserve \/ AllocPages \/ GetPage \/ PutPage \/ KFree

Spec == Init /\ [][Next]_vars

-----------------------------------------------------------------------------
\* The nodes buddy_alloc took for the runs in use.
Blocks == {Climb(p) : p \in {q \in Pfns : ref_cnt[q] > 0}}

\* The entry of a node that is not inside a run in use is the length of the
\* longest run that can be had under it, by definition: the tree loses no
\* page and invents none, however calls interleave.
BitmapIsLongest ==
  \A i \in Nodes : Path[i] \cap Blocks \subseteq {i} =>
    LET fit == {j \in Nodes : i \in Path[j] /\ \A b \in Blocks : b \notin Path[j] /\ j \notin Path[b]}
    IN bitmap[i] = IF fit = {} THEN 0
                   ELSE CHOOSE n \in {node_size[j] : j \in fit} : \A j \in fit : node_size[j] <= n

\* The allocator keeps the promises of PageAllocator.  Its initial state is
\* what buddy_init must come to: the pages below reserved, one by one, and no
\* other, although the loop does not say which pages it wants.
length ==
  [p \in Pfns |-> IF booted < reserved THEN IF p < reserved THEN 1 ELSE 0
                  ELSE IF ref_cnt[p] > 0 THEN node_size[Climb(p)] ELSE 0]

Allocator ==
  INSTANCE PageAllocator WITH
    Request <- {fixsize(n) : n \in Requests},
    refs    <- IF booted < reserved THEN length ELSE ref_cnt,
    ret     <- IF booted < reserved THEN reserved - 1 ELSE ret

ImplementsPageAllocator == Allocator!Spec
=============================================================================
