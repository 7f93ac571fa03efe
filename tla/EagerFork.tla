----------------------------- MODULE EagerFork ------------------------------
(***************************************************************************)
(* The two implementations of fork in syscall.c: do_cow_fork, which        *)
(* trap_handler calls, and do_fork, which it replaced and which has the    *)
(* same interface: it copies each mapped page at once.                     *)
(*                                                                         *)
(* The child's task_struct is a copy of the parent's, list head included,  *)
(* and do_fork puts an area at the head of that list for each it visits:   *)
(* the child has the parent's areas in reverse, and after them the parent's*)
(* list.  A fork of the child visits, and copies, each page twice as often,*)
(* and where areas adjoin find_vma may answer otherwise than in the parent.*)
(***************************************************************************)
EXTENDS CowMemory, SequencesExt

CONSTANT Calls   \* the implementations to choose from

VARIABLES
  call,     \* the one that is built in
  lists     \* lists[p]: the VMA list of p, of indices of mmap

forkVars == <<vars, call, lists>>

ForkInit ==
  /\ Init
  /\ call \in Calls
  /\ lists = [p \in Pids |-> [i \in 1 .. Len(mmap) |-> i]]

-----------------------------------------------------------------------------
\* The positions of a list whose area is in S.
Places(list, S) == {k \in DOMAIN list : list[k] \in S}

\* find_vma in the list of one task.
find_vma_in(list, a) ==
  {list[k] : k \in {n \in Places(list, Containing(a)) :
                      \A l \in Places(list, Containing(a)) : n <= l}}

\* Frames for the child's pages.  Of the pages taken for one address, the one
\* taken last stays mapped.
NewFrames(rc) ==
  CHOOSE f \in [Shared -> {g \in Frames : rc[g] = 0}] :
    \A v, u \in Shared : f[v] = f[u] => v = u

\* Mutant: the child's page is mapped before it is copied to.
Source_New(v, new) == new

\* The kernel reads the page through its user address.
Source(v, new) == IF tlb[v] # Invalid THEN tlb[v].frame ELSE pgd[current][v].frame

\* The areas that have page v.
AreasOf(v) == {i \in Vmas : v \in vma_pages(i)}

\* Permissions come from the area, not from the parent's entry: from the one
\* visited last of those that have the page.
AreaPerm(v) ==
  LET list == lists[current]
      last == CHOOSE k \in Places(list, AreasOf(v)) :
                \A l \in Places(list, AreasOf(v)) : l <= k
  IN mmap[list[last]].vm_flags

\* The visits of the loop to a mapped page: pairs of list position and page.
Copies(list) == {e \in (DOMAIN list) \X Shared : e[2] \in vma_pages(list[e[1]])}

\* Pages taken for the lot: a list node for each area, and a copy each visit.
PagesFor(list) == Len(list) + Cardinality(Copies(list))

CopyAll ==
  LET child == tasks_number + 1
      new   == NewFrames(ref_cnt)
      kept  == {new[v] : v \in Shared}
      need  == PagesFor(lists[current]) IN
  /\ child \in Pids
  /\ IF Room(2 + Cardinality(UNION {tables(v) : v \in Shared}) + need)
     THEN /\ tasks_number' = child
          /\ pgd' = [pgd EXCEPT ![child] =
                       [v \in Pages |-> IF v \in Shared
                                        THEN [frame |-> new[v], perm |-> AreaPerm(v)]
                                        ELSE Invalid]]
          /\ ref_cnt' = [f \in Frames |-> IF f \in kept THEN 1 ELSE ref_cnt[f]]
          /\ content' = [f \in Frames |->
                           IF f \in kept
                           THEN LET v == CHOOSE u \in Shared : new[u] = f
                                IN content[Source(v, f)]
                           ELSE content[f]]
          \* with what is lost, the list nodes, which nobody gives back either
          /\ lost' = lost + need - Cardinality(Shared)
          /\ UNCHANGED <<current, tlb, pend, halted>>
     ELSE Halt("oom", NoAccess)

do_fork ==
  /\ halted = "no" /\ pend[current] = NoAccess
  /\ ForkFails \/ CopyAll

\* The list a child gets: the parent's, with do_fork behind its reverse.
Inherited ==
  IF call = "do_fork" THEN Reverse(lists[current]) \o lists[current] ELSE lists[current]

Fork ==
  /\ (call = "do_fork" /\ do_fork) \/ (call = "do_cow_fork" /\ do_cow_fork)
  /\ lists' = IF tasks_number' = tasks_number THEN lists
              ELSE [lists EXCEPT ![tasks_number'] = Inherited]
  /\ UNCHANGED call

\* The faulting task's own list is searched.
ForkFault(x) == do_page_fault(x, find_vma_in(lists[current], x.addr))

ForkNext ==
  \/ Fork
  \/ /\ \/ \E x \in Program : Access(x) \/ ForkFault(x)
        \/ \E t \in Pids : Switch(t)
        \/ Spin
     /\ UNCHANGED <<call, lists>>

ForkSpec == ForkInit /\ [][ForkNext]_forkVars

-----------------------------------------------------------------------------
\* SamePermission whatever the order of the list: where areas have a page in
\* common, or one ends where the other begins, they give the same permissions.
AnyOrder ==
  /\ \A i, j \in Vmas : vma_pages(i) \cap vma_pages(j) # {} => mmap[i].vm_flags = mmap[j].vm_flags
  /\ \A x \in Program : \A i \in Containing(x.addr), j \in Vmas :
       PageOf(x.addr) \in vma_pages(j) => mmap[i].vm_flags = mmap[j].vm_flags
=============================================================================
