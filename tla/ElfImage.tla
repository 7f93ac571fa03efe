------------------------------ MODULE ElfImage ------------------------------
(***************************************************************************)
(* The program image at _sramdisk and what proc.c makes of its program     *)
(* headers: the list of areas VMA_init builds, header by header (do_mmap   *)
(* puts each in front), and the pages load_program would fill, the eager   *)
(* loading that demand paging has replaced (nothing calls it any more).    *)
(*                                                                         *)
(* A byte is identified by its position in the file.                       *)
(***************************************************************************)
EXTENDS Integers, Sequences

CONSTANTS
  PGSIZE,
  WORD,       \* addresses and sizes are taken modulo WORD
  SRAMDISK,   \* _sramdisk, page-aligned by vmlinux.lds
  USER_END,
  Images      \* the sequences of program headers the image may have

PT_LOAD == 1

\* The bits of p_flags and of vm_flags; bit 0 of vm_flags is VM_ANON.
Bit(flags, b) == (flags \div 2^b) % 2
PF == [X |-> 0, W |-> 1, R |-> 2]
VM == [R |-> 1, W |-> 2, X |-> 3]
Kinds == {"R", "W", "X"}

Phdr == [p_type : Nat, p_flags : 0 .. 7, p_offset : Nat, p_vaddr : Nat, p_filesz : Nat, p_memsz : Nat]

Loads(image) == {k \in DOMAIN image : image[k].p_type = PT_LOAD}

\* The segments of an executable: as ELF demands, each lies at the same place
\* of a page in the file and in memory, and they come in the order of their
\* addresses; here, below the stack and without wrapping.
ASSUME ImageAssumption ==
  /\ PGSIZE \in Nat \ {0} /\ WORD \in Nat /\ SRAMDISK \in Nat /\ USER_END \in Nat
  /\ SRAMDISK % PGSIZE = 0 /\ USER_END % PGSIZE = 0
  /\ \A image \in Images :
       /\ image \in Seq(Phdr)
       /\ \A k \in Loads(image) :
            LET h == image[k] IN
            /\ 0 < h.p_memsz /\ h.p_filesz <= h.p_memsz
            /\ h.p_vaddr % PGSIZE = h.p_offset % PGSIZE
            /\ h.p_vaddr + h.p_memsz < USER_END - PGSIZE
            /\ SRAMDISK + h.p_offset + h.p_memsz + PGSIZE < WORD
            /\ \A j \in Loads(image) : k < j => h.p_vaddr + h.p_memsz <= image[j].p_vaddr
  /\ USER_END + PGSIZE < WORD

VARIABLES
  phdrs,   \* the program headers
  i,       \* VMA_init: headers dealt with
  mmap,    \* the list of areas, from its head
  phase    \* "vma", "ready", and what becomes of a fault: "loaded" or "stopped"

PGROUNDUP(a)   == ((a + PGSIZE - 1) \div PGSIZE) * PGSIZE
PGROUNDDOWN(a) == (a \div PGSIZE) * PGSIZE

ImageInit ==
  /\ phdrs \in Images
  /\ i = 0
  /\ mmap = <<>>
  /\ phase = "vma"

-----------------------------------------------------------------------------
\* A node of the list, without its links: mmap has their order.
vm_area_struct(addr, len, vm_pgoff, vm_filesz, flags) ==
  [vm_start |-> addr, vm_end |-> addr + len, vm_flags |-> flags,
   vm_pgoff |-> vm_pgoff, vm_filesz |-> vm_filesz]

\* Mutant: the node goes to the end of the list.
do_mmap_Last(addr, len, vm_pgoff, vm_filesz, flags) ==
  mmap' = Append(mmap, vm_area_struct(addr, len, vm_pgoff, vm_filesz, flags))

\* do_mmap puts the node in front.
do_mmap(addr, len, vm_pgoff, vm_filesz, flags) ==
  mmap' = <<vm_area_struct(addr, len, vm_pgoff, vm_filesz, flags)>> \o mmap

\* X, W and R of a header moved to where vm_flags has them.
perm(p_flags) == 4 * Bit(p_flags, PF.W) + 2 * Bit(p_flags, PF.R) + 8 * Bit(p_flags, PF.X)

\* One round of the loop of VMA_init.
Header ==
  LET h == phdrs[i + 1] IN
  /\ phase = "vma" /\ i < Len(phdrs)
  /\ i' = i + 1
  /\ IF h.p_type = PT_LOAD
     THEN do_mmap(h.p_vaddr, h.p_memsz, h.p_offset, h.p_filesz, perm(h.p_flags))
     ELSE UNCHANGED mmap
  /\ UNCHANGED <<phdrs, phase>>

\* Its end: the stack, one page that is anonymous, readable and writable.
Stack ==
  /\ phase = "vma" /\ i = Len(phdrs)
  /\ do_mmap(USER_END - PGSIZE, PGSIZE, 0, 0, 7)
  /\ phase' = "ready"
  /\ UNCHANGED <<phdrs, i>>

VMA_init == Header \/ Stack

\* The first area of the list that has a, its end included.
find_vma(a) ==
  {k \in DOMAIN mmap : /\ mmap[k].vm_start <= a /\ a <= mmap[k].vm_end
                       /\ \A j \in 1 .. k - 1 : ~ (mmap[j].vm_start <= a /\ a <= mmap[j].vm_end)}

-----------------------------------------------------------------------------
\* load_program, for header h.
Hole == WORD            \* a byte that was not copied from the file

\* Mutant: i <= file_size.
PVA_OneMore(h, b) ==
  LET k == b - (h.p_vaddr % PGSIZE) IN IF k \in 0 .. h.p_filesz THEN h.p_offset + k ELSE Hole

\* PVA: what the copy loop leaves at byte b of the pages it takes.
PVA(h, b) ==
  LET k == b - (h.p_vaddr % PGSIZE) IN IF k \in 0 .. h.p_filesz - 1 THEN h.p_offset + k ELSE Hole

\* create_mapping maps as many pages as were taken, from the segment's first.
mapped(h, a) ==
  a \in PGROUNDDOWN(h.p_vaddr) .. PGROUNDDOWN(h.p_vaddr) + PGROUNDUP(h.p_memsz) - 1

\* The byte load_program leaves at address a; a later header maps over.
load_program(a) ==
  LET here == {k \in Loads(phdrs) : mapped(phdrs[k], a)} IN
  IF here = {} THEN Hole
  ELSE LET h == phdrs[CHOOSE k \in here : \A j \in here : j <= k]
       IN PVA(h, a - PGROUNDDOWN(h.p_vaddr))
=============================================================================
