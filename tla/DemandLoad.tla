----------------------------- MODULE DemandLoad -----------------------------
(***************************************************************************)
(* The first access to a page of a program: the list of areas VMA_init has *)
(* made of the ELF image (ElfImage), the choice of an area and the test of *)
(* its flags in do_page_fault (trap.c), and the address arithmetic on      *)
(* unsigned words that fills a fresh page from the file at _sramdisk.      *)
(*                                                                         *)
(* One fault per behaviour.  A page is a function from the offsets in it to*)
(* the positions in the file its bytes were copied from.                   *)
(***************************************************************************)
EXTENDS ElfImage

VARIABLES
  VMA_VA,  \* the address that faulted
  kind,    \* the access: scause 13, 15 or 12
  page     \* the fresh page

vars == <<phdrs, i, mmap, phase, VMA_VA, kind, page>>

Offsets == 0 .. PGSIZE - 1

Init ==
  /\ ImageInit
  /\ VMA_VA = 0
  /\ kind = "R"
  /\ page = [k \in Offsets |-> Hole]

-----------------------------------------------------------------------------
start_elf_va(ptr) == SRAMDISK + ptr.vm_pgoff
end_elf_va(ptr)   == SRAMDISK + ptr.vm_pgoff + ptr.vm_filesz

\* The test for the page the segment starts in.
InFirstPage(ptr, va) ==
  PGROUNDUP(start_elf_va(ptr)) = PGROUNDUP(va - ptr.vm_start + start_elf_va(ptr))

\* Mutant: from the address that faulted.
start_copy_AtFault(ptr, va) ==
  IF InFirstPage(ptr, va) THEN start_elf_va(ptr) ELSE start_elf_va(ptr) + va - ptr.vm_start

start_copy(ptr, va) ==
  IF InFirstPage(ptr, va) THEN start_elf_va(ptr)
  ELSE start_elf_va(ptr) + PGROUNDDOWN(va) - ptr.vm_start

offset(ptr, va) == IF InFirstPage(ptr, va) THEN ptr.vm_start % PGSIZE ELSE 0

\* The length given to memcpy, 0 where it is not called.  What a longer copy does
\* past the page is not followed.
copied(ptr, va) ==
  LET from == start_copy(ptr, va)
      end  == end_elf_va(ptr) IN
  IF from <= end /\ end <= from + PGSIZE THEN (end - from - offset(ptr, va)) % WORD
  ELSE IF end > from + PGSIZE THEN PGSIZE - offset(ptr, va)
  ELSE 0

memcpy(ptr, va) ==
  [k \in Offsets |-> IF k \in offset(ptr, va) .. offset(ptr, va) + copied(ptr, va) - 1
                     THEN start_copy(ptr, va) - SRAMDISK + k - offset(ptr, va)
                     ELSE page[k]]

\* do_page_fault on an address without an entry; untrapped_handler does not
\* come back.
do_page_fault(va, access) ==
  /\ phase = "ready"
  /\ VMA_VA' = va
  /\ kind' = access
  /\ \/ \E k \in find_vma(va) :
          LET ptr == mmap[k] IN
          /\ Bit(ptr.vm_flags, VM[access]) = 1
          /\ phase' = "loaded"
          /\ page' = IF Bit(ptr.vm_flags, 0) = 1 THEN page ELSE memcpy(ptr, va)
     \/ /\ \A k \in find_vma(va) : Bit(mmap[k].vm_flags, VM[access]) = 0
        /\ phase' = "stopped"
        /\ UNCHANGED page
  /\ UNCHANGED <<phdrs, i, mmap>>

Next ==
  \/ VMA_init /\ UNCHANGED <<VMA_VA, kind, page>>
  \/ \E va \in 0 .. USER_END, access \in Kinds : do_page_fault(va, access)

Spec == Init /\ [][Next]_vars

-----------------------------------------------------------------------------
\* The segment of the image that VMA_VA lies in; none or one.
Segment == {phdrs[k] : k \in {j \in Loads(phdrs) : /\ phdrs[j].p_vaddr <= VMA_VA
                                                    /\ VMA_VA < phdrs[j].p_vaddr + phdrs[j].p_memsz}}

InStack == USER_END - PGSIZE <= VMA_VA /\ VMA_VA < USER_END

\* Inside a segment an access is allowed if and only if the program header of
\* that very segment allows it, also where one area ends at the address the
\* next begins with (find_vma takes both ends and the list is searched from
\* the header read last); the stack can be read and written.
AccessRight ==
  /\ \A h \in Segment : phase = "loaded" => Bit(h.p_flags, PF[kind]) = 1
  /\ \A h \in Segment : phase = "stopped" => Bit(h.p_flags, PF[kind]) = 0
  /\ InStack /\ phase \in {"loaded", "stopped"} => (phase = "loaded") = (kind # "X")

\* What the page is to hold: the file's bytes of the segment appear at its
\* address (proc.h:34), and the rest of the page is no file's.
Wanted ==
  [k \in Offsets |->
     LET va == PGROUNDDOWN(VMA_VA) + k
         h  == CHOOSE s \in Segment : TRUE IN
     IF h.p_vaddr <= va /\ va < h.p_vaddr + h.p_filesz THEN h.p_offset + va - h.p_vaddr
     ELSE Hole]

Filled == phase = "loaded" /\ Segment # {}

\* The first page of a segment that starts on a page boundary, and every page
\* the code takes for a later one, get exactly their bytes of the file,
\* whatever address in them faults and wherever the file's bytes end.
LoadedRight ==
  \A h \in Segment :
    /\ phase = "loaded"
    /\ \/ h.p_vaddr % PGSIZE = 0
       \/ PGROUNDUP(SRAMDISK + h.p_offset) # PGROUNDUP(VMA_VA - h.p_vaddr + SRAMDISK + h.p_offset)
    => page = Wanted

\* proc.h:34-35, whatever the alignment: every page a fault fills holds the
\* bytes of the file that belong in it.
SegmentRight == Filled => page = Wanted

\* Page by page on demand, a program whose segments start on page boundaries
\* gets the memory load_program gave it all at once.
LoadsAgree ==
  Filled /\ (\A k \in Loads(phdrs) : phdrs[k].p_vaddr % PGSIZE = 0) =>
    \A k \in Offsets : page[k] = load_program(PGROUNDDOWN(VMA_VA) + k)
=============================================================================
