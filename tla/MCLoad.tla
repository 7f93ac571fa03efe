------------------------------- MODULE MCLoad -------------------------------
(***************************************************************************)
(* DemandLoad over small images: pages of 4 bytes; every single segment    *)
(* that starts in the first two pages and has up to 10 bytes, with all     *)
(* lengths in the file; and images with two segments that adjoin, on a page*)
(* boundary or inside a page, or lie apart, with all permissions and a     *)
(* header of another type around them.                                     *)
(***************************************************************************)
EXTENDS DemandLoad

Load(flags, offset0, vaddr, filesz, memsz) ==
  [p_type |-> PT_LOAD, p_flags |-> flags, p_offset |-> offset0, p_vaddr |-> vaddr,
   p_filesz |-> filesz, p_memsz |-> memsz]

Note == [Load(7, 1, 5, 3, 3) EXCEPT !.p_type = 4]

MCSingles ==
  {<<h>> : h \in {Load(4, o, v, f, m) : <<o, v, f, m>> \in
                  {s \in (0 .. 7) \X (0 .. 7) \X (0 .. 10) \X (1 .. 10) :
                     s[3] <= s[4] /\ s[1] % PGSIZE = s[2] % PGSIZE}}}

MCPairs ==
  {<<Note, Load(a, 4, 4, 4, 4), Load(b, 8, 8, 2, 6)>> : a, b \in 0 .. 7}
  \cup {<<Load(a, 4, 4, 3, 3), Note, Load(b, 7, 7, 2, 6)>> : a, b \in 0 .. 7}
  \cup {<<Load(a, 4, 0, 5, 6), Load(b, 0, 12, 4, 5), Note>> : a, b \in 0 .. 7}

MCImages == MCSingles \cup MCPairs
=============================================================================
