------------------------------- MODULE MCCow -------------------------------
(***************************************************************************)
(* Small instances of CowMemory: a program image with a text area and a    *)
(* stack area, as VMA_init makes them, and programs that use both.         *)
(***************************************************************************)
EXTENDS CowMemory

Area(start, end, flags) == [vm_start |-> start, vm_end |-> end, vm_flags |-> flags]
Do(kind, addr) == [kind |-> kind, addr |-> addr]

\* Two addresses per page.  do_mmap puts the stack area, made last, first in
\* the list; the text area starts inside its page.
MCmmap == << Area(8, 10, {"R", "W"}), Area(3, 4, {"R", "X"}) >>

\* A program that uses its stack, and one that uses its text too.
MCStackOnly    == {Do("R", 8), Do("W", 9)}
MCStackAndText == MCStackOnly \cup {Do("X", 3)}

\* A program that makes one store outside every area.
MCBadStore == MCStackOnly \cup {Do("W", 20)}

\* The image meets what the theorems of CowProofs ask of it.
ASSUME ImageAssumption == AreasApart /\ AreasDescend /\ SamePermission
=============================================================================
