------------------------------ MODULE MCKernel ------------------------------
(***************************************************************************)
(* A small instance of Kernel: a program with a text area and, on the next *)
(* page, two data areas, as a linker that does not align segments to pages *)
(* places them.  Two addresses per page; text ends where data begins, and  *)
(* the area made last is first in the list.                                *)
(***************************************************************************)
EXTENDS Kernel

Area(start, end, flags) == [vm_start |-> start, vm_end |-> end, vm_flags |-> flags]
Do(kind, addr) == [kind |-> kind, addr |-> addr]

MCmmap == << Area(5, 6, {"R", "W"}), Area(4, 5, {"R", "W"}), Area(3, 4, {"R", "X"}) >>
MCProgram == {Do("X", 3), Do("W", 4), Do("R", 5)}

\* The image meets what the theorems of KernelProofs ask of it: the two data
\* areas have a page in common, with the same permissions.
ASSUME ImageAssumption == M!AreasDescend /\ M!SamePermission
=============================================================================
