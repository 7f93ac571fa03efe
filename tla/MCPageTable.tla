---------------------------- MODULE MCPageTable ----------------------------
(***************************************************************************)
(* Tables of two entries, so eight virtual pages: the lower half for user  *)
(* programs, the upper half for the kernel.  As in setup_vm_final, the     *)
(* last region lies inside the one before it.                              *)
(***************************************************************************)
EXTENDS Boot

MCRegions == <<
  [va |-> 4, pa |-> 0, n |-> 1, perm |-> {"R", "X"}],
  [va |-> 5, pa |-> 1, n |-> 3, perm |-> {"R", "W"}],
  [va |-> 6, pa |-> 2, n |-> 1, perm |-> {"R", "W", "X"}] >>
=============================================================================
