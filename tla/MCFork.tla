------------------------------- MODULE MCFork -------------------------------
(***************************************************************************)
(* EagerFork with a program of MCCow and two areas that adjoin: at the     *)
(* address 8 the child of do_fork finds the other one.                     *)
(***************************************************************************)
EXTENDS EagerFork, MCCow

MCForkmmap == << Area(8, 10, {"R", "W"}), Area(6, 8, {"R", "W"}) >>

\* The image meets what the theorems of CowProofs ask of it.
ASSUME ForkImageAssumption == AreasApart /\ AnyOrder
=============================================================================
