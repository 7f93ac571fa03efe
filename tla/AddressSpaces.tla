--------------------------- MODULE AddressSpaces ---------------------------
(***************************************************************************)
(* What the page tables stand for: a translation per address space, with   *)
(* no word on tables.  Space 0 is the kernel's own.  All spaces agree on   *)
(* the kernel pages, which never change; each task has the user pages for  *)
(* itself; a fork starts the child with its parent's, both without W.      *)
(***************************************************************************)
EXTENDS Naturals

CONSTANTS
  Space,       \* the spaces there may ever be, 0 among them
  UserPage,    \* virtual pages of user programs
  Kernel,      \* Kernel[v] is the translation of the kernel page v
  Frame, Perms,
  None         \* no translation

VARIABLES
  live,        \* the spaces that exist
  map          \* map[s][v]: frame and permissions, or None

vars == <<live, map>>

Fresh    == [v \in UserPage \cup DOMAIN Kernel |-> IF v \in UserPage THEN None ELSE Kernel[v]]
NoSpace  == [v \in UserPage \cup DOMAIN Kernel |-> None]
ReadOnly(e) == IF e = None THEN None ELSE [e EXCEPT !.perm = @ \ {"W"}]

Init ==
  /\ live = {}
  /\ map = [s \in Space |-> NoSpace]

Create(s) ==
  /\ s \in Space \ live
  /\ live' = live \cup {s}
  /\ map' = [map EXCEPT ![s] = Fresh]

Map(s, v) ==
  /\ s \in live \ {0}
  /\ \E f \in Frame, p \in Perms : map' = [map EXCEPT ![s][v] = [ppn |-> f, perm |-> p]]
  /\ UNCHANGED live

Fork(s, c) ==
  /\ s \in live \ {0} /\ c \in Space \ live
  /\ live' = live \cup {c}
  /\ LET shared == [v \in DOMAIN Fresh |-> IF v \in UserPage THEN ReadOnly(map[s][v]) ELSE map[s][v]]
     IN map' = [map EXCEPT ![s] = shared, ![c] = shared]

Next ==
  \E s \in Space : \/ Create(s)
                   \/ \E v \in UserPage : Map(s, v)
                   \/ \E c \in Space : Fork(s, c)

Spec == Init /\ [][Next]_vars
=============================================================================
