--------------------------- MODULE PrivateMemory ---------------------------
(***************************************************************************)
(* What fork and demand paging promise to the user programs: every task has*)
(* a memory of its own.  A page comes into being when its task first       *)
(* touches it, with some content; only a store of the task itself changes  *)
(* it; and a fork gives the child the parent's memory as it is at that     *)
(* moment.  Nothing is said of frames, page tables or reference counts.    *)
(***************************************************************************)
CONSTANTS
  Task,       \* the tasks that may ever exist
  Page,       \* the pages a task may use
  Writable,   \* those it may store to
  Value,      \* the contents of a page
  Untouched   \* a page its task has not touched yet

VARIABLES
  live,       \* the tasks that exist
  mem         \* mem[t][v] is the content of page v of task t

vars == <<live, mem>>

Blank == [v \in Page |-> Untouched]

Init ==
  /\ \E t \in Task : live = {t}
  /\ mem = [t \in Task |-> Blank]

Touch(t, v) ==
  /\ t \in live
  /\ mem[t][v] = Untouched
  /\ \E val \in Value : mem' = [mem EXCEPT ![t][v] = val]
  /\ UNCHANGED live

Store(t, v) ==
  /\ t \in live
  /\ v \in Writable
  /\ mem[t][v] # Untouched
  /\ \E val \in Value : mem' = [mem EXCEPT ![t][v] = val]
  /\ UNCHANGED live

Fork(t, c) ==
  /\ t \in live
  /\ c \in Task \ live
  /\ live' = live \cup {c}
  /\ mem' = [mem EXCEPT ![c] = mem[t]]

Next ==
  \/ \E t \in Task, v \in Page : Touch(t, v) \/ Store(t, v)
  \/ \E t, c \in Task : Fork(t, c)

Spec == Init /\ [][Next]_vars
=============================================================================
