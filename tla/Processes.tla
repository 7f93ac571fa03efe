----------------------------- MODULE Processes -----------------------------
(***************************************************************************)
(* What trap handling promises to user programs: a trap changes nothing of *)
(* the program it interrupts, except that a system call steps over its     *)
(* ecall and leaves a result in a0.  Other tasks may run in between.  A    *)
(* forked task goes on where its parent does, with everything the parent   *)
(* has but 0 in a0.                                                        *)
(***************************************************************************)
EXTENDS Naturals

CONSTANTS
  Task,     \* the tasks that may ever exist
  Context,  \* what a program may make of its registers: [pc, sp, a0, rest]
  Result    \* what a system call may return

VARIABLES
  live,     \* the tasks that exist
  running,  \* the task that has the CPU
  mode,     \* "user"; the cause of a trap; "return" once it has been served
  ctx       \* ctx[t]: the registers task t has or will find

vars == <<live, running, mode, ctx>>

Init ==
  /\ \E t \in Task : live = {t} /\ running = t
  /\ mode = "return"
  /\ ctx \in [Task -> [{"pc", "sp", "a0", "rest"} -> Nat]]

Run ==
  /\ mode = "user"
  /\ \E c \in Context : ctx' = [ctx EXCEPT ![running] = c]
  /\ UNCHANGED <<live, running, mode>>

Trap ==
  /\ mode = "user"
  /\ mode' \in {"timer", "ecall", "other"}
  /\ UNCHANGED <<live, running, ctx>>

Tick ==
  /\ mode = "timer"
  /\ running' \in live
  /\ mode' = "return"
  /\ UNCHANGED <<live, ctx>>

\* The result is a0 itself for a call nobody knows.
Call ==
  /\ mode = "ecall"
  /\ \E r \in Result \cup {ctx[running].a0} :
       ctx' = [ctx EXCEPT ![running].pc = @ + 4, ![running].a0 = r]
  /\ mode' = "return"
  /\ UNCHANGED <<live, running>>

Fork ==
  /\ mode = "ecall"
  /\ \E c \in Task \ live :
       /\ live' = live \cup {c}
       /\ ctx' = [ctx EXCEPT ![running].pc = @ + 4, ![running].a0 = c,
                             ![c] = [ctx[running] EXCEPT !.pc = @ + 4, !.a0 = 0]]
  /\ mode' = "return"
  /\ UNCHANGED running

\* A page fault, or an exception or interrupt the kernel has no use for.
Ignore ==
  /\ mode = "other"
  /\ mode' = "return"
  /\ UNCHANGED <<live, running, ctx>>

Return ==
  /\ mode = "return"
  /\ mode' = "user"
  /\ UNCHANGED <<live, running, ctx>>

Next == Run \/ Trap \/ Tick \/ Call \/ Fork \/ Ignore \/ Return

Spec == Init /\ [][Next]_vars
=============================================================================
