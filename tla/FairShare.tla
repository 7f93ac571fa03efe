----------------------------- MODULE FairShare -----------------------------
(***************************************************************************)
(* What the scheduler of arch/riscv/kernel/proc.c promises, with no word   *)
(* on which task it picks: time is handed out in rounds.  A round starts   *)
(* by giving every live task as much credit as its weight; a timer tick    *)
(* takes one unit from the running task; the CPU changes hands only when   *)
(* the running task has used up its credit, and goes to a task that still  *)
(* has some; the next round starts only when nobody has any left.  A new   *)
(* task enters the current round with what its creator has left.           *)
(***************************************************************************)
EXTENDS Naturals

CONSTANTS
  Task,     \* the tasks that may ever exist
  NoTask    \* nobody is running yet

VARIABLES
  live,     \* the tasks that exist
  running,  \* the task that has the CPU, or NoTask
  credit,   \* ticks each task may still use in this round
  weight    \* ticks each task gets per round

vars == <<live, running, credit, weight>>

Exhausted(c) == \A t \in live : c[t] = 0

NewRound(c) == [t \in Task |-> IF t \in live THEN weight[t] ELSE c[t]]

Init ==
  /\ live \in (SUBSET Task) \ {{}}
  /\ running = NoTask
  /\ credit = [t \in Task |-> 0]
  /\ weight \in [Task -> Nat]

\* The first round starts and some task gets the CPU.
Start ==
  /\ running = NoTask
  /\ credit' = NewRound(credit)
  /\ running' \in live
  /\ UNCHANGED <<live, weight>>

\* A tick, after which the running task keeps the CPU, passes it on within
\* the round, or was the last of the round.
Tick ==
  /\ running # NoTask
  /\ credit[running] > 0
  /\ LET used == [credit EXCEPT ![running] = @ - 1] IN
       \/ /\ used[running] > 0
          /\ credit' = used
          /\ running' = running
       \/ /\ used[running] = 0
          /\ ~ Exhausted(used)
          /\ credit' = used
          /\ running' \in {t \in live : used[t] > 0}
       \/ /\ Exhausted(used)
          /\ credit' = NewRound(used)
          /\ running' \in live
  /\ UNCHANGED <<live, weight>>

\* The running task creates t, which inherits its weight and what is left of
\* its credit.
Spawn(t) ==
  /\ running # NoTask
  /\ t \in Task \ live
  /\ live' = live \cup {t}
  /\ credit' = [credit EXCEPT ![t] = credit[running]]
  /\ weight' = [weight EXCEPT ![t] = weight[running]]
  /\ UNCHANGED running

Next == Start \/ Tick \/ \E t \in Task : Spawn(t)

Spec == Init /\ [][Next]_vars
=============================================================================
