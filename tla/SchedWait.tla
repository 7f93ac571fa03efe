----------------------------- MODULE SchedWait -----------------------------
(***************************************************************************)
(* Sched with a history variable: how many ticks each task has been waiting*)
(* for the CPU.                                                            *)
(***************************************************************************)
EXTENDS Sched

VARIABLE waited

WInit == Init /\ waited = [i \in Slots |-> 0]

WNext ==
  \/ /\ TimerInterrupt
     /\ waited' = [i \in Slots |->
                     IF i \in task /\ i \notin {idle, current, current'}
                     THEN waited[i] + 1
                     ELSE 0]
  \/ /\ StartKernel \/ Fork
     /\ UNCHANGED waited

WSpec == WInit /\ [][WNext]_<<vars, waited>> /\ Fairness

\* A task waits less than two turns of each of the n others: what they have
\* left in this round and a turn of each in the next, wherever a fork puts the
\* child among them.  No smaller figure will do for this instance.
WaitBounded ==
  LET n == NR_TASKS - 2 IN
  \A i \in Pids : waited[i] <= (2 * n - 1) * PRIORITY_MAX - n
=============================================================================
