------------------------------- MODULE Sched -------------------------------
(***************************************************************************)
(* The scheduler: arch/riscv/kernel/proc.c (task_init, schedule, switch_to,*)
(* do_timer), the timer branch of trap_handler, clock.c, and what          *)
(* do_cow_fork does to the task table.                                     *)
(*                                                                         *)
(* One hart.  The kernel runs with sstatus.SIE = 0, so a timer interrupt   *)
(* is taken only in user mode and every kernel path below is one step.     *)
(* The timer is one-shot: it fires once per sbi_set_timer.                 *)
(***************************************************************************)
EXTENDS Naturals

CONSTANTS
  NR_TASKS,      \* entries of task[], the idle task included
  PRIORITY_MIN,
  PRIORITY_MAX,
  INIT_TASKS     \* what tasks_number is initialised to; task_init makes that many

Slots == 0 .. NR_TASKS - 1
Pids  == 1 .. NR_TASKS - 1
idle  == 0

ASSUME SizeAssumption ==
  /\ NR_TASKS \in Nat
  /\ INIT_TASKS \in Pids

ASSUME PriorityAssumption ==
  /\ PRIORITY_MIN \in Nat \ {0}
  /\ PRIORITY_MAX \in Nat
  /\ PRIORITY_MIN <= PRIORITY_MAX

VARIABLES
  task,          \* the entries of task[] that are not NULL
  tasks_number,  \* the highest entry schedule() looks at
  current,       \* the running task, an index of task[]
  counter,       \* task[i]->counter
  priority,      \* task[i]->priority
  ra,            \* task[i]->thread.ra: where __switch_to's ret takes the task
  armed          \* a timer event is programmed in the SBI

vars == <<task, tasks_number, current, counter, priority, ra, armed>>

ReturnPoints == {"boot", "__dummy", "__ret_from_fork", "switch_to"}

TypeOK ==
  /\ task \subseteq Slots
  /\ tasks_number \in Pids
  /\ current \in Slots
  /\ counter \in [Slots -> 0 .. PRIORITY_MAX]
  /\ priority \in [Slots -> 0 .. PRIORITY_MAX]
  /\ ra \in [Slots -> ReturnPoints]
  /\ armed \in BOOLEAN

\* task_init, then head.S up to the call of start_kernel.
Init ==
  /\ task = 0 .. INIT_TASKS
  /\ tasks_number = INIT_TASKS
  /\ current = idle
  /\ counter = [i \in Slots |-> 0]
  /\ \E prio \in [1 .. INIT_TASKS -> PRIORITY_MIN .. PRIORITY_MAX] :
       priority = [i \in Slots |-> IF i \in 1 .. INIT_TASKS THEN prio[i] ELSE 0]
  /\ ra = [i \in Slots |-> IF i \in 1 .. INIT_TASKS THEN "__dummy" ELSE "boot"]
  /\ armed = TRUE

-----------------------------------------------------------------------------
\* The scan of schedule(): flag says that some counter is not 0, next is the
\* first of the entries with the largest counter.
flag(c) == \E i \in 1 .. tasks_number : c[i] > 0

next(c) ==
  CHOOSE i \in 1 .. tasks_number :
    \A j \in 1 .. tasks_number : c[j] < c[i] \/ (c[j] = c[i] /\ i <= j)

\* The refill of schedule(), before it calls itself.
refill(c) == [i \in Slots |-> IF i \in 1 .. tasks_number THEN priority[i] ELSE c[i]]

\* switch_to: the outgoing task will resume inside switch_to.
switch_to(n) ==
  /\ current' = n
  /\ ra' = IF n = current THEN ra ELSE [ra EXCEPT ![current] = "switch_to"]

\* Mutant: the refill waits for the running task only, not for all of them.
schedule_EarlyRefill(c) ==
  LET c2 == IF c[current] > 0 THEN c ELSE refill(c) IN
  /\ counter' = c2
  /\ switch_to(next(c2))

\* schedule(), called when the counters are c.
schedule(c) ==
  LET c2 == IF flag(c) THEN c ELSE refill(c) IN
  /\ counter' = c2
  /\ switch_to(next(c2))

\* Mutant: a task that has just used its last tick is not taken off the CPU.
do_timer_NoSwitchAtZero ==
  IF current = idle \/ counter[current] = 0
  THEN schedule(counter)
  ELSE /\ counter' = [counter EXCEPT ![current] = @ - 1]
       /\ UNCHANGED <<current, ra>>

\* Mutant: the counter is tested before it is decremented, and not after.
do_timer_TestFirst ==
  IF current = idle
  THEN schedule(counter)
  ELSE LET c == [counter EXCEPT ![current] = @ - 1] IN
       IF counter[current] = 0
       THEN schedule(c)
       ELSE counter' = c /\ UNCHANGED <<current, ra>>

do_timer ==
  IF current = idle \/ counter[current] = 0
  THEN schedule(counter)
  ELSE LET c == [counter EXCEPT ![current] = @ - 1] IN
       IF c[current] = 0
       THEN schedule(c)
       ELSE counter' = c /\ UNCHANGED <<current, ra>>

-----------------------------------------------------------------------------
\* start_kernel gives the CPU away for good: nothing dispatches idle again.
StartKernel ==
  /\ current = idle
  /\ schedule(counter)
  /\ UNCHANGED <<task, tasks_number, priority, armed>>

\* Mutant: do_timer before clock_set_next_event.  The event is programmed only
\* if do_timer comes back here: to the same task, or to one that left the CPU
\* inside switch_to.
TimerInterrupt_RearmLast ==
  /\ current # idle
  /\ armed
  /\ do_timer
  /\ armed' = (current' = current \/ ra[current'] = "switch_to")
  /\ UNCHANGED <<task, tasks_number, priority>>

\* sbi_set_timer: the firmware withdraws a pending interrupt and raises one
\* when the time comes.
sbi_set_timer == armed' = TRUE

\* The time asked for is a second from now, so it always comes.
clock_set_next_event == sbi_set_timer

\* Supervisor timer interrupt.  The event is programmed again before
\* do_timer, which may leave for a task that does not return through
\* trap_handler.
TimerInterrupt ==
  /\ current # idle
  /\ armed
  /\ clock_set_next_event
  /\ do_timer
  /\ UNCHANGED <<task, tasks_number, priority>>

\* Mutant: any NULL entry, not the first.
FreeSlot_Any(i) == i \in Slots \ task

\* The first NULL entry of task[].
FreeSlot(i) == i \in Slots \ task /\ \A j \in Slots \ task : i <= j

\* do_cow_fork, the task table: the child is a copy of the parent's
\* task_struct.
Fork ==
  /\ current # idle
  /\ \/ \E i \in Slots :
          /\ FreeSlot(i)
          /\ task' = task \cup {i}
          /\ tasks_number' = i
          /\ counter' = [counter EXCEPT ![i] = counter[current]]
          /\ priority' = [priority EXCEPT ![i] = priority[current]]
          /\ ra' = [ra EXCEPT ![i] = "__ret_from_fork"]
          /\ UNCHANGED <<current, armed>>
     \/ /\ Slots \subseteq task        \* the table is full: return -1
        /\ UNCHANGED vars

Next == StartKernel \/ TimerInterrupt \/ Fork

Spec == Init /\ [][Next]_vars

\* start_kernel runs once the machine is up; a programmed timer fires.
Fairness == WF_vars(StartKernel) /\ WF_vars(TimerInterrupt)

FairSpec == Spec /\ Fairness

-----------------------------------------------------------------------------
\* schedule() dereferences task[1] .. task[tasks_number], and do_cow_fork
\* moves tasks_number down to any hole it finds: the entries in use are
\* exactly those schedule() looks at, so no entry is NULL when it is read and
\* no task drops out of the scan.
TableDense == task = 0 .. tasks_number

\* Whoever is in user mode has credit left, so once start_kernel has handed
\* over, do_timer never finds a task at 0 (its first test is dead code) and
\* never takes a counter below 0, which is unsigned in the code.
RunningHasCredit == current # idle => current \in 1 .. tasks_number /\ counter[current] > 0

\* Every task that exists is given the CPU again and again.
EveryTaskRuns == \A i \in Pids : i \in task ~> current = i

\* The rounds of FairShare: the CPU moves only when the running task has used
\* its counter up, and counters are refilled only when all of them are 0.
Shares ==
  INSTANCE FairShare WITH
    Task    <- Pids,
    NoTask  <- idle,
    live    <- task \ {idle},
    running <- current,
    credit  <- [i \in Pids |-> counter[i]],
    weight  <- [i \in Pids |-> priority[i]]

ImplementsFairShare == Shares!Spec
=============================================================================
