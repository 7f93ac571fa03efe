------------------------------- MODULE Kernel -------------------------------
(***************************************************************************)
(* The scheduler and user memory together: one task table, one running     *)
(* task.  A timer interrupt is a step of Sched, and when it moves the CPU  *)
(* to another task it is also the Switch of CowMemory; a fork is a step of *)
(* both; accesses and page faults are steps of CowMemory alone.  That the  *)
(* CPU comes back to a task that waits to retry its access is not assumed  *)
(* here: it is what the scheduler does.                                    *)
(***************************************************************************)
EXTENDS Naturals, Sequences, FiniteSets

CONSTANTS
  NR_TASKS, PRIORITY_MIN, PRIORITY_MAX,
  NPages, PGSIZE, Fanout, mmap, Program, Values, Untouched, StrictTlb

VARIABLES
  task, tasks_number, current, counter, priority, ra, armed,
  pgd, ref_cnt, content, lost, tlb, pend, halted

schedVars  == <<task, tasks_number, current, counter, priority, ra, armed>>
memoryVars == <<pgd, ref_cnt, content, lost, tlb, pend, halted>>
vars       == <<schedVars, memoryVars>>

S == INSTANCE Sched WITH INIT_TASKS <- 1

\* The first task to run is task 1, whose memory the hart finds untouched.
M == INSTANCE CowMemory WITH current <- IF current = 0 THEN 1 ELSE current

\* The constants are ones both parts can run with.
ASSUME SchedAssumption  == S!SizeAssumption /\ S!PriorityAssumption
ASSUME MemoryAssumption == M!SizeAssumption /\ M!ProgramAssumption

Init == S!Init /\ M!Init

StartKernel == S!StartKernel /\ UNCHANGED memoryVars

\* A tick, and a tick that ends the task's turn.  The kernel that has stopped
\* runs with interrupts off.
Tick ==
  /\ halted = "no"
  /\ S!TimerInterrupt
  /\ current' = current
  /\ UNCHANGED memoryVars

Switch ==
  /\ S!TimerInterrupt
  /\ current' # current
  /\ M!Switch(current')

\* The user program makes an access, which may fault.
UserAccess(x) ==
  /\ current # 0
  /\ UNCHANGED schedVars
  /\ M!Access(x) \/ M!PageFault(x)

\* do_cow_fork reaches its end, or stops where memory is out.
Fork ==
  \/ S!Fork /\ M!do_cow_fork /\ halted' = "no"
  \/ /\ current # 0
     /\ UNCHANGED schedVars
     /\ M!do_cow_fork /\ halted' # "no"

Spin == halted # "no" /\ UNCHANGED vars

Next ==
  \/ StartKernel
  \/ Tick \/ Switch
  \/ \E x \in Program : UserAccess(x)
  \/ Fork
  \/ Spin

Spec == Init /\ [][Next]_vars

\* The running task goes on with the access that faulted.
Retry(p) == current = p /\ \E x \in Program : x = pend[p] /\ UserAccess(x)

\* start_kernel runs once the machine is up; a programmed timer fires; and a
\* time slice of a second is long enough for one instruction.
Fairness ==
  /\ WF_vars(StartKernel)
  /\ WF_vars(Tick \/ Switch)
  /\ \A p \in M!Pids : SF_vars(Retry(p))

FairSpec == Spec /\ Fairness

-----------------------------------------------------------------------------
TypeOK == S!TypeOK /\ M!TypeOK

\* Nobody ends up in untrapped_handler for a legal access, wherever the timer
\* and forks come between a fault and its retry (trap.c:233).
StoppedOnlyIfIllegal == M!StoppedOnlyIfIllegal

\* Two areas on one page: references cover the entries (syscall.c:247), and a
\* task can store only to pages that no other entry leads to.
RefCovers == M!RefCovers
WritableIsExclusive == M!WritableIsExclusive

\* A page that was mapped is never given back (trap.c:128, vm.c:129).
NeverReused == M!NeverReused

\* A legal access that faulted goes through in the end: the scheduler brings
\* the task back to it, however many forks and switches come first, unless
\* memory is out.
LegalAccessCompletes == M!LegalAccessCompletes
=============================================================================
