-------------------------------- MODULE Trap --------------------------------
(***************************************************************************)
(* The way into the kernel and out of it: _traps, __ret_from_fork, __dummy *)
(* and __switch_to of entry.S, trap_handler, and the copy of the kernel    *)
(* stack that do_cow_fork makes.  One page holds a task_struct at its      *)
(* bottom and the task's kernel stack above it.                            *)
(*                                                                         *)
(* Registers and stack pointers are kept, in words of 8 bytes; what the    *)
(* user program keeps in the registers other than pc, sp and a0 is one     *)
(* value, and the C functions below trap_handler are a stretch of stack.   *)
(***************************************************************************)
EXTENDS Naturals

CONSTANTS
  NR_TASKS,
  PGSIZE,       \* words of a page
  TASK_STRUCT,  \* words of a task_struct
  FRAME,        \* words _traps takes from the stack
  RESTORED,     \* words it gives back
  DEPTH,        \* words the C functions take below the frame
  Code,         \* addresses of the program's instructions
  EcallAt,      \* those that are an ecall
  UserSps,      \* values the program may give to sp
  Values        \* values it may give to the other registers

idle == 0
Pids == 1 .. NR_TASKS - 1
User == NR_TASKS                 \* not the page of any task

ASSUME StackAssumption ==
  /\ NR_TASKS \in Nat /\ NR_TASKS > 1
  /\ {PGSIZE, TASK_STRUCT, FRAME, RESTORED, DEPTH} \subseteq Nat
  /\ FRAME + DEPTH + TASK_STRUCT <= PGSIZE /\ RESTORED <= FRAME

ASSUME ProgramAssumption ==
  /\ 0 \in Code /\ Code \subseteq Nat /\ EcallAt \subseteq Code
  /\ \A a \in EcallAt : a + 4 \in Code
  /\ UserSps \subseteq Nat \ {0} /\ Values \subseteq Nat \ {0}
  /\ \E a \in UserSps : \A b \in UserSps : b <= a

VARIABLES
  tasks_number,
  current,
  phase,      \* what the hart executes
  cause,      \* scause
  pc,         \* in user mode
  x,          \* a0 and the rest of the user-visible registers
  sp, sscratch, sepc,
  stack,      \* stack[t]: the last frame saved in the page of task t
  thread      \* task[t]->thread

vars == <<tasks_number, current, phase, cause, pc, x, sp, sscratch, sepc, stack, thread>>

Phases == {"boot", "__dummy", "user", "trap_handler", "__ret_from_fork", "overrun"}
Causes == {"timer", "ecall", "other"}

Addr(p, o)  == [page |-> p, off |-> o]
Up(a, n)    == [a EXCEPT !.off = @ + n]
Down(a, n)  == [a EXCEPT !.off = @ - n]
NULL        == Addr(User, 0)
USER_END    == CHOOSE a \in UserSps : \A b \in UserSps : b <= a

\* What the kernel leaves in a register it does not restore.
Clobbered == [a0 |-> 0, rest |-> 0]
Registers == [a0 : Nat, rest : Values \cup {0}]

Addresses == [page : 0 .. NR_TASKS - 1, off : 0 .. PGSIZE] \cup [page : {User}, off : UserSps \cup {0}]
Frames    == [at : 0 .. PGSIZE, x2 : Addresses, x : Registers, sepc : Code, sscratch : Addresses]
NoFrame   == [at |-> 0, x2 |-> NULL, x |-> Clobbered, sepc |-> 0, sscratch |-> NULL]
Threads   == [ra : {"boot", "__dummy", "switch_to", "__ret_from_fork"},
              sp : Addresses, sepc : Code, sscratch : Addresses]

TypeOK ==
  /\ tasks_number \in Pids
  /\ current \in 0 .. tasks_number
  /\ phase \in Phases /\ cause \in Causes
  /\ pc \in Code /\ x \in Registers /\ sepc \in Code
  /\ sp \in Addresses /\ sscratch \in Addresses
  /\ stack \in [Pids -> Frames]
  /\ thread \in [0 .. NR_TASKS - 1 -> Threads]

\* task_init has made task 1; start_kernel runs on the boot stack.
Init ==
  /\ tasks_number = 1
  /\ current = idle
  /\ phase = "boot"
  /\ cause = "other"
  /\ pc = 0 /\ sepc = 0
  /\ x = Clobbered
  /\ sp = Addr(idle, PGSIZE) /\ sscratch = NULL
  /\ stack = [t \in Pids |-> NoFrame]
  /\ thread = [t \in 0 .. NR_TASKS - 1 |->
                 IF t = 1 THEN [ra |-> "__dummy", sp |-> Addr(1, PGSIZE),
                                sepc |-> 0, sscratch |-> Addr(User, USER_END)]
                 ELSE [ra |-> "boot", sp |-> NULL, sepc |-> 0, sscratch |-> NULL]]

-----------------------------------------------------------------------------
\* csrrw sp, sscratch, sp; taken back if it makes sp 0.
swap(a, b) == IF b = NULL THEN <<a, b>> ELSE <<b, a>>

\* The program computes.
Run ==
  /\ phase = "user"
  /\ pc' \in Code
  /\ \E v \in Values : x' = [x EXCEPT !.rest = v]
  /\ \E s \in UserSps : sp' = Addr(User, s)
  /\ UNCHANGED <<tasks_number, current, phase, cause, sscratch, sepc, stack, thread>>

\* _traps: the frame goes to the task's kernel stack.  When there is no room
\* for it and the functions below, task_struct is overwritten, and what
\* happens then is not followed.
_traps ==
  LET s == swap(sp, sscratch) IN
  /\ phase = "user"
  /\ cause' \in Causes
  /\ cause' = "ecall" => pc \in EcallAt
  /\ IF s[1].off < TASK_STRUCT + FRAME + DEPTH
     THEN phase' = "overrun" /\ UNCHANGED <<x, sp, sscratch, sepc, stack>>
     ELSE /\ phase' = "trap_handler"
          /\ sp' = Down(s[1], FRAME)
          /\ sscratch' = s[2]
          /\ sepc' = pc
          /\ stack' = [stack EXCEPT ![s[1].page] =
                         [at |-> sp'.off, x2 |-> sp', x |-> x, sepc |-> pc, sscratch |-> s[2]]]
          /\ x' = Clobbered
  /\ UNCHANGED <<tasks_number, current, pc, thread>>

\* The frame sp points to, which trap_handler has as regs.
regs == IF stack[sp.page].at = sp.off THEN stack[sp.page] ELSE NoFrame

\* Mutant: a0 + FRAME words instead.
unwind_TooFar(f) == Up(f.x2, FRAME + 1)

\* The end of _traps: x2 is loaded from the frame, and the frame given back.
unwind(f) == Up(f.x2, RESTORED)

\* Mutant: sscratch is left as it is.
__ret_from_fork_KeepSscratch ==
  LET s == swap(unwind(regs), sscratch) IN
  /\ phase = "__ret_from_fork"
  /\ phase' = "user"
  /\ sp' = s[1] /\ sscratch' = s[2]
  /\ sepc' = regs.sepc /\ pc' = regs.sepc
  /\ x' = regs.x
  /\ UNCHANGED <<tasks_number, current, cause, stack, thread>>

__ret_from_fork ==
  LET s == swap(unwind(regs), regs.sscratch) IN
  /\ phase = "__ret_from_fork"
  /\ phase' = "user"
  /\ sp' = s[1] /\ sscratch' = s[2]
  /\ sepc' = regs.sepc /\ pc' = regs.sepc
  /\ x' = regs.x
  /\ UNCHANGED <<tasks_number, current, cause, stack, thread>>

\* The first return to user mode of a task made by task_init.
__dummy ==
  /\ phase = "__dummy"
  /\ phase' = "user"
  /\ sp' = sscratch /\ sscratch' = sp
  /\ pc' = sepc
  /\ UNCHANGED <<tasks_number, current, cause, x, sepc, stack, thread>>

\* __switch_to, up to the place ra takes the next task to.  A task that left
\* inside switch_to goes back up to the end of trap_handler.
__switch_to(n) ==
  LET to == thread[n] IN
  /\ thread' = [thread EXCEPT ![current] =
                  [ra |-> "switch_to", sp |-> Down(sp, DEPTH), sepc |-> sepc, sscratch |-> sscratch]]
  /\ current' = n
  /\ sepc' = to.sepc /\ sscratch' = to.sscratch
  /\ sp' = IF to.ra = "switch_to" THEN Up(to.sp, DEPTH) ELSE to.sp
  /\ phase' = IF to.ra = "__dummy" THEN "__dummy" ELSE "__ret_from_fork"

StartKernel ==
  /\ phase = "boot"
  /\ __switch_to(1)
  /\ UNCHANGED <<tasks_number, cause, pc, x, stack>>

-----------------------------------------------------------------------------
\* trap_handler.  Which task a tick goes to is schedule()'s concern.
Timer ==
  /\ phase = "trap_handler" /\ cause = "timer"
  /\ \/ \E n \in 1 .. tasks_number \ {current} : __switch_to(n)
     \/ phase' = "__ret_from_fork" /\ UNCHANGED <<current, sp, sscratch, sepc, thread>>
  /\ UNCHANGED <<tasks_number, cause, pc, x, stack>>

\* write and get_pid leave a result in a0, a failed fork its -1 (any member of
\* Pids stands for each); a call with another number does not.
Syscall ==
  /\ phase = "trap_handler" /\ cause = "ecall"
  /\ \E r \in Pids \cup {regs.x.a0} :
       stack' = [stack EXCEPT ![sp.page].x.a0 = r, ![sp.page].sepc = @ + 4]
  /\ phase' = "__ret_from_fork"
  /\ UNCHANGED <<tasks_number, current, cause, pc, x, sp, sscratch, sepc, thread>>

\* Mutant: the frame's sp still points to the parent's page.
child_regs_SameSp(child) ==
  [regs EXCEPT !.x.a0 = 0, !.sepc = @ + 4]

\* The frame of the child, in its copy of the parent's page.
child_regs(child) ==
  [regs EXCEPT !.x2.page = child, !.x.a0 = 0, !.sepc = @ + 4]

\* do_cow_fork and the step over the parent's ecall.  With a full table, -1
\* is a result like any other (Syscall).
Fork ==
  LET child == tasks_number + 1 IN
  /\ phase = "trap_handler" /\ cause = "ecall"
  /\ child \in Pids
  /\ tasks_number' = child
  /\ stack' = [stack EXCEPT ![child] = child_regs(child),
                            ![sp.page].x.a0 = child, ![sp.page].sepc = @ + 4]
  /\ thread' = [thread EXCEPT ![child] = [thread[current] EXCEPT
                                !.ra = "__ret_from_fork", !.sp = Addr(child, sp.off)]]
  /\ phase' = "__ret_from_fork"
  /\ UNCHANGED <<current, cause, pc, x, sp, sscratch, sepc>>

\* A page fault that was resolved, and everything trap_handler passes over.
Other ==
  /\ phase = "trap_handler" /\ cause = "other"
  /\ phase' = "__ret_from_fork"
  /\ UNCHANGED <<tasks_number, current, cause, pc, x, sp, sscratch, sepc, stack, thread>>

Overrun == phase = "overrun" /\ UNCHANGED vars

Next ==
  \/ StartKernel \/ __dummy \/ Run \/ _traps
  \/ Timer \/ Syscall \/ Fork \/ Other
  \/ __ret_from_fork
  \/ Overrun

Spec == Init /\ [][Next]_vars

-----------------------------------------------------------------------------
\* A task's kernel stack is in its own page, whether it runs or waits, and
\* what it will return through is the frame it saved there: copies of
\* pointers into the parent's page, stale thread fields and the exchange of
\* sp with sscratch never lead a task to the stack of another.
StacksSeparate ==
  /\ phase = "user" => sscratch.page = current /\ sp.page = User
  /\ phase \in {"trap_handler", "__ret_from_fork"} =>
       sp = Addr(current, stack[current].at) /\ stack[current].x2 = sp
  /\ \A t \in 1 .. tasks_number \ {current} :
       /\ thread[t].sp.page = t
       /\ thread[t].ra = "switch_to" => thread[t].sp.off = stack[t].at - DEPTH
       /\ thread[t].ra = "__ret_from_fork" => thread[t].sp.off = stack[t].at
       /\ thread[t].ra # "__dummy" => stack[t].x2 = Addr(t, stack[t].at)

\* entry.S:92, "restore sepc and 32 registers (x2(sp) should be restore last)
\* from stack": in user mode the kernel stack of the task is where it was
\* before the trap, at the top of its page (proc.c:182).
KernelStackUnwound == phase = "user" => sscratch = Addr(current, PGSIZE)

\* The registers of a task: in the hart, in its frame, or still to be set.
context(t) ==
  IF t = current /\ phase \in {"user", "overrun"}
  THEN [pc |-> pc, sp |-> sp.off, a0 |-> x.a0, rest |-> x.rest]
  ELSE IF t = 1 /\ thread[t].ra = "__dummy" /\ stack[t] = NoFrame
  THEN [pc |-> thread[t].sepc, sp |-> thread[t].sscratch.off, a0 |-> 0, rest |-> 0]
  ELSE [pc |-> stack[t].sepc, sp |-> stack[t].sscratch.off,
        a0 |-> stack[t].x.a0, rest |-> stack[t].x.rest]

\* Traps, switches and forks are invisible to user programs, as Processes
\* says, as long as the kernel stack has room.
Programs ==
  INSTANCE Processes WITH
    Task    <- Pids,
    Context <- [pc : Code, sp : UserSps, a0 : 0 .. NR_TASKS - 1, rest : Values],
    Result  <- Pids,
    live    <- 1 .. tasks_number,
    running <- IF current = idle THEN 1 ELSE current,
    mode    <- IF phase \in {"user", "overrun"} THEN "user"
               ELSE IF phase = "trap_handler" THEN cause ELSE "return",
    ctx     <- [t \in Pids |-> context(t)]

ImplementsProcesses == Programs!Spec
=============================================================================
