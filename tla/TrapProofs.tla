----------------------------- MODULE TrapProofs -----------------------------
(***************************************************************************)
(* Proofs about Trap, for every number of tasks, every size of a page and  *)
(* of what lies in it, and every program.                                  *)
(***************************************************************************)
EXTENDS Trap, TLAPS

\* The frame of task t is whole and in its own page, above its task_struct,
\* and returns to a place of the user program.
Saved(t) ==
  /\ stack[t].x2 = Addr(t, stack[t].at)
  /\ TASK_STRUCT + DEPTH <= stack[t].at /\ stack[t].at + FRAME <= PGSIZE
  /\ stack[t].sscratch.page = User /\ stack[t].sscratch.off \in UserSps

\* A task that task_init made and that has not run.
Fresh(t) ==
  /\ t = 1 /\ tasks_number = 1
  /\ thread[t] = [ra |-> "__dummy", sp |-> Addr(1, PGSIZE),
                  sepc |-> 0, sscratch |-> Addr(User, USER_END)]
  /\ stack[t] = NoFrame

Booting ==
  /\ phase = "boot" <=> current = idle
  /\ phase = "boot" => Fresh(1) /\ sp = Addr(idle, PGSIZE)
  /\ phase = "__dummy" =>
       /\ Fresh(current)
       /\ sp = Addr(1, PGSIZE) /\ sscratch = Addr(User, USER_END)
  /\ phase \in {"boot", "__dummy"} => pc = 0 /\ sepc = 0 /\ x = Clobbered

InUser ==
  phase \in {"user", "overrun"} =>
    /\ sscratch.page = current
    /\ sp.page = User /\ sp.off \in UserSps

InKernel ==
  phase \in {"trap_handler", "__ret_from_fork"} =>
    /\ Saved(current)
    /\ sp = Addr(current, stack[current].at)

Waiting ==
  \A t \in 1 .. tasks_number \ {current} : phase # "boot" =>
    /\ Saved(t)
    /\ \/ thread[t].ra = "switch_to" /\ thread[t].sp = Addr(t, stack[t].at - DEPTH)
       \/ thread[t].ra = "__ret_from_fork" /\ thread[t].sp = Addr(t, stack[t].at)

AtEcall == phase = "trap_handler" /\ cause = "ecall" => stack[current].sepc \in EcallAt

\* The results of system calls.
Results ==
  /\ x.a0 \in 0 .. NR_TASKS - 1
  /\ \A t \in Pids : stack[t].x.a0 \in 0 .. NR_TASKS - 1
IInv == TypeOK /\ Booting /\ InUser /\ InKernel /\ Waiting /\ AtEcall /\ Results

-----------------------------------------------------------------------------
\* The constants, and the pages that are not the user's.
LEMMA Sizes ==
  /\ NR_TASKS \in Nat /\ NR_TASKS > 1 /\ User \in Nat
  /\ PGSIZE \in Nat /\ TASK_STRUCT \in Nat /\ FRAME \in Nat /\ RESTORED \in Nat
  /\ DEPTH \in Nat
  /\ \A t \in 0 .. NR_TASKS - 1 : t # User
  /\ \A t \in Pids : t \in Nat /\ t # 0 /\ t # User /\ t \in 0 .. NR_TASKS - 1
  /\ USER_END \in UserSps
<1>1. USER_END \in UserSps
  <2>1. \E a \in UserSps : \A b \in UserSps : b <= a
    BY ProgramAssumption
  <2>2. QED  BY <2>1 DEF USER_END
<1>2. QED  BY <1>1, StackAssumption DEF User, Pids

\* Addresses are records of a page and an offset.
LEMMA AddressType ==
  /\ \A t \in 0 .. NR_TASKS - 1, o \in 0 .. PGSIZE : Addr(t, o) \in Addresses
  /\ \A o \in UserSps \cup {0} : Addr(User, o) \in Addresses
  /\ \A a \in Addresses : a = Addr(a.page, a.off)
  /\ \A a \in Addresses : a.page # User => a.page \in 0 .. NR_TASKS - 1 /\ a.off \in 0 .. PGSIZE
  /\ \A a \in Addresses : a.page = User => a.off \in UserSps \cup {0}
  /\ \A t, o : Addr(t, o).page = t /\ Addr(t, o).off = o
  /\ \A t, o, n : Up(Addr(t, o), n) = Addr(t, o + n) /\ Down(Addr(t, o), n) = Addr(t, o - n)
BY Sizes DEF Addresses, Addr, Up, Down

\* task_init and head.S establish the strengthening.
LEMMA InitIInv == Init => IInv
<1> SUFFICES ASSUME Init  PROVE  IInv
  OBVIOUS
<1>1. NULL \in Addresses /\ Addr(User, USER_END) \in Addresses
      /\ Addr(1, PGSIZE) \in Addresses /\ Addr(idle, PGSIZE) \in Addresses
  BY Sizes, AddressType DEF NULL, idle
<1>2. 0 \in Code /\ Clobbered \in Registers
  BY ProgramAssumption DEF Clobbered, Registers
<1>3. NoFrame \in Frames
  BY <1>1, <1>2, Sizes DEF NoFrame, Frames
<1>4. TypeOK
  BY <1>1, <1>2, <1>3, Sizes
  DEF Init, TypeOK, Phases, Causes, Pids, idle, Threads
<1>5. Fresh(1)
  BY Sizes DEF Init, Fresh, Pids
<1>6. QED
  BY <1>4, <1>5, Sizes
  DEF Init, IInv, Booting, InUser, InKernel, Waiting, AtEcall, Results, NoFrame, Clobbered, idle

\* The program's own steps.
LEMMA RunIInv == IInv /\ Run => IInv'
<1> SUFFICES ASSUME IInv, Run  PROVE  IInv'
  OBVIOUS
<1>1. PICK s \in UserSps : sp' = Addr(User, s)
  BY DEF Run
<1>2. sp' \in Addresses /\ sp'.page = User /\ sp'.off \in UserSps
  BY <1>1, AddressType
<1>3. x' \in Registers /\ x'.a0 = x.a0
  BY DEF Run, IInv, TypeOK, Registers
<1>4. TypeOK'
  BY <1>2, <1>3 DEF Run, IInv, TypeOK
<1>5. QED
  BY <1>2, <1>3, <1>4
  DEF Run, IInv, Booting, Fresh, InUser, InKernel, Waiting, Saved, AtEcall, Results

\* The first return to user mode.
LEMMA DummyIInv == IInv /\ __dummy => IInv'
<1> SUFFICES ASSUME IInv, __dummy  PROVE  IInv'
  OBVIOUS
<1>1. /\ current = 1 /\ tasks_number = 1
      /\ sp = Addr(1, PGSIZE) /\ sscratch = Addr(User, USER_END)
      /\ sepc = 0 /\ phase' = "user" /\ sp' = sscratch /\ sscratch' = sp
  BY DEF __dummy, IInv, Booting, Fresh
<1>2. TypeOK'
  BY <1>1 DEF __dummy, IInv, TypeOK, Phases
<1>3. sscratch'.page = current' /\ sp'.page = User /\ sp'.off \in UserSps
  BY <1>1, Sizes, AddressType DEF __dummy
<1>4. QED
  BY <1>1, <1>2, <1>3, Sizes
  DEF __dummy, IInv, Booting, InUser, InKernel, Waiting, AtEcall, Results, idle

\* _traps saves a frame in the page of the task that runs.
LEMMA TrapsEffect ==
  ASSUME IInv, _traps, phase' = "trap_handler"
  PROVE  /\ current \in Pids /\ phase = "user"
         /\ sscratch.off - FRAME \in 0 .. PGSIZE
         /\ TASK_STRUCT + DEPTH <= sscratch.off - FRAME /\ sscratch.off <= PGSIZE
         /\ sp' = Addr(current, sscratch.off - FRAME)
         /\ sscratch' = sp
         /\ sepc' = pc
         /\ stack' = [stack EXCEPT ![current] =
                        [at |-> sscratch.off - FRAME, x2 |-> sp', x |-> x, sepc |-> pc, sscratch |-> sp]]
         /\ x' = Clobbered
<1>1. phase = "user" /\ sscratch.page = current /\ sscratch \in Addresses
  BY DEF _traps, IInv, InUser, TypeOK
<1>2. current \in Pids
  BY <1>1, Sizes DEF IInv, TypeOK, Booting, idle, Pids
<1>3. sscratch # NULL /\ sscratch.off \in 0 .. PGSIZE /\ sscratch = Addr(current, sscratch.off)
  BY <1>1, <1>2, Sizes, AddressType DEF NULL
<1>4. swap(sp, sscratch) = <<sscratch, sp>>
  BY <1>3 DEF swap
<1>5. ~ (sscratch.off < TASK_STRUCT + FRAME + DEPTH)
  BY <1>4 DEF _traps
<1>6. /\ sp' = Down(sscratch, FRAME) /\ sscratch' = sp /\ sepc' = pc /\ x' = Clobbered
      /\ stack' = [stack EXCEPT ![sscratch.page] =
                     [at |-> sp'.off, x2 |-> sp', x |-> x, sepc |-> pc, sscratch |-> sp]]
  BY <1>4, <1>5 DEF _traps
<1>7. sp' = Addr(current, sscratch.off - FRAME)
  BY <1>3, <1>6, AddressType
<1>8. sp'.off = sscratch.off - FRAME
  BY <1>7, AddressType
<1>9. /\ sscratch.off - FRAME \in 0 .. PGSIZE
      /\ TASK_STRUCT + DEPTH <= sscratch.off - FRAME /\ sscratch.off <= PGSIZE
  BY <1>3, <1>5, Sizes
<1>10. stack' = [stack EXCEPT ![current] =
                   [at |-> sscratch.off - FRAME, x2 |-> sp', x |-> x, sepc |-> pc, sscratch |-> sp]]
  BY <1>1, <1>6, <1>8
<1>11. QED
  BY <1>1, <1>2, <1>6, <1>7, <1>9, <1>10

LEMMA TrapsIInv == IInv /\ _traps => IInv'
<1> SUFFICES ASSUME IInv, _traps  PROVE  IInv'
  OBVIOUS
<1>1. phase' \in {"trap_handler", "overrun"} /\ phase = "user" /\ cause' \in Causes
      /\ (cause' = "ecall" => pc \in EcallAt)
      /\ UNCHANGED <<tasks_number, current, pc, thread>>
  BY DEF _traps
<1>2. CASE phase' = "overrun"
  <2>1. UNCHANGED <<x, sp, sscratch, sepc, stack>>
    BY <1>2 DEF _traps
  <2>2. TypeOK'
    BY <1>1, <1>2, <2>1 DEF IInv, TypeOK, Phases
  <2>3. QED
    BY <1>1, <1>2, <2>1, <2>2
    DEF IInv, Booting, Fresh, InUser, InKernel, Waiting, Saved, AtEcall, Results
<1>3. CASE phase' = "trap_handler"
  <2> DEFINE o == sscratch.off - FRAME
             f == [at |-> o, x2 |-> sp', x |-> x, sepc |-> pc, sscratch |-> sp]
  <2>1. /\ current \in Pids /\ o \in 0 .. PGSIZE
        /\ TASK_STRUCT + DEPTH <= o /\ o + FRAME <= PGSIZE
        /\ sp' = Addr(current, o) /\ sscratch' = sp /\ sepc' = pc
        /\ stack' = [stack EXCEPT ![current] = f] /\ x' = Clobbered
    <3>1. sscratch.off \in Nat
      <4>1. current \in Pids /\ sscratch.page = current /\ sscratch \in Addresses
        BY <1>1, <1>3, TrapsEffect DEF IInv, InUser, TypeOK
      <4>2. QED  BY <4>1, Sizes, AddressType
    <3>2. QED  BY <1>3, <3>1, TrapsEffect, Sizes
  <2>2. sp' \in Addresses
    BY <2>1, Sizes, AddressType
  <2>3. f \in Frames
    BY <2>1, <2>2 DEF IInv, TypeOK, Frames
  <2>4. Clobbered \in Registers
    BY DEF Clobbered, Registers
  <2> HIDE DEF f, o
  <2>5. TypeOK'
    BY <1>1, <1>3, <2>1, <2>2, <2>3, <2>4 DEF IInv, TypeOK, Phases
  <2>6. stack'[current] = f /\ \A t \in Pids \ {current} : stack'[t] = stack[t]
    BY <2>1 DEF IInv, TypeOK
  <2>7. Saved(current)' /\ sp' = Addr(current', stack'[current'].at)
    BY <1>1, <2>1, <2>6, Sizes DEF f, Saved, IInv, InUser
  <2>8. Booting'
    BY <1>1, <1>3 DEF IInv, Booting, idle
  <2>9. Waiting'
    <3>1. ASSUME NEW t \in 1 .. tasks_number \ {current}
          PROVE  stack'[t] = stack[t] /\ Saved(t)
      <4>1. t \in Pids
        BY Sizes DEF IInv, TypeOK, Pids
      <4>2. QED  BY <1>1, <2>6, <4>1 DEF IInv, Waiting
    <3>2. QED  BY <1>1, <1>3, <3>1 DEF IInv, Waiting, Saved
  <2>10. AtEcall' /\ Results'
    BY <1>1, <2>1, <2>6, Sizes DEF f, IInv, AtEcall, Results, Clobbered
  <2>11. InKernel' /\ InUser'
    BY <1>1, <1>3, <2>7 DEF InKernel, InUser
  <2>12. QED  BY <2>5, <2>8, <2>9, <2>10, <2>11 DEF IInv
<1>4. QED  BY <1>1, <1>2, <1>3

\* In the kernel, what trap_handler has as regs is the frame of the task that
\* runs, and sp points to it.
LEMMA RegsAreSaved ==
  ASSUME IInv, phase \in {"trap_handler", "__ret_from_fork"}
  PROVE  /\ current \in Pids /\ current \in 1 .. tasks_number
         /\ regs = stack[current] /\ regs \in Frames
         /\ Saved(current)
         /\ sp = Addr(current, stack[current].at) /\ sp.page = current
         /\ stack[current].at \in Nat
<1>1. current \in Pids /\ current \in 1 .. tasks_number
  BY Sizes DEF IInv, TypeOK, Booting, idle, Pids
<1>2. Saved(current) /\ sp = Addr(current, stack[current].at)
  BY DEF IInv, InKernel
<1>3. sp.page = current /\ sp.off = stack[current].at
  BY <1>2, AddressType
<1>4. regs = stack[current]
  BY <1>3 DEF regs
<1>5. stack[current] \in Frames
  BY <1>1 DEF IInv, TypeOK
<1>6. stack[current].at \in Nat
  BY <1>5, Sizes DEF Frames
<1>7. QED  BY <1>1, <1>2, <1>3, <1>4, <1>5, <1>6

\* The way back exchanges what is left of the kernel stack with the user's.
LEMMA ReturnEffect ==
  ASSUME IInv, __ret_from_fork
  PROVE  /\ sp' = stack[current].sscratch
         /\ sscratch' = Addr(current, stack[current].at + RESTORED)
         /\ sepc' = stack[current].sepc /\ pc' = stack[current].sepc
         /\ x' = stack[current].x
<1>1. /\ current \in Pids /\ regs = stack[current] /\ Saved(current)
      /\ stack[current] \in Frames /\ stack[current].at \in Nat
  BY RegsAreSaved DEF __ret_from_fork
<1>2. unwind(regs) = Addr(current, stack[current].at + RESTORED)
  BY <1>1, AddressType DEF Saved, unwind
<1>3. stack[current].sscratch # NULL
  <2>1. stack[current].sscratch.off \in UserSps /\ 0 \notin UserSps
    BY <1>1, ProgramAssumption DEF Saved
  <2>2. NULL.off = 0
    BY AddressType DEF NULL
  <2>3. QED  BY <2>1, <2>2
<1>4. swap(unwind(regs), regs.sscratch) = <<stack[current].sscratch, unwind(regs)>>
  BY <1>1, <1>3 DEF swap
<1>5. QED
  BY <1>1, <1>2, <1>4 DEF __ret_from_fork

LEMMA ReturnIInv == IInv /\ __ret_from_fork => IInv'
<1> SUFFICES ASSUME IInv, __ret_from_fork  PROVE  IInv'
  OBVIOUS
<1>1. /\ current \in Pids /\ Saved(current)
      /\ stack[current] \in Frames /\ stack[current].at \in Nat
  BY RegsAreSaved DEF __ret_from_fork
<1>2. /\ sp' = stack[current].sscratch
      /\ sscratch' = Addr(current, stack[current].at + RESTORED)
      /\ sepc' = stack[current].sepc /\ pc' = stack[current].sepc
      /\ x' = stack[current].x
      /\ phase' = "user" /\ phase = "__ret_from_fork"
      /\ UNCHANGED <<tasks_number, current, cause, stack, thread>>
  BY ReturnEffect DEF __ret_from_fork
<1>3. stack[current].at + RESTORED \in 0 .. PGSIZE
  BY <1>1, Sizes, StackAssumption DEF Saved
<1>4. sscratch' \in Addresses /\ sp' \in Addresses
  BY <1>1, <1>2, <1>3, Sizes, AddressType DEF Frames
<1>5. sepc' \in Code /\ pc' \in Code /\ x' \in Registers
  BY <1>1, <1>2 DEF Frames
<1>6. TypeOK'
  BY <1>2, <1>4, <1>5 DEF IInv, TypeOK, Phases
<1>7. sscratch'.page = current' /\ sp'.page = User /\ sp'.off \in UserSps
  BY <1>1, <1>2, AddressType DEF Saved
<1>8. QED
  BY <1>1, <1>2, <1>6, <1>7
  DEF IInv, Booting, Fresh, InUser, InKernel, Waiting, Saved, AtEcall, Results

\* __switch_to from the stack of one task to that of another, which waits.
LEMMA SwitchIInv ==
  ASSUME IInv, phase = "trap_handler", NEW n \in 1 .. tasks_number \ {current}, __switch_to(n),
         UNCHANGED <<tasks_number, cause, pc, x, stack>>
  PROVE  IInv'
<1>1. /\ current \in Pids /\ current \in 1 .. tasks_number
      /\ Saved(current) /\ stack[current].at \in Nat
      /\ sp = Addr(current, stack[current].at)
  BY RegsAreSaved
<1>2. n \in Pids /\ n \in 0 .. NR_TASKS - 1
  BY Sizes DEF IInv, TypeOK, Pids
<1>3. /\ Saved(n) /\ thread[n] \in Threads /\ stack[n] \in Frames
      /\ \/ thread[n].ra = "switch_to" /\ thread[n].sp = Addr(n, stack[n].at - DEPTH)
         \/ thread[n].ra = "__ret_from_fork" /\ thread[n].sp = Addr(n, stack[n].at)
  BY <1>2 DEF IInv, Waiting, TypeOK
<1>4. stack[n].at \in Nat /\ stack[n].at \in 0 .. PGSIZE
  BY <1>3, Sizes DEF Frames
<1> DEFINE mine == [ra |-> "switch_to", sp |-> Down(sp, DEPTH), sepc |-> sepc, sscratch |-> sscratch]
<1>5. /\ thread' = [thread EXCEPT ![current] = mine]
      /\ current' = n
      /\ sepc' = thread[n].sepc /\ sscratch' = thread[n].sscratch
      /\ sp' = IF thread[n].ra = "switch_to" THEN Up(thread[n].sp, DEPTH) ELSE thread[n].sp
      /\ phase' = "__ret_from_fork"
  BY <1>3 DEF __switch_to
<1>6. sp' = Addr(n, stack[n].at)
  BY <1>3, <1>4, <1>5, Sizes, AddressType
<1>7. mine.sp = Addr(current, stack[current].at - DEPTH) /\ mine.ra = "switch_to"
  BY <1>1, AddressType
<1>8. mine \in Threads
  <2>1. stack[current] \in Frames
    BY <1>1 DEF IInv, TypeOK
  <2>2. stack[current].at - DEPTH \in 0 .. PGSIZE
    BY <1>1, <2>1, Sizes DEF Saved, Frames
  <2>3. mine.sp \in Addresses
    BY <1>1, <1>7, <2>2, Sizes, AddressType
  <2>4. QED  BY <2>3 DEF IInv, TypeOK, Threads
<1> HIDE DEF mine
<1>9. TypeOK'
  <2>1. sp' \in Addresses /\ sscratch' \in Addresses /\ sepc' \in Code
    BY <1>2, <1>3, <1>4, <1>5, <1>6, AddressType DEF Threads
  <2>2. current' \in 0 .. tasks_number
    BY <1>5 DEF IInv, TypeOK, Pids
  <2>3. QED  BY <1>5, <1>8, <2>1, <2>2 DEF IInv, TypeOK, Phases
<1>10. /\ thread'[current] = mine
       /\ \A t \in Pids \ {current} : thread'[t] = thread[t]
  BY <1>1, <1>5, Sizes DEF IInv, TypeOK
<1>11. Waiting'
  <2>1. ASSUME NEW t \in 1 .. tasks_number \ {n}
        PROVE  /\ Saved(t)
               /\ \/ thread'[t].ra = "switch_to" /\ thread'[t].sp = Addr(t, stack[t].at - DEPTH)
                  \/ thread'[t].ra = "__ret_from_fork" /\ thread'[t].sp = Addr(t, stack[t].at)
    <3>1. CASE t = current
      BY <1>1, <1>7, <1>10, <3>1
    <3>2. CASE t # current
      <4>1. t \in Pids
        BY Sizes DEF IInv, TypeOK, Pids
      <4>2. QED  BY <1>10, <3>2, <4>1 DEF IInv, Waiting
    <3>3. QED  BY <3>1, <3>2
  <2>2. QED  BY <1>5, <2>1 DEF Waiting, Saved
<1>12. Booting' /\ InUser' /\ InKernel' /\ AtEcall' /\ Results'
  BY <1>2, <1>3, <1>5, <1>6, Sizes
  DEF IInv, Booting, Saved, InUser, InKernel, AtEcall, Results, idle
<1>13. QED  BY <1>9, <1>11, <1>12 DEF IInv

\* The way from the boot stack to task 1.
LEMMA StartKernelIInv == IInv /\ StartKernel => IInv'
<1> SUFFICES ASSUME IInv, StartKernel  PROVE  IInv'
  OBVIOUS
<1>1. Fresh(1) /\ phase = "boot" /\ current = idle /\ tasks_number = 1
  BY DEF StartKernel, IInv, Booting, Fresh
<1> DEFINE boot == [ra |-> "switch_to", sp |-> Down(sp, DEPTH), sepc |-> sepc, sscratch |-> sscratch]
<1>2. /\ thread' = [thread EXCEPT ![idle] = boot]
      /\ current' = 1 /\ sepc' = 0 /\ sscratch' = Addr(User, USER_END)
      /\ sp' = Addr(1, PGSIZE) /\ phase' = "__dummy"
      /\ UNCHANGED <<tasks_number, cause, pc, x, stack>>
  BY <1>1 DEF StartKernel, __switch_to, Fresh
<1>3. boot \in Threads
  <2>1. sp = Addr(idle, PGSIZE)
    BY <1>1 DEF IInv, Booting
  <2>2. PGSIZE - DEPTH \in 0 .. PGSIZE
    BY Sizes, StackAssumption
  <2>3. boot.sp \in Addresses
    BY <2>1, <2>2, Sizes, AddressType DEF idle
  <2>4. QED  BY <2>3 DEF IInv, TypeOK, Threads
<1> HIDE DEF boot
<1>4. sp' \in Addresses /\ sscratch' \in Addresses /\ sepc' \in Code
  BY <1>2, Sizes, AddressType, ProgramAssumption
<1>5. TypeOK'
  BY <1>1, <1>2, <1>3, <1>4, Sizes DEF IInv, TypeOK, Phases
<1>6. thread'[1] = thread[1]
  BY <1>2, Sizes DEF IInv, TypeOK, idle
<1>7. QED
  BY <1>1, <1>2, <1>5, <1>6, Sizes
  DEF IInv, Booting, Fresh, InUser, InKernel, Waiting, AtEcall, Results, idle

\* The timer branch of trap_handler.
LEMMA TimerIInv == IInv /\ Timer => IInv'
<1> SUFFICES ASSUME IInv, Timer  PROVE  IInv'
  OBVIOUS
<1>1. phase = "trap_handler" /\ UNCHANGED <<tasks_number, cause, pc, x, stack>>
  BY DEF Timer
<1>2. CASE \E n \in 1 .. tasks_number \ {current} : __switch_to(n)
  BY <1>1, <1>2, SwitchIInv
<1>3. CASE phase' = "__ret_from_fork" /\ UNCHANGED <<current, sp, sscratch, sepc, thread>>
  BY <1>1, <1>3
  DEF IInv, TypeOK, Phases, Booting, Fresh, InUser, InKernel, Waiting, Saved, AtEcall, Results
<1>4. QED  BY <1>2, <1>3 DEF Timer

\* A system call other than fork.
LEMMA SyscallIInv == IInv /\ Syscall => IInv'
<1> SUFFICES ASSUME IInv, Syscall  PROVE  IInv'
  OBVIOUS
<1>1. /\ current \in Pids /\ current \in 1 .. tasks_number
      /\ regs = stack[current] /\ stack[current] \in Frames
      /\ Saved(current) /\ sp.page = current
      /\ sp = Addr(current, stack[current].at)
  BY RegsAreSaved DEF Syscall
<1>2. PICK r \in Pids \cup {stack[current].x.a0} :
        stack' = [stack EXCEPT ![current].x.a0 = r, ![current].sepc = @ + 4]
  BY <1>1 DEF Syscall
<1> DEFINE f == [stack[current] EXCEPT !.x.a0 = r, !.sepc = @ + 4]
<1>3. stack'[current] = f /\ stack' \in [Pids -> {f} \cup Frames]
      /\ \A t \in Pids \ {current} : stack'[t] = stack[t]
  BY <1>1, <1>2 DEF IInv, TypeOK
<1>4. /\ f.at = stack[current].at /\ f.x2 = stack[current].x2
      /\ f.sscratch = stack[current].sscratch /\ f.x.a0 = r
      /\ f.sepc = stack[current].sepc + 4 /\ f \in Frames
  <2>1. stack[current].sepc + 4 \in Code
    BY ProgramAssumption DEF Syscall, IInv, AtEcall
  <2>2. r \in Nat
    BY <1>1, Sizes DEF Frames, Registers
  <2>3. QED  BY <1>1, <2>1, <2>2 DEF Frames, Registers
<1> HIDE DEF f
<1>5. TypeOK'
  BY <1>3, <1>4 DEF Syscall, IInv, TypeOK, Phases
<1>6. r \in 0 .. NR_TASKS - 1
  BY <1>1, Sizes DEF IInv, Results
<1>7. Results'
  BY <1>3, <1>4, <1>6 DEF Syscall, IInv, Results
<1>8. Waiting'
  <2>1. ASSUME NEW t \in 1 .. tasks_number \ {current}  PROVE  stack'[t] = stack[t]
    BY <1>3, Sizes DEF IInv, TypeOK, Pids
  <2>2. QED  BY <2>1 DEF Syscall, IInv, Waiting, Saved
<1>9. Saved(current)' /\ sp' = Addr(current, stack'[current].at)
  BY <1>1, <1>3, <1>4 DEF Syscall, Saved
<1>10. QED
  BY <1>5, <1>7, <1>8, <1>9 DEF Syscall, IInv, Booting, InUser, InKernel, Saved, AtEcall

\* fork copies the frame to the page of the child and makes it point there.
LEMMA ForkEffect ==
  ASSUME IInv, Fork
  PROVE  LET child == tasks_number + 1
             f  == [stack[current] EXCEPT !.x.a0 = child, !.sepc = @ + 4]
             cf == [stack[current] EXCEPT !.x2 = Addr(child, stack[current].at),
                                          !.x.a0 = 0, !.sepc = @ + 4] IN
         /\ current \in Pids /\ current \in 1 .. tasks_number
         /\ child \in Pids /\ child # current
         /\ f \in Frames /\ cf \in Frames
         /\ stack'[current] = f /\ stack'[child] = cf
         /\ \A t \in Pids \ {current, child} : stack'[t] = stack[t]
         /\ stack' \in [Pids -> Frames]
         /\ thread' = [thread EXCEPT ![child] = [thread[current] EXCEPT
                         !.ra = "__ret_from_fork", !.sp = Addr(child, stack[current].at)]]
<1> DEFINE child == tasks_number + 1
           f  == [stack[current] EXCEPT !.x.a0 = child, !.sepc = @ + 4]
           cf == [stack[current] EXCEPT !.x2 = Addr(child, stack[current].at),
                                        !.x.a0 = 0, !.sepc = @ + 4]
<1>1. /\ current \in Pids /\ current \in 1 .. tasks_number
      /\ regs = stack[current] /\ stack[current] \in Frames
      /\ Saved(current) /\ sp.page = current /\ sp.off = stack[current].at
  BY RegsAreSaved, AddressType DEF Fork
<1>2. child \in Pids /\ child # current
  BY <1>1, Sizes DEF Fork, IInv, TypeOK, Pids
<1>3. child_regs(child) = cf
  <2>1. stack[current].x2 = Addr(current, stack[current].at)
    BY <1>1 DEF Saved
  <2>2. [stack[current].x2 EXCEPT !.page = child] = Addr(child, stack[current].at)
    BY <2>1 DEF Addr
  <2>3. QED  BY <1>1, <2>2 DEF child_regs, Frames
<1>4. /\ stack' = [stack EXCEPT ![child] = cf, ![current].x.a0 = child, ![current].sepc = @ + 4]
      /\ thread' = [thread EXCEPT ![child] = [thread[current] EXCEPT
                      !.ra = "__ret_from_fork", !.sp = Addr(child, stack[current].at)]]
  BY <1>1, <1>3 DEF Fork
<1>5. stack[current].sepc + 4 \in Code
  BY ProgramAssumption DEF Fork, IInv, AtEcall
<1>6. f \in Frames
  BY <1>1, <1>2, <1>5, Sizes DEF Frames, Registers
<1>7. cf \in Frames
  <2>1. stack[current].at \in 0 .. PGSIZE
    BY <1>1 DEF Frames
  <2>2. Addr(child, stack[current].at) \in Addresses
    BY <1>2, <2>1, Sizes, AddressType
  <2>3. QED  BY <1>1, <1>5, <2>2 DEF Frames, Registers
<1>8. /\ stack'[current] = f /\ stack'[child] = cf
      /\ \A t \in Pids \ {current, child} : stack'[t] = stack[t]
      /\ stack' \in [Pids -> {f, cf} \cup Frames]
  BY <1>1, <1>2, <1>4 DEF IInv, TypeOK
<1> HIDE DEF f, cf
<1>9. stack' \in [Pids -> Frames]
  BY <1>6, <1>7, <1>8
<1>10. QED
  BY <1>1, <1>2, <1>4, <1>6, <1>7, <1>8, <1>9 DEF f, cf

LEMMA ForkIInv == IInv /\ Fork => IInv'
<1> SUFFICES ASSUME IInv, Fork  PROVE  IInv'
  OBVIOUS
<1> DEFINE child == tasks_number + 1
           f  == [stack[current] EXCEPT !.x.a0 = child, !.sepc = @ + 4]
           cf == [stack[current] EXCEPT !.x2 = Addr(child, stack[current].at),
                                        !.x.a0 = 0, !.sepc = @ + 4]
           th == [thread[current] EXCEPT !.ra = "__ret_from_fork",
                                         !.sp = Addr(child, stack[current].at)]
<1>1. /\ current \in Pids /\ current \in 1 .. tasks_number
      /\ child \in Pids /\ child # current
      /\ f \in Frames /\ cf \in Frames
      /\ stack'[current] = f /\ stack'[child] = cf
      /\ \A t \in Pids \ {current, child} : stack'[t] = stack[t]
      /\ stack' \in [Pids -> Frames]
      /\ thread' = [thread EXCEPT ![child] = th]
  BY ForkEffect
<1>2. /\ stack[current] \in Frames /\ Saved(current)
      /\ sp = Addr(current, stack[current].at)
      /\ phase = "trap_handler" /\ phase' = "__ret_from_fork" /\ tasks_number' = child
      /\ UNCHANGED <<current, cause, pc, x, sp, sscratch, sepc>>
  BY RegsAreSaved DEF Fork
<1>3. /\ f.at = stack[current].at /\ f.x2 = stack[current].x2
      /\ f.sscratch = stack[current].sscratch /\ f.x.a0 = child
      /\ cf.at = stack[current].at /\ cf.x2 = Addr(child, stack[current].at)
      /\ cf.sscratch = stack[current].sscratch /\ cf.x.a0 = 0
  BY <1>2 DEF Frames, Registers
<1>4. thread[current] \in Threads
  BY <1>1, Sizes DEF IInv, TypeOK
<1>5. th \in Threads /\ th.ra = "__ret_from_fork" /\ th.sp = Addr(child, stack[current].at)
  <2>1. Addr(child, stack[current].at) \in Addresses
    BY <1>1, <1>2, Sizes, AddressType DEF Frames
  <2>2. QED  BY <1>4, <2>1 DEF Threads
<1> HIDE DEF f, cf, th
<1>6. /\ thread' \in [0 .. NR_TASKS - 1 -> Threads]
      /\ thread'[child] = th
      /\ \A t \in Pids \ {child} : thread'[t] = thread[t]
  BY <1>1, <1>5, Sizes DEF IInv, TypeOK
<1>7. TypeOK'
  BY <1>1, <1>2, <1>6 DEF IInv, TypeOK, Phases, Pids
<1>8. Waiting'
  <2>1. ASSUME NEW t \in 1 .. child \ {current}
        PROVE  /\ Saved(t)'
               /\ \/ thread'[t].ra = "switch_to" /\ thread'[t].sp = Addr(t, stack'[t].at - DEPTH)
                  \/ thread'[t].ra = "__ret_from_fork" /\ thread'[t].sp = Addr(t, stack'[t].at)
    <3>1. CASE t = child
      BY <1>1, <1>2, <1>3, <1>5, <1>6, <3>1 DEF Saved
    <3>2. CASE t # child
      <4>1. t \in Pids /\ t \in 1 .. tasks_number
        BY <1>1, <3>2, Sizes DEF IInv, TypeOK, Pids
      <4>2. stack'[t] = stack[t] /\ thread'[t] = thread[t]
        BY <1>1, <1>6, <3>2, <4>1
      <4>3. QED  BY <1>2, <4>1, <4>2 DEF IInv, Waiting, Saved
    <3>3. QED  BY <3>1, <3>2
  <2>2. QED  BY <1>2, <2>1 DEF Waiting
<1>9. Saved(current)' /\ sp' = Addr(current, stack'[current].at)
  BY <1>1, <1>2, <1>3 DEF Saved
<1>10. Results'
  <2>1. ASSUME NEW t \in Pids  PROVE  stack'[t].x.a0 \in 0 .. NR_TASKS - 1
    <3>1. CASE t = current
      BY <1>1, <1>3, <3>1, Sizes
    <3>2. CASE t = child
      BY <1>1, <1>3, <3>2, Sizes
    <3>3. CASE t \notin {current, child}
      BY <1>1, <3>3 DEF IInv, Results
    <3>4. QED  BY <3>1, <3>2, <3>3
  <2>2. QED  BY <1>2, <2>1 DEF IInv, Results
<1>11. Booting' /\ InUser' /\ InKernel' /\ AtEcall'
  BY <1>1, <1>2, <1>9, Sizes DEF IInv, Booting, InUser, InKernel, Saved, AtEcall, idle
<1>12. QED  BY <1>7, <1>8, <1>10, <1>11 DEF IInv

\* Page faults that were resolved, what trap_handler passes over, and no step.
LEMMA OtherIInv == IInv /\ (Other \/ Overrun \/ UNCHANGED vars) => IInv'
<1> SUFFICES ASSUME IInv, Other \/ Overrun \/ UNCHANGED vars  PROVE  IInv'
  OBVIOUS
<1>1. CASE Other
  BY <1>1
  DEF Other, IInv, TypeOK, Phases, Booting, Fresh, InUser, InKernel, Waiting, Saved, AtEcall, Results
<1>2. CASE UNCHANGED vars
  BY <1>2
  DEF vars, IInv, TypeOK, Booting, Fresh, InUser, InKernel, Waiting, Saved, AtEcall, Results
<1>3. QED  BY <1>1, <1>2 DEF Overrun

LEMMA NextIInv == IInv /\ [Next]_vars => IInv'
BY StartKernelIInv, DummyIInv, RunIInv, TrapsIInv, TimerIInv, SyscallIInv, ForkIInv,
   ReturnIInv, OtherIInv DEF Next

\* The strengthening holds in every state of every behavior.
THEOREM TrapInvariant == Spec => []IInv
BY InitIInv, NextIInv, PTL DEF Spec

\* Registers, pointers, frames and thread fields have the values the code can
\* give them: no pointer leaves the page it points into.
THEOREM TrapTypeOK == Spec => []TypeOK
<1>1. IInv => TypeOK  BY DEF IInv
<1>2. QED  BY <1>1, TrapInvariant, PTL

\* Every task keeps to the kernel stack of its own page, whether it runs or
\* waits (entry.S, proc.c:182, syscall.c:198).
THEOREM TrapStacksSeparate == Spec => []StacksSeparate
<1>1. ASSUME IInv  PROVE  StacksSeparate
  <2>1. ASSUME NEW t \in 1 .. tasks_number \ {current}
        PROVE  /\ thread[t].sp.page = t
               /\ thread[t].ra = "switch_to" => thread[t].sp.off = stack[t].at - DEPTH
               /\ thread[t].ra = "__ret_from_fork" => thread[t].sp.off = stack[t].at
               /\ thread[t].ra # "__dummy" => stack[t].x2 = Addr(t, stack[t].at)
    <3>1. CASE phase = "boot"
      <4>1. t = 1 /\ Fresh(1)
        BY <1>1, <3>1 DEF IInv, Booting, Fresh
      <4>2. QED  BY <4>1, AddressType DEF Fresh
    <3>2. CASE phase # "boot"
      BY <1>1, <3>2, AddressType DEF IInv, Waiting, Saved
    <3>3. QED  BY <3>1, <3>2
  <2>2. QED  BY <1>1, <2>1 DEF IInv, InUser, InKernel, Saved, StacksSeparate
<1>2. QED  BY <1>1, TrapInvariant, PTL

-----------------------------------------------------------------------------
\* The refinement of Processes.  Where the registers of a task are: in the
\* hart while it runs, in its frame while it is in the kernel or waits.
InHart  == [pc |-> pc, sp |-> sp.off, a0 |-> x.a0, rest |-> x.rest]
InFrame(t) == [pc |-> stack[t].sepc, sp |-> stack[t].sscratch.off,
               a0 |-> stack[t].x.a0, rest |-> stack[t].x.rest]
AtStart == [pc |-> 0, sp |-> USER_END, a0 |-> 0, rest |-> 0]

ContextKnown ==
  /\ phase \in {"user", "overrun"} => context(current) = InHart
  /\ phase \in {"trap_handler", "__ret_from_fork"} => context(current) = InFrame(current)
  /\ phase = "__dummy" => context(current) = AtStart
  /\ \A t \in Pids : (phase \in {"boot", "__dummy"} => t # 1) /\ t # current =>
       context(t) = InFrame(t)
  /\ phase = "boot" => context(1) = AtStart

LEMMA ContextIs == IInv => ContextKnown
<1> SUFFICES ASSUME IInv  PROVE  ContextKnown
  OBVIOUS
<1>1. ASSUME NEW t \in Pids, Saved(t)  PROVE  stack[t] # NoFrame
  <2>1. stack[t].x2.page = t /\ t # User
    BY <1>1, Sizes, AddressType DEF Saved
  <2>2. NoFrame.x2.page = User
    BY AddressType DEF NoFrame, NULL
  <2>3. QED  BY <2>1, <2>2
<1>2. phase \in {"user", "overrun"} => context(current) = InHart
  BY DEF context, InHart
<1>3. phase \in {"trap_handler", "__ret_from_fork"} => context(current) = InFrame(current)
  BY <1>1, RegsAreSaved DEF context, InFrame
<1>4. Fresh(1) => thread[1].sepc = 0 /\ thread[1].sscratch.off = USER_END /\ thread[1].ra = "__dummy"
  BY AddressType DEF Fresh
<1>5. phase = "__dummy" => context(current) = AtStart
  BY <1>4 DEF context, AtStart, IInv, Booting, Fresh
<1>6. phase = "boot" => context(1) = AtStart
  BY <1>4 DEF context, AtStart, IInv, Booting, Fresh
<1>7. ASSUME NEW t \in Pids, phase \in {"boot", "__dummy"} => t # 1, t # current
      PROVE  context(t) = InFrame(t)
  <2>1. CASE t = 1
    <3>1. 1 \in 1 .. tasks_number \ {current}
      BY <1>7, <2>1 DEF IInv, TypeOK, Pids
    <3>2. Saved(1)
      BY <1>7, <2>1, <3>1 DEF IInv, Waiting
    <3>3. QED  BY <1>1, <1>7, <2>1, <3>2 DEF context, InFrame
  <2>2. CASE t # 1
    BY <1>7, <2>2 DEF context, InFrame
  <2>3. QED  BY <2>1, <2>2
<1>8. QED  BY <1>2, <1>3, <1>5, <1>6, <1>7 DEF ContextKnown

\* The same in the next state.
LEMMA ContextWillBe == IInv' => ContextKnown'
BY ContextIs, PTL

LEMMA InitRefines == Init => Programs!Init
<1> SUFFICES ASSUME Init  PROVE  Programs!Init
  OBVIOUS
<1>1. IInv
  BY InitIInv
<1>2. ASSUME NEW t \in Pids
      PROVE  context(t) \in [{"pc", "sp", "a0", "rest"} -> Nat]
  <2>1. CASE t = 1
    <3>1. context(t) = AtStart
      BY <1>1, <2>1, ContextIs DEF Init, ContextKnown
    <3>2. USER_END \in Nat
      BY Sizes, ProgramAssumption
    <3>3. QED  BY <3>1, <3>2 DEF AtStart
  <2>2. CASE t # 1
    <3>1. context(t) = InFrame(t) /\ stack[t] = NoFrame
      BY <1>1, <2>2, ContextIs, Sizes DEF Init, idle, ContextKnown
    <3>2. NoFrame.sscratch.off = 0
      BY AddressType DEF NoFrame, NULL
    <3>3. InFrame(t) = [pc |-> 0, sp |-> 0, a0 |-> 0, rest |-> 0]
      BY <3>1, <3>2 DEF InFrame, NoFrame, Clobbered
    <3>4. QED  BY <3>1, <3>3
  <2>3. QED  BY <2>1, <2>2
<1>3. 1 .. tasks_number = {1} /\ 1 \in Pids
  BY Sizes DEF Init, Pids
<1>4. QED
  BY <1>2, <1>3 DEF Init, Programs!Init

\* The first two switches are no steps of the programs.
LEMMA StartRefines == IInv /\ IInv' /\ StartKernel => UNCHANGED Programs!vars
<1> SUFFICES ASSUME IInv, IInv', StartKernel  PROVE  UNCHANGED Programs!vars
  OBVIOUS
<1>1. /\ phase = "boot" /\ current = idle /\ current' = 1 /\ phase' = "__dummy"
      /\ tasks_number' = tasks_number /\ stack' = stack
  BY DEF StartKernel, __switch_to, IInv, Booting, Fresh
<1>2. ASSUME NEW t \in Pids  PROVE  context(t)' = context(t)
  <2>1. CASE t = 1
    BY <1>1, <2>1, ContextIs, ContextWillBe DEF ContextKnown
  <2>2. CASE t # 1
    BY <1>1, <2>2, ContextIs, ContextWillBe, Sizes DEF ContextKnown, InFrame, idle
  <2>3. QED  BY <2>1, <2>2
<1>3. QED  BY <1>1, <1>2 DEF Programs!vars, idle

LEMMA DummyRefines == IInv /\ IInv' /\ __dummy => Programs!Return
<1> SUFFICES ASSUME IInv, IInv', __dummy  PROVE  Programs!Return
  OBVIOUS
<1>1. /\ phase = "__dummy" /\ phase' = "user" /\ current = 1 /\ current' = 1
      /\ UNCHANGED <<tasks_number, stack, thread>>
      /\ x' = Clobbered /\ pc' = 0 /\ sp' = Addr(User, USER_END)
  BY DEF __dummy, IInv, Booting, Fresh
<1>2. ASSUME NEW t \in Pids  PROVE  context(t)' = context(t)
  <2>1. CASE t = 1
    <3>1. InHart' = AtStart
      BY <1>1, AddressType DEF InHart, AtStart, Clobbered
    <3>2. QED  BY <1>1, <2>1, <3>1, ContextIs, ContextWillBe DEF ContextKnown
  <2>2. CASE t # 1
    BY <1>1, <2>2, ContextIs, ContextWillBe DEF ContextKnown, InFrame
  <2>3. QED  BY <2>1, <2>2
<1>3. QED  BY <1>1, <1>2 DEF Programs!Return, idle

LEMMA RunRefines == IInv /\ IInv' /\ Run => Programs!Run
<1> SUFFICES ASSUME IInv, IInv', Run  PROVE  Programs!Run
  OBVIOUS
<1> DEFINE c == InHart'
           Context == [pc : Code, sp : UserSps, a0 : 0 .. NR_TASKS - 1, rest : Values]
<1>1. /\ phase = "user" /\ phase' = "user"
      /\ UNCHANGED <<tasks_number, current, stack, thread>>
  BY DEF Run
<1>2. current \in Pids /\ current # idle
  BY <1>1, Sizes DEF IInv, TypeOK, Booting, idle, Pids
<1>3. c \in Context
  <2>1. sp'.off \in UserSps /\ pc' \in Code
    BY AddressType DEF Run
  <2>2. x'.a0 = x.a0 /\ x'.rest \in Values
    BY DEF Run, IInv, TypeOK, Registers
  <2>3. x.a0 \in 0 .. NR_TASKS - 1
    BY DEF IInv, Results
  <2>4. QED  BY <2>1, <2>2, <2>3 DEF InHart
<1>4. ASSUME NEW t \in Pids
      PROVE  context(t)' = IF t = current THEN c ELSE context(t)
  BY <1>1, ContextIs, ContextWillBe DEF ContextKnown, InFrame
<1> HIDE DEF c, Context
<1>5. [t \in Pids |-> context(t)]' = [[t \in Pids |-> context(t)] EXCEPT ![current] = c]
  BY <1>4
<1> USE DEF Context
<1>6. QED
  BY <1>1, <1>2, <1>3, <1>5 DEF Programs!Run

LEMMA TrapsRefine == IInv /\ IInv' /\ _traps => Programs!Trap \/ UNCHANGED Programs!vars
<1> SUFFICES ASSUME IInv, IInv', _traps  PROVE  Programs!Trap \/ UNCHANGED Programs!vars
  OBVIOUS
<1>1. /\ phase = "user" /\ phase' \in {"trap_handler", "overrun"} /\ cause' \in Causes
      /\ UNCHANGED <<tasks_number, current, pc, thread>>
  BY DEF _traps
<1>2. current \in Pids /\ current # idle
  BY <1>1, Sizes DEF IInv, TypeOK, Booting, idle, Pids
<1>3. CASE phase' = "overrun"
  <2>1. ASSUME NEW t \in Pids  PROVE  context(t)' = context(t)
    BY <1>1, <1>3, ContextIs, ContextWillBe DEF ContextKnown, InFrame, InHart, _traps
  <2>2. QED  BY <1>1, <1>3, <2>1 DEF Programs!vars
<1>4. CASE phase' = "trap_handler"
  <2>1. stack' = [stack EXCEPT ![current] =
                    [at |-> sscratch.off - FRAME, x2 |-> sp', x |-> x, sepc |-> pc, sscratch |-> sp]]
    BY <1>4, TrapsEffect
  <2>2. /\ \A t \in Pids \ {current} : stack'[t] = stack[t]
        /\ stack'[current].sepc = pc /\ stack'[current].sscratch = sp /\ stack'[current].x = x
    BY <1>2, <2>1 DEF IInv, TypeOK
  <2>3. ASSUME NEW t \in Pids  PROVE  context(t)' = context(t)
    <3>1. CASE t = current
      <4>1. InFrame(current)' = InHart
        BY <1>1, <2>2 DEF InFrame, InHart
      <4>2. QED  BY <1>1, <1>4, <3>1, <4>1, ContextIs, ContextWillBe DEF ContextKnown
    <3>2. CASE t # current
      BY <1>1, <1>4, <2>2, <3>2, ContextIs, ContextWillBe DEF ContextKnown, InFrame
    <3>3. QED  BY <3>1, <3>2
  <2>4. QED  BY <1>1, <1>4, <2>3 DEF Programs!Trap, Causes
<1>5. QED  BY <1>1, <1>3, <1>4

LEMMA TimerRefines == IInv /\ IInv' /\ Timer => Programs!Tick
<1> SUFFICES ASSUME IInv, IInv', Timer  PROVE  Programs!Tick
  OBVIOUS
<1>1. /\ phase = "trap_handler" /\ cause = "timer" /\ UNCHANGED <<tasks_number, stack>>
  BY DEF Timer
<1>2. current \in Pids /\ current # idle /\ current \in 1 .. tasks_number
  BY <1>1, RegsAreSaved, Sizes DEF idle
<1>3. current' \in 1 .. tasks_number
  BY <1>2 DEF Timer, __switch_to
<1>4. phase' = "__ret_from_fork"
  <2>1. ASSUME NEW n \in 1 .. tasks_number \ {current}  PROVE  thread[n].ra # "__dummy"
    BY <1>1 DEF IInv, Waiting
  <2>2. QED  BY <2>1 DEF Timer, __switch_to
<1>5. ASSUME NEW t \in Pids  PROVE  context(t)' = context(t)
  BY <1>1, <1>4, ContextIs, ContextWillBe DEF ContextKnown, InFrame
<1>6. QED
  BY <1>1, <1>2, <1>3, <1>4, <1>5 DEF Programs!Tick, idle

LEMMA SyscallRefines == IInv /\ IInv' /\ Syscall => Programs!Call
<1> SUFFICES ASSUME IInv, IInv', Syscall  PROVE  Programs!Call
  OBVIOUS
<1>1. /\ phase = "trap_handler" /\ cause = "ecall" /\ phase' = "__ret_from_fork"
      /\ UNCHANGED <<tasks_number, current, thread>>
  BY DEF Syscall
<1>2. /\ current \in Pids /\ current # idle /\ sp.page = current
      /\ regs = stack[current] /\ stack[current] \in Frames
  BY <1>1, RegsAreSaved, Sizes DEF idle
<1>3. PICK r \in Pids \cup {stack[current].x.a0} :
        stack' = [stack EXCEPT ![current].x.a0 = r, ![current].sepc = @ + 4]
  BY <1>2 DEF Syscall
<1>4. /\ \A t \in Pids \ {current} : stack'[t] = stack[t]
      /\ stack'[current].sepc = stack[current].sepc + 4
      /\ stack'[current].sscratch = stack[current].sscratch
      /\ stack'[current].x.a0 = r /\ stack'[current].x.rest = stack[current].x.rest
  BY <1>2, <1>3 DEF IInv, TypeOK, Frames, Registers
<1> DEFINE c == [pc |-> stack[current].sepc + 4, sp |-> stack[current].sscratch.off,
                 a0 |-> r, rest |-> stack[current].x.rest]
           all == [t \in Pids |-> context(t)]
<1>5. context(current) = InFrame(current) /\ context(current)' = c
  BY <1>1, <1>4, ContextIs, ContextWillBe DEF ContextKnown, InFrame
<1>6. \A t \in Pids \ {current} : context(t)' = context(t)
  BY <1>1, <1>4, ContextIs, ContextWillBe DEF ContextKnown, InFrame
<1>7. c = [context(current) EXCEPT !.pc = @ + 4, !.a0 = r]
  <2> DEFINE e == [InFrame(current) EXCEPT !.pc = @ + 4]
  <2>1. e = [pc |-> stack[current].sepc + 4, sp |-> stack[current].sscratch.off,
             a0 |-> stack[current].x.a0, rest |-> stack[current].x.rest]
    BY DEF InFrame
  <2>2. [InFrame(current) EXCEPT !.pc = @ + 4, !.a0 = r] = [e EXCEPT !.a0 = r]
    OBVIOUS
  <2> HIDE DEF e
  <2>3. [e EXCEPT !.a0 = r] = c
    BY <2>1
  <2>4. QED  BY <1>5, <2>2, <2>3
<1>8. all' = [all EXCEPT ![current].pc = @ + 4, ![current].a0 = r]
  <2> HIDE DEF c
  <2>1. all' = [all EXCEPT ![current] = c]
    BY <1>1, <1>2, <1>5, <1>6
  <2>2. QED  BY <1>2, <1>7, <2>1
<1>9. r \in Pids \cup {all[current].a0}
  BY <1>2, <1>5 DEF InFrame
<1> HIDE DEF all, c
<1>10. \E res \in Pids \cup {all[current].a0} :
         all' = [all EXCEPT ![current].pc = @ + 4, ![current].a0 = res]
  BY <1>8, <1>9
<1>11. QED
  BY <1>1, <1>2, <1>10 DEF Programs!Call, all

LEMMA ForkRefines == IInv /\ IInv' /\ Fork => Programs!Fork
<1> SUFFICES ASSUME IInv, IInv', Fork  PROVE  Programs!Fork
  OBVIOUS
<1> DEFINE child == tasks_number + 1
           f  == [stack[current] EXCEPT !.x.a0 = child, !.sepc = @ + 4]
           cf == [stack[current] EXCEPT !.x2 = Addr(child, stack[current].at),
                                        !.x.a0 = 0, !.sepc = @ + 4]
<1>1. /\ phase = "trap_handler" /\ cause = "ecall" /\ phase' = "__ret_from_fork"
      /\ tasks_number' = child /\ current' = current
  BY DEF Fork
<1>2. /\ current \in Pids /\ current # idle /\ stack[current] \in Frames
      /\ current \in 1 .. tasks_number /\ tasks_number \in Nat
  BY <1>1, RegsAreSaved, Sizes DEF idle, IInv, TypeOK, Pids
<1>3. /\ child \in Pids /\ child # current
      /\ stack'[current] = f /\ stack'[child] = cf
      /\ \A t \in Pids \ {current, child} : stack'[t] = stack[t]
  BY ForkEffect
<1>4. /\ f.sepc = stack[current].sepc + 4 /\ cf.sepc = stack[current].sepc + 4
      /\ f.sscratch = stack[current].sscratch /\ cf.sscratch = stack[current].sscratch
      /\ f.x.a0 = child /\ f.x.rest = stack[current].x.rest
      /\ cf.x.a0 = 0 /\ cf.x.rest = stack[current].x.rest
  BY <1>2 DEF Frames, Registers
<1> HIDE DEF f, cf
<1> DEFINE c == [pc |-> stack[current].sepc + 4, sp |-> stack[current].sscratch.off,
                 a0 |-> child, rest |-> stack[current].x.rest]
           d == [pc |-> stack[current].sepc + 4, sp |-> stack[current].sscratch.off,
                 a0 |-> 0, rest |-> stack[current].x.rest]
           all == [t \in Pids |-> context(t)]
<1>5. /\ context(current) = InFrame(current)
      /\ \A t \in Pids : /\ t = current => context(t)' = c
                         /\ t = child => context(t)' = d
  <2>1. context(current) = InFrame(current)
    BY <1>1, ContextIs DEF ContextKnown
  <2>2. \A t \in Pids : context(t)' = InFrame(t)'
    BY <1>1, ContextWillBe DEF ContextKnown
  <2>3. \A t : InFrame(t)' = [pc |-> stack'[t].sepc, sp |-> stack'[t].sscratch.off,
                              a0 |-> stack'[t].x.a0, rest |-> stack'[t].x.rest]
    BY DEF InFrame
  <2>4. \A t \in Pids : context(t)' = [pc |-> stack'[t].sepc, sp |-> stack'[t].sscratch.off,
                                      a0 |-> stack'[t].x.a0, rest |-> stack'[t].x.rest]
    BY <2>2, <2>3
  <2> HIDE DEF child
  <2>5. /\ stack'[current].sepc = stack[current].sepc + 4
        /\ stack'[current].sscratch = stack[current].sscratch
        /\ stack'[current].x.a0 = child /\ stack'[current].x.rest = stack[current].x.rest
        /\ stack'[child].sepc = stack[current].sepc + 4
        /\ stack'[child].sscratch = stack[current].sscratch
        /\ stack'[child].x.a0 = 0 /\ stack'[child].x.rest = stack[current].x.rest
    BY <1>3, <1>4
  <2>6. QED  BY <1>2, <1>3, <2>1, <2>4, <2>5
<1>6. \A t \in Pids \ {current, child} : context(t)' = context(t)
  BY <1>1, <1>3, ContextIs, ContextWillBe DEF ContextKnown, InFrame
<1>7. /\ c = [context(current) EXCEPT !.pc = @ + 4, !.a0 = child]
      /\ d = [context(current) EXCEPT !.pc = @ + 4, !.a0 = 0]
  <2> DEFINE e == [InFrame(current) EXCEPT !.pc = @ + 4]
  <2>1. e = [pc |-> stack[current].sepc + 4, sp |-> stack[current].sscratch.off,
             a0 |-> stack[current].x.a0, rest |-> stack[current].x.rest]
    BY DEF InFrame
  <2>2. \A a : [InFrame(current) EXCEPT !.pc = @ + 4, !.a0 = a] = [e EXCEPT !.a0 = a]
    OBVIOUS
  <2> HIDE DEF e
  <2>3. [e EXCEPT !.a0 = child] = c /\ [e EXCEPT !.a0 = 0] = d
    BY <2>1
  <2>4. QED  BY <1>5, <2>2, <2>3
<1>8. all' = [all EXCEPT ![current].pc = @ + 4, ![current].a0 = child,
                         ![child] = [all[current] EXCEPT !.pc = @ + 4, !.a0 = 0]]
  <2> HIDE DEF c, d, child
  <2>1. ASSUME NEW t \in Pids
        PROVE  context(t)' = IF t = child THEN d ELSE IF t = current THEN c ELSE context(t)
    <3>1. CASE t = child
      BY <1>5, <3>1
    <3>2. CASE t = current
      BY <1>3, <1>5, <3>2
    <3>3. CASE t \notin {current, child}
      BY <1>6, <3>3
    <3>4. QED  BY <3>1, <3>2, <3>3
  <2>2. all' = [all EXCEPT ![current] = c, ![child] = d]
    BY <2>1
  <2>3. all[current] = context(current)
    BY <1>2
  <2>4. QED  BY <1>2, <1>3, <1>7, <2>2, <2>3
<1>9. child \in Pids \ (1 .. tasks_number) /\ 1 .. tasks_number' = (1 .. tasks_number) \cup {child}
  BY <1>1, <1>2, <1>3
<1>10. QED
  BY <1>1, <1>2, <1>8, <1>9 DEF Programs!Fork

LEMMA ReturnRefines == IInv /\ IInv' /\ __ret_from_fork => Programs!Return
<1> SUFFICES ASSUME IInv, IInv', __ret_from_fork  PROVE  Programs!Return
  OBVIOUS
<1>1. /\ phase = "__ret_from_fork" /\ phase' = "user"
      /\ UNCHANGED <<tasks_number, current, cause, stack, thread>>
  BY DEF __ret_from_fork
<1>2. InHart' = InFrame(current)
  BY ReturnEffect DEF InHart, InFrame
<1>3. ASSUME NEW t \in Pids  PROVE  context(t)' = context(t)
  BY <1>1, <1>2, ContextIs, ContextWillBe DEF ContextKnown, InFrame
<1>4. QED  BY <1>1, <1>3 DEF Programs!Return

LEMMA OtherRefines == IInv /\ IInv' /\ Other => Programs!Ignore
<1> SUFFICES ASSUME IInv, IInv', Other  PROVE  Programs!Ignore
  OBVIOUS
<1>1. /\ phase = "trap_handler" /\ cause = "other" /\ phase' = "__ret_from_fork"
      /\ UNCHANGED <<tasks_number, current, stack>>
  BY DEF Other
<1>2. ASSUME NEW t \in Pids  PROVE  context(t)' = context(t)
  BY <1>1, ContextIs, ContextWillBe DEF ContextKnown, InFrame
<1>3. QED  BY <1>1, <1>2 DEF Programs!Ignore

\* Each step is one of the programs, or is none of their concern.
LEMMA NextRefines == IInv /\ IInv' /\ [Next]_vars => [Programs!Next]_(Programs!vars)
<1> SUFFICES ASSUME IInv, IInv', [Next]_vars  PROVE  [Programs!Next]_(Programs!vars)
  OBVIOUS
<1>1. CASE Overrun \/ UNCHANGED vars
  BY <1>1 DEF Overrun, vars, Programs!vars, context
<1>2. QED
  BY <1>1, StartRefines, DummyRefines, RunRefines, TrapsRefine, TimerRefines, SyscallRefines,
     ForkRefines, OtherRefines, ReturnRefines
  DEF Next, Programs!Next

\* Traps, switches and forks are invisible to user programs, as long as the
\* kernel stack has room: registers come back as they were, an ecall is
\* stepped over once, and a child differs from its parent in a0 alone.
THEOREM TrapImplementsProcesses == Spec => ImplementsProcesses
BY InitRefines, NextRefines, TrapInvariant, PTL DEF Spec, ImplementsProcesses, Programs!Spec
=============================================================================
