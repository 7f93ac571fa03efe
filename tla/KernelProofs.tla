---------------------------- MODULE KernelProofs ----------------------------
(***************************************************************************)
(* Proofs about Kernel.  Every step of the kernel is a step of the         *)
(* scheduler and a step of user memory, or leaves them as they are, so     *)
(* what SchedProofs and CowProofs establish of each holds where one        *)
(* interrupts the other.                                                   *)
(***************************************************************************)
EXTENDS Kernel, TLAPS

\* SchedWait's history variable has no part in Kernel.
SP == INSTANCE SchedProofs WITH
        INIT_TASKS <- 1,
        waited     <- [i \in 0 .. NR_TASKS - 1 |-> 0]

\* In the terms of EagerFork, do_cow_fork is built in.
MP == INSTANCE CowProofs WITH
        current <- IF current = 0 THEN 1 ELSE current,
        Calls   <- {"do_cow_fork"},
        call    <- "do_cow_fork",
        lists   <- [p \in 1 .. NR_TASKS - 1 |-> [i \in 1 .. Len(mmap) |-> i]]

\* S and SP, and M and MP, are instances of the same definitions.
LEMMA SameSched ==
  /\ SP!SizeAssumption /\ SP!PriorityAssumption
  /\ S!Init => SP!Init
  /\ S!StartKernel => SP!StartKernel
  /\ S!TimerInterrupt => SP!TimerInterrupt
  /\ S!Fork => SP!Fork
  /\ SP!vars = schedVars
  /\ SP!TypeOK => S!TypeOK
<1>1. SP!SizeAssumption /\ SP!PriorityAssumption
  BY SchedAssumption
  DEF S!SizeAssumption, SP!SizeAssumption, S!PriorityAssumption, SP!PriorityAssumption,
      S!Pids, SP!Pids
<1>2. S!Init => SP!Init
  BY DEF S!Init, SP!Init, S!Slots, SP!Slots, S!idle, SP!idle
<1>3. \A c : S!schedule(c) => SP!schedule(c)
  BY DEF S!schedule, SP!schedule, S!flag, SP!flag, S!refill, SP!refill, S!next, SP!next,
         S!switch_to, SP!switch_to, S!Slots, SP!Slots
<1>4. S!StartKernel => SP!StartKernel
  BY <1>3 DEF S!StartKernel, SP!StartKernel, S!idle, SP!idle
<1>5. S!TimerInterrupt => SP!TimerInterrupt
  BY <1>3
  DEF S!TimerInterrupt, SP!TimerInterrupt, S!clock_set_next_event, SP!clock_set_next_event,
      S!sbi_set_timer, SP!sbi_set_timer, S!do_timer, SP!do_timer, S!idle, SP!idle
<1>6. S!Fork => SP!Fork
  BY DEF S!Fork, SP!Fork, S!FreeSlot, SP!FreeSlot, S!Slots, SP!Slots, S!idle, SP!idle,
         S!vars, SP!vars
<1>7. SP!vars = schedVars /\ (SP!TypeOK => S!TypeOK)
  BY DEF SP!vars, schedVars, S!TypeOK, SP!TypeOK, S!Slots, SP!Slots, S!Pids, SP!Pids,
         S!ReturnPoints, SP!ReturnPoints
<1>8. QED  BY <1>1, <1>2, <1>4, <1>5, <1>6, <1>7

\* The same of user memory: each helper is the same operator, and each
\* operation the same action.
LEMMA SameMemory ==
  /\ MP!SizeAssumption /\ MP!ProgramAssumption
  /\ M!Init => MP!Init
  /\ \A x : M!Access(x) => MP!Access(x)
  /\ \A x : M!PageFault(x) => MP!PageFault(x)
  /\ M!do_cow_fork => MP!do_cow_fork
  /\ \A t : M!Switch(t) => MP!Switch(t)
  /\ M!vars = MP!vars
<1>1. \A A : /\ M!IsFiniteSet(A) <=> MP!IsFiniteSet(A)
             /\ M!Cardinality(A) = MP!Cardinality(A)
  BY DEF M!Cardinality, MP!Cardinality, M!IsFiniteSet, MP!IsFiniteSet
<1>2. /\ M!Pids = MP!Pids /\ M!Frames = MP!Frames /\ M!Kinds = MP!Kinds
      /\ M!Pages = MP!Pages /\ M!Vmas = MP!Vmas /\ M!Invalid = MP!Invalid
      /\ M!NoAccess = MP!NoAccess /\ M!NoTlb = MP!NoTlb
  BY DEF M!Pids, MP!Pids, M!Frames, MP!Frames, M!Kinds, MP!Kinds, M!Pages, MP!Pages,
         M!Vmas, MP!Vmas, M!Invalid, MP!Invalid, M!NoAccess, MP!NoAccess, M!NoTlb, MP!NoTlb,
         M!PageOf, MP!PageOf
<1>3. MP!SizeAssumption /\ MP!ProgramAssumption
  BY <1>1, MemoryAssumption
  DEF M!SizeAssumption, MP!SizeAssumption, M!ProgramAssumption, MP!ProgramAssumption,
      M!Kinds, MP!Kinds
<1>4. M!Init => MP!Init
  BY <1>2 DEF M!Init, MP!Init
<1>5. /\ \A a : M!PageOf(a) = MP!PageOf(a)
      /\ \A a : M!Containing(a) = MP!Containing(a)
      /\ \A a : M!find_vma(a) = MP!find_vma(a)
      /\ \A i : M!vma_pages(i) = MP!vma_pages(i)
      /\ \A v : M!tables(v) = MP!tables(v)
      /\ \A e, x : M!Grants(e, x) <=> MP!Grants(e, x)
      /\ \A rc : M!alloc_page(rc) = MP!alloc_page(rc)
      /\ \A rc, f : M!put_page(rc, f) = MP!put_page(rc, f)
  BY <1>2
  DEF M!PageOf, MP!PageOf, M!Containing, MP!Containing, M!find_vma, MP!find_vma,
      M!vma_pages, MP!vma_pages,
      M!tables, MP!tables, M!Grants, MP!Grants, M!alloc_page, MP!alloc_page,
      M!put_page, MP!put_page, M!Vmas, MP!Vmas
<1>6. /\ \A entries : M!TablesOf(entries) = MP!TablesOf(entries)
      /\ \A entries : M!Mapped(entries) = MP!Mapped(entries)
  BY <1>2, <1>5 DEF M!TablesOf, MP!TablesOf, M!Mapped, MP!Mapped
<1>7. M!KernelPages = MP!KernelPages
  BY <1>1, <1>6 DEF M!KernelPages, MP!KernelPages
<1>8. \A n : M!Room(n) <=> MP!Room(n)
  BY <1>1, <1>2, <1>7 DEF M!Room, MP!Room, M!PagesInUse, MP!PagesInUse
<1>9. /\ \A x : M!translate(x) = MP!translate(x)
      /\ \A x : M!Faults(x) <=> MP!Faults(x)
      /\ \A x : M!Issues(x) <=> MP!Issues(x)
      /\ \A x, vma : M!Allowed(x, vma) <=> MP!Allowed(x, vma)
      /\ \A x : M!CowFault(x) <=> MP!CowFault(x)
      /\ \A f : M!SoleUser(f) <=> MP!SoleUser(f)
      /\ M!sfence = MP!sfence
      /\ \A why, x : M!Halt(why, x) <=> MP!Halt(why, x)
  BY <1>2, <1>5
  DEF M!translate, MP!translate, M!Faults, MP!Faults, M!Issues, MP!Issues,
      M!Allowed, MP!Allowed, M!CowFault, MP!CowFault, M!SoleUser, MP!SoleUser,
      M!sfence, MP!sfence, M!Halt, MP!Halt
<1>10. ASSUME NEW x  PROVE  M!Access(x) => MP!Access(x)
  BY <1>2, <1>5, <1>9 DEF M!Access, MP!Access
<1>11. ASSUME NEW x  PROVE  M!PageFault(x) => MP!PageFault(x)
  <2>1. \A vma : M!BadAccess(x, vma) => MP!BadAccess(x, vma)
    BY <1>9 DEF M!BadAccess, MP!BadAccess
  <2>2. \A vma : M!FirstTouch(x, vma) => MP!FirstTouch(x, vma)
    BY <1>1, <1>2, <1>5, <1>6, <1>8, <1>9 DEF M!FirstTouch, MP!FirstTouch
  <2>3. \A vma : M!MakeWritable(x, vma) => MP!MakeWritable(x, vma)
    BY <1>2, <1>5, <1>8, <1>9 DEF M!MakeWritable, MP!MakeWritable
  <2>4. \A vma : M!CopyPage(x, vma) => MP!CopyPage(x, vma)
    BY <1>2, <1>5, <1>8, <1>9 DEF M!CopyPage, MP!CopyPage
  <2>5. \A vma : M!NotCow(x, vma) => MP!NotCow(x, vma)
    BY <1>2, <1>5, <1>9 DEF M!NotCow, MP!NotCow
  <2>6. \A vma : M!do_page_fault(x, vma) => MP!do_page_fault(x, vma)
    BY <1>9, <2>1, <2>2, <2>3, <2>4, <2>5 DEF M!do_page_fault, MP!do_page_fault
  <2>7. QED  BY <1>5, <2>6 DEF M!PageFault, MP!PageFault
<1>12. M!do_cow_fork => MP!do_cow_fork
  <2>1. M!Shared = MP!Shared
    BY <1>2, <1>5, <1>6 DEF M!Shared, MP!Shared
  <2>2. /\ \A entries : M!ReadOnly(entries) = MP!ReadOnly(entries)
        /\ \A f : M!Visits(f) = MP!Visits(f)
    BY <1>2, <1>5, <2>1 DEF M!ReadOnly, MP!ReadOnly, M!Visits, MP!Visits
  <2>3. \A rc : M!get_pages(rc) = MP!get_pages(rc)
    BY <1>1, <1>2, <2>2 DEF M!get_pages, MP!get_pages
  <2>4. M!ForkFails => MP!ForkFails
    BY <1>2, <1>8, <1>9 DEF M!ForkFails, MP!ForkFails
  <2>5. M!ForkSucceeds => MP!ForkSucceeds
    <3>1. M!Cardinality(UNION {M!tables(v) : v \in M!Shared})
          = MP!Cardinality(UNION {MP!tables(v) : v \in MP!Shared})
      BY <1>1, <1>5, <2>1
    <3>2. /\ \A e : [v \in M!Pages |-> IF v \in M!Shared THEN M!ReadOnly(e)[v] ELSE M!Invalid]
                    = [v \in MP!Pages |-> IF v \in MP!Shared THEN MP!ReadOnly(e)[v] ELSE MP!Invalid]
          /\ M!Halt("oom", M!NoAccess) => MP!Halt("oom", MP!NoAccess)
      BY <1>2, <1>9, <2>1, <2>2
    <3>3. QED
      BY <1>2, <1>8, <1>9, <2>2, <2>3, <3>1, <3>2 DEF M!ForkSucceeds, MP!ForkSucceeds
  <2>6. QED  BY <1>2, <2>4, <2>5 DEF M!do_cow_fork, MP!do_cow_fork
<1>13. ASSUME NEW t  PROVE  M!Switch(t) => MP!Switch(t)
  BY <1>9 DEF M!Switch, MP!Switch
<1>14. M!vars = MP!vars
  BY DEF M!vars, MP!vars
<1>15. QED
  BY <1>3, <1>4, <1>10, <1>11, <1>12, <1>13, <1>14

-----------------------------------------------------------------------------
\* Each step is one of the scheduler, or none.
LEMMA NextIsSched == [Next]_vars => [SP!Next]_(SP!vars)
<1> SUFFICES ASSUME [Next]_vars  PROVE  [SP!Next]_(SP!vars)
  OBVIOUS
<1>1. S!StartKernel \/ S!TimerInterrupt \/ S!Fork \/ UNCHANGED schedVars
  BY DEF Next, vars, StartKernel, Tick, Switch, UserAccess, Fork, Spin
<1>2. QED  BY <1>1, SameSched DEF SP!Next, SP!vars, schedVars

\* So a behavior of the kernel is one of the scheduler.
LEMMA KernelSched == Spec => SP!Spec
<1>1. Init => SP!Init
  BY SameSched DEF Init
<1>2. QED  BY <1>1, NextIsSched, PTL DEF Spec, SP!Spec

\* Until the CPU is given to a task there is only the one that will have it.
FirstIsOne == current = 0 => tasks_number = 1

\* task_init makes one task.
LEMMA InitFirst == Init => FirstIsOne
BY DEF Init, S!Init, FirstIsOne

\* What a step does to current, from a state the scheduler can be in.
LEMMA CurrentAfter ==
  SP!IInv /\ SP!IInv' /\ [Next]_vars =>
    /\ current = 0 => current' \in {0, 1} \/ tasks_number # 1
    /\ current # 0 => current' # 0
    /\ current = 0 => tasks_number' = tasks_number
<1> SUFFICES ASSUME SP!IInv, SP!IInv', [Next]_vars
             PROVE  /\ current = 0 => current' \in {0, 1} \/ tasks_number # 1
                    /\ current # 0 => current' # 0
                    /\ current = 0 => tasks_number' = tasks_number
  OBVIOUS
<1>1. S!StartKernel \/ S!TimerInterrupt \/ S!Fork \/ UNCHANGED schedVars
  BY DEF Next, vars, StartKernel, Tick, Switch, UserAccess, Fork, Spin
<1>2. tasks_number \in Nat
  BY SameSched DEF SP!IInv, SP!TypeOK, SP!Pids, SP!SizeAssumption
<1>3. CASE S!StartKernel
  <2>1. current = 0 /\ tasks_number' = tasks_number
    BY <1>3 DEF S!StartKernel, S!idle
  <2>2. current' # 0 => current' \in 1 .. tasks_number'
    BY DEF SP!IInv, SP!RunningHasCredit, SP!idle
  <2>3. QED  BY <1>2, <2>1, <2>2
<1>4. CASE S!TimerInterrupt
  <2>1. current # 0
    BY <1>4 DEF S!TimerInterrupt, S!idle
  <2>2. current' \in 1 .. tasks_number
    BY <1>4, SameSched, SP!IdleIsNotScheduled
  <2>3. QED  BY <1>2, <2>1, <2>2
<1>5. CASE S!Fork
  BY <1>5 DEF S!Fork, S!idle, S!vars
<1>6. CASE UNCHANGED schedVars
  BY <1>6 DEF schedVars
<1>7. QED  BY <1>1, <1>3, <1>4, <1>5, <1>6

\* The CPU never goes back to idle, and only a task can fork.
LEMMA NextFirst == SP!IInv /\ SP!IInv' /\ FirstIsOne /\ [Next]_vars => FirstIsOne'
BY CurrentAfter DEF FirstIsOne

\* So what the scheduler keeps and FirstIsOne hold throughout.
LEMMA KernelFirst == Spec => [](SP!IInv /\ FirstIsOne)
BY KernelSched, SameSched, SP!SchedInvariant, InitFirst, NextFirst, PTL DEF Spec

\* Each step is one of user memory, or none: giving the CPU to the first task
\* finds the hart as that task would have left it.
LEMMA NextIsMemory ==
  SP!IInv /\ SP!IInv' /\ FirstIsOne /\ [Next]_vars => [MP!Next]_(MP!vars)
<1> SUFFICES ASSUME SP!IInv, SP!IInv', FirstIsOne, [Next]_vars
             PROVE  MP!Next \/ UNCHANGED MP!vars
  OBVIOUS
<1>1. /\ current = 0 => current' \in {0, 1}
      /\ current # 0 => current' # 0
      /\ current = 0 => tasks_number' = tasks_number
  BY CurrentAfter DEF FirstIsOne
<1>2. CASE StartKernel
  <2>1. current = 0 /\ UNCHANGED memoryVars
    BY <1>2 DEF StartKernel, S!StartKernel, S!idle
  <2>2. QED  BY <1>1, <2>1 DEF MP!vars, memoryVars
<1>3. CASE Tick
  BY <1>3 DEF Tick, S!TimerInterrupt, MP!vars, memoryVars
<1>4. CASE Switch
  <2>1. M!Switch(current') /\ current # 0
    BY <1>4 DEF Switch, S!TimerInterrupt, S!idle
  <2>2. current' \in MP!Pids
    <3>1. current' \in 1 .. tasks_number /\ tasks_number \in 1 .. NR_TASKS - 1
      BY <1>4, SameSched, SP!IdleIsNotScheduled DEF Switch, SP!IInv, SP!TypeOK, SP!Pids
    <3>2. QED  BY <3>1, SameMemory DEF MP!Pids, MP!SizeAssumption
  <2>3. QED  BY <2>1, <2>2, SameMemory DEF MP!Next
<1>5. CASE \E x \in Program : UserAccess(x)
  BY <1>5, SameMemory DEF UserAccess, MP!Next
<1>6. CASE Fork
  BY <1>6, SameMemory DEF Fork, MP!Next
<1>7. CASE Spin \/ UNCHANGED vars
  BY <1>7 DEF Spin, vars, schedVars, memoryVars, MP!vars
<1>8. QED  BY <1>2, <1>3, <1>4, <1>5, <1>6, <1>7 DEF Next

\* So a behavior of the kernel is one of user memory.
LEMMA KernelMemory == Spec => MP!Spec
<1>1. Init => MP!Init
  BY SameMemory DEF Init
<1>2. QED  BY <1>1, KernelFirst, NextIsMemory, PTL DEF Spec, MP!Spec

-----------------------------------------------------------------------------
\* The properties of Kernel, which are those of its parts.
LEMMA SameProperties ==
  /\ MP!TypeOK => M!TypeOK
  /\ MP!RefCovers => M!RefCovers
  /\ MP!WritableIsExclusive => M!WritableIsExclusive
  /\ MP!TlbSafe => M!TlbSafe
  /\ MP!StoppedOnlyIfIllegal => M!StoppedOnlyIfIllegal
  /\ M!AreasDescend => MP!AreasDescend
  /\ M!SamePermission => MP!SamePermission
<1>1. \A A : M!Cardinality(A) = MP!Cardinality(A)
  BY DEF M!Cardinality, MP!Cardinality, M!IsFiniteSet, MP!IsFiniteSet
<1>2. /\ M!Pids = MP!Pids /\ M!Frames = MP!Frames /\ M!Kinds = MP!Kinds
      /\ M!Pages = MP!Pages /\ M!Vmas = MP!Vmas /\ M!Invalid = MP!Invalid
      /\ M!NoAccess = MP!NoAccess /\ \A a : M!PageOf(a) = MP!PageOf(a)
  BY DEF M!Pids, MP!Pids, M!Frames, MP!Frames, M!Kinds, MP!Kinds, M!Pages, MP!Pages,
         M!Vmas, MP!Vmas, M!Invalid, MP!Invalid, M!NoAccess, MP!NoAccess,
         M!PageOf, MP!PageOf
<1>3. /\ \A a : M!find_vma(a) = MP!find_vma(a)
      /\ \A i : M!vma_pages(i) = MP!vma_pages(i)
      /\ \A f : M!Users(f) = MP!Users(f)
  BY <1>2
  DEF M!Containing, MP!Containing, M!find_vma, MP!find_vma, M!vma_pages, MP!vma_pages,
      M!Users, MP!Users
<1>4. MP!TypeOK => M!TypeOK
  BY <1>2 DEF M!TypeOK, MP!TypeOK, M!PTE, MP!PTE
<1>5. MP!RefCovers => M!RefCovers
  BY <1>1, <1>2, <1>3 DEF M!RefCovers, MP!RefCovers
<1>6. MP!WritableIsExclusive => M!WritableIsExclusive
  BY <1>2 DEF M!WritableIsExclusive, MP!WritableIsExclusive
<1>7. MP!TlbSafe => M!TlbSafe
  BY <1>2 DEF M!TlbSafe, MP!TlbSafe
<1>8. MP!StoppedOnlyIfIllegal => M!StoppedOnlyIfIllegal
  BY <1>2 DEF M!StoppedOnlyIfIllegal, MP!StoppedOnlyIfIllegal, M!Legal, MP!Legal
<1>9. M!AreasDescend => MP!AreasDescend
  BY <1>2 DEF M!AreasDescend, MP!AreasDescend
<1>10. M!SamePermission => MP!SamePermission
  BY <1>2, <1>3 DEF M!SamePermission, MP!SamePermission
<1>11. QED  BY <1>4, <1>5, <1>6, <1>7, <1>8, <1>9, <1>10

\* The types of the task table and of user memory.
THEOREM KernelTypeOK == Spec => []TypeOK
<1>1. SP!TypeOK /\ MP!TypeOK => TypeOK
  BY SameSched, SameProperties DEF TypeOK
<1>2. QED
  BY <1>1, KernelSched, KernelMemory, SameSched, SameMemory, SP!SchedTypeOK, MP!CowTypeOK, PTL

\* Wherever the timer takes the CPU away, a page is referred to as often as it
\* is mapped (syscall.c:247).
THEOREM KernelRefCovers == Spec => []RefCovers
<1>1. MP!RefCovers => RefCovers
  BY SameProperties DEF RefCovers
<1>2. QED  BY <1>1, KernelMemory, SameMemory, MP!CowRefCovers, PTL

\* Wherever the timer takes the CPU away, a task can store only to pages that
\* no other entry leads to (trap.c:128, syscall.c:247).
THEOREM KernelWritableIsExclusive == Spec => []WritableIsExclusive
<1>1. MP!WritableIsExclusive => WritableIsExclusive
  BY SameProperties DEF WritableIsExclusive
<1>2. QED  BY <1>1, KernelMemory, SameMemory, MP!CowWritableIsExclusive, PTL

\* A page that was mapped is never given back (trap.c:128, vm.c:129).
THEOREM KernelNeverReused == Spec => NeverReused
<1> DEFINE Kept == \A f \in M!Frames : ref_cnt[f] > 0 => ref_cnt'[f] > 0
           KeptP == \A f \in MP!Frames : ref_cnt[f] > 0 => ref_cnt'[f] > 0
<1>1. [KeptP]_(MP!vars) => [Kept]_(M!vars)
  BY DEF M!Frames, MP!Frames, M!vars, MP!vars
<1>2. MP!NeverReused => M!NeverReused
  BY <1>1, PTL DEF M!NeverReused, MP!NeverReused
<1>3. QED  BY <1>2, KernelMemory, SameMemory, MP!CowNeverReused, PTL DEF NeverReused

\* Nobody ends up in untrapped_handler for a legal access, wherever the timer
\* and forks come between a fault and its retry (trap.c:233).
THEOREM KernelStoppedOnlyIfIllegal ==
  ASSUME M!AreasDescend, M!SamePermission, ~ StrictTlb
  PROVE  Spec => []StoppedOnlyIfIllegal
<1>1. MP!AreasDescend /\ MP!SamePermission
  BY SameProperties
<1>2. MP!StoppedOnlyIfIllegal => StoppedOnlyIfIllegal
  BY SameProperties DEF StoppedOnlyIfIllegal
<1>3. MP!Spec => []MP!StoppedOnlyIfIllegal
  BY <1>1, SameMemory, MP!CowStoppedOnlyIfIllegal
<1>4. QED  BY <1>2, <1>3, KernelMemory, PTL

-----------------------------------------------------------------------------
\* The rounds of FairShare, seen through S and through SP.
LEMMA SameShares ==
  /\ SP!Shares!Init => S!Shares!Init
  /\ [SP!Shares!Next]_(SP!Shares!vars) => [S!Shares!Next]_(S!Shares!vars)
<1>1. S!Pids = SP!Pids /\ S!idle = SP!idle
  BY DEF S!Pids, SP!Pids, S!idle, SP!idle
<1>2. SP!Shares!Init => S!Shares!Init
  BY <1>1 DEF SP!Shares!Init, S!Shares!Init
<1>3. /\ \A c : S!Shares!NewRound(c) = SP!Shares!NewRound(c)
      /\ \A c : S!Shares!Exhausted(c) <=> SP!Shares!Exhausted(c)
  BY <1>1
  DEF S!Shares!NewRound, SP!Shares!NewRound, S!Shares!Exhausted, SP!Shares!Exhausted
<1>4. SP!Shares!Start => S!Shares!Start
  BY <1>1, <1>3 DEF SP!Shares!Start, S!Shares!Start
<1>5. SP!Shares!Tick => S!Shares!Tick
  BY <1>1, <1>3 DEF SP!Shares!Tick, S!Shares!Tick
<1>6. \A t : SP!Shares!Spawn(t) => S!Shares!Spawn(t)
  BY <1>1 DEF SP!Shares!Spawn, S!Shares!Spawn
<1>7. UNCHANGED SP!Shares!vars => UNCHANGED S!Shares!vars
  BY <1>1 DEF SP!Shares!vars, S!Shares!vars
<1>8. QED
  BY <1>1, <1>2, <1>4, <1>5, <1>6, <1>7 DEF SP!Shares!Next, S!Shares!Next

\* The whole kernel is fair to tasks as the scheduler alone is.
THEOREM KernelImplementsFairShare == Spec => S!ImplementsFairShare
<1>1. SP!Shares!Spec => S!Shares!Spec
  BY SameShares, PTL DEF SP!Shares!Spec, S!Shares!Spec
<1>2. SP!Spec => SP!Shares!Spec
  BY SameSched, SP!SchedImplementsFairShare DEF SP!ImplementsFairShare
<1>3. QED  BY <1>1, <1>2, KernelSched, PTL DEF S!ImplementsFairShare

\* The private memories, seen through M and through MP.
LEMMA SamePrivate ==
  /\ MP!Private!Init => M!Private!Init
  /\ [MP!Private!Next]_(MP!Private!vars) => [M!Private!Next]_(M!Private!vars)
<1>1. /\ M!Pids = MP!Pids /\ M!Vmas = MP!Vmas /\ M!Invalid = MP!Invalid
      /\ \A a : M!PageOf(a) = MP!PageOf(a)
      /\ M!Pages = MP!Pages
  BY DEF M!Pids, MP!Pids, M!Pages, MP!Pages, M!Vmas, MP!Vmas, M!Invalid, MP!Invalid,
         M!PageOf, MP!PageOf
<1>2. \A i : M!vma_pages(i) = MP!vma_pages(i)
  BY <1>1 DEF M!vma_pages, MP!vma_pages
<1>3. M!UserPages = MP!UserPages
  BY <1>1, <1>2 DEF M!UserPages, MP!UserPages
<1>4. \A p, v : M!View(p, v) = MP!View(p, v)
  BY <1>1 DEF M!View, MP!View
<1> DEFINE Mem   == [p \in M!Pids |-> [v \in M!UserPages |-> M!View(p, v)]]
           MemP  == [p \in MP!Pids |-> [v \in MP!UserPages |-> MP!View(p, v)]]
           Open  == UNION {M!vma_pages(i) : i \in {j \in M!Vmas : "W" \in mmap[j].vm_flags}}
           OpenP == UNION {MP!vma_pages(i) : i \in {j \in MP!Vmas : "W" \in mmap[j].vm_flags}}
<1>5. Mem = MemP /\ Open = OpenP
  BY <1>1, <1>2, <1>3, <1>4
<1>6. Mem' = MemP'
  <2>1. \A p, v : M!View(p, v)' = MP!View(p, v)'
    BY <1>1 DEF M!View, MP!View
  <2>2. QED  BY <1>1, <1>3, <2>1
<1>7. M!Private!Blank = MP!Private!Blank
  BY <1>3 DEF M!Private!Blank, MP!Private!Blank
<1>8. MP!Private!Init => M!Private!Init
  BY <1>1, <1>5, <1>7 DEF M!Private!Init, MP!Private!Init
<1>9. \A t, v : MP!Private!Touch(t, v) => M!Private!Touch(t, v)
  BY <1>5, <1>6 DEF M!Private!Touch, MP!Private!Touch
<1>10. \A t, v : MP!Private!Store(t, v) => M!Private!Store(t, v)
  BY <1>5, <1>6 DEF M!Private!Store, MP!Private!Store
<1>11. \A t, c : MP!Private!Fork(t, c) => M!Private!Fork(t, c)
  BY <1>1, <1>5, <1>6 DEF M!Private!Fork, MP!Private!Fork
<1>12. UNCHANGED MP!Private!vars => UNCHANGED M!Private!vars
  BY <1>5, <1>6 DEF M!Private!vars, MP!Private!vars
<1>13. QED
  BY <1>1, <1>3, <1>8, <1>9, <1>10, <1>11, <1>12 DEF M!Private!Next, MP!Private!Next

\* In the whole kernel, with the timer between any two accesses, every task
\* has a memory of its own (proc.h:115, syscall.c:247).
THEOREM KernelImplementsPrivateMemory ==
  ASSUME M!SamePermission
  PROVE  Spec => M!ImplementsPrivateMemory
<1>1. MP!Private!Spec => M!Private!Spec
  BY SamePrivate, PTL DEF MP!Private!Spec, M!Private!Spec
<1>2. MP!SamePermission
  BY SameProperties
<1>3. MP!Spec => MP!Private!Spec
  BY <1>2, SameMemory, MP!CowImplementsPrivateMemory DEF MP!ImplementsPrivateMemory
<1>4. QED  BY <1>1, <1>3, KernelMemory, PTL DEF M!ImplementsPrivateMemory
=============================================================================
