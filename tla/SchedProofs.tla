---------------------------- MODULE SchedProofs ----------------------------
(***************************************************************************)
(* Proofs about Sched and SchedWait, for every size of the task table and  *)
(* every range of priorities.                                              *)
(***************************************************************************)
EXTENDS SchedWait, ProofBasics

\* The scan of schedule() finds an entry: the first of those with the
\* largest counter, which is not 0 when some counter is not 0.
LEMMA NextIsABest ==
  ASSUME NEW n \in Pids, NEW c \in [Slots -> 0 .. PRIORITY_MAX], tasks_number = n
  PROVE  /\ next(c) \in 1 .. n
         /\ \A j \in 1 .. n : c[j] <= c[next(c)]
         /\ \A j \in 1 .. n : c[j] < c[next(c)] \/ next(c) <= j
<1>1. PICK b \in 1 .. n : \A j \in 1 .. n : c[j] <= c[b]
  <2> DEFINE D == {PRIORITY_MAX - c[i] : i \in 1 .. n}
  <2>1. \A i \in 1 .. n : i \in Slots /\ c[i] \in 0 .. PRIORITY_MAX
    BY SizeAssumption DEF Pids, Slots
  <2>2. D \in SUBSET Nat /\ D # {}
    BY <2>1, PriorityAssumption, 1 \in 1 .. n DEF Pids
  <2>3. PICK d \in D : \A e \in D : d <= e
    BY <2>2, LeastNat
  <2>4. PICK i \in 1 .. n : d = PRIORITY_MAX - c[i]
    OBVIOUS
  <2>5. \A j \in 1 .. n : PRIORITY_MAX - c[i] <= PRIORITY_MAX - c[j]
    BY <2>3, <2>4
  <2>6. \A j \in 1 .. n : c[j] <= c[i]
    BY <2>1, <2>5, PriorityAssumption
  <2>7. QED  BY <2>6
<1>2. PICK i \in {i \in 1 .. n : c[i] = c[b]} : \A j \in {k \in 1 .. n : c[k] = c[b]} : i <= j
  <2> DEFINE B == {i \in 1 .. n : c[i] = c[b]}
  <2>1. B \in SUBSET Nat /\ B # {}
    BY DEF Pids
  <2>2. QED  BY <2>1, LeastNat
<1>3. \A j \in 1 .. n : c[j] < c[i] \/ (c[j] = c[i] /\ i <= j)
  BY <1>1, <1>2, SizeAssumption, PriorityAssumption DEF Pids, Slots
<1>4. /\ next(c) \in 1 .. n
      /\ \A j \in 1 .. n : c[j] < c[next(c)] \/ (c[j] = c[next(c)] /\ next(c) <= j)
  BY <1>3 DEF next
<1>5. \A j \in 1 .. n : j \in Slots /\ c[j] \in Nat
  BY SizeAssumption, PriorityAssumption DEF Pids, Slots
<1>6. \A j \in 1 .. n : c[j] <= c[next(c)]
  <2> TAKE j \in 1 .. n
  <2>1. c[j] \in Nat /\ c[next(c)] \in Nat
    BY <1>4, <1>5
  <2>2. c[j] < c[next(c)] \/ c[j] = c[next(c)]
    BY <1>4
  <2>3. QED  BY <2>1, <2>2
<1>7. QED
  BY <1>4, <1>6

-----------------------------------------------------------------------------
\* The strengthening.  A refill puts somebody above 0 only because every
\* entry in use has a priority of at least PRIORITY_MIN; and start_kernel opens
\* a round only because the boot flow never touches a counter.
PrioritiesInRange == \A i \in 1 .. tasks_number : priority[i] \in PRIORITY_MIN .. PRIORITY_MAX

BootCounters == current = idle => \A i \in Slots : counter[i] = 0

IInv ==
  /\ TypeOK
  /\ TableDense
  /\ RunningHasCredit
  /\ PrioritiesInRange
  /\ BootCounters

\* What a call of schedule() does, in a state of IInv: the counters stay in
\* range, and the task it picks is in the table, has credit, and is the first
\* of those with the most.
LEMMA ScheduleEffect ==
  ASSUME IInv, NEW c \in [Slots -> 0 .. PRIORITY_MAX], schedule(c)
  PROVE  /\ counter' = IF flag(c) THEN c ELSE refill(c)
         /\ counter' \in [Slots -> 0 .. PRIORITY_MAX]
         /\ current' \in 1 .. tasks_number
         /\ counter'[current'] > 0
         /\ ra' \in [Slots -> ReturnPoints]
         /\ \A j \in 1 .. tasks_number : counter'[j] <= counter'[current']
         /\ \A j \in 1 .. tasks_number : counter'[j] < counter'[current'] \/ current' <= j
<1> DEFINE c2 == IF flag(c) THEN c ELSE refill(c)
<1>1. counter' = c2 /\ switch_to(next(c2))
  BY DEF schedule
<1>2. tasks_number \in Pids /\ \A i \in 1 .. tasks_number : i \in Slots
  BY SizeAssumption DEF IInv, TypeOK, Pids, Slots
<1>3. refill(c) \in [Slots -> 0 .. PRIORITY_MAX]
  BY <1>2, PriorityAssumption DEF refill, IInv, TypeOK
<1>4. c2 \in [Slots -> 0 .. PRIORITY_MAX]
  BY <1>3
<1>5. \E i \in 1 .. tasks_number : c2[i] > 0
  <2>1. CASE flag(c)
    BY <2>1 DEF flag
  <2>2. CASE ~ flag(c)
    <3>1. 1 \in 1 .. tasks_number /\ 1 \in Slots
      BY <1>2 DEF Pids
    <3>2. c2[1] = priority[1]
      BY <2>2, <3>1 DEF refill
    <3>3. priority[1] > 0
      BY <3>1, PriorityAssumption DEF IInv, PrioritiesInRange
    <3>4. QED  BY <3>1, <3>2, <3>3
  <2>3. QED  BY <2>1, <2>2
<1> HIDE DEF c2
<1>6. /\ next(c2) \in 1 .. tasks_number
      /\ \A j \in 1 .. tasks_number : c2[j] <= c2[next(c2)]
      /\ \A j \in 1 .. tasks_number : c2[j] < c2[next(c2)] \/ next(c2) <= j
  BY <1>2, <1>4, NextIsABest
<1>7. c2[next(c2)] > 0
  BY <1>2, <1>4, <1>5, <1>6, PriorityAssumption
<1>8. current' = next(c2) /\ ra' \in [Slots -> ReturnPoints]
  BY <1>1 DEF switch_to, IInv, TypeOK, ReturnPoints
<1>9. QED
  BY <1>1, <1>4, <1>6, <1>7, <1>8 DEF c2

\* The initial states satisfy the strengthening.
LEMMA InitIInv == Init => IInv
<1> SUFFICES ASSUME Init  PROVE  IInv
  OBVIOUS
<1>1. PICK prio \in [1 .. INIT_TASKS -> PRIORITY_MIN .. PRIORITY_MAX] :
        priority = [i \in Slots |-> IF i \in 1 .. INIT_TASKS THEN prio[i] ELSE 0]
  BY DEF Init
<1>2. \A i \in 1 .. INIT_TASKS : i \in Slots
  BY SizeAssumption DEF Pids, Slots
<1>3. TypeOK
  <2>1. task \subseteq Slots /\ tasks_number \in Pids /\ current \in Slots
    BY SizeAssumption DEF Init, Pids, Slots, idle
  <2>2. counter \in [Slots -> 0 .. PRIORITY_MAX]
    BY PriorityAssumption DEF Init
  <2>3. priority \in [Slots -> 0 .. PRIORITY_MAX]
    BY <1>1, PriorityAssumption
  <2>4. ra \in [Slots -> ReturnPoints] /\ armed \in BOOLEAN
    BY DEF Init, ReturnPoints
  <2>5. QED  BY <2>1, <2>2, <2>3, <2>4 DEF TypeOK
<1>4. TableDense /\ RunningHasCredit /\ BootCounters
  BY DEF Init, TableDense, RunningHasCredit, BootCounters
<1>5. PrioritiesInRange
  BY <1>1, <1>2 DEF Init, PrioritiesInRange
<1>6. QED  BY <1>3, <1>4, <1>5 DEF IInv

\* start_kernel keeps it.
LEMMA StartKernelIInv ==
  ASSUME IInv, StartKernel
  PROVE  IInv'
<1>1. counter \in [Slots -> 0 .. PRIORITY_MAX] /\ schedule(counter)
  BY DEF IInv, TypeOK, StartKernel
<1>2. /\ counter' \in [Slots -> 0 .. PRIORITY_MAX]
      /\ current' \in 1 .. tasks_number
      /\ counter'[current'] > 0
      /\ ra' \in [Slots -> ReturnPoints]
  BY <1>1, ScheduleEffect
<1>3. QED
  BY <1>2, SizeAssumption
  DEF StartKernel, IInv, TypeOK, TableDense, RunningHasCredit, PrioritiesInRange,
      BootCounters, Slots, Pids, idle

\* The timer branch of trap_handler keeps it.
LEMMA TimerInterruptIInv ==
  ASSUME IInv, TimerInterrupt
  PROVE  IInv'
<1> DEFINE c == [counter EXCEPT ![current] = @ - 1]
<1>1. current \in Slots /\ current \in 1 .. tasks_number /\ counter[current] > 0
  BY DEF TimerInterrupt, IInv, TypeOK, RunningHasCredit
<1>2. c \in [Slots -> 0 .. PRIORITY_MAX]
  BY <1>1, PriorityAssumption DEF IInv, TypeOK
<1>3. \/ c[current] = 0 /\ schedule(c)
      \/ c[current] # 0 /\ counter' = c /\ UNCHANGED <<current, ra>>
  BY <1>1 DEF TimerInterrupt, do_timer
<1>4. /\ counter' \in [Slots -> 0 .. PRIORITY_MAX]
      /\ current' \in 1 .. tasks_number
      /\ counter'[current'] > 0
      /\ ra' \in [Slots -> ReturnPoints]
  <2>1. CASE c[current] = 0 /\ schedule(c)
    <3> HIDE DEF c
    <3>1. QED  BY <1>2, <2>1, ScheduleEffect
  <2>2. CASE c[current] # 0 /\ counter' = c /\ UNCHANGED <<current, ra>>
    BY <1>1, <1>2, <2>2, PriorityAssumption DEF IInv, TypeOK
  <2>3. QED  BY <1>3, <2>1, <2>2
<1>5. QED
  BY <1>4, SizeAssumption
  DEF TimerInterrupt, clock_set_next_event, sbi_set_timer,
      IInv, TypeOK, TableDense, RunningHasCredit, PrioritiesInRange,
      BootCounters, Slots, Pids, idle

\* Nothing gives the CPU back to the idle task: a timer interrupt ends in a
\* task of the table.
LEMMA IdleIsNotScheduled == IInv /\ TimerInterrupt => current' \in 1 .. tasks_number
<1> SUFFICES ASSUME IInv, TimerInterrupt  PROVE  current' \in 1 .. tasks_number
  OBVIOUS
<1> DEFINE c == [counter EXCEPT ![current] = @ - 1]
<1>1. current \in Slots /\ current \in 1 .. tasks_number /\ counter[current] > 0
  BY DEF TimerInterrupt, IInv, TypeOK, RunningHasCredit
<1>2. c \in [Slots -> 0 .. PRIORITY_MAX]
  BY <1>1, PriorityAssumption DEF IInv, TypeOK
<1>3. schedule(c) \/ UNCHANGED current
  BY <1>1 DEF TimerInterrupt, do_timer
<1> HIDE DEF c
<1>4. QED  BY <1>1, <1>2, <1>3, ScheduleEffect

\* In a dense table the first NULL entry is the one past tasks_number.
LEMMA FreeSlotIsNext ==
  ASSUME IInv, NEW i \in Slots, FreeSlot(i)
  PROVE  i = tasks_number + 1
<1>1. NR_TASKS \in Nat /\ tasks_number \in Nat /\ i \in Nat /\ task = 0 .. tasks_number
  BY SizeAssumption DEF IInv, TypeOK, TableDense, Slots, Pids
<1>2. i > tasks_number
  BY <1>1 DEF FreeSlot
<1>3. tasks_number + 1 \in Slots \ task
  BY <1>1, <1>2 DEF Slots
<1>4. i <= tasks_number + 1
  BY <1>3 DEF FreeSlot
<1>5. QED  BY <1>1, <1>2, <1>4

\* do_cow_fork keeps it.
LEMMA ForkIInv ==
  ASSUME IInv, Fork
  PROVE  IInv'
<1>1. CASE UNCHANGED vars
  BY <1>1 DEF vars, IInv, TypeOK, TableDense, RunningHasCredit, PrioritiesInRange, BootCounters
<1>2. ASSUME NEW i \in Slots, FreeSlot(i),
             task' = task \cup {i}, tasks_number' = i,
             counter' = [counter EXCEPT ![i] = counter[current]],
             priority' = [priority EXCEPT ![i] = priority[current]],
             ra' = [ra EXCEPT ![i] = "__ret_from_fork"],
             UNCHANGED <<current, armed>>
      PROVE  IInv'
  <2>1. i = tasks_number + 1
    BY <1>2, FreeSlotIsNext
  <2>2. current # idle /\ current \in 1 .. tasks_number /\ current \in Slots /\ counter[current] > 0
    BY DEF Fork, IInv, TypeOK, RunningHasCredit
  <2>3. TypeOK'
    BY <1>2, <2>1, <2>2, SizeAssumption DEF IInv, TypeOK, ReturnPoints, Slots, Pids
  <2>4. TableDense'
    BY <1>2, <2>1, SizeAssumption DEF IInv, TypeOK, TableDense, Slots, Pids
  <2>5. RunningHasCredit' /\ BootCounters'
    BY <1>2, <2>1, <2>2, SizeAssumption
    DEF IInv, TypeOK, RunningHasCredit, BootCounters, Slots, Pids
  <2>6. PrioritiesInRange'
    <3>1. priority[current] \in PRIORITY_MIN .. PRIORITY_MAX
      BY <2>2 DEF IInv, PrioritiesInRange
    <3>2. ASSUME NEW j \in 1 .. tasks_number'
          PROVE  priority'[j] \in PRIORITY_MIN .. PRIORITY_MAX
      BY <1>2, <2>1, <3>1, SizeAssumption DEF IInv, TypeOK, PrioritiesInRange, Slots, Pids
    <3>3. QED  BY <3>2, <1>2 DEF PrioritiesInRange
  <2>7. QED  BY <2>3, <2>4, <2>5, <2>6 DEF IInv
<1>3. QED  BY <1>1, <1>2 DEF Fork

\* Every step keeps the strengthening.
LEMMA NextIInv == IInv /\ [Next]_vars => IInv'
<1> SUFFICES ASSUME IInv, [Next]_vars  PROVE  IInv'
  OBVIOUS
<1>1. CASE StartKernel     BY <1>1, StartKernelIInv
<1>2. CASE TimerInterrupt  BY <1>2, TimerInterruptIInv
<1>3. CASE Fork            BY <1>3, ForkIInv
<1>4. CASE UNCHANGED vars
  BY <1>4 DEF vars, IInv, TypeOK, TableDense, RunningHasCredit, PrioritiesInRange, BootCounters
<1>5. QED  BY <1>1, <1>2, <1>3, <1>4 DEF Next

\* The strengthening is an invariant of the scheduler.
THEOREM SchedInvariant == Spec => []IInv
BY InitIInv, NextIInv, PTL DEF Spec

\* The fields schedule() and do_timer use stay in their ranges: in particular
\* no counter, unsigned in the code, is ever taken below 0.
THEOREM SchedTypeOK == Spec => []TypeOK
<1>1. IInv => TypeOK  BY DEF IInv
<1>2. QED  BY <1>1, SchedInvariant, PTL

\* schedule() never reads a NULL entry of task[], and looks at every task
\* that do_cow_fork has put there.
THEOREM SchedTableDense == Spec => []TableDense
<1>1. IInv => TableDense  BY DEF IInv
<1>2. QED  BY <1>1, SchedInvariant, PTL

\* The task in user mode always has a tick left.
THEOREM SchedRunningHasCredit == Spec => []RunningHasCredit
<1>1. IInv => RunningHasCredit  BY DEF IInv
<1>2. QED  BY <1>1, SchedInvariant, PTL

-----------------------------------------------------------------------------
\* The initial states of the scheduler are initial states of FairShare.
LEMMA InitRefines == Init => Shares!Init
<1> SUFFICES ASSUME Init  PROVE  Shares!Init
  OBVIOUS
<1>1. IInv
  BY InitIInv
<1>2. task \ {idle} \in (SUBSET Pids) \ {{}}
  <2>1. 1 \in task \ {idle}
    BY SizeAssumption DEF Init, Pids, idle
  <2>2. task \ {idle} \subseteq Pids
    BY <1>1 DEF IInv, TypeOK, Slots, Pids, idle
  <2>3. QED  BY <2>1, <2>2
<1>3. [i \in Pids |-> counter[i]] = [i \in Pids |-> 0]
  BY DEF Init, Slots, Pids
<1>4. [i \in Pids |-> priority[i]] \in [Pids -> Nat]
  BY <1>1, PriorityAssumption DEF IInv, TypeOK, Slots, Pids
<1>5. QED
  BY <1>2, <1>3, <1>4 DEF Shares!Init, Init

\* In a state of IInv the entries schedule() scans are the live tasks, so its
\* flag is FairShare's Exhausted and its refill FairShare's NewRound.
LEMMA ScheduleRefines ==
  ASSUME IInv, NEW c \in [Slots -> 0 .. PRIORITY_MAX]
  PROVE  LET d == [i \in Pids |-> c[i]] IN
         /\ task \ {idle} = 1 .. tasks_number
         /\ flag(c) <=> ~ Shares!Exhausted(d)
         /\ [i \in Pids |-> refill(c)[i]] = Shares!NewRound(d)
<1>1. task \ {idle} = 1 .. tasks_number /\ 1 .. tasks_number \subseteq Pids /\ Pids \subseteq Slots
  BY SizeAssumption DEF IInv, TypeOK, TableDense, Slots, Pids, idle
<1>2. flag(c) <=> ~ Shares!Exhausted([i \in Pids |-> c[i]])
  <2> DEFINE d == [j \in Pids |-> c[j]]
  <2>1. \A i \in 1 .. tasks_number : d[i] = c[i] /\ c[i] \in Nat
    BY <1>1, PriorityAssumption
  <2>2. Shares!Exhausted(d) <=> \A i \in 1 .. tasks_number : d[i] = 0
    BY <1>1 DEF Shares!Exhausted
  <2>3. (\A i \in 1 .. tasks_number : d[i] = 0) <=> \A i \in 1 .. tasks_number : ~ (c[i] > 0)
    <3> HIDE DEF d
    <3>1. QED  BY <2>1
  <2>4. flag(c) <=> ~ \A i \in 1 .. tasks_number : ~ (c[i] > 0)
    BY DEF flag
  <2>5. QED  BY <2>2, <2>3, <2>4
<1>3. ASSUME NEW i \in Pids
      PROVE  refill(c)[i] = Shares!NewRound([j \in Pids |-> c[j]])[i]
  BY <1>1 DEF refill, Shares!NewRound
<1>4. [i \in Pids |-> refill(c)[i]] = Shares!NewRound([i \in Pids |-> c[i]])
  BY <1>3 DEF Shares!NewRound
<1>5. QED  BY <1>1, <1>2, <1>4

\* start_kernel opens the first round.
LEMMA StartKernelRefines ==
  ASSUME IInv, StartKernel
  PROVE  Shares!Start
<1>1. counter \in [Slots -> 0 .. PRIORITY_MAX] /\ schedule(counter)
  BY DEF IInv, TypeOK, StartKernel
<1>2. ~ flag(counter)
  BY SizeAssumption DEF IInv, TypeOK, BootCounters, StartKernel, flag, Slots, Pids
<1>3. counter' = refill(counter) /\ current' \in 1 .. tasks_number
  BY <1>1, <1>2, ScheduleEffect
<1>4. [i \in Pids |-> counter'[i]] = Shares!NewRound([i \in Pids |-> counter[i]])
  BY <1>1, <1>3, ScheduleRefines
<1>5. current' \in task \ {idle}
  BY <1>1, <1>3, ScheduleRefines
<1>6. QED
  BY <1>4, <1>5 DEF Shares!Start, StartKernel

\* A timer interrupt is a tick.
LEMMA TimerInterruptRefines ==
  ASSUME IInv, TimerInterrupt
  PROVE  Shares!Tick
<1> DEFINE c == [counter EXCEPT ![current] = @ - 1]
           used == [i \in Pids |-> c[i]]
<1>1. /\ current \in Pids /\ current \in Slots /\ current # idle
      /\ current \in 1 .. tasks_number /\ counter[current] > 0
  BY SizeAssumption DEF TimerInterrupt, IInv, TypeOK, RunningHasCredit, Slots, Pids, idle
<1>2. c \in [Slots -> 0 .. PRIORITY_MAX]
  BY <1>1, PriorityAssumption DEF IInv, TypeOK
<1>3. used = [[i \in Pids |-> counter[i]] EXCEPT ![current] = @ - 1]
  <2>1. \A i \in Pids : i \in Slots
    BY SizeAssumption DEF Slots, Pids
  <2>2. ASSUME NEW i \in Pids
        PROVE  used[i] = [[j \in Pids |-> counter[j]] EXCEPT ![current] = @ - 1][i]
    BY <1>1, <2>1 DEF IInv, TypeOK
  <2>3. QED  BY <2>2
<1>4. \/ c[current] = 0 /\ schedule(c)
      \/ c[current] # 0 /\ counter' = c /\ UNCHANGED <<current, ra>>
  BY <1>1 DEF TimerInterrupt, do_timer
<1>5. /\ task \ {idle} = 1 .. tasks_number
      /\ flag(c) <=> ~ Shares!Exhausted(used)
      /\ [i \in Pids |-> refill(c)[i]] = Shares!NewRound(used)
  <2> HIDE DEF c
  <2>1. QED  BY <1>2, ScheduleRefines
<1>6. used[current] = c[current] /\ used[current] \in Nat
  BY <1>1, <1>2, PriorityAssumption
<1> DEFINE credit1 == [i \in Pids |-> counter'[i]]
<1>7. \/ /\ used[current] > 0
         /\ credit1 = used
         /\ current' = current
      \/ /\ used[current] = 0
         /\ ~ Shares!Exhausted(used)
         /\ credit1 = used
         /\ current' \in {t \in task \ {idle} : used[t] > 0}
      \/ /\ Shares!Exhausted(used)
         /\ credit1 = Shares!NewRound(used)
         /\ current' \in task \ {idle}
  <2>1. CASE c[current] # 0 /\ counter' = c /\ UNCHANGED <<current, ra>>
    <3>1. credit1 = used /\ current' = current
      BY <2>1
    <3> HIDE DEF c, used, credit1
    <3>2. used[current] > 0
      BY <2>1, <1>6
    <3>3. QED  BY <3>1, <3>2
  <2>2. CASE c[current] = 0 /\ schedule(c)
    <3>1. /\ counter' = IF flag(c) THEN c ELSE refill(c)
          /\ current' \in 1 .. tasks_number
          /\ counter'[current'] > 0
      <4> HIDE DEF c
      <4>1. QED  BY <1>2, <2>2, ScheduleEffect
    <3>2. current' \in Pids
      BY <3>1, <1>5 DEF IInv, TypeOK, Slots, Pids, idle
    <3>3. CASE flag(c)
      <4>1. counter' = c
        BY <3>1, <3>3
      <4>2. used[current'] > 0 /\ credit1 = used
        BY <3>1, <3>2, <4>1
      <4>3. used[current] = 0 /\ ~ Shares!Exhausted(used) /\ current' \in task \ {idle}
        BY <1>5, <1>6, <2>2, <3>1, <3>3
      <4> HIDE DEF c, used, credit1
      <4>4. QED  BY <4>2, <4>3
    <3>4. CASE ~ flag(c)
      <4> HIDE DEF c
      <4>1. QED  BY <1>5, <3>1, <3>4
    <3>5. QED  BY <3>3, <3>4
  <2>3. QED  BY <1>4, <2>1, <2>2
<1>8. /\ current # idle
      /\ [i \in Pids |-> counter[i]][current] > 0
      /\ UNCHANGED <<task \ {idle}, [i \in Pids |-> priority[i]]>>
  BY <1>1 DEF TimerInterrupt
<1> HIDE DEF c, used, credit1
<1>9. QED
  BY <1>3, <1>7, <1>8 DEF Shares!Tick, credit1

\* do_cow_fork creates a task in the current round, or changes nothing.
LEMMA ForkRefines ==
  ASSUME IInv, Fork
  PROVE  (\E t \in Pids : Shares!Spawn(t)) \/ UNCHANGED Shares!vars
<1>1. CASE UNCHANGED vars
  BY <1>1 DEF vars, Shares!vars
<1>2. ASSUME NEW i \in Slots, FreeSlot(i),
             task' = task \cup {i}, tasks_number' = i,
             counter' = [counter EXCEPT ![i] = counter[current]],
             priority' = [priority EXCEPT ![i] = priority[current]],
             UNCHANGED <<current, armed>>
      PROVE  \E t \in Pids : Shares!Spawn(t)
  <2>1. i \in Pids \ (task \ {idle}) /\ i # idle
    BY <1>2, FreeSlotIsNext, SizeAssumption DEF FreeSlot, IInv, TypeOK, Slots, Pids, idle
  <2>2. current # idle /\ current \in Pids /\ current \in Slots
    BY SizeAssumption DEF Fork, IInv, TypeOK, RunningHasCredit, Slots, Pids, idle
  <2>3. (task \ {idle})' = (task \ {idle}) \cup {i}
    BY <1>2, <2>1
  <2>4. [j \in Pids |-> counter[j]]' = [[j \in Pids |-> counter[j]] EXCEPT ![i] = [j \in Pids |-> counter[j]][current]]
    <3>1. \A j \in Pids : j \in Slots
      BY SizeAssumption DEF Slots, Pids
    <3>2. ASSUME NEW j \in Pids
          PROVE  counter'[j] = IF j = i THEN counter[current] ELSE counter[j]
      BY <1>2, <2>1, <2>2, <3>1 DEF IInv, TypeOK
    <3>3. QED  BY <2>1, <2>2, <3>2
  <2>5. [j \in Pids |-> priority[j]]' = [[j \in Pids |-> priority[j]] EXCEPT ![i] = [j \in Pids |-> priority[j]][current]]
    <3>1. \A j \in Pids : j \in Slots
      BY SizeAssumption DEF Slots, Pids
    <3>2. ASSUME NEW j \in Pids
          PROVE  priority'[j] = IF j = i THEN priority[current] ELSE priority[j]
      BY <1>2, <2>1, <2>2, <3>1 DEF IInv, TypeOK
    <3>3. QED  BY <2>1, <2>2, <3>2
  <2>6. Shares!Spawn(i)
    BY <1>2, <2>1, <2>2, <2>3, <2>4, <2>5 DEF Shares!Spawn
  <2>7. QED  BY <2>1, <2>6
<1>3. QED  BY <1>1, <1>2 DEF Fork

\* Every step of the scheduler is a step of FairShare or leaves it alone.
LEMMA NextRefines == IInv /\ [Next]_vars => [Shares!Next]_Shares!vars
<1> SUFFICES ASSUME IInv, [Next]_vars  PROVE  [Shares!Next]_Shares!vars
  OBVIOUS
<1>1. CASE StartKernel     BY <1>1, StartKernelRefines DEF Shares!Next
<1>2. CASE TimerInterrupt  BY <1>2, TimerInterruptRefines DEF Shares!Next
<1>3. CASE Fork            BY <1>3, ForkRefines DEF Shares!Next
<1>4. CASE UNCHANGED vars  BY <1>4 DEF vars, Shares!vars
<1>5. QED  BY <1>1, <1>2, <1>3, <1>4 DEF Next

\* The scheduler hands time out in rounds of credit, as FairShare says.
THEOREM SchedImplementsFairShare == Spec => ImplementsFairShare
<1>1. Spec => Shares!Spec
  BY InitRefines, NextRefines, SchedInvariant, PTL DEF Spec, Shares!Spec
<1>2. QED  BY <1>1 DEF ImplementsFairShare

-----------------------------------------------------------------------------
\* WaitBounded.  A task is put before others by the size of a number, and where
\* two are alike by its index.
Beats(v, j, i) == v[j] > v[i] \/ (v[j] = v[i] /\ j < i)

\* The ticks that j may run before i does, when c are the counters and p the
\* priorities, tn and cr what tasks_number and current are: if i has used its
\* counter up, what j has left and its turn of the next round, if that comes
\* before i's; else what it has left, if it runs before i.  A task to come
\* counts with the most it can bring.
Left(tn, cr, c, p, i, j) ==
  IF j = i THEN 0
  ELSE IF c[i] = 0
       THEN IF j \in 1 .. tn
            THEN c[j] + (IF Beats(p, j, i) THEN p[j] ELSE 0)
            ELSE 2 * PRIORITY_MAX - 1
       ELSE IF j \in 1 .. tn
            THEN IF j = cr \/ Beats(c, j, i) THEN c[j] ELSE 0
            ELSE PRIORITY_MAX

\* All that, one element for each tick.
Turns(d) == {t \in Pids \X (1 .. 2 * PRIORITY_MAX) : t[2] <= d[t[1]]}
Total(d) == Cardinality(Turns(d))

Ahead(tn, cr, c, p, i) == Total([j \in Pids |-> Left(tn, cr, c, p, i, j)])

\* All but one of the others have almost two turns, one of them one.
Most == (NR_TASKS - 3) * (2 * PRIORITY_MAX - 1) + PRIORITY_MAX

LEMMA PidsFinite == IsFiniteSet(Pids) /\ Cardinality(Pids) = NR_TASKS - 1
BY FS_Interval, SizeAssumption DEF Pids

LEMMA TurnsFinite ==
  ASSUME NEW d
  PROVE  IsFiniteSet(Turns(d)) /\ Total(d) \in Nat
<1>1. IsFiniteSet(1 .. 2 * PRIORITY_MAX)
  BY FS_Interval, PriorityAssumption
<1>2. IsFiniteSet(Pids \X (1 .. 2 * PRIORITY_MAX))
  BY <1>1, PidsFinite, FS_Product
<1>3. IsFiniteSet(Turns(d))
  BY <1>2, FS_Subset DEF Turns
<1>4. QED  BY <1>3, FS_CardinalityType DEF Total

\* The total grows with each of its parts.
LEMMA TotalGrows ==
  ASSUME NEW d \in [Pids -> Nat], NEW e \in [Pids -> Nat], \A j \in Pids : d[j] <= e[j]
  PROVE  /\ Total(d) \in Nat /\ Total(e) \in Nat
         /\ Total(d) <= Total(e)
         /\ \A j \in Pids : d[j] < e[j] /\ e[j] <= 2 * PRIORITY_MAX => Total(d) + 1 <= Total(e)
<1>1. Turns(d) \subseteq Turns(e)
  <2>1. ASSUME NEW t \in Turns(d)  PROVE  t \in Turns(e)
    <3>1. t[1] \in Pids /\ t[2] \in Nat /\ t[2] <= d[t[1]] /\ t \in Pids \X (1 .. 2 * PRIORITY_MAX)
      BY DEF Turns
    <3>2. t[2] <= e[t[1]]
      BY <3>1
    <3>3. QED  BY <3>1, <3>2 DEF Turns
  <2>2. QED  BY <2>1
<1>2. /\ IsFiniteSet(Turns(e)) /\ Total(e) \in Nat /\ Total(d) \in Nat
      /\ Total(d) <= Total(e)
      /\ Total(d) = Total(e) => Turns(d) = Turns(e)
  BY <1>1, TurnsFinite, FS_Subset DEF Total
<1>3. ASSUME NEW j \in Pids, d[j] < e[j], e[j] <= 2 * PRIORITY_MAX
      PROVE  Total(d) + 1 <= Total(e)
  <2>1. e[j] \in 1 .. 2 * PRIORITY_MAX
    BY <1>3, PriorityAssumption
  <2>2. <<j, e[j]>> \in Turns(e) /\ <<j, e[j]>> \notin Turns(d)
    BY <1>3, <2>1 DEF Turns
  <2>3. QED  BY <1>2, <2>2
<1>4. QED  BY <1>2, <1>3

\* A bound of the total.
LEMMA TotalIsMost ==
  ASSUME NEW d \in [Pids -> Nat], NEW i \in Pids, NEW m \in Pids, i # m,
         d[i] = 0, d[m] <= PRIORITY_MAX, \A j \in Pids : d[j] < 2 * PRIORITY_MAX
  PROVE  Total(d) <= Most
<1> DEFINE Q == (Pids \ {i}) \ {m}
           A == Q \X (1 .. 2 * PRIORITY_MAX - 1)
           B == {m} \X (1 .. PRIORITY_MAX)
<1>1. IsFiniteSet(Q) /\ Cardinality(Q) = NR_TASKS - 3 /\ NR_TASKS - 3 \in Nat
  <2>1. IsFiniteSet(Pids \ {i}) /\ Cardinality(Pids \ {i}) = NR_TASKS - 1 - 1
    BY PidsFinite, FS_RemoveElement
  <2>2. IsFiniteSet(Q) /\ Cardinality(Q) = NR_TASKS - 1 - 1 - 1
    BY <2>1, FS_RemoveElement
  <2>3. NR_TASKS \in Nat /\ Cardinality(Q) \in Nat
    BY <2>2, FS_CardinalityType, SizeAssumption
  <2>4. QED  BY <2>2, <2>3
<1>2. /\ IsFiniteSet(1 .. 2 * PRIORITY_MAX - 1)
      /\ Cardinality(1 .. 2 * PRIORITY_MAX - 1) = 2 * PRIORITY_MAX - 1
  BY FS_Interval, PriorityAssumption
<1>3. IsFiniteSet(1 .. PRIORITY_MAX) /\ Cardinality(1 .. PRIORITY_MAX) = PRIORITY_MAX
  BY FS_Interval, PriorityAssumption
<1>4. IsFiniteSet(A) /\ Cardinality(A) = (NR_TASKS - 3) * (2 * PRIORITY_MAX - 1)
  <2>1. IsFiniteSet(A) /\ Cardinality(A) = Cardinality(Q) * Cardinality(1 .. 2 * PRIORITY_MAX - 1)
    <3> HIDE DEF Q
    <3>1. QED  BY <1>1, <1>2, FS_Product
  <2>2. QED  BY <2>1, <1>1, <1>2
<1>5. IsFiniteSet(B) /\ Cardinality(B) = PRIORITY_MAX
  <2>1. IsFiniteSet({m}) /\ Cardinality({m}) = 1
    BY FS_Singleton
  <2>2. IsFiniteSet(B) /\ Cardinality(B) = Cardinality({m}) * Cardinality(1 .. PRIORITY_MAX)
    BY <1>3, <2>1, FS_Product
  <2>3. QED  BY <1>3, <2>1, <2>2, PriorityAssumption
<1>6. Turns(d) \subseteq A \cup B
  <2>1. ASSUME NEW t \in Turns(d)  PROVE  t \in A \cup B
    <3>1. PICK j \in Pids, k \in 1 .. 2 * PRIORITY_MAX : t = <<j, k>> /\ k <= d[j]
      BY DEF Turns
    <3>2. j # i /\ d[j] < 2 * PRIORITY_MAX /\ k \in Nat \ {0} /\ d[j] \in Nat
      BY <3>1
    <3>3. CASE j = m
      BY <3>1, <3>2, <3>3, PriorityAssumption
    <3>4. CASE j # m
      BY <3>1, <3>2, <3>4, PriorityAssumption
    <3>5. QED  BY <3>3, <3>4
  <2>2. QED  BY <2>1
<1> HIDE DEF A, B
<1>7. /\ IsFiniteSet(A \cup B)
      /\ Cardinality(A \cup B) = Cardinality(A) + Cardinality(B) - Cardinality(A \cap B)
  BY <1>4, <1>5, FS_Union
<1>8. Cardinality(A \cap B) \in Nat /\ Cardinality(A) \in Nat /\ Cardinality(B) \in Nat
  <2>1. IsFiniteSet(A \cap B)
    BY <1>4, FS_Subset
  <2>2. QED  BY <2>1, <1>4, <1>5, FS_CardinalityType
<1>9. Total(d) <= Cardinality(A \cup B) /\ Total(d) \in Nat
  BY <1>6, <1>7, FS_Subset, TurnsFinite DEF Total
<1>10. Total(d) <= Cardinality(A) + Cardinality(B)
  BY <1>7, <1>8, <1>9
<1>11. QED  BY <1>4, <1>5, <1>10 DEF Most

\* What IInv says of the sizes and of each entry in use.
LEMMA Sizes ==
  ASSUME IInv
  PROVE  /\ NR_TASKS \in Nat /\ PRIORITY_MAX \in Nat \ {0}
         /\ tasks_number \in Pids /\ tasks_number \in Nat \ {0} /\ task = 0 .. tasks_number
         /\ counter \in [Slots -> 0 .. PRIORITY_MAX] /\ priority \in [Slots -> 0 .. PRIORITY_MAX]
         /\ \A j \in 1 .. tasks_number : j \in Nat \ {0} /\ j \in Pids /\ j \in task /\ j # idle
         /\ \A j \in Pids : j \in Slots /\ j \in Nat \ {0}
         /\ \A j \in 1 .. tasks_number : priority[j] \in 1 .. PRIORITY_MAX
<1>1. /\ NR_TASKS \in Nat /\ PRIORITY_MAX \in Nat \ {0} /\ PRIORITY_MIN \in Nat \ {0}
      /\ tasks_number \in Pids /\ tasks_number \in Nat \ {0} /\ task = 0 .. tasks_number
      /\ counter \in [Slots -> 0 .. PRIORITY_MAX] /\ priority \in [Slots -> 0 .. PRIORITY_MAX]
  BY SizeAssumption, PriorityAssumption DEF IInv, TypeOK, TableDense, Pids
<1>2. \A j \in Pids : j \in Slots /\ j \in Nat \ {0}
  BY <1>1 DEF Pids, Slots
<1>3. \A j \in 1 .. tasks_number : j \in Nat \ {0} /\ j \in Pids /\ j \in task /\ j # idle
  BY <1>1 DEF Pids, idle
<1>4. \A j \in 1 .. tasks_number : priority[j] \in PRIORITY_MIN .. PRIORITY_MAX
  BY DEF IInv, PrioritiesInRange
<1>5. QED  BY <1>1, <1>2, <1>3, <1>4

\* What is left is a number of ticks, at most two turns.
LEMMA LeftType ==
  ASSUME NEW tn \in Pids, NEW cr, NEW i \in Pids,
         NEW c \in [Slots -> 0 .. PRIORITY_MAX], NEW p \in [Slots -> 0 .. PRIORITY_MAX]
  PROVE  /\ \A j \in Pids : Left(tn, cr, c, p, i, j) \in 0 .. 2 * PRIORITY_MAX
         /\ [j \in Pids |-> Left(tn, cr, c, p, i, j)] \in [Pids -> Nat]
         /\ Ahead(tn, cr, c, p, i) \in Nat
<1>1. PRIORITY_MAX \in Nat \ {0}
  BY PriorityAssumption
<1>2. ASSUME NEW j \in Pids  PROVE  Left(tn, cr, c, p, i, j) \in 0 .. 2 * PRIORITY_MAX
  <2>1. j \in Slots
    BY SizeAssumption DEF Slots, Pids
  <2>2. c[j] \in 0 .. PRIORITY_MAX /\ p[j] \in 0 .. PRIORITY_MAX
    BY <2>1
  <2>3. QED  BY <1>1, <2>2 DEF Left
<1>3. [j \in Pids |-> Left(tn, cr, c, p, i, j)] \in [Pids -> Nat]
  BY <1>1, <1>2
<1>4. QED  BY <1>2, <1>3, TurnsFinite DEF Ahead

\* What is left before i goes down with its parts, and by a tick at least if
\* one of them does.
LEMMA AheadGrows ==
  ASSUME NEW tn \in Pids, NEW cr, NEW i \in Pids,
         NEW c \in [Slots -> 0 .. PRIORITY_MAX], NEW p \in [Slots -> 0 .. PRIORITY_MAX],
         NEW tn1 \in Pids, NEW cr1,
         NEW c1 \in [Slots -> 0 .. PRIORITY_MAX], NEW p1 \in [Slots -> 0 .. PRIORITY_MAX],
         \A j \in Pids : Left(tn1, cr1, c1, p1, i, j) <= Left(tn, cr, c, p, i, j)
  PROVE  /\ Ahead(tn1, cr1, c1, p1, i) <= Ahead(tn, cr, c, p, i)
         /\ (\E j \in Pids : Left(tn1, cr1, c1, p1, i, j) < Left(tn, cr, c, p, i, j)) =>
              Ahead(tn1, cr1, c1, p1, i) + 1 <= Ahead(tn, cr, c, p, i)
<1> DEFINE d == [j \in Pids |-> Left(tn1, cr1, c1, p1, i, j)]
           e == [j \in Pids |-> Left(tn, cr, c, p, i, j)]
<1>1. d \in [Pids -> Nat] /\ e \in [Pids -> Nat] /\ \A j \in Pids : e[j] <= 2 * PRIORITY_MAX
  BY LeftType, PriorityAssumption
<1>2. \A j \in Pids : d[j] <= e[j]
  OBVIOUS
<1>3. (\E j \in Pids : Left(tn1, cr1, c1, p1, i, j) < Left(tn, cr, c, p, i, j)) => \E j \in Pids : d[j] < e[j]
  OBVIOUS
<1> HIDE DEF d, e
<1>4. /\ Total(d) <= Total(e)
      /\ (\E j \in Pids : d[j] < e[j]) => Total(d) + 1 <= Total(e)
  BY <1>1, <1>2, TotalGrows
<1>5. QED  BY <1>3, <1>4 DEF Ahead, d, e

\* Almost two turns of all the others but one, of which there is one turn to
\* come.
LEMMA AheadIsMost ==
  ASSUME NEW tn \in Pids, NEW cr, NEW i \in Pids,
         NEW c \in [Slots -> 0 .. PRIORITY_MAX], NEW p \in [Slots -> 0 .. PRIORITY_MAX],
         NEW m \in Pids, m # i, Left(tn, cr, c, p, i, m) <= PRIORITY_MAX,
         \A j \in Pids : Left(tn, cr, c, p, i, j) < 2 * PRIORITY_MAX
  PROVE  Ahead(tn, cr, c, p, i) <= Most
<1> DEFINE d == [j \in Pids |-> Left(tn, cr, c, p, i, j)]
<1>1. d \in [Pids -> Nat] /\ d[i] = 0
  <2>1. d \in [Pids -> Nat]
    BY LeftType
  <2>2. Left(tn, cr, c, p, i, i) = 0
    BY DEF Left
  <2>3. QED  BY <2>1, <2>2
<1>2. d[m] <= PRIORITY_MAX /\ \A j \in Pids : d[j] < 2 * PRIORITY_MAX
  OBVIOUS
<1> HIDE DEF d
<1>3. Total(d) <= Most
  BY <1>1, <1>2, TotalIsMost
<1>4. QED  BY <1>3 DEF Ahead, d

\* Whoever has credit has less than that before it: nobody runs twice before
\* it does.
LEMMA AheadOfCredit ==
  ASSUME NR_TASKS > 2, NEW tn \in Pids, NEW cr, NEW i \in Pids,
         NEW c \in [Slots -> 0 .. PRIORITY_MAX], NEW p \in [Slots -> 0 .. PRIORITY_MAX],
         c[i] > 0
  PROVE  Ahead(tn, cr, c, p, i) <= Most
<1>1. PRIORITY_MAX \in Nat \ {0} /\ NR_TASKS \in Nat
  BY PriorityAssumption, SizeAssumption
<1>2. PICK m \in Pids : m # i
  <2>1. 1 \in Pids /\ 2 \in Pids
    BY <1>1 DEF Pids
  <2>2. QED  BY <2>1
<1>3. ASSUME NEW j \in Pids
      PROVE  Left(tn, cr, c, p, i, j) \in 0 .. PRIORITY_MAX
  <2>1. j \in Slots /\ i \in Slots
    BY <1>1 DEF Pids, Slots
  <2>2. c[j] \in 0 .. PRIORITY_MAX /\ c[i] \in 0 .. PRIORITY_MAX /\ c[i] # 0
    BY <2>1
  <2>3. QED  BY <1>1, <2>2 DEF Left
<1>4. Left(tn, cr, c, p, i, m) <= PRIORITY_MAX /\ \A j \in Pids : Left(tn, cr, c, p, i, j) < 2 * PRIORITY_MAX
  BY <1>1, <1>3
<1>5. QED  BY <1>2, <1>4, AheadIsMost

-----------------------------------------------------------------------------
\* The inductive invariant of the wait.  Ticks are counted while a task waits.
WaitType ==
  /\ waited \in [Slots -> Nat]
  /\ \A i \in Slots : i \notin task \/ i = current \/ current = idle => waited[i] = 0

CreditIsATurn == \A j \in 1 .. tasks_number : counter[j] <= priority[j]

\* Only the running task is in the middle of a turn, and children that were
\* born in the middle of their parent's.  These come after it, so each task has
\* one of its own priority, itself or one before it, that is running or whose
\* turn is over or not begun.
Origins ==
  \A j \in 1 .. tasks_number : \E o \in 1 .. j :
    priority[o] = priority[j] /\ (o = current \/ counter[o] = 0 \/ counter[o] = priority[o])

\* The tasks take their turns in the order of their priorities: when i has had
\* its turn, or begun it, those that come before it have at least begun theirs.
InOrder ==
  \A i, j \in 1 .. tasks_number :
    (i = current \/ counter[i] = 0) /\ Beats(priority, j, i) => counter[j] < priority[j]

\* The ticks waited and those still to wait are bounded together.
Waits ==
  current # idle =>
    \A i \in (1 .. tasks_number) \ {current} :
      waited[i] + Ahead(tasks_number, current, counter, priority, i) <= Most

WInv == IInv /\ WaitType /\ CreditIsATurn /\ Origins /\ InOrder /\ Waits

LEMMA WInitInv == WInit => WInv
<1> SUFFICES ASSUME WInit  PROVE  WInv
  OBVIOUS
<1>1. IInv
  BY InitIInv DEF WInit
<1>2. current = idle /\ waited = [i \in Slots |-> 0] /\ counter = [i \in Slots |-> 0]
  BY DEF WInit, Init
<1>3. WaitType /\ Waits
  BY <1>2 DEF WaitType, Waits
<1>4. \A j \in 1 .. tasks_number : j \in Slots /\ priority[j] \in 1 .. PRIORITY_MAX
  BY <1>1, Sizes
<1>5. CreditIsATurn /\ InOrder
  BY <1>2, <1>4, PriorityAssumption DEF CreditIsATurn, InOrder
<1>6. Origins
  BY <1>2, <1>4, <1>1, Sizes DEF Origins
<1>7. QED  BY <1>1, <1>3, <1>5, <1>6 DEF WInv

\* What a call of schedule() that opens a round leaves: everybody has a whole
\* turn, and the one with the CPU comes first.
LEMMA RoundOpened ==
  ASSUME NR_TASKS > 2, IInv, IInv', tasks_number' = tasks_number, priority' = priority,
         \A j \in 1 .. tasks_number : counter'[j] = priority[j],
         current' \in 1 .. tasks_number,
         \A j \in 1 .. tasks_number : counter'[j] <= counter'[current'],
         \A j \in 1 .. tasks_number : counter'[j] < counter'[current'] \/ current' <= j
  PROVE  CreditIsATurn' /\ Origins' /\ InOrder'
<1>1. \A j \in 1 .. tasks_number : j \in Nat \ {0} /\ priority[j] \in Nat \ {0}
  BY Sizes
<1>2. CreditIsATurn'
  BY <1>1 DEF CreditIsATurn
<1>3. Origins'
  <2>1. \A j \in 1 .. tasks_number : j \in 1 .. j /\ counter'[j] = priority[j]
    BY <1>1
  <2>2. QED  BY <2>1 DEF Origins
<1>4. InOrder'
  <2>1. ASSUME NEW i \in 1 .. tasks_number, NEW j \in 1 .. tasks_number,
               i = current' \/ counter'[i] = 0, Beats(priority, j, i)
        PROVE  FALSE
    <3>1. i = current'
      BY <1>1, <2>1
    <3>2. /\ priority[j] <= priority[i]
          /\ priority[j] < priority[i] \/ i <= j
      BY <3>1
    <3>3. QED  BY <1>1, <2>1, <3>2 DEF Beats
  <2>2. QED  BY <2>1 DEF InOrder
<1>5. QED  BY <1>2, <1>3, <1>4

LEMMA StartKernelWait ==
  ASSUME NR_TASKS > 2, WInv, StartKernel, UNCHANGED waited
  PROVE  WInv'
<1>1. IInv /\ IInv' /\ current = idle
  BY StartKernelIInv DEF WInv, StartKernel
<1>2. /\ \A j \in 1 .. tasks_number : counter'[j] = priority[j]
      /\ current' \in 1 .. tasks_number
      /\ \A j \in 1 .. tasks_number : counter'[j] <= counter'[current']
      /\ \A j \in 1 .. tasks_number : counter'[j] < counter'[current'] \/ current' <= j
  <2>1. counter \in [Slots -> 0 .. PRIORITY_MAX] /\ schedule(counter)
    BY <1>1, Sizes DEF StartKernel
  <2>2. ~ flag(counter) /\ \A j \in 1 .. tasks_number : j \in Slots
    BY <1>1, Sizes DEF IInv, BootCounters, flag
  <2>3. counter' = refill(counter)
    BY <1>1, <2>1, <2>2, ScheduleEffect
  <2>4. \A j \in 1 .. tasks_number : counter'[j] = priority[j]
    BY <2>2, <2>3 DEF refill
  <2>5. QED  BY <1>1, <2>1, <2>4, ScheduleEffect
<1>3. tasks_number' = tasks_number /\ priority' = priority /\ task' = task
  BY DEF StartKernel
<1>4. CreditIsATurn' /\ Origins' /\ InOrder'
  BY <1>1, <1>2, <1>3, RoundOpened
<1>5. waited' \in [Slots -> Nat] /\ \A i \in Slots : waited'[i] = 0
  BY <1>1 DEF WInv, WaitType
<1>6. WaitType'
  BY <1>5 DEF WaitType
<1>7. Waits'
  <2>1. ASSUME NEW i \in 1 .. tasks_number
        PROVE  waited'[i] + Ahead(tasks_number, current', counter', priority, i) <= Most
    <3>1. /\ tasks_number \in Pids /\ i \in Pids /\ i \in Slots
          /\ priority \in [Slots -> 0 .. PRIORITY_MAX] /\ priority[i] > 0
      BY <1>1, Sizes
    <3>2. counter' \in [Slots -> 0 .. PRIORITY_MAX]
      BY <1>1 DEF IInv, TypeOK
    <3>3. /\ Ahead(tasks_number, current', counter', priority, i) <= Most
          /\ Ahead(tasks_number, current', counter', priority, i) \in Nat
      BY <1>2, <3>1, <3>2, AheadOfCredit, LeftType
    <3>4. QED  BY <1>5, <3>1, <3>3
  <2>2. QED  BY <1>3, <2>1 DEF Waits
<1>8. QED  BY <1>1, <1>4, <1>6, <1>7 DEF WInv

-----------------------------------------------------------------------------
\* The three things a tick may do.
Continues ==
  /\ counter[current] > 1
  /\ counter' = [counter EXCEPT ![current] = @ - 1]
  /\ current' = current

Switches ==
  /\ counter[current] = 1
  /\ counter' = [counter EXCEPT ![current] = 0]
  /\ current' # current

OpensRound ==
  /\ counter[current] = 1
  /\ \A j \in (1 .. tasks_number) \ {current} : counter[j] = 0
  /\ \A j \in 1 .. tasks_number : counter'[j] = priority[j]

Dispatches ==
  /\ \A j \in 1 .. tasks_number : counter'[j] <= counter'[current']
  /\ \A j \in 1 .. tasks_number : counter'[j] < counter'[current'] \/ current' <= j

LEMMA TickCases ==
  ASSUME IInv, TimerInterrupt
  PROVE  /\ current \in 1 .. tasks_number /\ current' \in 1 .. tasks_number
         /\ counter'[current'] > 0
         /\ Continues \/ (Switches /\ Dispatches) \/ (OpensRound /\ Dispatches)
<1> DEFINE c == [counter EXCEPT ![current] = @ - 1]
<1>1. current \in Slots /\ current \in 1 .. tasks_number /\ counter[current] > 0
  BY DEF TimerInterrupt, IInv, TypeOK, RunningHasCredit
<1>2. c \in [Slots -> 0 .. PRIORITY_MAX] /\ counter[current] \in Nat \ {0}
  BY <1>1, PriorityAssumption DEF IInv, TypeOK
<1>3. c[current] = counter[current] - 1 /\ \A j \in Slots \ {current} : c[j] = counter[j]
  BY <1>1, Sizes
<1>4. \/ c[current] = 0 /\ schedule(c)
      \/ c[current] # 0 /\ counter' = c /\ UNCHANGED <<current, ra>>
  BY <1>1 DEF TimerInterrupt, do_timer
<1>5. \A j \in 1 .. tasks_number : j \in Slots
  BY Sizes
<1>6. CASE c[current] # 0 /\ counter' = c /\ UNCHANGED <<current, ra>>
  <2>1. counter[current] > 1 /\ counter'[current] > 0
    BY <1>2, <1>3, <1>6
  <2>2. QED  BY <1>1, <1>6, <2>1 DEF Continues
<1>7. CASE c[current] = 0 /\ schedule(c)
  <2>1. /\ counter' = IF flag(c) THEN c ELSE refill(c)
        /\ current' \in 1 .. tasks_number
        /\ counter'[current'] > 0
        /\ Dispatches
    <3> HIDE DEF c
    <3>1. QED  BY <1>2, <1>7, ScheduleEffect DEF Dispatches
  <2>2. counter[current] = 1
    BY <1>2, <1>3, <1>7
  <2>3. CASE flag(c)
    <3>1. counter' = [counter EXCEPT ![current] = 0]
      BY <2>1, <2>2, <2>3
    <3>2. current' # current
      BY <1>7, <2>1, <2>3
    <3>3. QED  BY <1>1, <2>1, <2>2, <3>1, <3>2 DEF Switches
  <2>4. CASE ~ flag(c)
    <3> HIDE DEF c
    <3>1. \A j \in 1 .. tasks_number : ~ (c[j] > 0) /\ c[j] \in Nat
      BY <1>2, <1>5, <2>4, PriorityAssumption DEF flag
    <3>2. \A j \in (1 .. tasks_number) \ {current} : counter[j] = 0
      BY <1>3, <1>5, <3>1
    <3>3. \A j \in 1 .. tasks_number : counter'[j] = priority[j]
      BY <1>5, <2>1, <2>4 DEF refill
    <3>4. QED  BY <1>1, <2>1, <2>2, <3>2, <3>3 DEF OpensRound
  <2>5. QED  BY <2>3, <2>4
<1>8. QED  BY <1>4, <1>6, <1>7

\* A tick that opens no round takes credit from the running task only.
LEMMA OthersKeep ==
  ASSUME IInv, current \in 1 .. tasks_number, Continues \/ Switches
  PROVE  /\ \A j \in Slots : j # current => counter'[j] = counter[j]
         /\ counter'[current] = counter[current] - 1
         /\ counter[current] \in Nat \ {0}
<1>1. counter \in [Slots -> 0 .. PRIORITY_MAX] /\ current \in Slots /\ PRIORITY_MAX \in Nat
  BY Sizes
<1>2. CASE Continues
  BY <1>1, <1>2 DEF Continues
<1>3. CASE Switches
  BY <1>1, <1>3 DEF Switches
<1>4. QED  BY <1>2, <1>3

LEMMA TickOrigins ==
  ASSUME WInv, current \in 1 .. tasks_number, Continues \/ Switches,
         tasks_number' = tasks_number, priority' = priority
  PROVE  Origins'
<1>1. /\ \A j \in Slots : j # current => counter'[j] = counter[j]
      /\ \A j \in 1 .. tasks_number : j \in Slots
      /\ counter'[current] = 0 \/ current' = current
  BY OthersKeep, Sizes DEF WInv, Continues, Switches
<1>2. ASSUME NEW j \in 1 .. tasks_number
      PROVE  \E o \in 1 .. j :
               priority[o] = priority[j] /\ (o = current' \/ counter'[o] = 0 \/ counter'[o] = priority[o])
  <2>1. PICK o \in 1 .. j :
          priority[o] = priority[j] /\ (o = current \/ counter[o] = 0 \/ counter[o] = priority[o])
    BY DEF WInv, Origins
  <2>2. o \in 1 .. tasks_number
    BY Sizes DEF WInv
  <2>3. QED  BY <1>1, <2>1, <2>2
<1>3. QED  BY <1>2 DEF Origins

LEMMA TickInOrder ==
  ASSUME WInv, current \in 1 .. tasks_number, current' \in 1 .. tasks_number, counter'[current'] > 0,
         Continues \/ (Switches /\ Dispatches),
         tasks_number' = tasks_number, priority' = priority
  PROVE  CreditIsATurn' /\ InOrder'
<1>1. /\ \A j \in Slots : j # current => counter'[j] = counter[j]
      /\ counter'[current] = counter[current] - 1
      /\ counter[current] \in Nat \ {0}
  BY OthersKeep DEF WInv
<1>2. \A j \in 1 .. tasks_number : /\ j \in Slots /\ j \in Nat \ {0}
                                   /\ counter[j] \in Nat /\ priority[j] \in Nat \ {0}
                                   /\ counter[j] <= priority[j]
  BY Sizes DEF WInv, CreditIsATurn
<1>3. \A j \in 1 .. tasks_number : counter'[j] \in Nat /\ counter'[j] <= counter[j]
  BY <1>1, <1>2
<1>4. CreditIsATurn'
  <2>1. \A j \in 1 .. tasks_number : counter'[j] <= priority[j]
    BY <1>2, <1>3
  <2>2. QED  BY <2>1 DEF CreditIsATurn
<1>5. ASSUME NEW i \in 1 .. tasks_number, NEW j \in 1 .. tasks_number,
             i = current' \/ counter'[i] = 0, Beats(priority, j, i)
      PROVE  counter'[j] < priority[j]
  <2>1. CASE j = current
    BY <1>1, <1>2, <2>1
  <2>2. CASE i = current \/ counter[i] = 0
    <3>1. counter[j] < priority[j]
      BY <1>5, <2>2 DEF WInv, InOrder
    <3>2. QED  BY <1>2, <1>3, <3>1
  <2>3. CASE i # current /\ counter[i] # 0 /\ j # current
    <3>1. counter'[i] = counter[i] /\ counter'[j] = counter[j]
      BY <1>1, <1>2, <2>3
    <3>2. i = current' /\ current' # current /\ Dispatches
      BY <1>5, <2>3, <3>1 DEF Continues
    <3>3. counter'[j] <= counter[i] /\ (counter'[j] < counter[i] \/ i <= j)
      BY <3>1, <3>2 DEF Dispatches
    <3>4. SUFFICES ASSUME counter[j] = priority[j]  PROVE  FALSE
      BY <1>2, <3>1
    <3>5. priority[j] <= counter[i] /\ (priority[j] < counter[i] \/ i <= j) /\ counter[i] <= priority[i]
      BY <1>2, <3>1, <3>3, <3>4
    <3>6. priority[j] > priority[i] \/ (priority[j] = priority[i] /\ j < i)
      BY <1>5 DEF Beats
    <3>7. QED  BY <1>2, <3>5, <3>6
  <2>4. QED  BY <2>1, <2>2, <2>3
<1>6. QED  BY <1>4, <1>5 DEF InOrder

\* Each tick takes one from what those still waiting have ahead of them.
LEMMA TickAhead ==
  ASSUME WInv, current \in 1 .. tasks_number, current' \in 1 .. tasks_number,
         counter' \in [Slots -> 0 .. PRIORITY_MAX],
         Continues \/ (Switches /\ Dispatches) \/ (OpensRound /\ Dispatches),
         NEW i \in 1 .. tasks_number, i # current, i # current'
  PROVE  Ahead(tasks_number, current', counter', priority, i) + 1
           <= Ahead(tasks_number, current, counter, priority, i)
<1> DEFINE L(j) == Left(tasks_number, current, counter, priority, i, j)
           M(j) == Left(tasks_number, current', counter', priority, i, j)
<1>1. /\ PRIORITY_MAX \in Nat \ {0} /\ tasks_number \in Nat \ {0}
      /\ tasks_number \in Pids /\ i \in Pids /\ i \in Slots /\ i \in Nat \ {0} /\ current \in Pids
      /\ counter \in [Slots -> 0 .. PRIORITY_MAX] /\ priority \in [Slots -> 0 .. PRIORITY_MAX]
      /\ \A j \in Pids : j \in Slots /\ j \in Nat \ {0}
      /\ \A j \in 1 .. tasks_number : priority[j] \in 1 .. PRIORITY_MAX
  BY Sizes DEF WInv
<1>2. \A j \in Pids : /\ counter[j] \in 0 .. PRIORITY_MAX /\ counter'[j] \in 0 .. PRIORITY_MAX
                      /\ priority[j] \in 0 .. PRIORITY_MAX
  BY <1>1
<1> SUFFICES (\A j \in Pids : M(j) <= L(j)) /\ M(current) < L(current)
  <2>1. ASSUME \A j \in Pids : M(j) <= L(j), M(current) < L(current)
        PROVE  Ahead(tasks_number, current', counter', priority, i) + 1
                 <= Ahead(tasks_number, current, counter, priority, i)
    BY <1>1, <2>1, AheadGrows
  <2>2. QED  BY <2>1
<1>3. \A j \in Pids : L(j) \in Nat /\ M(j) \in Nat
  BY <1>1, LeftType
<1>4. CASE Continues \/ (Switches /\ Dispatches)
  <2>1. /\ \A j \in Pids : j # current => counter'[j] = counter[j]
        /\ counter'[current] = counter[current] - 1
        /\ counter[current] \in Nat \ {0}
    BY <1>1, <1>4, OthersKeep DEF WInv
  <2>2. counter'[i] = counter[i]
    BY <1>1, <2>1
  <2>3. CASE counter[i] = 0
    <3>1. M(current) < L(current)
      BY <1>1, <1>2, <2>1, <2>2, <2>3 DEF Left
    <3>2. ASSUME NEW j \in Pids, j # current  PROVE  M(j) = L(j)
      BY <2>1, <2>2, <2>3, <3>2 DEF Left
    <3> HIDE DEF L, M
    <3>3. QED  BY <3>1, <3>2, <1>3
  <2>4. CASE counter[i] # 0
    <3>1. L(current) = counter[current]
      BY <2>4 DEF Left
    <3>2. M(current) < counter[current]
      <4>1. CASE current' = current
        BY <1>1, <1>2, <2>1, <2>2, <2>4, <4>1 DEF Left
      <4>2. CASE current' # current
        <5>1. counter'[current] = 0 /\ counter'[i] > 0
          BY <1>1, <1>2, <1>4, <2>1, <2>2, <2>4, <4>2 DEF Continues, Switches
        <5>2. M(current) = 0
          BY <5>1 DEF Left
        <5>3. QED  BY <2>1, <5>2
      <4>3. QED  BY <4>1, <4>2
    <3>3. ASSUME NEW j \in Pids, j # current  PROVE  M(j) <= L(j)
      <4>1. counter'[j] = counter[j] /\ counter[j] \in Nat
        BY <1>2, <2>1, <3>3
      <4>2. j = current' => j \in 1 .. tasks_number /\ Beats(counter, j, i)
        <5>1. ASSUME j = current'
              PROVE  Dispatches /\ j \in 1 .. tasks_number
          BY <1>4, <3>3, <5>1 DEF Continues
        <5>2. j = current' => /\ counter[i] <= counter[j]
                              /\ counter[i] < counter[j] \/ j <= i
          BY <5>1, <2>2, <4>1 DEF Dispatches
        <5>3. QED  BY <1>1, <1>2, <5>1, <5>2 DEF Beats
      <4>3. Beats(counter', j, i) <=> Beats(counter, j, i)
        BY <2>2, <4>1 DEF Beats
      <4>4. QED  BY <1>1, <2>2, <2>4, <3>3, <4>1, <4>2, <4>3 DEF Left
    <3> HIDE DEF L, M
    <3>4. QED  BY <3>1, <3>2, <3>3, <1>1, <1>3
  <2>5. QED  BY <2>3, <2>4
<1>5. CASE OpensRound /\ Dispatches
  <2>1. /\ counter[i] = 0 /\ counter[current] = 1
        /\ \A j \in 1 .. tasks_number : counter'[j] = priority[j]
        /\ counter'[i] > 0
    BY <1>1, <1>5 DEF OpensRound
  <2>2. ASSUME NEW j \in Pids, j \in 1 .. tasks_number
        PROVE  M(j) <= IF Beats(priority, j, i) THEN priority[j] ELSE 0
    <3>1. counter'[j] = priority[j] /\ counter'[i] = priority[i] /\ priority[j] \in Nat \ {0}
      BY <1>1, <2>1, <2>2
    <3>2. j = current' /\ j # i => Beats(priority, j, i)
      <4>1. j = current' => /\ priority[i] <= priority[j]
                            /\ priority[i] < priority[j] \/ j <= i
        BY <1>5, <3>1 DEF Dispatches
      <4>2. QED  BY <1>1, <1>2, <4>1 DEF Beats
    <3>3. Beats(counter', j, i) <=> Beats(priority, j, i)
      BY <3>1 DEF Beats
    <3>4. QED  BY <2>1, <2>2, <3>1, <3>2, <3>3 DEF Left
  <2>3. ASSUME NEW j \in Pids
        PROVE  M(j) <= L(j) /\ (j = current => M(j) < L(j))
    <3>1. CASE j = i
      BY <3>1 DEF Left
    <3>2. CASE j # i /\ j \in 1 .. tasks_number
      <4>1. L(j) = counter[j] + (IF Beats(priority, j, i) THEN priority[j] ELSE 0)
        BY <2>1, <3>2 DEF Left
      <4> DEFINE x == IF Beats(priority, j, i) THEN priority[j] ELSE 0
      <4>2. M(j) <= x /\ L(j) = counter[j] + x /\ x \in Nat
        BY <1>2, <2>2, <3>2, <4>1
      <4> HIDE DEF x, L, M
      <4>3. QED  BY <1>2, <1>3, <2>1, <4>2
    <3>3. CASE j # i /\ j \notin 1 .. tasks_number
      BY <1>1, <2>1, <3>3 DEF Left
    <3>4. QED  BY <3>1, <3>2, <3>3
  <2>4. QED  BY <1>1, <2>3
<1>6. QED  BY <1>4, <1>5

\* Who leaves the CPU waits for what the others have left and their next turns:
\* the one that comes next either has no turn before it in the next round, or is
\* a copy of one that has, and that has used up its turn of this one.
LEMMA LeaverAhead ==
  ASSUME WInv, current \in 1 .. tasks_number, current' \in 1 .. tasks_number, Switches,
         counter' \in [Slots -> 0 .. PRIORITY_MAX],
         tasks_number' = tasks_number, priority' = priority, InOrder'
  PROVE  Ahead(tasks_number, current', counter', priority, current) <= Most
<1> DEFINE L(j) == Left(tasks_number, current', counter', priority, current, j)
<1>1. /\ PRIORITY_MAX \in Nat \ {0} /\ tasks_number \in Nat \ {0}
      /\ tasks_number \in Pids /\ current \in Pids /\ current \in Nat \ {0} /\ current' \in Nat \ {0}
      /\ counter \in [Slots -> 0 .. PRIORITY_MAX] /\ priority \in [Slots -> 0 .. PRIORITY_MAX]
      /\ \A j \in Pids : j \in Slots
      /\ \A j \in 1 .. tasks_number : j \in Pids /\ j \in Nat \ {0} /\ priority[j] \in 1 .. PRIORITY_MAX
  BY Sizes DEF WInv
<1>2. \A j \in Pids : counter'[j] \in 0 .. PRIORITY_MAX
  BY <1>1
<1>3. /\ counter'[current] = 0 /\ current' # current
      /\ \A j \in Pids : j # current => counter'[j] = counter[j]
  BY <1>1 DEF Switches
<1>4. \A j \in (1 .. tasks_number) \ {current} :
        L(j) = counter'[j] + (IF Beats(priority, j, current) THEN priority[j] ELSE 0)
  BY <1>3 DEF Left
<1>5. \A j \in Pids : L(j) < 2 * PRIORITY_MAX
  <2>1. ASSUME NEW j \in (1 .. tasks_number) \ {current}  PROVE  L(j) < 2 * PRIORITY_MAX
    <3>1. Beats(priority, j, current) => counter'[j] < priority[j]
      BY <1>3 DEF InOrder
    <3> HIDE DEF L
    <3>2. QED  BY <1>1, <1>2, <1>4, <3>1
  <2>2. ASSUME NEW j \in Pids, j \notin 1 .. tasks_number \/ j = current
        PROVE  L(j) < 2 * PRIORITY_MAX
    BY <1>1, <1>3, <2>2 DEF Left
  <2>3. QED  BY <2>1, <2>2
<1>6. PICK m \in (1 .. tasks_number) \ {current} : L(m) <= PRIORITY_MAX
  <2>1. CASE ~ Beats(priority, current', current)
    <3>1. current' \in (1 .. tasks_number) \ {current}
      BY <1>3
    <3>2. L(current') <= PRIORITY_MAX
      <4> HIDE DEF L
      <4>1. QED  BY <1>1, <1>2, <1>4, <2>1, <3>1
    <3>3. QED  BY <3>1, <3>2
  <2>2. CASE Beats(priority, current', current)
    <3>1. PICK o \in 1 .. current' : /\ priority[o] = priority[current']
                                     /\ o = current \/ counter[o] = 0 \/ counter[o] = priority[o]
      BY DEF WInv, Origins
    <3>2. o \in 1 .. tasks_number /\ o \in Nat /\ o <= current'
      BY <1>1, <3>1
    <3>3. Beats(priority, o, current) /\ o # current
      BY <1>1, <2>2, <3>1, <3>2 DEF Beats
    <3>4. counter[o] < priority[o]
      BY <3>2, <3>3 DEF WInv, InOrder
    <3>5. counter[o] = 0
      BY <1>1, <3>1, <3>2, <3>3, <3>4
    <3>6. counter'[o] = 0
      BY <1>1, <1>3, <3>2, <3>3, <3>5
    <3>7. L(o) <= PRIORITY_MAX
      <4> HIDE DEF L
      <4>1. QED  BY <1>1, <1>4, <3>2, <3>3, <3>6
    <3>8. QED  BY <3>2, <3>3, <3>7
  <2>3. QED  BY <2>1, <2>2
<1>7. m \in Pids /\ m # current
  BY <1>1
<1>8. QED  BY <1>1, <1>5, <1>6, <1>7, AheadIsMost

LEMMA TickWait ==
  ASSUME NR_TASKS > 2, WInv, TimerInterrupt,
         waited' = [i \in Slots |-> IF i \in task /\ i \notin {idle, current, current'}
                                    THEN waited[i] + 1
                                    ELSE 0]
  PROVE  WInv'
<1>1. IInv /\ IInv' /\ current # idle
  BY TimerInterruptIInv DEF WInv, TimerInterrupt
<1>2. tasks_number' = tasks_number /\ priority' = priority /\ task' = task
  BY DEF TimerInterrupt
<1>3. /\ current \in 1 .. tasks_number /\ current' \in 1 .. tasks_number
      /\ counter'[current'] > 0
      /\ Continues \/ (Switches /\ Dispatches) \/ (OpensRound /\ Dispatches)
  BY <1>1, TickCases
<1>4. /\ tasks_number \in Pids /\ priority \in [Slots -> 0 .. PRIORITY_MAX]
      /\ counter \in [Slots -> 0 .. PRIORITY_MAX]
      /\ \A j \in 1 .. tasks_number : j \in Pids /\ j \in Slots /\ j \in task /\ j # idle /\ priority[j] \in 1 .. PRIORITY_MAX
      /\ task = 0 .. tasks_number /\ tasks_number \in Nat
  BY <1>1, Sizes
<1>5. counter' \in [Slots -> 0 .. PRIORITY_MAX]
  BY <1>1 DEF IInv, TypeOK
<1>6. CreditIsATurn' /\ Origins' /\ InOrder'
  <2>1. CASE Continues \/ (Switches /\ Dispatches)
    BY <1>2, <1>3, <2>1, TickOrigins, TickInOrder
  <2>2. CASE OpensRound /\ Dispatches
    BY <1>1, <1>2, <1>3, <2>2, RoundOpened DEF OpensRound, Dispatches
  <2>3. QED  BY <1>3, <2>1, <2>2
<1>7. waited \in [Slots -> Nat]
  BY DEF WInv, WaitType
<1>8. WaitType'
  <2>1. waited' \in [Slots -> Nat]
    BY <1>7
  <2>2. \A i \in Slots : i \notin task \/ i = current' => waited'[i] = 0
    BY <1>7
  <2>3. current' # idle
    BY <1>3, <1>4
  <2>4. QED  BY <1>2, <2>1, <2>2, <2>3 DEF WaitType
<1>9. ASSUME NEW i \in (1 .. tasks_number) \ {current'}
      PROVE  waited'[i] + Ahead(tasks_number, current', counter', priority, i) <= Most
  <2>1. /\ Ahead(tasks_number, current', counter', priority, i) \in Nat
        /\ Ahead(tasks_number, current, counter, priority, i) \in Nat
    BY <1>4, <1>5, LeftType
  <2>2. CASE i = current
    <3>1. waited'[i] = 0
      BY <1>4, <2>2
    <3>2. Ahead(tasks_number, current', counter', priority, i) <= Most
      <4>1. CASE OpensRound
        <5>1. counter'[i] > 0
          BY <1>4, <4>1 DEF OpensRound
        <5>2. QED  BY <1>4, <1>5, <5>1, AheadOfCredit
      <4>2. CASE Switches
        BY <1>2, <1>3, <1>5, <1>6, <2>2, <4>2, LeaverAhead
      <4>3. QED  BY <1>3, <1>9, <2>2, <4>1, <4>2 DEF Continues
    <3>3. QED  BY <2>1, <3>1, <3>2
  <2>3. CASE i # current
    <3>1. waited'[i] = waited[i] + 1 /\ waited[i] \in Nat
      BY <1>4, <1>7, <2>3
    <3>2. Ahead(tasks_number, current', counter', priority, i) + 1
            <= Ahead(tasks_number, current, counter, priority, i)
      BY <1>3, <1>5, <2>3, TickAhead
    <3>3. waited[i] + Ahead(tasks_number, current, counter, priority, i) <= Most
      BY <1>1, <2>3 DEF WInv, Waits
    <3>4. Most \in Int
      BY SizeAssumption, PriorityAssumption DEF Most
    <3>5. QED  BY <2>1, <3>1, <3>2, <3>3, <3>4
  <2>4. QED  BY <2>2, <2>3
<1>10. Waits'
  BY <1>2, <1>9 DEF Waits
<1>11. QED  BY <1>1, <1>6, <1>8, <1>10 DEF WInv

-----------------------------------------------------------------------------
\* A child has as much credit and the same priority as its parent, and the
\* last index: who has it before it has had its parent before it, too, and has
\* reckoned with a child.
LEMMA ForkWait ==
  ASSUME NR_TASKS > 2, WInv, Fork, UNCHANGED waited
  PROVE  WInv'
<1>1. IInv /\ IInv' /\ current # idle
  BY ForkIInv DEF WInv, Fork
<1>2. CASE UNCHANGED vars
  BY <1>2, <1>1 DEF WInv, vars, WaitType, CreditIsATurn, Origins, InOrder, Waits
<1>3. ASSUME NEW k \in Slots, FreeSlot(k),
             task' = task \cup {k}, tasks_number' = k,
             counter' = [counter EXCEPT ![k] = counter[current]],
             priority' = [priority EXCEPT ![k] = priority[current]],
             UNCHANGED current
      PROVE  WInv'
  <2>1. /\ PRIORITY_MAX \in Nat \ {0} /\ tasks_number \in Nat \ {0}
        /\ tasks_number \in Pids /\ task = 0 .. tasks_number
        /\ counter \in [Slots -> 0 .. PRIORITY_MAX] /\ priority \in [Slots -> 0 .. PRIORITY_MAX]
        /\ \A j \in Pids : j \in Slots /\ j \in Nat \ {0}
        /\ \A j \in 1 .. tasks_number : j \in Pids /\ j \in Nat \ {0} /\ priority[j] \in 1 .. PRIORITY_MAX
    BY <1>1, Sizes
  <2>2. k = tasks_number + 1
    BY <1>1, <1>3, FreeSlotIsNext
  <2>3. k \in Pids /\ k \in Slots /\ k \notin 1 .. tasks_number /\ k \notin task
    <3>1. k \in Pids
      BY <1>1, <1>3, Sizes DEF IInv, TypeOK
    <3>2. QED  BY <2>1, <2>2, <3>1
  <2>4. current \in 1 .. tasks_number /\ counter[current] > 0 /\ current \in Pids /\ current # k
    BY <1>1, <2>1, <2>3 DEF IInv, RunningHasCredit
  <2>5. /\ \A j \in 1 .. k : j \in 1 .. tasks_number \/ j = k
        /\ \A j \in 1 .. tasks_number : j \in 1 .. k
    BY <2>1, <2>2
  <2>6. /\ counter'[k] = counter[current] /\ priority'[k] = priority[current]
        /\ \A j \in Slots : j # k => counter'[j] = counter[j] /\ priority'[j] = priority[j]
        /\ counter' \in [Slots -> 0 .. PRIORITY_MAX] /\ priority' \in [Slots -> 0 .. PRIORITY_MAX]
    <3>1. current \in Slots
      BY <2>1, <2>4
    <3>2. QED  BY <1>3, <2>1, <3>1
  <2>7. \A j \in 1 .. tasks_number : j # k /\ counter'[j] = counter[j] /\ priority'[j] = priority[j]
    BY <2>1, <2>3, <2>6
  <2>8. \A j \in Pids : counter[j] \in 0 .. PRIORITY_MAX /\ priority[j] \in 0 .. PRIORITY_MAX
    BY <2>1
  <2>9. \A i \in 1 .. tasks_number : Beats(priority', k, i) => Beats(priority, current, i)
    <3>1. ASSUME NEW i \in 1 .. tasks_number, Beats(priority', k, i)
          PROVE  Beats(priority, current, i)
      <4>1. ~ (k < i)
        BY <2>1, <2>2
      <4>2. QED  BY <2>6, <2>7, <3>1, <4>1 DEF Beats
    <3>2. QED  BY <3>1
  <2>10. WaitType'
    <3>1. waited \in [Slots -> Nat] /\ waited[k] = 0
      BY <2>3 DEF WInv, WaitType
    <3>2. \A i \in Slots : i \notin task \/ i = current => waited[i] = 0
      BY DEF WInv, WaitType
    <3>3. QED  BY <1>1, <1>3, <3>1, <3>2 DEF WaitType
  <2>11. CreditIsATurn'
    <3>1. \A j \in 1 .. tasks_number : counter[j] <= priority[j]
      BY DEF WInv, CreditIsATurn
    <3>2. \A j \in 1 .. k : counter'[j] <= priority'[j]
      BY <2>4, <2>5, <2>6, <2>7, <3>1
    <3>3. QED  BY <1>3, <3>2 DEF CreditIsATurn
  <2>12. Origins'
    <3>1. ASSUME NEW j \in 1 .. k
          PROVE  \E o \in 1 .. j :
                   /\ priority'[o] = priority'[j]
                   /\ o = current \/ counter'[o] = 0 \/ counter'[o] = priority'[o]
      <4>1. CASE j = k
        <5>1. current \in 1 .. j /\ priority'[current] = priority'[j]
          BY <2>1, <2>2, <2>4, <2>6, <2>7, <4>1
        <5>2. QED  BY <5>1
      <4>2. CASE j \in 1 .. tasks_number
        <5>1. PICK o \in 1 .. j :
                /\ priority[o] = priority[j]
                /\ o = current \/ counter[o] = 0 \/ counter[o] = priority[o]
          BY <4>2 DEF WInv, Origins
        <5>2. o \in 1 .. tasks_number
          BY <2>1, <4>2
        <5>3. QED  BY <2>7, <4>2, <5>1, <5>2
      <4>3. QED  BY <2>5, <4>1, <4>2
    <3>2. QED  BY <1>3, <3>1 DEF Origins
  <2>13. InOrder'
    <3>1. ASSUME NEW i \in 1 .. k, NEW j \in 1 .. k,
                 i = current \/ counter'[i] = 0, Beats(priority', j, i)
          PROVE  counter'[j] < priority'[j]
      <4>1. i \in 1 .. tasks_number
        BY <2>4, <2>5, <2>6, <2>8, <3>1
      <4>2. i = current \/ counter[i] = 0
        BY <2>7, <3>1, <4>1
      <4>3. CASE j = k
        <5>1. counter[current] < priority[current]
          BY <2>4, <2>9, <3>1, <4>1, <4>2, <4>3 DEF WInv, InOrder
        <5>2. QED  BY <2>6, <4>3, <5>1
      <4>4. CASE j \in 1 .. tasks_number
        <5>1. Beats(priority, j, i)
          BY <2>7, <3>1, <4>1, <4>4 DEF Beats
        <5>2. counter[j] < priority[j]
          BY <4>1, <4>2, <4>4, <5>1 DEF WInv, InOrder
        <5>3. QED  BY <2>7, <4>4, <5>2
      <4>5. QED  BY <2>5, <4>3, <4>4
    <3>2. QED  BY <1>3, <3>1 DEF InOrder
  <2>14. ASSUME NEW i \in (1 .. k) \ {current}
         PROVE  waited[i] + Ahead(k, current, counter', priority', i) <= Most
    <3>1. /\ Ahead(k, current, counter', priority', i) \in Nat /\ waited[i] \in Nat
          /\ i \in Pids /\ i \in Slots
      <4>1. i \in Pids /\ i \in Slots
        BY <2>1, <2>3, <2>5
      <4>2. waited[i] \in Nat
        BY <4>1 DEF WInv, WaitType
      <4>3. QED  BY <2>3, <2>6, <4>1, <4>2, LeftType
    <3>2. CASE i = k
      <4>1. waited[i] = 0
        BY <2>3, <3>2 DEF WInv, WaitType
      <4>2. counter'[i] > 0
        BY <2>4, <2>6, <3>2
      <4>3. Ahead(k, current, counter', priority', i) <= Most
        BY <2>3, <2>6, <3>1, <4>2, AheadOfCredit
      <4>4. QED  BY <3>1, <4>1, <4>3
    <3>3. CASE i \in 1 .. tasks_number
      <4>1. counter'[i] = counter[i] /\ priority'[i] = priority[i] /\ i # k
        BY <2>7, <3>3
      <4>2. ASSUME NEW j \in Pids
            PROVE  Left(k, current, counter', priority', i, j)
                     <= Left(tasks_number, current, counter, priority, i, j)
        <5>1. CASE j = k
          <6>1. Left(tasks_number, current, counter, priority, i, j) =
                  IF counter[i] = 0 THEN 2 * PRIORITY_MAX - 1 ELSE PRIORITY_MAX
            BY <2>3, <4>1, <5>1 DEF Left
          <6>2. CASE counter[i] = 0
            <7>1. Left(k, current, counter', priority', i, j) =
                    counter[current] + (IF Beats(priority', k, i) THEN priority[current] ELSE 0)
              BY <2>2, <2>1, <2>6, <4>1, <5>1, <6>2 DEF Left
            <7>2. Beats(priority', k, i) => counter[current] < priority[current]
              BY <2>4, <2>9, <3>3, <6>2 DEF WInv, InOrder
            <7>3. QED  BY <2>1, <2>4, <2>8, <6>1, <6>2, <7>1, <7>2
          <6>3. CASE counter[i] # 0
            <7>1. Left(k, current, counter', priority', i, j) \in {counter[current], 0}
              BY <2>2, <2>1, <2>6, <4>1, <5>1, <6>3 DEF Left
            <7>2. QED  BY <2>1, <2>4, <2>8, <6>1, <6>3, <7>1
          <6>4. QED  BY <6>2, <6>3
        <5>2. CASE j # k
          <6>1. /\ counter'[j] = counter[j] /\ priority'[j] = priority[j]
                /\ j \in 1 .. k <=> j \in 1 .. tasks_number
            BY <2>1, <2>5, <2>6, <5>2
          <6>2. /\ Beats(priority', j, i) <=> Beats(priority, j, i)
                /\ Beats(counter', j, i) <=> Beats(counter, j, i)
            BY <4>1, <6>1 DEF Beats
          <6>3. Left(k, current, counter', priority', i, j) =
                  Left(tasks_number, current, counter, priority, i, j)
            BY <4>1, <6>1, <6>2 DEF Left
          <6>4. Left(k, current, counter', priority', i, j) \in Nat
            BY <2>3, <2>6, <3>1, LeftType
          <6>5. QED  BY <6>3, <6>4
        <5>3. QED  BY <5>1, <5>2
      <4>3. Ahead(k, current, counter', priority', i) <= Ahead(tasks_number, current, counter, priority, i)
        BY <2>1, <2>3, <2>6, <3>1, <4>2, AheadGrows
      <4>4. Ahead(tasks_number, current, counter, priority, i) \in Nat
        BY <2>1, <3>1, LeftType
      <4>5. waited[i] + Ahead(tasks_number, current, counter, priority, i) <= Most
        BY <1>1, <2>14, <3>3 DEF WInv, Waits
      <4>6. Most \in Int
        BY SizeAssumption, PriorityAssumption DEF Most
      <4>7. QED  BY <3>1, <4>3, <4>4, <4>5, <4>6
    <3>4. QED  BY <2>5, <3>2, <3>3
  <2>15. Waits'
    BY <1>3, <2>14 DEF Waits
  <2>16. QED  BY <1>1, <2>10, <2>11, <2>12, <2>13, <2>15 DEF WInv
<1>4. QED  BY <1>2, <1>3 DEF Fork

LEMMA WNextInv ==
  ASSUME NR_TASKS > 2
  PROVE  WInv /\ [WNext]_<<vars, waited>> => WInv'
<1> SUFFICES ASSUME WInv, [WNext]_<<vars, waited>>  PROVE  WInv'
  OBVIOUS
<1>1. CASE TimerInterrupt /\ waited' = [i \in Slots |-> IF i \in task /\ i \notin {idle, current, current'}
                                                         THEN waited[i] + 1
                                                         ELSE 0]
  BY <1>1, TickWait
<1>2. CASE StartKernel /\ UNCHANGED waited
  BY <1>2, StartKernelWait
<1>3. CASE Fork /\ UNCHANGED waited
  BY <1>3, ForkWait
<1>4. CASE UNCHANGED <<vars, waited>>
  <2>1. IInv'
    BY <1>4, NextIInv DEF WInv
  <2>2. QED
    BY <1>4, <2>1 DEF WInv, vars, WaitType, CreditIsATurn, Origins, InOrder, Waits
<1>5. QED  BY <1>1, <1>2, <1>3, <1>4 DEF WNext

\* The running task has at least a tick ahead of all others.
LEMMA WInvBound ==
  ASSUME NR_TASKS > 2
  PROVE  WInv => WaitBounded
<1> SUFFICES ASSUME WInv, NEW i \in Pids
             PROVE  waited[i] <= (2 * (NR_TASKS - 2) - 1) * PRIORITY_MAX - (NR_TASKS - 2)
  BY DEF WaitBounded
<1>1. /\ NR_TASKS \in Nat /\ PRIORITY_MAX \in Nat \ {0} /\ tasks_number \in Pids /\ tasks_number \in Nat
      /\ counter \in [Slots -> 0 .. PRIORITY_MAX] /\ priority \in [Slots -> 0 .. PRIORITY_MAX]
      /\ task = 0 .. tasks_number /\ i \in Slots /\ i \in Nat \ {0}
      /\ \A j \in 1 .. tasks_number : j \in Pids /\ j \in Slots
  BY Sizes DEF WInv
<1>2. Most - 1 = (2 * (NR_TASKS - 2) - 1) * PRIORITY_MAX - (NR_TASKS - 2) /\ Most \in Int
  BY <1>1 DEF Most
<1>3. Most >= 1
  <2>1. NR_TASKS - 3 \in Nat /\ 2 * PRIORITY_MAX - 1 \in Nat
    BY <1>1
  <2>2. (NR_TASKS - 3) * (2 * PRIORITY_MAX - 1) \in Nat
    BY <2>1
  <2>3. QED  BY <1>1, <2>2 DEF Most
<1>4. waited[i] <= Most - 1
  <2>1. CASE i \notin task \/ i = current \/ current = idle
    <3>1. waited[i] = 0
      BY <1>1, <2>1 DEF WInv, WaitType
    <3>2. QED  BY <1>2, <1>3, <3>1
  <2>2. CASE i \in task /\ i # current /\ current # idle
    <3>1. i \in (1 .. tasks_number) \ {current} /\ current \in 1 .. tasks_number /\ counter[current] > 0
      BY <1>1, <2>2 DEF WInv, IInv, RunningHasCredit
    <3>2. waited[i] + Ahead(tasks_number, current, counter, priority, i) <= Most
      BY <2>2, <3>1 DEF WInv, Waits
    <3>3. Ahead(tasks_number, current, counter, priority, i) >= 1
      <4> DEFINE e == [j \in Pids |-> Left(tasks_number, current, counter, priority, i, j)]
                 d == [j \in Pids |-> 0]
      <4>1. e \in [Pids -> Nat] /\ d \in [Pids -> Nat] /\ \A j \in Pids : e[j] <= 2 * PRIORITY_MAX
        BY <1>1, LeftType
      <4>2. current \in Pids /\ counter[current] \in Nat \ {0} /\ priority[current] \in Nat
        BY <1>1, <3>1
      <4>3. e[current] > 0
        BY <3>1, <4>2 DEF Left
      <4>4. d[current] < e[current] /\ \A j \in Pids : d[j] <= e[j]
        BY <4>1, <4>2, <4>3
      <4> HIDE DEF d, e
      <4>5. Total(d) \in Nat /\ Total(e) \in Nat /\ Total(d) + 1 <= Total(e)
        BY <4>1, <4>2, <4>4, TotalGrows
      <4>6. QED  BY <4>5 DEF Ahead, e
    <3>4. waited[i] \in Nat /\ Ahead(tasks_number, current, counter, priority, i) \in Nat
      BY <1>1, LeftType DEF WInv, WaitType
    <3>5. QED  BY <1>2, <3>2, <3>3, <3>4
  <2>3. QED  BY <2>1, <2>2
<1>5. QED  BY <1>2, <1>4

\* In a table with room for two tasks or more, no task waits longer than
\* WaitBounded says, however ticks and forks alternate: no order of creation
\* and no choice of priorities keeps a task off the CPU.
THEOREM SchedWaitBounded ==
  ASSUME NR_TASKS > 2
  PROVE  WSpec => []WaitBounded
<1>1. WInv /\ [WNext]_<<vars, waited>> => WInv'
  BY WNextInv
<1>2. WInv => WaitBounded
  BY WInvBound
<1>3. QED
  BY <1>1, <1>2, WInitInv, PTL DEF WSpec
=============================================================================
