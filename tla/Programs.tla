------------------------------ MODULE Programs ------------------------------
(***************************************************************************)
(* The user programs of user/main.c, one of which runs at a time on the    *)
(* processes it forks, their library (UserPrintf) and the system calls they*)
(* make: fork, getpid and write.  Any process may run next: timer          *)
(* interrupts come between any two steps (Sched says who gets the CPU).    *)
(* Each process has a memory of its own, and a fork copies it: that is     *)
(* what CowMemory is shown to implement.                                   *)
(*                                                                         *)
(* A program is a sequence of statements; a statement that evaluates the   *)
(* arguments of printf includes the getpid among them.                     *)
(***************************************************************************)
EXTENDS UserPrintf, FiniteSets

CONSTANTS
  Sizes,       \* the sizes of the task table to choose from
  Calls,       \* printf calls that a program other than those of main.c makes
  SP,          \* the user stack pointer
  MAX_LINES    \* bound: a program that has counted so far stays in wait()

ASSUME ProgramAssumption ==
  /\ Sizes \subseteq Nat \ {0, 1}
  /\ Procs = UNION {1 .. size - 1 : size \in Sizes}

VARIABLES
  program,     \* the main that was compiled in
  NR_TASKS,    \* the size of the table that was
  n,           \* processes 1 .. n exist
  at,          \* at[p]: the statement process p is at
  global,      \* global_variable, counter or global_increment of p
  i,           \* the loop variable of p
  placeholder, \* the text FORK2 keeps in its array
  said,        \* history: the printf call p made last
  shown,       \* history: the count p showed last, or its parent before the fork
  console      \* console[p]: what the last write of p put out, with the call it came from

\* What no step changes.
built == <<program, NR_TASKS>>

vars == <<printfVars, built, n, at, global, i, placeholder, said, shown, console>>

-----------------------------------------------------------------------------
\* main.c.  A statement says where control goes from it: fork to two places.

print(fmt, args)    == [op |-> "print", fmt |-> fmt, args |-> args]
fork(child, parent) == [op |-> "fork", child |-> child, parent |-> parent]
wait(to)            == [op |-> "wait", to |-> to]
for(to, bound)      == [op |-> "for", to |-> to, bound |-> bound]
store(text)         == [op |-> "store", text |-> text]
spin                == [op |-> "spin"]
any                 == [op |-> "any"]

\* %ld and %d after a text each.
Line(who, text) == <<who, "%", "l", "d", text, "%", "d", "\n">>

PFH1 ==
  << print(<<"[U-MODE] pid: ", "%", "l", "d", ", sp is ", "%", "p", ", this is print No.", "%",
             "d", "\n">>, <<"pid", "sp", "++global">>),
     wait(1) >>

PFH2 ==
  << print(<<"[U-MODE] pid: ", "%", "l", "d", ", increment: ", "%", "l", "d", "\n">>,
           <<"pid", "global++">>),
     wait(1) >>

running == " is running! global_variable: "

FORK1 ==
  << fork(2, 4),
     print(Line("[U-CHILD] pid: ", running), <<"pid", "global++">>), wait(2),
     print(Line("[U-PARENT] pid: ", running), <<"pid", "global++">>), wait(4) >>

Message(who) == <<who, "%", "l", "d", " is running! Message: ", "%", "s", "\n">>

FORK2 ==
  << print(Line("[U] pid: ", running), <<"pid", "global++">>), for(1, 3),
     store(<<"ZJU", " ", "OS", " ", "Lab5">>),
     fork(5, 8),
     print(Message("[U-CHILD] pid: "), <<"pid", "message">>),
     print(Line("[U-CHILD] pid: ", running), <<"pid", "global++">>), wait(6),
     print(Message("[U-PARENT] pid: "), <<"pid", "message">>),
     print(Line("[U-PARENT] pid: ", running), <<"pid", "global++">>), wait(9) >>

FORK3 ==
  << print(Line("[U] pid: ", running), <<"pid", "global++">>),
     fork(3, 3), fork(4, 4),
     print(Line("[U] pid: ", running), <<"pid", "global++">>),
     fork(6, 6),
     print(Line("[U] pid: ", running), <<"pid", "global++">>), wait(6) >>

NoTest == << print(<<"No test function specified.\n">>, <<>>), spin >>

\* Any other program, as far as printf is concerned.
Library == << any, spin >>

Mains == {PFH1, PFH2, FORK1, FORK2, FORK3, NoTest, Library}

-----------------------------------------------------------------------------
Nothing == [text |-> <<>>, ret |-> 0, stored |-> 0, before |-> 0,
            said |-> [fmt |-> <<>>, args |-> <<>>, counts |-> FALSE]]

Init ==
  /\ PrintfInit
  /\ program \in Mains
  /\ NR_TASKS \in Sizes
  /\ n = 1
  /\ at = [p \in Procs |-> 1]
  /\ global = [p \in Procs |-> 0]
  /\ i = [p \in Procs |-> 0]
  /\ placeholder = [p \in Procs |-> <<>>]
  /\ said = [p \in Procs |-> Nothing.said]
  /\ shown = [p \in Procs |-> IF program = PFH1 THEN 0 ELSE -1]
  /\ console = [p \in Procs |-> Nothing]

\* p is about to execute a statement of this kind.
Executes(p, op) ==
  /\ p \in 1 .. n
  /\ frame[p] = Idle
  /\ program[at[p]].op = op

Stmt(p) == program[at[p]]

Increments(args) == \E k \in DOMAIN args : args[k] \in {"global++", "++global"}

\* current->pid, the index of the task.
get_pid(p) == p

Argument(p, a) ==
  CASE a = "pid" -> get_pid(p)
    [] a = "sp" -> SP
    [] a = "global++" -> Unsigned(global[p], LONG_BITS)
    [] a = "++global" -> Unsigned(global[p] + 1, LONG_BITS)
    [] a = "message" -> placeholder[p]

Says(p, fmt, args, counts) ==
  /\ Call(p, fmt, args)
  /\ said' = [said EXCEPT ![p] = [fmt |-> fmt, args |-> args, counts |-> counts]]

PrintLine(p) ==
  /\ Executes(p, "print")
  /\ Says(p, Stmt(p).fmt, [k \in DOMAIN Stmt(p).args |-> Argument(p, Stmt(p).args[k])],
          Increments(Stmt(p).args))
  /\ global' = [global EXCEPT ![p] = IF Increments(Stmt(p).args) THEN @ + 1 ELSE @]
  /\ at' = [at EXCEPT ![p] = @ + 1]
  /\ UNCHANGED <<built, n, i, placeholder, shown, console>>

PrintAny(p) ==
  /\ Executes(p, "any")
  /\ \E call \in Calls : Says(p, call.fmt, call.args, FALSE)
  /\ at' = [at EXCEPT ![p] = @ + 1]
  /\ UNCHANGED <<built, n, global, i, placeholder, shown, console>>

\* One round of the empty loop of wait(), or its end.
Wait(p) ==
  /\ Executes(p, "wait")
  /\ \/ global[p] < MAX_LINES /\ at' = [at EXCEPT ![p] = Stmt(p).to]
     \/ UNCHANGED at
  /\ UNCHANGED <<printfVars, built, n, global, i, placeholder, said, shown, console>>

\* Mutant: i <= 3.
again_OneMore(p) == i[p] + 1 <= Stmt(p).bound

\* i < 3, after i++.
again(p) == i[p] + 1 < Stmt(p).bound

For(p) ==
  /\ Executes(p, "for")
  /\ i' = [i EXCEPT ![p] = @ + 1]
  /\ at' = [at EXCEPT ![p] = IF again(p) THEN Stmt(p).to ELSE @ + 1]
  /\ UNCHANGED <<printfVars, built, n, global, placeholder, said, shown, console>>

StoreText(p) ==
  /\ Executes(p, "store")
  /\ placeholder' = [placeholder EXCEPT ![p] = Stmt(p).text]
  /\ at' = [at EXCEPT ![p] = @ + 1]
  /\ UNCHANGED <<printfVars, built, n, global, i, said, shown, console>>

Spin(p) == Executes(p, "spin") /\ UNCHANGED vars

-----------------------------------------------------------------------------
\* The system calls.

\* Mutant: sepc of the child's frame is not advanced, so it forks again.
resumes_AtEcall(p) == at[p]

\* Where the child goes on: behind the ecall, with a0 = 0.
resumes(p) == Stmt(p).child

\* Mutant: the child's memory is loaded from the program image.
inherits_Nothing(f, p, c, blank) == [f EXCEPT ![c] = blank]

\* The child has the parent's memory.
inherits(f, p, c, blank) == [f EXCEPT ![c] = f[p]]

\* Mutant: the search stops one entry early.
full_OneEarly == n = NR_TASKS - 2

\* No entry of the task table is free.
full == n = NR_TASKS - 1

Fork(p) ==
  /\ Executes(p, "fork")
  /\ IF full
     THEN /\ at' = [at EXCEPT ![p] = Stmt(p).parent]     \* -1 is not 0
          /\ UNCHANGED <<printfVars, n, global, i, placeholder, said, shown>>
     ELSE LET c == n + 1 IN
          /\ n' = c
          /\ at' = [at EXCEPT ![p] = Stmt(p).parent, ![c] = resumes(p)]
          /\ global' = inherits(global, p, c, 0)
          /\ i' = inherits(i, p, c, 0)
          /\ placeholder' = inherits(placeholder, p, c, <<>>)
          /\ buffer' = inherits(buffer, p, c, [k \in 1 .. BUFSIZE |-> NUL])
          /\ tail' = inherits(tail, p, c, 0)
          /\ shown' = [shown EXCEPT ![c] = shown[p]]
          /\ UNCHANGED <<frame, said>>
  /\ UNCHANGED <<built, console>>

STDOUT == 1

\* The string at a place of memory ends before its first terminator.
CString(chars) == SubSeq(chars, 1, Past(chars, 1, {chars[k] : k \in DOMAIN chars} \ {NUL}) - 1)

\* write of the kernel: count is looked at and then not used.
write(fd, buf, count) ==
  IF fd # STDOUT \/ count = 0
  THEN [text |-> <<>>, res |-> -1, stored |-> 0]
  ELSE printk(<<"%", "s">>, <<CString(buf)>>)

Write(p) ==
  LET out == write(STDOUT, buffer[p], tail[p]) IN
  /\ frame[p].stage = "ecall"
  /\ console' = [console EXCEPT ![p] = [text |-> out.text, ret |-> out.res, said |-> said[p],
                                        stored |-> frame[p].stored, before |-> shown[p]]]
  /\ shown' = IF said[p].counts THEN [shown EXCEPT ![p] = Last(said[p].args)] ELSE shown
  /\ frame' = [frame EXCEPT ![p].stage = "return"]
  /\ UNCHANGED <<buffer, tail, built, n, at, global, i, placeholder, said>>

\* A step of printf.
InPrintf(p) ==
  /\ PrintfStep(p)
  /\ UNCHANGED <<built, n, at, global, i, placeholder, said, shown, console>>

Step(p) ==
  \/ PrintLine(p) \/ PrintAny(p) \/ Wait(p) \/ For(p) \/ StoreText(p) \/ Spin(p)
  \/ Fork(p) \/ Write(p)
  \/ InPrintf(p)

Next == \E p \in Procs : Step(p)

Spec == Init /\ [][Next]_vars

-----------------------------------------------------------------------------
\* The memory of a process, its stack frame in printf included, and history.
TypeOK ==
  /\ program \in Mains /\ NR_TASKS \in Sizes
  /\ n \in 1 .. NR_TASKS - 1
  /\ \A p \in Procs :
       /\ at[p] \in DOMAIN program
       /\ tail[p] \in Nat
       /\ global[p] \in 0 .. MAX_LINES + 3
       /\ i[p] \in 0 .. 3
       /\ frame[p].stage \in {"idle", "format", "ecall", "return"}
       /\ frame[p].at \in 1 .. Len(frame[p].fmt) + 1

\* p is back from write.
Wrote(p) == frame[p].stage = "return"

\* Each write puts out the text the formatting functions give for the call of
\* printf it comes from, complete, up to a NUL among its characters, and with
\* nothing of an earlier line or of another process in it, whatever ran while
\* the text was put together; and the kernel returns its length.
WholeLines ==
  \A p \in Procs :
    Wrote(p) =>
      LET call == printk(console[p].said.fmt, console[p].said.args) IN
      /\ console[p].text = CString(call.text)
      /\ console[p].ret = Len(console[p].text)
      /\ console[p].stored = call.stored

\* A process writes its own pid and counts on from its last line, or from the
\* last line of its parent before the fork.
CountsOn ==
  \A p \in Procs :
    Wrote(p) /\ console[p].said.counts =>
      /\ Head(console[p].said.args) = p
      /\ Last(console[p].said.args) = console[p].before + 1

\* No putc stores outside buffer (printf.c:6), and the digits of a number fit
\* in the array each conversion has for them (printf.c:123 and 211).
DigitRoom(c) == IF c \in {"x", "X", "p"} THEN LONG_BITS \div 4
                ELSE Len(Numeral(2^LONG_BITS - 1, 10, lowerxdigits))

BuffersFit ==
  \A p \in Procs :
    /\ tail[p] <= BUFSIZE
    /\ frame[p].number # NoNumber => Len(frame[p].number.buf) <= DigitRoom(frame[p].number.c)

\* A call that prints one integer and nothing else but padding.
Integer == {"d", "i", "u", "x", "X"}
PrintsInteger(call) ==
  /\ call.fmt # <<>> /\ Head(call.fmt) = "%" /\ Last(call.fmt) \in Integer
  /\ Cardinality({k \in DOMAIN call.fmt : call.fmt[k] = "%"}) = 1

\* The number that was passed: %d and %i see it with its sign, and so does %u
\* when it is an int, since it goes through a long (printf.c:245).
Passed(call) ==
  LET c    == Last(call.fmt)
      long == \E k \in DOMAIN call.fmt : call.fmt[k] \in {"l", "z", "t", "j"}
      bits == IF long THEN LONG_BITS ELSE INT_BITS
  IN CASE c \in {"d", "i"} -> Signed(Last(call.args), bits)
       [] c = "u" -> Unsigned(Signed(Last(call.args), bits), LONG_BITS)
       [] OTHER -> Unsigned(Last(call.args), bits)

\* strtol reads back the number that was printed, through padding, sign, zeros
\* and prefix.
ReadsBack ==
  \A p \in Procs :
    LET call  == console[p].said
        c     == Last(call.fmt)
        text  == console[p].text
        radix == IF "#" \in {call.fmt[k] : k \in DOMAIN call.fmt} THEN 0
                 ELSE IF c \in {"x", "X"} THEN 16 ELSE 10
        read  == strtol(text, 1, radix)
    IN Wrote(p) /\ PrintsInteger(call) =>
         /\ Unsigned(read.value, LONG_BITS) = Unsigned(Passed(call), LONG_BITS)
         /\ read.end = Len(text) + 1

\* A call of printf comes back: each of its steps moves on in the format, finds
\* another digit (BuffersFit bounds them) or puts a character.
PrintfAdvances ==
  [][\A p \in Procs :
       LET f == frame[p]
           g == frame'[p]
       IN f.stage = "format" /\ g.stage = "format" /\ g # f =>
            \/ f.at < g.at
            \/ f.at = g.at /\ Len(g.putting) < Len(f.putting)
            \/ f.at = g.at /\ f.number = NoNumber /\ g.number # NoNumber
            \/ f.at = g.at /\ Len(f.number.buf) < Len(g.number.buf)]_vars

\* Each fork of the program doubles the processes that come to it.  A process
\* with k forks ahead stands for 2^k of those there will be, so where the table
\* has room for all the total is the same at all times, whoever forks first and
\* while whoever else forks; FORK3 makes 8.
Ahead(p) == Cardinality({k \in at[p] .. Len(program) : program[k].op = "fork"})

Total == FoldLeft(LAMBDA sum, k : sum + k, 0, [p \in 1 .. n |-> 2^Ahead(p)])

Makes == CASE program \in {FORK1, FORK2} -> 2 [] program = FORK3 -> 8 [] OTHER -> 1

ForksDouble == Makes <= NR_TASKS - 1 => Total = Makes
=============================================================================
