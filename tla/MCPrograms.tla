----------------------------- MODULE MCPrograms -----------------------------
(***************************************************************************)
(* A small instance of Programs: an int of 4 bits and a long of 8, a table *)
(* for three processes, and for the library calls that take every branch   *)
(* of vprintfmt with arguments at the edges of their types.  And FORK3 in  *)
(* the table of the code, which has room for the 8 processes it makes.     *)
(***************************************************************************)
EXTENDS Programs

MCSizes == {4, 9}
MCProcs == 1 .. 8

\* In the larger table a process that has called printf comes back from it
\* before another one takes a step.  The steps of printf read and write what
\* belongs to their process alone and leave n and every at[p] as they are, so
\* each order of the other steps, and each value that n and at take together,
\* is found this way too.
OneInPrintf(p) == NR_TASKS = 9 => \A q \in Procs \ {p} : frame[q] = Idle

MCInit == Init /\ (NR_TASKS = 9 => program = FORK3)
MCNext == \E p \in Procs : OneInPrintf(p) /\ Step(p)
MCSpec == MCInit /\ [][MCNext]_vars

\* What a register may hold: 0, small, the extremes of int and of long.
Words == {0, 7, 8, 9, 15, 100, 127, 128, 249, 255}

Integers1(fmt) == {[fmt |-> fmt, args |-> <<w>>] : w \in Words}

IntegerFormats ==
  { <<"%", "d">>, <<"%", "l", "d">>, <<"%", "i">>, <<"%", "u">>, <<"%", "z", "u">>,
    <<"%", "0", "5", "d">>, <<"%", "+", "l", "d">>, <<"%", " ", "6", "l", "d">>,
    <<"%", "5", ".", "3", "d">>, <<"%", ".", "4", "l", "d">>, <<"%", "x">>, <<"%", "l", "X">>,
    <<"%", "#", "l", "x">>, <<"%", "#", "0", "6", "l", "X">>, <<"%", "4", ".", "3", "x">> }

Others ==
  { [fmt |-> <<"%", "*", "l", "d">>, args |-> <<5, 100>>],
    [fmt |-> <<"%", ".", "*", "x">>, args |-> <<3, 9>>],
    [fmt |-> <<"%", ".", "0", "d", "%", ".", "0", "x">>, args |-> <<0, 0>>],
    [fmt |-> <<"%", "p", "%", "%">>, args |-> <<200>>],
    [fmt |-> <<"a", "%", "s", "%", "n">>, args |-> <<NULL, 0>>],
    [fmt |-> <<"%", "c", "%", "k", "%", "c", "a">>, args |-> <<"c", NUL>>] }

MCCalls == UNION {Integers1(fmt) : fmt \in IntegerFormats} \cup Others
=============================================================================
