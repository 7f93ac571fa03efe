--------------------------- MODULE PageAllocator ---------------------------
(***************************************************************************)
(* What the callers of mm.c rely on: a request is answered with a run of   *)
(* pages nobody has, rounded up to a power of two and aligned to its size, *)
(* and refused only when there is no such run.  A run stays with its users *)
(* until the last reference is given back.  Page 0 is never handed out.    *)
(***************************************************************************)
EXTENDS Naturals

CONSTANTS
  size,      \* pages in all
  reserved,  \* the first of them hold the kernel
  Request    \* run lengths that are asked for, powers of two

VARIABLES
  length,    \* length[a]: how many pages the run that starts at a has, or 0
  refs,      \* refs[a]: how many references there are to it
  ret        \* the answer to the last request, 0 for none

vars == <<length, refs, ret>>

Pages == 0 .. size - 1

Run(a, n) == a .. a + n - 1

Taken == UNION {Run(a, length[a]) : a \in Pages}

FreeRun(a, n) == a % n = 0 /\ Run(a, n) \subseteq Pages \ Taken

Init ==
  /\ length = [a \in Pages |-> IF a < reserved THEN 1 ELSE 0]
  /\ refs = length
  /\ ret \in Pages

Alloc(n) ==
  \/ \E a \in Pages :
       /\ FreeRun(a, n)
       /\ length' = [length EXCEPT ![a] = n]
       /\ refs' = [refs EXCEPT ![a] = 1]
       /\ ret' = a
  \/ /\ ~ \E a \in Pages : FreeRun(a, n)
     /\ ret' = 0
     /\ UNCHANGED <<length, refs>>

Get(a) ==
  /\ refs[a] > 0
  /\ refs' = [refs EXCEPT ![a] = @ + 1]
  /\ UNCHANGED <<length, ret>>

Put(a) ==
  /\ refs[a] > 0
  /\ refs' = [refs EXCEPT ![a] = @ - 1]
  /\ length' = IF refs[a] = 1 THEN [length EXCEPT ![a] = 0] ELSE length
  /\ UNCHANGED ret

Next ==
  \/ \E n \in Request : Alloc(n)
  \/ \E a \in Pages \ Run(0, reserved) : Get(a) \/ Put(a)

Spec == Init /\ [][Next]_vars
=============================================================================
