----------------------------- MODULE UserPrintf -----------------------------
(***************************************************************************)
(* printf of the user library, user/printf.c: the same formatting code as  *)
(* the kernel's, but it runs in user mode, where a timer interrupt may come*)
(* between any two steps, and collects its text in a global buffer that    *)
(* printf hands to the kernel at its end.  Each process has its own copy of*)
(* buffer, tail and the stack frame; what a process does here nobody else  *)
(* sees before the system call.                                            *)
(*                                                                         *)
(* A step is one round of a loop of the code, or one putch.                *)
(***************************************************************************)
EXTENDS Printk

CONSTANTS
  Procs,
  BUFSIZE      \* 1000 in the code

VARIABLES
  buffer,      \* buffer[p] is the array buffer in the memory of p
  tail,
  frame        \* the locals of printf, vprintfmt and what it calls

printfVars == <<buffer, tail, frame>>

NoNumber == [c |-> NUL, num |-> 0, sign |-> <<>>, buf |-> <<>>]

\* stage: "idle" outside printf, then "format", "ecall", "return".
\* putting: characters on their way to putch.  number: the number under
\* conversion, with the digits found so far.
Idle == [stage |-> "idle", fmt |-> <<>>, at |-> 1, args |-> <<>>, flags |-> NoFlags,
         written |-> 0, stored |-> 0, putting |-> <<>>, number |-> NoNumber]

\* printf.c has its own copies of printk.c's helpers, line for line.
user_strtol(s, p, radix) == strtol(s, p, radix)
user_puts_wo_nl(s)       == puts_wo_nl(s)

PrintfInit ==
  /\ buffer = [p \in Procs |-> [i \in 1 .. BUFSIZE |-> NUL]]
  /\ tail = [p \in Procs |-> 0]
  /\ frame = [p \in Procs |-> Idle]

Goto(p, f) == frame' = [frame EXCEPT ![p] = f] /\ UNCHANGED <<buffer, tail>>

\* printf(fmt, args...) is called.
Call(p, fmt, args) ==
  /\ frame[p] = Idle
  /\ Goto(p, [Idle EXCEPT !.stage = "format", !.fmt = fmt, !.args = args])

\* putc: buffer[tail++] = c.  Past the end of the array the store goes
\* elsewhere.
Store(p, c) ==
  /\ tail[p] <= BUFSIZE
  /\ buffer' = IF tail[p] < BUFSIZE THEN [buffer EXCEPT ![p][tail[p] + 1] = c] ELSE buffer
  /\ tail' = [tail EXCEPT ![p] = @ + 1]

putch(p) ==
  LET f == frame[p] IN
  /\ f.putting # <<>>
  /\ Store(p, Head(f.putting))
  /\ frame' = [frame EXCEPT ![p].putting = Tail(@), ![p].written = @ + 1]

-----------------------------------------------------------------------------
\* vprintfmt.

\* p is at the head of the loop, at a character of C in or outside a directive.
Sees(p, in_format, C) ==
  LET f == frame[p] IN
  /\ f.stage = "format" /\ f.putting = <<>> /\ f.number = NoNumber
  /\ f.at <= Len(f.fmt)
  /\ f.flags.in_format = in_format
  /\ f.fmt[f.at] \in C

Here(p) == frame[p].fmt[frame[p].at]

\* The round ends the directive, if there is one, and puts text.
Puts(f, text, used) ==
  [f EXCEPT !.putting = text, !.args = SubSeq(@, used + 1, Len(@)), !.at = @ + 1,
            !.flags.in_format = FALSE]

Plain(p) ==
  /\ Sees(p, FALSE, {Here(p)} \ {"%"})
  /\ Goto(p, Puts(frame[p], <<Here(p)>>, 0))

Percent(p) ==
  /\ Sees(p, FALSE, {"%"})
  /\ Goto(p, [frame[p] EXCEPT !.at = @ + 1,
                              !.flags = [NoFlags EXCEPT !.in_format = TRUE, !.prec = -1]])

flagOf == [c \in {"#", "0", "l", "z", "t", "j", "+", " "} |->
             CASE c = "#" -> "sharpflag" [] c = "0" -> "zeroflag" [] c = "+" -> "sign"
               [] c = " " -> "spaceflag" [] OTHER -> "longflag"]

Flag(p) ==
  /\ Sees(p, TRUE, DOMAIN flagOf)
  /\ Goto(p, [frame[p] EXCEPT !.at = @ + 1, !.flags[flagOf[Here(p)]] = TRUE])

\* Mutant: the fmt-- without the fmt++.
number_end_Back(number) == number.end - 1

\* strtol leaves fmt behind the number; fmt-- makes up for the fmt++ of the loop.
number_end(number) == number.end

WidthStar(p) ==
  /\ Sees(p, TRUE, {"*"})
  /\ Goto(p, [frame[p] EXCEPT !.at = @ + 1, !.args = Tail(@),
                              !.flags.width = Signed(Head(frame[p].args), INT_BITS)])

WidthDigits(p) ==
  /\ Sees(p, TRUE, DigitsOf(10) \ {"0"})
  /\ LET number == user_strtol(frame[p].fmt, frame[p].at, 10) IN
     Goto(p, [frame[p] EXCEPT !.at = number_end(number),
                              !.flags.width = Signed(number.value, INT_BITS)])

Precision(p) ==
  LET f == frame[p] IN
  /\ Sees(p, TRUE, {"."})
  /\ IF CharAt(f.fmt, f.at + 1) = "*"
     THEN Goto(p, [f EXCEPT !.at = @ + 2, !.args = Tail(@),
                            !.flags.prec = Signed(Head(f.args), INT_BITS)])
     ELSE LET number == user_strtol(f.fmt, f.at + 1, 10) IN
          Goto(p, [f EXCEPT !.at = number_end(number),
                            !.flags.prec = Signed(number.value, INT_BITS)])

Hex(p) ==
  LET f    == frame[p]
      bits == IF Here(p) = "p" \/ f.flags.longflag THEN LONG_BITS ELSE INT_BITS
      num  == Unsigned(Head(f.args), bits) IN
  /\ Sees(p, TRUE, {"x", "X", "p"})
  /\ IF f.flags.prec = 0 /\ num = 0 /\ Here(p) # "p"
     THEN Goto(p, Puts(f, <<>>, 1))
     ELSE Goto(p, [f EXCEPT
            !.number = [NoNumber EXCEPT
              !.c = Here(p), !.num = num,
              !.sign = IF Here(p) = "p" \/ (f.flags.sharpflag /\ num # 0)
                       THEN <<"0", IF Here(p) = "X" THEN "X" ELSE "x">> ELSE <<>>]])

\* num == 0x8000000000000000UL: -num would be num.
MIN(num, is_signed) == is_signed /\ num = 2^(LONG_BITS - 1)

\* print_dec_int up to its loop over the digits.
Dec(p) ==
  LET f         == frame[p]
      bits      == IF f.flags.longflag THEN LONG_BITS ELSE INT_BITS
      num       == Unsigned(Signed(Head(f.args), bits), LONG_BITS)
      is_signed == Here(p) # "u"
      neg       == is_signed /\ num >= 2^(LONG_BITS - 1) IN
  /\ Sees(p, TRUE, {"d", "i", "u"})
  /\ CASE MIN(num, is_signed) ->
            Goto(p, Puts(f, <<"-">> \o Numeral(2^(LONG_BITS - 1), 10, lowerxdigits), 1))
       [] ~ MIN(num, is_signed) /\ f.flags.prec = 0 /\ num = 0 -> Goto(p, Puts(f, <<>>, 1))
       [] OTHER -> Goto(p, [f EXCEPT
            !.number = [NoNumber EXCEPT
              !.c = Here(p), !.num = IF neg THEN Unsigned(-num, LONG_BITS) ELSE num,
              !.sign = CASE neg -> <<"-">>
                         [] ~ neg /\ is_signed /\ f.flags.sign -> <<"+">>
                         [] ~ neg /\ is_signed /\ ~ f.flags.sign /\ f.flags.spaceflag -> <<" ">>
                         [] OTHER -> <<>>]])

base(f) == IF f.number.c \in {"x", "X", "p"} THEN 16 ELSE 10

\* The condition of the do-while loops over the digits.
LoopGoesOn(n) == n.num > 0 \/ n.buf = <<>>

\* Mutant: the digits are put in the order they are found.
found_Forward(digit, buf) == Append(buf, digit)

\* Digits are found from the last to the first and put the other way round.
found(digit, buf) == <<digit>> \o buf

NextDigit(p) ==
  LET f      == frame[p]
      n      == f.number
      digits == IF n.c = "X" THEN upperxdigits ELSE lowerxdigits IN
  /\ n # NoNumber /\ LoopGoesOn(n)
  /\ Goto(p, [f EXCEPT !.number.buf = found(digits[(n.num % base(f)) + 1], @),
                       !.number.num = @ \div base(f)])

\* The padding, the sign or prefix, zeros and the digits.
Emit(p, prec, zeros) ==
  LET f == frame[p]
      n == f.number IN
  /\ n # NoNumber /\ ~ LoopGoesOn(n)
  /\ Goto(p, [Puts(f, Pad(" ", f.flags.width - LargerOf(Len(n.buf), prec) - Len(n.sign))
                      \o n.sign \o Pad("0", zeros) \o n.buf, 1)
              EXCEPT !.number = NoNumber])

\* With the 0 flag and no precision zeros fill the width.
Zeros(f) == f.flags.prec = -1 /\ f.flags.zeroflag

\* The rest of print_dec_int, which takes the sign off as it writes the zeros.
EmitDec(p) ==
  LET f    == frame[p]
      prec == IF Zeros(f) THEN f.flags.width ELSE f.flags.prec IN
  /\ base(f) = 10
  /\ Emit(p, prec, prec - Len(f.number.sign) - Len(f.number.buf))

\* Mutant: the prefix does not count.
zero_prec_NoPrefix(f) == f.flags.width

\* The hexadecimal code takes the prefix off before.
zero_prec(f) == f.flags.width - Len(f.number.sign)

EmitHex(p) ==
  LET f    == frame[p]
      prec == IF Zeros(f) THEN zero_prec(f) ELSE f.flags.prec IN
  /\ base(f) = 16
  /\ Emit(p, prec, prec - Len(f.number.buf))

StoreCount(p) ==
  /\ Sees(p, TRUE, {"n"})
  /\ Goto(p, [Puts(frame[p], <<>>, 1) EXCEPT !.stored = frame[p].written])

Str(p) ==
  /\ Sees(p, TRUE, {"s"})
  /\ Goto(p, Puts(frame[p], user_puts_wo_nl(Head(frame[p].args)), 1))

Char(p) ==
  /\ Sees(p, TRUE, {"c"})
  /\ Goto(p, Puts(frame[p], <<Head(frame[p].args)>>, 1))

\* A character that is no directive stands for itself, % among them.
Other(p) ==
  LET directives == DOMAIN flagOf \cup DigitsOf(10)
                    \cup {"*", ".", "x", "X", "p", "d", "i", "u", "n", "s", "c"} IN
  /\ Sees(p, TRUE, {Here(p)} \ directives)
  /\ Goto(p, Puts(frame[p], <<Here(p)>>, 0))

-----------------------------------------------------------------------------
\* The rest of printf.

\* Mutant: the terminator is counted and not stored.
terminated_Not(p) == tail' = [tail EXCEPT ![p] = @ + 1] /\ UNCHANGED buffer

\* buffer[tail++] = '\0'
terminated(p) == Store(p, NUL)

Terminate(p) ==
  LET f == frame[p] IN
  /\ f.stage = "format" /\ f.putting = <<>> /\ f.number = NoNumber
  /\ f.at > Len(f.fmt)
  /\ terminated(p)
  /\ frame' = [frame EXCEPT ![p].stage = "ecall"]

\* Mutant: the buffer is not emptied.
emptied_Not(t) == t

\* tail = 0
emptied(t) == 0

Return(p) ==
  /\ frame[p].stage = "return"
  /\ tail' = [tail EXCEPT ![p] = emptied(@)]
  /\ frame' = [frame EXCEPT ![p] = Idle]
  /\ UNCHANGED buffer

\* What printf does on its own.
PrintfStep(p) ==
  \/ putch(p)
  \/ Plain(p) \/ Percent(p)
  \/ Flag(p) \/ WidthStar(p) \/ WidthDigits(p) \/ Precision(p)
  \/ Hex(p) \/ Dec(p) \/ NextDigit(p) \/ EmitDec(p) \/ EmitHex(p)
  \/ StoreCount(p) \/ Str(p) \/ Char(p) \/ Other(p)
  \/ Terminate(p) \/ Return(p)
=============================================================================
