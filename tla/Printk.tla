------------------------------- MODULE Printk -------------------------------
(***************************************************************************)
(* The kernel's formatted output, lib/printk.c, as functions from a format *)
(* and its arguments to the characters that reach putc.  The kernel prints *)
(* with interrupts off, so nothing sees it half done.                      *)
(*                                                                         *)
(* A format is a sequence of characters, a character a string of length 1; *)
(* a run of plain text may stand for one character.  An argument is what   *)
(* its register holds: an unsigned word of LONG_BITS, or what a pointer    *)
(* leads to (the characters of a string).                                  *)
(***************************************************************************)
EXTENDS Integers, Sequences, SequencesExt

CONSTANTS
  INT_BITS,    \* 32 in the code
  LONG_BITS,   \* 64 in the code
  NULL,        \* the null pointer
  NUL          \* '\0'

ASSUME WidthAssumption ==
  /\ INT_BITS \in Nat \ {0}
  /\ LONG_BITS \in Nat /\ INT_BITS <= LONG_BITS

Unsigned(n, bits) == n % 2^bits
Signed(n, bits)   == IF Unsigned(n, bits) < 2^(bits - 1)
                     THEN Unsigned(n, bits) ELSE Unsigned(n, bits) - 2^bits

lowerxdigits == <<"0","1","2","3","4","5","6","7","8","9","a","b","c","d","e","f">>
upperxdigits == <<"0","1","2","3","4","5","6","7","8","9","A","B","C","D","E","F">>

\* What the code points of a character's digit give; the bases in use go up to 16.
DigitsOf(base) == {lowerxdigits[i] : i \in 1 .. base} \cup {upperxdigits[i] : i \in 1 .. base}
DigitValue(c)  == (CHOOSE i \in 1 .. 16 : c \in {lowerxdigits[i], upperxdigits[i]}) - 1

\* s[p], or the terminator.
CharAt(s, p) == IF p <= Len(s) THEN s[p] ELSE NUL

\* The first place from p on where s has no character of C.
Past(s, p, C) ==
  CHOOSE q \in p .. Len(s) + 1 : /\ \A r \in p .. q - 1 : s[r] \in C
                                 /\ CharAt(s, q) \notin C

isspace == {" ", "\t", "\n", "\f", "\r"}   \* the vertical tab has no TLA+ string

\* The number at place p of s, and the place of what follows it.  Nothing
\* checks for overflow.
strtol(s, p, base) ==
  LET p1   == Past(s, p, isspace)
      p2   == IF CharAt(s, p1) \in {"-", "+"} THEN p1 + 1 ELSE p1
      zero == base = 0 /\ CharAt(s, p2) = "0"
      hex  == zero /\ CharAt(s, p2 + 1) \in {"x", "X"}
      b    == CASE hex -> 16 [] zero /\ ~ hex -> 8 [] base = 0 /\ ~ zero -> 10 [] OTHER -> base
      p3   == CASE hex -> p2 + 2 [] zero /\ ~ hex -> p2 + 1 [] OTHER -> p2
      end  == Past(s, p3, DigitsOf(b))
      ret  == FoldLeft(LAMBDA n, c : n * b + DigitValue(c), 0, SubSeq(s, p3, end - 1))
  IN [value |-> Signed(IF CharAt(s, p1) = "-" THEN -ret ELSE ret, LONG_BITS), end |-> end]

-----------------------------------------------------------------------------
Pad(c, n) == [i \in 1 .. n |-> c]

LargerOf(a, b) == IF a > b THEN a ELSE b

\* The digits of num, most significant first; 0 has one.
Numeral(num, base, xdigits) ==
  LET n == CHOOSE k \in 1 .. LONG_BITS : /\ num < base^k
                                         /\ k = 1 \/ num >= base^(k - 1)
  IN [i \in 1 .. n |-> xdigits[((num \div base^(n - i)) % base) + 1]]

NoFlags == [in_format |-> FALSE, longflag |-> FALSE, sharpflag |-> FALSE, zeroflag |-> FALSE,
            spaceflag |-> FALSE, sign |-> FALSE, width |-> 0, prec |-> 0]

puts_wo_nl(s) == IF s = NULL THEN <<"(", "n", "u", "l", "l", ")">> ELSE s

print_dec_int(num, is_signed, flags) ==
  LET neg    == is_signed /\ Signed(num, LONG_BITS) < 0
      digits == Numeral(IF neg THEN Unsigned(-num, LONG_BITS) ELSE num, 10, lowerxdigits)
      sign   == CASE neg -> <<"-">>
                  [] ~ neg /\ is_signed /\ flags.sign -> <<"+">>
                  [] ~ neg /\ is_signed /\ ~ flags.sign /\ flags.spaceflag -> <<" ">>
                  [] OTHER -> <<>>
      prec   == IF flags.prec = -1 /\ flags.zeroflag THEN flags.width ELSE flags.prec
  IN CASE is_signed /\ num = 2^(LONG_BITS - 1) -> <<"-">> \o Numeral(num, 10, lowerxdigits)
       [] flags.prec = 0 /\ num = 0 -> <<>>
       [] OTHER -> Pad(" ", flags.width - LargerOf(Len(digits), prec) - Len(sign)) \o sign
                   \o Pad("0", prec - Len(sign) - Len(digits)) \o digits

\* The x, X and p conversions of vprintfmt.
print_hex(num, c, flags) ==
  LET digits == Numeral(num, 16, IF c = "X" THEN upperxdigits ELSE lowerxdigits)
      prefix == IF c = "p" \/ (flags.sharpflag /\ num # 0)
                THEN <<"0", IF c = "X" THEN "X" ELSE "x">> ELSE <<>>
      prec   == IF flags.prec = -1 /\ flags.zeroflag THEN flags.width - Len(prefix) ELSE flags.prec
  IN IF flags.prec = 0 /\ num = 0 /\ c # "p" THEN <<>>
     ELSE Pad(" ", flags.width - Len(prefix) - LargerOf(Len(digits), prec)) \o prefix
          \o Pad("0", prec - Len(digits)) \o digits

-----------------------------------------------------------------------------
\* One round of the loop of vprintfmt: s.at is the place of the character it
\* looks at, s.args the arguments left, s.out what was printed and s.stored
\* what %n wrote.
va_arg(s) == Head(s.args)

Printed(s, text, used) ==
  [s EXCEPT !.out = @ \o text, !.args = SubSeq(@, used + 1, Len(@)), !.at = @ + 1,
            !.flags.in_format = FALSE]

Modifier(s, c) ==
  [s EXCEPT !.at = @ + 1,
            !.flags = CASE c = "#" -> [@ EXCEPT !.sharpflag = TRUE]
                        [] c = "0" -> [@ EXCEPT !.zeroflag = TRUE]
                        [] c = "+" -> [@ EXCEPT !.sign = TRUE]
                        [] c = " " -> [@ EXCEPT !.spaceflag = TRUE]
                        [] OTHER   -> [@ EXCEPT !.longflag = TRUE]]

\* A width or a precision: an argument, or the digits in the format.
Size(fmt, s, p) ==
  IF CharAt(fmt, p) = "*"
  THEN [value |-> Signed(va_arg(s), INT_BITS), end |-> p + 1, args |-> Tail(s.args)]
  ELSE LET number == strtol(fmt, p, 10)
       IN [value |-> Signed(number.value, INT_BITS), end |-> number.end, args |-> s.args]

SetWidth(s, size) == [s EXCEPT !.at = size.end, !.args = size.args, !.flags.width = size.value]
SetPrec(s, size)  == [s EXCEPT !.at = size.end, !.args = size.args, !.flags.prec = size.value]

Directive(fmt, s, c) ==
  LET is_long == s.flags.longflag \/ c = "p" IN
  CASE c \in {"#", "0", "l", "z", "t", "j", "+", " "} -> Modifier(s, c)
    [] c \in (DigitsOf(10) \ {"0"}) \cup {"*"} -> SetWidth(s, Size(fmt, s, s.at))
    [] c = "." -> SetPrec(s, Size(fmt, s, s.at + 1))
    [] c \in {"x", "X", "p"} ->
         Printed(s, print_hex(Unsigned(va_arg(s), IF is_long THEN LONG_BITS ELSE INT_BITS),
                              c, s.flags), 1)
    [] c \in {"d", "i", "u"} ->
         \* a long in either case: an int is extended with its sign, for %u too
         LET num == Signed(va_arg(s), IF is_long THEN LONG_BITS ELSE INT_BITS)
         IN Printed(s, print_dec_int(Unsigned(num, LONG_BITS), c # "u", s.flags), 1)
    [] c = "n" -> [Printed(s, <<>>, 1) EXCEPT !.stored = Len(s.out)]
    [] c = "s" -> Printed(s, puts_wo_nl(va_arg(s)), 1)
    [] c = "c" -> Printed(s, <<va_arg(s)>>, 1)
    [] OTHER   -> Printed(s, <<c>>, 0)

Round(fmt, s) ==
  LET c == fmt[s.at] IN
  CASE s.flags.in_format -> Directive(fmt, s, c)
    [] ~ s.flags.in_format /\ c = "%" ->
         [s EXCEPT !.at = @ + 1, !.flags = [NoFlags EXCEPT !.in_format = TRUE, !.prec = -1]]
    [] OTHER -> Printed(s, <<c>>, 0)

\* Every round moves on by one character at least.
vprintfmt(fmt, args) ==
  FoldLeft(LAMBDA s, c : IF s.at > Len(fmt) THEN s ELSE Round(fmt, s),
           [at |-> 1, flags |-> NoFlags, args |-> args, out |-> <<>>, stored |-> 0], fmt)

\* The text, and its length as the result.
printk(fmt, args) ==
  LET s == vprintfmt(fmt, args) IN [text |-> s.out, res |-> Len(s.out), stored |-> s.stored]
=============================================================================
