------------------------------- MODULE Output -------------------------------
(***************************************************************************)
(* What printf and console_log put on the screen: a sequence of pieces,    *)
(* each a text of the format or the digits of a number.  A format is the   *)
(* sequence of its texts, conversions ("%d", "%x") and newlines ("\n").    *)
(* %s and %c print a text as it is and are left out, and so are colours.   *)
(***************************************************************************)
EXTENDS Naturals, Sequences, FiniteSets

Newline == "\n"
Conversions == {"%d", "%x"}
base_of(conversion) == IF conversion = "%d" THEN 10 ELSE 16

\* The digits are written lowest first and then inverted; there is at least one.
numerals(base) ==
  LET numeral[n \in Nat] ==
        IF n < base THEN <<n>> ELSE Append(numeral[n \div base], n % base)
  IN numeral

itoa(value, base) == IF base \in 2 .. 36 THEN numerals(base)[value] ELSE <<>>

text_piece(t) == [text |-> t, digits |-> <<>>]
number_piece(value, base) == [text |-> "", digits |-> itoa(value, base)]

\* printf takes an argument of 32 bits as an int and hands it to itoa as 64 bits: the sign
\* is extended, so from 2^31 on 2^64 - 2^32 is added.
extended(arg) ==
  IF arg \div 65536 < 32768 THEN arg ELSE arg + 65536 * 65536 * (65536 * 65536 - 1)

\* The n-th conversion of the format takes the n-th argument.
argument_at(format, i) == Cardinality({j \in 1 .. i : format[j] \in Conversions})

printf(format, args) ==
  [i \in 1 .. Len(format) |->
     IF format[i] \in Conversions
     THEN number_piece(extended(args[argument_at(format, i)]), base_of(format[i]))
     ELSE text_piece(format[i])]

lowest(S) == CHOOSE i \in S : \A j \in S : i <= j

\* The first newline of the format is overwritten with its end.
first_line(format) ==
  LET end == lowest({i \in 1 .. Len(format) + 1 : i = Len(format) + 1 \/ format[i] = Newline})
  IN SubSeq(format, 1, end - 1)

message(tag, format, args) ==
  <<text_piece(tag)>> \o printf(first_line(format), args) \o <<text_piece(Newline)>>
console_log(format, args) == message("[LOG]", format, args)
console_warn(format, args) == message("[WARN]", format, args)
console_error(format, args) == message("[ERROR]", format, args)
=============================================================================
