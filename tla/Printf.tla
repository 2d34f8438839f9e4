------------------------------- MODULE Printf -------------------------------
(***************************************************************************)
(* Library/printf.cpp: printf_helper, one format character at a time.  A   *)
(* call is the characters between two Ends.  Emitted characters are        *)
(* numbers: the digits 0..15, Blank and Minus; letter case is left out.    *)
(***************************************************************************)
EXTENDS Integers, Sequences

CONSTANTS
  LongMod,        \* 2^32: long, int and size_t on i686
  ShortMod,       \* 2^16: short
  PointerDigits,  \* sizeof(size_t) * 2
  Arg,            \* arguments given, as unsigned long long
  MaxDirective    \* bound: characters of one directive

(* A width of nine digits, which unsigned int still holds.                  *)
ASSUME PrintfAssumption ==
  /\ LongMod \in Nat \ {0} /\ LongMod % 2 = 0 /\ ShortMod \in 1..LongMod /\ PointerDigits \in Nat /\ Arg \subseteq Nat
  /\ MaxDirective \in 1..11

VARIABLES
  scan,       \* state: 0 text, 1 flags, 2 width, 3 modifiers
  flags,      \* subset of LJ, LZ, 64, 32, 16, FP
  givenWd,    \* given_wd
  inner,      \* fmt was advanced inside the switch: no test for the end yet
  overrun,    \* fmt was advanced past the end of the format
  directive,  \* history: characters of this directive
  argument,   \* history: what the last conversion was given
  field       \* history: what it emitted

printfVars == <<scan, flags, givenWd, inner, overrun, directive, argument, field>>

Blank == 100
Minus == 101
NoField == <<-1>>

PrintfInit ==
  /\ scan = 0 /\ flags = {} /\ givenWd = 0 /\ inner = FALSE /\ overrun = FALSE
  /\ directive = <<>> /\ argument = 0 /\ field = NoField

(* The scanner after the character ch of a directive.                       *)
Goes(s, fs, wd, advanced, ch) ==
  /\ scan' = s /\ flags' = fs /\ givenWd' = wd /\ inner' = advanced
  /\ directive' = Append(directive, ch)

Keeps == UNCHANGED <<overrun, argument, field>>
EndsDirective(ch) == Goes(0, {}, 0, FALSE, ch)   \* state = flags = given_wd = 0

InDirective == scan > 0 /\ ~overrun /\ Len(directive) < MaxDirective

(* A character outside directives is echoed.                                *)
Echo ==
  /\ scan = 0 /\ ~overrun
  /\ directive' = <<>> /\ field' = NoField
  /\ UNCHANGED <<scan, flags, givenWd, inner, overrun, argument>>

Percent ==
  /\ scan = 0 /\ ~overrun
  /\ scan' = 1 /\ inner' = TRUE /\ directive' = <<"%">> /\ field' = NoField
  /\ UNCHANGED <<flags, givenWd, overrun, argument>>

PercentPercent ==
  /\ InDirective /\ scan = 1
  /\ EndsDirective("%") /\ Keeps

LeftJustify ==
  /\ InDirective /\ scan = 1
  /\ \/ "LJ" \notin flags /\ Goes(1, flags \cup {"LJ"}, givenWd, FALSE, "-")
     \/ "LJ" \in flags /\ EndsDirective("-")
  /\ Keeps

LeadingZero ==
  /\ InDirective /\ scan = 1
  /\ Goes(2, flags \cup {"LZ"}, givenWd, TRUE, "0") /\ Keeps

Numeral == [ch \in {"0", "1", "3"} |-> CASE ch = "0" -> 0 [] ch = "1" -> 1 [] ch = "3" -> 3]

Width(ch) ==
  /\ InDirective /\ scan \in 1..2 /\ ~(scan = 1 /\ ch = "0")
  /\ Goes(2, flags, 10 * givenWd + Numeral[ch], FALSE, ch) /\ Keeps

ModifierFlag == [ch \in {"F", "N", "z", "l", "L", "h"} |->
  CASE ch = "F" -> {"FP"} [] ch = "N" -> {} [] ch \in {"z", "l"} -> {"32"}
    [] ch = "L" -> {"64"} [] ch = "h" -> {"16"}]

Modifier(ch) ==
  /\ InDirective
  /\ Goes(3, flags \cup ModifierFlag[ch], givenWd, FALSE, ch) /\ Keeps

(***************************************************************************)
(* Conversions                                                             *)
(***************************************************************************)
Hex == {"X", "x", "p"}
Radix(conv) == CASE conv \in Hex \cup {"n"} -> 16 [] conv = "o" -> 8 [] OTHER -> 10

(* num after va_arg: every branch ends in a long, which an argument of 64    *)
(* bits does not fit, and the branch for h takes an int as it is.           *)
Loaded(arg) == arg % LongMod

(* PR_WS, and the magnitude that num = -num leaves: the most negative value  *)
(* is its own magnitude.                                                    *)
Negative(conv, num) == conv \in {"d", "i"} /\ num >= LongMod \div 2
Magnitude(conv, num) == IF Negative(conv, num) THEN LongMod - num ELSE num

Digits(num, radix) ==
  LET digits[n \in 0..num] ==
        IF n < radix THEN <<n>> ELSE Append(digits[n \div radix], n % radix)
  IN digits[num]

Repeat(ch, n) == [i \in 1..n |-> ch]
Larger(a, b) == IF a > b THEN a ELSE b

(* Fault: the sign is emitted behind the padding, zeroes or not.             *)
SignBehindPadding(fs, wd, sign, body, natural) ==
  LET pad == Larger(wd - natural - Len(sign), 0)
  IN IF "LJ" \in fs THEN sign \o body \o Repeat(Blank, pad)
     ELSE Repeat(IF "LZ" \in fs THEN 0 ELSE Blank, pad) \o sign \o body

(* EMIT and EMIT2: natural is actual_wd without the sign.                    *)
Emitted(fs, wd, sign, body, natural) ==
  LET pad == Larger(wd - natural - Len(sign), 0)
      left == IF "LJ" \in fs THEN <<>>
              ELSE Repeat(IF "LZ" \in fs THEN 0 ELSE Blank, pad)
      right == IF "LJ" \in fs THEN Repeat(Blank, pad) ELSE <<>>
  IN IF "LZ" \in fs THEN sign \o left \o body \o right
     ELSE left \o sign \o body \o right

Number(conv, num) ==
  LET fs == IF conv \in Hex THEN flags \cup {"LZ"} ELSE flags
      wd == IF conv \in Hex THEN PointerDigits ELSE givenWd
      sign == IF Negative(conv, num) THEN <<Minus>> ELSE <<>>
      body == Digits(Magnitude(conv, num), Radix(conv))
  IN Emitted(fs, wd, sign, body, Len(body))

(* A caller gives 64 bits only where the directive takes them.              *)
Convert(conv, arg) ==
  /\ InDirective /\ (arg >= LongMod => "64" \in flags)
  /\ field' = Number(conv, Loaded(arg)) /\ argument' = arg
  /\ EndsDirective(conv) /\ UNCHANGED overrun

(* %c and %s take no zeroes; a NUL for %c has width 1 and emits nothing.     *)
ConvertText(conv, text) ==
  /\ InDirective /\ (conv = "c" => Len(text) <= 1)
  /\ field' = Emitted(flags \ {"LZ"}, givenWd, <<>>, text,
                      IF conv = "c" THEN 1 ELSE Len(text))
  /\ argument' = Len(text)
  /\ EndsDirective(conv) /\ UNCHANGED overrun

(* Any other character ends the directive without a trace, also a flag or a  *)
(* digit out of place.                                                      *)
Unknown(ch) ==
  /\ InDirective
  /\ \/ ch = "?"
     \/ ch \in {"%", "-"} /\ scan > 1
     \/ ch \in DOMAIN Numeral /\ scan = 3
  /\ EndsDirective(ch) /\ Keeps

(* The terminator.  The for loop sees it and the call returns, unless fmt    *)
(* was just advanced: then the terminator is an unknown conversion and the   *)
(* loop goes on behind it.                                                  *)
End ==
  /\ ~overrun
  /\ overrun' = inner
  /\ scan' = 0 /\ flags' = {} /\ givenWd' = 0 /\ inner' = FALSE
  /\ field' = NoField
  /\ UNCHANGED <<directive, argument>>

PrintfNext ==
  \/ Echo \/ Percent \/ PercentPercent \/ LeftJustify \/ LeadingZero
  \/ \E ch \in DOMAIN Numeral : Width(ch)
  \/ \E ch \in DOMAIN ModifierFlag : Modifier(ch)
  \/ \E conv \in Hex \cup {"n", "o", "d", "i", "u"}, arg \in Arg : Convert(conv, arg)
  \/ \E conv \in {"c", "s"}, n \in 0..2 : ConvertText(conv, Repeat(200, n))
  \/ \E ch \in {"?", "%", "-", "0", "1", "3"} : Unknown(ch)
  \/ End

PrintfSpec == PrintfInit /\ [][PrintfNext]_printfVars

(***************************************************************************)
(* Properties.                                                             *)
(***************************************************************************)
conversion == directive[Len(directive)]

(* The number that the digits spell, the first one first.                   *)
Value(digits, radix) ==
  LET value[i \in 0..Len(digits)] == IF i = 0 THEN 0 ELSE radix * value[i - 1] + digits[i]
  IN value[Len(digits)]

(* The width a directive spells: its digits; the zero flag adds nothing.    *)
Spelled(chars) ==
  LET width[i \in 0..Len(chars)] ==
        IF i = 0 THEN 0
        ELSE IF chars[i] \in DOMAIN Numeral THEN 10 * width[i - 1] + Numeral[chars[i]]
        ELSE width[i - 1]
  IN width[Len(chars)]
SpelledWidth == IF conversion \in Hex THEN PointerDigits ELSE Spelled(directive)

(* Every conversion fills the width its directive spells and no more than   *)
(* its value needs, whatever the flags.  For %x and %p that is the width of  *)
(* a pointer ("set width of output based on size of pointer").              *)
FillsWidth ==
  field # NoField =>
    /\ Len(field) >= SpelledWidth - (IF conversion = "c" /\ argument = 0 THEN 1 ELSE 0)
    /\ Len(field) > SpelledWidth =>
         (\A i \in DOMAIN field : field[i] # Blank) /\ (field[1] # 0 \/ field = <<0>>)

(* Blanks around it aside, f reads as v, a number modulo mod: negative ones  *)
(* with the sign in front of all digits, also the most negative one.        *)
Reads(f, conv, v, mod) ==
  \E first \in DOMAIN f :
    /\ f[first] # Blank /\ \A i \in 1..(first - 1) : f[i] = Blank
    /\ \E last \in first..Len(f) :
         LET signed == f[first] = Minus
             digits == SubSeq(f, IF signed THEN first + 1 ELSE first, last)
             radix == Radix(conv)
             value == Value(digits, radix)
         IN /\ \A i \in (last + 1)..Len(f) : f[i] = Blank
            /\ digits # <<>> /\ \A i \in DOMAIN digits : digits[i] \in 0..(radix - 1)
            /\ (IF signed THEN mod - value ELSE value) = v
            /\ signed => conv \in {"d", "i"} /\ value <= mod \div 2

NumberGiven == field # NoField /\ conversion \notin {"c", "s"}
Given(ch) == \E i \in DOMAIN directive : directive[i] = ch
Signed == conversion \in {"d", "i"}

(* The argument is one that a long tells apart and, under h, a short that    *)
(* was promoted to int and is printed with its own signedness.              *)
Representable ==
  /\ argument < LongMod
  /\ Given("L") /\ Signed => argument < LongMod \div 2
  /\ Given("h") => IF Signed
                   THEN argument < ShortMod \div 2 \/ argument >= LongMod - ShortMod \div 2
                   ELSE argument < ShortMod

(* A number reads back as the argument, unless L gave it 64 bits of which    *)
(* the upper ones count, or h asks for a cut to 16: LongLongWhole, ShortCut. *)
ReadsBack == (NumberGiven /\ Representable) => Reads(field, conversion, argument, LongMod)

(* "L long long (64-bit) int DONE": such a number reads back as the whole    *)
(* argument.  The code puts it into a long, which has 32 bits here.         *)
LongLongWhole ==
  (NumberGiven /\ Given("L")) => Reads(field, conversion, argument, LongMod * LongMod)

(* "h short (16-bit) int DONE": a short of either sign, promoted to int by   *)
(* the call, reads back as the 16 bits it has, signed or unsigned as the     *)
(* conversion says.  The code takes the int as it is, so a negative short    *)
(* comes out of %hu with 32 bits.                                           *)
ShortCut ==
  (NumberGiven /\ Given("h") /\ ~(Given("L") \/ Given("l") \/ Given("z"))
     /\ (argument < ShortMod \/ argument \in (LongMod - ShortMod \div 2)..(LongMod - 1)))
  => Reads(field, conversion, argument % ShortMod, ShortMod)

(* "width: (field width) DONE": every field is as wide as its directive      *)
(* says.  The code forgets the width that %x, %X and %p are given.          *)
WidthHonoured == NumberGiven => Len(field) >= Spelled(directive)

(* What printf's list of directives marks DONE, with the numbers of 64 bits, *)
(* the numbers of 16 bits and the widths of every conversion.               *)
DoneDirectives == LongLongWhole /\ ShortCut /\ WidthHonoured

(* The scan runs past the end of the format only when the format stops right *)
(* behind a % or the zero flag: any other unfinished directive is dropped.  *)
OverrunOnlyAfterAdvance ==
  overrun => directive \in {<<"%">>, <<"%", "0">>, <<"%", "-", "0">>}

(* Every directive, with every mix of flags, width and modifiers, against    *)
(* what it spells, as far as the code honours it; and how far an unfinished  *)
(* one is read.                                                             *)
DirectivesExact == FillsWidth /\ ReadsBack /\ OverrunOnlyAfterAdvance
=============================================================================
