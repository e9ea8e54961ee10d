------------------------------ MODULE Vprintf ------------------------------
(***************************************************************************)
(* printf and vsnprintf of the guest (software/init_code/vprintf.c): one    *)
(* step is one round of the loop over the format.                           *)
(* The format lies in read-only data, with other strings behind it.          *)
(***************************************************************************)
EXTENDS Integers, SequencesExt

CONSTANTS
    Half,           \* the least number's opposite: int and long hold 2 * Half values
    Characters,
    NUL,            \* the character that ends a string
    Calls           \* the calls made: records of the memory the format is at the
                    \* start of, its length, args and size; an argument is
                    \* a record of a num and a text

Words == 0 .. 2 * Half - 1

Numerals == <<"0", "1", "2", "3", "4", "5", "6", "7", "8", "9",
              "A", "B", "C", "D", "E", "F">>
Conversions == {"l", "s", "c", "d", "u", "x", "X"}

(* What C demands of a call: strings that end, words, and a buffer.          *)
ASSUME PrintfAssumption ==
    /\ Half \in Nat \ {0}
    /\ NUL \notin Conversions \union {Numerals[d] : d \in 1 .. 16} \union {"%", "-"}
    /\ {Numerals[d] : d \in 1 .. 16} \union {"%", "-"} \subseteq Characters
    /\ \A c \in Calls :
        /\ c.memory \in Seq(Characters) /\ c.memory[Len(c.memory)] = NUL
        /\ c.length \in 0 .. Len(c.memory) - 1
        /\ \A p \in 1 .. c.length + 1 : c.memory[p] = NUL <=> p = c.length + 1
        /\ c.args \in Seq([num : Words, text : Seq(Characters)])
        /\ c.size \in Nat \ {0}

VARIABLES
    call,           \* the call in progress
    pos,            \* format, as an index into memory
    arg,            \* the next argument of ap
    out,            \* the first `written' characters of str
    running         \* the call has not returned

printfVars == <<call, pos, arg, out, running>>

CharAt(p) == call.memory[p]
Number == call.args[arg].num
ArgText == call.args[arg].text

PrintfInit ==
    /\ call \in Calls
    /\ pos = 1
    /\ arg = 1
    /\ out = <<>>
    /\ running = TRUE

----------------------------------------------------------------------------
(* Digits, and the conversions of numbers to text.                          *)

Digit(d) == Numerals[d + 1]
IsDigit(c) == \E d \in 0 .. 9 : c = Digit(d)

(* Mutant of DivMod10: a chunk of a hundred counts as one ten. *)
DivMod10Hundred(n) ==
    [quotient |-> 100 * (n \div 1000) + ((n % 1000) \div 100) + (n % 100) \div 10,
     rem |-> n % 10]

(* divmod10, which subtracts thousands, then hundreds, then tens. *)
DivMod10(n) ==
    [quotient |-> 100 * (n \div 1000) + 10 * ((n % 1000) \div 100) + (n % 100) \div 10,
     rem |-> n % 10]

(* The digits as the loops find them, the last one first. *)
DecimalDigits[n \in Words] ==
    IF n = 0 THEN <<>>
    ELSE <<Digit(DivMod10(n).rem)>> \o DecimalDigits[DivMod10(n).quotient]

HexDigits[n \in Words] == IF n = 0 THEN <<>> ELSE <<Digit(n % 16)>> \o HexDigits[n \div 16]

UnsignedText(n) == IF n = 0 THEN <<"0">> ELSE Reverse(DecimalDigits[n])
HexText(n) == IF n = 0 THEN <<"0">> ELSE Reverse(HexDigits[n])

(* The least number has no opposite: the loop finds no digit in it. *)
SignedText(n) ==
    IF n < Half THEN UnsignedText(n)
    ELSE Reverse((IF n = Half THEN <<>> ELSE DecimalDigits[2 * Half - n]) \o <<"-">>)

(* Zeros, whenever there is a width. *)
Padded(width, text) == [j \in 1 .. width - Len(text) |-> "0"] \o text

----------------------------------------------------------------------------
(* The end of the digits that start at p in memory m, and their value.       *)
EndOfWidth(m, p) ==
    CHOOSE q \in p .. Len(m) : ~IsDigit(m[q]) /\ \A r \in p .. q - 1 : IsDigit(m[r])

DigitValue(c) == CHOOSE d \in 0 .. 9 : c = Digit(d)
Width(m, p) ==
    LET value[q \in p - 1 .. EndOfWidth(m, p) - 1] ==
            IF q < p THEN 0 ELSE 10 * value[q - 1] + DigitValue(m[q])
    IN  value[EndOfWidth(m, p) - 1]

Cut(text, n) == IF Len(text) <= n THEN text ELSE SubSeq(text, 1, n)

(* Characters are written while written < size - 1. *)
Written(text) == Cut(out \o text, call.size - 1)

Goes == running /\ CharAt(pos) # NUL /\ Len(out) < call.size - 1

CopyChar ==
    /\ Goes /\ CharAt(pos) # "%"
    /\ out' = Written(<<CharAt(pos)>>)
    /\ pos' = pos + 1
    /\ UNCHANGED <<call, arg, running>>

(* Mutant of EndsInPercent: the test for the end of the format is missing. *)
EndsInPercentNever(p) == FALSE

EndsInPercent(p) == CharAt(p + 1) = NUL

LonePercent ==
    /\ Goes /\ CharAt(pos) = "%" /\ EndsInPercent(pos)
    /\ running' = FALSE
    /\ UNCHANGED <<call, pos, arg, out>>

(* A directive, whose conversion character is at End. *)
End == EndOfWidth(call.memory, pos + 1)
Conversion == CharAt(End)
Directive == Goes /\ CharAt(pos) = "%" /\ ~EndsInPercent(pos)

(* The text is written, the format goes on at q, used arguments are gone. *)
Emit(text, q, used) ==
    /\ out' = Written(text)
    /\ pos' = q
    /\ arg' = arg + used
    /\ UNCHANGED <<call, running>>

Long ==
    /\ Directive /\ Conversion = "l"
    /\ \/ CharAt(End + 1) = "u" /\ Emit(UnsignedText(Number), End + 2, 1)
       \/ /\ CharAt(End + 1) \in {"x", "X"}
          /\ Emit(Padded(Width(call.memory, pos + 1), HexText(Number)), End + 2, 1)
       \/ CharAt(End + 1) \notin {"u", "x", "X"} /\ Emit(<<>>, End + 2, 0)

String == Directive /\ Conversion \in {"s", "c"} /\ Emit(ArgText, End + 1, 1)

Decimal == Directive /\ Conversion = "d" /\ Emit(SignedText(Number), End + 1, 1)

Unsigned == Directive /\ Conversion = "u" /\ Emit(UnsignedText(Number), End + 1, 1)

Hex ==
    /\ Directive /\ Conversion \in {"x", "X"}
    /\ Emit(Padded(Width(call.memory, pos + 1), HexText(Number)), End + 1, 1)

(* %% and any other character, the terminator included, are copied. *)
Other ==
    /\ Directive /\ Conversion \notin {"l", "s", "c", "d", "u", "x", "X"}
    /\ Emit(<<Conversion>>, End + 1, 0)

(* The end of the format or of the buffer; a terminator is put at out's end. *)
Finish ==
    /\ running
    /\ CharAt(pos) = NUL \/ Len(out) = call.size - 1
    /\ running' = FALSE
    /\ UNCHANGED <<call, pos, arg, out>>

PrintfNext ==
    \/ CopyChar \/ LonePercent \/ Long \/ String \/ Decimal
    \/ Unsigned \/ Hex \/ Other \/ Finish

PrintfSpec == PrintfInit /\ [][PrintfNext]_printfVars

----------------------------------------------------------------------------
(* What the format says, for the directives the code supports.               *)

(* The numeral of n, and of a word as a signed number. *)
Power(base, k) == LET p[j \in 0 .. k] == IF j = 0 THEN 1 ELSE base * p[j - 1] IN p[k]
Numeral(n, base) ==
    LET size == CHOOSE k \in 1 .. n + 1 :
                    /\ Power(base, k) > n
                    /\ k = 1 \/ Power(base, k - 1) <= n
    IN  [j \in 1 .. size |-> Digit((n \div Power(base, size - j)) % base)]
SignedNumeral(n) == IF n < Half THEN Numeral(n, 10) ELSE <<"-">> \o Numeral(2 * Half - n, 10)

(* The directive at p of memory m: what it converts, where it ends and how    *)
(* many arguments it takes.                                                 *)
LongAt(m, p) == m[EndOfWidth(m, p + 1)] = "l"
After(m, p) == EndOfWidth(m, p + 1) + (IF LongAt(m, p) THEN 2 ELSE 1)
Kind(m, p) == m[After(m, p) - 1]
Uses(m, p) == IF Kind(m, p) = "%" THEN 0 ELSE 1

(* The directives meant here; one with a width only if it converts to        *)
(* hexadecimal, the width starts with a zero and an int holds it.  Without a  *)
(* width the digits alone are meant, as in C.  A comment in vsnprintf says   *)
(* otherwise, "default to 8-character zero padding", but the code fills with *)
(* zeros only when the directive has a width.                               *)
IsSupported(c, p, a) ==
    LET m == c.memory
    IN  /\ After(m, p) <= c.length + 1
        /\ Kind(m, p) \in IF LongAt(m, p) THEN {"u", "x", "X"}
                          ELSE {"d", "u", "x", "X", "s", "c", "%"}
        /\ EndOfWidth(m, p + 1) > p + 1 => Kind(m, p) \in {"x", "X"} /\ m[p + 1] = "0"
        /\ Width(m, p + 1) < Half
        /\ Kind(m, p) # "%" => a <= Len(c.args)
        /\ Kind(m, p) = "d" => c.args[a].num # Half

Meant(c, p, a) ==
    LET kind == Kind(c.memory, p)
        n == c.args[a].num
        hex == Numeral(n, 16)
    IN  CASE kind = "d" -> SignedNumeral(n)
          [] kind = "u" -> Numeral(n, 10)
          [] kind \in {"x", "X"} -> [j \in 1 .. Width(c.memory, p + 1) - Len(hex) |-> "0"] \o hex
          [] kind \in {"s", "c"} -> c.args[a].text
          [] kind = "%" -> <<"%">>

(* The text to print of the format from p on, with the arguments from a on.   *)
(* There is none if a directive is not supported.                           *)
Texts(c) ==
    LET m == c.memory
        texts[p \in Nat] ==
            [a \in Nat |->
                IF p > c.length THEN {<<>>}
                ELSE IF m[p] # "%" THEN {<<m[p]>> \o t : t \in texts[p + 1][a]}
                ELSE IF IsSupported(c, p, a)
                THEN {Meant(c, p, a) \o t : t \in texts[After(m, p)][a + Uses(m, p)]}
                ELSE {}]
    IN  texts

Renderings(c) == Texts(c)[1][1]

----------------------------------------------------------------------------
(* What printf writes is what the format says of the arguments, cut off at    *)
(* the end of the buffer, for all directives it supports: every digit is     *)
(* right although divmod10 subtracts in chunks, every directive takes its    *)
(* own argument, and nothing of a directive is taken for text.  Letters in   *)
(* numbers are capitals whatever the case of the directive, and %x and %X    *)
(* without a width are not padded.                                          *)
PrintsFormat ==
    ~running => \A text \in Renderings(call) : out = Cut(text, call.size - 1)

(* A format that ends in the midst of a directive, behind its percent sign:   *)
(* vsnprintf takes the terminator for a conversion and goes on behind it.    *)
Unfinished ==
    LET m == call.memory
    IN  \E p \in 1 .. call.length :
            /\ m[p] = "%"
            /\ \/ p < call.length /\ EndOfWidth(m, p + 1) > call.length
               \/ LongAt(m, p) /\ EndOfWidth(m, p + 1) = call.length

(* vsnprintf does not read behind its format, not even behind a last percent  *)
(* sign, or one that follows %%, nor an argument it was not given, and the   *)
(* text with its terminator fits into the buffer.                           *)
StaysInBounds ==
    /\ Unfinished \/ pos <= call.length + 1
    /\ arg \in 1 .. Len(call.args) + 1
    /\ Len(out) < call.size

=============================================================================
