----------------------------- MODULE NumFormat -----------------------------
(***************************************************************************)
(* Integers to text and back: StrData::vformatAscii() for %d %i %u %b %o   *)
(* %x %X with flags, width and precision, and appendNumber().  A character *)
(* is a digit 0..35 or one of the marks below.                             *)
(***************************************************************************)
EXTENDS Integers, Sequences, SequencesExt

CONSTANTS FormatValues, FormatWidths, FormatPrecs   \* the arguments to check

Minus == -1
Plus == -2
Space == -3
Hex == -4

\* The code writes up to Direct characters of padding into its buffer and
\* appends longer padding to the result at once.
Direct == 16

\* The value an argument has after the cast its length modifier asks for.
Narrow(v, bits, signed) ==
    LET m == v % 2^bits IN IF signed /\ m >= 2^(bits - 1) THEN m - 2^bits ELSE m

Digits(n, base) ==
    LET k == CHOOSE k \in 1..32 : n < base^k /\ (k = 1 \/ n >= base^(k - 1))
    IN  [i \in 1..k |-> (n \div base^(k - i)) % base]
Pad(c, n) == IF n <= 0 THEN <<>> ELSE [i \in 1..n |-> c]

\* The precision: zeros in front of the digits; what is left of it in the end
\* is not zero only when Direct or more zeros are missing.
PrecLeft(prec, digs) == IF prec - Len(digs) >= Direct THEN prec - Len(digs) ELSE 0
PrecPutOnce(prec, digs) == IF prec > Len(digs) THEN <<0>> \o digs ELSE digs
PrecPut(prec, digs) ==
    IF prec - Len(digs) \in 1..(Direct - 1) THEN Pad(0, prec - Len(digs)) \o digs ELSE digs

\* Padding in front of the digits, the sign or prefix pre, what is left of the
\* precision, the digits, padding behind them.  The sign of an integer is written
\* twice when the zeros are appended at once; the prefix 0x is not.
Layout(pre, body, left, fl, width, twice) ==
    LET fill == width - (Len(body) + left + Len(pre))
        front == fill > 0 /\ "-" \notin fl
        long == front /\ (left > 0 \/ fill > Direct)    \* padding appended at once
        zero == "0" \in fl
        head == IF ~long THEN <<>> ELSE IF zero THEN pre \o Pad(0, fill) ELSE Pad(Space, fill)
        buf == IF ~front \/ long THEN body
               ELSE IF zero THEN Pad(0, fill) \o body ELSE Pad(Space, fill) \o pre \o body
        done == front /\ (IF long THEN zero /\ ~twice ELSE ~zero)
    IN  head \o (IF done \/ pre = <<>> THEN Pad(0, left) ELSE pre)
        \o buf \o (IF front THEN <<>> ELSE Pad(Space, fill))

\* %d: fl is the set of flags, v the value.
FormatInt(v, fl, width, prec) ==
    LET digs == Digits(IF v < 0 THEN -v ELSE v, 10)
        sign == IF v < 0 THEN <<Minus>> ELSE IF "+" \in fl THEN <<Plus>> ELSE <<>>
    IN  Layout(sign, PrecPut(prec, digs), PrecLeft(prec, digs), fl, width, TRUE)

\* %u %b %o %x: the prefix is "0" for %#o, unless the precision brings a zero,
\* and "0x" for %#x.
FormatUint(v, base, fl, width, prec) ==
    LET digs == Digits(v, base)
        pre == IF "#" \notin fl THEN <<>>
               ELSE IF base = 8 /\ v # 0 /\ prec <= Len(digs) THEN <<0>>
               ELSE IF base = 16 THEN <<0, Hex>> ELSE <<>>
    IN  Layout(pre, PrecPut(prec, digs), PrecLeft(prec, digs), fl, width, FALSE)

-----------------------------------------------------------------------------
(* The conversion specification behind a '%': s_flag, s_width, s_prec,     *)
(* s_length, s_type.  A character is a string of itself, "sp" for the blank. *)
Flags == {"-", "+", "sp", "#"}
Types == {"d", "u", "b", "o", "x", "s", "c", "f", "p", "n"}
Lengths == {"h", "l", "L", "j", "z", "t"}
IsDigit(c) == c \in {ToString(k) : k \in 0..9}
Value(c) == CHOOSE k \in 0..9 : ToString(k) = c

Start == [st |-> "flag", flags |-> {}, width |-> 0, prec |-> 0, len |-> "", type |-> ""]
ReadSpec(acc, c) ==
    CASE acc.st = "done" -> acc
      [] acc.st # "done" /\ c \in Types -> [acc EXCEPT !.st = "done", !.type = c]
      [] acc.st = "flag" /\ c \in Flags \cup {"0"} -> [acc EXCEPT !.flags = @ \cup {c}]
      [] acc.st = "flag" /\ IsDigit(c) /\ c # "0" -> [acc EXCEPT !.st = "width", !.width = Value(c)]
      [] acc.st = "width" /\ IsDigit(c) -> [acc EXCEPT !.width = 10 * @ + Value(c)]
      [] acc.st \in {"flag", "width"} /\ c = "." -> [acc EXCEPT !.st = "prec"]
      [] acc.st = "prec" /\ IsDigit(c) -> [acc EXCEPT !.prec = 10 * @ + Value(c)]
      [] acc.st = "type" /\ c = "l" /\ acc.len = "l" -> [acc EXCEPT !.len = "ll"]
      [] acc.st # "type" /\ c \in Lengths -> [acc EXCEPT !.st = "type", !.len = c]
      [] OTHER -> [acc EXCEPT !.st = "done"]     \* DR_AssertInvalid(); %hhd ends here
ParseSpec(f) == FoldLeft(ReadSpec, Start, f)

-----------------------------------------------------------------------------
\* What sprintf() promises, for the cases Plain() admits; prec is 0 when none is
\* given.  The flags + and space are for signed conversions, base 10, only.
Printf(neg, mag, base, fl, width, prec) ==
    LET digs == Digits(mag, base)
        zeros == Pad(0, prec - Len(digs)) \o digs
        body == IF "#" \in fl /\ base = 8 /\ zeros[1] # 0 THEN <<0>> \o zeros ELSE zeros
        sign == (IF neg THEN <<Minus>> ELSE IF "+" \in fl /\ base = 10 THEN <<Plus>>
                 ELSE IF "sp" \in fl /\ base = 10 THEN <<Space>> ELSE <<>>)
                \o (IF "#" \in fl /\ base = 16 /\ mag # 0 THEN <<0, Hex>> ELSE <<>>)
        fill == width - (Len(sign) + Len(body))
    IN  IF "-" \in fl THEN sign \o body \o Pad(Space, fill)
        ELSE IF "0" \in fl THEN sign \o Pad(0, fill) \o body
        ELSE Pad(Space, fill) \o sign \o body

\* Where the code and sprintf() agree: no 0 flag together with a precision, no
\* # for a hexadecimal zero, and padding the code does not append at once.
Plain(len, fl, base, mag, width, prec) ==
    /\ ~("0" \in fl /\ prec > 0)
    /\ ~("#" \in fl /\ base = 16 /\ mag = 0)
    /\ prec - len < Direct /\ width - len <= Direct

\* Where they do not: the space flag is read into F_SPACE and never looked at, so
\* a number without a sign lacks the space sprintf() puts in its place.
SpaceLost(neg, fl) == "sp" \in fl /\ "+" \notin fl /\ ~neg

\* The decimal digits of a number that the specification may leave out.
Written(n) == IF n = 0 THEN <<>> ELSE [i \in DOMAIN Digits(n, 10) |-> ToString(Digits(n, 10)[i])]

\* vformatAscii() prints what sprintf() prints, as tformat.cxx asks of it with
\* TEST_GENERIC.  A specification "%[flags][width][.precision][length]type" is read
\* as it was written: a zero in front of the width is a flag, one inside it a digit.
\* In the plain cases every set of flags, width and precision formats signed values
\* of one byte and of a word, except for the space flag (SpaceLost), and unsigned
\* ones in the bases 2, 8, 10 and 16, as it should; only zero has a zero for its
\* first digit.
FormatsAsPrintf ==
    \A w \in FormatWidths, p \in FormatPrecs, fl \in SUBSET (Flags \cup {"0"}) :
        /\ \A len \in {<<>>, <<"h">>, <<"l">>, <<"l", "l">>, <<"z">>}, ty \in Types :
             LET dot == IF p = 0 THEN <<>> ELSE <<".">> \o Written(p)
                 a == ParseSpec(SetToSeq(fl) \o Written(w) \o dot \o len \o <<ty>>)
             IN  /\ a.type = ty /\ a.flags = fl /\ a.width = w /\ a.prec = p
                 /\ a.len = (IF Len(len) = 2 THEN "ll" ELSE IF len = <<>> THEN "" ELSE len[1])
        /\ \A v \in FormatValues, bits \in {8, 24} :
             LET n == Narrow(v, bits, TRUE)  m == IF n < 0 THEN -n ELSE n
             IN  Plain(Len(Digits(m, 10)), fl, 10, m, w, p) /\ ~SpaceLost(n < 0, fl)
                 => FormatInt(n, fl, w, p) = Printf(n < 0, m, 10, fl, w, p)
        /\ \A v \in FormatValues, base \in {2, 8, 10, 16} :
             LET n == Narrow(v, 16, FALSE)
             IN  /\ Digits(n, base) # <<>> /\ (Digits(n, base)[1] = 0 <=> n = 0)
                 /\ Plain(Len(Digits(n, base)), fl, base, n, w, p)
                    => FormatUint(n, base, fl, w, p) = Printf(FALSE, n, base, fl \ {"+", "sp"}, w, p)
=============================================================================
