------------------------------ MODULE KdlNumber ------------------------------
(***************************************************************************)
(* _parse_number and the functions it calls (parser.c): numbers in four    *)
(* notations.  A double is kept as the mantissa and the power of ten it is *)
(* computed from.  Letters are small ones.                                 *)
(***************************************************************************)
EXTENDS KdlBigint, KdlStr

CONSTANTS
    ExactDigits,    \* digits that a double holds exactly, 15 in the code
    ExponentLimit,  \* where reading the exponent stops, 285 in the code
    MantissaBits    \* width of decimal_mantissa, 64 in the code

ASSUME ExactDigitsAssumption == ExactDigits \in Nat /\ 10^ExactDigits <= 2^MantissaBits
ASSUME ExponentLimitAssumption == ExponentLimit \in Nat
ASSUME MantissaBitsAssumption == MantissaBits \in 1..27

NoValue == [ok |-> FALSE]
Integer(n) == [ok |-> TRUE, type |-> "INTEGER", integer |-> n]
FloatingPoint(negative, mantissa, exponent) ==
    [ok |-> TRUE, type |-> "FLOATING_POINT",
     negative |-> negative, mantissa |-> mantissa, exponent |-> exponent]
StringEncoded(text) == [ok |-> TRUE, type |-> "STRING_ENCODED", string |-> text]

HasSign(s) == Len(s) > 1 /\ s[1] \in {"-", "+"}
Negative(s) == HasSign(s) /\ s[1] = "-"
Unsigned(s) == IF HasSign(s) THEN Tail(s) ELSE s

\* _kdl_ubigint_as_string_sgn
SignedDecimals(negative, n) ==
    (IF negative THEN <<"-">> ELSE <<>>)
    \o [i \in DOMAIN Decimals(n) |-> HexDigits[Decimals(n)[i] + 1]]

\* The limbs, one digit after the other
NumberOf(used, base) ==
    LET n[i \in 0..Len(used)] ==
            IF i = 0 THEN Zero ELSE Plus(Times(n[i - 1], base), HexValue[used[i]])
    IN n[Len(used)]

\* What all four notations do with the digits, once they are past sign and prefix.
WholeNumber(negative, digits, base) ==
    LET used == SelectSeq(digits, LAMBDA c : c # "_")
        n == NumberOf(used, base)
    IN IF \E i \in DOMAIN used : used[i] \notin ToSet(SubSeq(HexDigits, 1, base))
       THEN NoValue
       ELSE IF IsLongLong(n)
            THEN Integer(IF negative THEN -LongLong(n) ELSE LongLong(n))
            ELSE StringEncoded(SignedDecimals(negative, n))

ParseDecimalInteger(s) ==
    IF Unsigned(s)[1] = "_" THEN NoValue
    ELSE WholeNumber(Negative(s), Unsigned(s), 10)

Prefixed0(s, letter, base) ==
    LET u == Unsigned(s)
    IN IF Len(u) < 3 \/ SubSeq(u, 1, 2) # <<"0", letter>> \/ u[3] = "_" THEN NoValue
       ELSE WholeNumber(Negative(s), SubSeq(u, 3, Len(u)), base)

ParseHexNumber(s) == Prefixed0(s, "x", 16)
ParseOctalNumber(s) == Prefixed0(s, "o", 8)
ParseBinaryNumber(s) == Prefixed0(s, "b", 2)

-----------------------------------------------------------------------------
(***************************************************************************)
(* _parse_decimal_float: the state of its loop, at character i.            *)
(***************************************************************************)
ScanStart ==
    [i |-> 1, state |-> "before_decimal", before |-> 0, after |-> 0, mantissa |-> 0,
     exponent |-> 0, exponent_negative |-> FALSE]

\* What follows position i is no digit, sign or mark: there is nothing, or an underscore.
Dangling(u, i) == i >= Len(u) \/ u[i + 1] = "_"

Failed(scan) == [scan EXCEPT !.state = "failed"]

Point(u, scan) ==
    IF Dangling(u, scan.i) THEN Failed(scan)
    ELSE [scan EXCEPT !.state = "after_decimal_nodigit", !.i = @ + 1]

\* A sign after the mark is taken along with it.
Mark(u, scan) ==
    LET signed == scan.i < Len(u) /\ u[scan.i + 1] \in {"-", "+"}
        i == IF signed THEN scan.i + 1 ELSE scan.i
    IN IF scan.i < Len(u) /\ Dangling(u, i) THEN Failed(scan)
       ELSE [scan EXCEPT !.state = "exponent_nodigit", !.i = i + 1,
                         !.exponent_negative = @ \/ (signed /\ u[i] = "-")]

Digit(scan, d) ==
    CASE scan.state \in {"exponent", "exponent_nodigit"} ->
            [scan EXCEPT !.state = "exponent", !.i = @ + 1,
                !.exponent = IF @ < ExponentLimit THEN @ * 10 + d ELSE @]
      [] scan.state = "before_decimal" ->
            [scan EXCEPT !.i = @ + 1, !.mantissa = (@ * 10 + d) % 2^MantissaBits,
                         !.before = @ + 1]
      [] OTHER ->
            [scan EXCEPT !.state = "after_decimal", !.i = @ + 1,
                         !.mantissa = (@ * 10 + d) % 2^MantissaBits, !.after = @ + 1]

Scanned(u, scan) ==
    LET c == u[scan.i]
    IN CASE c = "." /\ scan.state = "before_decimal" -> Point(u, scan)
         [] c = "e" /\ scan.state \notin {"exponent", "after_decimal_nodigit"} -> Mark(u, scan)
         [] c \in Digits -> Digit(scan, HexValue[c])
         [] c = "_" -> [scan EXCEPT !.i = @ + 1]
         [] OTHER -> Failed(scan)

\* The state when the loop ends.
Scan(u) ==
    LET turn[k \in 0..Len(u)] ==
            IF k = 0 THEN ScanStart
            ELSE LET scan == turn[k - 1]
                 IN IF scan.i > Len(u) \/ scan.state = "failed" THEN scan ELSE Scanned(u, scan)
    IN turn[Len(u)]

\* Zeros at the end of the fraction are dropped before the division.
Double(negative, scan) ==
    LET zeros == CHOOSE z \in 0..scan.after :
                    /\ scan.mantissa % 10^z = 0
                    /\ z = scan.after \/ scan.mantissa % 10^(z + 1) # 0
        exponent == IF scan.exponent_negative THEN -scan.exponent ELSE scan.exponent
    IN FloatingPoint(negative, scan.mantissa \div 10^zeros, exponent - (scan.after - zeros))

ParseDecimalFloat(s) ==
    LET scan == Scan(Unsigned(s))
    IN CASE \/ Unsigned(s)[1] = "_"
            \/ scan.state \in {"failed", "after_decimal_nodigit", "exponent_nodigit"} -> NoValue
         [] OTHER ->
            IF scan.before + scan.after <= ExactDigits /\ scan.exponent < ExponentLimit
            THEN Double(Negative(s), scan)
            ELSE StringEncoded(SelectSeq(IF s[1] = "+" THEN Tail(s) ELSE s,
                                         LAMBDA c : c # "_"))

\* _parse_decimal_number
ParseDecimalNumber(s) ==
    IF \E i \in DOMAIN s : s[i] \in {".", "e"} THEN ParseDecimalFloat(s)
                                               ELSE ParseDecimalInteger(s)

ParseNumber(s) ==
    LET u == Unsigned(s)
        letter == IF Len(u) > 2 /\ u[1] = "0" THEN u[2] ELSE "none"
    IN CASE letter = "x" -> ParseHexNumber(s)
         [] letter = "o" -> ParseOctalNumber(s)
         [] letter = "b" -> ParseBinaryNumber(s)
         [] OTHER -> ParseDecimalNumber(s)
==============================================================================
