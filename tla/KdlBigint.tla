------------------------------ MODULE KdlBigint ------------------------------
(***************************************************************************)
(* Natural numbers of any size, as sequences of limbs with the least one   *)
(* first (bigint.c).  The limbs here are small, so that several of them    *)
(* are used by numbers that can still be computed with in the ordinary way.*)
(***************************************************************************)
EXTENDS Integers, FiniteSetsExt, Sequences

CONSTANTS
    DigitBits,          \* DIGIT_BITS, 32 in the code
    LimbsPerLongLong,   \* digits_per_long_long, 2 in the code
    MaxDecimals         \* decimal digits that are planned for per limb, 10 in the code

ASSUME DigitBitsAssumption == DigitBits \in Nat /\ 2^DigitBits > 16   \* a limb holds every base
ASSUME LimbsAssumption == LimbsPerLongLong \in 1..2

Limb == 2^DigitBits

TenTo(n) == LET power[k \in 0..n] == IF k = 0 THEN 1 ELSE power[k - 1] * 10 IN power[n]

ASSUME MaxDecimalsAssumption == MaxDecimals \in Nat /\ Limb <= TenTo(MaxDecimals)

Zero == <<0>>

\* Mutant of Extended: the carry of the top limb is dropped.
ExtendedNever(a, carry) == a

Extended(a, carry) == IF carry = 0 THEN a ELSE Append(a, carry % Limb)

\* _kdl_ubigint_add_inplace
Plus(a, b) ==
    LET carry[i \in 0..Len(a)] == IF i = 0 THEN b ELSE (a[i] + carry[i - 1]) \div Limb
    IN Extended([i \in DOMAIN a |-> (a[i] + carry[i - 1]) % Limb], carry[Len(a)])

\* _kdl_ubigint_multiply_inplace
Times(a, b) ==
    LET carry[i \in 0..Len(a)] == IF i = 0 THEN 0 ELSE (a[i] * b + carry[i - 1]) \div Limb
    IN Extended([i \in DOMAIN a |-> (a[i] * b + carry[i - 1]) % Limb], carry[Len(a)])

\* Without zeros at the top.
Shrunk(a) == SubSeq(a, 1, Max({1} \cup {i \in DOMAIN a : a[i] # 0}))

\* _kdl_ubigint_divide_inplace
DividedBy(a, b) ==
    LET rem[i \in 1..(Len(a) + 1)] ==
            IF i > Len(a) THEN 0 ELSE (a[i] + rem[i + 1] * Limb) % b
    IN [rem |-> rem[1],
        quotient |-> Shrunk([i \in DOMAIN a |-> (a[i] + rem[i + 1] * Limb) \div b])]

\* _kdl_ubigint_as_long_long: whether it fits, and the number if it does.
IsLongLong(a) == Len(a) <= LimbsPerLongLong /\ a[Len(a)] < Limb \div 2

LongLong(a) ==
    LET from[i \in 1..(Len(a) + 1)] == IF i > Len(a) THEN 0 ELSE from[i + 1] * Limb + a[i]
    IN from[1]

\* _kdl_ubigint_as_string: the decimal digits.  None for zero.  What is left after each
\* division, as many times as the buffer has room for a digit.
Decimals(a) ==
    LET left[k \in 0..(Len(a) * MaxDecimals)] ==
            IF k = 0 THEN a ELSE DividedBy(left[k - 1], 10).quotient
        len == CHOOSE k \in DOMAIN left : left[k] = Zero /\ \A j \in 0..(k - 1) : left[j] # Zero
    IN [i \in 1..len |-> DividedBy(left[len - i], 10).rem]
==============================================================================
