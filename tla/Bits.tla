-------------------------------- MODULE Bits --------------------------------
(***************************************************************************)
(* The integer puzzles of bits.c on words of W bits, kept as 0 .. 2^W - 1; *)
(* sums and left shifts drop what does not fit.  The shifts by 31 of the   *)
(* code are shifts by W - 1.                                               *)
(***************************************************************************)
EXTENDS Integers, Bitwise

CONSTANT W  \* at least 7: the ASCII codes must fit into a positive word

VARIABLES x, y, result  \* result is a record of what the puzzles return, or <<>>

vars == <<x, y, result>>

Words == 0..(2^W - 1)
Top == 2^(W - 1)

\* The C operators.
Flip(a) == 2^W - 1 - a
Plus(a, b) == (a + b) % 2^W
Bang(a) == IF a = 0 THEN 1 ELSE 0
Sar(a) == IF a >= Top THEN 2^W - 1 ELSE 0  \* a >> (W - 1) of an int
Shl(a) == (a % 2) * Top                    \* a << (W - 1)
SignBit(a) == Sar(a) & 1

BitXor(a, b) == Flip(Flip(a & Flip(b)) & Flip(Flip(a) & b))

\* 0x80 << 24: the highest byte begins with the sign bit.
Tmin == Top

IsTmax(a) == Bang(Bang(Plus(a, 1) ^^ 0)) & Bang(Plus(a, 1) ^^ Flip(a))

\* 0xaa in every byte: the odd bits.
OddBits == LET bit[i \in 0..(W - 1)] == (IF i % 2 = 1 THEN 2^i ELSE 0) + IF i = 0 THEN 0 ELSE bit[i - 1]
           IN  bit[W - 1]

AllOddBits(a) == Bang((a & OddBits) ^^ OddBits)

Negate(a) == Plus(Flip(a), 1)

IsAsciiDigit(a) ==
    (Bang(SignBit(a)) & SignBit(Plus(47, Negate(a)))) & SignBit(Plus(a, Negate(58)))

Conditional(a, b, c) ==
    LET v == Plus(Flip(Bang(Bang(a))), 1) IN (v & b) | (Flip(v) & c)

\* Mutant: the sign of the difference alone decides.
LessByDifference(a, b) ==
    LET val == Plus(Plus(a, Flip(b)), 1) IN SignBit(val) | Bang(val)

\* Different signs decide by themselves; the difference may overflow then.
IsLessOrEqual(a, b) ==
    LET p == Bang(SignBit(Flip(a)) & SignBit(b))
        n == SignBit(a) & SignBit(Flip(b))
        val == Plus(Plus(a, Flip(b)), 1)
    IN  p & (n | (SignBit(val) | Bang(val)))

\* The last shift is that of an unsigned.
LogicalNeg(a) ==
    LET t == Shl(Sar(Flip(Shl(Sar(Negate(a))) | a))) IN t \div Top

Init == x \in Words /\ y \in Words /\ result = <<>>

Evaluate ==
    /\ result = <<>>
    /\ result' = [bitXor |-> BitXor(x, y), isTmax |-> IsTmax(x), allOddBits |-> AllOddBits(x),
                  negate |-> Negate(x), isAsciiDigit |-> IsAsciiDigit(x),
                  conditional |-> Conditional(x, y, Tmin), isLessOrEqual |-> IsLessOrEqual(x, y),
                  logicalNeg |-> LogicalNeg(x)]
    /\ UNCHANGED <<x, y>>

Next == Evaluate

Spec == Init /\ [][Next]_vars
-----------------------------------------------------------------------------
\* The int a word stands for.
AsInt(a) == IF a >= Top THEN a - 2^W ELSE a

Truth(b) == IF b THEN 1 ELSE 0

\* isTmax, isAsciiDigit and isLessOrEqual agree with the comparisons of ints for
\* all words, where the differences they form overflow too.
ComparesInts ==
    result # <<>> =>
        /\ result.isTmax = Truth(AsInt(x) = Top - 1)
        /\ result.isAsciiDigit = Truth(48 <= AsInt(x) /\ AsInt(x) <= 57)
        /\ result.isLessOrEqual = Truth(AsInt(x) <= AsInt(y))

\* bitXor, negate, conditional, logicalNeg and allOddBits are ^, -, ?:, ! and
\* the test of the odd bits, for all words.
MatchesOperators ==
    result # <<>> =>
        /\ result.bitXor = x ^^ y
        /\ (AsInt(result.negate) + AsInt(x)) % 2^W = 0
        /\ result.conditional = IF x # 0 THEN y ELSE Tmin
        /\ result.logicalNeg = Truth(x = 0)
        /\ result.allOddBits = Truth(\A i \in 0..(W - 1) : i % 2 = 1 => (x \div 2^i) % 2 = 1)
=============================================================================
