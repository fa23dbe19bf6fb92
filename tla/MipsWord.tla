------------------------------ MODULE MipsWord ------------------------------
(***************************************************************************)
(* The words and the memory of the simulated MIPS processor, shared by     *)
(* the models of its two simulators.  A byte has ByteBits bits (8 in the   *)
(* code), so that a word of four bytes is small enough to enumerate; every *)
(* mask and shift of the code scales with it.  A word is a natural number  *)
(* below WordBase; Signed is its value as an int.                          *)
(***************************************************************************)
EXTENDS Integers, Sequences, Bitwise

CONSTANTS ByteBits, GPR

ASSUME MipsWordAssumption ==
    /\ ByteBits \in Nat \ {0}
    /\ GPR \subseteq 0 .. 31 /\ {0, 31} \subseteq GPR

ByteBase == 2 ^ ByteBits
HalfBase == 2 ^ (2 * ByteBits)
WordBits == 4 * ByteBits
WordBase == 2 ^ WordBits
SIGN_BIT == WordBase \div 2

Wrap(x) == x % WordBase
Negative(x) == x >= SIGN_BIT
Signed(x) == IF Negative(x) THEN x - WordBase ELSE x
Complement(x) == WordBase - 1 - x
SignExtend(x, base) == IF x >= base \div 2 THEN x + WordBase - base ELSE x
ShiftLeft(x, n) == Wrap(x * 2 ^ n)
ShiftRight(x, n) == Wrap(Signed(x) \div 2 ^ n)     \* >> of an int
IndexToAddr(x) == Wrap(4 * x)
Bit(b) == IF b THEN 1 ELSE 0
AbsInt(x) == IF x < 0 THEN -x ELSE x
\* C's division truncates.
Quotient(a, b) == (IF (a < 0) = (b < 0) THEN 1 ELSE -1) * (AbsInt(a) \div AbsInt(b))

ReadMem(m, addr, size) ==
    LET byte(k) == IF k < size THEN m[addr + k] * ByteBase ^ k ELSE 0
    IN byte(0) + byte(1) + byte(2) + byte(3)

WriteMem(m, addr, size, value) ==
    [k \in DOMAIN m |-> IF k \in addr .. (addr + size - 1)
                        THEN (value \div ByteBase ^ (k - addr)) % ByteBase ELSE m[k]]

=============================================================================
