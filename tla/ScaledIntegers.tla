--------------------------- MODULE ScaledIntegers ---------------------------
(***************************************************************************)
(* Numbers as every protocol of this library puts them on a wire: integers *)
(* of one, two or four bytes, most significant byte first, in two's        *)
(* complement if they are signed.  struct.pack('!i', n), int.to_bytes and  *)
(* their inverses.                                                         *)
(*                                                                         *)
(* A physical value is sent as an integer number of steps (milliamps, 1e-5 *)
(* of the duty cycle).  Here it is given in half steps, so that what lies  *)
(* between two steps is there too; one half is all that rounding needs to  *)
(* be told apart.  The value times its scale is exact, which it is for     *)
(* floats up to an error far below a half step.                            *)
(*                                                                         *)
(* Base is the number of values of a byte, 256 in the code.                *)
(***************************************************************************)
EXTENDS Integers, Sequences

CONSTANT Base

ASSUME BaseAssumption == Base \in Nat /\ Base >= 4 /\ \E half \in 2..Base : Base = 2 * half

Byte == 0..Base - 1

\* How many numbers n bytes hold.
Square == Base * Base
Numbers(n) ==
    CASE n = 1 -> Base
      [] n = 2 -> Square
      [] n = 4 -> Square * Square

\* The u-th unsigned number of n bytes, and which one some bytes are.
TwoDigits(u) == <<(u \div Base) % Base, u % Base>>
Digits(u, n) ==
    CASE n = 1 -> <<u % Base>>
      [] n = 2 -> TwoDigits(u)
      [] n = 4 -> TwoDigits(u \div Square) \o TwoDigits(u % Square)

TwoBytes(bytes, i) == bytes[i] * Base + bytes[i + 1]
Unsigned(bytes) ==
    CASE Len(bytes) = 1 -> bytes[1]
      [] Len(bytes) = 2 -> TwoBytes(bytes, 1)
      [] Len(bytes) = 4 -> TwoBytes(bytes, 1) * Square + TwoBytes(bytes, 3)

Lowest(n) == -(Numbers(n) \div 2)
Highest(n) == (Numbers(n) \div 2) - 1
Fits(k, n) == Lowest(n) <= k /\ k <= Highest(n)
FitsUnsigned(k, n) == 0 <= k /\ k < Numbers(n)

\* Two's complement.
SignedDigits(k, n) == Digits(k % Numbers(n), n)
Signed(bytes) ==
    LET u == Unsigned(bytes)
    IN  IF u > Highest(Len(bytes)) THEN u - Numbers(Len(bytes)) ELSE u

Magnitude(h) == IF h < 0 THEN -h ELSE h

\* round(): to the nearest step, from halfway to the even one.
RoundedHalfSteps(h) ==
    LET below == h \div 2
    IN  IF h % 2 = 1 /\ below % 2 = 1 THEN below + 1 ELSE below

\* int(): towards zero.
TruncatedHalfSteps(h) == IF h < 0 THEN -(Magnitude(h) \div 2) ELSE h \div 2
=============================================================================
