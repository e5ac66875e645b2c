------------------------- MODULE ScaledIntegersProofs -------------------------
(***************************************************************************)
(* Theorems about ScaledIntegers, for every number of values of a byte:    *)
(* integers and their bytes are read back as each other, at every width;   *)
(* and what rounding and truncation do to a value.                         *)
(***************************************************************************)
EXTENDS ScaledIntegers, SequenceTheorems, WellFoundedInduction, TLAPS

\* The numbers of bytes that the wire formats use.
Widths == {1, 2, 4}

-----------------------------------------------------------------------------
(* Division, stated for a divisor the provers do not know.                  *)

LEMMA DivMod ==
    ASSUME NEW b \in Nat \ {0}, NEW u \in Int
    PROVE  /\ u \div b \in Int
           /\ u % b \in 0..b - 1
           /\ u = b * (u \div b) + (u % b)
OBVIOUS

LEMMA Quotient ==
    ASSUME NEW b \in Nat \ {0}, NEW c \in Nat \ {0}, NEW u \in 0..(b * c) - 1
    PROVE  u \div b \in 0..c - 1
OBVIOUS

LEMMA ModWithin ==
    ASSUME NEW b \in Nat \ {0}, NEW u \in 0..b - 1
    PROVE  u % b = u
OBVIOUS

LEMMA ModBelow ==
    ASSUME NEW b \in Nat \ {0}, NEW u \in -b..-1
    PROVE  u % b = u + b
OBVIOUS

LEMMA Product ==
    ASSUME NEW a \in Nat \ {0}, NEW b \in Nat \ {0}
    PROVE  a * b \in Nat \ {0}
OBVIOUS

-----------------------------------------------------------------------------
(* How many numbers there are                                               *)

LEMMA BaseFacts ==
    /\ Base \in Nat \ {0}
    /\ Square \in Nat \ {0}
    /\ Square * Square \in Nat \ {0}
BY BaseAssumption, Product DEF Square

LEMMA WidthFacts ==
    /\ Numbers(1) = Base
    /\ Numbers(2) = Square
    /\ Numbers(4) = Square * Square
    /\ \A n \in Widths : Numbers(n) \in Nat \ {0}
BY BaseFacts DEF Numbers, Widths

\* Half of the numbers are negative.
LEMMA Halves ==
    ASSUME NEW n \in Widths
    PROVE  \E half \in Nat \ {0} :
              /\ Numbers(n) = 2 * half
              /\ Lowest(n) = -half
              /\ Highest(n) = half - 1
<1>1. PICK half \in 2..Base : Base = 2 * half
    BY BaseAssumption
<1>2. half \in Nat \ {0}
    BY <1>1, BaseFacts
<1>3. half * Base \in Nat \ {0} /\ Square = 2 * (half * Base)
    BY <1>1, <1>2, BaseFacts, Product DEF Square
<1>4. /\ (half * Base) * Square \in Nat \ {0}
      /\ Square * Square = 2 * ((half * Base) * Square)
    <2>1. (half * Base) * Square \in Nat \ {0}
        BY <1>3, BaseFacts, Product
    <2> DEFINE h == half * Base
               s == Square
    <2>2. h \in Nat /\ s \in Nat /\ s = 2 * h
        BY <1>3, BaseFacts
    <2> HIDE DEF h, s
    <2>3. s * s = 2 * (h * s)
        BY <2>2
    <2> QED
        BY <2>1, <2>3 DEF h, s
<1>5. PICK m \in Nat \ {0} : Numbers(n) = 2 * m
    BY <1>1, <1>2, <1>3, <1>4, WidthFacts DEF Widths
<1> QED
    BY <1>5 DEF Lowest, Highest

-----------------------------------------------------------------------------
(* Bytes of an unsigned number                                              *)

LEMMA TwoDigitsFacts ==
    ASSUME NEW u \in 0..Square - 1
    PROVE  /\ TwoDigits(u) = <<u \div Base, u % Base>>
           /\ u \div Base \in Byte
           /\ u % Base \in Byte
           /\ u = (u \div Base) * Base + (u % Base)
<1>1. u \in 0..(Base * Base) - 1 /\ u \in Int
    BY BaseFacts DEF Square
<1>2. u \div Base \in 0..Base - 1
    BY <1>1, BaseFacts, Quotient
<1>3. (u \div Base) % Base = u \div Base
    BY <1>2, BaseFacts, ModWithin
<1>4. /\ u % Base \in 0..Base - 1
      /\ u = Base * (u \div Base) + (u % Base)
    BY <1>1, BaseFacts, DivMod
<1>5. Base * (u \div Base) = (u \div Base) * Base
    BY <1>2, BaseFacts
<1>6. TwoDigits(u) = <<u \div Base, u % Base>>
    BY <1>3 DEF TwoDigits
<1> QED
    BY <1>2, <1>4, <1>5, <1>6 DEF Byte

LEMMA FourInTwo ==
    ASSUME NEW S, NEW a \in S, NEW b \in S, NEW c \in S, NEW d \in S
    PROVE  <<a, b>> \o <<c, d>> = <<a, b, c, d>>
<1> DEFINE s == <<a, b>> \o <<c, d>>
           t == <<a, b, c, d>>
<1>1. s \in Seq(S) /\ t \in Seq(S) /\ Len(s) = 4 /\ Len(t) = 4
    OBVIOUS
<1>2. /\ s[1] = a /\ s[2] = b /\ s[3] = c /\ s[4] = d
      /\ t[1] = a /\ t[2] = b /\ t[3] = c /\ t[4] = d
    OBVIOUS
<1> HIDE DEF s, t
<1>3. \A i \in 1..Len(s) : s[i] = t[i]
    BY <1>1, <1>2
<1>4. s = t
    BY <1>1, <1>3, SeqEqual
<1> QED
    BY <1>4 DEF s, t

\* The bytes of a number are so many bytes, and they say which number it is.
LEMMA DigitsReadBack ==
    ASSUME NEW n \in Widths, NEW u \in 0..Numbers(n) - 1
    PROVE  /\ Digits(u, n) \in Seq(Byte)
           /\ Len(Digits(u, n)) = n
           /\ Unsigned(Digits(u, n)) = u
<1>1. CASE n = 1
    <2>1. u \in 0..Base - 1 /\ Digits(u, n) = <<u % Base>>
        BY <1>1, WidthFacts DEF Digits
    <2>2. u % Base = u
        BY <2>1, BaseFacts, ModWithin
    <2>3. Digits(u, n) = <<u>> /\ u \in Byte
        BY <2>1, <2>2 DEF Byte
    <2>4. <<u>> \in Seq(Byte) /\ Len(<<u>>) = 1 /\ <<u>>[1] = u
        BY <2>3
    <2>5. Unsigned(<<u>>) = u
        BY <2>4 DEF Unsigned
    <2> QED
        BY <1>1, <2>3, <2>4, <2>5
<1>2. CASE n = 2
    <2>1. u \in 0..Square - 1 /\ Digits(u, n) = TwoDigits(u)
        BY <1>2, WidthFacts DEF Digits
    <2> DEFINE a == u \div Base
               b == u % Base
    <2>2. Digits(u, n) = <<a, b>> /\ a \in Byte /\ b \in Byte /\ u = a * Base + b
        BY <2>1, TwoDigitsFacts
    <2> HIDE DEF a, b
    <2>3. /\ <<a, b>> \in Seq(Byte) /\ Len(<<a, b>>) = 2
          /\ <<a, b>>[1] = a /\ <<a, b>>[2] = b
        BY <2>2
    <2>4. Unsigned(<<a, b>>) = a * Base + b
        BY <2>3 DEF Unsigned, TwoBytes
    <2> QED
        BY <1>2, <2>2, <2>3, <2>4
<1>3. CASE n = 4
    <2>1. /\ u \in 0..(Square * Square) - 1 /\ u \in Int
          /\ Digits(u, n) = TwoDigits(u \div Square) \o TwoDigits(u % Square)
        BY <1>3, WidthFacts, BaseFacts DEF Digits
    <2> DEFINE h == u \div Square
               l == u % Square
    <2>2. h \in 0..Square - 1
        BY <2>1, BaseFacts, Quotient
    <2>3. l \in 0..Square - 1 /\ u = Square * h + l
        BY <2>1, BaseFacts, DivMod
    <2>4. Digits(u, n) = TwoDigits(h) \o TwoDigits(l)
        BY <2>1
    <2> HIDE DEF h, l
    <2> DEFINE a == h \div Base
               b == h % Base
               c == l \div Base
               d == l % Base
    <2>5. TwoDigits(h) = <<a, b>> /\ a \in Byte /\ b \in Byte /\ h = a * Base + b
        BY <2>2, TwoDigitsFacts
    <2>6. TwoDigits(l) = <<c, d>> /\ c \in Byte /\ d \in Byte /\ l = c * Base + d
        BY <2>3, TwoDigitsFacts
    <2> HIDE DEF a, b, c, d
    <2>7. Digits(u, n) = <<a, b, c, d>>
        BY <2>4, <2>5, <2>6, FourInTwo
    <2>8. /\ <<a, b, c, d>> \in Seq(Byte) /\ Len(<<a, b, c, d>>) = 4
          /\ <<a, b, c, d>>[1] = a /\ <<a, b, c, d>>[2] = b
          /\ <<a, b, c, d>>[3] = c /\ <<a, b, c, d>>[4] = d
        BY <2>5, <2>6
    <2>9. Unsigned(<<a, b, c, d>>) = (a * Base + b) * Square + (c * Base + d)
        BY <2>8 DEF Unsigned, TwoBytes
    <2>10. Unsigned(Digits(u, n)) = h * Square + l
        BY <2>5, <2>6, <2>7, <2>9
    <2>11. h * Square = Square * h
        BY <2>2, BaseFacts
    <2>12. Unsigned(Digits(u, n)) = u
        BY <2>3, <2>10, <2>11
    <2> QED
        BY <1>3, <2>7, <2>8, <2>12
<1> QED
    BY <1>1, <1>2, <1>3 DEF Widths

LEMMA TwoBytesWithin ==
    ASSUME NEW a \in Byte, NEW b \in Byte
    PROVE  a * Base + b \in 0..Square - 1
<1>1. a \in 0..Base - 1 /\ b \in 0..Base - 1
    BY DEF Byte
<1>2. /\ a * Base \in Int /\ a * Base >= 0
      /\ a * Base <= (Base - 1) * Base
    BY <1>1, BaseFacts
<1>3. (Base - 1) * Base = Base * Base - Base
    BY BaseFacts
<1> QED
    BY <1>1, <1>2, <1>3, BaseFacts DEF Square

\* Whatever the bytes are, they are a number of that many bytes.
LEMMA UnsignedWithin ==
    ASSUME NEW n \in Widths, NEW bytes \in Seq(Byte), Len(bytes) = n
    PROVE  Unsigned(bytes) \in 0..Numbers(n) - 1
<1>1. CASE n = 1
    <2>1. bytes[1] \in Byte
        BY <1>1
    <2>2. Unsigned(bytes) = bytes[1]
        BY <1>1 DEF Unsigned
    <2> QED
        BY <1>1, <2>1, <2>2, WidthFacts DEF Byte
<1>2. CASE n = 2
    <2>1. bytes[1] \in Byte /\ bytes[2] \in Byte
        BY <1>2
    <2>2. Unsigned(bytes) = bytes[1] * Base + bytes[2]
        BY <1>2 DEF Unsigned, TwoBytes
    <2> QED
        BY <1>2, <2>1, <2>2, TwoBytesWithin, WidthFacts
<1>3. CASE n = 4
    <2>1. bytes[1] \in Byte /\ bytes[2] \in Byte /\ bytes[3] \in Byte /\ bytes[4] \in Byte
        <3>1. 1 \in 1..Len(bytes) /\ 2 \in 1..Len(bytes) /\ 3 \in 1..Len(bytes) /\ 4 \in 1..Len(bytes)
            BY <1>3
        <3> HIDE DEF Widths
        <3> QED
            BY <3>1, ElementOfSeq
    <2> DEFINE h == bytes[1] * Base + bytes[2]
               l == bytes[3] * Base + bytes[4]
    <2>2. Unsigned(bytes) = h * Square + l
        BY <1>3 DEF Unsigned, TwoBytes
    <2>3. h \in 0..Square - 1 /\ l \in 0..Square - 1
        BY <2>1, TwoBytesWithin
    <2> HIDE DEF h, l
    <2>4. /\ h * Square \in Int /\ h * Square >= 0
          /\ h * Square <= (Square - 1) * Square
        BY <2>3, BaseFacts
    <2>5. (Square - 1) * Square = Square * Square - Square
        BY BaseFacts
    <2> QED
        BY <1>3, <2>2, <2>3, <2>4, <2>5, BaseFacts, WidthFacts
<1> QED
    BY <1>1, <1>2, <1>3 DEF Widths

-----------------------------------------------------------------------------
(* Signed numbers                                                           *)

LEMMA SignedDigitsAreBytes ==
    ASSUME NEW n \in Widths, NEW k \in Int
    PROVE  /\ SignedDigits(k, n) \in Seq(Byte)
           /\ Len(SignedDigits(k, n)) = n
<1>1. k % Numbers(n) \in 0..Numbers(n) - 1
    BY WidthFacts, DivMod
<1> QED
    BY <1>1, DigitsReadBack DEF SignedDigits

\* Two's complement, at every width and up to both ends of its range: what is
\* packed is what is unpacked (struct.pack and struct.unpack, to_bytes and
\* from_bytes).
THEOREM NumbersReadBack ==
    ASSUME NEW n \in Widths, NEW k \in Int, Fits(k, n)
    PROVE  Signed(SignedDigits(k, n)) = k
<1>1. PICK half \in Nat \ {0} :
          /\ Numbers(n) = 2 * half
          /\ Lowest(n) = -half
          /\ Highest(n) = half - 1
    BY Halves
<1> DEFINE u == k % Numbers(n)
           bytes == SignedDigits(k, n)
<1>2. u \in 0..Numbers(n) - 1
    BY WidthFacts, DivMod
<1>3. Len(bytes) = n /\ Unsigned(bytes) = u
    BY <1>2, DigitsReadBack DEF SignedDigits
<1>4. -half <= k /\ k <= half - 1
    BY <1>1 DEF Fits
<1>5. u = IF k >= 0 THEN k ELSE k + Numbers(n)
    <2>1. CASE k >= 0
        BY <1>1, <1>4, <2>1, WidthFacts, ModWithin
    <2>2. CASE k < 0
        <3>1. k \in -Numbers(n)..-1
            BY <1>1, <1>4, <2>2
        <3> QED
            BY <2>2, <3>1, WidthFacts, ModBelow
    <2> QED
        BY <2>1, <2>2
<1> HIDE DEF u, bytes
<1>6. Signed(bytes) = IF u > Highest(n) THEN u - Numbers(n) ELSE u
    BY <1>3 DEF Signed
<1>7. Signed(bytes) = k
    BY <1>1, <1>4, <1>5, <1>6
<1> QED
    BY <1>7 DEF bytes

\* Whatever the bytes are, they are read as a number that fits: a decoder never
\* makes one up that the protocol could not have sent.
LEMMA SignedFits ==
    ASSUME NEW n \in Widths, NEW bytes \in Seq(Byte), Len(bytes) = n
    PROVE  Signed(bytes) \in Int /\ Fits(Signed(bytes), n)
<1>1. PICK half \in Nat \ {0} :
          /\ Numbers(n) = 2 * half
          /\ Lowest(n) = -half
          /\ Highest(n) = half - 1
    BY Halves
<1> DEFINE u == Unsigned(bytes)
<1>2. u \in 0..Numbers(n) - 1
    BY UnsignedWithin
<1>3. Signed(bytes) = IF u > Highest(n) THEN u - Numbers(n) ELSE u
    BY DEF Signed
<1> HIDE DEF u
<1> QED
    BY <1>1, <1>2, <1>3 DEF Fits

-----------------------------------------------------------------------------
(* Rounding                                                                 *)

\* round() is off by half a step at most, and in range for what is in range.
LEMMA RoundedIsNearest ==
    ASSUME NEW h \in Int
    PROVE  /\ RoundedHalfSteps(h) \in Int
           /\ 2 * RoundedHalfSteps(h) - h \in -1..1
<1> DEFINE q == h \div 2
<1>1. q \in Int /\ h % 2 \in 0..1 /\ h = 2 * q + (h % 2)
    BY DivMod
<1>2. RoundedHalfSteps(h) = IF h % 2 = 1 /\ q % 2 = 1 THEN q + 1 ELSE q
    BY DEF RoundedHalfSteps
<1> HIDE DEF q
<1> QED
    BY <1>1, <1>2

LEMMA RoundedKeepsRange ==
    ASSUME NEW lo \in Int, NEW hi \in Int, NEW h \in 2 * lo..2 * hi
    PROVE  RoundedHalfSteps(h) \in lo..hi
BY RoundedIsNearest

\* int() goes towards zero, by half a step at most.
LEMMA TruncatedIsNearZero ==
    ASSUME NEW h \in Int
    PROVE  /\ TruncatedHalfSteps(h) \in Int
           /\ Magnitude(2 * TruncatedHalfSteps(h) - h) <= 1
           /\ 2 * Magnitude(TruncatedHalfSteps(h)) <= Magnitude(h)
<1> DEFINE m == Magnitude(h)
           q == m \div 2
<1>1. m \in Nat /\ m = IF h < 0 THEN -h ELSE h
    BY DEF Magnitude
<1> HIDE DEF m
<1>2. q \in Int /\ m % 2 \in 0..1 /\ m = 2 * q + (m % 2)
    BY <1>1, DivMod
<1> HIDE DEF q
<1>3. q >= 0
    BY <1>1, <1>2
<1>4. TruncatedHalfSteps(h) = IF h < 0 THEN -q ELSE q
    BY <1>1 DEF TruncatedHalfSteps, m, q
<1>5. CASE h < 0
    <2>1. TruncatedHalfSteps(h) = -q /\ -q \in Int
        BY <1>2, <1>4, <1>5
    <2>2. Magnitude(-q) = q /\ Magnitude(h) = m
        BY <1>1, <1>2, <1>3 DEF Magnitude, m
    <2>3. 2 * (-q) - h \in 0..1
        BY <1>1, <1>2, <1>5
    <2>4. Magnitude(2 * (-q) - h) <= 1
        BY <2>3 DEF Magnitude
    <2> QED  BY <1>1, <1>2, <2>1, <2>2, <2>4
<1>6. CASE ~(h < 0)
    <2>1. TruncatedHalfSteps(h) = q
        BY <1>4, <1>6
    <2>2. Magnitude(q) = q /\ Magnitude(h) = m
        BY <1>2, <1>3 DEF Magnitude, m
    <2>3. 2 * q - h \in -1..0
        BY <1>1, <1>2, <1>6
    <2>4. Magnitude(2 * q - h) <= 1
        BY <2>3 DEF Magnitude
    <2> QED  BY <1>1, <1>2, <2>1, <2>2, <2>4
<1> QED  BY <1>5, <1>6

LEMMA TruncatedKeepsRange ==
    ASSUME NEW lo \in Int, NEW hi \in Int, lo <= 0, 0 <= hi, NEW h \in 2 * lo..2 * hi
    PROVE  TruncatedHalfSteps(h) \in lo..hi
<1> DEFINE k == TruncatedHalfSteps(h)
<1>1. k \in Int /\ 2 * Magnitude(k) <= Magnitude(h) /\ Magnitude(2 * k - h) <= 1
    BY TruncatedIsNearZero
<1> HIDE DEF k
<1>2. k \in lo..hi
    BY <1>1 DEF Magnitude
<1> QED  BY <1>2 DEF k

-----------------------------------------------------------------------------
(* Bytes, read and written again                                            *)

LEMMA Combined ==
    ASSUME NEW b \in Nat \ {0}, NEW q \in Int, NEW r \in 0..b - 1
    PROVE  (q * b + r) \div b = q /\ (q * b + r) % b = r
OBVIOUS

LEMMA TwoDigitsOfTwoBytes ==
    ASSUME NEW a \in Byte, NEW b \in Byte
    PROVE  TwoDigits(a * Base + b) = <<a, b>>
<1>1. a \in Int /\ b \in 0..Base - 1 /\ a \in 0..Base - 1
    BY BaseFacts DEF Byte
<1>2. (a * Base + b) \div Base = a /\ (a * Base + b) % Base = b
    BY <1>1, BaseFacts, Combined
<1>3. a % Base = a
    BY <1>1, BaseFacts, ModWithin
<1> QED  BY <1>2, <1>3 DEF TwoDigits

\* Bytes that were read as an unsigned number are the bytes of that number.
LEMMA DigitsOfUnsigned ==
    ASSUME NEW n \in Widths, NEW bytes \in Seq(Byte), Len(bytes) = n
    PROVE  Digits(Unsigned(bytes), n) = bytes
<1>1. CASE n = 1
    <2>1. bytes[1] \in Byte /\ bytes = <<bytes[1]>>
        BY <1>1
    <2>2. bytes[1] % Base = bytes[1]
        BY <2>1, BaseFacts, ModWithin DEF Byte
    <2>3. Unsigned(bytes) = bytes[1]
        BY <1>1 DEF Unsigned
    <2> QED  BY <1>1, <2>1, <2>2, <2>3 DEF Digits
<1>2. CASE n = 2
    <2>1. bytes[1] \in Byte /\ bytes[2] \in Byte
        BY <1>2
    <2>2. bytes = <<bytes[1], bytes[2]>>
        BY <1>2
    <2>3. Unsigned(bytes) = bytes[1] * Base + bytes[2]
        BY <1>2 DEF Unsigned, TwoBytes
    <2>4. Digits(Unsigned(bytes), n) = TwoDigits(bytes[1] * Base + bytes[2])
        BY <1>2, <2>3 DEF Digits
    <2> QED  BY <2>1, <2>2, <2>4, TwoDigitsOfTwoBytes
<1>3. CASE n = 4
    <2>1. 1 \in 1..Len(bytes) /\ 2 \in 1..Len(bytes) /\ 3 \in 1..Len(bytes) /\ 4 \in 1..Len(bytes)
        BY <1>3
    <2> DEFINE a == bytes[1]
               b == bytes[2]
               c == bytes[3]
               d == bytes[4]
               h == a * Base + b
               l == c * Base + d
    <2>2. a \in Byte /\ b \in Byte /\ c \in Byte /\ d \in Byte
        <3> HIDE DEF Widths
        <3> QED  BY <2>1, ElementOfSeq
    <2>3. bytes = <<a, b, c, d>>
        BY <1>3
    <2>4. Unsigned(bytes) = h * Square + l
        BY <1>3 DEF Unsigned, TwoBytes
    <2>5. Digits(Unsigned(bytes), n) = TwoDigits(Unsigned(bytes) \div Square) \o TwoDigits(Unsigned(bytes) % Square)
        BY <1>3 DEF Digits
    <2>6. TwoDigits(h) = <<a, b>> /\ TwoDigits(l) = <<c, d>>
        BY <2>2, TwoDigitsOfTwoBytes
    <2>7. h \in 0..Square - 1 /\ l \in 0..Square - 1
        BY <2>2, TwoBytesWithin
    <2> HIDE DEF h, l, a, b, c, d
    <2>8. h \in Int /\ l \in Int
        BY <2>7
    <2>9. (h * Square + l) \div Square = h /\ (h * Square + l) % Square = l
        BY <2>7, <2>8, BaseFacts, Combined
    <2>10. <<a, b>> \o <<c, d>> = <<a, b, c, d>>
        BY <2>2, FourInTwo
    <2> QED  BY <2>3, <2>4, <2>5, <2>6, <2>9, <2>10
<1> QED  BY <1>1, <1>2, <1>3 DEF Widths

\* The same, for two's complement.
LEMMA DigitsOfSigned ==
    ASSUME NEW n \in Widths, NEW bytes \in Seq(Byte), Len(bytes) = n
    PROVE  SignedDigits(Signed(bytes), n) = bytes
<1> DEFINE u == Unsigned(bytes)
<1>1. u \in 0..Numbers(n) - 1 /\ Digits(u, n) = bytes
    BY UnsignedWithin, DigitsOfUnsigned
<1>2. Signed(bytes) = IF u > Highest(n) THEN u - Numbers(n) ELSE u
    BY DEF Signed
<1> HIDE DEF u
<1>3. Signed(bytes) % Numbers(n) = u
    <2>1. Numbers(n) \in Nat \ {0}
        BY WidthFacts
    <2>2. CASE u > Highest(n)
        <3>1. u - Numbers(n) \in -Numbers(n)..-1
            BY <1>1, <2>1
        <3> QED  BY <1>1, <1>2, <2>1, <2>2, <3>1, ModBelow
    <2>3. CASE ~(u > Highest(n))
        BY <1>1, <1>2, <2>1, <2>3, ModWithin
    <2> QED  BY <2>2, <2>3
<1> QED  BY <1>1, <1>3 DEF SignedDigits
=============================================================================
