--------------------------- MODULE PacketCodecProofs ---------------------------
(***************************************************************************)
(* Proofs about PacketCodec, for every number of bytes and any payloads:   *)
(* its types, that a clean stream is received as it was sent, and that     *)
(* unframe finds the first whole packet of any buffer.                     *)
(***************************************************************************)
EXTENDS PacketCodec, SequenceTheorems, WellFoundedInduction, TLAPS

\* Induction over data goes through the least of some naturals: Nat is well-founded.
LEMMA Least ==
    ASSUME NEW T \in SUBSET Nat, T # {}
    PROVE  \E x \in T : \A y \in T : x <= y
<1> DEFINE R == {p \in Nat \X Nat : p[1] < p[2]}
<1>1. IsWellFoundedOn(R, Nat)
    BY NatLessThanWellFounded DEF OpToRel
<1>2. \E x \in T : \A y \in T : <<y, x>> \notin R
    <2> HIDE DEF R
    <2> QED  BY <1>1, WFMin
<1>3. PICK x \in T : \A y \in T : <<y, x>> \notin R
    BY <1>2
<1>4. \A y \in T : ~(y < x)
    BY <1>3
<1> QED  BY <1>4

-----------------------------------------------------------------------------
(* Packing.                                                                 *)

LEMMA ByteCountType == ByteCount \in Nat /\ ByteCount > 3 /\ ByteCount * ByteCount \in Nat
<1>1. ByteCount \in Nat /\ ByteCount > 3
    BY CodecAssumption
<1>2. \A m, n \in Nat : m * n \in Nat
    OBVIOUS
<1> QED  BY <1>1, <1>2

LEMMA DivMod ==
    ASSUME NEW b \in Nat \ {0}, NEW u \in Int
    PROVE  /\ u \div b \in Int
           /\ u % b \in 0..b - 1
           /\ u = b * (u \div b) + (u % b)
OBVIOUS

LEMMA Quotient ==
    ASSUME NEW b \in Nat \ {0}, NEW c \in Nat \ {0}, NEW u \in 0..(b * c) - 1
    PROVE  u \div b \in 0..c - 1
OBVIOUS

\* Two bytes hold what they should, and only that.
LEMMA TwoBytesAre ==
    ASSUME NEW n \in 0..ByteCount * ByteCount - 1
    PROVE  TwoBytes(n) \in Seq(Byte) /\ Len(TwoBytes(n)) = 2
<1>1. ByteCount \in Nat \ {0} /\ n \in Int
    BY ByteCountType
<1>2. n \div ByteCount \in Byte /\ n % ByteCount \in Byte
    BY <1>1, DivMod, Quotient DEF Byte
<1> QED  BY <1>2 DEF TwoBytes

\* Functions on 0..n that are defined step by step exist.
StepByStep(f, n, zero, step) ==
    \A i \in 0..n : f[i] = IF i = 0 THEN zero ELSE step[<<f[i - 1], i>>]

LEMMA Stepwise ==
    ASSUME NEW V, NEW zero \in V, NEW n \in Nat, NEW step \in [V \X (1..n) -> V]
    PROVE  \E f \in [0..n -> V] : StepByStep(f, n, zero, step)
<1> DEFINE Upto(m, f) == \A i \in 0..m : f[i] = IF i = 0 THEN zero ELSE step[<<f[i - 1], i>>]
           Short(m) == ~\E f \in [0..n -> V] : Upto(m, f)
           short == {m \in 0..n : Short(m)}
<1>1. ~Short(0)
    <2> DEFINE g == [i \in 0..n |-> zero]
    <2>1. g \in [0..n -> V] /\ Upto(0, g)
        OBVIOUS
    <2> QED  BY <2>1
<1>2. ASSUME NEW m \in 1..n, ~Short(m - 1) PROVE ~Short(m)
    <2>1. PICK f \in [0..n -> V] : Upto(m - 1, f)
        BY <1>2
    <2> DEFINE new == step[<<f[m - 1], m>>]
               g == [f EXCEPT ![m] = new]
    <2>2. m - 1 \in 0..n /\ m \in 0..n /\ m # 0 /\ m - 1 # m
        OBVIOUS
    <2>3. new \in V
        BY <2>2
    <2> HIDE DEF new
    <2>4. g \in [0..n -> V] /\ g[m] = new /\ \A i \in 0..m - 1 : g[i] = f[i]
        BY <2>2, <2>3
    <2> HIDE DEF g
    <2>5. g[m] = step[<<g[m - 1], m>>]
        <3>1. m - 1 \in 0..m - 1
            OBVIOUS
        <3>2. g[m - 1] = f[m - 1]
            BY <2>4, <3>1
        <3> QED  BY <2>4, <3>2 DEF new
    <2>6. ASSUME NEW i \in 0..m PROVE g[i] = IF i = 0 THEN zero ELSE step[<<g[i - 1], i>>]
        <3>1. CASE i = m
            BY <2>2, <2>5, <3>1
        <3>2. CASE i # m
            <4>1. i \in 0..m - 1 /\ (i # 0 => i - 1 \in 0..m - 1)
                BY <3>2
            <4>2. f[i] = IF i = 0 THEN zero ELSE step[<<f[i - 1], i>>]
                BY <2>1, <4>1
            <4> QED  BY <2>4, <4>1, <4>2
        <3> QED  BY <3>1, <3>2
    <2> QED  BY <2>4, <2>6
<1> HIDE DEF Short
<1>3. short = {}
    <2>1. SUFFICES ASSUME short # {} PROVE FALSE
        OBVIOUS
    <2>2. short \in SUBSET Nat
        OBVIOUS
    <2>3. PICK m \in short : \A k \in short : m <= k
        BY <2>1, <2>2, Least
    <2>4. m \in 1..n /\ Short(m)
        BY <1>1, <2>3
    <2>5. m - 1 \notin short /\ m - 1 \in 0..n
        BY <2>3, <2>4
    <2> QED  BY <1>2, <2>4, <2>5
<1>4. ~Short(n)
    BY <1>3
<1>5. PICK f \in [0..n -> V] : Upto(n, f)
    BY <1>4 DEF Short
<1> QED  BY <1>5 DEF StepByStep

\* The checksum is a number of two bytes.
LEMMA CrcRange ==
    ASSUME NEW p \in Seq(Byte)
    PROVE  Crc(p) \in 0..ByteCount * ByteCount - 1
<1> DEFINE square == ByteCount * ByteCount
           V == 0..square - 1
           Add(c, i) == (ByteCount * c + c \div ByteCount + p[i] + 1) % square
           step == [x \in V \X (1..Len(p)) |-> Add(x[1], x[2])]
           crc == CHOOSE f : f = [i \in 0..Len(p) |-> IF i = 0 THEN 0 ELSE Add(f[i - 1], i)]
<1>1. ByteCount \in Nat \ {0} /\ square \in Nat \ {0}
    BY ByteCountType
<1>2. Crc(p) = crc[Len(p)]
    BY DEF Crc
<1>3. ASSUME NEW c \in V, NEW i \in 1..Len(p) PROVE Add(c, i) \in V
    <2>1. ByteCount * c \in Int /\ c \div ByteCount \in Int /\ p[i] \in Int
        <3>1. c \in Int /\ ByteCount \in Nat \ {0} /\ p[i] \in Byte
            BY <1>1
        <3>2. \A a, b \in Int : a * b \in Int
            OBVIOUS
        <3>3. ByteCount * c \in Int
            BY <3>1, <3>2
        <3>4. c \div ByteCount \in Int
            BY <3>1, DivMod
        <3> QED  BY <3>1, <3>3, <3>4, ByteCountType DEF Byte
    <2> HIDE DEF square
    <2>2. ByteCount * c + c \div ByteCount + p[i] + 1 \in Int
        BY <2>1
    <2> QED  BY <1>1, <2>2, DivMod
<1>4. 0 \in V
    BY <1>1
<1>5. Len(p) \in Nat
    OBVIOUS
<1> HIDE DEF Add, V
<1>6. step \in [V \X (1..Len(p)) -> V]
    BY <1>3
<1>7. \A c \in V, i \in 1..Len(p) : step[<<c, i>>] = Add(c, i)
    OBVIOUS
<1> HIDE DEF step
<1>8. PICK f \in [0..Len(p) -> V] : StepByStep(f, Len(p), 0, step)
    BY <1>4, <1>5, <1>6, Stepwise
<1>9. \A i \in 1..Len(p) : f[i - 1] \in V
    BY <1>5
<1>10. f = [i \in 0..Len(p) |-> IF i = 0 THEN 0 ELSE Add(f[i - 1], i)]
    BY <1>7, <1>8, <1>9 DEF StepByStep
<1>11. crc = [i \in 0..Len(p) |-> IF i = 0 THEN 0 ELSE Add(crc[i - 1], i)]
    BY <1>10
<1> HIDE DEF crc
<1>12. \A i \in 0..Len(p) : crc[i] \in V
    <2> DEFINE bad == {i \in 0..Len(p) : crc[i] \notin V}
    <2>1. SUFFICES ASSUME bad # {} PROVE FALSE
        OBVIOUS
    <2>2. bad \in SUBSET Nat
        OBVIOUS
    <2>3. PICK i \in bad : \A j \in bad : i <= j
        BY <2>1, <2>2, Least
    <2>4. i # 0
        BY <1>4, <1>5, <1>11
    <2>5. i \in 1..Len(p) /\ i - 1 \in 0..Len(p) /\ i - 1 \notin bad
        BY <2>3, <2>4
    <2>6. crc[i - 1] \in V /\ crc[i] = Add(crc[i - 1], i)
        BY <1>11, <2>5
    <2> QED  BY <1>3, <2>5, <2>6
<1> QED  BY <1>2, <1>5, <1>12 DEF V


LEMMA OneThenTwo ==
    ASSUME NEW S, NEW a \in S, NEW b \in S, NEW c \in S
    PROVE  <<a>> \o <<b, c>> = <<a, b, c>>
<1> DEFINE s == <<a>> \o <<b, c>>
           t == <<a, b, c>>
<1>1. s \in Seq(S) /\ t \in Seq(S) /\ Len(s) = 3 /\ Len(t) = 3
    OBVIOUS
<1>2. s[1] = a /\ s[2] = b /\ s[3] = c /\ t[1] = a /\ t[2] = b /\ t[3] = c
    OBVIOUS
<1>3. \A i \in 1..Len(s) : s[i] = t[i]
    <2>1. 1..3 = {1, 2, 3}
        OBVIOUS
    <2> QED  BY <1>1, <1>2, <2>1
<1> HIDE DEF s, t
<1>4. s = t
    BY <1>1, <1>3, SeqEqual
<1> QED  BY <1>4 DEF s, t

LEMMA TwoThenOne ==
    ASSUME NEW S, NEW s \in Seq(S), Len(s) = 2, NEW c \in S
    PROVE  Append(s, c) \in Seq(S) /\ Len(Append(s, c)) = 3
<1>1. Append(s, c) \in Seq(S) /\ Len(Append(s, c)) = Len(s) + 1
    BY AppendProperties
<1> QED  BY <1>1

\* What the header of a payload consists of.
LEMMA HeaderIs ==
    ASSUME NEW p \in Seq(Byte), Packable(p)
    PROVE  /\ Header(p) \in Seq(Byte)
           /\ Header(p)[1] \in {2, 3} /\ Len(Header(p)) = Header(p)[1]
           /\ Header(p)[1] = 2 => Header(p)[2] = Len(p)
           /\ Header(p)[1] = 3 =>
                 Len(p) = ByteCount * Header(p)[2] + Header(p)[3]
<1> DEFINE n == Len(p)
<1>1. ByteCount \in Nat \ {0} /\ ByteCount > 3 /\ n \in Int /\ n \in 0..ByteCount * ByteCount - 1
    BY ByteCountType DEF Packable
<1>2. 2 \in Byte /\ 3 \in Byte
    BY <1>1 DEF Byte
<1> HIDE DEF n
<1>3. CASE n < ByteCount
    <2>1. Header(p) = <<2, n>>
        BY <1>3 DEF Header, n
    <2>2. n \in Byte
        BY <1>1, <1>3 DEF Byte
    <2> QED  BY <1>2, <2>1, <2>2 DEF n
<1>4. CASE ~(n < ByteCount)
    <2>1. n \div ByteCount \in Byte /\ n % ByteCount \in Byte
          /\ n = ByteCount * (n \div ByteCount) + (n % ByteCount)
        BY <1>1, DivMod, Quotient DEF Byte
    <2>2. Header(p) = <<3>> \o <<n \div ByteCount, n % ByteCount>>
        BY <1>4 DEF Header, TwoBytes, n
    <2>3. Header(p) = <<3, n \div ByteCount, n % ByteCount>>
        BY <1>2, <2>1, <2>2, OneThenTwo
    <2>4. Header(p) \in Seq(Byte) /\ Len(Header(p)) = 3 /\ Header(p)[1] = 3
          /\ Header(p)[2] = n \div ByteCount /\ Header(p)[3] = n % ByteCount
        BY <1>2, <2>1, <2>3
    <2> QED  BY <2>1, <2>4 DEF n
<1> QED  BY <1>3, <1>4

LEMMA FooterIs ==
    ASSUME NEW p \in Seq(Byte)
    PROVE  Footer(p) \in Seq(Byte) /\ Len(Footer(p)) = 3
<1>1. 3 \in Byte
    BY ByteCountType DEF Byte
<1> QED  BY <1>1, CrcRange, TwoBytesAre, TwoThenOne DEF Footer

Consists(s, a, b, c) ==
    /\ Len(s) = Len(a) + Len(b) + Len(c)
    /\ \A k \in 1..Len(a) : s[k] = a[k]
    /\ \A k \in 1..Len(b) : s[Len(a) + k] = b[k]
    /\ \A k \in 1..Len(c) : s[Len(a) + Len(b) + k] = c[k]

LEMMA ThreeParts ==
    ASSUME NEW S, NEW a \in Seq(S), NEW b \in Seq(S), NEW c \in Seq(S)
    PROVE  a \o b \o c \in Seq(S) /\ Consists(a \o b \o c, a, b, c)
<1> DEFINE ab == a \o b
           abc == ab \o c
<1>1. /\ ab \in Seq(S) /\ Len(ab) = Len(a) + Len(b)
      /\ \A k \in 1..Len(a) : ab[k] = a[k]
      /\ \A k \in 1..Len(b) : ab[Len(a) + k] = b[k]
    OBVIOUS
<1> HIDE DEF ab
<1>2. /\ abc \in Seq(S) /\ Len(abc) = Len(ab) + Len(c)
      /\ \A k \in 1..Len(ab) : abc[k] = ab[k]
      /\ \A k \in 1..Len(c) : abc[Len(ab) + k] = c[k]
    <2>1. abc \in Seq(S) /\ Len(abc) = Len(ab) + Len(c)
        BY <1>1, ConcatProperties
    <2>2. \A k \in 1..Len(ab) : abc[k] = ab[k]
        BY <1>1, ConcatProperties
    <2>3. \A k \in 1..Len(c) : abc[Len(ab) + k] = c[k]
        BY <1>1
    <2> QED  BY <2>1, <2>2, <2>3
<1>3. Len(a) \in Nat /\ Len(b) \in Nat /\ Len(c) \in Nat
    OBVIOUS
<1> HIDE DEF abc
<1>4. \A k \in 1..Len(a) : abc[k] = a[k]
    <2>1. \A k \in 1..Len(a) : k \in 1..Len(ab)
        BY <1>1, <1>3
    <2> QED  BY <1>1, <1>2, <2>1
<1>5. \A k \in 1..Len(b) : abc[Len(a) + k] = b[k]
    <2>1. \A k \in 1..Len(b) : Len(a) + k \in 1..Len(ab)
        BY <1>1, <1>3
    <2> QED  BY <1>1, <1>2, <2>1
<1>6. Len(abc) = Len(a) + Len(b) + Len(c)
    BY <1>1, <1>2
<1>7. \A k \in 1..Len(c) : abc[Len(a) + Len(b) + k] = c[k]
    BY <1>1, <1>2
<1> QED  BY <1>2, <1>4, <1>5, <1>6, <1>7 DEF abc, ab, Consists

\* A packet is its header, the payload and the footer.
LEMMA FrameIs ==
    ASSUME NEW p \in Seq(Byte), Packable(p)
    PROVE  /\ Frame(p) \in Seq(Byte)
           /\ Len(Frame(p)) = Len(Header(p)) + Len(p) + 3
           /\ \A k \in 1..Len(Header(p)) : Frame(p)[k] = Header(p)[k]
           /\ \A k \in 1..Len(p) : Frame(p)[Len(Header(p)) + k] = p[k]
           /\ \A k \in 1..3 : Frame(p)[Len(Header(p)) + Len(p) + k] = Footer(p)[k]
<1>1. Header(p) \in Seq(Byte) /\ Footer(p) \in Seq(Byte) /\ Len(Footer(p)) = 3
    BY HeaderIs, FooterIs
<1> DEFINE h == Header(p)
           f == Footer(p)
<1> HIDE DEF h, f
<1>2. h \in Seq(Byte) /\ f \in Seq(Byte) /\ Len(f) = 3
    BY <1>1 DEF h, f
<1>3. Frame(p) = h \o p \o f
    BY DEF Frame, h, f
<1>4. Frame(p) \in Seq(Byte) /\ Consists(Frame(p), h, p, f)
    BY <1>2, <1>3, ThreeParts
<1> QED  BY <1>2, <1>4 DEF h, f, Consists


-----------------------------------------------------------------------------
(* Unpacking.                                                               *)

LEMMA Slice ==
    ASSUME NEW S, NEW s \in Seq(S), NEW m \in Nat \ {0}, NEW n \in Nat,
           m <= n + 1, n <= Len(s)
    PROVE  /\ SubSeq(s, m, n) \in Seq(S)
           /\ Len(SubSeq(s, m, n)) = n - m + 1
           /\ \A k \in 1..n - m + 1 : SubSeq(s, m, n)[k] = s[m + k - 1]
<1>1. \A i \in m..n : s[i] \in S
    OBVIOUS
<1>2. /\ SubSeq(s, m, n) \in Seq(S)
      /\ Len(SubSeq(s, m, n)) = IF m <= n THEN n - m + 1 ELSE 0
      /\ \A k \in 1..n - m + 1 : SubSeq(s, m, n)[k] = s[m + k - 1]
    BY <1>1, SubSeqProperties
<1> QED  BY <1>2

LEMMA SameSlice ==
    ASSUME NEW S, NEW s \in Seq(S), NEW m \in Nat \ {0}, NEW n \in Nat,
           m <= n + 1, n <= Len(s),
           NEW t \in Seq(S), Len(t) = n - m + 1, \A k \in 1..Len(t) : t[k] = s[m + k - 1]
    PROVE  SubSeq(s, m, n) = t
<1> DEFINE u == SubSeq(s, m, n)
<1>1. u \in Seq(S) /\ Len(u) = Len(t) /\ \A k \in 1..n - m + 1 : u[k] = s[m + k - 1]
    BY Slice
<1> HIDE DEF u
<1>2. \A k \in 1..Len(u) : u[k] = t[k]
    BY <1>1
<1>3. u = t
    BY <1>1, <1>2, SeqEqual
<1> QED  BY <1>3 DEF u

\* What the header at i says, when it is all there.
LEMMA SizeAt ==
    ASSUME buffer \in Seq(Byte), NEW i \in 1..Len(buffer), buffer[i] \in {2, 3},
           Rest(i) >= HeaderSize(i)
    PROVE  /\ HeaderSize(i) \in {2, 3} /\ PayloadLength(i) \in Nat
           /\ PacketSize(i) = HeaderSize(i) + PayloadLength(i) + 3
           /\ buffer[i + 1] \in Byte
           /\ buffer[i] = 2 => PayloadLength(i) = buffer[i + 1]
           /\ buffer[i] = 3 => /\ buffer[i + 2] \in Byte
                               /\ PayloadLength(i) = ByteCount * buffer[i + 1] + buffer[i + 2]
<1>1. HeaderSize(i) = buffer[i] /\ Len(buffer) \in Nat /\ Len(buffer) - i + 1 >= buffer[i]
    BY DEF HeaderSize, Rest
<1>2. buffer[i + 1] \in Byte
    BY <1>1
<1>3. buffer[i] = 3 => buffer[i + 2] \in Byte
    BY <1>1
<1>4. buffer[i] = 2 => PayloadLength(i) = buffer[i + 1]
    BY DEF PayloadLength
<1>5. buffer[i] = 3 => PayloadLength(i) = ByteCount * buffer[i + 1] + buffer[i + 2]
    BY DEF PayloadLength
<1>6. Byte \subseteq Nat
    BY ByteCountType DEF Byte
<1>7. \A m, n \in Nat : m * n \in Nat
    OBVIOUS
<1>8. PayloadLength(i) \in Nat
    <2>1. CASE buffer[i] = 2
        BY <1>2, <1>4, <1>6, <2>1
    <2>2. CASE buffer[i] = 3
        <3>1. buffer[i + 1] \in Nat /\ buffer[i + 2] \in Nat
            BY <1>2, <1>3, <1>6, <2>2
        <3>2. ByteCount * buffer[i + 1] \in Nat
            BY <1>7, <3>1, ByteCountType
        <3> QED  BY <1>5, <2>2, <3>1, <3>2
    <2> QED  BY <2>1, <2>2
<1> QED  BY <1>1, <1>2, <1>3, <1>4, <1>5, <1>8 DEF PacketSize, FooterSize

\* The places of a packet of header size z and payload length n in len bytes.
Places(z, n, size, len) ==
    /\ z + 1 \in Nat \ {0} /\ z + n \in Nat /\ z + 1 <= z + n + 1
    /\ z + n <= len /\ n = z + n - (z + 1) + 1
    /\ z + n + 1 \in Nat \ {0} /\ size \in Nat /\ z + n + 1 <= size + 1
    /\ size - (z + n + 1) + 1 = 3
    /\ \A k \in 1..n : z + k \in 1..len /\ z + k <= size /\ z + 1 + k - 1 = z + k
    /\ \A k \in 1..3 : /\ z + n + k \in 1..len /\ z + n + k <= size
                       /\ z + n + 1 + k - 1 = z + n + k
    /\ 1 + z + n - 1 = z + n /\ 1 + z = z + 1
    /\ 1 + size - 3 = z + n + 1 /\ 1 + size - 1 = size

LEMMA PlacesOf ==
    ASSUME NEW z \in Nat, z >= 1, NEW n \in Nat, NEW size, size = z + n + 3,
           NEW len \in Nat, size <= len
    PROVE  Places(z, n, size, len)
BY DEF Places

BeginsLike(packet) ==
    \A k \in 1..Len(buffer) : k <= Len(packet) => buffer[k] = packet[k]

\* While the buffer begins like a packet, unframe waits for all of it, and then
\* takes it.
LEMMA HeadUnpacked ==
    ASSUME buffer \in Seq(Byte), buffer # << >>, NEW p \in Seq(Byte), Packable(p),
           BeginsLike(Frame(p))
    PROVE  Unpack = IF Len(Frame(p)) <= Len(buffer)
                    THEN [payload |-> p, consumed |-> Len(Frame(p))]
                    ELSE Nothing(0)
<1> DEFINE h == Header(p)
           n == Len(p)
           size == Len(Frame(p))
<1>1. /\ h[1] \in {2, 3} /\ Len(h) = h[1] /\ n \in Nat
      /\ h[1] = 2 => h[2] = n
      /\ h[1] = 3 => n = ByteCount * h[2] + h[3]
    BY HeaderIs
<1>2. /\ size = h[1] + n + 3
      /\ \A k \in 1..h[1] : Frame(p)[k] = h[k]
      /\ \A k \in 1..n : Frame(p)[h[1] + k] = p[k]
      /\ \A k \in 1..3 : Frame(p)[h[1] + n + k] = Footer(p)[k]
    <2>1. /\ size = Len(h) + n + 3
          /\ \A k \in 1..Len(h) : Frame(p)[k] = h[k]
          /\ \A k \in 1..n : Frame(p)[Len(h) + k] = p[k]
          /\ \A k \in 1..3 : Frame(p)[Len(h) + n + k] = Footer(p)[k]
        BY FrameIs
    <2> HIDE DEF h, n, size
    <2> QED  BY <1>1, <2>1
<1>3. Footer(p) \in Seq(Byte) /\ Len(Footer(p)) = 3
    BY FooterIs
<1>4. Len(buffer) \in Nat /\ Len(buffer) >= 1
    OBVIOUS
<1> HIDE DEF h, n
<1>5. \A k \in 1..Len(buffer) : k <= size => buffer[k] = Frame(p)[k]
    BY DEF BeginsLike
<1> HIDE DEF size
<1>6. buffer[1] = h[1] /\ HeaderSize(1) = h[1] /\ Rest(1) = Len(buffer)
    BY <1>1, <1>2, <1>4, <1>5 DEF HeaderSize, Rest
<1>7. ASSUME Rest(1) >= HeaderSize(1) PROVE PayloadLength(1) = n /\ PacketSize(1) = size
    <2>1. \A k \in 1..h[1] : buffer[k] = h[k]
        BY <1>1, <1>2, <1>4, <1>5, <1>6, <1>7
    <2>2. 1 \in 1..Len(buffer)
        BY <1>4
    <2>3. /\ PacketSize(1) = HeaderSize(1) + PayloadLength(1) + 3
          /\ buffer[1] = 2 => PayloadLength(1) = buffer[1 + 1]
          /\ buffer[1] = 3 => PayloadLength(1) = ByteCount * buffer[1 + 1] + buffer[1 + 2]
        BY <1>1, <1>6, <1>7, <2>2, SizeAt
    <2>4. PayloadLength(1) = n
        <3>1. CASE h[1] = 2
            <4>1. buffer[2] = h[2]
                BY <2>1, <3>1
            <4> QED  BY <1>1, <1>6, <2>3, <3>1, <4>1
        <3>2. CASE h[1] = 3
            <4>1. buffer[2] = h[2] /\ buffer[3] = h[3]
                BY <2>1, <3>2
            <4> QED  BY <1>1, <1>6, <2>3, <3>2, <4>1
        <3> QED  BY <1>1, <3>1, <3>2
    <2> QED  BY <1>2, <1>6, <2>3, <2>4
<1> DEFINE z == h[1]
<1>8. z \in {2, 3} /\ z = h[1] /\ size = z + n + 3 /\ z \in Nat /\ size \in Nat /\ n \in Nat /\ n = Len(p)
    BY <1>1, <1>2 DEF n
<1> HIDE DEF z
<1>9. CASE size <= Len(buffer)
    <2>0. Places(z, n, size, Len(buffer))
        <3>1. z >= 1
            BY <1>8
        <3> QED  BY <1>4, <1>8, <1>9, <3>1, PlacesOf
    <2> DEFINE m == z + 1
               e == z + n
               after == z + n + 1
               f == Footer(p)
    <2> HIDE DEF m, e, after, f
    <2>1. PayloadLength(1) = n /\ PacketSize(1) = size /\ PacketParsable(1)
        BY <1>1, <1>4, <1>6, <1>7, <1>8, <1>9 DEF PacketParsable
    <2>2. UnpackPayload(1) = p
        <3>1. ASSUME NEW k \in 1..n PROVE p[k] = buffer[z + k]
            <4>1. Frame(p)[z + k] = p[k]
                BY <1>2, <1>8
            <4> QED  BY <1>5, <2>0, <4>1 DEF Places
        <3>2. m \in Nat \ {0} /\ e \in Nat /\ m <= e + 1 /\ e <= Len(buffer) /\ Len(p) = e - m + 1
            <4>1. m \in Nat \ {0} /\ e \in Nat /\ m <= e + 1 /\ e <= Len(buffer) /\ n = e - m + 1
                <5>1. m \in Nat \ {0} /\ e \in Nat
                    BY <2>0 DEF m, e, Places
                <5>2. m = z + 1 /\ e = z + n
                    BY DEF m, e
                <5>3. e <= Len(buffer)
                    BY <2>0, <5>2 DEF Places
                <5>4. z \in Nat /\ n \in Nat
                    BY <1>8
                <5>5. m <= e + 1
                    BY <5>2, <5>4
                <5>6. n = e - m + 1
                    BY <5>2, <5>4
                <5> QED  BY <5>1, <5>3, <5>5, <5>6
            <4> QED  BY <1>8, <4>1
        <3>3. \A k \in 1..Len(p) : p[k] = buffer[m + k - 1]
            BY <1>8, <2>0, <3>1 DEF m, Places
        <3>4. SubSeq(buffer, m, e) = p
            BY <3>2, <3>3, SameSlice
        <3>5. UnpackPayload(1) = SubSeq(buffer, 1 + z, 1 + z + n - 1)
            BY <1>6, <1>8, <2>1 DEF UnpackPayload
        <3> QED  BY <2>0, <3>4, <3>5 DEF m, e, Places
    <2>3. ValidPayload(1)
        <3>1. ASSUME NEW k \in 1..3 PROVE f[k] = buffer[z + n + k]
            <4>1. Frame(p)[z + n + k] = f[k]
                BY <1>2, <1>8 DEF f
            <4> QED  BY <1>5, <2>0, <4>1 DEF Places
        <3>2. /\ after \in Nat \ {0} /\ size \in Nat /\ after <= size + 1 /\ size <= Len(buffer)
              /\ f \in Seq(Byte) /\ Len(f) = size - after + 1 /\ Len(f) = 3
            BY <1>3, <1>9, <2>0 DEF after, f, Places
        <3>3. \A k \in 1..Len(f) : f[k] = buffer[after + k - 1]
            BY <2>0, <3>1, <3>2 DEF after, Places
        <3>4. SubSeq(buffer, after, size) = f
            BY <3>2, <3>3, SameSlice
        <3>5. SubSeq(buffer, 1 + size - 3, 1 + size - 1) = Footer(p)
            BY <2>0, <3>4 DEF after, f, Places
        <3> QED  BY <2>1, <2>2, <3>5 DEF ValidPayload, FooterSize
    <2>4. Unpack = [payload |-> p, consumed |-> size]
        BY <1>1, <1>6, <2>1, <2>2, <2>3 DEF Unpack, UnpackAt
    <2> QED  BY <1>9, <2>4 DEF size
<1>10. CASE ~(size <= Len(buffer))
    <2>1. ~PacketParsable(1)
        BY <1>4, <1>6, <1>7, <1>8, <1>10 DEF PacketParsable
    <2>2. Unpack = Nothing(0)
        BY <1>1, <1>6, <2>1 DEF Unpack, UnpackAt
    <2> QED  BY <1>10, <2>2 DEF size
<1> QED  BY <1>9, <1>10


LEMMA NextIs ==
    ASSUME buffer \in Seq(Byte), NEW i \in 1..Len(buffer)
    PROVE  LET next == NextPossibleIndex(i) IN
           /\ next \in 0..Len(buffer)
           /\ next = 0 \/ next > i
           /\ next # 0 => buffer[next] \in {2, 3}
           /\ \A k \in i + 1..Len(buffer) : next = 0 \/ k < next => buffer[k] \notin {2, 3}
<1> DEFINE I == {k \in i + 1..Len(buffer) : buffer[k] \in {2, 3}}
           next == NextPossibleIndex(i)
<1>1. next = IF I = {} THEN 0 ELSE CHOOSE x \in I : \A y \in I : x <= y
    BY DEF NextPossibleIndex, SelectInSubSeq, Min
<1>2. CASE I = {}
    BY <1>1, <1>2
<1>3. CASE I # {}
    <2>1. I \in SUBSET Nat
        OBVIOUS
    <2>2. \E x \in I : \A y \in I : x <= y
        BY <1>3, <2>1, Least
    <2>3. next \in I /\ \A y \in I : next <= y
        BY <1>1, <1>3, <2>2
    <2> HIDE DEF next
    <2>4. next \in 0..Len(buffer) /\ next > i /\ buffer[next] \in {2, 3}
        BY <2>3
    <2>5. ASSUME NEW k \in i + 1..Len(buffer), k < next PROVE buffer[k] \notin {2, 3}
        BY <2>3, <2>4, <2>5
    <2>6. next # 0
        BY <2>4
    <2> QED  BY <2>4, <2>5, <2>6 DEF next
<1> QED  BY <1>2, <1>3

\* There is a whole packet at i.
WholeAt(i) == buffer[i] \in {2, 3} /\ PacketParsable(i) /\ ValidPayload(i)

LEMMA WholeIs ==
    ASSUME buffer \in Seq(Byte), NEW i \in 1..Len(buffer), buffer[i] \in {2, 3}, PacketParsable(i)
    PROVE  /\ UnpackPayload(i) \in Seq(Byte) /\ UnpackPayload(i) # None
           /\ Len(UnpackPayload(i)) = PayloadLength(i)
           /\ PacketSize(i) \in 1..Rest(i)
<1>1. /\ HeaderSize(i) \in {2, 3} /\ PayloadLength(i) \in Nat
      /\ PacketSize(i) = HeaderSize(i) + PayloadLength(i) + 3
    BY SizeAt DEF PacketParsable
<1>2. PacketSize(i) <= Len(buffer) - i + 1
    BY DEF PacketParsable, Rest
<1> DEFINE m == i + HeaderSize(i)
           e == i + HeaderSize(i) + PayloadLength(i) - 1
<1>3. /\ m \in Nat \ {0} /\ e \in Nat /\ m <= e + 1 /\ e <= Len(buffer)
      /\ e - m + 1 = PayloadLength(i)
    <2> DEFINE z == HeaderSize(i)
               n == PayloadLength(i)
    <2>1. z \in Nat /\ z >= 2 /\ n \in Nat /\ i \in Nat /\ i >= 1 /\ Len(buffer) \in Nat
        BY <1>1
    <2>2. z + n + 3 <= Len(buffer) - i + 1
        BY <1>1, <1>2
    <2> HIDE DEF z, n
    <2>3. i + z + n - 1 <= Len(buffer)
        BY <2>1, <2>2
    <2>4. i + z \in Nat \ {0} /\ i + z + n - 1 \in Nat /\ i + z <= i + z + n - 1 + 1
        BY <2>1
    <2>5. i + z + n - 1 - (i + z) + 1 = n
        BY <2>1
    <2>6. m = i + z /\ e = i + z + n - 1
        BY DEF m, e, z, n
    <2>7. /\ m \in Nat \ {0} /\ e \in Nat /\ m <= e + 1 /\ e <= Len(buffer)
          /\ e - m + 1 = n
        <3>1. m \in Nat \ {0} /\ e \in Nat /\ e <= Len(buffer)
            BY <2>3, <2>4, <2>6
        <3>2. m <= e + 1
            BY <2>1, <2>6
        <3>3. e - m + 1 = n
            BY <2>1, <2>6
        <3> QED  BY <3>1, <3>2, <3>3
    <2> QED  BY <2>7 DEF n
<1> HIDE DEF m, e
<1>4. SubSeq(buffer, m, e) \in Seq(Byte) /\ Len(SubSeq(buffer, m, e)) = e - m + 1
    BY <1>3, Slice
<1>5. UnpackPayload(i) = SubSeq(buffer, m, e)
    BY DEF UnpackPayload, m, e
<1>6. PacketSize(i) \in 1..Rest(i)
    BY <1>1, <1>2 DEF Rest
<1> QED  BY <1>3, <1>4, <1>5, <1>6, CodecAssumption

Results == [payload: Seq(Byte) \cup {None}, consumed: Nat]

LEMMA NothingType ==
    ASSUME NEW c \in Nat
    PROVE  Nothing(c) \in Results
BY DEF Nothing, Results

LEMMA RecoverType ==
    ASSUME buffer \in Seq(Byte), NEW i \in 1..Len(buffer), NEW r \in Results, NEW consume \in BOOLEAN
    PROVE  Recover(i, r, consume) \in Results
<1> DEFINE next == NextPossibleIndex(i)
<1>1. next \in 0..Len(buffer) /\ (next = 0 \/ next > i)
    BY NextIs
<1>2. Rest(i) \in Nat
    BY DEF Rest
<1> HIDE DEF next
<1>3. CASE next = 0
    BY <1>2, <1>3, NothingType DEF Recover, next
<1>4. CASE next # 0
    <2>1. next - i \in Nat
        BY <1>1, <1>4
    <2>2. [r EXCEPT !.consumed = @ + (next - i)] \in Results
        BY <2>1 DEF Results
    <2>3. Recover(i, r, consume) = Recovered(r, next - i, consume)
        BY <1>4 DEF Recover, next
    <2> QED  BY <2>2, <2>3 DEF Recovered
<1> QED  BY <1>3, <1>4

LEMMA UnpackType ==
    ASSUME buffer \in Seq(Byte), NEW i \in 1..Len(buffer), NEW r \in Results,
           NEW recovering \in BOOLEAN
    PROVE  UnpackAt(i, recovering, r) \in Results
<1>1. Recover(i, r, TRUE) \in Results /\ Recover(i, r, FALSE) \in Results /\ Nothing(0) \in Results
    BY RecoverType, NothingType
<1>2. CASE WholeAt(i)
    <2>1. UnpackPayload(i) \in Seq(Byte) /\ PacketSize(i) \in Nat
        BY <1>2, WholeIs DEF WholeAt, Rest
    <2>2. UnpackAt(i, recovering, r) = [payload |-> UnpackPayload(i), consumed |-> PacketSize(i)]
        BY <1>2 DEF WholeAt, UnpackAt
    <2> QED  BY <2>1, <2>2 DEF Results
<1>3. CASE ~WholeAt(i)
    BY <1>1, <1>3 DEF WholeAt, UnpackAt
<1> QED  BY <1>2, <1>3

\* Functions on 0..n of which each value follows from one further on, or the one at 0.
FurtherOn(f, from, n, zero, next, step) ==
    f[0] = zero /\ \A i \in from..n : f[i] = step[<<i, f[next[i]]>>]

LEMMA Backwards ==
    ASSUME NEW V, NEW zero \in V, NEW n \in Nat, NEW next \in [1..n -> 0..n],
           \A i \in 1..n : next[i] = 0 \/ next[i] > i,
           NEW step \in [(1..n) \X V -> V]
    PROVE  \E f \in [0..n -> V] : FurtherOn(f, 1, n, zero, next, step)
<1> DEFINE Short(m) == ~\E f \in [0..n -> V] : FurtherOn(f, n - m + 1, n, zero, next, step)
           short == {m \in 0..n : Short(m)}
<1>1. ~Short(0)
    <2> DEFINE g == [i \in 0..n |-> zero]
    <2>1. g \in [0..n -> V] /\ g[0] = zero /\ n - 0 + 1..n = {}
        OBVIOUS
    <2>2. FurtherOn(g, n - 0 + 1, n, zero, next, step)
        BY <2>1 DEF FurtherOn
    <2> QED  BY <2>1, <2>2
<1>2. ASSUME NEW m \in 1..n, ~Short(m - 1) PROVE ~Short(m)
    <2>1. PICK f \in [0..n -> V] : FurtherOn(f, n - (m - 1) + 1, n, zero, next, step)
        BY <1>2
    <2> DEFINE a == n - m + 1
               new == step[<<a, f[next[a]]>>]
               g == [f EXCEPT ![a] = new]
    <2>2. a \in 1..n /\ n - (m - 1) + 1 = a + 1
        OBVIOUS
    <2> HIDE DEF a
    <2>3. f[0] = zero /\ \A i \in a + 1..n : f[i] = step[<<i, f[next[i]]>>]
        BY <2>1, <2>2 DEF FurtherOn
    <2>4. next[a] \in 0..n /\ next[a] # a
        BY <2>2
    <2>5. new \in V
        BY <2>2, <2>4
    <2> HIDE DEF new
    <2>6. g \in [0..n -> V] /\ g[a] = new /\ \A i \in 0..n : i # a => g[i] = f[i]
        BY <2>2, <2>5
    <2> HIDE DEF g
    <2>7. g[0] = zero
        BY <2>2, <2>3, <2>6
    <2>8. g[a] = step[<<a, g[next[a]]>>]
        BY <2>4, <2>6 DEF new
    <2>9. ASSUME NEW i \in a + 1..n PROVE g[i] = step[<<i, g[next[i]]>>]
        <3>1. i \in 1..n /\ i # a /\ i \in 0..n
            BY <2>2
        <3>2. next[i] \in 0..n /\ next[i] # a
            <4>1. next[i] \in 0..n /\ (next[i] = 0 \/ next[i] > i)
                BY <3>1
            <4> QED  BY <2>2, <4>1
        <3> QED  BY <2>3, <2>6, <3>1, <3>2
    <2>10. \A i \in a..n : g[i] = step[<<i, g[next[i]]>>]
        <3>1. \A i \in a..n : i = a \/ i \in a + 1..n
            BY <2>2
        <3> QED  BY <2>8, <2>9, <3>1
    <2>11. FurtherOn(g, n - m + 1, n, zero, next, step)
        BY <2>7, <2>10 DEF FurtherOn, a
    <2> QED  BY <2>6, <2>11
<1> HIDE DEF Short
<1>3. short = {}
    <2>1. SUFFICES ASSUME short # {} PROVE FALSE
        OBVIOUS
    <2>2. short \in SUBSET Nat
        OBVIOUS
    <2>3. PICK m \in short : \A k \in short : m <= k
        BY <2>1, <2>2, Least
    <2>4. m \in 1..n /\ Short(m)
        BY <1>1, <2>3
    <2>5. m - 1 \notin short /\ m - 1 \in 0..n
        BY <2>3, <2>4
    <2> QED  BY <1>2, <2>4, <2>5
<1>4. ~Short(n)
    BY <1>3
<1>5. n - n + 1 = 1
    OBVIOUS
<1> QED  BY <1>4, <1>5 DEF Short


LEMMA RecoveryIs ==
    ASSUME buffer \in Seq(Byte)
    PROVE  /\ Recovery[0] = Nothing(0)
           /\ \A i \in 1..Len(buffer) :
                 Recovery[i] = UnpackAt(i, TRUE, Recovery[NextPossibleIndex(i)])
<1> DEFINE n == Len(buffer)
           next == [i \in 1..n |-> NextPossibleIndex(i)]
           step == [x \in (1..n) \X Results |-> UnpackAt(x[1], TRUE, x[2])]
           Body(f) == [i \in 0..n |->
              IF i = 0 THEN Nothing(0) ELSE UnpackAt(i, TRUE, f[NextPossibleIndex(i)])]
<1>1. n \in Nat /\ Nothing(0) \in Results
    BY NothingType
<1>2. \A i \in 1..n : NextPossibleIndex(i) \in 0..n /\ (NextPossibleIndex(i) = 0 \/ NextPossibleIndex(i) > i)
    BY NextIs
<1>3. next \in [1..n -> 0..n] /\ \A i \in 1..n : next[i] = 0 \/ next[i] > i
    BY <1>2
<1>4. step \in [(1..n) \X Results -> Results]
    BY UnpackType
<1>5. \A i \in 1..n, r \in Results : step[<<i, r>>] = UnpackAt(i, TRUE, r)
    OBVIOUS
<1>6. \A i \in 1..n : next[i] = NextPossibleIndex(i)
    OBVIOUS
<1> HIDE DEF next, step
<1>7. PICK f \in [0..n -> Results] : FurtherOn(f, 1, n, Nothing(0), next, step)
    BY <1>1, <1>3, <1>4, Backwards
<1>8. f = Body(f)
    <2>1. ASSUME NEW i \in 0..n
          PROVE f[i] = IF i = 0 THEN Nothing(0) ELSE UnpackAt(i, TRUE, f[NextPossibleIndex(i)])
        <3>1. CASE i = 0
            BY <1>7, <3>1 DEF FurtherOn
        <3>2. CASE i # 0
            <4>1. i \in 1..n
                BY <1>1, <3>2
            <4>2. f[next[i]] \in Results
                BY <1>3, <1>7, <4>1
            <4>3. f[i] = step[<<i, f[next[i]]>>]
                BY <1>7, <4>1 DEF FurtherOn
            <4> QED  BY <1>5, <1>6, <3>2, <4>1, <4>2, <4>3
        <3> QED  BY <3>1, <3>2
    <2> QED  BY <1>7, <2>1
<1>9. Recovery = CHOOSE g : g = Body(g)
    BY DEF Recovery
<1>10. Recovery = Body(Recovery)
    <2> HIDE DEF Body
    <2> QED  BY <1>8, <1>9
<1>11. ASSUME NEW i \in 1..n
       PROVE  Recovery[i] = UnpackAt(i, TRUE, Recovery[NextPossibleIndex(i)])
    <2>1. i \in 0..n /\ i # 0
        BY <1>1
    <2>2. Body(Recovery)[i] = UnpackAt(i, TRUE, Recovery[NextPossibleIndex(i)])
        BY <2>1
    <2> QED  BY <1>10, <2>2
<1>12. Recovery[0] = Nothing(0)
    <2>1. 0 \in 0..n
        BY <1>1
    <2>2. Body(Recovery)[0] = Nothing(0)
        BY <2>1
    <2> QED  BY <1>10, <2>2
<1> QED  BY <1>11, <1>12


\* What _unpack should make of the buffer from i on, in recovery mode: the first
\* whole packet, with everything up to its end, or nothing.
FirstWhole(i, j) ==
    j \in i..Len(buffer) /\ WholeAt(j) /\ \A k \in i..j - 1 : ~WholeAt(k)

Found(i, r) ==
    \E j \in i..Len(buffer) :
       /\ FirstWhole(i, j)
       /\ r = [payload |-> UnpackPayload(j), consumed |-> j - i + PacketSize(j)]

NotFound(i, r) ==
    /\ \A k \in i..Len(buffer) : ~WholeAt(k)
    /\ \E c \in 0..Rest(i) : r = Nothing(c)

Right(i, r) == Found(i, r) \/ NotFound(i, r)

\* If that is right behind i, then so is it at i.
LEMMA RecoverRight ==
    ASSUME buffer \in Seq(Byte), NEW i \in 1..Len(buffer), ~WholeAt(i),
           NEW r, NextPossibleIndex(i) # 0 => Right(NextPossibleIndex(i), r),
           NEW consume \in BOOLEAN
    PROVE  /\ Right(i, Recover(i, r, consume))
           /\ consume => Recover(i, r, consume).consumed >= 1
<1> DEFINE next == NextPossibleIndex(i)
           len == Len(buffer)
           result == Recover(i, r, consume)
<1>1. /\ next \in 0..len
      /\ next = 0 \/ next > i
      /\ \A k \in i + 1..len : next = 0 \/ k < next => ~WholeAt(k)
    BY NextIs DEF WholeAt
<1>2. len \in Nat /\ i \in Nat /\ i >= 1 /\ i <= len
    OBVIOUS
<1>3. Rest(i) = len - i + 1 /\ Rest(next) = len - next + 1
    BY DEF Rest
<1>4. /\ next = 0 => result = Nothing(IF consume THEN Rest(i) ELSE 0)
      /\ next # 0 => result = Recovered(r, next - i, consume)
    BY DEF Recover
<1>5. next # 0 => Right(next, r)
    OBVIOUS
<1> HIDE DEF next, len, result
<1>6. CASE next = 0
    <2>1. ASSUME NEW k \in i..len PROVE ~WholeAt(k)
        <3>1. k = i \/ k \in i + 1..len
            BY <1>2
        <3> QED  BY <1>1, <1>6, <3>1
    <2>2. CASE consume
        <3>1. result = Nothing(Rest(i)) /\ Rest(i) \in 0..Rest(i) /\ Rest(i) >= 1
            BY <1>2, <1>3, <1>4, <1>6, <2>2
        <3>2. result.consumed = Rest(i)
            BY <3>1 DEF Nothing
        <3> QED  BY <2>1, <3>1, <3>2 DEF Right, NotFound, result, len
    <2>3. CASE ~consume
        <3>1. result = Nothing(0) /\ 0 \in 0..Rest(i)
            BY <1>2, <1>3, <1>4, <1>6, <2>3
        <3> QED  BY <2>1, <2>3, <3>1 DEF Right, NotFound, result, len
    <2> QED  BY <2>2, <2>3
<1>7. CASE next # 0
    <2>1. next \in Nat /\ next > i /\ next <= len
        BY <1>1, <1>7
    <2>2. ASSUME NEW k \in i..len, k < next PROVE ~WholeAt(k)
        <3>1. k = i \/ k \in i + 1..len
            BY <1>2
        <3> QED  BY <1>1, <2>2, <3>1
    <2>3. CASE Found(next, r)
        <3>1. PICK j \in next..len :
                 /\ FirstWhole(next, j)
                 /\ r = [payload |-> UnpackPayload(j), consumed |-> j - next + PacketSize(j)]
            BY <2>3 DEF Found, len
        <3>2. j \in Nat /\ j >= next /\ j <= len /\ WholeAt(j)
            BY <2>1, <3>1 DEF FirstWhole
        <3>3. j \in 1..len /\ j \in i..len
            BY <1>2, <2>1, <3>2
        <3>4. UnpackPayload(j) # None /\ PacketSize(j) \in 1..Rest(j)
            BY <3>2, <3>3, WholeIs DEF WholeAt, len
        <3>5. PacketSize(j) \in Nat /\ PacketSize(j) >= 1
            BY <1>2, <3>2, <3>4 DEF Rest, len
        <3>6. result = [r EXCEPT !.consumed = @ + (next - i)]
            BY <1>4, <1>7, <3>1, <3>4 DEF Recovered
        <3>7. j - next + PacketSize(j) + (next - i) = j - i + PacketSize(j)
            BY <1>2, <2>1, <3>2, <3>5
        <3>8. result = [payload |-> UnpackPayload(j), consumed |-> j - i + PacketSize(j)]
            BY <3>1, <3>6, <3>7
        <3>9. FirstWhole(i, j)
            <4>1. ASSUME NEW k \in i..j - 1 PROVE ~WholeAt(k)
                <5>1. k \in i..len
                    BY <1>2, <3>2
                <5>2. k < next \/ k \in next..j - 1
                    BY <1>2, <2>1, <3>2
                <5> QED  BY <2>2, <3>1, <5>1, <5>2 DEF FirstWhole
            <4> QED  BY <3>2, <3>3, <4>1 DEF FirstWhole, len
        <3>10. result.consumed >= 1
            <4>1. j - i >= 0 /\ j - i \in Nat
                BY <1>2, <2>1, <3>2
            <4> QED  BY <3>5, <3>8, <4>1
        <3> QED  BY <3>3, <3>8, <3>9, <3>10 DEF Right, Found, result, len
    <2>4. CASE NotFound(next, r)
        <3>1. PICK c \in 0..Rest(next) : r = Nothing(c)
            BY <2>4 DEF NotFound
        <3>2. c \in Nat /\ c <= len - next + 1
            BY <1>2, <1>3, <2>1, <3>1
        <3>3. ASSUME NEW k \in i..len PROVE ~WholeAt(k)
            <4>1. k < next \/ k \in next..len
                BY <1>2, <2>1
            <4> QED  BY <2>2, <2>4, <4>1 DEF NotFound, len
        <3>4. CASE consume
            <4>1. result = Nothing(c + (next - i))
                BY <1>4, <1>7, <3>1, <3>4 DEF Recovered, Nothing
            <4>2. c + (next - i) \in 0..Rest(i) /\ c + (next - i) >= 1
                BY <1>2, <1>3, <2>1, <3>2
            <4>3. result.consumed = c + (next - i)
                BY <4>1 DEF Nothing
            <4> QED  BY <3>3, <4>1, <4>2, <4>3 DEF Right, NotFound, result, len
        <3>5. CASE ~consume
            <4>1. result = Nothing(c)
                BY <1>4, <1>7, <3>1, <3>5 DEF Recovered, Nothing
            <4>2. c \in 0..Rest(i)
                BY <1>2, <1>3, <2>1, <3>2
            <4> QED  BY <3>3, <3>5, <4>1, <4>2 DEF Right, NotFound, result, len
        <3> QED  BY <3>4, <3>5
    <2> QED  BY <1>5, <1>7, <2>3, <2>4 DEF Right
<1> QED  BY <1>6, <1>7


\* Not a whole packet at i: _unpack goes on to _recovery_recurse, unless it waits.
LEMMA UnpackAtIs ==
    ASSUME NEW i, NEW recovering, NEW r
    PROVE  /\ WholeAt(i) => UnpackAt(i, recovering, r) =
                [payload |-> UnpackPayload(i), consumed |-> PacketSize(i)]
           /\ ~WholeAt(i) /\ (buffer[i] \notin {2, 3} \/ PacketParsable(i)) =>
                 UnpackAt(i, recovering, r) = Recover(i, r, TRUE)
           /\ buffer[i] \in {2, 3} /\ ~PacketParsable(i) =>
                 UnpackAt(i, recovering, r) = IF recovering THEN Recover(i, r, FALSE) ELSE Nothing(0)
BY DEF UnpackAt, WholeAt

LEMMA WholeRight ==
    ASSUME buffer \in Seq(Byte), NEW i \in 1..Len(buffer), WholeAt(i)
    PROVE  /\ Right(i, [payload |-> UnpackPayload(i), consumed |-> PacketSize(i)])
           /\ PacketSize(i) \in Nat /\ PacketSize(i) >= 1
<1>1. PacketSize(i) \in 1..Rest(i) /\ Rest(i) \in Int
    BY WholeIs DEF WholeAt, Rest
<1>2. PacketSize(i) \in Nat /\ PacketSize(i) >= 1
    BY <1>1
<1>3. i - i + PacketSize(i) = PacketSize(i) /\ i \in i..Len(buffer) /\ i..i - 1 = {}
    BY <1>2
<1>4. FirstWhole(i, i)
    BY <1>3 DEF FirstWhole
<1> QED  BY <1>2, <1>3, <1>4 DEF Right, Found

LEMMA RecoveryRight ==
    ASSUME buffer \in Seq(Byte), NEW i \in 1..Len(buffer)
    PROVE  Right(i, Recovery[i])
<1> DEFINE len == Len(buffer)
           wrong == {len - k : k \in {k \in 1..len : ~Right(k, Recovery[k])}}
<1>1. len \in Nat
    OBVIOUS
<1>2. SUFFICES ASSUME ~Right(i, Recovery[i]) PROVE FALSE
    OBVIOUS
<1>3. wrong \in SUBSET Nat
    BY <1>1
<1>4. wrong # {}
    BY <1>2
<1>5. PICK x \in wrong : \A y \in wrong : x <= y
    BY <1>3, <1>4, Least
<1>6. PICK k \in 1..len : x = len - k /\ ~Right(k, Recovery[k])
    BY <1>5
<1>7. ASSUME NEW m \in k + 1..len PROVE Right(m, Recovery[m])
    <2>1. SUFFICES ASSUME ~Right(m, Recovery[m]) PROVE FALSE
        OBVIOUS
    <2>2. m \in 1..len
        BY <1>6
    <2>3. len - m \in wrong
        BY <2>1, <2>2
    <2>4. x <= len - m
        BY <1>5, <2>3
    <2> QED  BY <1>1, <1>6, <2>2, <2>4
<1> DEFINE next == NextPossibleIndex(k)
           r == Recovery[next]
<1>8. next # 0 => Right(next, r)
    <2>1. next \in 0..len /\ (next = 0 \/ next > k)
        BY NextIs
    <2>2. next # 0 => next \in k + 1..len
        BY <1>1, <2>1
    <2> QED  BY <1>7, <2>2
<1>9. Recovery[k] = UnpackAt(k, TRUE, r)
    BY RecoveryIs
<1> HIDE DEF r
<1>10. CASE WholeAt(k)
    BY <1>6, <1>9, <1>10, UnpackAtIs, WholeRight
<1>11. CASE ~WholeAt(k)
    <2>1. Right(k, Recover(k, r, TRUE)) /\ Right(k, Recover(k, r, FALSE))
        BY <1>8, <1>11, RecoverRight
    <2>2. Recovery[k] \in {Recover(k, r, TRUE), Recover(k, r, FALSE)}
        BY <1>9, <1>11, UnpackAtIs
    <2> QED  BY <1>6, <2>1, <2>2
<1> QED  BY <1>10, <1>11

\* unframe waits for a packet the buffer begins with, or does what it should and
\* consumes something.
LEMMA UnpackRight ==
    ASSUME buffer \in Seq(Byte), buffer # << >>
    PROVE  IF Incomplete THEN Unpack = Nothing(0)
           ELSE Right(1, Unpack) /\ Unpack.consumed >= 1
<1> DEFINE next == NextPossibleIndex(1)
           r == Recovery[next]
<1>1. 1 \in 1..Len(buffer)
    OBVIOUS
<1>2. Unpack = UnpackAt(1, FALSE, r)
    BY DEF Unpack
<1>3. next # 0 => Right(next, r)
    <2>1. next \in 0..Len(buffer)
        BY <1>1, NextIs
    <2>2. next # 0 => next \in 1..Len(buffer)
        BY <2>1
    <2> QED  BY <2>2, RecoveryRight
<1> HIDE DEF r
<1>4. CASE Incomplete
    BY <1>2, <1>4, UnpackAtIs DEF Incomplete
<1>5. CASE ~Incomplete /\ WholeAt(1)
    <2>1. Unpack = [payload |-> UnpackPayload(1), consumed |-> PacketSize(1)]
        BY <1>2, <1>5, UnpackAtIs
    <2> QED  BY <1>1, <1>5, <2>1, WholeRight
<1>6. CASE ~Incomplete /\ ~WholeAt(1)
    <2>1. Unpack = Recover(1, r, TRUE)
        BY <1>2, <1>6, UnpackAtIs DEF Incomplete
    <2> QED  BY <1>1, <1>3, <1>6, <2>1, RecoverRight
<1> QED  BY <1>4, <1>5, <1>6


-----------------------------------------------------------------------------
(* The first whole packet.                                                  *)

Agrees(s, t) == Len(s) <= Len(t) /\ \A x \in 1..Len(s) : s[x] = t[x]

LEMMA PrefixIs ==
    ASSUME NEW S, NEW s \in Seq(S), NEW t \in Seq(S)
    PROVE  IsPrefix(s, t) <=> Agrees(s, t)
<1>1. CASE Len(s) <= Len(t)
    <2>1. Len(s) \in Nat /\ Len(t) \in Nat
        OBVIOUS
    <2>2. SubSeq(s, 1, Len(s)) = s
        BY SubSeqFull
    <2> DEFINE u == SubSeq(t, 1, Len(s))
    <2>3. u \in Seq(S) /\ Len(u) = Len(s) /\ \A x \in 1..Len(s) : u[x] = t[x]
        <3>1. 1 <= Len(s) + 1 /\ Len(s) - 1 + 1 = Len(s) /\ \A x \in 1..Len(s) : 1 + x - 1 = x
            BY <2>1
        <3> QED  BY <1>1, <2>1, <3>1, Slice
    <2> HIDE DEF u
    <2>4. s = u <=> \A x \in 1..Len(s) : s[x] = t[x]
        <3>1. ASSUME \A x \in 1..Len(s) : s[x] = t[x] PROVE s = u
            BY <2>3, <3>1, SeqEqual
        <3> QED  BY <2>3, <3>1
    <2> QED  BY <1>1, <2>2, <2>4 DEF IsPrefix, Agrees, u
<1>2. CASE ~(Len(s) <= Len(t))
    BY <1>2 DEF IsPrefix, Agrees
<1> QED  BY <1>1, <1>2

LEMMA DivUnique ==
    ASSUME NEW b \in Nat \ {0}, NEW q \in Nat, NEW r \in 0..b - 1
    PROVE  (b * q + r) \div b = q /\ (b * q + r) % b = r
OBVIOUS

\* The header of n bytes of payload, in the form that the start byte announces.
HeaderOf(start, n) == IF start = 2 THEN <<2, n>> ELSE <<3, n \div ByteCount, n % ByteCount>>

LEMMA HeaderOfIs ==
    ASSUME NEW start \in {2, 3}, NEW n \in Nat
    PROVE  /\ HeaderOf(start, n) \in Seq(Int) /\ Len(HeaderOf(start, n)) = start
           /\ HeaderOf(start, n)[1] = start
           /\ start = 2 => HeaderOf(start, n)[2] = n
           /\ start = 3 => /\ HeaderOf(start, n)[2] = n \div ByteCount
                           /\ HeaderOf(start, n)[3] = n % ByteCount
           /\ HeaderOf(start, n) = IF start = 2 THEN <<2, n>> ELSE <<3>> \o TwoBytes(n)
<1>1. n \div ByteCount \in Int /\ n % ByteCount \in Int
    BY ByteCountType, DivMod
<1>2. <<3>> \o TwoBytes(n) = <<3, n \div ByteCount, n % ByteCount>>
    BY <1>1, OneThenTwo DEF TwoBytes
<1>3. CASE start = 2
    BY <1>3 DEF HeaderOf
<1>4. CASE start = 3
    <2>1. HeaderOf(start, n) = <<3, n \div ByteCount, n % ByteCount>>
        BY <1>4 DEF HeaderOf
    <2>2. <<3, n \div ByteCount, n % ByteCount>> \in Seq(Int)
        BY <1>1
    <2>3. /\ Len(HeaderOf(start, n)) = 3 /\ HeaderOf(start, n)[1] = 3
          /\ HeaderOf(start, n)[2] = n \div ByteCount
          /\ HeaderOf(start, n)[3] = n % ByteCount
        BY <2>1
    <2> DEFINE hd == HeaderOf(start, n)
    <2>4. /\ hd \in Seq(Int) /\ Len(hd) = 3 /\ hd[1] = 3
          /\ hd[2] = n \div ByteCount /\ hd[3] = n % ByteCount
          /\ hd = <<3>> \o TwoBytes(n)
        BY <1>2, <2>1, <2>2, <2>3
    <2> HIDE DEF hd
    <2>5. /\ hd \in Seq(Int) /\ Len(hd) = start /\ hd[1] = start
          /\ start = 2 => hd[2] = n
          /\ start = 3 => hd[2] = n \div ByteCount /\ hd[3] = n % ByteCount
          /\ hd = IF start = 2 THEN <<2, n>> ELSE <<3>> \o TwoBytes(n)
        BY <1>4, <2>4
    <2> QED  BY <2>5 DEF hd
<1> QED  BY <1>3, <1>4

LEMMA TailFrom ==
    ASSUME buffer \in Seq(Byte), NEW m \in 1..Len(buffer) + 1
    PROVE  /\ SubSeq(buffer, m, Len(buffer)) \in Seq(Byte)
           /\ SubSeq(buffer, m, Len(buffer)) \in Seq(Int)
           /\ Len(SubSeq(buffer, m, Len(buffer))) = Len(buffer) - m + 1
           /\ \A k \in 1..Len(buffer) - m + 1 :
                 SubSeq(buffer, m, Len(buffer))[k] = buffer[m + k - 1]
<1>1. Len(buffer) \in Nat /\ m \in Nat \ {0} /\ m <= Len(buffer) + 1 /\ Len(buffer) <= Len(buffer)
    OBVIOUS
<1>2. Byte \subseteq Int
    BY ByteCountType DEF Byte
<1>3. buffer \in Seq(Int)
    BY <1>2, SeqMonotonic
<1>4. SubSeq(buffer, m, Len(buffer)) \in Seq(Int)
    BY <1>1, <1>3, Slice
<1> QED  BY <1>1, <1>4, Slice

\* The buffer has this header at i if and only if it announces such a payload.
LEMMA HeaderMatches ==
    ASSUME buffer \in Seq(Byte), NEW i \in 1..Len(buffer), NEW n \in Nat, NEW start \in {2, 3}
    PROVE  IsPrefix(HeaderOf(start, n), SubSeq(buffer, i, Len(buffer))) <=>
              start = buffer[i] /\ Rest(i) >= HeaderSize(i) /\ PayloadLength(i) = n
<1> DEFINE h == HeaderOf(start, n)
           t == SubSeq(buffer, i, Len(buffer))
           len == Len(buffer)
<1>0. len \in Nat /\ i \in Nat /\ i >= 1 /\ i <= len /\ Rest(i) = len - i + 1 /\ HeaderSize(i) = buffer[i]
    BY DEF Rest, HeaderSize
<1>1. /\ t \in Seq(Int) /\ Len(t) = len - i + 1
      /\ \A k \in 1..len - i + 1 : t[k] = buffer[i + k - 1]
    <2>1. i \in 1..len + 1
        BY <1>0
    <2> QED  BY <2>1, TailFrom
<1>2. /\ h \in Seq(Int) /\ Len(h) = start /\ h[1] = start
      /\ start = 2 => h[2] = n
      /\ start = 3 => h[2] = n \div ByteCount /\ h[3] = n % ByteCount
    BY HeaderOfIs
<1> HIDE DEF h, t, len
<1>3. IsPrefix(h, t) <=> start <= len - i + 1 /\ \A k \in 1..start : h[k] = t[k]
    <2>1. IsPrefix(h, t) <=> Len(h) <= Len(t) /\ \A k \in 1..Len(h) : h[k] = t[k]
        <3>1. h \in Seq(Int) /\ t \in Seq(Int)
            BY <1>1, <1>2
        <3>2. IsPrefix(h, t) <=> Agrees(h, t)
            BY <3>1, PrefixIs
        <3> QED  BY <3>2 DEF Agrees
    <2> QED  BY <1>1, <1>2, <2>1
<1>4. start <= len - i + 1 =>
         /\ t[1] = buffer[i] /\ t[2] = buffer[i + 1]
         /\ start = 3 => t[3] = buffer[i + 2]
    <2>1. i + 1 - 1 = i /\ i + 2 - 1 = i + 1 /\ i + 3 - 1 = i + 2
        BY <1>0
    <2>2. start <= len - i + 1 => 1 \in 1..len - i + 1 /\ 2 \in 1..len - i + 1
                                  /\ (start = 3 => 3 \in 1..len - i + 1)
        BY <1>0
    <2> QED  BY <1>1, <2>1, <2>2
<1>5. /\ start = 2 => 1..start = {1, 2}
      /\ start = 3 => 1..start = {1, 2, 3}
    OBVIOUS
<1>6. start = 2 \/ start = 3
    OBVIOUS
<1>7. IsPrefix(h, t) <=>
         /\ start <= len - i + 1 /\ start = buffer[i] /\ h[2] = buffer[i + 1]
         /\ start = 3 => h[3] = buffer[i + 2]
    BY <1>2, <1>3, <1>4, <1>5, <1>6
<1>8. CASE start = 2
    <2>1. buffer[i] = 2 => PayloadLength(i) = buffer[i + 1]
        BY DEF PayloadLength
    <2> QED  BY <1>0, <1>2, <1>7, <1>8, <2>1 DEF h, t, len
<1>9. CASE start = 3
    <2>1. buffer[i] = 3 => PayloadLength(i) = ByteCount * buffer[i + 1] + buffer[i + 2]
        BY DEF PayloadLength
    <2>2. ASSUME start <= len - i + 1
          PROVE  h[2] = buffer[i + 1] /\ h[3] = buffer[i + 2] <=>
                    n = ByteCount * buffer[i + 1] + buffer[i + 2]
        <3>1. buffer[i + 1] \in Byte /\ buffer[i + 2] \in Byte
            BY <1>0, <1>9, <2>2 DEF len
        <3>2. buffer[i + 1] \in Nat /\ buffer[i + 2] \in 0..ByteCount - 1 /\ ByteCount \in Nat \ {0} /\ n \in Int
            BY <3>1, ByteCountType DEF Byte
        <3>3. n = ByteCount * (n \div ByteCount) + (n % ByteCount)
            BY <3>2, DivMod
        <3>4. /\ (ByteCount * buffer[i + 1] + buffer[i + 2]) \div ByteCount = buffer[i + 1]
              /\ (ByteCount * buffer[i + 1] + buffer[i + 2]) % ByteCount = buffer[i + 2]
            BY <3>2, DivUnique
        <3>5. h[2] = n \div ByteCount /\ h[3] = n % ByteCount
            BY <1>2, <1>9
        <3>6. ASSUME h[2] = buffer[i + 1], h[3] = buffer[i + 2]
              PROVE  n = ByteCount * buffer[i + 1] + buffer[i + 2]
            BY <3>3, <3>5, <3>6
        <3>7. ASSUME n = ByteCount * buffer[i + 1] + buffer[i + 2]
              PROVE  h[2] = buffer[i + 1] /\ h[3] = buffer[i + 2]
            BY <3>4, <3>5, <3>7
        <3> QED  BY <3>6, <3>7
    <2>3. start = buffer[i] => (Rest(i) >= HeaderSize(i) <=> start <= len - i + 1)
        BY <1>0
    <2> QED  BY <1>7, <1>9, <2>1, <2>2, <2>3 DEF h, t, len
<1> QED  BY <1>8, <1>9


Follows(u, s, t) ==
    /\ Len(u) = Len(s) + Len(t)
    /\ \A k \in 1..Len(s) : u[k] = s[k]
    /\ \A k \in 1..Len(t) : u[Len(s) + k] = t[k]

LEMMA TwoParts ==
    ASSUME NEW S, NEW s \in Seq(S), NEW t \in Seq(S)
    PROVE  s \o t \in Seq(S) /\ Follows(s \o t, s, t)
<1> DEFINE u == s \o t
<1>1. /\ u \in Seq(S) /\ Len(u) = Len(s) + Len(t)
      /\ \A k \in 1..Len(s) : u[k] = s[k]
      /\ \A k \in 1..Len(t) : u[Len(s) + k] = t[k]
    OBVIOUS
<1> HIDE DEF u
<1>2. u \in Seq(S) /\ Follows(u, s, t)
    BY <1>1 DEF Follows
<1> QED  BY <1>2 DEF u

\* Behind a header there is this payload with its footer.
LEMMA BodyMatches ==
    ASSUME buffer \in Seq(Byte), NEW i \in 1..Len(buffer), buffer[i] \in {2, 3},
           Rest(i) >= HeaderSize(i), NEW p \in Seq(Byte), PayloadLength(i) = Len(p)
    PROVE  IsPrefix(p \o Footer(p), SubSeq(buffer, i + HeaderSize(i), Len(buffer))) <=>
              PacketParsable(i) /\ ValidPayload(i) /\ UnpackPayload(i) = p
<1> DEFINE f == Footer(p)
           len == Len(buffer)
           n == Len(p)
           m == i + HeaderSize(i)
           t == SubSeq(buffer, m, len)
           whole == p \o f
           size == PacketSize(i)
<1>1. f \in Seq(Byte) /\ Len(f) = 3
    BY FooterIs
<1>2. HeaderSize(i) \in {2, 3} /\ size = HeaderSize(i) + n + 3 /\ HeaderSize(i) = buffer[i]
    BY SizeAt DEF HeaderSize
<1>3. n \in Nat /\ len \in Nat /\ i \in Nat /\ i >= 1 /\ i <= len
    OBVIOUS
<1>4. Rest(i) = len - i + 1
    BY DEF Rest
<1>5. m \in Nat \ {0} /\ m \in 1..len + 1
    BY <1>2, <1>3, <1>4
<1>6. t \in Seq(Byte) /\ Len(t) = len - m + 1 /\ \A k \in 1..len - m + 1 : t[k] = buffer[m + k - 1]
    BY <1>5, TailFrom
<1>7. whole \in Seq(Byte) /\ Follows(whole, p, f)
    <2> HIDE DEF f
    <2> QED  BY <1>1, TwoParts
<1> HIDE DEF whole
<1>8. /\ Len(whole) = n + 3
      /\ \A k \in 1..n : whole[k] = p[k]
      /\ \A k \in 1..3 : whole[n + k] = f[k]
    <2> HIDE DEF f
    <2> QED  BY <1>1, <1>7 DEF Follows
<1>9. n = Len(p) /\ m = i + HeaderSize(i) /\ PayloadLength(i) = n
    OBVIOUS
<1> HIDE DEF f, len, n, m, t, whole, size
<1>10. IsPrefix(whole, t) <=> n + 3 <= len - m + 1 /\ \A k \in 1..n + 3 : whole[k] = t[k]
    <2>1. IsPrefix(whole, t) <=> Agrees(whole, t)
        BY <1>6, <1>7, PrefixIs
    <2> QED  BY <1>6, <1>7, <1>8, <2>1 DEF Agrees
<1>11. PacketParsable(i) <=> n + 3 <= len - m + 1
    <2>1. PacketParsable(i) <=> len - i + 1 >= HeaderSize(i) + n + 3
        BY <1>2, <1>4 DEF PacketParsable, size
    <2>2. HeaderSize(i) \in Nat
        BY <1>2
    <2> QED  BY <1>3, <1>9, <2>1, <2>2
<1>12. ASSUME n + 3 <= len - m + 1
       PROVE  (\A k \in 1..n + 3 : whole[k] = t[k]) <=> ValidPayload(i) /\ UnpackPayload(i) = p
    <2> DEFINE e == m + n - 1
               after == m + n
               last == m + n + 2
               payload == SubSeq(buffer, m, e)
               footer == SubSeq(buffer, after, last)
    <2>1. /\ e \in Nat /\ m <= e + 1 /\ e <= len /\ e - m + 1 = n
          /\ after \in Nat \ {0} /\ last \in Nat /\ after <= last + 1 /\ last <= len
          /\ last - after + 1 = 3
        BY <1>3, <1>5, <1>12
    <2>2. /\ payload \in Seq(Byte) /\ Len(payload) = n
          /\ \A k \in 1..n : payload[k] = buffer[m + k - 1]
        <3> HIDE DEF e
        <3>1. /\ payload \in Seq(Byte) /\ Len(payload) = e - m + 1
              /\ \A k \in 1..e - m + 1 : payload[k] = buffer[m + k - 1]
            <4>1. m \in Nat \ {0} /\ e \in Nat /\ m <= e + 1 /\ e <= Len(buffer)
                BY <1>5, <2>1 DEF len
            <4> QED  BY <4>1, Slice
        <3> QED  BY <2>1, <3>1
    <2>3. /\ footer \in Seq(Byte) /\ Len(footer) = 3
          /\ \A k \in 1..3 : footer[k] = buffer[after + k - 1]
        <3> HIDE DEF after, last
        <3>1. /\ footer \in Seq(Byte) /\ Len(footer) = last - after + 1
              /\ \A k \in 1..last - after + 1 : footer[k] = buffer[after + k - 1]
            BY <2>1, Slice DEF len
        <3> QED  BY <2>1, <3>1
    <2>4. UnpackPayload(i) = payload
        BY <1>9 DEF UnpackPayload
    <2>5. ValidPayload(i) <=> footer = Footer(payload)
        <3>1. HeaderSize(i) \in Nat
            BY <1>2
        <3>2. i + size - 3 = after /\ i + size - 1 = last
            <4> DEFINE z == HeaderSize(i)
            <4>1. size = z + n + 3 /\ m = i + z
                BY <1>2, <1>9
            <4>2. z \in Nat /\ n \in Nat /\ i \in Nat
                BY <1>3, <3>1
            <4> HIDE DEF z
            <4>3. i + size - 3 = m + n
                BY <4>1, <4>2
            <4>4. i + size - 1 = m + n + 2
                BY <4>1, <4>2
            <4> QED  BY <4>3, <4>4
        <3> HIDE DEF after, last, payload
        <3>3. ValidPayload(i) <=> SubSeq(buffer, i + size - 3, i + size - 1) = Footer(payload)
            BY <2>4 DEF ValidPayload, FooterSize, size
        <3> QED  BY <3>2, <3>3
    <2> HIDE DEF e, last, payload, footer
    <2>6. /\ \A k \in 1..n : k \in 1..len - m + 1
          /\ \A k \in 1..3 : n + k \in 1..len - m + 1 /\ m + (n + k) - 1 = after + k - 1
        BY <1>3, <1>5, <1>12
    <2> HIDE DEF after
    <2>7. /\ \A k \in 1..n : t[k] = payload[k]
          /\ \A k \in 1..3 : t[n + k] = footer[k]
        BY <1>6, <2>2, <2>3, <2>6
    <2>8. (\A k \in 1..n + 3 : whole[k] = t[k]) <=>
             (\A k \in 1..n : p[k] = payload[k]) /\ (\A k \in 1..3 : f[k] = footer[k])
        <3>1. \A k \in 1..n + 3 : k \in 1..n \/ \E x \in 1..3 : k = n + x
            <4>1. ASSUME NEW k \in 1..n + 3, k > n PROVE \E x \in 1..3 : k = n + x
                <5>1. k - n \in 1..3 /\ k = n + (k - n)
                    BY <1>3, <4>1
                <5> QED  BY <5>1
            <4> QED  BY <1>3, <4>1
        <3>2. /\ \A k \in 1..n : k \in 1..n + 3
              /\ \A k \in 1..3 : n + k \in 1..n + 3
            BY <1>3
        <3> QED  BY <1>8, <2>7, <3>1, <3>2
    <2>9. (\A k \in 1..n : p[k] = payload[k]) <=> p = payload
        BY <1>9, <2>2, SeqEqual
    <2>10. (\A k \in 1..3 : f[k] = footer[k]) <=> f = footer
        BY <1>1, <2>3, SeqEqual
    <2> QED  BY <2>4, <2>5, <2>8, <2>9, <2>10 DEF f
<1> QED  BY <1>10, <1>11, <1>12 DEF whole, t, f, m, len

LEMMA PayloadsAtIs ==
    ASSUME buffer \in Seq(Byte), NEW i \in 1..Len(buffer), buffer[i] \in {2, 3}
    PROVE  PayloadsAt(i) = IF WholeAt(i) THEN {UnpackPayload(i)} ELSE {}
<1> DEFINE Slices == {SubSeq(buffer, j, k) : j \in i + 2..i + 3, k \in i + 1..Len(buffer)}
           Rest2(header) == SubSeq(buffer, i + Len(header), Len(buffer))
           Fits(p) == \E header \in {<<2, Len(p)>>, <<3>> \o TwoBytes(Len(p))} :
                         /\ IsPrefix(header, SubSeq(buffer, i, Len(buffer)))
                         /\ IsPrefix(p \o Footer(p), Rest2(header))
<1>1. PayloadsAt(i) = {p \in Slices : Fits(p)}
    BY DEF PayloadsAt
<1>2. ASSUME NEW p \in Seq(Byte)
      PROVE  Fits(p) <=> WholeAt(i) /\ UnpackPayload(i) = p
    <2> DEFINE n == Len(p)
    <2>1. n \in Nat
        OBVIOUS
    <2>2. <<2, n>> = HeaderOf(2, n) /\ <<3>> \o TwoBytes(n) = HeaderOf(3, n)
        <3>1. HeaderOf(3, n) = IF 3 = 2 THEN <<2, n>> ELSE <<3>> \o TwoBytes(n)
            BY <2>1, HeaderOfIs
        <3> HIDE DEF n
        <3>2. HeaderOf(3, n) = <<3>> \o TwoBytes(n)
            BY <3>1
        <3>3. <<2, n>> = HeaderOf(2, n)
            BY DEF HeaderOf
        <3> QED  BY <3>2, <3>3
    <2>3. Fits(p) <=> \E start \in {2, 3} :
                         /\ IsPrefix(HeaderOf(start, n), SubSeq(buffer, i, Len(buffer)))
                         /\ IsPrefix(p \o Footer(p), Rest2(HeaderOf(start, n)))
        BY <2>2
    <2> HIDE DEF n, Fits
    <2>4. \A start \in {2, 3} : Rest2(HeaderOf(start, n)) = SubSeq(buffer, i + start, Len(buffer))
        BY <2>1, HeaderOfIs
    <2>5. \A start \in {2, 3} :
             IsPrefix(HeaderOf(start, n), SubSeq(buffer, i, Len(buffer))) <=>
                start = buffer[i] /\ Rest(i) >= HeaderSize(i) /\ PayloadLength(i) = n
        BY <2>1, HeaderMatches
    <2> HIDE DEF Rest2
    <2>6. Fits(p) <=>
             /\ Rest(i) >= HeaderSize(i) /\ PayloadLength(i) = n
             /\ IsPrefix(p \o Footer(p), SubSeq(buffer, i + buffer[i], Len(buffer)))
        BY <2>3, <2>4, <2>5
    <2>7. ASSUME Rest(i) >= HeaderSize(i), PayloadLength(i) = n
          PROVE  IsPrefix(p \o Footer(p), SubSeq(buffer, i + buffer[i], Len(buffer))) <=>
                    PacketParsable(i) /\ ValidPayload(i) /\ UnpackPayload(i) = p
        BY <2>7, BodyMatches DEF n, HeaderSize
    <2>8. PacketParsable(i) => Rest(i) >= HeaderSize(i) /\ Len(UnpackPayload(i)) = PayloadLength(i)
        BY WholeIs DEF PacketParsable
    <2> QED  BY <2>6, <2>7, <2>8 DEF WholeAt, n
<1> HIDE DEF Fits
<1>3. ASSUME NEW p \in Slices PROVE p \in Seq(Byte)
    <2>1. ASSUME NEW j \in i + 2..i + 3, NEW k \in i + 1..Len(buffer)
          PROVE  SubSeq(buffer, j, k) \in Seq(Byte)
        <3>1. j \in Int /\ j >= 1 /\ k \in Int /\ k <= Len(buffer)
            OBVIOUS
        <3>2. \A x \in j..k : buffer[x] \in Byte
            BY <3>1
        <3> QED  BY <3>1, <3>2, SubSeqProperties
    <2> DEFINE A == i + 2..i + 3
               B == i + 1..Len(buffer)
               Piece(j, k) == SubSeq(buffer, j, k)
    <2>2. \A j \in A, k \in B : Piece(j, k) \in Seq(Byte)
        BY <2>1
    <2>3. Slices = {Piece(j, k) : j \in A, k \in B}
        OBVIOUS
    <2> HIDE DEF A, B, Slices, Piece
    <2>4. {Piece(j, k) : j \in A, k \in B} \subseteq Seq(Byte)
        BY <2>2
    <2> QED  BY <2>3, <2>4
<1>4. ASSUME WholeAt(i) PROVE UnpackPayload(i) \in Slices /\ UnpackPayload(i) \in Seq(Byte)
    <2> DEFINE z == HeaderSize(i)
               n == PayloadLength(i)
    <2>1. z \in {2, 3} /\ n \in Nat /\ PacketSize(i) = z + n + 3
        BY <1>4, SizeAt DEF WholeAt, PacketParsable
    <2>2. z + n + 3 <= Len(buffer) - i + 1
        BY <1>4, <2>1 DEF WholeAt, PacketParsable, Rest
    <2> HIDE DEF z, n
    <2>3. i + z \in i + 2..i + 3 /\ i + z + n - 1 \in i + 1..Len(buffer)
        BY <2>1, <2>2
    <2>4. UnpackPayload(i) = SubSeq(buffer, i + z, i + z + n - 1)
        BY DEF UnpackPayload, z, n
    <2>5. UnpackPayload(i) \in Slices
        <3> DEFINE j == i + z
                   k == i + z + n - 1
        <3> HIDE DEF j, k
        <3>1. j \in i + 2..i + 3 /\ k \in i + 1..Len(buffer) /\ UnpackPayload(i) = SubSeq(buffer, j, k)
            BY <2>3, <2>4 DEF j, k
        <3> QED  BY <3>1
    <2> HIDE DEF Slices
    <2> QED  BY <1>4, <2>5, WholeIs DEF WholeAt
<1> HIDE DEF Slices
<1>5. CASE WholeAt(i)
    BY <1>1, <1>2, <1>3, <1>4, <1>5
<1>6. CASE ~WholeAt(i)
    BY <1>1, <1>2, <1>3, <1>6
<1> QED  BY <1>5, <1>6


LEMMA FirstFound ==
    ASSUME buffer \in Seq(Byte)
    PROVE  FirstPacketFound
<1> DEFINE Starts == {i \in 1..Len(buffer) : buffer[i] \in {2, 3} /\ PayloadsAt(i) # {}}
<1>1. \A i \in 1..Len(buffer) : WholeAt(i) => i \in Starts /\ UnpackPayload(i) \in PayloadsAt(i)
    BY PayloadsAtIs DEF WholeAt
<1>2. \A i \in Starts : i \in 1..Len(buffer) /\ WholeAt(i)
    BY PayloadsAtIs
<1> HIDE DEF Starts
<1>3. SUFFICES ASSUME buffer # << >>
      PROVE \/ Incomplete /\ Unpack = Nothing(0)
            \/ /\ ~Incomplete
               /\ \E i \in Starts : \E p \in PayloadsAt(i) :
                     /\ \A j \in Starts : i <= j
                     /\ Unpack = [payload |-> p,
                                  consumed |-> i - 1 + buffer[i] + Len(p) + FooterSize]
            \/ /\ ~Incomplete
               /\ Starts = {}
               /\ Unpack.payload = None
               /\ Unpack.consumed \in 1..Len(buffer)
    BY DEF FirstPacketFound, Starts
<1>4. CASE Incomplete
    BY <1>3, <1>4, UnpackRight
<1>5. CASE ~Incomplete /\ Found(1, Unpack)
    <2>1. PICK i \in 1..Len(buffer) :
             /\ FirstWhole(1, i)
             /\ Unpack = [payload |-> UnpackPayload(i), consumed |-> i - 1 + PacketSize(i)]
        BY <1>5 DEF Found
    <2>2. WholeAt(i) /\ i \in Starts /\ UnpackPayload(i) \in PayloadsAt(i)
        BY <1>1, <2>1 DEF FirstWhole
    <2>3. ASSUME NEW j \in Starts PROVE i <= j
        <3>1. j \in 1..Len(buffer) /\ WholeAt(j)
            BY <1>2
        <3>2. j \notin 1..i - 1
            BY <2>1, <3>1 DEF FirstWhole
        <3> QED  BY <3>1, <3>2
    <2>4. PacketSize(i) = buffer[i] + Len(UnpackPayload(i)) + FooterSize
        BY <2>2, SizeAt, WholeIs DEF WholeAt, PacketParsable, HeaderSize, FooterSize
    <2>5. i - 1 + PacketSize(i) = i - 1 + buffer[i] + Len(UnpackPayload(i)) + FooterSize
        <3>1. buffer[i] \in Nat /\ Len(UnpackPayload(i)) \in Nat /\ i \in Nat
            BY <2>2, WholeIs DEF WholeAt
        <3> HIDE DEF Starts
        <3> QED  BY <2>4, <3>1 DEF FooterSize
    <2> QED  BY <1>5, <2>1, <2>2, <2>3, <2>5
<1>6. CASE ~Incomplete /\ NotFound(1, Unpack)
    <2>1. PICK c \in 0..Rest(1) : Unpack = Nothing(c)
        BY <1>6 DEF NotFound
    <2>2. Unpack.payload = None /\ Unpack.consumed = c /\ c >= 1
        BY <1>3, <1>6, <2>1, UnpackRight DEF Nothing
    <2>3. c \in 1..Len(buffer)
        BY <2>1, <2>2 DEF Rest
    <2>4. Starts = {}
        BY <1>2, <1>6 DEF NotFound
    <2> QED  BY <1>6, <2>2, <2>3, <2>4
<1> QED  BY <1>3, <1>4, <1>5, <1>6, UnpackRight DEF Right

-----------------------------------------------------------------------------
(* The stream.                                                              *)

LEMMA UnpackTyped ==
    ASSUME buffer \in Seq(Byte)
    PROVE  /\ Unpack.payload \in Seq(Byte) \cup {None}
           /\ Unpack.consumed \in 0..Len(buffer)
           /\ buffer = << >> => Unpack.consumed = 0
<1>1. ASSUME Unpack = Nothing(0) PROVE Unpack.payload = None /\ Unpack.consumed = 0
    BY <1>1 DEF Nothing
<1>2. CASE buffer = << >>
    BY <1>1, <1>2 DEF Unpack
<1>3. CASE buffer # << >> /\ Incomplete
    BY <1>1, <1>3, UnpackRight
<1>4. CASE buffer # << >> /\ Found(1, Unpack)
    <2>1. PICK i \in 1..Len(buffer) :
             /\ FirstWhole(1, i)
             /\ Unpack = [payload |-> UnpackPayload(i), consumed |-> i - 1 + PacketSize(i)]
        BY <1>4 DEF Found
    <2>2. UnpackPayload(i) \in Seq(Byte) /\ PacketSize(i) \in 1..Rest(i)
        BY <2>1, WholeIs DEF FirstWhole, WholeAt
    <2>3. PacketSize(i) \in Nat /\ PacketSize(i) <= Len(buffer) - i + 1
        BY <2>2 DEF Rest
    <2>4. i - 1 + PacketSize(i) \in 0..Len(buffer)
        BY <2>3
    <2> QED  BY <1>4, <2>1, <2>2, <2>4
<1>5. CASE buffer # << >> /\ NotFound(1, Unpack)
    <2>1. PICK c \in 0..Rest(1) : Unpack = Nothing(c)
        BY <1>5 DEF NotFound
    <2>2. c \in 0..Len(buffer)
        BY <2>1 DEF Rest
    <2> QED  BY <1>5, <2>1, <2>2 DEF Nothing
<1> QED  BY <1>2, <1>3, <1>4, <1>5, UnpackRight DEF Right

LEMMA TypeInit == Init => TypeOK
BY CodecAssumption DEF Init, TypeOK

LEMMA TypeStep == TypeOK /\ [Next]_vars => TypeOK'
<1> SUFFICES ASSUME TypeOK, [Next]_vars PROVE TypeOK'
    OBVIOUS
<1>0. /\ wire \in Seq(Byte) /\ buffer \in Seq(Byte) /\ sent \in Seq(Payloads)
      /\ Len(sent) <= MaxPackets /\ received \in Seq(Seq(Byte)) /\ noise \in 0..MaxNoise
      /\ MaxPackets \in Nat /\ MaxNoise \in Nat /\ Payloads \subseteq Seq(Byte)
    BY CodecAssumption DEF TypeOK
<1>1. ASSUME NEW p \in Payloads, Send(p) PROVE TypeOK'
    <2>1. Frame(p) \in Seq(Byte)
        BY <1>0, <1>1, FrameIs DEF Send
    <2>2. wire' \in Seq(Byte)
        BY <1>0, <1>1, <2>1 DEF Send
    <2>3. sent' \in Seq(Payloads) /\ Len(sent') <= MaxPackets
        <3>1. Append(sent, p) \in Seq(Payloads) /\ Len(Append(sent, p)) = Len(sent) + 1
            BY <1>0, AppendProperties
        <3> QED  BY <1>0, <1>1, <3>1 DEF Send
    <2> QED  BY <1>0, <1>1, <2>2, <2>3 DEF Send, TypeOK
<1>2. CASE LoseByte
    <2>1. Tail(wire) \in Seq(Byte)
        BY <1>0, <1>2 DEF LoseByte
    <2> QED  BY <1>0, <1>2, <2>1 DEF LoseByte, TypeOK
<1>3. ASSUME NEW b \in Byte, AddByte(b) PROVE TypeOK'
    <2>1. Append(wire, b) \in Seq(Byte)
        BY <1>0
    <2> QED  BY <1>0, <1>3, <2>1 DEF AddByte, TypeOK
<1>4. CASE Arrive
    <2>1. PICK n \in 1..Len(wire) :
             buffer' = buffer \o SubSeq(wire, 1, n) /\ wire' = SubSeq(wire, n + 1, Len(wire))
        BY <1>4 DEF Arrive
    <2>2. SubSeq(wire, 1, n) \in Seq(Byte) /\ SubSeq(wire, n + 1, Len(wire)) \in Seq(Byte)
        BY <1>0, <2>1
    <2>3. buffer' \in Seq(Byte) /\ wire' \in Seq(Byte)
        BY <1>0, <2>1, <2>2
    <2> QED  BY <1>0, <1>4, <2>3 DEF Arrive, TypeOK
<1>5. CASE Unframe
    <2>1. Unpack.payload \in Seq(Byte) \cup {None} /\ Unpack.consumed \in 0..Len(buffer)
        BY <1>0, UnpackTyped
    <2>2. SubSeq(buffer, Unpack.consumed + 1, Len(buffer)) \in Seq(Byte)
        BY <1>0, <2>1
    <2>3. received' \in Seq(Seq(Byte))
        BY <1>0, <1>5, <2>1 DEF Unframe
    <2> QED  BY <1>0, <1>5, <2>2, <2>3 DEF Unframe, TypeOK
<1>6. CASE UNCHANGED vars
    BY <1>6 DEF vars, TypeOK
<1> QED  BY <1>1, <1>2, <1>3, <1>4, <1>5, <1>6 DEF Next


\* What the properties say about a stream on which there is no noise.
Ends(end) ==
    /\ end \in [Len(received)..Len(sent) -> 0..Len(Stream)]
    /\ EndOfPackets(end)

LEMMA Sequences ==
    ASSUME TypeOK
    PROVE  /\ received \in Seq(Seq(Byte)) /\ sent \in Seq(Seq(Byte))
           /\ Len(received) \in Nat /\ Len(sent) \in Nat
           /\ \A j \in 1..Len(sent) : sent[j] \in Seq(Byte)
           /\ buffer \in Seq(Byte) /\ wire \in Seq(Byte)
           /\ Stream \in Seq(Byte) /\ Follows(Stream, buffer, wire)
<1>1. /\ wire \in Seq(Byte) /\ buffer \in Seq(Byte) /\ sent \in Seq(Payloads)
      /\ received \in Seq(Seq(Byte)) /\ Payloads \subseteq Seq(Byte)
    BY CodecAssumption DEF TypeOK
<1>2. sent \in Seq(Seq(Byte))
    BY <1>1, SeqMonotonic
<1>3. Stream \in Seq(Byte) /\ Follows(Stream, buffer, wire)
    BY <1>1, TwoParts DEF Stream
<1> QED  BY <1>1, <1>2, <1>3

LEMMA PrefixOfSent ==
    ASSUME TypeOK, IsPrefix(received, sent)
    PROVE  Len(received) <= Len(sent) /\ \A j \in 1..Len(received) : received[j] = sent[j]
<1>1. received \in Seq(Seq(Byte)) /\ sent \in Seq(Seq(Byte))
    BY Sequences
<1>2. Agrees(received, sent)
    BY <1>1, PrefixIs
<1> QED  BY <1>2 DEF Agrees

\* Nothing is left on a stream that has no packets left.
LEMMA StreamOver ==
    ASSUME TypeOK, StreamOfPackets, noise = 0, Len(received) >= Len(sent)
    PROVE  received = sent /\ Len(Stream) = 0
<1>1. /\ received \in Seq(Seq(Byte)) /\ sent \in Seq(Seq(Byte))
      /\ Len(received) \in Nat /\ Len(sent) \in Nat
    BY Sequences
<1>2. PICK end \in [Len(received)..Len(sent) -> 0..Len(Stream)] : EndOfPackets(end)
    BY DEF StreamOfPackets
<1>3. Len(received) = Len(sent) /\ \A j \in 1..Len(received) : received[j] = sent[j]
    BY <1>1, PrefixOfSent DEF StreamOfPackets
<1>4. received = sent
    BY <1>1, <1>3, SeqEqual
<1>5. Len(Stream) = 0
    BY <1>2, <1>3 DEF EndOfPackets
<1> QED  BY <1>4, <1>5

\* The buffer begins with the packet of the next payload.
LEMMA StreamHead ==
    ASSUME TypeOK, StreamOfPackets, noise = 0, Len(received) < Len(sent)
    PROVE  LET p == sent[Len(received) + 1] IN
           /\ p \in Seq(Byte) /\ Packable(p)
           /\ Frame(p) \in Seq(Byte) /\ Len(Frame(p)) >= 1
           /\ Len(Frame(p)) <= Len(Stream)
           /\ BeginsLike(Frame(p))
<1> DEFINE p == sent[Len(received) + 1]
           packet == Frame(p)
           first == Len(received) + 1
<1>1. /\ Len(received) \in Nat /\ Len(sent) \in Nat
      /\ \A j \in 1..Len(sent) : sent[j] \in Seq(Byte)
      /\ buffer \in Seq(Byte) /\ wire \in Seq(Byte)
      /\ Follows(Stream, buffer, wire)
    BY Sequences
<1>2. first \in 1..Len(sent) /\ first \in Len(received) + 1..Len(sent) /\ first - 1 = Len(received)
    BY <1>1
<1>3. p \in Seq(Byte) /\ Packable(p)
    BY <1>1, <1>2 DEF StreamOfPackets
<1>4. packet \in Seq(Byte) /\ Len(packet) >= 1
    <2>1. /\ Frame(p) \in Seq(Byte) /\ Len(Frame(p)) = Len(Header(p)) + Len(p) + 3
          /\ Len(Header(p)) \in {2, 3} /\ Len(p) \in Nat
        <3> HIDE DEF p
        <3>1. Frame(p) \in Seq(Byte) /\ Len(Frame(p)) = Len(Header(p)) + Len(p) + 3
            BY <1>3, FrameIs
        <3>2. Header(p)[1] \in {2, 3} /\ Len(Header(p)) = Header(p)[1]
            BY <1>3, HeaderIs
        <3>3. Len(p) \in Nat
            BY <1>3
        <3> QED  BY <3>1, <3>2, <3>3
    <2> HIDE DEF p
    <2>2. Len(Frame(p)) >= 1
        BY <2>1
    <2> QED  BY <2>1, <2>2
<1>5. PICK end \in [Len(received)..Len(sent) -> 0..Len(Stream)] : EndOfPackets(end)
    BY DEF StreamOfPackets
<1>6. /\ end[Len(received)] = 0 /\ end[first] = end[first - 1] + Len(packet)
      /\ \A k \in 1..Len(packet) : Stream[end[first - 1] + k] = packet[k]
    BY <1>2, <1>5 DEF EndOfPackets
<1> HIDE DEF packet, p, first
<1>7. end[first] = Len(packet) /\ end[first] \in 0..Len(Stream)
    BY <1>1, <1>2, <1>4, <1>5, <1>6
<1>8. Len(packet) <= Len(Stream)
    BY <1>1, <1>7 DEF Stream
<1>9. \A k \in 1..Len(packet) : Stream[k] = packet[k]
    BY <1>2, <1>6
<1>10. BeginsLike(packet)
    <2>1. ASSUME NEW k \in 1..Len(buffer), k <= Len(packet) PROVE buffer[k] = packet[k]
        <3>1. k \in 1..Len(packet)
            BY <1>4, <2>1
        <3>2. Stream[k] = buffer[k]
            BY <1>1 DEF Follows
        <3> QED  BY <1>9, <3>1, <3>2
    <2> QED  BY <2>1 DEF BeginsLike
<1> QED  BY <1>3, <1>4, <1>8, <1>10 DEF packet, p, first

LEMMA CleanStreamHolds ==
    ASSUME TypeOK, StreamOfPackets
    PROVE  CleanStreamReceived
<1>1. SUFFICES ASSUME noise = 0
      PROVE  /\ IsPrefix(received, sent)
             /\ wire = << >> /\ Unpack.consumed = 0 => received = sent /\ buffer = << >>
    BY DEF CleanStreamReceived
<1>2. IsPrefix(received, sent)
    BY <1>1 DEF StreamOfPackets
<1>3. ASSUME wire = << >>, Unpack.consumed = 0 PROVE received = sent /\ buffer = << >>
    <2>1. /\ Len(received) \in Nat /\ Len(sent) \in Nat /\ buffer \in Seq(Byte)
          /\ Follows(Stream, buffer, wire)
        BY Sequences
    <2>2. Len(Stream) = Len(buffer)
        BY <1>3, <2>1 DEF Follows
    <2>3. CASE Len(received) >= Len(sent)
        <3>1. received = sent /\ Len(Stream) = 0
            BY <1>1, <2>3, StreamOver
        <3>2. Len(buffer) = 0
            BY <2>2, <3>1
        <3>3. buffer = << >>
            BY <2>1, <3>2, EmptySeq
        <3> QED  BY <3>1, <3>3
    <2>4. CASE Len(received) < Len(sent)
        <3> DEFINE p == sent[Len(received) + 1]
        <3>1. /\ p \in Seq(Byte) /\ Packable(p) /\ Len(Frame(p)) >= 1
              /\ Frame(p) \in Seq(Byte) /\ Len(Frame(p)) <= Len(buffer) /\ BeginsLike(Frame(p))
            BY <1>1, <2>2, <2>4, StreamHead
        <3> HIDE DEF p
        <3>2. buffer # << >>
            BY <3>1
        <3>3. Unpack = [payload |-> p, consumed |-> Len(Frame(p))]
            BY <2>1, <3>1, <3>2, HeadUnpacked
        <3> QED  BY <1>3, <3>1, <3>3
    <2> QED  BY <2>1, <2>3, <2>4
<1> QED  BY <1>2, <1>3


\* Packets that are sent come last.
LEMMA StreamSend ==
    ASSUME TypeOK, StreamOfPackets, NEW p \in Payloads, Send(p)
    PROVE  StreamOfPackets'
<1> DEFINE first == Len(received)
           last == Len(sent)
           packet == Frame(p)
           len == Len(Stream)
<1>1. /\ first \in Nat /\ last \in Nat /\ sent \in Seq(Seq(Byte)) /\ received \in Seq(Seq(Byte))
      /\ Stream \in Seq(Byte) /\ Follows(Stream, buffer, wire)
      /\ buffer \in Seq(Byte) /\ wire \in Seq(Byte) /\ len \in Nat
    BY Sequences
<1>2. p \in Seq(Byte) /\ Packable(p)
    BY CodecAssumption DEF Send
<1>3. packet \in Seq(Byte) /\ Len(packet) \in Nat
    BY <1>2, FrameIs
<1>4. /\ wire' = wire \o packet /\ sent' = Append(sent, p)
      /\ buffer' = buffer /\ received' = received /\ noise' = noise
    BY DEF Send
<1> HIDE DEF packet
<1>5. /\ Len(sent') = last + 1 /\ sent'[last + 1] = p
      /\ \A j \in 1..last : sent'[j] = sent[j]
      /\ sent' \in Seq(Seq(Byte)) /\ received' \in Seq(Seq(Byte))
    BY <1>1, <1>2, <1>4, AppendProperties
<1>6. \A j \in 1..Len(sent') : Packable(sent'[j])
    <2>1. ASSUME NEW j \in 1..last + 1 PROVE Packable(sent'[j])
        <3>1. j \in 1..last \/ j = last + 1
            BY <1>1
        <3> QED  BY <1>2, <1>5, <3>1 DEF StreamOfPackets
    <2> QED  BY <1>5, <2>1
<1>7. /\ Len(Stream') = len + Len(packet)
      /\ \A k \in 1..len : Stream'[k] = Stream[k]
      /\ \A k \in 1..Len(packet) : Stream'[len + k] = packet[k]
    <2>1. wire \o packet \in Seq(Byte) /\ Follows(wire \o packet, wire, packet)
        BY <1>1, <1>3, TwoParts
    <2>2. Stream' = buffer \o (wire \o packet)
        BY <1>4 DEF Stream
    <2>3. Stream' = Stream \o packet
        <3>1. (buffer \o wire) \o packet = buffer \o (wire \o packet)
            BY <1>1, <1>3, ConcatAssociative
        <3> QED  BY <2>2, <3>1 DEF Stream
    <2>4. Follows(Stream \o packet, Stream, packet)
        BY <1>1, <1>3, TwoParts
    <2> QED  BY <2>3, <2>4 DEF Follows
<1>8. ASSUME noise' = 0 PROVE IsPrefix(received', sent') /\ \E e : Ends(e)'
    <2>0. noise = 0
        BY <1>4, <1>8
    <2>1. first <= last /\ \A j \in 1..first : received[j] = sent[j]
        BY <2>0, PrefixOfSent DEF StreamOfPackets
    <2>2. IsPrefix(received', sent')
        <3>1. Agrees(received', sent')
            <4>1. \A j \in 1..first : j \in 1..last
                BY <1>1, <2>1
            <4> QED  BY <1>1, <1>4, <1>5, <2>1, <4>1 DEF Agrees
        <3> QED  BY <1>5, <3>1, PrefixIs
    <2>3. PICK end \in [first..last -> 0..len] : EndOfPackets(end)
        BY <2>0 DEF StreamOfPackets
    <2>4. /\ end[first] = 0 /\ end[last] = len
          /\ \A j \in first + 1..last :
                /\ end[j] = end[j - 1] + Len(Frame(sent[j]))
                /\ \A k \in 1..Len(Frame(sent[j])) : Stream[end[j - 1] + k] = Frame(sent[j])[k]
          /\ \A j, k \in first..last : j <= k => end[j] <= end[k]
        BY <2>3 DEF EndOfPackets
    <2> DEFINE new == len + Len(packet)
    <2>5. PICK e : e = [j \in first..last + 1 |-> IF j = last + 1 THEN new ELSE end[j]]
        OBVIOUS
    <2>6. new \in Nat /\ len <= new /\ \A x \in 0..len : x \in 0..new
        BY <1>1, <1>3
    <2> HIDE DEF new, len, first, last
    <2>7. /\ e[last + 1] = new
          /\ \A j \in first..last : e[j] = end[j] /\ end[j] \in 0..len
          /\ last \in first..last /\ first \in first..last
        BY <1>1, <2>1, <2>3, <2>5
    <2>8. e \in [first..last + 1 -> 0..new]
        BY <1>1, <2>3, <2>5, <2>6
    <2>9. ASSUME NEW j \in first + 1..last + 1
          PROVE  /\ e[j] = e[j - 1] + Len(Frame(sent'[j]))
                 /\ \A k \in 1..Len(Frame(sent'[j])) : Stream'[e[j - 1] + k] = Frame(sent'[j])[k]
        <3>1. CASE j = last + 1
            <4>1. j - 1 = last /\ Frame(sent'[j]) = packet /\ e[j - 1] = len
                BY <1>1, <1>5, <2>4, <2>7, <3>1 DEF packet, last
            <4> QED  BY <1>7, <2>7, <3>1, <4>1 DEF new, len
        <3>2. CASE j # last + 1
            <4>1. j \in first + 1..last /\ j \in first..last /\ j - 1 \in first..last /\ j \in 1..last
                BY <1>1, <3>2 DEF first, last
            <4>2. sent'[j] = sent[j] /\ e[j] = end[j] /\ e[j - 1] = end[j - 1]
                BY <1>5, <2>7, <4>1 DEF last
            <4>3. ASSUME NEW k \in 1..Len(Frame(sent[j])) PROVE end[j - 1] + k \in 1..len
                <5>1. end[j - 1] \in Nat /\ end[j] <= len /\ end[j] = end[j - 1] + Len(Frame(sent[j]))
                    BY <2>4, <2>7, <4>1
                <5>2. Frame(sent[j]) \in Seq(Byte)
                    <6>1. sent[j] \in Seq(Byte) /\ Packable(sent[j])
                        BY <4>1, Sequences DEF StreamOfPackets, last
                    <6> QED  BY <6>1, FrameIs
                <5>3. Len(Frame(sent[j])) \in Nat
                    BY <5>2
                <5>4. len \in Nat
                    BY <1>1 DEF len
                <5> QED  BY <5>1, <5>3, <5>4
            <4>4. ASSUME NEW k \in 1..Len(Frame(sent[j]))
                  PROVE  Stream'[end[j - 1] + k] = Frame(sent[j])[k]
                BY <1>7, <2>4, <4>1, <4>3 DEF len
            <4> QED  BY <2>4, <4>1, <4>2, <4>4
        <3> QED  BY <3>1, <3>2
    <2>10. ASSUME NEW j \in first..last + 1, NEW k \in first..last + 1, j <= k PROVE e[j] <= e[k]
        <3>1. /\ j \in first..last \/ j = last + 1
              /\ k \in first..last \/ k = last + 1
            BY <1>1 DEF first, last
        <3>2. CASE k = last + 1
            <4>1. e[j] \in 0..new
                BY <2>8
            <4> QED  BY <2>6, <2>7, <3>2, <4>1
        <3>3. CASE k # last + 1
            <4>1. j \in first..last /\ k \in first..last
                BY <1>1, <2>10, <3>1, <3>3 DEF first, last
            <4> QED  BY <2>4, <2>7, <2>10, <4>1
        <3> QED  BY <3>2, <3>3
    <2>11. e[first] = 0
        BY <2>4, <2>7
    <2>12. Len(received') = first /\ Len(sent') = last + 1 /\ Len(Stream') = new
        BY <1>4, <1>5, <1>7 DEF first, last, new, len
    <2>13. Ends(e)'
        BY <2>7, <2>8, <2>9, <2>10, <2>11, <2>12 DEF Ends, EndOfPackets
    <2> QED  BY <2>2, <2>13
<1> QED  BY <1>6, <1>8 DEF StreamOfPackets, Ends

\* A sequence is its beginning and its end, wherever it is cut.
LEMMA CutAndJoin ==
    ASSUME NEW S, NEW s \in Seq(S), NEW n \in 0..Len(s)
    PROVE  SubSeq(s, 1, n) \o SubSeq(s, n + 1, Len(s)) = s
<1> DEFINE a == SubSeq(s, 1, n)
           b == SubSeq(s, n + 1, Len(s))
           u == a \o b
<1>1. n \in Nat /\ Len(s) \in Nat /\ n <= Len(s)
    OBVIOUS
<1>2. a \in Seq(S) /\ Len(a) = n /\ \A k \in 1..n : a[k] = s[k]
    <2>1. /\ SubSeq(s, 1, n) \in Seq(S) /\ Len(SubSeq(s, 1, n)) = n - 1 + 1
          /\ \A k \in 1..n - 1 + 1 : SubSeq(s, 1, n)[k] = s[1 + k - 1]
        BY <1>1, Slice
    <2> QED  BY <1>1, <2>1
<1>3. b \in Seq(S) /\ Len(b) = Len(s) - n /\ \A k \in 1..Len(s) - n : b[k] = s[n + k]
    <2>1. n + 1 \in Nat \ {0} /\ n + 1 <= Len(s) + 1
        BY <1>1
    <2>2. /\ SubSeq(s, n + 1, Len(s)) \in Seq(S)
          /\ Len(SubSeq(s, n + 1, Len(s))) = Len(s) - (n + 1) + 1
          /\ \A k \in 1..Len(s) - (n + 1) + 1 : SubSeq(s, n + 1, Len(s))[k] = s[n + 1 + k - 1]
        BY <1>1, <2>1, Slice
    <2> QED  BY <1>1, <2>2
<1> HIDE DEF a, b
<1>4. u \in Seq(S) /\ Follows(u, a, b)
    BY <1>2, <1>3, TwoParts
<1> HIDE DEF u
<1>5. Len(u) = Len(s)
    BY <1>1, <1>2, <1>3, <1>4 DEF Follows
<1>6. ASSUME NEW k \in 1..Len(s) PROVE u[k] = s[k]
    <2>1. CASE k <= n
        BY <1>1, <1>2, <1>4, <2>1 DEF Follows
    <2>2. CASE k > n
        <3>1. k - n \in 1..Len(s) - n /\ n + (k - n) = k
            BY <1>1, <2>2
        <3>2. u[n + (k - n)] = b[k - n]
            BY <1>2, <1>3, <1>4, <3>1 DEF Follows
        <3> QED  BY <1>3, <3>1, <3>2
    <2> QED  BY <1>1, <2>1, <2>2
<1>7. u = s
    BY <1>4, <1>5, <1>6, SeqEqual
<1> QED  BY <1>7 DEF u, a, b

LEMMA SameStream ==
    ASSUME StreamOfPackets,
           Stream' = Stream, sent' = sent, received' = received, noise' = noise
    PROVE  StreamOfPackets'
<1>1. \A j \in 1..Len(sent') : Packable(sent'[j])
    BY DEF StreamOfPackets
<1>2. ASSUME noise' = 0 PROVE IsPrefix(received', sent') /\ \E e : Ends(e)'
    <2>1. IsPrefix(received, sent) /\ \E e : Ends(e)
        BY <1>2 DEF StreamOfPackets, Ends
    <2>2. PICK e : Ends(e)
        BY <2>1
    <2>3. EndOfPackets(e)'
        BY <2>2 DEF Ends, EndOfPackets
    <2>4. Ends(e)'
        BY <2>2, <2>3 DEF Ends
    <2> QED  BY <2>1, <2>4
<1> QED  BY <1>1, <1>2 DEF StreamOfPackets, Ends

\* What arrives only moves from the wire into the buffer.
LEMMA StreamArrive ==
    ASSUME TypeOK, StreamOfPackets, Arrive
    PROVE  StreamOfPackets'
<1>1. buffer \in Seq(Byte) /\ wire \in Seq(Byte) /\ Len(wire) \in Nat
    BY Sequences
<1>2. PICK n \in 1..Len(wire) :
         buffer' = buffer \o SubSeq(wire, 1, n) /\ wire' = SubSeq(wire, n + 1, Len(wire))
    BY DEF Arrive
<1> DEFINE a == SubSeq(wire, 1, n)
           b == SubSeq(wire, n + 1, Len(wire))
<1>3. n \in 0..Len(wire)
    BY <1>1
<1>4. a \in Seq(Byte) /\ b \in Seq(Byte)
    BY <1>1, <1>2
<1>5. a \o b = wire
    BY <1>1, <1>3, CutAndJoin
<1> HIDE DEF a, b
<1>6. (buffer \o a) \o b = buffer \o (a \o b)
    BY <1>1, <1>4, ConcatAssociative
<1>7. Stream' = (buffer \o a) \o b
    BY <1>2 DEF Stream, a, b
<1>8. Stream' = Stream
    BY <1>5, <1>6, <1>7 DEF Stream
<1>9. sent' = sent /\ received' = received /\ noise' = noise
    BY DEF Arrive
<1> QED  BY <1>8, <1>9, SameStream

\* The bytes that are consumed go from the front of the stream.
LEMMA CutFront ==
    ASSUME NEW S, NEW s \in Seq(S), NEW t \in Seq(S), NEW n \in 0..Len(s)
    PROVE  LET u == SubSeq(s, n + 1, Len(s)) \o t IN
           /\ u \in Seq(S) /\ Len(u) = Len(s \o t) - n
           /\ \A k \in 1..Len(s \o t) - n : u[k] = (s \o t)[n + k]
<1> DEFINE b == SubSeq(s, n + 1, Len(s))
           u == b \o t
           v == s \o t
<1>1. n \in Nat /\ Len(s) \in Nat /\ n <= Len(s) /\ Len(t) \in Nat
    OBVIOUS
<1>2. b \in Seq(S) /\ Len(b) = Len(s) - n /\ \A k \in 1..Len(s) - n : b[k] = s[n + k]
    <2>1. n + 1 \in Nat \ {0} /\ n + 1 <= Len(s) + 1
        BY <1>1
    <2>2. /\ SubSeq(s, n + 1, Len(s)) \in Seq(S)
          /\ Len(SubSeq(s, n + 1, Len(s))) = Len(s) - (n + 1) + 1
          /\ \A k \in 1..Len(s) - (n + 1) + 1 : SubSeq(s, n + 1, Len(s))[k] = s[n + 1 + k - 1]
        BY <1>1, <2>1, Slice
    <2> QED  BY <1>1, <2>2
<1> HIDE DEF b
<1>3. v \in Seq(S) /\ Follows(v, s, t) /\ u \in Seq(S) /\ Follows(u, b, t)
    BY <1>2, TwoParts
<1> HIDE DEF u, v
<1>4. Len(v) = Len(s) + Len(t) /\ Len(u) = Len(v) - n
    BY <1>1, <1>2, <1>3 DEF Follows
<1>5. ASSUME NEW k \in 1..Len(v) - n PROVE u[k] = v[n + k]
    <2>1. CASE k <= Len(s) - n
        <3>1. k \in 1..Len(b) /\ n + k \in 1..Len(s)
            BY <1>1, <1>2, <2>1
        <3> QED  BY <1>1, <1>2, <1>3, <2>1, <3>1 DEF Follows
    <2>2. CASE k > Len(s) - n
        <3> DEFINE x == k - (Len(s) - n)
        <3>1. x \in 1..Len(t) /\ k = Len(b) + x /\ n + k = Len(s) + x
            BY <1>1, <1>2, <1>4, <2>2
        <3> HIDE DEF x
        <3>2. u[Len(b) + x] = t[x] /\ v[Len(s) + x] = t[x]
            BY <1>3, <3>1 DEF Follows
        <3> QED  BY <3>1, <3>2
    <2> QED  BY <1>1, <1>4, <2>1, <2>2
<1> QED  BY <1>3, <1>4, <1>5 DEF u, v, b

\* On a clean stream what unframe consumes is the packet of the next payload.
LEMMA StreamUnframe ==
    ASSUME TypeOK, StreamOfPackets, Unframe
    PROVE  StreamOfPackets'
<1> DEFINE first == Len(received)
           last == Len(sent)
           len == Len(Stream)
           p == sent[first + 1]
           packet == Frame(p)
           size == Len(packet)
<1>1. /\ first \in Nat /\ last \in Nat /\ sent \in Seq(Seq(Byte)) /\ received \in Seq(Seq(Byte))
      /\ Stream \in Seq(Byte) /\ Follows(Stream, buffer, wire)
      /\ buffer \in Seq(Byte) /\ wire \in Seq(Byte) /\ len \in Nat
    BY Sequences
<1>2. /\ Unpack.consumed > 0 /\ wire' = wire /\ sent' = sent /\ noise' = noise
      /\ buffer' = SubSeq(buffer, Unpack.consumed + 1, Len(buffer))
      /\ received' = IF Unpack.payload = None THEN received ELSE Append(received, Unpack.payload)
    BY DEF Unframe
<1>3. SUFFICES ASSUME noise = 0 PROVE IsPrefix(received', sent') /\ \E e : Ends(e)'
    <2>1. noise' = 0 => noise = 0
        BY <1>2
    <2>2. \A j \in 1..Len(sent') : Packable(sent'[j])
        BY <1>2 DEF StreamOfPackets
    <2> QED  BY <2>1, <2>2 DEF StreamOfPackets, Ends
<1>4. buffer # << >> /\ Len(buffer) # 0
    <2>1. buffer # << >>
        BY <1>1, <1>2, UnpackTyped
    <2> QED  BY <1>1, <2>1, EmptySeq
<1>5. first < last
    <2>1. len # 0
        BY <1>1, <1>4 DEF Follows
    <2> QED  BY <1>1, <1>3, <2>1, StreamOver
<1>6. /\ p \in Seq(Byte) /\ Packable(p) /\ packet \in Seq(Byte) /\ size >= 1 /\ size <= len
      /\ BeginsLike(packet)
    BY <1>3, <1>5, StreamHead
<1> HIDE DEF p
<1>7. size <= Len(buffer) /\ Unpack.payload = p /\ Unpack.consumed = size
    <2>1. Unpack = IF size <= Len(buffer)
                   THEN [payload |-> p, consumed |-> size] ELSE Nothing(0)
        BY <1>1, <1>4, <1>6, HeadUnpacked
    <2> HIDE DEF size
    <2>2. size <= Len(buffer)
        BY <1>2, <2>1 DEF Nothing
    <2> QED  BY <2>1, <2>2
<1>8. p # None
    BY <1>6, CodecAssumption
<1> HIDE DEF packet
<1>9. size \in Nat /\ size \in 0..Len(buffer)
    BY <1>1, <1>6, <1>7
<1>10. /\ received' = Append(received, p) /\ received' \in Seq(Seq(Byte)) /\ Len(received') = first + 1
       /\ received'[first + 1] = p /\ \A j \in 1..first : received'[j] = received[j]
    BY <1>1, <1>2, <1>6, <1>7, <1>8, AppendProperties
<1>11. Len(Stream') = len - size /\ \A k \in 1..len - size : Stream'[k] = Stream[size + k]
    <2>1. Stream' = SubSeq(buffer, size + 1, Len(buffer)) \o wire
        BY <1>2, <1>7 DEF Stream
    <2> HIDE DEF size
    <2>2. /\ Len(SubSeq(buffer, size + 1, Len(buffer)) \o wire) = Len(buffer \o wire) - size
          /\ \A k \in 1..Len(buffer \o wire) - size :
                (SubSeq(buffer, size + 1, Len(buffer)) \o wire)[k] = (buffer \o wire)[size + k]
        <3>1. buffer \in Seq(Byte) /\ wire \in Seq(Byte)
            BY <1>1
        <3> QED  BY <1>9, <3>1, CutFront
    <2> QED  BY <2>1, <2>2 DEF Stream
<1>12. first <= last /\ \A j \in 1..first : received[j] = sent[j]
    BY <1>3, PrefixOfSent DEF StreamOfPackets
<1>13. IsPrefix(received', sent')
    <2>1. Agrees(received', sent')
        <3>1. ASSUME NEW j \in 1..first + 1 PROVE received'[j] = sent[j]
            <4>1. j \in 1..first \/ j = first + 1
                BY <1>1
            <4> QED  BY <1>10, <1>12, <4>1 DEF p
        <3>2. Len(received') <= Len(sent')
            BY <1>1, <1>2, <1>5, <1>10
        <3> QED  BY <1>2, <1>10, <3>1, <3>2 DEF Agrees
    <2>2. sent' \in Seq(Seq(Byte))
        BY <1>1, <1>2
    <2> QED  BY <1>10, <2>1, <2>2, PrefixIs
<1>14. PICK end \in [first..last -> 0..len] : EndOfPackets(end)
    BY <1>3 DEF StreamOfPackets
<1>15. /\ end[first] = 0 /\ end[last] = len
       /\ \A j \in first + 1..last :
             /\ end[j] = end[j - 1] + Len(Frame(sent[j]))
             /\ \A k \in 1..Len(Frame(sent[j])) : Stream[end[j - 1] + k] = Frame(sent[j])[k]
       /\ \A j, k \in first..last : j <= k => end[j] <= end[k]
    BY <1>14 DEF EndOfPackets
<1>16. PICK e : e = [j \in first + 1..last |-> end[j] - size]
    OBVIOUS
<1> HIDE DEF first, last, len, size
<1>17. end[first + 1] = size
    <2>1. first + 1 \in first + 1..last /\ first + 1 - 1 = first
        BY <1>1, <1>5 DEF first, last
    <2>2. end[first + 1] = end[first] + Len(Frame(p))
        <3>1. \A j \in first + 1..last : end[j] = end[j - 1] + Len(Frame(sent[j]))
            BY <1>15
        <3>2. PICK j : j = first + 1
            OBVIOUS
        <3>3. j \in first + 1..last /\ j - 1 = first /\ p = sent[j]
            BY <2>1, <3>2 DEF p, first
        <3>4. end[j] = end[j - 1] + Len(Frame(sent[j]))
            BY <3>1, <3>3
        <3> QED  BY <3>2, <3>3, <3>4
    <2>3. end[first + 1] = 0 + size
        BY <1>15, <2>2 DEF size, packet
    <2> QED  BY <1>9, <2>3
<1>18. ASSUME NEW j \in first + 1..last
       PROVE  /\ j \in first..last /\ e[j] = end[j] - size /\ end[j] \in 0..len
              /\ size <= end[j] /\ end[j] <= len /\ end[j] \in Nat
    <2>1. j \in first..last /\ first + 1 \in first..last /\ first + 1 <= j
        BY <1>1, <1>5 DEF first, last
    <2>2. e[j] = end[j] - size
        BY <1>16
    <2>3. end[j] \in 0..len
        BY <1>14, <2>1
    <2>4. size <= end[j]
        BY <1>15, <1>17, <2>1
    <2>5. end[j] <= len /\ end[j] \in Nat
        BY <1>1, <2>3 DEF len
    <2> QED  BY <2>1, <2>2, <2>3, <2>4, <2>5
<1>19. e \in [first + 1..last -> 0..len - size]
    <2>1. ASSUME NEW j \in first + 1..last PROVE end[j] - size \in 0..len - size
        <3>1. len \in Nat
            BY <1>1 DEF len
        <3> QED  BY <1>9, <1>18, <3>1
    <2> QED  BY <1>16, <2>1
<1>20. ASSUME NEW j \in (first + 1) + 1..last
       PROVE  /\ e[j] = e[j - 1] + Len(Frame(sent[j]))
              /\ \A k \in 1..Len(Frame(sent[j])) : Stream'[e[j - 1] + k] = Frame(sent[j])[k]
    <2>1. j \in first + 1..last /\ j - 1 \in first + 1..last /\ j \in 1..Len(sent)
        BY <1>1 DEF first, last
    <2>2. /\ e[j] = end[j] - size /\ e[j - 1] = end[j - 1] - size
          /\ end[j] \in Nat /\ end[j - 1] \in Nat /\ size <= end[j - 1] /\ end[j] <= len
        BY <1>18, <2>1
    <2>3. Len(Frame(sent[j])) \in Nat
        <3>1. sent[j] \in Seq(Byte) /\ Packable(sent[j])
            BY <2>1, Sequences DEF StreamOfPackets
        <3>2. Frame(sent[j]) \in Seq(Byte)
            BY <3>1, FrameIs
        <3> QED  BY <3>2
    <2>4. end[j] = end[j - 1] + Len(Frame(sent[j]))
        BY <1>15, <2>1
    <2>5. e[j] = e[j - 1] + Len(Frame(sent[j]))
        BY <1>9, <2>2, <2>3, <2>4
    <2>6. ASSUME NEW k \in 1..Len(Frame(sent[j]))
          PROVE  Stream'[e[j - 1] + k] = Frame(sent[j])[k]
        <3>1. len \in Nat
            BY <1>1 DEF len
        <3>2. e[j - 1] + k \in 1..len - size /\ size + (e[j - 1] + k) = end[j - 1] + k
            BY <1>9, <2>2, <2>3, <2>4, <3>1
        <3>3. Stream'[e[j - 1] + k] = Stream[size + (e[j - 1] + k)]
            BY <1>11, <3>2
        <3>4. Stream[end[j - 1] + k] = Frame(sent[j])[k]
            BY <1>15, <2>1
        <3> QED  BY <3>2, <3>3, <3>4
    <2> QED  BY <2>5, <2>6
<1>21. ASSUME NEW j \in first + 1..last, NEW k \in first + 1..last, j <= k PROVE e[j] <= e[k]
    <2>1. end[j] <= end[k]
        BY <1>15, <1>18, <1>21
    <2>2. e[j] = end[j] - size /\ e[k] = end[k] - size /\ end[j] \in Nat /\ end[k] \in Nat
        BY <1>18
    <2> QED  BY <1>9, <2>1, <2>2
<1>22. e[first + 1] = 0 /\ e[last] = len - size
    <2>1. first + 1 \in first + 1..last /\ last \in first + 1..last
        BY <1>1, <1>5 DEF first, last
    <2>2. e[first + 1] = size - size
        BY <1>17, <1>18, <2>1
    <2> QED  BY <1>9, <1>15, <1>18, <2>1, <2>2
<1>23. Len(received') = first + 1 /\ Len(sent') = last /\ Len(Stream') = len - size
    BY <1>2, <1>10, <1>11 DEF last
<1>24. Ends(e)'
    BY <1>2, <1>19, <1>20, <1>21, <1>22, <1>23 DEF Ends, EndOfPackets
<1> QED  BY <1>13, <1>24

\* An inductive invariant, and the only one that the stream needs.
LEMMA StreamInit == Init => StreamOfPackets
<1> SUFFICES ASSUME Init PROVE StreamOfPackets
    OBVIOUS
<1>1. TypeOK
    BY TypeInit
<1>2. sent = << >> /\ received = << >> /\ buffer = << >> /\ wire = << >>
    BY DEF Init
<1>3. Stream = << >> /\ Len(Stream) = 0 /\ Len(sent) = 0 /\ Len(received) = 0
    BY <1>2 DEF Stream
<1>4. IsPrefix(received, sent)
    <2>1. Agrees(received, sent)
        BY <1>3 DEF Agrees
    <2> QED  BY <1>1, <2>1, Sequences, PrefixIs
<1>5. PICK end : end = [j \in 0..0 |-> 0]
    OBVIOUS
<1>6. end \in [0..0 -> 0..0] /\ end[0] = 0
    BY <1>5
<1>7. EndOfPackets(end)
    <2>1. \A j \in 0 + 1..0 : FALSE
        OBVIOUS
    <2>2. \A j, k \in 0..0 : end[j] <= end[k]
        BY <1>6
    <2> QED  BY <1>3, <1>6, <2>1, <2>2 DEF EndOfPackets
<1> QED  BY <1>3, <1>4, <1>6, <1>7 DEF StreamOfPackets

LEMMA StreamStep == TypeOK /\ StreamOfPackets /\ [Next]_vars => StreamOfPackets'
<1> SUFFICES ASSUME TypeOK, StreamOfPackets, [Next]_vars PROVE StreamOfPackets'
    OBVIOUS
<1>1. ASSUME NEW p \in Payloads, Send(p) PROVE StreamOfPackets'
    BY <1>1, StreamSend
<1>2. ASSUME noise' # 0, sent' = sent PROVE StreamOfPackets'
    BY <1>2 DEF StreamOfPackets
<1>3. CASE LoseByte
    <2>1. noise' # 0
        BY <1>3 DEF LoseByte, TypeOK
    <2> QED  BY <1>2, <1>3, <2>1 DEF LoseByte
<1>4. ASSUME NEW b \in Byte, AddByte(b) PROVE StreamOfPackets'
    <2>1. noise' # 0
        BY <1>4 DEF AddByte, TypeOK
    <2> QED  BY <1>2, <1>4, <2>1 DEF AddByte
<1>5. CASE Arrive
    BY <1>5, StreamArrive
<1>6. CASE Unframe
    BY <1>6, StreamUnframe
<1>7. CASE UNCHANGED vars
    BY <1>7, SameStream DEF vars, Stream
<1> QED  BY <1>1, <1>3, <1>4, <1>5, <1>6, <1>7 DEF Next

-----------------------------------------------------------------------------
(* The theorems.                                                            *)

\* VESC.read and unframe handle sequences of bytes: what is buffered and what
\* comes out of unframe never holds anything else, and no payload is None.
THEOREM CodecTypeCorrect == Spec => []TypeOK
<1>1. Init => TypeOK
    BY TypeInit
<1>2. TypeOK /\ [Next]_vars => TypeOK'
    BY TypeStep
<1> QED  BY <1>1, <1>2, PTL DEF Spec

\* As long as the wire adds and loses nothing, what VESC.read has buffered and what
\* is on its way are the packets of the payloads not received yet, back to back.
THEOREM StreamIsPackets == Spec => []StreamOfPackets
<1>1. Init => StreamOfPackets
    BY StreamInit
<1>2. TypeOK /\ StreamOfPackets /\ [Next]_vars => StreamOfPackets'
    BY StreamStep
<1> QED  BY <1>1, <1>2, CodecTypeCorrect, PTL DEF Spec

\* A clean stream is received by the loop of VESC.read as it was sent, whatever the
\* payloads contain, and however the stream is cut into pieces.
THEOREM CleanStream == Spec => []CleanStreamReceived
<1>1. TypeOK /\ StreamOfPackets => CleanStreamReceived
    BY CleanStreamHolds
<1> QED  BY <1>1, CodecTypeCorrect, StreamIsPackets, PTL

\* unframe finds the first whole packet of whatever is in the buffer, waits only for
\* the packet that the buffer begins with, and otherwise consumes something.
THEOREM FirstPacket == Spec => []FirstPacketFound
<1>1. TypeOK => FirstPacketFound
    BY FirstFound DEF TypeOK
<1> QED  BY <1>1, CodecTypeCorrect, PTL
=============================================================================
