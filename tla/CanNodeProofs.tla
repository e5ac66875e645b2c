---------------------------- MODULE CanNodeProofs ----------------------------
(***************************************************************************)
(* Theorems about CanNode, for every number of values of a byte, every set *)
(* of controllers and subscribers and every set of commands: a frame is    *)
(* read back as it was meant, and the invariants of the telemetry and of   *)
(* the record of envelopes.                                                *)
(***************************************************************************)
EXTENDS CanNode, ScaledIntegersProofs, SequenceTheorems, WellFoundedInduction, TLAPS

-----------------------------------------------------------------------------
(* The id of a frame                                                        *)

LEMMA IdReadBack ==
    ASSUME NEW p \in Nat, NEW n \in 0..255
    PROVE  PacketOf(ArbitrationId(p, n)) = p /\ AddresseeOf(ArbitrationId(p, n)) = n
BY DEF PacketOf, AddresseeOf, ArbitrationId

LEMMA PacketIds ==
    /\ \A a \in DOMAIN PacketId : PacketId[a] \in Nat
    /\ \A a, b \in DOMAIN PacketId : PacketId[a] = PacketId[b] => a = b
BY DEF PacketId

-----------------------------------------------------------------------------
(* The fields of a frame                                                    *)

LEMMA Middle ==
    ASSUME NEW S, NEW a \in Seq(S), NEW b \in Seq(S), NEW c \in Seq(S)
    PROVE  SubSeq((a \o b) \o c, Len(a) + 1, Len(a) + Len(b)) = b
<1> DEFINE s == (a \o b) \o c
           t == SubSeq(s, Len(a) + 1, Len(a) + Len(b))
<1>1. /\ s \in Seq(S)
      /\ Len(s) = Len(a) + Len(b) + Len(c)
      /\ \A i \in 1..Len(b) : s[Len(a) + i] = b[i]
    <2>1. /\ a \o b \in Seq(S)
          /\ Len(a \o b) = Len(a) + Len(b)
          /\ \A i \in 1..Len(b) : (a \o b)[Len(a) + i] = b[i]
        OBVIOUS
    <2> DEFINE ab == a \o b
    <2> HIDE DEF ab
    <2>2. /\ ab \o c \in Seq(S)
          /\ Len(ab \o c) = Len(ab) + Len(c)
          /\ \A i \in 1..Len(ab) : (ab \o c)[i] = ab[i]
        BY <2>1 DEF ab
    <2> QED
        BY <2>1, <2>2 DEF ab
<1> HIDE DEF s
<1>2. /\ t \in Seq(S)
      /\ Len(t) = Len(b)
      /\ \A i \in 1..Len(t) : t[i] = s[Len(a) + i]
    BY <1>1
<1> HIDE DEF t
<1>3. t = b
    BY <1>1, <1>2, SeqEqual
<1> QED
    BY <1>3 DEF t, s

\* What stands where in s, four fields one after the other.
MadeOf(s, a, b, c, d) ==
    /\ Len(s) = Len(a) + Len(b) + Len(c) + Len(d)
    /\ SubSeq(s, 1, Len(a)) = a
    /\ SubSeq(s, Len(a) + 1, Len(a) + Len(b)) = b
    /\ SubSeq(s, Len(a) + Len(b) + 1, Len(a) + Len(b) + Len(c)) = c
    /\ SubSeq(s, Len(a) + Len(b) + Len(c) + 1, Len(a) + Len(b) + Len(c) + Len(d)) = d

LEMMA Parts ==
    ASSUME NEW S, NEW a \in Seq(S), NEW b \in Seq(S), NEW c \in Seq(S), NEW d \in Seq(S)
    PROVE  /\ a \o b \o c \o d \in Seq(S)
           /\ MadeOf(a \o b \o c \o d, a, b, c, d)
<1> DEFINE s == ((a \o b) \o c) \o d
           e == << >>
<1>0. e \in Seq(S) /\ Len(e) = 0
    OBVIOUS
<1> HIDE DEF e
<1>1. /\ a \o b \in Seq(S) /\ Len(a \o b) = Len(a) + Len(b)
      /\ (a \o b) \o c \in Seq(S) /\ Len((a \o b) \o c) = Len(a) + Len(b) + Len(c)
      /\ c \o d \in Seq(S) /\ b \o (c \o d) \in Seq(S)
      /\ s \in Seq(S) /\ Len(s) = Len(a) + Len(b) + Len(c) + Len(d)
    <2>1. a \o b \in Seq(S) /\ Len(a \o b) = Len(a) + Len(b)
        OBVIOUS
    <2>2. (a \o b) \o c \in Seq(S) /\ Len((a \o b) \o c) = Len(a) + Len(b) + Len(c)
        BY <2>1, ConcatProperties
    <2>3. s \in Seq(S) /\ Len(s) = Len(a) + Len(b) + Len(c) + Len(d)
        BY <2>2, ConcatProperties
    <2>4. c \o d \in Seq(S)
        OBVIOUS
    <2>5. b \o (c \o d) \in Seq(S)
        BY <2>4, ConcatProperties
    <2> QED
        BY <2>1, <2>2, <2>3, <2>4, <2>5
<1>2. /\ s = (a \o b) \o (c \o d)
      /\ s = (e \o a) \o (b \o (c \o d))
      /\ s = (((a \o b) \o c) \o d) \o e
    <2>1. s = (a \o b) \o (c \o d)
        BY <1>1, ConcatAssociative
    <2>2. (a \o b) \o (c \o d) = a \o (b \o (c \o d))
        BY <1>1, ConcatAssociative
    <2>3. e \o a = a /\ s \o e = s
        BY <1>1, ConcatEmptySeq DEF e
    <2> QED
        BY <2>1, <2>2, <2>3
<1>3. SubSeq(s, 1, Len(a)) = a
    <2>1. SubSeq((e \o a) \o (b \o (c \o d)), Len(e) + 1, Len(e) + Len(a)) = a
        BY <1>0, <1>1, Middle
    <2>2. Len(e) + 1 = 1 /\ Len(e) + Len(a) = Len(a)
        BY <1>0
    <2> QED
        BY <1>2, <2>1, <2>2
<1>4. SubSeq(s, Len(a) + 1, Len(a) + Len(b)) = b
    BY <1>1, <1>2, Middle
<1>5. SubSeq(s, Len(a) + Len(b) + 1, Len(a) + Len(b) + Len(c)) = c
    <2>1. SubSeq(((a \o b) \o c) \o d, Len(a \o b) + 1, Len(a \o b) + Len(c)) = c
        BY <1>1, Middle
    <2> QED
        BY <1>1, <2>1
<1>6. SubSeq(s, Len(a) + Len(b) + Len(c) + 1, Len(a) + Len(b) + Len(c) + Len(d)) = d
    <2>1. SubSeq((((a \o b) \o c) \o d) \o e, Len((a \o b) \o c) + 1, Len((a \o b) \o c) + Len(d)) = d
        BY <1>0, <1>1, Middle
    <2> QED
        BY <1>1, <1>2, <2>1
<1>7. s \in Seq(S)
    BY <1>1
<1>8. Len(s) = Len(a) + Len(b) + Len(c) + Len(d)
    BY <1>1
<1> HIDE DEF s
<1>9. MadeOf(s, a, b, c, d)
    BY <1>3, <1>4, <1>5, <1>6, <1>8 DEF MadeOf
<1> QED
    BY <1>7, <1>9 DEF s

LEMMA TwoParts ==
    ASSUME NEW S, NEW a \in Seq(S), NEW b \in Seq(S)
    PROVE  /\ SubSeq(a \o b, 1, Len(a)) = a
           /\ SubSeq(a \o b, Len(a) + 1, Len(a) + Len(b)) = b
<1> DEFINE e == << >>
           s == a \o b
<1>1. e \in Seq(S) /\ Len(e) = 0
    OBVIOUS
<1> HIDE DEF e
<1>2. s = (e \o a) \o b /\ s = (a \o b) \o e
    BY ConcatEmptySeq, ConcatProperties DEF e
<1>3. SubSeq(s, Len(e) + 1, Len(e) + Len(a)) = a
    BY <1>1, <1>2, Middle
<1>4. SubSeq(s, Len(a) + 1, Len(a) + Len(b)) = b
    BY <1>1, <1>2, Middle
<1>5. Len(e) + 1 = 1 /\ Len(e) + Len(a) = Len(a)
    BY <1>1
<1> QED
    BY <1>3, <1>4, <1>5

LEMMA PartRead ==
    ASSUME NEW w \in Widths, NEW k \in Int, Fits(k, w), NEW o \in Nat, NEW data,
           SubSeq(data, o + 1, o + w) = SignedDigits(k, w)
    PROVE  ReadField(data, [offset |-> o, bytes |-> w]) = k
BY NumbersReadBack DEF ReadField

FourRead(data, v, w, x, y, j, k, l, m) ==
    /\ data \in Seq(Byte)
    /\ Len(data) = v + w + x + y
    /\ ReadField(data, [offset |-> 0, bytes |-> v]) = j
    /\ ReadField(data, [offset |-> v, bytes |-> w]) = k
    /\ ReadField(data, [offset |-> v + w, bytes |-> x]) = l
    /\ ReadField(data, [offset |-> v + w + x, bytes |-> y]) = m

\* Four fields that fit are read back, wherever the widths put them.
LEMMA FourFields ==
    ASSUME NEW v \in Widths, NEW w \in Widths, NEW x \in Widths, NEW y \in Widths,
           NEW j \in Int, NEW k \in Int, NEW l \in Int, NEW m \in Int,
           Fits(j, v), Fits(k, w), Fits(l, x), Fits(m, y)
    PROVE  FourRead(SignedDigits(j, v) \o SignedDigits(k, w) \o SignedDigits(l, x) \o SignedDigits(m, y),
                   v, w, x, y, j, k, l, m)
<1> DEFINE a == SignedDigits(j, v)
           b == SignedDigits(k, w)
           c == SignedDigits(l, x)
           d == SignedDigits(m, y)
           data == a \o b \o c \o d
<1>1. /\ a \in Seq(Byte) /\ Len(a) = v
      /\ b \in Seq(Byte) /\ Len(b) = w
      /\ c \in Seq(Byte) /\ Len(c) = x
      /\ d \in Seq(Byte) /\ Len(d) = y
    BY SignedDigitsAreBytes
<1>2. v \in Nat /\ w \in Nat /\ x \in Nat /\ y \in Nat
    BY DEF Widths
<1> HIDE DEF a, b, c, d
<1>3. /\ data \in Seq(Byte)
      /\ Len(data) = v + w + x + y
      /\ SubSeq(data, 1, v) = a
      /\ SubSeq(data, v + 1, v + w) = b
      /\ SubSeq(data, v + w + 1, v + w + x) = c
      /\ SubSeq(data, v + w + x + 1, v + w + x + y) = d
    <2>1. data \in Seq(Byte) /\ MadeOf(data, a, b, c, d)
        BY <1>1, Parts
    <2> HIDE DEF data
    <2> QED
        BY <1>1, <2>1 DEF MadeOf
<1> HIDE DEF data
<1>4. ReadField(data, [offset |-> 0, bytes |-> v]) = j
    <2>1. 0 + 1 = 1 /\ 0 + v = v
        BY <1>2
    <2>2. SubSeq(data, 0 + 1, 0 + v) = SignedDigits(j, v)
        BY <1>3, <2>1 DEF a
    <2> QED
        BY <2>2, PartRead
<1>5. ReadField(data, [offset |-> v, bytes |-> w]) = k
    <2>1. SubSeq(data, v + 1, v + w) = SignedDigits(k, w)
        BY <1>3 DEF b
    <2> QED
        BY <1>2, <2>1, PartRead
<1>6. ReadField(data, [offset |-> v + w, bytes |-> x]) = l
    <2>1. SubSeq(data, v + w + 1, v + w + x) = SignedDigits(l, x) /\ v + w \in Nat
        BY <1>2, <1>3 DEF c
    <2> QED
        BY <2>1, PartRead
<1>7. ReadField(data, [offset |-> v + w + x, bytes |-> y]) = m
    <2>1. SubSeq(data, v + w + x + 1, v + w + x + y) = SignedDigits(m, y) /\ v + w + x \in Nat
        BY <1>2, <1>3 DEF d
    <2> QED
        BY <2>1, PartRead
<1> QED
    BY <1>3, <1>4, <1>5, <1>6, <1>7 DEF FourRead, data, a, b, c, d

ThreeRead(data, v, w, x, j, k, l) ==
    /\ data \in Seq(Byte)
    /\ Len(data) = v + w + x
    /\ ReadField(data, [offset |-> 0, bytes |-> v]) = j
    /\ ReadField(data, [offset |-> v, bytes |-> w]) = k
    /\ ReadField(data, [offset |-> v + w, bytes |-> x]) = l

LEMMA ThreeFields ==
    ASSUME NEW v \in Widths, NEW w \in Widths, NEW x \in Widths,
           NEW j \in Int, NEW k \in Int, NEW l \in Int,
           Fits(j, v), Fits(k, w), Fits(l, x)
    PROVE  ThreeRead(SignedDigits(j, v) \o SignedDigits(k, w) \o SignedDigits(l, x),
                   v, w, x, j, k, l)
<1> DEFINE a == SignedDigits(j, v)
           b == SignedDigits(k, w)
           c == SignedDigits(l, x)
           data == a \o b \o c
<1>0. v \in Nat /\ w \in Nat /\ x \in Nat
    BY DEF Widths
<1>1. /\ a \in Seq(Byte) /\ Len(a) = v
      /\ b \in Seq(Byte) /\ Len(b) = w
      /\ c \in Seq(Byte) /\ Len(c) = x
      /\ v \in Nat /\ w \in Nat /\ x \in Nat
    BY <1>0, SignedDigitsAreBytes
<1> HIDE DEF a, b, c
<1>2. data \in Seq(Byte) /\ data \o << >> = data /\ << >> \in Seq(Byte) /\ Len(<< >>) = 0
    <2>1. a \o b \in Seq(Byte)
        BY <1>1
    <2>2. data \in Seq(Byte)
        BY <1>1, <2>1, ConcatProperties
    <2> QED
        BY <2>2, ConcatEmptySeq
<1>3. /\ Len(data) = v + w + x
      /\ SubSeq(data, 1, v) = a
      /\ SubSeq(data, v + 1, v + w) = b
      /\ SubSeq(data, v + w + 1, v + w + x) = c
    <2> DEFINE e == << >>
    <2>1. e \in Seq(Byte) /\ Len(e) = 0 /\ data \o e = data
        BY <1>2
    <2> HIDE DEF e
    <2>2. MadeOf(data \o e, a, b, c, e)
        BY <1>1, <2>1, Parts
    <2>3. MadeOf(data, a, b, c, e)
        BY <2>1, <2>2
    <2> HIDE DEF data
    <2> QED
        BY <1>1, <2>1, <2>3 DEF MadeOf
<1>4. data \in Seq(Byte)
    BY <1>2
<1> HIDE DEF data
<1>5. ReadField(data, [offset |-> 0, bytes |-> v]) = j
    <2>1. 0 + 1 = 1 /\ 0 + v = v
        BY <1>1
    <2>2. SubSeq(data, 0 + 1, 0 + v) = SignedDigits(j, v)
        BY <1>3, <2>1 DEF a
    <2> QED
        BY <2>2, PartRead
<1>6. ReadField(data, [offset |-> v, bytes |-> w]) = k
    <2>1. SubSeq(data, v + 1, v + w) = SignedDigits(k, w)
        BY <1>3 DEF b
    <2> QED
        BY <1>1, <2>1, PartRead
<1>7. ReadField(data, [offset |-> v + w, bytes |-> x]) = l
    <2>1. SubSeq(data, v + w + 1, v + w + x) = SignedDigits(l, x) /\ v + w \in Nat
        BY <1>1, <1>3 DEF c
    <2> QED
        BY <2>1, PartRead
<1> QED
    BY <1>3, <1>4, <1>5, <1>6, <1>7 DEF ThreeRead, data, a, b, c

TwoRead(data, v, w, j, k) ==
    /\ data \in Seq(Byte)
    /\ Len(data) = v + w
    /\ ReadField(data, [offset |-> 0, bytes |-> v]) = j
    /\ ReadField(data, [offset |-> v, bytes |-> w]) = k

LEMMA TwoFields ==
    ASSUME NEW v \in Widths, NEW w \in Widths, NEW j \in Int, NEW k \in Int,
           Fits(j, v), Fits(k, w)
    PROVE  TwoRead(SignedDigits(j, v) \o SignedDigits(k, w),
                   v, w, j, k)
<1> DEFINE a == SignedDigits(j, v)
           b == SignedDigits(k, w)
           data == a \o b
<1>0. v \in Nat /\ w \in Nat
    BY DEF Widths
<1>1. /\ a \in Seq(Byte) /\ Len(a) = v
      /\ b \in Seq(Byte) /\ Len(b) = w
    BY SignedDigitsAreBytes
<1> HIDE DEF a, b
<1>2. data \in Seq(Byte) /\ Len(data) = v + w
    BY <1>1
<1>3. SubSeq(data, 1, v) = a /\ SubSeq(data, v + 1, v + w) = b
    BY <1>1, TwoParts
<1> HIDE DEF data
<1>5. ReadField(data, [offset |-> 0, bytes |-> v]) = j
    <2>1. 0 + 1 = 1 /\ 0 + v = v
        BY <1>0
    <2>2. SubSeq(data, 0 + 1, 0 + v) = SignedDigits(j, v)
        BY <1>3, <2>1 DEF a
    <2> QED
        BY <2>2, PartRead
<1>6. ReadField(data, [offset |-> v, bytes |-> w]) = k
    <2>1. SubSeq(data, v + 1, v + w) = SignedDigits(k, w)
        BY <1>3 DEF b
    <2> QED
        BY <1>0, <2>1, PartRead
<1> QED
    BY <1>2, <1>5, <1>6 DEF TwoRead, data, a, b

-----------------------------------------------------------------------------
(* STATUS frames                                                            *)

LEMMA StatusNames ==
    /\ DOMAIN StatusFields = {"STATUS", "STATUS_2", "STATUS_3", "STATUS_4", "STATUS_5", "STATUS_6"}
    /\ DOMAIN StatusWidths = DOMAIN StatusFields
    /\ DOMAIN StatusFields \subseteq DOMAIN PacketId
    /\ \A name \in DOMAIN StatusFields : PacketId[name] # 40
BY DEF StatusFields, StatusWidths, PacketId

\* A frame with the id of a status is that status, or cut short.
LEMMA DecodedByName ==
    ASSUME NEW node \in 0..255, NEW name \in DOMAIN StatusFields, NEW data, Len(data) \in Nat
    PROVE  DecodeFrame([id |-> ArbitrationId(PacketId[name], node), data |-> data]) =
               IF Len(data) >= ShortestStatus(name)
               THEN [node |-> node, name |-> name,
                     values |-> [i \in DOMAIN StatusFields[name] |->
                                    ReadField(data, StatusFields[name][i])]]
               ELSE None
<1> DEFINE frame == [id |-> ArbitrationId(PacketId[name], node), data |-> data]
           names == {n \in DOMAIN StatusFields :
                        /\ PacketId[n] = PacketOf(frame.id)
                        /\ Len(frame.data) >= ShortestStatus(n)}
<1>1. PacketOf(frame.id) = PacketId[name] /\ AddresseeOf(frame.id) = node /\ frame.data = data
    <2>1. PacketId[name] \in Nat
        BY StatusNames, PacketIds
    <2> QED
        BY <2>1, IdReadBack
<1>2. \A n \in DOMAIN StatusFields : PacketId[n] = PacketId[name] <=> n = name
    BY StatusNames, PacketIds
<1>3. names = IF Len(data) >= ShortestStatus(name) THEN {name} ELSE {}
    BY <1>1, <1>2
<1>4. CASE Len(data) >= ShortestStatus(name)
    <2>1. names = {name}
        BY <1>3, <1>4
    <2>2. (CHOOSE n \in names : TRUE) = name
        BY <2>1
    <2> QED
        BY <1>1, <1>4, <2>1, <2>2 DEF DecodeFrame
<1>5. CASE ~(Len(data) >= ShortestStatus(name))
    BY <1>3, <1>5 DEF DecodeFrame
<1> QED
    BY <1>4, <1>5

LEMMA FitWidths ==
    ASSUME NEW name \in DOMAIN StatusFields
    PROVE  \A i \in DOMAIN StatusWidths[name] : StatusWidths[name][i] \in Widths
BY StatusNames DEF StatusWidths, Widths

\* Values that the fields of a status can hold.
Reportable(name, values) ==
    /\ values \in Seq(Int)
    /\ Len(values) = Len(StatusWidths[name])
    /\ \A i \in 1..Len(values) : Fits(values[i], StatusWidths[name][i])

StatusData(name, values) ==
    Concatenated([i \in DOMAIN values |-> SignedDigits(values[i], StatusWidths[name][i])])

\* What the decoder needs of the data.
ReadsBack(data, name, values) ==
    /\ data \in Seq(Byte)
    /\ Len(data) >= ShortestStatus(name)
    /\ DOMAIN StatusFields[name] = 1..Len(values)
    /\ \A i \in 1..Len(values) : ReadField(data, StatusFields[name][i]) = values[i]

LEMMA TwoFieldStatus ==
    ASSUME NEW name \in {"STATUS_2", "STATUS_3", "STATUS_5"}, NEW values, Reportable(name, values)
    PROVE  ReadsBack(StatusData(name, values), name, values)
<1> DEFINE w == StatusWidths[name][2]
           j == values[1]
           k == values[2]
           list == [i \in DOMAIN values |-> SignedDigits(values[i], StatusWidths[name][i])]
<1>1. /\ w \in Widths /\ 4 \in Widths
      /\ StatusWidths[name][1] = 4 /\ Len(StatusWidths[name]) = 2
      /\ StatusFields[name] = <<[offset |-> 0, bytes |-> 4], [offset |-> 4, bytes |-> w]>>
      /\ ShortestStatus(name) <= 4 + w
    BY DEF StatusWidths, StatusFields, I32, I16, ShortestStatus, Widths
<1>2. /\ values \in Seq(Int) /\ Len(values) = 2
      /\ j \in Int /\ k \in Int /\ Fits(j, 4) /\ Fits(k, w)
    BY <1>1 DEF Reportable
<1>3. Len(list) = 2 /\ list[1] = SignedDigits(j, 4) /\ list[2] = SignedDigits(k, w)
    BY <1>1, <1>2
<1>4. StatusData(name, values) = SignedDigits(j, 4) \o SignedDigits(k, w)
    <2> HIDE DEF list, j, k, w
    <2>1. Concatenated(list) = list[1] \o list[2]
        BY <1>3 DEF Concatenated
    <2> QED
        BY <1>3, <2>1 DEF StatusData, list
<1> DEFINE data == SignedDigits(j, 4) \o SignedDigits(k, w)
<1>5. /\ data \in Seq(Byte)
      /\ Len(data) = 4 + w
      /\ ReadField(data, [offset |-> 0, bytes |-> 4]) = j
      /\ ReadField(data, [offset |-> 4, bytes |-> w]) = k
    <2> HIDE DEF j, k, w
    <2>1. TwoRead(data, 4, w, j, k)
        BY <1>1, <1>2, TwoFields
    <2> QED
        BY <2>1 DEF TwoRead
<1> HIDE DEF data, list, w
<1>6. ReadsBack(data, name, values)
    BY <1>1, <1>2, <1>5 DEF ReadsBack
<1> QED
    BY <1>4, <1>6 DEF data

LEMMA ThreeFieldStatus ==
    ASSUME NEW values, Reportable("STATUS", values)
    PROVE  ReadsBack(StatusData("STATUS", values), "STATUS", values)
<1> DEFINE j == values[1]
           k == values[2]
           l == values[3]
           list == [i \in DOMAIN values |-> SignedDigits(values[i], StatusWidths["STATUS"][i])]
<1>1. /\ 2 \in Widths /\ 4 \in Widths
      /\ Len(StatusWidths["STATUS"]) = 3
      /\ StatusWidths["STATUS"][1] = 4 /\ StatusWidths["STATUS"][2] = 2
      /\ StatusWidths["STATUS"][3] = 2
      /\ StatusFields["STATUS"] = <<[offset |-> 0, bytes |-> 4], [offset |-> 4, bytes |-> 2],
                                    [offset |-> 6, bytes |-> 2]>>
      /\ ShortestStatus("STATUS") = 8
    BY DEF StatusWidths, StatusFields, I32, I16, ShortestStatus, Widths
<1>2. /\ values \in Seq(Int) /\ Len(values) = 3
      /\ j \in Int /\ k \in Int /\ l \in Int
      /\ Fits(j, 4) /\ Fits(k, 2) /\ Fits(l, 2)
    <2>1. values \in Seq(Int) /\ Len(values) = 3
        BY <1>1 DEF Reportable
    <2>2. \A i \in 1..3 : Fits(values[i], StatusWidths["STATUS"][i])
        BY <2>1 DEF Reportable
    <2>3. Fits(j, 4) /\ Fits(k, 2) /\ Fits(l, 2)
        BY <1>1, <2>2
    <2> QED
        BY <2>1, <2>3
<1>3. /\ Len(list) = 3 /\ list[1] = SignedDigits(j, 4) /\ list[2] = SignedDigits(k, 2)
      /\ list[3] = SignedDigits(l, 2)
    BY <1>1, <1>2
<1>4. StatusData("STATUS", values) = SignedDigits(j, 4) \o SignedDigits(k, 2) \o SignedDigits(l, 2)
    <2> HIDE DEF list, j, k, l
    <2>1. Concatenated(list) = list[1] \o list[2] \o list[3]
        BY <1>3 DEF Concatenated
    <2> QED
        BY <1>3, <2>1 DEF StatusData, list
<1> DEFINE data == SignedDigits(j, 4) \o SignedDigits(k, 2) \o SignedDigits(l, 2)
<1>5. /\ data \in Seq(Byte)
      /\ Len(data) = 8
      /\ ReadField(data, [offset |-> 0, bytes |-> 4]) = j
      /\ ReadField(data, [offset |-> 4, bytes |-> 2]) = k
      /\ ReadField(data, [offset |-> 6, bytes |-> 2]) = l
    <2> HIDE DEF j, k, l
    <2>1. ThreeRead(data, 4, 2, 2, j, k, l)
        BY <1>1, <1>2, ThreeFields
    <2> HIDE DEF data
    <2> QED
        BY <2>1 DEF ThreeRead
<1> HIDE DEF data, list
<1>6. ReadsBack(data, "STATUS", values)
    BY <1>1, <1>2, <1>5 DEF ReadsBack
<1> QED
    BY <1>4, <1>6 DEF data

LEMMA FourFieldStatus ==
    ASSUME NEW name \in {"STATUS_4", "STATUS_6"}, NEW values, Reportable(name, values)
    PROVE  ReadsBack(StatusData(name, values), name, values)
<1> DEFINE j == values[1]
           k == values[2]
           l == values[3]
           m == values[4]
           list == [i \in DOMAIN values |-> SignedDigits(values[i], StatusWidths[name][i])]
<1>1. /\ 2 \in Widths
      /\ StatusWidths[name] = <<2, 2, 2, 2>>
      /\ StatusFields[name] = <<[offset |-> 0, bytes |-> 2], [offset |-> 2, bytes |-> 2],
                                [offset |-> 4, bytes |-> 2], [offset |-> 6, bytes |-> 2]>>
      /\ ShortestStatus(name) = 8
    BY DEF StatusWidths, StatusFields, I16, ShortestStatus, Widths
<1>2. /\ values \in Seq(Int) /\ Len(values) = 4
      /\ j \in Int /\ k \in Int /\ l \in Int /\ m \in Int
      /\ Fits(j, 2) /\ Fits(k, 2) /\ Fits(l, 2) /\ Fits(m, 2)
    <2>1. values \in Seq(Int) /\ Len(values) = 4
        BY <1>1 DEF Reportable
    <2>2. \A i \in 1..4 : Fits(values[i], StatusWidths[name][i])
        BY <2>1 DEF Reportable
    <2>3. \A i \in 1..4 : StatusWidths[name][i] = 2
        BY <1>1
    <2>4. Fits(j, 2) /\ Fits(k, 2) /\ Fits(l, 2) /\ Fits(m, 2)
        BY <2>2, <2>3
    <2>5. \A i \in 1..4 : values[i] \in Int
        BY <2>1, ElementOfSeq
    <2>6. j \in Int /\ k \in Int /\ l \in Int /\ m \in Int
        BY <2>5
    <2> QED
        BY <2>1, <2>4, <2>6
<1>3. /\ Len(list) = 4 /\ list[1] = SignedDigits(j, 2) /\ list[2] = SignedDigits(k, 2)
      /\ list[3] = SignedDigits(l, 2) /\ list[4] = SignedDigits(m, 2)
    BY <1>1, <1>2
<1>4. StatusData(name, values) =
          SignedDigits(j, 2) \o SignedDigits(k, 2) \o SignedDigits(l, 2) \o SignedDigits(m, 2)
    <2> HIDE DEF list, j, k, l, m
    <2>1. Concatenated(list) = list[1] \o list[2] \o list[3] \o list[4]
        BY <1>3 DEF Concatenated
    <2> QED
        BY <1>3, <2>1 DEF StatusData, list
<1> DEFINE data == SignedDigits(j, 2) \o SignedDigits(k, 2) \o SignedDigits(l, 2) \o SignedDigits(m, 2)
<1>5. /\ data \in Seq(Byte)
      /\ Len(data) = 8
      /\ ReadField(data, [offset |-> 0, bytes |-> 2]) = j
      /\ ReadField(data, [offset |-> 2, bytes |-> 2]) = k
      /\ ReadField(data, [offset |-> 4, bytes |-> 2]) = l
      /\ ReadField(data, [offset |-> 6, bytes |-> 2]) = m
    <2> HIDE DEF j, k, l, m
    <2>1. FourRead(data, 2, 2, 2, 2, j, k, l, m)
        BY <1>1, <1>2, FourFields
    <2> HIDE DEF data
    <2> QED
        BY <2>1 DEF FourRead
<1> HIDE DEF data, list
<1>6. ReadsBack(data, name, values)
    BY <1>1, <1>2, <1>5 DEF ReadsBack
<1> QED
    BY <1>4, <1>6 DEF data

LEMMA StatusReads ==
    ASSUME NEW name \in DOMAIN StatusFields, NEW values, Reportable(name, values)
    PROVE  ReadsBack(StatusData(name, values), name, values)
<1>1. name \in {"STATUS_2", "STATUS_3", "STATUS_5"} \/ name = "STATUS" \/ name \in {"STATUS_4", "STATUS_6"}
    BY StatusNames
<1> QED
    BY <1>1, TwoFieldStatus, ThreeFieldStatus, FourFieldStatus

\* Every status, from every controller, with whatever its fields can hold up to
\* the ends of their ranges, is decoded as the controller reported it
\* (decode_frame): the widths, the offsets and the signs are right together.
THEOREM StatusReadBack ==
    ASSUME NEW node \in 0..255, NEW name \in DOMAIN StatusFields, NEW values,
           Reportable(name, values)
    PROVE  DecodeFrame(StatusFrame(node, name, values)) =
               [node |-> node, name |-> name, values |-> values]
<1> DEFINE data == StatusData(name, values)
<1>1. ReadsBack(data, name, values)
    BY StatusReads
<1>2. StatusFrame(node, name, values) = [id |-> ArbitrationId(PacketId[name], node), data |-> data]
    BY DEF StatusFrame, StatusData
<1> HIDE DEF data
<1>3. Len(data) \in Nat
    BY <1>1 DEF ReadsBack
<1>4. DecodeFrame(StatusFrame(node, name, values)) =
          [node |-> node, name |-> name,
           values |-> [i \in DOMAIN StatusFields[name] |-> ReadField(data, StatusFields[name][i])]]
    BY <1>1, <1>2, <1>3, DecodedByName DEF ReadsBack
<1>5. [i \in DOMAIN StatusFields[name] |-> ReadField(data, StatusFields[name][i])] =
          [i \in 1..Len(values) |-> values[i]]
    BY <1>1 DEF ReadsBack
<1>6. [i \in 1..Len(values) |-> values[i]] = values
    BY DEF Reportable
<1> QED
    BY <1>4, <1>5, <1>6

-----------------------------------------------------------------------------
(* Commands                                                                 *)

CommandName(c) == IF c.store THEN StoredPacket[c.op] ELSE c.op
Steps(c) == [i \in 1..Len(c.values) |-> RoundedHalfSteps(c.values[i])]
DelaySteps(c) == IF c.delay = NoDelay THEN NoDelay ELSE RoundedHalfSteps(c.delay)

\* What a controller makes of a frame of this packet.
Understood(frame, name, values, delay) ==
    Heard(frame) = [name |-> name, values |-> values, delay |-> delay]

LEMMA EnvelopeNames ==
    /\ Envelope = {"CONF_CURRENT_LIMITS", "CONF_CURRENT_LIMITS_IN", "CONF_FOC_ERPMS", "CONF_BATTERY_CUT"}
    /\ \A e \in Envelope :
          /\ e \in DOMAIN PacketId /\ StoredPacket[e] \in DOMAIN PacketId
          /\ StoredPacket[e] # e
          /\ StoredPacket[e] # "SET_CURRENT" /\ e # "SET_CURRENT" /\ e # "SET_CURRENT_REL"
BY DEF Envelope, StoredPacket, PacketId

LEMMA OneValueNames ==
    /\ OneValue \subseteq DOMAIN PacketId
    /\ "SHUTDOWN" \in DOMAIN PacketId
    /\ "SHUTDOWN" \notin OneValue
BY DEF OneValue, Relative, PacketId

LEMMA CommandNames ==
    ASSUME NEW c \in Commands
    PROVE  /\ CommandName(c) \in DOMAIN PacketId
           /\ CommandName(c) = "SET_CURRENT" <=> c.op = "SET_CURRENT"
BY CommandsAssumption, EnvelopeNames, OneValueNames DEF CommandName

LEMMA NameHeard ==
    ASSUME NEW name \in DOMAIN PacketId, NEW to \in 0..255
    PROVE  NameOf(PacketOf(ArbitrationId(PacketId[name], to))) = name
<1>1. PacketOf(ArbitrationId(PacketId[name], to)) = PacketId[name]
    BY PacketIds, IdReadBack
<1>2. \A n \in DOMAIN PacketId : PacketId[n] = PacketId[name] => n = name
    BY PacketIds
<1> QED
    BY <1>1, <1>2 DEF NameOf

\* What a controller reads in data of each length.
LEMMA HeardByLength ==
    ASSUME NEW name \in DOMAIN PacketId, NEW to \in 0..255, NEW data
    PROVE  LET frame == [id |-> ArbitrationId(PacketId[name], to), data |-> data]
           IN  /\ Len(data) = 0 => Understood(frame, name, << >>, NoDelay)
               /\ Len(data) = 4 => Understood(frame, name, <<NumberAt(data, 0, 4)>>, NoDelay)
               /\ Len(data) = 8 => Understood(frame, name, <<NumberAt(data, 0, 4), NumberAt(data, 4, 4)>>,
                                              NoDelay)
               /\ Len(data) = 6 => IF name = "SET_CURRENT"
                                   THEN Understood(frame, name, <<NumberAt(data, 2, 4)>>,
                                                   NumberAt(data, 0, 2))
                                   ELSE Understood(frame, name, <<NumberAt(data, 0, 4)>>,
                                                   NumberAt(data, 4, 2))
<1> DEFINE frame == [id |-> ArbitrationId(PacketId[name], to), data |-> data]
<1>1. NameOf(PacketOf(frame.id)) = name /\ frame.data = data
    BY NameHeard
<1> HIDE DEF frame
<1> USE DEF Understood, Heard
<1>2. ASSUME Len(data) = 0 PROVE Understood(frame, name, << >>, NoDelay)
    BY <1>1, <1>2
<1>3. ASSUME Len(data) = 4 PROVE Understood(frame, name, <<NumberAt(data, 0, 4)>>, NoDelay)
    BY <1>1, <1>3
<1>4. ASSUME Len(data) = 8
      PROVE  Understood(frame, name, <<NumberAt(data, 0, 4), NumberAt(data, 4, 4)>>, NoDelay)
    BY <1>1, <1>4
<1>5. ASSUME Len(data) = 6, name = "SET_CURRENT"
      PROVE  Understood(frame, name, <<NumberAt(data, 2, 4)>>, NumberAt(data, 0, 2))
    BY <1>1, <1>5
<1>6. ASSUME Len(data) = 6, name # "SET_CURRENT"
      PROVE  Understood(frame, name, <<NumberAt(data, 0, 4)>>, NumberAt(data, 4, 2))
    BY <1>1, <1>6
<1> HIDE DEF Understood, Heard
<1> QED
    BY <1>2, <1>3, <1>4, <1>5, <1>6 DEF frame

LEMMA NumberRead ==
    ASSUME NEW data, NEW o, NEW w
    PROVE  NumberAt(data, o, w) = ReadField(data, [offset |-> o, bytes |-> w])
BY DEF NumberAt, ReadField

LEMMA WholeNumber ==
    ASSUME NEW w \in Widths, NEW k \in Int, Fits(k, w)
    PROVE  NumberAt(SignedDigits(k, w), 0, w) = k
<1> DEFINE data == SignedDigits(k, w)
<1>1. data \in Seq(Byte) /\ Len(data) = w /\ w \in Nat
    <2>1. w \in Nat
        BY DEF Widths
    <2> QED
        BY <2>1, SignedDigitsAreBytes
<1> HIDE DEF data
<1>2. SubSeq(data, 1, Len(data)) = data
    BY <1>1, SubSeqFull
<1>3. 0 + 1 = 1 /\ 0 + w = Len(data)
    BY <1>1
<1> QED
    BY <1>2, <1>3, NumbersReadBack DEF NumberAt, data

\* The values that go onto the bus fit their fields.
LEMMA StepsFit ==
    ASSUME NEW c \in Commands, Encodable(c)
    PROVE  /\ \A i \in 1..Len(c.values) :
                 /\ Steps(c)[i] \in Int
                 /\ Fits(Steps(c)[i], 4)
                 /\ Scaled(c.values[i], 4) = SignedDigits(Steps(c)[i], 4)
           /\ c.delay # NoDelay => /\ DelaySteps(c) \in Int
                                   /\ Fits(DelaySteps(c), 2)
                                   /\ Scaled(c.delay, 2) = SignedDigits(DelaySteps(c), 2)
<1>1. /\ c.values \in Seq(Int)
      /\ \A i \in DOMAIN c.values : InInt32(c.values[i])
      /\ c.delay # NoDelay => c.delay \in Int /\ CheckOffDelay(c.delay)
    BY CommandsAssumption DEF Encodable
<1>2. ASSUME NEW i \in 1..Len(c.values)
      PROVE  /\ Steps(c)[i] \in Int
             /\ Fits(Steps(c)[i], 4)
             /\ Scaled(c.values[i], 4) = SignedDigits(Steps(c)[i], 4)
    <2>1. c.values[i] \in Int /\ InInt32(c.values[i])
        BY <1>1
    <2>2. Steps(c)[i] = RoundedHalfSteps(c.values[i])
        BY DEF Steps
    <2> QED
        BY <2>1, <2>2, RoundedIsNearest DEF InInt32, Scaled
<1>3. ASSUME c.delay # NoDelay
      PROVE  /\ DelaySteps(c) \in Int
             /\ Fits(DelaySteps(c), 2)
             /\ Scaled(c.delay, 2) = SignedDigits(DelaySteps(c), 2)
    <2>1. PICK half \in Nat \ {0} : Lowest(2) = -half /\ Highest(2) = half - 1
        BY Halves DEF Widths
    <2>3. RoundedHalfSteps(c.delay) \in 0..Highest(2)
        <3>1. c.delay \in Int /\ c.delay >= 0 /\ c.delay <= 2 * (half - 1)
            BY <1>1, <1>3, <2>1 DEF CheckOffDelay
        <3>2. RoundedHalfSteps(c.delay) \in Int /\ 2 * RoundedHalfSteps(c.delay) - c.delay \in -1..1
            BY <3>1, RoundedIsNearest
        <3> QED
            BY <2>1, <3>1, <3>2
    <2>4. DelaySteps(c) = RoundedHalfSteps(c.delay)
        BY <1>3 DEF DelaySteps
    <2> QED
        BY <2>1, <2>3, <2>4 DEF Fits, Scaled
<1> QED
    BY <1>2, <1>3

LEMMA ValuesOnTheBus ==
    ASSUME NEW c \in Commands, Encodable(c)
    PROVE  /\ Len(c.values) = 0 => ValueBytes(c) = << >>
           /\ Len(c.values) = 1 => ValueBytes(c) = SignedDigits(Steps(c)[1], 4)
           /\ Len(c.values) = 2 => ValueBytes(c) =
                  SignedDigits(Steps(c)[1], 4) \o SignedDigits(Steps(c)[2], 4)
<1> DEFINE list == [i \in DOMAIN c.values |-> Scaled(c.values[i], 4)]
<1>1. c.values \in Seq(Int)
    BY CommandsAssumption
<1>2. /\ Len(list) = Len(c.values)
      /\ \A i \in 1..Len(c.values) : list[i] = SignedDigits(Steps(c)[i], 4)
    BY <1>1, StepsFit
<1>3. ValueBytes(c) = Concatenated(list)
    BY DEF ValueBytes
<1> HIDE DEF list
<1>4. ASSUME Len(c.values) = 0 PROVE ValueBytes(c) = << >>
    BY <1>2, <1>3, <1>4 DEF Concatenated
<1>5. ASSUME Len(c.values) = 1 PROVE ValueBytes(c) = SignedDigits(Steps(c)[1], 4)
    BY <1>2, <1>3, <1>5 DEF Concatenated
<1>6. ASSUME Len(c.values) = 2
      PROVE  ValueBytes(c) = SignedDigits(Steps(c)[1], 4) \o SignedDigits(Steps(c)[2], 4)
    <2>1. Concatenated(list) = list[1] \o list[2]
        BY <1>2, <1>6 DEF Concatenated
    <2> QED
        BY <1>2, <1>3, <1>6, <2>1
<1> QED
    BY <1>4, <1>5, <1>6

\* Whatever the method and its arguments, what a controller reads in the frame
\* is the packet, the value and the off-delay that the encoder was given, to the
\* nearest step: no encoder puts a field where it is read as another.
THEOREM HeardAsMeant ==
    ASSUME NEW c \in Commands, Encodable(c)
    PROVE  Understood(EncodeCommand(c), CommandName(c), Steps(c), DelaySteps(c))
<1> DEFINE name == CommandName(c)
           data == CommandBytes(c)
           frame == [id |-> ArbitrationId(PacketId[name], c.to), data |-> data]
           j == Steps(c)[1]
           k == Steps(c)[2]
           d == DelaySteps(c)
<1>1. EncodeCommand(c) = frame
    BY DEF EncodeCommand, CommandName
<1>2. /\ name \in DOMAIN PacketId /\ c.to \in 0..255
      /\ name = "SET_CURRENT" <=> c.op = "SET_CURRENT"
    BY CommandNames DEF Encodable
<1>3. /\ c.values \in Seq(Int)
      /\ Len(c.values) \in 0..2
      /\ Len(c.values) # 1 => c.delay = NoDelay
    <2>1. c.op \in Envelope \/ c.op = "SHUTDOWN" => c.delay = NoDelay
        BY CommandsAssumption, EnvelopeNames
    <2> QED
        BY <2>1, CommandsAssumption
<1>4. 4 \in Widths /\ 2 \in Widths
    BY DEF Widths
<1>5. /\ c.delay = NoDelay => d = NoDelay /\ data = ValueBytes(c)
      /\ c.delay # NoDelay => /\ d \in Int /\ Fits(d, 2)
                              /\ data = IF c.op = "SET_CURRENT" THEN SignedDigits(d, 2) \o ValueBytes(c)
                                        ELSE ValueBytes(c) \o SignedDigits(d, 2)
    <2>1. ASSUME c.delay = NoDelay PROVE d = NoDelay /\ data = ValueBytes(c)
        BY <2>1 DEF DelaySteps, CommandBytes
    <2>2. ASSUME c.delay # NoDelay
          PROVE  d \in Int /\ Fits(d, 2) /\ Scaled(c.delay, 2) = SignedDigits(d, 2)
        BY <2>2, StepsFit
    <2> HIDE DEF d
    <2>3. ASSUME c.delay # NoDelay
          PROVE  data = IF c.op = "SET_CURRENT" THEN Scaled(c.delay, 2) \o ValueBytes(c)
                        ELSE ValueBytes(c) \o Scaled(c.delay, 2)
        BY <2>3 DEF CommandBytes
    <2> HIDE DEF data
    <2> QED
        BY <2>1, <2>2, <2>3
<1> HIDE DEF name, data, d
<1>6. CASE Len(c.values) = 0
    <2>1. data = << >> /\ d = NoDelay
        BY <1>3, <1>5, <1>6, ValuesOnTheBus
    <2>2. Understood(frame, name, << >>, NoDelay)
        BY <1>2, <2>1, HeardByLength
    <2>3. Steps(c) = << >>
        BY <1>6 DEF Steps
    <2> QED
        BY <1>1, <2>1, <2>2, <2>3 DEF name, d
<1>7. CASE Len(c.values) = 2
    <2>1. data = SignedDigits(j, 4) \o SignedDigits(k, 4) /\ d = NoDelay
        BY <1>3, <1>5, <1>7, ValuesOnTheBus
    <2>2. j \in Int /\ k \in Int /\ Fits(j, 4) /\ Fits(k, 4)
        <3>1. 1 \in 1..Len(c.values) /\ 2 \in 1..Len(c.values)
            BY <1>7
        <3> QED
            BY <3>1, StepsFit
    <2>3. Steps(c) = <<j, k>>
        BY <1>7 DEF Steps
    <2> HIDE DEF j, k
    <2>4. TwoRead(data, 4, 4, j, k)
        BY <1>4, <2>1, <2>2, TwoFields
    <2>5. Len(data) = 8 /\ NumberAt(data, 0, 4) = j /\ NumberAt(data, 4, 4) = k
        BY <2>4, NumberRead DEF TwoRead
    <2>6. Understood(frame, name, <<j, k>>, NoDelay)
        <3>1. Understood(frame, name, <<NumberAt(data, 0, 4), NumberAt(data, 4, 4)>>, NoDelay)
            BY <1>2, <2>5, HeardByLength
        <3> QED
            BY <2>5, <3>1
    <2> QED
        BY <1>1, <2>1, <2>3, <2>6 DEF name, d
<1>8. CASE Len(c.values) = 1
    <2>1. ValueBytes(c) = SignedDigits(j, 4)
        BY <1>8, ValuesOnTheBus
    <2>2. j \in Int /\ Fits(j, 4)
        <3>1. 1 \in 1..Len(c.values)
            BY <1>8
        <3> QED
            BY <3>1, StepsFit
    <2>3. Steps(c) = <<j>>
        BY <1>8 DEF Steps
    <2> HIDE DEF j
    <2>4. CASE c.delay = NoDelay
        <3>1. data = SignedDigits(j, 4) /\ d = NoDelay
            BY <1>5, <2>1, <2>4
        <3>2. Len(data) = 4 /\ NumberAt(data, 0, 4) = j
            BY <1>4, <2>2, <3>1, SignedDigitsAreBytes, WholeNumber
        <3>3. Understood(frame, name, <<NumberAt(data, 0, 4)>>, NoDelay)
            BY <1>2, <3>2, HeardByLength
        <3> QED
            BY <1>1, <2>3, <3>1, <3>2, <3>3 DEF name, d
    <2>5. CASE c.delay # NoDelay /\ c.op = "SET_CURRENT"
        <3>1. data = SignedDigits(d, 2) \o SignedDigits(j, 4) /\ d \in Int /\ Fits(d, 2)
            BY <1>5, <2>1, <2>5
        <3>2. TwoRead(data, 2, 4, d, j)
            BY <1>4, <2>2, <3>1, TwoFields
        <3>3. Len(data) = 6 /\ NumberAt(data, 0, 2) = d /\ NumberAt(data, 2, 4) = j
            BY <3>2, NumberRead DEF TwoRead
        <3>4. Understood(frame, name, <<NumberAt(data, 2, 4)>>, NumberAt(data, 0, 2))
            BY <1>2, <2>5, <3>3, HeardByLength
        <3> QED
            BY <1>1, <2>3, <3>3, <3>4 DEF name, d
    <2>6. CASE c.delay # NoDelay /\ c.op # "SET_CURRENT"
        <3>1. data = SignedDigits(j, 4) \o SignedDigits(d, 2) /\ d \in Int /\ Fits(d, 2)
            BY <1>5, <2>1, <2>6
        <3>2. TwoRead(data, 4, 2, j, d)
            BY <1>4, <2>2, <3>1, TwoFields
        <3>3. Len(data) = 6 /\ NumberAt(data, 0, 4) = j /\ NumberAt(data, 4, 2) = d
            BY <3>2, NumberRead DEF TwoRead
        <3>4. Understood(frame, name, <<NumberAt(data, 0, 4)>>, NumberAt(data, 4, 2))
            BY <1>2, <2>6, <3>3, HeardByLength
        <3> QED
            BY <1>1, <2>3, <3>3, <3>4 DEF name, d
    <2> QED
        BY <2>4, <2>5, <2>6
<1> QED
    BY <1>3, <1>6, <1>7, <1>8

LEMMA NearestStep ==
    ASSUME NEW h \in Int
    PROVE  Nearest(h, RoundedHalfSteps(h))
<1>1. RoundedHalfSteps(h) \in Int /\ 2 * RoundedHalfSteps(h) - h \in -1..1
    BY RoundedIsNearest
<1> QED
    BY <1>1 DEF Nearest, Magnitude

LEMMA CommandMeant ==
    ASSUME NEW c \in Commands, Encodable(c)
    PROVE  Means(c, Heard(EncodeCommand(c)))
<1> DEFINE heard == Heard(EncodeCommand(c))
<1>1. heard = [name |-> CommandName(c), values |-> Steps(c), delay |-> DelaySteps(c)]
    BY HeardAsMeant DEF Understood
<1>2. heard.name = CommandName(c) /\ heard.values = Steps(c) /\ heard.delay = DelaySteps(c)
    BY <1>1
<1>3. c.values \in Seq(Int) /\ c.delay \in Int \cup {NoDelay} /\ c.store \in BOOLEAN
    BY CommandsAssumption
<1> HIDE DEF heard
<1>4. heard.name \in {c.op} \cup (IF c.store THEN {StoredPacket[c.op]} ELSE {})
    BY <1>2 DEF CommandName
<1>5. Len(heard.values) = Len(c.values)
    BY <1>2, <1>3 DEF Steps
<1>6. \A i \in DOMAIN c.values : Nearest(c.values[i], heard.values[i])
    BY <1>2, <1>3, NearestStep DEF Steps
<1>7. heard.delay = NoDelay <=> c.delay = NoDelay
    BY <1>2, <1>3, RoundedIsNearest, FramesAssumption DEF DelaySteps
<1>8. c.delay # NoDelay => Nearest(c.delay, heard.delay)
    BY <1>2, <1>3, NearestStep DEF DelaySteps
<1>9. Means(c, heard)
    BY <1>4, <1>5, <1>6, <1>7, <1>8 DEF Means
<1> QED
    BY <1>9 DEF heard

\* A command that the docstrings allow is never refused.
LEMMA AllowedIsEncodable ==
    ASSUME NEW c \in Commands, Allowed(c)
    PROVE  Encodable(c)
<1>1. c.values \in Seq(Int) /\ c.delay \in Int \cup {NoDelay} /\ One \in Nat
    BY CommandsAssumption, FramesAssumption
<1>2. /\ Lowest(4) \in Int /\ Highest(4) \in Int
      /\ Lowest(2) \in Int /\ Highest(2) \in Int
    BY Halves DEF Widths
<1>3. ASSUME NEW i \in DOMAIN c.values PROVE InInt32(c.values[i])
    <2>1. c.values[i] \in 2 * Lowest(4)..2 * Highest(4)
        BY <1>3 DEF Allowed
    <2>2. RoundedHalfSteps(c.values[i]) \in Lowest(4)..Highest(4)
        BY <1>2, <2>1, RoundedKeepsRange
    <2> QED
        BY <1>2, <2>2 DEF InInt32, Fits
<1>4. ASSUME c.op \in Relative, NEW i \in DOMAIN c.values PROVE CheckRel(c.values[i])
    <2>1. c.values[i] \in -2 * One..2 * One
        BY <1>4 DEF Allowed
    <2> QED
        BY <1>1, <2>1 DEF CheckRel, Magnitude
<1>5. ASSUME c.delay # NoDelay PROVE CheckOffDelay(c.delay)
    BY <1>2, <1>5 DEF Allowed, CheckOffDelay
<1>6. c.to \in 0..255
    BY DEF Allowed, Broadcast
<1> QED
    BY <1>3, <1>4, <1>5, <1>6 DEF Encodable

LEMMA FrameAddressee ==
    ASSUME NEW c \in Commands, Encodable(c), NEW n \in Node
    PROVE  ActsOn(n, EncodeCommand(c)) <=> c.to \in {n, Broadcast}
<1>1. CommandName(c) \in DOMAIN PacketId /\ c.to \in 0..255
    BY CommandNames DEF Encodable
<1>2. AddresseeOf(ArbitrationId(PacketId[CommandName(c)], c.to)) = c.to
    BY <1>1, PacketIds, IdReadBack
<1>3. EncodeCommand(c).id = ArbitrationId(PacketId[CommandName(c)], c.to)
    BY DEF EncodeCommand, CommandName
<1> QED
    BY <1>2, <1>3 DEF ActsOn

\* Both ends of a call that gets as far as the bus, or is refused before it.
LEMMA OrderUnderstood ==
    ASSUME NEW c \in Commands,
           \/ Encodable(c) /\ (Sent(c) \/ NotSent(c, "CanOperationError"))
           \/ ~Encodable(c) /\ NotSent(c, "ValueError")
    PROVE  CommandUnderstood'
<1>1. CASE Encodable(c) /\ Sent(c)
    <2>1. /\ order'.cmd = c /\ order'.verdict = "sent"
          /\ order'.heard = [n \in Node |-> IF ActsOn(n, EncodeCommand(c))
                                            THEN Heard(EncodeCommand(c)) ELSE None]
        BY <1>1 DEF Sent
    <2>2. \A n \in Node : IF c.to \in {n, Broadcast} THEN Means(c, order'.heard[n])
                          ELSE order'.heard[n] = None
        BY <1>1, <2>1, FrameAddressee, CommandMeant
    <2> QED
        BY <2>1, <2>2 DEF CommandUnderstood
<1>2. CASE Encodable(c) /\ NotSent(c, "CanOperationError")
    BY <1>2 DEF NotSent, CommandUnderstood
<1>3. CASE ~Encodable(c) /\ NotSent(c, "ValueError")
    <2>1. order'.cmd = c /\ order'.verdict = "ValueError"
        BY <1>3 DEF NotSent
    <2>2. ~Allowed(c)
        BY <1>3, AllowedIsEncodable
    <2> QED
        BY <2>1, <2>2 DEF CommandUnderstood
<1> QED
    BY <1>1, <1>2, <1>3

\* Every command that is sent is acted on as it was meant, and none that is
\* allowed is refused.
THEOREM CommandsUnderstood == Spec => []CommandUnderstood
<1>1. Init => CommandUnderstood
    BY DEF Init, CommandUnderstood
<1>2. ASSUME CommandUnderstood, [Next]_vars
      PROVE  CommandUnderstood'
    <2>1. ASSUME NEW c \in Commands, Command(c) PROVE CommandUnderstood'
        BY <2>1, OrderUnderstood DEF Command
    <2>2. ASSUME NEW c \in Commands, SendConf(c) PROVE CommandUnderstood'
        BY <2>2, OrderUnderstood DEF SendConf
    <2>3. CASE Forget
        BY <2>3 DEF Forget, CommandUnderstood
    <2>4. CASE UNCHANGED order
        BY <1>2, <2>4 DEF CommandUnderstood
    <2>5. RecordConf \/ Elsewhere \/ UNCHANGED vars => UNCHANGED order
        BY DEF RecordConf, Elsewhere, vars
    <2> QED
        BY <1>2, <2>1, <2>2, <2>3, <2>4, <2>5 DEF Next
<1> QED
    BY <1>1, <1>2, PTL DEF Spec

-----------------------------------------------------------------------------
(* What is on the bus is decoded to a status of a known controller          *)

LEMMA MoreInFour == Highest(2) <= Highest(4)
<1>1. PICK h \in Nat \ {0} : Numbers(2) = 2 * h /\ Highest(2) = h - 1
    BY Halves DEF Widths
<1>2. PICK k \in Nat \ {0} : Numbers(4) = 2 * k /\ Highest(4) = k - 1
    BY Halves DEF Widths
<1>3. Square <= Square * Square
    BY BaseFacts
<1> QED
    BY <1>1, <1>2, <1>3, WidthFacts

\* What a controller reports fits its fields, as long as the log is not full.
LEMMA ReadingReportable ==
    ASSUME Len(log) \in Nat, Len(log) < MaxEvents, NEW name \in DOMAIN StatusFields
    PROVE  Reportable(name, Reading(name))
<1> DEFINE r == Reading(name)
           ws == StatusWidths[name]
<1>1. /\ DOMAIN ws = 1..Len(ws) /\ Len(ws) \in 0..4
      /\ \A i \in 1..Len(ws) : ws[i] \in {2, 4}
    <2>1. \/ ws = <<2, 2, 2, 2>>
          \/ ws = <<4, 2, 2>>
          \/ ws = <<4, 4>>
          \/ ws = <<4, 2>>
        BY StatusNames DEF StatusWidths
    <2> HIDE DEF ws
    <2> QED
        BY <2>1
<1>2. ASSUME NEW i \in 1..Len(ws)
      PROVE  r[i] \in Int /\ Fits(r[i], ws[i])
    <2> DEFINE w == ws[i]
               x == Len(log) + i
    <2>1. w \in Widths /\ w \in {2, 4} /\ x \in Nat /\ x <= MaxEvents + 3
        BY <1>1, TelemetryAssumption DEF Widths
    <2>2. r[i] = IF (i + Len(log)) % 2 = 0 THEN Len(log) + i ELSE Lowest(w) + Len(log) + i
        BY <1>1 DEF Reading
    <2>3. PICK half \in Nat \ {0} : Lowest(w) = -half /\ Highest(w) = half - 1
        BY <2>1, Halves
    <2>4. x <= Highest(w)
        <3>1. PICK h2 \in Nat : Highest(2) = h2 - 1
            BY Halves DEF Widths
        <3>2. PICK h4 \in Nat : Highest(4) = h4 - 1
            BY Halves DEF Widths
        <3> QED
            BY <2>1, <3>1, <3>2, MoreInFour, TelemetryAssumption
    <2> HIDE DEF w, r
    <2>5. r[i] = x \/ r[i] = x - half
        BY <2>2, <2>3
    <2>6. Fits(r[i], w)
        BY <2>1, <2>3, <2>4, <2>5 DEF Fits
    <2> QED
        BY <2>1, <2>3, <2>5, <2>6 DEF w
<1>3. r = [i \in 1..Len(ws) |-> r[i]]
    BY <1>1 DEF Reading
<1> HIDE DEF r
<1>4. r \in Seq(Int) /\ Len(r) = Len(ws)
    BY <1>1, <1>2, <1>3
<1>5. Reportable(name, r)
    BY <1>2, <1>4 DEF Reportable
<1> QED
    BY <1>5 DEF r

LEMMA DecodedStatus ==
    ASSUME Len(log) \in Nat, Len(log) < MaxEvents, NEW n \in Node, NEW name \in DOMAIN StatusFields
    PROVE  DecodeFrame(StatusFrame(n, name, Reading(name))) =
               [node |-> n, name |-> name, values |-> Reading(name)]
<1>1. n \in 0..255
    BY TelemetryAssumption
<1> DEFINE r == Reading(name)
<1>2. Reportable(name, r)
    BY ReadingReportable
<1> HIDE DEF r
<1>3. DecodeFrame(StatusFrame(n, name, r)) = [node |-> n, name |-> name, values |-> r]
    BY <1>1, <1>2, StatusReadBack
<1> QED
    BY <1>3 DEF r

LEMMA CutShort ==
    ASSUME Len(log) \in Nat, Len(log) < MaxEvents, NEW n \in Node
    PROVE  DecodeFrame([StatusFrame(n, "STATUS", Reading("STATUS"))
                           EXCEPT !.data = SubSeq(@, 1, 6)]) = None
<1> DEFINE r == Reading("STATUS")
           data == StatusData("STATUS", r)
           short == SubSeq(data, 1, 6)
           id == ArbitrationId(PacketId["STATUS"], n)
<1>1. "STATUS" \in DOMAIN StatusFields /\ n \in 0..255
    BY StatusNames, TelemetryAssumption
<1>2. ReadsBack(data, "STATUS", r)
    BY <1>1, ReadingReportable, StatusReads
<1>3. StatusFrame(n, "STATUS", r) = [id |-> id, data |-> data]
    BY DEF StatusFrame, StatusData
<1>4. ShortestStatus("STATUS") = 8
    BY DEF ShortestStatus
<1> HIDE DEF data, r
<1>5. data \in Seq(Byte) /\ Len(data) >= 8
    BY <1>2, <1>4 DEF ReadsBack
<1>6. Len(short) = 6
    BY <1>5
<1>7. [StatusFrame(n, "STATUS", r) EXCEPT !.data = SubSeq(@, 1, 6)] = [id |-> id, data |-> short]
    BY <1>3
<1> HIDE DEF short
<1>8. DecodeFrame([id |-> id, data |-> short]) = None
    <2>1. Len(short) \in Nat /\ ~(Len(short) >= ShortestStatus("STATUS"))
        BY <1>4, <1>6
    <2>2. DecodeFrame([id |-> id, data |-> short]) =
              IF Len(short) >= ShortestStatus("STATUS")
              THEN [node |-> n, name |-> "STATUS",
                    values |-> [i \in DOMAIN StatusFields["STATUS"] |->
                                   ReadField(short, StatusFields["STATUS"][i])]]
              ELSE None
        BY <1>1, <2>1, DecodedByName
    <2> QED
        BY <2>1, <2>2
<1> QED
    BY <1>7, <1>8 DEF r

LEMMA UnknownPacket ==
    ASSUME NEW n \in Node
    PROVE  DecodeFrame([id |-> ArbitrationId(40, n), data |-> << >>]) = None
<1>1. PacketOf(ArbitrationId(40, n)) = 40
    BY IdReadBack, TelemetryAssumption
<1>2. \A name \in DOMAIN StatusFields : PacketId[name] # 40
    BY StatusNames
<1> QED
    BY <1>1, <1>2 DEF DecodeFrame

\* A frame that decodes is the status of a controller on the bus, under a name
\* that it may have, with integers in its fields.
LEMMA FrameStatus ==
    ASSUME Len(log) \in Nat, Len(log) < MaxEvents, NEW frame \in Frames,
           DecodeFrame(frame) # None
    PROVE  LET status == DecodeFrame(frame)
           IN  status.node \in Node /\ status.name \in Slot /\ status.values \in Seq(Int)
<1>1. ~ \E n \in Node :
          \/ frame = [StatusFrame(n, "STATUS", Reading("STATUS")) EXCEPT !.data = SubSeq(@, 1, 6)]
          \/ frame = [id |-> ArbitrationId(40, n), data |-> << >>]
    BY CutShort, UnknownPacket
<1>2. PICK n \in Node, name \in Slot : frame = StatusFrame(n, name, Reading(name))
    BY <1>1 DEF Frames
<1>3. name \in DOMAIN StatusFields
    BY TelemetryAssumption
<1> DEFINE r == Reading(name)
<1>4. r \in Seq(Int)
    BY <1>3, ReadingReportable DEF Reportable
<1>5. DecodeFrame(frame) = [node |-> n, name |-> name, values |-> r]
    BY <1>2, <1>3, DecodedStatus
<1> HIDE DEF r
<1> QED
    BY <1>4, <1>5

-----------------------------------------------------------------------------
(* Snapshots                                                                *)

\* The induction that the rest needs: a set of numbers has a least one.
LEMMA Least ==
    ASSUME NEW T \in SUBSET Nat, T # {}
    PROVE  \E x \in T : \A y \in T : x <= y
<1> DEFINE R == {p \in Nat \X Nat : p[1] < p[2]}
<1>1. IsWellFoundedOn(R, Nat)
    BY NatLessThanWellFounded DEF OpToRel
<1>2. \E x \in T : \A y \in T : <<y, x>> \notin R
    <2> HIDE DEF R
    <2> QED
        BY <1>1, WFMin
<1>3. PICK x \in T : \A y \in T : <<y, x>> \notin R
    BY <1>2
<1>4. \A y \in T : ~(y < x)
    BY <1>3
<1> QED
    BY <1>4

\* There is a newest one if there is any.
LEMMA HasNewest ==
    ASSUME NEW l \in Seq(Statuses), NEW n, NEW name, HeardOf(l, n, name) # {}
    PROVE  \E i \in HeardOf(l, n, name) : \A j \in HeardOf(l, n, name) : j <= i
<1> DEFINE heard == HeardOf(l, n, name)
           behind == {Len(l) - i : i \in heard}
<1>1. Len(l) \in Nat /\ heard \subseteq 1..Len(l) /\ heard # {}
    BY DEF HeardOf
<1> HIDE DEF heard
<1>2. behind \in SUBSET Nat /\ behind # {}
    BY <1>1
<1>3. PICK x \in behind : \A y \in behind : x <= y
    BY <1>2, Least
<1>4. PICK i \in heard : x = Len(l) - i
    OBVIOUS
<1>5. ASSUME NEW j \in heard PROVE j <= i
    <2>1. x <= Len(l) - j
        BY <1>3
    <2>2. i \in Nat /\ j \in Nat
        BY <1>1
    <2> QED
        BY <1>1, <1>4, <2>1, <2>2
<1> QED
    BY <1>5 DEF heard

LEMMA NewestIs ==
    ASSUME NEW l \in Seq(Statuses), NEW n, NEW name, NEW i \in HeardOf(l, n, name),
           \A j \in HeardOf(l, n, name) : j <= i
    PROVE  Newest(l, n, name) = l[i]
<1> DEFINE heard == HeardOf(l, n, name)
<1>1. heard \subseteq Int
    BY DEF HeardOf
<1> HIDE DEF heard
<1>2. i \in heard /\ \A j \in heard : j <= i
    BY DEF heard
<1>3. (CHOOSE k \in heard : \A j \in heard : j <= k) = i
    <2> DEFINE k == CHOOSE k \in heard : \A j \in heard : j <= k
    <2>1. k \in heard /\ \A j \in heard : j <= k
        BY <1>2
    <2> HIDE DEF k
    <2>2. k = i
        BY <1>1, <1>2, <2>1
    <2> QED
        BY <2>2 DEF k
<1> QED
    BY <1>3 DEF Newest, heard

LEMMA HeardMore ==
    ASSUME NEW l \in Seq(Statuses), NEW d \in Statuses, NEW n, NEW name
    PROVE  d.node = n /\ d.name = name =>
               HeardOf(Append(l, d), n, name) = HeardOf(l, n, name) \cup {Len(l) + 1}
<1>1. /\ DOMAIN Append(l, d) = DOMAIN l \cup {Len(l) + 1}
      /\ \A i \in DOMAIN l : Append(l, d)[i] = l[i]
      /\ Append(l, d)[Len(l) + 1] = d
    OBVIOUS
<1> QED
    BY <1>1 DEF HeardOf

LEMMA HeardNoMore ==
    ASSUME NEW l \in Seq(Statuses), NEW d \in Statuses, NEW n, NEW name,
           ~(d.node = n /\ d.name = name)
    PROVE  HeardOf(Append(l, d), n, name) = HeardOf(l, n, name)
<1>1. /\ DOMAIN Append(l, d) = DOMAIN l \cup {Len(l) + 1}
      /\ \A i \in DOMAIN l : Append(l, d)[i] = l[i]
      /\ Append(l, d)[Len(l) + 1] = d
    OBVIOUS
<1> QED
    BY <1>1 DEF HeardOf

LEMMA AfterMore ==
    ASSUME NEW l \in Seq(Statuses), NEW d \in Statuses, NEW n, NEW name
    PROVE  /\ ValuesAfter(Append(l, d), n, name) =
                  IF d.node = n /\ d.name = name THEN d.values ELSE ValuesAfter(l, n, name)
           /\ StampAfter(Append(l, d), n, name) =
                  IF d.node = n /\ d.name = name THEN d.stamp ELSE StampAfter(l, n, name)
<1>1. Append(l, d) \in Seq(Statuses)
    OBVIOUS
<1>2. HeardOf(l, n, name) \subseteq 1..Len(l) /\ Len(l) \in Nat
    BY DEF HeardOf
<1>3. CASE d.node = n /\ d.name = name
    <2> DEFINE heard == HeardOf(Append(l, d), n, name)
    <2>1. heard = HeardOf(l, n, name) \cup {Len(l) + 1}
        BY <1>3, HeardMore
    <2>2. Len(l) + 1 \in heard /\ \A j \in heard : j <= Len(l) + 1
        BY <1>2, <2>1
    <2>3. Newest(Append(l, d), n, name) = Append(l, d)[Len(l) + 1]
        BY <1>1, <2>2, NewestIs
    <2>4. Append(l, d)[Len(l) + 1] = d
        OBVIOUS
    <2>5. heard # {}
        BY <2>2
    <2> QED
        BY <1>3, <2>3, <2>4, <2>5 DEF ValuesAfter, StampAfter
<1>4. CASE ~(d.node = n /\ d.name = name)
    <2>1. HeardOf(Append(l, d), n, name) = HeardOf(l, n, name)
        BY <1>4, HeardNoMore
    <2>2. CASE HeardOf(l, n, name) = {}
        BY <1>4, <2>1, <2>2 DEF ValuesAfter, StampAfter
    <2>3. CASE HeardOf(l, n, name) # {}
        <3>1. PICK i \in HeardOf(l, n, name) : \A j \in HeardOf(l, n, name) : j <= i
            BY <2>3, HasNewest
        <3>2. Newest(l, n, name) = l[i]
            BY <3>1, NewestIs
        <3>3. Newest(Append(l, d), n, name) = Append(l, d)[i]
            BY <1>1, <2>1, <3>1, NewestIs
        <3>4. Append(l, d)[i] = l[i]
            BY <1>2, <3>1
        <3>5. Newest(Append(l, d), n, name) = Newest(l, n, name)
            BY <3>2, <3>3, <3>4
        <3> QED
            BY <1>4, <2>1, <3>5 DEF ValuesAfter, StampAfter
    <2> QED
        BY <2>2, <2>3
<1> QED
    BY <1>3, <1>4

\* A status stored is what _on_message makes of the snapshot of its controller,
\* and no other snapshot changes.
LEMMA SnapshotAfter ==
    ASSUME NEW l \in Seq(Statuses), NEW d \in Statuses, NEW n \in Node
    PROVE  After(Append(l, d), n) = IF d.node = n THEN Updated(After(l, n), d) ELSE After(l, n)
<1>1. \A name \in Slot :
          /\ ValuesAfter(Append(l, d), n, name) =
                 IF d.node = n /\ d.name = name THEN d.values ELSE ValuesAfter(l, n, name)
          /\ StampAfter(Append(l, d), n, name) =
                 IF d.node = n /\ d.name = name THEN d.stamp ELSE StampAfter(l, n, name)
    BY AfterMore
<1>2. d.name \in Slot
    BY DEF Statuses
<1>3. CASE d.node = n
    <2>1. [name \in Slot |-> ValuesAfter(Append(l, d), n, name)] =
              [[name \in Slot |-> ValuesAfter(l, n, name)] EXCEPT ![d.name] = d.values]
        BY <1>1, <1>2, <1>3
    <2>2. [name \in Slot |-> StampAfter(Append(l, d), n, name)] =
              [[name \in Slot |-> StampAfter(l, n, name)] EXCEPT ![d.name] = d.stamp]
        BY <1>1, <1>2, <1>3
    <2> QED
        BY <1>3, <2>1, <2>2 DEF After, Updated
<1>4. CASE d.node # n
    <2>1. /\ [name \in Slot |-> ValuesAfter(Append(l, d), n, name)] =
                 [name \in Slot |-> ValuesAfter(l, n, name)]
          /\ [name \in Slot |-> StampAfter(Append(l, d), n, name)] =
                 [name \in Slot |-> StampAfter(l, n, name)]
        BY <1>1, <1>4
    <2> QED
        BY <1>4, <2>1 DEF After
<1> QED
    BY <1>3, <1>4


-----------------------------------------------------------------------------
(* The telemetry                                                            *)

\* What every step of the bus and of its user keeps.
TelemetryAll == TelemetryTypeOK /\ TelemetryInv /\ SnapshotStays /\ AliveMeansRecent

LEMMA TelemetryStarts ==
    ASSUME TelemetryInit
    PROVE  TelemetryAll
<1> USE DEF TelemetryInit
<1>1. log = << >> /\ Len(log) = 0 /\ log \in Seq(Statuses)
    OBVIOUS
<1>2. \A n, name : HeardOf(<< >>, n, name) = {}
    BY DEF HeardOf
<1>3. TelemetryTypeOK
    <2>1. NoStatus \in Snapshots
        BY DEF NoStatus, Snapshots
    <2>2. << >> \in Seq(Subscriber) /\ << >> \in Seq(Statuses) /\ Len(<< >>) = 0
        OBVIOUS
    <2>3. telemetry \in [Node -> Snapshots]
        BY <2>1
    <2>4. /\ subscribers \in Seq(Subscriber) /\ turn \in 0..Len(subscribers)
          /\ seen \in [Subscriber -> Seq(Statuses)]
        BY <2>2
    <2>5. since \in [Subscriber -> (0..Len(log)) \cup {None}]
        OBVIOUS
    <2>6. events \in 0..MaxEvents
        BY TelemetryAssumption
    <2>7. /\ clock \in Nat /\ rx \in {"idle", "store", "notify", "dead"} /\ asking \in BOOLEAN
          /\ decoded = None /\ held = None /\ alive = None
        OBVIOUS
    <2> QED
        BY <1>1, <2>3, <2>4, <2>5, <2>6, <2>7 DEF TelemetryTypeOK
<1>4. Handling /\ InTime /\ Snapshot
    BY <1>1 DEF Handling, InTime, Snapshot
<1>5. Known
    <2>1. \A n \in Node : After(<< >>, n) = NoStatus
        BY <1>2 DEF After, ValuesAfter, StampAfter, NoStatus
    <2> QED
        BY <2>1 DEF Known
<1>6. Delivered
    BY DEF Delivered
<1>8. SnapshotStays /\ AliveMeansRecent
    BY DEF SnapshotStays, AliveMeansRecent
<1> QED
    BY <1>3, <1>4, <1>5, <1>6, <1>8 DEF TelemetryAll, TelemetryInv

\* A prefix of the log stays what it is when the log grows.
LEMMA PrefixStays ==
    ASSUME NEW S, NEW l \in Seq(S), NEW d \in S, NEW first \in Nat \ {0}, NEW last \in 0..Len(l)
    PROVE  SubSeq(Append(l, d), first, last) = SubSeq(l, first, last)
<1>1. /\ Append(l, d) \in Seq(S)
      /\ Len(Append(l, d)) = Len(l) + 1
      /\ \A i \in 1..Len(l) : Append(l, d)[i] = l[i]
    OBVIOUS
<1> DEFINE m == Append(l, d)
<1> HIDE DEF m
<1> QED
    BY <1>1 DEF m

LEMMA WholeLog ==
    ASSUME NEW S, NEW l \in Seq(S)
    PROVE  SubSeq(l, 1, Len(l)) = l
OBVIOUS

LEMMA Appended ==
    ASSUME NEW S, NEW a \in Seq(S), NEW x \in S
    PROVE  /\ Append(a, x) \in Seq(S) /\ Len(Append(a, x)) = Len(a) + 1
           /\ Append(a, x)[Len(a) + 1] = x
           /\ \A i \in 1..Len(a) : Append(a, x)[i] = a[i]
OBVIOUS

\* The range that a subscriber has been called with grows with it.
LEMMA RangeGrows ==
    ASSUME NEW S, NEW l \in Seq(S), NEW first \in 1..Len(l)
    PROVE  Append(SubSeq(l, first, Len(l) - 1), l[Len(l)]) = SubSeq(l, first, Len(l))
<1> DEFINE a == SubSeq(l, first, Len(l) - 1)
           b == SubSeq(l, first, Len(l))
<1>1. /\ a \in Seq(S) /\ Len(a) = Len(l) - first
      /\ \A i \in 1..Len(a) : a[i] = l[first + i - 1]
    OBVIOUS
<1>2. /\ b \in Seq(S) /\ Len(b) = Len(l) - first + 1
      /\ \A i \in 1..Len(b) : b[i] = l[first + i - 1]
    OBVIOUS
<1> DEFINE x == l[Len(l)]
           c == Append(a, x)
<1>3. x \in S
    OBVIOUS
<1> HIDE DEF a, b, x
<1>4. /\ c \in Seq(S) /\ Len(c) = Len(a) + 1
      /\ c[Len(a) + 1] = x
      /\ \A i \in 1..Len(a) : c[i] = a[i]
    BY <1>1, <1>3, Appended
<1> HIDE DEF c
<1>5. Len(c) = Len(b)
    BY <1>1, <1>2, <1>4
<1>6. ASSUME NEW i \in 1..Len(c) PROVE c[i] = b[i]
    <2>1. CASE i \in 1..Len(a)
        BY <1>1, <1>2, <1>4, <1>5, <2>1
    <2>2. CASE i = Len(a) + 1
        <3>1. first + i - 1 = Len(l)
            BY <1>1, <2>2
        <3> QED
            BY <1>2, <1>4, <1>5, <2>2, <3>1 DEF x
    <2>3. Len(a) \in Nat /\ i \in 1..Len(a) + 1
        BY <1>1, <1>4
    <2>4. i \in 1..Len(a) \/ i = Len(a) + 1
        BY <2>3
    <2> QED
        BY <2>1, <2>2, <2>4
<1>7. c = b
    BY <1>2, <1>4, <1>5, <1>6
<1> QED
    BY <1>7 DEF a, b, c, x


\* Nothing but the number of events, or the user's own locals.
LEMMA SameTelemetry ==
    ASSUME TelemetryAll,
           UNCHANGED <<clock, rxVars, subscribers, userVars, seen, since>>,
           events' \in events..MaxEvents
    PROVE  TelemetryAll'
<1> USE DEF rxVars, userVars
<1>1. events \in 0..MaxEvents /\ MaxEvents \in Nat /\ Len(log) \in Nat
    BY TelemetryAssumption DEF TelemetryAll, TelemetryTypeOK
<1>2. TelemetryTypeOK'
    BY <1>1 DEF TelemetryAll, TelemetryTypeOK
<1>3. Handling'
    BY <1>1 DEF TelemetryAll, TelemetryInv, Handling
<1>4. InTime' /\ Snapshot' /\ Known'
    BY DEF TelemetryAll, TelemetryInv, InTime, Snapshot, Known
<1>5. Delivered'
    BY DEF TelemetryAll, TelemetryInv, Delivered, LastFor
<1>6. SnapshotStays' /\ AliveMeansRecent'
    BY DEF TelemetryAll, SnapshotStays, AliveMeansRecent
<1> QED
    BY <1>2, <1>3, <1>4, <1>5, <1>6 DEF TelemetryAll, TelemetryInv

LEMMA OnMessageStep ==
    ASSUME TelemetryAll, NEW frame \in Frames, OnMessage(frame)
    PROVE  TelemetryAll'
<1> USE DEF userVars
<1> DEFINE status == DecodeFrame(frame)
<1>1. /\ events \in 0..MaxEvents /\ MaxEvents \in Nat
      /\ log \in Seq(Statuses) /\ Len(log) \in Nat /\ clock \in Nat
    BY TelemetryAssumption DEF TelemetryAll, TelemetryTypeOK
<1>2. rx = "idle" /\ UNCHANGED <<clock, turn, telemetry, subscribers, userVars, seen, since, log>>
    BY DEF OnMessage
<1>3. CASE status = None
    <2>1. UNCHANGED <<rx, decoded, events>>
        BY <1>3 DEF OnMessage
    <2> QED
        BY <1>1, <1>2, <2>1, SameTelemetry DEF rxVars
<1>4. CASE status # None
    <2>1. /\ events < MaxEvents /\ events' = events + 1
          /\ rx' = "store"
          /\ decoded' = [node |-> status.node, name |-> status.name,
                         values |-> status.values, stamp |-> clock]
        BY <1>4 DEF OnMessage, Happens
    <2>2. Len(log) <= events /\ turn = 0
        BY <1>2 DEF TelemetryAll, TelemetryInv, Handling
    <2>3. status.node \in Node /\ status.name \in Slot /\ status.values \in Seq(Int)
        BY <1>1, <1>4, <2>1, <2>2, FrameStatus
    <2> HIDE DEF status
    <2>4. decoded' \in Statuses /\ decoded'.stamp = clock
        BY <1>1, <2>1, <2>3 DEF Statuses
    <2>5. TelemetryTypeOK'
        BY <1>1, <1>2, <2>1, <2>4 DEF TelemetryAll, TelemetryTypeOK
    <2>6. Handling'
        BY <1>1, <1>2, <2>1, <2>2, <2>4 DEF Handling
    <2>7. Known' /\ Snapshot'
        BY <1>2 DEF TelemetryAll, TelemetryInv, Known, Snapshot
    <2>8. InTime'
        <3>1. /\ log' = log /\ clock' = clock /\ decoded'.stamp = clock
              /\ \A i \in 1..Len(log) : log[i].stamp <= clock
              /\ \A i, j \in 1..Len(log) : i <= j => log[i].stamp <= log[j].stamp
            BY <1>2, <2>4 DEF TelemetryAll, TelemetryInv, InTime
        <3> QED
            BY <1>1, <3>1 DEF InTime
    <2>9. Delivered'
        BY <1>2, <2>1 DEF TelemetryAll, TelemetryInv, Delivered, LastFor
    <2>10. SnapshotStays' /\ AliveMeansRecent'
        BY <1>2 DEF TelemetryAll, SnapshotStays, AliveMeansRecent
    <2> QED
        BY <2>5, <2>6, <2>7, <2>8, <2>9, <2>10 DEF TelemetryAll, TelemetryInv
<1> QED
    BY <1>3, <1>4

LEMMA StoreStep ==
    ASSUME TelemetryAll, Store
    PROVE  TelemetryAll'
<1> USE DEF userVars
<1> DEFINE d == decoded
<1>1. /\ events \in 0..MaxEvents /\ MaxEvents \in Nat
      /\ log \in Seq(Statuses) /\ Len(log) \in Nat /\ clock \in Nat
      /\ telemetry \in [Node -> Snapshots]
    BY TelemetryAssumption DEF TelemetryAll, TelemetryTypeOK
<1>2. /\ rx = "store" /\ rx' = "notify" /\ turn' = 0
      /\ telemetry' = [telemetry EXCEPT ![d.node] = Updated(@, d)]
      /\ log' = Append(log, d)
      /\ UNCHANGED <<clock, decoded, subscribers, userVars, seen, since, events>>
    BY DEF Store
<1>3. /\ d \in Statuses
      /\ Len(log) + 1 <= events
    BY <1>2 DEF TelemetryAll, TelemetryInv, Handling
<1>4. d.node \in Node /\ d.name \in Slot /\ d.values \in Seq(Int) /\ d.stamp \in Nat
    BY <1>3 DEF Statuses
<1>5. /\ log' \in Seq(Statuses) /\ Len(log') = Len(log) + 1
      /\ log'[Len(log')] = d
      /\ \A i \in 1..Len(log) : log'[i] = log[i]
    BY <1>1, <1>2, <1>3
<1>6. \A first \in Nat \ {0}, last \in 0..Len(log) : SubSeq(log', first, last) = SubSeq(log, first, last)
    BY <1>1, <1>2, <1>3, PrefixStays
<1> HIDE DEF d
<1>7. TelemetryTypeOK'
    <2>1. Updated(telemetry[d.node], d) \in Snapshots
        <3>1. telemetry[d.node] \in Snapshots
            BY <1>1, <1>4
        <3> QED
            BY <1>4, <3>1 DEF Updated, Snapshots
    <2>2. telemetry' \in [Node -> Snapshots]
        BY <1>1, <1>2, <1>4, <2>1
    <2>3. 0..Len(log) \subseteq 0..Len(log')
        BY <1>1, <1>5
    <2>4. held' \in [node: Node, of: Snapshots, upto: 0..Len(log')] \cup {None}
        BY <1>2, <2>3 DEF TelemetryAll, TelemetryTypeOK
    <2>5. alive' \in [node: Node, answer: BOOLEAN, at: Nat, upto: 0..Len(log')] \cup {None}
        BY <1>2, <2>3 DEF TelemetryAll, TelemetryTypeOK
    <2>6. since' \in [Subscriber -> (0..Len(log')) \cup {None}]
        BY <1>2, <2>3 DEF TelemetryAll, TelemetryTypeOK
    <2> QED
        BY <1>2, <1>5, <2>2, <2>4, <2>5, <2>6 DEF TelemetryAll, TelemetryTypeOK
<1>8. Handling'
    <2>1. log' # << >>
        BY <1>1, <1>5
    <2> QED
        BY <1>1, <1>2, <1>3, <1>5, <2>1 DEF Handling, d
<1>10. Known'
    <2>1. ASSUME NEW n \in Node PROVE telemetry'[n] = After(log', n)
        <3>1. After(Append(log, d), n) = IF d.node = n THEN Updated(After(log, n), d) ELSE After(log, n)
            BY <1>1, <1>3, SnapshotAfter DEF d
        <3>2. telemetry[n] = After(log, n)
            BY DEF TelemetryAll, TelemetryInv, Known
        <3>3. telemetry'[n] = IF d.node = n THEN Updated(telemetry[n], d) ELSE telemetry[n]
            BY <1>1, <1>2
        <3> QED
            BY <1>2, <3>1, <3>2, <3>3
    <2> QED
        BY <2>1 DEF Known
<1>11. InTime' /\ Snapshot'
    <2>1. /\ d.stamp <= clock
          /\ \A i \in 1..Len(log) : log[i].stamp <= d.stamp /\ log[i].stamp <= clock
          /\ \A i, j \in 1..Len(log) : i <= j => log[i].stamp <= log[j].stamp
        BY <1>2 DEF TelemetryAll, TelemetryInv, InTime, d
    <2>2. \A i \in 1..Len(log') : log'[i].stamp <= clock
        BY <1>1, <1>5, <2>1
    <2>3. \A i, j \in 1..Len(log') : i <= j => log'[i].stamp <= log'[j].stamp
        BY <1>1, <1>4, <1>5, <2>1
    <2> QED
        BY <1>2, <2>2, <2>3 DEF InTime, Snapshot, TelemetryAll, TelemetryInv
<1>12. Delivered'
    <2>1. \A p, q \in DOMAIN subscribers' : subscribers'[p] = subscribers'[q] => p = q
        BY <1>2 DEF TelemetryAll, TelemetryInv, Delivered
    <2>2. subscribers \in Seq(Subscriber) /\ DOMAIN subscribers = 1..Len(subscribers)
        BY DEF TelemetryAll, TelemetryTypeOK
    <2>3. \A p \in DOMAIN subscribers : LastFor(p) = Len(log) /\ LastFor(p)' = Len(log)
        BY <1>1, <1>2, <1>5, <2>2 DEF LastFor
    <2>4. ASSUME NEW s \in Subscriber, since[s] # None, NEW p \in DOMAIN subscribers,
                 NEW first \in {since[s], since[s] + 1} \ {0},
                 subscribers[p] = s, first <= LastFor(p) + 1,
                 seen[s] = SubSeq(log, first, LastFor(p))
          PROVE  /\ first <= LastFor(p)' + 1
                 /\ seen'[s] = SubSeq(log', first, LastFor(p)')
        <3>1. since[s] \in Nat
            BY <2>4 DEF TelemetryAll, TelemetryTypeOK
        <3>2. first \in Nat \ {0} /\ Len(log) \in 0..Len(log)
            BY <1>1, <3>1
        <3>3. SubSeq(log', first, Len(log)) = SubSeq(log, first, Len(log))
            BY <1>6, <3>2
        <3> QED
            BY <1>2, <2>3, <2>4, <3>3
    <2>5. ASSUME NEW s \in Subscriber, since[s] # None,
                 NEW p \in DOMAIN subscribers, NEW first \in {since[s], since[s] + 1} \ {0},
                 subscribers[p] = s, first <= LastFor(p) + 1,
                 seen[s] = SubSeq(log, first, LastFor(p))
          PROVE  \E q \in DOMAIN subscribers', f \in {since'[s], since'[s] + 1} \ {0} :
                    /\ subscribers'[q] = s
                    /\ f <= LastFor(q)' + 1
                    /\ seen'[s] = SubSeq(log', f, LastFor(q)')
        BY <1>2, <2>4, <2>5
    <2>6. ASSUME NEW s \in Subscriber, since[s] # None
          PROVE  \E q \in DOMAIN subscribers', f \in {since'[s], since'[s] + 1} \ {0} :
                    /\ subscribers'[q] = s
                    /\ f <= LastFor(q)' + 1
                    /\ seen'[s] = SubSeq(log', f, LastFor(q)')
        BY <2>5, <2>6 DEF TelemetryAll, TelemetryInv, Delivered
    <2>7. ASSUME NEW s \in Subscriber, since[s] = None
          PROVE  /\ since'[s] = None /\ seen'[s] = << >>
                 /\ \A p \in DOMAIN subscribers' : subscribers'[p] # s
        BY <1>2, <2>7 DEF TelemetryAll, TelemetryInv, Delivered
    <2> QED
        BY <1>2, <2>1, <2>6, <2>7 DEF Delivered
<1>14. SnapshotStays'
    <2>1. ASSUME held # None PROVE held.of = After(SubSeq(log', 1, held.upto), held.node)
        <3>1. held.upto \in 0..Len(log)
            BY <2>1 DEF TelemetryAll, TelemetryTypeOK
        <3>2. SubSeq(log', 1, held.upto) = SubSeq(log, 1, held.upto)
            BY <1>6, <3>1
        <3> QED
            BY <2>1, <3>2 DEF TelemetryAll, SnapshotStays
    <2> QED
        BY <1>2, <2>1 DEF SnapshotStays
<1>15. AliveMeansRecent'
    <2>1. ASSUME alive # None PROVE \A i \in 1..alive.upto : log'[i] = log[i]
        <3>1. alive.upto \in 0..Len(log)
            BY <2>1 DEF TelemetryAll, TelemetryTypeOK
        <3> QED
            BY <1>1, <1>5, <3>1
    <2>2. alive' = alive
        BY <1>2
    <2>3. AliveMeansRecent
        BY DEF TelemetryAll
    <2> QED
        BY <2>1, <2>2, <2>3 DEF AliveMeansRecent
<1> QED
    BY <1>7, <1>8, <1>10, <1>11, <1>12, <1>14, <1>15 DEF TelemetryAll, TelemetryInv


LEMMA NotifyStep ==
    ASSUME TelemetryAll, Notify
    PROVE  TelemetryAll'
<1> USE DEF userVars
<1> DEFINE last == log[Len(log)]
           called == subscribers[turn + 1]
<1>1. /\ events \in 0..MaxEvents /\ MaxEvents \in Nat
      /\ log \in Seq(Statuses) /\ Len(log) \in Nat
      /\ subscribers \in Seq(Subscriber) /\ Len(subscribers) \in Nat
      /\ turn \in 0..Len(subscribers)
      /\ seen \in [Subscriber -> Seq(Statuses)]
    BY TelemetryAssumption DEF TelemetryAll, TelemetryTypeOK
<1>2. /\ rx = "notify" /\ turn < Len(subscribers) /\ turn' = turn + 1
      /\ seen' = [seen EXCEPT ![called] = Append(@, decoded)]
      /\ rx' \in {"notify", "dead"}
      /\ UNCHANGED <<clock, decoded, telemetry, subscribers, userVars, since, log, events>>
    BY DEF Notify
<1>3. log # << >> /\ decoded = last /\ Len(log) <= events
    BY <1>1, <1>2 DEF TelemetryAll, TelemetryInv, Handling
<1>4. /\ Len(log) >= 1 /\ last \in Statuses
      /\ turn + 1 \in DOMAIN subscribers /\ called \in Subscriber
    BY <1>1, <1>2, <1>3
<1> HIDE DEF last, called
<1>5. TelemetryTypeOK'
    <2>1. Append(seen[called], decoded) \in Seq(Statuses)
        BY <1>1, <1>3, <1>4, Appended
    <2>2. seen' \in [Subscriber -> Seq(Statuses)]
        BY <1>1, <1>2, <2>1
    <2>3. turn' \in 0..Len(subscribers)
        BY <1>1, <1>2
    <2> QED
        BY <1>2, <2>2, <2>3 DEF TelemetryAll, TelemetryTypeOK
<1>6. Handling'
    BY <1>1, <1>2, <1>3, <1>4 DEF Handling, last
<1>7. Known' /\ InTime' /\ Snapshot'
    BY <1>2 DEF TelemetryAll, TelemetryInv, Known, InTime, Snapshot
<1>8. Delivered'
    <2>1. \A p, q \in DOMAIN subscribers : subscribers[p] = subscribers[q] => p = q
        BY DEF TelemetryAll, TelemetryInv, Delivered
    <2>2. \A p \in DOMAIN subscribers :
             IF p = turn + 1 THEN LastFor(p) = Len(log) - 1 /\ LastFor(p)' = Len(log)
             ELSE LastFor(p)' = LastFor(p)
        BY <1>1, <1>2 DEF LastFor
    <2>3. ASSUME NEW s \in Subscriber, since[s] = None
          PROVE  /\ since'[s] = None /\ seen'[s] = << >>
                 /\ \A p \in DOMAIN subscribers' : subscribers'[p] # s
        <3>1. seen[s] = << >> /\ \A p \in DOMAIN subscribers : subscribers[p] # s
            BY <2>3 DEF TelemetryAll, TelemetryInv, Delivered
        <3>2. called # s
            BY <1>4, <3>1 DEF called
        <3> QED
            BY <1>1, <1>2, <2>3, <3>1, <3>2
    <2>4. ASSUME NEW s \in Subscriber, since[s] # None
          PROVE  \E p \in DOMAIN subscribers', first \in {since'[s], since'[s] + 1} \ {0} :
                    /\ subscribers'[p] = s
                    /\ first <= LastFor(p)' + 1
                    /\ seen'[s] = SubSeq(log', first, LastFor(p)')
        <3>1. PICK p \in DOMAIN subscribers, first \in {since[s], since[s] + 1} \ {0} :
                    /\ subscribers[p] = s
                    /\ first <= LastFor(p) + 1
                    /\ seen[s] = SubSeq(log, first, LastFor(p))
            BY <2>4 DEF TelemetryAll, TelemetryInv, Delivered
        <3>2. since[s] \in Nat /\ first \in Nat \ {0}
            BY <2>4 DEF TelemetryAll, TelemetryTypeOK
        <3>3. CASE p = turn + 1
            <4>1. called = s
                BY <3>1, <3>3 DEF called
            <4>2. first \in 1..Len(log) /\ seen[s] = SubSeq(log, first, Len(log) - 1)
                <5>1. LastFor(p) = Len(log) - 1
                    BY <2>2, <3>3
                <5>2. first <= Len(log) - 1 + 1 /\ seen[s] = SubSeq(log, first, Len(log) - 1)
                    BY <3>1, <5>1
                <5>3. Len(log) \in Nat /\ first \in Nat /\ first >= 1
                    BY <1>4, <3>2 DEF TelemetryAll, TelemetryTypeOK
                <5> QED
                    BY <5>2, <5>3
            <4>3. seen'[s] = Append(SubSeq(log, first, Len(log) - 1), last)
                BY <1>1, <1>2, <1>3, <4>1, <4>2
            <4>4. Append(SubSeq(log, first, Len(log) - 1), last) = SubSeq(log, first, Len(log))
                BY <1>1, <4>2, RangeGrows DEF last
            <4>5. first <= LastFor(p)' + 1 /\ seen'[s] = SubSeq(log', first, LastFor(p)')
                <5>1. LastFor(p)' = Len(log) /\ log' = log
                    BY <1>2, <2>2, <3>3
                <5>2. seen'[s] = SubSeq(log, first, Len(log))
                    BY <4>3, <4>4
                <5>3. seen'[s] = SubSeq(log', first, LastFor(p)')
                    BY <5>1, <5>2
                <5>4. first <= LastFor(p)' + 1
                    BY <1>1, <4>2, <5>1
                <5> QED
                    BY <5>3, <5>4
            <4> QED
                BY <1>2, <3>1, <4>5
        <3>4. CASE p # turn + 1
            <4>1. called # s
                BY <1>4, <2>1, <3>1, <3>4 DEF called
            <4>2. seen'[s] = seen[s]
                BY <1>1, <1>2, <4>1
            <4>3. LastFor(p)' = LastFor(p)
                BY <2>2, <3>4
            <4> QED
                BY <1>2, <3>1, <4>2, <4>3
        <3> QED
            BY <3>3, <3>4
    <2> QED
        BY <1>2, <2>1, <2>3, <2>4 DEF Delivered
<1>9. SnapshotStays' /\ AliveMeansRecent'
    BY <1>2 DEF TelemetryAll, SnapshotStays, AliveMeansRecent
<1> QED
    BY <1>5, <1>6, <1>7, <1>8, <1>9 DEF TelemetryAll, TelemetryInv

LEMMA NotifiedStep ==
    ASSUME TelemetryAll, Notified
    PROVE  TelemetryAll'
<1> USE DEF userVars
<1>1. /\ subscribers \in Seq(Subscriber) /\ Len(subscribers) \in Nat
      /\ turn \in 0..Len(subscribers)
    BY DEF TelemetryAll, TelemetryTypeOK
<1>2. /\ rx = "notify" /\ turn = Len(subscribers)
      /\ rx' = "idle" /\ decoded' = None /\ turn' = 0
      /\ UNCHANGED <<clock, telemetry, subscribers, userVars, seen, since, log, events>>
    BY DEF Notified
<1>3. TelemetryTypeOK'
    BY <1>1, <1>2 DEF TelemetryAll, TelemetryTypeOK
<1>4. Handling'
    BY <1>2 DEF TelemetryAll, TelemetryInv, Handling
<1>5. Known' /\ InTime' /\ Snapshot'
    BY <1>2 DEF TelemetryAll, TelemetryInv, Known, InTime, Snapshot
<1>6. Delivered'
    <2>1. \A p \in DOMAIN subscribers : LastFor(p)' = LastFor(p)
        BY <1>1, <1>2 DEF LastFor
    <2> QED
        BY <1>2, <2>1 DEF TelemetryAll, TelemetryInv, Delivered
<1>7. SnapshotStays' /\ AliveMeansRecent'
    BY <1>2 DEF TelemetryAll, SnapshotStays, AliveMeansRecent
<1> QED
    BY <1>3, <1>4, <1>5, <1>6, <1>7 DEF TelemetryAll, TelemetryInv

\* The status that is being handed round is the first or not the first of the
\* new subscriber: the loop may still come to it, or has passed its place.
LEMMA SubscribeStep ==
    ASSUME TelemetryAll, NEW s \in Subscriber, Subscribe(s)
    PROVE  TelemetryAll'
<1> USE DEF userVars, rxVars
<1> DEFINE place == Len(subscribers) + 1
<1>1. /\ events \in 0..MaxEvents /\ MaxEvents \in Nat
      /\ log \in Seq(Statuses) /\ Len(log) \in Nat
      /\ subscribers \in Seq(Subscriber) /\ Len(subscribers) \in Nat
      /\ turn \in 0..Len(subscribers)
      /\ since \in [Subscriber -> (0..Len(log)) \cup {None}]
    BY TelemetryAssumption DEF TelemetryAll, TelemetryTypeOK
<1>2. /\ \A p \in DOMAIN subscribers : subscribers[p] # s
      /\ events < MaxEvents /\ events' = events + 1
      /\ subscribers' = Append(subscribers, s)
      /\ since' = [since EXCEPT ![s] = Len(log)]
      /\ UNCHANGED <<clock, rxVars, userVars, seen>>
    BY DEF Subscribe, Happens
<1>3. /\ subscribers' \in Seq(Subscriber) /\ Len(subscribers') = place
      /\ DOMAIN subscribers = 1..Len(subscribers)
      /\ DOMAIN subscribers' = 1..place
      /\ subscribers'[place] = s
      /\ \A p \in 1..Len(subscribers) : subscribers'[p] = subscribers[p]
    BY <1>1, <1>2
<1>4. TelemetryTypeOK'
    <2>1. since' \in [Subscriber -> (0..Len(log)) \cup {None}]
        BY <1>1, <1>2
    <2>2. turn \in 0..place /\ events' \in 0..MaxEvents
        BY <1>1, <1>2
    <2> QED
        BY <1>2, <1>3, <2>1, <2>2 DEF TelemetryAll, TelemetryTypeOK
<1>5. Handling'
    BY <1>1, <1>2 DEF TelemetryAll, TelemetryInv, Handling
<1>6. Known' /\ InTime' /\ Snapshot'
    BY <1>2 DEF TelemetryAll, TelemetryInv, Known, InTime, Snapshot
<1>7. Delivered'
    <2>1. \A p, q \in DOMAIN subscribers' : subscribers'[p] = subscribers'[q] => p = q
        <3>1. \A p, q \in DOMAIN subscribers : subscribers[p] = subscribers[q] => p = q
            BY DEF TelemetryAll, TelemetryInv, Delivered
        <3> QED
            BY <1>1, <1>2, <1>3, <3>1
    <2>2. \A p \in DOMAIN subscribers' : LastFor(p)' = LastFor(p)
        BY <1>2 DEF LastFor
    <2>3. seen[s] = << >>
        BY <1>2 DEF TelemetryAll, TelemetryInv, Delivered
    <2>4. \E p \in DOMAIN subscribers', first \in {since'[s], since'[s] + 1} \ {0} :
             /\ subscribers'[p] = s
             /\ first <= LastFor(p)' + 1
             /\ seen'[s] = SubSeq(log', first, LastFor(p)')
        <3>1. PICK p \in DOMAIN subscribers' : p = place /\ subscribers'[p] = s
            BY <1>1, <1>3
        <3>2. since'[s] = Len(log) /\ seen'[s] = << >> /\ log' = log /\ LastFor(p)' = LastFor(p)
            BY <1>1, <1>2, <2>2, <2>3
        <3>3. CASE rx \in {"notify", "dead"} /\ p > turn
            <4>1. Len(log) >= 1
                BY <1>1, <3>3 DEF TelemetryAll, TelemetryInv, Handling
            <4>2. LastFor(p)' = Len(log) - 1
                BY <3>2, <3>3 DEF LastFor
            <4>3. SubSeq(log, Len(log), Len(log) - 1) = << >>
                BY <1>1, <4>1
            <4>4. Len(log) \in {since'[s], since'[s] + 1} \ {0} /\ Len(log) <= LastFor(p)' + 1
                BY <1>1, <3>2, <4>1, <4>2
            <4>5. seen'[s] = SubSeq(log', Len(log), LastFor(p)')
                BY <3>2, <4>2, <4>3
            <4> QED
                BY <3>1, <4>4, <4>5
        <3>4. CASE ~(rx \in {"notify", "dead"} /\ p > turn)
            <4>1. LastFor(p)' = Len(log)
                BY <3>2, <3>4 DEF LastFor
            <4>2. SubSeq(log, Len(log) + 1, Len(log)) = << >>
                BY <1>1
            <4>3. Len(log) + 1 \in {since'[s], since'[s] + 1} \ {0} /\ Len(log) + 1 <= LastFor(p)' + 1
                BY <1>1, <3>2, <4>1
            <4>4. seen'[s] = SubSeq(log', Len(log) + 1, LastFor(p)')
                BY <3>2, <4>1, <4>2
            <4> QED
                BY <3>1, <4>3, <4>4
        <3> QED
            BY <3>3, <3>4
    <2>5. since'[s] # None
        BY <1>1, <1>2, FramesAssumption
    <2>6. ASSUME NEW t \in Subscriber, t # s, since[t] = None
          PROVE  /\ since'[t] = None /\ seen'[t] = << >>
                 /\ \A p \in DOMAIN subscribers' : subscribers'[p] # t
        <3>1. seen[t] = << >> /\ \A p \in DOMAIN subscribers : subscribers[p] # t
            BY <2>6 DEF TelemetryAll, TelemetryInv, Delivered
        <3> QED
            BY <1>1, <1>2, <1>3, <2>6, <3>1
    <2>7. ASSUME NEW t \in Subscriber, t # s, since[t] # None
          PROVE  /\ since'[t] # None
                 /\ \E p \in DOMAIN subscribers', first \in {since'[t], since'[t] + 1} \ {0} :
                       /\ subscribers'[p] = t
                       /\ first <= LastFor(p)' + 1
                       /\ seen'[t] = SubSeq(log', first, LastFor(p)')
        <3>1. PICK p \in DOMAIN subscribers, first \in {since[t], since[t] + 1} \ {0} :
                    /\ subscribers[p] = t
                    /\ first <= LastFor(p) + 1
                    /\ seen[t] = SubSeq(log, first, LastFor(p))
            BY <2>7 DEF TelemetryAll, TelemetryInv, Delivered
        <3>2. since'[t] = since[t] /\ p \in DOMAIN subscribers' /\ subscribers'[p] = t
            BY <1>1, <1>2, <1>3, <2>7, <3>1
        <3> QED
            BY <1>2, <2>2, <2>7, <3>1, <3>2
    <2>8. \A t \in Subscriber :
             \/ /\ since'[t] = None /\ seen'[t] = << >>
                /\ \A p \in DOMAIN subscribers' : subscribers'[p] # t
             \/ /\ since'[t] # None
                /\ \E p \in DOMAIN subscribers', first \in {since'[t], since'[t] + 1} \ {0} :
                      /\ subscribers'[p] = t
                      /\ first <= LastFor(p)' + 1
                      /\ seen'[t] = SubSeq(log', first, LastFor(p)')
        BY <2>4, <2>5, <2>6, <2>7
    <2> QED
        BY <2>1, <2>8 DEF Delivered
<1>8. SnapshotStays' /\ AliveMeansRecent'
    BY <1>2 DEF TelemetryAll, SnapshotStays, AliveMeansRecent
<1> QED
    BY <1>4, <1>5, <1>6, <1>7, <1>8 DEF TelemetryAll, TelemetryInv


LEMMA SnapshotStep ==
    ASSUME TelemetryAll, NEW n \in Node, GetTelemetry(n) \/ AskAlive(n)
    PROVE  TelemetryAll'
<1> USE DEF rxVars
<1>1. /\ log \in Seq(Statuses) /\ Len(log) \in Nat
      /\ telemetry \in [Node -> Snapshots]
    BY DEF TelemetryAll, TelemetryTypeOK
<1>2. /\ held' = [node |-> n, of |-> telemetry[n], upto |-> Len(log)]
      /\ alive' = None /\ asking' \in BOOLEAN
      /\ UNCHANGED <<clock, rxVars, subscribers, seen, since, events>>
    <2>1. asking \in BOOLEAN
        BY DEF TelemetryAll, TelemetryTypeOK
    <2> QED
        BY <2>1 DEF GetTelemetry, AskAlive, TakeSnapshot
<1>3. /\ held' \in [node: Node, of: Snapshots, upto: 0..Len(log)]
      /\ held' \in [node: Node, of: Snapshots, upto: Nat]
    <2>1. telemetry[n] \in Snapshots
        BY <1>1
    <2> QED
        BY <1>1, <1>2, <2>1
<1>4. TelemetryTypeOK'
    BY <1>2, <1>3 DEF TelemetryAll, TelemetryTypeOK
<1>5. held' # None
    BY <1>3, SnapshotsAssumption
<1>6. Handling' /\ Known' /\ InTime' /\ Snapshot'
    BY <1>2, <1>5 DEF TelemetryAll, TelemetryInv, Handling, Known, InTime, Snapshot
<1>7. Delivered'
    BY <1>2 DEF TelemetryAll, TelemetryInv, Delivered, LastFor
<1>9. SnapshotStays'
    <2>1. SubSeq(log, 1, Len(log)) = log
        BY <1>1, WholeLog
    <2>2. telemetry[n] = After(log, n)
        BY DEF TelemetryAll, TelemetryInv, Known
    <2> QED
        BY <1>2, <2>1, <2>2 DEF SnapshotStays
<1>10. AliveMeansRecent'
    BY <1>2 DEF AliveMeansRecent
<1> QED
    BY <1>4, <1>6, <1>7, <1>9, <1>10 DEF TelemetryAll, TelemetryInv

LEMMA StampOf ==
    ASSUME NEW l \in Seq(Statuses), NEW i \in 1..Len(l)
    PROVE  l[i].stamp \in Nat
<1>1. l[i] \in Statuses
    OBVIOUS
<1> QED
    BY <1>1 DEF Statuses

\* What is_alive says of a snapshot, when nothing in it comes from later than
\* now and the newest status has the largest stamp.
LEMMA AnswerIsRight ==
    ASSUME TelemetryAll, held # None
    PROVE  IsAlive(held.of) <=>
               \E i \in 1..held.upto : /\ log[i].node = held.node
                                       /\ log[i].name = "STATUS"
                                       /\ log[i].stamp + MaxAge >= clock
<1> DEFINE n == held.node
           u == held.upto
           l == SubSeq(log, 1, u)
           heard == HeardOf(l, n, "STATUS")
           stamp == StampAfter(l, n, "STATUS")
<1>1. /\ log \in Seq(Statuses) /\ Len(log) \in Nat /\ clock \in Nat /\ MaxAge \in Nat
      /\ n \in Node /\ u \in 0..Len(log)
      /\ "STATUS" \in Slot
    BY TelemetryAssumption DEF TelemetryAll, TelemetryTypeOK
<1>2. /\ l \in Seq(Statuses) /\ Len(l) = u
      /\ \A i \in 1..u : l[i] = log[i]
    BY <1>1
<1>3. \A i \in 1..u : log[i].stamp \in Nat
    BY <1>1, StampOf
<1>4. held.of.stamps["STATUS"] = stamp
    <2>1. held.of = After(l, n)
        BY DEF TelemetryAll, SnapshotStays
    <2> QED
        BY <1>1, <2>1 DEF After
<1> HIDE DEF n, u, l
<1>6. \A i : i \in heard <=> i \in 1..u /\ log[i].node = n /\ log[i].name = "STATUS"
    BY <1>1, <1>2 DEF HeardOf
<1>7. CASE heard = {}
    <2>1. stamp = None
        BY <1>7 DEF StampAfter
    <2>2. ~IsAlive(held.of)
        BY <1>4, <2>1 DEF IsAlive, Age
    <2> QED
        BY <1>6, <1>7, <2>2 DEF n, u
<1>8. CASE heard # {}
    <2>1. PICK i \in heard : \A j \in heard : j <= i
        BY <1>2, <1>8, HasNewest
    <2>2. i \in 1..u /\ log[i].node = n /\ log[i].name = "STATUS" /\ log[i].stamp \in Nat
        BY <1>3, <1>6
    <2>3. Newest(l, n, "STATUS") = l[i]
        BY <1>2, <2>1, NewestIs
    <2>4. stamp = log[i].stamp
        BY <1>2, <1>8, <2>2, <2>3 DEF StampAfter
    <2> HIDE DEF stamp, heard
    <2>5. IsAlive(held.of) <=> clock - log[i].stamp <= MaxAge
        <3>1. log[i].stamp # None /\ clock - log[i].stamp \in Int
            BY <1>1, <2>2, FramesAssumption
        <3>2. Age(held.of, "STATUS") = clock - log[i].stamp
            BY <1>4, <2>4, <3>1 DEF Age
        <3> QED
            BY <3>1, <3>2, FramesAssumption DEF IsAlive
    <2>6. \A j \in heard : log[j].stamp <= log[i].stamp
        <3>1. ASSUME NEW j \in heard PROVE log[j].stamp <= log[i].stamp
            <4>1. j \in 1..u /\ j <= i
                BY <1>6, <2>1, <3>1
            <4>2. i \in 1..Len(log) /\ j \in 1..Len(log)
                BY <1>1, <2>2, <4>1
            <4> QED
                BY <4>1, <4>2 DEF TelemetryAll, TelemetryInv, InTime
        <3> QED
            BY <3>1
    <2>7. ASSUME clock - log[i].stamp <= MaxAge
          PROVE  \E j \in 1..u : log[j].node = n /\ log[j].name = "STATUS" /\ log[j].stamp + MaxAge >= clock
        <3>1. log[i].stamp + MaxAge >= clock
            BY <1>1, <2>2, <2>7
        <3> QED
            BY <2>2, <3>1
    <2>8. ASSUME NEW j \in 1..u, log[j].node = n, log[j].name = "STATUS", log[j].stamp + MaxAge >= clock
          PROVE  clock - log[i].stamp <= MaxAge
        <3>1. log[j].stamp <= log[i].stamp /\ log[j].stamp \in Nat
            BY <1>3, <1>6, <2>6, <2>8
        <3> QED
            BY <1>1, <2>2, <2>8, <3>1
    <2> QED
        BY <2>5, <2>7, <2>8 DEF n, u
<1> QED
    BY <1>7, <1>8

LEMMA AnswerStep ==
    ASSUME TelemetryAll, AnswerAlive
    PROVE  TelemetryAll'
<1> USE DEF rxVars
<1>1. /\ asking /\ asking' = FALSE
      /\ alive' = [node |-> held.node, answer |-> IsAlive(held.of), at |-> clock, upto |-> held.upto]
      /\ UNCHANGED <<clock, rxVars, subscribers, held, seen, since, events>>
    BY DEF AnswerAlive
<1>2. held # None
    BY <1>1 DEF TelemetryAll, TelemetryInv, Snapshot
<1>3. held \in [node: Node, of: Snapshots, upto: 0..Len(log)] /\ clock \in Nat
    BY <1>2 DEF TelemetryAll, TelemetryTypeOK
<1>4. IsAlive(held.of) \in BOOLEAN
    BY DEF IsAlive
<1>5. alive' \in [node: Node, answer: BOOLEAN, at: Nat, upto: 0..Len(log)]
    BY <1>1, <1>3, <1>4
<1>6. TelemetryTypeOK'
    BY <1>1, <1>5 DEF TelemetryAll, TelemetryTypeOK
<1>7. Handling' /\ Known' /\ InTime' /\ Snapshot'
    BY <1>1 DEF TelemetryAll, TelemetryInv, Handling, Known, InTime, Snapshot
<1>8. Delivered'
    BY <1>1 DEF TelemetryAll, TelemetryInv, Delivered, LastFor
<1>9. SnapshotStays'
    BY <1>1 DEF TelemetryAll, SnapshotStays
<1>10. AliveMeansRecent'
    <2>1. /\ alive'.answer <=> IsAlive(held.of)
          /\ alive'.node = held.node /\ alive'.at = clock /\ alive'.upto = held.upto
        BY <1>1, <1>4
    <2> QED
        BY <1>1, <1>2, <2>1, AnswerIsRight DEF AliveMeansRecent
<1> QED
    BY <1>6, <1>7, <1>8, <1>9, <1>10 DEF TelemetryAll, TelemetryInv

LEMMA TickStep ==
    ASSUME TelemetryAll, Tick
    PROVE  TelemetryAll'
<1> USE DEF rxVars, userVars
<1>1. /\ events \in 0..MaxEvents /\ MaxEvents \in Nat /\ clock \in Nat
      /\ log \in Seq(Statuses) /\ Len(log) \in Nat
    BY TelemetryAssumption DEF TelemetryAll, TelemetryTypeOK
<1>2. /\ events < MaxEvents /\ events' = events + 1 /\ clock' = clock + 1
      /\ UNCHANGED <<rxVars, subscribers, userVars, seen, since>>
    BY DEF Tick, Happens
<1>3. TelemetryTypeOK'
    BY <1>1, <1>2 DEF TelemetryAll, TelemetryTypeOK
<1>4. Handling' /\ Known' /\ Snapshot'
    BY <1>1, <1>2 DEF TelemetryAll, TelemetryInv, Handling, Known, Snapshot
<1>5. InTime'
    <2>1. \A i \in 1..Len(log) : log[i].stamp \in Nat
        BY <1>1, StampOf
    <2>2. rx = "store" => decoded.stamp \in Nat
        BY DEF TelemetryAll, TelemetryInv, Handling, Statuses
    <2> QED
        BY <1>1, <1>2, <2>1, <2>2 DEF TelemetryAll, TelemetryInv, InTime
<1>6. Delivered'
    BY <1>2 DEF TelemetryAll, TelemetryInv, Delivered, LastFor
<1>7. SnapshotStays' /\ AliveMeansRecent'
    BY <1>2 DEF TelemetryAll, SnapshotStays, AliveMeansRecent
<1> QED
    BY <1>3, <1>4, <1>5, <1>6, <1>7 DEF TelemetryAll, TelemetryInv


LEMMA TelemetryStep ==
    ASSUME TelemetryAll, [Next]_vars
    PROVE  TelemetryAll'
<1>1. events \in 0..MaxEvents /\ MaxEvents \in Nat
    BY TelemetryAssumption DEF TelemetryAll, TelemetryTypeOK
<1>2. CASE UNCHANGED telemetryVars
    BY <1>1, <1>2, SameTelemetry DEF telemetryVars
<1>3. ASSUME NEW c \in Commands, SendConf(c) PROVE TelemetryAll'
    <2>1. /\ UNCHANGED <<clock, rxVars, subscribers, userVars, seen, since>>
          /\ events < MaxEvents /\ events' = events + 1
        BY <1>3 DEF SendConf, Happens
    <2> QED
        BY <1>1, <2>1, SameTelemetry
<1>4. ASSUME Elsewhere PROVE TelemetryAll'
    <2>1. \/ \E frame \in Frames : OnMessage(frame)
          \/ Store \/ Notify \/ Notified
          \/ Tick
          \/ \E s \in Subscriber : Subscribe(s)
          \/ \E n \in Node : GetTelemetry(n) \/ AskAlive(n)
          \/ AnswerAlive
        BY <1>4 DEF Elsewhere, RxStep
    <2> QED
        BY <2>1, OnMessageStep, StoreStep, NotifyStep, NotifiedStep, TickStep, SubscribeStep,
           SnapshotStep, AnswerStep
<1>5. \/ UNCHANGED telemetryVars
      \/ \E c \in Commands : SendConf(c)
      \/ Elsewhere
    BY DEF Next, vars, Command, RecordConf, Forget
<1> QED
    BY <1>2, <1>3, <1>4, <1>5

-----------------------------------------------------------------------------
(* The record of the envelopes                                              *)

\* An envelope as the controller understands it: the packet tells whether it is
\* kept, and the values are those that were asked for, to the step.
LEMMA EnvelopeHeard ==
    ASSUME NEW c \in Commands, c.op \in Envelope, c.to = Self, Encodable(c), Sent(c)
    PROVE  /\ order'.heard[Self].values = Steps(c)
           /\ Steps(c) \in Seq(Int)
           /\ Agrees(c, Steps(c))
           /\ order'.heard[Self].name = StoredPacket[c.op] <=> c.store
<1>1. Self \in Node /\ Self \in {Self, Broadcast}
    BY NodeAssumption
<1>2. order'.heard[Self] = Heard(EncodeCommand(c))
    <2>1. ActsOn(Self, EncodeCommand(c))
        BY <1>1, FrameAddressee
    <2> QED
        BY <1>1, <2>1 DEF Sent
<1>3. Heard(EncodeCommand(c)) =
          [name |-> CommandName(c), values |-> Steps(c), delay |-> DelaySteps(c)]
    BY HeardAsMeant DEF Understood
<1>4. c.values \in Seq(Int) /\ c.store \in BOOLEAN /\ c # None
    BY CommandsAssumption
<1>5. /\ Steps(c) \in Seq(Int)
      /\ Steps(c) # None
      /\ \A i \in DOMAIN c.values : Nearest(c.values[i], Steps(c)[i])
    <2>1. Steps(c) \in Seq(Int)
        BY <1>4, RoundedIsNearest DEF Steps
    <2>2. \A i \in DOMAIN c.values : Nearest(c.values[i], Steps(c)[i])
        BY <1>4, NearestStep DEF Steps
    <2> QED
        BY <2>1, <2>2, FramesAssumption
<1>6. CommandName(c) = StoredPacket[c.op] <=> c.store
    <2>1. StoredPacket[c.op] # c.op
        BY EnvelopeNames
    <2> QED
        BY <1>4, <2>1 DEF CommandName
<1>7. Agrees(c, Steps(c))
    BY <1>4, <1>5 DEF Agrees
<1> QED
    BY <1>2, <1>3, <1>5, <1>6, <1>7

LEMMA ConfTyped ==
    ASSUME TypeOK
    PROVE  /\ clock \in Nat
           /\ unrecorded \in Commands \cup {None}
           /\ applied_conf \in [Key -> Records \cup {None}]
           /\ ram \in [Envelope -> Seq(Int) \cup {None}]
           /\ flash \in [Envelope -> Seq(Int) \cup {None}]
BY DEF TypeOK, TelemetryTypeOK

\* Nothing happens to an envelope, and time does not go back.
LEMMA SameConf ==
    ASSUME TypeOK, ConfInv, UNCHANGED confVars, clock' \in Nat, clock <= clock'
    PROVE  ConfInv'
<1> USE DEF confVars
<1>1. \A k \in Key : applied_conf[k] # None => applied_conf[k].stamp <= clock'
    <2>1. ASSUME NEW k \in Key, applied_conf[k] # None PROVE applied_conf[k].stamp <= clock'
        <3>1. applied_conf[k] \in Records
            BY <2>1, ConfTyped
        <3>2. applied_conf[k].stamp \in Nat
            BY <3>1 DEF Records
        <3> QED
            BY <2>1, <3>2, ConfTyped DEF ConfInv
    <2> QED
        BY <2>1
<1>2. \A e : /\ OnItsWay(e)' <=> OnItsWay(e)
             /\ FlashIsGiven(e)' <=> FlashIsGiven(e)
             /\ RamIsGiven(e)' <=> RamIsGiven(e)
    BY DEF OnItsWay, FlashIsGiven, RamIsGiven, Latest
<1> QED
    BY <1>1, <1>2 DEF ConfInv

LEMMA SendConfStep ==
    ASSUME TypeOK, ConfInv, NEW c \in Commands, SendConf(c)
    PROVE  ConfInv'
<1>1. c.op \in Envelope /\ c.to = Self /\ unrecorded = None /\ UNCHANGED <<clock, applied_conf>>
    BY DEF SendConf, Idle
<1>2. CASE UNCHANGED <<unrecorded, ram, flash>>
    BY <1>1, <1>2, SameConf, ConfTyped DEF confVars
<1>3. ASSUME Encodable(c), Sent(c), unrecorded' = c,
             ram' = [ram EXCEPT ![c.op] = order'.heard[Self].values],
             flash' = [flash EXCEPT ![c.op] = IF order'.heard[Self].name = StoredPacket[c.op]
                                              THEN order'.heard[Self].values ELSE @]
      PROVE  ConfInv'
    <2>1. c # None
        BY CommandsAssumption
    <2>2. /\ Agrees(c, Steps(c))
          /\ ram' = [ram EXCEPT ![c.op] = Steps(c)]
          /\ flash' = [flash EXCEPT ![c.op] = IF c.store THEN Steps(c) ELSE @]
        BY <1>1, <1>3, EnvelopeHeard
    <2>3. \A e \in Envelope : RamIsGiven(e) /\ FlashIsGiven(e)
        BY <1>1 DEF ConfInv, OnItsWay
    <2>4. ram'[c.op] = Steps(c) /\ (c.store => flash'[c.op] = Steps(c)) /\ (~c.store => flash'[c.op] = flash[c.op])
        BY <1>1, <2>2, ConfTyped
    <2>5. \A e \in Envelope \ {c.op} : ram'[e] = ram[e] /\ flash'[e] = flash[e]
        BY <1>1, <2>2, ConfTyped
    <2>6. \A e : OnItsWay(e)' <=> e = c.op
        BY <1>3, <2>1 DEF OnItsWay
    <2>7. ASSUME NEW e \in Envelope
          PROVE  IF OnItsWay(e)' THEN Agrees(c, ram'[e]) ELSE RamIsGiven(e)'
        <3>1. CASE e = c.op
            BY <2>2, <2>4, <2>6, <3>1
        <3>2. CASE e # c.op
            BY <1>1, <2>3, <2>5, <2>6, <3>2 DEF RamIsGiven, Latest
        <3> QED
            BY <3>1, <3>2
    <2>8. ASSUME NEW e \in Envelope
          PROVE  IF OnItsWay(e)' /\ c.store THEN Agrees(c, flash'[e]) ELSE FlashIsGiven(e)'
        <3>1. CASE e = c.op /\ c.store
            BY <2>2, <2>4, <2>6, <3>1
        <3>2. CASE e = c.op /\ ~c.store
            BY <1>1, <2>3, <2>4, <3>2 DEF FlashIsGiven
        <3>3. CASE e # c.op
            BY <1>1, <2>3, <2>5, <2>6, <3>3 DEF FlashIsGiven
        <3> QED
            BY <3>1, <3>2, <3>3
    <2>9. \A k \in Key : applied_conf'[k] # None => applied_conf'[k].stamp <= clock'
        BY <1>1 DEF ConfInv
    <2> QED
        BY <1>1, <1>3, <2>7, <2>8, <2>9 DEF ConfInv
<1> QED
    BY <1>2, <1>3 DEF SendConf

LEMMA RecordConfStep ==
    ASSUME TypeOK, ConfInv, RecordConf
    PROVE  ConfInv'
<1> DEFINE u == unrecorded
           new == [values |-> u.values, stamp |-> clock]
<1>1. /\ u # None /\ unrecorded' = None
      /\ applied_conf' = [applied_conf EXCEPT ![<<u.op, u.store>>] = new]
      /\ clock' = clock /\ ram' = ram /\ flash' = flash
    BY DEF RecordConf, telemetryVars
<1>2. u \in Commands
    BY <1>1, ConfTyped
<1>3. u.op \in Envelope /\ u.store \in BOOLEAN /\ u.values \in Seq(Int)
    BY <1>1, <1>2, CommandsAssumption DEF ConfInv
<1>4. new \in Records /\ new # None /\ new.values = u.values /\ new.stamp = clock
    BY <1>3, ConfTyped, RecordsAssumption DEF Records
<1>5. \A e \in Envelope, store \in BOOLEAN :
          /\ <<e, store>> \in Key
          /\ <<e, store>> = <<u.op, u.store>> <=> e = u.op /\ store = u.store
    BY DEF Key
<1> HIDE DEF u, new
<1>6. \A e \in Envelope, store \in BOOLEAN :
          applied_conf'[<<e, store>>] = IF e = u.op /\ store = u.store THEN new ELSE applied_conf[<<e, store>>]
    BY <1>1, <1>5, ConfTyped
<1>7. \A values : Agrees(u, values) => Agrees(new, values)
    BY <1>1, <1>4 DEF Agrees, u
<1>8. \A k \in Key : applied_conf'[k] # None => applied_conf'[k].stamp <= clock'
    <2>1. \A k \in Key : applied_conf'[k] = new \/ applied_conf'[k] = applied_conf[k]
        BY <1>1, ConfTyped
    <2> QED
        BY <1>1, <1>4, <2>1, ConfTyped DEF ConfInv
<1>9. ASSUME NEW e \in Envelope
      PROVE  RamIsGiven(e)' /\ FlashIsGiven(e)'
    <2>1. CASE e = u.op
        <3>1. OnItsWay(e)
            BY <1>1, <2>1 DEF OnItsWay, u
        <3>2. Agrees(new, ram[e]) /\ (u.store => Agrees(new, flash[e]))
            BY <1>7, <3>1 DEF ConfInv, u
        <3>3. applied_conf'[<<e, u.store>>] = new
            BY <1>3, <1>6, <2>1
        <3>4. \/ applied_conf'[<<e, ~u.store>>] = None
              \/ applied_conf'[<<e, ~u.store>>].stamp <= new.stamp
            <4>1. (~u.store) \in BOOLEAN /\ (~u.store) # u.store
                BY <1>3
            <4>2. <<e, ~u.store>> \in Key /\ applied_conf'[<<e, ~u.store>>] = applied_conf[<<e, ~u.store>>]
                BY <1>5, <1>6, <4>1
            <4> QED
                BY <1>4, <4>2 DEF ConfInv
        <3>5. RamIsGiven(e)'
            <4>1. PICK store \in BOOLEAN : store = u.store
                BY <1>3
            <4>2. Latest(e, store)'
                BY <1>4, <3>3, <3>4, <4>1 DEF Latest
            <4>3. Agrees(applied_conf'[<<e, store>>], ram'[e])
                BY <1>1, <3>2, <3>3, <4>1
            <4> QED
                BY <4>2, <4>3 DEF RamIsGiven
        <3>6. FlashIsGiven(e)'
            <4>1. CASE u.store
                BY <1>1, <1>3, <3>2, <3>3, <4>1 DEF FlashIsGiven
            <4>2. CASE ~u.store
                <5>1. FlashIsGiven(e)
                    BY <4>2 DEF ConfInv, u
                <5>2. applied_conf'[<<e, TRUE>>] = applied_conf[<<e, TRUE>>]
                    BY <1>6, <4>2
                <5> QED
                    BY <1>1, <5>1, <5>2 DEF FlashIsGiven
            <4> QED
                BY <4>1, <4>2
        <3> QED
            BY <3>5, <3>6
    <2>2. CASE e # u.op
        <3>1. RamIsGiven(e) /\ FlashIsGiven(e)
            BY <2>2 DEF ConfInv, OnItsWay, u
        <3>2. \A store \in BOOLEAN : applied_conf'[<<e, store>>] = applied_conf[<<e, store>>]
            BY <1>6, <2>2
        <3>3. \A store \in BOOLEAN : (~store) \in BOOLEAN
            OBVIOUS
        <3>4. \A store \in BOOLEAN : Latest(e, store)' <=> Latest(e, store)
            BY <3>2, <3>3 DEF Latest
        <3> QED
            BY <1>1, <3>1, <3>2, <3>4 DEF RamIsGiven, FlashIsGiven
    <2> QED
        BY <2>1, <2>2
<1>10. \A e : ~OnItsWay(e)'
    BY <1>1 DEF OnItsWay
<1> QED
    BY <1>1, <1>8, <1>9, <1>10 DEF ConfInv


LEMMA TypeStep ==
    ASSUME TypeOK, TelemetryAll', ConfInv, [Next]_vars
    PROVE  TypeOK'
<1>1. TelemetryTypeOK'
    BY DEF TelemetryAll
<1>2. order # None => order.cmd \in Commands /\ order.verdict \in Verdicts
    BY DEF TypeOK
<1>3. ASSUME NEW c \in Commands,
             Sent(c) \/ NotSent(c, "CanOperationError") \/ NotSent(c, "ValueError")
      PROVE  order'.cmd \in Commands /\ order'.verdict \in Verdicts
    BY <1>3 DEF Sent, NotSent, Verdicts
<1>4. ASSUME NEW c \in Commands, Command(c) PROVE TypeOK'
    <2>1. UNCHANGED confVars
        BY <1>4 DEF Command
    <2>2. order'.cmd \in Commands /\ order'.verdict \in Verdicts
        BY <1>3, <1>4 DEF Command
    <2> QED
        BY <1>1, <2>1, <2>2 DEF TypeOK, confVars
<1>5. ASSUME NEW c \in Commands, SendConf(c) PROVE TypeOK'
    <2>1. c.op \in Envelope /\ c.to = Self /\ UNCHANGED applied_conf
        BY <1>5 DEF SendConf
    <2>2. order'.cmd \in Commands /\ order'.verdict \in Verdicts
        BY <1>3, <1>5 DEF SendConf
    <2>3. CASE UNCHANGED <<unrecorded, ram, flash>>
        BY <1>1, <2>1, <2>2, <2>3 DEF TypeOK
    <2>4. ASSUME Encodable(c), Sent(c), unrecorded' = c,
                 ram' = [ram EXCEPT ![c.op] = order'.heard[Self].values],
                 flash' = [flash EXCEPT ![c.op] = IF order'.heard[Self].name = StoredPacket[c.op]
                                                  THEN order'.heard[Self].values ELSE @]
          PROVE  TypeOK'
        <3>1. order'.heard[Self].values \in Seq(Int)
            BY <2>1, <2>4, EnvelopeHeard
        <3>2. /\ ram' \in [Envelope -> Seq(Int) \cup {None}]
              /\ flash' \in [Envelope -> Seq(Int) \cup {None}]
            BY <2>1, <2>4, <3>1, ConfTyped
        <3> QED
            BY <1>1, <2>1, <2>2, <2>4, <3>2 DEF TypeOK
    <2> QED
        BY <1>5, <2>3, <2>4 DEF SendConf
<1>6. ASSUME RecordConf PROVE TypeOK'
    <2>1. /\ unrecorded # None /\ unrecorded' = None /\ UNCHANGED <<order, ram, flash>>
          /\ applied_conf' = [applied_conf EXCEPT ![<<unrecorded.op, unrecorded.store>>] =
                                 [values |-> unrecorded.values, stamp |-> clock]]
        BY <1>6 DEF RecordConf
    <2>2. unrecorded.op \in Envelope /\ unrecorded.store \in BOOLEAN /\ unrecorded.values \in Seq(Int)
        BY <2>1, ConfTyped, CommandsAssumption DEF ConfInv
    <2>3. [values |-> unrecorded.values, stamp |-> clock] \in Records
        BY <2>2, ConfTyped DEF Records
    <2>4. applied_conf' \in [Key -> Records \cup {None}]
        BY <2>1, <2>3, ConfTyped
    <2> QED
        BY <1>1, <2>1, <2>4 DEF TypeOK
<1>7. ASSUME Forget PROVE TypeOK'
    BY <1>1, <1>7 DEF Forget, TypeOK, confVars
<1>8. CASE UNCHANGED <<order, confVars>>
    BY <1>1, <1>8 DEF TypeOK, confVars
<1>9. Elsewhere \/ UNCHANGED vars => UNCHANGED <<order, confVars>>
    BY DEF Elsewhere, vars
<1> QED
    BY <1>4, <1>5, <1>6, <1>7, <1>8, <1>9 DEF Next

LEMMA ConfStep ==
    ASSUME TypeOK, TypeOK', ConfInv, [Next]_vars
    PROVE  ConfInv'
<1>1. CASE UNCHANGED confVars
    <2>1. clock' \in Nat /\ clock <= clock'
        <3>1. \/ clock' = clock
              \/ clock' = clock + 1
            BY DEF Next, Command, SendConf, RecordConf, Forget, Elsewhere, telemetryVars, vars,
                   OnMessage, RxStep, Store, Notify, Notified, Tick, Subscribe, GetTelemetry,
                   AskAlive, AnswerAlive
        <3> QED
            BY <3>1, ConfTyped
    <2> QED
        BY <1>1, <2>1, SameConf
<1>2. \/ UNCHANGED confVars
      \/ \E c \in Commands : SendConf(c)
      \/ RecordConf
    BY DEF Next, Command, Forget, Elsewhere, vars
<1> QED
    BY <1>1, <1>2, SendConfStep, RecordConfStep

-----------------------------------------------------------------------------
(* Theorems                                                                 *)

CanNodeAll == TypeOK /\ TelemetryAll /\ ConfInv

\* The inductive invariant: what is handed round is the last status stored, each
\* snapshot is what the log of statuses comes to, stamps and records are not
\* ahead of the clock, and an envelope on its way into the record is already
\* gone by.
THEOREM CanNodeInvariant == Spec => []CanNodeAll
<1>1. Init => CanNodeAll
    <2> SUFFICES ASSUME Init PROVE CanNodeAll
        OBVIOUS
    <2>1. TelemetryAll
        BY TelemetryStarts DEF Init
    <2>2. TypeOK
        BY <2>1 DEF Init, TypeOK, TelemetryAll
    <2>3. ConfInv
        <3>1. \A e \in Envelope : <<e, TRUE>> \in Key /\ <<e, FALSE>> \in Key
            BY DEF Key
        <3> QED
            BY <3>1 DEF Init, ConfInv, OnItsWay, RamIsGiven, FlashIsGiven, Agrees, Key
    <2> QED
        BY <2>1, <2>2, <2>3 DEF CanNodeAll
<1>2. CanNodeAll /\ [Next]_vars => CanNodeAll'
    <2> SUFFICES ASSUME CanNodeAll, [Next]_vars PROVE CanNodeAll'
        OBVIOUS
    <2>1. TypeOK /\ TelemetryAll /\ ConfInv
        BY DEF CanNodeAll
    <2>2. TelemetryAll'
        BY <2>1, TelemetryStep
    <2>3. TypeOK'
        BY <2>1, <2>2, TypeStep
    <2>4. ConfInv'
        BY <2>1, <2>3, ConfStep
    <2> QED
        BY <2>2, <2>3, <2>4 DEF CanNodeAll
<1> QED
    BY <1>1, <1>2, PTL DEF Spec

\* The variables keep their types: a callback is called from its place in the
\* list, what is on the bus is decoded to a known controller's status, and what
\* a controller goes by is what it was sent.
THEOREM CanNodeTypeCorrect == Spec => []TypeOK
<1>1. CanNodeAll => TypeOK
    BY DEF CanNodeAll
<1> QED
    BY <1>1, CanNodeInvariant, PTL

\* A snapshot that telemetry() has returned does not change under its owner.
THEOREM SnapshotsStay == Spec => []SnapshotStays
<1>1. CanNodeAll => SnapshotStays
    BY DEF CanNodeAll, TelemetryAll
<1> QED
    BY <1>1, CanNodeInvariant, PTL

\* Each subscriber is called once for each status since it came, in order,
\* however its registration meets the loop that hands a status round.
THEOREM CalledOnceEach == Spec => []EachStatusOnce
<1>1. CanNodeAll => EachStatusOnce
    <2> SUFFICES ASSUME CanNodeAll, NEW s \in Subscriber, since[s] # None
                 PROVE  \E first \in {since[s], since[s] + 1} \ {0}, last \in {Len(log) - 1, Len(log)} :
                           /\ seen[s] = SubSeq(log, first, last)
                           /\ last = Len(log) \/ rx \in {"notify", "dead"}
        BY DEF EachStatusOnce
    <2>1. PICK p \in DOMAIN subscribers, first \in {since[s], since[s] + 1} \ {0} :
              seen[s] = SubSeq(log, first, LastFor(p))
        BY DEF CanNodeAll, TelemetryAll, TelemetryInv, Delivered
    <2>2. /\ LastFor(p) \in {Len(log) - 1, Len(log)}
          /\ LastFor(p) = Len(log) \/ rx \in {"notify", "dead"}
        BY DEF LastFor
    <2> QED
        BY <2>1, <2>2
<1> QED
    BY <1>1, CanNodeInvariant, PTL

\* Whatever a controller reports, in the range of its fields, is what the RX
\* thread decodes.
THEOREM ReportsAreDecoded == Spec => []StatusAsReported
<1>1. CanNodeAll => StatusAsReported
    <2> SUFFICES ASSUME CanNodeAll, rx = "store", NEW n \in Node, NEW name \in DOMAIN StatusFields
                 PROVE  DecodeFrame(StatusFrame(n, name, Reading(name))) =
                            [node |-> n, name |-> name, values |-> Reading(name)]
        BY DEF StatusAsReported
    <2>1. log \in Seq(Statuses) /\ events \in 0..MaxEvents /\ MaxEvents \in Nat
        BY TelemetryAssumption DEF CanNodeAll, TelemetryAll, TelemetryTypeOK
    <2>2. Len(log) \in Nat /\ Len(log) + 1 <= events
        BY <2>1 DEF CanNodeAll, TelemetryAll, TelemetryInv, Handling
    <2>3. Len(log) < MaxEvents
        BY <2>1, <2>2
    <2> QED
        BY <2>2, <2>3, DecodedStatus
<1> QED
    BY <1>1, CanNodeInvariant, PTL

\* is_alive says that a controller is alive if and only if a STATUS of its own
\* had come, when the snapshot was taken, within max_age_s of the answer.
THEOREM AliveIsRecent == Spec => []AliveMeansRecent
<1>1. CanNodeAll => AliveMeansRecent
    BY DEF CanNodeAll, TelemetryAll
<1> QED
    BY <1>1, CanNodeInvariant, PTL

\* After each conf_* call the controller goes by the envelope recorded last, and
\* keeps in flash the one recorded as stored, whichever calls failed before.
THEOREM RecordsAreGiven == Spec => []RecordIsGiven
<1>1. CanNodeAll => RecordIsGiven
    BY DEF CanNodeAll, ConfInv, OnItsWay, RecordIsGiven
<1> QED
    BY <1>1, CanNodeInvariant, PTL
=============================================================================
