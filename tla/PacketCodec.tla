------------------------------ MODULE PacketCodec ------------------------------
(***************************************************************************)
(* The VESC packet codec (src/pyvesc/protocol/packet): frame, unframe and  *)
(* the recovery after corrupt bytes, and the loop of its callers, VESC.read *)
(* and decode, that unframes a stream which arrives in pieces.             *)
(*                                                                         *)
(* A packet is a start byte, the length in one byte (start byte 2) or two  *)
(* (start byte 3), the payload, two bytes of CRC and the terminator, which *)
(* is 3 as well.  Bytes are 0..ByteCount-1, so that a small ByteCount      *)
(* brings the two-byte lengths within the bounds of a run.                 *)
(*                                                                         *)
(* Only errors='ignore' is modelled: no caller asks for 'strict'.  The     *)
(* wire is external; it may lose bytes and add some of its own.            *)
(***************************************************************************)
EXTENDS Integers, Sequences, SequencesExt

CONSTANTS
    ByteCount,   \* 256 in the code
    Payloads,    \* payloads that are sent
    MaxPackets,  \* bound: packets sent in a behaviour
    MaxNoise,    \* bound: bytes lost or added
    None         \* Python's None

Byte == 0..ByteCount - 1

ASSUME CodecAssumption ==
    /\ ByteCount \in Nat /\ ByteCount > 3
    /\ Payloads \subseteq Seq(Byte)
    /\ MaxPackets \in Nat
    /\ MaxNoise \in Nat
    /\ None \notin Seq(Byte)

VARIABLES
    wire,      \* bytes on their way
    buffer,    \* payload of VESC.read, buffer of decode: bytes not consumed
    sent,      \* payloads framed so far
    received,  \* payloads unframed so far
    noise      \* bytes the wire has lost or added

vars == <<wire, buffer, sent, received, noise>>

-----------------------------------------------------------------------------
(* Packing.                                                                 *)

\* A checksum of two bytes, in the place of CRC-16/XMODEM.
Crc(payload) ==
    LET crc[n \in 0..Len(payload)] ==
          IF n = 0
          THEN 0
          ELSE (ByteCount * crc[n - 1] + crc[n - 1] \div ByteCount + payload[n] + 1)
                  % (ByteCount * ByteCount)
    IN crc[Len(payload)]

TwoBytes(n) == <<n \div ByteCount, n % ByteCount>>

\* Mutant of Header: "<=" in Header.generate.
HeaderOffByOne(payload) ==
    IF Len(payload) <= ByteCount
    THEN <<2, Len(payload)>>
    ELSE <<3>> \o TwoBytes(Len(payload))

\* Header.generate
Header(payload) ==
    IF Len(payload) < ByteCount
    THEN <<2, Len(payload)>>
    ELSE <<3>> \o TwoBytes(Len(payload))

\* Footer.generate
Footer(payload) == Append(TwoBytes(Crc(payload)), 3)

\* _pack; the empty payload and one that is too long raise InvalidPayload.
Packable(payload) == Len(payload) \in 1..ByteCount * ByteCount - 1
Frame(payload) == Header(payload) \o payload \o Footer(payload)

-----------------------------------------------------------------------------
(* Unpacking, of the packet that starts at i.                               *)

FooterSize == 3
Rest(i) == Len(buffer) - i + 1

\* Mutant of NextPossibleIndex: start bytes of long packets are not looked for.
NextShortIndex(i) ==
    SelectInSubSeq(buffer, i + 1, Len(buffer), LAMBDA b : b = 2)

\* _next_possible_packet_index, 0 for -1.
NextPossibleIndex(i) ==
    SelectInSubSeq(buffer, i + 1, Len(buffer), LAMBDA b : b \in {2, 3})

\* Header.fmt, its size, and Header.parse.  payload_index is the start byte, and
\* the size of the header is the same number.
HeaderSize(i) == buffer[i]

\* Mutant of PayloadLength: the two bytes of a long length swapped.
LengthSwapped(i) ==
    IF buffer[i] = 2 THEN buffer[i + 1] ELSE buffer[i + 1] + ByteCount * buffer[i + 2]

PayloadLength(i) ==
    IF buffer[i] = 2 THEN buffer[i + 1] ELSE ByteCount * buffer[i + 1] + buffer[i + 2]
PacketSize(i) == HeaderSize(i) + PayloadLength(i) + FooterSize

\* _unpack_header finds a header, and _packet_parsable a whole packet.
PacketParsable(i) ==
    /\ Rest(i) >= HeaderSize(i)
    /\ Rest(i) >= PacketSize(i)

UnpackPayload(i) ==
    SubSeq(buffer, i + HeaderSize(i), i + HeaderSize(i) + PayloadLength(i) - 1)

\* _validate_payload
ValidPayload(i) ==
    SubSeq(buffer, i + PacketSize(i) - FooterSize, i + PacketSize(i) - 1)
       = Footer(UnpackPayload(i))

Nothing(consumed) == [payload |-> None, consumed |-> consumed]

\* Mutant of Recovered: the bytes before the recovered packet are not counted.
RecoveredUncounted(inner, skipped, consume) == inner

\* The two ends of _recovery_recurse: what was skipped counts as consumed when the
\* packet before it was corrupt, or one was recovered behind it.
Recovered(inner, skipped, consume) ==
    IF consume \/ inner.payload # None
    THEN [inner EXCEPT !.consumed = @ + skipped]
    ELSE inner

\* _recovery_recurse at i; inner is what _unpack makes of the buffer from the next
\* possible start byte on.
Recover(i, inner, consume) ==
    LET next == NextPossibleIndex(i) IN
    IF next = 0
    THEN Nothing(IF consume THEN Rest(i) ELSE 0)
    ELSE Recovered(inner, next - i, consume)

\* _unpack at i.  With recovering, what looks like a packet of which bytes are
\* missing is passed over as well.
UnpackAt(i, recovering, inner) ==
    IF buffer[i] \notin {2, 3}
    THEN Recover(i, inner, TRUE)
    ELSE IF ~PacketParsable(i)
    THEN IF recovering THEN Recover(i, inner, FALSE) ELSE Nothing(0)
    ELSE IF ValidPayload(i)
    THEN [payload |-> UnpackPayload(i), consumed |-> PacketSize(i)]
    ELSE Recover(i, inner, TRUE)

\* The calls _unpack and _recovery_recurse make of each other, in recovery mode.
Recovery[i \in 0..Len(buffer)] ==
    IF i = 0 THEN Nothing(0) ELSE UnpackAt(i, TRUE, Recovery[NextPossibleIndex(i)])

\* unframe(buffer)
Unpack ==
    IF buffer = << >>
    THEN Nothing(0)
    ELSE UnpackAt(1, FALSE, Recovery[NextPossibleIndex(1)])

-----------------------------------------------------------------------------
(* The stream.                                                              *)

TypeOK ==
    /\ wire \in Seq(Byte)
    /\ buffer \in Seq(Byte)
    /\ sent \in Seq(Payloads)
    /\ Len(sent) <= MaxPackets
    /\ received \in Seq(Seq(Byte))
    /\ noise \in 0..MaxNoise

Init ==
    /\ wire = << >>
    /\ buffer = << >>
    /\ sent = << >>
    /\ received = << >>
    /\ noise = 0

Send(payload) ==
    /\ Packable(payload)
    /\ Len(sent) < MaxPackets
    /\ wire' = wire \o Frame(payload)
    /\ sent' = Append(sent, payload)
    /\ UNCHANGED <<buffer, received, noise>>

LoseByte ==
    /\ noise < MaxNoise
    /\ wire # << >>
    /\ wire' = Tail(wire)
    /\ noise' = noise + 1
    /\ UNCHANGED <<buffer, sent, received>>

AddByte(b) ==
    /\ noise < MaxNoise
    /\ wire' = Append(wire, b)
    /\ noise' = noise + 1
    /\ UNCHANGED <<buffer, sent, received>>

\* "payload += self.serial_port.read(waiting)", when the loop below has ended.
Arrive ==
    /\ Unpack.consumed = 0
    /\ \E n \in 1..Len(wire) :
          /\ buffer' = buffer \o SubSeq(wire, 1, n)
          /\ wire' = SubSeq(wire, n + 1, Len(wire))
    /\ UNCHANGED <<sent, received, noise>>

\* "while True: frame_payload, consumed = unframe(payload)", until consumed is 0.
Unframe ==
    LET r == Unpack IN
    /\ r.consumed > 0
    /\ buffer' = SubSeq(buffer, r.consumed + 1, Len(buffer))
    /\ received' = IF r.payload = None THEN received ELSE Append(received, r.payload)
    /\ UNCHANGED <<wire, sent, noise>>

Next ==
    \/ \E p \in Payloads : Send(p)
    \/ LoseByte
    \/ \E b \in Byte : AddByte(b)
    \/ Arrive
    \/ Unframe

Spec == Init /\ [][Next]_vars

-----------------------------------------------------------------------------
(* Properties.                                                              *)

\* On a wire without noise the pieces the stream arrives in make no difference:
\* every payload is received, once, in order, whatever start bytes it contains,
\* and once the wire is empty nothing is left behind.
CleanStreamReceived ==
    noise = 0 =>
       /\ IsPrefix(received, sent)
       /\ wire = << >> /\ Unpack.consumed = 0 => received = sent /\ buffer = << >>

\* Why, with end[j] the place where the packet of the j-th payload ends: what is
\* on its way is the packets of the payloads not received yet, back to back.
Stream == buffer \o wire

EndOfPackets(end) ==
    /\ end[Len(received)] = 0
    /\ end[Len(sent)] = Len(Stream)
    /\ \A j \in Len(received) + 1..Len(sent) :
          LET packet == Frame(sent[j]) IN
          /\ end[j] = end[j - 1] + Len(packet)
          /\ \A k \in 1..Len(packet) : Stream[end[j - 1] + k] = packet[k]
    /\ \A j, k \in Len(received)..Len(sent) : j <= k => end[j] <= end[k]

StreamOfPackets ==
    /\ \A j \in 1..Len(sent) : Packable(sent[j])
    /\ noise = 0 =>
          /\ IsPrefix(received, sent)
          /\ \E end \in [Len(received)..Len(sent) -> 0..Len(Stream)] : EndOfPackets(end)

\* The payloads of packets, with the length in either form, that start at i.
PayloadsAt(i) ==
    {p \in {SubSeq(buffer, j, k) : j \in i + 2..i + 3, k \in i + 1..Len(buffer)} :
        LET n == Len(p) IN
        \E header \in {<<2, n>>, <<3>> \o TwoBytes(n)} :
           /\ IsPrefix(header, SubSeq(buffer, i, Len(buffer)))
           /\ IsPrefix(p \o Footer(p), SubSeq(buffer, i + Len(header), Len(buffer)))}

\* Bytes of the packet that the buffer begins with are still missing.
Incomplete == buffer[1] \in {2, 3} /\ ~PacketParsable(1)

\* Whatever is in the buffer, unframe waits only for a packet it begins with;
\* otherwise it returns the first whole packet there is, behind any amount of
\* corrupt bytes and of what only looks like packets, with everything up to its
\* end consumed; and if there is none it consumes something, so that the loops
\* of read and decode end (test.py:151: "if a packet is corrupt then at least
\* something should be consumed").
FirstPacketFound ==
    LET Starts == {i \in 1..Len(buffer) : buffer[i] \in {2, 3} /\ PayloadsAt(i) # {}} IN
    buffer # << >> =>
       \/ Incomplete /\ Unpack = Nothing(0)
       \/ /\ ~Incomplete
          /\ \E i \in Starts : \E p \in PayloadsAt(i) :
                /\ \A j \in Starts : i <= j
                /\ Unpack = [payload |-> p,
                             consumed |-> i - 1 + buffer[i] + Len(p) + FooterSize]
       \/ /\ ~Incomplete
          /\ Starts = {}
          /\ Unpack.payload = None
          /\ Unpack.consumed \in 1..Len(buffer)
=============================================================================
