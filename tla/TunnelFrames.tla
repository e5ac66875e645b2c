----------------------------- MODULE TunnelFrames -----------------------------
(***************************************************************************)
(* The bytes of the COMM-over-CAN tunnel: encode_comm_frames               *)
(* (src/pyvesc/can/frames.py) against the reassembly in                    *)
(* VescCanBus._on_tunnel_frame (src/pyvesc/can/bus.py).                    *)
(*                                                                         *)
(* Both directions of the tunnel use this format, so that one end is the   *)
(* encoder and the other _on_tunnel_frame.  Payloads come one after        *)
(* another from one sender, frames keep their order and any of them may be *)
(* lost.  _comm_buf is never cleared: what earlier payloads left in it is  *)
(* there when the next one arrives.                                        *)
(*                                                                         *)
(* Abstraction: CRC-16 tells any two payloads apart, so that it is         *)
(* represented by the payload it was computed over.  CommTunnel takes from *)
(* here that a reply is published exactly when all of it has arrived.      *)
(***************************************************************************)
EXTENDS Integers, Sequences

CONSTANTS
    Base,         \* values of a byte: 256 in the code, 16 in the runs
    BufferSize,   \* length of _comm_buf at the start: 512 in the code
    Payload,      \* the COMM payloads that are sent
    Sender,       \* the id of the sender
    MaxMessages,  \* bound: payloads sent in one behaviour
    NoReply       \* _comm_reply is None

Byte == 0..Base - 1

\* Longer ones do not fit the two bytes of the length: struct.pack raises before
\* any frame is sent.  An empty one raises ValueError.
ASSUME FramesAssumption ==
    /\ Base \in Nat \ {0}
    /\ BufferSize \in Nat
    /\ Payload \subseteq {p \in Seq(Byte) : Len(p) \in 1..Base * Base - 1}
    /\ Sender \in Byte
    /\ MaxMessages \in Nat
    /\ NoReply \notin [sender: Byte, payload: Seq(Byte)]

VARIABLES
    sending,      \* encode_comm_frames has frames left for payload
    payload,      \* the payload sent last, or << >>
    i,            \* offset of the next chunk
    messages,     \* payloads so far
    lost,         \* history: a frame of this payload has been lost
    _comm_buf,    \* a function from the offsets 0..size - 1
    size,         \* len(_comm_buf)
    _comm_reply

senderVars == <<sending, payload, i, messages>>
bufferVars == <<_comm_buf, size, _comm_reply>>
assemblyVars == <<senderVars, lost, bufferVars>>

\* What fits in a frame of eight bytes behind one or two bytes of offset, or behind
\* the sender and the flag.
FillChunk == 7
LongChunk == 6
ShortPayload == 6

Min2(a, b) == IF a <= b THEN a ELSE b
Max2(a, b) == IF a <= b THEN b ELSE a

Reply == [sender: Byte, payload: Seq(Byte)]

AssemblyTypeOK ==
    /\ sending \in BOOLEAN
    /\ payload \in Payload \cup {<< >>}
    /\ i \in 0..Len(payload)
    /\ messages \in 0..MaxMessages
    /\ lost \in BOOLEAN
    /\ size \in Nat
    /\ _comm_buf \in [0..size - 1 -> Byte]
    /\ _comm_reply \in Reply \cup {NoReply}

AssemblyInit ==
    /\ sending = FALSE
    /\ payload = << >>
    /\ i = 0
    /\ messages = 0
    /\ lost = FALSE
    /\ size = BufferSize
    /\ _comm_buf = [k \in 0..BufferSize - 1 |-> 0]
    /\ _comm_reply = NoReply

-----------------------------------------------------------------------------
(* The receiver.                                                            *)

\* _comm_buf[off:off + len(data)] = data.  A slice that starts behind the end is
\* an append, and one that ends there makes the buffer longer.
Splice(off, data) ==
    LET at == Min2(off, size)
        end == at + Len(data) IN
    /\ size' = Max2(size, end)
    /\ _comm_buf' = [k \in 0..Max2(size, end) - 1 |->
                        IF k \in at..end - 1 THEN data[k - at + 1] ELSE _comm_buf[k]]
    /\ UNCHANGED _comm_reply

\* _comm_buf[:length]
Prefix(length) == [k \in 1..Min2(length, size) |-> _comm_buf[k - 1]]

\* The big-endian number in two bytes.
Word(high, low) == high * Base + low

OnShort(data) ==
    /\ _comm_reply' = IF Len(data) >= 3
                      THEN [sender |-> data[1], payload |-> SubSeq(data, 3, Len(data))]
                      ELSE _comm_reply
    /\ UNCHANGED <<_comm_buf, size>>

OnFill(data) == Splice(data[1], Tail(data))

\* Mutant of OnFillLong: the high byte of the offset is left out.
OnFillLongLow(data) == Splice(data[2], Tail(Tail(data)))

OnFillLong(data) == Splice(Word(data[1], data[2]), Tail(Tail(data)))

OnProcess(data, crc) ==
    /\ _comm_reply' = IF Prefix(Word(data[3], data[4])) = crc
                      THEN [sender |-> data[1], payload |-> Prefix(Word(data[3], data[4]))]
                      ELSE _comm_reply
    /\ UNCHANGED <<_comm_buf, size>>

-----------------------------------------------------------------------------
(* The encoder, one frame after another.                                    *)

Lose == lost' = TRUE /\ UNCHANGED bufferVars

\* struct.pack('!H', n)
WordBytes(n) == LET high == n \div Base IN <<high, n - high * Base>>

\* payload[i:i + n]
Chunk(n) == SubSeq(payload, i + 1, Min2(i + n, Len(payload)))

\* The caller has set _comm_reply to None before the request.
Begin ==
    /\ ~sending
    /\ messages < MaxMessages
    /\ \E p \in Payload : payload' = p
    /\ messages' = messages + 1
    /\ sending' = TRUE
    /\ i' = 0
    /\ lost' = FALSE
    /\ _comm_reply' = NoReply
    /\ UNCHANGED <<_comm_buf, size>>

ShortFrame ==
    /\ sending
    /\ Len(payload) <= ShortPayload
    /\ (OnShort(<<Sender, 0>> \o payload) /\ UNCHANGED lost) \/ Lose
    /\ sending' = FALSE
    /\ i' = Len(payload)
    /\ UNCHANGED <<payload, messages>>

\* Mutant of FillFrame: the offset goes on by a whole chunk.
FillFrameWhole ==
    /\ sending
    /\ Len(payload) > ShortPayload
    /\ i < Base /\ i < Len(payload)
    /\ (OnFill(<<i>> \o Chunk(FillChunk)) /\ UNCHANGED lost) \/ Lose
    /\ i' = i + FillChunk
    /\ UNCHANGED <<sending, payload, messages>>

\* "while i <= 255 and i < len(payload)"
FillFrame ==
    /\ sending
    /\ Len(payload) > ShortPayload
    /\ i < Base /\ i < Len(payload)
    /\ (OnFill(<<i>> \o Chunk(FillChunk)) /\ UNCHANGED lost) \/ Lose
    /\ i' = i + Len(Chunk(FillChunk))
    /\ UNCHANGED <<sending, payload, messages>>

\* "while i < len(payload)"
FillLongFrame ==
    /\ sending
    /\ Len(payload) > ShortPayload
    /\ i >= Base /\ i < Len(payload)
    /\ (OnFillLong(WordBytes(i) \o Chunk(LongChunk)) /\ UNCHANGED lost) \/ Lose
    /\ i' = i + Len(Chunk(LongChunk))
    /\ UNCHANGED <<sending, payload, messages>>

ProcessFrame ==
    /\ sending
    /\ Len(payload) > ShortPayload
    /\ i >= Len(payload)
    /\ \/ /\ OnProcess(<<Sender, 0>> \o WordBytes(Len(payload)), payload)
          /\ UNCHANGED lost
       \/ Lose
    /\ sending' = FALSE
    /\ UNCHANGED <<payload, i, messages>>

Encode == ShortFrame \/ FillFrame \/ FillLongFrame \/ ProcessFrame

AssemblyNext == Begin \/ Encode

AssemblySpec == AssemblyInit /\ [][AssemblyNext]_assemblyVars

-----------------------------------------------------------------------------
(* Properties.                                                              *)

\* A payload of which no frame is lost is published as it was sent, whatever is in
\* the buffer: the frames of the two formats meet without a gap or an overlap, and
\* bytes left by a longer payload, or by one that lost a frame, do no harm.
WholeIsPublished ==
    payload # << >> /\ ~sending /\ ~lost =>
        _comm_reply = [sender |-> Sender, payload |-> payload]

\* Replacing a slice makes _comm_buf longer only as far as the longest payload
\* goes, even when a frame in front of the slice was lost.
BufferBounded ==
    size <= BufferSize \/ \E p \in Payload : size <= Len(p)
=============================================================================
