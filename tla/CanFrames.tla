------------------------------ MODULE CanFrames ------------------------------
(***************************************************************************)
(* The pure codec of the native CAN protocol (src/pyvesc/can/frames.py):   *)
(* command and envelope encoders, and the decoder of STATUS frames.  The   *)
(* tunnel's encoder is in TunnelFrames.                                    *)
(*                                                                         *)
(* A frame is [id, data].  A command is [op, to, values, delay, store]:    *)
(* values and delay in half steps (see ScaledIntegers), delay NoDelay when *)
(* off_delay_s is None, store FALSE outside the CONF commands.             *)
(***************************************************************************)
EXTENDS ScaledIntegers

CONSTANTS
    One,      \* steps in 1.0 of a relative command, 100000 in the code
    NoDelay,  \* off_delay_s is None
    None      \* Python's None

ASSUME FramesAssumption ==
    /\ One \in Nat /\ Fits(One, 4)
    /\ NoDelay \notin Int
    /\ None \notin Int /\ None \notin Seq(Int)

\* CanPacketId, without the tunnel's.
PacketId ==
    [SET_DUTY |-> 0, SET_CURRENT |-> 1, SET_CURRENT_BRAKE |-> 2, SET_RPM |-> 3, SET_POS |-> 4,
     STATUS |-> 9, SET_CURRENT_REL |-> 10, SET_CURRENT_BRAKE_REL |-> 11,
     SET_CURRENT_HANDBRAKE |-> 12, SET_CURRENT_HANDBRAKE_REL |-> 13,
     STATUS_2 |-> 14, STATUS_3 |-> 15, STATUS_4 |-> 16,
     CONF_CURRENT_LIMITS |-> 21, CONF_STORE_CURRENT_LIMITS |-> 22,
     CONF_CURRENT_LIMITS_IN |-> 23, CONF_STORE_CURRENT_LIMITS_IN |-> 24,
     CONF_FOC_ERPMS |-> 25, CONF_STORE_FOC_ERPMS |-> 26, STATUS_5 |-> 27,
     CONF_BATTERY_CUT |-> 29, CONF_STORE_BATTERY_CUT |-> 30, SHUTDOWN |-> 31, STATUS_6 |-> 58]

Broadcast == 255

ArbitrationId(packet, controller) == 256 * packet + controller
PacketOf(id) == id \div 256
AddresseeOf(id) == id % 256

\* The fields of a frame, one after the other: there are four at most.
Concatenated(fields) ==
    CASE Len(fields) = 0 -> << >>
      [] Len(fields) = 1 -> fields[1]
      [] Len(fields) = 2 -> fields[1] \o fields[2]
      [] Len(fields) = 3 -> fields[1] \o fields[2] \o fields[3]
      [] Len(fields) = 4 -> fields[1] \o fields[2] \o fields[3] \o fields[4]

-----------------------------------------------------------------------------
(* Encoders                                                                 *)

Relative == {"SET_DUTY", "SET_CURRENT_REL", "SET_CURRENT_BRAKE_REL", "SET_CURRENT_HANDBRAKE_REL"}

OneValue ==
    Relative \cup {"SET_CURRENT", "SET_CURRENT_BRAKE", "SET_RPM", "SET_POS", "SET_CURRENT_HANDBRAKE"}

\* The packet of an envelope that is kept in flash.
StoredPacket ==
    [CONF_CURRENT_LIMITS |-> "CONF_STORE_CURRENT_LIMITS",
     CONF_CURRENT_LIMITS_IN |-> "CONF_STORE_CURRENT_LIMITS_IN",
     CONF_FOC_ERPMS |-> "CONF_STORE_FOC_ERPMS",
     CONF_BATTERY_CUT |-> "CONF_STORE_BATTERY_CUT"]
Envelope == DOMAIN StoredPacket

InInt32(h) == Fits(RoundedHalfSteps(h), 4)
CheckRel(h) == Magnitude(h) <= 2 * One
CheckOffDelay(h) == 0 <= h /\ h <= 2 * Highest(2)

\* ValueError where this is false.
Encodable(c) ==
    /\ c.to \in 0..255
    /\ \A i \in DOMAIN c.values : InInt32(c.values[i])
    /\ c.op \in Relative => \A i \in DOMAIN c.values : CheckRel(c.values[i])
    /\ c.delay # NoDelay => CheckOffDelay(c.delay)

Scaled(h, n) == SignedDigits(RoundedHalfSteps(h), n)

ValueBytes(c) == Concatenated([i \in DOMAIN c.values |-> Scaled(c.values[i], 4)])

\* Mutant of CommandBytes: the off-delay always comes last.
CommandBytesDelayLast(c) ==
    IF c.delay = NoDelay THEN ValueBytes(c) ELSE ValueBytes(c) \o Scaled(c.delay, 2)

\* The off-delay is in front of a current and behind a relative current.
CommandBytes(c) ==
    IF c.delay = NoDelay THEN ValueBytes(c)
    ELSE IF c.op = "SET_CURRENT" THEN Scaled(c.delay, 2) \o ValueBytes(c)
    ELSE ValueBytes(c) \o Scaled(c.delay, 2)

EncodeCommand(c) ==
    [id |-> ArbitrationId(PacketId[IF c.store THEN StoredPacket[c.op] ELSE c.op], c.to),
     data |-> CommandBytes(c)]

-----------------------------------------------------------------------------
(* Decoders                                                                 *)

I32(offset) == [offset |-> offset, bytes |-> 4]
I16(offset) == [offset |-> offset, bytes |-> 2]

\* Where the fields of each STATUS frame are.
StatusFields ==
    [STATUS |-> <<I32(0), I16(4), I16(6)>>,
     STATUS_2 |-> <<I32(0), I32(4)>>,
     STATUS_3 |-> <<I32(0), I32(4)>>,
     STATUS_4 |-> <<I16(0), I16(2), I16(4), I16(6)>>,
     STATUS_5 |-> <<I32(0), I16(4)>>,
     STATUS_6 |-> <<I16(0), I16(2), I16(4), I16(6)>>]

ShortestStatus(name) == IF name = "STATUS_5" THEN 6 ELSE 8

\* Mutant of ReadField: the fields are taken for unsigned.
ReadFieldUnsigned(data, f) == Unsigned(SubSeq(data, f.offset + 1, f.offset + f.bytes))

ReadField(data, f) == Signed(SubSeq(data, f.offset + 1, f.offset + f.bytes))

\* Commands, unknown packets and frames that are too short decode to None.
DecodeFrame(frame) ==
    LET names == {name \in DOMAIN StatusFields :
                      /\ PacketId[name] = PacketOf(frame.id)
                      /\ Len(frame.data) >= ShortestStatus(name)}
    IN  IF names = {} THEN None
        ELSE LET name == CHOOSE n \in names : TRUE
             IN  [node |-> AddresseeOf(frame.id), name |-> name,
                  values |-> [i \in DOMAIN StatusFields[name] |->
                                 ReadField(frame.data, StatusFields[name][i])]]

-----------------------------------------------------------------------------
(* The controller's end, external: what the head of frames.py says of it.   *)

NameOf(packet) == CHOOSE name \in DOMAIN PacketId : PacketId[name] = packet

NumberAt(data, offset, n) == Signed(SubSeq(data, offset + 1, offset + n))

\* A SET_CURRENT with an off-delay is six bytes, the delay first; in all other
\* commands what follows the values is the off-delay.
Heard(frame) ==
    LET name == NameOf(PacketOf(frame.id))
        data == frame.data
    IN  CASE Len(data) = 0 -> [name |-> name, values |-> << >>, delay |-> NoDelay]
          [] Len(data) = 4 -> [name |-> name, values |-> <<NumberAt(data, 0, 4)>>, delay |-> NoDelay]
          [] Len(data) = 8 -> [name |-> name, values |-> <<NumberAt(data, 0, 4), NumberAt(data, 4, 4)>>,
                               delay |-> NoDelay]
          [] Len(data) = 6 /\ name = "SET_CURRENT" ->
                 [name |-> name, values |-> <<NumberAt(data, 2, 4)>>, delay |-> NumberAt(data, 0, 2)]
          [] OTHER -> [name |-> name, values |-> <<NumberAt(data, 0, 4)>>, delay |-> NumberAt(data, 4, 2)]

\* How a controller packs a STATUS frame.
StatusWidths ==
    [STATUS |-> <<4, 2, 2>>, STATUS_2 |-> <<4, 4>>, STATUS_3 |-> <<4, 4>>,
     STATUS_4 |-> <<2, 2, 2, 2>>, STATUS_5 |-> <<4, 2>>, STATUS_6 |-> <<2, 2, 2, 2>>]

StatusFrame(node, name, values) ==
    [id |-> ArbitrationId(PacketId[name], node),
     data |-> Concatenated([i \in DOMAIN values |-> SignedDigits(values[i], StatusWidths[name][i])])]
=============================================================================
