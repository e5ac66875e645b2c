------------------------------- MODULE Messages -------------------------------
(***************************************************************************)
(* COMM messages (src/pyvesc/protocol/base.py, interface.py, messages/):   *)
(* the classes with their fields, pack, unpack, and decode's joining of    *)
(* the messages of one burst.                                              *)
(*                                                                         *)
(* A payload is a sequence of bytes.  Command ids and CAN ids take one     *)
(* byte each and are kept whole; the bytes of fields are below Base.       *)
(* A field that unpack divides by its scalar is given in steps, as it was  *)
(* on the wire; a value to be packed is given in half steps, and text, all *)
(* of it ASCII, and bytes as sequences of bytes.                           *)
(***************************************************************************)
EXTENDS ScaledIntegers, SequencesExt

CONSTANTS
    None,       \* Python's None
    ChunkBytes  \* length of the data of a firmware chunk, 384 in the code

\* None is not the name of a field, and not an exception.
ASSUME MessagesAssumption ==
    /\ ChunkBytes \in Nat
    /\ None \notin {"mcconf", "appconf", "cmd", "terminal_cmd_result", "msg"}
    /\ None \notin {"KeyError", "struct.error", "UnboundLocalError", "ValueError", "AttributeError"}

Field(name, format) == [name |-> name, format |-> format, scaled |-> TRUE]
\* A field without a scalar: struct takes nothing but whole numbers for it.
Whole(name, format) == [name |-> name, format |-> format, scaled |-> FALSE]

\* The registry: the id of each class, the fields it sends and those it
\* receives, as far as the class defines them.
Setters ==
    [SetDutyCycle |-> [id |-> 5, send |-> <<Field("duty_cycle", "i")>>],
     SetCurrent |-> [id |-> 6, send |-> <<Field("current", "i")>>],
     SetCurrentBrake |-> [id |-> 7, send |-> <<Field("current_brake", "i")>>],
     SetRPM |-> [id |-> 8, send |-> <<Whole("rpm", "i")>>],
     SetPosition |-> [id |-> 9, send |-> <<Field("pos", "i")>>],
     SetHandbrake |-> [id |-> 10, send |-> <<Field("current", "i")>>],
     SetRotorPositionMode |-> [id |-> 11, send |-> <<Whole("pos_mode", "b")>>],
     SetServoPosition |-> [id |-> 12, send |-> <<Field("servo_pos", "h")>>],
     SetMotorConfig |-> [id |-> 13, send |-> <<Field("mcconf", "s")>>],
     SetAppConfig |-> [id |-> 16, send |-> <<Field("appconf", "s")>>],
     TerminalCmd |-> [id |-> 20, send |-> <<Field("cmd", "s")>>,
                      recv |-> <<Field("terminal_cmd_result", "s")>>],
     TerminalPrint |-> [id |-> 21, recv |-> <<Field("msg", "s")>>],
     Reboot |-> [id |-> 29, send |-> << >>],
     Alive |-> [id |-> 30, send |-> << >>],
     JumpToBootloader |-> [id |-> 1, send |-> << >>, recv |-> << >>],
     EraseNewApp |-> [id |-> 2, send |-> <<Whole("data", "I")>>,
                      recv |-> <<Field("erase_new_app_result", "b")>>],
     WriteNewAppData |-> [id |-> 3, send |-> <<Whole("offset", "I"), Whole("data", "chunk")>>,
                          recv |-> <<Field("write_new_app_result", "?"), Field("new_app_offset", "I")>>],
     WriteNewAppDataLZO |-> [id |-> 81, send |-> <<Whole("offset", "I"), Whole("data", "chunk")>>,
                             recv |-> <<Field("write_new_app_result", "?"), Field("new_app_offset", "I")>>]]

Getters ==
    [GetMotorConfig |-> [id |-> 14, recv |-> <<Field("mcconf", "s")>>],
     GetAppConfig |-> [id |-> 17, recv |-> <<Field("appconf", "s")>>],
     GetRotorPosition |-> [id |-> 22, recv |-> <<Field("rotor_pos", "i")>>],
     GetVersion |-> [id |-> 0, recv |-> <<Field("fw_version_major", "b"),
                                          Field("fw_version_minor", "b")>>],
     GetValues |-> [id |-> 4, recv |->
        <<Field("temp_fet", "h"), Field("temp_motor", "h"), Field("avg_motor_current", "i"),
          Field("avg_input_current", "i"), Field("avg_id", "i"), Field("avg_iq", "i"),
          Field("duty_cycle_now", "h"), Field("rpm", "i"), Field("v_in", "h"),
          Field("amp_hours", "i"), Field("amp_hours_charged", "i"), Field("watt_hours", "i"),
          Field("watt_hours_charged", "i"), Field("tachometer", "i"), Field("tachometer_abs", "i"),
          Field("mc_fault_code", "c"), Field("pid_pos_now", "i"), Field("app_controller_id", "c"),
          Field("temp_mos1", "h"), Field("temp_mos2", "h"), Field("temp_mos3", "h"),
          Field("avg_vd", "i"), Field("avg_vq", "i")>>]]

Class ==
    [c \in DOMAIN Setters \cup DOMAIN Getters |->
        IF c \in DOMAIN Setters THEN Setters[c] ELSE Getters[c]]

\* msg_type: the class with this id.
HasType(id) == \E c \in DOMAIN Class : Class[c].id = id
TypeOf(id) == CHOOSE c \in DOMAIN Class : Class[c].id = id

ForwardCan == 34   \* _comm_forward_can

Width(format) ==
    CASE format \in {"i", "I"} -> 4
      [] format = "h" -> 2
      [] format \in {"b", "c", "?"} -> 1
      [] format = "chunk" -> ChunkBytes
      [] OTHER -> 0   \* a string has no width of its own

IsString(format) == format = "s"
StringField(fields) == {i \in DOMAIN fields : IsString(fields[i].format)}

-----------------------------------------------------------------------------
(* pack                                                                     *)

Number(format) == format \in {"i", "I", "h", "b"}

\* int(value * scalar), or the value itself where there is no scalar.
Packable(field, value) ==
    Number(field.format) =>
        /\ field.scaled \/ value % 2 = 0
        /\ IF field.format = "I" THEN FitsUnsigned(TruncatedHalfSteps(value), 4)
           ELSE Fits(TruncatedHalfSteps(value), Width(field.format))

\* Mutant of PackedField: rounded down.
PackedFieldDown(format, value) ==
    CASE format = "I" -> Digits(TruncatedHalfSteps(value), 4)
      [] format \in {"i", "h", "b"} -> SignedDigits(value \div 2, Width(format))
      [] format = "chunk" -> [i \in 1..ChunkBytes |-> IF i <= Len(value) THEN value[i] ELSE 0]
      [] OTHER -> value

\* struct fills up a chunk that is too short and cuts one that is too long.
PackedField(format, value) ==
    CASE format = "I" -> Digits(TruncatedHalfSteps(value), 4)
      [] format \in {"i", "h", "b"} -> SignedDigits(TruncatedHalfSteps(value), Width(format))
      [] format = "chunk" -> [i \in 1..ChunkBytes |-> IF i <= Len(value) THEN value[i] ELSE 0]
      [] OTHER -> value

Header(c, can_id) ==
    IF can_id = None THEN <<Class[c].id>> ELSE <<ForwardCan, can_id, Class[c].id>>

SendFields(c) == IF "send" \in DOMAIN Class[c] THEN Class[c].send ELSE << >>

\* What pack raises; a message with a string field and a CAN id has no format
\* string to work with ("fmt" is used before it is assigned).
PackError(c, values, can_id) ==
    IF can_id # None /\ StringField(SendFields(c)) # {} THEN "UnboundLocalError"
    ELSE IF \E i \in DOMAIN values : ~Packable(SendFields(c)[i], values[i]) THEN "struct.error"
    ELSE None

Pack(c, values, can_id) ==
    Header(c, can_id)
    \o FlattenSeq([i \in DOMAIN values |-> PackedField(SendFields(c)[i].format, values[i])])

-----------------------------------------------------------------------------
(* unpack                                                                   *)

\* The fields received, or those sent where the class receives none.
UnpackFields(c) == IF "recv" \in DOMAIN Class[c] THEN Class[c].recv ELSE Class[c].send

FixedSize(fields) ==
    LET size[n \in 0..Len(fields)] ==
            IF n = 0 THEN 0 ELSE size[n - 1] + Width(fields[n].format)
    IN  size[Len(fields)]

UnpackError(payload) ==
    IF ~HasType(payload[1]) THEN "KeyError"
    ELSE IF Len(payload) - 1 < FixedSize(UnpackFields(TypeOf(payload[1]))) THEN "struct.error"
    ELSE None

UnpackedField(format, bytes) ==
    CASE format \in {"i", "h", "b"} -> Signed(bytes)
      [] format = "I" -> Unsigned(bytes)
      [] format = "?" -> Unsigned(bytes) # 0
      [] OTHER -> bytes

\* A string takes what the other fields leave; without one, what is left over
\* is ignored.
UnpackedFields(fields, payload) ==
    LET size(i) == IF IsString(fields[i].format) THEN Len(payload) - 1 - FixedSize(fields)
                   ELSE Width(fields[i].format)
        end[n \in 0..Len(fields)] == IF n = 0 THEN 1 ELSE end[n - 1] + size(n)
    IN  [i \in DOMAIN fields |->
            UnpackedField(fields[i].format, SubSeq(payload, end[i - 1] + 1, end[i]))]

Unpack(payload) ==
    LET c == TypeOf(payload[1])
    IN  [class |-> c, fields |-> UnpackedFields(UnpackFields(c), payload)]

-----------------------------------------------------------------------------
(* decode: the payloads of one burst                                        *)

\* The first message says whether there is a string to be put together, and
\* what it is called.
JoinField(message) ==
    LET class == Class[message.class]
        fields == IF "recv" \in DOMAIN class THEN class.recv ELSE << >>
        strings == StringField(fields)
    IN  IF strings = {} THEN None ELSE fields[CHOOSE i \in strings : TRUE].name

Named(message, name) == {i \in DOMAIN UnpackFields(message.class) :
                            UnpackFields(message.class)[i].name = name}

\* Terminal output is text, with a line end behind each piece; configurations
\* are bytes.
LineEnd == <<10>>
Piece(message, name) ==
    LET field == message.fields[CHOOSE i \in Named(message, name) : TRUE]
    IN  IF name \in {"mcconf", "appconf"} THEN field ELSE field \o LineEnd

Raised(error) == [is |-> "raised", what |-> error]

Decode(payloads) ==
    LET bad == SelectInSeq(payloads, LAMBDA p : UnpackError(p) # None)
        messages == [i \in DOMAIN payloads |-> Unpack(payloads[i])]
        name == JoinField(messages[1])
    IN  CASE payloads = << >> -> [is |-> "None"]
          [] payloads # << >> /\ bad # 0 -> Raised(UnpackError(payloads[bad]))
          [] OTHER ->
             CASE name = None /\ Len(payloads) = 1 -> [is |-> "message", what |-> messages[1]]
               [] name = None /\ Len(payloads) > 1 -> Raised("ValueError")
               [] name # None /\ (\E i \in DOMAIN messages : Named(messages[i], name) = {}) ->
                      Raised("AttributeError")
               [] OTHER ->
                  [is |-> IF name \in {"mcconf", "appconf"} THEN "bytes" ELSE "text",
                   what |-> FlattenSeq([i \in DOMAIN messages |-> Piece(messages[i], name)])]
=============================================================================
