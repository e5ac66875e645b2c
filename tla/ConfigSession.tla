---------------------------- MODULE ConfigSession ----------------------------
(***************************************************************************)
(* A host that reads, edits and writes back the configurations of a        *)
(* controller, and commands it (src/pyvesc/VESC.py over protocol/base.py   *)
(* and interface.py; examples/motor_example.py).                           *)
(*                                                                         *)
(* One user thread, one VESC object with its can_id.  Frames are whole:    *)
(* what happens to their bytes is the subject of PacketCodec, CommClient   *)
(* and TunnelFrames.  wire has the replies that have not been read, those  *)
(* in the serial port's buffer first; how many of them are there is known  *)
(* to nobody, so that it is chosen where it matters.                       *)
(*                                                                         *)
(* The controller is external.  It answers one request after the other,    *)
(* stores a configuration if the signature is right, and says so; else it  *)
(* prints a warning.                                                       *)
(***************************************************************************)
EXTENDS ConfigGenerator, Messages

CONSTANTS
    Factory,    \* the configurations the controller has to begin with
    CanIds,     \* the can_id a VESC object may have, None among them
    Edits,      \* what the user may change: [kind, i, value]
    Orders,     \* the commands the user gives: [class, values]
    Reports,    \* what the controller may report: [class, values, tail]
    Text,       \* terminal output, a sequence of bytes
    MaxCalls,   \* bound: requests of a session
    MaxEdits    \* bound: parameters that are edited at a time

\* A configuration may have the signature of another firmware, but not that of
\* the other kind.
ASSUME SessionAssumption ==
    /\ Factory = [kind \in Kind |-> Factory[kind]]
    /\ \A kind \in Kind : Factory[kind] \in Seq(Byte) /\ Len(Factory[kind]) = Size(kind)
    /\ \A kind, other \in Kind : SubSeq(Factory[kind], 1, 4) = Signature[other] => kind = other
    /\ Text \in Seq(Byte)
    /\ MaxCalls \in Nat /\ MaxEdits \in Nat

\* The user gives a parameter a value of its type, in range or not; of a float,
\* one that has an exponent.
ASSUME EditsAssumption ==
    \A e \in Edits :
       /\ e.kind \in Kind /\ e.i \in DOMAIN Layout[e.kind]
       /\ LET type == Layout[e.kind][e.i]
          IN  CASE type = "Bool" -> e.value \in BOOLEAN
                [] type \in Integer \cup Rounded -> e.value \in Int
                [] type = "Double32_Auto" -> e.value \in Floats

\* A command has a value for each field, in range or not.  A firmware chunk is at
\* most ChunkBytes long: get_next_chunk returns the last one as it is, before the
\* lines that would pad it.
ASSUME OrdersAssumption ==
    \A o \in Orders :
       LET fields == SendFields(o.class)
       IN  /\ o.class \in DOMAIN Class
           /\ o.values = [i \in 1..Len(fields) |-> o.values[i]]
           /\ \A i \in 1..Len(fields) :
                 IF Number(fields[i].format) THEN o.values[i] \in Int
                 ELSE /\ o.values[i] \in Seq(Byte)
                      /\ fields[i].format = "chunk" => Len(o.values[i]) \in 1..ChunkBytes

\* The controller reports numbers that fit; strings are what calls are for.
ASSUME ReportsAssumption ==
    \A r \in Reports :
       LET fields == UnpackFields(r.class)
       IN  /\ r.class \in DOMAIN Class /\ DOMAIN Class[r.class] # {"id"}
           /\ r.values = [i \in 1..Len(fields) |-> r.values[i]]
           /\ \A i \in 1..Len(fields) :
                 LET n == Width(fields[i].format)
                 IN  CASE fields[i].format \in {"i", "h", "b"} ->
                              r.values[i] \in Lowest(n)..Highest(n)
                       [] fields[i].format = "I" -> r.values[i] \in 0..Numbers(4) - 1
                       [] fields[i].format = "?" -> r.values[i] \in BOOLEAN
                       [] fields[i].format \in {"c", "chunk"} ->
                              r.values[i] \in Seq(Byte) /\ Len(r.values[i]) = n
           /\ StringField(fields) = {}
           /\ r.tail \in Seq(Byte)

VARIABLES
    can_id,   \* can_id of the VESC object
    conf,     \* the configurations the controller goes by
    inbox,    \* requests on their way to it
    wire,     \* its replies that were not read
    call,     \* the request being made, None between calls
    rx,       \* replies that the call has read
    late,     \* when the call began, an earlier one was not settled
    calls,    \* requests made
    result,   \* what the last call returned
    loaded,   \* the user's parameters, with history: what they came from, and edits
    was,      \* history: the configurations the controller has had
    order     \* history: the last command or report, what became of it

linkVars == <<inbox, wire>>
callVars == <<call, rx, late, calls, result>>
userVars == <<loaded>>
confVars == <<conf, was>>
vars == <<can_id, linkVars, callVars, userVars, confVars, order>>

Reads == [GetMotorConfig |-> "mcconf", GetAppConfig |-> "appconf"]
Writes == [SetMotorConfig |-> "mcconf", SetAppConfig |-> "appconf"]
Requests == DOMAIN Reads \cup DOMAIN Writes \cup {"TerminalCmd", "GetVersion"}

\* None is not a request.
ASSUME RequestsAssumption == None \notin Requests

\* What a parameter that was read can be.
ValueOf(type) ==
    CASE type = "Bool" -> BOOLEAN
      [] type \in Unsigneds -> 0..Numbers(BytesOf(type)) - 1
      [] type \in Integer \ Unsigneds -> Lowest(BytesOf(type))..Highest(BytesOf(type))
      [] type \in Rounded -> {2 * k : k \in Lowest(BytesOf(type))..Highest(BytesOf(type))}
      [] type = "Double32_Auto" -> Floats

TypeOK ==
    /\ can_id \in CanIds
    /\ call \in Requests \cup {None}
    /\ calls \in 0..MaxCalls
    /\ late \in BOOLEAN
    /\ \A kind \in Kind :
          /\ Len(conf[kind]) = Size(kind) /\ \A i \in DOMAIN conf[kind] : conf[kind][i] \in Byte
          /\ loaded[kind] # None => \A i \in DOMAIN Layout[kind] \ DOMAIN loaded[kind].edits :
                loaded[kind].params[i] \in ValueOf(Layout[kind][i])

Init ==
    /\ can_id \in CanIds
    /\ conf = Factory
    /\ inbox = << >> /\ wire = << >>
    /\ call = None /\ rx = << >> /\ late = FALSE /\ calls = 0
    /\ result = [is |-> "None"]
    /\ loaded = [kind \in Kind |-> None]
    /\ was = [kind \in Kind |-> {Factory[kind]}]
    /\ order = None

Idle == call = None /\ order = None

-----------------------------------------------------------------------------
(* The host: write, the drain before it and the read behind it.             *)

\* The n first of a queue are gone.
Behind(queue, n) == SubSeq(queue, n + 1, Len(queue))

\* Mutant of Drained: nothing is dropped.
Undrained(n) == wire

\* "drop stale responses that piled up": those that have arrived.
Drained(n) == Behind(wire, n)

\* write of a packed request, of which the rest of the record is history.  A
\* write that fails is logged, and its answer awaited.
Exchange(op, request) ==
    /\ calls < MaxCalls   \* bound
    /\ \E n \in 0..Len(wire) :
          /\ wire' = Drained(n)
          /\ late' = (inbox # << >> \/ n < Len(wire))
    /\ inbox' \in {Append(inbox, request), inbox}
    /\ call' = op /\ rx' = << >> /\ calls' = calls + 1
    /\ UNCHANGED <<can_id, result, userVars, confVars, order>>

\* Packing raises: nothing is sent.
Refused(error) ==
    /\ result' = Raised(error)
    /\ UNCHANGED <<can_id, linkVars, call, rx, late, calls, userVars, confVars, order>>

\* get_*_configuration, get_firmware_version: the header alone is a request.
Get(op) ==
    /\ Idle /\ op \in DOMAIN Reads \cup {"GetVersion"}
    /\ Exchange(op, [payload |-> Pack(op, << >>, can_id)])

\* send_terminal_cmd.
Terminal ==
    /\ Idle
    /\ LET error == PackError("TerminalCmd", <<Text>>, can_id)
       IN  IF error # None THEN Refused(error)
           ELSE Exchange("TerminalCmd", [payload |-> Pack("TerminalCmd", <<Text>>, can_id)])

\* confgenerator_serialise_* and set_*_configuration.
Set(op) ==
    /\ Idle /\ op \in DOMAIN Writes
    /\ loaded[Writes[op]] # None
    /\ LET kind == Writes[op]
           l == loaded[kind]
           values == <<Serialise(kind, l.params)>>
           error == IF AllSerialisable(kind, l.params) THEN PackError(op, values, can_id) ELSE "ValueError"
       IN  IF error # None THEN Refused(error)
           ELSE Exchange(op, [payload |-> Pack(op, values, can_id), basis |-> l.basis, edits |-> l.edits])

\* One pass of the read loop.
Collect ==
    /\ call # None /\ wire # << >>
    /\ rx' = Append(rx, Head(wire))
    /\ wire' = Tail(wire)
    /\ UNCHANGED <<can_id, inbox, call, late, calls, result, userVars, confVars, order>>

\* A string read decodes all it has; another the newest frame that it awaits.
Answer(op) ==
    LET matching == SelectSeq(rx, LAMBDA p : p[1] = Class[op].id)
    IN  CASE op # "GetVersion" -> Decode(rx)
          [] op = "GetVersion" /\ matching = << >> -> [is |-> "None"]
          [] OTHER -> [is |-> "message", what |-> Unpack(matching[Len(matching)])]

\* The line is quiet, or max_wait is over, whenever that is: at worst in the
\* middle of a frame, and the rest of it goes the way of all that cannot be
\* parsed (n frames).
EndRead ==
    /\ call # None
    /\ \E n \in 0..Len(wire) : wire' = Behind(wire, n)
    /\ result' = Answer(call)
    /\ call' = None /\ rx' = << >>
    /\ UNCHANGED <<can_id, inbox, late, calls, userVars, confVars, order>>

-----------------------------------------------------------------------------
(* The user                                                                 *)

\* confgenerator_deserialise_* of what was read.  It gives no parameters for a
\* wrong signature, and raises for anything but bytes and for too few of them.
Load(kind) ==
    /\ Idle /\ result.is = "bytes"
    /\ loaded' = [loaded EXCEPT ![kind] =
           IF ~Deserialises(kind, result.what) THEN None
           ELSE [params |-> Deserialise(kind, result.what),
                 basis |-> SubSeq(result.what, 1, Size(kind)), edits |-> << >>]]
    /\ result' = [is |-> "None"]
    /\ UNCHANGED <<can_id, linkVars, call, rx, late, calls, confVars, order>>

\* param.value = ...
Edit(e) ==
    /\ Idle /\ e.kind \in Kind
    /\ loaded[e.kind] # None
    /\ LET edited(kind) == IF loaded[kind] = None THEN {} ELSE DOMAIN loaded[kind].edits
       IN  Cardinality(UNION {edited(kind) \X {kind} : kind \in Kind}) < MaxEdits   \* bound
    /\ loaded' = [loaded EXCEPT ![e.kind].params[e.i] = e.value,
                                ![e.kind].edits = [i \in DOMAIN @ \cup {e.i} |->
                                                      IF i = e.i THEN e.value ELSE @[i]]]
    /\ UNCHANGED <<can_id, linkVars, callVars, confVars, order>>

-----------------------------------------------------------------------------
(* The controller                                                           *)

Ack(op) == <<Class[op].id>>
TextOut == <<Class["TerminalPrint"].id>> \o Text

\* Of a payload with the forwarding header, the message.
Forwarded(payload) == payload[1] = ForwardCan
Message(payload) == IF Forwarded(payload) THEN Behind(payload, 2) ELSE payload

Stores(request) ==
    LET payload == Message(request.payload)
    IN  /\ TypeOf(payload[1]) \in DOMAIN Writes
        /\ SubSeq(payload, 2, 5) = Signature[Writes[TypeOf(payload[1])]]

\* What it sends in answer, or as much of it as gets through.
Replies(request) ==
    LET op == TypeOf(Message(request.payload)[1])
        whole == CASE op \in DOMAIN Reads -> <<Ack(op) \o conf[Reads[op]]>>
                   [] op \in DOMAIN Writes -> <<IF Stores(request) THEN Ack(op) ELSE TextOut>>
                   [] op = "TerminalCmd" -> <<TextOut, TextOut>>
                   [] op = "GetVersion" -> <<Ack(op) \o <<0, 1, 2>>>>
    IN  {whole, Behind(whole, 1)}

Handle ==
    /\ inbox # << >>
    /\ inbox' = Tail(inbox)
    /\ \E replies \in Replies(Head(inbox)) : wire' = wire \o replies
    /\ LET request == Head(inbox)
           kind == Writes[TypeOf(Message(request.payload)[1])]
       IN  IF Stores(request)
           THEN /\ conf' = [conf EXCEPT ![kind] = Behind(Message(request.payload), 1)]
                /\ was' = [was EXCEPT ![kind] = @ \cup {conf'[kind]}]
           ELSE UNCHANGED confVars
    /\ UNCHANGED <<can_id, callVars, userVars, order>>

-----------------------------------------------------------------------------
(* Commands and reports: one message, looked at once and forgotten.         *)

Heard(payload) ==
    LET message == Message(payload)
        c == TypeOf(message[1])
    IN  [to |-> IF Forwarded(payload) THEN payload[2] ELSE None,
         class |-> c, values |-> UnpackedFields(SendFields(c), message)]

\* set_rpm, set_current, set_duty_cycle, set_servo, the firmware commands and
\* the rest of encode(...).
Command(o) ==
    /\ Idle /\ calls = 0
    /\ LET error == PackError(o.class, o.values, can_id)
       IN  order' = [order |-> o, raised |-> error,
                     heard |-> IF error # None THEN None ELSE Heard(Pack(o.class, o.values, can_id))]
    /\ UNCHANGED <<can_id, linkVars, callVars, userVars, confVars>>

\* The controller's side of a report (external), and unpack.
Report(r) ==
    /\ Idle /\ calls = 0
    /\ LET fields == UnpackFields(r.class)
           bytes(i) == CASE fields[i].format \in {"i", "h", "b"} ->
                              SignedDigits(r.values[i], Width(fields[i].format))
                         [] fields[i].format = "I" -> Digits(r.values[i], 4)
                         [] fields[i].format = "?" -> <<IF r.values[i] THEN 1 ELSE 0>>
                         [] OTHER -> r.values[i]
           payload == <<Class[r.class].id>> \o FlattenSeq([i \in DOMAIN fields |-> bytes(i)]) \o r.tail
       IN  order' = [report |-> r, raised |-> UnpackError(payload), understood |-> Unpack(payload)]
    /\ UNCHANGED <<can_id, linkVars, callVars, userVars, confVars>>

Forget ==
    /\ order # None
    /\ order' = None
    /\ UNCHANGED <<can_id, linkVars, callVars, userVars, confVars>>

Next ==
    \/ \E op \in Requests : Get(op) \/ Set(op)
    \/ Terminal \/ Collect \/ EndRead
    \/ \E kind \in Kind : Load(kind)
    \/ \E e \in Edits : Edit(e)
    \/ Handle
    \/ \E o \in Orders : Command(o)
    \/ \E r \in Reports : Report(r)
    \/ Forget

Spec == Init /\ [][Next]_vars

-----------------------------------------------------------------------------
(* Properties.                                                              *)

\* A configuration that the user has loaded is one that the controller had: of
\* that kind, and not put together of two, or of the reply to something else.
\* If no earlier call was left unsettled, it is the one the controller has.
ReadIsReal ==
    [][\A kind \in Kind :
         (loaded'[kind] # loaded[kind] /\ loaded'[kind] # None /\ loaded'[kind].edits = << >>) =>
            /\ loaded'[kind].basis \in was[kind]
            /\ ~late => loaded'[kind].basis = conf[kind]]_vars

\* Bytes that mean the same to the controller, except that a byte that is
\* not 0 comes back as 1 where the generated code has a Bool, and that numbers
\* below 1.5e-38, and -0, come back as 0.
SameMeaning(type, old, new) ==
    \/ new = old
    \/ type = "Bool" /\ old # <<0>> /\ new = <<1>>
    \/ type = "Double32_Auto" /\ Tiny(FloatOf(Unsigned(old))) /\ new = <<0, 0, 0, 0>>

\* Bytes that say what the user asked for, to the step.
Says(type, v, bytes) ==
    CASE type = "Bool" -> bytes = <<IF v THEN 1 ELSE 0>>
      [] type \in Unsigneds -> Unsigned(bytes) = v
      [] type \in Integer \ Unsigneds -> Signed(bytes) = v
      [] type \in Rounded -> Magnitude(2 * Signed(bytes) - v) <= 1
      [] type = "Double32_Auto" ->
           LET f == FloatOf(Unsigned(bytes))
           IN  \/ Tiny(v) /\ bytes = <<0, 0, 0, 0>>
               \/ f.neg = v.neg /\ f.exp = v.exp /\ v.frac - f.frac \in {0, 1}

\* What the controller stores differs from what was read in the parameters
\* that the user has edited, and in no other, wherever in the 481 or 493 bytes
\* they are.
WriteBackKeeps ==
    [][\A kind \in Kind : conf'[kind] # conf[kind] =>
         LET request == Head(inbox)
         IN  /\ Len(conf'[kind]) = Size(kind)
             /\ \A i \in DOMAIN Layout[kind] :
                   IF i \in DOMAIN request.edits
                   THEN Says(Layout[kind][i], request.edits[i], FieldBytes(kind, i, conf'[kind]))
                   ELSE SameMeaning(Layout[kind][i], FieldBytes(kind, i, request.basis),
                                                     FieldBytes(kind, i, conf'[kind]))]_vars

\* The nearest step on the near side: never more than was asked for, and never
\* the other way.  A firmware chunk comes with zeros behind it.
Heeds(format, v, k) ==
    CASE Number(format) -> Magnitude(2 * k - v) <= 1 /\ 2 * Magnitude(k) <= Magnitude(v)
      [] format = "chunk" -> /\ Len(k) = ChunkBytes
                             /\ \A i \in 1..ChunkBytes :
                                   k[i] = IF i <= Len(v) THEN v[i] ELSE 0
      [] OTHER -> k = v

InRange(field, v) ==
    /\ Number(field.format) /\ ~field.scaled => v % 2 = 0
    /\ field.format = "I" => v \in 0..2 * (Numbers(4) - 1)
    /\ field.format \in {"i", "h", "b"} =>
          v \in 2 * Lowest(Width(field.format))..2 * Highest(Width(field.format))

OutOfRange(o) == \E i \in DOMAIN o.values : ~InRange(SendFields(o.class)[i], o.values[i])

\* Text or a configuration, and a controller behind a bridge.
StringOverCan(o) == can_id # None /\ StringField(SendFields(o.class)) # {}

\* A command that is packed is heard by the controller it is for, with each field
\* in its place and its value.  A command without text is packed unless a value is
\* out of the range of its field, or a fraction of a field that has no scalar.  A
\* report is read with each field in its place, whatever newer firmware sends
\* behind it.  (Of whether text and configurations are packed for a controller
\* behind a bridge it says nothing: EveryCommandIsForwarded does.)
MessageUnderstood ==
    order # None =>
        IF "order" \in DOMAIN order
        THEN LET o == order.order
                 fields == SendFields(o.class)
             IN  /\ order.raised = None =>
                       /\ order.heard.to = can_id
                       /\ order.heard.class = o.class
                       /\ Len(order.heard.values) = Len(o.values)
                       /\ \A i \in DOMAIN o.values :
                             Heeds(fields[i].format, o.values[i], order.heard.values[i])
                 /\ order.raised # None /\ ~StringOverCan(o) => OutOfRange(o)
        ELSE /\ order.raised = None
             /\ order.understood = [class |-> order.report.class, fields |-> order.report.values]

\* The docstring of VESC (VESC.py:39): can_id is the "Default CAN target for every
\* command and getter".  So no command in its range is refused for having one.
EveryCommandIsForwarded ==
    order # None /\ "order" \in DOMAIN order =>
        (order.raised # None => OutOfRange(order.order))
=============================================================================
