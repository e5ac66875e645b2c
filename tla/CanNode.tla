------------------------------- MODULE CanNode -------------------------------
(***************************************************************************)
(* VescCanNode (src/pyvesc/can/node.py), the façade of one controller: its *)
(* commands, the CONF envelopes and their record in applied_conf, beside   *)
(* the telemetry of the bus it sits on.                                    *)
(*                                                                         *)
(* One user thread: a call ends before the next begins.  The controllers   *)
(* are external: they act on what they understand of a frame, and keep an  *)
(* envelope in RAM, or in RAM and flash.                                   *)
(***************************************************************************)
EXTENDS Telemetry

CONSTANTS
    Self,       \* the controller_id of this VescCanNode
    Commands,   \* the commands the user gives
    MaxCommanded  \* bound: events before the last command

ASSUME NodeAssumption == Self \in Node /\ MaxCommanded \in Nat

\* What the methods of VescCanNode can ask for.
ASSUME CommandsAssumption ==
    \A c \in Commands :
       /\ c.to \in Int
       /\ c.values \in Seq(Int)
       /\ c.delay \in Int \cup {NoDelay}
       /\ c.store \in BOOLEAN
       /\ \/ c.op \in Envelope /\ Len(c.values) = 2
          \/ c.op \in OneValue /\ Len(c.values) = 1 /\ ~c.store
          \/ c.op = "SHUTDOWN" /\ Len(c.values) = 0 /\ ~c.store
       /\ c.op \notin {"SET_CURRENT", "SET_CURRENT_REL"} => c.delay = NoDelay
       /\ c # None

\* What applied_conf keeps of an envelope.
Records == [values: Seq(Int), stamp: Nat]

ASSUME RecordsAssumption == None \notin Records

VARIABLES
    order,         \* history: the last command, and what became of it
    unrecorded,    \* an envelope sent by a call that has not returned
    applied_conf,  \* applied_conf, None for a key not in it
    ram,           \* the envelopes the controller goes by
    flash          \* the envelopes it will start with

confVars == <<unrecorded, applied_conf, ram, flash>>
vars == <<telemetryVars, order, confVars>>

Verdicts == {"sent", "ValueError", "CanOperationError"}

\* name and name + '_stored'
Key == Envelope \X BOOLEAN

TypeOK ==
    /\ TelemetryTypeOK
    /\ order # None => order.cmd \in Commands /\ order.verdict \in Verdicts
    /\ unrecorded # None => unrecorded \in Commands
    /\ applied_conf \in [Key -> Records \cup {None}]
    /\ ram \in [Envelope -> Seq(Int) \cup {None}]
    /\ flash \in [Envelope -> Seq(Int) \cup {None}]

Init ==
    /\ TelemetryInit
    /\ order = None
    /\ unrecorded = None
    /\ applied_conf = [k \in Key |-> None]
    /\ ram = [e \in Envelope |-> None]
    /\ flash = [e \in Envelope |-> None]

\* order is forgotten before anything else happens, so that it is looked at
\* once and not with all that may follow.
Idle == ~asking /\ unrecorded = None /\ order = None
Forget == order # None /\ order' = None /\ UNCHANGED <<telemetryVars, confVars>>

\* A frame is for one controller, or for all of them.
ActsOn(n, frame) == AddresseeOf(frame.id) \in {n, Broadcast}

\* The two ends of bus.send: the frame is on the bus, or the transmit queue is
\* full and it is not.
Sent(c) ==
    order' = [cmd |-> c, verdict |-> "sent",
              heard |-> [n \in Node |-> IF ActsOn(n, EncodeCommand(c))
                                        THEN Heard(EncodeCommand(c)) ELSE None]]
NotSent(c, verdict) ==
    order' = [cmd |-> c, verdict |-> verdict, heard |-> [n \in Node |-> None]]

\* set_current, set_rpm and the others, stop, stop_all.
Command(c) ==
    /\ Idle
    /\ c.op \notin Envelope
    /\ events < MaxCommanded   \* bound
    /\ \/ Encodable(c) /\ (Sent(c) \/ NotSent(c, "CanOperationError"))
       \/ ~Encodable(c) /\ NotSent(c, "ValueError")
    /\ UNCHANGED <<telemetryVars, confVars>>

\* Mutant of SendConf: the record comes first, whatever becomes of the frame.
RecordConfFirst(c) ==
    /\ Idle
    /\ c.op \in Envelope
    /\ c.to = Self
    /\ Happens
    /\ Encodable(c)
    /\ applied_conf' = [applied_conf EXCEPT ![<<c.op, c.store>>] = [values |-> c.values, stamp |-> clock]]
    /\ \/ Sent(c) /\ ram' = [ram EXCEPT ![c.op] = order'.heard[Self].values]
       \/ NotSent(c, "CanOperationError") /\ UNCHANGED ram
    /\ UNCHANGED <<clock, rxVars, subscribers, userVars, seen, since, unrecorded, flash>>

\* conf_*: the encoding and bus.send.
SendConf(c) ==
    /\ Idle
    /\ c.op \in Envelope
    /\ c.to = Self
    /\ Happens
    /\ \/ /\ Encodable(c)
          /\ Sent(c)
          /\ unrecorded' = c
          /\ ram' = [ram EXCEPT ![c.op] = order'.heard[Self].values]
          /\ flash' = [flash EXCEPT ![c.op] = IF order'.heard[Self].name = StoredPacket[c.op]
                                              THEN order'.heard[Self].values ELSE @]
       \/ /\ \/ Encodable(c) /\ NotSent(c, "CanOperationError")
             \/ ~Encodable(c) /\ NotSent(c, "ValueError")
          /\ UNCHANGED <<unrecorded, ram, flash>>
    /\ UNCHANGED <<clock, rxVars, subscribers, userVars, seen, since, applied_conf>>

\* _record_conf.
RecordConf ==
    /\ unrecorded # None
    /\ order = None
    /\ applied_conf' = [applied_conf EXCEPT ![<<unrecorded.op, unrecorded.store>>] =
                           [values |-> unrecorded.values, stamp |-> clock]]
    /\ unrecorded' = None
    /\ UNCHANGED <<telemetryVars, order, ram, flash>>

\* Everything else that happens on the bus.  The user thread is in one call at
\* a time.
Elsewhere ==
    /\ order = None
    /\ \/ \E frame \in Frames : OnMessage(frame)
       \/ RxStep
       \/ Tick
       \/ /\ unrecorded = None
          /\ \/ \E s \in Subscriber : Subscribe(s)
             \/ \E n \in Node : GetTelemetry(n) \/ AskAlive(n)
             \/ AnswerAlive
    /\ UNCHANGED <<order, confVars>>

Next ==
    \/ \E c \in Commands : Command(c) \/ SendConf(c)
    \/ RecordConf
    \/ Forget
    \/ Elsewhere

Spec == Init /\ [][Next]_vars

-----------------------------------------------------------------------------
(* Properties.                                                              *)

\* What was asked for (half steps) and what was understood (steps).
Nearest(h, k) == Magnitude(2 * k - h) <= 1

Means(c, heard) ==
    /\ heard.name \in {c.op} \cup (IF c.store THEN {StoredPacket[c.op]} ELSE {})
    /\ Len(heard.values) = Len(c.values)
    /\ \A i \in DOMAIN c.values : Nearest(c.values[i], heard.values[i])
    /\ heard.delay = NoDelay <=> c.delay = NoDelay
    /\ c.delay # NoDelay => Nearest(c.delay, heard.delay)

\* In the range that the docstrings give, to the step.
Allowed(c) ==
    /\ c.to \in 0..Broadcast
    /\ \A i \in DOMAIN c.values :
          /\ c.values[i] \in 2 * Lowest(4)..2 * Highest(4)
          /\ c.op \in Relative => c.values[i] \in -2 * One..2 * One
    /\ c.delay # NoDelay => c.delay \in 0..2 * Highest(2)

\* A command is acted on as it was meant, by the controllers it is meant for
\* and no other: the nearest value, of the same sign, with its own off-delay
\* (frames.py:15-22 tells of the two places it may have).  Or it is refused,
\* and nobody hears of it: never because of a value that is allowed.
CommandUnderstood ==
    order # None =>
        /\ order.verdict = "sent" => \A n \in Node :
              IF order.cmd.to \in {n, Broadcast} THEN Means(order.cmd, order.heard[n])
              ELSE order.heard[n] = None
        /\ order.verdict = "ValueError" => ~Allowed(order.cmd)

\* The record holds an envelope, and nothing recorded later under the other key.
Latest(e, store) ==
    /\ applied_conf[<<e, store>>] # None
    /\ \/ applied_conf[<<e, ~store>>] = None
       \/ applied_conf[<<e, ~store>>].stamp <= applied_conf[<<e, store>>].stamp

Agrees(entry, values) ==
    IF entry = None THEN values = None
    ELSE values # None /\ \A i \in DOMAIN entry.values : Nearest(entry.values[i], values[i])

\* node.py:5-7: applied_conf records "the envelope the hardware was actually
\* given".  After each call, whatever failed before, the controller goes by the
\* envelope recorded last, and keeps in flash the one recorded as stored.
FlashIsGiven(e) == Agrees(applied_conf[<<e, TRUE>>], flash[e])
RamIsGiven(e) ==
    \/ \E store \in BOOLEAN : Latest(e, store) /\ Agrees(applied_conf[<<e, store>>], ram[e])
    \/ ram[e] = None /\ \A store \in BOOLEAN : applied_conf[<<e, store>>] = None

RecordIsGiven == unrecorded = None => \A e \in Envelope : FlashIsGiven(e) /\ RamIsGiven(e)

\* What makes it so after every step.  An envelope that is on its way into the
\* record is already gone by.
OnItsWay(e) == unrecorded # None /\ unrecorded.op = e

ConfInv ==
    /\ \A k \in Key : applied_conf[k] # None => applied_conf[k].stamp <= clock
    /\ unrecorded # None => unrecorded.op \in Envelope
    /\ \A e \in Envelope :
          /\ IF OnItsWay(e) THEN Agrees(unrecorded, ram[e]) ELSE RamIsGiven(e)
          /\ IF OnItsWay(e) /\ unrecorded.store THEN Agrees(unrecorded, flash[e]) ELSE FlashIsGiven(e)

CanNodeInv == TelemetryInv /\ ConfInv
=============================================================================
