------------------------------ MODULE Telemetry ------------------------------
(***************************************************************************)
(* The telemetry of VescCanBus (src/pyvesc/can/bus.py): STATUS frames that *)
(* the RX thread turns into a snapshot per controller and hands to the     *)
(* subscribers, and a user thread that takes snapshots, subscribes and     *)
(* asks whether a controller is alive.                                     *)
(*                                                                         *)
(* _on_message is one action per access of shared state: the stamp is read *)
(* (line 126), the snapshot is replaced under _lock (127-133), each        *)
(* subscriber is called (135-136).  The user's is_alive takes a snapshot   *)
(* under _lock and reads the clock afterwards.                             *)
(***************************************************************************)
EXTENDS CanFrames, FiniteSets

CONSTANTS
    Node,        \* controllers on the bus
    Slot,        \* the STATUS messages they broadcast
    Subscriber,  \* callbacks
    MaxAge,      \* max_age_s of is_alive
    MaxEvents    \* bound: status frames, ticks and subscriptions in a behaviour

ASSUME TelemetryAssumption ==
    /\ Node \subseteq 0..254
    /\ Slot \subseteq DOMAIN StatusFields
    /\ "STATUS" \in Slot
    /\ MaxAge \in Nat
    /\ MaxEvents \in Nat
    /\ MaxEvents + 3 <= Highest(2)   \* what is reported fits: see Reading

VARIABLES
    clock,        \* time.monotonic()
    rx,           \* where the RX thread is: "idle", "store", "notify", "dead"
    decoded,      \* the locals of _on_message: the status, and now
    turn,         \* how many subscribers the RX thread has called
    telemetry,    \* _telemetry, NoStatus for a controller not in it
    subscribers,  \* _subscribers
    held,         \* the snapshot the user thread has last been given
    asking,       \* the user thread is between the two steps of is_alive
    alive,        \* the last answer of is_alive
    seen,         \* history: what each subscriber has been called with
    since,        \* history: how long the log was when it was registered
    log,          \* history: the statuses stored, in order
    events        \* bound

rxVars == <<rx, decoded, turn, telemetry, log>>
userVars == <<held, asking, alive>>
telemetryVars == <<clock, rxVars, subscribers, userVars, seen, since, events>>

\* A snapshot: the last values and the stamp of each status, None if not seen.
NoStatus == [status |-> [name \in Slot |-> None], stamps |-> [name \in Slot |-> None]]

Statuses == [node: Node, name: Slot, values: Seq(Int), stamp: Nat]
Snapshots == [status: [Slot -> Seq(Int) \cup {None}], stamps: [Slot -> Nat \cup {None}]]

ASSUME SnapshotsAssumption == None \notin [node: Node, of: Snapshots, upto: Nat]

TelemetryTypeOK ==
    /\ clock \in Nat
    /\ rx \in {"idle", "store", "notify", "dead"}
    /\ decoded \in Statuses \cup {None}
    /\ turn \in 0..Len(subscribers)
    /\ telemetry \in [Node -> Snapshots]
    /\ subscribers \in Seq(Subscriber)
    /\ held \in [node: Node, of: Snapshots, upto: 0..Len(log)] \cup {None}
    /\ asking \in BOOLEAN
    /\ alive \in [node: Node, answer: BOOLEAN, at: Nat, upto: 0..Len(log)] \cup {None}
    /\ seen \in [Subscriber -> Seq(Statuses)]
    /\ since \in [Subscriber -> (0..Len(log)) \cup {None}]
    /\ log \in Seq(Statuses)
    /\ events \in 0..MaxEvents

TelemetryInit ==
    /\ clock = 0
    /\ rx = "idle"
    /\ decoded = None
    /\ turn = 0
    /\ telemetry = [n \in Node |-> NoStatus]
    /\ subscribers = << >>
    /\ held = None
    /\ asking = FALSE
    /\ alive = None
    /\ seen = [s \in Subscriber |-> << >>]
    /\ since = [s \in Subscriber |-> None]
    /\ log = << >>
    /\ events = 0

Happens == events < MaxEvents /\ events' = events + 1

-----------------------------------------------------------------------------
(* The RX thread                                                            *)

\* What a controller reports: a different value each time, of either sign.
Reading(name) ==
    [i \in DOMAIN StatusWidths[name] |->
        IF (i + Len(log)) % 2 = 0 THEN Len(log) + i
        ELSE Lowest(StatusWidths[name][i]) + Len(log) + i]

OnMessage(frame) ==
    LET status == DecodeFrame(frame)
    IN  /\ rx = "idle"
        /\ IF status = None THEN UNCHANGED <<rx, decoded, events>>
           ELSE /\ Happens
                /\ rx' = "store"
                /\ decoded' = [node |-> status.node, name |-> status.name,
                               values |-> status.values, stamp |-> clock]
        /\ UNCHANGED <<clock, turn, telemetry, subscribers, userVars, seen, since, log>>

\* dict(telem.stamps), replace(telem, ...)
Updated(telem, status) ==
    [status |-> [telem.status EXCEPT ![status.name] = status.values],
     stamps |-> [telem.stamps EXCEPT ![status.name] = status.stamp]]

\* Mutant of Store: the stamps of the old snapshot are changed in place.
StoreInPlace ==
    /\ rx = "store"
    /\ rx' = "notify"
    /\ turn' = 0
    /\ telemetry' = [telemetry EXCEPT ![decoded.node] = Updated(@, decoded)]
    /\ held' = IF held # None /\ held.node = decoded.node
               THEN [held EXCEPT !.of.stamps[decoded.name] = decoded.stamp] ELSE held
    /\ log' = Append(log, decoded)
    /\ UNCHANGED <<clock, decoded, subscribers, asking, alive, seen, since, events>>

Store ==
    /\ rx = "store"
    /\ rx' = "notify"
    /\ turn' = 0
    /\ telemetry' = [telemetry EXCEPT ![decoded.node] = Updated(@, decoded)]
    /\ log' = Append(log, decoded)
    /\ UNCHANGED <<clock, decoded, subscribers, userVars, seen, since, events>>

\* The loop is over the list itself: what is appended meanwhile is in it.
Notify ==
    /\ rx = "notify"
    /\ turn < Len(subscribers)
    /\ turn' = turn + 1
    /\ seen' = [seen EXCEPT ![subscribers[turn + 1]] = Append(@, decoded)]
    /\ \/ UNCHANGED rx
       \/ rx' = "dead"   \* the callback raises: nobody catches it
    /\ UNCHANGED <<clock, decoded, telemetry, subscribers, userVars, since, log, events>>

\* Mutant of Notified: the thread goes on after the first subscriber.
NotifiedFirst ==
    /\ rx = "notify"
    /\ turn > 0 \/ subscribers = << >>
    /\ rx' = "idle"
    /\ decoded' = None
    /\ turn' = 0
    /\ UNCHANGED <<clock, telemetry, subscribers, userVars, seen, since, log, events>>

Notified ==
    /\ rx = "notify"
    /\ turn = Len(subscribers)
    /\ rx' = "idle"
    /\ decoded' = None
    /\ turn' = 0
    /\ UNCHANGED <<clock, telemetry, subscribers, userVars, seen, since, log, events>>

RxStep == Store \/ Notify \/ Notified

-----------------------------------------------------------------------------
(* The user thread                                                          *)

\* subscribe takes no lock.
Subscribe(s) ==
    /\ ~asking
    /\ \A p \in DOMAIN subscribers : subscribers[p] # s
    /\ Happens
    /\ subscribers' = Append(subscribers, s)
    /\ since' = [since EXCEPT ![s] = Len(log)]
    /\ UNCHANGED <<clock, rxVars, userVars, seen>>

\* telemetry: what was known before is forgotten.
TakeSnapshot(n) ==
    /\ ~asking
    /\ held' = [node |-> n, of |-> telemetry[n], upto |-> Len(log)]
    /\ alive' = None

GetTelemetry(n) ==
    /\ TakeSnapshot(n)
    /\ UNCHANGED <<clock, rxVars, subscribers, asking, seen, since, events>>

\* is_alive: self.telemetry ...
AskAlive(n) ==
    /\ TakeSnapshot(n)
    /\ asking' = TRUE
    /\ UNCHANGED <<clock, rxVars, subscribers, seen, since, events>>

Age(snapshot, name) ==
    IF snapshot.stamps[name] = None THEN None ELSE clock - snapshot.stamps[name]

\* Mutant of IsAlive: the age is compared before it is looked at.
IsAliveUnchecked(snapshot) ==
    IF Age(snapshot, "STATUS") = None THEN None ELSE Age(snapshot, "STATUS") <= MaxAge

\* Mutant of IsAlive: any status will do.
IsAliveIfHeard(snapshot) ==
    \E name \in Slot : Age(snapshot, name) # None /\ Age(snapshot, name) <= MaxAge

IsAlive(snapshot) == Age(snapshot, "STATUS") # None /\ Age(snapshot, "STATUS") <= MaxAge

\* ... .age('status1'), which reads the clock.
AnswerAlive ==
    /\ asking
    /\ asking' = FALSE
    /\ alive' = [node |-> held.node, answer |-> IsAlive(held.of), at |-> clock,
                 upto |-> held.upto]
    /\ UNCHANGED <<clock, rxVars, subscribers, held, seen, since, events>>

Tick ==
    /\ Happens
    /\ clock' = clock + 1
    /\ UNCHANGED <<rxVars, subscribers, userVars, seen, since>>

-----------------------------------------------------------------------------

\* What is on the bus: the controllers' status frames, one that is cut short,
\* and a packet that no CanPacketId names.
Frames ==
    {StatusFrame(n, name, Reading(name)) : n \in Node, name \in Slot}
    \cup {[StatusFrame(n, "STATUS", Reading("STATUS")) EXCEPT !.data = SubSeq(@, 1, 6)] : n \in Node}
    \cup {[id |-> ArbitrationId(40, n), data |-> << >>] : n \in Node}

-----------------------------------------------------------------------------
(* What holds after every step, from which the properties follow.           *)

\* The snapshot of node n after some statuses: the newest of each name.
HeardOf(statuses, n, name) ==
    {i \in DOMAIN statuses : statuses[i].node = n /\ statuses[i].name = name}

Newest(statuses, n, name) ==
    LET heard == HeardOf(statuses, n, name)
    IN  statuses[CHOOSE i \in heard : \A j \in heard : j <= i]

ValuesAfter(statuses, n, name) ==
    IF HeardOf(statuses, n, name) = {} THEN None ELSE Newest(statuses, n, name).values
StampAfter(statuses, n, name) ==
    IF HeardOf(statuses, n, name) = {} THEN None ELSE Newest(statuses, n, name).stamp

After(statuses, n) ==
    [status |-> [name \in Slot |-> ValuesAfter(statuses, n, name)],
     stamps |-> [name \in Slot |-> StampAfter(statuses, n, name)]]

\* What is being handed round is what was stored last, and nothing is done
\* without a status.
Handling ==
    /\ rx \in {"store", "notify"} => decoded \in Statuses
    /\ rx \in {"notify", "dead"} => log # << >>
    /\ rx = "notify" => decoded = log[Len(log)]
    /\ rx \notin {"notify", "dead"} => turn = 0
    /\ Len(log) + (IF rx = "store" THEN 1 ELSE 0) <= events

\* Each snapshot is what the log comes to.
Known == \A n \in Node : telemetry[n] = After(log, n)

\* The statuses are stored in the order of their stamps.
InTime ==
    /\ \A i \in 1..Len(log) : log[i].stamp <= clock
    /\ \A i, j \in 1..Len(log) : i <= j => log[i].stamp <= log[j].stamp
    /\ rx = "store" => /\ decoded.stamp <= clock
                       /\ \A i \in 1..Len(log) : log[i].stamp <= decoded.stamp

\* is_alive has its snapshot.
Snapshot == asking => held # None

\* The last status that the subscriber at position p has been called with.
LastFor(p) ==
    IF rx \in {"notify", "dead"} /\ p > turn THEN Len(log) - 1 ELSE Len(log)

Delivered ==
    /\ \A p, q \in DOMAIN subscribers : subscribers[p] = subscribers[q] => p = q
    /\ \A s \in Subscriber :
          \/ since[s] = None /\ seen[s] = << >> /\ \A p \in DOMAIN subscribers : subscribers[p] # s
          \/ since[s] # None /\ \E p \in DOMAIN subscribers, first \in {since[s], since[s] + 1} \ {0} :
                /\ subscribers[p] = s
                /\ first <= LastFor(p) + 1
                /\ seen[s] = SubSeq(log, first, LastFor(p))

TelemetryInv == Handling /\ Known /\ InTime /\ Snapshot /\ Delivered

-----------------------------------------------------------------------------
(* Properties.                                                              *)

\* What telemetry() returned (bus.py:37 calls it an immutable snapshot) stays
\* what the controller had reported when it was taken: every status with its own
\* stamp, none of another controller, nothing that has come since.
SnapshotStays == held # None => held.of = After(SubSeq(log, 1, held.upto), held.node)

\* A subscriber is called once for every status stored since its registration,
\* in order (subscribe: "fired on every decoded status").  It may also get the
\* one that is handed round when it registers; while one is handed round, and
\* after a callback has raised, the last may be missing.
EachStatusOnce ==
    \A s \in Subscriber : since[s] # None =>
        \E first \in {since[s], since[s] + 1} \ {0}, last \in {Len(log) - 1, Len(log)} :
            /\ seen[s] = SubSeq(log, first, last)
            /\ last = Len(log) \/ rx \in {"notify", "dead"}

\* Each field of a STATUS frame is decoded as the controller reported it, up to
\* the ends of its range and on both sides of zero.
StatusAsReported ==
    rx = "store" => \A n \in Node, name \in DOMAIN StatusFields :
        DecodeFrame(StatusFrame(n, name, Reading(name))) =
            [node |-> n, name |-> name, values |-> Reading(name)]

\* node.py:99: "True if STATUS_1 has been seen within max_age_s", and only then,
\* with the time counted to the moment of the answer.
AliveMeansRecent ==
    alive # None =>
        (alive.answer <=> \E i \in 1..alive.upto :
            /\ log[i].node = alive.node
            /\ log[i].name = "STATUS"
            /\ log[i].stamp + MaxAge >= alive.at)
=============================================================================
