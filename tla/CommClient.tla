------------------------------ MODULE CommClient ------------------------------
(***************************************************************************)
(* Requests that expect an answer over a serial line or a TCP bridge:      *)
(* VESC.write and VESC.read (src/pyvesc/VESC.py) for fixed-size responses. *)
(*                                                                         *)
(* A request drains the input, writes, and polls the input until a frame   *)
(* of the expected command id is there, the line has gone quiet or the     *)
(* deadline has passed.  The drain and the poll each take read_lock, which *)
(* is one lock for the whole module; nothing is held between them.         *)
(*                                                                         *)
(* Requests are numbered in the order of the calls.  A response is known   *)
(* by the request it answers and travels as two runs of bytes, its front   *)
(* and its rear, so that the input can be looked at between the two.       *)
(*                                                                         *)
(* Time is counted in polls: a tick is the time.sleep(0.01) of the loop,   *)
(* and it passes only when no thread has anything else to do.              *)
(*                                                                         *)
(* The device and the link are external: the device works through its      *)
(* requests in order and may not answer one; bytes arrive in order after   *)
(* any delay; the peer may close the connection.                           *)
(***************************************************************************)
EXTENDS Integers, Sequences

CONSTANTS
    Thread,       \* threads that call the getters
    Kind,         \* command ids
    MaxRequests,  \* bound: calls in a behaviour
    MaxWait,      \* max_wait, in ticks
    QuietTime,    \* timeout (the quiet time), in ticks
    NoThread,     \* "read_lock is free"
    None,         \* Python's None
    Open,         \* the result of a call that has not returned
    Raised        \* the result of a call that raised ConnectionError

Requests == 1..MaxRequests

ASSUME ClientAssumption ==
    /\ MaxRequests \in Nat
    /\ MaxWait \in Nat \ {0}
    /\ QuietTime \in Nat
    /\ NoThread \notin Thread
    /\ None \notin Nat
    /\ {Open, Raised} \cap (Nat \cup {None}) = {}
    /\ Open # Raised

VARIABLES
    read_lock,   \* the thread that holds read_lock, or NoThread
    rx,          \* what serial_port.in_waiting counts
    link_up,     \* the peer has not closed the connection
    wire,        \* bytes on their way to the host
    inbox,       \* requests the device has received and not processed
    pc,          \* where each thread is in write and read
    cur,         \* the request each thread is serving, 0 before the first
    payload,     \* the local variable of read
    match,       \* the local variable of read
    left,        \* ticks left until deadline
    silent,      \* ticks since t_quiet
    waited,      \* ticks since write was called
    kind,        \* kind[q]: the command id of request q
    result,      \* result[q]: what the call returned
    arrived,     \* history: the responses that have begun to arrive
    before       \* history: before[q] = arrived when q drained the input

linkVars == <<rx, link_up, wire, inbox>>
readVars == <<payload, match, left, silent>>
callVars == <<pc, cur, waited, kind, result>>
history == <<arrived, before>>
vars == <<read_lock, linkVars, readVars, callVars, history>>

Bytes == [req: 0..MaxRequests, part: {"front", "rear", "stray"}]
FrontOf(q) == [req |-> q, part |-> "front"]
RearOf(q) == [req |-> q, part |-> "rear"]

\* The terminator byte of a frame, which is also the start byte of a frame
\* with a two-byte length.
Stray == [req |-> 0, part |-> "stray"]

Outcome == Requests \cup {None, Open, Raised}
Longest == MaxWait + 1   \* bound: waited is not counted any further

TypeOK ==
    /\ read_lock \in Thread \cup {NoThread}
    /\ rx \in Seq(Bytes)
    /\ link_up \in BOOLEAN
    /\ wire \in Seq(Bytes)
    /\ inbox \in Seq(Requests)
    /\ pc \in [Thread -> {"idle", "drain", "write", "lock", "poll", "unframe", "sleep"}]
    /\ cur \in [Thread -> 0..MaxRequests]
    /\ payload \in [Thread -> Seq(Bytes)]
    /\ match \in [Thread -> Requests \cup {None}]
    /\ left \in [Thread -> 0..MaxWait]
    /\ silent \in [Thread -> (0..QuietTime + 1) \cup {None}]
    /\ waited \in [Thread -> 0..Longest]
    /\ kind \in Seq(Kind)
    /\ Len(kind) <= MaxRequests
    /\ result \in [Requests -> Outcome]
    /\ arrived \in SUBSET Requests
    /\ before \in [Requests -> SUBSET Requests]

Init ==
    /\ read_lock = NoThread
    /\ rx = << >>
    /\ link_up = TRUE
    /\ wire = << >>
    /\ inbox = << >>
    /\ pc = [t \in Thread |-> "idle"]
    /\ cur = [t \in Thread |-> 0]
    /\ payload = [t \in Thread |-> << >>]
    /\ match = [t \in Thread |-> None]
    /\ left = [t \in Thread |-> 0]
    /\ silent = [t \in Thread |-> None]
    /\ waited = [t \in Thread |-> 0]
    /\ kind = << >>
    /\ result = [q \in Requests |-> Open]
    /\ arrived = {}
    /\ before = [q \in Requests |-> {}]

-----------------------------------------------------------------------------
(* write                                                                    *)

Goto(t, label) == pc' = [pc EXCEPT ![t] = label]

\* The call ends; the locals of read go with it.
Leave(t, value) ==
    /\ Goto(t, "idle")
    /\ result' = [result EXCEPT ![cur[t]] = value]
    /\ waited' = [waited EXCEPT ![t] = 0]
    /\ payload' = [payload EXCEPT ![t] = << >>]
    /\ match' = [match EXCEPT ![t] = None]
    /\ left' = [left EXCEPT ![t] = 0]
    /\ silent' = [silent EXCEPT ![t] = None]

Call(t, k) ==
    /\ pc[t] = "idle"
    /\ Len(kind) < MaxRequests
    /\ kind' = Append(kind, k)
    /\ cur' = [cur EXCEPT ![t] = Len(kind) + 1]
    /\ Goto(t, "drain")
    /\ UNCHANGED <<read_lock, linkVars, readVars, waited, result, history>>

\* Mutant of Drain: nothing is dropped.
DrainNothing(t) ==
    /\ pc[t] = "drain"
    /\ read_lock = NoThread
    /\ before' = [before EXCEPT ![cur[t]] = arrived]
    /\ Goto(t, "write")
    /\ UNCHANGED <<read_lock, linkVars, readVars, cur, waited, kind, result,
                   arrived>>

\* in_waiting and read(stale), inside the lock.  What arrives between the two
\* stays, so the two are one step.
Drain(t) ==
    /\ pc[t] = "drain"
    /\ read_lock = NoThread
    /\ \/ /\ rx # << >> \/ link_up
          /\ rx' = << >>
          /\ before' = [before EXCEPT ![cur[t]] = arrived]
          /\ Goto(t, "write")
          /\ UNCHANGED <<waited, result, readVars>>
       \/ /\ rx = << >>
          /\ ~link_up
          /\ Leave(t, Raised)
          /\ UNCHANGED <<rx, before>>
    /\ UNCHANGED <<read_lock, link_up, wire, inbox, cur, kind, arrived>>

\* A write that raises is logged and forgotten: the call goes on to wait.
Write(t) ==
    /\ pc[t] = "write"
    /\ \/ link_up /\ inbox' = Append(inbox, cur[t])
       \/ UNCHANGED inbox
    /\ Goto(t, "lock")
    /\ UNCHANGED <<read_lock, rx, link_up, wire, readVars, cur, waited, kind,
                   result, history>>

-----------------------------------------------------------------------------
(* read                                                                     *)

LockRead(t) ==
    /\ pc[t] = "lock"
    /\ read_lock = NoThread
    /\ read_lock' = t
    /\ left' = [left EXCEPT ![t] = MaxWait]
    /\ Goto(t, "poll")
    /\ UNCHANGED <<linkVars, payload, match, silent, cur, waited, kind, result,
                   history>>

\* The "with" block and the call end together.
Return(t, value) ==
    /\ Leave(t, value)
    /\ read_lock' = NoThread

Quiet(t) == silent[t] # None /\ silent[t] > QuietTime

\* Mutant of TakeBytes: every burst gives the response another max_wait.
TakeBytesAndTime(t) ==
    /\ pc[t] = "poll"
    /\ left[t] > 0
    /\ rx # << >>
    /\ payload' = [payload EXCEPT ![t] = @ \o rx]
    /\ rx' = << >>
    /\ silent' = [silent EXCEPT ![t] = 0]
    /\ left' = [left EXCEPT ![t] = MaxWait]
    /\ Goto(t, "unframe")
    /\ UNCHANGED <<read_lock, link_up, wire, inbox, match, cur, waited,
                   kind, result, history>>

\* Mutant of TakeBytes: the bytes stay in the buffer of the transport.
PeekBytes(t) ==
    /\ pc[t] = "poll"
    /\ left[t] > 0
    /\ rx # << >>
    /\ payload' = [payload EXCEPT ![t] = @ \o rx]
    /\ silent' = [silent EXCEPT ![t] = 0]
    /\ Goto(t, "unframe")
    /\ UNCHANGED <<read_lock, linkVars, match, left, cur, waited, kind, result,
                   history>>

\* "if waiting", up to the unframing.
TakeBytes(t) ==
    /\ pc[t] = "poll"
    /\ left[t] > 0
    /\ rx # << >>
    /\ payload' = [payload EXCEPT ![t] = @ \o rx]
    /\ rx' = << >>
    /\ silent' = [silent EXCEPT ![t] = 0]
    /\ Goto(t, "unframe")
    /\ UNCHANGED <<read_lock, link_up, wire, inbox, match, left, cur, waited,
                   kind, result, history>>

\* Nothing is waiting: the line may have gone quiet, which ends the loop.
PollNothing(t) ==
    /\ pc[t] = "poll"
    /\ left[t] > 0
    /\ rx = << >>
    /\ link_up
    /\ \/ /\ Quiet(t)
          /\ Return(t, match[t])
       \/ /\ ~Quiet(t)
          /\ Goto(t, "sleep")
          /\ UNCHANGED <<read_lock, readVars, waited, result>>
    /\ UNCHANGED <<linkVars, cur, kind, history>>

\* Mutant of PollClosed: the lock is not released when in_waiting raises.
PollClosedLocked(t) ==
    /\ pc[t] = "poll"
    /\ left[t] > 0
    /\ rx = << >>
    /\ ~link_up
    /\ Leave(t, Raised)
    /\ UNCHANGED <<read_lock, linkVars, cur, kind, history>>

\* in_waiting raises ConnectionError once the buffer of a closed link is empty.
PollClosed(t) ==
    /\ pc[t] = "poll"
    /\ left[t] > 0
    /\ rx = << >>
    /\ ~link_up
    /\ Return(t, Raised)
    /\ UNCHANGED <<linkVars, cur, kind, history>>

Deadline(t) ==
    /\ pc[t] = "poll"
    /\ left[t] = 0
    /\ Return(t, match[t])
    /\ UNCHANGED <<linkVars, cur, kind, history>>

\* Mutant of Matched: any frame will do.
MatchedAny(t, a) == a

\* Mutant of Matched: a frame of another kind leaves an empty match behind.
MatchedEmpty(t, a) == IF kind[a] = kind[cur[t]] THEN a ELSE 0

\* The newest matching frame wins.
Matched(t, a) == IF kind[a] = kind[cur[t]] THEN a ELSE match[t]

\* The rounds of "while True" over vesc_packet_codec.unframe.  The buffer is a
\* stretch of the byte stream: it starts with a frame, or in the middle of one
\* that somebody else took the front of.

StartsWith(bytes, part) == bytes # << >> /\ bytes[1].part = part

\* A whole frame, alone or behind the rear of another one: the bytes before its
\* start byte are skipped.
UnframeFrame(t) ==
    /\ pc[t] = "unframe"
    /\ \E skip \in {0, 1} :
          /\ StartsWith(payload[t], IF skip = 0 THEN "front" ELSE "rear")
          /\ Len(payload[t]) >= skip + 2
          /\ match' = [match EXCEPT ![t] = Matched(t, payload[t][skip + 1].req)]
          /\ payload' = [payload EXCEPT ![t] = SubSeq(@, skip + 3, Len(@))]
    /\ UNCHANGED <<read_lock, linkVars, left, silent, callVars, history>>

\* The rear of a frame with no whole frame behind it: everything up to its last
\* byte, the terminator, which passes for a start byte, is consumed.
UnframeRear(t) ==
    /\ pc[t] = "unframe"
    /\ StartsWith(payload[t], "rear")
    /\ Len(payload[t]) <= 2
    /\ payload' = [payload EXCEPT ![t] = <<Stray>> \o Tail(@)]
    /\ UNCHANGED <<read_lock, linkVars, match, left, silent, callVars, history>>

\* consumed = 0: nothing there, a frame that is not complete, or a start byte
\* whose length asks for more bytes than will come.
UnframeNothing(t) ==
    /\ pc[t] = "unframe"
    /\ \/ payload[t] = << >>
       \/ StartsWith(payload[t], "stray")
       \/ StartsWith(payload[t], "front") /\ Len(payload[t]) = 1
    /\ \/ /\ match[t] # None
          /\ payload[t] = << >>
          /\ Return(t, match[t])
       \/ /\ match[t] = None \/ payload[t] # << >>
          /\ Goto(t, "sleep")
          /\ UNCHANGED <<read_lock, readVars, waited, result>>
    /\ UNCHANGED <<linkVars, cur, kind, history>>

Poll(t) == TakeBytes(t) \/ PollNothing(t) \/ PollClosed(t) \/ Deadline(t)
Unframe(t) == UnframeFrame(t) \/ UnframeRear(t) \/ UnframeNothing(t)
Step(t) == Drain(t) \/ Write(t) \/ LockRead(t) \/ Poll(t) \/ Unframe(t)

-----------------------------------------------------------------------------
(* Time                                                                     *)

\* Threads that wait for nothing, or for a lock that is free, come first.
Ready(t) ==
    \/ pc[t] \in {"write", "poll", "unframe"}
    \/ pc[t] \in {"drain", "lock"} /\ read_lock = NoThread

Sooner(n) == IF n = 0 THEN 0 ELSE n - 1
Later(n, most) == IF n = most THEN most ELSE n + 1

\* time.sleep(0.01) in the thread that polls, and waiting for read_lock in the
\* others.
Tick ==
    /\ \A t \in Thread : ~Ready(t)
    /\ \E t \in Thread : pc[t] = "sleep"
    /\ pc' = [t \in Thread |-> IF pc[t] = "sleep" THEN "poll" ELSE pc[t]]
    /\ left' = [t \in Thread |-> IF pc[t] = "sleep" THEN Sooner(left[t]) ELSE left[t]]
    /\ silent' = [t \in Thread |->
          IF silent[t] = None THEN None ELSE Later(silent[t], QuietTime + 1)]
    /\ waited' = [t \in Thread |->
          IF pc[t] = "idle" THEN 0 ELSE Later(waited[t], Longest)]
    /\ UNCHANGED <<read_lock, linkVars, payload, match, cur, kind, result, history>>

-----------------------------------------------------------------------------
(* The device and the link                                                  *)

DeviceReplies ==
    /\ inbox # << >>
    /\ link_up
    /\ inbox' = Tail(inbox)
    /\ wire' = wire \o <<FrontOf(Head(inbox)), RearOf(Head(inbox))>>
    /\ UNCHANGED <<read_lock, rx, link_up, readVars, callVars, history>>

DeviceIgnores ==
    /\ inbox # << >>
    /\ inbox' = Tail(inbox)
    /\ UNCHANGED <<read_lock, rx, link_up, wire, readVars, callVars, history>>

Arrive ==
    /\ wire # << >>
    /\ wire' = Tail(wire)
    /\ rx' = Append(rx, Head(wire))
    /\ arrived' = arrived \cup {Head(wire).req}
    /\ UNCHANGED <<read_lock, link_up, inbox, readVars, callVars, before>>

\* The peer is gone, with what it had not delivered.
PeerCloses ==
    /\ link_up
    /\ link_up' = FALSE
    /\ wire' = << >>
    /\ inbox' = << >>
    /\ UNCHANGED <<read_lock, rx, readVars, callVars, history>>

-----------------------------------------------------------------------------

Next ==
    \/ \E t \in Thread, k \in Kind : Call(t, k)
    \/ \E t \in Thread : Step(t)
    \/ Tick
    \/ DeviceReplies \/ DeviceIgnores \/ Arrive \/ PeerCloses

SafetySpec == Init /\ [][Next]_vars

\* Threads run and time passes; the device owes nothing.
Spec == SafetySpec /\ (\A t \in Thread : WF_vars(Step(t))) /\ WF_vars(Tick)

-----------------------------------------------------------------------------
(* Properties.                                                              *)

\* One thread: write and read keep the same contract as the CAN tunnel does.
\* The answers for one command id come in the order of the requests, none of
\* them twice and none to a request not yet made, and every call ends.
Whole(q) == q
Returned == [q \in Requests |-> IF result[q] = Raised THEN None ELSE result[q]]
Contract == INSTANCE RequestReply
            WITH Controller <- Kind, Answer <- Whole, addr <- kind, result <- Returned

ContractSpec == Contract!Spec

\* What VESC.py:175-176 says: "max_wait bounds the total time so a dead link
\* cannot hang the caller".  True of one thread, whatever arrives and however
\* it is cut; the deadline of read starts when it gets the lock, so a thread
\* that has to wait for another one's read waits longer.
BoundedWait == \A t \in Thread : waited[t] <= MaxWait

\* A response that had begun to arrive when the request was made is never its
\* result: neither whole nor from the rest that comes after the drain, and
\* whichever thread's read gets hold of it.
DrainedNeverReturned == \A q \in Requests : result[q] \notin before[q]

\* A response goes to one caller at most.
HandedOutOnce ==
    \A q, r \in 1..Len(kind) : q # r /\ result[q] = result[r] => result[q] \notin Requests

\* read_lock belongs to a thread that is inside its read: no return, deadline
\* or exception leaves it locked, which would block every VESC of the process.
HolderIsReading ==
    \A t \in Thread : read_lock = t <=> pc[t] \in {"poll", "unframe", "sleep"}

-----------------------------------------------------------------------------
(* The invariant that the safety properties rest on.                        *)

Reading == {"poll", "unframe", "sleep"}

\* The bytes on their way from the device to whoever reads next: what the
\* reading thread has taken, what waits in the buffer, what is on the wire.
Held == IF read_lock = NoThread THEN << >> ELSE payload[read_lock]
Stream == (Held \o rx) \o wire

Elements(seq) == {seq[i] : i \in 1..Len(seq)}
Asked(bytes) == {b.req : b \in Elements(bytes)}
Fronts(bytes) == {b.req : b \in {c \in Elements(bytes) : c.part = "front"}}

\* A stretch of the byte stream: behind a front comes its rear, behind a rear
\* another front, and no front belongs to a response seen before.  The first
\* byte may be what is left of anything.
Stretch(bytes) ==
    /\ \A i \in 1..Len(bytes) : bytes[i].part # "stray" => bytes[i].req \in Requests
    /\ \A i \in 2..Len(bytes) :
          \/ bytes[i].part = "front"
          \/ bytes[i].part = "rear" /\ bytes[i - 1] = FrontOf(bytes[i].req)
    /\ \A i, j \in 1..Len(bytes) :
          i < j /\ bytes[j].part = "front" => bytes[i].req # bytes[j].req

\* Requests that no device has seen.
Unsent ==
    {cur[t] : t \in {u \in Thread : pc[u] \in {"drain", "write"}}}
    \cup {q \in Requests : q > Len(kind)}

\* The locals of read exist while its thread holds the lock, and no longer.
LocalsAreHeld ==
    \A t \in Thread : pc[t] \notin Reading => payload[t] = << >> /\ match[t] = None

\* Each call serves a request of its own, which is open till it returns.
OwnRequest ==
    /\ \A t \in Thread : pc[t] # "idle" => cur[t] \in 1..Len(kind) /\ result[cur[t]] = Open
    /\ \A t, u \in Thread : pc[t] # "idle" /\ pc[u] # "idle" /\ cur[t] = cur[u] => t = u
    /\ \A q \in Requests : q > Len(kind) => result[q] = Open

\* Behind the reading thread there are whole responses, cut at most in front.
StreamInOrder ==
    /\ Stretch(Stream)
    /\ \A b \in Elements(rx) \cup Elements(wire) : b.part # "stray"

\* A request is in one place: not sent, with the device, or answered; and a
\* response has begun to arrive when its front is no longer on the wire.
OnePlace ==
    /\ \A i, j \in 1..Len(inbox) : inbox[i] = inbox[j] => i = j
    /\ Elements(inbox) \cap (Asked(Stream) \cup arrived) = {}
    /\ Unsent \cap (Elements(inbox) \cup Asked(Stream) \cup arrived) = {}
    /\ Fronts(wire) \cap arrived = {}
    /\ Fronts(Held) \cup Fronts(rx) \subseteq arrived

\* A response is taken from the stream once.
TakenOnce ==
    /\ \A t \in Thread : match[t] # None => match[t] \in arrived \ Fronts(Stream)
    /\ \A q \in Requests : result[q] \in Requests => result[q] \in arrived \ Fronts(Stream)
    /\ \A t \in Thread, q \in Requests : match[t] # None => result[q] # match[t]
    /\ \A q, r \in Requests : result[q] \in Requests /\ result[q] = result[r] => q = r

\* What was there at the drain is behind the thread that has drained.
Forgotten ==
    /\ \A q \in Requests : before[q] \subseteq arrived
    /\ \A t \in Thread : pc[t] \notin {"idle", "drain"} =>
          /\ Fronts(Stream) \cap before[cur[t]] = {}
          /\ match[t] \notin before[cur[t]]
    /\ \A q \in Requests : result[q] \in Requests => result[q] \notin before[q]

ClientInv ==
    /\ HolderIsReading
    /\ LocalsAreHeld
    /\ OwnRequest
    /\ StreamInOrder
    /\ OnePlace
    /\ TakenOnce
    /\ Forgotten

\* With one thread: the requests with the device and the responses in the
\* stream are in the order of the calls, and later than all that was returned;
\* the one open request is the last.
Increasing(seq) == \A i, j \in 1..Len(seq) : i < j => seq[i] < seq[j]
IncreasingFronts(bytes) ==
    \A i, j \in 1..Len(bytes) : i < j /\ bytes[j].part = "front" => bytes[i].req < bytes[j].req

ResponsesInOrder ==
    /\ Increasing(inbox)
    /\ IncreasingFronts(Stream)
    /\ \A a \in Asked(Stream) \cup arrived, q \in Elements(inbox) : a < q

ResultsInOrder ==
    /\ \A t \in Thread : match[t] # None => \A a \in Fronts(Stream) : match[t] < a
    /\ \A q \in Requests : result[q] \in Requests =>
          /\ \A a \in Fronts(Stream) : result[q] < a
          /\ \A t \in Thread : match[t] # None => result[q] < match[t]

OneAtATime ==
    /\ \A t \in Thread : match[t] # None => kind[match[t]] = kind[cur[t]]
    /\ \A t \in Thread : pc[t] # "idle" => cur[t] = Len(kind)
    /\ \A t \in Thread, q \in 1..Len(kind) : result[q] = Open => pc[t] # "idle" /\ q = cur[t]

\* With one thread: what is left of the deadline has not been waited yet.
ClientInTime ==
    \A t \in Thread :
       /\ pc[t] \notin Reading => waited[t] = 0
       /\ pc[t] \in Reading => waited[t] + left[t] <= MaxWait
       /\ pc[t] \in {"unframe", "sleep"} => left[t] > 0
=============================================================================
