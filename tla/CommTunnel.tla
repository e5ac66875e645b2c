------------------------------ MODULE CommTunnel ------------------------------
(***************************************************************************)
(* The COMM-over-CAN tunnel of VescCanBus (src/pyvesc/can/bus.py).         *)
(*                                                                         *)
(* Application threads call comm_request; each call holds _comm_lock from  *)
(* the first reset to the return.  The notifier's RX thread runs           *)
(* _on_tunnel_frame for every tunnel frame addressed to the host and hands *)
(* a complete reply over in _comm_reply / _comm_event, which nothing       *)
(* locks: every access to them is a step of its own here.                  *)
(*                                                                         *)
(* Requests are numbered in the order they take the lock.  The code has no *)
(* such numbers; here they stand for the data: a frame or a payload is     *)
(* known by the request it answers, so that a late reply can be told from  *)
(* the reply that was asked for.                                           *)
(*                                                                         *)
(* The controllers and the bus are external: a controller works through    *)
(* its requests in order, may not answer one, and answers in one           *)
(* PROCESS_SHORT_BUFFER frame or in Chunks FILL frames and a               *)
(* PROCESS_RX_BUFFER frame.  The frames of one controller stay in order,   *)
(* those of different controllers interleave, any frame may be lost.       *)
(***************************************************************************)
EXTENDS Integers, Sequences

CONSTANTS
    Thread,       \* application threads that call comm_request
    Controller,   \* ids of the VESCs on the bus
    Chunks,       \* FILL frames in a long reply
    MaxRequests,  \* bound: comm_request calls in a behaviour
    NoThread,     \* "_comm_lock is free"
    None,         \* Python's None
    Open          \* the result of a call that has not returned

Requests == 1..MaxRequests

\* The bytes that answer request q, as the chunks of the FILL frames.
Payload == [1..Chunks -> 0..MaxRequests]
Answer(q) == [k \in 1..Chunks |-> q]

ASSUME TunnelAssumption ==
    /\ Chunks \in Nat \ {0}
    /\ MaxRequests \in Nat
    /\ NoThread \notin Thread
    /\ None \notin Payload
    /\ None \notin [sender: Controller, payload: Payload]
    /\ Open \notin Payload
    /\ Open # None

VARIABLES
    comm_lock,    \* the thread inside comm_request, or NoThread
    comm_reply,   \* _comm_reply: None, or who replied and with what
    comm_event,   \* _comm_event.is_set()
    comm_buf,     \* _comm_buf: chunk k holds a piece of an answer, 0 at start
    rx_publishing,\* the RX thread has set _comm_reply, not yet _comm_event
    pc,           \* where each thread is in comm_request
    cur,          \* the request each thread is serving, 0 outside comm_request
    expired,      \* time.monotonic() has passed the thread's deadline
    addr,         \* addr[q]: the controller_id request q was called with
    result,       \* result[q]: what the call returned
    inbox,        \* requests a controller has received and not processed
    outbox        \* frames of a controller on their way to the host

hostVars == <<comm_lock, comm_reply, comm_event, comm_buf, rx_publishing>>
callVars == <<pc, cur, expired, addr, result>>
busVars == <<inbox, outbox>>
vars == <<hostVars, callVars, busVars>>

Reply == [sender: Controller, payload: Payload]
Outcome == Payload \cup {None, Open}

Frame == [type: {"FILL", "SHORT", "PROCESS"}, req: Requests, chunk: 0..Chunks]
Frag(q, k) == [type |-> "FILL", req |-> q, chunk |-> k]
Last(type, q) == [type |-> type, req |-> q, chunk |-> 0]

BeforeSend == {"reset_reply", "reset_event", "send"}
Waiting == {"check", "wait", "read", "drop_reply", "drop_event"}

TypeOK ==
    /\ comm_lock \in Thread \cup {NoThread}
    /\ comm_reply \in Reply \cup {None}
    /\ comm_event \in BOOLEAN
    /\ comm_buf \in Payload
    /\ rx_publishing \in BOOLEAN
    /\ pc \in [Thread -> {"idle"} \cup BeforeSend \cup Waiting]
    /\ cur \in [Thread -> 0..MaxRequests]
    /\ expired \in [Thread -> BOOLEAN]
    /\ addr \in Seq(Controller)
    /\ Len(addr) <= MaxRequests
    /\ result \in [Requests -> Outcome]
    /\ inbox \in [Controller -> Seq(Requests)]
    /\ outbox \in [Controller -> Seq(Frame)]

Init ==
    /\ comm_lock = NoThread
    /\ comm_reply = None
    /\ comm_event = FALSE
    /\ comm_buf = [k \in 1..Chunks |-> 0]
    /\ rx_publishing = FALSE
    /\ pc = [t \in Thread |-> "idle"]
    /\ cur = [t \in Thread |-> 0]
    /\ expired = [t \in Thread |-> FALSE]
    /\ addr = << >>
    /\ result = [q \in Requests |-> Open]
    /\ inbox = [c \in Controller |-> << >>]
    /\ outbox = [c \in Controller |-> << >>]

-----------------------------------------------------------------------------
(* comm_request, in the calling thread.                                     *)

Goto(t, label) == pc' = [pc EXCEPT ![t] = label]

\* Mutant of Return: a bare release() that the returns without an answer go past.
ReturnLocked(t, value) ==
    /\ Goto(t, "idle")
    /\ result' = [result EXCEPT ![cur[t]] = value]
    /\ comm_lock' = IF value = None THEN comm_lock ELSE NoThread
    /\ expired' = [expired EXCEPT ![t] = FALSE]
    /\ cur' = [cur EXCEPT ![t] = 0]

\* "return value", which leaves the "with" block and so frees the lock; the locals
\* of the call go with it.
Return(t, value) ==
    /\ Goto(t, "idle")
    /\ result' = [result EXCEPT ![cur[t]] = value]
    /\ comm_lock' = NoThread
    /\ expired' = [expired EXCEPT ![t] = FALSE]
    /\ cur' = [cur EXCEPT ![t] = 0]

\* Mutant of Acquire: comm_request without "with self._comm_lock".
UnlockedAcquire(t, c) ==
    /\ pc[t] = "idle"
    /\ Len(addr) < MaxRequests
    /\ comm_lock' = t
    /\ addr' = Append(addr, c)
    /\ cur' = [cur EXCEPT ![t] = Len(addr) + 1]
    /\ Goto(t, "reset_reply")
    /\ UNCHANGED <<comm_reply, comm_event, comm_buf, rx_publishing,
                   expired, result, busVars>>

\* The call blocks until the lock is free: a blocked caller is an idle one
\* that has not taken this step.
Acquire(t, c) ==
    /\ pc[t] = "idle"
    /\ comm_lock = NoThread
    /\ Len(addr) < MaxRequests
    /\ comm_lock' = t
    /\ addr' = Append(addr, c)
    /\ cur' = [cur EXCEPT ![t] = Len(addr) + 1]
    /\ Goto(t, "reset_reply")
    /\ UNCHANGED <<comm_reply, comm_event, comm_buf, rx_publishing,
                   expired, result, busVars>>

\* Mutant of ResetReply: the reply of the last request is kept.
KeepOldReply(t) ==
    /\ pc[t] = "reset_reply"
    /\ Goto(t, "reset_event")
    /\ UNCHANGED <<hostVars, cur, expired, addr, result, busVars>>

ResetReply(t) ==
    /\ pc[t] = "reset_reply"
    /\ comm_reply' = None
    /\ Goto(t, "reset_event")
    /\ UNCHANGED <<comm_lock, comm_event, comm_buf, rx_publishing,
                   cur, expired, addr, result, busVars>>

ResetEvent(t) ==
    /\ pc[t] = "reset_event"
    /\ comm_event' = FALSE
    /\ Goto(t, "send")
    /\ UNCHANGED <<comm_lock, comm_reply, comm_buf, rx_publishing,
                   cur, expired, addr, result, busVars>>

\* Every frame of the request goes out.  The RX thread may run between two of
\* them; it touches nothing the loop uses, so one step stands for the loop.
Send(t) ==
    /\ pc[t] = "send"
    /\ inbox' = [inbox EXCEPT ![addr[cur[t]]] = Append(@, cur[t])]
    /\ Goto(t, "check")
    /\ UNCHANGED <<hostVars, cur, expired, addr, result, outbox>>

\* can.CanOperationError: the controller never sees a complete request.
SendFails(t) ==
    /\ pc[t] = "send"
    /\ Return(t, None)
    /\ UNCHANGED <<comm_reply, comm_event, comm_buf, rx_publishing, addr, busVars>>

\* The clock passes the deadline, wherever the thread is in its loop.
Expire(t) ==
    /\ pc[t] \in Waiting
    /\ ~expired[t]
    /\ expired' = [expired EXCEPT ![t] = TRUE]
    /\ UNCHANGED <<hostVars, pc, cur, addr, result, busVars>>

CheckDeadline(t) ==
    /\ pc[t] = "check"
    /\ \/ /\ expired[t]
          /\ Return(t, None)
       \/ /\ ~expired[t]
          /\ Goto(t, "wait")
          /\ UNCHANGED <<comm_lock, cur, expired, result>>
    /\ UNCHANGED <<comm_reply, comm_event, comm_buf, rx_publishing,
                   addr, busVars>>

\* _comm_event.wait(remaining) returns, for either reason.
WaitReturns(t) ==
    /\ pc[t] = "wait"
    /\ comm_event \/ expired[t]
    /\ Goto(t, "read")
    /\ UNCHANGED <<hostVars, cur, expired, addr, result, busVars>>

\* Mutant of ReadReply: the sender is not compared.
ReadAnyReply(t) ==
    /\ pc[t] = "read"
    /\ \/ /\ comm_reply = None
          /\ Goto(t, "check")
          /\ UNCHANGED <<comm_lock, cur, expired, result>>
       \/ /\ comm_reply # None
          /\ Return(t, comm_reply.payload)
    /\ UNCHANGED <<comm_reply, comm_event, comm_buf, rx_publishing,
                   addr, busVars>>

\* Mutant of ReadReply: the event is cleared after every wait.
ReadThenClear(t) ==
    /\ pc[t] = "read"
    /\ \/ /\ comm_reply = None
          /\ Goto(t, "drop_event")
          /\ UNCHANGED <<comm_lock, cur, expired, result>>
       \/ /\ comm_reply # None
          /\ comm_reply.sender = addr[cur[t]]
          /\ Return(t, comm_reply.payload)
       \/ /\ comm_reply # None
          /\ comm_reply.sender # addr[cur[t]]
          /\ Goto(t, "drop_reply")
          /\ UNCHANGED <<comm_lock, cur, expired, result>>
    /\ UNCHANGED <<comm_reply, comm_event, comm_buf, rx_publishing,
                   addr, busVars>>

\* The code reads _comm_reply twice, for "is not None" and for the tuple; only
\* the lock holder ever sets it to None, so the second read decides.
ReadReply(t) ==
    /\ pc[t] = "read"
    /\ \/ /\ comm_reply = None
          /\ Goto(t, "check")
          /\ UNCHANGED <<comm_lock, cur, expired, result>>
       \/ /\ comm_reply # None
          /\ comm_reply.sender = addr[cur[t]]
          /\ Return(t, comm_reply.payload)
       \/ /\ comm_reply # None
          /\ comm_reply.sender # addr[cur[t]]
          /\ Goto(t, "drop_reply")
          /\ UNCHANGED <<comm_lock, cur, expired, result>>
    /\ UNCHANGED <<comm_reply, comm_event, comm_buf, rx_publishing,
                   addr, busVars>>

DropReply(t) ==
    /\ pc[t] = "drop_reply"
    /\ comm_reply' = None
    /\ Goto(t, "drop_event")
    /\ UNCHANGED <<comm_lock, comm_event, comm_buf, rx_publishing,
                   cur, expired, addr, result, busVars>>

DropEvent(t) ==
    /\ pc[t] = "drop_event"
    /\ comm_event' = FALSE
    /\ Goto(t, "check")
    /\ UNCHANGED <<comm_lock, comm_reply, comm_buf, rx_publishing,
                   cur, expired, addr, result, busVars>>

CallStep(t) ==
    \/ ResetReply(t) \/ ResetEvent(t) \/ Send(t) \/ SendFails(t)
    \/ CheckDeadline(t) \/ WaitReturns(t) \/ ReadReply(t)
    \/ DropReply(t) \/ DropEvent(t)

-----------------------------------------------------------------------------
(* _on_tunnel_frame, in the RX thread.                                      *)

\* Mutant of Publish: a reply without its sender.
PublishAnonymous(c, payload) ==
    /\ comm_reply' = [sender |-> None, payload |-> payload]
    /\ rx_publishing' = TRUE

Publish(c, payload) ==
    /\ comm_reply' = [sender |-> c, payload |-> payload]
    /\ rx_publishing' = TRUE

\* Mutant of CrcMatches: the CRC is not compared.
CrcIgnored(payload, q) == TRUE

\* The CRC of a PROCESS frame tells the reassembled bytes from the answer it
\* was computed over whenever they differ.
CrcMatches(payload, q) == payload = Answer(q)

\* The next frame off the wire is one of controller c.
OnTunnelFrame(c) ==
    /\ ~rx_publishing
    /\ outbox[c] # << >>
    /\ outbox' = [outbox EXCEPT ![c] = Tail(@)]
    /\ LET f == Head(outbox[c]) IN
          \/ /\ f.type = "SHORT"
             /\ Publish(c, Answer(f.req))
             /\ UNCHANGED comm_buf
          \/ /\ f.type = "FILL"
             /\ comm_buf' = [comm_buf EXCEPT ![f.chunk] = f.req]
             /\ UNCHANGED <<comm_reply, rx_publishing>>
          \/ /\ f.type = "PROCESS"
             /\ CrcMatches(comm_buf, f.req)
             /\ Publish(c, comm_buf)
             /\ UNCHANGED comm_buf
          \/ /\ f.type = "PROCESS"
             /\ ~CrcMatches(comm_buf, f.req)
             /\ UNCHANGED <<comm_buf, comm_reply, rx_publishing>>
    /\ UNCHANGED <<comm_lock, comm_event, callVars, inbox>>

SetEvent ==
    /\ rx_publishing
    /\ rx_publishing' = FALSE
    /\ comm_event' = TRUE
    /\ UNCHANGED <<comm_lock, comm_reply, comm_buf, callVars, busVars>>

RxStep == SetEvent \/ \E c \in Controller : OnTunnelFrame(c)

-----------------------------------------------------------------------------
(* The controllers and the bus.                                             *)

ShortReply(q) == <<Last("SHORT", q)>>
LongReply(q) == Append([k \in 1..Chunks |-> Frag(q, k)], Last("PROCESS", q))

ControllerReplies(c) ==
    /\ inbox[c] # << >>
    /\ inbox' = [inbox EXCEPT ![c] = Tail(@)]
    /\ \E frames \in {ShortReply(Head(inbox[c])), LongReply(Head(inbox[c]))} :
          outbox' = [outbox EXCEPT ![c] = @ \o frames]
    /\ UNCHANGED <<hostVars, callVars>>

ControllerIgnores(c) ==
    /\ inbox[c] # << >>
    /\ inbox' = [inbox EXCEPT ![c] = Tail(@)]
    /\ UNCHANGED <<hostVars, callVars, outbox>>

LoseFrame(c) ==
    /\ outbox[c] # << >>
    /\ outbox' = [outbox EXCEPT ![c] = Tail(@)]
    /\ UNCHANGED <<hostVars, callVars, inbox>>

BusStep(c) == ControllerReplies(c) \/ ControllerIgnores(c) \/ LoseFrame(c)

-----------------------------------------------------------------------------

Next ==
    \/ \E t \in Thread, c \in Controller : Acquire(t, c)
    \/ \E t \in Thread : CallStep(t) \/ Expire(t)
    \/ RxStep
    \/ \E c \in Controller : BusStep(c)

SafetySpec == Init /\ [][Next]_vars

\* The threads that are inside a call and the RX thread are scheduled, and
\* time passes.  Nobody has to call, and no controller has to answer.
Spec ==
    /\ SafetySpec
    /\ \A t \in Thread : WF_vars(CallStep(t)) /\ WF_vars(Expire(t))
    /\ WF_vars(RxStep)

-----------------------------------------------------------------------------
(* Properties.                                                              *)

\* The request whose answer the payload is.
AnswersOf(payload) == {a \in Requests : payload = Answer(a)}

\* No caller and no hand-over slot ever holds a payload pieced together from
\* two replies, or one filed under a controller that did not give it: what
\* _on_tunnel_frame publishes is a whole answer of the sender it names,
\* although every controller writes into the one _comm_buf.
NoTornReply ==
    comm_reply # None =>
       \E a \in AnswersOf(comm_reply.payload) :
          a \in 1..Len(addr) /\ addr[a] = comm_reply.sender

\* The answers that comm_request returns for one controller come in the order
\* of the requests, none of them twice, whatever was late, lost or overtaken.
RepliesInOrder ==
    \A q, r \in 1..Len(addr) : \A a, b \in Requests :
       /\ addr[q] = addr[r]
       /\ result[q] = Answer(a)
       /\ result[r] = Answer(b)
       => /\ a <= q
          /\ addr[a] = addr[q]
          /\ q < r => a < b

\* comm_request returns the answer to an earlier request only when some request
\* to that controller has come back without an answer before: as long as no
\* call times out and no send fails, the tunnel is in step.
MisansweredAfterTimeout ==
    \A q \in 1..Len(addr) : \A a \in 1..q-1 :
       result[q] = Answer(a) =>
          \E p \in 1..q-1 : addr[p] = addr[q] /\ result[p] = None

\* Why they hold: the lock makes the calls follow each other, and everything
\* that is under way from one controller is in the order of its requests, from
\* the answers already returned over the one in _comm_reply and the frames on
\* the bus to the requests it has not looked at.

\* The thread inside comm_request serves the last request, and no other
\* request is open.
OneInFlight ==
    /\ \A t \in Thread : pc[t] # "idle" <=> comm_lock = t
    /\ \A t \in Thread : pc[t] # "idle" =>
          cur[t] = Len(addr) /\ cur[t] \in Requests /\ result[cur[t]] = Open
    /\ \A q \in 1..Len(addr) : result[q] = Open =>
          q = Len(addr) /\ comm_lock # NoThread
    /\ \A q \in Requests : q > Len(addr) => result[q] = Open

AskedOf(c, q) == q \in 1..Len(addr) /\ addr[q] = c

\* A request that nobody has sent yet has no trace on the bus.
NotSent(q) == \E t \in Thread : pc[t] \in BeforeSend /\ cur[t] = q

InOrder(c) ==
    /\ \A i \in 1..Len(inbox[c]) :
          AskedOf(c, inbox[c][i]) /\ ~NotSent(inbox[c][i])
    /\ \A i \in 1..Len(outbox[c]) :
          AskedOf(c, outbox[c][i].req) /\ ~NotSent(outbox[c][i].req)
    /\ \A i, j \in 1..Len(inbox[c]) : i < j => inbox[c][i] < inbox[c][j]
    /\ \A i, j \in 1..Len(outbox[c]) : i < j =>
          /\ outbox[c][i].req <= outbox[c][j].req
          /\ outbox[c][i].type # "FILL" => outbox[c][i].req < outbox[c][j].req
    /\ \A i \in 1..Len(outbox[c]), j \in 1..Len(inbox[c]) :
          outbox[c][i].req < inbox[c][j]

BusInOrder == \A c \in Controller : InOrder(c)

\* Everything under way from c is for a later request than a.
Behind(c, a) ==
    /\ \A i \in 1..Len(inbox[c]) : a < inbox[c][i]
    /\ \A i \in 1..Len(outbox[c]) : a < outbox[c][i].req

Published(c, a) == comm_reply = [sender |-> c, payload |-> Answer(a)]

PublishedInOrder ==
    \A c \in Controller, a \in Requests :
       Published(c, a) => AskedOf(c, a) /\ ~NotSent(a) /\ Behind(c, a)

\* Once the caller has reset _comm_reply, what is found there is later than
\* every answer returned so far.
FreshReply ==
    \A t \in Thread : pc[t] \notin {"idle", "reset_reply"} =>
       \A c \in Controller, a, b \in Requests, q \in 1..Len(addr) :
          Published(c, a) /\ addr[q] = c /\ result[q] = Answer(b) => b < a

AnsweredInOrder ==
    \A q \in 1..Len(addr), a \in Requests :
       result[q] = Answer(a) =>
          a <= q /\ addr[a] = addr[q] /\ Behind(addr[q], a)

\* What a call returns is an answer, nothing pieced together.
ReturnedWhole ==
    \A q \in 1..Len(addr) :
       result[q] \notin {None, Open} => AnswersOf(result[q]) # {}

TunnelInv ==
    /\ OneInFlight
    /\ BusInOrder
    /\ NoTornReply
    /\ PublishedInOrder
    /\ FreshReply
    /\ AnsweredInOrder
    /\ ReturnedWhole
    /\ RepliesInOrder
    /\ MisansweredAfterTimeout

\* The comment of bus.py:185: what comm_request throws away is "someone else's
\* frame".  Between its look at _comm_reply and the assignment the RX thread
\* may have put the awaited reply there.
OnlyForeignDiscarded ==
    [][\A t \in Thread : DropReply(t) => comm_reply.sender # addr[cur[t]]]_vars

\* While only one controller has been spoken to, no order of the two resets, the
\* publication and the waits loses a wake-up: a caller that waits while the
\* reply to its request lies in _comm_reply has the event set, or about to be.
\* (The discarding of a second controller's reply does lose them: the event can
\* be cleared after the RX thread has set it for the awaited reply, which is
\* then returned no earlier than the deadline.)
NoLostWakeup ==
    (\A p, q \in 1..Len(addr) : addr[p] = addr[q]) =>
       \A t \in Thread :
          /\ pc[t] = "wait"
          /\ Published(addr[cur[t]], cur[t])
          => comm_event \/ rx_publishing

\* The whole tunnel keeps the contract of comm_request: one request at a time,
\* answers from the right controller in order and never twice, every call ends.
Contract == INSTANCE RequestReply

ContractSpec == Contract!Spec

\* _comm_lock never stays with a call: whichever return ends comm_request (an
\* answer, the deadline, a failed send), and after any number of foreign replies,
\* the callers that wait for the lock get their chance.  (Contract does not say so:
\* a caller that waits for the lock has not begun.)
LockComesFree == comm_lock # NoThread ~> comm_lock = NoThread
=============================================================================
