----------------------------- MODULE RequestReply -----------------------------
(***************************************************************************)
(* What VescCanBus.comm_request (src/pyvesc/can/bus.py) can promise its    *)
(* callers, with neither the bus nor the threads in sight: requests are    *)
(* served one at a time, and each one ends either with None or with the    *)
(* answer some device of the right controller gave.                        *)
(*                                                                         *)
(* The tunnel carries no request ids, so the promise is weaker than "the   *)
(* answer to this request".  An answer comes from the controller that was  *)
(* asked, it answers this request or an earlier one, and the answers a     *)
(* controller gives are handed out in the order it was asked: none twice,  *)
(* none after a later one.                                                 *)
(***************************************************************************)
EXTENDS Integers, Sequences

CONSTANTS
    Controller,   \* the CAN ids of the VESCs
    Answer(_),    \* Answer(q): the payload that answers request q
    None,         \* the result of a request that got no answer
    Open,         \* the result of a request that is still being served
    MaxRequests   \* bound: how many requests a behaviour issues

VARIABLES
    addr,         \* addr[q]: the controller request q was sent to
    result        \* result[q]: how request q ended

vars == <<addr, result>>

Requests == 1..MaxRequests

Init ==
    /\ addr = << >>
    /\ result = [q \in Requests |-> Open]

\* Nobody is being served.
Quiet == \A q \in 1..Len(addr) : result[q] # Open

Issue(c) ==
    /\ Quiet
    /\ Len(addr) < MaxRequests
    /\ addr' = Append(addr, c)
    /\ UNCHANGED result

\* Request a was put to the same controller as q, no later than q, and after
\* every request whose answer that controller's callers have seen.
Deliverable(a, q) ==
    /\ a \in 1..q
    /\ addr[a] = addr[q]
    /\ \A p \in 1..q, b \in 1..q :
          addr[p] = addr[q] /\ result[p] = Answer(b) => b < a

Deliver(q) ==
    /\ result[q] = Open
    /\ \E a \in 1..q :
          /\ Deliverable(a, q)
          /\ result' = [result EXCEPT ![q] = Answer(a)]
    /\ UNCHANGED addr

GiveUp(q) ==
    /\ result[q] = Open
    /\ result' = [result EXCEPT ![q] = None]
    /\ UNCHANGED addr

Finish == \E q \in 1..Len(addr) : Deliver(q) \/ GiveUp(q)

Next ==
    \/ \E c \in Controller : Issue(c)
    \/ Finish

SafetySpec == Init /\ [][Next]_vars

\* No caller is left hanging.
Spec == SafetySpec /\ WF_vars(Finish)
=============================================================================
