------------------------------- MODULE PingScan -------------------------------
(***************************************************************************)
(* VescCanBus.ping and VescCanBus.scan (src/pyvesc/can/bus.py).            *)
(*                                                                         *)
(* Any number of threads ping at the same time.  They share _pongs, which  *)
(* _lock guards, and one _pong_event, which nothing guards: every ping     *)
(* clears it and every PONG sets it.  The notifier's RX thread stores a    *)
(* PONG and then sets the event; it ends when a subscriber raises.         *)
(*                                                                         *)
(* The nodes and the bus are external: a node answers a PING after any     *)
(* time or not at all, and on a bus with nobody to acknowledge the frames  *)
(* the send fails.                                                         *)
(***************************************************************************)
EXTENDS Integers, FiniteSets

CONSTANTS
    Thread,     \* threads that call ping or scan
    Node,       \* controller ids that are asked for
    MaxPings,   \* bound: PINGs sent in a behaviour
    NoNode      \* a thread that pings nobody

ASSUME PingAssumption == NoNode \notin Node /\ MaxPings \in Nat

VARIABLES
    pongs,       \* the keys of _pongs
    pong_event,  \* _pong_event.is_set()
    rx,          \* the RX thread: at the next frame, storing, or ended
    pc,          \* where each thread is in ping
    target,      \* the controller_id of the ping, or NoNode
    todo,        \* the ids that scan has still to ping
    found,       \* found of scan; of a single ping, whether it got a hw_type
    expired,     \* time.monotonic() has passed the deadline
    pinged,      \* PINGs that have not been answered, for each node
    sent,        \* PINGs sent so far
    heard,       \* history: nodes whose PONG was stored since the ping popped
    answered,    \* history: the PONG was stored while the thread waited for it
    disturbed    \* history: another ping cleared the event since this one did

hostVars == <<pongs, pong_event, rx>>
callVars == <<pc, target, todo, found, expired>>
netVars == <<pinged, sent>>
history == <<heard, answered, disturbed>>
vars == <<hostVars, callVars, netVars, history>>

Waiting == {"clear", "look", "wait", "look_again"}

TypeOK ==
    /\ pongs \in SUBSET Node
    /\ pong_event \in BOOLEAN
    /\ rx \in {"next", "set_event", "ended"}
    /\ pc \in [Thread -> {"idle", "scan", "pop", "send", "back_off", "check"} \cup Waiting]
    /\ target \in [Thread -> Node \cup {NoNode}]
    /\ todo \in [Thread -> SUBSET Node]
    /\ found \in [Thread -> SUBSET Node]
    /\ expired \in [Thread -> BOOLEAN]
    /\ pinged \in [Node -> Nat]
    /\ sent \in 0..MaxPings
    /\ heard \in [Thread -> SUBSET Node]
    /\ answered \in [Thread -> BOOLEAN]
    /\ disturbed \in [Thread -> BOOLEAN]

Init ==
    /\ pongs = {}
    /\ pong_event = FALSE
    /\ rx = "next"
    /\ pc = [t \in Thread |-> "idle"]
    /\ target = [t \in Thread |-> NoNode]
    /\ todo = [t \in Thread |-> {}]
    /\ found = [t \in Thread |-> {}]
    /\ expired = [t \in Thread |-> FALSE]
    /\ pinged = [n \in Node |-> 0]
    /\ sent = 0
    /\ heard = [t \in Thread |-> {}]
    /\ answered = [t \in Thread |-> FALSE]
    /\ disturbed = [t \in Thread |-> FALSE]

-----------------------------------------------------------------------------
(* scan and ping                                                            *)

Goto(t, label) == pc' = [pc EXCEPT ![t] = label]

\* scan(ids); a ping is a scan of one id, whose result is the hw_type if the
\* id is found.
Scan(t, ids) ==
    /\ pc[t] = "idle"
    /\ todo' = [todo EXCEPT ![t] = ids]
    /\ Goto(t, "scan")
    /\ UNCHANGED <<hostVars, target, found, expired, netVars, history>>

\* "for cid in ids", in whatever order the caller gave them, and "return found".
NextId(t) ==
    /\ pc[t] = "scan"
    /\ \/ \E n \in todo[t] :
             /\ target' = [target EXCEPT ![t] = n]
             /\ todo' = [todo EXCEPT ![t] = @ \ {n}]
             /\ Goto(t, "pop")
             /\ UNCHANGED <<found, heard>>
       \/ /\ todo[t] = {}
          /\ Goto(t, "idle")
          /\ found' = [found EXCEPT ![t] = {}]
          /\ heard' = [heard EXCEPT ![t] = {}]
          /\ UNCHANGED <<target, todo>>
    /\ UNCHANGED <<hostVars, expired, netVars, answered, disturbed>>

\* Mutant of Pop: an old PONG is kept.
KeepOldPong(t) ==
    /\ pc[t] = "pop"
    /\ heard' = [heard EXCEPT ![t] = @ \ {target[t]}]
    /\ Goto(t, "send")
    /\ UNCHANGED <<hostVars, target, todo, found, expired, netVars, answered,
                   disturbed>>

\* Another thread that waits for the same node loses its PONG.
Pop(t) ==
    /\ pc[t] = "pop"
    /\ pongs' = pongs \ {target[t]}
    /\ heard' = [heard EXCEPT ![t] = @ \ {target[t]}]
    /\ answered' = [u \in Thread |-> answered[u] /\ target[u] # target[t]]
    /\ Goto(t, "send")
    /\ UNCHANGED <<pong_event, rx, target, todo, found, expired, netVars, disturbed>>

\* ping returns; scan puts the id into found if there was an answer.
Return(t, answer) ==
    /\ Goto(t, "scan")
    /\ found' = [found EXCEPT ![t] = @ \cup answer]
    /\ target' = [target EXCEPT ![t] = NoNode]
    /\ expired' = [expired EXCEPT ![t] = FALSE]
    /\ answered' = [answered EXCEPT ![t] = FALSE]
    /\ disturbed' = [disturbed EXCEPT ![t] = FALSE]

Send(t) ==
    /\ pc[t] = "send"
    /\ sent < MaxPings
    /\ sent' = sent + 1
    /\ pinged' = [pinged EXCEPT ![target[t]] = @ + 1]
    /\ Goto(t, "check")
    /\ UNCHANGED <<hostVars, target, todo, found, expired, history>>

\* can.CanOperationError: the timeout is waited out.
SendFails(t) ==
    /\ pc[t] = "send"
    /\ Goto(t, "back_off")
    /\ UNCHANGED <<hostVars, target, todo, found, expired, netVars, history>>

BackOff(t) ==
    /\ pc[t] = "back_off"
    /\ expired[t]
    /\ Return(t, {})
    /\ UNCHANGED <<hostVars, todo, netVars, heard>>

Expire(t) ==
    /\ pc[t] \in Waiting \cup {"check", "back_off"}
    /\ ~expired[t]
    /\ expired' = [expired EXCEPT ![t] = TRUE]
    /\ UNCHANGED <<hostVars, pc, target, todo, found, netVars, history>>

CheckDeadline(t) ==
    /\ pc[t] = "check"
    /\ \/ /\ expired[t]
          /\ Return(t, {})
       \/ /\ ~expired[t]
          /\ Goto(t, "clear")
          /\ UNCHANGED <<target, found, expired, answered, disturbed>>
    /\ UNCHANGED <<hostVars, todo, netVars, heard>>

\* "if controller_id in self._pongs", before and after the wait.
Look(t, here, otherwise) ==
    /\ pc[t] = here
    /\ \/ /\ target[t] \in pongs
          /\ Return(t, {target[t]})
       \/ /\ target[t] \notin pongs
          /\ Goto(t, otherwise)
          /\ UNCHANGED <<target, found, expired, answered, disturbed>>
    /\ UNCHANGED <<hostVars, todo, netVars, heard>>

\* This thread has cleared the event: who has done so before it is disturbed.
Disturbs(t) ==
    disturbed' = [u \in Thread |-> u # t /\ (disturbed[u] \/ pc[u] \in {"look", "wait"})]

\* Mutant of ClearEvent: _pongs is looked at first, and then the event cleared.
LookThenClear(t) ==
    \/ Look(t, "clear", "look")
    \/ /\ pc[t] = "look"
       /\ pong_event' = FALSE
       /\ Disturbs(t)
       /\ Goto(t, "wait")
       /\ UNCHANGED <<pongs, rx, target, todo, found, expired, netVars, heard, answered>>

ClearEvent(t) ==
    /\ pc[t] = "clear"
    /\ pong_event' = FALSE
    /\ Disturbs(t)
    /\ Goto(t, "look")
    /\ UNCHANGED <<pongs, rx, target, todo, found, expired, netVars, heard, answered>>

\* Mutant of WaitReturns: "if not self._pong_event.wait(remaining): return None"
WaitOrGiveUp(t) ==
    /\ pc[t] = "wait"
    /\ pong_event \/ expired[t]
    /\ Goto(t, IF pong_event THEN "look_again" ELSE "check")
    /\ UNCHANGED <<hostVars, target, todo, found, expired, netVars, history>>

\* _pong_event.wait(remaining) returns, for either reason.
WaitReturns(t) ==
    /\ pc[t] = "wait"
    /\ pong_event \/ expired[t]
    /\ Goto(t, "look_again")
    /\ UNCHANGED <<hostVars, target, todo, found, expired, netVars, history>>

PingStep(t) ==
    \/ NextId(t) \/ Pop(t) \/ Send(t) \/ SendFails(t) \/ BackOff(t)
    \/ CheckDeadline(t) \/ ClearEvent(t)
    \/ Look(t, "look", "wait") \/ WaitReturns(t) \/ Look(t, "look_again", "check")

-----------------------------------------------------------------------------
(* _on_message, in the RX thread.                                           *)

\* Mutant of OnPong: stored under the addressee instead of the sender.
StoreForAddressee(n) ==
    /\ rx = "next"
    /\ pinged[n] > 0
    /\ pinged' = [pinged EXCEPT ![n] = @ - 1]
    /\ pongs' = pongs \cup {NoNode}
    /\ rx' = "set_event"
    /\ UNCHANGED <<pong_event, callVars, sent, history>>

\* A PONG addressed to HOST_ID.
OnPong(n) ==
    /\ rx = "next"
    /\ pinged[n] > 0
    /\ pinged' = [pinged EXCEPT ![n] = @ - 1]
    /\ pongs' = pongs \cup {n}
    /\ rx' = "set_event"
    /\ heard' = [t \in Thread |-> IF pc[t] = "idle" THEN {} ELSE heard[t] \cup {n}]
    /\ answered' = [t \in Thread |->
          answered[t] \/ (pc[t] \in Waiting /\ pc[t] # "look_again" /\ target[t] = n)]
    /\ UNCHANGED <<pong_event, callVars, sent, disturbed>>

SetEvent ==
    /\ rx = "set_event"
    /\ rx' = "next"
    /\ pong_event' = TRUE
    /\ UNCHANGED <<pongs, callVars, netVars, history>>

\* A subscriber that raises on a STATUS frame takes the RX thread with it.
SubscriberRaises ==
    /\ rx = "next"
    /\ rx' = "ended"
    /\ UNCHANGED <<pongs, pong_event, callVars, netVars, history>>

RxStep == SetEvent \/ (\E n \in Node : OnPong(n)) \/ SubscriberRaises

\* A PING or its PONG is lost, or there is no such node.
NoAnswer(n) ==
    /\ pinged[n] > 0
    /\ pinged' = [pinged EXCEPT ![n] = @ - 1]
    /\ UNCHANGED <<hostVars, callVars, sent, history>>

-----------------------------------------------------------------------------

Next ==
    \/ \E t \in Thread, ids \in (SUBSET Node) \ {{}} : Scan(t, ids)
    \/ \E t \in Thread : PingStep(t) \/ Expire(t)
    \/ RxStep
    \/ \E n \in Node : NoAnswer(n)

Spec == Init /\ [][Next]_vars

-----------------------------------------------------------------------------
(* Properties.                                                              *)

\* scan finds a node only if its PONG came after ping had popped the old one: a
\* node that answered an earlier ping and then went silent is not found again.
FoundAfterPop == \A t \in Thread : found[t] \subseteq heard[t]

\* Why it holds: scan asks for each id once, and from the pop on a PONG of the
\* node in _pongs is one that has been heard since.
EachIdOnce ==
    \A t \in Thread :
       /\ found[t] \cap (todo[t] \cup {target[t]}) = {}
       /\ target[t] \notin todo[t]
       /\ pc[t] = "idle" => found[t] = {}
       /\ pc[t] \in {"idle", "scan"} <=> target[t] = NoNode

FreshPongs ==
    \A t \in Thread :
       pc[t] \notin {"idle", "scan", "pop"} /\ target[t] \in pongs => target[t] \in heard[t]

\* A PONG that is stored while its thread waits for it is never reported as a
\* timeout, not even when another thread's ping clears the event in between;
\* only a thread that pings the same node can take it away.
AnsweredIsFound ==
    [][\A t \in Thread :
          answered[t] /\ target'[t] = NoNode => target[t] \in found'[t]]_vars

\* Why it holds: the PONG stays in _pongs until a look finds it.
AnsweredIsThere ==
    \A t \in Thread :
       answered[t] => pc[t] \in Waiting /\ target[t] \in pongs

\* A ping whose event no other ping clears is never left waiting for the clock
\* with its PONG in _pongs: whatever the order of clear, look, store and set, the
\* event is set or about to be.  (Disturbed by another ping it may have to wait
\* for the clock, and finds its PONG then, see AnsweredIsFound.)
UndisturbedIsWoken ==
    \A t \in Thread :
       pc[t] = "wait" /\ target[t] \in pongs /\ ~disturbed[t]
          => pong_event \/ rx = "set_event"

PingInv ==
    /\ EachIdOnce
    /\ FreshPongs
    /\ FoundAfterPop
    /\ AnsweredIsThere
    /\ UndisturbedIsWoken
=============================================================================
