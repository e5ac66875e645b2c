------------------------------- MODULE Lifecycle -------------------------------
(***************************************************************************)
(* The life of a VESC object (src/pyvesc/VESC.py) in a "with" statement:   *)
(* construction, the heartbeat thread that start_heartbeat and             *)
(* stop_heartbeat control, the jump to the bootloader, the peer that may   *)
(* close the connection, and __exit__ with TCPTransport.close.             *)
(*                                                                         *)
(* Two threads: the one that uses the object, and the heartbeat thread,    *)
(* which the object owns for its whole life and which Python lets start    *)
(* only once.  They share alive_msgs, the event _stop_heartbeat and the    *)
(* transport, all without a lock.                                          *)
(***************************************************************************)
EXTENDS Integers, Sequences, FiniteSets

CONSTANTS
    Target,      \* whom an Alive message is for: the device and CAN ids
    Device,      \* the target of the first Alive message
    MaxTargets   \* bound: entries of alive_msgs

ASSUME LifecycleAssumption ==
    /\ Device \in Target
    /\ MaxTargets \in Nat \ {0}

VARIABLES
    main,           \* where the thread that uses the object is
    after_join,     \* what that thread does when stop_heartbeat is done
    hb,             \* where the heartbeat thread is
    next,           \* index of the message that the loop writes next
    alive_msgs,     \* the targets of the Alive messages
    stop_heartbeat, \* _stop_heartbeat.is_set()
    is_open,        \* serial_port.is_open
    fd_open,        \* the socket is open on our side
    peer_closed,    \* the peer has closed the connection
    last_alive,     \* the target last written to, Device before that
    rebooting       \* JumpToBootloader has been written

threadVars == <<hb, next, last_alive>>
linkVars == <<is_open, fd_open, peer_closed>>
heartbeatVars ==
    <<main, after_join, threadVars, alive_msgs, stop_heartbeat, linkVars, rebooting>>

HeartbeatTypeOK ==
    /\ main \in {"new", "using", "joining", "gone"}
    /\ after_join \in {"use", "jump", "close"}
    /\ hb \in {"unstarted", "check", "sleep", "send", "ended"}
    /\ next \in 1..MaxTargets + 1
    /\ alive_msgs \in Seq(Target)
    /\ Len(alive_msgs) \in 1..MaxTargets
    /\ stop_heartbeat \in BOOLEAN
    /\ is_open \in BOOLEAN
    /\ fd_open \in BOOLEAN
    /\ peer_closed \in BOOLEAN
    /\ last_alive \in Target
    /\ rebooting \in BOOLEAN

HeartbeatInit ==
    /\ main = "new"
    /\ after_join = "use"
    /\ hb = "unstarted"
    /\ next = 1
    /\ alive_msgs = <<Device>>
    /\ stop_heartbeat = FALSE
    /\ is_open = TRUE
    /\ fd_open = TRUE
    /\ peer_closed = FALSE
    /\ last_alive = Device
    /\ rebooting = FALSE

IsAlive == hb \in {"check", "sleep", "send"}

-----------------------------------------------------------------------------
(* The thread that uses the object.                                         *)

\* Thread.start: once in the life of a thread.  On a thread that has ended it
\* raises RuntimeError, and nothing else changes.
StartThread ==
    \/ hb = "unstarted" /\ hb' = "check"
    \/ hb = "ended" /\ UNCHANGED hb

\* "if not self.heart_beat_thread.is_alive()"
EnsureThread ==
    \/ ~IsAlive /\ StartThread
    \/ IsAlive /\ UNCHANGED hb

\* __init__ with start_heartbeat=True, and with start_heartbeat=False.
Construct ==
    /\ main = "new"
    /\ main' = "using"
    /\ EnsureThread \/ UNCHANGED hb
    /\ UNCHANGED <<after_join, next, last_alive, alive_msgs, stop_heartbeat,
                   linkVars, rebooting>>

StartHeartbeat ==
    /\ main = "using"
    /\ EnsureThread
    /\ UNCHANGED <<main, after_join, next, last_alive, alive_msgs,
                   stop_heartbeat, linkVars, rebooting>>

StartHeartbeatFor(can_id) ==
    /\ main = "using"
    /\ Len(alive_msgs) < MaxTargets
    /\ alive_msgs' = Append(alive_msgs, can_id)
    /\ EnsureThread
    /\ UNCHANGED <<main, after_join, next, last_alive, stop_heartbeat, linkVars,
                   rebooting>>

\* Mutant of StopHeartbeat: the jump is written without stopping first.
JumpAtOnce(reason) ==
    /\ main = "using"
    /\ IF reason = "jump"
       THEN rebooting' = TRUE /\ UNCHANGED <<stop_heartbeat, main, after_join>>
       ELSE /\ stop_heartbeat' = TRUE
                    /\ main' = "joining"
            /\ after_join' = reason
            /\ UNCHANGED rebooting
    /\ UNCHANGED <<threadVars, alive_msgs, linkVars>>

\* stop_heartbeat up to the join, called for itself, by fw_jump_to_bootloader
\* and by __exit__.
StopHeartbeat(reason) ==
    /\ main = "using"
    /\ stop_heartbeat' = TRUE
    /\ main' = "joining"
    /\ after_join' = reason
    /\ UNCHANGED <<threadVars, alive_msgs, linkVars, rebooting>>

\* TCPTransport.close, under "if self.serial_port.is_open" in __exit__.
CloseIfOpen ==
    \/ is_open /\ is_open' = FALSE /\ fd_open' = FALSE
    \/ ~is_open /\ UNCHANGED <<is_open, fd_open>>

\* What stop_heartbeat's caller does next.
GoOn ==
    /\ main = "joining"
    /\ \/ /\ after_join = "use"
          /\ main' = "using"
          /\ UNCHANGED <<is_open, fd_open, rebooting>>
       \/ /\ after_join = "jump"
          /\ main' = "using"
          /\ rebooting' = TRUE
          /\ UNCHANGED <<is_open, fd_open>>
       \/ /\ after_join = "close"
          /\ main' = "gone"
          /\ CloseIfOpen
          /\ UNCHANGED rebooting
    /\ UNCHANGED <<after_join, threadVars, alive_msgs, stop_heartbeat,
                   peer_closed>>

\* Mutant of Joined: the thread is not waited for.
NotJoined == GoOn

\* A thread that does not run needs no join; join returns when it has ended.
Joined == ~IsAlive /\ GoOn

\* A read or in_waiting finds that the peer has closed: _pump.
NoticePeerClosed ==
    /\ main = "using"
    /\ peer_closed
    /\ is_open
    /\ is_open' = FALSE
    /\ UNCHANGED <<main, after_join, threadVars, alive_msgs, stop_heartbeat,
                   fd_open, peer_closed, rebooting>>

User ==
    \/ Construct
    \/ StartHeartbeat
    \/ \E c \in Target : StartHeartbeatFor(c)
    \/ \E reason \in {"use", "jump", "close"} : StopHeartbeat(reason)
    \/ Joined
    \/ NoticePeerClosed

-----------------------------------------------------------------------------
(* _heartbeat_cmd_func, in the heartbeat thread.                            *)

\* Mutant of CheckStop: "while True".
NeverCheckStop ==
    /\ hb = "check"
    /\ hb' = "sleep"
    /\ UNCHANGED <<next, last_alive>>

CheckStop ==
    /\ hb = "check"
    /\ hb' = IF stop_heartbeat THEN "ended" ELSE "sleep"
    /\ UNCHANGED <<next, last_alive>>

\* Mutant of WakeUp: the iteration is not started anew.
WakeUpAtEnd ==
    /\ hb = "sleep"
    /\ hb' = "send"
    /\ UNCHANGED <<next, last_alive>>

WakeUp ==
    /\ hb = "sleep"
    /\ hb' = "send"
    /\ next' = 1
    /\ UNCHANGED last_alive

\* Mutant of SendAlive: every other message is left out.
SendEverySecond ==
    /\ hb = "send"
    /\ \/ /\ next <= Len(alive_msgs)
          /\ last_alive' = alive_msgs[next]
          /\ next' = next + 2
          /\ UNCHANGED hb
       \/ /\ next > Len(alive_msgs)
          /\ hb' = "check"
          /\ UNCHANGED <<next, last_alive>>

\* "for msg in self.alive_msgs": the iteration sees what is appended meanwhile.
\* A write that raises is logged, and the loop goes on.
SendAlive ==
    /\ hb = "send"
    /\ \/ /\ next <= Len(alive_msgs)
          /\ last_alive' = alive_msgs[next]
          /\ next' = next + 1
          /\ UNCHANGED hb
       \/ /\ next > Len(alive_msgs)
          /\ hb' = "check"
          /\ UNCHANGED <<next, last_alive>>

Beat ==
    /\ CheckStop \/ WakeUp \/ SendAlive
    /\ UNCHANGED <<main, after_join, alive_msgs, stop_heartbeat, linkVars,
                   rebooting>>

PeerCloses ==
    /\ ~peer_closed
    /\ peer_closed' = TRUE
    /\ UNCHANGED <<main, after_join, threadVars, alive_msgs, stop_heartbeat,
                   is_open, fd_open, rebooting>>

-----------------------------------------------------------------------------

HeartbeatNext == User \/ Beat \/ PeerCloses

HeartbeatSafety == HeartbeatInit /\ [][HeartbeatNext]_heartbeatVars

\* The heartbeat thread is scheduled, and the user's thread goes on after the
\* join.  Nobody has to call anything.
HeartbeatSpec == HeartbeatSafety /\ WF_heartbeatVars(Beat) /\ WF_heartbeatVars(Joined)

-----------------------------------------------------------------------------
(* Properties.                                                              *)

\* Nothing feeds the watchdog of a motor that was told to stop: once
\* stop_heartbeat has returned the thread never writes again, even if it is
\* started afterwards, so that no Alive reaches a device that jumps to its
\* bootloader and none is written to a closed transport.
SilentAfterStop ==
    (stop_heartbeat /\ main # "joining") => hb \notin {"sleep", "send"}

NoneWhileRebooting == rebooting \/ ~fd_open => hb \notin {"sleep", "send"}

\* stop_heartbeat returns, whatever the thread was doing when it was called.
StopReturns == main = "joining" ~> main # "joining"

\* Every target that start_heartbeat was called for keeps getting its Alive,
\* as long as nobody stops the thread.
EveryTargetFed ==
    \A c \in Target :
       (\E i \in 1..Len(alive_msgs) : alive_msgs[i] = c) /\ IsAlive
          ~> last_alive = c \/ stop_heartbeat
=============================================================================
