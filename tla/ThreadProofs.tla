----------------------------- MODULE ThreadProofs -----------------------------
(***************************************************************************)
(* The threads that run beside the user's: the heartbeat (Lifecycle), for  *)
(* any targets and number of Alive messages; PING and PONG (PingScan), for *)
(* any number of threads, nodes and pings; and the reassembly of what      *)
(* encode_comm_frames sends (TunnelFrames), for any payloads, any size of  *)
(* the buffer, and any number of values of a byte.  At the end the last    *)
(* two in one bus (CanBus).                                                *)
(***************************************************************************)
EXTENDS Lifecycle, CanBus, SequenceTheorems, TLAPS

-----------------------------------------------------------------------------
(* The heartbeat                                                            *)

\* A reboot and a close come after a stop that has been waited for, and nothing
\* clears the flag.
StoppedFirst ==
    /\ main = "joining" => stop_heartbeat
    /\ main = "gone" => stop_heartbeat
    /\ rebooting => stop_heartbeat
    /\ ~fd_open => stop_heartbeat /\ main = "gone"

LifecycleInv ==
    /\ StoppedFirst
    /\ SilentAfterStop
    /\ (rebooting => hb \notin {"sleep", "send"})

LEMMA LifecycleInit == HeartbeatInit => HeartbeatTypeOK /\ LifecycleInv
<1> SUFFICES ASSUME HeartbeatInit PROVE HeartbeatTypeOK /\ LifecycleInv
    OBVIOUS
<1>1. alive_msgs \in Seq(Target) /\ Len(alive_msgs) \in 1..MaxTargets
  BY LifecycleAssumption, SMT DEF HeartbeatInit
<1>2. HeartbeatTypeOK
  <2>1. next \in 1..MaxTargets + 1
    BY LifecycleAssumption, SMT DEF HeartbeatInit, LifecycleAssumption
  <2> QED BY <1>1, <2>1, LifecycleAssumption, Zenon DEF HeartbeatInit, HeartbeatTypeOK, LifecycleAssumption
<1>3. LifecycleInv
  BY SMT DEF HeartbeatInit, LifecycleInv, StoppedFirst, SilentAfterStop
<1> QED BY <1>2, <1>3

LEMMA HeartbeatTypeStep == HeartbeatTypeOK /\ [HeartbeatNext]_heartbeatVars => HeartbeatTypeOK'
<1> SUFFICES ASSUME HeartbeatTypeOK, [HeartbeatNext]_heartbeatVars PROVE HeartbeatTypeOK'
    OBVIOUS
<1> USE LifecycleAssumption DEF HeartbeatTypeOK
<1>1. CASE Construct
  BY <1>1, SMT DEF Construct, EnsureThread, StartThread, IsAlive, linkVars
<1>2. CASE StartHeartbeat
  BY <1>2, SMT DEF StartHeartbeat, EnsureThread, StartThread, IsAlive, linkVars
<1>3. ASSUME NEW c \in Target, StartHeartbeatFor(c) PROVE HeartbeatTypeOK'
  <2>1. alive_msgs' \in Seq(Target) /\ Len(alive_msgs') = Len(alive_msgs) + 1
    BY <1>3, SMT DEF StartHeartbeatFor
  <2>2. Len(alive_msgs') \in 1..MaxTargets
    BY <1>3, <2>1, SMT DEF StartHeartbeatFor
  <2> QED BY <1>3, <2>1, <2>2, SMT
        DEF StartHeartbeatFor, EnsureThread, StartThread, IsAlive, linkVars
<1>4. ASSUME NEW reason \in {"use", "jump", "close"}, StopHeartbeat(reason) PROVE HeartbeatTypeOK'
  BY <1>4, SMT DEF StopHeartbeat, threadVars, linkVars
<1>5. CASE Joined
  BY <1>5, Zenon DEF Joined, GoOn, CloseIfOpen, threadVars
<1>6. CASE NoticePeerClosed
  BY <1>6, Zenon DEF NoticePeerClosed, threadVars
<1>7. CASE Beat
  <2>1. CASE CheckStop
    BY <1>7, <2>1, SMT DEF Beat, CheckStop, linkVars
  <2>2. CASE WakeUp
    BY <1>7, <2>2, SMT DEF Beat, WakeUp, linkVars
  <2>3. CASE SendAlive
    <3>1. CASE next <= Len(alive_msgs)
      <4>1. alive_msgs[next] \in Target /\ next + 1 \in 1..MaxTargets + 1
        BY <3>1, SMT
      <4> QED BY <1>7, <2>3, <3>1, <4>1, SMT DEF Beat, SendAlive, linkVars
    <3>2. CASE ~(next <= Len(alive_msgs))
      BY <1>7, <2>3, <3>2, SMT DEF Beat, SendAlive, linkVars
    <3> QED BY <3>1, <3>2
  <2> QED BY <1>7, <2>1, <2>2, <2>3 DEF Beat
<1>8. CASE PeerCloses
  BY <1>8, SMT DEF PeerCloses, threadVars
<1>9. CASE UNCHANGED heartbeatVars
  BY <1>9, SMT DEF heartbeatVars, threadVars, linkVars
<1> QED
  BY <1>1, <1>2, <1>3, <1>4, <1>5, <1>6, <1>7, <1>8, <1>9 DEF HeartbeatNext, User

LEMMA LifecycleStep == HeartbeatTypeOK /\ LifecycleInv /\ [HeartbeatNext]_heartbeatVars => LifecycleInv'
<1> SUFFICES ASSUME HeartbeatTypeOK, LifecycleInv, [HeartbeatNext]_heartbeatVars PROVE LifecycleInv'
    OBVIOUS
<1> USE DEF LifecycleInv, StoppedFirst, SilentAfterStop
<1>1. CASE Construct
  BY <1>1, SMT DEF Construct, EnsureThread, StartThread, IsAlive, linkVars, HeartbeatTypeOK
<1>2. CASE StartHeartbeat
  BY <1>2, SMT DEF StartHeartbeat, EnsureThread, StartThread, IsAlive, linkVars, HeartbeatTypeOK
<1>3. ASSUME NEW c \in Target, StartHeartbeatFor(c) PROVE LifecycleInv'
  BY <1>3, SMT DEF StartHeartbeatFor, EnsureThread, StartThread, IsAlive, linkVars, HeartbeatTypeOK
<1>4. ASSUME NEW reason \in {"use", "jump", "close"}, StopHeartbeat(reason)
      PROVE LifecycleInv'
  BY <1>4, SMT DEF StopHeartbeat, threadVars, linkVars, HeartbeatTypeOK
<1>5. CASE Joined
  BY <1>5, SMT DEF Joined, IsAlive, GoOn, CloseIfOpen, threadVars, HeartbeatTypeOK
<1>6. CASE NoticePeerClosed
  BY <1>6, SMT DEF NoticePeerClosed, threadVars
<1>7. CASE Beat
  BY <1>7, SMT DEF Beat, CheckStop, WakeUp, SendAlive, linkVars, HeartbeatTypeOK
<1>8. CASE PeerCloses
  BY <1>8, SMT DEF PeerCloses, threadVars
<1>9. CASE UNCHANGED heartbeatVars
  BY <1>9, SMT DEF heartbeatVars, threadVars, linkVars
<1> QED
  BY <1>1, <1>2, <1>3, <1>4, <1>5, <1>6, <1>7, <1>8, <1>9 DEF HeartbeatNext, User

-----------------------------------------------------------------------------

LEMMA LifecycleInvariant == HeartbeatSafety => [](HeartbeatTypeOK /\ LifecycleInv)
<1>1. HeartbeatTypeOK /\ LifecycleInv /\ [HeartbeatNext]_heartbeatVars => (HeartbeatTypeOK /\ LifecycleInv)'
  BY HeartbeatTypeStep, LifecycleStep
<1> QED BY LifecycleInit, <1>1, PTL DEF HeartbeatSafety

\* Type correctness of the object and its heartbeat thread, for any targets.
THEOREM LifecycleTypeCorrect == HeartbeatSafety => []HeartbeatTypeOK
BY LifecycleInvariant, PTL

\* Once stop_heartbeat has returned the heartbeat thread never writes again, not
\* even when start_heartbeat is called afterwards.
THEOREM SilentForGood == HeartbeatSafety => []SilentAfterStop
<1>1. LifecycleInv => SilentAfterStop
  BY DEF LifecycleInv
<1> QED BY LifecycleInvariant, <1>1, PTL

\* No Alive is written to a device that is rebooting or through a transport that
\* has been closed.
THEOREM RebootIsSilent == HeartbeatSafety => []NoneWhileRebooting
<1>1. LifecycleInv => NoneWhileRebooting
  BY Zenon DEF LifecycleInv, StoppedFirst, SilentAfterStop, NoneWhileRebooting
<1> QED BY LifecycleInvariant, <1>1, PTL

-----------------------------------------------------------------------------
(* PING and PONG                                                            *)

LEMMA PingInit ==
    ASSUME Init
    PROVE  TypeOK /\ PingInv
  <1>1. TypeOK
    <2>1. 0 \in 0..MaxPings
      BY PingAssumption
    <2>2. /\ pinged \in [Node -> Nat]
          /\ sent \in 0..MaxPings
      BY <2>1 DEF Init
    <2>3. /\ pc \in [Thread -> {"idle"}]
          /\ target \in [Thread -> Node \cup {NoNode}]
          /\ todo \in [Thread -> SUBSET Node]
          /\ found \in [Thread -> SUBSET Node]
          /\ heard \in [Thread -> SUBSET Node]
      BY DEF Init
    <2>4. /\ expired \in [Thread -> BOOLEAN]
          /\ answered \in [Thread -> BOOLEAN]
          /\ disturbed \in [Thread -> BOOLEAN]
      BY DEF Init
    <2>5. pongs = {} /\ pong_event = FALSE /\ rx = "next"
      BY DEF Init
    <2> QED  BY <2>2, <2>3, <2>4, <2>5 DEF TypeOK
  <1>2. PingInv
    BY PingAssumption DEF Init, PingInv, EachIdOnce, FreshPongs, FoundAfterPop,
       AnsweredIsThere, UndisturbedIsWoken
  <1> QED  BY <1>1, <1>2

-----------------------------------------------------------------------------
(* Types.                                                                   *)

\* A thread between the pop and the return has a node to ask for.
LEMMA TargetType ==
    ASSUME TypeOK, EachIdOnce, NEW t \in Thread, pc[t] \notin {"idle", "scan"}
    PROVE  target[t] \in Node
  BY DEF EachIdOnce, TypeOK

LEMMA TypeStep ==
    ASSUME TypeOK, EachIdOnce, [Next]_vars
    PROVE  TypeOK'
  <1> USE DEF TypeOK
  <1>1. ASSUME NEW t \in Thread, NEW ids \in SUBSET Node, Scan(t, ids)
        PROVE  TypeOK'
    BY <1>1 DEF Scan, Goto, hostVars, netVars, history
  <1>2. ASSUME NEW t \in Thread, NextId(t) PROVE TypeOK'
    BY <1>2 DEF NextId, Goto, hostVars, netVars
  <1>3. ASSUME NEW t \in Thread, Pop(t) PROVE TypeOK'
    BY <1>3 DEF Pop, Goto, netVars
  <1>4. ASSUME NEW t \in Thread, Send(t) PROVE TypeOK'
    <2>1. sent' \in 0..MaxPings
      BY <1>4, PingAssumption DEF Send
    <2>2. pinged' \in [Node -> Nat]
      <3>1. target[t] \in Node
        BY <1>4, TargetType DEF Send
      <3>2. pinged[target[t]] + 1 \in Nat
        BY <3>1
      <3> QED  BY <1>4, <3>2 DEF Send
    <2>3. pc' = [pc EXCEPT ![t] = "check"]
      BY <1>4 DEF Send, Goto
    <2>4. UNCHANGED <<hostVars, target, todo, found, expired, history>>
      BY <1>4 DEF Send
    <2> QED  BY <2>1, <2>2, <2>3, <2>4 DEF hostVars, history
  <1>5. ASSUME NEW t \in Thread, SendFails(t) PROVE TypeOK'
    BY <1>5 DEF SendFails, Goto, hostVars, netVars, history
  <1>6. ASSUME NEW t \in Thread, NEW answer \in SUBSET Node, Return(t, answer),
               UNCHANGED <<hostVars, todo, netVars, heard>>
        PROVE  TypeOK'
    BY <1>6 DEF Return, Goto, hostVars, netVars
  <1>7. ASSUME NEW t \in Thread, BackOff(t) PROVE TypeOK'
    BY <1>6, <1>7 DEF BackOff
  <1>8. ASSUME NEW t \in Thread, CheckDeadline(t) PROVE TypeOK'
    BY <1>6, <1>8 DEF CheckDeadline, Goto, hostVars, netVars, Waiting
  <1>9. ASSUME NEW t \in Thread, ClearEvent(t) PROVE TypeOK'
    BY <1>9 DEF ClearEvent, Disturbs, Goto, netVars, Waiting
  <1>10. ASSUME NEW t \in Thread,
                NEW here \in Waiting, NEW otherwise \in Waiting \cup {"check"},
                Look(t, here, otherwise)
         PROVE  TypeOK'
    <2>1. target[t] \in Node
      BY <1>10, TargetType DEF Look, Waiting
    <2> QED  BY <1>6, <1>10, <2>1 DEF Look, Goto, hostVars, netVars
  <1>11. ASSUME NEW t \in Thread, WaitReturns(t) PROVE TypeOK'
    BY <1>11 DEF WaitReturns, Goto, Waiting, hostVars, netVars, history
  <1>12. ASSUME NEW t \in Thread, Expire(t) PROVE TypeOK'
    BY <1>12 DEF Expire, hostVars, netVars, history
  <1>13. ASSUME NEW n \in Node, OnPong(n) PROVE TypeOK'
    <2>1. pinged' \in [Node -> Nat]
      BY <1>13, PingAssumption DEF OnPong
    <2> QED  BY <1>13, <2>1 DEF OnPong, callVars
  <1>14. ASSUME NEW n \in Node, NoAnswer(n) PROVE TypeOK'
    <2>1. pinged' \in [Node -> Nat]
      BY <1>14, PingAssumption DEF NoAnswer
    <2> QED  BY <1>14, <2>1 DEF NoAnswer, hostVars, callVars, history
  <1>15. CASE SetEvent \/ SubscriberRaises
    BY <1>15 DEF SetEvent, SubscriberRaises, callVars, netVars, history
  <1>16. CASE UNCHANGED vars
    BY <1>16 DEF vars, hostVars, callVars, netVars, history
  <1>17. ASSUME NEW t \in Thread, PingStep(t) PROVE TypeOK'
    BY <1>2, <1>3, <1>4, <1>5, <1>7, <1>8, <1>9, <1>10, <1>11, <1>17
       DEF PingStep, Waiting
  <1> QED
    BY <1>1, <1>12, <1>13, <1>14, <1>15, <1>16, <1>17 DEF Next, RxStep

-----------------------------------------------------------------------------
(* What each step may change.                                               *)

\* The RX thread, the bus and the clock leave the calls where they are.
LEMMA OutsideStep ==
    ASSUME [Next]_vars,
           ~\E t \in Thread, ids \in (SUBSET Node) \ {{}} : Scan(t, ids),
           ~\E t \in Thread : PingStep(t)
    PROVE  UNCHANGED <<pc, target, todo, found>>
  BY DEF Next, Expire, RxStep, SetEvent, OnPong, SubscriberRaises, NoAnswer,
         vars, callVars

LEMMA EachIdOnceStep ==
    ASSUME TypeOK, EachIdOnce, [Next]_vars
    PROVE  EachIdOnce'
  <1> USE DEF EachIdOnce, TypeOK
  <1>1. ASSUME NEW t \in Thread, NEW ids \in SUBSET Node, Scan(t, ids)
        PROVE  EachIdOnce'
    <2>1. /\ todo' = [todo EXCEPT ![t] = ids] /\ UNCHANGED <<target, found>>
          /\ pc[t] = "idle" /\ pc' = [pc EXCEPT ![t] = "scan"]
      BY <1>1 DEF Scan, Goto
    <2>2. target[t] = NoNode /\ found[t] = {}
      BY <2>1
    <2> QED  BY <2>1, <2>2, PingAssumption
  <1>2. ASSUME NEW t \in Thread, NextId(t) PROVE EachIdOnce'
    <2>1. target[t] = NoNode
      BY <1>2 DEF NextId
    <2>2. ASSUME NEW n \in todo[t],
                 target' = [target EXCEPT ![t] = n],
                 todo' = [todo EXCEPT ![t] = @ \ {n}],
                 pc' = [pc EXCEPT ![t] = "pop"],
                 UNCHANGED found
          PROVE  EachIdOnce'
      BY <2>1, <2>2, PingAssumption
    <2>3. ASSUME todo[t] = {}, pc' = [pc EXCEPT ![t] = "idle"],
                 found' = [found EXCEPT ![t] = {}],
                 UNCHANGED <<target, todo>>
          PROVE  EachIdOnce'
      BY <2>1, <2>3, PingAssumption
    <2> QED  BY <1>2, <2>2, <2>3 DEF NextId, Goto
  <1>3. ASSUME NEW t \in Thread, NEW answer \in SUBSET {target[t]}, Return(t, answer),
               target[t] \in Node, UNCHANGED todo
        PROVE  EachIdOnce'
    <2>1. /\ pc' = [pc EXCEPT ![t] = "scan"]
          /\ found' = [found EXCEPT ![t] = @ \cup answer]
          /\ target' = [target EXCEPT ![t] = NoNode]
      BY <1>3 DEF Return, Goto
    <2> QED  BY <1>3, <2>1, PingAssumption
  \* A step from one place inside ping to another.
  <1>4. ASSUME NEW t \in Thread, NEW label, label \notin {"idle", "scan"},
               pc[t] \notin {"idle", "scan"}, Goto(t, label),
               UNCHANGED <<target, todo, found>>
        PROVE  EachIdOnce'
    BY <1>4 DEF Goto
  <1>5. ASSUME NEW t \in Thread, PingStep(t), ~NextId(t)
        PROVE  EachIdOnce'
    <2>1. pc[t] \notin {"idle", "scan"} /\ target[t] \in Node
      BY <1>5 DEF PingStep, Pop, Send, SendFails, BackOff, CheckDeadline, ClearEvent, Disturbs,
         Look, WaitReturns
    <2> QED
      BY <1>3, <1>4, <1>5, <2>1 DEF PingStep, Pop, Send, SendFails, BackOff,
         CheckDeadline, ClearEvent, Disturbs, Look, WaitReturns
  <1>6. CASE UNCHANGED <<pc, target, todo, found>>
    BY <1>6
  <1> QED  BY <1>1, <1>2, <1>5, <1>6, OutsideStep

LEMMA FreshPongsStep ==
    ASSUME TypeOK, EachIdOnce, FreshPongs, FoundAfterPop, [Next]_vars
    PROVE  FreshPongs' /\ FoundAfterPop'
  <1> USE DEF FreshPongs, FoundAfterPop, TypeOK
  <1>1. ASSUME NEW t \in Thread, NEW ids \in SUBSET Node, Scan(t, ids)
        PROVE  FreshPongs' /\ FoundAfterPop'
    BY <1>1 DEF Scan, Goto, hostVars, history
  <1>2. ASSUME NEW t \in Thread, NextId(t)
        PROVE  FreshPongs' /\ FoundAfterPop'
    BY <1>2 DEF NextId, Goto, hostVars
  <1>3. ASSUME NEW t \in Thread, Pop(t)
        PROVE  FreshPongs' /\ FoundAfterPop'
    <2>1. /\ pongs' = pongs \ {target[t]}
          /\ heard' = [heard EXCEPT ![t] = @ \ {target[t]}]
          /\ pc' = [pc EXCEPT ![t] = "send"]
          /\ UNCHANGED <<target, found>>
      BY <1>3 DEF Pop, Goto
    <2>2. target[t] \notin found[t]
      BY DEF EachIdOnce
    <2> QED  BY <2>1, <2>2
  <1>4. ASSUME NEW t \in Thread, NEW here \in Waiting, NEW otherwise,
               Look(t, here, otherwise)
        PROVE  FreshPongs' /\ FoundAfterPop'
    <2>1. target[t] \in pongs => target[t] \in heard[t]
      BY <1>4 DEF Look, Waiting
    <2>2. UNCHANGED <<pongs, heard>>
      BY <1>4 DEF Look, hostVars
    <2>3. CASE Return(t, {target[t]}) /\ target[t] \in pongs
      BY <2>1, <2>2, <2>3 DEF Return, Goto
    <2>4. CASE Goto(t, otherwise) /\ UNCHANGED <<target, found>>
      BY <1>4, <2>1, <2>2, <2>4 DEF Goto, Look, Waiting
    <2> QED  BY <1>4, <2>3, <2>4 DEF Look
  <1>5. ASSUME NEW t \in Thread,
               Send(t) \/ SendFails(t) \/ BackOff(t) \/ CheckDeadline(t)
                  \/ ClearEvent(t) \/ WaitReturns(t)
        PROVE  FreshPongs' /\ FoundAfterPop'
    <2>1. /\ UNCHANGED <<pongs, heard>>
          /\ pc[t] \notin {"idle", "scan", "pop"}
      BY <1>5 DEF Send, SendFails, BackOff, CheckDeadline, ClearEvent, Disturbs, WaitReturns,
         hostVars, history
    <2>2. \/ Return(t, {})
          \/ UNCHANGED <<target, found>> /\ \E label : Goto(t, label)
      BY <1>5 DEF Send, SendFails, BackOff, CheckDeadline, ClearEvent, Disturbs, WaitReturns
    <2> QED  BY <2>1, <2>2 DEF Return, Goto
  <1>6. ASSUME NEW n \in Node, OnPong(n)
        PROVE  FreshPongs' /\ FoundAfterPop'
    BY <1>6 DEF OnPong, callVars, EachIdOnce
  <1>7. CASE UNCHANGED <<pongs, pc, target, found, heard>>
    BY <1>7
  <1>8. ASSUME NEW t \in Thread, PingStep(t)
        PROVE  FreshPongs' /\ FoundAfterPop'
    BY <1>2, <1>3, <1>4, <1>5, <1>8 DEF PingStep, Waiting
  <1> QED
    BY <1>1, <1>6, <1>7, <1>8 DEF Next, RxStep, Expire, SetEvent, SubscriberRaises,
       NoAnswer, vars, hostVars, callVars, history

LEMMA AnsweredIsThereStep ==
    ASSUME TypeOK, AnsweredIsThere, [Next]_vars
    PROVE  /\ AnsweredIsThere'
           /\ \A t \in Thread :
                 answered[t] /\ target'[t] = NoNode /\ target[t] # NoNode
                    => target[t] \in found'[t]
  <1> DEFINE Found == \A t \in Thread :
                         answered[t] /\ target'[t] = NoNode /\ target[t] # NoNode
                            => target[t] \in found'[t]
  <1> USE DEF AnsweredIsThere, TypeOK
  <1>1. ASSUME NEW t \in Thread, NEW ids \in SUBSET Node, Scan(t, ids)
        PROVE  AnsweredIsThere' /\ Found
    BY <1>1 DEF Scan, Goto, Waiting, hostVars, history
  <1>2. ASSUME NEW t \in Thread, NextId(t)
        PROVE  AnsweredIsThere' /\ Found
    BY <1>2 DEF NextId, Goto, Waiting, hostVars
  <1>3. ASSUME NEW t \in Thread, Pop(t)
        PROVE  AnsweredIsThere' /\ Found
    BY <1>3 DEF Pop, Goto, Waiting
  \* Only a look that finds the PONG ends a call that has been answered.
  <1>4. ASSUME NEW t \in Thread, NEW here \in Waiting, NEW otherwise,
               Look(t, here, otherwise)
        PROVE  AnsweredIsThere' /\ Found
    <2>1. UNCHANGED pongs
      BY <1>4 DEF Look, hostVars
    <2>2. CASE target[t] \in pongs /\ Return(t, {target[t]})
      BY <2>1, <2>2 DEF Return, Goto
    <2>3. CASE target[t] \notin pongs /\ Goto(t, otherwise)
                  /\ UNCHANGED <<target, answered>>
      BY <2>1, <2>3 DEF Goto
    <2> QED  BY <1>4, <2>2, <2>3 DEF Look
  <1>5. ASSUME NEW t \in Thread, BackOff(t) \/ CheckDeadline(t)
        PROVE  AnsweredIsThere' /\ Found
    <2>1. ~answered[t] /\ UNCHANGED pongs
      BY <1>5 DEF BackOff, CheckDeadline, Waiting, hostVars
    <2>2. CASE Return(t, {})
      BY <2>1, <2>2 DEF Return, Goto
    <2>3. CASE Goto(t, "clear") /\ UNCHANGED <<target, answered>>
      BY <2>1, <2>3 DEF Goto
    <2> QED  BY <1>5, <2>2, <2>3 DEF BackOff, CheckDeadline
  <1>6. ASSUME NEW t \in Thread, Send(t) \/ SendFails(t)
        PROVE  AnsweredIsThere' /\ Found
    BY <1>6 DEF Send, SendFails, Goto, Waiting, hostVars, history
  <1>7. ASSUME NEW t \in Thread, ClearEvent(t) \/ WaitReturns(t)
        PROVE  AnsweredIsThere' /\ Found
    BY <1>7 DEF ClearEvent, Disturbs, WaitReturns, Goto, Waiting, hostVars, history
  <1>8. ASSUME NEW n \in Node, OnPong(n)
        PROVE  AnsweredIsThere' /\ Found
    BY <1>8 DEF OnPong, callVars
  <1>9. CASE UNCHANGED <<pongs, pc, target, answered>>
    BY <1>9
  <1>10. ASSUME NEW t \in Thread, PingStep(t)
         PROVE  AnsweredIsThere' /\ Found
    BY <1>2, <1>3, <1>4, <1>5, <1>6, <1>7, <1>10 DEF PingStep, Waiting
  <1> QED
    BY <1>1, <1>8, <1>9, <1>10 DEF Next, RxStep, Expire, SetEvent, SubscriberRaises,
       NoAnswer, vars, hostVars, callVars, history

LEMMA WokenStep ==
    ASSUME TypeOK, UndisturbedIsWoken, [Next]_vars
    PROVE  UndisturbedIsWoken'
  <1> USE DEF UndisturbedIsWoken, TypeOK
  <1>1. ASSUME NEW t \in Thread, NEW ids \in SUBSET Node, Scan(t, ids)
        PROVE  UndisturbedIsWoken'
    BY <1>1 DEF Scan, Goto, hostVars, history
  <1>2. ASSUME NEW t \in Thread, NextId(t) PROVE UndisturbedIsWoken'
    BY <1>2 DEF NextId, Goto, hostVars
  <1>3. ASSUME NEW t \in Thread, Pop(t) PROVE UndisturbedIsWoken'
    BY <1>3 DEF Pop, Goto
  \* A thread goes to wait only when its PONG is not there.
  <1>4. ASSUME NEW t \in Thread, NEW here, NEW otherwise,
               Look(t, here, otherwise)
        PROVE  UndisturbedIsWoken'
    <2>1. UNCHANGED <<pongs, pong_event, rx>>
      BY <1>4 DEF Look, hostVars
    <2>2. CASE Return(t, {target[t]})
      BY <2>1, <2>2 DEF Return, Goto
    <2>3. CASE target[t] \notin pongs /\ Goto(t, otherwise)
                  /\ UNCHANGED <<target, disturbed>>
      BY <2>1, <2>3 DEF Goto
    <2> QED  BY <1>4, <2>2, <2>3 DEF Look
  <1>5. ASSUME NEW t \in Thread, BackOff(t) \/ CheckDeadline(t)
        PROVE  UndisturbedIsWoken'
    <2>1. UNCHANGED <<pongs, pong_event, rx>>
      BY <1>5 DEF BackOff, CheckDeadline, hostVars
    <2>2. CASE Return(t, {})
      BY <2>1, <2>2 DEF Return, Goto
    <2>3. CASE Goto(t, "clear") /\ UNCHANGED <<target, disturbed>>
      BY <2>1, <2>3 DEF Goto
    <2> QED  BY <1>5, <2>2, <2>3 DEF BackOff, CheckDeadline
  <1>6. ASSUME NEW t \in Thread, Send(t) \/ SendFails(t) \/ WaitReturns(t)
        PROVE  UndisturbedIsWoken'
    BY <1>6 DEF Send, SendFails, WaitReturns, Goto, hostVars, history
  \* Whoever waits while another one clears the event is disturbed from then on.
  <1>7. ASSUME NEW t \in Thread, ClearEvent(t) PROVE UndisturbedIsWoken'
    BY <1>7 DEF ClearEvent, Disturbs, Goto
  <1>8. ASSUME NEW n \in Node, OnPong(n) PROVE UndisturbedIsWoken'
    BY <1>8 DEF OnPong, callVars
  <1>9. CASE SetEvent
    BY <1>9 DEF SetEvent, callVars, history
  <1>10. CASE SubscriberRaises
    BY <1>10 DEF SubscriberRaises, callVars, history
  <1>11. CASE UNCHANGED <<pongs, pong_event, rx, pc, target, disturbed>>
    BY <1>11
  <1>12. ASSUME NEW t \in Thread, PingStep(t) PROVE UndisturbedIsWoken'
    BY <1>2, <1>3, <1>4, <1>5, <1>6, <1>7, <1>12 DEF PingStep
  <1> QED
    BY <1>1, <1>8, <1>9, <1>10, <1>11, <1>12 DEF Next, RxStep, Expire, NoAnswer,
       vars, hostVars, callVars, history

-----------------------------------------------------------------------------
(* The theorems.                                                            *)

\* The types and the inductive invariant, in every behaviour of the pings.
THEOREM PingInvariant == Spec => [](TypeOK /\ PingInv)
  <1>1. Init => TypeOK /\ PingInv
    BY PingInit
  <1>2. TypeOK /\ PingInv /\ [Next]_vars => (TypeOK /\ PingInv)'
    BY TypeStep, EachIdOnceStep, FreshPongsStep, AnsweredIsThereStep, WokenStep
       DEF PingInv
  <1> QED  BY <1>1, <1>2, PTL DEF Spec

\* Type correctness of the pings.
THEOREM PingTypeCorrect == Spec => []TypeOK
  BY PingInvariant, PTL

\* scan never finds a node by a PONG that came before the ping had popped the
\* old one.
THEOREM FoundIsFresh == Spec => []FoundAfterPop
  <1>1. PingInv => FoundAfterPop
    BY DEF PingInv
  <1> QED  BY <1>1, PingInvariant, PTL

\* A ping that no other ping disturbs is woken by its PONG.
THEOREM PongWakes == Spec => []UndisturbedIsWoken
  <1>1. PingInv => UndisturbedIsWoken
    BY DEF PingInv
  <1> QED  BY <1>1, PingInvariant, PTL

\* A PONG that comes while its thread waits is never reported as a timeout.
THEOREM NoAnswerMissed == Spec => AnsweredIsFound
  <1>1. TypeOK /\ PingInv /\ [Next]_vars =>
           [\A t \in Thread :
              answered[t] /\ target'[t] = NoNode => target[t] \in found'[t]]_vars
    <2>1. TypeOK /\ PingInv => \A t \in Thread : answered[t] => target[t] # NoNode
      BY PingAssumption DEF PingInv, AnsweredIsThere, TypeOK
    <2> QED  BY <2>1, AnsweredIsThereStep DEF PingInv
  <1> QED  BY <1>1, PingInvariant, PTL DEF Spec, AnsweredIsFound

-----------------------------------------------------------------------------
(* The bytes of a tunnel frame                                              *)

LEMMA WordRoundTrip ==
    ASSUME FramesAssumption, NEW n \in 0..Base * Base - 1
    PROVE  \E high, low \in Byte : WordBytes(n) = <<high, low>> /\ Word(high, low) = n
<1> DEFINE high == n \div Base
           low == n - high * Base
<1>1. Base \in Nat \ {0}
  BY DEF FramesAssumption
<1>2. high \in 0..Base - 1
  BY <1>1, SMT
<1>3. n - Base * high \in 0..Base - 1
  BY <1>1, SMT
<1>4. Base * high = high * Base
  BY <1>1, <1>2, SMT
<1>5. low \in 0..Base - 1
  BY <1>3, <1>4
<1>6. high * Base \in Int
  BY <1>1, <1>2, SMT
<1>7. high * Base + low = n
  BY <1>6, SMT
<1> QED  BY <1>2, <1>5, <1>7 DEF WordBytes, Word, Byte

LEMMA ChunkShape ==
    ASSUME NEW n \in {FillChunk, LongChunk}, payload \in Seq(Byte), i \in Nat, i < Len(payload)
    PROVE  /\ Chunk(n) \in Seq(Byte)
           /\ Len(Chunk(n)) \in 1..n
           /\ i + Len(Chunk(n)) <= Len(payload)
           /\ \A k \in 1..Len(Chunk(n)) : Chunk(n)[k] = payload[i + k]
<1> DEFINE last == Min2(i + n, Len(payload))
<1>1. n \in {6, 7} /\ Len(payload) \in Nat
  BY LenProperties DEF FillChunk, LongChunk
<1>2. last \in Nat /\ i + 1 <= last /\ last <= Len(payload) /\ last <= i + n
  BY <1>1, SMT DEF Min2
<1>3. \A k \in i + 1..last : payload[k] \in Byte
  BY <1>1, <1>2, ElementOfSeq, SMT
<1> HIDE DEF last
<1>4. /\ SubSeq(payload, i + 1, last) \in Seq(Byte)
      /\ Len(SubSeq(payload, i + 1, last)) = last - (i + 1) + 1
      /\ \A k \in 1..last - (i + 1) + 1 :
            SubSeq(payload, i + 1, last)[k] = payload[(i + 1) + k - 1]
  BY <1>2, <1>3, SubSeqProperties, SMT
<1>5. Chunk(n) = SubSeq(payload, i + 1, last)
  BY DEF Chunk, last
<1>6. last - (i + 1) + 1 = last - i
  BY <1>2, SMT
<1>7. \A k \in 1..last - i : (i + 1) + k - 1 = i + k
  BY <1>2, SMT
<1> QED  BY <1>1, <1>2, <1>4, <1>5, <1>6, <1>7, SMT

LEMMA OneByteHead ==
    ASSUME NEW S, NEW a \in S, NEW c \in Seq(S)
    PROVE  (<<a>> \o c)[1] = a /\ Tail(<<a>> \o c) = c
<1>1. /\ <<a>> \o c \in Seq(S)
      /\ Len(<<a>> \o c) = 1 + Len(c)
      /\ (<<a>> \o c)[1] = a
      /\ \A k \in 1..Len(c) : (<<a>> \o c)[k + 1] = c[k]
  BY ConcatProperties, SMT
<1>2. <<a>> \o c # << >>
  BY <1>1, LenProperties, EmptySeq, SMT
<1>3. /\ Tail(<<a>> \o c) \in Seq(S)
      /\ Len(Tail(<<a>> \o c)) = Len(c)
      /\ \A k \in 1..Len(c) : Tail(<<a>> \o c)[k] = c[k]
  BY <1>1, <1>2, HeadTailProperties, LenProperties, SMT
<1> QED  BY <1>1, <1>3, SeqEqual

LEMMA TwoByteHead ==
    ASSUME NEW S, NEW a \in S, NEW b \in S, NEW c \in Seq(S)
    PROVE  /\ (<<a, b>> \o c)[1] = a /\ (<<a, b>> \o c)[2] = b
           /\ Tail(Tail(<<a, b>> \o c)) = c
           /\ Len(<<a, b>> \o c) = Len(c) + 2
           /\ SubSeq(<<a, b>> \o c, 3, Len(c) + 2) = c
<1> DEFINE all == <<a, b>> \o c
<1>1. /\ all \in Seq(S)
      /\ Len(all) = 2 + Len(c)
      /\ all[1] = a /\ all[2] = b
      /\ \A k \in 1..Len(c) : all[k + 2] = c[k]
      /\ Len(c) \in Nat
  BY ConcatProperties, LenProperties, SMT
<1> HIDE DEF all
<1>2. all # << >>
  BY <1>1, EmptySeq, SMT
<1>3. /\ Tail(all) \in Seq(S)
      /\ Len(Tail(all)) = Len(c) + 1
      /\ \A k \in 1..Len(c) + 1 : Tail(all)[k] = all[k + 1]
  BY <1>1, <1>2, HeadTailProperties, SMT
<1>4. Tail(all) # << >>
  BY <1>1, <1>3, EmptySeq, SMT
<1>5. /\ Tail(Tail(all)) \in Seq(S)
      /\ Len(Tail(Tail(all))) = Len(c)
      /\ \A k \in 1..Len(c) : Tail(Tail(all))[k] = all[k + 2]
  BY <1>1, <1>3, <1>4, HeadTailProperties, SMT
<1>6. Tail(Tail(all)) = c
  BY <1>1, <1>5, SeqEqual
<1>7. SubSeq(all, 3, Len(c) + 2) = c
  <2>1. \A k \in 3..Len(c) + 2 : all[k] \in S
    BY <1>1, ElementOfSeq, SMT
  <2>2. /\ SubSeq(all, 3, Len(c) + 2) \in Seq(S)
        /\ Len(SubSeq(all, 3, Len(c) + 2)) = Len(c)
        /\ \A k \in 1..Len(c) : SubSeq(all, 3, Len(c) + 2)[k] = all[3 + k - 1]
    BY <1>1, <2>1, SubSeqProperties, SMT
  <2>3. \A k \in 1..Len(c) : 3 + k - 1 = k + 2
    BY <1>1, SMT
  <2> QED  BY <1>1, <2>2, <2>3, SeqEqual
<1> QED  BY <1>1, <1>6, <1>7 DEF all

-----------------------------------------------------------------------------
(* The slice assignment.                                                    *)

\* An offset of the new buffer that is not in the slice is one of the old buffer.
LEMMA BesideSlice ==
    ASSUME NEW old \in Nat, NEW at \in Nat, NEW end \in Nat, NEW new \in Nat, at <= old,
           new = old \/ new = end, NEW k \in 0..new - 1, k \notin at..end - 1
    PROVE  k \in 0..old - 1
  BY SMT

LEMMA InSlice ==
    ASSUME NEW off \in Nat, NEW n \in Nat, NEW new \in Nat, off + n <= new, NEW k \in 1..n
    PROVE  /\ off + k - 1 \in 0..new - 1
           /\ off + k - 1 \in off..off + n - 1
           /\ (off + k - 1) - off + 1 = k
  BY SMT

LEMMA SpliceShape ==
    ASSUME size \in Nat, _comm_buf \in [0..size - 1 -> Byte],
           NEW off \in Nat, NEW data \in Seq(Byte), Splice(off, data)
    PROVE  /\ size' \in Nat
           /\ _comm_buf' \in [0..size' - 1 -> Byte]
           /\ size' = size \/ size' <= off + Len(data)
           /\ off <= size =>
                 /\ off + Len(data) <= size'
                 /\ \A k \in 0..off - 1 : _comm_buf'[k] = _comm_buf[k]
                 /\ \A k \in 1..Len(data) : _comm_buf'[off + k - 1] = data[k]
<1> DEFINE at == Min2(off, size)
           end == at + Len(data)
<1>1. Len(data) \in Nat
  BY LenProperties
<1>2. /\ at \in Nat /\ at <= off /\ at <= size
      /\ off <= size => at = off
  BY SMT DEF Min2
<1> HIDE DEF at
<1>3. /\ size' = Max2(size, end)
      /\ _comm_buf' = [k \in 0..size' - 1 |->
                          IF k \in at..end - 1 THEN data[k - at + 1] ELSE _comm_buf[k]]
  BY DEF Splice, at
<1>4. size' \in Nat /\ size <= size' /\ end <= size' /\ (size' = size \/ size' = end)
  BY <1>1, <1>2, <1>3, SMT DEF Max2
<1>6. ASSUME NEW k \in 0..size' - 1
      PROVE  _comm_buf'[k] \in Byte
  <2>1. CASE k \in at..end - 1
    <3>1. k - at + 1 \in 1..Len(data)
      BY <1>1, <1>2, <2>1, SMT
    <3>2. data[k - at + 1] \in Byte
      BY <3>1, ElementOfSeq
    <3>3. _comm_buf'[k] = data[k - at + 1]
      BY <1>3, <2>1
    <3> QED  BY <3>2, <3>3
  <2>2. CASE k \notin at..end - 1
    <3>1. end \in Nat
      BY <1>1, <1>2, SMT
    <3>2. k \in 0..size - 1
      BY <1>2, <1>4, <2>2, <3>1, BesideSlice
    <3> QED  BY <1>3, <2>2, <3>2
  <2> QED  BY <2>1, <2>2
<1>5. ASSUME NEW k \in 0..size' - 1, k \in at..end - 1
      PROVE  _comm_buf'[k] = data[k - at + 1]
  BY <1>3, <1>5
<1>7. _comm_buf' \in [0..size' - 1 -> Byte]
  BY <1>3, <1>6
<1>8. size' = size \/ size' <= off + Len(data)
  BY <1>1, <1>2, <1>4, SMT
<1>9. ASSUME off <= size
      PROVE  /\ off + Len(data) <= size'
             /\ \A k \in 0..off - 1 : _comm_buf'[k] = _comm_buf[k]
             /\ \A k \in 1..Len(data) : _comm_buf'[off + k - 1] = data[k]
  <2>1. at = off
    BY <1>2, <1>9
  <2>2. off + Len(data) <= size'
    BY <1>4, <2>1
  <2>3. ASSUME NEW k \in 0..off - 1 PROVE _comm_buf'[k] = _comm_buf[k]
    <3>1. k \in 0..size' - 1 /\ k \notin at..end - 1
      BY <1>1, <1>4, <1>9, <2>1, SMT
    <3> QED  BY <1>3, <3>1
  <2>4. ASSUME NEW k \in 1..Len(data) PROVE _comm_buf'[off + k - 1] = data[k]
    <3> DEFINE pos == off + k - 1
    <3>1. pos \in 0..size' - 1 /\ pos \in at..end - 1 /\ pos - at + 1 = k
      <4>1. size' \in Nat /\ off \in Nat
        BY <1>4
      <4>2. pos \in 0..size' - 1 /\ pos \in off..off + Len(data) - 1 /\ pos - off + 1 = k
        BY <1>1, <2>2, <4>1, InSlice
      <4> QED  BY <2>1, <4>2
    <3> HIDE DEF pos
    <3>2. _comm_buf'[pos] = data[pos - at + 1]
      BY <1>5, <3>1
    <3> QED  BY <3>1, <3>2 DEF pos
  <2> QED  BY <2>2, <2>3, <2>4
<1> QED  BY <1>4, <1>7, <1>8, <1>9

-----------------------------------------------------------------------------
(* The invariant.                                                           *)

\* What has been sent of the payload is in the buffer, at its place.
Arrived ==
    sending /\ ~lost /\ Len(payload) > ShortPayload =>
        i <= size /\ \A k \in 1..i : _comm_buf[k - 1] = payload[k]

FramesInv ==
    /\ sending => payload \in Payload
    /\ Arrived
    /\ WholeIsPublished
    /\ BufferBounded

LEMMA PayloadShape ==
    ASSUME FramesAssumption, AssemblyTypeOK
    PROVE  /\ payload \in Seq(Byte) /\ Len(payload) \in Nat /\ i \in Nat /\ 0 \in Byte
           /\ payload \in Payload => Len(payload) \in 1..Base * Base - 1
<1>1. << >> \in Seq(Byte)
  BY EmptySeq
<1>2. payload \in Seq(Byte)
  BY <1>1 DEF AssemblyTypeOK, FramesAssumption
<1>3. Len(payload) \in Nat
  BY <1>2, LenProperties
<1>4. i \in Nat
  BY <1>3, SMT DEF AssemblyTypeOK
<1>5. 0 \in Byte
  BY SMT DEF FramesAssumption, Byte
<1> QED  BY <1>2, <1>3, <1>4, <1>5 DEF FramesAssumption

LEMMA FramesInit == AssemblyInit => AssemblyTypeOK /\ FramesInv
<1> SUFFICES ASSUME AssemblyInit PROVE AssemblyTypeOK /\ FramesInv
    OBVIOUS
<1>1. BufferSize \in Nat /\ 0 \in Byte /\ MaxMessages \in Nat
  BY FramesAssumption, SMT DEF FramesAssumption, Byte
<1>2. _comm_buf \in [0..size - 1 -> Byte]
  BY <1>1, Zenon DEF AssemblyInit
<1>3. i \in 0..Len(payload) /\ messages \in 0..MaxMessages
  BY <1>1, EmptySeq, SMT DEF AssemblyInit
<1>4. AssemblyTypeOK
  BY <1>1, <1>2, <1>3, Zenon DEF AssemblyInit, AssemblyTypeOK
<1>5. size <= BufferSize
  BY <1>1, SMT DEF AssemblyInit
<1> QED  BY <1>4, <1>5, Zenon DEF AssemblyInit, FramesInv, Arrived, WholeIsPublished, BufferBounded

LEMMA BeginStep == AssemblyTypeOK /\ FramesInv /\ Begin => AssemblyTypeOK' /\ FramesInv'
<1> SUFFICES ASSUME AssemblyTypeOK, FramesInv, Begin PROVE AssemblyTypeOK' /\ FramesInv'
    OBVIOUS
<1>1. /\ payload' \in Payload /\ sending' = TRUE /\ i' = 0 /\ lost' = FALSE
      /\ _comm_reply' = NoReply /\ _comm_buf' = _comm_buf /\ size' = size
      /\ messages' = messages + 1 /\ messages < MaxMessages
  BY DEF Begin
<1>2. Len(payload') \in Nat
  BY <1>1, FramesAssumption, LenProperties DEF FramesAssumption
<1>3. i' \in 0..Len(payload') /\ messages' \in 0..MaxMessages
  BY <1>1, <1>2, FramesAssumption, SMT DEF AssemblyTypeOK, FramesAssumption
<1>4. AssemblyTypeOK'
  BY <1>1, <1>3, Zenon DEF AssemblyTypeOK, Reply
<1>5. i' <= size' /\ \A k \in 1..i' : _comm_buf'[k - 1] = payload'[k]
  <2>1. size \in Nat
    BY DEF AssemblyTypeOK
  <2>2. i' <= size' /\ i' = 0
    BY <1>1, <2>1, SMT
  <2>3. \A k \in 1..0 : FALSE
    BY SMT
  <2> QED  BY <2>2, <2>3
<1> QED  BY <1>1, <1>4, <1>5, Zenon DEF FramesInv, Arrived, WholeIsPublished, BufferBounded

\* A chunk of either format, delivered or lost.
LEMMA ChunkStep ==
    ASSUME FramesAssumption, AssemblyTypeOK, FramesInv, sending, i < Len(payload),
           NEW n \in {FillChunk, LongChunk},
           (Splice(i, Chunk(n)) /\ UNCHANGED lost) \/ Lose,
           i' = i + Len(Chunk(n)),
           UNCHANGED <<sending, payload, messages>>
    PROVE  AssemblyTypeOK' /\ FramesInv'
<1> DEFINE c == Chunk(n)
<1>1. /\ payload \in Seq(Byte) /\ Len(payload) \in Nat /\ i \in Nat
      /\ size \in Nat /\ _comm_buf \in [0..size - 1 -> Byte]
  BY PayloadShape DEF AssemblyTypeOK
<1>2. /\ c \in Seq(Byte) /\ Len(c) \in 1..n /\ n \in Nat
      /\ i + Len(c) <= Len(payload)
      /\ \A k \in 1..Len(c) : c[k] = payload[i + k]
  <2>1. n \in Nat
    BY SMT DEF FillChunk, LongChunk
  <2> QED  BY <1>1, <2>1, ChunkShape
<1> HIDE DEF c
<1>3. i' = i + Len(c) /\ Len(c) \in Nat /\ i' \in 0..Len(payload') /\ payload' = payload
  BY <1>1, <1>2, SMT DEF c
<1>4. CASE Lose
  <2>1. lost' = TRUE /\ UNCHANGED <<_comm_buf, size, _comm_reply>>
    BY <1>4 DEF Lose, bufferVars
  <2>2. AssemblyTypeOK'
    BY <1>3, <2>1, Zenon DEF AssemblyTypeOK
  <2> QED  BY <2>1, <2>2, Zenon DEF FramesInv, Arrived, WholeIsPublished, BufferBounded
<1>5. CASE Splice(i, c) /\ UNCHANGED lost
  <2>1. /\ size' \in Nat
        /\ _comm_buf' \in [0..size' - 1 -> Byte]
        /\ size' = size \/ size' <= i + Len(c)
        /\ i <= size =>
              /\ i + Len(c) <= size'
              /\ \A k \in 0..i - 1 : _comm_buf'[k] = _comm_buf[k]
              /\ \A k \in 1..Len(c) : _comm_buf'[i + k - 1] = c[k]
    BY <1>1, <1>2, <1>5, SpliceShape
  <2>2. _comm_reply' = _comm_reply
    BY <1>5 DEF Splice
  <2>3. AssemblyTypeOK'
    BY <1>3, <1>5, <2>1, <2>2, Zenon DEF AssemblyTypeOK
  <2>4. payload \in Payload
    BY Zenon DEF FramesInv
  <2>5. BufferBounded'
    <3>1. CASE size' = size
      BY <3>1, Zenon DEF FramesInv, BufferBounded
    <3>2. CASE size' <= i + Len(c)
      <4>1. size' <= Len(payload)
        BY <1>1, <1>2, <1>3, <2>1, <3>2, SMT
      <4> QED  BY <2>4, <4>1, Zenon DEF BufferBounded
    <3> QED  BY <2>1, <3>1, <3>2
  <2>6. ASSUME ~lost, Len(payload) > ShortPayload
        PROVE  i' <= size' /\ \A k \in 1..i' : _comm_buf'[k - 1] = payload[k]
    <3>1. i <= size /\ \A k \in 1..i : _comm_buf[k - 1] = payload[k]
      BY <2>6, Zenon DEF FramesInv, Arrived
    <3>2. ASSUME NEW k \in 1..i' PROVE _comm_buf'[k - 1] = payload[k]
      <4>1. CASE k <= i
        <5>1. k - 1 \in 0..i - 1 /\ k \in 1..i
          BY <1>1, <1>3, <4>1, SMT
        <5> QED  BY <2>1, <3>1, <5>1
      <4>2. CASE k > i
        <5>1. k - i \in 1..Len(c) /\ i + (k - i) - 1 = k - 1 /\ i + (k - i) = k
          BY <1>1, <1>3, <4>2, SMT
        <5>2. _comm_buf'[i + (k - i) - 1] = c[k - i]
          BY <2>1, <3>1, <5>1
        <5>3. c[k - i] = payload[i + (k - i)]
          BY <1>2, <5>1
        <5> QED  BY <5>1, <5>2, <5>3
      <4> QED  BY <1>1, <1>3, <4>1, <4>2, SMT
    <3> QED  BY <1>3, <2>1, <3>1, <3>2
  <2>7. /\ lost' = lost /\ sending' /\ payload' = payload
        /\ Len(payload') > ShortPayload <=> Len(payload) > ShortPayload
    BY <1>5 DEF ShortPayload
  <2>8. Arrived'
    BY <2>6, <2>7, Zenon DEF Arrived
  <2> QED  BY <2>3, <2>4, <2>5, <2>7, <2>8, Zenon DEF FramesInv, WholeIsPublished
<1> QED  BY <1>4, <1>5 DEF c

\* A payload that fits in one frame, delivered or lost.
LEMMA ShortStep == AssemblyTypeOK /\ FramesInv /\ ShortFrame => AssemblyTypeOK' /\ FramesInv'
<1> SUFFICES ASSUME AssemblyTypeOK, FramesInv, ShortFrame PROVE AssemblyTypeOK' /\ FramesInv'
    OBVIOUS
<1>1. /\ sending' = FALSE /\ payload' = payload /\ i' = Len(payload) /\ messages' = messages
      /\ payload \in Payload
  BY Zenon DEF ShortFrame, FramesInv
<1>2. /\ payload \in Seq(Byte) /\ Len(payload) \in 1..Base * Base - 1 /\ Len(payload) \in Nat
      /\ 0 \in Byte /\ Sender \in Byte
  BY <1>1, FramesAssumption, PayloadShape DEF FramesAssumption
<1>3. i' \in 0..Len(payload')
  BY <1>1, <1>2, SMT
<1>4. CASE Lose
  <2>1. lost' = TRUE /\ UNCHANGED <<_comm_buf, size, _comm_reply>>
    BY <1>4 DEF Lose, bufferVars
  <2>2. AssemblyTypeOK'
    BY <1>1, <1>3, <2>1, Zenon DEF AssemblyTypeOK
  <2> QED  BY <1>1, <2>1, <2>2, Zenon DEF FramesInv, Arrived, WholeIsPublished, BufferBounded
<1>5. CASE OnShort(<<Sender, 0>> \o payload) /\ UNCHANGED lost
  <2> DEFINE data == <<Sender, 0>> \o payload
  <2>1. /\ data[1] = Sender /\ Len(data) = Len(payload) + 2
        /\ SubSeq(data, 3, Len(payload) + 2) = payload
    BY <1>2, TwoByteHead
  <2> HIDE DEF data
  <2>2. Len(data) >= 3
    BY <1>2, <2>1, SMT
  <2>3. _comm_reply' = [sender |-> Sender, payload |-> payload] /\ UNCHANGED <<_comm_buf, size>>
    BY <1>5, <2>1, <2>2 DEF OnShort, data
  <2>4. _comm_reply' \in Reply
    BY <1>2, <2>3 DEF Reply
  <2>5. AssemblyTypeOK'
    BY <1>1, <1>3, <1>5, <2>3, <2>4, Zenon DEF AssemblyTypeOK
  <2> QED  BY <1>1, <2>3, <2>5, Zenon DEF FramesInv, Arrived, WholeIsPublished, BufferBounded
<1> QED  BY <1>4, <1>5 DEF ShortFrame

LEMMA FillStep ==
    ASSUME FramesAssumption, AssemblyTypeOK, FramesInv, FillFrame \/ FillLongFrame
    PROVE  AssemblyTypeOK' /\ FramesInv'
<1>1. sending /\ i < Len(payload) /\ UNCHANGED <<sending, payload, messages>>
  BY Zenon DEF FillFrame, FillLongFrame
<1>2. /\ payload \in Payload /\ payload \in Seq(Byte) /\ i \in Nat
      /\ Len(payload) \in Nat /\ Len(payload) \in 1..Base * Base - 1
  BY <1>1, PayloadShape, Zenon DEF FramesInv
<1>3. Chunk(FillChunk) \in Seq(Byte) /\ Chunk(LongChunk) \in Seq(Byte)
  BY <1>1, <1>2, ChunkShape
<1>4. CASE FillFrame
  <2>1. i \in Byte
    BY <1>2, <1>4, FramesAssumption, SMT DEF FillFrame, Byte, FramesAssumption
  <2>2. /\ (<<i>> \o Chunk(FillChunk))[1] = i
        /\ Tail(<<i>> \o Chunk(FillChunk)) = Chunk(FillChunk)
    BY <1>3, <2>1, OneByteHead
  <2>3. (Splice(i, Chunk(FillChunk)) /\ UNCHANGED lost) \/ Lose
    BY <1>4, <2>2 DEF FillFrame, OnFill
  <2>4. i' = i + Len(Chunk(FillChunk))
    BY <1>4 DEF FillFrame
  <2> QED  BY <1>1, <2>3, <2>4, ChunkStep
<1>5. CASE FillLongFrame
  <2>1. i \in 0..Base * Base - 1
    <3>1. Base * Base \in Nat
      BY SMT DEF FramesAssumption
    <3> QED  BY <1>1, <1>2, <3>1, SMT
  <2>2. PICK high, low \in Byte : WordBytes(i) = <<high, low>> /\ Word(high, low) = i
    BY <2>1, WordRoundTrip
  <2>3. /\ (WordBytes(i) \o Chunk(LongChunk))[1] = high
        /\ (WordBytes(i) \o Chunk(LongChunk))[2] = low
        /\ Tail(Tail(WordBytes(i) \o Chunk(LongChunk))) = Chunk(LongChunk)
    BY <1>3, <2>2, TwoByteHead
  <2>4. (Splice(i, Chunk(LongChunk)) /\ UNCHANGED lost) \/ Lose
    BY <1>5, <2>2, <2>3 DEF FillLongFrame, OnFillLong
  <2>5. i' = i + Len(Chunk(LongChunk))
    BY <1>5 DEF FillLongFrame
  <2> QED  BY <1>1, <2>4, <2>5, ChunkStep
<1> QED  BY <1>4, <1>5

\* The prefix that is compared with the payload is the payload.
LEMMA PrefixArrived ==
    ASSUME FramesAssumption, AssemblyTypeOK, FramesInv, sending, ~lost, Len(payload) > ShortPayload,
           i >= Len(payload)
    PROVE  Prefix(Len(payload)) = payload
<1>1. payload \in Seq(Byte) /\ Len(payload) \in Nat /\ i = Len(payload)
  BY PayloadShape, SMT DEF AssemblyTypeOK
<1>2. i <= size /\ \A k \in 1..i : _comm_buf[k - 1] = payload[k]
  BY Zenon DEF FramesInv, Arrived
<1>3. Min2(Len(payload), size) = Len(payload)
  BY <1>1, <1>2 DEF Min2
<1>4. Prefix(Len(payload)) = [k \in 1..Len(payload) |-> payload[k]]
  BY <1>1, <1>2, <1>3 DEF Prefix
<1>5. payload = [k \in 1..Len(payload) |-> payload[k]]
  BY <1>1, SMT
<1> QED  BY <1>4, <1>5

LEMMA ProcessStep ==
    ASSUME FramesAssumption, AssemblyTypeOK, FramesInv, ProcessFrame
    PROVE  AssemblyTypeOK' /\ FramesInv'
<1>1. /\ sending /\ payload \in Payload /\ Len(payload) > ShortPayload /\ i >= Len(payload)
      /\ sending' = FALSE /\ payload' = payload /\ i' = i /\ messages' = messages
  BY Zenon DEF ProcessFrame, FramesInv
<1>2. /\ payload \in Seq(Byte) /\ Len(payload) \in 1..Base * Base - 1
      /\ 0 \in Byte /\ Sender \in Byte
  BY <1>1, PayloadShape DEF FramesAssumption
<1>3. CASE Lose
  <2>1. lost' = TRUE /\ UNCHANGED <<_comm_buf, size, _comm_reply>>
    BY <1>3 DEF Lose, bufferVars
  <2>2. AssemblyTypeOK'
    BY <1>1, <2>1, Zenon DEF AssemblyTypeOK
  <2> QED  BY <1>1, <2>1, <2>2, Zenon DEF FramesInv, Arrived, WholeIsPublished, BufferBounded
<1>4. CASE OnProcess(<<Sender, 0>> \o WordBytes(Len(payload)), payload) /\ UNCHANGED lost
  <2>1. Len(payload) \in 0..Base * Base - 1
    <3>1. Base * Base \in Nat
      BY SMT DEF FramesAssumption
    <3> QED  BY <1>2, <3>1, SMT
  <2>2. PICK high, low \in Byte :
           WordBytes(Len(payload)) = <<high, low>> /\ Word(high, low) = Len(payload)
    BY <2>1, WordRoundTrip
  <2> DEFINE data == <<Sender, 0>> \o <<high, low>>
  <2>3. data[1] = Sender /\ data[3] = high /\ data[4] = low
    BY <1>2, ConcatProperties, SMT
  <2> HIDE DEF data
  <2>4. /\ _comm_reply' = IF Prefix(Len(payload)) = payload
                          THEN [sender |-> Sender, payload |-> Prefix(Len(payload))]
                          ELSE _comm_reply
        /\ UNCHANGED <<_comm_buf, size>>
    BY <1>4, <2>2, <2>3 DEF OnProcess, data
  <2>5. _comm_reply' = [sender |-> Sender, payload |-> payload] \/ _comm_reply' = _comm_reply
    BY <2>4
  <2>6. [sender |-> Sender, payload |-> payload] \in Reply
    BY <1>2 DEF Reply
  <2>7. AssemblyTypeOK'
    BY <1>1, <1>4, <2>4, <2>5, <2>6, Zenon DEF AssemblyTypeOK
  <2>8. ~lost => _comm_reply' = [sender |-> Sender, payload |-> payload]
    BY <1>1, <2>4, PrefixArrived
  <2> QED  BY <1>1, <1>4, <2>4, <2>7, <2>8, Zenon
             DEF FramesInv, Arrived, WholeIsPublished, BufferBounded
<1> QED  BY <1>3, <1>4 DEF ProcessFrame

-----------------------------------------------------------------------------

\* In every state: what has been sent without a loss stands in the buffer, a whole
\* payload has been published, and the buffer is no longer than it has to be.
THEOREM FramesInvariant == AssemblySpec => [](AssemblyTypeOK /\ FramesInv)
<1>1. AssemblyTypeOK /\ FramesInv /\ [AssemblyNext]_assemblyVars => (AssemblyTypeOK /\ FramesInv)'
  <2> SUFFICES ASSUME AssemblyTypeOK, FramesInv, [AssemblyNext]_assemblyVars PROVE AssemblyTypeOK' /\ FramesInv'
      OBVIOUS
  <2>1. CASE AssemblyNext
    BY <2>1, FramesAssumption, BeginStep, ShortStep, FillStep, ProcessStep DEF AssemblyNext, Encode
  <2>2. CASE UNCHANGED assemblyVars
    <3>1. /\ sending' = sending /\ payload' = payload /\ i' = i /\ messages' = messages
          /\ lost' = lost /\ _comm_buf' = _comm_buf /\ size' = size
          /\ _comm_reply' = _comm_reply
      BY <2>2, Zenon DEF assemblyVars, senderVars, bufferVars
    <3> QED  BY <3>1 DEF AssemblyTypeOK, FramesInv, Arrived, WholeIsPublished, BufferBounded
  <2> QED  BY <2>1, <2>2
<1> QED  BY FramesInit, <1>1, PTL DEF AssemblySpec

\* Types of the encoder and of the buffer, for any payloads and any size.
THEOREM FramesTypeCorrect == AssemblySpec => []AssemblyTypeOK
  BY FramesInvariant, PTL

\* encode_comm_frames and _on_tunnel_frame fit together: a payload of any length
\* from 1 to 65535 that loses no frame is published whole, whatever was in the
\* buffer.
THEOREM WholeIsReassembled == AssemblySpec => []WholeIsPublished
<1>1. FramesInv => WholeIsPublished
  BY Zenon DEF FramesInv
<1> QED  BY FramesInvariant, <1>1, PTL

\* _comm_buf never grows beyond its first size or the longest payload.
THEOREM BufferStaysBounded == AssemblySpec => []BufferBounded
<1>1. FramesInv => BufferBounded
  BY Zenon DEF FramesInv
<1> QED  BY FramesInvariant, <1>1, PTL

-----------------------------------------------------------------------------
(* The bus                                                                  *)

LEMMA BusStep == [BusNext]_busVars => [Next]_vars /\ [AssemblyNext]_assemblyVars
<1> SUFFICES ASSUME [BusNext]_busVars PROVE [Next]_vars /\ [AssemblyNext]_assemblyVars
    OBVIOUS
<1>1. CASE TunnelStep
  BY <1>1, Zenon DEF TunnelStep
<1>2. CASE PongStep
  BY <1>2, Zenon DEF PongStep
<1>3. CASE UNCHANGED busVars
  <2>1. vars' = vars /\ assemblyVars' = assemblyVars
    BY <1>3, Zenon DEF busVars
  <2> QED  BY <2>1
<1> QED  BY <1>1, <1>2, <1>3 DEF BusNext

\* A VescCanBus behaves as ping and scan by themselves and as the reassembly by
\* itself, however PINGs, PONGs and payloads interleave in _on_message: the theorems
\* on the two are theorems on the bus.
THEOREM BusParts == BusSpec => Spec /\ AssemblySpec
<1>1. BusInit => Init /\ AssemblyInit
  BY DEF BusInit
<1> QED  BY <1>1, BusStep, PTL DEF BusSpec, Spec, AssemblySpec

\* Type correctness of the bus, for any threads, nodes and payloads.
THEOREM BusTypeCorrect == BusSpec => []BusTypeOK
<1>1. TypeOK /\ AssemblyTypeOK => BusTypeOK
  BY DEF BusTypeOK
<1> QED  BY <1>1, BusParts, PingTypeCorrect, FramesTypeCorrect, PTL
=============================================================================
