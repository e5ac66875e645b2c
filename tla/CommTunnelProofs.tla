--------------------------- MODULE CommTunnelProofs ---------------------------
(***************************************************************************)
(* CommTunnel for any number of threads, controllers, requests and chunks: *)
(* its type, its inductive invariant, and that it implements RequestReply. *)
(***************************************************************************)
EXTENDS CommTunnel, SequenceTheorems, TLAPS

-----------------------------------------------------------------------------
(* Payloads and replies.                                                    *)

LEMMA AnswerInjective ==
    ASSUME NEW a, NEW b, Answer(a) = Answer(b)
    PROVE  a = b
  <1>1. 1 \in 1..Chunks
    BY TunnelAssumption
  <1>2. Answer(a)[1] = a /\ Answer(b)[1] = b
    BY <1>1 DEF Answer
  <1> QED  BY <1>2

LEMMA AnswerType ==
    ASSUME NEW a \in Requests
    PROVE  Answer(a) \in Payload /\ Answer(a) # None /\ Answer(a) # Open
  <1>1. Answer(a) \in Payload
    BY TunnelAssumption DEF Answer, Payload, Requests
  <1> QED  BY <1>1, TunnelAssumption

\* A reply is a run of frames for its request, and only the last one of them
\* ends it.
LEMMA ReplyFrames ==
    ASSUME NEW q \in Requests, NEW frames \in {ShortReply(q), LongReply(q)}
    PROVE  /\ frames \in Seq(Frame)
           /\ Len(frames) \in Nat \ {0}
           /\ \A i \in 1..Len(frames) :
                 /\ frames[i].req = q
                 /\ frames[i].type # "FILL" => i = Len(frames)
  <1> DEFINE fill == [k \in 1..Chunks |-> Frag(q, k)]
  <1>1. CASE frames = ShortReply(q)
    <2>1. frames = <<[type |-> "SHORT", req |-> q, chunk |-> 0]>>
      BY <1>1 DEF ShortReply, Last
    <2>2. [type |-> "SHORT", req |-> q, chunk |-> 0] \in Frame
      BY TunnelAssumption DEF Frame, Requests
    <2> QED  BY <2>1, <2>2
  <1>2. CASE frames = LongReply(q)
    <2>1. fill \in Seq(Frame) /\ Len(fill) = Chunks
      <3>1. \A k \in 1..Chunks : Frag(q, k) \in Frame
        BY TunnelAssumption DEF Frag, Frame, Requests
      <3>2. fill \in [1..Chunks -> Frame]
        BY <3>1
      <3> QED  BY <3>2, TunnelAssumption, SeqDef, LenProperties
    <2>2. Last("PROCESS", q) \in Frame
      BY TunnelAssumption DEF Last, Frame, Requests
    <2>3. frames = Append(fill, Last("PROCESS", q))
      BY <1>2 DEF LongReply
    <2>4. /\ frames \in Seq(Frame)
          /\ Len(frames) = Chunks + 1
          /\ \A i \in 1..Chunks : frames[i] = fill[i]
          /\ frames[Chunks + 1] = Last("PROCESS", q)
      BY <2>1, <2>2, <2>3, AppendProperties, TunnelAssumption
    <2>5. \A i \in 1..Chunks : frames[i].req = q /\ frames[i].type = "FILL"
      <3> SUFFICES ASSUME NEW i \in 1..Chunks
                   PROVE  frames[i].req = q /\ frames[i].type = "FILL"
        OBVIOUS
      <3>1. frames[i] = Frag(q, i)
        BY <2>4
      <3>2. Frag(q, i).req = q /\ Frag(q, i).type = "FILL"
        BY DEF Frag
      <3> QED  BY <3>1, <3>2
    <2>6. frames[Chunks + 1].req = q
      BY <2>4 DEF Last
    <2>7. \A i \in 1..(Chunks + 1) : i \in 1..Chunks \/ i = Chunks + 1
      BY TunnelAssumption
    <2> QED  BY <2>4, <2>5, <2>6, <2>7, TunnelAssumption
  <1> QED  BY <1>1, <1>2

-----------------------------------------------------------------------------
(* Types.                                                                   *)

\* The lock holder's request exists, so the Send that uses it is well typed.
LEMMA HolderType ==
    ASSUME TypeOK, OneInFlight, NEW t \in Thread, pc[t] # "idle"
    PROVE  /\ cur[t] \in Requests
           /\ cur[t] = Len(addr)
           /\ cur[t] \in 1..Len(addr)
           /\ addr[cur[t]] \in Controller
           /\ result[cur[t]] = Open
  <1>1. cur[t] = Len(addr) /\ cur[t] \in Requests /\ result[cur[t]] = Open
    BY DEF OneInFlight
  <1>2. Len(addr) \in Nat /\ \A n \in 1..Len(addr) : addr[n] \in Controller
    BY DEF TypeOK
  <1> QED  BY <1>1, <1>2 DEF Requests

LEMMA RequestBounds == Requests \subseteq 0..MaxRequests
  BY TunnelAssumption DEF Requests

\* What Return does to the variables of the calls keeps their types.
LEMMA ReturnType ==
    ASSUME TypeOK, NEW t \in Thread, NEW value \in Outcome, Return(t, value)
    PROVE  /\ comm_lock' = NoThread
           /\ pc' \in [Thread -> {"idle"} \cup BeforeSend \cup Waiting]
           /\ cur' \in [Thread -> 0..MaxRequests]
           /\ expired' \in [Thread -> BOOLEAN]
           /\ result' \in [Requests -> Outcome]
  <1>1. 0 \in 0..MaxRequests
    BY TunnelAssumption
  <1>2. cur' \in [Thread -> 0..MaxRequests]
    BY <1>1 DEF TypeOK, Return
  <1> QED  BY <1>2 DEF TypeOK, Return, Goto

LEMMA TypeStep ==
    ASSUME TypeOK, OneInFlight, [Next]_vars
    PROVE  TypeOK'
  <1> USE DEF TypeOK
  <1>1. ASSUME NEW t \in Thread, NEW c \in Controller, Acquire(t, c)
        PROVE  TypeOK'
    <2>1. addr' \in Seq(Controller) /\ Len(addr') = Len(addr) + 1
      BY <1>1 DEF Acquire
    <2>2. Len(addr) + 1 \in 0..MaxRequests
      BY <1>1, TunnelAssumption DEF Acquire
    <2>3. Len(addr') <= MaxRequests /\ cur' \in [Thread -> 0..MaxRequests]
      BY <1>1, <2>1, <2>2, TunnelAssumption DEF Acquire
    <2>4. pc' \in [Thread -> {"idle"} \cup BeforeSend \cup Waiting]
      BY <1>1 DEF Acquire, Goto, BeforeSend
    <2> QED  BY <1>1, <2>1, <2>3, <2>4 DEF Acquire, busVars
  <1>2. ASSUME NEW t \in Thread, ResetReply(t) PROVE TypeOK'
    BY <1>2 DEF ResetReply, Goto, BeforeSend, busVars
  <1>3. ASSUME NEW t \in Thread, ResetEvent(t) PROVE TypeOK'
    BY <1>3 DEF ResetEvent, Goto, BeforeSend, busVars
  <1>4. ASSUME NEW t \in Thread, Send(t) PROVE TypeOK'
    <2>1. cur[t] \in Requests /\ addr[cur[t]] \in Controller
      BY <1>4, HolderType DEF Send
    <2>2. Append(inbox[addr[cur[t]]], cur[t]) \in Seq(Requests)
      BY <2>1
    <2>3. inbox' \in [Controller -> Seq(Requests)]
      BY <1>4, <2>2 DEF Send
    <2> QED  BY <1>4, <2>3 DEF Send, Goto, Waiting, hostVars
  <1>5. ASSUME NEW t \in Thread, SendFails(t) PROVE TypeOK'
    BY <1>5, ReturnType DEF SendFails, Outcome, busVars
  <1>6. ASSUME NEW t \in Thread, Expire(t) PROVE TypeOK'
    BY <1>6 DEF Expire, hostVars, busVars
  <1>7. ASSUME NEW t \in Thread, CheckDeadline(t) PROVE TypeOK'
    <2>1. CASE expired[t]
      BY <1>7, <2>1, ReturnType DEF CheckDeadline, Outcome, busVars
    <2>2. CASE ~expired[t]
      BY <1>7, <2>2 DEF CheckDeadline, Goto, Waiting, busVars
    <2> QED  BY <2>1, <2>2
  <1>8. ASSUME NEW t \in Thread, WaitReturns(t) PROVE TypeOK'
    BY <1>8 DEF WaitReturns, Goto, Waiting, hostVars, busVars
  <1>9. ASSUME NEW t \in Thread, ReadReply(t) PROVE TypeOK'
    <2>1. CASE comm_reply # None /\ comm_reply.sender = addr[cur[t]]
      <3>1. comm_reply.payload \in Outcome
        BY <2>1 DEF Reply, Outcome
      <3> QED  BY <1>9, <2>1, <3>1, ReturnType DEF ReadReply, busVars
    <2>2. CASE ~(comm_reply # None /\ comm_reply.sender = addr[cur[t]])
      BY <1>9, <2>2 DEF ReadReply, Goto, Waiting, busVars
    <2> QED  BY <2>1, <2>2
  <1>10. ASSUME NEW t \in Thread, DropReply(t) PROVE TypeOK'
    BY <1>10 DEF DropReply, Goto, Waiting, busVars
  <1>11. ASSUME NEW t \in Thread, DropEvent(t) PROVE TypeOK'
    BY <1>11 DEF DropEvent, Goto, Waiting, busVars
  <1>12. CASE SetEvent
    BY <1>12 DEF SetEvent, callVars, busVars
  <1>13. ASSUME NEW c \in Controller, OnTunnelFrame(c) PROVE TypeOK'
    <2> DEFINE f == Head(outbox[c])
    <2>1. f \in Frame /\ outbox' \in [Controller -> Seq(Frame)]
      BY <1>13 DEF OnTunnelFrame
    <2>2. f.req \in Requests
      BY <2>1 DEF Frame
    <2>3. ASSUME NEW payload \in Payload, Publish(c, payload)
          PROVE  comm_reply' \in Reply \cup {None} /\ rx_publishing' \in BOOLEAN
      BY <2>3 DEF Publish, Reply
    <2>4. Answer(f.req) \in Payload
      BY <2>2, AnswerType
    <2>5. [comm_buf EXCEPT ![f.chunk] = f.req] \in Payload
      BY <2>2, RequestBounds DEF Payload
    <2>6. /\ comm_reply' \in Reply \cup {None}
          /\ rx_publishing' \in BOOLEAN
          /\ comm_buf' \in Payload
      BY <1>13, <2>3, <2>4, <2>5 DEF OnTunnelFrame
    <2> QED  BY <1>13, <2>1, <2>6 DEF OnTunnelFrame, callVars
  <1>14. ASSUME NEW c \in Controller, ControllerReplies(c) PROVE TypeOK'
    <2>1. Head(inbox[c]) \in Requests /\ inbox' \in [Controller -> Seq(Requests)]
      BY <1>14 DEF ControllerReplies
    <2>2. PICK frames \in {ShortReply(Head(inbox[c])), LongReply(Head(inbox[c]))} :
             outbox' = [outbox EXCEPT ![c] = @ \o frames]
      BY <1>14 DEF ControllerReplies
    <2>3. frames \in Seq(Frame)
      BY <2>1, <2>2, ReplyFrames
    <2>4. outbox[c] \o frames \in Seq(Frame)
      BY <2>3, ConcatProperties
    <2>5. outbox' \in [Controller -> Seq(Frame)]
      BY <2>2, <2>4
    <2> QED  BY <1>14, <2>1, <2>5 DEF ControllerReplies, hostVars, callVars
  <1>15. ASSUME NEW c \in Controller, ControllerIgnores(c) PROVE TypeOK'
    BY <1>15 DEF ControllerIgnores, hostVars, callVars
  <1>16. ASSUME NEW c \in Controller, LoseFrame(c) PROVE TypeOK'
    BY <1>16 DEF LoseFrame, hostVars, callVars
  <1>17. CASE UNCHANGED vars
    BY <1>17 DEF vars, hostVars, callVars, busVars
  <1> QED
    BY <1>1, <1>2, <1>3, <1>4, <1>5, <1>6, <1>7, <1>8, <1>9, <1>10, <1>11,
       <1>12, <1>13, <1>14, <1>15, <1>16, <1>17
    DEF Next, CallStep, RxStep, BusStep

-----------------------------------------------------------------------------
(* The lock.                                                                *)

\* A thread inside a call is alone there.
LEMMA Alone ==
    ASSUME OneInFlight, NEW t \in Thread, pc[t] # "idle",
           NEW u \in Thread, u # t
    PROVE  pc[u] = "idle" /\ comm_lock = t
  BY DEF OneInFlight

\* A step that keeps the thread inside its call keeps the lock discipline.
LEMMA InsideStep ==
    ASSUME TypeOK, OneInFlight, NEW t \in Thread, pc[t] # "idle",
           NEW label, label # "idle", Goto(t, label),
           UNCHANGED <<comm_lock, cur, addr, result>>
    PROVE  OneInFlight'
  BY DEF TypeOK, OneInFlight, Goto

\* A step that ends the call frees the lock and closes the request.
LEMMA ReturnStep ==
    ASSUME TypeOK, OneInFlight, NEW t \in Thread, pc[t] # "idle",
           NEW value, value # Open, Return(t, value), UNCHANGED addr
    PROVE  OneInFlight'
  <1>1. \A u \in Thread : pc'[u] = "idle"
    BY Alone DEF TypeOK, Return, Goto
  <1>2. comm_lock' = NoThread
    BY DEF Return
  <1>3. cur[t] = Len(addr) /\ cur[t] \in Requests
    BY HolderType
  <1>4. result'[cur[t]] = value /\ \A q \in Requests : q # cur[t] => result'[q] = result[q]
    BY <1>3 DEF TypeOK, Return
  <1>5. \A q \in 1..Len(addr) : result'[q] # Open
    <2>1. \A q \in 1..Len(addr) : q \in Requests
      BY TunnelAssumption DEF TypeOK, Requests
    <2> QED  BY <1>3, <1>4, <2>1 DEF OneInFlight
  <1>6. \A q \in Requests : q > Len(addr) => result'[q] = Open
    BY <1>3, <1>4 DEF OneInFlight, Requests
  <1> QED  BY <1>1, <1>2, <1>5, <1>6, TunnelAssumption DEF OneInFlight

LEMMA OneInFlightStep ==
    ASSUME TypeOK, OneInFlight, [Next]_vars
    PROVE  OneInFlight'
  <1>1. ASSUME NEW t \in Thread, NEW c \in Controller, Acquire(t, c)
        PROVE  OneInFlight'
    <2>1. addr' = Append(addr, c) /\ Len(addr') = Len(addr) + 1 /\ Len(addr) \in Nat
      BY <1>1 DEF Acquire, TypeOK
    <2>2. /\ \A u \in Thread : pc'[u] = IF u = t THEN "reset_reply" ELSE pc[u]
          /\ \A u \in Thread : cur'[u] = IF u = t THEN Len(addr) + 1 ELSE cur[u]
          /\ comm_lock' = t
          /\ result' = result
      BY <1>1 DEF Acquire, Goto, TypeOK
    <2>3. \A u \in Thread : pc[u] = "idle"
      BY <1>1, TunnelAssumption DEF Acquire, OneInFlight
    <2>4. Len(addr) + 1 \in Requests
      BY <1>1, <2>1, TunnelAssumption DEF Acquire, Requests
    <2>5. \A q \in 1..Len(addr) : result[q] # Open
      BY <1>1 DEF Acquire, OneInFlight
    <2> QED  BY <2>1, <2>2, <2>3, <2>4, <2>5, TunnelAssumption DEF OneInFlight, Requests
  <1>2. ASSUME NEW t \in Thread, ResetReply(t) PROVE OneInFlight'
    BY <1>2, InsideStep DEF ResetReply
  <1>3. ASSUME NEW t \in Thread, ResetEvent(t) PROVE OneInFlight'
    BY <1>3, InsideStep DEF ResetEvent
  <1>4. ASSUME NEW t \in Thread, Send(t) PROVE OneInFlight'
    BY <1>4, InsideStep DEF Send, hostVars
  <1>5. ASSUME NEW t \in Thread, SendFails(t) PROVE OneInFlight'
    BY <1>5, ReturnStep, TunnelAssumption DEF SendFails
  <1>6. ASSUME NEW t \in Thread, Expire(t) PROVE OneInFlight'
    BY <1>6 DEF Expire, OneInFlight, hostVars
  <1>7. ASSUME NEW t \in Thread, CheckDeadline(t) PROVE OneInFlight'
    BY <1>7, InsideStep, ReturnStep, TunnelAssumption DEF CheckDeadline
  <1>8. ASSUME NEW t \in Thread, WaitReturns(t) PROVE OneInFlight'
    BY <1>8, InsideStep DEF WaitReturns, hostVars
  <1>9. ASSUME NEW t \in Thread, ReadReply(t) PROVE OneInFlight'
    <2>1. CASE comm_reply # None /\ comm_reply.sender = addr[cur[t]]
      <3>1. comm_reply.payload # Open
        BY <2>1, TunnelAssumption DEF TypeOK, Reply
      <3> QED  BY <1>9, <2>1, <3>1, ReturnStep DEF ReadReply
    <2>2. CASE ~(comm_reply # None /\ comm_reply.sender = addr[cur[t]])
      BY <1>9, <2>2, InsideStep DEF ReadReply
    <2> QED  BY <2>1, <2>2
  <1>10. ASSUME NEW t \in Thread, DropReply(t) PROVE OneInFlight'
    BY <1>10, InsideStep DEF DropReply
  <1>11. ASSUME NEW t \in Thread, DropEvent(t) PROVE OneInFlight'
    BY <1>11, InsideStep DEF DropEvent
  <1>12. CASE RxStep
    BY <1>12 DEF RxStep, SetEvent, OnTunnelFrame, OneInFlight, callVars
  <1>13. ASSUME NEW c \in Controller, BusStep(c) PROVE OneInFlight'
    BY <1>13 DEF BusStep, ControllerReplies, ControllerIgnores, LoseFrame,
                 OneInFlight, hostVars, callVars
  <1>14. CASE UNCHANGED vars
    BY <1>14 DEF vars, hostVars, callVars, OneInFlight
  <1> QED
    BY <1>1, <1>2, <1>3, <1>4, <1>5, <1>6, <1>7, <1>8, <1>9, <1>10, <1>11,
       <1>12, <1>13, <1>14
    DEF Next, CallStep

-----------------------------------------------------------------------------
(* The order of what is under way.                                          *)

\* What is left of a sequence when elements were taken off its front.
Suffix(rest, seq) ==
    \E n \in Nat :
       /\ Len(seq) = Len(rest) + n
       /\ \A i \in 1..Len(rest) : rest[i] = seq[i + n]

LEMMA SuffixOfItself ==
    ASSUME NEW S, NEW seq \in Seq(S)
    PROVE  Suffix(seq, seq)
  <1>1. Len(seq) = Len(seq) + 0 /\ \A i \in 1..Len(seq) : seq[i] = seq[i + 0]
    OBVIOUS
  <1> QED  BY <1>1 DEF Suffix

LEMMA TailIsSuffix ==
    ASSUME NEW S, NEW seq \in Seq(S), seq # << >>
    PROVE  Suffix(Tail(seq), seq)
  <1>1. /\ Len(seq) = Len(Tail(seq)) + 1
        /\ \A i \in 1..Len(Tail(seq)) : Tail(seq)[i] = seq[i + 1]
    BY HeadTailProperties
  <1> QED  BY <1>1 DEF Suffix

\* Nothing new on the bus.
BusShrinks ==
    \A c \in Controller :
       Suffix(inbox'[c], inbox[c]) /\ Suffix(outbox'[c], outbox[c])

LEMMA BusUntouched ==
    ASSUME TypeOK, UNCHANGED busVars
    PROVE  BusShrinks
  BY SuffixOfItself DEF TypeOK, busVars, BusShrinks

LEMMA OutboxTail ==
    ASSUME TypeOK, NEW c \in Controller, outbox[c] # << >>,
           outbox' = [outbox EXCEPT ![c] = Tail(@)], UNCHANGED inbox
    PROVE  BusShrinks
  <1>1. Suffix(Tail(outbox[c]), outbox[c])
    BY TailIsSuffix DEF TypeOK
  <1> QED  BY <1>1, SuffixOfItself DEF TypeOK, BusShrinks

LEMMA InboxTail ==
    ASSUME TypeOK, NEW c \in Controller, inbox[c] # << >>,
           inbox' = [inbox EXCEPT ![c] = Tail(@)], UNCHANGED outbox
    PROVE  BusShrinks
  <1>1. Suffix(Tail(inbox[c]), inbox[c])
    BY TailIsSuffix DEF TypeOK
  <1> QED  BY <1>1, SuffixOfItself DEF TypeOK, BusShrinks

\* Every step but Send and ControllerReplies only takes things off the bus.
LEMMA ShrinkingSteps ==
    ASSUME TypeOK, [Next]_vars
    PROVE  \/ BusShrinks
           \/ \E t \in Thread : Send(t)
           \/ \E c \in Controller : ControllerReplies(c)
  <1>1. ASSUME NEW t \in Thread, NEW c \in Controller, Acquire(t, c)
        PROVE  BusShrinks
    BY <1>1, BusUntouched DEF Acquire
  <1>2. ASSUME NEW t \in Thread, CallStep(t), ~Send(t) PROVE BusShrinks
    BY <1>2, BusUntouched
       DEF CallStep, ResetReply, ResetEvent, SendFails, CheckDeadline,
           WaitReturns, ReadReply, DropReply, DropEvent
  <1>3. ASSUME NEW t \in Thread, Expire(t) PROVE BusShrinks
    BY <1>3, BusUntouched DEF Expire
  <1>4. CASE SetEvent
    BY <1>4, BusUntouched DEF SetEvent
  <1>5. ASSUME NEW c \in Controller, OnTunnelFrame(c) PROVE BusShrinks
    BY <1>5, OutboxTail DEF OnTunnelFrame
  <1>6. ASSUME NEW c \in Controller, ControllerIgnores(c) PROVE BusShrinks
    BY <1>6, InboxTail DEF ControllerIgnores
  <1>7. ASSUME NEW c \in Controller, LoseFrame(c) PROVE BusShrinks
    BY <1>7, OutboxTail DEF LoseFrame
  <1>8. CASE UNCHANGED vars
    BY <1>8, BusUntouched DEF vars
  <1> QED  BY <1>1, <1>2, <1>3, <1>4, <1>5, <1>6, <1>7, <1>8
           DEF Next, RxStep, BusStep

\* Requests keep their controller, and a request that was sent stays sent.
LEMMA RequestsKept ==
    ASSUME TypeOK, OneInFlight, [Next]_vars
    PROVE  /\ Len(addr) <= Len(addr')
           /\ \A q \in 1..Len(addr) :
                 /\ q \in 1..Len(addr')
                 /\ addr'[q] = addr[q]
                 /\ NotSent(q)' => NotSent(q)
  <1>1. ASSUME NEW t \in Thread, NEW c \in Controller, Acquire(t, c)
        PROVE  /\ Len(addr) <= Len(addr')
               /\ \A q \in 1..Len(addr) :
                     /\ q \in 1..Len(addr')
                     /\ addr'[q] = addr[q]
                     /\ NotSent(q)' => NotSent(q)
    <2>1. /\ addr' = Append(addr, c) /\ Len(addr) \in Nat
          /\ Len(addr') = Len(addr) + 1
          /\ \A q \in 1..Len(addr) : addr'[q] = addr[q]
      BY <1>1 DEF Acquire, TypeOK
    <2>2. \A u \in Thread : u # t => pc'[u] = pc[u] /\ cur'[u] = cur[u]
      BY <1>1 DEF Acquire, Goto, TypeOK
    <2>3. cur'[t] = Len(addr) + 1
      BY <1>1 DEF Acquire, TypeOK
    <2> QED  BY <2>1, <2>2, <2>3 DEF NotSent
  <1>2. ASSUME NEW t \in Thread, CallStep(t)
        PROVE  UNCHANGED addr /\ \A q : NotSent(q)' => NotSent(q)
    <2>1. UNCHANGED addr
      BY <1>2 DEF CallStep, ResetReply, ResetEvent, Send, SendFails,
                  CheckDeadline, WaitReturns, ReadReply, DropReply, DropEvent
    <2>2. \A u \in Thread : u # t => pc'[u] = pc[u] /\ cur'[u] = cur[u]
      BY <1>2 DEF CallStep, ResetReply, ResetEvent, Send, SendFails,
                  CheckDeadline, WaitReturns, ReadReply, DropReply, DropEvent,
                  Return, Goto, TypeOK
    <2>3. pc'[t] \in BeforeSend => pc[t] \in BeforeSend /\ cur'[t] = cur[t]
      BY <1>2 DEF CallStep, ResetReply, ResetEvent, Send, SendFails,
                  CheckDeadline, WaitReturns, ReadReply, DropReply, DropEvent,
                  Return, Goto, TypeOK, BeforeSend
    <2> QED  BY <2>1, <2>2, <2>3 DEF NotSent
  <1>3. ASSUME NEW t \in Thread, Expire(t)
        PROVE  UNCHANGED <<addr, cur, pc>>
    BY <1>3 DEF Expire
  <1>4. CASE RxStep
    BY <1>4 DEF RxStep, SetEvent, OnTunnelFrame, callVars, NotSent, TypeOK
  <1>5. ASSUME NEW c \in Controller, BusStep(c)
        PROVE  UNCHANGED <<addr, cur, pc>>
    BY <1>5 DEF BusStep, ControllerReplies, ControllerIgnores, LoseFrame, callVars
  <1>6. CASE UNCHANGED vars
    BY <1>6 DEF vars, callVars, NotSent, TypeOK
  <1>7. Len(addr) <= Len(addr)
    BY DEF TypeOK
  <1> QED  BY <1>1, <1>2, <1>3, <1>4, <1>5, <1>6, <1>7 DEF Next, NotSent

\* What the proofs of the steps that add to the bus need of Send ...
LEMMA SendShape ==
    ASSUME TypeOK, OneInFlight, NEW t \in Thread, Send(t)
    PROVE  /\ Len(addr) \in 1..Len(addr)
           /\ NotSent(Len(addr))
           /\ \A q : ~NotSent(q)'
           /\ UNCHANGED <<addr, outbox>>
           /\ \A c \in Controller :
                 \/ inbox'[c] = inbox[c]
                 \/ /\ c = addr[Len(addr)]
                    /\ Len(inbox'[c]) = Len(inbox[c]) + 1
                    /\ \A i \in 1..Len(inbox[c]) : inbox'[c][i] = inbox[c][i]
                    /\ inbox'[c][Len(inbox[c]) + 1] = Len(addr)
  <1>1. cur[t] = Len(addr) /\ cur[t] \in 1..Len(addr) /\ cur[t] \in Requests
    BY HolderType DEF Send
  <1>2. NotSent(Len(addr))
    BY <1>1 DEF Send, NotSent, BeforeSend
  <1>3. \A u \in Thread : pc'[u] \notin BeforeSend
    BY Alone DEF Send, Goto, TypeOK, BeforeSend
  <1>4. ASSUME NEW c \in Controller, inbox'[c] # inbox[c]
        PROVE  /\ c = addr[Len(addr)]
               /\ Len(inbox'[c]) = Len(inbox[c]) + 1
               /\ \A i \in 1..Len(inbox[c]) : inbox'[c][i] = inbox[c][i]
               /\ inbox'[c][Len(inbox[c]) + 1] = Len(addr)
    <2>1. inbox'[c] = Append(inbox[c], Len(addr)) /\ c = addr[Len(addr)]
      BY <1>1, <1>4 DEF Send, TypeOK
    <2>2. inbox[c] \in Seq(Requests) /\ Len(addr) \in Requests
      BY <1>1 DEF TypeOK
    <2> QED  BY <2>1, <2>2, AppendProperties
  <1> QED  BY <1>1, <1>2, <1>3, <1>4 DEF Send, NotSent

\* ... and of ControllerReplies.
LEMMA ReplyShape ==
    ASSUME TypeOK, NEW c \in Controller, ControllerReplies(c)
    PROVE  /\ UNCHANGED addr
           /\ \A d \in Controller : d # c =>
                 inbox'[d] = inbox[d] /\ outbox'[d] = outbox[d]
           /\ Len(inbox[c]) \in Nat \ {0}
           /\ Len(inbox'[c]) = Len(inbox[c]) - 1
           /\ \A i \in 1..Len(inbox'[c]) : inbox'[c][i] = inbox[c][i + 1]
           /\ Len(outbox[c]) <= Len(outbox'[c])
           /\ \A i \in 1..Len(outbox'[c]) :
                 \/ i \in 1..Len(outbox[c]) /\ outbox'[c][i] = outbox[c][i]
                 \/ /\ i > Len(outbox[c])
                    /\ outbox'[c][i].req = inbox[c][1]
                    /\ outbox'[c][i].type # "FILL" => i = Len(outbox'[c])
  <1>1. PICK frames \in {ShortReply(Head(inbox[c])), LongReply(Head(inbox[c]))} :
           outbox' = [outbox EXCEPT ![c] = @ \o frames]
    BY DEF ControllerReplies
  <1>2. /\ inbox[c] \in Seq(Requests) /\ inbox[c] # << >>
        /\ inbox' = [inbox EXCEPT ![c] = Tail(@)]
    BY DEF ControllerReplies, TypeOK
  <1>3. /\ Len(inbox[c]) \in Nat \ {0} /\ Head(inbox[c]) = inbox[c][1]
        /\ Head(inbox[c]) \in Requests
        /\ Len(inbox'[c]) = Len(inbox[c]) - 1
        /\ \A i \in 1..Len(inbox'[c]) : inbox'[c][i] = inbox[c][i + 1]
    BY <1>2, HeadTailProperties, EmptySeq DEF TypeOK
  <1>4. /\ frames \in Seq(Frame)
        /\ Len(frames) \in Nat \ {0}
        /\ \A i \in 1..Len(frames) :
              /\ frames[i].req = Head(inbox[c])
              /\ frames[i].type # "FILL" => i = Len(frames)
    BY <1>1, <1>3, ReplyFrames
  <1>5. outbox[c] \in Seq(Frame) /\ outbox'[c] = outbox[c] \o frames
    BY <1>1 DEF TypeOK
  <1>6. /\ Len(outbox'[c]) = Len(outbox[c]) + Len(frames)
        /\ \A i \in 1..Len(outbox'[c]) : outbox'[c][i] =
              IF i <= Len(outbox[c]) THEN outbox[c][i] ELSE frames[i - Len(outbox[c])]
    BY <1>4, <1>5, ConcatProperties
  <1>7. Len(outbox[c]) \in Nat
    BY <1>5, LenProperties
  <1>8. ASSUME NEW i \in 1..Len(outbox'[c])
        PROVE  \/ i \in 1..Len(outbox[c]) /\ outbox'[c][i] = outbox[c][i]
               \/ /\ i > Len(outbox[c])
                  /\ outbox'[c][i].req = inbox[c][1]
                  /\ outbox'[c][i].type # "FILL" => i = Len(outbox'[c])
    <2>1. CASE i <= Len(outbox[c])
      BY <1>6, <1>7, <2>1
    <2>2. CASE i > Len(outbox[c])
      <3>1. i - Len(outbox[c]) \in 1..Len(frames)
        BY <1>4, <1>6, <1>7, <2>2
      <3>2. outbox'[c][i] = frames[i - Len(outbox[c])]
        BY <1>6, <1>7, <2>2
      <3>3. outbox'[c][i].req = inbox[c][1]
        BY <1>3, <1>4, <3>1, <3>2
      <3>4. outbox'[c][i].type # "FILL" => i - Len(outbox[c]) = Len(frames)
        BY <1>4, <3>1, <3>2
      <3> QED  BY <1>4, <1>6, <1>7, <2>2, <3>3, <3>4
    <2> QED  BY <1>7, <2>1, <2>2
  <1>9. UNCHANGED addr /\ \A d \in Controller : d # c =>
           inbox'[d] = inbox[d] /\ outbox'[d] = outbox[d]
    BY <1>1, <1>2 DEF ControllerReplies, callVars, TypeOK
  <1>10. Len(outbox[c]) <= Len(outbox'[c])
    BY <1>4, <1>6, <1>7
  <1> QED  BY <1>3, <1>8, <1>9, <1>10

\* What is behind a stays behind a: a controller answers its requests in their
\* order, and a new request is later than every old one.
LEMMA BehindStep ==
    ASSUME TypeOK, OneInFlight, [Next]_vars, NEW c \in Controller,
           NEW a \in 1..Len(addr), ~NotSent(a), Behind(c, a)
    PROVE  Behind(c, a)'
  <1>1. CASE BusShrinks
    <2>1. PICK m \in Nat : /\ Len(inbox[c]) = Len(inbox'[c]) + m
                           /\ \A i \in 1..Len(inbox'[c]) : inbox'[c][i] = inbox[c][i + m]
      BY <1>1 DEF BusShrinks, Suffix
    <2>2. PICK n \in Nat : /\ Len(outbox[c]) = Len(outbox'[c]) + n
                           /\ \A i \in 1..Len(outbox'[c]) : outbox'[c][i] = outbox[c][i + n]
      BY <1>1 DEF BusShrinks, Suffix
    <2>3. Len(inbox'[c]) \in Nat /\ Len(outbox'[c]) \in Nat
      <3>1. inbox'[c] \in Seq(Requests) /\ outbox'[c] \in Seq(Frame)
        BY TypeStep DEF TypeOK
      <3> QED  BY <3>1
    <2>4. \A i \in 1..Len(inbox'[c]) : a < inbox'[c][i]
      <3>1. \A i \in 1..Len(inbox'[c]) : i + m \in 1..Len(inbox[c])
        BY <2>1, <2>3
      <3> QED  BY <2>1, <3>1 DEF Behind
    <2>5. \A i \in 1..Len(outbox'[c]) : a < outbox'[c][i].req
      <3>1. \A i \in 1..Len(outbox'[c]) : i + n \in 1..Len(outbox[c])
        BY <2>2, <2>3
      <3> QED  BY <2>2, <3>1 DEF Behind
    <2> QED  BY <2>4, <2>5 DEF Behind
  <1>2. ASSUME NEW t \in Thread, Send(t) PROVE Behind(c, a)'
    <2>1. a < Len(addr)
      BY <1>2, SendShape DEF TypeOK
    <2>2. Len(inbox[c]) \in Nat
      BY DEF TypeOK
    <2>3. \A i \in 1..Len(inbox'[c]) : a < inbox'[c][i]
      BY <1>2, <2>1, <2>2, SendShape DEF Behind
    <2> QED  BY <1>2, <2>3, SendShape DEF Behind
  <1>3. ASSUME NEW d \in Controller, ControllerReplies(d) PROVE Behind(c, a)'
    <2>1. CASE c # d
      BY <1>3, <2>1, ReplyShape DEF Behind
    <2>2. CASE c = d
      <3>1. 1 \in 1..Len(inbox[c])
        BY <1>3, <2>2, ReplyShape
      <3>2. \A i \in 1..Len(inbox'[c]) : i + 1 \in 1..Len(inbox[c])
        BY <1>3, <2>2, ReplyShape
      <3>3. \A i \in 1..Len(inbox'[c]) : a < inbox'[c][i]
        BY <1>3, <2>2, <3>2, ReplyShape DEF Behind
      <3>4. \A i \in 1..Len(outbox'[c]) : a < outbox'[c][i].req
        BY <1>3, <2>2, <3>1, ReplyShape DEF Behind
      <3> QED  BY <3>3, <3>4 DEF Behind
    <2> QED  BY <2>1, <2>2
  <1> QED  BY <1>1, <1>2, <1>3, ShrinkingSteps

LEMMA BusInOrderStep ==
    ASSUME TypeOK, OneInFlight, BusInOrder, [Next]_vars
    PROVE  BusInOrder'
  <1>1. \A c \in Controller :
           /\ Len(inbox[c]) \in Nat /\ Len(outbox[c]) \in Nat
           /\ Len(inbox'[c]) \in Nat /\ Len(outbox'[c]) \in Nat
    <2>1. TypeOK'
      BY TypeStep
    <2>2. \A c \in Controller : inbox[c] \in Seq(Requests) /\ outbox[c] \in Seq(Frame)
      BY DEF TypeOK
    <2>3. \A c \in Controller : inbox'[c] \in Seq(Requests) /\ outbox'[c] \in Seq(Frame)
      BY <2>1 DEF TypeOK
    <2> QED  BY <2>2, <2>3
  <1>2. Len(addr) \in Nat /\ \A c, q : AskedOf(c, q) => q \in Nat
    BY DEF TypeOK, AskedOf
  <1>3. \A c, q : AskedOf(c, q) => AskedOf(c, q)' /\ (~NotSent(q) => ~NotSent(q)')
    BY RequestsKept DEF AskedOf
  <1>4. CASE BusShrinks
    <2> SUFFICES ASSUME NEW c \in Controller
                 PROVE  InOrder(c)'
      BY DEF BusInOrder
    <2> InOrder(c)
      BY DEF BusInOrder
    <2>1. PICK m \in Nat : /\ Len(inbox[c]) = Len(inbox'[c]) + m
                           /\ \A i \in 1..Len(inbox'[c]) : inbox'[c][i] = inbox[c][i + m]
      BY <1>4 DEF BusShrinks, Suffix
    <2>2. PICK n \in Nat : /\ Len(outbox[c]) = Len(outbox'[c]) + n
                           /\ \A i \in 1..Len(outbox'[c]) : outbox'[c][i] = outbox[c][i + n]
      BY <1>4 DEF BusShrinks, Suffix
    <2>3. \A i \in 1..Len(inbox'[c]) : i + m \in 1..Len(inbox[c])
      BY <1>1, <2>1
    <2>4. \A i \in 1..Len(outbox'[c]) : i + n \in 1..Len(outbox[c])
      BY <1>1, <2>2
    <2>5. (\A i \in 1..Len(inbox[c]) :
              AskedOf(c, inbox[c][i]) /\ ~NotSent(inbox[c][i]))'
      BY <1>3, <2>1, <2>3 DEF InOrder
    <2>6. (\A i \in 1..Len(outbox[c]) :
              AskedOf(c, outbox[c][i].req) /\ ~NotSent(outbox[c][i].req))'
      BY <1>3, <2>2, <2>4 DEF InOrder
    <2>7. \A i, j \in 1..Len(inbox'[c]) : i < j => inbox'[c][i] < inbox'[c][j]
      <3>1. \A i, j \in 1..Len(inbox'[c]) : i < j => i + m < j + m
        BY <1>1
      <3> QED  BY <2>1, <2>3, <3>1 DEF InOrder
    <2>8. \A i, j \in 1..Len(outbox'[c]) : i < j =>
             /\ outbox'[c][i].req <= outbox'[c][j].req
             /\ outbox'[c][i].type # "FILL" => outbox'[c][i].req < outbox'[c][j].req
      <3>1. \A i, j \in 1..Len(outbox'[c]) : i < j => i + n < j + n
        BY <1>1
      <3> QED  BY <2>2, <2>4, <3>1 DEF InOrder
    <2>9. \A i \in 1..Len(outbox'[c]), j \in 1..Len(inbox'[c]) :
             outbox'[c][i].req < inbox'[c][j]
      BY <2>1, <2>2, <2>3, <2>4 DEF InOrder
    <2> QED  BY <2>5, <2>6, <2>7, <2>8, <2>9 DEF InOrder
  <1>5. ASSUME NEW t \in Thread, Send(t) PROVE BusInOrder'
    <2> SUFFICES ASSUME NEW c \in Controller
                 PROVE  InOrder(c)'
      BY DEF BusInOrder
    <2> InOrder(c)
      BY DEF BusInOrder
    <2>1. /\ Len(addr) \in 1..Len(addr) /\ NotSent(Len(addr))
          /\ \A q : ~NotSent(q)'
          /\ UNCHANGED <<addr, outbox>>
      BY <1>5, SendShape
    <2>2. CASE inbox'[c] = inbox[c]
      BY <1>3, <2>1, <2>2 DEF InOrder
    <2>3. CASE inbox'[c] # inbox[c]
      <3>1. /\ c = addr[Len(addr)]
            /\ Len(inbox'[c]) = Len(inbox[c]) + 1
            /\ \A i \in 1..Len(inbox[c]) : inbox'[c][i] = inbox[c][i]
            /\ inbox'[c][Len(inbox[c]) + 1] = Len(addr)
        BY <1>5, <2>3, SendShape
      <3>2. \A q : AskedOf(c, q) /\ ~NotSent(q) => q < Len(addr)
        BY <1>2, <2>1 DEF AskedOf
      <3>3. \A i \in 1..Len(inbox'[c]) :
               \/ i \in 1..Len(inbox[c]) /\ inbox'[c][i] = inbox[c][i]
               \/ i = Len(inbox[c]) + 1 /\ inbox'[c][i] = Len(addr)
        BY <1>1, <3>1
      <3>4. AskedOf(c, Len(addr))
        BY <2>1, <3>1 DEF AskedOf
      <3>5. (\A i \in 1..Len(inbox[c]) :
                AskedOf(c, inbox[c][i]) /\ ~NotSent(inbox[c][i]))'
        BY <1>3, <2>1, <3>3, <3>4 DEF InOrder
      <3>6. (\A i \in 1..Len(outbox[c]) :
                AskedOf(c, outbox[c][i].req) /\ ~NotSent(outbox[c][i].req))'
        BY <1>3, <2>1 DEF InOrder
      <3>7. \A i, j \in 1..Len(inbox'[c]) : i < j => inbox'[c][i] < inbox'[c][j]
        BY <1>1, <3>2, <3>3 DEF InOrder
      <3>8. \A i \in 1..Len(outbox'[c]), j \in 1..Len(inbox'[c]) :
               outbox'[c][i].req < inbox'[c][j]
        BY <2>1, <3>2, <3>3 DEF InOrder
      <3> QED  BY <2>1, <3>5, <3>6, <3>7, <3>8 DEF InOrder
    <2> QED  BY <2>2, <2>3
  <1>6. ASSUME NEW d \in Controller, ControllerReplies(d) PROVE BusInOrder'
    <2> SUFFICES ASSUME NEW c \in Controller
                 PROVE  InOrder(c)'
      BY DEF BusInOrder
    <2> InOrder(c)
      BY DEF BusInOrder
    <2>1. CASE c # d
      BY <1>3, <1>6, <2>1, ReplyShape DEF InOrder
    <2>2. CASE c = d
      <3>1. /\ Len(inbox[c]) \in Nat \ {0}
            /\ Len(inbox'[c]) = Len(inbox[c]) - 1
            /\ \A i \in 1..Len(inbox'[c]) : inbox'[c][i] = inbox[c][i + 1]
            /\ Len(outbox[c]) <= Len(outbox'[c])
        BY <1>6, <2>2, ReplyShape
      <3>2. \A i \in 1..Len(outbox'[c]) :
               \/ i \in 1..Len(outbox[c]) /\ outbox'[c][i] = outbox[c][i]
               \/ /\ i > Len(outbox[c])
                  /\ outbox'[c][i].req = inbox[c][1]
                  /\ outbox'[c][i].type # "FILL" => i = Len(outbox'[c])
        BY <1>6, <2>2, ReplyShape
      <3>3. \A i \in 1..Len(inbox'[c]) : i + 1 \in 1..Len(inbox[c]) /\ 1 < i + 1
        BY <3>1
      <3>4. 1 \in 1..Len(inbox[c]) /\ inbox[c][1] \in Nat
        BY <1>2, <3>1 DEF InOrder
      <3>5. (\A i \in 1..Len(inbox[c]) :
                AskedOf(c, inbox[c][i]) /\ ~NotSent(inbox[c][i]))'
        BY <1>3, <3>1, <3>3 DEF InOrder
      <3>6. (\A i \in 1..Len(outbox[c]) :
                AskedOf(c, outbox[c][i].req) /\ ~NotSent(outbox[c][i].req))'
        BY <1>3, <3>2, <3>4 DEF InOrder
      <3>7. \A i, j \in 1..Len(inbox'[c]) : i < j => inbox'[c][i] < inbox'[c][j]
        <4>1. \A i, j \in 1..Len(inbox'[c]) : i < j => i + 1 < j + 1
          BY <1>1
        <4> QED  BY <3>1, <3>3, <4>1 DEF InOrder
      <3>8. \A i, j \in 1..Len(outbox'[c]) : i < j =>
               /\ outbox'[c][i].req <= outbox'[c][j].req
               /\ outbox'[c][i].type # "FILL" => outbox'[c][i].req < outbox'[c][j].req
        <4> SUFFICES ASSUME NEW i \in 1..Len(outbox'[c]), NEW j \in 1..Len(outbox'[c]),
                            i < j
                     PROVE  /\ outbox'[c][i].req <= outbox'[c][j].req
                            /\ outbox'[c][i].type # "FILL" =>
                                  outbox'[c][i].req < outbox'[c][j].req
          OBVIOUS
        <4>1. CASE j \in 1..Len(outbox[c])
          BY <1>1, <3>2, <4>1 DEF InOrder
        <4>2. CASE i \in 1..Len(outbox[c]) /\ j > Len(outbox[c])
          <5>1. outbox[c][i].req < inbox[c][1]
            BY <3>4, <4>2 DEF InOrder
          <5>2. outbox[c][i].req \in Nat
            BY <1>2, <4>2 DEF InOrder
          <5> QED  BY <1>1, <3>2, <3>4, <4>2, <5>1, <5>2
        <4>3. CASE i > Len(outbox[c]) /\ j > Len(outbox[c])
          BY <1>1, <3>2, <3>4, <4>3
        <4> QED  BY <1>1, <4>1, <4>2, <4>3
      <3>9. \A i \in 1..Len(outbox'[c]), j \in 1..Len(inbox'[c]) :
               outbox'[c][i].req < inbox'[c][j]
        BY <3>1, <3>2, <3>3, <3>4 DEF InOrder
      <3> QED  BY <3>5, <3>6, <3>7, <3>8, <3>9 DEF InOrder
    <2> QED  BY <2>1, <2>2
  <1> QED  BY <1>4, <1>5, <1>6, ShrinkingSteps

-----------------------------------------------------------------------------
(* What the RX thread publishes.                                            *)

\* A frame that ends a reply publishes the whole answer of its request, and
\* everything behind it is for later requests.  No other step publishes.
LEMMA PublishStep ==
    ASSUME TypeOK, [Next]_vars, comm_reply' # comm_reply, comm_reply' # None
    PROVE  \E c \in Controller, a \in Requests :
              /\ OnTunnelFrame(c)
              /\ outbox[c] # << >>
              /\ Head(outbox[c]).req = a
              /\ Head(outbox[c]).type # "FILL"
              /\ comm_reply' = [sender |-> c, payload |-> Answer(a)]
  <1>1. ASSUME NEW c \in Controller, OnTunnelFrame(c)
        PROVE  /\ outbox[c] # << >>
               /\ Head(outbox[c]).type # "FILL"
               /\ comm_reply' = [sender |-> c, payload |-> Answer(Head(outbox[c]).req)]
    BY <1>1 DEF OnTunnelFrame, Publish, CrcMatches
  <1>2. ASSUME NEW c \in Controller, OnTunnelFrame(c)
        PROVE  Head(outbox[c]).req \in Requests
    <2>1. Head(outbox[c]) \in Frame
      BY <1>2 DEF OnTunnelFrame, TypeOK
    <2> QED  BY <2>1 DEF Frame
  <1>3. ASSUME NEW t \in Thread, CallStep(t) PROVE FALSE
    BY <1>3 DEF CallStep, ResetReply, ResetEvent, Send, SendFails, CheckDeadline,
                WaitReturns, ReadReply, DropReply, DropEvent, hostVars
  <1>4. \E c \in Controller : OnTunnelFrame(c)
    BY <1>3 DEF Next, Acquire, Expire, RxStep, SetEvent, BusStep,
                ControllerReplies, ControllerIgnores, LoseFrame, vars, hostVars
  <1> QED  BY <1>1, <1>2, <1>4

\* The sender and the request of a reply are determined by it.
LEMMA OneReply ==
    ASSUME NEW c, NEW a, NEW d, NEW b,
           [sender |-> c, payload |-> Answer(a)] = [sender |-> d, payload |-> Answer(b)]
    PROVE  c = d /\ a = b
  <1>1. c = d /\ Answer(a) = Answer(b)
    OBVIOUS
  <1> QED  BY <1>1, AnswerInjective

LEMMA NoReplyIsPublished ==
    ASSUME NEW c \in Controller, NEW a \in Requests
    PROVE  [sender |-> c, payload |-> Answer(a)] # None
  BY AnswerType, TunnelAssumption

\* The frame that ends the reply to a leaves only later requests behind it.
LEMMA HeadIsBehind ==
    ASSUME TypeOK, BusInOrder, NEW c \in Controller, OnTunnelFrame(c),
           NEW a, Head(outbox[c]).req = a, Head(outbox[c]).type # "FILL"
    PROVE  AskedOf(c, a) /\ ~NotSent(a) /\ Behind(c, a)'
  <1>1. outbox[c] \in Seq(Frame) /\ outbox[c] # << >>
    BY DEF OnTunnelFrame, TypeOK
  <1>2. /\ Len(outbox[c]) \in Nat /\ 1 \in 1..Len(outbox[c])
        /\ outbox[c][1].req = a /\ outbox[c][1].type # "FILL"
    BY <1>1
  <1>3. InOrder(c)
    BY DEF BusInOrder
  <1>4. AskedOf(c, a) /\ ~NotSent(a)
    BY <1>2, <1>3 DEF InOrder
  <1>5. outbox'[c] = Tail(outbox[c]) /\ inbox' = inbox
    BY DEF OnTunnelFrame, TypeOK
  <1>6. /\ Len(outbox'[c]) = Len(outbox[c]) - 1
        /\ \A i \in 1..Len(outbox'[c]) : outbox'[c][i] = outbox[c][i + 1]
    BY <1>1, <1>5, HeadTailProperties
  <1>7. \A i \in 1..Len(outbox'[c]) : i + 1 \in 1..Len(outbox[c]) /\ 1 < i + 1
    BY <1>2, <1>6
  <1>8. \A i \in 1..Len(outbox'[c]) : a < outbox'[c][i].req
    BY <1>2, <1>3, <1>6, <1>7 DEF InOrder
  <1>9. \A i \in 1..Len(inbox'[c]) : a < inbox'[c][i]
    BY <1>2, <1>3, <1>5 DEF InOrder
  <1> QED  BY <1>4, <1>8, <1>9 DEF Behind

LEMMA PublishedStep ==
    ASSUME TypeOK, OneInFlight, BusInOrder, NoTornReply, PublishedInOrder, [Next]_vars
    PROVE  NoTornReply' /\ PublishedInOrder'
  <1>1. \A c, q : AskedOf(c, q) => AskedOf(c, q)' /\ (~NotSent(q) => ~NotSent(q)')
    BY RequestsKept DEF AskedOf
  <1>2. CASE comm_reply' = comm_reply
    <2>1. NoTornReply'
      BY <1>2, RequestsKept DEF NoTornReply, AnswersOf
    <2>2. ASSUME NEW c \in Controller, NEW a \in Requests, Published(c, a)'
          PROVE  (AskedOf(c, a) /\ ~NotSent(a) /\ Behind(c, a))'
      <3>1. AskedOf(c, a) /\ ~NotSent(a) /\ Behind(c, a)
        BY <1>2, <2>2 DEF Published, PublishedInOrder
      <3>2. Behind(c, a)'
        BY <3>1, BehindStep DEF AskedOf
      <3> QED  BY <1>1, <3>1, <3>2
    <2> QED  BY <2>1, <2>2 DEF PublishedInOrder
  <1>3. CASE comm_reply' = None
    BY <1>3, NoReplyIsPublished DEF NoTornReply, PublishedInOrder, Published
  <1>4. CASE comm_reply' # comm_reply /\ comm_reply' # None
    <2>1. PICK c \in Controller, a \in Requests :
             /\ OnTunnelFrame(c)
             /\ Head(outbox[c]).req = a
             /\ Head(outbox[c]).type # "FILL"
             /\ comm_reply' = [sender |-> c, payload |-> Answer(a)]
      BY <1>4, PublishStep
    <2>2. AskedOf(c, a) /\ ~NotSent(a) /\ Behind(c, a)'
      BY <2>1, HeadIsBehind
    <2>3. AskedOf(c, a)' /\ ~NotSent(a)'
      BY <1>1, <2>2
    <2>4. NoTornReply'
      BY <2>1, <2>3 DEF NoTornReply, AnswersOf, AskedOf
    <2>5. \A d \in Controller, b \in Requests : Published(d, b)' => d = c /\ b = a
      BY <2>1, OneReply DEF Published
    <2> QED  BY <2>2, <2>3, <2>4, <2>5 DEF PublishedInOrder
  <1> QED  BY <1>2, <1>3, <1>4

-----------------------------------------------------------------------------
(* What the calls return.                                                   *)

\* A reply is only held next to older answers once its caller has reset the
\* slot.
LEMMA FreshReplyStep ==
    ASSUME TypeOK, OneInFlight, BusInOrder, PublishedInOrder, FreshReply,
           AnsweredInOrder, [Next]_vars
    PROVE  FreshReply'
  <1> SUFFICES ASSUME NEW t \in Thread, pc'[t] \notin {"idle", "reset_reply"},
                      NEW c \in Controller, NEW a \in Requests, NEW b \in Requests,
                      NEW q \in 1..Len(addr'), Published(c, a)',
                      addr'[q] = c, result'[q] = Answer(b)
               PROVE  b < a
    BY DEF FreshReply
  <1>1. comm_reply' # None
    BY NoReplyIsPublished DEF Published
  <1>2. \A u \in Thread, d \in Controller : ~Acquire(u, d)
    <2> SUFFICES ASSUME NEW u \in Thread, NEW d \in Controller, Acquire(u, d)
                 PROVE  FALSE
      OBVIOUS
    <2>1. pc[t] = "idle"
      BY TunnelAssumption DEF Acquire, OneInFlight
    <2> QED  BY <2>1 DEF Acquire, Goto, TypeOK
  <1>3. \A u \in Thread : ~ResetReply(u)
    BY <1>1 DEF ResetReply
  <1>4. result' = result /\ addr' = addr /\ pc[t] \notin {"idle", "reset_reply"}
    <2>1. ASSUME NEW u \in Thread, CallStep(u)
          PROVE  result' = result /\ addr' = addr /\ pc[t] \notin {"idle", "reset_reply"}
      <3>1. ~(\E value : Return(u, value) /\ pc[u] # "idle")
        <4>1. u # t => pc[t] = pc'[t]
          BY <2>1 DEF CallStep, ResetEvent, ResetReply, Send, SendFails,
                      CheckDeadline, WaitReturns, ReadReply, DropReply, DropEvent,
                      Return, Goto, TypeOK
        <4> QED  BY <4>1, Alone DEF Return, Goto, TypeOK
      <3>2. pc[u] \notin {"idle", "reset_reply"}
        BY <1>3, <2>1 DEF CallStep, ResetEvent, Send, SendFails, CheckDeadline,
                          WaitReturns, ReadReply, DropReply, DropEvent
      <3>3. result' = result /\ addr' = addr
        BY <1>3, <2>1, <3>1, <3>2
           DEF CallStep, ResetEvent, Send, SendFails, CheckDeadline,
               WaitReturns, ReadReply, DropReply, DropEvent
      <3>4. u # t => pc'[t] = pc[t]
        BY <2>1 DEF CallStep, ResetEvent, ResetReply, Send, SendFails,
                    CheckDeadline, WaitReturns, ReadReply, DropReply, DropEvent,
                    Return, Goto, TypeOK
      <3> QED  BY <3>2, <3>3, <3>4
    <2> QED
      BY <1>2, <2>1 DEF Next, Expire, RxStep, SetEvent, OnTunnelFrame, BusStep,
         ControllerReplies, ControllerIgnores, LoseFrame, vars, callVars
  <1>5. CASE comm_reply' = comm_reply
    BY <1>4, <1>5 DEF FreshReply, Published
  <1>6. CASE comm_reply' # comm_reply
    <2>1. PICK d \in Controller, e \in Requests :
             /\ outbox[d] # << >>
             /\ Head(outbox[d]).req = e
             /\ comm_reply' = [sender |-> d, payload |-> Answer(e)]
      BY <1>1, <1>6, PublishStep
    <2>2. d = c /\ e = a
      BY <2>1, OneReply DEF Published
    <2>3. Behind(c, b)
      BY <1>4 DEF AnsweredInOrder
    <2>4. 1 \in 1..Len(outbox[c]) /\ Head(outbox[c]) = outbox[c][1]
      <3>1. outbox[c] \in Seq(Frame) /\ outbox[c] # << >>
        BY <2>1, <2>2 DEF TypeOK
      <3> QED  BY <3>1
    <2> QED  BY <2>1, <2>2, <2>3, <2>4 DEF Behind
  <1> QED  BY <1>5, <1>6

\* How a call ends: with None, or with an answer to the same controller's
\* request that is later than every answer returned before.
NewResult(q) ==
    \/ result'[q] = None
    \/ \E a \in 1..q :
          /\ Published(addr[q], a)
          /\ addr[a] = addr[q]
          /\ \A p \in 1..Len(addr), b \in Requests :
                addr[p] = addr[q] /\ result[p] = Answer(b) => b < a
          /\ result'[q] = Answer(a)

LEMMA ResultStep ==
    ASSUME TypeOK, OneInFlight, NoTornReply, FreshReply, [Next]_vars,
           result' # result
    PROVE  /\ UNCHANGED addr
           /\ Len(addr) \in Requests
           /\ result[Len(addr)] = Open
           /\ NewResult(Len(addr))
           /\ result' = [result EXCEPT ![Len(addr)] = result'[Len(addr)]]
  <1>1. PICK t \in Thread : CallStep(t)
    BY DEF Next, Acquire, Expire, RxStep, SetEvent, OnTunnelFrame, BusStep,
           ControllerReplies, ControllerIgnores, LoseFrame, vars, callVars
  <1>2. UNCHANGED addr /\ pc[t] # "idle"
    BY <1>1 DEF CallStep, ResetReply, ResetEvent, Send, SendFails,
                CheckDeadline, WaitReturns, ReadReply, DropReply, DropEvent
  <1>3. PICK value :
           /\ result' = [result EXCEPT ![cur[t]] = value]
           /\ \/ value = None
              \/ /\ pc[t] = "read" /\ comm_reply # None
                 /\ comm_reply.sender = addr[cur[t]]
                 /\ value = comm_reply.payload
    BY <1>1 DEF CallStep, ResetReply, ResetEvent, Send, SendFails, Return,
                CheckDeadline, WaitReturns, ReadReply, DropReply, DropEvent
  <1>4. /\ cur[t] = Len(addr) /\ Len(addr) \in Requests
        /\ Len(addr) \in 1..Len(addr)
        /\ addr[Len(addr)] \in Controller /\ result[Len(addr)] = Open
    BY <1>2, HolderType
  <1>5. result'[Len(addr)] = value
    BY <1>3, <1>4 DEF TypeOK
  <1>6. CASE value = None
    BY <1>2, <1>3, <1>4, <1>5, <1>6 DEF NewResult
  <1>7. CASE value # None
    <2>1. /\ pc[t] = "read" /\ comm_reply # None
          /\ comm_reply.sender = addr[Len(addr)]
          /\ value = comm_reply.payload
      BY <1>3, <1>4, <1>7
    <2>2. PICK a \in AnswersOf(comm_reply.payload) :
             a \in 1..Len(addr) /\ addr[a] = comm_reply.sender
      BY <2>1 DEF NoTornReply
    <2>3. a \in Requests /\ comm_reply.payload = Answer(a)
      BY <2>2 DEF AnswersOf
    <2>4. Published(addr[Len(addr)], a)
      <3>1. comm_reply \in Reply
        BY <2>1 DEF TypeOK
      <3> QED  BY <2>1, <2>3, <3>1 DEF Published, Reply
    <2>5. \A p \in 1..Len(addr), b \in Requests :
             addr[p] = addr[Len(addr)] /\ result[p] = Answer(b) => b < a
      BY <1>4, <2>1, <2>3, <2>4 DEF FreshReply
    <2> QED  BY <1>2, <1>3, <1>4, <1>5, <2>1, <2>2, <2>3, <2>4, <2>5 DEF NewResult
  <1> QED  BY <1>6, <1>7

\* The four conjuncts about results, while no call returns.
LEMMA AnsweredWhileWaiting ==
    ASSUME TypeOK, TunnelInv, [Next]_vars, result' = result
    PROVE  /\ AnsweredInOrder' /\ ReturnedWhole'
           /\ RepliesInOrder' /\ MisansweredAfterTimeout'
  <1> USE DEF TunnelInv
  <1>1. /\ Len(addr) \in Nat /\ Len(addr) <= Len(addr') /\ Len(addr') \in Nat
        /\ Len(addr') <= MaxRequests
        /\ \A q \in 1..Len(addr) : q \in 1..Len(addr') /\ addr'[q] = addr[q]
    <2>1. TypeOK'
      BY TypeStep
    <2> QED  BY <2>1, RequestsKept DEF TypeOK
  \* A request nobody has issued has no result.
  <1>2. ASSUME NEW q \in 1..Len(addr'), result[q] # Open
        PROVE  q \in 1..Len(addr)
    <2>1. q \in Requests
      BY <1>1, TunnelAssumption DEF Requests
    <2> QED  BY <1>1, <1>2, <2>1 DEF OneInFlight
  <1>3. \A a \in Requests : Answer(a) # Open
    BY AnswerType
  <1>4. AnsweredInOrder'
    <2> SUFFICES ASSUME NEW q \in 1..Len(addr'), NEW a \in Requests,
                        result[q] = Answer(a)
                 PROVE  (a <= q /\ addr[a] = addr[q] /\ Behind(addr[q], a))'
      BY DEF AnsweredInOrder
    <2>1. q \in 1..Len(addr)
      BY <1>2, <1>3
    <2>2. a <= q /\ addr[a] = addr[q] /\ Behind(addr[q], a)
      BY <2>1 DEF AnsweredInOrder
    <2>3. a \in 1..Len(addr) /\ addr[q] \in Controller
      BY <1>1, <2>1, <2>2, TunnelAssumption DEF Requests, TypeOK
    <2>4. a # Len(addr) \/ a = q
      BY <1>1, <2>1, <2>2, <2>3
    <2>5. ~NotSent(a)
      BY <1>3, <2>1, <2>2, <2>3, <2>4 DEF NotSent, OneInFlight, BeforeSend
    <2>6. ASSUME NEW c \in Controller, Behind(c, a) PROVE Behind(c, a)'
      BY <2>3, <2>5, <2>6, BehindStep
    <2>7. addr'[a] = addr[a] /\ addr'[q] = addr[q]
      BY <1>1, <2>1, <2>3
    <2> QED  BY <2>2, <2>3, <2>6, <2>7 DEF Behind
  <1>5. ReturnedWhole'
    BY <1>2 DEF ReturnedWhole, AnswersOf
  <1>6. RepliesInOrder'
    <2> SUFFICES ASSUME NEW q \in 1..Len(addr'), NEW r \in 1..Len(addr'),
                        NEW a \in Requests, NEW b \in Requests,
                        addr'[q] = addr'[r], result[q] = Answer(a), result[r] = Answer(b)
                 PROVE  a <= q /\ addr'[a] = addr'[q] /\ (q < r => a < b)
      BY DEF RepliesInOrder
    <2>1. q \in 1..Len(addr) /\ r \in 1..Len(addr)
      BY <1>2, <1>3
    <2>2. a <= q /\ addr[a] = addr[q] /\ (q < r => a < b)
      BY <1>1, <2>1 DEF RepliesInOrder
    <2>3. a \in 1..Len(addr)
      BY <1>1, <2>1, <2>2, TunnelAssumption DEF Requests
    <2> QED  BY <1>1, <2>1, <2>2, <2>3
  <1>7. MisansweredAfterTimeout'
    <2> SUFFICES ASSUME NEW q \in 1..Len(addr'), NEW a \in 1..q-1,
                        result[q] = Answer(a)
                 PROVE  \E p \in 1..q-1 : addr'[p] = addr'[q] /\ result[p] = None
      BY DEF MisansweredAfterTimeout
    <2>1. a \in Requests
      BY <1>1, TunnelAssumption DEF Requests
    <2>2. q \in 1..Len(addr)
      BY <1>2, <1>3, <2>1
    <2>3. PICK p \in 1..q-1 : addr[p] = addr[q] /\ result[p] = None
      BY <2>2 DEF MisansweredAfterTimeout
    <2>4. p \in 1..Len(addr)
      BY <1>1, <2>2
    <2> QED  BY <1>1, <2>2, <2>3, <2>4
  <1> QED  BY <1>4, <1>5, <1>6, <1>7

\* The same four when a call returns: the last request gets its result, and
\* the result is the latest answer so far.
LEMMA AnsweredOnReturn ==
    ASSUME TypeOK, TunnelInv, [Next]_vars, result' # result
    PROVE  /\ AnsweredInOrder' /\ ReturnedWhole'
           /\ RepliesInOrder' /\ MisansweredAfterTimeout'
  <1> USE DEF TunnelInv
  <1> DEFINE n == Len(addr)
  <1>1. /\ addr' = addr /\ n \in Requests /\ n \in Nat /\ n \in 1..n
        /\ result[n] = Open /\ NewResult(n)
        /\ \A q \in 1..n : q \in Requests
        /\ \A q \in 1..n : addr[q] \in Controller
    <2>1. n \in Nat /\ n <= MaxRequests /\ \A q \in 1..n : addr[q] \in Controller
      BY DEF TypeOK
    <2> QED  BY <2>1, ResultStep, TunnelAssumption DEF Requests
  <1>2. \A q \in Requests : q # n => result'[q] = result[q]
    BY <1>1, ResultStep DEF TypeOK
  <1>3. \A a \in Requests : Answer(a) # None /\ Answer(a) # Open
    BY AnswerType
  \* Where a new answer comes from.
  <1>4. ASSUME NEW a \in Requests, result'[n] = Answer(a)
        PROVE  /\ Published(addr[n], a)
               /\ a <= n /\ addr[a] = addr[n]
               /\ \A p \in 1..n, b \in Requests :
                     addr[p] = addr[n] /\ result[p] = Answer(b) => b < a
    <2>1. PICK e \in 1..n :
             /\ Published(addr[n], e) /\ addr[e] = addr[n]
             /\ \A p \in 1..n, b \in Requests :
                   addr[p] = addr[n] /\ result[p] = Answer(b) => b < e
             /\ result'[n] = Answer(e)
      BY <1>1, <1>3, <1>4 DEF NewResult
    <2>2. a = e
      BY <1>4, <2>1, AnswerInjective
    <2> QED  BY <1>1, <2>1, <2>2
  <1>5. \A c \in Controller, a \in 1..n : ~NotSent(a) /\ Behind(c, a) => Behind(c, a)'
    BY BehindStep
  <1>6. AnsweredInOrder'
    <2> SUFFICES ASSUME NEW q \in 1..n, NEW a \in Requests, result'[q] = Answer(a)
                 PROVE  a <= q /\ addr[a] = addr[q] /\ Behind(addr[q], a)'
      BY <1>1 DEF AnsweredInOrder, Behind
    <2>1. CASE q = n
      <3>1. a \in 1..n /\ ~NotSent(a) /\ Behind(addr[n], a)
        BY <1>1, <1>4, <2>1 DEF PublishedInOrder, AskedOf
      <3> QED  BY <1>1, <1>4, <1>5, <2>1, <3>1
    <2>2. CASE q # n
      <3>1. a <= q /\ addr[a] = addr[q] /\ Behind(addr[q], a)
        BY <1>1, <1>2, <2>2 DEF AnsweredInOrder
      <3>2. a \in 1..n /\ a # n
        BY <1>1, <2>2, <3>1 DEF Requests
      <3>3. ~NotSent(a)
        BY <3>2 DEF NotSent, OneInFlight, BeforeSend
      <3> QED  BY <1>1, <1>5, <3>1, <3>2, <3>3
    <2> QED  BY <2>1, <2>2
  <1>7. ReturnedWhole'
    <2> SUFFICES ASSUME NEW q \in 1..n, result'[q] # None, result'[q] # Open
                 PROVE  AnswersOf(result'[q]) # {}
      BY <1>1 DEF ReturnedWhole, AnswersOf
    <2>1. CASE q = n
      <3>1. PICK a \in 1..n : result'[n] = Answer(a)
        BY <2>1 , <1>1 DEF NewResult
      <3> QED  BY <1>1, <2>1, <3>1 DEF AnswersOf
    <2>2. CASE q # n
      BY <1>1, <1>2, <2>2 DEF ReturnedWhole
    <2> QED  BY <2>1, <2>2
  <1>8. RepliesInOrder'
    <2> SUFFICES ASSUME NEW q \in 1..n, NEW r \in 1..n,
                        NEW a \in Requests, NEW b \in Requests,
                        addr[q] = addr[r], result'[q] = Answer(a), result'[r] = Answer(b)
                 PROVE  a <= q /\ addr[a] = addr[q] /\ (q < r => a < b)
      BY <1>1 DEF RepliesInOrder
    <2>1. a <= q /\ addr[a] = addr[q]
      BY <1>1, <1>6 DEF AnsweredInOrder
    <2>2. ASSUME q < r PROVE a < b
      <3>1. q # n
        BY <1>1, <2>2
      <3>2. result[q] = Answer(a)
        BY <1>1, <1>2, <3>1
      <3>3. CASE r = n
        BY <1>4, <3>2, <3>3
      <3>4. CASE r # n
        <4>1. result[r] = Answer(b)
          BY <1>1, <1>2, <3>4
        <4> QED  BY <2>2, <3>2, <4>1 DEF RepliesInOrder
      <3> QED  BY <3>3, <3>4
    <2> QED  BY <2>1, <2>2
  <1>9. MisansweredAfterTimeout'
    <2> SUFFICES ASSUME NEW q \in 1..n, NEW a \in 1..q-1, result'[q] = Answer(a)
                 PROVE  \E p \in 1..q-1 : addr[p] = addr[q] /\ result'[p] = None
      BY <1>1 DEF MisansweredAfterTimeout
    <2>1. a \in Requests /\ a # n /\ a \in 1..n
      BY <1>1 DEF Requests
    <2>2. \A p \in 1..q-1 : p \in 1..n /\ p # n /\ result'[p] = result[p]
      BY <1>1, <1>2
    <2>3. CASE q # n
      <3>1. result[q] = Answer(a)
        BY <1>1, <1>2, <2>3
      <3> QED  BY <2>2, <3>1 DEF MisansweredAfterTimeout
    <2>4. CASE q = n
      <3>1. addr[a] = addr[n]
        BY <1>4, <2>1, <2>4
      <3>2. result[a] # Open
        BY <1>1, <2>1 DEF OneInFlight
      <3>3. CASE result[a] = None
        BY <2>2, <2>4, <3>1, <3>3
      <3>4. CASE result[a] # None
        <4>1. PICK b \in Requests : result[a] = Answer(b)
          BY <2>1, <3>2, <3>4 DEF ReturnedWhole, AnswersOf
        <4>2. b < a
          BY <1>4, <2>1, <2>4, <3>1, <4>1
        <4>3. b \in 1..a-1
          BY <1>1, <2>1, <4>2 DEF Requests
        <4>4. PICK p \in 1..a-1 : addr[p] = addr[a] /\ result[p] = None
          BY <2>1, <4>1, <4>3 DEF MisansweredAfterTimeout
        <4>5. p \in 1..q-1
          BY <1>1, <2>1, <2>4, <4>4
        <4> QED  BY <2>2, <2>4, <3>1, <4>4, <4>5
      <3> QED  BY <3>3, <3>4
    <2> QED  BY <2>3, <2>4
  <1> QED  BY <1>6, <1>7, <1>8, <1>9

-----------------------------------------------------------------------------
(* The theorems.                                                            *)

LEMMA TunnelInit ==
    ASSUME Init
    PROVE  TypeOK /\ TunnelInv
  <1> USE DEF Init
  <1>1. TypeOK
    <2>1. /\ inbox \in [Controller -> Seq(Requests)]
          /\ outbox \in [Controller -> Seq(Frame)]
          /\ addr \in Seq(Controller)
      OBVIOUS
    <2>2. comm_buf \in Payload
      BY TunnelAssumption DEF Payload
    <2>3. /\ pc \in [Thread -> {"idle"} \cup BeforeSend \cup Waiting]
          /\ cur \in [Thread -> 0..MaxRequests]
          /\ expired \in [Thread -> BOOLEAN]
          /\ result \in [Requests -> Outcome]
      BY TunnelAssumption DEF Outcome
    <2>4. Len(addr) <= MaxRequests
      BY TunnelAssumption
    <2> QED  BY <2>1, <2>2, <2>3, <2>4 DEF TypeOK
  <1>2. OneInFlight
    BY TunnelAssumption DEF OneInFlight
  <1>3. BusInOrder
    BY DEF BusInOrder, InOrder
  <1>4. NoTornReply /\ PublishedInOrder
    BY NoReplyIsPublished DEF NoTornReply, PublishedInOrder, Published
  <1>5. FreshReply /\ AnsweredInOrder /\ ReturnedWhole /\ RepliesInOrder
        /\ MisansweredAfterTimeout
    BY DEF FreshReply, AnsweredInOrder, ReturnedWhole, RepliesInOrder,
           MisansweredAfterTimeout
  <1> QED  BY <1>1, <1>2, <1>3, <1>4, <1>5 DEF TunnelInv

LEMMA TunnelStep ==
    ASSUME TypeOK, TunnelInv, [Next]_vars
    PROVE  TypeOK' /\ TunnelInv'
  <1>1. OneInFlight /\ BusInOrder /\ NoTornReply /\ PublishedInOrder
        /\ FreshReply /\ AnsweredInOrder
    BY DEF TunnelInv
  <1>2. TypeOK' /\ OneInFlight' /\ BusInOrder'
    BY <1>1, TypeStep, OneInFlightStep, BusInOrderStep
  <1>3. NoTornReply' /\ PublishedInOrder'
    BY <1>1, PublishedStep
  <1>4. FreshReply'
    BY <1>1, FreshReplyStep
  <1>5. /\ AnsweredInOrder' /\ ReturnedWhole'
        /\ RepliesInOrder' /\ MisansweredAfterTimeout'
    BY AnsweredWhileWaiting, AnsweredOnReturn
  <1> QED  BY <1>2, <1>3, <1>4, <1>5 DEF TunnelInv

\* The variables of comm_request, of the RX thread and of the bus keep their
\* types, and the inductive invariant holds, in every behaviour of the tunnel.
THEOREM TunnelInvariant == SafetySpec => [](TypeOK /\ TunnelInv)
  <1>1. Init => TypeOK /\ TunnelInv
    BY TunnelInit
  <1>2. TypeOK /\ TunnelInv /\ [Next]_vars => (TypeOK /\ TunnelInv)'
    BY TunnelStep
  <1> QED  BY <1>1, <1>2, PTL DEF SafetySpec

\* Type correctness of the tunnel.
THEOREM TypeCorrect == SafetySpec => []TypeOK
  BY TunnelInvariant, PTL

\* _on_tunnel_frame publishes whole answers under the name of the controller
\* that gave them, however the FILL frames of the controllers interleave.
THEOREM NothingTorn == SafetySpec => []NoTornReply
  <1>1. TunnelInv => NoTornReply
    BY DEF TunnelInv
  <1> QED  BY <1>1, TunnelInvariant, PTL

\* comm_request hands out the answers of a controller in the order of the
\* requests and none of them twice.
THEOREM InOrderReplies == SafetySpec => []RepliesInOrder
  <1>1. TunnelInv => RepliesInOrder
    BY DEF TunnelInv
  <1> QED  BY <1>1, TunnelInvariant, PTL

\* comm_request answers the wrong request only after a request to the same
\* controller came back with None.
THEOREM NoDesyncWithoutTimeout == SafetySpec => []MisansweredAfterTimeout
  <1>1. TunnelInv => MisansweredAfterTimeout
    BY DEF TunnelInv
  <1> QED  BY <1>1, TunnelInvariant, PTL

-----------------------------------------------------------------------------
(* The wake-up.                                                             *)

\* Stronger than NoLostWakeup by what makes it inductive: with one controller
\* addressed nothing is ever discarded, so the event is cleared only before the
\* request goes out.
Awake(t) ==
    /\ pc[t] \notin {"drop_reply", "drop_event"}
    /\ pc[t] # "idle" /\ Published(addr[cur[t]], cur[t]) =>
          comm_event \/ rx_publishing

OneAddressed == \A p, q \in 1..Len(addr) : addr[p] = addr[q]

AwakeInv == OneAddressed => \A t \in Thread : Awake(t)

LEMMA AwakeInit ==
    ASSUME Init
    PROVE  AwakeInv
  BY DEF Init, AwakeInv, Awake

LEMMA AwakeStep ==
    ASSUME TypeOK, TunnelInv, AwakeInv, [Next]_vars
    PROVE  AwakeInv'
  <1>1. OneInFlight /\ NoTornReply /\ PublishedInOrder
    BY DEF TunnelInv
  <1> SUFFICES ASSUME OneAddressed', NEW t \in Thread
               PROVE  Awake(t)'
    BY DEF AwakeInv
  <1>2. OneAddressed
    <2>1. \A p \in 1..Len(addr) : p \in 1..Len(addr') /\ addr'[p] = addr[p]
      BY <1>1, RequestsKept
    <2> QED  BY <2>1 DEF OneAddressed
  <1>3. \A u \in Thread : Awake(u)
    BY <1>2 DEF AwakeInv
  \* Nobody has the reply to a request that is still to be sent.
  <1>4. ASSUME NEW u \in Thread, pc[u] \in BeforeSend
        PROVE  ~Published(addr[cur[u]], cur[u])
    <2>1. cur[u] \in Requests /\ addr[cur[u]] \in Controller
      BY <1>1, <1>4, HolderType DEF BeforeSend
    <2> QED  BY <1>1, <1>4, <2>1 DEF PublishedInOrder, NotSent
  <1>5. ASSUME NEW u \in Thread, NEW c \in Controller, Acquire(u, c)
        PROVE  Awake(t)'
    <2>1. CASE t = u
      <3>1. /\ pc'[t] = "reset_reply" /\ cur'[t] = Len(addr) + 1
            /\ addr' = Append(addr, c) /\ comm_reply' = comm_reply
            /\ Len(addr) + 1 \in Requests
        BY <1>5, <2>1, TunnelAssumption DEF Acquire, Goto, TypeOK, Requests
      <3>2. addr'[cur'[t]] = c /\ ~(Len(addr) + 1 \in 1..Len(addr))
        BY <3>1 DEF TypeOK
      <3>3. ~Published(c, Len(addr) + 1)
        BY <1>1, <3>1, <3>2 DEF PublishedInOrder, AskedOf
      <3> QED  BY <3>1, <3>2, <3>3 DEF Awake, Published
    <2>2. CASE t # u
      <3>1. pc'[t] = "idle"
        BY <1>1, <1>5, <2>2, TunnelAssumption DEF Acquire, Goto, TypeOK, OneInFlight
      <3> QED  BY <3>1 DEF Awake
    <2> QED  BY <2>1, <2>2
  <1>6. ASSUME NEW u \in Thread, CallStep(u)
        PROVE  Awake(t)'
    <2>1. CASE t # u
      <3>1. pc[t] = "idle"
        <4>1. pc[u] # "idle"
          BY <1>6 DEF CallStep, ResetReply, ResetEvent, Send, SendFails,
             CheckDeadline, WaitReturns, ReadReply, DropReply, DropEvent
        <4> QED  BY <1>1, <2>1, <4>1, Alone
      <3>2. pc'[t] = pc[t]
        BY <1>6, <2>1 DEF CallStep, ResetReply, ResetEvent, Send, SendFails,
           CheckDeadline, WaitReturns, ReadReply, DropReply, DropEvent, Return,
           Goto, TypeOK
      <3> QED  BY <3>1, <3>2 DEF Awake
    <2>2. CASE t = u
      <3>1. CASE ResetReply(t)
        <4>1. pc'[t] = "reset_event" /\ comm_reply' = None /\ cur' = cur /\ addr' = addr
          BY <3>1 DEF ResetReply, Goto, TypeOK
        <4>2. cur[t] \in Requests /\ addr[cur[t]] \in Controller
          BY <1>1, <3>1, HolderType DEF ResetReply
        <4> QED  BY <4>1, <4>2, NoReplyIsPublished DEF Awake, Published
      <3>2. CASE ResetEvent(t)
        <4>1. pc'[t] = "send" /\ UNCHANGED <<comm_reply, cur, addr>>
          BY <3>2 DEF ResetEvent, Goto, TypeOK
        <4>2. ~Published(addr[cur[t]], cur[t])
          BY <1>4, <3>2 DEF ResetEvent, BeforeSend
        <4> QED  BY <4>1, <4>2 DEF Awake, Published
      <3>3. CASE Send(t)
        BY <1>3, <3>3 DEF Send, Goto, TypeOK, Awake, Published, hostVars
      <3>4. CASE SendFails(t)
        BY <3>4 DEF SendFails, Return, Goto, TypeOK, Awake
      <3>5. CASE CheckDeadline(t)
        BY <1>3, <3>5 DEF CheckDeadline, Return, Goto, TypeOK, Awake, Published
      <3>6. CASE WaitReturns(t)
        BY <1>3, <3>6 DEF WaitReturns, Goto, TypeOK, Awake, Published, hostVars
      <3>7. CASE ReadReply(t)
        <4>1. comm_reply # None => comm_reply.sender = addr[cur[t]]
          <5>1. cur[t] \in 1..Len(addr)
            BY <1>1, <3>7, HolderType DEF ReadReply
          <5> QED  BY <1>1, <1>2, <5>1 DEF NoTornReply, OneAddressed
        <4> QED
          BY <1>3, <3>7, <4>1 DEF ReadReply, Return, Goto, TypeOK, Awake, Published
      <3>8. ~DropReply(t) /\ ~DropEvent(t)
        BY <1>3 DEF DropReply, DropEvent, Awake
      <3> QED
        BY <1>6, <2>2, <3>1, <3>2, <3>3, <3>4, <3>5, <3>6, <3>7, <3>8 DEF CallStep
    <2> QED  BY <2>1, <2>2
  <1>7. CASE RxStep
    <2>1. UNCHANGED <<pc, cur, addr>>
      BY <1>7 DEF RxStep, SetEvent, OnTunnelFrame, callVars
    <2>2. \/ UNCHANGED <<comm_reply, comm_event, rx_publishing>>
          \/ comm_event' \/ rx_publishing'
      BY <1>7 DEF RxStep, SetEvent, OnTunnelFrame, Publish
    <2> QED  BY <1>3, <2>1, <2>2 DEF Awake, Published
  <1>8. CASE UNCHANGED <<comm_reply, comm_event, rx_publishing, pc, cur, addr>>
    BY <1>3, <1>8 DEF Awake, Published
  <1> QED
    BY <1>5, <1>6, <1>7, <1>8 DEF Next, Expire, BusStep, ControllerReplies,
       ControllerIgnores, LoseFrame, vars, hostVars, callVars

\* As long as one controller is spoken to, a caller never waits with its reply
\* in _comm_reply and the event neither set nor about to be.
THEOREM NoWakeupLost == SafetySpec => []NoLostWakeup
  <1>1. Init => AwakeInv
    BY AwakeInit
  <1>2. TypeOK /\ TunnelInv /\ AwakeInv /\ [Next]_vars => AwakeInv'
    BY AwakeStep
  <1>3. AwakeInv => NoLostWakeup
    BY DEF AwakeInv, OneAddressed, Awake, NoLostWakeup
  <1> QED  BY <1>1, <1>2, <1>3, TunnelInvariant, PTL DEF SafetySpec

-----------------------------------------------------------------------------
(* The contract.                                                            *)

LEMMA ContractInit ==
    ASSUME Init
    PROVE  Contract!Init
  BY DEF Init, Contract!Init, Requests, Contract!Requests

LEMMA ContractStep ==
    ASSUME TypeOK, TunnelInv, [Next]_vars
    PROVE  [Contract!Next]_(Contract!vars)
  <1>1. TypeOK /\ OneInFlight /\ NoTornReply /\ FreshReply
    BY DEF TunnelInv
  \* Taking the lock issues a request.
  <1>2. ASSUME NEW t \in Thread, NEW c \in Controller, Acquire(t, c)
        PROVE  Contract!Next
    <2>1. Contract!Quiet
      BY <1>1, <1>2 DEF Acquire, OneInFlight, Contract!Quiet
    <2>2. Contract!Issue(c)
      BY <1>2, <2>1 DEF Acquire, Contract!Issue
    <2> QED  BY <2>2 DEF Contract!Next
  \* Returning finishes the last one.
  <1>3. CASE result' # result
    <2> DEFINE n == Len(addr)
    <2>1. /\ UNCHANGED addr
          /\ n \in Requests /\ n \in 1..n /\ result[n] = Open
          /\ NewResult(n)
          /\ result' = [result EXCEPT ![n] = result'[n]]
      BY <1>1, <1>3, ResultStep, TunnelAssumption DEF Requests
    <2>2. CASE result'[n] = None
      <3>1. Contract!GiveUp(n)
        BY <2>1, <2>2 DEF Contract!GiveUp
      <3> QED  BY <2>1, <3>1 DEF Contract!Next, Contract!Finish
    <2>3. CASE result'[n] # None
      <3>1. PICK a \in 1..n :
               /\ addr[a] = addr[n]
               /\ \A p \in 1..n, b \in Requests :
                     addr[p] = addr[n] /\ result[p] = Answer(b) => b < a
               /\ result'[n] = Answer(a)
        BY <2>1, <2>3 DEF NewResult
      <3>2. \A b \in 1..n : b \in Requests
        BY <2>1, TunnelAssumption DEF Requests
      <3>3. Contract!Deliverable(a, n)
        BY <3>1, <3>2 DEF Contract!Deliverable
      <3>4. Contract!Deliver(n)
        BY <2>1, <3>1, <3>3 DEF Contract!Deliver
      <3> QED  BY <2>1, <3>4 DEF Contract!Next, Contract!Finish
    <2> QED  BY <2>2, <2>3
  \* Nothing else shows.
  <1>4. CASE ~(\E t \in Thread, c \in Controller : Acquire(t, c))
             /\ result' = result
    <2>1. addr' = addr
      BY <1>4 DEF Next, CallStep, ResetReply, ResetEvent, Send, SendFails, Expire,
         CheckDeadline, WaitReturns, ReadReply, DropReply, DropEvent, RxStep,
         SetEvent, OnTunnelFrame, BusStep, ControllerReplies, ControllerIgnores,
         LoseFrame, vars, callVars
    <2> QED  BY <1>4, <2>1 DEF Contract!vars
  <1> QED  BY <1>2, <1>3, <1>4

\* The tunnel keeps the safety part of the contract of comm_request for any
\* number of threads, controllers and requests.
THEOREM TunnelImplementsContract == SafetySpec => Contract!SafetySpec
  <1>1. Init => Contract!Init
    BY ContractInit
  <1>2. TypeOK /\ TunnelInv /\ [Next]_vars => [Contract!Next]_(Contract!vars)
    BY ContractStep
  <1> QED
    BY <1>1, <1>2, TunnelInvariant, PTL DEF SafetySpec, Contract!SafetySpec
=============================================================================
