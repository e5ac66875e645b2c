--------------------------- MODULE CommClientProofs ---------------------------
(***************************************************************************)
(* CommClient for any number of threads, requests and ticks: its type, its *)
(* inductive invariant with what follows from it, and, with one thread,    *)
(* the bound on the wait and the refinement of RequestReply.               *)
(***************************************************************************)
EXTENDS CommClient, SequenceTheorems, TLAPS

-----------------------------------------------------------------------------
(* Stretches of the byte stream.                                            *)

LEMMA FrontIsByte ==
    ASSUME NEW q \in Requests
    PROVE  /\ FrontOf(q) \in Bytes /\ RearOf(q) \in Bytes
           /\ FrontOf(q).req = q /\ FrontOf(q).part = "front"
           /\ RearOf(q).req = q /\ RearOf(q).part = "rear"
  BY ClientAssumption DEF FrontOf, RearOf, Bytes, Requests

LEMMA StrayIsByte == Stray \in Bytes /\ Stray.req = 0 /\ Stray.part = "stray"
  BY ClientAssumption DEF Stray, Bytes

LEMMA AskedMember ==
    ASSUME NEW bytes, NEW i \in 1..Len(bytes)
    PROVE  /\ bytes[i].req \in Asked(bytes)
           /\ bytes[i].part = "front" => bytes[i].req \in Fronts(bytes)
  BY DEF Asked, Fronts, Elements

LEMMA FrontsAreAsked ==
    ASSUME NEW bytes
    PROVE  Fronts(bytes) \subseteq Asked(bytes)
  BY DEF Asked, Fronts, Elements

\* part is what stands behind the first n bytes of whole, or somewhere in it.
Behind(n, part, whole) ==
    /\ n + Len(part) <= Len(whole)
    /\ \A i \in 1..Len(part) : part[i] = whole[n + i]

Within(part, whole) == \E n \in Nat : Behind(n, part, whole)

LEMMA StretchWithin ==
    ASSUME NEW whole \in Seq(Bytes), NEW part \in Seq(Bytes), Within(part, whole)
    PROVE  /\ Stretch(whole) => Stretch(part)
           /\ Asked(part) \subseteq Asked(whole)
           /\ Fronts(part) \subseteq Fronts(whole)
           /\ Elements(part) \subseteq Elements(whole)
  <1>1. PICK n \in Nat : /\ n + Len(part) <= Len(whole)
                         /\ \A i \in 1..Len(part) : part[i] = whole[n + i]
    BY DEF Within, Behind
  <1>2. \A i \in 1..Len(part) : n + i \in 1..Len(whole) /\ part[i] = whole[n + i]
    BY <1>1
  <1>3. \A i \in 2..Len(part) : /\ n + i \in 2..Len(whole) /\ part[i] = whole[n + i]
                                /\ part[i - 1] = whole[n + i - 1]
    BY <1>1
  <1>4. Elements(part) \subseteq Elements(whole)
    BY <1>2 DEF Elements
  <1>5. ASSUME Stretch(whole) PROVE Stretch(part)
    <2>1. \A i \in 1..Len(part) : part[i].part # "stray" => part[i].req \in Requests
      BY <1>2, <1>5 DEF Stretch
    <2>2. \A i \in 2..Len(part) :
            \/ part[i].part = "front"
            \/ part[i].part = "rear" /\ part[i - 1] = FrontOf(part[i].req)
      BY <1>3, <1>5 DEF Stretch
    <2>3. ASSUME NEW i \in 1..Len(part), NEW j \in 1..Len(part), i < j, part[j].part = "front"
          PROVE  part[i].req # part[j].req
      <3>1. n + i < n + j
        BY <2>3
      <3>2. /\ n + i \in 1..Len(whole) /\ part[i] = whole[n + i]
            /\ n + j \in 1..Len(whole) /\ part[j] = whole[n + j]
        BY <1>2
      <3> QED  BY <3>1, <3>2, <2>3, <1>5 DEF Stretch
    <2> QED  BY <2>1, <2>2, <2>3 DEF Stretch
  <1> QED  BY <1>4, <1>5 DEF Asked, Fronts

LEMMA WithinItself ==
    ASSUME NEW S, NEW seq \in Seq(S)
    PROVE  Within(seq, seq)
  <1>1. 0 \in Nat /\ 0 + Len(seq) <= Len(seq) /\ \A i \in 1..Len(seq) : seq[i] = seq[0 + i]
    OBVIOUS
  <1> QED  BY <1>1 DEF Within, Behind

LEMMA WithinConcat ==
    ASSUME NEW S, NEW front \in Seq(S), NEW rear \in Seq(S)
    PROVE  Within(front, front \o rear) /\ Within(rear, front \o rear)
  <1> DEFINE whole == front \o rear
  <1>1. Len(front) \in Nat /\ Len(rear) \in Nat /\ Len(whole) = Len(front) + Len(rear)
    OBVIOUS
  <1>2. \A i \in 1..Len(front) : front[i] = whole[0 + i]
    OBVIOUS
  <1>3. \A i \in 1..Len(rear) : rear[i] = whole[Len(front) + i]
    OBVIOUS
  <1> HIDE DEF whole
  <1>4. Within(front, whole)
    <2>1. 0 \in Nat /\ 0 + Len(front) <= Len(whole)
      BY <1>1
    <2> QED  BY <2>1, <1>2 DEF Within, Behind
  <1>5. Within(rear, whole)
    <2>1. Len(front) \in Nat /\ Len(front) + Len(rear) <= Len(whole)
      BY <1>1
    <2> QED  BY <2>1, <1>3 DEF Within, Behind
  <1> QED  BY <1>4, <1>5 DEF whole

\* A whole response behind the stretch.
LEMMA StretchGrows ==
    ASSUME NEW s \in Seq(Bytes), NEW q \in Requests, Stretch(s), q \notin Asked(s),
           NEW longer, longer = s \o <<FrontOf(q), RearOf(q)>>
    PROVE  /\ longer \in Seq(Bytes) /\ Stretch(longer)
           /\ Asked(longer) = Asked(s) \cup {q}
           /\ Fronts(longer) = Fronts(s) \cup {q}
  <1>1. /\ longer \in Seq(Bytes)
        /\ Len(longer) = Len(s) + 2
        /\ \A i \in 1..Len(s) : longer[i] = s[i]
        /\ longer[Len(s) + 1] = FrontOf(q)
        /\ longer[Len(s) + 2] = RearOf(q)
    BY FrontIsByte
  <1>2. \A i \in 1..Len(longer) : i \in 1..Len(s) \/ i = Len(s) + 1 \/ i = Len(s) + 2
    BY <1>1
  <1>3. Elements(longer) = Elements(s) \cup {FrontOf(q), RearOf(q)}
    <2>1. \A i \in 1..Len(s) : i \in 1..Len(longer)
      BY <1>1
    <2>2. Len(s) + 1 \in 1..Len(longer) /\ Len(s) + 2 \in 1..Len(longer)
      BY <1>1
    <2>3. Elements(s) \cup {FrontOf(q), RearOf(q)} \subseteq Elements(longer)
      BY <1>1, <2>1, <2>2 DEF Elements
    <2>4. Elements(longer) \subseteq Elements(s) \cup {FrontOf(q), RearOf(q)}
      BY <1>1, <1>2 DEF Elements
    <2> QED  BY <2>3, <2>4
  <1>4. Asked(longer) = Asked(s) \cup {q} /\ Fronts(longer) = Fronts(s) \cup {q}
    <2>1. /\ FrontOf(q).req = q /\ FrontOf(q).part = "front"
          /\ RearOf(q).req = q /\ RearOf(q).part = "rear"
      BY FrontIsByte
    <2>2. Asked(longer) = Asked(s) \cup {q}
      <3>1. \A a : a \in Asked(longer) <=> \E b \in Elements(s) \cup {FrontOf(q), RearOf(q)} : a = b.req
        BY <1>3 DEF Asked
      <3>2. \A a : a \in Asked(s) <=> \E b \in Elements(s) : a = b.req
        BY DEF Asked
      <3> QED  BY <2>1, <3>1, <3>2
    <2>3. Fronts(longer) = Fronts(s) \cup {q}
      <3>1. \A a : a \in Fronts(longer) <=>
                \E b \in Elements(s) \cup {FrontOf(q), RearOf(q)} : a = b.req /\ b.part = "front"
        BY <1>3 DEF Fronts
      <3>2. \A a : a \in Fronts(s) <=> \E b \in Elements(s) : a = b.req /\ b.part = "front"
        BY DEF Fronts
      <3>3. Fronts(s) \subseteq Fronts(longer)
        BY <3>1, <3>2
      <3>4. q \in Fronts(longer)
        BY <2>1, <3>1
      <3>5. \A a \in Fronts(longer) : a = q \/ a \in Fronts(s)
        BY <2>1, <3>1, <3>2
      <3> QED  BY <3>3, <3>4, <3>5
    <2> QED  BY <2>2, <2>3
  <1>5. \A i \in 1..Len(longer) : longer[i].part # "stray" => longer[i].req \in Requests
    BY <1>1, <1>2, FrontIsByte DEF Stretch
  <1>6. ASSUME NEW i \in 2..Len(longer)
        PROVE  \/ longer[i].part = "front"
               \/ longer[i].part = "rear" /\ longer[i - 1] = FrontOf(longer[i].req)
    <2>1. CASE i \in 2..Len(s)
      <3>1. longer[i] = s[i] /\ longer[i - 1] = s[i - 1]
        BY <1>1, <2>1
      <3> QED  BY <3>1, <2>1 DEF Stretch
    <2>2. CASE i = Len(s) + 1
      BY <2>2, <1>1, FrontIsByte
    <2>3. CASE i = Len(s) + 2
      <3>1. i - 1 = Len(s) + 1
        BY <2>3
      <3> QED  BY <3>1, <2>3, <1>1, FrontIsByte
    <2> QED  BY <2>1, <2>2, <2>3, <1>1
  <1>7. ASSUME NEW i \in 1..Len(longer), NEW j \in 1..Len(longer), i < j, longer[j].part = "front"
        PROVE  longer[i].req # longer[j].req
    <2>1. CASE j \in 1..Len(s)
      BY <2>1, <1>1, <1>7 DEF Stretch
    <2>2. CASE j = Len(s) + 1
      <3>1. i \in 1..Len(s) /\ longer[i] = s[i]
        BY <2>2, <1>1, <1>7
      <3> QED  BY <3>1, <2>2, <1>1, AskedMember, FrontIsByte
    <2>3. CASE j = Len(s) + 2
      BY <2>3, <1>1, <1>7, FrontIsByte
    <2> QED  BY <2>1, <2>2, <2>3, <1>2
  <1> QED  BY <1>1, <1>4, <1>5, <1>6, <1>7 DEF Stretch

\* The first byte is the terminator of a rear that nobody has use for.
LEMMA StretchStray ==
    ASSUME NEW s \in Seq(Bytes), Stretch(s), s # << >>, s[1].part = "rear",
           NEW cut \in Seq(Bytes), Len(cut) = Len(s), cut[1] = Stray,
           \A i \in 2..Len(s) : cut[i] = s[i]
    PROVE  /\ Stretch(cut)
           /\ Asked(cut) \subseteq Asked(s) \cup {0}
           /\ Fronts(cut) = Fronts(s)
  <1>1. \A i \in 1..Len(s) : i = 1 \/ i \in 2..Len(s)
    OBVIOUS
  <1>2. Asked(cut) \subseteq Asked(s) \cup {0}
    BY <1>1, StrayIsByte DEF Asked, Elements
  <1>3. Fronts(cut) = Fronts(s)
    BY <1>1, StrayIsByte DEF Fronts, Elements
  <1>4. \A i \in 1..Len(cut) : cut[i].part # "stray" => cut[i].req \in Requests
    BY <1>1, StrayIsByte DEF Stretch
  <1>5. ASSUME NEW i \in 2..Len(cut)
        PROVE  \/ cut[i].part = "front"
               \/ cut[i].part = "rear" /\ cut[i - 1] = FrontOf(cut[i].req)
    <2>1. CASE i = 2
      <3>1. FrontOf(s[2].req).part = "front"
        BY DEF FrontOf
      <3> QED  BY <2>1, <3>1 DEF Stretch
    <2>2. CASE i # 2
      <3>1. cut[i] = s[i] /\ cut[i - 1] = s[i - 1]
        BY <2>2
      <3> QED  BY <3>1 DEF Stretch
    <2> QED  BY <2>1, <2>2
  <1>6. ASSUME NEW i \in 1..Len(cut), NEW j \in 1..Len(cut), i < j, cut[j].part = "front"
        PROVE  cut[i].req # cut[j].req
    <2>1. j \in 2..Len(s) /\ cut[j] = s[j]
      BY <1>6
    <2>2. CASE i = 1
      <3>1. s[j].req \in Requests
        BY <2>1, <1>6 DEF Stretch
      <3> QED  BY <3>1, <2>1, <2>2, StrayIsByte DEF Requests
    <2>3. CASE i # 1
      BY <2>1, <2>3, <1>6 DEF Stretch
    <2> QED  BY <2>2, <2>3
  <1> QED  BY <1>2, <1>3, <1>4, <1>5, <1>6 DEF Stretch

-----------------------------------------------------------------------------
(* The lock, and the locals that go with it.                                *)

LEMMA ReturnFreesLock ==
    ASSUME TypeOK, HolderIsReading, NEW t \in Thread, pc[t] \in Reading,
           NEW value, Return(t, value)
    PROVE  HolderIsReading'
  BY ClientAssumption DEF Return, Leave, Goto, TypeOK, HolderIsReading, Reading

LEMMA HolderStep ==
    ASSUME TypeOK, HolderIsReading, [Next]_vars
    PROVE  HolderIsReading'
  <1> USE ClientAssumption
  <1>1. ASSUME NEW t \in Thread, NEW k \in Kind, Call(t, k) PROVE HolderIsReading'
    BY <1>1 DEF Call, Goto, TypeOK, HolderIsReading
  <1>2. ASSUME NEW t \in Thread, Drain(t) PROVE HolderIsReading'
    BY <1>2 DEF Drain, Leave, Goto, TypeOK, HolderIsReading
  <1>3. ASSUME NEW t \in Thread, Write(t) PROVE HolderIsReading'
    BY <1>3 DEF Write, Goto, TypeOK, HolderIsReading
  <1>4. ASSUME NEW t \in Thread, LockRead(t) PROVE HolderIsReading'
    BY <1>4 DEF LockRead, Goto, TypeOK, HolderIsReading
  <1>5. ASSUME NEW t \in Thread, Poll(t) PROVE HolderIsReading'
    <2>1. CASE TakeBytes(t)
      BY <2>1 DEF TakeBytes, Goto, TypeOK, HolderIsReading
    <2>2. CASE PollNothing(t)
      BY <2>2, ReturnFreesLock DEF PollNothing, Goto, TypeOK, HolderIsReading, Reading
    <2>3. CASE PollClosed(t) \/ Deadline(t)
      BY <2>3, ReturnFreesLock DEF PollClosed, Deadline, Reading
    <2> QED  BY <1>5, <2>1, <2>2, <2>3 DEF Poll
  <1>6. ASSUME NEW t \in Thread, Unframe(t) PROVE HolderIsReading'
    <2>1. CASE UnframeFrame(t) \/ UnframeRear(t)
      BY <2>1 DEF UnframeFrame, UnframeRear, callVars, HolderIsReading
    <2>2. CASE UnframeNothing(t)
      BY <2>2, ReturnFreesLock DEF UnframeNothing, Goto, TypeOK, HolderIsReading, Reading
    <2> QED  BY <1>6, <2>1, <2>2 DEF Unframe
  <1>7. CASE Tick
    BY <1>7 DEF Tick, TypeOK, HolderIsReading
  <1>8. CASE DeviceReplies \/ DeviceIgnores \/ Arrive \/ PeerCloses \/ UNCHANGED vars
    BY <1>8 DEF DeviceReplies, DeviceIgnores, Arrive, PeerCloses, vars, callVars, HolderIsReading
  <1> QED  BY <1>1, <1>2, <1>3, <1>4, <1>5, <1>6, <1>7, <1>8 DEF Next, Step

LEMMA LocalsStep ==
    ASSUME TypeOK, LocalsAreHeld, [Next]_vars
    PROVE  LocalsAreHeld'
  <1>1. ASSUME NEW t \in Thread, NEW k \in Kind, Call(t, k) PROVE LocalsAreHeld'
    BY <1>1 DEF Call, Goto, readVars, TypeOK, LocalsAreHeld, Reading
  <1>2. ASSUME NEW t \in Thread, Drain(t) PROVE LocalsAreHeld'
    BY <1>2 DEF Drain, Leave, Goto, readVars, TypeOK, LocalsAreHeld, Reading
  <1>3. ASSUME NEW t \in Thread, Write(t) PROVE LocalsAreHeld'
    BY <1>3 DEF Write, Goto, readVars, TypeOK, LocalsAreHeld, Reading
  <1>4. ASSUME NEW t \in Thread, LockRead(t) PROVE LocalsAreHeld'
    BY <1>4 DEF LockRead, Goto, TypeOK, LocalsAreHeld, Reading
  <1>5. ASSUME NEW t \in Thread, Poll(t) PROVE LocalsAreHeld'
    BY <1>5 DEF Poll, TakeBytes, PollNothing, PollClosed, Deadline, Return, Leave, Goto,
                readVars, TypeOK, LocalsAreHeld, Reading
  <1>6. ASSUME NEW t \in Thread, Unframe(t) PROVE LocalsAreHeld'
    <2>1. CASE UnframeFrame(t)
      BY <2>1 DEF UnframeFrame, callVars, TypeOK, LocalsAreHeld, Reading
    <2>2. CASE UnframeRear(t)
      BY <2>2 DEF UnframeRear, callVars, TypeOK, LocalsAreHeld, Reading
    <2>3. CASE UnframeNothing(t)
      BY <2>3 DEF UnframeNothing, Return, Leave, Goto, readVars, TypeOK, LocalsAreHeld, Reading
    <2> QED  BY <1>6, <2>1, <2>2, <2>3 DEF Unframe
  <1>7. CASE Tick
    BY <1>7 DEF Tick, TypeOK, LocalsAreHeld, Reading
  <1>8. CASE DeviceReplies \/ DeviceIgnores \/ Arrive \/ PeerCloses \/ UNCHANGED vars
    BY <1>8 DEF DeviceReplies, DeviceIgnores, Arrive, PeerCloses, vars, callVars, readVars, LocalsAreHeld
  <1> QED  BY <1>1, <1>2, <1>3, <1>4, <1>5, <1>6, <1>7, <1>8 DEF Next, Step

-----------------------------------------------------------------------------
(* What a step does to the stream.                                          *)

LEMMA StreamType ==
    ASSUME TypeOK
    PROVE  Held \in Seq(Bytes) /\ Stream \in Seq(Bytes)
  <1>1. Held \in Seq(Bytes)
    BY ClientAssumption DEF TypeOK, Held
  <1> QED  BY <1>1 DEF TypeOK, Stream

LEMMA NextStreamType ==
    ASSUME TypeOK'
    PROVE  Stream' \in Seq(Bytes)
  <1>1. Held' \in Seq(Bytes)
    BY ClientAssumption DEF TypeOK, Held
  <1> QED  BY <1>1 DEF TypeOK, Stream

\* The thread inside its read holds the lock: what is held is its payload.
LEMMA HeldByReader ==
    ASSUME HolderIsReading, NEW t \in Thread, pc[t] \in Reading
    PROVE  read_lock = t /\ Held = payload[t]
  BY ClientAssumption DEF HolderIsReading, Reading, Held

LEMMA PartsOfStream ==
    ASSUME TypeOK
    PROVE  Within(Held, Stream) /\ Within(rx, Stream) /\ Within(wire, Stream)
  <1>1. Held \in Seq(Bytes) /\ Held \o rx \in Seq(Bytes) /\ rx \in Seq(Bytes) /\ wire \in Seq(Bytes)
    BY StreamType DEF TypeOK
  <1>2. Len(Stream) = Len(Held) + Len(rx) + Len(wire)
    BY <1>1 DEF Stream
  <1>3. \A i \in 1..Len(Held) : Held[i] = Stream[0 + i]
    BY <1>1 DEF Stream
  <1>4. \A i \in 1..Len(rx) : rx[i] = Stream[Len(Held) + i]
    BY <1>1 DEF Stream
  <1>5. Within(wire, Stream)
    BY <1>1, WithinConcat DEF Stream
  <1>6. 0 \in Nat /\ Len(Held) \in Nat /\ 0 + Len(Held) <= Len(Stream) /\ Len(Held) + Len(rx) <= Len(Stream)
    BY <1>1, <1>2
  <1> QED  BY <1>3, <1>4, <1>5, <1>6 DEF Within, Behind

\* The frame that UnframeFrame takes out starts with a front.
LEMMA FrameTaken ==
    ASSUME TypeOK, HolderIsReading, StreamInOrder, NEW t \in Thread, UnframeFrame(t)
    PROVE  \E skip \in {0, 1} :
              /\ Len(payload[t]) >= skip + 2
              /\ payload[t][skip + 1].part = "front"
              /\ payload[t][skip + 1].req \in Requests
              /\ payload[t][skip + 1].req \in Fronts(Stream)
              /\ match' = [match EXCEPT ![t] = Matched(t, payload[t][skip + 1].req)]
              /\ payload' = [payload EXCEPT ![t] = SubSeq(@, skip + 3, Len(@))]
  <1>1. /\ payload[t] \in Seq(Bytes)
        /\ pc[t] \in Reading
    BY DEF TypeOK, UnframeFrame, Reading
  <1>2. Within(payload[t], Stream) /\ Stream \in Seq(Bytes)
    BY <1>1, HeldByReader, PartsOfStream, StreamType
  <1>3. Stretch(payload[t]) /\ Fronts(payload[t]) \subseteq Fronts(Stream)
    BY <1>1, <1>2, StretchWithin DEF StreamInOrder
  <1>4. PICK skip \in {0, 1} :
          /\ StartsWith(payload[t], IF skip = 0 THEN "front" ELSE "rear")
          /\ Len(payload[t]) >= skip + 2
          /\ match' = [match EXCEPT ![t] = Matched(t, payload[t][skip + 1].req)]
          /\ payload' = [payload EXCEPT ![t] = SubSeq(@, skip + 3, Len(@))]
    BY DEF UnframeFrame
  <1>5. skip + 1 \in 1..Len(payload[t])
    BY <1>1, <1>4
  <1>6. payload[t][skip + 1].part = "front"
    <2>1. CASE skip = 0
      BY <2>1, <1>4 DEF StartsWith
    <2>2. CASE skip = 1
      <3>1. payload[t][1].part = "rear" /\ 2 \in 2..Len(payload[t])
        BY <2>2, <1>1, <1>4 DEF StartsWith
      <3>2. FrontOf(payload[t][2].req).part = "front"
        BY DEF FrontOf
      <3>3. 2 - 1 = 1
        OBVIOUS
      <3> QED  BY <2>2, <3>1, <3>2, <3>3, <1>3 DEF Stretch
    <2> QED  BY <2>1, <2>2
  <1>7. payload[t][skip + 1].req \in Requests
    BY <1>3, <1>5, <1>6 DEF Stretch
  <1>8. payload[t][skip + 1].req \in Fronts(Stream)
    BY <1>3, <1>5, <1>6, AskedMember
  <1> QED  BY <1>4, <1>6, <1>7, <1>8

\* What arrives is asked for.
LEMMA ArrivingByte ==
    ASSUME TypeOK, StreamInOrder, Arrive
    PROVE  /\ Head(wire) \in Bytes /\ Head(wire).req \in Requests /\ Head(wire).part # "stray"
           /\ Head(wire).req \in Asked(Stream)
  <1>1. wire \in Seq(Bytes) /\ wire # << >> /\ Head(wire) = wire[1] /\ 1 \in 1..Len(wire)
    BY DEF Arrive, TypeOK
  <1>2. wire[1].part # "stray"
    BY <1>1 DEF StreamInOrder, Elements
  <1>3. Stretch(wire) /\ Asked(wire) \subseteq Asked(Stream)
    BY <1>1, PartsOfStream, StreamType, StretchWithin DEF StreamInOrder
  <1>4. wire[1].req \in Requests
    BY <1>1, <1>2, <1>3 DEF Stretch
  <1>5. wire[1] \in Bytes
    BY <1>1
  <1> QED  BY <1>1, <1>2, <1>3, <1>4, <1>5, AskedMember

LEMMA LeaveType ==
    ASSUME TypeOK, OwnRequest, NEW t \in Thread, pc[t] # "idle",
           NEW value \in Outcome, Leave(t, value)
    PROVE  /\ pc' \in [Thread -> {"idle", "drain", "write", "lock", "poll", "unframe", "sleep"}]
           /\ payload' \in [Thread -> Seq(Bytes)]
           /\ match' \in [Thread -> Requests \cup {None}]
           /\ left' \in [Thread -> 0..MaxWait]
           /\ silent' \in [Thread -> (0..QuietTime + 1) \cup {None}]
           /\ waited' \in [Thread -> 0..Longest]
           /\ result' \in [Requests -> Outcome]
  <1>1. "idle" \in {"idle", "drain", "write", "lock", "poll", "unframe", "sleep"}
    OBVIOUS
  <1>2. << >> \in Seq(Bytes)
    OBVIOUS
  <1>3. 0 \in 0..MaxWait /\ 0 \in 0..Longest
    BY ClientAssumption DEF Longest
  <1> QED  BY <1>1, <1>2, <1>3 DEF Leave, Goto, TypeOK

LEMMA TypeStep ==
    ASSUME TypeOK, HolderIsReading, OwnRequest, StreamInOrder, [Next]_vars
    PROVE  TypeOK'
  <1> USE ClientAssumption
  <1> USE DEF linkVars, readVars, callVars, history
  <1>0. /\ MaxWait \in 0..MaxWait /\ 0 \in (0..QuietTime + 1) \cup {None}
        /\ \A t \in Thread : match[t] \in Outcome
        /\ Raised \in Outcome
        /\ << >> \in Seq(Bytes) /\ << >> \in Seq(Requests)
    BY DEF TypeOK, Outcome
  <1>1. ASSUME NEW t \in Thread, NEW k \in Kind, Call(t, k) PROVE TypeOK'
    <2>1. /\ kind' \in Seq(Kind) /\ Len(kind') = Len(kind) + 1 /\ Len(kind') <= MaxRequests
          /\ Len(kind) + 1 \in 0..MaxRequests
      BY <1>1 DEF Call, TypeOK
    <2> QED  BY <2>1, <1>1 DEF Call, Goto, TypeOK
  <1>2. ASSUME NEW t \in Thread, Drain(t) PROVE TypeOK'
    <2>1. pc[t] # "idle" /\ UNCHANGED <<read_lock, link_up, wire, inbox, cur, kind, arrived>>
      BY <1>2 DEF Drain
    <2>2. CASE Leave(t, Raised) /\ UNCHANGED <<rx, before>>
      BY <1>0, <2>1, <2>2, LeaveType DEF TypeOK
    <2>3. CASE /\ rx' = << >> /\ before' = [before EXCEPT ![cur[t]] = arrived]
               /\ Goto(t, "write") /\ UNCHANGED <<waited, result, readVars>>
      <3>1. before' \in [Requests -> SUBSET Requests]
        BY <2>3 DEF TypeOK
      <3>2. pc' \in [Thread -> {"idle", "drain", "write", "lock", "poll", "unframe", "sleep"}]
        BY <2>3 DEF Goto, TypeOK
      <3> QED  BY <1>0, <2>1, <2>3, <3>1, <3>2 DEF TypeOK
    <2> QED  BY <1>2, <2>2, <2>3 DEF Drain
  <1>3. ASSUME NEW t \in Thread, Write(t) PROVE TypeOK'
    <2>1. cur[t] \in Requests
      BY <1>3 DEF Write, OwnRequest, TypeOK, Requests
    <2>2. inbox' \in Seq(Requests)
      <3>1. inbox \in Seq(Requests) /\ Append(inbox, cur[t]) \in Seq(Requests)
        BY <2>1 DEF TypeOK
      <3> QED  BY <1>3, <3>1 DEF Write
    <2> QED  BY <1>3, <2>2 DEF Write, Goto, TypeOK
  <1>4. ASSUME NEW t \in Thread, LockRead(t) PROVE TypeOK'
    BY <1>0, <1>4 DEF LockRead, Goto, TypeOK
  <1>5. ASSUME NEW t \in Thread, NEW value \in Outcome, pc[t] # "idle", Return(t, value),
               UNCHANGED <<linkVars, cur, kind, history>>
        PROVE  TypeOK'
    BY <1>5, LeaveType DEF Return, TypeOK
  <1>6. ASSUME NEW t \in Thread, Poll(t) PROVE TypeOK'
    <2>1. CASE TakeBytes(t)
      BY <1>0, <2>1 DEF TakeBytes, Goto, TypeOK
    <2>2. CASE PollNothing(t)
      BY <1>0, <1>5, <2>2 DEF PollNothing, Goto, TypeOK
    <2>3. CASE PollClosed(t) \/ Deadline(t)
      BY <1>0, <1>5, <2>3 DEF PollClosed, Deadline
    <2> QED  BY <1>6, <2>1, <2>2, <2>3 DEF Poll
  <1>7. ASSUME NEW t \in Thread, Unframe(t) PROVE TypeOK'
    <2>1. CASE UnframeFrame(t)
      <3>1. PICK skip \in {0, 1} :
              /\ payload[t][skip + 1].req \in Requests
              /\ match' = [match EXCEPT ![t] = Matched(t, payload[t][skip + 1].req)]
              /\ payload' = [payload EXCEPT ![t] = SubSeq(@, skip + 3, Len(@))]
        BY <2>1, FrameTaken
      <3>2. Matched(t, payload[t][skip + 1].req) \in Requests \cup {None}
        BY <3>1 DEF Matched, TypeOK
      <3>3. SubSeq(payload[t], skip + 3, Len(payload[t])) \in Seq(Bytes)
        BY DEF TypeOK
      <3> QED  BY <2>1, <3>1, <3>2, <3>3 DEF UnframeFrame, TypeOK
    <2>2. CASE UnframeRear(t)
      <3>1. <<Stray>> \o Tail(payload[t]) \in Seq(Bytes)
        BY <2>2, StrayIsByte DEF UnframeRear, StartsWith, TypeOK
      <3> QED  BY <2>2, <3>1 DEF UnframeRear, TypeOK
    <2>3. CASE UnframeNothing(t)
      BY <1>0, <1>5, <2>3 DEF UnframeNothing, Goto, TypeOK
    <2> QED  BY <1>7, <2>1, <2>2, <2>3 DEF Unframe
  <1>8. CASE Tick
    <2>1. pc' \in [Thread -> {"idle", "drain", "write", "lock", "poll", "unframe", "sleep"}]
      BY <1>8 DEF Tick, TypeOK
    <2>2. left' \in [Thread -> 0..MaxWait]
      <3>1. \A n \in 0..MaxWait : Sooner(n) \in 0..MaxWait
        BY ClientAssumption DEF Sooner
      <3>2. /\ left' = [t \in Thread |-> IF pc[t] = "sleep" THEN Sooner(left[t]) ELSE left[t]]
            /\ left \in [Thread -> 0..MaxWait]
        BY <1>8 DEF Tick, TypeOK
      <3> QED  BY <3>1, <3>2
    <2>3. silent' \in [Thread -> (0..QuietTime + 1) \cup {None}]
      <3>1. \A n \in 0..QuietTime + 1 : Later(n, QuietTime + 1) \in 0..QuietTime + 1
        BY DEF Later
      <3> QED  BY <1>8, <3>1 DEF Tick, TypeOK
    <2>4. waited' \in [Thread -> 0..Longest]
      <3>1. \A n \in 0..Longest : Later(n, Longest) \in 0..Longest /\ 0 \in 0..Longest
        BY DEF Later, Longest
      <3>2. 0 \in 0..Longest
        BY DEF Longest
      <3> QED  BY <1>8, <3>1, <3>2 DEF Tick, TypeOK
    <2> QED  BY <1>8, <2>1, <2>2, <2>3, <2>4 DEF Tick, TypeOK
  <1>9. CASE DeviceReplies
    <2>1. /\ Head(inbox) \in Requests /\ Tail(inbox) \in Seq(Requests)
          /\ <<FrontOf(Head(inbox)), RearOf(Head(inbox))>> \in Seq(Bytes)
      BY <1>9, FrontIsByte DEF DeviceReplies, TypeOK
    <2> QED  BY <1>9, <2>1 DEF DeviceReplies, TypeOK
  <1>10. CASE Arrive
    BY <1>10, ArrivingByte DEF Arrive, TypeOK
  <1>11. CASE DeviceIgnores \/ PeerCloses \/ UNCHANGED vars
    <2>1. CASE DeviceIgnores
      BY <2>1 DEF DeviceIgnores, TypeOK
    <2>2. CASE PeerCloses
      BY <1>0, <2>2 DEF PeerCloses, TypeOK
    <2>3. CASE UNCHANGED vars
      BY <2>3 DEF vars, TypeOK
    <2> QED  BY <1>11, <2>1, <2>2, <2>3
  <1> QED  BY <1>1, <1>2, <1>3, <1>4, <1>6, <1>7, <1>8, <1>9, <1>10, <1>11 DEF Next, Step

LEMMA WithinLessHeld ==
    ASSUME NEW S, NEW h \in Seq(S), NEW r \in Seq(S), NEW w \in Seq(S), NEW n \in 0..Len(h)
    PROVE  Behind(n, (SubSeq(h, n + 1, Len(h)) \o r) \o w, (h \o r) \o w)
  <1> DEFINE rest == SubSeq(h, n + 1, Len(h))
             short == (rest \o r) \o w
             long == (h \o r) \o w
  <1>1. /\ rest \in Seq(S) /\ Len(rest) = Len(h) - n
        /\ \A i \in 1..Len(rest) : rest[i] = h[n + i]
    OBVIOUS
  <1> HIDE DEF rest
  <1>2. /\ rest \o r \in Seq(S) /\ Len(rest \o r) = Len(rest) + Len(r)
        /\ h \o r \in Seq(S) /\ Len(h \o r) = Len(h) + Len(r)
    BY <1>1, ConcatProperties
  <1>3. Len(short) = Len(rest) + Len(r) + Len(w) /\ Len(long) = Len(h) + Len(r) + Len(w)
    <2>1. Len(short) = Len(rest \o r) + Len(w) /\ Len(long) = Len(h \o r) + Len(w)
      BY <1>2, ConcatProperties
    <2> QED  BY <1>2, <2>1
  <1>4. ASSUME NEW i \in 1..Len(short) PROVE short[i] = long[n + i]
    <2>1. CASE i \in 1..Len(rest)
      <3>1. (rest \o r)[i] = rest[i] /\ (h \o r)[n + i] = h[n + i]
        BY <2>1, <1>1
      <3>2. short[i] = (rest \o r)[i] /\ long[n + i] = (h \o r)[n + i]
        BY <2>1, <1>1, <1>2
      <3> QED  BY <3>1, <3>2, <2>1, <1>1
    <2>2. CASE i \in Len(rest) + 1..Len(rest) + Len(r)
      <3>0. /\ Len(r) \in Nat /\ Len(rest) \in Nat /\ Len(h) \in Nat /\ i \in Nat
            /\ i <= Len(rest) + Len(r)
        BY <1>1, <2>2
      <3>1. (rest \o r)[i] = r[i - Len(rest)] /\ (h \o r)[n + i] = r[n + i - Len(h)]
        <4>1. (rest \o r)[i] = r[i - Len(rest)]
          BY <2>2, <1>1, ConcatProperties
        <4>2. n + i \in Len(h) + 1..Len(h) + Len(r)
          BY <3>0, <2>2, <1>1
        <4>3. (h \o r)[n + i] = r[n + i - Len(h)]
          BY <4>2, ConcatProperties
        <4> QED  BY <4>1, <4>3
      <3>2. short[i] = (rest \o r)[i] /\ long[n + i] = (h \o r)[n + i]
        BY <2>2, <1>1, <1>2, ConcatProperties
      <3>3. i - Len(rest) = n + i - Len(h)
        BY <1>1
      <3> QED  BY <3>1, <3>2, <3>3
    <2>3. CASE i \in Len(rest) + Len(r) + 1..Len(short)
      <3>1. short[i] = w[i - (Len(rest) + Len(r))] /\ long[n + i] = w[n + i - (Len(h) + Len(r))]
        <4>1. /\ Len(rest) \in Nat /\ Len(r) \in Nat /\ Len(w) \in Nat /\ Len(h) = Len(rest) + n
              /\ i \in Nat /\ i > Len(rest) + Len(r) /\ i <= Len(rest) + Len(r) + Len(w)
          BY <2>3, <1>1, <1>3
        <4>2. short[i] = w[i - Len(rest \o r)]
          <5>1. i \in 1..Len(rest \o r) + Len(w) /\ ~(i <= Len(rest \o r))
            BY <4>1, <1>2
          <5> QED  BY <5>1, <1>2, ConcatProperties
        <4>3. long[n + i] = w[n + i - Len(h \o r)]
          <5>1. n + i \in 1..Len(h \o r) + Len(w) /\ ~(n + i <= Len(h \o r))
            BY <4>1, <1>2
          <5> QED  BY <5>1, <1>2, ConcatProperties
        <4> QED  BY <4>2, <4>3, <1>2
      <3>2. i - (Len(rest) + Len(r)) = n + i - (Len(h) + Len(r))
        BY <1>1
      <3> QED  BY <3>1, <3>2
    <2>4. Len(rest) \in Nat /\ Len(r) \in Nat /\ Len(short) = Len(rest) + Len(r) + Len(w)
      BY <1>1, <1>3
    <2>5. i \in Nat /\ 1 <= i /\ i <= Len(short)
      BY <1>3
    <2>6. \/ i \in 1..Len(rest) \/ i \in Len(rest) + 1..Len(rest) + Len(r)
          \/ i \in Len(rest) + Len(r) + 1..Len(short)
      BY <2>4, <2>5
    <2> HIDE DEF short, long
    <2> QED  BY <2>1, <2>2, <2>3, <2>6
  <1>5. n + Len(short) <= Len(long)
    BY <1>1, <1>3
  <1> QED  BY <1>4, <1>5 DEF Behind, rest

LEMMA SameStream ==
    ASSUME TypeOK, Held' = Held, rx' = rx, wire' = wire
    PROVE  Within(Stream', Stream)
  <1>1. Stream' = Stream
    BY DEF Stream
  <1> QED  BY <1>1, StreamType, WithinItself

\* The end of a read: what it had taken is gone.
LEMMA ReturnStream ==
    ASSUME TypeOK, NEW t \in Thread, NEW value, Return(t, value), UNCHANGED <<rx, wire>>
    PROVE  Within(Stream', Stream)
  <1>1. Held \in Seq(Bytes) /\ rx \in Seq(Bytes) /\ wire \in Seq(Bytes)
    BY StreamType DEF TypeOK
  <1>2. Held' = << >>
    BY DEF Return, Held
  <1>3. Len(Held) \in 0..Len(Held) /\ SubSeq(Held, Len(Held) + 1, Len(Held)) = << >>
    BY <1>1
  <1>4. Len(Held) \in Nat /\ Behind(Len(Held), Stream', Stream)
    <2>1. Behind(Len(Held), (SubSeq(Held, Len(Held) + 1, Len(Held)) \o rx) \o wire, (Held \o rx) \o wire)
      BY <1>1, <1>3, WithinLessHeld
    <2>2. Stream' = (SubSeq(Held, Len(Held) + 1, Len(Held)) \o rx) \o wire
      BY <1>2, <1>3 DEF Stream
    <2> QED  BY <1>1, <2>1, <2>2 DEF Stream
  <1> QED  BY <1>4 DEF Within

\* Every step takes something off the ends of the stream, or leaves it, but for
\* a reply and for the rear that becomes a stray byte.
StreamShrinks == Within(Stream', Stream)
StreamGrows ==
    /\ DeviceReplies
    /\ Stream' = Stream \o <<FrontOf(Head(inbox)), RearOf(Head(inbox))>>
StreamIsCut ==
    /\ \E t \in Thread : UnframeRear(t)
    /\ Stream # << >> /\ Stream[1].part = "rear"
    /\ Len(Stream') = Len(Stream)
    /\ Stream'[1] = Stray
    /\ \A i \in 2..Len(Stream) : Stream'[i] = Stream[i]

LEMMA CutStream ==
    ASSUME TypeOK, HolderIsReading, NEW t \in Thread, UnframeRear(t)
    PROVE  StreamIsCut
  <1>1. Held \in Seq(Bytes) /\ rx \in Seq(Bytes) /\ wire \in Seq(Bytes)
    BY StreamType DEF TypeOK
  <1>2. read_lock = t /\ Held = payload[t]
    BY HeldByReader DEF UnframeRear, Reading
  <1>3. Held' = <<Stray>> \o Tail(Held) /\ rx' = rx /\ wire' = wire
    BY <1>2, ClientAssumption DEF UnframeRear, linkVars, Held, TypeOK
  <1>4. Held # << >> /\ Held[1].part = "rear"
    BY <1>2 DEF UnframeRear, StartsWith
  <1> DEFINE cut == <<Stray>> \o Tail(Held)
  <1>5. /\ cut \in Seq(Bytes) /\ Len(cut) = Len(Held) /\ cut[1] = Stray
        /\ \A i \in 2..Len(Held) : cut[i] = Held[i]
    BY <1>1, <1>4, StrayIsByte
  <1> HIDE DEF cut
  <1>6. Stream = (Held \o rx) \o wire /\ Stream' = (cut \o rx) \o wire
    BY <1>3 DEF Stream, cut
  <1>7. /\ Len(Held) \in Nat \ {0}
        /\ Held \o rx \in Seq(Bytes) /\ Len(Held \o rx) = Len(Held) + Len(rx)
        /\ cut \o rx \in Seq(Bytes) /\ Len(cut \o rx) = Len(Held) + Len(rx)
        /\ \A i \in 1..Len(Held) : (Held \o rx)[i] = Held[i] /\ (cut \o rx)[i] = cut[i]
        /\ \A i \in Len(Held) + 1..Len(Held) + Len(rx) : (Held \o rx)[i] = (cut \o rx)[i]
    <2>1. Len(Held) \in Nat \ {0} /\ Len(rx) \in Nat
      BY <1>1, <1>4
    <2>2. /\ Held \o rx \in Seq(Bytes) /\ Len(Held \o rx) = Len(Held) + Len(rx)
          /\ cut \o rx \in Seq(Bytes) /\ Len(cut \o rx) = Len(Held) + Len(rx)
      <3>1. Held \o rx \in Seq(Bytes) /\ Len(Held \o rx) = Len(Held) + Len(rx)
        BY <1>1, ConcatProperties
      <3>2. cut \o rx \in Seq(Bytes) /\ Len(cut \o rx) = Len(cut) + Len(rx)
        BY <1>1, <1>5, ConcatProperties
      <3> QED  BY <3>1, <3>2, <1>5
    <2>3. \A i \in 1..Len(Held) : (Held \o rx)[i] = Held[i] /\ (cut \o rx)[i] = cut[i]
      BY <1>1, <1>5
    <2>4. \A i \in Len(Held) + 1..Len(Held) + Len(rx) : (Held \o rx)[i] = (cut \o rx)[i]
      BY <1>1, <1>5
    <2> QED  BY <2>1, <2>2, <2>3, <2>4
  <1>8. /\ Len(Stream) = Len(Held) + Len(rx) + Len(wire) /\ Len(Stream') = Len(Stream)
        /\ \A i \in 1..Len(Held) + Len(rx) : Stream[i] = (Held \o rx)[i] /\ Stream'[i] = (cut \o rx)[i]
        /\ \A i \in Len(Held) + Len(rx) + 1..Len(Stream) : Stream[i] = Stream'[i]
    <2> DEFINE a == Held \o rx
               b == cut \o rx
    <2>1. /\ a \in Seq(Bytes) /\ b \in Seq(Bytes) /\ Len(a) = Len(Held) + Len(rx) /\ Len(b) = Len(a)
          /\ Stream = a \o wire /\ Stream' = b \o wire
      BY <1>6, <1>7
    <2> HIDE DEF a, b
    <2>2. Len(Stream) = Len(a) + Len(wire) /\ Len(Stream') = Len(a) + Len(wire)
      <3>1. Len(a \o wire) = Len(a) + Len(wire)
        BY <1>1, <2>1, ConcatProperties
      <3>2. Len(b \o wire) = Len(b) + Len(wire)
        BY <1>1, <2>1, ConcatProperties
      <3> QED  BY <3>1, <3>2, <2>1
    <2>3. \A i \in 1..Len(a) : Stream[i] = a[i] /\ Stream'[i] = b[i]
      BY <1>1, <2>1
    <2>4. \A i \in Len(a) + 1..Len(a) + Len(wire) : Stream[i] = Stream'[i]
      BY <1>1, <2>1
    <2> QED  BY <2>1, <2>2, <2>3, <2>4 DEF a, b
  <1>9. 1 \in 1..Len(Held) /\ 1 \in 1..Len(Held) + Len(rx)
    BY <1>1, <1>7
  <1>10. Stream # << >> /\ Stream[1] = Held[1] /\ Stream'[1] = cut[1]
    BY <1>1, <1>7, <1>8, <1>9
  <1>11. ASSUME NEW i \in 2..Len(Stream) PROVE Stream'[i] = Stream[i]
    <2>1. CASE i \in 2..Len(Held)
      <3>1. i \in 1..Len(Held) /\ i \in 1..Len(Held) + Len(rx)
        BY <2>1, <1>1
      <3> QED  BY <2>1, <3>1, <1>5, <1>7, <1>8
    <2>2. CASE i \in Len(Held) + 1..Len(Held) + Len(rx)
      <3>1. i \in 1..Len(Held) + Len(rx)
        BY <2>2, <1>1
      <3> QED  BY <2>2, <3>1, <1>7, <1>8
    <2>3. CASE i \in Len(Held) + Len(rx) + 1..Len(Stream)
      BY <2>3, <1>8
    <2> QED  BY <2>1, <2>2, <2>3, <1>1, <1>8
  <1> QED  BY <1>4, <1>5, <1>8, <1>10, <1>11 DEF StreamIsCut

LEMMA StreamStep ==
    ASSUME TypeOK, HolderIsReading, LocalsAreHeld, [Next]_vars
    PROVE  StreamShrinks \/ StreamGrows \/ StreamIsCut
  <1> USE DEF StreamShrinks
  <1>0. Held \in Seq(Bytes) /\ rx \in Seq(Bytes) /\ wire \in Seq(Bytes) /\ << >> \in Seq(Bytes)
    BY StreamType DEF TypeOK
  <1>1. ASSUME NEW t \in Thread, NEW k \in Kind, Call(t, k) PROVE StreamShrinks
    BY <1>1, SameStream DEF Call, linkVars, readVars, Held
  <1>2. ASSUME NEW t \in Thread, Drain(t) PROVE StreamShrinks
    <2>1. Held = << >> /\ Held' = << >> /\ wire' = wire
      BY <1>2 DEF Drain, Held
    <2>2. CASE rx' = rx
      BY <2>1, <2>2, SameStream
    <2>3. CASE rx' = << >>
      <3>1. Stream' = wire
        BY <1>0, <2>1, <2>3 DEF Stream
      <3> QED  BY <3>1, PartsOfStream
    <2> QED  BY <1>2, <2>2, <2>3 DEF Drain
  <1>3. ASSUME NEW t \in Thread, Write(t) PROVE StreamShrinks
    BY <1>3, SameStream DEF Write, readVars, Held
  <1>4. ASSUME NEW t \in Thread, LockRead(t) PROVE StreamShrinks
    <2>1. Held = << >> /\ Held' = payload[t] /\ payload[t] = << >>
      BY <1>4, ClientAssumption DEF LockRead, Held, LocalsAreHeld, Reading
    <2> QED  BY <1>4, <2>1, SameStream DEF LockRead, linkVars
  <1>5. ASSUME NEW t \in Thread, Poll(t) PROVE StreamShrinks
    <2>1. CASE TakeBytes(t)
      <3>1. Held = payload[t] /\ read_lock = t
        BY <2>1, HeldByReader DEF TakeBytes, Reading
      <3>2. Held' = Held \o rx /\ rx' = << >> /\ wire' = wire
        BY <2>1, <3>1, ClientAssumption DEF TakeBytes, Held, TypeOK
      <3>3. Stream' = Stream
        BY <1>0, <3>2 DEF Stream
      <3> QED  BY <3>3, StreamType, WithinItself
    <2>2. CASE PollNothing(t)
      BY <2>2, ReturnStream, SameStream DEF PollNothing, linkVars, readVars, Held
    <2>3. CASE PollClosed(t) \/ Deadline(t)
      BY <2>3, ReturnStream DEF PollClosed, Deadline, linkVars
    <2> QED  BY <1>5, <2>1, <2>2, <2>3 DEF Poll
  <1>6. ASSUME NEW t \in Thread, Unframe(t) PROVE StreamShrinks \/ StreamIsCut
    <2>1. CASE UnframeFrame(t)
      <3>1. Held = payload[t] /\ read_lock = t
        BY <2>1, HeldByReader DEF UnframeFrame, Reading
      <3>2. PICK skip \in {0, 1} :
              /\ Len(payload[t]) >= skip + 2
              /\ payload' = [payload EXCEPT ![t] = SubSeq(@, skip + 3, Len(@))]
        BY <2>1 DEF UnframeFrame
      <3>3. Held' = SubSeq(Held, skip + 2 + 1, Len(Held)) /\ rx' = rx /\ wire' = wire
        <4>1. payload'[t] = SubSeq(payload[t], skip + 3, Len(payload[t]))
          BY <3>2 DEF TypeOK
        <4>2. read_lock' = t /\ t # NoThread /\ rx' = rx /\ wire' = wire
          BY <2>1, <3>1, ClientAssumption DEF UnframeFrame, linkVars
        <4>3. Held' = payload'[t]
          BY <4>2 DEF Held
        <4> QED  BY <3>1, <4>1, <4>2, <4>3
      <3>4. skip + 2 \in 0..Len(Held) /\ skip + 2 \in Nat
        BY <1>0, <3>1, <3>2
      <3>5. Behind(skip + 2, Stream', Stream)
        BY <1>0, <3>3, <3>4, WithinLessHeld DEF Stream
      <3> QED  BY <3>4, <3>5 DEF Within
    <2>2. CASE UnframeRear(t)
      BY <2>2, CutStream
    <2>3. CASE UnframeNothing(t)
      BY <2>3, ReturnStream, SameStream DEF UnframeNothing, linkVars, readVars, Held
    <2> QED  BY <1>6, <2>1, <2>2, <2>3 DEF Unframe
  <1>7. CASE Tick
    BY <1>7, SameStream DEF Tick, linkVars, Held
  <1>8. CASE DeviceReplies
    <2>1. Held' = Held /\ rx' = rx
      BY <1>8 DEF DeviceReplies, readVars, Held
    <2>2. /\ <<FrontOf(Head(inbox)), RearOf(Head(inbox))>> \in Seq(Bytes)
          /\ wire' = wire \o <<FrontOf(Head(inbox)), RearOf(Head(inbox))>>
      BY <1>8, FrontIsByte DEF DeviceReplies, TypeOK
    <2>3. Held \o rx \in Seq(Bytes)
      BY <1>0
    <2>4. Stream' = Stream \o <<FrontOf(Head(inbox)), RearOf(Head(inbox))>>
      BY <1>0, <2>1, <2>2, <2>3, ConcatAssociative DEF Stream
    <2> QED  BY <1>8, <2>4 DEF StreamGrows
  <1>9. CASE Arrive
    <2>1. Held' = Held /\ rx' = Append(rx, Head(wire)) /\ wire' = Tail(wire) /\ wire # << >>
      BY <1>9 DEF Arrive, readVars, Held
    <2>2. /\ Head(wire) \in Bytes /\ Tail(wire) \in Seq(Bytes)
          /\ <<Head(wire)>> \in Seq(Bytes) /\ wire = <<Head(wire)>> \o Tail(wire)
      BY <1>0, <2>1
    <2>3. rx' = rx \o <<Head(wire)>>
      BY <1>0, <2>1, <2>2, AppendIsConcat
    <2>4. (Held \o rx') = (Held \o rx) \o <<Head(wire)>> /\ Held \o rx \in Seq(Bytes)
      BY <1>0, <2>2, <2>3, ConcatAssociative
    <2>5. ((Held \o rx) \o <<Head(wire)>>) \o Tail(wire) = (Held \o rx) \o wire
      <3> DEFINE a == Held \o rx
                 b == <<Head(wire)>>
      <3>1. a \in Seq(Bytes) /\ b \in Seq(Bytes) /\ Tail(wire) \in Seq(Bytes)
        BY <2>2, <2>4
      <3> HIDE DEF a, b
      <3>2. (a \o b) \o Tail(wire) = a \o (b \o Tail(wire))
        BY <3>1, ConcatAssociative
      <3> QED  BY <3>2, <2>2 DEF a, b
    <2>6. Stream' = Stream
      BY <2>1, <2>4, <2>5 DEF Stream
    <2> QED  BY <2>6, StreamType, WithinItself
  <1>10. CASE PeerCloses
    <2>1. Held' = Held /\ rx' = rx /\ wire' = << >>
      BY <1>10 DEF PeerCloses, readVars, Held
    <2>2. Held \o rx \in Seq(Bytes)
      BY <1>0
    <2>3. Stream' = Held \o rx
      BY <1>0, <2>1, <2>2 DEF Stream
    <2> QED  BY <1>0, <2>2, <2>3, WithinConcat DEF Stream
  <1>11. CASE DeviceIgnores \/ UNCHANGED vars
    BY <1>11, SameStream DEF DeviceIgnores, vars, linkVars, readVars, Held
  <1> QED  BY <1>1, <1>2, <1>3, <1>4, <1>5, <1>6, <1>7, <1>8, <1>9, <1>10, <1>11 DEF Next, Step

LEMMA HeadOfInbox ==
    ASSUME TypeOK, inbox # << >>
    PROVE  /\ Head(inbox) \in Requests
           /\ Head(inbox) \in Elements(inbox)
           /\ Elements(Tail(inbox)) \subseteq Elements(inbox)
  <1>1. inbox \in Seq(Requests) /\ 1 \in 1..Len(inbox) /\ Head(inbox) = inbox[1]
    BY DEF TypeOK
  <1>2. \A i \in 1..Len(Tail(inbox)) : i + 1 \in 1..Len(inbox) /\ Tail(inbox)[i] = inbox[i + 1]
    BY <1>1
  <1> QED  BY <1>1, <1>2 DEF Elements

\* What the step does to the sets of requests that the stream is about.
LEMMA StreamSets ==
    ASSUME TypeOK, TypeOK', HolderIsReading, LocalsAreHeld, StreamInOrder, OnePlace, [Next]_vars
    PROVE  /\ Stretch(Stream')
           /\ \/ /\ Fronts(Stream') \subseteq Fronts(Stream)
                 /\ Asked(Stream') \subseteq Asked(Stream) \cup {0}
              \/ /\ DeviceReplies
                 /\ Fronts(Stream') = Fronts(Stream) \cup {Head(inbox)}
                 /\ Asked(Stream') = Asked(Stream) \cup {Head(inbox)}
  <1>1. Stream \in Seq(Bytes) /\ Stream' \in Seq(Bytes)
    BY StreamType, NextStreamType
  <1>2. CASE StreamShrinks
    BY <1>1, <1>2, StretchWithin DEF StreamShrinks, StreamInOrder
  <1>3. CASE StreamGrows
    <2>1. inbox # << >>
      BY <1>3 DEF StreamGrows, DeviceReplies
    <2>2. Head(inbox) \in Requests /\ Head(inbox) \notin Asked(Stream)
      BY <2>1, HeadOfInbox DEF OnePlace
    <2> QED  BY <1>1, <1>3, <2>2, StretchGrows DEF StreamGrows, StreamInOrder
  <1>4. CASE StreamIsCut
    BY <1>1, <1>4, StretchStray DEF StreamIsCut, StreamInOrder
  <1> QED  BY <1>2, <1>3, <1>4, StreamStep

-----------------------------------------------------------------------------
(* Each conjunct of ClientInv is kept.                                      *)

LEMMA OwnRequestLeave ==
    ASSUME TypeOK, OwnRequest, NEW t \in Thread, pc[t] # "idle", NEW value,
           Leave(t, value), UNCHANGED <<cur, kind>>
    PROVE  OwnRequest'
  <1>1. pc' = [pc EXCEPT ![t] = "idle"] /\ result' = [result EXCEPT ![cur[t]] = value]
    BY DEF Leave, Goto
  <1>2. \A u \in Thread : pc'[u] # "idle" => u # t /\ pc[u] # "idle" /\ cur[u] # cur[t]
    BY <1>1 DEF TypeOK, OwnRequest
  <1>3. \A q \in Requests : q # cur[t] => result'[q] = result[q]
    BY <1>1 DEF TypeOK
  <1>4. \A q \in 1..Len(kind) : q \in Requests
    BY ClientAssumption DEF TypeOK, Requests
  <1>5. cur[t] \in 1..Len(kind)
    BY DEF OwnRequest
  <1>6. \A u \in Thread : pc'[u] # "idle" => cur'[u] \in 1..Len(kind') /\ result'[cur'[u]] = Open
    BY <1>2, <1>3, <1>4 DEF OwnRequest
  <1>7. \A q \in Requests : q > Len(kind') => result'[q] = Open
    BY <1>3, <1>5 DEF OwnRequest, TypeOK, Requests
  <1> QED  BY <1>2, <1>6, <1>7 DEF OwnRequest

LEMMA OwnRequestKept ==
    ASSUME OwnRequest, UNCHANGED <<cur, kind, result>>,
           \A t \in Thread : pc'[t] # "idle" => pc[t] # "idle"
    PROVE  OwnRequest'
  BY DEF OwnRequest

LEMMA OwnRequestStep ==
    ASSUME TypeOK, OwnRequest, [Next]_vars
    PROVE  OwnRequest'
  <1>1. ASSUME NEW t \in Thread, NEW k \in Kind, Call(t, k) PROVE OwnRequest'
    <2>1. /\ Len(kind') = Len(kind) + 1 /\ Len(kind) + 1 \in Requests /\ Len(kind) \in Nat
          /\ cur' = [cur EXCEPT ![t] = Len(kind) + 1] /\ result' = result
          /\ pc' = [pc EXCEPT ![t] = "drain"]
      BY <1>1, ClientAssumption DEF Call, Goto, TypeOK, Requests
    <2>2. cur'[t] = Len(kind) + 1 /\ \A u \in Thread : u # t => cur'[u] = cur[u] /\ pc'[u] = pc[u]
      BY <2>1 DEF TypeOK
    <2>3. \A u \in Thread : pc'[u] # "idle" => cur'[u] \in 1..Len(kind') /\ result'[cur'[u]] = Open
      BY <2>1, <2>2 DEF OwnRequest
    <2>4. \A u \in Thread : u # t /\ pc'[u] # "idle" => cur'[u] # cur'[t]
      BY <2>1, <2>2 DEF OwnRequest
    <2>5. \A u, v \in Thread : pc'[u] # "idle" /\ pc'[v] # "idle" /\ cur'[u] = cur'[v] => u = v
      BY <2>2, <2>4 DEF OwnRequest
    <2>6. \A q \in Requests : q > Len(kind') => result'[q] = Open
      BY <2>1 DEF OwnRequest, Requests
    <2> QED  BY <2>3, <2>5, <2>6 DEF OwnRequest
  <1>2. ASSUME NEW t \in Thread, Drain(t) PROVE OwnRequest'
    <2>1. pc[t] # "idle" /\ UNCHANGED <<cur, kind>>
      BY <1>2 DEF Drain
    <2>2. CASE Leave(t, Raised)
      BY <2>1, <2>2, OwnRequestLeave
    <2>3. CASE Goto(t, "write") /\ UNCHANGED result
      BY <2>1, <2>3, OwnRequestKept DEF Goto, TypeOK
    <2> QED  BY <1>2, <2>2, <2>3 DEF Drain
  <1>3. ASSUME NEW t \in Thread, Write(t) \/ LockRead(t) PROVE OwnRequest'
    BY <1>3, OwnRequestKept DEF Write, LockRead, Goto, TypeOK
  <1>4. ASSUME NEW t \in Thread, Poll(t) PROVE OwnRequest'
    BY <1>4, OwnRequestLeave, OwnRequestKept
       DEF Poll, TakeBytes, PollNothing, PollClosed, Deadline, Return, Goto, TypeOK
  <1>5. ASSUME NEW t \in Thread, Unframe(t) PROVE OwnRequest'
    <2>1. CASE UnframeFrame(t) \/ UnframeRear(t)
      BY <2>1, OwnRequestKept DEF UnframeFrame, UnframeRear, callVars
    <2>2. CASE UnframeNothing(t)
      BY <2>2, OwnRequestLeave, OwnRequestKept DEF UnframeNothing, Return, Goto, TypeOK
    <2> QED  BY <1>5, <2>1, <2>2 DEF Unframe
  <1>6. CASE Tick
    BY <1>6, OwnRequestKept DEF Tick
  <1>7. CASE DeviceReplies \/ DeviceIgnores \/ Arrive \/ PeerCloses \/ UNCHANGED vars
    BY <1>7, OwnRequestKept DEF DeviceReplies, DeviceIgnores, Arrive, PeerCloses, vars, callVars
  <1> QED  BY <1>1, <1>2, <1>3, <1>4, <1>5, <1>6, <1>7 DEF Next, Step

\* Bytes get into the buffer and onto the wire by a reply only.
LEMMA LinkBytes ==
    ASSUME TypeOK, [Next]_vars
    PROVE  \/ Elements(rx') \cup Elements(wire') \subseteq Elements(rx) \cup Elements(wire)
           \/ /\ DeviceReplies
              /\ rx' = rx
              /\ Elements(wire') = Elements(wire) \cup {FrontOf(Head(inbox)), RearOf(Head(inbox))}
  <1>0. Elements(<< >>) = {}
    BY DEF Elements
  <1>1. CASE UNCHANGED <<rx, wire>>
    BY <1>1
  <1>2. CASE rx' = << >> /\ UNCHANGED wire
    BY <1>0, <1>2
  <1>3. CASE DeviceReplies
    <2>1. wire' = wire \o <<FrontOf(Head(inbox)), RearOf(Head(inbox))>> /\ rx' = rx
      BY <1>3 DEF DeviceReplies
    <2>2. Head(inbox) \in Requests
      BY <1>3, HeadOfInbox DEF DeviceReplies
    <2>3. wire \in Seq(Bytes) /\ FrontOf(Head(inbox)) \in Bytes /\ RearOf(Head(inbox)) \in Bytes
      BY <2>2, FrontIsByte DEF TypeOK
    <2>4. Elements(wire') = Elements(wire) \cup {FrontOf(Head(inbox)), RearOf(Head(inbox))}
      <3>1. /\ Len(wire') = Len(wire) + 2 /\ Len(wire) \in Nat
            /\ \A i \in 1..Len(wire) : wire'[i] = wire[i]
            /\ wire'[Len(wire) + 1] = FrontOf(Head(inbox))
            /\ wire'[Len(wire) + 2] = RearOf(Head(inbox))
        BY <2>1, <2>3
      <3>2. /\ \A i \in 1..Len(wire') : i \in 1..Len(wire) \/ i = Len(wire) + 1 \/ i = Len(wire) + 2
            /\ \A i \in 1..Len(wire) : i \in 1..Len(wire')
            /\ Len(wire) + 1 \in 1..Len(wire') /\ Len(wire) + 2 \in 1..Len(wire')
        BY <3>1
      <3>3. Elements(wire') \subseteq Elements(wire) \cup {FrontOf(Head(inbox)), RearOf(Head(inbox))}
        BY <3>1, <3>2 DEF Elements
      <3>4. Elements(wire) \cup {FrontOf(Head(inbox)), RearOf(Head(inbox))} \subseteq Elements(wire')
        BY <3>1, <3>2 DEF Elements
      <3> QED  BY <3>3, <3>4
    <2> QED  BY <1>3, <2>1, <2>4
  <1>4. CASE Arrive
    <2>1. rx' = Append(rx, Head(wire)) /\ wire' = Tail(wire) /\ wire # << >>
      BY <1>4 DEF Arrive
    <2>2. /\ rx \in Seq(Bytes) /\ wire \in Seq(Bytes)
          /\ \A i \in 1..Len(rx') : (i \in 1..Len(rx) /\ rx'[i] = rx[i]) \/ rx'[i] = wire[1]
          /\ 1 \in 1..Len(wire)
          /\ \A i \in 1..Len(wire') : i + 1 \in 1..Len(wire) /\ wire'[i] = wire[i + 1]
      BY <2>1 DEF TypeOK
    <2>3. Elements(rx') \subseteq Elements(rx) \cup Elements(wire)
      BY <2>2 DEF Elements
    <2>4. Elements(wire') \subseteq Elements(wire)
      BY <2>2 DEF Elements
    <2> QED  BY <2>3, <2>4
  <1>5. CASE PeerCloses
    BY <1>0, <1>5 DEF PeerCloses
  <1>6. ASSUME NEW t \in Thread, Step(t)
        PROVE  (rx' = << >> /\ UNCHANGED wire) \/ UNCHANGED <<rx, wire>>
    BY <1>6 DEF Step, Drain, Write, LockRead, Poll, TakeBytes, PollNothing, PollClosed, Deadline,
                Unframe, UnframeFrame, UnframeRear, UnframeNothing, linkVars
  <1>7. ASSUME NEW t \in Thread, NEW k \in Kind, Call(t, k) PROVE UNCHANGED <<rx, wire>>
    BY <1>7 DEF Call, linkVars
  <1>8. CASE Tick \/ DeviceIgnores \/ UNCHANGED vars
    BY <1>1, <1>8 DEF Tick, DeviceIgnores, vars, linkVars
  <1> QED  BY <1>1, <1>2, <1>3, <1>4, <1>5, <1>6, <1>7, <1>8 DEF Next

LEMMA StreamInOrderStep ==
    ASSUME TypeOK, TypeOK', HolderIsReading, LocalsAreHeld, StreamInOrder, OnePlace, [Next]_vars
    PROVE  StreamInOrder'
  <1>1. Stretch(Stream')
    BY StreamSets
  <1>2. ASSUME NEW b \in Elements(rx') \cup Elements(wire')
        PROVE  b.part # "stray"
    <2>1. CASE b \in Elements(rx) \cup Elements(wire)
      BY <2>1 DEF StreamInOrder
    <2>2. CASE DeviceReplies /\ b \in {FrontOf(Head(inbox)), RearOf(Head(inbox))}
      BY <2>2 DEF FrontOf, RearOf
    <2> QED  BY <2>1, <2>2, LinkBytes
  <1> QED  BY <1>1, <1>2 DEF StreamInOrder

-----------------------------------------------------------------------------
(* Where a request and its response can be, from step to step.              *)

LEMMA UnsentStep ==
    ASSUME TypeOK, OwnRequest, [Next]_vars
    PROVE  /\ Unsent \subseteq Requests
           /\ Unsent' \subseteq Unsent
           /\ \A t \in Thread : Write(t) => cur[t] \in Unsent /\ cur[t] \notin Unsent'
  <1>1. \A q : q \in Unsent <=> \/ \E t \in Thread : pc[t] \in {"drain", "write"} /\ q = cur[t]
                                \/ q \in Requests /\ q > Len(kind)
    BY DEF Unsent
  <1>2. \A q : q \in Unsent' <=> \/ \E t \in Thread : pc'[t] \in {"drain", "write"} /\ q = cur'[t]
                                 \/ q \in Requests /\ q > Len(kind')
    BY DEF Unsent
  <1>3. \A t \in Thread : pc[t] \in {"drain", "write"} => cur[t] \in 1..Len(kind) /\ cur[t] \in Requests
    BY DEF OwnRequest, TypeOK, Requests
  <1>4. Len(kind) \in Nat
    BY DEF TypeOK
  <1>5. ASSUME NEW t \in Thread, NEW k \in Kind, Call(t, k)
        PROVE  Unsent' \subseteq Unsent
    <2>1. /\ Len(kind') = Len(kind) + 1 /\ Len(kind) + 1 \in Requests
          /\ cur' = [cur EXCEPT ![t] = Len(kind) + 1] /\ pc' = [pc EXCEPT ![t] = "drain"]
      BY <1>4, <1>5, ClientAssumption DEF Call, Goto, TypeOK, Requests
    <2>2. \A u \in Thread : \/ cur'[u] = Len(kind) + 1
                            \/ pc'[u] = pc[u] /\ cur'[u] = cur[u]
      BY <2>1 DEF TypeOK
    <2>3. \A q \in Requests : q > Len(kind') => q > Len(kind)
      BY <2>1, <1>4 DEF Requests
    <2>4. Len(kind) + 1 > Len(kind)
      BY <1>4
    <2> QED  BY <1>1, <1>2, <2>1, <2>2, <2>3, <2>4
  <1>6. ASSUME UNCHANGED <<cur, kind>>,
               \A u \in Thread : pc'[u] \in {"drain", "write"} => pc[u] \in {"drain", "write"}
        PROVE  Unsent' \subseteq Unsent
    BY <1>1, <1>2, <1>6
  <1>7. ASSUME NEW t \in Thread, Step(t)
        PROVE  /\ UNCHANGED <<cur, kind>>
               /\ \A u \in Thread : pc'[u] \in {"drain", "write"} => pc[u] \in {"drain", "write"}
    <2>1. CASE Drain(t)
      BY <2>1 DEF Drain, Leave, Goto, TypeOK
    <2>2. CASE Write(t) \/ LockRead(t)
      BY <2>2 DEF Write, LockRead, Goto, TypeOK
    <2>3. CASE Poll(t)
      BY <2>3 DEF Poll, TakeBytes, PollNothing, PollClosed, Deadline, Return, Leave, Goto, TypeOK
    <2>4. CASE UnframeFrame(t) \/ UnframeRear(t)
      BY <2>4 DEF UnframeFrame, UnframeRear, callVars
    <2>5. CASE UnframeNothing(t)
      BY <2>5 DEF UnframeNothing, Return, Leave, Goto, TypeOK
    <2> QED  BY <1>7, <2>1, <2>2, <2>3, <2>4, <2>5 DEF Step, Unframe
  <1>8. ASSUME Tick \/ DeviceReplies \/ DeviceIgnores \/ Arrive \/ PeerCloses \/ UNCHANGED vars
        PROVE  Unsent' \subseteq Unsent
    <2>1. UNCHANGED <<cur, kind>>
      BY <1>8 DEF Tick, DeviceReplies, DeviceIgnores, Arrive, PeerCloses, vars, callVars
    <2>2. \A u \in Thread : pc'[u] \in {"drain", "write"} => pc[u] \in {"drain", "write"}
      BY <1>8 DEF Tick, DeviceReplies, DeviceIgnores, Arrive, PeerCloses, vars, callVars
    <2> QED  BY <1>6, <2>1, <2>2
  <1>9. Unsent' \subseteq Unsent
    BY <1>5, <1>6, <1>7, <1>8 DEF Next
  <1>10. ASSUME NEW t \in Thread, Write(t) PROVE cur[t] \in Unsent /\ cur[t] \notin Unsent'
    <2>1. pc[t] = "write" /\ pc' = [pc EXCEPT ![t] = "lock"] /\ UNCHANGED <<cur, kind>>
      BY <1>10 DEF Write, Goto
    <2>2. \A u \in Thread : pc'[u] \in {"drain", "write"} => cur[u] # cur[t]
      BY <2>1 DEF OwnRequest, TypeOK
    <2>3. ~(cur[t] > Len(kind))
      BY <2>1, <1>3, <1>4
    <2> QED  BY <1>1, <1>2, <2>1, <2>2, <2>3
  <1> QED  BY <1>1, <1>3, <1>9, <1>10

\* What a step does to the requests that the device holds.
LEMMA InboxKinds ==
    ASSUME [Next]_vars
    PROVE  \/ inbox' = inbox /\ ~DeviceReplies
           \/ inbox # << >> /\ inbox' = Tail(inbox)
           \/ inbox' = << >> /\ ~DeviceReplies
           \/ \E t \in Thread : Write(t) /\ inbox' = Append(inbox, cur[t]) /\ ~DeviceReplies
  <1>0. ~DeviceReplies \/ (inbox # << >> /\ inbox' = Tail(inbox))
    BY DEF DeviceReplies
  <1>1. ASSUME NEW t \in Thread, Step(t) PROVE (Write(t) /\ inbox' = Append(inbox, cur[t])) \/ inbox' = inbox
    BY <1>1 DEF Step, Drain, Write, LockRead, Poll, TakeBytes, PollNothing, PollClosed, Deadline,
                Unframe, UnframeFrame, UnframeRear, UnframeNothing, linkVars
  <1>2. ASSUME NEW t \in Thread, NEW k \in Kind, Call(t, k) PROVE inbox' = inbox
    BY <1>2 DEF Call, linkVars
  <1>3. CASE Tick \/ DeviceReplies \/ DeviceIgnores \/ Arrive \/ PeerCloses \/ UNCHANGED vars
    BY <1>0, <1>3 DEF Tick, DeviceReplies, DeviceIgnores, Arrive, PeerCloses, vars, linkVars
  <1> QED  BY <1>0, <1>1, <1>2, <1>3 DEF Next

LEMMA InboxStep ==
    ASSUME TypeOK, OwnRequest, OnePlace, [Next]_vars
    PROVE  /\ Elements(inbox) \subseteq Requests
           /\ \A i, j \in 1..Len(inbox') : inbox'[i] = inbox'[j] => i = j
           /\ \/ Elements(inbox') \subseteq Elements(inbox)
              \/ \E t \in Thread : Write(t) /\ Elements(inbox') = Elements(inbox) \cup {cur[t]}
           /\ DeviceReplies => Elements(inbox') \subseteq Elements(inbox) \ {Head(inbox)}
  <1>0. inbox \in Seq(Requests) /\ Elements(inbox) \subseteq Requests
    BY DEF TypeOK, Elements
  <1>2. ASSUME inbox' = Tail(inbox), inbox # << >>
        PROVE  /\ \A i, j \in 1..Len(inbox') : inbox'[i] = inbox'[j] => i = j
               /\ Elements(inbox') \subseteq Elements(inbox) \ {Head(inbox)}
    <2>1. \A i \in 1..Len(inbox') : i + 1 \in 1..Len(inbox) /\ inbox'[i] = inbox[i + 1]
      BY <1>0, <1>2
    <2>2. 1 \in 1..Len(inbox) /\ Head(inbox) = inbox[1]
      BY <1>0, <1>2
    <2>3. ASSUME NEW i \in 1..Len(inbox'), NEW j \in 1..Len(inbox'), inbox'[i] = inbox'[j]
          PROVE  i = j
      <3>1. i + 1 = j + 1
        BY <2>1, <2>3 DEF OnePlace
      <3> QED  BY <3>1
    <2>4. ASSUME NEW i \in 1..Len(inbox') PROVE inbox'[i] \in Elements(inbox) \ {Head(inbox)}
      <3>1. i + 1 # 1
        OBVIOUS
      <3> QED  BY <2>1, <2>2, <3>1 DEF OnePlace, Elements
    <2> QED  BY <2>3, <2>4 DEF Elements
  <1>3. CASE inbox' = << >>
    BY <1>0, <1>3 DEF Elements
  <1>4. ASSUME NEW t \in Thread, Write(t), inbox' = Append(inbox, cur[t])
        PROVE  /\ \A i, j \in 1..Len(inbox') : inbox'[i] = inbox'[j] => i = j
               /\ Elements(inbox') = Elements(inbox) \cup {cur[t]}
    <2>1. cur[t] \in Requests /\ cur[t] \notin Elements(inbox)
      BY <1>4, UnsentStep DEF OnePlace
    <2>2. /\ Len(inbox') = Len(inbox) + 1 /\ inbox'[Len(inbox) + 1] = cur[t]
          /\ \A i \in 1..Len(inbox) : inbox'[i] = inbox[i]
      BY <1>0, <1>4, <2>1
    <2>3. /\ \A i \in 1..Len(inbox') : i \in 1..Len(inbox) \/ i = Len(inbox) + 1
          /\ \A i \in 1..Len(inbox) : i \in 1..Len(inbox') /\ inbox[i] # cur[t]
          /\ Len(inbox) + 1 \in 1..Len(inbox')
      BY <1>0, <2>1, <2>2 DEF Elements
    <2>4. \A i, j \in 1..Len(inbox') : inbox'[i] = inbox'[j] => i = j
      BY <2>2, <2>3 DEF OnePlace
    <2>5. Elements(inbox') \subseteq Elements(inbox) \cup {cur[t]}
      BY <2>2, <2>3 DEF Elements
    <2>6. Elements(inbox) \cup {cur[t]} \subseteq Elements(inbox')
      BY <2>2, <2>3 DEF Elements
    <2> QED  BY <2>4, <2>5, <2>6
  <1>6. CASE inbox # << >> /\ inbox' = Tail(inbox)
    BY <1>0, <1>2, <1>6
  <1>7. CASE inbox' = << >> /\ ~DeviceReplies
    BY <1>0, <1>3, <1>7 DEF Elements
  <1>8. CASE inbox' = inbox /\ ~DeviceReplies
    BY <1>0, <1>8 DEF OnePlace
  <1>9. CASE \E t \in Thread : Write(t) /\ inbox' = Append(inbox, cur[t]) /\ ~DeviceReplies
    BY <1>0, <1>4, <1>9
  <1> QED  BY <1>6, <1>7, <1>8, <1>9, InboxKinds

\* A response begins to arrive when its front leaves the wire.
LEMMA WireStep ==
    ASSUME TypeOK, StreamInOrder, [Next]_vars
    PROVE  \/ arrived' = arrived /\ Fronts(wire') \subseteq Fronts(wire)
           \/ /\ DeviceReplies /\ arrived' = arrived
              /\ Fronts(wire') \subseteq Fronts(wire) \cup {Head(inbox)}
           \/ /\ Arrive /\ arrived' = arrived \cup {Head(wire).req}
              /\ Fronts(wire') \subseteq Fronts(wire) \ {Head(wire).req}
  <1>1. CASE wire' = wire /\ arrived' = arrived
    BY <1>1
  <1>2. CASE wire' = << >> /\ arrived' = arrived
    BY <1>2 DEF Fronts, Elements
  <1>3. CASE DeviceReplies
    <2>1. /\ wire' = wire \o <<FrontOf(Head(inbox)), RearOf(Head(inbox))>> /\ arrived' = arrived
          /\ Head(inbox) \in Requests /\ wire \in Seq(Bytes)
      BY <1>3, HeadOfInbox DEF DeviceReplies, history, TypeOK
    <2>2. FrontOf(Head(inbox)) \in Bytes /\ RearOf(Head(inbox)) \in Bytes
      BY <2>1, FrontIsByte
    <2>3. \A i \in 1..Len(wire') : \/ i \in 1..Len(wire) /\ wire'[i] = wire[i]
                                   \/ wire'[i] = FrontOf(Head(inbox))
                                   \/ wire'[i] = RearOf(Head(inbox))
      BY <2>1, <2>2
    <2>4. /\ FrontOf(Head(inbox)).req = Head(inbox)
          /\ RearOf(Head(inbox)).req = Head(inbox)
      BY DEF FrontOf, RearOf
    <2>5. ASSUME NEW i \in 1..Len(wire'), wire'[i].part = "front"
          PROVE  wire'[i].req \in Fronts(wire) \cup {Head(inbox)}
      BY <2>3, <2>4, <2>5, AskedMember
    <2>6. Fronts(wire') \subseteq Fronts(wire) \cup {Head(inbox)}
      BY <2>5 DEF Fronts, Elements
    <2> QED  BY <1>3, <2>1, <2>6
  <1>4. CASE Arrive
    <2>1. /\ wire' = Tail(wire) /\ wire # << >> /\ wire \in Seq(Bytes)
          /\ arrived' = arrived \cup {Head(wire).req}
      BY <1>4 DEF Arrive, TypeOK
    <2>2. Stretch(wire)
      BY <2>1, PartsOfStream, StreamType, StretchWithin DEF StreamInOrder
    <2>3. /\ 1 \in 1..Len(wire) /\ Head(wire) = wire[1]
          /\ \A i \in 1..Len(wire') : i + 1 \in 1..Len(wire) /\ 1 < i + 1 /\ wire'[i] = wire[i + 1]
      BY <2>1
    <2>4. ASSUME NEW i \in 1..Len(wire'), wire'[i].part = "front"
          PROVE  wire'[i].req \in Fronts(wire) \ {Head(wire).req}
      <3>1. wire[1].req # wire[i + 1].req
        BY <2>2, <2>3, <2>4 DEF Stretch
      <3> QED  BY <2>3, <2>4, <3>1, AskedMember
    <2>5. Fronts(wire') \subseteq Fronts(wire) \ {Head(wire).req}
      BY <2>4 DEF Fronts, Elements
    <2> QED  BY <1>4, <2>1, <2>5
  <1>5. ASSUME NEW t \in Thread, Step(t) PROVE wire' = wire /\ arrived' = arrived
    BY <1>5 DEF Step, Drain, Write, LockRead, Poll, TakeBytes, PollNothing, PollClosed, Deadline,
                Unframe, UnframeFrame, UnframeRear, UnframeNothing, linkVars, history
  <1>6. ASSUME NEW t \in Thread, NEW k \in Kind, Call(t, k) PROVE wire' = wire /\ arrived' = arrived
    BY <1>6 DEF Call, linkVars, history
  <1>7. CASE Tick \/ DeviceIgnores \/ UNCHANGED vars
    BY <1>1, <1>7 DEF Tick, DeviceIgnores, vars, linkVars, history
  <1>8. CASE PeerCloses
    BY <1>2, <1>8 DEF PeerCloses, history
  <1> QED  BY <1>1, <1>3, <1>4, <1>5, <1>6, <1>7, <1>8 DEF Next

\* What the host has of the responses.
Host == Elements(Held) \cup Elements(rx)

LEMMA ElementsOfConcat ==
    ASSUME NEW S, NEW front \in Seq(S), NEW rear \in Seq(S)
    PROVE  Elements(front \o rear) \subseteq Elements(front) \cup Elements(rear)
  <1>1. \A i \in 1..Len(front \o rear) :
           \/ i \in 1..Len(front) /\ (front \o rear)[i] = front[i]
           \/ i - Len(front) \in 1..Len(rear) /\ (front \o rear)[i] = rear[i - Len(front)]
    OBVIOUS
  <1> QED  BY <1>1 DEF Elements

LEMMA HostStep ==
    ASSUME TypeOK, HolderIsReading, LocalsAreHeld, [Next]_vars
    PROVE  Host' \subseteq Host \cup {Stray} \cup (IF Arrive THEN {Head(wire)} ELSE {})
  <1> USE DEF Host
  <1>0. /\ Elements(<< >>) = {} /\ Held \in Seq(Bytes) /\ rx \in Seq(Bytes)
        /\ \A t \in Thread : payload[t] \in Seq(Bytes)
    BY StreamType DEF Elements, TypeOK
  <1>1. CASE Held' = Held /\ rx' = rx
    BY <1>1
  <1>2. ASSUME NEW t \in Thread, NEW value, Return(t, value), UNCHANGED rx
        PROVE  Host' \subseteq Host
    <2>1. Held' = << >>
      BY <1>2 DEF Return, Held
    <2> QED  BY <1>0, <1>2, <2>1
  <1>3. ASSUME NEW t \in Thread, Drain(t) PROVE Host' \subseteq Host
    <2>1. Held = << >> /\ Held' = << >> /\ (rx' = << >> \/ rx' = rx)
      BY <1>3 DEF Drain, Held
    <2> QED  BY <1>0, <2>1
  <1>4. ASSUME NEW t \in Thread, LockRead(t) PROVE Host' \subseteq Host
    <2>1. Held' = << >> /\ rx' = rx
      BY <1>4, ClientAssumption DEF LockRead, linkVars, Held, LocalsAreHeld, Reading
    <2> QED  BY <1>0, <2>1
  <1>5. ASSUME NEW t \in Thread, TakeBytes(t) PROVE Host' \subseteq Host
    <2>1. read_lock = t /\ Held = payload[t]
      BY <1>5, HeldByReader DEF TakeBytes, Reading
    <2>2. Held' = Held \o rx /\ rx' = << >>
      BY <1>5, <2>1, ClientAssumption DEF TakeBytes, Held, TypeOK
    <2>3. Elements(Held') \subseteq Elements(Held) \cup Elements(rx)
      BY <1>0, <2>2, ElementsOfConcat
    <2> QED  BY <1>0, <2>2, <2>3
  <1>6. ASSUME NEW t \in Thread, UnframeFrame(t) \/ UnframeRear(t) PROVE Host' \subseteq Host \cup {Stray}
    <2>1. read_lock = t /\ Held = payload[t] /\ rx' = rx
      BY <1>6, HeldByReader DEF UnframeFrame, UnframeRear, linkVars, Reading
    <2>2. CASE UnframeFrame(t)
      <3>1. PICK skip \in {0, 1} : /\ Len(payload[t]) >= skip + 2
                                   /\ payload' = [payload EXCEPT ![t] = SubSeq(@, skip + 3, Len(@))]
        BY <2>2 DEF UnframeFrame
      <3>2. Held' = SubSeq(Held, skip + 3, Len(Held))
        BY <2>1, <2>2, <3>1, ClientAssumption DEF UnframeFrame, Held, TypeOK
      <3>3. \A i \in 1..Len(Held') : skip + 2 + i \in 1..Len(Held) /\ Held'[i] = Held[skip + 2 + i]
        BY <1>0, <2>1, <3>1, <3>2
      <3>4. Elements(Held') \subseteq Elements(Held)
        BY <3>3 DEF Elements
      <3> QED  BY <2>1, <3>4
    <2>3. CASE UnframeRear(t)
      <3>1. Held' = <<Stray>> \o Tail(Held) /\ Held # << >>
        BY <2>1, <2>3, ClientAssumption DEF UnframeRear, StartsWith, Held, TypeOK
      <3>2. <<Stray>> \in Seq(Bytes) /\ Tail(Held) \in Seq(Bytes)
        BY <1>0, <3>1, StrayIsByte
      <3>3. Elements(Held') \subseteq Elements(<<Stray>>) \cup Elements(Tail(Held))
        BY <3>1, <3>2, ElementsOfConcat
      <3>4. Elements(<<Stray>>) \subseteq {Stray}
        BY DEF Elements
      <3>5. \A i \in 1..Len(Tail(Held)) : i + 1 \in 1..Len(Held) /\ Tail(Held)[i] = Held[i + 1]
        BY <1>0, <3>1
      <3>6. Elements(Tail(Held)) \subseteq Elements(Held)
        BY <3>5 DEF Elements
      <3> QED  BY <2>1, <3>3, <3>4, <3>6
    <2> QED  BY <1>6, <2>2, <2>3
  <1>7. ASSUME NEW t \in Thread, Step(t) PROVE Host' \subseteq Host \cup {Stray}
    <2>1. CASE Drain(t) \/ LockRead(t) \/ TakeBytes(t) \/ UnframeFrame(t) \/ UnframeRear(t)
      BY <2>1, <1>3, <1>4, <1>5, <1>6
    <2>2. CASE Write(t)
      BY <2>2, <1>1 DEF Write, readVars, Held
    <2>3. CASE PollNothing(t)
      BY <2>3, <1>2 DEF PollNothing, linkVars, readVars, Held
    <2>4. CASE PollClosed(t) \/ Deadline(t)
      BY <2>4, <1>2 DEF PollClosed, Deadline, linkVars
    <2>5. CASE UnframeNothing(t)
      BY <2>5, <1>2 DEF UnframeNothing, linkVars, readVars, Held
    <2> QED  BY <1>7, <2>1, <2>2, <2>3, <2>4, <2>5 DEF Step, Poll, Unframe
  <1>8. CASE Arrive
    <2>1. Held' = Held /\ rx' = Append(rx, Head(wire))
      BY <1>8 DEF Arrive, readVars, Held
    <2>2. wire \in Seq(Bytes) /\ wire # << >> /\ Head(wire) \in Bytes
      BY <1>8 DEF Arrive, TypeOK
    <2>3. \A i \in 1..Len(rx') : (i \in 1..Len(rx) /\ rx'[i] = rx[i]) \/ rx'[i] = Head(wire)
      BY <1>0, <2>1, <2>2
    <2>4. Elements(rx') \subseteq Elements(rx) \cup {Head(wire)}
      BY <2>3 DEF Elements
    <2> QED  BY <1>8, <2>1, <2>4
  <1>9. ASSUME NEW t \in Thread, NEW k \in Kind, Call(t, k) PROVE Held' = Held /\ rx' = rx
    BY <1>9 DEF Call, linkVars, readVars, Held
  <1>10. CASE Tick \/ DeviceReplies \/ DeviceIgnores \/ PeerCloses \/ UNCHANGED vars
    BY <1>10, <1>1 DEF Tick, DeviceReplies, DeviceIgnores, PeerCloses, vars, linkVars, readVars, Held
  <1> QED  BY <1>1, <1>7, <1>8, <1>9, <1>10 DEF Next

\* No request and no response is ever in two places.
LEMMA OnePlaceStep ==
    ASSUME TypeOK, TypeOK', HolderIsReading, LocalsAreHeld, OwnRequest, StreamInOrder, OnePlace,
           [Next]_vars
    PROVE  OnePlace'
  <1> DEFINE here == Asked(Stream) \cup arrived
             there == Asked(Stream') \cup arrived'
             box == Elements(inbox)
             boxN == Elements(inbox')
  <1>0. /\ box \subseteq Requests /\ Unsent \subseteq Requests /\ 0 \notin Requests
        /\ box \cap here = {} /\ Unsent \cap (box \cup here) = {}
    BY InboxStep, UnsentStep DEF OnePlace, Requests
  <1>1. \A i, j \in 1..Len(inbox') : inbox'[i] = inbox'[j] => i = j
    BY InboxStep
  <1>2. /\ there \subseteq here \cup {0} \cup (IF DeviceReplies THEN {Head(inbox)} ELSE {})
        /\ Arrive => Head(wire).req \in Asked(Stream)
    <2>1. Arrive => Head(wire).req \in Asked(Stream)
      BY ArrivingByte
    <2>2. arrived' \subseteq here
      BY <2>1, WireStep
    <2>3. Asked(Stream') \subseteq here \cup {0} \cup (IF DeviceReplies THEN {Head(inbox)} ELSE {})
      BY StreamSets
    <2> QED  BY <2>1, <2>2, <2>3
  <1> HIDE DEF here, there
  <1>3. /\ Unsent' \subseteq Unsent
        /\ \/ boxN \subseteq box
           \/ \E t \in Thread : boxN = box \cup {cur[t]} /\ cur[t] \in Unsent \ Unsent'
        /\ DeviceReplies => boxN \subseteq box \ {Head(inbox)} /\ Head(inbox) \in box
    BY InboxStep, UnsentStep, HeadOfInbox DEF DeviceReplies
  <1> HIDE DEF box, boxN
  <1>4. boxN \cap there = {}
    BY <1>0, <1>2, <1>3
  <1>5. Unsent' \cap (boxN \cup there) = {}
    BY <1>0, <1>2, <1>3
  <1>6. Fronts(wire') \cap arrived' = {}
    <2>1. CASE arrived' = arrived /\ Fronts(wire') \subseteq Fronts(wire)
      BY <2>1 DEF OnePlace
    <2>2. CASE /\ DeviceReplies /\ arrived' = arrived
               /\ Fronts(wire') \subseteq Fronts(wire) \cup {Head(inbox)}
      <3>1. Head(inbox) \notin arrived
        BY <2>2, <1>0, <1>3 DEF box, here
      <3> QED  BY <2>2, <3>1 DEF OnePlace
    <2>3. CASE /\ Arrive /\ arrived' = arrived \cup {Head(wire).req}
               /\ Fronts(wire') \subseteq Fronts(wire) \ {Head(wire).req}
      BY <2>3 DEF OnePlace
    <2> QED  BY <2>1, <2>2, <2>3, WireStep
  <1>7. Fronts(Held') \cup Fronts(rx') \subseteq arrived'
    <2>1. arrived \subseteq arrived' /\ (Arrive => Head(wire).req \in arrived')
      BY WireStep DEF Arrive
    <2>2. ASSUME NEW b \in Host', b.part = "front" PROVE b.req \in arrived'
      <3>1. CASE b \in Host
        <4>1. b.req \in Fronts(Held) \cup Fronts(rx)
          BY <2>2, <3>1 DEF Fronts, Host
        <4> QED  BY <4>1, <2>1 DEF OnePlace
      <3>2. CASE b = Stray
        BY <2>2, <3>2, StrayIsByte
      <3>3. CASE Arrive /\ b = Head(wire)
        BY <2>1, <3>3
      <3> QED  BY <3>1, <3>2, <3>3, HostStep
    <2> QED  BY <2>2 DEF Fronts, Host
  <1> QED  BY <1>1, <1>4, <1>5, <1>6, <1>7 DEF OnePlace, there, boxN

\* A response that is no longer ahead in the stream does not come back.
LEMMA NothingComesBack ==
    ASSUME TypeOK, TypeOK', HolderIsReading, LocalsAreHeld, OwnRequest, StreamInOrder, OnePlace,
           [Next]_vars
    PROVE  /\ arrived \subseteq arrived'
           /\ Fronts(Stream') \cap arrived \subseteq Fronts(Stream)
  <1>1. arrived \subseteq arrived'
    BY WireStep
  <1>2. CASE Fronts(Stream') \subseteq Fronts(Stream)
    BY <1>1, <1>2
  <1>3. CASE DeviceReplies /\ Fronts(Stream') = Fronts(Stream) \cup {Head(inbox)}
    <2>1. Head(inbox) \in Elements(inbox)
      BY <1>3, HeadOfInbox DEF DeviceReplies
    <2>2. Head(inbox) \notin arrived
      BY <2>1 DEF OnePlace
    <2> QED  BY <1>1, <1>3, <2>2
  <1> QED  BY <1>2, <1>3, StreamSets

LEMMA FrontIsBehind ==
    ASSUME NEW whole \in Seq(Bytes), Stretch(whole), NEW part \in Seq(Bytes),
           NEW n \in Nat, Behind(n, part, whole),
           NEW k \in 1..n, k \in 1..Len(whole)
    PROVE  /\ whole[k].req \notin Fronts(part)
           /\ IncreasingFronts(whole) => \A b \in Fronts(part) : whole[k].req < b
  <1>1. ASSUME NEW i \in 1..Len(part), part[i].part = "front"
        PROVE  /\ part[i].req # whole[k].req
               /\ IncreasingFronts(whole) => whole[k].req < part[i].req
    <2>1. n + i \in 1..Len(whole) /\ k < n + i /\ part[i] = whole[n + i]
      BY DEF Behind
    <2> QED  BY <1>1, <2>1 DEF Stretch, IncreasingFronts
  <1> QED  BY <1>1 DEF Fronts, Elements

\* The response that UnframeFrame takes was ahead, has begun to arrive, and is
\* behind.
LEMMA TakenFrame ==
    ASSUME TypeOK, TypeOK', HolderIsReading, StreamInOrder, OnePlace, NEW t \in Thread, UnframeFrame(t)
    PROVE  \E a \in Requests :
              /\ match' = [match EXCEPT ![t] = Matched(t, a)]
              /\ a \in Fronts(Stream) \cap arrived
              /\ a \notin Fronts(Stream')
              /\ IncreasingFronts(Stream) => \A b \in Fronts(Stream') : a < b
  <1>1. PICK skip \in {0, 1} :
          /\ Len(payload[t]) >= skip + 2
          /\ payload[t][skip + 1].part = "front"
          /\ payload[t][skip + 1].req \in Requests
          /\ payload[t][skip + 1].req \in Fronts(Stream)
          /\ match' = [match EXCEPT ![t] = Matched(t, payload[t][skip + 1].req)]
          /\ payload' = [payload EXCEPT ![t] = SubSeq(@, skip + 3, Len(@))]
    BY FrameTaken
  <1>2. read_lock = t /\ Held = payload[t] /\ Held \in Seq(Bytes) /\ rx \in Seq(Bytes) /\ wire \in Seq(Bytes)
    BY HeldByReader, StreamType DEF UnframeFrame, Reading, TypeOK
  <1>3. Held' = SubSeq(Held, (skip + 2) + 1, Len(Held)) /\ rx' = rx /\ wire' = wire
    <2>1. read_lock' = t /\ rx' = rx /\ wire' = wire
      BY <1>2 DEF UnframeFrame, linkVars
    <2>2. payload'[t] = SubSeq(payload[t], skip + 3, Len(payload[t]))
      BY <1>1 DEF TypeOK
    <2>3. Held' = payload'[t]
      BY <2>1, ClientAssumption DEF Held
    <2>4. skip + 3 = (skip + 2) + 1
      OBVIOUS
    <2> QED  BY <1>2, <2>1, <2>2, <2>3, <2>4
  <1>4. skip + 2 \in 0..Len(Held) /\ skip + 2 \in Nat /\ skip + 1 \in 1..skip + 2 /\ skip + 1 \in 1..Len(Held)
    BY <1>1, <1>2
  <1>5. Behind(skip + 2, Stream', Stream)
    BY <1>2, <1>3, <1>4, WithinLessHeld DEF Stream
  <1>6. skip + 1 \in 1..Len(Stream) /\ Stream[skip + 1] = Held[skip + 1]
    <2>1. Held \o rx \in Seq(Bytes) /\ Len(Held \o rx) = Len(Held) + Len(rx)
      BY <1>2
    <2>2. skip + 1 \in 1..Len(Held \o rx) /\ (Held \o rx)[skip + 1] = Held[skip + 1]
      BY <1>2, <1>4, <2>1
    <2>3. Len(Stream) = Len(Held) + Len(rx) + Len(wire) /\ Stream[skip + 1] = (Held \o rx)[skip + 1]
      <3> DEFINE a == Held \o rx
      <3>1. a \in Seq(Bytes) /\ skip + 1 \in 1..Len(a) /\ Len(a) = Len(Held) + Len(rx) /\ Stream = a \o wire
        BY <2>1, <2>2 DEF Stream
      <3> HIDE DEF a
      <3>2. Len(Stream) = Len(a) + Len(wire)
        BY <1>2, <3>1, ConcatProperties
      <3>3. Stream[skip + 1] = a[skip + 1]
        BY <1>2, <3>1
      <3> QED  BY <3>1, <3>2, <3>3 DEF a
    <2> QED  BY <1>2, <1>4, <2>2, <2>3
  <1>7. /\ Held[skip + 1].req \notin Fronts(Stream')
        /\ IncreasingFronts(Stream) => \A b \in Fronts(Stream') : Held[skip + 1].req < b
    BY <1>4, <1>5, <1>6, FrontIsBehind, StreamType, NextStreamType DEF StreamInOrder
  <1>8. Held[skip + 1].req \in Fronts(Held)
    BY <1>1, <1>2, <1>4, AskedMember
  <1> QED  BY <1>1, <1>2, <1>7, <1>8 DEF OnePlace

\* Python's None and the two outcomes that are no response.
LEMMA NoRequests ==
    /\ None \notin Requests /\ Open \notin Requests /\ Raised \notin Requests
    /\ None # Open /\ None # Raised /\ Open # Raised
  <1>1. \A q \in Requests : q \in Nat
    BY ClientAssumption DEF Requests
  <1>2. Open \notin Nat \cup {None} /\ Raised \notin Nat \cup {None} /\ None \notin Nat
    BY ClientAssumption
  <1> QED  BY <1>1, <1>2, ClientAssumption

\* What a step does to match, result and before.
Ends(t, value) ==
    /\ pc[t] # "idle"
    /\ Leave(t, value)
    /\ UNCHANGED <<cur, kind, before>>
Drains(t) ==
    /\ pc[t] = "drain"
    /\ pc' = [pc EXCEPT ![t] = "write"]
    /\ before' = [before EXCEPT ![cur[t]] = arrived]
    /\ UNCHANGED <<match, result, cur, kind, arrived>>
    /\ Held = << >> /\ Held' = << >> /\ rx' = << >> /\ wire' = wire
GoesOn ==
    /\ UNCHANGED <<match, result, before>>
    /\ \A t \in Thread : pc[t] # "idle" => pc'[t] # "idle"
    /\ \A t \in Thread : pc'[t] \notin {"idle", "drain"} =>
                             pc[t] \notin {"idle", "drain"} /\ cur'[t] = cur[t]

LEMMA KindsOfStep ==
    ASSUME TypeOK, [Next]_vars
    PROVE  \/ \E t \in Thread : Ends(t, Raised)
           \/ \E t \in Thread : pc[t] \in Reading /\ Ends(t, match[t])
           \/ \E t \in Thread : UnframeFrame(t)
           \/ \E t \in Thread : Drains(t)
           \/ GoesOn
  <1> USE DEF Reading
  <1>1. ASSUME NEW t \in Thread, NEW k \in Kind, Call(t, k) PROVE GoesOn
    BY <1>1 DEF Call, Goto, GoesOn, TypeOK, readVars, history
  <1>2. ASSUME NEW t \in Thread, Drain(t) PROVE Ends(t, Raised) \/ Drains(t)
    BY <1>2 DEF Drain, Goto, Ends, Drains, Held, readVars
  <1>3. ASSUME NEW t \in Thread, Write(t) \/ LockRead(t) PROVE GoesOn
    BY <1>3 DEF Write, LockRead, Goto, GoesOn, TypeOK, readVars, history
  <1>4. ASSUME NEW t \in Thread, Poll(t)
        PROVE  Ends(t, Raised) \/ (pc[t] \in Reading /\ Ends(t, match[t])) \/ GoesOn
    <2>1. CASE TakeBytes(t)
      BY <2>1 DEF TakeBytes, Goto, GoesOn, TypeOK, history
    <2>2. CASE PollNothing(t)
      BY <2>2 DEF PollNothing, Return, Ends, Goto, GoesOn, TypeOK, readVars, history
    <2>3. CASE PollClosed(t) \/ Deadline(t)
      BY <2>3 DEF PollClosed, Deadline, Return, Ends, history
    <2> QED  BY <1>4, <2>1, <2>2, <2>3 DEF Poll
  <1>5. ASSUME NEW t \in Thread, Unframe(t)
        PROVE  UnframeFrame(t) \/ (pc[t] \in Reading /\ Ends(t, match[t])) \/ GoesOn
    <2>1. CASE UnframeRear(t)
      BY <2>1 DEF UnframeRear, callVars, history, GoesOn
    <2>2. CASE UnframeNothing(t)
      BY <2>2 DEF UnframeNothing, Return, Ends, Goto, GoesOn, TypeOK, readVars, history
    <2> QED  BY <1>5, <2>1, <2>2 DEF Unframe
  <1>6. CASE Tick
    BY <1>6 DEF Tick, GoesOn, history
  <1>7. CASE DeviceReplies \/ DeviceIgnores \/ Arrive \/ PeerCloses \/ UNCHANGED vars
    BY <1>7 DEF DeviceReplies, DeviceIgnores, Arrive, PeerCloses, vars, callVars, readVars, history, GoesOn
  <1> QED  BY <1>1, <1>2, <1>3, <1>4, <1>5, <1>6, <1>7 DEF Next, Step

LEMMA TakenOnceStep ==
    ASSUME TypeOK, TypeOK', HolderIsReading, LocalsAreHeld, OwnRequest, StreamInOrder, OnePlace,
           TakenOnce, [Next]_vars
    PROVE  TakenOnce'
  <1> DEFINE Behindhand == arrived \ Fronts(Stream)
             BehindhandN == arrived' \ Fronts(Stream')
  <1>0. Behindhand \subseteq BehindhandN
    BY NothingComesBack
  <1>1. /\ \A t \in Thread : match[t] # None => match[t] \in Behindhand
        /\ \A q \in Requests : result[q] \in Requests => result[q] \in Behindhand
        /\ \A t \in Thread, q \in Requests : match[t] # None => result[q] # match[t]
        /\ \A q, r \in Requests : result[q] \in Requests /\ result[q] = result[r] => q = r
    BY DEF TakenOnce
  <1>2. SUFFICES
           /\ \A t \in Thread : match'[t] # None => match'[t] \in BehindhandN
           /\ \A q \in Requests : result'[q] \in Requests => result'[q] \in BehindhandN
           /\ \A t \in Thread, q \in Requests : match'[t] # None => result'[q] # match'[t]
           /\ \A q, r \in Requests : result'[q] \in Requests /\ result'[q] = result'[r] => q = r
    BY DEF TakenOnce
  <1> USE DEF TypeOK
  <1>3. ASSUME NEW t \in Thread, NEW value, Ends(t, value)
        PROVE  /\ cur[t] \in Requests
               /\ \A u \in Thread : match'[u] = IF u = t THEN None ELSE match[u]
               /\ \A q \in Requests : result'[q] = IF q = cur[t] THEN value ELSE result[q]
    <2>1. cur[t] \in Requests
      BY <1>3 DEF Ends, OwnRequest, Requests
    <2> QED  BY <1>3, <2>1 DEF Ends, Leave
  <1>4. CASE \E t \in Thread : Ends(t, Raised)
    <2>1. PICK t \in Thread : Ends(t, Raised)
      BY <1>4
    <2>2. Raised \notin Requests
      BY NoRequests
    <2>3. \A u \in Thread : match[u] # Raised
      BY NoRequests
    <2>4. \A u \in Thread : match'[u] # None => match'[u] = match[u]
      BY <1>3, <2>1
    <2>5. \A q \in Requests : result'[q] = result[q] \/ result'[q] = Raised
      BY <1>3, <2>1
    <2> HIDE DEF Behindhand, BehindhandN
    <2> QED  BY <1>0, <1>1, <2>2, <2>3, <2>4, <2>5
  <1>5. CASE \E t \in Thread : pc[t] \in Reading /\ Ends(t, match[t])
    <2>1. PICK t \in Thread : pc[t] \in Reading /\ Ends(t, match[t])
      BY <1>5
    <2>2. \A u \in Thread : u # t => match[u] = None
      BY <2>1, HeldByReader DEF LocalsAreHeld
    <2>3. None \notin Requests
      BY NoRequests
    <2> HIDE DEF Behindhand, BehindhandN
    <2>4. \A u \in Thread : match'[u] = None
      BY <1>3, <2>1, <2>2
    <2>5. cur[t] \in Requests /\ \A q \in Requests : result'[q] = IF q = cur[t] THEN match[t] ELSE result[q]
      BY <1>3, <2>1
    <2>6. ASSUME NEW q \in Requests, result'[q] \in Requests PROVE result'[q] \in BehindhandN
      <3>1. CASE q = cur[t]
        <4>1. result'[q] = match[t] /\ match[t] # None
          BY <2>3, <2>5, <2>6, <3>1
        <4> QED  BY <4>1, <1>0, <1>1
      <3>2. CASE q # cur[t]
        <4>1. result'[q] = result[q]
          BY <2>5, <3>2
        <4> QED  BY <4>1, <1>0, <1>1, <2>6
      <3> QED  BY <3>1, <3>2
    <2>7. \A q, r \in Requests : result'[q] \in Requests /\ result'[q] = result'[r] => q = r
      <3>1. ASSUME NEW q \in Requests, NEW r \in Requests,
                   result'[q] \in Requests, result'[q] = result'[r], q # r
            PROVE  FALSE
        <4>1. CASE q = cur[t]
          BY <1>1, <2>3, <2>5, <3>1, <4>1
        <4>2. CASE r = cur[t]
          BY <1>1, <2>3, <2>5, <3>1, <4>2
        <4>3. CASE q # cur[t] /\ r # cur[t]
          BY <1>1, <2>5, <3>1, <4>3
        <4> QED  BY <4>1, <4>2, <4>3
      <3> QED  BY <3>1
    <2> QED  BY <2>4, <2>6, <2>7
  <1>6. CASE \E t \in Thread : UnframeFrame(t)
    <2>1. PICK t \in Thread : UnframeFrame(t)
      BY <1>6
    <2>2. PICK a \in Requests :
             /\ match' = [match EXCEPT ![t] = Matched(t, a)]
             /\ a \in Fronts(Stream) \cap arrived
             /\ a \notin Fronts(Stream')
      BY <2>1, TakenFrame
    <2>3. a \in BehindhandN /\ a \notin Behindhand
      BY <1>0, <2>2, NothingComesBack
    <2>4. result' = result
      BY <2>1 DEF UnframeFrame, callVars
    <2>5. \A u \in Thread : match'[u] = match[u] \/ match'[u] = a
      BY <2>2 DEF Matched
    <2> HIDE DEF Behindhand, BehindhandN
    <2>6. a # None
      BY NoRequests
    <2>7. \A u \in Thread : match'[u] # None => match'[u] \in BehindhandN
      BY <1>0, <1>1, <2>3, <2>5
    <2>8. \A u \in Thread, q \in Requests : match'[u] # None => result'[q] # match'[u]
      <3>1. \A q \in Requests : result'[q] # a
        BY <1>1, <2>2, <2>3, <2>4
      <3> QED  BY <1>1, <2>4, <2>5, <3>1
    <2>9. /\ \A q \in Requests : result'[q] \in Requests => result'[q] \in BehindhandN
          /\ \A q, r \in Requests : result'[q] \in Requests /\ result'[q] = result'[r] => q = r
      BY <1>0, <1>1, <2>4
    <2> QED  BY <2>7, <2>8, <2>9
  <1>7. CASE UNCHANGED <<match, result>>
    <2> HIDE DEF Behindhand, BehindhandN
    <2> QED  BY <1>0, <1>1, <1>7
  <1> QED  BY <1>4, <1>5, <1>6, <1>7, KindsOfStep DEF Drains, GoesOn

LEMMA ForgottenStep ==
    ASSUME TypeOK, TypeOK', HolderIsReading, LocalsAreHeld, OwnRequest, StreamInOrder, OnePlace,
           Forgotten, [Next]_vars
    PROVE  Forgotten'
  <1> USE DEF TypeOK
  <1>0. /\ arrived \subseteq arrived'
        /\ Fronts(Stream') \cap arrived \subseteq Fronts(Stream)
    BY NothingComesBack
  <1>1. /\ \A q \in Requests : before[q] \subseteq arrived /\ before[q] \subseteq Requests
        /\ \A t \in Thread : pc[t] \notin {"idle", "drain"} =>
              /\ cur[t] \in Requests
              /\ Fronts(Stream) \cap before[cur[t]] = {}
              /\ match[t] \notin before[cur[t]]
        /\ \A q \in Requests : result[q] \in Requests => result[q] \notin before[q]
    <2>1. \A t \in Thread : pc[t] \notin {"idle", "drain"} => cur[t] \in Requests
      BY DEF OwnRequest, Requests
    <2> QED  BY <2>1 DEF Forgotten
  <1>2. SUFFICES
           /\ \A q \in Requests : before'[q] \subseteq arrived'
           /\ \A t \in Thread : pc'[t] \notin {"idle", "drain"} =>
                 /\ Fronts(Stream') \cap before'[cur'[t]] = {}
                 /\ match'[t] \notin before'[cur'[t]]
           /\ \A q \in Requests : result'[q] \in Requests => result'[q] \notin before'[q]
    BY DEF Forgotten
  <1>3. None \notin Requests /\ Raised \notin Requests
    BY NoRequests
  <1>4. ASSUME NEW t \in Thread, NEW value, Ends(t, value),
               value = Raised \/ value \notin before[cur[t]]
        PROVE  Forgotten'
    <2>1. cur[t] \in Requests
      BY <1>4 DEF Ends, OwnRequest, Requests
    <2>2. /\ before' = before /\ cur' = cur
          /\ \A u \in Thread : u # t => match'[u] = match[u] /\ pc'[u] = pc[u]
          /\ pc'[t] = "idle"
          /\ \A q \in Requests : result'[q] = IF q = cur[t] THEN value ELSE result[q]
      BY <1>4, <2>1 DEF Ends, Leave, Goto
    <2>3. \A u \in Thread : pc'[u] \notin {"idle", "drain"} =>
                 /\ Fronts(Stream') \cap before'[cur'[u]] = {}
                 /\ match'[u] \notin before'[cur'[u]]
      BY <1>0, <1>1, <2>2
    <2>4. ASSUME NEW q \in Requests, result'[q] \in Requests PROVE result'[q] \notin before'[q]
      <3>1. CASE q = cur[t]
        BY <3>1, <1>3, <1>4, <2>2, <2>4
      <3>2. CASE q # cur[t]
        BY <3>2, <1>1, <2>2, <2>4
      <3> QED  BY <3>1, <3>2
    <2> QED  BY <1>0, <1>1, <2>2, <2>3, <2>4 DEF Forgotten
  <1>5. CASE \E t \in Thread : Ends(t, Raised)
    BY <1>4, <1>5 DEF Forgotten
  <1>6. CASE \E t \in Thread : pc[t] \in Reading /\ Ends(t, match[t])
    <2>1. PICK t \in Thread : pc[t] \in Reading /\ Ends(t, match[t])
      BY <1>6
    <2>2. match[t] \notin before[cur[t]]
      BY <1>1, <2>1 DEF Reading
    <2> QED  BY <1>4, <2>1, <2>2 DEF Forgotten
  <1>7. CASE \E t \in Thread : UnframeFrame(t)
    <2>1. PICK t \in Thread : UnframeFrame(t)
      BY <1>7
    <2>2. PICK a \in Requests :
             /\ match' = [match EXCEPT ![t] = Matched(t, a)]
             /\ a \in Fronts(Stream) \cap arrived
             /\ a \notin Fronts(Stream')
      BY <2>1, TakenFrame
    <2>3. pc[t] = "unframe" /\ UNCHANGED <<pc, cur, result, before>>
      BY <2>1 DEF UnframeFrame, callVars, history
    <2>4. a \notin before[cur[t]]
      BY <1>1, <2>2, <2>3
    <2>5. \A u \in Thread : match'[u] = match[u] \/ (u = t /\ match'[u] = a)
      BY <2>2 DEF Matched
    <2> QED  BY <1>0, <1>1, <2>2, <2>3, <2>4, <2>5
  <1>8. CASE \E t \in Thread : Drains(t)
    <2>1. PICK t \in Thread : Drains(t)
      BY <1>8
    <2>2. /\ cur[t] \in Requests /\ result[cur[t]] = Open
          /\ \A u \in Thread : u # t /\ pc[u] # "idle" => cur[u] # cur[t]
      BY <2>1 DEF Drains, OwnRequest, Requests
    <2>3. /\ \A q \in Requests : before'[q] = IF q = cur[t] THEN arrived ELSE before[q]
          /\ \A u \in Thread : u # t => pc'[u] = pc[u]
          /\ UNCHANGED <<match, result, cur, arrived>>
      BY <2>1, <2>2 DEF Drains
    <2>4. Stream' = wire
      <3>1. wire \in Seq(Bytes) /\ Stream' = (<< >> \o << >>) \o wire
        BY <2>1 DEF Drains, Stream
      <3>2. << >> \o << >> = << >>
        OBVIOUS
      <3> QED  BY <3>1, <3>2
    <2>5. Fronts(Stream') \cap arrived = {}
      BY <2>4 DEF OnePlace
    <2>6. match[t] = None
      BY <2>1 DEF Drains, LocalsAreHeld, Reading
    <2>7. Open \notin Requests /\ arrived \subseteq Requests
      BY NoRequests
    <2>8. ASSUME NEW u \in Thread, pc'[u] \notin {"idle", "drain"}
          PROVE  /\ Fronts(Stream') \cap before'[cur'[u]] = {}
                 /\ match'[u] \notin before'[cur'[u]]
      <3>1. CASE u = t
        BY <3>1, <1>3, <2>2, <2>3, <2>5, <2>6, <2>7
      <3>2. CASE u # t
        <4>1. pc[u] \notin {"idle", "drain"} /\ cur[u] # cur[t] /\ cur[u] \in Requests
          BY <3>2, <2>2, <2>3, <2>8, <1>1
        <4> QED  BY <4>1, <1>0, <1>1, <2>3
      <3> QED  BY <3>1, <3>2
    <2>9. \A q \in Requests : result'[q] \in Requests => result'[q] \notin before'[q]
      BY <1>1, <2>2, <2>3, <2>7
    <2>10. \A q \in Requests : before'[q] \subseteq arrived'
      BY <1>1, <2>3
    <2> QED  BY <2>8, <2>9, <2>10
  <1>9. CASE GoesOn
    BY <1>0, <1>1, <1>9 DEF GoesOn
  <1> QED  BY <1>5, <1>6, <1>7, <1>8, <1>9, KindsOfStep

-----------------------------------------------------------------------------
(* The theorems of any number of threads.                                   *)

LEMMA ClientInit ==
    ASSUME Init
    PROVE  TypeOK /\ ClientInv
  <1>1. /\ << >> \in Seq(Bytes) /\ << >> \in Seq(Requests) /\ << >> \in Seq(Kind)
        /\ Len(<< >>) = 0 /\ << >> \o << >> = << >>
        /\ Elements(<< >>) = {} /\ Asked(<< >>) = {} /\ Fronts(<< >>) = {}
    BY DEF Elements, Asked, Fronts
  <1>2. TypeOK
    BY <1>1, ClientAssumption DEF Init, TypeOK, Outcome, Longest
  <1>3. Held = << >> /\ Stream = << >>
    BY <1>1 DEF Init, Held, Stream
  <1>4. Stretch(<< >>)
    BY <1>1 DEF Stretch
  <1>5. HolderIsReading /\ LocalsAreHeld /\ OwnRequest
    BY ClientAssumption DEF Init, HolderIsReading, LocalsAreHeld, OwnRequest
  <1>6. StreamInOrder
    BY <1>1, <1>3, <1>4 DEF Init, StreamInOrder
  <1>7. OnePlace
    BY <1>1, <1>3 DEF Init, OnePlace
  <1>8. TakenOnce /\ Forgotten
    BY <1>1, <1>3, ClientAssumption DEF Init, TakenOnce, Forgotten, Requests
  <1> QED  BY <1>2, <1>5, <1>6, <1>7, <1>8 DEF ClientInv

LEMMA ClientStep ==
    ASSUME TypeOK, ClientInv, [Next]_vars
    PROVE  TypeOK' /\ ClientInv'
  <1>1. TypeOK'
    BY TypeStep DEF ClientInv
  <1> QED  BY <1>1, HolderStep, LocalsStep, OwnRequestStep, StreamInOrderStep, OnePlaceStep,
              TakenOnceStep, ForgottenStep DEF ClientInv

\* Whatever the threads, the device, the link and the clock do, the locks, the
\* calls, the byte stream and the places of the responses stay consistent.
THEOREM ClientInvariant == SafetySpec => [](TypeOK /\ ClientInv)
  <1>1. Init => TypeOK /\ ClientInv
    BY ClientInit
  <1>2. (TypeOK /\ ClientInv) /\ [Next]_vars => (TypeOK /\ ClientInv)'
    BY ClientStep
  <1> QED  BY <1>1, <1>2, PTL DEF SafetySpec

\* The variables of the client have the types the code gives them.
THEOREM ClientTypeCorrect == SafetySpec => []TypeOK
  BY ClientInvariant, PTL

\* No return, no deadline and no exception of a read leaves read_lock locked,
\* and none releases it for another thread (VESC.read).
THEOREM LockGivenBack == SafetySpec => []HolderIsReading
  <1>1. TypeOK /\ ClientInv => HolderIsReading
    BY DEF ClientInv
  <1> QED  BY <1>1, ClientInvariant, PTL

\* A response that had begun to arrive when a request drained the input is not
\* what the request returns, with any number of threads (VESC.write, VESC.read).
THEOREM DrainedStaysAway == SafetySpec => []DrainedNeverReturned
  <1>1. ASSUME TypeOK, ClientInv, NEW q \in Requests PROVE result[q] \notin before[q]
    <2>1. before[q] \subseteq Requests
      BY <1>1 DEF TypeOK
    <2>2. result[q] \in Requests => result[q] \notin before[q]
      BY <1>1 DEF ClientInv, Forgotten
    <2> QED  BY <2>1, <2>2
  <1>2. TypeOK /\ ClientInv => DrainedNeverReturned
    BY <1>1 DEF DrainedNeverReturned
  <1> QED  BY <1>2, ClientInvariant, PTL

\* Two calls never return the same response, even though a read may take what
\* the device sent for another thread's request (VESC.read).
THEOREM OneCallerEach == SafetySpec => []HandedOutOnce
  <1>1. ASSUME TypeOK, ClientInv, NEW q \in 1..Len(kind), NEW r \in 1..Len(kind),
               q # r, result[q] = result[r]
        PROVE  result[q] \notin Requests
    <2>1. q \in Requests /\ r \in Requests
      BY <1>1, ClientAssumption DEF TypeOK, Requests
    <2> QED  BY <1>1, <2>1 DEF ClientInv, TakenOnce
  <1>2. TypeOK /\ ClientInv => HandedOutOnce
    BY <1>1 DEF HandedOutOnce
  <1> QED  BY <1>2, ClientInvariant, PTL

-----------------------------------------------------------------------------
(* One thread: the time a call takes.                                       *)

OneThread == \A t, u \in Thread : t = u

LEMMA TimeStep ==
    ASSUME OneThread, TypeOK, ClientInTime, [Next]_vars
    PROVE  ClientInTime'
  <1> USE ClientAssumption DEF Reading
  <1>1. SUFFICES ASSUME NEW t \in Thread
                 PROVE  /\ pc'[t] \notin Reading => waited'[t] = 0
                        /\ pc'[t] \in Reading => waited'[t] + left'[t] <= MaxWait
                        /\ pc'[t] \in {"unframe", "sleep"} => left'[t] > 0
    BY DEF ClientInTime
  <1>2. /\ \A u \in Thread : u = t
        /\ waited[t] \in 0..Longest /\ left[t] \in 0..MaxWait
        /\ pc[t] \notin Reading => waited[t] = 0
        /\ pc[t] \in Reading => waited[t] + left[t] <= MaxWait
        /\ pc[t] \in {"unframe", "sleep"} => left[t] > 0
    BY DEF OneThread, TypeOK, ClientInTime
  <1>3. ASSUME NEW value, Leave(t, value) PROVE pc'[t] = "idle" /\ waited'[t] = 0
    BY <1>3 DEF Leave, Goto, TypeOK
  <1>4. ASSUME NEW k \in Kind, Call(t, k)
        PROVE  pc'[t] = "drain" /\ waited'[t] = waited[t] /\ pc[t] = "idle"
    BY <1>4 DEF Call, Goto, TypeOK
  <1>5. CASE Drain(t)
    <2>1. CASE Leave(t, Raised)
      BY <1>3, <2>1
    <2>2. CASE Goto(t, "write") /\ UNCHANGED waited
      BY <1>2, <1>5, <2>2 DEF Drain, Goto, TypeOK
    <2> QED  BY <1>5, <2>1, <2>2 DEF Drain
  <1>6. CASE Write(t)
    BY <1>2, <1>6 DEF Write, Goto, TypeOK
  <1>7. CASE LockRead(t)
    <2>1. pc'[t] = "poll" /\ left'[t] = MaxWait /\ waited'[t] = waited[t] /\ pc[t] = "lock"
      BY <1>7 DEF LockRead, Goto, TypeOK
    <2> QED  BY <1>2, <2>1
  <1>8. CASE Poll(t)
    <2>1. CASE Goto(t, "unframe") \/ Goto(t, "sleep")
      <3>1. waited' = waited /\ left' = left /\ left[t] > 0 /\ pc[t] = "poll"
        BY <1>8, <2>1 DEF Poll, TakeBytes, PollNothing, PollClosed, Deadline, Return, Leave,
                          Goto, readVars, TypeOK
      <3>2. pc'[t] \in {"unframe", "sleep"}
        BY <2>1 DEF Goto, TypeOK
      <3> QED  BY <1>2, <3>1, <3>2
    <2>2. CASE \E value : Leave(t, value)
      BY <1>3, <2>2
    <2>3. Goto(t, "unframe") \/ Goto(t, "sleep") \/ \E value : Leave(t, value)
      BY <1>8 DEF Poll, TakeBytes, PollNothing, PollClosed, Deadline, Return
    <2> QED  BY <2>1, <2>2, <2>3
  <1>9. CASE Unframe(t)
    <2>1. CASE UnframeFrame(t) \/ UnframeRear(t)
      BY <1>2, <2>1 DEF UnframeFrame, UnframeRear, callVars
    <2>2. CASE UnframeNothing(t)
      BY <1>2, <1>3, <2>2 DEF UnframeNothing, Return, Goto, readVars, TypeOK
    <2> QED  BY <1>9, <2>1, <2>2 DEF Unframe
  <1>10. CASE Tick
    <2>1. pc[t] = "sleep"
      BY <1>2, <1>10 DEF Tick
    <2>2. pc'[t] = "poll" /\ left'[t] = Sooner(left[t]) /\ waited'[t] = Later(waited[t], Longest)
      BY <1>10, <2>1 DEF Tick
    <2> QED  BY <1>2, <2>1, <2>2 DEF Sooner, Later, Longest
  <1>11. CASE DeviceReplies \/ DeviceIgnores \/ Arrive \/ PeerCloses \/ UNCHANGED vars
    BY <1>2, <1>11 DEF DeviceReplies, DeviceIgnores, Arrive, PeerCloses, vars, callVars, readVars
  <1>12. CASE \E u \in Thread, k \in Kind : Call(u, k)
    BY <1>2, <1>4, <1>12
  <1> QED  BY <1>2, <1>5, <1>6, <1>7, <1>8, <1>9, <1>10, <1>11, <1>12 DEF Next, Step

\* With one thread no call waits longer than max_wait, whatever arrives and
\* however it is cut: "max_wait bounds the total time so a dead link cannot
\* hang the caller" (VESC.read).
THEOREM WaitIsBounded ==
    ASSUME OneThread
    PROVE  SafetySpec => []BoundedWait
  <1>1. Init => ClientInTime
    BY DEF Init, ClientInTime, Reading
  <1>2. TypeOK /\ ClientInTime /\ [Next]_vars => ClientInTime'
    BY TimeStep
  <1>3. ASSUME TypeOK, ClientInTime, NEW t \in Thread PROVE waited[t] <= MaxWait
    <2>1. waited[t] \in 0..Longest /\ left[t] \in 0..MaxWait
      BY <1>3 DEF TypeOK
    <2>2. waited[t] = 0 \/ waited[t] + left[t] <= MaxWait
      BY <1>3 DEF ClientInTime
    <2> QED  BY <2>1, <2>2, ClientAssumption DEF Longest
  <1>4. TypeOK /\ ClientInTime => BoundedWait
    BY <1>3 DEF BoundedWait
  <1> QED  BY <1>1, <1>2, <1>4, ClientTypeCorrect, PTL DEF SafetySpec

-----------------------------------------------------------------------------
(* One thread: the order of the responses.                                  *)

LEMMA IncreasingWithin ==
    ASSUME NEW whole \in Seq(Bytes), NEW part \in Seq(Bytes), Within(part, whole),
           IncreasingFronts(whole)
    PROVE  IncreasingFronts(part)
  <1>1. PICK n \in Nat : /\ n + Len(part) <= Len(whole)
                         /\ \A i \in 1..Len(part) : part[i] = whole[n + i]
    BY DEF Within, Behind
  <1>2. ASSUME NEW i \in 1..Len(part), NEW j \in 1..Len(part), i < j, part[j].part = "front"
        PROVE  part[i].req < part[j].req
    <2>1. /\ n + i \in 1..Len(whole) /\ n + j \in 1..Len(whole) /\ n + i < n + j
          /\ part[i] = whole[n + i] /\ part[j] = whole[n + j]
      BY <1>1, <1>2
    <2> QED  BY <1>2, <2>1 DEF IncreasingFronts
  <1> QED  BY <1>2 DEF IncreasingFronts

LEMMA IncreasingGrows ==
    ASSUME NEW s \in Seq(Bytes), NEW q \in Requests, IncreasingFronts(s),
           \A a \in Asked(s) : a < q,
           NEW longer, longer = s \o <<FrontOf(q), RearOf(q)>>
    PROVE  IncreasingFronts(longer)
  <1>1. /\ longer \in Seq(Bytes)
        /\ Len(longer) = Len(s) + 2
        /\ \A i \in 1..Len(s) : longer[i] = s[i]
        /\ longer[Len(s) + 1] = FrontOf(q)
        /\ longer[Len(s) + 2] = RearOf(q)
    BY FrontIsByte
  <1>2. ASSUME NEW i \in 1..Len(longer), NEW j \in 1..Len(longer), i < j, longer[j].part = "front"
        PROVE  longer[i].req < longer[j].req
    <2>1. CASE j \in 1..Len(s)
      BY <2>1, <1>1, <1>2 DEF IncreasingFronts
    <2>2. CASE j = Len(s) + 1
      <3>1. i \in 1..Len(s) /\ longer[i] = s[i]
        BY <2>2, <1>1, <1>2
      <3> QED  BY <3>1, <2>2, <1>1, AskedMember, FrontIsByte
    <2>3. CASE j = Len(s) + 2
      BY <2>3, <1>1, <1>2, FrontIsByte
    <2>4. j \in 1..Len(s) \/ j = Len(s) + 1 \/ j = Len(s) + 2
      BY <1>1
    <2> QED  BY <2>1, <2>2, <2>3, <2>4
  <1> QED  BY <1>2 DEF IncreasingFronts

LEMMA IncreasingStream ==
    ASSUME TypeOK, TypeOK', ClientInv, ResponsesInOrder, [Next]_vars
    PROVE  IncreasingFronts(Stream')
  <1>1. Stream \in Seq(Bytes) /\ Stream' \in Seq(Bytes) /\ IncreasingFronts(Stream)
    BY StreamType, NextStreamType DEF ResponsesInOrder
  <1>2. CASE StreamShrinks
    BY <1>1, <1>2, IncreasingWithin DEF StreamShrinks
  <1>3. CASE StreamGrows
    <2>1. Head(inbox) \in Requests /\ Head(inbox) \in Elements(inbox)
      BY <1>3, HeadOfInbox DEF StreamGrows, DeviceReplies
    <2>2. \A a \in Asked(Stream) : a < Head(inbox)
      BY <2>1 DEF ResponsesInOrder
    <2> QED  BY <1>1, <1>3, <2>1, <2>2, IncreasingGrows DEF StreamGrows
  <1>4. CASE StreamIsCut
    <2>1. ASSUME NEW i \in 1..Len(Stream'), NEW j \in 1..Len(Stream'), i < j, Stream'[j].part = "front"
          PROVE  Stream'[i].req < Stream'[j].req
      <3>1. j \in 2..Len(Stream) /\ Stream'[j] = Stream[j] /\ i \in 1..Len(Stream)
        BY <1>1, <1>4, <2>1 DEF StreamIsCut
      <3>2. Stream[j].req \in Requests
        BY <3>1, <2>1, <1>1 DEF ClientInv, StreamInOrder, Stretch
      <3>3. CASE i = 1
        BY <1>4, <3>1, <3>2, <3>3, StrayIsByte DEF StreamIsCut, Requests
      <3>4. CASE i # 1
        <4>1. Stream'[i] = Stream[i]
          BY <1>1, <1>4, <3>1, <3>4 DEF StreamIsCut
        <4> QED  BY <4>1, <3>1, <2>1, <1>1 DEF IncreasingFronts
      <3> QED  BY <3>3, <3>4
    <2> QED  BY <2>1 DEF IncreasingFronts
  <1> QED  BY <1>2, <1>3, <1>4, StreamStep DEF ClientInv

\* The thread that writes has made the last call.
LEMMA WrittenLast ==
    ASSUME TypeOK, ClientInv, OneAtATime, NEW t \in Thread, pc[t] = "write"
    PROVE  \A a \in Elements(inbox) \cup Asked(Stream) \cup arrived : a < cur[t]
  <1>1. cur[t] = Len(kind) /\ cur[t] \in 1..Len(kind) /\ cur[t] \in Unsent
    BY DEF OneAtATime, ClientInv, OwnRequest, Unsent
  <1>2. ASSUME NEW a \in Elements(inbox) \cup Asked(Stream) \cup arrived PROVE a < cur[t]
    <2>1. a \notin Unsent
      BY <1>2 DEF ClientInv, OnePlace
    <2>2. a \in 0..MaxRequests
      <3>0. \A i \in 1..Len(Stream) : Stream[i] \in Bytes
        BY StreamType
      <3>1. \A i \in 1..Len(Stream) : Stream[i].req \in 0..MaxRequests
        BY <3>0 DEF Bytes
      <3>2. Asked(Stream) \subseteq 0..MaxRequests
        BY <3>1 DEF Asked, Elements
      <3>3. Elements(inbox) \subseteq Requests /\ arrived \subseteq Requests
        BY DEF TypeOK, Elements
      <3>4. \A q \in Requests : q \in 0..MaxRequests
        BY ClientAssumption DEF Requests
      <3> QED  BY <1>2, <3>2, <3>3, <3>4
    <2>3. ~(a \in Requests /\ a > Len(kind)) /\ a # cur[t]
      BY <1>1, <2>1 DEF Unsent
    <2>4. Len(kind) \in Nat
      BY DEF TypeOK
    <2> QED  BY <1>1, <2>2, <2>3, <2>4, ClientAssumption DEF Requests
  <1> QED  BY <1>2

LEMMA InboxInOrder ==
    ASSUME TypeOK, ClientInv, ResponsesInOrder, OneAtATime, [Next]_vars
    PROVE  /\ Increasing(inbox')
           /\ DeviceReplies => \A q \in Elements(inbox') : Head(inbox) < q
  <1>0. inbox \in Seq(Requests) /\ Increasing(inbox)
    BY DEF TypeOK, ResponsesInOrder
  <1>1. CASE inbox' = inbox /\ ~DeviceReplies
    BY <1>0, <1>1
  <1>2. CASE inbox' = << >> /\ ~DeviceReplies
    BY <1>2 DEF Increasing
  <1>3. CASE inbox # << >> /\ inbox' = Tail(inbox)
    <2>1. /\ \A i \in 1..Len(inbox') : i + 1 \in 1..Len(inbox) /\ 1 < i + 1 /\ inbox'[i] = inbox[i + 1]
          /\ \A i, j \in 1..Len(inbox') : i < j => i + 1 < j + 1
          /\ 1 \in 1..Len(inbox) /\ Head(inbox) = inbox[1]
      BY <1>0, <1>3
    <2>2. Increasing(inbox')
      BY <1>0, <2>1 DEF Increasing
    <2>3. \A i \in 1..Len(inbox') : Head(inbox) < inbox'[i]
      BY <1>0, <2>1 DEF Increasing
    <2> QED  BY <2>2, <2>3 DEF Elements
  <1>4. CASE \E t \in Thread : Write(t) /\ inbox' = Append(inbox, cur[t]) /\ ~DeviceReplies
    <2>1. PICK t \in Thread : Write(t) /\ inbox' = Append(inbox, cur[t]) /\ ~DeviceReplies
      BY <1>4
    <2>2. \A i \in 1..Len(inbox) : inbox[i] < cur[t]
      BY <2>1, WrittenLast DEF Write, Elements
    <2>3. cur[t] \in Requests
      BY <2>1, UnsentStep DEF ClientInv
    <2>4. /\ \A i \in 1..Len(inbox') : i \in 1..Len(inbox) \/ i = Len(inbox) + 1
          /\ inbox'[Len(inbox) + 1] = cur[t]
          /\ \A i \in 1..Len(inbox) : inbox'[i] = inbox[i]
          /\ Len(inbox) \in Nat
      BY <1>0, <2>1, <2>3
    <2>5. ASSUME NEW i \in 1..Len(inbox'), NEW j \in 1..Len(inbox'), i < j
          PROVE  inbox'[i] < inbox'[j]
      <3>1. CASE j \in 1..Len(inbox)
        BY <1>0, <2>4, <2>5, <3>1 DEF Increasing
      <3>2. CASE j = Len(inbox) + 1
        BY <2>2, <2>4, <2>5, <3>2
      <3> QED  BY <2>4, <3>1, <3>2
    <2> QED  BY <2>1, <2>5 DEF Increasing
  <1> QED  BY <1>1, <1>2, <1>3, <1>4, InboxKinds

LEMMA ResponsesInOrderStep ==
    ASSUME TypeOK, TypeOK', ClientInv, ResponsesInOrder, OneAtATime, [Next]_vars
    PROVE  ResponsesInOrder'
  <1> USE DEF ClientInv
  <1>1. Increasing(inbox') /\ IncreasingFronts(Stream')
    BY InboxInOrder, IncreasingStream
  <1>2. ASSUME NEW a \in Asked(Stream') \cup arrived', NEW q \in Elements(inbox')
        PROVE  a < q
    <2>0. Elements(inbox) \subseteq Requests
      BY InboxStep
    <2>1. \/ a \in Asked(Stream) \cup arrived
          \/ a = 0
          \/ DeviceReplies /\ a = Head(inbox)
      <3>1. Arrive => Head(wire).req \in Asked(Stream)
        BY ArrivingByte
      <3> QED  BY <1>2, <3>1, WireStep, StreamSets
    <2>2. q \in Elements(inbox) \/ \E t \in Thread : Write(t) /\ q = cur[t]
      BY <1>2, InboxStep
    <2>3. CASE DeviceReplies /\ a = Head(inbox)
      BY <1>2, <2>3, InboxInOrder
    <2>4. CASE a = 0
      <3>1. q \in Requests
        BY <2>0, <2>2, UnsentStep
      <3> QED  BY <2>4, <3>1 DEF Requests
    <2>5. CASE a \in Asked(Stream) \cup arrived
      <3>1. CASE q \in Elements(inbox)
        BY <2>5, <3>1 DEF ResponsesInOrder
      <3>2. CASE \E t \in Thread : Write(t) /\ q = cur[t]
        BY <2>5, <3>2, WrittenLast DEF Write
      <3> QED  BY <2>2, <3>1, <3>2
    <2> QED  BY <2>1, <2>3, <2>4, <2>5
  <1> QED  BY <1>1, <1>2 DEF ResponsesInOrder

LEMMA ResultsInOrderStep ==
    ASSUME OneThread, TypeOK, TypeOK', ClientInv, ResponsesInOrder, ResultsInOrder, [Next]_vars
    PROVE  ResultsInOrder'
  <1> USE DEF TypeOK
  \* What is taken is before the fronts there are, and before those to come.
  <1>1. ASSUME NEW a \in arrived, \A b \in Fronts(Stream) : a < b,
               NEW b \in Fronts(Stream')
        PROVE  a < b
    <2>1. CASE b \in Fronts(Stream)
      BY <1>1, <2>1
    <2>2. CASE DeviceReplies /\ b = Head(inbox)
      <3>1. Head(inbox) \in Elements(inbox)
        BY <2>2, HeadOfInbox DEF DeviceReplies
      <3> QED  BY <1>1, <2>2, <3>1 DEF ResponsesInOrder
    <2>3. b \in Fronts(Stream) \/ (DeviceReplies /\ b = Head(inbox))
      BY <1>1, StreamSets DEF ClientInv
    <2> QED  BY <2>1, <2>2, <2>3
  <1>2. /\ \A t \in Thread : match[t] # None => match[t] \in arrived
        /\ \A q \in Requests : result[q] \in Requests => result[q] \in arrived
    BY DEF ClientInv, TakenOnce
  <1>3. /\ \A t \in Thread : match[t] # None => \A b \in Fronts(Stream') : match[t] < b
        /\ \A q \in Requests : result[q] \in Requests => \A b \in Fronts(Stream') : result[q] < b
        /\ \A t \in Thread, q \in Requests :
              result[q] \in Requests /\ match[t] # None => result[q] < match[t]
    BY <1>1, <1>2 DEF ResultsInOrder
  <1>4. SUFFICES
          /\ \A t \in Thread : match'[t] # None => \A b \in Fronts(Stream') : match'[t] < b
          /\ \A q \in Requests : result'[q] \in Requests => \A b \in Fronts(Stream') : result'[q] < b
          /\ \A t \in Thread, q \in Requests :
                result'[q] \in Requests /\ match'[t] # None => result'[q] < match'[t]
    BY DEF ResultsInOrder
  <1>5. ASSUME NEW t \in Thread, NEW value, Ends(t, value), value = Raised \/ value = match[t]
        PROVE  ResultsInOrder'
    <2>1. cur[t] \in Requests
      BY <1>5 DEF Ends, ClientInv, OwnRequest, Requests
    <2>2. /\ \A u \in Thread : match'[u] = None
          /\ \A q \in Requests : result'[q] = result[q] \/ result'[q] = value
      BY <1>5, <2>1 DEF Ends, Leave, OneThread
    <2>3. Raised \notin Requests /\ None \notin Requests
      BY NoRequests
    <2>4. ASSUME NEW q \in Requests, result'[q] \in Requests PROVE \A b \in Fronts(Stream') : result'[q] < b
      <3>1. CASE result'[q] = result[q]
        BY <1>3, <2>4, <3>1
      <3>2. CASE result'[q] = match[t]
        BY <1>3, <2>3, <2>4, <3>2
      <3> QED  BY <1>5, <2>2, <2>3, <2>4, <3>1, <3>2
    <2> QED  BY <2>2, <2>4 DEF ResultsInOrder
  <1>6. CASE \E t \in Thread : Ends(t, Raised) \/ Ends(t, match[t])
    BY <1>5, <1>6 DEF ResultsInOrder
  <1>7. CASE \E t \in Thread : UnframeFrame(t)
    <2>1. PICK t \in Thread : UnframeFrame(t)
      BY <1>7
    <2>2. PICK a \in Requests :
             /\ match' = [match EXCEPT ![t] = Matched(t, a)]
             /\ a \in Fronts(Stream) \cap arrived
             /\ IncreasingFronts(Stream) => \A b \in Fronts(Stream') : a < b
      BY <2>1, TakenFrame DEF ClientInv
    <2>3. result' = result
      BY <2>1 DEF UnframeFrame, callVars
    <2>4. \A u \in Thread : match'[u] = match[u] \/ match'[u] = a
      BY <2>2 DEF Matched
    <2>5. \A b \in Fronts(Stream') : a < b
      BY <2>2 DEF ResponsesInOrder
    <2>6. \A q \in Requests : result[q] \in Requests => result[q] < a
      BY <2>2 DEF ResultsInOrder
    <2>7. \A u \in Thread : match'[u] # None => \A b \in Fronts(Stream') : match'[u] < b
      BY <1>3, <2>4, <2>5
    <2>8. \A u \in Thread, q \in Requests :
             result'[q] \in Requests /\ match'[u] # None => result'[q] < match'[u]
      BY <1>3, <2>3, <2>4, <2>6
    <2> QED  BY <1>3, <2>3, <2>7, <2>8
  <1>8. CASE UNCHANGED <<match, result>>
    BY <1>3, <1>8
  <1> QED  BY <1>6, <1>7, <1>8, KindsOfStep DEF Drains, GoesOn

\* A step makes a call, or the calls stay.
LEMMA CallsStep ==
    ASSUME TypeOK, [Next]_vars
    PROVE  \/ \E t \in Thread, k \in Kind : Call(t, k)
           \/ /\ UNCHANGED <<cur, kind>>
              /\ \A t \in Thread : pc'[t] # "idle" => pc[t] # "idle"
  <1>1. ASSUME NEW t \in Thread, Step(t)
        PROVE  UNCHANGED <<cur, kind>> /\ \A u \in Thread : pc'[u] # "idle" => pc[u] # "idle"
    <2>1. CASE Drain(t)
      BY <2>1 DEF Drain, Leave, Goto, TypeOK
    <2>2. CASE Write(t) \/ LockRead(t)
      BY <2>2 DEF Write, LockRead, Goto, TypeOK
    <2>3. CASE Poll(t)
      BY <2>3 DEF Poll, TakeBytes, PollNothing, PollClosed, Deadline, Return, Leave, Goto, TypeOK
    <2>4. CASE UnframeFrame(t) \/ UnframeRear(t)
      BY <2>4 DEF UnframeFrame, UnframeRear, callVars
    <2>5. CASE UnframeNothing(t)
      BY <2>5 DEF UnframeNothing, Return, Leave, Goto, TypeOK
    <2> QED  BY <1>1, <2>1, <2>2, <2>3, <2>4, <2>5 DEF Step, Unframe
  <1>2. CASE Tick \/ DeviceReplies \/ DeviceIgnores \/ Arrive \/ PeerCloses \/ UNCHANGED vars
    BY <1>2 DEF Tick, DeviceReplies, DeviceIgnores, Arrive, PeerCloses, vars, callVars
  <1> QED  BY <1>1, <1>2 DEF Next

LEMMA OneAtATimeStep ==
    ASSUME OneThread, TypeOK, ClientInv, OneAtATime, [Next]_vars
    PROVE  OneAtATime'
  <1> USE DEF TypeOK
  <1>1. SUFFICES ASSUME NEW t \in Thread
                 PROVE  /\ match'[t] # None => kind'[match'[t]] = kind'[cur'[t]]
                        /\ pc'[t] # "idle" => cur'[t] = Len(kind')
                        /\ \A q \in 1..Len(kind') : result'[q] = Open => pc'[t] # "idle" /\ q = cur'[t]
    BY DEF OneAtATime
  <1>2. /\ \A u \in Thread : u = t
        /\ match[t] # None => kind[match[t]] = kind[cur[t]]
        /\ pc[t] # "idle" => cur[t] = Len(kind)
        /\ \A q \in 1..Len(kind) : result[q] = Open => pc[t] # "idle" /\ q = cur[t]
    BY DEF OneThread, OneAtATime
  <1>3. CASE \E u \in Thread, k \in Kind : Call(u, k)
    <2>1. PICK k \in Kind : Call(t, k)
      BY <1>2, <1>3
    <2>2. /\ pc[t] = "idle" /\ pc'[t] = "drain" /\ kind' = Append(kind, k)
          /\ cur'[t] = Len(kind) + 1 /\ UNCHANGED <<match, result>>
      BY <2>1 DEF Call, Goto, readVars
    <2>3. Len(kind') = Len(kind) + 1 /\ Len(kind) \in Nat
      BY <2>2
    <2>4. match[t] = None
      BY <2>2 DEF ClientInv, LocalsAreHeld, Reading
    <2> QED  BY <1>2, <2>2, <2>3, <2>4
  <1>4. CASE /\ UNCHANGED <<cur, kind>>
             /\ \A u \in Thread : pc'[u] # "idle" => pc[u] # "idle"
    <2>1. CASE \E u \in Thread, value \in Outcome \ {Open} : Ends(u, value)
      <3>1. PICK value \in Outcome \ {Open} : Ends(t, value)
        BY <1>2, <2>1
      <3>2. pc[t] # "idle" /\ cur[t] \in 1..Len(kind) /\ cur[t] \in Requests
        BY <3>1 DEF Ends, ClientInv, OwnRequest, Requests
      <3>3. /\ pc'[t] = "idle" /\ match'[t] = None
            /\ \A q \in Requests : result'[q] = IF q = cur[t] THEN value ELSE result[q]
        BY <3>1, <3>2 DEF Ends, Leave, Goto
      <3>4. \A q \in 1..Len(kind) : q \in Requests
        BY ClientAssumption DEF Requests
      <3>5. \A q \in 1..Len(kind) : result'[q] # Open
        BY <1>2, <3>3, <3>4
      <3> QED  BY <1>4, <3>3, <3>5
    <2>2. CASE \E u \in Thread : UnframeFrame(u)
      <3>1. UnframeFrame(t)
        BY <1>2, <2>2
      <3>2. PICK skip \in {0, 1} : match' = [match EXCEPT ![t] = Matched(t, payload[t][skip + 1].req)]
        BY <3>1 DEF UnframeFrame
      <3>3. UNCHANGED <<pc, result>>
        BY <3>1 DEF UnframeFrame, callVars
      <3> QED  BY <1>2, <1>4, <3>2, <3>3 DEF Matched
    <2>3. CASE UNCHANGED <<match, result>> /\ (pc[t] # "idle" => pc'[t] # "idle")
      BY <1>2, <1>4, <2>3
    <2>4. ASSUME NEW u \in Thread, Ends(u, Raised) \/ Ends(u, match[u])
          PROVE  \E value \in Outcome \ {Open} : Ends(u, value)
      <3>1. Raised \in Outcome \ {Open} /\ match[u] \in Outcome \ {Open}
        BY NoRequests DEF Outcome
      <3> QED  BY <2>4, <3>1
    <2>5. ASSUME Drains(t) \/ GoesOn
          PROVE  UNCHANGED <<match, result>> /\ (pc[t] # "idle" => pc'[t] # "idle")
      BY <2>5 DEF Drains, GoesOn
    <2> QED  BY <1>2, <2>1, <2>2, <2>3, <2>4, <2>5, KindsOfStep
  <1> QED  BY <1>3, <1>4, CallsStep

-----------------------------------------------------------------------------
(* One thread: the contract of a request and its reply.                     *)

ThreadInv ==
    /\ ClientInv
    /\ ResponsesInOrder
    /\ ResultsInOrder
    /\ OneAtATime

LEMMA ThreadInvariant ==
    ASSUME OneThread
    PROVE  SafetySpec => [](TypeOK /\ ThreadInv)
  <1>1. ASSUME Init PROVE ResponsesInOrder /\ ResultsInOrder /\ OneAtATime
    <2>1. Elements(<< >>) = {} /\ Asked(<< >>) = {} /\ Fronts(<< >>) = {} /\ << >> \o << >> = << >>
      BY DEF Elements, Asked, Fronts
    <2>2. Stream = << >>
      BY <1>1, <2>1 DEF Init, Held, Stream
    <2> QED  BY <1>1, <2>1, <2>2, NoRequests
             DEF Init, ResponsesInOrder, ResultsInOrder, OneAtATime, Increasing, IncreasingFronts
  <1>2. Init => TypeOK /\ ThreadInv
    BY <1>1, ClientInit DEF ThreadInv
  <1>3. (TypeOK /\ ThreadInv) /\ [Next]_vars => (TypeOK /\ ThreadInv)'
    BY ClientStep, ResponsesInOrderStep, ResultsInOrderStep, OneAtATimeStep DEF ThreadInv
  <1> QED  BY <1>2, <1>3, PTL DEF SafetySpec

LEMMA ContractInit ==
    ASSUME Init
    PROVE  Contract!Init
  <1>1. Returned = [q \in Requests |-> Open]
    BY NoRequests DEF Init, Returned
  <1> QED  BY <1>1 DEF Init, Contract!Init, Requests, Contract!Requests

LEMMA ContractStep ==
    ASSUME OneThread, TypeOK, TypeOK', ThreadInv, [Next]_vars
    PROVE  [Contract!Next]_(Contract!vars)
  <1> USE DEF TypeOK
  <1>1. /\ \A q \in 1..Len(kind) : q \in Requests
        /\ \A q \in Requests : Returned[q] = IF result[q] = Raised THEN None ELSE result[q]
    BY ClientAssumption DEF Requests, Returned
  <1>2. ASSUME NEW t \in Thread, NEW k \in Kind, Call(t, k)
        PROVE  Contract!Next
    <2>1. pc[t] = "idle" /\ kind' = Append(kind, k) /\ result' = result /\ Len(kind) < MaxRequests
      BY <1>2 DEF Call
    <2>2. \A q \in 1..Len(kind) : Returned[q] # Open
      <3>1. \A q \in 1..Len(kind) : result[q] # Open
        BY <2>1 DEF ThreadInv, OneAtATime
      <3>2. None # Open
        BY NoRequests
      <3> QED  BY <1>1, <3>1, <3>2
    <2>3. Returned' = Returned
      BY <2>1 DEF Returned
    <2>4. Contract!Issue(k)
      BY <2>1, <2>2, <2>3 DEF Contract!Issue, Contract!Quiet
    <2> QED  BY <2>4 DEF Contract!Next
  <1>3. ASSUME NEW t \in Thread, NEW value, Ends(t, value), value = Raised \/ value = match[t]
        PROVE  Contract!Next
    <2> DEFINE n == cur[t]
    <2>1. /\ n \in Requests /\ n \in 1..Len(kind) /\ n = Len(kind) /\ result[n] = Open
          /\ result' = [result EXCEPT ![n] = value] /\ kind' = kind
      BY <1>1, <1>3 DEF Ends, Leave, ThreadInv, OneAtATime, ClientInv, OwnRequest
    <2> HIDE DEF n
    <2>2. Returned[n] = Open
      BY <1>1, <2>1, NoRequests
    <2>3. Returned' = [Returned EXCEPT ![n] = IF value = Raised THEN None ELSE value]
      BY <2>1 DEF Returned
    <2>4. CASE value = Raised \/ value = None
      <3>1. Returned' = [Returned EXCEPT ![n] = None]
        BY <2>3, <2>4
      <3>2. Contract!GiveUp(n)
        BY <2>1, <2>2, <3>1 DEF Contract!GiveUp
      <3> QED  BY <2>1, <3>2 DEF Contract!Next, Contract!Finish
    <2>5. CASE value = match[t] /\ value # None /\ value # Raised
      <3>1. match[t] \in Requests /\ match[t] \in arrived /\ kind[match[t]] = kind[n]
        BY <2>5 DEF ThreadInv, ClientInv, TakenOnce, OneAtATime, n
      <3>2. match[t] \in 1..n
        <4>1. match[t] \notin Unsent
          BY <3>1 DEF ThreadInv, ClientInv, OnePlace
        <4> QED  BY <2>1, <3>1, <4>1 DEF Unsent, Requests
      <3>3. ASSUME NEW p \in 1..n, NEW b \in 1..n, Returned[p] = Whole(b)
            PROVE  b < match[t]
        <4>1. p \in Requests /\ b \in Requests
          BY <1>1, <2>1
        <4>2. result[p] = b
          BY <1>1, <3>3, <4>1, NoRequests DEF Whole
        <4> QED  BY <2>5, <4>1, <4>2 DEF ThreadInv, ResultsInOrder
      <3>4. Contract!Deliverable(match[t], n)
        BY <3>1, <3>2, <3>3 DEF Contract!Deliverable
      <3>5. Returned' = [Returned EXCEPT ![n] = Whole(match[t])]
        BY <2>3, <2>5 DEF Whole
      <3>6. Contract!Deliver(n)
        BY <2>1, <2>2, <3>2, <3>4, <3>5 DEF Contract!Deliver
      <3> QED  BY <2>1, <3>6 DEF Contract!Next, Contract!Finish
    <2> QED  BY <1>3, <2>4, <2>5
  <1>4. ASSUME UNCHANGED <<kind, result>> PROVE UNCHANGED Contract!vars
    <2>1. Returned' = Returned
      BY <1>4 DEF Returned
    <2> QED  BY <1>4, <2>1 DEF Contract!vars
  <1>5. CASE UNCHANGED <<cur, kind>>
    <2>1. ASSUME NEW t \in Thread, UnframeFrame(t) PROVE UNCHANGED result
      BY <2>1 DEF UnframeFrame, callVars
    <2> QED  BY <1>3, <1>4, <1>5, <2>1, KindsOfStep DEF Drains, GoesOn
  <1> QED  BY <1>2, <1>5, CallsStep

\* Every step of a single-threaded client is a step of the contract that the
\* CAN tunnel keeps too: the answers for one command id are returned in the
\* order of the requests, none twice and none before it was asked for
\* (VESC.write, VESC.read).
THEOREM ClientImplementsContract ==
    ASSUME OneThread
    PROVE  SafetySpec => Contract!SafetySpec
  <1>1. Init => Contract!Init
    BY ContractInit
  <1>2. TypeOK /\ TypeOK' /\ ThreadInv /\ [Next]_vars => [Contract!Next]_(Contract!vars)
    BY ContractStep
  <1> QED  BY <1>1, <1>2, ThreadInvariant, PTL DEF SafetySpec, Contract!SafetySpec
=============================================================================
