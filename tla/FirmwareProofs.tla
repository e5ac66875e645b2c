---------------------------- MODULE FirmwareProofs ----------------------------
(***************************************************************************)
(* update_firmware, for any image, number of updates and length of the     *)
(* link: the result True means that the image is in the flash.             *)
(***************************************************************************)
EXTENDS FirmwareUpdate, SequenceTheorems, TLAPS

\* What is left of a sequence when its first n elements are taken.
LEMMA DropFirst ==
    ASSUME NEW S, NEW seq \in Seq(S), NEW n \in 0..Len(seq), NEW rest,
           rest = SubSeq(seq, n + 1, Len(seq))
    PROVE  /\ rest \in Seq(S)
           /\ Len(rest) = Len(seq) - n
           /\ \A i \in 1..Len(rest) : rest[i] = seq[i + n]
  <1>1. \A i \in n + 1..Len(seq) : seq[i] \in S
    BY SMT
  <1>2. /\ rest \in Seq(S)
        /\ Len(rest) = IF n + 1 <= Len(seq) THEN Len(seq) - (n + 1) + 1 ELSE 0
        /\ \A i \in 1..Len(seq) - (n + 1) + 1 : rest[i] = seq[(n + 1) + i - 1]
    BY <1>1, SubSeqProperties, SMT
  <1> QED  BY <1>2, SMT

\* Suffix of what was there.
Suffix(rest, seq) ==
    \E n \in 0..Len(seq) :
       /\ Len(rest) = Len(seq) - n
       /\ \A i \in 1..Len(rest) : rest[i] = seq[i + n]

LEMMA DroppedIsSuffix ==
    ASSUME NEW S, NEW seq \in Seq(S), NEW n \in 0..Len(seq), NEW rest,
           rest = SubSeq(seq, n + 1, Len(seq))
    PROVE  rest \in Seq(S) /\ Suffix(rest, seq)
  BY DropFirst DEF Suffix

LEMMA TailIsSuffix ==
    ASSUME NEW S, NEW seq \in Seq(S), seq # << >>
    PROVE  Tail(seq) \in Seq(S) /\ Suffix(Tail(seq), seq)
  <1>1. /\ Tail(seq) \in Seq(S)
        /\ Len(Tail(seq)) = Len(seq) - 1
        /\ \A i \in 1..Len(Tail(seq)) : Tail(seq)[i] = seq[i + 1]
    BY HeadTailProperties
  <1>2. 1 \in 0..Len(seq)
    BY EmptySeq, SMT
  <1> QED  BY <1>1, <1>2 DEF Suffix

\* write: some first part of the responses goes, the command may be lost.
LEMMA RequestShape ==
    ASSUME TypeOK, NEW command \in Command, Request(command)
    PROVE  /\ responses' \in Seq(Response) /\ Suffix(responses', responses)
           /\ commands' \in Seq(Command)
           /\ \/ commands' = commands
              \/ commands' = Append(commands, command)
  <1>1. PICK n \in 0..Len(responses) : responses' = SubSeq(responses, n + 1, Len(responses))
    BY DEF Request
  <1>2. responses' \in Seq(Response) /\ Suffix(responses', responses)
    BY <1>1, DroppedIsSuffix DEF TypeOK
  <1>3. \/ commands' = commands
        \/ commands' = Append(commands, command)
    BY DEF Request
  <1>4. commands' \in Seq(Command)
    BY <1>3, AppendProperties DEF TypeOK
  <1> QED  BY <1>2, <1>3, <1>4

LEMMA AnswerShape ==
    ASSUME TypeOK, NEW cmd,
           NotAnswered(cmd) \/ \E ok \in BOOLEAN : Answered(cmd, ok)
    PROVE  responses' \in Seq(Response) /\ Suffix(responses', responses)
  <1>1. PICK n \in 0..Len(responses) : responses' = SubSeq(responses, n + 1, Len(responses))
    BY SMT DEF Answered, NotAnswered, TypeOK
  <1> QED  BY <1>1, DroppedIsSuffix DEF TypeOK

LEMMA CommandType ==
    ASSUME FirmwareAssumption
    PROVE  /\ \A size \in 0..Chunks : Erase(size) \in Command
           /\ \A at, chunk \in 0..Chunks : WriteChunk(at, chunk) \in Command
           /\ Jump \in Command
  BY SMT DEF FirmwareAssumption, Erase, WriteChunk, Jump, Command

-----------------------------------------------------------------------------
(* Types.                                                                   *)

LEMMA UploadInit == Init => TypeOK /\ UploadInv
<1> SUFFICES ASSUME Init PROVE TypeOK /\ UploadInv
    OBVIOUS
<1>1. commands \in Seq(Command) /\ responses \in Seq(Response)
  BY EmptySeq DEF Init
<1>2. next \in 1..Chunks + 1 /\ offset \in 1..Chunks + 1 /\ updates \in 0..MaxUpdates
  BY FirmwareAssumption, SMT DEF Init, FirmwareAssumption
<1>3. flash \in [Cell -> Content]
  BY FirmwareAssumption, SMT DEF Init, FirmwareAssumption, Content, Old, Garbage, Cell
<1>4. TypeOK
  BY <1>1, <1>2, <1>3, Zenon DEF Init, TypeOK
<1>5. ~EraseIn(commands) /\ ~EraseIn(responses)
  BY EmptySeq, SMT DEF Init, EraseIn
<1>6. InStep
  BY <1>5, Zenon DEF Init, InStep
<1> QED  BY <1>4, <1>6 DEF UploadInv

\* The offset runs along with what is left of the image, or behind it when the
\* Firmware object has been used before.
LoopBounds ==
    /\ offset <= next
    /\ pc \in {"write", "write_wait"} => next \in Cell \ Blank

LEMMA LoopBoundsInit == Init => LoopBounds
  BY SMT DEF Init, LoopBounds

LEMMA LoopBoundsStep == TypeOK /\ LoopBounds /\ [Next]_vars => LoopBounds'
<1> SUFFICES ASSUME TypeOK, LoopBounds, [Next]_vars PROVE LoopBounds'
    OBVIOUS
<1> USE DEF LoopBounds
<1>1. CASE UpdateFresh \/ UpdateAgain
  BY <1>1, SMT DEF UpdateFresh, UpdateAgain, TypeOK
<1>2. CASE EraseNewApp \/ EraseResult
  <2>1. UNCHANGED <<next, offset>> /\ pc' \in {"erase_wait", "loop", "idle"}
    BY <1>2, Zenon DEF EraseNewApp, EraseResult, End
  <2> QED  BY <2>1, SMT
<1>3. CASE SkipBlank \/ GetNextChunk
  BY <1>3, SMT DEF SkipBlank, GetNextChunk, NextChunk, TypeOK
<1>4. CASE WriteNewAppData
  BY <1>4, SMT DEF WriteNewAppData, TypeOK
<1>8. CASE WriteResult
  <2>1. /\ (next' = next + 1 /\ offset' = offset + 1) \/ UNCHANGED <<next, offset>>
        /\ pc' \in {"loop", "idle"}
    BY <1>8, Zenon DEF WriteResult, NextChunk, End
  <2> QED  BY <2>1, SMT DEF TypeOK
<1>5. CASE JumpToBootloader
  BY <1>5, SMT DEF JumpToBootloader, End, TypeOK
<1>6. CASE Link
  BY <1>6, SMT DEF Link, Device, LoseCommand, LoseResponse, hostVars
<1>7. CASE UNCHANGED vars
  BY <1>7, SMT DEF vars, hostVars
<1> QED  BY <1>1, <1>2, <1>3, <1>4, <1>5, <1>6, <1>7, <1>8 DEF Next, Update

LEMMA TypeStep == TypeOK /\ LoopBounds /\ [Next]_vars => TypeOK'
<1> SUFFICES ASSUME TypeOK, LoopBounds, [Next]_vars PROVE TypeOK'
    OBVIOUS
<1> USE FirmwareAssumption DEF FirmwareAssumption
<1>1. CASE UpdateFresh
  <2>1. 1 \in 1..Chunks + 1 /\ updates' \in 0..MaxUpdates
    BY <1>1, SMT DEF UpdateFresh, TypeOK
  <2> QED  BY <1>1, <2>1, Zenon DEF UpdateFresh, TypeOK, linkVars, deviceVars, history
<1>2. CASE UpdateAgain
  <2>1. 1 \in 1..Chunks + 1 /\ updates' \in 0..MaxUpdates
    BY <1>2, SMT DEF UpdateAgain, TypeOK
  <2> QED  BY <1>2, <2>1, Zenon DEF UpdateAgain, TypeOK, linkVars, deviceVars
<1>3. CASE EraseNewApp
  <2>1. Erase(Chunks + 1 - next) \in Command
    BY CommandType, SMT DEF TypeOK
  <2>2. responses' \in Seq(Response) /\ commands' \in Seq(Command)
    BY <1>3, <2>1, RequestShape DEF EraseNewApp
  <2> QED  BY <1>3, <2>2, Zenon DEF EraseNewApp, TypeOK, deviceVars, history
<1>4. CASE EraseResult
  <2>1. responses' \in Seq(Response)
    BY <1>4, AnswerShape DEF EraseResult
  <2> QED  BY <1>4, <2>1, Zenon DEF EraseResult, End, TypeOK, deviceVars
<1>5. CASE SkipBlank
  <2>1. next' \in 1..Chunks + 1 /\ offset' \in 1..Chunks + 1
    BY <1>5, SMT DEF SkipBlank, NextChunk, TypeOK, LoopBounds
  <2> QED  BY <1>5, <2>1, Zenon
             DEF SkipBlank, NextChunk, TypeOK, linkVars, deviceVars, history
<1>6. CASE GetNextChunk
  BY <1>6, Zenon DEF GetNextChunk, TypeOK, linkVars, deviceVars, history
<1>7. CASE WriteNewAppData
  <2>1. WriteChunk(offset, next) \in Command
    BY <1>7, CommandType, SMT DEF WriteNewAppData, TypeOK, LoopBounds, Cell
  <2>2. responses' \in Seq(Response) /\ commands' \in Seq(Command)
    BY <1>7, <2>1, RequestShape DEF WriteNewAppData
  <2> QED  BY <1>7, <2>2, Zenon DEF WriteNewAppData, TypeOK, deviceVars, history
<1>8. CASE WriteResult
  <2>1. responses' \in Seq(Response)
    BY <1>8, AnswerShape DEF WriteResult
  <2>2. /\ (next' = next + 1 /\ offset' = offset + 1) \/ UNCHANGED <<next, offset>>
        /\ next \in Cell
    BY <1>8, Zenon DEF WriteResult, NextChunk, LoopBounds
  <2>3. next' \in 1..Chunks + 1 /\ offset' \in 1..Chunks + 1
    BY <2>2, SMT DEF TypeOK, LoopBounds, Cell
  <2> QED  BY <1>8, <2>1, <2>3, Zenon DEF WriteResult, NextChunk, End, TypeOK, deviceVars, history
<1>9. CASE JumpToBootloader
  <2>1. commands' \in Seq(Command)
    BY <1>9, CommandType, AppendProperties DEF JumpToBootloader, TypeOK
  <2> QED  BY <1>9, <2>1, Zenon DEF JumpToBootloader, End, TypeOK, deviceVars, history
<1>10. CASE Device
  <2>1. commands' \in Seq(Command) /\ Head(commands) \in Command
    BY <1>10, HeadTailProperties DEF Device, TypeOK
  <2>2. ASSUME NEW cmd \in {"erase", "write"}, NEW ok \in BOOLEAN, Respond(cmd, ok)
        PROVE  responses' \in Seq(Response)
    <3>1. [cmd |-> cmd, ok |-> ok] \in Response
      BY DEF Response
    <3> QED  BY <2>2, <3>1, AppendProperties DEF Respond, TypeOK
  <2>3. CASE DeviceErases
    <3>1. responses' \in Seq(Response)
      BY <2>2, <2>3 DEF DeviceErases
    <3>2. Erased \in Content
      BY SMT DEF Erased, Content, Garbage
    <3>3. flash' \in [Cell -> Content]
      BY <2>3, <3>2 DEF DeviceErases, TypeOK
    <3> QED  BY <1>10, <2>1, <2>3, <3>1, <3>3, Zenon
               DEF Device, DeviceErases, TypeOK, hostVars, history
  <2>4. CASE DeviceWrites
    <3>1. responses' \in Seq(Response)
      BY <2>2, <2>4 DEF DeviceWrites
    <3>2. Garbage \in Content /\ Head(commands).data \in Content
      BY <2>1, SMT DEF Garbage, Content, Command
    <3>3. flash' \in [Cell -> Content]
      BY <2>4, <3>2 DEF DeviceWrites, TypeOK
    <3> QED  BY <1>10, <2>1, <2>4, <3>1, <3>3, Zenon
               DEF Device, DeviceWrites, TypeOK, hostVars, history
  <2>5. CASE DeviceJumps
    BY <1>10, <2>1, <2>5, Zenon DEF Device, DeviceJumps, TypeOK, hostVars, history
  <2> QED  BY <1>10, <2>3, <2>4, <2>5 DEF Device
<1>11. CASE LoseCommand
  <2>1. commands' \in Seq(Command)
    BY <1>11, TailIsSuffix DEF LoseCommand, TypeOK
  <2> QED  BY <1>11, <2>1, Zenon DEF LoseCommand, TypeOK, hostVars, deviceVars, history
<1>12. CASE LoseResponse
  <2>1. responses' \in Seq(Response)
    BY <1>12, TailIsSuffix DEF LoseResponse, TypeOK
  <2> QED  BY <1>12, <2>1, Zenon DEF LoseResponse, TypeOK, hostVars, deviceVars, history
<1>13. CASE UNCHANGED vars
  BY <1>13, Zenon DEF vars, hostVars, linkVars, deviceVars, history, TypeOK
<1> QED
  BY <1>1, <1>2, <1>3, <1>4, <1>5, <1>6, <1>7, <1>8, <1>9, <1>10, <1>11, <1>12, <1>13
  DEF Next, Update, Link

-----------------------------------------------------------------------------
(* What is under way.                                                       *)

LEMMA SuffixOfNothing ==
    ASSUME NEW S, NEW rest \in Seq(S), NEW seq \in Seq(S), Suffix(rest, seq), seq = << >>
    PROVE  rest = << >>
  <1>1. Len(rest) = 0
    BY EmptySeq, SMT DEF Suffix
  <1> QED  BY <1>1, EmptySeq, SMT

LEMMA SuffixOfItself ==
    ASSUME NEW S, NEW seq \in Seq(S)
    PROVE  Suffix(seq, seq)
  <1>1. 0 \in 0..Len(seq) /\ Len(seq) = Len(seq) - 0 /\ \A i \in 1..Len(seq) : seq[i] = seq[i + 0]
    BY SMT
  <1> QED  BY <1>1 DEF Suffix

LEMMA EraseNotMade ==
    ASSUME NEW S, NEW rest \in Seq(S), NEW seq \in Seq(S), Suffix(rest, seq), ~EraseIn(seq)
    PROVE  ~EraseIn(rest)
  BY SMT DEF Suffix, EraseIn

LEMMA NoEraseInNothing == ~EraseIn(<< >>)
  BY EmptySeq, SMT DEF EraseIn

LEMMA EraseNotAppended ==
    ASSUME NEW S, NEW seq \in Seq(S), NEW elt \in S, ~EraseIn(seq), elt.cmd # "erase"
    PROVE  ~EraseIn(Append(seq, elt))
  BY AppendProperties, SMT DEF EraseIn

\* Losing something, and processing what is not an erase, keeps the order.
LEMMA EraseLastKept ==
    ASSUME TypeOK, EraseComesLast, UNCHANGED flash,
           commands' \in Seq(Command), Suffix(commands', commands),
           responses' \in Seq(Response), Suffix(responses', responses)
    PROVE  EraseComesLast'
  <1>1. ASSUME NEW i \in 1..Len(commands'), commands'[i].cmd = "erase"
        PROVE  i = Len(commands') /\ commands'[i].at = Chunks /\ ~EraseIn(responses')
    <2>1. PICK n \in 0..Len(commands) :
             /\ Len(commands') = Len(commands) - n
             /\ \A k \in 1..Len(commands') : commands'[k] = commands[k + n]
      BY DEF Suffix
    <2>2. i + n \in 1..Len(commands) /\ commands'[i] = commands[i + n]
      BY <2>1, SMT DEF TypeOK
    <2>3. i + n = Len(commands) /\ commands[i + n].at = Chunks /\ ~EraseIn(responses)
      BY <1>1, <2>2 DEF EraseComesLast
    <2>4. ~EraseIn(responses')
      BY <2>3, EraseNotMade DEF TypeOK
    <2>5. i = Len(commands')
      <3>1. i + n = Len(commands)
        BY <2>3
      <3>2. Len(commands) \in Nat /\ Len(commands') \in Nat
        BY LenProperties DEF TypeOK
      <3>3. Len(commands') = Len(commands) - n
        BY <2>1
      <3> QED  BY <3>1, <3>2, <3>3, SMT
    <2> QED  BY <2>2, <2>3, <2>4, <2>5
  <1>2. ASSUME NEW i \in 1..Len(responses'), responses'[i].cmd = "erase"
        PROVE  /\ i = Len(responses')
               /\ commands' = << >>
               /\ responses'[i].ok => flash' = [c \in Cell |-> Erased]
    <2>1. PICK n \in 0..Len(responses) :
             /\ Len(responses') = Len(responses) - n
             /\ \A k \in 1..Len(responses') : responses'[k] = responses[k + n]
      BY DEF Suffix
    <2>2. i + n \in 1..Len(responses) /\ responses'[i] = responses[i + n]
      BY <2>1, SMT DEF TypeOK
    <2>3. /\ i + n = Len(responses)
          /\ commands = << >>
          /\ responses[i + n].ok => flash = [c \in Cell |-> Erased]
      BY <1>2, <2>2 DEF EraseComesLast
    <2>4. commands' = << >>
      BY <2>3, SuffixOfNothing DEF TypeOK
    <2>5. i = Len(responses')
      <3>1. i + n = Len(responses)
        BY <2>3
      <3>2. Len(responses) \in Nat /\ Len(responses') \in Nat
        BY LenProperties DEF TypeOK
      <3>3. Len(responses') = Len(responses) - n
        BY <2>1
      <3> QED  BY <3>1, <3>2, <3>3, SMT
    <2> QED  BY <2>2, <2>3, <2>4, <2>5
  <1> QED  BY <1>1, <1>2 DEF EraseComesLast, EraseIn

-----------------------------------------------------------------------------
(* The host's steps.                                                        *)

\* What UploadStep assumes, and has to show again.
InStepThen == TypeOK /\ LoopBounds /\ InStep

LEMMA FreshStep == InStepThen /\ UpdateFresh => InStep'
<1> SUFFICES ASSUME InStepThen, UpdateFresh PROVE InStep'
    OBVIOUS
<1>1. pc' = "erase" /\ next' = 1 /\ offset' = 1 /\ outcome' = "none"
  BY DEF UpdateFresh
<1>2. ~EraseIn(commands') /\ ~EraseIn(responses')
  BY Zenon DEF UpdateFresh, linkVars, InStepThen, InStep
<1> QED  BY <1>1, <1>2, Zenon DEF InStep, EraseIn

LEMMA EraseNewAppStep == InStepThen /\ EraseNewApp => InStep'
<1> SUFFICES ASSUME InStepThen, EraseNewApp PROVE InStep'
    OBVIOUS
<1>1. /\ pc' = "erase_wait" /\ outcome' = "none"
      /\ next = 1 /\ next' = 1 /\ offset' = next'
  BY Zenon DEF EraseNewApp, InStepThen, InStep
<1>2. ~EraseIn(commands) /\ ~EraseIn(responses)
  BY Zenon DEF EraseNewApp, InStepThen, InStep
<1>3. Erase(Chunks + 1 - next) = Erase(Chunks) /\ Erase(Chunks) \in Command
  BY <1>1, FirmwareAssumption, CommandType, SMT DEF FirmwareAssumption
<1>4. /\ responses' \in Seq(Response) /\ Suffix(responses', responses)
      /\ commands' \in Seq(Command)
      /\ \/ commands' = commands
         \/ commands' = Append(commands, Erase(Chunks))
  BY <1>3, RequestShape DEF EraseNewApp, InStepThen
<1>5. ~EraseIn(responses')
  BY <1>2, <1>4, EraseNotMade DEF InStepThen, TypeOK
<1>6. ASSUME NEW i \in 1..Len(commands'), commands'[i].cmd = "erase"
      PROVE  i = Len(commands') /\ commands'[i].at = Chunks
  <2>1. CASE commands' = commands
    BY <1>2, <1>6, <2>1 DEF EraseIn
  <2>2. CASE commands' = Append(commands, Erase(Chunks))
    <3>1. /\ Len(commands') = Len(commands) + 1
          /\ \A k \in 1..Len(commands) : commands'[k] = commands[k]
          /\ commands'[Len(commands) + 1] = Erase(Chunks)
      BY <1>3, <2>2, AppendProperties DEF InStepThen, TypeOK
    <3>2. i \notin 1..Len(commands)
      BY <1>2, <1>6, <3>1 DEF EraseIn
    <3>3. i = Len(commands')
      BY <3>1, <3>2, LenProperties, SMT DEF InStepThen, TypeOK
    <3> QED  BY <3>1, <3>3 DEF Erase
  <2> QED  BY <1>4, <2>1, <2>2
<1>7. EraseComesLast'
  BY <1>5, <1>6 DEF EraseComesLast, EraseIn
<1> QED  BY <1>1, <1>7, Zenon DEF InStep

\* The response to the erase is the last thing that was under way.
LEMMA EraseAnswered ==
    ASSUME InStepThen, pc = "erase_wait", NEW ok \in BOOLEAN, Answered("erase", ok)
    PROVE  /\ commands = << >>
           /\ responses' = << >>
           /\ ok => flash = Written(1)
<1>1. PICK n \in 1..Len(responses) :
         /\ \E i \in Matching("erase", n) : responses[i].ok = ok
         /\ responses' = SubSeq(responses, n + 1, Len(responses))
  BY DEF Answered
<1>2. PICK i \in Matching("erase", n) : responses[i].ok = ok
  BY <1>1
<1>3. i \in 1..n /\ i \in 1..Len(responses) /\ responses[i].cmd = "erase"
  BY <1>2, SMT DEF Matching, InStepThen, TypeOK
<1>4. /\ i = Len(responses)
      /\ commands = << >>
      /\ responses[i].ok => flash = [c \in Cell |-> Erased]
  BY <1>3, Zenon DEF InStepThen, InStep, EraseComesLast
<1>5. n = Len(responses)
  BY <1>3, <1>4, LenProperties, SMT DEF InStepThen, TypeOK
<1>6. responses' = << >>
  <2>1. Len(responses) + 1 \in Int /\ Len(responses) \in Int /\ Len(responses) < Len(responses) + 1
    BY LenProperties, SMT DEF InStepThen, TypeOK
  <2> QED  BY <1>1, <1>5, <2>1, SubSeqEmpty
<1>7. Written(1) = [c \in Cell |-> Erased]
  BY SMT DEF Written, Cell
<1> QED  BY <1>2, <1>4, <1>6, <1>7

LEMMA EraseResultStep == InStepThen /\ EraseResult /\ ~erase_late' => InStep'
<1> SUFFICES ASSUME InStepThen, EraseResult, ~erase_late' PROVE InStep'
    OBVIOUS
<1>1. /\ next = 1 /\ next' = 1 /\ offset' = next' /\ outcome = "none"
      /\ pc = "erase_wait" /\ UNCHANGED <<commands, flash>>
  BY Zenon DEF EraseResult, InStepThen, InStep, deviceVars
<1>2. PICK ok \in BOOLEAN :
         /\ Answered("erase", ok)
         /\ ok => pc' = "loop" /\ UNCHANGED outcome
         /\ ~ok => pc' = "idle" /\ outcome' \in {"False", "raised"}
  BY Zenon DEF EraseResult, End
<1>3. /\ commands = << >>
      /\ responses' = << >>
      /\ ok => flash = Written(1)
  BY <1>1, <1>2, EraseAnswered
<1>4. commands' = << >> /\ flash' = flash
  BY <1>1, <1>3
<1>5. ~EraseIn(commands') /\ ~EraseIn(responses')
  BY <1>3, <1>4, NoEraseInNothing
<1>6. CASE ok
  <2>1. flash' = Written(next')
    BY <1>1, <1>3, <1>4, <1>6
  <2> QED  BY <1>1, <1>2, <1>3, <1>4, <1>5, <1>6, <2>1, Zenon DEF InStep, EraseIn, Written
<1>7. CASE ~ok
  BY <1>1, <1>2, <1>5, <1>7, Zenon DEF InStep, EraseIn
<1> QED  BY <1>6, <1>7

\* A blank chunk is in its cell when the flash has been erased.
LEMMA WrittenBlank ==
    ASSUME FirmwareAssumption, NEW n \in Blank
    PROVE  Written(n + 1) = Written(n)
<1>1. ASSUME NEW c \in Cell, c \notin Blank
      PROVE  c < n + 1 <=> c < n
  BY <1>1, SMT DEF FirmwareAssumption, Cell
<1> QED  BY <1>1 DEF Written

LEMMA WrittenAll ==
    ASSUME FirmwareAssumption
    PROVE  Written(Chunks + 1) = Image
  BY SMT DEF FirmwareAssumption, Cell, Written, Image

\* A chunk that is not blank finds its cell erased.
LEMMA WrittenNext ==
    ASSUME FirmwareAssumption, NEW n \in Cell \ Blank
    PROVE  [Written(n) EXCEPT ![n] = IF @ = Erased THEN n ELSE Garbage] = Written(n + 1)
<1>1. Written(n)[n] = Erased
  BY SMT DEF FirmwareAssumption, Cell, Written
<1>2. ASSUME NEW c \in Cell, c # n
      PROVE  c < n + 1 <=> c < n
  BY <1>2, SMT DEF FirmwareAssumption, Cell
<1>3. n < n + 1 /\ n \in Cell /\ n \notin Blank
  BY SMT DEF FirmwareAssumption, Cell
<1> QED  BY <1>1, <1>2, <1>3 DEF Written

LEMMA SkipBlankStep == InStepThen /\ SkipBlank => InStep'
<1> SUFFICES ASSUME InStepThen, SkipBlank PROVE InStep'
    OBVIOUS
<1>1. /\ pc' = "loop" /\ next \in Blank /\ next = offset
      /\ next' = next + 1 /\ offset' = next' /\ outcome' = "none"
      /\ commands = << >> /\ responses = << >> /\ flash = Written(next)
      /\ UNCHANGED <<commands, responses, flash>>
  BY Zenon DEF SkipBlank, NextChunk, InStepThen, InStep, linkVars, deviceVars
<1>2. flash' = Written(next')
  BY <1>1, FirmwareAssumption, WrittenBlank
<1>3. commands' = << >> /\ responses' = << >>
  BY <1>1
<1> QED  BY <1>1, <1>2, <1>3, NoEraseInNothing, Zenon DEF InStep, EraseIn, Written

LEMMA GetNextChunkStep == InStepThen /\ GetNextChunk => InStep'
<1> SUFFICES ASSUME InStepThen, GetNextChunk PROVE InStep'
    OBVIOUS
<1>1. /\ next = offset /\ outcome = "none"
      /\ commands = << >> /\ responses = << >> /\ flash = Written(next)
      /\ UNCHANGED <<next, offset, outcome, commands, responses, flash>>
      /\ \/ next \in Cell \ Blank /\ pc' = "write"
         \/ next > Chunks /\ pc' = "jump"
  BY Zenon DEF GetNextChunk, InStepThen, InStep, linkVars, deviceVars
<1>2. next > Chunks => next = Chunks + 1
  BY FirmwareAssumption, SMT DEF InStepThen, TypeOK, FirmwareAssumption
<1>3. flash' = Written(next')
  BY <1>1
<1>4. commands' = << >> /\ responses' = << >> /\ next' = next /\ offset' = next' /\ outcome' = "none"
  BY <1>1
<1>5. CASE next \in Cell \ Blank /\ pc' = "write"
  BY <1>3, <1>4, <1>5, NoEraseInNothing, Zenon DEF InStep, EraseIn, Written
<1>6. CASE next = Chunks + 1 /\ pc' = "jump"
  BY <1>3, <1>4, <1>6, NoEraseInNothing, Zenon DEF InStep, EraseIn, Written
<1> QED  BY <1>1, <1>2, <1>5, <1>6

LEMMA WriteNewAppDataStep == InStepThen /\ WriteNewAppData => InStep'
<1> SUFFICES ASSUME InStepThen, WriteNewAppData PROVE InStep'
    OBVIOUS
<1>1. /\ next = offset /\ outcome = "none" /\ next \in Cell \ Blank /\ pc' = "write_wait"
      /\ commands = << >> /\ responses = << >> /\ flash = Written(next)
      /\ UNCHANGED <<next, offset, outcome, flash>>
  BY Zenon DEF WriteNewAppData, InStepThen, InStep, deviceVars
<1>2. next \in 0..Chunks
  BY <1>1, FirmwareAssumption, SMT DEF Cell, FirmwareAssumption
<1>3. WriteChunk(next, next) \in Command /\ WriteChunk(offset, next) = WriteChunk(next, next)
  BY <1>1, <1>2, FirmwareAssumption, CommandType
<1>4. /\ responses' \in Seq(Response) /\ Suffix(responses', responses)
      /\ \/ commands' = commands
         \/ commands' = Append(commands, WriteChunk(next, next))
  BY <1>3, RequestShape DEF WriteNewAppData, InStepThen
<1>5. responses' = << >>
  BY <1>1, <1>4, SuffixOfNothing DEF InStepThen, TypeOK
<1>6. commands' = << >> \/ commands' = <<WriteChunk(next', next')>>
  BY <1>1, <1>4
<1>7. flash' = Written(next')
  BY <1>1
<1>8. ~EraseIn(<<WriteChunk(next', next')>>)
  BY SMT DEF EraseIn, WriteChunk
<1>9. ~EraseIn(commands') /\ ~EraseIn(responses')
  BY <1>5, <1>6, <1>8, NoEraseInNothing
<1>10. WriteUnderWay'
  BY <1>5, <1>6, <1>7, Zenon DEF WriteUnderWay, WriteChunk, Written
<1> QED  BY <1>1, <1>9, <1>10, Zenon DEF InStep

\* A yes can only be to the write of this chunk.
LEMMA WriteAnswered ==
    ASSUME InStepThen, pc = "write_wait", Answered("write", TRUE)
    PROVE  commands = << >> /\ responses' = << >> /\ flash = Written(next + 1)
<1>1. PICK n \in 1..Len(responses) :
         /\ \E i \in Matching("write", n) : responses[i].ok = TRUE
         /\ responses' = SubSeq(responses, n + 1, Len(responses))
  BY DEF Answered
<1>2. PICK i \in 1..n : responses[i].ok = TRUE
  BY <1>1 DEF Matching
<1>3. responses # << >>
  BY <1>1, EmptySeq, SMT
<1>4. commands = << >> /\ Len(responses) = 1 /\ (responses[1].ok => flash = Written(next + 1))
  BY <1>3, Zenon DEF InStepThen, InStep, WriteUnderWay
<1>5. n = 1 /\ i = 1
  BY <1>4, SMT
<1>6. responses' = << >>
  <2>1. n + 1 \in Int /\ Len(responses) \in Int /\ Len(responses) < n + 1
    BY <1>4, <1>5, SMT
  <2> QED  BY <1>1, <2>1, SubSeqEmpty
<1> QED  BY <1>2, <1>4, <1>5, <1>6

LEMMA WriteResultStep == InStepThen /\ WriteResult => InStep'
<1> SUFFICES ASSUME InStepThen, WriteResult PROVE InStep'
    OBVIOUS
<1>1. /\ pc = "write_wait" /\ next = offset /\ outcome = "none"
      /\ ~EraseIn(commands) /\ ~EraseIn(responses)
      /\ UNCHANGED <<commands, flash>>
  BY Zenon DEF WriteResult, InStepThen, InStep, deviceVars
<1>2. CASE Answered("write", TRUE) /\ NextChunk /\ UNCHANGED outcome
  <2>1. commands = << >> /\ responses' = << >> /\ flash = Written(next + 1)
    BY <1>1, <1>2, WriteAnswered
  <2>2. /\ next' = next + 1 /\ offset' = next' /\ pc' = "loop" /\ outcome' = "none"
        /\ commands' = << >> /\ flash' = Written(next')
    BY <1>1, <1>2, <2>1 DEF NextChunk
  <2> QED  BY <2>1, <2>2, NoEraseInNothing, Zenon DEF InStep, EraseIn, Written
<1>3. CASE ~(Answered("write", TRUE) /\ NextChunk /\ UNCHANGED outcome)
  <2>1. /\ pc' = "idle" /\ outcome' \in {"False", "raised"} /\ UNCHANGED <<next, offset>>
        /\ NotAnswered("write") \/ Answered("write", FALSE)
    BY <1>3, Zenon DEF WriteResult, End
  <2>2. responses' \in Seq(Response) /\ Suffix(responses', responses)
    BY <2>1, AnswerShape DEF InStepThen
  <2>3. ~EraseIn(commands') /\ ~EraseIn(responses')
    BY <1>1, <2>2, EraseNotMade DEF InStepThen, TypeOK
  <2>4. next' = offset'
    BY <1>1, <2>1
  <2> QED  BY <2>1, <2>3, <2>4, Zenon DEF InStep
<1> QED  BY <1>2, <1>3

LEMMA JumpStep == InStepThen /\ JumpToBootloader => InStep'
<1> SUFFICES ASSUME InStepThen, JumpToBootloader PROVE InStep'
    OBVIOUS
<1>1. /\ pc' = "idle" /\ outcome' = "True" /\ next = offset /\ next = Chunks + 1
      /\ commands = << >> /\ responses = << >> /\ flash = Written(next)
      /\ UNCHANGED <<next, offset, responses, flash>>
      /\ commands' \in {commands, Append(commands, Jump)}
  BY Zenon DEF JumpToBootloader, End, InStepThen, InStep, deviceVars
<1>2. commands' \in {<< >>, <<Jump>>}
  BY <1>1
<1>3. ~EraseIn(<<Jump>>)
  BY SMT DEF EraseIn, Jump
<1>4. ~EraseIn(commands') /\ ~EraseIn(responses')
  BY <1>1, <1>2, <1>3, NoEraseInNothing
<1>5. flash' = Image'
  BY <1>1, FirmwareAssumption, WrittenAll DEF Image
<1>6. next' = offset' /\ commands' \in {<< >>, <<Jump>>}'
  BY <1>1, <1>2 DEF Jump
<1> QED  BY <1>1, <1>4, <1>5, <1>6, Zenon DEF InStep

-----------------------------------------------------------------------------
(* The steps of the device and the link.                                    *)

\* What is under way to either side only loses its first elements.
LEMMA LossStep ==
    ASSUME InStepThen, UNCHANGED hostVars, UNCHANGED flash,
           commands # << >> \/ responses # << >>,
           commands' \in {commands, Tail(commands)},
           responses' \in {responses, Tail(responses)},
           commands' \in Seq(Command), Suffix(commands', commands),
           responses' \in Seq(Response), Suffix(responses', responses),
           commands' # commands \/ responses' # responses
    PROVE  InStep'
<1>1. pc \notin {"loop", "write", "jump"}
  BY Zenon DEF InStepThen, InStep
<1>2. /\ pc' = pc /\ next' = next /\ offset' = offset /\ outcome' = outcome
  BY DEF hostVars
<1>3. pc # "erase_wait" => ~EraseIn(commands') /\ ~EraseIn(responses')
  BY EraseNotMade DEF InStepThen, InStep, TypeOK
<1>4. pc = "erase_wait" => EraseComesLast'
  BY EraseLastKept DEF InStepThen, InStep
<1>5. ASSUME pc = "write_wait"
      PROVE  WriteUnderWay'
  <2>1. CASE commands = <<WriteChunk(next, next)>> /\ responses = << >>
    <3>1. responses' = << >>
      BY <2>1, SuffixOfNothing DEF InStepThen, TypeOK
    <3>2. commands' = << >>
      BY <2>1, <3>1
    <3> QED  BY <3>1, <3>2, Zenon DEF WriteUnderWay
  <2>2. CASE commands = << >> /\ Len(responses) = 1
    <3>1. commands' = << >>
      BY <2>2, SuffixOfNothing DEF InStepThen, TypeOK
    <3>2. responses' = Tail(responses) /\ Len(Tail(responses)) = 0
      BY <2>2, <3>1, EmptySeq, HeadTailProperties, SMT DEF InStepThen, TypeOK
    <3>3. responses' = << >>
      BY <3>2, EmptySeq, SMT DEF InStepThen, TypeOK
    <3> QED  BY <3>1, <3>3, Zenon DEF WriteUnderWay
  <2> QED  BY <1>5, <2>1, <2>2, Zenon DEF InStepThen, InStep, WriteUnderWay
<1>6. outcome = "True" => flash' = Image' /\ commands' \in {<< >>, <<Jump>>}'
  <2>1. CASE outcome = "True" /\ commands = << >>
    <3>1. commands' = << >>
      BY <2>1, SuffixOfNothing DEF InStepThen, TypeOK
    <3> QED  BY <2>1, <3>1, Zenon DEF InStepThen, InStep, Image
  <2>2. CASE outcome = "True" /\ commands = <<Jump>>
    <3>1. commands' \in {<< >>, <<Jump>>}
      BY <2>2
    <3> QED  BY <2>2, <3>1, Zenon DEF InStepThen, InStep, Image, Jump
  <2> QED  BY <2>1, <2>2, Zenon DEF InStepThen, InStep
<1>7. /\ next' = offset'
      /\ pc' # "idle" => outcome' = "none"
      /\ pc' \in {"erase", "erase_wait"} => next' = 1
      /\ pc' \in {"write", "write_wait"} => next' \in Cell' \ Blank
  BY <1>2, Zenon DEF InStepThen, InStep, Cell
<1> QED  BY <1>1, <1>2, <1>3, <1>4, <1>5, <1>6, <1>7, Zenon DEF InStep

LEMMA LoseStep == InStepThen /\ (LoseCommand \/ LoseResponse) => InStep'
<1> SUFFICES ASSUME InStepThen, LoseCommand \/ LoseResponse PROVE InStep'
    OBVIOUS
<1>1. CASE LoseCommand
  <2>1. /\ UNCHANGED hostVars /\ flash' = flash /\ commands # << >>
        /\ commands' = Tail(commands) /\ responses' = responses
    BY <1>1, Zenon DEF LoseCommand, deviceVars
  <2>2. commands' \in Seq(Command) /\ Suffix(commands', commands)
    BY <2>1, TailIsSuffix DEF InStepThen, TypeOK
  <2>3. responses' \in Seq(Response) /\ Suffix(responses', responses)
    BY <2>1, SuffixOfItself DEF InStepThen, TypeOK
  <2>4. Tail(commands) # commands
    BY <2>1, HeadTailProperties, EmptySeq, SMT DEF InStepThen, TypeOK
  <2> QED  BY <2>1, <2>2, <2>3, <2>4, LossStep
<1>2. CASE LoseResponse
  <2>1. /\ UNCHANGED hostVars /\ flash' = flash /\ responses # << >>
        /\ responses' = Tail(responses) /\ commands' = commands
    BY <1>2, Zenon DEF LoseResponse, deviceVars
  <2>2. responses' \in Seq(Response) /\ Suffix(responses', responses)
    BY <2>1, TailIsSuffix DEF InStepThen, TypeOK
  <2>3. commands' \in Seq(Command) /\ Suffix(commands', commands)
    BY <2>1, SuffixOfItself DEF InStepThen, TypeOK
  <2>4. Tail(responses) # responses
    BY <2>1, HeadTailProperties, EmptySeq, SMT DEF InStepThen, TypeOK
  <2> QED  BY <2>1, <2>2, <2>3, <2>4, LossStep
<1> QED  BY <1>1, <1>2

\* While a command is under way no response to an erase is.
LEMMA DeviceAnswersLast ==
    ASSUME InStepThen, commands # << >>
    PROVE  ~EraseIn(responses)
<1>1. pc = "erase_wait" => \A i \in 1..Len(responses) : responses[i].cmd # "erase"
  BY Zenon DEF InStepThen, InStep, EraseComesLast
<1> QED  BY <1>1, Zenon DEF InStepThen, InStep, EraseIn

LEMMA DeviceErasesStep == InStepThen /\ Device /\ DeviceErases => InStep'
<1> SUFFICES ASSUME InStepThen, Device, DeviceErases PROVE InStep'
    OBVIOUS
<1>1. /\ commands # << >> /\ commands' = Tail(commands) /\ Head(commands).cmd = "erase"
      /\ pc' = pc /\ next' = next /\ offset' = offset /\ outcome' = outcome
  BY DEF Device, DeviceErases, hostVars
<1>2. 1 \in 1..Len(commands) /\ commands[1] = Head(commands)
  BY <1>1, EmptySeq, HeadTailProperties, SMT DEF InStepThen, TypeOK
<1>3. EraseIn(commands)
  BY <1>1, <1>2 DEF EraseIn
<1>4. pc = "erase_wait"
  BY <1>3, Zenon DEF InStepThen, InStep
<1>5. 1 = Len(commands) /\ commands[1].at = Chunks
  BY <1>1, <1>2, <1>4, Zenon DEF InStepThen, InStep, EraseComesLast
<1>6. commands' = << >>
  BY <1>1, <1>5, HeadTailProperties, EmptySeq, SMT DEF InStepThen, TypeOK
<1>7. PICK ok \in BOOLEAN :
         /\ responses' = Append(responses, [cmd |-> "erase", ok |-> ok])
         /\ ok => flash' = [c \in Cell |-> IF c <= Head(commands).at THEN Erased ELSE flash[c]]
  BY DEF DeviceErases, Respond
<1>8. ok => flash' = [c \in Cell |-> Erased]
  <2>1. \A c \in Cell : c <= Chunks
    BY FirmwareAssumption, SMT DEF FirmwareAssumption, Cell
  <2> QED  BY <1>2, <1>5, <1>7, <2>1
<1>9. /\ Len(responses') = Len(responses) + 1
      /\ \A i \in 1..Len(responses) : responses'[i] = responses[i]
      /\ responses'[Len(responses) + 1] = [cmd |-> "erase", ok |-> ok]
  <2>1. [cmd |-> "erase", ok |-> ok] \in Response
    BY DEF Response
  <2> QED  BY <1>7, <2>1, AppendProperties DEF InStepThen, TypeOK
<1>10. ASSUME NEW i \in 1..Len(responses'), responses'[i].cmd = "erase"
       PROVE  /\ i = Len(responses')
              /\ responses'[i].ok => flash' = [c \in Cell |-> Erased]
  <2>1. i \notin 1..Len(responses)
    BY <1>1, <1>9, <1>10, DeviceAnswersLast DEF EraseIn
  <2>2. i = Len(responses) + 1
    BY <1>9, <2>1, LenProperties, SMT DEF InStepThen, TypeOK
  <2> QED  BY <1>8, <1>9, <2>2
<1>11. ~EraseIn(commands')
  BY <1>6, NoEraseInNothing
<1>12. EraseComesLast'
  BY <1>6, <1>10, <1>11, Zenon DEF EraseComesLast, EraseIn, Cell
<1> QED  BY <1>1, <1>4, <1>12, Zenon DEF InStepThen, InStep

LEMMA DeviceWritesStep == InStepThen /\ Device /\ DeviceWrites => InStep'
<1> SUFFICES ASSUME InStepThen, Device, DeviceWrites PROVE InStep'
    OBVIOUS
<1>1. /\ commands # << >> /\ commands' = Tail(commands) /\ Head(commands).cmd = "write"
      /\ pc' = pc /\ next' = next /\ offset' = offset /\ outcome' = outcome
  BY DEF Device, DeviceWrites, hostVars
<1>2. PICK ok \in BOOLEAN :
         /\ responses' = Append(responses, [cmd |-> "write", ok |-> ok])
         /\ ok => flash' = [flash EXCEPT ![Head(commands).at] =
                               IF @ = Erased THEN Head(commands).data ELSE Garbage]
  BY DEF DeviceWrites, Respond
<1>3. [cmd |-> "write", ok |-> ok] \in Response
  BY DEF Response
<1>4. commands' \in Seq(Command) /\ Suffix(commands', commands)
  BY <1>1, TailIsSuffix DEF InStepThen, TypeOK
<1>5. ~EraseIn(responses')
  BY <1>1, <1>2, <1>3, DeviceAnswersLast, EraseNotAppended DEF InStepThen, TypeOK
<1>6. pc # "erase_wait" => ~EraseIn(commands')
  BY <1>4, EraseNotMade, Zenon DEF InStepThen, InStep, TypeOK
<1>7. ASSUME pc = "erase_wait"
      PROVE  EraseComesLast'
  <2>1. ASSUME NEW i \in 1..Len(commands'), commands'[i].cmd = "erase"
        PROVE  i = Len(commands') /\ commands'[i].at = Chunks
    <3>1. /\ Len(commands') = Len(commands) - 1
          /\ \A k \in 1..Len(commands') : commands'[k] = commands[k + 1]
      BY <1>1, HeadTailProperties DEF InStepThen, TypeOK
    <3>2. i + 1 \in 1..Len(commands) /\ commands'[i] = commands[i + 1]
      BY <3>1, SMT DEF InStepThen, TypeOK
    <3>3. i + 1 = Len(commands) /\ commands[i + 1].at = Chunks
      BY <1>7, <2>1, <3>2, Zenon DEF InStepThen, InStep, EraseComesLast
    <3>4. Len(commands) \in Nat /\ i + 1 = Len(commands) /\ Len(commands') = Len(commands) - 1
      BY <3>1, <3>3, LenProperties DEF InStepThen, TypeOK
    <3>5. i = Len(commands')
      BY <3>4, SMT
    <3> QED  BY <3>2, <3>3, <3>5
  <2> QED  BY <1>5, <2>1, Zenon DEF EraseComesLast, EraseIn
<1>8. ASSUME pc = "write_wait"
      PROVE  WriteUnderWay'
  <2>1. commands = <<WriteChunk(next, next)>> /\ responses = << >> /\ flash = Written(next)
    BY <1>1, <1>8, Zenon DEF InStepThen, InStep, WriteUnderWay
  <2>2. Head(commands) = WriteChunk(next, next) /\ commands' = << >>
    BY <1>1, <2>1
  <2>3. responses' = <<[cmd |-> "write", ok |-> ok]>>
    BY <1>2, <2>1
  <2>4. Len(responses') = 1 /\ responses'[1].ok = ok
    BY <2>3
  <2>5. next \in Cell \ Blank
    BY <1>8, Zenon DEF InStepThen, InStep
  <2>6. ok => flash' = Written(next + 1)
    BY <1>2, <2>1, <2>2, <2>5, FirmwareAssumption, WrittenNext DEF WriteChunk
  <2>7. Written(next + 1) = Written(next + 1)'
    BY <1>1 DEF Written
  <2> QED  BY <2>2, <2>4, <2>6, <2>7, Zenon DEF WriteUnderWay
<1>9. pc \notin {"loop", "write", "jump"} /\ outcome # "True"
  <2>1. Head(<<Jump>>).cmd # "write"
    BY DEF Jump
  <2>2. commands # <<Jump>>
    BY <1>1, <2>1
  <2> QED  BY <1>1, <2>2, Zenon DEF InStepThen, InStep
<1>10. /\ next' = offset'
       /\ pc' # "idle" => outcome' = "none"
       /\ pc' \in {"erase", "erase_wait"} => next' = 1
       /\ pc' \in {"write", "write_wait"} => next' \in Cell' \ Blank
  BY <1>1, Zenon DEF InStepThen, InStep, Cell
<1> QED  BY <1>1, <1>5, <1>6, <1>7, <1>8, <1>9, <1>10, Zenon DEF InStep

LEMMA DeviceJumpsStep == InStepThen /\ Device /\ DeviceJumps => InStep'
<1> SUFFICES ASSUME InStepThen, Device, DeviceJumps PROVE InStep'
    OBVIOUS
<1>1. /\ UNCHANGED hostVars /\ flash' = flash /\ commands # << >>
      /\ commands' = Tail(commands) /\ responses' = responses
  BY Zenon DEF Device, DeviceJumps
<1>2. commands' \in Seq(Command) /\ Suffix(commands', commands)
  BY <1>1, TailIsSuffix DEF InStepThen, TypeOK
<1>3. responses' \in Seq(Response) /\ Suffix(responses', responses)
  BY <1>1, SuffixOfItself DEF InStepThen, TypeOK
<1>4. Tail(commands) # commands
  BY <1>1, HeadTailProperties, EmptySeq, SMT DEF InStepThen, TypeOK
<1> QED  BY <1>1, <1>2, <1>3, <1>4, LossStep

LEMMA StutterStep == InStepThen /\ UNCHANGED vars => InStep'
<1> SUFFICES ASSUME InStepThen, UNCHANGED vars PROVE InStep'
    OBVIOUS
<1>1. /\ pc' = pc /\ next' = next /\ offset' = offset /\ outcome' = outcome
      /\ commands' = commands /\ responses' = responses /\ flash' = flash
  BY Zenon DEF vars, hostVars, linkVars, deviceVars
<1>2. EraseComesLast' <=> EraseComesLast
  BY <1>1 DEF EraseComesLast, EraseIn
<1>3. WriteUnderWay' <=> WriteUnderWay
  BY <1>1 DEF WriteUnderWay, Written, WriteChunk
<1>4. Written(next)' = Written(next)
  BY <1>1 DEF Written
<1>5. Image' = Image /\ {<< >>, <<Jump>>}' = {<< >>, <<Jump>>} /\ Cell' = Cell
  BY DEF Image, Jump, Cell
<1>6. (EraseIn(commands)' <=> EraseIn(commands)) /\ (EraseIn(responses)' <=> EraseIn(responses))
  BY <1>1 DEF EraseIn
<1> QED  BY <1>1, <1>2, <1>3, <1>4, <1>5, <1>6, Zenon DEF InStepThen, InStep

-----------------------------------------------------------------------------
(* The invariant.                                                           *)

LEMMA UploadStep == TypeOK /\ LoopBounds /\ UploadInv /\ [Next]_vars => UploadInv'
<1> SUFFICES ASSUME TypeOK, LoopBounds, UploadInv, [Next]_vars, ~reused', ~erase_late'
             PROVE  InStep'
    BY Zenon DEF UploadInv
<1>1. ~UpdateAgain
  BY Zenon DEF UpdateAgain
<1>2. ~reused
  BY <1>1, Zenon DEF Next, Update, Link, UpdateFresh, EraseNewApp, EraseResult, SkipBlank,
                     GetNextChunk, WriteNewAppData, WriteResult, JumpToBootloader, Device,
                     LoseCommand, LoseResponse, history, vars
<1>3. ~erase_late
  BY <1>1, Zenon DEF Next, Update, Link, UpdateFresh, EraseNewApp, EraseResult, SkipBlank,
                     GetNextChunk, WriteNewAppData, WriteResult, JumpToBootloader, Device,
                     LoseCommand, LoseResponse, history, vars
<1>4. InStepThen
  BY <1>2, <1>3, Zenon DEF UploadInv, InStepThen
<1>5. CASE UpdateFresh \/ Update
  BY <1>4, <1>5, FreshStep, EraseNewAppStep, EraseResultStep, SkipBlankStep, GetNextChunkStep,
     WriteNewAppDataStep, WriteResultStep, JumpStep, Zenon DEF Update
<1>6. CASE Link
  <2>1. CASE Device
    BY <1>4, <2>1, DeviceErasesStep, DeviceWritesStep, DeviceJumpsStep, Zenon DEF Device
  <2> QED  BY <1>4, <1>6, <2>1, LoseStep, Zenon DEF Link
<1>7. CASE UNCHANGED vars
  BY <1>4, <1>7, StutterStep
<1> QED  BY <1>1, <1>5, <1>6, <1>7 DEF Next

\* In every state of every run: the types, the offset that never passes the
\* image, and, unless a Firmware was reused or an erase timed out, the upload in
\* step with the device.
THEOREM UploadInvariant == SafetySpec => [](TypeOK /\ LoopBounds /\ UploadInv)
<1>1. Init => TypeOK /\ LoopBounds /\ UploadInv
  BY UploadInit, LoopBoundsInit
<1>2. TypeOK /\ LoopBounds /\ UploadInv /\ [Next]_vars => (TypeOK /\ LoopBounds /\ UploadInv)'
  BY TypeStep, LoopBoundsStep, UploadStep
<1> QED  BY <1>1, <1>2, PTL DEF SafetySpec

\* Types of the variables of update_firmware, the link and the device.
THEOREM UploadTypeCorrect == SafetySpec => []TypeOK
  BY UploadInvariant, PTL

\* update_firmware returns True only when every cell holds its chunk, if the
\* Firmware object is a fresh one and no wait for an erase has timed out.
THEOREM TrueIfEraseInTime == SafetySpec => []FlashedUnlessEraseLate
<1>1. UploadInv => FlashedUnlessEraseLate
  BY Zenon DEF UploadInv, InStep, FlashedUnlessEraseLate, TrueMeansFlashed
<1> QED  BY <1>1, UploadInvariant, PTL
=============================================================================
