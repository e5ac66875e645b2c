---------------------------- MODULE FirmwareUpdate ----------------------------
(***************************************************************************)
(* VESC.update_firmware (src/pyvesc/VESC.py) with the Firmware object it   *)
(* consumes (src/pyvesc/firmware.py).                                      *)
(*                                                                         *)
(* An update erases the flash, writes the image chunk by chunk, skips the  *)
(* chunks that are all 0xFF, and tells the device to jump to its           *)
(* bootloader.  Every erase and write is a request and a response as in    *)
(* CommClient: a drain, the command, and a wait that takes the newest      *)
(* response of the right command id.  A response carries no request        *)
(* number, and update_firmware looks at its result only, not at its        *)
(* new_app_offset.                                                         *)
(*                                                                         *)
(* The device and the link are external: commands and responses keep their *)
(* order, may be arbitrarily late and may be lost; an erase or a write may *)
(* fail; a cell of the flash takes a chunk only while it is erased.        *)
(***************************************************************************)
EXTENDS Integers, Sequences

CONSTANTS
    Chunks,       \* chunks of the image, header included
    Blank,        \* the chunks that are all 0xFF
    MaxUpdates,   \* bound: calls of update_firmware
    MaxPending    \* bound: commands or responses on the link

ASSUME FirmwareAssumption ==
    /\ Chunks \in Nat \ {0}
    /\ Blank \subseteq 1..Chunks
    /\ MaxUpdates \in Nat
    /\ MaxPending \in Nat \ {0}

VARIABLES
    pc,         \* where update_firmware is
    next,       \* firmware.fw_bytes: the first chunk that is still in it
    offset,     \* the cell that the next chunk is for
    outcome,    \* how the last call ended
    updates,    \* calls so far
    commands,   \* commands on their way to the device
    responses,  \* responses on their way to the host
    flash,      \* what is in each cell
    booted,     \* the device has jumped to its bootloader
    reused,     \* history: a call was given a Firmware that had been used
    erase_late  \* history: the wait for an erase response has timed out

hostVars == <<pc, next, offset, outcome, updates>>
linkVars == <<commands, responses>>
deviceVars == <<flash, booted>>
history == <<reused, erase_late>>
vars == <<hostVars, linkVars, deviceVars, history>>

Cell == 1..Chunks

\* A cell holds a chunk, nothing, a chunk of the image before, or neither.
Erased == 0
Old == -1
Garbage == -2
Content == Garbage..Chunks

Erase(size) == [cmd |-> "erase", at |-> size, data |-> 0]
WriteChunk(at, chunk) == [cmd |-> "write", at |-> at, data |-> chunk]
Jump == [cmd |-> "jump", at |-> 0, data |-> 0]

Command == [cmd: {"erase", "write", "jump"}, at: 0..Chunks, data: 0..Chunks]
Response == [cmd: {"erase", "write"}, ok: BOOLEAN]

\* What a cell has to hold for the image to be there.
Image == [c \in Cell |-> IF c \in Blank THEN Erased ELSE c]

TypeOK ==
    /\ pc \in {"idle", "erase", "erase_wait", "loop", "write", "write_wait", "jump"}
    /\ next \in 1..Chunks + 1
    /\ offset \in 1..Chunks + 1
    /\ outcome \in {"none", "True", "False", "raised"}
    /\ updates \in 0..MaxUpdates
    /\ commands \in Seq(Command)
    /\ responses \in Seq(Response)
    /\ flash \in [Cell -> Content]
    /\ booted \in BOOLEAN
    /\ reused \in BOOLEAN
    /\ erase_late \in BOOLEAN

Init ==
    /\ pc = "idle"
    /\ next = 1
    /\ offset = 1
    /\ outcome = "none"
    /\ updates = 0
    /\ commands = << >>
    /\ responses = << >>
    /\ flash = [c \in Cell |-> Old]
    /\ booted = FALSE
    /\ reused = FALSE
    /\ erase_late = FALSE

-----------------------------------------------------------------------------
(* write and read, as update_firmware uses them.                            *)

\* The drain takes what has arrived by then, any first part of what is under
\* way; the command may be lost.
Request(command) ==
    /\ Len(commands) < MaxPending
    /\ \E n \in 0..Len(responses) :
          responses' = SubSeq(responses, n + 1, Len(responses))
    /\ commands' \in {commands, Append(commands, command)}

Matching(cmd, n) == {i \in 1..n : responses[i].cmd = cmd}

\* The first n responses have arrived in one burst: the newest one of the
\* command wins, the others are ignored.
Answered(cmd, ok) ==
    \E n \in 1..Len(responses) :
       /\ \E i \in Matching(cmd, n) :
             /\ \A j \in Matching(cmd, n) : j <= i
             /\ responses[i].ok = ok
       /\ responses' = SubSeq(responses, n + 1, Len(responses))

\* None: the deadline, with nothing but responses to other commands.
NotAnswered(cmd) ==
    \E n \in 0..Len(responses) :
       /\ Matching(cmd, n) = {}
       /\ responses' = SubSeq(responses, n + 1, Len(responses))

-----------------------------------------------------------------------------
(* update_firmware                                                          *)

End(value) == pc' = "idle" /\ outcome' = value

\* update_firmware(Firmware(path))
UpdateFresh ==
    /\ pc = "idle"
    /\ updates < MaxUpdates
    /\ updates' = updates + 1
    /\ next' = 1
    /\ offset' = 1
    /\ outcome' = "none"
    /\ pc' = "erase"
    /\ UNCHANGED <<linkVars, deviceVars, history>>

\* update_firmware with the object of the call before.
UpdateAgain ==
    /\ pc = "idle"
    /\ updates \in 1..MaxUpdates - 1
    /\ updates' = updates + 1
    /\ offset' = 1
    /\ outcome' = "none"
    /\ reused' = TRUE
    /\ pc' = "erase"
    /\ UNCHANGED <<next, linkVars, deviceVars, erase_late>>

\* fw_erase_new_app(firmware.size)
EraseNewApp ==
    /\ pc = "erase"
    /\ Request(Erase(Chunks + 1 - next))
    /\ pc' = "erase_wait"
    /\ UNCHANGED <<next, offset, outcome, updates, deviceVars, history>>

\* Mutant of EraseResult: a failed erase is not noticed.
EraseResultIgnored ==
    /\ pc = "erase_wait"
    /\ \/ /\ \E ok \in BOOLEAN : Answered("erase", ok)
          /\ pc' = "loop"
          /\ UNCHANGED <<outcome, erase_late>>
       \/ /\ NotAnswered("erase")
          /\ End("raised")
          /\ erase_late' = TRUE
    /\ UNCHANGED <<next, offset, updates, commands, deviceVars, reused>>

\* On a failure progress_callback is called, whether there is one or not: with
\* the default None the call raises.  No response at all raises too, at
\* erase_res.erase_new_app_result.
EraseResult ==
    /\ pc = "erase_wait"
    /\ \/ /\ Answered("erase", TRUE)
          /\ pc' = "loop"
          /\ UNCHANGED <<outcome, erase_late>>
       \/ /\ Answered("erase", FALSE)
          /\ End("False") \/ End("raised")
          /\ UNCHANGED erase_late
       \/ /\ NotAnswered("erase")
          /\ End("raised")
          /\ erase_late' = TRUE
    /\ UNCHANGED <<next, offset, updates, commands, deviceVars, reused>>

\* Mutant of NextChunk: get_next_chunk takes the chunk out, and clear_chunk the
\* one behind it.
ClearTwice ==
    /\ next' = next + 2
    /\ offset' = offset + 1
    /\ pc' = "loop"

\* clear_chunk, and "offset += firmware.chunk_size".
NextChunk ==
    /\ next' = next + 1
    /\ offset' = offset + 1
    /\ pc' = "loop"

\* Mutant of SkipBlank: "continue" for a blank chunk, before the clear_chunk.
SkipForever ==
    /\ pc = "loop"
    /\ next \in Blank
    /\ UNCHANGED <<hostVars, linkVars, deviceVars, history>>

\* A chunk of 0xFF is not sent.
SkipBlank ==
    /\ pc = "loop"
    /\ next \in Blank
    /\ NextChunk
    /\ UNCHANGED <<outcome, updates, linkVars, deviceVars, history>>

\* "while firmware.size > 0"
GetNextChunk ==
    /\ pc = "loop"
    /\ \/ next \in Cell \ Blank /\ pc' = "write"
       \/ next > Chunks /\ pc' = "jump"
    /\ UNCHANGED <<next, offset, outcome, updates, linkVars, deviceVars, history>>

\* fw_write_new_app_data(offset, fw_chunk)
WriteNewAppData ==
    /\ pc = "write"
    /\ Request(WriteChunk(offset, next))
    /\ pc' = "write_wait"
    /\ UNCHANGED <<next, offset, outcome, updates, deviceVars, history>>

\* The result of fw_write_new_app_data, as EraseResult.
WriteResult ==
    /\ pc = "write_wait"
    /\ \/ Answered("write", TRUE) /\ NextChunk /\ UNCHANGED outcome
       \/ /\ Answered("write", FALSE)
          /\ End("False") \/ End("raised")
          /\ UNCHANGED <<next, offset>>
       \/ NotAnswered("write") /\ End("raised") /\ UNCHANGED <<next, offset>>
    /\ UNCHANGED <<updates, commands, deviceVars, history>>

\* fw_jump_to_bootloader expects no response: no drain, and a write that fails
\* is logged and forgotten.
JumpToBootloader ==
    /\ pc = "jump"
    /\ Len(commands) < MaxPending
    /\ commands' \in {commands, Append(commands, Jump)}
    /\ End("True")
    /\ UNCHANGED <<next, offset, updates, responses, deviceVars, history>>

Update ==
    \/ EraseNewApp \/ EraseResult \/ SkipBlank \/ GetNextChunk
    \/ WriteNewAppData \/ WriteResult \/ JumpToBootloader

-----------------------------------------------------------------------------
(* The device and the link.                                                 *)

Respond(cmd, ok) == responses' = Append(responses, [cmd |-> cmd, ok |-> ok])

DeviceErases ==
    /\ Head(commands).cmd = "erase"
    /\ \/ /\ flash' = [c \in Cell |-> IF c <= Head(commands).at THEN Erased ELSE flash[c]]
          /\ Respond("erase", TRUE)
       \/ Respond("erase", FALSE) /\ UNCHANGED flash
    /\ UNCHANGED booted

DeviceWrites ==
    /\ Head(commands).cmd = "write"
    /\ LET c == Head(commands).at IN
       \/ /\ flash' = [flash EXCEPT ![c] = IF @ = Erased THEN Head(commands).data ELSE Garbage]
          /\ Respond("write", TRUE)
       \/ flash' = [flash EXCEPT ![c] = Garbage] /\ Respond("write", FALSE)
    /\ UNCHANGED booted

DeviceJumps ==
    /\ Head(commands).cmd = "jump"
    /\ booted' = TRUE
    /\ UNCHANGED <<flash, responses>>

Device ==
    /\ commands # << >>
    /\ Len(responses) < MaxPending
    /\ ~booted
    /\ commands' = Tail(commands)
    /\ DeviceErases \/ DeviceWrites \/ DeviceJumps
    /\ UNCHANGED <<hostVars, history>>

LoseCommand ==
    /\ commands # << >>
    /\ commands' = Tail(commands)
    /\ UNCHANGED <<hostVars, responses, deviceVars, history>>

LoseResponse ==
    /\ responses # << >>
    /\ responses' = Tail(responses)
    /\ UNCHANGED <<hostVars, commands, deviceVars, history>>

Link == Device \/ LoseCommand \/ LoseResponse

-----------------------------------------------------------------------------

Next == UpdateFresh \/ UpdateAgain \/ Update \/ Link

SafetySpec == Init /\ [][Next]_vars

\* The updating thread runs.  Commands leave the link one way or another, so
\* that there is room for the next.
Spec == SafetySpec /\ WF_vars(Update) /\ WF_vars(Link)

-----------------------------------------------------------------------------
(* Properties.                                                              *)

\* What "Firmware upload complete" (VESC.py:282) and the result True say: every
\* cell holds its chunk.
TrueMeansFlashed == outcome = "True" => flash = Image

\* It holds for a Firmware object that has not been used before, whatever was
\* late, lost or refused in this update and in the ones before, as long as no
\* wait for an erase has timed out.  (A response of a write never answers a later
\* write, because the response of the erase between them was behind it.  After
\* an erase has timed out, its late response can answer the next erase, leave
\* that one's response behind, and so on.)
FlashedUnlessEraseLate ==
    ~reused /\ ~erase_late => TrueMeansFlashed

\* Why it holds.  Nothing of an erase is under way unless it is waited for; the
\* response to an erase has nothing behind it and, when it says yes, an empty flash.
\* From then on nothing is under way but the write that is waited for.
EraseIn(seq) == \E i \in 1..Len(seq) : seq[i].cmd = "erase"

EraseComesLast ==
    /\ \A i \in 1..Len(commands) : commands[i].cmd = "erase" =>
          i = Len(commands) /\ commands[i].at = Chunks /\ ~EraseIn(responses)
    /\ \A i \in 1..Len(responses) : responses[i].cmd = "erase" =>
          /\ i = Len(responses)
          /\ commands = << >>
          /\ responses[i].ok => flash = [c \in Cell |-> Erased]

\* The chunks before n are in their cells.
Written(n) == [c \in Cell |-> IF c < n /\ c \notin Blank THEN c ELSE Erased]

WriteUnderWay ==
    \/ commands = <<WriteChunk(next, next)>> /\ responses = << >> /\ flash = Written(next)
    \/ commands = << >> /\ responses = << >>
    \/ /\ commands = << >>
       /\ Len(responses) = 1
       /\ responses[1].ok => flash = Written(next + 1)

InStep ==
    /\ next = offset
    /\ pc # "idle" => outcome = "none"
    /\ pc # "erase_wait" => ~EraseIn(commands) /\ ~EraseIn(responses)
    /\ pc \in {"erase", "erase_wait"} => next = 1
    /\ pc = "erase_wait" => EraseComesLast
    /\ pc \in {"loop", "write", "jump"} =>
          commands = << >> /\ responses = << >> /\ flash = Written(next)
    /\ pc \in {"write", "write_wait"} => next \in Cell \ Blank
    /\ pc = "write_wait" => WriteUnderWay
    /\ pc = "jump" => next = Chunks + 1
    /\ outcome = "True" => flash = Image /\ commands \in {<< >>, <<Jump>>}

\* The upload stays in step with the device: what is under way belongs to the step
\* that waits for it, and the chunks sent so far are in the flash.
UploadInv == ~reused /\ ~erase_late => InStep

\* update_firmware comes to an end.
UpdateEnds == pc # "idle" ~> pc = "idle"
=============================================================================
