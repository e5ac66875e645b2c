# A verification development for PyVESC

PyVESC talks to VESC motor controllers over a serial line, a TCP bridge, or a
CAN bus. This directory holds TLA+ modules translated from its source, TLC
configurations that check them on small instances, and TLAPS proofs of their
safety properties for instances of any size. Line numbers below are those
of `src/pyvesc/`; `PROJECT.json` maps every definition to its lines.

    tlc -workers 2 -config CommTunnel_contract.cfg MCCommTunnel
    tlapm CommTunnelProofs.tla

## 1. Inventory

| Component | Source | State | Operations |
|---|---|---|---|
| COMM-over-CAN tunnel | `can/bus.py` 138-186 | `_comm_lock`, `_comm_reply`, `_comm_event`, `_comm_buf` | `comm_request`, `_on_tunnel_frame` |
| Ping and bus scan | `can/bus.py` 106-124, 218-253 | `_pongs` under `_lock`, `_pong_event` | `ping`, `scan`, the PONG branch of `_on_message` |
| Telemetry, subscribers, loggers | `can/bus.py` 28-67, 125-136, 188-204, 257-270 | `_telemetry`, `_subscribers`, `_loggers` | `_on_message`, `telemetry`, `known_nodes`, `subscribe`, attach and detach, `close` |
| CAN node | `can/node.py` | `applied_conf` | commands, `conf_*`, `is_alive`, `get_fw_version`, `get_values` |
| CAN frames | `can/frames.py` | none | encoders, decoders, `encode_comm_frames` |
| Serial/TCP request and response | `VESC.py` 111-231 | module-wide `read_lock`; locals of `read` | `write`, `read` |
| TCP transport | `transport.py` | `_buf`, `is_open`, the socket | `in_waiting`, `read`, `write`, `close`, `_pump` |
| Heartbeat and lifecycle | `VESC.py` 28-133, 396-405 | `alive_msgs`, `_stop_heartbeat`, the thread | `start_heartbeat`, `stop_heartbeat`, `__exit__`, jump |
| Firmware upload | `VESC.py` 233-289, `firmware.py` | `Firmware.fw_bytes`, `size`; the device's flash | `update_firmware` |
| Packet codec | `protocol/packet/` | none; the caller's buffer | `frame`, `unframe` |
| Message packing | `protocol/base.py`, `interface.py`, `messages/` | the registry of message classes | `pack`, `unpack`, `encode`, `decode` |
| Parameters | `params/config_param.py` | none | `serialise`, `deserialise` of each type |
| Generated configuration code | `params/confgenerator.py` | a parameter list | serialise, deserialise of mcconf and appconf |
| Examples, bench scripts, tests | `examples/`, `*.py` | | |

How they interact:

- **Threads.** An application thread calls `comm_request`, `ping` or a getter;
  any number may. `python-can`'s notifier owns one RX thread, which runs
  `_on_message` for every frame. A `VESC` object owns one heartbeat thread.
- **Shared state.** The RX thread hands over in `_comm_reply`/`_comm_event`
  and `_pongs`/`_pong_event`. Only `_pongs` and `_telemetry` are locked on both
  sides; `_comm_lock` serialises callers, not the RX thread. The serial side has
  one `read_lock` for the whole process, free between drain, write and read.
- **Messages.** No request carries a number, on either link. Answers are told
  apart by sender (CAN) or command id (serial), so lateness matters.

What is hard, and what each component must guarantee:

- *Tunnel*: replies of several controllers reassemble in one buffer; a reply
  may come late, or between two unlocked accesses. Nothing torn or misfiled, in
  order and never twice, no wake-up lost, every call ends.
- *Ping*: one event is shared by all pings. No stale PONG is reported, no
  stored PONG is missed, whoever clears the event.
- *Serial requests*: several threads' drains and reads interleave, with late,
  cut and foreign responses and a closing peer. A response goes to one caller,
  nothing drained is returned, the lock is given back, waiting is bounded.
- *Heartbeat*: silence after a stop and during a reboot; every target is fed.
- *Firmware*: True means that the image is in the flash; the upload ends.
- *Codec*: no dependence on how the stream is cut; the first whole packet
  behind corrupt bytes is found; never stuck with nothing to wait for.
- *Tunnel frames*: what `encode_comm_frames` cuts up is what the reassembly puts
  together, for every length and whatever the buffer holds.
- *CAN frames, messages, parameters*: what one end packs, the other end reads as the
  nearest step of the same sign, in its own field; what does not fit is refused.
- *Telemetry*: a snapshot that was handed out never changes or mixes controllers; every
  subscriber gets every status once, in order; alive means heard within the time.
- *CAN node*: `applied_conf` is the envelope the controller goes by, whatever sends failed.
- *Configuration*: what was read is what the controller had, and what is written back
  differs by the user's edit alone, whatever was lost or late on the line.

## 2. Modules

| Module | Models | Role |
|---|---|---|
| `RequestReply` | what a request/response channel without request ids can promise | abstract specification |
| `CommTunnel` | tunnel: callers, RX thread, reassembly | refines `RequestReply` |
| `CommTunnelProofs` | | theorems |
| `TunnelFrames` | `encode_comm_frames` and the reassembly, byte by byte | |
| `PingScan` | `ping`, `scan`, PONG handling | |
| `CanBus` | `_on_message`, which hands frames to either | composes `PingScan` and `TunnelFrames` |
| `CommClient` | `VESC.write`/`read`, TCP buffer and close | refines `RequestReply` (one thread) |
| `CommClientProofs` | | theorems |
| `Lifecycle` | construction, heartbeat thread, jump, `__exit__` | |
| `ThreadProofs` | `Lifecycle`, `PingScan`, `TunnelFrames`, `CanBus`: what runs beside the user's thread | theorems |
| `FirmwareUpdate`, `FirmwareProofs` | `update_firmware` with the device's flash | theorems |
| `PacketCodec`, `PacketCodecProofs` | `frame`, `unframe`, recovery, the unframing loop | theorems |
| `ScaledIntegers` | integers of n bytes, rounding, ranges | used by all below |
| `ScaledIntegersProofs` | digits, two's complement, rounding | lemmas for the two modules of theorems below |
| `CanFrames` | `can/frames.py` without the tunnel | operators |
| `Telemetry` | `_on_message` for STATUS, snapshots, `subscribe`, `is_alive` | state and actions for `CanNode` |
| `CanNode` | commands, envelopes, `applied_conf` | composes `CanFrames` and `Telemetry` |
| `CanNodeProofs` | `CanFrames`, `Telemetry`, `CanNode` | theorems |
| `Messages` | message classes, `pack`, `unpack`, `decode` | operators |
| `ConfigParams`, `ConfigGenerator` | parameter types; mcconf and appconf, field by field | operators |
| `ConfigSession` | the request API of `VESC` with a user who reads, edits and writes back | composes `Messages` and `ConfigGenerator` |
| `ConfigSessionProofs` | `Messages`, `ConfigParams`, `ConfigGenerator`, `ConfigSession` | theorems |
| `MC*` | constants, symmetry for TLC | |

### CommTunnel

`comm_request` is one action per access of shared state. `pc` says where a
thread is: `reset_reply` (line 167), `reset_event` (168), `send` (169-174),
`check` (176-179), `wait` (180), `read` (181-184), `drop_reply` (185),
`drop_event` (186). A blocked caller of the lock is an idle one. The RX thread
is `OnTunnelFrame` followed by `SetEvent`; between the two, `_comm_reply` is new
and the event is not set.

Data: request `q` stands for its payload; an answer is `Chunks` pieces each of
which says whom it answers, and the CRC comparison accepts a reassembled
payload exactly when its pieces are those of the answer the CRC was computed
over. A controller answers in one `PROCESS_SHORT_BUFFER` frame or in FILL frames
and a `PROCESS_RX_BUFFER`, in order; any frame may be lost, the last one too.
`Expire` is the clock passing the deadline, at any point of the loop.

### TunnelFrames

What `CommTunnel` takes for granted, that a payload is published exactly when all its
frames have arrived, is decided here. `Begin` takes a payload, `ShortFrame`,
`FillFrame`, `FillLongFrame` and `ProcessFrame` are the iterations of
`encode_comm_frames`, with the offset `i`; each hands its frame to `OnShort`, `OnFill`,
`OnFillLong` or `OnProcess`, or loses it. `Splice` is the slice assignment, which
makes a `bytearray` longer when it ends behind it; the buffer is never cleared. The
CRC is represented by the payload it was computed over. The device end of the tunnel
uses the same format, so one encoder and one reassembly stand for both directions.
`Base` is the number of values of a byte: 256 in the code, 16 in the run, and anything
in the proofs.

### RequestReply

Requests are served one at a time; a request ends with None, or with an answer
of the right controller to this request or an earlier one, later than every
answer returned for that controller before; each ends. "The answer to *this*
request" is more than the protocol can give, see section 6.

### PingScan

`pop` (222), `send` (226), `back_off` (230), `check` (233), `clear` (236),
`look` (238), `wait` (240), `look_again` (242). `OnPong` is the store under
`_lock`, `SetEvent` the separate `set`. `SubscriberRaises` ends the RX thread.
`heard`, `answered` and `disturbed` are history variables: no guard reads them.

### CanBus

One `VescCanBus`. `PongStep` is a step of `PingScan`, `TunnelStep` one of `TunnelFrames`;
they share no data and one thread, so that no frame of the tunnel is handled between the
two steps of a PONG, and none once a subscriber has ended the thread.

### CommClient

`drain` (148-155), `write` (157), `lock` (191), `poll` (194-224), `unframe`
(201-217), `sleep` (224). A response is two runs of bytes, front and rear, so a
drain can cut it; what `unframe` does with a cut response (skip to its last byte,
the terminator, which is also a start byte) is what `PacketCodec` computes for
these cases. Time is counted in polls: `Tick` advances all clocks, and only when
no thread has anything else to do. `waited` starts at the call, `left` at the
lock, as in the code.

### Lifecycle

The user's thread and the heartbeat thread with `alive_msgs`, the stop flag, the
descriptor and `is_open`. A Python thread can be started once. The iteration
over `alive_msgs` sees what is appended meanwhile.

### FirmwareUpdate

The image is chunks `1..Chunks`; `next` is what is left in the `Firmware` object,
`offset` where the next chunk goes. They are equal in a first update and differ
in a second one with the same object. Erase and write are a drain, a command,
and a wait for the newest response of that command id. A cell of the flash takes
a chunk only while erased.

### PacketCodec

Bytes are `0..ByteCount-1`. `UnpackAt(i, ...)` is `_unpack` of the buffer from `i` on and
`Recover(i, ...)` is `_recovery_recurse`; each is given what the call it may make
returns. The calls they make of each other behind the first start byte are all in recovery
mode: they are the recursive function `Recovery` over the start index. The CRC is some
checksum of two bytes; no property depends on which.

### ScaledIntegers and CanFrames

A byte has `Base` values. A physical value is sent as a whole number of steps and
given here in half steps, which is all that rounding and truncation need to be told apart;
`RoundedHalfSteps` is Python's `round` (ties to even), `TruncatedHalfSteps` is `int`.
`CanFrames` has the encoders with their range checks and clamps, the two places of the
off-delay, and the STATUS decoder with its field widths. What a controller makes of a
frame (`Heard`) is external and follows the layout that `frames.py` documents.

### Telemetry and CanNode

The RX thread handles a STATUS frame in steps: the stamp is taken (`OnMessage`), the
snapshot is replaced under `_lock` (`Store`), each subscriber is called (`Notify`),
over the live list; a callback that raises ends the thread. `is_alive` is `AskAlive`,
which takes the snapshot, and `AnswerAlive`, which reads the clock. A `conf_*` call is
`SendConf` and `RecordConf`: the frame is on the bus before the record is written.
`bus.send` may raise. `order` holds the last command and what each controller understood
of it; `Forget` drops it before anything else happens. It is a history variable, like
`log`, `seen` and `since`.

### Messages, ConfigParams, ConfigGenerator, ConfigSession

`Setters` and `Getters` are the registry: id, fields sent, fields received. A field with
`Whole` has no scalar. A parameter is named by its place in `Layout`, which has the types
of all 189 and 187 parameters in the order of the generated code, 481 and 493 bytes with
the signature. A `Double32_Auto` is sign, exponent and fraction, the fraction in half
steps of what its bits can hold; `ExpCount` and `FracCount` are the numbers of values that
the bits of exponent and fraction have (256 and 2^23 in the code, 8 and 16 in the run).

In `ConfigSession` a call is `Exchange` (drain and write), `Collect` (one pass of the
read loop) and `EndRead` (the quiet time or `max_wait` is over; `Decode` joins what was
collected). `wire` holds the replies not read yet; how many of them the drain finds is
chosen, as is how many are cut off when a read ends. `late` is history: when the call
began, an earlier one was not settled. `Load`, `Edit` and `Set` are the user, as in
`motor_example.py`. The controller (`Handle`) answers in order, stores a configuration
with the right signature, and may lose the first part of an answer.

## 3. Runs

| Run | States | Shows |
|---|---|---|
| `tunnel_contract` | 378 k | 2 threads, 2 controllers, 3 requests: nothing torn, in order, out of step only by a timeout, no wake-up lost (one controller); the tunnel implements `RequestReply`, fairness included: every call ends; and the lock comes free after every call |
| `tunnel_discard` | violation | `bus.py:185` can throw away the awaited reply |
| `can_bus` | 2.0 M | no stale PONG, none missed, no wake-up lost to the clock for an undisturbed ping; a payload that loses no frame is published as it was sent, for the lengths around every boundary of format and buffer; deadlock is checked |
| `client_single` | 110 k | one thread keeps `RequestReply` and returns within `max_wait` |
| `client_threads` | 1.2 M | two threads: no drained or doubled response; the lock is given back |
| `life_heartbeat` | 3.7 k | silent after stop and while rebooting, stop returns, every target fed |
| `firmware_upload` | 3.3 k | True means flashed, unless an erase has timed out or the object was used before; every upload ends |
| `firmware_retry` | violation | a second upload with a used `Firmware` object reports success without the image |
| `codec_stream` | 240 k | a clean stream is received whole in any pieces; the first whole packet is always found |
| `can_node` | 709 k | two controllers, two status messages, two subscribers, a user who commands and configures over a bus that refuses frames: snapshots, callbacks, `is_alive`, the bytes of commands and statuses, `applied_conf` |
| `config_session` | 48 k | both configurations, three requests with late, lost and joined replies: what is loaded was the controller's, and what is written back differs by the edit alone; all message classes packed and unpacked, forwarded or not |
| `config_forwarded` | violation | a terminal command of a `VESC` with a `can_id` is refused (`base.py` 259) |

Bounds, and why they are enough:

- Two threads, controllers, nodes or command ids: every race above is between
  two callers, or a caller and the RX thread; a third adds waiting only.
- Three requests or PINGs: one that times out, one that gets its late answer,
  one that shows whether order is kept. (`tunnel_discard` needs 2.)
- `Chunks = 2` for replies: one piece from each of two controllers is torn.
- `MaxWait` 4 and `QuietTime` 1 with one thread: the quiet time fits in several
  times; `MaxWait` 2 with two threads, where no property counts ticks.
- Tunnel bytes: `Base = 16` moves the change of format from offset 256 to 16, and
  `BufferSize = 24` the end of the buffer from 512 to 24. Lengths 6 and 7 (one frame or
  more), 16 (FILL frames only), 22 (one LONG frame), 34 and 35 (a LONG frame
  across the end, one behind it); three payloads, so that two kinds of remains are there.
- `can_bus` has PINGs or payloads in a behaviour, not both (`OneKind` in `MCCanBus`): they share
  no data. The theorem `BusParts` has them in any order.
- Firmware: three chunks with a blank one in the middle, three updates: one that
  fails, one that starts from what it left behind, one more.
- Codec: `ByteCount = 4`, so a payload of four bytes needs the two-byte length;
  payloads contain start bytes; up to three bytes are lost or added.
- `Base = 4` for CAN frames, messages and parameters: four bytes hold -128..127 and two
  bytes -8..7 steps, so commands reach both ends of each range, one beyond, ties, and zero.
- `can_node`: `MaxEvents` 4 statuses, ticks, registrations or envelopes together: two
  statuses of one controller with a snapshot and a tick between, or a second envelope
  after a failed one. Commands change no state and are given before the first event
  (`MaxCommanded` 1).
- `config_session`: the controller's bytes are scattered so that all `Bool` bytes 0..3,
  tiny floats and both signs occur; one edited parameter (`MaxEdits` 1); three requests: read,
  write back, and a late or repeated one. Edits and commands reach both ends of each range;
  firmware chunks have the full length and less.
- The proofs have none of these bounds.

Deadlock checking is off where every thread may stop for good by the code (all
calls bounded, object gone); progress is stated by liveness properties there. In `can_bus` it is
on: the one end there is, all payloads sent, is a step of its own (`Finished`).

**Symmetry** is used in `client_threads` and `can_bus`, which check safety only. (`AnsweredIsFound`, an
action property, does not name any thread or node.)

**Fairness.** `WF(CallStep(t))`: a thread inside a call is scheduled; nobody has
to call. `WF(Expire(t))`: time passes. `WF(RxStep)`: the notifier's thread runs.
In `CommClient` the threads and the clock; in `Lifecycle` the heartbeat thread and
the return from `join`, not the user; in `FirmwareUpdate` the updating thread, and the link in that a command leaves it, delivered or lost. No fairness is
assumed of devices, of delivery, or of a lock under contention beyond that.

Every property has a mutant in `PROJECT.json`: a plausible bug put into one
definition, with which TLC finds the property violated. The mutated definitions
stand in the modules, each before its original and marked as a mutant; no
specification uses them.

## 4. Proofs

`CommTunnelProofs` (any threads, controllers, chunk counts, numbers of requests):

- `TunnelInvariant`: `SafetySpec => [](TypeOK /\ TunnelInv)`. `NoTornReply`,
  `RepliesInOrder` and `MisansweredAfterTimeout` speak of what has been returned,
  which says nothing of what may still arrive, so none is inductive.
  `TunnelInv` adds: the lock holder serves the last request and no other is open
  (`OneInFlight`); inbox, outbox and reply slot of each controller are in the order
  of its requests (`BusInOrder`, `PublishedInOrder`); what is in the slot once it has
  been reset is later than all answers returned (`FreshReply`); and what is under
  way is later than each of them (`AnsweredInOrder`). Each conjunct has its
  own lemma with one step per action.
- `TypeCorrect`, `NothingTorn`, `InOrderReplies`, `NoDesyncWithoutTimeout`: its
  consequences.
- `NoWakeupLost`: with one controller addressed. It rests on `AwakeInv`, which
  says that the event covers a published reply from `wait` back to the
  reset, given that nothing is discarded.
- `TunnelImplementsContract`: `SafetySpec => Contract!SafetySpec`, by step
  simulation from `TunnelInv`.

`ThreadProofs`, PING and PONG (any threads, nodes, numbers of PINGs):

- `PingInvariant`: `Spec => [](TypeOK /\ PingInv)`. `FoundAfterPop` needs that an id
  is asked for once per scan (`EachIdOnce`) and that a PONG in `_pongs` after the pop
  has been heard since (`FreshPongs`); `AnsweredIsFound` needs that the PONG stays
  there while its thread waits (`AnsweredIsThere`).
- `PingTypeCorrect`, `FoundIsFresh`, `PongWakes`, `NoAnswerMissed` (an action property).

`ThreadProofs`, reassembly (any `Base`, any size of the buffer, payloads of every length
that two bytes can hold):

- `FramesInvariant`: `AssemblySpec => [](AssemblyTypeOK /\ FramesInv)`: as long as no frame of the
  payload is lost, its first `i` bytes stand at the start of the buffer (`Arrived`), and
  the buffer is no longer than it was or than the longest payload. Rests on lemmas about
  the slice (`SpliceShape`), the chunk (`ChunkShape`) and the two-byte number
  (`WordRoundTrip`).
- `FramesTypeCorrect`, `WholeIsReassembled`, `BufferStaysBounded`: its consequences.

`ThreadProofs`, the bus: every step of `CanBus` is a step of `PingScan` or none, and one of
`TunnelFrames` or none (`BusStep`). So `BusParts`: `BusSpec => Spec /\ AssemblySpec`, and all of the
above holds of a bus whose RX thread takes PONGs and tunnel frames as they come; with it
`BusTypeCorrect`.

`ThreadProofs`, heartbeat (any targets, any bounds): `LifecycleTypeCorrect`, `SilentForGood`,
`RebootIsSilent`. Neither property is inductive: `StoppedFirst` adds that joining, a
reboot and a closed descriptor come after the flag has been set, which nothing clears.

`FirmwareProofs` (any image, any bounds): `UploadInvariant`, `UploadTypeCorrect` and
`TrueIfEraseInTime`. That True means flashed needs to know what is under way between host
and device: `InStep` says for each step that only the command it waits for, and
its answer, can be on the link, and that the flash holds the chunks up to `offset`. One
lemma per action, of the host and of the device. `LoopBounds` bounds offsets for the types.

`CommClientProofs` (any threads, requests and bounds on the wait):

- `ClientInvariant`: `SafetySpec => [](TypeOK /\ ClientInv)`. The argument is about one
  sequence, `Stream`: what the reader holds, then the buffer, then the wire. A step
  shortens it to a stretch of itself (`StreamShrinks`), adds a response at its end
  (`StreamGrows`), or cuts it and puts a terminator there (`StreamIsCut`);
  `StreamStep` says so once for all actions. From that: a request is not sent,
  with the device, or answered, and never two of these (`OnePlace`); a response is taken
  from the stream once (`TakenOnce`); what was there at a drain is behind the thread that
  drained (`Forgotten`).
- `ClientTypeCorrect`, `LockGivenBack`, `DrainedStaysAway`, `OneCallerEach`: its
  consequences.
- `WaitIsBounded` and `ClientImplementsContract` (the safety part of `RequestReply`, by
  step simulation) assume `OneThread`: `Thread` has at most one member. With two, both
  fail for the reasons in section 6.

`CanNodeProofs` (any even `Base`, any controllers, subscribers and commands):

- `NumbersReadBack` (in `ScaledIntegersProofs`): the number codec, at one, two and four
  bytes, signed and unsigned. `StatusReadBack`: every field of every STATUS kind that fits is read back by
  `decode_frame`. `HeardAsMeant`: a controller reads in every command frame the packet, the
  values and the off-delay that the encoder was given. `CommandsUnderstood` is the
  invariant `CommandUnderstood`, the nearest step included.
- `CanNodeInvariant`: types, `TelemetryInv` and `ConfInv`. The log of statuses is what
  relates telemetry, snapshots and callbacks: a table entry is the log of its controller
  folded up (`Snapshot`, over `Known` and `Handling`), stamps ascend (`InTime`), and what a
  subscriber has seen is a stretch of the log (`Delivered`). `RecordIsGiven` alone is
  not inductive, since the frame is on the bus before the record is written; `ConfInv`
  says that an envelope on its way into the record is already gone by.
- `CanNodeTypeCorrect`, `SnapshotsStay`, `CalledOnceEach`, `ReportsAreDecoded`,
  `AliveIsRecent`, `RecordsAreGiven`: its consequences.

`PacketCodecProofs` (any `ByteCount` above 3, any payloads, any buffer):

- `FirstPacket`: `FirstPacketFound` holds of every buffer, not only of those that come up.
  `RecoveryRight` goes from the end of the buffer to its front: what
  `Recovery[i]` returns is the first whole packet from `i` on, with everything up to its end
  consumed, or nothing because there is none, if it is so at the next start byte. `PayloadsAtIs` says that the
  declarative `PayloadsAt` and the steps of the parser agree on what a whole packet is.
- `StreamIsPackets`: the inductive invariant. Without noise, `buffer \o wire` is the packets
  of the payloads not received yet, back to back. `HeadUnpacked` (the packet that
  the buffer begins with is what `unframe` returns, whatever start bytes are in it) and
  `FrameIs` carry the step of `Unframe`. `CleanStream` follows.
- `CodecTypeCorrect`.

`ConfigSessionProofs` (any even `Base`, any configurations, edits, commands and reports, any
number of requests and of edits between them):

- `UntouchedIsKept` and `SetIsWritten`, type by type: what `deserialise` makes of any bytes
  `serialise` does not refuse, and writes back as bytes of the same meaning; and a value that the
  user has set is written to the step, or refused. The float format is taken apart and put
  together in `BitsOfFloat` and `FloatWrittenBack`.
- `SerialiseIs`: each parameter stands where `deserialise` looks for it. What `Before` and
  `Size` say of the layout is its running sum of widths (`EndOfIs`), and a sequence put together of
  parts has each of them between two running sums (`PartsFlatten`, `Joined`). So nothing in
  the proof goes through the 376 parameters one by one; only the two tables of
  `ConfigGenerator` being sequences of types does.
- `MessagesUnderstood` is the invariant `MessageUnderstood`. `Class` is a table of numbered
  classes (`ClassOfId`); of each class the proof needs that its formats are among eight and
  that a string, if there is one, stands alone (`FieldLists`). `PackedIsHeard` is the
  codec of one field, a chunk shorter than its field included, `UnpackedAs` places the fields one
  behind the other, `SentIsHeard` and `RefusedRightly` are the two outcomes of `pack`,
  `ReportIsUnderstood` is `unpack`. It says nothing of whether text and configurations over a
  `can_id` are packed; they are not, see `config_forwarded`.
- `SessionInvariant`: `Spec => []SessionInv`. `ReadIsReal` and `WriteBackKeeps` compare one
  step with what was on the line several calls before, and are not inductive.
  `SessionInv` says where everything comes from: each request under way is one that the user
  can make of configurations which the controller has had (`Asked`); the line and the
  call hold nothing but its replies (`Answered`); bytes that a call returned begin with
  such a configuration (`Returned`, from `DecodedBytes`: whatever replies are joined, the first is a
  read configuration, or `decode` gives no bytes); and loaded parameters are one of
  them read, edits aside (`Held`). `Settled` is the stronger fact for a call that began
  with nothing under way: its request stands between old replies and new ones, so that what it
  collects is what the controller has now. One lemma per action; `RequestHandled` is the
  controller's side.
- `SessionTypes`, `ReadsAreReal` and `WriteBacksKeep` (action properties): its consequences.
  That a configuration is not read as one of the other kind rests on the signatures, which
  differ, and on `Genuine`.

`Crc` and `Recovery` are recursive functions; that they satisfy their equations is
proved first (`Stepwise`, `Backwards`). The provers cannot instantiate an induction
theorem whose parameter is an operator, so inductions over data take the least
counterexample in a set of naturals instead (`Least`, from the well-foundedness of
`<` on Nat). Choices whose guards can hold together are IF chains in the modules: the
value of a CASE with overlapping guards is left open, and nothing can be proved of it.

Assumptions: only the named ASSUMEs on constants, which TLC evaluates in every run:
`None`, `Open` and the like are not values of the data they stand beside (no request,
snapshot or record is `None`), sizes are naturals, commands are what the methods of
`VescCanNode` can ask for, and `MaxEvents + 3 <= Highest(2)`, so that the values which the
modelled controllers report fit in their two-byte fields. For `ConfigSession`: the controller
begins with one configuration of each kind and of its length, which does not have the signature
of the other kind; an edit is of a type's values, in range or not, but a float's exponent is one
that its bits can hold (see *Floats* in section 6); a command has a value for each field, in
range or not, and a firmware chunk 1 to `ChunkBytes` bytes; a report has numbers that fit; and `Base^4` numbers are what sign,
exponent and fraction make up.

The inductive invariants (`TunnelInv`, `PingInv`, `FramesInv`, `UploadInv`, `ClientInv`,
`CanNodeInv`, `StreamOfPackets`, `SessionInv`) are proved, not listed in the runs.

Model-checked only:

- All liveness (`ContractSpec`'s fairness part, `LockComesFree`, `StopReturns`,
  `EveryTargetFed`, `UpdateEnds`): the prover does no reasoning about fairness and ENABLED.
- The violation runs: a counterexample needs no proof.

Every invariant of the passing runs, every action property, and the safety part of both
refinements has a theorem.

## 5. Plan

1. Probing (`expect_anything=False`) and string reads byte by byte in `CommClient`.
2. A run with `MaxEdits` 2: several edits between a read and its write-back are proved, and
   too many for TLC with three requests.
3. A configuration read over the tunnel and one over the serial line in one session.

## 6. Known limits of the code, as the models show them

Held by a violation run: `tunnel_discard`, `firmware_retry`, `config_forwarded` (see
`findings` in `PROJECT.json`). Also in the models, where no property asks for more:

- **Late replies.** A CAN reply later than its deadline answers the next request to
  that controller; on the serial side a response still under way at the drain does.
  Each later answer can stay one request behind. `RequestReply` is written so
  that it allows this and no more.
- **Two controllers.** Discarding a foreign reply can also clear the event of the
  awaited one, which is then found only when the deadline has passed the wait.
- **Lock wait.** `max_wait` does not count the wait for `read_lock`; two threads
  wait longer than it. `BoundedWait` is checked for one thread.
- **Cut packets.** A drain in the middle of a response leaves a terminator that the
  codec takes for a start byte of a long packet; a valid response behind it may not
  be found before the deadline.
- **Partial packets behind corrupt bytes.** `_recovery_recurse` (`codec.py` 180) returns
  what a nested candidate consumed without the offset of that candidate, so bytes
  of a packet still arriving may be dropped with the corrupt ones in front of it.
- **Stop is for good.** Nothing clears `_stop_heartbeat`; a heartbeat started for
  the first time after a stop ends at once, a second start raises.
- **Concurrent pings of one node.** The second pops the first one's PONG.
- **Late PONGs.** A PONG does not name its PING: one of an earlier PING that comes after the
  pop is taken for the answer.
- **A subscriber that raises**, for a STATUS, ends the RX thread; all later calls time out.
- **progress_callback=None.** On a failed erase or write the callback is called anyway, so
  `update_firmware` raises where it would return False.
- **Quiet time.** A foreign frame or a part of a response, and then `quiet_time` without
  bytes, ends a fixed-size read too (`VESC.py` 221), though 180-183 speak of string
  responses; an erase that answers late (`VESC.py` 371-372) is cut short by it.
- **Exit after a peer close.** `__exit__` closes an open transport only (`VESC.py` 85), and
  noticing a close clears `is_open` (`transport.py` 59): the descriptor stays open.
- **Strings over `can_id`.** `pack` raises UnboundLocalError for `TerminalCmd`,
  `SetMotorConfig` and `SetAppConfig`; `VESC.py` 39 and `README.MD` 52-54 promise `can_id` for
  every command. Held by `config_forwarded`.
- **The last firmware chunk.** `get_next_chunk` returns before the lines that pad it with
  0xFF (`firmware.py` 110, 112-114); `struct` fills it with 0x00.
- **Late configurations.** A reply to an earlier read can be taken for the one to this
  read; editing and writing it back undoes what was written since. A late
  acknowledgement in front of a configuration makes `decode` raise.
- **Bool bytes.** `pwm_mode`, `comm_mode`, `motor_type` and `sensor_mode` are Bools in the
  generated code; a byte of 2 or more comes back as 1 (`confgenerator.py` 416-419).
- **Floats.** Below 1.5e-38, and -0, become 0; 2^129 and more wrap the exponent.
- **Whole fields.** `SetRPM` has no scalar: a fraction raises struct.error.

Seen while reading, not in the models:

- `process` puts six bytes in front of the image and leaves `size` as it was (`firmware.py`
  68-69, 92-93), so the erase (`VESC.py` 237) asks for six bytes less than is written.
- `get_duty_cycle`, `get_motor_current` and `get_incoming_current` read fields that
  `GetValues` does not have (`VESC.py` 345, 357, 363).
- `motor_example.py` 119 and 124 call `confgenerator_param_from_dict`, which does not exist.
- `read` raises for an unknown command id or a short payload in a sound frame
  (`VESC.py` 217), and for a frame of length zero (208).
- A spurious event, set with no reply there, makes the tunnel's wait spin until the
  deadline (`bus.py` 180).
- The heartbeat thread is no daemon (`VESC.py` 60): without `with`, an exception in the main
  thread leaves the process running.
- `VescCanNode` accepts id 254, the host's own.
- With two user threads `applied_conf` can record envelopes in another order than the bus.

## 7. Not modelled

- Loggers, which `python-can` runs; `known_nodes`; a node's `get_fw_version` and
  `get_values`, which are `comm_request` (in `CommTunnel`) and an external parser.
- `set_defaults_*` (raise NotImplementedError) and the classes for older firmware.
- NaN, infinity, text that is not ASCII; the checks of the message metaclass at import.
- `expect_anything=False`: what a probe reads before it gives up.
- `VESC._message_monitor`: its thread is created (`VESC.py` 66) and never started (71).
- Opening ports and URLs, logging, printing, the examples and bench scripts: I/O.
- `errors='strict'` of the codec: no caller uses it.
- Real time: only the order of events and the number of polls.
- The device: controllers, bootloader, flash and links are modelled from how the code
  uses them and are marked external.
