# Formal models of main_service

`main_service` runs on a Linux board inside a smart seat. It connects three
things: a cloud voice assistant (through a vendor SDK), a local voice module
(JSON lines over TCP) and the seat's MCU (a serial line that speaks the Tuya
frame protocol). The repository also holds the SDK the MCU's firmware is built
from and an example of the voice conversation. This directory holds TLA+ models of its parts, the TLC
configurations that check them, and TLAPS proofs about the parts that matter
most. File and line numbers below are relative to `src/`.

## The system

| Part | Code | State | Operations |
|---|---|---|---|
| Message queue | `main_service/src/queue.c` | ring buffer, head, tail, count, mutex, two condition variables | init, push (blocks when full), pop (poll, wait, timed wait), destroy |
| Event loop and start-up | `main_service/main.c` | heartbeat and test counters | pop one message, dispatch it, free it; on timeout count towards heartbeat and text request; init order |
| UART link | `main_service/src/tuya_protocol.c:298-416` | `g_uart_fd`, receive thread | open, configure, read, close, reconnect; `tuya_send_cmd` from any thread |
| Frame codec | `main_service/src/tuya_protocol.c:124-296` | parser state, length, checksum | pack a frame, pack a data point, parse one byte, dispatch a frame |
| OTA handler | `main_service/src/ota_handler.c` | state, firmware, offset, packet size | start, send next packet, handle MCU reply |
| IPC server | `main_service/src/ipc_server.c` | listening socket, running flag, one client | start, accept, read line, process request, reply, stop |
| Cloud client | `main_service/src/cloud_llm.c` | SDK client handle, method table | init, message and status callbacks, tool calls, send |
| Log | `main_service/src/log.c` | file handle, sizes, file names | init, write, rotate, delete the oldest, close |
| Voice example | `example/device_voice_example.c` | atomic flags, output file, the `aplay` and `arecord` children and their pipes, a mutex | authorise with retries, send a file, a tone or the microphone, wait for the answer, play it as it comes or from the file, shut down |
| MCU firmware SDK | `doc/mcu_sdk` | receive ring, frame buffer, flags of the services, upgrade flags | the peer at the other end of the UART: receive interrupt, frame search, data points, calls of the module's services and their answers, upgrade |

How they interact:

* Three kinds of threads push into one queue: the UART thread (a status query
  after every connect), the IPC thread (commands of the local voice module) and
  the SDK's callback thread (tool calls of the assistant, connection status).
  The main thread alone pops and writes to the UART.
* The UART thread also handles what the MCU sends; replies of a firmware
  upgrade go straight to the OTA handler, which writes the next packet from
  that thread.
* `g_uart_fd`, the OTA state and the log handle are shared between threads; only
  the queue and the log have a lock.

* The voice example and the MCU's firmware run by themselves: the first is another
  client of the voice platform's SDK, the second answers the frames of the service and
  talks to the cellular module between them.

What is hard here: who gets the queue's lock, timed waits that race a push,
producers that block while the consumer has not started or waits for them, a
file descriptor that is closed between a check and a write, upgrade replies
that are lost or repeated or arrive before the state they are meant for,
timers that count only idle seconds, an interrupt that changes a ring between
two reads of its pointers, tables that two programs must agree on, and children
that die while two threads hold their pids and pipes.

## Modules

Definitions carry the names of the C functions and variables where TLA+ allows
it. An action is the part of a function that no other thread can see into; a
function that blocks, sends or writes a shared variable half-way is several
actions, and a `pc`-like variable (`rx`, `main`, `caller`, `srv`) says where its
thread stands.

### BoundedFifo and MsgQueue: `main_service/src/queue.c`

`BoundedFifo` is the promise of `inc/queue.h`: a sequence `items` of at most
`Capacity` messages between producers' and consumers' hands (`Offer`, `Put`,
`Get`, `Finish`). `ServiceLoop` and `IpcServer` extend it, so they are built on
the queue's promise and not on its code.

`MsgQueue` is the code: `buffer`, `head`, `tail`, `count` as in
`message_queue_t`. The mutex is not a variable: what a thread does between
taking it and releasing it, or sleeping on a condition variable, is one action.
`pc` says whether a thread is outside, wants the lock (`lock`), sleeps (`wait`),
sleeps no longer because its time is up (`expired`), or works on a message.

| Action | `queue.c` |
|---|---|
| `PushWait`, `PushInsert` | one turn of the `while` in `msg_queue_push`, and what follows it |
| `PopCall`, `PopPollEmpty`, `PopWait`, `PopExpired`, `PopTake` | `msg_queue_pop` with timeout 0, -1 and > 0 |
| `Expire`, `SpuriousWakeup` | a deadline, and a wakeup without a signal, which POSIX allows |
| `Alloc`, `Dispatch` | the `malloc` of a sender and the `free` in `run_event_loop` |

### OtaUpgrade: `main_service/src/ota_handler.c`

Both threads of the handler and the MCU's side of the exchange
(`doc/mcu_sdk/mcu_sdk/system.c:480-550`). `ota_start` is four actions
(`OtaStartLoad`, `OtaStartSend`, `OtaStartSetState`, `OtaStartResetOffset`),
because it sends UPGRADE_START before it writes `g_state` and the answer is
handled on another thread. `RxStartReply`, `RxTransReply`, `RxErrorReply` and
`RxIgnore` are the branches of `ota_handle_mcu_msg`; `RxFinish`, `RxSendPacket`
and `RxNoMemory` those of `send_next_packet`. Offsets and lengths are real byte
counts, a packet carries the name of the file its bytes came from, and `mcu`
remembers how much was written without a gap and from which files. The limit of
`tuya_send_cmd`, 256 bytes, is the constant `MaxPayload` of `SendTrans`.

### TuyaFrame and TuyaParser: `main_service/src/tuya_protocol.c:124-296`

`TuyaFrame` holds the functions: `CheckSum`, `FrameBytes` (`tuya_pack_frame`)
and `Process`, the eight states of `tuya_parser_process` on real bytes.
`TuyaParser` puts the receive loop behind a line that loses bytes, adds bytes
and is cut off in the middle of a frame. `out` is what the last byte made
`tuya_dispatch_mcu_frame` do; `seen` holds the bytes since the parser was last
in `HEAD_1`.

### UartLink: `main_service/src/tuya_protocol.c:298-416`

`uart_rx_thread` (`RxOpen`, `RxConfigure`, `RxConfigureFails`, `RxQuery`,
`RxRead`, `RxSend`, `RxLost`, `RxClear`), the main thread inside `tuya_send_cmd`
(`MainTake`, `MainHeartbeat`, `MainCheckFd`, `MainWrite`), and the kernel's descriptor
table `fds`, in which the IPC server takes and returns descriptors too. `open` and
`accept` return the lowest free number, which is how a stale copy of
`g_uart_fd` comes to name somebody else's socket. `ota` is `is_ota_in_progress`,
which changes at any time (`OtaChanges`) and makes `MainTake` throw a command away
(`main.c:73`); `asked` remembers what became of DP_QUERY on the present connection.

### ServiceLoop: `main_service/main.c` and `cloud_llm.c`

The threads around the queue. The main thread creates the client, waits for the
cloud, registers descriptors (`Create`, `EnsureSucceeds`, `EnsureFails`,
`Register`) and only then reads the queue (`Take`, `Dispatch`, `Timeout`). The
SDK's thread calls `on_status` and `on_message` one at a time; a callback may
block in `msg_queue_push`. `silence` counts the idle seconds the MCU has been
without a frame, `told` is the last WIFI_STATE that left the queue, and `missed` says
that `on_status` had no memory for the last change.

### IotCommand and IpcServer: `ipc_server.c` and `cloud_llm.c:134-204`

`IotCommand` turns a named control into a data point's bytes as
`execute_single_iot_call` and `tuya_pack_dp_*` do (`Payload`, `BigEndian`), and
back as the MCU reads it (`McuUnpacks`, `FromBytes`; `byte_to_int` in
`mcu_api.c:186`). `IpcServer` is the thread of `ipc_server.c`: `Accept`,
`Receive` (one byte of `read_line`), `ReceiveLast`, `ReceiveEnd`,
`ReceiveFails`, `Push`, `Reply`, `Disconnect`. The client writes lines of any
kind, reads its replies when it likes and closes at any byte. `Dispatch` is the main
thread, which sends a command or, in an upgrade (`main.c:73`) or without a port
(`tuya_protocol.c:410`), throws it away; either may be so at any time. `wanted` holds
the intents that were accepted and not dealt with yet, `mcu` the last one with what was
sent for it.

### LogFiles: `main_service/src/log.c`

`log_write` in the steps in which threads can disturb each other: `GetTime`,
`LocalTime` (the structure of `localtime` is shared and filled before the lock
is taken), `WriteLine`, and, when the file is full, `Open` (`RotateLogs`, then
`OpenNewLogFile`). `RotateLogs` may fail to remove any of the files it should, as
`remove` or `opendir` may; `tidy` says that the last one did not. Files outlive the
process (`Stop`, `LogInit`) and the clock may be set (`SetClock`).

### McuSerial, McuDataPoints, McuServices, McuFirmware: `doc/mcu_sdk/mcu_sdk`

The firmware SDK in the four parts it has. `McuSerial` is the input
(`mcu_api.c:815-919`, `system.c:660-685`): `ReceiveInput` is the receive interrupt,
which may come between any two steps of `cellular_uart_service`: `Fill` (test for
data), `TakeWrap` and `TakeByte` (the two halves of `take_byte_rxbuff`),
`TakeNothing` (the uninitialised byte it returns when the ring has come to look
empty), the `Skip...` steps of the frame search, `Dispatch` and `Compact`. Pointers
into the ring are slot numbers, one past the end included; `arrived` is a ghost
that remembers what came.

`McuDataPoints` holds the two tables of data points side by side, the service's
(`g_iot_dp_map`) and the MCU's (`download_cmd`), the MCU's handlers and its
reports. `McuServices` holds the calls the SDK offers the application, each with the
frame it sends, and the functions of the application that get the answers, each with the
branch it takes; every service is switched on. The names in a weather notice are taken
to have a length that `system.c:348` can copy, which it does not check. `McuFirmware` puts them together:
`DataHandle` is `data_handle`, `ApiCall` and `ApiReport` are what the application
does between two runs of the service, `Restart` loses the MCU's memory and flags in the
middle of a frame or not, and the module at the other end is external
(`ModuleSends`, `ModuleAnswers`, `Disturb`). The total length of a frame wraps at 16 bits as
the `u16` of the code does (`Total`), so that a total may be 0. Three ghosts follow the
line: `expected` the frames that were sent, `noise` the bytes in front of the next one,
and `plain` that all noise has been `Harmless`: whatever the search may take for a head in
it belongs to a frame that fits the buffer, ends with the first three bytes of the
real one and has a wrong sum. The upgrade's commands are in `OtaUpgrade`.

### VoiceExample: `example/device_voice_example.c`

One conversation from `main`'s first line to its return. `pc` says where the main
thread is: authorisation (`CheckActivation`, `EnsureAuthorizedConnection` with its
retries), sending (`SendFrame`, or `WaitForAudioStreamStarted`,
`StartArecordStream`, `ReadArecordStream` for the microphone), the answer
(`WaitForConversationResult`, `FinishAplayStream`, `Conclude`,
`PlayPcmWithAplay`) and the way out that every error takes (`AbortAplayStream`,
`KillAplay`, `CloseAtEnd`, `Disconnect`). `cb` says where the SDK's callback thread
is in an audio callback: `WriteFile`, `StartAplayStreamIfNeeded`, `ProbeAplay`
(50 ms later, outside the mutex), `MarkAplayDead`, `EnterWrite`,
`WriteAplayStream`. `flags` is the set of atomic flags that are true. `players`
holds each `aplay` that was started with its state and the number of chunks in its
pipe; a living one may play a chunk, end or fail at any moment.

## What makes each part correct, and the runs

A run is a module `MC_*` with one of the `.cfg` files. Runs marked (V) are
expected to end in a counterexample: they show where the code and a statement
about it disagree.

| Run | Configuration | Question |
|---|---|---|
| `queue` | `MsgQueue.cfg` | Is the ring with its two condition variables a bounded FIFO, whoever gets the lock, and is no one forgotten? |
| `ota` | `OtaUpgrade.cfg` | Does the exchange stay in step when frames get lost, the MCU restarts or refuses, memory runs out and the caller of `ota_start` is late, and does an undisturbed upgrade that the sender's limit lets through end? |
| `ota_stall` (V) | `OtaUpgrade_stall.cfg` | Does a full packet leave, as the code is? |
| `parser` | `TuyaParser.cfg` | Can noise overrun the buffer, forge a frame, or put the parser out of step for good? |
| `uart` | `UartLink.cfg` | Does the receive thread keep track of its descriptor and always come back? |
| `uart_fd` (V) | `UartLink_fd.cfg` | Does the sender's check of `fd` do what its comment says? |
| `service` | `ServiceLoop.cfg` | Do the producers get through, the MCU get its heartbeat, and the newest cloud state arrive last? |
| `ipc` | `IpcServer.cfg` | Has each line its own answer and each accepted intent its own command, and has what is sent the meaning the client gave it? |
| `log` | `LogFiles.cfg` | Does rotation keep the right files, with threads, restarts, a clock that jumps and files that cannot be removed? |
| `voice` | `VoiceExample.cfg` | Whatever fails, is the stream closed once, every child reaped and the answer heard, and does the program end? |
| `mcu` | `McuFirmware.cfg` | Are bytes, frames, data points and answers handled as they were sent, wherever the interrupt and a restart fall? |
| `mcu_ring` (V) | `McuFirmware_ring.cfg` | Is a byte for which the ring says it has room kept? |

**queue.** `OneOwner` says that each payload has exactly one owner from `malloc` to
`free`, although pop leaves the pointer in its slot; `NoLostNotFull` and
`NoLostNotEmpty` that one `pthread_cond_signal` per message is enough;
`ImplementsFifo` is the refinement to `BoundedFifo`, and `QueuedIsFreed` the
progress that holds; a particular blocked producer may be overtaken for ever. That
the indices and the count agree (`RingInv`) is proved and not run. Two producers, two
consumers and two slots are enough for barging, for wrap-around with both orders of
the indices, and for a waiter whose deadline passes just when it is signalled.

**ota, ota_stall.** Replies name no packet, so the protocol rests on `StopAndWait`: at
most one request, reply or send exists. `PacketFromImage` says that nobody replaces the
firmware under a packet, `NoGap` that no chunk is skipped, `DoneMeansDelivered` that
OTA_DONE is true. They hold with every fault and with a caller of `ota_start` that is held
up between its steps.

With the code's limit of 256 bytes no upgrade has a second packet: the first one of every
file above 252 bytes is dropped without an error (`tuya_protocol.c:379`), and the handler
waits in OTA_SENDING, which is what `ota_stall` shows. So `ota` has two senders
(`sender`, chosen at the start). `code` has the code's limit, and for it `OtaTerminates`
says that an upgrade whose file fits (at most 252 bytes) and that nothing has disturbed
comes to an end. The ghost `smooth` remembers that: no frame lost, no restart of the MCU,
no missing memory and no answer that overtook `ota_start`; the handler has no timeout, so
it promises nothing else. `wide` (the instance `Wide` of `MC_OtaUpgrade`) carries 1028
bytes, the largest packet with its offset, so that there are transfers of several packets
at all. It is there for the four safety properties, which are proved for every limit;
nothing is claimed about the end of its upgrades.

Files of 0, 252, 253, 600, 1300 and 3000000 bytes (0, 252 and 600 in `ota_stall`) with
packets of 256, 512 and 1024 give empty, several, uneven and refused transfers, the
largest file that fits one frame and the smallest that does not.

**parser.** The payloads look like a header, a length and a header inside a header,
`data_buf` has four bytes, and two faults of any kind hit anywhere, in frame after
frame. `OnlyIntactFrames` compares what was dispatched with the bytes that stood on
the line. `Resynchronises` is limited to frames that have 0x55 only as their first
byte: the parser does not look again at bytes it has consumed (`55 55 AA` loses a
frame), and a payload with a header in it that is repeated for ever can keep it out
of step.

**uart, uart_fd.** `PortTracked` and `ClientsKeepTheirs` speak about the moment
between `close` and `g_uart_fd = -1`, in which the number may already belong to an IPC
client. `Reconnects` says that the blocking push of DP_QUERY before the first read does
not stop the link, `ConnectionAsks` that the MCU gets DP_QUERY on every connection that
stays, unless the main thread takes it during an upgrade: then it is gone, and nobody
repeats it before the next connect. Three descriptors let port and clients
swap numbers; a queue of two is filled by the other producers. `uart_fd` shows that
the receive thread can close the port between the check at line 410 and the write at
line 412, so that a frame goes to a client.

**service.** `CallersReturn`: producers that wait for room while the main thread is still
connecting get through, whatever the cloud does. `LatestStatus`: the newest connection
state is the last WIFI_STATE on its way, unless it was dropped or `on_status` had no
memory for it. `StatusConverges`: if nothing is dropped from some time on, the MCU ends
with the right state. `NeverSilent`: commands between idle seconds do not starve the
heartbeat. A queue of one is soon full, a heartbeat of two ticks and up to two tool calls
per message wrap the counters and interleave all three producers, and three states of the
connection can be on their way, in a callback, in the queue and in the main thread's
hand. `NeverSilent` and `LatestStatus` are proved for every length of the queue.

**ipc.** A line buffer of four bytes with lines of 0 to 4 bytes gives lines that fit,
fill the buffer, are cut in two, and are empty, which ends the connection; two clients
follow each other, so that a rest could be inherited. `AnswersMatch` and
`LinesAnswered` are about lines that fit. `CommandsArrive` says that there is one command
for each accepted intent, in their order, and that what the MCU gets for one means what
that client asked for, also when the commands before it were thrown away: the value -258
goes through `BigEndian` to the MCU's `byte_to_int`. It does not say that the MCU gets
it. "accepted" means queued. A socket buffer of one reply lets the
server wait in `write`.

**log.** `NewestKept` holds as long as no file is named after a time before its
predecessor's (`inStep`): the newest lines are there without a gap, in all the files after
a rotation that removed what it should (`tidy`), and in the last `MaxFiles - 1` whatever
could not be removed. When the clock is set back, which `main_service/README.md:109` tells
the reader to do by hand, or another thread's `localtime` result is used for a name,
`rotate_logs` takes the newest file for the oldest: that is why the property is
conditional. `RotationSpares` holds in any case, and so does the number of files (in
`TypeOK`) after a rotation that removed what it should, however many files had been left
before. Two threads (symmetric), two files of two lines, four seconds, five lines and two
starts reach a second rotation with every order of the names.

**voice.** Four environments (`AllEnvironments`) stand for the ways to run the program:
a file heard through a stream, the microphone up to the endpoint, the tone with a cloud
that answers twice, the microphone for a fixed time with playback switched off. In each
of them any child, file operation or SDK call may fail at any step. `StreamClosed` says
that every way out of the sending phase closes the stream once and reaps `arecord`;
`AllHeard` that exit code 0 means that the answer was heard, from the stream or from the
file; `NoOrphans` that then no `aplay` is left, whichever thread noticed its death;
`FileOpenWhenWritten` says exactly when a callback can write to a closed file, and
`Finishes` that the mutex held across a blocking write keeps nobody for ever. Two
connection attempts, two frames from a file and one of the tone, two chunks of answer
and a pipe of one chunk let a retry succeed or fail, a frame fail after another, and the
pipe be full while a chunk waits.

**mcu, mcu_ring.** A ring of four bytes instead of 23 makes each frame wrap several times; the
buffer has the 31 bytes of the code. First comes noise or one
of few frames, perhaps with a restart while it is on its way; then one of few frames at
any time, or, when the first has left nothing behind, any notice of the module, any of
the service's 52 data points, any call of the application and one of two answers to it,
or a report. `NothingLost` and `InOrder` follow the bytes from the line to `data_handle`,
with the interrupt between any two steps of the main loop; `DpAnswered` sets the service's
table of data points against both tables of the MCU, its handlers and its reports;
`AnswersReach` compares the code in a request with the one in the dispatch of its
answer; `FramesHandled` says that harmless noise and cut frames hold the search up and do
not stop it. Of the nine noises of the run five are harmless, a head with a wrong version
and one with a wrong sum among them. Four are not, and what they do is left out of
`InOrder` and `FramesHandled` by `plain`: the head of a frame of 32 bytes, which fits the
limit of the search and not its buffer, so that nothing is received any more; 85 170 0 86 0 0,
which with the first byte of the next frame is an intact frame; and two whose total
wraps, to 5 (55 AA 00 00 FF FE is handled as a heartbeat) and to 0. A total of 0 makes the code
sum 65535 bytes from a buffer of 31 and compare them with the byte before the head; where
they match it handles the same place for ever (`mcu_api.c:900-908`). In the model either
may happen, and the second is a `Deliver` that leaves the search where it is. All but
`RoomMeansKept` end at the first byte for which the ring has no room, and the bytes that
`take_byte_rxbuff` leaves uninitialised are zero. `mcu_ring` shows the one position of the
two pointers in which the test for a full ring fails and an additional byte empties it.

The bounds are named in the configurations (`MaxFaults`, `MaxCalls`, `MaxTexts`,
`MaxClients`, `LastSecond`, `MaxLines`, `MaxStarts`, `Retries`, `Chunks`, `Pipe`), those of
`mcu` in `MC_McuFirmware`. Deadlock is checked except where the system may stop: an upgrade
that is over, clients that have all left (`ipc`), the end of the log's bounded run, and a
voice conversation that has ended.

## Fairness

* A thread that runs keeps running (`WF` of the steps of the main thread, the receive
  thread, the server thread, the two threads of the voice example and each thread inside
  the queue's lock). No step of the environment is fair: commands, status changes, faults,
  unplugging, upgrades and clients happen or do not.
* A blocked push is strongly fair in `ServiceLoop` and `UartLink`: at most three producers
  wait for the same condition variable, and each of them gets its turn if there is room
  again and again. `MsgQueue` does not assume it and promises nothing to a single producer.
* `agentEnsureAuthorizedConnection` returns: `cloud_llm.c:355` says that it blocks until it
  succeeds or times out.
* The MCU answers an upgrade frame that reaches it (`ota`), and goes on sending (`parser`).
* `ReadingSpec` adds that the IPC client reads its replies, as one that looks for errors
  must; without it the server may wait in `write` for ever.
* In `VoiceExample` the clock runs, `arecord` delivers (a `read` returns) and an `aplay` that
  lives reads its pipe. Without the last one `Finishes` fails, since the write to the pipe
  has no time limit.
* No run relies on an upgrade to end: `OtaChanges` is not fair, and one that is stuck throws
  commands away for ever.
* In `mcu` the interrupt comes for each byte on the line, and the application calls
  `cellular_uart_service` in its `while(1)`, as the SDK's instructions ask.

## Proofs

TLAPS proves the following for every value of the constants that the `ASSUME` at the top of
its module allows: `QueueAssumption` (a positive capacity, disjoint sets of threads, finitely
many producers, a consumer), `OtaAssumption` (files with natural sizes, the three packet
sizes of the protocol), `FrameAssumption`, `ParserAssumption`, `UartAssumption` (finitely many
positive descriptors), `ServiceAssumption`, `IotAssumption` (data points are bytes, each
belongs to one method), `IpcAssumption` and `RequestAssumption` (a line buffer of at least two
bytes; numbers of 32 bits, to which cJSON cuts them), `LineAssumption` (the text of a line
holds no newline, which is what makes it a line), `LogAssumption`, `VoiceAssumption` and
`SerialAssumption` (a ring of at least two bytes). TLC evaluates each of them in the module's
run. `ReceiverInv`, `LogInv` and `ReplyInv`, the
inductive invariants with the most parts, were checked by TLC on those instances before they
were proved.

* **`MsgQueue_proofs`**: `TypeCorrect`, `RingCorrect`, `OneOwnerHolds`, `NoSleepOnMessages`,
  `NoProducerForgotten`, and `Refinement`: every step of the ring is a step of `BoundedFifo`
  or a stutter. The work is in modular arithmetic on slots (the slot after the last is
  `tail`, different offsets below the capacity are different slots) and in counting the
  producers that are awake.
* **`OtaUpgrade_proofs`**: `OtaTypeCorrect`, `OneAtATime`, `PacketsComeFromImage`,
  `PacketsLeaveNoGap`, `DoneIsDelivered`. `StopAndWait` is not inductive. `TurnInv` adds that
  outside an upgrade nothing is under way, but for the gap between the send in `ota_start`
  and the assignment after it, and `ImageInv` that the buffer is loaded as long as anything
  is under way. `DeliveryInv` adds what the MCU has written: the offset, plus the chunk that
  an acknowledgement will count, never exceeds it. A late caller sets the offset back, which
  repeats a packet and cannot skip one. So these hold with the race in `ota_start`, with lost
  frames and with restarts of the MCU.
* **`SerialReaders_proofs`**, the two programs that read frames from the serial line.
  The service's: `ParserNeverOverruns`, `ParserTypeCorrect` (every sequence of bytes),
  `ReceiverNeverOverruns`, `ReceiverTypeCorrect`, `DispatchesIntact`, `CleanLineDispatches`
  (the receive loop over the faulty line, for every set of frames). `ParserInv` bounds the
  index: once a length is accepted it is below the buffer's size, and `data_idx` stays below
  the length. `Stands` says, state by state, that the parser's fields spell the bytes that
  were consumed since `HEAD_1`, and that the running checksum is their sum: with the byte
  that completes a frame they are the frame. `CleanLine` relates those bytes to the ones still
  to come, so that what is dispatched is what was sent. The sums need induction over the
  length of a sequence; `NaturalsFrom` derives it, for a set of numbers instead of an
  operator, from the fact that `<` is well-founded.
  The firmware's: `SerialLosesNothing` for the serial input with any program around it,
  `FirmwareLosesNothing` and `CleanLineInOrder` for the firmware as a whole (`FirmwareSpec`:
  any calls and reports of the application, any frames, any noise, restarts). `SerialInv` adds
  where the two pointers may stand relative to each other at each step, which is what makes
  the unsynchronised reads of the main loop harmless as long as the ring does not overrun.
  `OnLine` says where each frame that is expected stands among the bytes the search has not
  passed, in the buffer, the ring and on the line (`FramesAt`), and that the first byte of a
  head, 0x55, occurs only inside them. So the search never steps into a frame, whatever its
  data, and where it sees a head, `FrameFound`, it is that of the oldest frame, with its
  length, which does not wrap, and its sum. The hypothesis of `CleanLineInOrder` is
  `PlainNoise`: noise, and the piece of a frame that is on the line when the MCU starts
  again, hold no 0x55. `NoHeadHarmless` proves that such noise is harmless and `StaysPlain`
  that the condition `plain` in `InOrder` then always holds, so that it leaves nothing out. For
  other harmless noise `InOrder` is checked and not proved; for noise that is not harmless it
  is false, since such noise may be a frame.
* **`UartLink_proofs`**: `PortIsTracked` and `ClientsKeepDescriptors`. `PortInd` adds in which
  states the receive thread owns a descriptor and that after its `close` no descriptor refers
  to the port.
* **`ServiceLoop_proofs`**: `HeartbeatHolds` (the silence never exceeds the idle counter, which
  commands do not reset) and `NewestStateLast`. For the second, `StatusInd` adds that only
  the SDK's thread ever holds a WIFI_STATE before it is queued; positions in the queue then
  carry the order through every push and pop.
* **`IpcServer_proofs`**: `CommandsInOrder`, `IpcTypeCorrect` and `EachLineAnswered`.
  `OrderInv` lines up what the main thread holds, what is queued and what the server is about
  to push with the accepted intents that are not dealt with, one for one; each step of the
  queue moves a boundary in that line, and the main thread takes the first of both away,
  whether it sends it or throws it away. So what it sends has the meaning of the intent it
  was accepted for, however many were thrown away before. That it sends it is not claimed:
  it does not. `MeaningArrives` is arithmetic: the
  four bytes that `tuya_pack_dp_value` cuts from a 32-bit number give it back in
  `byte_to_int`, negative ones included. For `EachLineAnswered`, `ReplyInv` says that the
  line buffer followed by the stream is exactly what the client sent after the lines already
  taken (`RestsOf` names that rest for each line). From there it is a fact about sequences,
  `BeforeNewline`: a text without a newline that begins such a rest is no longer than the
  next line, so that the buffer cannot fill before the newline comes, and with the newline it
  is that line.
* **`LogFiles_proofs`**: `LogTypeCorrect`, `LogKeepsNewest`, `LogRotationSpares`. The number
  of files holds, after a rotation that removed what it should, in any state except between
  `RotateLogs` and `OpenNewLogFile`, where `RoomForFile` asks for one less; the lemmas on
  `OldestCount` say how many files the rotation removes. `NewestOpen` says that in a log whose
  names never went back, the file being written has the newest name, so that the oldest
  names hold the oldest lines. A rotation that fails may leave a gap behind one of the oldest
  names; `SparedLate` and `LateSpared` say that those behind which no gap may be are exactly
  the ones that no rotation touches.
* **`VoiceExample_proofs`**: `StreamIsClosed`, `FileStaysOpen`, `NoPlayerLeft`, `AnswerHeard`,
  from four invariants: `StreamInv` ties the calls made so far to the place of the main
  thread, `TalkInv` the flags, the link and the file to how far the cloud has spoken,
  `AplayInv` that a player nobody has reaped is the one of the stream or the one main waits
  for, whatever the callback has found out about it, and `CountInv` where each chunk of
  the answer is: heard, in the pipe, in the callback's hand or in the file.

Only model-checked: everything with fairness (`QueuedIsFreed`, `OtaTerminates`,
`Resynchronises`, `ConnectionAsks`, `Reconnects`, `StatusConverges`, `CallersReturn`,
`LinesAnswered`, `Finishes`, `FramesHandled`, and the fair part of `ImplementsFifo`, whose
safety part is `Refinement`), since the prover does not do liveness; `InOrder` with harmless noise
that holds a head, and with pieces of frames that hold one, where it depends on what these
bytes are, and which `mcu` checks for its own; `DpAnswered` and `AnswersReach`, which compare tables
of constants, so that the run looks at all there is.

## Disagreements with the documentation

Each of the three (V) runs is one; `PROJECT.json` quotes the line. Seen while reading, without
a run of their own:

* DP_QUERY is queued once after each connect (`tuya_protocol.c:323`), and the main thread throws
  it away while an upgrade is in progress (`main.c:73`); `doc/TODO.md:4` asks for it once the connection
  stands. An upgrade that is stuck, as `ota_stall` shows it, throws all of them away until the
  service is restarted. `ConnectionAsks` names the case.
* In the same way an intent is answered "accepted" and dropped afterwards, during an upgrade or
  with the port closed (`tuya_protocol.c:410`). `CommandsArrive` names the case.
* `ota_start` writes OTA_STARTING after its send (`ota_handler.c:60-61`). If the answer is
  handled in between, the state goes back from OTA_SENDING to OTA_STARTING; a first upgrade
  even drops the answer in OTA_IDLE. `OtaTerminates` excludes this.
* The MCU ends an upgrade with an empty packet (`system.c:535`), which `send_next_packet`
  never sends.
* `ota_handler.c:119` divides by `g_fw_len`, which is 0 after an empty file was opened, if a late
  answer arrives then.
* `main_service/README.md:43` has one writer on the serial port; upgrade packets are written by
  the receive thread.
* `main.c:93` says every 15 seconds for the heartbeat, and the code sends it after 10 idle ones.
* `tuya_protocol.c:20` asks for a restart when the MCU is silent for 90 seconds; nothing measures
  that.
* WIFI_STATE is queued once per change and dropped while the port is closed or an upgrade runs;
  nobody sends it again, although `doc/TODO.md` asks that the MCU learns of CONNECTED.
* A second `cloud_llm_init` after a failed connection reports success without connecting
  (`cloud_llm.c:315`).
* `doc/SDK调用文档.md:262` asks callbacks not to block, `on_status` and `on_message` push into a
  bounded queue that nobody reads during start-up; `:1429` and `:1653` want text only while
  connected and descriptors after each connection, the code sends test text at any time and
  descriptors once.
* `doc/JSON_OVER_TCP_protocol.md:18` says that success is not answered, and the server answers
  every request; a client that relies on the document never reads and stops the server in
  `write` in the end. `:78` shows a request without a value, which `execute_single_iot_call`
  refuses.
* `mcu_api.c:2058` sends a call for RRC with the code of the side gain; `mcu_api.c:890` accepts
  lengths seven bytes above what its buffer can hold, and the head of such a frame stops the
  input; the total it tests is a `u16` that wraps (`mcu_api.c:863`, `:888-889`).
* `system.c:305-317` indexes `download_cmd` with a number that is past its end for an unknown
  data point, and returns a variable that no branch has set; the functions of the application
  disagree on whether 0 or another value means success.
* An answer to an earlier request is taken for the acknowledgement of a reset
  (`system.c:445`), since answers carry no number.

## Not modelled

* The stubs (`audio_module.c`, `cloud_tuya.c`), the vendored code (`cJSON.c`, `md5.c`), the helpers
  without a caller (`utils.c`, `recordPcmWithArecord`), the closed SDK library and the scripts:
  they have no behaviour of their own to check.
* Clean-up code (`msg_queue_destroy`, `tuya_uart_cleanup`, `ipc_server_stop`, `log_close`), which
  is never reached: the event loop has no exit.
* Of the MCU's firmware: `all_data_update` and the heartbeat's timer, which are templates the
  user fills in, `DP_ACK`, the variant in which the module handles its key and lamp itself, and
  the bounds of the transmit buffer.
* Short writes on the serial port, the text of log lines and JSON, and log directories with more
  than 64 files.

## Plan

1. A composition of `UartLink` with `OtaUpgrade`: two writers on one port.
2. Proofs: `InOrder` for all harmless noise.
3. A second instance of `McuFirmware` with frames behind each other on a line that overruns.
