# A specification of blackpill-node

blackpill-node is the firmware of small sensor nodes (STM32F4, FreeRTOS, a W5500
Ethernet chip) that talk JSON over TCP to a server. This directory specifies its core
in TLA+, checks it with TLC on small instances and proves the central results with
TLAPS. Every definition is translated from the C sources under `src/`; `PROJECT.json`
gives the lines.

## The system

| part | code | keeps | operations | talks to |
|---|---|---|---|---|
| message dispatcher | `node.c` | two buffer pools, four queues, a queue set | `node_send_msg`, `node_receive_tcp_msg`, `node_task` | called by the board tasks and the TCP client; calls the board and the TCP client |
| message texts | `node.mapper.c` | nothing | serialise, deserialise | called by the dispatcher |
| node logic | `node_T01.c`, `node_B02.c` | mode, darkness, start times, measurements, reports to send | one function per input, `get_state`, `get_msg` | called by its extension board, under `node_mutex` |
| extension board | `board_T01.c`, `board_B02.c` | what is switched on, timers, one task | a loop driven by notification bits | interrupts, software timers, dispatcher, board |
| board | `board.c` | status LED, photoresistor cycle, remote control, firmware image being received | `board_task`, callbacks | extension board, storage, TCP client |
| TCP client | `tcp_client.c` | W5500 socket, one message to send, endpoint | `tcp_client_task`, `send_message`, `restart`, `stop` | socket interrupt, dispatcher, board |
| storage | `storage.c` | littlefs on a flash chip | files | board, boot loader |
| boot loader | `bootloader/main.c` | program memory, firmware file | erase, program, remove, jump | storage |
| flash memory driver | `devices/w25q32bv_flash.c` | nothing | program, erase, wait, sleep | storage, SPI bus |
| port expander driver | `devices/mcp23017_expander.c` | an image of the registers | set bits of a register | extension board, I2C bus |
| displays | `devices/ssd1306_display.c` | a buffer of pixels | initialise, draw, send the picture | extension board, I2C bus |
| sensors, peripherals | `devices/bme280_sensor.c`, `board.*.c` | registers | transfers | everyone |
| start-up | `main.c`, `board_factory.c` | nothing | choose the board by the controller's id, start everything | everyone |

Tasks have fixed priorities: board 4, TCP client 3, dispatcher 2, extension board 1;
the daemon that runs the software timers has the lowest, 0, so a timer stop or start
takes effect only when the extension board's task sleeps.

What is hard here, and what correctness means:

- **Dispatcher.** Buffers circulate through queues of pointers while callers of higher
  priority interrupt the task at any point. The queue set holds handles, not messages;
  the task empties the node queue on *any* handle, so handles become stale and the set
  can overflow. Correct means: no buffer lost, shared or released twice; no pointer
  released that was never received; whatever is posted is eventually handled, in order
  and unaltered, although handles get lost.
- **Extension board.** All events are bits of one notification word; simultaneous events
  merge and lose their order. Timers answer late, stops may come after the expiry they
  were meant to prevent, flags and power are toggled by the same bit. Correct means:
  nothing is left on for good, no change of the node escapes the outputs, every report
  is sent.
- **Node logic.** Times are unsigned 32-bit ticks in which 0 stands for "never", and the
  caller passes the time.
- **TCP client.** Interrupt flags are read and cleared in two steps, and the line gives
  an edge only; one buffer for outgoing messages; the endpoint changes while a connection
  is made. Correct means: no interrupt is missed, the board's endpoint is reached, no
  message goes out twice, a lost connection is made again.
- **Board.** The status LED and the lights of the extension must be dark while the ADC
  samples the daylight, in real time, while colours are asked for and samples fail; and
  the watchdog must be fed. Correct means: measured in the dark, measured again whatever
  failed, the last colour shown.
- **Firmware update and boot loader.** An image arrives in pieces over TCP, is stored in
  a file, and is programmed after a reset, with power failing anywhere. Correct means: what
  runs is what the file or the flash held, never a mixture; a complete image gets installed.
- **Drivers.** A driver remembers what the device should hold, transfers fail half-way,
  and a reset of the controller leaves the devices as they are. Correct means: no pin is
  driven against another, data land where they were meant to, a reported success is one,
  and a repeated call repairs what a failed one has lost.

`PROJECT.json` lists the hazards at their lines, with the properties that cover them.

## Modules

| module | models | notes |
|---|---|---|
| `NodeMessages` | messages and `Effect`, the routing decision of `node_task` | no state |
| `NodeRouter` | what the dispatcher promises: an inbox of TCP messages, an agenda of node messages, both first in first out, one effect per message | abstract |
| `NodeTask` | `node.c`: pools, queues, set, callers, task | `ImplementsRouter` is its refinement of `NodeRouter` |
| `Counting` | occurrences of a value in a queue | |
| `TimerCommands` | what the commands queued for the timer daemon make of a timer | used by `SoftTimers` |
| `QueueProofs` | lemmas about counts and about queued timer commands | TLAPS |
| `NodeTaskProofs` | theorems about `NodeTask` | TLAPS |
| `SoftTimers` | FreeRTOS software timers and their daemon | external; used by the three boards |
| `NodeT01`, `NodeB02` | `node_T01.c`, `node_B02.c`: operators on the node's record | no state of their own |
| `BoardT01`, `BoardB02` | `board_T01.c`, `board_B02.c`: task, timers, interrupts, callers, and the node | compose the node's module and `SoftTimers` |
| `BoardT01Proofs`, `BoardB02Proofs` | theorems about the two extension boards | TLAPS |
| `Board` | `board.c`: status LED, photoresistor cycle, watchdog | with `SoftTimers`, in units of 100 ms |
| `BoardProofs` | theorems about `Board`, with its periods | TLAPS |
| `TcpClient` | `tcp_client.c`: task, callers, and the chip and network as its environment | |
| `TcpClientProofs` | theorems about `TcpClient` | TLAPS |
| `FirmwareSlot` | what an update promises: one firmware that is next, one that runs | abstract |
| `Firmware` | update in `board.c`, file in `storage.c`, `bootloader/main.c` | `ImplementsSlot` is its refinement of `FirmwareSlot` |
| `FirmwareProofs` | theorems about `Firmware`, the refinement among them | TLAPS |
| `Expander` | `mcp23017_expander.c` and the pins the boards switch | |
| `Flash` | `w25q32bv_flash.c` under the block device of `storage.c`, and the chip | |
| `NodeMapper` | `node.mapper.c` with the buffers it fills | |
| `Display` | `ssd1306_display.c` and a drawing of the boards | |
| `Drivers` | `Expander`, `Flash`, `NodeMapper` and `Display`, one of them exercised by each behaviour | they share no state |
| `DriversProofs` | theorems about the four parts, and that `Drivers` keeps them | TLAPS |
| `MC...` | values for TLC | |

### NodeTask

A step is the code between two FreeRTOS calls that other tasks can observe; `pc` names
the next step of `node_task`. `call[c].buf` is the buffer that caller `c` holds between
taking it from the pool and posting it. `SendTimeout`, `ReceiveTimeout` and `TakeTimeout`
are the waits that end without a buffer. Queues are sequences of buffer numbers;
FreeRTOS calls are external definitions: `Sent` (a full queue takes nothing) and `Noted`
(a post to a member of the set adds its handle, unless the set is full, and *then the
handle is lost*). `node_task` starts by adding the queues to the set and filling the
pools, and callers may already run meanwhile: these are steps too. `Init` is the state
`node_malloc` leaves.

`Spec` lets all tasks interleave freely, which covers every priority. `PrioritySpec`
adds what priorities exclude; only the properties about TCP messages need it.

### NodeT01 and BoardT01

Each C function is an operator from the record `node` to a new one. Humidity samples are
reduced to what the outputs distinguish, messages to the fields that are read, reports
to their command. Start times are absolute, with 0 as "never", as in the code.

`BoardT01` has one action per part of the task's loop: `Wait` (takes the bits and the
time), `Pir`, `Lightning` (block, unblock, light, warning LED, display, in this order,
composed from one operator each), `ReadHumidity`, `ReadReedSwitch`, `GetState`,
`SendReport`, `UpdateOutputs`. Other tasks have higher priorities and so act between
these steps, each in one go: `ProcessNodeMsg`, `ProcessPhotoresistor`,
`DisableLightning`. Timers are those of `SoftTimers`: a command is queued with the time
it was given at, commands and expiries are handled only while the task is `Asleep`, and an
expiry becomes a notification. At most one block is under way: `board.c` asks for the next one minutes
after the last has ended. The tick counter does not wrap within a run.

### NodeB02 and BoardB02

The same style for the second board. The three lamps (front, veranda, white strip) have
handlers that are alike and touch nothing in common, so one operator `ToggleLamps` stands
for them and the constant `Lamps` says which exist. The strip's green and blue phases, its
red blinking, the display and the buzzer have an operator each, and `Lightning` composes
them in the order of the code. The front PIR hangs on the port expander: its line stays
high until the captures are read, and only a rising edge is an interrupt. A read may fail,
and then the line stays high (`CaptureRead`); when both reads fail, the code looks at an
uninitialised variable, and `FrontPir` leaves open whether a movement was seen. Power, warm-up, and interrupt of the front PIR are the steps
`PowerFrontPir`, `ConfigFrontPir`, `Listen`.

### Board

Time matters here, so `tick` counts units of 100 ms and advances to the next deadline when
nothing is ready (`Sleep`); while something is, it may be `Late` by a bounded number of
units. `Ask`, `StoreColor`, `NotifyTask` are the extension's task in
`board_update_status_led`, which stores under a lock and notifies afterwards. A round of
`board_task` is `Wait`, `ReadColor`, `SetStatusLed`, then one of the two stages of the
measurement, then `Feed`. A fault is a hardware timer that does not start, an ADC that does
not, or a sample that times out. Left out: the remote control, which both boards switch
off; that an extension refuses to go dark, which neither does.

### TcpClient

`pc` names the part of the task's round that comes next: `Transmit`, `GetInterrupt`,
`ClearInterrupt`, `Receive`, `Disconnected`, `Initialize`, `Check`, then `Connect` until
`Established`; `Skip` is the false branch of an `if`. The chip is external and reduced to
what the code uses: the state of the socket, two flags, the mask, the pieces of data
waiting, the cable. `Raise` sets a flag and notifies the task on the falling edge of the
line only, that is when no unmasked flag was raised before. `send_message` and `restart`
take two steps each, the copy under the mutex and the notification. Repeated calls of
`tcp_client_setup_w5500` and failing ones of `tcp_client_connect` change nothing that
others see, but `ConnectFails` may happen any number of times. There is no clock: the
wait of 30 s may end at any moment.

The chip's behaviour behind the library's calls is an assumption. Nothing takes the socket
out of the blocking mode the library starts in, so `recv` on an empty buffer waits while the
connection stands (`ReceiveNothing` is disabled, and the task is `WaitingForData`) and fails
when it is gone; a connection whose data is not acknowledged ends
up closed without an unmasked flag (`PeerVanishes`); the code is silent about the mask
after a reset, so `Initialize` leaves it open.

The board appears as a caller. `StartUpdate` is its handler of `UPDATE_FIRMWARE` up to
`tcp_client_restart`, `ReceiveLastPart` its callback for the last part of an image, which
disconnects and resets the controller. It is the only caller of `tcp_client_stop`, so
the task never comes to read `STOP_NOTIFICATION` and the bit is left out.

### Firmware

An image is a sequence of pieces, one for each received message. The first one shorter than
the buffer ends the update: the last, if it is not full as well, or one that the network
splits (`Part`). `exists` and `file` are what
the chip holds, `opened` and `content` what the open handle sees: every write is synced, a
truncation takes effect with the next write only. `flash` is the application's sectors,
`offset` the boot loader's progress. `handler` is the progress of the node's task in
`UPDATE_FIRMWARE`, which gives the chip power, mounts the file system, creates the file, sets
`is_updating` and restarts the client, one step for each call (`Request`): the client's task
writes in between, also messages of the old server (`Foreign`). The end of an update takes
two steps, `Close` and, five seconds later, `Reset` (`pc` is `"closing"` meanwhile); a second
request that was under way then finds the chip asleep. `PowerFail` may happen
anywhere. Every access to the chip may fail, with what the code does then: a failed open is
taken for a missing file, a failed mount formats, a failed read ends in `bootloader_loop`,
failed writes lose their piece. A sector of the controller that fails to erase or to
program, which the boot loader ignores, is left out.

`FirmwareSlot` says what this amounts to: `next` is the firmware to be started, and it is
changed by reception and by faults only; `Start` runs exactly `next`, unless a fault has
`hidden` it. The mapping reads `next` from the file when there is one and from the flash
otherwise, which is why the order of erase, copy and removal matters.

### Drivers

The four parts share nothing, so `Drivers` exercises one of them in each behaviour.

- `Expander`: a call is the sequence of its register writes, each of which updates the image
  and then the chip. A failing write keeps its change in the image, may or may not have
  reached the chip, and ends its call while the next one is made, as the boards only log
  the error. `RestartBoard` starts the driver again with defaults while the chip keeps its
  registers, unless the power failed. `PinOf` has the wiring of both boards.
- `Flash`: a call of littlefs is a loop of enable, command and wait, with the bus locked for
  each of them and the wait alone holding it between transfers. The chip ignores commands
  while it is busy or asleep. Two tasks call: nothing locks littlefs.
- `NodeMapper`: a text is the record of its fields, each of which may be missing. The
  serialiser, the deserialiser and the buffer with an earlier message are the code's; which
  texts the server sends, and that the parser takes or refuses a text as a whole, are
  assumptions. The lists of nodes in the server's texts may be empty, repeat a node,
  and be as long as the parser can read; `dest_array` takes each entry, without a bound.
- `Display`: the memory of the display goes round under a pointer that no command of the
  code sets, in the addressing mode that the code selects; each picture is a byte short.
  A block may take the power in any stage of a drawing.

## Runs

| run | question | bounds | result |
|---|---|---|---|
| `NodeTaskRouter` | are buffers conserved, do posted node messages always wake the task, does the dispatcher implement `NodeRouter`? | 2 + 1 buffers, 1 + 1 callers, a message for each branch of the routing | holds |
| `NodeTaskPriority` | under priorities and with an update, is every TCP message that has a handle parsed in the end; without one, has each its handle? | 2 + 2 buffers, two kinds of messages, `UPDATE_FIRMWARE` one of them | holds |
| `BoardT01Lights` | is nothing left on, do the outputs follow the node, is an alarm shown? | 5 units of time, 2 calls | holds |
| `BoardT01Movement` | is nothing left on, with the sensors, and do all reports of a round fit? | 4 units, 1 call, a buffer of 4 reports | holds |
| `BoardT01StaleTick` | on guard, does an intrusion switch the warning LED on? | 5 units, 2 calls | **violated** |
| `BoardB02Lights` | is nothing left on, is the front PIR configured, is an alarm shown? | 3 units, 2 calls, one lamp, strip of 1 step | holds |
| `BoardB02Guard` | is nothing left on, do the outputs follow the node, with movements? | 3 units, 1 call, one lamp, all three PIRs, strip of 2 steps | holds |
| `Board` | is the daylight measured in the dark and again, the last colour shown, the watchdog fed? | 5 minutes, 2 requests, 5 faults, 1 unit of lag | holds |
| `TcpClientRaces` | does the client reach the board's endpoint, try each message unless `recv` waits for good, send it at most once, keep hearing its interrupt? | 2 messages, 1 update, 2 events of the peer, 1 fault | holds |
| `TcpClientReconnects` | does the client reconnect? | 1 event of the peer | **violated** |
| `Firmware` | does the update implement `FirmwareSlot`, are the pieces stored in order, is a complete image installed? | 3 pieces, 3 power failures, 2 faults, 2 updates, 1 foreign message | holds |
| `Drivers` | no contention, lost writes repaired, data in place, success as reported, messages and pictures as sent, destinations bounded? | see below | holds |

Pools of two or three buffers are enough to be empty, partly used and full, to fill the
set with stale handles and to lose one; more of them add no new case, and the theorems
cover all sizes. In the runs of the extension boards a unit of time is the shortest timer
and each duration of the node is one unit, exceeded after two, so every timer can expire
before, at and after the moment the node's own duration ends. Three to five units let what
is switched on go off again, and on a second time. Each run enables the inputs its question
depends on (a sensor's period beyond the horizon means no sensor); together the runs
fire every action. The boards' runs stop at the horizon, hence `CHECK_DEADLOCK FALSE`;
the `NodeTask` runs and `TcpClientReconnects` check deadlock.

`Board` has the code's periods (10 units before the first sample, 1 between samples and for
the time-out, 5 samples, 1200 to the next measurement, 250 between two feeds, 327 to the
reset), but for the fifteen minutes the node asks for, which become two and a half: longer
than the feeding and than the default, and nothing else depends on it. Two requests can
overwrite one another, five faults fail a whole measurement, and the horizon has room for
two measurements.

The runs of `TcpClient` bound the events of the environment: two messages are needed to
overwrite one, an update to change the server, two events of the peer (data or a closing)
to find data read before its flag, a fault to lose the server or the cable; a single
closing suffices to be lost. In `Firmware` three pieces are a first, a middle and a last
one; one power failure may interrupt the reception, one the copy, and one is the way out of
`bootloader_loop`; two updates overlap.

`Drivers`: three switches of five devices, two failing writes and a restart reach every
pair of calls with one lost in between. Two sectors of four cells with pages of two have a
block that crosses a page; in the code a block of littlefs (128 bytes) never does, as it is
aligned and a page has 256, so the split is checked although it does not occur. Two calls
of two tasks, a failing transfer and a change of the power overlap in every way. Two nodes
and two values tell a field of the text from one of the buffer; the lists of destinations
are those of up to two nodes, and one node seven times, the most the parser reads. The display of 6 by 2 cells
has a text of three that fits at two margins and is cut off at the third; three drawings come after each other
with two failures or a block. The events of these runs are used up in the end, hence
`CHECK_DEADLOCK FALSE`.

The type invariants of `NodeTask`, `TcpClient`, `Firmware`, `BoardB02` and `Drivers` are in no run
because they are theorems. So is by now every other invariant: the runs show that it is not empty
(each is broken by a plausible mutation of the code), the theorems that no bound hides
anything.

### Fairness

`NodeTask`: weak fairness of the dispatcher's steps, and of callers that hold a buffer.
Every task of higher priority sleeps between its messages, so the dispatcher gets to
run. A caller need not call. `BoardT01`, `BoardB02`: weak fairness of the task, of the timer
daemon and of time. The daemon needs the task to sleep again and again: the task does, since
the calls and interrupts that wake it are finite in number between two timers.

`TcpClient`: weak fairness of the task, of callers between their two steps and of the
cable being plugged in again, and strong fairness of `Established`: a server that is
tried again and again answers in the end. Without the last, no client could promise
anything. No fairness ends a wait in `recv`: `LastMessageTried` and `AdminReached` have the
premise that the task is not `WaitingForData` for good, without which TLC finds that neither
holds. The safety properties and the theorems do not need it.

`Firmware`: weak fairness of the boot loader and of the reset at the end of an update.
Nothing is assumed of the servers and the network: an update may stop at any piece.

`Board` and `Drivers` state none: their properties are invariants and one action property.
`MeasuredAgain` and `WatchdogFed` are bounded forms of liveness.

### The violations

`BoardT01StaleTick`: `board_T01_task` reads the clock once per round (line 150) and asks
for the outputs with it much later (line 249), possibly after a sensor was read. If the
dispatcher processes a `SET_INTRUSION` message meanwhile, `intrusion_start_time_ms` lies
ahead of the round's time; `node_T01_update_time` takes this for a wrapped counter and
sets it to 0. The node is on guard, and the state it returns has the warning LED off, then
and later. The unit test (`node_T01.test.cpp`, lines 513-519) expects the LED to be on after
the two messages; it calls the functions one after the other with one clock and so cannot
meet this order. `SET_LIGHT` suffers in the same way.

`TcpClientReconnects`: the last step of each round is commented "Check connection / Try
to reconnect", but it looks at the cable and at the variable `is_connected` only. A
server that closes the connection after `CS_GET_INTERRUPT` and before `CS_CLR_INTERRUPT`
has its flag cleared unread, and `is_connected` stays true for good. The task opens that
window for each connection itself, with the notification it sends after the set-up. With
a fault instead of the closing TLC finds the same end: a server that vanishes leaves no
interrupt, and a failing `send` is only logged.

### Seen, and not stated as a property

Nothing in the repository promises otherwise for these:

- The light goes on while the lights are blocked, when its notification was pending
  with the block's or its timer expired just before the stop.
- While the callback of a firmware update keeps the dispatcher busy, stale handles can
  fill the set and the handle of a TCP message is lost; the message waits for the next
  one. All of them may be lost, so that every TCP buffer is queued and none is noted: nothing
  is received any more. That is why `EveryTcpNoted` excludes the update and `NotedTcpParsed`
  speaks of messages with handles. Without an update no handle is lost with at least as many
  message buffers as TCP buffers (the code has 8 and 4); with 2 and 3 one is.
- For 40 s after the start, 0 is a recent start time: the display is on, and guard mode
  warns.
- An edge of the front PIR within the hysteresis is dropped without reading the captures,
  so the line stays high and the PIR is not heard again before it is switched off. Reads of
  the captures that fail have the same end.
- A message from the old server that arrives after `is_updating` is set goes into the
  image, and a short one ends the update. A piece that TCP splits ends it as well. What is
  then installed is what was received.
- An image whose size is a multiple of the buffer never ends the update: the last piece of
  the model may be full, and the file then stays open until a second request or a reset.
- `dest_array` is written without a bound of its own: a text with seven destinations and
  nothing else is accepted. Whether `NODE_LIST_SIZE` is as large is decided by a header that is
  not in the repository.
- `recv` is called although the data was read before: a flag raised after
  `CS_CLR_INTERRUPT` announces data that the same round reads. The task then waits while the
  server is silent, sends nothing and does not notice a restart; and as the library polls, at
  priority 3, the dispatcher and the extension board wait with it.
- After a software reset with a device on, the chip differs from the image until the
  initialisation has written every port.
- A call of the flash driver that is not alone can report success although the chip, busy
  with the other one's operation, ignored it.
- A drawing on a display that kept its power begins where the last one ended, two columns
  further left.
- A text without a source or a value leaves those of the earlier message in the buffer.

## Proofs

`NodeTaskProofs` proves for all pool sizes and all finite sets of callers and messages:

- `TypeCorrect`: `Spec => []TypeOK`;
- `PoolsConserved`: `Spec => []BuffersConserved`, for both pools: each buffer is in
  exactly one place, a queue or a pointer of somebody who may use it;
- `NoPointerUninitialised`: `Spec => []NoStrayRelease`;
- `MessagesWakeTask`: `Spec => []NoMsgStranded`;
- `RoutesInOrder`: `Spec => ImplementsRouter`, that is `Spec => Router!RouterSpec`;
- `UnderPriorities`: `PrioritySpec => []IInv /\ ImplementsRouter`, so the above holds under the
  priorities as well;
- `Inductive`: `Spec => []IInv`, which the others follow from.

None of the properties is inductive alone. That a released pointer was received needs
that a TCP handle implies a TCP message, which is why `HandlesInv` bounds the handles by
the queue from above; that a message has a handle needs the opposite bound for the node
queue, and this one survives a full set only because the set is as long as both queues
together and there are never more TCP handles than TCP messages. Conservation is stated
by counting: for each buffer the occurrences in both queues, in the callers and in the
task's pointers add up to one, or to none before the task has filled the pools.
`QueueProofs` holds what appending and removing does to counts.

The refinement maps inbox and agenda to what the queues' pointers point to. A post appends
(`AgendaGrows`, `InboxGrows`) because a buffer in somebody's hands is in no queue, so the
queue has room; the end of parsing, a time-out and the callback remove the head; every other
step leaves both alone, the copies into buffers among them, as nobody writes a buffer that
is queued. It needs of the contents that a caller's are the board's own (`MsgContentsInv`)
and that what the task posts is the text it parsed (`CopyInv`). The constants' assumptions
are `SizeAssumption`, `CallersAssumption` and `MessagesAssumption`.

`BoardT01Proofs` proves for all durations, inputs and numbers of calls:

- `TypeCorrect`: `Spec => []TypeOK`, through every function of the node;
- `NothingStuck`: `Spec => []NothingLeftOn`;
- `NoReportDropped`: `Spec => []ReportsFit`, if the buffer has room for more than three
  reports (it has eight);
- `StateShown`: `Spec => []LatestStateShown`.

`NothingLeftOn` says of each thing that is on that a timer, a queued command or a bit will
switch it off. The last command queued for a timer decides (`TimerCommands`), so the lemmas
say what another command, the daemon and an expiry do to it. `LeftOnInv` adds where the bit
of the block is: the board starts the block's timer before it notifies the task, so a block
that the task has yet to see has its end under way; without it the task could block and wait
for an expiry that has passed. `Room` counts reports: each input of a round adds one at
most, and all are sent before the task sleeps. `Asked` is behind `StateShown`: what the task
has read of the node is what the node still says, unless a bit has been set since. The
assumptions are `DurationAssumption` and `BoardAssumption`.

`BoardB02Proofs` proves the same for the other board, with any lamps and any number of
strip phases: `TypeCorrect`, `NothingStuck`, `StateShown` (with buzzer and front PIR), and

- `FrontPirFollowed`: `Spec => []FrontPirConfigured`.

Its `RoundOver` says that a part of a round that is over has left none of its bits: what is
still to be handled tells where the round is.
`FrontInv` adds that the task configures the front PIR's interrupt only with its power on.
The assumptions are `NodeB02Assumption`, `BoardB02Assumption` and `LampAssumption` (a lamp's
name is none of the other timers' and bits').

`BoardProofs` proves for all periods and any number of requests and faults:

- `TypeCorrect`: `Spec => []TypeOK`;
- `DaylightMeasuredAgain`: `Spec => []MeasuredAgain`;
- `ColorShown`: `Spec => []LatestColorShown`;
- `DaylightMeasuredInTheDark`: `Spec => []MeasuredInTheDark`, if the lag is less than
  `IterationPeriod + AdcTimeout`, what one sample may take;
- `WatchdogAlwaysFed`: `Spec => []WatchdogFed`, if `WatchdogTimeout` with the time of a whole
  measurement and the lag is less than `WatchdogReset`.

`OneTimer` is behind the first: the next measurement is in exactly one place, a bit, the
round that handles it, a queued command, or the running timer. `ColorInv` follows a colour
from the request to the LED and back after a measurement. The last two are about time:
`DarkInv` and `FedInv` state at each place how much of the time that was granted is left,
which is enough for the samples still to be taken, each of which may time out, and for the
lag still to come. The two hypotheses say what the code's numbers leave as a margin: 100 ms
and 100 ms for a sample, and 25 s, 1 s and the lag against 32.7 s. The assumptions are
`PeriodsAssumption` and `LimitAssumption`.

`TcpClientProofs` proves for any number of messages, updates, data, closings and faults:

- `TypeCorrect`: `Spec => []TypeOK`;
- `EndpointTheorem`: `Spec => []EndpointReached`. The property says nothing of a
  connection being made; `EndpointInv` adds that such a connection goes to the endpoint,
  or that a restart is pending which will replace it, and that meanwhile the client does
  not think it is connected;
- `LineTheorem`: `Spec => []InterruptLineHeard`, inductive given the types: an edge
  notifies, only `Wait` consumes the notification, and what it consumed lasts until the
  flags are cleared;
- `SentTheorem`: `Spec => []SentOnce`, from `SentInv`: a message in the buffer is newer
  than all that were sent.

The assumptions are `ServersAssumption`, `NoMsgAssumption` and `LimitAssumption`, the types
of the constants.

`FirmwareProofs` proves for images of every length and any number of events:

- `Typing`: `Spec => []TypeOK`;
- `Copying`: `Spec => []CopiedPrefix`;
- `Order`: `Spec => []ReceivedInOrder`;
- `Refinement`: `Spec => ImplementsSlot`, that is `Spec => Slot!SlotSpec`;
- `Consistency`: `Spec => []IInv`, which the others follow from.

`Consistent` adds to `CopiedPrefix` that a file that does not exist is empty, that it exists
while it is copied, that nothing is copied yet after the erase, that a firmware that is
started is not empty, and that an open handle sees the file or nothing. The step lemma has
one step for each action; the refinement's shows for each which action of the slot it is.
`OrderInv` is behind `Order`: it says for each stage of an undisturbed request what the open
file holds and that no piece arrives before the flag is set. The assumptions are `ImageAssumption` and `LimitAssumption`.

`DriversProofs` proves of the expander, for any devices and any number of switches, failing
writes and restarts, on both boards:

- `ExpanderTyping`: `ExpanderSpec => []ExpanderTypeOK`;
- `KeepsOthers`: `ExpanderSpec => OthersKept`, from the types alone;
- `Uncontended`: `ExpanderSpec => []NoContention`;
- `CallsHold`: `ExpanderSpec => []LastCallHolds`.

`SignalInv` is the invariant behind `Uncontended`: the driver's image never has B7 high
with B6 an output, and the writes still pending are in an order that keeps it so. A write
that gives the power is pending only when B6 is an input already or the next write frees
it, a write that takes the signal only when the power is off or the next write takes it. It
speaks of the image, which changes even when the bus fails, and so no fault disturbs it.
`AskedInv` is the one behind `CallsHold`: without a failure each write that was asked for is
pending, or it holds in the chip and in the image; in the image because the next write of
the same register writes all of it. It needs that no operation contradicts itself, which
`InitAsks`, `EnableAsks`, `DisableAsks` and `SwitchDeviceAsks` show. The assumption is
`ExpanderLimitAssumption`.

Of the flash memory, for all sizes of pages, sectors and blocks and any tasks:

- `FlashTyping`: `FlashSpec => []FlashTypeOK`;
- `DataInPlace`: `FlashSpec => []InPlace`;
- `ReportedDone`: `FlashSpec => []DoneWhenReported`.

`PlaceInv` says that a call's page number and offset are those of the next byte of its
block, through the arithmetic of `w25q32bv_flash.c` and of the split at a page's end, and that
what the chip programs, it programs in place. It holds however calls interleave. The success
does not: `AloneInv` says how far a call has come that has had the driver for itself. The
assumptions are `GeometryAssumption` and `FlashLimitAssumption`.

Of the message texts, for all nodes, values and lists of destinations: `MapperTyping`,
`DestinationsStayBounded` (`MapperSpec => []DestinationsBounded`, from `DestinationsFit`: the list
itself costs the parser a token, and each text starts with an emptied array) and `MessagesArrive` (`MapperSpec => []RoundTrip`), the
last if there are eight tokens or more, as in the code: `EightTokens` counts that no message
of these nodes has more. The assumption is `TextAssumption`.

Of the displays, for all sizes and texts: `DisplayTyping`, and `PictureComplete`
(`DisplaySpec => []PictureShown`) if every margin is two columns or more, as on both boards:
pictures that are a byte short move the next one to the left. `Drawn` says how far a drawing
without failures has come. The assumptions are `ScreenAssumption` and
`DisplayLimitAssumption`.

Of the composition: `PartsKept` (a behaviour of `Drivers` is one of each part, so that all of
the above holds in the run) and `DriversTyping`.

Only model-checked: all liveness (`EveryMsgRouted`, `NotedTcpParsed`, `AlarmShown`,
`LastMessageTried`, `AdminReached`, `ImageInstalled`), as TLAPS proves none under fairness, and
`EveryTcpNoted`, whose premise speaks of the whole behaviour.

## Not modelled

- The vendor's libraries (HAL, BME280), littlefs, lwjson, the W5500 and FreeRTOS: external,
  as the code uses them.
- Fonts and layout, analogue values, the conversion of a reading to lux, logging.
- Start-up: a fixed sequence; an allocation that fails stops the firmware there.
- The remote control: both boards switch it off.
- A controller of unknown id, for which the code has no callbacks.
- `STOP_NOTIFICATION` of the TCP client: its only sender resets the board at once.
- A failing sector of the controller's own flash.
- The wrap of the tick counter: the models stop before; `UpdateTime` is there because a
  start time may also lie ahead of the round's clock.

## Plan

1. Dispatcher with its abstract specification, proofs and the proof of its refinement: done.
2. Nodes and boards T01 and B02, with proofs: done.
3. `TcpClient`, with proofs: done.
4. `Board`, with proofs: done; left is its composition with an extension board.
5. `Firmware` and `FirmwareSlot`, with proofs: done.
6. Drivers, with proofs: done.
7. Left to prove: lemmas about the nodes that stand on their own (a node that is not
   asked keeps its outputs), and the action properties behind the liveness that is only
   model-checked (no step drops a pending bit or an installed image).
