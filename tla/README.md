# WaxBee in TLA+

WaxBee is firmware for an 8-bit AVR (ATmega32U4) that makes USB tablets of old
ADB and serial Wacom tablets, with a desktop program that configures it. The
firmware has no operating system: a main loop, a handful of interrupts, and plain
variables between them. This directory models both in TLA+, checks the models with
TLC on small instances, and proves their central properties with TLAPS for every
value of the constants.

Paths below are relative to `src/`; `waxbee/x.cpp:12` is line 12 of that file.

1. [Inventory](#1-inventory)
2. [Modules and how they correspond to the code](#2-modules)
3. [What is checked](#3-what-is-checked)
4. [Bounds](#4-bounds)
5. [Fairness](#5-fairness)
6. [What is proved](#6-what-is-proved)
7. [What was found](#7-what-was-found)
8. [What is not modelled](#8-what-is-not-modelled)
9. [Plan](#9-plan)

## 1. Inventory

```
 serial tablet --> serial --> protocol4/5, isdv4, topaz --+                       debugproc
                                                          |                           |
 ADB tablet  <--> adb_codec <--> adb_controller ----------+--> pen_event --> pen_data_transform
                                                               |                  |
                                                     intuos2_button --> wacom_usb --> usb_util --> usb --> host

 console --> usb_debug_channel --> host            serial line <--> usb_serial <--> host

 WaxBeeConfig: template, file --> editor --> encoder --> programming --> boot loader
                                                                            |
                                              extdata, gpioinit <-- flash <-+
```

Data flows through the firmware by direct calls, all in the main loop, up to
`usb_send_packet`, which waits there for at most 50 frames. Three places hand state
from an interrupt to the main loop without masking it: the receive buffer of
`serial`, the codec's packet and `adbTransactionPending`, and the countdowns of
`usb_util`. The serial bridge is a program of its own, as is the configuration tool;
the tool and the firmware meet in the flash memory.

| Component | State | Operations | Shared with | What is hard | What makes it correct |
|---|---|---|---|---|---|
| serial port, `serial.cpp` | 800-byte ring: head, tail; USART registers | receive interrupt; `read`, `flush`, `setBaudRate`, `serialPortProcessing` | interrupt owns the tail, main loop the head; both 16 bits wide on an 8-bit CPU | torn loads and stores; the head is 800 for a moment before it wraps | bytes are read once, in order; none is dropped while there is room |
| ADB codec, `adb_codec.cpp` | a state machine, two interrupt enables, the packet | compare match (timeout) and input capture interrupts; `initiateAdbTransfer`; callback | both interrupts and the main loop | order of the two interrupts; noise; silence at any point | the device hears the request, the client gets the answer, and always a callback |
| ADB controller, `adb_controller.cpp` | request of the dialogue, its phase, tool state | `adb_controller_internal` on each callback; `detectToolState` | codec's packet | retries, answers out of step, tool state kept between packets | requests obeyed in order; each pen event is an answer to a poll |
| protocol V serial tablets, `protocol5_serial.cpp` | handshake state; packet buffer, eraser latch, 4D mouse latch, the one pen event | `init`/`initialState`, `onSerialByteReceived` | `serial`'s speed and buffer | restarts (the tablet keeps its speed), lost bytes, no checksums | both sides at one speed; reports are about the tool that is there |
| protocol IV, ISDV4, Topaz: `protocol4_serial.cpp`, `isdv4_serial.cpp`, `topaz_serial.cpp` | handshake or query state; packet buffer, `in_proximity`, `eraser_mode` | as above | as above | a switch and the eraser share a bit; ISDV4 flushes with the receive interrupt on | a pen is not turned over while it is near |
| pen events, `pen_event.cpp` | maximum pressure | `input_pen_event`, `output_pen_event` | - | - | events reach the reports |
| coordinates, `pen_data_transform.cpp` | limits, anchors, maxima | `transformPenData` | - | 16-bit words, products of 32 bits | the cursor stays in the area and follows the pen |
| USB reports, `wacom_usb.cpp` | `currentlyInRange`, `in_special_operation` | `send_protocol5_packet`, `send_protocol4_packet`, `send_bamboo_pen_packet`, special operations | called by all decoders and the buttons | reports lost on USB; a button in the middle of a tool's visit | the driver is told of a tool before anything about it |
| tablet buttons, `intuos2_button.cpp`, `button_event.cpp` | - | `send_intuos2_button_event` | `wacom_usb`'s gate | interleaving with the pen | the pen is back in order afterwards |
| idle filler, `usb_util.cpp` | three countdowns, the packet to repeat | 5 ms interrupt; `send_packet*`, `main_loop` | interrupt counts down | a 16-bit countdown in halves; a main loop that is late | an idle line is filled in the end and no earlier, dummy reports are apart |
| USB device, `usb.cpp` | `usb_configuration`, `tx_timeout_count`, endpoint registers | `usb_send_packet`; reset, start-of-frame and setup interrupts | interrupts select endpoints too | interrupts between the tries of a send | the packet goes to the endpoint asked for, once, or the caller is told |
| debug channel, `usb_debug_channel.cpp`, `console.cpp` | an endpoint's buffer, `debug_flush_timer`, `previous_timeout` | `putchar`; flush in the start-of-frame interrupt | interrupts | interrupts between the tries of a byte | bytes reach the host in order, and in the end |
| serial bridge, `usb_serial/` | `cdc_line_coding`, two endpoints, `transmit_flush_timer` | main loop: speed, receive, send; the same interrupts | interrupts write the speed while the main loop reads it | a speed torn between its bytes | bytes pass in both directions; the line has the speed last set |
| debug playback, `debugproc.cpp` | address, 8-bit countdowns | `processing`, `proxOutTrigger`, timer | 5 ms ticks; the pen's events | end of data, countdown of 0, a trigger during a playback | it ends, with the last packet |
| pins, `gpioinit.cpp` | a command's buffer, 8 bytes | `customGpioInit` | configuration data | a command of 9 characters; run twice after an error | commands are executed once, up to the first wrong one |
| main program, `waxbee_main.cpp`, `extdata.c` | - | start-up, error blinks, main loop, accessors | flash memory | data that is not there or half there | starts, or stops with the right error |
| configuration tool, `WaxBeeConfig/` | configuration, its file, firmware selected, a dialog's worker thread, one native handle | edit, save, load, choose firmware, encode, generate hex, program | two workers over one handle; the board | cancelling, unplugging, a second dialog | what it says is on the board is there |
| configuration generator, `WaxBeeExtDataGen/` | - | writes the tables of the other parts | - | - | - |
| touch, `touch_event.cpp` | an event | one call | - | never enabled | - |
| sniffer, `AdbSniffer/` | - | prints what it hears | - | - | - |

`PROJECT.json` lists every component with its status, and under `hazards` every
place where the code is exposed to something a test would hardly reach.

## 2. Modules

Definitions keep the source's names where they can; `map` in `PROJECT.json` names
the lines each one stands for. Operators whose names begin with `Slip` are
plausible slips of the definition that follows them (a dropped guard, an
off-by-one, a missing reset). No specification uses them: they record, for every
property, one way to break the code that the property notices.

| Module | Models | Abstract specification it implements |
|---|---|---|
| `SerialRx` | `serial.cpp`, receive side | `RxQueue`: a FIFO queue of 799 bytes, and what it may do instead while its head is moved |
| `AdbCodec` | `adb_codec.cpp` | |
| `AdbHost` (EXTENDS `AdbCodec`) | `adb_controller.cpp` | `AdbSession`: requests obeyed in order, reports are answers |
| `Protocol5Handshake` | `protocol5_serial.cpp` and `protocol4_serial.cpp` until the tablet transmits | |
| `WacomUsb` | `wacom_usb.cpp`, protocol V, as operators for the tablets that use it | `HostTool`: what a driver is promised |
| `Protocol5Serial` (EXTENDS `WacomUsb`) | `protocol5_serial.cpp` from then on | `HostTool` |
| `ButtonPen` (EXTENDS `WacomUsb`) | `intuos2_button.cpp` against a tool | `HostTool` |
| `DebugProc` | `debugproc.cpp` | |
| `PenTransform` | `pen_data_transform.cpp`, one axis and the pressure | |
| `PenReports` (EXTENDS the last two and `WacomUsb`) | `pen_event.cpp`, and the reports of every USB protocol | |
| `SerialTablets` (EXTENDS `PenReports`) | `protocol4_serial.cpp`, `isdv4_serial.cpp`, `topaz_serial.cpp` when their tablets transmit | |
| `UsbSend` (EXTENDS `UsbPipe`) | `usb_send_packet` against the USB interrupts | `UsbPipe`: what a send promises |
| `UsbUtil` (EXTENDS `UsbPipe`) | `usb_util.cpp`, over the promise only | |
| `UsbChannel` | `putchar` of the debug channel and of the bridge, against the USB interrupts | |
| `SerialBridge` (EXTENDS `UsbChannel`) | `usb_serial/main.cpp` with its serial port and its `usb_serial_getchar` | |
| `ByteChannels` (EXTENDS `SerialBridge`) | who prints into the two channels | `ByteStream`, once in each direction |
| `Sorting` | a set of numbers, in order | |
| `FirmwareImage` (EXTENDS `Sorting`) | `FirmwareImage.java`: images and Intel Hex files | |
| `ConfigFile` (EXTENDS `Sorting`) | configurations, their file and the editor's fields | |
| `ExtData` (EXTENDS both) | `WaxBeeConfigEncoder.java`, and `extdata.c` that reads what it wrote | |
| `GpioInit` (EXTENDS `Sorting`) | `gpioinit.cpp`, and what its commands mean | |
| `ConfigTool` (EXTENDS the last two) | `MainApplication.java`, `ProgramDialog.java`, `TeensyProgrammer.java`, `teensylib/teensy.c`, and the firmware's start | |
| `MC...` | sizes, tools, tablets, requests and configurations for TLC | |
| `...Proofs` | theorems, section 6 | |

**SerialRx.** The main loop's variable `pc` stands between the *halves* of its
16-bit accesses: `Poll` and `TestEmpty` load the tail, `IncHalf`/`IncDone` store
`_receive_buffer_head++`, `WrapHalf`/`WrapDone` store the 0 that follows when the
head was incremented past the end, `Drain`/`FlushHalf`/`FlushDone` are `flush` in
`setBaudRate`. `Mix(a, b)` is what a load or a store shows half-way: one byte of
each value, in whichever order the compiler took. `Interrupt` is atomic (AVR
interrupts do not nest here). Bytes are numbered as they arrive, at any pace; `stored`, `taken`,
`dropped` and `late` (more than `SafeBacklog` bytes were unread once) are histories. In the refinement
mapping the queue is what lies between `Slot`, the place that the head means while it is being stored, and the tail:
contents of the buffer, not of a history. `moving`, the steps between `Fetch` and the last store of the head, is when
`RxQueue` promises less (section 7).

**AdbCodec.** One action per state and interrupt: `Timeout...` for the compare
match, `Capture...` for an edge after a pulse of `p` microseconds. The client is
`Consume`, `Prepare` and the three steps of `initiateAdbTransfer` between which
interrupts may run. On a `Noisy` line any pulse may come at any time. On a clean one
`script` holds the pulses of a device that follows the protocol. `heard` is the
sequence of bits a device makes of the host's own pulses. What a callback does is
part of the handler that makes it, twice where the code makes it twice.

**AdbHost.** The client made particular: the nine requests of the dialogue
(identify, 4L3, 4T3, 4L1, two checks, two 4L2, status) and the decisions taken on
each answer. `Dialog` lists them in
their order (`Identify`, `Set3`, `Check3`, ...). `Advance` is the response's fall-through to the next request in the
same turn of the loop, `Retry` the failure that returns to the main loop.
`Obeyed`, in the refinement mapping, says from the wire alone that the tablet has heard
the whole request.

**Protocol5Handshake.** `protocol` is the one of the tablet and the firmware, IV or V; the two
differ in the command that brings the tablet back, in the models supported and in the
speed they tell it. Actions of the firmware run from delay to delay, `Restore`,
`Reset` and `Ask` being the pieces of `initialState`
(`SerialInit` opens the port); `Receive` is
`onSerialByteReceived`. `Restart` restarts the firmware and not the tablet, which
keeps the speed it was told, and may come with another configured speed (`normal`), as after an update; `reach` remembers
whether the tablet was then at one of the speeds that `initialState` tries. A command carries the speed it was sent at, and one that
is sent at another speed than the tablet's is noise.

**WacomUsb, Protocol5Serial, ButtonPen.** A pen event is a record of what matters
to the report chosen for it: proximity, eraser, is_mouse, the tool's identity, and
the type of the packet it came from. `Introduce` and `Leave` are the
two reports about the tool itself, `DataKind` the kind of report that is chosen for the others.
`Send` is `usb_send_packet` to the driver at the host, which may not get it. `host` is what the driver believes; `about` and `missed` are
histories. In `Protocol5Serial` a packet is a header byte and body bytes, any of which
may be lost, and says what `PenPacket` or `MousePacket` puts in it; `Appended` and `Complete` are the parser's buffer, `EventOf` and `Act`
what it makes of a packet. In `ButtonPen` the tool's events and the button's calls
interleave at the gate `in_special_operation`; its definitions have names of their own (`ButtonSpec`), so that one module proves about both.

**PenReports, SerialTablets.** The reports of protocol IV and of a Bamboo say by
themselves which tool is near: `SendState`. `InputPenEvent` chooses the report by the USB
protocol, transforms the event and triggers the playback. In `SerialTablets` a tablet makes
packets of three bytes (what is near; the position and the pressure; the tip and the
switches), whatever their real length, and any byte may be lost. A byte that is read
in another's place says anything: `At` leaves its field open, and `ReadProtocol4`, `ReadIsdv4` and
`ReadTopaz` are the sets of what such a packet may be read as. `DetectToolState` is the
eraser's latch that the three parsers share. `fooled` is a history: the pen came in with its second switch
pressed. An ISDV4 tablet first answers a query if the console is on (`QueryPacket`); the
`flush` there is the one that runs with the receive interrupt enabled, and `Query` leaves
whichever bytes of the answer it happens to.

**DebugProc.** One action per turn of `processing` that does something: `WaitSecond`,
`PlayFirst`, `PlayNext`; `Timer` is the 5 ms interrupt taken twice. All variables are bytes and wrap.
It runs within `SerialTablets`, where a pen that leaves triggers it.

**UsbSend, UsbUtil.** In `UsbSend`, a try runs with interrupts disabled (`FirstTry`,
`TryAgain`), and everything may happen between two. The interrupts of the setup
endpoint appear with the endpoint they leave selected. `UsbUtil` uses only what
`UsbPipe` promises: a call ends in `Put` or `Refuse`. Its 16-bit countdown is loaded,
cleared and set half by half, with at most one tick between two halves.

**UsbChannel, SerialBridge, ByteChannels.** `channel` says which of the two programs
runs; they share the controller (`Frame`, `ResetInterrupt`, `Configure`, `Collect`) and differ in their
timeouts, in the padding of a packet that is flushed, and in who calls `putchar`:
`DoPrint` at any time, or the bridge's main loop, which goes round `ReadLow`, `ReadHigh`,
`SetBaudRate`, `Tell`, `Remember`, `Poll`, `GetChar`, `SendByte`. `ReadLow` and `ReadHigh` are the loads of the bytes of
`cdc_line_coding`, which `SetLineCoding`, an interrupt, may change in between; two bytes stand for four.
`halted` holds the endpoints that the host has halted (`SetHalt`): they stall, with the endpoint left selected, until the host ends the
halt (`ClearHalt`, `Resume`) and what they held is gone.
`accepted` and `given` hold what is under way to the host and to the line, `heard` and `line` what
came out last, so that `ByteStream` is implemented by renaming alone.

**FirmwareImage, ConfigFile, ExtData, GpioInit.** These have no variables: they are the
algorithms of the tool and of the firmware's start, as operators over sequences of
bytes, lines and tokens. `EncodeConfig` puts the table, strings and binary data behind an image
and the table's address over the placeholder; `ReadItem` is what the firmware's accessors
return. `GenerateIntelHex` fails when the last byte of the memory is defined, as the loops of the code read its mask one further;
`SegmentBase` is signed, as the bytes are in Java. `CustomGpioInit` takes the characters of the string through the command buffer, one by one;
`StringMeaning` is its reference definition, command by command. Loops over lines, items and characters are
recursive functions (`loc`, `parse`, `run`), and a loop over the addresses or indices of a set goes through `Sorted`, so
that section 6 can reason about them. `WildShift` is what `1 << n` gives for the counts that C leaves undefined.

**ConfigTool.** The window (`Start`, `Exit`, `NewFromTemplate`, `RawEdit`, `ChooseFirmware`, `Autoselect`,
`GenerateHexFile`), the dialog (`ProgramDevice`, `CloseDialog`), its workers (`Find`, `Open`, `WriteBlock`,
`WriteReturns`, `Abandon`, `Settle`, `Reboot`, `Finish`), each step ending with a native call, and the board
(`PressButton`, `PowerCycle`, `UsbConfigured`). `handle` is the one static handle of the native
library. Closing a dialog cancels its worker without waiting for it, so a second worker may start
meanwhile and the first may close the handle under it. `RawEdit` is the modal editor from its opening to its end: by Save,
by Cancel after a refused Save (a number that is none leaves all fields as they were, a wrong item those behind
it), or by Cancel at once; a configuration that requires nothing gets no firmware. `promise` is a history: the
configuration that a worker said was on the board, until something is written again.

## 3. What is checked

| Run | Module | Question | Distinct states |
|---|---|---|---|
| `serial_receive` | `MCSerialRx` | Bytes at any pace, up to a full buffer: is it the queue of `RxQueue`, does it lose and drop nothing until the main loop is late, wherever the interrupt falls within its half accesses, and is everything kept read in the end? | 822,015 |
| `adb_noise` | `MCAdbCodec` | On any noise: is the timer always armed while the codec drives the bus, and can a waiting client still be woken? | 517,069 |
| `adb_hang` | `MCAdbCodec` | Is there always a callback? No: section 7. | |
| `adb_host` | `MCAdbHost` | The whole dialogue over the bit-level codec, at the code's sizes: one callback per transfer, the bits of every request and answer intact, each request obeyed before the next, every pen event an answer to a poll, the eraser's end kept, and reports for ever. | 19,398 |
| `handshake_restarts` | `Protocol5Handshake` | Both protocols, restarts anywhere and garbled answers: is the tablet at 9600 baud and silent after the reset, do the speeds agree when packets are parsed, does it connect in the end? A restart may bring any configured speed. | 377,746 |
| `protocol5` | `MCProtocol5` | Bytes lost anywhere, reports lost on USB: once the driver has been told that a tool left, are reports about the right tool; is a pen event made of one packet; is the driver ever told nonsense? | 2,914,082 |
| `button_pen` | `MCButtonPen` | Does the driver see the pen that plays a tablet button? No: section 7. | |
| `serial_tablets` | `MCSerialTablets` | Three tablets over three USB protocols, bytes and reports lost: does the driver know the tool, is a pen ever turned over, does the cursor follow it, and does a playback end? | 1,140,890 |
| `usb_send` | `UsbSend` | Resets, configurations, halts and frames between any two tries: right endpoint, once, in order, or an error; and does it return? | 63,936 |
| `usb_util` | `UsbUtil` | With or without a call of `init`: no repetition before the line is idle, a repetition in the end unless another packet took its place, and no dummy report too early by more than one wrong upper half. | 323,350 |
| `byte_channels` | `MCByteChannels` | The same interrupts between the tries of a byte: do bytes go through in order and in the end, in both directions, and does the line end up at the speed the host set last? | 1,189,716 |
| `config_tool` | `MCConfigTool` | Edits, files, two programmings over one handle, a board that is unplugged: does "Finished Successfully" mean that the firmware starts and reads what the user left; are the pins driven as the string says; does the firmware chosen support it; does a file keep a configuration; does a cancelled worker end? | 114,678 |

Some statements need a word on their exact form.

* `RightTool` and the `KeepsUp` of `Protocol5Serial` speak of *trusted* times: a
  tool left and the driver was told, and no byte was lost since. Without checksums
  nothing better can hold: when the packet that brings a tool in is lost, its
  reports are taken for the last tool's. What the runs show is that the damage ends
  with the next tool that is seen to leave. The `KeepsUp` of `SerialTablets` is of the same
  form; `NotTurnedOver` there is not, and holds whatever bytes are lost.
* `OnePacket` excludes only the loss of a header right behind a packet that was
  cut short; there the bytes of two packets do become one event.
* `ReportsApart` allows a dummy report to come `Radix` ticks early: a tick between
  the two stores of line 131 of `usb_util.cpp` borrows from the upper half. The
  bound is exact for one torn store and excludes a torn *test*, which would be off by
  nearly the whole period.
* `At9600` and `Connects` speak of a tablet that this run of the firmware found in reach: at 9600 baud or at the speed now
  configured, with no command under way that takes it elsewhere. A tablet that a run with another configuration left
  at its own speed is not brought back (section 7); `SpeedsAgree` is checked and proved of it, too.
* `SpeedsAgree` and `Connects` assume `WellConfigured`: protocol IV tells every
  tablet 19200 baud, so the configuration must say so too (section 7).
* `Tracks` speaks of values within the configured limits, and of any value above the maximum.
* `ReloadKeeps` excludes strings that the file format does not carry back, and a configuration that no firmware
  supports, as it is not saved (section 7).
* `SuccessMeansConfigured` and `SuccessMeansStarts` exclude text that is too long for a length of one byte (`Short`,
  section 7).
* `SuccessMeansConfigured` and `SuccessMeansStarts` end with the next write: a promise is
  about what is on the board, not about what somebody puts there afterwards.
* `FirmwareSupports` speaks of configurations that some firmware supports. When none does, the tool says so ("most likely a bug",
  `WaxBeeConfig/src/org/waxbee/MainApplication.java:539`) and keeps the firmware it had, which can then still be programmed.
* `ByteStream` lets a reset of the bus or of an endpoint cut off what is still under way, from
  some byte on; it does not let a byte in the middle be lost, or one come twice.

`HostTool` lets a report be lost at any time, and excuses the reports until the
next "leave" that arrives.

## 4. Bounds

| Run | Bound | Why it is enough |
|---|---|---|
| `serial_receive` | Size 14, Radix 5 (for 800 and 256), 20 bytes, `SafeBacklog` 2, one speed change | 14 = 2*5 + 4 keeps the relations of `SmallBacklog`, as 800 = 3*256 + 32 does. 20 bytes pass the end of the ring and every torn value of the head, and fill the buffer in every position: a byte is refused by a full buffer and by one that is not (from 3 bytes on), and from the 19th on one overruns it. The theorems drop all of these bounds. |
| `adb_noise`, `adb_hang` | bytes of 1 bit, packets of 1 byte, 4 pulse lengths, one preempting timeout | pulses are too short, a bit's two halves, a gap, too long: every comparison goes both ways; bytes and packets fill up and overflow. |
| `adb_host` | 8 bits, 8 bytes; one preempting timeout; answers of 0, 2, 5 and 8 bytes | the code's own sizes; the answers cover silence, each tool, both ends, both proximities and the old UltraPad. |
| `handshake_restarts` | 2 restarts, 2 garbled bytes, a main loop 2 bytes behind | a restart within the handshake that follows a restart; an answer one too long, one too short, and one of each; every sequence of three configured speeds. `AnswerLen` is the code's own 20. Every model that a protocol treats on its own, and one it does not know. |
| `protocol5` | 3 bytes per packet, 6 packets, 4 tools | a header, a body byte that may be lost, and another; 6 packets bring in, use and take out two tools. |
| `button_pen` | 5 tools of different kinds; no bound on steps | the counterexample needs none. |
| `serial_tablets` | 3 bytes per packet, 2 to 4 packets, an answer of 4 bytes; words of 4 bits; bytes of the playback modulo 4, a second of 2 ticks; 8 setups | packets bring a pen in, use it and take it out, and another in; the setups give each tablet two or three USB protocols, three calibrations (no anchors, two, one) and two scripts, one with all its delays and counts at 0. 12 times 15 overflows the word, as the products of the code do 16 bits. |
| `usb_send` | 2 endpoints, 2 banks, 2 packets, timeout of 2 | full and free endpoints, the wrong endpoint, and a timeout that runs out or does not; no bound on steps. |
| `usb_util` | Radix 4, period 10 (for 256 and 1000), window 3 | the period is 2*4 + 2: borrowing from the upper half and a torn load that looks like 0 both occur; no bound on steps. |
| `byte_channels` | packets of 2 bytes, 2 banks, frame numbers modulo 3, timeouts of 1 and 2, flushes after 2 and 3 frames, a message of 1 byte; speeds 9600, 19200 and 38400; 5 setups with up to 5 bytes, 3 packets, 2 speeds and 1 upset (a reset, a configuration, a halt or another request) | a packet fills, and another; both banks fill and putchar must wait, with a timeout that runs out or does not; frame numbers wrap; the speeds differ in one byte or both, so that every torn value occurs. |
| `config_tool` | 6 items, one of each type; 66 bytes of flash memory in 2 blocks; 2 firmwares; 2 changes, 2 programmings, 2 workers | the three edits are one that needs the larger firmware, one with a pin command longer than the buffer and a string that fills the memory up, which fits with the smaller firmware only, and one that is out of range; two workers are what it takes to share the handle; a block is erased, written, skipped and left out. |

`config_tool` and `serial_receive` take one to two minutes, the other runs less.

## 5. Fairness

Fairness is stated for what the processor does, never for what the world may leave
out:

* the main loop runs (`WF` of its actions): it is a loop without an exit whose only
  wait is `usb_send_packet`, and `Returns` shows that this wait ends;
* an interrupt that is enabled and asked for is served (`WF`), an armed timer fires;
* in `UsbSend`, `SF(FrameInterrupt)`: the host sends a frame every millisecond on a bus that is
  not suspended, also to a device whose configuration comes and goes. On a suspended
  bus `usb_send_packet` waits for ever, as its only clock is the frame;
* in `AdbHost`, `WF` of the edges (a device that has begun to answer goes on) and `SF(Attended)`: a tablet
  that is asked again and again answers in the end. Without it `KeepsReporting`
  would be a property of the tablet. `AlwaysAnswered`, in the same run, holds without it;
* in `Protocol5Handshake`, `WF` of `Obey` and `Reply`: the tablet is there. That a
  delay is long enough for it (9 bytes at 9600 baud in 10 ms) is an assumption in `Delayed`;
* in `UsbUtil`, `WF(Waiting)` is what `Returns` shows of `UsbSend`;
* in `SerialTablets`, `WF` of the timer and of `processing`. Nothing is assumed of the tablet;
* in `ByteChannels`, `WF` of the main loop, of frames and resets, and of a host that collects the packets
  released to it, configures a device that it finds not to be, and ends a halt that it asked for;
* in `ConfigTool`, `WF` of each worker: a thread that can run runs. A native call returns by itself
  (its timeout is 3 seconds). Nothing is assumed of the user or the board.

Nothing is assumed of lost bytes, lost reports, restarts or bus resets. Where TLC
looks for deadlocks it finds none. Looking is off in five modules: in `SerialRx`,
`Protocol5Serial`, `SerialTablets` and `ByteChannels` the bound on bytes or packets ends the behaviour, and in
`Protocol5Handshake` firmware and tablet really fall silent when the tablet is not of a
supported model.

## 6. What is proved

The theorems hold for every value of the constants that satisfies the named
assumptions of the modules: any size of ring and index, any number of tools, any
length of packet, any endpoints, banks and timeouts, any period and radix, any
width of byte and word, any configurations, firmwares and workers.

| Theorem | Statement | Assumptions beyond the modules' |
|---|---|---|
| `SerialRxProofs!TypeCorrect` | `Spec => []TypeOK` | |
| `SerialRxProofs!ReadsInOrder` | `Spec => []FifoOrder`, which speaks of times before `late` | `SmallBacklog` |
| `SerialRxProofs!DropsNothing` | `Spec => []NoDrop`, likewise | `SmallBacklog` |
| `SerialRxProofs!IsAQueue` | `Spec => ImplementsQueue`, for any number of unread bytes | `SmallBacklog` |
| `AdbProofs!NeverStopsSending` | `Spec => []Armed` | |
| `AdbProofs!AnInterruptCanCome` | `Spec => []NeverDeaf` | |
| `AdbProofs!CalledBackOnce` | `HostSpec => []OneCallback` | `~Noisy` |
| `AdbProofs!RequestIsHeard` | `HostSpec => []HeardIsRequest` | `~Noisy` |
| `AdbProofs!AnswerIsRead` | `HostSpec => []DataIsAnswer` | `~Noisy` |
| `AdbProofs!KeepsTheDialogue` | `HostSpec => ImplementsSession` | `~Noisy` |
| `AdbProofs!EndStays` | `HostSpec => EndIsKept` | `~Noisy` |
| `Protocol5HandshakeProofs!BroughtBack` | `Spec => []At9600` | |
| `Protocol5HandshakeProofs!SpeedsAlwaysAgree` | `Spec => []SpeedsAgree` | |
| `Protocol5Proofs!TypeCorrect` | `Spec => []TypeOK` | |
| `Protocol5Proofs!PacketsStayApart` | `Spec => []OnePacket` | |
| `Protocol5Proofs!ReportsAreOfTheTool` | `Spec => []RightTool` | |
| `Protocol5Proofs!DriverKeepsUp` | `Spec => []KeepsUp` | |
| `Protocol5Proofs!DriverIsRight` | `Spec => ImplementsDriver` | |
| `Protocol5Proofs!ButtonsAreRight` | `ButtonSpec => ImplementsDriver` | |
| `SerialTabletsProofs!NeverTurnedOver` | `Spec => NotTurnedOver` | |
| `SerialTabletsProofs!DriverKnows` | `Spec => []KeepsUp` | |
| `SerialTabletsProofs!PositionTracks` | `compute_position` stays within the area and is monotone | a position not below the minimum |
| `SerialTabletsProofs!PenTracks` | `Spec => Tracks` | every setup's areas follow one another, and its tablet reports within its limits |
| `UsbProofs!TypeCorrect` | `Spec => []TypeOK` | |
| `UsbProofs!SendsThroughPipe` | `Spec => ImplementsPipe` | |
| `UsbProofs!UtilTypeCorrect` | `UtilSpec => []UtilTypeOK` | |
| `UsbProofs!RepeatsWhenIdle` | `UtilSpec => IdleBeforeFill` | |
| `UsbProofs!ReportsNotTooEarly` | `UtilSpec => ReportsApart` | |
| `ByteChannelsProofs!BytesInOrder` | `Spec => ToHost!BInOrder /\ ToLine!BInOrder`, the safety half of `ImplementsStreams` | |
| `ConfigToolProofs!FirmwareIsSupported` | `Spec => []FirmwareSupports` | |
| `ConfigToolProofs!FlashHoldsPromise` | while success stands, flash memory holds the job's image | |
| `ConfigToolProofs!StartedFromFlash` | a board outside its boot loader started with what its flash memory holds | |
| `ConfigToolProofs!HexRoundTrip` | `GenerateIntelHex(img)` fails exactly if the last byte of the memory is defined; if not, `LoadIntelHex` accepts its lines and holds each byte that `img` defines | |
| `ConfigToolProofs!PinsAreAsWritten` | `Spec => []PinsAsWritten` | |
| `ConfigToolProofs!ReloadingKeeps` | `Spec => ReloadKeeps` | |
| `ConfigToolProofs!SuccessIsConfigured` | `Spec => []SuccessMeansConfigured` | |
| `ConfigToolProofs!SuccessStarts` | `Spec => []SuccessMeansStarts` | |

`SmallBacklog` is about the constant `SafeBacklog` alone, the unread bytes up to which no half-stored head misleads the interrupt, see below. `~Noisy` is a
line that carries only what host and device send; what holds on any other line is
`Armed` and `NeverDeaf`. The modules' own assumptions are what the code's constants
satisfy, and TLC evaluates them in the runs. Those that are more than the type of a constant: each request of the
dialogue is one that the codec may be asked for (`DialogAssumption`); a byte has 8 bits at least and a packet 5 bytes
(`WidthAssumption`); bit 6 of an old UltraPad's report is 1 (`UltraPadAssumption`; those are the reports of 5 bytes, `waxbee/adb_controller.cpp:750`); the generic
tools are a pen and an eraser, and the puck is neither (`ToolAssumption`, `PuckAssumption`); the flash memory is
a whole number of blocks (`SizeAssumption`); a firmware has a size (`SpanAssumption`); there are at most 63 items, as
an index is a byte (`ItemAssumption`; the code has a `#if EXTDATA_COUNT > 63` of its own, `waxbee/extdata.h:42`), and the value
of a string that was never set is no number (`NullAssumption`); the tool's memory has at most 64 KB (`ImageAssumption`);
the placeholder is odd (`TokenAssumption`), while tables begin at even addresses; templates, edits and hex files are made of lines, bytes and
numbers (`InputAssumption`). `FirmwareAssumption` is about what the tool is delivered with: the firmwares are built for a
little-endian processor, with the placeholder that `extdataroot` is initialised to in their image, and two of them
differ somewhere in more than the table's address, so that at most one is on the board.

**SerialRx.** `FifoOrder` speaks of the byte in the main loop's hand only, and is not
inductive. `IInv` has two parts. `RingInv` holds however late the main loop is: `MainAt` says which values the
head can show at each step (in `inc2`, say, the old value, the new one, or one of the two mixtures) and that a byte
that is about to be fetched is there. `Kept` holds until it is late, and adds `Contents`: the bytes not taken
lie from `Slot` to the tail, in order, around the end of the ring. The core is `RoomForOne`: while less than `SafeBacklog`
bytes are unread, the slot after the tail is never a value the head can show. That is where `SmallBacklog`
is needed. With the code's 800 and 256 it means at most 30 unread bytes (a main loop that is at most 8 ms late at
38,400 baud); beyond it a torn head can be taken for the slot after the tail, or hide that the buffer is full.
`IsAQueue` needs `RingInv` only: each step of the interrupt stores, refuses or overruns, and `OneWayRound` says what the
indices make of the queue's contents when one of them passes the end of the ring.

**AdbCodec, AdbHost.** `Armed` and `NeverDeaf` need one fact more, `Listens`: a codec that waits
for a device has the capture interrupt on. On a clean line `CleanInv` relates three
things bit by bit: what the device has `heard` to the packet and to the half of a bit that is being sent (`Talking`); what
is left of the device's pulses to its answer, and the bits decoded to the same answer (`Listening`); and, after the callback,
both as a whole (`Done`). `Flat(i)` is where byte `i` begins in a row of bits, and the lemmas on it are what an
arbitrary width costs. The stretch between a callback and the next transfer, where the main loop reads the packet while
interrupts might come, is `Rest`: both are off. For the session, `Posted` adds that the packet is still
the request (but for what was answered), `Served` that the client goes on only after a callback, `Quiet` that
nothing is answered before the command is sent whole; so every step of the controller that sends, advances or reports
finds the request obeyed. `EndIsKept` needs that the latch agrees with the last pen event (`ToolInv`).

**Protocol5Handshake.** A speed that the tablet was told, a command in the line and the stage of the
firmware must fit together. The inductive invariant has one conjunct per stage (`ReachInv`, `RestoreInv`, `ResetInv`,
`AskInv`, `ChangeInv`, `PacketInv`), each saying what the commands still under way can be and what the last
of them leaves behind: while the firmware restores, the last one under way brings a tablet in reach to 9600
baud, and one that is not there cannot get to the speed configured, either. That tablet is `Lost`: it obeys nothing, and
what the firmware hears of it never begins an answer, so that no packet is taken from it. While the
firmware changes speed, the tablet is either still at 9600 with the command that tells the speed behind the
questions, or already there. The letters that the parser compares are the tablet's own, as `Chatter`
holds none of them, so a supported answer comes from a supported tablet.

**WacomUsb, ButtonPen.** `Protocol5Proofs` first proves what each operation does to the driver,
for the modules above it. `DriverInv` adds to the types that, unless a report
was lost, `currentlyInRange` is true exactly when the driver knows of a tool. With it, each
operation is a step of `HostTool`, those of a special operation included (`ButtonsAreRight`, which no run checks).

**Protocol5Serial.** For `HostTool`, the buffer must start with a header if it holds
anything (`Headed`), since an event made of a body byte would have no type. `OnePacket` is about the numbers of the packets
that the bytes in the buffer come from. It is inductive with `Whole`: an undamaged
buffer is as long as what was sent of the packet, and one whose bytes are all of one packet holds this one's, or the
last one's if nothing was sent of this one. `RightTool` and `KeepsUp` speak of the driver, four steps from the
tablet. `ToolInv` follows the tool all the way: `Says` (the packet tells of the tool on the
tablet), `InSync` (in trusted times the buffer is the packet as far as it was sent, or skips the rest of one that
says that there is no tool), `Known` (the parser's event is of that tool, and so is the driver's idea, once
the introducing packet is through), `LastReport`. An eraser that follows a mouse (section 7) is why `Known` says
nothing of `is_mouse` for erasers, and why `RightTool` leaves the kind of an eraser's reports open.

**SerialTablets.** `NotTurnedOver` relates the driver's idea to the parser's latch:
unless a report was lost, a pen's end that the driver takes to be near is the one that `eraser_mode`
holds while `in_proximity`, and for protocol V `currentlyInRange` agrees. `EventTells` says what an event does to
the driver with any USB protocol, `ActKeeps` that the latch changes only where the tool left or came. It does not
matter what the packet was read as, so lost bytes need no case of their own. `KeepsUp` does depend on it: `Sync` says that
in trusted times the parser is asking, within the packet that the tablet is sending, or behind it, and `Coming` that
before the packet is through the parser either knows the tool already or is about to be told of one that is `EndOf`'s end, which is
the eraser's also when the second switch made it so (`fooled`).

**PenTransform.** `PositionTracks` follows from three facts on quotients: `n * s \div m` is at most `s` when
`n` is at most `m`, 0 when `n` is 0, and grows with `n`. So the result never wraps, although the module's
words do. With anchors the area falls in three (`Below`, between, `Above`), each of which it holds of, and which follow one
another if `Calibrated`; the pressure is a fourth. `Tracks` then is about the transform alone: what was reported last was made
of the last event.

**UsbSend.** `TypeOK` is inductive. Each step is then mapped to a step of `UsbPipe`
or a stutter; the case that matters is `TryAgain`, where the endpoint is what the
call asked for only because the try selects it anew.

**UsbUtil.** Two conservation laws. `FillerInv`: what the filler's countdown has left and the
ticks since the last packet are together at least `IdleTicks`; a tick moves one from the first to the
second, and only a packet, which starts both over, breaks the sum. `ReportInv` says the same of the
period, the 16-bit countdown and the ticks since the last report, up to one wrong upper half: at each `pc`
of the main loop it gives the value that the halves in memory and in the register stand for. The lemmas on
halves (`Hi`, `Lo`) say what a value is after one half was replaced before and after a tick: the
store that a tick falls into may lose `Radix` ticks once, and the test is not torn because it is made of
one load.

**ByteChannels.** In each direction a stream of bytes is cut into packets. `Joins` says so of a sequence and its
pieces, by the places of the cuts (`Cuts`) and not by a fold, which would need induction: a byte put into
the bank, a bank released, a packet collected, dropped or polled byte by byte each move one or
two cuts, and the `Joins...` lemmas say which. (That a run of empty packets has its ends in one place
would take induction too, so `Void` states it.) `HostInv`: what was accepted and not heard yet is the packets under way
without their fill, and behind them the bank. `LineInv`: what the host gave and the line did not send is the byte in
the bridge's hand, and behind it the packets in the endpoint. A try of `putchar` that comes after an
interrupt finds both as its last try left them or as a reset cut them, so no step but a reset loses a
byte, and that one loses from a cut on.

**ConfigTool.** Nothing stops the user from closing the dialog and programming again while the first worker still
runs, and both use one native handle. Why is the flash memory what the second one says? `OneActive`: a worker whose dialog is closed
is cancelled, and a cancelled one touches the handle only. `Progress` follows the active one block by
block: up to `at` the flash memory holds its image and is erased where the image has
nothing, and `BlocksLeft` says that when no block is left that is so up to the end. The blocks are skipped by
`Min`, so this rests on the least number of a set (`Least`). `promise` is then `Kept`: `Sent` names the two ways to the board, the dialog's
own and the Teensy Loader's over a file. `FirmwareSupports` needs that the firmware selected supports the configuration *in each
of three places*: in the window, in the job a worker was given, and in the promise; editing changes the first only. `StartedFromFlash` says that
nothing in the firmware's start comes from anywhere but the flash memory: writing halts the board.

What is *in* the flash memory is the second half. `DataInv`, inductive under the first invariant, says what the data
are: the configuration in use has values of its items' types, a file is one that was generated from it or that it was read from, and
the jobs and the promise carry configurations and firmwares of the same kind. The algorithms are then taken bottom up:
`RunMeans` (by `GpioInv`: the command buffer after `n` characters holds what follows the last comma, and has done what the commands before it
mean) gives `PinsAreAsWritten`; the loop over the lines of a hex file gives `HexRoundTrip`; `FileBack` (the
parser after `n` lines has set the items of those lines, to what they were) gives `ReloadingKeeps`. `EncodingIs` shows
that the chunks lie one behind the other and behind the table, whatever lengths they have, so that the pieces
that are put into the image do not overlap but for the placeholder, and `LaidOut` is what the image then holds. Through
`Kept` and, over a file, `HexRoundTrip`, the flash memory holds it too (`Fulfilled`), and an accessor that
follows the address and the entry finds what was put there (`ConfiguredRead`): `SuccessIsConfigured`. For `SuccessStarts` the
firmware that the board starts must be the job's, the only one that is `Intact`, its table is not the placeholder,
being at an even address, and its string for the pins is the one in the editor.

The theorems of the library that would do the induction take operators as parameters. `Least`, `InductTo` and
`Recursion` do without: a set of numbers that is not empty has a least element, so a statement about 0 to `n` is proved as a *set* that contains
0 and with each number the next, and a recursive function is what its steps say. `Sorted` is likewise
determined by the numbers of elements up to each.

**Only model-checked.**

* Liveness (`EverythingRead`, `AlwaysAnswered`, `KeepsReporting`, `Connects`, `Returns`, `IdleIsFilled`, `PlaybackEnds`,
  `SpeedFollows`, `CancelledEnds`): the prover handles neither fairness nor `ENABLED`.
* `ImplementsStreams` as far as it says that every byte comes out in the end: the abstract specification states
  fairness there. Its safety half is `BytesInOrder`.

Every invariant and every action property that a passing run checks is a theorem as well; `OneCallback` and the like
hold without noise only, and `ImplementsStreams` is a theorem in its safety half. No module has a recursive operator.

## 7. What was found

Two disagreements between the code and what its comments say have a run
whose counterexample shows it:

* `adb_hang`: "When finished, callbackfct(uint8_t errorCode) will be called"
  (`waxbee/adb_codec.cpp:21`). When an answer falls silent within its start bit, the timeout
  finds `start_in`, which its switch does not list; the default goes to `idle`
  without a callback, and the timer stays off. The controller waits until the line
  produces another edge.
* `button_pen`: "set stylus (pen) in proximity" (`waxbee/intuos2_button.cpp:60`), "pen pressing down button" (line 73). The
  events of the pen that plays a button meet the gate which the button has just closed (`waxbee/wacom_usb.cpp:829`): the
  driver is told that the tool on the tablet left, and never sees that pen. So far nothing plays a button, as the loop of
  `pen_button_handler` is never entered.

Others hold on every path, or follow from a line that is missing, so that no run is needed to see them:

* "UsbUtil::init() needs to be called at startup" (`waxbee/usb_util.cpp:20`), and no code calls it: the
  dummies of an Intuos5 are never sent. The run starts with and without the call; nothing is claimed of when a dummy must be
  sent, and what `ReportsApart` says of two dummy reports only matters once somebody calls `init`.
* "will repeat that packet" (`waxbee/usb_util.cpp:61`), but `repeat_size` is never assigned, and an empty packet is
  sent (`waxbee/usb_util.cpp:122`).
* "0=pen, 1=mouse" (`waxbee/pen_event.h:29`), but the eraser's case (`waxbee/protocol5_serial.cpp:377`) is the only
  one that leaves `is_mouse` alone: an eraser that follows a mouse is reported on as a mouse.
* `Touch::init` is never called (`waxbee/touch_event.cpp:17`).
* "only if autoselect checked..." (`WaxBeeConfig/src/org/waxbee/MainApplication.java:524`), but nothing looks; "Numeric values
  can be expressed as base-10 (decimal) or base-16 (hexadecimal)" (`WaxBeeConfig/src/org/waxbee/teensy/extdata/ConfigFileWriter.java:141`),
  but the parser's `Integer.parseInt` rejects the latter.

Observed while modelling the firmware:

* with 30 unread bytes or more, an interrupt that falls between the halves of a store of the head, or before the head that
  reached 800 is wrapped, may take the buffer for full and drop a byte, or take a full buffer for one with room: with it
  the buffer looks empty, and all 800 unread bytes are gone (`RxQueue`'s `Refuse` and `Overrun`);
* on a noisy line the codec may call back twice in one transfer; the client survives
  it by asking again;
* a handshake whose `~`, `#` or `\r` is lost is never repeated, nor is the query of an ISDV4 tablet; firmware restarted
  with another configured speed than the tablet was left at (and not left at 9600 baud) never finds the tablet: "if not already, we
  should now be at 9600 baud at this point" (`waxbee/protocol5_serial.cpp:70`) does not hold of it. `enableFeatures` of
  protocol IV tells every tablet 19200 baud, whatever is configured;
* a pen that comes in with its second switch pressed is an eraser until it leaves, with protocol IV and ISDV4;
* a puck is introduced as a pen over Bamboo and protocol V;
* a value below the configured minimum wraps instead of being cropped; the position is divided by the maximum and not by
  the span, so that the cursor jumps at the end of an area whose minimum is not 0;
* a delay of 0 seconds in the playback becomes one of 256, and one packet behind the end of the data is played. With
  protocol IV or a Bamboo the first event of `main` is taken for a pen that leaves, and triggers it at once;
* SET_FEATURE refuses a halt with the endpoint itself selected (`waxbee/usb.cpp:488`), and so halts it all
  the same; a bus reset that falls into the last lines of the frame interrupt is lost.
  `usb_send_packet` keeps its promise in spite of both;
* in the bridge, a byte sent right after a change of speed may still go out at the old one, and the two-byte USART overruns
  while `putchar` waits (up to 25 frames); SET_CONFIGURATION of waxbee does not reset `debug_flush_timer`;
* the ninth character of a pin command is stored behind its buffer before the error is noticed
  (`waxbee/gpioinit.cpp:185`); after an error all commands before it are executed a second time only for
  the messages, and not done again.

Observed while modelling the configuration tool:

* strings for the pins, and strings with a double quote, are not read back from a file; a USB string that was never
  set comes back as an empty one; a comment on the first line of binary data swallows that line; `CONFIG_VERSION` is
  not written;
* the editor limits no text, and the firmware takes lengths for bytes (`waxbee/extdata.c:89`): of 256 characters or more
  it sees the remainder. The run has no room for such a text; it was the proof of `SuccessMeansConfigured` that asked for `Short`;
* a configuration that no firmware supports is not saved: the message about the firmware comes first, or, when it requires
  nothing at all, an exception (`WaxBeeConfig/src/org/waxbee/MainApplication.java:531`);
* a pin command for a bit above 7 (`B9+`) is a good command that drives nothing, as the mask is shifted out of its byte
  (`waxbee/gpioinit.cpp:88`);
* a file is truncated before it is written, so an error in between loses it; a wrong value in the raw
  editor leaves the fields before it saved;
* an image that defines the last byte of the memory cannot be written to a hex file (`WaxBeeConfig/src/org/waxbee/teensy/FirmwareImage.java:359`):
  the loop reads the mask behind its end and throws;
* programming that is interrupted leaves erased bytes for the table, and the firmware blinks its error; a firmware beyond
  the size of the flash memory is cut off without a word.

## 8. What is not modelled

* Tilt, rotation, wheels and the bytes of the reports: layout that no property here depends on.
* The waits of `sendByte` and inside the setup interrupts (assumed to end), descriptors, and the dialogue on endpoint 0.
  Of the bridge, also what its `main` does not call (`write`, `putchar_nowait`, `flush_output`, `available`, `set_control`).
* The console's formatting of numbers.
* In the handshake, losing the bytes that frame an answer: see section 7.
* The byte behind the buffer of `gpioinit`, as nothing tells what lies there.
* Unreachable code: `restartAdbTransaction`, `pen_button_handler`, touch.
* Whether the compiler caches `adbTransactionPending`, which is not volatile: the function that polls it is called anew on
  each turn of the loop.
* Clocks and the LED; the error blinks are a mode of the board.
* The characters of files and forms: the parser and the editor work on tokens here, as far as the round trip
  of a file and the values left in the configuration tell them apart.
* Windows and the layout of forms of the tool, the USB calls below `teensy.c`'s `open`, `write` and `close`, and `rawhidlib`, which
  only prints what the debug channel sends.
* The generator's source text (`GenerateSource.java`, with a vendored JSON library); of its template, only what
  `ConfigTemplate.create` makes of it.
* The sniffer, a separate sketch that prints what it hears and from which the codec was derived.

## 9. Plan

In the order of what the system depends on:

1. `SerialRx`, `RxQueue`: every serial tablet relies on it. *Done, with proofs of all its safety properties.*
2. `AdbCodec`, `AdbHost`, `AdbSession`: the most intricate concurrency. *Done, with proofs of all their safety properties.*
3. `Protocol5Handshake`, `Protocol5Serial`, `WacomUsb`, `HostTool`, `ButtonPen`. *Done, with proofs of all their safety properties.*
4. `UsbSend`, `UsbPipe`, `UsbUtil`. *Done, with proofs of all their safety properties.*
5. `PenReports`, `PenTransform`, `DebugProc`, `SerialTablets`: the other serial tablets, down to the driver. *Done,
   with proofs of all their safety properties.*
6. `UsbChannel`, `SerialBridge`, `ByteChannels`, `ByteStream`. *Done, with a proof that bytes stay in order.*
7. `FirmwareImage`, `ConfigFile`, `ExtData`, `GpioInit`, `ConfigTool`. *Done, with proofs of all their
   safety properties.*
8. Composition: `Protocol5Serial` and `SerialTablets` over `RxQueue` in place of their own lines, so that
   what `SerialRx` promises is exactly what the parsers assume. *Open.*
