# Verification of the PIC18F14K50 USB programmer for PIC32

The repository holds the firmware of a USB adapter (`src/Firmware`, for a PIC18F14K50)
and a program for the PC, pic32prog (`src/Software/Pic32prog`), which together program
PIC32 microcontrollers over four-wire JTAG or two-wire ICSP.  This directory holds TLA+
models of both sides, the TLC runs that check them, and proofs that TLAPS checks.

Paths below are relative to `src/`; `FW` is `Firmware`, `PC` is `Software/Pic32prog`.

## Inventory

| Component | State it keeps | Operations | Model |
|---|---|---|---|
| Command loop, `FW/main.c` | USBInput, USBOutput, USBInHandle, USBOutHandle, needReply | processUsbCommands, USBCBInitEP, suspend | `UsbLink` |
| HID transport, `PC/adapter-usbpic.c`, `PC/hidapi/hid-windows.c` | the file handle, its queue of reports, the write or read in progress | hid_open, hid_write, hid_read, signal handler, quit | `UsbLink` |
| hidapi with a reader thread, `PC/hidapi/hid-libusb.c`, `hid-mac.c` | the list of reports, shutdown_thread, disconnected, the transfer, the run loop, two barriers | hid_open_path, read_thread and its callbacks, hid_read_timeout, hid_close | `HidQueue` |
| Pseudo operations, `FW/pic32prog.c`; `bitbang_send` | none; the target's port has some | SetMode, SendCommand, XferData, XferFastData | `JtagTap`, `JtagPort` |
| Adapter commands, `FW/pic32prog.c`, `FW/HardwareProfile.h` | `_wireMode`, `_inPgmMode`, pin directions and latches | the cases of the switch | `Device` |
| usbpic driver, `PC/adapter-usbpic.c` | pgm_mode_active, pgm_port_setup, serial_execution_mode | open, close, get_idcode, read_word, load_executive, program_row, program_word, verify_data, read_data, erase_chip | `Drivers`, `Session` |
| PICkit driver, `PC/adapter-pickit2.c` | serial_execution_mode; the adapter's download and upload buffers | the same | `Drivers`, `Session` |
| Serial adapter, `PC/adapter-bitbang.c` | serial_execution_mode; window of characters | the same | `Drivers`, `Session` |
| Target layer and program, `PC/target.c`, `PC/pic32prog.c` | target, image, dirty bits, used flags, block loops | do_probe, do_erase, do_program, do_read, quit, interrupted | `Programmer`, `Session` |
| Files, `PC/pic32prog.c` | flash_data, boot_data, used flags, total_bytes | read_srec, read_hex, store_data, do_read | `Files` |
| FT2232 adapter, families, executives, descriptors, localisation, hidapi's test programs | see *Not modelled* | | none |

How they interact: an operation of a driver sends a packet, waits for a reply if the
command has one, and the adapter performs the command on its pins.  The program calls the
driver's operations in the order of do_program and its siblings.  `atexit`, the signal
handler and error exits all end in `quit`, which closes the driver.  `target_open` tries one
driver after the other; which of them answers depends on what is plugged in.

Hard behaviours: two buffers shared between firmware and USB hardware; a signal handler
that is a second thread; a reader thread, callbacks and a close that cancel the same
transfer; a process killed between a packet and its reply; an adapter and a target that
keep their state from one process to the next; an error exit from inside any operation; a
chip that is partly programmed when a run dies; a file that is read twice.  `PROJECT.json`
lists the hazards line by line.

What makes each component correct:

- *link*: a reply belongs to the packet it is taken for; a reply is not changed while it is
  sent; each packet is executed once and in order; reads return.
- *report list*: reports come out in order, none twice; reads and closes return; a read
  that failed is final; nothing is freed that is in use.
- *pseudo operations*: from any state the reset pattern brings the port in step; then
  instructions and data arrive whole, first bit first.
- *session*: instructions and data reach the register, controller and processor they are
  meant for; the loader stays in step; a close releases the target whatever happened before.
- *programmer*: success means the chip holds the image; nothing is programmed on cells that
  are not blank; the configuration comes last; every run ends.
- *files*: an accepted image is what its file says, as far as the file says it; do_read
  writes its range and ends.

## Modules

- **`Rpc`** – abstract: a caller posts numbered commands, the device performs each once in
  order, a reply answers the last command posted.
- **`UsbLink`** – both ends of the link and the bus between them.  `host` is where the main
  thread is; `closing` and `stage` are, for each of the two threads that can run
  usbpic_close, the command it is at and how far its hid_write is; `writer` is the
  WriteFile in progress and `incoming` the report queue of the handle; `outOwner` and
  `inOwner` are the UOWN bits behind HIDRxHandleBusy and HIDTxHandleBusy; `fw` is the place
  in processUsbCommands, whose body is cut where it touches what is shared: `Receive` (test
  and clear), `Execute` (the switch), `Rearm`, `FillReply`, `Transmit`.
- **`ReportQueue`** – abstract: a queue that drops its oldest entry when it is full, with
  numbered reports.
- **`HidQueue`** – one handle of either back end.  `at` is where the client and the reader
  thread are; whatever runs with `dev->mutex` held is one step, and each access without it
  is a step of its own.  `transfer` is what libusb does with `dev->transfer` and `callback`
  the thread that read_callback runs in, which may be the client inside hid_write;
  `hooked`, `stop` and `disconnected` belong to hid-mac.c.
- **`JtagTap`** – the pseudo operations as functions that yield sequences of (TMS, TDI)
  pairs, and the IEEE 1149.1 port that takes them (external to the repository).
- **`TapPort`** – abstract: a port that, once in step, takes whole instructions and words.
- **`JtagPort`** – any sequence of pseudo operations on the port, from any of its states.
- **`Device`** – each command as an operator from a device record (wiring mode, driven
  pins, reset lines, supply, port, processor, protection, buffers) to a device, or to a set
  where a reply of the target decides.  The target's processor and the PICkit's firmware
  are external.  `Loads` is pic32_pe_loader, the program `executive.c` gives to the target.
- **`Drivers`** – what every operation of the three drivers sends, as a script: a sequence
  of commands, of packets of script steps, and of looks at a reply; and `Effect`, which
  applies one command to a device.
- **`Session`** – runs the scripts: a plan of stages for each job, and one action for each
  way the program goes on: `Perform`, `Proceed`, `Poll`, `Fail`, `Abort`, `Finish`, `Kill`.
  A command is one step of it; `UsbLink`'s implementation of `Rpc` is the reason that is
  sound without faults.
- **`Programmer`** – do_program and do_erase block by block over a chip of cells.  A block
  of memory is one cell, and each configuration word is one.  Reads of the target's memory
  by CRC are taken for equal exactly when the cells are.
- **`Files`** – read_srec and read_hex, a line a step, on a file that is chosen as it is
  read and stays as it is when the second reader starts it again; store_data with its four
  windows; and the loop of do_read in the arithmetic of unsigned integers.  An S record
  carries how many of its bytes the line lacks, and for those what buf happened to hold; a
  HEX record with more bytes than `data` has room for comes out whole or leads `Astray`.
- **`MCJtagPort`** – the instructions and words that `JtagPort` is checked with.
- **`UsbLinkProofs`**, **`HidQueueProofs`**, **`ProgrammerProofs`**, **`FilesProofs`**,
  **`JtagTapProofs`**, **`JtagPortProofs`**, **`DeviceProofs`** (of `Device` and
  `Drivers`), **`SessionProofs`** – theorems.

Operators whose comment says *mutant of* are not used by any specification.  Each is a
plausible bug of the operator named, kept to show that the properties notice it.

### Abstractions

- A packet is a command and a number; a reply its first byte, last byte and the packet its
  contents answer.  The number stands for all the other bytes.
- Every reply but one is put to the test `buf[0] != 1 && buf[63] != cmd`;
  SerialExecutionMode's looks at `buf[1]`, which belongs to the contents and so may be 1.
- `free(target)`, `target = 0` and the exit that follows are one step, `Closed`; a second
  thread that runs in between is not modelled.
- The time of pins, delays, messages and progress bars are left out.
- The values of words in a `Session` are left out, but for those `Device` names (`JUMP`,
  `STOP`, zero, counts): whether a reply is the one wanted is a choice, limited by
  `Answered`: only the register scanned last, or a running executive, can have given it.
  A wait for the processor is one poll, however many it takes; the later polls of
  WaitETAP_Ready send other bits, see *Findings*.
- The run of `Session` wires the target to one connector; on a board wired to both, a
  two-wire session after a killed four-wire one holds the target in reset
  (`FW/HardwareProfile.h:101` clears the wrong reset line), and `Debuggable` and
  `ClosedClean` fail.  In four-wire mode the status byte of SerialExecutionMode is
  uninitialised (`FW/pic32prog.c:290`); for a protected target the model takes either branch.
- A row, or the executive, is a handful of words, not hundreds: their number is a constant
  of the scripts, different for the families, and not a multiple of a packet.
- In `HidQueue` a report is its number, libusb and the run loop are modelled from how they
  are called, and hid_write is a window in which the client runs callbacks.
- In `UsbLink` the adapter stays plugged in: hid_write and hid_read do not fail.  In the
  code (`PC/adapter-usbpic.c:272-284` and its copies) a failed write prints a message and
  goes on to the read; "Timed out" cannot come from a read without a time limit, and a
  failed read returns -1, which passes the test for 0, so that the request's own bytes are
  looked at as a reply, which ends the program unless the last byte, never set, happens to
  be the command.
- In `Files` a line is what one fgets delivers, as the record that HEX makes of its
  characters, of which only those in front of the data are tested to be digits.  One that is
  longer than buf comes as two, the first of them cut off.  What an S record lacks is made of
  the end of the line, of what an earlier line left in buf, of what was never set, or of
  what lies behind buf: any bytes, and any address when the line ends within that.  They are
  chosen with the line.
- A HEX record of 17 to 122 bytes overruns `data` of read_hex (`PC/pic32prog.c:203,250`).
  Which bytes it hits is up to the compiler.  Where buf lies behind `data` they are
  characters that have been read already, since a byte is written no sooner than its two
  digits, and the digits to come lie farther on; so the record comes out whole.  gcc 12 for
  x86-64 lays them out like that at -O0, -O (the flag of `make-cygwin`), -O2 and -Os, with
  and without a stack protector.  Anywhere else the process dies, or goes on with variables
  that are not its own: outcome `astray`, which is not followed.

## Runs

| Run | Shows | Bounds |
|---|---|---|
| `UsbLink` | without faults: type, replies match, echo, at most one reply, intact buffers, refinement of `Rpc` with its liveness | 5 packets, 2 sessions, all kinds of command |
| `UsbLinkSignal` | reads return; the close script completes when the handler interrupts the main thread anywhere | 4 packets and those of the close, 1 session |
| `UsbLinkKill` | stale replies stay at most four, which is reached; nothing is executed twice | 4 packets, 4 sessions |
| `HidQueue` | both back ends implement `ReportQueue`; reads and closes return; failures are final; the run loop is there when it is woken; no deadlock | list of 3, 6 reports a handle, any number of handles, all faults |
| `JtagPort` | resynchronisation and the abstract port | the instructions the program sends, four pieces of data (`MCJtagPort`); any sequence |
| `Session` | scans fit their registers, only EnterPgmMode misses instructions, instructions find a debugged processor, the executive is alive, the loader in step, buffers fit, close leaves everything released | any number of sessions, 2 blocks, 3 polls; three adapters, both modes, connectors, families and supplies, protected or not, kills |
| `Programmer` | success, order of writes, blank cells ahead, no null call, termination | 2 runs, 2 flash and 2 boot blocks, 2 configuration words |
| `Files` | an accepted image is its file's meaning but for the bytes its lines lack, in records of any length that do not lead astray; do_read covers its range and ends | S records of up to 2 bytes of which any number is missing, HEX records of up to 3 bytes with room for 2, 3 lines, bytes of 2 values, 16 addresses, all ranges |
| `UsbLinkEcho`, `HidQueueFree`, `SessionPorts`, `ProgrammerVerify` | disagreements between the code and its comments, see *Findings* | small |

Why the bounds are enough.  In `UsbLink` a packet is told from others only by its number
and the buffers hold one packet each; five packets allow an operation of each kind, a close
and a next session.  Four sessions are what the backlog needs: with fewer the bound of four
is not reached, and `BacklogBounded` proves it for any number.  `HidQueue` keeps `Limit` + 2
reports (see *Findings*); six of them fill its list twice.  In `Session` everything a
session leaves to the next is in `dev`, and TLC reaches every state it can leave.  Two
blocks make a first and a later repetition; `MaxPolls` is 100 in the code and only counts.
In `Programmer` blocks are independent but for the configuration's, so two of each, with
that block first or last, for either family, cover the cases; `ConfigWords` is 4 in the code
and 2 in the runs, a first and a last word; two runs let a run meet what another left.  In
`Files` the four windows lie apart with gaps between them, and HEX records begin before, at
and in windows of either memory and run on past their ends, through all the upper halves.
S records begin at one address (`SrecAddresses`), where two of them, or one cut off and one
whole, overwrite each other; HEX records at a multiple of `Align` and next to it
(`HexAddresses`); `ImageRight` is for any addresses.  Three lines are what it takes to store,
give up and read again, or to set an upper address, store and overwrite; `blocksz` divides
the addresses as in the code.

`CHECK_DEADLOCK FALSE` is said where the system may stop: nobody is obliged to start
another session once `MaxSessions` or `MaxRuns` is reached, a firmware whose reply
nobody reads spins, and a program that has read its file is done.  `JtagPort` and `HidQueue`
are checked for deadlock.

### Fairness

`UsbLink!Fairness`: the main loop of the firmware runs for ever (`FW/main.c:200`); a
suspended bus stops it only before the test at line 277, so its steps are strongly fair.
The host controller retries what is pending (weak fairness of `SieOut`, `SieIn`, `InitEP`,
`Resume`).  A thread goes on when a system call returns (`Written`, `Read`), and the system
gives the handle to waiting threads in turn (strong fairness of `StartRead` and of
`Close`).  Requests, signals, kills and starts are not fair.

`HidQueue!Fairness`: both threads go on while they can, weakly.  libusb gives up a transfer
after the five seconds the code asks for and handle_events after sixty, so the libusb reader
goes on by itself (`LibusbReturn`); the run loop of hid-mac.c is not relied on to come back
before it is told to stop (`MacTimeout` and `MacFinished` are not fair).  Nobody has to
open, read, write or close, no wakeup is free, and a timed read need not time out.

`Programmer` assumes weak fairness of the running program, `Files` of do_read.  `Session`
states safety alone.

## Findings

1. `FW/main.c:443` reads the command again after the packet buffer was given back; a packet
   of the signal handler changes the last byte of the reply (`UsbLinkEcho`).
2. `PC/hidapi/hid-libusb.c:748`: the reader does not wait for a transfer that hid_close has
   cancelled before it, and the transfer is freed while libusb has it (`HidQueueFree`).
3. `PC/adapter-usbpic.c:902,919`: a rejected open leaves the pins driven (`SessionPorts`).
4. `PC/pic32prog.c:339`: verify-only skips a configuration whose block is otherwise blank
   (`ProgrammerVerify`).

More divergences are hazards, or remarks, without a run of their own:

- `PC/pic32prog.c:187`: read_srec stores as many bytes as an S record announces, whether its
  line holds them or not, and does not look at the sum; what the line lacks is made up, and
  the file is accepted.  read_hex refuses the same as "too short hex line" (line 239).
- `PC/pic32prog.c:250`: read_hex writes HEX records of more than 16 bytes past the end of
  `data`; records of 32 bytes are common.  See *Abstractions* for what becomes of them.
- `PC/adapter-usbpic.c:81` and its copies reject a reply only when both bytes are wrong;
  after a kill a stale reply is accepted.
- EnterPgmMode with four wires sends two instructions to a port in Test-Logic-Reset, which
  loses them (`FW/pic32prog.c:44`; `OnlyEntryMisses` names it as the one exception).
- SerialExecutionMode answers success with 0x80 where a comment promises 0
  (`FW/pic32prog.c:326`, `PC/adapter-usbpic.c:512`).
- XferData shifts its caller's data out of the caller's memory (`FW/pic32prog.c:214`).  Only
  the first poll of WaitETAP_Ready sends 0x0004C000; the others send zero.  GetMCHPStatus,
  GetDeviceId and GetPEResponse pass a value for an address, so the firmware sends, and
  clears, what lies at that address.
- `PC/hidapi/hid-libusb.c:672` and `hid-mac.c` count links and so keep 32 reports where the
  comment says 30.
- A wakeup that nobody sent lets one thread pass a barrier of hid-mac.c (`hid-mac.c:88`),
  which leaves it counting one too many; `RunLoopValid` says what still holds.
- A fatal error of libusb_handle_events ends the reader without shutdown_thread
  (`hid-libusb.c:737`): a blocked hid_read then sleeps for ever.
- `PC/adapter-bitbang.c:591` loads 0x3c04bf80 under a comment with another address.

## Proofs

`UsbLinkProofs` proves for every set of commands and all bounds:

- with any faults: `TypeCorrect` and `ExecutedOnce` (`NeverTwice`).  The invariant
  `InvOrder` says that `performed` is never ahead of the packet in USBInput, and is behind
  it while that packet waits to be executed.
- with any faults: `BacklogBounded` (`BoundedBacklog`).  The replies in flight alone are no
  invariant that a step keeps, since executing a packet adds one; `Owed` counts, besides those
  that wait on the PC, the packets that will lead to one, wherever they are.  `InvBacklog`
  says that while a process runs `Owed` is at most three and one more when it waits for its
  own (`Wanted`), and at most four when none runs; `BacklogStep` has a step per action.
- with no faults (`FaultFree`): `RepliesMatch`, `EchoCorrect`, `AtMostOneReply`,
  `ReplyStaysIntact` and `LinkIsRpc`.  All rest on `IInv`.  None of those properties is
  inductive: that the reply buffer is intact depends on the PC sending nothing while a
  reply is due, which depends on where the packet it sent is.  `IInv` follows one packet
  round the link: `InvBus` and `InvThread` say who can be writing; `InvOut` relates the
  packet sent, the buffer and the writer; `InvFw` says what the firmware knows of it;
  `InvReply` what a reply in the making holds; `InvServing` that while the firmware serves a
  packet nothing else is in flight; `InvIn` that what waits for the main thread is the reply
  to its request.  `InitIInv` and `IInvStep` make it inductive, one step per action.
- `LinkIsRpc` uses `IInv` to map `Request` and `CloseWrite` to `Post`, `Execute` to
  `Perform`, `Read` to `Answer`, and all else to stuttering.

`HidQueueProofs` proves, for either back end or both, any limit, any number of reports and
any faults: `TypeCorrect`, `QueueRefined` (initial states and steps of `HidQueue` are those
of `ReportQueue`, or stutters), `FailureFinal` (`FailedIsFinal`) and `RunLoopThere`
(`RunLoopValid`).  They rest on `IInvHolds`, whose parts are:

- `Counted`: no more reports are stored than the device has sent, and fewer while one waits
  in a completed transfer.
- `Consecutive`: the list holds the last reports in a row, all newer than the last one read.
- `Paired`: a handle has a reader exactly from hid_open to hid_close.
- `LibusbStarting`: the client does not leave the first barrier before its reader has
  submitted the transfer.
- `LibusbCalls`, `LibusbOver`: a callback runs in a thread that is inside the library; before
  hid_close the flag is up only when the transfer is over for good, and after a failed read
  the list is empty too, which is what `FailureFinal` needs.
- `MacStopping`: the second barrier of hid-mac.c counts the reader until the client comes.

`ProgrammerProofs` proves, for every number of blocks and configuration words, every image
and any number of runs, with or without rows the executive spoils: `TypeCorrect`,
`ImageProgrammed` (`Programmed`), `ImageVerified` (`Verified`), `NothingTwice`
(`AheadBlank`), `QuadWordUnused` (`NoQuadWord`) and `ConfigWrittenLast` (`ConfigLast`).  What
a successful run has left cannot be seen from its last state alone, so the module's own
`IInv` says how far the loops have come:

- `InvDirty`: the dirty bits name exactly the blocks that are not blank, and after the
  programming loops also the block of the configuration when the boot memory is used.
- `InvErased`, `InvFlash`, `InvBoot`, `InvConfig`: a cell behind its loop holds its value or,
  where it was spoiled, junk; every other is blank.  `InvConfig` knows both ways the
  configuration is written, with its block or word by word, downwards.
- `InvVerify`: what the verifying loops have passed and is dirty is equal.
- `InvImage`: an unused part is blank, and for family mz `Check` has made the block of the
  configuration count as dirty, from which `NoQuadWord` follows.

There is a lemma for each action (`...Keeps`), and three (`FlashWriteEffect`,
`BootWriteEffect`, `WordWriteEffect`) for what writing leaves alone.

`FilesProofs` proves, for every size of a byte, of the memories, of the records, of the room
in `data` and of the file, and wherever the windows lie, also over each other: `TypeCorrect`,
that nothing is stored outside of the memories, and `ImageRight` (`ImageIsMeaning`).  The
files are all files, those with S records cut off and HEX records that overrun `data`
included.  `ImageRight` leaves out two things, which the code does not promise either: a
byte for which the last record is an S record whose line ends before it (`Missing`: what such a
byte holds is made up), and a process that an overrun has led
astray, which does not come to accept.  All other bytes are right even beside such records.
What is accepted cannot be judged from the last line alone, so `IInv` relates the memory to
the lines read so far (`Meant`): each byte holds the last value that they, or what buf held
behind them, have for it, or 0xff.

- `InvSrec`: read_srec has stored what its lines mean and has met only S records.
- `InvHex`: so has read_hex, and `high` is the upper half the lines behind it set.  Unless it
  is doomed: read_srec stores records before it meets a line it does not know, and read_hex
  starts the file again without erasing them.  `Doomed` says that then an S record lies
  ahead with nothing but S records and empty lines in between, which makes read_hex fail
  before it can accept what was left behind; this is the reason the mixture never gets into
  an image.
- `MeansPut`, `UsesPut` and `MeansSkip` say what one more line does to the meaning, and
  `MeansValue` that the meaning of all lines that count is the value of `ImageIsMeaning`;
  `Accepted` joins them for either reader.  A largest element of a finite set of numbers
  comes from the well-foundedness of `<` (`LastOf`), without induction over the file.

It also proves, for every size of a block that divides the space of addresses, every range
and every flash and boot memory, that do_read has read all of its range when it ends
(`ReadRight`, for `ReadCovers`).  The loop counts modulo the addresses, so that "every
address behind the loop has been read" means nothing once it has wrapped; `ReadInv` speaks
of the rounds instead: the blocks read are those at a distance of a multiple of the block
from the start, the last of them is the one before `addr`, and no distance passes the range
(`Rounds`, `WrapLater`).  `Division` and `CoveringBlocks` carry it from blocks to addresses.

`JtagTapProofs` and `JtagPortProofs` are about the pseudo operations, for every port of the
diagram, whatever its shift registers hold, every instruction of five bits and data of any
length.

- `XferDataScans`, `XferFastDataScans`: data is one scan of the selected register, whole and
  first bit first, and the port is back in Run-Test/Idle.  `SendCommandInstructs`: an
  instruction comes into force, selects a controller when it is one of the two that do, and
  scans nothing.  `ResetSynchronises`, `EtapResetSynchronises`: from any of the sixteen
  states the patterns end in Test-Logic-Reset and in Run-Test/Idle.
- `BitbangResets`, `BitbangInstructs`, `BitbangTransfers`: bitbang_send does the same with
  the serial adapter's one operation.
- `AlwaysSynchronised` (`Synchronised`) and `ImplementsTapPort` (every step of `JtagPort` is
  one of `TapPort` or a stutter), from `Sound`, the type of a port.

The argument is an induction over the clocks of an operation, for which the prover needs no
schema: a set of counts that holds 0 and with each i also i + 1 is all of them (`UpTo`, from
the well-foundedness of `<`), and the recursive function behind `Clocked` is the only one
that does what its equation says (`RunExists`, `RunUnique`).  `ClockedCat` then cuts an
operation into the way in, the shifting and the way out; `ShiftData` is the induction over
the data, and the `Clocked...` lemmas say what one clock does to each part of the port.

`DeviceProofs` and `SessionProofs` are about what a session sends, for any adapters, jobs,
wirings, families and supplies, any number of blocks and polls, whatever an earlier session
left when it was killed.

- `CalmEffect`: the drivers' commands are of few kinds, and all but the ones of the entry
  are *calm*: given to a device whose port, as far as the adapter reaches it, waits in
  Run-Test/Idle, each leaves it there and misses no instruction, whatever the target
  answers.  That goes for one of `WaitPeResp`'s or `GetPEResponse`'s polls as for a PICkit
  packet of any length, and for each thing the serial adapter sends (`BitbangedWorks`).
- `ResetEffect`: a PICkit packet of *sparing* steps (pins, supply, buffers), a reset of the
  port, and calm steps brings the port in step from wherever it was and misses nothing.
- `SessionInvariant`, and from it `SessionTyped` (`TypeOK`) and `InstructionsArrive`
  (`OnlyEntryMisses`).
- `ClosesClean` (`ClosedClean`), on a target that is on one connector.
- `BuffersSuffice` (`BuffersFit`).

`OnlyEntryMisses` is not inductive, since it says nothing of the commands to come.  `IInv`
does: the stages to come are those of the job (`PlanFits`); the commands to come suit the
port (`TodoFits`): calm ones, or SerialExecutionMode in programming mode, only while it is
in step; before that, a script that resets it first (`Resets`), or what is left of
adapter_open_usbpic (`Opening`); after the close, scripts that spare the device; and an
instruction has been missed only by the EnterPgmMode that was the last command
(`MissedFits`).  The proof has three parts.  What a script sends, the loops over words,
packets and rows included, is calm or sparing (`UsbpicWork`, `PickitWork`, `BitbangWork`,
`SpareScripts`, `ResetScripts`).  What a command does to a device rests on `JtagTapProofs`
for the clocks of its operations; a packet leads to a set of devices, and `EffectPath` takes
it command by command, with the induction over counts described above.  And each action of
the session keeps `IInv` (`PerformFits`, `ProceedFits`, `PollFits`, `LeaveFits`, ...).

`ClosedClean` is a statement about the end of a session that has to be known from its
beginning: a close undoes something only to a target that it reaches, and usbpic_close only
what the program has noted to have done.  The inductive invariant `Closes` says so stage by
stage.  A session that gets past the entry reaches its target, since an answer, any answer,
has come from there (`UsbOpening`, `PickitOpening`: the commands before the first answer may
find no target at all, but then no register has been scanned when the program looks); the
commands of the stages after that leave the pins alone and do not have the MTAP hold the
processor (`WorkEffect`; pic32_serial_execution's packet does for a while, and lets go of it
before it ends, `ReleasingEffect`); and each script that closes takes the port to reset, then
the processor to reset or the target off its power, and only then lets go of the pins
(`UsbClosing`, `PickitClosing`, `BitbangClosing`, over `ExitEffect`, `SetupOffEffect`,
`FinishEffect`, `SupplyOffEffect`, `ReleaseEffect`, `SupplyEffect`).  The theorem assumes that
no wiring has two connectors.  Without that it is false, as TLC shows: after a killed
four-wire session Init_ICSP of the next one clears MCLR instead of its own reset line
(`FW/HardwareProfile.h:101`), and a target wired to both stays in reset when that one closes.

`BuffersFit` depends on scripts that were sent before: pickit_recv reads what an earlier
packet has left, and a row is downloaded in parts that later packets use up.  The inductive
invariant `BuffersHold` compares the buffers with the commands to come.  A *filling* is a
number of words, a bound on the bytes, and whether the bytes are exactly so many; `Turn` says
what a command needs of a filling and makes of it, from the words and bytes its steps count
(`Counts`), and `Chain` that the commands of a list lead from one filling to another.  There
is one that the buffers hold and from which the commands to come lead on (`Following`).  The
proof has again three parts.  A command that suits the filling leaves the device with the
next one (`PacketHolds`, in `DeviceProofs`, by induction over the steps of the packet; a
script that the adapter gives up has left fewer bytes, but its waits come when no words are
wanted any more).  Each script leads on from any filling an earlier one may have left
(`ReadChain`, `LoadChain`, `RowChain`, `FetchesChain`, `SerialChain`, `OpenChain`,
`FinishChain`, ..., put together in `PickitScript`), the loops over rows and blocks of any
length included; those of the other adapters leave the buffers alone (`ScriptQuiet`).  And
each action keeps `BuffersHold` (`PerformBuffers`, `ProceedHolds`, `StopHolds`, ...).  Two
things had to be added.  The packet of pic32_serial_execution reads four status bytes
without clearing the upload buffer, which must not be full of a block then: the stages that
check or read the flash come last (`InOrder`), and all others leave eight bytes at most
(`Brief`).  And the bytes are known exactly only behind a script that clears the upload
buffer, and only until the program reads the status.

Each inductive invariant was checked by TLC in the instance of its run before it was proved;
of `BuffersHold`, which TLC cannot enumerate, a form that runs the commands to come from each
filling.
Assumptions: those named in the modules (`CommandAssumption`, `FaultsAssumption`,
`BoundsAssumption`, `LayoutAssumption`, `BackendsAssumption`, `LimitAssumption`,
`FilesAssumption`, `PortAssumption`, `SessionAssumption`),
which TLC evaluates in the runs.

Model-checked only:

- liveness (`RpcSpec`'s fairness, `ReadReturns`, `Released`, `CloseReturns`, `RunEnds`,
  `ReadEnds`), since TLAPS here does not reason about fairness and ENABLED;
- `RegisterFits`, `Debuggable`, `PeAlive` and `LoaderInStep` of `Session`.
  `IInv` knows a script only as a sequence of calm commands; a theorem about these needs to
  know at each place of each script which controller and register are selected, what the
  processor is doing and how many words the loader has had, with each of the three drivers.

## Not modelled

- `PC/adapter-usbjtag.c`: an unfinished driver.  Its usbjtag_send, through which all else
  goes, has no body in the repository's build, and target.c does not open it.
- Families and the printing of devcfg (`PC/family-*.c`, parts of `PC/target.c`): constant
  tables and formatted output.  The sizes and offsets that matter are constants of
  `Programmer`.
- `PC/executive.c` but for the loader: machine code for the target, loaded as data.
- The flow control of the serial adapter's characters, the upload of its sketch over
  STK500 (`PC/adapter-bitbang.c`) and `PC/serial.c`: target.c keeps the call of
  adapter_open_bitbang in a comment, so nothing reaches them.  What the driver's operations do
  to a target is in `Drivers`, beside the other two.
- `PC/hidapi/hid-linux.c`: read and write of the kernel with no state of its own.
- Feature reports, strings and the data of enumeration in hidapi; its test programs.
- Commands of the firmware the program never sends: ReadFromAddress, GetDeviceId, the
  status as a command, SetLed, GetAdapterInfo.
- Values of words and checksums, voltages, firmware versions, `FW/usb_descriptors.c`,
  messages and their translation.

## Plan

Done, in the order of importance: the link and its abstraction; the port; sessions with
three drivers; the programmer; the list of reports; the files; proofs of the link, the
programmer, the list, the files, the port, that sessions keep the port in step, that
they close in order, and that the buffers of the PICkit suffice.  What is left, most useful
first:

1. Theorems for `PeAlive` and `RegisterFits`, from the register and controller selected at
   each place of each script; `Chain` with another state than a filling may serve for it.
2. Values in a scan: XferData's bytes and what it does to its caller's, the ninth bit with
   two wires, the probe-enable bits of a wait that is not answered at once.
3. `Session` with a signal between commands, and liveness of a session.
