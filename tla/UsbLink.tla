------------------------------ MODULE UsbLink ------------------------------
(***************************************************************************)
(* The USB HID link between pic32prog on the PC (adapter-usbpic.c over     *)
(* hid_write and hid_read) and the adapter firmware (processUsbCommands in *)
(* Firmware/main.c).                                                       *)
(*                                                                         *)
(* The two sides share two 64-byte buffers in USB RAM, USBInput and        *)
(* USBOutput.  Each is owned in turn by the firmware and by the serial     *)
(* interface engine (SIE), the hardware that moves packets on the bus.     *)
(* The firmware hands USBInput back to the SIE before it has finished with *)
(* it and never waits for USBOutput before it clears it, so what keeps the *)
(* buffers intact is the discipline of the PC program: it sends nothing    *)
(* while a reply is due.  The model says what that discipline buys, and    *)
(* what is left of it when the program is interrupted or killed.           *)
(*                                                                         *)
(* compile.bat builds the program for Windows with hid-windows.c: the       *)
(* handler of a signal is a thread of its own, beside the main thread, and *)
(* the two share one file handle whose calls the system makes one at a     *)
(* time.                                                                   *)
(*                                                                         *)
(* A packet is its command and a number that tells the packets apart; the  *)
(* other 63 bytes and what the command does to the target are left to the  *)
(* other modules.  A reply is its first byte, its last byte, and the       *)
(* packet its contents answer.                                             *)
(*                                                                         *)
(* The adapter stays plugged in: hid_write and hid_read do not fail here.   *)
(***************************************************************************)
EXTENDS Naturals, Sequences

CONSTANTS
    Command,        \* commands the PC sends (a subset of the firmware's)
    Faults,         \* which of "signal" and "kill" may happen
    MaxPackets,     \* bound: packets sent in a behaviour
    MaxSessions     \* bound: times pic32prog is run in a behaviour

\* The commands of the switch, by what they do to needReply.
ReplyCommand ==
    {"GetAdapterInfo", "WiresMode", "GetDeviceId", "GetMCHPStatus",
     "ReadFromAddress", "XferData", "SerialExecutionMode", "WaitETAP_Ready",
     "XferInstruction", "XferFastData", "GetPEResponse", "GetPEResponseMulti"}
SilentCommand ==
    {"SetupIOPorts", "SetLed", "ExitPgmMode", "EnterPgmMode", "SetMode",
     "SendCommand"}

\* Mutant of AfterClose: the script ends after its second command.
AfterCloseShort(c) == IF c = "SetMode" THEN "ExitPgmMode" ELSE "end"

\* What usbpic_close sends, in this order; it waits for no reply.  The last
\* two it sends only while a flag of the adapter says they are to be undone.
CloseCommand == {"SetMode", "ExitPgmMode", "SetupIOPorts"}
AfterClose(c) == CASE c = "SetMode" -> "ExitPgmMode"
                   [] c = "ExitPgmMode" -> "SetupIOPorts"
                   [] c = "SetupIOPorts" -> "end"

Thread == {"main", "handler"}

ASSUME CommandAssumption ==
    /\ Command \subseteq ReplyCommand \cup SilentCommand
    /\ CloseCommand \subseteq Command
ASSUME FaultsAssumption == Faults \subseteq {"signal", "kill"}
ASSUME BoundsAssumption == MaxPackets \in Nat /\ MaxSessions \in Nat

VARIABLES
    \* the PC program
    host,           \* what its main thread is doing
    target,         \* TRUE once target_open has returned: quit will close
    undo,           \* pgm_mode_active and pgm_port_setup, when set
    closing,        \* for each thread, the command of usbpic_close it is at
    stage,          \* and how far it is with it
    sessions,       \* runs of the program so far
    request,        \* the packet the main thread's operation sent
    accepted,       \* the last reply an operation accepted, and for what
    \* the operating system and the bus
    sent,           \* the packet last given to WriteFile, by either thread
    writer,         \* the thread whose WriteFile is in progress, or "none"
    incoming,       \* replies read from the device, not yet by the program
    bus,            \* what the device knows of the bus
    \* USB RAM and the firmware
    outOwner,       \* who owns USBInput: "sie" while the OUT endpoint is armed
    inOwner,        \* who owns USBOutput: "sie" while a reply waits to be sent
    USBInput,       \* the packet buffer
    USBOutput,      \* the reply buffer
    fw,             \* where processUsbCommands is
    needReply,      \* its local of that name
    performed       \* number of the last packet executed

closeVars == <<undo, closing, stage>>
hostVars == <<host, target, closeVars, sessions, request, accepted>>
osVars == <<sent, writer, incoming, bus>>
fwVars == <<outOwner, inOwner, USBInput, USBOutput, fw, needReply, performed>>
vars == <<hostVars, osVars, fwVars>>

NoPacket == [cmd |-> "none", id |-> 0]
Packet == [cmd : Command, id : Nat \ {0}]

\* First byte, last byte and contents of USBOutput; 0 and "none" are cleared.
Cleared == [status |-> 0, echo |-> "none", data |-> NoPacket]
Reply == [status : {0, 1}, echo : Command \cup {"none"},
          data : Packet \cup {NoPacket}]

TypeOK ==
    /\ host \in {"closed", "idle", "writing", "read", "reading", "quitting"}
    /\ target \in BOOLEAN
    /\ undo \subseteq CloseCommand
    /\ closing \in [Thread -> CloseCommand \cup {"none", "end"}]
    /\ stage \in [Thread -> {"test", "wait", "write"}]
    /\ sessions \in Nat
    /\ request \in Packet \cup {NoPacket}
    /\ accepted \in [request : Packet \cup {NoPacket}, reply : Reply]
    /\ sent \in Packet \cup {NoPacket}
    /\ writer \in Thread \cup {"none"}
    /\ incoming \in Seq(Reply)
    /\ bus \in {"attached", "configured", "suspended"}
    /\ outOwner \in {"cpu", "sie"}
    /\ inOwner \in {"cpu", "sie"}
    /\ USBInput \in Packet \cup {NoPacket}
    /\ USBOutput \in Reply
    /\ fw \in {"poll", "execute", "rearm", "reply", "transmit"}
    /\ needReply \in BOOLEAN
    /\ performed \in Nat

Init ==
    /\ host = "closed"
    /\ target = FALSE
    /\ undo = {}
    /\ closing = [t \in Thread |-> "none"]
    /\ stage = [t \in Thread |-> "test"]
    /\ sessions = 0
    /\ request = NoPacket
    /\ accepted = [request |-> NoPacket, reply |-> Cleared]
    /\ sent = NoPacket
    /\ writer = "none"
    /\ incoming = <<>>
    /\ bus = "attached"
    /\ outOwner = "cpu"
    /\ inOwner = "cpu"
    /\ USBInput = NoPacket
    /\ USBOutput = Cleared
    /\ fw = "poll"
    /\ needReply = FALSE
    /\ performed = 0

-----------------------------------------------------------------------------
(* The PC program.                                                         *)

\* The system makes one call at a time on the file: a read holds it until a
\* report arrives.
FileFree == writer = "none" /\ host # "reading"

\* hid_write, called by thread t, reaches the device driver.
Write(t, c) ==
    /\ FileFree
    /\ sent' = [cmd |-> c, id |-> sent.id + 1]
    /\ writer' = t

\* The process has ended; a write in progress is cancelled.
Gone ==
    /\ host' = "closed"
    /\ target' = FALSE
    /\ undo' = {}
    /\ closing' = [t \in Thread |-> "none"]
    /\ stage' = [t \in Thread |-> "test"]
    /\ writer' = "none"

\* quit, called by thread t: close the adapter if there is a target.
Quits(t) ==
    /\ target
    /\ closing' = [closing EXCEPT ![t] = "SetMode"]
    /\ UNCHANGED <<target, undo, stage, writer>>

\* exit, after which atexit runs quit.
Exit ==
    \/ Quits("main") /\ host' = "quitting"
    \/ ~ target /\ Gone

\* hid_open.  The queue of input reports belongs to the handle.
Open ==
    /\ host = "closed"
    /\ bus # "attached"
    /\ sessions < MaxSessions
    /\ host' = "idle"
    /\ sessions' = sessions + 1
    /\ incoming' = <<>>
    /\ UNCHANGED <<target, closeVars, request, accepted, sent, writer, bus,
                   fwVars>>

\* target_open returns and its result is stored: from here quit closes it.
TargetOpened ==
    /\ host = "idle"
    /\ ~ target
    /\ target' = TRUE
    /\ undo' = {"ExitPgmMode", "SetupIOPorts"}
    /\ UNCHANGED <<host, closing, stage, sessions, request, accepted, osVars,
                   fwVars>>

\* An adapter operation fills its buffer and calls hid_write.
Request(c) ==
    /\ host = "idle"
    /\ sent.id < MaxPackets
    /\ Write("main", c)
    /\ request' = sent'
    /\ host' = "writing"
    /\ UNCHANGED <<target, closeVars, sessions, accepted, incoming, bus, fwVars>>

\* Mutant of Written: the operation does not wait for its reply.
WrittenNoWait ==
    /\ host = "writing"
    /\ writer # "main"
    /\ host' = "idle"
    /\ UNCHANGED <<target, closeVars, sessions, request, accepted, osVars, fwVars>>

\* hid_write returns; the operation calls hid_read if its command has a reply.
Written ==
    /\ host = "writing"
    /\ writer # "main"
    /\ host' = IF request.cmd \in ReplyCommand THEN "read" ELSE "idle"
    /\ UNCHANGED <<target, closeVars, sessions, request, accepted, osVars, fwVars>>

\* hid_read reaches the driver.
StartRead ==
    /\ host = "read"
    /\ FileFree
    /\ host' = "reading"
    /\ UNCHANGED <<target, closeVars, sessions, request, accepted, osVars, fwVars>>

\* The test each operation puts its reply to.  SerialExecutionMode looks at the
\* second byte in place of the first: a byte of the contents, which may be 1.
Accepts(r) ==
    r.status = 1 \/ r.echo = request.cmd \/ request.cmd = "SerialExecutionMode"
Rejects(r) ==
    /\ r.echo # request.cmd
    /\ r.status # 1 \/ request.cmd = "SerialExecutionMode"

\* hid_read returns the oldest report.
Read ==
    /\ host = "reading"
    /\ incoming # <<>>
    /\ incoming' = Tail(incoming)
    /\ \/ /\ Accepts(Head(incoming))
          /\ accepted' = [request |-> request, reply |-> Head(incoming)]
          /\ host' = "idle"
          /\ UNCHANGED <<target, closeVars, writer>>
       \/ /\ Rejects(Head(incoming))
          /\ Exit
          /\ UNCHANGED accepted
    /\ UNCHANGED <<sessions, request, sent, bus, fwVars>>

\* The program ends: main calls quit, or an error path calls exit.
Quit ==
    /\ host = "idle"
    /\ Exit
    /\ UNCHANGED <<sessions, request, accepted, sent, incoming, bus, fwVars>>

\* A signal starts the handler, wherever the main thread is: quit, then _exit.
\* Delivery resets the signal to its default, so it is taken once.
Signal ==
    /\ "signal" \in Faults
    /\ host # "closed"
    /\ closing["handler"] = "none"
    /\ \/ Quits("handler") /\ UNCHANGED host
       \/ ~ target /\ Gone
    /\ UNCHANGED <<sessions, request, accepted, sent, incoming, bus, fwVars>>

\* Thread t is in usbpic_close, at the given stage of one of its commands.
Closing(t, s) == closing[t] \in CloseCommand /\ stage[t] = s

\* It tests the flag of the command it is at.
CloseTest(t) ==
    /\ Closing(t, "test")
    /\ IF closing[t] \in undo \cup {"SetMode"}
       THEN stage' = [stage EXCEPT ![t] = "wait"] /\ UNCHANGED closing
       ELSE closing' = [closing EXCEPT ![t] = AfterClose(@)] /\ UNCHANGED stage
    /\ UNCHANGED <<host, target, undo, sessions, request, accepted, osVars, fwVars>>

\* Its hid_write reaches the driver.
CloseWrite(t) ==
    /\ Closing(t, "wait")
    /\ Write(t, closing[t])
    /\ stage' = [stage EXCEPT ![t] = "write"]
    /\ UNCHANGED <<host, target, undo, closing, sessions, request, accepted,
                   incoming, bus, fwVars>>

\* Its hid_write returns, and the flag is cleared.
CloseWritten(t) ==
    /\ Closing(t, "write")
    /\ writer # t
    /\ stage' = [stage EXCEPT ![t] = "test"]
    /\ undo' = undo \ {closing[t]}
    /\ closing' = [closing EXCEPT ![t] = AfterClose(@)]
    /\ UNCHANGED <<host, target, sessions, request, accepted, osVars, fwVars>>

\* The adapter and the target are freed, and the thread ends the process.
Closed(t) ==
    /\ closing[t] = "end"
    /\ Gone
    /\ UNCHANGED <<sessions, request, accepted, sent, incoming, bus, fwVars>>

\* The process is killed, and nothing is closed.
Kill ==
    /\ "kill" \in Faults
    /\ host # "closed"
    /\ Gone
    /\ UNCHANGED <<sessions, request, accepted, sent, incoming, bus, fwVars>>

-----------------------------------------------------------------------------
(* The bus: the host controller, the SIE and the USB stack's interrupt.    *)

\* SET_CONFIGURATION: USBCBInitEP arms the OUT endpoint.
InitEP ==
    /\ bus = "attached"
    /\ bus' = "configured"
    /\ outOwner' = "sie"
    /\ UNCHANGED <<hostVars, sent, writer, incoming, inOwner, USBInput,
                   USBOutput, fw, needReply, performed>>

\* The PC suspends an idle bus and resumes it.
Suspend ==
    /\ bus = "configured"
    /\ FileFree
    /\ bus' = "suspended"
    /\ UNCHANGED <<hostVars, sent, writer, incoming, fwVars>>
Resume ==
    /\ bus = "suspended"
    /\ bus' = "configured"
    /\ UNCHANGED <<hostVars, sent, writer, incoming, fwVars>>

\* An OUT transaction: the SIE takes a packet only into a buffer it owns.
SieOut ==
    /\ bus = "configured"
    /\ writer # "none"
    /\ outOwner = "sie"
    /\ USBInput' = sent
    /\ outOwner' = "cpu"
    /\ writer' = "none"
    /\ UNCHANGED <<hostVars, sent, incoming, bus, inOwner, USBOutput, fw, needReply,
                   performed>>

\* An IN transaction: the endpoint is polled while a process has it open.
SieIn ==
    /\ bus = "configured"
    /\ host # "closed"
    /\ inOwner = "sie"
    /\ incoming' = Append(incoming, USBOutput)
    /\ inOwner' = "cpu"
    /\ UNCHANGED <<hostVars, sent, writer, bus, outOwner, USBInput, USBOutput, fw,
                   needReply, performed>>

-----------------------------------------------------------------------------
(* processUsbCommands, in the order of its effects on what is shared.      *)

\* Mutants of Receive: HIDRxHandleBusy is not tested; the buffer is given back
\* before the packet is executed.
ReceiveUnchecked ==
    /\ fw = "poll"
    /\ bus = "configured"
    /\ USBOutput' = Cleared
    /\ fw' = "execute"
    /\ UNCHANGED <<hostVars, osVars, outOwner, inOwner, USBInput, needReply,
                   performed>>
ReceiveRearmed ==
    /\ fw = "poll"
    /\ bus = "configured"
    /\ outOwner = "cpu"
    /\ outOwner' = "sie"
    /\ USBOutput' = Cleared
    /\ fw' = "execute"
    /\ UNCHANGED <<hostVars, osVars, inOwner, USBInput, needReply, performed>>

\* A packet has arrived: clear the transmit buffer.
Receive ==
    /\ fw = "poll"
    /\ bus = "configured"
    /\ outOwner = "cpu"
    /\ USBOutput' = Cleared
    /\ fw' = "execute"
    /\ UNCHANGED <<hostVars, osVars, outOwner, inOwner, USBInput, needReply,
                   performed>>

\* Mutants of Execute: a case sets needReply where it should not, or forgets it.
ExecuteReplying ==
    /\ fw = "execute"
    /\ performed' = USBInput.id
    /\ needReply' = TRUE
    /\ USBOutput' = [USBOutput EXCEPT !.data = USBInput]
    /\ fw' = "rearm"
    /\ UNCHANGED <<hostVars, osVars, outOwner, inOwner, USBInput>>
ExecuteSilent ==
    /\ fw = "execute"
    /\ performed' = USBInput.id
    /\ needReply' = FALSE
    /\ USBOutput' = [USBOutput EXCEPT !.data = USBInput]
    /\ fw' = "rearm"
    /\ UNCHANGED <<hostVars, osVars, outOwner, inOwner, USBInput>>

\* The switch on USBInput.RequestedCommand.
Execute ==
    /\ fw = "execute"
    /\ performed' = USBInput.id
    /\ needReply' = (USBInput.cmd \in ReplyCommand)
    /\ USBOutput' = IF USBInput.cmd \in ReplyCommand
                     THEN [USBOutput EXCEPT !.data = USBInput] ELSE USBOutput
    /\ fw' = "rearm"
    /\ UNCHANGED <<hostVars, osVars, outOwner, inOwner, USBInput>>

\* Give the packet buffer back to the SIE.
Rearm ==
    /\ fw = "rearm"
    /\ outOwner' = "sie"
    /\ fw' = IF needReply THEN "reply" ELSE "poll"
    /\ UNCHANGED <<hostVars, osVars, inOwner, USBInput, USBOutput, needReply,
                   performed>>

\* Mutant of FillReply: the status of an unknown command.
FillReplyUnknown ==
    /\ fw = "reply"
    /\ USBOutput' = [USBOutput EXCEPT !.status = 254, !.echo = USBInput.cmd]
    /\ fw' = "transmit"
    /\ UNCHANGED <<hostVars, osVars, outOwner, inOwner, USBInput, needReply,
                   performed>>

\* Fill in the first and the last byte.  RequestedCommand is read again here.
FillReply ==
    /\ fw = "reply"
    /\ USBOutput' = [USBOutput EXCEPT !.status = 1, !.echo = USBInput.cmd]
    /\ fw' = "transmit"
    /\ UNCHANGED <<hostVars, osVars, outOwner, inOwner, USBInput, needReply,
                   performed>>

\* Spin until the previous reply has left, then hand over this one.
Transmit ==
    /\ fw = "transmit"
    /\ inOwner = "cpu"
    /\ inOwner' = "sie"
    /\ fw' = "poll"
    /\ needReply' = FALSE
    /\ UNCHANGED <<hostVars, osVars, outOwner, USBInput, USBOutput, performed>>

-----------------------------------------------------------------------------
Firmware == Receive \/ Execute \/ Rearm \/ FillReply \/ Transmit
Bus == InitEP \/ Suspend \/ Resume \/ SieOut \/ SieIn
Main ==
    \/ Open \/ TargetOpened \/ (\E c \in Command : Request(c)) \/ Written
    \/ StartRead \/ Read \/ Quit
Close(t) == CloseTest(t) \/ CloseWrite(t) \/ CloseWritten(t) \/ Closed(t)

Next == Main \/ Signal \/ Kill \/ (\E t \in Thread : Close(t)) \/ Bus \/ Firmware

\* The firmware's main loop runs for ever, and a pass of it is shorter than
\* the bus takes to be suspended; the host controller schedules what is
\* pending; the program goes on when a call of the system returns, and the
\* system gives the file to the threads that wait for it in turn.  Nobody is
\* obliged to run the program, to make a request, to signal or to kill.
Fairness ==
    /\ SF_vars(Firmware)
    /\ WF_vars(InitEP)
    /\ WF_vars(Resume)
    /\ WF_vars(SieOut)
    /\ WF_vars(SieIn)
    /\ WF_vars(Written)
    /\ WF_vars(Read)
    /\ SF_vars(StartRead)
    /\ \A t \in Thread : SF_vars(Close(t))

Spec == Init /\ [][Next]_vars /\ Fairness

-----------------------------------------------------------------------------
(* Properties.                                                             *)

\* The reply an operation of adapter-usbpic.c accepts was made for the packet
\* that operation sent, although the test it makes would accept others.
AnswersMatch == accepted.reply.data = accepted.request

\* What the firmware's comment says of the last byte of a reply: when the
\* reply is handed to the SIE, and until it has left, that byte repeats the
\* command whose results the reply holds.
EchoNamesCommand ==
    inOwner = "sie" => USBOutput.echo = USBOutput.data.cmd

\* processUsbCommands changes no byte of a reply the SIE may be sending.  The
\* loop that clears USBOutput does not look at USBInHandle.
ReplyIntact ==
    [][inOwner = "sie" /\ inOwner' = "sie" => USBOutput' = USBOutput]_vars

\* At most one reply is anywhere between the switch and hid_read, so the loop
\* that waits for USBInHandle before a reply is sent never has to wait.
RepliesInFlight ==
    Len(incoming) + (IF inOwner = "sie" THEN 1 ELSE 0)
                  + (IF needReply THEN 1 ELSE 0)
OneReply == RepliesInFlight <= 1

\* No packet is executed twice or after a later one, even when processes are
\* killed and the packets of their cancelled writes are lost.
NeverTwice ==
    [][fw = "execute" /\ fw' # "execute" => performed' > performed]_vars

\* However processes die, replies that nobody waits for stay few: the endpoint
\* holds one, the firmware spins on one, one packet sits in USBInput, and the
\* last is the reply the present process waits for.
BoundedBacklog == RepliesInFlight <= 4

\* hid_read has no time limit, and never needs one.
ReadReturns == (host = "read") ~> (host \notin {"read", "reading"})

\* Once a thread closes the adapter in programming mode, the close script is
\* executed to its end, which releases the target's pins, whatever the other
\* thread sends in between.
Released ==
    ("ExitPgmMode" \in undo /\ \E t \in Thread : closing[t] # "none") ~>
        (USBInput.cmd = "SetupIOPorts" /\ performed = USBInput.id)

\* Without faults the link is a remote procedure call.
RPC == INSTANCE Rpc WITH
    Depth <- 2,
    posted <- sent.id,
    waiting <- \/ host \in {"read", "reading"}
               \/ host = "writing" /\ request.cmd \in ReplyCommand,
    answer <- accepted.reply.data.id
RpcSpec == RPC!Spec
=============================================================================
