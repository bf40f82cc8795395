------------------------------- MODULE Device -------------------------------
(***************************************************************************)
(* What each command of the adapter firmware does to the adapter's own      *)
(* state, its pins and the target on them (Firmware/pic32prog.c and the     *)
(* switch of processUsbCommands).                                          *)
(*                                                                         *)
(* A device is a record, and a command an operator from a device to a       *)
(* device, or to a set of devices where a reply of the target decides.      *)
(* The target is external: a processor that MCLR or the MTAP hold in reset  *)
(* and that leaves reset either to run its program or, after EJTAGBOOT, to  *)
(* take instructions from the port; a port; a code protection that an erase *)
(* removes; its family; and the connectors of the adapter it is wired to.   *)
(***************************************************************************)
EXTENDS JtagTap

Processor == {"off", "reset", "run", "debug", "loader", "pe"}

\* What the properties tell apart among the words given to the processor: zero,
\* which is a nop as an instruction, any other, the last instruction of the jump
\* to the loader, and the word that ends the loader's work.  A smaller number stands for itself.
CODE == 901
JUMP == 902
STOP == 903

\* After initialisePic, or the power-up of another adapter: every pin an input,
\* every latch low.  A target without a supply of its own has no power yet.
PowerUp(wireMode, wired, family, protected, supply) ==
    [wireMode |-> wireMode, inPgmMode |-> FALSE, driven |-> {}, MCLR |-> 0,
     PMCLR |-> 0, icsp |-> FALSE, asserted |-> FALSE,
     supply |-> supply, vdd |-> FALSE,
     cpu |-> IF supply = "board" THEN "run" ELSE "off",
     wired |-> wired, family |-> family, protected |-> protected,
     tap |-> Tap("Reset", IDCODE, "MTAP"),
     expects |-> "address", left |-> 0, loaded |-> 0,
     download |-> <<>>, upload |-> 0, timeout |-> FALSE,
     dry |-> FALSE, missed |-> FALSE, deaf |-> FALSE, reply |-> 0]

\* What the pins and the MTAP say of the processor's reset, and what follows.
InReset(d) ==
    \/ "JTAG" \in d.driven \cap d.wired /\ d.MCLR = 0
    \/ "ICSP" \in d.driven \cap d.wired /\ d.PMCLR = 0
    \/ d.asserted
Powered(d) == d.supply = "board" \/ d.vdd
Settled(d) ==
    LET goesOn == Powered(d) /\ ~ InReset(d) /\ d.cpu \notin {"reset", "off"}
        cpu == CASE ~ Powered(d) -> "off"
                 [] Powered(d) /\ InReset(d) -> "reset"
                 [] OTHER -> IF d.tap.boot THEN "debug" ELSE "run"
    IN  IF goesOn THEN d
        ELSE [d EXCEPT !.cpu = cpu, !.expects = "address", !.left = 0, !.loaded = 0]

\* io_clock_bit for a sequence of bits: they reach the port over the connector
\* in use, with two wires only after the signature.
Reaches(d) ==
    /\ Powered(d) /\ d.wireMode \in d.driven \cap d.wired
    /\ d.wireMode = "ICSP" => d.icsp
Clocks(d, bits) ==
    IF Reaches(d) THEN [d EXCEPT !.tap = Clocked(d.tap, bits)] ELSE d

\* A command for the MTAP's command register, and what it does; e is the device
\* after the clocks of the transfer.
Commanded(d, e, value) ==
    LET taken == Reaches(d) /\ d.tap.state = "Idle" /\ d.tap.sel = "MTAP"
                            /\ d.tap.ir = COMMAND
    IN  Settled([e EXCEPT
            !.asserted = (@ \/ (taken /\ value = 209)) /\ ~ (taken /\ value = 208),
            !.protected = @ /\ ~ (taken /\ value = 252)])

\* A pseudo operation: an instruction, a byte for the MTAP, a word, or the reset
\* of the port.  An instruction is missed unless the port waits for it in
\* Run-Test/Idle.
Does(d, op, value) ==
    LET e == Clocks(d, CASE op = "SendCommand" -> SendCommand(value)
                         [] op = "XferData"    -> XferData(Byte(value))
                         [] op = "XferWord"    -> XferData(Word)
                         [] op = "SetMode"     -> SetMode(31, value))
    IN  CASE op = "SendCommand" ->
                 [e EXCEPT !.missed = @ \/ (Reaches(d) /\ d.tap.state # "Idle")]
          [] op = "XferData" -> Commanded(d, e, value)
          [] OTHER -> e
Sends(d, cmd) == Does(d, "SendCommand", cmd)
Commands(d, value) == Does(d, "XferData", value)

\* Pseudo operations one after the other.
Steps(d, list) ==
    LET after[i \in 0 .. Len(list)] ==
            IF i = 0 THEN d ELSE Does(after[i - 1], list[i][1], list[i][2])
    IN  after[Len(list)]

\* An instruction reaches the processor, or a processor that takes none.
Given(d, word) ==
    CASE ~ Reaches(d) -> d
      [] Reaches(d) /\ d.cpu # "debug" -> [d EXCEPT !.deaf = TRUE]
      [] OTHER -> [d EXCEPT !.cpu = IF word = JUMP THEN "loader" ELSE @]

\* pic32_pe_loader: an address and a count, then as many words of the executive;
\* a count of zero asks for another pair, and STOP starts the executive.
Loads(d, word) ==
    CASE d.expects = "address" -> [d EXCEPT !.expects = "count"]
      [] d.expects = "count" /\ word = STOP -> [d EXCEPT !.cpu = "pe"]
      [] d.expects = "count" /\ word = 0 -> [d EXCEPT !.expects = "address"]
      [] d.expects = "count" /\ word \notin {0, STOP} ->
             [d EXCEPT !.expects = "words", !.left = word]
      [] d.expects = "words" ->
             [d EXCEPT !.left = @ - 1, !.loaded = @ + 1,
                       !.expects = IF d.left = 1 THEN "address" ELSE "words"]

Taken(d, word) == IF d.cpu = "loader" THEN Loads(d, word) ELSE d

\* Words by way of FASTDATA, for the loader, the executive or the pending load
\* or store of an instruction.
Fasted(d, words) ==
    LET after[i \in 0 .. Len(words)] ==
            IF i = 0 THEN d ELSE Taken(after[i - 1], words[i])
    IN  IF d.cpu \in {"debug", "loader", "pe"} THEN after[Len(words)]
        ELSE [d EXCEPT !.deaf = TRUE]

-----------------------------------------------------------------------------
(* The commands of the firmware.                                           *)

SetWiresMode(d, mode) == [d EXCEPT !.wireMode = mode]

\* Both set-ups clear MCLR, the reset line of the four-wire connector.
SetupIOPorts(d, set) ==
    Settled(IF set THEN [d EXCEPT !.driven = @ \cup {d.wireMode}, !.MCLR = 0]
                   ELSE [d EXCEPT !.driven = @ \ {d.wireMode}])

EnterPgmMode(d) ==
    LET held == Settled([d EXCEPT !.MCLR = 0])
        armed == Steps(held, <<<<"SendCommand", SW_ETAP>>,
                               <<"SendCommand", EJTAGBOOT>>>>)
        low == Settled([d EXCEPT !.PMCLR = 0, !.icsp = FALSE])
        high == Settled([low EXCEPT !.PMCLR = 1, !.icsp = TRUE])
    IN  [IF d.wireMode = "JTAG" THEN Settled([armed EXCEPT !.MCLR = 1])
                                ELSE Clocks(high, ETAP_RESET)
         EXCEPT !.inPgmMode = TRUE]

\* Mutant of ExitPgmMode: the port is left in Run-Test/Idle.
ExitUnparked(d) ==
    [Settled(IF d.wireMode = "JTAG"
             THEN [d EXCEPT !.MCLR = 0]
             ELSE [d EXCEPT !.PMCLR = 0, !.icsp = FALSE])
     EXCEPT !.inPgmMode = FALSE]

ExitPgmMode(d) ==
    LET parked == Clocks(d, PIC32_RESET)
        low == IF d.wireMode = "JTAG"
               THEN [parked EXCEPT !.MCLR = 0]
               ELSE [parked EXCEPT !.PMCLR = 0, !.icsp = FALSE]
    IN  [Settled(low) EXCEPT !.inPgmMode = FALSE]

\* XferData of main.c, of a word or of a byte for the MTAP.
XferWord(d) == Does(d, "XferWord", 0)

\* WaitETAP_Ready: polls the control register until PrAcc is seen or 151 polls
\* have been made.  All polls are scans of one length.
Waiting == <<<<"SendCommand", CONTROL>>, <<"XferWord", 0>>>>
WaitETAP_Ready(d) == Steps(d, Waiting)

\* XferInstruction returns early when the wait fails.
XferInstruction(d, word) ==
    LET waited == WaitETAP_Ready(d)
        shifted == Steps(waited, <<<<"SendCommand", DATA>>, <<"XferWord", 0>>>>)
        done == WaitETAP_Ready(Given(shifted, word))
    IN  {waited, [done EXCEPT !.reply = 1]}

\* GetPEResponse goes on whatever the wait says.
GetPEResponse(d) ==
    Steps(d, Waiting \o <<<<"SendCommand", DATA>>, <<"XferWord", 0>>>> \o Waiting)

\* Several words are scans alike, of which the port is shown one.
TransferFast(d, words) ==
    LET taken == Reaches(d) /\ d.tap.state = "Idle" /\ d.tap.sel = "ETAP"
                            /\ d.tap.ir = FASTDATA
        e == Clocks(d, XferFastData(Word))
    IN  IF taken THEN Fasted(e, words) ELSE e

GetMCHPStatus(d) ==
    LET held == IF d.wireMode = "JTAG" THEN Settled([d EXCEPT !.MCLR = 0]) ELSE d
    IN  Steps(held, <<<<"SetMode", 6>>, <<"SendCommand", SW_MTAP>>, <<"SetMode", 6>>,
                      <<"SendCommand", COMMAND>>, <<"XferData", 0>>>>)

\* Mutant of SerialExecutionMode: the processor is not told to boot from the port.
SerialNoBoot(d, mx) == {[GetMCHPStatus(d) EXCEPT !.reply = 128]}

\* Enter serial execution: nothing more is done with a protected device.  In
\* four-wire mode the status is or-ed into a byte nobody has initialised, so
\* that a protected device may pass for an unprotected one.
SerialExecutionMode(d, mx) ==
    LET status == GetMCHPStatus(IF d.inPgmMode THEN d ELSE EnterPgmMode(d))
        icsp == <<<<"XferData", 209>>, <<"SendCommand", SW_ETAP>>,
                  <<"SendCommand", EJTAGBOOT>>, <<"SendCommand", SW_MTAP>>,
                  <<"SendCommand", COMMAND>>, <<"XferData", 208>>>>
                    \o (IF mx THEN <<<<"XferData", 254>>>> ELSE <<>>)
                    \o <<<<"SendCommand", SW_ETAP>>>>
        jtag == <<<<"SendCommand", SW_ETAP>>, <<"SetMode", 6>>,
                  <<"SendCommand", EJTAGBOOT>>>>
        entry == Steps(status, IF d.wireMode = "JTAG" THEN jtag ELSE icsp)
        done == Settled([entry EXCEPT
                    !.MCLR = IF d.wireMode = "JTAG" THEN 1 ELSE @, !.reply = 128])
        told == [status EXCEPT !.reply = 8]
    IN  CASE ~ d.protected                      -> {done}
          [] d.protected /\ d.wireMode = "ICSP" -> {told}
          [] d.protected /\ d.wireMode = "JTAG" -> {told, done}

-----------------------------------------------------------------------------
(* What the other adapters do on their own connector, the two-wire one.     *)

\* The target's supply goes on or off; a target that loses power forgets all.
Supplied(d, on) ==
    LET e == [d EXCEPT !.vdd = on]
    IN  IF Powered(e) THEN Settled(e)
        ELSE Settled([e EXCEPT !.tap = Tap("Reset", IDCODE, "MTAP"),
                               !.asserted = FALSE, !.icsp = FALSE])

\* MCLR driven low, driven high, or let go of.
Ground(d) ==
    Settled([d EXCEPT !.driven = @ \cup {"ICSP"}, !.PMCLR = 0, !.icsp = FALSE])
Raise(d) == Settled([d EXCEPT !.driven = @ \cup {"ICSP"}, !.PMCLR = 1])
Release(d) == Settled([d EXCEPT !.driven = @ \ {"ICSP"}])
Signature(d) == [d EXCEPT !.icsp = d.PMCLR = 0]

\* One operation of the serial adapter, given what its data stands for.  The
\* processor takes data of the DATA register unless it is being read.
Bitbanged(d, send) ==
    LET e == Clocks(d, bitbang_send(send.nTms, send.tms, send.data))
        size == Len(send.data)
        idle == Reaches(d) /\ d.tap.state = "Idle" /\ d.tap.sel = "ETAP"
    IN  CASE size = 5 ->
                 [e EXCEPT !.missed = @ \/ (Reaches(d) /\ d.tap.state # "Idle")]
          [] size = 8 -> Commanded(d, e, ValueOf(send.data))
          [] size = 32 /\ idle /\ d.tap.ir = DATA /\ ~ send.read ->
                 Given(e, send.word)
          [] size = 33 /\ idle /\ d.tap.ir = FASTDATA -> Fasted(e, <<send.word>>)
          [] OTHER -> e

\* The PICkit's buffers: words downloaded for scripts to use, and bytes that
\* scripts have read for the program to upload.  A script that finds too few
\* words leaves the buffer dry.
Downloads(d, words) == [d EXCEPT !.download = @ \o words]
Uploads(d, n) == [d EXCEPT !.upload = @ + n]
Uses(d, n) ==
    [d EXCEPT !.download = SubSeq(@, n + 1, Len(@)),
              !.dry = @ \/ Len(d.download) < n]
FirstWords(d, n) ==
    [i \in 1 .. n |-> IF i <= Len(d.download) THEN d.download[i] ELSE 0]

\* n words of the buffer as instructions: all are taken, or a wait for the
\* processor times out and the script with it.
GiveBuffered(d, n) ==
    LET waited == WaitETAP_Ready(Uses(d, n))
        given[i \in 0 .. n] ==
            IF i = 0 THEN Steps(waited, <<<<"SendCommand", DATA>>, <<"XferWord", 0>>>>)
            ELSE Given(given[i - 1], FirstWords(d, n)[i])
    IN  {WaitETAP_Ready(given[n]), [waited EXCEPT !.timeout = TRUE]}

\* The status says whether a script has timed out since it was read last.
StatusRead(d, clear) ==
    [d EXCEPT !.reply = IF d.timeout THEN 1 ELSE 0, !.timeout = FALSE,
              !.upload = IF clear = 1 THEN 0 ELSE @]

FastBuffered(d, n) == TransferFast(Uses(d, n), FirstWords(d, n))

\* n responses of the executive into the upload buffer, or a wait times out.
PeResponses(d, n) ==
    {Uploads(GetPEResponse(d), 4 * n), [WaitETAP_Ready(d) EXCEPT !.timeout = TRUE]}
=============================================================================
