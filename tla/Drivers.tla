------------------------------ MODULE Drivers ------------------------------
(***************************************************************************)
(* What the drivers of pic32prog ask of their adapters, operation by        *)
(* operation: adapter-usbpic.c, adapter-pickit2.c and adapter-bitbang.c.    *)
(*                                                                         *)
(* A script is a list of commands.  A command is what one packet carries,   *)
(* or for the serial adapter one bitbang_send; "Expect" and "ExpectBytes"   *)
(* stand for the places where the program looks at a reply and fails when   *)
(* it is not the one wanted, "Receive" for a read that may itself fail, and *)
(* "ReadStatus" for the read of a PICkit's status.                          *)
(*                                                                         *)
(* Bound: what a driver repeats alike (instructions of one step, words of a *)
(* row, responses of a block) is done once or twice here, and the executive *)
(* has PeWords words.  The PICkit sends it ten words at a time.             *)
(***************************************************************************)
EXTENDS Device, Integers

Do(op, arg) == [op |-> op, arg |-> arg]
None == Do("none", 0)
Expect(what) == Do("Expect", what)
Times(n, command) == [i \in 1 .. n |-> command]

\* pic32mx_dev: the executives have 422, 1044 and 1052 words.  What matters of a
\* size is its remainder by ten.
PeWords(family) == IF family = "mx" THEN 14 ELSE 12

\* Words of a row: two sizes stand for 32 and for a multiple of 64.
RowWords(family) == IF family = "mx" THEN 32 ELSE 128

-----------------------------------------------------------------------------
(* adapter-usbpic.c.                                                       *)

Reset5 == Do("SetMode", 6)
Instr(cmd) == Do("SendCommand", cmd)
MtapCommand(value) == Do("XferByte", value)
ReadWord == Do("XferWord", 0)
Execute(word) == Do("XferInstruction", word)
Fast(word) == Do("XferFastData", word)
Response == Do("GetPEResponse", 0)

usbpic_serial_execution(family) ==
    <<Do("SerialExecutionMode", IF family = "mx" THEN 1 ELSE 0)>>

adapter_open_usbpic(mode) ==
    <<Do("SetWiresMode", IF mode = "ICSP" THEN 1 ELSE 2), Do("SetupIOPorts", 1),
      Do("EnterPgmMode", 0), Reset5, ReadWord, Expect("idcode")>>

\* Mutant of open_status: the port is parked in reset, not in Run-Test/Idle.
StatusParked ==
    <<Instr(SW_MTAP), Do("SetMode", 5), Instr(COMMAND), MtapCommand(0),
      Expect("status")>>

open_status ==
    <<Instr(SW_MTAP), Reset5, Instr(COMMAND), MtapCommand(0), Expect("status")>>
usbpic_get_idcode == <<Reset5, ReadWord, Expect("idcode")>>
usbpic_read_word ==
    <<Instr(SW_ETAP), Reset5>> \o Times(6, Execute(CODE))
        \o <<Instr(FASTDATA), Fast(0)>>

\* The loader takes its address and size, the words of the executive and a word
\* that ends them; the jump to the executive follows.
usbpic_load_executive(family) ==
    Times(IF family = "mx" THEN 2 ELSE 1, Execute(CODE))
        \o <<Execute(JUMP), Instr(FASTDATA), Fast(CODE), Fast(PeWords(family))>>
        \o Times(PeWords(family), Fast(CODE))
        \o <<Fast(0), Fast(STOP), Fast(CODE), Response, Expect("pe")>>

usbpic_program_row ==
    <<Instr(FASTDATA), Fast(CODE), Fast(CODE), Fast(CODE), Response, Expect("pe")>>
usbpic_program_word ==
    <<Instr(FASTDATA), Fast(CODE), Fast(CODE), Fast(CODE), Response, Expect("pe")>>
usbpic_verify_data ==
    <<Instr(FASTDATA), Fast(CODE), Fast(CODE), Fast(CODE), Response,
      Expect("pe"), Response, Expect("pe")>>
usbpic_read_data ==
    <<Instr(FASTDATA), Fast(CODE), Fast(CODE), Response, Expect("pe"), Response>>

usbpic_erase_chip(family) ==
    <<Instr(SW_MTAP), Instr(COMMAND), MtapCommand(252)>>
        \o (IF family = "mz" THEN <<MtapCommand(208)>> ELSE <<>>)
        \o <<MtapCommand(0)>>

usbpic_close(active, setup) ==
    <<Reset5>> \o (IF active THEN <<Do("ExitPgmMode", 0)>> ELSE <<>>)
        \o (IF setup THEN <<Do("SetupIOPorts", 0)>> ELSE <<>>)

-----------------------------------------------------------------------------
(* adapter-pickit2.c.  A packet clears and fills the adapter's buffers and   *)
(* runs one script of pseudo operations; a script stops when one times out.  *)

Packet(commands) == Do("Packet", commands)
ClearDownload == Do("ClearDownload", 0)
ClearUpload == Do("ClearUpload", 0)
Download(words) == Do("Download", words)
Give(n) == Do("XferInstBuf", n)
FastBuf(n) == Do("XfrFastBuf", n)
FastLit(word) == Fast(word)
Read8(value) == Do("XferData8", value)
Read32 == Do("XferData32", 0)
PeResponse == Do("GetPeResp", 1)
Receive == Do("Receive", 0)
ExpectBytes(n) == Do("ExpectBytes", n)

\* CMD_READ_STATUS, with 1 after CMD_CLEAR_UPLOAD_BUFFER in the same packet.
ReadStatus(clear) == Do("ReadStatus", clear)

check_timeout == <<ReadStatus(0), Expect("ready")>>

pickit_serial_execution ==
    <<Packet(<<Instr(SW_MTAP), Instr(COMMAND), Read8(0),
               Instr(SW_MTAP), Instr(COMMAND), Read8(209),
               Instr(SW_ETAP), Reset5, Instr(EJTAGBOOT),
               Instr(SW_MTAP), Instr(COMMAND), Read8(208), Read8(254)>>)>>

\* Detach the power, hold the target in reset, and see from the status whether
\* it needs power from the adapter.
adapter_open_pickit(supply) ==
    <<Packet(<<Do("Supply", 0)>>), Packet(<<Do("Ground", 0)>>),
      ReadStatus(1), Expect("power")>>
        \o (IF supply = "board" THEN <<>>
            ELSE <<Packet(<<Do("Supply", 1)>>), ReadStatus(1), Expect("power")>>)

pickit_enter ==
    <<Packet(<<ClearUpload, Do("Ground", 0), Do("Raise", 0), Do("Ground", 0),
               Do("Signature", 0), Do("Raise", 0), Reset5, Instr(SW_MTAP),
               Instr(COMMAND), Read8(0)>>),
      Receive, ExpectBytes(1), Expect("status"), Expect("unprotected")>>

pickit_get_idcode ==
    <<Packet(<<ClearUpload, Instr(SW_MTAP), Instr(IDCODE), Read32>>),
      Receive, ExpectBytes(4), Expect("idcode")>>

\* Two loads of the word, as XFERDATA32 reads 32 of the 33 bits of FASTDATA.
pickit_read_word ==
    LET half(n) ==
            <<Packet(<<ClearDownload, ClearUpload, Download(Times(n, CODE)),
                       Instr(SW_ETAP), Reset5, Give(n), Instr(FASTDATA), Read32>>),
              Receive, ExpectBytes(4)>>
    IN  half(6) \o half(7)

\* Mutant of PePackets: the last packet is not rounded up.
PePacketsDown(n) == n \div 10

PePackets(n) == (n + 9) \div 10

\* The words of a packet; those after the executive's own are zeros of its array.
PeChunk(n, i) == [j \in 1 .. 10 |-> IF 10 * (i - 1) + j <= n THEN CODE ELSE 0]

pickit_load_executive(n) ==
    LET step(words, commands) ==
            <<Packet(<<ClearDownload, Download(words)>> \o commands)>>
                \o check_timeout
        chunks[i \in 0 .. PePackets(n)] ==
            IF i = 0 THEN <<>>
            ELSE chunks[i - 1] \o step(PeChunk(n, i), <<FastBuf(10)>>)
    IN  step(Times(7, CODE), <<Instr(SW_ETAP), Reset5, Give(7)>>)
        \o step(Times(5, CODE), <<Give(5)>>)
        \o step(Times(4, CODE), <<Give(4)>>)
        \o step(Append(Times(3, CODE), JUMP),
                <<Give(4), Instr(SW_ETAP), Reset5, Instr(FASTDATA),
                  FastLit(CODE), FastLit(n)>>)
        \o chunks[PePackets(n)]
        \o step(<<0, STOP>>, <<FastBuf(2)>>)
        \o <<Packet(<<ClearUpload, Instr(FASTDATA), FastLit(CODE), PeResponse>>)>>
        \o check_timeout \o <<Receive, Expect("pe")>>

\* Eight addresses are downloaded, and a packet for each reads 32 responses,
\* which two more packets upload.
pickit_read_data ==
    LET read == <<Packet(<<ClearUpload, Instr(FASTDATA), FastLit(CODE), FastBuf(1),
                           Do("WaitPeResp", 0), Do("GetPeResp", 32)>>),
                  Receive, Receive>>
    IN  <<Packet(<<ClearDownload, Download(Times(8, CODE))>>)>>
            \o read \o read \o read \o read \o read \o read \o read \o read

pickit_program_word ==
    <<Packet(<<ClearUpload, Instr(FASTDATA), FastLit(CODE), FastLit(CODE),
               FastLit(CODE), PeResponse>>),
      Receive, ExpectBytes(4), Expect("pe")>>

\* For family mz; do_program never comes to it.
pickit_program_quad_word ==
    <<Packet(<<ClearUpload, Instr(FASTDATA)>> \o Times(6, FastLit(CODE))
                 \o <<PeResponse>>),
      Receive, ExpectBytes(4), Expect("pe")>>

\* Mutant of download_data: the loop ends one word early.
DownloadShort(n, clear) ==
    <<Packet((IF clear THEN <<ClearDownload>> ELSE <<>>)
                 \o <<Download(Times(n - 1, CODE))>>)>>

download_data(n, clear) ==
    <<Packet((IF clear THEN <<ClearDownload>> ELSE <<>>)
                 \o <<Download(Times(n, CODE))>>)>>

pickit_program_row(words) ==
    LET run(tail, n) == <<Packet(<<Download(Times(tail, CODE)), Instr(FASTDATA),
                                   FastBuf(n)>>)>>
        part == download_data(15, TRUE) \o download_data(15, FALSE)
                    \o download_data(15, FALSE) \o download_data(15, FALSE)
                    \o run(4, 64)
        parts[i \in 0 .. words \div 64] == IF i = 0 THEN <<>> ELSE parts[i - 1] \o part
    IN  <<Packet(<<ClearUpload, Instr(FASTDATA), FastLit(CODE), FastLit(CODE)>>)>>
        \o (IF words = 32
            THEN download_data(15, TRUE) \o download_data(15, FALSE) \o run(2, 32)
            ELSE parts[words \div 64])
        \o <<Packet(<<ClearUpload, PeResponse>>), Receive, ExpectBytes(4),
             Expect("pe")>>

\* The erase is given 400 msec and not asked after.
pickit_erase_chip ==
    <<Packet(<<ClearUpload, Instr(SW_MTAP), Instr(COMMAND), Read8(252)>>)>>
        \o check_timeout

\* What the status says at the end makes no difference any more.
pickit_finish(power_on) ==
    <<Packet(<<ClearUpload, Do("SetMode", 5), Do("Ground", 0)>>)>>
        \o (IF power_on THEN <<>> ELSE <<Packet(<<Do("Supply", 0)>>)>>)
        \o <<Packet(<<Do("Release", 0)>>), ReadStatus(0)>>

-----------------------------------------------------------------------------
(* adapter-bitbang.c.  The program itself polls the control register.       *)

Send(nTms, tms, data, read, word) ==
    Do("Bitbang", [nTms |-> nTms, tms |-> tms, data |-> data, read |-> read,
                   word |-> word])
Command(cmd) == Send(1, 1, Five(cmd), FALSE, 0)
Mchp(value, read) == Send(0, 0, Byte(value), read, 0)

\* On, and off in an orderly fashion.
bitbang_ICSP_enable(on) ==
    IF on THEN <<Do("Supply", 1), Do("Raise", 0), Do("Ground", 0),
                 Do("Signature", 0), Do("Raise", 0)>>
    ELSE <<Do("Supply", 0)>>

bitbang_get_idcode == <<Send(6, 31, Word, TRUE, 0), Expect("idcode")>>

adapter_open_bitbang == bitbang_ICSP_enable(TRUE) \o bitbang_get_idcode
bitbang_status ==
    <<Command(SW_MTAP), Command(COMMAND), Mchp(0, FALSE), Mchp(0, TRUE),
      Expect("status")>>

bitbang_serial_execution(family) ==
    <<Command(SW_MTAP), Command(COMMAND), Mchp(0, TRUE), Expect("unprotected"),
      Mchp(209, FALSE), Command(SW_ETAP), Command(EJTAGBOOT), Command(SW_MTAP),
      Command(COMMAND), Mchp(208, FALSE)>>
        \o (IF family = "mz" THEN <<>> ELSE <<Mchp(254, FALSE)>>)
        \o <<Command(SW_ETAP)>>

xfer_fastdata(word) == Send(0, 0, <<0>> \o Word, FALSE, word)
WaitPrAcc == <<Command(CONTROL), Send(0, 0, Word, TRUE, 0), Expect("PrAcc")>>
xfer_instruction(word) ==
    WaitPrAcc \o <<Command(DATA), Send(0, 0, Word, FALSE, word),
                   Command(CONTROL), Send(0, 0, Word, FALSE, 0)>>
get_pe_response ==
    WaitPrAcc \o <<Command(DATA), Send(0, 0, Word, TRUE, 0),
                   Command(CONTROL), Send(0, 0, Word, FALSE, 0)>>

bitbang_read_word ==
    xfer_instruction(CODE) \o xfer_instruction(CODE)
        \o <<Command(FASTDATA), Send(0, 0, <<0>> \o Word, TRUE, 0)>>

bitbang_load_executive(family) ==
    (IF family = "mz" THEN <<>> ELSE xfer_instruction(CODE))
        \o xfer_instruction(CODE) \o xfer_instruction(JUMP)
        \o <<Command(FASTDATA), xfer_fastdata(CODE),
             xfer_fastdata(PeWords(family))>>
        \o Times(PeWords(family), xfer_fastdata(CODE))
        \o <<xfer_fastdata(0), xfer_fastdata(STOP), xfer_fastdata(CODE)>>
        \o get_pe_response \o <<Expect("pe")>>

bitbang_program_row ==
    <<Command(FASTDATA)>> \o Times(4, xfer_fastdata(CODE)) \o get_pe_response
        \o <<Expect("pe")>>
bitbang_program_word ==
    <<Command(FASTDATA)>> \o Times(3, xfer_fastdata(CODE)) \o get_pe_response
        \o <<Expect("pe")>>
bitbang_verify_data ==
    <<Command(FASTDATA)>> \o Times(3, xfer_fastdata(CODE)) \o get_pe_response
        \o <<Expect("pe")>> \o get_pe_response \o <<Expect("pe")>>
bitbang_read_data ==
    <<Command(FASTDATA)>> \o Times(2, xfer_fastdata(CODE)) \o get_pe_response
        \o <<Expect("pe")>> \o get_pe_response

bitbang_erase_chip(family) ==
    <<Command(SW_MTAP), Command(COMMAND), Mchp(252, FALSE)>>
        \o (IF family = "mz" THEN <<Mchp(208, FALSE)>> ELSE <<>>)
        \o <<Mchp(0, TRUE)>>

\* The processor is let go of by taking its power, never by MCLR.
bitbang_close ==
    <<Command(SW_ETAP), Send(6, 31, <<>>, FALSE, 0)>> \o bitbang_ICSP_enable(FALSE)

-----------------------------------------------------------------------------
\* Where the program looks at what it has been told.
Looks == {"Receive", "ReadStatus", "Expect", "ExpectBytes"}

\* What one command does to an adapter and its target.
Simple(d, c) ==
    CASE c.op = "SetWiresMode" ->
             {SetWiresMode(d, IF c.arg = 1 THEN "ICSP" ELSE "JTAG")}
      [] c.op = "SetupIOPorts" -> {SetupIOPorts(d, c.arg = 1)}
      [] c.op = "EnterPgmMode" -> {EnterPgmMode(d)}
      [] c.op = "ExitPgmMode" -> {ExitPgmMode(d)}
      [] c.op = "SetMode" -> {Clocks(d, SetMode(31, c.arg))}
      [] c.op = "SendCommand" -> {Sends(d, c.arg)}
      [] c.op = "XferByte" -> {Commands(d, c.arg)}
      [] c.op = "XferWord" -> {XferWord(d)}
      [] c.op = "XferInstruction" -> XferInstruction(d, c.arg)
      [] c.op = "XferFastData" -> {TransferFast(d, <<c.arg>>)}
      [] c.op = "GetPEResponse" -> {GetPEResponse(d)}
      [] c.op = "SerialExecutionMode" -> SerialExecutionMode(d, c.arg = 1)
      [] c.op = "Bitbang" -> {Bitbanged(d, c.arg)}
      [] c.op = "Supply" -> {Supplied(d, c.arg = 1)}
      [] c.op = "Ground" -> {Ground(d)}
      [] c.op = "Raise" -> {Raise(d)}
      [] c.op = "Release" -> {Release(d)}
      [] c.op = "Signature" -> {Signature(d)}
      [] c.op = "ClearDownload" -> {[d EXCEPT !.download = <<>>]}
      [] c.op = "ClearUpload" -> {[d EXCEPT !.upload = 0]}
      [] c.op = "Download" -> {Downloads(d, c.arg)}
      [] c.op = "XferInstBuf" -> GiveBuffered(d, c.arg)
      [] c.op = "XfrFastBuf" -> {FastBuffered(d, c.arg)}
      [] c.op = "XferData8" -> {Uploads(Commands(d, c.arg), 1)}
      [] c.op = "XferData32" -> {Uploads(XferWord(d), 4)}
      [] c.op = "WaitPeResp" -> {WaitETAP_Ready(d)}
      [] c.op = "GetPeResp" -> PeResponses(d, c.arg)
      [] c.op \in Looks -> {d}

\* A script goes on until a step of it times out, which the adapter remembers
\* until it is asked; any other command is one step.
Effect(d, c) ==
    LET steps == IF c.op = "Packet" THEN c.arg ELSE <<c>>
        after[i \in 0 .. Len(steps)] ==
            IF i = 0 THEN {[d EXCEPT !.timeout = FALSE]}
            ELSE UNION {IF e.timeout THEN {e} ELSE Simple(e, steps[i]) :
                            e \in after[i - 1]}
    IN  {[e EXCEPT !.timeout = @ \/ d.timeout] : e \in after[Len(steps)]}
=============================================================================
