------------------------------ MODULE JtagTap ------------------------------
(***************************************************************************)
(* The pseudo operations of the adapter firmware (Firmware/pic32prog.c) and *)
(* the test access port they drive.                                        *)
(*                                                                         *)
(* A pseudo operation is the sequence of (TMS, TDI) pairs that its calls of *)
(* io_clock_bit put on the wires; in two-wire mode io_clock_bit spends four *)
(* clocks on each pair, in four-wire mode one, and the pairs are the same.  *)
(*                                                                         *)
(* The port is the one of IEEE 1149.1, with the two controllers of a PIC32, *)
(* MTAP and ETAP, of which one is selected.  It is not part of the          *)
(* repository: it is what the firmware's comments name state by state.      *)
(***************************************************************************)
EXTENDS Naturals, Sequences

-----------------------------------------------------------------------------
(* The port.                                                               *)

\* For each state, the next one when TMS is 0 and when it is 1.
Follows ==
    [Reset     |-> <<"Idle", "Reset">>,
     Idle      |-> <<"Idle", "SelectDR">>,
     SelectDR  |-> <<"CaptureDR", "SelectIR">>,
     CaptureDR |-> <<"ShiftDR", "Exit1DR">>,
     ShiftDR   |-> <<"ShiftDR", "Exit1DR">>,
     Exit1DR   |-> <<"PauseDR", "UpdateDR">>,
     PauseDR   |-> <<"PauseDR", "Exit2DR">>,
     Exit2DR   |-> <<"ShiftDR", "UpdateDR">>,
     UpdateDR  |-> <<"Idle", "SelectDR">>,
     SelectIR  |-> <<"CaptureIR", "Reset">>,
     CaptureIR |-> <<"ShiftIR", "Exit1IR">>,
     ShiftIR   |-> <<"ShiftIR", "Exit1IR">>,
     Exit1IR   |-> <<"PauseIR", "UpdateIR">>,
     PauseIR   |-> <<"PauseIR", "Exit2IR">>,
     Exit2IR   |-> <<"ShiftIR", "UpdateIR">>,
     UpdateIR  |-> <<"Idle", "SelectDR">>]

TapState == DOMAIN Follows

\* Instructions, as pic32.h and pic32prog.h number them.
IDCODE    == 1
SW_MTAP   == 4
SW_ETAP   == 5
COMMAND   == 7
ADDRESS   == 8
DATA      == 9
CONTROL   == 10
EJTAGBOOT == 12
FASTDATA  == 14

\* Bit i of a number, from 1; the number of a sequence of bits, first bit low.
BitOf(value, i) == (value \div 2^(i - 1)) % 2
ValueOf(bits) ==
    LET sum[i \in 0 .. Len(bits)] ==
            IF i = 0 THEN 0 ELSE sum[i - 1] + bits[i] * 2^(i - 1)
    IN  sum[Len(bits)]

\* How long the data register is that an instruction selects; an instruction
\* the controller does not have selects the bypass bit.
RegisterLength(sel, ir) ==
    CASE ir = IDCODE                                           -> 32
      [] sel = "MTAP" /\ ir = COMMAND                          -> 8
      [] sel = "ETAP" /\ ir \in {ADDRESS, DATA, CONTROL}       -> 32
      [] sel = "ETAP" /\ ir = FASTDATA                         -> 33
      [] OTHER                                                 -> 1

\* A port: its state, the instruction in force, the selected controller, the
\* instruction and data shift registers, the scans it has completed, and whether
\* EJTAGBOOT has been given since the last reset of the port.
Tap(state, ir, sel) ==
    [state |-> state, ir |-> ir, sel |-> sel, shiftIR |-> <<1, 0, 0, 0, 0>>,
     shiftDR |-> <<>>, scans |-> <<>>, boot |-> FALSE]

\* One clock.  Shifting happens in a Shift state, the clock that leaves it
\* included; entering Reset keeps the selected controller.
Clock(tap, bit) ==
    LET next == Follows[tap.state][bit.tms + 1]
        loaded == IF next = "UpdateIR" THEN ValueOf(tap.shiftIR) ELSE tap.ir
    IN  [state |-> next,
         ir |-> IF next = "Reset" THEN IDCODE ELSE loaded,
         sel |-> CASE next = "UpdateIR" /\ loaded = SW_MTAP -> "MTAP"
                   [] next = "UpdateIR" /\ loaded = SW_ETAP -> "ETAP"
                   [] OTHER -> tap.sel,
         shiftIR |-> CASE tap.state = "CaptureIR" -> <<1, 0, 0, 0, 0>>
                       [] tap.state = "ShiftIR" ->
                              Append(Tail(tap.shiftIR), bit.tdi)
                       [] OTHER -> tap.shiftIR,
         shiftDR |-> CASE tap.state = "ShiftDR" -> Append(tap.shiftDR, bit.tdi)
                       [] tap.state = "CaptureDR" \/ next = "UpdateDR" -> <<>>
                       [] OTHER -> tap.shiftDR,
         scans |-> IF next = "UpdateDR"
                   THEN Append(tap.scans, [sel |-> tap.sel, ir |-> tap.ir,
                                           data |-> tap.shiftDR])
                   ELSE tap.scans,
         boot |-> \/ next = "UpdateIR" /\ tap.sel = "ETAP" /\ loaded = EJTAGBOOT
                  \/ tap.boot /\ next # "Reset"]

\* A sequence of clocks.
Clocked(tap, bits) ==
    LET after[i \in 0 .. Len(bits)] ==
            IF i = 0 THEN tap ELSE Clock(after[i - 1], bits[i])
    IN  after[Len(bits)]

-----------------------------------------------------------------------------
(* The pseudo operations.                                                  *)

Bit(tms, tdi) == [tms |-> tms, tdi |-> tdi]

\* Mutant of Shifted: the bits are sent highest first.
ShiftedHighFirst(data) ==
    [i \in 1 .. Len(data) |->
        Bit(IF i = Len(data) THEN 1 ELSE 0, data[Len(data) + 1 - i])]

\* TDI data of the given bits, with TMS raised on the last.
Shifted(data) ==
    [i \in 1 .. Len(data) |-> Bit(IF i = Len(data) THEN 1 ELSE 0, data[i])]

\* Mutant of SetMode: the loop ends one clock early.
SetModeShort(mode, nBits) == [i \in 1 .. nBits - 1 |-> Bit(BitOf(mode, i), 0)]

\* A pattern of TMS, its lowest bit first.
SetMode(mode, nBits) == [i \in 1 .. nBits |-> Bit(BitOf(mode, i), 0)]

ETAP_RESET == SetMode(31, 6)
PIC32_RESET == SetMode(31, 5)

\* An instruction, by way of Shift-IR.
SendCommand(cmd) ==
    <<Bit(1, 0), Bit(1, 0), Bit(0, 0), Bit(0, 0)>>
        \o Shifted([i \in 1 .. 5 |-> BitOf(cmd, i)])
        \o <<Bit(1, 0), Bit(0, 0)>>

\* Data, by way of Shift-DR.
XferData(data) ==
    <<Bit(1, 0), Bit(0, 0), Bit(0, 0)>> \o Shifted(data)
        \o <<Bit(1, 0), Bit(0, 0)>>

\* Mutant of XferFastData: the PrAcc bit is forgotten.
XferFastDataWord(data) == XferData(data)

\* The same with a leading bit for PrAcc.
XferFastData(data) ==
    <<Bit(1, 0), Bit(0, 0), Bit(0, 0), Bit(0, 0)>> \o Shifted(data)
        \o <<Bit(1, 0), Bit(0, 0)>>

\* Mutant of bitbang_send: Shift-DR is entered one clock early.
BitbangShort(nTms, tms, data) ==
    SetMode(tms, nTms)
        \o (IF data = <<>> THEN <<>>
            ELSE <<Bit(1, 0), Bit(0, 0)>> \o Shifted(data)
                     \o <<Bit(1, 0), Bit(0, 0)>>)

\* The serial adapter has one operation for all of these: TMS alone, then data.
bitbang_send(nTms, tms, data) ==
    SetMode(tms, nTms)
        \o (IF data = <<>> THEN <<>>
            ELSE <<Bit(1, 0), Bit(0, 0), Bit(0, 0)>> \o Shifted(data)
                     \o <<Bit(1, 0), Bit(0, 0)>>)

Five(cmd) == [i \in 1 .. 5 |-> BitOf(cmd, i)]
Word == [i \in 1 .. 32 |-> 0]
Byte(value) == [i \in 1 .. 8 |-> BitOf(value, i)]
=============================================================================
