------------------------------ MODULE JtagPort ------------------------------
(***************************************************************************)
(* The port of JtagTap under any sequence of the firmware's pseudo          *)
(* operations, from whatever state the target's port was left in.           *)
(***************************************************************************)
EXTENDS JtagTap

CONSTANTS
    Instruction,    \* the instructions sent
    Data            \* the data sent

\* An instruction has five bits.  Data has at least one: with none, the clocks
\* that follow it would be shifted instead and leave the port in Pause-DR.
ASSUME PortAssumption ==
    /\ Instruction \subseteq 0 .. 31
    /\ Data \subseteq Seq({0, 1}) \ {<<>>}

VARIABLES
    tap,            \* the port
    last            \* the pseudo operation just performed

Init ==
    /\ \E s \in TapState, c \in Instruction, t \in {"MTAP", "ETAP"} :
          tap = Tap(s, c, t)
    /\ last = "none"

\* The scans are those of this operation.
Perform(name, bits) ==
    /\ tap' = Clocked([tap EXCEPT !.scans = <<>>], bits)
    /\ last' = name

Synchronise == Perform("ETAP_RESET", ETAP_RESET)
Park == Perform("PIC32_RESET", PIC32_RESET)
Instruct == \E c \in Instruction : Perform("SendCommand", SendCommand(c))
Transfer == \E d \in Data : Perform("XferData", XferData(d))
FastTransfer == \E d \in Data : Perform("XferFastData", XferFastData(d))

\* The serial adapter's one operation, as its driver uses it.
Bitbang ==
    \/ Perform("ETAP_RESET", bitbang_send(6, 31, <<>>))
    \/ \E c \in Instruction : Perform("SendCommand", bitbang_send(1, 1, Five(c)))
    \/ \E d \in Data : Perform("XferData", bitbang_send(0, 0, d))

Next == Bitbang \/ Synchronise \/ Park \/ Instruct \/ Transfer \/ FastTransfer

Spec == Init /\ [][Next]_<<tap, last>>

-----------------------------------------------------------------------------
\* After ETAP_RESET the port is in Run-Test/Idle with the identification
\* register selected, whatever it was doing; PIC32_RESET leaves it in reset.
Synchronised ==
    /\ last = "ETAP_RESET" => tap.state = "Idle" /\ tap.ir = IDCODE
    /\ last = "PIC32_RESET" => tap.state = "Reset" /\ tap.ir = IDCODE

\* Once in step, instructions and data arrive whole, each in one scan of
\* exactly its own bits in the order sent; the fast transfer adds one bit.
Port == INSTANCE TapPort WITH
    Instruction <- Instruction,
    Bits <- Data \cup {<<0>> \o d : d \in Data},
    inStep <- tap.state = "Idle",
    ir <- tap.ir,
    sel <- tap.sel,
    received <- tap.scans
PortSpec == Port!Spec
=============================================================================
