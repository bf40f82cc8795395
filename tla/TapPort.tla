------------------------------ MODULE TapPort ------------------------------
(***************************************************************************)
(* What the firmware's pseudo operations promise the code above them: a     *)
(* port that, once brought in step, takes whole instructions and whole      *)
(* words, and stays in step until it is parked in reset.                    *)
(*                                                                         *)
(* The module stands for no code of its own: JtagPort implements it.        *)
(***************************************************************************)
EXTENDS JtagTap

CONSTANTS
    Instruction,    \* the instructions sent
    Bits            \* the data sent

VARIABLES
    inStep,         \* TRUE while the port rests in Run-Test/Idle
    ir,             \* the instruction in force
    sel,            \* the selected controller
    received        \* the scans the last operation made

vars == <<inStep, ir, sel, received>>

Init ==
    /\ inStep \in BOOLEAN
    /\ ir \in Instruction
    /\ sel \in {"MTAP", "ETAP"}
    /\ received = <<>>

\* ETAP_RESET brings the port in step, PIC32_RESET parks it, from any state.
\* What was under way when the port was out of step is given up.
Reset(idle) ==
    /\ inStep' = idle
    /\ ir' = IDCODE
    /\ sel' \in IF inStep THEN {sel} ELSE {"MTAP", "ETAP"}
    /\ inStep => received' = <<>>

Instruct(c) ==
    /\ inStep
    /\ inStep' = TRUE
    /\ ir' = c
    /\ sel' = CASE c = SW_MTAP -> "MTAP" [] c = SW_ETAP -> "ETAP" [] OTHER -> sel
    /\ received' = <<>>

Transfer(data) ==
    /\ inStep
    /\ inStep' = TRUE
    /\ received' = <<[sel |-> sel, ir |-> ir, data |-> data]>>
    /\ UNCHANGED <<ir, sel>>

\* Out of step nothing is promised of an instruction or of data.
Confuse == ~ inStep

Next ==
    \/ \E idle \in BOOLEAN : Reset(idle)
    \/ \E c \in Instruction : Instruct(c)
    \/ \E data \in Bits : Transfer(data)
    \/ Confuse

Spec == Init /\ [][Next]_vars
=============================================================================
