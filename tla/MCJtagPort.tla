----------------------------- MODULE MCJtagPort -----------------------------
(***************************************************************************)
(* JtagPort for TLC: the instructions the PC program sends, and data that   *)
(* tells the order of bits apart.                                          *)
(***************************************************************************)
EXTENDS JtagPort

MCInstruction ==
    {IDCODE, SW_MTAP, SW_ETAP, COMMAND, DATA, CONTROL, EJTAGBOOT, FASTDATA}

\* No shift or reversal of it is itself.
Pattern == [i \in 1 .. 32 |-> IF i \in {1, 2, 5, 31} THEN 1 ELSE 0]
MCData == {Byte(0), Byte(209), Pattern, <<0>> \o Pattern}
=============================================================================
