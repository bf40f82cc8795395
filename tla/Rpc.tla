-------------------------------- MODULE Rpc --------------------------------
(***************************************************************************)
(* What the HID link promises the PC program: a remote procedure call.     *)
(* The caller posts numbered commands; the device performs each one once,  *)
(* in the order posted; a caller waiting for a reply gets the reply to the *)
(* command it posted last, after that command was performed.               *)
(*                                                                         *)
(* The module stands for no code of its own: UsbLink implements it.        *)
(***************************************************************************)
EXTENDS Naturals

CONSTANT Depth    \* posted commands that may still be unperformed, 1 or more

VARIABLES
    posted,       \* number of the last command posted
    performed,    \* number of the last command performed
    waiting,      \* TRUE while the caller blocks for a reply
    answer        \* number of the command the last reply answered

vars == <<posted, performed, waiting, answer>>

Init ==
    /\ posted = 0
    /\ performed = 0
    /\ waiting = FALSE
    /\ answer = 0

\* The caller posts its next command, and blocks if that has a reply.
Post ==
    /\ ~ waiting
    /\ posted - performed < Depth
    /\ posted' = posted + 1
    /\ waiting' \in BOOLEAN
    /\ UNCHANGED <<performed, answer>>

\* The device performs the oldest command it has not performed.
Perform ==
    /\ performed < posted
    /\ performed' = performed + 1
    /\ UNCHANGED <<posted, waiting, answer>>

\* The blocked caller receives its reply.
Answer ==
    /\ waiting
    /\ performed = posted
    /\ waiting' = FALSE
    /\ answer' = posted
    /\ UNCHANGED <<posted, performed>>

Next == Post \/ Perform \/ Answer

Spec == Init /\ [][Next]_vars /\ WF_vars(Perform) /\ WF_vars(Answer)
=============================================================================
