---------------------------- MODULE ReportQueue ----------------------------
(***************************************************************************)
(* What hid_read promises of a device's input reports, whatever threads    *)
(* and callbacks bring them: they come in the order in which the device    *)
(* sent them, none comes twice, and a report is lost only when as many as  *)
(* the queue holds are newer than it.  Implemented by HidQueue.            *)
(***************************************************************************)
EXTENDS Naturals, Sequences

CONSTANT Capacity       \* reports the queue holds

VARIABLES
    queue,              \* reports that wait to be read, as numbers
    newest,             \* the number of the last report that came
    given               \* the number of the last report a read returned
vars == <<queue, newest, given>>

Init == queue = <<>> /\ newest = 0 /\ given = 0

\* A report comes; the oldest makes room for it when the queue is full.
Come ==
    /\ newest' = newest + 1
    /\ queue' = IF Len(queue) < Capacity THEN Append(queue, newest')
                                         ELSE Append(Tail(queue), newest')
    /\ UNCHANGED given

\* A read returns the oldest report, which is newer than any before it.
Give ==
    /\ queue # <<>>
    /\ Head(queue) > given
    /\ given' = Head(queue)
    /\ queue' = Tail(queue)
    /\ UNCHANGED newest

\* The handle is closed.
Forget == queue' = <<>> /\ newest' = 0 /\ given' = 0

Next == Come \/ Give \/ Forget
Spec == Init /\ [][Next]_vars
=============================================================================
