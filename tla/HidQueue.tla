------------------------------ MODULE HidQueue ------------------------------
(***************************************************************************)
(* The input side of hidapi where the system gives no blocking read: a     *)
(* thread per open device collects the reports in a list that hid_read     *)
(* empties.  hid-libusb.c feeds the list from the callback of a transfer   *)
(* that is submitted again each time, hid-mac.c from a callback of a run   *)
(* loop.  The model follows one handle at a time, opened and closed any    *)
(* number of times, with the device unplugged at any moment.               *)
(*                                                                         *)
(* Everything done with dev->mutex held is one step, and so is every       *)
(* access made without it: shutdown_thread, the transfer and the flags of  *)
(* the run loop are read and written between the steps of the other        *)
(* thread.                                                                 *)
(*                                                                         *)
(* A report is its number.  libusb is modelled from how it is called: a    *)
(* transfer in flight ends in one of four ways, its callback runs in       *)
(* whichever thread is inside the library (the reader, or the client in    *)
(* hid_write), and a cancel succeeds only for a transfer in flight that    *)
(* was not cancelled before.                                               *)
(***************************************************************************)
EXTENDS Naturals, Sequences

CONSTANTS
    Backends,       \* which of "libusb" and "mac" are compared
    Faults,         \* which of "unplug", "submit", "fatal", "spurious"
    Limit,          \* 30 in the code: links of the list before one is dropped
    MaxReports      \* bound: reports the device sends to one handle

ASSUME BackendsAssumption == Backends \subseteq {"libusb", "mac"}
ASSUME FaultsAssumption ==
    Faults \subseteq {"unplug", "submit", "fatal", "spurious"}
ASSUME LimitAssumption == Limit \in Nat /\ MaxReports \in Nat

Thread == {"main", "reader"}
Gate == {"start", "shutdown"}       \* the barriers of a device

VARIABLES
    backend,
    device,             \* "present" or "gone"
    at,                 \* where each thread is
    awake,              \* TRUE once a sleeping hid_read was woken
    gate,               \* threads that have arrived at each barrier
    input_reports,
    shutdown_thread,
    disconnected,       \* hid-mac.c
    transfer,           \* libusb: what becomes of dev->transfer
    callback,           \* libusb: the thread inside read_callback, or "none"
    hooked,             \* mac: the report callback is registered
    stop,               \* mac: the run loop was told to stop
    produced,           \* reports the device has sent to this handle
    stored,             \* reports that came to the list
    got,                \* the last report that hid_read returned
    failed              \* TRUE once hid_read has returned -1

threadVars == <<at, awake, gate>>
libusbVars == <<transfer, callback>>
macVars == <<disconnected, hooked, stop>>
queueVars == <<input_reports, stored>>
readVars == <<got, failed>>
vars == <<backend, device, threadVars, libusbVars, macVars, queueVars,
          readVars, shutdown_thread, produced>>

Asleep == {"blocking", "timed"}
Waiting(g) == IF g = "start" THEN "starting" ELSE "shutting"

MainPlace ==
    {"closed", "enumerated", "start", "starting", "idle", "writing", "stop",
     "signal", "cancel", "shutdown", "shutting", "join", "free"} \cup Asleep
ReaderPlace ==
    {"none", "begin", "start", "starting", "test", "events", "cancel", "reap",
     "wake", "shutdown", "shutting", "ended"}

TypeOK ==
    /\ backend \in Backends
    /\ device \in {"present", "gone"}
    /\ at \in [Thread -> MainPlace \cup ReaderPlace]
    /\ at["main"] \in MainPlace
    /\ at["reader"] \in ReaderPlace
    /\ awake \in BOOLEAN
    /\ gate \in [Gate -> 0..1]
    /\ input_reports \in Seq(1..MaxReports)
    /\ Len(input_reports) <= Limit + 2
    /\ shutdown_thread \in BOOLEAN
    /\ disconnected \in BOOLEAN
    /\ transfer \in {"none", "idle", "flying", "completed", "timedout",
                     "cancelled", "nodevice"}
    /\ callback \in Thread \cup {"none"}
    /\ hooked \in BOOLEAN
    /\ stop \in BOOLEAN
    /\ produced \in 0..MaxReports
    /\ stored \in 0..MaxReports
    /\ got \in 0..MaxReports
    /\ failed \in BOOLEAN

\* The fields of a device as calloc leaves them.
Blank ==
    /\ awake = FALSE /\ gate = [g \in Gate |-> 0]
    /\ input_reports = <<>> /\ shutdown_thread = FALSE
    /\ transfer = "none" /\ callback = "none"
    /\ disconnected = FALSE /\ hooked = FALSE /\ stop = FALSE
    /\ produced = 0 /\ stored = 0 /\ got = 0 /\ failed = FALSE

Init ==
    /\ backend \in Backends
    /\ device = "present"
    /\ at = [main |-> "closed", reader |-> "none"]
    /\ Blank

To(t, place) == at' = [at EXCEPT ![t] = place]

-----------------------------------------------------------------------------
(* The list of reports. *)

\* Mutants of Stored: nothing is dropped; what is dropped is the new report.
StoredAll(reports, report) == Append(reports, report)
StoredOld(reports, report) ==
    IF Len(reports) > Limit + 1 THEN reports ELSE Append(reports, report)

\* A report that comes is attached to the end.  The loop that finds the end
\* counts the links and not the entries, so one is dropped when Limit + 2 are
\* there already.
Stored(reports, report) ==
    LET longer == Append(reports, report)
    IN IF Len(reports) > Limit + 1 THEN Tail(longer) ELSE longer

Store ==
    /\ stored' = stored + 1
    /\ input_reports' = Stored(input_reports, stored')

\* pthread_cond_signal and pthread_cond_broadcast: one thread may be asleep.
Wake == awake' = (awake \/ at["main"] \in Asleep)

\* return_data, and hid_read with it: the oldest report goes to the client.
ReturnData ==
    /\ got' = Head(input_reports)
    /\ input_reports' = Tail(input_reports)
    /\ To("main", "idle")
    /\ UNCHANGED <<failed, stored>>

ReturnError == To("main", "idle") /\ failed' = TRUE /\ UNCHANGED <<queueVars, got>>
ReturnNone == To("main", "idle") /\ UNCHANGED <<queueVars, readVars>>

-----------------------------------------------------------------------------
(* Opening a device. *)

\* pthread_barrier_wait.  The second thread to arrive lets both go on.
Past(t, g) == IF g = "start" THEN (IF t = "main" THEN "idle" ELSE "test")
                             ELSE (IF t = "main" THEN "join" ELSE "ended")
Arrive(t, g) ==
    /\ at[t] = g
    /\ IF gate[g] = 0
       THEN gate' = [gate EXCEPT ![g] = 1] /\ To(t, Waiting(g))
       ELSE /\ gate' = [gate EXCEPT ![g] = 0]
            /\ at' = [o \in Thread |->
                        IF o = t \/ at[o] = Waiting(g) THEN Past(o, g) ELSE at[o]]
    /\ UNCHANGED <<backend, device, awake, libusbVars, macVars, queueVars,
                   readVars, shutdown_thread, produced>>

\* The barrier of hid-mac.c waits for its condition without a loop, so a
\* wakeup that nobody sent lets a thread through alone.
SpuriousArrive(t, g) ==
    /\ "spurious" \in Faults /\ backend = "mac"
    /\ at[t] = Waiting(g)
    /\ To(t, Past(t, g))
    /\ UNCHANGED <<backend, device, awake, gate, libusbVars, macVars,
                   queueVars, readVars, shutdown_thread, produced>>

\* hid_open looks for the device in the list of hid_enumerate, and opens it by
\* its path afterwards.
LibusbEnumerate ==
    /\ backend = "libusb"
    /\ at["main"] = "closed" /\ device = "present"
    /\ To("main", "enumerated")
    /\ UNCHANGED <<backend, device, awake, gate, libusbVars, macVars,
                   queueVars, readVars, shutdown_thread, produced>>

MacEnumerate ==
    /\ backend = "mac"
    /\ at["main"] = "closed" /\ device = "present"
    /\ To("main", "enumerated")
    /\ UNCHANGED <<backend, device, awake, gate, libusbVars, macVars,
                   queueVars, readVars, shutdown_thread, produced>>

\* hid_open_path starts the reader and waits for it.  When the device has gone
\* or is not to be had, no thread is left behind.
OpenPath(opened) ==
    /\ at["main"] = "enumerated"
    /\ at' = IF opened THEN [main |-> "start", reader |-> "begin"]
                       ELSE [at EXCEPT !["main"] = "closed"]
    /\ opened => device = "present"
    /\ UNCHANGED <<backend, device, awake, gate, libusbVars, macVars,
                   queueVars, readVars, shutdown_thread, produced>>
LibusbOpen(opened) == backend = "libusb" /\ OpenPath(opened)
MacOpen(opened) == backend = "mac" /\ OpenPath(opened)

-----------------------------------------------------------------------------
(* hid-libusb.c: the transfer and its callback. *)

\* libusb_submit_transfer.
Submit(refused) ==
    IF refused \/ device = "gone" THEN transfer' = "idle" ELSE transfer' = "flying"
Refusals == IF "submit" \in Faults THEN BOOLEAN ELSE {FALSE}

\* What becomes of a transfer in flight: a report, the time limit, the loss of
\* the device.
Complete ==
    /\ transfer = "flying"
    /\ \/ /\ device = "present" /\ produced < MaxReports
          /\ produced' = produced + 1 /\ transfer' = "completed"
       \/ device = "present" /\ transfer' = "timedout" /\ UNCHANGED produced
       \/ device = "gone" /\ transfer' = "nodevice" /\ UNCHANGED produced
    /\ UNCHANGED <<backend, device, threadVars, callback, macVars, queueVars,
                   readVars, shutdown_thread>>

\* The reader comes out of libusb_handle_events.
Handled == CASE at["reader"] = "events" -> "test"
             [] at["reader"] = "reap" -> "wake"
             [] OTHER -> at["reader"]
InLibusb(t) == IF t = "main" THEN at[t] = "writing" ELSE at[t] \in {"events", "reap"}

\* read_callback up to the new submission: a report is stored, and a sleeper
\* woken if it is the only one; a transfer that cannot go on ends the reader.
read_callback(t) ==
    /\ InLibusb(t) /\ callback = "none"
    /\ transfer \in {"completed", "timedout", "cancelled", "nodevice"}
    /\ transfer' = "idle"
    /\ IF transfer = "completed"
       THEN Store /\ (IF input_reports = <<>> THEN Wake ELSE UNCHANGED awake)
       ELSE UNCHANGED <<queueVars, awake>>
    /\ IF transfer \in {"cancelled", "nodevice"}
       THEN /\ shutdown_thread' = TRUE
            /\ (IF t = "reader" THEN To(t, Handled) ELSE UNCHANGED at)
            /\ UNCHANGED callback
       ELSE callback' = t /\ UNCHANGED <<at, shutdown_thread>>
    /\ UNCHANGED <<backend, device, gate, macVars, readVars, produced>>

\* The end of read_callback.
Resubmit(t) ==
    /\ callback = t
    /\ callback' = "none"
    /\ \E refused \in Refusals : Submit(refused)
    /\ shutdown_thread' = (shutdown_thread \/ transfer' = "idle")
    /\ (IF t = "reader" THEN To(t, Handled) ELSE UNCHANGED at)
    /\ UNCHANGED <<backend, device, awake, gate, macVars, queueVars, readVars,
                   produced>>

-----------------------------------------------------------------------------
(* hid-libusb.c: read_thread. *)

\* The first submission, whose result is not looked at.
LibusbBegin ==
    /\ backend = "libusb" /\ at["reader"] = "begin"
    /\ \E refused \in Refusals : Submit(refused)
    /\ To("reader", "start")
    /\ UNCHANGED <<backend, device, awake, gate, callback, macVars, queueVars,
                   readVars, shutdown_thread, produced>>

LibusbTest ==
    /\ backend = "libusb" /\ at["reader"] = "test"
    /\ To("reader", IF shutdown_thread THEN "cancel" ELSE "events")
    /\ UNCHANGED <<backend, device, awake, gate, libusbVars, macVars, queueVars,
                   readVars, shutdown_thread, produced>>

\* libusb_handle_events returns when its time is over or another thread has
\* handled the events, and with an error that ends the loop.
LibusbReturn ==
    /\ backend = "libusb" /\ at["reader"] = "events" /\ callback # "reader"
    /\ \/ To("reader", "test")
       \/ "fatal" \in Faults /\ To("reader", "cancel")
    /\ UNCHANGED <<backend, device, awake, gate, libusbVars, macVars, queueVars,
                   readVars, shutdown_thread, produced>>

\* libusb_cancel_transfer: 0, or an error when there is nothing in flight that
\* was not cancelled before.
CancelTransfer ==
    transfer' = IF transfer = "flying" THEN "cancelled" ELSE transfer

LibusbCancel ==
    /\ backend = "libusb" /\ at["reader"] = "cancel"
    /\ CancelTransfer
    /\ To("reader", IF transfer = "flying" THEN "reap" ELSE "wake")
    /\ UNCHANGED <<backend, device, awake, gate, callback, macVars, queueVars,
                   readVars, shutdown_thread, produced>>

\* The one call of libusb_handle_events finds that the other thread has seen to
\* the cancelled transfer.
LibusbReap ==
    /\ backend = "libusb" /\ at["reader"] = "reap"
    /\ transfer # "cancelled" /\ callback # "reader"
    /\ To("reader", "wake")
    /\ UNCHANGED <<backend, device, awake, gate, libusbVars, macVars, queueVars,
                   readVars, shutdown_thread, produced>>

\* Mutant of LibusbWake: no broadcast.
LibusbWakeSilent ==
    /\ backend = "libusb" /\ at["reader"] = "wake"
    /\ To("reader", "ended")
    /\ UNCHANGED <<backend, device, awake, gate, libusbVars, macVars, queueVars,
                   readVars, shutdown_thread, produced>>

LibusbWake ==
    /\ backend = "libusb" /\ at["reader"] = "wake"
    /\ Wake
    /\ To("reader", "ended")
    /\ UNCHANGED <<backend, device, gate, libusbVars, macVars, queueVars,
                   readVars, shutdown_thread, produced>>

-----------------------------------------------------------------------------
(* hid-libusb.c: what the client calls. *)

\* hid_read and hid_read_timeout, up to the point where they would sleep.
LibusbRead(how) ==
    /\ backend = "libusb" /\ at["main"] = "idle"
    /\ awake' = FALSE
    /\ IF input_reports # <<>> THEN ReturnData
       ELSE IF shutdown_thread THEN ReturnError
       ELSE IF how \in Asleep THEN To("main", how) /\ UNCHANGED <<queueVars, readVars>>
       ELSE ReturnNone
    /\ UNCHANGED <<backend, device, gate, libusbVars, macVars, shutdown_thread,
                   produced>>

\* Mutant of LibusbWoken: the end of the reader first, as in hid-mac.c.
LibusbWokenHasty ==
    /\ backend = "libusb" /\ at["main"] \in Asleep /\ awake
    /\ awake' = FALSE
    /\ IF shutdown_thread THEN ReturnError
       ELSE IF input_reports # <<>> THEN ReturnData
       ELSE UNCHANGED <<at, queueVars, readVars>>
    /\ UNCHANGED <<backend, device, gate, libusbVars, macVars, shutdown_thread,
                   produced>>

\* pthread_cond_wait returns: a report first, then the end of the reader.
LibusbWoken ==
    /\ backend = "libusb" /\ at["main"] \in Asleep /\ awake
    /\ awake' = FALSE
    /\ IF input_reports # <<>> THEN ReturnData
       ELSE IF shutdown_thread THEN ReturnError
       ELSE UNCHANGED <<at, queueVars, readVars>>
    /\ UNCHANGED <<backend, device, gate, libusbVars, macVars, shutdown_thread,
                   produced>>

\* hid_write, while which the client may be the one to run read_callback.
LibusbWrite ==
    /\ backend = "libusb" /\ at["main"] = "idle"
    /\ To("main", "writing")
    /\ UNCHANGED <<backend, device, awake, gate, libusbVars, macVars, queueVars,
                   readVars, shutdown_thread, produced>>
LibusbWritten ==
    /\ at["main"] = "writing" /\ callback # "main"
    /\ To("main", "idle")
    /\ UNCHANGED <<backend, device, awake, gate, libusbVars, macVars, queueVars,
                   readVars, shutdown_thread, produced>>

\* Mutant of LibusbClose: only the cancellation is to stop the reader.
LibusbCloseUnflagged ==
    /\ backend = "libusb" /\ at["main"] = "idle"
    /\ To("main", "cancel")
    /\ UNCHANGED <<backend, device, awake, gate, libusbVars, macVars, queueVars,
                   readVars, shutdown_thread, produced>>

\* hid_close, in its steps: the flag, the cancellation, the wait for the reader,
\* the release of everything.
LibusbClose ==
    /\ backend = "libusb" /\ at["main"] = "idle"
    /\ shutdown_thread' = TRUE
    /\ To("main", "cancel")
    /\ UNCHANGED <<backend, device, awake, gate, libusbVars, macVars, queueVars,
                   readVars, produced>>

LibusbCloseCancel ==
    /\ backend = "libusb" /\ at["main"] = "cancel"
    /\ CancelTransfer
    /\ To("main", "join")
    /\ UNCHANGED <<backend, device, awake, gate, callback, macVars, queueVars,
                   readVars, shutdown_thread, produced>>

-----------------------------------------------------------------------------
(* hid-mac.c: read_thread and what its run loop calls. *)

MacBegin ==
    /\ backend = "mac" /\ at["reader"] = "begin"
    /\ hooked' = TRUE
    /\ To("reader", "start")
    /\ UNCHANGED <<backend, device, awake, gate, disconnected, stop, libusbVars,
                   queueVars, readVars, shutdown_thread, produced>>

MacTest ==
    /\ backend = "mac" /\ at["reader"] = "test"
    /\ To("reader", IF shutdown_thread \/ disconnected THEN "wake" ELSE "events")
    /\ UNCHANGED <<backend, device, awake, gate, libusbVars, macVars, queueVars,
                   readVars, shutdown_thread, produced>>

\* The run loop calls the callback with a report: every report wakes a sleeper.
hid_report_callback ==
    /\ backend = "mac" /\ at["reader"] = "events"
    /\ hooked /\ device = "present" /\ produced < MaxReports
    /\ produced' = produced + 1
    /\ Store
    /\ Wake
    /\ UNCHANGED <<backend, device, at, gate, libusbVars, macVars, readVars,
                   shutdown_thread>>

\* CFRunLoopRunInMode returns: its time is over, the mode has nothing left
\* to wait for, or the loop was told to stop, which counts as an error.
MacTimeout ==
    /\ backend = "mac" /\ at["reader"] = "events"
    /\ To("reader", "test")
    /\ UNCHANGED <<backend, device, awake, gate, libusbVars, macVars, queueVars,
                   readVars, shutdown_thread, produced>>
MacFinished ==
    /\ backend = "mac" /\ at["reader"] = "events" /\ device = "gone"
    /\ disconnected' = TRUE
    /\ To("reader", "wake")
    /\ UNCHANGED <<backend, device, awake, gate, hooked, stop, libusbVars,
                   queueVars, readVars, shutdown_thread, produced>>
MacStopped ==
    /\ backend = "mac" /\ at["reader"] = "events" /\ stop
    /\ stop' = FALSE
    /\ shutdown_thread' = TRUE
    /\ To("reader", "wake")
    /\ UNCHANGED <<backend, device, awake, gate, disconnected, hooked,
                   libusbVars, queueVars, readVars, produced>>

\* Mutant of MacWake: the thread ends without the second barrier.
MacWakeEnds ==
    /\ backend = "mac" /\ at["reader"] = "wake"
    /\ Wake
    /\ To("reader", "ended")
    /\ UNCHANGED <<backend, device, gate, libusbVars, macVars, queueVars,
                   readVars, shutdown_thread, produced>>

MacWake ==
    /\ backend = "mac" /\ at["reader"] = "wake"
    /\ Wake
    /\ To("reader", "shutdown")
    /\ UNCHANGED <<backend, device, gate, libusbVars, macVars, queueVars,
                   readVars, shutdown_thread, produced>>

\* hid_device_removal_callback, called by the run loop of the manager, which
\* the client runs in hid_enumerate (process_pending_events).
hid_device_removal_callback ==
    /\ backend = "mac" /\ at["main"] = "idle" /\ device = "gone"
    /\ disconnected' = TRUE
    /\ stop' = (stop \/ at["reader"] = "events")
    /\ UNCHANGED <<backend, device, threadVars, hooked, libusbVars, queueVars,
                   readVars, shutdown_thread, produced>>

-----------------------------------------------------------------------------
(* hid-mac.c: what the client calls. *)

MacRead(how) ==
    /\ backend = "mac" /\ at["main"] = "idle"
    /\ awake' = FALSE
    /\ IF input_reports # <<>> THEN ReturnData
       ELSE IF disconnected \/ shutdown_thread THEN ReturnError
       ELSE IF how \in Asleep THEN To("main", how) /\ UNCHANGED <<queueVars, readVars>>
       ELSE ReturnNone
    /\ UNCHANGED <<backend, device, gate, libusbVars, macVars, shutdown_thread,
                   produced>>

\* cond_wait and cond_timedwait: the flags come before a report that came too.
MacWoken ==
    /\ backend = "mac" /\ at["main"] \in Asleep /\ awake
    /\ awake' = FALSE
    /\ IF disconnected \/ shutdown_thread THEN ReturnError
       ELSE IF input_reports # <<>> THEN ReturnData
       ELSE UNCHANGED <<at, queueVars, readVars>>
    /\ UNCHANGED <<backend, device, gate, libusbVars, macVars, shutdown_thread,
                   produced>>

\* hid_close, in its steps.
MacClose ==
    /\ backend = "mac" /\ at["main"] = "idle"
    /\ hooked' = (hooked /\ disconnected)
    /\ To("main", "stop")
    /\ UNCHANGED <<backend, device, awake, gate, disconnected, stop, libusbVars,
                   queueVars, readVars, shutdown_thread, produced>>
MacCloseStop ==
    /\ backend = "mac" /\ at["main"] = "stop"
    /\ shutdown_thread' = TRUE
    /\ To("main", "signal")
    /\ UNCHANGED <<backend, device, awake, gate, libusbVars, macVars, queueVars,
                   readVars, produced>>
MacCloseSignal ==
    /\ backend = "mac" /\ at["main"] = "signal"
    /\ stop' = TRUE
    /\ To("main", "shutdown")
    /\ UNCHANGED <<backend, device, awake, gate, disconnected, hooked,
                   libusbVars, queueVars, readVars, shutdown_thread, produced>>

-----------------------------------------------------------------------------
(* Either back end. *)

\* pthread_cond_wait may return for no reason, and the timed wait does when
\* its time is over.
SpuriousWakeup ==
    /\ at["main"] \in Asleep /\ ~awake
    /\ awake' = TRUE
    /\ UNCHANGED <<backend, device, at, gate, libusbVars, macVars, queueVars,
                   readVars, shutdown_thread, produced>>
ReadTimeout ==
    /\ at["main"] = "timed" /\ ~awake
    /\ ReturnNone
    /\ UNCHANGED <<backend, device, awake, gate, libusbVars, macVars,
                   shutdown_thread, produced>>

\* pthread_join, and then the release of the device and its list.
Join ==
    /\ at["main"] = "join" /\ at["reader"] = "ended"
    /\ To("main", "free")
    /\ UNCHANGED <<backend, device, awake, gate, libusbVars, macVars, queueVars,
                   readVars, shutdown_thread, produced>>
Free ==
    /\ at["main"] = "free"
    /\ at' = [main |-> "closed", reader |-> "none"]
    /\ awake' = FALSE /\ gate' = [g \in Gate |-> 0]
    /\ input_reports' = <<>> /\ shutdown_thread' = FALSE
    /\ transfer' = "none" /\ callback' = "none"
    /\ disconnected' = FALSE /\ hooked' = FALSE /\ stop' = FALSE
    /\ produced' = 0 /\ stored' = 0 /\ got' = 0 /\ failed' = FALSE
    /\ UNCHANGED <<backend, device>>

\* The device is pulled out, and plugged in again when no handle is open.
Unplug ==
    /\ "unplug" \in Faults /\ device = "present"
    /\ device' = "gone"
    /\ UNCHANGED <<backend, threadVars, libusbVars, macVars, queueVars,
                   readVars, shutdown_thread, produced>>
Plug ==
    /\ device = "gone" /\ at["main"] = "closed"
    /\ device' = "present"
    /\ UNCHANGED <<backend, threadVars, libusbVars, macVars, queueVars,
                   readVars, shutdown_thread, produced>>

How == Asleep \cup {"poll"}

LibusbNext ==
    \/ LibusbEnumerate \/ \E opened \in BOOLEAN : LibusbOpen(opened)
    \/ Complete
    \/ \E t \in Thread : read_callback(t) \/ Resubmit(t)
    \/ LibusbBegin \/ LibusbTest \/ LibusbReturn \/ LibusbCancel
    \/ LibusbReap \/ LibusbWake
    \/ \E how \in How : LibusbRead(how)
    \/ LibusbWoken \/ LibusbWrite \/ LibusbWritten
    \/ LibusbClose \/ LibusbCloseCancel

MacNext ==
    \/ MacEnumerate \/ \E opened \in BOOLEAN : MacOpen(opened)
    \/ MacBegin \/ MacTest \/ hid_report_callback
    \/ MacTimeout \/ MacFinished \/ MacStopped \/ MacWake
    \/ hid_device_removal_callback
    \/ \E how \in How : MacRead(how)
    \/ MacWoken \/ MacClose \/ MacCloseStop \/ MacCloseSignal

Next ==
    \/ LibusbNext \/ MacNext
    \/ \E t \in Thread, g \in Gate : Arrive(t, g) \/ SpuriousArrive(t, g)
    \/ SpuriousWakeup \/ ReadTimeout \/ Join \/ Free \/ Unplug \/ Plug

\* Both threads go on while they can.  libusb gives up a transfer after five
\* seconds and a wait for events after sixty; the run loop is not relied on to
\* come back by itself.  Nobody has to open, read, write or close.
Fairness ==
    /\ WF_vars(\E t \in Thread : read_callback(t))
    /\ WF_vars(\E t \in Thread : Resubmit(t))
    /\ WF_vars(\E t \in Thread, g \in Gate : Arrive(t, g))
    /\ WF_vars(LibusbBegin \/ LibusbTest \/ LibusbReturn \/ LibusbCancel
               \/ LibusbReap \/ LibusbWake)
    /\ WF_vars(MacBegin \/ MacTest \/ MacStopped \/ MacWake)
    /\ WF_vars(LibusbWoken \/ LibusbWritten \/ LibusbCloseCancel)
    /\ WF_vars(MacWoken \/ MacCloseStop \/ MacCloseSignal)
    /\ WF_vars(Join \/ Free)

Spec == Init /\ [][Next]_vars /\ Fairness
-----------------------------------------------------------------------------
(* Properties. *)

\* What the threads make of the list is a queue that drops its oldest entry.
Queue == INSTANCE ReportQueue WITH
    Capacity <- Limit + 2, queue <- input_reports, newest <- stored, given <- got
QueueSpec == Queue!Spec

\* A hid_read that sleeps is not left asleep when there is a report for it or
\* the flags tell that no more will come (the broadcast of read_thread, and
\* pthread_cond_signal only for the first report in the list).
ReadReturns ==
    (at["main"] \in Asleep /\ (input_reports # <<>> \/ shutdown_thread \/ disconnected))
        ~> at["main"] \notin Asleep

\* hid_close gets its reader to end, wherever it finds it.
CloseReturns ==
    at["main"] \in {"cancel", "stop", "signal", "shutdown", "shutting", "join"}
        ~> at["main"] = "closed"

\* With libusb a read that fails is final: what came before the loss of the
\* device was read before, and nothing comes after.
FailedIsFinal ==
    backend = "libusb" /\ failed => input_reports = <<>>

\* The reader is still there when hid_close wakes its run loop, which is what
\* the second barrier of hid-mac.c is for; only a wakeup that nobody sent, which
\* leaves that barrier with a thread counted, lets the reader go before.
RunLoopValid ==
    at["main"] = "signal" /\ at["reader"] = "ended" => gate["shutdown"] = 1

\* libusb is done with the transfer when hid_close frees it after the reader
\* has ended, as the last comment of read_thread says.
FreedIsIdle ==
    at["main"] = "free" => transfer \in {"none", "idle"}
=============================================================================
