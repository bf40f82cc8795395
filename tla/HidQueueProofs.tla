--------------------------- MODULE HidQueueProofs ---------------------------
(***************************************************************************)
(* Theorems about HidQueue, for either back end, any faults, any length of  *)
(* the list and any number of reports.                                     *)
(***************************************************************************)
EXTENDS HidQueue, SequenceTheorems, TLAPS

-----------------------------------------------------------------------------
(* The inductive invariant.                                                *)

\* Reports in the list have been sent, and one that waits in the transfer is
\* not among them.
Counted ==
    /\ stored <= produced
    /\ transfer = "completed" => stored < produced

\* The list holds the last reports that came, one after the other.
Consecutive ==
    /\ got + Len(input_reports) <= stored
    /\ \A i \in 1 .. Len(input_reports) :
          input_reports[i] = stored - Len(input_reports) + i

\* A handle has a reader from hid_open to hid_close.
Paired == at["main"] \in {"closed", "enumerated"} <=> at["reader"] = "none"

\* The first barrier, in hid-libusb.c where it is a real one: the client does
\* not come out of hid_open before its reader has submitted the transfer.
Early == {"begin", "start", "starting"}
LibusbStarting ==
    backend = "libusb" =>
        /\ at["main"] # "signal"
        /\ at["main"] \in {"start", "starting"} <=> at["reader"] \in Early
        /\ gate["start"] = 1 <=>
              at["main"] = "starting" \/ at["reader"] = "starting"
        /\ ~ (at["main"] = "starting" /\ at["reader"] = "starting")

\* The callback runs in a thread that is in the library, and the transfer is
\* then not in flight.
LibusbCalls ==
    backend = "libusb" =>
        /\ callback = "main" => at["main"] = "writing"
        /\ callback = "reader" => at["reader"] \in {"events", "reap"}
        /\ callback # "none" => transfer = "idle"

\* Before hid_close the flag is up only when the transfer is over for good.
Using == {"closed", "enumerated", "start", "starting", "idle", "writing"} \cup Asleep
Over == transfer = "idle" /\ callback = "none"
LibusbOver ==
    backend = "libusb" =>
        /\ shutdown_thread => at["reader"] \notin {"none"} \cup Early
        /\ shutdown_thread /\ at["main"] \in Using => Over
        /\ failed => shutdown_thread /\ Over /\ input_reports = <<>>

\* The second barrier of hid-mac.c counts the reader, also when a wakeup let it
\* through, until the client comes to it.
MacStopping ==
    backend = "mac" /\ at["main"] \notin {"shutting", "join", "free"} =>
        (gate["shutdown"] = 1 <=> at["reader"] \in {"shutting", "ended"})

IInv ==
    /\ TypeOK /\ Counted /\ Consecutive /\ Paired /\ LibusbStarting
    /\ LibusbCalls /\ LibusbOver /\ MacStopping

-----------------------------------------------------------------------------
(* What happens to the list.                                               *)

\* A report that comes is the next number at the end; the oldest goes when the
\* list has Limit + 2 entries, and what stays is still in a row.
LEMMA StoreKeeps ==
    ASSUME TypeOK, Consecutive, Store, stored < MaxReports, got' = got
    PROVE  /\ input_reports' \in Seq(1 .. MaxReports)
           /\ Len(input_reports') <= Limit + 2
           /\ stored' \in 0 .. MaxReports
           /\ Consecutive'
           /\ Queue!Come
<1> DEFINE longer == Append(input_reports, stored')
<1>1. /\ input_reports \in Seq(1 .. MaxReports) /\ stored' = stored + 1
      /\ stored' \in 1 .. MaxReports /\ got \in Nat /\ stored \in Nat
  BY LimitAssumption DEF TypeOK, Store
<1>2. /\ longer \in Seq(1 .. MaxReports) /\ Len(longer) = Len(input_reports) + 1
      /\ longer # <<>> /\ Len(input_reports) \in Nat
      /\ \A i \in 1 .. Len(longer) : longer[i] = stored' - Len(longer) + i
  <2>1. /\ longer \in Seq(1 .. MaxReports) /\ Len(longer) = Len(input_reports) + 1
        /\ longer # <<>> /\ Len(input_reports) \in Nat
        /\ \A i \in 1 .. Len(input_reports) : longer[i] = input_reports[i]
        /\ longer[Len(longer)] = stored'
    BY <1>1, AppendProperties
  <2> QED BY <1>1, <2>1 DEF Consecutive
<1>3. CASE Len(input_reports) > Limit + 1
  <2>1. input_reports # <<>> /\ Len(input_reports) = Limit + 2
    BY <1>1, <1>3, LimitAssumption DEF TypeOK
  <2>2. input_reports' = Tail(longer)
    BY <1>3 DEF Store, Stored
  <2>3. Tail(longer) = Append(Tail(input_reports), stored')
    BY <1>1, <2>1, HeadTailAppend
  <2> HIDE DEF longer
  <2>4. /\ Tail(longer) \in Seq(1 .. MaxReports)
        /\ Len(Tail(longer)) = Len(longer) - 1
        /\ \A i \in 1 .. Len(Tail(longer)) : Tail(longer)[i] = longer[i + 1]
    BY <1>1, <1>2, HeadTailProperties
  <2>5. got' + Len(input_reports') <= stored'
    BY <1>1, <1>2, <2>2, <2>4 DEF Consecutive
  <2>6. ASSUME NEW i \in 1 .. Len(input_reports')
        PROVE  input_reports'[i] = stored' - Len(input_reports') + i
    <3>1. i \in 1 .. Len(Tail(longer)) /\ i + 1 \in 1 .. Len(longer)
      BY <1>2, <2>2, <2>4
    <3>2. input_reports'[i] = longer[i + 1]
      BY <2>2, <2>4, <3>1
    <3>3. longer[i + 1] = stored' - Len(longer) + (i + 1)
      BY <1>2, <3>1
    <3> QED BY <1>1, <1>2, <2>2, <2>4, <3>1, <3>2, <3>3
  <2>7. Consecutive'
    BY <2>5, <2>6 DEF Consecutive
  <2> QED BY <1>1, <1>2, <2>1, <2>2, <2>3, <2>4, <2>7, LimitAssumption DEF Queue!Come
<1>4. CASE Len(input_reports) <= Limit + 1
  <2>1. input_reports' = longer
    BY <1>1, <1>4, LimitAssumption DEF Store, Stored
  <2>2. Consecutive'
    BY <1>1, <1>2, <2>1 DEF Consecutive
  <2> QED BY <1>1, <1>2, <1>4, <2>1, <2>2, LimitAssumption DEF Queue!Come
<1> QED BY <1>1, <1>3, <1>4, LimitAssumption

\* A read returns the oldest report, and the rest is still in a row.
LEMMA ReturnKeeps ==
    ASSUME TypeOK, Consecutive, input_reports # <<>>, ReturnData
    PROVE  /\ input_reports' \in Seq(1 .. MaxReports)
           /\ Len(input_reports') <= Limit + 2
           /\ got' \in 0 .. MaxReports
           /\ Consecutive'
           /\ Queue!Give
<1>1. /\ input_reports \in Seq(1 .. MaxReports) /\ Len(input_reports) >= 1
      /\ got \in Nat /\ stored \in 0 .. MaxReports /\ stored' = stored
      /\ input_reports' = Tail(input_reports) /\ got' = Head(input_reports)
  BY LimitAssumption, EmptySeq DEF TypeOK, ReturnData
<1>2. /\ Head(input_reports) = input_reports[1]
      /\ Tail(input_reports) \in Seq(1 .. MaxReports)
      /\ Len(Tail(input_reports)) = Len(input_reports) - 1
      /\ \A i \in 1 .. Len(Tail(input_reports)) :
            Tail(input_reports)[i] = input_reports[i + 1]
  BY <1>1, HeadTailProperties
<1>3. got' = stored - Len(input_reports) + 1 /\ got' > got /\ got' \in 0 .. MaxReports
  BY <1>1, <1>2, LimitAssumption DEF Consecutive
<1>4. Consecutive'
  BY <1>1, <1>2, <1>3 DEF Consecutive
<1> QED BY <1>1, <1>2, <1>3, <1>4, LimitAssumption DEF TypeOK, Queue!Give

-----------------------------------------------------------------------------
(* Every step keeps the invariant.  The steps that change the list come first. *)

\* A callback that runs at the end of a transfer.
LEMMA CallbackKeeps ==
    ASSUME IInv, NEW t \in Thread, read_callback(t)
    PROVE  IInv'
<1>1. CASE transfer = "completed"
  <2>1. /\ Store /\ got' = got /\ stored < MaxReports /\ stored' = stored + 1
        /\ backend' = backend /\ device' = device /\ gate' = gate
        /\ produced' = produced /\ failed' = failed /\ transfer' = "idle"
        /\ callback' = t /\ at' = at /\ shutdown_thread' = shutdown_thread
        /\ disconnected' = disconnected /\ hooked' = hooked /\ stop' = stop
        /\ awake' \in BOOLEAN /\ callback = "none" /\ InLibusb(t)
    <3>1. awake' \in BOOLEAN
      BY <1>1 DEF IInv, TypeOK, read_callback, Wake, Asleep
    <3> QED BY <1>1, <3>1, LimitAssumption
            DEF IInv, TypeOK, Counted, read_callback, readVars, macVars, Store
  <2>2. /\ input_reports' \in Seq(1 .. MaxReports) /\ Len(input_reports') <= Limit + 2
        /\ stored' \in 0 .. MaxReports /\ Consecutive'
    BY <2>1, StoreKeeps DEF IInv
  <2>3. TypeOK'
    BY <2>1, <2>2 DEF IInv, TypeOK, MainPlace, ReaderPlace, Thread
  <2>4. Counted'
    BY <1>1, <2>1, LimitAssumption DEF IInv, TypeOK, Counted
  <2>5. Paired' /\ LibusbStarting' /\ MacStopping'
    BY <2>1 DEF IInv, Paired, LibusbStarting, MacStopping
  <2>6. LibusbCalls' /\ LibusbOver'
    BY <1>1, <2>1 DEF IInv, TypeOK, LibusbCalls, LibusbOver, Over, Using, Asleep,
                      InLibusb, Thread
  <2> QED BY <2>2, <2>3, <2>4, <2>5, <2>6 DEF IInv
<1>2. CASE transfer # "completed"
  <2>1. /\ UNCHANGED <<input_reports, stored, awake, readVars, produced>>
        /\ UNCHANGED <<backend, device, gate, macVars>> /\ transfer' = "idle"
        /\ InLibusb(t) /\ callback = "none"
        /\ transfer \in {"timedout", "cancelled", "nodevice"}
    BY <1>2 DEF read_callback, queueVars
  <2>2. \/ at' = at /\ callback' = t /\ shutdown_thread' = shutdown_thread
        \/ at' = at /\ callback' = "none" /\ shutdown_thread' = TRUE
        \/ /\ t = "reader" /\ at' = [at EXCEPT !["reader"] = Handled]
           /\ callback' = "none" /\ shutdown_thread' = TRUE
    BY <2>1 DEF read_callback, To
  <2>3. Handled \in ReaderPlace /\ (InLibusb("reader") => Handled \in {"test", "wake"})
    BY DEF IInv, TypeOK, Handled, InLibusb, ReaderPlace
  <2>4. TypeOK'
    <3>1. shutdown_thread' \in BOOLEAN /\ callback' \in Thread \cup {"none"}
      BY <2>2 DEF IInv, TypeOK
    <3>2. /\ at' \in [Thread -> MainPlace \cup ReaderPlace]
          /\ at'["main"] \in MainPlace /\ at'["reader"] \in ReaderPlace
      BY <2>2, <2>3 DEF IInv, TypeOK, Thread
    <3> QED BY <2>1, <3>1, <3>2 DEF IInv, TypeOK, readVars, macVars
  <2>5. Counted' /\ Consecutive'
    BY <2>1 DEF IInv, Counted, Consecutive, readVars
  <2>6. Paired' /\ LibusbStarting' /\ MacStopping'
    BY <2>1, <2>2, <2>3 DEF IInv, TypeOK, Paired, LibusbStarting, Early, MacStopping,
                            InLibusb, Thread, ReaderPlace
  <2>7. LibusbCalls'
    BY <2>1, <2>2 DEF IInv, LibusbCalls, InLibusb, Thread
  <2>8. LibusbOver'
    <3>1. CASE at' = at /\ callback' = t /\ shutdown_thread' = shutdown_thread
      BY <2>1, <3>1 DEF IInv, LibusbOver, Over, readVars
    <3>2. CASE callback' = "none"
      <4>1. backend = "libusb" /\ InLibusb(t) => at["reader"] \notin {"none"} \cup Early
        BY DEF IInv, TypeOK, Paired, LibusbStarting, InLibusb, Thread, Early
      <4>2. backend = "libusb" => at'["reader"] \notin {"none"} \cup Early
        BY <2>1, <2>2, <2>3, <4>1 DEF IInv, TypeOK, InLibusb, Thread, Early
      <4> QED BY <2>1, <2>2, <3>2, <4>2 DEF IInv, LibusbOver, Over, readVars
    <3> QED BY <2>2, <3>1, <3>2
  <2> QED BY <2>4, <2>5, <2>6, <2>7, <2>8 DEF IInv
<1> QED BY <1>1, <1>2

\* A report of the run loop.
LEMMA ReportKeeps ==
    ASSUME IInv, hid_report_callback
    PROVE  IInv'
<1>1. /\ Store /\ got' = got /\ stored < MaxReports /\ stored' = stored + 1
      /\ produced' = produced + 1 /\ produced < MaxReports /\ backend = "mac"
      /\ awake' \in BOOLEAN
  BY LimitAssumption DEF IInv, TypeOK, Counted, hid_report_callback, readVars, Store,
                         Wake, Asleep
<1>2. UNCHANGED <<backend, device, at, gate, libusbVars, macVars, failed, shutdown_thread>>
  BY DEF hid_report_callback, readVars
<1>3. /\ input_reports' \in Seq(1 .. MaxReports) /\ Len(input_reports') <= Limit + 2
      /\ stored' \in 0 .. MaxReports /\ Consecutive'
  BY <1>1, StoreKeeps DEF IInv
<1>4. TypeOK'
  BY <1>1, <1>2, <1>3, LimitAssumption
     DEF IInv, TypeOK, libusbVars, macVars, MainPlace, ReaderPlace, Thread
<1>5. Counted'
  BY <1>1, <1>2, LimitAssumption DEF IInv, TypeOK, Counted, libusbVars
<1>6. Paired' /\ LibusbStarting' /\ LibusbCalls' /\ LibusbOver' /\ MacStopping'
  BY <1>1, <1>2 DEF IInv, Paired, LibusbStarting, LibusbCalls, LibusbOver, MacStopping
<1> QED BY <1>3, <1>4, <1>5, <1>6 DEF IInv

\* A read that returns a report, for either back end.
LEMMA DataKeeps ==
    ASSUME IInv, at["main"] \in {"idle"} \cup Asleep, input_reports # <<>>,
           ReturnData, awake' = FALSE,
           UNCHANGED <<backend, device, gate, libusbVars, macVars, shutdown_thread, produced>>
    PROVE  IInv'
<1>1. /\ input_reports' \in Seq(1 .. MaxReports) /\ Len(input_reports') <= Limit + 2
      /\ got' \in 0 .. MaxReports /\ Consecutive'
  BY ReturnKeeps DEF IInv
<1>2. /\ at' = [at EXCEPT !["main"] = "idle"] /\ failed' = failed /\ stored' = stored
  BY DEF ReturnData, To
<1>3. TypeOK'
  BY <1>1, <1>2 DEF IInv, TypeOK, libusbVars, macVars, MainPlace, ReaderPlace, Thread
<1>4. Counted' /\ Paired' /\ LibusbStarting'
  BY <1>2 DEF IInv, TypeOK, Counted, Paired, LibusbStarting, Early, libusbVars,
              Asleep, Thread
<1>5. LibusbCalls' /\ LibusbOver' /\ MacStopping'
  BY <1>2 DEF IInv, TypeOK, LibusbCalls, LibusbOver, Over, Using, Early, MacStopping,
              libusbVars, Asleep, Thread
<1> QED BY <1>1, <1>3, <1>4, <1>5 DEF IInv

\* A read that returns nothing or an error, or sleeps.
LEMMA EmptyKeeps ==
    ASSUME IInv, at["main"] \in {"idle"} \cup Asleep, input_reports = <<>>,
           NEW place \in {"idle"} \cup Asleep, at' = [at EXCEPT !["main"] = place],
           awake' \in BOOLEAN, failed' = failed \/ failed' = TRUE,
           backend = "libusb" /\ failed' # failed => shutdown_thread,
           UNCHANGED <<backend, device, gate, libusbVars, macVars, shutdown_thread, produced,
                       input_reports, stored, got>>
    PROVE  IInv'
<1>1. TypeOK'
  <2>1. failed' \in BOOLEAN
    BY DEF IInv, TypeOK
  <2> QED BY <2>1 DEF IInv, TypeOK, libusbVars, macVars, MainPlace, ReaderPlace, Thread,
                      Asleep
<1>2. Counted' /\ Consecutive' /\ Paired' /\ LibusbStarting'
  BY DEF IInv, TypeOK, Counted, Consecutive, Paired, LibusbStarting, Early, libusbVars,
         Asleep, Thread
<1>3. LibusbCalls' /\ LibusbOver' /\ MacStopping'
  BY DEF IInv, TypeOK, LibusbCalls, LibusbOver, Over, Using, Early, MacStopping,
         libusbVars, Asleep, Thread
<1> QED BY <1>1, <1>2, <1>3 DEF IInv

\* A read of hid-mac.c that fails, whether or not a report waits.
LEMMA ErrorKeeps ==
    ASSUME IInv, backend = "mac", at["main"] \in {"idle"} \cup Asleep, ReturnError,
           awake' = FALSE,
           UNCHANGED <<backend, device, gate, libusbVars, macVars, shutdown_thread, produced>>
    PROVE  IInv'
<1>1. TypeOK'
  BY DEF IInv, TypeOK, libusbVars, macVars, MainPlace, ReaderPlace, Thread, ReturnError,
         To, queueVars
<1>2. Counted' /\ Consecutive' /\ Paired' /\ LibusbStarting'
  BY DEF IInv, TypeOK, Counted, Consecutive, Paired, LibusbStarting, libusbVars,
         Asleep, Thread, ReturnError, To, queueVars
<1>3. LibusbCalls' /\ LibusbOver' /\ MacStopping'
  BY DEF IInv, TypeOK, LibusbCalls, LibusbOver, MacStopping, Asleep, Thread,
         ReturnError, To
<1> QED BY <1>1, <1>2, <1>3 DEF IInv

LEMMA LibusbReadKeeps ==
    ASSUME IInv, NEW how \in How, LibusbRead(how)
    PROVE  IInv'
<1>1. /\ at["main"] \in {"idle"} \cup Asleep /\ awake' = FALSE
      /\ backend = "libusb"
      /\ UNCHANGED <<backend, device, gate, libusbVars, macVars, shutdown_thread,
                     produced>>
  BY DEF LibusbRead
<1>2. CASE input_reports # <<>> /\ ReturnData
  BY <1>1, <1>2, DataKeeps
<1>3. CASE ReturnError /\ input_reports = <<>> /\ (shutdown_thread)
  BY <1>1, <1>3, EmptyKeeps DEF ReturnError, To, queueVars
<1>4. CASE input_reports = <<>> /\ how \in Asleep /\ at' = [at EXCEPT !["main"] = how] /\ UNCHANGED <<queueVars, readVars>>
  BY <1>1, <1>4, EmptyKeeps DEF queueVars, readVars, Asleep
<1>5. CASE input_reports = <<>> /\ ReturnNone
  BY <1>1, <1>5, EmptyKeeps DEF ReturnNone, To, queueVars, readVars
<1> QED BY <1>1, <1>2, <1>3, <1>4, <1>5 DEF To, LibusbRead

LEMMA LibusbWokenKeeps ==
    ASSUME IInv, LibusbWoken
    PROVE  IInv'
<1>1. /\ at["main"] \in {"idle"} \cup Asleep /\ awake' = FALSE
      /\ backend = "libusb"
      /\ UNCHANGED <<backend, device, gate, libusbVars, macVars, shutdown_thread,
                     produced>>
  BY DEF LibusbWoken
<1>2. CASE input_reports # <<>> /\ ReturnData
  BY <1>1, <1>2, DataKeeps
<1>3. CASE ReturnError /\ input_reports = <<>> /\ (shutdown_thread)
  BY <1>1, <1>3, EmptyKeeps DEF ReturnError, To, queueVars
<1>4. CASE input_reports = <<>> /\ at' = [at EXCEPT !["main"] = at["main"]] /\ UNCHANGED <<queueVars, readVars>>
  BY <1>1, <1>4, EmptyKeeps DEF queueVars, readVars, Asleep
<1> QED BY <1>1, <1>2, <1>3, <1>4 DEF IInv, TypeOK, Thread, LibusbWoken

LEMMA MacReadKeeps ==
    ASSUME IInv, NEW how \in How, MacRead(how)
    PROVE  IInv'
<1>1. /\ at["main"] \in {"idle"} \cup Asleep /\ awake' = FALSE
      /\ backend = "mac"
      /\ UNCHANGED <<backend, device, gate, libusbVars, macVars, shutdown_thread,
                     produced>>
  BY DEF MacRead
<1>2. CASE input_reports # <<>> /\ ReturnData
  BY <1>1, <1>2, DataKeeps
<1>3. CASE ReturnError /\ input_reports = <<>> /\ (disconnected \/ shutdown_thread)
  BY <1>1, <1>3, EmptyKeeps DEF ReturnError, To, queueVars
<1>4. CASE input_reports = <<>> /\ how \in Asleep /\ at' = [at EXCEPT !["main"] = how] /\ UNCHANGED <<queueVars, readVars>>
  BY <1>1, <1>4, EmptyKeeps DEF queueVars, readVars, Asleep
<1>5. CASE input_reports = <<>> /\ ReturnNone
  BY <1>1, <1>5, EmptyKeeps DEF ReturnNone, To, queueVars, readVars
<1> QED BY <1>1, <1>2, <1>3, <1>4, <1>5 DEF To, MacRead

LEMMA MacWokenKeeps ==
    ASSUME IInv, MacWoken
    PROVE  IInv'
<1>1. /\ at["main"] \in {"idle"} \cup Asleep /\ awake' = FALSE
      /\ backend = "mac"
      /\ UNCHANGED <<backend, device, gate, libusbVars, macVars, shutdown_thread,
                     produced>>
  BY DEF MacWoken
<1>2. CASE input_reports # <<>> /\ ReturnData
  BY <1>1, <1>2, DataKeeps
<1>3. CASE ReturnError
  BY <1>1, <1>3, ErrorKeeps
<1>4. CASE input_reports = <<>> /\ at' = [at EXCEPT !["main"] = at["main"]] /\ UNCHANGED <<queueVars, readVars>>
  BY <1>1, <1>4, EmptyKeeps DEF queueVars, readVars, Asleep
<1> QED BY <1>1, <1>2, <1>3, <1>4 DEF IInv, TypeOK, Thread, MacWoken

\* The end of hid_close forgets everything.
LEMMA FreeKeeps ==
    ASSUME IInv, Free
    PROVE  IInv'
<1>1. TypeOK'
  <2>1. /\ shutdown_thread' \in BOOLEAN /\ awake' \in BOOLEAN /\ failed' \in BOOLEAN
        /\ disconnected' \in BOOLEAN /\ hooked' \in BOOLEAN /\ stop' \in BOOLEAN
    BY DEF Free
  <2>2. input_reports' \in Seq(1 .. MaxReports) /\ Len(input_reports') = 0
    BY DEF Free
  <2>3. /\ at' \in [Thread -> MainPlace \cup ReaderPlace]
        /\ at'["main"] \in MainPlace /\ at'["reader"] \in ReaderPlace
    BY DEF Free, Thread, MainPlace, ReaderPlace
  <2> QED BY <2>1, <2>2, <2>3, LimitAssumption DEF IInv, TypeOK, Free, Gate
<1>2. Counted' /\ Consecutive' /\ Paired' /\ LibusbStarting'
  BY DEF Free, Counted, Consecutive, Paired, LibusbStarting, Early, Gate
<1>3. LibusbCalls' /\ LibusbOver' /\ MacStopping'
  BY DEF Free, LibusbCalls, LibusbOver, MacStopping, Gate
<1> QED BY <1>1, <1>2, <1>3 DEF IInv

\* The run loop that was stopped.
LEMMA StoppedKeeps ==
    ASSUME IInv, MacStopped
    PROVE  IInv'
<1>1. TypeOK'
  BY DEF IInv, TypeOK, MacStopped, To, MainPlace, ReaderPlace, Thread, libusbVars,
         queueVars, readVars
<1>2. Counted' /\ Consecutive' /\ Paired' /\ LibusbStarting'
  BY DEF IInv, TypeOK, Counted, Consecutive, Paired, LibusbStarting, MacStopped, To,
         Thread, libusbVars, queueVars, readVars
<1>3. LibusbCalls' /\ LibusbOver' /\ MacStopping'
  BY DEF IInv, TypeOK, LibusbCalls, LibusbOver, MacStopping, MacStopped, To, Thread
<1> QED BY <1>1, <1>2, <1>3 DEF IInv

\* A step that does nothing to the model.
LEMMA StutterKeeps ==
    ASSUME IInv, UNCHANGED vars
    PROVE  IInv'
BY DEF IInv, TypeOK, Counted, Consecutive, Paired, LibusbStarting, LibusbCalls, LibusbOver,
       Over, MacStopping, vars, threadVars, libusbVars, macVars, queueVars, readVars

\* Every step keeps the invariant; those above have a lemma of their own.
LEMMA NextKeeps ==
    ASSUME IInv, [Next]_vars
    PROVE  IInv'
<1> USE LimitAssumption
    DEF IInv, TypeOK, MainPlace, ReaderPlace, Thread, Gate, Asleep, Counted, Consecutive,
        Paired, LibusbStarting, Early, LibusbCalls, LibusbOver, Over, Using, MacStopping
<1>1. ASSUME LibusbEnumerate PROVE IInv'
  BY <1>1 DEF LibusbEnumerate, To, libusbVars, macVars, queueVars, readVars
<1>2. ASSUME MacEnumerate PROVE IInv'
  BY <1>2 DEF MacEnumerate, To, libusbVars, macVars, queueVars, readVars
<1>3. ASSUME NEW opened \in BOOLEAN, LibusbOpen(opened)
      PROVE  IInv'
  BY <1>3 DEF LibusbOpen, OpenPath, libusbVars, macVars, queueVars, readVars
<1>4. ASSUME NEW opened \in BOOLEAN, MacOpen(opened)
      PROVE  IInv'
  BY <1>4 DEF MacOpen, OpenPath, libusbVars, macVars, queueVars, readVars
<1>5. ASSUME Complete PROVE IInv'
  BY <1>5 DEF Complete, threadVars, macVars, queueVars, readVars
<1>6. ASSUME NEW t \in Thread, Resubmit(t)
      PROVE  IInv'
  BY <1>6 DEF Resubmit, Refusals, Submit, To, Handled, macVars, queueVars,
       readVars
<1>7. ASSUME LibusbBegin PROVE IInv'
  BY <1>7 DEF LibusbBegin, Refusals, Submit, To, macVars, queueVars, readVars
<1>8. ASSUME LibusbTest PROVE IInv'
  BY <1>8 DEF LibusbTest, To, libusbVars, macVars, queueVars, readVars
<1>9. ASSUME LibusbReturn PROVE IInv'
  BY <1>9 DEF LibusbReturn, To, libusbVars, macVars, queueVars, readVars
<1>10. ASSUME LibusbCancel PROVE IInv'
  BY <1>10 DEF LibusbCancel, CancelTransfer, To, macVars, queueVars, readVars
<1>11. ASSUME LibusbReap PROVE IInv'
  BY <1>11 DEF LibusbReap, To, libusbVars, macVars, queueVars, readVars
<1>12. ASSUME LibusbWake PROVE IInv'
  BY <1>12 DEF LibusbWake, Wake, To, libusbVars, macVars, queueVars, readVars
<1>13. ASSUME LibusbWrite PROVE IInv'
  BY <1>13 DEF LibusbWrite, To, libusbVars, macVars, queueVars, readVars
<1>14. ASSUME LibusbWritten PROVE IInv'
  BY <1>14 DEF LibusbWritten, To, libusbVars, macVars, queueVars, readVars
<1>15. ASSUME LibusbClose PROVE IInv'
  BY <1>15 DEF LibusbClose, To, libusbVars, macVars, queueVars, readVars
<1>16. ASSUME LibusbCloseCancel PROVE IInv'
  BY <1>16 DEF LibusbCloseCancel, CancelTransfer, To, macVars, queueVars,
       readVars
<1>17. ASSUME MacBegin PROVE IInv'
  BY <1>17 DEF MacBegin, To, libusbVars, queueVars, readVars
<1>18. ASSUME MacTest PROVE IInv'
  BY <1>18 DEF MacTest, To, libusbVars, macVars, queueVars, readVars
<1>19. ASSUME MacTimeout PROVE IInv'
  BY <1>19 DEF MacTimeout, To, libusbVars, macVars, queueVars, readVars
<1>20. ASSUME MacFinished PROVE IInv'
  BY <1>20 DEF MacFinished, To, libusbVars, queueVars, readVars
<1>21. ASSUME MacWake PROVE IInv'
  BY <1>21 DEF MacWake, Wake, To, libusbVars, macVars, queueVars, readVars
<1>22. ASSUME hid_device_removal_callback PROVE IInv'
  BY <1>22 DEF hid_device_removal_callback, threadVars, libusbVars, queueVars,
       readVars
<1>23. ASSUME MacClose PROVE IInv'
  BY <1>23 DEF MacClose, To, libusbVars, queueVars, readVars
<1>24. ASSUME MacCloseStop PROVE IInv'
  BY <1>24 DEF MacCloseStop, To, libusbVars, macVars, queueVars, readVars
<1>25. ASSUME MacCloseSignal PROVE IInv'
  BY <1>25 DEF MacCloseSignal, To, libusbVars, queueVars, readVars
<1>26. ASSUME NEW t \in Thread, NEW g \in Gate, Arrive(t,g)
       PROVE  IInv'
  BY <1>26 DEF Arrive, To, Waiting, Past, libusbVars, macVars, queueVars,
       readVars
<1>27. ASSUME NEW t \in Thread, NEW g \in Gate, SpuriousArrive(t,g)
       PROVE  IInv'
  BY <1>27 DEF SpuriousArrive, Waiting, To, Past, libusbVars, macVars,
       queueVars, readVars
<1>28. ASSUME SpuriousWakeup PROVE IInv'
  BY <1>28 DEF SpuriousWakeup, libusbVars, macVars, queueVars, readVars
<1>29. ASSUME ReadTimeout PROVE IInv'
  BY <1>29 DEF ReadTimeout, ReturnNone, To, queueVars, readVars, libusbVars,
       macVars
<1>30. ASSUME Join PROVE IInv'
  BY <1>30 DEF Join, To, libusbVars, macVars, queueVars, readVars
<1>31. ASSUME Unplug PROVE IInv'
  BY <1>31 DEF Unplug, threadVars, libusbVars, macVars, queueVars, readVars
<1>32. ASSUME Plug PROVE IInv'
  BY <1>32 DEF Plug, threadVars, libusbVars, macVars, queueVars, readVars
<1> HIDE DEF IInv, Thread, Gate
<1>33. ASSUME LibusbNext PROVE IInv'
  BY ONLY IInv, <1>33, <1>1, <1>3, <1>5, CallbackKeeps, <1>6, <1>7, <1>8, <1>9,
     <1>10, <1>11, <1>12, LibusbReadKeeps, LibusbWokenKeeps, <1>13, <1>14, <1>15,
     <1>16 DEF LibusbNext
<1>34. ASSUME MacNext PROVE IInv'
  BY ONLY IInv, <1>34, <1>2, <1>4, <1>17, <1>18, ReportKeeps, <1>19, <1>20,
     StoppedKeeps, <1>21, <1>22, MacReadKeeps, MacWokenKeeps, <1>23, <1>24, <1>25
     DEF MacNext
<1> QED BY ONLY IInv, [Next]_vars, <1>33, <1>34, StutterKeeps, <1>26, <1>27, <1>28,
     <1>29, <1>30, FreeKeeps, <1>31, <1>32 DEF Next

-----------------------------------------------------------------------------
(* The theorems.                                                           *)

LEMMA InitHolds == Init => IInv
<1> SUFFICES ASSUME Init PROVE IInv
  OBVIOUS
<1>1. TypeOK
  <2>1. /\ at \in [Thread -> MainPlace \cup ReaderPlace]
        /\ at["main"] \in MainPlace /\ at["reader"] \in ReaderPlace
    BY DEF Init, Thread, MainPlace, ReaderPlace
  <2>2. input_reports \in Seq(1 .. MaxReports) /\ Len(input_reports) = 0
    BY DEF Init, Blank
  <2>3. /\ awake \in BOOLEAN /\ shutdown_thread \in BOOLEAN /\ disconnected \in BOOLEAN
        /\ hooked \in BOOLEAN /\ stop \in BOOLEAN /\ failed \in BOOLEAN
    BY DEF Init, Blank
  <2> QED BY <2>1, <2>2, <2>3, LimitAssumption DEF Init, Blank, TypeOK, Gate
<1>2. Counted /\ Consecutive /\ Paired /\ LibusbStarting
  BY DEF Init, Blank, Counted, Consecutive, Paired, LibusbStarting, Early, Gate
<1>3. LibusbCalls /\ LibusbOver /\ MacStopping
  BY DEF Init, Blank, LibusbCalls, LibusbOver, MacStopping, Gate
<1> QED BY <1>1, <1>2, <1>3 DEF IInv

\* What the other theorems follow from: the list holds the last reports in a
\* row, a flag that is up before hid_close means that the transfer is over for
\* good, and the second barrier counts the reader.
THEOREM IInvHolds == Spec => []IInv
<1>1. Init => IInv
  BY InitHolds
<1>2. IInv /\ [Next]_vars => IInv'
  BY NextKeeps
<1> QED BY <1>1, <1>2, PTL DEF Spec

\* Every variable of HidQueue keeps its type, and the list never holds more
\* than Limit + 2 reports.
THEOREM TypeCorrect == Spec => []TypeOK
<1>1. IInv => TypeOK
  BY DEF IInv
<1> QED BY <1>1, IInvHolds, PTL

\* With hid-libusb.c a failed read is the last word about a handle, whatever
\* callbacks run in whichever thread.
THEOREM FailureFinal == Spec => []FailedIsFinal
<1>1. IInv => FailedIsFinal
  BY DEF IInv, LibusbOver, FailedIsFinal
<1> QED BY <1>1, IInvHolds, PTL

\* hid_close of hid-mac.c finds the reader there when it wakes its run loop, but
\* for a wakeup that nobody sent.
THEOREM RunLoopThere == Spec => []RunLoopValid
<1>1. IInv => RunLoopValid
  BY BackendsAssumption DEF IInv, TypeOK, LibusbStarting, MacStopping, RunLoopValid
<1> QED BY <1>1, IInvHolds, PTL

-----------------------------------------------------------------------------
(* The queue that the threads implement.                                   *)

Keeps == UNCHANGED <<input_reports, stored, got>>

\* Steps of hid-libusb.c that leave the list alone.
LEMMA LibusbQuiet ==
    ASSUME LibusbNext
    PROVE  \/ Keeps
           \/ \E t \in Thread : read_callback(t)
           \/ \E how \in How : LibusbRead(how)
           \/ LibusbWoken
<1>1. ASSUME LibusbEnumerate PROVE Keeps
  BY <1>1 DEF LibusbEnumerate, Keeps, queueVars, readVars
<1>2. ASSUME NEW opened \in BOOLEAN, LibusbOpen(opened) PROVE Keeps
  BY <1>2 DEF LibusbOpen, Keeps, OpenPath, queueVars, readVars
<1>3. ASSUME Complete PROVE Keeps
  BY <1>3 DEF Complete, Keeps, queueVars, readVars
<1>4. ASSUME NEW t \in Thread, Resubmit(t) PROVE Keeps
  BY <1>4 DEF Resubmit, Keeps, queueVars, readVars
<1>5. ASSUME LibusbBegin PROVE Keeps
  BY <1>5 DEF LibusbBegin, Keeps, queueVars, readVars
<1>6. ASSUME LibusbTest PROVE Keeps
  BY <1>6 DEF LibusbTest, Keeps, queueVars, readVars
<1>7. ASSUME LibusbReturn PROVE Keeps
  BY <1>7 DEF LibusbReturn, Keeps, queueVars, readVars
<1>8. ASSUME LibusbCancel PROVE Keeps
  BY <1>8 DEF LibusbCancel, Keeps, queueVars, readVars
<1>9. ASSUME LibusbReap PROVE Keeps
  BY <1>9 DEF LibusbReap, Keeps, queueVars, readVars
<1>10. ASSUME LibusbWake PROVE Keeps
  BY <1>10 DEF LibusbWake, Keeps, queueVars, readVars
<1>11. ASSUME LibusbWrite PROVE Keeps
  BY <1>11 DEF LibusbWrite, Keeps, queueVars, readVars
<1>12. ASSUME LibusbWritten PROVE Keeps
  BY <1>12 DEF LibusbWritten, Keeps, queueVars, readVars
<1>13. ASSUME LibusbClose PROVE Keeps
  BY <1>13 DEF LibusbClose, Keeps, queueVars, readVars
<1>14. ASSUME LibusbCloseCancel PROVE Keeps
  BY <1>14 DEF LibusbCloseCancel, Keeps, queueVars, readVars
<1> QED BY ONLY LibusbNext, <1>1, <1>2, <1>3, <1>4, <1>5, <1>6, <1>7, <1>8, <1>9,
     <1>10, <1>11, <1>12, <1>13, <1>14 DEF LibusbNext

\* Steps of hid-mac.c that leave the list alone.
LEMMA MacQuiet ==
    ASSUME MacNext
    PROVE  \/ Keeps
           \/ hid_report_callback
           \/ \E how \in How : MacRead(how)
           \/ MacWoken
<1>1. ASSUME MacEnumerate PROVE Keeps
  BY <1>1 DEF MacEnumerate, Keeps, queueVars, readVars
<1>2. ASSUME NEW opened \in BOOLEAN, MacOpen(opened) PROVE Keeps
  BY <1>2 DEF MacOpen, Keeps, OpenPath, queueVars, readVars
<1>3. ASSUME MacBegin PROVE Keeps
  BY <1>3 DEF MacBegin, Keeps, queueVars, readVars
<1>4. ASSUME MacTest PROVE Keeps
  BY <1>4 DEF MacTest, Keeps, queueVars, readVars
<1>5. ASSUME MacTimeout PROVE Keeps
  BY <1>5 DEF MacTimeout, Keeps, queueVars, readVars
<1>6. ASSUME MacFinished PROVE Keeps
  BY <1>6 DEF MacFinished, Keeps, queueVars, readVars
<1>7. ASSUME MacStopped PROVE Keeps
  BY <1>7 DEF MacStopped, Keeps, queueVars, readVars
<1>8. ASSUME MacWake PROVE Keeps
  BY <1>8 DEF MacWake, Keeps, queueVars, readVars
<1>9. ASSUME hid_device_removal_callback PROVE Keeps
  BY <1>9 DEF hid_device_removal_callback, Keeps, queueVars, readVars
<1>10. ASSUME MacClose PROVE Keeps
  BY <1>10 DEF MacClose, Keeps, queueVars, readVars
<1>11. ASSUME MacCloseStop PROVE Keeps
  BY <1>11 DEF MacCloseStop, Keeps, queueVars, readVars
<1>12. ASSUME MacCloseSignal PROVE Keeps
  BY <1>12 DEF MacCloseSignal, Keeps, queueVars, readVars
<1> QED BY ONLY MacNext, <1>1, <1>2, <1>3, <1>4, <1>5, <1>6, <1>7, <1>8, <1>9,
     <1>10, <1>11, <1>12 DEF MacNext

\* Every step of the model is one of the queue or leaves the queue alone.
LEMMA NextIsQueue ==
    ASSUME IInv, [Next]_vars
    PROVE  [Queue!Next]_Queue!vars
<1>1. ASSUME NEW t \in Thread, read_callback(t) PROVE Keeps \/ Queue!Come
  <2>1. CASE transfer = "completed"
    <3>1. Store /\ got' = got
      BY <1>1, <2>1 DEF read_callback, readVars
    <3>2. stored < MaxReports
      BY <2>1, LimitAssumption DEF IInv, TypeOK, Counted
    <3> QED BY <3>1, <3>2, StoreKeeps DEF IInv
  <2>2. CASE transfer # "completed"
    BY <1>1, <2>2 DEF read_callback, queueVars, readVars, Keeps
  <2> QED BY <2>1, <2>2
<1>2. ASSUME hid_report_callback PROVE Queue!Come
  <2>1. Store /\ got' = got
    BY <1>2 DEF hid_report_callback, readVars
  <2>2. stored < MaxReports
    BY <1>2, LimitAssumption DEF IInv, TypeOK, Counted, hid_report_callback
  <2> QED BY <2>1, <2>2, StoreKeeps DEF IInv
<1>3. ASSUME input_reports # <<>>, ReturnData PROVE Queue!Give
  BY <1>3, ReturnKeeps DEF IInv
<1>4. ASSUME NEW how \in How, LibusbRead(how) \/ MacRead(how)
      PROVE  Keeps \/ (input_reports # <<>> /\ ReturnData)
  BY <1>4 DEF LibusbRead, MacRead, ReturnError, ReturnNone, queueVars, readVars, Keeps
<1>5. ASSUME LibusbWoken \/ MacWoken
      PROVE  Keeps \/ (input_reports # <<>> /\ ReturnData)
  BY <1>5 DEF LibusbWoken, MacWoken, ReturnError, queueVars, readVars, Keeps
<1>6. ASSUME NEW t \in Thread, NEW g \in Gate, Arrive(t, g) \/ SpuriousArrive(t, g)
      PROVE  Keeps
  BY <1>6 DEF Arrive, SpuriousArrive, Keeps, queueVars, readVars
<1>7. ASSUME SpuriousWakeup \/ ReadTimeout \/ Join \/ Unplug \/ Plug PROVE Keeps
  BY <1>7 DEF SpuriousWakeup, ReadTimeout, ReturnNone, Join, Unplug, Plug, Keeps,
              queueVars, readVars
<1>8. ASSUME Free PROVE Queue!Forget
  BY <1>8 DEF Free, Queue!Forget
<1>9. ASSUME UNCHANGED vars PROVE Keeps
  BY <1>9 DEF vars, queueVars, readVars, Keeps
<1>10. Keeps \/ Queue!Come \/ Queue!Give \/ Queue!Forget
  BY ONLY [Next]_vars, <1>1, <1>2, <1>3, <1>4, <1>5, <1>6, <1>7, <1>8, <1>9,
          LibusbQuiet, MacQuiet DEF Next
<1> QED BY <1>10 DEF Keeps, Queue!Next, Queue!vars

\* The list is a queue: reports come out in the order they came, none twice, and
\* the oldest is the one that makes room, for either back end and whatever runs
\* between the steps of a read.
THEOREM QueueRefined == Spec => QueueSpec
<1>1. Init => Queue!Init
  BY DEF Init, Blank, Queue!Init
<1>2. IInv /\ [Next]_vars => [Queue!Next]_Queue!vars
  BY NextIsQueue
<1> QED BY <1>1, <1>2, IInvHolds, PTL DEF Spec, QueueSpec, Queue!Spec

=============================================================================
