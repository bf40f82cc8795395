------------------------------ MODULE Session ------------------------------
(***************************************************************************)
(* What pic32prog makes its adapter do to the target, session by session:   *)
(* the open function of a driver, the driver's operations in the order      *)
(* target.c and pic32prog.c call them, and its close by way of quit.        *)
(*                                                                         *)
(* A session runs stages.  A stage is a script of Drivers; each command is  *)
(* one step here, as UsbLink implements Rpc, whose calls are whole.         *)
(***************************************************************************)
EXTENDS Drivers

CONSTANTS
    Adapters,       \* the adapters plugged in
    Modes,          \* the wiring modes users ask for, with usbpic
    Jobs,           \* what they run pic32prog for
    Wirings,        \* the sets of connectors the target may be on
    Families,       \* the families it may be of
    Supplies,       \* where it has its power from, but with usbpic
    Protected,      \* whether it may be code protected at first
    Faults,         \* {} or {"kill"}: the program is killed between commands
    MaxBlocks,      \* bound: blocks or words a job goes through
    MaxPolls        \* 100 in the code: how often an erase polls the status

ASSUME SessionAssumption ==
    /\ Adapters \subseteq {"usbpic", "pickit", "ascii"} /\ Adapters # {}
    /\ Modes \subseteq {"JTAG", "ICSP"} /\ Modes # {}
    /\ Jobs \subseteq {"probe", "erase", "program", "verify", "read"}
    /\ Wirings \subseteq SUBSET {"JTAG", "ICSP"}
    /\ Families \subseteq {"mx", "mz"} /\ Protected \subseteq BOOLEAN
    /\ Supplies \subseteq {"board", "adapter"}
    /\ Faults \subseteq {"kill"}
    /\ MaxBlocks \in Nat /\ MaxPolls \in Nat \ {0}

VARIABLES
    adapter,                \* the adapter, the same in every session
    dev,                    \* its state, and the target
    stage, plan, todo,      \* the stage, those to come, its commands to come
    mode,                   \* the wires_mode of the session
    power_on,               \* the option to leave the target powered
    pgm_mode_active, pgm_port_setup, serial_execution_mode,
    target,                 \* whether quit has a target to close
    polls,                  \* erase: i of the polling loop
    last,                   \* the last command of the stage
    outcome                 \* how the last session ended, "none" while one runs

vars == <<adapter, dev, stage, plan, todo, mode, power_on, pgm_mode_active,
          pgm_port_setup, serial_execution_mode, target, polls, last, outcome>>

-----------------------------------------------------------------------------
(* The scripts of a stage, driver by driver.                               *)

usbpic(name) ==
    CASE name = "open"     -> adapter_open_usbpic(mode)
      [] name = "status"   -> open_status
      [] name = "identify" -> usbpic_get_idcode
      [] name = "serial"   -> usbpic_serial_execution(dev.family)
      [] name = "word"     -> usbpic_read_word
      [] name = "load"     -> usbpic_load_executive(dev.family)
      [] name = "row"      -> usbpic_program_row
      [] name = "config"   -> usbpic_program_word
      [] name = "crc"      -> usbpic_verify_data
      [] name = "block"    -> usbpic_read_data
      [] name = "erase"    -> usbpic_erase_chip(dev.family)
      [] name = "close"    -> usbpic_close(pgm_mode_active, pgm_port_setup)
      [] name = "reject"   -> <<Do("ExitPgmMode", 0)>>

\* target_verify_block reads a block back when the driver has no verify_data.
pickit(name) ==
    CASE name = "open"     -> adapter_open_pickit(dev.supply)
      [] name = "status"   -> pickit_enter
      [] name = "identify" -> pickit_get_idcode
      [] name = "serial"   -> pickit_serial_execution
      [] name = "word"     -> pickit_read_word
      [] name = "load"     -> pickit_load_executive(PeWords(dev.family))
      [] name = "row"      -> pickit_program_row(RowWords(dev.family))
      [] name = "config"   -> IF dev.family = "mx" THEN pickit_program_word
                              ELSE pickit_program_quad_word
      [] name \in {"crc", "block"} -> pickit_read_data
      [] name = "erase"    -> pickit_erase_chip
      [] name = "close"    -> pickit_finish(power_on /\ target)
      [] name = "reject"   -> pickit_finish(FALSE)

bitbang(name) ==
    CASE name = "open"     -> adapter_open_bitbang
      [] name = "status"   -> bitbang_status
      [] name = "identify" -> bitbang_get_idcode
      [] name = "serial"   -> bitbang_serial_execution(dev.family)
      [] name = "word"     -> bitbang_read_word
      [] name = "load"     -> bitbang_load_executive(dev.family)
      [] name = "row"      -> bitbang_program_row
      [] name = "config"   -> bitbang_program_word
      [] name = "crc"      -> bitbang_verify_data
      [] name = "block"    -> bitbang_read_data
      [] name = "erase"    -> bitbang_erase_chip(dev.family)
      [] name = "close"    -> bitbang_close
      [] name = "reject"   -> bitbang_ICSP_enable(FALSE)

Driver(name) ==
    CASE adapter = "usbpic" -> usbpic(name)
      [] adapter = "pickit" -> pickit(name)
      [] adapter = "ascii"  -> bitbang(name)

\* Reading a word and loading the executive begin with serial execution, once.
Serial(name) == name \in {"word", "load"} /\ ~ serial_execution_mode
Script(name) == (IF Serial(name) THEN Driver("serial") ELSE <<>>) \o Driver(name)

\* The stages of a job after the target is open, for any number of blocks.
Repeated(name) == {Times(n, name) : n \in 0 .. MaxBlocks}
Optional(name) == {<<>>, <<name>>}

\* Mutant of JobPlan: the executive is loaded before the chip is erased.
PlanLoadFirst(job) ==
    IF job # "program" THEN {<<"erase">>}
    ELSE {<<"load", "erase">> \o rows : rows \in Repeated("row")}

ProgramPlans ==
    {<<"erase", "load">> \o rows \o words \o checks :
        rows \in Repeated("row"), words \in Optional("config"),
        checks \in Repeated("crc")}

JobPlan(job) ==
    CASE job = "probe"   -> Repeated("word")
      [] job = "erase"   -> {<<"erase">>}
      [] job = "program" -> ProgramPlans
      [] job = "verify"  -> {<<"load">> \o checks : checks \in Repeated("crc")}
      [] job = "read"    -> {<<"load">> \o blocks : blocks \in Repeated("block")}

-----------------------------------------------------------------------------
\* The marks a command leaves on the device are those of the last one.
Fresh(d) ==
    [d EXCEPT !.tap.scans = <<>>, !.missed = FALSE, !.deaf = FALSE, !.reply = 0]

\* Whether the target can have given the reply the program looks for.
Answered(what) ==
    LET scans == dev.tap.scans
        final == scans[Len(scans)]
    IN  CASE what = "idcode" -> scans # <<>> /\ final.ir = IDCODE
          [] what = "status" -> scans # <<>> /\ final.sel = "MTAP"
                                             /\ final.ir = COMMAND
          [] what = "unprotected" -> ~ dev.protected
          [] what = "PrAcc" -> dev.cpu \in {"debug", "loader", "pe"}
          [] what = "pe" -> dev.cpu = "pe"
          [] what \in {"ready", "power"} -> dev.reply = 0

Looking(op) == todo # <<>> /\ Head(todo).op = op

\* The drivers that poll the status after an erase.
Polling == stage = "erase" /\ todo = <<>> /\ adapter # "pickit"

-----------------------------------------------------------------------------
Init ==
    /\ adapter \in Adapters
    /\ \E wired \in Wirings, family \in Families, protected \in Protected,
          supply \in Supplies :
          dev = IF adapter = "usbpic"
                THEN PowerUp("JTAG", wired, family, protected, "board")
                ELSE PowerUp("ICSP", {"ICSP"}, family, protected, supply)
    /\ stage = "off" /\ plan = <<>> /\ todo = <<>> /\ mode = "none"
    /\ power_on = FALSE /\ pgm_mode_active = FALSE /\ pgm_port_setup = FALSE
    /\ serial_execution_mode = FALSE /\ target = FALSE
    /\ polls = 0 /\ last = None /\ outcome = "idle"

\* pic32prog is started; the adapter may be in any state an earlier one left.
Begin(m, job) ==
    /\ outcome # "none" /\ outcome' = "none"
    /\ mode' = IF adapter = "usbpic" THEN m ELSE "ICSP"
    /\ power_on' \in IF adapter = "pickit" THEN BOOLEAN ELSE {FALSE}
    /\ \E stages \in JobPlan(job) :
          plan' = <<"open", "status", "identify">> \o stages
    /\ stage' = "start"
    /\ UNCHANGED <<adapter, dev, todo, pgm_mode_active, pgm_port_setup,
                   serial_execution_mode, target, polls, last>>

\* The next command, and what the program notes of having sent it; or a look at
\* a reply that is the one wanted.
Perform ==
    /\ todo # <<>>
    /\ LET c == Head(todo)
       IN  /\ c.op = "Expect" => Answered(c.arg)
           /\ c.op = "ExpectBytes" => dev.upload = c.arg
           /\ dev' \in CASE c.op = "ReadStatus" -> {StatusRead(dev, c.arg)}
                         [] c.op \in Looks \ {"ReadStatus"} -> {dev}
                         [] c.op \notin Looks -> Effect(Fresh(dev), c)
           /\ last' = c
           /\ pgm_mode_active' = CASE c.op = "EnterPgmMode" -> TRUE
                                   [] c.op = "ExitPgmMode" -> FALSE
                                   [] OTHER -> pgm_mode_active
           /\ pgm_port_setup' = IF c.op = "SetupIOPorts" THEN c.arg = 1
                                                         ELSE pgm_port_setup
    /\ todo' = Tail(todo)
    /\ UNCHANGED <<adapter, stage, plan, mode, power_on, serial_execution_mode,
                   target, polls, outcome>>

Enter(name) ==
    /\ stage' = name /\ todo' = Script(name) /\ last' = None
    /\ serial_execution_mode' = (serial_execution_mode \/ Serial(name))
    /\ dev' = Fresh(dev)
    /\ UNCHANGED <<adapter, mode, power_on, pgm_mode_active, pgm_port_setup,
                   outcome>>

\* The process is gone, and its variables with it.
End(how) ==
    /\ outcome' = how /\ stage' = "off" /\ plan' = <<>> /\ todo' = <<>>
    /\ power_on' = FALSE /\ pgm_mode_active' = FALSE /\ pgm_port_setup' = FALSE
    /\ serial_execution_mode' = FALSE /\ target' = FALSE /\ polls' = 0
    /\ last' = None /\ dev' = Fresh(dev)
    /\ UNCHANGED <<adapter, mode>>

Working == outcome = "none" /\ stage \notin {"close", "reject"}

\* On to the next stage, or to quit after the last.  A polled erase that is done
\* at the last poll counts as failed all the same.
Proceed ==
    /\ Working /\ todo = <<>>
    /\ Polling => Answered("status") /\ polls + 1 < MaxPolls
    /\ Enter(IF plan = <<>> THEN "close" ELSE Head(plan))
    /\ plan' = IF plan = <<>> THEN <<>> ELSE Tail(plan)
    /\ target' = (target \/ stage = "identify")
    /\ polls' = 0

PollAgain == IF adapter = "usbpic" THEN <<MtapCommand(0)>> ELSE <<Mchp(0, TRUE)>>

\* Mutant of Poll: the polls are not limited.
PollForever ==
    /\ Polling
    /\ polls' = polls + 1 /\ todo' = PollAgain
    /\ UNCHANGED <<adapter, dev, stage, plan, mode, power_on, pgm_mode_active,
                   pgm_port_setup, serial_execution_mode, target, last, outcome>>

\* The erase is not done.
Poll ==
    /\ Polling /\ polls + 1 < MaxPolls
    /\ polls' = polls + 1 /\ todo' = PollAgain
    /\ UNCHANGED <<adapter, dev, stage, plan, mode, power_on, pgm_mode_active,
                   pgm_port_setup, serial_execution_mode, target, last, outcome>>

\* The reply is not the one wanted.  While opening, the driver lets go of the
\* adapter in its own way, or with a PICkit that reports an odd status not at
\* all; target_open closes a target it does not know; later exit runs quit,
\* which closes it.
Fail ==
    /\ Working
    /\ Looking("Expect") \/ Looking("ExpectBytes") \/ (Polling /\ polls + 1 = MaxPolls)
    /\ IF adapter = "pickit" /\ stage = "open" THEN End("abandoned")
       ELSE /\ Enter(IF stage \in {"open", "status"} THEN "reject" ELSE "close")
            /\ plan' = <<>> /\ target' = FALSE /\ polls' = 0

\* The transfers that take the word 0xDEADBEAF for an error, and the reads that
\* end the program; exit closes only what target_open has returned.
MayAbort ==
    \/ last.op \in {"Receive", "ReadStatus"}
    \/ /\ last.op \in {"XferWord", "XferFastData", "GetPEResponse"}
       /\ stage = "block" => todo # <<>>

Abort ==
    /\ Working /\ MayAbort
    /\ IF target
       THEN Enter("close") /\ plan' = <<>> /\ target' = FALSE /\ polls' = 0
       ELSE End("aborted")

Finish ==
    /\ todo = <<>>
    /\ \/ stage = "close" /\ End("closed")
       \/ stage = "reject" /\ End("rejected")

Kill == "kill" \in Faults /\ outcome = "none" /\ End("killed")

Next ==
    \/ \E m \in Modes, job \in Jobs : Begin(m, job)
    \/ Perform \/ Proceed \/ Poll \/ Fail \/ Abort \/ Finish \/ Kill

Spec == Init /\ [][Next]_vars

-----------------------------------------------------------------------------
Stages == {"off", "start", "open", "status", "identify", "word", "load", "row",
           "config", "crc", "block", "erase", "close", "reject"}
Connector == {"JTAG", "ICSP"}

\* Every variable holds a value of its kind.
TypeOK ==
    /\ dev.wireMode \in Connector /\ dev.driven \subseteq Connector
    /\ dev.inPgmMode \in BOOLEAN /\ dev.cpu \in Processor
    /\ dev.tap.state \in TapState /\ dev.tap.sel \in {"MTAP", "ETAP"}
    /\ stage \in Stages /\ mode \in Modes \cup {"ICSP", "none"}
    /\ polls \in 0 .. MaxPolls
    /\ outcome \in {"idle", "none", "closed", "rejected", "abandoned", "aborted",
                    "killed"}

\* Whatever the driver, the stage, the session and the way earlier ones ended,
\* each data scan is exactly as long as the register that is then selected; the
\* PICkit alone reads a word as 32 of 33 bits, and reads it twice.  With a
\* protected target, which stays out of serial execution, the usbpic driver goes
\* on as if it were in it, and this need not hold.
RegisterFits ==
    ~ dev.protected => \A i \in 1 .. Len(dev.tap.scans) :
        LET scan == dev.tap.scans[i]
        IN  \/ Len(scan.data) = RegisterLength(scan.sel, scan.ir)
            \/ adapter = "pickit" /\ stage = "word" /\ scan.ir = FASTDATA
                                  /\ Len(scan.data) = 32

\* The port misses no instruction, except those of EnterPgmMode with four wires.
OnlyEntryMisses ==
    dev.missed => last.op = "EnterPgmMode" /\ mode = "JTAG"

\* Instructions and fast data are given only to a processor that takes them,
\* unless the target is protected.
Debuggable == ~ dev.protected => ~ dev.deaf

\* The programming executive runs, behind the selected ETAP, with every word of
\* it in place, whenever the program talks to it.
PeAlive ==
    stage \in {"row", "config", "crc", "block"} =>
        /\ dev.cpu = "pe" /\ dev.tap.sel = "ETAP"
        /\ dev.loaded = PeWords(dev.family)

\* By the time its first answer is due the loader has been given the word that
\* ends its work where it expects a count: a driver may send the executive in
\* packets that are longer than what is left of it, but not so that the loader
\* takes a word for another.
LoaderInStep ==
    stage = "load" /\ Looking("Expect") /\ Head(todo).arg = "pe" =>
        dev.cpu # "loader"

\* The PICkit's scripts find the words they use in its download buffer, which
\* holds 64, and leave what the program then reads in its upload buffer, which
\* holds 128 bytes, whatever a killed session left in either.
BuffersFit ==
    /\ ~ dev.dry /\ Len(dev.download) <= 64 /\ dev.upload <= 128
    /\ Looking("ExpectBytes") /\ ~ dev.timeout => dev.upload = Head(todo).arg

\* After close the connector of the session is let go of, the adapter is out of
\* programming mode, and the processor runs its own program with the port in
\* reset, or has no power; whatever earlier sessions left and wherever this one
\* failed.  The serial adapter frees only a target that has its power from it.
ClosedClean ==
    outcome = "closed" /\ (adapter = "ascii" => dev.supply = "adapter") =>
        /\ adapter # "ascii" => mode \notin dev.driven
        /\ ~ dev.inPgmMode
        /\ dev.tap.state = "Reset" /\ dev.cpu \in {"run", "off"}
        /\ dev.cpu = "off" => dev.supply = "adapter"

\* usbpic_close: "remove hardware ports setup (input mode all ports)".
ClosePortsInput == outcome = "closed" => dev.driven = {}
=============================================================================
