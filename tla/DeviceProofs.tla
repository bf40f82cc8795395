---------------------------- MODULE DeviceProofs ----------------------------
(***************************************************************************)
(* What the commands of an adapter make of a device: the calm ones keep a   *)
(* port that waits in Run-Test/Idle there and miss no instruction, the      *)
(* sparing ones send none, and a packet that resets the port leaves it in   *)
(* step. Sets of devices a packet may lead to are taken one command after   *)
(* another, by induction over the commands of the packet.  Last, how many   *)
(* words and bytes the buffers of a PICkit hold after the packets of a list.*)
(***************************************************************************)
EXTENDS Drivers, JtagTapProofs

-----------------------------------------------------------------------------
(* Devices.                                                                *)

\* The parts of a device.
Parts == {"wireMode", "inPgmMode", "driven", "MCLR", "PMCLR", "icsp", "asserted",
          "supply", "vdd", "cpu", "wired", "family", "protected", "tap",
          "expects", "left", "loaded", "download", "upload", "timeout", "dry",
          "missed", "deaf", "reply"}

\* A device is a record of these parts, with a port that is one.
Whole(d) ==
    /\ DOMAIN d = Parts
    /\ Sound(d.tap)
    /\ d.wireMode \in {"JTAG", "ICSP"} /\ d.driven \subseteq {"JTAG", "ICSP"}
    /\ d.inPgmMode \in BOOLEAN /\ d.missed \in BOOLEAN /\ d.cpu \in Processor
    /\ d.protected \in BOOLEAN /\ d.expects \in {"address", "count", "words"}

\* What most commands leave alone.
SamePins(d, e) ==
    /\ e.wireMode = d.wireMode /\ e.driven = d.driven /\ e.icsp = d.icsp
    /\ e.supply = d.supply /\ e.vdd = d.vdd /\ e.wired = d.wired
    /\ e.family = d.family /\ e.inPgmMode = d.inPgmMode

\* A port that can be reached waits for instructions.
InStep(d) == Reaches(d) => d.tap.state = "Idle"

\* The PICkit's buffers are left alone.
SameBuffers(d, e) ==
    e.download = d.download /\ e.upload = d.upload /\ e.dry = d.dry

\* A device after commands that keep a port in step and miss nothing; after those
\* that also leave the buffers alone; after those that besides do not have the
\* MTAP hold the processor in reset.
Calms(d, e) ==
    /\ Whole(e) /\ SamePins(d, e)
    /\ InStep(d) => InStep(e) /\ e.missed = d.missed
Moves(d, e) == Calms(d, e) /\ SameBuffers(d, e)
Works(d, e) == Moves(d, e) /\ (e.asserted => d.asserted)

\* The pins and the power decide whether the adapter reaches the port.
LEMMA SameReaches ==
  ASSUME NEW d, NEW e, SamePins(d, e)
  PROVE  Reaches(e) = Reaches(d)
BY DEF SamePins, Reaches, Powered

\* One such command after another.
LEMMA CalmsOn ==
  ASSUME NEW a, NEW b, NEW c, Calms(a, b), Calms(b, c)
  PROVE  Calms(a, c)
BY DEF Calms, SamePins

\* One that leaves the buffers alone after another.
LEMMA MovesOn ==
  ASSUME NEW a, NEW b, NEW c, Moves(a, b), Moves(b, c)
  PROVE  Moves(a, c)
BY CalmsOn DEF Moves, SameBuffers

\* One that does not hold the processor in reset after another.
LEMMA WorksOn ==
  ASSUME NEW a, NEW b, NEW c, Works(a, b), Works(b, c)
  PROVE  Works(a, c)
BY MovesOn DEF Works

\* And none.
LEMMA WorksNot ==
  ASSUME NEW d, Whole(d) PROVE Works(d, d)
BY DEF Works, Moves, Calms, SamePins, SameBuffers

\* What happens inside of the target or the adapter's buffers.
LEMMA InsideCalms ==
  ASSUME NEW d, Whole(d), NEW e, DOMAIN e = Parts, SamePins(d, e),
         e.tap = d.tap, e.missed = d.missed, e.cpu \in Processor,
         e.protected \in BOOLEAN, e.expects \in {"address", "count", "words"}
  PROVE  Calms(d, e)
<1>1. Whole(e)
  BY DEF Whole, SamePins
<1>2. InStep(d) => InStep(e)
  BY SameReaches DEF InStep
<1> QED
  BY <1>1, <1>2 DEF Calms

\* Inside of the target alone.
LEMMA Inside ==
  ASSUME NEW d, Whole(d), NEW e, DOMAIN e = Parts, SamePins(d, e), SameBuffers(d, e),
         e.tap = d.tap, e.missed = d.missed, e.cpu \in Processor,
         e.protected \in BOOLEAN, e.expects \in {"address", "count", "words"}
  PROVE  Moves(d, e) /\ ((e.asserted => d.asserted) => Works(d, e))
BY InsideCalms DEF Works, Moves

\* One part of a device changed.
LEMMA Changed ==
  ASSUME NEW d, DOMAIN d = Parts, NEW p \in Parts, NEW x
  PROVE  /\ DOMAIN [d EXCEPT ![p] = x] = Parts
         /\ [d EXCEPT ![p] = x][p] = x
         /\ \A q \in Parts : q # p => [d EXCEPT ![p] = x][q] = d[q]
OBVIOUS

\* What follows the pins.
LEMMA SettledIs ==
  ASSUME NEW d
  PROVE  \/ Settled(d) = d
         \/ \E cpu \in {"off", "reset", "debug", "run"} :
               Settled(d) = [d EXCEPT !.cpu = cpu, !.expects = "address",
                                      !.left = 0, !.loaded = 0]
BY Zenon DEF Settled

\* It keeps a port in step.
LEMMA SettledWorks ==
  ASSUME NEW d, Whole(d)
  PROVE  /\ Works(d, Settled(d)) /\ Settled(d).timeout = d.timeout
         /\ Settled(d).missed = d.missed
<1>1. CASE Settled(d) = d
  BY <1>1, WorksNot
<1>2. ASSUME NEW cpu \in {"off", "reset", "debug", "run"},
             NEW e, e = [d EXCEPT !.cpu = cpu, !.expects = "address",
                                      !.left = 0, !.loaded = 0]
      PROVE  Works(d, e) /\ e.timeout = d.timeout /\ e.missed = d.missed
  <2>1. /\ DOMAIN e = Parts /\ SamePins(d, e) /\ SameBuffers(d, e) /\ e.tap = d.tap
        /\ e.missed = d.missed /\ e.cpu = cpu /\ e.timeout = d.timeout
        /\ e.protected = d.protected /\ e.expects = "address"
        /\ e.asserted = d.asserted
    BY <1>2 DEF Whole, Parts, SamePins, SameBuffers
  <2>2. e.cpu \in Processor
    BY <2>1 DEF Processor
  <2>3. e.protected \in BOOLEAN /\ e.expects \in {"address", "count", "words"}
    BY <2>1 DEF Whole
  <2> QED
    BY <2>1, <2>2, <2>3, Inside
<1> QED
  BY <1>1, <1>2, SettledIs

-----------------------------------------------------------------------------
(* Clocks and pseudo operations.                                           *)

\* A clock of the port, with the levels on TMS and TDI.
Clocking == [tms : {0, 1}, tdi : Nat]

\* What clocks leave alone besides the pins.
SameRest(d, e) ==
    /\ e.MCLR = d.MCLR /\ e.PMCLR = d.PMCLR /\ e.asserted = d.asserted
    /\ e.cpu = d.cpu /\ e.protected = d.protected /\ e.expects = d.expects
    /\ e.left = d.left /\ e.loaded = d.loaded /\ e.download = d.download
    /\ e.upload = d.upload /\ e.timeout = d.timeout /\ e.dry = d.dry
    /\ e.missed = d.missed /\ e.deaf = d.deaf /\ e.reply = d.reply

\* Clocks change nothing but the port, and that only where the adapter reaches it.
LEMMA ClocksKeep ==
  ASSUME NEW d, Whole(d), NEW bits \in Seq(Clocking)
  PROVE  /\ Whole(Clocks(d, bits)) /\ SamePins(d, Clocks(d, bits))
         /\ SameRest(d, Clocks(d, bits))
         /\ Clocks(d, bits).tap = IF Reaches(d) THEN Clocked(d.tap, bits) ELSE d.tap
<1>1. CASE ~ Reaches(d)
  BY <1>1 DEF Clocks, SamePins, SameRest
<1>2. CASE Reaches(d)
  <2>1. PICK t : t = Clocked(d.tap, bits)
    OBVIOUS
  <2>2. Sound(t)
    BY <2>1, ClockedSound DEF Whole, Clocking
  <2>3. PICK e : e = [d EXCEPT !.tap = t]
    OBVIOUS
  <2>4. Clocks(d, bits) = e
    BY <1>2, <2>1, <2>3, Zenon DEF Clocks
  <2>5. /\ DOMAIN e = Parts /\ SamePins(d, e) /\ SameRest(d, e) /\ e.tap = t
    BY <2>3 DEF Whole, Parts, SamePins, SameRest
  <2>7. Whole(e)
    BY <2>2, <2>5 DEF Whole, SamePins, SameRest
  <2> QED
    BY <1>2, <2>1, <2>4, <2>5, <2>7
<1> QED
  BY <1>1, <1>2

\* Clocks that go from Run-Test/Idle back to it keep a port in step.
LEMMA ClocksWork ==
  ASSUME NEW d, Whole(d), NEW bits \in Seq(Clocking),
         d.tap.state = "Idle" => Clocked(d.tap, bits).state = "Idle"
  PROVE  Works(d, Clocks(d, bits))
<1>1. PICK e : e = Clocks(d, bits)
  OBVIOUS
<1>2. Whole(e) /\ SamePins(d, e) /\ SameRest(d, e)
      /\ e.tap = IF Reaches(d) THEN Clocked(d.tap, bits) ELSE d.tap
  BY <1>1, ClocksKeep
<1>3. Reaches(e) = Reaches(d)
  BY <1>2, SameReaches
<1>4. InStep(d) => InStep(e)
  BY <1>2, <1>3 DEF InStep
<1> QED
  BY <1>1, <1>2, <1>4 DEF Works, Moves, Calms, SameRest, SameBuffers

\* The bits of numbers, and the data that is sent.
LEMMA BitIs ==
  ASSUME NEW v \in Nat, NEW i \in 1 .. 8
  PROVE  BitOf(v, i) \in Nat
<1>2. 2^0 = 1 /\ 2^1 = 2 /\ 2^2 = 4 /\ 2^3 = 8 /\ 2^4 = 16 /\ 2^5 = 32 /\ 2^6 = 64
      /\ 2^7 = 128
  OBVIOUS
<1>3. PICK j : j = i - 1
  OBVIOUS
<1>4. \/ j = 0 \/ j = 1 \/ j = 2 \/ j = 3 \/ j = 4 \/ j = 5 \/ j = 6 \/ j = 7
  BY <1>3
<1>5. PICK p \in {1, 2, 4, 8, 16, 32, 64, 128} : p = 2^j
  <2>1. 2^j \in {1, 2, 4, 8, 16, 32, 64, 128}
    <3>1. j = 0 => 2^j \in {1, 2, 4, 8, 16, 32, 64, 128}
      BY <1>2, ZenonT(60)
    <3>2. j = 1 => 2^j \in {1, 2, 4, 8, 16, 32, 64, 128}
      BY <1>2, ZenonT(60)
    <3>3. j = 2 => 2^j \in {1, 2, 4, 8, 16, 32, 64, 128}
      BY <1>2, ZenonT(60)
    <3>4. j = 3 => 2^j \in {1, 2, 4, 8, 16, 32, 64, 128}
      BY <1>2, ZenonT(60)
    <3>5. j = 4 => 2^j \in {1, 2, 4, 8, 16, 32, 64, 128}
      BY <1>2, ZenonT(60)
    <3>6. j = 5 => 2^j \in {1, 2, 4, 8, 16, 32, 64, 128}
      BY <1>2, ZenonT(60)
    <3>7. j = 6 => 2^j \in {1, 2, 4, 8, 16, 32, 64, 128}
      BY <1>2, ZenonT(60)
    <3>8. j = 7 => 2^j \in {1, 2, 4, 8, 16, 32, 64, 128}
      BY <1>2, ZenonT(60)
    <3> QED
      BY <1>4, <3>1, <3>2, <3>3, <3>4, <3>5, <3>6, <3>7, <3>8, Zenon
  <2> QED
    BY <2>1, Zenon
<1>6. p = 2^(i - 1)
  BY <1>3, <1>5, Zenon
<1>7. PICK x \in Nat : x = (v \div p) % 2
  OBVIOUS
<1>8. BitOf(v, i) = x
  BY <1>6, <1>7, Zenon DEF BitOf
<1> QED
  BY <1>8

\* A function on 1 .. n is a sequence of n elements.
LEMMA Bits ==
  ASSUME NEW n \in Nat \ {0}, NEW f \in [1 .. n -> Nat]
  PROVE  f \in Seq(Nat) /\ Len(f) = n /\ f # <<>>
<1>1. f \in Seq(Nat) /\ Len(f) = n
  OBVIOUS
<1>2. Len(<<>>) = 0
  OBVIOUS
<1> QED
  BY <1>1, <1>2

\* A byte has eight bits and an instruction five.
LEMMA BitsOf ==
  ASSUME NEW v \in Nat
  PROVE  /\ Byte(v) \in Seq(Nat) /\ Byte(v) # <<>> /\ Len(Byte(v)) = 8
         /\ Five(v) \in Seq(Nat) /\ Five(v) # <<>> /\ Len(Five(v)) = 5
<1>1. \A i \in 1 .. 8 : BitOf(v, i) \in Nat
  BY BitIs
<1>2. Byte(v) \in [1 .. 8 -> Nat]
  BY <1>1 DEF Byte
<1>3. Five(v) \in [1 .. 5 -> Nat]
  BY <1>1 DEF Five
<1>4. 8 \in Nat \ {0} /\ 5 \in Nat \ {0}
  OBVIOUS
<1>5. Byte(v) \in Seq(Nat) /\ Len(Byte(v)) = 8 /\ Byte(v) # <<>>
  BY <1>2, <1>4, Bits, Zenon
<1>6. Five(v) \in Seq(Nat) /\ Len(Five(v)) = 5 /\ Five(v) # <<>>
  BY <1>3, <1>4, Bits, Zenon
<1> QED
  BY <1>5, <1>6

\* A word of 32 bits, and of 33.
LEMMA WordIs ==
  /\ Word \in Seq(Nat) /\ Word # <<>> /\ Len(Word) = 32
<1>1. Word \in [1 .. 32 -> Nat]
  BY DEF Word
<1>2. 32 \in Nat \ {0}
  OBVIOUS
<1> QED
  BY <1>1, <1>2, Bits, Zenon

\* The word of fast data, with the bit before it.
LongWord == <<0>> \o Word

\* It is a sequence of bits that is not empty.
LEMMA LongWordIs ==
  LongWord \in Seq(Nat) /\ LongWord # <<>> /\ Len(LongWord) = 33
<1>1. PICK u : u = Word
  OBVIOUS
<1>2. u \in Seq(Nat) /\ Len(u) = 32
  BY <1>1, WordIs
<1>3. PICK w : w = <<0>> \o u
  OBVIOUS
<1>4. w \in Seq(Nat) /\ Len(w) = 33
  <2>1. \A s, r \in Seq(Nat) : s \o r \in Seq(Nat) /\ Len(s \o r) = Len(s) + Len(r)
    OBVIOUS
  <2>2. PICK s : s = <<0>>
    OBVIOUS
  <2>3. s \in Seq(Nat) /\ Len(s) = 1
    BY <2>2
  <2>4. w = s \o u
    BY <1>3, <2>2, Zenon
  <2>5. w \in Seq(Nat) /\ Len(w) = Len(s) + Len(u)
    BY <1>2, <2>1, <2>3, <2>4, Zenon
  <2> QED
    BY <1>2, <2>3, <2>5
<1>5. Len(<<>>) = 0
  OBVIOUS
<1>6. Len(w) # Len(<<>>)
  BY <1>4, <1>5
<1>7. w # <<>>
  BY <1>6, Zenon
<1>8. w = LongWord
  BY <1>1, <1>3, Zenon DEF LongWord
<1> QED
  BY <1>4, <1>7, <1>8

\* Sequences over a set are sequences over a larger one.
LEMMA Widened ==
  ASSUME NEW S, NEW T, S \subseteq T, NEW s \in Seq(S)
  PROVE  s \in Seq(T)
OBVIOUS

\* The pseudo operations are sequences of clocks.
LEMMA ClockingOf ==
  /\ \A data \in Seq(Nat) : XferData(data) \in Seq(Clocking)
  /\ \A cmd \in 0 .. 31 : SendCommand(cmd) \in Seq(Clocking)
  /\ ETAP_RESET \in Seq(Clocking) /\ PIC32_RESET \in Seq(Clocking)
<1>1. ASSUME NEW S, S \subseteq Nat, NEW s \in Seq([tms : {0, 1}, tdi : S])
      PROVE  s \in Seq(Clocking)
  <2>1. [tms : {0, 1}, tdi : S] \subseteq Clocking
    <3> SUFFICES ASSUME NEW x \in [tms : {0, 1}, tdi : S] PROVE x \in Clocking
      OBVIOUS
    <3>1. x = [tms |-> x.tms, tdi |-> x.tdi] /\ x.tms \in {0, 1} /\ x.tdi \in Nat
      BY <1>1
    <3> QED
      BY <3>1 DEF Clocking
  <2> QED
    BY <2>1, Widened
<1>2. ASSUME NEW data \in Seq(Nat) PROVE XferData(data) \in Seq(Clocking)
  <2>1. XferData(data) \in Seq([tms : {0, 1}, tdi : Nat \cup {0}])
    BY XferDataBits
  <2>2. Nat \cup {0} \subseteq Nat
    OBVIOUS
  <2> QED
    BY <1>1, <2>1, <2>2
<1>3. {0, 1} \subseteq Nat
  OBVIOUS
<1> QED
  <2>1. \A cmd \in 0 .. 31 : SendCommand(cmd) \in Seq([tms : {0, 1}, tdi : {0, 1}])
    BY SendCommandBits
  <2>2. \A cmd \in 0 .. 31 : SendCommand(cmd) \in Seq(Clocking)
    BY <1>1, <1>3, <2>1, Zenon
  <2>3. ETAP_RESET \in Seq(Clocking) /\ PIC32_RESET \in Seq(Clocking)
    BY <1>1, <1>3, ResetBits, Zenon
  <2> QED
    BY <1>2, <2>2, <2>3

\* What each pseudo operation does.
LEMMA DoesIs ==
  ASSUME NEW d, NEW v
  PROVE  /\ Does(d, "SendCommand", v) =
              [Clocks(d, SendCommand(v)) EXCEPT
                  !.missed = @ \/ (Reaches(d) /\ d.tap.state # "Idle")]
         /\ Does(d, "XferData", v) = Commanded(d, Clocks(d, XferData(Byte(v))), v)
         /\ Does(d, "XferWord", v) = Clocks(d, XferData(Word))
         /\ Does(d, "SetMode", v) = Clocks(d, SetMode(31, v))
<1>1. /\ "SendCommand" # "XferData" /\ "SendCommand" # "XferWord"
      /\ "SendCommand" # "SetMode" /\ "XferData" # "XferWord"
      /\ "XferData" # "SetMode" /\ "XferWord" # "SetMode"
  OBVIOUS
<1>2. Does(d, "SendCommand", v) =
              [Clocks(d, SendCommand(v)) EXCEPT
                  !.missed = @ \/ (Reaches(d) /\ d.tap.state # "Idle")]
  BY <1>1, Zenon DEF Does
<1>3. Does(d, "XferData", v) = Commanded(d, Clocks(d, XferData(Byte(v))), v)
  BY <1>1, Zenon DEF Does
<1>4. Does(d, "XferWord", v) = Clocks(d, XferData(Word))
  BY <1>1, Zenon DEF Does
<1>5. Does(d, "SetMode", v) = Clocks(d, SetMode(31, v))
  BY <1>1, Zenon DEF Does
<1> QED
  BY <1>2, <1>3, <1>4, <1>5

\* The reset pattern brings a port in step, whatever it was doing.
LEMMA Synchronises ==
  ASSUME NEW d, Whole(d), NEW e, e = Clocks(d, ETAP_RESET)
  PROVE  Whole(e) /\ SamePins(d, e) /\ SameRest(d, e) /\ InStep(e) /\ Works(d, e)
<1>1. ETAP_RESET \in Seq(Clocking)
  BY ClockingOf
<1>2. PICK bits \in Seq(Clocking) : bits = ETAP_RESET
  BY <1>1
<1>3. Whole(e) /\ SamePins(d, e) /\ SameRest(d, e)
      /\ e.tap = IF Reaches(d) THEN Clocked(d.tap, bits) ELSE d.tap
  BY <1>2, ClocksKeep
<1>4. Clocked(d.tap, bits).state = "Idle"
  <2>1. d.tap.state \in TapState
    BY DEF Whole, Sound
  <2> QED
    BY <1>2, <2>1, EtapResetSynchronises
<1>5. InStep(e)
  BY <1>3, <1>4, SameReaches DEF InStep
<1> QED
  BY <1>3, <1>5 DEF Works, Moves, Calms, SameRest, SameBuffers

\* Data leaves the port where it was, in Run-Test/Idle.
LEMMA TransferWorks ==
  ASSUME NEW d, Whole(d), NEW data \in Seq(Nat), data # <<>>,
         NEW e, e = Clocks(d, XferData(data))
  PROVE  Works(d, e) /\ SameRest(d, e)
<1>1. PICK bits \in Seq(Clocking) : bits = XferData(data)
  BY ClockingOf
<1>2. ASSUME d.tap.state = "Idle" PROVE Clocked(d.tap, bits).state = "Idle"
  <2>1. d.tap.boot \in BOOLEAN
    BY DEF Whole, Sound
  <2>2. OneScan(Clocked(d.tap, bits), d.tap, data)
    BY <1>1, <1>2, <2>1, XferDataScans
  <2> QED
    BY <2>2 DEF OneScan
<1> QED
  BY <1>1, <1>2, ClocksWork, ClocksKeep

\* An instruction ends where it began.
LEMMA InstructionStays ==
  \A tap : \A cmd \in 0 .. 31 : tap.boot \in BOOLEAN /\ tap.state = "Idle" =>
      Clocked(tap, SendCommand(cmd)).state = "Idle"
<1> SUFFICES ASSUME NEW tap, NEW cmd \in 0 .. 31, tap.boot \in BOOLEAN,
                    tap.state = "Idle"
             PROVE  Clocked(tap, SendCommand(cmd)).state = "Idle"
  OBVIOUS
<1>1. PICK e : e = Clocked(tap, SendCommand(cmd))
  OBVIOUS
<1>2. e.state = "Idle"
  BY <1>1, SendCommandInstructs
<1> QED
  BY <1>1, <1>2, Zenon

\* The mark of an instruction that is sent to a port that does not wait for one.
Marked(d, x) == [x EXCEPT !.missed = @ \/ (Reaches(d) /\ d.tap.state # "Idle")]

\* So does an instruction, which is missed only by a port that is out of step.
LEMMA InstructionWorks ==
  ASSUME NEW d, Whole(d), NEW cmd \in 0 .. 31, NEW x, x = Clocks(d, SendCommand(cmd)),
         NEW e, e = Marked(d, x)
  PROVE  Works(d, e) /\ e.timeout = d.timeout
<1>1. PICK bits \in Seq(Clocking) : bits = SendCommand(cmd)
  BY ClockingOf
<1>2. ASSUME d.tap.state = "Idle" PROVE Clocked(d.tap, bits).state = "Idle"
  <2>1. d.tap.boot \in BOOLEAN
    BY DEF Whole, Sound
  <2>2. Clocked(d.tap, SendCommand(cmd)).state = "Idle"
    BY <1>2, <2>1, InstructionStays, Zenon
  <2> QED
    BY <1>1, <2>2, Zenon
<1>3. Works(d, x) /\ SameRest(d, x) /\ SamePins(d, x) /\ Whole(x)
  BY <1>1, <1>2, ClocksWork, ClocksKeep
<1>4. /\ DOMAIN e = Parts /\ SamePins(x, e)
      /\ SameBuffers(x, e) /\ e.asserted = x.asserted
      /\ e.tap = x.tap /\ e.cpu = x.cpu /\ e.protected = x.protected
      /\ e.expects = x.expects /\ e.timeout = x.timeout
      /\ e.missed = (d.missed \/ (Reaches(d) /\ d.tap.state # "Idle"))
  <2>1. PICK m : m = (x.missed \/ (Reaches(d) /\ d.tap.state # "Idle"))
    OBVIOUS
  <2>2. e = [x EXCEPT !.missed = m]
    BY <2>1, Zenon DEF Marked
  <2>3. DOMAIN x = Parts
    BY <1>3 DEF Whole
  <2>4. /\ DOMAIN e = Parts /\ SamePins(x, e)
        /\ SameBuffers(x, e) /\ e.asserted = x.asserted
        /\ e.tap = x.tap /\ e.cpu = x.cpu /\ e.protected = x.protected
        /\ e.expects = x.expects /\ e.timeout = x.timeout /\ e.missed = m
    BY <2>2, <2>3 DEF Parts, SamePins, SameBuffers
  <2> QED
    BY <1>3, <2>1, <2>4, Zenon DEF SameRest
<1>5. e.missed \in BOOLEAN /\ (InStep(d) => e.missed = d.missed)
  BY <1>4 DEF Whole, InStep
<1>6. Whole(e)
  BY <1>3, <1>4, <1>5 DEF Whole, SamePins
<1>7. SamePins(d, e) /\ SameBuffers(d, e) /\ (e.asserted => d.asserted)
  BY <1>3, <1>4 DEF SamePins, SameBuffers, SameRest
<1>8. InStep(d) => InStep(e)
  BY <1>3, <1>4, SameReaches DEF Works, Moves, Calms, InStep
<1> QED
  BY <1>3, <1>4, <1>5, <1>6, <1>7, <1>8 DEF Works, Moves, Calms, SameRest

\* A command for the MTAP works inside of the target.
LEMMA CommandedWorks ==
  ASSUME NEW d, NEW e, Works(d, e), e.timeout = d.timeout, NEW value
  PROVE  /\ Moves(d, Commanded(d, e, value)) /\ Commanded(d, e, value).timeout = d.timeout
         /\ value # 209 \/ ~ Reaches(d) => Works(d, Commanded(d, e, value))
<1>1. PICK taken : taken = (Reaches(d) /\ d.tap.state = "Idle" /\ d.tap.sel = "MTAP"
                                       /\ d.tap.ir = COMMAND)
  OBVIOUS
<1>2. PICK a, p : /\ a = ((e.asserted \/ (taken /\ value = 209)) /\ ~ (taken /\ value = 208))
                  /\ p = (e.protected /\ ~ (taken /\ value = 252))
  OBVIOUS
<1>3. PICK f : f = [e EXCEPT !.asserted = a, !.protected = p]
  OBVIOUS
<1>4. Commanded(d, e, value) = Settled(f)
  BY <1>1, <1>2, <1>3, ZenonT(60) DEF Commanded
<1>5. p \in BOOLEAN /\ (value # 209 \/ ~ Reaches(d) => (a => e.asserted))
  BY <1>1, <1>2
<1>6. Moves(e, f) /\ (value # 209 \/ ~ Reaches(d) => Works(e, f)) /\ f.timeout = e.timeout
  <2>1. Whole(e)
    BY DEF Works, Moves, Calms
  <2>2. /\ DOMAIN f = Parts /\ SamePins(e, f) /\ f.tap = e.tap /\ f.missed = e.missed
        /\ SameBuffers(e, f) /\ f.asserted = a
        /\ f.cpu = e.cpu /\ f.protected = p /\ f.expects = e.expects
        /\ f.timeout = e.timeout
    BY <1>3, <2>1 DEF Whole, Parts, SamePins, SameBuffers
  <2>3. /\ f.cpu \in Processor /\ f.protected \in BOOLEAN
        /\ f.expects \in {"address", "count", "words"}
    BY <1>5, <2>1, <2>2 DEF Whole
  <2> QED
    BY <1>5, <2>1, <2>2, <2>3, Inside
<1>7. Works(f, Settled(f)) /\ Settled(f).timeout = f.timeout
  <2>1. Whole(f)
    BY <1>6 DEF Moves, Calms
  <2> QED
    BY <2>1, SettledWorks
<1>8. Moves(d, f) /\ (value # 209 \/ ~ Reaches(d) => Works(d, f)) /\ f.timeout = d.timeout
  BY <1>6, MovesOn, WorksOn DEF Works
<1>9. /\ Moves(d, Settled(f)) /\ (value # 209 \/ ~ Reaches(d) => Works(d, Settled(f)))
      /\ Settled(f).timeout = d.timeout
  BY <1>7, <1>8, MovesOn, WorksOn DEF Works
<1> QED
  BY <1>4, <1>9

\* What each pseudo operation keeps: all but the patterns that park the port.
LEMMA SendsWork ==
  \A d : \A cmd \in 0 .. 31 : Whole(d) =>
      /\ Works(d, Does(d, "SendCommand", cmd))
      /\ Does(d, "SendCommand", cmd).timeout = d.timeout
<1> SUFFICES ASSUME NEW d, NEW cmd \in 0 .. 31, Whole(d)
             PROVE  /\ Works(d, Does(d, "SendCommand", cmd))
                    /\ Does(d, "SendCommand", cmd).timeout = d.timeout
  OBVIOUS
<1>1. PICK x : x = Clocks(d, SendCommand(cmd))
  OBVIOUS
<1>2. PICK e : e = Does(d, "SendCommand", cmd)
  OBVIOUS
<1>3. e = Marked(d, x)
  BY <1>1, <1>2, DoesIs, Zenon DEF Marked
<1>4. Works(d, e) /\ e.timeout = d.timeout
  BY <1>1, <1>3, InstructionWorks
<1> QED
  BY <1>2, <1>4, Zenon

\* A byte for the MTAP.
LEMMA CommandsWork ==
  \A d : \A v \in Nat : Whole(d) =>
      /\ Moves(d, Does(d, "XferData", v))
      /\ v # 209 \/ ~ Reaches(d) => Works(d, Does(d, "XferData", v))
      /\ Does(d, "XferData", v).timeout = d.timeout
<1> SUFFICES ASSUME NEW d, NEW v \in Nat, Whole(d)
             PROVE  /\ Moves(d, Does(d, "XferData", v))
                    /\ v # 209 \/ ~ Reaches(d) => Works(d, Does(d, "XferData", v))
                    /\ Does(d, "XferData", v).timeout = d.timeout
  OBVIOUS
<1>1. PICK x, s : s = Byte(v) /\ x = Clocks(d, XferData(s))
  OBVIOUS
<1>2. Does(d, "XferData", v) = Commanded(d, x, v)
  <2>1. Does(d, "XferData", v) = Commanded(d, Clocks(d, XferData(Byte(v))), v)
    BY DoesIs
  <2> QED
    BY <1>1, <2>1, Zenon
<1>3. s \in Seq(Nat) /\ s # <<>>
  BY <1>1, BitsOf
<1>4. Works(d, x) /\ SameRest(d, x)
  BY <1>1, <1>3, TransferWorks
<1>5. x.timeout = d.timeout
  BY <1>4 DEF SameRest
<1>6. /\ Moves(d, Commanded(d, x, v)) /\ Commanded(d, x, v).timeout = d.timeout
      /\ v # 209 \/ ~ Reaches(d) => Works(d, Commanded(d, x, v))
  BY <1>4, <1>5, CommandedWorks
<1> QED
  BY <1>2, <1>6, Zenon

\* A word.
LEMMA WordsWork ==
  \A d, v : Whole(d) =>
      /\ Works(d, Does(d, "XferWord", v)) /\ Does(d, "XferWord", v).timeout = d.timeout
<1> SUFFICES ASSUME NEW d, NEW v, Whole(d)
             PROVE  /\ Works(d, Does(d, "XferWord", v))
                    /\ Does(d, "XferWord", v).timeout = d.timeout
  OBVIOUS
<1>1. PICK s, e : s = Word /\ e = Does(d, "XferWord", v)
  OBVIOUS
<1>2. e = Clocks(d, XferData(s))
  BY <1>1, DoesIs, Zenon
<1>3. s \in Seq(Nat) /\ s # <<>>
  BY <1>1, WordIs
<1>4. Works(d, e) /\ e.timeout = d.timeout
  BY <1>2, <1>3, TransferWorks DEF SameRest
<1> QED
  BY <1>1, <1>4, Zenon

\* The reset pattern.
LEMMA ResetWorks ==
  \A d : Whole(d) =>
      /\ Works(d, Does(d, "SetMode", 6)) /\ Does(d, "SetMode", 6).timeout = d.timeout
      /\ InStep(Does(d, "SetMode", 6))
<1> SUFFICES ASSUME NEW d, Whole(d)
             PROVE  /\ Works(d, Does(d, "SetMode", 6))
                    /\ Does(d, "SetMode", 6).timeout = d.timeout
                    /\ InStep(Does(d, "SetMode", 6))
  OBVIOUS
<1>1. PICK e : e = Does(d, "SetMode", 6)
  OBVIOUS
<1>2. e = Clocks(d, ETAP_RESET)
  BY <1>1, DoesIs, Zenon DEF ETAP_RESET
<1>3. Works(d, e) /\ InStep(e) /\ e.timeout = d.timeout
  BY <1>2, Synchronises DEF SameRest
<1> QED
  BY <1>1, <1>3, Zenon

\* An instruction for a port that waits for it does nothing but what it says.
LEMMA SendsExactly ==
  ASSUME NEW d, Whole(d), Reaches(d), d.tap.state = "Idle", NEW cmd \in 0 .. 31,
         NEW e, e = Does(d, "SendCommand", cmd)
  PROVE  SamePins(d, e) /\ SameRest(d, e) /\ Whole(e) /\ Instructed(e.tap, d.tap, cmd)
<1>1. PICK bits \in Seq(Clocking) : bits = SendCommand(cmd)
  BY ClockingOf
<1>2. PICK x : x = Clocks(d, bits)
  OBVIOUS
<1>3. /\ SamePins(d, x) /\ SameRest(d, x) /\ Whole(x)
      /\ x.tap = Clocked(d.tap, SendCommand(cmd))
  BY <1>1, <1>2, ClocksKeep
<1>4. PICK m : m = (x.missed \/ (Reaches(d) /\ d.tap.state # "Idle"))
  OBVIOUS
<1>5. e = [x EXCEPT !.missed = m]
  BY <1>1, <1>2, <1>4, DoesIs, Zenon
<1>6. SamePins(d, e) /\ SameRest(d, e) /\ Whole(e) /\ e.tap = x.tap
  <2>1. m = x.missed
    BY <1>3, <1>4 DEF Whole
  <2>2. DOMAIN x = Parts
    BY <1>3 DEF Whole
  <2>3. /\ DOMAIN e = Parts /\ SamePins(x, e) /\ SameRest(x, e) /\ e.tap = x.tap
    BY <1>5, <2>1, <2>2 DEF Parts, SamePins, SameRest
  <2> QED
    BY <1>3, <2>3 DEF Whole, SamePins, SameRest
<1>7. d.tap.boot \in BOOLEAN
  BY DEF Whole, Sound
<1>8. Instructed(Clocked(d.tap, SendCommand(cmd)), d.tap, cmd)
  BY <1>7, SendCommandIs, Zenon
<1>9. Instructed(e.tap, d.tap, cmd)
  BY <1>3, <1>6, <1>8, Zenon
<1> QED
  BY <1>6, <1>9

\* The MTAP lets go of the processor when it is told to.
LEMMA Deasserted ==
  ASSUME NEW d, Whole(d), Reaches(d), d.tap.state = "Idle", d.tap.sel = "MTAP",
         d.tap.ir = COMMAND, NEW e, e = Does(d, "XferData", 208)
  PROVE  ~ e.asserted
<1>1. PICK x, s : s = Byte(208) /\ x = Clocks(d, XferData(s))
  OBVIOUS
<1>2. e = Commanded(d, x, 208)
  <2>1. Does(d, "XferData", 208) = Commanded(d, Clocks(d, XferData(Byte(208))), 208)
    BY DoesIs
  <2> QED
    BY <1>1, <2>1, Zenon
<1>3. s \in Seq(Nat) /\ s # <<>>
  BY <1>1, BitsOf
<1>4. Whole(x)
  BY <1>1, <1>3, TransferWorks DEF Works, Moves, Calms
<1>5. PICK a, p : /\ a = ((x.asserted \/ (TRUE /\ 208 = 209)) /\ ~ (TRUE /\ 208 = 208))
                  /\ p = (x.protected /\ ~ (TRUE /\ 208 = 252))
  OBVIOUS
<1>6. PICK f : f = [x EXCEPT !.asserted = a, !.protected = p]
  OBVIOUS
<1>7. e = Settled(f)
  <2>1. (Reaches(d) /\ d.tap.state = "Idle" /\ d.tap.sel = "MTAP" /\ d.tap.ir = COMMAND)
            = TRUE
    OBVIOUS
  <2> QED
    BY <1>2, <1>5, <1>6, <2>1, ZenonT(60) DEF Commanded
<1>8. DOMAIN f = Parts /\ f.asserted = FALSE
  BY <1>4, <1>5, <1>6 DEF Whole, Parts
<1>9. Settled(f).asserted = f.asserted
  <2>1. CASE Settled(f) = f
    BY <2>1
  <2>2. ASSUME NEW cpu, Settled(f) = [f EXCEPT !.cpu = cpu, !.expects = "address",
                                               !.left = 0, !.loaded = 0]
        PROVE  Settled(f).asserted = f.asserted
    <3>1. PICK g : g = [f EXCEPT !.cpu = cpu, !.expects = "address",
                                 !.left = 0, !.loaded = 0]
      OBVIOUS
    <3>2. g.asserted = f.asserted
      BY <1>8, <3>1 DEF Parts
    <3> QED
      BY <2>2, <3>1, <3>2
  <2> QED
    BY <2>1, <2>2, SettledIs
<1> QED
  BY <1>7, <1>8, <1>9

\* The way to have it told: whatever the port was at before, it is not held
\* in reset afterwards.
LEMMA Releases ==
  ASSUME NEW d, Whole(d), InStep(d), Reaches(d),
         NEW x, x = Does(d, "SendCommand", SW_MTAP),
         NEW y, y = Does(x, "SendCommand", COMMAND),
         NEW z, z = Does(y, "XferData", 208)
  PROVE  ~ z.asserted
<1>1. SW_MTAP \in 0 .. 31 /\ COMMAND \in 0 .. 31 /\ COMMAND # SW_MTAP /\ COMMAND # SW_ETAP
  BY DEF SW_MTAP, SW_ETAP, COMMAND
<1>2. d.tap.state = "Idle"
  BY DEF InStep
<1>3. SamePins(d, x) /\ Whole(x) /\ Instructed(x.tap, d.tap, SW_MTAP)
  BY <1>1, <1>2, SendsExactly
<1>4. Reaches(x) /\ x.tap.state = "Idle" /\ x.tap.sel = "MTAP"
  BY <1>3, SameReaches DEF Instructed
<1>5. SamePins(x, y) /\ Whole(y) /\ Instructed(y.tap, x.tap, COMMAND)
  BY <1>1, <1>3, <1>4, SendsExactly
<1>6. /\ Reaches(y) /\ y.tap.state = "Idle" /\ y.tap.sel = "MTAP"
      /\ y.tap.ir = COMMAND
  BY <1>1, <1>4, <1>5, SameReaches DEF Instructed
<1> QED
  BY <1>5, <1>6, Deasserted

\* The pseudo operations that keep a port in step, as Steps lists them.
Pseudo == {<<"SendCommand", cmd>> : cmd \in 0 .. 31}
              \cup {<<"XferData", v>> : v \in Nat}
              \cup {<<"XferWord", 0>>, <<"SetMode", 6>>}

\* The command by which the MTAP asserts the processor's reset, and the others.
Asserts == <<"XferData", 209>>
Gentle == Pseudo \ {Asserts}

\* Each of them does.
LEMMA DoesWorks ==
  ASSUME NEW d, Whole(d), NEW p \in Pseudo, NEW e, e = Does(d, p[1], p[2])
  PROVE  Moves(d, e) /\ (p # Asserts => Works(d, e)) /\ e.timeout = d.timeout
<1>1. ASSUME NEW cmd \in 0 .. 31, p = <<"SendCommand", cmd>>
      PROVE  Moves(d, e) /\ (p # Asserts => Works(d, e)) /\ e.timeout = d.timeout
  <2>1. p[1] = "SendCommand" /\ p[2] = cmd
    BY <1>1
  <2> QED
    BY <2>1, SendsWork, Zenon DEF Works
<1>2. ASSUME NEW v \in Nat, p = <<"XferData", v>>
      PROVE  Moves(d, e) /\ (p # Asserts => Works(d, e)) /\ e.timeout = d.timeout
  <2>1. p[1] = "XferData" /\ p[2] = v /\ (p # Asserts => v # 209)
    BY <1>2 DEF Asserts
  <2> QED
    BY <2>1, CommandsWork, ZenonT(60)
<1>3. ASSUME p = <<"XferWord", 0>>
      PROVE  Moves(d, e) /\ (p # Asserts => Works(d, e)) /\ e.timeout = d.timeout
  <2>1. p[1] = "XferWord" /\ p[2] = 0
    BY <1>3
  <2> QED
    BY <2>1, WordsWork, Zenon DEF Works
<1>4. ASSUME p = <<"SetMode", 6>>
      PROVE  Moves(d, e) /\ (p # Asserts => Works(d, e)) /\ e.timeout = d.timeout
  <2>1. p[1] = "SetMode" /\ p[2] = 6
    BY <1>4
  <2> QED
    BY <2>1, ResetWorks, Zenon DEF Works
<1> QED
  BY <1>1, <1>2, <1>3, <1>4 DEF Pseudo

\* f gives the device after each pseudo operation of a list.
StepRun(d, list, n, f) ==
    f = [i \in 0 .. n |-> IF i = 0 THEN d ELSE Does(f[i - 1], list[i][1], list[i][2])]

\* There is such a function.
LEMMA StepRunExists ==
  ASSUME NEW d, NEW list, NEW n \in Nat
  PROVE  \E f : StepRun(d, list, n, f)
<1> DEFINE S == {m \in 0 .. n : \E f : StepRun(d, list, m, f)}
<1>1. 0 \in S
  <2>1. StepRun(d, list, 0, [i \in 0 .. 0 |-> d])
    BY DEF StepRun
  <2> QED
    BY <2>1
<1>2. \A m \in 0 .. n - 1 : m \in S => m + 1 \in S
  <2> SUFFICES ASSUME NEW m \in 0 .. n - 1, NEW f, StepRun(d, list, m, f)
               PROVE  \E g : StepRun(d, list, m + 1, g)
    OBVIOUS
  <2> DEFINE g == [i \in 0 .. m + 1 |->
                      IF i = m + 1 THEN Does(f[m], list[m + 1][1], list[m + 1][2])
                                   ELSE f[i]]
  <2>1. \A i \in 0 .. m : f[i] = IF i = 0 THEN d
                                 ELSE Does(f[i - 1], list[i][1], list[i][2])
    BY DEF StepRun
  <2>2. \A i \in 0 .. m + 1 : g[i] = IF i = 0 THEN d
                                     ELSE Does(g[i - 1], list[i][1], list[i][2])
    BY <2>1
  <2>3. StepRun(d, list, m + 1, g)
    BY <2>2 DEF StepRun
  <2> QED
    BY <2>3
<1>3. n \in S
  <2> HIDE DEF S
  <2>1. n \in 0 .. n
    OBVIOUS
  <2> QED
    BY <1>1, <1>2, <2>1, UpTo
<1> QED
  BY <1>3

\* Steps goes through the list, one operation at a time.
LEMMA StepsPath ==
  ASSUME NEW d, NEW list, NEW n \in Nat, n = Len(list)
  PROVE  \E f : /\ f[0] = d /\ f[n] = Steps(d, list)
                /\ \A i \in 1 .. n : f[i] = Does(f[i - 1], list[i][1], list[i][2])
<1> DEFINE f == CHOOSE g : StepRun(d, list, n, g)
<1>1. StepRun(d, list, n, f)
  BY StepRunExists
<1>2. f[n] = Steps(d, list)
  BY DEF Steps, StepRun
<1> HIDE DEF f
<1>3. \A i \in 0 .. n : f[i] = IF i = 0 THEN d ELSE Does(f[i - 1], list[i][1], list[i][2])
  BY <1>1 DEF StepRun
<1>4. f[0] = d /\ \A i \in 1 .. n : f[i] = Does(f[i - 1], list[i][1], list[i][2])
  BY <1>3
<1> QED
  BY <1>2, <1>4

\* That path as a fact about f.
StepPath(d, list, n, f) ==
    /\ f[0] = d /\ f[n] = Steps(d, list)
    /\ \A i \in 1 .. n : f[i] = Does(f[i - 1], list[i][1], list[i][2])

\* Every list has one.
LEMMA StepsRuns ==
  \A d, list : \A n \in Nat : n = Len(list) => \E f : StepPath(d, list, n, f)
BY StepsPath DEF StepPath

\* One list behind the other.
LEMMA StepsCat ==
  ASSUME NEW d, NEW S, NEW a \in Seq(S), NEW b \in Seq(S)
  PROVE  Steps(d, a \o b) = Steps(Steps(d, a), b)
<1> DEFINE m == Len(a)
           n == Len(b)
           c == a \o b
<1>1. /\ m \in Nat /\ n \in Nat /\ m + n \in Nat /\ m + n = Len(c)
      /\ (\A i \in 1 .. m : c[i] = a[i])
      /\ (\A i \in 1 .. n : c[m + i] = b[i])
  OBVIOUS
<1>8. m = Len(a) /\ n = Len(b) /\ c = a \o b
  OBVIOUS
<1> HIDE DEF m, n, c
<1>9. PICK ff, gg : StepPath(d, c, m + n, ff) /\ StepPath(d, a, m, gg)
  BY <1>1, <1>8, StepsRuns, Zenon
<1>10. PICK hh : StepPath(gg[m], b, n, hh)
  BY <1>1, <1>8, StepsRuns, Zenon
<1>2. PICK f : /\ f[0] = d /\ f[m + n] = Steps(d, c)
               /\ \A i \in 1 .. m + n : f[i] = Does(f[i - 1], c[i][1], c[i][2])
  BY <1>9, Zenon DEF StepPath
<1>3. PICK g : /\ g[0] = d /\ g[m] = Steps(d, a)
               /\ \A i \in 1 .. m : g[i] = Does(g[i - 1], a[i][1], a[i][2])
  BY <1>9, Zenon DEF StepPath
<1>4. PICK h : /\ h[0] = g[m] /\ h[n] = Steps(g[m], b)
               /\ \A i \in 1 .. n : h[i] = Does(h[i - 1], b[i][1], b[i][2])
  <2>1. gg[m] = g[m]
    BY <1>3, <1>9, Zenon DEF StepPath
  <2> QED
    BY <1>10, <2>1, Zenon DEF StepPath
<1>5. f[m] = g[m]
  <2> DEFINE R == {i \in 0 .. m : f[i] = g[i]}
  <2>1. 0 \in R
    BY <1>1, <1>2, <1>3
  <2>2. \A i \in 0 .. m - 1 : i \in R => i + 1 \in R
    <3> SUFFICES ASSUME NEW i \in 0 .. m - 1, f[i] = g[i]
                 PROVE  f[i + 1] = g[i + 1]
      BY <1>1
    <3>1. i + 1 \in 1 .. m /\ i + 1 \in 1 .. m + n /\ (i + 1) - 1 = i
      BY <1>1
    <3>2. f[i + 1] = Does(f[i], c[i + 1][1], c[i + 1][2])
      BY <1>2, <3>1
    <3>3. g[i + 1] = Does(g[i], a[i + 1][1], a[i + 1][2])
      BY <1>3, <3>1
    <3> QED
      BY <1>1, <3>1, <3>2, <3>3
  <2>3. m \in 0 .. m
    BY <1>1
  <2> HIDE DEF R
  <2>4. m \in R
    BY <1>1, <2>1, <2>2, <2>3, UpTo
  <2> QED
    BY <2>4 DEF R
<1>6. f[m + n] = h[n]
  <2> DEFINE R == {i \in 0 .. n : f[m + i] = h[i]}
  <2>1. 0 \in R
    BY <1>1, <1>4, <1>5
  <2>2. \A i \in 0 .. n - 1 : i \in R => i + 1 \in R
    <3> SUFFICES ASSUME NEW i \in 0 .. n - 1, f[m + i] = h[i]
                 PROVE  f[m + (i + 1)] = h[i + 1]
      BY <1>1
    <3>1. PICK j \in 1 .. m + n : j = m + (i + 1) /\ j - 1 = m + i
      BY <1>1
    <3>2. i + 1 \in 1 .. n /\ (i + 1) - 1 = i
      BY <1>1
    <3>3. f[j] = Does(f[m + i], c[j][1], c[j][2])
      BY <1>2, <3>1
    <3>4. h[i + 1] = Does(h[i], b[i + 1][1], b[i + 1][2])
      BY <1>4, <3>2
    <3>5. c[j] = b[i + 1]
      BY <1>1, <3>1, <3>2
    <3> QED
      BY <3>1, <3>3, <3>4, <3>5
  <2>3. n \in 0 .. n
    BY <1>1
  <2> HIDE DEF R
  <2>4. n \in R
    BY <1>1, <2>1, <2>2, <2>3, UpTo
  <2> QED
    BY <2>4 DEF R
<1> QED
  BY <1>1, <1>2, <1>3, <1>4, <1>6, <1>8, Zenon

\* So, whatever the two lists.
LEMMA StepsCats ==
  \A d, S : \A a, b \in Seq(S) : Steps(d, a \o b) = Steps(Steps(d, a), b)
BY StepsCat

\* A list of pseudo operations keeps a port in step.
LEMMA StepsMove ==
  ASSUME NEW d, Whole(d), NEW list \in Seq(Pseudo), NEW e, e = Steps(d, list)
  PROVE  Moves(d, e) /\ (list \in Seq(Gentle) => Works(d, e)) /\ e.timeout = d.timeout
<1>1. PICK n \in Nat : n = Len(list)
  OBVIOUS
<1>2. PICK f : /\ f[0] = d /\ f[n] = Steps(d, list)
               /\ \A i \in 1 .. n : f[i] = Does(f[i - 1], list[i][1], list[i][2])
  BY <1>1, StepsPath
<1>3. \A i \in 1 .. n : list[i] \in Pseudo /\ (list \in Seq(Gentle) => list[i] # Asserts)
  BY <1>1 DEF Gentle
<1> DEFINE S == {m \in 0 .. n : /\ Moves(d, f[m]) /\ f[m].timeout = d.timeout
                                /\ list \in Seq(Gentle) => Works(d, f[m])}
<1>4. 0 \in S
  BY <1>2, WorksNot DEF Works
<1>5. ASSUME NEW m \in 0 .. n - 1, m \in S PROVE m + 1 \in S
  <2>1. PICK a, b, p : a = f[m] /\ b = f[m + 1] /\ p = list[m + 1]
    OBVIOUS
  <2>2. m + 1 \in 1 .. n /\ (m + 1) - 1 = m
    OBVIOUS
  <2>3. /\ p \in Pseudo /\ b = Does(a, p[1], p[2])
        /\ list \in Seq(Gentle) => p # Asserts
    BY <1>2, <1>3, <2>1, <2>2
  <2>4. Moves(d, a) /\ (list \in Seq(Gentle) => Works(d, a)) /\ a.timeout = d.timeout
    BY <1>5, <2>1
  <2>5. Whole(a)
    BY <2>4 DEF Moves, Calms
  <2>6. Moves(a, b) /\ (p # Asserts => Works(a, b)) /\ b.timeout = a.timeout
    BY <2>3, <2>5, DoesWorks
  <2>7. Moves(d, b) /\ (list \in Seq(Gentle) => Works(d, b)) /\ b.timeout = d.timeout
    BY <2>3, <2>4, <2>6, MovesOn, WorksOn
  <2> QED
    BY <2>1, <2>2, <2>7
<1>6. \A i \in 0 .. n : i \in S
  <2> HIDE DEF S
  <2>1. \A i \in 0 .. n - 1 : i \in S => i + 1 \in S
    BY <1>5
  <2> QED
    BY <1>4, <2>1, UpTo
<1>7. n \in S
  BY <1>6
<1> QED
  BY <1>2, <1>7

\* And without the assertion of reset.
LEMMA StepsWork ==
  ASSUME NEW d, Whole(d), NEW list \in Seq(Gentle), NEW e, e = Steps(d, list)
  PROVE  Works(d, e) /\ e.timeout = d.timeout
<1>1. list \in Seq(Pseudo)
  BY DEF Gentle
<1> QED
  BY <1>1, StepsMove

-----------------------------------------------------------------------------
(* The processor and what it is given.                                     *)

\* What changes nothing but these works inside of the target or the adapter.
LEMMA Within ==
  ASSUME NEW d, Whole(d), NEW e, DOMAIN e = Parts,
         \A q \in Parts \ {"MCLR", "PMCLR", "cpu", "protected", "expects", "left",
                           "loaded", "deaf", "reply"} : e[q] = d[q],
         e.cpu \in Processor, e.protected \in BOOLEAN,
         e.expects \in {"address", "count", "words"}
  PROVE  Works(d, e) /\ e.timeout = d.timeout
<1>1. /\ SamePins(d, e) /\ SameBuffers(d, e) /\ e.asserted = d.asserted
      /\ e.tap = d.tap /\ e.missed = d.missed /\ e.timeout = d.timeout
  BY DEF SamePins, SameBuffers, Parts
<1> QED
  BY <1>1, Inside

\* An instruction for the processor.
LEMMA GivenWorks ==
  \A d, word : Whole(d) =>
      Works(d, Given(d, word)) /\ Given(d, word).timeout = d.timeout
<1> SUFFICES ASSUME NEW d, NEW word, Whole(d)
             PROVE  Works(d, Given(d, word)) /\ Given(d, word).timeout = d.timeout
  OBVIOUS
<1>1. PICK cpu : cpu = IF word = JUMP THEN "loader" ELSE d.cpu
  OBVIOUS
<1>2. cpu \in Processor
  BY <1>1 DEF Whole, Processor
<1>3. \/ Given(d, word) = d
      \/ Given(d, word) = [d EXCEPT !.deaf = TRUE]
      \/ Given(d, word) = [d EXCEPT !.cpu = cpu]
  BY <1>1, Zenon DEF Given
<1>4. CASE Given(d, word) = d
  BY <1>4, WorksNot
<1>5. ASSUME NEW e, e = [d EXCEPT !.deaf = TRUE]
      PROVE  Works(d, e) /\ e.timeout = d.timeout
  <2>1. /\ DOMAIN e = Parts /\ \A q \in Parts : q # "deaf" => e[q] = d[q]
    BY <1>5 DEF Whole, Parts
  <2>2. e.cpu = d.cpu /\ e.protected = d.protected /\ e.expects = d.expects
    BY <2>1 DEF Parts
  <2> QED
    BY <2>1, <2>2, Within DEF Whole
<1>6. ASSUME NEW e, e = [d EXCEPT !.cpu = cpu]
      PROVE  Works(d, e) /\ e.timeout = d.timeout
  <2>1. /\ DOMAIN e = Parts /\ e.cpu = cpu /\ \A q \in Parts : q # "cpu" => e[q] = d[q]
    BY <1>6 DEF Whole, Parts
  <2>2. e.cpu \in Processor /\ e.protected = d.protected /\ e.expects = d.expects
    BY <1>2, <2>1 DEF Parts
  <2> QED
    BY <2>1, <2>2, Within DEF Whole
<1> QED
  BY <1>3, <1>4, <1>5, <1>6, Zenon

\* A word for the loader.
LEMMA TakenWorks ==
  \A d, word : Whole(d) =>
      Works(d, Taken(d, word)) /\ Taken(d, word).timeout = d.timeout
<1> SUFFICES ASSUME NEW d, NEW word, Whole(d)
             PROVE  Works(d, Taken(d, word)) /\ Taken(d, word).timeout = d.timeout
  OBVIOUS
<1>1. PICK left, loaded, next : /\ left = d.left - 1 /\ loaded = d.loaded + 1
                                /\ next = IF d.left = 1 THEN "address" ELSE "words"
  OBVIOUS
<1>2. /\ "address" # "count" /\ "address" # "words" /\ "count" # "words"
      /\ d.expects = "address" \/ d.expects = "count" \/ d.expects = "words"
  BY DEF Whole
<1>3. \/ Loads(d, word) = [d EXCEPT !.expects = "count"]
      \/ Loads(d, word) = [d EXCEPT !.cpu = "pe"]
      \/ Loads(d, word) = [d EXCEPT !.expects = "address"]
      \/ Loads(d, word) = [d EXCEPT !.expects = "words", !.left = word]
      \/ Loads(d, word) = [d EXCEPT !.left = left, !.loaded = loaded, !.expects = next]
  <2>1. CASE d.expects = "address"
    BY <1>2, <2>1, Zenon DEF Loads
  <2>2. CASE d.expects = "words"
    BY <1>1, <1>2, <2>2, Zenon DEF Loads
  <2>3. CASE d.expects = "count" /\ word = STOP
    <3>1. STOP # 0
      BY DEF STOP
    <3>2. STOP \in {0, STOP}
      OBVIOUS
    <3> QED
      BY <1>2, <2>3, <3>1, <3>2, Zenon DEF Loads
  <2>4. CASE d.expects = "count" /\ word # STOP /\ word = 0
    BY <1>2, <2>4, Zenon DEF Loads
  <2>5. CASE d.expects = "count" /\ word # STOP /\ word # 0
    <3>1. word \notin {0, STOP}
      BY <2>5
    <3> QED
      BY <1>2, <2>5, <3>1, Zenon DEF Loads
  <2> QED
    BY <1>2, <2>1, <2>2, <2>3, <2>4, <2>5, Zenon
<1>4. ASSUME NEW e, NEW cpu \in Processor,
             NEW expects \in {"address", "count", "words"}, NEW l, NEW m,
             e = [d EXCEPT !.cpu = cpu, !.expects = expects, !.left = l, !.loaded = m]
      PROVE  Works(d, e) /\ e.timeout = d.timeout
  <2>1. /\ DOMAIN e = Parts /\ e.cpu = cpu /\ e.expects = expects
        /\ \A q \in Parts \ {"cpu", "expects", "left", "loaded"} : e[q] = d[q]
    BY <1>4 DEF Whole, Parts
  <2>2. e.cpu \in Processor /\ e.protected = d.protected
    BY <2>1 DEF Parts
  <2> QED
    BY <2>1, <2>2, Within DEF Whole
<1>5. ASSUME NEW e, NEW cpu \in Processor, NEW expects \in {"address", "count", "words"},
             NEW l, NEW m,
             \/ e = [d EXCEPT !.expects = expects]
             \/ e = [d EXCEPT !.cpu = cpu]
             \/ e = [d EXCEPT !.expects = expects, !.left = l]
             \/ e = [d EXCEPT !.left = l, !.loaded = m, !.expects = expects]
      PROVE  Works(d, e) /\ e.timeout = d.timeout
  <2>1. d.cpu \in Processor /\ d.expects \in {"address", "count", "words"}
    BY DEF Whole
  <2>2. CASE e = [d EXCEPT !.expects = expects]
    <3>1. e = [d EXCEPT !.cpu = d.cpu, !.expects = expects, !.left = d.left,
                        !.loaded = d.loaded]
      BY <2>2 DEF Whole, Parts
    <3> QED
      BY <1>4, <2>1, <3>1, Zenon
  <2>3. CASE e = [d EXCEPT !.cpu = cpu]
    <3>1. e = [d EXCEPT !.cpu = cpu, !.expects = d.expects, !.left = d.left,
                        !.loaded = d.loaded]
      BY <2>3 DEF Whole, Parts
    <3> QED
      BY <1>4, <2>1, <3>1, Zenon
  <2>4. CASE e = [d EXCEPT !.expects = expects, !.left = l]
    <3>1. e = [d EXCEPT !.cpu = d.cpu, !.expects = expects, !.left = l,
                        !.loaded = d.loaded]
      BY <2>4 DEF Whole, Parts
    <3> QED
      BY <1>4, <2>1, <3>1, Zenon
  <2>5. CASE e = [d EXCEPT !.left = l, !.loaded = m, !.expects = expects]
    <3>1. e = [d EXCEPT !.cpu = d.cpu, !.expects = expects, !.left = l, !.loaded = m]
      BY <2>5 DEF Whole, Parts
    <3> QED
      BY <1>4, <2>1, <3>1, Zenon
  <2> QED
    BY <1>5, <2>2, <2>3, <2>4, <2>5
<1>6. Works(d, Loads(d, word)) /\ Loads(d, word).timeout = d.timeout
  <2>1. "pe" \in Processor /\ d.cpu \in Processor
    BY DEF Whole, Processor
  <2>2. next \in {"address", "count", "words"}
    BY <1>1
  <2> QED
    BY <1>3, <1>5, <2>1, <2>2, Zenon
<1> QED
  BY <1>6, WorksNot, Zenon DEF Taken

\* f gives the device after each word of fast data.
FastRun(d, words, n, f) ==
    f = [i \in 0 .. n |-> IF i = 0 THEN d ELSE Taken(f[i - 1], words[i])]

\* There is such a function.
LEMMA FastRunExists ==
  ASSUME NEW d, NEW words, NEW n \in Nat
  PROVE  \E f : FastRun(d, words, n, f)
<1> DEFINE S == {m \in 0 .. n : \E f : FastRun(d, words, m, f)}
<1>1. 0 \in S
  <2>1. FastRun(d, words, 0, [i \in 0 .. 0 |-> d])
    BY DEF FastRun
  <2> QED
    BY <2>1
<1>2. \A m \in 0 .. n - 1 : m \in S => m + 1 \in S
  <2> SUFFICES ASSUME NEW m \in 0 .. n - 1, NEW f, FastRun(d, words, m, f)
               PROVE  \E g : FastRun(d, words, m + 1, g)
    OBVIOUS
  <2> DEFINE g == [i \in 0 .. m + 1 |->
                      IF i = m + 1 THEN Taken(f[m], words[m + 1]) ELSE f[i]]
  <2>1. \A i \in 0 .. m : f[i] = IF i = 0 THEN d ELSE Taken(f[i - 1], words[i])
    BY DEF FastRun
  <2>2. \A i \in 0 .. m + 1 : g[i] = IF i = 0 THEN d ELSE Taken(g[i - 1], words[i])
    BY <2>1
  <2>3. FastRun(d, words, m + 1, g)
    BY <2>2 DEF FastRun
  <2> QED
    BY <2>3
<1>3. n \in S
  <2> HIDE DEF S
  <2>1. n \in 0 .. n
    OBVIOUS
  <2> QED
    BY <1>1, <1>2, <2>1, UpTo
<1> QED
  BY <1>3

\* Fast data works inside of the target.
LEMMA FastedWorks ==
  \A d, words : Whole(d) /\ Len(words) \in Nat =>
      Works(d, Fasted(d, words)) /\ Fasted(d, words).timeout = d.timeout
<1> SUFFICES ASSUME NEW d, NEW words, Whole(d), NEW n \in Nat, n = Len(words)
             PROVE  Works(d, Fasted(d, words)) /\ Fasted(d, words).timeout = d.timeout
  OBVIOUS
<1> DEFINE f == CHOOSE g : FastRun(d, words, n, g)
<1>1. FastRun(d, words, n, f)
  BY FastRunExists
<1>2. Fasted(d, words) = IF d.cpu \in {"debug", "loader", "pe"} THEN f[n]
                         ELSE [d EXCEPT !.deaf = TRUE]
  BY DEF Fasted, FastRun
<1> HIDE DEF f
<1>3. f[0] = d /\ \A i \in 1 .. n : f[i] = Taken(f[i - 1], words[i])
  BY <1>1 DEF FastRun
<1> DEFINE S == {m \in 0 .. n : Works(d, f[m]) /\ f[m].timeout = d.timeout}
<1>4. 0 \in S
  BY <1>3, WorksNot
<1>5. ASSUME NEW m \in 0 .. n - 1, m \in S PROVE m + 1 \in S
  <2>1. PICK a, b, w : a = f[m] /\ b = f[m + 1] /\ w = words[m + 1]
    OBVIOUS
  <2>2. m + 1 \in 1 .. n /\ (m + 1) - 1 = m
    OBVIOUS
  <2>3. b = Taken(a, w)
    BY <1>3, <2>1, <2>2
  <2>4. Works(d, a) /\ a.timeout = d.timeout
    BY <1>5, <2>1
  <2>5. Whole(a)
    BY <2>4 DEF Works, Moves, Calms
  <2>6. Works(a, b) /\ b.timeout = a.timeout
    BY <2>3, <2>5, TakenWorks
  <2>7. Works(d, b) /\ b.timeout = d.timeout
    BY <2>4, <2>6, WorksOn
  <2> QED
    BY <2>1, <2>2, <2>7
<1>6. \A i \in 0 .. n : i \in S
  <2> HIDE DEF S
  <2>1. \A i \in 0 .. n - 1 : i \in S => i + 1 \in S
    BY <1>5
  <2> QED
    BY <1>4, <2>1, UpTo
<1>7. Works(d, f[n]) /\ f[n].timeout = d.timeout
  BY <1>6
<1>8. ASSUME NEW e, e = [d EXCEPT !.deaf = TRUE]
      PROVE  Works(d, e) /\ e.timeout = d.timeout
  <2>1. /\ DOMAIN e = Parts /\ \A q \in Parts : q # "deaf" => e[q] = d[q]
    BY <1>8 DEF Whole, Parts
  <2>2. e.cpu = d.cpu /\ e.protected = d.protected /\ e.expects = d.expects
    BY <2>1 DEF Parts
  <2> QED
    BY <2>1, <2>2, Within DEF Whole
<1> QED
  BY <1>2, <1>7, <1>8, Zenon

\* f gives the device after each of n instructions.
GivenRun(d, words, n, f) ==
    f = [i \in 0 .. n |-> IF i = 0 THEN d ELSE Given(f[i - 1], words[i])]

\* There is such a function.
LEMMA GivenRunExists ==
  ASSUME NEW d, NEW words, NEW n \in Nat
  PROVE  \E f : GivenRun(d, words, n, f)
<1> DEFINE S == {m \in 0 .. n : \E f : GivenRun(d, words, m, f)}
<1>1. 0 \in S
  <2>1. GivenRun(d, words, 0, [i \in 0 .. 0 |-> d])
    BY DEF GivenRun
  <2> QED
    BY <2>1
<1>2. \A m \in 0 .. n - 1 : m \in S => m + 1 \in S
  <2> SUFFICES ASSUME NEW m \in 0 .. n - 1, NEW f, GivenRun(d, words, m, f)
               PROVE  \E g : GivenRun(d, words, m + 1, g)
    OBVIOUS
  <2> DEFINE g == [i \in 0 .. m + 1 |->
                      IF i = m + 1 THEN Given(f[m], words[m + 1]) ELSE f[i]]
  <2>1. \A i \in 0 .. m : f[i] = IF i = 0 THEN d ELSE Given(f[i - 1], words[i])
    BY DEF GivenRun
  <2>2. \A i \in 0 .. m + 1 : g[i] = IF i = 0 THEN d ELSE Given(g[i - 1], words[i])
    BY <2>1
  <2>3. GivenRun(d, words, m + 1, g)
    BY <2>2 DEF GivenRun
  <2> QED
    BY <2>3
<1>3. n \in S
  <2> HIDE DEF S
  <2>1. n \in 0 .. n
    OBVIOUS
  <2> QED
    BY <1>1, <1>2, <2>1, UpTo
<1> QED
  BY <1>3

\* So do many instructions, one after the other.
LEMMA GivenRunWorks ==
  ASSUME NEW d, Whole(d), NEW words, NEW n \in Nat, NEW f, GivenRun(d, words, n, f)
  PROVE  Works(d, f[n]) /\ f[n].timeout = d.timeout
<1>3. f[0] = d /\ \A i \in 1 .. n : f[i] = Given(f[i - 1], words[i])
  BY DEF GivenRun
<1> DEFINE S == {m \in 0 .. n : Works(d, f[m]) /\ f[m].timeout = d.timeout}
<1>4. 0 \in S
  BY <1>3, WorksNot
<1>5. ASSUME NEW m \in 0 .. n - 1, m \in S PROVE m + 1 \in S
  <2>1. PICK a, b, w : a = f[m] /\ b = f[m + 1] /\ w = words[m + 1]
    OBVIOUS
  <2>2. m + 1 \in 1 .. n /\ (m + 1) - 1 = m
    OBVIOUS
  <2>3. b = Given(a, w)
    BY <1>3, <2>1, <2>2
  <2>4. Works(d, a) /\ a.timeout = d.timeout
    BY <1>5, <2>1
  <2>5. Whole(a)
    BY <2>4 DEF Works, Moves, Calms
  <2>6. Works(a, b) /\ b.timeout = a.timeout
    BY <2>3, <2>5, GivenWorks
  <2>7. Works(d, b) /\ b.timeout = d.timeout
    BY <2>4, <2>6, WorksOn
  <2> QED
    BY <2>1, <2>2, <2>7
<1>6. \A i \in 0 .. n : i \in S
  <2> HIDE DEF S
  <2>1. \A i \in 0 .. n - 1 : i \in S => i + 1 \in S
    BY <1>5
  <2> QED
    BY <1>4, <2>1, UpTo
<1> QED
  BY <1>6

-----------------------------------------------------------------------------
(* The commands of the firmware.                                           *)

\* Fast data works like a word; what it is given goes to the processor.
LEMMA TransferFastWorks ==
  \A d, words : Whole(d) /\ Len(words) \in Nat =>
      Works(d, TransferFast(d, words)) /\ TransferFast(d, words).timeout = d.timeout
<1> SUFFICES ASSUME NEW d, NEW words, Whole(d), Len(words) \in Nat
             PROVE  /\ Works(d, TransferFast(d, words))
                    /\ TransferFast(d, words).timeout = d.timeout
  OBVIOUS
<1>1. PICK e : e = Clocks(d, XferFastData(Word))
  OBVIOUS
<1>2. XferFastData(Word) = XferData(LongWord)
  BY WordIs, FastIsXfer, Zenon DEF LongWord
<1>3. Works(d, e) /\ e.timeout = d.timeout
  <2>1. e = Clocks(d, XferData(LongWord))
    BY <1>1, <1>2, Zenon
  <2> QED
    BY <2>1, LongWordIs, TransferWorks DEF SameRest
<1>4. Works(e, Fasted(e, words)) /\ Fasted(e, words).timeout = e.timeout
  <2>1. Whole(e)
    BY <1>3 DEF Works, Moves, Calms
  <2> QED
    BY <2>1, FastedWorks
<1>5. Works(d, Fasted(e, words)) /\ Fasted(e, words).timeout = d.timeout
  BY <1>3, <1>4, WorksOn
<1>6. TransferFast(d, words) = Fasted(e, words) \/ TransferFast(d, words) = e
  BY <1>1, Zenon DEF TransferFast
<1> QED
  BY <1>3, <1>5, <1>6, Zenon

\* The lists of pseudo operations that the firmware goes through.
LEMMA Lists ==
  /\ Waiting \in Seq(Gentle)
  /\ <<<<"SendCommand", DATA>>, <<"XferWord", 0>>>> \in Seq(Gentle)
  /\ Waiting \o <<<<"SendCommand", DATA>>, <<"XferWord", 0>>>> \o Waiting \in Seq(Gentle)
  /\ <<<<"SetMode", 6>>, <<"SendCommand", SW_MTAP>>, <<"SetMode", 6>>,
       <<"SendCommand", COMMAND>>, <<"XferData", 0>>>> \in Seq(Gentle)
  /\ <<<<"SendCommand", SW_ETAP>>, <<"SetMode", 6>>,
       <<"SendCommand", EJTAGBOOT>>>> \in Seq(Gentle)
  /\ <<"SendCommand", SW_ETAP>> \in Gentle /\ <<"SendCommand", EJTAGBOOT>> \in Gentle
  /\ <<"SendCommand", SW_MTAP>> \in Gentle /\ <<"SendCommand", COMMAND>> \in Gentle
  /\ <<"XferData", 208>> \in Gentle /\ <<"XferData", 254>> \in Gentle
<1>1. PICK c, a, s, m, e, b : /\ c = <<"SendCommand", CONTROL>>
                              /\ a = <<"SendCommand", DATA>>
                              /\ s = <<"SendCommand", SW_ETAP>>
                              /\ m = <<"SendCommand", SW_MTAP>>
                              /\ e = <<"SendCommand", EJTAGBOOT>>
                              /\ b = <<"SendCommand", COMMAND>>
  OBVIOUS
<1>2. PICK w, r, y, z, v : /\ w = <<"XferWord", 0>> /\ r = <<"SetMode", 6>>
                           /\ y = <<"XferData", 208>>
                           /\ z = <<"XferData", 254>> /\ v = <<"XferData", 0>>
  OBVIOUS
<1>3. /\ c \in Gentle /\ a \in Gentle /\ s \in Gentle
      /\ m \in Gentle /\ e \in Gentle /\ b \in Gentle
  <2>1. \A i \in 0 .. 31 : <<"SendCommand", i>> \in Pseudo
    BY Zenon DEF Pseudo
  <2>2. /\ CONTROL \in 0 .. 31 /\ DATA \in 0 .. 31 /\ SW_ETAP \in 0 .. 31
        /\ SW_MTAP \in 0 .. 31 /\ EJTAGBOOT \in 0 .. 31 /\ COMMAND \in 0 .. 31
    BY DEF CONTROL, DATA, SW_ETAP, SW_MTAP, EJTAGBOOT, COMMAND
  <2>3. \A i \in 0 .. 31 : <<"SendCommand", i>> # Asserts
    BY DEF Asserts
  <2>4. \A i \in 0 .. 31 : <<"SendCommand", i>> \in Gentle
    BY <2>1, <2>3, Zenon DEF Gentle
  <2> QED
    BY <1>1, <2>2, <2>4, Zenon
<1>4. w \in Gentle /\ r \in Gentle /\ y \in Gentle /\ z \in Gentle /\ v \in Gentle
  <2>1. \A i \in Nat : <<"XferData", i>> \in Pseudo
    BY Zenon DEF Pseudo
  <2>2. 208 \in Nat /\ 254 \in Nat /\ 0 \in Nat
    OBVIOUS
  <2>3. <<"XferWord", 0>> \in Pseudo /\ <<"SetMode", 6>> \in Pseudo
    BY Zenon DEF Pseudo
  <2>4. w \in Pseudo /\ r \in Pseudo /\ y \in Pseudo /\ z \in Pseudo /\ v \in Pseudo
    BY <1>2, <2>1, <2>2, <2>3, ZenonT(60)
  <2>5. w # Asserts /\ r # Asserts /\ y # Asserts /\ z # Asserts /\ v # Asserts
    BY <1>2 DEF Asserts
  <2> QED
    BY <2>4, <2>5, Zenon DEF Gentle
<1>5. PICK P : P = Gentle
  OBVIOUS
<1>6. /\ c \in P /\ a \in P /\ s \in P /\ m \in P /\ e \in P /\ b \in P
      /\ w \in P /\ r \in P /\ y \in P /\ z \in P /\ v \in P
  BY <1>3, <1>4, <1>5, Zenon
<1>7. <<c, w>> \in Seq(P) /\ <<a, w>> \in Seq(P)
  BY <1>6
<1>8. <<r, m, r, b, v>> \in Seq(P) /\ <<s, r, e>> \in Seq(P)
  BY <1>6
<1>10. \A f, g \in Seq(P) : f \o g \in Seq(P)
  OBVIOUS
<1>11. Waiting = <<c, w>>
  BY <1>1, <1>2, Zenon DEF Waiting
<1>12. <<c, w>> \o <<a, w>> \o <<c, w>> \in Seq(P)
  BY <1>7, <1>10, Zenon
<1>14. Waiting \in Seq(Gentle) /\ <<a, w>> \in Seq(Gentle)
  BY <1>5, <1>7, <1>11, Zenon
<1>15. Waiting \o <<a, w>> \o Waiting \in Seq(Gentle)
  BY <1>5, <1>11, <1>12, Zenon
<1>16. <<r, m, r, b, v>> \in Seq(Gentle) /\ <<s, r, e>> \in Seq(Gentle)
  BY <1>5, <1>8, Zenon
<1>18. <<<<"SendCommand", DATA>>, <<"XferWord", 0>>>> \in Seq(Gentle)
  BY <1>1, <1>2, <1>14, Zenon
<1>19. Waiting \o <<<<"SendCommand", DATA>>, <<"XferWord", 0>>>> \o Waiting \in Seq(Gentle)
  BY <1>1, <1>2, <1>15, Zenon
<1>20. <<<<"SetMode", 6>>, <<"SendCommand", SW_MTAP>>, <<"SetMode", 6>>,
         <<"SendCommand", COMMAND>>, <<"XferData", 0>>>> \in Seq(Gentle)
  BY <1>1, <1>2, <1>16, Zenon
<1>21. <<<<"SendCommand", SW_ETAP>>, <<"SetMode", 6>>,
         <<"SendCommand", EJTAGBOOT>>>> \in Seq(Gentle)
  BY <1>1, <1>2, <1>16, Zenon
<1> QED
  BY <1>1, <1>2, <1>3, <1>4, <1>14, <1>18, <1>19, <1>20, <1>21, Zenon

\* A wait for the processor.
LEMMA WaitWorks ==
  \A d : Whole(d) => Works(d, WaitETAP_Ready(d)) /\ WaitETAP_Ready(d).timeout = d.timeout
BY Lists, StepsWork DEF WaitETAP_Ready

\* Such a device with another mark.
LEMMA MarkWorks ==
  \A d, x : Whole(d) => /\ Works(d, [d EXCEPT !.reply = x])
                        /\ [d EXCEPT !.reply = x].timeout = d.timeout
                        /\ Works(d, [d EXCEPT !.timeout = x])
<1> SUFFICES ASSUME NEW d, NEW x, Whole(d),
                    NEW e, e = [d EXCEPT !.reply = x], NEW f, f = [d EXCEPT !.timeout = x]
             PROVE  Works(d, e) /\ e.timeout = d.timeout /\ Works(d, f)
  OBVIOUS
<1>1. DOMAIN e = Parts /\ \A q \in Parts : q # "reply" => e[q] = d[q]
  BY DEF Whole, Parts
<1>2. e.cpu = d.cpu /\ e.protected = d.protected /\ e.expects = d.expects
  BY <1>1 DEF Parts
<1>3. Works(d, e) /\ e.timeout = d.timeout
  BY <1>1, <1>2, Within DEF Whole
<1>4. DOMAIN f = Parts /\ \A q \in Parts : q # "timeout" => f[q] = d[q]
  BY DEF Whole, Parts
<1>5. /\ SamePins(d, f) /\ SameBuffers(d, f) /\ f.asserted = d.asserted
      /\ f.tap = d.tap /\ f.missed = d.missed
      /\ f.cpu = d.cpu /\ f.protected = d.protected /\ f.expects = d.expects
  BY <1>4 DEF Parts, SamePins, SameBuffers
<1>6. Works(d, f)
  BY <1>4, <1>5, Inside DEF Whole
<1> QED
  BY <1>3, <1>6

\* XferInstruction, whether the wait is answered or not.
LEMMA XferInstructionWorks ==
  \A d, word : \A e \in XferInstruction(d, word) : Whole(d) =>
      Works(d, e) /\ e.timeout = d.timeout
<1> SUFFICES ASSUME NEW d, NEW word, NEW e \in XferInstruction(d, word), Whole(d)
             PROVE  Works(d, e) /\ e.timeout = d.timeout
  OBVIOUS
<1>1. PICK list : list = <<<<"SendCommand", DATA>>, <<"XferWord", 0>>>>
                  /\ list \in Seq(Gentle)
  BY Lists
<1>2. PICK w, s, g, f : /\ w = WaitETAP_Ready(d) /\ s = Steps(w, list)
                        /\ g = Given(s, word) /\ f = WaitETAP_Ready(g)
  OBVIOUS
<1>3. e = w \/ e = [f EXCEPT !.reply = 1]
  BY <1>1, <1>2, Zenon DEF XferInstruction
<1>4. Works(d, w) /\ w.timeout = d.timeout /\ Whole(w)
  BY <1>2, WaitWorks DEF Works, Moves, Calms
<1>5. Works(w, s) /\ s.timeout = w.timeout /\ Whole(s)
  <2>1. list \in Seq(Gentle) /\ s = Steps(w, list)
    BY <1>1, <1>2, Zenon
  <2> QED
    BY <1>4, <2>1, StepsWork DEF Works, Moves, Calms
<1>6. Works(s, g) /\ g.timeout = s.timeout /\ Whole(g)
  BY <1>2, <1>5, GivenWorks DEF Works, Moves, Calms
<1>7. Works(g, f) /\ f.timeout = g.timeout /\ Whole(f)
  BY <1>2, <1>6, WaitWorks DEF Works, Moves, Calms
<1>8. Works(d, f) /\ f.timeout = d.timeout
  BY <1>4, <1>5, <1>6, <1>7, WorksOn
<1>9. ASSUME e = [f EXCEPT !.reply = 1] PROVE Works(f, e) /\ e.timeout = f.timeout
  BY <1>7, <1>9, MarkWorks, Zenon
<1> QED
  BY <1>3, <1>4, <1>8, <1>9, WorksOn

\* A response of the executive.
LEMMA ResponseWorks ==
  \A d : Whole(d) => Works(d, GetPEResponse(d)) /\ GetPEResponse(d).timeout = d.timeout
BY Lists, StepsWork DEF GetPEResponse

\* The reset line of the four-wire connector, in either direction.
LEMMA LineWorks ==
  \A d, x : Whole(d) =>
      /\ Works(d, Settled([d EXCEPT !.MCLR = x]))
      /\ Settled([d EXCEPT !.MCLR = x]).timeout = d.timeout
<1> SUFFICES ASSUME NEW d, NEW x, Whole(d), NEW e, e = [d EXCEPT !.MCLR = x]
             PROVE  Works(d, Settled(e)) /\ Settled(e).timeout = d.timeout
  OBVIOUS
<1>1. DOMAIN e = Parts /\ \A q \in Parts : q # "MCLR" => e[q] = d[q]
  BY DEF Whole, Parts
<1>2. e.cpu = d.cpu /\ e.protected = d.protected /\ e.expects = d.expects
  BY <1>1 DEF Parts
<1>3. Works(d, e) /\ e.timeout = d.timeout
  BY <1>1, <1>2, Within DEF Whole
<1>4. Works(e, Settled(e)) /\ Settled(e).timeout = e.timeout
  BY <1>3, SettledWorks DEF Works, Moves, Calms
<1> QED
  BY <1>3, <1>4, WorksOn

\* The status, which brings the port in step first.
LEMMA StatusWorks ==
  \A d : Whole(d) => /\ Works(d, GetMCHPStatus(d)) /\ InStep(GetMCHPStatus(d))
                     /\ GetMCHPStatus(d).timeout = d.timeout
<1> SUFFICES ASSUME NEW d, Whole(d)
             PROVE  /\ Works(d, GetMCHPStatus(d)) /\ InStep(GetMCHPStatus(d))
                    /\ GetMCHPStatus(d).timeout = d.timeout
  OBVIOUS
<1>1. PICK list : /\ list \in Seq(Gentle)
                  /\ list = <<<<"SetMode", 6>>, <<"SendCommand", SW_MTAP>>,
                              <<"SetMode", 6>>, <<"SendCommand", COMMAND>>,
                              <<"XferData", 0>>>>
  BY Lists
<1>2. PICK h : h = IF d.wireMode = "JTAG" THEN Settled([d EXCEPT !.MCLR = 0]) ELSE d
  OBVIOUS
<1>3. Works(d, h) /\ h.timeout = d.timeout
  BY <1>2, LineWorks, WorksNot, Zenon
<1>4. GetMCHPStatus(d) = Steps(h, list)
  BY <1>1, <1>2, Zenon DEF GetMCHPStatus
<1>5. Works(h, Steps(h, list)) /\ Steps(h, list).timeout = h.timeout
  BY <1>1, <1>3, StepsWork DEF Works, Moves, Calms
<1>6. InStep(Steps(h, list))
  <2>1. Len(list) = 5 /\ list[1] = <<"SetMode", 6>>
    BY <1>1
  <2>2. \A i \in 1 .. 5 : list[i] \in Gentle
    BY <1>1, <2>1
  <2>10. 5 \in Nat /\ 5 = Len(list)
    BY <2>1
  <2>11. PICK f : StepPath(h, list, 5, f)
    BY <2>10, StepsRuns, Zenon
  <2>3. /\ f[0] = h /\ f[5] = Steps(h, list)
        /\ \A i \in 1 .. 5 : f[i] = Does(f[i - 1], list[i][1], list[i][2])
    BY <2>11, Zenon DEF StepPath
  <2>4. f[1] = Does(h, "SetMode", 6)
    <3>1. f[1] = Does(f[1 - 1], list[1][1], list[1][2])
      BY <2>3
    <3> QED
      BY <2>1, <2>3, <3>1
  <2>5. Whole(h)
    BY <1>3 DEF Works, Moves, Calms
  <2>6. InStep(f[1]) /\ Whole(f[1])
    BY <2>4, <2>5, ResetWorks, Zenon DEF Works, Moves, Calms
  <2>7. ASSUME NEW i \in 2 .. 5, InStep(f[i - 1]), Whole(f[i - 1])
        PROVE  InStep(f[i]) /\ Whole(f[i])
    <3>1. list[i] \in Pseudo /\ f[i] = Does(f[i - 1], list[i][1], list[i][2])
      BY <2>2, <2>3 DEF Gentle
    <3>2. PICK p : p = list[i]
      OBVIOUS
    <3>3. Moves(f[i - 1], f[i])
      BY <2>7, <3>1, <3>2, DoesWorks
    <3> QED
      BY <2>7, <3>3 DEF Moves, Calms
  <2> QED
    BY <2>3, <2>6, <2>7
<1> QED
  BY <1>3, <1>4, <1>5, <1>6, WorksOn

\* With two wires it has the MTAP hold the processor in reset, and let go of it.
LEMMA IcspWorks ==
  \A d, q, e : Whole(d) /\ InStep(d) /\ q \in {<<>>, <<<<"XferData", 254>>>>} /\
      e = Steps(d, <<<<"XferData", 209>>, <<"SendCommand", SW_ETAP>>,
                     <<"SendCommand", EJTAGBOOT>>, <<"SendCommand", SW_MTAP>>,
                     <<"SendCommand", COMMAND>>, <<"XferData", 208>>>>
                       \o q \o <<<<"SendCommand", SW_ETAP>>>>)
      => Works(d, e) /\ e.timeout = d.timeout
<1>24. SUFFICES ASSUME NEW d, NEW v, NEW e, Whole(d), InStep(d),
                    v \in {<<>>, <<<<"XferData", 254>>>>},
                    e = Steps(d, <<<<"XferData", 209>>, <<"SendCommand", SW_ETAP>>,
                             <<"SendCommand", EJTAGBOOT>>, <<"SendCommand", SW_MTAP>>,
                             <<"SendCommand", COMMAND>>, <<"XferData", 208>>>>
                               \o v \o <<<<"SendCommand", SW_ETAP>>>>)
             PROVE  Works(d, e) /\ e.timeout = d.timeout
  OBVIOUS
<1>1. PICK x, s, b, m, c, y, z :
          /\ x = <<"XferData", 209>> /\ s = <<"SendCommand", SW_ETAP>>
          /\ b = <<"SendCommand", EJTAGBOOT>> /\ m = <<"SendCommand", SW_MTAP>>
          /\ c = <<"SendCommand", COMMAND>> /\ y = <<"XferData", 208>>
          /\ z = <<"XferData", 254>>
  OBVIOUS
<1>2. /\ s \in Gentle /\ b \in Gentle /\ m \in Gentle /\ c \in Gentle /\ y \in Gentle
      /\ z \in Gentle /\ x \in Pseudo
  <2>1. 209 \in Nat
    OBVIOUS
  <2>2. x \in Pseudo
    BY <1>1, <2>1, Zenon DEF Pseudo
  <2> QED
    BY <1>1, <2>2, Lists, Zenon
<1>3. PICK P : P = Pseudo
  OBVIOUS
<1>4. PICK u, w : u = <<x, s, b, m, c, y>> /\ w = <<s>>
  OBVIOUS
<1>5. e = Steps(d, u \o v \o w)
  <2>1. u = <<<<"XferData", 209>>, <<"SendCommand", SW_ETAP>>,
              <<"SendCommand", EJTAGBOOT>>, <<"SendCommand", SW_MTAP>>,
              <<"SendCommand", COMMAND>>, <<"XferData", 208>>>>
    BY <1>1, <1>4, Zenon
  <2>2. w = <<<<"SendCommand", SW_ETAP>>>>
    BY <1>1, <1>4, Zenon
  <2> QED
    BY <1>24, <2>1, <2>2, Zenon
<1>6. u \in Seq(P) /\ v \in Seq(Gentle) /\ w \in Seq(Gentle) /\ Len(u) = 6
      /\ u[1] = x /\ u[2] = s /\ u[3] = b /\ u[4] = m /\ u[5] = c /\ u[6] = y
  <2>1. /\ s \in P /\ b \in P /\ m \in P /\ c \in P /\ y \in P /\ x \in P
    BY <1>2, <1>3 DEF Gentle
  <2>2. u \in Seq(P) /\ Len(u) = 6
        /\ u[1] = x /\ u[2] = s /\ u[3] = b /\ u[4] = m /\ u[5] = c /\ u[6] = y
    BY <1>4, <2>1
  <2>3. <<>> \in Seq(Gentle) /\ <<z>> \in Seq(Gentle) /\ w \in Seq(Gentle)
    BY <1>2, <1>4
  <2>4. v \in Seq(Gentle)
    BY <1>1, <1>24, <2>3, Zenon
  <2> QED
    BY <2>2, <2>3, <2>4
<1>7. PICK k, l : k = Steps(d, u) /\ l = Steps(k, v) /\ e = Steps(l, w)
  <2>1. \A q \in Seq(Gentle) : q \in Seq(P)
    BY <1>3 DEF Gentle
  <2>2. u \o v \in Seq(P) /\ v \in Seq(P) /\ w \in Seq(P)
    BY <1>6, <2>1
  <2>3. /\ Steps(d, (u \o v) \o w) = Steps(Steps(d, u \o v), w)
        /\ Steps(d, u \o v) = Steps(Steps(d, u), v)
    <3>1. /\ u \in Seq(P) /\ v \in Seq(P) /\ w \in Seq(P) /\ u \o v \in Seq(P)
      BY <1>6, <2>2
    <3>4. PICK r \in Seq(P) : r = u \o v
      BY <3>1
    <3>5. Steps(d, r \o w) = Steps(Steps(d, r), w)
      BY <3>1, StepsCats
    <3>2. Steps(d, (u \o v) \o w) = Steps(Steps(d, u \o v), w)
      BY <3>4, <3>5
    <3>3. Steps(d, u \o v) = Steps(Steps(d, u), v)
      BY <3>1, StepsCats
    <3> QED
      BY <3>2, <3>3
  <2> QED
    BY <1>5, <2>3
<1>22. 6 \in Nat /\ 6 = Len(u)
  BY <1>6
<1>23. PICK f : StepPath(d, u, 6, f)
  BY <1>22, StepsRuns, Zenon
<1>8. /\ f[0] = d /\ f[6] = k
      /\ \A i \in 1 .. 6 : f[i] = Does(f[i - 1], u[i][1], u[i][2])
  BY <1>7, <1>23, Zenon DEF StepPath
<1>9. /\ f[1] = Does(d, "XferData", 209) /\ f[2] = Does(f[1], "SendCommand", SW_ETAP)
      /\ f[3] = Does(f[2], "SendCommand", EJTAGBOOT)
      /\ f[4] = Does(f[3], "SendCommand", SW_MTAP)
      /\ f[5] = Does(f[4], "SendCommand", COMMAND) /\ f[6] = Does(f[5], "XferData", 208)
  <2>1. /\ f[1] = Does(f[0], u[1][1], u[1][2])
        /\ f[2] = Does(f[1], u[2][1], u[2][2])
        /\ f[3] = Does(f[2], u[3][1], u[3][2])
        /\ f[4] = Does(f[3], u[4][1], u[4][2])
        /\ f[5] = Does(f[4], u[5][1], u[5][2])
        /\ f[6] = Does(f[5], u[6][1], u[6][2])
    BY <1>8
  <2>2. /\ x[1] = "XferData" /\ x[2] = 209 /\ s[1] = "SendCommand" /\ s[2] = SW_ETAP
        /\ b[1] = "SendCommand" /\ b[2] = EJTAGBOOT
        /\ m[1] = "SendCommand" /\ m[2] = SW_MTAP
        /\ c[1] = "SendCommand" /\ c[2] = COMMAND /\ y[1] = "XferData" /\ y[2] = 208
    BY <1>1
  <2> QED
    BY <1>6, <1>8, <2>1, <2>2
<1>10. /\ Moves(d, f[1]) /\ f[1].timeout = d.timeout
       /\ ~ Reaches(d) => Works(d, f[1])
  <2>1. 209 \in Nat /\ Whole(d)
    BY <1>24
  <2> QED
    <3>1. LET g == Does(d, "XferData", 209)
          IN  Moves(d, g) /\ g.timeout = d.timeout /\ (~ Reaches(d) => Works(d, g))
      BY <2>1, CommandsWork, ZenonT(60)
    <3> QED
      BY <1>9, <3>1
<1>11. \A p \in Gentle : \A g : Whole(g) =>
          LET h == Does(g, p[1], p[2])
          IN  Works(g, h) /\ Whole(h) /\ h.timeout = g.timeout
  <2> SUFFICES ASSUME NEW p \in Gentle, NEW g, Whole(g), NEW h, h = Does(g, p[1], p[2])
               PROVE  Works(g, h) /\ Whole(h) /\ h.timeout = g.timeout
    OBVIOUS
  <2>1. p \in Pseudo /\ p # Asserts
    BY DEF Gentle
  <2> QED
    BY <2>1, DoesWorks DEF Works, Moves, Calms
<1>12. \A i \in 2 .. 6 : u[i] \in Gentle /\ f[i] = Does(f[i - 1], u[i][1], u[i][2])
  BY <1>2, <1>6, <1>8
<1>13. ASSUME NEW i \in 2 .. 6, Whole(f[i - 1])
       PROVE  Works(f[i - 1], f[i]) /\ Whole(f[i]) /\ f[i].timeout = f[i - 1].timeout
  <2>1. PICK p, g : p = u[i] /\ g = f[i - 1]
    OBVIOUS
  <2>2. p \in Gentle /\ f[i] = Does(g, p[1], p[2])
    BY <1>12, <2>1
  <2> QED
    BY <1>11, <1>13, <2>1, <2>2, Zenon
<1>14. Whole(f[1])
  BY <1>10 DEF Moves, Calms
<1>15. /\ Works(f[1], f[2]) /\ Works(f[2], f[3]) /\ Works(f[3], f[4])
       /\ Works(f[4], f[5]) /\ Works(f[5], f[6])
       /\ Whole(f[2]) /\ Whole(f[3]) /\ Whole(f[4]) /\ Whole(f[5]) /\ Whole(f[6])
       /\ f[6].timeout = d.timeout
  BY <1>10, <1>13, <1>14
<1>16. Works(f[1], f[3]) /\ Works(f[3], f[6])
  BY <1>15, WorksOn
<1>17. Moves(d, f[3]) /\ Moves(d, f[6]) /\ (~ Reaches(d) => Works(d, f[6]))
  BY <1>10, <1>16, MovesOn, WorksOn DEF Works
<1>18. ASSUME Reaches(d) PROVE ~ f[6].asserted
  <2>1. InStep(f[3]) /\ Reaches(f[3])
    BY <1>17, <1>18, <1>24, SameReaches DEF Moves, Calms
  <2> QED
    BY <1>9, <1>15, <2>1, Releases
<1>19. Works(d, k)
  BY <1>8, <1>17, <1>18 DEF Works
<1>20. Works(k, l) /\ Whole(l) /\ l.timeout = k.timeout
  BY <1>6, <1>7, <1>8, <1>15, StepsWork DEF Works, Moves, Calms
<1>21. Works(l, e) /\ e.timeout = l.timeout
  BY <1>6, <1>7, <1>20, StepsWork
<1> QED
  BY <1>8, <1>15, <1>19, <1>20, <1>21, WorksOn

\* Serial execution, once the adapter is in programming mode.
LEMMA SerialWorks ==
  \A d, mx : \A e \in SerialExecutionMode(d, mx) : Whole(d) /\ d.inPgmMode =>
      Works(d, e) /\ e.timeout = d.timeout
<1> SUFFICES ASSUME NEW d, NEW mx, NEW e \in SerialExecutionMode(d, mx), Whole(d),
                    d.inPgmMode
             PROVE  Works(d, e) /\ e.timeout = d.timeout
  OBVIOUS
<1>1. PICK jtag \in Seq(Gentle) :
          jtag = <<<<"SendCommand", SW_ETAP>>, <<"SetMode", 6>>,
                   <<"SendCommand", EJTAGBOOT>>>>
  BY Lists, Zenon
<1>2. PICK q, icsp :
          /\ q = IF mx THEN <<<<"XferData", 254>>>> ELSE <<>>
          /\ icsp = <<<<"XferData", 209>>, <<"SendCommand", SW_ETAP>>,
                      <<"SendCommand", EJTAGBOOT>>, <<"SendCommand", SW_MTAP>>,
                      <<"SendCommand", COMMAND>>, <<"XferData", 208>>>>
                        \o q \o <<<<"SendCommand", SW_ETAP>>>>
  OBVIOUS
<1>3. PICK list : list = IF d.wireMode = "JTAG" THEN jtag ELSE icsp
  OBVIOUS
<1>5. PICK s, t : s = GetMCHPStatus(d) /\ t = Steps(s, list)
  OBVIOUS
<1>6. PICK line, f : /\ line = IF d.wireMode = "JTAG" THEN 1 ELSE t.MCLR
                     /\ f = [t EXCEPT !.MCLR = line, !.reply = 128]
  OBVIOUS
<1>7. e = [s EXCEPT !.reply = 8] \/ e = Settled(f)
  <2>2. d.protected \/ ~ d.protected
    OBVIOUS
  <2>3. d.wireMode = "JTAG" \/ d.wireMode = "ICSP"
    BY DEF Whole
  <2>4. "JTAG" # "ICSP"
    OBVIOUS
  <2> DEFINE ss == GetMCHPStatus(IF d.inPgmMode THEN d ELSE EnterPgmMode(d))
             tt == Steps(ss, IF d.wireMode = "JTAG"
                     THEN <<<<"SendCommand", SW_ETAP>>, <<"SetMode", 6>>,
                            <<"SendCommand", EJTAGBOOT>>>>
                     ELSE <<<<"XferData", 209>>, <<"SendCommand", SW_ETAP>>,
                            <<"SendCommand", EJTAGBOOT>>, <<"SendCommand", SW_MTAP>>,
                            <<"SendCommand", COMMAND>>, <<"XferData", 208>>>>
                              \o (IF mx THEN <<<<"XferData", 254>>>> ELSE <<>>)
                              \o <<<<"SendCommand", SW_ETAP>>>>)
             done == Settled([tt EXCEPT
                        !.MCLR = IF d.wireMode = "JTAG" THEN 1 ELSE @, !.reply = 128])
             told == [ss EXCEPT !.reply = 8]
  <2>5. SerialExecutionMode(d, mx) =
          CASE ~ d.protected                      -> {done}
            [] d.protected /\ d.wireMode = "ICSP" -> {told}
            [] d.protected /\ d.wireMode = "JTAG" -> {told, done}
    BY DEF SerialExecutionMode
  <2>6. ss = s
    BY <1>5, Zenon
  <2>7. tt = t
    <3> HIDE DEF ss
    <3> QED
      BY <1>1, <1>2, <1>3, <1>5, <2>6, ZenonT(60)
  <2>8. told = [s EXCEPT !.reply = 8]
    BY <2>6
  <2>9. done = Settled(f)
    <3> HIDE DEF tt
    <3> QED
      BY <1>6, <2>7, Zenon
  <2> HIDE DEF done, told
  <2>10. \/ SerialExecutionMode(d, mx) = {done}
         \/ SerialExecutionMode(d, mx) = {told}
         \/ SerialExecutionMode(d, mx) = {told, done}
    BY <2>2, <2>3, <2>4, <2>5, Zenon
  <2>11. e = told \/ e = done
    BY <2>10
  <2> QED
    BY <2>8, <2>9, <2>11, Zenon
<1>8. Works(d, s) /\ s.timeout = d.timeout /\ Whole(s) /\ InStep(s)
  BY <1>5, StatusWorks DEF Works, Moves, Calms
<1>9. Works(s, t) /\ t.timeout = s.timeout /\ Whole(t)
  <2>1. CASE list = jtag
    BY <1>5, <1>8, <2>1, StepsWork DEF Works, Moves, Calms
  <2>2. CASE list = icsp
    <3>1. t = Steps(s, icsp)
      BY <1>5, <2>2
    <3>2. q \in {<<>>, <<<<"XferData", 254>>>>}
      BY <1>2
    <3>3. Works(s, t) /\ t.timeout = s.timeout
      <4>1. t = Steps(s, <<<<"XferData", 209>>, <<"SendCommand", SW_ETAP>>,
                      <<"SendCommand", EJTAGBOOT>>, <<"SendCommand", SW_MTAP>>,
                      <<"SendCommand", COMMAND>>, <<"XferData", 208>>>>
                        \o q \o <<<<"SendCommand", SW_ETAP>>>>)
        BY <1>2, <3>1
      <4> QED
        BY <1>8, <3>2, <4>1, IcspWorks, SMTT(40)
    <3> QED
      BY <3>3 DEF Works, Moves, Calms
  <2> QED
    BY <1>3, <2>1, <2>2
<1>10. Works(d, t) /\ t.timeout = d.timeout
  BY <1>8, <1>9, WorksOn
<1>11. Works(d, Settled(f)) /\ Settled(f).timeout = d.timeout
  <2>1. DOMAIN f = Parts /\ \A part \in Parts \ {"MCLR", "reply"} : f[part] = t[part]
    BY <1>6, <1>9 DEF Whole, Parts
  <2>2. f.cpu = t.cpu /\ f.protected = t.protected /\ f.expects = t.expects
    BY <2>1 DEF Parts
  <2>3. Works(t, f) /\ f.timeout = t.timeout
    BY <1>9, <2>1, <2>2, Within DEF Whole
  <2>4. Works(f, Settled(f)) /\ Settled(f).timeout = f.timeout
    BY <2>3, SettledWorks DEF Works, Moves, Calms
  <2> QED
    BY <1>10, <2>3, <2>4, WorksOn
<1>12. ASSUME e = [s EXCEPT !.reply = 8] PROVE Works(d, e) /\ e.timeout = d.timeout
  <2>1. Works(s, e) /\ e.timeout = s.timeout
    BY <1>8, <1>12, MarkWorks, Zenon
  <2> QED
    BY <1>8, <2>1, WorksOn
<1> QED
  BY <1>7, <1>11, <1>12, Zenon

-----------------------------------------------------------------------------
(* The buffers of the PICkit.                                              *)

\* As Works, but for the buffers.
Handles(d, e) == Calms(d, e) /\ (e.asserted => d.asserted)

\* One such command after another.
LEMMA HandlesOn ==
  ASSUME NEW a, NEW b, NEW c, Handles(a, b), Handles(b, c)
  PROVE  Handles(a, c)
BY CalmsOn DEF Handles

\* Those that leave the buffers alone are among them.
LEMMA WorksHandles ==
  ASSUME NEW d, NEW e, Works(d, e)
  PROVE  Handles(d, e) /\ Whole(e) /\ SameBuffers(d, e)
BY DEF Handles, Works, Moves, Calms

\* What is put into a buffer, or taken from it.
LEMMA BufferWorks ==
  ASSUME NEW d, Whole(d), NEW e, DOMAIN e = Parts,
         \A q \in Parts \ {"upload", "download", "dry"} : e[q] = d[q]
  PROVE  Handles(d, e) /\ Whole(e) /\ e.timeout = d.timeout
<1>1. /\ e.cpu = d.cpu /\ e.protected = d.protected /\ e.expects = d.expects
      /\ e.tap = d.tap /\ e.missed = d.missed
  BY DEF Parts
<1>2. SamePins(d, e) /\ e.asserted = d.asserted /\ e.timeout = d.timeout
  BY DEF Parts, SamePins
<1>3. /\ e.cpu \in Processor /\ e.protected \in BOOLEAN
      /\ e.expects \in {"address", "count", "words"}
  BY <1>1 DEF Whole
<1>4. Calms(d, e)
  BY <1>1, <1>2, <1>3, InsideCalms
<1> QED
  BY <1>2, <1>4 DEF Handles, Calms

\* The words a script finds too few of.
Dried(d, n) == d.dry \/ Len(d.download) < n

\* The operators on buffers.
LEMMA BuffersWork ==
  \A d, n : Whole(d) =>
      /\ LET e == Uses(d, n)
         IN  /\ Handles(d, e) /\ Whole(e) /\ e.timeout = d.timeout
             /\ e.download = SubSeq(d.download, n + 1, Len(d.download))
             /\ e.upload = d.upload /\ e.dry = Dried(d, n)
      /\ LET e == Uploads(d, n)
         IN  /\ Handles(d, e) /\ Whole(e) /\ e.timeout = d.timeout
             /\ e.download = d.download /\ e.upload = d.upload + n /\ e.dry = d.dry
      /\ LET e == Downloads(d, n)
         IN  /\ Handles(d, e) /\ Whole(e) /\ e.timeout = d.timeout
             /\ e.download = d.download \o n /\ e.upload = d.upload /\ e.dry = d.dry
<1> SUFFICES ASSUME NEW d, NEW n, Whole(d),
                    NEW e, e = Uses(d, n), NEW f, f = Uploads(d, n),
                    NEW g, g = Downloads(d, n)
             PROVE  /\ Handles(d, e) /\ Whole(e) /\ e.timeout = d.timeout
                    /\ e.download = SubSeq(d.download, n + 1, Len(d.download))
                    /\ e.upload = d.upload /\ e.dry = Dried(d, n)
                    /\ Handles(d, f) /\ Whole(f) /\ f.timeout = d.timeout
                    /\ f.download = d.download /\ f.upload = d.upload + n
                    /\ f.dry = d.dry
                    /\ Handles(d, g) /\ Whole(g) /\ g.timeout = d.timeout
                    /\ g.download = d.download \o n /\ g.upload = d.upload
                    /\ g.dry = d.dry
  OBVIOUS
<1>1. /\ DOMAIN e = Parts
      /\ \A q \in Parts \ {"upload", "download", "dry"} : e[q] = d[q]
      /\ e.download = SubSeq(d.download, n + 1, Len(d.download))
      /\ e.upload = d.upload /\ e.dry = Dried(d, n)
  BY DEF Whole, Parts, Uses, Dried
<1>2. /\ DOMAIN f = Parts
      /\ \A q \in Parts \ {"upload", "download", "dry"} : f[q] = d[q]
      /\ f.download = d.download /\ f.upload = d.upload + n
      /\ f.dry = d.dry
  BY DEF Whole, Parts, Uploads
<1>3. /\ DOMAIN g = Parts
      /\ \A q \in Parts \ {"upload", "download", "dry"} : g[q] = d[q]
      /\ g.download = d.download \o n /\ g.upload = d.upload
      /\ g.dry = d.dry
  BY DEF Whole, Parts, Downloads
<1>4. Handles(d, e) /\ Whole(e) /\ e.timeout = d.timeout
  BY <1>1, BufferWorks
<1>5. Handles(d, f) /\ Whole(f) /\ f.timeout = d.timeout
  BY <1>2, BufferWorks
<1>6. Handles(d, g) /\ Whole(g) /\ g.timeout = d.timeout
  BY <1>3, BufferWorks
<1> QED
  BY <1>1, <1>2, <1>3, <1>4, <1>5, <1>6

\* A script that times out.
LEMMA TimesOut ==
  \A d : Whole(d) => Works(d, [d EXCEPT !.timeout = TRUE]) /\ [d EXCEPT !.timeout = TRUE].timeout
<1> SUFFICES ASSUME NEW d, Whole(d), NEW e, e = [d EXCEPT !.timeout = TRUE]
             PROVE  Works(d, e) /\ e.timeout
  OBVIOUS
<1>1. Works(d, e)
  BY MarkWorks, Zenon
<1>2. e.timeout = TRUE
  BY DEF Whole, Parts
<1> QED
  BY <1>1, <1>2

\* Words of the buffer as instructions, whether the waits are answered or not.
LEMMA GiveBufferedWorks ==
  \A d : \A n \in Nat : \A e \in GiveBuffered(d, n) : Whole(d) =>
      Works(Uses(d, n), e) /\ Handles(d, e)
<1> SUFFICES ASSUME NEW d, NEW n \in Nat, NEW e \in GiveBuffered(d, n), Whole(d)
             PROVE  Works(Uses(d, n), e) /\ Handles(d, e)
  OBVIOUS
<1>1. PICK list : list = <<<<"SendCommand", DATA>>, <<"XferWord", 0>>>>
                  /\ list \in Seq(Gentle)
  BY Lists
<1>2. PICK words, u, w, s : /\ words = FirstWords(d, n) /\ u = Uses(d, n)
                            /\ w = WaitETAP_Ready(u) /\ s = Steps(w, list)
  OBVIOUS
<1>3. Handles(d, u) /\ Whole(u)
  BY <1>2, BuffersWork, Zenon
<1>4. Works(u, w) /\ Whole(w)
  BY <1>2, <1>3, WaitWorks DEF Works, Moves, Calms
<1>5. Works(w, s) /\ Whole(s)
  <2>1. list \in Seq(Gentle) /\ s = Steps(w, list)
    BY <1>1, <1>2, Zenon
  <2> QED
    BY <1>4, <2>1, StepsWork DEF Works, Moves, Calms
<1> DEFINE f == CHOOSE g : GivenRun(s, words, n, g)
<1>6. GivenRun(s, words, n, f)
  BY GivenRunExists
<1>7. e \in {WaitETAP_Ready(f[n]), [w EXCEPT !.timeout = TRUE]}
  BY <1>1, <1>2 DEF GiveBuffered, GivenRun
<1> HIDE DEF f
<1>8. Works(s, f[n]) /\ Whole(f[n])
  BY <1>5, <1>6, GivenRunWorks DEF Works, Moves, Calms
<1>9. Works(f[n], WaitETAP_Ready(f[n]))
  BY <1>8, WaitWorks
<1>11. Works(u, WaitETAP_Ready(f[n]))
  <2>1. Works(u, s)
    BY <1>4, <1>5, WorksOn
  <2>2. Works(u, f[n])
    BY <1>8, <2>1, WorksOn
  <2> QED
    BY <1>9, <2>2, WorksOn
<1>12. Works(w, [w EXCEPT !.timeout = TRUE])
  BY <1>4, TimesOut, Zenon
<1>13. Works(u, [w EXCEPT !.timeout = TRUE])
  BY <1>4, <1>12, WorksOn, Zenon
<1>14. Works(u, e)
  BY <1>7, <1>11, <1>13, Zenon
<1>15. Handles(d, e)
  BY <1>3, <1>14, WorksHandles, HandlesOn
<1> QED
  BY <1>2, <1>14, <1>15

\* Words of the buffer as fast data.
LEMMA FastBufferedWorks ==
  \A d : \A n \in Nat : Whole(d) =>
      /\ Works(Uses(d, n), FastBuffered(d, n)) /\ Handles(d, FastBuffered(d, n))
      /\ FastBuffered(d, n).timeout = d.timeout
<1> SUFFICES ASSUME NEW d, NEW n \in Nat, Whole(d)
             PROVE  /\ Works(Uses(d, n), FastBuffered(d, n))
                    /\ Handles(d, FastBuffered(d, n))
                    /\ FastBuffered(d, n).timeout = d.timeout
  OBVIOUS
<1>1. PICK u, words : u = Uses(d, n) /\ words = FirstWords(d, n)
  OBVIOUS
<1>2. Handles(d, u) /\ u.timeout = d.timeout /\ Whole(u)
  BY <1>1, BuffersWork, Zenon
<1>3. Len(words) = n
  BY <1>1 DEF FirstWords
<1>4. Works(u, TransferFast(u, words)) /\ TransferFast(u, words).timeout = u.timeout
  BY <1>2, <1>3, TransferFastWorks
<1>5. FastBuffered(d, n) = TransferFast(u, words)
  BY <1>1, Zenon DEF FastBuffered
<1>6. Handles(u, TransferFast(u, words))
  BY <1>4, WorksHandles
<1> QED
  BY <1>1, <1>2, <1>4, <1>5, <1>6, HandlesOn

\* Responses into the buffer, or a wait that times out.
LEMMA PeResponsesWork ==
  \A d, n : \A e \in PeResponses(d, n) : Whole(d) =>
      /\ Handles(d, e) /\ Whole(e) /\ e.download = d.download /\ e.dry = d.dry
      /\ \/ e.upload = d.upload + 4 * n /\ e.timeout = d.timeout
         \/ e.upload = d.upload /\ e.timeout
<1> SUFFICES ASSUME NEW d, NEW n, NEW e \in PeResponses(d, n), Whole(d)
             PROVE  /\ Handles(d, e) /\ Whole(e) /\ e.download = d.download
                    /\ e.dry = d.dry
                    /\ \/ e.upload = d.upload + 4 * n /\ e.timeout = d.timeout
                       \/ e.upload = d.upload /\ e.timeout
  OBVIOUS
<1>1. PICK g, w, m : g = GetPEResponse(d) /\ w = WaitETAP_Ready(d) /\ m = 4 * n
  OBVIOUS
<1>2. e = Uploads(g, m) \/ e = [w EXCEPT !.timeout = TRUE]
  BY <1>1, Zenon DEF PeResponses
<1>3. /\ Works(d, g) /\ Works(d, w) /\ g.timeout = d.timeout
      /\ Whole(g) /\ Whole(w) /\ Handles(d, g) /\ Handles(d, w)
      /\ SameBuffers(d, g) /\ SameBuffers(d, w)
  BY <1>1, ResponseWorks, WaitWorks, WorksHandles
<1>4. CASE e = Uploads(g, m)
  <2>3. LET h == Uploads(g, m)
        IN  /\ Handles(g, h) /\ Whole(h) /\ h.timeout = g.timeout
            /\ h.download = g.download /\ h.upload = g.upload + m /\ h.dry = g.dry
    BY <1>3, BuffersWork
  <2>1. /\ Handles(g, e) /\ Whole(e) /\ e.timeout = g.timeout
        /\ e.download = g.download /\ e.upload = g.upload + m /\ e.dry = g.dry
    BY <1>4, <2>3
  <2>2. Handles(d, e)
    BY <1>3, <2>1, HandlesOn
  <2> QED
    BY <1>1, <1>3, <2>1, <2>2 DEF SameBuffers
<1>5. CASE e = [w EXCEPT !.timeout = TRUE]
  <2>1. Works(w, e) /\ e.timeout
    BY <1>3, <1>5, TimesOut, Zenon
  <2>2. Handles(w, e) /\ Whole(e) /\ SameBuffers(w, e)
    BY <2>1, WorksHandles
  <2>3. Handles(d, e)
    BY <1>3, <2>2, HandlesOn
  <2> QED
    BY <1>3, <2>1, <2>2, <2>3 DEF SameBuffers
<1> QED
  BY <1>2, <1>4, <1>5

-----------------------------------------------------------------------------
(* The serial adapter.                                                     *)

\* Its operation, by the number of bits it is given; e is the device after the
\* clocks.
BySize(d, send, n, e, f) ==
    /\ n = 5 => f = Marked(d, e)
    /\ n = 8 => f = Commanded(d, e, ValueOf(send.data))
    /\ n = 32 => f \in {e, Given(e, send.word)}
    /\ n = 33 => f \in {e, Fasted(e, <<send.word>>)}
    /\ n = 0 => f = e

\* Bitbanged is such an operation.
LEMMA BitbangedIs ==
  ASSUME NEW d, NEW send, NEW n, n = Len(send.data),
         NEW e, e = Clocks(d, bitbang_send(send.nTms, send.tms, send.data))
  PROVE  BySize(d, send, n, e, Bitbanged(d, send))
<1>1. CASE n = 5
  <2>1. Bitbanged(d, send) = Marked(d, e)
    <3>1. /\ Len(send.data) = 5 /\ Len(send.data) # 8 /\ Len(send.data) # 32
          /\ Len(send.data) # 33
      BY <1>1
    <3>2. Bitbanged(d, send) =
            [e EXCEPT !.missed = @ \/ (Reaches(d) /\ d.tap.state # "Idle")]
      BY <3>1, Zenon DEF Bitbanged
    <3> QED
      BY <3>2, Zenon DEF Marked
  <2>2. n # 8 /\ n # 32 /\ n # 33 /\ n # 0
    BY <1>1
  <2> QED
    BY <2>1, <2>2 DEF BySize
<1>2. CASE n = 8
  <2>2. n # 5 /\ n # 32 /\ n # 33 /\ n # 0
    BY <1>2
  <2>1. Bitbanged(d, send) = Commanded(d, e, ValueOf(send.data))
    BY <1>2, <2>2, Zenon DEF Bitbanged
  <2> QED
    BY <2>1, <2>2 DEF BySize
<1>3. CASE n = 32
  <2>2. n # 5 /\ n # 8 /\ n # 33 /\ n # 0
    BY <1>3
  <2>1. Bitbanged(d, send) = e \/ Bitbanged(d, send) = Given(e, send.word)
    BY <1>3, <2>2, Zenon DEF Bitbanged
  <2> QED
    BY <2>1, <2>2 DEF BySize
<1>4. CASE n = 33
  <2>2. n # 5 /\ n # 8 /\ n # 32 /\ n # 0
    BY <1>4
  <2>1. Bitbanged(d, send) = e \/ Bitbanged(d, send) = Fasted(e, <<send.word>>)
    BY <1>4, <2>2, Zenon DEF Bitbanged
  <2> QED
    BY <2>1, <2>2 DEF BySize
<1>5. CASE n = 0
  <2>2. n # 5 /\ n # 8 /\ n # 32 /\ n # 33
    BY <1>5
  <2>1. Bitbanged(d, send) = e
    BY <1>5, <2>2, Zenon DEF Bitbanged
  <2> QED
    BY <2>1, <2>2 DEF BySize
<1>6. n \notin {0, 5, 8, 32, 33} => BySize(d, send, n, e, Bitbanged(d, send))
  BY DEF BySize
<1> QED
  BY <1>1, <1>2, <1>3, <1>4, <1>5, <1>6

\* What the driver sends: instructions, bytes, words of 32 and of 33 bits, the
\* reset alone and before a word.
Sending == [nTms : {0, 1, 6}, tms : {0, 1, 31}, data : Seq(Nat), read : BOOLEAN,
            word : Nat]
CalmSends ==
    {s \in Sending :
        \/ /\ s.nTms = 1 /\ s.tms = 1
           /\ \E cmd \in 0 .. 31 : s.data = Five(cmd)
        \/ /\ s.nTms = 0 /\ s.tms = 0
           /\ \/ \E v \in 0 .. 255 : s.data = Byte(v)
              \/ s.data \in {Word, LongWord}
        \/ s.nTms = 6 /\ s.tms = 31 /\ s.data \in {Word, <<>>}}

\* Clocks in two parts.
LEMMA ClocksCat ==
  ASSUME NEW d, Whole(d), NEW a \in Seq(Clocking), NEW b \in Seq(Clocking),
         NEW x, x = Clocks(d, a)
  PROVE  Clocks(d, a \o b) = Clocks(x, b)
<1>1. SamePins(d, x)
  BY ClocksKeep
<1>2. Reaches(x) = Reaches(d)
  BY <1>1, SameReaches
<1>3. CASE ~ Reaches(d)
  BY <1>2, <1>3, Zenon DEF Clocks
<1>4. CASE Reaches(d)
  <2>1. PICK t, u : t = Clocked(d.tap, a) /\ u = Clocked(t, b)
    OBVIOUS
  <2>2. Clocked(d.tap, a \o b) = u
    <3>1. Clocked(d.tap, a \o b) = Clocked(Clocked(d.tap, a), b)
      BY ClockedCat
    <3> QED
      BY <2>1, <3>1, Zenon
  <2>3. x = [d EXCEPT !.tap = t]
    BY <1>4, <2>1, Zenon DEF Clocks
  <2>4. x.tap = t /\ [x EXCEPT !.tap = u] = [d EXCEPT !.tap = u]
    BY <2>3 DEF Whole, Parts
  <2>5. Clocks(x, b) = [x EXCEPT !.tap = u]
    BY <1>2, <1>4, <2>1, <2>4, Zenon DEF Clocks
  <2>6. Clocks(d, a \o b) = [d EXCEPT !.tap = u]
    BY <1>4, <2>2, Zenon DEF Clocks
  <2> QED
    BY <2>4, <2>5, <2>6
<1> QED
  BY <1>3, <1>4

\* The reset and a word in one.
LEMMA ResetWordWorks ==
  \A d : Whole(d) =>
      LET e == Clocks(d, bitbang_send(6, 31, Word))
      IN  Works(d, e) /\ InStep(e) /\ e.timeout = d.timeout /\ e.missed = d.missed
<1> SUFFICES ASSUME NEW d, Whole(d), NEW e, e = Clocks(d, bitbang_send(6, 31, Word))
             PROVE  /\ Works(d, e) /\ InStep(e) /\ e.timeout = d.timeout
                    /\ e.missed = d.missed
  OBVIOUS
<1>1. PICK a \in Seq(Clocking) : a = ETAP_RESET
  BY ClockingOf
<1>2. PICK b \in Seq(Clocking) : b = XferData(Word)
  BY ClockingOf, WordIs
<1>3. bitbang_send(6, 31, Word) = a \o b
  <2>1. PICK p, q, r, z : /\ p = <<Bit(1, 0), Bit(0, 0), Bit(0, 0)>> /\ q = Shifted(Word)
                          /\ r = <<Bit(1, 0), Bit(0, 0)>> /\ z = SetMode(31, 6)
    OBVIOUS
  <2>2. Word # <<>>
    BY WordIs
  <2>3. bitbang_send(6, 31, Word) = z \o (p \o q \o r)
    BY <2>1, <2>2, Zenon DEF bitbang_send
  <2>4. b = p \o q \o r /\ a = z
    BY <1>1, <1>2, <2>1, Zenon DEF XferData, ETAP_RESET
  <2> QED
    BY <2>3, <2>4, Zenon
<1>4. PICK x : x = Clocks(d, a)
  OBVIOUS
<1>5. Whole(x) /\ SameRest(d, x) /\ InStep(x) /\ Works(d, x)
  BY <1>1, <1>4, Synchronises
<1>6. e = Clocks(x, b)
  <2>1. Clocks(d, a \o b) = Clocks(x, b)
    BY <1>4, ClocksCat
  <2> QED
    BY <1>3, <2>1, Zenon
<1>7. Works(x, e) /\ SameRest(x, e)
  BY <1>2, <1>5, <1>6, WordIs, TransferWorks
<1>8. Works(d, e) /\ InStep(e)
  BY <1>5, <1>7, WorksOn DEF Works, Moves, Calms
<1> QED
  BY <1>5, <1>7, <1>8 DEF SameRest

\* A word that goes to the processor when it is an instruction for it.
LEMMA WordGiven ==
  ASSUME NEW d, NEW e, Works(d, e), e.timeout = d.timeout, NEW w,
         NEW f \in {e, Given(e, w)}
  PROVE  Works(d, f) /\ f.timeout = d.timeout /\ Works(e, f)
<1>1. Whole(e)
  BY DEF Works, Moves, Calms
<1>2. Works(e, Given(e, w)) /\ Given(e, w).timeout = e.timeout
  BY <1>1, GivenWorks
<1>3. f = e \/ f = Given(e, w)
  OBVIOUS
<1>4. Works(e, e)
  BY <1>1, WorksNot
<1>5. Works(e, f) /\ f.timeout = e.timeout
  BY <1>2, <1>3, <1>4, Zenon
<1>6. Works(d, f)
  BY <1>5, WorksOn
<1> QED
  BY <1>5, <1>6

\* Whatever the driver sends keeps a port in step.
LEMMA BitbangedWorks ==
  \A d : \A send \in CalmSends : Whole(d) =>
      Moves(d, Bitbanged(d, send)) /\ Bitbanged(d, send).timeout = d.timeout
<1> SUFFICES ASSUME NEW d, NEW send \in CalmSends, Whole(d),
                    NEW f, f = Bitbanged(d, send)
             PROVE  Moves(d, f) /\ f.timeout = d.timeout
  OBVIOUS
<1>1. PICK a, b, s : a = send.nTms /\ b = send.tms /\ s = send.data
  OBVIOUS
<1>2. PICK e : e = Clocks(d, bitbang_send(a, b, s))
  OBVIOUS
<1>3. e = Clocks(d, bitbang_send(send.nTms, send.tms, send.data))
  BY <1>1, <1>2, Zenon
<1>4. /\ Len(s) = 5 => f = Marked(d, e)
      /\ Len(s) = 8 => f = Commanded(d, e, ValueOf(s))
      /\ Len(s) = 32 => f \in {e, Given(e, send.word)}
      /\ Len(s) = 33 => f \in {e, Fasted(e, <<send.word>>)}
      /\ Len(s) = 0 => f = e
  <2>1. PICK n : n = Len(send.data)
    OBVIOUS
  <2>2. BySize(d, send, n, e, f)
    BY <1>3, <2>1, BitbangedIs
  <2>3. /\ n = 5 => f = Marked(d, e)
        /\ n = 8 => f = Commanded(d, e, ValueOf(send.data))
        /\ n = 32 => f \in {e, Given(e, send.word)}
        /\ n = 33 => f \in {e, Fasted(e, <<send.word>>)}
        /\ n = 0 => f = e
    BY <2>2 DEF BySize
  <2> QED
    BY <1>1, <2>1, <2>3, Zenon
<1>5. \/ /\ a = 1 /\ b = 1
         /\ \E cmd \in 0 .. 31 : s = Five(cmd)
      \/ /\ a = 0 /\ b = 0
         /\ \/ \E v \in 0 .. 255 : s = Byte(v)
            \/ s \in {Word, LongWord}
      \/ a = 6 /\ b = 31 /\ s \in {Word, <<>>}
  <2>1. PICK x : x = send /\ x \in CalmSends
    OBVIOUS
  <2>2. \/ /\ x.nTms = 1 /\ x.tms = 1
           /\ \E cmd \in 0 .. 31 : x.data = Five(cmd)
        \/ /\ x.nTms = 0 /\ x.tms = 0
           /\ \/ \E v \in 0 .. 255 : x.data = Byte(v)
              \/ x.data \in {Word, LongWord}
        \/ x.nTms = 6 /\ x.tms = 31 /\ x.data \in {Word, <<>>}
    BY <2>1, Zenon DEF CalmSends
  <2>3. a = x.nTms /\ b = x.tms /\ s = x.data
    BY <1>1, <2>1
  <2> QED
    BY <2>2, <2>3, Zenon
<1>6. ASSUME NEW cmd \in 0 .. 31, a = 1, b = 1, s = Five(cmd)
      PROVE  Works(d, f) /\ f.timeout = d.timeout
  <2>1. bitbang_send(1, 1, Five(cmd)) = SendCommand(cmd)
    BY BitbangInstructs
  <2>2. e = Clocks(d, SendCommand(cmd))
    BY <1>2, <1>6, <2>1, Zenon
  <2>3. Len(s) = 5
    BY <1>6 DEF Five
  <2> QED
    BY <1>4, <2>2, <2>3, InstructionWorks
<1>7. ASSUME a = 0, b = 0, s \in Seq(Nat), s # <<>>
      PROVE  Works(d, e) /\ e.timeout = d.timeout
  <2>1. bitbang_send(0, 0, s) = XferData(s)
    BY <1>7, BitbangTransfers
  <2>2. e = Clocks(d, XferData(s))
    BY <1>2, <1>7, <2>1, Zenon
  <2> QED
    BY <1>7, <2>2, TransferWorks DEF SameRest
<1>8. ASSUME NEW v \in 0 .. 255, a = 0, b = 0, s = Byte(v)
      PROVE  Moves(d, f) /\ f.timeout = d.timeout
  <2>3. v \in Nat
    OBVIOUS
  <2>1. s \in Seq(Nat) /\ s # <<>> /\ Len(s) = 8
    BY <1>8, <2>3, BitsOf
  <2>2. Works(d, e) /\ e.timeout = d.timeout
    BY <1>7, <1>8, <2>1
  <2> QED
    BY <1>4, <2>1, <2>2, CommandedWorks
<1>9. ASSUME a = 0, b = 0, s = Word
      PROVE  Works(d, f) /\ f.timeout = d.timeout
  <2>1. s \in Seq(Nat) /\ s # <<>> /\ Len(s) = 32
    BY <1>9, WordIs
  <2>2. Works(d, e) /\ e.timeout = d.timeout
    BY <1>7, <1>9, <2>1
  <2> QED
    BY <1>4, <2>1, <2>2, WordGiven
<1>10. ASSUME a = 0, b = 0, s = LongWord
       PROVE  Works(d, f) /\ f.timeout = d.timeout
  <2>1. s \in Seq(Nat) /\ s # <<>> /\ Len(s) = 33
    BY <1>10, LongWordIs
  <2>2. Works(d, e) /\ e.timeout = d.timeout /\ Whole(e)
    BY <1>7, <1>10, <2>1 DEF Works, Moves, Calms
  <2>3. PICK words : words = <<send.word>>
    OBVIOUS
  <2>4. Len(words) \in Nat
    BY <2>3
  <2>5. Works(e, Fasted(e, words)) /\ Fasted(e, words).timeout = e.timeout
    BY <2>2, <2>4, FastedWorks
  <2>6. Works(d, Fasted(e, words)) /\ Fasted(e, words).timeout = d.timeout
    BY <2>2, <2>5, WorksOn
  <2>7. f = e \/ f = Fasted(e, words)
    BY <1>4, <2>1, <2>3
  <2> QED
    BY <2>2, <2>6, <2>7, Zenon
<1>11. ASSUME a = 6, b = 31, s = Word
       PROVE  Works(d, f) /\ f.timeout = d.timeout
  <2>1. e = Clocks(d, bitbang_send(6, 31, Word))
    BY <1>2, <1>11, Zenon
  <2>2. Works(d, e) /\ e.timeout = d.timeout
    BY <2>1, ResetWordWorks
  <2>3. Len(s) = 32
    BY <1>11, WordIs
  <2> QED
    BY <1>4, <2>2, <2>3, WordGiven
<1>12. ASSUME a = 6, b = 31, s = <<>>
       PROVE  Works(d, f) /\ f.timeout = d.timeout
  <2>1. e = Clocks(d, ETAP_RESET)
    BY <1>2, <1>12, BitbangResets, Zenon
  <2>2. Works(d, e) /\ e.timeout = d.timeout
    BY <2>1, Synchronises DEF SameRest
  <2>3. Len(s) = 0
    BY <1>12
  <2> QED
    BY <1>4, <2>2, <2>3
<1> QED
  BY <1>5, <1>6, <1>8, <1>9, <1>10, <1>11, <1>12 DEF Works

\* The reset with a word behind it brings the port in step.
LEMMA BitbangedSynchronises ==
  \A d : \A send \in CalmSends :
      Whole(d) /\ send.nTms = 6 /\ send.tms = 31 /\ send.data = Word =>
          InStep(Bitbanged(d, send)) /\ Bitbanged(d, send).missed = d.missed
<1> SUFFICES ASSUME NEW d, NEW send \in CalmSends, Whole(d), send.nTms = 6,
                    send.tms = 31, send.data = Word, NEW f, f = Bitbanged(d, send)
             PROVE  InStep(f) /\ f.missed = d.missed
  OBVIOUS
<1>1. PICK e : e = Clocks(d, bitbang_send(6, 31, Word))
  OBVIOUS
<1>2. e = Clocks(d, bitbang_send(send.nTms, send.tms, send.data))
  BY <1>1, Zenon
<1>3. Len(send.data) = 32
  BY WordIs
<1>4. PICK n : n = Len(send.data)
  OBVIOUS
<1>5. f \in {e, Given(e, send.word)}
  BY <1>2, <1>3, <1>4, BitbangedIs DEF BySize
<1>6. Works(d, e) /\ InStep(e) /\ e.timeout = d.timeout /\ e.missed = d.missed
  BY <1>1, ResetWordWorks
<1>7. Works(e, f)
  BY <1>5, <1>6, WordGiven
<1> QED
  BY <1>6, <1>7 DEF Works, Moves, Calms

-----------------------------------------------------------------------------
(* The pins.                                                               *)

\* The target and its wiring.
SameTarget(d, e) ==
    e.wired = d.wired /\ e.family = d.family /\ e.supply = d.supply

\* A device after commands that miss no instruction, wherever they leave the
\* port, that no timeout ends and that do not have the MTAP hold the processor in
\* reset; after those that also leave the buffers alone.
Leaves(d, e) ==
    /\ Whole(e) /\ e.missed = d.missed /\ e.timeout = d.timeout
    /\ SameTarget(d, e) /\ (e.asserted => d.asserted)
Spares(d, e) == Leaves(d, e) /\ SameBuffers(d, e)

\* The wires in use and the programming mode.
SameMode(d, e) == e.wireMode = d.wireMode /\ e.inPgmMode = d.inPgmMode

\* One such command after another.
LEMMA SparesOn ==
  ASSUME NEW a, NEW b, NEW c, Spares(a, b), Spares(b, c)
  PROVE  Spares(a, c)
BY DEF Spares, Leaves, SameTarget, SameBuffers

\* A device with other pins.
LEMMA Pinned ==
  ASSUME NEW d, Whole(d), NEW e, DOMAIN e = Parts,
         \A q \in Parts \ {"driven", "MCLR", "PMCLR", "icsp", "vdd"} :
             e[q] = d[q],
         e.driven \subseteq {"JTAG", "ICSP"}
  PROVE  Spares(d, e) /\ e.wireMode = d.wireMode /\ e.inPgmMode = d.inPgmMode
BY DEF Whole, Parts, Spares, Leaves, SameTarget, SameBuffers

\* What follows the pins spares a device too.
LEMMA SettledSpares ==
  ASSUME NEW d, NEW e, Spares(d, e)
  PROVE  /\ Spares(d, Settled(e)) /\ Settled(e).wireMode = e.wireMode
         /\ Settled(e).inPgmMode = e.inPgmMode
BY SettledWorks DEF Spares, Leaves, SameTarget, Works, Moves, Calms, SamePins, SameBuffers

\* MCLR low, high and let go of, and the signature.
LEMMA LinesSpare ==
  \A d : Whole(d) =>
      /\ Spares(d, Ground(d)) /\ Spares(d, Raise(d)) /\ Spares(d, Release(d))
      /\ Spares(d, Signature(d))
      /\ SameMode(d, Ground(d)) /\ SameMode(d, Raise(d)) /\ SameMode(d, Release(d))
      /\ SameMode(d, Signature(d))
<1> SUFFICES ASSUME NEW d, Whole(d)
             PROVE  /\ Spares(d, Ground(d)) /\ Spares(d, Raise(d))
                    /\ Spares(d, Release(d)) /\ Spares(d, Signature(d))
                    /\ SameMode(d, Ground(d)) /\ SameMode(d, Raise(d))
                    /\ SameMode(d, Release(d)) /\ SameMode(d, Signature(d))
  OBVIOUS
<1>1. Spares(d, Ground(d)) /\ SameMode(d, Ground(d))
  <2>1. PICK e : e = [d EXCEPT !.driven = @ \cup {"ICSP"}, !.PMCLR = 0, !.icsp = FALSE]
    OBVIOUS
  <2>2. DOMAIN d = Parts /\ d.driven \subseteq {"JTAG", "ICSP"}
    BY DEF Whole
  <2>3. DOMAIN e = Parts /\ e.driven = d.driven \cup {"ICSP"}
    BY <2>1, <2>2 DEF Parts
  <2>4. \A q \in Parts \ {"driven", "PMCLR", "icsp"} : e[q] = d[q]
    BY <2>1, <2>2 DEF Parts
  <2>5. Spares(d, e) /\ SameMode(d, e)
    BY <2>2, <2>3, <2>4, Pinned DEF SameMode
  <2>6. Ground(d) = Settled(e)
    BY <2>1, Zenon DEF Ground
  <2> QED
    BY <2>5, <2>6, SettledSpares DEF SameMode
<1>2. Spares(d, Raise(d)) /\ SameMode(d, Raise(d))
  <2>1. PICK e : e = [d EXCEPT !.driven = @ \cup {"ICSP"}, !.PMCLR = 1]
    OBVIOUS
  <2>2. DOMAIN d = Parts /\ d.driven \subseteq {"JTAG", "ICSP"}
    BY DEF Whole
  <2>3. DOMAIN e = Parts /\ e.driven = d.driven \cup {"ICSP"}
    BY <2>1, <2>2 DEF Parts
  <2>4. \A q \in Parts \ {"driven", "PMCLR"} : e[q] = d[q]
    BY <2>1, <2>2 DEF Parts
  <2>5. Spares(d, e) /\ SameMode(d, e)
    BY <2>2, <2>3, <2>4, Pinned DEF SameMode
  <2>6. Raise(d) = Settled(e)
    BY <2>1, Zenon DEF Raise
  <2> QED
    BY <2>5, <2>6, SettledSpares DEF SameMode
<1>3. Spares(d, Release(d)) /\ SameMode(d, Release(d))
  <2>1. PICK e : e = [d EXCEPT !.driven = @ \ {"ICSP"}]
    OBVIOUS
  <2>2. DOMAIN d = Parts /\ d.driven \subseteq {"JTAG", "ICSP"}
    BY DEF Whole
  <2>3. DOMAIN e = Parts /\ e.driven = d.driven \ {"ICSP"}
    BY <2>1, <2>2 DEF Parts
  <2>4. \A q \in Parts \ {"driven"} : e[q] = d[q]
    BY <2>1, <2>2 DEF Parts
  <2>5. Spares(d, e) /\ SameMode(d, e)
    BY <2>2, <2>3, <2>4, Pinned DEF SameMode
  <2>6. Release(d) = Settled(e)
    BY <2>1, Zenon DEF Release
  <2> QED
    BY <2>5, <2>6, SettledSpares DEF SameMode
<1>4. Spares(d, Signature(d)) /\ SameMode(d, Signature(d))
  <2>1. PICK e, b : b = (d.PMCLR = 0) /\ e = [d EXCEPT !.icsp = b]
    OBVIOUS
  <2>2. DOMAIN d = Parts /\ d.driven \subseteq {"JTAG", "ICSP"}
    BY DEF Whole
  <2>3. DOMAIN e = Parts /\ e.driven = d.driven
    BY <2>1, <2>2 DEF Parts
  <2>4. \A q \in Parts \ {"icsp"} : e[q] = d[q]
    BY <2>1, <2>2 DEF Parts
  <2>5. Spares(d, e) /\ SameMode(d, e)
    BY <2>2, <2>3, <2>4, Pinned DEF SameMode
  <2>6. Signature(d) = e
    BY <2>1, Zenon DEF Signature
  <2> QED
    BY <2>5, <2>6, Zenon
<1> QED
  BY <1>1, <1>2, <1>3, <1>4

\* The port of a target that has lost its power.
LEMMA TapSound ==
  Sound(Tap("Reset", IDCODE, "MTAP"))
<1>1. PICK t : t = Tap("Reset", IDCODE, "MTAP")
  OBVIOUS
<1>2. DOMAIN t = Fields
  BY <1>1, Zenon DEF Tap, Fields
<1>3. t.state = "Reset" /\ t.boot = FALSE /\ t.sel = "MTAP"
  BY <1>1, Zenon DEF Tap
<1>4. "Reset" \in TapState
  BY DEF TapState, Follows
<1>5. Sound(t)
  BY <1>2, <1>3, <1>4 DEF Sound
<1> QED
  BY <1>1, <1>5, Zenon

\* The supply of the target, which taken away leaves no port to be out of step.
LEMMA SupplySpares ==
  \A d, on : Whole(d) /\ on \in BOOLEAN =>
      LET e == Supplied(d, on)
      IN  /\ Spares(d, e) /\ e.wireMode = d.wireMode /\ e.inPgmMode = d.inPgmMode
          /\ ~ on /\ InStep(d) => InStep(e)
<1> SUFFICES ASSUME NEW d, NEW on \in BOOLEAN, Whole(d), NEW e, e = Supplied(d, on)
             PROVE  /\ Spares(d, e) /\ e.wireMode = d.wireMode
                    /\ e.inPgmMode = d.inPgmMode
                    /\ ~ on /\ InStep(d) => InStep(e)
  OBVIOUS
<1>1. PICK f : f = [d EXCEPT !.vdd = on]
  OBVIOUS
<1>2. DOMAIN d = Parts /\ d.driven \subseteq {"JTAG", "ICSP"}
  BY DEF Whole
<1>3. /\ DOMAIN f = Parts /\ \A q \in Parts \ {"vdd"} : f[q] = d[q]
      /\ f.driven = d.driven /\ f.vdd = on
  BY <1>1, <1>2 DEF Parts
<1>4. Spares(d, f) /\ f.wireMode = d.wireMode /\ f.inPgmMode = d.inPgmMode
  BY <1>2, <1>3, Pinned
<1>5. CASE Powered(f)
  <2>1. e = Settled(f)
    BY <1>1, <1>5, Zenon DEF Supplied
  <2>2. /\ Spares(d, e) /\ e.wireMode = f.wireMode /\ e.inPgmMode = f.inPgmMode
    BY <1>4, <2>1, SettledSpares
  <2>3. ASSUME ~ on, InStep(d) PROVE InStep(e)
    <3>1. f.supply = d.supply /\ f.tap = d.tap /\ f.icsp = d.icsp /\ f.wired = d.wired
      BY <1>3 DEF Parts
    <3>2. Powered(d)
      BY <1>3, <1>5, <2>3, <3>1 DEF Powered
    <3>3. Reaches(f) = Reaches(d)
      BY <1>3, <1>4, <1>5, <3>1, <3>2 DEF Reaches
    <3>4. InStep(f)
      BY <2>3, <3>1, <3>3 DEF InStep
    <3>5. Works(f, Settled(f))
      BY <1>4, SettledWorks DEF Spares, Leaves
    <3> QED
      BY <2>1, <3>4, <3>5 DEF Works, Moves, Calms
  <2> QED
    BY <1>4, <2>2, <2>3
<1>6. CASE ~ Powered(f)
  <2>1. PICK t : t = Tap("Reset", IDCODE, "MTAP")
    OBVIOUS
  <2>2. PICK g : g = [f EXCEPT !.tap = t, !.asserted = FALSE, !.icsp = FALSE]
    OBVIOUS
  <2>3. e = Settled(g)
    BY <1>1, <1>6, <2>1, <2>2, Zenon DEF Supplied
  <2>4. Sound(t)
    BY <2>1, TapSound
  <2>5. /\ DOMAIN g = Parts /\ g.tap = t
        /\ \A q \in Parts \ {"tap", "asserted", "icsp"} : g[q] = f[q]
    BY <1>3, <2>2 DEF Parts
  <2>6. Spares(d, g) /\ g.wireMode = d.wireMode /\ g.inPgmMode = d.inPgmMode
    <3>1. Whole(f) /\ Leaves(d, f) /\ SameBuffers(d, f)
      BY <1>4 DEF Spares, Leaves
    <3>2. /\ g.wireMode = f.wireMode /\ g.driven = f.driven /\ g.inPgmMode = f.inPgmMode
          /\ g.missed = f.missed /\ g.cpu = f.cpu /\ g.protected = f.protected
          /\ g.expects = f.expects /\ g.timeout = f.timeout /\ g.wired = f.wired
          /\ g.family = f.family /\ g.supply = f.supply /\ g.download = f.download
          /\ g.upload = f.upload /\ g.dry = f.dry
      BY <2>5 DEF Parts
    <3>3. g.asserted = FALSE
      BY <1>3, <2>2 DEF Parts
    <3>4. Whole(g)
      BY <2>4, <2>5, <3>1, <3>2 DEF Whole
    <3>5. Leaves(d, g) /\ SameBuffers(d, g)
      BY <3>1, <3>2, <3>3, <3>4 DEF Leaves, SameTarget, SameBuffers
    <3> QED
      BY <1>4, <3>2, <3>5 DEF Spares
  <2>7. /\ Spares(d, e) /\ e.wireMode = g.wireMode /\ e.inPgmMode = g.inPgmMode
    BY <2>3, <2>6, SettledSpares
  <2>8. ~ Reaches(g)
    <3>1. g.supply = f.supply /\ g.vdd = f.vdd
      BY <2>5 DEF Parts
    <3> QED
      BY <1>6, <3>1 DEF Reaches, Powered
  <2>9. InStep(e)
    <3>1. Works(g, Settled(g))
      BY <2>6, SettledWorks DEF Spares, Leaves
    <3> QED
      BY <2>3, <2>8, <3>1 DEF Works, Moves, Calms, InStep
  <2> QED
    BY <2>6, <2>7, <2>9
<1> QED
  BY <1>5, <1>6

\* Clocks alone.
LEMMA ClocksSpare ==
  ASSUME NEW d, Whole(d), NEW bits \in Seq(Clocking), NEW e, e = Clocks(d, bits)
  PROVE  /\ Spares(d, e) /\ e.wireMode = d.wireMode /\ e.inPgmMode = d.inPgmMode
         /\ SamePins(d, e)
BY ClocksKeep DEF Spares, Leaves, SameTarget, SameBuffers, SameRest, SamePins

\* The two patterns that reset the port; the longer leaves it in step.
LEMMA ResetsSpare ==
  \A d : Whole(d) =>
      /\ Spares(d, Clocks(d, SetMode(31, 5)))
      /\ Spares(d, Clocks(d, SetMode(31, 6))) /\ InStep(Clocks(d, SetMode(31, 6)))
      /\ Works(d, Clocks(d, SetMode(31, 6)))
      /\ SamePins(d, Clocks(d, SetMode(31, 5)))
<1> SUFFICES ASSUME NEW d, Whole(d)
             PROVE  /\ Spares(d, Clocks(d, SetMode(31, 5)))
                    /\ Spares(d, Clocks(d, SetMode(31, 6)))
                    /\ InStep(Clocks(d, SetMode(31, 6)))
                    /\ Works(d, Clocks(d, SetMode(31, 6)))
                    /\ SamePins(d, Clocks(d, SetMode(31, 5)))
      /\ SamePins(d, Clocks(d, SetMode(31, 5)))
  OBVIOUS
<1>1. PICK a, b : a = SetMode(31, 5) /\ b = SetMode(31, 6)
  OBVIOUS
<1>2. a = PIC32_RESET /\ b = ETAP_RESET
  BY <1>1, Zenon DEF PIC32_RESET, ETAP_RESET
<1>3. a \in Seq(Clocking) /\ b \in Seq(Clocking)
  BY <1>2, ClockingOf, Zenon
<1>4. Spares(d, Clocks(d, a)) /\ Spares(d, Clocks(d, b)) /\ SamePins(d, Clocks(d, a))
  BY <1>3, ClocksSpare
<1>5. InStep(Clocks(d, b)) /\ Works(d, Clocks(d, b))
  BY <1>2, Synchronises
<1> QED
  BY <1>1, <1>4, <1>5, Zenon

\* The wires to use.
LEMMA WiresSpare ==
  \A d, m : Whole(d) /\ m \in {"JTAG", "ICSP"} =>
      Spares(d, SetWiresMode(d, m)) /\ SetWiresMode(d, m).wireMode = m
<1> SUFFICES ASSUME NEW d, NEW m \in {"JTAG", "ICSP"}, Whole(d),
                    NEW e, e = SetWiresMode(d, m)
             PROVE  Spares(d, e) /\ e.wireMode = m
  OBVIOUS
<1>3. e = [d EXCEPT !.wireMode = m]
  BY Zenon DEF SetWiresMode
<1>1. DOMAIN d = Parts
  BY DEF Whole
<1>2. /\ DOMAIN e = Parts /\ e.wireMode = m
      /\ \A q \in Parts \ {"wireMode"} : e[q] = d[q]
  BY <1>1, <1>3 DEF Parts
<1> QED
  BY <1>2 DEF Parts, Spares, Leaves, SameTarget, SameBuffers, Whole

\* The pins of the connector in use.
LEMMA SetupSpares ==
  \A d, set : Whole(d) =>
      LET e == SetupIOPorts(d, set)
      IN  Spares(d, e) /\ SameMode(d, e)
<1> SUFFICES ASSUME NEW d, NEW set, Whole(d)
             PROVE  /\ Spares(d, SetupIOPorts(d, set))
                    /\ SameMode(d, SetupIOPorts(d, set))
  OBVIOUS
<1>1. PICK x, y : x = d.driven \cup {d.wireMode} /\ y = d.driven \ {d.wireMode}
  OBVIOUS
<1>2. PICK a, b : a = [d EXCEPT !.driven = x, !.MCLR = 0] /\ b = [d EXCEPT !.driven = y]
  OBVIOUS
<1>3. /\ DOMAIN d = Parts /\ d.driven \subseteq {"JTAG", "ICSP"}
      /\ d.wireMode \in {"JTAG", "ICSP"}
  BY DEF Whole
<1>4. x \subseteq {"JTAG", "ICSP"} /\ y \subseteq {"JTAG", "ICSP"}
  BY <1>1, <1>3
<1>5. /\ DOMAIN a = Parts /\ a.driven = x
      /\ \A q \in Parts \ {"driven", "MCLR"} : a[q] = d[q]
  BY <1>2, <1>3 DEF Parts
<1>6. /\ DOMAIN b = Parts /\ b.driven = y
      /\ \A q \in Parts \ {"driven"} : b[q] = d[q]
  BY <1>2, <1>3 DEF Parts
<1>7. Spares(d, a) /\ SameMode(d, a)
  BY <1>4, <1>5, Pinned DEF SameMode
<1>8. Spares(d, b) /\ SameMode(d, b)
  BY <1>4, <1>6, Pinned DEF SameMode
<1>9. PICK e : e = IF set THEN a ELSE b
  OBVIOUS
<1>10. Spares(d, e) /\ SameMode(d, e)
  BY <1>7, <1>8, <1>9
<1>11. SetupIOPorts(d, set) = Settled(e)
  BY <1>1, <1>2, <1>9, Zenon DEF SetupIOPorts
<1> QED
  BY <1>10, <1>11, SettledSpares DEF SameMode

\* A device in or out of programming mode.
LEMMA ModeSpares ==
  ASSUME NEW d, Whole(d), NEW b \in BOOLEAN, NEW e, e = [d EXCEPT !.inPgmMode = b]
  PROVE  Spares(d, e) /\ e.wireMode = d.wireMode /\ e.inPgmMode = b
<1>1. DOMAIN d = Parts
  BY DEF Whole
<1>2. /\ DOMAIN e = Parts /\ e.inPgmMode = b
      /\ \A q \in Parts \ {"inPgmMode"} : e[q] = d[q]
  BY <1>1 DEF Parts
<1> QED
  BY <1>2 DEF Parts, Spares, Leaves, SameTarget, SameBuffers, Whole

\* Leaving programming mode parks the port and drops the reset line.
LEMMA ExitSpares ==
  \A d : Whole(d) =>
      LET e == ExitPgmMode(d)
      IN  Spares(d, e) /\ e.wireMode = d.wireMode /\ e.inPgmMode = FALSE
<1> SUFFICES ASSUME NEW d, Whole(d)
             PROVE  /\ Spares(d, ExitPgmMode(d)) /\ ExitPgmMode(d).wireMode = d.wireMode
                    /\ ExitPgmMode(d).inPgmMode = FALSE
  OBVIOUS
<1>1. PICK p : p = Clocks(d, PIC32_RESET)
  OBVIOUS
<1>2. Spares(d, p) /\ p.wireMode = d.wireMode /\ DOMAIN p = Parts /\ p.driven \subseteq {"JTAG", "ICSP"}
  <2>1. PICK bits \in Seq(Clocking) : bits = PIC32_RESET
    BY ClockingOf
  <2>2. Spares(d, p) /\ p.wireMode = d.wireMode
    BY <1>1, <2>1, ClocksSpare
  <2> QED
    BY <2>2 DEF Spares, Leaves, Whole
<1>3. PICK a, b : /\ a = [p EXCEPT !.MCLR = 0]
                  /\ b = [p EXCEPT !.PMCLR = 0, !.icsp = FALSE]
  OBVIOUS
<1>4. /\ DOMAIN a = Parts /\ a.driven = p.driven
      /\ \A q \in Parts \ {"MCLR"} : a[q] = p[q]
  BY <1>2, <1>3 DEF Parts
<1>5. /\ DOMAIN b = Parts /\ b.driven = p.driven
      /\ \A q \in Parts \ {"PMCLR", "icsp"} : b[q] = p[q]
  BY <1>2, <1>3 DEF Parts
<1>6. Whole(p)
  BY <1>2 DEF Spares, Leaves
<1>7. Spares(p, a) /\ a.wireMode = p.wireMode
  BY <1>2, <1>4, <1>6, Pinned
<1>8. Spares(p, b) /\ b.wireMode = p.wireMode
  BY <1>2, <1>5, <1>6, Pinned
<1>9. PICK low : low = IF d.wireMode = "JTAG" THEN a ELSE b
  OBVIOUS
<1>10. Spares(p, low) /\ low.wireMode = p.wireMode
  BY <1>7, <1>8, <1>9
<1>11. Spares(p, Settled(low)) /\ Settled(low).wireMode = p.wireMode
  BY <1>10, SettledSpares
<1>12. ExitPgmMode(d) = [Settled(low) EXCEPT !.inPgmMode = FALSE]
  BY <1>1, <1>3, <1>9, Zenon DEF ExitPgmMode
<1>13. PICK s, e : s = Settled(low) /\ e = [s EXCEPT !.inPgmMode = FALSE]
  OBVIOUS
<1>14. Spares(s, e) /\ e.wireMode = s.wireMode /\ e.inPgmMode = FALSE
  BY <1>11, <1>13, ModeSpares DEF Spares, Leaves
<1>15. Spares(d, e) /\ e.wireMode = d.wireMode
  BY <1>2, <1>11, <1>13, <1>14, SparesOn
<1> QED
  BY <1>12, <1>13, <1>14, <1>15, Zenon

\* Entering programming mode; with four wires the instructions that tell the
\* target to boot from the port may be missed.
LEMMA EnterSpares ==
  \A d : Whole(d) =>
      LET e == EnterPgmMode(d)
      IN  /\ Whole(e) /\ e.wireMode = d.wireMode /\ e.inPgmMode
          /\ SameTarget(d, e) /\ SameBuffers(d, e) /\ (e.asserted => d.asserted)
          /\ d.wireMode = "ICSP" => e.missed = d.missed
<1> SUFFICES ASSUME NEW d, Whole(d), NEW e, e = EnterPgmMode(d)
             PROVE  /\ Whole(e) /\ e.wireMode = d.wireMode /\ e.inPgmMode = TRUE
                    /\ SameTarget(d, e) /\ SameBuffers(d, e)
                    /\ (e.asserted => d.asserted)
                    /\ d.wireMode = "ICSP" => e.missed = d.missed
  OBVIOUS
<1>1. CASE d.wireMode = "JTAG"
  <2>1. PICK list \in Seq(Gentle) :
            list = <<<<"SendCommand", SW_ETAP>>, <<"SendCommand", EJTAGBOOT>>>>
    <3>1. PICK x, y : /\ x = <<"SendCommand", SW_ETAP>> /\ x \in Gentle
                      /\ y = <<"SendCommand", EJTAGBOOT>> /\ y \in Gentle
      BY Lists
    <3>2. <<x, y>> \in Seq(Gentle)
      BY <3>1
    <3> QED
      BY <3>1, <3>2, Zenon
  <2>2. PICK h : h = Settled([d EXCEPT !.MCLR = 0])
    OBVIOUS
  <2>3. PICK a : a = Steps(h, list)
    OBVIOUS
  <2>4. PICK u : u = Settled([a EXCEPT !.MCLR = 1])
    OBVIOUS
  <2>5. Works(d, h)
    BY <2>2, LineWorks
  <2>6. Works(h, a)
    BY <2>3, <2>5, StepsWork DEF Works, Moves, Calms
  <2>7. Works(a, u)
    BY <2>4, <2>6, LineWorks DEF Works, Moves, Calms
  <2>8. /\ Whole(u) /\ u.wireMode = d.wireMode /\ SameTarget(d, u)
        /\ SameBuffers(d, u) /\ (u.asserted => d.asserted)
    BY <2>5, <2>6, <2>7 DEF Works, Moves, Calms, SamePins, SameBuffers, SameTarget
  <2>9. e = [u EXCEPT !.inPgmMode = TRUE]
    BY <1>1, <2>1, <2>2, <2>3, <2>4, Zenon DEF EnterPgmMode
  <2>10. Spares(u, e) /\ e.wireMode = u.wireMode /\ e.inPgmMode = TRUE
    BY <2>8, <2>9, ModeSpares
  <2> QED
    BY <1>1, <2>8, <2>10 DEF Spares, Leaves, SameBuffers, SameTarget
<1>2. CASE d.wireMode # "JTAG"
  <2>1. PICK a : a = [d EXCEPT !.PMCLR = 0, !.icsp = FALSE]
    OBVIOUS
  <2>2. DOMAIN d = Parts /\ d.driven \subseteq {"JTAG", "ICSP"}
    BY DEF Whole
  <2>3. /\ DOMAIN a = Parts /\ a.driven = d.driven
        /\ \A q \in Parts \ {"PMCLR", "icsp"} : a[q] = d[q]
    BY <2>1, <2>2 DEF Parts
  <2>4. Spares(d, a) /\ a.wireMode = d.wireMode
    BY <2>2, <2>3, Pinned
  <2>5. PICK low : low = Settled(a)
    OBVIOUS
  <2>6. Spares(d, low) /\ low.wireMode = d.wireMode
    BY <2>4, <2>5, SettledSpares
  <2>7. PICK b : b = [low EXCEPT !.PMCLR = 1, !.icsp = TRUE]
    OBVIOUS
  <2>8. DOMAIN low = Parts /\ low.driven \subseteq {"JTAG", "ICSP"}
    BY <2>6 DEF Spares, Leaves, Whole
  <2>9. /\ DOMAIN b = Parts /\ b.driven = low.driven
        /\ \A q \in Parts \ {"PMCLR", "icsp"} : b[q] = low[q]
    BY <2>7, <2>8 DEF Parts
  <2>10. Spares(low, b) /\ b.wireMode = low.wireMode
    BY <2>6, <2>8, <2>9, Pinned DEF Spares, Leaves
  <2>11. PICK high : high = Settled(b)
    OBVIOUS
  <2>12. Spares(low, high) /\ high.wireMode = d.wireMode
    BY <2>6, <2>10, <2>11, SettledSpares
  <2>13. PICK c : c = Clocks(high, ETAP_RESET)
    OBVIOUS
  <2>14. Spares(high, c) /\ c.wireMode = d.wireMode
    <3>1. Whole(high)
      BY <2>12 DEF Spares, Leaves
    <3> QED
      BY <2>12, <2>13, <3>1, ClockingOf, ClocksSpare
  <2>15. e = [c EXCEPT !.inPgmMode = TRUE]
    BY <1>2, <2>1, <2>5, <2>7, <2>11, <2>13, Zenon DEF EnterPgmMode
  <2>16. Spares(c, e) /\ e.wireMode = c.wireMode /\ e.inPgmMode = TRUE
    BY <2>14, <2>15, ModeSpares DEF Spares, Leaves
  <2> QED
    BY <2>6, <2>12, <2>14, <2>16 DEF Spares, Leaves, SameBuffers, SameTarget
<1> QED
  BY <1>1, <1>2

-----------------------------------------------------------------------------
(* The commands of a script.                                               *)

\* What the program looks at.
Answers == {"idcode", "status", "unprotected", "PrAcc", "pe", "ready", "power"}

\* Commands whose argument is a number.
Numbered ==
    {"XferByte", "XferData8", "XferWord", "XferInstruction", "XferFastData",
     "GetPEResponse", "ClearDownload", "ClearUpload", "XferInstBuf", "XfrFastBuf",
     "XferData32", "WaitPeResp", "GetPeResp", "Receive", "ReadStatus",
     "ExpectBytes"}
\* Commands that keep a port in step.
CalmSteps ==
    [op : Numbered, arg : Nat] \cup [op : {"SetMode"}, arg : {6}]
        \cup [op : {"Supply"}, arg : {0}] \cup [op : {"SendCommand"}, arg : 0 .. 31]
        \cup [op : {"Download"}, arg : Seq(Nat)] \cup [op : {"Expect"}, arg : Answers]
        \cup [op : {"Bitbang"}, arg : CalmSends]
\* Commands that spare a device: those of the pins, of the adapter's buffers and of
\* the port's own reset.
SpareSteps ==
    [op : {"SetWiresMode", "SetupIOPorts", "ExitPgmMode", "Supply", "Ground", "Raise",
           "Release", "Signature", "ClearUpload", "Receive", "ReadStatus"},
      arg : Nat]
        \cup [op : {"SetMode"}, arg : {5, 6}] \cup [op : {"Expect"}, arg : Answers]

\* What keeps a port in step, the wires and the programming mode.
Keeps(d, e) ==
    /\ Whole(e) /\ e.wireMode = d.wireMode /\ e.inPgmMode = d.inPgmMode
    /\ SameTarget(d, e)
    /\ InStep(d) => InStep(e) /\ e.missed = d.missed

\* Calms is that and more.
LEMMA KeepsOf ==
  ASSUME NEW d, NEW e, Calms(d, e)
  PROVE  Keeps(d, e)
BY DEF Calms, Keeps, SamePins, SameTarget

\* One command of that kind after another.
LEMMA KeepsOn ==
  ASSUME NEW a, NEW b, NEW c, Keeps(a, b), Keeps(b, c)
  PROVE  Keeps(a, c)
BY DEF Keeps, SameTarget

\* Which commands they are, by name.
LEMMA CalmIs ==
  ASSUME NEW c \in CalmSteps
  PROVE  \/ c.op \in Numbered /\ c.arg \in Nat
         \/ c.op = "SetMode" /\ c.arg = 6
         \/ c.op = "Supply" /\ c.arg = 0
         \/ c.op = "SendCommand" /\ c.arg \in 0 .. 31
         \/ c.op = "Download"
         \/ c.op = "Expect"
         \/ c.op = "Bitbang" /\ c.arg \in CalmSends
BY DEF CalmSteps

\* Those that besides neither touch the pins nor have the MTAP hold the processor
\* in reset.
HeldSteps ==
    {c \in CalmSteps : /\ c.op \notin {"Supply", "Bitbang"}
                       /\ c.op \in {"XferByte", "XferData8"} => c.arg # 209}

\* What a command does to the buffers.
Buffering ==
    {"ClearDownload", "ClearUpload", "Download", "XferInstBuf", "XfrFastBuf",
     "XferData8", "XferData32", "GetPeResp"}
Fills(d, c, e) ==
    /\ c.op \notin Buffering => SameBuffers(d, e)
    /\ c.op = "ClearDownload" =>
           e.download = <<>> /\ e.upload = d.upload /\ e.dry = d.dry
    /\ c.op = "ClearUpload" =>
           e.download = d.download /\ e.upload = 0 /\ e.dry = d.dry
    /\ c.op = "Download" =>
           e.download = d.download \o c.arg /\ e.upload = d.upload /\ e.dry = d.dry
    /\ c.op \in {"XferInstBuf", "XfrFastBuf"} =>
           /\ e.download = SubSeq(d.download, c.arg + 1, Len(d.download))
           /\ e.upload = d.upload /\ e.dry = Dried(d, c.arg)
    /\ c.op = "XferData8" =>
           e.download = d.download /\ e.upload = d.upload + 1 /\ e.dry = d.dry
    /\ c.op = "XferData32" =>
           e.download = d.download /\ e.upload = d.upload + 4 /\ e.dry = d.dry
    /\ c.op = "GetPeResp" =>
           /\ e.download = d.download /\ e.dry = d.dry
           /\ \/ e.upload = d.upload + 4 * c.arg /\ e.timeout = d.timeout
              \/ e.upload = d.upload /\ e.timeout
    /\ c.op \notin {"XferInstBuf", "GetPeResp"} => e.timeout = d.timeout

\* All of that of one command.
Kept(d, c, e) ==
    /\ Keeps(d, e) /\ Fills(d, c, e)
    /\ c.op # "Supply" => Calms(d, e)
    /\ c \in HeldSteps => Handles(d, e)

\* A command that leaves the buffers alone.
LEMMA WorksKept ==
  ASSUME NEW d, NEW c, NEW e, Works(d, e), e.timeout = d.timeout, c.op \notin Buffering
  PROVE  Kept(d, c, e)
<1>1. Calms(d, e) /\ Handles(d, e) /\ SameBuffers(d, e)
  BY WorksHandles DEF Handles
<1>2. Fills(d, c, e)
  BY <1>1 DEF Fills, Buffering
<1> QED
  BY <1>1, <1>2, KeepsOf DEF Kept

\* One that does not.
LEMMA HandlesKept ==
  ASSUME NEW d, NEW c, NEW e, Handles(d, e), Fills(d, c, e)
  PROVE  Kept(d, c, e)
BY KeepsOf DEF Kept, Handles

\* A byte for the MTAP, which may have it hold the processor in reset.
LEMMA ByteKept ==
  ASSUME NEW d, NEW c \in CalmSteps, NEW e, c.op \in {"XferByte", "XferData8"},
         Calms(d, e), c.arg # 209 => Handles(d, e), Fills(d, c, e)
  PROVE  Kept(d, c, e)
BY KeepsOf DEF Kept, HeldSteps

\* A command that keeps a port in step does so.
LEMMA CalmSimple ==
  \A d : \A c \in CalmSteps : \A e \in Simple(d, c) : Whole(d) => Kept(d, c, e)
<1> SUFFICES ASSUME NEW d, NEW c \in CalmSteps, NEW e \in Simple(d, c), Whole(d)
             PROVE  Kept(d, c, e)
  OBVIOUS
<1>1. PICK a : a = c.arg
  OBVIOUS
<1>2. CASE c.op \in Numbered /\ a \in Nat
  <2>1. CASE c.op \in {"XferByte", "XferData8"}
    <3>1. PICK x : x = Commands(d, a)
      OBVIOUS
    <3>2. /\ Moves(d, x) /\ Whole(x) /\ x.timeout = d.timeout
          /\ a # 209 => Works(d, x)
      <4>1. x = Does(d, "XferData", a)
        BY <3>1, Zenon DEF Commands
      <4> QED
        BY <1>2, <4>1, CommandsWork DEF Works, Moves, Calms
    <3>3. Calms(d, x) /\ SameBuffers(d, x) /\ (a # 209 => Handles(d, x))
      BY <3>2, WorksHandles DEF Moves
    <3>4. CASE c.op = "XferByte"
      <4>1. e = x
        BY <1>1, <3>1, <3>4, Zenon DEF Simple, Looks
      <4>2. Fills(d, c, x)
        BY <3>2, <3>3, <3>4 DEF Fills, Buffering
      <4> QED
        BY <1>1, <2>1, <3>3, <4>1, <4>2, ByteKept
    <3>5. CASE c.op = "XferData8"
      <4>1. e = Uploads(x, 1)
        BY <1>1, <3>1, <3>5, Zenon DEF Simple, Looks
      <4>2. /\ Handles(x, e) /\ Whole(e) /\ e.timeout = x.timeout
            /\ e.download = x.download /\ e.upload = x.upload + 1 /\ e.dry = x.dry
        BY <3>2, <4>1, BuffersWork
      <4>3. Fills(d, c, e)
        BY <3>2, <3>3, <3>5, <4>2 DEF Fills, Buffering, SameBuffers
      <4>4. Calms(d, e) /\ (a # 209 => Handles(d, e))
        BY <3>3, <4>2, HandlesOn, CalmsOn DEF Handles
      <4> QED
        BY <1>1, <2>1, <4>3, <4>4, ByteKept
    <3> QED
      BY <2>1, <3>4, <3>5
  <2>2. CASE c.op \in {"XferWord", "XferData32"}
    <3>1. PICK x : x = XferWord(d)
      OBVIOUS
    <3>2. Works(d, x) /\ Whole(x) /\ x.timeout = d.timeout
      <4>1. x = Does(d, "XferWord", 0)
        BY <3>1, Zenon DEF XferWord
      <4> QED
        BY <4>1, WordsWork DEF Works, Moves, Calms
    <3>3. Handles(d, x) /\ SameBuffers(d, x)
      BY <3>2, WorksHandles
    <3>4. CASE c.op = "XferWord"
      <4>1. e = x
        BY <3>1, <3>4, Zenon DEF Simple, Looks
      <4> QED
        BY <3>2, <3>4, <4>1, WorksKept DEF Buffering
    <3>5. CASE c.op = "XferData32"
      <4>1. e = Uploads(x, 4)
        BY <3>1, <3>5, Zenon DEF Simple, Looks
      <4>2. /\ Handles(x, e) /\ Whole(e) /\ e.timeout = x.timeout
            /\ e.download = x.download /\ e.upload = x.upload + 4 /\ e.dry = x.dry
        BY <3>2, <4>1, BuffersWork
      <4>3. Fills(d, c, e)
        BY <3>2, <3>3, <3>5, <4>2 DEF Fills, Buffering, SameBuffers
      <4>4. Handles(d, e)
        BY <3>3, <4>2, HandlesOn
      <4> QED
        BY <4>3, <4>4, HandlesKept
    <3> QED
      BY <2>2, <3>4, <3>5
  <2>3. CASE c.op = "XferInstruction"
    <3>1. e \in XferInstruction(d, a)
      BY <1>1, <2>3, Zenon DEF Simple, Looks
    <3>2. Works(d, e) /\ e.timeout = d.timeout
      BY <3>1, XferInstructionWorks
    <3> QED
      BY <2>3, <3>2, WorksKept DEF Buffering
  <2>4. CASE c.op = "XferFastData"
    <3>1. PICK words : words = <<a>>
      OBVIOUS
    <3>2. e = TransferFast(d, words)
      BY <1>1, <2>4, <3>1, Zenon DEF Simple, Looks
    <3>3. Len(words) \in Nat
      BY <3>1
    <3>4. Works(d, e) /\ e.timeout = d.timeout
      BY <3>2, <3>3, TransferFastWorks
    <3> QED
      BY <2>4, <3>4, WorksKept DEF Buffering
  <2>5. CASE c.op = "GetPEResponse"
    <3>1. e = GetPEResponse(d)
      BY <2>5, Zenon DEF Simple, Looks
    <3>2. Works(d, e) /\ e.timeout = d.timeout
      BY <3>1, ResponseWorks
    <3> QED
      BY <2>5, <3>2, WorksKept DEF Buffering
  <2>6. CASE c.op \in {"ClearDownload", "ClearUpload"}
    <3>1. CASE c.op = "ClearDownload"
      <4>1. PICK none : none = <<>>
        OBVIOUS
      <4>2. e = [d EXCEPT !.download = none]
        BY <3>1, <4>1, Zenon DEF Simple, Looks
      <4>3. /\ DOMAIN e = Parts
            /\ \A q \in Parts \ {"upload", "download", "dry"} : e[q] = d[q]
            /\ e.download = none /\ e.upload = d.upload /\ e.dry = d.dry
        BY <4>2 DEF Whole, Parts
      <4>4. Handles(d, e) /\ e.timeout = d.timeout
        BY <4>3, BufferWorks
      <4>5. Fills(d, c, e)
        BY <3>1, <4>1, <4>3, <4>4 DEF Fills, Buffering
      <4> QED
        BY <4>4, <4>5, HandlesKept
    <3>2. CASE c.op = "ClearUpload"
      <4>2. e = [d EXCEPT !.upload = 0]
        BY <3>2, Zenon DEF Simple, Looks
      <4>3. /\ DOMAIN e = Parts
            /\ \A q \in Parts \ {"upload", "download", "dry"} : e[q] = d[q]
            /\ e.download = d.download /\ e.upload = 0 /\ e.dry = d.dry
        BY <4>2 DEF Whole, Parts
      <4>4. Handles(d, e) /\ e.timeout = d.timeout
        BY <4>3, BufferWorks
      <4>5. Fills(d, c, e)
        BY <3>2, <4>3, <4>4 DEF Fills, Buffering
      <4> QED
        BY <4>4, <4>5, HandlesKept
    <3> QED
      BY <2>6, <3>1, <3>2
  <2>7. CASE c.op = "XferInstBuf"
    <3>1. e \in GiveBuffered(d, a)
      BY <1>1, <2>7, Zenon DEF Simple, Looks
    <3>2. PICK u : u = Uses(d, a)
      OBVIOUS
    <3>3. Works(u, e) /\ Handles(d, e)
      BY <1>2, <3>1, <3>2, GiveBufferedWorks
    <3>4. /\ u.download = SubSeq(d.download, a + 1, Len(d.download))
          /\ u.upload = d.upload /\ u.dry = Dried(d, a)
      BY <3>2, BuffersWork
    <3>5. Fills(d, c, e)
      BY <1>1, <2>7, <3>3, <3>4 DEF Fills, Buffering, Works, Moves, SameBuffers
    <3> QED
      BY <3>3, <3>5, HandlesKept
  <2>8. CASE c.op = "XfrFastBuf"
    <3>1. e = FastBuffered(d, a)
      BY <1>1, <2>8, Zenon DEF Simple, Looks
    <3>2. PICK u : u = Uses(d, a)
      OBVIOUS
    <3>3. Works(u, e) /\ Handles(d, e) /\ e.timeout = d.timeout
      BY <1>2, <3>1, <3>2, FastBufferedWorks
    <3>4. /\ u.download = SubSeq(d.download, a + 1, Len(d.download))
          /\ u.upload = d.upload /\ u.dry = Dried(d, a)
      BY <3>2, BuffersWork
    <3>5. Fills(d, c, e)
      BY <1>1, <2>8, <3>3, <3>4 DEF Fills, Buffering, Works, Moves, SameBuffers
    <3> QED
      BY <3>3, <3>5, HandlesKept
  <2>9. CASE c.op = "WaitPeResp"
    <3>1. e = WaitETAP_Ready(d)
      BY <2>9, Zenon DEF Simple, Looks
    <3>2. Works(d, e) /\ e.timeout = d.timeout
      BY <3>1, WaitWorks
    <3> QED
      BY <2>9, <3>2, WorksKept DEF Buffering
  <2>10. CASE c.op = "GetPeResp"
    <3>1. e \in PeResponses(d, a)
      BY <1>1, <2>10, Zenon DEF Simple, Looks
    <3>2. /\ Handles(d, e) /\ e.download = d.download /\ e.dry = d.dry
          /\ \/ e.upload = d.upload + 4 * a /\ e.timeout = d.timeout
             \/ e.upload = d.upload /\ e.timeout
      BY <3>1, PeResponsesWork
    <3>3. Fills(d, c, e)
      BY <1>1, <2>10, <3>2 DEF Fills, Buffering
    <3> QED
      BY <3>2, <3>3, HandlesKept
  <2>11. CASE c.op \in {"Receive", "ReadStatus", "Expect", "ExpectBytes"}
    <3>1. e = d
      BY <2>11, Zenon DEF Simple, Looks
    <3>2. Works(d, e)
      BY <3>1, WorksNot
    <3> QED
      BY <2>11, <3>1, <3>2, WorksKept DEF Buffering
  <2> QED
    BY <1>2, <2>1, <2>2, <2>3, <2>4, <2>5, <2>6, <2>7, <2>8, <2>9, <2>10, <2>11
       DEF Numbered
<1>3. CASE c.op = "SetMode" /\ a = 6
  <2>1. e = Clocks(d, SetMode(31, 6))
    BY <1>1, <1>3, Zenon DEF Simple, Looks
  <2>2. Works(d, e) /\ e.timeout = d.timeout
    BY <2>1, ResetsSpare DEF Spares, Leaves
  <2> QED
    BY <1>3, <2>2, WorksKept DEF Buffering
<1>4. CASE c.op = "Supply" /\ a = 0
  <2>1. e = Supplied(d, FALSE)
    <3>1. e = Supplied(d, a = 1)
      BY <1>1, <1>4, Zenon DEF Simple, Looks
    <3>2. (a = 1) = FALSE
      BY <1>4
    <3> QED
      BY <3>1, <3>2, Zenon
  <2>2. Keeps(d, e) /\ SameBuffers(d, e) /\ e.timeout = d.timeout
    BY <2>1, SupplySpares DEF Keeps, Spares, Leaves
  <2>3. Fills(d, c, e)
    BY <1>4, <2>2 DEF Fills, Buffering
  <2> QED
    BY <1>4, <2>2, <2>3 DEF Kept, HeldSteps
<1>5. CASE c.op = "SendCommand" /\ a \in 0 .. 31
  <2>1. e = Does(d, "SendCommand", a)
    BY <1>1, <1>5, Zenon DEF Simple, Sends, Looks
  <2>2. Works(d, e) /\ e.timeout = d.timeout
    BY <1>5, <2>1, SendsWork
  <2> QED
    BY <1>5, <2>2, WorksKept DEF Buffering
<1>6. CASE c.op = "Download"
  <2>1. e = Downloads(d, a)
    BY <1>1, <1>6, Zenon DEF Simple, Looks
  <2>2. /\ Handles(d, e) /\ e.timeout = d.timeout
        /\ e.download = d.download \o a /\ e.upload = d.upload /\ e.dry = d.dry
    BY <2>1, BuffersWork
  <2>3. Fills(d, c, e)
    BY <1>1, <1>6, <2>2 DEF Fills, Buffering
  <2> QED
    BY <2>2, <2>3, HandlesKept
<1>7. CASE c.op = "Expect"
  <2>1. e = d
    BY <1>7, Zenon DEF Simple, Looks
  <2>2. Works(d, e)
    BY <2>1, WorksNot
  <2> QED
    BY <1>7, <2>1, <2>2, WorksKept DEF Buffering
<1>8. CASE c.op = "Bitbang" /\ a \in CalmSends
  <2>1. e = Bitbanged(d, a)
    BY <1>1, <1>8, Zenon DEF Simple, Looks
  <2>2. Moves(d, e) /\ e.timeout = d.timeout
    BY <1>8, <2>1, BitbangedWorks
  <2>3. Fills(d, c, e)
    BY <1>8, <2>2 DEF Fills, Buffering, Moves
  <2> QED
    BY <1>8, <2>2, <2>3, KeepsOf DEF Kept, HeldSteps, Moves
<1> QED
  BY <1>1, <1>2, <1>3, <1>4, <1>5, <1>6, <1>7, <1>8, CalmIs

\* A command that spares a device does so.
LEMMA SpareSimple ==
  \A d : \A c \in SpareSteps : \A e \in Simple(d, c) : Whole(d) =>
      /\ Leaves(d, e) /\ (c.op # "ClearUpload" => Spares(d, e))
      /\ c.op \notin {"SetWiresMode", "ExitPgmMode"} => SameMode(d, e)
<1> SUFFICES ASSUME NEW d, NEW c \in SpareSteps, NEW e \in Simple(d, c), Whole(d)
             PROVE  /\ Leaves(d, e) /\ (c.op # "ClearUpload" => Spares(d, e))
                    /\ c.op \notin {"SetWiresMode", "ExitPgmMode"} => SameMode(d, e)
  OBVIOUS
<1>1. PICK a : a = c.arg
  OBVIOUS
<1>2. Spares(d, d) /\ SameMode(d, d)
  BY DEF Spares, Leaves, SameTarget, SameBuffers, SameMode
<1>3. CASE c.op = "SetWiresMode"
  <2>1. PICK m : m = IF a = 1 THEN "ICSP" ELSE "JTAG"
    OBVIOUS
  <2>2. e = SetWiresMode(d, m)
    BY <1>1, <1>3, <2>1, Zenon DEF Simple, Looks
  <2> QED
    BY <1>3, <2>1, <2>2, WiresSpare DEF Spares
<1>4. CASE c.op = "SetupIOPorts"
  <2>1. e = SetupIOPorts(d, a = 1)
    BY <1>1, <1>4, Zenon DEF Simple, Looks
  <2> QED
    BY <2>1, SetupSpares DEF Spares
<1>5. CASE c.op = "ExitPgmMode"
  <2>1. e = ExitPgmMode(d)
    BY <1>5, Zenon DEF Simple, Looks
  <2> QED
    BY <1>5, <2>1, ExitSpares DEF Spares
<1>6. CASE c.op = "Supply"
  <2>1. PICK on : on = (a = 1)
    OBVIOUS
  <2>2. e = Supplied(d, on)
    BY <1>1, <1>6, <2>1, Zenon DEF Simple, Looks
  <2>3. on \in BOOLEAN
    BY <2>1
  <2> QED
    BY <2>2, <2>3, SupplySpares DEF Spares, SameMode
<1>7. CASE c.op = "Ground"
  <2>1. e = Ground(d)
    BY <1>7, Zenon DEF Simple, Looks
  <2> QED
    BY <2>1, LinesSpare DEF Spares
<1>8. CASE c.op = "Raise"
  <2>1. e = Raise(d)
    BY <1>8, Zenon DEF Simple, Looks
  <2> QED
    BY <2>1, LinesSpare DEF Spares
<1>9. CASE c.op = "Release"
  <2>1. e = Release(d)
    BY <1>9, Zenon DEF Simple, Looks
  <2> QED
    BY <2>1, LinesSpare DEF Spares
<1>10. CASE c.op = "Signature"
  <2>1. e = Signature(d)
    BY <1>10, Zenon DEF Simple, Looks
  <2> QED
    BY <2>1, LinesSpare DEF Spares
<1>11. CASE c.op = "ClearUpload"
  <2>1. e = [d EXCEPT !.upload = 0]
    BY <1>11, Zenon DEF Simple, Looks
  <2>2. DOMAIN d = Parts
    BY DEF Whole
  <2> QED
    BY <1>11, <2>1, <2>2 DEF Parts, Leaves, SameTarget, SameMode, Whole
<1>12. CASE c.op \in {"Receive", "ReadStatus", "Expect"}
  <2>1. e = d
    BY <1>12, Zenon DEF Simple, Looks
  <2> QED
    BY <1>2, <2>1 DEF Spares
<1>13. CASE c.op = "SetMode" /\ a \in {5, 6}
  <2>1. e = Clocks(d, SetMode(31, a))
    BY <1>1, <1>13, Zenon DEF Simple, Looks
  <2>2. SamePins(d, e)
    BY <1>13, <2>1, ResetsSpare DEF Works, Moves, Calms
  <2> QED
    BY <1>13, <2>1, <2>2, ResetsSpare DEF Spares, SameMode, SamePins
<1>14. \/ c.op \in {"SetWiresMode", "SetupIOPorts", "ExitPgmMode", "Supply", "Ground",
                    "Raise", "Release", "Signature", "ClearUpload", "Receive",
                    "ReadStatus", "Expect"}
       \/ c.op = "SetMode" /\ a \in {5, 6}
  BY <1>1 DEF SpareSteps
<1> QED
  BY <1>3, <1>4, <1>5, <1>6, <1>7, <1>8, <1>9, <1>10, <1>11, <1>12, <1>13, <1>14

\* f gives the devices after each command of a packet.
AfterRun(d, steps, n, f) ==
    f = [i \in 0 .. n |-> IF i = 0 THEN {[d EXCEPT !.timeout = FALSE]}
                          ELSE UNION {IF e.timeout THEN {e} ELSE Simple(e, steps[i]) :
                                          e \in f[i - 1]}]

\* There is such a function.
LEMMA AfterRunExists ==
  ASSUME NEW d, NEW steps, NEW n \in Nat
  PROVE  \E f : AfterRun(d, steps, n, f)
<1> DEFINE S == {m \in 0 .. n : \E f : AfterRun(d, steps, m, f)}
<1>1. 0 \in S
  <2>1. PICK z : z = {[d EXCEPT !.timeout = FALSE]}
    BY Zenon
  <2>2. PICK g : g = [i \in 0 .. 0 |-> z]
    BY Zenon
  <2>3. \A i \in 0 .. 0 : i = 0 /\ g[i] = z
    BY <2>2
  <2>4. \A i \in 0 .. 0 :
            g[i] = IF i = 0 THEN z
                   ELSE UNION {IF e.timeout THEN {e} ELSE Simple(e, steps[i]) :
                                   e \in g[i - 1]}
    BY <2>3, Zenon
  <2>5. g = [i \in 0 .. 0 |-> g[i]]
    BY <2>2
  <2>6. AfterRun(d, steps, 0, g)
    BY <2>1, <2>4, <2>5, Zenon DEF AfterRun
  <2>7. 0 \in 0 .. n
    OBVIOUS
  <2> QED
    BY <2>6, <2>7, Zenon
<1>2. \A m \in 0 .. n - 1 : m \in S => m + 1 \in S
  <2> SUFFICES ASSUME NEW m \in 0 .. n - 1, NEW f, AfterRun(d, steps, m, f)
               PROVE  \E g : AfterRun(d, steps, m + 1, g)
    OBVIOUS
  <2>1. PICK u : u = UNION {IF e.timeout THEN {e} ELSE Simple(e, steps[m + 1]) :
                               e \in f[m]}
    BY Zenon
  <2> DEFINE g == [i \in 0 .. m + 1 |-> IF i = m + 1 THEN u ELSE f[i]]
  <2>3. PICK z : z = {[d EXCEPT !.timeout = FALSE]}
    BY Zenon
  <2>4. \A i \in 0 .. m :
            f[i] = IF i = 0 THEN z
                   ELSE UNION {IF e.timeout THEN {e} ELSE Simple(e, steps[i]) :
                                   e \in f[i - 1]}
    BY <2>3, Zenon DEF AfterRun
  <2>5. g[m + 1] = UNION {IF e.timeout THEN {e} ELSE Simple(e, steps[m + 1]) :
                              e \in g[m]}
    <3>1. g[m + 1] = u /\ g[m] = f[m]
      OBVIOUS
    <3> HIDE DEF g
    <3> QED
      BY <2>1, <3>1, Zenon
  <2>6. \A i \in 0 .. m : g[i] = f[i]
    OBVIOUS
  <2>7. \A i \in 0 .. m + 1 :
            g[i] = IF i = 0 THEN z
                   ELSE UNION {IF e.timeout THEN {e} ELSE Simple(e, steps[i]) :
                                   e \in g[i - 1]}
    <3> HIDE DEF g
    <3> SUFFICES ASSUME NEW i \in 0 .. m + 1
                 PROVE  g[i] = IF i = 0 THEN z
                               ELSE UNION {IF e.timeout THEN {e} ELSE Simple(e, steps[i]) :
                                               e \in g[i - 1]}
      OBVIOUS
    <3>1. CASE i = m + 1
      <4>1. i # 0 /\ i - 1 = m
        BY <3>1
      <4> QED
        BY <2>5, <3>1, <4>1, Zenon
    <3>2. CASE i = 0
      <4>1. 0 \in 0 .. m
        OBVIOUS
      <4> QED
        BY <2>4, <2>6, <3>2, <4>1, Zenon
    <3>3. CASE i \in 1 .. m
      <4>1. i \in 0 .. m /\ i - 1 \in 0 .. m /\ i # 0
        BY <3>3
      <4>2. g[i] = f[i] /\ g[i - 1] = f[i - 1]
        BY <2>6, <4>1
      <4> QED
        BY <2>4, <4>1, <4>2, Zenon
    <3> QED
      BY <3>1, <3>2, <3>3
  <2>8. AfterRun(d, steps, m + 1, g)
    <3>1. g = [i \in 0 .. m + 1 |-> g[i]]
      OBVIOUS
    <3> HIDE DEF g
    <3> QED
      BY <2>3, <2>7, <3>1, Zenon DEF AfterRun
  <2> QED
    BY <2>8
<1>3. n \in S
  <2> HIDE DEF S
  <2>1. n \in 0 .. n
    OBVIOUS
  <2> QED
    BY <1>1, <1>2, <2>1, UpTo
<1> QED
  BY <1>3

\* Those devices.
AfterOf(d, steps, n) == CHOOSE f : AfterRun(d, steps, n, f)

\* f leads from a device to what a packet of steps makes of it.
PacketRun(d, c, steps, n, f) ==
    /\ \A e \in f[0] : e = [d EXCEPT !.timeout = FALSE]
    /\ \A i \in 1 .. n : \A e \in f[i] : \E x \in f[i - 1] :
           IF x.timeout THEN e = x ELSE e \in Simple(x, steps[i])
    /\ \A e \in Effect(d, c) : \E x \in f[n] :
           e = [x EXCEPT !.timeout = x.timeout \/ d.timeout]

\* The effect of a command, one command of its packet at a time.
LEMMA EffectPath ==
  ASSUME NEW d, NEW c, NEW steps, steps = IF c.op = "Packet" THEN c.arg ELSE <<c>>,
         NEW n \in Nat, n = Len(steps)
  PROVE  \E f : PacketRun(d, c, steps, n, f)
<1>1. PICK f : f = AfterOf(d, steps, n) /\ AfterRun(d, steps, n, f)
  BY AfterRunExists DEF AfterOf
<1>2. Effect(d, c) = {[e EXCEPT !.timeout = @ \/ d.timeout] : e \in f[n]}
  <2>1. Effect(d, c) =
          {[e EXCEPT !.timeout = @ \/ d.timeout] :
              e \in AfterOf(d, IF c.op = "Packet" THEN c.arg ELSE <<c>>,
                            Len(IF c.op = "Packet" THEN c.arg ELSE <<c>>))
                        [Len(IF c.op = "Packet" THEN c.arg ELSE <<c>>)]}
    BY Zenon DEF Effect, AfterOf, AfterRun
  <2>2. n = Len(IF c.op = "Packet" THEN c.arg ELSE <<c>>)
    BY Zenon
  <2>3. f = AfterOf(d, IF c.op = "Packet" THEN c.arg ELSE <<c>>,
                    Len(IF c.op = "Packet" THEN c.arg ELSE <<c>>))
    BY <1>1, <2>2, Zenon
  <2> QED
    BY <2>1, <2>2, <2>3, Zenon
<1>3. PICK z : z = {[d EXCEPT !.timeout = FALSE]}
  BY Zenon
<1>4. \A i \in 0 .. n :
          f[i] = IF i = 0 THEN z
                 ELSE UNION {IF e.timeout THEN {e} ELSE Simple(e, steps[i]) :
                                 e \in f[i - 1]}
  BY <1>1, <1>3, Zenon DEF AfterRun
<1>5. f[0] = z
  <2>1. 0 \in 0 .. n
    OBVIOUS
  <2> QED
    BY <1>4, <2>1, Zenon
<1>6. \A e \in f[0] : e = [d EXCEPT !.timeout = FALSE]
  BY <1>3, <1>5, Zenon
<1>7. \A i \in 1 .. n : \A e \in f[i] : \E x \in f[i - 1] :
          IF x.timeout THEN e = x ELSE e \in Simple(x, steps[i])
  <2> SUFFICES ASSUME NEW i \in 1 .. n, NEW e \in f[i]
               PROVE  \E x \in f[i - 1] :
                          IF x.timeout THEN e = x ELSE e \in Simple(x, steps[i])
    BY Zenon
  <2>1. i \in 0 .. n /\ i # 0
    OBVIOUS
  <2>2. f[i] = UNION {IF x.timeout THEN {x} ELSE Simple(x, steps[i]) : x \in f[i - 1]}
    BY <1>4, <2>1, Zenon
  <2>3. PICK x \in f[i - 1] : e \in IF x.timeout THEN {x} ELSE Simple(x, steps[i])
    BY <2>2, Zenon
  <2> QED
    BY <2>3, Zenon
<1>8. \A e \in Effect(d, c) : \E x \in f[n] :
          e = [x EXCEPT !.timeout = x.timeout \/ d.timeout]
  BY <1>2, Zenon
<1>9. PacketRun(d, c, steps, n, f)
  BY <1>6, <1>7, <1>8, Zenon DEF PacketRun
<1> QED
  BY <1>9, Zenon

\* Commands and packets of them that keep a port in step, those of them that do not
\* have the MTAP hold the processor in reset, those that leave the power alone, and
\* those that spare a device.
CalmCommands == CalmSteps \cup [op : {"Packet"}, arg : Seq(CalmSteps)]
HeldCommands == HeldSteps \cup [op : {"Packet"}, arg : Seq(HeldSteps)]
PinnedSteps == {c \in CalmSteps : c.op # "Supply"}
PinnedCommands == PinnedSteps \cup [op : {"Packet"}, arg : Seq(PinnedSteps)]
SpareCommands == SpareSteps \cup [op : {"Packet"}, arg : Seq(SpareSteps)]

\* A device of which only the program's knowledge of timeouts differs.
Notes(d, e) ==
    DOMAIN e = Parts /\ \A q \in Parts \ {"timeout"} : e[q] = d[q]

\* Whatever the program knows of timeouts, the device is the same otherwise.
LEMMA Noted ==
  \A d, x : Whole(d) => Notes(d, [d EXCEPT !.timeout = x])
BY DEF Whole, Parts, Notes

\* Which is as good as the device itself.
LEMMA NotesKeep ==
  ASSUME NEW d, Whole(d), NEW e, Notes(d, e)
  PROVE  /\ Calms(d, e) /\ Handles(d, e) /\ Keeps(d, e) /\ SameBuffers(d, e)
         /\ Whole(e) /\ e.missed = d.missed /\ (InStep(d) => InStep(e))
         /\ e.tap = d.tap /\ e.cpu = d.cpu /\ e.asserted = d.asserted
         /\ SamePins(d, e) /\ SameTarget(d, e)
<1>1. /\ SamePins(d, e) /\ SameBuffers(d, e) /\ e.asserted = d.asserted
      /\ e.tap = d.tap /\ e.missed = d.missed /\ e.cpu = d.cpu
      /\ e.protected = d.protected /\ e.expects = d.expects
  BY DEF SamePins, SameBuffers, Parts, Notes
<1>2. Whole(e)
  BY <1>1 DEF Whole, SamePins, Notes
<1>3. Reaches(e) = Reaches(d)
  BY <1>1, SameReaches
<1>4. Calms(d, e)
  BY <1>1, <1>2, <1>3 DEF Calms, InStep
<1> QED
  BY <1>1, <1>2, <1>3, <1>4, KeepsOf DEF Handles, InStep, SameTarget, SamePins

\* The same of the device with the program's knowledge changed.
LEMMA Remembers ==
  \A d, x : Whole(d) => LET e == [d EXCEPT !.timeout = x]
                        IN  /\ Keeps(d, e) /\ Whole(e) /\ e.missed = d.missed
                            /\ e.timeout = x /\ (InStep(d) => InStep(e))
                            /\ Notes(d, e) /\ Handles(d, e) /\ SameBuffers(d, e)
<1> SUFFICES ASSUME NEW d, NEW x, Whole(d), NEW e, e = [d EXCEPT !.timeout = x]
             PROVE  /\ Keeps(d, e) /\ Whole(e) /\ e.missed = d.missed
                    /\ e.timeout = x /\ (InStep(d) => InStep(e))
                    /\ Notes(d, e) /\ Handles(d, e) /\ SameBuffers(d, e)
  OBVIOUS
<1>1. Notes(d, e)
  BY Noted
<1>2. e.timeout = x
  BY DEF Whole, Parts
<1> QED
  BY <1>1, <1>2, NotesKeep

\* Of a device of which the status has been read the target and the pins are the
\* same, and the words downloaded.
StatusOf(d, clear, e) ==
    /\ Keeps(d, e) /\ e.missed = d.missed /\ (InStep(d) => InStep(e))
    /\ SamePins(d, e) /\ e.PMCLR = d.PMCLR /\ e.asserted = d.asserted
    /\ e.cpu = d.cpu /\ e.tap = d.tap
    /\ e.download = d.download /\ e.dry = d.dry /\ e.timeout = FALSE
    /\ e.upload = IF clear = 1 THEN 0 ELSE d.upload
    /\ e.reply = IF d.timeout THEN 1 ELSE 0

\* Reading the status gives such a device.
LEMMA StatusReads ==
  \A d, clear : Whole(d) => StatusOf(d, clear, StatusRead(d, clear))
<1> SUFFICES ASSUME NEW d, NEW clear, Whole(d), NEW e, e = StatusRead(d, clear)
             PROVE  StatusOf(d, clear, e)
  OBVIOUS
<1>1. PICK r, u : /\ r = IF d.timeout THEN 1 ELSE 0
                  /\ u = IF clear = 1 THEN 0 ELSE d.upload
  OBVIOUS
<1>2. DOMAIN d = Parts
  BY DEF Whole
<1>3. e = [d EXCEPT !.reply = r, !.timeout = FALSE, !.upload = u]
  BY <1>1, <1>2 DEF StatusRead, Parts
<1>4. /\ DOMAIN e = Parts /\ e.reply = r /\ e.timeout = FALSE /\ e.upload = u
      /\ \A q \in Parts \ {"reply", "timeout", "upload"} : e[q] = d[q]
  BY <1>2, <1>3 DEF Parts
<1>5. /\ SamePins(d, e) /\ e.asserted = d.asserted /\ e.PMCLR = d.PMCLR
      /\ e.tap = d.tap /\ e.missed = d.missed /\ e.cpu = d.cpu
      /\ e.protected = d.protected /\ e.expects = d.expects
      /\ e.download = d.download /\ e.dry = d.dry
  BY <1>4 DEF SamePins, Parts
<1>6. Whole(e)
  BY <1>4, <1>5 DEF Whole, SamePins
<1>7. InStep(d) => InStep(e)
  BY <1>5, SameReaches DEF InStep
<1>8. Calms(d, e)
  BY <1>5, <1>6, <1>7 DEF Calms
<1> QED
  BY <1>1, <1>4, <1>5, <1>7, <1>8, KeepsOf DEF StatusOf

\* Each command of a packet leads from a device in K to one in K.
SeesTo(steps, n, f, K) ==
    /\ \A x \in f[0] : x \in K[0]
    /\ \A i \in 1 .. n : \A x \in f[i - 1] : \A y \in f[i] :
           x \in K[i - 1] /\ (IF x.timeout THEN y = x ELSE y \in Simple(x, steps[i]))
               => y \in K[i]

\* Then all the devices along it are there.
LEMMA AllAlong ==
  ASSUME NEW d, NEW c, NEW steps, NEW n \in Nat, NEW f, PacketRun(d, c, steps, n, f),
         NEW K, SeesTo(steps, n, f, K)
  PROVE  \A i \in 0 .. n : \A x \in f[i] : x \in K[i]
<1> DEFINE S == {m \in 0 .. n : \A x \in f[m] : x \in K[m]}
<1>1. 0 \in S
  <2>1. \A x \in f[0] : x \in K[0]
    BY Zenon DEF SeesTo
  <2> QED
    BY <2>1
<1>2. ASSUME NEW m \in 0 .. n - 1, m \in S PROVE m + 1 \in S
  <2>1. m + 1 \in 1 .. n /\ (m + 1) - 1 = m
    OBVIOUS
  <2>2. ASSUME NEW y \in f[m + 1] PROVE y \in K[m + 1]
    <3>1. \A z \in f[m + 1] : \E x \in f[(m + 1) - 1] :
              IF x.timeout THEN z = x ELSE z \in Simple(x, steps[m + 1])
      BY <2>1, Zenon DEF PacketRun
    <3>2. PICK x \in f[m] : IF x.timeout THEN y = x ELSE y \in Simple(x, steps[m + 1])
      BY <2>1, <2>2, <3>1, Zenon
    <3>3. x \in K[m]
      BY <1>2
    <3>4. \A i \in 1 .. n : \A v \in f[i - 1] : \A z \in f[i] :
              v \in K[i - 1] /\ (IF v.timeout THEN z = v ELSE z \in Simple(v, steps[i]))
                  => z \in K[i]
      BY Zenon DEF SeesTo
    <3> QED
      BY <2>1, <2>2, <3>2, <3>3, <3>4, Zenon
  <2> QED
    BY <2>1, <2>2
<1>3. \A i \in 0 .. n : i \in S
  <2> HIDE DEF S
  <2>1. \A i \in 0 .. n - 1 : i \in S => i + 1 \in S
    BY <1>2
  <2> QED
    BY <1>1, <2>1, UpTo
<1> QED
  BY <1>3

\* What a packet starts from.
LEMMA Starts ==
  ASSUME NEW d, Whole(d), NEW c, NEW steps, NEW n, NEW f,
         PacketRun(d, c, steps, n, f), NEW x \in f[0]
  PROVE  Notes(d, x) /\ x.timeout = FALSE
<1>1. x = [d EXCEPT !.timeout = FALSE]
  BY Zenon DEF PacketRun
<1> QED
  BY <1>1, Remembers

\* e is x but for the program's knowledge of timeouts, which d started with.
Told(d, x, e) ==
    Whole(x) => /\ Notes(x, e) /\ (d.timeout => e.timeout)
                /\ (~ d.timeout => (e.timeout <=> x.timeout))

\* What a packet ends with.
LEMMA Ends ==
  ASSUME NEW d, NEW c, NEW steps, NEW n, NEW f,
         PacketRun(d, c, steps, n, f), NEW e \in Effect(d, c)
  PROVE  \E x \in f[n] : Told(d, x, e)
<1>1. PICK x \in f[n] : e = [x EXCEPT !.timeout = x.timeout \/ d.timeout]
  BY Zenon DEF PacketRun
<1>2. PICK t : t = (x.timeout \/ d.timeout)
  OBVIOUS
<1>3. e = [x EXCEPT !.timeout = t]
  BY <1>1, <1>2, Zenon
<1>4. Whole(x) => Notes(x, e) /\ e.timeout = t
  BY <1>3, Remembers
<1>5. Told(d, x, e)
  BY <1>2, <1>4 DEF Told
<1> QED
  BY <1>5

\* The commands of a packet, or the one command, are of the kind in question.
LEMMA StepsOf ==
  ASSUME NEW T, \A s \in T : s.op # "Packet",
         NEW c \in T \cup [op : {"Packet"}, arg : Seq(T)]
  PROVE  \E steps, n : /\ steps = IF c.op = "Packet" THEN c.arg ELSE <<c>>
                       /\ n \in Nat /\ n = Len(steps)
                       /\ \A i \in 1 .. n : steps[i] \in T
<1>1. PICK steps : steps = IF c.op = "Packet" THEN c.arg ELSE <<c>>
  OBVIOUS
<1>2. steps \in Seq(T)
  <2>1. CASE c \in T
    <3>1. c.op # "Packet"
      BY <2>1
    <3> QED
      BY <1>1, <2>1, <3>1
  <2>2. CASE c \in [op : {"Packet"}, arg : Seq(T)]
    BY <1>1, <2>2
  <2> QED
    BY <2>1, <2>2
<1>3. Len(steps) \in Nat /\ \A i \in 1 .. Len(steps) : steps[i] \in T
  BY <1>2
<1> QED
  BY <1>1, <1>3

\* None of those kinds has packets.
LEMMA NoPacket ==
  /\ \A s \in CalmSteps : s.op # "Packet"
  /\ \A s \in HeldSteps : s.op # "Packet"
  /\ \A s \in PinnedSteps : s.op # "Packet"
  /\ \A s \in SpareSteps : s.op # "Packet"
BY DEF CalmSteps, HeldSteps, PinnedSteps, SpareSteps, Numbered

\* What a packet that keeps a port in step does besides: p, it leaves the power
\* alone; h, it does not have the MTAP hold the processor in reset either.
KeepsSo(d, p, h, e) == Keeps(d, e) /\ (p => Calms(d, e)) /\ (h => Handles(d, e))

\* The packets of calm commands.
LEMMA CalmAlong ==
  ASSUME NEW d, Whole(d), NEW c, NEW steps, NEW n \in Nat, NEW p, NEW h,
         steps = IF c.op = "Packet" THEN c.arg ELSE <<c>>, n = Len(steps),
         \A i \in 1 .. n : /\ steps[i] \in CalmSteps /\ (p => steps[i] \in PinnedSteps)
                           /\ (h => steps[i] \in HeldSteps),
         NEW e \in Effect(d, c)
  PROVE  KeepsSo(d, p, h, e)
<1>2. PICK f : PacketRun(d, c, steps, n, f)
  BY EffectPath
<1> DEFINE K == [i \in 0 .. n |-> {x \in f[i] : KeepsSo(d, p, h, x)}]
<1>3. \A x \in f[0] : KeepsSo(d, p, h, x)
  BY <1>2, Starts, NotesKeep DEF KeepsSo
<1>4. ASSUME NEW i \in 1 .. n, NEW x \in f[i - 1], NEW y \in f[i], KeepsSo(d, p, h, x),
             IF x.timeout THEN y = x ELSE y \in Simple(x, steps[i])
      PROVE  KeepsSo(d, p, h, y)
  <2>1. PICK s : /\ s = steps[i] /\ s \in CalmSteps /\ (p => s \in PinnedSteps)
                 /\ (h => s \in HeldSteps)
    OBVIOUS
  <2>2. y = x \/ y \in Simple(x, s)
    BY <1>4, <2>1, Zenon
  <2>3. y = x \/ Kept(x, s, y)
    BY <1>4, <2>1, <2>2, CalmSimple DEF KeepsSo, Keeps
  <2>4. y = x \/ (Keeps(x, y) /\ (p => Calms(x, y)) /\ (h => Handles(x, y)))
    BY <2>1, <2>3 DEF Kept, PinnedSteps
  <2> QED
    BY <1>4, <2>4, KeepsOn, CalmsOn, HandlesOn DEF KeepsSo
<1>5. \A i \in 0 .. n : \A x \in f[i] : x \in K[i]
  <2>1. \A x \in f[0] : x \in K[0]
    BY <1>3
  <2>2. ASSUME NEW i \in 1 .. n, NEW x \in f[i - 1], NEW y \in f[i], x \in K[i - 1],
               IF x.timeout THEN y = x ELSE y \in Simple(x, steps[i])
        PROVE  y \in K[i]
    <3>1. i \in 0 .. n /\ i - 1 \in 0 .. n
      OBVIOUS
    <3>2. KeepsSo(d, p, h, x)
      BY <2>2, <3>1
    <3>3. KeepsSo(d, p, h, y)
      BY <1>4, <2>2, <3>2, Zenon
    <3> QED
      BY <3>1, <3>3
  <2> HIDE DEF K
  <2>3. SeesTo(steps, n, f, K)
    BY <2>1, <2>2, Zenon DEF SeesTo
  <2> QED
    BY <1>2, <2>3, AllAlong, ZenonT(60)
<1>6. \A x \in f[n] : KeepsSo(d, p, h, x) /\ Whole(x)
  <2>1. n \in 0 .. n
    OBVIOUS
  <2>2. \A x \in f[n] : x \in K[n]
    BY <1>5, <2>1, Zenon
  <2> QED
    BY <2>1, <2>2 DEF Keeps, KeepsSo
<1>7. PICK x \in f[n] : Told(d, x, e)
  BY <1>2, Ends
<1> QED
  BY <1>6, <1>7, NotesKeep, KeepsOn, CalmsOn, HandlesOn DEF Told, KeepsSo

\* A calm command keeps a port in step.
THEOREM CalmEffect ==
  \A d : \A c \in CalmCommands : \A e \in Effect(d, c) : Whole(d) => Keeps(d, e)
<1> SUFFICES ASSUME NEW d, NEW c \in CalmCommands, NEW e \in Effect(d, c), Whole(d)
             PROVE  Keeps(d, e)
  OBVIOUS
<1>1. PICK steps, n : /\ steps = IF c.op = "Packet" THEN c.arg ELSE <<c>>
                      /\ n \in Nat /\ n = Len(steps)
                      /\ \A i \in 1 .. n : steps[i] \in CalmSteps
  BY NoPacket, StepsOf DEF CalmCommands
<1>2. \A i \in 1 .. n : /\ steps[i] \in CalmSteps /\ (FALSE => steps[i] \in PinnedSteps)
                        /\ (FALSE => steps[i] \in HeldSteps)
  BY <1>1
<1>3. KeepsSo(d, FALSE, FALSE, e)
  BY <1>1, <1>2, CalmAlong
<1> QED
  BY <1>3 DEF KeepsSo

\* When it leaves the power alone it leaves the pins alone.
LEMMA PinnedEffect ==
  \A d : \A c \in PinnedCommands : \A e \in Effect(d, c) : Whole(d) => Calms(d, e)
<1> SUFFICES ASSUME NEW d, NEW c \in PinnedCommands, NEW e \in Effect(d, c), Whole(d)
             PROVE  Calms(d, e)
  OBVIOUS
<1>1. PICK steps, n : /\ steps = IF c.op = "Packet" THEN c.arg ELSE <<c>>
                      /\ n \in Nat /\ n = Len(steps)
                      /\ \A i \in 1 .. n : steps[i] \in PinnedSteps
  BY NoPacket, StepsOf DEF PinnedCommands
<1>2. \A i \in 1 .. n : /\ steps[i] \in CalmSteps /\ (TRUE => steps[i] \in PinnedSteps)
                        /\ (FALSE => steps[i] \in HeldSteps)
  BY <1>1 DEF PinnedSteps
<1>3. KeepsSo(d, TRUE, FALSE, e)
  BY <1>1, <1>2, CalmAlong
<1> QED
  BY <1>3 DEF KeepsSo

\* And the processor is not held in reset by way of the MTAP.
LEMMA HeldEffect ==
  \A d : \A c \in HeldCommands : \A e \in Effect(d, c) : Whole(d) => Handles(d, e)
<1> SUFFICES ASSUME NEW d, NEW c \in HeldCommands, NEW e \in Effect(d, c), Whole(d)
             PROVE  Handles(d, e)
  OBVIOUS
<1>1. PICK steps, n : /\ steps = IF c.op = "Packet" THEN c.arg ELSE <<c>>
                      /\ n \in Nat /\ n = Len(steps)
                      /\ \A i \in 1 .. n : steps[i] \in HeldSteps
  BY NoPacket, StepsOf DEF HeldCommands
<1>2. \A i \in 1 .. n : /\ steps[i] \in CalmSteps /\ (FALSE => steps[i] \in PinnedSteps)
                        /\ (TRUE => steps[i] \in HeldSteps)
  BY <1>1 DEF HeldSteps
<1>3. KeepsSo(d, FALSE, TRUE, e)
  BY <1>1, <1>2, CalmAlong
<1> QED
  BY <1>3 DEF KeepsSo

\* A device of which a packet spares the port, whatever it does to the pins.
Spared(d, e) ==
    /\ Whole(e) /\ e.missed = d.missed /\ SameTarget(d, e)
    /\ (e.asserted => d.asserted)
SparedSo(d, p, e) == Spared(d, e) /\ (p => SameMode(d, e))

\* One such device after another.
LEMMA SparedOn ==
  ASSUME NEW p, NEW a, NEW b, NEW c, SparedSo(a, p, b), SparedSo(b, p, c)
  PROVE  SparedSo(a, p, c)
BY DEF SparedSo, Spared, SameTarget, SameMode

\* A device spared, but for what the program knows.
LEMMA NotesSpare ==
  ASSUME NEW p, NEW d, Whole(d), NEW e, Notes(d, e)
  PROVE  SparedSo(d, p, e)
BY NotesKeep DEF SparedSo, Spared, SameMode, SamePins

\* Commands that besides neither change the wires nor leave programming mode.
LineSteps == {c \in SpareSteps : c.op \notin {"SetWiresMode", "ExitPgmMode"}}
LineCommands == LineSteps \cup [op : {"Packet"}, arg : Seq(LineSteps)]

\* The packets of commands that spare a device.
LEMMA SpareAlong ==
  ASSUME NEW d, Whole(d), NEW c, NEW steps, NEW n \in Nat, NEW p,
         steps = IF c.op = "Packet" THEN c.arg ELSE <<c>>, n = Len(steps),
         \A i \in 1 .. n : steps[i] \in SpareSteps /\ (p => steps[i] \in LineSteps),
         NEW e \in Effect(d, c)
  PROVE  SparedSo(d, p, e)
<1>2. PICK f : PacketRun(d, c, steps, n, f)
  BY EffectPath
<1> DEFINE K == [i \in 0 .. n |-> {x \in f[i] : SparedSo(d, p, x)}]
<1>3. \A x \in f[0] : SparedSo(d, p, x)
  BY <1>2, Starts, NotesSpare
<1>4. ASSUME NEW i \in 1 .. n, NEW x \in f[i - 1], NEW y \in f[i], SparedSo(d, p, x),
             IF x.timeout THEN y = x ELSE y \in Simple(x, steps[i])
      PROVE  SparedSo(d, p, y)
  <2>1. PICK s : s = steps[i] /\ s \in SpareSteps /\ (p => s \in LineSteps)
    OBVIOUS
  <2>2. y = x \/ y \in Simple(x, s)
    BY <1>4, <2>1, Zenon
  <2>3. y = x \/ SparedSo(x, p, y)
    BY <1>4, <2>1, <2>2, SpareSimple DEF SparedSo, Spared, Leaves, LineSteps
  <2> QED
    BY <1>4, <2>3, SparedOn
<1>5. \A i \in 0 .. n : \A x \in f[i] : x \in K[i]
  <2>1. \A x \in f[0] : x \in K[0]
    BY <1>3
  <2>2. ASSUME NEW i \in 1 .. n, NEW x \in f[i - 1], NEW y \in f[i], x \in K[i - 1],
               IF x.timeout THEN y = x ELSE y \in Simple(x, steps[i])
        PROVE  y \in K[i]
    <3>1. i \in 0 .. n /\ i - 1 \in 0 .. n
      OBVIOUS
    <3>2. SparedSo(d, p, x)
      BY <2>2, <3>1
    <3>3. SparedSo(d, p, y)
      BY <1>4, <2>2, <3>2, Zenon
    <3> QED
      BY <3>1, <3>3
  <2> HIDE DEF K
  <2>3. SeesTo(steps, n, f, K)
    BY <2>1, <2>2, Zenon DEF SeesTo
  <2> QED
    BY <1>2, <2>3, AllAlong, ZenonT(60)
<1>6. \A x \in f[n] : SparedSo(d, p, x) /\ Whole(x)
  <2>1. n \in 0 .. n
    OBVIOUS
  <2>2. \A x \in f[n] : x \in K[n]
    BY <1>5, <2>1, Zenon
  <2> QED
    BY <2>1, <2>2 DEF SparedSo, Spared
<1>7. PICK x \in f[n] : Told(d, x, e)
  BY <1>2, Ends
<1> QED
  BY <1>6, <1>7, NotesSpare, SparedOn DEF Told

\* A sparing command misses no instruction.
LEMMA SpareEffect ==
  \A d : \A c \in SpareCommands : \A e \in Effect(d, c) : Whole(d) => Spared(d, e)
<1> SUFFICES ASSUME NEW d, NEW c \in SpareCommands, NEW e \in Effect(d, c), Whole(d)
             PROVE  Spared(d, e)
  OBVIOUS
<1>1. PICK steps, n : /\ steps = IF c.op = "Packet" THEN c.arg ELSE <<c>>
                      /\ n \in Nat /\ n = Len(steps)
                      /\ \A i \in 1 .. n : steps[i] \in SpareSteps
  BY NoPacket, StepsOf DEF SpareCommands
<1>2. \A i \in 1 .. n : steps[i] \in SpareSteps /\ (FALSE => steps[i] \in LineSteps)
  BY <1>1
<1>3. SparedSo(d, FALSE, e)
  BY <1>1, <1>2, SpareAlong
<1> QED
  BY <1>3 DEF SparedSo

\* One of the lines alone keeps the wires and the mode.
LEMMA LineEffect ==
  \A d : \A c \in LineCommands : \A e \in Effect(d, c) : Whole(d) =>
      Spared(d, e) /\ SameMode(d, e)
<1> SUFFICES ASSUME NEW d, NEW c \in LineCommands, NEW e \in Effect(d, c), Whole(d)
             PROVE  Spared(d, e) /\ SameMode(d, e)
  OBVIOUS
<1>1. PICK steps, n : /\ steps = IF c.op = "Packet" THEN c.arg ELSE <<c>>
                      /\ n \in Nat /\ n = Len(steps)
                      /\ \A i \in 1 .. n : steps[i] \in LineSteps
  <2>1. \A s \in LineSteps : s.op # "Packet"
    BY NoPacket DEF LineSteps
  <2> QED
    BY <2>1, StepsOf DEF LineCommands
<1>2. \A i \in 1 .. n : steps[i] \in SpareSteps /\ (TRUE => steps[i] \in LineSteps)
  BY <1>1 DEF LineSteps
<1>3. SparedSo(d, TRUE, e)
  BY <1>1, <1>2, SpareAlong
<1> QED
  BY <1>3 DEF SparedSo

-----------------------------------------------------------------------------
(* A port that cannot be reached.                                          *)

\* Clocks do not get to it.
LEMMA ClocksNot ==
  ASSUME NEW d, ~ Reaches(d), NEW bits PROVE Clocks(d, bits) = d
BY Zenon DEF Clocks

\* What follows the pins, part by part.
LEMMA SettledParts ==
  ASSUME NEW d, DOMAIN d = Parts, NEW e, e = Settled(d)
  PROVE  /\ DOMAIN e = Parts
         /\ \A q \in Parts \ {"cpu", "expects", "left", "loaded"} : e[q] = d[q]
<1>1. CASE e = d
  BY <1>1
<1>2. ASSUME NEW cpu, e = [d EXCEPT !.cpu = cpu, !.expects = "address",
                                    !.left = 0, !.loaded = 0]
      PROVE  /\ DOMAIN e = Parts
             /\ \A q \in Parts \ {"cpu", "expects", "left", "loaded"} : e[q] = d[q]
  BY <1>2 DEF Parts
<1> QED
  BY <1>1, <1>2, SettledIs

\* Commands of which nothing comes then.
Echoing ==
    {c \in HeldSteps : c.op \in {"SetMode", "SendCommand", "XferData8", "XferWord"}}

\* The port is as before.
LEMMA Silent ==
  ASSUME NEW d, Whole(d), ~ Reaches(d), NEW c \in Echoing, NEW e \in Simple(d, c)
  PROVE  e.tap = d.tap
<1>1. PICK a : a = c.arg
  OBVIOUS
<1>2. DOMAIN d = Parts
  BY DEF Whole
<1>3. CASE c.op = "SetMode"
  <2>1. e = Clocks(d, SetMode(31, a))
    BY <1>1, <1>3, Zenon DEF Simple, Looks
  <2> QED
    BY <2>1, ClocksNot, Zenon
<1>4. CASE c.op = "SendCommand"
  <2>1. e = Does(d, "SendCommand", a)
    BY <1>1, <1>4, Zenon DEF Simple, Sends, Looks
  <2>2. PICK x : x = Clocks(d, SendCommand(a))
    OBVIOUS
  <2>3. PICK m : m = (x.missed \/ (Reaches(d) /\ d.tap.state # "Idle"))
    OBVIOUS
  <2>4. e = [x EXCEPT !.missed = m]
    BY <2>1, <2>2, <2>3, DoesIs, Zenon
  <2>5. x = d
    BY <2>2, ClocksNot, Zenon
  <2> QED
    BY <1>2, <2>4, <2>5 DEF Parts
<1>5. CASE c.op = "XferData8"
  <2>1. PICK x : x = Commanded(d, d, a)
    OBVIOUS
  <2>2. e = Uploads(Does(d, "XferData", a), 1)
    BY <1>1, <1>5, Zenon DEF Simple, Commands, Looks
  <2>3. Does(d, "XferData", a) = Commanded(d, Clocks(d, XferData(Byte(a))), a)
    BY DoesIs
  <2>4. Clocks(d, XferData(Byte(a))) = d
    BY ClocksNot, Zenon
  <2>5. e = Uploads(x, 1)
    BY <2>1, <2>2, <2>3, <2>4, Zenon
  <2>6. PICK taken : taken = (Reaches(d) /\ d.tap.state = "Idle" /\ d.tap.sel = "MTAP"
                                         /\ d.tap.ir = COMMAND)
    OBVIOUS
  <2>7. PICK b, q : /\ b = ((d.asserted \/ (taken /\ a = 209)) /\ ~ (taken /\ a = 208))
                    /\ q = (d.protected /\ ~ (taken /\ a = 252))
    OBVIOUS
  <2>8. PICK f : f = [d EXCEPT !.asserted = b, !.protected = q]
    OBVIOUS
  <2>9. x = Settled(f)
    BY <2>1, <2>6, <2>7, <2>8, ZenonT(60) DEF Commanded
  <2>10. DOMAIN f = Parts /\ f.tap = d.tap
    BY <1>2, <2>8 DEF Parts
  <2>11. DOMAIN x = Parts /\ x.tap = d.tap
    BY <2>9, <2>10, SettledParts DEF Parts
  <2>12. PICK k : k = x.upload + 1
    OBVIOUS
  <2>13. e = [x EXCEPT !.upload = k]
    BY <2>5, <2>12, Zenon DEF Uploads
  <2> QED
    BY <2>11, <2>13 DEF Parts
<1>6. CASE c.op = "XferWord"
  <2>1. e = Does(d, "XferWord", 0)
    BY <1>6, Zenon DEF Simple, XferWord, Looks
  <2>2. e = Clocks(d, XferData(Word))
    BY <2>1, DoesIs, Zenon
  <2> QED
    BY <2>2, ClocksNot, Zenon
<1> QED
  BY <1>3, <1>4, <1>5, <1>6 DEF Echoing

\* The commands of the two-wire connector's lines, which no port notices.
PinSteps ==
    {c \in SpareSteps : c.op \in {"Ground", "Raise", "Release", "Signature", "ClearUpload"}}

\* The port and the power are as before.
LEMMA PinTap ==
  ASSUME NEW d, Whole(d), NEW c \in PinSteps, NEW e \in Simple(d, c)
  PROVE  e.tap = d.tap /\ e.vdd = d.vdd
<1>1. DOMAIN d = Parts
  BY DEF Whole
<1>2. CASE c.op = "Ground"
  <2>1. PICK f : f = [d EXCEPT !.driven = @ \cup {"ICSP"}, !.PMCLR = 0, !.icsp = FALSE]
    OBVIOUS
  <2>2. e = Settled(f)
    BY <1>2, <2>1, Zenon DEF Simple, Ground, Looks
  <2>3. DOMAIN f = Parts /\ f.tap = d.tap /\ f.vdd = d.vdd
    BY <1>1, <2>1 DEF Parts
  <2> QED
    BY <2>2, <2>3, SettledParts DEF Parts
<1>3. CASE c.op = "Raise"
  <2>1. PICK f : f = [d EXCEPT !.driven = @ \cup {"ICSP"}, !.PMCLR = 1]
    OBVIOUS
  <2>2. e = Settled(f)
    BY <1>3, <2>1, Zenon DEF Simple, Raise, Looks
  <2>3. DOMAIN f = Parts /\ f.tap = d.tap /\ f.vdd = d.vdd
    BY <1>1, <2>1 DEF Parts
  <2> QED
    BY <2>2, <2>3, SettledParts DEF Parts
<1>4. CASE c.op = "Release"
  <2>1. PICK f : f = [d EXCEPT !.driven = @ \ {"ICSP"}]
    OBVIOUS
  <2>2. e = Settled(f)
    BY <1>4, <2>1, Zenon DEF Simple, Release, Looks
  <2>3. DOMAIN f = Parts /\ f.tap = d.tap /\ f.vdd = d.vdd
    BY <1>1, <2>1 DEF Parts
  <2> QED
    BY <2>2, <2>3, SettledParts DEF Parts
<1>5. CASE c.op = "Signature"
  <2>1. PICK b : b = (d.PMCLR = 0)
    OBVIOUS
  <2>2. e = [d EXCEPT !.icsp = b]
    BY <1>5, <2>1, Zenon DEF Simple, Signature, Looks
  <2> QED
    BY <1>1, <2>2 DEF Parts
<1>6. CASE c.op = "ClearUpload"
  <2>1. e = [d EXCEPT !.upload = 0]
    BY <1>6, Zenon DEF Simple, Looks
  <2> QED
    BY <1>1, <2>1 DEF Parts
<1> QED
  BY <1>2, <1>3, <1>4, <1>5, <1>6 DEF PinSteps

\* Where the reset is command k of a packet, a device after m of its commands.
Past(d, k, m, x) ==
    /\ Spared(d, x) /\ SameMode(d, x)
    /\ m < k => x.timeout = FALSE /\ x.tap = d.tap
    /\ m >= k => InStep(x) /\ (~ Reaches(x) => x.tap = d.tap)

\* What a packet makes of a port when it works the lines, resets the port and goes
\* on with calm commands: no command before the reset can time out, and the port is
\* in step afterwards, or out of reach and as it was.
THEOREM ResetEffect ==
  ASSUME NEW d, Whole(d), NEW c, c.op = "Packet", NEW steps, steps = c.arg,
         NEW n \in Nat, n = Len(steps), NEW k \in 1 .. n,
         \A i \in 1 .. k - 1 : steps[i] \in PinSteps,
         steps[k] = Do("SetMode", 6),
         \A i \in k + 1 .. n : steps[i] \in Echoing,
         NEW e \in Effect(d, c)
  PROVE  /\ Spared(d, e) /\ SameMode(d, e) /\ InStep(e)
         /\ (~ Reaches(e) => e.tap = d.tap)
<1>1. steps = IF c.op = "Packet" THEN c.arg ELSE <<c>>
  OBVIOUS
<1>2. PICK f : PacketRun(d, c, steps, n, f)
  BY <1>1, EffectPath
<1> DEFINE K == [i \in 0 .. n |-> {x \in f[i] : Past(d, k, i, x)}]
<1>3. ASSUME NEW x \in f[0] PROVE Past(d, k, 0, x)
  <2>1. Notes(d, x) /\ x.timeout = FALSE
    BY <1>2, <1>3, Starts
  <2>2. Spared(d, x) /\ SameMode(d, x)
    BY <2>1, NotesSpare DEF SparedSo
  <2>3. x.tap = d.tap
    BY <2>1, NotesKeep
  <2> QED
    BY <2>1, <2>2, <2>3 DEF Past
<1>4. ASSUME NEW i \in 1 .. n, NEW x \in f[i - 1], NEW y \in f[i], Past(d, k, i - 1, x),
             IF x.timeout THEN y = x ELSE y \in Simple(x, steps[i])
      PROVE  Past(d, k, i, y)
  <2>1. PICK s : s = steps[i]
    OBVIOUS
  <2>2. IF x.timeout THEN y = x ELSE y \in Simple(x, s)
    BY <1>4, <2>1, Zenon
  <2>3. Spared(d, x) /\ SameMode(d, x) /\ Whole(x)
    BY <1>4 DEF Past, Spared
  <2>4. CASE i < k
    <3>1. s \in PinSteps /\ y \in Simple(x, s) /\ x.timeout = FALSE /\ x.tap = d.tap
      BY <1>4, <2>1, <2>2, <2>4 DEF Past
    <3>2. Leaves(x, y) /\ SameMode(x, y)
      BY <2>3, <3>1, SpareSimple DEF PinSteps
    <3>3. y.tap = x.tap
      BY <2>3, <3>1, PinTap
    <3> QED
      BY <2>3, <2>4, <3>1, <3>2, <3>3
      DEF Leaves, Past, Spared, SameMode, SameTarget
  <2>5. CASE i = k
    <3>1. s = Do("SetMode", 6) /\ y \in Simple(x, s) /\ x.tap = d.tap
      BY <1>4, <2>1, <2>2, <2>5 DEF Past
    <3>2. s.op = "SetMode" /\ s.arg = 6
      BY <3>1 DEF Do
    <3>3. y = Clocks(x, SetMode(31, 6))
      BY <3>1, <3>2, Zenon DEF Simple, Looks
    <3>4. Spares(x, y) /\ InStep(y) /\ Works(x, y)
      BY <2>3, <3>3, ResetsSpare
    <3>5. Reaches(y) = Reaches(x) /\ SameMode(x, y)
      BY <3>4, SameReaches DEF Works, Moves, Calms, SamePins, SameMode
    <3>6. ~ Reaches(x) => y = x
      BY <3>3, ClocksNot, Zenon
    <3> QED
      BY <2>3, <2>5, <3>1, <3>4, <3>5, <3>6
      DEF Spares, Leaves, Past, Spared, SameMode, SameTarget
  <2>6. CASE i > k
    <3>1. s \in Echoing /\ InStep(x) /\ (~ Reaches(x) => x.tap = d.tap)
      BY <1>4, <2>1, <2>6 DEF Past
    <3>2. CASE y = x
      BY <2>3, <2>6, <3>1, <3>2 DEF Past
    <3>3. CASE y \in Simple(x, s)
      <4>1. Kept(x, s, y)
        BY <2>3, <3>1, <3>3, CalmSimple DEF Echoing, HeldSteps
      <4>2. Handles(x, y) /\ Keeps(x, y)
        BY <3>1, <4>1 DEF Kept, Echoing
      <4>3. Reaches(y) = Reaches(x) /\ InStep(y) /\ y.missed = x.missed
        BY <3>1, <4>2, SameReaches DEF Handles, Calms
      <4>4. ~ Reaches(x) => y.tap = x.tap
        BY <2>3, <3>1, <3>3, Silent
      <4> QED
        BY <2>3, <2>6, <3>1, <4>2, <4>3, <4>4
        DEF Handles, Keeps, Past, Spared, SameMode, SameTarget
    <3> QED
      BY <2>2, <3>2, <3>3
  <2> QED
    BY <2>4, <2>5, <2>6
<1>5. \A i \in 0 .. n : \A x \in f[i] : x \in K[i]
  <2>1. \A x \in f[0] : x \in K[0]
    BY <1>3
  <2>2. ASSUME NEW i \in 1 .. n, NEW x \in f[i - 1], NEW y \in f[i], x \in K[i - 1],
               IF x.timeout THEN y = x ELSE y \in Simple(x, steps[i])
        PROVE  y \in K[i]
    <3>1. i \in 0 .. n /\ i - 1 \in 0 .. n
      OBVIOUS
    <3>2. Past(d, k, i - 1, x)
      BY <2>2, <3>1
    <3>3. Past(d, k, i, y)
      BY <1>4, <2>2, <3>2, Zenon
    <3> QED
      BY <3>1, <3>3
  <2> HIDE DEF K
  <2>3. SeesTo(steps, n, f, K)
    BY <2>1, <2>2, Zenon DEF SeesTo
  <2> QED
    BY <1>2, <2>3, AllAlong, Zenon
<1>6. \A x \in f[n] : Past(d, k, n, x)
  <2>1. n \in 0 .. n
    OBVIOUS
  <2>2. \A x \in f[n] : x \in K[n]
    BY <1>5, <2>1, Zenon
  <2> QED
    BY <2>1, <2>2
<1>7. PICK x \in f[n] : Told(d, x, e)
  BY <1>2, Ends
<1>8. /\ Spared(d, x) /\ SameMode(d, x) /\ InStep(x) /\ (~ Reaches(x) => x.tap = d.tap)
  BY <1>6 DEF Past
<1>9. Whole(x) /\ Notes(x, e)
  BY <1>7, <1>8 DEF Told, Spared
<1>10. SamePins(x, e) /\ e.tap = x.tap /\ (InStep(x) => InStep(e)) /\ SparedSo(x, TRUE, e)
  BY <1>9, NotesKeep, NotesSpare
<1>11. Reaches(e) = Reaches(x)
  BY <1>10, SameReaches
<1> QED
  BY <1>8, <1>10, <1>11 DEF SparedSo, Spared, SameMode, SameTarget

-----------------------------------------------------------------------------
(* Single commands.                                                        *)

\* A command that is no packet, or alone in one, is one step.
LEMMA OneEffect ==
  ASSUME NEW d, Whole(d), NEW c, NEW s,
         <<s>> = IF c.op = "Packet" THEN c.arg ELSE <<c>>, NEW e \in Effect(d, c)
  PROVE  \E x, y : /\ Notes(d, x) /\ Whole(x) /\ y \in Simple(x, s)
                   /\ (Whole(y) => Notes(y, e))
<1>1. PICK steps, n : steps = <<s>> /\ n = 1
  OBVIOUS
<1>2. /\ steps = IF c.op = "Packet" THEN c.arg ELSE <<c>>
      /\ n \in Nat /\ n = Len(steps) /\ n \in 1 .. n /\ n - 1 = 0 /\ steps[n] = s
  BY <1>1
<1>3. PICK f : PacketRun(d, c, steps, n, f)
  BY <1>2, EffectPath
<1>4. PICK y \in f[n] : Told(d, y, e)
  BY <1>3, Ends
<1>5. PICK x \in f[0] : IF x.timeout THEN y = x ELSE y \in Simple(x, s)
  <2>1. n \in 1 .. n /\ n - 1 = 0 /\ steps[n] = s
    BY <1>2
  <2>2. \A i \in 1 .. n : \A z \in f[i] : \E x \in f[i - 1] :
            IF x.timeout THEN z = x ELSE z \in Simple(x, steps[i])
    BY <1>3, Zenon DEF PacketRun
  <2>3. PICK x \in f[n - 1] : IF x.timeout THEN y = x ELSE y \in Simple(x, steps[n])
    BY <2>1, <2>2, Zenon
  <2>4. x \in f[0] /\ (IF x.timeout THEN y = x ELSE y \in Simple(x, s))
    BY <2>1, <2>3, Zenon
  <2> QED
    BY <2>4, Zenon
<1>6. Notes(d, x) /\ x.timeout = FALSE
  BY <1>3, Starts
<1>7. Whole(x)
  BY <1>6, NotesKeep
<1>8. y \in Simple(x, s)
  BY <1>5, <1>6
<1> QED
  BY <1>4, <1>6, <1>7, <1>8 DEF Told

\* The same of a command that is no packet.
LEMMA PlainEffect ==
  ASSUME NEW d, Whole(d), NEW c, c.op # "Packet", NEW e \in Effect(d, c)
  PROVE  \E x, y : /\ Notes(d, x) /\ Whole(x) /\ y \in Simple(x, c)
                   /\ (Whole(y) => Notes(y, e))
<1>1. PICK s : s = c
  OBVIOUS
<1>2. <<s>> = IF c.op = "Packet" THEN c.arg ELSE <<c>>
  BY <1>1
<1> QED
  BY <1>1, <1>2, OneEffect

\* And of one alone in its packet.
LEMMA PackedEffect ==
  ASSUME NEW d, Whole(d), NEW c, NEW s, c.op = "Packet", c.arg = <<s>>,
         NEW e \in Effect(d, c)
  PROVE  \E x, y : /\ Notes(d, x) /\ Whole(x) /\ y \in Simple(x, s)
                   /\ (Whole(y) => Notes(y, e))
<1>1. <<s>> = IF c.op = "Packet" THEN c.arg ELSE <<c>>
  OBVIOUS
<1> QED
  BY <1>1, OneEffect

\* From one side of a step to the other nothing is lost.
LEMMA Around ==
  ASSUME NEW d, Whole(d), NEW x, Notes(d, x), NEW y, Spared(x, y), NEW e, Notes(y, e)
  PROVE  Spared(d, e) /\ (SameMode(x, y) => SameMode(d, e))
<1>1. SparedSo(d, TRUE, x) /\ Whole(y)
  BY NotesSpare DEF Spared
<1>2. SparedSo(y, TRUE, e)
  BY <1>1, NotesSpare
<1> QED
  BY <1>1, <1>2 DEF SparedSo, Spared, SameTarget, SameMode

\* The wires of the usbpic adapter.
LEMMA WiresEffect ==
  \A d : \A k \in {1, 2} : \A e \in Effect(d, Do("SetWiresMode", k)) : Whole(d) =>
      Spared(d, e) /\ e.wireMode = IF k = 1 THEN "ICSP" ELSE "JTAG"
<1> SUFFICES ASSUME NEW d, NEW k \in {1, 2}, Whole(d),
                    NEW c, c = Do("SetWiresMode", k), NEW e \in Effect(d, c)
             PROVE  Spared(d, e) /\ e.wireMode = IF k = 1 THEN "ICSP" ELSE "JTAG"
  OBVIOUS
<1>1. c.op = "SetWiresMode" /\ c.arg = k
  BY DEF Do
<1>2. PICK x, y : /\ Notes(d, x) /\ Whole(x) /\ y \in Simple(x, c)
                  /\ (Whole(y) => Notes(y, e))
  BY <1>1, PlainEffect
<1>3. PICK m : m = IF k = 1 THEN "ICSP" ELSE "JTAG"
  OBVIOUS
<1>4. y = SetWiresMode(x, m)
  BY <1>1, <1>2, <1>3, Zenon DEF Simple, Looks
<1>5. Spared(x, y) /\ Whole(y) /\ y.wireMode = m
  BY <1>2, <1>3, <1>4, WiresSpare DEF Spares, Leaves, Spared
<1>6. Spared(d, e)
  BY <1>2, <1>5, Around
<1>7. e.wireMode = y.wireMode
  BY <1>2, <1>5, NotesKeep DEF SamePins
<1> QED
  BY <1>3, <1>5, <1>6, <1>7

\* Its pins, with the wires as they are.
LEMMA SetupEffect ==
  \A d, k : \A e \in Effect(d, Do("SetupIOPorts", k)) : Whole(d) =>
      Spared(d, e) /\ SameMode(d, e)
<1> SUFFICES ASSUME NEW d, NEW k, Whole(d),
                    NEW c, c = Do("SetupIOPorts", k), NEW e \in Effect(d, c)
             PROVE  Spared(d, e) /\ SameMode(d, e)
  OBVIOUS
<1>1. c.op = "SetupIOPorts"
  BY DEF Do
<1>2. PICK x, y : /\ Notes(d, x) /\ Whole(x) /\ y \in Simple(x, c)
                  /\ (Whole(y) => Notes(y, e))
  BY <1>1, PlainEffect
<1>4. y = SetupIOPorts(x, c.arg = 1)
  BY <1>1, <1>2, Zenon DEF Simple, Looks
<1>5. Spared(x, y) /\ Whole(y) /\ SameMode(x, y)
  BY <1>2, <1>4, SetupSpares DEF Spares, Leaves, Spared
<1> QED
  BY <1>2, <1>5, Around

\* The entry into programming mode.
LEMMA EntryEffect ==
  \A d, k : \A e \in Effect(d, Do("EnterPgmMode", k)) : Whole(d) =>
      /\ Whole(e) /\ e.wireMode = d.wireMode /\ e.inPgmMode
      /\ SameTarget(d, e) /\ (e.asserted => d.asserted)
      /\ d.wireMode = "ICSP" => e.missed = d.missed
<1> SUFFICES ASSUME NEW d, NEW k, Whole(d),
                    NEW c, c = Do("EnterPgmMode", k), NEW e \in Effect(d, c)
             PROVE  /\ Whole(e) /\ e.wireMode = d.wireMode /\ e.inPgmMode
                    /\ SameTarget(d, e) /\ (e.asserted => d.asserted)
                    /\ d.wireMode = "ICSP" => e.missed = d.missed
  OBVIOUS
<1>1. c.op = "EnterPgmMode"
  BY DEF Do
<1>2. PICK x, y : /\ Notes(d, x) /\ Whole(x) /\ y \in Simple(x, c)
                  /\ (Whole(y) => Notes(y, e))
  BY <1>1, PlainEffect
<1>4. y = EnterPgmMode(x)
  BY <1>1, <1>2, Zenon DEF Simple, Looks
<1>5. /\ Whole(y) /\ y.wireMode = x.wireMode /\ y.inPgmMode
      /\ SameTarget(x, y) /\ (y.asserted => x.asserted)
      /\ x.wireMode = "ICSP" => y.missed = x.missed
  BY <1>2, <1>4, EnterSpares
<1>6. SparedSo(d, TRUE, x) /\ SparedSo(y, TRUE, e)
  BY <1>2, <1>5, NotesSpare
<1> QED
  BY <1>5, <1>6 DEF SparedSo, Spared, SameTarget, SameMode

\* The reset of the port.
LEMMA Reset5Effect ==
  \A d : \A e \in Effect(d, Reset5) : Whole(d) =>
      Spared(d, e) /\ SameMode(d, e) /\ SamePins(d, e) /\ InStep(e)
<1> SUFFICES ASSUME NEW d, Whole(d), NEW c, c = Reset5, NEW e \in Effect(d, c)
             PROVE  Spared(d, e) /\ SameMode(d, e) /\ SamePins(d, e) /\ InStep(e)
  OBVIOUS
<1>1. c.op = "SetMode" /\ c.arg = 6
  BY DEF Do, Reset5
<1>2. PICK x, y : /\ Notes(d, x) /\ Whole(x) /\ y \in Simple(x, c)
                  /\ (Whole(y) => Notes(y, e))
  BY <1>1, PlainEffect
<1>4. y = Clocks(x, SetMode(31, 6))
  BY <1>1, <1>2, Zenon DEF Simple, Looks
<1>5. Spared(x, y) /\ Whole(y) /\ InStep(y) /\ SamePins(x, y) /\ SameMode(x, y)
  BY <1>2, <1>4, ResetsSpare
  DEF Works, Moves, Calms, SamePins, SameMode, Spares, Leaves, Spared
<1>6. Spared(d, e) /\ SameMode(d, e)
  BY <1>2, <1>5, Around
<1>7. InStep(e) /\ SamePins(y, e) /\ SamePins(d, x)
  BY <1>2, <1>5, NotesKeep
<1> QED
  BY <1>5, <1>6, <1>7 DEF SamePins

\* The reset of the serial adapter, with the word behind it.
LEMMA ResetWordEffect ==
  \A d : \A send \in CalmSends : \A e \in Effect(d, Do("Bitbang", send)) :
      Whole(d) /\ send.nTms = 6 /\ send.tms = 31 /\ send.data = Word =>
          /\ Whole(e) /\ e.missed = d.missed /\ InStep(e)
          /\ SameTarget(d, e) /\ SameMode(d, e)
<1> SUFFICES ASSUME NEW d, NEW send \in CalmSends, Whole(d), send.nTms = 6,
                    send.tms = 31, send.data = Word,
                    NEW c, c = Do("Bitbang", send), NEW e \in Effect(d, c)
             PROVE  /\ Whole(e) /\ e.missed = d.missed /\ InStep(e)
                    /\ SameTarget(d, e) /\ SameMode(d, e)
  OBVIOUS
<1>1. c.op = "Bitbang" /\ c.arg = send
  BY DEF Do
<1>2. PICK x, y : /\ Notes(d, x) /\ Whole(x) /\ y \in Simple(x, c)
                  /\ (Whole(y) => Notes(y, e))
  BY <1>1, PlainEffect
<1>4. y = Bitbanged(x, send)
  BY <1>1, <1>2, Zenon DEF Simple, Looks
<1>5. Whole(y) /\ SamePins(x, y)
  BY <1>2, <1>4, BitbangedWorks DEF Works, Moves, Calms
<1>6. y.missed = x.missed /\ InStep(y)
  BY <1>2, <1>4, BitbangedSynchronises
<1>7. InStep(e) /\ SamePins(y, e) /\ Whole(e) /\ e.missed = y.missed
  BY <1>2, <1>5, <1>6, NotesKeep
<1>8. SamePins(d, x) /\ x.missed = d.missed
  BY <1>2, NotesKeep
<1> QED
  BY <1>5, <1>6, <1>7, <1>8 DEF SamePins, SameTarget, SameMode

\* Serial execution, from programming mode.
LEMMA SerialEffect ==
  \A d, k : \A e \in Effect(d, Do("SerialExecutionMode", k)) :
      Whole(d) /\ d.inPgmMode => Keeps(d, e) /\ Handles(d, e)
<1> SUFFICES ASSUME NEW d, NEW k, Whole(d), d.inPgmMode,
                    NEW c, c = Do("SerialExecutionMode", k), NEW e \in Effect(d, c)
             PROVE  Keeps(d, e) /\ Handles(d, e)
  OBVIOUS
<1>1. c.op = "SerialExecutionMode"
  BY DEF Do
<1>2. PICK x, y : /\ Notes(d, x) /\ Whole(x) /\ y \in Simple(x, c)
                  /\ (Whole(y) => Notes(y, e))
  BY <1>1, PlainEffect
<1>3. x.inPgmMode /\ Handles(d, x)
  BY <1>2, NotesKeep DEF SamePins
<1>4. y \in SerialExecutionMode(x, c.arg = 1)
  BY <1>1, <1>2, Zenon DEF Simple, Looks
<1>5. Works(x, y)
  BY <1>2, <1>3, <1>4, SerialWorks
<1>6. Handles(x, y) /\ Whole(y)
  BY <1>5, WorksHandles DEF Works, Moves, Calms
<1>7. Handles(y, e)
  BY <1>2, <1>6, NotesKeep
<1>8. Handles(d, e)
  BY <1>3, <1>6, <1>7, HandlesOn
<1> QED
  BY <1>8, KeepsOf DEF Handles

-----------------------------------------------------------------------------
(* What a close leaves.                                                    *)

\* The port is in reset, and so is the processor, or it has no power.
Parked(d) == d.tap.state = "Reset" /\ d.tap.boot = FALSE /\ d.cpu \in {"reset", "off"}

\* A line that holds the processor in reset does.
LEMMA SettledHeld ==
  ASSUME NEW d, DOMAIN d = Parts, InReset(d), NEW e, e = Settled(d)
  PROVE  e.cpu \in {"reset", "off"}
<1>1. PICK cpu : cpu = CASE ~ Powered(d) -> "off"
                         [] Powered(d) /\ InReset(d) -> "reset"
                         [] OTHER -> IF d.tap.boot THEN "debug" ELSE "run"
  BY Zenon
<1>2. e = [d EXCEPT !.cpu = cpu, !.expects = "address", !.left = 0, !.loaded = 0]
  BY <1>1, Zenon DEF Settled
<1>3. e.cpu = cpu
  BY <1>2 DEF Parts
<1>4. CASE Powered(d)
  BY <1>1, <1>3, <1>4, Zenon
<1>5. CASE ~ Powered(d)
  BY <1>1, <1>3, <1>5, Zenon
<1> QED
  BY <1>4, <1>5

\* One that has no power is off.
LEMMA SettledOff ==
  ASSUME NEW d, DOMAIN d = Parts, ~ Powered(d), NEW e, e = Settled(d)
  PROVE  e.cpu = "off"
<1>1. PICK cpu : cpu = CASE ~ Powered(d) -> "off"
                         [] Powered(d) /\ InReset(d) -> "reset"
                         [] OTHER -> IF d.tap.boot THEN "debug" ELSE "run"
  BY Zenon
<1>2. e = [d EXCEPT !.cpu = cpu, !.expects = "address", !.left = 0, !.loaded = 0]
  BY <1>1, Zenon DEF Settled
<1>3. e.cpu = cpu
  BY <1>2 DEF Parts
<1> QED
  BY <1>1, <1>3, Zenon

\* None of it shifts the port.
LEMMA SettledTap ==
  ASSUME NEW d, DOMAIN d = Parts, NEW e, e = Settled(d)
  PROVE  e.tap = d.tap
<1>1. "tap" \in Parts \ {"cpu", "expects", "left", "loaded"}
  BY DEF Parts
<1>2. \A q \in Parts \ {"cpu", "expects", "left", "loaded"} : e[q] = d[q]
  BY SettledParts
<1> QED
  BY <1>1, <1>2, Zenon

\* And one that is let go of runs its own program when EJTAGBOOT is not in force.
LEMMA SettledRuns ==
  ASSUME NEW d, DOMAIN d = Parts, ~ InReset(d), Powered(d), d.tap.boot = FALSE,
         d.cpu \in {"reset", "off"}, NEW e, e = Settled(d)
  PROVE  e.cpu = "run"
<1>1. PICK cpu : cpu = CASE ~ Powered(d) -> "off"
                         [] Powered(d) /\ InReset(d) -> "reset"
                         [] OTHER -> IF d.tap.boot THEN "debug" ELSE "run"
  BY Zenon
<1>2. e = [d EXCEPT !.cpu = cpu, !.expects = "address", !.left = 0, !.loaded = 0]
  BY <1>1, Zenon DEF Settled
<1>3. e.cpu = cpu
  BY <1>2 DEF Parts
<1>4. cpu = IF d.tap.boot THEN "debug" ELSE "run"
  BY <1>1, Zenon
<1> QED
  BY <1>3, <1>4

\* The shorter reset pattern leaves a port that it reaches in reset.
LEMMA ResetParks ==
  ASSUME NEW d, Whole(d), Reaches(d), NEW e, e = Clocks(d, SetMode(31, 5))
  PROVE  /\ SamePins(d, e) /\ SameRest(d, e) /\ Whole(e)
         /\ e.tap.state = "Reset" /\ e.tap.boot = FALSE
<1>1. PICK bits \in Seq(Clocking) : bits = PIC32_RESET
  BY ClockingOf
<1>2. e = Clocks(d, bits)
  BY <1>1, Zenon DEF PIC32_RESET
<1>3. /\ SamePins(d, e) /\ SameRest(d, e) /\ Whole(e) /\ e.tap = Clocked(d.tap, bits)
  BY <1>2, ClocksKeep
<1>4. d.tap.state \in TapState
  BY DEF Whole, Sound
<1>5. PICK t : t = Clocked(d.tap, PIC32_RESET)
  OBVIOUS
<1>6. t.state = "Reset" /\ t.boot = FALSE
  BY <1>4, <1>5, ResetSynchronises
<1>7. e.tap = t
  BY <1>1, <1>3, <1>5, Zenon
<1> QED
  BY <1>3, <1>6, <1>7

\* Leaving programming mode parks a port that it reaches.
LEMMA ExitParks ==
  ASSUME NEW d, Whole(d), Reaches(d), NEW e, e = ExitPgmMode(d)
  PROVE  Parked(e)
<1>1. PICK p : p = Clocks(d, SetMode(31, 5))
  OBVIOUS
<1>2. /\ SamePins(d, p) /\ Whole(p) /\ p.tap.state = "Reset" /\ p.tap.boot = FALSE
  BY <1>1, ResetParks
<1>3. PICK a, b : /\ a = [p EXCEPT !.MCLR = 0]
                  /\ b = [p EXCEPT !.PMCLR = 0, !.icsp = FALSE]
  OBVIOUS
<1>4. DOMAIN p = Parts
  BY <1>2 DEF Whole
<1>5. /\ DOMAIN a = Parts /\ a.driven = p.driven /\ a.wired = p.wired /\ a.MCLR = 0
      /\ a.tap = p.tap
  BY <1>3, <1>4 DEF Parts
<1>6. /\ DOMAIN b = Parts /\ b.driven = p.driven /\ b.wired = p.wired /\ b.PMCLR = 0
      /\ b.tap = p.tap
  BY <1>3, <1>4 DEF Parts
<1>7. d.wireMode \in p.driven \cap p.wired /\ d.wireMode \in {"JTAG", "ICSP"}
  BY <1>2 DEF Reaches, SamePins, Whole
<1>8. PICK low : low = IF d.wireMode = "JTAG" THEN a ELSE b
  OBVIOUS
<1>9. DOMAIN low = Parts /\ InReset(low) /\ low.tap = p.tap
  <2>1. CASE d.wireMode = "JTAG"
    BY <1>5, <1>7, <1>8, <2>1 DEF InReset
  <2>2. CASE d.wireMode = "ICSP"
    BY <1>6, <1>7, <1>8, <2>2 DEF InReset
  <2> QED
    BY <1>7, <2>1, <2>2
<1>10. PICK s : s = Settled(low)
  OBVIOUS
<1>11. s.cpu \in {"reset", "off"}
  BY <1>9, <1>10, SettledHeld
<1>12. DOMAIN s = Parts /\ s.tap = p.tap
  BY <1>9, <1>10, SettledParts DEF Parts
<1>13. e = [s EXCEPT !.inPgmMode = FALSE]
  BY <1>1, <1>3, <1>8, <1>10, Zenon DEF ExitPgmMode, PIC32_RESET
<1>14. e.tap = s.tap /\ e.cpu = s.cpu
  BY <1>12, <1>13 DEF Parts
<1> QED
  BY <1>2, <1>11, <1>12, <1>14 DEF Parked

\* It leaves the wires as they are, of a session of the usbpic adapter.
LEMMA ExitEffect ==
  \A d, k : \A e \in Effect(d, Do("ExitPgmMode", k)) : Whole(d) =>
      /\ Spared(d, e) /\ e.wireMode = d.wireMode /\ e.inPgmMode = FALSE
      /\ Reaches(d) => Parked(e)
<1> SUFFICES ASSUME NEW d, NEW k, Whole(d),
                    NEW c, c = Do("ExitPgmMode", k), NEW e \in Effect(d, c)
             PROVE  /\ Spared(d, e) /\ e.wireMode = d.wireMode /\ e.inPgmMode = FALSE
                    /\ Reaches(d) => Parked(e)
  OBVIOUS
<1>1. c.op = "ExitPgmMode"
  BY DEF Do
<1>2. PICK x, y : /\ Notes(d, x) /\ Whole(x) /\ y \in Simple(x, c)
                  /\ (Whole(y) => Notes(y, e))
  BY <1>1, PlainEffect
<1>3. y = ExitPgmMode(x)
  BY <1>1, <1>2, Zenon DEF Simple, Looks
<1>4. Spared(x, y) /\ Whole(y) /\ y.wireMode = x.wireMode /\ y.inPgmMode = FALSE
  BY <1>2, <1>3, ExitSpares DEF Spares, Leaves, Spared
<1>5. Spared(d, e)
  BY <1>2, <1>4, Around
<1>6. SamePins(d, x) /\ SamePins(y, e) /\ e.tap = y.tap /\ e.cpu = y.cpu
  BY <1>2, <1>4, NotesKeep
<1>7. ASSUME Reaches(d) PROVE Parked(e)
  <2>1. Reaches(x)
    BY <1>6, <1>7, SameReaches
  <2>2. Parked(y)
    BY <1>2, <1>3, <2>1, ExitParks
  <2> QED
    BY <1>6, <2>2 DEF Parked
<1> QED
  BY <1>4, <1>5, <1>6, <1>7 DEF SamePins

\* A connector that is let go of, of a target that has no other, lets it run.
LEMMA LetsGo ==
  ASSUME NEW d, Whole(d), Parked(d), ~ d.asserted,
         NEW m, d.wired = {m}, NEW f, DOMAIN f = Parts, f.driven = d.driven \ {m},
         \A q \in Parts \ {"driven"} : f[q] = d[q], NEW e, e = Settled(f)
  PROVE  /\ m \notin e.driven /\ e.tap = d.tap
         /\ Powered(d) => e.cpu = "run"
         /\ ~ Powered(d) => e.cpu = "off"
<1>1. /\ f.tap = d.tap /\ f.cpu = d.cpu /\ f.asserted = d.asserted /\ f.wired = d.wired
      /\ f.supply = d.supply /\ f.vdd = d.vdd /\ f.MCLR = d.MCLR /\ f.PMCLR = d.PMCLR
  BY DEF Parts
<1>2. DOMAIN e = Parts /\ e.tap = f.tap /\ e.driven = f.driven
  BY SettledParts DEF Parts
<1>3. Powered(f) = Powered(d)
  BY <1>1 DEF Powered
<1>4. f.driven \cap f.wired = {}
  BY <1>1
<1>5. ~ InReset(f)
  BY <1>1, <1>4 DEF InReset
<1>6. Powered(d) => e.cpu = "run"
  BY <1>1, <1>3, <1>5, SettledRuns DEF Parked
<1>7. ~ Powered(d) => e.cpu = "off"
  BY <1>3, SettledOff
<1> QED
  BY <1>1, <1>2, <1>6, <1>7

\* The usbpic adapter's pins, let go of with the port parked.
LEMMA SetupOffEffect ==
  ASSUME NEW d, Whole(d), Parked(d), ~ d.asserted, d.supply = "board",
         d.wired = {d.wireMode}, NEW e \in Effect(d, Do("SetupIOPorts", 0))
  PROVE  d.wireMode \notin e.driven /\ e.tap.state = "Reset" /\ e.cpu = "run"
<1>0. PICK c : c = Do("SetupIOPorts", 0)
  OBVIOUS
<1>1. c.op = "SetupIOPorts" /\ c.arg = 0
  BY <1>0 DEF Do
<1>2. PICK x, y : /\ Notes(d, x) /\ Whole(x) /\ y \in Simple(x, c)
                  /\ (Whole(y) => Notes(y, e))
  <2>1. e \in Effect(d, c)
    BY <1>0
  <2> QED
    BY <1>1, <2>1, PlainEffect
<1>3. y = SetupIOPorts(x, c.arg = 1)
  BY <1>1, <1>2, Zenon DEF Simple, Looks
<1>4. PICK f : f = [x EXCEPT !.driven = @ \ {x.wireMode}]
  OBVIOUS
<1>5. y = Settled(f)
  <2>1. (c.arg = 1) = FALSE
    BY <1>1
  <2> QED
    BY <1>3, <1>4, <2>1, Zenon DEF SetupIOPorts
<1>6. Whole(y)
  BY <1>2, <1>3, SetupSpares DEF Spares, Leaves
<1>7. /\ x.tap = d.tap /\ x.cpu = d.cpu /\ x.asserted = d.asserted
      /\ SamePins(d, x)
  BY <1>2, NotesKeep
<1>8. Parked(x) /\ ~ x.asserted /\ x.wired = {x.wireMode} /\ Powered(x)
  BY <1>7 DEF Parked, SamePins, Powered
<1>9. /\ DOMAIN f = Parts /\ f.driven = x.driven \ {x.wireMode}
      /\ \A q \in Parts \ {"driven"} : f[q] = x[q]
  BY <1>2, <1>4 DEF Whole, Parts
<1>10. x.wireMode \notin y.driven /\ y.tap = x.tap /\ y.cpu = "run"
  BY <1>2, <1>5, <1>8, <1>9, LetsGo
<1>11. e.tap = y.tap /\ e.cpu = y.cpu /\ SamePins(y, e)
  BY <1>2, <1>6, NotesKeep
<1> QED
  BY <1>7, <1>8, <1>10, <1>11 DEF SamePins, Parked

\* A word for the usbpic adapter to read: nothing comes of a port out of reach.
LEMMA ReadEffect ==
  \A d : \A e \in Effect(d, Do("XferWord", 0)) : Whole(d) =>
      Handles(d, e) /\ (~ Reaches(d) => e.tap = d.tap)
<1> SUFFICES ASSUME NEW d, Whole(d), NEW c, c = Do("XferWord", 0), NEW e \in Effect(d, c)
             PROVE  Handles(d, e) /\ (~ Reaches(d) => e.tap = d.tap)
  OBVIOUS
<1>1. c.op = "XferWord" /\ c.arg = 0 /\ c \in Echoing /\ c \in HeldCommands
  BY DEF Do, Echoing, HeldSteps, CalmSteps, Numbered, HeldCommands
<1>2. PICK x, y : /\ Notes(d, x) /\ Whole(x) /\ y \in Simple(x, c)
                  /\ (Whole(y) => Notes(y, e))
  BY <1>1, PlainEffect
<1>3. Handles(d, e)
  BY <1>1, HeldEffect
<1>4. Whole(y)
  BY <1>1, <1>2, CalmSimple DEF Kept, Keeps, Echoing, HeldSteps
<1>5. e.tap = y.tap /\ x.tap = d.tap /\ SamePins(d, x)
  BY <1>2, <1>4, NotesKeep
<1>6. Reaches(x) = Reaches(d)
  BY <1>5, SameReaches
<1>7. ~ Reaches(d) => y.tap = x.tap
  BY <1>1, <1>2, <1>6, Silent
<1> QED
  BY <1>3, <1>5, <1>7

\* The PICkit's lines when the target, parked, has MCLR held low.
Grounded(d) == Parked(d) /\ d.PMCLR = 0 /\ "ICSP" \in d.driven

\* The last thing it does before is park the port and ground the line.
LEMMA GroundParks ==
  ASSUME NEW d, Whole(d), "ICSP" \in d.wired, d.tap.state = "Reset",
         d.tap.boot = FALSE, NEW e, e = Ground(d)
  PROVE  Grounded(e)
<1>1. PICK f : f = [d EXCEPT !.driven = @ \cup {"ICSP"}, !.PMCLR = 0, !.icsp = FALSE]
  OBVIOUS
<1>2. e = Settled(f)
  BY <1>1, Zenon DEF Ground
<1>3. /\ DOMAIN f = Parts /\ f.tap = d.tap /\ f.wired = d.wired /\ "ICSP" \in f.driven
      /\ f.PMCLR = 0
  BY <1>1 DEF Whole, Parts
<1>4. InReset(f)
  BY <1>3 DEF InReset
<1>5. e.cpu \in {"reset", "off"}
  BY <1>2, <1>3, <1>4, SettledHeld
<1>6. e.tap = f.tap /\ e.PMCLR = f.PMCLR /\ e.driven = f.driven
  BY <1>2, <1>3, SettledParts DEF Parts
<1> QED
  BY <1>3, <1>5, <1>6 DEF Grounded, Parked

\* A device after m of the commands of that packet.
Finishing(d, m, x) ==
    /\ Spared(d, x) /\ SameMode(d, x) /\ x.timeout = FALSE
    /\ m <= 1 => Reaches(x)
    /\ m = 2 => x.tap.state = "Reset" /\ x.tap.boot = FALSE
    /\ m = 3 => Grounded(x)

\* The packet with which it lets go of a target.
LEMMA FinishEffect ==
  ASSUME NEW d, Whole(d), Reaches(d), "ICSP" \in d.wired, NEW c, c.op = "Packet",
         NEW s1, NEW s2, NEW s3, c.arg = <<s1, s2, s3>>,
         s1 = Do("ClearUpload", 0), s2 = Do("SetMode", 5), s3 = Do("Ground", 0),
         NEW e \in Effect(d, c)
  PROVE  Spared(d, e) /\ SameMode(d, e) /\ Grounded(e)
<1>1. PICK steps, n : steps = <<s1, s2, s3>> /\ n = 3
  OBVIOUS
<1>2. /\ n \in Nat /\ n = Len(steps)
      /\ steps[1] = s1 /\ steps[2] = s2 /\ steps[3] = s3
  BY <1>1
<1>3. PICK f : PacketRun(d, c, steps, n, f)
  <2>1. steps = IF c.op = "Packet" THEN c.arg ELSE <<c>>
    BY <1>1
  <2> QED
    BY <1>2, <2>1, EffectPath
<1> DEFINE K == [i \in 0 .. n |-> {x \in f[i] : Finishing(d, i, x)}]
<1>4. ASSUME NEW x \in f[0] PROVE Finishing(d, 0, x)
  <2>1. Notes(d, x) /\ x.timeout = FALSE
    BY <1>3, <1>4, Starts
  <2>2. Spared(d, x) /\ SameMode(d, x) /\ SamePins(d, x)
    BY <2>1, NotesSpare, NotesKeep DEF SparedSo
  <2>3. Reaches(x)
    BY <2>2, SameReaches
  <2> QED
    BY <2>1, <2>2, <2>3 DEF Finishing
<1>5. /\ s1.op = "ClearUpload" /\ s2.op = "SetMode" /\ s2.arg = 5 /\ s3.op = "Ground"
      /\ s1 \in LineSteps /\ s2 \in LineSteps /\ s3 \in LineSteps
  BY DEF Do, LineSteps, SpareSteps
<1>6. ASSUME NEW i \in 1 .. n, NEW x \in f[i - 1], NEW y \in f[i],
             Finishing(d, i - 1, x),
             IF x.timeout THEN y = x ELSE y \in Simple(x, steps[i])
      PROVE  Finishing(d, i, y)
  <2>1. PICK s : s = steps[i]
    OBVIOUS
  <2>2. Spared(d, x) /\ SameMode(d, x) /\ Whole(x) /\ x.timeout = FALSE
    BY <1>6 DEF Finishing, Spared
  <2>3. y \in Simple(x, s)
    BY <1>6, <2>1, <2>2, Zenon
  <2>4. i \in {1, 2, 3}
    BY <1>1
  <2>5. s \in LineSteps
    BY <1>2, <1>5, <2>1, <2>4
  <2>6. Leaves(x, y) /\ SameMode(x, y)
    BY <2>2, <2>3, <2>5, SpareSimple DEF LineSteps
  <2>7. Spared(d, y) /\ SameMode(d, y) /\ y.timeout = FALSE /\ Whole(y)
    BY <2>2, <2>6 DEF Leaves, Spared, SameMode, SameTarget
  <2>8. CASE i = 1
    <3>1. Reaches(x) /\ s = s1
      BY <1>2, <1>6, <2>1, <2>8 DEF Finishing
    <3>2. y = [x EXCEPT !.upload = 0]
      BY <1>5, <2>3, <3>1, Zenon DEF Simple, Looks
    <3>3. SamePins(x, y)
      BY <2>2, <3>2 DEF Whole, Parts, SamePins
    <3>4. Reaches(y)
      BY <3>1, <3>3, SameReaches
    <3> QED
      BY <2>7, <2>8, <3>4 DEF Finishing
  <2>9. CASE i = 2
    <3>1. Reaches(x) /\ s = s2
      BY <1>2, <1>6, <2>1, <2>9 DEF Finishing
    <3>2. y = Clocks(x, SetMode(31, 5))
      BY <1>5, <2>3, <3>1, Zenon DEF Simple, Looks
    <3>3. y.tap.state = "Reset" /\ y.tap.boot = FALSE
      BY <2>2, <3>1, <3>2, ResetParks
    <3> QED
      BY <2>7, <2>9, <3>3 DEF Finishing
  <2>10. CASE i = 3
    <3>1. x.tap.state = "Reset" /\ x.tap.boot = FALSE /\ s = s3
      BY <1>2, <1>6, <2>1, <2>10 DEF Finishing
    <3>2. y = Ground(x)
      BY <1>5, <2>3, <3>1, Zenon DEF Simple, Looks
    <3>3. "ICSP" \in x.wired
      BY <2>2 DEF Spared, SameTarget
    <3>4. Grounded(y)
      BY <2>2, <3>1, <3>2, <3>3, GroundParks
    <3> QED
      BY <2>7, <2>10, <3>4 DEF Finishing
  <2> QED
    BY <2>4, <2>8, <2>9, <2>10
<1>7. \A i \in 0 .. n : \A x \in f[i] : x \in K[i]
  <2>1. \A x \in f[0] : x \in K[0]
    BY <1>2, <1>4
  <2>2. ASSUME NEW i \in 1 .. n, NEW x \in f[i - 1], NEW y \in f[i], x \in K[i - 1],
               IF x.timeout THEN y = x ELSE y \in Simple(x, steps[i])
        PROVE  y \in K[i]
    <3>1. i \in 0 .. n /\ i - 1 \in 0 .. n
      BY <1>2
    <3>2. Finishing(d, i - 1, x)
      BY <2>2, <3>1
    <3>3. Finishing(d, i, y)
      BY <1>6, <2>2, <3>2, Zenon
    <3> QED
      BY <3>1, <3>3
  <2> HIDE DEF K
  <2>3. SeesTo(steps, n, f, K)
    BY <2>1, <2>2, Zenon DEF SeesTo
  <2> QED
    BY <1>2, <1>3, <2>3, AllAlong, Zenon
<1>8. \A x \in f[n] : Finishing(d, n, x)
  <2>1. n \in 0 .. n
    BY <1>2
  <2>2. \A x \in f[n] : x \in K[n]
    BY <1>7, <2>1, Zenon
  <2> QED
    BY <2>1, <2>2
<1>9. PICK x \in f[n] : Told(d, x, e)
  BY <1>3, Ends
<1>10. Spared(d, x) /\ SameMode(d, x) /\ Grounded(x)
  BY <1>1, <1>8 DEF Finishing
<1>11. Whole(x) /\ Notes(x, e)
  BY <1>9, <1>10 DEF Told, Spared
<1>12. SparedSo(x, TRUE, e) /\ e.tap = x.tap /\ e.cpu = x.cpu
  BY <1>11, NotesKeep, NotesSpare
<1>13. e.PMCLR = x.PMCLR /\ e.driven = x.driven
  BY <1>11 DEF Notes, Parts
<1> QED
  BY <1>10, <1>12, <1>13
  DEF SparedSo, Spared, SameMode, SameTarget, Grounded, Parked

\* The power is taken from a target that is held so.
LEMMA UnpoweredParked ==
  ASSUME NEW d, Whole(d), Grounded(d), "ICSP" \in d.wired, NEW e, e = Supplied(d, FALSE)
  PROVE  Parked(e)
<1>1. PICK f : f = [d EXCEPT !.vdd = FALSE]
  OBVIOUS
<1>2. /\ DOMAIN f = Parts /\ f.tap = d.tap /\ f.driven = d.driven /\ f.PMCLR = d.PMCLR
      /\ f.wired = d.wired
  BY <1>1 DEF Whole, Parts
<1>3. CASE Powered(f)
  <2>1. e = Settled(f)
    BY <1>1, <1>3, Zenon DEF Supplied
  <2>2. InReset(f)
    BY <1>2 DEF InReset, Grounded
  <2>3. e.cpu \in {"reset", "off"}
    BY <2>1, <2>2, <1>2, SettledHeld
  <2>4. e.tap = f.tap
    BY <1>2, <2>1, SettledTap
  <2> QED
    BY <1>2, <2>3, <2>4 DEF Grounded, Parked
<1>4. CASE ~ Powered(f)
  <2>1. PICK t : t = Tap("Reset", IDCODE, "MTAP")
    OBVIOUS
  <2>2. t.state = "Reset" /\ t.boot = FALSE
    BY <2>1, Zenon DEF Tap
  <2>3. PICK g : g = [f EXCEPT !.tap = t, !.asserted = FALSE, !.icsp = FALSE]
    OBVIOUS
  <2>4. e = Settled(g)
    BY <1>1, <1>4, <2>1, <2>3, Zenon DEF Supplied
  <2>5. /\ DOMAIN g = Parts /\ g.tap = t /\ g.supply = f.supply /\ g.vdd = f.vdd
    BY <1>2, <2>3 DEF Parts
  <2>6. ~ Powered(g)
    BY <1>4, <2>5 DEF Powered
  <2>7. e.cpu = "off"
    BY <2>4, <2>5, <2>6, SettledOff
  <2>8. e.tap = g.tap
    BY <2>4, <2>5, SettledTap
  <2> QED
    BY <2>2, <2>5, <2>7, <2>8 DEF Parked
<1> QED
  BY <1>3, <1>4

\* A target whose supply is the adapter is off, and forgets.
LEMMA Unpowered ==
  ASSUME NEW d, Whole(d), d.supply = "adapter", NEW e, e = Supplied(d, FALSE)
  PROVE  e.tap.state = "Reset" /\ e.cpu = "off"
<1>1. PICK f : f = [d EXCEPT !.vdd = FALSE]
  OBVIOUS
<1>2. /\ DOMAIN f = Parts /\ f.supply = d.supply /\ f.vdd = FALSE
  BY <1>1 DEF Whole, Parts
<1>4. ~ Powered(f)
  BY <1>2 DEF Powered
<1>5. PICK t : t = Tap("Reset", IDCODE, "MTAP")
  OBVIOUS
<1>6. t.state = "Reset"
  BY <1>5, Zenon DEF Tap
<1>7. PICK g : g = [f EXCEPT !.tap = t, !.asserted = FALSE, !.icsp = FALSE]
  OBVIOUS
<1>8. e = Settled(g)
  BY <1>1, <1>4, <1>5, <1>7, Zenon DEF Supplied
<1>9. /\ DOMAIN g = Parts /\ g.tap = t /\ g.supply = f.supply /\ g.vdd = f.vdd
  BY <1>2, <1>7 DEF Parts
<1>10. ~ Powered(g)
  BY <1>4, <1>9 DEF Powered
<1>11. e.cpu = "off"
  BY <1>8, <1>9, <1>10, SettledOff
<1>12. e.tap = g.tap
  BY <1>8, <1>9, SettledTap
<1> QED
  BY <1>6, <1>9, <1>11, <1>12

\* The PICkit takes the power from a target that it holds.
LEMMA SupplyOffEffect ==
  ASSUME NEW d, Whole(d), Grounded(d), "ICSP" \in d.wired, NEW s, s = Do("Supply", 0),
         NEW c, c.op = "Packet", c.arg = <<s>>, NEW e \in Effect(d, c)
  PROVE  Parked(e)
<1>1. PICK x, y : /\ Notes(d, x) /\ Whole(x) /\ y \in Simple(x, s)
                  /\ (Whole(y) => Notes(y, e))
  BY PackedEffect
<1>2. s.op = "Supply" /\ s.arg = 0 /\ (s.arg = 1) = FALSE /\ s \in SpareSteps
  BY DEF Do, SpareSteps
<1>3. y = Supplied(x, FALSE)
  <2>1. y = Supplied(x, s.arg = 1)
    BY <1>1, <1>2, Zenon DEF Simple, Looks
  <2> QED
    BY <1>2, <2>1, Zenon
<1>4. x.tap = d.tap /\ x.cpu = d.cpu /\ SamePins(d, x)
  BY <1>1, NotesKeep
<1>5. x.PMCLR = d.PMCLR
  BY <1>1 DEF Notes, Parts
<1>6. Grounded(x) /\ "ICSP" \in x.wired
  BY <1>4, <1>5 DEF Grounded, Parked, SamePins
<1>7. Parked(y)
  BY <1>1, <1>3, <1>6, UnpoweredParked
<1>8. Whole(y)
  BY <1>1, <1>2, SpareSimple DEF Leaves
<1>9. e.tap = y.tap /\ e.cpu = y.cpu
  BY <1>1, <1>8, NotesKeep
<1> QED
  BY <1>7, <1>9 DEF Parked

\* And lets go of its line.
LEMMA ReleaseEffect ==
  ASSUME NEW d, Whole(d), Parked(d), ~ d.asserted, d.wired = {"ICSP"},
         NEW s, s = Do("Release", 0), NEW c, c.op = "Packet", c.arg = <<s>>,
         NEW e \in Effect(d, c)
  PROVE  /\ "ICSP" \notin e.driven /\ e.tap.state = "Reset"
         /\ e.cpu = "run" \/ (e.cpu = "off" /\ d.supply # "board")
<1>1. PICK x, y : /\ Notes(d, x) /\ Whole(x) /\ y \in Simple(x, s)
                  /\ (Whole(y) => Notes(y, e))
  BY PackedEffect
<1>2. s.op = "Release" /\ s \in SpareSteps
  BY DEF Do, SpareSteps
<1>3. y = Release(x)
  BY <1>1, <1>2, Zenon DEF Simple, Looks
<1>4. PICK f : f = [x EXCEPT !.driven = @ \ {"ICSP"}]
  OBVIOUS
<1>5. y = Settled(f)
  BY <1>3, <1>4, Zenon DEF Release
<1>6. x.tap = d.tap /\ x.cpu = d.cpu /\ x.asserted = d.asserted /\ SamePins(d, x)
  BY <1>1, NotesKeep
<1>7. Parked(x) /\ ~ x.asserted /\ x.wired = {"ICSP"} /\ x.supply = d.supply
  BY <1>6 DEF Parked, SamePins
<1>8. /\ DOMAIN f = Parts /\ f.driven = x.driven \ {"ICSP"}
      /\ \A q \in Parts \ {"driven"} : f[q] = x[q]
  BY <1>1, <1>4 DEF Whole, Parts
<1>9. /\ "ICSP" \notin y.driven /\ y.tap = x.tap
      /\ Powered(x) => y.cpu = "run"
      /\ ~ Powered(x) => y.cpu = "off"
  BY <1>1, <1>5, <1>7, <1>8, LetsGo
<1>10. Whole(y)
  BY <1>1, <1>2, SpareSimple DEF Leaves
<1>11. e.tap = y.tap /\ e.cpu = y.cpu /\ e.driven = y.driven
  BY <1>1, <1>10, NotesKeep DEF SamePins
<1>12. ~ Powered(x) => x.supply # "board"
  BY DEF Powered
<1> QED
  BY <1>6, <1>7, <1>9, <1>11, <1>12 DEF Parked

\* The serial adapter takes the power it gives.
LEMMA SupplyEffect ==
  ASSUME NEW d, Whole(d), d.supply = "adapter", NEW c, c = Do("Supply", 0),
         NEW e \in Effect(d, c)
  PROVE  e.tap.state = "Reset" /\ e.cpu = "off"
<1>1. /\ c.op = "Supply" /\ c.op # "Packet" /\ c.arg = 0 /\ (c.arg = 1) = FALSE
      /\ c \in SpareSteps
  BY DEF Do, SpareSteps
<1>2. PICK x, y : /\ Notes(d, x) /\ Whole(x) /\ y \in Simple(x, c)
                  /\ (Whole(y) => Notes(y, e))
  BY <1>1, PlainEffect
<1>3. y = Supplied(x, FALSE)
  <2>1. y = Supplied(x, c.arg = 1)
    BY <1>1, <1>2, Zenon DEF Simple, Looks
  <2> QED
    BY <1>1, <2>1, Zenon
<1>4. x.supply = "adapter"
  BY <1>2, NotesKeep DEF SamePins
<1>5. y.tap.state = "Reset" /\ y.cpu = "off"
  BY <1>2, <1>3, <1>4, Unpowered
<1>6. Whole(y)
  BY <1>1, <1>2, SpareSimple DEF Leaves
<1>7. e.tap = y.tap /\ e.cpu = y.cpu
  BY <1>2, <1>6, NotesKeep
<1> QED
  BY <1>5, <1>7

-----------------------------------------------------------------------------
(* A packet that has the MTAP hold the processor in reset and let go of it.  *)

\* Its commands.
MtapSteps == {c \in CalmSteps : c.op \in {"SetMode", "SendCommand", "XferData8"}}

\* Each of them works inside of the target, and none can time out; of a port out of
\* reach nothing comes.
LEMMA MtapSimple ==
  ASSUME NEW d, Whole(d), NEW s \in MtapSteps, NEW e \in Simple(d, s)
  PROVE  /\ Calms(d, e) /\ e.timeout = d.timeout
         /\ s \in HeldSteps \/ ~ Reaches(d) => (e.asserted => d.asserted)
<1>1. Kept(d, s, e)
  BY CalmSimple DEF MtapSteps
<1>2. Calms(d, e) /\ e.timeout = d.timeout
  BY <1>1 DEF Kept, Fills, MtapSteps
<1>3. s \in HeldSteps => (e.asserted => d.asserted)
  BY <1>1 DEF Kept, Handles
<1>4. CASE s.op # "XferData8"
  <2>1. s \in HeldSteps
    BY <1>4 DEF MtapSteps, HeldSteps
  <2> QED
    BY <1>2, <1>3, <2>1
<1>5. CASE s.op = "XferData8" /\ ~ Reaches(d)
  <2>1. PICK a : a = s.arg
    OBVIOUS
  <2>2. a \in Nat
    BY <1>5, <2>1, CalmIs DEF MtapSteps, Numbered
  <2>3. PICK x : x = Commands(d, a)
    OBVIOUS
  <2>4. Works(d, x) /\ Whole(x)
    <3>1. x = Does(d, "XferData", a)
      BY <2>3, Zenon DEF Commands
    <3> QED
      BY <1>5, <2>2, <3>1, CommandsWork DEF Works, Moves, Calms
  <2>5. e = Uploads(x, 1)
    BY <1>5, <2>1, <2>3, Zenon DEF Simple, Looks
  <2>6. Handles(x, e)
    BY <2>4, <2>5, BuffersWork
  <2> QED
    BY <1>2, <2>4, <2>6 DEF Works, Handles
<1> QED
  BY <1>2, <1>3, <1>4, <1>5

\* The instruction that selects a register of the MTAP.
LEMMA MtapInstructs ==
  ASSUME NEW d, Whole(d), Reaches(d), InStep(d), NEW cmd \in 0 .. 31,
         NEW s, s = Do("SendCommand", cmd), NEW e \in Simple(d, s)
  PROVE  Instructed(e.tap, d.tap, cmd)
<1>1. s.op = "SendCommand" /\ s.arg = cmd
  BY DEF Do
<1>2. e = Sends(d, cmd)
  BY <1>1, Zenon DEF Simple, Looks
<1>3. e = Does(d, "SendCommand", cmd)
  BY <1>2, Zenon DEF Sends
<1> QED
  BY <1>3, SendsExactly DEF InStep

\* The command with which it lets go of the processor.
LEMMA MtapReleases ==
  ASSUME NEW d, Whole(d), Reaches(d), InStep(d), d.tap.sel = "MTAP",
         d.tap.ir = COMMAND, NEW s, s = Do("XferData8", 208), NEW e \in Simple(d, s)
  PROVE  ~ e.asserted
<1>1. s.op = "XferData8" /\ s.arg = 208
  BY DEF Do
<1>2. PICK x : x = Commands(d, 208)
  OBVIOUS
<1>3. x = Does(d, "XferData", 208)
  BY <1>2, Zenon DEF Commands
<1>4. Whole(x) /\ ~ x.asserted
  BY <1>3, CommandsWork, Deasserted DEF InStep, Moves, Calms
<1>5. e = Uploads(x, 1)
  BY <1>1, <1>2, Zenon DEF Simple, Looks
<1> QED
  BY <1>4, <1>5, BuffersWork DEF Handles

\* Where the release is commands k to k + 2 of a packet, a device after m of them.
Letting(d, k, m, x) ==
    /\ Calms(d, x) /\ x.timeout = FALSE /\ InStep(x)
    /\ ~ Reaches(d) => ~ x.asserted
    /\ m \in {k, k + 1} /\ Reaches(d) => x.tap.sel = "MTAP"
    /\ m = k + 1 /\ Reaches(d) => x.tap.ir = COMMAND
    /\ m >= k + 2 => ~ x.asserted

\* A processor that such a packet had held in reset is let go of when it ends.
LEMMA ReleasingEffect ==
  ASSUME NEW d, Whole(d), InStep(d), ~ d.asserted, NEW c, c.op = "Packet",
         NEW steps, steps = c.arg, NEW n \in Nat, n = Len(steps),
         \A i \in 1 .. n : steps[i] \in MtapSteps,
         NEW k \in 1 .. n, k + 2 <= n, steps[k] = Do("SendCommand", SW_MTAP),
         steps[k + 1] = Do("SendCommand", COMMAND),
         steps[k + 2] = Do("XferData8", 208),
         \A i \in k + 3 .. n : steps[i] \in HeldSteps,
         NEW e \in Effect(d, c)
  PROVE  Calms(d, e) /\ ~ e.asserted
<1>1. steps = IF c.op = "Packet" THEN c.arg ELSE <<c>>
  OBVIOUS
<1>2. PICK f : PacketRun(d, c, steps, n, f)
  BY <1>1, EffectPath
<1> DEFINE K == [i \in 0 .. n |-> {x \in f[i] : Letting(d, k, i, x)}]
<1>3. ASSUME NEW x \in f[0] PROVE Letting(d, k, 0, x)
  <2>1. Notes(d, x) /\ x.timeout = FALSE
    BY <1>2, <1>3, Starts, ZenonT(60)
  <2>2. Calms(d, x) /\ InStep(x) /\ x.asserted = d.asserted
    BY <2>1, NotesKeep
  <2> QED
    BY <2>1, <2>2 DEF Letting
<1>4. SW_MTAP \in 0 .. 31 /\ COMMAND \in 0 .. 31 /\ COMMAND # SW_MTAP /\ COMMAND # SW_ETAP
  BY DEF SW_MTAP, SW_ETAP, COMMAND
<1>5. ASSUME NEW i \in 1 .. n, NEW x \in f[i - 1], NEW y \in f[i], Letting(d, k, i - 1, x),
             IF x.timeout THEN y = x ELSE y \in Simple(x, steps[i])
      PROVE  Letting(d, k, i, y)
  <2>1. PICK s : s = steps[i]
    OBVIOUS
  <2>2. y \in Simple(x, s) /\ s \in MtapSteps
    BY <1>5, <2>1, Zenon DEF Letting
  <2>3. Calms(d, x) /\ Whole(x) /\ InStep(x) /\ x.timeout = FALSE
    BY <1>5 DEF Letting, Calms
  <2>4. Reaches(x) = Reaches(d)
    BY <2>3, SameReaches DEF Calms
  <2>5. /\ Calms(x, y) /\ y.timeout = FALSE
        /\ s \in HeldSteps \/ ~ Reaches(x) => (y.asserted => x.asserted)
    BY <2>2, <2>3, MtapSimple
  <2>6. Calms(d, y) /\ InStep(y)
    BY <2>3, <2>5, CalmsOn DEF Calms
  <2>7. ~ Reaches(d) => ~ y.asserted
    BY <1>5, <2>4, <2>5 DEF Letting
  <2>8. CASE ~ Reaches(d)
    BY <2>5, <2>6, <2>7, <2>8 DEF Letting
  <2>9. CASE Reaches(d) /\ i = k
    <3>1. Instructed(y.tap, x.tap, SW_MTAP)
      BY <1>4, <2>1, <2>2, <2>3, <2>4, <2>9, MtapInstructs
    <3>2. y.tap.sel = "MTAP"
      BY <3>1 DEF Instructed
    <3> QED
      BY <2>5, <2>6, <2>7, <2>9, <3>2 DEF Letting
  <2>10. CASE Reaches(d) /\ i = k + 1
    <3>1. s = Do("SendCommand", COMMAND)
      BY <2>1, <2>10
    <3>2. Instructed(y.tap, x.tap, COMMAND)
      BY <1>4, <2>2, <2>3, <2>4, <2>10, <3>1, MtapInstructs
    <3>3. x.tap.sel = "MTAP"
      BY <1>5, <2>10 DEF Letting
    <3>4. y.tap.sel = "MTAP" /\ y.tap.ir = COMMAND
      BY <1>4, <3>2, <3>3 DEF Instructed
    <3> QED
      BY <2>5, <2>6, <2>7, <2>10, <3>4 DEF Letting
  <2>11. CASE Reaches(d) /\ i = k + 2
    <3>1. s = Do("XferData8", 208)
      BY <2>1, <2>11
    <3>2. x.tap.sel = "MTAP" /\ x.tap.ir = COMMAND
      BY <1>5, <2>11 DEF Letting
    <3>3. ~ y.asserted
      BY <2>2, <2>3, <2>4, <2>11, <3>1, <3>2, MtapReleases
    <3> QED
      BY <2>5, <2>6, <2>11, <3>3 DEF Letting
  <2>12. CASE Reaches(d) /\ i > k + 2
    <3>1. s \in HeldSteps
      BY <2>1, <2>12
    <3>2. ~ x.asserted
      BY <1>5, <2>12 DEF Letting
    <3> QED
      BY <2>5, <2>6, <2>12, <3>1, <3>2 DEF Letting
  <2>13. CASE Reaches(d) /\ i < k
    BY <2>5, <2>6, <2>13 DEF Letting
  <2> QED
    BY <2>8, <2>9, <2>10, <2>11, <2>12, <2>13
<1>6. \A i \in 0 .. n : \A x \in f[i] : x \in K[i]
  <2>1. \A x \in f[0] : x \in K[0]
    BY <1>3
  <2>2. ASSUME NEW i \in 1 .. n, NEW x \in f[i - 1], NEW y \in f[i], x \in K[i - 1],
               IF x.timeout THEN y = x ELSE y \in Simple(x, steps[i])
        PROVE  y \in K[i]
    <3>1. i \in 0 .. n /\ i - 1 \in 0 .. n
      OBVIOUS
    <3>2. Letting(d, k, i - 1, x)
      BY <2>2, <3>1
    <3>3. Letting(d, k, i, y)
      BY <1>5, <2>2, <3>2, Zenon
    <3> QED
      BY <3>1, <3>3
  <2> HIDE DEF K
  <2>3. SeesTo(steps, n, f, K)
    BY <2>1, <2>2, Zenon DEF SeesTo
  <2> QED
    BY <1>2, <2>3, AllAlong, Zenon
<1>7. \A x \in f[n] : Letting(d, k, n, x)
  <2>1. n \in 0 .. n
    OBVIOUS
  <2>2. \A x \in f[n] : x \in K[n]
    BY <1>6, <2>1, Zenon
  <2> QED
    BY <2>1, <2>2
<1>8. PICK x \in f[n] : Told(d, x, e)
  BY <1>2, Ends
<1>9. Calms(d, x) /\ ~ x.asserted
  BY <1>7 DEF Letting
<1>10. Whole(x) /\ Notes(x, e)
  BY <1>8, <1>9 DEF Told, Calms
<1>11. Calms(x, e) /\ e.asserted = x.asserted
  BY <1>10, NotesKeep
<1> QED
  BY <1>9, <1>11, CalmsOn

-----------------------------------------------------------------------------
(* The buffers, command by command.                                        *)

\* The buffers of a device hold x.down words and at most x.up bytes: exactly so
\* many when x is exact, unless a script has timed out.
Holds(d, x) ==
    /\ d.download \in Seq(Nat) /\ Len(d.download) = x.down
    /\ d.upload \in Nat /\ d.upload <= x.up /\ ~ d.dry
    /\ x.exact /\ ~ d.timeout => d.upload = x.up

\* A command of a packet takes a words to b, and p bytes to q.
Counted(c, a, p, b, q) ==
    /\ c.op = "ClearDownload" => b = 0
    /\ c.op = "Download" => b = a + Len(c.arg)
    /\ c.op \in {"XferInstBuf", "XfrFastBuf"} => c.arg <= a /\ b = a - c.arg
    /\ c.op \notin {"ClearDownload", "Download", "XferInstBuf", "XfrFastBuf"} => b = a
    /\ c.op = "ClearUpload" => q = 0
    /\ c.op = "XferData8" => q = p + 1
    /\ c.op = "XferData32" => q = p + 4
    /\ c.op = "GetPeResp" => q = p + 4 * c.arg
    /\ c.op \notin {"ClearUpload", "XferData8", "XferData32", "GetPeResp"} => q = p

\* f and g count the words and bytes after each command of a packet, which may
\* end early after some of them; r is where it clears the upload buffer, or 0.
Counts(list, n, r, f, g) ==
    /\ \A i \in 0 .. n : f[i] \in Nat /\ g[i] \in Nat
    /\ \A i \in 1 .. n : Counted(list[i], f[i - 1], g[i - 1], f[i], g[i])
    /\ \A i \in 1 .. n : list[i].op \in {"XferInstBuf", "GetPeResp"} =>
           f[i] = f[n] /\ g[i] <= g[n]
    /\ r \in 0 .. n /\ (r > 0 => list[r].op = "ClearUpload")

\* The steps that packets are made of.
PacketSteps == CalmSteps \cup SpareSteps

\* What a step of a packet does to the buffers.
LEMMA StepFills ==
  \A d : \A c \in PacketSteps : \A e \in Simple(d, c) : Whole(d) =>
      Whole(e) /\ Fills(d, c, e)
<1> SUFFICES ASSUME NEW d, NEW c \in PacketSteps, NEW e \in Simple(d, c), Whole(d)
             PROVE  Whole(e) /\ Fills(d, c, e)
  OBVIOUS
<1>1. CASE c \in CalmSteps
  BY <1>1, CalmSimple DEF Kept, Keeps
<1>2. CASE c \in SpareSteps /\ c.op = "ClearUpload"
  <2>1. c \in CalmSteps
    BY <1>2 DEF SpareSteps, CalmSteps, Numbered
  <2> QED
    BY <1>1, <2>1
<1>3. CASE c \in SpareSteps /\ c.op # "ClearUpload"
  <2>1. Spares(d, e)
    BY <1>3, SpareSimple, Zenon
  <2>2. c.op \notin Buffering
    BY <1>3 DEF SpareSteps, Buffering
  <2> QED
    BY <2>1, <2>2 DEF Spares, Leaves, Fills, Buffering
<1> QED
  BY <1>1, <1>2, <1>3 DEF PacketSteps

\* A device along a packet.
Counting(n, r, f, g, i, z) ==
    /\ Whole(z) /\ z.download \in Seq(Nat) /\ z.upload \in Nat /\ ~ z.dry
    /\ ~ z.timeout => Len(z.download) = f[i] /\ z.upload <= g[i]
                      /\ (r > 0 /\ i >= r => z.upload = g[i])
    /\ z.timeout => Len(z.download) = f[n] /\ z.upload <= g[n]

\* A device so placed goes on to such a one.
LEMMA CountsOn ==
  ASSUME NEW n \in Nat, NEW r, NEW f, NEW g, NEW list, Counts(list, n, r, f, g),
         NEW i \in 1 .. n, NEW s \in PacketSteps, s = list[i],
         NEW x, Counting(n, r, f, g, i - 1, x), ~ x.timeout, NEW y \in Simple(x, s)
  PROVE  Counting(n, r, f, g, i, y)
<1>1. Whole(y) /\ Fills(x, s, y)
  BY StepFills, Zenon DEF Counting
<1>2. PICK a, p, b, q \in Nat : a = f[i - 1] /\ p = g[i - 1] /\ b = f[i] /\ q = g[i]
  <2>1. i - 1 \in 0 .. n /\ i \in 0 .. n
    OBVIOUS
  <2> QED
    BY <2>1 DEF Counts
<1>3. PICK m, k \in Nat : m = f[n] /\ k = g[n]
  <2>1. n \in 0 .. n
    OBVIOUS
  <2> QED
    BY <2>1 DEF Counts
<1>4. /\ Counted(s, a, p, b, q)
      /\ s.op \in {"XferInstBuf", "GetPeResp"} => b = m /\ q <= k
      /\ r \in 0 .. n /\ (r = i => s.op = "ClearUpload")
  BY <1>2, <1>3 DEF Counts
<1>5. /\ x.download \in Seq(Nat) /\ x.upload \in Nat /\ x.dry = x.dry /\ ~ x.dry
      /\ Len(x.download) = a /\ x.upload <= p
      /\ (r > 0 /\ i > r => x.upload = p)
  BY <1>2 DEF Counting, Counts
<1>6. s.op = "Download" => s.arg \in Seq(Nat)
  BY DEF PacketSteps, CalmSteps, SpareSteps, Numbered
<1>7. s.op \in {"XferInstBuf", "XfrFastBuf", "GetPeResp"} => s.arg \in Nat
  BY DEF PacketSteps, CalmSteps, SpareSteps, Numbered
<1>8. y.download \in Seq(Nat) /\ Len(y.download) = b /\ ~ y.dry
  <2>1. CASE s.op = "ClearDownload"
    <3>1. y.download = <<>> /\ y.dry = x.dry /\ b = 0
      BY <1>1, <1>4, <2>1 DEF Fills, Counted
    <3>2. ~ y.dry
      BY <1>5, <3>1, Zenon
    <3> QED
      BY <3>1, <3>2
  <2>2. CASE s.op = "Download"
    <3>1. PICK u, w \in Seq(Nat) : u = x.download /\ w = s.arg
      BY <1>5, <1>6, <2>2
    <3>2. y.download = u \o w /\ ~ y.dry /\ b = Len(u) + Len(w)
      BY <1>1, <1>4, <1>5, <2>2, <3>1 DEF Fills, Counted
    <3> QED
      BY <3>2
  <2>3. CASE s.op \in {"XferInstBuf", "XfrFastBuf"}
    <3>1. PICK u \in Seq(Nat), w \in Nat : u = x.download /\ w = s.arg
      BY <1>5, <1>7, <2>3
    <3>2. y.download = SubSeq(u, w + 1, Len(u)) /\ y.dry = Dried(x, w) /\ w <= Len(u)
          /\ b = Len(u) - w
      BY <1>1, <1>4, <1>5, <2>3, <3>1 DEF Fills, Counted
    <3>3. ~ y.dry
      <4>1. ~ Dried(x, w)
        BY <1>5, <3>1, <3>2 DEF Dried
      <4> QED
        BY <3>2, <4>1, Zenon
    <3> QED
      BY <3>2, <3>3
  <2>4. CASE s.op \notin {"ClearDownload", "Download", "XferInstBuf", "XfrFastBuf"}
    <3>1. y.download = x.download /\ y.dry = x.dry
      BY <1>1, <2>4 DEF Fills, Buffering, SameBuffers
    <3>2. b = a
      BY <1>4, <2>4 DEF Counted
    <3> QED
      BY <1>5, <3>1, <3>2
  <2> QED
    BY <2>1, <2>2, <2>3, <2>4
<1>9. /\ y.upload \in Nat
      /\ ~ y.timeout => y.upload <= q /\ (r > 0 /\ i >= r => y.upload = q)
      /\ y.timeout => y.upload <= k /\ b = m
  <2>1. CASE s.op = "ClearUpload"
    <3>1. y.upload = 0 /\ q = 0 /\ y.timeout = x.timeout
      BY <1>1, <1>4, <2>1 DEF Fills, Counted
    <3> QED
      BY <3>1 
  <2>2. CASE s.op = "XferData8"
    <3>1. y.upload = x.upload + 1 /\ q = p + 1 /\ y.timeout = x.timeout
      BY <1>1, <1>4, <2>2 DEF Fills, Counted
    <3> QED
      BY <1>4, <1>5, <2>2, <3>1
  <2>3. CASE s.op = "XferData32"
    <3>1. y.upload = x.upload + 4 /\ q = p + 4 /\ y.timeout = x.timeout
      BY <1>1, <1>4, <2>3 DEF Fills, Counted
    <3> QED
      BY <1>4, <1>5, <2>3, <3>1
  <2>4. CASE s.op = "GetPeResp"
    <3>1. PICK w \in Nat : w = s.arg
      BY <1>7, <2>4
    <3>2. /\ q = p + 4 * w /\ b = m /\ q <= k
          /\ \/ y.upload = x.upload + 4 * w /\ y.timeout = x.timeout
             \/ y.upload = x.upload /\ y.timeout
      BY <1>1, <1>4, <2>4, <3>1 DEF Fills, Counted
    <3>3. \/ y.upload = x.upload + 4 * w /\ ~ y.timeout
          \/ y.upload = x.upload /\ y.timeout
      <4>1. ~ x.timeout
        OBVIOUS
      <4> QED
        BY <3>2, <4>1, Zenon
    <3>4. PICK t : t = 4 * w /\ t \in Nat
      OBVIOUS
    <3>5. r > 0 /\ i >= r => x.upload = p
      BY <1>4, <1>5, <2>4
    <3>6. CASE y.upload = x.upload + 4 * w /\ ~ y.timeout
      BY <1>5, <3>2, <3>4, <3>5, <3>6
    <3>7. CASE y.upload = x.upload /\ y.timeout
      BY <1>5, <3>2, <3>4, <3>7
    <3> QED
      BY <3>3, <3>6, <3>7
  <2>5. CASE s.op = "XferInstBuf"
    <3>1. y.upload = x.upload /\ q = p /\ b = m /\ q <= k
      BY <1>1, <1>4, <2>5 DEF Fills, Counted
    <3> QED
      BY <1>4, <1>5, <2>5, <3>1
  <2>6. CASE s.op \notin {"ClearUpload", "XferData8", "XferData32", "GetPeResp",
                          "XferInstBuf"}
    <3>1. y.upload = x.upload /\ q = p /\ y.timeout = x.timeout
      BY <1>1, <1>4, <2>6 DEF Fills, Counted, Buffering, SameBuffers
    <3> QED
      BY <1>4, <1>5, <2>6, <3>1
  <2> QED
    BY <2>1, <2>2, <2>3, <2>4, <2>5, <2>6
<1> QED
  BY <1>1, <1>2, <1>3, <1>8, <1>9 DEF Counting

\* A packet whose words and bytes have been counted leaves as many.
LEMMA PacketHolds ==
  ASSUME NEW d, Whole(d), NEW c, NEW steps, NEW n \in Nat, n = Len(steps),
         steps = IF c.op = "Packet" THEN c.arg ELSE <<c>>,
         \A i \in 1 .. n : steps[i] \in PacketSteps,
         NEW r, NEW f, NEW g, Counts(steps, n, r, f, g),
         NEW x, Holds(d, x), x.down = f[0], x.up = g[0],
         NEW y, y.down = f[n], y.up = g[n], y.exact => r > 0,
         NEW e \in Effect(d, c)
  PROVE  Holds(e, y)
<1>1. PICK t : PacketRun(d, c, steps, n, t)
  BY EffectPath
<1> DEFINE K == [i \in 0 .. n |-> {z \in t[i] : Counting(n, r, f, g, i, z)}]
<1>2. ASSUME NEW z \in t[0] PROVE Counting(n, r, f, g, 0, z)
  <2>1. Notes(d, z) /\ z.timeout = FALSE
    BY <1>1, <1>2, Starts
  <2>2. Whole(z) /\ SameBuffers(d, z)
    BY <2>1, NotesKeep
  <2>3. r \in 0 .. n /\ f[0] \in Nat /\ g[0] \in Nat
    BY DEF Counts
  <2> QED
    BY <2>1, <2>2, <2>3 DEF Counting, Holds, SameBuffers
<1>3. \A i \in 0 .. n : \A z \in t[i] : z \in K[i]
  <2>1. \A z \in t[0] : z \in K[0]
    BY <1>2
  <2>2. ASSUME NEW i \in 1 .. n, NEW v \in t[i - 1], NEW z \in t[i], v \in K[i - 1],
               IF v.timeout THEN z = v ELSE z \in Simple(v, steps[i])
        PROVE  z \in K[i]
    <3>1. i \in 0 .. n /\ i - 1 \in 0 .. n
      OBVIOUS
    <3>2. Counting(n, r, f, g, i - 1, v)
      BY <2>2, <3>1
    <3>3. Counting(n, r, f, g, i, z)
      <4>1. CASE v.timeout
        <5>1. z = v
          BY <2>2, <4>1, Zenon
        <5> QED
          BY <3>2, <4>1, <5>1 DEF Counting
      <4>2. CASE ~ v.timeout
        <5>1. PICK s \in PacketSteps : s = steps[i]
          OBVIOUS
        <5>2. z \in Simple(v, s)
          BY <2>2, <4>2, <5>1, Zenon
        <5> QED
          BY <3>2, <4>2, <5>1, <5>2, CountsOn
      <4> QED
        BY <4>1, <4>2
    <3> QED
      BY <3>1, <3>3
  <2> HIDE DEF K
  <2>3. SeesTo(steps, n, t, K)
    BY <2>1, <2>2, Zenon DEF SeesTo
  <2> QED
    BY <1>1, <2>3, AllAlong, ZenonT(60)
<1>4. \A z \in t[n] : Counting(n, r, f, g, n, z)
  <2>1. n \in 0 .. n
    OBVIOUS
  <2>2. \A z \in t[n] : z \in K[n]
    BY <1>3, <2>1, Zenon
  <2> QED
    BY <2>1, <2>2
<1>5. PICK z \in t[n] : Told(d, z, e)
  BY <1>1, Ends
<1>6. Counting(n, r, f, g, n, z)
  BY <1>4
<1>7. /\ Whole(z) /\ Notes(z, e)
      /\ ~ e.timeout => ~ d.timeout /\ ~ z.timeout
  BY <1>5, <1>6 DEF Told, Counting
<1>8. SameBuffers(z, e)
  BY <1>7, NotesKeep
<1>9. r \in 0 .. n /\ f[n] \in Nat /\ g[n] \in Nat
  <2>1. n \in 0 .. n
    OBVIOUS
  <2> QED
    BY <2>1 DEF Counts
<1>10. y.exact /\ ~ e.timeout => e.upload = y.up
  <2> SUFFICES ASSUME y.exact, ~ e.timeout PROVE e.upload = y.up
    OBVIOUS
  <2>1. r > 0 /\ ~ z.timeout
    BY <1>7, Zenon
  <2>2. n >= r
    BY <1>9
  <2>3. z.upload = g[n]
    BY <1>6, <2>1, <2>2, Zenon DEF Counting
  <2> QED
    BY <1>8, <2>3 DEF SameBuffers
<1>11. /\ z.download \in Seq(Nat) /\ z.upload \in Nat /\ ~ z.dry
       /\ Len(z.download) = f[n] /\ z.upload <= g[n]
  BY <1>6, Zenon DEF Counting
<1>12. ~ e.dry
  BY <1>8, <1>11, Zenon DEF SameBuffers
<1> QED
  BY <1>8, <1>10, <1>11, <1>12 DEF Holds, SameBuffers

\* What a packet makes of the state x of the buffers.
Packed(list, x, y) ==
    \E r, f, g :
        /\ Counts(list, Len(list), r, f, g)
        /\ f[0] = x.down /\ g[0] = x.up /\ f[Len(list)] = y.down /\ g[Len(list)] = y.up
        /\ y.exact => r > 0

\* What a command makes of it.  A program that reads the status no longer knows
\* whether the last scripts were whole; only packets may come where it does.
Turn(c, x, y) ==
    /\ c.op = "Packet" => Packed(c.arg, x, y)
    /\ c.op = "ExpectBytes" => x.exact /\ x.up = c.arg
    /\ c.op = "ReadStatus" => y.down = x.down /\ y.up = x.up /\ ~ y.exact
    /\ c.op \notin {"Packet", "ReadStatus"} =>
           y = x /\ c.op \notin Buffering /\ (c.op \notin Looks => ~ x.exact)

\* The states of the buffers.
Downs == 0 .. 64

Ups == 0 .. 128

Fillings == [down : Downs, up : Ups, exact : BOOLEAN]

\* The commands of a list lead from a to b.
Chain(list, a, b) ==
    \E h : /\ \A i \in 0 .. Len(list) : h[i] \in Fillings
           /\ h[0] = a /\ h[Len(list)] = b
           /\ \A i \in 1 .. Len(list) : Turn(list[i], h[i - 1], h[i])

\* The rest of a list leads on from where its first command has led.
LEMMA ChainTail ==
  ASSUME NEW S, NEW list \in Seq(S), list # <<>>, NEW a, NEW b, Chain(list, a, b)
  PROVE  \E y \in Fillings : Turn(Head(list), a, y) /\ Chain(Tail(list), y, b)
<1>1. PICK n \in Nat : n = Len(list) /\ n >= 1 /\ n - 1 \in Nat
  OBVIOUS
<1>2. PICK h : /\ \A i \in 0 .. n : h[i] \in Fillings
               /\ h[0] = a /\ h[n] = b
               /\ \A i \in 1 .. n : Turn(list[i], h[i - 1], h[i])
  BY <1>1, Zenon DEF Chain
<1>3. PICK g : g = [i \in 0 .. n - 1 |-> h[i + 1]]
  OBVIOUS
<1>4. PICK t : t = Tail(list) /\ Len(t) = n - 1 /\ \A i \in 1 .. n - 1 : t[i] = list[i + 1]
  <2>1. /\ Len(Tail(list)) = n - 1
        /\ \A i \in 1 .. n - 1 : Tail(list)[i] = list[i + 1]
    BY <1>1
  <2> QED
    BY <2>1, Zenon
<1>5. \A i \in 0 .. n - 1 : g[i] = h[i + 1] /\ i + 1 \in 0 .. n
  BY <1>1, <1>3
<1>6. \A i \in 0 .. n - 1 : g[i] \in Fillings
  BY <1>2, <1>5
<1>7. g[0] = h[1] /\ g[n - 1] = b /\ h[1] \in Fillings
  BY <1>1, <1>2, <1>5
<1>8. \A i \in 1 .. n - 1 : Turn(t[i], g[i - 1], g[i])
  <2> SUFFICES ASSUME NEW i \in 1 .. n - 1 PROVE Turn(t[i], g[i - 1], g[i])
    OBVIOUS
  <2>1. /\ i + 1 \in 1 .. n /\ (i + 1) - 1 = i /\ i - 1 \in 0 .. n - 1
        /\ i \in 0 .. n - 1 /\ (i - 1) + 1 = i
    BY <1>1
  <2>2. g[i] = h[i + 1] /\ g[i - 1] = h[i]
    BY <1>5, <2>1
  <2>3. Turn(list[i + 1], h[i], h[i + 1])
    BY <1>2, <2>1, Zenon
  <2> QED
    BY <1>4, <2>2, <2>3, Zenon
<1>9. Chain(t, h[1], b)
  BY <1>4, <1>6, <1>7, <1>8, Zenon DEF Chain
<1>10. Turn(Head(list), a, h[1])
  <2>1. Turn(list[1], h[1 - 1], h[1])
    BY <1>1, <1>2
  <2>2. Head(list) = list[1] /\ 1 - 1 = 0
    BY <1>1
  <2> QED
    BY <1>2, <2>1, <2>2, Zenon
<1> QED
  BY <1>4, <1>7, <1>9, <1>10, Zenon

\* Lists one after the other lead to where the second one does.
LEMMA ChainCat ==
  ASSUME NEW S, NEW p \in Seq(S), NEW q \in Seq(S), NEW a, NEW b, NEW c,
         Chain(p, a, b), Chain(q, b, c)
  PROVE  Chain(p \o q, a, c)
<1>1. PICK m, n \in Nat : m = Len(p) /\ n = Len(q)
  OBVIOUS
<1>2. PICK g : /\ \A i \in 0 .. m : g[i] \in Fillings
               /\ g[0] = a /\ g[m] = b
               /\ \A i \in 1 .. m : Turn(p[i], g[i - 1], g[i])
  BY <1>1, Zenon DEF Chain
<1>3. PICK h : /\ \A i \in 0 .. n : h[i] \in Fillings
               /\ h[0] = b /\ h[n] = c
               /\ \A i \in 1 .. n : Turn(q[i], h[i - 1], h[i])
  BY <1>1, Zenon DEF Chain
<1>4. PICK k : k = [i \in 0 .. m + n |-> IF i <= m THEN g[i] ELSE h[i - m]]
  OBVIOUS
<1>5. PICK t : /\ t = p \o q /\ Len(t) = m + n
               /\ \A i \in 1 .. m : t[i] = p[i]
               /\ \A i \in m + 1 .. m + n : t[i] = q[i - m]
  <2>1. /\ Len(p \o q) = m + n
        /\ \A i \in 1 .. m + n : (p \o q)[i] = IF i <= m THEN p[i] ELSE q[i - m]
    BY <1>1, ConcatProperties, Zenon
  <2>2. PICK t : t = p \o q
    OBVIOUS
  <2>3. /\ Len(t) = m + n
        /\ \A i \in 1 .. m + n : t[i] = IF i <= m THEN p[i] ELSE q[i - m]
    BY <2>1, <2>2, Zenon
  <2>4. /\ \A i \in 1 .. m : t[i] = p[i]
        /\ \A i \in m + 1 .. m + n : t[i] = q[i - m]
    BY <2>3
  <2> QED
    BY <2>2, <2>3, <2>4
<1>6. /\ \A i \in 0 .. m : k[i] = g[i]
      /\ \A i \in m .. m + n : k[i] = h[i - m]
  <2>1. \A i \in 0 .. m + n : k[i] = IF i <= m THEN g[i] ELSE h[i - m]
    BY <1>4
  <2>2. g[m] = h[m - m]
    BY <1>2, <1>3
  <2> QED
    BY <2>1, <2>2
<1>7. \A i \in 0 .. m + n : k[i] \in Fillings
  <2> SUFFICES ASSUME NEW i \in 0 .. m + n PROVE k[i] \in Fillings
    OBVIOUS
  <2>1. CASE i <= m
    <3>1. i \in 0 .. m
      BY <2>1
    <3> QED
      BY <1>2, <1>6, <3>1
  <2>2. CASE i > m
    <3>1. i \in m .. m + n /\ i - m \in 0 .. n
      BY <2>2
    <3> QED
      BY <1>3, <1>6, <3>1
  <2> QED
    BY <2>1, <2>2
<1>8. k[0] = a /\ k[m + n] = c
  <2>1. 0 \in 0 .. m /\ m + n \in m .. m + n /\ (m + n) - m = n
    OBVIOUS
  <2> QED
    BY <1>2, <1>3, <1>6, <2>1, Zenon
<1>9. ASSUME NEW i \in 1 .. m + n PROVE Turn(t[i], k[i - 1], k[i])
  <2>1. CASE i <= m
    <3>1. i \in 1 .. m /\ i \in 0 .. m /\ i - 1 \in 0 .. m
      BY <2>1
    <3>2. k[i] = g[i] /\ k[i - 1] = g[i - 1] /\ t[i] = p[i]
      BY <1>5, <1>6, <3>1
    <3> QED
      BY <1>2, <3>1, <3>2, Zenon
  <2>2. CASE i > m
    <3>1. /\ i - m \in 1 .. n /\ i \in m .. m + n /\ i - 1 \in m .. m + n
          /\ i \in m + 1 .. m + n /\ (i - 1) - m = (i - m) - 1
      BY <2>2
    <3>2. k[i] = h[i - m] /\ k[i - 1] = h[(i - m) - 1] /\ t[i] = q[i - m]
      BY <1>5, <1>6, <3>1
    <3> QED
      BY <1>3, <3>1, <3>2, Zenon
  <2> QED
    BY <2>1, <2>2
<1>10. Chain(t, a, c)
  BY <1>5, <1>7, <1>8, <1>9, Zenon DEF Chain
<1> QED
  BY <1>5, <1>10, Zenon

\* A list that leaves the buffers be after its first command.
LEMMA ChainHead ==
  ASSUME NEW list, NEW n \in Nat \ {0}, n = Len(list),
         NEW a \in Fillings, NEW b \in Fillings, Turn(list[1], a, b),
         \A i \in 2 .. n : Turn(list[i], b, b)
  PROVE  Chain(list, a, b)
<1>1. PICK h : h = [i \in 0 .. n |-> IF i = 0 THEN a ELSE b]
  OBVIOUS
<1>2. \A i \in 0 .. n : h[i] \in Fillings
  BY <1>1
<1>3. h[0] = a /\ h[n] = b
  BY <1>1
<1>4. ASSUME NEW i \in 1 .. n PROVE Turn(list[i], h[i - 1], h[i])
  <2>1. h[i] = b /\ h[i - 1] = IF i = 1 THEN a ELSE b
    BY <1>1
  <2> QED
    BY <2>1
<1> QED
  BY <1>2, <1>3, <1>4, Zenon DEF Chain

\* A list that leaves them be altogether.
LEMMA ChainStill ==
  ASSUME NEW list, Len(list) \in Nat, NEW a \in Fillings,
         \A i \in 1 .. Len(list) : Turn(list[i], a, a)
  PROVE  Chain(list, a, a)
<1>1. PICK h : h = [i \in 0 .. Len(list) |-> a]
  OBVIOUS
<1>2. \A i \in 0 .. Len(list) : h[i] = a
  BY <1>1
<1>3. h[0] = a /\ h[Len(list)] = a /\ \A i \in 0 .. Len(list) : h[i] \in Fillings
  BY <1>2
<1>4. \A i \in 1 .. Len(list) : Turn(list[i], h[i - 1], h[i])
  BY <1>2
<1> QED
  BY <1>3, <1>4, Zenon DEF Chain

\* What of a packet touches the buffers, and where: it clears the one at cd and the
\* other at cu, downloads w words at dl, uses u words at us and reads k bytes at rd,
\* each at most once, in this order; 0 stands for what it does not do.
Shaped(list, n, cd, cu, dl, w, us, u, rd, k) ==
    /\ \A i \in 1 .. n :
           /\ list[i].op = "ClearDownload" => i = cd
           /\ list[i].op = "ClearUpload" => i = cu
           /\ list[i].op = "Download" => i = dl /\ Len(list[i].arg) = w
           /\ list[i].op \in {"XferInstBuf", "XfrFastBuf"} => i = us /\ list[i].arg = u
           /\ list[i].op = "XferData8" => i = rd /\ k = 1
           /\ list[i].op = "XferData32" => i = rd /\ k = 4
           /\ list[i].op = "GetPeResp" => i = rd /\ k = 4 * list[i].arg
           /\ i = cd => list[i].op = "ClearDownload"
           /\ i = cu => list[i].op = "ClearUpload"
           /\ i = dl => list[i].op = "Download"
           /\ i = us => list[i].op \in {"XferInstBuf", "XfrFastBuf"}
           /\ i = rd => list[i].op \in {"XferData8", "XferData32", "GetPeResp"}
    /\ us > 0 => cd < us /\ cu < us /\ dl < us
    /\ rd > 0 => cd < rd /\ cu < rd /\ dl < rd /\ us < rd
    /\ dl > 0 => cd < dl

\* From a words and p bytes such a packet makes b and q.
Amounts(a, p, cd, cu, dl, w, us, u, rd, k, b, q) ==
    /\ b = (IF cd > 0 THEN 0 ELSE a) + (IF dl > 0 THEN w ELSE 0) - (IF us > 0 THEN u ELSE 0)
    /\ q = (IF cu > 0 THEN 0 ELSE p) + (IF rd > 0 THEN k ELSE 0)

\* A state of the buffers.
Filling(down, up, exact) == [down |-> down, up |-> up, exact |-> exact]

\* The state that such a packet leaves, if there are words enough.
LEMMA ShapedPacks ==
  ASSUME NEW list, NEW n \in Nat, n = Len(list), NEW cd \in 0 .. n, NEW cu \in 0 .. n,
         NEW dl \in 0 .. n, NEW w \in Nat, NEW us \in 0 .. n, NEW u \in Nat,
         NEW rd \in 0 .. n, NEW k \in Nat,
         Shaped(list, n, cd, cu, dl, w, us, u, rd, k),
         NEW x, x.down \in Nat, x.up \in Nat,
         NEW b \in Nat, NEW q \in Nat, NEW t \in BOOLEAN,
         Amounts(x.down, x.up, cd, cu, dl, w, us, u, rd, k, b, q), t => cu > 0
  PROVE  Packed(list, x, Filling(b, q, t))
<1>12. PICK a \in Nat, p \in Nat : a = x.down /\ p = x.up
  OBVIOUS
<1>13. /\ b = (IF cd > 0 THEN 0 ELSE a) + (IF dl > 0 THEN w ELSE 0)
                  - (IF us > 0 THEN u ELSE 0)
       /\ q = (IF cu > 0 THEN 0 ELSE p) + (IF rd > 0 THEN k ELSE 0)
  BY <1>12, Zenon DEF Amounts
<1>1. PICK f : f = [i \in 0 .. n |-> (IF cd > 0 /\ i >= cd THEN 0 ELSE a)
                                     + (IF dl > 0 /\ i >= dl THEN w ELSE 0)
                                     - (IF us > 0 /\ i >= us THEN u ELSE 0)]
  OBVIOUS
<1>2. PICK g : g = [i \in 0 .. n |-> (IF cu > 0 /\ i >= cu THEN 0 ELSE p)
                                     + (IF rd > 0 /\ i >= rd THEN k ELSE 0)]
  OBVIOUS
<1>3. f[0] = a /\ g[0] = p /\ f[n] = b /\ g[n] = q
  BY <1>1, <1>2, <1>13
<1>4. \A i \in 0 .. n : f[i] \in Nat /\ g[i] \in Nat
  <2> SUFFICES ASSUME NEW i \in 0 .. n PROVE f[i] \in Nat /\ g[i] \in Nat
    OBVIOUS
  <2>1. cd > 0 /\ us > 0 => cd < us
    BY DEF Shaped
  <2>2. dl > 0 /\ us > 0 => dl < us
    BY DEF Shaped
  <2>3. f[i] = (IF cd > 0 /\ i >= cd THEN 0 ELSE a) + (IF dl > 0 /\ i >= dl THEN w ELSE 0)
                   - (IF us > 0 /\ i >= us THEN u ELSE 0)
    BY <1>1
  <2>4. f[i] \in Nat
    <3>1. CASE us > 0 /\ i >= us
      <4>1. f[i] = b
        BY <1>13, <2>1, <2>2, <2>3, <3>1
      <4> QED
        BY <4>1
    <3>2. CASE ~ (us > 0 /\ i >= us)
      <4>1. PICK v, z \in Nat : /\ v = (IF cd > 0 /\ i >= cd THEN 0 ELSE a)
                                /\ z = (IF dl > 0 /\ i >= dl THEN w ELSE 0)
        OBVIOUS
      <4>2. f[i] = v + z
        BY <2>3, <3>2, <4>1
      <4> QED
        BY <4>2
    <3> QED
      BY <3>1, <3>2
  <2>5. g[i] \in Nat
    <3>1. PICK v, z \in Nat : /\ v = (IF cu > 0 /\ i >= cu THEN 0 ELSE p)
                              /\ z = (IF rd > 0 /\ i >= rd THEN k ELSE 0)
      OBVIOUS
    <3>2. g[i] = v + z
      BY <1>2, <3>1
    <3> QED
      BY <3>2
  <2> QED
    BY <2>4, <2>5
<1>5. ASSUME NEW i \in 1 .. n
      PROVE  /\ Counted(list[i], f[i - 1], g[i - 1], f[i], g[i])
             /\ list[i].op \in {"XferInstBuf", "GetPeResp"} => f[i] = f[n] /\ g[i] <= g[n]
  <2>1. PICK s, a1, p1, b1, q1 : /\ s = list[i] /\ a1 = f[i - 1] /\ p1 = g[i - 1]
                                 /\ b1 = f[i] /\ q1 = g[i]
    OBVIOUS
  <2>2. /\ s.op = "ClearDownload" <=> i = cd
        /\ s.op = "ClearUpload" <=> i = cu
        /\ s.op = "Download" <=> i = dl
        /\ s.op \in {"XferInstBuf", "XfrFastBuf"} <=> i = us
        /\ s.op \in {"XferData8", "XferData32", "GetPeResp"} <=> i = rd
        /\ s.op = "Download" => Len(s.arg) = w
        /\ s.op \in {"XferInstBuf", "XfrFastBuf"} => s.arg = u
        /\ s.op = "XferData8" => k = 1
        /\ s.op = "XferData32" => k = 4
        /\ s.op = "GetPeResp" => k = 4 * s.arg
    BY <2>1 DEF Shaped
  <2>3. /\ us > 0 => cd < us /\ cu < us /\ dl < us
        /\ rd > 0 => cd < rd /\ cu < rd /\ dl < rd /\ us < rd
        /\ dl > 0 => cd < dl
    BY DEF Shaped
  <2>4. /\ a1 = (IF cd > 0 /\ i > cd THEN 0 ELSE a) + (IF dl > 0 /\ i > dl THEN w ELSE 0)
                    - (IF us > 0 /\ i > us THEN u ELSE 0)
        /\ p1 = (IF cu > 0 /\ i > cu THEN 0 ELSE p) + (IF rd > 0 /\ i > rd THEN k ELSE 0)
    <3>1. PICK j \in 0 .. n : j = i - 1
      OBVIOUS
    <3>2. /\ j >= cd <=> i > cd
          /\ j >= cu <=> i > cu
          /\ j >= dl <=> i > dl
          /\ j >= us <=> i > us
          /\ j >= rd <=> i > rd
      BY <3>1
    <3>3. a1 = f[j] /\ p1 = g[j]
      BY <2>1, <3>1
    <3>4. f[j] = (IF cd > 0 /\ j >= cd THEN 0 ELSE a) + (IF dl > 0 /\ j >= dl THEN w ELSE 0)
                     - (IF us > 0 /\ j >= us THEN u ELSE 0)
      BY <1>1
    <3>5. g[j] = (IF cu > 0 /\ j >= cu THEN 0 ELSE p) + (IF rd > 0 /\ j >= rd THEN k ELSE 0)
      BY <1>2
    <3> QED
      BY <3>2, <3>3, <3>4, <3>5, Zenon
  <2>5. /\ b1 = (IF cd > 0 /\ i >= cd THEN 0 ELSE a) + (IF dl > 0 /\ i >= dl THEN w ELSE 0)
                    - (IF us > 0 /\ i >= us THEN u ELSE 0)
        /\ q1 = (IF cu > 0 /\ i >= cu THEN 0 ELSE p) + (IF rd > 0 /\ i >= rd THEN k ELSE 0)
    <3>1. PICK j \in 0 .. n : j = i
      OBVIOUS
    <3>2. f[j] = (IF cd > 0 /\ j >= cd THEN 0 ELSE a) + (IF dl > 0 /\ j >= dl THEN w ELSE 0)
                     - (IF us > 0 /\ j >= us THEN u ELSE 0)
      BY <1>1
    <3>3. g[j] = (IF cu > 0 /\ j >= cu THEN 0 ELSE p) + (IF rd > 0 /\ j >= rd THEN k ELSE 0)
      BY <1>2
    <3> QED
      BY <2>1, <3>1, <3>2, <3>3, Zenon
  <2>6. /\ i = cd => b1 = 0
        /\ i = dl => b1 = a1 + w
        /\ i = us => u <= a1 /\ b1 = a1 - u
        /\ i # cd /\ i # dl /\ i # us => b1 = a1
    BY <1>13, <2>3, <2>4, <2>5
  <2>7. /\ i = cu => q1 = 0
        /\ i = rd => q1 = p1 + k
        /\ i # cu /\ i # rd => q1 = p1
        /\ i = us \/ i = rd => b1 = b /\ q1 <= q
    BY <1>13, <2>3, <2>4, <2>5
  <2>8. Counted(s, a1, p1, b1, q1)
    BY <2>2, <2>6, <2>7 DEF Counted
  <2>9. s.op \in {"XferInstBuf", "GetPeResp"} => b1 = b /\ q1 <= q
    BY <2>2, <2>7
  <2> QED
    BY <1>3, <2>1, <2>8, <2>9
<1>6. cu \in 0 .. n /\ (cu > 0 => list[cu].op = "ClearUpload")
  BY DEF Shaped
<1>7. Counts(list, n, cu, f, g)
  BY <1>4, <1>5, <1>6 DEF Counts
<1>8. PICK y : y = Filling(b, q, t)
  OBVIOUS
<1>11. y.down = b /\ y.up = q
  BY <1>8 DEF Filling
<1>9. y.exact => cu > 0
  <2>1. y.exact = t
    BY <1>8, Zenon DEF Filling
  <2> QED
    BY <2>1, Zenon
<1>10. Packed(list, x, y)
  BY <1>3, <1>7, <1>9, <1>11, <1>12, Zenon DEF Packed
<1> QED
  BY <1>8, <1>10, Zenon

\* A packet that clears the upload buffer first, reads k bytes at its end and does
\* nothing else with the buffers.
Reads(list, n, k) ==
    /\ n = Len(list) /\ n > 1 /\ list[1].op = "ClearUpload"
    /\ \A i \in 2 .. n - 1 : list[i].op \notin Buffering
    /\ \/ list[n].op = "XferData8" /\ k = 1
       \/ list[n].op = "XferData32" /\ k = 4
       \/ list[n].op = "GetPeResp" /\ k = 4 * list[n].arg

\* What it leaves.
LEMMA ReadPacks ==
  ASSUME NEW list, NEW n \in Nat, NEW k \in Nat, Reads(list, n, k),
         NEW x, x.down \in Nat, x.up \in Nat, NEW t \in BOOLEAN
  PROVE  Packed(list, x, Filling(x.down, k, t))
<1>1. Shaped(list, n, 0, 1, 0, 0, 0, 0, n, k)
  <2>1. \A i \in 1 .. n : i = 1 \/ i = n \/ (i \in 2 .. n - 1 /\ list[i].op \notin Buffering)
    BY DEF Reads
  <2> QED
    BY <2>1 DEF Reads, Shaped, Buffering
<1>2. /\ 0 \in 0 .. n /\ 1 \in 0 .. n /\ n \in 0 .. n /\ 0 \in Nat
      /\ Amounts(x.down, x.up, 0, 1, 0, 0, 0, 0, n, k, x.down, k) /\ (t => 1 > 0) /\ n = Len(list)
  BY DEF Amounts, Reads
<1> QED
  BY <1>1, <1>2, ShapedPacks, Zenon

\* A packet that at most clears the upload buffer.
LEMMA PlainPacks ==
  ASSUME NEW list, NEW n \in Nat, n = Len(list),
         \A i \in 1 .. n : list[i].op \notin Buffering \/ (i = 1 /\ list[i].op = "ClearUpload"),
         NEW x, x.down \in Nat, x.up \in Nat
  PROVE  \E q \in {0, x.up} : Packed(list, x, Filling(x.down, q, FALSE))
<1>1. PICK cu \in {0, 1} : cu = 1 <=> n > 0 /\ list[1].op = "ClearUpload"
  <2>1. (n > 0 /\ list[1].op = "ClearUpload") \/ ~ (n > 0 /\ list[1].op = "ClearUpload")
    OBVIOUS
  <2> QED
    BY <2>1
<1>2. Shaped(list, n, 0, cu, 0, 0, 0, 0, 0, 0)
  BY <1>1 DEF Shaped, Buffering
<1>3. PICK q \in {0, x.up} : q = IF cu > 0 THEN 0 ELSE x.up
  OBVIOUS
<1>4. /\ 0 \in 0 .. n /\ cu \in 0 .. n /\ 0 \in Nat /\ q \in Nat /\ FALSE \in BOOLEAN
      /\ Amounts(x.down, x.up, 0, cu, 0, 0, 0, 0, 0, 0, x.down, q) /\ (FALSE => cu > 0)
  BY <1>1, <1>3 DEF Amounts
<1>5. Packed(list, x, Filling(x.down, q, FALSE))
  BY <1>2, <1>4, ShapedPacks, Zenon
<1> QED
  BY <1>5

\* A packet that downloads words as the last it does with the buffers, if not the
\* only thing but for emptying the download buffer first.
LEMMA DownPacks ==
  ASSUME NEW list, NEW n \in Nat, n = Len(list), NEW c \in {0, 1}, n = c + 1,
         c = 1 => list[1].op = "ClearDownload",
         NEW w \in Nat, list[n].op = "Download", Len(list[n].arg) = w,
         NEW x, x.down \in Nat, x.up \in Nat
  PROVE  Packed(list, x, Filling(IF c = 1 THEN w ELSE x.down + w, x.up, FALSE))
<1>1. Shaped(list, n, c, 0, n, w, 0, 0, 0, 0)
  BY DEF Shaped
<1>2. PICK b \in Nat : b = IF c = 1 THEN w ELSE x.down + w
  OBVIOUS
<1>3. /\ 0 \in 0 .. n /\ c \in 0 .. n /\ n \in 0 .. n /\ 0 \in Nat /\ FALSE \in BOOLEAN
      /\ Amounts(x.down, x.up, c, 0, n, w, 0, 0, 0, 0, b, x.up) /\ (FALSE => 0 > 0)
  BY <1>2 DEF Amounts
<1>4. Packed(list, x, Filling(b, x.up, FALSE))
  BY <1>1, <1>3, ShapedPacks, Zenon
<1> QED
  BY <1>2, <1>4, Zenon

\* A packet and what the program does about the reply: it finds as many bytes as it
\* expects, and where it looks at the status it does not count on them.
Asks(list, n, p, k, t) ==
    /\ n = Len(list) /\ n > 0 /\ list[1] = Packet(p)
    /\ \A i \in 2 .. n :
           \/ list[i].op \in {"Receive", "Expect"}
           \/ list[i].op = "ExpectBytes" /\ t /\ list[i].arg = k
           \/ list[i].op = "ReadStatus" /\ ~ t

\* Where they lead.
LEMMA AskedChain ==
  ASSUME NEW list, NEW n \in Nat, NEW p, NEW a \in Fillings, NEW b \in Fillings,
         Packed(p, a, b), Asks(list, n, p, b.up, b.exact)
  PROVE  Chain(list, a, b)
<1>4. n \in Nat \ {0} /\ n = Len(list) /\ list[1] = Packet(p)
  BY DEF Asks
<1>1. Turn(list[1], a, b)
  <2>1. PICK c : c = Packet(p)
    OBVIOUS
  <2>2. c.op = "Packet" /\ c.arg = p
    BY <2>1 DEF Packet, Do
  <2>3. Packed(c.arg, a, b)
    BY <2>2
  <2>4. Turn(c, a, b)
    BY <2>2, <2>3 DEF Turn
  <2> QED
    BY <1>4, <2>1, <2>4
<1>2. ASSUME NEW i \in 2 .. n PROVE Turn(list[i], b, b)
  <2>1. PICK c : c = list[i]
    OBVIOUS
  <2>2. \/ c.op \in {"Receive", "Expect"}
        \/ c.op = "ExpectBytes" /\ b.exact /\ c.arg = b.up
        \/ c.op = "ReadStatus" /\ ~ b.exact
    BY <2>1, Zenon DEF Asks
  <2>3. c.op \in {"Receive", "Expect", "ExpectBytes", "ReadStatus"}
    BY <2>2
  <2>4. c.op # "Packet" /\ c.op \in Looks /\ c.op \notin Buffering
    BY <2>3 DEF Looks, Buffering
  <2>5. c.op = "ExpectBytes" => b.exact /\ b.up = c.arg
    BY <2>2
  <2>6. c.op = "ReadStatus" => ~ b.exact
    BY <2>2
  <2>7. Turn(c, b, b)
    BY <2>4, <2>5, <2>6, Zenon DEF Turn
  <2> QED
    BY <2>1, <2>7
<1>3. \A i \in 2 .. n : Turn(list[i], b, b)
  BY <1>2
<1> QED
  BY <1>1, <1>3, <1>4, ChainHead

\* What the commands of the PICkit are.
LEMMA Named ==
  /\ \A o, x : Do(o, x).op = o /\ Do(o, x).arg = x
  /\ \A x : /\ Instr(x).op = "SendCommand" /\ Expect(x).op = "Expect"
            /\ FastLit(x).op = "XferFastData"
            /\ Download(x).op = "Download" /\ Download(x).arg = x
            /\ Give(x).op = "XferInstBuf" /\ Give(x).arg = x
  /\ \A x : /\ FastBuf(x).op = "XfrFastBuf" /\ FastBuf(x).arg = x
            /\ Read8(x).op = "XferData8" /\ ReadStatus(x).op = "ReadStatus"
            /\ ExpectBytes(x).op = "ExpectBytes" /\ ExpectBytes(x).arg = x
  /\ Reset5.op = "SetMode" /\ Read32.op = "XferData32" /\ PeResponse.op = "GetPeResp"
  /\ PeResponse.arg = 1 /\ Receive.op = "Receive"
  /\ ClearDownload.op = "ClearDownload" /\ ClearUpload.op = "ClearUpload"
<1>1. \A o, x : Do(o, x).op = o /\ Do(o, x).arg = x
  BY DEF Do
<1>2. \A x : /\ Instr(x).op = "SendCommand" /\ Expect(x).op = "Expect"
             /\ FastLit(x).op = "XferFastData"
             /\ Download(x).op = "Download" /\ Download(x).arg = x
             /\ Give(x).op = "XferInstBuf" /\ Give(x).arg = x
  BY <1>1, Zenon DEF Instr, Expect, FastLit, Fast, Download, Give
<1>3. \A x : /\ FastBuf(x).op = "XfrFastBuf" /\ FastBuf(x).arg = x
             /\ Read8(x).op = "XferData8" /\ ReadStatus(x).op = "ReadStatus"
             /\ ExpectBytes(x).op = "ExpectBytes" /\ ExpectBytes(x).arg = x
  BY <1>1, Zenon DEF FastBuf, Read8, ReadStatus, ExpectBytes
<1>4. /\ Reset5.op = "SetMode" /\ Read32.op = "XferData32" /\ PeResponse.op = "GetPeResp"
      /\ PeResponse.arg = 1 /\ Receive.op = "Receive"
      /\ ClearDownload.op = "ClearDownload" /\ ClearUpload.op = "ClearUpload"
  BY DEF Reset5, Read32, PeResponse, Receive, ClearDownload, ClearUpload, Do
<1> QED
  BY <1>1, <1>2, <1>3, <1>4

-----------------------------------------------------------------------------
(* The scripts of the PICkit, counted.                                     *)

\* A state that fits the buffers.
LEMMA FillingFits ==
  ASSUME NEW down \in Downs, NEW up \in Ups, NEW t \in BOOLEAN
  PROVE  \E b \in Fillings : /\ b = Filling(down, up, t) /\ b.down = down /\ b.up = up
                             /\ b.exact = t
<1>1. PICK y : y = Filling(down, up, t)
  OBVIOUS
<1>2. y \in Fillings /\ y.down = down /\ y.up = up
  BY <1>1 DEF Filling, Fillings
<1>3. y.exact = t
  BY <1>1, Zenon DEF Filling
<1> QED
  BY <1>1, <1>2, <1>3, Zenon

\* A packet whose reply is all that the upload buffer holds then.
LEMMA ReadChain ==
  ASSUME NEW p, NEW m \in Nat, NEW k \in 0 .. 8, Reads(p, m, k), NEW t \in BOOLEAN,
         NEW list, NEW n \in Nat, Asks(list, n, p, k, t), NEW a \in Fillings
  PROVE  \E b \in Fillings : Chain(list, a, b) /\ b.down = a.down /\ b.up = k /\ b.exact = t
<1>1. a.down \in Downs /\ a.down \in Nat /\ a.up \in Nat /\ k \in Ups /\ k \in Nat
  BY DEF Fillings, Downs, Ups
<1>6. PICK d \in Downs, v \in Ups : d = a.down /\ v = k
  BY <1>1
<1>7. PICK b \in Fillings : /\ b = Filling(d, v, t) /\ b.down = d /\ b.up = v /\ b.exact = t
  BY FillingFits
<1>2. /\ b \in Fillings /\ b = Filling(a.down, k, t) /\ b.down = a.down /\ b.up = k
      /\ b.exact = t
  BY <1>6, <1>7, Zenon
<1>3. Packed(p, a, b)
  BY <1>1, <1>2, ReadPacks, Zenon
<1>4. Asks(list, n, p, b.up, b.exact)
  BY <1>2, Zenon
<1>5. Chain(list, a, b)
  BY <1>3, <1>4, AskedChain, Zenon
<1> QED
  BY <1>2, <1>5, Zenon

\* A script leads somewhere, with at most so many bytes to upload.
EndsWithin(list, a, up) == \E b \in Fillings : Chain(list, a, b) /\ b.up <= up

\* So does one with such a packet.
LEMMA ReadLeads ==
  ASSUME NEW p, NEW m \in Nat, NEW k \in 0 .. 8, Reads(p, m, k), NEW t \in BOOLEAN,
         NEW list, NEW n \in Nat, Asks(list, n, p, k, t), NEW a \in Fillings
  PROVE  EndsWithin(list, a, 8)
<1>1. PICK b \in Fillings : Chain(list, a, b) /\ b.up = k
  <2>1. \E b \in Fillings : Chain(list, a, b) /\ b.down = a.down /\ b.up = k /\ b.exact = t
    BY ReadChain
  <2> QED
    BY <2>1, Zenon
<1>2. b.up <= 8
  BY <1>1
<1> QED
  BY <1>1, <1>2, Zenon DEF EndsWithin

\* What is repeated alike, so many times.
LEMMA TimesIs ==
  ASSUME NEW S, NEW n \in Nat, NEW x \in S
  PROVE  /\ Times(n, x) \in Seq(S) /\ Len(Times(n, x)) = n
         /\ \A i \in 1 .. n : Times(n, x)[i] = x
<1>1. PICK q : q = Times(n, x)
  OBVIOUS
<1>2. q = [i \in 1 .. n |-> x]
  BY <1>1, Zenon DEF Times
<1>3. q \in Seq(S)
  BY <1>2
<1>4. Len(q) = n
  BY <1>2
<1>5. \A i \in 1 .. n : q[i] = x
  BY <1>2
<1> QED
  BY <1>1, <1>3, <1>4, <1>5, Zenon

\* The sizes of a state of the buffers.
LEMMA FillingSizes ==
  ASSUME NEW x \in Fillings
  PROVE  x.down \in Nat /\ x.up \in Nat /\ x.down \in Downs /\ x.up \in Ups
BY DEF Fillings, Downs, Ups

\* A packet that uses all the words there are of the download buffer, w of them its
\* own, and reads nothing.
LEMMA UsePacks ==
  ASSUME NEW list, NEW n \in Nat, n = Len(list), NEW c \in {0, 1}, NEW dl \in 1 .. n,
         NEW us \in 1 .. n, c < dl, dl < us, NEW w \in Nat, NEW u \in Nat,
         c = 1 => list[1].op = "ClearDownload",
         list[dl].op = "Download", Len(list[dl].arg) = w,
         list[us].op \in {"XferInstBuf", "XfrFastBuf"}, list[us].arg = u,
         \A i \in 1 .. n : i \notin {c, dl, us} => list[i].op \notin Buffering,
         NEW x \in Fillings, u = IF c = 1 THEN w ELSE x.down + w
  PROVE  Packed(list, x, Filling(0, x.up, FALSE))
<1>1. Shaped(list, n, c, 0, dl, w, us, u, 0, 0)
  <2>1. /\ \A i \in 1 .. n : i = c => list[i].op = "ClearDownload"
        /\ \A i \in 1 .. n : i # c /\ i # dl /\ i # us => list[i].op \notin Buffering
    OBVIOUS
  <2> QED
    BY <2>1 DEF Shaped, Buffering
<1>2. x.down \in Nat /\ x.up \in Nat
  BY FillingSizes, Zenon
<1>3. /\ c \in 0 .. n /\ 0 \in 0 .. n /\ dl \in 0 .. n /\ us \in 0 .. n /\ 0 \in Nat
      /\ Amounts(x.down, x.up, c, 0, dl, w, us, u, 0, 0, 0, x.up) /\ (FALSE => 0 > 0)
      /\ FALSE \in BOOLEAN
  BY <1>2 DEF Amounts
<1> QED
  BY <1>1, <1>2, <1>3, ShapedPacks, Zenon

\* What a packet leaves that uses all the words and reads nothing.
LEMMA UsedFits ==
  ASSUME NEW a \in Fillings
  PROVE  \E b \in Fillings : /\ b = Filling(0, a.up, FALSE) /\ b.down = 0 /\ b.up = a.up
                             /\ b.exact = FALSE
<1>1. PICK d \in Downs, v \in Ups : d = 0 /\ v = a.up
  BY DEF Fillings, Downs
<1>2. PICK t \in BOOLEAN : t = FALSE
  BY Zenon
<1>3. PICK b \in Fillings : /\ b = Filling(d, v, t) /\ b.down = d /\ b.up = v /\ b.exact = t
  BY FillingFits
<1> QED
  BY <1>1, <1>2, <1>3, Zenon

\* A command with which the program only looks, counting on nothing.
Idle(c, a) == \/ c.op \in {"Receive", "Expect"}
              \/ c.op = "ReadStatus" /\ ~ a.exact

\* Where the program only looks, the buffers stay as they are.
LEMMA LookChain ==
  ASSUME NEW S, NEW list \in Seq(S), NEW a \in Fillings,
         \A i \in 1 .. Len(list) : Idle(list[i], a)
  PROVE  Chain(list, a, a)
<1>1. ASSUME NEW i \in 1 .. Len(list) PROVE Turn(list[i], a, a)
  <2>1. PICK c : c = list[i] /\ Idle(c, a)
    OBVIOUS
  <2>2. c.op \in {"Receive", "Expect"} \/ c.op = "ReadStatus"
    BY <2>1, Zenon DEF Idle
  <2>3. c.op # "Packet" /\ c.op # "ExpectBytes" /\ c.op \in Looks /\ c.op \notin Buffering
    BY <2>2 DEF Looks, Buffering
  <2>4. c.op = "ReadStatus" => ~ a.exact
    <3>1. c.op = "ReadStatus" => c.op \notin {"Receive", "Expect"}
      OBVIOUS
    <3> QED
      BY <2>1, <3>1, Zenon DEF Idle
  <2>5. Turn(c, a, a)
    BY <2>3, <2>4, Zenon DEF Turn
  <2> QED
    BY <2>1, <2>5
<1>2. Len(list) \in Nat
  OBVIOUS
<1> QED
  BY <1>1, <1>2, ChainStill

\* A list with something added at its end.
LEMMA Appended ==
  ASSUME NEW S, NEW s \in Seq(S), NEW j \in S
  PROVE  Append(s, j) \in Seq(S) /\ Len(Append(s, j)) = Len(s) + 1
OBVIOUS

\* The list p leads from a to b.
Way(S, p, a, b) == p \in Seq(S) /\ Chain(p, a, b)

\* A script that leaves so many bytes to upload, for sure or not, and the words alone.
Leaving(list, a, k, t) ==
    \E b \in Fillings : Chain(list, a, b) /\ b.down = a.down /\ b.up = k /\ b.exact = t

\* So does one with a packet that reads last.
LEMMA ReadLeaves ==
  ASSUME NEW p, NEW m \in Nat, NEW k \in 0 .. 8, Reads(p, m, k), NEW t \in BOOLEAN,
         NEW list, NEW n \in Nat, Asks(list, n, p, k, t), NEW a \in Fillings
  PROVE  Leaving(list, a, k, t)
<1>1. \E b \in Fillings : Chain(list, a, b) /\ b.down = a.down /\ b.up = k /\ b.exact = t
  BY ReadChain
<1> QED
  BY <1>1, Zenon DEF Leaving

\* The last packet of the load asks for the first answer of the executive.
LEMMA LoadAsks ==
  ASSUME NEW s \in Fillings
  PROVE  \E b \in Fillings :
             /\ Chain(<<Packet(<<ClearUpload, Instr(FASTDATA), FastLit(CODE), PeResponse>>)>>,
                      s, b)
             /\ b.down = s.down /\ b.up = 4 /\ b.exact = FALSE
<1>0. PICK x : x = <<Packet(<<ClearUpload, Instr(FASTDATA), FastLit(CODE), PeResponse>>)>>
  OBVIOUS
<1>1. PICK c, d, e, f : /\ c = ClearUpload /\ d = Instr(FASTDATA) /\ e = FastLit(CODE)
                        /\ f = PeResponse
  OBVIOUS
<1>2. /\ c.op = "ClearUpload" /\ d.op = "SendCommand" /\ e.op = "XferFastData"
      /\ f.op = "GetPeResp" /\ f.arg = 1
  BY <1>1, Named
<1>3. PICK g : g = <<c, d, e, f>>
  OBVIOUS
<1>4. x = <<Packet(g)>>
  BY <1>0, <1>1, <1>3, Zenon
<1>5. Reads(g, 4, 4) /\ Asks(x, 1, g, 4, FALSE)
  BY <1>2, <1>3, <1>4 DEF Reads, Buffering, Asks
<1>6. 4 \in Nat /\ 4 \in 0 .. 8 /\ 1 \in Nat /\ FALSE \in BOOLEAN
  OBVIOUS
<1>7. Leaving(x, s, 4, FALSE)
  BY <1>5, <1>6, ReadLeaves, Zenon
<1> QED
  BY <1>0, <1>7, Zenon DEF Leaving

\* What the program does about it.
LEMMA LoadLooks ==
  ASSUME NEW b \in Fillings, b.exact = FALSE
  PROVE  Chain(check_timeout, b, b) /\ Chain(<<Receive, Expect("pe")>>, b, b)
<1>1. PICK c, d, e, f : /\ c = ReadStatus(0) /\ d = Expect("ready") /\ e = Receive
                        /\ f = Expect("pe")
  OBVIOUS
<1>2. Idle(c, b) /\ Idle(d, b) /\ Idle(e, b) /\ Idle(f, b)
  <2>1. c.op = "ReadStatus" /\ d.op = "Expect" /\ e.op = "Receive" /\ f.op = "Expect"
    BY <1>1, Named
  <2>3. ~ b.exact
    BY Zenon
  <2>4. "Receive" \in {"Receive", "Expect"} /\ "Expect" \in {"Receive", "Expect"}
    OBVIOUS
  <2> QED
    BY <2>1, <2>3, <2>4, Zenon DEF Idle
<1>3. PICK y, z : y = check_timeout /\ z = <<Receive, Expect("pe")>>
  OBVIOUS
<1>7. y = <<c, d>> /\ z = <<e, f>>
  BY <1>1, <1>3, Zenon DEF check_timeout
<1>4. /\ \A i \in 1 .. Len(y) : Idle(y[i], b)
      /\ \A i \in 1 .. Len(z) : Idle(z[i], b)
  BY <1>2, <1>7
<1>5. PICK S : S = {c, d, e, f}
  OBVIOUS
<1>6. y \in Seq(S) /\ z \in Seq(S)
  BY <1>5, <1>7
<1>8. Chain(y, b, b) /\ Chain(z, b, b)
  BY <1>4, <1>6, LookChain, Zenon
<1> QED
  BY <1>3, <1>8, Zenon

\* The numbers about a packet of n commands are such.
Sized(n, cd, cu, dl, w, us, u, rd, k, b, q, t) ==
    /\ n \in Nat /\ cd \in 0 .. n /\ cu \in 0 .. n /\ dl \in 0 .. n /\ w \in Nat
    /\ us \in 0 .. n /\ u \in Nat /\ rd \in 0 .. n /\ k \in Nat /\ b \in Nat /\ q \in Nat
    /\ t \in BOOLEAN /\ (t => cu > 0)

\* What it leaves then.
LEMMA SizedPacks ==
  ASSUME NEW list, NEW n, n = Len(list), NEW cd, NEW cu, NEW dl, NEW w, NEW us, NEW u,
         NEW rd, NEW k, NEW b, NEW q, NEW t,
         Sized(n, cd, cu, dl, w, us, u, rd, k, b, q, t),
         Shaped(list, n, cd, cu, dl, w, us, u, rd, k), NEW x \in Fillings,
         Amounts(x.down, x.up, cd, cu, dl, w, us, u, rd, k, b, q)
  PROVE  Packed(list, x, Filling(b, q, t))
<1>1. /\ n \in Nat /\ cd \in 0 .. n /\ cu \in 0 .. n /\ dl \in 0 .. n /\ w \in Nat
      /\ us \in 0 .. n /\ u \in Nat /\ rd \in 0 .. n /\ k \in Nat /\ b \in Nat /\ q \in Nat
      /\ t \in BOOLEAN /\ (t => cu > 0)
  BY Zenon DEF Sized
<1>2. x.down \in Nat /\ x.up \in Nat
  BY FillingSizes
<1> QED
  BY <1>1, <1>2, ShapedPacks, ZenonT(60)

\* One of the two halves of the reading of a word.
HalfWord(n) ==
    <<Packet(<<ClearDownload, ClearUpload, Download(Times(n, CODE)),
               Instr(SW_ETAP), Reset5, Give(n), Instr(FASTDATA), Read32>>),
      Receive, ExpectBytes(4)>>

\* What its packet leaves.
LEMMA HalfPacks ==
  ASSUME NEW n \in Nat, NEW p, Shaped(p, 8, 1, 2, 3, n, 6, n, 8, 4), 8 = Len(p),
         NEW a \in Fillings
  PROVE  Packed(p, a, Filling(0, 4, TRUE))
<1>11. PICK x \in Nat, y \in Nat : x = a.down /\ y = a.up
  BY FillingSizes
<1>12. Amounts(x, y, 1, 2, 3, n, 6, n, 8, 4, 0, 4)
  BY DEF Amounts
<1>13. Sized(8, 1, 2, 3, n, 6, n, 8, 4, 0, 4, TRUE)
  BY DEF Sized
<1>14. 8 = Len(p) /\ Amounts(a.down, a.up, 1, 2, 3, n, 6, n, 8, 4, 0, 4)
  BY <1>11, <1>12, Zenon
<1> QED
  BY <1>13, <1>14, SizedPacks, Zenon

\* A packet alone.
LEMMA AloneChain ==
  ASSUME NEW p, NEW a \in Fillings, NEW b \in Fillings, Packed(p, a, b)
  PROVE  Chain(<<Packet(p)>>, a, b)
<1>1. PICK list : list = <<Packet(p)>>
  OBVIOUS
<1>2. Asks(list, 1, p, b.up, b.exact)
  <2>1. 1 = Len(list) /\ 1 > 0 /\ list[1] = Packet(p)
    BY <1>1
  <2>2. \A i \in 2 .. 1 : FALSE
    OBVIOUS
  <2> QED
    BY <2>1, <2>2, Zenon DEF Asks
<1>3. 1 \in Nat
  OBVIOUS
<1>4. Chain(list, a, b)
  BY <1>2, <1>3, AskedChain, Zenon
<1> QED
  BY <1>1, <1>4, Zenon

\* What a packet leaves that downloads words and uses all that there are then.
LEMMA GivePacks ==
  ASSUME NEW w \in Nat, NEW u \in Nat, NEW p, Shaped(p, 3, 0, 0, 1, w, 3, u, 0, 0),
         3 = Len(p), NEW a \in Fillings, u = a.down + w
  PROVE  Packed(p, a, Filling(0, a.up, FALSE))
<1>1. PICK x \in Nat, y \in Nat : x = a.down /\ y = a.up
  BY FillingSizes
<1>2. Amounts(x, y, 0, 0, 1, w, 3, u, 0, 0, 0, y)
  <2>1. u = x + w
    BY <1>1, Zenon
  <2> QED
    BY <2>1 DEF Amounts
<1>3. Sized(3, 0, 0, 1, w, 3, u, 0, 0, 0, y, FALSE)
  BY DEF Sized
<1>4. Amounts(a.down, a.up, 0, 0, 1, w, 3, u, 0, 0, 0, a.up)
  BY <1>1, <1>2, Zenon
<1>5. Sized(3, 0, 0, 1, w, 3, u, 0, 0, 0, a.up, FALSE)
  BY <1>1, <1>3, Zenon
<1> QED
  BY <1>4, <1>5, SizedPacks, Zenon

\* The buffers with so many words more than none, and the bytes as they were.
LEMMA WordsHeld ==
  ASSUME NEW n \in Downs, NEW a \in Fillings
  PROVE  \E b \in Fillings : b = Filling(n, a.up, FALSE) /\ b.down = n /\ b.up = a.up
<1>0. a.up \in Ups
  BY FillingSizes, Zenon
<1>1. PICK v \in Ups : v = a.up
  BY <1>0
<1>2. PICK t \in BOOLEAN : t = FALSE
  BY Zenon
<1>3. PICK b \in Fillings : /\ b = Filling(n, v, t) /\ b.down = n /\ b.up = v
                            /\ b.exact = t
  BY FillingFits
<1> QED
  BY <1>1, <1>2, <1>3, Zenon

\* A packet that at most clears the upload buffer, as the first thing it does.
Plainly(p) ==
    \A i \in 1 .. Len(p) : p[i].op \notin Buffering \/ (i = 1 /\ p[i].op = "ClearUpload")

\* It leads to a state with as many words, and as many bytes or none.
Cleared(list, a) ==
    \E b \in Fillings : /\ Chain(list, a, b) /\ b.down = a.down
                        /\ b.up \in {0, a.up} /\ b.exact = FALSE

\* So does such a packet alone.
LEMMA PlainChain ==
  ASSUME NEW p, Len(p) \in Nat, Plainly(p), NEW a \in Fillings
  PROVE  Cleared(<<Packet(p)>>, a)
<1>1. a.down \in Nat /\ a.up \in Nat /\ a.down \in Downs /\ a.up \in Ups
  BY FillingSizes
<1>2. PICK q \in {0, a.up} : Packed(p, a, Filling(a.down, q, FALSE))
  BY <1>1, PlainPacks, Zenon DEF Plainly
<1>8. q \in Ups
  <2>1. 0 \in Ups
    BY DEF Ups
  <2> QED
    BY <1>1, <2>1
<1>3. PICK d \in Downs, v \in Ups : d = a.down /\ v = q
  BY <1>1, <1>8, Zenon
<1>6. PICK t \in BOOLEAN : t = FALSE
  BY Zenon
<1>7. PICK b \in Fillings : /\ b = Filling(d, v, t) /\ b.down = d /\ b.up = v
                            /\ b.exact = t
  BY FillingFits
<1>4. b = Filling(a.down, q, FALSE) /\ b.down = a.down /\ b.up = q /\ b.exact = FALSE
  BY <1>3, <1>6, <1>7, Zenon
<1>5. Chain(<<Packet(p)>>, a, b)
  BY <1>2, <1>4, AloneChain, Zenon
<1> QED
  BY <1>4, <1>5, Zenon DEF Cleared

\* The last packet of a row asks for the answer.
LEMMA RowAsks ==
  ASSUME NEW a \in Fillings
  PROVE  Leaving(<<Packet(<<ClearUpload, PeResponse>>), Receive, ExpectBytes(4),
                   Expect("pe")>>, a, 4, TRUE)
<1>1. PICK c, d, e, f, g : /\ c = ClearUpload /\ d = PeResponse /\ e = Receive
                           /\ f = ExpectBytes(4) /\ g = Expect("pe")
  OBVIOUS
<1>2. /\ c.op = "ClearUpload" /\ d.op = "GetPeResp" /\ d.arg = 1
      /\ e.op = "Receive" /\ f.op = "ExpectBytes" /\ f.arg = 4 /\ g.op = "Expect"
  BY <1>1, Named
<1>3. PICK p, list : p = <<c, d>> /\ list = <<Packet(p), e, f, g>>
  OBVIOUS
<1>4. Reads(p, 2, 4) /\ Asks(list, 4, p, 4, TRUE)
  BY <1>2, <1>3 DEF Reads, Buffering, Asks
<1>5. 2 \in Nat /\ 4 \in 0 .. 8 /\ 4 \in Nat /\ TRUE \in BOOLEAN
  OBVIOUS
<1>6. Leaving(list, a, 4, TRUE)
  BY <1>4, <1>5, ReadLeaves, Zenon
<1> QED
  BY <1>1, <1>3, <1>6, Zenon

\* The packet that has the executive read a block, and the program fetch it.
Fetch ==
    <<Packet(<<ClearUpload, Instr(FASTDATA), FastLit(CODE), FastBuf(1),
               Do("WaitPeResp", 0), Do("GetPeResp", 32)>>),
      Receive, Receive>>

\* What a packet leaves that uses a word and reads k bytes.
LEMMA FetchPacks ==
  ASSUME NEW n \in Nat, NEW k \in Nat, NEW p, Shaped(p, 6, 0, 1, 0, 0, 4, 1, 6, k),
         6 = Len(p), NEW a \in Fillings, a.down = n + 1
  PROVE  Packed(p, a, Filling(n, k, FALSE))
<1>1. PICK x \in Nat, y \in Nat : x = a.down /\ y = a.up
  BY FillingSizes
<1>2. Amounts(x, y, 0, 1, 0, 0, 4, 1, 6, k, n, k)
  <2>1. x = n + 1
    BY <1>1, Zenon
  <2> QED
    BY <2>1 DEF Amounts
<1>3. Sized(6, 0, 1, 0, 0, 4, 1, 6, k, n, k, FALSE)
  BY DEF Sized
<1>4. Amounts(a.down, a.up, 0, 1, 0, 0, 4, 1, 6, k, n, k)
  BY <1>1, <1>2, Zenon
<1> QED
  BY <1>3, <1>4, SizedPacks, Zenon

\* It takes one of the words, and leaves k bytes where k is what 32 answers are.
LEMMA FetchChain ==
  ASSUME NEW n \in Nat, NEW k \in Nat, k = 4 * 32, NEW a \in Fillings, a.down = n + 1,
         NEW b \in Fillings, b = Filling(n, k, FALSE), b.exact = FALSE
  PROVE  Chain(Fetch, a, b)
<1>1. PICK c, d, e : c = ClearUpload /\ d = Instr(FASTDATA) /\ e = FastLit(CODE)
  OBVIOUS
<1>2. PICK f, g, h : f = FastBuf(1) /\ g = Do("WaitPeResp", 0) /\ h = Do("GetPeResp", 32)
  OBVIOUS
<1>3. c.op = "ClearUpload" /\ d.op = "SendCommand" /\ e.op = "XferFastData"
  BY <1>1, Named
<1>4. /\ f.op = "XfrFastBuf" /\ f.arg = 1 /\ g.op = "WaitPeResp" /\ h.op = "GetPeResp"
      /\ h.arg = 32
  BY <1>2, Named
<1>5. PICK p, r, list : /\ p = <<c, d, e, f, g, h>> /\ r = Receive
                        /\ list = <<Packet(p), r, r>>
  OBVIOUS
<1>6. list = Fetch
  BY <1>1, <1>2, <1>5, Zenon DEF Fetch
<1>7. Shaped(p, 6, 0, 1, 0, 0, 4, 1, 6, k)
  BY <1>3, <1>4, <1>5 DEF Shaped
<1>8. 6 = Len(p)
  BY <1>5
<1>9. Packed(p, a, b)
  BY <1>7, <1>8, FetchPacks, Zenon
<1>10. r.op = "Receive"
  BY <1>5, Named
<1>11. Asks(list, 3, p, b.up, b.exact)
  <2>1. 3 = Len(list) /\ 3 > 0 /\ list[1] = Packet(p)
    BY <1>5
  <2>2. \A i \in 2 .. 3 : list[i].op \in {"Receive", "Expect"}
    BY <1>5, <1>10
  <2> QED
    BY <2>1, <2>2, Zenon DEF Asks
<1>12. 3 \in Nat
  OBVIOUS
<1> QED
  BY <1>6, <1>9, <1>11, <1>12, AskedChain, Zenon

\* A command that leaves the buffers as they are, and does not count on them.
Hushed(c) ==
    \/ c.op = "Packet" /\ Len(c.arg) \in Nat
                       /\ \A i \in 1 .. Len(c.arg) : c.arg[i].op \notin Buffering
    \/ c.op \notin Buffering \cup {"Packet", "ExpectBytes"}

\* It does, where nothing is known for sure of the bytes.
LEMMA SilentTurn ==
  ASSUME NEW c, Hushed(c), NEW a \in Fillings, a.exact = FALSE
  PROVE  Turn(c, a, a)
<1>1. CASE c.op = "Packet"
  <2>0. PICK p : p = c.arg
    OBVIOUS
  <2>1. PICK n \in Nat : p = c.arg /\ n = Len(p) /\ \A i \in 1 .. n : p[i].op \notin Buffering
    <3>1. "Packet" \in Buffering \cup {"Packet", "ExpectBytes"}
      OBVIOUS
    <3>2. Len(c.arg) \in Nat /\ \A i \in 1 .. Len(c.arg) : c.arg[i].op \notin Buffering
      BY <1>1, <3>1, Zenon DEF Hushed
    <3> QED
      BY <2>0, <3>2, Zenon
  <2>2. Shaped(p, n, 0, 0, 0, 0, 0, 0, 0, 0)
    BY <2>1 DEF Shaped, Buffering
  <2>3. PICK x \in Downs, y \in Ups : x = a.down /\ y = a.up
    BY FillingSizes, Zenon
  <2>4. Amounts(x, y, 0, 0, 0, 0, 0, 0, 0, 0, x, y)
    BY DEF Amounts, Downs, Ups
  <2>5. Sized(n, 0, 0, 0, 0, 0, 0, 0, 0, x, y, FALSE)
    BY DEF Sized, Downs, Ups
  <2>6. Packed(p, a, Filling(x, y, FALSE))
    BY <2>1, <2>2, <2>3, <2>4, <2>5, SizedPacks, Zenon
  <2>7. a = Filling(x, y, FALSE)
    <3>1. a = [down |-> a.down, up |-> a.up, exact |-> a.exact]
      BY DEF Fillings
    <3> QED
      BY <2>3, <3>1, Zenon DEF Filling
  <2>8. Packed(p, a, a)
    BY <2>6, <2>7, Zenon
  <2>9. c.op # "ExpectBytes" /\ c.op # "ReadStatus"
    BY <1>1
  <2> QED
    BY <1>1, <2>1, <2>8, <2>9, Zenon DEF Turn
<1>2. CASE c.op # "Packet"
  <2>1. c.op \notin Buffering /\ c.op # "ExpectBytes"
    BY <1>2 DEF Hushed
  <2>2. ~ a.exact
    BY Zenon
  <2> QED
    BY <1>2, <2>1, <2>2, Zenon DEF Turn
<1> QED
  BY <1>1, <1>2

\* A script of such commands.
LEMMA SilentChain ==
  ASSUME NEW list, Len(list) \in Nat, \A i \in 1 .. Len(list) : Hushed(list[i]),
         NEW a \in Fillings, a.exact = FALSE
  PROVE  Chain(list, a, a)
<1>1. \A i \in 1 .. Len(list) : Turn(list[i], a, a)
  BY SilentTurn, Zenon
<1> QED
  BY <1>1, ChainStill

\* One after a packet that at most clears the upload buffer.
LEMMA ClearChain ==
  ASSUME NEW p, Len(p) \in Nat, Plainly(p), NEW list, NEW n \in Nat \ {0}, n = Len(list),
         list[1] = Packet(p), \A i \in 2 .. n : Hushed(list[i]), NEW a \in Fillings
  PROVE  Cleared(list, a)
<1>1. PICK b \in Fillings : /\ Chain(<<Packet(p)>>, a, b) /\ b.down = a.down
                            /\ b.up \in {0, a.up} /\ b.exact = FALSE
  BY PlainChain, Zenon DEF Cleared
<1>2. Turn(list[1], a, b)
  <2>1. PICK q : q = <<Packet(p)>>
    OBVIOUS
  <2>2. Len(q) = 1 /\ q[1] = Packet(p)
    BY <2>1
  <2>3. PICK h : /\ \A i \in 0 .. 1 : h[i] \in Fillings
                 /\ h[0] = a /\ h[1] = b
                 /\ \A i \in 1 .. 1 : Turn(q[i], h[i - 1], h[i])
    BY <1>1, <2>1, <2>2, Zenon DEF Chain
  <2>4. 1 \in 1 .. 1 /\ 1 - 1 = 0
    OBVIOUS
  <2>5. Turn(q[1], h[0], h[1])
    BY <2>3, <2>4, Zenon
  <2> QED
    BY <2>2, <2>3, <2>5, Zenon
<1>3. \A i \in 2 .. n : Turn(list[i], b, b)
  BY <1>1, SilentTurn, Zenon
<1>4. Chain(list, a, b)
  BY <1>2, <1>3, ChainHead
<1> QED
  BY <1>1, <1>4, Zenon DEF Cleared

\* A packet that counts.
LEMMA CountPacks ==
  ASSUME NEW list, NEW n \in Nat, n = Len(list), NEW r, NEW f, NEW g,
         Counts(list, n, r, f, g), NEW a \in Fillings, NEW b \in Fillings,
         f[0] = a.down, g[0] = a.up, f[n] = b.down, g[n] = b.up, b.exact = FALSE
  PROVE  Packed(list, a, b)
BY Zenon DEF Packed

\* The positions at which the packet of serial execution reads a byte.
ByteAt == {3, 6, 12, 13}

\* How many it has read by then.
BytesBy(i) ==
    IF i < 3 THEN 0 ELSE IF i < 6 THEN 1 ELSE IF i < 12 THEN 2 ELSE IF i < 13 THEN 3 ELSE 4

\* A state that is not known exactly.
Soft(b, x, y) ==
    b \in Fillings /\ b = Filling(x, y, FALSE) /\ b.down = x /\ b.up = y /\ b.exact = FALSE

\* There is one of each size.
LEMMA SoftFilling ==
  ASSUME NEW x \in Downs, NEW y \in Ups
  PROVE  Soft(Filling(x, y, FALSE), x, y)
<1>1. PICK t \in BOOLEAN : t = FALSE
  OBVIOUS
<1>2. PICK b \in Fillings : b = Filling(x, y, t) /\ b.down = x /\ b.up = y /\ b.exact = t
  BY FillingFits
<1> QED
  BY <1>1, <1>2, Zenon DEF Soft

\* A packet that reads bytes there, and leaves the words.
LEMMA BytePacks ==
  ASSUME NEW list, Len(list) = 13,
         \A i \in 1 .. 13 : /\ i \in ByteAt => list[i].op = "XferData8"
                            /\ i \notin ByteAt => list[i].op \notin Buffering,
         NEW a \in Fillings, a.up + 4 \in Ups
  PROVE  Packed(list, a, Filling(a.down, a.up + 4, FALSE))
<1>1. PICK x \in Downs, y \in Ups : x = a.down /\ y = a.up
  BY FillingSizes, Zenon
<1>2. PICK f, g : /\ f = [i \in 0 .. 13 |-> x]
                  /\ g = [i \in 0 .. 13 |-> y + BytesBy(i)]
  OBVIOUS
<1>3. \A i \in 0 .. 13 : f[i] \in Nat /\ g[i] \in Nat
  BY <1>2 DEF BytesBy, Downs, Ups
<1>4. ASSUME NEW i \in 1 .. 13
      PROVE  /\ Counted(list[i], f[i - 1], g[i - 1], f[i], g[i])
             /\ list[i].op \notin {"XferInstBuf", "GetPeResp"}
  <2>1. i \in 0 .. 13 /\ i - 1 \in 0 .. 13
    OBVIOUS
  <2>2. /\ f[i - 1] = x /\ f[i] = x /\ g[i - 1] = y + BytesBy(i - 1)
        /\ g[i] = y + BytesBy(i)
    BY <1>2, <2>1
  <2>3. /\ i \in ByteAt => g[i] = g[i - 1] + 1
        /\ i \notin ByteAt => g[i] = g[i - 1]
    BY <1>1, <2>2 DEF BytesBy, ByteAt, Ups
  <2>4. CASE i \in ByteAt
    <3>1. list[i].op = "XferData8"
      BY <2>4
    <3> QED
      BY <2>2, <2>3, <2>4, <3>1 DEF Counted
  <2>5. CASE i \notin ByteAt
    <3>1. list[i].op \notin Buffering
      BY <2>5
    <3> QED
      BY <2>2, <2>3, <2>5, <3>1 DEF Counted, Buffering
  <2> QED
    BY <2>4, <2>5
<1>5. Counts(list, 13, 0, f, g)
  BY <1>3, <1>4 DEF Counts
<1>6. f[0] = x /\ f[13] = x /\ g[0] = y /\ g[13] = y + 4
  BY <1>1, <1>2 DEF BytesBy, Ups
<1>7. PICK v \in Ups : v = y + 4
  BY <1>1
<1>8. PICK b : b = Filling(x, v, FALSE) /\ Soft(b, x, v)
  BY SoftFilling, Zenon
<1>9. 13 \in Nat /\ 13 = Len(list)
  OBVIOUS
<1>10. /\ f[0] = a.down /\ g[0] = a.up /\ f[13] = b.down /\ g[13] = b.up
       /\ b \in Fillings /\ b.exact = FALSE
  BY <1>1, <1>6, <1>7, <1>8, Zenon DEF Soft
<1>11. Packed(list, a, b)
  BY <1>5, <1>9, <1>10, CountPacks, Zenon
<1>12. v = a.up + 4
  BY <1>1, <1>7, Zenon
<1>13. b = Filling(a.down, a.up + 4, FALSE)
  BY <1>1, <1>8, <1>12, Zenon
<1> QED
  BY <1>11, <1>13, Zenon

\* The script that begins serial execution adds four bytes.
LEMMA SerialChain ==
  ASSUME NEW a \in Fillings, a.up + 4 \in Ups
  PROVE  \E b \in Fillings :
             /\ Chain(pickit_serial_execution, a, b)
             /\ b.down = a.down /\ b.up = a.up + 4 /\ b.exact = FALSE
<1>1. PICK m, c, z, x, e, r, b, y, q :
          /\ m = Instr(SW_MTAP) /\ c = Instr(COMMAND) /\ z = Read8(0) /\ x = Read8(209)
          /\ e = Instr(SW_ETAP) /\ r = Reset5 /\ b = Instr(EJTAGBOOT) /\ y = Read8(208)
          /\ q = Read8(254)
  BY Zenon
<1>2. PICK steps : steps = <<m, c, z, m, c, x, e, r, b, m, c, y, q>>
  OBVIOUS
<1>3. pickit_serial_execution = <<Packet(steps)>>
  BY <1>1, <1>2, ZenonT(60) DEF pickit_serial_execution
<1>4. /\ m.op = "SendCommand" /\ c.op = "SendCommand" /\ z.op = "XferData8"
      /\ x.op = "XferData8" /\ e.op = "SendCommand" /\ r.op = "SetMode"
      /\ b.op = "SendCommand" /\ y.op = "XferData8" /\ q.op = "XferData8"
  BY <1>1 DEF Instr, Read8, Reset5, Do
<1>5. Len(steps) = 13
  BY <1>2
<1>6. /\ steps[1] = m /\ steps[2] = c /\ steps[3] = z /\ steps[4] = m /\ steps[5] = c
      /\ steps[6] = x /\ steps[7] = e /\ steps[8] = r /\ steps[9] = b /\ steps[10] = m
      /\ steps[11] = c /\ steps[12] = y /\ steps[13] = q
  BY <1>2
<1>7. ASSUME NEW i \in 1 .. 13
      PROVE  /\ i \in ByteAt => steps[i].op = "XferData8"
             /\ i \notin ByteAt => steps[i].op \notin Buffering
  <2>1. /\ steps[3].op = "XferData8" /\ steps[6].op = "XferData8"
        /\ steps[12].op = "XferData8" /\ steps[13].op = "XferData8"
    BY <1>4, <1>6, Zenon
  <2>2. /\ steps[1].op = "SendCommand" /\ steps[2].op = "SendCommand"
        /\ steps[4].op = "SendCommand" /\ steps[5].op = "SendCommand"
        /\ steps[7].op = "SendCommand" /\ steps[8].op = "SetMode"
        /\ steps[9].op = "SendCommand" /\ steps[10].op = "SendCommand"
        /\ steps[11].op = "SendCommand"
    BY <1>4, <1>6, Zenon
  <2> QED
    BY <2>1, <2>2 DEF ByteAt, Buffering
<1>8. PICK t : t = Filling(a.down, a.up + 4, FALSE)
  OBVIOUS
<1>9. Packed(steps, a, t)
  BY <1>5, <1>7, <1>8, BytePacks
<1>10. t \in Fillings /\ t.down = a.down /\ t.up = a.up + 4 /\ t.exact = FALSE
  <2>0. a.down \in Downs
    BY FillingSizes
  <2>1. PICK u \in Downs, v \in Ups : u = a.down /\ v = a.up + 4
    BY <2>0, Zenon
  <2>2. Soft(Filling(u, v, FALSE), u, v)
    BY SoftFilling, Zenon
  <2>3. Soft(t, a.down, a.up + 4)
    BY <1>8, <2>1, <2>2, Zenon
  <2> QED
    BY <2>3, Zenon DEF Soft
<1>11. Chain(pickit_serial_execution, a, t)
  BY <1>3, <1>9, <1>10, AloneChain, Zenon
<1> QED
  BY <1>10, <1>11

\* The start of a session.
LEMMA OpenChain ==
  ASSUME NEW supply, NEW a \in Fillings, a.exact = FALSE
  PROVE  Chain(adapter_open_pickit(supply), a, a)
<1>1. PICK c, d, e : c = Do("Supply", 0) /\ d = Do("Ground", 0) /\ e = Do("Supply", 1)
  OBVIOUS
<1>2. c.op = "Supply" /\ d.op = "Ground" /\ e.op = "Supply"
  BY <1>1, Named
<1>3. PICK p, q, r : p = <<c>> /\ q = <<d>> /\ r = <<e>>
  OBVIOUS
<1>4. PICK x, y, z, w, u : /\ x = Packet(p) /\ y = Packet(q) /\ z = Packet(r)
                           /\ w = ReadStatus(1) /\ u = Expect("power")
  OBVIOUS
<1>5. Hushed(x) /\ Hushed(y) /\ Hushed(z)
  <2>1. /\ x.op = "Packet" /\ x.arg = p /\ y.op = "Packet" /\ y.arg = q
        /\ z.op = "Packet" /\ z.arg = r
    BY <1>4 DEF Packet, Do
  <2>2. /\ Len(p) \in Nat /\ \A i \in 1 .. Len(p) : p[i].op \notin Buffering
        /\ Len(q) \in Nat /\ \A i \in 1 .. Len(q) : q[i].op \notin Buffering
        /\ Len(r) \in Nat /\ \A i \in 1 .. Len(r) : r[i].op \notin Buffering
    BY <1>2, <1>3 DEF Buffering
  <2> QED
    BY <2>1, <2>2, Zenon DEF Hushed
<1>6. Hushed(w) /\ Hushed(u)
  <2>1. w.op = "ReadStatus" /\ u.op = "Expect"
    BY <1>4, Named
  <2> QED
    BY <2>1 DEF Hushed, Buffering
<1>7. PICK head, tail : head = <<x, y, w, u>> /\ tail = <<z, w, u>>
  OBVIOUS
<1>8. adapter_open_pickit(supply) = head \o (IF supply = "board" THEN <<>> ELSE tail)
  BY <1>1, <1>3, <1>4, <1>7, Zenon DEF adapter_open_pickit
<1>9. Chain(head, a, a)
  <2>1. Len(head) \in Nat /\ \A i \in 1 .. Len(head) : Hushed(head[i])
    BY <1>5, <1>6, <1>7
  <2> QED
    BY <2>1, SilentChain, Zenon
<1>10. Chain(tail, a, a)
  <2>1. Len(tail) \in Nat /\ \A i \in 1 .. Len(tail) : Hushed(tail[i])
    BY <1>5, <1>6, <1>7
  <2> QED
    BY <2>1, SilentChain, Zenon
<1>11. PICK S : S = {x, y, z, w, u}
  OBVIOUS
<1>12. head \in Seq(S) /\ tail \in Seq(S)
  BY <1>7, <1>11
<1>13. CASE supply = "board"
  <2>1. head \o <<>> = head
    BY <1>12, ConcatEmptySeq, Zenon
  <2> QED
    BY <1>8, <1>9, <1>13, <2>1, Zenon
<1>14. CASE supply # "board"
  <2>1. Chain(head \o tail, a, a)
    BY <1>9, <1>10, <1>12, ChainCat, Zenon
  <2> QED
    BY <1>8, <1>14, <2>1, Zenon
<1> QED
  BY <1>13, <1>14

\* The steps that are among them.
QuietOps ==
    {"SendCommand", "SetMode", "XferWord", "GetPEResponse", "XferByte",
     "XferInstruction", "XferFastData", "Expect", "Bitbang", "Supply"}

\* A device with the same buffers holds the same, at least.
LEMMA HoldsSoft ==
  ASSUME NEW d, NEW e, NEW x \in Fillings, Holds(d, x), SameBuffers(d, e)
  PROVE  \E y \in Fillings : Holds(e, y) /\ y.exact = FALSE /\ y.up = x.up
<1>1. PICK u \in Downs, v \in Ups : u = x.down /\ v = x.up
  BY FillingSizes, Zenon
<1>2. PICK y : y = Filling(u, v, FALSE) /\ Soft(y, u, v)
  BY SoftFilling, Zenon
<1>3. y \in Fillings /\ y.down = u /\ y.up = v /\ y.exact = FALSE
  BY <1>2, Zenon DEF Soft
<1>4. e.download = d.download /\ e.upload = d.upload /\ e.dry = d.dry
  BY DEF SameBuffers
<1>5. Holds(e, y)
  <2>1. /\ d.download \in Seq(Nat) /\ Len(d.download) = u
        /\ d.upload \in Nat /\ d.upload <= v /\ ~ d.dry
    BY <1>1, Zenon DEF Holds
  <2>2. ~ y.exact
    BY <1>3, Zenon
  <2>3. /\ e.download \in Seq(Nat) /\ Len(e.download) = y.down
        /\ e.upload \in Nat /\ e.upload <= y.up /\ ~ e.dry
    BY <1>3, <1>4, <2>1, Zenon
  <2> QED
    BY <2>2, <2>3, Zenon DEF Holds
<1> QED
  BY <1>1, <1>3, <1>5, Zenon

\* The program of an empty list leads nowhere else.
LEMMA ChainEnd ==
  ASSUME NEW a, NEW b, Chain(<<>>, a, b)
  PROVE  a = b
<1>1. PICK e : e = <<>>
  OBVIOUS
<1>2. Len(e) = 0
  BY <1>1
<1>3. PICK h : h[0] = a /\ h[Len(e)] = b
  BY <1>1, Zenon DEF Chain
<1> QED
  BY <1>2, <1>3, Zenon

\* It does lead there.
LEMMA ChainNone ==
  ASSUME NEW a \in Fillings
  PROVE  Chain(<<>>, a, a)
<1>1. PICK e : e = <<>>
  OBVIOUS
<1>2. Len(e) = 0
  BY <1>1
<1>5. \A i \in 1 .. Len(e) : Turn(e[i], a, a)
  <2>1. \A i \in 1 .. 0 : FALSE
    OBVIOUS
  <2> QED
    BY <1>2, <2>1, Zenon
<1>6. Len(e) \in Nat
  BY <1>2
<1>7. Chain(e, a, a)
  BY <1>5, <1>6, ChainStill, Zenon
<1> QED
  BY <1>1, <1>7, Zenon
=============================================================================
