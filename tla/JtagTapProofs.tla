--------------------------- MODULE JtagTapProofs ----------------------------
(***************************************************************************)
(* Theorems about JtagTap: what the firmware's pseudo operations do to the  *)
(* port, for data of any length and any instruction.                        *)
(*                                                                         *)
(* A sequence of clocks is a function that JtagTap defines by recursion.    *)
(* Facts about it for every length are proved from the well-foundedness of  *)
(* < on the naturals, for the set of the lengths they hold of (UpTo).       *)
(***************************************************************************)
EXTENDS JtagTap, TLAPS, WellFoundedInduction, SequenceTheorems

-----------------------------------------------------------------------------
(* One clock.                                                              *)

\* The edges of the port's state diagram.
LEMMA Edges ==
  /\ Follows["Reset"] = <<"Idle", "Reset">>
  /\ Follows["Idle"] = <<"Idle", "SelectDR">>
  /\ Follows["SelectDR"] = <<"CaptureDR", "SelectIR">>
  /\ Follows["CaptureDR"] = <<"ShiftDR", "Exit1DR">>
  /\ Follows["ShiftDR"] = <<"ShiftDR", "Exit1DR">>
  /\ Follows["Exit1DR"] = <<"PauseDR", "UpdateDR">>
  /\ Follows["UpdateDR"] = <<"Idle", "SelectDR">>
  /\ Follows["SelectIR"] = <<"CaptureIR", "Reset">>
  /\ Follows["CaptureIR"] = <<"ShiftIR", "Exit1IR">>
  /\ Follows["ShiftIR"] = <<"ShiftIR", "Exit1IR">>
  /\ Follows["Exit1IR"] = <<"PauseIR", "UpdateIR">>
  /\ Follows["UpdateIR"] = <<"Idle", "SelectDR">>
<1>1. /\ Follows["Reset"] = <<"Idle", "Reset">>
      /\ Follows["Idle"] = <<"Idle", "SelectDR">>
      /\ Follows["SelectDR"] = <<"CaptureDR", "SelectIR">>
  BY DEF Follows
<1>2. /\ Follows["CaptureDR"] = <<"ShiftDR", "Exit1DR">>
      /\ Follows["ShiftDR"] = <<"ShiftDR", "Exit1DR">>
      /\ Follows["Exit1DR"] = <<"PauseDR", "UpdateDR">>
      /\ Follows["UpdateDR"] = <<"Idle", "SelectDR">>
  BY DEF Follows
<1>3. /\ Follows["SelectIR"] = <<"CaptureIR", "Reset">>
      /\ Follows["CaptureIR"] = <<"ShiftIR", "Exit1IR">>
      /\ Follows["ShiftIR"] = <<"ShiftIR", "Exit1IR">>
  BY DEF Follows
<1>4. /\ Follows["Exit1IR"] = <<"PauseIR", "UpdateIR">>
      /\ Follows["UpdateIR"] = <<"Idle", "SelectDR">>
  BY DEF Follows
<1> QED
  BY <1>1, <1>2, <1>3, <1>4, Zenon

\* The parts of a port after one clock: the state and the registers.
LEMMA ClockedState ==
  ASSUME NEW tap, NEW bit
  PROVE  Clock(tap, bit).state = Follows[tap.state][bit.tms + 1]
BY Zenon DEF Clock

LEMMA ClockedShiftIR ==
  ASSUME NEW tap, NEW bit
  PROVE  Clock(tap, bit).shiftIR =
           IF tap.state = "CaptureIR" THEN <<1, 0, 0, 0, 0>>
           ELSE IF tap.state = "ShiftIR"
           THEN Append(Tail(tap.shiftIR), bit.tdi) ELSE tap.shiftIR
<1>1. CASE tap.state = "CaptureIR"
  BY <1>1, Zenon DEF Clock
<1>2. CASE tap.state = "ShiftIR"
  BY <1>2, Zenon DEF Clock
<1>3. CASE tap.state # "CaptureIR" /\ tap.state # "ShiftIR"
  BY <1>3, Zenon DEF Clock
<1> QED
  BY <1>1, <1>2, <1>3, Zenon

LEMMA ClockedShiftDR ==
  ASSUME NEW tap, NEW bit, NEW next, Clock(tap, bit).state = next,
         tap.state = "ShiftDR" => next # "UpdateDR"
  PROVE  Clock(tap, bit).shiftDR =
           IF tap.state = "ShiftDR" THEN Append(tap.shiftDR, bit.tdi)
           ELSE IF tap.state = "CaptureDR" \/ next = "UpdateDR" THEN <<>>
           ELSE tap.shiftDR
<1>1. next = Follows[tap.state][bit.tms + 1]
  BY ClockedState
<1>2. CASE tap.state = "ShiftDR"
  BY <1>1, <1>2, Zenon DEF Clock
<1>3. CASE tap.state = "CaptureDR"
  BY <1>1, <1>3, Zenon DEF Clock
<1>4. CASE tap.state # "ShiftDR" /\ next = "UpdateDR"
  BY <1>1, <1>4, Zenon DEF Clock
<1>5. CASE tap.state # "CaptureDR" /\ tap.state # "ShiftDR" /\ next # "UpdateDR"
  BY <1>1, <1>5, Zenon DEF Clock
<1> QED
  BY <1>2, <1>3, <1>4, <1>5, Zenon

\* The same: the instruction, the controller, the scans and EJTAGBOOT.
LEMMA ClockedIR ==
  ASSUME NEW tap, NEW bit, NEW next, Clock(tap, bit).state = next
  PROVE  Clock(tap, bit).ir =
           IF next = "Reset" THEN IDCODE
           ELSE IF next = "UpdateIR" THEN ValueOf(tap.shiftIR) ELSE tap.ir
<1>1. next = Follows[tap.state][bit.tms + 1]
  BY ClockedState
<1> QED
  BY <1>1, Zenon DEF Clock

LEMMA ClockedSel ==
  ASSUME NEW tap, NEW bit, NEW next, Clock(tap, bit).state = next
  PROVE  /\ next # "UpdateIR" => Clock(tap, bit).sel = tap.sel
         /\ next = "UpdateIR" => Clock(tap, bit).sel =
               IF ValueOf(tap.shiftIR) = SW_MTAP THEN "MTAP"
               ELSE IF ValueOf(tap.shiftIR) = SW_ETAP THEN "ETAP" ELSE tap.sel
<1>1. next = Follows[tap.state][bit.tms + 1]
  BY ClockedState
<1>2. SW_MTAP # SW_ETAP
  BY DEF SW_MTAP, SW_ETAP
<1>3. CASE next # "UpdateIR"
  BY <1>1, <1>3, Zenon DEF Clock
<1>4. CASE next = "UpdateIR" /\ ValueOf(tap.shiftIR) = SW_MTAP
  BY <1>1, <1>2, <1>4, Zenon DEF Clock
<1>5. CASE next = "UpdateIR" /\ ValueOf(tap.shiftIR) = SW_ETAP
  BY <1>1, <1>2, <1>5, Zenon DEF Clock
<1>6. CASE next = "UpdateIR" /\ ValueOf(tap.shiftIR) # SW_MTAP
             /\ ValueOf(tap.shiftIR) # SW_ETAP
  BY <1>1, <1>6, Zenon DEF Clock
<1> QED
  BY <1>3, <1>4, <1>5, <1>6, Zenon

LEMMA ClockedScans ==
  ASSUME NEW tap, NEW bit, NEW next, Clock(tap, bit).state = next
  PROVE  Clock(tap, bit).scans =
           IF next = "UpdateDR"
           THEN Append(tap.scans,
                       [sel |-> tap.sel, ir |-> tap.ir, data |-> tap.shiftDR])
           ELSE tap.scans
<1>1. next = Follows[tap.state][bit.tms + 1]
  BY ClockedState
<1> QED
  BY <1>1, Zenon DEF Clock

LEMMA ClockedBoot ==
  ASSUME NEW tap, NEW bit, NEW next, Clock(tap, bit).state = next
  PROVE  Clock(tap, bit).boot =
           (\/ next = "UpdateIR" /\ tap.sel = "ETAP"
                 /\ ValueOf(tap.shiftIR) = EJTAGBOOT
            \/ tap.boot /\ next # "Reset")
<1>1. next = Follows[tap.state][bit.tms + 1]
  BY ClockedState
<1> QED
  BY <1>1, Zenon DEF Clock

\* What a clock that updates nothing leaves alone.
Quiet(e, t) ==
    /\ e.ir = t.ir /\ e.sel = t.sel /\ e.boot = t.boot /\ e.scans = t.scans
    /\ e.boot \in BOOLEAN

LEMMA QuietClock ==
  ASSUME NEW tap, tap.boot \in BOOLEAN, NEW bit, NEW next,
         Clock(tap, bit).state = next,
         next # "Reset", next # "UpdateIR", next # "UpdateDR"
  PROVE  Quiet(Clock(tap, bit), tap)
<1>1. Clock(tap, bit).boot = tap.boot
  BY ClockedBoot, Zenon
<1>2. Clock(tap, bit).ir = tap.ir /\ Clock(tap, bit).scans = tap.scans
  BY ClockedIR, ClockedScans, Zenon
<1>3. Clock(tap, bit).sel = tap.sel
  BY ClockedSel, Zenon
<1> QED
  BY <1>1, <1>2, <1>3, Zenon DEF Quiet

\* The wires of a bit, and where they lead.
LEMMA Wires ==
  ASSUME NEW tap, NEW tdi
  PROVE  /\ Clock(tap, Bit(0, tdi)).state = Follows[tap.state][1]
         /\ Clock(tap, Bit(1, tdi)).state = Follows[tap.state][2]
         /\ Bit(0, tdi).tdi = tdi /\ Bit(1, tdi).tdi = tdi
<1>1. /\ Bit(0, tdi).tms + 1 = 1 /\ Bit(1, tdi).tms + 1 = 2
      /\ Bit(0, tdi).tdi = tdi /\ Bit(1, tdi).tdi = tdi
  BY DEF Bit
<1> QED
  BY <1>1, ClockedState, Zenon

\* A port stays a record whose state is one of the diagram's.
Fields == {"state", "ir", "sel", "shiftIR", "shiftDR", "scans", "boot"}
Sound(t) ==
    /\ DOMAIN t = Fields
    /\ t.state \in TapState /\ t.boot \in BOOLEAN /\ t.sel \in {"MTAP", "ETAP"}

LEMMA ClockSound ==
  ASSUME NEW tap, Sound(tap), NEW bit, bit.tms \in {0, 1}
  PROVE  Sound(Clock(tap, bit))
<1>1. DOMAIN Clock(tap, bit) = Fields
  BY Zenon DEF Clock, Fields
<1>2. Clock(tap, bit).boot \in BOOLEAN
  BY Zenon DEF Clock, Sound
<1>3. Clock(tap, bit).state \in TapState
  <2>1. \A s \in TapState : /\ Follows[s][1] \in TapState
                            /\ Follows[s][2] \in TapState
    BY DEF TapState, Follows
  <2>2. bit.tms + 1 = 1 \/ bit.tms + 1 = 2
    OBVIOUS
  <2>3. PICK s \in TapState : tap.state = s
    BY Zenon DEF Sound
  <2>4. Clock(tap, bit).state = Follows[s][bit.tms + 1]
    BY <2>3, ClockedState, Zenon
  <2> QED
    BY <2>1, <2>2, <2>4, Zenon
<1>4. Clock(tap, bit).sel \in {"MTAP", "ETAP"}
  <2>1. PICK next : Clock(tap, bit).state = next
    OBVIOUS
  <2>2. tap.sel \in {"MTAP", "ETAP"}
    BY Zenon DEF Sound
  <2> QED
    BY <2>1, <2>2, ClockedSel
<1> QED
  BY <1>1, <1>2, <1>3, <1>4, Zenon DEF Sound

-----------------------------------------------------------------------------
(* The ways through the state diagram that the operations take.            *)

\* From Run-Test/Idle to Shift-DR and to Shift-IR.
LEMMA ToShiftDR ==
  ASSUME NEW tap, tap.boot \in BOOLEAN, tap.state = "Idle",
         NEW a, a = Clock(tap, Bit(1, 0)),
         NEW b, b = Clock(a, Bit(0, 0)),
         NEW c, c = Clock(b, Bit(0, 0))
  PROVE  c.state = "ShiftDR" /\ Quiet(c, tap) /\ c.shiftDR = <<>>
<1>1. a.state = "SelectDR" /\ Quiet(a, tap)
  <2>1. a.state = "SelectDR"
    BY Wires, Edges
  <2> QED
    BY <2>1, QuietClock
<1>2. b.state = "CaptureDR" /\ Quiet(b, a)
  <2>1. b.state = "CaptureDR"
    BY <1>1, Wires, Edges
  <2> QED
    BY <1>1, <2>1, QuietClock DEF Quiet
<1>3. c.state = "ShiftDR" /\ Quiet(c, b) /\ c.shiftDR = <<>>
  <2>1. c.state = "ShiftDR"
    BY <1>2, Wires, Edges
  <2>2. Quiet(c, b)
    BY <1>2, <2>1, QuietClock DEF Quiet
  <2> QED
    BY <1>2, <2>1, <2>2, ClockedShiftDR
<1> QED
  BY <1>1, <1>2, <1>3 DEF Quiet

LEMMA ToShiftIR ==
  ASSUME NEW tap, tap.boot \in BOOLEAN, tap.state = "Idle",
         NEW a, a = Clock(tap, Bit(1, 0)),
         NEW b, b = Clock(a, Bit(1, 0)),
         NEW c, c = Clock(b, Bit(0, 0)),
         NEW d, d = Clock(c, Bit(0, 0))
  PROVE  d.state = "ShiftIR" /\ Quiet(d, tap) /\ d.shiftIR = <<1, 0, 0, 0, 0>>
<1>1. a.state = "SelectDR" /\ Quiet(a, tap)
  <2>1. a.state = "SelectDR"
    BY Wires, Edges
  <2> QED
    BY <2>1, QuietClock
<1>2. b.state = "SelectIR" /\ Quiet(b, a)
  <2>1. b.state = "SelectIR"
    BY <1>1, Wires, Edges
  <2> QED
    BY <1>1, <2>1, QuietClock DEF Quiet
<1>3. c.state = "CaptureIR" /\ Quiet(c, b)
  <2>1. c.state = "CaptureIR"
    BY <1>2, Wires, Edges
  <2> QED
    BY <1>2, <2>1, QuietClock DEF Quiet
<1>4. d.state = "ShiftIR" /\ Quiet(d, c) /\ d.shiftIR = <<1, 0, 0, 0, 0>>
  <2>1. d.state = "ShiftIR"
    BY <1>3, Wires, Edges
  <2>2. Quiet(d, c)
    BY <1>3, <2>1, QuietClock DEF Quiet
  <2> QED
    BY <1>3, <2>1, <2>2, ClockedShiftIR
<1> QED
  BY <1>1, <1>2, <1>3, <1>4 DEF Quiet

\* From Exit1-DR, what was shifted becomes a scan, and the port is idle again.
LEMMA LeaveDR ==
  ASSUME NEW tap, tap.boot \in BOOLEAN, tap.state = "Exit1DR",
         NEW a, a = Clock(tap, Bit(1, 0)),
         NEW b, b = Clock(a, Bit(0, 0))
  PROVE  /\ b.state = "Idle"
         /\ b.ir = tap.ir /\ b.sel = tap.sel /\ b.boot = tap.boot
         /\ b.scans = Append(tap.scans, [sel |-> tap.sel, ir |-> tap.ir,
                                         data |-> tap.shiftDR])
<1>1. a.state = "UpdateDR"
  BY Wires, Edges
<1>2. /\ a.ir = tap.ir
      /\ a.scans = Append(tap.scans, [sel |-> tap.sel, ir |-> tap.ir,
                                      data |-> tap.shiftDR])
  BY <1>1, ClockedIR, ClockedScans, Zenon
<1>3. a.sel = tap.sel
  BY <1>1, ClockedSel, Zenon
<1>4. a.boot = tap.boot
  BY <1>1, ClockedBoot, Zenon
<1>5. b.state = "Idle"
  BY <1>1, Wires, Edges
<1>6. Quiet(b, a)
  BY <1>4, <1>5, QuietClock
<1> QED
  BY <1>2, <1>3, <1>4, <1>5, <1>6, Zenon DEF Quiet

\* From Exit1-IR, what was shifted becomes the instruction.
LEMMA LeaveIR ==
  ASSUME NEW tap, tap.boot \in BOOLEAN, tap.state = "Exit1IR",
         NEW cmd, cmd = ValueOf(tap.shiftIR),
         NEW a, a = Clock(tap, Bit(1, 0)),
         NEW b, b = Clock(a, Bit(0, 0))
  PROVE  /\ b.state = "Idle" /\ b.ir = cmd /\ b.scans = tap.scans
         /\ b.sel = IF cmd = SW_MTAP THEN "MTAP"
                    ELSE IF cmd = SW_ETAP THEN "ETAP" ELSE tap.sel
         /\ b.boot = (tap.boot \/ (tap.sel = "ETAP" /\ cmd = EJTAGBOOT))
<1>1. a.state = "UpdateIR"
  BY Wires, Edges
<1>2. a.ir = cmd /\ a.scans = tap.scans
  BY <1>1, ClockedIR, ClockedScans, Zenon
<1>3. a.sel = IF cmd = SW_MTAP THEN "MTAP"
              ELSE IF cmd = SW_ETAP THEN "ETAP" ELSE tap.sel
  BY <1>1, ClockedSel, Zenon
<1>4. a.boot = (tap.boot \/ (tap.sel = "ETAP" /\ cmd = EJTAGBOOT))
  BY <1>1, ClockedBoot, Zenon
<1>5. a.boot \in BOOLEAN
  BY <1>4, Zenon
<1>6. b.state = "Idle"
  BY <1>1, Wires, Edges
<1>7. Quiet(b, a)
  BY <1>5, <1>6, QuietClock
<1> QED
  BY <1>2, <1>3, <1>4, <1>6, <1>7, Zenon DEF Quiet

-----------------------------------------------------------------------------
(* Runs of clocks.                                                         *)

\* A set that has 0, and with a number the next one, has all up to a bound.
LEMMA UpTo ==
  ASSUME NEW n \in Nat, NEW S, 0 \in S,
         \A i \in 0 .. n - 1 : i \in S => i + 1 \in S
  PROVE  \A i \in 0 .. n : i \in S
<1> SUFFICES ASSUME NEW k \in 0 .. n, k \notin S PROVE FALSE
  OBVIOUS
<1> DEFINE T == {m \in Nat : m <= n /\ m \notin S}
<1>1. T \subseteq Nat /\ k \in T
  OBVIOUS
<1>2. PICK m \in T : \A j \in T : ~ (<<j, m>> \in OpToRel(<, Nat))
  <2> HIDE DEF T
  <2> QED
    BY <1>1, WFMin, NatLessThanWellFounded, Zenon
<1>3. m # 0 /\ m \in Nat /\ m <= n /\ m \notin S
  OBVIOUS
<1>4. m - 1 \in 0 .. n - 1 /\ m - 1 + 1 = m
  BY <1>3
<1>5. m - 1 \in S
  <2>1. CASE m - 1 \in T
    <3>1. <<m - 1, m>> \in OpToRel(<, Nat)
      BY <1>3, <1>4 DEF OpToRel
    <3> QED
      BY <1>2, <2>1, <3>1
  <2>2. CASE m - 1 \notin T
    BY <1>3, <1>4, <2>2
  <2> QED
    BY <2>1, <2>2
<1> QED
  BY <1>3, <1>4, <1>5

\* f gives the port after each of the first m clocks.
Runs(tap, bits, m, f) ==
    f = [i \in 0 .. m |-> IF i = 0 THEN tap ELSE Clock(f[i - 1], bits[i])]

\* There is such a function, for any number of clocks.
LEMMA RunExists ==
  ASSUME NEW tap, NEW bits, NEW n \in Nat
  PROVE  \E f : Runs(tap, bits, n, f)
<1> DEFINE S == {m \in 0 .. n : \E f : Runs(tap, bits, m, f)}
<1>1. 0 \in S
  <2>1. Runs(tap, bits, 0, [i \in 0 .. 0 |-> tap])
    BY DEF Runs
  <2> QED
    BY <2>1
<1>2. \A m \in 0 .. n - 1 : m \in S => m + 1 \in S
  <2> SUFFICES ASSUME NEW m \in 0 .. n - 1, NEW f, Runs(tap, bits, m, f)
               PROVE  \E g : Runs(tap, bits, m + 1, g)
    OBVIOUS
  <2> DEFINE g == [i \in 0 .. m + 1 |->
                      IF i = m + 1 THEN Clock(f[m], bits[m + 1]) ELSE f[i]]
  <2>1. \A i \in 0 .. m : f[i] = IF i = 0 THEN tap ELSE Clock(f[i - 1], bits[i])
    BY DEF Runs
  <2>2. \A i \in 0 .. m + 1 : g[i] = IF i = 0 THEN tap ELSE Clock(g[i - 1], bits[i])
    BY <2>1
  <2>3. Runs(tap, bits, m + 1, g)
    BY <2>2 DEF Runs
  <2> QED
    BY <2>3
<1>3. n \in S
  <2> HIDE DEF S
  <2>1. n \in 0 .. n
    OBVIOUS
  <2> QED
    BY <1>1, <1>2, <2>1, UpTo
<1> QED
  BY <1>3

\* There is no other.
LEMMA RunUnique ==
  ASSUME NEW tap, NEW bits, NEW n \in Nat, NEW f, NEW g,
         Runs(tap, bits, n, f), Runs(tap, bits, n, g)
  PROVE  f = g
<1> DEFINE S == {m \in 0 .. n : f[m] = g[m]}
<1>1. /\ \A i \in 0 .. n : f[i] = IF i = 0 THEN tap ELSE Clock(f[i - 1], bits[i])
      /\ \A i \in 0 .. n : g[i] = IF i = 0 THEN tap ELSE Clock(g[i - 1], bits[i])
  BY DEF Runs
<1>2. 0 \in S
  BY <1>1
<1>3. \A m \in 0 .. n - 1 : m \in S => m + 1 \in S
  BY <1>1
<1>4. \A i \in 0 .. n : i \in S
  <2> HIDE DEF S
  <2> QED
    BY <1>2, <1>3, UpTo
<1> QED
  BY <1>4 DEF Runs

\* It ends where Clocked does.
LEMMA ClockedRun ==
  ASSUME NEW tap, NEW bits, Len(bits) \in Nat, NEW f, Runs(tap, bits, Len(bits), f)
  PROVE  Clocked(tap, bits) = f[Len(bits)]
<1> DEFINE h == CHOOSE g : Runs(tap, bits, Len(bits), g)
<1>1. Runs(tap, bits, Len(bits), h)
  OBVIOUS
<1>2. h = f
  <2> HIDE DEF h
  <2> QED
    BY <1>1, RunUnique
<1>3. Clocked(tap, bits) = h[Len(bits)]
  BY DEF Clocked, Runs
<1> QED
  BY <1>2, <1>3

\* One clock after the others.
LEMMA ClockedMore ==
  ASSUME NEW tap, NEW bits, NEW front, Len(front) \in Nat,
         Len(bits) = Len(front) + 1,
         \A i \in 1 .. Len(front) : front[i] = bits[i]
  PROVE  Clocked(tap, bits) = Clock(Clocked(tap, front), bits[Len(bits)])
<1>0. PICK n \in Nat : Len(front) = n /\ Len(bits) = n + 1
  OBVIOUS
<1>1. PICK f : Runs(tap, bits, n + 1, f)
  <2>1. n + 1 \in Nat
    OBVIOUS
  <2> QED
    BY <2>1, RunExists
<1>2. \A i \in 0 .. n + 1 : f[i] = IF i = 0 THEN tap ELSE Clock(f[i - 1], bits[i])
  BY <1>1 DEF Runs
<1> DEFINE g == [i \in 0 .. n |-> f[i]]
<1>3. \A i \in 0 .. n : g[i] = IF i = 0 THEN tap ELSE Clock(g[i - 1], front[i])
  BY <1>0, <1>2
<1>4. Runs(tap, front, n, g)
  BY <1>3 DEF Runs
<1>5. Clocked(tap, front) = f[n]
  BY <1>0, <1>4, ClockedRun
<1>6. Clocked(tap, bits) = f[n + 1]
  BY <1>0, <1>1, ClockedRun
<1> QED
  BY <1>0, <1>2, <1>5, <1>6

LEMMA ClockedNone ==
  ASSUME NEW tap PROVE Clocked(tap, <<>>) = tap
<1>1. PICK f : Runs(tap, <<>>, 0, f)
  BY RunExists
<1>2. f[0] = tap
  BY <1>1 DEF Runs
<1> QED
  BY <1>1, <1>2, ClockedRun

\* Clocks of two sequences, one behind the other.
LEMMA ClockedCat ==
  ASSUME NEW tap, NEW S, NEW a \in Seq(S), NEW b \in Seq(S)
  PROVE  Clocked(tap, a \o b) = Clocked(Clocked(tap, a), b)
<1> DEFINE m == Len(a)
           n == Len(b)
<1>1. m \in Nat /\ n \in Nat /\ Len(a \o b) = m + n
  OBVIOUS
<1>2. PICK f : Runs(tap, a \o b, m + n, f)
  <2>1. m + n \in Nat
    BY <1>1
  <2> HIDE DEF m, n
  <2> QED
    BY <2>1, RunExists
<1>3. \A i \in 0 .. m + n :
         f[i] = IF i = 0 THEN tap ELSE Clock(f[i - 1], (a \o b)[i])
  BY <1>2 DEF Runs
<1>7. \A j \in 1 .. m + n : f[j] = Clock(f[j - 1], (a \o b)[j])
  BY <1>1, <1>3
<1> DEFINE g == [i \in 0 .. m |-> f[i]]
           h == [i \in 0 .. n |-> f[m + i]]
<1>4. Clocked(tap, a) = f[m]
  <2>1. \A i \in 1 .. m : (a \o b)[i] = a[i]
    OBVIOUS
  <2>2. \A i \in 0 .. m : g[i] = IF i = 0 THEN tap ELSE Clock(g[i - 1], a[i])
    BY <1>1, <1>3, <2>1
  <2>3. Runs(tap, a, m, g)
    BY <2>2 DEF Runs
  <2> QED
    BY <1>1, <2>3, ClockedRun
<1>5. Clocked(f[m], b) = f[m + n]
  <2>1. \A i \in 1 .. n : (a \o b)[m + i] = b[i]
    OBVIOUS
  <2>2. \A i \in 0 .. n : h[i] = IF i = 0 THEN f[m] ELSE Clock(h[i - 1], b[i])
    <3> TAKE i \in 0 .. n
    <3>1. CASE i = 0
      BY <1>1, <3>1
    <3>2. CASE i # 0
      <4>1. m + i \in 1 .. m + n /\ i - 1 \in 0 .. n
            /\ m + i - 1 = m + (i - 1) /\ i \in 1 .. n
        BY <1>1, <3>2
      <4>2. f[m + i] = Clock(f[m + i - 1], (a \o b)[m + i])
        <5>1. PICK j \in 1 .. m + n : j = m + i
          BY <4>1
        <5>2. f[j] = Clock(f[j - 1], (a \o b)[j])
          BY <1>7
        <5> QED
          BY <5>1, <5>2
      <4>3. h[i] = f[m + i] /\ h[i - 1] = f[m + i - 1] /\ (a \o b)[m + i] = b[i]
        BY <2>1, <4>1
      <4> HIDE DEF h, m, n
      <4> QED
        BY <3>2, <4>2, <4>3
    <3> QED
      BY <3>1, <3>2
  <2>3. Runs(f[m], b, n, h)
    BY <2>2 DEF Runs
  <2> QED
    BY <1>1, <2>3, ClockedRun
<1>6. Clocked(tap, a \o b) = f[m + n]
  <2>1. Runs(tap, a \o b, Len(a \o b), f) /\ Len(a \o b) \in Nat
    BY <1>1, <1>2
  <2>2. Clocked(tap, a \o b) = f[Len(a \o b)]
    BY <2>1, ClockedRun
  <2> QED
    BY <1>1, <2>2
<1> QED
  BY <1>4, <1>5, <1>6

\* Up to four clocks.
LEMMA ClockedOne ==
  ASSUME NEW tap, NEW a
  PROVE  Clocked(tap, <<a>>)
           = Clock(tap, a)
<1> DEFINE bits == <<a>>
           front == <<>>
<1>1. /\ Len(front) \in Nat /\ Len(bits) = Len(front) + 1
      /\ \A i \in 1 .. Len(front) : front[i] = bits[i]
      /\ bits[Len(bits)] = a
  OBVIOUS
<1>2. Clocked(tap, bits) = Clock(Clocked(tap, front), bits[Len(bits)])
  <2> HIDE DEF bits, front
  <2> QED
    BY <1>1, ClockedMore, Zenon
<1> QED
  BY <1>1, <1>2, ClockedNone

LEMMA ClockedTwo ==
  ASSUME NEW tap, NEW a, NEW b
  PROVE  Clocked(tap, <<a, b>>)
           = Clock(Clock(tap, a), b)
<1> DEFINE bits == <<a, b>>
           front == <<a>>
<1>1. /\ Len(front) \in Nat /\ Len(bits) = Len(front) + 1
      /\ \A i \in 1 .. Len(front) : front[i] = bits[i]
      /\ bits[Len(bits)] = b
  OBVIOUS
<1>2. Clocked(tap, bits) = Clock(Clocked(tap, front), bits[Len(bits)])
  <2> HIDE DEF bits, front
  <2> QED
    BY <1>1, ClockedMore, Zenon
<1> QED
  BY <1>1, <1>2, ClockedOne

LEMMA ClockedThree ==
  ASSUME NEW tap, NEW a, NEW b, NEW c
  PROVE  Clocked(tap, <<a, b, c>>)
           = Clock(Clock(Clock(tap, a), b), c)
<1> DEFINE bits == <<a, b, c>>
           front == <<a, b>>
<1>1. /\ Len(front) \in Nat /\ Len(bits) = Len(front) + 1
      /\ \A i \in 1 .. Len(front) : front[i] = bits[i]
      /\ bits[Len(bits)] = c
  OBVIOUS
<1>2. Clocked(tap, bits) = Clock(Clocked(tap, front), bits[Len(bits)])
  <2> HIDE DEF bits, front
  <2> QED
    BY <1>1, ClockedMore, Zenon
<1> QED
  BY <1>1, <1>2, ClockedTwo

LEMMA ClockedFour ==
  ASSUME NEW tap, NEW a, NEW b, NEW c, NEW d
  PROVE  Clocked(tap, <<a, b, c, d>>)
           = Clock(Clock(Clock(Clock(tap, a), b), c), d)
<1> DEFINE bits == <<a, b, c, d>>
           front == <<a, b, c>>
<1>1. /\ Len(front) \in Nat /\ Len(bits) = Len(front) + 1
      /\ \A i \in 1 .. Len(front) : front[i] = bits[i]
      /\ bits[Len(bits)] = d
  OBVIOUS
<1>2. Clocked(tap, bits) = Clock(Clocked(tap, front), bits[Len(bits)])
  <2> HIDE DEF bits, front
  <2> QED
    BY <1>1, ClockedMore, Zenon
<1> QED
  BY <1>1, <1>2, ClockedThree

LEMMA ClockedFive ==
  ASSUME NEW tap, NEW a, NEW b, NEW c, NEW d, NEW e
  PROVE  Clocked(tap, <<a, b, c, d, e>>)
           = Clock(Clock(Clock(Clock(Clock(tap, a), b), c), d), e)
<1> DEFINE bits == <<a, b, c, d, e>>
           front == <<a, b, c, d>>
<1>1. /\ Len(front) \in Nat /\ Len(bits) = Len(front) + 1
      /\ \A i \in 1 .. Len(front) : front[i] = bits[i]
      /\ bits[Len(bits)] = e
  OBVIOUS
<1>2. Clocked(tap, bits) = Clock(Clocked(tap, front), bits[Len(bits)])
  <2> HIDE DEF bits, front
  <2> QED
    BY <1>1, ClockedMore, Zenon
<1> QED
  BY <1>1, <1>2, ClockedFour

-----------------------------------------------------------------------------
(* Shifting.                                                               *)

\* A shift of a register of five bits.
LEMMA ShiftFive ==
  ASSUME NEW a, NEW b, NEW c, NEW d, NEW e, NEW x
  PROVE  Append(Tail(<<a, b, c, d, e>>), x) = <<b, c, d, e, x>>
<1> DEFINE S == {a, b, c, d, e, x}
           s == <<a, b, c, d, e>>
           u == <<b, c, d, e, x>>
<1>1. /\ s \in Seq(S) /\ s # <<>> /\ Len(s) = 5
      /\ s[2] = b /\ s[3] = c /\ s[4] = d /\ s[5] = e
  OBVIOUS
<1>2. /\ u \in Seq(S) /\ Len(u) = 5
      /\ u[1] = b /\ u[2] = c /\ u[3] = d /\ u[4] = e /\ u[5] = x
  OBVIOUS
<1>0. x \in S
  OBVIOUS
<1> HIDE DEF s, u, S
<1>3. /\ Tail(s) \in Seq(S) /\ Len(Tail(s)) = Len(s) - 1
      /\ \A i \in 1 .. Len(Tail(s)) : Tail(s)[i] = s[i + 1]
  BY <1>1, HeadTailProperties, Zenon
<1>4. PICK t : t = Tail(s)
  OBVIOUS
<1>5. t \in Seq(S) /\ Len(t) = 4 /\ \A i \in 1 .. 4 : t[i] = s[i + 1]
  <2>1. t \in Seq(S) /\ Len(t) = Len(s) - 1 /\ \A i \in 1 .. Len(t) : t[i] = s[i + 1]
    BY <1>3, <1>4, Zenon
  <2> QED
    BY <1>1, <2>1
<1>6. t[1] = b /\ t[2] = c /\ t[3] = d /\ t[4] = e
  <2>1. 1 \in 1 .. 4 /\ 2 \in 1 .. 4 /\ 3 \in 1 .. 4 /\ 4 \in 1 .. 4
     /\ 1 + 1 = 2 /\ 2 + 1 = 3 /\ 3 + 1 = 4 /\ 4 + 1 = 5
    OBVIOUS
  <2> QED
    BY <1>1, <1>5, <2>1, Zenon
<1>7. PICK v : v = Append(t, x)
  OBVIOUS
<1>8. /\ v \in Seq(S) /\ Len(v) = 5 /\ \A i \in 1 .. 4 : v[i] = t[i]
      /\ v[5] = x
  <2>1. /\ Append(t, x) \in Seq(S) /\ Len(Append(t, x)) = Len(t) + 1
        /\ \A i \in 1 .. Len(t) : Append(t, x)[i] = t[i]
        /\ Append(t, x)[Len(t) + 1] = x
    <3>1. t \in Seq(S)
      BY <1>5, Zenon
    <3> QED
      BY <1>0, <3>1, AppendProperties
  <2>2. Len(t) + 1 = 5
    BY <1>5
  <2> QED
    BY <1>5, <1>7, <2>1, <2>2, Zenon
<1>9. v = u
  <2>1. \A i \in 1 .. 5 : v[i] = u[i]
    <3> TAKE i \in 1 .. 5
    <3>1. i = 1 \/ i = 2 \/ i = 3 \/ i = 4 \/ i = 5
      OBVIOUS
    <3>2. 1 \in 1 .. 4 /\ 2 \in 1 .. 4 /\ 3 \in 1 .. 4 /\ 4 \in 1 .. 4
      OBVIOUS
    <3>3. v[1] = u[1] /\ v[2] = u[2] /\ v[3] = u[3] /\ v[4] = u[4] /\ v[5] = u[5]
      BY <1>2, <1>6, <1>8, <3>2, Zenon
    <3> QED
      BY <3>1, <3>3, Zenon
  <2> QED
    BY <1>2, <1>8, <2>1
<1> QED
  BY <1>4, <1>7, <1>9 DEF u, s

\* One bit into the data register.
LEMMA ShiftedOne ==
  ASSUME NEW tap, NEW bit, tap.state = "ShiftDR",
         Clock(tap, bit).state = "ShiftDR" \/ Clock(tap, bit).state = "Exit1DR"
  PROVE  Clock(tap, bit).shiftDR = Append(tap.shiftDR, bit.tdi)
<1>1. PICK next : Clock(tap, bit).state = next
  OBVIOUS
<1>2. next # "UpdateDR"
  BY <1>1
<1> QED
  BY <1>1, <1>2, ClockedShiftDR, Zenon

\* Data of any length goes into the data register whole, in the order sent, and
\* the port leaves Shift-DR with its last bit.
LEMMA ShiftData ==
  ASSUME NEW tap, tap.boot \in BOOLEAN, tap.state = "ShiftDR",
         tap.shiftDR = <<>>, NEW D, NEW data \in Seq(D), data # <<>>,
         NEW e, e = Clocked(tap, Shifted(data))
  PROVE  e.state = "Exit1DR" /\ Quiet(e, tap) /\ e.shiftDR = data
<1>1. PICK n \in Nat : Len(data) = n /\ n # 0
  OBVIOUS
<1> DEFINE bits == Shifted(data)
<1>2. /\ Len(bits) = n
      /\ \A i \in 1 .. n : bits[i] = Bit(IF i = n THEN 1 ELSE 0, data[i])
  BY <1>1 DEF Shifted
<1>3. PICK f : Runs(tap, bits, n, f)
  BY RunExists
<1>4. \A i \in 0 .. n : f[i] = IF i = 0 THEN tap ELSE Clock(f[i - 1], bits[i])
  BY <1>3 DEF Runs
<1>5. e = f[n]
  BY <1>2, <1>3, ClockedRun
<1> DEFINE In(i) == /\ f[i].state = "ShiftDR" /\ Quiet(f[i], tap)
                    /\ f[i].shiftDR = [k \in 1 .. i |-> data[k]]
           S == {i \in 0 .. n - 1 : In(i)}
<1> HIDE DEF bits
<1>6. 0 \in S
  <2>1. f[0] = tap
    BY <1>1, <1>4
  <2>2. Quiet(tap, tap)
    BY Zenon DEF Quiet
  <2>3. [k \in 1 .. 0 |-> data[k]] = <<>>
    OBVIOUS
  <2> QED
    BY <1>1, <2>1, <2>2, <2>3
<1>7. \A i \in 0 .. n - 1 - 1 : i \in S => i + 1 \in S
  <2> SUFFICES ASSUME NEW i \in 0 .. n - 1 - 1, In(i) PROVE In(i + 1)
    BY <1>1
  <2>1. PICK j \in 1 .. n - 1 : j = i + 1
    BY <1>1
  <2>2. f[j] = Clock(f[i], Bit(0, data[j]))
    BY <1>1, <1>2, <1>4, <2>1
  <2>3. f[j].state = "ShiftDR"
    BY <2>2, Wires, Edges
  <2>4. Quiet(f[j], f[i])
    <3>1. f[i].boot \in BOOLEAN
      BY DEF Quiet
    <3> HIDE DEF In
    <3> QED
      BY <2>2, <2>3, <3>1, QuietClock
  <2>5. f[j].shiftDR = Append(f[i].shiftDR, data[j])
    <3>1. Bit(0, data[j]).tdi = data[j]
      BY Wires
    <3>2. f[i].state = "ShiftDR"
      OBVIOUS
    <3> HIDE DEF In
    <3>3. Clock(f[i], Bit(0, data[j])).state = "ShiftDR"
      BY <2>2, <2>3, Zenon
    <3>4. Clock(f[i], Bit(0, data[j])).shiftDR
            = Append(f[i].shiftDR, Bit(0, data[j]).tdi)
      BY <3>2, <3>3, ShiftedOne, Zenon
    <3> QED
      BY <2>2, <3>1, <3>4, Zenon
  <2>6. [k \in 1 .. j |-> data[k]] = Append([k \in 1 .. i |-> data[k]], data[j])
    BY <1>1, <2>1
  <2> QED
    BY <2>1, <2>3, <2>4, <2>5, <2>6 DEF Quiet
<1>8. In(n - 1)
  <2>1. n - 1 \in Nat /\ n - 1 \in 0 .. n - 1
    BY <1>1
  <2>2. n - 1 \in S
    <3> HIDE DEF S
    <3> QED
      BY <1>6, <1>7, <2>1, UpTo
  <2> QED
    BY <2>2
<1>9. PICK m \in Nat : m = n - 1
  BY <1>1
<1>10. e = Clock(f[m], Bit(1, data[n]))
  BY <1>1, <1>2, <1>4, <1>5, <1>9
<1>11. e.state = "Exit1DR"
  BY <1>8, <1>9, <1>10, Wires, Edges
<1>12. Quiet(e, f[m])
  <2>1. f[m].boot \in BOOLEAN
    BY <1>8, <1>9 DEF Quiet
  <2> HIDE DEF In
  <2> QED
    BY <1>10, <1>11, <2>1, QuietClock
<1>13. e.shiftDR = Append(f[m].shiftDR, data[n])
  <2>1. Bit(1, data[n]).tdi = data[n]
    BY Wires
  <2>2. f[m].state = "ShiftDR"
    BY <1>8, <1>9
  <2>3. Clock(f[m], Bit(1, data[n])).state = "Exit1DR"
    BY <1>10, <1>11, Zenon
  <2>4. Clock(f[m], Bit(1, data[n])).shiftDR
          = Append(f[m].shiftDR, Bit(1, data[n]).tdi)
    BY <2>2, <2>3, ShiftedOne, Zenon
  <2> QED
    BY <1>10, <2>1, <2>4, Zenon
<1>14. data = Append([k \in 1 .. m |-> data[k]], data[n])
  BY <1>1, <1>9
<1> QED
  BY <1>8, <1>9, <1>11, <1>12, <1>13, <1>14 DEF Quiet

\* One bit into the instruction register.
LEMMA ShiftOneIR ==
  ASSUME NEW tap, tap.boot \in BOOLEAN, tap.state = "ShiftIR",
         NEW a, NEW b, NEW c, NEW d, NEW e, NEW x,
         tap.shiftIR = <<a, b, c, d, e>>,
         NEW t, t = Clock(tap, Bit(0, x)) \/ t = Clock(tap, Bit(1, x))
  PROVE  /\ t = Clock(tap, Bit(0, x)) => t.state = "ShiftIR"
         /\ t = Clock(tap, Bit(1, x)) => t.state = "Exit1IR"
         /\ Quiet(t, tap) /\ t.shiftIR = <<b, c, d, e, x>>
<1>1. /\ Clock(tap, Bit(0, x)).state = "ShiftIR"
      /\ Clock(tap, Bit(1, x)).state = "Exit1IR"
  BY Wires, Edges
<1>2. Quiet(t, tap)
  BY <1>1, QuietClock
<1>3. t.shiftIR = Append(Tail(tap.shiftIR), x)
  <2>1. Bit(0, x).tdi = x /\ Bit(1, x).tdi = x
    BY Wires, Zenon
  <2>2. tap.state # "CaptureIR"
    OBVIOUS
  <2> QED
    BY <2>1, <2>2, ClockedShiftIR, Zenon
<1>4. Append(Tail(tap.shiftIR), x) = <<b, c, d, e, x>>
  BY ShiftFive
<1> QED
  BY <1>1, <1>2, <1>3, <1>4

\* Five bits go into the instruction register.
LEMMA ShiftInstruction ==
  ASSUME NEW tap, tap.boot \in BOOLEAN, tap.state = "ShiftIR",
         tap.shiftIR = <<1, 0, 0, 0, 0>>, NEW cmd,
         NEW e, e = Clocked(tap, Shifted(Five(cmd)))
  PROVE  /\ e.state = "Exit1IR" /\ Quiet(e, tap)
         /\ e.shiftIR = <<BitOf(cmd, 1), BitOf(cmd, 2), BitOf(cmd, 3),
                          BitOf(cmd, 4), BitOf(cmd, 5)>>
<1>1. PICK v, w, x, y, z : /\ v = BitOf(cmd, 1) /\ w = BitOf(cmd, 2)
                           /\ x = BitOf(cmd, 3) /\ y = BitOf(cmd, 4)
                           /\ z = BitOf(cmd, 5)
  OBVIOUS
<1>2. Shifted(Five(cmd))
        = <<Bit(0, v), Bit(0, w), Bit(0, x), Bit(0, y), Bit(1, z)>>
  BY <1>1 DEF Shifted, Five
<1>3. PICK a : a = Clock(tap, Bit(0, v))
  OBVIOUS
<1>4. PICK b : b = Clock(a, Bit(0, w))
  OBVIOUS
<1>5. PICK c : c = Clock(b, Bit(0, x))
  OBVIOUS
<1>6. PICK d : d = Clock(c, Bit(0, y))
  OBVIOUS
<1>7. e = Clock(d, Bit(1, z))
  BY <1>2, <1>3, <1>4, <1>5, <1>6, ClockedFive
<1>8. a.state = "ShiftIR" /\ Quiet(a, tap) /\ a.shiftIR = <<0, 0, 0, 0, v>>
  BY <1>3, ShiftOneIR
<1>9. b.state = "ShiftIR" /\ Quiet(b, a) /\ b.shiftIR = <<0, 0, 0, v, w>>
  <2>1. a.boot \in BOOLEAN
    BY <1>8, Zenon DEF Quiet
  <2> QED
    BY <1>4, <1>8, <2>1, ShiftOneIR
<1>10. c.state = "ShiftIR" /\ Quiet(c, b) /\ c.shiftIR = <<0, 0, v, w, x>>
  <2>1. b.boot \in BOOLEAN
    BY <1>9, Zenon DEF Quiet
  <2> QED
    BY <1>5, <1>9, <2>1, ShiftOneIR
<1>11. d.state = "ShiftIR" /\ Quiet(d, c) /\ d.shiftIR = <<0, v, w, x, y>>
  <2>1. c.boot \in BOOLEAN
    BY <1>10, Zenon DEF Quiet
  <2> QED
    BY <1>6, <1>10, <2>1, ShiftOneIR
<1>12. e.state = "Exit1IR" /\ Quiet(e, d) /\ e.shiftIR = <<v, w, x, y, z>>
  <2>1. d.boot \in BOOLEAN
    BY <1>11, Zenon DEF Quiet
  <2> QED
    BY <1>7, <1>11, <2>1, ShiftOneIR
<1> QED
  BY <1>1, <1>8, <1>9, <1>10, <1>11, <1>12 DEF Quiet

\* What five bits count for.
LEMMA ValueOfFive ==
  ASSUME NEW a \in {0, 1}, NEW b \in {0, 1}, NEW c \in {0, 1},
         NEW d \in {0, 1}, NEW e \in {0, 1}
  PROVE  ValueOf(<<a, b, c, d, e>>) = a + 2 * b + 4 * c + 8 * d + 16 * e
<1> DEFINE bits == <<a, b, c, d, e>>
           Sums(f) == f = [i \in 0 .. Len(bits) |->
                              IF i = 0 THEN 0 ELSE f[i - 1] + bits[i] * 2^(i - 1)]
           g == [i \in 0 .. 5 |->
                    IF i = 0 THEN 0 ELSE IF i = 1 THEN a
                    ELSE IF i = 2 THEN a + 2 * b
                    ELSE IF i = 3 THEN a + 2 * b + 4 * c
                    ELSE IF i = 4 THEN a + 2 * b + 4 * c + 8 * d
                    ELSE a + 2 * b + 4 * c + 8 * d + 16 * e]
           h == CHOOSE f : Sums(f)
<1>1. Len(bits) = 5
  OBVIOUS
<1>2. 2^0 = 1 /\ 2^1 = 2 /\ 2^2 = 4 /\ 2^3 = 8 /\ 2^4 = 16
  OBVIOUS
<1>3. Sums(g)
  <2>1. \A i \in 0 .. 5 :
           g[i] = IF i = 0 THEN 0 ELSE g[i - 1] + bits[i] * 2^(i - 1)
    <3> TAKE i \in 0 .. 5
    <3>1. i = 0 \/ i = 1 \/ i = 2 \/ i = 3 \/ i = 4 \/ i = 5
      OBVIOUS
    <3>2. /\ g[0] = 0 /\ g[1] = a /\ g[2] = g[1] + 2 * b /\ g[3] = g[2] + 4 * c
          /\ g[4] = g[3] + 8 * d /\ g[5] = g[4] + 16 * e
      OBVIOUS
    <3>3. /\ bits[1] = a /\ bits[2] = b /\ bits[3] = c /\ bits[4] = d /\ bits[5] = e
      OBVIOUS
    <3> HIDE DEF g, bits
    <3>4. CASE i = 0
      BY <3>2, <3>4
    <3>5. CASE i = 1
      BY <1>2, <3>2, <3>3, <3>5
    <3>6. CASE i = 2
      BY <1>2, <3>2, <3>3, <3>6
    <3>7. CASE i = 3
      BY <1>2, <3>2, <3>3, <3>7
    <3>8. CASE i = 4
      BY <1>2, <3>2, <3>3, <3>8
    <3>9. CASE i = 5
      BY <1>2, <3>2, <3>3, <3>9
    <3> QED
      BY <3>1, <3>4, <3>5, <3>6, <3>7, <3>8, <3>9
  <2> QED
    BY <1>1, <2>1
<1>4. Sums(h)
  BY <1>3
<1>5. \A i \in 0 .. 5 :
         h[i] = IF i = 0 THEN 0 ELSE h[i - 1] + bits[i] * 2^(i - 1)
  BY <1>1, <1>4
<1>6. h[5] = a + 2 * b + 4 * c + 8 * d + 16 * e
  <2>1. h[0] = 0
    BY <1>5
  <2>2. h[1] = h[0] + a * 2^0
    BY <1>5
  <2>3. h[2] = h[1] + b * 2^1
    BY <1>5
  <2>4. h[3] = h[2] + c * 2^2
    BY <1>5
  <2>5. h[4] = h[3] + d * 2^3
    BY <1>5
  <2>6. h[5] = h[4] + e * 2^4
    BY <1>5
  <2> HIDE DEF h
  <2> QED
    BY <1>2, <2>1, <2>2, <2>3, <2>4, <2>5, <2>6
<1>7. ValueOf(bits) = h[Len(bits)]
  BY DEF ValueOf
<1> QED
  BY <1>1, <1>6, <1>7

\* The bits of an instruction count for it.
LEMMA InstructionBits ==
  ASSUME NEW cmd \in 0 .. 31
  PROVE  ValueOf(<<BitOf(cmd, 1), BitOf(cmd, 2), BitOf(cmd, 3),
                   BitOf(cmd, 4), BitOf(cmd, 5)>>) = cmd
<1>1. PICK a, b, c, d, e : /\ a = BitOf(cmd, 1) /\ b = BitOf(cmd, 2)
                           /\ c = BitOf(cmd, 3) /\ d = BitOf(cmd, 4)
                           /\ e = BitOf(cmd, 5)
  OBVIOUS
<1>2. 2^0 = 1 /\ 2^1 = 2 /\ 2^2 = 4 /\ 2^3 = 8 /\ 2^4 = 16
  OBVIOUS
<1>3. /\ a = (cmd \div 1) % 2 /\ b = (cmd \div 2) % 2 /\ c = (cmd \div 4) % 2
      /\ d = (cmd \div 8) % 2 /\ e = (cmd \div 16) % 2
  BY <1>1, <1>2 DEF BitOf
<1>4. a \in {0, 1} /\ b \in {0, 1} /\ c \in {0, 1} /\ d \in {0, 1} /\ e \in {0, 1}
  BY <1>3
<1>5. a + 2 * b + 4 * c + 8 * d + 16 * e = cmd
  BY <1>3
<1>6. ValueOf(<<a, b, c, d, e>>) = a + 2 * b + 4 * c + 8 * d + 16 * e
  BY <1>4, ValueOfFive, ZenonT(60)
<1> QED
  BY <1>1, <1>5, <1>6

-----------------------------------------------------------------------------
(* The operations.                                                         *)

\* What a data operation comes to: one scan, of exactly this data under the
\* instruction in force, and a port that is idle again and otherwise as it was.
OneScan(e, t, data) ==
    /\ e.state = "Idle" /\ e.ir = t.ir /\ e.sel = t.sel /\ e.boot = t.boot
    /\ e.scans = Append(t.scans, [sel |-> t.sel, ir |-> t.ir, data |-> data])

\* XferData, whatever the data: every bit of it in one scan, in its order, and
\* no other bit, from Run-Test/Idle back to it.
THEOREM XferDataScans ==
  ASSUME NEW tap, tap.boot \in BOOLEAN, tap.state = "Idle",
         NEW D, NEW data \in Seq(D), data # <<>>
  PROVE  OneScan(Clocked(tap, XferData(data)), tap, data)
<1> DEFINE S == [tms : {0, 1}, tdi : D \cup {0}]
           lead == <<Bit(1, 0), Bit(0, 0), Bit(0, 0)>>
           tail == <<Bit(1, 0), Bit(0, 0)>>
<1>1. lead \in Seq(S) /\ tail \in Seq(S)
  BY DEF Bit
<1>2. Shifted(data) \in Seq(S)
  <2>1. PICK n \in Nat : Len(data) = n /\ \A i \in 1 .. n : data[i] \in D
    OBVIOUS
  <2>2. \A i \in 1 .. n : Bit(IF i = n THEN 1 ELSE 0, data[i]) \in S
    BY <2>1 DEF Bit
  <2> HIDE DEF S
  <2> QED
    BY <2>1, <2>2 DEF Shifted
<1>3. PICK a, b, c : /\ a = Clock(tap, Bit(1, 0)) /\ b = Clock(a, Bit(0, 0))
                     /\ c = Clock(b, Bit(0, 0))
  OBVIOUS
<1>4. c.state = "ShiftDR" /\ Quiet(c, tap) /\ c.shiftDR = <<>>
  BY <1>3, ToShiftDR
<1>5. Clocked(tap, lead) = c
  BY <1>3, ClockedThree
<1>6. PICK d : d = Clocked(c, Shifted(data))
  OBVIOUS
<1>7. d.state = "Exit1DR" /\ Quiet(d, c) /\ d.shiftDR = data
  <2>1. c.boot \in BOOLEAN
    BY <1>4, Zenon DEF Quiet
  <2> QED
    BY <1>4, <1>6, <2>1, ShiftData
<1>8. PICK x, y : x = Clock(d, Bit(1, 0)) /\ y = Clock(x, Bit(0, 0))
  OBVIOUS
<1>9. Clocked(d, tail) = y
  BY <1>8, ClockedTwo
<1>10. OneScan(y, d, data)
  <2>1. d.boot \in BOOLEAN
    BY <1>7, Zenon DEF Quiet
  <2>2. /\ y.state = "Idle"
        /\ y.ir = d.ir /\ y.sel = d.sel /\ y.boot = d.boot
        /\ y.scans = Append(d.scans, [sel |-> d.sel, ir |-> d.ir,
                                      data |-> d.shiftDR])
    BY <1>7, <1>8, <2>1, LeaveDR
  <2> QED
    BY <1>7, <2>2, Zenon DEF OneScan
<1>11. Clocked(tap, XferData(data)) = y
  <2> DEFINE mid == Shifted(data)
  <2> HIDE DEF S, lead, tail, mid
  <2>1. lead \o mid \in Seq(S)
    BY <1>1, <1>2 DEF mid
  <2>2. Clocked(tap, lead \o mid) = d
    BY <1>1, <1>2, <1>5, <1>6, ClockedCat DEF mid
  <2>3. PICK front \in Seq(S) : front = lead \o mid
    BY <2>1
  <2>4. Clocked(tap, front \o tail) = Clocked(Clocked(tap, front), tail)
    BY <1>1, ClockedCat
  <2> QED
    BY <1>9, <2>2, <2>3, <2>4, Zenon DEF XferData, lead, tail, mid
<1> QED
  BY <1>4, <1>7, <1>10, <1>11, Zenon DEF OneScan, Quiet

\* What SendCommand does, with the outcome for EJTAGBOOT under a name.
LEMMA Instructs ==
  ASSUME NEW tap, tap.boot \in BOOLEAN, tap.state = "Idle", NEW cmd \in 0 .. 31,
         NEW e, e = Clocked(tap, SendCommand(cmd)),
         NEW boots, boots = (tap.boot \/ (tap.sel = "ETAP" /\ cmd = EJTAGBOOT))
  PROVE  /\ e.state = "Idle" /\ e.ir = cmd /\ e.scans = tap.scans
         /\ e.sel = IF cmd = SW_MTAP THEN "MTAP"
                    ELSE IF cmd = SW_ETAP THEN "ETAP" ELSE tap.sel
         /\ e.boot = boots
<1> DEFINE S == {Bit(t, x) : t \in {0, 1}, x \in {0, 1}}
           lead == <<Bit(1, 0), Bit(1, 0), Bit(0, 0), Bit(0, 0)>>
           mid == Shifted(Five(cmd))
           tail == <<Bit(1, 0), Bit(0, 0)>>
<1>1. lead \in Seq(S) /\ tail \in Seq(S)
  <2>1. Bit(0, 0) \in S /\ Bit(1, 0) \in S
    OBVIOUS
  <2> HIDE DEF S
  <2> QED
    BY <2>1
<1>2. mid \in Seq(S)
  <2>1. \A i \in 1 .. 5 : Five(cmd)[i] \in {0, 1}
    <3> TAKE i \in 1 .. 5
    <3>1. i = 1 \/ i = 2 \/ i = 3 \/ i = 4 \/ i = 5
      OBVIOUS
    <3>2. 2^0 = 1 /\ 2^1 = 2 /\ 2^2 = 4 /\ 2^3 = 8 /\ 2^4 = 16
      OBVIOUS
    <3>3. PICK p \in {1, 2, 4, 8, 16} : p = 2^(i - 1)
      <4>1. 1 - 1 = 0 /\ 2 - 1 = 1 /\ 3 - 1 = 2 /\ 4 - 1 = 3 /\ 5 - 1 = 4
        OBVIOUS
      <4> QED
        BY <3>1, <3>2, <4>1, Zenon
    <3>4. (cmd \div p) % 2 \in {0, 1}
      OBVIOUS
    <3> QED
      BY <3>3, <3>4 DEF Five, BitOf
  <2>2. \A i \in 1 .. 5 : Bit(IF i = 5 THEN 1 ELSE 0, Five(cmd)[i]) \in S
    <3> TAKE i \in 1 .. 5
    <3>1. PICK x \in {0, 1} : x = Five(cmd)[i]
      BY <2>1
    <3>2. Bit(0, x) \in S /\ Bit(1, x) \in S
      OBVIOUS
    <3> HIDE DEF S
    <3> QED
      BY <3>1, <3>2
  <2>3. mid = [i \in 1 .. 5 |-> Bit(IF i = 5 THEN 1 ELSE 0, Five(cmd)[i])]
    BY DEF Shifted, Five
  <2> HIDE DEF S, mid
  <2> QED
    BY <2>2, <2>3
<1>3. PICK a, b, c, d : /\ a = Clock(tap, Bit(1, 0)) /\ b = Clock(a, Bit(1, 0))
                        /\ c = Clock(b, Bit(0, 0)) /\ d = Clock(c, Bit(0, 0))
  OBVIOUS
<1>4. d.state = "ShiftIR" /\ Quiet(d, tap) /\ d.shiftIR = <<1, 0, 0, 0, 0>>
  BY <1>3, ToShiftIR
<1>5. Clocked(tap, lead) = d
  BY <1>3, ClockedFour
<1>6. PICK s : s = Clocked(d, mid)
  OBVIOUS
<1>7. s.state = "Exit1IR" /\ Quiet(s, d) /\ ValueOf(s.shiftIR) = cmd
  <2>1. d.boot \in BOOLEAN
    BY <1>4, Zenon DEF Quiet
  <2>2. /\ s.state = "Exit1IR" /\ Quiet(s, d)
        /\ s.shiftIR = <<BitOf(cmd, 1), BitOf(cmd, 2), BitOf(cmd, 3),
                         BitOf(cmd, 4), BitOf(cmd, 5)>>
    BY <1>4, <1>6, <2>1, ShiftInstruction
  <2> QED
    BY <2>2, InstructionBits, Zenon
<1>8. PICK x, y : x = Clock(s, Bit(1, 0)) /\ y = Clock(x, Bit(0, 0))
  OBVIOUS
<1>9. Clocked(s, tail) = y
  BY <1>8, ClockedTwo
<1>10. /\ y.state = "Idle" /\ y.ir = cmd /\ y.scans = s.scans
       /\ y.sel = IF cmd = SW_MTAP THEN "MTAP"
                  ELSE IF cmd = SW_ETAP THEN "ETAP" ELSE s.sel
       /\ y.boot = (s.boot \/ (s.sel = "ETAP" /\ cmd = EJTAGBOOT))
  <2>1. s.boot \in BOOLEAN
    BY <1>7, Zenon DEF Quiet
  <2> QED
    BY <1>7, <1>8, <2>1, LeaveIR
<1>11. e = y
  <2> HIDE DEF S, lead, tail, mid
  <2>1. lead \o mid \in Seq(S)
    BY <1>1, <1>2
  <2>2. Clocked(tap, lead \o mid) = s
    BY <1>1, <1>2, <1>5, <1>6, ClockedCat
  <2>3. PICK front \in Seq(S) : front = lead \o mid
    BY <2>1
  <2>4. Clocked(tap, front \o tail) = Clocked(Clocked(tap, front), tail)
    BY <1>1, ClockedCat
  <2> QED
    BY <1>9, <2>2, <2>3, <2>4, Zenon DEF SendCommand, Five, lead, tail, mid
<1>12. s.sel = tap.sel /\ s.boot = tap.boot /\ s.scans = tap.scans
  BY <1>4, <1>7, Zenon DEF Quiet
<1>13. y.boot = boots
  BY <1>10, <1>12, Zenon
<1> QED
  BY <1>10, <1>11, <1>12, <1>13, Zenon

\* SendCommand, whatever the instruction: it is in force afterwards, it has
\* selected the controller it names, and no data register was touched.
THEOREM SendCommandInstructs ==
  ASSUME NEW tap, tap.boot \in BOOLEAN, tap.state = "Idle", NEW cmd \in 0 .. 31,
         NEW e, e = Clocked(tap, SendCommand(cmd))
  PROVE  /\ e.state = "Idle" /\ e.ir = cmd /\ e.scans = tap.scans
         /\ e.sel = IF cmd = SW_MTAP THEN "MTAP"
                    ELSE IF cmd = SW_ETAP THEN "ETAP" ELSE tap.sel
         /\ e.boot = (tap.boot \/ (tap.sel = "ETAP" /\ cmd = EJTAGBOOT))
<1>1. PICK boots : boots = (tap.boot \/ (tap.sel = "ETAP" /\ cmd = EJTAGBOOT))
  OBVIOUS
<1>2. /\ e.state = "Idle" /\ e.ir = cmd /\ e.scans = tap.scans
      /\ e.sel = IF cmd = SW_MTAP THEN "MTAP"
                 ELSE IF cmd = SW_ETAP THEN "ETAP" ELSE tap.sel
      /\ e.boot = boots
  BY <1>1, Instructs
<1> QED
  BY <1>1, <1>2, Zenon

\* The port after an instruction.
Instructed(e, t, cmd) ==
    /\ e.state = "Idle" /\ e.ir = cmd /\ e.scans = t.scans
    /\ e.sel = IF cmd = SW_MTAP THEN "MTAP" ELSE IF cmd = SW_ETAP THEN "ETAP" ELSE t.sel
    /\ e.boot = (t.boot \/ (t.sel = "ETAP" /\ cmd = EJTAGBOOT))

\* SendCommand leads there.
LEMMA SendCommandIs ==
  \A tap : \A cmd \in 0 .. 31 : tap.boot \in BOOLEAN /\ tap.state = "Idle" =>
      Instructed(Clocked(tap, SendCommand(cmd)), tap, cmd)
<1> SUFFICES ASSUME NEW tap, NEW cmd \in 0 .. 31, tap.boot \in BOOLEAN,
                    tap.state = "Idle"
             PROVE  Instructed(Clocked(tap, SendCommand(cmd)), tap, cmd)
  OBVIOUS
<1>1. PICK e, boots : e = Clocked(tap, SendCommand(cmd))
                      /\ boots = (tap.boot \/ (tap.sel = "ETAP" /\ cmd = EJTAGBOOT))
  OBVIOUS
<1>2. /\ e.state = "Idle" /\ e.ir = cmd /\ e.scans = tap.scans
      /\ e.sel = IF cmd = SW_MTAP THEN "MTAP"
                 ELSE IF cmd = SW_ETAP THEN "ETAP" ELSE tap.sel
      /\ e.boot = boots
  BY <1>1, Instructs
<1>3. Instructed(e, tap, cmd)
  BY <1>1, <1>2, Zenon DEF Instructed
<1> QED
  BY <1>1, <1>3, Zenon

\* The sequences of a few clocks that the operations begin with.
LEMMA Leads ==
  ASSUME NEW x, NEW y
  PROVE  /\ <<x, y, y>> \o <<y>> = <<x, y, y, y>>
         /\ <<x>> \o <<x, y, y>> = <<x, x, y, y>>
<1> DEFINE S == {x, y}
           p == <<x>>
           q == <<y>>
           a == <<x, x>>
           b == <<x, x, y>>
           c == <<x, x, y, y>>
           d == <<x, y>>
           e == <<x, y, y>>
           f == <<x, y, y, y>>
<1>1. /\ x \in S /\ y \in S /\ p \in Seq(S) /\ q \in Seq(S)
      /\ a \in Seq(S) /\ b \in Seq(S) /\ d \in Seq(S) /\ e \in Seq(S)
  OBVIOUS
<1>2. a = Append(p, x) /\ b = Append(a, y) /\ c = Append(b, y)
  OBVIOUS
<1>3. d = Append(p, y) /\ e = Append(d, y) /\ f = Append(e, y)
  OBVIOUS
<1>4. a = p \o p
  <2> HIDE DEF S, a
  <2>1. Append(p, x) = p \o <<x>>
    <3> HIDE DEF p
    <3> QED
      BY <1>1, AppendIsConcat
  <2> QED
    BY <1>2, <2>1
<1>5. b = a \o q /\ c = b \o q /\ d = p \o q /\ e = d \o q /\ f = e \o q
  <2> HIDE DEF S, a, b, c, d, e, f, p
  <2>1. /\ Append(a, y) = a \o q /\ Append(b, y) = b \o q /\ Append(p, y) = p \o q
        /\ Append(d, y) = d \o q /\ Append(e, y) = e \o q
    BY <1>1, AppendIsConcat, Zenon
  <2> QED
    BY <1>2, <1>3, <2>1, Zenon
<1> HIDE DEF S, p, q, a, b, c, d, e, f
<1>6. \A r, s, t \in Seq(S) : (r \o s) \o t = r \o (s \o t)
  BY ConcatAssociative
<1>7. b = p \o d
  <2>1. p \in Seq(S) /\ q \in Seq(S)
    BY <1>1, Zenon
  <2>2. (p \o p) \o q = p \o (p \o q)
    BY <1>6, <2>1
  <2> QED
    BY <1>4, <1>5, <2>2, Zenon
<1>8. c = p \o e
  <2>1. p \in Seq(S) /\ q \in Seq(S) /\ d \in Seq(S)
    BY <1>1, Zenon
  <2>2. (p \o d) \o q = p \o (d \o q)
    BY <1>6, <2>1
  <2> QED
    BY <1>5, <1>7, <2>2, Zenon
<1> QED
  BY <1>5, <1>8, Zenon DEF p, q, c, e, f

\* The bit for PrAcc in front: XferFastData is XferData with one more bit.
LEMMA FastIsXfer ==
  ASSUME NEW D, NEW data \in Seq(D), data # <<>>
  PROVE  XferFastData(data) = XferData(<<0>> \o data)
<1> DEFINE S == [tms : {0, 1}, tdi : D \cup {0}]
           zero == <<Bit(0, 0)>>
           lead == <<Bit(1, 0), Bit(0, 0), Bit(0, 0)>>
<1>1. PICK n \in Nat : Len(data) = n /\ n # 0 /\ \A i \in 1 .. n : data[i] \in D
  OBVIOUS
<1>2. PICK rest : rest = Shifted(data)
  OBVIOUS
<1>3. rest \in Seq(S)
  <2>1. \A i \in 1 .. n : Bit(IF i = n THEN 1 ELSE 0, data[i]) \in S
    BY <1>1 DEF Bit
  <2> HIDE DEF S
  <2> QED
    BY <1>1, <1>2, <2>1 DEF Shifted
<1>4. Shifted(<<0>> \o data) = zero \o rest
  <2>1. PICK more : more = <<0>> \o data
    OBVIOUS
  <2>2. /\ Len(more) = n + 1 /\ more[1] = 0
        /\ \A i \in 2 .. n + 1 : more[i] = data[i - 1]
    BY <1>1, <2>1
  <2>3. Len(rest) = n /\ \A i \in 1 .. n : rest[i] = Bit(IF i = n THEN 1 ELSE 0, data[i])
    BY <1>1, <1>2 DEF Shifted
  <2>4. zero \o rest = [i \in 1 .. n + 1 |-> IF i = 1 THEN Bit(0, 0) ELSE rest[i - 1]]
    BY <1>1, <1>3, <2>3
  <2>5. \A i \in 1 .. n + 1 :
           Bit(IF i = n + 1 THEN 1 ELSE 0, more[i])
             = IF i = 1 THEN Bit(0, 0) ELSE rest[i - 1]
    BY <1>1, <2>2, <2>3
  <2>6. Shifted(more) = [i \in 1 .. n + 1 |-> Bit(IF i = n + 1 THEN 1 ELSE 0, more[i])]
    BY <2>2 DEF Shifted
  <2> QED
    BY <2>1, <2>4, <2>5, <2>6
<1>5. lead \o (zero \o rest) = <<Bit(1, 0), Bit(0, 0), Bit(0, 0), Bit(0, 0)>> \o rest
  <2>1. lead \in Seq(S) /\ zero \in Seq(S)
    BY DEF Bit
  <2>2. lead \o zero = <<Bit(1, 0), Bit(0, 0), Bit(0, 0), Bit(0, 0)>>
    BY Leads
  <2>3. (lead \o zero) \o rest = lead \o (zero \o rest)
    <3> HIDE DEF lead, zero, S
    <3> QED
      BY <1>3, <2>1, ConcatAssociative
  <2> QED
    BY <2>2, <2>3
<1> QED
  BY <1>2, <1>4, <1>5, Zenon DEF XferFastData, XferData

\* XferFastData, whatever the data: one scan, of a zero and then the data.
THEOREM XferFastDataScans ==
  ASSUME NEW tap, tap.boot \in BOOLEAN, tap.state = "Idle",
         NEW D, NEW data \in Seq(D), data # <<>>
  PROVE  OneScan(Clocked(tap, XferFastData(data)), tap, <<0>> \o data)
<1>1. PICK more : more = <<0>> \o data
  OBVIOUS
<1>0. PICK E : E = D \cup {0}
  OBVIOUS
<1>9. more \in Seq(E) /\ more # <<>>
  BY <1>0, <1>1
<1>2. XferFastData(data) = XferData(more)
  BY <1>1, FastIsXfer
<1>3. OneScan(Clocked(tap, XferData(more)), tap, more)
  BY <1>9, XferDataScans
<1> QED
  BY <1>1, <1>2, <1>3, Zenon


\* The serial adapter's one operation puts the same clocks on the wires as the
\* firmware's three.
LEMMA SetModes ==
  /\ SetMode(31, 6) = <<Bit(1, 0), Bit(1, 0), Bit(1, 0), Bit(1, 0), Bit(1, 0),
                        Bit(0, 0)>>
  /\ SetMode(31, 5) = <<Bit(1, 0), Bit(1, 0), Bit(1, 0), Bit(1, 0), Bit(1, 0)>>
  /\ SetMode(1, 1) = <<Bit(1, 0)>>
  /\ SetMode(0, 0) = <<>>
<1>1. 2^0 = 1 /\ 2^1 = 2 /\ 2^2 = 4 /\ 2^3 = 8 /\ 2^4 = 16 /\ 2^5 = 32
  OBVIOUS
<1>2. /\ BitOf(31, 1) = 1 /\ BitOf(31, 2) = 1 /\ BitOf(31, 3) = 1
      /\ BitOf(31, 4) = 1 /\ BitOf(31, 5) = 1 /\ BitOf(31, 6) = 0
      /\ BitOf(1, 1) = 1
  BY <1>1 DEF BitOf
<1>3. \A n \in {5, 6} : \A i \in 1 .. n :
         Bit(BitOf(31, i), 0) = IF i = 6 THEN Bit(0, 0) ELSE Bit(1, 0)
  BY <1>2
<1>4. SetMode(1, 1) = <<Bit(1, 0)>>
  BY <1>2 DEF SetMode
<1>5. SetMode(0, 0) = <<>>
  BY DEF SetMode
<1>6. PICK x, y : x = Bit(1, 0) /\ y = Bit(0, 0)
  OBVIOUS
<1>7. SetMode(31, 6) = <<x, x, x, x, x, y>>
  BY <1>3, <1>6 DEF SetMode
<1>8. SetMode(31, 5) = <<x, x, x, x, x>>
  BY <1>3, <1>6 DEF SetMode
<1> QED
  BY <1>4, <1>5, <1>6, <1>7, <1>8

THEOREM BitbangResets == bitbang_send(6, 31, <<>>) = ETAP_RESET
<1>1. PICK x, y : x = Bit(1, 0) /\ y = Bit(0, 0)
  OBVIOUS
<1>2. SetMode(31, 6) = <<x, x, x, x, x, y>>
  BY <1>1, SetModes
<1>3. <<x, x, x, x, x, y>> \o <<>> = <<x, x, x, x, x, y>>
  OBVIOUS
<1> QED
  BY <1>2, <1>3 DEF bitbang_send, ETAP_RESET

\* The wires of an instruction, and of data of any length.
THEOREM BitbangInstructs ==
  ASSUME NEW cmd PROVE bitbang_send(1, 1, Five(cmd)) = SendCommand(cmd)
<1>1. PICK x, y : x = Bit(1, 0) /\ y = Bit(0, 0)
  OBVIOUS
<1>2. PICK S, rest : rest = Shifted(Five(cmd)) /\ rest \in Seq(S) /\ x \in S /\ y \in S
  <2> DEFINE S == {Bit(t, v) : t \in {0, 1}, v \in {Five(cmd)[i] : i \in 1 .. 5}}
                    \cup {x, y}
  <2>1. Len(Five(cmd)) = 5
    BY DEF Five
  <2>2. \A i \in 1 .. 5 : Bit(IF i = 5 THEN 1 ELSE 0, Five(cmd)[i]) \in S
    OBVIOUS
  <2>3. Shifted(Five(cmd)) \in Seq(S)
    <3> HIDE DEF S
    <3> QED
      BY <2>1, <2>2 DEF Shifted
  <2>4. x \in S /\ y \in S
    OBVIOUS
  <2> HIDE DEF S
  <2>5. \E R : Shifted(Five(cmd)) \in Seq(R) /\ x \in R /\ y \in R
    BY <2>3, <2>4
  <2>6. PICK R : Shifted(Five(cmd)) \in Seq(R) /\ x \in R /\ y \in R
    BY <2>5
  <2> QED
    BY <2>6
<1>3. PICK one, lead, tail :
         one = <<x>> /\ lead = <<x, y, y>> /\ tail = <<x, y>>
  OBVIOUS
<1>10. one \in Seq(S) /\ lead \in Seq(S) /\ tail \in Seq(S)
  BY <1>2, <1>3
<1>4. one \o ((lead \o rest) \o tail) = ((one \o lead) \o rest) \o tail
  <2>1. lead \o rest \in Seq(S) /\ one \o lead \in Seq(S)
    BY <1>2, <1>10
  <2>2. \A r, s, t \in Seq(S) : (r \o s) \o t = r \o (s \o t)
    BY ConcatAssociative
  <2>3. (one \o lead) \o rest = one \o (lead \o rest)
    BY <1>2, <1>10, <2>2, SMTT(40)
  <2>4. (one \o (lead \o rest)) \o tail = one \o ((lead \o rest) \o tail)
    BY <1>10, <2>1, <2>2, SMTT(40)
  <2> QED
    BY <2>3, <2>4, Zenon
<1>5. one \o lead = <<x, x, y, y>>
  BY <1>3, Leads
<1>6. Five(cmd) # <<>>
  <2>1. PICK five : five = Five(cmd)
    OBVIOUS
  <2>2. Len(five) = 5
    BY <2>1 DEF Five
  <2> QED
    BY <2>1, <2>2
<1>7. SetMode(1, 1) = one
  BY <1>1, <1>3, SetModes
<1>8. bitbang_send(1, 1, Five(cmd)) = one \o ((lead \o rest) \o tail)
  BY <1>1, <1>2, <1>3, <1>6, <1>7, Zenon DEF bitbang_send
<1>9. SendCommand(cmd) = (<<x, x, y, y>> \o rest) \o tail
  BY <1>1, <1>2, <1>3, Zenon DEF SendCommand, Five
<1> QED
  BY <1>4, <1>5, <1>8, <1>9, Zenon

THEOREM BitbangTransfers ==
  ASSUME NEW D, NEW data \in Seq(D), data # <<>>
  PROVE  bitbang_send(0, 0, data) = XferData(data)
<1> DEFINE S == [tms : {0, 1}, tdi : D \cup {0}]
<1>1. XferData(data) \in Seq(S)
  <2>1. PICK n \in Nat : Len(data) = n /\ \A i \in 1 .. n : data[i] \in D
    OBVIOUS
  <2>2. \A i \in 1 .. n : Bit(IF i = n THEN 1 ELSE 0, data[i]) \in S
    BY <2>1 DEF Bit
  <2>3. Shifted(data) \in Seq(S)
    <3> HIDE DEF S
    <3> QED
      BY <2>1, <2>2 DEF Shifted
  <2>4. Bit(1, 0) \in S /\ Bit(0, 0) \in S
    BY DEF Bit
  <2> HIDE DEF S
  <2> QED
    BY <2>3, <2>4 DEF XferData
<1>2. PICK bits \in Seq(S) : bits = XferData(data)
  BY <1>1
<1>3. <<>> \o bits = bits
  OBVIOUS
<1>4. bitbang_send(0, 0, data) = <<>> \o XferData(data)
  BY SetModes, Zenon DEF bitbang_send, XferData
<1> QED
  BY <1>2, <1>3, <1>4

-----------------------------------------------------------------------------
(* Back in step.                                                           *)

\* Five clocks with TMS high lead from anywhere to Test-Logic-Reset.
LEMMA FiveRises ==
  ASSUME NEW s \in TapState
  PROVE  Follows[Follows[Follows[Follows[Follows[s][2]][2]][2]][2]][2] = "Reset"
<1>1. /\ Follows["Reset"][2] = "Reset" /\ Follows["SelectIR"][2] = "Reset"
      /\ Follows["SelectDR"][2] = "SelectIR"
  BY DEF Follows
<1>2. /\ Follows["Idle"][2] = "SelectDR" /\ Follows["UpdateDR"][2] = "SelectDR"
      /\ Follows["UpdateIR"][2] = "SelectDR"
  BY DEF Follows
<1>3. /\ Follows["Exit1DR"][2] = "UpdateDR" /\ Follows["Exit2DR"][2] = "UpdateDR"
      /\ Follows["Exit1IR"][2] = "UpdateIR" /\ Follows["Exit2IR"][2] = "UpdateIR"
  BY DEF Follows
<1>4. /\ Follows["CaptureDR"][2] = "Exit1DR" /\ Follows["ShiftDR"][2] = "Exit1DR"
      /\ Follows["CaptureIR"][2] = "Exit1IR" /\ Follows["ShiftIR"][2] = "Exit1IR"
  BY DEF Follows
<1>5. Follows["PauseDR"][2] = "Exit2DR" /\ Follows["PauseIR"][2] = "Exit2IR"
  BY DEF Follows
<1>6. \/ s \in {"Reset", "SelectIR", "SelectDR"}
      \/ s \in {"Idle", "UpdateDR", "UpdateIR"}
      \/ s \in {"Exit1DR", "Exit2DR", "Exit1IR", "Exit2IR"}
      \/ s \in {"CaptureDR", "ShiftDR", "CaptureIR", "ShiftIR"}
      \/ s \in {"PauseDR", "PauseIR"}
  BY DEF TapState, Follows
<1>7. CASE s \in {"Reset", "SelectIR", "SelectDR"}
  BY <1>1, <1>7
<1>8. CASE s \in {"Idle", "UpdateDR", "UpdateIR"}
  BY <1>1, <1>2, <1>8
<1>9. CASE s \in {"Exit1DR", "Exit2DR", "Exit1IR", "Exit2IR"}
  BY <1>1, <1>2, <1>3, <1>9
<1>10. CASE s \in {"CaptureDR", "ShiftDR", "CaptureIR", "ShiftIR"}
  BY <1>1, <1>2, <1>3, <1>4, <1>10
<1>11. CASE s \in {"PauseDR", "PauseIR"}
  BY <1>1, <1>2, <1>3, <1>5, <1>11
<1> QED
  BY <1>6, <1>7, <1>8, <1>9, <1>10, <1>11

\* PIC32_RESET: five clocks with TMS high, from whatever state the port was
\* left in, reach Test-Logic-Reset.
THEOREM ResetSynchronises ==
  ASSUME NEW tap, tap.state \in TapState, NEW e, e = Clocked(tap, PIC32_RESET)
  PROVE  e.state = "Reset" /\ e.ir = IDCODE /\ e.boot = FALSE
<1>1. PICK x : x = Bit(1, 0)
  OBVIOUS
<1>2. PICK a, b, c, d : /\ a = Clock(tap, x) /\ b = Clock(a, x)
                        /\ c = Clock(b, x) /\ d = Clock(c, x)
  OBVIOUS
<1>3. e = Clock(d, x)
  <2>1. PIC32_RESET = <<x, x, x, x, x>>
    BY <1>1, SetModes DEF PIC32_RESET
  <2> QED
    BY <1>2, <2>1, ClockedFive
<1>4. /\ a.state = Follows[tap.state][2] /\ b.state = Follows[a.state][2]
      /\ c.state = Follows[b.state][2] /\ d.state = Follows[c.state][2]
      /\ e.state = Follows[d.state][2]
  <2>1. \A t : Clock(t, Bit(1, 0)).state = Follows[t.state][2]
    BY Wires
  <2> QED
    BY <1>1, <1>2, <1>3, <2>1, Zenon
<1>5. e.state = "Reset"
  <2>1. PICK s \in TapState : tap.state = s
    OBVIOUS
  <2>2. e.state = Follows[Follows[Follows[Follows[Follows[s][2]][2]][2]][2]][2]
    BY <1>4, <2>1
  <2> QED
    BY <2>2, FiveRises
<1>6. Clock(d, x).ir = IDCODE
  BY <1>3, <1>5, ClockedIR, Zenon
<1>7. Clock(d, x).boot = FALSE
  BY <1>3, <1>5, ClockedBoot, Zenon
<1> QED
  BY <1>3, <1>5, <1>6, <1>7

\* ETAP_RESET is one clock more.
LEMMA EtapResetLast ==
  ASSUME NEW tap
  PROVE  Clocked(tap, ETAP_RESET) = Clock(Clocked(tap, PIC32_RESET), Bit(0, 0))
<1>1. PICK x, y : x = Bit(1, 0) /\ y = Bit(0, 0)
  OBVIOUS
<1>2. PIC32_RESET = <<x, x, x, x, x>> /\ ETAP_RESET = <<x, x, x, x, x, y>>
  BY <1>1, SetModes DEF PIC32_RESET, ETAP_RESET
<1>3. PICK front, bits : front = PIC32_RESET /\ bits = ETAP_RESET
  OBVIOUS
<1>4. /\ Len(front) \in Nat /\ Len(bits) = Len(front) + 1
      /\ \A i \in 1 .. Len(front) : front[i] = bits[i]
      /\ bits[Len(bits)] = y
  BY <1>2, <1>3
<1>5. Clocked(tap, bits) = Clock(Clocked(tap, front), bits[Len(bits)])
  BY <1>4, ClockedMore, Zenon
<1> QED
  BY <1>1, <1>3, <1>4, <1>5, Zenon

\* ETAP_RESET goes on to Run-Test/Idle.
THEOREM EtapResetSynchronises ==
  ASSUME NEW tap, tap.state \in TapState, NEW e, e = Clocked(tap, ETAP_RESET)
  PROVE  e.state = "Idle" /\ e.ir = IDCODE /\ e.boot = FALSE
<1>1. PICK y : y = Bit(0, 0)
  OBVIOUS
<1>2. PICK r : r = Clocked(tap, PIC32_RESET)
  OBVIOUS
<1>3. r.state = "Reset" /\ r.ir = IDCODE /\ r.boot = FALSE
  BY <1>2, ResetSynchronises
<1>5. e = Clock(r, y)
  BY <1>1, <1>2, EtapResetLast
<1>6. e.state = "Idle"
  BY <1>1, <1>3, <1>5, Wires, Edges
<1>7. Quiet(e, r)
  <2>1. r.boot \in BOOLEAN
    BY <1>3, Zenon
  <2> QED
    BY <1>5, <1>6, <2>1, QuietClock
<1> QED
  BY <1>3, <1>6, <1>7, Zenon DEF Quiet

-----------------------------------------------------------------------------
(* Any sequence of clocks.                                                 *)

\* A port stays sound whatever is put on the wires.
LEMMA ClockedSound ==
  ASSUME NEW tap, Sound(tap), NEW D, NEW bits \in Seq([tms : {0, 1}, tdi : D])
  PROVE  Sound(Clocked(tap, bits))
<1> DEFINE W == [tms : {0, 1}, tdi : D]
<1>1. PICK n \in Nat : Len(bits) = n /\ \A i \in 1 .. n : bits[i].tms \in {0, 1}
  <2>1. PICK n \in Nat : Len(bits) = n
    OBVIOUS
  <2>2. \A i \in 1 .. n : bits[i] \in W
    <3>1. bits \in Seq(W)
      OBVIOUS
    <3> HIDE DEF W
    <3> QED
      BY <2>1, <3>1
  <2>3. \A w \in W : w.tms \in {0, 1}
    OBVIOUS
  <2> QED
    BY <2>1, <2>2, <2>3, Zenon
<1>2. PICK f : Runs(tap, bits, n, f)
  BY RunExists
<1>3. \A i \in 0 .. n : f[i] = IF i = 0 THEN tap ELSE Clock(f[i - 1], bits[i])
  BY <1>2 DEF Runs
<1> DEFINE S == {i \in 0 .. n : Sound(f[i])}
<1>4. 0 \in S
  BY <1>1, <1>3
<1>5. \A i \in 0 .. n - 1 : i \in S => i + 1 \in S
  <2> SUFFICES ASSUME NEW i \in 0 .. n - 1, Sound(f[i]) PROVE Sound(f[i + 1])
    BY <1>1
  <2>1. PICK bit : bit = bits[i + 1] /\ bit.tms \in {0, 1}
    BY <1>1
  <2>2. f[i + 1] = Clock(f[i], bit)
    BY <1>1, <1>3, <2>1
  <2>3. Sound(Clock(f[i], bit))
    BY <2>1, ClockSound
  <2> QED
    BY <2>2, <2>3, Zenon
<1>6. n \in S
  <2>1. n \in 0 .. n
    BY <1>1
  <2> HIDE DEF S
  <2> QED
    BY <1>4, <1>5, <2>1, UpTo
<1>7. Clocked(tap, bits) = f[n]
  BY <1>1, <1>2, ClockedRun
<1> QED
  BY <1>6, <1>7

\* Every operation is such a sequence.
LEMMA FiveBits ==
  ASSUME NEW cmd \in 0 .. 31 PROVE Five(cmd) \in Seq({0, 1})
<1>1. \A i \in 1 .. 5 : BitOf(cmd, i) \in {0, 1}
  <2> TAKE i \in 1 .. 5
  <2>1. i = 1 \/ i = 2 \/ i = 3 \/ i = 4 \/ i = 5
    OBVIOUS
  <2>2. 2^0 = 1 /\ 2^1 = 2 /\ 2^2 = 4 /\ 2^3 = 8 /\ 2^4 = 16
    OBVIOUS
  <2>3. PICK p \in {1, 2, 4, 8, 16} : p = 2^(i - 1)
    <3>1. 1 - 1 = 0 /\ 2 - 1 = 1 /\ 3 - 1 = 2 /\ 4 - 1 = 3 /\ 5 - 1 = 4
      OBVIOUS
    <3> QED
      BY <2>1, <2>2, <3>1, Zenon
  <2>4. (cmd \div p) % 2 \in {0, 1}
    OBVIOUS
  <2> QED
    BY <2>3, <2>4 DEF BitOf
<1> QED
  BY <1>1 DEF Five

LEMMA ShiftedBits ==
  ASSUME NEW D, NEW data \in Seq(D)
  PROVE  Shifted(data) \in Seq([tms : {0, 1}, tdi : D \cup {0}])
<1> DEFINE S == [tms : {0, 1}, tdi : D \cup {0}]
<1>1. PICK n \in Nat : Len(data) = n /\ \A i \in 1 .. n : data[i] \in D
  OBVIOUS
<1>2. \A i \in 1 .. n : Bit(IF i = n THEN 1 ELSE 0, data[i]) \in S
  BY <1>1 DEF Bit
<1> HIDE DEF S
<1>3. Shifted(data) \in Seq(S)
  BY <1>1, <1>2 DEF Shifted
<1> QED
  BY <1>3 DEF S

LEMMA XferDataBits ==
  ASSUME NEW D, NEW data \in Seq(D)
  PROVE  XferData(data) \in Seq([tms : {0, 1}, tdi : D \cup {0}])
<1> DEFINE S == [tms : {0, 1}, tdi : D \cup {0}]
<1>1. Bit(1, 0) \in S /\ Bit(0, 0) \in S
  BY DEF Bit
<1>2. Shifted(data) \in Seq(S)
  BY ShiftedBits
<1> HIDE DEF S
<1>3. XferData(data) \in Seq(S)
  BY <1>1, <1>2 DEF XferData
<1> QED
  BY <1>3 DEF S

LEMMA SendCommandBits ==
  ASSUME NEW cmd \in 0 .. 31
  PROVE  SendCommand(cmd) \in Seq([tms : {0, 1}, tdi : {0, 1}])
<1> DEFINE S == [tms : {0, 1}, tdi : {0, 1}]
<1>1. Bit(1, 0) \in S /\ Bit(0, 0) \in S
  BY DEF Bit
<1>2. Shifted(Five(cmd)) \in Seq(S)
  <2>1. {0, 1} \cup {0} = {0, 1}
    OBVIOUS
  <2>2. Shifted(Five(cmd)) \in Seq([tms : {0, 1}, tdi : {0, 1} \cup {0}])
    BY FiveBits, ShiftedBits, Zenon
  <2> QED
    BY <2>1, <2>2, Zenon
<1> HIDE DEF S
<1>3. SendCommand(cmd) \in Seq(S)
  BY <1>1, <1>2 DEF SendCommand, Five
<1> QED
  BY <1>3 DEF S

LEMMA ResetBits ==
  /\ PIC32_RESET \in Seq([tms : {0, 1}, tdi : {0, 1}])
  /\ ETAP_RESET \in Seq([tms : {0, 1}, tdi : {0, 1}])
<1> DEFINE S == [tms : {0, 1}, tdi : {0, 1}]
<1>1. PICK x, y \in S : x = Bit(1, 0) /\ y = Bit(0, 0)
  BY DEF Bit
<1> HIDE DEF S
<1>2. <<x, x, x, x, x>> \in Seq(S) /\ <<x, x, x, x, x, y>> \in Seq(S)
  OBVIOUS
<1>3. PIC32_RESET = <<x, x, x, x, x>> /\ ETAP_RESET = <<x, x, x, x, x, y>>
  BY <1>1, SetModes DEF PIC32_RESET, ETAP_RESET
<1> QED
  BY <1>2, <1>3 DEF S

\* From Run-Test/Idle a reset updates no register on its way.
LEMMA ResetFromIdle ==
  ASSUME NEW tap, tap.state = "Idle"
  PROVE  /\ Clocked(tap, PIC32_RESET).sel = tap.sel
         /\ Clocked(tap, PIC32_RESET).scans = tap.scans
         /\ Clocked(tap, ETAP_RESET).sel = tap.sel
         /\ Clocked(tap, ETAP_RESET).scans = tap.scans
<1>1. PICK x : x = Bit(1, 0)
  OBVIOUS
<1>2. PICK a, b, c, d, e : /\ a = Clock(tap, x) /\ b = Clock(a, x)
                           /\ c = Clock(b, x) /\ d = Clock(c, x)
                           /\ e = Clock(d, x)
  OBVIOUS
<1>3. Clocked(tap, PIC32_RESET) = e
  <2>1. PIC32_RESET = <<x, x, x, x, x>>
    BY <1>1, SetModes DEF PIC32_RESET
  <2> QED
    BY <1>2, <2>1, ClockedFive
<1>4. \A t : Clock(t, x).state = Follows[t.state][2]
  BY <1>1, Wires
<1>5. a.state = "SelectDR" /\ b.state = "SelectIR"
  BY <1>2, <1>4, Edges
<1>6. c.state = "Reset" /\ d.state = "Reset" /\ e.state = "Reset"
  BY <1>2, <1>4, <1>5, Edges
<1>7. \A t : (/\ Clock(t, x).state # "UpdateIR" /\ Clock(t, x).state # "UpdateDR")
             => Clock(t, x).sel = t.sel /\ Clock(t, x).scans = t.scans
  BY ClockedSel, ClockedScans, Zenon
<1>8. /\ a.sel = tap.sel /\ a.scans = tap.scans /\ b.sel = a.sel /\ b.scans = a.scans
  BY <1>2, <1>5, <1>7
<1>9. /\ c.sel = b.sel /\ c.scans = b.scans /\ d.sel = c.sel /\ d.scans = c.scans
      /\ e.sel = d.sel /\ e.scans = d.scans
  BY <1>2, <1>6, <1>7
<1>10. PICK f : f = Clock(e, Bit(0, 0)) /\ f.state = "Idle"
  BY <1>6, Wires, Edges
<1>11. f.sel = e.sel /\ f.scans = e.scans
  <2>1. Clock(e, Bit(0, 0)).state # "UpdateIR" /\ Clock(e, Bit(0, 0)).state # "UpdateDR"
    BY <1>10
  <2> QED
    BY <1>10, <2>1, ClockedSel, ClockedScans, Zenon
<1>12. Clocked(tap, ETAP_RESET) = f
  BY <1>3, <1>10, EtapResetLast
<1> QED
  BY <1>3, <1>8, <1>9, <1>11, <1>12
=============================================================================
