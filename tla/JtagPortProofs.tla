--------------------------- MODULE JtagPortProofs ---------------------------
(***************************************************************************)
(* Theorems about JtagPort, for any instructions of five bits and any data: *)
(* the resets bring the port in step from wherever it is (Synchronised),    *)
(* and a port in step is the port that TapPort promises (PortSpec).         *)
(***************************************************************************)
EXTENDS JtagPort, JtagTapProofs

vars == <<tap, last>>

-----------------------------------------------------------------------------
(* The operations from any state.                                          *)

\* The port before an operation: its scans are put aside.
LEMMA PutAside ==
  ASSUME NEW t, Sound(t), NEW u, u = [t EXCEPT !.scans = <<>>]
  PROVE  /\ Sound(u) /\ u.state = t.state /\ u.ir = t.ir /\ u.sel = t.sel
         /\ u.boot = t.boot /\ u.scans = <<>>
<1>1. DOMAIN u = Fields
  BY DEF Sound
<1>2. \A x \in Fields : u[x] = IF x = "scans" THEN <<>> ELSE t[x]
  BY DEF Sound
<1>3. /\ u.state = t.state /\ u.ir = t.ir /\ u.sel = t.sel /\ u.boot = t.boot
      /\ u.scans = <<>>
  BY <1>2 DEF Fields
<1> QED
  BY <1>1, <1>3 DEF Sound

\* The data of the operations: the fast transfer has a leading bit.
Sent == Data \cup {<<0>> \o d : d \in Data}

\* The operations that Next takes, by the name they leave in last.
LEMMA Operations ==
  ASSUME Next, Sound(tap), NEW u, u = [tap EXCEPT !.scans = <<>>]
  PROVE  \/ last' = "ETAP_RESET" /\ tap' = Clocked(u, ETAP_RESET)
         \/ last' = "PIC32_RESET" /\ tap' = Clocked(u, PIC32_RESET)
         \/ /\ last' = "SendCommand"
            /\ \E c \in Instruction : tap' = Clocked(u, SendCommand(c))
         \/ /\ last' \in {"XferData", "XferFastData"}
            /\ \E d \in Sent : tap' = Clocked(u, XferData(d))
<1>1. CASE Synchronise
  BY <1>1 DEF Synchronise, Perform
<1>2. CASE Park
  BY <1>2 DEF Park, Perform
<1>3. CASE Instruct
  BY <1>3 DEF Instruct, Perform
<1>4. CASE Transfer
  BY <1>4 DEF Transfer, Perform, Sent
<1>5. CASE FastTransfer
  <2>1. PICK d \in Data : /\ tap' = Clocked(u, XferFastData(d))
                          /\ last' = "XferFastData"
    BY <1>5 DEF FastTransfer, Perform
  <2>2. XferFastData(d) = XferData(<<0>> \o d)
    BY PortAssumption, FastIsXfer
  <2> QED
    BY <2>1, <2>2 DEF Sent
<1>6. CASE Bitbang
  <2>1. CASE Perform("ETAP_RESET", bitbang_send(6, 31, <<>>))
    BY <2>1, BitbangResets DEF Perform
  <2>2. CASE \E c \in Instruction :
                Perform("SendCommand", bitbang_send(1, 1, Five(c)))
    BY <2>2, BitbangInstructs DEF Perform
  <2>3. CASE \E d \in Data : Perform("XferData", bitbang_send(0, 0, d))
    <3>1. PICK d \in Data : /\ tap' = Clocked(u, bitbang_send(0, 0, d))
                            /\ last' = "XferData"
      BY <2>3 DEF Perform
    <3>2. bitbang_send(0, 0, d) = XferData(d)
      BY PortAssumption, BitbangTransfers
    <3> QED
      BY <3>1, <3>2 DEF Sent
  <2> QED
    BY <1>6, <2>1, <2>2, <2>3 DEF Bitbang
<1> QED
  BY <1>1, <1>2, <1>3, <1>4, <1>5, <1>6 DEF Next

\* The data of an operation: bits, and at least one of them.
LEMMA DataBits ==
  ASSUME NEW d \in Sent
  PROVE  d \in Seq({0, 1}) /\ d # <<>>
<1>1. CASE d \in Data
  BY <1>1, PortAssumption
<1>2. CASE d \in {<<0>> \o e : e \in Data}
  <2>1. PICK e \in Seq({0, 1}) : d = <<0>> \o e
    BY <1>2, PortAssumption
  <2> QED
    BY <2>1
<1> QED
  BY <1>1, <1>2 DEF Sent

\* A port stays sound, whatever is done to it.
LEMMA SoundStep ==
  ASSUME Sound(tap), [Next]_vars PROVE Sound(tap)'
<1>1. CASE UNCHANGED vars
  BY <1>1 DEF vars, Sound
<1>2. CASE Next
  <2>1. PICK u : u = [tap EXCEPT !.scans = <<>>]
    OBVIOUS
  <2>2. Sound(u)
    BY <2>1, PutAside
  <2>3. PICK bits : bits \in Seq([tms : {0, 1}, tdi : {0, 1}])
                    /\ tap' = Clocked(u, bits)
    <3>1. CASE \/ tap' = Clocked(u, ETAP_RESET)
               \/ tap' = Clocked(u, PIC32_RESET)
      BY <3>1, ResetBits
    <3>2. CASE \E c \in Instruction : tap' = Clocked(u, SendCommand(c))
      BY <3>2, PortAssumption, SendCommandBits
    <3>3. CASE \E d \in Sent : tap' = Clocked(u, XferData(d))
      <4>1. PICK d \in Seq({0, 1}) : tap' = Clocked(u, XferData(d))
        BY <3>3, DataBits
      <4>2. XferData(d) \in Seq([tms : {0, 1}, tdi : {0, 1} \cup {0}])
        BY XferDataBits
      <4>3. {0, 1} \cup {0} = {0, 1}
        OBVIOUS
      <4> QED
        BY <4>1, <4>2, <4>3
    <3> QED
      BY <1>2, <2>1, <3>1, <3>2, <3>3, Operations
  <2>4. Sound(Clocked(u, bits))
    BY <2>2, <2>3, ClockedSound
  <2> QED
    BY <2>3, <2>4 DEF Sound
<1> QED
  BY <1>1, <1>2

LEMMA SoundInit == Init => Sound(tap)
<1> SUFFICES ASSUME NEW s \in TapState, NEW c, NEW t \in {"MTAP", "ETAP"}, tap = Tap(s, c, t)
             PROVE  Sound(tap)
  BY DEF Init
<1>1. DOMAIN tap = Fields /\ tap.state = s /\ tap.boot = FALSE /\ tap.sel = t
  BY DEF Tap, Fields
<1> QED
  BY <1>1, Zenon DEF Sound

-----------------------------------------------------------------------------
(* In step.                                                                *)

LEMMA SynchronisedStep ==
  ASSUME Sound(tap), Synchronised, [Next]_vars PROVE Synchronised'
<1>1. CASE UNCHANGED vars
  BY <1>1 DEF vars, Synchronised
<1>2. CASE Next
  <2>1. PICK u : u = [tap EXCEPT !.scans = <<>>]
    OBVIOUS
  <2>2. u.state \in TapState
    BY <2>1, PutAside DEF Sound
  <2>3. CASE last' = "ETAP_RESET" /\ tap' = Clocked(u, ETAP_RESET)
    BY <2>2, <2>3, EtapResetSynchronises DEF Synchronised
  <2>4. CASE last' = "PIC32_RESET" /\ tap' = Clocked(u, PIC32_RESET)
    BY <2>2, <2>4, ResetSynchronises DEF Synchronised
  <2>5. CASE last' \in {"SendCommand", "XferData", "XferFastData"}
    BY <2>5 DEF Synchronised
  <2> QED
    BY <1>2, <2>1, <2>3, <2>4, <2>5, Operations
<1> QED
  BY <1>1, <1>2

\* ETAP_RESET leaves the port in Run-Test/Idle and PIC32_RESET in reset, with
\* IDCODE in force, whatever state the port was found or left in.
THEOREM AlwaysSynchronised == Spec => []Synchronised
<1>1. Init => Sound(tap) /\ Synchronised
  BY SoundInit DEF Init, Synchronised
<1>2. (Sound(tap) /\ Synchronised) /\ [Next]_vars => (Sound(tap) /\ Synchronised)'
  BY SoundStep, SynchronisedStep
<1> QED
  BY <1>1, <1>2, PTL DEF Spec, vars

-----------------------------------------------------------------------------
(* The port that TapPort promises.                                         *)

\* An operation on a port in step is one of TapPort's.
LEMMA PortStep ==
  ASSUME Sound(tap), Next, tap.state = "Idle" PROVE Port!Next
<1>1. PICK u : u = [tap EXCEPT !.scans = <<>>]
  OBVIOUS
<1>2. /\ u.state = "Idle" /\ u.ir = tap.ir /\ u.sel = tap.sel /\ u.scans = <<>>
      /\ u.boot \in BOOLEAN /\ u.state \in TapState
  BY <1>1, PutAside DEF Sound
<1>3. CASE tap' = Clocked(u, ETAP_RESET)
  <2>1. tap'.state = "Idle" /\ tap'.ir = IDCODE
    BY <1>2, <1>3, EtapResetSynchronises
  <2>2. tap'.sel = tap.sel /\ tap'.scans = <<>>
    BY <1>2, <1>3, ResetFromIdle
  <2>3. Port!Reset(TRUE)
    <3>1. (tap'.state = "Idle") = TRUE
      BY <2>1
    <3>2. tap'.ir = Port!IDCODE
      BY <2>1 DEF IDCODE, Port!IDCODE
    <3>3. tap'.sel \in IF tap.state = "Idle" THEN {tap.sel} ELSE {"MTAP", "ETAP"}
      BY <2>2
    <3> QED
      BY <2>2, <3>1, <3>2, <3>3, Zenon DEF Port!Reset
  <2> QED
    BY <2>3, Zenon DEF Port!Next
<1>4. CASE tap' = Clocked(u, PIC32_RESET)
  <2>1. tap'.state = "Reset" /\ tap'.ir = IDCODE
    BY <1>2, <1>4, ResetSynchronises
  <2>2. tap'.sel = tap.sel /\ tap'.scans = <<>>
    BY <1>2, <1>4, ResetFromIdle
  <2>3. Port!Reset(FALSE)
    <3>1. (tap'.state = "Idle") = FALSE
      BY <2>1
    <3>2. tap'.ir = Port!IDCODE
      BY <2>1 DEF IDCODE, Port!IDCODE
    <3>3. tap'.sel \in IF tap.state = "Idle" THEN {tap.sel} ELSE {"MTAP", "ETAP"}
      BY <2>2
    <3> QED
      BY <2>2, <3>1, <3>2, <3>3, Zenon DEF Port!Reset
  <2> QED
    BY <2>3, Zenon DEF Port!Next
<1>5. CASE \E c \in Instruction : tap' = Clocked(u, SendCommand(c))
  <2>1. PICK c \in Instruction : tap' = Clocked(u, SendCommand(c))
    BY <1>5
  <2>2. c \in 0 .. 31
    BY PortAssumption
  <2>3. /\ tap'.state = "Idle" /\ tap'.ir = c /\ tap'.scans = <<>>
        /\ tap'.sel = IF c = SW_MTAP THEN "MTAP"
                      ELSE IF c = SW_ETAP THEN "ETAP" ELSE tap.sel
    <3>1. PICK e : e = Clocked(u, SendCommand(c))
      OBVIOUS
    <3>2. /\ e.state = "Idle" /\ e.ir = c /\ e.scans = u.scans
          /\ e.sel = IF c = SW_MTAP THEN "MTAP"
                     ELSE IF c = SW_ETAP THEN "ETAP" ELSE u.sel
      <4>1. u.state = "Idle" /\ u.boot \in BOOLEAN
        BY <1>2, Zenon
      <4> QED
        BY <2>2, <3>1, <4>1, SendCommandInstructs
    <3> QED
      BY <1>2, <2>1, <3>1, <3>2
  <2>4. Port!Instruct(c)
    <3>1. SW_MTAP # SW_ETAP /\ SW_MTAP = Port!SW_MTAP /\ SW_ETAP = Port!SW_ETAP
      BY DEF SW_MTAP, SW_ETAP, Port!SW_MTAP, Port!SW_ETAP
    <3>2. (tap'.state = "Idle") = TRUE
      BY <2>3
    <3>3. CASE c = SW_MTAP
      BY <2>3, <3>1, <3>2, <3>3, Zenon DEF Port!Instruct
    <3>4. CASE c = SW_ETAP
      BY <2>3, <3>1, <3>2, <3>4, Zenon DEF Port!Instruct
    <3>5. CASE c # SW_MTAP /\ c # SW_ETAP
      BY <2>3, <3>1, <3>2, <3>5, Zenon DEF Port!Instruct
    <3> QED
      BY <3>3, <3>4, <3>5, Zenon
  <2> QED
    BY <2>4, Zenon DEF Port!Next
<1>6. CASE \E d \in Sent : tap' = Clocked(u, XferData(d))
  <2>1. PICK d \in Sent : tap' = Clocked(u, XferData(d))
    BY <1>6
  <2>2. d \in Seq({0, 1}) /\ d # <<>>
    BY DataBits
  <2>3. OneScan(tap', u, d)
    BY <1>2, <2>1, <2>2, XferDataScans
  <2>4. tap'.scans = <<[sel |-> tap.sel, ir |-> tap.ir, data |-> d]>>
    <3>1. PICK r : r = [sel |-> tap.sel, ir |-> tap.ir, data |-> d]
      OBVIOUS
    <3>2. Append(<<>>, r) = <<r>>
      OBVIOUS
    <3> QED
      BY <1>2, <2>3, <3>1, <3>2 DEF OneScan
  <2>5. Port!Transfer(d)
    BY <1>2, <2>3, <2>4 DEF Port!Transfer, OneScan
  <2> QED
    BY <2>5, Zenon DEF Port!Next, Sent
<1> QED
  BY <1>1, <1>3, <1>4, <1>5, <1>6, Operations

\* For any instructions and any data: a port in step takes every instruction
\* and every word whole, in one scan of exactly its bits, and stays in step.
THEOREM ImplementsTapPort == Spec => PortSpec
<1>1. Init => Port!Init
  <2> SUFFICES ASSUME NEW s \in TapState, NEW c \in Instruction,
                      NEW t \in {"MTAP", "ETAP"}, tap = Tap(s, c, t)
               PROVE  Port!Init
    BY DEF Init
  <2>1. tap.state = s /\ tap.ir = c /\ tap.sel = t /\ tap.scans = <<>>
    BY DEF Tap
  <2> QED
    BY <2>1 DEF Port!Init
<1>2. Sound(tap) /\ [Next]_vars => [Port!Next]_Port!vars
  <2> SUFFICES ASSUME Sound(tap), [Next]_vars PROVE [Port!Next]_Port!vars
    OBVIOUS
  <2>1. CASE UNCHANGED vars
    BY <2>1 DEF vars, Port!vars
  <2>2. CASE Next /\ tap.state = "Idle"
    BY <2>2, PortStep
  <2>3. CASE tap.state # "Idle"
    BY <2>3, Zenon DEF Port!Next, Port!Confuse
  <2> QED
    BY <2>1, <2>2, <2>3
<1>3. Sound(tap) /\ [Next]_vars => Sound(tap)'
  BY SoundStep
<1> QED
  BY <1>1, <1>2, <1>3, SoundInit, PTL DEF Spec, PortSpec, Port!Spec, vars

=============================================================================
