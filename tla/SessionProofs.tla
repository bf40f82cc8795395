--------------------------- MODULE SessionProofs ---------------------------
(***************************************************************************)
(* Every variable of Session holds a value of its kind, the port misses an  *)
(* instruction only where EnterPgmMode gives it with four wires, and a      *)
(* close lets go of the target in order, whatever the adapter, the job, the *)
(* wiring, the number of blocks and where earlier sessions were killed; and *)
(* the scripts of a PICkit find their words and answers in its buffers.     *)
(***************************************************************************)
EXTENDS Session, DeviceProofs

-----------------------------------------------------------------------------
(* Scripts.                                                                *)

\* Sequences put together.
LEMMA Joined ==
  ASSUME NEW S
  PROVE  \A s, r \in Seq(S) : s \o r \in Seq(S)
OBVIOUS

\* A sequence is over every set its elements are in.
LEMMA Narrowed ==
  ASSUME NEW S, NEW T, NEW s \in Seq(S), \A i \in 1 .. Len(s) : s[i] \in T
  PROVE  s \in Seq(T)
<1>1. s \in [1 .. Len(s) -> T] /\ Len(s) \in Nat
  OBVIOUS
<1>2. [1 .. Len(s) -> T] \in {[1 .. n -> T] : n \in Nat}
  BY <1>1
<1>3. Seq(T) = UNION {[1 .. n -> T] : n \in Nat}
  BY SeqDef, Zenon
<1> QED
  BY <1>1, <1>2, <1>3, Zenon

\* What is repeated alike.
LEMMA TimesIn ==
  ASSUME NEW S, NEW n \in Nat, NEW x \in S
  PROVE  Times(n, x) \in Seq(S)
BY DEF Times

\* The instructions of the port are numbers of five bits.
LEMMA InstructionNumbers ==
  /\ IDCODE \in 0 .. 31 /\ SW_MTAP \in 0 .. 31 /\ SW_ETAP \in 0 .. 31
  /\ COMMAND \in 0 .. 31 /\ DATA \in 0 .. 31 /\ CONTROL \in 0 .. 31
  /\ EJTAGBOOT \in 0 .. 31 /\ FASTDATA \in 0 .. 31
  /\ CODE \in Nat /\ JUMP \in Nat /\ STOP \in Nat
BY DEF IDCODE, SW_MTAP, SW_ETAP, COMMAND, DATA, CONTROL, EJTAGBOOT, FASTDATA, CODE,
       JUMP, STOP

\* A command with a number, and any other kind of calm command.
LEMMA CalmKinds ==
  /\ \A op \in Numbered : \A n \in Nat : Do(op, n) \in CalmSteps
  /\ \A cmd \in 0 .. 31 : Do("SendCommand", cmd) \in CalmSteps
  /\ Do("SetMode", 6) \in CalmSteps /\ Do("Supply", 0) \in CalmSteps
  /\ \A words \in Seq(Nat) : Do("Download", words) \in CalmSteps
  /\ \A what \in Answers : Do("Expect", what) \in CalmSteps
  /\ \A send \in CalmSends : Do("Bitbang", send) \in CalmSteps
BY DEF CalmSteps, Do

\* Those that neither touch the pins nor have the processor held in reset.
LEMMA HeldKinds ==
  /\ \A op \in Numbered \ {"XferByte", "XferData8"} : \A n \in Nat :
         Do(op, n) \in HeldSteps
  /\ \A op \in {"XferByte", "XferData8"} : \A n \in Nat \ {209} : Do(op, n) \in HeldSteps
  /\ \A cmd \in 0 .. 31 : Do("SendCommand", cmd) \in HeldSteps
  /\ Do("SetMode", 6) \in HeldSteps
  /\ \A words \in Seq(Nat) : Do("Download", words) \in HeldSteps
  /\ \A what \in Answers : Do("Expect", what) \in HeldSteps
<1>1. ASSUME NEW op, NEW a, Do(op, a) \in CalmSteps, op \notin {"Supply", "Bitbang"},
             op \in {"XferByte", "XferData8"} => a # 209
      PROVE  Do(op, a) \in HeldSteps
  BY <1>1 DEF HeldSteps, Do
<1>2. Numbered \cap {"Supply", "Bitbang"} = {} /\ {"XferByte", "XferData8"} \subseteq Numbered
  BY DEF Numbered
<1>3. /\ \A op \in Numbered \ {"XferByte", "XferData8"} : \A n \in Nat :
             Do(op, n) \in HeldSteps
      /\ \A op \in {"XferByte", "XferData8"} : \A n \in Nat \ {209} :
             Do(op, n) \in HeldSteps
  BY <1>1, <1>2, CalmKinds
<1>4. /\ \A cmd \in 0 .. 31 : Do("SendCommand", cmd) \in HeldSteps
      /\ Do("SetMode", 6) \in HeldSteps
      /\ \A words \in Seq(Nat) : Do("Download", words) \in HeldSteps
      /\ \A what \in Answers : Do("Expect", what) \in HeldSteps
  BY <1>1, CalmKinds
<1> QED
  BY <1>3, <1>4

\* The commands of the usbpic and of the PICkit driver, by their names.
LEMMA CalmNames ==
  /\ \A cmd \in 0 .. 31 : Instr(cmd) \in HeldSteps
  /\ \A n \in Nat : /\ Execute(n) \in HeldSteps
                    /\ Fast(n) \in HeldSteps /\ FastLit(n) \in HeldSteps
                    /\ Give(n) \in HeldSteps /\ FastBuf(n) \in HeldSteps
                    /\ ExpectBytes(n) \in HeldSteps
  /\ \A n \in Nat \ {209} : MtapCommand(n) \in HeldSteps /\ Read8(n) \in HeldSteps
  /\ \A words \in Seq(Nat) : Download(words) \in HeldSteps
  /\ \A what \in Answers : Expect(what) \in HeldSteps
  /\ Reset5 \in HeldSteps /\ ReadWord \in HeldSteps /\ Response \in HeldSteps
  /\ ClearDownload \in HeldSteps /\ ClearUpload \in HeldSteps /\ Read32 \in HeldSteps
  /\ PeResponse \in HeldSteps /\ Receive \in HeldSteps /\ ReadStatus(0) \in HeldSteps
  /\ Do("WaitPeResp", 0) \in HeldSteps /\ Do("GetPeResp", 32) \in HeldSteps
<1>1. /\ \A n \in Nat : /\ Execute(n) \in HeldSteps
                        /\ Fast(n) \in HeldSteps /\ FastLit(n) \in HeldSteps
                        /\ Give(n) \in HeldSteps /\ FastBuf(n) \in HeldSteps
                        /\ ExpectBytes(n) \in HeldSteps
      /\ ReadWord \in HeldSteps /\ Response \in HeldSteps
      /\ ClearDownload \in HeldSteps /\ ClearUpload \in HeldSteps
      /\ Read32 \in HeldSteps /\ PeResponse \in HeldSteps /\ Receive \in HeldSteps
      /\ ReadStatus(0) \in HeldSteps
      /\ Do("WaitPeResp", 0) \in HeldSteps /\ Do("GetPeResp", 32) \in HeldSteps
  <2>1. PICK Q : Q = Numbered \ {"XferByte", "XferData8"}
    OBVIOUS
  <2>2. /\ "XferInstruction" \in Q
        /\ "XferFastData" \in Q /\ "XferInstBuf" \in Q
        /\ "XfrFastBuf" \in Q
        /\ "ExpectBytes" \in Q /\ "XferWord" \in Q
        /\ "GetPEResponse" \in Q /\ "ClearDownload" \in Q
        /\ "ClearUpload" \in Q /\ "XferData32" \in Q
        /\ "GetPeResp" \in Q /\ "Receive" \in Q /\ "ReadStatus" \in Q
        /\ "WaitPeResp" \in Q
    BY <2>1 DEF Numbered
  <2>3. 0 \in Nat /\ 1 \in Nat /\ 32 \in Nat
    OBVIOUS
  <2>4. \A op \in Q : \A n \in Nat : Do(op, n) \in HeldSteps
    BY <2>1, HeldKinds, Zenon
  <2> QED
    BY <2>2, <2>3, <2>4, Zenon
       DEF Execute, Fast, FastLit, Give, FastBuf, ExpectBytes,
           ReadWord, Response, ClearDownload, ClearUpload, Read32, PeResponse, Receive,
           ReadStatus
<1>2. /\ \A cmd \in 0 .. 31 : Instr(cmd) \in HeldSteps
      /\ \A words \in Seq(Nat) : Download(words) \in HeldSteps
      /\ \A what \in Answers : Expect(what) \in HeldSteps
      /\ Reset5 \in HeldSteps
  BY HeldKinds, Zenon DEF Instr, Download, Expect, Reset5
<1>3. \A n \in Nat \ {209} : MtapCommand(n) \in HeldSteps /\ Read8(n) \in HeldSteps
  <2>1. \A n \in Nat \ {209} : Do("XferByte", n) \in HeldSteps
                               /\ Do("XferData8", n) \in HeldSteps
    BY HeldKinds
  <2> QED
    BY <2>1, Zenon DEF MtapCommand, Read8
<1> QED
  BY <1>1, <1>2, <1>3, Zenon

\* The calm commands of the serial adapter.
LEMMA CalmSerial ==
  /\ \A cmd \in 0 .. 31 : Command(cmd) \in CalmSteps
  /\ \A v \in 0 .. 255 : \A read \in BOOLEAN : Mchp(v, read) \in CalmSteps
  /\ \A w \in Nat : \A read \in BOOLEAN :
         /\ Send(0, 0, Word, read, w) \in CalmSteps
         /\ Send(0, 0, <<0>> \o Word, read, w) \in CalmSteps
         /\ Send(6, 31, Word, read, w) \in CalmSteps
         /\ Send(6, 31, <<>>, read, w) \in CalmSteps
  /\ \A w \in Nat : xfer_fastdata(w) \in CalmSteps
<1>1. \A send \in Sending :
          \/ /\ send.nTms = 1 /\ send.tms = 1
             /\ \E cmd \in 0 .. 31 : send.data = Five(cmd)
          \/ /\ send.nTms = 0 /\ send.tms = 0
             /\ \/ \E v \in 0 .. 255 : send.data = Byte(v)
                \/ send.data \in {Word, LongWord}
          \/ send.nTms = 6 /\ send.tms = 31 /\ send.data \in {Word, <<>>}
          => Do("Bitbang", send) \in CalmSteps
  <2>1. \A send \in CalmSends : Do("Bitbang", send) \in CalmSteps
    BY CalmKinds
  <2> QED
    BY <2>1, Zenon DEF CalmSends
<1>2. ASSUME NEW n \in {0, 1, 6}, NEW t \in {0, 1, 31}, NEW data \in Seq(Nat),
             NEW read \in BOOLEAN, NEW w \in Nat,
             \/ n = 1 /\ t = 1 /\ \E cmd \in 0 .. 31 : data = Five(cmd)
             \/ n = 0 /\ t = 0 /\ \E v \in 0 .. 255 : data = Byte(v)
             \/ n = 0 /\ t = 0 /\ data \in {Word, LongWord}
             \/ n = 6 /\ t = 31 /\ data \in {Word, <<>>}
      PROVE  Send(n, t, data, read, w) \in CalmSteps
  <2>1. PICK send : send = [nTms |-> n, tms |-> t, data |-> data, read |-> read,
                            word |-> w]
    OBVIOUS
  <2>2. send \in Sending
    BY <2>1 DEF Sending
  <2>3. send.nTms = n /\ send.tms = t /\ send.data = data
    BY <2>1
  <2>4. \/ /\ send.nTms = 1 /\ send.tms = 1
           /\ \E cmd \in 0 .. 31 : send.data = Five(cmd)
        \/ /\ send.nTms = 0 /\ send.tms = 0
           /\ \/ \E v \in 0 .. 255 : send.data = Byte(v)
              \/ send.data \in {Word, LongWord}
        \/ send.nTms = 6 /\ send.tms = 31 /\ send.data \in {Word, <<>>}
    BY <1>2, <2>3, Zenon
  <2>5. Do("Bitbang", send) \in CalmSteps
    BY <1>1, <2>2, <2>4, Zenon
  <2> QED
    BY <2>1, <2>5, Zenon DEF Send
<1>3. ASSUME NEW cmd \in 0 .. 31 PROVE Command(cmd) \in CalmSteps
  <2>1. cmd \in Nat
    OBVIOUS
  <2>2. PICK data \in Seq(Nat) : data = Five(cmd)
    BY <2>1, BitsOf
  <2>3. Send(1, 1, data, FALSE, 0) \in CalmSteps
    BY <1>2, <2>2
  <2> QED
    BY <2>2, <2>3, Zenon DEF Command
<1>4. ASSUME NEW v \in 0 .. 255, NEW read \in BOOLEAN PROVE Mchp(v, read) \in CalmSteps
  <2>1. v \in Nat
    OBVIOUS
  <2>2. PICK data \in Seq(Nat) : data = Byte(v)
    BY <2>1, BitsOf
  <2>3. Send(0, 0, data, read, 0) \in CalmSteps
    BY <1>2, <2>2
  <2> QED
    BY <2>2, <2>3, Zenon DEF Mchp
<1>5. ASSUME NEW w \in Nat, NEW read \in BOOLEAN
      PROVE  /\ Send(0, 0, Word, read, w) \in CalmSteps
             /\ Send(0, 0, LongWord, read, w) \in CalmSteps
             /\ Send(6, 31, Word, read, w) \in CalmSteps
             /\ Send(6, 31, <<>>, read, w) \in CalmSteps
  <2>1. Word \in Seq(Nat) /\ LongWord \in Seq(Nat) /\ <<>> \in Seq(Nat)
    BY WordIs, LongWordIs
  <2>2. PICK none : none = <<>>
    OBVIOUS
  <2>3. Send(6, 31, none, read, w) \in CalmSteps
    BY <1>2, <2>1, <2>2
  <2>4. /\ Send(0, 0, Word, read, w) \in CalmSteps
        /\ Send(0, 0, LongWord, read, w) \in CalmSteps
        /\ Send(6, 31, Word, read, w) \in CalmSteps
    BY <1>2, <2>1
  <2> QED
    BY <2>2, <2>3, <2>4, Zenon
<1>6. ASSUME NEW w \in Nat PROVE xfer_fastdata(w) \in CalmSteps
  BY <1>5, Zenon DEF xfer_fastdata, LongWord
<1> QED
  BY <1>3, <1>4, <1>5, <1>6, Zenon DEF LongWord

\* The calm commands that occur, one by one.
LEMMA CalmUsed ==
  /\ Instr(SW_MTAP) \in HeldSteps /\ Instr(SW_ETAP) \in HeldSteps
  /\ Instr(COMMAND) \in HeldSteps /\ Instr(FASTDATA) \in HeldSteps
  /\ Instr(EJTAGBOOT) \in HeldSteps /\ Instr(IDCODE) \in HeldSteps
  /\ Reset5 \in HeldSteps /\ ReadWord \in HeldSteps /\ Response \in HeldSteps
  /\ MtapCommand(0) \in HeldSteps /\ MtapCommand(208) \in HeldSteps
  /\ MtapCommand(252) \in HeldSteps
  /\ Execute(CODE) \in HeldSteps /\ Execute(JUMP) \in HeldSteps
  /\ Fast(0) \in HeldSteps /\ Fast(CODE) \in HeldSteps /\ Fast(STOP) \in HeldSteps
  /\ Expect("idcode") \in HeldSteps /\ Expect("status") \in HeldSteps
  /\ Expect("unprotected") \in HeldSteps /\ Expect("PrAcc") \in HeldSteps
  /\ Expect("pe") \in HeldSteps /\ Expect("ready") \in HeldSteps
  /\ Expect("power") \in HeldSteps
<1>1. /\ "idcode" \in Answers /\ "status" \in Answers /\ "unprotected" \in Answers
      /\ "PrAcc" \in Answers /\ "pe" \in Answers /\ "ready" \in Answers
      /\ "power" \in Answers
  BY DEF Answers
<1>2. /\ 0 \in Nat /\ 0 \in Nat \ {209} /\ 208 \in Nat \ {209}
      /\ 252 \in Nat \ {209}
  OBVIOUS
<1>3. /\ Expect("idcode") \in HeldSteps /\ Expect("status") \in HeldSteps
      /\ Expect("unprotected") \in HeldSteps /\ Expect("PrAcc") \in HeldSteps
      /\ Expect("pe") \in HeldSteps /\ Expect("ready") \in HeldSteps
      /\ Expect("power") \in HeldSteps
  BY <1>1, CalmNames, Zenon
<1>4. /\ Instr(SW_MTAP) \in HeldSteps /\ Instr(SW_ETAP) \in HeldSteps
      /\ Instr(COMMAND) \in HeldSteps /\ Instr(FASTDATA) \in HeldSteps
      /\ Instr(EJTAGBOOT) \in HeldSteps /\ Instr(IDCODE) \in HeldSteps
  BY CalmNames, InstructionNumbers, Zenon
<1>5. /\ MtapCommand(0) \in HeldSteps /\ MtapCommand(208) \in HeldSteps
      /\ MtapCommand(252) \in HeldSteps
  <2>1. \A n \in Nat \ {209} : MtapCommand(n) \in HeldSteps
    BY CalmNames, Zenon
  <2> QED
    BY <2>1
<1>6. /\ Execute(CODE) \in HeldSteps /\ Execute(JUMP) \in HeldSteps
      /\ Fast(0) \in HeldSteps /\ Fast(CODE) \in HeldSteps /\ Fast(STOP) \in HeldSteps
  <2>1. \A n \in Nat : Execute(n) \in HeldSteps /\ Fast(n) \in HeldSteps
    BY CalmNames, Zenon
  <2> QED
    BY <2>1, InstructionNumbers
<1>7. Reset5 \in HeldSteps /\ ReadWord \in HeldSteps /\ Response \in HeldSteps
  BY CalmNames, Zenon
<1> QED
  BY <1>3, <1>4, <1>5, <1>6, <1>7

\* Those that the serial adapter's driver shares.
LEMMA CalmLooks ==
  /\ Expect("idcode") \in CalmSteps /\ Expect("status") \in CalmSteps
  /\ Expect("unprotected") \in CalmSteps /\ Expect("PrAcc") \in CalmSteps
  /\ Expect("pe") \in CalmSteps
BY CalmUsed DEF HeldSteps

\* The words of the executive.
LEMMA PeWordsIs ==
  \A family : PeWords(family) \in {12, 14}
BY DEF PeWords

\* A set with the commands that the usbpic driver sends to a port in step.
UsbpicNeeds(S) ==
    /\ Instr(SW_MTAP) \in S /\ Instr(SW_ETAP) \in S
    /\ Instr(COMMAND) \in S /\ Instr(FASTDATA) \in S
    /\ Instr(EJTAGBOOT) \in S /\ Instr(IDCODE) \in S
    /\ Reset5 \in S /\ ReadWord \in S /\ Response \in S
    /\ MtapCommand(0) \in S /\ MtapCommand(208) \in S /\ MtapCommand(252) \in S
    /\ Execute(CODE) \in S /\ Execute(JUMP) \in S
    /\ Fast(0) \in S /\ Fast(CODE) \in S /\ Fast(STOP) \in S
    /\ \A n \in Nat : Fast(n) \in S
    /\ Expect("idcode") \in S /\ Expect("status") \in S
    /\ Expect("unprotected") \in S /\ Expect("pe") \in S

\* Its scripts are lists of them.
LEMMA UsbpicIn ==
  ASSUME NEW S, UsbpicNeeds(S)
  PROVE  /\ open_status \in Seq(S) /\ usbpic_get_idcode \in Seq(S)
         /\ usbpic_read_word \in Seq(S) /\ usbpic_program_row \in Seq(S)
         /\ usbpic_program_word \in Seq(S) /\ usbpic_verify_data \in Seq(S)
         /\ usbpic_read_data \in Seq(S)
         /\ \A family : /\ usbpic_load_executive(family) \in Seq(S)
                        /\ usbpic_erase_chip(family) \in Seq(S)
<1>0. /\ Instr(SW_MTAP) \in S /\ Instr(SW_ETAP) \in S
      /\ Instr(COMMAND) \in S /\ Instr(FASTDATA) \in S
      /\ Instr(EJTAGBOOT) \in S /\ Instr(IDCODE) \in S
      /\ Reset5 \in S /\ ReadWord \in S /\ Response \in S
      /\ MtapCommand(0) \in S /\ MtapCommand(208) \in S /\ MtapCommand(252) \in S
      /\ Execute(CODE) \in S /\ Execute(JUMP) \in S
      /\ Fast(0) \in S /\ Fast(CODE) \in S /\ Fast(STOP) \in S
      /\ \A n \in Nat : Fast(n) \in S
      /\ Expect("idcode") \in S /\ Expect("status") \in S
      /\ Expect("unprotected") \in S /\ Expect("pe") \in S
  BY Zenon DEF UsbpicNeeds
<1>1. open_status \in Seq(S) /\ usbpic_get_idcode \in Seq(S)
  BY <1>0 DEF open_status, usbpic_get_idcode
<1>2. usbpic_program_row \in Seq(S) /\ usbpic_program_word \in Seq(S)
  BY <1>0 DEF usbpic_program_row, usbpic_program_word
<1>3. usbpic_verify_data \in Seq(S) /\ usbpic_read_data \in Seq(S)
  BY <1>0 DEF usbpic_verify_data, usbpic_read_data
<1>4. usbpic_read_word \in Seq(S)
  <2>1. /\ <<Instr(SW_ETAP), Reset5>> \in Seq(S)
        /\ <<Instr(FASTDATA), Fast(0)>> \in Seq(S)
    BY <1>0
  <2>2. Times(6, Execute(CODE)) \in Seq(S)
    BY <1>0, TimesIn
  <2> QED
    BY <2>1, <2>2, Joined, Zenon DEF usbpic_read_word
<1>5. ASSUME NEW family PROVE usbpic_load_executive(family) \in Seq(S)
  <2>1. Times(IF family = "mx" THEN 2 ELSE 1, Execute(CODE)) \in Seq(S)
    <3>1. PICK k \in Nat : k = IF family = "mx" THEN 2 ELSE 1
      OBVIOUS
    <3>2. Times(k, Execute(CODE)) \in Seq(S)
      BY <1>0, TimesIn
    <3> QED
      BY <3>1, <3>2
  <2>2. Times(PeWords(family), Fast(CODE)) \in Seq(S)
    <3>1. PeWords(family) \in Nat
      BY PeWordsIs
    <3> QED
      BY <3>1, <1>0, TimesIn
  <2>3. <<Execute(JUMP), Instr(FASTDATA), Fast(CODE), Fast(PeWords(family))>>
            \in Seq(S)
    <3>1. Fast(PeWords(family)) \in S
      BY PeWordsIs, <1>0
    <3> QED
      BY <3>1, <1>0
  <2>4. <<Fast(0), Fast(STOP), Fast(CODE), Response, Expect("pe")>> \in Seq(S)
    BY <1>0
  <2> QED
    BY <2>1, <2>2, <2>3, <2>4, Joined, Zenon DEF usbpic_load_executive
<1>6. ASSUME NEW family PROVE usbpic_erase_chip(family) \in Seq(S)
  <2>1. /\ <<Instr(SW_MTAP), Instr(COMMAND), MtapCommand(252)>> \in Seq(S)
        /\ <<MtapCommand(208)>> \in Seq(S) /\ <<MtapCommand(0)>> \in Seq(S)
        /\ <<>> \in Seq(S)
    BY <1>0
  <2>2. (IF family = "mz" THEN <<MtapCommand(208)>> ELSE <<>>) \in Seq(S)
    BY <2>1, Zenon
  <2> QED
    BY <2>1, <2>2, Joined, ZenonT(60) DEF usbpic_erase_chip
<1> QED
  BY <1>1, <1>2, <1>3, <1>4, <1>5, <1>6, Zenon

\* The scripts of the usbpic driver for a port in step.
LEMMA UsbpicCalm ==
  /\ open_status \in Seq(HeldSteps) /\ usbpic_get_idcode \in Seq(HeldSteps)
  /\ usbpic_read_word \in Seq(HeldSteps) /\ usbpic_program_row \in Seq(HeldSteps)
  /\ usbpic_program_word \in Seq(HeldSteps) /\ usbpic_verify_data \in Seq(HeldSteps)
  /\ usbpic_read_data \in Seq(HeldSteps)
  /\ \A family : /\ usbpic_load_executive(family) \in Seq(HeldSteps)
                 /\ usbpic_erase_chip(family) \in Seq(HeldSteps)
<1>1. \A n \in Nat : Fast(n) \in HeldSteps
  BY CalmNames, Zenon
<1>2. UsbpicNeeds(HeldSteps)
  BY <1>1, CalmUsed, Zenon DEF UsbpicNeeds
<1> QED
  BY <1>2, UsbpicIn, Zenon

\* The calm commands of the serial adapter that occur.
LEMMA SerialUsed ==
  /\ Command(SW_MTAP) \in CalmSteps /\ Command(SW_ETAP) \in CalmSteps
  /\ Command(COMMAND) \in CalmSteps /\ Command(CONTROL) \in CalmSteps
  /\ Command(DATA) \in CalmSteps /\ Command(FASTDATA) \in CalmSteps
  /\ Command(EJTAGBOOT) \in CalmSteps
  /\ Mchp(0, FALSE) \in CalmSteps /\ Mchp(0, TRUE) \in CalmSteps
  /\ Mchp(209, FALSE) \in CalmSteps /\ Mchp(208, FALSE) \in CalmSteps
  /\ Mchp(254, FALSE) \in CalmSteps /\ Mchp(252, FALSE) \in CalmSteps
  /\ Send(6, 31, Word, TRUE, 0) \in CalmSteps
  /\ Send(6, 31, <<>>, FALSE, 0) \in CalmSteps
  /\ Send(0, 0, Word, TRUE, 0) \in CalmSteps /\ Send(0, 0, Word, FALSE, 0) \in CalmSteps
  /\ \A w \in Nat : Send(0, 0, Word, FALSE, w) \in CalmSteps
  /\ Send(0, 0, <<0>> \o Word, TRUE, 0) \in CalmSteps
  /\ xfer_fastdata(0) \in CalmSteps /\ xfer_fastdata(CODE) \in CalmSteps
  /\ xfer_fastdata(STOP) \in CalmSteps
<1>1. /\ 0 \in Nat /\ 0 \in 0 .. 255 /\ 209 \in 0 .. 255 /\ 208 \in 0 .. 255
      /\ 254 \in 0 .. 255 /\ 252 \in 0 .. 255 /\ TRUE \in BOOLEAN /\ FALSE \in BOOLEAN
  OBVIOUS
<1>2. /\ Command(SW_MTAP) \in CalmSteps /\ Command(SW_ETAP) \in CalmSteps
      /\ Command(COMMAND) \in CalmSteps /\ Command(CONTROL) \in CalmSteps
      /\ Command(DATA) \in CalmSteps /\ Command(FASTDATA) \in CalmSteps
      /\ Command(EJTAGBOOT) \in CalmSteps
  BY CalmSerial, InstructionNumbers, Zenon
<1>3. /\ Mchp(0, FALSE) \in CalmSteps /\ Mchp(0, TRUE) \in CalmSteps
      /\ Mchp(209, FALSE) \in CalmSteps /\ Mchp(208, FALSE) \in CalmSteps
      /\ Mchp(254, FALSE) \in CalmSteps /\ Mchp(252, FALSE) \in CalmSteps
  BY <1>1, CalmSerial, Zenon
<1>4. /\ Send(6, 31, Word, TRUE, 0) \in CalmSteps
      /\ Send(6, 31, <<>>, FALSE, 0) \in CalmSteps
      /\ Send(0, 0, Word, TRUE, 0) \in CalmSteps
      /\ Send(0, 0, Word, FALSE, 0) \in CalmSteps
      /\ \A w \in Nat : Send(0, 0, Word, FALSE, w) \in CalmSteps
      /\ Send(0, 0, <<0>> \o Word, TRUE, 0) \in CalmSteps
  BY <1>1, CalmSerial, Zenon
<1>5. /\ xfer_fastdata(0) \in CalmSteps /\ xfer_fastdata(CODE) \in CalmSteps
      /\ xfer_fastdata(STOP) \in CalmSteps
  BY <1>1, CalmSerial, InstructionNumbers, Zenon
<1> QED
  BY <1>2, <1>3, <1>4, <1>5, Zenon

\* A set with the commands that the serial adapter's driver sends to a port in step.
BitbangNeeds(S) ==
    /\ Command(SW_MTAP) \in S /\ Command(SW_ETAP) \in S
    /\ Command(COMMAND) \in S /\ Command(CONTROL) \in S
    /\ Command(DATA) \in S /\ Command(FASTDATA) \in S
    /\ Command(EJTAGBOOT) \in S
    /\ Mchp(0, FALSE) \in S /\ Mchp(0, TRUE) \in S
    /\ Mchp(209, FALSE) \in S /\ Mchp(208, FALSE) \in S
    /\ Mchp(254, FALSE) \in S /\ Mchp(252, FALSE) \in S
    /\ Send(6, 31, Word, TRUE, 0) \in S
    /\ Send(6, 31, <<>>, FALSE, 0) \in S
    /\ Send(0, 0, Word, TRUE, 0) \in S /\ Send(0, 0, Word, FALSE, 0) \in S
    /\ \A w \in Nat : Send(0, 0, Word, FALSE, w) \in S
    /\ Send(0, 0, <<0>> \o Word, TRUE, 0) \in S
    /\ xfer_fastdata(0) \in S /\ xfer_fastdata(CODE) \in S
    /\ xfer_fastdata(STOP) \in S /\ \A w \in Nat : xfer_fastdata(w) \in S
    /\ Expect("idcode") \in S /\ Expect("status") \in S
    /\ Expect("unprotected") \in S /\ Expect("PrAcc") \in S
    /\ Expect("pe") \in S /\ Do("Supply", 0) \in S

\* An instruction for the processor and a response of the executive.
LEMMA ExchangeIn ==
  ASSUME NEW S, BitbangNeeds(S)
  PROVE  /\ WaitPrAcc \in Seq(S) /\ get_pe_response \in Seq(S)
         /\ \A word \in Nat : xfer_instruction(word) \in Seq(S)
<1>0. /\ Command(SW_MTAP) \in S /\ Command(SW_ETAP) \in S
      /\ Command(COMMAND) \in S /\ Command(CONTROL) \in S
      /\ Command(DATA) \in S /\ Command(FASTDATA) \in S
      /\ Command(EJTAGBOOT) \in S
      /\ Mchp(0, FALSE) \in S /\ Mchp(0, TRUE) \in S
      /\ Mchp(209, FALSE) \in S /\ Mchp(208, FALSE) \in S
      /\ Mchp(254, FALSE) \in S /\ Mchp(252, FALSE) \in S
      /\ Send(6, 31, Word, TRUE, 0) \in S
      /\ Send(6, 31, <<>>, FALSE, 0) \in S
      /\ Send(0, 0, Word, TRUE, 0) \in S /\ Send(0, 0, Word, FALSE, 0) \in S
      /\ \A w \in Nat : Send(0, 0, Word, FALSE, w) \in S
      /\ Send(0, 0, <<0>> \o Word, TRUE, 0) \in S
      /\ xfer_fastdata(0) \in S /\ xfer_fastdata(CODE) \in S
      /\ xfer_fastdata(STOP) \in S /\ \A w \in Nat : xfer_fastdata(w) \in S
      /\ Expect("idcode") \in S /\ Expect("status") \in S
      /\ Expect("unprotected") \in S /\ Expect("PrAcc") \in S
      /\ Expect("pe") \in S /\ Do("Supply", 0) \in S
  BY Zenon DEF BitbangNeeds
<1>1. WaitPrAcc \in Seq(S)
  <2>1. PICK x, y, z \in S : /\ x = Command(CONTROL) /\ z = Expect("PrAcc")
                                     /\ y = Send(0, 0, Word, TRUE, 0)
    BY <1>0, Zenon
  <2>2. <<x, y, z>> \in Seq(S)
    OBVIOUS
  <2> QED
    BY <2>1, <2>2, Zenon DEF WaitPrAcc
<1>2. ASSUME NEW w \in S
      PROVE  <<Command(DATA), w, Command(CONTROL), Send(0, 0, Word, FALSE, 0)>>
                 \in Seq(S)
  <2>1. PICK x, y, z \in S : /\ x = Command(DATA) /\ y = Command(CONTROL)
                                     /\ z = Send(0, 0, Word, FALSE, 0)
    BY <1>0, Zenon
  <2>2. <<x, w, y, z>> \in Seq(S)
    OBVIOUS
  <2> QED
    BY <2>1, <2>2, Zenon
<1>3. get_pe_response \in Seq(S)
  <2>1. <<Command(DATA), Send(0, 0, Word, TRUE, 0), Command(CONTROL),
          Send(0, 0, Word, FALSE, 0)>> \in Seq(S)
    BY <1>2, <1>0, Zenon
  <2> QED
    BY <1>1, <2>1, Joined, Zenon DEF get_pe_response
<1>4. ASSUME NEW word \in Nat PROVE xfer_instruction(word) \in Seq(S)
  <2>1. Send(0, 0, Word, FALSE, word) \in S
    BY <1>0, Zenon
  <2>2. <<Command(DATA), Send(0, 0, Word, FALSE, word), Command(CONTROL),
          Send(0, 0, Word, FALSE, 0)>> \in Seq(S)
    BY <1>2, <2>1, Zenon
  <2> QED
    BY <1>1, <2>2, Joined, Zenon DEF xfer_instruction
<1> QED
  BY <1>1, <1>3, <1>4, Zenon

\* The scripts of the driver are lists of such commands.
LEMMA BitbangIn ==
  ASSUME NEW S, BitbangNeeds(S)
  PROVE  /\ bitbang_get_idcode \in Seq(S) /\ bitbang_status \in Seq(S)
         /\ bitbang_read_word \in Seq(S) /\ bitbang_program_row \in Seq(S)
         /\ bitbang_program_word \in Seq(S) /\ bitbang_verify_data \in Seq(S)
         /\ bitbang_read_data \in Seq(S) /\ bitbang_close \in Seq(S)
         /\ bitbang_ICSP_enable(FALSE) \in Seq(S)
         /\ \A family : /\ bitbang_serial_execution(family) \in Seq(S)
                        /\ bitbang_load_executive(family) \in Seq(S)
                        /\ bitbang_erase_chip(family) \in Seq(S)
<1>0. /\ Command(SW_MTAP) \in S /\ Command(SW_ETAP) \in S
      /\ Command(COMMAND) \in S /\ Command(CONTROL) \in S
      /\ Command(DATA) \in S /\ Command(FASTDATA) \in S
      /\ Command(EJTAGBOOT) \in S
      /\ Mchp(0, FALSE) \in S /\ Mchp(0, TRUE) \in S
      /\ Mchp(209, FALSE) \in S /\ Mchp(208, FALSE) \in S
      /\ Mchp(254, FALSE) \in S /\ Mchp(252, FALSE) \in S
      /\ Send(6, 31, Word, TRUE, 0) \in S
      /\ Send(6, 31, <<>>, FALSE, 0) \in S
      /\ Send(0, 0, Word, TRUE, 0) \in S /\ Send(0, 0, Word, FALSE, 0) \in S
      /\ \A w \in Nat : Send(0, 0, Word, FALSE, w) \in S
      /\ Send(0, 0, <<0>> \o Word, TRUE, 0) \in S
      /\ xfer_fastdata(0) \in S /\ xfer_fastdata(CODE) \in S
      /\ xfer_fastdata(STOP) \in S /\ \A w \in Nat : xfer_fastdata(w) \in S
      /\ Expect("idcode") \in S /\ Expect("status") \in S
      /\ Expect("unprotected") \in S /\ Expect("PrAcc") \in S
      /\ Expect("pe") \in S /\ Do("Supply", 0) \in S
  BY Zenon DEF BitbangNeeds
<1>1. bitbang_get_idcode \in Seq(S) /\ bitbang_status \in Seq(S)
  <2>1. PICK s \in S : s = Send(6, 31, Word, TRUE, 0)
    BY <1>0, Zenon
  <2>2. <<s, Expect("idcode")>> \in Seq(S)
    BY <1>0
  <2>3. <<Command(SW_MTAP), Command(COMMAND), Mchp(0, FALSE), Mchp(0, TRUE),
          Expect("status")>> \in Seq(S)
    <3>1. PICK a, b, c, d, e \in S :
              /\ a = Command(SW_MTAP) /\ b = Command(COMMAND) /\ c = Mchp(0, FALSE)
              /\ d = Mchp(0, TRUE) /\ e = Expect("status")
      BY <1>0, Zenon
    <3>2. <<a, b, c, d, e>> \in Seq(S)
      OBVIOUS
    <3> QED
      BY <3>1, <3>2, Zenon
  <2> QED
    BY <2>1, <2>2, <2>3, Zenon DEF bitbang_get_idcode, bitbang_status
<1>2. /\ <<Command(FASTDATA)>> \in Seq(S) /\ <<Expect("pe")>> \in Seq(S)
      /\ Times(2, xfer_fastdata(CODE)) \in Seq(S)
      /\ Times(3, xfer_fastdata(CODE)) \in Seq(S)
      /\ Times(4, xfer_fastdata(CODE)) \in Seq(S)
      /\ get_pe_response \in Seq(S)
  <2>1. PICK a, b, c \in S : /\ a = Command(FASTDATA) /\ b = Expect("pe")
                                     /\ c = xfer_fastdata(CODE)
    BY <1>0, Zenon
  <2>2. <<a>> \in Seq(S) /\ <<b>> \in Seq(S)
    OBVIOUS
  <2>3. /\ Times(2, c) \in Seq(S) /\ Times(3, c) \in Seq(S)
        /\ Times(4, c) \in Seq(S)
    BY TimesIn
  <2> QED
    BY <2>1, <2>2, <2>3, ExchangeIn, Zenon
<1>3. bitbang_program_row \in Seq(S)
  BY <1>2, Joined, Zenon DEF bitbang_program_row
<1>4. bitbang_program_word \in Seq(S)
  BY <1>2, Joined, Zenon DEF bitbang_program_word
<1>5. bitbang_verify_data \in Seq(S)
  BY <1>2, Joined, Zenon DEF bitbang_verify_data
<1>6. bitbang_read_data \in Seq(S)
  BY <1>2, Joined, Zenon DEF bitbang_read_data
<1>7. bitbang_read_word \in Seq(S)
  <2>1. PICK a, b \in S : /\ a = Command(FASTDATA)
                                  /\ b = Send(0, 0, <<0>> \o Word, TRUE, 0)
    BY <1>0, Zenon
  <2>2. <<a, b>> \in Seq(S)
    OBVIOUS
  <2>3. xfer_instruction(CODE) \in Seq(S)
    BY ExchangeIn, InstructionNumbers, Zenon
  <2> QED
    BY <2>1, <2>2, <2>3, Joined, Zenon DEF bitbang_read_word
<1>8. /\ bitbang_ICSP_enable(FALSE) \in Seq(S) /\ bitbang_close \in Seq(S)
  <2>1. PICK s \in S : s = Do("Supply", 0)
    BY <1>0, Zenon
  <2>2. <<s>> \in Seq(S)
    OBVIOUS
  <2>3. bitbang_ICSP_enable(FALSE) \in Seq(S)
    BY <2>1, <2>2, Zenon DEF bitbang_ICSP_enable
  <2>4. PICK a, b \in S : /\ a = Command(SW_ETAP)
                                  /\ b = Send(6, 31, <<>>, FALSE, 0)
    BY <1>0, Zenon
  <2>5. <<a, b>> \in Seq(S)
    OBVIOUS
  <2> QED
    BY <2>3, <2>4, <2>5, Joined, Zenon DEF bitbang_close
<1>9. ASSUME NEW family PROVE bitbang_serial_execution(family) \in Seq(S)
  <2>1. PICK a, b, c, d, e, f, g, h, k \in S :
            /\ a = Command(SW_MTAP) /\ b = Command(COMMAND) /\ c = Mchp(0, TRUE)
            /\ d = Expect("unprotected") /\ e = Mchp(209, FALSE)
            /\ f = Command(SW_ETAP) /\ g = Command(EJTAGBOOT)
            /\ h = Mchp(208, FALSE) /\ k = Mchp(254, FALSE)
    BY <1>0, Zenon
  <2>2. /\ <<a, b, c, d, e, f, g, a, b, h>> \in Seq(S)
        /\ <<k>> \in Seq(S) /\ <<f>> \in Seq(S) /\ <<>> \in Seq(S)
    OBVIOUS
  <2>3. (IF family = "mz" THEN <<>> ELSE <<k>>) \in Seq(S)
    BY <2>2, Zenon
  <2>4. <<a, b, c, d, e, f, g, a, b, h>> \o (IF family = "mz" THEN <<>> ELSE <<k>>)
            \o <<f>> \in Seq(S)
    BY <2>2, <2>3, Joined, Zenon
  <2> QED
    BY <2>1, <2>4, ZenonT(60) DEF bitbang_serial_execution
<1>10. ASSUME NEW family PROVE bitbang_load_executive(family) \in Seq(S)
  <2>1. /\ xfer_instruction(CODE) \in Seq(S)
        /\ xfer_instruction(JUMP) \in Seq(S)
    BY ExchangeIn, InstructionNumbers, Zenon
  <2>2. (IF family = "mz" THEN <<>> ELSE xfer_instruction(CODE)) \in Seq(S)
    BY <2>1
  <2>3. PICK p \in Nat : p = PeWords(family)
    BY PeWordsIs
  <2>4. PICK a, b, c, d, e \in S :
            /\ a = Command(FASTDATA) /\ b = xfer_fastdata(CODE)
            /\ c = xfer_fastdata(p) /\ d = xfer_fastdata(0) /\ e = xfer_fastdata(STOP)
    BY <2>3, <1>0, Zenon
  <2>5. /\ <<a, b, c>> \in Seq(S) /\ Times(p, b) \in Seq(S)
        /\ <<d, e, b>> \in Seq(S)
    BY TimesIn
  <2>6. /\ <<Command(FASTDATA), xfer_fastdata(CODE), xfer_fastdata(PeWords(family))>>
               \in Seq(S)
        /\ Times(PeWords(family), xfer_fastdata(CODE)) \in Seq(S)
        /\ <<xfer_fastdata(0), xfer_fastdata(STOP), xfer_fastdata(CODE)>>
               \in Seq(S)
    BY <2>3, <2>4, <2>5, Zenon
  <2> QED
    BY <1>2, <2>1, <2>2, <2>6, Joined, Zenon DEF bitbang_load_executive
<1>11. ASSUME NEW family PROVE bitbang_erase_chip(family) \in Seq(S)
  <2>1. PICK a, b, c, d, e \in S :
            /\ a = Command(SW_MTAP) /\ b = Command(COMMAND) /\ c = Mchp(252, FALSE)
            /\ d = Mchp(208, FALSE) /\ e = Mchp(0, TRUE)
    BY <1>0, Zenon
  <2>2. /\ <<a, b, c>> \in Seq(S) /\ <<d>> \in Seq(S)
        /\ <<e>> \in Seq(S) /\ <<>> \in Seq(S)
    OBVIOUS
  <2>3. (IF family = "mz" THEN <<d>> ELSE <<>>) \in Seq(S)
    BY <2>2, Zenon
  <2>4. <<a, b, c>> \o (IF family = "mz" THEN <<d>> ELSE <<>>) \o <<e>>
            \in Seq(S)
    BY <2>2, <2>3, Joined, Zenon
  <2> QED
    BY <2>1, <2>4, Zenon DEF bitbang_erase_chip
<1> QED
  BY <1>1, <1>3, <1>4, <1>5, <1>6, <1>7, <1>8, <1>9, <1>10, <1>11, Zenon

\* The scripts of the serial adapter's driver for a port in step.
LEMMA BitbangCalm ==
  /\ bitbang_get_idcode \in Seq(CalmSteps) /\ bitbang_status \in Seq(CalmSteps)
  /\ bitbang_read_word \in Seq(CalmSteps) /\ bitbang_program_row \in Seq(CalmSteps)
  /\ bitbang_program_word \in Seq(CalmSteps) /\ bitbang_verify_data \in Seq(CalmSteps)
  /\ bitbang_read_data \in Seq(CalmSteps) /\ bitbang_close \in Seq(CalmSteps)
  /\ bitbang_ICSP_enable(FALSE) \in Seq(CalmSteps)
  /\ \A family : /\ bitbang_serial_execution(family) \in Seq(CalmSteps)
                 /\ bitbang_load_executive(family) \in Seq(CalmSteps)
                 /\ bitbang_erase_chip(family) \in Seq(CalmSteps)
<1>1. BitbangNeeds(CalmSteps)
  BY SerialUsed, CalmLooks, CalmSerial, CalmKinds, Zenon DEF BitbangNeeds
<1> QED
  BY <1>1, BitbangIn, Zenon

-----------------------------------------------------------------------------
(* Packets of the PICkit.                                                  *)

\* Commands, and packets of them, in lists.
LEMMA Packets ==
  /\ \A c \in CalmSteps : c \in CalmCommands
  /\ \A c \in HeldSteps : c \in HeldCommands
  /\ \A c \in SpareSteps : c \in SpareCommands
  /\ \A c \in LineSteps : c \in LineCommands
  /\ \A s \in Seq(CalmSteps) : s \in Seq(CalmCommands)
  /\ \A s \in Seq(HeldSteps) : s \in Seq(HeldCommands)
  /\ \A s \in Seq(CalmSteps) : Packet(s) \in CalmCommands
  /\ \A s \in Seq(HeldSteps) : Packet(s) \in HeldCommands
  /\ \A s \in Seq(SpareSteps) : Packet(s) \in SpareCommands
  /\ \A s \in Seq(LineSteps) : Packet(s) \in LineCommands
BY DEF CalmCommands, HeldCommands, SpareCommands, LineCommands, Packet, Do

\* Of what commands do, the more careful of them do less.
LEMMA Fewer ==
  /\ HeldSteps \subseteq CalmSteps /\ HeldCommands \subseteq CalmCommands
  /\ LineSteps \subseteq SpareSteps /\ LineCommands \subseteq SpareCommands
  /\ MtapSteps \subseteq CalmSteps
<1>1. HeldSteps \subseteq CalmSteps /\ LineSteps \subseteq SpareSteps
  BY DEF HeldSteps, LineSteps
<1>2. Seq(HeldSteps) \subseteq Seq(CalmSteps) /\ Seq(LineSteps) \subseteq Seq(SpareSteps)
  BY <1>1
<1>3. HeldCommands \subseteq CalmCommands /\ LineCommands \subseteq SpareCommands
  BY <1>1, <1>2 DEF CalmCommands, HeldCommands, SpareCommands, LineCommands
<1>4. MtapSteps \subseteq CalmSteps
  BY DEF MtapSteps
<1> QED
  BY <1>1, <1>3, <1>4

\* One, two, three or four elements in a list.
LEMMA Tuples ==
  ASSUME NEW S
  PROVE  /\ <<>> \in Seq(S)
         /\ \A a \in S : <<a>> \in Seq(S)
         /\ \A a, b \in S : <<a, b>> \in Seq(S)
         /\ \A a, b, c \in S : <<a, b, c>> \in Seq(S)
         /\ \A a, b, c, d \in S : <<a, b, c, d>> \in Seq(S)
         /\ \A a, b, c, d, e \in S : <<a, b, c, d, e>> \in Seq(S)
OBVIOUS

\* The steps of the PICkit that occur.
LEMMA PickitUsed ==
  /\ Read8(0) \in HeldSteps /\ Read8(208) \in HeldSteps
  /\ Read8(252) \in HeldSteps /\ Read8(254) \in HeldSteps
  /\ Read32 \in HeldSteps /\ PeResponse \in HeldSteps
  /\ ClearDownload \in HeldSteps /\ ClearUpload \in HeldSteps
  /\ \A n \in Nat : /\ Give(n) \in HeldSteps /\ FastBuf(n) \in HeldSteps
                    /\ FastLit(n) \in HeldSteps
                    /\ Download(Times(n, CODE)) \in HeldSteps
  /\ FastLit(CODE) \in HeldSteps
  /\ Do("WaitPeResp", 0) \in HeldSteps /\ Do("GetPeResp", 32) \in HeldSteps
  /\ Receive \in HeldCommands /\ ReadStatus(0) \in HeldCommands
  /\ ExpectBytes(1) \in HeldCommands
  /\ ExpectBytes(4) \in HeldCommands /\ Expect("idcode") \in HeldCommands
  /\ Expect("status") \in HeldCommands /\ Expect("unprotected") \in HeldCommands
  /\ Expect("pe") \in HeldCommands /\ Expect("ready") \in HeldCommands
<1>1. /\ 0 \in Nat \ {209} /\ 208 \in Nat \ {209} /\ 252 \in Nat \ {209}
      /\ 254 \in Nat \ {209} /\ 1 \in Nat /\ 4 \in Nat
  OBVIOUS
<1>2. ExpectBytes(1) \in HeldSteps /\ ExpectBytes(4) \in HeldSteps
  <2>1. \A n \in Nat : ExpectBytes(n) \in HeldSteps
    BY CalmNames, Zenon
  <2> QED
    BY <2>1
<1>3. ASSUME NEW n \in Nat PROVE Download(Times(n, CODE)) \in HeldSteps
  <2>1. Times(n, CODE) \in Seq(Nat)
    BY TimesIn, InstructionNumbers
  <2> QED
    BY <2>1, CalmNames, Zenon
<1>4. /\ Read8(0) \in HeldSteps /\ Read8(208) \in HeldSteps
      /\ Read8(252) \in HeldSteps /\ Read8(254) \in HeldSteps
  <2>1. \A n \in Nat \ {209} : Read8(n) \in HeldSteps
    BY CalmNames, Zenon
  <2> QED
    BY <2>1
<1>6. \A n \in Nat : /\ Give(n) \in HeldSteps /\ FastBuf(n) \in HeldSteps
                    /\ FastLit(n) \in HeldSteps
  BY CalmNames, ZenonT(60)
<1>7. FastLit(CODE) \in HeldSteps
  BY <1>6, InstructionNumbers, Zenon
<1>8. /\ Read32 \in HeldSteps /\ PeResponse \in HeldSteps
      /\ ClearDownload \in HeldSteps /\ ClearUpload \in HeldSteps
      /\ Do("WaitPeResp", 0) \in HeldSteps /\ Do("GetPeResp", 32) \in HeldSteps
      /\ Receive \in HeldSteps /\ ReadStatus(0) \in HeldSteps
  BY CalmNames, ZenonT(60)
<1>5. /\ Receive \in HeldCommands /\ ReadStatus(0) \in HeldCommands
      /\ ExpectBytes(1) \in HeldCommands
      /\ ExpectBytes(4) \in HeldCommands /\ Expect("idcode") \in HeldCommands
      /\ Expect("status") \in HeldCommands /\ Expect("unprotected") \in HeldCommands
      /\ Expect("pe") \in HeldCommands /\ Expect("ready") \in HeldCommands
  <2>1. /\ Expect("idcode") \in HeldSteps /\ Expect("status") \in HeldSteps
        /\ Expect("unprotected") \in HeldSteps /\ Expect("pe") \in HeldSteps
        /\ Expect("ready") \in HeldSteps
    BY CalmUsed, ZenonT(60)
  <2>2. \A c \in HeldSteps : c \in HeldCommands
    BY Packets, Zenon
  <2> QED
    BY <1>2, <1>8, <2>1, <2>2
<1> QED
  BY <1>3, <1>4, <1>5, <1>6, <1>7, <1>8, ZenonT(60)

\* A packet and the reply to it.
LEMMA Exchanges ==
  /\ check_timeout \in Seq(HeldCommands)
  /\ <<Receive, Expect("pe")>> \in Seq(HeldCommands)
  /\ \A s \in Seq(HeldSteps) :
         /\ <<Packet(s)>> \in Seq(HeldCommands)
         /\ <<Packet(s), Receive, Receive>> \in Seq(HeldCommands)
         /\ <<Packet(s), Receive, ExpectBytes(4)>> \in Seq(HeldCommands)
         /\ <<Packet(s), Receive, ExpectBytes(4), Expect("idcode")>> \in Seq(HeldCommands)
         /\ <<Packet(s), Receive, ExpectBytes(4), Expect("pe")>> \in Seq(HeldCommands)
<1>1. check_timeout \in Seq(HeldCommands)
  BY PickitUsed, Tuples, Zenon DEF check_timeout
<1>2. <<Receive, Expect("pe")>> \in Seq(HeldCommands)
  BY PickitUsed, Tuples, Zenon
<1>3. ASSUME NEW s \in Seq(HeldSteps)
      PROVE  /\ <<Packet(s)>> \in Seq(HeldCommands)
             /\ <<Packet(s), Receive, Receive>> \in Seq(HeldCommands)
             /\ <<Packet(s), Receive, ExpectBytes(4)>> \in Seq(HeldCommands)
             /\ <<Packet(s), Receive, ExpectBytes(4), Expect("idcode")>>
                    \in Seq(HeldCommands)
             /\ <<Packet(s), Receive, ExpectBytes(4), Expect("pe")>> \in Seq(HeldCommands)
  <2>1. Packet(s) \in HeldCommands
    BY Packets, Zenon
  <2> QED
    BY <2>1, PickitUsed, Tuples, Zenon
<1> QED
  BY <1>1, <1>2, <1>3, Zenon

\* f gives what the first lists of p are when put together, as by a loop.
JoinRun(p, n, f) == f = [i \in 0 .. n |-> IF i = 0 THEN <<>> ELSE f[i - 1] \o p[i]]

\* It gives lists of the same kind.
LEMMA JoinedIn ==
  ASSUME NEW S, NEW m \in Nat, NEW p, \A i \in 1 .. m : p[i] \in Seq(S),
         NEW f, JoinRun(p, m, f)
  PROVE  \A i \in 0 .. m : f[i] \in Seq(S)
<1>1. \A i \in 0 .. m : f[i] = IF i = 0 THEN <<>> ELSE f[i - 1] \o p[i]
  BY DEF JoinRun
<1> DEFINE R == {n \in 0 .. m : f[n] \in Seq(S)}
<1>2. 0 \in R
  <2>1. 0 \in 0 .. m
    OBVIOUS
  <2>2. f[0] = <<>>
    BY <1>1, <2>1, Zenon
  <2> QED
    BY <2>1, <2>2, Tuples, Zenon
<1>3. ASSUME NEW n \in 0 .. m - 1, n \in R PROVE n + 1 \in R
  <2>1. PICK q \in Seq(S) : q = p[n + 1]
    OBVIOUS
  <2>2. PICK h \in Seq(S) : h = f[n]
    BY <1>3
  <2>3. h \o q \in Seq(S)
    BY Joined
  <2>4. n + 1 \in 0 .. m /\ n + 1 # 0 /\ (n + 1) - 1 = n
    OBVIOUS
  <2>5. f[n + 1] = h \o q
    BY <1>1, <2>1, <2>2, <2>4, Zenon
  <2> QED
    BY <2>3, <2>4, <2>5, Zenon
<1> HIDE DEF R
<1>4. \A i \in 0 .. m - 1 : i \in R => i + 1 \in R
  BY <1>3
<1>5. \A i \in 0 .. m : i \in R
  BY <1>2, <1>4, UpTo
<1> QED
  BY <1>5 DEF R

\* There is such a function, and it gives lists of the same kind.
LEMMA JoinedRun ==
  ASSUME NEW S, NEW m \in Nat, NEW p, \A i \in 1 .. m : p[i] \in Seq(S)
  PROVE  \E f : JoinRun(p, m, f) /\ \A i \in 0 .. m : f[i] \in Seq(S)
<1> DEFINE R == {n \in 0 .. m :
                    \E f : JoinRun(p, n, f) /\ \A i \in 0 .. n : f[i] \in Seq(S)}
<1>1. 0 \in R
  <2>1. PICK f : f = [i \in 0 .. 0 |-> <<>>]
    OBVIOUS
  <2>2. JoinRun(p, 0, f) /\ \A i \in 0 .. 0 : f[i] \in Seq(S)
    BY <2>1 DEF JoinRun
  <2> QED
    BY <2>2
<1>2. ASSUME NEW n \in 0 .. m - 1, n \in R PROVE n + 1 \in R
  <2>1. PICK f : JoinRun(p, n, f) /\ \A i \in 0 .. n : f[i] \in Seq(S)
    BY <1>2
  <2>2. PICK q : q = p[n + 1] /\ q \in Seq(S)
    OBVIOUS
  <2>3. PICK h \in Seq(S) : h = f[n]
    BY <2>1
  <2>4. PICK r \in Seq(S) : r = h \o q
    BY <2>2, Joined, Zenon
  <2>5. PICK g : g = [i \in 0 .. n + 1 |-> IF i = n + 1 THEN r ELSE f[i]]
    OBVIOUS
  <2>6. \A i \in 0 .. n + 1 : g[i] = IF i = 0 THEN <<>> ELSE g[i - 1] \o p[i]
    <3>1. \A i \in 0 .. n : f[i] = IF i = 0 THEN <<>> ELSE f[i - 1] \o p[i]
      BY <2>1 DEF JoinRun
    <3> QED
      BY <2>2, <2>3, <2>4, <2>5, <3>1
  <2>7. \A i \in 0 .. n + 1 : g[i] \in Seq(S)
    BY <2>1, <2>4, <2>5
  <2>8. JoinRun(p, n + 1, g)
    BY <2>5, <2>6 DEF JoinRun
  <2>9. n + 1 \in 0 .. m
    OBVIOUS
  <2> QED
    BY <2>7, <2>8, <2>9, Zenon
<1>3. m \in R
  <2> HIDE DEF R
  <2>1. \A i \in 0 .. m - 1 : i \in R => i + 1 \in R
    BY <1>2
  <2>2. \A i \in 0 .. m : i \in R
    BY <1>1, <2>1, UpTo
  <2> QED
    BY <2>2
<1> QED
  BY <1>3, Zenon

\* The shorter scripts of the PICkit driver for a port in step.
LEMMA PickitCalm ==
  /\ pickit_get_idcode \in Seq(HeldCommands)
  /\ pickit_read_word \in Seq(HeldCommands)
  /\ pickit_read_data \in Seq(HeldCommands)
  /\ pickit_program_word \in Seq(HeldCommands)
  /\ pickit_program_quad_word \in Seq(HeldCommands)
  /\ pickit_erase_chip \in Seq(HeldCommands)
<1>1. pickit_get_idcode \in Seq(HeldCommands)
  <2>1. <<ClearUpload, Instr(SW_MTAP), Instr(IDCODE), Read32>> \in Seq(HeldSteps)
    BY PickitUsed, CalmUsed, Tuples, Zenon
  <2> QED
    BY <2>1, Exchanges, Zenon DEF pickit_get_idcode
<1>2. ASSUME NEW n \in Nat
      PROVE  <<Packet(<<ClearDownload, ClearUpload, Download(Times(n, CODE)),
                        Instr(SW_ETAP), Reset5, Give(n), Instr(FASTDATA), Read32>>),
               Receive, ExpectBytes(4)>> \in Seq(HeldCommands)
  <2>1. PICK a, b, c, d, e, f, g, h \in HeldSteps :
            /\ a = ClearDownload /\ b = ClearUpload /\ c = Download(Times(n, CODE))
            /\ d = Instr(SW_ETAP) /\ e = Reset5 /\ f = Give(n)
            /\ g = Instr(FASTDATA) /\ h = Read32
    BY PickitUsed, CalmUsed, Zenon
  <2>2. <<a, b, c, d, e, f, g, h>> \in Seq(HeldSteps)
    OBVIOUS
  <2>3. <<Packet(<<a, b, c, d, e, f, g, h>>), Receive, ExpectBytes(4)>>
            \in Seq(HeldCommands)
    BY <2>2, Exchanges, Zenon
  <2> QED
    BY <2>1, <2>3, Zenon
<1>3. pickit_read_word \in Seq(HeldCommands)
  <2>1. 6 \in Nat /\ 7 \in Nat
    OBVIOUS
  <2> QED
    BY <1>2, <2>1, Joined, Zenon DEF pickit_read_word
<1>4. pickit_read_data \in Seq(HeldCommands)
  <2>1. PICK a, b, c, d, e, f \in HeldSteps :
            /\ a = ClearUpload /\ b = Instr(FASTDATA) /\ c = FastLit(CODE)
            /\ d = FastBuf(1) /\ e = Do("WaitPeResp", 0) /\ f = Do("GetPeResp", 32)
    <3>1. 1 \in Nat
      OBVIOUS
    <3> QED
      BY <3>1, PickitUsed, CalmUsed, Zenon
  <2>2. <<a, b, c, d, e, f>> \in Seq(HeldSteps)
    OBVIOUS
  <2>3. PICK read \in Seq(HeldCommands) :
            read = <<Packet(<<a, b, c, d, e, f>>), Receive, Receive>>
    BY <2>2, Exchanges, Zenon
  <2>4. <<ClearDownload, Download(Times(8, CODE))>> \in Seq(HeldSteps)
    <3>1. 8 \in Nat
      OBVIOUS
    <3> QED
      BY <3>1, PickitUsed, Tuples, Zenon
  <2>5. PICK first \in Seq(HeldCommands) :
            first = <<Packet(<<ClearDownload, Download(Times(8, CODE))>>)>>
    BY <2>4, Exchanges, Zenon
  <2>6. first \o read \o read \o read \o read \o read \o read \o read \o read
            \in Seq(HeldCommands)
    BY Joined, Zenon
  <2> QED
    BY <2>1, <2>3, <2>5, <2>6, Zenon DEF pickit_read_data
<1>5. pickit_program_word \in Seq(HeldCommands)
  <2>1. PICK a, b, c, d \in HeldSteps : /\ a = ClearUpload /\ b = Instr(FASTDATA)
                                        /\ c = FastLit(CODE) /\ d = PeResponse
    BY PickitUsed, CalmUsed, Zenon
  <2>2. <<a, b, c, c, c, d>> \in Seq(HeldSteps)
    OBVIOUS
  <2>3. <<Packet(<<a, b, c, c, c, d>>), Receive, ExpectBytes(4), Expect("pe")>>
            \in Seq(HeldCommands)
    BY <2>2, Exchanges, Zenon
  <2> QED
    BY <2>1, <2>3, Zenon DEF pickit_program_word
<1>6. pickit_program_quad_word \in Seq(HeldCommands)
  <2>1. /\ <<ClearUpload, Instr(FASTDATA)>> \in Seq(HeldSteps)
        /\ <<PeResponse>> \in Seq(HeldSteps)
    BY PickitUsed, CalmUsed, Tuples, Zenon
  <2>2. Times(6, FastLit(CODE)) \in Seq(HeldSteps)
    BY PickitUsed, TimesIn
  <2>3. <<ClearUpload, Instr(FASTDATA)>> \o Times(6, FastLit(CODE)) \o <<PeResponse>>
            \in Seq(HeldSteps)
    BY <2>1, <2>2, Joined, Zenon
  <2> QED
    BY <2>3, Exchanges, Zenon DEF pickit_program_quad_word
<1>7. pickit_erase_chip \in Seq(HeldCommands)
  <2>1. <<ClearUpload, Instr(SW_MTAP), Instr(COMMAND), Read8(252)>> \in Seq(HeldSteps)
    BY PickitUsed, CalmUsed, Tuples, ZenonT(60)
  <2> QED
    BY <2>1, Exchanges, Joined, Zenon DEF pickit_erase_chip
<1> QED
  BY <1>1, <1>3, <1>4, <1>5, <1>6, <1>7, Zenon

\* What a step of pickit_load_executive sends: words for the buffer and a script.
StepSends(words, commands) ==
    <<Packet(<<ClearDownload, Download(words)>> \o commands)>> \o check_timeout

\* A step of pickit_load_executive.
LEMMA StepCalm ==
  \A words \in Seq(Nat) : \A commands \in Seq(HeldSteps) :
      StepSends(words, commands) \in Seq(HeldCommands)
<1> SUFFICES ASSUME NEW words \in Seq(Nat), NEW commands \in Seq(HeldSteps)
             PROVE  StepSends(words, commands) \in Seq(HeldCommands)
  OBVIOUS
<1>1. <<ClearDownload, Download(words)>> \in Seq(HeldSteps)
  BY CalmNames, Tuples, Zenon
<1>2. <<ClearDownload, Download(words)>> \o commands \in Seq(HeldSteps)
  BY <1>1, Joined, Zenon
<1> QED
  BY <1>2, Exchanges, Joined, Zenon DEF StepSends

\* g gives what the packets with the words of the executive send.
ChunkRun(n, g) ==
    g = [i \in 0 .. PePackets(n) |->
            IF i = 0 THEN <<>>
            ELSE g[i - 1] \o StepSends(PeChunk(n, i), <<FastBuf(10)>>)]
\* That function.
Chunks(n) == CHOOSE g : ChunkRun(n, g)

\* There is such a function.
LEMMA ChunksRun ==
  ASSUME NEW n \in Nat
  PROVE  \E p : /\ JoinRun(p, PePackets(n), Chunks(n))
                /\ \A i \in 1 .. PePackets(n) :
                       /\ p[i] = StepSends(PeChunk(n, i), <<FastBuf(10)>>)
                       /\ p[i] \in Seq(HeldCommands)
<1>1. PICK m \in Nat : m = PePackets(n)
  BY DEF PePackets
<1>2. \A i \in Nat : PeChunk(n, i) \in Seq(Nat)
  BY InstructionNumbers DEF PeChunk
<1>3. <<FastBuf(10)>> \in Seq(HeldSteps)
  BY PickitUsed
<1>4. PICK p : p = [i \in 1 .. m |-> StepSends(PeChunk(n, i), <<FastBuf(10)>>)]
  BY Zenon
<1>5. \A i \in 1 .. m : p[i] = StepSends(PeChunk(n, i), <<FastBuf(10)>>)
  BY <1>4, Zenon
<1>6. \A i \in 1 .. m : p[i] \in Seq(HeldCommands)
  <2> SUFFICES ASSUME NEW i \in 1 .. m PROVE p[i] \in Seq(HeldCommands)
    OBVIOUS
  <2>1. PeChunk(n, i) \in Seq(Nat)
    BY <1>2
  <2> QED
    BY <1>3, <1>5, <2>1, StepCalm, Zenon
<1>7. PICK f : JoinRun(p, m, f) /\ \A i \in 0 .. m : f[i] \in Seq(HeldCommands)
  BY <1>6, JoinedRun
<1>8. f = [i \in 0 .. m |-> f[i]]
      /\ \A i \in 0 .. m : f[i] = IF i = 0 THEN <<>> ELSE f[i - 1] \o p[i]
  BY <1>7 DEF JoinRun
<1>9. \A i \in 0 .. m :
          f[i] = IF i = 0 THEN <<>>
                 ELSE f[i - 1] \o StepSends(PeChunk(n, i), <<FastBuf(10)>>)
  <2> SUFFICES ASSUME NEW i \in 0 .. m, i # 0
               PROVE  p[i] = StepSends(PeChunk(n, i), <<FastBuf(10)>>)
    BY <1>8, Zenon
  <2>1. i \in 1 .. m
    OBVIOUS
  <2> QED
    BY <1>5, <2>1, Zenon
<1>10. ChunkRun(n, f)
  BY <1>1, <1>8, <1>9, Zenon DEF ChunkRun
<1>11. ChunkRun(n, Chunks(n))
  BY <1>10, Zenon DEF Chunks
<1>12. PICK g : g = Chunks(n)
  OBVIOUS
<1>13. g = [i \in 0 .. m |->
               IF i = 0 THEN <<>>
               ELSE g[i - 1] \o StepSends(PeChunk(n, i), <<FastBuf(10)>>)]
  BY <1>1, <1>11, <1>12, Zenon DEF ChunkRun
<1>14. JoinRun(p, m, g)
  <2>1. \A i \in 0 .. m :
            g[i] = IF i = 0 THEN <<>>
                   ELSE g[i - 1] \o StepSends(PeChunk(n, i), <<FastBuf(10)>>)
    BY <1>13, Zenon
  <2>2. g = [i \in 0 .. m |-> g[i]]
    BY <1>13
  <2>3. \A i \in 0 .. m : g[i] = IF i = 0 THEN <<>> ELSE g[i - 1] \o p[i]
    <3> SUFFICES ASSUME NEW i \in 0 .. m, i # 0
                 PROVE  p[i] = StepSends(PeChunk(n, i), <<FastBuf(10)>>)
      BY <2>1, Zenon
    <3>1. i \in 1 .. m
      OBVIOUS
    <3> QED
      BY <1>5, <3>1, Zenon
  <2> QED
    BY <2>2, <2>3, Zenon DEF JoinRun
<1> QED
  BY <1>1, <1>5, <1>6, <1>12, <1>14, Zenon

\* The packets with the words of the executive.
LEMMA ChunksCalm ==
  ASSUME NEW n \in Nat
  PROVE  Chunks(n)[PePackets(n)] \in Seq(HeldCommands)
<1>1. PICK m \in Nat : m = PePackets(n)
  BY DEF PePackets
<1>2. PICK p : JoinRun(p, m, Chunks(n)) /\ \A i \in 1 .. m : p[i] \in Seq(HeldCommands)
  BY <1>1, ChunksRun, Zenon
<1>3. PICK g : g = Chunks(n)
  OBVIOUS
<1>4. m \in 0 .. m
  OBVIOUS
<1>5. g[m] \in Seq(HeldCommands)
  BY <1>2, <1>3, <1>4, JoinedIn, Zenon
<1> QED
  BY <1>1, <1>3, <1>5, Zenon

\* The parts of the script that loads the executive.
LoadOf(n, a, b, c, d, e, f, g, h, i) ==
    /\ a = StepSends(Times(7, CODE), <<Instr(SW_ETAP), Reset5, Give(7)>>)
    /\ b = StepSends(Times(5, CODE), <<Give(5)>>)
    /\ c = StepSends(Times(4, CODE), <<Give(4)>>)
    /\ d = StepSends(Append(Times(3, CODE), JUMP),
                     <<Give(4), Instr(SW_ETAP), Reset5, Instr(FASTDATA),
                       FastLit(CODE), FastLit(n)>>)
    /\ e = Chunks(n)[PePackets(n)]
    /\ f = StepSends(<<0, STOP>>, <<FastBuf(2)>>)
    /\ g = <<Packet(<<ClearUpload, Instr(FASTDATA), FastLit(CODE), PeResponse>>)>>
    /\ h = check_timeout /\ i = <<Receive, Expect("pe")>>
    /\ pickit_load_executive(n) = a \o b \o c \o d \o e \o f \o g \o h \o i

\* It has such parts.
LEMMA LoadParts ==
  ASSUME NEW n \in Nat
  PROVE  \E a, b, c, d, e, f, g, h, i \in Seq(HeldCommands) :
             LoadOf(n, a, b, c, d, e, f, g, h, i)
<1>1. /\ Times(7, CODE) \in Seq(Nat) /\ Times(5, CODE) \in Seq(Nat)
      /\ Times(4, CODE) \in Seq(Nat) /\ Append(Times(3, CODE), JUMP) \in Seq(Nat)
      /\ <<0, STOP>> \in Seq(Nat)
  <2>1. /\ Times(7, CODE) \in Seq(Nat) /\ Times(5, CODE) \in Seq(Nat)
        /\ Times(4, CODE) \in Seq(Nat) /\ Times(3, CODE) \in Seq(Nat)
    BY InstructionNumbers, TimesIn
  <2>2. PICK three \in Seq(Nat) : three = Times(3, CODE)
    BY <2>1
  <2>3. Append(three, JUMP) \in Seq(Nat) /\ <<0, STOP>> \in Seq(Nat)
    BY InstructionNumbers
  <2> QED
    BY <2>1, <2>2, <2>3, Zenon
<1>2. /\ <<Instr(SW_ETAP), Reset5, Give(7)>> \in Seq(HeldSteps)
      /\ <<Give(5)>> \in Seq(HeldSteps) /\ <<Give(4)>> \in Seq(HeldSteps)
      /\ <<FastBuf(2)>> \in Seq(HeldSteps)
  BY PickitUsed, CalmUsed
<1>3. <<Give(4), Instr(SW_ETAP), Reset5, Instr(FASTDATA), FastLit(CODE), FastLit(n)>>
          \in Seq(HeldSteps)
  BY PickitUsed, CalmUsed
<1>4. <<ClearUpload, Instr(FASTDATA), FastLit(CODE), PeResponse>> \in Seq(HeldSteps)
  BY PickitUsed, CalmUsed, Tuples, Zenon
<1>5. /\ StepSends(Times(7, CODE), <<Instr(SW_ETAP), Reset5, Give(7)>>)
             \in Seq(HeldCommands)
      /\ StepSends(Times(5, CODE), <<Give(5)>>) \in Seq(HeldCommands)
      /\ StepSends(Times(4, CODE), <<Give(4)>>) \in Seq(HeldCommands)
      /\ StepSends(Append(Times(3, CODE), JUMP),
                   <<Give(4), Instr(SW_ETAP), Reset5, Instr(FASTDATA), FastLit(CODE),
                     FastLit(n)>>) \in Seq(HeldCommands)
      /\ StepSends(<<0, STOP>>, <<FastBuf(2)>>) \in Seq(HeldCommands)
  BY <1>1, <1>2, <1>3, StepCalm, Zenon
<1>6. Chunks(n)[PePackets(n)] \in Seq(HeldCommands)
  BY ChunksCalm
<1>7. pickit_load_executive(n) =
          StepSends(Times(7, CODE), <<Instr(SW_ETAP), Reset5, Give(7)>>)
          \o StepSends(Times(5, CODE), <<Give(5)>>)
          \o StepSends(Times(4, CODE), <<Give(4)>>)
          \o StepSends(Append(Times(3, CODE), JUMP),
                       <<Give(4), Instr(SW_ETAP), Reset5, Instr(FASTDATA),
                         FastLit(CODE), FastLit(n)>>)
          \o Chunks(n)[PePackets(n)]
          \o StepSends(<<0, STOP>>, <<FastBuf(2)>>)
          \o <<Packet(<<ClearUpload, Instr(FASTDATA), FastLit(CODE), PeResponse>>)>>
          \o check_timeout \o <<Receive, Expect("pe")>>
  BY Zenon DEF pickit_load_executive, StepSends, Chunks, ChunkRun
<1>8. check_timeout \in Seq(HeldCommands) /\ <<Receive, Expect("pe")>> \in Seq(HeldCommands)
       /\ <<Packet(<<ClearUpload, Instr(FASTDATA), FastLit(CODE), PeResponse>>)>>
              \in Seq(HeldCommands)
  BY <1>4, Exchanges, Zenon
<1>9. PICK a, b, c, d \in Seq(HeldCommands) :
          /\ a = StepSends(Times(7, CODE), <<Instr(SW_ETAP), Reset5, Give(7)>>)
          /\ b = StepSends(Times(5, CODE), <<Give(5)>>)
          /\ c = StepSends(Times(4, CODE), <<Give(4)>>)
          /\ d = StepSends(Append(Times(3, CODE), JUMP),
                           <<Give(4), Instr(SW_ETAP), Reset5, Instr(FASTDATA),
                             FastLit(CODE), FastLit(n)>>)
  BY <1>5, Zenon
<1>10. PICK e, f, g, h, i \in Seq(HeldCommands) :
          /\ e = Chunks(n)[PePackets(n)]
          /\ f = StepSends(<<0, STOP>>, <<FastBuf(2)>>)
          /\ g = <<Packet(<<ClearUpload, Instr(FASTDATA), FastLit(CODE), PeResponse>>)>>
          /\ h = check_timeout /\ i = <<Receive, Expect("pe")>>
  BY <1>5, <1>6, <1>8, Zenon
<1>11. pickit_load_executive(n) = a \o b \o c \o d \o e \o f \o g \o h \o i
  BY <1>7, <1>9, <1>10, Zenon
<1>12. LoadOf(n, a, b, c, d, e, f, g, h, i)
  BY <1>9, <1>10, <1>11, Zenon DEF LoadOf
<1> QED
  BY <1>12, Zenon

\* The executive, ten words at a time.
LEMMA LoadCalm ==
  \A n \in Nat : pickit_load_executive(n) \in Seq(HeldCommands)
<1> SUFFICES ASSUME NEW n \in Nat
             PROVE  pickit_load_executive(n) \in Seq(HeldCommands)
  OBVIOUS
<1>1. PICK a, b, c, d, e, f, g, h, i \in Seq(HeldCommands) :
          LoadOf(n, a, b, c, d, e, f, g, h, i)
  BY LoadParts
<1>3. pickit_load_executive(n) = a \o b \o c \o d \o e \o f \o g \o h \o i
  BY <1>1, Zenon DEF LoadOf
<1>2. a \o b \o c \o d \o e \o f \o g \o h \o i \in Seq(HeldCommands)
  BY Joined, Zenon
<1> QED
  BY <1>2, <1>3, Zenon

\* What download_data sends.
LEMMA DownloadCalm ==
  \A n \in Nat : \A clear \in BOOLEAN : download_data(n, clear) \in Seq(HeldCommands)
<1> SUFFICES ASSUME NEW n \in Nat, NEW clear \in BOOLEAN
             PROVE  download_data(n, clear) \in Seq(HeldCommands)
  OBVIOUS
<1>1. /\ <<ClearDownload>> \in Seq(HeldSteps) /\ <<>> \in Seq(HeldSteps)
      /\ <<Download(Times(n, CODE))>> \in Seq(HeldSteps)
  BY PickitUsed, Tuples, Zenon
<1>2. (IF clear THEN <<ClearDownload>> ELSE <<>>) \in Seq(HeldSteps)
  BY <1>1, Zenon
<1>3. (IF clear THEN <<ClearDownload>> ELSE <<>>) \o <<Download(Times(n, CODE))>>
          \in Seq(HeldSteps)
  BY <1>1, <1>2, Joined, Zenon
<1> QED
  BY <1>3, Exchanges, Zenon DEF download_data

\* The packets of 64 words of a row, and what g gives after each of them.
RowPart ==
    download_data(15, TRUE) \o download_data(15, FALSE) \o download_data(15, FALSE)
        \o download_data(15, FALSE)
        \o <<Packet(<<Download(Times(4, CODE)), Instr(FASTDATA), FastBuf(64)>>)>>
\* g gives the packets of the parts of a row so far.
PartRun(words, g) ==
    g = [i \in 0 .. words \div 64 |-> IF i = 0 THEN <<>> ELSE g[i - 1] \o RowPart]
\* That function.
RowParts(words) == CHOOSE g : PartRun(words, g)

\* A row, or a part of one, in packets.
LEMMA RowPartCalm ==
  /\ RowPart \in Seq(HeldCommands)
  /\ download_data(15, TRUE) \o download_data(15, FALSE)
        \o <<Packet(<<Download(Times(2, CODE)), Instr(FASTDATA), FastBuf(32)>>)>>
         \in Seq(HeldCommands)
<1>1. 15 \in Nat /\ 4 \in Nat /\ 64 \in Nat /\ 2 \in Nat /\ 32 \in Nat
      /\ TRUE \in BOOLEAN /\ FALSE \in BOOLEAN
  OBVIOUS
<1>2. PICK a, b \in Seq(HeldCommands) :
          a = download_data(15, TRUE) /\ b = download_data(15, FALSE)
  BY <1>1, DownloadCalm, Zenon
<1>3. /\ <<Download(Times(4, CODE)), Instr(FASTDATA), FastBuf(64)>> \in Seq(HeldSteps)
      /\ <<Download(Times(2, CODE)), Instr(FASTDATA), FastBuf(32)>> \in Seq(HeldSteps)
  BY <1>1, PickitUsed, CalmUsed, Tuples, Zenon
<1>4. PICK c, d \in Seq(HeldCommands) :
          /\ c = <<Packet(<<Download(Times(4, CODE)), Instr(FASTDATA), FastBuf(64)>>)>>
          /\ d = <<Packet(<<Download(Times(2, CODE)), Instr(FASTDATA), FastBuf(32)>>)>>
  BY <1>3, Exchanges, Zenon
<1>5. a \o b \o b \o b \o c \in Seq(HeldCommands) /\ a \o b \o d \in Seq(HeldCommands)
  BY Joined, Zenon
<1> QED
  BY <1>2, <1>4, <1>5, Zenon DEF RowPart

\* The parts of a row.
LEMMA RowPartsRun ==
  ASSUME NEW words \in Nat
  PROVE  \E p : /\ JoinRun(p, words \div 64, RowParts(words))
                /\ \A i \in 1 .. words \div 64 : p[i] = RowPart
<1>1. PICK m \in Nat : m = words \div 64
  OBVIOUS
<1>2. PICK q \in Seq(HeldCommands) : q = RowPart
  BY RowPartCalm, Zenon
<1>3. PICK p : p = [i \in 1 .. m |-> q]
  OBVIOUS
<1>4. \A i \in 1 .. m : p[i] = q /\ p[i] \in Seq(HeldCommands)
  BY <1>3
<1>5. ASSUME NEW f
      PROVE  JoinRun(p, m, f)
             <=> f = [i \in 0 .. m |-> IF i = 0 THEN <<>> ELSE f[i - 1] \o q]
  <2>1. \A i \in 0 .. m : (IF i = 0 THEN <<>> ELSE f[i - 1] \o p[i])
                          = (IF i = 0 THEN <<>> ELSE f[i - 1] \o q)
    <3> SUFFICES ASSUME NEW i \in 0 .. m, i # 0 PROVE p[i] = q
      BY Zenon
    <3>1. i \in 1 .. m
      OBVIOUS
    <3> QED
      BY <1>4, <3>1, Zenon
  <2>2. PICK u : u = [i \in 0 .. m |-> IF i = 0 THEN <<>> ELSE f[i - 1] \o p[i]]
    OBVIOUS
  <2>3. u = [i \in 0 .. m |-> IF i = 0 THEN <<>> ELSE f[i - 1] \o q]
    BY <2>1, <2>2, Zenon
  <2> QED
    BY <2>2, <2>3, Zenon DEF JoinRun
<1>6. \E f : PartRun(words, f)
  <2>1. PICK f : JoinRun(p, m, f)
    BY <1>4, JoinedRun
  <2>2. PartRun(words, f)
    BY <1>1, <1>2, <1>5, <2>1, ZenonT(60) DEF PartRun
  <2> QED
    BY <2>2, Zenon
<1>7. PICK g : g = RowParts(words)
  OBVIOUS
<1>8. PartRun(words, g)
  BY <1>6, <1>7, Zenon DEF RowParts
<1>9. JoinRun(p, m, g)
  BY <1>1, <1>2, <1>5, <1>8, Zenon DEF PartRun
<1> QED
  BY <1>1, <1>2, <1>4, <1>7, <1>9, Zenon

\* They are packets for a port in step.
LEMMA RowPartsCalm ==
  ASSUME NEW words \in Nat
  PROVE  RowParts(words)[words \div 64] \in Seq(HeldCommands)
<1>1. PICK m \in Nat : m = words \div 64
  OBVIOUS
<1>2. PICK p : JoinRun(p, m, RowParts(words)) /\ \A i \in 1 .. m : p[i] = RowPart
  BY <1>1, RowPartsRun, Zenon
<1>3. \A i \in 1 .. m : p[i] \in Seq(HeldCommands)
  BY <1>2, RowPartCalm, Zenon
<1>4. PICK g : g = RowParts(words)
  OBVIOUS
<1>5. m \in 0 .. m
  OBVIOUS
<1>6. g[m] \in Seq(HeldCommands)
  BY <1>2, <1>3, <1>4, <1>5, JoinedIn, Zenon
<1> QED
  BY <1>1, <1>4, <1>6, Zenon

\* The packets that program a row.
LEMMA RowIs ==
  ASSUME NEW words
  PROVE  pickit_program_row(words) =
          <<Packet(<<ClearUpload, Instr(FASTDATA), FastLit(CODE), FastLit(CODE)>>)>>
          \o (IF words = 32
              THEN download_data(15, TRUE) \o download_data(15, FALSE)
                   \o <<Packet(<<Download(Times(2, CODE)), Instr(FASTDATA),
                                 FastBuf(32)>>)>>
              ELSE RowParts(words)[words \div 64])
          \o <<Packet(<<ClearUpload, PeResponse>>), Receive, ExpectBytes(4),
               Expect("pe")>>
BY Zenon DEF pickit_program_row, RowParts, PartRun, RowPart

\* A row of any size.
LEMMA RowCalm ==
  \A words \in Nat : pickit_program_row(words) \in Seq(HeldCommands)
<1> SUFFICES ASSUME NEW words \in Nat
             PROVE  pickit_program_row(words) \in Seq(HeldCommands)
  OBVIOUS
<1>1. /\ <<ClearUpload, Instr(FASTDATA), FastLit(CODE), FastLit(CODE)>> \in Seq(HeldSteps)
      /\ <<ClearUpload, PeResponse>> \in Seq(HeldSteps)
  BY PickitUsed, CalmUsed, Tuples, Zenon
<1>2. PICK a, c \in Seq(HeldCommands) :
          /\ a = <<Packet(<<ClearUpload, Instr(FASTDATA), FastLit(CODE), FastLit(CODE)>>)>>
          /\ c = <<Packet(<<ClearUpload, PeResponse>>), Receive, ExpectBytes(4),
                   Expect("pe")>>
  BY <1>1, Exchanges, Zenon
<1>3. PICK b \in Seq(HeldCommands) :
          b = IF words = 32
              THEN download_data(15, TRUE) \o download_data(15, FALSE)
                   \o <<Packet(<<Download(Times(2, CODE)), Instr(FASTDATA),
                                 FastBuf(32)>>)>>
              ELSE RowParts(words)[words \div 64]
  BY RowPartCalm, RowPartsCalm, Zenon
<1>4. a \o b \o c \in Seq(HeldCommands)
  BY Joined, Zenon
<1> QED
  BY <1>2, <1>3, <1>4, RowIs, Zenon

-----------------------------------------------------------------------------
(* Scripts for a port out of step.                                         *)

\* The command of the usbpic that waits for the processor, with its argument.
SerialCommands == [op : {"SerialExecutionMode"}, arg : {0, 1}]
\* The packets of the PICkit that have the MTAP hold the processor in reset and let
\* go of it.
Releasing ==
    {c \in [op : {"Packet"}, arg : Seq(MtapSteps)] : \E k \in 1 .. Len(c.arg) :
        /\ k + 2 <= Len(c.arg) /\ c.arg[k] = Instr(SW_MTAP)
        /\ c.arg[k + 1] = Instr(COMMAND) /\ c.arg[k + 2] = Read8(208)
        /\ \A i \in k + 3 .. Len(c.arg) : c.arg[i] \in HeldSteps}
\* What a driver sends to a port in step: the usbpic driver and the PICkit's leave
\* the pins and the MTAP's hold on the processor as they are, but for the command
\* and the packet that begin serial execution.
WorkCommands(a) ==
    CASE a = "usbpic" -> HeldCommands \cup SerialCommands
      [] a = "pickit" -> HeldCommands \cup Releasing
      [] a = "ascii"  -> CalmCommands

\* The packet that begins serial execution is one of those.
LEMMA PickitSerial ==
  pickit_serial_execution \in Seq(Releasing)
<1>1. PICK m, c, z, x, e, r, b, y, q :
          /\ m = Instr(SW_MTAP) /\ c = Instr(COMMAND) /\ z = Read8(0) /\ x = Read8(209)
          /\ e = Instr(SW_ETAP) /\ r = Reset5 /\ b = Instr(EJTAGBOOT) /\ y = Read8(208)
          /\ q = Read8(254)
  BY Zenon
<1>2. PICK steps : steps = <<m, c, z, m, c, x, e, r, b, m, c, y, q>>
  OBVIOUS
<1>3. /\ m \in CalmSteps /\ c \in CalmSteps /\ z \in CalmSteps /\ x \in CalmSteps
      /\ e \in CalmSteps /\ r \in CalmSteps /\ b \in CalmSteps /\ y \in CalmSteps
      /\ q \in CalmSteps
  <2>1. x \in CalmSteps
    <3>1. \A op \in Numbered : \A n \in Nat : Do(op, n) \in CalmSteps
      BY CalmKinds, Zenon
    <3>2. "XferData8" \in Numbered /\ 209 \in Nat
      BY DEF Numbered
    <3> QED
      BY <1>1, <3>1, <3>2, Zenon DEF Read8
  <2>2. /\ m \in HeldSteps /\ c \in HeldSteps /\ z \in HeldSteps /\ e \in HeldSteps
        /\ r \in HeldSteps /\ b \in HeldSteps /\ y \in HeldSteps /\ q \in HeldSteps
    BY <1>1, CalmUsed, PickitUsed, Zenon
  <2>3. HeldSteps \subseteq CalmSteps
    BY Fewer
  <2> QED
    BY <2>1, <2>2, <2>3
<1>4. /\ m.op = "SendCommand" /\ c.op = "SendCommand" /\ z.op = "XferData8"
      /\ x.op = "XferData8" /\ e.op = "SendCommand" /\ r.op = "SetMode"
      /\ b.op = "SendCommand" /\ y.op = "XferData8" /\ q.op = "XferData8"
  BY <1>1 DEF Instr, Read8, Reset5, Do
<1>5. /\ m \in MtapSteps /\ c \in MtapSteps /\ z \in MtapSteps /\ x \in MtapSteps
      /\ e \in MtapSteps /\ r \in MtapSteps /\ b \in MtapSteps /\ y \in MtapSteps
      /\ q \in MtapSteps
  BY <1>3, <1>4 DEF MtapSteps
<1>6. steps \in Seq(MtapSteps) /\ Len(steps) = 13 /\ steps[10] = m /\ steps[11] = c
      /\ steps[12] = y /\ steps[13] = q
  BY <1>2, <1>5
<1>7. PICK p : p = Packet(steps)
  OBVIOUS
<1>8. p \in [op : {"Packet"}, arg : Seq(MtapSteps)] /\ p.arg = steps
  BY <1>6, <1>7 DEF Packet, Do
<1>9. q \in HeldSteps
  BY <1>1, PickitUsed, Zenon
<1>10. PICK k \in 1 .. Len(p.arg) :
           /\ k + 2 <= Len(p.arg) /\ p.arg[k] = m /\ p.arg[k + 1] = c
           /\ p.arg[k + 2] = y /\ \A i \in k + 3 .. Len(p.arg) : p.arg[i] \in HeldSteps
  <2>1. PICK k : k = 10
    OBVIOUS
  <2>2. /\ k \in 1 .. Len(steps) /\ k + 2 <= Len(steps) /\ steps[k] = m
        /\ steps[k + 1] = c /\ steps[k + 2] = y
    BY <1>6, <2>1
  <2>3. ASSUME NEW i \in k + 3 .. Len(steps) PROVE steps[i] \in HeldSteps
    <3>1. i = 13
      BY <1>6, <2>1
    <3> QED
      BY <1>6, <1>9, <3>1
  <2> QED
    BY <1>8, <2>2, <2>3, Zenon
<1>11. p \in Releasing
  BY <1>1, <1>8, <1>10, Zenon DEF Releasing
<1>12. pickit_serial_execution = <<p>>
  BY <1>1, <1>2, <1>7, ZenonT(60) DEF pickit_serial_execution
<1> QED
  BY <1>11, <1>12, Tuples, Zenon

\* Whatever a driver sends to a port in step is calm, but SerialExecutionMode.
LEMMA WorkCalm ==
  \A a \in {"usbpic", "pickit", "ascii"} :
      /\ \A c \in HeldCommands : c \in WorkCommands(a)
      /\ \A s \in Seq(HeldCommands) : s \in Seq(WorkCommands(a))
      /\ \A c \in WorkCommands(a) :
             c \in CalmCommands \/ (a = "usbpic" /\ c \in SerialCommands)
<1>1. Releasing \subseteq CalmCommands
  <2> SUFFICES ASSUME NEW c \in [op : {"Packet"}, arg : Seq(MtapSteps)]
               PROVE  c \in CalmCommands
    BY DEF Releasing
  <2>1. c.arg \in Seq(CalmSteps)
    <3>1. MtapSteps \subseteq CalmSteps /\ c.arg \in Seq(MtapSteps)
      BY Fewer
    <3> QED
      BY <3>1
  <2>2. c \in [op : {"Packet"}, arg : Seq(CalmSteps)]
    BY <2>1
  <2> QED
    BY <2>2 DEF CalmCommands
<1>2. /\ WorkCommands("usbpic") = HeldCommands \cup SerialCommands
      /\ WorkCommands("pickit") = HeldCommands \cup Releasing
      /\ WorkCommands("ascii") = CalmCommands
  BY Zenon DEF WorkCommands
<1>3. \A a \in {"usbpic", "pickit", "ascii"} :
          /\ HeldCommands \subseteq WorkCommands(a)
          /\ \A c \in WorkCommands(a) :
                 c \in CalmCommands \/ (a = "usbpic" /\ c \in SerialCommands)
  BY <1>1, <1>2, Fewer
<1>4. ASSUME NEW W, HeldCommands \subseteq W
      PROVE  \A s \in Seq(HeldCommands) : s \in Seq(W)
  BY <1>4
<1> QED
  BY <1>3, <1>4, Zenon

\* The command that resets the port and goes on, the PICkit's or the serial adapter's.
Resetting(a) == IF a = "pickit" THEN Head(pickit_enter) ELSE Send(6, 31, Word, TRUE, 0)
\* A script that begins out of step: commands that spare the device, the one that
\* resets the port, and commands that keep it in step.
Resets(a, list) ==
    /\ list \in Seq(LineCommands \cup {Resetting(a)} \cup HeldCommands)
    /\ \E k \in 1 .. Len(list) :
           /\ list[k] = Resetting(a)
           /\ \A i \in 1 .. k - 1 : list[i] \in LineCommands
           /\ \A i \in k + 1 .. Len(list) : list[i] \in HeldCommands

\* The sparing steps that occur.
LEMMA SpareUsed ==
  /\ \A n \in Nat : /\ Do("SetupIOPorts", n) \in LineSteps
                    /\ Do("ExitPgmMode", n) \in SpareSteps
                    /\ Do("Supply", n) \in LineSteps /\ Do("Ground", n) \in LineSteps
                    /\ Do("Raise", n) \in LineSteps /\ Do("Release", n) \in LineSteps
                    /\ Do("Signature", n) \in LineSteps
  /\ ClearUpload \in LineSteps /\ Receive \in LineSteps /\ Reset5 \in LineSteps
  /\ Do("SetMode", 5) \in LineSteps /\ Expect("power") \in LineSteps
  /\ ReadStatus(0) \in LineSteps /\ ReadStatus(1) \in LineSteps
BY DEF LineSteps, SpareSteps, Do, ClearUpload, Receive, ReadStatus, Reset5, Expect,
       Answers

\* The scripts that let go of a target, and the first of the PICkit, spare it.
LEMMA SpareScripts ==
  /\ \A supply : adapter_open_pickit(supply) \in Seq(LineCommands)
  /\ \A active, setup : usbpic_close(active, setup) \in Seq(SpareCommands)
  /\ \A on : pickit_finish(on) \in Seq(LineCommands)
  /\ <<Do("ExitPgmMode", 0)>> \in Seq(SpareCommands)
<1>0. /\ ReadStatus(0) \in LineCommands /\ ReadStatus(1) \in LineCommands
      /\ Expect("power") \in LineCommands
  BY SpareUsed, Packets, Zenon
<1>1. /\ Do("SetupIOPorts", 0) \in SpareCommands /\ Do("ExitPgmMode", 0) \in SpareCommands
      /\ Reset5 \in SpareCommands
  <2>1. /\ Do("SetupIOPorts", 0) \in LineCommands /\ Reset5 \in LineCommands
        /\ Do("ExitPgmMode", 0) \in SpareCommands
    <3>1. 0 \in Nat
      OBVIOUS
    <3> QED
      BY <3>1, SpareUsed, Packets, Zenon
  <2> QED
    BY <2>1, Fewer
<1>2. /\ Packet(<<Do("Supply", 0)>>) \in LineCommands
      /\ Packet(<<Do("Supply", 1)>>) \in LineCommands
      /\ Packet(<<Do("Ground", 0)>>) \in LineCommands
      /\ Packet(<<Do("Release", 0)>>) \in LineCommands
      /\ Packet(<<ClearUpload, Do("SetMode", 5), Do("Ground", 0)>>) \in LineCommands
  <2>1. 0 \in Nat /\ 1 \in Nat
    OBVIOUS
  <2>2. /\ <<Do("Supply", 0)>> \in Seq(LineSteps)
        /\ <<Do("Supply", 1)>> \in Seq(LineSteps)
        /\ <<Do("Ground", 0)>> \in Seq(LineSteps)
        /\ <<Do("Release", 0)>> \in Seq(LineSteps)
        /\ <<ClearUpload, Do("SetMode", 5), Do("Ground", 0)>> \in Seq(LineSteps)
    BY <2>1, SpareUsed, Tuples, Zenon
  <2> QED
    BY <2>2, Packets, Zenon
<1>3. ASSUME NEW supply PROVE adapter_open_pickit(supply) \in Seq(LineCommands)
  <2>1. /\ <<Packet(<<Do("Supply", 0)>>), Packet(<<Do("Ground", 0)>>), ReadStatus(1),
             Expect("power")>> \in Seq(LineCommands)
        /\ <<Packet(<<Do("Supply", 1)>>), ReadStatus(1), Expect("power")>>
               \in Seq(LineCommands)
        /\ <<>> \in Seq(LineCommands)
    BY <1>0, <1>2, Tuples, Zenon
  <2>2. (IF supply = "board" THEN <<>>
         ELSE <<Packet(<<Do("Supply", 1)>>), ReadStatus(1), Expect("power")>>)
            \in Seq(LineCommands)
    BY <2>1, Zenon
  <2> QED
    BY <2>1, <2>2, Joined, Zenon DEF adapter_open_pickit
<1>4. ASSUME NEW active, NEW setup
      PROVE  usbpic_close(active, setup) \in Seq(SpareCommands)
  <2>1. /\ <<Reset5>> \in Seq(SpareCommands) /\ <<>> \in Seq(SpareCommands)
        /\ <<Do("ExitPgmMode", 0)>> \in Seq(SpareCommands)
        /\ <<Do("SetupIOPorts", 0)>> \in Seq(SpareCommands)
    BY <1>1, Tuples, Zenon
  <2>2. /\ (IF active THEN <<Do("ExitPgmMode", 0)>> ELSE <<>>) \in Seq(SpareCommands)
        /\ (IF setup THEN <<Do("SetupIOPorts", 0)>> ELSE <<>>) \in Seq(SpareCommands)
    BY <2>1, Zenon
  <2> QED
    BY <2>1, <2>2, Joined, Zenon DEF usbpic_close
<1>5. ASSUME NEW on PROVE pickit_finish(on) \in Seq(LineCommands)
  <2>1. /\ <<Packet(<<ClearUpload, Do("SetMode", 5), Do("Ground", 0)>>)>>
               \in Seq(LineCommands)
        /\ <<Packet(<<Do("Supply", 0)>>)>> \in Seq(LineCommands)
        /\ <<Packet(<<Do("Release", 0)>>), ReadStatus(0)>> \in Seq(LineCommands)
        /\ <<>> \in Seq(LineCommands)
    BY <1>0, <1>2, Tuples, Zenon
  <2>2. (IF on THEN <<>> ELSE <<Packet(<<Do("Supply", 0)>>)>>) \in Seq(LineCommands)
    BY <2>1, Zenon
  <2> QED
    BY <2>1, <2>2, Joined, Zenon DEF pickit_finish
<1>6. <<Do("ExitPgmMode", 0)>> \in Seq(SpareCommands)
  BY <1>1, Tuples, Zenon
<1> QED
  BY <1>3, <1>4, <1>5, <1>6, Zenon

\* The entry of the PICkit and of the serial adapter, which begin out of step.
LEMMA ResetScripts ==
  Resets("pickit", pickit_enter) /\ Resets("ascii", adapter_open_bitbang)
<1>1. Resets("pickit", pickit_enter)
  <2>1. PICK a, b, c, d, e : /\ b \in HeldCommands /\ c \in HeldCommands
                             /\ d \in HeldCommands /\ e \in HeldCommands
                             /\ a = Packet(<<ClearUpload, Do("Ground", 0), Do("Raise", 0),
                                     Do("Ground", 0), Do("Signature", 0), Do("Raise", 0),
                                     Reset5, Instr(SW_MTAP), Instr(COMMAND), Read8(0)>>)
                             /\ b = Receive /\ c = ExpectBytes(1) /\ d = Expect("status")
                             /\ e = Expect("unprotected")
    BY PickitUsed, Zenon
  <2>2. pickit_enter = <<a, b, c, d, e>>
    BY <2>1, Zenon DEF pickit_enter
  <2>3. a = Head(pickit_enter)
    BY <2>2
  <2>4. PICK list : list = <<a, b, c, d, e>>
    OBVIOUS
  <2>5. /\ 1 \in 1 .. Len(list) /\ list[1] = a
        /\ \A i \in 1 .. 1 - 1 : list[i] \in LineCommands
        /\ \A i \in 1 + 1 .. Len(list) : list[i] \in HeldCommands
    BY <2>1, <2>4
  <2>6. list \in Seq(LineCommands \cup {Resetting("pickit")} \cup HeldCommands)
    <3>1. a \in {Resetting("pickit")}
      BY <2>3 DEF Resetting
    <3>2. PICK S : S = LineCommands \cup {Resetting("pickit")} \cup HeldCommands
      OBVIOUS
    <3>3. a \in S /\ b \in S /\ c \in S /\ d \in S /\ e \in S
      BY <2>1, <3>1, <3>2
    <3> QED
      BY <2>4, <3>2, <3>3, Tuples, Zenon
  <2> QED
    BY <2>2, <2>3, <2>4, <2>5, <2>6, Zenon DEF Resets, Resetting
<1>2. Resets("ascii", adapter_open_bitbang)
  <2>1. PICK a, b, c, d : /\ a = Do("Supply", 1) /\ b = Do("Raise", 0)
                          /\ c = Do("Ground", 0) /\ d = Do("Signature", 0)
    OBVIOUS
  <2>2. /\ a \in LineCommands /\ b \in LineCommands /\ c \in LineCommands
        /\ d \in LineCommands
    <3>1. 0 \in Nat /\ 1 \in Nat
      OBVIOUS
    <3> QED
      BY <2>1, <3>1, SpareUsed, Packets, Zenon
  <2>3. PICK f, g : /\ f = Send(6, 31, Word, TRUE, 0) /\ g = Expect("idcode")
                    /\ g \in HeldCommands
    <3>1. Expect("idcode") \in HeldCommands
      BY PickitUsed, Zenon
    <3> QED
      BY <3>1, Zenon
  <2>4. adapter_open_bitbang = <<a, b, c, d, b>> \o <<f, g>>
    BY <2>1, <2>3, Zenon DEF adapter_open_bitbang, bitbang_ICSP_enable, bitbang_get_idcode
  <2>5. PICK list : list = <<a, b, c, d, b>> \o <<f, g>>
    OBVIOUS
  <2>6. /\ Len(list) = 7 /\ list[1] = a /\ list[2] = b /\ list[3] = c /\ list[4] = d
        /\ list[5] = b /\ list[6] = f /\ list[7] = g
    <3>1. PICK T : T = {a, b, c, d, f, g}
      OBVIOUS
    <3>2. PICK s, r \in Seq(T) : s = <<a, b, c, d, b>> /\ r = <<f, g>>
      <4>1. a \in T /\ b \in T /\ c \in T /\ d \in T /\ f \in T /\ g \in T
        BY <3>1
      <4>2. <<a, b, c, d, b>> \in Seq(T) /\ <<f, g>> \in Seq(T)
        BY <4>1, Tuples, Zenon
      <4> QED
        BY <4>2, Zenon
    <3>3. /\ Len(s) = 5 /\ Len(r) = 2 /\ s[1] = a /\ s[2] = b /\ s[3] = c /\ s[4] = d
          /\ s[5] = b /\ r[1] = f /\ r[2] = g
      BY <3>2
    <3>4. list = s \o r
      BY <2>5, <3>2, Zenon
    <3>5. /\ Len(list) = Len(s) + Len(r)
          /\ \A i \in 1 .. Len(s) + Len(r) :
                 list[i] = IF i <= Len(s) THEN s[i] ELSE r[i - Len(s)]
      BY <3>4, ConcatProperties, Zenon
    <3> QED
      BY <3>3, <3>5
  <2>7. /\ 6 \in 1 .. Len(list) /\ list[6] = f
        /\ \A i \in 1 .. 6 - 1 : list[i] \in LineCommands
        /\ \A i \in 6 + 1 .. Len(list) : list[i] \in HeldCommands
    BY <2>2, <2>3, <2>6
  <2>8. list \in Seq(LineCommands \cup {Resetting("ascii")} \cup HeldCommands)
    <3>1. f \in {Resetting("ascii")}
      BY <2>3 DEF Resetting
    <3>2. PICK S : S = LineCommands \cup {Resetting("ascii")} \cup HeldCommands
      OBVIOUS
    <3>3. a \in S /\ b \in S /\ c \in S /\ d \in S /\ f \in S /\ g \in S
      BY <2>2, <2>3, <3>1, <3>2
    <3>4. <<a, b, c, d, b>> \in Seq(S) /\ <<f, g>> \in Seq(S)
      BY <3>3, Tuples, Zenon
    <3> QED
      BY <2>5, <3>2, <3>4, Joined, Zenon
  <2> QED
    BY <2>3, <2>4, <2>5, <2>7, <2>8, ZenonT(60) DEF Resets, Resetting
<1> QED
  BY <1>1, <1>2

-----------------------------------------------------------------------------
(* The inductive invariant.                                                *)

\* Stages after the target is known.
Later == {"word", "load", "row", "config", "crc", "block", "erase"}

\* The stages to come, in the order of the program.
PlanFits ==
    /\ plan \in Seq(Stages)
    /\ stage = "start" =>
           /\ Len(plan) >= 3 /\ plan[1] = "open" /\ plan[2] = "status"
           /\ plan[3] = "identify" /\ \A i \in 4 .. Len(plan) : plan[i] \in Later
    /\ stage = "open" =>
           /\ Len(plan) >= 2 /\ plan[1] = "status" /\ plan[2] = "identify"
           /\ \A i \in 3 .. Len(plan) : plan[i] \in Later
    /\ stage = "status" =>
           /\ Len(plan) >= 1 /\ plan[1] = "identify"
           /\ \A i \in 2 .. Len(plan) : plan[i] \in Later
    /\ stage \in {"identify"} \cup Later => plan \in Seq(Later)

\* What is left of adapter_open_usbpic, and what it has done.
Opening ==
    \/ todo = adapter_open_usbpic(mode)
    \/ /\ dev.wireMode = mode
       /\ todo = <<Do("SetupIOPorts", 1), Do("EnterPgmMode", 0), Reset5, ReadWord,
                   Expect("idcode")>>
    \/ /\ dev.wireMode = mode
       /\ todo = <<Do("EnterPgmMode", 0), Reset5, ReadWord, Expect("idcode")>>
    \/ dev.inPgmMode /\ todo = <<Reset5, ReadWord, Expect("idcode")>>
    \/ dev.inPgmMode /\ InStep(dev) /\ todo \in Seq(HeldCommands)

\* The commands to come suit the state of the port.
TodoFits ==
    /\ stage \in {"off", "start"} => todo = <<>>
    /\ stage = "open" /\ adapter = "usbpic" => Opening
    /\ stage = "open" /\ adapter = "pickit" => todo \in Seq(LineCommands)
    /\ \/ stage = "open" /\ adapter = "ascii"
       \/ stage = "status" /\ adapter = "pickit"
       => Resets(adapter, todo) \/ (InStep(dev) /\ todo \in Seq(HeldCommands))
    /\ \/ stage \in {"identify"} \cup Later
       \/ stage = "status" /\ adapter # "pickit"
       => /\ InStep(dev) /\ todo \in Seq(WorkCommands(adapter))
          /\ adapter = "usbpic" => dev.inPgmMode
    /\ stage \in {"close", "reject"} =>
           \/ todo \in Seq(IF adapter = "usbpic" THEN SpareCommands ELSE LineCommands)
           \/ adapter = "ascii" /\ InStep(dev) /\ todo \in Seq(CalmCommands)

\* The target and its wiring are those of the first session, which the adapters
\* that have but one connector reach over that; and the MTAP holds the processor in
\* reset between two commands of the serial adapter alone.
TargetFits ==
    /\ dev.supply \in {"board", "adapter"} /\ dev.wired \in Wirings \cup {{"ICSP"}}
    /\ adapter = "usbpic" => dev.supply = "board"
    /\ adapter # "usbpic" => /\ dev.wired = {"ICSP"} /\ dev.wireMode = "ICSP"
                             /\ ~ dev.inPgmMode
    /\ adapter # "ascii" => ~ dev.asserted

\* An instruction is missed only at the entry with four wires.
MissedFits ==
    dev.missed => /\ stage = "open" /\ adapter = "usbpic" /\ mode = "JTAG"
                  /\ todo = <<Reset5, ReadWord, Expect("idcode")>>
                  /\ last.op = "EnterPgmMode"

\* The inductive invariant.
IInv ==
    /\ TypeOK /\ Whole(dev) /\ adapter \in {"usbpic", "pickit", "ascii"}
    /\ (outcome = "none") = (stage # "off")
    /\ stage # "off" /\ adapter = "usbpic" => mode \in {"JTAG", "ICSP"}
    /\ target => stage \in Later \cup {"close"}
    /\ PlanFits /\ TodoFits /\ MissedFits /\ TargetFits

\* Devices alike in their pins, their processor and the state of their port.
Alike(d, e) ==
    /\ SamePins(d, e) /\ e.PMCLR = d.PMCLR /\ e.asserted = d.asserted /\ e.cpu = d.cpu
    /\ e.tap.state = d.tap.state /\ e.tap.boot = d.tap.boot

\* Clearing what the last command has left keeps the port as it is.
LEMMA FreshKeeps ==
  \A d : Whole(d) =>
      /\ Whole(Fresh(d)) /\ Fresh(d).missed = FALSE
      /\ Fresh(d).wireMode = d.wireMode /\ Fresh(d).inPgmMode = d.inPgmMode
      /\ InStep(d) => InStep(Fresh(d))
      /\ Alike(d, Fresh(d)) /\ Fresh(d).tap.scans = <<>>
<1> SUFFICES ASSUME NEW d, Whole(d), NEW e, e = Fresh(d)
             PROVE  /\ Whole(e) /\ e.missed = FALSE
                    /\ e.wireMode = d.wireMode /\ e.inPgmMode = d.inPgmMode
                    /\ InStep(d) => InStep(e)
                    /\ Alike(d, e) /\ e.tap.scans = <<>>
  OBVIOUS
<1>1. PICK none : none = <<>>
  OBVIOUS
<1>2. PICK t : t = [d.tap EXCEPT !.scans = none]
  OBVIOUS
<1>3. DOMAIN d = Parts /\ DOMAIN d.tap = Fields
  BY DEF Whole, Sound
<1>4. t.state = d.tap.state /\ t.boot = d.tap.boot /\ t.sel = d.tap.sel
      /\ DOMAIN t = Fields /\ t.scans = none
  BY <1>2, <1>3 DEF Fields
<1>5. Sound(t)
  BY <1>4 DEF Whole, Sound
<1>6. e = [d EXCEPT !.tap.scans = none, !.missed = FALSE, !.deaf = FALSE, !.reply = 0]
  BY <1>1, Zenon DEF Fresh
<1>7. e = [d EXCEPT !.tap = t, !.missed = FALSE, !.deaf = FALSE, !.reply = 0]
  BY <1>2, <1>3, <1>6 DEF Parts
<1>8. /\ DOMAIN e = Parts /\ e.tap = t /\ e.missed = FALSE
      /\ \A q \in Parts \ {"tap", "missed", "deaf", "reply"} : e[q] = d[q]
  BY <1>3, <1>7 DEF Parts
<1>9. SamePins(d, e) /\ e.cpu = d.cpu /\ e.protected = d.protected
      /\ e.expects = d.expects /\ e.PMCLR = d.PMCLR /\ e.asserted = d.asserted
  BY <1>8 DEF SamePins, Parts
<1>10. Whole(e)
  BY <1>5, <1>8, <1>9 DEF Whole, SamePins
<1>11. InStep(d) => InStep(e)
  BY <1>4, <1>8, <1>9, SameReaches DEF InStep
<1>12. Alike(d, e) /\ e.tap.scans = <<>>
  BY <1>1, <1>4, <1>8, <1>9 DEF Alike
<1> QED
  BY <1>8, <1>9, <1>10, <1>11, <1>12 DEF SamePins

\* What TypeOK says of a device.
LEMMA WholeTyped ==
  \A d : Whole(d) =>
      /\ d.wireMode \in Connector /\ d.driven \subseteq Connector
      /\ d.inPgmMode \in BOOLEAN /\ d.cpu \in Processor
      /\ d.tap.state \in TapState /\ d.tap.sel \in {"MTAP", "ETAP"}
BY DEF Whole, Sound, Connector

\* A device that has just been powered up.
Begun(d, w, wired, supply) ==
    /\ Whole(d) /\ d.missed = FALSE /\ d.asserted = FALSE /\ d.inPgmMode = FALSE
    /\ d.wireMode = w /\ d.wired = wired /\ d.supply = supply

\* It is whole, and has missed nothing.
LEMMA PoweredUp ==
  ASSUME NEW w \in {"JTAG", "ICSP"}, NEW wired, NEW family, NEW supply,
         NEW protected \in BOOLEAN
  PROVE  Begun(PowerUp(w, wired, family, protected, supply), w, wired, supply)
<1>0. PICK d : d = PowerUp(w, wired, family, protected, supply)
  OBVIOUS
<1>1. PICK none : none = <<>>
  OBVIOUS
<1>2. PICK t : t = Tap("Reset", IDCODE, "MTAP")
  OBVIOUS
<1>3. PICK cpu \in Processor : cpu = IF supply = "board" THEN "run" ELSE "off"
  BY DEF Processor
<1>4. d = [wireMode |-> w, inPgmMode |-> FALSE, driven |-> {}, MCLR |-> 0,
           PMCLR |-> 0, icsp |-> FALSE, asserted |-> FALSE,
           supply |-> supply, vdd |-> FALSE, cpu |-> cpu,
           wired |-> wired, family |-> family, protected |-> protected,
           tap |-> t, expects |-> "address", left |-> 0, loaded |-> 0,
           download |-> none, upload |-> 0, timeout |-> FALSE,
           dry |-> FALSE, missed |-> FALSE, deaf |-> FALSE, reply |-> 0]
  BY <1>0, <1>1, <1>2, <1>3, Zenon DEF PowerUp
<1>5. DOMAIN d = Parts
  BY <1>4 DEF Parts
<1>6. Sound(t)
  BY <1>2, TapSound, Zenon
<1>7. /\ d.wireMode = w /\ d.driven = {} /\ d.inPgmMode = FALSE /\ d.missed = FALSE
      /\ d.cpu = cpu /\ d.protected = protected /\ d.expects = "address" /\ d.tap = t
      /\ d.asserted = FALSE /\ d.wired = wired /\ d.supply = supply
  BY <1>4
<1>8. Begun(d, w, wired, supply)
  BY <1>5, <1>6, <1>7 DEF Whole, Begun
<1> QED
  BY <1>0, <1>8, Zenon

-----------------------------------------------------------------------------
(* What a stage sends.                                                     *)

\* The scripts that a stage sends as they are begin with nothing else.
LEMMA Listed ==
  /\ \A m : <<>> \o adapter_open_usbpic(m) = adapter_open_usbpic(m)
  /\ <<>> \o adapter_open_bitbang = adapter_open_bitbang
  /\ <<>> \o pickit_enter = pickit_enter
<1>1. ASSUME NEW m PROVE <<>> \o adapter_open_usbpic(m) = adapter_open_usbpic(m)
  <2>1. PICK a, b, c, d, e, f :
            /\ a = Do("SetWiresMode", IF m = "ICSP" THEN 1 ELSE 2)
            /\ b = Do("SetupIOPorts", 1) /\ c = Do("EnterPgmMode", 0)
            /\ d = Reset5 /\ e = ReadWord /\ f = Expect("idcode")
    BY Zenon
  <2>2. PICK S : S = {a, b, c, d, e, f}
    OBVIOUS
  <2>3. a \in S /\ b \in S /\ c \in S /\ d \in S /\ e \in S /\ f \in S
    BY <2>2
  <2>4. <<a, b, c, d, e, f>> \in Seq(S)
    BY <2>3
  <2>5. adapter_open_usbpic(m) \in Seq(S)
    BY <2>1, <2>4, Zenon DEF adapter_open_usbpic
  <2> QED
    BY <2>5, ConcatEmptySeq, Zenon
<1>2. <<>> \o adapter_open_bitbang = adapter_open_bitbang
  <2>1. PICK a, b, c, d : /\ a = Do("Supply", 1) /\ b = Do("Raise", 0)
                          /\ c = Do("Ground", 0) /\ d = Do("Signature", 0)
    BY Zenon
  <2>2. PICK f, g : f = Send(6, 31, Word, TRUE, 0) /\ g = Expect("idcode")
    BY Zenon
  <2>3. PICK S : S = {a, b, c, d, f, g}
    OBVIOUS
  <2>4. a \in S /\ b \in S /\ c \in S /\ d \in S /\ f \in S /\ g \in S
    BY <2>3
  <2>5. <<a, b, c, d, b>> \in Seq(S) /\ <<f, g>> \in Seq(S)
    BY <2>4, Tuples, Zenon
  <2>6. adapter_open_bitbang \in Seq(S)
    BY <2>1, <2>2, <2>5, Joined, Zenon
       DEF adapter_open_bitbang, bitbang_ICSP_enable, bitbang_get_idcode
  <2> QED
    BY <2>6, ConcatEmptySeq, Zenon
<1>3. <<>> \o pickit_enter = pickit_enter
  <2>1. PICK a, b, c, d, e :
            /\ a = Packet(<<ClearUpload, Do("Ground", 0), Do("Raise", 0),
                            Do("Ground", 0), Do("Signature", 0), Do("Raise", 0),
                            Reset5, Instr(SW_MTAP), Instr(COMMAND), Read8(0)>>)
            /\ b = Receive /\ c = ExpectBytes(1) /\ d = Expect("status")
            /\ e = Expect("unprotected")
    BY Zenon
  <2>2. PICK S : S = {a, b, c, d, e}
    OBVIOUS
  <2>3. a \in S /\ b \in S /\ c \in S /\ d \in S /\ e \in S
    BY <2>2
  <2>4. <<a, b, c, d, e>> \in Seq(S)
    BY <2>3, Tuples, Zenon
  <2>5. pickit_enter \in Seq(S)
    BY <2>1, <2>4, Zenon DEF pickit_enter
  <2> QED
    BY <2>5, ConcatEmptySeq, Zenon
<1> QED
  BY <1>1, <1>2, <1>3

\* Opening.
LEMMA OpenScript ==
  /\ adapter = "usbpic" => Script("open") = adapter_open_usbpic(mode)
  /\ adapter = "pickit" => Script("open") \in Seq(LineCommands)
  /\ adapter = "ascii" => Resets("ascii", Script("open"))
<1>1. Script("open") = <<>> \o Driver("open")
  <2>1. ~ Serial("open")
    BY DEF Serial
  <2> QED
    BY <2>1, Zenon DEF Script
<1>2. CASE adapter = "usbpic"
  <2>1. Driver("open") = adapter_open_usbpic(mode)
    BY <1>2, Zenon DEF Driver, usbpic
  <2> QED
    BY <1>1, <1>2, <2>1, Listed
<1>3. CASE adapter = "pickit"
  <2>1. Driver("open") = adapter_open_pickit(dev.supply)
    BY <1>3, Zenon DEF Driver, pickit
  <2>2. Driver("open") \in Seq(LineCommands)
    BY <2>1, SpareScripts, Zenon
  <2> QED
    BY <1>1, <1>3, <2>2, ConcatEmptySeq
<1>4. CASE adapter = "ascii"
  <2>1. Driver("open") = adapter_open_bitbang
    BY <1>4, Zenon DEF Driver, bitbang
  <2> QED
    BY <1>1, <1>4, <2>1, Listed, ResetScripts
<1> QED
  BY <1>2, <1>3, <1>4

\* The stages of the usbpic driver once the port is in step.
LEMMA UsbpicWork ==
  ASSUME adapter = "usbpic"
  PROVE  \A name \in {"status", "identify", "serial"} \cup Later :
             Driver(name) \in Seq(WorkCommands("usbpic"))
<1>1. \A s \in Seq(HeldSteps) : s \in Seq(WorkCommands("usbpic"))
  <2>1. "usbpic" \in {"usbpic", "pickit", "ascii"}
    OBVIOUS
  <2> QED
    BY <2>1, Packets, WorkCalm, Zenon
<1>2. Driver("status") \in Seq(WorkCommands("usbpic"))
  BY <1>1, UsbpicCalm, Zenon DEF Driver, usbpic
<1>3. Driver("identify") \in Seq(WorkCommands("usbpic"))
  BY <1>1, UsbpicCalm, Zenon DEF Driver, usbpic
<1>4. Driver("serial") \in Seq(WorkCommands("usbpic"))
  <2>1. PICK k \in {0, 1} : k = IF dev.family = "mx" THEN 1 ELSE 0
    OBVIOUS
  <2>2. Do("SerialExecutionMode", k) \in WorkCommands("usbpic")
    <3>1. WorkCommands("usbpic") = HeldCommands \cup SerialCommands
      BY Zenon DEF WorkCommands
    <3> QED
      BY <3>1 DEF SerialCommands, Do
  <2>3. <<Do("SerialExecutionMode", k)>> \in Seq(WorkCommands("usbpic"))
    BY <2>2, Tuples, Zenon
  <2> QED
    BY <2>1, <2>3, Zenon DEF Driver, usbpic, usbpic_serial_execution
<1>5. Driver("word") \in Seq(WorkCommands("usbpic"))
  BY <1>1, UsbpicCalm, Zenon DEF Driver, usbpic
<1>6. Driver("load") \in Seq(WorkCommands("usbpic"))
  BY <1>1, UsbpicCalm, Zenon DEF Driver, usbpic
<1>7. Driver("row") \in Seq(WorkCommands("usbpic"))
  BY <1>1, UsbpicCalm, Zenon DEF Driver, usbpic
<1>8. Driver("config") \in Seq(WorkCommands("usbpic"))
  BY <1>1, UsbpicCalm, Zenon DEF Driver, usbpic
<1>9. Driver("crc") \in Seq(WorkCommands("usbpic"))
  BY <1>1, UsbpicCalm, Zenon DEF Driver, usbpic
<1>10. Driver("block") \in Seq(WorkCommands("usbpic"))
  BY <1>1, UsbpicCalm, Zenon DEF Driver, usbpic
<1>11. Driver("erase") \in Seq(WorkCommands("usbpic"))
  BY <1>1, UsbpicCalm, Zenon DEF Driver, usbpic
<1> QED
  BY <1>2, <1>3, <1>4, <1>5, <1>6, <1>7, <1>8, <1>9, <1>10, <1>11 DEF Later

\* The same of the PICkit's.
LEMMA PickitWork ==
  ASSUME adapter = "pickit"
  PROVE  \A name \in {"identify", "serial"} \cup Later :
             Driver(name) \in Seq(WorkCommands("pickit"))
<1>1. \A s \in Seq(HeldCommands) : s \in Seq(WorkCommands("pickit"))
  <2>1. "pickit" \in {"usbpic", "pickit", "ascii"}
    OBVIOUS
  <2> QED
    BY <2>1, WorkCalm, Zenon
<1>2. PeWords(dev.family) \in Nat /\ RowWords(dev.family) \in Nat
  BY DEF PeWords, RowWords
<1>3. Driver("identify") \in Seq(WorkCommands("pickit"))
  BY <1>1, PickitCalm, Zenon DEF Driver, pickit
<1>4. Driver("serial") \in Seq(WorkCommands("pickit"))
  <2>1. WorkCommands("pickit") = HeldCommands \cup Releasing
    BY Zenon DEF WorkCommands
  <2>2. Driver("serial") = pickit_serial_execution
    BY Zenon DEF Driver, pickit
  <2>3. Driver("serial") \in Seq(Releasing)
    BY <2>2, PickitSerial
  <2> QED
    BY <2>1, <2>3
<1>5. Driver("word") \in Seq(WorkCommands("pickit"))
  BY <1>1, PickitCalm, Zenon DEF Driver, pickit
<1>6. Driver("load") \in Seq(WorkCommands("pickit"))
  <2>1. pickit_load_executive(PeWords(dev.family)) \in Seq(HeldCommands)
    BY <1>2, LoadCalm, Zenon
  <2> QED
    BY <1>1, <2>1, Zenon DEF Driver, pickit
<1>7. Driver("row") \in Seq(WorkCommands("pickit"))
  <2>1. pickit_program_row(RowWords(dev.family)) \in Seq(HeldCommands)
    BY <1>2, RowCalm, Zenon
  <2> QED
    BY <1>1, <2>1, Zenon DEF Driver, pickit
<1>8. Driver("config") \in Seq(WorkCommands("pickit"))
  <2>1. (IF dev.family = "mx" THEN pickit_program_word ELSE pickit_program_quad_word)
            \in Seq(HeldCommands)
    BY PickitCalm, Zenon
  <2> QED
    BY <1>1, <2>1, Zenon DEF Driver, pickit
<1>9. Driver("crc") \in Seq(WorkCommands("pickit"))
  BY <1>1, PickitCalm, Zenon DEF Driver, pickit
<1>10. Driver("block") \in Seq(WorkCommands("pickit"))
  BY <1>1, PickitCalm, Zenon DEF Driver, pickit
<1>11. Driver("erase") \in Seq(WorkCommands("pickit"))
  BY <1>1, PickitCalm, Zenon DEF Driver, pickit
<1> QED
  BY <1>3, <1>4, <1>5, <1>6, <1>7, <1>8, <1>9, <1>10, <1>11 DEF Later

\* The same of the serial adapter's.
LEMMA BitbangWork ==
  ASSUME adapter = "ascii"
  PROVE  \A name \in {"status", "identify", "serial"} \cup Later :
             Driver(name) \in Seq(WorkCommands("ascii"))
<1>1. \A s \in Seq(CalmSteps) : s \in Seq(WorkCommands("ascii"))
  <2>1. WorkCommands("ascii") = CalmCommands
    BY Zenon DEF WorkCommands
  <2> QED
    BY <2>1, Packets, Zenon
<1>2. Driver("status") \in Seq(WorkCommands("ascii"))
  BY <1>1, BitbangCalm, Zenon DEF Driver, bitbang
<1>3. Driver("identify") \in Seq(WorkCommands("ascii"))
  BY <1>1, BitbangCalm, Zenon DEF Driver, bitbang
<1>4. Driver("serial") \in Seq(WorkCommands("ascii"))
  BY <1>1, BitbangCalm, Zenon DEF Driver, bitbang
<1>5. Driver("word") \in Seq(WorkCommands("ascii"))
  BY <1>1, BitbangCalm, Zenon DEF Driver, bitbang
<1>6. Driver("load") \in Seq(WorkCommands("ascii"))
  BY <1>1, BitbangCalm, Zenon DEF Driver, bitbang
<1>7. Driver("row") \in Seq(WorkCommands("ascii"))
  BY <1>1, BitbangCalm, Zenon DEF Driver, bitbang
<1>8. Driver("config") \in Seq(WorkCommands("ascii"))
  BY <1>1, BitbangCalm, Zenon DEF Driver, bitbang
<1>9. Driver("crc") \in Seq(WorkCommands("ascii"))
  BY <1>1, BitbangCalm, Zenon DEF Driver, bitbang
<1>10. Driver("block") \in Seq(WorkCommands("ascii"))
  BY <1>1, BitbangCalm, Zenon DEF Driver, bitbang
<1>11. Driver("erase") \in Seq(WorkCommands("ascii"))
  BY <1>1, BitbangCalm, Zenon DEF Driver, bitbang
<1> QED
  BY <1>2, <1>3, <1>4, <1>5, <1>6, <1>7, <1>8, <1>9, <1>10, <1>11 DEF Later

\* A stage for a port in step, with the serial execution it may begin with.
LEMMA WorkScript ==
  ASSUME adapter \in {"usbpic", "pickit", "ascii"}
  PROVE  /\ \A name \in {"identify"} \cup Later : Script(name) \in Seq(WorkCommands(adapter))
         /\ adapter # "pickit" => Script("status") \in Seq(WorkCommands(adapter))
<1>1. \A name \in {"identify", "serial"} \cup Later :
          Driver(name) \in Seq(WorkCommands(adapter))
  BY UsbpicWork, PickitWork, BitbangWork
<1>2. adapter # "pickit" => Driver("status") \in Seq(WorkCommands(adapter))
  BY UsbpicWork, BitbangWork
<1>3. \A name : (IF Serial(name) THEN Driver("serial") ELSE <<>>)
                    \in Seq(WorkCommands(adapter))
  BY <1>1, Tuples, Zenon
<1> QED
  BY <1>1, <1>2, <1>3, Joined, Zenon DEF Script

\* Letting go of the target.
LEMMA LeaveScript ==
  ASSUME adapter \in {"usbpic", "pickit", "ascii"}
  PROVE  /\ adapter = "usbpic" => /\ Script("close") \in Seq(SpareCommands)
                                  /\ Script("reject") \in Seq(SpareCommands)
         /\ adapter = "pickit" => /\ Script("close") \in Seq(LineCommands)
                                  /\ Script("reject") \in Seq(LineCommands)
         /\ adapter = "ascii" => /\ Script("close") \in Seq(CalmCommands)
                                 /\ Script("reject") \in Seq(LineCommands)
<1>1. /\ Script("close") = <<>> \o Driver("close")
      /\ Script("reject") = <<>> \o Driver("reject")
  <2>1. ~ Serial("close") /\ ~ Serial("reject")
    BY DEF Serial
  <2> QED
    BY <2>1, Zenon DEF Script
<1>2. CASE adapter = "usbpic"
  <2>1. Driver("close") \in Seq(SpareCommands) /\ Driver("reject") \in Seq(SpareCommands)
    BY <1>2, SpareScripts, Zenon DEF Driver, usbpic
  <2> QED
    BY <1>1, <1>2, <2>1, ConcatEmptySeq
<1>3. CASE adapter = "pickit"
  <2>1. Driver("close") \in Seq(LineCommands) /\ Driver("reject") \in Seq(LineCommands)
    BY <1>3, SpareScripts, Zenon DEF Driver, pickit
  <2> QED
    BY <1>1, <1>3, <2>1, ConcatEmptySeq
<1>4. CASE adapter = "ascii"
  <2>1. Driver("close") \in Seq(CalmCommands)
    <3>1. Driver("close") = bitbang_close
      BY <1>4, Zenon DEF Driver, bitbang
    <3> QED
      BY <3>1, BitbangCalm, Packets, Zenon
  <2>2. Driver("reject") \in Seq(LineCommands)
    <3>1. Do("Supply", 0) \in LineCommands
      BY SpareUsed, Packets
    <3>2. <<Do("Supply", 0)>> \in Seq(LineCommands)
      BY <3>1, Tuples, Zenon
    <3>3. Driver("reject") = <<Do("Supply", 0)>>
      BY <1>4, Zenon DEF Driver, bitbang, bitbang_ICSP_enable
    <3> QED
      BY <3>2, <3>3, Zenon
  <2> QED
    BY <1>1, <1>4, <2>1, <2>2, ConcatEmptySeq
<1> QED
  BY <1>2, <1>3, <1>4

-----------------------------------------------------------------------------
(* The steps of a session.                                                 *)

\* What a stage needs of the port before it is entered.
Ready(name) ==
    /\ \/ name \in {"identify"} \cup Later
       \/ name = "status" /\ adapter # "pickit"
       => InStep(dev) /\ (adapter = "usbpic" => dev.inPgmMode)
    /\ name = "close" /\ adapter = "ascii" => InStep(dev)

\* A device with the target and the wiring of another, and its processor held by
\* the MTAP only where that of the other is.
Stays(d, e) ==
    /\ SameTarget(d, e) /\ (adapter # "usbpic" => SameMode(d, e))
    /\ adapter # "ascii" => (e.asserted => d.asserted)

\* A step to such a device leaves the target what it was.
LEMMA TargetKept ==
  ASSUME TargetFits, adapter' = adapter, Stays(dev, dev')
  PROVE  TargetFits'
BY DEF TargetFits, Stays, SameTarget, SameMode

\* Devices that are alike are such ones.
LEMMA AlikeStays ==
  ASSUME NEW d, NEW e, Alike(d, e)
  PROVE  Stays(d, e)
BY DEF Alike, Stays, SamePins, SameTarget, SameMode

\* A stage that is entered.
LEMMA EnterFits ==
  ASSUME IInv, outcome = "none", NEW name \in Stages \ {"off", "start"}, Enter(name),
         Ready(name), PlanFits', polls' = 0, target' => name \in Later \cup {"close"}
  PROVE  IInv'
<1>1. /\ Whole(dev') /\ dev'.missed = FALSE
      /\ dev'.wireMode = dev.wireMode /\ dev'.inPgmMode = dev.inPgmMode
      /\ InStep(dev) => InStep(dev')
      /\ Alike(dev, dev')
  BY FreshKeeps, Zenon DEF IInv, Enter
<1>2. TypeOK'
  <2>1. polls' \in 0 .. MaxPolls
    BY SessionAssumption
  <2> QED
    BY <1>1, <2>1, WholeTyped DEF TypeOK, IInv, Enter
<1>3. adapter' = adapter /\ stage' = name /\ todo' = Script(name) /\ mode' = mode
      /\ outcome' = outcome
  BY DEF Enter
<1>4. adapter \in {"usbpic", "pickit", "ascii"}
  BY DEF IInv
<1>5. TodoFits'
  <2>1. CASE name = "open"
    <3>1. Opening' \/ adapter # "usbpic"
      BY <1>3, <2>1, OpenScript DEF Opening
    <3> QED
      BY <1>3, <1>4, <2>1, <3>1, OpenScript DEF TodoFits, Later
  <2>2. CASE name = "status"
    <3>1. CASE adapter = "pickit"
      <4>1. Resets("pickit", Script("status"))
        <5>1. ~ Serial("status")
          BY DEF Serial
        <5>2. Script("status") = <<>> \o Driver("status")
          BY <5>1, Zenon DEF Script
        <5>3. Driver("status") = pickit_enter
          BY <3>1, Zenon DEF Driver, pickit
        <5> QED
          BY <5>2, <5>3, Listed, ResetScripts
      <4> QED
        BY <1>3, <2>2, <3>1, <4>1 DEF TodoFits, Later
    <3>2. CASE adapter # "pickit"
      BY <1>1, <1>3, <1>4, <2>2, <3>2, WorkScript DEF TodoFits, Later, Ready
    <3> QED
      BY <3>1, <3>2
  <2>3. CASE name \in {"identify"} \cup Later
    BY <1>1, <1>3, <1>4, <2>3, WorkScript DEF TodoFits, Later, Ready
  <2>4. CASE name \in {"close", "reject"}
    BY <1>1, <1>3, <1>4, <2>4, LeaveScript DEF TodoFits, Later, Ready
  <2> QED
    BY <2>1, <2>2, <2>3, <2>4 DEF Stages, Later
<1>6. MissedFits'
  BY <1>1 DEF MissedFits
<1>7. TargetFits'
  BY <1>1, <1>3, AlikeStays, TargetKept DEF IInv
<1> QED
  BY <1>1, <1>2, <1>3, <1>5, <1>6, <1>7 DEF IInv

\* A session that is over.
LEMMA EndFits ==
  ASSUME IInv, NEW how \in {"closed", "rejected", "abandoned", "aborted", "killed"},
         End(how)
  PROVE  IInv'
<1>1. Whole(dev') /\ dev'.missed = FALSE /\ Alike(dev, dev')
  BY FreshKeeps, Zenon DEF IInv, End
<1>2. TypeOK'
  <2>1. polls' \in 0 .. MaxPolls
    BY SessionAssumption DEF End
  <2>2. stage' \in Stages
    BY DEF End, Stages
  <2> QED
    BY <1>1, <2>1, <2>2, WholeTyped DEF TypeOK, IInv, End
<1>3. PlanFits'
  BY DEF PlanFits, End, Later
<1>4. TodoFits'
  BY DEF TodoFits, End, Later
<1>5. MissedFits'
  BY <1>1 DEF MissedFits
<1>6. TargetFits'
  <2>1. TargetFits /\ adapter' = adapter
    BY DEF IInv, End
  <2> QED
    BY <1>1, <2>1, AlikeStays, TargetKept
<1> QED
  BY <1>1, <1>2, <1>3, <1>4, <1>5, <1>6 DEF IInv, End

\* What is done when no command of a stage is left.
LEMMA Drained ==
  ASSUME IInv, todo = <<>>
  PROVE  /\ stage \in {"status", "identify"} \cup Later =>
                InStep(dev) /\ (adapter = "usbpic" => dev.inPgmMode)
         /\ stage = "open" /\ adapter # "pickit" =>
                InStep(dev) /\ (adapter = "usbpic" => dev.inPgmMode)
<1>1. ~ Resets(adapter, todo)
  BY DEF Resets
<1>2. adapter \in {"usbpic", "pickit", "ascii"} /\ TodoFits
  BY DEF IInv
<1>3. Opening => InStep(dev) /\ dev.inPgmMode
  BY DEF Opening, adapter_open_usbpic
<1> QED
  BY <1>1, <1>2, <1>3 DEF TodoFits

\* The first session, on an adapter that has just been plugged in.
LEMMA InitFits ==
  Init => IInv
<1> SUFFICES ASSUME Init PROVE IInv
  OBVIOUS
<1>1. adapter \in {"usbpic", "pickit", "ascii"}
  BY SessionAssumption DEF Init
<1>2. Whole(dev) /\ dev.missed = FALSE /\ TargetFits
  <2>1. PICK wired \in Wirings, family \in Families, protected \in Protected,
             supply \in Supplies :
            dev = IF adapter = "usbpic"
                  THEN PowerUp("JTAG", wired, family, protected, "board")
                  ELSE PowerUp("ICSP", {"ICSP"}, family, protected, supply)
    BY Zenon DEF Init
  <2>2. protected \in BOOLEAN
    BY SessionAssumption
  <2>3. PICK x, y : /\ x = PowerUp("JTAG", wired, family, protected, "board")
                    /\ y = PowerUp("ICSP", {"ICSP"}, family, protected, supply)
    BY Zenon
  <2>4. /\ Whole(x) /\ x.missed = FALSE /\ x.asserted = FALSE /\ x.wired = wired
        /\ x.supply = "board"
        /\ Whole(y) /\ y.missed = FALSE /\ y.asserted = FALSE /\ y.wired = {"ICSP"}
        /\ y.supply = supply /\ y.wireMode = "ICSP" /\ y.inPgmMode = FALSE
    <3>2. PICK jtag, icsp, board, two :
              jtag = "JTAG" /\ icsp = "ICSP" /\ board = "board" /\ two = {"ICSP"}
      BY Zenon
    <3>3. /\ x = PowerUp(jtag, wired, family, protected, board)
          /\ y = PowerUp(icsp, two, family, protected, supply)
      BY <2>3, <3>2, Zenon
    <3>6. jtag \in {"JTAG", "ICSP"} /\ icsp \in {"JTAG", "ICSP"}
      BY <3>2
    <3>4. Begun(PowerUp(jtag, wired, family, protected, board), jtag, wired, board)
      BY <2>2, <3>6, PoweredUp, Zenon
    <3>5. Begun(PowerUp(icsp, two, family, protected, supply), icsp, two, supply)
      BY <2>2, <3>6, PoweredUp, Zenon
    <3>7. Begun(x, jtag, wired, board) /\ Begun(y, icsp, two, supply)
      BY <3>3, <3>4, <3>5, Zenon
    <3> QED
      BY <3>2, <3>7 DEF Begun
  <2>5. (adapter = "usbpic" /\ dev = x) \/ (adapter # "usbpic" /\ dev = y)
    BY <2>1, <2>3, Zenon
  <2>6. supply \in {"board", "adapter"}
    BY SessionAssumption
  <2>7. TargetFits
    BY <2>4, <2>5, <2>6 DEF TargetFits
  <2> QED
    BY <2>4, <2>5, <2>7
<1>3. TypeOK
  <2>1. polls \in 0 .. MaxPolls /\ stage \in Stages
    BY SessionAssumption DEF Init, Stages
  <2> QED
    BY <1>2, <2>1, WholeTyped DEF TypeOK, Init
<1>4. PlanFits
  BY DEF PlanFits, Init, Later
<1>5. TodoFits
  BY DEF TodoFits, Init, Later
<1>6. MissedFits
  BY <1>2 DEF MissedFits
<1> QED
  BY <1>1, <1>2, <1>3, <1>4, <1>5, <1>6 DEF IInv, Init

\* The stages of a job are later ones.
LEMMA JobsLater ==
  \A job \in Jobs : \A stages \in JobPlan(job) : stages \in Seq(Later)
<1> SUFFICES ASSUME NEW job \in Jobs, NEW stages \in JobPlan(job)
             PROVE  stages \in Seq(Later)
  OBVIOUS
<1>1. job \in {"probe", "erase", "program", "verify", "read"}
  BY SessionAssumption
<1>2. ASSUME NEW name \in Later PROVE \A list \in Repeated(name) : list \in Seq(Later)
  <2> SUFFICES ASSUME NEW n \in 0 .. MaxBlocks PROVE Times(n, name) \in Seq(Later)
    BY DEF Repeated
  <2>1. n \in Nat
    BY SessionAssumption
  <2> QED
    BY <2>1, TimesIn
<1>3. /\ "word" \in Later /\ "row" \in Later /\ "crc" \in Later /\ "block" \in Later
      /\ "erase" \in Later /\ "load" \in Later /\ "config" \in Later
  BY DEF Later
<1>4. /\ <<>> \in Seq(Later) /\ <<"erase">> \in Seq(Later) /\ <<"load">> \in Seq(Later)
      /\ <<"config">> \in Seq(Later) /\ <<"erase", "load">> \in Seq(Later)
  BY <1>3, Tuples, Zenon
<1>5. CASE job = "probe"
  <2>1. stages \in Repeated("word")
    <3>1. JobPlan("probe") = Repeated("word")
      BY Zenon DEF JobPlan
    <3> QED
      BY <1>5, <3>1, Zenon
  <2> QED
    BY <1>2, <1>3, <2>1, Zenon
<1>6. CASE job = "erase"
  <2>1. stages = <<"erase">>
    <3>1. JobPlan("erase") = {<<"erase">>}
      BY Zenon DEF JobPlan
    <3>2. stages \in {<<"erase">>}
      BY <1>6, <3>1, Zenon
    <3> QED
      BY <3>2, Zenon
  <2> QED
    BY <1>4, <2>1, Zenon
<1>7. CASE job = "program"
  <2>1. PICK rows \in Repeated("row"), words \in Optional("config"),
             checks \in Repeated("crc") :
            stages = <<"erase", "load">> \o rows \o words \o checks
    <3>1. JobPlan("program") = ProgramPlans
      BY Zenon DEF JobPlan
    <3>2. stages \in ProgramPlans
      BY <1>7, <3>1, Zenon
    <3> QED
      BY <3>2 DEF ProgramPlans
  <2>2. rows \in Seq(Later) /\ checks \in Seq(Later) /\ words \in Seq(Later)
    BY <1>2, <1>3, <1>4, Zenon DEF Optional
  <2> QED
    BY <1>4, <2>1, <2>2, Joined, Zenon
<1>8. CASE job = "verify"
  <2>1. PICK checks \in Repeated("crc") : stages = <<"load">> \o checks
    <3>1. JobPlan("verify") = {<<"load">> \o checks : checks \in Repeated("crc")}
      BY Zenon DEF JobPlan
    <3> QED
      BY <1>8, <3>1, Zenon
  <2> QED
    BY <1>2, <1>3, <1>4, <2>1, Joined, Zenon
<1>9. CASE job = "read"
  <2>1. PICK blocks \in Repeated("block") : stages = <<"load">> \o blocks
    <3>1. JobPlan("read") = {<<"load">> \o blocks : blocks \in Repeated("block")}
      BY Zenon DEF JobPlan
    <3> QED
      BY <1>9, <3>1, Zenon
  <2> QED
    BY <1>2, <1>3, <1>4, <2>1, Joined, Zenon
<1> QED
  BY <1>1, <1>5, <1>6, <1>7, <1>8, <1>9

\* pic32prog is started.
LEMMA BeginFits ==
  ASSUME IInv, NEW m \in Modes, NEW job \in Jobs, Begin(m, job)
  PROVE  IInv'
<1>1. stage = "off" /\ todo = <<>> /\ ~ target /\ ~ dev.missed
  BY DEF IInv, Begin, TodoFits, MissedFits, Later
<1>2. PICK stages \in Seq(Later) : plan' = <<"open", "status", "identify">> \o stages
  BY JobsLater, Zenon DEF Begin
<1>3. PlanFits'
  <2>1. Later \subseteq Stages /\ "open" \in Stages /\ "status" \in Stages
        /\ "identify" \in Stages
    BY DEF Later, Stages
  <2>2. PICK first : first = <<"open", "status", "identify">>
    OBVIOUS
  <2>3. first \in Seq(Stages) /\ stages \in Seq(Stages)
    <3>1. first \in Seq(Stages)
      BY <2>1, <2>2, Tuples, Zenon
    <3>2. stages \in Seq(Stages)
      BY <2>1
    <3> QED
      BY <3>1, <3>2
  <2>4. Len(first) = 3 /\ first[1] = "open" /\ first[2] = "status"
        /\ first[3] = "identify"
    BY <2>2
  <2>5. /\ plan' \in Seq(Stages) /\ Len(plan') = Len(first) + Len(stages)
        /\ \A i \in 1 .. Len(first) + Len(stages) :
               plan'[i] = IF i <= Len(first) THEN first[i] ELSE stages[i - Len(first)]
    <3>1. plan' = first \o stages
      BY <1>2, <2>2, Zenon
    <3> QED
      BY <2>3, <3>1, ConcatProperties, Zenon
  <2>6. /\ Len(plan') >= 3 /\ plan'[1] = "open" /\ plan'[2] = "status"
        /\ plan'[3] = "identify" /\ \A i \in 4 .. Len(plan') : plan'[i] \in Later
    <3>1. Len(stages) \in Nat /\ \A i \in 1 .. Len(stages) : stages[i] \in Later
      OBVIOUS
    <3> QED
      BY <2>4, <2>5, <3>1
  <2>7. stage' = "start"
    BY DEF Begin
  <2> QED
    BY <2>5, <2>6, <2>7 DEF PlanFits, Later
<1>4. adapter = "usbpic" => mode' \in {"JTAG", "ICSP"}
  BY SessionAssumption DEF Begin
<1>5. TypeOK'
  <2>1. mode' \in Modes \cup {"ICSP", "none"} /\ stage' \in Stages
    BY DEF Begin, Stages
  <2> QED
    BY <2>1 DEF TypeOK, IInv, Begin
<1>6. TodoFits' /\ MissedFits' /\ TargetFits'
  BY <1>1 DEF TodoFits, MissedFits, TargetFits, Begin, Later, IInv
<1> QED
  BY <1>1, <1>3, <1>4, <1>5, <1>6 DEF IInv, Begin

\* On to the next stage.
LEMMA ProceedFits ==
  ASSUME IInv, Proceed
  PROVE  IInv'
<1>1. PICK name : name = IF plan = <<>> THEN "close" ELSE Head(plan)
  OBVIOUS
<1>2. /\ Enter(name) /\ Working /\ todo = <<>> /\ polls' = 0
      /\ plan' = IF plan = <<>> THEN <<>> ELSE Tail(plan)
      /\ target' = (target \/ stage = "identify")
  BY <1>1, Zenon DEF Proceed
<1>3. stage' = name
  BY <1>2 DEF Enter
<1>4. PlanFits /\ stage \in {"start", "open", "status", "identify"} \cup Later
  BY <1>2 DEF IInv, Working, TypeOK, Stages, Later
<1>5. plan # <<>> => /\ name = plan[1] /\ Len(plan) >= 1
                     /\ Len(plan') = Len(plan) - 1
                     /\ \A i \in 1 .. Len(plan') : plan'[i] = plan[i + 1]
                     /\ plan' \in Seq(Stages)
  BY <1>1, <1>2, <1>4, HeadTailProperties DEF PlanFits
<1>6. CASE stage = "start"
  <2>1. plan # <<>> /\ name = "open"
    BY <1>4, <1>5, <1>6 DEF PlanFits
  <2>2. PlanFits'
    BY <1>3, <1>4, <1>5, <1>6, <2>1, SMTT(40) DEF PlanFits, Later
  <2>3. Ready(name) /\ ~ target'
    BY <1>2, <1>6, <2>1 DEF Ready, IInv, Later
  <2>4. name \in Stages \ {"off", "start"} /\ outcome = "none"
    BY <1>2, <2>1 DEF Stages, Working
  <2> QED
    BY <1>2, <2>2, <2>3, <2>4, EnterFits
<1>7. CASE stage = "open"
  <2>1. plan # <<>> /\ name = "status"
    BY <1>4, <1>5, <1>7 DEF PlanFits
  <2>2. PlanFits'
    BY <1>3, <1>4, <1>5, <1>7, <2>1 DEF PlanFits, Later
  <2>3. Ready(name) /\ ~ target'
    BY <1>2, <1>7, <2>1, Drained DEF Ready, IInv, Later
  <2>4. name \in Stages \ {"off", "start"} /\ outcome = "none"
    BY <1>2, <2>1 DEF Stages, Working
  <2> QED
    BY <1>2, <2>2, <2>3, <2>4, EnterFits
<1>8. CASE stage = "status"
  <2>1. plan # <<>> /\ name = "identify"
    BY <1>4, <1>5, <1>8 DEF PlanFits
  <2>2. PlanFits'
    BY <1>3, <1>4, <1>5, <1>8, <2>1 DEF PlanFits, Later
  <2>3. Ready(name) /\ ~ target'
    BY <1>2, <1>8, <2>1, Drained DEF Ready, IInv, Later
  <2>4. name \in Stages \ {"off", "start"} /\ outcome = "none"
    BY <1>2, <2>1 DEF Stages, Working
  <2> QED
    BY <1>2, <2>2, <2>3, <2>4, EnterFits
<1>9. CASE stage \in {"identify"} \cup Later
  <2>1. plan \in Seq(Later) /\ name \in Later \cup {"close"}
    BY <1>1, <1>4, <1>5, <1>9 DEF PlanFits
  <2>2. PlanFits'
    <3>1. plan' \in Seq(Later) /\ Later \subseteq Stages
      BY <1>2, <2>1, HeadTailProperties DEF Later, Stages
    <3> QED
      BY <1>3, <2>1, <3>1 DEF PlanFits, Later
  <2>3. Ready(name)
    BY <1>2, <1>9, Drained DEF Ready
  <2>4. name \in Stages \ {"off", "start"} /\ outcome = "none"
    BY <1>2, <2>1 DEF Stages, Working, Later
  <2> QED
    BY <1>2, <2>1, <2>2, <2>3, <2>4, EnterFits
<1> QED
  BY <1>4, <1>6, <1>7, <1>8, <1>9

\* The erase is asked after once more.
LEMMA PollFits ==
  ASSUME IInv, Poll
  PROVE  IInv'
<1>1. /\ stage = "erase" /\ todo = <<>> /\ adapter \in {"usbpic", "ascii"}
      /\ polls' = polls + 1 /\ polls + 1 < MaxPolls /\ todo' = PollAgain
      /\ UNCHANGED <<adapter, dev, stage, plan, mode, target, outcome>>
  BY DEF Poll, Polling, IInv
<1>2. PollAgain \in Seq(WorkCommands(adapter))
  <2>1. CASE adapter = "usbpic"
    <3>1. MtapCommand(0) \in HeldCommands
      BY CalmUsed, Packets, Zenon
    <3>2. <<MtapCommand(0)>> \in Seq(HeldCommands)
      BY <3>1, Tuples, Zenon
    <3>3. PollAgain = <<MtapCommand(0)>>
      BY <2>1, Zenon DEF PollAgain
    <3>4. adapter \in {"usbpic", "pickit", "ascii"}
      BY <2>1
    <3> QED
      BY <3>2, <3>3, <3>4, WorkCalm, Zenon
  <2>2. CASE adapter = "ascii"
    <3>1. Mchp(0, TRUE) \in CalmCommands
      BY SerialUsed, Packets, Zenon
    <3>2. <<Mchp(0, TRUE)>> \in Seq(CalmCommands)
      BY <3>1, Tuples, Zenon
    <3>3. PollAgain = <<Mchp(0, TRUE)>>
      BY <2>2, Zenon DEF PollAgain
    <3>4. WorkCommands(adapter) = CalmCommands
      BY <2>2, Zenon DEF WorkCommands
    <3> QED
      BY <3>2, <3>3, <3>4
  <2> QED
    BY <1>1, <2>1, <2>2
<1>3. InStep(dev) /\ (adapter = "usbpic" => dev.inPgmMode) /\ ~ dev.missed
  BY <1>1, Drained DEF Later, IInv, MissedFits
<1>4. TypeOK'
  BY <1>1, SessionAssumption DEF TypeOK, IInv
<1>5. PlanFits'
  BY <1>1 DEF PlanFits, IInv
<1>6. TodoFits'
  BY <1>1, <1>2, <1>3 DEF TodoFits, Later
<1>7. MissedFits' /\ TargetFits'
  BY <1>1, <1>3 DEF MissedFits, TargetFits, IInv
<1> QED
  BY <1>1, <1>4, <1>5, <1>6, <1>7 DEF IInv

\* Letting go, from any stage in which that is possible.
LEMMA LeaveFits ==
  ASSUME IInv, outcome = "none", NEW name \in {"close", "reject"}, Enter(name),
         name = "close" /\ adapter = "ascii" => InStep(dev),
         plan' = <<>>, target' = FALSE, polls' = 0
  PROVE  IInv'
<1>1. stage' = name
  BY DEF Enter
<1>2. PlanFits'
  BY <1>1 DEF PlanFits, Later
<1>3. Ready(name)
  BY DEF Ready, Later
<1>4. name \in Stages \ {"off", "start"}
  BY DEF Stages
<1> QED
  BY <1>2, <1>3, <1>4, EnterFits

\* In the later stages the port is in step.
LEMMA LaterInStep ==
  ASSUME IInv, stage \in {"identify"} \cup Later
  PROVE  InStep(dev)
BY DEF IInv, TodoFits

\* A reply is not the one wanted.
LEMMA FailFits ==
  ASSUME IInv, Fail
  PROVE  IInv'
<1>1. outcome = "none" /\ stage \notin {"close", "reject"}
  BY DEF Fail, Working
<1>2. stage \in {"open", "status", "identify"} \cup Later
  <2>1. stage \notin {"off", "start"}
    BY DEF Fail, Looking, Polling, IInv, TodoFits
  <2> QED
    BY <1>1, <2>1 DEF IInv, TypeOK, Stages, Later
<1>3. CASE adapter = "pickit" /\ stage = "open"
  <2>1. End("abandoned")
    BY <1>3 DEF Fail
  <2> QED
    BY <2>1, EndFits
<1>4. CASE ~ (adapter = "pickit" /\ stage = "open")
  <2>1. PICK name \in {"close", "reject"} :
            name = IF stage \in {"open", "status"} THEN "reject" ELSE "close"
    OBVIOUS
  <2>2. Enter(name) /\ plan' = <<>> /\ target' = FALSE /\ polls' = 0
    BY <1>4, <2>1, Zenon DEF Fail
  <2>3. name = "close" => InStep(dev)
    BY <1>2, <2>1, LaterInStep
  <2> QED
    BY <1>1, <2>2, <2>3, LeaveFits
<1> QED
  BY <1>3, <1>4

\* A transfer ends the program.
LEMMA AbortFits ==
  ASSUME IInv, Abort
  PROVE  IInv'
<1>1. CASE target
  <2>1. outcome = "none" /\ stage \in Later
    BY <1>1 DEF Abort, Working, IInv
  <2>2. InStep(dev)
    BY <2>1, LaterInStep
  <2>3. Enter("close") /\ plan' = <<>> /\ target' = FALSE /\ polls' = 0
    BY <1>1 DEF Abort
  <2> QED
    BY <2>1, <2>2, <2>3, LeaveFits
<1>2. CASE ~ target
  <2>1. End("aborted")
    BY <1>2 DEF Abort
  <2> QED
    BY <2>1, EndFits
<1> QED
  BY <1>1, <1>2

\* The commands at which a port falls in step.
LEMMA ResettingEffect ==
  ASSUME NEW d, Whole(d), NEW who \in {"pickit", "ascii"}, NEW c, c = Resetting(who),
         NEW e \in Effect(d, c)
  PROVE  /\ Whole(e) /\ e.missed = d.missed /\ InStep(e) /\ SameTarget(d, e)
         /\ SameMode(d, e)
         /\ who = "pickit" => /\ e.asserted => d.asserted
                              /\ ~ Reaches(e) => e.tap = d.tap
<1>1. CASE who = "pickit" /\ c = Head(pickit_enter)
  <2>1. PICK s1, s2, s3, s5, s7, s8, s9, s10 :
            /\ s1 = ClearUpload /\ s2 = Do("Ground", 0) /\ s3 = Do("Raise", 0)
            /\ s5 = Do("Signature", 0) /\ s7 = Reset5 /\ s8 = Instr(SW_MTAP)
            /\ s9 = Instr(COMMAND) /\ s10 = Read8(0)
    BY Zenon
  <2>2. PICK steps : steps = <<s1, s2, s3, s2, s5, s3, s7, s8, s9, s10>>
    OBVIOUS
  <2>3. c = Packet(steps)
    <3>1. PICK a, f, g, h, i :
              /\ a = Packet(<<ClearUpload, Do("Ground", 0), Do("Raise", 0),
                              Do("Ground", 0), Do("Signature", 0), Do("Raise", 0),
                              Reset5, Instr(SW_MTAP), Instr(COMMAND), Read8(0)>>)
              /\ f = Receive /\ g = ExpectBytes(1) /\ h = Expect("status")
              /\ i = Expect("unprotected")
      BY Zenon
    <3>2. pickit_enter = <<a, f, g, h, i>>
      BY <3>1, Zenon DEF pickit_enter
    <3>3. Head(pickit_enter) = a
      BY <3>2
    <3> QED
      BY <1>1, <2>1, <2>2, <3>1, <3>3, Zenon
  <2>4. c.op = "Packet" /\ c.arg = steps
    BY <2>3 DEF Packet, Do
  <2>5. s1 \in PinSteps /\ s2 \in PinSteps /\ s3 \in PinSteps /\ s5 \in PinSteps
    <3>1. s1 \in LineSteps /\ s2 \in LineSteps /\ s3 \in LineSteps /\ s5 \in LineSteps
      <4>1. 0 \in Nat
        OBVIOUS
      <4> QED
        BY <2>1, <4>1, SpareUsed, Zenon
    <3>2. /\ s1.op = "ClearUpload" /\ s2.op = "Ground" /\ s3.op = "Raise"
          /\ s5.op = "Signature"
      BY <2>1 DEF ClearUpload, Do
    <3> QED
      BY <3>1, <3>2 DEF PinSteps, LineSteps
  <2>6. s8 \in Echoing /\ s9 \in Echoing /\ s10 \in Echoing
    <3>1. s8 \in HeldSteps /\ s9 \in HeldSteps /\ s10 \in HeldSteps
      BY <2>1, CalmUsed, PickitUsed, Zenon
    <3>2. s8.op = "SendCommand" /\ s9.op = "SendCommand" /\ s10.op = "XferData8"
      BY <2>1 DEF Instr, Read8, Do
    <3> QED
      BY <3>1, <3>2 DEF Echoing
  <2>7. /\ 10 = Len(steps) /\ 7 \in 1 .. 10
        /\ \A i \in 1 .. 7 - 1 : steps[i] \in PinSteps
        /\ steps[7] = Do("SetMode", 6)
        /\ \A i \in 7 + 1 .. 10 : steps[i] \in Echoing
    <3>1. s7 = Do("SetMode", 6)
      BY <2>1, Zenon DEF Reset5
    <3> QED
      BY <2>2, <2>5, <2>6, <3>1
  <2> QED
    <3>1. PICK n, k : n = 10 /\ k = 7
      OBVIOUS
    <3>2. n \in Nat /\ k \in 1 .. n
      BY <3>1
    <3>3. /\ n = Len(steps) /\ \A i \in 1 .. k - 1 : steps[i] \in PinSteps
          /\ steps[k] = Do("SetMode", 6) /\ \A i \in k + 1 .. n : steps[i] \in Echoing
      BY <2>7, <3>1
    <3>4. /\ Spared(d, e) /\ SameMode(d, e) /\ InStep(e)
          /\ (~ Reaches(e) => e.tap = d.tap)
      BY <2>4, <3>2, <3>3, ResetEffect, ZenonT(40)
    <3> QED
      BY <3>4 DEF Spared
<1>2. CASE who = "ascii" /\ c = Send(6, 31, Word, TRUE, 0)
  <2>1. PICK send : send = [nTms |-> 6, tms |-> 31, data |-> Word, read |-> TRUE,
                            word |-> 0]
    OBVIOUS
  <2>2. c = Do("Bitbang", send)
    BY <1>2, <2>1, Zenon DEF Send
  <2>3. c.op = "Bitbang" /\ c.arg = send
    BY <2>2 DEF Do
  <2>4. c \in CalmSteps
    BY <1>2, SerialUsed, Zenon
  <2>5. send \in CalmSends
    BY <2>3, <2>4, CalmIs DEF Numbered
  <2>6. send.nTms = 6 /\ send.tms = 31 /\ send.data = Word
    BY <2>1
  <2> QED
    BY <1>2, <2>2, <2>5, <2>6, ResetWordEffect, Zenon
<1> QED
  BY <1>1, <1>2 DEF Resetting

\* A command for a port in step keeps it there, and but with the serial adapter the
\* pins as they are.
LEMMA WorkEffect ==
  ASSUME NEW d, Whole(d), InStep(d), NEW a \in {"usbpic", "pickit", "ascii"},
         a = "usbpic" => d.inPgmMode, a # "ascii" => ~ d.asserted,
         NEW c \in WorkCommands(a), NEW e \in Effect(d, c)
  PROVE  /\ Keeps(d, e)
         /\ a # "ascii" => SamePins(d, e) /\ ~ e.asserted
<1>1. CASE c \in HeldCommands
  <2>1. Handles(d, e)
    BY <1>1, HeldEffect
  <2>2. Keeps(d, e)
    BY <2>1, KeepsOf DEF Handles
  <2> QED
    BY <2>1, <2>2 DEF Handles, Calms
<1>2. CASE a = "usbpic" /\ c \in SerialCommands
  <2>1. PICK k : c = Do("SerialExecutionMode", k)
    BY <1>2 DEF SerialCommands, Do
  <2>2. Keeps(d, e) /\ Handles(d, e)
    BY <1>2, <2>1, SerialEffect
  <2> QED
    BY <1>2, <2>2 DEF Handles, Calms
<1>3. CASE a = "pickit" /\ c \in Releasing
  <2>1. c.op = "Packet" /\ c.arg \in Seq(MtapSteps)
    BY <1>3 DEF Releasing
  <2>2. PICK steps, n : steps = c.arg /\ n = Len(c.arg)
    OBVIOUS
  <2>3. PICK k \in 1 .. n :
            /\ k + 2 <= n /\ steps[k] = Instr(SW_MTAP) /\ steps[k + 1] = Instr(COMMAND)
            /\ steps[k + 2] = Read8(208) /\ \A i \in k + 3 .. n : steps[i] \in HeldSteps
    BY <1>3, <2>2, Zenon DEF Releasing
  <2>4. /\ n \in Nat /\ n = Len(steps) /\ \A i \in 1 .. n : steps[i] \in MtapSteps
    BY <2>1, <2>2
  <2>5. /\ steps[k] = Do("SendCommand", SW_MTAP)
        /\ steps[k + 1] = Do("SendCommand", COMMAND)
        /\ steps[k + 2] = Do("XferData8", 208)
    BY <2>3, Zenon DEF Instr, Read8
  <2>6. ~ d.asserted
    BY <1>3
  <2>7. Calms(d, e) /\ ~ e.asserted
    BY <2>1, <2>2, <2>3, <2>4, <2>5, <2>6, ReleasingEffect, ZenonT(60)
  <2> QED
    BY <2>7, KeepsOf DEF Calms
<1>4. CASE a = "ascii" /\ c \in CalmCommands
  BY <1>4, CalmEffect
<1>5. /\ WorkCommands("usbpic") = HeldCommands \cup SerialCommands
      /\ WorkCommands("pickit") = HeldCommands \cup Releasing
      /\ WorkCommands("ascii") = CalmCommands
  BY Zenon DEF WorkCommands
<1> QED
  BY <1>1, <1>2, <1>3, <1>4, <1>5

\* What a command finds and leaves: a look at a reply keeps the device as it is.
LEMMA PerformIs ==
  ASSUME Whole(dev), Perform
  PROVE  \E d : /\ Whole(d) /\ d.wireMode = dev.wireMode
                /\ d.inPgmMode = dev.inPgmMode /\ (InStep(dev) => InStep(d))
                /\ Alike(dev, d)
                /\ \/ /\ d.missed = FALSE /\ dev' \in Effect(d, Head(todo))
                      /\ d.tap.scans = <<>>
                      /\ Head(todo).op \notin Looks
                   \/ /\ Head(todo).op \in Looks
                      /\ d = dev' /\ d.missed = dev.missed /\ d.tap = dev.tap
<1>1. PICK c : c = Head(todo)
  OBVIOUS
<1>2. dev' \in CASE c.op = "ReadStatus" -> {StatusRead(dev, c.arg)}
                 [] c.op \in Looks \ {"ReadStatus"} -> {dev}
                 [] c.op \notin Looks -> Effect(Fresh(dev), c)
  BY <1>1, Zenon DEF Perform
<1>3. CASE c.op = "ReadStatus"
  <2>1. dev' = StatusRead(dev, c.arg)
    BY <1>2, <1>3, Zenon DEF Looks
  <2>2. /\ Keeps(dev, dev') /\ dev'.missed = dev.missed /\ (InStep(dev) => InStep(dev'))
        /\ SamePins(dev, dev') /\ dev'.PMCLR = dev.PMCLR /\ dev'.asserted = dev.asserted
        /\ dev'.cpu = dev.cpu /\ dev'.tap = dev.tap
    <3>1. StatusOf(dev, c.arg, dev')
      BY <2>1, StatusReads, Zenon
    <3> QED
      BY <3>1 DEF StatusOf
  <2>3. Alike(dev, dev') /\ dev'.tap = dev.tap
    BY <2>2 DEF Alike
  <2>4. c.op \in Looks
    BY <1>3 DEF Looks
  <2> QED
    BY <1>1, <2>2, <2>3, <2>4 DEF Keeps
<1>4. CASE c.op \in Looks /\ c.op # "ReadStatus"
  <2>1. dev' = dev
    <3>1. /\ ~ (c.op = "ReadStatus") /\ c.op \in Looks \ {"ReadStatus"}
          /\ ~ (c.op \notin Looks)
      BY <1>4
    <3> QED
      BY <1>2, <3>1, Zenon
  <2>2. Alike(dev, dev')
    BY <2>1 DEF Alike, SamePins
  <2> QED
    BY <1>1, <1>4, <2>1, <2>2
<1>5. CASE c.op \notin Looks
  <2>1. dev' \in Effect(Fresh(dev), c)
    <3>1. ~ (c.op = "ReadStatus") /\ ~ (c.op \in Looks \ {"ReadStatus"})
      BY <1>5 DEF Looks
    <3> QED
      BY <1>2, <1>5, <3>1, Zenon
  <2> QED
    BY <1>1, <1>5, <2>1, FreshKeeps, Zenon
<1> QED
  BY <1>3, <1>4, <1>5

\* A command for a port in step, in a session.
LEMMA WorkPerform ==
  ASSUME Whole(dev), Perform, InStep(dev), ~ dev.missed,
         NEW a \in {"usbpic", "pickit", "ascii"}, Head(todo) \in WorkCommands(a),
         a = "usbpic" => dev.inPgmMode, a # "ascii" => ~ dev.asserted
  PROVE  /\ Whole(dev') /\ InStep(dev') /\ ~ dev'.missed
         /\ SameMode(dev, dev') /\ SameTarget(dev, dev')
         /\ a # "ascii" => SamePins(dev, dev') /\ ~ dev'.asserted
<1>1. PICK d : /\ Whole(d) /\ (InStep(dev) => InStep(d)) /\ Alike(dev, d)
               /\ \/ d.missed = FALSE /\ dev' \in Effect(d, Head(todo))
                  \/ d = dev' /\ d.missed = dev.missed
  BY PerformIs
<1>2. /\ SamePins(dev, d) /\ SameMode(dev, d) /\ SameTarget(dev, d)
      /\ d.asserted = dev.asserted /\ d.inPgmMode = dev.inPgmMode
  BY <1>1 DEF Alike, SamePins, SameMode, SameTarget
<1>3. CASE d.missed = FALSE /\ dev' \in Effect(d, Head(todo))
  <2>1. /\ Keeps(d, dev')
        /\ a # "ascii" => SamePins(d, dev') /\ ~ dev'.asserted
    <3>1. InStep(d) /\ (a = "usbpic" => d.inPgmMode) /\ (a # "ascii" => ~ d.asserted)
      BY <1>1, <1>2
    <3> QED
      BY <1>1, <1>3, <3>1, WorkEffect
  <2>2. SameMode(dev, dev') /\ SameTarget(dev, dev')
    BY <1>2, <2>1 DEF Keeps, SameMode, SameTarget
  <2>3. a # "ascii" => SamePins(dev, dev')
    BY <1>2, <2>1 DEF SamePins
  <2> QED
    BY <1>1, <1>3, <2>1, <2>2, <2>3 DEF Keeps
<1> QED
  BY <1>1, <1>2, <1>3

\* A sparing command, in a session.
LEMMA SparePerform ==
  ASSUME Whole(dev), Perform, ~ dev.missed,
         Head(todo) \in IF adapter = "usbpic" THEN SpareCommands ELSE LineCommands
  PROVE  Whole(dev') /\ ~ dev'.missed /\ Stays(dev, dev')
<1>1. PICK d : /\ Whole(d) /\ Alike(dev, d)
               /\ \/ d.missed = FALSE /\ dev' \in Effect(d, Head(todo))
                  \/ d = dev' /\ d.missed = dev.missed
  BY PerformIs
<1>2. /\ SameMode(dev, d) /\ SameTarget(dev, d) /\ d.asserted = dev.asserted
      /\ Stays(dev, d)
  BY <1>1, AlikeStays DEF Alike, SamePins, SameMode, SameTarget
<1>3. CASE d.missed = FALSE /\ dev' \in Effect(d, Head(todo))
  <2>1. Spared(d, dev') /\ (adapter # "usbpic" => SameMode(d, dev'))
    <3>1. CASE adapter = "usbpic"
      BY <1>1, <1>3, <3>1, SpareEffect
    <3>2. CASE adapter # "usbpic"
      BY <1>1, <1>3, <3>2, LineEffect
    <3> QED
      BY <3>1, <3>2
  <2>2. Stays(dev, dev')
    BY <1>2, <2>1 DEF Stays, Spared, SameTarget, SameMode
  <2> QED
    BY <1>3, <2>1, <2>2 DEF Spared
<1> QED
  BY <1>1, <1>2, <1>3

\* The command at which the port falls in step, in a session.
LEMMA ResetPerform ==
  ASSUME Whole(dev), Perform, adapter \in {"pickit", "ascii"},
         Head(todo) = Resetting(adapter)
  PROVE  /\ Whole(dev') /\ InStep(dev') /\ ~ dev'.missed /\ Stays(dev, dev')
         /\ adapter = "pickit" /\ ~ Reaches(dev') => dev'.tap.scans = <<>>
<1>1. PICK d : /\ Whole(d) /\ Alike(dev, d)
               /\ \/ /\ d.missed = FALSE /\ dev' \in Effect(d, Head(todo))
                     /\ d.tap.scans = <<>>
                  \/ Head(todo).op \in Looks
  BY PerformIs
<1>2. Head(todo).op \notin Looks
  <2>1. CASE Head(todo) = Send(6, 31, Word, TRUE, 0)
    <3>1. Head(todo).op = "Bitbang"
      BY <2>1 DEF Send, Do
    <3> QED
      BY <3>1 DEF Looks
  <2>2. CASE Head(todo) = Head(pickit_enter)
    <3>1. PICK a, f, g, h, i, s :
              /\ s = <<ClearUpload, Do("Ground", 0), Do("Raise", 0),
                       Do("Ground", 0), Do("Signature", 0), Do("Raise", 0),
                       Reset5, Instr(SW_MTAP), Instr(COMMAND), Read8(0)>>
              /\ a = Packet(s) /\ f = Receive /\ g = ExpectBytes(1)
              /\ h = Expect("status") /\ i = Expect("unprotected")
      BY Zenon
    <3>2. pickit_enter = <<a, f, g, h, i>>
      BY <3>1, Zenon DEF pickit_enter
    <3>3. Head(pickit_enter) = a
      BY <3>2
    <3>4. a.op = "Packet"
      BY <3>1 DEF Packet, Do
    <3> QED
      BY <2>2, <3>3, <3>4 DEF Looks
  <2> QED
    BY <2>1, <2>2 DEF Resetting
<1>3. /\ SameMode(dev, d) /\ SameTarget(dev, d) /\ d.asserted = dev.asserted
  BY <1>1 DEF Alike, SamePins, SameMode, SameTarget
<1>4. /\ d.missed = FALSE /\ dev' \in Effect(d, Head(todo)) /\ d.tap.scans = <<>>
  BY <1>1, <1>2
<1>5. /\ Whole(dev') /\ dev'.missed = d.missed /\ InStep(dev') /\ SameTarget(d, dev')
      /\ SameMode(d, dev')
      /\ adapter = "pickit" => /\ dev'.asserted => d.asserted
                               /\ ~ Reaches(dev') => dev'.tap = d.tap
  BY <1>1, <1>4, ResettingEffect
<1>6. Stays(dev, dev')
  BY <1>3, <1>5 DEF Stays, SameTarget, SameMode
<1> QED
  BY <1>4, <1>5, <1>6

\* One command of the entry of the usbpic driver.
LEMMA OpeningFits ==
  ASSUME IInv, stage = "open", adapter = "usbpic", Perform
  PROVE  Whole(dev') /\ Opening' /\ MissedFits' /\ TargetFits'
<1>1. /\ Whole(dev) /\ Opening /\ MissedFits /\ mode \in {"JTAG", "ICSP"}
      /\ TargetFits /\ ~ dev.asserted
  BY DEF IInv, TodoFits, TargetFits
<1>2. /\ mode' = mode /\ stage' = "open" /\ adapter' = "usbpic"
      /\ last' = Head(todo) /\ todo' = Tail(todo)
  BY Zenon DEF Perform
<1>3. PICK d : /\ Whole(d) /\ d.wireMode = dev.wireMode
               /\ d.inPgmMode = dev.inPgmMode /\ (InStep(dev) => InStep(d))
               /\ Alike(dev, d)
               /\ \/ d.missed = FALSE /\ dev' \in Effect(d, Head(todo))
                  \/ Head(todo).op \in Looks
  BY <1>1, PerformIs
<1>4. PICK b, c, s, w, x :
          /\ b = Do("SetupIOPorts", 1) /\ c = Do("EnterPgmMode", 0) /\ s = Reset5
          /\ w = ReadWord /\ x = Expect("idcode")
  BY Zenon
<1>11. SameTarget(dev, d) /\ d.asserted = dev.asserted
  BY <1>3 DEF Alike, SamePins, SameTarget
<1>12. SameTarget(d, dev') /\ (dev'.asserted => d.asserted) => TargetFits'
  BY <1>1, <1>2, <1>11, TargetKept DEF Stays, SameTarget
<1>5. b.op = "SetupIOPorts" /\ c.op = "EnterPgmMode" /\ s.op = "SetMode"
  BY <1>4 DEF Do, Reset5
<1>6. CASE todo = adapter_open_usbpic(mode)
  <2>1. PICK k \in {1, 2} : k = IF mode = "ICSP" THEN 1 ELSE 2
    OBVIOUS
  <2>2. PICK a : a = Do("SetWiresMode", k)
    OBVIOUS
  <2>3. todo = <<a, b, c, s, w, x>>
    BY <1>4, <1>6, <2>1, <2>2, Zenon DEF adapter_open_usbpic
  <2>4. Head(todo) = a /\ Tail(todo) = <<b, c, s, w, x>>
    BY <2>3
  <2>5. a.op = "SetWiresMode"
    BY <2>2 DEF Do
  <2>6. d.missed = FALSE /\ dev' \in Effect(d, a)
    BY <1>3, <2>4, <2>5 DEF Looks
  <2>7. Whole(dev') /\ dev'.missed = FALSE /\ dev'.wireMode = mode /\ TargetFits'
    <3>1. Spared(d, dev') /\ dev'.wireMode = IF k = 1 THEN "ICSP" ELSE "JTAG"
      BY <1>3, <2>2, <2>6, WiresEffect, Zenon
    <3> QED
      BY <1>1, <1>12, <2>1, <2>6, <3>1 DEF Spared
  <2>8. Opening'
    BY <1>2, <1>4, <2>4, <2>7, Zenon DEF Opening
  <2> QED
    BY <2>7, <2>8 DEF MissedFits
<1>7. CASE dev.wireMode = mode /\ todo = <<b, c, s, w, x>>
  <2>1. Head(todo) = b /\ Tail(todo) = <<c, s, w, x>>
    BY <1>7
  <2>2. d.missed = FALSE /\ dev' \in Effect(d, b)
    BY <1>3, <1>5, <2>1 DEF Looks
  <2>3. Whole(dev') /\ dev'.missed = FALSE /\ dev'.wireMode = mode /\ TargetFits'
    <3>1. Spared(d, dev') /\ SameMode(d, dev')
      BY <1>3, <1>4, <2>2, SetupEffect, Zenon
    <3> QED
      BY <1>3, <1>7, <1>12, <2>2, <3>1 DEF Spared, SameMode
  <2>4. Opening'
    BY <1>2, <1>4, <2>1, <2>3, Zenon DEF Opening
  <2> QED
    BY <2>3, <2>4 DEF MissedFits
<1>8. CASE dev.wireMode = mode /\ todo = <<c, s, w, x>>
  <2>1. Head(todo) = c /\ Tail(todo) = <<s, w, x>>
    BY <1>8
  <2>2. d.missed = FALSE /\ dev' \in Effect(d, c)
    BY <1>3, <1>5, <2>1 DEF Looks
  <2>3. /\ Whole(dev') /\ dev'.inPgmMode
        /\ d.wireMode = "ICSP" => dev'.missed = d.missed
        /\ SameTarget(d, dev') /\ (dev'.asserted => d.asserted)
    BY <1>3, <1>4, <2>2, EntryEffect
  <2>4. Opening'
    BY <1>2, <1>4, <2>1, <2>3, Zenon DEF Opening
  <2>5. dev'.missed => mode = "JTAG"
    BY <1>1, <1>3, <1>8, <2>2, <2>3
  <2>6. todo' = <<Reset5, ReadWord, Expect("idcode")>>
    BY <1>2, <1>4, <2>1, Zenon
  <2> QED
    BY <1>2, <1>5, <1>12, <2>1, <2>3, <2>4, <2>5, <2>6, Zenon DEF MissedFits
<1>9. CASE dev.inPgmMode /\ todo = <<s, w, x>>
  <2>1. Head(todo) = s /\ Tail(todo) = <<w, x>>
    BY <1>9
  <2>2. d.missed = FALSE /\ dev' \in Effect(d, s)
    BY <1>3, <1>5, <2>1 DEF Looks
  <2>3. /\ Whole(dev') /\ dev'.missed = d.missed /\ InStep(dev')
        /\ dev'.inPgmMode = d.inPgmMode /\ TargetFits'
    <3>1. Spared(d, dev') /\ SameMode(d, dev') /\ InStep(dev')
      BY <1>3, <1>4, <2>2, Reset5Effect, Zenon
    <3> QED
      BY <1>12, <3>1 DEF Spared, SameMode
  <2>4. <<w, x>> \in Seq(HeldCommands)
    BY <1>4, CalmUsed, Packets, Tuples, Zenon
  <2>5. Opening'
    BY <1>2, <1>3, <1>9, <2>1, <2>3, <2>4, Zenon DEF Opening
  <2> QED
    BY <2>2, <2>3, <2>5 DEF MissedFits
<1>10. CASE dev.inPgmMode /\ InStep(dev) /\ todo \in Seq(HeldCommands)
  <2>1. todo # <<>>
    BY Zenon DEF Perform
  <2>2. Head(todo) \in HeldCommands /\ Tail(todo) \in Seq(HeldCommands)
    BY <1>10, <2>1, HeadTailProperties
  <2>3. CASE dev.missed
    <3>1. todo = <<s, w, x>>
      BY <1>1, <1>4, <2>3, Zenon DEF MissedFits
    <3> QED
      BY <1>9, <1>10, <3>1
  <2>4. CASE ~ dev.missed
    <3>1. PICK a \in {"usbpic", "pickit", "ascii"} : a = "usbpic"
      OBVIOUS
    <3>4. Head(todo) \in WorkCommands(a)
      BY <2>2, WorkCalm
    <3>5. /\ Whole(dev') /\ InStep(dev') /\ ~ dev'.missed
          /\ SameMode(dev, dev') /\ SameTarget(dev, dev') /\ ~ dev'.asserted
      BY <1>1, <1>10, <2>4, <3>1, <3>4, WorkPerform
    <3>2. /\ Whole(dev') /\ InStep(dev') /\ ~ dev'.missed
          /\ dev'.inPgmMode = dev.inPgmMode /\ TargetFits'
      BY <1>1, <1>2, <3>5, TargetKept DEF Stays, SameMode
    <3>3. Opening'
      BY <1>2, <1>10, <2>2, <3>2 DEF Opening
    <3> QED
      BY <3>2, <3>3 DEF MissedFits
  <2> QED
    BY <2>3, <2>4
<1> QED
  BY <1>1, <1>4, <1>6, <1>7, <1>8, <1>9, <1>10, Zenon DEF Opening

\* One command of a script that begins out of step or goes on in step.
LEMMA EntryFits ==
  ASSUME Whole(dev), ~ dev.missed, Perform, adapter \in {"pickit", "ascii"},
         adapter # "ascii" => ~ dev.asserted,
         Resets(adapter, todo) \/ (InStep(dev) /\ todo \in Seq(HeldCommands))
  PROVE  /\ Whole(dev') /\ ~ dev'.missed /\ Stays(dev, dev')
         /\ Resets(adapter, todo') \/ (InStep(dev') /\ todo' \in Seq(HeldCommands))
<1>1. todo # <<>> /\ todo' = Tail(todo)
  BY Zenon DEF Perform
<1>2. CASE InStep(dev) /\ todo \in Seq(HeldCommands)
  <2>1. Head(todo) \in HeldCommands /\ Tail(todo) \in Seq(HeldCommands)
    BY <1>1, <1>2, HeadTailProperties
  <2>2. PICK a \in {"usbpic", "pickit", "ascii"} : a = adapter
    OBVIOUS
  <2>3. Head(todo) \in WorkCommands(a)
    BY <2>1, WorkCalm
  <2>4. /\ Whole(dev') /\ InStep(dev') /\ ~ dev'.missed
        /\ SameMode(dev, dev') /\ SameTarget(dev, dev')
        /\ a # "ascii" => SamePins(dev, dev') /\ ~ dev'.asserted
    BY <1>2, <2>2, <2>3, WorkPerform
  <2> QED
    BY <1>1, <2>1, <2>2, <2>4 DEF Stays
<1>3. CASE Resets(adapter, todo)
  <2>1. PICK S : S = LineCommands \cup {Resetting(adapter)} \cup HeldCommands
    OBVIOUS
  <2>2. PICK k \in 1 .. Len(todo) :
            /\ todo[k] = Resetting(adapter)
            /\ \A i \in 1 .. k - 1 : todo[i] \in LineCommands
            /\ \A i \in k + 1 .. Len(todo) : todo[i] \in HeldCommands
    BY <1>3, Zenon DEF Resets
  <2>3. todo \in Seq(S)
    BY <1>3, <2>1, Zenon DEF Resets
  <2>4. /\ Tail(todo) \in Seq(S) /\ Len(Tail(todo)) = Len(todo) - 1
        /\ \A i \in 1 .. Len(Tail(todo)) : Tail(todo)[i] = todo[i + 1]
    BY <1>1, <2>3, HeadTailProperties
  <2>5. Head(todo) = todo[1] /\ Len(todo) \in Nat
    BY <1>1, <2>3
  <2>6. CASE k = 1
    <3>1. Whole(dev') /\ InStep(dev') /\ ~ dev'.missed /\ Stays(dev, dev')
      BY <2>2, <2>5, <2>6, ResetPerform
    <3>2. \A i \in 1 .. Len(Tail(todo)) : Tail(todo)[i] \in HeldCommands
      BY <2>2, <2>4, <2>5, <2>6
    <3>3. Tail(todo) \in Seq(HeldCommands)
      BY <2>4, <3>2, Narrowed, Zenon
    <3> QED
      BY <1>1, <3>1, <3>3
  <2>7. CASE k # 1
    <3>1. Head(todo) \in LineCommands
      BY <2>2, <2>5, <2>7
    <3>2. Whole(dev') /\ ~ dev'.missed /\ Stays(dev, dev')
      BY <3>1, SparePerform
    <3>3. PICK j : j = k - 1
      OBVIOUS
    <3>4. /\ j \in 1 .. Len(Tail(todo)) /\ Tail(todo)[j] = Resetting(adapter)
          /\ \A i \in 1 .. j - 1 : Tail(todo)[i] \in LineCommands
          /\ \A i \in j + 1 .. Len(Tail(todo)) : Tail(todo)[i] \in HeldCommands
      BY <2>2, <2>4, <2>5, <2>7, <3>3
    <3>5. Resets(adapter, Tail(todo))
      BY <2>1, <2>4, <3>4, Zenon DEF Resets
    <3> QED
      BY <1>1, <3>2, <3>5
  <2> QED
    BY <2>6, <2>7
<1> QED
  BY <1>2, <1>3

\* One command of any stage.
LEMMA PerformFits ==
  ASSUME IInv, Perform
  PROVE  IInv'
<1>1. /\ Whole(dev) /\ TodoFits /\ MissedFits /\ TypeOK /\ PlanFits /\ TargetFits
      /\ adapter \in {"usbpic", "pickit", "ascii"} /\ (adapter # "ascii" => ~ dev.asserted)
  BY DEF IInv, TargetFits
<1>2. /\ todo # <<>> /\ todo' = Tail(todo) /\ adapter' = adapter /\ stage' = stage
      /\ plan' = plan /\ mode' = mode /\ target' = target /\ polls' = polls
      /\ outcome' = outcome
  BY Zenon DEF Perform
<1>7. Stays(dev, dev') => TargetFits'
  BY <1>1, <1>2, TargetKept
<1>3. Whole(dev') /\ TodoFits' /\ MissedFits' /\ TargetFits'
  <2>1. CASE stage = "open" /\ adapter = "usbpic"
    <3>1. Whole(dev') /\ Opening' /\ MissedFits' /\ TargetFits'
      BY <2>1, OpeningFits
    <3> QED
      BY <1>2, <2>1, <3>1 DEF TodoFits, Later
  <2>2. CASE stage = "open" /\ adapter = "pickit"
    <3>1. todo \in Seq(LineCommands) /\ ~ dev.missed
      BY <1>1, <2>2 DEF TodoFits, MissedFits
    <3>2. Head(todo) \in LineCommands /\ Tail(todo) \in Seq(LineCommands)
      BY <1>2, <3>1, HeadTailProperties
    <3>3. Whole(dev') /\ ~ dev'.missed /\ TargetFits'
      BY <1>1, <1>7, <2>2, <3>1, <3>2, SparePerform
    <3> QED
      BY <1>2, <2>2, <3>2, <3>3 DEF TodoFits, MissedFits, Later
  <2>3. CASE \/ stage = "open" /\ adapter = "ascii"
             \/ stage = "status" /\ adapter = "pickit"
    <3>1. /\ Resets(adapter, todo) \/ (InStep(dev) /\ todo \in Seq(HeldCommands))
          /\ ~ dev.missed /\ adapter \in {"pickit", "ascii"}
      BY <1>1, <2>3 DEF TodoFits, MissedFits
    <3>2. /\ Whole(dev') /\ ~ dev'.missed /\ Stays(dev, dev')
          /\ Resets(adapter, todo') \/ (InStep(dev') /\ todo' \in Seq(HeldCommands))
      BY <1>1, <3>1, EntryFits
    <3> QED
      BY <1>2, <1>7, <2>3, <3>2 DEF TodoFits, MissedFits, Later
  <2>4. CASE \/ stage \in {"identify"} \cup Later
             \/ stage = "status" /\ adapter # "pickit"
    <3>1. /\ InStep(dev) /\ todo \in Seq(WorkCommands(adapter)) /\ ~ dev.missed
          /\ adapter = "usbpic" => dev.inPgmMode
      BY <1>1, <2>4 DEF TodoFits, MissedFits, Later
    <3>2. /\ Head(todo) \in WorkCommands(adapter)
          /\ Tail(todo) \in Seq(WorkCommands(adapter))
      BY <1>2, <3>1, HeadTailProperties
    <3>3. /\ Whole(dev') /\ InStep(dev') /\ ~ dev'.missed
          /\ SameMode(dev, dev') /\ SameTarget(dev, dev')
          /\ adapter # "ascii" => ~ dev'.asserted
      BY <1>1, <3>1, <3>2, WorkPerform
    <3>4. Stays(dev, dev') /\ dev'.inPgmMode = dev.inPgmMode
      BY <3>3 DEF Stays, SameMode
    <3> QED
      BY <1>2, <1>7, <2>4, <3>1, <3>2, <3>3, <3>4 DEF TodoFits, MissedFits, Later
  <2>5. CASE stage \in {"close", "reject"}
    <3>0. PICK S : S = IF adapter = "usbpic" THEN SpareCommands ELSE LineCommands
      OBVIOUS
    <3>1. /\ \/ todo \in Seq(S)
             \/ adapter = "ascii" /\ InStep(dev) /\ todo \in Seq(CalmCommands)
          /\ ~ dev.missed
      BY <1>1, <2>5, <3>0 DEF TodoFits, MissedFits
    <3>2. CASE todo \in Seq(S)
      <4>1. Head(todo) \in S /\ Tail(todo) \in Seq(S)
        BY <1>2, <3>2, HeadTailProperties
      <4>2. Whole(dev') /\ ~ dev'.missed /\ Stays(dev, dev')
        BY <1>1, <3>0, <3>1, <4>1, SparePerform
      <4> QED
        BY <1>2, <1>7, <2>5, <3>0, <4>1, <4>2 DEF TodoFits, MissedFits, Later
    <3>3. CASE adapter = "ascii" /\ InStep(dev) /\ todo \in Seq(CalmCommands)
      <4>1. Head(todo) \in CalmCommands /\ Tail(todo) \in Seq(CalmCommands)
        BY <1>2, <3>3, HeadTailProperties
      <4>2. Head(todo) \in WorkCommands(adapter)
        <5>1. WorkCommands(adapter) = CalmCommands
          BY <3>3, Zenon DEF WorkCommands
        <5> QED
          BY <4>1, <5>1
      <4>3. /\ Whole(dev') /\ InStep(dev') /\ ~ dev'.missed
            /\ SameMode(dev, dev') /\ SameTarget(dev, dev')
        BY <1>1, <3>1, <3>3, <4>2, WorkPerform
      <4>4. Stays(dev, dev')
        BY <3>3, <4>3 DEF Stays
      <4> QED
        BY <1>2, <1>7, <2>5, <3>3, <4>1, <4>3, <4>4 DEF TodoFits, MissedFits, Later
    <3> QED
      BY <3>1, <3>2, <3>3
  <2> QED
    BY <1>1, <1>2, <2>1, <2>2, <2>3, <2>4, <2>5 DEF TypeOK, Stages, Later, TodoFits
<1>4. TypeOK'
  BY <1>1, <1>2, <1>3, WholeTyped DEF TypeOK
<1>5. PlanFits'
  BY <1>1, <1>2 DEF PlanFits
<1> QED
  BY <1>2, <1>3, <1>4, <1>5 DEF IInv

\* Nothing happens.
LEMMA StutterFits ==
  ASSUME IInv, UNCHANGED vars
  PROVE  IInv'
<1>1. /\ TypeOK' /\ PlanFits' /\ TodoFits' /\ MissedFits' /\ TargetFits'
  <2>1. Opening' = Opening
    BY DEF Opening, vars
  <2> QED
    BY <2>1 DEF IInv, TypeOK, PlanFits, TodoFits, MissedFits, TargetFits, vars
<1> QED
  BY <1>1 DEF IInv, vars

\* In every state of every session the stages to come are those of the job, and
\* the commands to come suit the state of the port: those that need it to wait
\* for them in Run-Test/Idle come only while it does.
THEOREM SessionInvariant ==
  Spec => []IInv
<1>1. Init => IInv
  BY InitFits
<1>2. IInv /\ [Next]_vars => IInv'
  <2> SUFFICES ASSUME IInv, [Next]_vars PROVE IInv'
    OBVIOUS
  <2>1. ASSUME NEW m \in Modes, NEW job \in Jobs, Begin(m, job) PROVE IInv'
    BY <2>1, BeginFits
  <2>2. CASE Perform
    BY <2>2, PerformFits
  <2>3. CASE Proceed
    BY <2>3, ProceedFits
  <2>4. CASE Poll
    BY <2>4, PollFits
  <2>5. CASE Fail
    BY <2>5, FailFits
  <2>6. CASE Abort
    BY <2>6, AbortFits
  <2>7. CASE Finish
    BY <2>7, EndFits DEF Finish
  <2>8. CASE Kill
    BY <2>8, EndFits DEF Kill
  <2>9. CASE UNCHANGED vars
    BY <2>9, StutterFits
  <2> QED
    BY <2>1, <2>2, <2>3, <2>4, <2>5, <2>6, <2>7, <2>8, <2>9 DEF Next
<1> QED
  BY <1>1, <1>2, PTL DEF Spec

\* Every variable of a session holds a value of its kind.
THEOREM SessionTyped ==
  Spec => []TypeOK
<1>1. IInv => TypeOK
  BY DEF IInv
<1> QED
  BY <1>1, SessionInvariant, PTL

\* Whatever the adapter, the job, the wiring, the number of blocks and where
\* earlier sessions were killed, no instruction is sent to a port that does not
\* wait for it in Run-Test/Idle, but by EnterPgmMode with four wires, which gives
\* its first before it has reset the port.
THEOREM InstructionsArrive ==
  Spec => []OnlyEntryMisses
<1>1. IInv => OnlyEntryMisses
  BY DEF IInv, MissedFits, OnlyEntryMisses
<1> QED
  BY <1>1, SessionInvariant, PTL
-----------------------------------------------------------------------------
(* What is let go of at the end.                                           *)

\* The target answers over the connector of the session, and with the usbpic driver
\* the program knows what it has to undo.
Reached ==
    /\ adapter = "usbpic" => /\ dev.wireMode = mode /\ Reaches(dev)
                             /\ pgm_mode_active /\ pgm_port_setup
    /\ adapter = "pickit" => Reaches(dev)

\* What is left of adapter_open_usbpic, and what the program has noted: an answer
\* comes from a port that is reached.
UsbOpening ==
    \/ todo = adapter_open_usbpic(mode)
    \/ /\ dev.wireMode = mode
       /\ todo = <<Do("SetupIOPorts", 1), Do("EnterPgmMode", 0), Reset5, ReadWord,
                   Expect("idcode")>>
    \/ /\ dev.wireMode = mode /\ pgm_port_setup
       /\ todo = <<Do("EnterPgmMode", 0), Reset5, ReadWord, Expect("idcode")>>
    \/ /\ dev.wireMode = mode /\ pgm_port_setup /\ pgm_mode_active
       /\ \/ todo = <<Reset5, ReadWord, Expect("idcode")>>
          \/ todo = <<ReadWord, Expect("idcode")>>
          \/ todo = <<Expect("idcode")>> /\ (dev.tap.scans # <<>> => Reaches(dev))
          \/ todo = <<>> /\ Reaches(dev)

\* The same of pic32_enter_mode, which looks for a status.
PickitOpening ==
    \/ todo = pickit_enter
    \/ /\ \/ todo = <<Receive, ExpectBytes(1), Expect("status"), Expect("unprotected")>>
          \/ todo = <<ExpectBytes(1), Expect("status"), Expect("unprotected")>>
          \/ todo = <<Expect("status"), Expect("unprotected")>>
       /\ dev.tap.scans # <<>> => Reaches(dev)
    \/ (todo = <<Expect("unprotected")>> \/ todo = <<>>) /\ Reaches(dev)

\* The connector is let go of, with the port in reset, and the processor runs, or has
\* its power from the adapter no longer.
Free(connector) ==
    /\ connector \notin dev.driven /\ dev.tap.state = "Reset"
    /\ dev.cpu \in {"run", "off"} /\ (dev.cpu = "off" => dev.supply = "adapter")

\* What is left of usbpic_close, and what it has done.
UsbClosing ==
    \/ /\ Reached
       /\ \/ todo = <<Reset5, Do("ExitPgmMode", 0), Do("SetupIOPorts", 0)>>
          \/ todo = <<Do("ExitPgmMode", 0), Do("SetupIOPorts", 0)>>
    \/ /\ todo = <<Do("SetupIOPorts", 0)>> /\ Parked(dev) /\ ~ dev.inPgmMode
       /\ dev.wireMode = mode /\ mode \in dev.wired
    \/ todo = <<>> /\ Free(mode) /\ ~ dev.inPgmMode

\* What is left of pickit2_finish, and what it has done.
PickitClosing ==
    \/ Reached /\ \E on \in BOOLEAN : todo = pickit_finish(on)
    \/ /\ todo = <<Packet(<<Do("Supply", 0)>>), Packet(<<Do("Release", 0)>>), ReadStatus(0)>>
       /\ Grounded(dev)
    \/ todo = <<Packet(<<Do("Release", 0)>>), ReadStatus(0)>> /\ Parked(dev)
    \/ (todo = <<ReadStatus(0)>> \/ todo = <<>>) /\ Free("ICSP")

\* What is left of bitbang_close, and what it has done to a target that has its power
\* from the adapter.
BitbangClosing ==
    \/ todo = bitbang_close
    \/ todo = <<Send(6, 31, <<>>, FALSE, 0), Do("Supply", 0)>>
    \/ todo = <<Do("Supply", 0)>>
    \/ todo = <<>> /\ dev.tap.state = "Reset" /\ dev.cpu = "off"

\* What a stage finds, and what close has done of its work.
Closes ==
    /\ adapter = "usbpic" /\ stage = "open" => UsbOpening
    /\ adapter = "pickit" /\ stage = "status" => PickitOpening
    /\ \/ stage \in {"identify"} \cup Later
       \/ adapter = "usbpic" /\ stage = "status"
       => Reached
    /\ adapter = "usbpic" /\ stage = "close" => UsbClosing
    /\ adapter = "pickit" /\ stage = "close" => PickitClosing
    /\ adapter = "ascii" /\ stage = "close" /\ dev.supply = "adapter" => BitbangClosing
    /\ adapter # "usbpic" /\ outcome # "idle" => mode = "ICSP"
    /\ ClosedClean

\* Devices that are alike are reached, parked and grounded together.
LEMMA AlikeState ==
  ASSUME NEW d, NEW e, Alike(d, e)
  PROVE  /\ Reaches(e) <=> Reaches(d)
         /\ Parked(e) <=> Parked(d)
         /\ Grounded(e) <=> Grounded(d)
<1>1. SamePins(d, e)
  BY DEF Alike
<1>2. Reaches(e) <=> Reaches(d)
  BY <1>1, SameReaches
<1>3. e.driven = d.driven
  BY <1>1 DEF SamePins
<1> QED
  BY <1>2, <1>3 DEF Alike, Parked, Grounded

\* A list that has the length and the elements of two lists joined is that.
LEMMA JoinIs ==
  ASSUME NEW S, NEW p \in Seq(S), NEW q \in Seq(S), NEW r \in Seq(S),
         Len(r) = Len(p) + Len(q),
         \A i \in 1 .. Len(p) + Len(q) :
             r[i] = IF i <= Len(p) THEN p[i] ELSE q[i - Len(p)]
  PROVE  p \o q = r
<1>1. PICK t : t = p \o q
  OBVIOUS
<1>2. /\ t \in Seq(S) /\ Len(t) = Len(p) + Len(q)
      /\ \A i \in 1 .. Len(p) + Len(q) :
             t[i] = IF i <= Len(p) THEN p[i] ELSE q[i - Len(p)]
  BY <1>1, ConcatProperties, Zenon
<1>3. Len(t) = Len(r) /\ \A i \in 1 .. Len(t) : t[i] = r[i]
  BY <1>2
<1>4. t = r
  BY <1>2, <1>3, SeqEqual, Zenon
<1> QED
  BY <1>1, <1>4

\* Short lists joined.
LEMMA Joins ==
  ASSUME NEW a, NEW b, NEW c
  PROVE  /\ <<a>> \o <<b>> = <<a, b>>
         /\ <<a>> \o <<b, c>> = <<a, b, c>>
         /\ <<a, b>> \o <<c>> = <<a, b, c>>
<1>1. PICK S : S = {a, b, c}
  OBVIOUS
<1>2. a \in S /\ b \in S /\ c \in S
  BY <1>1
<1>3. /\ <<a>> \in Seq(S)
      /\ <<b>> \in Seq(S)
      /\ <<a, b>> \in Seq(S)
      /\ <<b, c>> \in Seq(S)
      /\ <<a, b, c>> \in Seq(S)
      /\ <<c>> \in Seq(S)
  BY <1>2
<1>4. <<a>> \o <<b>> = <<a, b>>
  <2>1. PICK p, q, r : p = <<a>> /\ q = <<b>> /\ r = <<a, b>>
    OBVIOUS
  <2>2. p \in Seq(S) /\ q \in Seq(S) /\ r \in Seq(S)
    BY <1>3, <2>1
  <2>3. Len(r) = Len(p) + Len(q) /\ Len(p) = 1 /\ Len(q) = 1
    BY <2>1
  <2>4. r[1] = a /\ r[2] = b
    BY <2>1
  <2>5. p[1] = a /\ q[1] = b
    BY <2>1
  <2>6. \A i \in 1 .. Len(p) + Len(q) :
            r[i] = IF i <= Len(p) THEN p[i] ELSE q[i - Len(p)]
    BY <2>3, <2>4, <2>5
  <2>7. p \o q = r
    BY <2>2, <2>3, <2>6, JoinIs
  <2> QED
    BY <2>1, <2>7, Zenon
<1>5. <<a>> \o <<b, c>> = <<a, b, c>>
  <2>1. PICK p, q, r : p = <<a>> /\ q = <<b, c>> /\ r = <<a, b, c>>
    OBVIOUS
  <2>2. p \in Seq(S) /\ q \in Seq(S) /\ r \in Seq(S)
    BY <1>3, <2>1
  <2>3. Len(r) = Len(p) + Len(q) /\ Len(p) = 1 /\ Len(q) = 2
    BY <2>1
  <2>4. r[1] = a /\ r[2] = b /\ r[3] = c
    BY <2>1
  <2>5. p[1] = a /\ q[1] = b /\ q[2] = c
    BY <2>1
  <2>6. \A i \in 1 .. Len(p) + Len(q) :
            r[i] = IF i <= Len(p) THEN p[i] ELSE q[i - Len(p)]
    BY <2>3, <2>4, <2>5
  <2>7. p \o q = r
    BY <2>2, <2>3, <2>6, JoinIs
  <2> QED
    BY <2>1, <2>7, Zenon
<1>6. <<a, b>> \o <<c>> = <<a, b, c>>
  <2>1. PICK p, q, r : p = <<a, b>> /\ q = <<c>> /\ r = <<a, b, c>>
    OBVIOUS
  <2>2. p \in Seq(S) /\ q \in Seq(S) /\ r \in Seq(S)
    BY <1>3, <2>1
  <2>3. Len(r) = Len(p) + Len(q) /\ Len(p) = 2 /\ Len(q) = 1
    BY <2>1
  <2>4. r[1] = a /\ r[2] = b /\ r[3] = c
    BY <2>1
  <2>5. p[1] = a /\ p[2] = b /\ q[1] = c
    BY <2>1
  <2>6. \A i \in 1 .. Len(p) + Len(q) :
            r[i] = IF i <= Len(p) THEN p[i] ELSE q[i - Len(p)]
    BY <2>3, <2>4, <2>5
  <2>7. p \o q = r
    BY <2>2, <2>3, <2>6, JoinIs
  <2> QED
    BY <2>1, <2>7, Zenon
<1> QED
  BY <1>4, <1>5, <1>6

\* Two pairs joined.
LEMMA JoinsPairs ==
  ASSUME NEW a, NEW b, NEW c, NEW d
  PROVE  <<a, b>> \o <<c, d>> = <<a, b, c, d>>
<1>1. PICK S : S = {a, b, c, d}
  OBVIOUS
<1>2. a \in S /\ b \in S /\ c \in S /\ d \in S
  BY <1>1
<1>3. /\ <<a, b>> \in Seq(S)
      /\ <<c, d>> \in Seq(S)
      /\ <<a, b, c, d>> \in Seq(S)
  BY <1>2
<1>4. <<a, b>> \o <<c, d>> = <<a, b, c, d>>
  <2>1. PICK p, q, r : p = <<a, b>> /\ q = <<c, d>> /\ r = <<a, b, c, d>>
    OBVIOUS
  <2>2. p \in Seq(S) /\ q \in Seq(S) /\ r \in Seq(S)
    BY <1>3, <2>1
  <2>3. Len(r) = Len(p) + Len(q) /\ Len(p) = 2 /\ Len(q) = 2
    BY <2>1
  <2>4. r[1] = a /\ r[2] = b /\ r[3] = c /\ r[4] = d
    BY <2>1
  <2>5. p[1] = a /\ p[2] = b /\ q[1] = c /\ q[2] = d
    BY <2>1
  <2>6. \A i \in 1 .. Len(p) + Len(q) :
            r[i] = IF i <= Len(p) THEN p[i] ELSE q[i - Len(p)]
    BY <2>3, <2>4, <2>5
  <2>7. p \o q = r
    BY <2>2, <2>3, <2>6, JoinIs
  <2> QED
    BY <2>1, <2>7, Zenon
<1> QED
  BY <1>4

\* The scripts that close, as lists of commands.
LEMMA CloseScripts ==
  ASSUME NEW p, NEW q
  PROVE  /\ p /\ q => usbpic_close(p, q)
                      = <<Reset5, Do("ExitPgmMode", 0), Do("SetupIOPorts", 0)>>
         /\ bitbang_close = <<Command(SW_ETAP), Send(6, 31, <<>>, FALSE, 0),
                              Do("Supply", 0)>>
         /\ p => pickit_finish(p)
                 = <<Packet(<<ClearUpload, Do("SetMode", 5), Do("Ground", 0)>>),
                     Packet(<<Do("Release", 0)>>), ReadStatus(0)>>
         /\ ~ p => pickit_finish(p)
                   = <<Packet(<<ClearUpload, Do("SetMode", 5), Do("Ground", 0)>>),
                       Packet(<<Do("Supply", 0)>>), Packet(<<Do("Release", 0)>>),
                       ReadStatus(0)>>
<1>1. PICK a, b, c, f, r, s, u, v :
          /\ a = Reset5 /\ b = Do("ExitPgmMode", 0) /\ c = Do("SetupIOPorts", 0)
          /\ f = Packet(<<ClearUpload, Do("SetMode", 5), Do("Ground", 0)>>)
          /\ r = Packet(<<Do("Release", 0)>>) /\ s = Packet(<<Do("Supply", 0)>>)
          /\ u = Command(SW_ETAP) /\ v = Send(6, 31, <<>>, FALSE, 0)
  BY Zenon
<1>2. PICK w, x : w = Do("Supply", 0) /\ x = ReadStatus(0)
  BY Zenon
<1>3. /\ <<a>> \o <<b>> \o <<c>> = <<a, b, c>>
      /\ <<u, v>> \o <<w>> = <<u, v, w>>
      /\ <<f>> \o <<>> \o <<r, x>> = <<f, r, x>>
      /\ <<f>> \o <<s>> \o <<r, x>> = <<f, s, r, x>>
  <2>1. /\ <<a>> \o <<b>> = <<a, b>> /\ <<a, b>> \o <<c>> = <<a, b, c>>
        /\ <<u, v>> \o <<w>> = <<u, v, w>> /\ <<f>> \o <<r, x>> = <<f, r, x>>
        /\ <<f>> \o <<s>> = <<f, s>> /\ <<f, s>> \o <<r, x>> = <<f, s, r, x>>
    <3>1. <<a>> \o <<b>> = <<a, b>>
      BY Joins, Zenon
    <3>2. <<a, b>> \o <<c>> = <<a, b, c>>
      BY Joins, Zenon
    <3>3. <<u, v>> \o <<w>> = <<u, v, w>>
      BY Joins, Zenon
    <3>4. <<f>> \o <<r, x>> = <<f, r, x>>
      BY Joins, Zenon
    <3>5. <<f>> \o <<s>> = <<f, s>>
      BY Joins, Zenon
    <3>6. <<f, s>> \o <<r, x>> = <<f, s, r, x>>
      BY JoinsPairs, Zenon
    <3> QED
      BY <3>1, <3>2, <3>3, <3>4, <3>5, <3>6
  <2>2. <<f>> \o <<>> = <<f>>
    <3>1. PICK S, one : S = {f} /\ one = <<f>>
      OBVIOUS
    <3>2. one \in Seq(S)
      BY <3>1
    <3>3. one \o <<>> = one
      BY <3>2, ConcatEmptySeq, Zenon
    <3> QED
      BY <3>1, <3>3, Zenon
  <2> QED
    BY <2>1, <2>2, Zenon
<1>4. p /\ q => usbpic_close(p, q) = <<a>> \o <<b>> \o <<c>>
  BY <1>1, Zenon DEF usbpic_close
<1>5. bitbang_close = <<u, v>> \o <<w>>
  BY <1>1, <1>2, Zenon DEF bitbang_close, bitbang_ICSP_enable
<1>6. /\ p => pickit_finish(p) = <<f>> \o <<>> \o <<r, x>>
      /\ ~ p => pickit_finish(p) = <<f>> \o <<s>> \o <<r, x>>
  BY <1>1, <1>2, Zenon DEF pickit_finish
<1>7. p /\ q => usbpic_close(p, q) = <<a, b, c>>
  BY <1>3, <1>4, Zenon
<1>8. bitbang_close = <<u, v, w>>
  BY <1>3, <1>5, Zenon
<1>9. (p => pickit_finish(p) = <<f, r, x>>) /\ (~ p => pickit_finish(p) = <<f, s, r, x>>)
  BY <1>3, <1>6, Zenon
<1> QED
  BY <1>1, <1>2, <1>7, <1>8, <1>9, Zenon

\* What the close of a session that has reached its target sends.
LEMMA CloseScript ==
  ASSUME Reached, adapter \in {"usbpic", "pickit", "ascii"}
  PROVE  /\ adapter = "usbpic" =>
                Script("close") = <<Reset5, Do("ExitPgmMode", 0), Do("SetupIOPorts", 0)>>
         /\ adapter = "pickit" => \E on \in BOOLEAN : Script("close") = pickit_finish(on)
         /\ adapter = "ascii" => Script("close") = bitbang_close
<1>1. ~ Serial("close")
  BY DEF Serial
<1>2. Script("close") = <<>> \o Driver("close")
  BY <1>1, Zenon DEF Script
<1>3. CASE adapter = "usbpic"
  <2>1. PICK a, b, c : /\ a = Reset5 /\ b = Do("ExitPgmMode", 0)
                       /\ c = Do("SetupIOPorts", 0)
    BY Zenon
  <2>2. pgm_mode_active /\ pgm_port_setup
    BY <1>3 DEF Reached
  <2>3. Driver("close") = usbpic_close(pgm_mode_active, pgm_port_setup)
    BY <1>3, Zenon DEF Driver, usbpic
  <2>4. Driver("close") = <<a, b, c>>
    BY <2>1, <2>2, <2>3, CloseScripts, Zenon
  <2>5. <<>> \o <<a, b, c>> = <<a, b, c>>
    OBVIOUS
  <2> QED
    BY <1>2, <1>3, <2>1, <2>4, <2>5, Zenon
<1>4. CASE adapter = "pickit"
  <2>1. PICK p : p <=> power_on /\ target
    OBVIOUS
  <2>2. PICK f, r, s, x :
            /\ f = Packet(<<ClearUpload, Do("SetMode", 5), Do("Ground", 0)>>)
            /\ r = Packet(<<Do("Release", 0)>>) /\ s = Packet(<<Do("Supply", 0)>>)
            /\ x = ReadStatus(0)
    BY Zenon
  <2>3. /\ pickit_finish(TRUE) = <<f, r, x>> /\ pickit_finish(FALSE) = <<f, s, r, x>>
    <3>1. PICK yes, no : yes = TRUE /\ no = FALSE
      OBVIOUS
    <3>2. yes /\ ~ no
      BY <3>1
    <3>3. pickit_finish(yes) = <<f, r, x>> /\ pickit_finish(no) = <<f, s, r, x>>
      BY <2>2, <3>2, CloseScripts, Zenon
    <3> QED
      BY <3>1, <3>3, Zenon
  <2>4. <<>> \o <<f, r, x>> = <<f, r, x>> /\ <<>> \o <<f, s, r, x>> = <<f, s, r, x>>
    OBVIOUS
  <2>5. /\ power_on /\ target => Driver("close") = <<f, r, x>>
        /\ ~ (power_on /\ target) => Driver("close") = <<f, s, r, x>>
    BY <1>4, <2>2, CloseScripts, Zenon DEF Driver, pickit
  <2>6. Script("close") = pickit_finish(TRUE) \/ Script("close") = pickit_finish(FALSE)
    BY <1>2, <2>3, <2>4, <2>5, Zenon
  <2> QED
    BY <1>4, <2>6
<1>5. CASE adapter = "ascii"
  <2>1. PICK u, v, w : /\ u = Command(SW_ETAP) /\ v = Send(6, 31, <<>>, FALSE, 0)
                       /\ w = Do("Supply", 0)
    BY Zenon
  <2>2. bitbang_close = <<u, v, w>>
    BY <2>1, CloseScripts, Zenon
  <2>3. <<>> \o <<u, v, w>> = <<u, v, w>>
    OBVIOUS
  <2>4. Driver("close") = bitbang_close
    BY <1>5, Zenon DEF Driver, bitbang
  <2> QED
    BY <1>2, <1>5, <2>2, <2>3, <2>4, Zenon
<1> QED
  BY <1>3, <1>4, <1>5

\* A stage that is entered.
LEMMA EnterCloses ==
  ASSUME IInv, Closes, outcome = "none", NEW name \in Stages \ {"off", "start"},
         Enter(name),
         \/ name \in {"identify", "close"} \cup Later
         \/ adapter = "usbpic" /\ name = "status"
         => Reached
  PROVE  Closes'
<1>1. Whole(dev) /\ adapter \in {"usbpic", "pickit", "ascii"}
  BY DEF IInv
<1>2. /\ stage' = name /\ todo' = Script(name) /\ adapter' = adapter /\ mode' = mode
      /\ outcome' = outcome /\ pgm_mode_active' = pgm_mode_active
      /\ pgm_port_setup' = pgm_port_setup /\ dev' = Fresh(dev)
  BY DEF Enter
<1>3. Alike(dev, dev')
  BY <1>1, <1>2, FreshKeeps, Zenon
<1>4. /\ Reaches(dev') <=> Reaches(dev)
      /\ dev'.wireMode = dev.wireMode /\ dev'.supply = dev.supply
  BY <1>3, AlikeState DEF Alike, SamePins
<1>5. Reached => Reached'
  BY <1>2, <1>4 DEF Reached
<1>6. ClosedClean' /\ (adapter' # "usbpic" /\ outcome' # "idle" => mode' = "ICSP")
  BY <1>2 DEF Closes, ClosedClean
<1>7. adapter = "usbpic" /\ name = "open" => UsbOpening'
  BY <1>2, OpenScript DEF UsbOpening
<1>8. adapter = "pickit" /\ name = "status" => PickitOpening'
  <2> SUFFICES ASSUME adapter = "pickit", name = "status" PROVE PickitOpening'
    OBVIOUS
  <2>1. ~ Serial("status")
    BY DEF Serial
  <2>2. Script("status") = <<>> \o Driver("status")
    BY <2>1, Zenon DEF Script
  <2>3. Driver("status") = pickit_enter
    BY Zenon DEF Driver, pickit
  <2>4. todo' = pickit_enter
    BY <1>2, <2>2, <2>3, Listed
  <2> QED
    BY <2>4 DEF PickitOpening
<1>9. CASE name = "close"
  <2>1. Reached /\ Reached'
    BY <1>5, <1>9
  <2>2. adapter = "usbpic" => UsbClosing'
    BY <1>1, <1>2, <1>9, <2>1, CloseScript, Zenon DEF UsbClosing
  <2>3. adapter = "pickit" => PickitClosing'
    BY <1>1, <1>2, <1>9, <2>1, CloseScript, Zenon DEF PickitClosing
  <2>4. adapter = "ascii" => BitbangClosing'
    BY <1>1, <1>2, <1>9, <2>1, CloseScript, Zenon DEF BitbangClosing
  <2> QED
    BY <1>2, <1>6, <1>9, <2>2, <2>3, <2>4 DEF Closes, Later
<1>10. CASE name # "close"
  BY <1>2, <1>5, <1>6, <1>7, <1>8, <1>10 DEF Closes
<1> QED
  BY <1>9, <1>10

\* A session that is over.
LEMMA EndCloses ==
  ASSUME IInv, Closes, NEW how, End(how),
         how # "idle" /\ outcome # "idle",
         how = "closed" => stage = "close" /\ todo = <<>>
  PROVE  Closes'
<1>1. Whole(dev) /\ adapter \in {"usbpic", "pickit", "ascii"} /\ TargetFits
  BY DEF IInv
<1>2. /\ stage' = "off" /\ outcome' = how /\ adapter' = adapter /\ mode' = mode
      /\ dev' = Fresh(dev)
  BY DEF End
<1>3. Alike(dev, dev')
  BY <1>1, <1>2, FreshKeeps, Zenon
<1>4. /\ dev'.driven = dev.driven /\ dev'.supply = dev.supply
      /\ dev'.inPgmMode = dev.inPgmMode /\ dev'.tap.state = dev.tap.state
      /\ dev'.cpu = dev.cpu
  BY <1>3 DEF Alike, SamePins
<1>5. adapter # "usbpic" => mode = "ICSP" /\ ~ dev.inPgmMode
  BY <1>1 DEF Closes, TargetFits
<1>6. how = "closed" =>
          /\ adapter = "usbpic" => Free(mode) /\ ~ dev.inPgmMode
          /\ adapter = "pickit" => Free("ICSP")
          /\ adapter = "ascii" /\ dev.supply = "adapter" =>
                 dev.tap.state = "Reset" /\ dev.cpu = "off"
  <2> SUFFICES ASSUME stage = "close", todo = <<>>
               PROVE  /\ adapter = "usbpic" => Free(mode) /\ ~ dev.inPgmMode
                      /\ adapter = "pickit" => Free("ICSP")
                      /\ adapter = "ascii" /\ dev.supply = "adapter" =>
                             dev.tap.state = "Reset" /\ dev.cpu = "off"
    OBVIOUS
  <2>1. adapter = "usbpic" => Free(mode) /\ ~ dev.inPgmMode
    BY DEF Closes, UsbClosing
  <2>2. adapter = "pickit" => Free("ICSP")
    <3>1. \A on \in BOOLEAN : pickit_finish(on) # <<>>
      <4>1. PICK yes, no : yes = TRUE /\ no = FALSE
        OBVIOUS
      <4>2. pickit_finish(yes) # <<>> /\ pickit_finish(no) # <<>>
        <5>1. PICK f, r, s, x :
                  /\ f = Packet(<<ClearUpload, Do("SetMode", 5), Do("Ground", 0)>>)
                  /\ r = Packet(<<Do("Release", 0)>>) /\ s = Packet(<<Do("Supply", 0)>>)
                  /\ x = ReadStatus(0)
          BY Zenon
        <5>2. pickit_finish(yes) = <<f, r, x>> /\ pickit_finish(no) = <<f, s, r, x>>
          BY <4>1, <5>1, CloseScripts, Zenon
        <5> QED
          BY <5>2
      <4> QED
        BY <4>1, <4>2
    <3> QED
      BY <3>1 DEF Closes, PickitClosing
  <2>3. adapter = "ascii" /\ dev.supply = "adapter" =>
            dev.tap.state = "Reset" /\ dev.cpu = "off"
    <3>1. bitbang_close # <<>>
      <4>1. PICK u, v, w : /\ u = Command(SW_ETAP) /\ v = Send(6, 31, <<>>, FALSE, 0)
                           /\ w = Do("Supply", 0)
        BY Zenon
      <4>2. bitbang_close = <<u, v, w>>
        BY <4>1, CloseScripts, Zenon
      <4> QED
        BY <4>2
    <3> QED
      BY <3>1 DEF Closes, BitbangClosing
  <2> QED
    BY <2>1, <2>2, <2>3
<1>7. ClosedClean'
  BY <1>1, <1>2, <1>4, <1>5, <1>6 DEF ClosedClean, Free
<1> QED
  BY <1>2, <1>5, <1>7 DEF Closes, Later

\* What opening has done when no command of it is left.
LEMMA OpenedReaches ==
  ASSUME IInv, Closes, todo = <<>>
  PROVE  /\ adapter = "usbpic" /\ stage = "open" => Reached
         /\ stage \in {"status", "identify"} \cup Later => Reached
<1>1. adapter \in {"usbpic", "pickit", "ascii"}
  BY DEF IInv
<1>2. adapter_open_usbpic(mode) # <<>>
  BY DEF adapter_open_usbpic
<1>3. pickit_enter # <<>>
  BY DEF pickit_enter
<1>4. adapter = "usbpic" /\ stage = "open" => Reached
  BY <1>2 DEF Closes, UsbOpening, Reached
<1>5. adapter = "pickit" /\ stage = "status" => Reached
  BY <1>3 DEF Closes, PickitOpening, Reached
<1>6. adapter = "ascii" => Reached
  BY DEF Reached
<1> QED
  BY <1>1, <1>4, <1>5, <1>6 DEF Closes

\* On to the next stage.
LEMMA ProceedCloses ==
  ASSUME IInv, Closes, Proceed
  PROVE  Closes'
<1>1. PICK name : name = IF plan = <<>> THEN "close" ELSE Head(plan)
  OBVIOUS
<1>2. Enter(name) /\ outcome = "none" /\ stage \notin {"close", "reject"} /\ todo = <<>>
  BY <1>1, Zenon DEF Proceed, Working
<1>3. PlanFits /\ stage \in {"start", "open", "status", "identify"} \cup Later
  BY <1>2 DEF IInv, TypeOK, Stages, Later
<1>4. plan # <<>> => name = plan[1] /\ Len(plan) >= 1
  BY <1>1, <1>3, HeadTailProperties DEF PlanFits
<1>5. /\ stage = "start" => name = "open"
      /\ stage = "open" => name = "status"
      /\ stage = "status" => name = "identify"
      /\ stage \in {"identify"} \cup Later => name \in Later \cup {"close"}
  <2>1. stage = "start" => name = "open"
    BY <1>3, <1>4 DEF PlanFits
  <2>2. stage = "open" => name = "status"
    BY <1>3, <1>4 DEF PlanFits
  <2>3. stage = "status" => name = "identify"
    BY <1>3, <1>4 DEF PlanFits
  <2>4. stage \in {"identify"} \cup Later => name \in Later \cup {"close"}
    <3> SUFFICES ASSUME stage \in {"identify"} \cup Later
                 PROVE  name \in Later \cup {"close"}
      OBVIOUS
    <3>1. plan \in Seq(Later)
      BY <1>3 DEF PlanFits
    <3> QED
      BY <1>1, <3>1, HeadTailProperties
  <2> QED
    BY <2>1, <2>2, <2>3, <2>4
<1>6. name \in Stages \ {"off", "start"}
  BY <1>3, <1>5 DEF Stages, Later
<1>7. \/ name \in {"identify", "close"} \cup Later
      \/ adapter = "usbpic" /\ name = "status"
      => Reached
  BY <1>2, <1>3, <1>5, OpenedReaches DEF Later
<1> QED
  BY <1>2, <1>6, <1>7, EnterCloses

\* A reply is not the one wanted, or a transfer ends the program.
LEMMA FailCloses ==
  ASSUME IInv, Closes, Fail \/ Abort
  PROVE  Closes'
<1>1. outcome = "none" /\ stage \notin {"close", "reject"}
  BY DEF Fail, Abort, Working
<1>2. \A name \in {"reject", "close"} :
          Enter(name) /\ (name = "close" => Reached) => Closes'
  BY <1>1, EnterCloses DEF Stages, Later
<1>3. \A how \in {"abandoned", "aborted"} : End(how) => Closes'
  BY <1>1, EndCloses
<1>4. CASE Fail
  <2>1. stage \in {"open", "status", "identify"} \cup Later
    <3>1. stage \notin {"off", "start"}
      BY <1>4 DEF Fail, Looking, Polling, IInv, TodoFits
    <3> QED
      BY <1>1, <3>1 DEF IInv, TypeOK, Stages, Later
  <2>2. CASE adapter = "pickit" /\ stage = "open"
    BY <1>3, <1>4, <2>2 DEF Fail
  <2>3. CASE ~ (adapter = "pickit" /\ stage = "open")
    <3>1. PICK name \in {"reject", "close"} :
              name = IF stage \in {"open", "status"} THEN "reject" ELSE "close"
      OBVIOUS
    <3>2. Enter(name)
      BY <1>4, <2>3, <3>1, Zenon DEF Fail
    <3>3. name = "close" => Reached
      BY <2>1, <3>1 DEF Closes
    <3> QED
      BY <1>2, <3>2, <3>3
  <2> QED
    BY <2>2, <2>3
<1>5. CASE Abort
  <2>1. CASE target
    <3>1. Enter("close") /\ stage \in Later
      BY <1>1, <1>5, <2>1 DEF Abort, IInv
    <3>2. Reached
      BY <3>1 DEF Closes
    <3> QED
      BY <1>2, <3>1, <3>2
  <2>2. CASE ~ target
    BY <1>3, <1>5, <2>2 DEF Abort
  <2> QED
    BY <2>1, <2>2
<1> QED
  BY <1>4, <1>5

\* A session that begins, one that ends, and steps that change no more than the
\* number of polls.
LEMMA OtherCloses ==
  ASSUME IInv, Closes,
         \/ \E m \in Modes, job \in Jobs : Begin(m, job)
         \/ Poll \/ Finish \/ Kill \/ UNCHANGED vars
  PROVE  Closes'
<1>1. ASSUME NEW m \in Modes, NEW job \in Jobs, Begin(m, job) PROVE Closes'
  BY <1>1 DEF Begin, Closes, ClosedClean, Later
<1>2. CASE Poll
  <2>1. stage = "erase" /\ UNCHANGED <<adapter, dev, stage, mode, outcome>>
        /\ UNCHANGED <<pgm_mode_active, pgm_port_setup>>
    BY <1>2 DEF Poll, Polling
  <2>2. Reached' /\ ClosedClean'
    BY <2>1 DEF Closes, Reached, ClosedClean, Later
  <2> QED
    BY <2>1, <2>2 DEF Closes
<1>3. CASE Finish
  <2>1. stage # "off" /\ outcome = "none"
    BY <1>3 DEF Finish, IInv
  <2>2. CASE stage = "close" /\ End("closed")
    BY <1>3, <2>1, <2>2, EndCloses DEF Finish
  <2>3. CASE stage = "reject" /\ End("rejected")
    BY <2>1, <2>3, EndCloses
  <2> QED
    BY <1>3, <2>2, <2>3 DEF Finish
<1>4. CASE Kill
  BY <1>4, EndCloses DEF Kill
<1>5. CASE UNCHANGED vars
  <2>1. UsbOpening' = UsbOpening /\ PickitOpening' = PickitOpening
        /\ UsbClosing' = UsbClosing /\ PickitClosing' = PickitClosing
        /\ BitbangClosing' = BitbangClosing /\ Reached' = Reached
    BY <1>5, Zenon DEF UsbOpening, PickitOpening, UsbClosing, PickitClosing, BitbangClosing,
               Reached, Free, vars
  <2> QED
    BY <1>5, <2>1 DEF Closes, ClosedClean, vars
<1> QED
  BY <1>1, <1>2, <1>3, <1>4, <1>5

\* What a command finds is like what the last one left, and what it notes is as
\* Perform says.
LEMMA Performed ==
  ASSUME IInv, Perform
  PROVE  /\ todo # <<>> /\ todo' = Tail(todo) /\ adapter' = adapter /\ stage' = stage
         /\ mode' = mode /\ outcome' = outcome
         /\ Head(todo).op # "EnterPgmMode" /\ Head(todo).op # "ExitPgmMode" =>
                pgm_mode_active' = pgm_mode_active
         /\ Head(todo).op # "SetupIOPorts" => pgm_port_setup' = pgm_port_setup
         /\ \E d : /\ Whole(d) /\ Alike(dev, d) /\ d.missed \in BOOLEAN
                   /\ \/ /\ dev' \in Effect(d, Head(todo)) /\ d.tap.scans = <<>>
                         /\ Head(todo).op \notin Looks
                      \/ /\ Head(todo).op \in Looks
                         /\ d = dev' /\ d.tap = dev.tap
<1>1. /\ todo # <<>> /\ todo' = Tail(todo) /\ adapter' = adapter /\ stage' = stage
      /\ mode' = mode /\ outcome' = outcome
  BY Zenon DEF Perform
<1>2. PICK c : c = Head(todo)
  OBVIOUS
<1>3. /\ pgm_mode_active' = CASE c.op = "EnterPgmMode" -> TRUE
                              [] c.op = "ExitPgmMode" -> FALSE
                              [] OTHER -> pgm_mode_active
      /\ pgm_port_setup' = IF c.op = "SetupIOPorts" THEN c.arg = 1 ELSE pgm_port_setup
  BY <1>2, Zenon DEF Perform
<1>4. c.op # "EnterPgmMode" /\ c.op # "ExitPgmMode" =>
          pgm_mode_active' = pgm_mode_active
  BY <1>3
<1>5. c.op # "SetupIOPorts" => pgm_port_setup' = pgm_port_setup
  BY <1>3
<1>6. Whole(dev)
  BY DEF IInv
<1>7. \E d : /\ Whole(d) /\ Alike(dev, d) /\ d.missed \in BOOLEAN
             /\ \/ /\ dev' \in Effect(d, c) /\ d.tap.scans = <<>>
                   /\ c.op \notin Looks
                \/ /\ c.op \in Looks
                   /\ d = dev' /\ d.tap = dev.tap
  BY <1>2, <1>6, PerformIs DEF Whole
<1> QED
  BY <1>1, <1>2, <1>4, <1>5, <1>7

\* While the driver works the target goes on answering.
LEMMA WorkCloses ==
  ASSUME IInv, Closes, Perform,
         \/ stage \in {"identify"} \cup Later
         \/ stage = "status" /\ adapter = "usbpic"
  PROVE  Closes'
<1>1. /\ Whole(dev) /\ adapter \in {"usbpic", "pickit", "ascii"} /\ TodoFits /\ MissedFits
      /\ TargetFits
  BY DEF IInv
<1>2. /\ InStep(dev) /\ todo \in Seq(WorkCommands(adapter)) /\ ~ dev.missed
      /\ adapter = "usbpic" => dev.inPgmMode
      /\ adapter # "ascii" => ~ dev.asserted
  BY <1>1 DEF TodoFits, MissedFits, TargetFits, Later
<1>3. PICK a \in {"usbpic", "pickit", "ascii"} : a = adapter
  BY <1>1
<1>4. Head(todo) \in WorkCommands(a)
  BY <1>2, <1>3, Performed, HeadTailProperties
<1>5. a # "ascii" => SamePins(dev, dev')
  BY <1>1, <1>2, <1>3, <1>4, WorkPerform
<1>6. a # "ascii" => (Reaches(dev') <=> Reaches(dev)) /\ dev'.wireMode = dev.wireMode
  BY <1>5, SameReaches DEF SamePins
<1>7. a = "usbpic" => /\ pgm_mode_active' = pgm_mode_active
                      /\ pgm_port_setup' = pgm_port_setup
  <2> SUFFICES ASSUME a = "usbpic"
               PROVE  /\ pgm_mode_active' = pgm_mode_active
                      /\ pgm_port_setup' = pgm_port_setup
    OBVIOUS
  <2>1. WorkCommands(a) = HeldCommands \cup SerialCommands
    BY Zenon DEF WorkCommands
  <2>2. Head(todo).op \notin {"EnterPgmMode", "ExitPgmMode", "SetupIOPorts"}
    <3>1. CASE Head(todo) \in SerialCommands
      BY <3>1 DEF SerialCommands
    <3>2. CASE Head(todo) \in HeldCommands
      BY <3>2 DEF HeldCommands, HeldSteps, CalmSteps, Numbered
    <3> QED
      BY <1>4, <2>1, <3>1, <3>2
  <2> QED
    BY <2>2, Performed
<1>8. Reached /\ adapter' = adapter /\ mode' = mode /\ stage' = stage
      /\ outcome' = outcome /\ (adapter # "usbpic" /\ outcome # "idle" => mode = "ICSP")
  BY Performed DEF Closes
<1>9. Reached'
  BY <1>3, <1>6, <1>7, <1>8 DEF Reached
<1>10. outcome = "none"
  BY DEF IInv, Later
<1> QED
  BY <1>8, <1>9, <1>10 DEF Closes, ClosedClean, Later

\* One command of the entry of the usbpic driver.
LEMMA OpeningCloses ==
  ASSUME IInv, Closes, Perform, stage = "open", adapter = "usbpic"
  PROVE  UsbOpening'
<1>1. UsbOpening /\ mode' = mode /\ todo' = Tail(todo) /\ mode \in {"JTAG", "ICSP"}
  BY Performed DEF Closes, IInv
<1>2. PICK h : h = Head(todo)
  OBVIOUS
<1>3. PICK d : /\ Whole(d) /\ Alike(dev, d)
               /\ \/ /\ dev' \in Effect(d, h) /\ d.tap.scans = <<>>
                     /\ h.op \notin Looks
                  \/ /\ h.op \in Looks
                     /\ d = dev' /\ d.tap = dev.tap
  BY <1>2, Performed
<1>4. (Reaches(d) <=> Reaches(dev)) /\ d.wireMode = dev.wireMode
  BY <1>3, AlikeState DEF Alike, SamePins
<1>5. /\ h.op = "EnterPgmMode" => pgm_mode_active'
      /\ h.op = "SetupIOPorts" /\ h.arg = 1 => pgm_port_setup'
      /\ h.op # "EnterPgmMode" /\ h.op # "ExitPgmMode" =>
             pgm_mode_active' = pgm_mode_active
      /\ h.op # "SetupIOPorts" => pgm_port_setup' = pgm_port_setup
  <2>1. /\ pgm_mode_active' = CASE h.op = "EnterPgmMode" -> TRUE
                                [] h.op = "ExitPgmMode" -> FALSE
                                [] OTHER -> pgm_mode_active
        /\ pgm_port_setup' = IF h.op = "SetupIOPorts" THEN h.arg = 1 ELSE pgm_port_setup
    BY <1>2, Zenon DEF Perform
  <2>2. h.op = "EnterPgmMode" => pgm_mode_active' = TRUE
    BY <2>1
  <2>3. h.op = "SetupIOPorts" => pgm_port_setup' = (h.arg = 1)
    BY <2>1
  <2> QED
    BY <1>2, <2>2, <2>3, Performed
<1>6. PICK b, c, s, w, x :
          /\ b = Do("SetupIOPorts", 1) /\ c = Do("EnterPgmMode", 0) /\ s = Reset5
          /\ w = ReadWord /\ x = Expect("idcode")
  BY Zenon
<1>7. /\ b.op = "SetupIOPorts" /\ b.arg = 1 /\ c.op = "EnterPgmMode" /\ s.op = "SetMode"
      /\ w.op = "XferWord" /\ x.op = "Expect" /\ x.arg = "idcode"
      /\ w = Do("XferWord", 0)
  BY <1>6 DEF Do, Reset5, ReadWord, Expect
<1>8. CASE todo = adapter_open_usbpic(mode)
  <2>1. PICK k \in {1, 2} : k = IF mode = "ICSP" THEN 1 ELSE 2
    OBVIOUS
  <2>2. PICK a : a = Do("SetWiresMode", k)
    OBVIOUS
  <2>3. todo = <<a, b, c, s, w, x>>
    BY <1>6, <1>8, <2>1, <2>2, Zenon DEF adapter_open_usbpic
  <2>4. h = a /\ todo' = <<b, c, s, w, x>>
    BY <1>1, <1>2, <2>3
  <2>5. a.op = "SetWiresMode"
    BY <2>2 DEF Do
  <2>6. dev' \in Effect(d, a)
    BY <1>3, <2>4, <2>5 DEF Looks
  <2>7. dev'.wireMode = IF k = 1 THEN "ICSP" ELSE "JTAG"
    BY <1>3, <2>2, <2>6, WiresEffect, Zenon
  <2>8. dev'.wireMode = mode
    BY <1>1, <2>1, <2>7
  <2> QED
    BY <1>1, <1>6, <2>4, <2>8, Zenon DEF UsbOpening
<1>9. CASE dev.wireMode = mode /\ todo = <<b, c, s, w, x>>
  <2>1. h = b /\ todo' = <<c, s, w, x>>
    BY <1>1, <1>2, <1>9
  <2>2. dev' \in Effect(d, b)
    BY <1>3, <1>7, <2>1 DEF Looks
  <2>3. SameMode(d, dev')
    BY <1>3, <1>6, <2>2, SetupEffect, Zenon
  <2>4. dev'.wireMode = mode /\ pgm_port_setup'
    BY <1>4, <1>5, <1>7, <1>9, <2>1, <2>3 DEF SameMode
  <2> QED
    BY <1>1, <1>6, <2>1, <2>4, Zenon DEF UsbOpening
<1>10. CASE dev.wireMode = mode /\ pgm_port_setup /\ todo = <<c, s, w, x>>
  <2>1. h = c /\ todo' = <<s, w, x>>
    BY <1>1, <1>2, <1>10
  <2>2. dev' \in Effect(d, c)
    BY <1>3, <1>7, <2>1 DEF Looks
  <2>3. dev'.wireMode = d.wireMode
    BY <1>3, <1>6, <2>2, EntryEffect, ZenonT(60)
  <2>4. dev'.wireMode = mode /\ pgm_port_setup' /\ pgm_mode_active'
    BY <1>4, <1>5, <1>7, <1>10, <2>1, <2>3
  <2> QED
    BY <1>1, <1>6, <2>1, <2>4, Zenon DEF UsbOpening
<1>11. CASE /\ dev.wireMode = mode /\ pgm_port_setup /\ pgm_mode_active
            /\ todo = <<s, w, x>>
  <2>1. h = s /\ todo' = <<w, x>>
    BY <1>1, <1>2, <1>11
  <2>2. dev' \in Effect(d, s)
    BY <1>3, <1>7, <2>1 DEF Looks
  <2>3. SameMode(d, dev')
    BY <1>3, <1>6, <2>2, Reset5Effect, Zenon
  <2>4. dev'.wireMode = mode /\ pgm_port_setup' /\ pgm_mode_active'
    BY <1>4, <1>5, <1>7, <1>11, <2>1, <2>3 DEF SameMode
  <2> QED
    BY <1>1, <1>6, <2>1, <2>4, Zenon DEF UsbOpening
<1>12. CASE /\ dev.wireMode = mode /\ pgm_port_setup /\ pgm_mode_active
            /\ todo = <<w, x>>
  <2>1. h = w /\ todo' = <<x>>
    BY <1>1, <1>2, <1>12
  <2>2. dev' \in Effect(d, w) /\ d.tap.scans = <<>>
    BY <1>3, <1>7, <2>1 DEF Looks
  <2>3. Handles(d, dev') /\ (~ Reaches(d) => dev'.tap = d.tap)
    BY <1>3, <1>7, <2>2, ReadEffect, Zenon
  <2>4. SamePins(d, dev')
    BY <2>3 DEF Handles, Calms
  <2>5. (Reaches(dev') <=> Reaches(d)) /\ dev'.wireMode = d.wireMode
    BY <2>4, SameReaches DEF SamePins
  <2>6. /\ dev'.wireMode = mode /\ pgm_port_setup' /\ pgm_mode_active'
        /\ dev'.tap.scans # <<>> => Reaches(dev')
    BY <1>4, <1>5, <1>7, <1>12, <2>1, <2>2, <2>3, <2>5
  <2> QED
    BY <1>1, <1>6, <2>1, <2>6, Zenon DEF UsbOpening
<1>13. CASE /\ dev.wireMode = mode /\ pgm_port_setup /\ pgm_mode_active
            /\ todo = <<x>> /\ (dev.tap.scans # <<>> => Reaches(dev))
  <2>1. h = x /\ todo' = <<>>
    BY <1>1, <1>2, <1>13
  <2>2. d = dev'
    BY <1>3, <1>7, <2>1 DEF Looks
  <2>3. dev.tap.scans # <<>>
    <3>1. Answered("idcode")
      BY <1>2, <1>7, <2>1, Zenon DEF Perform
    <3> QED
      BY <3>1 DEF Answered
  <2>4. dev'.wireMode = mode /\ pgm_port_setup' /\ pgm_mode_active' /\ Reaches(dev')
    BY <1>4, <1>5, <1>7, <1>13, <2>1, <2>2, <2>3
  <2> QED
    BY <1>1, <2>1, <2>4, Zenon DEF UsbOpening
<1> QED
  <2>1. todo # <<>>
    BY Performed
  <2> QED
    BY <1>1, <1>6, <1>8, <1>9, <1>10, <1>11, <1>12, <1>13, <2>1, Zenon DEF UsbOpening

\* One command of pic32_enter_mode.
LEMMA EntryCloses ==
  ASSUME IInv, Closes, Perform, stage = "status", adapter = "pickit"
  PROVE  PickitOpening'
<1>1. PickitOpening /\ todo' = Tail(todo) /\ Whole(dev) /\ todo # <<>>
  BY Performed DEF Closes, IInv
<1>2. PICK h : h = Head(todo)
  OBVIOUS
<1>3. PICK d : /\ Whole(d) /\ Alike(dev, d)
               /\ \/ /\ dev' \in Effect(d, h) /\ d.tap.scans = <<>>
                     /\ h.op \notin Looks
                  \/ /\ h.op \in Looks
                     /\ d = dev' /\ d.tap = dev.tap
  BY <1>2, Performed
<1>4. Reaches(d) <=> Reaches(dev)
  BY <1>3, AlikeState
<1>5. PICK p, r, b, s, u :
          /\ p = Packet(<<ClearUpload, Do("Ground", 0), Do("Raise", 0), Do("Ground", 0),
                          Do("Signature", 0), Do("Raise", 0), Reset5, Instr(SW_MTAP),
                          Instr(COMMAND), Read8(0)>>)
          /\ r = Receive /\ b = ExpectBytes(1) /\ s = Expect("status")
          /\ u = Expect("unprotected")
  BY Zenon
<1>6. /\ r.op = "Receive" /\ b.op = "ExpectBytes" /\ s.op = "Expect" /\ u.op = "Expect"
      /\ s.arg = "status"
  BY <1>5 DEF Do, Receive, ExpectBytes, Expect
<1>7. pickit_enter = <<p, r, b, s, u>>
  BY <1>5, Zenon DEF pickit_enter
<1>8. h.op \in Looks =>
          /\ dev'.tap.scans # <<>> => dev.tap.scans # <<>>
          /\ Reaches(dev') <=> Reaches(dev)
  BY <1>3, <1>4
<1>9. CASE todo = pickit_enter
  <2>1. h = p /\ todo' = <<r, b, s, u>> /\ Head(pickit_enter) = p
    BY <1>1, <1>2, <1>7, <1>9
  <2>2. Head(todo) = Resetting(adapter)
    BY <1>2, <2>1, Zenon DEF Resetting
  <2>3. dev'.tap.scans # <<>> => Reaches(dev')
    BY <1>1, <2>2, ResetPerform
  <2> QED
    BY <1>1, <1>5, <2>1, <2>3, Zenon DEF PickitOpening
<1>10. CASE todo = <<r, b, s, u>> /\ (dev.tap.scans # <<>> => Reaches(dev))
  <2>1. h = r /\ todo' = <<b, s, u>>
    BY <1>1, <1>2, <1>10
  <2>2. dev'.tap.scans # <<>> => Reaches(dev')
    BY <1>6, <1>8, <1>10, <2>1 DEF Looks
  <2> QED
    BY <1>5, <2>1, <2>2, Zenon DEF PickitOpening
<1>11. CASE todo = <<b, s, u>> /\ (dev.tap.scans # <<>> => Reaches(dev))
  <2>1. h = b /\ todo' = <<s, u>>
    BY <1>1, <1>2, <1>11
  <2>2. dev'.tap.scans # <<>> => Reaches(dev')
    BY <1>6, <1>8, <1>11, <2>1 DEF Looks
  <2> QED
    BY <1>5, <2>1, <2>2, Zenon DEF PickitOpening
<1>12. CASE todo = <<s, u>> /\ (dev.tap.scans # <<>> => Reaches(dev))
  <2>1. h = s /\ todo' = <<u>>
    BY <1>1, <1>2, <1>12
  <2>2. dev.tap.scans # <<>>
    <3>1. Answered("status")
      BY <1>2, <1>6, <2>1, Zenon DEF Perform
    <3> QED
      BY <3>1 DEF Answered
  <2>3. Reaches(dev')
    BY <1>6, <1>8, <1>12, <2>1, <2>2 DEF Looks
  <2> QED
    BY <1>5, <2>1, <2>3, Zenon DEF PickitOpening
<1>13. CASE todo = <<u>> /\ Reaches(dev)
  <2>1. h = u /\ todo' = <<>>
    BY <1>1, <1>2, <1>13
  <2>2. Reaches(dev')
    BY <1>6, <1>8, <1>13, <2>1 DEF Looks
  <2> QED
    BY <2>1, <2>2, Zenon DEF PickitOpening
<1> QED
  BY <1>1, <1>5, <1>9, <1>10, <1>11, <1>12, <1>13, Zenon DEF PickitOpening

\* One command of usbpic_close, on a target that is on one connector alone: it is let
\* go of in the port's reset state.
LEMMA UsbCloses ==
  ASSUME IInv, Closes, Perform, stage = "close", adapter = "usbpic",
         \A wired \in Wirings : \A x, y \in wired : x = y
  PROVE  UsbClosing'
<1>1. /\ UsbClosing /\ todo' = Tail(todo) /\ todo # <<>> /\ mode' = mode
      /\ adapter' = adapter /\ TargetFits /\ Whole(dev)
  BY Performed DEF Closes, IInv
<1>2. PICK h : h = Head(todo)
  OBVIOUS
<1>3. PICK d : /\ Whole(d) /\ Alike(dev, d)
               /\ \/ /\ dev' \in Effect(d, h) /\ d.tap.scans = <<>>
                     /\ h.op \notin Looks
                  \/ /\ h.op \in Looks
                     /\ d = dev' /\ d.tap = dev.tap
  BY <1>2, Performed
<1>4. /\ Reaches(d) <=> Reaches(dev)
      /\ Parked(d) <=> Parked(dev)
      /\ d.wireMode = dev.wireMode /\ d.wired = dev.wired /\ d.asserted = dev.asserted
      /\ d.supply = dev.supply /\ d.inPgmMode = dev.inPgmMode
  BY <1>3, AlikeState DEF Alike, SamePins
<1>5. PICK s, x, c : /\ s = Reset5 /\ x = Do("ExitPgmMode", 0)
                     /\ c = Do("SetupIOPorts", 0)
  BY Zenon
<1>6. s.op = "SetMode" /\ x.op = "ExitPgmMode" /\ c.op = "SetupIOPorts"
  BY <1>5 DEF Do, Reset5
<1>7. CASE Reached /\ todo = <<s, x, c>>
  <2>1. h = s /\ todo' = <<x, c>>
    BY <1>1, <1>2, <1>7
  <2>2. dev' \in Effect(d, s)
    BY <1>3, <1>6, <2>1 DEF Looks
  <2>3. SamePins(d, dev')
    BY <1>3, <1>5, <2>2, Reset5Effect, Zenon
  <2>4. (Reaches(dev') <=> Reaches(dev)) /\ dev'.wireMode = dev.wireMode
    BY <1>4, <2>3, SameReaches DEF SamePins
  <2>5. pgm_mode_active' = pgm_mode_active /\ pgm_port_setup' = pgm_port_setup
    BY <1>2, <1>6, <2>1, Performed
  <2>6. Reached'
    BY <1>1, <1>7, <2>4, <2>5 DEF Reached
  <2> QED
    BY <1>5, <2>1, <2>6, Zenon DEF UsbClosing
<1>8. CASE Reached /\ todo = <<x, c>>
  <2>1. h = x /\ todo' = <<c>>
    BY <1>1, <1>2, <1>8
  <2>2. dev' \in Effect(d, x)
    BY <1>3, <1>6, <2>1 DEF Looks
  <2>3. /\ Spared(d, dev') /\ dev'.wireMode = d.wireMode /\ dev'.inPgmMode = FALSE
        /\ Reaches(d) => Parked(dev')
    BY <1>3, <1>5, <2>2, ExitEffect, Zenon
  <2>4. dev.wireMode = mode /\ Reaches(dev)
    BY <1>8 DEF Reached
  <2>5. mode \in dev.wired
    BY <2>4 DEF Reaches
  <2>6. /\ Parked(dev') /\ ~ dev'.inPgmMode /\ dev'.wireMode = mode
        /\ mode \in dev'.wired
    BY <1>4, <2>3, <2>4, <2>5 DEF Spared, SameTarget
  <2> QED
    BY <1>1, <1>5, <2>1, <2>6, Zenon DEF UsbClosing
<1>9. CASE /\ todo = <<c>> /\ Parked(dev) /\ ~ dev.inPgmMode
           /\ dev.wireMode = mode /\ mode \in dev.wired
  <2>1. h = c /\ todo' = <<>>
    BY <1>1, <1>2, <1>9
  <2>2. dev' \in Effect(d, c)
    BY <1>3, <1>6, <2>1 DEF Looks
  <2>3. dev.wired = {mode}
    BY <1>1, <1>9 DEF TargetFits
  <2>4. /\ Parked(d) /\ ~ d.asserted /\ d.supply = "board" /\ d.wired = {d.wireMode}
        /\ d.wireMode = mode /\ ~ d.inPgmMode
    BY <1>1, <1>4, <1>9, <2>3 DEF TargetFits
  <2>5. dev' \in Effect(d, Do("SetupIOPorts", 0))
    BY <1>5, <2>2, Zenon
  <2>6. mode \notin dev'.driven /\ dev'.tap.state = "Reset" /\ dev'.cpu = "run"
    BY <1>3, <2>4, <2>5, SetupOffEffect
  <2>7. ~ dev'.inPgmMode
    <3>1. SameMode(d, dev')
      BY <1>3, <2>5, SetupEffect, Zenon
    <3> QED
      BY <2>4, <3>1 DEF SameMode
  <2>8. Free(mode)'
    BY <1>1, <2>6 DEF Free
  <2> QED
    BY <1>1, <2>1, <2>7, <2>8 DEF UsbClosing
<1> QED
  BY <1>1, <1>5, <1>7, <1>8, <1>9, Zenon DEF UsbClosing

\* One command of pickit2_finish: the target is let go of in reset, or without power.
LEMMA PickitCloses ==
  ASSUME IInv, Closes, Perform, stage = "close", adapter = "pickit"
  PROVE  PickitClosing'
<1>1. /\ PickitClosing /\ todo' = Tail(todo) /\ todo # <<>> /\ TargetFits /\ Whole(dev)
      /\ TodoFits /\ MissedFits
  BY Performed DEF Closes, IInv
<1>2. PICK h : h = Head(todo)
  OBVIOUS
<1>3. PICK d : /\ Whole(d) /\ Alike(dev, d)
               /\ \/ /\ dev' \in Effect(d, h) /\ d.tap.scans = <<>>
                     /\ h.op \notin Looks
                  \/ /\ h.op \in Looks
                     /\ d = dev' /\ d.tap = dev.tap
  BY <1>2, Performed
<1>4. /\ Reaches(d) <=> Reaches(dev)
      /\ Parked(d) <=> Parked(dev)
      /\ Grounded(d) <=> Grounded(dev)
      /\ d.wired = {"ICSP"} /\ ~ d.asserted /\ d.supply = dev.supply
      /\ d.supply \in {"board", "adapter"}
  <2>1. /\ Reaches(d) <=> Reaches(dev)
        /\ Parked(d) <=> Parked(dev)
        /\ Grounded(d) <=> Grounded(dev)
    BY <1>3, AlikeState
  <2>2. d.wired = dev.wired /\ d.asserted = dev.asserted /\ d.supply = dev.supply
    BY <1>3 DEF Alike, SamePins
  <2> QED
    BY <1>1, <2>1, <2>2 DEF TargetFits
<1>5. dev'.supply = dev.supply
  <2>1. todo \in Seq(LineCommands)
    BY <1>1 DEF TodoFits, Later
  <2>2. Head(todo) \in LineCommands /\ ~ dev.missed
    BY <1>1, <2>1, HeadTailProperties DEF MissedFits
  <2>3. Stays(dev, dev')
    BY <1>1, <2>2, SparePerform
  <2> QED
    BY <2>3 DEF Stays, SameTarget
<1>6. PICK s1, s2, s3, t, v : /\ s1 = Do("ClearUpload", 0) /\ s2 = Do("SetMode", 5)
                              /\ s3 = Do("Ground", 0) /\ t = Do("Supply", 0)
                              /\ v = Do("Release", 0)
  BY Zenon
<1>7. PICK f, s, r, x : /\ f = Packet(<<s1, s2, s3>>) /\ s = Packet(<<t>>)
                        /\ r = Packet(<<v>>) /\ x = ReadStatus(0)
  BY Zenon
<1>8. /\ f.op = "Packet" /\ f.arg = <<s1, s2, s3>> /\ s.op = "Packet" /\ s.arg = <<t>>
      /\ r.op = "Packet" /\ r.arg = <<v>> /\ x.op = "ReadStatus"
  BY <1>7 DEF Packet, Do, ReadStatus
<1>9. /\ s = Packet(<<Do("Supply", 0)>>) /\ r = Packet(<<Do("Release", 0)>>)
      /\ f = Packet(<<ClearUpload, Do("SetMode", 5), Do("Ground", 0)>>)
  BY <1>6, <1>7, Zenon DEF ClearUpload
<1>10. CASE Reached /\ (todo = <<f, r, x>> \/ todo = <<f, s, r, x>>)
  <2>1. h = f /\ (todo' = <<r, x>> \/ todo' = <<s, r, x>>)
    <3>1. todo = <<f, r, x>> => h = f /\ todo' = <<r, x>>
      BY <1>1, <1>2
    <3>2. todo = <<f, s, r, x>> => h = f /\ todo' = <<s, r, x>>
      BY <1>1, <1>2
    <3> QED
      BY <1>10, <3>1, <3>2, Zenon
  <2>2. dev' \in Effect(d, f)
    BY <1>3, <1>8, <2>1 DEF Looks
  <2>3. Reaches(d) /\ "ICSP" \in d.wired
    BY <1>4, <1>10 DEF Reached
  <2>4. Grounded(dev')
    BY <1>3, <1>6, <1>8, <2>2, <2>3, FinishEffect
  <2>5. Parked(dev')
    BY <2>4 DEF Grounded
  <2> QED
    BY <1>7, <1>9, <2>1, <2>4, <2>5, Zenon DEF PickitClosing
<1>11. CASE todo = <<s, r, x>> /\ Grounded(dev)
  <2>1. h = s /\ todo' = <<r, x>>
    BY <1>1, <1>2, <1>11
  <2>2. dev' \in Effect(d, s)
    BY <1>3, <1>8, <2>1 DEF Looks
  <2>3. Grounded(d) /\ "ICSP" \in d.wired
    BY <1>4, <1>11
  <2>4. Parked(dev')
    BY <1>3, <1>6, <1>8, <2>2, <2>3, SupplyOffEffect
  <2> QED
    BY <1>7, <1>9, <2>1, <2>4, Zenon DEF PickitClosing
<1>12. CASE todo = <<r, x>> /\ Parked(dev)
  <2>1. h = r /\ todo' = <<x>>
    BY <1>1, <1>2, <1>12
  <2>2. dev' \in Effect(d, r)
    BY <1>3, <1>8, <2>1 DEF Looks
  <2>3. /\ "ICSP" \notin dev'.driven /\ dev'.tap.state = "Reset"
        /\ dev'.cpu = "run" \/ (dev'.cpu = "off" /\ d.supply # "board")
    BY <1>3, <1>4, <1>6, <1>8, <1>12, <2>2, ReleaseEffect
  <2>4. Free("ICSP")'
    BY <1>4, <1>5, <2>3 DEF Free
  <2> QED
    BY <1>7, <2>1, <2>4, Zenon DEF PickitClosing
<1>13. CASE todo = <<x>> /\ Free("ICSP")
  <2>1. h = x /\ todo' = <<>>
    BY <1>1, <1>2, <1>13
  <2>2. d = dev'
    BY <1>3, <1>8, <2>1 DEF Looks
  <2>3. Free("ICSP")'
    BY <1>3, <1>13, <2>2 DEF Free, Alike, SamePins
  <2> QED
    BY <2>1, <2>3, Zenon DEF PickitClosing
<1>14. \A on \in BOOLEAN : pickit_finish(on) = <<f, r, x>>
                           \/ pickit_finish(on) = <<f, s, r, x>>
  BY <1>7, <1>9, CloseScripts, Zenon
<1> QED
  BY <1>1, <1>7, <1>9, <1>10, <1>11, <1>12, <1>13, <1>14, Zenon DEF PickitClosing

\* One command of bitbang_close, on a target that has its power from the adapter.
LEMMA BitbangCloses ==
  ASSUME IInv, Closes, Perform, stage = "close", adapter = "ascii",
         dev'.supply = "adapter"
  PROVE  BitbangClosing'
<1>1. /\ todo' = Tail(todo) /\ todo # <<>> /\ TargetFits /\ Whole(dev)
      /\ TodoFits /\ MissedFits /\ adapter \in {"usbpic", "pickit", "ascii"}
  BY Performed DEF IInv
<1>2. PICK h : h = Head(todo)
  OBVIOUS
<1>3. PICK d : /\ Whole(d) /\ Alike(dev, d)
               /\ \/ /\ dev' \in Effect(d, h) /\ d.tap.scans = <<>>
                     /\ h.op \notin Looks
                  \/ /\ h.op \in Looks
                     /\ d = dev' /\ d.tap = dev.tap
  BY <1>2, Performed
<1>4. dev.supply = "adapter"
  <2>1. dev'.supply = dev.supply
    <3>1. CASE todo \in Seq(LineCommands)
      <4>1. Head(todo) \in LineCommands /\ ~ dev.missed
        BY <1>1, <3>1, HeadTailProperties DEF MissedFits
      <4>2. Stays(dev, dev')
        BY <1>1, <4>1, SparePerform
      <4> QED
        BY <4>2 DEF Stays, SameTarget
    <3>2. CASE InStep(dev) /\ todo \in Seq(CalmCommands)
      <4>1. WorkCommands(adapter) = CalmCommands
        BY Zenon DEF WorkCommands
      <4>2. Head(todo) \in WorkCommands(adapter) /\ ~ dev.missed
        BY <1>1, <3>2, <4>1, HeadTailProperties DEF MissedFits
      <4>3. SameTarget(dev, dev')
        BY <1>1, <3>2, <4>2, WorkPerform
      <4> QED
        BY <4>3 DEF SameTarget
    <3> QED
      BY <1>1, <3>1, <3>2 DEF TodoFits, Later
  <2> QED
    BY <2>1
<1>5. BitbangClosing /\ d.supply = "adapter"
  BY <1>3, <1>4 DEF Closes, Alike, SamePins
<1>6. PICK u, v, w : /\ u = Command(SW_ETAP) /\ v = Send(6, 31, <<>>, FALSE, 0)
                     /\ w = Do("Supply", 0)
  BY Zenon
<1>7. bitbang_close = <<u, v, w>>
  BY <1>6, CloseScripts, Zenon
<1>8. CASE todo = <<u, v, w>>
  <2>1. todo' = <<v, w>>
    BY <1>1, <1>8
  <2> QED
    BY <1>6, <2>1, Zenon DEF BitbangClosing
<1>9. CASE todo = <<v, w>>
  <2>1. todo' = <<w>>
    BY <1>1, <1>9
  <2> QED
    BY <1>6, <2>1, Zenon DEF BitbangClosing
<1>10. CASE todo = <<w>>
  <2>1. h = w /\ todo' = <<>>
    BY <1>1, <1>2, <1>10
  <2>2. w.op = "Supply"
    BY <1>6 DEF Do
  <2>3. dev' \in Effect(d, w)
    BY <1>3, <2>1, <2>2 DEF Looks
  <2>4. dev'.tap.state = "Reset" /\ dev'.cpu = "off"
    BY <1>3, <1>5, <1>6, <2>3, SupplyEffect
  <2> QED
    BY <2>1, <2>4, Zenon DEF BitbangClosing
<1> QED
  BY <1>1, <1>5, <1>6, <1>7, <1>8, <1>9, <1>10, Zenon DEF BitbangClosing

\* One command of any stage.
LEMMA PerformCloses ==
  ASSUME IInv, Closes, Perform,
         \A wired \in Wirings : \A x, y \in wired : x = y
  PROVE  Closes'
<1>1. /\ adapter' = adapter /\ stage' = stage /\ mode' = mode /\ outcome' = outcome
      /\ adapter # "usbpic" /\ outcome # "idle" => mode = "ICSP"
      /\ todo # <<>> /\ stage \in Stages /\ adapter \in {"usbpic", "pickit", "ascii"}
  BY Performed DEF Closes, IInv, TypeOK
<1>2. ClosedClean'
  <2>1. stage # "off"
    BY <1>1 DEF IInv, TodoFits
  <2>2. outcome' = "none"
    BY <1>1, <2>1 DEF IInv
  <2> QED
    BY <2>2 DEF ClosedClean
<1>3. CASE \/ stage \in {"identify"} \cup Later
           \/ stage = "status" /\ adapter = "usbpic"
  BY <1>3, WorkCloses
<1>4. CASE stage = "open"
  BY <1>1, <1>2, <1>4, OpeningCloses DEF Closes, Later
<1>5. CASE stage = "status" /\ adapter # "usbpic"
  BY <1>1, <1>2, <1>5, EntryCloses DEF Closes, Later
<1>6. CASE stage = "close"
  BY <1>1, <1>2, <1>6, UsbCloses, PickitCloses, BitbangCloses DEF Closes, Later
<1>7. CASE stage \in {"off", "start", "reject"}
  BY <1>1, <1>2, <1>7 DEF Closes, Later
<1> QED
  BY <1>1, <1>3, <1>4, <1>5, <1>6, <1>7 DEF Stages, Later

\* After a close the connector of the session is let go of, the adapter is out of
\* programming mode, and the processor runs its own program with the port in reset or
\* has no power, whatever the adapter, the job, where earlier sessions were killed and
\* where this one failed: on a target that is on one connector, not on both.  With both
\* the usbpic adapter leaves MCLR of the one it does not use as an earlier session
\* drove it.
THEOREM ClosesClean ==
  ASSUME \A wired \in Wirings : \A x, y \in wired : x = y
  PROVE  Spec => []ClosedClean
<1>1. Init => Closes
  BY DEF Init, Closes, ClosedClean, Later
<1>2. IInv /\ Closes /\ [Next]_vars => Closes'
  <2> SUFFICES ASSUME IInv, Closes, [Next]_vars PROVE Closes'
    OBVIOUS
  <2>1. CASE Perform
    BY <2>1, PerformCloses
  <2>2. CASE Proceed
    BY <2>2, ProceedCloses
  <2>3. CASE Fail \/ Abort
    BY <2>3, FailCloses
  <2>4. CASE \/ \E m \in Modes, job \in Jobs : Begin(m, job)
             \/ Poll \/ Finish \/ Kill \/ UNCHANGED vars
    BY <2>4, OtherCloses
  <2> QED
    BY <2>1, <2>2, <2>3, <2>4 DEF Next
<1>3. Closes => ClosedClean
  BY DEF Closes
<1> QED
  BY <1>1, <1>2, <1>3, SessionInvariant, PTL DEF Spec

-----------------------------------------------------------------------------
(* The buffers of the PICkit.                                              *)

\* The commands of all scripts.
AnyCommands ==
    PacketSteps \cup [op : {"Packet"}, arg : Seq(PacketSteps)] \cup SerialCommands
        \cup {Do("EnterPgmMode", 0)}

\* Those of each kind are among them.
LEMMA AnyOf ==
  /\ CalmSteps \subseteq AnyCommands /\ SpareSteps \subseteq AnyCommands
  /\ CalmCommands \subseteq AnyCommands /\ SpareCommands \subseteq AnyCommands
  /\ HeldCommands \subseteq AnyCommands /\ LineCommands \subseteq AnyCommands
  /\ Releasing \subseteq AnyCommands /\ SerialCommands \subseteq AnyCommands
  /\ \A a \in {"pickit", "ascii"} : Resetting(a) \in AnyCommands
<1>1. CalmSteps \subseteq PacketSteps /\ SpareSteps \subseteq PacketSteps
      /\ MtapSteps \subseteq PacketSteps
  BY Fewer DEF PacketSteps
<1>2. /\ Seq(CalmSteps) \subseteq Seq(PacketSteps)
      /\ Seq(SpareSteps) \subseteq Seq(PacketSteps)
      /\ Seq(MtapSteps) \subseteq Seq(PacketSteps)
  BY <1>1
<1>3. CalmCommands \subseteq AnyCommands /\ SpareCommands \subseteq AnyCommands
  BY <1>1, <1>2 DEF CalmCommands, SpareCommands, AnyCommands
<1>4. HeldCommands \subseteq AnyCommands /\ LineCommands \subseteq AnyCommands
  BY <1>3, Fewer
<1>5. Releasing \subseteq AnyCommands /\ SerialCommands \subseteq AnyCommands
  BY <1>2 DEF Releasing, AnyCommands
<1>6. Resetting("ascii") \in AnyCommands
  <2>1. Send(6, 31, Word, TRUE, 0) \in CalmSteps
    BY SerialUsed, Zenon
  <2>2. Resetting("ascii") = Send(6, 31, Word, TRUE, 0)
    BY DEF Resetting
  <2> QED
    BY <1>1, <2>1, <2>2 DEF AnyCommands
<1>7. Resetting("pickit") \in AnyCommands
  <2>1. PICK a, b, c, d, e, f, g, h : a = ClearUpload /\ b = Do("Ground", 0)
            /\ c = Do("Raise", 0) /\ d = Do("Signature", 0) /\ e = Reset5
            /\ f = Instr(SW_MTAP) /\ g = Instr(COMMAND) /\ h = Read8(0)
    OBVIOUS
  <2>2. /\ a \in PacketSteps /\ b \in PacketSteps /\ c \in PacketSteps /\ d \in PacketSteps
        /\ e \in PacketSteps /\ f \in PacketSteps /\ g \in PacketSteps /\ h \in PacketSteps
    <3>1. 0 \in Nat
      OBVIOUS
    <3>2. a \in LineSteps /\ b \in LineSteps /\ c \in LineSteps /\ d \in LineSteps
      BY <2>1, <3>1, SpareUsed, Zenon
    <3>3. e \in HeldSteps /\ f \in HeldSteps /\ g \in HeldSteps /\ h \in HeldSteps
      BY <2>1, CalmUsed, PickitUsed, Zenon
    <3> QED
      BY <1>1, <3>2, <3>3, Fewer
  <2>3. PICK list : list = <<a, b, c, b, d, c, e, f, g, h>>
    OBVIOUS
  <2>4. list \in Seq(PacketSteps)
    BY <2>2, <2>3
  <2>5. PICK q, r, s, t : q = Receive /\ r = ExpectBytes(1) /\ s = Expect("status")
                          /\ t = Expect("unprotected")
    OBVIOUS
  <2>6. pickit_enter = <<Packet(list), q, r, s, t>>
    BY <2>1, <2>3, <2>5, Zenon DEF pickit_enter
  <2>7. Head(pickit_enter) = Packet(list)
    BY <2>6
  <2>8. Packet(list) \in AnyCommands
    BY <2>4 DEF Packet, Do, AnyCommands
  <2> QED
    BY <2>7, <2>8 DEF Resetting
<1> QED
  BY <1>1, <1>3, <1>4, <1>5, <1>6, <1>7 DEF AnyCommands

\* The script of the session is a list of them, and the processor is told to enter
\* serial execution when the adapter is in programming mode.
LEMMA TodoListed ==
  ASSUME IInv
  PROVE  /\ todo \in Seq(AnyCommands)
         /\ todo # <<>> /\ Head(todo).op = "SerialExecutionMode" => dev.inPgmMode
<1>1. adapter \in {"usbpic", "pickit", "ascii"} /\ stage \in Stages
  BY DEF IInv, TypeOK
<1>2. \A c \in AnyCommands : c \in SerialCommands \/ c.op # "SerialExecutionMode"
  BY DEF AnyCommands, PacketSteps, CalmSteps, SpareSteps, Numbered, Do
<1>3. \A c \in HeldCommands \cup CalmCommands \cup SpareCommands \cup LineCommands :
          c.op # "SerialExecutionMode"
  BY DEF HeldCommands, CalmCommands, SpareCommands, LineCommands, HeldSteps, LineSteps,
         CalmSteps, SpareSteps, Numbered
<1>4. \A S : S \subseteq AnyCommands =>
          \A list \in Seq(S) : /\ list \in Seq(AnyCommands)
                               /\ list # <<>> => Head(list) \in S
  OBVIOUS
<1>5. CASE todo = <<>>
  BY <1>5
<1>6. ASSUME todo \in Seq(SpareCommands) \/ todo \in Seq(LineCommands)
             \/ todo \in Seq(HeldCommands) \/ todo \in Seq(CalmCommands)
      PROVE  todo \in Seq(AnyCommands)
             /\ (todo # <<>> => Head(todo).op # "SerialExecutionMode")
  BY <1>3, <1>4, <1>6, AnyOf
<1>7. CASE stage = "open" /\ adapter = "usbpic"
  <2>0. PICK k \in {1, 2} : k = IF mode = "ICSP" THEN 1 ELSE 2
    OBVIOUS
  <2>1. PICK a, b, c, e, f : /\ a = Do("SetWiresMode", k)
                             /\ b = Do("SetupIOPorts", 1) /\ c = Reset5 /\ e = ReadWord
                             /\ f = Expect("idcode")
                             /\ adapter_open_usbpic(mode) =
                                    <<a, b, Do("EnterPgmMode", 0), c, e, f>>
    BY <2>0, Zenon DEF adapter_open_usbpic
  <2>2. /\ a \in AnyCommands /\ b \in AnyCommands /\ c \in AnyCommands
        /\ e \in AnyCommands /\ f \in AnyCommands
    <3>1. a \in SpareSteps /\ b \in SpareSteps
      BY <2>0, <2>1 DEF SpareSteps, Do
    <3>2. c \in HeldSteps /\ e \in HeldSteps /\ f \in HeldSteps
      BY <2>1, CalmUsed, Zenon
    <3> QED
      BY <3>1, <3>2, AnyOf, Fewer
  <2>3. PICK n : n = Do("EnterPgmMode", 0) /\ n \in AnyCommands
                 /\ n.op # "SerialExecutionMode"
    <3>1. PICK n : n = Do("EnterPgmMode", 0)
      OBVIOUS
    <3>2. n \in AnyCommands
      BY <3>1 DEF AnyCommands
    <3>3. n.op # "SerialExecutionMode"
      BY <3>1 DEF Do
    <3> QED
      BY <3>1, <3>2, <3>3, Zenon
  <2>4. /\ a.op # "SerialExecutionMode" /\ b.op # "SerialExecutionMode"
        /\ c.op # "SerialExecutionMode"
    BY <2>1 DEF Do, Reset5
  <2>5. \/ todo = <<a, b, n, c, e, f>>
        \/ todo = <<b, n, c, e, f>>
        \/ todo = <<n, c, e, f>>
        \/ todo = <<c, e, f>>
        \/ todo \in Seq(HeldCommands)
    BY <1>7, <2>1, <2>3, Zenon DEF IInv, TodoFits, Opening
  <2>6. CASE todo \in Seq(HeldCommands)
    BY <1>6, <2>6
  <2>7. CASE todo = <<a, b, n, c, e, f>>
    BY <2>2, <2>3, <2>4, <2>7
  <2>8. CASE todo = <<b, n, c, e, f>>
    BY <2>2, <2>3, <2>4, <2>8
  <2>9. CASE todo = <<n, c, e, f>>
    BY <2>2, <2>3, <2>4, <2>9
  <2>10. CASE todo = <<c, e, f>>
    BY <2>2, <2>3, <2>4, <2>10
  <2> QED
    BY <2>5, <2>6, <2>7, <2>8, <2>9, <2>10
<1>8. CASE stage = "open" /\ adapter = "pickit"
  BY <1>6, <1>8 DEF IInv, TodoFits
<1>9. CASE Resets(adapter, todo) /\ adapter \in {"pickit", "ascii"}
  <2>1. PICK S : S = LineCommands \cup {Resetting(adapter)} \cup HeldCommands
    OBVIOUS
  <2>2. todo \in Seq(S)
    BY <1>9, <2>1, Zenon DEF Resets
  <2>3. S \subseteq AnyCommands
    BY <1>9, <2>1, AnyOf
  <2>4. Resetting(adapter).op # "SerialExecutionMode"
    <3>1. Resetting("ascii").op # "SerialExecutionMode"
      BY DEF Resetting, Send, Do
    <3>2. PICK p, q, r, s, t : pickit_enter = <<Packet(p), q, r, s, t>>
      BY Zenon DEF pickit_enter
    <3>3. Resetting("pickit") = Packet(p)
      BY <3>2 DEF Resetting
    <3>4. Resetting("pickit").op # "SerialExecutionMode"
      BY <3>3 DEF Packet, Do
    <3> QED
      BY <1>9, <3>1, <3>4
  <2>5. \A c \in S : c.op # "SerialExecutionMode"
    BY <1>3, <2>1, <2>4
  <2> QED
    BY <1>4, <2>2, <2>3, <2>5
<1>10. CASE \/ stage \in {"identify"} \cup Later
            \/ stage = "status" /\ adapter # "pickit"
  <2>1. PICK S : S = WorkCommands(adapter)
    OBVIOUS
  <2>2. todo \in Seq(S) /\ (adapter = "usbpic" => dev.inPgmMode)
    BY <1>10, <2>1 DEF IInv, TodoFits
  <2>3. S \subseteq AnyCommands
        /\ \A c \in S : c.op # "SerialExecutionMode" \/ adapter = "usbpic"
    <3>1. CASE adapter = "usbpic"
      BY <2>1, <3>1, AnyOf DEF WorkCommands
    <3>2. CASE adapter = "pickit"
      <4>1. \A c \in Releasing : c.op # "SerialExecutionMode"
        BY DEF Releasing
      <4> QED
        BY <1>3, <2>1, <3>2, <4>1, AnyOf DEF WorkCommands
    <3>3. CASE adapter = "ascii"
      BY <1>3, <2>1, <3>3, AnyOf DEF WorkCommands
    <3> QED
      BY <1>1, <3>1, <3>2, <3>3
  <2> QED
    BY <1>4, <2>2, <2>3
<1>11. CASE stage \in {"close", "reject"}
  <2>1. \/ todo \in Seq(SpareCommands) \/ todo \in Seq(LineCommands)
        \/ todo \in Seq(CalmCommands)
    BY <1>11 DEF IInv, TodoFits
  <2> QED
    BY <1>6, <2>1
<1>12. CASE \/ stage = "open" /\ adapter = "ascii"
            \/ stage = "status" /\ adapter = "pickit"
  <2>1. Resets(adapter, todo) \/ todo \in Seq(HeldCommands)
    BY <1>12 DEF IInv, TodoFits
  <2> QED
    BY <1>6, <1>9, <1>12, <2>1
<1>13. stage \in {"off", "start"} => todo = <<>>
  BY DEF IInv, TodoFits
<1> QED
  BY <1>1, <1>5, <1>7, <1>8, <1>10, <1>11, <1>12, <1>13 DEF Stages, Later

\* Clearing what the last command has left leaves the buffers as they are.
LEMMA FreshBuffers ==
  ASSUME NEW d, Whole(d), NEW e, e = Fresh(d)
  PROVE  SameBuffers(d, e) /\ e.timeout = d.timeout
<1>1. PICK t : e = [d EXCEPT !.tap = t, !.missed = FALSE, !.deaf = FALSE, !.reply = 0]
  <2>1. PICK t : t = [d.tap EXCEPT !.scans = <<>>]
    OBVIOUS
  <2>2. e = [d EXCEPT !.tap.scans = <<>>, !.missed = FALSE, !.deaf = FALSE, !.reply = 0]
    BY Zenon DEF Fresh
  <2>3. DOMAIN d = Parts /\ DOMAIN d.tap = Fields
    BY DEF Whole, Sound
  <2>4. PICK none : none = <<>>
    OBVIOUS
  <2>5. e = [d EXCEPT !.tap = t, !.missed = FALSE, !.deaf = FALSE, !.reply = 0]
    BY <2>1, <2>2, <2>3, <2>4 DEF Parts
  <2> QED
    BY <2>5
<1>2. DOMAIN d = Parts
  BY DEF Whole
<1> QED
  BY <1>1, <1>2 DEF Parts, SameBuffers

\* A command that is no packet and has nothing to do with the buffers leaves them
\* as they are.
LEMMA QuietBuffers ==
  ASSUME NEW d, Whole(d), NEW c \in AnyCommands, c.op \notin Buffering, c.op # "Packet",
         c.op = "SerialExecutionMode" => d.inPgmMode, NEW e \in Effect(d, c)
  PROVE  SameBuffers(d, e)
<1>1. PICK x, y : Notes(d, x) /\ Whole(x) /\ y \in Simple(x, c) /\ (Whole(y) => Notes(y, e))
  BY PlainEffect
<1>2. SameBuffers(d, x) /\ DOMAIN d = Parts
  BY <1>1, NotesKeep DEF Whole
<1>3. x.inPgmMode = d.inPgmMode
  BY <1>1 DEF Notes, Parts
<1>4. Whole(y) /\ SameBuffers(x, y)
  <2>1. CASE c \in PacketSteps
    <3>1. Whole(y) /\ Fills(x, c, y)
      BY <1>1, <2>1, StepFills, Zenon
    <3> QED
      BY <3>1, Zenon DEF Fills
  <2>2. CASE c \in SerialCommands
    <3>1. PICK mx : mx = (c.arg = 1)
      OBVIOUS
    <3>2. c.op = "SerialExecutionMode"
      BY <2>2 DEF SerialCommands
    <3>3. y \in SerialExecutionMode(x, mx)
      BY <1>1, <3>1, <3>2, Zenon DEF Simple, Looks
    <3>4. Works(x, y)
      BY <1>1, <1>3, <3>2, <3>3, SerialWorks, Zenon
    <3> QED
      BY <3>4, WorksHandles
  <2>3. CASE c = Do("EnterPgmMode", 0)
    <3>1. c.op = "EnterPgmMode"
      BY <2>3 DEF Do
    <3>2. y = EnterPgmMode(x)
      BY <1>1, <3>1, Zenon DEF Simple, Looks
    <3> QED
      BY <1>1, <3>2, EnterSpares
  <2>4. c.op = "Packet" \/ c \in PacketSteps \cup SerialCommands
                            \cup {Do("EnterPgmMode", 0)}
    BY DEF AnyCommands
  <2> QED
    BY <2>1, <2>2, <2>3, <2>4
<1>5. SameBuffers(y, e)
  BY <1>1, <1>4, NotesKeep
<1> QED
  BY <1>2, <1>4, <1>5 DEF SameBuffers

\* A command of the session makes of the buffers what it is to make of them.
LEMMA PerformHolds ==
  ASSUME IInv, Perform, NEW x \in Fillings, Holds(dev, x),
         NEW y \in Fillings, Turn(Head(todo), x, y)
  PROVE  Holds(dev', y)
<1>1. PICK c : c = Head(todo)
  OBVIOUS
<1>2. todo # <<>> /\ dev' \in CASE c.op = "ReadStatus" -> {StatusRead(dev, c.arg)}
                 [] c.op \in Looks \ {"ReadStatus"} -> {dev}
                 [] c.op \notin Looks -> Effect(Fresh(dev), c)
  BY <1>1, Zenon DEF Perform
<1>3. Whole(dev) /\ c \in AnyCommands /\ (c.op = "SerialExecutionMode" => dev.inPgmMode)
  <2>1. Head(todo) \in AnyCommands
    BY <1>2, TodoListed
  <2> QED
    BY <1>1, <1>2, <2>1, TodoListed DEF IInv
<1>4. Turn(c, x, y)
  BY <1>1
<1>5. CASE c.op = "ReadStatus"
  <2>1. dev' = StatusRead(dev, c.arg)
    BY <1>2, <1>5, Zenon DEF Looks
  <2>2. StatusOf(dev, c.arg, dev')
    BY <1>3, <2>1, StatusReads, Zenon
  <2>3. /\ dev'.download = dev.download /\ dev'.dry = dev.dry
        /\ dev'.upload \in {0, dev.upload}
    BY <2>2 DEF StatusOf
  <2>4. y.down = x.down /\ y.up = x.up /\ ~ y.exact /\ y.up \in Nat
    BY <1>4, <1>5 DEF Turn, Fillings, Ups
  <2>5. ~ dev'.dry
    BY <2>3, Zenon DEF Holds
  <2> QED
    BY <2>3, <2>4, <2>5 DEF Holds
<1>6. CASE c.op \in Looks /\ c.op # "ReadStatus"
  <2>1. dev' = dev
    <3>1. /\ ~ (c.op = "ReadStatus") /\ c.op \in Looks \ {"ReadStatus"}
          /\ ~ (c.op \notin Looks)
      BY <1>6
    <3> QED
      BY <1>2, <3>1, Zenon
  <2>2. y = x
    BY <1>4, <1>6 DEF Turn, Looks
  <2> QED
    BY <2>1, <2>2, Zenon
<1>7. CASE c.op \notin Looks
  <2>1. dev' \in Effect(Fresh(dev), c)
    <3>1. ~ (c.op = "ReadStatus") /\ ~ (c.op \in Looks \ {"ReadStatus"})
      BY <1>7 DEF Looks
    <3> QED
      BY <1>2, <1>7, <3>1, Zenon
  <2>2. PICK d : /\ dev' \in Effect(d, c) /\ Whole(d) /\ d.inPgmMode = dev.inPgmMode
                 /\ SameBuffers(dev, d) /\ d.timeout = dev.timeout
    BY <1>3, <2>1, FreshKeeps, FreshBuffers, Zenon
  <2>3. Holds(d, x)
    <3>1. ~ d.dry /\ (x.exact /\ ~ d.timeout => d.upload = x.up)
      BY <2>2, Zenon DEF Holds, SameBuffers
    <3> QED
      BY <2>2, <3>1 DEF Holds, SameBuffers
  <2>4. CASE c.op = "Packet"
    <3>1. PICK steps : steps = c.arg
      OBVIOUS
    <3>2. steps = IF c.op = "Packet" THEN c.arg ELSE <<c>>
      BY <2>4, <3>1, Zenon
    <3>3. steps \in Seq(PacketSteps)
      BY <1>3, <2>4, <3>1 DEF AnyCommands, PacketSteps, CalmSteps, SpareSteps, Numbered,
                              SerialCommands, Do
    <3>4. PICK n \in Nat : n = Len(steps)
      BY <3>3
    <3>5. \A i \in 1 .. n : steps[i] \in PacketSteps
      BY <3>3, <3>4
    <3>6. PICK r, f, g :
              /\ Counts(steps, n, r, f, g)
              /\ f[0] = x.down /\ g[0] = x.up /\ f[n] = y.down /\ g[n] = y.up
              /\ y.exact => r > 0
      BY <1>4, <2>4, <3>1, <3>4, Zenon DEF Turn, Packed
    <3> QED
      BY <2>2, <2>3, <3>2, <3>4, <3>5, <3>6, PacketHolds
  <2>5. CASE c.op # "Packet"
    <3>1. y = x /\ c.op \notin Buffering /\ ~ x.exact
      BY <1>4, <1>7, <2>5 DEF Turn, Looks
    <3>2. SameBuffers(d, dev')
      BY <1>3, <2>2, <2>5, <3>1, QuietBuffers
    <3>3. ~ dev'.dry
      BY <2>3, <3>2, Zenon DEF Holds, SameBuffers
    <3> QED
      BY <2>3, <3>1, <3>2, <3>3 DEF Holds, SameBuffers
  <2> QED
    BY <2>4, <2>5
<1> QED
  BY <1>5, <1>6, <1>7

-----------------------------------------------------------------------------
(* The packets of the PICkit, counted.                                     *)

\* The list of the packet of four words.
LEMMA QuadList ==
  ASSUME NEW S, NEW c \in S, NEW d \in S, NEW e \in S, NEW f \in S
  PROVE  <<c, d>> \o Times(6, e) \o <<f>> = <<c, d, e, e, e, e, e, e, f>>
<1>1. PICK q \in Seq(S) : q = Times(6, e) /\ Len(q) = 6 /\ \A j \in 1 .. 6 : q[j] = e
  <2>1. 6 \in Nat
    OBVIOUS
  <2>2. PICK q : q = Times(6, e)
    OBVIOUS
  <2>3. q \in Seq(S) /\ Len(q) = 6 /\ \A j \in 1 .. 6 : q[j] = e
    BY <2>1, <2>2, TimesIs
  <2> QED
    BY <2>2, <2>3, Zenon
<1>10. /\ <<c, d>> \in Seq(S) /\ <<f>> \in Seq(S)
       /\ <<c, d, e, e, e, e, e, e>> \in Seq(S) /\ <<c, d, e, e, e, e, e, e, f>> \in Seq(S)
  OBVIOUS
<1>2. PICK u \in Seq(S) : u = <<c, d>>
  BY <1>10, Zenon
<1>3. PICK v \in Seq(S) : v = <<f>>
  BY <1>10, Zenon
<1>4. PICK s \in Seq(S) : s = <<c, d, e, e, e, e, e, e>>
  BY <1>10, Zenon
<1>5. PICK t \in Seq(S) : t = <<c, d, e, e, e, e, e, e, f>>
  BY <1>10, Zenon
<1>6. /\ Len(u) = 2 /\ u[1] = c /\ u[2] = d /\ Len(v) = 1 /\ v[1] = f /\ Len(s) = 8
      /\ s[1] = c /\ s[2] = d /\ \A j \in 3 .. 8 : s[j] = e
  BY <1>2, <1>3, <1>4
<1>7. Len(t) = 9 /\ t[9] = f /\ \A j \in 1 .. 8 : t[j] = s[j]
  BY <1>4, <1>5
<1>8. u \o q = s
  <2>1. ASSUME NEW j \in 1 .. 8 PROVE s[j] = IF j <= 2 THEN u[j] ELSE q[j - 2]
    <3>1. CASE j <= 2
      BY <1>6, <3>1
    <3>2. CASE j > 2
      <4>1. j - 2 \in 1 .. 6 /\ j \in 3 .. 8
        BY <3>2
      <4> QED
        BY <1>1, <1>6, <3>2, <4>1
    <3> QED
      BY <3>1, <3>2
  <2>2. Len(u) = 2 /\ Len(q) = 6 /\ Len(s) = 8
    BY <1>1, <1>6
  <2>3. Len(s) = Len(u) + Len(q)
    BY <2>2
  <2>4. \A j \in 1 .. Len(u) + Len(q) : s[j] = IF j <= Len(u) THEN u[j] ELSE q[j - Len(u)]
    <3>1. Len(u) + Len(q) = 8
      BY <2>2
    <3> QED
      BY <2>1, <2>2, <3>1, Zenon
  <2> QED
    BY <2>3, <2>4, JoinIs, Zenon
<1>9. s \o v = t
  <2>1. ASSUME NEW j \in 1 .. 9 PROVE t[j] = IF j <= 8 THEN s[j] ELSE v[j - 8]
    <3>1. CASE j <= 8
      <4>1. j \in 1 .. 8
        BY <3>1
      <4> QED
        BY <1>7, <3>1, <4>1
    <3>2. CASE j > 8
      <4>1. j = 9 /\ j - 8 = 1
        BY <3>2
      <4> QED
        BY <1>6, <1>7, <3>2, <4>1
    <3> QED
      BY <3>1, <3>2
  <2>2. Len(s) = 8 /\ Len(v) = 1 /\ Len(t) = 9
    BY <1>6, <1>7
  <2>3. Len(t) = Len(s) + Len(v)
    BY <2>2
  <2>4. \A j \in 1 .. Len(s) + Len(v) : t[j] = IF j <= Len(s) THEN s[j] ELSE v[j - Len(s)]
    <3>1. Len(s) + Len(v) = 9
      BY <2>2
    <3> QED
      BY <2>1, <2>2, <3>1, Zenon
  <2> QED
    BY <2>3, <2>4, JoinIs, Zenon
<1> QED
  BY <1>1, <1>2, <1>3, <1>5, <1>8, <1>9, Zenon

\* Scripts that read the identity, program a word or two of them, or erase the chip.
LEMMA ShortChains ==
  ASSUME NEW a \in Fillings,
         NEW list \in {pickit_get_idcode, pickit_program_word, pickit_program_quad_word,
                       pickit_erase_chip, pickit_enter}
  PROVE  EndsWithin(list, a, 8)
<1>0. /\ 4 \in Nat /\ 4 \in 0 .. 8 /\ 1 \in 0 .. 8 /\ 6 \in Nat /\ 9 \in Nat /\ 10 \in Nat
      /\ 3 \in Nat /\ 5 \in Nat /\ TRUE \in BOOLEAN /\ FALSE \in BOOLEAN
  OBVIOUS
<1>1. CASE list = pickit_get_idcode
  <2>1. PICK c, d, e, f : /\ c = ClearUpload /\ d = Instr(SW_MTAP) /\ e = Instr(IDCODE)
                          /\ f = Read32
    OBVIOUS
  <2>2. /\ c.op = "ClearUpload" /\ d.op = "SendCommand" /\ e.op = "SendCommand"
        /\ f.op = "XferData32"
    BY <2>1, Named
  <2>3. PICK g, h, i : g = Receive /\ h = ExpectBytes(4) /\ i = Expect("idcode")
    OBVIOUS
  <2>4. g.op = "Receive" /\ h.op = "ExpectBytes" /\ h.arg = 4 /\ i.op = "Expect"
    BY <2>3, Named
  <2>5. PICK p : p = <<c, d, e, f>>
    OBVIOUS
  <2>6. list = <<Packet(p), g, h, i>>
    BY <1>1, <2>1, <2>3, <2>5, Zenon DEF pickit_get_idcode
  <2>7. Reads(p, 4, 4) /\ Asks(list, 4, p, 4, TRUE)
    BY <2>2, <2>4, <2>5, <2>6 DEF Reads, Buffering, Asks
  <2> QED
    BY <1>0, <2>7, ReadLeads, Zenon
<1>2. CASE list = pickit_program_word
  <2>1. PICK c, d, e, f : /\ c = ClearUpload /\ d = Instr(FASTDATA) /\ e = FastLit(CODE)
                          /\ f = PeResponse
    OBVIOUS
  <2>2. /\ c.op = "ClearUpload" /\ d.op = "SendCommand" /\ e.op = "XferFastData"
        /\ f.op = "GetPeResp" /\ f.arg = 1
    BY <2>1, Named
  <2>3. PICK g, h, i : g = Receive /\ h = ExpectBytes(4) /\ i = Expect("pe")
    OBVIOUS
  <2>4. g.op = "Receive" /\ h.op = "ExpectBytes" /\ h.arg = 4 /\ i.op = "Expect"
    BY <2>3, Named
  <2>5. PICK p : p = <<c, d, e, e, e, f>>
    OBVIOUS
  <2>6. list = <<Packet(p), g, h, i>>
    BY <1>2, <2>1, <2>3, <2>5, Zenon DEF pickit_program_word
  <2>7. Reads(p, 6, 4) /\ Asks(list, 4, p, 4, TRUE)
    BY <2>2, <2>4, <2>5, <2>6 DEF Reads, Buffering, Asks
  <2> QED
    BY <1>0, <2>7, ReadLeads, Zenon
<1>3. CASE list = pickit_program_quad_word
  <2>1. PICK c, d, e, f : /\ c = ClearUpload /\ d = Instr(FASTDATA) /\ e = FastLit(CODE)
                          /\ f = PeResponse
    OBVIOUS
  <2>2. /\ c.op = "ClearUpload" /\ d.op = "SendCommand" /\ e.op = "XferFastData"
        /\ f.op = "GetPeResp" /\ f.arg = 1
    BY <2>1, Named
  <2>3. PICK g, h, i : g = Receive /\ h = ExpectBytes(4) /\ i = Expect("pe")
    OBVIOUS
  <2>4. g.op = "Receive" /\ h.op = "ExpectBytes" /\ h.arg = 4 /\ i.op = "Expect"
    BY <2>3, Named
  <2>5. PICK p : p = <<c, d>> \o Times(6, e) \o <<f>>
    OBVIOUS
  <2>6. list = <<Packet(p), g, h, i>>
    BY <1>3, <2>1, <2>3, <2>5, Zenon DEF pickit_program_quad_word
  <2>7. p = <<c, d, e, e, e, e, e, e, f>>
    <3>1. PICK S : S = {c, d, e, f}
      OBVIOUS
    <3>2. c \in S /\ d \in S /\ e \in S /\ f \in S
      BY <3>1
    <3>3. <<c, d>> \o Times(6, e) \o <<f>> = <<c, d, e, e, e, e, e, e, f>>
      BY <3>2, QuadList
    <3> QED
      BY <2>5, <3>3, Zenon
  <2>8. Reads(p, 9, 4) /\ Asks(list, 4, p, 4, TRUE)
    <3>1. Reads(p, 9, 4)
      BY <2>2, <2>7 DEF Reads, Buffering
    <3>2. Asks(list, 4, p, 4, TRUE)
      BY <2>4, <2>6 DEF Asks
    <3> QED
      BY <3>1, <3>2
  <2> QED
    BY <1>0, <2>8, ReadLeads, Zenon
<1>4. CASE list = pickit_erase_chip
  <2>1. PICK c, d, e, f : /\ c = ClearUpload /\ d = Instr(SW_MTAP) /\ e = Instr(COMMAND)
                          /\ f = Read8(252)
    OBVIOUS
  <2>2. /\ c.op = "ClearUpload" /\ d.op = "SendCommand" /\ e.op = "SendCommand"
        /\ f.op = "XferData8"
    BY <2>1, Named
  <2>3. PICK g, h : g = ReadStatus(0) /\ h = Expect("ready")
    OBVIOUS
  <2>4. g.op = "ReadStatus" /\ h.op = "Expect"
    BY <2>3, Named
  <2>5. PICK p : p = <<c, d, e, f>>
    OBVIOUS
  <2>6. list = <<Packet(p)>> \o <<g, h>>
    BY <1>4, <2>1, <2>3, <2>5, Zenon DEF pickit_erase_chip, check_timeout
  <2>7. Reads(p, 4, 1) /\ Asks(list, 3, p, 1, FALSE)
    BY <2>2, <2>4, <2>5, <2>6 DEF Reads, Buffering, Asks
  <2> QED
    BY <1>0, <2>7, ReadLeads, Zenon
<1>5. CASE list = pickit_enter
  <2>1. PICK c, d, e, f, g, h, i, j :
            /\ c = ClearUpload /\ d = Do("Ground", 0) /\ e = Do("Raise", 0)
            /\ f = Do("Signature", 0) /\ g = Reset5 /\ h = Instr(SW_MTAP)
            /\ i = Instr(COMMAND) /\ j = Read8(0)
    OBVIOUS
  <2>2. /\ c.op = "ClearUpload" /\ d.op = "Ground" /\ e.op = "Raise"
        /\ f.op = "Signature" /\ g.op = "SetMode" /\ h.op = "SendCommand"
        /\ i.op = "SendCommand" /\ j.op = "XferData8"
    BY <2>1, Named
  <2>3. PICK k, l, m, n : /\ k = Receive /\ l = ExpectBytes(1) /\ m = Expect("status")
                          /\ n = Expect("unprotected")
    OBVIOUS
  <2>4. /\ k.op = "Receive" /\ l.op = "ExpectBytes" /\ l.arg = 1 /\ m.op = "Expect"
        /\ n.op = "Expect"
    BY <2>3, Named
  <2>5. PICK p : p = <<c, d, e, d, f, e, g, h, i, j>>
    OBVIOUS
  <2>6. list = <<Packet(p), k, l, m, n>>
    BY <1>5, <2>1, <2>3, <2>5, Zenon DEF pickit_enter
  <2>7. Reads(p, 10, 1) /\ Asks(list, 5, p, 1, TRUE)
    <3>1. Reads(p, 10, 1)
      BY <2>2, <2>5 DEF Reads, Buffering
    <3>2. Asks(list, 5, p, 1, TRUE)
      BY <2>4, <2>6 DEF Asks
    <3> QED
      BY <3>1, <3>2
  <2> QED
    BY <1>0, <2>7, ReadLeads, Zenon
<1> QED
  BY <1>1, <1>2, <1>3, <1>4, <1>5

\* A step of the load: its words are used up.
LEMMA StepChain ==
  ASSUME NEW words \in Seq(Nat), NEW w \in Nat, w = Len(words), NEW S,
         NEW commands \in Seq(S), NEW n \in Nat, n = Len(commands), NEW k \in 1 .. n,
         commands[k].op \in {"XferInstBuf", "XfrFastBuf"}, commands[k].arg = w,
         \A i \in 1 .. n : i # k => commands[i].op \notin Buffering,
         NEW a \in Fillings
  PROVE  Chain(StepSends(words, commands), a, Filling(0, a.up, FALSE))
<1>1. PICK c, d : c = ClearDownload /\ d = Download(words)
  OBVIOUS
<1>2. c.op = "ClearDownload" /\ d.op = "Download" /\ d.arg = words
  BY <1>1, Named
<1>3. PICK T : T = S \cup {c, d}
  OBVIOUS
<1>4. /\ commands \in Seq(T) /\ <<c, d>> \in Seq(T)
  BY <1>3
<1>5. PICK p : p = <<c, d>> \o commands
  OBVIOUS
<1>6. /\ Len(p) = n + 2 /\ p[1] = c /\ p[2] = d
      /\ \A i \in 3 .. n + 2 : p[i] = commands[i - 2]
  <2>1. PICK q \in Seq(T) : q = <<c, d>>
    BY <1>4, Zenon
  <2>3. Len(q) = 2 /\ q[1] = c /\ q[2] = d
    BY <2>1
  <2>4. p = q \o commands
    BY <1>5, <2>1, Zenon
  <2>2. /\ Len(p) = Len(q) + Len(commands)
        /\ \A i \in 1 .. Len(q) + Len(commands) :
               p[i] = IF i <= Len(q) THEN q[i] ELSE commands[i - Len(q)]
    BY <1>4, <2>4, ConcatProperties, Zenon
  <2>5. Len(p) = 2 + n
    BY <2>2, <2>3, Zenon
  <2>6. \A i \in 1 .. 2 + n : p[i] = IF i <= 2 THEN q[i] ELSE commands[i - 2]
    BY <2>2, <2>3, Zenon
  <2>7. /\ 1 \in 1 .. 2 + n /\ 2 \in 1 .. 2 + n /\ 1 <= 2 /\ 2 <= 2 /\ 2 + n = n + 2
        /\ \A i \in 3 .. n + 2 : i \in 1 .. 2 + n /\ ~ (i <= 2)
    OBVIOUS
  <2> QED
    BY <2>3, <2>5, <2>6, <2>7, Zenon
<1>7. /\ n + 2 \in Nat /\ 1 \in {0, 1} /\ 2 \in 1 .. n + 2 /\ k + 2 \in 1 .. n + 2
      /\ 1 < 2 /\ 2 < k + 2
  OBVIOUS
<1>8. /\ p[2].op = "Download" /\ Len(p[2].arg) = w
      /\ p[k + 2].op \in {"XferInstBuf", "XfrFastBuf"} /\ p[k + 2].arg = w
      /\ 1 = 1 => p[1].op = "ClearDownload"
  <2>1. p[2] = d /\ p[1] = c /\ p[k + 2] = commands[k]
    <3>1. k + 2 \in 3 .. n + 2 /\ (k + 2) - 2 = k
      OBVIOUS
    <3> QED
      BY <1>6, <3>1, Zenon
  <2> QED
    BY <1>2, <2>1, Zenon
<1>9. ASSUME NEW i \in 1 .. n + 2, i \notin {1, 2, k + 2} PROVE p[i].op \notin Buffering
  <2>1. i - 2 \in 1 .. n /\ i - 2 # k /\ i \in 3 .. n + 2
    BY <1>9
  <2> QED
    BY <1>6, <2>1
<1>10. w = IF 1 = 1 THEN w ELSE a.down + w
  OBVIOUS
<1>11. Packed(p, a, Filling(0, a.up, FALSE))
  BY <1>6, <1>7, <1>8, <1>9, <1>10, UsePacks
<1>12. PICK b \in Fillings : b = Filling(0, a.up, FALSE) /\ b.exact = FALSE
  BY UsedFits
<1>13. PICK g, h : g = ReadStatus(0) /\ h = Expect("ready")
  OBVIOUS
<1>14. g.op = "ReadStatus" /\ h.op = "Expect"
  BY <1>13, Named
<1>15. StepSends(words, commands) = <<Packet(p)>> \o <<g, h>>
  BY <1>1, <1>5, <1>13, Zenon DEF StepSends, check_timeout
<1>16. PICK list : list = StepSends(words, commands)
  OBVIOUS
<1>17. list = <<Packet(p), g, h>>
  BY <1>15, <1>16, Joins, Zenon
<1>18. Asks(list, 3, p, b.up, b.exact)
  <2>1. Asks(list, 3, p, b.up, FALSE)
    BY <1>14, <1>17 DEF Asks
  <2> QED
    BY <1>12, <2>1, Zenon
<1>19. Chain(list, a, b)
  <2>1. 3 \in Nat
    OBVIOUS
  <2> QED
    BY <1>11, <1>12, <1>18, <2>1, AskedChain, Zenon
<1> QED
  BY <1>12, <1>16, <1>19, Zenon

\* Lists that all lead to the same place do so together.
LEMMA ChainJoin ==
  ASSUME NEW S, NEW m \in Nat \ {0}, NEW p, \A i \in 1 .. m : p[i] \in Seq(S),
         NEW f, JoinRun(p, m, f), NEW a, NEW s,
         \A i \in 1 .. m : Chain(p[i], a, s) /\ Chain(p[i], s, s)
  PROVE  Chain(f[m], a, s)
<1>1. \A i \in 0 .. m : f[i] = IF i = 0 THEN <<>> ELSE f[i - 1] \o p[i]
  BY DEF JoinRun
<1>2. \A i \in 0 .. m : f[i] \in Seq(S)
  BY JoinedIn
<1>3. f[1] = p[1]
  <2>1. PICK q \in Seq(S) : q = p[1]
    OBVIOUS
  <2>2. 0 \in 0 .. m /\ 1 \in 0 .. m /\ 1 # 0 /\ 1 - 1 = 0
    OBVIOUS
  <2>3. f[1] = <<>> \o p[1]
    BY <1>1, <2>2, Zenon
  <2>4. <<>> \o q = q
    OBVIOUS
  <2> QED
    BY <2>1, <2>3, <2>4, Zenon
<1> DEFINE R == {i \in 0 .. m : i > 0 => Chain(f[i], a, s)}
<1>4. 0 \in R
  OBVIOUS
<1>5. ASSUME NEW i \in 0 .. m - 1, i \in R PROVE i + 1 \in R
  <2>1. i + 1 \in 0 .. m /\ i + 1 \in 1 .. m
    OBVIOUS
  <2>2. CASE i = 0
    <3>1. Chain(p[1], a, s)
      OBVIOUS
    <3> QED
      BY <1>3, <2>1, <2>2, <3>1
  <2>3. CASE i # 0
    <3>1. Chain(f[i], a, s)
      BY <1>5, <2>3
    <3>2. Chain(p[i + 1], s, s)
      BY <2>1
    <3>3. f[i] \in Seq(S) /\ p[i + 1] \in Seq(S)
      BY <1>2, <2>1
    <3>4. f[i + 1] = f[i] \o p[i + 1]
      <4>1. i + 1 # 0 /\ (i + 1) - 1 = i
        BY <2>3
      <4> QED
        BY <1>1, <2>1, <4>1, Zenon
    <3>5. Chain(f[i + 1], a, s)
      BY <3>1, <3>2, <3>3, <3>4, ChainCat, Zenon
    <3> QED
      BY <2>1, <3>5, Zenon
  <2> QED
    BY <2>2, <2>3
<1> HIDE DEF R
<1>6. \A i \in 0 .. m - 1 : i \in R => i + 1 \in R
  BY <1>5
<1>7. m \in Nat
  OBVIOUS
<1>8. \A i \in 0 .. m : i \in R
  BY <1>4, <1>6, <1>7, UpTo
<1>9. m \in R /\ m > 0
  BY <1>8
<1> QED
  BY <1>9 DEF R

\* The words of the load and the scripts that use them.
LEMMA LoadWords ==
  ASSUME NEW n \in Nat, NEW a \in Fillings
  PROVE  /\ Chain(StepSends(Times(7, CODE), <<Instr(SW_ETAP), Reset5, Give(7)>>), a,
                  Filling(0, a.up, FALSE))
         /\ Chain(StepSends(Times(5, CODE), <<Give(5)>>), a, Filling(0, a.up, FALSE))
         /\ Chain(StepSends(Times(4, CODE), <<Give(4)>>), a, Filling(0, a.up, FALSE))
         /\ Chain(StepSends(Append(Times(3, CODE), JUMP),
                            <<Give(4), Instr(SW_ETAP), Reset5, Instr(FASTDATA),
                              FastLit(CODE), FastLit(n)>>), a, Filling(0, a.up, FALSE))
         /\ Chain(StepSends(<<0, STOP>>, <<FastBuf(2)>>), a, Filling(0, a.up, FALSE))
         /\ \A i \in Nat : Chain(StepSends(PeChunk(n, i), <<FastBuf(10)>>), a,
                                 Filling(0, a.up, FALSE))
<1>1. CODE \in Nat /\ JUMP \in Nat /\ STOP \in Nat /\ 7 \in Nat /\ 5 \in Nat /\ 4 \in Nat
      /\ 3 \in Nat /\ 2 \in Nat /\ 10 \in Nat /\ 6 \in Nat /\ 1 \in Nat
  BY InstructionNumbers
<1>2. ASSUME NEW words \in Seq(Nat), NEW w \in Nat, Len(words) = w,
             NEW c \in {Give(w), FastBuf(w)}
      PROVE  Chain(StepSends(words, <<c>>), a, Filling(0, a.up, FALSE))
  <2>1. c.op \in {"XferInstBuf", "XfrFastBuf"} /\ c.arg = w
    BY <1>2, Named
  <2>2. PICK S : S = {c}
    OBVIOUS
  <2>3. PICK p : p = <<c>>
    OBVIOUS
  <2>4. /\ p \in Seq(S) /\ 1 = Len(p) /\ 1 \in 1 .. 1 /\ p[1] = c
        /\ \A i \in 1 .. 1 : i # 1 => p[i].op \notin Buffering
    BY <2>2, <2>3
  <2>5. p[1].op \in {"XferInstBuf", "XfrFastBuf"} /\ p[1].arg = w
    BY <2>1, <2>4, Zenon
  <2>6. Chain(StepSends(words, p), a, Filling(0, a.up, FALSE))
    BY <1>1, <1>2, <2>4, <2>5, StepChain, Zenon
  <2> QED
    BY <2>3, <2>6, Zenon
<1>3. ASSUME NEW w \in Nat
      PROVE  Times(w, CODE) \in Seq(Nat) /\ Len(Times(w, CODE)) = w
  BY <1>1, TimesIs, Zenon
<1>4. Chain(StepSends(Times(7, CODE), <<Instr(SW_ETAP), Reset5, Give(7)>>), a,
            Filling(0, a.up, FALSE))
  <2>1. PICK c, d, e : c = Instr(SW_ETAP) /\ d = Reset5 /\ e = Give(7)
    OBVIOUS
  <2>2. c.op = "SendCommand" /\ d.op = "SetMode" /\ e.op = "XferInstBuf" /\ e.arg = 7
    BY <2>1, Named
  <2>3. PICK S : S = {c, d, e}
    OBVIOUS
  <2>4. PICK p : p = <<c, d, e>>
    OBVIOUS
  <2>5. p \in Seq(S) /\ 3 = Len(p) /\ p[1] = c /\ p[2] = d /\ p[3] = e /\ 3 \in 1 .. 3
    BY <2>3, <2>4
  <2>6. /\ p[3].op \in {"XferInstBuf", "XfrFastBuf"} /\ p[3].arg = 7
        /\ \A i \in 1 .. 3 : i # 3 => p[i].op \notin Buffering
    BY <2>2, <2>5 DEF Buffering
  <2>7. PICK t \in Seq(Nat) : t = Times(7, CODE) /\ Len(t) = 7
    BY <1>1, <1>3, Zenon
  <2>8. Chain(StepSends(t, p), a, Filling(0, a.up, FALSE))
    BY <1>1, <2>5, <2>6, <2>7, StepChain, Zenon
  <2> QED
    BY <2>1, <2>4, <2>7, <2>8, Zenon
<1>5. Chain(StepSends(Append(Times(3, CODE), JUMP),
                      <<Give(4), Instr(SW_ETAP), Reset5, Instr(FASTDATA),
                        FastLit(CODE), FastLit(n)>>), a, Filling(0, a.up, FALSE))
  <2>1. PICK c, d, e, f, g, h : /\ c = Give(4) /\ d = Instr(SW_ETAP) /\ e = Reset5
                                /\ f = Instr(FASTDATA) /\ g = FastLit(CODE) /\ h = FastLit(n)
    OBVIOUS
  <2>2. /\ c.op = "XferInstBuf" /\ c.arg = 4 /\ d.op = "SendCommand" /\ e.op = "SetMode"
        /\ f.op = "SendCommand" /\ g.op = "XferFastData" /\ h.op = "XferFastData"
    BY <2>1, Named
  <2>3. PICK S : S = {c, d, e, f, g, h}
    OBVIOUS
  <2>4. PICK p : p = <<c, d, e, f, g, h>>
    OBVIOUS
  <2>5. /\ p \in Seq(S) /\ 6 = Len(p) /\ p[1] = c /\ 1 \in 1 .. 6
        /\ p[2] = d /\ p[3] = e /\ p[4] = f /\ p[5] = g /\ p[6] = h
    BY <2>3, <2>4
  <2>6. /\ p[1].op \in {"XferInstBuf", "XfrFastBuf"} /\ p[1].arg = 4
        /\ \A i \in 1 .. 6 : i # 1 => p[i].op \notin Buffering
    BY <2>2, <2>5 DEF Buffering
  <2>7. PICK s \in Seq(Nat) : s = Times(3, CODE) /\ Len(s) = 3
    BY <1>1, <1>3, Zenon
  <2>8. PICK t : t = Append(s, JUMP)
    OBVIOUS
  <2>9. t \in Seq(Nat) /\ 4 = Len(t)
    <3>1. t \in Seq(Nat) /\ Len(t) = Len(s) + 1
      BY <1>1, <2>8, Appended, Zenon
    <3>2. 4 = 3 + 1
      OBVIOUS
    <3> QED
      BY <2>7, <3>1, <3>2, Zenon
  <2>10. Chain(StepSends(t, p), a, Filling(0, a.up, FALSE))
    BY <1>1, <2>5, <2>6, <2>9, StepChain, Zenon
  <2> QED
    BY <2>1, <2>4, <2>7, <2>8, <2>10, Zenon
<1>6. /\ Chain(StepSends(Times(5, CODE), <<Give(5)>>), a, Filling(0, a.up, FALSE))
      /\ Chain(StepSends(Times(4, CODE), <<Give(4)>>), a, Filling(0, a.up, FALSE))
  BY <1>1, <1>2, <1>3
<1>7. Chain(StepSends(<<0, STOP>>, <<FastBuf(2)>>), a, Filling(0, a.up, FALSE))
  <2>1. PICK t : t = <<0, STOP>>
    OBVIOUS
  <2>2. t \in Seq(Nat) /\ Len(t) = 2
    BY <1>1, <2>1
  <2> QED
    BY <1>1, <1>2, <2>1, <2>2
<1>8. ASSUME NEW i \in Nat
      PROVE  Chain(StepSends(PeChunk(n, i), <<FastBuf(10)>>), a, Filling(0, a.up, FALSE))
  <2>1. PICK t : t = PeChunk(n, i)
    OBVIOUS
  <2>2. t \in Seq(Nat) /\ Len(t) = 10
    BY <1>1, <2>1 DEF PeChunk
  <2> QED
    BY <1>1, <1>2, <2>1, <2>2
<1> QED
  BY <1>4, <1>5, <1>6, <1>7, <1>8, Zenon

\* One list after another.
LEMMA Onward ==
  ASSUME NEW S, NEW p, NEW q, NEW a, NEW b, NEW c, Way(S, p, a, b), Way(S, q, b, c)
  PROVE  Way(S, p \o q, a, c)
<1>1. p \in Seq(S) /\ q \in Seq(S) /\ Chain(p, a, b) /\ Chain(q, b, c)
  BY DEF Way
<1>2. p \o q \in Seq(S)
  BY <1>1, Joined, Zenon
<1>3. Chain(p \o q, a, c)
  BY <1>1, ChainCat, Zenon
<1> QED
  BY <1>2, <1>3, Zenon DEF Way

\* The script that loads the executive.
LEMMA LoadChain ==
  ASSUME NEW n \in Nat, n > 0, NEW a \in Fillings
  PROVE  EndsWithin(pickit_load_executive(n), a, 8)
<1>1. PICK s \in Fillings : s = Filling(0, a.up, FALSE) /\ s.up = a.up /\ s.exact = FALSE
  BY UsedFits, Zenon
<1>2. s = Filling(0, s.up, FALSE)
  BY <1>1, Zenon
<1>3. PICK p, q, r, t, u, v, x, y, z \in Seq(HeldCommands) :
          LoadOf(n, p, q, r, t, u, v, x, y, z)
  BY LoadParts
<1>4. /\ Chain(p, a, s) /\ Chain(q, s, s) /\ Chain(r, s, s) /\ Chain(t, s, s)
      /\ Chain(v, s, s)
  <2>1. Chain(p, a, s)
    BY <1>1, <1>3, LoadWords, Zenon DEF LoadOf
  <2>2. Chain(q, s, s) /\ Chain(r, s, s) /\ Chain(t, s, s) /\ Chain(v, s, s)
    BY <1>2, <1>3, LoadWords, Zenon DEF LoadOf
  <2> QED
    BY <2>1, <2>2
<1>5. Chain(u, s, s)
  <2>1. PICK m \in Nat \ {0} : m = PePackets(n)
    BY DEF PePackets
  <2>2. PICK f : /\ JoinRun(f, m, Chunks(n))
                 /\ \A i \in 1 .. m : /\ f[i] = StepSends(PeChunk(n, i), <<FastBuf(10)>>)
                                      /\ f[i] \in Seq(HeldCommands)
    BY <2>1, ChunksRun, Zenon
  <2>3. \A i \in 1 .. m : Chain(f[i], s, s)
    <3> SUFFICES ASSUME NEW i \in 1 .. m PROVE Chain(f[i], s, s)
      OBVIOUS
    <3>1. i \in Nat
      OBVIOUS
    <3>2. Chain(StepSends(PeChunk(n, i), <<FastBuf(10)>>), s, s)
      BY <1>2, <3>1, LoadWords, Zenon
    <3> QED
      BY <2>2, <3>2, Zenon
  <2>4. PICK g : g = Chunks(n)
    OBVIOUS
  <2>5. Chain(g[m], s, s)
    BY <2>2, <2>3, <2>4, ChainJoin, Zenon
  <2> QED
    BY <1>3, <2>1, <2>4, <2>5, Zenon DEF LoadOf
<1>6. PICK b \in Fillings : Chain(x, s, b) /\ b.up = 4 /\ b.exact = FALSE
  BY <1>3, LoadAsks, Zenon DEF LoadOf
<1>7. Chain(y, b, b) /\ Chain(z, b, b)
  BY <1>3, <1>6, LoadLooks, Zenon DEF LoadOf
<1>8. PICK S : S = HeldCommands
  OBVIOUS
<1>9. /\ Way(S, p, a, s) /\ Way(S, q, s, s) /\ Way(S, r, s, s) /\ Way(S, t, s, s)
      /\ Way(S, u, s, s) /\ Way(S, v, s, s) /\ Way(S, x, s, b) /\ Way(S, y, b, b)
      /\ Way(S, z, b, b)
  BY <1>4, <1>5, <1>6, <1>7, <1>8, Zenon DEF Way
<1>10. Way(S, p \o q \o r, a, s)
  BY <1>9, Onward, Zenon
<1>11. Way(S, p \o q \o r \o t \o u, a, s)
  BY <1>9, <1>10, Onward, Zenon
<1>12. Way(S, p \o q \o r \o t \o u \o v \o x, a, b)
  BY <1>9, <1>11, Onward, Zenon
<1>13. Way(S, p \o q \o r \o t \o u \o v \o x \o y \o z, a, b)
  BY <1>9, <1>12, Onward, Zenon
<1>14. Chain(pickit_load_executive(n), a, b)
  BY <1>3, <1>13, Zenon DEF Way, LoadOf
<1>15. b.up <= 8
  BY <1>6
<1> QED
  BY <1>14, <1>15, Zenon DEF EndsWithin

\* It uses the words it downloads, and leaves the four bytes the program expects.
LEMMA HalfChain ==
  ASSUME NEW n \in Nat, NEW a \in Fillings, NEW b \in Fillings, b = Filling(0, 4, TRUE),
         b.down = 0, b.up = 4, b.exact = TRUE
  PROVE  Chain(HalfWord(n), a, b)
<1>1. PICK c, d, e, f : /\ c = ClearDownload /\ d = ClearUpload
                        /\ e = Download(Times(n, CODE)) /\ f = Instr(SW_ETAP)
  OBVIOUS
<1>2. PICK g, h, i, j : g = Reset5 /\ h = Give(n) /\ i = Instr(FASTDATA) /\ j = Read32
  OBVIOUS
<1>3. /\ c.op = "ClearDownload" /\ d.op = "ClearUpload" /\ e.op = "Download"
      /\ e.arg = Times(n, CODE) /\ f.op = "SendCommand"
  BY <1>1, Named
<1>4. /\ g.op = "SetMode" /\ h.op = "XferInstBuf" /\ h.arg = n /\ i.op = "SendCommand"
      /\ j.op = "XferData32"
  BY <1>2, Named
<1>5. Len(e.arg) = n
  <2>1. CODE \in Nat
    BY InstructionNumbers
  <2>2. Len(Times(n, CODE)) = n
    BY <2>1, TimesIs
  <2> QED
    BY <1>3, <2>2, Zenon
<1>6. PICK k, l : k = Receive /\ l = ExpectBytes(4)
  OBVIOUS
<1>7. k.op = "Receive" /\ l.op = "ExpectBytes" /\ l.arg = 4
  BY <1>6, Named
<1>8. PICK p : p = <<c, d, e, f, g, h, i, j>>
  OBVIOUS
<1>9. HalfWord(n) = <<Packet(p), k, l>>
  BY <1>1, <1>2, <1>6, <1>8, Zenon DEF HalfWord
<1>10. Shaped(p, 8, 1, 2, 3, n, 6, n, 8, 4)
  BY <1>3, <1>4, <1>5, <1>8 DEF Shaped
<1>14. 8 = Len(p)
  BY <1>8
<1>15. Packed(p, a, b)
  BY <1>10, <1>14, HalfPacks, Zenon
<1>16. PICK list : list = HalfWord(n)
  OBVIOUS
<1>17. Asks(list, 3, p, 4, TRUE)
  BY <1>7, <1>9, <1>16 DEF Asks
<1>18. Asks(list, 3, p, b.up, b.exact)
  BY <1>17, Zenon
<1>19. 3 \in Nat
  OBVIOUS
<1>20. Chain(list, a, b)
  BY <1>15, <1>18, <1>19, AskedChain, Zenon
<1> QED
  BY <1>16, <1>20, Zenon

\* The reading of a word.
LEMMA WordChain ==
  ASSUME NEW a \in Fillings
  PROVE  EndsWithin(pickit_read_word, a, 8)
<1>1. 0 \in Downs /\ 4 \in Ups /\ TRUE \in BOOLEAN /\ 6 \in Nat /\ 7 \in Nat
  BY DEF Downs, Ups
<1>2. PICK b \in Fillings : /\ b = Filling(0, 4, TRUE) /\ b.down = 0 /\ b.up = 4
                            /\ b.exact = TRUE
  BY <1>1, FillingFits, Zenon
<1>3. Chain(HalfWord(6), a, b) /\ Chain(HalfWord(7), b, b)
  BY <1>1, <1>2, HalfChain, Zenon
<1>4. PICK S : S = {c : c \in {HalfWord(6)[1], HalfWord(6)[2], HalfWord(6)[3],
                               HalfWord(7)[1], HalfWord(7)[2], HalfWord(7)[3]}}
  OBVIOUS
<1>5. HalfWord(6) \in Seq(S) /\ HalfWord(7) \in Seq(S)
  <2>1. PICK p, q : p = HalfWord(6) /\ q = HalfWord(7)
    OBVIOUS
  <2>2. PICK c, d, e, f : p = <<c, e, f>> /\ q = <<d, e, f>>
    BY <2>1, Zenon DEF HalfWord
  <2>3. S = {s : s \in {p[1], p[2], p[3], q[1], q[2], q[3]}}
    BY <1>4, <2>1, Zenon
  <2>4. p \in Seq(S) /\ q \in Seq(S)
    BY <2>2, <2>3
  <2> QED
    BY <2>1, <2>4, Zenon
<1>6. Way(S, HalfWord(6), a, b) /\ Way(S, HalfWord(7), b, b)
  BY <1>3, <1>5, Zenon DEF Way
<1>7. Way(S, HalfWord(6) \o HalfWord(7), a, b)
  BY <1>6, Onward, Zenon
<1>8. pickit_read_word = HalfWord(6) \o HalfWord(7)
  BY DEF pickit_read_word, HalfWord
<1>9. b.up <= 8
  <2>1. b.up = 4
    BY <1>2, Zenon
  <2> QED
    BY <2>1
<1> QED
  BY <1>7, <1>8, <1>9, Zenon DEF Way, EndsWithin

\* The words of a download, as the count of the buffer sees them.
LEMMA DownloadWords ==
  ASSUME NEW n \in Nat
  PROVE  Download(Times(n, CODE)).op = "Download" /\ Len(Download(Times(n, CODE)).arg) = n
<1>1. CODE \in Nat
  BY InstructionNumbers
<1>2. Len(Times(n, CODE)) = n
  BY <1>1, TimesIs
<1> QED
  BY <1>2, Named, Zenon

\* The packets of download_data: the first empties the buffer.
LEMMA DownloadChain ==
  ASSUME NEW n \in Downs, NEW a \in Fillings, NEW b \in Fillings
  PROVE  /\ b = Filling(n, a.up, FALSE) => Chain(download_data(n, TRUE), a, b)
         /\ b = Filling(a.down + n, a.up, FALSE) => Chain(download_data(n, FALSE), a, b)
<1>1. PICK c, d : c = ClearDownload /\ d = Download(Times(n, CODE))
  OBVIOUS
<1>2. n \in Nat
  BY DEF Downs
<1>3. c.op = "ClearDownload" /\ d.op = "Download" /\ Len(d.arg) = n
  BY <1>1, <1>2, Named, DownloadWords, Zenon
<1>4. PICK p, q : p = <<c, d>> /\ q = <<d>>
  OBVIOUS
<1>5. download_data(n, TRUE) = <<Packet(p)>> /\ download_data(n, FALSE) = <<Packet(q)>>
  <2>1. <<c>> \o <<d>> = p /\ <<>> \o q = q
    <3>1. <<c>> \o <<d>> = p
      BY <1>4, Joins, Zenon
    <3>2. <<>> \o q = q
      BY <1>4
    <3> QED
      BY <3>1, <3>2
  <2>2. /\ download_data(n, TRUE) = <<Packet(<<c>> \o <<d>>)>>
        /\ download_data(n, FALSE) = <<Packet(<<>> \o <<d>>)>>
    BY <1>1, Zenon DEF download_data
  <2> QED
    BY <1>4, <2>1, <2>2, Zenon
<1>6. /\ 2 \in Nat /\ 1 \in Nat /\ 1 \in {0, 1} /\ 0 \in {0, 1} /\ 2 = 1 + 1 /\ 1 = 0 + 1
      /\ 1 = 1 /\ ~ (0 = 1)
  OBVIOUS
<1>7. 2 = Len(p) /\ p[1].op = "ClearDownload" /\ p[2].op = "Download" /\ Len(p[2].arg) = n
  BY <1>3, <1>4
<1>8. 1 = Len(q) /\ q[1].op = "Download" /\ Len(q[1].arg) = n
  BY <1>3, <1>4
<1>9. a.down \in Nat /\ a.up \in Nat
  BY FillingSizes
<1>10. Packed(p, a, Filling(n, a.up, FALSE))
  BY <1>2, <1>6, <1>7, <1>9, DownPacks, Zenon
<1>11. Packed(q, a, Filling(a.down + n, a.up, FALSE))
  <2>1. Packed(q, a, Filling(IF 0 = 1 THEN n ELSE a.down + n, a.up, FALSE))
    BY <1>2, <1>6, <1>8, <1>9, DownPacks, Zenon
  <2> QED
    BY <1>6, <2>1, Zenon
<1>12. b = Filling(n, a.up, FALSE) => Chain(<<Packet(p)>>, a, b)
  BY <1>10, AloneChain, Zenon
<1>13. b = Filling(a.down + n, a.up, FALSE) => Chain(<<Packet(q)>>, a, b)
  BY <1>11, AloneChain, Zenon
<1> QED
  BY <1>5, <1>12, <1>13, Zenon

\* The packet that ends a part of a row and gives all its words to the executive.
LEMMA GiveChain ==
  ASSUME NEW w \in Nat, NEW u \in Nat, NEW a \in Fillings, u = a.down + w,
         NEW b \in Fillings, b = Filling(0, a.up, FALSE)
  PROVE  Chain(<<Packet(<<Download(Times(w, CODE)), Instr(FASTDATA), FastBuf(u)>>)>>, a, b)
<1>1. PICK c, d, e : c = Download(Times(w, CODE)) /\ d = Instr(FASTDATA) /\ e = FastBuf(u)
  OBVIOUS
<1>2. /\ c.op = "Download" /\ Len(c.arg) = w /\ d.op = "SendCommand"
      /\ e.op = "XfrFastBuf" /\ e.arg = u
  BY <1>1, Named, DownloadWords, Zenon
<1>3. PICK p : p = <<c, d, e>>
  OBVIOUS
<1>4. Shaped(p, 3, 0, 0, 1, w, 3, u, 0, 0)
  BY <1>2, <1>3 DEF Shaped
<1>5. 3 = Len(p)
  BY <1>3
<1>8. Packed(p, a, Filling(0, a.up, FALSE))
  BY <1>4, <1>5, GivePacks, Zenon
<1>9. Chain(<<Packet(p)>>, a, b)
  BY <1>8, AloneChain, Zenon
<1> QED
  BY <1>1, <1>3, <1>9, Zenon

\* The words of a row, or a part of one, are used up.
LEMMA PartChain ==
  ASSUME NEW a \in Fillings, NEW s \in Fillings, s = Filling(0, a.up, FALSE)
  PROVE  /\ Way(HeldCommands, RowPart, a, s)
         /\ Way(HeldCommands,
                download_data(15, TRUE) \o download_data(15, FALSE)
                   \o <<Packet(<<Download(Times(2, CODE)), Instr(FASTDATA), FastBuf(32)>>)>>,
                a, s)
<1>1. /\ 15 \in Downs /\ 30 \in Downs /\ 45 \in Downs /\ 60 \in Downs /\ 15 + 15 = 30
      /\ 30 + 15 = 45 /\ 45 + 15 = 60 /\ 64 = 60 + 4 /\ 32 = 30 + 2
      /\ 4 \in Nat /\ 2 \in Nat /\ 64 \in Nat /\ 32 \in Nat
  BY DEF Downs
<1>2. PICK b \in Fillings : b = Filling(15, a.up, FALSE) /\ b.down = 15 /\ b.up = a.up
  BY <1>1, WordsHeld, Zenon
<1>3. PICK c \in Fillings : c = Filling(30, a.up, FALSE) /\ c.down = 30 /\ c.up = a.up
  BY <1>1, WordsHeld, Zenon
<1>4. PICK d \in Fillings : d = Filling(45, a.up, FALSE) /\ d.down = 45 /\ d.up = a.up
  BY <1>1, WordsHeld, Zenon
<1>5. PICK e \in Fillings : e = Filling(60, a.up, FALSE) /\ e.down = 60 /\ e.up = a.up
  BY <1>1, WordsHeld, Zenon
<1>6. PICK S : S = HeldCommands
  OBVIOUS
<1>7. PICK p, q \in Seq(S) : p = download_data(15, TRUE) /\ q = download_data(15, FALSE)
  <2>1. 15 \in Nat /\ TRUE \in BOOLEAN /\ FALSE \in BOOLEAN
    OBVIOUS
  <2> QED
    BY <1>6, <2>1, DownloadCalm, Zenon
<1>8. PICK u, v \in Seq(S) :
          /\ u = <<Packet(<<Download(Times(4, CODE)), Instr(FASTDATA), FastBuf(64)>>)>>
          /\ v = <<Packet(<<Download(Times(2, CODE)), Instr(FASTDATA), FastBuf(32)>>)>>
  <2>1. /\ <<Download(Times(4, CODE)), Instr(FASTDATA), FastBuf(64)>> \in Seq(HeldSteps)
        /\ <<Download(Times(2, CODE)), Instr(FASTDATA), FastBuf(32)>> \in Seq(HeldSteps)
    BY <1>1, PickitUsed, CalmUsed, Tuples, Zenon
  <2> QED
    BY <1>6, <2>1, Exchanges, Zenon
<1>9. Way(S, p, a, b)
  BY <1>1, <1>2, <1>7, DownloadChain, Zenon DEF Way
<1>10. Way(S, q, b, c)
  <2>1. c = Filling(b.down + 15, b.up, FALSE)
    BY <1>1, <1>2, <1>3, Zenon
  <2> QED
    BY <1>1, <1>7, <2>1, DownloadChain, Zenon DEF Way
<1>11. Way(S, q, c, d)
  <2>1. d = Filling(c.down + 15, c.up, FALSE)
    BY <1>1, <1>3, <1>4, Zenon
  <2> QED
    BY <1>1, <1>7, <2>1, DownloadChain, Zenon DEF Way
<1>12. Way(S, q, d, e)
  <2>1. e = Filling(d.down + 15, d.up, FALSE)
    BY <1>1, <1>4, <1>5, Zenon
  <2> QED
    BY <1>1, <1>7, <2>1, DownloadChain, Zenon DEF Way
<1>13. Way(S, u, e, s)
  <2>3. PICK m \in Nat : m = 64
    OBVIOUS
  <2>1. s = Filling(0, e.up, FALSE) /\ m = e.down + 4 /\ 4 \in Nat
    BY <1>1, <1>5, <2>3, Zenon
  <2>4. u = <<Packet(<<Download(Times(4, CODE)), Instr(FASTDATA), FastBuf(m)>>)>>
    BY <1>8, <2>3, Zenon
  <2>2. Chain(u, e, s)
    BY <2>1, <2>4, GiveChain, Zenon
  <2> QED
    BY <2>2, Zenon DEF Way
<1>14. Way(S, v, c, s)
  <2>1. s = Filling(0, c.up, FALSE) /\ 32 = c.down + 2
    BY <1>1, <1>3, Zenon
  <2>2. Chain(v, c, s)
    BY <1>1, <1>8, <2>1, GiveChain, Zenon
  <2> QED
    BY <2>2, Zenon DEF Way
<1>15. Way(S, p \o q \o q, a, d)
  BY <1>9, <1>10, <1>11, Onward, Zenon
<1>16. Way(S, p \o q \o q \o q \o u, a, s)
  BY <1>12, <1>13, <1>15, Onward, Zenon
<1>17. Way(S, p \o q \o v, a, s)
  BY <1>9, <1>10, <1>14, Onward, Zenon
<1>18. RowPart = p \o q \o q \o q \o u
  BY <1>7, <1>8, Zenon DEF RowPart
<1> QED
  BY <1>6, <1>7, <1>8, <1>16, <1>17, <1>18, Zenon

\* So are those of all its parts.
LEMMA RowRest ==
  ASSUME NEW words \in Nat, words \div 64 \in Nat \ {0}, NEW S, S = HeldCommands,
         NEW b, NEW s, Way(S, RowPart, b, s), Way(S, RowPart, s, s)
  PROVE  Way(S, RowParts(words)[words \div 64], b, s)
<1>1. PICK m \in Nat \ {0} : m = words \div 64
  OBVIOUS
<1>2. PICK f : JoinRun(f, m, RowParts(words)) /\ \A i \in 1 .. m : f[i] = RowPart
  BY <1>1, RowPartsRun, Zenon
<1>3. PICK g : g = RowParts(words)
  OBVIOUS
<1>4. \A i \in 1 .. m : f[i] \in Seq(S) /\ Chain(f[i], b, s) /\ Chain(f[i], s, s)
  BY <1>2, Zenon DEF Way
<1>5. Chain(g[m], b, s)
  BY <1>2, <1>3, <1>4, ChainJoin, Zenon
<1>6. g[m] \in Seq(S)
  BY <1>1, <1>3, RowPartsCalm, Zenon
<1> QED
  BY <1>1, <1>3, <1>5, <1>6, Zenon DEF Way

\* The packets that program a row.
LEMMA RowChain ==
  ASSUME NEW words \in {32, 128}, NEW a \in Fillings
  PROVE  EndsWithin(pickit_program_row(words), a, 8)
<1>1. PICK S : S = HeldCommands
  OBVIOUS
<1>2. PICK c, d, e : c = ClearUpload /\ d = Instr(FASTDATA) /\ e = FastLit(CODE)
  OBVIOUS
<1>3. c.op = "ClearUpload" /\ d.op = "SendCommand" /\ e.op = "XferFastData"
  BY <1>2, Named
<1>4. PICK p : p = <<c, d, e, e>>
  OBVIOUS
<1>5. PICK b \in Fillings : /\ Chain(<<Packet(p)>>, a, b) /\ b.down = a.down
                            /\ b.up \in {0, a.up} /\ b.exact = FALSE
  <2>1. Len(p) \in Nat
    BY <1>4
  <2>2. Plainly(p)
    BY <1>3, <1>4 DEF Plainly, Buffering
  <2>3. Cleared(<<Packet(p)>>, a)
    BY <2>1, <2>2, PlainChain
  <2> QED
    BY <2>3, Zenon DEF Cleared
<1>6. PICK s \in Fillings : s = Filling(0, b.up, FALSE) /\ s.up = b.up
  BY UsedFits, Zenon
<1>7. s = Filling(0, s.up, FALSE)
  BY <1>6, Zenon
<1>8. /\ Way(S, RowPart, b, s) /\ Way(S, RowPart, s, s)
      /\ Way(S, download_data(15, TRUE) \o download_data(15, FALSE)
                   \o <<Packet(<<Download(Times(2, CODE)), Instr(FASTDATA), FastBuf(32)>>)>>,
             b, s)
  BY <1>1, <1>6, <1>7, PartChain, Zenon
<1>9. PICK r : r = IF words = 32
                   THEN download_data(15, TRUE) \o download_data(15, FALSE)
                        \o <<Packet(<<Download(Times(2, CODE)), Instr(FASTDATA),
                                      FastBuf(32)>>)>>
                   ELSE RowParts(words)[words \div 64]
  OBVIOUS
<1>10. Way(S, r, b, s)
  <2>1. CASE words = 32
    BY <1>8, <1>9, <2>1, Zenon
  <2>2. CASE words # 32
    <3>1. words \in Nat /\ words \div 64 \in Nat \ {0}
      BY <2>2
    <3>2. Way(S, RowParts(words)[words \div 64], b, s)
      BY <1>1, <1>8, <3>1, RowRest
    <3> QED
      BY <1>9, <2>2, <3>2
  <2> QED
    BY <2>1, <2>2
<1>11. PICK z : z = <<Packet(<<ClearUpload, PeResponse>>), Receive, ExpectBytes(4),
                     Expect("pe")>>
  OBVIOUS
<1>12. PICK t \in Fillings : Chain(z, s, t) /\ t.down = s.down /\ t.up = 4 /\ t.exact = TRUE
  BY <1>11, RowAsks, Zenon DEF Leaving
<1>13. Way(S, <<Packet(p)>>, a, b) /\ Way(S, z, s, t)
  <2>1. p \in Seq(HeldSteps) /\ <<ClearUpload, PeResponse>> \in Seq(HeldSteps)
    <3>1. /\ <<ClearUpload, Instr(FASTDATA), FastLit(CODE), FastLit(CODE)>> \in Seq(HeldSteps)
          /\ <<ClearUpload, PeResponse>> \in Seq(HeldSteps)
      BY PickitUsed, CalmUsed, Tuples, Zenon
    <3> QED
      BY <1>2, <1>4, <3>1, Zenon
  <2>2. <<Packet(p)>> \in Seq(S) /\ z \in Seq(S)
    BY <1>1, <1>11, <2>1, Exchanges, Zenon
  <2> QED
    BY <1>5, <1>12, <2>2, Zenon DEF Way
<1>14. Way(S, <<Packet(p)>> \o r \o z, a, t)
  BY <1>10, <1>13, Onward, Zenon
<1>15. pickit_program_row(words) = <<Packet(p)>> \o r \o z
  BY <1>2, <1>4, <1>9, <1>11, RowIs, Zenon
<1>16. t.up <= 8
  <2>1. t.up = 4
    BY <1>12, Zenon
  <2> QED
    BY <2>1
<1>17. Chain(pickit_program_row(words), a, t)
  BY <1>14, <1>15, Zenon DEF Way
<1> QED
  BY <1>16, <1>17, Zenon DEF EndsWithin

\* Eight packets of them.
LEMMA FetchesChain ==
  ASSUME NEW S, Fetch \in Seq(S), NEW first \in Seq(S), NEW k \in Ups, k = 4 * 32,
         NEW a, NEW b \in Fillings, b.down = 8, Chain(first, a, b)
  PROVE  \E c \in Fillings :
             Chain(first \o Fetch \o Fetch \o Fetch \o Fetch \o Fetch \o Fetch
                         \o Fetch \o Fetch, a, c)
<1>1. PICK h : h = [i \in 0 .. 7 |-> Filling(i, k, FALSE)]
  OBVIOUS
<1>2. ASSUME NEW n \in 0 .. 7, NEW x \in Fillings, x.down = n + 1
      PROVE  h[n] \in Fillings /\ h[n].down = n /\ Chain(Fetch, x, h[n])
  <2>1. PICK y : y = h[n]
    OBVIOUS
  <2>2. y = Filling(n, k, FALSE)
    BY <1>1, <2>1
  <2>3. PICK m \in Downs : m = n
    BY DEF Downs
  <2>4. PICK t \in BOOLEAN : t = FALSE
    BY Zenon
  <2>5. PICK z \in Fillings : z = Filling(m, k, t) /\ z.down = m /\ z.up = k /\ z.exact = t
    BY FillingFits
  <2>6. y = z
    BY <2>2, <2>3, <2>4, <2>5, Zenon
  <2>7. n \in Nat /\ k \in Nat
    BY DEF Ups
  <2>8. Chain(Fetch, x, y)
    BY <1>2, <2>2, <2>3, <2>4, <2>5, <2>6, <2>7, FetchChain, Zenon
  <2> QED
    BY <2>1, <2>3, <2>5, <2>6, <2>8, Zenon
<1>3. /\ 7 \in 0 .. 7 /\ 6 \in 0 .. 7 /\ 5 \in 0 .. 7 /\ 4 \in 0 .. 7 /\ 3 \in 0 .. 7
      /\ 2 \in 0 .. 7 /\ 1 \in 0 .. 7 /\ 0 \in 0 .. 7
      /\ 8 = 7 + 1 /\ 7 = 6 + 1 /\ 6 = 5 + 1 /\ 5 = 4 + 1 /\ 4 = 3 + 1 /\ 3 = 2 + 1
      /\ 2 = 1 + 1 /\ 1 = 0 + 1
  OBVIOUS
<1>4. h[7] \in Fillings /\ h[7].down = 7 /\ Way(S, Fetch, b, h[7])
  <2>1. b.down = 7 + 1
    BY <1>3, Zenon
  <2> QED
    BY <1>2, <1>3, <2>1, Zenon DEF Way
<1>5. h[6] \in Fillings /\ h[6].down = 6 /\ Way(S, Fetch, h[7], h[6])
  <2>1. h[7].down = 6 + 1
    BY <1>3, <1>4, Zenon
  <2> QED
    BY <1>2, <1>3, <1>4, <2>1, Zenon DEF Way
<1>6. h[5] \in Fillings /\ h[5].down = 5 /\ Way(S, Fetch, h[6], h[5])
  <2>1. h[6].down = 5 + 1
    BY <1>3, <1>5, Zenon
  <2> QED
    BY <1>2, <1>3, <1>5, <2>1, Zenon DEF Way
<1>7. h[4] \in Fillings /\ h[4].down = 4 /\ Way(S, Fetch, h[5], h[4])
  <2>1. h[5].down = 4 + 1
    BY <1>3, <1>6, Zenon
  <2> QED
    BY <1>2, <1>3, <1>6, <2>1, Zenon DEF Way
<1>8. h[3] \in Fillings /\ h[3].down = 3 /\ Way(S, Fetch, h[4], h[3])
  <2>1. h[4].down = 3 + 1
    BY <1>3, <1>7, Zenon
  <2> QED
    BY <1>2, <1>3, <1>7, <2>1, Zenon DEF Way
<1>9. h[2] \in Fillings /\ h[2].down = 2 /\ Way(S, Fetch, h[3], h[2])
  <2>1. h[3].down = 2 + 1
    BY <1>3, <1>8, Zenon
  <2> QED
    BY <1>2, <1>3, <1>8, <2>1, Zenon DEF Way
<1>10. h[1] \in Fillings /\ h[1].down = 1 /\ Way(S, Fetch, h[2], h[1])
  <2>1. h[2].down = 1 + 1
    BY <1>3, <1>9, Zenon
  <2> QED
    BY <1>2, <1>3, <1>9, <2>1, Zenon DEF Way
<1>11. h[0] \in Fillings /\ Way(S, Fetch, h[1], h[0])
  <2>1. h[1].down = 0 + 1
    BY <1>3, <1>10, Zenon
  <2> QED
    BY <1>2, <1>3, <1>10, <2>1, Zenon DEF Way
<1>12. Way(S, first, a, b)
  BY Zenon DEF Way
<1>13. Way(S, first \o Fetch \o Fetch, a, h[6])
  <2>1. Way(S, first \o Fetch, a, h[7])
    BY <1>4, <1>12, Onward, Zenon
  <2> QED
    BY <1>5, <2>1, Onward, Zenon
<1>14. PICK u : u = first \o Fetch \o Fetch \o Fetch \o Fetch /\ Way(S, u, a, h[4])
  <2>1. Way(S, first \o Fetch \o Fetch \o Fetch, a, h[5])
    BY <1>6, <1>13, Onward, Zenon
  <2> QED
    BY <1>7, <2>1, Onward, Zenon
<1>15. PICK v : v = u \o Fetch \o Fetch /\ Way(S, v, a, h[2])
  <2>1. Way(S, u \o Fetch, a, h[3])
    BY <1>8, <1>14, Onward, Zenon
  <2> QED
    BY <1>9, <2>1, Onward, Zenon
<1>16. Way(S, v \o Fetch \o Fetch, a, h[0])
  <2>1. Way(S, v \o Fetch, a, h[1])
    BY <1>10, <1>15, Onward, Zenon
  <2> QED
    BY <1>11, <2>1, Onward, Zenon
<1>17. PICK z : z = first \o Fetch \o Fetch \o Fetch \o Fetch \o Fetch \o Fetch
                          \o Fetch \o Fetch
  OBVIOUS
<1>18. Chain(z, a, h[0])
  <2>1. z = v \o Fetch \o Fetch
    BY <1>14, <1>15, <1>17, Zenon
  <2> QED
    BY <1>16, <2>1, Zenon DEF Way
<1> QED
  BY <1>11, <1>17, <1>18, Zenon

\* The reading of a block.
LEMMA DataChain ==
  ASSUME NEW a \in Fillings
  PROVE  EndsWithin(pickit_read_data, a, 128)
<1>1. PICK c, d : c = ClearDownload /\ d = Download(Times(8, CODE))
  OBVIOUS
<1>2. 8 \in Nat /\ 8 \in Downs
  BY DEF Downs
<1>3. c.op = "ClearDownload" /\ d.op = "Download" /\ Len(d.arg) = 8
  BY <1>1, <1>2, Named, DownloadWords, Zenon
<1>4. PICK p : p = <<c, d>>
  OBVIOUS
<1>5. 2 = Len(p) /\ p[1].op = "ClearDownload" /\ p[2].op = "Download" /\ Len(p[2].arg) = 8
  BY <1>3, <1>4
<1>6. 2 \in Nat /\ 1 \in {0, 1} /\ 2 = 1 + 1 /\ 1 = 1
  OBVIOUS
<1>7. a.down \in Nat /\ a.up \in Nat
  BY FillingSizes
<1>8. PICK b \in Fillings : b = Filling(8, a.up, FALSE) /\ b.down = 8 /\ b.up = a.up
  BY <1>2, WordsHeld, Zenon
<1>9. Packed(p, a, Filling(8, a.up, FALSE))
  BY <1>2, <1>5, <1>6, <1>7, DownPacks, Zenon
<1>10. PICK first : first = <<Packet(p)>>
  OBVIOUS
<1>11. Chain(first, a, b)
  BY <1>8, <1>9, <1>10, AloneChain, Zenon
<1>12. PICK S : S = {Packet(p), Fetch[1], Fetch[2], Fetch[3]}
  OBVIOUS
<1>13. first \in Seq(S)
  BY <1>10, <1>12
<1>14. Fetch \in Seq(S)
  <2>1. PICK e, f, q : e = Receive /\ f = Fetch[1] /\ q = Fetch
    OBVIOUS
  <2>2. PICK g : q = <<g, e, e>>
    BY <2>1, Zenon DEF Fetch
  <2>3. S = {Packet(p), q[1], q[2], q[3]}
    BY <1>12, <2>1, Zenon
  <2>4. q \in Seq(S)
    BY <2>2, <2>3
  <2> QED
    BY <2>1, <2>4, Zenon
<1>15. PICK k \in Ups : k = 4 * 32
  BY DEF Ups
<1>16. PICK e \in Fillings :
           Chain(first \o Fetch \o Fetch \o Fetch \o Fetch \o Fetch \o Fetch
                       \o Fetch \o Fetch, a, e)
  BY <1>8, <1>11, <1>13, <1>14, <1>15, FetchesChain
<1>17. pickit_read_data = first \o Fetch \o Fetch \o Fetch \o Fetch \o Fetch \o Fetch
                                \o Fetch \o Fetch
  BY <1>1, <1>4, <1>10, Zenon DEF pickit_read_data, Fetch
<1>18. e.up <= 128
  BY DEF Fillings, Ups
<1>19. Chain(pickit_read_data, a, e)
  BY <1>16, <1>17, Zenon
<1> QED
  BY <1>18, <1>19, Zenon DEF EndsWithin

\* Letting go of the target.
LEMMA FinishChain ==
  ASSUME NEW on \in BOOLEAN, NEW a \in Fillings
  PROVE  Cleared(pickit_finish(on), a)
<1>1. PICK c, d, e : c = ClearUpload /\ d = Do("SetMode", 5) /\ e = Do("Ground", 0)
  OBVIOUS
<1>2. PICK f, g : f = Do("Supply", 0) /\ g = Do("Release", 0)
  OBVIOUS
<1>3. c.op = "ClearUpload" /\ d.op = "SetMode" /\ e.op = "Ground"
  BY <1>1, Named
<1>4. f.op = "Supply" /\ g.op = "Release"
  BY <1>2, Named
<1>5. PICK p, q, r : p = <<c, d, e>> /\ q = <<f>> /\ r = <<g>>
  OBVIOUS
<1>6. Len(p) \in Nat /\ Plainly(p)
  BY <1>3, <1>5 DEF Plainly, Buffering
<1>7. PICK x, y, z, w : x = Packet(p) /\ y = Packet(q) /\ z = Packet(r) /\ w = ReadStatus(0)
  OBVIOUS
<1>8. Hushed(y) /\ Hushed(z)
  <2>1. y.op = "Packet" /\ y.arg = q /\ z.op = "Packet" /\ z.arg = r
    BY <1>7 DEF Packet, Do
  <2>2. /\ Len(q) \in Nat /\ \A i \in 1 .. Len(q) : q[i].op \notin Buffering
        /\ Len(r) \in Nat /\ \A i \in 1 .. Len(r) : r[i].op \notin Buffering
    BY <1>4, <1>5 DEF Buffering
  <2> QED
    BY <2>1, <2>2, Zenon DEF Hushed
<1>9. Hushed(w)
  <2>1. w.op = "ReadStatus"
    BY <1>7, Named
  <2> QED
    BY <2>1 DEF Hushed, Buffering
<1>10. CASE on
  <2>1. PICK list : list = <<x, z, w>>
    OBVIOUS
  <2>2. pickit_finish(on) = list
    BY <1>1, <1>2, <1>5, <1>7, <1>10, <2>1, CloseScripts, Zenon
  <2>3. 3 = Len(list) /\ list[1] = Packet(p) /\ \A i \in 2 .. 3 : Hushed(list[i])
    BY <1>7, <1>8, <1>9, <2>1
  <2>4. 3 \in Nat \ {0}
    OBVIOUS
  <2> QED
    BY <1>6, <2>2, <2>3, <2>4, ClearChain
<1>11. CASE ~ on
  <2>1. PICK list : list = <<x, y, z, w>>
    OBVIOUS
  <2>2. pickit_finish(on) = list
    BY <1>1, <1>2, <1>5, <1>7, <1>11, <2>1, CloseScripts, Zenon
  <2>3. 4 = Len(list) /\ list[1] = Packet(p) /\ \A i \in 2 .. 4 : Hushed(list[i])
    BY <1>7, <1>8, <1>9, <2>1
  <2>4. 4 \in Nat \ {0}
    OBVIOUS
  <2> QED
    BY <1>6, <2>2, <2>3, <2>4, ClearChain
<1> QED
  BY <1>10, <1>11

-----------------------------------------------------------------------------
(* Scripts that leave the buffers alone.                                   *)

\* The commands of the drivers that have no buffers.
QuietCommands ==
    {c \in AnyCommands : c.op \notin Buffering \cup {"Packet", "ExpectBytes"}}

\* A script of them.
LEMMA QuietChain ==
  ASSUME NEW list \in Seq(QuietCommands), NEW a \in Fillings, a.exact = FALSE
  PROVE  Chain(list, a, a)
<1>1. Len(list) \in Nat /\ \A i \in 1 .. Len(list) : list[i] \in QuietCommands
  OBVIOUS
<1>2. \A c \in QuietCommands : Hushed(c)
  BY Zenon DEF QuietCommands, Hushed
<1> QED
  BY <1>1, <1>2, SilentChain, Zenon

\* They are.
LEMMA QuietOne ==
  ASSUME NEW op \in QuietOps, NEW arg, Do(op, arg) \in CalmSteps
  PROVE  Do(op, arg) \in QuietCommands
<1>1. PICK c : c = Do(op, arg)
  OBVIOUS
<1>2. c.op = op
  BY <1>1 DEF Do
<1>3. c.op \notin Buffering \cup {"Packet", "ExpectBytes"}
  BY <1>2 DEF QuietOps, Buffering
<1>4. c \in AnyCommands
  BY <1>1, AnyOf
<1> QED
  BY <1>1, <1>3, <1>4, Zenon DEF QuietCommands

\* The commands of the usbpic driver are.
LEMMA UsbpicQuiet ==
  UsbpicNeeds(QuietCommands)
<1>1. /\ "SendCommand" \in QuietOps /\ "SetMode" \in QuietOps /\ "XferWord" \in QuietOps
      /\ "GetPEResponse" \in QuietOps /\ "XferByte" \in QuietOps
      /\ "XferInstruction" \in QuietOps /\ "XferFastData" \in QuietOps
      /\ "Expect" \in QuietOps
  BY DEF QuietOps
<1>2. \A c \in HeldSteps : c \in CalmSteps
  BY Fewer
<1>3. /\ Instr(SW_MTAP) \in QuietCommands /\ Instr(SW_ETAP) \in QuietCommands
      /\ Instr(COMMAND) \in QuietCommands /\ Instr(FASTDATA) \in QuietCommands
      /\ Instr(EJTAGBOOT) \in QuietCommands /\ Instr(IDCODE) \in QuietCommands
  BY <1>1, <1>2, CalmUsed, QuietOne, Zenon DEF Instr
<1>4. /\ Reset5 \in QuietCommands /\ ReadWord \in QuietCommands
      /\ Response \in QuietCommands
  BY <1>1, <1>2, CalmUsed, QuietOne, Zenon DEF Reset5, ReadWord, Response
<1>5. /\ MtapCommand(0) \in QuietCommands /\ MtapCommand(208) \in QuietCommands
      /\ MtapCommand(252) \in QuietCommands
  BY <1>1, <1>2, CalmUsed, QuietOne, Zenon DEF MtapCommand
<1>6. Execute(CODE) \in QuietCommands /\ Execute(JUMP) \in QuietCommands
  BY <1>1, <1>2, CalmUsed, QuietOne, Zenon DEF Execute
<1>7. \A n \in Nat : Fast(n) \in QuietCommands
  BY <1>1, <1>2, CalmNames, QuietOne, Zenon DEF Fast
<1>8. /\ Fast(0) \in QuietCommands /\ Fast(CODE) \in QuietCommands
      /\ Fast(STOP) \in QuietCommands
  BY <1>1, <1>2, CalmUsed, QuietOne, Zenon DEF Fast
<1>9. /\ Expect("idcode") \in QuietCommands /\ Expect("status") \in QuietCommands
      /\ Expect("unprotected") \in QuietCommands /\ Expect("pe") \in QuietCommands
  BY <1>1, <1>2, CalmUsed, QuietOne, Zenon DEF Expect
<1> QED
  BY <1>3, <1>4, <1>5, <1>6, <1>7, <1>8, <1>9, Zenon DEF UsbpicNeeds

\* Those of the serial adapter's driver are.
LEMMA BitbangQuiet ==
  BitbangNeeds(QuietCommands)
<1>1. "Bitbang" \in QuietOps /\ "Expect" \in QuietOps /\ "Supply" \in QuietOps
  BY DEF QuietOps
<1>2. /\ Command(SW_MTAP) \in QuietCommands /\ Command(SW_ETAP) \in QuietCommands
      /\ Command(COMMAND) \in QuietCommands /\ Command(CONTROL) \in QuietCommands
      /\ Command(DATA) \in QuietCommands /\ Command(FASTDATA) \in QuietCommands
      /\ Command(EJTAGBOOT) \in QuietCommands
  BY <1>1, SerialUsed, QuietOne, Zenon DEF Command, Send
<1>3. /\ Mchp(0, FALSE) \in QuietCommands /\ Mchp(0, TRUE) \in QuietCommands
      /\ Mchp(209, FALSE) \in QuietCommands /\ Mchp(208, FALSE) \in QuietCommands
      /\ Mchp(254, FALSE) \in QuietCommands /\ Mchp(252, FALSE) \in QuietCommands
  BY <1>1, SerialUsed, QuietOne, Zenon DEF Mchp, Send
<1>4. /\ Send(6, 31, Word, TRUE, 0) \in QuietCommands
      /\ Send(6, 31, <<>>, FALSE, 0) \in QuietCommands
      /\ Send(0, 0, Word, TRUE, 0) \in QuietCommands
      /\ Send(0, 0, Word, FALSE, 0) \in QuietCommands
      /\ Send(0, 0, <<0>> \o Word, TRUE, 0) \in QuietCommands
  BY <1>1, SerialUsed, QuietOne, Zenon DEF Send
<1>5. \A w \in Nat : Send(0, 0, Word, FALSE, w) \in QuietCommands
  BY <1>1, SerialUsed, QuietOne, Zenon DEF Send
<1>6. /\ xfer_fastdata(0) \in QuietCommands /\ xfer_fastdata(CODE) \in QuietCommands
      /\ xfer_fastdata(STOP) \in QuietCommands
  BY <1>1, SerialUsed, QuietOne, Zenon DEF xfer_fastdata, Send
<1>7. \A w \in Nat : xfer_fastdata(w) \in QuietCommands
  BY <1>1, CalmSerial, QuietOne, Zenon DEF xfer_fastdata, Send
<1>8. /\ Expect("idcode") \in QuietCommands /\ Expect("status") \in QuietCommands
      /\ Expect("unprotected") \in QuietCommands /\ Expect("PrAcc") \in QuietCommands
      /\ Expect("pe") \in QuietCommands
  BY <1>1, CalmLooks, QuietOne, Zenon DEF Expect
<1>9. Do("Supply", 0) \in QuietCommands
  <2>1. Do("Supply", 0) \in CalmSteps
    BY CalmKinds, Zenon
  <2> QED
    BY <1>1, <2>1, QuietOne, Zenon
<1> QED
  BY <1>2, <1>3, <1>4, <1>5, <1>6, <1>7, <1>8, <1>9, Zenon DEF BitbangNeeds

\* So are those that spare a device, but for the buffers.
LEMMA SpareQuiet ==
  ASSUME NEW op \in {"SetWiresMode", "SetupIOPorts", "ExitPgmMode", "Supply", "Ground",
                     "Raise", "Signature"},
         NEW n \in Nat
  PROVE  Do(op, n) \in QuietCommands
<1>1. PICK c : c = Do(op, n)
  OBVIOUS
<1>2. c \in SpareSteps /\ c.op = op
  BY <1>1 DEF SpareSteps, Do
<1>3. c.op \notin Buffering \cup {"Packet", "ExpectBytes"}
  BY <1>2 DEF Buffering
<1>4. c \in AnyCommands
  BY <1>2, AnyOf
<1> QED
  BY <1>1, <1>3, <1>4, Zenon DEF QuietCommands

\* The other scripts of these drivers.
LEMMA OpensQuiet ==
  /\ \A m : adapter_open_usbpic(m) \in Seq(QuietCommands)
  /\ \A p, q : usbpic_close(p, q) \in Seq(QuietCommands)
  /\ \A f : usbpic_serial_execution(f) \in Seq(QuietCommands)
  /\ <<Do("ExitPgmMode", 0)>> \in Seq(QuietCommands)
  /\ adapter_open_bitbang \in Seq(QuietCommands)
  /\ <<MtapCommand(0)>> \in Seq(QuietCommands) /\ <<Mchp(0, TRUE)>> \in Seq(QuietCommands)
<1>1. /\ 0 \in Nat /\ 1 \in Nat /\ 2 \in Nat
      /\ "SetWiresMode" # "Packet"
  OBVIOUS
<1>2. /\ \A n \in Nat : /\ Do("SetWiresMode", n) \in QuietCommands
                        /\ Do("SetupIOPorts", n) \in QuietCommands
                        /\ Do("ExitPgmMode", n) \in QuietCommands
                        /\ Do("Supply", n) \in QuietCommands
                        /\ Do("Ground", n) \in QuietCommands
                        /\ Do("Raise", n) \in QuietCommands
                        /\ Do("Signature", n) \in QuietCommands
  BY SpareQuiet
<1>3. /\ Reset5 \in QuietCommands /\ ReadWord \in QuietCommands
      /\ Expect("idcode") \in QuietCommands /\ MtapCommand(0) \in QuietCommands
  BY UsbpicQuiet, Zenon DEF UsbpicNeeds
<1>4. Mchp(0, TRUE) \in QuietCommands
  BY BitbangQuiet, Zenon DEF BitbangNeeds
<1>5. Do("EnterPgmMode", 0) \in QuietCommands
  <2>1. PICK c : c = Do("EnterPgmMode", 0)
    OBVIOUS
  <2>2. c.op = "EnterPgmMode"
    BY <2>1 DEF Do
  <2>3. c.op \notin Buffering \cup {"Packet", "ExpectBytes"}
    BY <2>2 DEF Buffering
  <2>4. c \in AnyCommands
    BY <2>1 DEF AnyCommands
  <2> QED
    BY <2>1, <2>3, <2>4, Zenon DEF QuietCommands
<1>6. ASSUME NEW m PROVE adapter_open_usbpic(m) \in Seq(QuietCommands)
  <2>1. PICK k \in Nat : k = IF m = "ICSP" THEN 1 ELSE 2
    BY <1>1
  <2>2. PICK a, b, c, d, e, f \in QuietCommands :
            /\ a = Do("SetWiresMode", k) /\ b = Do("SetupIOPorts", 1)
            /\ c = Do("EnterPgmMode", 0) /\ d = Reset5 /\ e = ReadWord
            /\ f = Expect("idcode")
    BY <1>1, <1>2, <1>3, <1>5, Zenon
  <2>3. <<a, b, c, d, e, f>> \in Seq(QuietCommands)
    OBVIOUS
  <2> QED
    BY <2>1, <2>2, <2>3, Zenon DEF adapter_open_usbpic
<1>7. ASSUME NEW p, NEW q PROVE usbpic_close(p, q) \in Seq(QuietCommands)
  <2>1. /\ <<Reset5>> \in Seq(QuietCommands) /\ <<>> \in Seq(QuietCommands)
        /\ <<Do("ExitPgmMode", 0)>> \in Seq(QuietCommands)
        /\ <<Do("SetupIOPorts", 0)>> \in Seq(QuietCommands)
    BY <1>1, <1>2, <1>3, Tuples, Zenon
  <2>2. /\ (IF p THEN <<Do("ExitPgmMode", 0)>> ELSE <<>>) \in Seq(QuietCommands)
        /\ (IF q THEN <<Do("SetupIOPorts", 0)>> ELSE <<>>) \in Seq(QuietCommands)
    BY <2>1, Zenon
  <2> QED
    BY <2>1, <2>2, Joined, Zenon DEF usbpic_close
<1>8. ASSUME NEW f PROVE usbpic_serial_execution(f) \in Seq(QuietCommands)
  <2>1. PICK k \in {0, 1} : k = IF f = "mx" THEN 1 ELSE 0
    OBVIOUS
  <2>2. PICK c : c = Do("SerialExecutionMode", k)
    OBVIOUS
  <2>3. c \in SerialCommands /\ c.op = "SerialExecutionMode"
    BY <2>2 DEF SerialCommands, Do
  <2>4. c.op \notin Buffering \cup {"Packet", "ExpectBytes"}
    BY <2>3 DEF Buffering
  <2>5. c \in AnyCommands
    BY <2>3, AnyOf
  <2>6. c \in QuietCommands
    BY <2>4, <2>5, Zenon DEF QuietCommands
  <2>7. <<c>> \in Seq(QuietCommands)
    BY <2>6, Tuples, Zenon
  <2> QED
    BY <2>1, <2>2, <2>7, Zenon DEF usbpic_serial_execution
<1>9. adapter_open_bitbang \in Seq(QuietCommands)
  <2>1. PICK a, b, c, d \in QuietCommands :
            /\ a = Do("Supply", 1) /\ b = Do("Raise", 0) /\ c = Do("Ground", 0)
            /\ d = Do("Signature", 0)
    BY <1>1, <1>2, Zenon
  <2>2. <<a, b, c, d, b>> \in Seq(QuietCommands)
    OBVIOUS
  <2>3. bitbang_ICSP_enable(TRUE) = <<a, b, c, d, b>>
    BY <2>1, Zenon DEF bitbang_ICSP_enable
  <2>4. bitbang_get_idcode \in Seq(QuietCommands)
    BY BitbangQuiet, BitbangIn, Zenon
  <2> QED
    BY <2>2, <2>3, <2>4, Joined, Zenon DEF adapter_open_bitbang
<1> QED
  BY <1>1, <1>2, <1>3, <1>4, <1>6, <1>7, <1>8, <1>9, Tuples, Zenon

\* Every script of these drivers is quiet.
LEMMA DriverQuiet ==
  ASSUME adapter \in {"usbpic", "ascii"},
         NEW name \in (Stages \ {"off", "start"}) \cup {"serial"}
  PROVE  Driver(name) \in Seq(QuietCommands)
<1>1. name \in {"open", "status", "identify", "serial", "word", "load", "row", "config",
                "crc", "block", "erase", "close", "reject"}
  BY DEF Stages
<1>2. CASE adapter = "usbpic"
  <2>1. UsbpicNeeds(QuietCommands)
    BY UsbpicQuiet, Zenon
  <2>2. /\ Driver("open") \in Seq(QuietCommands)
        /\ Driver("close") \in Seq(QuietCommands)
        /\ Driver("serial") \in Seq(QuietCommands)
        /\ Driver("reject") \in Seq(QuietCommands)
    <3>1. Driver("open") \in Seq(QuietCommands)
      BY <1>2, OpensQuiet, Zenon DEF Driver, usbpic
    <3>2. Driver("close") \in Seq(QuietCommands)
      BY <1>2, OpensQuiet, Zenon DEF Driver, usbpic
    <3>3. Driver("serial") \in Seq(QuietCommands)
      BY <1>2, OpensQuiet, Zenon DEF Driver, usbpic
    <3>4. Driver("reject") \in Seq(QuietCommands)
      BY <1>2, OpensQuiet, Zenon DEF Driver, usbpic
    <3> QED
      BY <3>1, <3>2, <3>3, <3>4
  <2>3. Driver("status") \in Seq(QuietCommands)
    BY <1>2, <2>1, UsbpicIn, Zenon DEF Driver, usbpic
  <2>4. Driver("identify") \in Seq(QuietCommands)
    BY <1>2, <2>1, UsbpicIn, Zenon DEF Driver, usbpic
  <2>5. Driver("word") \in Seq(QuietCommands)
    BY <1>2, <2>1, UsbpicIn, Zenon DEF Driver, usbpic
  <2>6. Driver("load") \in Seq(QuietCommands)
    BY <1>2, <2>1, UsbpicIn, Zenon DEF Driver, usbpic
  <2>7. Driver("row") \in Seq(QuietCommands)
    BY <1>2, <2>1, UsbpicIn, Zenon DEF Driver, usbpic
  <2>8. Driver("config") \in Seq(QuietCommands)
    BY <1>2, <2>1, UsbpicIn, Zenon DEF Driver, usbpic
  <2>9. Driver("crc") \in Seq(QuietCommands)
    BY <1>2, <2>1, UsbpicIn, Zenon DEF Driver, usbpic
  <2>10. Driver("block") \in Seq(QuietCommands)
    BY <1>2, <2>1, UsbpicIn, Zenon DEF Driver, usbpic
  <2>11. Driver("erase") \in Seq(QuietCommands)
    BY <1>2, <2>1, UsbpicIn, Zenon DEF Driver, usbpic
  <2> QED
    BY <1>1, <2>2, <2>3, <2>4, <2>5, <2>6, <2>7, <2>8, <2>9, <2>10, <2>11
<1>3. CASE adapter = "ascii"
  <2>1. BitbangNeeds(QuietCommands)
    BY BitbangQuiet, Zenon
  <2>2. Driver("open") \in Seq(QuietCommands)
    BY <1>3, OpensQuiet, Zenon DEF Driver, bitbang
  <2>3. Driver("status") \in Seq(QuietCommands)
    BY <1>3, <2>1, BitbangIn, Zenon DEF Driver, bitbang
  <2>4. Driver("identify") \in Seq(QuietCommands)
    BY <1>3, <2>1, BitbangIn, Zenon DEF Driver, bitbang
  <2>5. Driver("word") \in Seq(QuietCommands)
    BY <1>3, <2>1, BitbangIn, Zenon DEF Driver, bitbang
  <2>6. Driver("load") \in Seq(QuietCommands)
    BY <1>3, <2>1, BitbangIn, Zenon DEF Driver, bitbang
  <2>7. Driver("row") \in Seq(QuietCommands)
    BY <1>3, <2>1, BitbangIn, Zenon DEF Driver, bitbang
  <2>8. Driver("config") \in Seq(QuietCommands)
    BY <1>3, <2>1, BitbangIn, Zenon DEF Driver, bitbang
  <2>9. Driver("crc") \in Seq(QuietCommands)
    BY <1>3, <2>1, BitbangIn, Zenon DEF Driver, bitbang
  <2>10. Driver("block") \in Seq(QuietCommands)
    BY <1>3, <2>1, BitbangIn, Zenon DEF Driver, bitbang
  <2>11. Driver("erase") \in Seq(QuietCommands)
    BY <1>3, <2>1, BitbangIn, Zenon DEF Driver, bitbang
  <2>12. Driver("serial") \in Seq(QuietCommands)
    BY <1>3, <2>1, BitbangIn, Zenon DEF Driver, bitbang
  <2>13. Driver("close") \in Seq(QuietCommands)
    BY <1>3, <2>1, BitbangIn, Zenon DEF Driver, bitbang
  <2>14. Driver("reject") \in Seq(QuietCommands)
    BY <1>3, <2>1, BitbangIn, Zenon DEF Driver, bitbang
  <2> QED
    BY <1>1, <2>2, <2>3, <2>4, <2>5, <2>6, <2>7, <2>8, <2>9, <2>10, <2>11, <2>12, <2>13,
       <2>14
<1> QED
  BY <1>2, <1>3

\* So is every stage, and the polling of an erase.
LEMMA ScriptQuiet ==
  ASSUME adapter \in {"usbpic", "ascii"}
  PROVE  /\ \A name \in Stages \ {"off", "start"} : Script(name) \in Seq(QuietCommands)
         /\ PollAgain \in Seq(QuietCommands)
<1>1. \A name \in (Stages \ {"off", "start"}) \cup {"serial"} :
          Driver(name) \in Seq(QuietCommands)
  BY DriverQuiet, Zenon
<1>2. "serial" \in (Stages \ {"off", "start"}) \cup {"serial"}
  OBVIOUS
<1>3. \A name : (IF Serial(name) THEN Driver("serial") ELSE <<>>) \in Seq(QuietCommands)
  BY <1>1, <1>2, Tuples, Zenon
<1>4. ASSUME NEW name \in Stages \ {"off", "start"}
      PROVE  Script(name) \in Seq(QuietCommands)
  <2>1. Driver(name) \in Seq(QuietCommands)
    BY <1>1
  <2> QED
    BY <1>3, <2>1, Joined, Zenon DEF Script
<1>5. PollAgain \in Seq(QuietCommands)
  BY OpensQuiet, Zenon DEF PollAgain
<1> QED
  BY <1>4, <1>5

-----------------------------------------------------------------------------
(* What a session asks of the buffers.                                     *)

\* The stages that check or read what is in flash; they fill the upload buffer.
Checks == {"crc", "block"}

\* What the stages of the PICkit make of its buffers.
LEMMA PickitLeads ==
  ASSUME adapter = "pickit", NEW a \in Fillings
  PROVE  /\ \A name \in {"status", "identify"} \cup (Later \ Checks) :
                EndsWithin(Driver(name), a, 8)
         /\ \A name \in Checks : EndsWithin(Driver(name), a, 128)
<1>1. PICK S : S = {pickit_get_idcode, pickit_program_word, pickit_program_quad_word,
                    pickit_erase_chip, pickit_enter}
  OBVIOUS
<1>2. \A list \in S : EndsWithin(list, a, 8)
  BY <1>1, ShortChains
<1>3. /\ pickit_get_idcode \in S /\ pickit_program_word \in S
      /\ pickit_program_quad_word \in S /\ pickit_erase_chip \in S /\ pickit_enter \in S
  BY <1>1
<1>4. /\ Driver("status") = pickit_enter /\ Driver("identify") = pickit_get_idcode
      /\ Driver("erase") = pickit_erase_chip
  BY Zenon DEF Driver, pickit
<1>5. /\ EndsWithin(Driver("status"), a, 8) /\ EndsWithin(Driver("identify"), a, 8)
      /\ EndsWithin(Driver("erase"), a, 8)
  BY <1>2, <1>3, <1>4, Zenon
<1>6. EndsWithin(Driver("word"), a, 8)
  <2>1. Driver("word") = pickit_read_word
    BY Zenon DEF Driver, pickit
  <2> QED
    BY <2>1, WordChain, Zenon
<1>7. EndsWithin(Driver("load"), a, 8)
  <2>1. Driver("load") = pickit_load_executive(PeWords(dev.family))
    BY Zenon DEF Driver, pickit
  <2>0. PICK k \in {12, 14} : k = PeWords(dev.family)
    BY PeWordsIs, Zenon
  <2>2. PICK n \in Nat : n = PeWords(dev.family) /\ n > 0
    BY <2>0
  <2>3. EndsWithin(pickit_load_executive(n), a, 8)
    BY <2>2, LoadChain
  <2> QED
    BY <2>1, <2>2, <2>3, Zenon
<1>8. EndsWithin(Driver("row"), a, 8)
  <2>1. Driver("row") = pickit_program_row(RowWords(dev.family))
    BY Zenon DEF Driver, pickit
  <2>2. RowWords(dev.family) \in {32, 128}
    BY DEF RowWords
  <2>3. PICK words \in {32, 128} : words = RowWords(dev.family)
    BY <2>2
  <2>4. EndsWithin(pickit_program_row(words), a, 8)
    BY RowChain
  <2> QED
    BY <2>1, <2>3, <2>4, Zenon
<1>9. EndsWithin(Driver("config"), a, 8)
  <2>1. Driver("config") = IF dev.family = "mx" THEN pickit_program_word
                           ELSE pickit_program_quad_word
    BY Zenon DEF Driver, pickit
  <2> QED
    BY <1>2, <1>3, <2>1, Zenon
<1>10. EndsWithin(Driver("crc"), a, 128) /\ EndsWithin(Driver("block"), a, 128)
  <2>1. Driver("crc") = pickit_read_data
    BY Zenon DEF Driver, pickit
  <2>2. Driver("block") = pickit_read_data
    BY Zenon DEF Driver, pickit
  <2> QED
    BY <2>1, <2>2, DataChain, Zenon
<1>11. {"status", "identify"} \cup (Later \ Checks)
           \subseteq {"status", "identify", "erase", "word", "load", "row", "config"}
  BY DEF Later, Checks
<1>12. \A name \in {"status", "identify"} \cup (Later \ Checks) : EndsWithin(Driver(name), a, 8)
  BY <1>5, <1>6, <1>7, <1>8, <1>9, <1>11
<1>13. \A name \in Checks : EndsWithin(Driver(name), a, 128)
  BY <1>10, Zenon DEF Checks
<1> QED
  BY <1>12, <1>13, Zenon

\* What the first and the last stage make of them.
LEMMA PickitEnds ==
  ASSUME adapter = "pickit", NEW a \in Fillings, a.exact = FALSE
  PROVE  \A name \in {"open", "close", "reject"} : EndsWithin(Driver(name), a, 128)
<1>1. \A b \in Fillings : b.up <= 128
  BY FillingSizes DEF Ups
<1>2. EndsWithin(Driver("open"), a, 128)
  <2>1. Driver("open") = adapter_open_pickit(dev.supply)
    BY Zenon DEF Driver, pickit
  <2>2. Chain(Driver("open"), a, a)
    BY <2>1, OpenChain, Zenon
  <2> QED
    BY <1>1, <2>2, Zenon DEF EndsWithin
<1>3. ASSUME NEW on \in BOOLEAN PROVE EndsWithin(pickit_finish(on), a, 128)
  <2>1. PICK b \in Fillings : Chain(pickit_finish(on), a, b)
    BY FinishChain, Zenon DEF Cleared
  <2> QED
    BY <1>1, <2>1, Zenon DEF EndsWithin
<1>4. EndsWithin(Driver("close"), a, 128)
  <2>1. Driver("close") = pickit_finish(power_on /\ target)
    BY Zenon DEF Driver, pickit
  <2>2. PICK on \in BOOLEAN : on = (power_on /\ target)
    OBVIOUS
  <2> QED
    BY <1>3, <2>1, <2>2, Zenon
<1>5. EndsWithin(Driver("reject"), a, 128)
  <2>1. Driver("reject") = pickit_finish(FALSE)
    BY Zenon DEF Driver, pickit
  <2>2. PICK on \in BOOLEAN : on = FALSE
    OBVIOUS
  <2> QED
    BY <1>3, <2>1, <2>2, Zenon
<1> QED
  BY <1>2, <1>4, <1>5

\* The stages that leave the upload buffer nearly empty.
Brief == {"identify"} \cup (Later \ Checks)

\* The scripts of the PICkit are lists of the commands that scripts are made of.
LEMMA DriverAny ==
  ASSUME adapter = "pickit"
  PROVE  \A name \in (Stages \ {"off", "start"}) \cup {"serial"} :
             Driver(name) \in Seq(AnyCommands)
<1>1. \A s \in Seq(LineCommands) : s \in Seq(AnyCommands)
  BY AnyOf
<1>2. \A s \in Seq(WorkCommands("pickit")) : s \in Seq(AnyCommands)
  <2>1. WorkCommands("pickit") = HeldCommands \cup Releasing
    BY Zenon DEF WorkCommands
  <2>2. WorkCommands("pickit") \subseteq AnyCommands
    BY <2>1, AnyOf
  <2> QED
    BY <2>2
<1>3. \A name \in {"identify", "serial"} \cup Later : Driver(name) \in Seq(AnyCommands)
  BY <1>2, PickitWork, Zenon
<1>4. Driver("open") \in Seq(AnyCommands)
  BY <1>1, SpareScripts, Zenon DEF Driver, pickit
<1>5. Driver("close") \in Seq(AnyCommands)
  BY <1>1, SpareScripts, Zenon DEF Driver, pickit
<1>6. Driver("reject") \in Seq(AnyCommands)
  BY <1>1, SpareScripts, Zenon DEF Driver, pickit
<1>7. Driver("status") \in Seq(AnyCommands)
  <2>1. Resets("pickit", pickit_enter)
    BY ResetScripts
  <2>2. PICK S : S = LineCommands \cup {Resetting("pickit")} \cup HeldCommands
    OBVIOUS
  <2>3. pickit_enter \in Seq(S)
    BY <2>1, <2>2, Zenon DEF Resets
  <2>4. S \subseteq AnyCommands
    BY <2>2, AnyOf
  <2>5. pickit_enter \in Seq(AnyCommands)
    BY <2>3, <2>4
  <2> QED
    BY <2>5, Zenon DEF Driver, pickit
<1>8. (Stages \ {"off", "start"}) \cup {"serial"}
          \subseteq {"identify", "serial"} \cup Later \cup {"open", "close", "reject", "status"}
  BY DEF Stages, Later
<1> QED
  BY <1>3, <1>4, <1>5, <1>6, <1>7, <1>8

\* The script of a stage, with serial execution first where it is not begun yet.
LEMMA PickitScript ==
  ASSUME adapter = "pickit", NEW name \in Stages \ {"off", "start"},
         NEW a \in Fillings, a.exact = FALSE, Serial(name) => a.up <= 8
  PROVE  EndsWithin(Script(name), a, IF name \in Brief THEN 8 ELSE 128)
<1>1. /\ name \in Brief \/ name = "status" => name \in {"status", "identify"} \cup (Later \ Checks)
      /\ name \in Brief \/ name = "status" \/ name \in Checks
         \/ name \in {"open", "close", "reject"}
      /\ Serial(name) => name \in Brief /\ name \in Later
  BY DEF Stages, Brief, Later, Checks, Serial
<1>2. \A b \in Fillings : b.up <= 128
  BY FillingSizes DEF Ups
<1>3. ASSUME NEW c \in Fillings, c.exact = FALSE
      PROVE  EndsWithin(Driver(name), c, IF name \in Brief THEN 8 ELSE 128)
  <2>1. CASE name \in Brief
    BY <1>1, <2>1, PickitLeads, Zenon
  <2>2. CASE name = "status"
    <3>1. EndsWithin(Driver(name), c, 8)
      BY <1>1, <2>2, PickitLeads, Zenon
    <3>2. name \notin Brief
      BY <2>2 DEF Brief, Later
    <3>3. EndsWithin(Driver(name), c, 128)
      BY <1>2, <3>1, Zenon DEF EndsWithin
    <3> QED
      BY <3>2, <3>3, Zenon
  <2>3. CASE name \in Checks
    <3>1. EndsWithin(Driver(name), c, 128)
      BY <2>3, PickitLeads, Zenon
    <3>2. name \notin Brief
      BY <2>3 DEF Brief, Later, Checks
    <3> QED
      BY <3>1, <3>2, Zenon
  <2>4. CASE name \in {"open", "close", "reject"}
    <3>1. EndsWithin(Driver(name), c, 128)
      BY <1>3, <2>4, PickitEnds, Zenon
    <3>2. name \notin Brief
      BY <2>4 DEF Brief, Later
    <3> QED
      BY <3>1, <3>2, Zenon
  <2> QED
    BY <1>1, <2>1, <2>2, <2>3, <2>4, Zenon
<1>4. CASE ~ Serial(name)
  <2>1. Script(name) = <<>> \o Driver(name)
    BY <1>4, Zenon DEF Script
  <2>2. Driver(name) \in Seq(AnyCommands)
    BY DriverAny
  <2>3. Script(name) = Driver(name)
    BY <2>1, <2>2, ConcatEmptySeq, Zenon
  <2>4. EndsWithin(Driver(name), a, IF name \in Brief THEN 8 ELSE 128)
    BY <1>3, Zenon
  <2> QED
    BY <2>3, <2>4, Zenon
<1>5. CASE Serial(name)
  <2>1. Script(name) = Driver("serial") \o Driver(name)
    BY <1>5, Zenon DEF Script
  <2>2. Driver(name) \in Seq(AnyCommands) /\ Driver("serial") \in Seq(AnyCommands)
    BY DriverAny
  <2>3. a.up + 4 \in Ups
    BY <1>5, FillingSizes DEF Ups
  <2>4. PICK b \in Fillings : Chain(pickit_serial_execution, a, b) /\ b.exact = FALSE
    BY <2>3, SerialChain, Zenon
  <2>5. Driver("serial") = pickit_serial_execution
    BY Zenon DEF Driver, pickit
  <2>6. EndsWithin(Driver(name), b, IF name \in Brief THEN 8 ELSE 128)
    BY <1>3, <2>4, Zenon
  <2>7. PICK c \in Fillings : /\ Chain(Driver(name), b, c)
                              /\ c.up <= IF name \in Brief THEN 8 ELSE 128
    BY <2>6, Zenon DEF EndsWithin
  <2>8. Chain(Script(name), a, c)
    BY <2>1, <2>2, <2>4, <2>5, <2>7, ChainCat, Zenon
  <2> QED
    BY <2>7, <2>8, Zenon DEF EndsWithin
<1> QED
  BY <1>4, <1>5

\* Later checks follow earlier ones only.
Ordered(p) ==
    \A i, j \in 1 .. Len(p) : i < j /\ p[i] \in Checks => p[j] \in Checks

\* The stages that read the flash come last.
InOrder ==
    /\ Ordered(plan)
    /\ stage \in Checks => \A i \in 1 .. Len(plan) : plan[i] \in Checks

\* The buffers hold a, and the commands to come lead to b.
Following(d, list, name, a, b) ==
    /\ a \in Fillings /\ b \in Fillings /\ Holds(d, a) /\ Chain(list, a, b)
    /\ adapter = "pickit" /\ name \in Brief => b.up <= 8

\* The invariant of the buffers: what they hold suffices for what is to come.
BuffersHold == InOrder /\ \E a, b : Following(dev, todo, stage, a, b)

\* A stage that is entered finds what it needs.
LEMMA EnterHolds ==
  ASSUME IInv, NEW x \in Fillings, Holds(dev, x), NEW name \in Stages \ {"off", "start"},
         Enter(name), adapter = "pickit" /\ Serial(name) => x.up <= 8
  PROVE  \E a, b : Following(dev, todo, stage, a, b)'
<1>1. Whole(dev) /\ adapter \in {"usbpic", "pickit", "ascii"}
  BY Zenon DEF IInv
<1>2. /\ dev' = Fresh(dev) /\ todo' = Script(name) /\ stage' = name
      /\ adapter' = adapter
  BY Zenon DEF Enter
<1>3. PICK a \in Fillings : Holds(dev', a) /\ a.exact = FALSE /\ a.up = x.up
  BY <1>1, <1>2, FreshBuffers, HoldsSoft, Zenon
<1>4. \A b \in Fillings : b.up <= 128
  BY FillingSizes DEF Ups
<1>5. CASE adapter = "pickit"
  <2>1. EndsWithin(Script(name), a, IF name \in Brief THEN 8 ELSE 128)
    BY <1>3, <1>5, PickitScript, Zenon
  <2>2. PICK b \in Fillings : /\ Chain(Script(name), a, b)
                              /\ b.up <= IF name \in Brief THEN 8 ELSE 128
    BY <2>1, Zenon DEF EndsWithin
  <2>3. name \in Brief => b.up <= 8
    BY <2>2, Zenon
  <2>4. Following(dev, todo, stage, a, b)'
    BY <1>2, <1>3, <2>2, <2>3, Zenon DEF Following
  <2> QED
    BY <2>4, Zenon
<1>6. CASE adapter \in {"usbpic", "ascii"}
  <2>1. Script(name) \in Seq(QuietCommands)
    BY <1>6, ScriptQuiet, Zenon
  <2>2. Chain(Script(name), a, a)
    BY <1>3, <2>1, QuietChain, Zenon
  <2>3. adapter' # "pickit"
    BY <1>2, <1>6
  <2> QED
    BY <1>2, <1>3, <2>2, <2>3, Zenon DEF Following
<1> QED
  BY <1>1, <1>5, <1>6

\* Stages of other kinds, then checks.
LEMMA OrderedCat ==
  ASSUME NEW S, NEW p \in Seq(S \ Checks), NEW q \in Seq(Checks)
  PROVE  Ordered(p \o q)
<1>1. PICK r : r = p \o q
  OBVIOUS
<1>2. PICK m, n \in Nat : m = Len(p) /\ n = Len(q)
  OBVIOUS
<1>3. /\ Len(r) = m + n
      /\ \A i \in 1 .. m + n : r[i] = IF i <= m THEN p[i] ELSE q[i - m]
  <2>1. PICK T : T = S \cup Checks
    OBVIOUS
  <2>2. p \in Seq(T) /\ q \in Seq(T)
    BY <2>1
  <2>3. /\ Len(p \o q) = Len(p) + Len(q)
        /\ \A i \in 1 .. Len(p) + Len(q) :
              (p \o q)[i] = IF i <= Len(p) THEN p[i] ELSE q[i - Len(p)]
    BY <2>2, ConcatProperties
  <2> QED
    BY <1>1, <1>2, <2>3, Zenon
<1>4. \A i \in 1 .. m : p[i] \notin Checks
  BY <1>2
<1>5. \A i \in 1 .. n : q[i] \in Checks
  BY <1>2
<1>6. ASSUME NEW i \in 1 .. m + n, NEW j \in 1 .. m + n, i < j, r[i] \in Checks
      PROVE  r[j] \in Checks
  <2>1. ~ (i <= m)
    <3>1. CASE i <= m
      <4>1. r[i] = p[i] /\ i \in 1 .. m
        BY <1>3, <3>1
      <4> QED
        BY <1>4, <1>6, <4>1, Zenon
    <3> QED
      BY <3>1
  <2>2. ~ (j <= m) /\ j - m \in 1 .. n
    BY <1>6, <2>1
  <2>3. r[j] = q[j - m]
    BY <1>3, <2>2, Zenon
  <2> QED
    BY <1>5, <2>2, <2>3, Zenon
<1>7. Ordered(r)
  BY <1>3, <1>6 DEF Ordered
<1> QED
  BY <1>1, <1>7, Zenon

\* So are the stages of every job.
LEMMA JobsOrdered ==
  ASSUME NEW job \in Jobs, NEW stages \in JobPlan(job)
  PROVE  \E p \in Seq(Stages \ Checks), q \in Seq(Checks) : stages = p \o q
<1>1. job \in {"probe", "erase", "program", "verify", "read"}
  BY SessionAssumption
<1>2. \A S : \A name \in S : \A list \in Repeated(name) : list \in Seq(S)
  <2> SUFFICES ASSUME NEW S, NEW name \in S, NEW n \in 0 .. MaxBlocks
               PROVE  Times(n, name) \in Seq(S)
    BY DEF Repeated
  <2>1. n \in Nat
    BY SessionAssumption
  <2> QED
    BY <2>1, TimesIn
<1>3. PICK E, C : E = Stages \ Checks /\ C = Checks
  OBVIOUS
<1>4. /\ "word" \in E /\ "row" \in E /\ "erase" \in E /\ "load" \in E /\ "config" \in E
      /\ "crc" \in C /\ "block" \in C
  BY <1>3 DEF Stages, Checks
<1>5. /\ <<>> \in Seq(E) /\ <<"erase">> \in Seq(E) /\ <<"load">> \in Seq(E)
      /\ <<"config">> \in Seq(E) /\ <<"erase", "load">> \in Seq(E) /\ <<>> \in Seq(C)
  BY <1>4, Tuples, Zenon
<1>6. ASSUME NEW list \in Seq(E) PROVE \E p \in Seq(E), q \in Seq(C) : list = p \o q
  <2>1. list = list \o <<>>
    BY ConcatEmptySeq, Zenon
  <2> QED
    BY <1>5, <2>1, Zenon
<1>7. CASE job = "probe"
  <2>1. stages \in Repeated("word")
    <3>1. JobPlan("probe") = Repeated("word")
      BY Zenon DEF JobPlan
    <3> QED
      BY <1>7, <3>1, Zenon
  <2>2. stages \in Seq(E)
    BY <1>2, <1>4, <2>1, Zenon
  <2> QED
    BY <1>3, <1>6, <2>2, Zenon
<1>8. CASE job = "erase"
  <2>1. stages = <<"erase">>
    <3>1. JobPlan("erase") = {<<"erase">>}
      BY Zenon DEF JobPlan
    <3>2. stages \in {<<"erase">>}
      BY <1>8, <3>1, Zenon
    <3> QED
      BY <3>2, Zenon
  <2>2. stages \in Seq(E)
    BY <1>5, <2>1, Zenon
  <2> QED
    BY <1>3, <1>6, <2>2, Zenon
<1>9. CASE job = "program"
  <2>1. PICK rows \in Repeated("row"), words \in Optional("config"),
             checks \in Repeated("crc") :
            stages = <<"erase", "load">> \o rows \o words \o checks
    <3>1. JobPlan("program") = ProgramPlans
      BY Zenon DEF JobPlan
    <3>2. stages \in ProgramPlans
      BY <1>9, <3>1, Zenon
    <3> QED
      BY <3>2 DEF ProgramPlans
  <2>2. rows \in Seq(E) /\ words \in Seq(E) /\ checks \in Seq(C)
    BY <1>2, <1>4, <1>5, Zenon DEF Optional
  <2>3. <<"erase", "load">> \o rows \o words \in Seq(E)
    BY <1>5, <2>2, Joined, Zenon
  <2> QED
    BY <1>3, <2>1, <2>2, <2>3, Zenon
<1>10. CASE job = "verify"
  <2>1. PICK checks \in Repeated("crc") : stages = <<"load">> \o checks
    <3>1. JobPlan("verify") = {<<"load">> \o checks : checks \in Repeated("crc")}
      BY Zenon DEF JobPlan
    <3> QED
      BY <1>10, <3>1, Zenon
  <2>2. checks \in Seq(C)
    BY <1>2, <1>4, Zenon
  <2> QED
    BY <1>3, <1>5, <2>1, <2>2, Zenon
<1>11. CASE job = "read"
  <2>1. PICK blocks \in Repeated("block") : stages = <<"load">> \o blocks
    <3>1. JobPlan("read") = {<<"load">> \o blocks : blocks \in Repeated("block")}
      BY Zenon DEF JobPlan
    <3> QED
      BY <1>11, <3>1, Zenon
  <2>2. blocks \in Seq(C)
    BY <1>2, <1>4, Zenon
  <2> QED
    BY <1>3, <1>5, <2>1, <2>2, Zenon
<1> QED
  BY <1>1, <1>7, <1>8, <1>9, <1>10, <1>11, Zenon

\* A program that is started finds the buffers as an earlier one left them.
LEMMA BeginHolds ==
  ASSUME IInv, BuffersHold, NEW m \in Modes, NEW job \in Jobs, Begin(m, job)
  PROVE  BuffersHold'
<1>1. PICK stages \in JobPlan(job) : plan' = <<"open", "status", "identify">> \o stages
  BY Zenon DEF Begin
<1>2. PICK p \in Seq(Stages \ Checks), q \in Seq(Checks) : stages = p \o q
  BY JobsOrdered, Zenon
<1>3. PICK first : first = <<"open", "status", "identify">>
  OBVIOUS
<1>4. first \in Seq(Stages \ Checks)
  <2>1. /\ "open" \in Stages \ Checks /\ "status" \in Stages \ Checks
        /\ "identify" \in Stages \ Checks
    BY DEF Stages, Checks
  <2> QED
    BY <1>3, <2>1, Tuples, Zenon
<1>5. first \o (p \o q) = (first \o p) \o q
  <2>1. PICK S : S = Stages \cup Checks
    OBVIOUS
  <2>2. first \in Seq(S) /\ p \in Seq(S) /\ q \in Seq(S)
    BY <1>4, <2>1
  <2> QED
    BY <2>2
<1>6. Ordered(plan')
  <2>1. first \o p \in Seq(Stages \ Checks)
    BY <1>4, Joined, Zenon
  <2>2. Ordered((first \o p) \o q)
    BY <2>1, OrderedCat, Zenon
  <2> QED
    BY <1>1, <1>2, <1>3, <1>5, <2>2, Zenon
<1>7. stage' = "start" /\ dev' = dev /\ todo' = todo /\ adapter' = adapter
  BY Zenon DEF Begin
<1>8. stage' \notin Checks /\ stage' \notin Brief
  BY <1>7 DEF Checks, Brief, Later
<1>9. PICK a, b : Following(dev, todo, stage, a, b)
  BY Zenon DEF BuffersHold
<1>10. Following(dev, todo, stage, a, b)'
  BY <1>7, <1>8, <1>9, Zenon DEF Following
<1>11. InOrder'
  BY <1>6, <1>8, Zenon DEF InOrder
<1> QED
  BY <1>10, <1>11, Zenon DEF BuffersHold

\* A session that ends leaves them.
LEMMA EndHolds ==
  ASSUME IInv, BuffersHold, NEW how, End(how)
  PROVE  BuffersHold'
<1>1. /\ stage' = "off" /\ plan' = <<>> /\ todo' = <<>> /\ dev' = Fresh(dev)
  BY Zenon DEF End
<1>2. PICK x \in Fillings : Holds(dev, x)
  BY Zenon DEF BuffersHold, Following
<1>3. Whole(dev)
  BY Zenon DEF IInv
<1>4. PICK a \in Fillings : Holds(dev', a)
  BY <1>1, <1>2, <1>3, FreshBuffers, HoldsSoft, Zenon
<1>5. Chain(todo', a, a)
  BY <1>1, ChainNone, Zenon
<1>6. stage' \notin Checks /\ stage' \notin Brief
  BY <1>1 DEF Checks, Brief, Later
<1>7. Following(dev, todo, stage, a, a)'
  BY <1>4, <1>5, <1>6, Zenon DEF Following
<1>8. Ordered(plan')
  <2>1. PICK e : e = <<>>
    OBVIOUS
  <2>2. Len(e) = 0
    BY <2>1
  <2>3. Ordered(e)
    BY <2>2 DEF Ordered
  <2> QED
    BY <1>1, <2>1, <2>3, Zenon
<1> QED
  BY <1>6, <1>7, <1>8, Zenon DEF BuffersHold, InOrder

\* A command finds what it needs and leaves what the rest needs.
LEMMA PerformBuffers ==
  ASSUME IInv, BuffersHold, Perform
  PROVE  BuffersHold'
<1>1. todo # <<>> /\ todo' = Tail(todo) /\ stage' = stage /\ plan' = plan
      /\ adapter' = adapter
  BY Zenon DEF Perform
<1>2. PICK a, b : Following(dev, todo, stage, a, b)
  BY Zenon DEF BuffersHold
<1>3. todo \in Seq(AnyCommands)
  BY TodoListed, Zenon
<1>4. a \in Fillings /\ Holds(dev, a) /\ Chain(todo, a, b)
  BY <1>2, Zenon DEF Following
<1>5. PICK y \in Fillings : Turn(Head(todo), a, y) /\ Chain(Tail(todo), y, b)
  BY <1>1, <1>3, <1>4, ChainTail, Zenon
<1>6. Holds(dev', y)
  BY <1>4, <1>5, PerformHolds, Zenon
<1>7. Following(dev, todo, stage, y, b)'
  BY <1>1, <1>2, <1>5, <1>6, Zenon DEF Following
<1>8. InOrder'
  BY <1>1, Zenon DEF BuffersHold, InOrder
<1> QED
  BY <1>7, <1>8, Zenon DEF BuffersHold

\* Nothing is left of a stage that is done.
LEMMA DoneHolds ==
  ASSUME BuffersHold, todo = <<>>
  PROVE  \E x \in Fillings : Holds(dev, x) /\ (adapter = "pickit" /\ stage \in Brief => x.up <= 8)
<1>1. PICK a, b : Following(dev, todo, stage, a, b)
  BY Zenon DEF BuffersHold
<1>2. a = b
  BY <1>1, ChainEnd, Zenon DEF Following
<1> QED
  BY <1>1, <1>2, Zenon DEF Following

\* On to the next stage.
LEMMA ProceedHolds ==
  ASSUME IInv, BuffersHold, Proceed
  PROVE  BuffersHold'
<1>1. PICK name : name = IF plan = <<>> THEN "close" ELSE Head(plan)
  OBVIOUS
<1>2. /\ Enter(name) /\ outcome = "none" /\ stage \notin {"close", "reject"}
      /\ todo = <<>> /\ plan' = IF plan = <<>> THEN <<>> ELSE Tail(plan)
  BY <1>1, Zenon DEF Proceed, Working
<1>3. PlanFits /\ stage \in {"start", "open", "status", "identify"} \cup Later
  BY <1>2 DEF IInv, TypeOK, Stages, Later
<1>4. plan # <<>> => /\ name = plan[1] /\ Len(plan) >= 1 /\ Len(plan) \in Nat
                     /\ Len(plan') = Len(plan) - 1
                     /\ \A i \in 1 .. Len(plan') : plan'[i] = plan[i + 1]
  BY <1>1, <1>2, <1>3, HeadTailProperties DEF PlanFits
<1>5. name \in Stages \ {"off", "start"}
  <2>1. stage = "start" => name = "open"
    BY <1>3, <1>4 DEF PlanFits
  <2>2. stage = "open" => name = "status"
    BY <1>3, <1>4 DEF PlanFits
  <2>3. stage = "status" => name = "identify"
    BY <1>3, <1>4 DEF PlanFits
  <2>4. CASE stage \in {"identify"} \cup Later
    <3>1. plan \in Seq(Later)
      BY <1>3, <2>4 DEF PlanFits
    <3>2. name \in Later \cup {"close"}
      BY <1>1, <3>1, HeadTailProperties
    <3> QED
      BY <3>2 DEF Stages, Later
  <2> QED
    BY <1>3, <2>1, <2>2, <2>3, <2>4 DEF Stages
<1>6. Serial(name) => stage \in Brief
  <2> SUFFICES ASSUME Serial(name) PROVE stage \in Brief
    OBVIOUS
  <2>1. name \in {"word", "load"}
    BY Zenon DEF Serial
  <2>2. plan # <<>> /\ name = plan[1] /\ Len(plan) >= 1
    BY <1>1, <1>4, <2>1
  <2>3. stage \notin {"start", "open", "status"}
    BY <1>3, <2>1, <2>2 DEF PlanFits
  <2>4. stage \notin Checks
    <3>1. ASSUME stage \in Checks PROVE FALSE
      <4>1. plan[1] \in Checks
        BY <1>4, <2>2, <3>1 DEF BuffersHold, InOrder
      <4> QED
        BY <2>1, <2>2, <4>1 DEF Checks
    <3> QED
      BY <3>1
  <2> QED
    BY <1>3, <2>3, <2>4 DEF Brief
<1>7. PICK x \in Fillings : Holds(dev, x) /\ (adapter = "pickit" /\ stage \in Brief => x.up <= 8)
  BY <1>2, DoneHolds, Zenon
<1>8. \E a, b : Following(dev, todo, stage, a, b)'
  <2>1. adapter = "pickit" /\ Serial(name) => x.up <= 8
    BY <1>6, <1>7, Zenon
  <2> QED
    BY <1>2, <1>5, <1>7, <2>1, EnterHolds, Zenon
<1>9. stage' = name
  BY <1>2, Zenon DEF Enter
<1>10. InOrder'
  <2>1. CASE plan = <<>>
    <3>1. PICK e : e = <<>>
      OBVIOUS
    <3>2. Len(e) = 0
      BY <3>1
    <3>3. Ordered(e)
      BY <3>2 DEF Ordered
    <3>4. plan' = e /\ stage' = "close"
      BY <1>1, <1>2, <1>9, <2>1, <3>1, Zenon
    <3>5. stage' \notin Checks
      BY <3>4 DEF Checks
    <3> QED
      BY <3>3, <3>4, <3>5, Zenon DEF InOrder
  <2>2. CASE plan # <<>>
    <3>1. PICK n \in Nat : n = Len(plan)
      BY <1>4, <2>2
    <3>2. \A i, j \in 1 .. n : i < j /\ plan[i] \in Checks => plan[j] \in Checks
      BY <3>1, Zenon DEF BuffersHold, InOrder, Ordered
    <3>3. /\ name = plan[1] /\ n >= 1 /\ Len(plan') = n - 1
          /\ \A i \in 1 .. n - 1 : plan'[i] = plan[i + 1]
      BY <1>4, <2>2, <3>1, Zenon
    <3>4. Ordered(plan')
      <4>1. ASSUME NEW i \in 1 .. n - 1, NEW j \in 1 .. n - 1, i < j, plan'[i] \in Checks
            PROVE  plan'[j] \in Checks
        <5>1. i + 1 \in 1 .. n /\ j + 1 \in 1 .. n /\ i + 1 < j + 1
          BY <4>1
        <5>2. plan[i + 1] \in Checks
          BY <3>3, <4>1, Zenon
        <5>3. plan[j + 1] \in Checks
          BY <3>2, <5>1, <5>2, Zenon
        <5> QED
          BY <3>3, <5>3, Zenon
      <4> QED
        BY <3>3, <4>1, Zenon DEF Ordered
    <3>5. ASSUME name \in Checks, NEW i \in 1 .. n - 1 PROVE plan'[i] \in Checks
      <4>1. 1 \in 1 .. n /\ i + 1 \in 1 .. n /\ 1 < i + 1
        BY <3>3
      <4>2. plan[i + 1] \in Checks
        BY <3>2, <3>3, <3>5, <4>1, Zenon
      <4> QED
        BY <3>3, <4>2, Zenon
    <3> QED
      BY <1>9, <3>3, <3>4, <3>5, Zenon DEF InOrder
  <2> QED
    BY <2>1, <2>2
<1> QED
  BY <1>8, <1>10, Zenon DEF BuffersHold

\* The polls of an erase need nothing of the buffers.
LEMMA PollHolds ==
  ASSUME IInv, BuffersHold, Poll
  PROVE  BuffersHold'
<1>1. /\ stage = "erase" /\ todo = <<>> /\ adapter # "pickit" /\ todo' = PollAgain
      /\ dev' = dev /\ stage' = stage /\ plan' = plan /\ adapter' = adapter
  BY Zenon DEF Poll, Polling
<1>2. adapter \in {"usbpic", "ascii"}
  BY <1>1 DEF IInv
<1>3. PICK x \in Fillings : Holds(dev, x)
  BY <1>1, DoneHolds, Zenon
<1>4. SameBuffers(dev, dev)
  BY Zenon DEF SameBuffers
<1>5. PICK a \in Fillings : Holds(dev, a) /\ a.exact = FALSE
  BY <1>3, <1>4, HoldsSoft, Zenon
<1>6. Chain(PollAgain, a, a)
  BY <1>2, <1>5, ScriptQuiet, QuietChain, Zenon
<1>7. Following(dev, todo, stage, a, a)'
  BY <1>1, <1>5, <1>6, Zenon DEF Following
<1>8. InOrder'
  BY <1>1, Zenon DEF BuffersHold, InOrder
<1> QED
  BY <1>7, <1>8, Zenon DEF BuffersHold

\* To let go of the target nothing is needed that an interrupted stage would not
\* have left.
LEMMA LeaveHolds ==
  ASSUME IInv, BuffersHold, NEW name \in {"close", "reject"}, Enter(name), plan' = <<>>
  PROVE  BuffersHold'
<1>1. PICK x \in Fillings : Holds(dev, x)
  BY Zenon DEF BuffersHold, Following
<1>2. name \in Stages \ {"off", "start"} /\ name \notin Checks /\ ~ Serial(name)
  BY DEF Stages, Checks, Serial
<1>3. \E a, b : Following(dev, todo, stage, a, b)'
  BY <1>1, <1>2, EnterHolds, Zenon
<1>4. stage' = name
  BY Zenon DEF Enter
<1>5. PICK e : e = <<>>
  OBVIOUS
<1>6. Len(e) = 0
  BY <1>5
<1>7. Ordered(e)
  BY <1>6 DEF Ordered
<1>8. InOrder'
  BY <1>2, <1>4, <1>5, <1>7, Zenon DEF InOrder
<1> QED
  BY <1>3, <1>8, Zenon DEF BuffersHold

\* A session that fails, stops or is done.
LEMMA StopHolds ==
  ASSUME IInv, BuffersHold, Fail \/ Abort \/ Finish \/ Kill
  PROVE  BuffersHold'
<1>1. ASSUME NEW how, End(how) PROVE BuffersHold'
  BY <1>1, EndHolds, Zenon
<1>2. ASSUME Enter("close"), plan' = <<>> PROVE BuffersHold'
  <2>1. "close" \in {"close", "reject"}
    OBVIOUS
  <2> QED
    BY <1>2, <2>1, LeaveHolds, Zenon
<1>3. ASSUME Enter("reject"), plan' = <<>> PROVE BuffersHold'
  <2>1. "reject" \in {"close", "reject"}
    OBVIOUS
  <2> QED
    BY <1>3, <2>1, LeaveHolds, Zenon
<1>4. CASE Fail
  <2>1. PICK name : name = IF stage \in {"open", "status"} THEN "reject" ELSE "close"
    OBVIOUS
  <2>2. name = "close" \/ name = "reject"
    BY <2>1
  <2>3. \/ End("abandoned")
        \/ Enter(name) /\ plan' = <<>>
    BY <1>4, <2>1, Zenon DEF Fail
  <2> QED
    BY <1>1, <1>2, <1>3, <2>2, <2>3, Zenon
<1>5. CASE Abort
  BY <1>1, <1>2, <1>5, Zenon DEF Abort
<1>6. CASE Finish \/ Kill
  BY <1>1, <1>6, Zenon DEF Finish, Kill
<1> QED
  BY <1>4, <1>5, <1>6

\* The buffers are empty when the adapter gets its power.
LEMMA InitHolds ==
  Init => BuffersHold
<1> SUFFICES ASSUME Init PROVE BuffersHold
  OBVIOUS
<1>1. PICK wireMode, wired, family, protected, supply :
          dev = PowerUp(wireMode, wired, family, protected, supply)
  BY Zenon DEF Init
<1>2. PICK e : e = <<>>
  OBVIOUS
<1>3. dev.download = e /\ dev.upload = 0 /\ dev.dry = FALSE
  BY <1>1, <1>2 DEF PowerUp
<1>4. e \in Seq(Nat) /\ Len(e) = 0
  BY <1>2
<1>5. 0 \in Downs /\ 0 \in Ups /\ FALSE \in BOOLEAN
  BY DEF Downs, Ups
<1>6. PICK a \in Fillings : a.down = 0 /\ a.up = 0 /\ ~ a.exact
  <2>1. PICK u \in Downs : u = 0
    BY <1>5, Zenon
  <2>2. PICK v \in Ups : v = 0
    BY <1>5, Zenon
  <2>3. PICK y : Soft(y, u, v)
    BY SoftFilling, Zenon
  <2> QED
    BY <2>1, <2>2, <2>3, Zenon DEF Soft
<1>7. Holds(dev, a)
  <2>1. dev.upload \in Nat /\ dev.upload <= a.up
    BY <1>3, <1>6
  <2>2. ~ a.exact /\ ~ dev.dry
    BY <1>3, <1>6
  <2>3. dev.download \in Seq(Nat) /\ Len(dev.download) = a.down
    BY <1>3, <1>4, <1>6, Zenon
  <2> QED
    BY <2>1, <2>2, <2>3, Zenon DEF Holds
<1>8. stage = "off" /\ plan = <<>> /\ todo = <<>>
  BY Zenon DEF Init
<1>9. Chain(todo, a, a)
  BY <1>8, ChainNone, Zenon
<1>10. stage \notin Checks /\ stage \notin Brief
  BY <1>8 DEF Checks, Brief, Later
<1>11. Following(dev, todo, stage, a, a)
  BY <1>7, <1>9, <1>10, Zenon DEF Following
<1>12. Ordered(e)
  BY <1>4 DEF Ordered
<1>13. InOrder
  BY <1>2, <1>8, <1>10, <1>12, Zenon DEF InOrder
<1> QED
  BY <1>11, <1>13, Zenon DEF BuffersHold

\* The words are in the buffer, and the bytes that are looked at.
LEMMA HoldFits ==
  IInv /\ BuffersHold => BuffersFit
<1> SUFFICES ASSUME IInv, BuffersHold PROVE BuffersFit
  OBVIOUS
<1>1. PICK a, b : Following(dev, todo, stage, a, b)
  BY Zenon DEF BuffersHold
<1>2. a \in Fillings /\ Holds(dev, a) /\ Chain(todo, a, b)
  BY <1>1, Zenon DEF Following
<1>3. PICK u \in Downs, v \in Ups : u = a.down /\ v = a.up
  BY <1>2, FillingSizes, Zenon
<1>4. /\ Len(dev.download) = u /\ dev.upload \in Nat /\ dev.upload <= v /\ ~ dev.dry
      /\ a.exact /\ ~ dev.timeout => dev.upload = v
  BY <1>2, <1>3, Zenon DEF Holds
<1>5. Len(dev.download) <= 64 /\ dev.upload <= 128
  <2>1. PICK p : p = dev.upload
    OBVIOUS
  <2>2. p \in Nat /\ p <= v
    BY <1>4, <2>1, Zenon
  <2>3. u <= 64 /\ p <= 128
    BY <2>2 DEF Downs, Ups
  <2> QED
    BY <1>4, <2>1, <2>3, Zenon
<1>6. ASSUME Looking("ExpectBytes"), ~ dev.timeout PROVE dev.upload = Head(todo).arg
  <2>1. todo # <<>> /\ Head(todo).op = "ExpectBytes"
    BY <1>6, Zenon DEF Looking
  <2>2. todo \in Seq(AnyCommands)
    BY TodoListed, Zenon
  <2>3. PICK y \in Fillings : Turn(Head(todo), a, y)
    BY <1>2, <2>1, <2>2, ChainTail, Zenon
  <2>4. a.exact /\ a.up = Head(todo).arg
    BY <2>1, <2>3, Zenon DEF Turn
  <2> QED
    BY <1>3, <1>4, <1>6, <2>4, Zenon
<1> QED
  BY <1>4, <1>5, <1>6, Zenon DEF BuffersFit

\* Every script that the PICkit runs finds the words it takes in the download buffer,
\* which never gets more than its 64; its upload buffer never gets more than its 128
\* bytes, and when the program reads it and no script was given up by the adapter,
\* it holds as many as the program reads: whatever the job, for every number of words,
\* rows and blocks, whatever the target answers, and whatever sessions that failed or
\* were killed have left in both buffers.
THEOREM BuffersSuffice == Spec => []BuffersFit
<1>1. Init => BuffersHold
  BY InitHolds
<1>2. IInv /\ BuffersHold /\ [Next]_vars => BuffersHold'
  <2> SUFFICES ASSUME IInv, BuffersHold, [Next]_vars PROVE BuffersHold'
    OBVIOUS
  <2>1. ASSUME NEW m \in Modes, NEW job \in Jobs, Begin(m, job) PROVE BuffersHold'
    BY <2>1, BeginHolds
  <2>2. CASE Perform
    BY <2>2, PerformBuffers
  <2>3. CASE Proceed
    BY <2>3, ProceedHolds
  <2>4. CASE Poll
    BY <2>4, PollHolds
  <2>5. CASE Fail \/ Abort \/ Finish \/ Kill
    BY <2>5, StopHolds
  <2>6. CASE UNCHANGED vars
    <3>1. /\ dev' = dev /\ todo' = todo /\ stage' = stage /\ plan' = plan
          /\ adapter' = adapter
      BY <2>6, Zenon DEF vars
    <3>2. PICK a, b : Following(dev, todo, stage, a, b)
      BY Zenon DEF BuffersHold
    <3>3. Following(dev, todo, stage, a, b)'
      BY <3>1, <3>2, Zenon DEF Following
    <3>4. InOrder'
      BY <3>1, Zenon DEF BuffersHold, InOrder
    <3> QED
      BY <3>3, <3>4, Zenon DEF BuffersHold
  <2> QED
    BY <2>1, <2>2, <2>3, <2>4, <2>5, <2>6, Zenon DEF Next
<1>3. IInv /\ BuffersHold => BuffersFit
  BY HoldFits
<1> QED
  BY <1>1, <1>2, <1>3, SessionInvariant, PTL DEF Spec
=============================================================================
