--------------------------- MODULE UsbLinkProofs ---------------------------
(***************************************************************************)
(* Theorems about UsbLink, for every set of commands and every bound.      *)
(*                                                                         *)
(* Part 1 holds whatever fails: the types, and that no packet is executed  *)
(* twice.  Part 2 holds when no process is interrupted or killed: replies  *)
(* match their requests and the link is a remote procedure call.           *)
(***************************************************************************)
EXTENDS UsbLink, TLAPS

-----------------------------------------------------------------------------
(* Part 1: whatever fails.                                                 *)

LEMMA CloseCommands ==
  /\ CloseCommand \subseteq Command
  /\ \A c \in CloseCommand : c \notin ReplyCommand
  /\ \A c \in CloseCommand : AfterClose(c) \in CloseCommand \cup {"end"}
<1>1. \A c \in CloseCommand : AfterClose(c) \in CloseCommand \cup {"end"}
  BY DEF CloseCommand, AfterClose
<1> QED BY <1>1, CommandAssumption DEF CloseCommand, ReplyCommand

\* The end of the process keeps the types of what it resets.
LEMMA GoneType ==
  ASSUME Gone
  PROVE  /\ host' = "closed" /\ target' \in BOOLEAN
         /\ undo' \subseteq CloseCommand
         /\ closing' \in [Thread -> CloseCommand \cup {"none", "end"}]
         /\ stage' \in [Thread -> {"test", "wait", "write"}]
         /\ writer' \in Thread \cup {"none"}
<1>1. target' \in BOOLEAN
  BY Zenon DEF Gone
<1> QED BY <1>1 DEF Gone

\* So does exit, which starts usbpic_close or ends the process.
LEMMA ExitType ==
  ASSUME TypeOK, Exit
  PROVE  /\ host' \in {"closed", "quitting"} /\ target' \in BOOLEAN
         /\ undo' \subseteq CloseCommand
         /\ closing' \in [Thread -> CloseCommand \cup {"none", "end"}]
         /\ stage' \in [Thread -> {"test", "wait", "write"}]
         /\ writer' \in Thread \cup {"none"}
<1>1. CASE Quits("main") /\ host' = "quitting"
  BY <1>1 DEF Quits, TypeOK, CloseCommand
<1>2. CASE Gone
  BY <1>2, GoneType
<1> QED BY <1>1, <1>2 DEF Exit

\* WriteFile is given a packet with the next number.
LEMMA WriteType ==
  ASSUME TypeOK, NEW t, NEW c \in Command, Write(t, c)
  PROVE  /\ sent' \in Packet /\ sent'.id = sent.id + 1 /\ sent'.cmd = c
         /\ sent.id \in Nat
<1>1. sent.id \in Nat
  BY DEF TypeOK, Packet, NoPacket
<1> QED BY <1>1 DEF Write, Packet

LEMMA TypeInit == Init => TypeOK
<1> SUFFICES ASSUME Init PROVE TypeOK
  OBVIOUS
<1>1. Cleared \in Reply
  BY DEF Cleared, Reply
<1>2. accepted \in [request : Packet \cup {NoPacket}, reply : Reply]
  BY <1>1 DEF Init
<1>3. target \in BOOLEAN /\ needReply \in BOOLEAN
  BY Zenon DEF Init
<1> QED BY <1>1, <1>2, <1>3 DEF Init, TypeOK

LEMMA TypeStep == TypeOK /\ [Next]_vars => TypeOK'
<1> SUFFICES ASSUME TypeOK, [Next]_vars PROVE TypeOK'
  OBVIOUS
<1> USE DEF TypeOK, closeVars, hostVars, osVars, fwVars
<1>1. CASE Open
  BY <1>1 DEF Open
<1>2. CASE TargetOpened
  BY <1>2 DEF TargetOpened, CloseCommand
<1>3. ASSUME NEW c \in Command, Request(c) PROVE TypeOK'
  <2>1. sent' \in Packet
    BY <1>3, WriteType DEF Request
  <2> QED BY <1>3, <2>1 DEF Request, Write, Thread
<1>4. CASE Written \/ StartRead
  BY <1>4 DEF Written, StartRead
<1>5. CASE Read
  <2>1. Head(incoming) \in Reply /\ Tail(incoming) \in Seq(Reply)
    BY <1>5 DEF Read
  <2>2. CASE Exit /\ UNCHANGED accepted
    BY <1>5, <2>1, <2>2, ExitType DEF Read
  <2>3. CASE ~ (Exit /\ UNCHANGED accepted)
    BY <1>5, <2>1, <2>3 DEF Read
  <2> QED BY <2>2, <2>3
<1>6. CASE Quit
  BY <1>6, ExitType DEF Quit
<1>7. CASE Signal
  <2>1. CASE Quits("handler") /\ UNCHANGED host
    <3>1. closing' \in [Thread -> CloseCommand \cup {"none", "end"}]
      BY <2>1 DEF Quits, CloseCommand
    <3>2. UNCHANGED <<host, target, undo, stage, writer>>
      BY <2>1 DEF Quits
    <3> QED BY <1>7, <3>1, <3>2 DEF Signal
  <2>2. CASE Gone
    BY <1>7, <2>2, GoneType DEF Signal
  <2> QED BY <1>7, <2>1, <2>2 DEF Signal
<1>8. ASSUME NEW t \in Thread, Close(t) PROVE TypeOK'
  <2>1. CASE CloseTest(t)
    BY <2>1, CloseCommands DEF CloseTest, Closing
  <2>2. CASE CloseWrite(t)
    <3>1. sent' \in Packet
      BY <2>2, CloseCommands, WriteType DEF CloseWrite, Closing
    <3> QED BY <2>2, <3>1 DEF CloseWrite, Write
  <2>3. CASE CloseWritten(t)
    BY <2>3, CloseCommands DEF CloseWritten, Closing
  <2>4. CASE Closed(t)
    BY <2>4, GoneType DEF Closed
  <2> QED BY <1>8, <2>1, <2>2, <2>3, <2>4 DEF Close
<1>10. CASE Kill
  BY <1>10, GoneType DEF Kill
<1>11. CASE InitEP
  BY <1>11 DEF InitEP
<1>12. CASE Suspend \/ Resume
  BY <1>12 DEF Suspend, Resume
<1>13. CASE SieOut
  BY <1>13 DEF SieOut
<1>14. CASE SieIn
  BY <1>14 DEF SieIn
<1>15. CASE Receive
  BY <1>15 DEF Receive, Cleared, Reply
<1>16. CASE Execute
  <2>1. performed' \in Nat
    BY <1>16 DEF Execute, Packet, NoPacket
  <2>2. USBOutput' \in Reply
    <3>1. USBInput \in Packet \cup {NoPacket} /\ USBOutput \in Reply
      OBVIOUS
    <3>2. CASE USBInput.cmd \in ReplyCommand
      BY <1>16, <3>1, <3>2 DEF Execute, Reply
    <3>3. CASE USBInput.cmd \notin ReplyCommand
      BY <1>16, <3>1, <3>3 DEF Execute, Reply
    <3> QED BY <3>2, <3>3
  <2>3. needReply' \in BOOLEAN
    BY <1>16 DEF Execute
  <2> QED BY <1>16, <2>1, <2>2, <2>3 DEF Execute
<1>17. CASE Rearm
  BY <1>17 DEF Rearm
<1>18. CASE FillReply
  <2>1. USBInput.cmd \in Command \cup {"none"}
    BY DEF Packet, NoPacket
  <2>2. USBOutput' \in Reply
    BY <1>18, <2>1 DEF FillReply, Reply
  <2> QED BY <1>18, <2>2 DEF FillReply
<1>19. CASE Transmit
  BY <1>19 DEF Transmit
<1>20. CASE UNCHANGED vars
  BY <1>20 DEF vars
<1>21. [Next]_vars
  OBVIOUS
<1> QED
  BY ONLY <1>21, <1>1, <1>2, <1>3, <1>4, <1>5, <1>6, <1>7, <1>8, <1>10, <1>11,
     <1>12, <1>13, <1>14, <1>15, <1>16, <1>17, <1>18, <1>19, <1>20
     DEF Next, Main, Bus, Firmware

\* Every variable keeps its type, with any faults.
THEOREM TypeCorrect == Spec => []TypeOK
BY TypeInit, TypeStep, PTL DEF Spec

\* The order of the packets, with any faults: what was executed is never ahead
\* of USBInput, and a packet that waits to be executed has not been.
InvOrder ==
    /\ USBInput.id <= sent.id
    /\ writer # "none" => USBInput.id < sent.id
    /\ fw \in {"execute", "rearm"} => outOwner = "cpu"
    /\ bus = "attached" => /\ fw = "poll" /\ outOwner = "cpu" /\ host = "closed"
                           /\ sent = NoPacket /\ writer = "none"
                           /\ \A t \in Thread : closing[t] = "none"
    /\ IF outOwner = "cpu" /\ bus # "attached" /\ fw # "rearm"
       THEN performed < USBInput.id
       ELSE performed = USBInput.id

LEMMA OrderStep ==
  ASSUME TypeOK, InvOrder, [Next]_vars
  PROVE  InvOrder'
<1> USE DEF InvOrder, closeVars, hostVars, osVars, fwVars
<1>t. sent.id \in Nat /\ USBInput.id \in Nat /\ performed \in Nat
  BY DEF TypeOK, Packet, NoPacket
<1>g. Gone => host' = "closed" /\ writer' = "none"
              /\ \A t \in Thread : closing'[t] = "none"
  BY DEF Gone
<1>1. CASE Open \/ TargetOpened \/ Written \/ StartRead
  BY <1>t, <1>1 DEF Open, TargetOpened, Written, StartRead
<1>2. CASE Read \/ Quit \/ Signal
  <2>1. bus # "attached" /\ UNCHANGED <<sent, bus, fwVars>>
    BY <1>2 DEF Read, Quit, Signal
  <2>2. writer' = writer \/ writer' = "none"
    BY <1>2, <1>g DEF Read, Quit, Signal, Exit, Quits
  <2> QED BY <1>t, <2>1, <2>2
<1>3. ASSUME NEW c \in Command, Request(c) PROVE InvOrder'
  BY <1>t, <1>3, WriteType DEF Request
<1>4. ASSUME NEW t \in Thread, Close(t) PROVE InvOrder'
  <2>1. bus # "attached"
    BY <1>4 DEF Close, CloseTest, CloseWrite, CloseWritten, Closed, Closing,
       CloseCommand
  <2>2. CASE CloseTest(t) \/ CloseWritten(t)
    BY <1>t, <2>1, <2>2 DEF CloseTest, CloseWritten
  <2>3. CASE CloseWrite(t)
    BY <1>t, <2>1, <2>3, WriteType, CloseCommands DEF CloseWrite, Closing
  <2>4. CASE Closed(t)
    BY <1>t, <1>g, <2>1, <2>4 DEF Closed
  <2> QED BY <1>4, <2>2, <2>3, <2>4 DEF Close
<1>5. CASE Kill
  BY <1>t, <1>g, <1>5 DEF Kill
<1>6. CASE InitEP
  BY <1>t, <1>6 DEF InitEP
<1>7. CASE Suspend \/ Resume
  BY <1>t, <1>7 DEF Suspend, Resume
<1>8. CASE SieOut
  BY <1>t, <1>8 DEF SieOut
<1>9. CASE SieIn
  BY <1>t, <1>9 DEF SieIn
<1>10. CASE Receive
  BY <1>t, <1>10 DEF Receive
<1>11. CASE Execute
  BY <1>t, <1>11 DEF Execute
<1>12. CASE Rearm
  BY <1>t, <1>12 DEF Rearm
<1>13. CASE FillReply \/ Transmit
  BY <1>t, <1>13 DEF FillReply, Transmit
<1>14. CASE UNCHANGED vars
  BY <1>14 DEF vars
<1> QED
  BY <1>1, <1>2, <1>3, <1>4, <1>5, <1>6, <1>7, <1>8, <1>9, <1>10, <1>11,
     <1>12, <1>13, <1>14
     DEF Next, Main, Bus, Firmware

\* No packet is executed twice or after a later one, with any faults.
THEOREM ExecutedOnce == Spec => NeverTwice
<1>1. Init => InvOrder
  BY DEF Init, InvOrder, NoPacket
<1>2. TypeOK /\ InvOrder /\ [Next]_vars => InvOrder'
  BY OrderStep
<1>3. TypeOK /\ InvOrder /\ [Next]_vars =>
        [fw = "execute" /\ fw' # "execute" => performed' > performed]_vars
  <2> SUFFICES ASSUME TypeOK, InvOrder, Next, fw = "execute", fw' # "execute"
               PROVE  performed' > performed
    OBVIOUS
  <2>1. Execute
    BY DEF Next, Main, Close, Bus, Firmware, closeVars, hostVars, osVars, fwVars,
       Open, TargetOpened, Request, Written, StartRead, Read, Quit, Signal,
       CloseTest, CloseWrite, CloseWritten, Closed, Kill, InitEP, Suspend,
       Resume, SieOut, SieIn, Receive, Rearm, FillReply, Transmit
  <2>2. performed < USBInput.id
    BY DEF InvOrder
  <2>3. USBInput.id \in Nat /\ performed \in Nat
    BY DEF TypeOK, Packet, NoPacket
  <2> QED BY <2>1, <2>2, <2>3 DEF Execute
<1> QED BY <1>1, <1>2, <1>3, TypeCorrect, PTL DEF Spec, NeverTwice

\* However processes die or are interrupted, the replies that are due or on
\* their way stay few.  Each packet that asks for one is counted from hid_write
\* on, wherever it is; a process adds the one it waits for, and what it meets
\* was left by the last: a reply in each of the firmware's and the SIE's hands,
\* and one to a packet the firmware has yet to serve.
One(b) == IF b THEN 1 ELSE 0
Ready == One(inOwner = "sie")
Made == One(needReply)
Unserved ==
    One(/\ outOwner = "cpu" /\ bus # "attached" /\ fw # "rearm"
        /\ USBInput.cmd \in ReplyCommand)
OnBus == One(writer # "none" /\ sent.cmd \in ReplyCommand)
Wanted ==
    One(\/ host \in {"read", "reading"}
        \/ host = "writing" /\ request.cmd \in ReplyCommand)
Owed == Len(incoming) + Ready + Made + Unserved + OnBus

InvBacklog ==
    /\ host = "closed" => /\ writer = "none" /\ Owed <= 4
                          /\ \A t \in Thread : closing[t] = "none"
    /\ host # "closed" => Owed <= 3 + Wanted
    /\ fw \in {"reply", "transmit"} => needReply

LEMMA Counts ==
  /\ Ready \in 0..1 /\ Made \in 0..1 /\ Unserved \in 0..1
  /\ OnBus \in 0..1 /\ Wanted \in 0..1
  /\ Ready' \in 0..1 /\ Made' \in 0..1 /\ Unserved' \in 0..1
  /\ OnBus' \in 0..1 /\ Wanted' \in 0..1
BY DEF One, Ready, Made, Unserved, OnBus, Wanted

LEMMA BacklogStep ==
  ASSUME TypeOK, InvOrder, InvBacklog, [Next]_vars
  PROVE  InvBacklog'
<1> USE DEF InvBacklog, Owed, closeVars, hostVars, osVars, fwVars
<1>t. /\ incoming \in Seq(Reply) /\ Len(incoming) \in Nat
      /\ needReply \in BOOLEAN
  BY DEF TypeOK
<1>c. /\ Ready \in 0..1 /\ Made \in 0..1 /\ Unserved \in 0..1
      /\ OnBus \in 0..1 /\ Wanted \in 0..1
  BY Counts
<1>d. /\ Ready' \in 0..1 /\ Made' \in 0..1 /\ Unserved' \in 0..1
      /\ OnBus' \in 0..1 /\ Wanted' \in 0..1
  BY Counts
<1>f. UNCHANGED <<bus, fwVars>> =>
        Ready' = Ready /\ Made' = Made /\ Unserved' = Unserved
  BY DEF Ready, Made, Unserved
<1>w. UNCHANGED <<writer, sent>> => OnBus' = OnBus
  BY DEF OnBus
<1>a. UNCHANGED <<host, request>> => Wanted' = Wanted
  BY DEF Wanted
<1>n. writer' = "none" => OnBus' = 0
  BY DEF OnBus, One
<1>g. Gone => host' = "closed" /\ writer' = "none"
              /\ \A t \in Thread : closing'[t] = "none"
  BY DEF Gone
<1>1. CASE Open
  <2>1. Len(incoming') = 0 /\ Ready' = Ready /\ Made' = Made /\ Unserved' = Unserved
    BY <1>f, <1>1 DEF Open
  <2>2. OnBus' = 0
    BY <1>1, <1>n DEF Open
  <2>3. host' = "idle" /\ fw' = fw /\ needReply' = needReply
    BY <1>1 DEF Open
  <2>4. Owed' <= 3
    BY <1>c, <2>1, <2>2
  <2> QED BY <1>d, <2>3, <2>4
<1>2. CASE TargetOpened
  <2>1. /\ Ready' = Ready /\ Made' = Made /\ Unserved' = Unserved /\ OnBus' = OnBus
        /\ Wanted' = Wanted
    BY <1>f, <1>w, <1>a, <1>2 DEF TargetOpened
  <2>2. host = "idle" /\ UNCHANGED <<host, incoming, fw, needReply>>
    BY <1>2 DEF TargetOpened
  <2> QED BY <1>c, <2>1, <2>2
<1>3. CASE Written \/ StartRead
  <2>1. Ready' = Ready /\ Made' = Made /\ Unserved' = Unserved /\ OnBus' = OnBus
    BY <1>f, <1>w, <1>3 DEF Written, StartRead
  <2>2. Wanted' = Wanted
    BY <1>3 DEF Written, StartRead, Wanted
  <2>3. host # "closed" /\ host' # "closed" /\ UNCHANGED <<incoming, fw, needReply>>
    BY <1>3 DEF Written, StartRead
  <2> QED BY <1>c, <2>1, <2>2, <2>3
<1>4. ASSUME NEW c \in Command, Request(c) PROVE InvBacklog'
  <2>1. Ready' = Ready /\ Made' = Made /\ Unserved' = Unserved
    BY <1>f, <1>4 DEF Request
  <2>2. OnBus = 0 /\ Wanted = 0
    BY <1>4 DEF Request, Write, FileFree, OnBus, Wanted, One
  <2>3. OnBus' = Wanted'
    BY <1>4 DEF Request, Write, OnBus, Wanted, One
  <2>4. host = "idle" /\ host' = "writing" /\ UNCHANGED <<incoming, fw, needReply>>
    BY <1>4 DEF Request
  <2> QED BY <1>t, <1>c, <1>d, <2>1, <2>2, <2>3, <2>4
<1>5. CASE Read
  <2>1. Ready' = Ready /\ Made' = Made /\ Unserved' = Unserved
    BY <1>f, <1>5 DEF Read
  <2>2. host = "reading" /\ Wanted = 1 /\ UNCHANGED <<fw, needReply, sent>>
    BY <1>5 DEF Read, Wanted, One
  <2>3. Len(incoming') = Len(incoming) - 1
    BY <1>t, <1>5 DEF Read
  <2>4. \/ /\ host' = "closed" /\ writer' = "none"
           /\ \A t \in Thread : closing'[t] = "none"
        \/ host' \in {"idle", "quitting"} /\ writer' = writer
    BY <1>5, <1>g DEF Read, Exit, Quits
  <2>5. OnBus' <= OnBus
    BY <1>c, <1>n, <1>w, <2>2, <2>4
  <2>6. Owed' <= 3
    BY <1>t, <1>c, <1>d, <2>1, <2>2, <2>3, <2>5
  <2> QED BY <1>d, <2>2, <2>4, <2>6
<1>6. CASE Quit \/ Signal \/ Kill
  <2>1. /\ host # "closed" /\ UNCHANGED <<request, sent, incoming, fw, needReply>>
        /\ Ready' = Ready /\ Made' = Made /\ Unserved' = Unserved
    BY <1>f, <1>6 DEF Quit, Signal, Kill
  <2>2. \/ /\ host' = "closed" /\ writer' = "none"
           /\ \A t \in Thread : closing'[t] = "none"
        \/ host = "idle" /\ host' = "quitting" /\ writer' = writer
        \/ host' = host /\ writer' = writer
    BY <1>6, <1>g DEF Quit, Signal, Kill, Exit, Quits
  <2>3. OnBus' <= OnBus
    BY <1>c, <1>n, <1>w, <2>1, <2>2
  <2>4. host' # "closed" => Wanted' = Wanted
    BY <2>1, <2>2 DEF Wanted
  <2> QED BY <1>t, <1>c, <1>d, <2>1, <2>2, <2>3, <2>4
<1>7. ASSUME NEW t \in Thread, Close(t) PROVE InvBacklog'
  <2>1. /\ host # "closed" /\ UNCHANGED <<request, incoming, fw, needReply>>
        /\ Ready' = Ready /\ Made' = Made /\ Unserved' = Unserved
    <3>1. closing[t] # "none"
      BY <1>7 DEF Close, CloseTest, CloseWrite, CloseWritten, Closed, Closing,
         CloseCommand
    <3>2. UNCHANGED <<bus, fwVars, request, incoming>>
      BY <1>7 DEF Close, CloseTest, CloseWrite, CloseWritten, Closed
    <3> QED BY <1>f, <3>1, <3>2
  <2>2. CASE CloseTest(t) \/ CloseWritten(t)
    <3>1. host' = host /\ OnBus' = OnBus /\ Wanted' = Wanted
      BY <1>w, <1>a, <2>2 DEF CloseTest, CloseWritten
    <3> QED BY <1>c, <2>1, <3>1
  <2>3. CASE CloseWrite(t)
    <3>1. sent'.cmd \notin ReplyCommand
      BY <2>3, CloseCommands DEF CloseWrite, Closing, Write
    <3>2. OnBus' = 0
      BY <3>1 DEF OnBus, One
    <3>3. host' = host /\ Wanted' = Wanted
      BY <1>a, <2>3 DEF CloseWrite
    <3> QED BY <1>t, <1>c, <2>1, <3>2, <3>3
  <2>4. CASE Closed(t)
    <3>1. /\ host' = "closed" /\ writer' = "none" /\ OnBus' = 0
          /\ \A u \in Thread : closing'[u] = "none"
      BY <1>g, <1>n, <2>4 DEF Closed
    <3> QED BY <1>t, <1>c, <2>1, <3>1
  <2> QED BY <1>7, <2>2, <2>3, <2>4 DEF Close
<1>8. CASE InitEP
  <2>1. /\ Ready' = Ready /\ Made' = Made /\ OnBus' = OnBus /\ Wanted' = Wanted
        /\ UNCHANGED <<hostVars, writer, incoming, fw, needReply>>
    BY <1>w, <1>a, <1>8 DEF InitEP, Ready, Made
  <2>2. Unserved' = 0
    BY <1>8 DEF InitEP, Unserved, One
  <2> QED BY <1>t, <1>c, <2>1, <2>2
<1>9. CASE Suspend \/ Resume
  <2>1. /\ Ready' = Ready /\ Made' = Made /\ OnBus' = OnBus /\ Wanted' = Wanted
        /\ UNCHANGED <<hostVars, writer, incoming, fw, needReply>>
    BY <1>w, <1>a, <1>9 DEF Suspend, Resume, Ready, Made
  <2>2. Unserved' = Unserved
    BY <1>9 DEF Suspend, Resume, Unserved
  <2> QED BY <1>t, <1>c, <2>1, <2>2
<1>10. CASE SieOut
  <2>1. /\ Ready' = Ready /\ Made' = Made /\ Wanted' = Wanted
        /\ UNCHANGED <<hostVars, incoming, fw, needReply>>
    BY <1>a, <1>10 DEF SieOut, Ready, Made
  <2>2. Unserved = 0 /\ OnBus' = 0 /\ host # "closed"
    BY <1>10, <1>n DEF SieOut, Unserved, One
  <2>3. Unserved' = OnBus
    BY <1>10 DEF SieOut, InvOrder, Unserved, OnBus, One
  <2> QED BY <1>t, <1>c, <2>1, <2>2, <2>3
<1>11. CASE SieIn
  <2>1. /\ Made' = Made /\ Wanted' = Wanted /\ OnBus' = OnBus
        /\ UNCHANGED <<hostVars, writer, fw, needReply>>
    BY <1>w, <1>a, <1>11 DEF SieIn, Made
  <2>2. Unserved' = Unserved /\ Ready = 1 /\ Ready' = 0
    BY <1>11 DEF SieIn, Unserved, Ready, One
  <2>3. Len(incoming') = Len(incoming) + 1
    BY <1>t, <1>11 DEF SieIn
  <2> QED BY <1>t, <1>c, <2>1, <2>2, <2>3
<1>12. CASE Receive \/ FillReply
  <2>1. /\ Ready' = Ready /\ Made' = Made /\ OnBus' = OnBus /\ Wanted' = Wanted
        /\ UNCHANGED <<hostVars, writer, incoming, needReply>>
    BY <1>w, <1>a, <1>12 DEF Receive, FillReply, Ready, Made
  <2>2. Unserved' = Unserved /\ (fw' \in {"reply", "transmit"} => needReply)
    BY <1>12 DEF Receive, FillReply, Unserved
  <2> QED BY <1>t, <1>c, <2>1, <2>2
<1>13. CASE Execute
  <2>1. /\ Ready' = Ready /\ OnBus' = OnBus /\ Wanted' = Wanted
        /\ UNCHANGED <<hostVars, writer, incoming>> /\ fw' = "rearm"
    BY <1>w, <1>a, <1>13 DEF Execute, Ready
  <2>2. Unserved' = 0 /\ Made' = Unserved
    BY <1>13 DEF Execute, InvOrder, Unserved, Made, One
  <2> QED BY <1>t, <1>c, <2>1, <2>2
<1>14. CASE Rearm
  <2>1. /\ Ready' = Ready /\ OnBus' = OnBus /\ Wanted' = Wanted /\ Made' = Made
        /\ UNCHANGED <<hostVars, writer, incoming, needReply>>
    BY <1>w, <1>a, <1>14 DEF Rearm, Ready, Made
  <2>2. Unserved' = 0 /\ (fw' \in {"reply", "transmit"} => needReply)
    BY <1>14 DEF Rearm, Unserved, One
  <2> QED BY <1>t, <1>c, <2>1, <2>2
<1>15. CASE Transmit
  <2>1. /\ OnBus' = OnBus /\ Wanted' = Wanted /\ Unserved' = Unserved
        /\ UNCHANGED <<hostVars, writer, incoming>> /\ fw' = "poll"
    BY <1>w, <1>a, <1>15 DEF Transmit, Unserved
  <2>2. Made = 1 /\ Made' = 0 /\ Ready = 0 /\ Ready' = 1
    BY <1>15 DEF Transmit, Made, Ready, One
  <2> QED BY <1>t, <1>c, <2>1, <2>2
<1>16. CASE UNCHANGED vars
  <2>1. /\ OnBus' = OnBus /\ Wanted' = Wanted /\ Unserved' = Unserved
        /\ Ready' = Ready /\ Made' = Made
    BY <1>f, <1>w, <1>a, <1>16 DEF vars
  <2> QED BY <1>16, <2>1 DEF vars
<1> QED
  BY <1>1, <1>2, <1>3, <1>4, <1>5, <1>6, <1>7, <1>8, <1>9, <1>10, <1>11,
     <1>12, <1>13, <1>14, <1>15, <1>16
     DEF Next, Main, Bus, Firmware

\* At most four replies are due or on their way, the bound UsbLinkKill finds
\* tight, for any number of processes and packets and with any faults.
THEOREM BacklogBounded == Spec => []BoundedBacklog
<1>1. Init => InvOrder /\ InvBacklog
  <2> SUFFICES ASSUME Init PROVE InvOrder /\ InvBacklog
    OBVIOUS
  <2>1. /\ Ready = 0 /\ Unserved = 0 /\ OnBus = 0 /\ Made = 0
    BY DEF Init, Ready, Unserved, OnBus, Made, One
  <2> QED BY <2>1 DEF Init, InvOrder, InvBacklog, Owed, NoPacket
<1>2. TypeOK /\ InvOrder /\ InvBacklog /\ [Next]_vars => InvOrder' /\ InvBacklog'
  BY OrderStep, BacklogStep
<1>3. TypeOK /\ InvBacklog => BoundedBacklog
  <2> SUFFICES ASSUME TypeOK, InvBacklog PROVE BoundedBacklog
    OBVIOUS
  <2>1. Len(incoming) \in Nat
    BY DEF TypeOK
  <2>2. RepliesInFlight = Len(incoming) + Ready + Made
    BY DEF RepliesInFlight, Ready, Made, One
  <2> QED BY <2>1, <2>2, Counts DEF InvBacklog, Owed, BoundedBacklog
<1> QED BY <1>1, <1>2, <1>3, TypeCorrect, PTL DEF Spec

-----------------------------------------------------------------------------
(* Part 2: the inductive invariant.  A reply command is somewhere on a path *)
(* of seven stages from hid_write to hid_read, and while it is there every  *)
(* other stage is empty, because the program waits for it.                  *)

Awaiting == host \in {"writing", "read", "reading"}

\* USBInput holds a packet the firmware has not finished with.
Delivered == outOwner = "cpu" /\ bus # "attached"

\* The reply to a packet, as the host must find it.
AnswerTo(p) == [status |-> 1, echo |-> p.cmd, data |-> p]

\* Before the stack has configured the device nothing has happened.
InvBus ==
    bus = "attached" => /\ outOwner = "cpu" /\ fw = "poll" /\ host = "closed"
                        /\ sent = NoPacket

\* There is no handler, and the main thread closes or operates, never both.
InvThread ==
    /\ closing["handler"] = "none"
    /\ writer # "handler"
    /\ closing["main"] # "none" => host = "quitting"
    /\ writer = "main" => host = "writing" \/ Closing("main", "write")
    /\ writer = "main" /\ host = "quitting" => sent.cmd \notin ReplyCommand

\* A packet that has been written is in USBInput, and the main thread waits
\* for the packet sent last.
InvOut ==
    /\ writer # "none" => USBInput.id = sent.id - 1 /\ sent # NoPacket
    /\ writer = "none" => USBInput = sent
    /\ Awaiting => request = sent /\ sent # NoPacket
    /\ host \in {"read", "reading"} =>
          writer = "none" /\ request.cmd \in ReplyCommand

\* The firmware owns USBInput from arrival to re-arming, and what has been
\* executed is what it no longer owns.
InvFw ==
    /\ fw \in {"execute", "rearm"} => Delivered
    /\ fw \in {"reply", "transmit"} => outOwner = "sie"
    /\ performed = IF Delivered /\ fw # "rearm" THEN USBInput.id - 1
                                                ELSE USBInput.id
    /\ Delivered => USBInput # NoPacket
    /\ fw \in {"poll", "execute"} => ~ needReply
    /\ fw = "rearm" => needReply = (USBInput.cmd \in ReplyCommand)
    /\ fw \in {"reply", "transmit"} => needReply /\ USBInput.cmd \in ReplyCommand

\* The reply under construction is the reply to the packet in USBInput.
InvReply ==
    /\ fw = "rearm" /\ needReply => USBOutput.data = USBInput
    /\ fw = "reply" => USBOutput.data = USBInput
    /\ fw = "transmit" => USBOutput = AnswerTo(USBInput)

\* While a reply command is being served the program does nothing else.
InvServing ==
    /\ (Delivered \/ fw # "poll") /\ USBInput.cmd \in ReplyCommand =>
          Awaiting /\ writer = "none"
    /\ Delivered \/ fw # "poll" => inOwner = "cpu" /\ incoming = <<>>

\* A finished reply is in one place, and the program is waiting for it.
InvIn ==
    /\ inOwner = "sie" => USBOutput = AnswerTo(request) /\ incoming = <<>>
    /\ incoming # <<>> => incoming = <<AnswerTo(request)>>
    /\ inOwner = "sie" \/ incoming # <<>> =>
          Awaiting /\ writer = "none" /\ request.cmd \in ReplyCommand

IInv ==
    /\ TypeOK
    /\ InvBus
    /\ InvThread
    /\ InvOut
    /\ InvFw
    /\ InvReply
    /\ InvServing
    /\ InvIn
    /\ AnswersMatch

LEMMA InitIInv == Init => IInv
<1> SUFFICES ASSUME Init PROVE IInv
  OBVIOUS
<1>1. TypeOK
  BY TypeInit
<1>2. AnswersMatch
  BY DEF Init, AnswersMatch, Cleared
<1> QED
  BY <1>1, <1>2 DEF Init, IInv, InvBus, InvThread, InvOut, InvFw, InvReply,
     InvServing, InvIn, Awaiting, Delivered, NoPacket, ReplyCommand, Thread

\* The assumption of part 2: no process is interrupted or killed.
FaultFree == Faults = {}

\* When the main thread leaves with no write in progress, nothing of the link
\* changes.
LEMMA LeaveStep ==
  ASSUME IInv, writer = "none", ~ Awaiting', TypeOK',
         ~ (Delivered \/ fw # "poll") \/ USBInput.cmd \notin ReplyCommand,
         incoming' = <<>>, inOwner = "cpu", bus # "attached",
         UNCHANGED <<sent, writer, bus, fwVars, accepted>>,
         closing'["handler"] = "none",
         closing'["main"] # "none" => host' = "quitting"
  PROVE  IInv'
<1> USE DEF IInv, fwVars
<1>1. InvBus' /\ InvThread' /\ InvOut' /\ InvFw' /\ InvReply'
  BY DEF InvBus, InvThread, InvOut, InvFw, InvReply, Awaiting, Delivered
<1>2. InvServing' /\ InvIn' /\ AnswersMatch'
  BY DEF InvServing, InvIn, AnswersMatch, Awaiting, Delivered
<1> QED BY <1>1, <1>2

LEMMA IInvStep ==
  ASSUME FaultFree, IInv, [Next]_vars
  PROVE  IInv'
<1> USE DEF IInv, InvBus, InvThread, InvOut, InvFw, InvReply, InvServing, InvIn,
            AnswersMatch, Awaiting, Delivered, AnswerTo, closeVars, hostVars,
            osVars, fwVars
<1>0. TypeOK'
  BY TypeStep
<1>t. /\ sent.id \in Nat /\ sent \in Packet \cup {NoPacket}
      /\ USBInput.id \in Nat /\ NoPacket \notin Packet
      /\ NoPacket.cmd \notin ReplyCommand
      /\ closing \in [Thread -> CloseCommand \cup {"none", "end"}]
      /\ stage \in [Thread -> {"test", "wait", "write"}]
      /\ "main" \in Thread /\ "handler" \in Thread
  BY DEF TypeOK, Packet, NoPacket, ReplyCommand, Thread
<1>g. Gone => /\ host' = "closed" /\ writer' = "none"
              /\ closing' = [t \in Thread |-> "none"]
  BY DEF Gone
<1>e. Exit /\ writer = "none" =>
        /\ host' \in {"closed", "quitting"} /\ writer' = "none"
        /\ closing'["handler"] = "none"
        /\ closing'["main"] # "none" => host' = "quitting"
  BY <1>g, <1>t DEF Exit, Quits
<1>1. CASE Open
  BY <1>0, <1>t, <1>1 DEF Open, Closing
<1>2. CASE TargetOpened
  BY <1>0, <1>t, <1>2 DEF TargetOpened, Closing
<1>3. ASSUME NEW c \in Command, Request(c) PROVE IInv'
  <2>1. sent' \in Packet /\ sent'.id = sent.id + 1 /\ request' = sent'
    BY <1>3, WriteType DEF Request
  <2> QED BY <1>0, <1>t, <1>3, <2>1 DEF Request, Write, FileFree, Closing
<1>4. CASE Written \/ StartRead
  BY <1>0, <1>t, <1>4 DEF Written, StartRead, Closing, TypeOK, Thread
<1>5. CASE Read
  <2>1. Head(incoming) = AnswerTo(request) /\ incoming' = <<>>
        /\ writer = "none" /\ request = sent
    BY <1>5 DEF Read
  <2>2. ~ Rejects(Head(incoming))
    BY <2>1 DEF Rejects
  <2> QED BY <1>0, <1>t, <1>5, <2>1, <2>2 DEF Read, Closing
<1>6. CASE Quit
  <2>1. host = "idle" /\ writer = "none"
    <3>1. host = "idle"
      BY <1>6 DEF Quit
    <3>2. writer \in {"main", "handler", "none"}
      BY DEF TypeOK, Thread
    <3>3. closing["main"] = "none"
      BY <3>1
    <3>4. ~ Closing("main", "write")
      BY <3>3 DEF Closing, CloseCommand
    <3> QED BY <3>1, <3>2, <3>4
  <2>2. inOwner = "cpu" /\ incoming = <<>>
    BY <2>1 DEF TypeOK
  <2>3. ~ (Delivered \/ fw # "poll") \/ USBInput.cmd \notin ReplyCommand
    BY <2>1
  <2>4. UNCHANGED <<sent, bus, fwVars, accepted, incoming>> /\ Exit
    BY <1>6 DEF Quit
  <2>5. bus # "attached"
    BY <2>1
  <2> QED BY ONLY IInv, <1>0, <1>e, <2>1, <2>2, <2>3, <2>4, <2>5, LeaveStep
          DEF Awaiting
<1>7. CASE Signal \/ Kill
  BY <1>7 DEF Signal, Kill, FaultFree
<1>8. ASSUME NEW t \in Thread, Close(t) PROVE IInv'
  <2>1. closing[t] # "none"
    BY <1>8 DEF Close, CloseTest, CloseWrite, CloseWritten, Closed, Closing,
       CloseCommand
  <2>2. t = "main" /\ host = "quitting"
    BY <2>1 DEF Thread
  <2>3. CASE CloseTest("main")
    BY <1>0, <1>t, <2>2, <2>3 DEF CloseTest, Closing
  <2>4. CASE CloseWrite("main")
    <3>1. sent' \in Packet /\ sent'.id = sent.id + 1
          /\ sent'.cmd \notin ReplyCommand
      BY <2>4, <1>t, WriteType, CloseCommands DEF CloseWrite, Closing
    <3> QED BY <1>0, <1>t, <2>2, <2>4, <3>1 DEF CloseWrite, Write, FileFree, Closing
  <2>5. CASE CloseWritten("main")
    BY <1>0, <1>t, <2>2, <2>5, CloseCommands DEF CloseWritten, Closing, TypeOK, Thread
  <2>6. CASE Closed("main")
    <3>1. writer = "none"
      BY <2>2, <2>6 DEF Closed, Closing, CloseCommand, TypeOK, Thread
    <3>2. inOwner = "cpu" /\ incoming = <<>>
      BY <2>2 DEF TypeOK
    <3>3. ~ (Delivered \/ fw # "poll") \/ USBInput.cmd \notin ReplyCommand
      BY <2>2
    <3>4. /\ UNCHANGED <<sent, bus, fwVars, accepted, incoming>>
          /\ host' = "closed" /\ writer' = "none"
          /\ closing' = [u \in Thread |-> "none"]
      BY <1>g, <2>6 DEF Closed
    <3>5. bus # "attached"
      BY <2>2
    <3>6. closing'["handler"] = "none" /\ closing'["main"] = "none"
      BY <3>4, <1>t
    <3> QED BY ONLY IInv, <1>0, <3>1, <3>2, <3>3, <3>4, <3>5, <3>6, LeaveStep
            DEF Awaiting
  <2> QED BY <1>8, <2>2, <2>3, <2>4, <2>5, <2>6 DEF Close
<1>11. CASE InitEP
  BY <1>0, <1>t, <1>11 DEF InitEP, Closing
<1>12. CASE Suspend \/ Resume
  BY <1>0, <1>t, <1>12 DEF Suspend, Resume, Closing
<1>13. CASE SieOut
  <2>1. /\ writer = "main" /\ USBInput' = sent /\ writer' = "none"
        /\ bus = "configured" /\ outOwner = "sie" /\ outOwner' = "cpu"
        /\ UNCHANGED <<host, request, accepted, sent, bus, incoming, inOwner,
                       closing, stage, USBOutput, fw, needReply, performed>>
    BY <1>13 DEF SieOut, TypeOK, Thread
  <2>2. sent # NoPacket
    BY <2>1
  <2>3. fw = "poll"
    BY <1>13 DEF SieOut, TypeOK
  <2>4. inOwner = "cpu" /\ incoming = <<>>
    BY <1>13 DEF SieOut, TypeOK
  <2>5. host = "writing" \/ Closing("main", "write")
    BY <2>1
  <2>6. sent.cmd \in ReplyCommand => host = "writing"
    <3>1. Closing("main", "write") => host = "quitting"
      BY DEF Closing, CloseCommand
    <3> QED BY <2>1, <2>5, <3>1
  <2>7. performed = sent.id - 1
    BY <1>13, <2>1, <2>3 DEF SieOut
  <2>8. InvServing' /\ InvThread'
    BY <2>1, <2>4, <2>6
  <2>9. InvBus' /\ InvOut' /\ AnswersMatch'
    BY <2>1, <2>2
  <2>10. InvFw'
    BY <2>1, <2>2, <2>3, <2>7
  <2>11. InvReply' /\ InvIn'
    BY <2>1, <2>3, <2>4
  <2> QED BY <1>0, <2>8, <2>9, <2>10, <2>11
<1>14. CASE SieIn
  BY <1>0, <1>t, <1>14 DEF SieIn, Closing
<1>15. CASE Receive
  BY <1>0, <1>t, <1>15 DEF Receive, Closing
<1>16. CASE Execute
  BY <1>0, <1>t, <1>16 DEF Execute, TypeOK, Reply, Closing
<1>17. CASE Rearm
  BY <1>0, <1>t, <1>17 DEF Rearm, Closing
<1>18. CASE FillReply
  BY <1>0, <1>t, <1>18 DEF FillReply, TypeOK, Reply, Closing
<1>19. CASE Transmit
  BY <1>0, <1>t, <1>19 DEF Transmit, Closing
<1>20. CASE UNCHANGED vars
  BY <1>0, <1>20 DEF vars, Closing
<1> QED
  BY <1>1, <1>2, <1>3, <1>4, <1>5, <1>6, <1>7, <1>8, <1>11,
     <1>12, <1>13, <1>14, <1>15, <1>16, <1>17, <1>18, <1>19, <1>20
     DEF Next, Main, Bus, Firmware

LEMMA IInvHolds == FaultFree /\ Spec => []IInv
<1> SUFFICES ASSUME FaultFree PROVE Spec => []IInv
  OBVIOUS
<1>1. IInv /\ [Next]_vars => IInv'
  BY IInvStep
<1> QED BY InitIInv, <1>1, PTL DEF Spec

\* Every reply that is accepted answers the packet it was accepted for.
THEOREM RepliesMatch == FaultFree /\ Spec => []AnswersMatch
<1>1. IInv => AnswersMatch
  BY DEF IInv
<1> QED BY <1>1, IInvHolds, PTL

\* The last byte of every reply sent repeats the command it answers.
THEOREM EchoCorrect == FaultFree /\ Spec => []EchoNamesCommand
<1>1. IInv => EchoNamesCommand
  BY DEF IInv, InvIn, AnswerTo, EchoNamesCommand
<1> QED BY <1>1, IInvHolds, PTL

\* There is never more than one reply on its way.
THEOREM AtMostOneReply == FaultFree /\ Spec => []OneReply
<1>1. IInv => OneReply
  <2> SUFFICES ASSUME IInv PROVE OneReply
    OBVIOUS
  <2>1. Len(incoming) \in {0, 1} /\ (Len(incoming) = 1 => incoming # <<>>)
    <3>1. incoming = <<>> \/ incoming = <<AnswerTo(request)>>
      BY DEF IInv, InvIn
    <3> QED BY <3>1
  <2>2. needReply => inOwner = "cpu" /\ incoming = <<>>
    BY DEF IInv, TypeOK, InvFw, InvServing
  <2>3. inOwner = "sie" => incoming = <<>>
    BY DEF IInv, InvIn
  <2> DEFINE making == IF needReply THEN 1 ELSE 0
  <2>4. RepliesInFlight = Len(incoming) + (IF inOwner = "sie" THEN 1 ELSE 0) + making
    BY Zenon DEF RepliesInFlight
  <2>5. CASE needReply
    <3>1. making = 1
      BY <2>5, Zenon
    <3> HIDE DEF making
    <3> QED BY <2>1, <2>2, <2>4, <2>5, <3>1 DEF OneReply
  <2>6. CASE ~ needReply
    <3>1. making = 0
      BY <2>6, Zenon
    <3> HIDE DEF making
    <3> QED BY <2>1, <2>3, <2>4, <3>1 DEF OneReply
  <2> QED BY <2>5, <2>6
<1> QED BY <1>1, IInvHolds, PTL

\* The firmware never changes a reply the SIE may be sending.
THEOREM ReplyStaysIntact == FaultFree /\ Spec => ReplyIntact
<1>1. IInv /\ [Next]_vars =>
        [inOwner = "sie" /\ inOwner' = "sie" => USBOutput' = USBOutput]_vars
  <2> SUFFICES ASSUME IInv, [Next]_vars, inOwner = "sie" PROVE USBOutput' = USBOutput
    OBVIOUS
  <2>1. ~ (Delivered \/ fw # "poll")
    BY DEF IInv, InvServing
  <2>2. fw = "poll" /\ (bus = "configured" => outOwner # "cpu")
    BY <2>1 DEF Delivered
  <2> QED
    BY <2>2 DEF Next, Main, Close, Bus, Firmware, vars, closeVars, hostVars,
       osVars, fwVars, Open, TargetOpened, Request, Written, StartRead, Read,
       Quit, Signal, CloseTest, CloseWrite, CloseWritten, Closed, Kill, InitEP,
       Suspend, Resume, SieOut, SieIn, Receive, Execute, Rearm, FillReply,
       Transmit
<1> QED BY <1>1, IInvHolds, PTL DEF Spec, ReplyIntact

-----------------------------------------------------------------------------
(* The link implements a remote procedure call, as far as safety goes.      *)

\* Each step of the link is a step of Rpc or leaves its variables alone:
\* Request and CloseWrite post, Execute performs, Read answers.
LEMMA RpcStep ==
  ASSUME FaultFree, IInv, [Next]_vars
  PROVE  [RPC!Next]_(RPC!vars)
<1> USE DEF RPC!vars, closeVars, hostVars, osVars, fwVars
<1>t. /\ sent.id \in Nat /\ USBInput.id \in Nat /\ performed \in Nat
      /\ NoPacket.cmd \notin ReplyCommand
  BY DEF IInv, TypeOK, Packet, NoPacket, ReplyCommand
<1>p. performed \in {USBInput.id - 1, USBInput.id}
  BY DEF IInv, InvFw
<1>1. CASE Open \/ TargetOpened \/ Quit
  BY <1>1 DEF Open, TargetOpened, Quit, Exit, Quits, Gone
<1>2. ASSUME NEW c \in Command, Request(c) PROVE RPC!Post
  <2>1. sent.id - performed < 2
    BY <1>2, <1>t, <1>p DEF Request, Write, FileFree, IInv, InvOut
  <2>2. /\ sent'.id = sent.id + 1 /\ request'.cmd = c
        /\ host = "idle" /\ host' = "writing"
    BY <1>2, WriteType DEF Request, IInv
  <2> QED BY <1>2, <2>1, <2>2 DEF RPC!Post, Request
<1>3. ASSUME NEW t \in Thread, Close(t) PROVE [RPC!Next]_(RPC!vars)
  <2>1. closing[t] # "none"
    BY <1>3 DEF Close, CloseTest, CloseWrite, CloseWritten, Closed, Closing,
       CloseCommand
  <2>2. host = "quitting"
    BY <2>1 DEF Thread, IInv, InvThread
  <2>3. CASE CloseWrite(t)
    <3>1. sent.id - performed < 2
      BY <2>3, <1>t, <1>p DEF CloseWrite, Write, FileFree, IInv, InvOut
    <3>2. sent'.id = sent.id + 1
      BY <2>3, WriteType, CloseCommands DEF CloseWrite, Closing, IInv
    <3> QED BY <2>2, <2>3, <3>1, <3>2 DEF RPC!Post, RPC!Next, CloseWrite
  <2>4. CASE CloseTest(t) \/ CloseWritten(t) \/ Closed(t)
    BY <2>2, <2>4 DEF CloseTest, CloseWritten, Closed, Gone
  <2> QED BY <1>3, <2>3, <2>4 DEF Close
<1>4. CASE Written \/ StartRead
  BY <1>4 DEF Written, StartRead
<1>5. CASE Read
  <2>1. incoming = <<AnswerTo(request)>> /\ request.cmd \in ReplyCommand
        /\ request = sent
    BY <1>5 DEF Read, IInv, InvIn, InvOut, Awaiting
  <2>2. Head(incoming) = AnswerTo(request) /\ ~ Rejects(Head(incoming))
    BY <2>1 DEF Rejects, AnswerTo
  <2>3. performed = sent.id
    BY <1>5, <2>1 DEF Read, IInv, InvServing, InvOut, InvFw, Delivered
  <2>4. accepted'.reply.data.id = sent.id /\ host = "reading" /\ host' = "idle"
        /\ UNCHANGED <<sent, performed>>
    BY <1>5, <2>1, <2>2 DEF Read, AnswerTo
  <2> QED BY <2>3, <2>4 DEF RPC!Answer, RPC!Next
<1>6. CASE Signal \/ Kill
  BY <1>6 DEF Signal, Kill, FaultFree
<1>7. CASE InitEP \/ Suspend \/ Resume \/ SieOut \/ SieIn
  BY <1>7 DEF InitEP, Suspend, Resume, SieOut, SieIn
<1>8. CASE Receive \/ Rearm \/ FillReply \/ Transmit
  BY <1>8 DEF Receive, Rearm, FillReply, Transmit
<1>9. CASE Execute
  <2>1. performed = USBInput.id - 1 /\ USBInput.id <= sent.id
    BY <1>9, <1>t DEF Execute, IInv, InvFw, InvOut, Delivered
  <2>2. performed' = performed + 1 /\ UNCHANGED <<host, sent, request, accepted>>
    BY <1>9, <1>t, <2>1 DEF Execute
  <2> QED BY <1>t, <2>1, <2>2 DEF RPC!Perform, RPC!Next
<1>10. CASE UNCHANGED vars
  BY <1>10 DEF vars
<1> QED
  BY <1>1, <1>2, <1>3, <1>4, <1>5, <1>6, <1>7, <1>8, <1>9, <1>10
     DEF Next, Main, Bus, Firmware, RPC!Next

\* Without faults, the initial states and the steps of the link are those of a
\* remote procedure call.
THEOREM LinkIsRpc == FaultFree /\ Spec => RPC!Init /\ [][RPC!Next]_(RPC!vars)
<1> SUFFICES ASSUME FaultFree PROVE Spec => RPC!Init /\ [][RPC!Next]_(RPC!vars)
  OBVIOUS
<1>1. Init => RPC!Init
  BY DEF Init, RPC!Init, NoPacket, Cleared
<1>2. IInv /\ [Next]_vars => [RPC!Next]_(RPC!vars)
  BY RpcStep
<1>3. Spec => []IInv
  BY IInvHolds
<1> QED BY <1>1, <1>2, <1>3, PTL DEF Spec
=============================================================================
