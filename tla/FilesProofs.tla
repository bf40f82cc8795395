---------------------------- MODULE FilesProofs -----------------------------
(***************************************************************************)
(* Theorems about Files: its types, that an accepted image is what its file *)
(* means, and that do_read writes the blocks it is asked for, for every     *)
(* size of a byte, of the memories, of the file and of a block.             *)
(***************************************************************************)
EXTENDS Files, TLAPS, FiniteSetTheorems, SequenceTheorems,
        WellFoundedInduction

-----------------------------------------------------------------------------
(* Numbers and lines.                                                      *)

\* A set of numbers up to n that is not empty has a last one.
LEMMA LastOf ==
  ASSUME NEW n \in Nat, NEW S, S \subseteq 1 .. n, S # {}
  PROVE  \E x \in S : \A y \in S : y <= x
<1> DEFINE T == {m \in Nat : \E x \in S : m = n - x}
<1>1. T \subseteq Nat /\ T # {}
  <2>1. PICK x \in S : TRUE
    OBVIOUS
  <2>2. n - x \in T
    BY <2>1
  <2> QED
    BY <2>2
<1>2. PICK m \in T : \A k \in T : ~ (<<k, m>> \in OpToRel(<, Nat))
  <2> HIDE DEF T
  <2> QED
    BY <1>1, WFMin, NatLessThanWellFounded, Zenon
<1>3. PICK x \in S : m = n - x
  OBVIOUS
<1>4. \A y \in S : y <= x
  <2> TAKE y \in S
  <2>1. n - y \in T
    OBVIOUS
  <2>2. ~ (n - y < m)
    BY <1>1, <1>2, <2>1 DEF OpToRel
  <2> QED
    BY <1>3, <2>2
<1> QED
  BY <1>4

\* A number of two digits.
LEMMA TwoDigits ==
  ASSUME NEW b \in Nat \ {0}, NEW u \in 0 .. b - 1, NEW v \in 0 .. b - 1
  PROVE  u * b + v \in 0 .. b * b - 1
<1>1. u * b \in Nat /\ u * b <= (b - 1) * b
  OBVIOUS
<1>2. (b - 1) * b + b = b * b
  OBVIOUS
<1> QED
  BY <1>1, <1>2

\* What the assumptions say of the sizes.
LEMMA Sizes ==
  /\ Byte \in Nat \ {0, 1} /\ Half \in Nat \ {0} /\ Addresses \in Nat \ {0}
  /\ ff \in Nat /\ 0 \in 0 .. ff /\ ff \in 0 .. ff
<1>1. Byte \in Nat \ {0, 1}
  BY FilesAssumption
<1>2. Half \in Nat \ {0}
  BY <1>1 DEF Half
<1>3. Addresses \in Nat \ {0}
  BY <1>2 DEF Addresses
<1> QED
  BY <1>1, <1>2, <1>3 DEF ff

\* An address is wrapped into 32 bits.
LEMMA Wrapped ==
  ASSUME NEW a \in Int
  PROVE  a % Addresses \in 0 .. Addresses - 1
BY Sizes

\* The limits of a record of either format are within that of both.
LEMMA DataSizes ==
  /\ MaxData \in Nat
  /\ Data(MaxSrec) \subseteq Data(MaxData) /\ Data(MaxHex) \subseteq Data(MaxData)
<1>1. MaxSrec \in Nat /\ MaxHex \in Nat
  BY FilesAssumption
<1>2. MaxData \in Nat /\ MaxSrec <= MaxData /\ MaxHex <= MaxData
  BY <1>1 DEF MaxData
<1>3. 0 .. MaxSrec \subseteq 0 .. MaxData /\ 0 .. MaxHex \subseteq 0 .. MaxData
  BY <1>1, <1>2
<1> QED
  BY <1>2, <1>3 DEF Data

\* What the readers rely on in the lines they take.
LEMMA Lines ==
  ASSUME NEW l \in Line \cup {NoLine}
  PROVE  /\ l.kind \in {"blank", "other", "eof", "S", ":"}
         /\ l.kind \in {"S", ":"} => l.flaw \in {"none", "digits", "short", "sum"}
         /\ l.kind = "S" /\ l.type \in 1 .. 3 /\ l.flaw = "none" =>
               l.addr \in 0 .. Addresses - 1 /\ l.data \in Data(MaxData)
         /\ l.kind = ":" /\ l.type = 0 /\ l.flaw = "none" =>
               l.low \in 0 .. Half - 1 /\ l.data \in Data(MaxData)
         /\ l.kind = ":" /\ l.type = 4 /\ l.flaw = "none" /\ Len(l.data) = 2 =>
               l.data[1] \in 0 .. ff /\ l.data[2] \in 0 .. ff
<1>1. CASE l \in {Blank, Other, NoLine}
  BY <1>1 DEF Blank, Other, NoLine
<1>2. CASE l \in SrecLine
  <2>1. SrecAddresses \subseteq 0 .. Addresses - 1
    BY FilesAssumption
  <2>2. CASE l \in SrecData
    <3>1. PICK k \in 1 .. 3, a \in SrecAddresses, d \in Data(MaxSrec), n \in 0 .. MaxSrec :
            l = Srecord(k, a, d, n)
      BY <2>2 DEF SrecData
    <3>2. d \in Data(MaxData) /\ a \in 0 .. Addresses - 1
      BY <2>1, DataSizes
    <3> QED
      BY <3>1, <3>2 DEF Srecord
  <2>4. CASE l \in {Srecord(k, 0, <<>>, 0) : k \in {0, 5, 7}}
    BY <2>4 DEF Srecord
  <2>5. CASE l \in {Flawed(Srecord(k, 0, <<0>>, 0), "digits") : k \in {3, 7}}
    BY <2>5 DEF Srecord, Flawed
  <2> QED
    BY <1>2, <2>2, <2>4, <2>5 DEF SrecLine
<1>3. CASE l \in HexLine
  <2>1. CASE l \in {Hexrecord(0, a, d) : a \in HexAddresses, d \in Data(MaxHex)}
    <3>1. PICK a \in HexAddresses, d \in Data(MaxHex) : l = Hexrecord(0, a, d)
      BY <2>1
    <3>2. d \in Data(MaxData) /\ a \in 0 .. Half - 1
      BY DataSizes, FilesAssumption
    <3> QED
      BY <3>1, <3>2 DEF Hexrecord
  <2>2. CASE l \in {Hexrecord(4, 0, <<u, v>>) : u, v \in 0 .. ff}
    BY <2>2 DEF Hexrecord
  <2>3. CASE l \in {Hexrecord(k, 0, <<>>) : k \in {1, 2, 4, 5}}
    BY <2>3 DEF Hexrecord
  <2>4. CASE l \in {Flawed(Hexrecord(k, 0, <<0>>), f) :
                     k \in {0, 1, 5}, f \in {"digits", "short", "sum"}}
    BY <2>4 DEF Hexrecord, Flawed
  <2>5. CASE l \in {Flawed(Hexrecord(k, 0, [i \in 1 .. MaxHex |-> 0]), "sum") :
                     k \in {0, 4}}
    BY <2>5 DEF Hexrecord, Flawed
  <2> QED
    BY <1>3, <2>1, <2>2, <2>3, <2>4, <2>5 DEF HexLine
<1>4. l \in {Blank, Other, NoLine} \/ l \in SrecLine \/ l \in HexLine
  BY DEF Line
<1> QED
  BY <1>1, <1>2, <1>3, <1>4, Zenon

\* The data of a record are at most MaxData bytes.
LEMMA DataType ==
  ASSUME NEW d \in Data(MaxData)
  PROVE  /\ Len(d) \in 0 .. MaxData /\ DOMAIN d = 1 .. Len(d)
         /\ \A k \in DOMAIN d : d[k] \in 0 .. ff
<1>1. PICK n \in 0 .. MaxData : d \in [1 .. n -> 0 .. ff]
  BY DEF Data
<1>2. n \in Nat
  BY DataSizes
<1>3. d \in Seq(0 .. ff)
  BY <1>1, <1>2, SeqDef
<1>4. Len(d) = n
  BY <1>1, <1>2, <1>3
<1> QED
  BY <1>1, <1>2, <1>4

\* A byte has its place inside a memory, or has none.
LEMMA PlaceType ==
  ASSUME NEW a \in Int
  PROVE  /\ Place(a).mem = "flash" => Place(a).offset \in 0 .. FLASH_BYTES - 1
         /\ Place(a).mem = "boot" => Place(a).offset \in 0 .. BOOT_BYTES - 1
         /\ Place(a).mem \in {"flash", "boot", "none"}
         /\ Place(a) = [mem |-> Place(a).mem, offset |-> Place(a).offset]
BY FilesAssumption DEF Place, Window

\* Put keeps the size of a memory and stores bytes.
LEMMA PutType ==
  ASSUME NEW m, NEW name \in {"flash", "boot"}, NEW size \in Nat,
         size = IF name = "flash" THEN FLASH_BYTES ELSE BOOT_BYTES,
         m \in [0 .. size - 1 -> 0 .. ff],
         NEW address \in Int, NEW data \in Data(MaxData)
  PROVE  Put(m, name, address, data) \in [0 .. size - 1 -> 0 .. ff]
<1> DEFINE to(k) == Place((address + k - 1) % Addresses)
           placed == {k \in DOMAIN data : to(k).mem = name}
           here(o) == {k \in placed : to(k).offset = o}
           last(o) == CHOOSE k \in here(o) : \A j \in here(o) : j <= k
<1>1. \A k \in placed : to(k).offset \in 0 .. size - 1
  <2> TAKE k \in placed
  <2>1. k \in Int
    BY DataType
  <2>2. (address + k - 1) % Addresses \in Int
    BY <2>1, Wrapped
  <2> QED
    BY <2>2, PlaceType
<1>2. DOMAIN m \cup {to(k).offset : k \in placed} = 0 .. size - 1
  BY <1>1
<1>3. ASSUME NEW o \in 0 .. size - 1, here(o) # {}
      PROVE  last(o) \in here(o)
  <2>1. here(o) \subseteq 1 .. Len(data) /\ Len(data) \in Nat
    BY DataType, DataSizes, FilesAssumption
  <2>2. \E k \in here(o) : \A j \in here(o) : j <= k
    BY <1>3, <2>1, LastOf, Zenon
  <2> QED
    BY <2>2
<1>4. ASSUME NEW o \in 0 .. size - 1
      PROVE  (IF here(o) = {} THEN m[o] ELSE data[last(o)]) \in 0 .. ff
  <2>1. CASE here(o) = {}
    BY <2>1
  <2>2. CASE here(o) # {}
    BY <2>2, <1>3, DataType
  <2> QED
    BY <2>1, <2>2
<1>5. Put(m, name, address, data) =
        [o \in 0 .. size - 1 |-> IF here(o) = {} THEN m[o] ELSE data[last(o)]]
  BY <1>2 DEF Put
<1> HIDE DEF here, last
<1> QED
  BY <1>4, <1>5

-----------------------------------------------------------------------------
(* Types.                                                                  *)

\* store_data keeps the types of the memories, their flags and the count.
LEMMA StoreType ==
  ASSUME TypeOK, NEW address \in Int, NEW data \in Data(MaxData), store_data(address, data)
  PROVE  /\ flash_data' \in [0 .. FLASH_BYTES - 1 -> 0 .. ff]
         /\ boot_data' \in [0 .. BOOT_BYTES - 1 -> 0 .. ff]
         /\ flash_used' \in BOOLEAN /\ boot_used' \in BOOLEAN
         /\ total_bytes' \in Nat
<1> DEFINE placed(name) ==
             {k \in DOMAIN data : Place((address + k - 1) % Addresses).mem = name}
           both == placed("flash") \cup placed("boot")
<1>1. flash_data' \in [0 .. FLASH_BYTES - 1 -> 0 .. ff]
  BY PutType, FilesAssumption DEF TypeOK, store_data
<1>2. boot_data' \in [0 .. BOOT_BYTES - 1 -> 0 .. ff]
  BY PutType, FilesAssumption DEF TypeOK, store_data
<1>3. flash_used' \in BOOLEAN /\ boot_used' \in BOOLEAN
  BY DEF TypeOK, store_data
<1>4. Cardinality(both) \in Nat
  <2>1. both \subseteq 1 .. Len(data) /\ Len(data) \in Int
    BY DataType, DataSizes, FilesAssumption
  <2>2. IsFiniteSet(1 .. Len(data))
    BY <2>1, FS_Interval
  <2>3. IsFiniteSet(both)
    BY <2>1, <2>2, FS_Subset, Zenon
  <2> QED
    BY <2>3, FS_CardinalityType, Zenon
<1>5. total_bytes' = total_bytes + Cardinality(both)
  BY DEF store_data
<1>6. total_bytes' \in Nat
  <2> HIDE DEF both
  <2> QED
    BY <1>4, <1>5 DEF TypeOK
<1> QED
  BY <1>1, <1>2, <1>3, <1>6

\* A reader takes a line or the end of the file, and the file stays one.
LEMMA Fetched ==
  ASSUME TypeOK, NEW line \in Fetches, Keep(line)
  PROVE  /\ line \in Line \cup {NoLine}
         /\ file' \in Seq(Line \cup {NoLine})
<1>1. line \in Line \cup {NoLine}
  BY DEF TypeOK, Fetches
<1> QED
  BY <1>1 DEF TypeOK, Keep

\* The memset of main starts with the types.
LEMMA InitType == Init => TypeOK
<1> SUFFICES ASSUME Init PROVE TypeOK
  OBVIOUS
<1>1. 0 \in 0 .. Half - 1 /\ 0 \in 0 .. Addresses - 1
  BY Sizes
<1>2. <<>> \in Seq(Line \cup {NoLine}) /\ <<>> \in Seq(0 .. Addresses - 1)
  OBVIOUS
<1>3. pc = "main" /\ outcome = "none" /\ high = 0 /\ base = 0 /\ nbytes = 0
      /\ addr = 0 /\ total_bytes = 0 /\ next = 1 /\ file = <<>> /\ out = <<>>
  BY DEF Init
<1>4. /\ flash_data \in [0 .. FLASH_BYTES - 1 -> 0 .. ff]
      /\ boot_data \in [0 .. BOOT_BYTES - 1 -> 0 .. ff]
      /\ flash_used \in BOOLEAN /\ boot_used \in BOOLEAN
  BY Sizes DEF Init
<1> QED
  BY <1>1, <1>2, <1>3, <1>4 DEF TypeOK

\* Every step keeps them.
LEMMA TypeStep == TypeOK /\ [Next]_vars => TypeOK'
<1> SUFFICES ASSUME TypeOK, [Next]_vars PROVE TypeOK'
  OBVIOUS
<1> USE DEF memory, fileVars, readVars
<1>1. CASE Image
  BY <1>1 DEF Image, TypeOK
<1>2. CASE read_srec
  <2>1. PICK line \in Fetches :
          /\ Keep(line)
          /\ \/ line.kind = "eof" /\ Accept /\ UNCHANGED next
             \/ line.kind = "blank" /\ Skip /\ next' = next + 1
             \/ /\ line.kind \in {"other", ":"}
                /\ pc' = "hex" /\ next' = 1 /\ high' = 0
                /\ UNCHANGED <<memory, outcome>>
             \/ /\ line.kind = "S" /\ next' = next + 1
                /\ IF line.type \in 7..9 THEN Accept
                   ELSE IF line.flaw # "none" THEN Fail
                   ELSE IF line.type \in 1..3
                        THEN store_data(line.addr, line.data)
                             /\ UNCHANGED <<pc, high, outcome>>
                   ELSE Skip
    BY <1>2 DEF read_srec
  <2>2. file' \in Seq(Line \cup {NoLine}) /\ line \in Line \cup {NoLine}
    BY <2>1, Fetched
  <2>3. UNCHANGED readVars
    BY <1>2 DEF read_srec
  <2>4. next' \in Nat \ {0} /\ high' \in 0 .. Half - 1
    BY <2>1, Sizes DEF TypeOK, Accept, Skip, Fail
  <2>5. /\ pc' \in {"main", "srec", "hex", "program", "read", "end"}
        /\ outcome' \in {"none", "accepted", "failed", "astray", "read"}
    BY <2>1 DEF TypeOK, Accept, Skip, Fail
  <2>6. CASE UNCHANGED memory
    BY <2>2, <2>3, <2>4, <2>5, <2>6 DEF TypeOK
  <2>7. CASE /\ line.kind = "S" /\ line.type \in 1 .. 3 /\ line.flaw = "none"
             /\ store_data(line.addr, line.data)
    <3>1. line.addr \in Int /\ line.data \in Data(MaxData)
      BY <2>2, <2>7, Lines, Sizes
    <3> QED
      BY <2>2, <2>3, <2>4, <2>5, <2>7, <3>1, StoreType DEF TypeOK
  <2> QED
    BY <2>1, <2>6, <2>7 DEF Accept, Skip, Fail
<1>3. CASE read_hex
  <2>1. PICK line \in Fetches :
          /\ Keep(line)
          /\ next' = IF line.kind = "eof" THEN next ELSE next + 1
          /\ \/ line.kind = "eof" /\ Accept
             \/ line.kind = "blank" /\ Skip
             \/ line.kind \in {"other", "S"} /\ Fail
             \/ line.kind = ":" /\ HexRecord(line)
    BY <1>3 DEF read_hex
  <2>2. file' \in Seq(Line \cup {NoLine}) /\ line \in Line \cup {NoLine}
    BY <2>1, Fetched
  <2>3. UNCHANGED readVars /\ next' \in Nat \ {0}
    BY <1>3, <2>1 DEF read_hex, TypeOK
  <2>4. /\ pc' \in {"main", "srec", "hex", "program", "read", "end"}
        /\ outcome' \in {"none", "accepted", "failed", "astray", "read"}
    BY <2>1 DEF TypeOK, Accept, Skip, Fail, Astray, HexRecord, HexData
  <2>5. CASE UNCHANGED <<memory, high>>
    BY <2>2, <2>3, <2>4, <2>5 DEF TypeOK
  <2>6. CASE /\ line.kind = ":" /\ line.type = 4 /\ line.flaw = "none"
             /\ Len(line.data) = 2
             /\ high' = line.data[1] * Byte + line.data[2] /\ UNCHANGED memory
    <3>1. line.data[1] \in 0 .. Byte - 1 /\ line.data[2] \in 0 .. Byte - 1
      BY <2>2, <2>6, Lines DEF ff
    <3>2. high' \in 0 .. Half - 1
      BY <2>6, <3>1, TwoDigits, Sizes DEF Half
    <3> QED
      BY <2>2, <2>3, <2>4, <2>6, <3>2 DEF TypeOK
  <2>7. CASE /\ line.kind = ":" /\ line.type = 0 /\ line.flaw = "none"
             /\ store_data(high * Half + line.low, line.data) /\ UNCHANGED high
    <3>1. line.data \in Data(MaxData) /\ line.low \in Int
      BY <2>2, <2>7, Lines, Sizes
    <3>2. high * Half + line.low \in Int
      BY <3>1, Sizes DEF TypeOK
    <3> QED
      BY <2>2, <2>3, <2>4, <2>7, <3>1, <3>2, StoreType DEF TypeOK
  <2>8. line.kind \in {"blank", "other", "eof", "S", ":"} /\
          (line.kind = ":" => line.flaw \in {"none", "digits", "short", "sum"})
    BY <2>2, Lines
  <2> QED
    BY <2>1, <2>5, <2>6, <2>7, <2>8 DEF Accept, Skip, Fail, Astray, HexRecord, HexData
<1>4. CASE ReadArguments
  BY <1>4 DEF ReadArguments, TypeOK
<1>5. CASE do_read
  <2>1. addr + blocksz \in Int
    BY FilesAssumption, Sizes DEF TypeOK
  <2>2. (addr + blocksz) % Addresses \in 0 .. Addresses - 1
    BY <2>1, Wrapped
  <2>3. addr' \in 0 .. Addresses - 1 /\ out' \in Seq(0 .. Addresses - 1)
    <3>1. CASE addr' = (addr + blocksz) % Addresses /\ out' = Append(out, addr)
      <4>1. out \in Seq(0 .. Addresses - 1) /\ addr \in 0 .. Addresses - 1
        BY DEF TypeOK
      <4> QED
        BY <2>2, <3>1, <4>1
    <3>2. CASE UNCHANGED <<addr, out>>
      BY <3>2 DEF TypeOK
    <3> QED
      BY <1>5, <3>1, <3>2 DEF do_read
  <2> QED
    BY <1>5, <2>3 DEF do_read, TypeOK
<1>6. CASE do_read_exit
  BY <1>6 DEF do_read_exit, TypeOK
<1>7. CASE UNCHANGED vars
  BY <1>7 DEF vars, TypeOK
<1> QED
  BY <1>1, <1>2, <1>3, <1>4, <1>5, <1>6, <1>7 DEF Next

\* Every variable keeps its type, so that no record is stored outside of the
\* memories, whatever its address, however it wraps and whichever window it is in.
THEOREM TypeCorrect == Spec => []TypeOK
BY InitType, TypeStep, PTL DEF Spec

-----------------------------------------------------------------------------
(* What the first n lines of a file give.                                  *)

\* A memory holds the last byte that they give for each place, or 0xff.
Means(f, n, m, name) ==
    \A o \in DOMAIN m :
        \/ /\ m[o] = ff
           /\ \A i \in 1 .. n, k \in 1 .. MaxData : ~ Gives(f, i, k, name, o)
        \/ \E i \in 1 .. n, k \in 1 .. MaxData :
              /\ Gives(f, i, k, name, o) /\ m[o] = f[i].data[k]
              /\ \A j \in 1 .. n, h \in 1 .. MaxData :
                    Gives(f, j, h, name, o) => j < i \/ (j = i /\ h <= k)

\* They give some byte for a memory of a size.
Uses(f, n, name, size) ==
    \E i \in 1 .. n, k \in 1 .. MaxData, o \in 0 .. size - 1 :
        Gives(f, i, k, name, o)

\* The upper half of an address depends on the lines before only.
LEMMA UpperSame ==
  ASSUME NEW n \in Nat, NEW f, NEW g, \A i \in 1 .. n : f[i] = g[i],
         NEW i \in 1 .. n + 1
  PROVE  Upper(f, i) = Upper(g, i)
<1> DEFINE given(e) == {j \in 1 .. i - 1 : e[j].kind = ":" /\ e[j].type = 4}
           latest(S) == CHOOSE j \in S : \A h \in S : h <= j
           last == latest(given(f))
<1>1. given(f) = given(g)
  OBVIOUS
<1>2. CASE given(f) = {}
  BY <1>1, <1>2 DEF Upper
<1>3. CASE given(f) # {}
  <2>1. given(f) \subseteq 1 .. i - 1 /\ i - 1 \in Nat
    OBVIOUS
  <2>2. \E j \in given(f) : \A h \in given(f) : h <= j
    <3> HIDE DEF given
    <3> QED
      BY <1>3, <2>1, LastOf
  <2>3. last \in given(f)
    BY <2>2
  <2>4. f[last].data = g[last].data
    BY <2>3
  <2>5. Upper(f, i) = f[last].data[1] * Byte + f[last].data[2]
    BY <1>3 DEF Upper
  <2>6. latest(given(g)) = last
    <3> HIDE DEF given, latest
    <3> QED
      BY <1>1
  <2>7. Upper(g, i) = g[latest(given(g))].data[1] * Byte
                      + g[latest(given(g))].data[2]
    BY <1>1, <1>3 DEF Upper
  <2> HIDE DEF last, latest
  <2> QED
    BY <2>4, <2>5, <2>6, <2>7
<1> QED
  BY <1>2, <1>3

\* A line that gives no upper half leaves it.
LEMMA UpperKept ==
  ASSUME NEW n \in Nat, NEW f, ~ (f[n + 1].kind = ":" /\ f[n + 1].type = 4)
  PROVE  Upper(f, n + 2) = Upper(f, n + 1)
<1> DEFINE given(i) == {j \in 1 .. i - 1 : f[j].kind = ":" /\ f[j].type = 4}
<1>1. n + 2 - 1 = n + 1 /\ n + 1 - 1 = n
  OBVIOUS
<1>2. given(n + 2) = given(n + 1)
  <2>1. \A j \in 1 .. n + 1 : j \in 1 .. n \/ j = n + 1
    OBVIOUS
  <2>2. \A j \in 1 .. n : j \in 1 .. n + 1
    OBVIOUS
  <2> QED
    BY <1>1, <2>1, <2>2
<1> DEFINE up(S) ==
               IF S = {} THEN 0
               ELSE LET d == f[CHOOSE j \in S : \A h \in S : h <= j].data
                    IN d[1] * Byte + d[2]
<1>3. Upper(f, n + 2) = up(given(n + 2)) /\ Upper(f, n + 1) = up(given(n + 1))
  BY DEF Upper
<1> HIDE DEF given, up
<1> QED
  BY <1>2, <1>3

\* A line of type 4 sets the upper half.
LEMMA UpperGiven ==
  ASSUME NEW n \in Nat, NEW f, f[n + 1].kind = ":" /\ f[n + 1].type = 4
  PROVE  Upper(f, n + 2) = f[n + 1].data[1] * Byte + f[n + 1].data[2]
<1> DEFINE given == {j \in 1 .. n + 2 - 1 : f[j].kind = ":" /\ f[j].type = 4}
           last == CHOOSE j \in given : \A h \in given : h <= j
<1>1. n + 1 \in given /\ \A h \in given : h \in Int /\ h <= n + 1
  OBVIOUS
<1>2. last = n + 1
  <2>1. last \in given /\ \A h \in given : h <= last
    BY <1>1
  <2> QED
    BY <1>1, <2>1
<1> QED
  BY <1>1, <1>2 DEF Upper

\* The bytes a line gives are the same when the lines before it are.
LEMMA GivesSame ==
  ASSUME NEW n \in Nat, NEW f, NEW g, \A i \in 1 .. n : f[i] = g[i],
         NEW i \in 1 .. n, NEW k, NEW name, NEW o
  PROVE  Gives(f, i, k, name, o) <=> Gives(g, i, k, name, o)
<1>1. f[i] = g[i] /\ Upper(f, i) = Upper(g, i)
  BY UpperSame
<1> QED
  BY <1>1 DEF Gives, From

\* What the lines of a file give does not depend on the lines behind them.
LEMMA MeansSame ==
  ASSUME NEW n \in Nat, NEW f, NEW g, \A i \in 1 .. n : f[i] = g[i],
         NEW m, NEW name, NEW size
  PROVE  /\ Means(f, n, m, name) => Means(g, n, m, name)
         /\ Uses(f, n, name, size) <=> Uses(g, n, name, size)
<1>1. \A i \in 1 .. n : \A k, o : Gives(f, i, k, name, o) <=> Gives(g, i, k, name, o)
  BY GivesSame
<1>2. Uses(f, n, name, size) <=> Uses(g, n, name, size)
  BY <1>1 DEF Uses
<1>3. ASSUME Means(f, n, m, name) PROVE Means(g, n, m, name)
  BY <1>1, <1>3 DEF Means
<1> QED
  BY <1>2, <1>3

\* A line that holds no data changes nothing.
LEMMA MeansSkip ==
  ASSUME NEW n \in Nat, NEW f, ~ Holds(f[n + 1]), NEW m, NEW name, NEW size
  PROVE  /\ Means(f, n, m, name) => Means(f, n + 1, m, name)
         /\ Uses(f, n, name, size) <=> Uses(f, n + 1, name, size)
<1>1. \A k, o : ~ Gives(f, n + 1, k, name, o)
  BY DEF Gives
<1>2. \A i \in 1 .. n + 1 : i \in 1 .. n \/ i = n + 1
  OBVIOUS
<1>3. \A i \in 1 .. n : i \in 1 .. n + 1
  OBVIOUS
<1>4. Uses(f, n, name, size) <=> Uses(f, n + 1, name, size)
  BY <1>1, <1>2, <1>3 DEF Uses
<1>5. ASSUME Means(f, n, m, name) PROVE Means(f, n + 1, m, name)
  <2> SUFFICES ASSUME NEW o \in DOMAIN m
               PROVE  \/ /\ m[o] = ff
                         /\ \A i \in 1 .. n + 1, k \in 1 .. MaxData :
                               ~ Gives(f, i, k, name, o)
                      \/ \E i \in 1 .. n + 1, k \in 1 .. MaxData :
                            /\ Gives(f, i, k, name, o) /\ m[o] = f[i].data[k]
                            /\ \A j \in 1 .. n + 1, h \in 1 .. MaxData :
                                  Gives(f, j, h, name, o) =>
                                     j < i \/ (j = i /\ h <= k)
    BY DEF Means
  <2>1. CASE /\ m[o] = ff
             /\ \A i \in 1 .. n, k \in 1 .. MaxData : ~ Gives(f, i, k, name, o)
    BY <1>1, <1>2, <2>1
  <2>2. CASE \E i \in 1 .. n, k \in 1 .. MaxData :
                /\ Gives(f, i, k, name, o) /\ m[o] = f[i].data[k]
                /\ \A j \in 1 .. n, h \in 1 .. MaxData :
                      Gives(f, j, h, name, o) => j < i \/ (j = i /\ h <= k)
    BY <1>1, <1>2, <1>3, <2>2
  <2> QED
    BY <1>5, <2>1, <2>2 DEF Means
<1> QED
  BY <1>4, <1>5

\* Storing a record adds what its line gives.
LEMMA MeansPut ==
  ASSUME NEW n \in Nat, NEW f, Holds(f[n + 1]), f[n + 1].data \in Data(MaxData),
         From(f, n + 1) \in Int, NEW m, NEW name \in {"flash", "boot"},
         NEW size \in Nat,
         size = IF name = "flash" THEN FLASH_BYTES ELSE BOOT_BYTES,
         m \in [0 .. size - 1 -> 0 .. ff], Means(f, n, m, name)
  PROVE  Means(f, n + 1, Put(m, name, From(f, n + 1), f[n + 1].data), name)
<1> DEFINE data == f[n + 1].data
           address == From(f, n + 1)
           to(k) == Place((address + k - 1) % Addresses)
           placed == {k \in DOMAIN data : to(k).mem = name}
           here(o) == {k \in placed : to(k).offset = o}
           last(o) == CHOOSE k \in here(o) : \A j \in here(o) : j <= k
           new == Put(m, name, address, data)
<1>1. new \in [0 .. size - 1 -> 0 .. ff]
  BY PutType
<1>2. DOMAIN m = 0 .. size - 1 /\ DOMAIN new = 0 .. size - 1
  BY <1>1
<1>3. \A o \in 0 .. size - 1 :
         new[o] = IF here(o) = {} THEN m[o] ELSE data[last(o)]
  BY <1>2 DEF Put
<1>4. DOMAIN data = 1 .. Len(data) /\ Len(data) \in 0 .. MaxData
  BY DataType
<1>5. \A k, o : Gives(f, n + 1, k, name, o) <=> k \in here(o)
  <2> TAKE k, o
  <2>1. ASSUME k \in here(o) PROVE to(k) = [mem |-> name, offset |-> o]
    <3>1. (address + k - 1) % Addresses \in Int
      BY <1>4, <2>1, Wrapped
    <3> QED
      BY <2>1, <3>1, PlaceType
  <2> QED
    BY <2>1 DEF Gives
<1>6. \A o : here(o) \subseteq 1 .. MaxData
  BY <1>4, DataSizes
<1> SUFFICES ASSUME NEW o \in 0 .. size - 1
             PROVE  \/ /\ new[o] = ff
                       /\ \A i \in 1 .. n + 1, k \in 1 .. MaxData :
                             ~ Gives(f, i, k, name, o)
                    \/ \E i \in 1 .. n + 1, k \in 1 .. MaxData :
                          /\ Gives(f, i, k, name, o) /\ new[o] = f[i].data[k]
                          /\ \A j \in 1 .. n + 1, h \in 1 .. MaxData :
                                Gives(f, j, h, name, o) =>
                                   j < i \/ (j = i /\ h <= k)
  BY <1>2 DEF Means
<1>7. \A i \in 1 .. n + 1 : i \in 1 .. n \/ i = n + 1
  OBVIOUS
<1>8. CASE here(o) = {}
  <2>1. new[o] = m[o] /\ \A k : ~ Gives(f, n + 1, k, name, o)
    BY <1>3, <1>5, <1>8
  <2>2. CASE /\ m[o] = ff
             /\ \A i \in 1 .. n, k \in 1 .. MaxData : ~ Gives(f, i, k, name, o)
    BY <1>7, <2>1, <2>2
  <2>3. CASE \E i \in 1 .. n, k \in 1 .. MaxData :
                /\ Gives(f, i, k, name, o) /\ m[o] = f[i].data[k]
                /\ \A j \in 1 .. n, h \in 1 .. MaxData :
                      Gives(f, j, h, name, o) => j < i \/ (j = i /\ h <= k)
    BY <1>7, <2>1, <2>3
  <2> QED
    BY <1>2, <2>2, <2>3 DEF Means
<1>9. CASE here(o) # {}
  <2>1. \E k \in here(o) : \A j \in here(o) : j <= k
    <3> HIDE DEF here
    <3> QED
      BY <1>6, <1>9, LastOf, DataSizes
  <2>2. last(o) \in here(o) /\ \A j \in here(o) : j <= last(o)
    BY <2>1
  <2>3. last(o) \in 1 .. MaxData
    BY <1>6, <2>2
  <2>4. new[o] = data[last(o)]
    BY <1>3, <1>9
  <2>5. Gives(f, n + 1, last(o), name, o)
    BY <1>5, <2>2
  <2>6. \A j \in 1 .. n + 1, h \in 1 .. MaxData :
           Gives(f, j, h, name, o) => j < n + 1 \/ (j = n + 1 /\ h <= last(o))
    <3> HIDE DEF last, here
    <3> QED
      BY <1>5, <1>7, <2>2
  <2> HIDE DEF last, new
  <2> QED
    BY <2>3, <2>4, <2>5, <2>6
<1> QED
  BY <1>8, <1>9

\* A memory is marked as used when a byte of the record is for it.
LEMMA UsesPut ==
  ASSUME NEW n \in Nat, NEW f, Holds(f[n + 1]), f[n + 1].data \in Data(MaxData),
         From(f, n + 1) \in Int, NEW name \in {"flash", "boot"},
         NEW size \in Nat,
         size = IF name = "flash" THEN FLASH_BYTES ELSE BOOT_BYTES
  PROVE  Uses(f, n + 1, name, size) <=>
            \/ Uses(f, n, name, size)
            \/ {k \in DOMAIN f[n + 1].data :
                  Place((From(f, n + 1) + k - 1) % Addresses).mem = name} # {}
<1> DEFINE data == f[n + 1].data
           to(k) == Place((From(f, n + 1) + k - 1) % Addresses)
           placed == {k \in DOMAIN data : to(k).mem = name}
<1>1. DOMAIN data = 1 .. Len(data) /\ Len(data) \in 0 .. MaxData
  BY DataType
<1>2. ASSUME NEW k \in placed
      PROVE  \E o \in 0 .. size - 1 :
                k \in 1 .. MaxData /\ Gives(f, n + 1, k, name, o)
  <2>1. k \in 1 .. MaxData
    BY <1>1, DataSizes
  <2>2. (From(f, n + 1) + k - 1) % Addresses \in Int
    BY <2>1, Wrapped
  <2>3. to(k).offset \in 0 .. size - 1
    BY <2>2, PlaceType
  <2>4. to(k) = [mem |-> name, offset |-> to(k).offset]
    BY <2>2, PlaceType
  <2> QED
    BY <2>1, <2>3, <2>4 DEF Gives
<1>3. ASSUME NEW k, NEW o, Gives(f, n + 1, k, name, o)
      PROVE  k \in placed
  BY <1>3 DEF Gives
<1>4. n + 1 \in 1 .. n + 1 /\ \A i \in 1 .. n : i \in 1 .. n + 1
  OBVIOUS
<1>5. \A i \in 1 .. n + 1 : i \in 1 .. n \/ i = n + 1
  OBVIOUS
<1> HIDE DEF placed
<1>6. ASSUME Uses(f, n + 1, name, size)
      PROVE  Uses(f, n, name, size) \/ placed # {}
  BY <1>3, <1>5, <1>6 DEF Uses
<1>7. ASSUME Uses(f, n, name, size) \/ placed # {}
      PROVE  Uses(f, n + 1, name, size)
  BY <1>2, <1>4, <1>7 DEF Uses
<1> QED
  BY <1>6, <1>7 DEF placed

\* When the n lines are all that count, the memory holds what the file means.
LEMMA MeansValue ==
  ASSUME NEW n \in Nat, NEW f, NEW m, NEW name, Means(f, n, m, name),
         NEW o \in DOMAIN m, 1 .. n \subseteq Live(f),
         \A i \in Live(f) : Holds(f[i]) => i \in 1 .. n
  PROVE  /\ m[o] = Value(f, name, o)
         /\ Bytes(f, name, o) # {} <=>
               \E i \in 1 .. n, k \in 1 .. MaxData : Gives(f, i, k, name, o)
<1> DEFINE all == Bytes(f, name, o)
           IsLast(p) == \A q \in all : q[1] < p[1] \/ (q[1] = p[1] /\ q[2] <= p[2])
           last == CHOOSE p \in all : IsLast(p)
<1>1. \A p : p \in all <=> /\ p \in (1 .. n) \X (1 .. MaxData)
                           /\ Gives(f, p[1], p[2], name, o)
  BY DEF Bytes, Gives
<1>2. all # {} <=> \E i \in 1 .. n, k \in 1 .. MaxData : Gives(f, i, k, name, o)
  <2>1. ASSUME NEW i \in 1 .. n, NEW k \in 1 .. MaxData, Gives(f, i, k, name, o)
        PROVE  <<i, k>> \in all
    BY <1>1, <2>1
  <2>2. ASSUME NEW p \in all
        PROVE  p[1] \in 1 .. n /\ p[2] \in 1 .. MaxData /\ Gives(f, p[1], p[2], name, o)
    BY <1>1
  <2> HIDE DEF all
  <2> QED
    BY <2>1, <2>2
<1>3. CASE /\ m[o] = ff
           /\ \A i \in 1 .. n, k \in 1 .. MaxData : ~ Gives(f, i, k, name, o)
  BY <1>2, <1>3 DEF Value
<1>4. CASE \E i \in 1 .. n, k \in 1 .. MaxData :
              /\ Gives(f, i, k, name, o) /\ m[o] = f[i].data[k]
              /\ \A j \in 1 .. n, h \in 1 .. MaxData :
                    Gives(f, j, h, name, o) => j < i \/ (j = i /\ h <= k)
  <2>1. PICK i \in 1 .. n, k \in 1 .. MaxData :
              /\ Gives(f, i, k, name, o) /\ m[o] = f[i].data[k]
              /\ \A j \in 1 .. n, h \in 1 .. MaxData :
                    Gives(f, j, h, name, o) => j < i \/ (j = i /\ h <= k)
    BY <1>4
  <2>2. <<i, k>> \in all
    BY <1>1, <2>1
  <2>3. IsLast(<<i, k>>)
    <3> TAKE q \in all
    <3>1. q[1] \in 1 .. n /\ q[2] \in 1 .. MaxData /\ Gives(f, q[1], q[2], name, o)
      BY <1>1
    <3> QED
      BY <2>1, <3>1
  <2>4. ASSUME NEW p \in all, IsLast(p)
        PROVE  p[1] = i /\ p[2] = k
    <3>1. p[1] \in 1 .. n /\ p[2] \in 1 .. MaxData
      BY <1>1
    <3>2. i < p[1] \/ (i = p[1] /\ k <= p[2])
      BY <2>2, <2>4
    <3>3. p[1] < i \/ (p[1] = i /\ p[2] <= k)
      BY <2>3
    <3> QED
      BY <3>1, <3>2, <3>3, DataSizes
  <2>5. last \in all /\ IsLast(last)
    <3> HIDE DEF IsLast
    <3> QED
      BY <2>2, <2>3
  <2>6. last[1] = i /\ last[2] = k
    BY <2>4, <2>5
  <2>7. Value(f, name, o) = f[last[1]].data[last[2]]
    BY <2>2 DEF Value, LastByte
  <2> QED
    BY <1>2, <2>1, <2>6, <2>7
<1> QED
  BY <1>3, <1>4 DEF Means

-----------------------------------------------------------------------------
(* The readers.                                                            *)

\* The memory is what the first n lines of f mean.
Meant(f, n) ==
    /\ Means(f, n, flash_data, "flash") /\ Means(f, n, boot_data, "boot")
    /\ flash_used <=> Uses(f, n, "flash", FLASH_BYTES)
    /\ boot_used <=> Uses(f, n, "boot", BOOT_BYTES)

\* Lines that a reader goes on after.
SrecRead(line) == line.kind = "blank" \/ (line.kind = "S" /\ line.type \notin 7 .. 9)
HexRead(line) == line.kind = "blank" \/ (line.kind = ":" /\ line.type # 1)

\* read_hex comes to an S record from line n on, and fails there.
Doomed(f, n) ==
    \E i \in n .. Len(f) :
        f[i].kind = "S" /\ \A j \in n .. i - 1 : f[j].kind \in {"blank", "S"}

InvMain == pc = "main" => file = <<>> /\ next = 1 /\ Meant(file, 0)
InvSrec ==
    pc = "srec" =>
        /\ next = Len(file) + 1 /\ Meant(file, Len(file))
        /\ \A i \in 1 .. Len(file) : SrecRead(file[i])
InvHex ==
    pc = "hex" =>
        /\ next <= Len(file) + 1 /\ high = Upper(file, next)
        /\ \A i \in 1 .. Len(file) : file[i].kind # "eof"
        /\ \A i \in 1 .. next - 1 : HexRead(file[i])
        /\ Doomed(file, next) \/ Meant(file, next - 1)
InvDone ==
    /\ outcome = "accepted" => pc = "program"
    /\ ImageIsMeaning

\* What the readers keep: read_srec and read_hex have stored what the lines behind
\* them mean, unless read_hex is bound to fail at an S record that lies ahead.
IInv == TypeOK /\ InvMain /\ InvSrec /\ InvHex /\ InvDone

\* The image stays what it was while the memory and the lines read stay.
LEMMA MeantKept ==
  ASSUME NEW n \in Nat, \A i \in 1 .. n : file'[i] = file[i],
         UNCHANGED memory, Meant(file, n)
  PROVE  Meant(file, n)'
BY MeansSame DEF Meant, memory

\* A line that holds no data, and is passed over, leaves it the meaning.
LEMMA MeantSkip ==
  ASSUME NEW n \in Nat, \A i \in 1 .. n : file'[i] = file[i],
         UNCHANGED memory, Meant(file, n), ~ Holds(file'[n + 1])
  PROVE  Meant(file, n + 1)'
<1>1. Meant(file, n)'
  BY MeantKept
<1> QED
  BY <1>1, MeansSkip DEF Meant

\* store_data makes of it the meaning of one line more.
LEMMA MeantStored ==
  ASSUME TypeOK, NEW n \in Nat, \A i \in 1 .. n : file'[i] = file[i],
         Meant(file, n), Holds(file'[n + 1]), file'[n + 1].data \in Data(MaxData),
         From(file', n + 1) \in Int,
         store_data(From(file', n + 1), file'[n + 1].data)
  PROVE  Meant(file, n + 1)'
<1> DEFINE f == file'
           data == f[n + 1].data
           address == From(f, n + 1)
<1>1. /\ flash_data \in [0 .. FLASH_BYTES - 1 -> 0 .. ff]
      /\ boot_data \in [0 .. BOOT_BYTES - 1 -> 0 .. ff]
      /\ FLASH_BYTES \in Nat /\ BOOT_BYTES \in Nat
  BY FilesAssumption DEF TypeOK
<1>2. Means(f, n, flash_data, "flash") /\ Means(f, n, boot_data, "boot")
  BY MeansSame DEF Meant
<1>3. /\ flash_used <=> Uses(f, n, "flash", FLASH_BYTES)
      /\ boot_used <=> Uses(f, n, "boot", BOOT_BYTES)
  BY MeansSame DEF Meant
<1>4. /\ flash_data' = Put(flash_data, "flash", address, data)
      /\ boot_data' = Put(boot_data, "boot", address, data)
      /\ flash_used' = (flash_used \/
             {k \in DOMAIN data :
                 Place((address + k - 1) % Addresses).mem = "flash"} # {})
      /\ boot_used' = (boot_used \/
             {k \in DOMAIN data :
                 Place((address + k - 1) % Addresses).mem = "boot"} # {})
  BY DEF store_data
<1>5. Means(f, n + 1, flash_data', "flash")
  <2>1. flash_data' = Put(flash_data, "flash", address, data)
    BY <1>4
  <2>2. Means(f, n + 1, Put(flash_data, "flash", address, data), "flash")
    BY <1>1, <1>2, MeansPut
  <2> QED
    BY <2>1, <2>2
<1>6. Means(f, n + 1, boot_data', "boot")
  <2>1. boot_data' = Put(boot_data, "boot", address, data)
    BY <1>4
  <2>2. Means(f, n + 1, Put(boot_data, "boot", address, data), "boot")
    BY <1>1, <1>2, MeansPut
  <2> QED
    BY <2>1, <2>2
<1>7. flash_used' <=> Uses(f, n + 1, "flash", FLASH_BYTES)
  <2>1. Uses(f, n + 1, "flash", FLASH_BYTES) <=>
           \/ Uses(f, n, "flash", FLASH_BYTES)
           \/ {k \in DOMAIN data :
                 Place((address + k - 1) % Addresses).mem = "flash"} # {}
    BY <1>1, UsesPut
  <2> QED
    BY <1>3, <1>4, <2>1
<1>8. boot_used' <=> Uses(f, n + 1, "boot", BOOT_BYTES)
  <2>1. Uses(f, n + 1, "boot", BOOT_BYTES) <=>
           \/ Uses(f, n, "boot", BOOT_BYTES)
           \/ {k \in DOMAIN data :
                 Place((address + k - 1) % Addresses).mem = "boot"} # {}
    BY <1>1, UsesPut
  <2> QED
    BY <1>3, <1>4, <2>1
<1> QED
  BY <1>5, <1>6, <1>7, <1>8 DEF Meant

\* A reader that accepts after n lines has read what the file means.
LEMMA Accepted ==
  ASSUME TypeOK', NEW n \in Nat, n + 1 \in DOMAIN file', Meant(file, n)',
         \A i \in 1 .. n : ~ Ends(file'[i]), ~ Holds(file'[n + 1]),
         Ends(file'[n + 1]) \/ n + 1 = Len(file'),
         NEW kind \in {"S", ":"},
         \A i \in 1 .. n + 1 : file'[i].kind \in {"blank", "eof", kind}
  PROVE  ImageIsMeaning'
<1> DEFINE f == file'
<1>1. Live(f) = 1 .. n + 1
  <2>0. n + 1 \in DOMAIN f /\ \A i \in 1 .. n : ~ Ends(f[i])
    OBVIOUS
  <2>1. DOMAIN f = 1 .. Len(f) /\ Len(f) \in Nat
    BY DEF TypeOK
  <2>2. ASSUME NEW i \in 1 .. n + 1 PROVE i \in Live(f)
    <3> HIDE DEF f
    <3>1. i \in DOMAIN f
      BY <2>0, <2>1
    <3>2. \A j \in 1 .. i - 1 : j \in 1 .. n
      OBVIOUS
    <3>3. \A j \in 1 .. i - 1 : ~ Ends(f[j])
      BY <2>0, <3>2
    <3> QED
      BY <3>1, <3>3 DEF Live
  <2>3. ASSUME NEW i \in Live(f) PROVE i \in 1 .. n + 1
    <3>1. i \in 1 .. Len(f) /\ \A j \in 1 .. i - 1 : ~ Ends(f[j])
      BY <2>1 DEF Live
    <3> QED
      BY <3>1
  <2> QED
    BY <2>2, <2>3
<1>2. Formats(f) \in {{}, {"S"}, {":"}}
  <2>1. Formats(f) \subseteq {kind}
    BY <1>1 DEF Formats
  <2> QED
    BY <2>1
<1>3. 1 .. n \subseteq Live(f)
  BY <1>1
<1>4. \A i \in Live(f) : Holds(f[i]) => i \in 1 .. n
  BY <1>1
<1>5. Means(f, n, flash_data', "flash") /\ Means(f, n, boot_data', "boot")
  BY DEF Meant
<1>6. /\ flash_used' <=> Uses(f, n, "flash", FLASH_BYTES)
      /\ boot_used' <=> Uses(f, n, "boot", BOOT_BYTES)
  BY DEF Meant
<1>7. \A o \in DOMAIN flash_data' :
         /\ flash_data'[o] = Value(f, "flash", o)
         /\ Bytes(f, "flash", o) # {} <=>
               \E i \in 1 .. n, k \in 1 .. MaxData : Gives(f, i, k, "flash", o)
  <2> HIDE DEF f
  <2> QED
    BY <1>3, <1>4, <1>5, MeansValue
<1>8. \A o \in DOMAIN boot_data' :
         /\ boot_data'[o] = Value(f, "boot", o)
         /\ Bytes(f, "boot", o) # {} <=>
               \E i \in 1 .. n, k \in 1 .. MaxData : Gives(f, i, k, "boot", o)
  <2> HIDE DEF f
  <2> QED
    BY <1>3, <1>4, <1>5, MeansValue
<1>9. /\ DOMAIN flash_data' = 0 .. FLASH_BYTES - 1
      /\ DOMAIN boot_data' = 0 .. BOOT_BYTES - 1
      /\ flash_used' \in BOOLEAN /\ boot_used' \in BOOLEAN
  BY DEF TypeOK
<1>10. flash_used' = (\E o \in DOMAIN flash_data' : Bytes(f, "flash", o) # {})
  BY <1>6, <1>7, <1>9 DEF Uses
<1>11. boot_used' = (\E o \in DOMAIN boot_data' : Bytes(f, "boot", o) # {})
  BY <1>6, <1>8, <1>9 DEF Uses
<1> QED
  BY <1>2, <1>7, <1>8, <1>10, <1>11 DEF ImageIsMeaning

\* The invariant holds of erased memory and an empty file.
LEMMA InitIInv == Init => IInv
<1> SUFFICES ASSUME Init PROVE IInv
  OBVIOUS
<1>1. TypeOK
  BY InitType
<1>2. Means(file, 0, flash_data, "flash") /\ Means(file, 0, boot_data, "boot")
  BY DEF Init, Means
<1>3. /\ ~ Uses(file, 0, "flash", FLASH_BYTES)
      /\ ~ Uses(file, 0, "boot", BOOT_BYTES)
  BY DEF Uses
<1>4. InvMain
  BY <1>2, <1>3 DEF Init, InvMain, Meant
<1> QED
  BY <1>1, <1>4 DEF Init, IInv, InvSrec, InvHex, InvDone, ImageIsMeaning

\* The line a reader takes is the next line of the file from then on.
LEMMA NextLine ==
  ASSUME TypeOK, NEW line \in Fetches, Keep(line), next <= Len(file) + 1
  PROVE  /\ next \in DOMAIN file' /\ file'[next] = line
         /\ \A i \in 1 .. next - 1 : file'[i] = file[i]
         /\ Len(file') = IF next <= Len(file) THEN Len(file) ELSE next
         /\ next <= Len(file) => file' = file
<1>1. file \in Seq(Line \cup {NoLine}) /\ Len(file) \in Nat /\ next \in Nat \ {0}
  BY DEF TypeOK
<1>2. CASE next <= Len(file)
  BY <1>1, <1>2 DEF Keep, Fetches
<1>3. CASE next = Len(file) + 1
  <2>1. file' = Append(file, line)
    BY <1>1, <1>3 DEF Keep
  <2> QED
    BY <1>1, <1>3, <2>1
<1> QED
  BY <1>1, <1>2, <1>3

\* The lines with one more are the lines before and that one.
LEMMA OneMore ==
  ASSUME NEW n \in Nat, NEW i \in 1 .. n + 1
  PROVE  i = n + 1 \/ i \in 1 .. n
OBVIOUS

\* Of a step that accepts nothing there is only the reader's invariant to show.
LEMMA NotAccepted ==
  ASSUME outcome' # "accepted" PROVE InvDone'
BY DEF InvDone, ImageIsMeaning

\* A line of read_srec keeps the invariant.
LEMMA SrecStep ==
  ASSUME IInv, TypeOK', read_srec
  PROVE  IInv'
<1>0. PICK n \in Nat : n = Len(file)
  <2>1. file \in Seq(Line \cup {NoLine})
    BY DEF IInv, TypeOK
  <2>2. Len(file) \in Nat
    BY <2>1
  <2> QED
    BY <2>2
<1>1. PICK line \in Fetches :
        /\ Keep(line)
        /\ \/ line.kind = "eof" /\ Accept /\ UNCHANGED next
           \/ line.kind = "blank" /\ Skip /\ next' = next + 1
           \/ /\ line.kind \in {"other", ":"}
              /\ pc' = "hex" /\ next' = 1 /\ high' = 0
              /\ UNCHANGED <<memory, outcome>>
           \/ /\ line.kind = "S" /\ next' = next + 1
              /\ IF line.type \in 7..9 THEN Accept
                 ELSE IF line.flaw # "none" THEN Fail
                 ELSE IF line.type \in 1..3
                      THEN store_data(line.addr, line.data)
                           /\ UNCHANGED <<pc, high, outcome>>
                 ELSE Skip
  BY DEF read_srec
<1>2. /\ pc = "srec" /\ next = n + 1 /\ Meant(file, n) /\ n \in Nat
      /\ \A i \in 1 .. n : SrecRead(file[i])
      /\ outcome # "accepted"
  BY <1>0 DEF read_srec, IInv, InvSrec, InvDone
<1>3. /\ n + 1 \in DOMAIN file' /\ file'[n + 1] = line
      /\ \A i \in 1 .. n : file'[i] = file[i]
      /\ Len(file') = n + 1
  BY <1>0, <1>1, <1>2, NextLine DEF IInv
<1>4. line \in Line \cup {NoLine}
  <2>1. TypeOK
    BY DEF IInv
  <2> QED
    BY <1>1, <2>1, Fetched
<1>5. \A i \in 1 .. n : SrecRead(file'[i]) /\ ~ Ends(file'[i])
  BY <1>2, <1>3 DEF SrecRead, Ends
<1>6. CASE Accept /\ (line.kind = "eof" \/ (line.kind = "S" /\ line.type \in 7 .. 9))
  <2>1. UNCHANGED memory /\ pc' = "program" /\ outcome' = "accepted"
    BY <1>6 DEF Accept
  <2>2. Meant(file, n)'
    BY <1>2, <1>3, <2>1, MeantKept
  <2>3. ~ Holds(line) /\ (Ends(line) \/ n + 1 = Len(file'))
    BY <1>3, <1>6 DEF Holds, Ends
  <2>4. \A i \in 1 .. n + 1 : file'[i].kind \in {"blank", "eof", "S"}
    <3> TAKE i \in 1 .. n + 1
    <3>1. CASE i = n + 1
      BY <1>3, <1>6, <3>1
    <3>2. CASE i \in 1 .. n
      BY <1>5, <3>2 DEF SrecRead
    <3> QED
      BY <1>2, <3>1, <3>2
  <2>5. ImageIsMeaning'
    BY <1>2, <1>3, <1>5, <2>2, <2>3, <2>4, Accepted
  <2> QED
    BY <2>1, <2>5 DEF IInv, InvMain, InvSrec, InvHex, InvDone
<1>7. CASE Fail
  <2>1. pc' = "end" /\ outcome' # "accepted"
    BY <1>7 DEF Fail
  <2> QED
    BY <2>1, NotAccepted DEF IInv, InvMain, InvSrec, InvHex
<1>8. CASE Skip /\ next' = next + 1 /\ SrecRead(line) /\ ~ Holds(line)
  <2>1. UNCHANGED memory /\ pc' = "srec" /\ outcome' # "accepted"
    BY <1>2, <1>8 DEF Skip
  <2>2. Meant(file, n + 1)'
    BY <1>2, <1>3, <1>8, <2>1, MeantSkip
  <2>3. \A i \in 1 .. n + 1 : SrecRead(file'[i])
    BY <1>2, <1>3, <1>5, <1>8, OneMore
  <2>4. InvSrec'
    BY <1>2, <1>3, <1>8, <2>2, <2>3 DEF InvSrec
  <2> QED
    BY <2>1, <2>4, NotAccepted DEF IInv, InvMain, InvHex
<1>9. CASE /\ line.kind = "S" /\ line.type \in 1 .. 3 /\ line.flaw = "none"
           /\ store_data(line.addr, line.data) /\ next' = next + 1
           /\ UNCHANGED <<pc, high, outcome>>
  <2>1. line.addr \in Int /\ line.data \in Data(MaxData)
    BY <1>4, <1>9, Lines, Sizes
  <2>2. From(file', n + 1) = line.addr
    BY <1>3, <1>9 DEF From
  <2>3. Holds(file'[n + 1]) /\ SrecRead(line)
    BY <1>3, <1>9 DEF Holds, SrecRead
  <2>4. store_data(From(file', n + 1), file'[n + 1].data)
    BY <1>3, <1>9, <2>2
  <2>5. Meant(file, n + 1)'
    BY <1>2, <1>3, <2>1, <2>2, <2>3, <2>4, MeantStored DEF IInv
  <2>6. \A i \in 1 .. n + 1 : SrecRead(file'[i])
    BY <1>2, <1>3, <1>5, <2>3, OneMore
  <2>7. InvSrec'
    BY <1>2, <1>3, <1>9, <2>5, <2>6 DEF InvSrec
  <2> QED
    BY <1>2, <1>9, <2>7, NotAccepted DEF IInv, InvMain, InvHex
<1>10. CASE /\ line.kind \in {"other", ":"} /\ pc' = "hex" /\ next' = 1 /\ high' = 0
            /\ UNCHANGED <<memory, outcome>>
  <2>1. Upper(file', 1) = 0
    BY DEF Upper
  <2>2. Doomed(file', 1) \/ Meant(file, 0)'
    <3>1. CASE \E i \in 1 .. n : file'[i].kind = "S"
      <4>1. PICK i \in 1 .. n : file'[i].kind = "S"
        BY <3>1
      <4>2. i \in 1 .. Len(file') /\ \A j \in 1 .. i - 1 : file'[j].kind \in {"blank", "S"}
        BY <1>2, <1>3, <1>5, <4>1 DEF SrecRead
      <4> QED
        BY <4>1, <4>2 DEF Doomed
    <3>2. CASE \A i \in 1 .. n : file'[i].kind = "blank"
      <4>1. Meant(file, n)'
        BY <1>2, <1>3, <1>10, MeantKept
      <4>2. \A i \in 1 .. n : \A k, name, o : ~ Gives(file', i, k, name, o)
        BY <3>2 DEF Gives, Holds
      <4> QED
        BY <1>2, <4>1, <4>2 DEF Meant, Means, Uses
    <3> QED
      BY <1>5, <3>1, <3>2 DEF SrecRead
  <2>3. \A i \in 1 .. n + 1 : file'[i].kind # "eof"
    BY <1>2, <1>3, <1>5, <1>10, OneMore DEF SrecRead
  <2>4. InvHex'
    BY <1>2, <1>3, <1>10, <2>1, <2>2, <2>3 DEF InvHex
  <2> QED
    BY <1>2, <1>10, <2>4, NotAccepted DEF IInv, InvMain, InvSrec
<1> QED
  BY <1>1, <1>2, <1>6, <1>7, <1>8, <1>9, <1>10 DEF SrecRead, Holds

\* A line of read_hex keeps it.
LEMMA HexStep ==
  ASSUME IInv, TypeOK', read_hex
  PROVE  IInv'
<1>0. PICK n \in Nat : next = n + 1
  <2>1. next - 1 \in Nat /\ next = (next - 1) + 1
    BY DEF IInv, TypeOK
  <2> QED
    BY <2>1
<1>1. PICK line \in Fetches :
        /\ Keep(line)
        /\ next' = IF line.kind = "eof" THEN next ELSE next + 1
        /\ \/ line.kind = "eof" /\ Accept
           \/ line.kind = "blank" /\ Skip
           \/ line.kind \in {"other", "S"} /\ Fail
           \/ line.kind = ":" /\ HexRecord(line)
  BY DEF read_hex
<1>2. /\ pc = "hex" /\ n + 1 <= Len(file) + 1 /\ high = Upper(file, n + 1)
      /\ \A i \in 1 .. Len(file) : file[i].kind # "eof"
      /\ \A i \in 1 .. n : HexRead(file[i])
      /\ Doomed(file, n + 1) \/ Meant(file, n)
      /\ outcome # "accepted" /\ Len(file) \in Nat
  <2>1. pc = "hex"
    BY DEF read_hex
  <2>2. outcome # "accepted" /\ Len(file) \in Nat
    BY <2>1 DEF IInv, InvDone, TypeOK
  <2>3. next = n + 1 /\ next - 1 = n
    BY <1>0
  <2>4. /\ next <= Len(file) + 1 /\ high = Upper(file, next)
        /\ \A i \in 1 .. Len(file) : file[i].kind # "eof"
        /\ \A i \in 1 .. next - 1 : HexRead(file[i])
        /\ Doomed(file, next) \/ Meant(file, next - 1)
    BY <2>1 DEF IInv, InvHex
  <2> QED
    BY <2>1, <2>2, <2>3, <2>4
<1>3. /\ n + 1 \in DOMAIN file' /\ file'[n + 1] = line
      /\ \A i \in 1 .. n : file'[i] = file[i]
      /\ Len(file') = IF n + 1 <= Len(file) THEN Len(file) ELSE n + 1
      /\ n + 1 <= Len(file) => file' = file
  <2>1. TypeOK /\ line \in Fetches /\ Keep(line) /\ next <= Len(file) + 1
    BY <1>0, <1>1, <1>2 DEF IInv
  <2>2. /\ next \in DOMAIN file' /\ file'[next] = line
        /\ \A i \in 1 .. next - 1 : file'[i] = file[i]
        /\ Len(file') = IF next <= Len(file) THEN Len(file) ELSE next
        /\ next <= Len(file) => file' = file
    BY <2>1, NextLine
  <2>3. next = n + 1 /\ next - 1 = n
    BY <1>0
  <2> QED
    BY <2>2, <2>3
<1>4. line \in Line \cup {NoLine}
  <2>1. TypeOK
    BY DEF IInv
  <2> QED
    BY <1>1, <2>1, Fetched
<1>5. \A i \in 1 .. n : HexRead(file'[i]) /\ ~ Ends(file'[i])
  BY <1>2, <1>3 DEF HexRead, Ends
<1>6. Upper(file', n + 1) = high
  <2>1. n + 1 \in 1 .. n + 1 /\ \A i \in 1 .. n : file'[i] = file[i]
    BY <1>3
  <2>2. Upper(file', n + 1) = Upper(file, n + 1)
    BY <2>1, UpperSame
  <2> QED
    BY <1>2, <2>2
<1>7. ASSUME Doomed(file, n + 1)
      PROVE  /\ line.kind \in {"blank", "S"}
             /\ line.kind = "blank" => Doomed(file', n + 2)
  <2>1. PICK i \in n + 1 .. Len(file) :
           /\ file[i].kind = "S"
           /\ \A j \in n + 1 .. i - 1 : file[j].kind \in {"blank", "S"}
    BY <1>7 DEF Doomed
  <2>2. file' = file /\ file[n + 1] = line
    BY <1>3, <2>1
  <2>3. CASE i = n + 1
    BY <2>1, <2>2, <2>3
  <2>4. CASE i # n + 1
    <3>1. i \in n + 2 .. Len(file) /\ n + 1 \in n + 1 .. i - 1
      BY <1>2, <2>1, <2>4
    <3>2. \A j \in n + 2 .. i - 1 : j \in n + 1 .. i - 1
      OBVIOUS
    <3> QED
      BY <2>1, <2>2, <3>1, <3>2 DEF Doomed
  <2> QED
    BY <2>3, <2>4
<1>8. line.kind = ":" \/ line.kind = "eof" => Meant(file, n)
  BY <1>2, <1>7
<1>9. CASE Fail \/ Astray
  <2>1. pc' = "end" /\ outcome' # "accepted"
    BY <1>9 DEF Fail, Astray
  <2> QED
    BY <2>1, NotAccepted DEF IInv, InvMain, InvSrec, InvHex
<1>10. CASE /\ Accept
            /\ \/ line.kind = "eof"
               \/ line.kind = ":" /\ line.type = 1 /\ line.flaw # "digits"
  <2>1. UNCHANGED memory /\ pc' = "program" /\ outcome' = "accepted"
    BY <1>10 DEF Accept
  <2>2. Meant(file, n)'
    BY <1>3, <1>8, <1>10, <2>1, MeantKept
  <2>3. ~ Holds(line) /\ (Ends(line) \/ n + 1 = Len(file'))
    <3>1. ~ Holds(line)
      BY <1>10 DEF Holds
    <3>2. CASE line.kind = "eof"
      <4>1. ~ (n + 1 <= Len(file))
        BY <1>2, <1>3, <3>2
      <4> QED
        BY <1>3, <3>1, <4>1
    <3>3. CASE line.kind # "eof"
      BY <1>10, <3>1, <3>3 DEF Ends
    <3> QED
      BY <3>2, <3>3
  <2>4. \A i \in 1 .. n + 1 : file'[i].kind \in {"blank", "eof", ":"}
    BY <1>3, <1>5, <1>10, OneMore DEF HexRead
  <2>5. ImageIsMeaning'
    BY <1>3, <1>5, <2>2, <2>3, <2>4, Accepted
  <2> QED
    BY <2>1, <2>5 DEF IInv, InvMain, InvSrec, InvHex, InvDone
<1>11. ASSUME pc' = "hex", outcome' # "accepted", line.kind # "eof", HexRead(line),
              high' = Upper(file', n + 2),
              Doomed(file', n + 2) \/ Meant(file, n + 1)'
       PROVE  IInv'
  <2>1. \A i \in 1 .. n + 1 : HexRead(file'[i])
    BY <1>3, <1>5, <1>11, OneMore
  <2>2. next' = n + 2 /\ n + 2 - 1 = n + 1
    BY <1>0, <1>1, <1>11
  <2>3. n + 2 <= Len(file') + 1
    BY <1>2, <1>3
  <2>4. \A i \in 1 .. Len(file') : file'[i].kind # "eof"
    <3>1. CASE n + 1 <= Len(file)
      BY <1>2, <1>3, <3>1
    <3>2. CASE ~ (n + 1 <= Len(file))
      BY <1>3, <2>1, <3>2 DEF HexRead
    <3> QED
      BY <3>1, <3>2
  <2>5. InvHex'
    BY <1>11, <2>1, <2>2, <2>3, <2>4 DEF InvHex
  <2> QED
    BY <1>11, <2>5, NotAccepted DEF IInv, InvMain, InvSrec
<1>12. CASE /\ Skip /\ HexRead(line) /\ line.kind # "eof"
            /\ line.kind = "blank" \/ line.type = 5
  <2>1. UNCHANGED memory /\ pc' = "hex" /\ high' = high /\ outcome' # "accepted"
    BY <1>2, <1>12 DEF Skip
  <2>2. high' = Upper(file', n + 2)
    <3>1. ~ (file'[n + 1].kind = ":" /\ file'[n + 1].type = 4)
      BY <1>3, <1>12
    <3>2. Upper(file', n + 2) = Upper(file', n + 1)
      BY <3>1, UpperKept
    <3> QED
      BY <1>6, <2>1, <3>2
  <2>3. ASSUME Meant(file, n) PROVE Meant(file, n + 1)'
    <3>1. ~ Holds(line)
      BY <1>12 DEF Holds, HexRead
    <3> QED
      BY <1>3, <2>1, <2>3, <3>1, MeantSkip
  <2>4. Doomed(file', n + 2) \/ Meant(file, n + 1)'
    BY <1>2, <1>7, <1>8, <1>12, <2>3 DEF HexRead
  <2> QED
    BY <1>11, <1>12, <2>1, <2>2, <2>4
<1>13. CASE /\ line.kind = ":" /\ line.type = 4
            /\ high' = line.data[1] * Byte + line.data[2]
            /\ UNCHANGED <<pc, memory, outcome>>
  <2>1. high' = Upper(file', n + 2)
    BY <1>3, <1>13, UpperGiven
  <2>2. ~ Holds(line) /\ HexRead(line)
    BY <1>13 DEF Holds, HexRead
  <2>3. Meant(file, n + 1)'
    BY <1>3, <1>8, <1>13, <2>2, MeantSkip
  <2> QED
    BY <1>2, <1>11, <1>13, <2>1, <2>2, <2>3
<1>14. CASE /\ line.kind = ":" /\ line.type = 0 /\ line.flaw = "none"
            /\ store_data(high * Half + line.low, line.data)
            /\ UNCHANGED <<pc, high, outcome>>
  <2>1. line.low \in Int /\ line.data \in Data(MaxData)
    BY <1>4, <1>14, Lines, Sizes
  <2>2. From(file', n + 1) = high * Half + line.low
    BY <1>3, <1>6, <1>14 DEF From
  <2>3. From(file', n + 1) \in Int
    <3>1. high \in Int /\ Half \in Int
      BY Sizes DEF IInv, TypeOK
    <3>2. high * Half \in Int
      BY <3>1
    <3> QED
      BY <2>1, <2>2, <3>2
  <2>4. Holds(line) /\ HexRead(line)
    BY <1>14 DEF Holds, HexRead
  <2>5. store_data(From(file', n + 1), file'[n + 1].data)
    BY <1>3, <1>14, <2>2
  <2>6. Meant(file, n + 1)'
    BY <1>3, <1>8, <1>14, <2>1, <2>3, <2>4, <2>5, MeantStored DEF IInv
  <2>7. high' = Upper(file', n + 2)
    BY <1>3, <1>6, <1>14, UpperKept
  <2> QED
    BY <1>2, <1>11, <1>14, <2>4, <2>6, <2>7
<1>15. line.kind = ":" => line.flaw \in {"none", "digits", "short", "sum"}
  BY <1>4, Lines
<1>16. CASE line.kind = ":" /\ HexRecord(line)
  BY <1>9, <1>10, <1>12, <1>13, <1>14, <1>15, <1>16 DEF HexRecord, HexData, HexRead
<1> QED
  BY <1>1, <1>9, <1>10, <1>12, <1>16 DEF HexRead

\* So does every step of the program.
LEMMA IInvStep == IInv /\ [Next]_vars => IInv'
<1> SUFFICES ASSUME IInv, [Next]_vars PROVE IInv'
  OBVIOUS
<1>1. TypeOK'
  BY TypeStep DEF IInv
<1>2. CASE read_srec
  BY <1>1, <1>2, SrecStep
<1>3. CASE read_hex
  BY <1>1, <1>3, HexStep
<1>4. CASE Image
  <2>1. Len(file) = 0 /\ pc' = "srec" /\ outcome' # "accepted"
    BY <1>4 DEF Image, IInv, InvMain, InvDone
  <2>2. InvSrec'
    BY <1>4 DEF Image, IInv, InvMain, InvSrec, Meant, fileVars, memory
  <2> QED
    BY <1>1, <2>1, <2>2, NotAccepted DEF IInv, InvMain, InvHex
<1>5. CASE pc' \in {"read", "end"} /\ pc # "program" /\ outcome' # "accepted"
  BY <1>1, <1>5, NotAccepted DEF IInv, InvMain, InvSrec, InvHex
<1>6. CASE ReadArguments
  BY <1>5, <1>6 DEF ReadArguments, IInv, InvDone
<1>7. CASE do_read
  BY <1>5, <1>7 DEF do_read, IInv, InvDone
<1>8. CASE do_read_exit
  BY <1>5, <1>8 DEF do_read_exit
<1>9. CASE UNCHANGED vars
  BY <1>1, <1>9 DEF vars, fileVars, memory, IInv, InvMain, InvSrec, InvHex,
                    InvDone, ImageIsMeaning, Meant
<1> QED
  BY <1>2, <1>3, <1>4, <1>6, <1>7, <1>8, <1>9 DEF Next

\* For every file, with records of any length: in an image that is accepted a byte
\* is the last one its file has for it, or 0xff, but for those that the line of
\* the last S record for them ends before; whichever reader took the file, whatever
\* read_srec had stored before it gave the file up, and as long as a HEX record
\* that is too long for data has run on into buf.
THEOREM ImageRight == Spec => []ImageIsMeaning
<1>1. IInv => ImageIsMeaning
  BY DEF IInv, InvDone
<1> QED
  BY <1>1, InitIInv, IInvStep, PTL DEF Spec

-----------------------------------------------------------------------------
(* The blocks of do_read.                                                  *)

\* The quotient and the remainder are the only ones.
LEMMA Division ==
  ASSUME NEW b \in Nat \ {0}, NEW x \in Int, NEW q \in Int, NEW r \in 0 .. b - 1,
         x = q * b + r
  PROVE  x \div b = q /\ x % b = r
<1> DEFINE p == x \div b
           s == x % b
<1>1. p \in Int /\ s \in 0 .. b - 1 /\ x = b * p + s
  OBVIOUS
<1> HIDE DEF p, s
<1>2. b * (p - q) = r - s
  <2>1. b * (p - q) = b * p - b * q
    BY <1>1
  <2>2. b * q = q * b
    OBVIOUS
  <2> QED
    BY <1>1, <2>1, <2>2
<1>3. ~ p >= q + 1
  <2>1. p >= q + 1 => b * (p - q) >= b
    BY <1>1
  <2> QED
    BY <1>1, <1>2, <2>1
<1>4. ~ p <= q - 1
  <2>1. p <= q - 1 => b * (q - p) >= b
    BY <1>1
  <2>2. b * (q - p) = - (b * (p - q))
    BY <1>1
  <2> QED
    BY <1>1, <1>2, <2>1, <2>2
<1>5. p = q
  BY <1>1, <1>3, <1>4
<1>6. s = r
  BY <1>1, <1>5
<1> QED
  BY <1>5, <1>6 DEF p, s

\* An address is wrapped already.
LEMMA InRange ==
  ASSUME NEW x \in 0 .. Addresses - 1
  PROVE  x % Addresses = x /\ x + 0 * blocksz = x
<1>1. blocksz \in Int /\ Addresses \in Nat \ {0}
  BY FilesAssumption, Sizes
<1>2. x \in Int /\ 0 \in Int /\ x = 0 * Addresses + x
  BY <1>1
<1>3. x % Addresses = x
  BY <1>1, <1>2, Division
<1>4. x + 0 * blocksz = x
  BY <1>1, <1>2
<1> QED
  BY <1>3, <1>4

\* A whole round more or less does not change an address.
LEMMA Rounds ==
  ASSUME NEW x \in Int, NEW k \in Int
  PROVE  (x + k * Addresses) % Addresses = x % Addresses
<1> DEFINE q == x \div Addresses
           r == x % Addresses
<1>1. Addresses \in Nat \ {0}
  BY Sizes
<1>2. q \in Int /\ r \in 0 .. Addresses - 1 /\ x = Addresses * q + r
  BY <1>1
<1> HIDE DEF q, r
<1>3. x + k * Addresses = (q + k) * Addresses + r
  BY <1>1, <1>2
<1>4. (x + k * Addresses) % Addresses = r
  BY <1>1, <1>2, <1>3, Division
<1> QED
  BY <1>4 DEF r

\* An address may be wrapped before a sum is, or after.
LEMMA WrapLater ==
  ASSUME NEW x \in Int, NEW y \in Int
  PROVE  ((x % Addresses) + y) % Addresses = (x + y) % Addresses
<1> DEFINE q == x \div Addresses
           r == x % Addresses
<1>1. Addresses \in Nat \ {0}
  BY Sizes
<1>2. q \in Int /\ r \in 0 .. Addresses - 1 /\ x = Addresses * q + r
  BY <1>1
<1> HIDE DEF q, r
<1>3. x + y = (r + y) + q * Addresses
  BY <1>1, <1>2
<1>4. (x + y) % Addresses = (r + y) % Addresses
  BY <1>2, <1>3, Rounds
<1> QED
  BY <1>4 DEF r

\* The addresses are a whole number of blocks.
LEMMA BlocksFit ==
  /\ MaxBlocks \in Nat \ {0} /\ Addresses = MaxBlocks * blocksz
<1>1. Addresses \in Nat \ {0} /\ blocksz \in Nat \ {0} /\ Addresses % blocksz = 0
  BY Sizes, FilesAssumption
<1>2. MaxBlocks \in Int /\ Addresses = blocksz * MaxBlocks
  BY <1>1 DEF MaxBlocks
<1>3. MaxBlocks > 0
  BY <1>1, <1>2
<1> QED
  BY <1>1, <1>2, <1>3

\* While it reads, do_read has written the blocks from the base on, and its
\* condition held at each of them in the first round of the addresses.
ReadSoFar ==
    /\ Len(out) <= MaxBlocks + 1
    /\ addr = (base + Len(out) * blocksz) % Addresses
    /\ \A i \in DOMAIN out :
          /\ out[i] = (base + (i - 1) * blocksz) % Addresses
          /\ i <= MaxBlocks => (i - 1) * blocksz < nbytes

\* What has been written covers the range.
Covered ==
    /\ Len(out) = (nbytes + blocksz - 1) \div blocksz
    /\ \A i \in DOMAIN out : out[i] = (base + (i - 1) * blocksz) % Addresses

ReadInv ==
    /\ TypeOK
    /\ pc = "main" => out = <<>>
    /\ pc = "read" => ReadSoFar
    /\ outcome = "read" => pc = "end" /\ Covered

\* Where the loop stands is what it has written, wrapped.
LEMMA Distance ==
  ASSUME TypeOK, ReadSoFar
  PROVE  Less(addr, base) = (Len(out) * blocksz) % Addresses
<1> DEFINE n == Len(out) * blocksz
<1>1. base \in Int /\ n \in Int
  BY FilesAssumption DEF TypeOK
<1>2. addr = (base + n) % Addresses
  BY DEF ReadSoFar
<1> HIDE DEF n
<1>3. addr - base = ((base + n) % Addresses) + (- base)
  BY <1>1, <1>2, Wrapped
<1>4. (addr - base) % Addresses = (base + n + (- base)) % Addresses
  BY <1>1, <1>3, WrapLater
<1>5. base + n + (- base) = n
  BY <1>1
<1> QED
  BY <1>4, <1>5 DEF Less, n

\* In the first round it is not wrapped.
LEMMA FirstRound ==
  ASSUME NEW n \in Nat
  PROVE  /\ n < MaxBlocks => (n * blocksz) % Addresses = n * blocksz
         /\ n = MaxBlocks => (n * blocksz) % Addresses = 0
         /\ n = MaxBlocks + 1 /\ MaxBlocks > 1 =>
               (n * blocksz) % Addresses = blocksz
         /\ n = MaxBlocks + 1 /\ MaxBlocks = 1 =>
               (n * blocksz) % Addresses = 0
<1> DEFINE K == MaxBlocks
           M == Addresses
<1>1. blocksz \in Nat \ {0} /\ M \in Nat \ {0} /\ K \in Nat \ {0}
      /\ M = K * blocksz
  BY FilesAssumption, Sizes, BlocksFit
<1> HIDE DEF K, M
<1>2. ASSUME n < K PROVE (n * blocksz) % M = n * blocksz
  <2>1. (n + 1) * blocksz <= K * blocksz
    BY <1>1, <1>2
  <2> DEFINE s == n * blocksz
  <2>2. s \in 0 .. M - 1
    BY <1>1, <2>1
  <2> HIDE DEF s
  <2>3. s = 0 * M + s /\ s \in Int /\ 0 \in Int
    BY <1>1, <2>2
  <2>4. s % M = s
    BY <1>1, <2>2, <2>3, Division
  <2> QED
    BY <2>4 DEF s
<1>3. ASSUME n = K PROVE (n * blocksz) % M = 0
  <2>1. n * blocksz = 1 * M + 0
    BY <1>1, <1>3
  <2> QED
    BY <1>1, <2>1, Division
<1>4. ASSUME n = K + 1, K > 1 PROVE (n * blocksz) % M = blocksz
  <2>1. n * blocksz = 1 * M + blocksz
    BY <1>1, <1>4
  <2>2. 2 * blocksz <= K * blocksz
    BY <1>1, <1>4
  <2>3. blocksz \in 0 .. M - 1
    BY <1>1, <2>2
  <2> QED
    BY <1>1, <2>1, <2>3, Division
<1>5. ASSUME n = K + 1, K = 1 PROVE (n * blocksz) % M = 0
  <2>1. n * blocksz = 2 * M + 0
    BY <1>1, <1>5
  <2> QED
    BY <1>1, <2>1, Division
<1> QED
  BY <1>2, <1>3, <1>4, <1>5 DEF K, M

\* The number of blocks that covers a range.
LEMMA CoveringBlocks ==
  ASSUME NEW n \in Nat, NEW s \in Nat, s <= n * blocksz,
         n > 0 => (n - 1) * blocksz < s
  PROVE  n = (s + blocksz - 1) \div blocksz
<1> DEFINE r == s + blocksz - 1 - n * blocksz
<1>1. blocksz \in Nat \ {0}
  BY FilesAssumption
<1>2. CASE n = 0
  <2>1. s = 0
    BY <1>1, <1>2
  <2>2. s + blocksz - 1 = 0 * blocksz + (blocksz - 1) /\ blocksz - 1 \in 0 .. blocksz - 1
    BY <1>1, <2>1
  <2> QED
    BY <1>1, <1>2, <2>1, <2>2, Division
<1>3. CASE n > 0
  <2>1. (n - 1) * blocksz = n * blocksz - blocksz
    BY <1>1
  <2>2. n * blocksz \in Nat
    BY <1>1
  <2>3. r \in 0 .. blocksz - 1 /\ s + blocksz - 1 = n * blocksz + r
    BY <1>1, <1>3, <2>1, <2>2
  <2>4. s + blocksz - 1 \in Int
    BY <1>1
  <2> HIDE DEF r
  <2> QED
    BY <1>1, <2>3, <2>4, Division
<1> QED
  BY <1>2, <1>3

\* One more block.
LEMMA ReadBlock ==
  ASSUME TypeOK, ReadSoFar, ReadOn, Len(out) <= MaxBlocks,
         out' = Append(out, addr), addr' = (addr + blocksz) % Addresses,
         UNCHANGED <<base, nbytes>>
  PROVE  ReadSoFar'
<1> DEFINE n == Len(out)
<1>1. /\ n \in Nat /\ MaxBlocks \in Nat /\ blocksz \in Nat \ {0} /\ base \in Int
      /\ DOMAIN out = 1 .. n /\ out \in Seq(0 .. Addresses - 1) /\ addr \in 0 .. Addresses - 1
  BY BlocksFit, FilesAssumption DEF TypeOK
<1>2. Len(out') = n + 1 /\ DOMAIN out' = 1 .. n + 1 /\ out'[n + 1] = addr
      /\ \A i \in 1 .. n : out'[i] = out[i]
  BY <1>1
<1>3. addr = (base + n * blocksz) % Addresses
  BY DEF ReadSoFar
<1>4. addr' = (base + (n + 1) * blocksz) % Addresses
  <2>1. n * blocksz \in Int /\ (n + 1) * blocksz = n * blocksz + blocksz
    BY <1>1
  <2>2. base + n * blocksz \in Int
    BY <1>1, <2>1
  <2>3. (addr + blocksz) % Addresses = (base + n * blocksz + blocksz) % Addresses
    BY <1>1, <1>3, <2>2, WrapLater
  <2>4. base + n * blocksz + blocksz = base + (n + 1) * blocksz
    BY <1>1, <2>1
  <2> QED
    BY <2>3, <2>4
<1>5. n < MaxBlocks => n * blocksz < nbytes
  BY <1>1, Distance, FirstRound DEF ReadOn
<1>6. ASSUME NEW i \in 1 .. n + 1
      PROVE  /\ out'[i] = (base + (i - 1) * blocksz) % Addresses
             /\ i <= MaxBlocks => (i - 1) * blocksz < nbytes
  <2>1. CASE i \in 1 .. n
    BY <1>1, <1>2, <2>1 DEF ReadSoFar
  <2>2. CASE i = n + 1
    <3>1. i - 1 = n
      BY <1>1, <2>2
    <3> QED
      BY <1>1, <1>2, <1>3, <1>5, <2>2, <3>1
  <2> QED
    BY <1>1, <2>1, <2>2
<1>7. n + 1 <= MaxBlocks + 1
  BY <1>1
<1> HIDE DEF n
<1>8. addr' = (base' + Len(out') * blocksz) % Addresses
  BY <1>2, <1>4
<1>9. \A i \in DOMAIN out' :
        /\ out'[i] = (base' + (i - 1) * blocksz) % Addresses
        /\ i <= MaxBlocks => (i - 1) * blocksz < nbytes'
  BY <1>2, <1>6
<1> QED
  BY <1>2, <1>7, <1>8, <1>9 DEF ReadSoFar

\* The end of the loop: the blocks cover the range, and none is one too many.
LEMMA ReadDone ==
  ASSUME TypeOK, ReadSoFar, ~ ReadOn
  PROVE  Covered
<1> DEFINE n == Len(out)
<1>1. /\ n \in Nat /\ MaxBlocks \in Nat \ {0} /\ blocksz \in Nat \ {0}
      /\ DOMAIN out = 1 .. n /\ nbytes \in Nat /\ n <= MaxBlocks + 1
  BY BlocksFit, FilesAssumption DEF TypeOK, ReadSoFar
<1> DEFINE w == (n * blocksz) % Addresses
<1>2. w \in Nat /\ nbytes <= w
  <2>1. n * blocksz \in Int
    BY <1>1
  <2>2. w \in 0 .. Addresses - 1
    BY <2>1, Wrapped
  <2>3. w \in Nat
    BY <2>2, Sizes
  <2>4. ~ w < nbytes
    BY Distance DEF ReadOn
  <2> QED
    BY <1>1, <2>3, <2>4
<1>3. \A i \in 1 .. n : i <= MaxBlocks => (i - 1) * blocksz < nbytes
  BY <1>1 DEF ReadSoFar
<1>0. /\ n < MaxBlocks => w = n * blocksz
      /\ n = MaxBlocks => w = 0
      /\ n = MaxBlocks + 1 /\ MaxBlocks > 1 => w = blocksz
      /\ n = MaxBlocks + 1 /\ MaxBlocks = 1 => w = 0
  BY <1>1, FirstRound
<1> HIDE DEF n, w
<1>4. n < MaxBlocks
  <2>1. (MaxBlocks - 1) * blocksz \in Nat
    BY <1>1
  <2>2. MaxBlocks > 1 => (MaxBlocks - 1) * blocksz >= blocksz
    BY <1>1
  <2>3. n >= MaxBlocks => (MaxBlocks - 1) * blocksz < nbytes
    BY <1>1, <1>3
  <2> QED
    BY <1>0, <1>1, <1>2, <2>1, <2>2, <2>3
<1>5. nbytes <= n * blocksz
  BY <1>0, <1>2, <1>4
<1>6. n > 0 => (n - 1) * blocksz < nbytes
  BY <1>1, <1>3, <1>4
<1>7. n = (nbytes + blocksz - 1) \div blocksz
  BY <1>1, <1>5, <1>6, CoveringBlocks
<1>8. \A i \in DOMAIN out : out[i] = (base + (i - 1) * blocksz) % Addresses
  BY DEF ReadSoFar
<1> QED
  BY <1>7, <1>8 DEF Covered, n

\* do_read has nothing written when it begins.
LEMMA ReadInit == Init => ReadInv
BY InitType DEF Init, ReadInv

\* Every step of the program keeps what the loop relies on.
LEMMA ReadStep == ReadInv /\ [Next]_vars => ReadInv'
<1> SUFFICES ASSUME ReadInv, [Next]_vars PROVE ReadInv'
  OBVIOUS
<1>1. TypeOK /\ TypeOK'
  BY TypeStep DEF ReadInv
<1>2. CASE Image
  BY <1>1, <1>2 DEF Image, ReadInv
<1>3. CASE read_srec \/ read_hex
  <2>1. /\ pc \in {"srec", "hex"}
        /\ pc' \in {"srec", "hex", "program", "end"}
        /\ outcome' \in {outcome, "accepted", "failed", "astray"}
    BY <1>3 DEF read_srec, read_hex, HexRecord, HexData, Skip, Accept, Fail, Astray
  <2>2. outcome' # "read"
    BY <2>1 DEF ReadInv
  <2> QED
    BY <1>1, <2>1, <2>2 DEF ReadInv
<1>4. CASE ReadArguments
  <2>1. pc' = "read" /\ out' = <<>> /\ outcome' # "read" /\ addr' = base'
    BY <1>4 DEF ReadArguments, ReadInv
  <2>2. Len(out') = 0 /\ DOMAIN out' = {}
    BY <2>1
  <2>3. base' = base' + 0 * blocksz /\ base' % Addresses = base'
    <3>1. base' \in 0 .. Addresses - 1
      BY <1>1 DEF TypeOK
    <3> QED
      BY <3>1, InRange
  <2>4. (Len(out) <= MaxBlocks + 1)'
    BY <2>2, BlocksFit DEF MaxBlocks
  <2>5. ReadSoFar'
    BY <2>1, <2>2, <2>3, <2>4 DEF ReadSoFar
  <2> QED
    BY <1>1, <2>1, <2>5 DEF ReadInv
<1>5. CASE do_read
  <2>0. pc = "read" /\ ReadSoFar /\ outcome # "read" /\ UNCHANGED <<base, nbytes>>
    BY <1>5 DEF do_read, ReadInv
  <2>1. CASE ReadOn
    <3>1. /\ Len(out) <= MaxBlocks /\ out' = Append(out, addr)
          /\ addr' = (addr + blocksz) % Addresses /\ UNCHANGED <<pc, outcome>>
      BY <1>5, <2>1 DEF do_read
    <3>2. ReadSoFar'
      BY <1>1, <2>0, <2>1, <3>1, ReadBlock
    <3> QED
      BY <1>1, <2>0, <3>1, <3>2 DEF ReadInv
  <2>2. CASE ~ ReadOn
    <3>1. pc' = "end" /\ UNCHANGED <<out, base, nbytes>>
      BY <1>5, <2>0, <2>2 DEF do_read
    <3>2. Covered
      BY <1>1, <2>0, <2>2, ReadDone
    <3>3. Covered'
      BY <3>1, <3>2 DEF Covered
    <3> QED
      BY <1>1, <3>1, <3>3 DEF ReadInv
  <2> QED
    BY <2>1, <2>2
<1>6. CASE do_read_exit
  BY <1>1, <1>6 DEF do_read_exit, ReadInv
<1>7. CASE UNCHANGED vars
  BY <1>1, <1>7 DEF vars, readVars, ReadInv, ReadSoFar, Covered
<1> QED
  BY <1>2, <1>3, <1>4, <1>5, <1>6, <1>7 DEF Next

\* do_read writes the blocks that cover the range it is asked for, one after the
\* other and not one more, for every range and size of a block, also when the
\* range passes the last address.
THEOREM ReadRight == Spec => []ReadCovers
<1>1. ReadInv => ReadCovers
  BY DEF ReadInv, Covered, ReadCovers
<1> QED
  BY <1>1, ReadInit, ReadStep, PTL DEF Spec
=============================================================================
