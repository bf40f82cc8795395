------------------------------- MODULE Files --------------------------------
(***************************************************************************)
(* The files of pic32prog.c: an image that is read as S records, and as     *)
(* Intel HEX when its first line that is not empty is none, and the memory  *)
(* that do_read writes to a file.                                           *)
(*                                                                         *)
(* A file is a sequence of lines, chosen line by line as it is read.  A     *)
(* line is what one fgets delivers, as the record that HEX makes of its     *)
(* characters; one longer than buf comes as two, the first of them cut off. *)
(* A byte has Byte values and 0xff, the value of erased memory, is the last *)
(* of them; an address has two bytes in a HEX record and as many above it.  *)
(*                                                                         *)
(* What the readers do not look at has its outcome here too:                *)
(*   - An S record may announce more than its line holds.  read_srec then   *)
(*     takes what it finds behind the line, in buf or past it: any bytes,   *)
(*     and any address when the line ends within that.                      *)
(*   - A HEX record may hold more bytes than data of read_hex has room for. *)
(*     They are written all the same.  Where buf lies behind data they hit  *)
(*     characters that have been read already, and the record comes out     *)
(*     whole; where anything else does, the process goes astray, and what   *)
(*     it does from then on is not followed.                                *)
(***************************************************************************)
EXTENDS Integers, Sequences, FiniteSets

CONSTANTS
    Byte,           \* 256 in the code
    Align,          \* 4: a HEX record starts at a multiple of it
    FLASHV_BASE, BOOTV_BASE, FLASHP_BASE, BOOTP_BASE,
    FLASH_BYTES, BOOT_BYTES,
    MaxSrec,        \* 252: the most bytes an S record announces
    MaxHex,         \* 122: the most bytes of a HEX record in a line of buf
    Room,           \* 16: the bytes that data of read_hex has room for
    SrecAddresses,  \* bound: addresses of the S records
    HexAddresses,   \* bound: addresses of the HEX records, the upper half apart
    MaxLines,       \* bound: lines of a file
    blocksz         \* 1024: what do_read reads at a time

Half == Byte * Byte                 \* 2^16
Addresses == Half * Half            \* 2^32
ff == Byte - 1

ASSUME FilesAssumption ==
    /\ Byte \in Nat \ {0, 1} /\ Align \in Nat \ {0} /\ MaxLines \in Nat
    /\ blocksz \in Nat \ {0} /\ Addresses % blocksz = 0
    /\ FLASH_BYTES \in Nat /\ BOOT_BYTES \in Nat
    /\ {FLASHV_BASE, BOOTV_BASE, FLASHP_BASE, BOOTP_BASE} \subseteq 0 .. Addresses - 1
    /\ MaxSrec \in Nat /\ MaxHex \in Nat /\ Room \in Nat
    /\ SrecAddresses \subseteq 0 .. Addresses - 1 /\ HexAddresses \subseteq 0 .. Half - 1

VARIABLES
    pc,
    file,           \* the lines read so far
    next,           \* the line the reader is at
    high,           \* read_hex: upper half of the addresses
    flash_data, boot_data, flash_used, boot_used, total_bytes,
    base, nbytes,   \* arguments of do_read
    addr, out,      \* its loop, and the blocks it has written to the file
    outcome

memory == <<flash_data, boot_data, flash_used, boot_used, total_bytes>>
fileVars == <<file, next, high>>
readVars == <<base, nbytes, addr, out>>
vars == <<pc, fileVars, memory, readVars, outcome>>

Blank == [kind |-> "blank"]
Other == [kind |-> "other"]
\* An S record, of which the line lacks the last bytes.  One whose count is no
\* number has bad digits.
Srecord(type, address, data, lacks) ==
    [kind |-> "S", type |-> type, addr |-> address, data |-> data, lacks |-> lacks,
     flaw |-> "none"]
\* A HEX record.  It may have bad digits in front of its data, a line that is
\* too short for its bytes, or a wrong sum.
Hexrecord(type, low, data) ==
    [kind |-> ":", type |-> type, low |-> low, data |-> data, flaw |-> "none"]
Flawed(record, flaw) == [record EXCEPT !.flaw = flaw]

Data(size) == UNION {[1 .. n -> 0 .. ff] : n \in 0 .. size}
\* The addresses a record of type 1, 2 or 3 has the digits for.
Reach(type) == CASE type = 1 -> Half [] type = 2 -> Half * Byte [] type = 3 -> Addresses
\* A line that lacks all the data may have been cut off within the address.
SrecData ==
    {Srecord(t, a, d, n) :
        t \in 1 .. 3, a \in SrecAddresses, d \in Data(MaxSrec), n \in 0 .. MaxSrec}
SrecLine ==
    {l \in SrecData : /\ l.lacks <= Len(l.data)
                      /\ l.addr < Reach(l.type) \/ l.lacks = Len(l.data)}
        \cup {Srecord(t, 0, <<>>, 0) : t \in {0, 5, 7}}
        \cup {Flawed(Srecord(t, 0, <<0>>, 0), "digits") : t \in {3, 7}}
HexLine ==
    {Hexrecord(0, a, d) : a \in HexAddresses, d \in Data(MaxHex)}
        \cup {Hexrecord(4, 0, <<u, v>>) : u, v \in 0 .. ff}
        \cup {Hexrecord(t, 0, <<>>) : t \in {1, 2, 4, 5}}
        \cup {Flawed(Hexrecord(t, 0, <<0>>), f) :
                t \in {0, 1, 5}, f \in {"digits", "short", "sum"}}
        \cup {Flawed(Hexrecord(t, 0, [k \in 1 .. MaxHex |-> 0]), "sum") : t \in {0, 4}}
Line == {Blank, Other} \cup SrecLine \cup HexLine

\* The line the reader fetches, or the end of the file, which is for good.
NoLine == [kind |-> "eof"]
Fetches == IF next <= Len(file) THEN {file[next]}
           ELSE {NoLine} \cup (IF Len(file) < MaxLines THEN Line ELSE {})

TypeOK ==
    /\ pc \in {"main", "srec", "hex", "program", "read", "end"}
    /\ file \in Seq(Line \cup {NoLine})
    /\ next \in Nat \ {0}
    /\ high \in 0 .. Half - 1
    /\ flash_data \in [0 .. FLASH_BYTES - 1 -> 0 .. ff]
    /\ boot_data \in [0 .. BOOT_BYTES - 1 -> 0 .. ff]
    /\ flash_used \in BOOLEAN /\ boot_used \in BOOLEAN
    /\ total_bytes \in Nat
    /\ base \in 0 .. Addresses - 1 /\ nbytes \in 0 .. Addresses - 1
    /\ addr \in 0 .. Addresses - 1
    /\ out \in Seq(0 .. Addresses - 1)
    /\ outcome \in {"none", "accepted", "failed", "astray", "read"}

\* memset of main.
Init ==
    /\ pc = "main"
    /\ file = <<>> /\ next = 1 /\ high = 0
    /\ flash_data = [o \in 0 .. FLASH_BYTES - 1 |-> ff]
    /\ boot_data = [o \in 0 .. BOOT_BYTES - 1 |-> ff]
    /\ flash_used = FALSE /\ boot_used = FALSE /\ total_bytes = 0
    /\ base = 0 /\ nbytes = 0 /\ addr = 0 /\ out = <<>>
    /\ outcome = "none"

-----------------------------------------------------------------------------
(* store_data. *)

\* Mutant of Window: the byte after the window belongs to it.
WindowClosed(address, start, size) == address >= start /\ address <= start + size

Window(address, start, size) == address >= start /\ address < start + size

\* Where a byte goes: the memory and the offset, or nowhere.
Place(address) ==
    CASE Window(address, BOOTV_BASE, BOOT_BYTES) -> [mem |-> "boot", offset |-> address - BOOTV_BASE]
      [] Window(address, BOOTP_BASE, BOOT_BYTES) -> [mem |-> "boot", offset |-> address - BOOTP_BASE]
      [] Window(address, FLASHV_BASE, FLASH_BYTES) -> [mem |-> "flash", offset |-> address - FLASHV_BASE]
      [] Window(address, FLASHP_BASE, FLASH_BYTES) -> [mem |-> "flash", offset |-> address - FLASHP_BASE]
      [] OTHER -> [mem |-> "none", offset |-> 0]

\* The bytes of a record, stored one after the other: the last one for an
\* offset stays.
Put(m, name, address, data) ==
    LET to(k) == Place((address + k - 1) % Addresses)
        placed == {k \in DOMAIN data : to(k).mem = name}
    IN [o \in DOMAIN m \cup {to(k).offset : k \in placed} |->
            LET here == {k \in placed : to(k).offset = o}
            IN IF here = {} THEN m[o]
               ELSE data[CHOOSE k \in here : \A j \in here : j <= k]]

store_data(address, data) ==
    LET placed(name) == {k \in DOMAIN data : Place((address + k - 1) % Addresses).mem = name}
    IN /\ flash_data' = Put(flash_data, "flash", address, data)
       /\ boot_data' = Put(boot_data, "boot", address, data)
       /\ flash_used' = (flash_used \/ placed("flash") # {})
       /\ boot_used' = (boot_used \/ placed("boot") # {})
       /\ total_bytes' = total_bytes + Cardinality(placed("flash") \cup placed("boot"))

-----------------------------------------------------------------------------
(* Reading an image. *)

\* A line that changes nothing but the reader's place.
Skip == UNCHANGED <<pc, high, memory, outcome>>
Fail == pc' = "end" /\ outcome' = "failed" /\ UNCHANGED <<high, memory>>
Accept == pc' = "program" /\ outcome' = "accepted" /\ UNCHANGED <<high, memory>>
Keep(line) == file' = IF next <= Len(file) THEN file ELSE Append(file, line)

Image ==
    /\ pc = "main"
    /\ pc' = "srec"
    /\ UNCHANGED <<fileVars, memory, readVars, outcome>>

\* A line of read_srec.  Any line of another kind makes it give up, and
\* read_hex starts the file again; what was stored stays.
read_srec ==
    /\ pc = "srec"
    /\ \E line \in Fetches :
        /\ Keep(line)
        /\ \/ line.kind = "eof" /\ Accept /\ UNCHANGED next
           \/ line.kind = "blank" /\ Skip /\ next' = next + 1
           \/ /\ line.kind \in {"other", ":"}
              /\ pc' = "hex" /\ next' = 1 /\ high' = 0
              /\ UNCHANGED <<memory, outcome>>
           \/ /\ line.kind = "S" /\ next' = next + 1
              /\ IF line.type \in 7..9 THEN Accept
                 ELSE IF line.flaw # "none" THEN Fail
                 ELSE IF line.type \in 1..3
                      THEN store_data(line.addr, line.data)
                           /\ UNCHANGED <<pc, high, outcome>>
                 ELSE Skip
    /\ UNCHANGED readVars

\* A HEX record whose bytes are in data, and more of them behind it.
HexData(line, address) ==
    IF line.flaw = "sum" THEN Fail
    ELSE IF line.type = 4 /\ Len(line.data) = 2
         THEN /\ high' = line.data[1] * Byte + line.data[2]
              /\ UNCHANGED <<pc, memory, outcome>>
    ELSE IF line.type = 0
         THEN store_data(address, line.data) /\ UNCHANGED <<pc, high, outcome>>
    ELSE Fail

\* The bytes behind data were not those of buf.
Astray == pc' = "end" /\ outcome' = "astray" /\ UNCHANGED <<high, memory>>

\* A line of read_hex that begins with a colon.  Nothing compares the number of
\* its bytes with the room in data.
HexRecord(line) ==
    LET address == high * Half + line.low
    IN IF line.flaw = "digits" THEN Fail
       ELSE IF line.type = 1 THEN Accept
       ELSE IF line.type = 5 THEN Skip
       ELSE IF line.flaw = "short" \/ address % Align # 0 THEN Fail
       ELSE HexData(line, address) \/ (Len(line.data) > Room /\ Astray)

\* Mutant of read_hex: a line it does not know is passed over.
read_hex_lenient ==
    /\ pc = "hex"
    /\ \E line \in Fetches :
        /\ Keep(line)
        /\ next' = IF line.kind = "eof" THEN next ELSE next + 1
        /\ \/ line.kind = "eof" /\ Accept
           \/ line.kind \in {"blank", "other", "S"} /\ Skip
           \/ line.kind = ":" /\ HexRecord(line)
    /\ UNCHANGED readVars

read_hex ==
    /\ pc = "hex"
    /\ \E line \in Fetches :
        /\ Keep(line)
        /\ next' = IF line.kind = "eof" THEN next ELSE next + 1
        /\ \/ line.kind = "eof" /\ Accept
           \/ line.kind = "blank" /\ Skip
           \/ line.kind \in {"other", "S"} /\ Fail
           \/ line.kind = ":" /\ HexRecord(line)
    /\ UNCHANGED readVars

-----------------------------------------------------------------------------
(* do_read. *)

ReadArguments ==
    /\ pc = "main"
    /\ base' \in 0 .. Addresses - 1 /\ nbytes' \in 0 .. Addresses - 1
    /\ addr' = base'
    /\ pc' = "read"
    /\ UNCHANGED <<fileVars, memory, out, outcome>>

Less(a, b) == (a - b) % Addresses

\* Mutant of ReadOn: the address is compared with the end of the range.
ReadOnEnd == addr < (base + nbytes) % Addresses

\* Mutant of ReadOn: one block more when the range is a multiple of it.
ReadOnLast == Less(addr, base) <= nbytes

\* The condition of the loop, in unsigned arithmetic.
ReadOn == Less(addr, base) < nbytes

\* Reads that the loop makes when it goes on for ever are not followed beyond
\* one round of the addresses.
MaxBlocks == Addresses \div blocksz

do_read ==
    /\ pc = "read"
    /\ IF ReadOn
       THEN /\ Len(out) <= MaxBlocks
            /\ out' = Append(out, addr)
            /\ addr' = (addr + blocksz) % Addresses
            /\ UNCHANGED <<pc, outcome>>
       ELSE /\ pc' = "end" /\ outcome' = "read"
            /\ UNCHANGED <<addr, out>>
    /\ UNCHANGED <<fileVars, memory, base, nbytes>>

\* The target cannot be opened, or a block not read or written.
do_read_exit ==
    /\ pc = "read"
    /\ pc' = "end" /\ outcome' = "failed"
    /\ UNCHANGED <<fileVars, memory, readVars>>

Next ==
    \/ Image \/ read_srec \/ read_hex
    \/ ReadArguments \/ do_read \/ do_read_exit
Spec == Init /\ [][Next]_vars /\ WF_vars(do_read)
-----------------------------------------------------------------------------
(* What the lines of a file f mean, whatever reads them. *)

\* Lines that count: those before an end record.
Ends(line) == \/ line.kind = "S" /\ line.type \in 7..9
              \/ line.kind = ":" /\ line.type = 1 /\ line.flaw # "digits"
Live(f) == {i \in DOMAIN f : \A j \in 1 .. i - 1 : ~Ends(f[j])}
Formats(f) == {f[i].kind : i \in Live(f)} \ {"blank", "eof"}

\* The upper half of the address of a HEX record: the last one given before.
Upper(f, i) ==
    LET given == {j \in 1 .. i - 1 : f[j].kind = ":" /\ f[j].type = 4}
    IN IF given = {} THEN 0
       ELSE LET d == f[CHOOSE j \in given : \A h \in given : h <= j].data
            IN d[1] * Byte + d[2]
From(f, i) == IF f[i].kind = "S" THEN f[i].addr ELSE Upper(f, i) * Half + f[i].low
Holds(line) == \/ line.kind = "S" /\ line.type \in 1..3
               \/ line.kind = ":" /\ line.type = 0

\* Whether line i announces byte k for a place; the bytes announced for it, by
\* line and position, and the last of them.
MaxData == IF MaxSrec > MaxHex THEN MaxSrec ELSE MaxHex
Gives(f, i, k, name, o) ==
    /\ Holds(f[i]) /\ k \in DOMAIN f[i].data
    /\ Place((From(f, i) + k - 1) % Addresses) = [mem |-> name, offset |-> o]
Bytes(f, name, o) == {p \in Live(f) \X (1 .. MaxData) : Gives(f, p[1], p[2], name, o)}
LastByte(f, name, o) ==
    LET all == Bytes(f, name, o)
    IN CHOOSE p \in all : \A q \in all : q[1] < p[1] \/ (q[1] = p[1] /\ q[2] <= p[2])

\* The line ends before the last byte that is announced for a place.
Lacks(line, k) == line.kind = "S" /\ k > Len(line.data) - line.lacks
Missing(f, name, o) ==
    /\ Bytes(f, name, o) # {}
    /\ LET last == LastByte(f, name, o) IN Lacks(f[last[1]], last[2])
\* What the file has for a place where it is not missing.
Value(f, name, o) ==
    LET last == LastByte(f, name, o)
    IN IF Bytes(f, name, o) = {} THEN ff ELSE f[last[1]].data[last[2]]

\* An image that is accepted is of one format.  Every byte of flash and boot
\* memory holds the last value its file has for it, and 0xff where no record is
\* for it, unless the line of the last S record for it ends before the byte:
\* whether read_srec or read_hex read it, whatever read_srec had stored before
\* it gave up, and with HEX records of any length, as long as those too long for
\* data of read_hex have run on into buf.
ImageIsMeaning ==
    outcome = "accepted" =>
        /\ Formats(file) \in {{}, {"S"}, {":"}}
        /\ \A o \in DOMAIN flash_data :
              Missing(file, "flash", o) \/ flash_data[o] = Value(file, "flash", o)
        /\ \A o \in DOMAIN boot_data :
              Missing(file, "boot", o) \/ boot_data[o] = Value(file, "boot", o)
        /\ flash_used = (\E o \in DOMAIN flash_data : Bytes(file, "flash", o) # {})
        /\ boot_used = (\E o \in DOMAIN boot_data : Bytes(file, "boot", o) # {})

\* do_read writes the blocks of the range it is asked for, one after the
\* other, also for a range that passes the last address, and not one more.  The
\* last one is written whole, so the file may be longer than the range.
ReadCovers ==
    outcome = "read" =>
        /\ Len(out) = (nbytes + blocksz - 1) \div blocksz
        /\ \A i \in DOMAIN out : out[i] = (base + (i - 1) * blocksz) % Addresses

\* The loop ends for every range that leaves room for a block behind it.
ReadEnds ==
    (pc = "read" /\ nbytes <= Addresses - blocksz) ~> pc = "end"
=============================================================================
