----------------------------- MODULE Programmer -----------------------------
(***************************************************************************)
(* do_program and do_erase of pic32prog.c over target.c: which blocks of an *)
(* image are erased, programmed and verified, in which order, and what the  *)
(* chip holds in the end.                                                  *)
(*                                                                         *)
(* A block of flash or boot memory is one cell.  The four configuration     *)
(* words lie in one of the boot blocks and are cells of their own; the cell *)
(* of that block is the rest of it.  A cell of the image is blank or holds  *)
(* data; a cell of the chip may also hold what an earlier image left, or     *)
(* junk, which equals nothing: a cell written twice, or one the executive   *)
(* answered for but spoiled.  The sums of verify_data are taken for equal   *)
(* only when the blocks are.                                               *)
(***************************************************************************)
EXTENDS Naturals

CONSTANTS
    FlashBlocks,    \* flash_bytes / blocksz: blocks of the chip's flash
    ImageBlocks,    \* those an image may fill, FLASH_BYTES / blocksz
    BootBlocks,     \* boot_bytes / blocksz
    ConfigWords,    \* 4 in the code: configuration words
    Faults,         \* {} or {"spoiled"}: rows the executive answers for in vain
    MaxRuns         \* bound: times pic32prog is run in a behaviour

ASSUME LayoutAssumption ==
    /\ FlashBlocks \in Nat \ {0} /\ BootBlocks \in Nat \ {0}
    /\ ImageBlocks \in Nat /\ ImageBlocks >= FlashBlocks
    /\ ConfigWords \in Nat \ {0}
    /\ MaxRuns \in Nat /\ Faults \subseteq {"spoiled"}

VARIABLES
    devcfg_block,   \* devcfg_offset / blocksz
    quad,           \* TRUE for family mz: the configuration is one quad word
    pc,             \* where the program is
    addr,           \* the block, or the configuration word, its loop is at
    image,          \* flash_data and boot_data, the latter without devcfg
    flash_used, boot_used, verify_only, skip_verify,
    flash_dirty, boot_dirty,
    chip,           \* the memory of the target
    outcome,        \* of the last run, "none" while it runs
    runs

targetVars == <<devcfg_block, quad>>
fileVars == <<image, flash_used, boot_used, verify_only, skip_verify>>
dirtyVars == <<flash_dirty, boot_dirty>>
vars == <<targetVars, pc, addr, fileVars, dirtyVars, chip, outcome, runs>>

Flash == 0 .. FlashBlocks - 1
Boot == 0 .. BootBlocks - 1
Config == 0 .. ConfigWords - 1      \* devcfg0 to devcfg3

Memory(blocks, cell) ==
    [flash : [blocks -> cell], boot : [Boot -> cell], devcfg : [Config -> cell]]
Filled(blocks, v) == [flash |-> [b \in blocks |-> v],
                      boot |-> [b \in Boot |-> v],
                      devcfg |-> [w \in Config |-> v]]
Image == Memory(0 .. ImageBlocks - 1, {"ff", "data"})
Blank == Filled(Flash, "ff")

Init ==
    /\ devcfg_block \in Boot /\ quad \in BOOLEAN
    /\ pc = "off" /\ addr = 0
    /\ image = Filled(0 .. ImageBlocks - 1, "ff")
    /\ flash_used = FALSE /\ boot_used = FALSE
    /\ verify_only = FALSE /\ skip_verify = FALSE
    /\ flash_dirty = [b \in Flash |-> FALSE]
    /\ boot_dirty = [b \in Boot |-> FALSE]
    /\ chip = Filled(Flash, "old")
    /\ outcome = "erased" /\ runs = 0

-----------------------------------------------------------------------------
(* The image.                                                              *)

\* read_srec or read_hex, by store_data: a part of memory is used once a byte
\* of it was stored, be it 0xff.
Stored(mem, flash, boot) ==
    /\ (\E b \in DOMAIN mem.flash : mem.flash[b] # "ff") => flash
    /\ (\E b \in Boot : mem.boot[b] # "ff") => boot
    /\ (\E w \in Config : mem.devcfg[w] # "ff") => boot

\* pic32prog is started on a file, and opens the target.
Start ==
    /\ pc = "off" /\ runs < MaxRuns
    /\ image' \in Image
    /\ flash_used' \in BOOLEAN /\ boot_used' \in BOOLEAN
    /\ Stored(image', flash_used', boot_used')
    /\ verify_only' \in BOOLEAN /\ skip_verify' \in BOOLEAN
    /\ flash_dirty' = [b \in Flash |-> FALSE]
    /\ boot_dirty' = [b \in Boot |-> FALSE]
    /\ pc' = "check" /\ addr' = 0 /\ outcome' = "none" /\ runs' = runs + 1
    /\ UNCHANGED <<targetVars, chip>>

\* The program ends, by return or by exit.
Ends(how) == pc' = "off" /\ addr' = 0 /\ outcome' = how

Goto(label) == pc' = label /\ addr' = 0 /\ UNCHANGED outcome

\* Mutant of Check: bit 31 of DEVSIGN0 is left alone.
CheckUnsigned ==
    /\ pc = "check"
    /\ IF boot_used /\ image.devcfg[0] = "ff"
       THEN Ends("failed") ELSE Goto(IF verify_only THEN "load" ELSE "erase")
    /\ UNCHANGED <<targetVars, fileVars, dirtyVars, chip, runs>>

\* An image of the boot memory must hold devcfg0.  Family mz has a bit cleared
\* in the words after the configuration.
Check ==
    /\ pc = "check"
    /\ IF boot_used /\ image.devcfg[0] = "ff"
       THEN Ends("failed") /\ UNCHANGED image
       ELSE /\ Goto(IF verify_only THEN "load" ELSE "erase")
            /\ image' = IF boot_used /\ quad
                        THEN [image EXCEPT !.boot[devcfg_block] = "data"]
                        ELSE image
    /\ UNCHANGED <<targetVars, flash_used, boot_used, verify_only, skip_verify, dirtyVars,
                   chip, runs>>

-----------------------------------------------------------------------------
(* Erasing and programming.                                                *)

\* do_erase: the chip is opened, erased and closed.
EraseOnly ==
    /\ pc = "off" /\ runs < MaxRuns
    /\ chip' = Blank /\ outcome' = "erased" /\ runs' = runs + 1
    /\ UNCHANGED <<targetVars, pc, addr, fileVars, dirtyVars>>

\* Mutant of Erase: the chip is only opened.
EraseSkipped ==
    /\ pc = "erase" /\ Goto("load")
    /\ UNCHANGED <<targetVars, fileVars, dirtyVars, chip, runs>>

Erase ==
    /\ pc = "erase"
    /\ Goto("load")
    /\ chip' = Blank
    /\ UNCHANGED <<targetVars, fileVars, dirtyVars, runs>>

\* Mutant of LoadExecutive: the boot memory is programmed first.
LoadBootFirst ==
    /\ pc = "load"
    /\ flash_dirty' = [b \in Flash |-> flash_used /\ image.flash[b] # "ff"]
    /\ boot_dirty' = [b \in Boot |-> boot_used /\ image.boot[b] # "ff"]
    /\ Goto(IF verify_only THEN "verify flash" ELSE "boot")
    /\ UNCHANGED <<targetVars, fileVars, chip, runs>>

\* The executive is loaded and the dirty bits are computed: those of flash and
\* boot blocks, for the latter without the configuration words.
LoadExecutive ==
    /\ pc = "load"
    /\ flash_dirty' = [b \in Flash |-> flash_used /\ image.flash[b] # "ff"]
    /\ boot_dirty' = [b \in Boot |-> boot_used /\ image.boot[b] # "ff"]
    /\ Goto(IF verify_only THEN "verify flash" ELSE "flash")
    /\ UNCHANGED <<targetVars, fileVars, chip, runs>>

\* What programming a value leaves in a cell: a second time, junk.
Over(old, new) == IF new = "ff" THEN old ELSE IF old = "ff" THEN new ELSE "junk"

\* What the chip may hold after a block or a word is programmed, well or, if
\* spoils is TRUE, not.  One block of the boot memory has the configuration in it.
Left(value, spoils) == {value} \cup (IF spoils THEN {"junk"} ELSE {})
FlashWrites(b, spoils) ==
    {[chip EXCEPT !.flash[b] = v] :
        v \in Left(Over(chip.flash[b], image.flash[b]), spoils)}
BootWrites(b, spoils) ==
    LET row == [w \in Config |-> IF b = devcfg_block
                                 THEN Over(chip.devcfg[w], image.devcfg[w])
                                 ELSE chip.devcfg[w]]
    IN  {[chip EXCEPT !.boot[b] = v, !.devcfg = row] :
            v \in Left(Over(chip.boot[b], image.boot[b]), spoils)}
WordWrites(w, spoils) ==
    {[chip EXCEPT !.devcfg[w] = v] :
        v \in Left(Over(chip.devcfg[w], image.devcfg[w]), spoils)}
Spoils == "spoiled" \in Faults

\* Mutants of Onward: the loop goes one block too far; it does not go on.
OnwardPast(last, label) ==
    IF addr = last + 1 THEN Goto(label)
    ELSE addr' = addr + 1 /\ UNCHANGED <<pc, outcome>>
OnwardStuck(last, label) ==
    IF addr = last THEN Goto(label) ELSE UNCHANGED <<addr, pc, outcome>>

\* On to the next block, or to another loop after the last.
Onward(last, label) ==
    IF addr = last THEN Goto(label)
    ELSE addr' = addr + 1 /\ UNCHANGED <<pc, outcome>>

ProgramFlash ==
    /\ pc = "flash"
    /\ IF flash_dirty[addr] THEN chip' \in FlashWrites(addr, Spoils)
                            ELSE UNCHANGED chip
    /\ Onward(FlashBlocks - 1, "boot")
    /\ UNCHANGED <<targetVars, fileVars, dirtyVars, runs>>

ProgramBoot ==
    /\ pc = "boot"
    /\ IF boot_dirty[addr] THEN chip' \in BootWrites(addr, Spoils)
                           ELSE UNCHANGED chip
    /\ Onward(BootBlocks - 1, "devcfg")
    /\ UNCHANGED <<targetVars, fileVars, dirtyVars, runs>>

\* The configuration is programmed by words, the last first, unless its block
\* was programmed; family mz would call program_quad_word, a null pointer in
\* this adapter, which ends the process.
DevcfgDue == boot_used /\ ~ boot_dirty[devcfg_block]

NoDevcfg ==
    /\ pc = "devcfg" /\ addr = 0 /\ ~ DevcfgDue
    /\ Goto("verify flash")
    /\ UNCHANGED <<targetVars, fileVars, dirtyVars, chip, runs>>

ProgramDevcfg ==
    /\ pc = "devcfg" /\ DevcfgDue
    /\ IF quad
       THEN Ends("failed") /\ UNCHANGED <<chip, boot_dirty>>
       ELSE /\ chip' \in WordWrites(ConfigWords - 1 - addr, Spoils)
            /\ Onward(ConfigWords - 1, "verify flash")
            /\ boot_dirty' = IF addr = ConfigWords - 1
                             THEN [boot_dirty EXCEPT ![devcfg_block] = TRUE]
                             ELSE boot_dirty
    /\ UNCHANGED <<targetVars, fileVars, flash_dirty, runs>>

-----------------------------------------------------------------------------
(* Verifying.                                                              *)

FlashEqual(b) == chip.flash[b] = image.flash[b]
BootEqual(b) ==
    /\ chip.boot[b] = image.boot[b]
    /\ b = devcfg_block => chip.devcfg = image.devcfg

\* Mutant of VerifyFlash: what it finds is not acted on.
VerifyFlashMute ==
    /\ pc = "verify flash"
    /\ IF skip_verify THEN Ends("ok") ELSE Onward(FlashBlocks - 1, "verify boot")
    /\ UNCHANGED <<targetVars, fileVars, dirtyVars, chip, runs>>

VerifyFlash ==
    /\ pc = "verify flash"
    /\ IF skip_verify THEN Ends("ok")
       ELSE IF flash_dirty[addr] /\ ~ FlashEqual(addr) THEN Ends("failed")
       ELSE Onward(FlashBlocks - 1, "verify boot")
    /\ UNCHANGED <<targetVars, fileVars, dirtyVars, chip, runs>>

VerifyBoot ==
    /\ pc = "verify boot"
    /\ IF boot_dirty[addr] /\ ~ BootEqual(addr) THEN Ends("failed")
       ELSE IF addr = BootBlocks - 1 THEN Ends("ok")
       ELSE addr' = addr + 1 /\ UNCHANGED <<pc, outcome>>
    /\ UNCHANGED <<targetVars, fileVars, dirtyVars, chip, runs>>

\* The target refuses an operation, or the program is killed, wherever it is;
\* a block may have been programmed all the same.
Break ==
    /\ pc # "off"
    /\ Ends("failed")
    /\ chip' \in {chip} \cup
          CASE pc = "erase" -> {Blank}
            [] pc = "flash" /\ flash_dirty[addr] -> FlashWrites(addr, TRUE)
            [] pc = "boot" /\ boot_dirty[addr] -> BootWrites(addr, TRUE)
            [] pc = "devcfg" /\ DevcfgDue -> WordWrites(ConfigWords - 1 - addr, TRUE)
            [] OTHER -> {}
    /\ UNCHANGED <<targetVars, fileVars, dirtyVars, runs>>

Running ==
    \/ Check \/ Erase \/ LoadExecutive \/ ProgramFlash \/ ProgramBoot
    \/ NoDevcfg \/ ProgramDevcfg \/ VerifyFlash \/ VerifyBoot
Next == Start \/ EraseOnly \/ Running \/ Break

\* A started program goes on until it ends.
Spec == Init /\ [][Next]_vars /\ WF_vars(Running)

-----------------------------------------------------------------------------
Cell == {"ff", "data", "old", "junk"}

TypeOK ==
    /\ pc \in {"off", "check", "erase", "load", "flash", "boot", "devcfg",
               "verify flash", "verify boot"}
    /\ addr \in Nat
    /\ pc \in {"flash", "verify flash"} => addr \in Flash
    /\ pc \in {"boot", "verify boot"} => addr \in Boot
    /\ pc = "devcfg" => addr \in Config
    /\ image \in Image
    /\ {flash_used, boot_used, verify_only, skip_verify} \subseteq BOOLEAN
    /\ flash_dirty \in [Flash -> BOOLEAN] /\ boot_dirty \in [Boot -> BOOLEAN]
    /\ chip \in Memory(Flash, Cell)
    /\ outcome \in {"ok", "failed", "erased", "none"}
    /\ runs \in 0 .. MaxRuns

\* The part of the image the chip has room for.
Wanted == [image EXCEPT !.flash = [b \in Flash |-> image.flash[b]]]

\* What a run that reports success has left: with verification, the image in
\* the whole chip, blank where it is blank, whatever earlier runs left there and
\* whatever the executive spoiled; without, unless something was spoiled.
Programmed ==
    outcome = "ok" /\ ~ verify_only /\ (skip_verify => ~ Spoils) => chip = Wanted

\* A run that only verifies, and reports success, has found every block of the
\* image that is not blank.
Verified ==
    outcome = "ok" /\ verify_only /\ ~ skip_verify =>
        /\ \A b \in Flash : image.flash[b] # "ff" => chip.flash[b] = image.flash[b]
        /\ \A b \in Boot : image.boot[b] # "ff" => chip.boot[b] = image.boot[b]

\* What is still to be programmed is blank, however the runs before ended: no
\* block is programmed without an erase, or twice.
AheadBlank ==
    /\ pc = "flash" => \A b \in Flash : b >= addr => chip.flash[b] = "ff"
    /\ pc \in {"flash", "boot"} =>
          \A b \in Boot : (pc = "boot" => b >= addr) => chip.boot[b] = "ff"
    /\ pc = "flash" \/ (pc = "boot" /\ addr <= devcfg_block) =>
          chip.devcfg = Blank.devcfg
    /\ pc = "devcfg" /\ DevcfgDue =>
          \A w \in Config : w + addr < ConfigWords => chip.devcfg[w] = "ff"

\* The configuration, which may protect the code, is programmed when every block
\* of the flash and every boot block before its own is.
ConfigLast ==
    [][chip'.devcfg \notin {chip.devcfg, Blank.devcfg} =>
          /\ \A b \in Flash : flash_dirty[b] => chip'.flash[b] # "ff"
          /\ \A b \in Boot : boot_dirty[b] /\ b < devcfg_block =>
                chip'.boot[b] # "ff"]_vars

\* The function the adapter leaves null is never called: for family mz the block
\* of the configuration always counts as dirty.
NoQuadWord == ~ (pc = "devcfg" /\ DevcfgDue /\ quad)

\* "-v  Verify only": a successful run has verified the configuration too.
VerifiedConfig ==
    outcome = "ok" /\ verify_only /\ ~ skip_verify /\ boot_used =>
        chip.devcfg = image.devcfg

\* Every run ends.
RunEnds == pc # "off" ~> pc = "off"
=============================================================================
