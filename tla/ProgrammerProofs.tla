-------------------------- MODULE ProgrammerProofs --------------------------
(***************************************************************************)
(* Theorems about Programmer, for every layout of the memory, every image   *)
(* and any number of runs, whether or not the executive spoils what it      *)
(* programs.                                                               *)
(***************************************************************************)
EXTENDS Programmer, TLAPS

Types == TypeOK /\ devcfg_block \in Boot /\ quad \in BOOLEAN

-----------------------------------------------------------------------------
(* The inductive invariant.                                                *)

Verifying == pc \in {"verify flash", "verify boot"}
Loaded == pc \in {"flash", "boot", "devcfg"} \/ Verifying

\* How a run goes.
InvRun ==
    /\ outcome = "none" <=> pc # "off"
    /\ pc \in {"erase", "flash", "boot", "devcfg"} => ~ verify_only
    /\ pc = "verify boot" => ~ skip_verify

\* What is known of the image: a part of it that is not used is blank, and for
\* family mz the block of the configuration is not.
InvImage ==
    /\ Stored(image, flash_used, boot_used)
    /\ pc \notin {"off", "check"} /\ boot_used /\ quad =>
          image.boot[devcfg_block] = "data"

\* The dirty bits name what is not blank; in the end also the configuration.
InvDirty ==
    Loaded =>
      /\ \A b \in Flash : flash_dirty[b] <=> image.flash[b] # "ff"
      /\ \A b \in Boot : image.boot[b] # "ff" => boot_dirty[b]
      /\ \A b \in Boot : boot_dirty[b] =>
            image.boot[b] # "ff" \/ (b = devcfg_block /\ Verifying)
      /\ Verifying /\ ~ verify_only /\ boot_used => boot_dirty[devcfg_block]

\* Which cells the programming loops have passed.
FlashDone(b) == pc # "flash" \/ b < addr
BootDone(b) == pc \notin {"flash", "boot"} \/ (pc = "boot" /\ b < addr)
ConfigDone(w) ==
    \/ Verifying
    \/ pc = "devcfg" /\ (boot_dirty[devcfg_block] \/ w + addr >= ConfigWords)
    \/ pc = "boot" /\ boot_dirty[devcfg_block] /\ devcfg_block < addr

\* A cell they have passed holds its value or junk, or is left blank; any other
\* is blank, as the erase left it.
Held(value, done) ==
    IF done /\ value # "ff" THEN Left(value, Spoils) ELSE {"ff"}
HeldConfig(value, done) ==
    IF done THEN Left(value, Spoils /\ boot_used) ELSE {"ff"}

InvErased == pc = "load" /\ ~ verify_only => chip = Blank
InvFlash ==
    Loaded /\ ~ verify_only =>
        \A b \in Flash : chip.flash[b] \in Held(image.flash[b], FlashDone(b))
InvBoot ==
    Loaded /\ ~ verify_only =>
        \A b \in Boot : chip.boot[b] \in Held(image.boot[b], BootDone(b))
InvConfig ==
    Loaded /\ ~ verify_only =>
        \A w \in Config :
            chip.devcfg[w] \in HeldConfig(image.devcfg[w], ConfigDone(w))

\* What the verifying loops have passed is equal.
InvVerify ==
    /\ Verifying => \A b \in Flash :
          flash_dirty[b] /\ (pc = "verify boot" \/ b < addr) => FlashEqual(b)
    /\ pc = "verify boot" => \A b \in Boot :
          boot_dirty[b] /\ b < addr => BootEqual(b)

IInv ==
    /\ Types /\ InvRun /\ InvImage /\ InvDirty /\ InvErased
    /\ InvFlash /\ InvBoot /\ InvConfig /\ InvVerify /\ Programmed /\ Verified

-----------------------------------------------------------------------------
(* What the operators of the model do.                                     *)

\* Programming leaves cells.
LEMMA LeftCells ==
  ASSUME NEW old \in Cell, NEW new \in {"ff", "data"}, NEW spoils
  PROVE  Left(Over(old, new), spoils) \subseteq Cell
BY DEF Left, Over, Cell

\* The image has every block of the flash.
LEMMA FlashInImage == Flash \subseteq 0 .. ImageBlocks - 1
BY LayoutAssumption DEF Flash

\* The parts of the image and of the chip.
LEMMA Parts ==
  ASSUME Types
  PROVE  /\ chip.flash \in [Flash -> Cell] /\ chip.boot \in [Boot -> Cell]
         /\ chip.devcfg \in [Config -> Cell]
         /\ \A b \in Flash : image.flash[b] \in {"ff", "data"}
         /\ \A b \in Boot : image.boot[b] \in {"ff", "data"}
         /\ \A w \in Config : image.devcfg[w] \in {"ff", "data"}
BY FlashInImage DEF Types, TypeOK, Memory, Image

\* Programming a block of the flash disturbs that block alone.
LEMMA FlashWriteEffect ==
  ASSUME Types, NEW b \in Flash, NEW spoils, chip' \in FlashWrites(b, spoils)
  PROVE  /\ chip' \in Memory(Flash, Cell)
         /\ chip'.boot = chip.boot /\ chip'.devcfg = chip.devcfg
         /\ chip'.flash[b] \in Left(Over(chip.flash[b], image.flash[b]), spoils)
         /\ \A x \in Flash \ {b} : chip'.flash[x] = chip.flash[x]
<1>1. chip.flash \in [Flash -> Cell] /\ image.flash[b] \in {"ff", "data"}
      /\ chip \in [flash : [Flash -> Cell], boot : [Boot -> Cell],
                   devcfg : [Config -> Cell]]
  BY Parts DEF Types, TypeOK, Memory
<1>2. PICK v \in Left(Over(chip.flash[b], image.flash[b]), spoils) :
         chip' = [chip EXCEPT !.flash[b] = v]
  BY DEF FlashWrites
<1>3. v \in Cell
  BY <1>1, <1>2, LeftCells
<1> QED BY <1>1, <1>2, <1>3 DEF Memory

\* Programming a block of the boot memory disturbs that block and, if it is its
\* own, the configuration.
LEMMA BootWriteEffect ==
  ASSUME Types, NEW b \in Boot, NEW spoils, chip' \in BootWrites(b, spoils)
  PROVE  /\ chip' \in Memory(Flash, Cell)
         /\ chip'.flash = chip.flash
         /\ chip'.boot[b] \in Left(Over(chip.boot[b], image.boot[b]), spoils)
         /\ \A x \in Boot \ {b} : chip'.boot[x] = chip.boot[x]
         /\ b # devcfg_block => chip'.devcfg = chip.devcfg
         /\ b = devcfg_block => \A w \in Config :
               chip'.devcfg[w] = Over(chip.devcfg[w], image.devcfg[w])
<1> DEFINE row == [w \in Config |-> IF b = devcfg_block
                                    THEN Over(chip.devcfg[w], image.devcfg[w])
                                    ELSE chip.devcfg[w]]
<1>1. /\ chip \in [flash : [Flash -> Cell], boot : [Boot -> Cell],
                   devcfg : [Config -> Cell]]
      /\ image.boot[b] \in {"ff", "data"}
      /\ image.devcfg \in [Config -> {"ff", "data"}]
  BY DEF Types, TypeOK, Memory, Image
<1>2. PICK v \in Left(Over(chip.boot[b], image.boot[b]), spoils) :
         chip' = [chip EXCEPT !.boot[b] = v, !.devcfg = row]
  BY DEF BootWrites
<1>3. v \in Cell
  BY <1>1, <1>2, LeftCells
<1>4. row \in [Config -> Cell]
  BY <1>1 DEF Over, Cell
<1>5. b # devcfg_block => row = chip.devcfg
  BY <1>1
<1>6. b = devcfg_block => \A w \in Config :
         row[w] = Over(chip.devcfg[w], image.devcfg[w])
  OBVIOUS
<1> HIDE DEF row
<1>7. chip'.devcfg = row /\ chip'.flash = chip.flash
      /\ chip'.boot = [chip.boot EXCEPT ![b] = v]
  BY <1>1, <1>2
<1>8. chip' = [flash |-> chip.flash, boot |-> [chip.boot EXCEPT ![b] = v],
               devcfg |-> row]
  BY <1>1, <1>2
<1>9. chip' \in Memory(Flash, Cell)
  BY <1>1, <1>3, <1>4, <1>8 DEF Memory
<1> QED BY <1>1, <1>2, <1>5, <1>6, <1>7, <1>9

\* Programming a word of the configuration disturbs that word alone.
LEMMA WordWriteEffect ==
  ASSUME Types, NEW w \in Config, NEW spoils, chip' \in WordWrites(w, spoils)
  PROVE  /\ chip' \in Memory(Flash, Cell)
         /\ chip'.flash = chip.flash /\ chip'.boot = chip.boot
         /\ chip'.devcfg[w] \in Left(Over(chip.devcfg[w], image.devcfg[w]), spoils)
         /\ \A x \in Config \ {w} : chip'.devcfg[x] = chip.devcfg[x]
<1>1. image.devcfg[w] \in {"ff", "data"} /\ chip.devcfg[w] \in Cell
      /\ chip \in [flash : [Flash -> Cell], boot : [Boot -> Cell],
                   devcfg : [Config -> Cell]]
  BY DEF Types, TypeOK, Memory, Image
<1>2. PICK v \in Left(Over(chip.devcfg[w], image.devcfg[w]), spoils) :
         chip' = [chip EXCEPT !.devcfg[w] = v]
  BY DEF WordWrites
<1>3. v \in Cell
  BY <1>1, <1>2, LeftCells
<1> QED BY <1>1, <1>2, <1>3 DEF Memory

\* An erased chip is blank.
LEMMA BlankCells ==
  /\ Blank \in Memory(Flash, Cell)
  /\ \A b \in Flash : Blank.flash[b] = "ff"
  /\ \A b \in Boot : Blank.boot[b] = "ff"
  /\ \A w \in Config : Blank.devcfg[w] = "ff"
BY DEF Blank, Filled, Memory, Cell

\* A chip that equals the image in every cell is the image.
LEMMA WantedCells ==
  ASSUME Types,
         \A b \in Flash : FlashEqual(b),
         \A b \in Boot : chip.boot[b] = image.boot[b],
         \A w \in Config : chip.devcfg[w] = image.devcfg[w]
  PROVE  chip = Wanted
<1>1. chip \in [flash : [Flash -> Cell], boot : [Boot -> Cell],
                devcfg : [Config -> Cell]]
      /\ image \in [flash : [0 .. ImageBlocks - 1 -> {"ff", "data"}],
                    boot : [Boot -> {"ff", "data"}],
                    devcfg : [Config -> {"ff", "data"}]]
  BY DEF Types, TypeOK, Memory, Image
<1>2. chip.boot = image.boot
  BY <1>1
<1>3. chip.devcfg = image.devcfg
  BY <1>1
<1>4. chip.flash = [b \in Flash |-> image.flash[b]]
  BY <1>1 DEF FlashEqual
<1>5. Wanted = [flash |-> chip.flash, boot |-> chip.boot, devcfg |-> chip.devcfg]
  BY <1>1, <1>2, <1>3, <1>4 DEF Wanted
<1> QED BY <1>1, <1>5

-----------------------------------------------------------------------------
(* Types.                                                                  *)

\* The loops have a first block or word, and stay within their bounds.
LEMMA FirstBlocks == 0 \in Flash /\ 0 \in Boot /\ 0 \in Config
BY LayoutAssumption DEF Flash, Boot, Config

LEMMA NextBlocks ==
  ASSUME addr \in Nat
  PROVE  /\ addr \in Flash /\ addr # FlashBlocks - 1 => addr + 1 \in Flash
         /\ addr \in Boot /\ addr # BootBlocks - 1 => addr + 1 \in Boot
         /\ addr \in Config /\ addr # ConfigWords - 1 => addr + 1 \in Config
BY LayoutAssumption DEF Flash, Boot, Config

LEMMA BlockNumbers == Flash \subseteq Nat /\ Boot \subseteq Nat /\ Config \subseteq Nat
BY LayoutAssumption DEF Flash, Boot, Config

LEMMA BlockBounds ==
  /\ \A b \in Flash : ~ (b < 0) /\ (b < FlashBlocks - 1 \/ b = FlashBlocks - 1)
  /\ \A b \in Boot : ~ (b < 0) /\ (b < BootBlocks - 1 \/ b = BootBlocks - 1)
  /\ \A w \in Config : w + 0 < ConfigWords /\ ~ (w + 0 >= ConfigWords)
BY LayoutAssumption DEF Flash, Boot, Config

\* A block is passed when the loop goes on from it, and no other is.
LEMMA Passing ==
  ASSUME NEW b \in Nat, NEW a \in Nat
  PROVE  (b < a + 1) <=> (b < a \/ b = a)
OBVIOUS

\* The loop over the configuration words goes down.
LEMMA WordsDown == \A w \in Config : ConfigWords - 1 - w \in Config
BY LayoutAssumption DEF Config

LEMMA TypesInit == Init => Types
<1> SUFFICES ASSUME Init PROVE Types
  OBVIOUS
<1>1. image \in Image /\ chip \in Memory(Flash, Cell)
  BY DEF Init, Filled, Image, Memory, Cell
<1>2. flash_used = FALSE /\ boot_used = FALSE /\ verify_only = FALSE
      /\ skip_verify = FALSE
  BY DEF Init
<1>3. {flash_used, boot_used, verify_only, skip_verify} \subseteq BOOLEAN
  BY ONLY <1>2
<1>4. flash_dirty \in [Flash -> BOOLEAN] /\ boot_dirty \in [Boot -> BOOLEAN]
  BY DEF Init
<1>5. runs \in 0 .. MaxRuns
  BY LayoutAssumption DEF Init
<1> QED BY <1>1, <1>3, <1>4, <1>5 DEF Init, Types, TypeOK

\* What a step may have done to the chip leaves it a memory.
LEMMA BreakEffect ==
  ASSUME Types, Break
  PROVE  chip' \in Memory(Flash, Cell)
<1>1. chip \in Memory(Flash, Cell)
  BY DEF Types, TypeOK
<1>2. \/ chip' = chip
      \/ chip' = Blank
      \/ pc = "flash" /\ chip' \in FlashWrites(addr, TRUE)
      \/ pc = "boot" /\ chip' \in BootWrites(addr, TRUE)
      \/ pc = "devcfg" /\ chip' \in WordWrites(ConfigWords - 1 - addr, TRUE)
  BY DEF Break
<1>3. pc = "devcfg" => ConfigWords - 1 - addr \in Config
  BY WordsDown DEF Types, TypeOK
<1>4. (pc = "flash" => addr \in Flash) /\ (pc = "boot" => addr \in Boot)
  BY DEF Types, TypeOK
<1> QED BY <1>1, <1>2, <1>3, <1>4, BlankCells, FlashWriteEffect, BootWriteEffect,
           WordWriteEffect

LEMMA TypesStep == Types /\ [Next]_vars => Types'
<1> SUFFICES ASSUME Types, [Next]_vars PROVE Types'
  OBVIOUS
<1> USE DEF targetVars, fileVars, dirtyVars
<1>1. CASE Start
  <2>1. {flash_used', boot_used', verify_only', skip_verify'} \subseteq BOOLEAN
    BY <1>1 DEF Start
  <2>2. flash_dirty' \in [Flash -> BOOLEAN] /\ boot_dirty' \in [Boot -> BOOLEAN]
    BY <1>1 DEF Start
  <2>3. runs' \in 0 .. MaxRuns
    BY <1>1, LayoutAssumption DEF Start, Types, TypeOK
  <2>4. chip' = chip /\ devcfg_block' = devcfg_block /\ quad' = quad
    BY <1>1 DEF Start
  <2> QED BY <1>1, <2>1, <2>2, <2>3, <2>4 DEF Start, Types, TypeOK
<1>2. CASE EraseOnly
  <2>1. runs' \in 0 .. MaxRuns
    BY <1>2, LayoutAssumption DEF EraseOnly, Types, TypeOK
  <2> QED BY <1>2, <2>1, BlankCells DEF EraseOnly, Types, TypeOK
<1>3. CASE Check
  <2>1. image' \in Image
    BY <1>3 DEF Check, Types, TypeOK, Image, Memory
  <2>2. UNCHANGED <<targetVars, flash_used, boot_used, verify_only, skip_verify,
                    dirtyVars, chip, runs>>
    BY <1>3 DEF Check
  <2>3. /\ pc' \in {"off", "load", "erase"} /\ addr' = 0
        /\ outcome' \in {"failed", outcome}
    BY <1>3 DEF Check, Ends, Goto
  <2> QED BY <2>1, <2>2, <2>3 DEF Types, TypeOK
<1>4. CASE Erase
  BY <1>4, BlankCells DEF Erase, Goto, Types, TypeOK
<1>5. CASE LoadExecutive
  <2>1. flash_dirty' \in [Flash -> BOOLEAN] /\ boot_dirty' \in [Boot -> BOOLEAN]
    BY <1>5, Zenon DEF LoadExecutive
  <2> QED BY <1>5, <2>1, FirstBlocks DEF LoadExecutive, Goto, Types, TypeOK
<1>6. CASE ProgramFlash
  <2>1. chip' \in Memory(Flash, Cell)
    BY <1>6, FlashWriteEffect DEF ProgramFlash, Types, TypeOK
  <2>2. outcome' = outcome /\ (\/ pc' = "boot" /\ addr' = 0
                               \/ pc' = "flash" /\ addr' \in Flash)
    BY <1>6, NextBlocks DEF ProgramFlash, Onward, Goto, Types, TypeOK
  <2>3. UNCHANGED <<targetVars, fileVars, dirtyVars, runs>>
    BY <1>6 DEF ProgramFlash
  <2>4. addr' \in Nat
    BY <2>2, BlockNumbers, FirstBlocks
  <2> QED BY <2>1, <2>2, <2>3, <2>4, FirstBlocks DEF Types, TypeOK
<1>7. CASE ProgramBoot
  <2>1. chip' \in Memory(Flash, Cell)
    BY <1>7, BootWriteEffect DEF ProgramBoot, Types, TypeOK
  <2>2. outcome' = outcome /\ (\/ pc' = "devcfg" /\ addr' = 0
                               \/ pc' = "boot" /\ addr' \in Boot)
    BY <1>7, NextBlocks DEF ProgramBoot, Onward, Goto, Types, TypeOK
  <2>3. UNCHANGED <<targetVars, fileVars, dirtyVars, runs>>
    BY <1>7 DEF ProgramBoot
  <2>4. addr' \in Nat
    BY <2>2, BlockNumbers, FirstBlocks
  <2> QED BY <2>1, <2>2, <2>3, <2>4, FirstBlocks DEF Types, TypeOK
<1>8. CASE NoDevcfg
  BY <1>8, FirstBlocks DEF NoDevcfg, Goto, Types, TypeOK
<1>9. CASE ProgramDevcfg
  <2>1. ConfigWords - 1 - addr \in Config
    BY <1>9, WordsDown DEF ProgramDevcfg, Types, TypeOK
  <2>2. chip' \in Memory(Flash, Cell)
    <3>1. chip' = chip \/ chip' \in WordWrites(ConfigWords - 1 - addr, Spoils)
      BY <1>9 DEF ProgramDevcfg
    <3> QED BY <2>1, <3>1, WordWriteEffect DEF Types, TypeOK
  <2>3. boot_dirty' \in [Boot -> BOOLEAN]
    BY <1>9 DEF ProgramDevcfg, Types, TypeOK
  <2>4. /\ outcome' \in {"failed", outcome}
        /\ \/ pc' \in {"off", "verify flash"} /\ addr' = 0
           \/ pc' = "devcfg" /\ addr' \in Config
    BY <1>9, NextBlocks DEF ProgramDevcfg, Ends, Onward, Goto, Types, TypeOK
  <2>5. UNCHANGED <<targetVars, fileVars, flash_dirty, runs>>
    BY <1>9 DEF ProgramDevcfg
  <2>6. addr' \in Nat
    BY <2>4, BlockNumbers, FirstBlocks
  <2> QED BY <2>2, <2>3, <2>4, <2>5, <2>6, FirstBlocks DEF Types, TypeOK
<1>10. CASE VerifyFlash
  <2>1. /\ outcome' \in {"ok", "failed", outcome}
        /\ \/ pc' \in {"off", "verify boot"} /\ addr' = 0
           \/ pc' = "verify flash" /\ addr' \in Flash
    BY <1>10, NextBlocks DEF VerifyFlash, Ends, Onward, Goto, Types, TypeOK
  <2>2. UNCHANGED <<targetVars, fileVars, dirtyVars, chip, runs>>
    BY <1>10 DEF VerifyFlash
  <2>3. addr' \in Nat
    BY <2>1, BlockNumbers, FirstBlocks
  <2> QED BY <2>1, <2>2, <2>3, FirstBlocks DEF Types, TypeOK
<1>11. CASE VerifyBoot
  <2>1. /\ outcome' \in {"ok", "failed", outcome}
        /\ \/ pc' = "off" /\ addr' = 0
           \/ pc' = "verify boot" /\ addr' \in Boot
    BY <1>11, NextBlocks DEF VerifyBoot, Ends, Types, TypeOK
  <2>2. UNCHANGED <<targetVars, fileVars, dirtyVars, chip, runs>>
    BY <1>11 DEF VerifyBoot
  <2>3. addr' \in Nat
    BY <2>1, BlockNumbers, FirstBlocks
  <2> QED BY <2>1, <2>2, <2>3 DEF Types, TypeOK
<1>12. CASE Break
  BY <1>12, BreakEffect DEF Break, Ends, Types, TypeOK
<1>13. CASE UNCHANGED vars
  BY <1>13 DEF vars, Types, TypeOK
<1> QED BY <1>1, <1>2, <1>3, <1>4, <1>5, <1>6, <1>7, <1>8, <1>9, <1>10, <1>11,
           <1>12, <1>13 DEF Next, Running

-----------------------------------------------------------------------------
(* The invariant is inductive.                                             *)

\* Outside the loops, most of the invariant says nothing.
LEMMA Outside ==
  ASSUME pc' \in {"off", "check", "erase", "load"}, outcome' # "ok"
  PROVE  /\ InvDirty' /\ InvFlash' /\ InvBoot' /\ InvConfig' /\ InvVerify'
         /\ Programmed' /\ Verified'
BY DEF InvDirty, InvFlash, InvBoot, InvConfig, InvVerify, Programmed, Verified,
   Loaded, Verifying

LEMMA IInvInit == Init => IInv
<1> SUFFICES ASSUME Init PROVE IInv
  OBVIOUS
<1>1. pc = "off" /\ outcome = "erased"
  BY DEF Init
<1>2. InvImage
  BY DEF Init, InvImage, Stored, Filled
<1>3. InvRun /\ InvDirty /\ InvErased /\ InvFlash /\ InvBoot /\ InvConfig /\ InvVerify
      /\ Programmed /\ Verified
  BY <1>1 DEF InvRun, InvDirty, InvErased, InvFlash, InvBoot, InvConfig, InvVerify,
     Programmed, Verified, Loaded, Verifying
<1> QED BY <1>2, <1>3, TypesInit DEF IInv

\* Every action keeps it: one lemma for each.
LEMMA StartKeeps == ASSUME IInv, Types', Start PROVE IInv'
<1>1. pc' = "check" /\ outcome' = "none"
  BY DEF Start
<1>2. InvImage'
  BY <1>1 DEF Start, InvImage, Stored
<1>3. InvRun' /\ InvErased'
  BY <1>1 DEF InvRun, InvErased
<1> QED BY <1>1, <1>2, <1>3, Outside DEF IInv

LEMMA EraseOnlyKeeps == ASSUME IInv, Types', EraseOnly PROVE IInv'
<1>1. pc' = "off" /\ outcome' = "erased"
  BY DEF EraseOnly
<1>2. InvImage'
  BY <1>1 DEF EraseOnly, fileVars, targetVars, IInv, InvImage, Stored
<1>3. InvRun' /\ InvErased'
  BY <1>1 DEF InvRun, InvErased
<1> QED BY <1>1, <1>2, <1>3, Outside DEF IInv

LEMMA BreakKeeps == ASSUME IInv, Types', Break PROVE IInv'
<1>1. pc' = "off" /\ outcome' = "failed"
  BY DEF Break, Ends
<1>2. InvImage'
  BY <1>1 DEF Break, fileVars, targetVars, IInv, InvImage, Stored
<1>3. InvRun' /\ InvErased'
  BY <1>1 DEF InvRun, InvErased
<1> QED BY <1>1, <1>2, <1>3, Outside DEF IInv

LEMMA CheckKeeps == ASSUME IInv, Types', Check PROVE IInv'
<1>1. /\ pc' \in {"off", "load", "erase"} /\ outcome' # "ok"
      /\ pc' = "off" => outcome' = "failed"
      /\ pc' # "off" => outcome' = "none"
      /\ pc' = "load" => verify_only
      /\ pc' = "erase" => ~ verify_only
  BY DEF Check, Ends, Goto, IInv, InvRun
<1>2. UNCHANGED <<targetVars, flash_used, boot_used, verify_only, skip_verify, chip>>
  BY DEF Check
<1>3. InvImage'
  <2>1. CASE image' = image /\ (pc' # "off" => ~ (boot_used /\ quad))
    BY <1>2, <2>1 DEF IInv, InvImage, Stored, targetVars
  <2>2. CASE boot_used /\ image' = [image EXCEPT !.boot[devcfg_block] = "data"]
    <3>1. image \in [flash : [0 .. ImageBlocks - 1 -> {"ff", "data"}],
                     boot : [Boot -> {"ff", "data"}],
                     devcfg : [Config -> {"ff", "data"}]]
          /\ devcfg_block \in Boot
      BY DEF IInv, Types, TypeOK, Image, Memory
    <3>2. image'.flash = image.flash /\ image'.devcfg = image.devcfg
          /\ image'.boot[devcfg_block] = "data"
      BY <2>2, <3>1
    <3> QED BY <1>2, <2>2, <3>2 DEF IInv, InvImage, Stored, targetVars
  <2> QED BY <2>1, <2>2 DEF Check, Ends, Goto
<1>4. InvRun' /\ InvErased'
  BY <1>1, <1>2 DEF InvRun, InvErased
<1> QED BY <1>1, <1>3, <1>4, Outside DEF IInv

LEMMA EraseKeeps == ASSUME IInv, Types', Erase PROVE IInv'
<1>1. pc' = "load" /\ outcome' = "none" /\ chip' = Blank
  BY DEF Erase, Goto, IInv, InvRun
<1>2. InvImage'
  BY <1>1 DEF Erase, fileVars, targetVars, IInv, InvImage, Stored
<1>3. InvRun' /\ InvErased'
  BY <1>1, BlankCells DEF InvRun, InvErased, Blank, Filled
<1> QED BY <1>1, <1>2, <1>3, Outside DEF IInv

\* The image does not change in the loops.
LEMMA ImageKept ==
  ASSUME IInv, pc \notin {"off", "check"}, UNCHANGED <<targetVars, fileVars>>
  PROVE  InvImage'
BY DEF targetVars, fileVars, IInv, InvImage, Stored

\* From here on the loops: what they have passed grows by one.
LEMMA LoadExecutiveKeeps == ASSUME IInv, Types', LoadExecutive PROVE IInv'
<1>1. /\ pc = "load" /\ addr' = 0 /\ outcome' = "none"
      /\ pc' = (IF verify_only THEN "verify flash" ELSE "flash")
  BY DEF LoadExecutive, Goto, IInv, InvRun
<1>2. UNCHANGED <<targetVars, fileVars, chip>>
  BY DEF LoadExecutive
<1>3. InvImage' /\ InvRun'
  BY <1>1, <1>2, ImageKept DEF InvRun, fileVars
<1>4. InvDirty'
  <2>1. \A b \in Flash : flash_dirty'[b] = (flash_used /\ image.flash[b] # "ff")
    BY DEF LoadExecutive
  <2>2. \A b \in Boot : boot_dirty'[b] = (boot_used /\ image.boot[b] # "ff")
    BY DEF LoadExecutive
  <2>3. \A b \in Flash : image.flash[b] # "ff" => flash_used
    BY FlashInImage DEF IInv, InvImage, Stored, Types, TypeOK, Image, Memory
  <2>4. \A b \in Boot : image.boot[b] # "ff" => boot_used
    BY DEF IInv, InvImage, Stored
  <2> QED BY <1>1, <1>2, <2>1, <2>2, <2>3, <2>4
          DEF InvDirty, Loaded, Verifying, fileVars, targetVars
<1>5. InvErased' /\ InvVerify' /\ Programmed' /\ Verified'
  BY <1>1, BlockBounds DEF InvErased, InvVerify, Verifying, Programmed, Verified
<1>6. CASE verify_only
  BY <1>2, <1>3, <1>4, <1>5, <1>6
     DEF IInv, InvFlash, InvBoot, InvConfig, fileVars
<1>7. CASE ~ verify_only
  <2>1. chip' = Blank /\ pc' = "flash"
    BY <1>1, <1>2, <1>7 DEF IInv, InvErased
  <2>2. InvFlash'
    BY <1>1, <2>1, BlankCells DEF InvFlash, Held, FlashDone, Flash
  <2>3. InvBoot' /\ InvConfig'
    BY <1>1, <2>1, BlankCells
       DEF InvBoot, InvConfig, Held, HeldConfig, BootDone, ConfigDone, Verifying
  <2> QED BY <1>3, <1>4, <1>5, <2>2, <2>3 DEF IInv
<1> QED BY <1>6, <1>7

LEMMA ProgramFlashKeeps == ASSUME IInv, Types', ProgramFlash PROVE IInv'
<1>1. /\ pc = "flash" /\ addr \in Flash /\ outcome' = "none" /\ ~ verify_only
      /\ \/ pc' = "boot" /\ addr' = 0 /\ addr = FlashBlocks - 1
         \/ pc' = "flash" /\ addr' = addr + 1
  BY DEF ProgramFlash, Onward, Goto, IInv, InvRun, Types, TypeOK
<1>2. UNCHANGED <<targetVars, fileVars, dirtyVars>>
  BY DEF ProgramFlash
<1>3. InvImage' /\ InvRun' /\ InvDirty' /\ InvErased' /\ InvVerify' /\ Programmed'
      /\ Verified'
  BY <1>1, <1>2, ImageKept
     DEF IInv, InvRun, InvDirty, InvErased, InvVerify, Programmed, Verified, Loaded,
         Verifying, fileVars, targetVars, dirtyVars
<1>4. /\ chip'.boot = chip.boot /\ chip'.devcfg = chip.devcfg
      /\ \A b \in Flash \ {addr} : chip'.flash[b] = chip.flash[b]
      /\ chip'.flash[addr] \in Held(image.flash[addr], TRUE)
  <2>1. chip.flash[addr] = "ff"
    BY <1>1, BlockNumbers DEF IInv, InvFlash, Loaded, Held, FlashDone, Flash
  <2>2. CASE flash_dirty[addr] /\ chip' \in FlashWrites(addr, Spoils)
    <3>1. image.flash[addr] # "ff"
      BY <1>1, <2>2 DEF IInv, InvDirty, Loaded
    <3> QED BY <1>1, <2>1, <2>2, <3>1, FlashWriteEffect DEF IInv, Held, Over
  <2>3. CASE ~ flash_dirty[addr] /\ chip' = chip
    <3>1. image.flash[addr] = "ff"
      BY <1>1, <2>3 DEF IInv, InvDirty, Loaded
    <3> QED BY <2>1, <2>3, <3>1 DEF Held
  <2> QED BY <2>2, <2>3 DEF ProgramFlash
<1>5. InvFlash'
  <2> SUFFICES ASSUME NEW b \in Flash
               PROVE  chip'.flash[b] \in Held(image.flash[b], FlashDone(b)')
    BY <1>2 DEF InvFlash, Held, fileVars
  <2>1. CASE b = addr
    <3>1. FlashDone(b)'
      BY <1>1, <2>1, BlockNumbers, Passing DEF FlashDone
    <3> QED BY <1>4, <2>1, <3>1 DEF Held
  <2>2. CASE b # addr
    <3>1. FlashDone(b)' <=> FlashDone(b)
      BY <1>1, <2>2, BlockNumbers, LayoutAssumption DEF FlashDone, Flash
    <3> QED BY <1>1, <1>4, <2>2, <3>1 DEF IInv, InvFlash, Loaded, Held
  <2> QED BY <2>1, <2>2
<1>6. InvBoot'
  <2>1. \A b \in Boot : ~ BootDone(b) /\ ~ BootDone(b)'
    BY <1>1, BlockBounds DEF BootDone
  <2> QED BY <1>1, <1>2, <1>4, <2>1 DEF IInv, InvBoot, Loaded, Held, fileVars
<1>7. InvConfig'
  <2>1. \A w \in Config : ~ ConfigDone(w) /\ ~ ConfigDone(w)'
    BY <1>1, <1>2, BlockBounds DEF ConfigDone, Verifying, IInv, Types, targetVars
  <2> QED BY <1>1, <1>2, <1>4, <2>1 DEF IInv, InvConfig, Loaded, HeldConfig, fileVars
<1> QED BY <1>3, <1>5, <1>6, <1>7 DEF IInv

LEMMA ProgramBootKeeps == ASSUME IInv, Types', ProgramBoot PROVE IInv'
<1>1. /\ pc = "boot" /\ addr \in Boot /\ outcome' = "none" /\ ~ verify_only
      /\ \/ pc' = "devcfg" /\ addr' = 0 /\ addr = BootBlocks - 1
         \/ pc' = "boot" /\ addr' = addr + 1
  BY DEF ProgramBoot, Onward, Goto, IInv, InvRun, Types, TypeOK
<1>2. UNCHANGED <<targetVars, fileVars, dirtyVars>> /\ devcfg_block \in Boot
  BY DEF ProgramBoot, IInv, Types
<1>3. InvImage' /\ InvRun' /\ InvDirty' /\ InvErased' /\ InvVerify' /\ Programmed'
      /\ Verified'
  BY <1>1, <1>2, ImageKept
     DEF IInv, InvRun, InvDirty, InvErased, InvVerify, Programmed, Verified, Loaded,
         Verifying, fileVars, targetVars, dirtyVars
<1>4. /\ chip'.flash = chip.flash
      /\ \A b \in Boot \ {addr} : chip'.boot[b] = chip.boot[b]
      /\ chip'.boot[addr] \in Held(image.boot[addr], TRUE)
  <2>1. chip.boot[addr] = "ff"
    BY <1>1, BlockNumbers DEF IInv, InvBoot, Loaded, Held, BootDone, Boot
  <2>2. CASE boot_dirty[addr] /\ chip' \in BootWrites(addr, Spoils)
    <3>1. image.boot[addr] # "ff"
      BY <1>1, <2>2 DEF IInv, InvDirty, Loaded, Verifying
    <3> QED BY <1>1, <2>1, <2>2, <3>1, BootWriteEffect DEF IInv, Held, Over
  <2>3. CASE ~ boot_dirty[addr] /\ chip' = chip
    <3>1. image.boot[addr] = "ff"
      BY <1>1, <2>3 DEF IInv, InvDirty, Loaded
    <3> QED BY <2>1, <2>3, <3>1 DEF Held
  <2> QED BY <2>2, <2>3 DEF ProgramBoot
<1>5. InvFlash'
  <2>1. \A b \in Flash : FlashDone(b) /\ FlashDone(b)'
    BY <1>1 DEF FlashDone
  <2> QED BY <1>1, <1>2, <1>4, <2>1 DEF IInv, InvFlash, Loaded, Held, fileVars
<1>6. InvBoot'
  <2> SUFFICES ASSUME NEW b \in Boot
               PROVE  chip'.boot[b] \in Held(image.boot[b], BootDone(b)')
    BY <1>2 DEF InvBoot, Held, fileVars
  <2>1. CASE b = addr
    <3>1. BootDone(b)'
      BY <1>1, <2>1, BlockNumbers, Passing DEF BootDone
    <3> QED BY <1>4, <2>1, <3>1 DEF Held
  <2>2. CASE b # addr
    <3>1. BootDone(b)' <=> BootDone(b)
      BY <1>1, <2>2, BlockNumbers, BlockBounds, Passing DEF BootDone
    <3> QED BY <1>1, <1>4, <2>2, <3>1 DEF IInv, InvBoot, Loaded, Held
  <2> QED BY <2>1, <2>2
<1>7. InvConfig'
  <2> SUFFICES ASSUME NEW w \in Config
               PROVE  chip'.devcfg[w] \in HeldConfig(image.devcfg[w], ConfigDone(w)')
    BY <1>2 DEF InvConfig, HeldConfig, fileVars
  <2>1. chip.devcfg[w] \in HeldConfig(image.devcfg[w], ConfigDone(w))
    BY <1>1 DEF IInv, InvConfig, Loaded
  <2>2. CASE addr = devcfg_block /\ boot_dirty[addr]
    <3>1. ConfigDone(w)'
      BY <1>1, <1>2, <2>2, BlockNumbers, Passing DEF ConfigDone, targetVars, dirtyVars
    <3>2. ~ ConfigDone(w)
      BY <1>1, <2>2, BlockNumbers, Passing DEF ConfigDone, Verifying
    <3>3. chip.devcfg[w] = "ff"
      BY <2>1, <3>2 DEF HeldConfig
    <3>4. chip' \in BootWrites(addr, Spoils)
      BY <2>2 DEF ProgramBoot
    <3>5. chip'.devcfg[w] = image.devcfg[w]
      BY <1>1, <2>2, <3>3, <3>4, BootWriteEffect DEF IInv, Over
    <3> QED BY <3>1, <3>5 DEF HeldConfig, Left
  <2>3. CASE ~ (addr = devcfg_block /\ boot_dirty[addr])
    <3>1. chip'.devcfg = chip.devcfg
      BY <1>1, <2>3, BootWriteEffect DEF ProgramBoot, IInv
    <3>2. ConfigDone(w)' <=> ConfigDone(w)
      <4>1. CASE pc' = "boot"
        BY <1>1, <1>2, <2>3, <4>1, BlockNumbers, Passing
           DEF ConfigDone, Verifying, targetVars, dirtyVars
      <4>2. CASE pc' = "devcfg"
        BY <1>1, <1>2, <2>3, <4>2, BlockBounds
           DEF ConfigDone, Verifying, targetVars, dirtyVars
      <4> QED BY <1>1, <4>1, <4>2
    <3> QED BY <2>1, <3>1, <3>2 DEF HeldConfig
  <2> QED BY <2>2, <2>3
<1> QED BY <1>3, <1>5, <1>6, <1>7 DEF IInv

LEMMA NoDevcfgKeeps == ASSUME IInv, Types', NoDevcfg PROVE IInv'
<1>1. /\ pc = "devcfg" /\ pc' = "verify flash" /\ addr = 0 /\ addr' = 0
      /\ outcome' = "none" /\ ~ verify_only
      /\ ~ boot_used \/ boot_dirty[devcfg_block]
  BY DEF NoDevcfg, DevcfgDue, Goto, IInv, InvRun
<1>2. UNCHANGED <<targetVars, fileVars, dirtyVars, chip>>
  BY DEF NoDevcfg
<1>3. InvImage' /\ InvRun' /\ InvErased' /\ Programmed' /\ Verified'
  BY <1>1, <1>2, ImageKept DEF InvRun, InvErased, Programmed, Verified, fileVars
<1>4. InvDirty'
  BY <1>1, <1>2
     DEF IInv, InvDirty, Loaded, Verifying, targetVars, fileVars, dirtyVars
<1>5. InvVerify'
  BY <1>1, BlockBounds DEF InvVerify, Verifying
<1>6. InvFlash' /\ InvBoot'
  BY <1>1, <1>2
     DEF IInv, InvFlash, InvBoot, Loaded, Verifying, Held, FlashDone, BootDone, fileVars
<1>7. InvConfig'
  <2> SUFFICES ASSUME NEW w \in Config
               PROVE  chip.devcfg[w] \in HeldConfig(image.devcfg[w], TRUE)
    BY <1>1, <1>2 DEF InvConfig, HeldConfig, ConfigDone, Verifying, fileVars
  <2>1. chip.devcfg[w] \in HeldConfig(image.devcfg[w], ConfigDone(w))
    BY <1>1 DEF IInv, InvConfig, Loaded
  <2>2. CASE boot_dirty[devcfg_block]
    BY <1>1, <2>1, <2>2 DEF ConfigDone, HeldConfig
  <2>3. CASE ~ boot_used
    BY <2>1, <2>3 DEF IInv, InvImage, Stored, HeldConfig, Left
  <2> QED BY <1>1, <2>2, <2>3
<1> QED BY <1>3, <1>4, <1>5, <1>6, <1>7 DEF IInv

LEMMA ProgramDevcfgKeeps == ASSUME IInv, Types', ProgramDevcfg PROVE IInv'
<1> DEFINE last == ConfigWords - 1 - addr
<1>1. UNCHANGED <<targetVars, fileVars, flash_dirty>> /\ pc = "devcfg"
      /\ boot_used /\ ~ boot_dirty[devcfg_block] /\ addr \in Config
      /\ ~ verify_only /\ outcome = "none" /\ devcfg_block \in Boot
  BY DEF ProgramDevcfg, DevcfgDue, IInv, InvRun, Types, TypeOK
<1>2. InvImage'
  BY <1>1, ImageKept
<1>3. CASE quad
  <2>1. pc' = "off" /\ outcome' = "failed"
    BY <1>3 DEF ProgramDevcfg, Ends
  <2> QED BY <1>2, <2>1, Outside DEF InvRun, InvErased, IInv
<1>4. CASE ~ quad
  <2>1. chip' \in WordWrites(last, Spoils) /\ last \in Config
    BY <1>1, <1>4, WordsDown DEF ProgramDevcfg
  <2>2. /\ outcome' = "none"
        /\ \/ pc' = "verify flash" /\ addr' = 0 /\ addr = ConfigWords - 1
              /\ boot_dirty' = [boot_dirty EXCEPT ![devcfg_block] = TRUE]
           \/ pc' = "devcfg" /\ addr' = addr + 1 /\ boot_dirty' = boot_dirty
    BY <1>1, <1>4 DEF ProgramDevcfg, Onward, Goto
  <2>3. InvRun' /\ InvErased' /\ Programmed' /\ Verified'
    BY <1>1, <2>2 DEF InvRun, InvErased, Programmed, Verified, fileVars
  <2>4. InvDirty'
    <3>1. boot_dirty \in [Boot -> BOOLEAN]
      BY DEF IInv, Types, TypeOK
    <3> QED BY <1>1, <2>2, <3>1
            DEF IInv, InvDirty, Loaded, Verifying, targetVars, fileVars
  <2>5. InvVerify'
    BY <2>2, BlockBounds DEF InvVerify, Verifying
  <2>6. /\ chip'.flash = chip.flash /\ chip'.boot = chip.boot
        /\ \A w \in Config \ {last} : chip'.devcfg[w] = chip.devcfg[w]
        /\ chip'.devcfg[last] \in
              Left(Over(chip.devcfg[last], image.devcfg[last]), Spoils)
    BY <2>1, WordWriteEffect DEF IInv
  <2>7. InvFlash' /\ InvBoot'
    <3>1. \A b \in Flash : FlashDone(b) /\ FlashDone(b)'
      BY <1>1, <2>2 DEF FlashDone
    <3>2. \A b \in Boot : BootDone(b) /\ BootDone(b)'
      BY <1>1, <2>2 DEF BootDone
    <3> QED BY <1>1, <2>6, <3>1, <3>2
            DEF IInv, InvFlash, InvBoot, Loaded, Held, fileVars
  <2>8. InvConfig'
    <3> SUFFICES ASSUME NEW w \in Config
                 PROVE  chip'.devcfg[w] \in HeldConfig(image.devcfg[w], ConfigDone(w)')
      BY <1>1 DEF InvConfig, HeldConfig, fileVars
    <3>1. chip.devcfg[w] \in HeldConfig(image.devcfg[w], ConfigDone(w))
      BY <1>1 DEF IInv, InvConfig, Loaded
    <3>2. /\ ConfigDone(w) <=> w + addr >= ConfigWords
          /\ w = last <=> w + addr = ConfigWords - 1
      BY <1>1, LayoutAssumption DEF ConfigDone, Verifying, Config
    <3>3. ConfigDone(w)' <=> ConfigDone(w) \/ w = last
      <4>1. CASE pc' = "verify flash"
        <5>1. ConfigDone(w)'
          BY <4>1 DEF ConfigDone, Verifying
        <5>2. addr = ConfigWords - 1
          BY <2>2, <4>1
        <5>3. w + addr >= ConfigWords \/ w + addr = ConfigWords - 1
          BY <5>2, LayoutAssumption DEF Config
        <5> QED BY <3>2, <5>1, <5>3
      <4>2. CASE pc' = "devcfg"
        <5>1. ConfigDone(w)' <=> w + addr' >= ConfigWords
          BY <1>1, <2>2, <4>2 DEF ConfigDone, Verifying, targetVars
        <5> QED BY <1>1, <2>2, <3>2, <4>2, <5>1, LayoutAssumption DEF Config
      <4> QED BY <2>2, <4>1, <4>2
    <3>4. CASE w = last
      <4>1. chip.devcfg[w] = "ff"
        BY <1>1, <3>1, <3>2, <3>4, LayoutAssumption DEF HeldConfig, Config
      <4>2. chip'.devcfg[w] \in Left(image.devcfg[w], Spoils)
        BY <2>6, <3>4, <4>1 DEF Over
      <4> QED BY <1>1, <3>3, <3>4, <4>2 DEF HeldConfig, Left
    <3>5. CASE w # last
      BY <2>6, <3>1, <3>3, <3>5 DEF HeldConfig
    <3> QED BY <3>4, <3>5
  <2> QED BY <1>2, <2>3, <2>4, <2>5, <2>7, <2>8 DEF IInv
<1> QED BY <1>3, <1>4

LEMMA VerifyFlashKeeps == ASSUME IInv, Types', VerifyFlash PROVE IInv'
<1>1. /\ pc = "verify flash" /\ addr \in Flash /\ outcome = "none"
      /\ UNCHANGED <<targetVars, fileVars, dirtyVars, chip>>
  BY DEF VerifyFlash, IInv, InvRun, Types, TypeOK
<1>2. InvImage'
  BY <1>1, ImageKept
<1>3. CASE skip_verify
  <2>1. pc' = "off" /\ outcome' = "ok"
    BY <1>3 DEF VerifyFlash, Ends
  <2>2. ASSUME ~ verify_only, ~ Spoils PROVE chip = Wanted
    <3>1. \A b \in Flash : FlashEqual(b)
      <4> SUFFICES ASSUME NEW b \in Flash PROVE FlashEqual(b)
        OBVIOUS
      <4>1. chip.flash[b] \in Held(image.flash[b], TRUE)
        BY <1>1, <2>2 DEF IInv, InvFlash, Loaded, Verifying, Held, FlashDone
      <4> QED BY <2>2, <4>1 DEF Held, Left, FlashEqual
    <3>2. \A b \in Boot : chip.boot[b] = image.boot[b]
      <4> SUFFICES ASSUME NEW b \in Boot PROVE chip.boot[b] = image.boot[b]
        OBVIOUS
      <4>1. chip.boot[b] \in Held(image.boot[b], TRUE)
        BY <1>1, <2>2 DEF IInv, InvBoot, Loaded, Verifying, Held, BootDone
      <4> QED BY <2>2, <4>1 DEF Held, Left
    <3>3. \A w \in Config : chip.devcfg[w] = image.devcfg[w]
      <4> SUFFICES ASSUME NEW w \in Config PROVE chip.devcfg[w] = image.devcfg[w]
        OBVIOUS
      <4>1. chip.devcfg[w] \in HeldConfig(image.devcfg[w], TRUE)
        BY <1>1, <2>2 DEF IInv, InvConfig, Loaded, Verifying, HeldConfig, ConfigDone
      <4> QED BY <2>2, <4>1 DEF HeldConfig, Left
    <3> QED BY <3>1, <3>2, <3>3, WantedCells DEF IInv
  <2>3. Wanted' = Wanted
    BY <1>1 DEF Wanted, fileVars
  <2>4. Programmed'
    BY <1>1, <1>3, <2>2, <2>3 DEF Programmed, fileVars
  <2>5. Verified'
    BY <1>1, <1>3 DEF Verified, fileVars
  <2>6. InvRun' /\ InvErased'
    BY <2>1 DEF InvRun, InvErased
  <2>7. InvDirty' /\ InvFlash' /\ InvBoot' /\ InvConfig' /\ InvVerify'
    BY <2>1 DEF InvDirty, InvFlash, InvBoot, InvConfig, InvVerify, Loaded, Verifying
  <2> QED BY <1>2, <2>4, <2>5, <2>6, <2>7 DEF IInv
<1>4. CASE ~ skip_verify /\ flash_dirty[addr] /\ ~ FlashEqual(addr)
  <2>1. pc' = "off" /\ outcome' = "failed"
    BY <1>4 DEF VerifyFlash, Ends
  <2> QED BY <1>2, <2>1, Outside DEF InvRun, InvErased, IInv
<1>5. CASE ~ skip_verify /\ (flash_dirty[addr] => FlashEqual(addr))
  <2>1. /\ outcome' = "none"
        /\ \/ pc' = "verify boot" /\ addr' = 0 /\ addr = FlashBlocks - 1
           \/ pc' = "verify flash" /\ addr' = addr + 1
    BY <1>1, <1>5 DEF VerifyFlash, Onward, Goto
  <2>2. InvRun' /\ InvErased' /\ Programmed' /\ Verified'
    BY <1>1, <1>5, <2>1 DEF InvRun, InvErased, Programmed, Verified, fileVars
  <2>3. InvDirty'
    BY <1>1, <2>1 DEF IInv, InvDirty, Loaded, Verifying, targetVars, fileVars, dirtyVars
  <2>4. InvFlash' /\ InvBoot' /\ InvConfig'
    BY <1>1, <2>1
       DEF IInv, InvFlash, InvBoot, InvConfig, Loaded, Verifying, Held, HeldConfig,
           FlashDone, BootDone, ConfigDone, fileVars
  <2>5. InvVerify'
    <3>1. \A b \in Flash : flash_dirty[b] /\ (pc' = "verify boot" \/ b < addr') =>
             FlashEqual(b)
      <4> SUFFICES ASSUME NEW b \in Flash, flash_dirty[b],
                          pc' = "verify boot" \/ b < addr'
                   PROVE  FlashEqual(b)
        OBVIOUS
      <4>1. b < addr \/ b = addr
        BY <1>1, <2>1, BlockNumbers, BlockBounds, Passing
      <4> QED BY <1>1, <1>5, <4>1 DEF IInv, InvVerify, Verifying
    <3>2. \A b \in Flash : FlashEqual(b)' <=> FlashEqual(b)
      BY <1>1 DEF FlashEqual, fileVars
    <3>3. pc' = "verify boot" => addr' = 0
      BY <2>1
    <3> QED BY <1>1, <3>1, <3>2, <3>3, BlockBounds DEF InvVerify, dirtyVars
  <2> QED BY <1>2, <2>2, <2>3, <2>4, <2>5 DEF IInv
<1> QED BY <1>3, <1>4, <1>5

LEMMA VerifyBootKeeps == ASSUME IInv, Types', VerifyBoot PROVE IInv'
<1>1. /\ pc = "verify boot" /\ addr \in Boot /\ outcome = "none" /\ ~ skip_verify
      /\ UNCHANGED <<targetVars, fileVars, dirtyVars, chip>>
  BY DEF VerifyBoot, IInv, InvRun, Types, TypeOK
<1>2. InvImage'
  BY <1>1, ImageKept
<1>3. CASE boot_dirty[addr] /\ ~ BootEqual(addr)
  <2>1. pc' = "off" /\ outcome' = "failed"
    BY <1>3 DEF VerifyBoot, Ends
  <2> QED BY <1>2, <2>1, Outside DEF InvRun, InvErased, IInv
<1>4. CASE (boot_dirty[addr] => BootEqual(addr)) /\ addr # BootBlocks - 1
  <2>1. outcome' = "none" /\ pc' = "verify boot" /\ addr' = addr + 1
    BY <1>1, <1>4 DEF VerifyBoot
  <2>2. InvRun' /\ InvErased' /\ Programmed' /\ Verified'
    BY <1>1, <2>1 DEF InvRun, InvErased, Programmed, Verified, fileVars
  <2>3. InvDirty'
    BY <1>1, <2>1 DEF IInv, InvDirty, Loaded, Verifying, targetVars, fileVars, dirtyVars
  <2>4. InvFlash' /\ InvBoot' /\ InvConfig'
    BY <1>1, <2>1
       DEF IInv, InvFlash, InvBoot, InvConfig, Loaded, Verifying, Held, HeldConfig,
           FlashDone, BootDone, ConfigDone, fileVars
  <2>5. InvVerify'
    <3>1. \A b \in Flash : FlashEqual(b)' <=> FlashEqual(b)
      BY <1>1 DEF FlashEqual, fileVars
    <3>2. \A b \in Boot : BootEqual(b)' <=> BootEqual(b)
      BY <1>1 DEF BootEqual, fileVars, targetVars
    <3>3. \A b \in Boot : b < addr' => b < addr \/ b = addr
      BY <1>1, <2>1, BlockNumbers, Passing
    <3> QED BY <1>1, <1>4, <2>1, <3>1, <3>2, <3>3
            DEF IInv, InvVerify, Verifying, dirtyVars
  <2> QED BY <1>2, <2>2, <2>3, <2>4, <2>5 DEF IInv
<1>5. CASE (boot_dirty[addr] => BootEqual(addr)) /\ addr = BootBlocks - 1
  <2>1. pc' = "off" /\ outcome' = "ok"
    BY <1>1, <1>5 DEF VerifyBoot, Ends
  <2>2. /\ \A b \in Flash : flash_dirty[b] => FlashEqual(b)
        /\ \A b \in Boot : boot_dirty[b] => BootEqual(b)
    BY <1>1, <1>5, BlockBounds DEF IInv, InvVerify, Verifying
  <2>3. ASSUME ~ verify_only PROVE chip = Wanted
    <3>1. \A b \in Flash : FlashEqual(b)
      <4> SUFFICES ASSUME NEW b \in Flash, ~ flash_dirty[b] PROVE FlashEqual(b)
        BY <2>2
      <4>1. image.flash[b] = "ff"
        BY <1>1 DEF IInv, InvDirty, Loaded, Verifying
      <4> QED BY <1>1, <2>3, <4>1
              DEF IInv, InvFlash, Loaded, Verifying, Held, FlashEqual
    <3>2. \A b \in Boot : chip.boot[b] = image.boot[b]
      <4> SUFFICES ASSUME NEW b \in Boot, ~ boot_dirty[b]
                   PROVE  chip.boot[b] = image.boot[b]
        BY <2>2 DEF BootEqual
      <4>1. image.boot[b] = "ff"
        BY <1>1 DEF IInv, InvDirty, Loaded, Verifying
      <4> QED BY <1>1, <2>3, <4>1 DEF IInv, InvBoot, Loaded, Verifying, Held
    <3>3. \A w \in Config : chip.devcfg[w] = image.devcfg[w]
      <4>1. CASE boot_used
        <5>1. boot_dirty[devcfg_block] /\ devcfg_block \in Boot
          BY <1>1, <2>3, <4>1 DEF IInv, InvDirty, Loaded, Verifying, Types
        <5> QED BY <2>2, <5>1 DEF BootEqual
      <4>2. CASE ~ boot_used
        <5> SUFFICES ASSUME NEW w \in Config PROVE chip.devcfg[w] = image.devcfg[w]
          OBVIOUS
        <5>1. image.devcfg[w] = "ff"
          BY <4>2 DEF IInv, InvImage, Stored
        <5>2. chip.devcfg[w] \in HeldConfig(image.devcfg[w], ConfigDone(w))
          BY <1>1, <2>3 DEF IInv, InvConfig, Loaded, Verifying
        <5> QED BY <4>2, <5>1, <5>2 DEF HeldConfig, Left
      <4> QED BY <4>1, <4>2
    <3> QED BY <3>1, <3>2, <3>3, WantedCells DEF IInv
  <2>4. Wanted' = Wanted
    BY <1>1 DEF Wanted, fileVars
  <2>5. Programmed'
    BY <1>1, <2>3, <2>4 DEF Programmed, fileVars
  <2>6. \A b \in Flash : image.flash[b] # "ff" => chip.flash[b] = image.flash[b]
    BY <1>1, <2>2 DEF IInv, InvDirty, Loaded, Verifying, FlashEqual
  <2>7. \A b \in Boot : image.boot[b] # "ff" => chip.boot[b] = image.boot[b]
    BY <1>1, <2>2 DEF IInv, InvDirty, Loaded, Verifying, BootEqual
  <2>8. Verified'
    BY <1>1, <2>6, <2>7 DEF Verified, fileVars
  <2>9. InvRun' /\ InvErased'
    BY <2>1 DEF InvRun, InvErased
  <2>10. InvDirty' /\ InvFlash' /\ InvBoot' /\ InvConfig' /\ InvVerify'
    BY <2>1 DEF InvDirty, InvFlash, InvBoot, InvConfig, InvVerify, Loaded, Verifying
  <2> QED BY <1>2, <2>5, <2>8, <2>9, <2>10 DEF IInv
<1> QED BY <1>3, <1>4, <1>5

LEMMA StutterKeeps == ASSUME IInv, Types', UNCHANGED vars PROVE IInv'
<1>1. InvRun' /\ InvImage' /\ InvDirty' /\ InvErased' /\ InvVerify'
  BY DEF vars, targetVars, fileVars, dirtyVars, IInv, InvRun, InvImage, Stored, InvDirty,
     InvErased, InvVerify, Loaded, Verifying, FlashEqual, BootEqual, Blank, Filled
<1>2. InvFlash' /\ InvBoot' /\ InvConfig'
  BY DEF vars, targetVars, fileVars, dirtyVars, IInv, InvFlash, InvBoot, InvConfig,
     Loaded, Verifying, Held, HeldConfig, FlashDone, BootDone, ConfigDone
<1>3. Programmed' /\ Verified'
  BY DEF vars, fileVars, IInv, Programmed, Verified, Wanted
<1> QED BY <1>1, <1>2, <1>3 DEF IInv

LEMMA IInvStep == IInv /\ [Next]_vars => IInv'
<1> SUFFICES ASSUME IInv, [Next]_vars PROVE IInv'
  OBVIOUS
<1>1. Types'
  BY TypesStep DEF IInv
<1>2. CASE Next
  BY <1>1, <1>2, StartKeeps, EraseOnlyKeeps, BreakKeeps, CheckKeeps, EraseKeeps,
     LoadExecutiveKeeps, ProgramFlashKeeps, ProgramBootKeeps, NoDevcfgKeeps,
     ProgramDevcfgKeeps, VerifyFlashKeeps, VerifyBootKeeps DEF Next, Running
<1>3. CASE UNCHANGED vars
  BY <1>1, <1>3, StutterKeeps
<1> QED BY <1>2, <1>3

\* The invariant that all else follows from.
THEOREM IInvHolds == Spec => []IInv
BY IInvInit, IInvStep, PTL DEF Spec

-----------------------------------------------------------------------------
(* What follows.                                                           *)

\* Variables keep their types; the loops of do_program stay within the blocks
\* of the chip, whatever the image.
THEOREM TypeCorrect == Spec => []TypeOK
<1>1. IInv => TypeOK
  BY DEF IInv, Types
<1> QED BY <1>1, IInvHolds, PTL

\* A run that reports success has left exactly the image in the chip: with
\* verification whatever the executive spoiled, without if it spoils nothing.
THEOREM ImageProgrammed == Spec => []Programmed
<1>1. IInv => Programmed
  BY DEF IInv
<1> QED BY <1>1, IInvHolds, PTL

\* A run that only verifies and reports success has found what is not blank.
THEOREM ImageVerified == Spec => []Verified
<1>1. IInv => Verified
  BY DEF IInv
<1> QED BY <1>1, IInvHolds, PTL

\* No block or word is programmed unless it is blank.
THEOREM NothingTwice == Spec => []AheadBlank
<1>1. IInv => AheadBlank
  <2> SUFFICES ASSUME IInv PROVE AheadBlank
    OBVIOUS
  <2> DEFINE looping == pc \in {"flash", "boot", "devcfg"}
  <2>1. looping => Loaded /\ ~ verify_only /\ ~ Verifying
    BY DEF IInv, InvRun, Loaded, Verifying
  <2>2. addr \in Nat /\ devcfg_block \in Boot
    BY DEF IInv, Types, TypeOK
  <2>3. ASSUME NEW b \in Flash, pc = "flash", b >= addr PROVE chip.flash[b] = "ff"
    <3>1. ~ FlashDone(b)
      BY <2>2, <2>3, BlockNumbers DEF FlashDone
    <3> QED BY <2>1, <2>3, <3>1 DEF IInv, InvFlash, Held
  <2>4. ASSUME NEW b \in Boot, pc \in {"flash", "boot"}, pc = "boot" => b >= addr
        PROVE  chip.boot[b] = "ff"
    <3>1. ~ BootDone(b)
      BY <2>2, <2>4, BlockNumbers DEF BootDone
    <3> QED BY <2>1, <2>4, <3>1 DEF IInv, InvBoot, Held
  <2>5. ASSUME pc = "flash" \/ (pc = "boot" /\ addr <= devcfg_block)
        PROVE  chip.devcfg = Blank.devcfg
    <3>1. \A w \in Config : ~ ConfigDone(w)
      BY <2>1, <2>2, <2>5, BlockNumbers DEF ConfigDone
    <3>2. \A w \in Config : chip.devcfg[w] = "ff"
      BY <2>1, <2>5, <3>1 DEF IInv, InvConfig, HeldConfig
    <3>3. chip.devcfg \in [Config -> Cell] /\ Blank.devcfg \in [Config -> Cell]
      BY Parts, BlankCells DEF IInv, Memory
    <3> QED BY <3>2, <3>3, BlankCells
  <2>6. ASSUME pc = "devcfg", DevcfgDue, NEW w \in Config, w + addr < ConfigWords
        PROVE  chip.devcfg[w] = "ff"
    <3>1. ~ ConfigDone(w)
      BY <2>1, <2>2, <2>6, BlockNumbers, LayoutAssumption DEF ConfigDone, DevcfgDue
    <3> QED BY <2>1, <2>6, <3>1 DEF IInv, InvConfig, HeldConfig
  <2> QED BY <2>3, <2>4, <2>5, <2>6 DEF AheadBlank
<1> QED BY <1>1, IInvHolds, PTL

\* program_quad_word, which the adapter leaves null, is never called.
THEOREM QuadWordUnused == Spec => []NoQuadWord
<1>1. IInv => NoQuadWord
  <2> SUFFICES ASSUME IInv, pc = "devcfg", DevcfgDue, quad PROVE FALSE
    BY DEF NoQuadWord
  <2>1. image.boot[devcfg_block] = "data" /\ devcfg_block \in Boot
    BY DEF IInv, InvImage, DevcfgDue, Types
  <2>2. boot_dirty[devcfg_block]
    BY <2>1 DEF IInv, InvDirty, Loaded
  <2> QED BY <2>2 DEF DevcfgDue
<1> QED BY <1>1, IInvHolds, PTL

\* The configuration is written last, after every block of the flash and every
\* boot block before its own.
THEOREM ConfigWrittenLast == Spec => ConfigLast
<1> DEFINE Programs == chip'.devcfg \notin {chip.devcfg, Blank.devcfg}
           Complete == /\ \A b \in Flash : flash_dirty[b] => chip'.flash[b] # "ff"
                       /\ \A b \in Boot : boot_dirty[b] /\ b < devcfg_block =>
                             chip'.boot[b] # "ff"
<1>1. IInv /\ [Next]_vars => [Programs => Complete]_vars
  <2> SUFFICES ASSUME IInv, [Next]_vars, Programs PROVE Complete
    OBVIOUS
  <2>1. \/ \E s \in BOOLEAN : pc = "flash" /\ chip' \in FlashWrites(addr, s)
        \/ \E s \in BOOLEAN : pc = "boot" /\ chip' \in BootWrites(addr, s)
        \/ \E s \in BOOLEAN :
              pc = "devcfg" /\ chip' \in WordWrites(ConfigWords - 1 - addr, s)
    <3>1. chip' # chip /\ chip' # Blank
      OBVIOUS
    <3>2. Spoils \in BOOLEAN
      BY DEF Spoils
    <3>3. CASE Next
      BY <3>1, <3>2, <3>3
         DEF Next, Running, Start, EraseOnly, Check, Erase, LoadExecutive, ProgramFlash,
             ProgramBoot, NoDevcfg, ProgramDevcfg, VerifyFlash, VerifyBoot, Break
    <3> QED BY <3>1, <3>3 DEF vars
  <2>2. pc # "flash"
    <3> SUFFICES ASSUME pc = "flash" PROVE FALSE
      OBVIOUS
    <3>1. addr \in Flash
      BY DEF IInv, Types, TypeOK
    <3> QED BY <2>1, <3>1, FlashWriteEffect DEF IInv
  <2>3. Loaded /\ ~ verify_only /\ ~ Verifying
    BY <2>1, <2>2 DEF IInv, InvRun, Loaded, Verifying
  <2>4. ASSUME NEW b \in Flash, flash_dirty[b] PROVE chip.flash[b] # "ff"
    <3>1. chip.flash[b] \in Held(image.flash[b], TRUE)
      BY <2>2, <2>3 DEF IInv, InvFlash, FlashDone, Held
    <3>2. image.flash[b] # "ff"
      BY <2>3, <2>4 DEF IInv, InvDirty
    <3> QED BY <3>1, <3>2 DEF Held, Left
  <2>5. ASSUME NEW b \in Boot, boot_dirty[b], BootDone(b) PROVE chip.boot[b] # "ff"
    <3>1. chip.boot[b] \in Held(image.boot[b], TRUE)
      BY <2>3, <2>5 DEF IInv, InvBoot, Held
    <3>2. image.boot[b] # "ff"
      BY <2>3, <2>5 DEF IInv, InvDirty
    <3> QED BY <3>1, <3>2 DEF Held, Left
  <2>6. CASE pc = "boot"
    <3>1. addr \in Boot
      BY <2>6 DEF IInv, Types, TypeOK
    <3>2. PICK s \in BOOLEAN : chip' \in BootWrites(addr, s)
      BY <2>1, <2>6
    <3>3. /\ chip'.flash = chip.flash /\ addr = devcfg_block
          /\ \A b \in Boot \ {addr} : chip'.boot[b] = chip.boot[b]
      BY <3>1, <3>2, BootWriteEffect DEF IInv
    <3>4. \A b \in Boot : b < devcfg_block => BootDone(b) /\ b # addr
      BY <2>6, <3>1, <3>3, BlockNumbers DEF BootDone
    <3> QED BY <2>4, <2>5, <3>3, <3>4
  <2>7. CASE pc = "devcfg"
    <3>1. ConfigWords - 1 - addr \in Config
      BY <2>7, WordsDown DEF IInv, Types, TypeOK
    <3>2. chip'.flash = chip.flash /\ chip'.boot = chip.boot
      BY <2>1, <2>7, <3>1, WordWriteEffect DEF IInv
    <3>3. \A b \in Boot : BootDone(b)
      BY <2>7 DEF BootDone
    <3> QED BY <2>4, <2>5, <3>2, <3>3
  <2> QED BY <2>1, <2>2, <2>6, <2>7
<1> QED BY <1>1, IInvHolds, PTL DEF Spec, ConfigLast
=============================================================================
