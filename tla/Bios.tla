---------------------------------- MODULE Bios ---------------------------------
(***************************************************************************)
(* RadeonInitializeHardware of radeon_bios.c: the option ROM is read, its  *)
(* tables POST a card that is cold, and memory and framebuffer location    *)
(* are settled.                                                            *)
(*                                                                         *)
(* A table is a sequence of cells, up to the end of the image: the heads   *)
(* of entries, which carry what their operands say, and the cells of the   *)
(* operands.  A cell is a word in an initialisation table and a byte in    *)
(* the others.  A register holds a set of bits.  Memory is counted in MB.  *)
(***************************************************************************)
EXTENDS Integers, Sequences, FiniteSets, SequencesExt, FiniteSetsExt

CONSTANTS
  Setups,            \* what may be in the ROM and in the card's registers: pairs
  BIOS_WORD,         \* 2^32, where a product may overflow
  PLL_REF_MASK,      \* RADEON_PPLL_REF_DIV_MASK
  FB_MIN,            \* RADEON_FRAMEBUFFER_MIN_SIZE
  FB_APERTURE,       \* the most of the aperture that is used
  LastPage,          \* 0xffff: pages of the card's address space
  MAX_ENTRIES        \* bound of the interpreters, in entries

Tables == <<"asic1", "pll", "asic2", "asic4", "sdram", "asic3", "memsize", "dynamic">>
Borrowed == {"ROM_ADDRESS", "SEPROM", "VIPH", "BUS", "CRTC", "CRTC2", "EXT"}
Register == Borrowed \cup {"HOST", "OTHER"}

(* A register holds two bits: the one that has its function enabled, and    *)
(* the one that has it held off (a display's request, the ROM's disable).   *)
(* OTHER is a register that the call itself does not use.                   *)
Bit == {"enable", "disable"}

(* The registers that the call reads or writes.  Its caller has refused a   *)
(* board whose window on the bus is smaller than the least memory.          *)
Card ==
  [regs : [Register -> SUBSET Bit], pll : SUBSET Bit, memsize : Nat, divider : 0 .. PLL_REF_MASK, aperture : Nat,
   bar : {n \in Nat : n >= FB_MIN}, start : Nat, fb : Nat \X Nat, base : Nat, agp : Nat \X Nat]

(* What the ROM's bytes are read as, whatever they are.  An entry names any *)
(* register; what one that counts in MB or pages comes to hold is given.    *)
Cells == [op : STRING, reg : STRING, and : SUBSET Bit, or : SUBSET Bit, value : Nat \X Nat]
Readable(image) ==
  /\ {image.detected, image.configured} \subseteq Nat /\ image.rows \in Seq(Nat)
  /\ image.pllInfo = <<>> \/ image.pllInfo \in [ref : Nat, div : Nat, min : Nat, max : Nat]
  /\ \A i \in DOMAIN Tables : image.tables[Tables[i]] \in Seq(Cells)

ASSUME BiosAssumption ==
  /\ {BIOS_WORD, PLL_REF_MASK, FB_MIN, FB_APERTURE, LastPage, MAX_ENTRIES} \subseteq Nat
  /\ 0 < FB_MIN /\ FB_MIN <= FB_APERTURE /\ FB_APERTURE <= 512
  /\ 0 < BIOS_WORD /\ 12 <= PLL_REF_MASK
  /\ \A s \in Setups : Readable(s[1]) /\ s[2] \in Card

VARIABLES
  rom,    \* the ROM of this card
  chip,   \* its registers
  posted, \* whether it was posted when the call began
  saved,  \* the copies of registers that the functions keep to put back
  due,    \* history: the registers as found, with what the ROM's tables wrote
  pos,    \* where the call is: phase, table, cell, entries so far
  info    \* what it learned: struct RadeonBoardData and BoardInfo

biosvars == <<rom, chip, posted, saved, due, pos, info>>

At0 == [phase |-> "start", table |-> 1, cell |-> 1, entries |-> 0]
Learned0 == [bios |-> FALSE, memory |-> 0, size |-> 0, space |-> 0, installed |-> 0, clock |-> <<>>, dvi |-> <<>>]

(* The card is posted when a display runs or the memory size is set.        *)
IsPosted == "enable" \in chip.regs["CRTC"] \cup chip.regs["CRTC2"] \/ chip.memsize # 0

BiosInit ==
  /\ \E s \in Setups : rom = s[1] /\ chip = s[2] /\ due = s[2].regs
  /\ posted = FALSE /\ saved = [r \in Register |-> {}]
  /\ pos = At0 /\ info = Learned0

Goes(phase) == pos' = [At0 EXCEPT !.phase = phase]
------------------------------------------------------------------------------
(* What a function saves and what it puts back.                             *)
\* Mutant: registers are saved when the call begins, and only then.
SavedAtFirst(names) == [r \in Register |-> IF pos.phase = "start" THEN chip.regs[r] ELSE saved[r]]

Saved(names) == [r \in Register |-> IF r \in names THEN chip.regs[r] ELSE saved[r]]
Restored(names) == [chip EXCEPT !.regs = [r \in Register |-> IF r \in names THEN saved[r] ELSE @[r]]]

(* LoadRom: the expansion ROM is switched on in configuration space and     *)
(* copied; with no signature there it is copied once more with the          *)
(* displays off and the card's ROM enabled.                                 *)
LoadRomOpen ==
  /\ pos.phase = "start" /\ posted' = IsPosted
  /\ IF rom.size = 0 THEN chip' = chip /\ saved' = saved /\ Goes("examined")
     ELSE /\ saved' = Saved({"ROM_ADDRESS"})
          /\ chip' = [chip EXCEPT !.regs["ROM_ADDRESS"] = @ \cup {"enable"}]
          /\ Goes("read")
  /\ UNCHANGED <<rom, due, info>>

LoadRomRead ==
  /\ pos.phase = "read"
  /\ IF rom.hidden THEN Goes("hidden") ELSE Goes("close")
  /\ UNCHANGED <<rom, chip, posted, saved, due, info>>

Switched == Borrowed \ {"ROM_ADDRESS"}

CopyDisabledRom ==
  /\ pos.phase = "hidden"
  /\ saved' = Saved(Switched)
  /\ chip' = [chip EXCEPT !.regs = [r \in Register |->
              IF r = "VIPH" THEN @[r] \ {"enable"} ELSE IF r = "BUS" THEN @[r] \ {"disable"}
              ELSE IF r \in Switched THEN {"disable"} ELSE @[r]]]
  /\ Goes("copied")
  /\ UNCHANGED <<rom, posted, due, info>>

CopyDisabledRomEnd ==
  /\ pos.phase = "copied" /\ chip' = Restored(Switched) /\ Goes("close")
  /\ UNCHANGED <<rom, posted, saved, due, info>>

(* SelectX86Image: the first image that is for this device, x86 and sums    *)
(* up, as long as the ones before it are sound and not the last.            *)
Sound(image) == image.signature /\ image.pcir /\ image.blocks
SelectX86Image ==
  LET fits(i) == rom.images[i].device /\ rom.images[i].x86 /\ rom.images[i].sum
      reached(i) == /\ \A j \in 1 .. i : Sound(rom.images[j])
                    /\ \A j \in 1 .. i - 1 : ~fits(j) /\ ~rom.images[j].last
  IN {i \in DOMAIN rom.images : reached(i) /\ fits(i)}

(* ParseHeader: legacy only, of a known revision, with a whole directory.   *)
ParseHeader == ~rom.atom /\ rom.revision <= 16 /\ rom.directory >= 50

(* BiosMemorySize: what was detected, or the memory table; 0 if absurd.     *)
BiosMemorySize ==
  LET said == IF rom.detected # 0 THEN rom.detected
              ELSE IF rom.revision >= 1 THEN rom.configured * 2 ELSE rom.configured
  IN IF said < 4 \/ said > 512 THEN 0 ELSE said

(* How many rows of the transmitter table are taken: up to one without      *)
(* value or limit, one that does not rise, or the fourth.                   *)
Rising(rows) ==
  Max({n \in 0 .. Min({4, Len(rows)}) :
        \A i \in 1 .. n : rows[i] # 0 /\ (i > 1 => rows[i] > rows[i - 1])})

(* LoadDviInfo: for OUTPUT=DVI with an internal transmitter that is known.  *)
LoadDviInfo ==
  IF ~rom.dviAsked \/ rom.external \/ rom.connector = "other" \/ rom.dfp \notin {3, 4} THEN <<>>
  ELSE SubSeq(rom.rows, 1, Rising(rom.rows))

LoadRomClose ==
  /\ pos.phase = "close"
  /\ chip' = Restored({"ROM_ADDRESS"})
  /\ LET usable == rom.images # <<>> /\ SelectX86Image # {} /\ ParseHeader
     IN info' = IF usable THEN [info EXCEPT !.bios = TRUE, !.dvi = LoadDviInfo, !.memory = BiosMemorySize]
                ELSE info
  /\ Goes("examined")
  /\ UNCHANGED <<rom, posted, saved, due>>

(* A posted card is not posted again; a cold one cannot do without.         *)
Examined ==
  /\ pos.phase = "examined"
  /\ IF posted THEN Goes("clock")
     ELSE IF info.bios /\ rom.tables["asic1"] # <<>> THEN Goes("post")
     ELSE Goes("failed")
  /\ UNCHANGED <<rom, chip, posted, saved, due, info>>
------------------------------------------------------------------------------
(* PostCard.  A cell is an entry's head [op, reg, bits and keep], or the    *)
(* cell of an operand.                                                      *)
Table == rom.tables[Tables[pos.table]]
BiosHas(cell, n) == cell + n - 1 <= Len(Table)

Size(op) ==
  CASE op \in {"writeIndexed", "writeDirect"} -> 2
    [] op \in {"maskIndexed", "maskDirect"} -> 4
    [] op \in {"delay", "waitMc", "waitMemory", "unknownSpecial"} -> 1
    [] op = "writePll" -> 4 [] op = "maskPll" -> 3 [] op = "sdram" -> 2
    [] OTHER -> 0

(* RadeonMask32 clears what it is told to, RadeonMaskIndexed and            *)
(* RadeonMaskPll keep it: the table's mask is turned round for the first.   *)
Mask32(value, clear, set) == (value \ clear) \cup set
MaskedDirect(value, and, or) == Mask32(value, Bit \ and, or)
MaskedOther(value, and, or) == (value \cap and) \cup or

(* What an entry stores: any register that the window on the card reaches,  *)
(* those that the call borrows too (the ROM's address is not behind it).    *)
Stores == {"writeIndexed", "writeDirect", "maskIndexed", "maskDirect"}
Put(entry, v) ==
  CASE entry.op \in {"writeIndexed", "writeDirect", "writePll"} -> entry.or
    [] entry.op = "maskDirect" -> MaskedDirect(v, entry.and, entry.or)
    [] OTHER                   -> MaskedOther(v, entry.and, entry.or)

RegsAfter(regs, entry) ==
  LET target == IF entry.op = "sdram" THEN "OTHER" ELSE entry.reg IN
  IF entry.op \in Stores \cup {"sdram"}
  THEN [r \in Register |-> IF r = target /\ r # "ROM_ADDRESS" THEN Put(entry, regs[r]) ELSE regs[r]]
  ELSE regs

(* The card after an entry.                                                 *)
Effect(entry) ==
  LET stores == entry.op \in Stores
      plls == entry.op \in {"writePll", "maskPll"} IN
  CASE stores /\ entry.reg = "memsize"  -> [chip EXCEPT !.memsize = entry.value[1]]
    [] stores /\ entry.reg = "aperture" -> [chip EXCEPT !.aperture = entry.value[1]]
    [] stores /\ entry.reg = "base"     -> [chip EXCEPT !.base = entry.value[1]]
    [] stores /\ entry.reg = "agp"      -> [chip EXCEPT !.agp = entry.value]
    [] stores /\ entry.reg = "fb"       -> [chip EXCEPT !.fb = entry.value]
    [] plls /\ entry.reg = "divider"    -> [chip EXCEPT !.divider = entry.value[1] % (PLL_REF_MASK + 1)]
    [] plls /\ entry.reg # "divider"    -> [chip EXCEPT !.pll = Put(entry, @)]
    [] entry.op = "powerBit"            -> [chip EXCEPT !.pll = @ \ {"enable"}]
    [] OTHER                            -> [chip EXCEPT !.regs = RegsAfter(@, entry)]

NextTable ==
  IF (Tables[pos.table] = "asic1" /\ rom.revision >= 9) \/ pos.table = Len(Tables)
  THEN [At0 EXCEPT !.phase = "clock"]
  ELSE [At0 EXCEPT !.phase = "post", !.table = pos.table + 1]

(* An absent table is passed.                                               *)
SkipTable ==
  /\ pos.phase = "post" /\ Tables[pos.table] # "memsize" /\ Table = <<>>
  /\ pos' = NextTable
  /\ UNCHANGED <<rom, chip, posted, saved, due, info>>

OperandsThere(entry) == BiosHas(pos.cell + 1, Size(entry.op))

(* RadeonWrite32 refuses a register outside the window on the card.         *)
Reached(entry) == entry.op \in {"writeDirect", "maskDirect"} => entry.reg # "outside"

(* LoadInitTable, LoadPllTable and ResetSdram: one entry.  An end mark ends *)
(* the table; the end of the image, too many entries, an operand that is    *)
(* not there, an unknown entry, a register that is not there or a wait that *)
(* never ends ends the POST.                                                *)
TableEntry ==
  /\ pos.phase = "post" /\ Tables[pos.table] # "memsize" /\ Table # <<>>
  /\ IF ~BiosHas(pos.cell, 1) \/ pos.entries = MAX_ENTRIES THEN Goes("failed") /\ UNCHANGED <<chip, due>>
     ELSE LET entry == Table[pos.cell]
              on == [pos EXCEPT !.cell = @ + 1 + Size(entry.op), !.entries = @ + 1] IN
       IF entry.op = "end" THEN pos' = NextTable /\ UNCHANGED <<chip, due>>
       ELSE IF entry.op \in {"unknown", "unknownSpecial"} \/ ~OperandsThere(entry) \/ ~Reached(entry)
       THEN Goes("failed") /\ UNCHANGED <<chip, due>>
       ELSE IF entry.op \in {"waitMc", "waitMemory", "waitPll"}
       THEN pos' \in {on, [At0 EXCEPT !.phase = "failed"]} /\ UNCHANGED <<chip, due>>
       ELSE pos' = on /\ chip' = Effect(entry) /\ due' = RegsAfter(due, entry)
  /\ UNCHANGED <<rom, posted, saved, info>>

(* Between the tables the memory size is told to the card.                  *)
TellMemorySize ==
  /\ pos.phase = "post" /\ Tables[pos.table] = "memsize"
  /\ chip' = IF info.memory # 0 THEN [chip EXCEPT !.memsize = info.memory] ELSE chip
  /\ pos' = NextTable
  /\ UNCHANGED <<rom, posted, saved, due, info>>
------------------------------------------------------------------------------
(* LoadClockInfo: the ROM's values times ten, the defaults for what it      *)
(* leaves 0, and for all when they make no sense; the card's own divider.   *)
Or(value, default) == IF value # 0 THEN value ELSE default
DefaultClock == [ref |-> 27, div |-> 12, min |-> 125, max |-> 400]

\* Mutant: the ROM's range is not looked at.
SensibleAlways(c) == TRUE

Sensible(c) == c.ref # 0 /\ c.div >= 2 /\ c.min # 0 /\ c.min <= c.max

RomClock ==
  IF ~info.bios \/ rom.pllInfo = <<>> THEN DefaultClock
  ELSE LET p == rom.pllInfo IN
       [ref |-> Or(p.ref, 27),
        div |-> IF 2 <= p.div /\ p.div <= PLL_REF_MASK THEN p.div ELSE 12,
        min |-> Or((p.min * 10) % BIOS_WORD, 125), max |-> Or((p.max * 10) % BIOS_WORD, 400)]

LoadClockInfo ==
  /\ pos.phase = "clock"
  /\ LET c == IF Sensible(RomClock) THEN RomClock ELSE DefaultClock
     IN info' = [info EXCEPT !.clock = IF chip.divider >= 2 THEN [c EXCEPT !.div = chip.divider] ELSE c]
  /\ Goes("memory")
  /\ UNCHANGED <<rom, chip, posted, saved, due>>

Trusted(memory) == memory >= FB_MIN /\ memory <= 512

(* The memory there is, from the ROM on a card that was cold.               *)
SettledMemory ==
  IF ~posted /\ info.memory # 0 THEN info.memory
  ELSE IF Trusted(chip.memsize) THEN chip.memsize ELSE info.memory

IsPowerOfTwo(n) == \E e \in 0 .. 10 : n = 2 ^ e

(* The part of the aperture that is used: what the card says, if it may be. *)
UsedAperture ==
  LET said == IF chip.aperture < FB_MIN \/ ~IsPowerOfTwo(chip.aperture) \/ chip.aperture > chip.bar
              THEN chip.bar ELSE chip.aperture
  IN Min({said, FB_APERTURE})

SettleMemory ==
  /\ pos.phase = "memory"
  /\ chip' = IF SettledMemory # 0 THEN [chip EXCEPT !.memsize = SettledMemory] ELSE chip
  /\ IF SettledMemory < FB_MIN THEN Goes("failed") /\ info' = info
     ELSE /\ Goes("locate")
          /\ info' = [info EXCEPT !.installed = Min({SettledMemory, UsedAperture})]
  /\ UNCHANGED <<rom, posted, saved, due>>
------------------------------------------------------------------------------
(* SetFramebufferLocation.  One page is one MB here.                        *)
EndPage == chip.start + UsedAperture - 1

Blanked == {"CRTC", "CRTC2", "EXT"}

LocateBlank ==
  /\ pos.phase = "locate"
  /\ IF EndPage >= LastPage THEN Goes("failed") /\ UNCHANGED <<chip, saved>>
     ELSE /\ saved' = Saved(Blanked \cup {"HOST"})
          /\ chip' = [chip EXCEPT !.regs = [r \in Register |->
                      IF r \in Blanked THEN @[r] \cup {"disable"} ELSE IF r = "HOST" THEN {} ELSE @[r]]]
          /\ Goes("blank")
  /\ UNCHANGED <<rom, posted, due, info>>

(* An AGP range that does not begin after the framebuffer is made empty.    *)
NewAgp == IF chip.agp[1] # EndPage + 1 THEN <<EndPage + 1, EndPage>> ELSE chip.agp

(* The memory controller comes to rest, or all is put back.                 *)
LocateBusy ==
  /\ pos.phase = "blank"
  /\ chip' = Restored(Blanked \cup {"HOST"})
  /\ Goes("failed")
  /\ UNCHANGED <<rom, posted, saved, due, info>>

Locate ==
  /\ pos.phase = "blank"
  /\ chip' = [chip EXCEPT !.fb = <<chip.start, EndPage>>, !.agp = NewAgp, !.base = chip.start]
  /\ Goes("located")
  /\ UNCHANGED <<rom, posted, saved, due, info>>

LocateEnd ==
  /\ pos.phase = "located"
  /\ chip' = Restored(Blanked)
  /\ info' = [info EXCEPT !.size = info.installed, !.space = UsedAperture]
  /\ Goes("done")
  /\ UNCHANGED <<rom, posted, saved, due>>

BiosNext ==
  \/ LoadRomOpen \/ LoadRomRead \/ CopyDisabledRom \/ CopyDisabledRomEnd \/ LoadRomClose
  \/ Examined \/ SkipTable \/ TableEntry \/ TellMemorySize
  \/ LoadClockInfo \/ SettleMemory \/ LocateBlank \/ LocateBusy \/ Locate \/ LocateEnd

BiosSpec == BiosInit /\ [][BiosNext]_biosvars
------------------------------------------------------------------------------
(* Properties.                                                              *)
Ended == pos.phase \in {"done", "failed"}

BiosTypeOK ==
  /\ pos.table \in DOMAIN Tables /\ pos.entries \in 0 .. MAX_ENTRIES
  /\ {chip.pll} \cup {chip.regs[r] : r \in Register} \subseteq SUBSET Bit
  /\ {info.memory, info.size, info.space, info.installed} \subseteq 0 .. 512

(* However the call ends, the ROM's window is closed again, and the         *)
(* displays and the other registers borrowed to read the ROM and to move    *)
(* the framebuffer hold what was found there, changed by what the ROM's     *)
(* tables wrote and by nothing else: what a POST sets up is not undone.     *)
(* The host's path is put back too by a call that fails.                    *)
BorrowedReturned ==
  Ended => /\ \A r \in Borrowed : chip.regs[r] = due[r]
           /\ pos.phase = "failed" => chip.regs["HOST"] = due["HOST"]

(* An interpreter looks at no cell past the image, whatever the table says: *)
(* the entry it comes to next begins at most where the image ends.          *)
TablesInsideImage ==
  pos.phase = "post" /\ Table # <<>> => pos.cell <= Len(Table) + 1

(* The clocks that modes are computed from make sense, whatever the ROM     *)
(* says and whatever overflows.                                             *)
ClocksUsable ==
  info.clock # <<>> => /\ info.clock.ref > 0 /\ info.clock.div \in 2 .. PLL_REF_MASK
                       /\ 0 < info.clock.min /\ info.clock.min <= info.clock.max

(* Rows for the transmitter rise, and there are at most four.               *)
DviRowsRise ==
  Len(info.dvi) <= 4 /\ \A i \in 2 .. Len(info.dvi) : info.dvi[i] > info.dvi[i - 1]

(* A board that was brought up has memory: not less than the least, inside  *)
(* the aperture, which is inside the window of the bus, and what the card   *)
(* decodes for it is not what it decodes for AGP.                           *)
MemorySettled ==
  pos.phase = "done" =>
    /\ FB_MIN <= info.size /\ info.size <= info.space /\ info.space <= chip.bar
    /\ chip.base = chip.fb[1] /\ chip.fb[2] - chip.fb[1] + 1 >= info.size
    /\ ~\E page \in chip.agp[1] .. chip.agp[2] : page \in chip.fb[1] .. chip.fb[2]
==============================================================================
