-------------------------------- MODULE Bringup --------------------------------
(***************************************************************************)
(* The library base and the board: LibInit to LibExpunge, InitChip,        *)
(* InitRadeonFeatures and RadeonReleaseBoard with the blocks of private    *)
(* VRAM that dma.c carves off the top of Picasso96's memory, and the       *)
(* command processor's start, abort, recovery and end.                     *)
(*                                                                         *)
(* InitChip drops ServiceLock between its parts, so other callers come in  *)
(* between.  The prometheus card that calls it holds the library open,     *)
(* calls it once the board is found and asks for features once.            *)
(***************************************************************************)
EXTENDS Integers, Sequences, FiniteSets, SequencesExt

CONSTANTS
  PRIVATE_VRAM_ALIGNMENT,  \* blocks begin and end at its multiples
  Bytes,                   \* the size of each kind of block
  Installed,               \* sizes of memory that a board may have
  STAGE_SLACK,             \* memory that must remain to stage templates
  Firmware,                \* PCI command and BUS_CNTL as the firmware left them
  MaxOpen,                 \* bound on lib_OpenCnt
  MaxSteps                 \* bound on what happens to a board after InitChip

Kinds == {"stage", "ring", "segments", "aux", "cursor"}

ASSUME BringupAssumption ==
  /\ PRIVATE_VRAM_ALIGNMENT \in Nat \ {0}
  /\ Bytes \in [Kinds -> Nat \ {0}] /\ Bytes["stage"] % PRIVATE_VRAM_ALIGNMENT = 0
  /\ Installed \subseteq {n \in Nat : n % PRIVATE_VRAM_ALIGNMENT = 0}
  /\ STAGE_SLACK \in Nat /\ MaxOpen \in Nat /\ MaxSteps \in Nat
  /\ Firmware # {} /\ \A f \in Firmware : f = [command |-> f.command, cntl |-> f.cntl]

VARIABLES
  lib,     \* the library base: open count, flags, prometheus.library, sessions
  service, \* ServiceState, BoardInfo, and how far InitChip is
  mem,     \* MemorySize, the installed memory and the blocks carved, latest last
  cp,      \* RadeonCpState
  bus,     \* the board's bus registers and its command queue
  steps    \* what happened since the board was attached

bringupvars == <<lib, service, mem, cp, bus, steps>>
------------------------------------------------------------------------------
(* Private VRAM.                                                            *)
Rounded(n) == ((n + PRIVATE_VRAM_ALIGNMENT - 1) \div PRIVATE_VRAM_ALIGNMENT) * PRIVATE_VRAM_ALIGNMENT

Holds(m, kind) == \E i \in DOMAIN m.blocks : m.blocks[i].kind = kind

\* Mutant: the block asked for is not rounded.
AllocateUnrounded(m, kind) ==
  IF Bytes[kind] > m.size THEN m
  ELSE [m EXCEPT !.size = @ - Bytes[kind],
                 !.blocks = Append(@, [kind |-> kind, at |-> m.size - Bytes[kind]])]

\* Mutant: nobody asks whether there is room.
AllocateUnchecked(m, kind) ==
  [m EXCEPT !.size = @ - Rounded(Bytes[kind]),
            !.blocks = Append(@, [kind |-> kind, at |-> m.size - Rounded(Bytes[kind])])]

(* A block off the top; the memory is as it was where there is no room.     *)
RadeonAllocatePrivateVram(m, kind) ==
  IF Rounded(Bytes[kind]) > m.size THEN m
  ELSE [m EXCEPT !.size = @ - Rounded(Bytes[kind]),
                 !.blocks = Append(@, [kind |-> kind, at |-> m.size - Rounded(Bytes[kind])])]

(* Only the lowest block can be given back; a refused one is lost.          *)
RadeonFreePrivateVram(m, kind) ==
  IF ~Holds(m, kind) THEN m
  ELSE LET i == CHOOSE j \in DOMAIN m.blocks : m.blocks[j].kind = kind
       IN IF m.blocks[i].at = m.size
          THEN [m EXCEPT !.size = @ + Rounded(Bytes[kind]), !.blocks = RemoveAt(@, i)]
          ELSE [m EXCEPT !.blocks[i].kind = "lost"]
------------------------------------------------------------------------------
(* The command processor.                                                   *)
NoCp == [up |-> FALSE, ready |-> FALSE, configured |-> FALSE, saved |-> CHOOSE f \in Firmware : TRUE]

(* Where starting it may fail, in order.                                    *)
Hurdles == <<"memory", "timer", "ring", "master", "reset", "microcode", "configure", "test">>
Reaches(fails, hurdle) ==
  \A i \in DOMAIN Hurdles : Hurdles[i] = fails =>
    \E j \in DOMAIN Hurdles : Hurdles[j] = hurdle /\ j < i

\* Mutant: the bus stays as it was set for the command processor.
RestoreBusNever(s) == [s EXCEPT !.cp.configured = FALSE]

CpRestoreBus(s) ==
  IF s.cp.configured
  THEN [s EXCEPT !.cp.configured = FALSE, !.bus.command = s.cp.saved.command,
                 !.bus.cntl = s.cp.saved.cntl]
  ELSE s

CpDisable(s) == [s EXCEPT !.cp.ready = FALSE, !.bus.queue = FALSE]

(* Reset, microcode, ring and its test, as far as they get.                 *)
CpStart(s, fails) ==
  [s EXCEPT
     !.cp = [s.cp EXCEPT
               !.configured = TRUE,
               !.saved = [command |-> s.bus.command, cntl |-> s.bus.cntl],
               !.ready = Reaches(fails, "microcode") /\ fails # "configure"],
     !.bus = [s.bus EXCEPT
                !.command = IF fails = "master" THEN s.bus.command ELSE "master",
                !.cntl = IF Reaches(fails, "master") THEN "enabled" ELSE s.bus.cntl,
                !.microcode = s.bus.microcode \/ Reaches(fails, "microcode"),
                !.queue = Reaches(fails, "microcode")]]

RadeonCpShutdown(s) ==
  LET off == CpRestoreBus(CpDisable(s))
  IN IF ~s.cp.up THEN s
     ELSE [off EXCEPT !.mem = RadeonFreePrivateVram(@, "ring"), !.cp = NoCp]

RadeonCpInitialize(s, fails) ==
  LET ring == RadeonAllocatePrivateVram(s.mem, "ring")
      up == [s EXCEPT !.cp.up = TRUE]
  IN IF s.cp.up \/ fails = "memory" THEN s
     ELSE IF fails \in {"timer", "ring"} \/ ~Holds(ring, "ring") THEN RadeonCpShutdown(up)
     ELSE LET started == CpStart([up EXCEPT !.mem = ring], fails)
          IN IF fails = "none" THEN started ELSE RadeonCpShutdown(started)
------------------------------------------------------------------------------
(* The board.                                                               *)
ChipNow == [lib |-> lib, service |-> service, mem |-> mem, cp |-> cp, bus |-> bus]
ChipBecomes(s) ==
  /\ lib' = s.lib /\ service' = s.service /\ mem' = s.mem /\ cp' = s.cp /\ bus' = s.bus

RadeonShutdownAcceleration(s) ==
  RadeonCpShutdown(
    [s EXCEPT !.mem = RadeonFreePrivateVram(RadeonFreePrivateVram(@, "aux"), "segments")])

RadeonShutdownCursor(s) == [s EXCEPT !.mem = RadeonFreePrivateVram(@, "cursor")]

RadeonFinishBoardRelease(s) ==
  [RadeonShutdownAcceleration(RadeonShutdownCursor(s)) EXCEPT !.service.state = "EMPTY"]

(* Refused while the board is being released or, by others, initialised.    *)
RadeonReleaseBoard(s, allowInitializing) ==
  IF \/ ~s.service.bound \/ s.service.state = "DETACHING"
     \/ s.service.state = "INITIALIZING" /\ ~allowInitializing
  THEN s
  ELSE RadeonFinishBoardRelease([s EXCEPT !.service.bound = FALSE, !.service.featured = FALSE])

(* The engine, then its pools: the ones without room are left out.          *)
RadeonInitializeAcceleration(s, enableCp, stage, engine, fails) ==
  LET staged == stage /\ s.mem.size > Bytes["stage"] + STAGE_SLACK
      s1 == IF staged THEN [s EXCEPT !.mem = RadeonAllocatePrivateVram(@, "stage")] ELSE s
      s2 == IF enableCp THEN RadeonCpInitialize(s1, fails) ELSE s1
      pools == RadeonAllocatePrivateVram(RadeonAllocatePrivateVram(s2.mem, "segments"), "aux")
  IN IF ~engine THEN s
     ELSE IF enableCp /\ ~s1.cp.up /\ s2.cp.up THEN [s2 EXCEPT !.mem = pools] ELSE s2

InstallBoardCallbacks(s, sprite) ==
  IF sprite /\ ~Holds(s.mem, "cursor")
  THEN [s EXCEPT !.mem = RadeonAllocatePrivateVram(@, "cursor")] ELSE s
------------------------------------------------------------------------------
(* The calls.                                                               *)
Count == steps < MaxSteps /\ steps' = steps + 1

LibOpen(prometheus) ==
  /\ lib.alive /\ lib.open < MaxOpen
  /\ lib.open = 0 /\ ~lib.prometheus => prometheus
  /\ lib' = [lib EXCEPT !.open = @ + 1, !.delexp = FALSE, !.prometheus = TRUE]
  /\ UNCHANGED <<service, mem, cp, bus, steps>>

Expunged(s) ==
  [RadeonReleaseBoard(s, FALSE) EXCEPT !.lib.alive = FALSE, !.lib.prometheus = FALSE]

(* The last close releases the board, unless sessions are left.             *)
LibClose ==
  /\ lib.alive /\ lib.open > (IF service.at = "idle" THEN 0 ELSE 1)
  /\ LET s == [ChipNow EXCEPT !.lib.open = @ - 1]
     IN ChipBecomes(IF s.lib.open > 0 THEN s
                ELSE IF s.lib.sessions > 0 THEN [s EXCEPT !.lib.delexp = TRUE]
                ELSE IF s.lib.delexp THEN Expunged(s)
                ELSE [RadeonReleaseBoard(s, FALSE) EXCEPT !.lib.prometheus = FALSE])
  /\ UNCHANGED steps

(* Exec wants memory.                                                       *)
LibExpunge ==
  /\ lib.alive
  /\ ChipBecomes(IF lib.open > 0 \/ lib.sessions > 0 THEN [ChipNow EXCEPT !.lib.delexp = TRUE]
             ELSE Expunged(ChipNow))
  /\ UNCHANGED steps

InitChip ==
  /\ lib.alive /\ lib.open > 0 /\ lib.prometheus
  /\ service.at = "idle" /\ service.state = "EMPTY" /\ ~service.bound
  /\ service' = [service EXCEPT !.state = "INITIALIZING", !.bound = TRUE, !.at = "hardware",
                                !.featured = FALSE]
  /\ Count /\ UNCHANGED <<lib, mem, cp, bus>>

(* The BIOS, the framebuffer and the startup screen; it may fail.           *)
InitChipHardware(memory, ok) ==
  /\ service.at = "hardware"
  /\ LET s == [ChipNow EXCEPT !.mem = [size |-> memory, installed |-> memory, blocks |-> <<>>],
                          !.service.at = IF ok THEN "attach" ELSE "idle"]
     IN ChipBecomes(IF ok THEN s ELSE RadeonReleaseBoard(s, TRUE))
  /\ UNCHANGED steps

InitChipAttach ==
  /\ service.at = "attach"
  /\ LET s == [ChipNow EXCEPT !.service.at = "idle"]
     IN ChipBecomes(IF service.bound /\ service.state = "INITIALIZING"
                THEN [s EXCEPT !.service.state = "ATTACHED"]
                ELSE RadeonReleaseBoard(s, TRUE))
  /\ UNCHANGED steps

InitRadeonFeatures(enableCp, stage, sprite, engine, fails) ==
  /\ service.bound /\ service.state = "ATTACHED" /\ ~service.featured
  /\ LET s == InstallBoardCallbacks(
                RadeonInitializeAcceleration(ChipNow, enableCp, stage, engine, fails), sprite)
     IN ChipBecomes([s EXCEPT !.service.featured = TRUE,
                          !.service.state = IF s.cp.ready THEN "READY" ELSE @])
  /\ UNCHANGED steps

\* Mutant: the service is not told.
CpAbortsQuietly == cp.up /\ service.bound /\ ChipBecomes(CpRestoreBus(CpDisable(ChipNow))) /\ Count

(* The engine hangs.                                                        *)
CpAborts ==
  /\ cp.up /\ service.bound
  /\ ChipBecomes(CpRestoreBus(CpDisable(
       [ChipNow EXCEPT !.service.state = IF @ = "READY" THEN "ATTACHED" ELSE @])))
  /\ Count

(* With Radeon3DRearmService, as RecoverEngine calls them.                  *)
RadeonCpRecover(fails) ==
  /\ cp.up /\ ~cp.ready /\ service.bound
  /\ Reaches(fails, "ring") \/ fails = "none"
  /\ LET s == CpStart(ChipNow, fails)
     IN ChipBecomes(IF fails # "none" THEN CpRestoreBus(CpDisable(s))
                ELSE [s EXCEPT !.service.state = IF @ = "ATTACHED" THEN "READY" ELSE @])
  /\ Count

Radeon3DDetachOwner == lib.alive /\ ChipBecomes(RadeonReleaseBoard(ChipNow, FALSE)) /\ Count

(* Sessions, of which Service has the rest.                                 *)
Radeon3DOpen ==
  /\ lib.alive /\ lib.open > 0 /\ service.state = "READY" /\ lib.sessions = 0
  /\ lib' = [lib EXCEPT !.sessions = 1] /\ Count /\ UNCHANGED <<service, mem, cp, bus>>

Radeon3DClose ==
  /\ lib.alive /\ lib.sessions = 1
  /\ lib' = [lib EXCEPT !.sessions = 0] /\ Count /\ UNCHANGED <<service, mem, cp, bus>>
------------------------------------------------------------------------------
LibInit ==
  [alive |-> TRUE, open |-> 0, delexp |-> FALSE, prometheus |-> FALSE, sessions |-> 0]

BringupInit ==
  /\ lib = LibInit
  /\ service = [state |-> "EMPTY", bound |-> FALSE, at |-> "idle", featured |-> FALSE]
  /\ mem = [size |-> 0, installed |-> 0, blocks |-> <<>>]
  /\ cp = NoCp
  /\ \E f \in Firmware : bus = [command |-> f.command, cntl |-> f.cntl, queue |-> FALSE,
                                microcode |-> FALSE, firmware |-> f]
  /\ steps = 0

Failures == {"none"} \cup {Hurdles[i] : i \in DOMAIN Hurdles}

BringupNext ==
  \/ \E prometheus \in BOOLEAN : LibOpen(prometheus)
  \/ LibClose \/ LibExpunge
  \/ InitChip
  \/ \E memory \in Installed, ok \in BOOLEAN : InitChipHardware(memory, ok)
  \/ InitChipAttach
  \/ \E enableCp, stage, sprite, engine \in BOOLEAN, fails \in Failures :
       InitRadeonFeatures(enableCp, stage, sprite, engine, fails)
  \/ CpAborts
  \/ \E fails \in Failures : RadeonCpRecover(fails)
  \/ Radeon3DDetachOwner
  \/ Radeon3DOpen \/ Radeon3DClose

BringupSpec == BringupInit /\ [][BringupNext]_bringupvars
------------------------------------------------------------------------------
(* The blocks lie one below the other from the top of the memory to         *)
(* Picasso96's: nothing overlaps, nothing is lost between them, and every   *)
(* block is freed in its turn, whichever of them found room.                *)
BlockBytes(b) == Rounded(Bytes[b.kind])

MemoryTiled ==
  /\ \A i \in DOMAIN mem.blocks :
       /\ mem.blocks[i].kind \in Kinds
       /\ mem.blocks[i].at + BlockBytes(mem.blocks[i]) =
            (IF i = 1 THEN mem.installed ELSE mem.blocks[i - 1].at)
  /\ mem.size = IF mem.blocks = <<>> THEN mem.installed ELSE mem.blocks[Len(mem.blocks)].at

(* Without a board nothing of the last one is left but a stage, and the bus *)
(* is as the firmware left it.                                              *)
EmptyMeansClean ==
  service.state = "EMPTY" =>
    /\ ~service.bound /\ ~cp.up /\ ~bus.queue
    /\ \A i \in DOMAIN mem.blocks : mem.blocks[i].kind = "stage"

(* The board's bus registers are the firmware's except while the command    *)
(* processor is set up: an abort, a failed start and a recovery of a        *)
(* recovery save and restore the right ones.                                *)
BusRestored ==
  /\ ~cp.configured => bus.command = bus.firmware.command /\ bus.cntl = bus.firmware.cntl
  /\ cp.configured => cp.saved = bus.firmware

(* Sessions may be opened only while the command processor runs, and its    *)
(* queue runs only with the microcode loaded.                               *)
ReadyIsRunning ==
  /\ service.state = "READY" => service.bound /\ cp.ready
  /\ bus.queue => cp.ready /\ bus.microcode

(* prometheus.library is open as long as the board is bound.                *)
PrometheusHeld == service.bound \/ cp.up => lib.alive /\ lib.prometheus

BringupTypeOK ==
  /\ lib.open \in 0..MaxOpen /\ lib.sessions \in 0..1
  /\ {lib.alive, lib.delexp, lib.prometheus, service.bound, service.featured, cp.up, cp.ready,
      cp.configured, bus.queue, bus.microcode} \subseteq BOOLEAN
  /\ service.state \in {"EMPTY", "INITIALIZING", "ATTACHED", "READY", "DETACHING"}
  /\ service.at \in {"idle", "hardware", "attach"}
  /\ mem.size \in 0..mem.installed /\ mem.installed \in {0} \cup Installed
  /\ cp.saved \in Firmware /\ steps \in 0..MaxSteps
===============================================================================
