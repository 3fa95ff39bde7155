--------------------------------- MODULE Driver --------------------------------
(***************************************************************************)
(* The chip driver's parts that share no state, side by side: the POST of a *)
(* card (Bios), the life of the library and the board (Bringup), who has   *)
(* the drawing engine (Engine) and the display (Display).  The code calls  *)
(* them one after the other and under the caller's lock; a behaviour here  *)
(* is one of a part, while the others rest in an initial state of theirs:  *)
(* what holds of Driver holds of each part.                                *)
(***************************************************************************)
EXTENDS Bios, Bringup, Engine, Display

VARIABLE part

drivervars == <<part, biosvars, bringupvars, vars, dispvars>>

DriverInit ==
  /\ part \in {"bios", "bringup", "engine", "display"}
  /\ IF part = "bios" THEN BiosInit
     ELSE LET s == CHOOSE s \in Setups : TRUE IN rom = s[1] /\ chip = s[2] /\ BiosInit
  /\ IF part = "bringup" THEN BringupInit
     ELSE LET f == CHOOSE f \in Firmware : TRUE
          IN bus = [command |-> f.command, cntl |-> f.cntl, queue |-> FALSE, microcode |-> FALSE, firmware |-> f] /\ BringupInit
  /\ IF part = "engine" THEN Init
     ELSE LET v == CHOOSE v \in Versions : TRUE IN version = v /\ Init /\ engine.accel = "OFF"
  /\ IF part = "display" THEN DisplayInit ELSE board = (CHOOSE b \in Boards : TRUE) /\ DisplayInit

DriverNext ==
  /\ part' = part
  /\ \/ part = "bios" /\ BiosNext /\ UNCHANGED <<bringupvars, vars, dispvars>>
     \/ part = "bringup" /\ BringupNext /\ UNCHANGED <<biosvars, vars, dispvars>>
     \/ part = "engine" /\ Next /\ UNCHANGED <<biosvars, bringupvars, dispvars>>
     \/ part = "display" /\ DisplayNext /\ UNCHANGED <<biosvars, bringupvars, vars>>

DriverSpec == DriverInit /\ [][DriverNext]_drivervars
------------------------------------------------------------------------------
(* The properties of the parts, put together where they say one thing; each *)
(* is said of the part that runs.                                           *)
DriverTypeOK == BiosTypeOK /\ BringupTypeOK /\ TypeOK /\ DisplayTypeOK

(* What is scanned out is the picture asked for: a valid mode at its        *)
(* format's depth, inside the memory, in registers that hold it, with the   *)
(* cursor where the mouse is (radeon_mode.c, radeon_cursor.c).              *)
PictureRight ==
  part = "display" =>
    PictureIsValid /\ PaletteFitsFormat /\ ScanoutInside /\ RegistersFit /\ CursorAtMouse

(* The clock of a displayed mode is the one it was resolved to, within what *)
(* the panel's link takes, and every rung of the clock ladder resolves      *)
(* (ResolvePixelClock, SetClock, GetPixelClock).                            *)
ClockRight == part = "display" => ClockRuns /\ TmdsInRange /\ LadderResolves

(* Once nobody has the board or the library open, what was taken is given   *)
(* back: its private memory, its bus settings, the PCI library (library.c,  *)
(* radeon9200.c, RadeonCpShutdown).                                         *)
NothingLeftBehind == part = "bringup" => EmptyMeansClean /\ BusRestored /\ PrometheusHeld

(* A card the driver accepts is usable: its tables lie in its image, its    *)
(* clocks are sensible, its DVI rows rise and its memory map is settled     *)
(* (radeon_bios.c).                                                         *)
CardUsable == part = "bios" => TablesInsideImage /\ ClocksUsable /\ DviRowsRise /\ MemorySettled
==============================================================================
