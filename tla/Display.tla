-------------------------------- MODULE Display -------------------------------
(***************************************************************************)
(* The display callbacks of radeon_mode.c and the hardware cursor of       *)
(* radeon_cursor.c: the mode that the controller scans out, its clock and  *)
(* the wait for the PLL that may time out, the DAC's format and palette,   *)
(* panning, power levels, the DVI transmitter, and the cursor's place.     *)
(*                                                                         *)
(* Picasso96 makes the calls one at a time and in any order; the register  *)
(* writes of a call are one step.  Frequencies are in units of which KHz   *)
(* make a kilohertz (1000 in the code), so that products stay small.       *)
(***************************************************************************)
EXTENDS Integers, Sequences, FiniteSets, FiniteSetsExt, TLC

CONSTANTS
  KHz,            \* hertz in a kilohertz
  Boards,         \* what the BIOS tells: RefClockKHz, RefDivider, MinPllKHz, MaxPllKHz, the
                  \* TMDS table of a DVI output that was asked for (else <<>>), the memory
  Modes,          \* Picasso96's ModeInfos
  Timing,         \* the timing of each mode and of Startup
  Clocks,         \* frequencies that ResolvePixelClock is asked for
  Formats,        \* RGBFormats by their bytes per pixel, 0 for others
  Pannings,       \* memory, width and offsets given to SetPanning
  Mouse,          \* positions of the mouse
  PaletteSize,    \* entries of the palette
  Colors,         \* colours of a palette entry
  CURSOR_WIDTH,   \* rows and columns of the cursor
  MaxDisplayCalls  \* bound on the calls

Startup == "startup"
NoMode == "none"

ASSUME DisplayAssumption ==
  /\ KHz \in Nat \ {0} /\ DOMAIN Timing = Modes \cup {Startup} /\ {NoMode, Startup} \cap Modes = {}
  /\ 1 \in Formats /\ Formats \subseteq {0, 1, 2, 4}
  /\ CURSOR_WIDTH \in Nat \ {0} /\ PaletteSize \in Nat \ {0}
  /\ Boards \subseteq [ref : Nat, div : Nat, min : Nat, max : Nat, limit : Nat,
                       tmds : Seq([limit : Nat, value : Nat])]
  /\ \A b \in Boards : b.ref > 0 /\ b.div >= 2 /\ b.min > 0
  /\ \A m \in DOMAIN Timing :
       Timing[m] \in [w : Nat, h : Nat, depth : Nat, ht : Nat, hss : Nat, hsw : Nat, vt : Nat,
                     vss : Nat, vsw : Nat, doublescan : BOOLEAN, interlaced : BOOLEAN, hz : Nat]
  /\ Clocks \subseteq Nat /\ Pannings \subseteq [memory : Int, width : Int, x : Int, y : Int]
  /\ Mouse \subseteq Int \X Int
  \* The startup screen fits the least memory that is accepted.
  /\ Timing[Startup].depth = 8
  /\ \A b \in Boards : (Timing[Startup].h - 1) * 640 + Timing[Startup].w <= b.limit

VARIABLES
  board,   \* the board found
  drv,     \* RadeonBoardData and BoardInfo, the cursor's state with them
  clock,   \* pll1, pll2 and PixelClock of every mode
  hw,      \* the board's registers and the cursor's image
  since,   \* what succeeded since the mode was set, for the properties
  calls    \* the calls made

dispvars == <<board, drv, clock, hw, since, calls>>
------------------------------------------------------------------------------
(* Clocks.                                                                  *)
MHz == 1000 * KHz
Step == 250 * KHz
DviActive(b) == b.tmds # <<>>
DviMaxClock == 165 * MHz
CeilDiv(n, d) == (n + d - 1) \div d

(* The first entry of the transmitter's table above the clock, or {}.       *)
SelectTmdsPll(b, hz) ==
  LET tenKHz == (hz + 5 * KHz) \div (10 * KHz)
      above == {i \in DOMAIN b.tmds : tenKHz < b.tmds[i].limit}
  IN IF hz > DviMaxClock \/ above = {} THEN {} ELSE {b.tmds[Min(above)].value}

ClockMinimum(b) == CeilDiv(CeilDiv(b.min * KHz, 16), Step) * Step

ClockMaximum(b) ==
  Min({230 * MHz, b.max * KHz} \cup (IF DviActive(b) THEN {164 * MHz + 3 * Step} ELSE {}))

ClockCount(b) == IF ClockMaximum(b) < ClockMinimum(b) THEN 0
                 ELSE (ClockMaximum(b) - ClockMinimum(b)) \div Step + 1
GetPixelClock(b, index) == ClockMinimum(b) + index * Step

Divisors == <<16, 12, 8, 6, 4, 3, 2, 1>>
Codes == <<5, 7, 3, 6, 2, 4, 1, 0>>
FeedbackMax == 2047

(* The settings for a clock as a set, empty where there are none.           *)
CalculatePll(b, hz, nearest) ==
  LET target == (hz + KHz \div 2) \div KHz
      fits == {i \in DOMAIN Divisors : b.min <= target * Divisors[i] /\ target * Divisors[i] <= b.max}
      i == Min(fits)
      fb == (b.div * target * Divisors[i] + b.ref \div 2) \div b.ref
      actual == (b.ref * KHz * fb + (b.div * Divisors[i]) \div 2) \div (b.div * Divisors[i])
      error == Max({actual - hz, hz - actual})
  IN IF hz = 0 \/ (DviActive(b) /\ hz > DviMaxClock) \/ fits = {}
     THEN {}
     ELSE IF \/ fb = 0 \/ fb > FeedbackMax
             \/ ~nearest /\ error * 200 > hz
             \/ DviActive(b) /\ actual > DviMaxClock
     THEN {}
     ELSE {[fb |-> fb, code |-> Codes[i], hz |-> actual]}
------------------------------------------------------------------------------
(* Modes.                                                                   *)
HSyncSize(size) == ((size + 4) \div 8) * 8

(* The raster that the controller makes of a mode, its rows doubled.        *)
Raster(m) ==
  LET rows == IF m.doublescan THEN 2 ELSE 1
  IN [hd |-> m.w, hs |-> m.w + m.hss, he |-> m.w + m.hss + HSyncSize(m.hsw), ht |-> m.ht,
      vd |-> m.h * rows, vs |-> (m.h + m.vss) * rows, ve |-> (m.h + m.vss + m.vsw) * rows,
      vt |-> m.vt * rows, doublescan |-> m.doublescan]

(* The line-doubled raster must fit the counters as well.                   *)
ValidateMode(m) ==
  LET r == Raster(m)
  IN /\ 8 <= m.w /\ m.w <= 4096 /\ m.w % 8 = 0
     /\ m.w < m.ht /\ m.ht <= 8192 /\ m.ht % 8 = 0 /\ 4 <= m.hsw /\ m.hsw <= 504
     /\ 0 < m.h /\ m.h <= 2048 /\ m.h < m.vt /\ m.vt <= 2048 /\ 0 < m.vsw /\ m.vsw <= 31
     /\ ~m.interlaced
     /\ m.doublescan => m.h <= 1024 /\ m.vt <= 1024
     /\ r.ve - r.vs <= 31 /\ r.hs <= 8199 /\ r.he <= r.ht /\ r.ve <= r.vt

FormatOfDepth(depth) ==
  CASE depth = 8 -> 1 [] depth \in {15, 16} -> 2 [] depth = 32 -> 4 [] OTHER -> 0
FormatMatchesDepth(f, depth) == f # 0 /\ FormatOfDepth(depth) = f
------------------------------------------------------------------------------
(* The parts of a call, as functions of the driver, the clocks and the      *)
(* registers together.                                                      *)
Now == [drv |-> drv, clock |-> clock, hw |-> hw]
Becomes(s) == drv' = s.drv /\ clock' = s.clock /\ hw' = s.hw

Raised(d) == d.valid /\ d.enabled /\ d.dpms = 0

ApplyDisplayState(s) ==
  LET dpms == <<{}, {"h"}, {"v"}, {"h", "v"}>>[s.drv.dpms + 1]
      fp == \/ DviActive(board) /\ Raised(s.drv) /\ s.drv.timingReady /\ s.drv.formatReady
            \/ ~DviActive(board) /\ s.hw.fp
  IN [s EXCEPT !.hw.off = dpms \cup (IF Raised(s.drv) THEN {} ELSE {"display"}), !.hw.fp = fp]

Invalid(s) == ApplyDisplayState([s EXCEPT !.drv.valid = FALSE])

CursorPlace(d, originRows) ==
  LET x == d.mouse[1] - d.xOffset
      y == d.mouse[2] - d.yOffset
      Origin(a) == IF a < 0 THEN Min({-a, CURSOR_WIDTH - 1}) ELSE 0
      rows == IF d.mode # NoMode /\ Timing[d.mode].doublescan THEN 2 ELSE 1
      oy == Origin(y) * (IF originRows THEN rows ELSE 1)
  IN [x |-> Max({x, 0}), y |-> Max({y, 0}) * rows, ox |-> Origin(x), oy |-> oy, row |-> oy]

\* Mutant: the clipping origin is in rows of the raster as well.
UpdateCursorPositionRaster(s) ==
  IF s.drv.sprite = {} THEN s ELSE [s EXCEPT !.hw.at = CursorPlace(s.drv, TRUE)]

(* The mouse may be left of or above the screen: the image is clipped by    *)
(* its origin.  Only the place on the screen is in rows of the raster.      *)
UpdateCursorPosition(s) ==
  IF s.drv.sprite = {} THEN s ELSE [s EXCEPT !.hw.at = CursorPlace(s.drv, FALSE)]

UploadCursor(s) ==
  IF s.drv.sprite = {} THEN s
  ELSE [s EXCEPT !.hw.image = [shape |-> s.drv.shape, color |-> s.drv.color]]

ModeClock(s, m) == s.clock[m].hz

TimingOff(s) ==
  [s EXCEPT !.drv.valid = FALSE, !.drv.timingReady = FALSE, !.drv.formatReady = FALSE,
            !.drv.mode = NoMode, !.hw.off = {"display", "h", "v"}]

TimingOn(s, m, dvi, tmds) ==
  [s EXCEPT !.drv.valid = TRUE, !.drv.timingReady = dvi, !.drv.mode = m,
            !.hw.fp = FALSE, !.hw.raster = Raster(Timing[m]), !.hw.shown = FALSE,
            !.hw.width = FormatOfDepth(Timing[m].depth), !.hw.tmds = tmds]

(* Whatever fails leaves the output off, and no mode.                       *)
ProgramTiming(s, m) ==
  LET dvi == DviActive(board)
      tmds == SelectTmdsPll(board, ModeClock(s, m))
      value == IF dvi THEN CHOOSE v \in tmds : TRUE ELSE s.hw.tmds
  IN IF ~ValidateMode(Timing[m]) \/ FormatOfDepth(Timing[m].depth) = 0 \/ (dvi /\ tmds = {})
     THEN TimingOff(s)
     ELSE UpdateCursorPosition(TimingOn(TimingOff(s), m, dvi, value))

ConfigureDac(s, f) == [s EXCEPT !.drv.formatReady = DviActive(board), !.hw.width = f]

Linear == [i \in 0..(PaletteSize - 1) |-> i]

ProgramPalette(s, start, count, linear) ==
  IF start >= PaletteSize \/ count > PaletteSize - start THEN s
  ELSE [s EXCEPT !.hw.palette =
          [i \in DOMAIN @ |-> IF i \notin start..(start + count - 1) THEN @[i]
                              ELSE IF linear THEN Linear[i] ELSE s.drv.clut[i]]]

\* Mutant: the clock's source is not looked at when the dividers are equal.
ClockUnchangedBySource(s, c) == s.hw.fb = c.fb /\ s.hw.code = c.code

(* The PLL already makes this clock and the CRTC uses it.                   *)
ClockUnchanged(s, c) == s.hw.fb = c.fb /\ s.hw.code = c.code /\ s.hw.vclk = "ppll"

(* The update of the PLL may never end: the CRTC then stays on the CPU's    *)
(* clock and the PLL in reset.  settles: neither wait runs out.             *)
ProgramClock(s, c, settles) ==
  IF ClockUnchanged(s, c) THEN s
  ELSE [s EXCEPT !.hw.fb = c.fb, !.hw.code = c.code, !.hw.reset = ~settles,
                 !.hw.vclk = IF settles THEN "ppll" ELSE "cpu"]

------------------------------------------------------------------------------
(* The calls.                                                               *)
Since(what, s) ==
  since' = (IF s.drv.valid THEN since \cup what ELSE {})

RadeonSetGC(m) ==
  LET s == ProgramTiming(Now, m)
  IN /\ drv.phase = "ready"
     /\ Becomes(s)
     /\ since' = IF s.drv.valid THEN {"placed"} ELSE {}
     /\ UNCHANGED board

RadeonSetDAC(f) ==
  /\ drv.phase = "ready"
  /\ LET s == IF f = 0 THEN Invalid(Now)
              ELSE [ProgramPalette(ConfigureDac(Now, f), 0, PaletteSize, f # 1)
                      EXCEPT !.drv.format = f]
     IN Becomes(s) /\ Since({"dac"}, s)
  /\ UNCHANGED board

(* Picasso96 stores colours in CLUT and names the entries.                  *)
RadeonSetColorArray(start, count, color) ==
  /\ drv.phase = "ready"
  /\ LET s == [Now EXCEPT !.drv.clut =
                 [i \in DOMAIN @ |-> IF i \in start..(start + count - 1) THEN color ELSE @[i]]]
     IN Becomes(IF s.drv.format = 1 THEN ProgramPalette(s, start, count, FALSE) ELSE s)
  /\ UNCHANGED <<board, since>>

RadeonResolvePixelClock(m, f, hz) ==
  LET wanted == IF hz <= ClockMinimum(board) THEN 0
                ELSE (hz - ClockMinimum(board) + Step \div 2) \div Step
      index == Min({wanted, ClockCount(board) - 1})
      pll == CalculatePll(board, GetPixelClock(board, index), TRUE)
  IN /\ drv.phase = "ready"
     /\ FormatMatchesDepth(f, Timing[m].depth) /\ ValidateMode(Timing[m]) /\ ClockCount(board) # 0
     /\ pll # {}
     /\ clock' = [clock EXCEPT ![m] = CHOOSE p \in pll : TRUE]
     /\ since' = IF m = drv.mode THEN since \cup {"resolved"} ELSE since
     /\ UNCHANGED <<board, drv, hw>>

RadeonSetClock(settles) ==
  LET c == IF drv.mode = NoMode THEN [fb |-> 0, code |-> 0, hz |-> 0] ELSE clock[drv.mode]
      s == ProgramClock(Now, c, settles)
  IN /\ drv.phase = "ready"
     /\ IF c.fb = 0 THEN LET i == Invalid(Now) IN Becomes(i) /\ Since({}, i)
        ELSE IF settles \/ ClockUnchanged(Now, c)
             THEN LET a == ApplyDisplayState(s) IN Becomes(a) /\ Since({"clock"}, a)
             ELSE LET i == Invalid(s) IN Becomes(i) /\ Since({}, i)
     /\ UNCHANGED board

Round(n, to) == CeilDiv(n, to) * to

(* The end of what the controller reads.                                    *)
Scanned(offset, t, pitch, f) == offset + (t.h - 1) * pitch + t.w * f

(* Linear offsets have a granularity of eight bytes.                        *)
RadeonSetPanning(p, f) ==
  LET t == Timing[drv.mode]
      pitch == Round(p.width * f, 64)
      x == p.x - (p.x % (8 \div f))
      offset == p.memory + p.y * pitch + x * f
  IN /\ drv.phase = "ready" /\ drv.valid /\ drv.mode # NoMode
     /\ FormatMatchesDepth(f, t.depth)
     /\ 0 < p.width /\ p.width <= 4096 /\ pitch <= 65535 /\ (pitch \div f) % 8 = 0
     /\ 0 <= p.x /\ 0 <= p.y /\ 0 <= p.memory /\ p.memory < board.limit
     /\ p.x + t.w <= p.width
     /\ offset % 8 = 0 /\ Scanned(offset, t, pitch, f) <= board.limit
     /\ hw' = [hw EXCEPT !.pitch = pitch \div f, !.start = offset]
     /\ drv' = [drv EXCEPT !.xOffset = x, !.yOffset = p.y]
     /\ since' = (since \cup {"pan"}) \ {"placed"}
     /\ UNCHANGED <<board, clock>>

RadeonSetDisplay(state) ==
  /\ drv.phase = "ready"
  /\ Becomes(ApplyDisplayState([Now EXCEPT !.drv.enabled = state]))
  /\ UNCHANGED <<board, since>>

RadeonSetDPMSLevel(level) ==
  /\ drv.phase = "ready"
  /\ Becomes(ApplyDisplayState([Now EXCEPT !.drv.dpms = level]))
  /\ UNCHANGED <<board, since>>

RadeonSetSprite(active) ==
  LET s == [Now EXCEPT !.drv.sprite = {active}, !.hw.shown = active]
  IN /\ drv.phase = "ready" /\ drv.sprite # {}
     /\ Becomes(IF active THEN UpdateCursorPosition(s) ELSE s)
     /\ since' = IF active THEN since \cup {"placed"} ELSE since
     /\ UNCHANGED board

RadeonSetSpritePosition(p) ==
  /\ drv.phase = "ready"
  /\ Becomes(UpdateCursorPosition([Now EXCEPT !.drv.mouse = p]))
  /\ since' = since \cup {"placed"}
  /\ UNCHANGED board

RadeonSetSpriteImage(shape) ==
  /\ drv.phase = "ready"
  /\ Becomes(UpdateCursorPosition(UploadCursor([Now EXCEPT !.drv.shape = shape])))
  /\ since' = since \cup {"placed"}
  /\ UNCHANGED board

RadeonSetSpriteColor(color) ==
  /\ drv.phase = "ready" /\ drv.sprite # {}
  /\ Becomes(UploadCursor([Now EXCEPT !.drv.color = color]))
  /\ UNCHANGED <<board, since>>
------------------------------------------------------------------------------
(* The startup screen, and the end.                                         *)
StartupColors == [i \in 0..(PaletteSize - 1) |-> PaletteSize + i]

(* Every failure takes the mode back before it is freed.                    *)
StartupFailed(s) ==
  LET a == ApplyDisplayState([s EXCEPT !.drv.enabled = FALSE])
  IN [a EXCEPT !.drv.mode = IF @ = Startup THEN NoMode ELSE @,
               !.drv.startup = FALSE, !.drv.valid = FALSE]

(* The registers of the startup screen, once there is its clock and a mode. *)
StartupProgrammed(s) ==
  ProgramPalette([s EXCEPT !.drv.clut = StartupColors, !.drv.xOffset = 0, !.drv.yOffset = 0,
                           !.hw.pitch = 640, !.hw.start = 0], 0, PaletteSize, FALSE)

(* settles as in ProgramClock; line: the memory for a line was there.       *)
StartupScreen(s, settles, line) ==
  LET pll == CalculatePll(board, Timing[Startup].hz, FALSE)
      s0 == [s EXCEPT !.drv.startup = TRUE, !.drv.enabled = FALSE, !.drv.dpms = 0,
                      !.drv.valid = FALSE, !.drv.format = 1]
      c == CHOOSE c \in pll : TRUE
      s2 == ProgramTiming([s0 EXCEPT !.clock[Startup] = c], Startup)
      s3 == ProgramClock(ConfigureDac(s2, 1), c, settles)
      s4 == StartupProgrammed(s3)
  IN IF pll = {} THEN StartupFailed(s0)
     ELSE IF ~s2.drv.valid THEN StartupFailed(s2)
     ELSE IF ~(settles \/ ClockUnchanged(s2, c)) THEN StartupFailed(s3)
     ELSE IF ~line THEN StartupFailed(s4)
     ELSE ApplyDisplayState([s4 EXCEPT !.drv.enabled = TRUE])

RadeonShowStartupScreen(settles, line) ==
  LET done == StartupScreen(Now, settles, line)
  IN /\ drv.phase \in {"found", "released"}
     /\ Becomes([done EXCEPT !.drv.phase = IF done.drv.valid THEN "up" ELSE "failed"])
     /\ since' = IF done.drv.valid THEN {"dac", "clock", "pan"} ELSE {}
     /\ UNCHANGED board

(* The card asks for its features; a sprite needs private memory.           *)
RadeonInstallCallbacks(sprite) ==
  LET s0 == [Now EXCEPT !.drv.phase = "ready"]
      s1 == IF sprite
            THEN [UpdateCursorPosition(UploadCursor([s0 EXCEPT !.drv.sprite = {FALSE}]))
                    EXCEPT !.hw.shown = FALSE]
            ELSE s0
  IN /\ drv.phase = "up"
     /\ Becomes(IF drv.valid THEN s1 ELSE [s1 EXCEPT !.drv.enabled = TRUE, !.drv.dpms = 0])
     /\ since' = since \cup {"placed"}
     /\ UNCHANGED board

\* Mutant: a release leaves the startup mode in BoardInfo.
FinishBoardReleaseKeeps(s) ==
  [s EXCEPT !.drv.startup = FALSE, !.drv.valid = FALSE, !.drv.sprite = {}, !.drv.phase = "released",
            !.hw.off = {"display", "h", "v"}, !.hw.shown = FALSE]

Released(s, mode, shown) ==
  [s EXCEPT !.drv = [@ EXCEPT !.startup = FALSE, !.valid = FALSE, !.enabled = FALSE, !.dpms = 0,
                              !.timingReady = FALSE, !.formatReady = FALSE, !.sprite = {},
                              !.mode = mode, !.phase = "released"],
            !.hw = [@ EXCEPT !.off = {"display", "h", "v"}, !.shown = shown]]

(* The release.  RadeonMask32 is given the complement of FPON and           *)
(* FP_TMDS_EN as the bits to clear, so exactly these two stay as they were. *)
FinishBoardRelease(s) ==
  Released(s, IF s.drv.startup /\ s.drv.mode = Startup THEN NoMode ELSE s.drv.mode,
           s.drv.sprite = {} /\ s.hw.shown)

ReleaseDisplay ==
  /\ drv.phase \in {"up", "ready", "failed"}
  /\ Becomes(FinishBoardRelease(Now)) /\ since' = {} /\ UNCHANGED board
------------------------------------------------------------------------------
DisplayInit ==
  /\ board \in Boards
  /\ drv = [phase |-> "found", startup |-> FALSE, mode |-> NoMode, valid |-> FALSE,
            enabled |-> FALSE, dpms |-> 0, timingReady |-> FALSE, formatReady |-> FALSE,
            format |-> 1, clut |-> StartupColors, xOffset |-> 0, yOffset |-> 0, sprite |-> {},
            mouse |-> <<0, 0>>, shape |-> 0, color |-> 0]
  /\ clock = [m \in Modes \cup {Startup} |-> [fb |-> 0, code |-> 0, hz |-> Timing[m].hz]]
  /\ hw = [off |-> {}, fp |-> FALSE, raster |-> <<>>, width |-> 1, tmds |-> 0, fb |-> 0, code |-> 0,
           vclk |-> "cpu", reset |-> FALSE, palette |-> Linear, pitch |-> 0, start |-> 0,
           shown |-> FALSE, image |-> <<>>,
           at |-> [x |-> 0, y |-> 0, ox |-> 0, oy |-> 0, row |-> 0]]
  /\ since = {} /\ calls = 0

DisplayCall ==
  \/ \E settles, line \in BOOLEAN : RadeonShowStartupScreen(settles, line)
  \/ \E sprite \in BOOLEAN : RadeonInstallCallbacks(sprite)
  \/ \E m \in Modes : RadeonSetGC(m)
  \/ \E f \in Formats : RadeonSetDAC(f)
  \/ \E start \in 0..(PaletteSize - 1), color \in Colors : \E count \in 1..(PaletteSize - start) :
       RadeonSetColorArray(start, count, color)
  \/ \E m \in Modes, f \in Formats, hz \in Clocks : RadeonResolvePixelClock(m, f, hz)
  \/ \E settles \in BOOLEAN : RadeonSetClock(settles)
  \/ \E p \in Pannings, f \in Formats \ {0} : RadeonSetPanning(p, f)
  \/ \E state \in BOOLEAN : RadeonSetDisplay(state)
  \/ \E level \in 0..3 : RadeonSetDPMSLevel(level)
  \/ \E active \in BOOLEAN : RadeonSetSprite(active)
  \/ \E p \in Mouse : RadeonSetSpritePosition(p)
  \/ RadeonSetSpriteImage(1)
  \/ RadeonSetSpriteColor(1)
  \/ ReleaseDisplay

DisplayNext == calls < MaxDisplayCalls /\ calls' = calls + 1 /\ DisplayCall

DisplaySpec == DisplayInit /\ [][DisplayNext]_dispvars
------------------------------------------------------------------------------
Lit == "display" \notin hw.off

(* What the controller puts on the screen is a mode that was validated, of  *)
(* this ModeInfo, and Picasso96 wants it shown: no failure of any call      *)
(* leaves a half-programmed mode lit, on either output.                     *)
PictureIsValid ==
  drv.phase # "found" /\ Lit =>
    /\ drv.valid /\ drv.enabled /\ drv.dpms = 0 /\ hw.off = {} /\ drv.mode # NoMode
    /\ hw.raster = Raster(Timing[drv.mode]) /\ ValidateMode(Timing[drv.mode])
    /\ DviActive(board) /\ hw.fp => drv.timingReady /\ drv.formatReady

(* A picture whose clock was set runs on the PLL, out of reset, also after  *)
(* an earlier update of the PLL ran out of time.                            *)
ClockRuns == drv.phase = "ready" /\ Lit /\ "clock" \in since => hw.vclk = "ppll" /\ ~hw.reset

(* The transmitter is on only for a clock within the single link, with the  *)
(* PLL value of the BIOS for that clock, unless the displayed mode was      *)
(* given another clock behind its back.                                     *)
TmdsInRange ==
  drv.phase = "ready" /\ hw.fp /\ Lit /\ "clock" \in since /\ "resolved" \notin since =>
    LET hz == clock[drv.mode].hz
    IN hz <= DviMaxClock /\ {hw.tmds} = SelectTmdsPll(board, hz)

(* Indexed pictures show Picasso96's colours, the others a linear ramp.     *)
PaletteFitsFormat ==
  drv.phase = "ready" /\ Lit /\ "dac" \in since =>
    hw.palette = IF drv.format = 1 THEN drv.clut ELSE Linear

(* The controller reads only the board's memory.                            *)
ScanoutInside ==
  drv.phase = "ready" /\ Lit /\ {"dac", "pan"} \subseteq since
    /\ FormatMatchesDepth(drv.format, Timing[drv.mode].depth) =>
    LET rows == IF hw.raster.doublescan THEN hw.raster.vd \div 2 ELSE hw.raster.vd
    IN hw.start % 8 = 0 /\ hw.start + ((rows - 1) * hw.pitch + hw.raster.hd) * hw.width <= board.limit

(* The first visible row of the cursor is on the mouse's line of the        *)
(* raster, doubled or not, whatever mode was set since the mouse moved.     *)
CursorAtMouse ==
  drv.phase = "ready" /\ hw.shown /\ Lit /\ "placed" \in since =>
    LET rows == IF hw.raster.doublescan THEN 2 ELSE 1
        top == drv.mouse[2] - drv.yOffset
        left == drv.mouse[1] - drv.xOffset
        first == Max({0, -top})
    IN /\ first < CURSOR_WIDTH => hw.at.row = first /\ hw.at.y = (top + first) * rows
       /\ -left < CURSOR_WIDTH => hw.at.x - hw.at.ox = left

(* BoardInfo never points at the startup mode after it was freed.           *)
NoDanglingMode == drv.mode = Startup => drv.startup

(* Every entry of the clock ladder that Picasso96 is offered has settings,  *)
(* within the limits of the output that was asked for.                      *)
LadderResolves ==
  drv.phase = "found" =>
    \A index \in 0..(ClockCount(board) - 1) :
      LET pll == CalculatePll(board, GetPixelClock(board, index), TRUE)
      IN /\ pll # {}
         /\ \A p \in pll : /\ p.fb \in 1..FeedbackMax
                           /\ DviActive(board) => p.hz <= DviMaxClock /\ SelectTmdsPll(board, p.hz) # {}

(* The counters of the raster, doubled, fit the registers' eleven bits.     *)
RegistersFit == hw.raster # <<>> => /\ hw.raster.vt <= 2048 /\ hw.raster.ve <= hw.raster.vt
                                    /\ hw.raster.ve - hw.raster.vs <= 31
                                    /\ hw.raster.he <= hw.raster.ht

(* A release blanks the output, and the transmitter with it.  It does not.  *)
ReleasedIsDark == drv.phase = "released" => hw.off = {"display", "h", "v"} /\ ~hw.shown /\ ~hw.fp

(* The states are records of the declared kinds.                            *)
DisplayTypeOK ==
  /\ board \in Boards
  /\ drv.phase \in {"found", "up", "ready", "failed", "released"}
  /\ drv.mode \in Modes \cup {Startup, NoMode} /\ drv.dpms \in 0..3
  /\ {drv.startup, drv.valid, drv.enabled, drv.timingReady, drv.formatReady, hw.fp, hw.reset,
      hw.shown} \subseteq BOOLEAN
  /\ drv.format \in Formats \ {0} /\ drv.sprite \in SUBSET BOOLEAN
  /\ hw.off \subseteq {"display", "h", "v"} /\ hw.vclk \in {"cpu", "ppll"}
  /\ \A m \in DOMAIN clock : clock[m].fb \in 0..FeedbackMax /\ clock[m].hz \in Nat
  /\ hw.palette \in [0..(PaletteSize - 1) -> Colors \cup 0..(2 * PaletteSize - 1)]
  /\ since \subseteq {"dac", "clock", "pan", "placed", "resolved"}
===============================================================================
