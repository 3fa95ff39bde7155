-------------------------------- MODULE Draw2D --------------------------------
(***************************************************************************)
(* The 2D callbacks of radeon_accel.c down to the engine's registers: the  *)
(* validation of surfaces and rectangles, the shadow of eleven registers   *)
(* that saves writes (EngineState), the state of the host data path        *)
(* (HostTemplateReady), the surface that lines remember (LineSurface), and *)
(* what the engine paints with the values its registers then hold.         *)
(*                                                                         *)
(* The board is small: addresses are offsets into the aperture, and the    *)
(* hardware's granules (1024 and 64 bytes, 32 bits of host data, 8 bits of *)
(* a byte, the 8x8 brush) are constants.  A pixel is a set of planes, and  *)
(* before each call every pixel holds the planes of its address's binary   *)
(* digits, so that a pixel copied from the wrong place is told apart.      *)
(* Which engine may draw when is in Engine; here other work is one action. *)
(***************************************************************************)
EXTENDS Integers, Sequences, FiniteSets, FiniteSetsExt, SequencesExt

CONSTANTS
  BaseAlign, PitchAlign,   \* granules of the pitch and offset registers
  MaxPitch, MaxCoord,      \* ACCEL_MAX_PITCH, ACCEL_MAX_COORD
  Aperture,                \* MemorySpaceSize
  Plane,                   \* the planes of a pixel, 0 to 7
  HostBits, ByteBits,      \* bits of a HOST_DATA word, and of a byte
  PatternEdge,             \* rows and columns of the engine's brush
  StageBytes,              \* TEMPLATE_STAGE_SIZE, in bytes of ByteBits
  Render,                  \* bitmaps: their memory and BytesPerRow
  Pairs,                   \* bitmaps that are copied to one another
  Rects,                   \* rectangles <<x, y, width, height>>
  Shifts,                  \* distances from a copy's source to its destination
  DrawFormats,                 \* RGBFormats, by their bytes per pixel; 0 for others
  Pens, Masks,             \* sets of planes
  Opcodes,                 \* of BlitRectNoMaskComplete
  Patterns, Templates, Lines, Planars,
  Cim,                     \* ColorIndexMapping, by the set of planes that are one
  Openings,                \* MemorySize when the board comes up, and whether templates are staged
  MaxCalls                 \* drawCalls after which the board is closed again

ASSUME Draw2DAssumption ==
  /\ {BaseAlign, PitchAlign, HostBits, ByteBits, PatternEdge} \subseteq Nat \ {0}
  /\ {MaxPitch, MaxCoord, Aperture, StageBytes, MaxCalls} \subseteq Nat
  /\ \A o \in Openings : /\ o[1] \in 0..Aperture /\ o[2] \in BOOLEAN
                         /\ o[2] => o[1] % BaseAlign = 0    \* the stage begins at a granule
  /\ \A r \in Render \cup {pair[k] : pair \in Pairs, k \in {1, 2}} : r.memory \in Int /\ r.pitch \in Int
  /\ \A q \in Rects : \A k \in 1..4 : q[k] \in Int
  /\ \A d \in Shifts : d[1] \in Int /\ d[2] \in Int
  /\ \A l \in Lines : {l.x, l.y, l.dx, l.dy} \subseteq Int
  /\ \A p \in Planars : Len(p.planes) \in Nat
  /\ DrawFormats \subseteq {0, 1, 2, 4}
  /\ \A m \in Masks \cup Pens : m \subseteq Plane

(* Pens are sets of planes, a pattern of 2^Size rows fills the brush in      *)
(* whole repetitions, and lines are along an axis or a diagonal: see Dots.   *)
ASSUME SourceAssumption ==
  /\ \A p \in Patterns : /\ {p.fg, p.bg} \subseteq SUBSET Plane /\ {p.xoff, p.yoff} \subseteq Nat
                         /\ p.size <= 3 => Len(p.rows) \in Nat \ {0} /\ PatternEdge % Len(p.rows) = 0
  /\ \A t \in Templates : {t.fg, t.bg} \subseteq SUBSET Plane
  /\ Opcodes \subseteq Nat
  /\ \A l \in Lines : l.pen \subseteq Plane /\ (l.dx = 0 \/ l.dy = 0 \/ l.dx = l.dy \/ l.dx = -l.dy)

VARIABLES
  card,     \* driver and board, see EngineCard
  last,     \* what came of the last call, see Nothing
  drawCalls     \* callbacks since the board was opened, up to MaxCalls

d2vars == <<card, last, drawCalls>>

Register == {"master", "mask", "cntl", "dst", "src", "fg", "bg", "srcfg", "srcbg", "tl", "br"}
ScissorMax == MaxCoord

\* Before the call, the pixel at address a.
Label(a) == {p \in Plane : (a \div 2^p) % 2 = 1}
OnBoard == [a \in 0..Aperture-1 |-> Label(a)]
------------------------------------------------------------------------------
(* Formats and pens.  The engine keeps the low byte of a pixel first, the   *)
(* processor the high byte: HardwarePen exchanges them.                     *)
HardwareDatatype(f) == f
Top == Max(Plane)
ASSUME PlaneAssumption ==
  /\ Top \in Nat /\ Plane = 0..Top /\ (Top + 1) % ByteBits = 0   \* whole bytes
Swapped(pen) == {Top - ByteBits + 1 - ByteBits * (p \div ByteBits) + (p % ByteBits) : p \in pen}
HardwarePen(pen, f) == IF f = 1 THEN pen ELSE Swapped(pen)

WriteMask(mask, f) == IF f = 1 THEN mask ELSE Plane
Rop3(code, p, s, d) ==
  {b \in Plane : LET n == (IF b \in p THEN 4 ELSE 0) + (IF b \in s THEN 2 ELSE 0)
                          + (IF b \in d THEN 1 ELSE 0)
                 IN (code \div 2^n) % 2 = 1}
ROP3_S == 204
ROP3_P == 240
ROP3_Dn == 85
P96CopyRop3(opcode) == 17 * opcode
------------------------------------------------------------------------------
(* Surfaces.                                                                *)
IsOffboardMemory(a) == a < 0 \/ a >= Aperture
SoftwareSurfaceResult(r) ==
  [result |-> IF IsOffboardMemory(r.memory) THEN "offboard" ELSE "onboard"]
Result(s) == [result |-> s]

(* What of the surface's address the offset register cannot hold, in rows   *)
(* and pixels.                                                              *)
Bias(r, bpp) ==
  LET bytes == r.memory % BaseAlign
  IN <<(bytes % r.pitch) \div bpp, bytes \div r.pitch>>

LastByte(r, x, y, w, h, bpp) == (y + h - 1) * r.pitch + (x + w) * bpp

Extent(r, x, y, w, h, bpp) ==
  [start |-> r.memory + y * r.pitch + x * bpp, end |-> r.memory + LastByte(r, x, y, w, h, bpp)]

ValidateSurface(c, r, x, y, w, h, f) ==
  LET bpp == HardwareDatatype(f)
      bias == Bias(r, bpp)
  IN IF bpp = 0 \/ r.pitch <= 0 THEN SoftwareSurfaceResult(r)
     ELSE IF w <= 0 \/ h <= 0 THEN Result("reject")
     ELSE IF x < 0 \/ y < 0 THEN SoftwareSurfaceResult(r)
     ELSE IF IsOffboardMemory(r.memory) THEN Result("offboard")
     ELSE IF r.memory >= c.limit THEN Result("reject")
     ELSE IF r.pitch % PitchAlign # 0 \/ r.pitch > MaxPitch THEN Result("onboard")
     ELSE IF x + w - 1 > MaxCoord \/ y + h - 1 > MaxCoord THEN Result("onboard")
     ELSE IF (x + w) * bpp > r.pitch \/ LastByte(r, x, y, w, h, bpp) > c.limit - r.memory
       THEN Result("reject")
     ELSE IF ((r.memory % BaseAlign) % r.pitch) % bpp # 0 THEN Result("onboard")
     ELSE IF bias[1] + x + w - 1 > MaxCoord \/ bias[2] + y + h - 1 > MaxCoord
       THEN Result("onboard")
     ELSE [result |-> "hardware", r |-> r, bpp |-> bpp, limit |-> c.limit,
           po |-> <<r.pitch, r.memory - (r.memory % BaseAlign)>>, bias |-> bias,
           extent |-> Extent(r, x, y, w, h, bpp)]

(* The same checks for another rectangle of a surface found good.           *)
ValidateSameSurfaceRectangle(x, y, w, h, s) ==
  IF x < 0 \/ y < 0 \/ x + w - 1 > MaxCoord \/ y + h - 1 > MaxCoord THEN Result("onboard")
  ELSE IF (x + w) * s.bpp > s.r.pitch \/ LastByte(s.r, x, y, w, h, s.bpp) > s.limit - s.r.memory
    THEN Result("reject")
  ELSE IF s.bias[1] + x + w - 1 > MaxCoord \/ s.bias[2] + y + h - 1 > MaxCoord
    THEN Result("onboard")
  ELSE [s EXCEPT !.extent = Extent(s.r, x, y, w, h, s.bpp)]
------------------------------------------------------------------------------
(* The driver's and the board's state.  An empty tuple is a register whose  *)
(* value the driver does not know.                                          *)
Unknown == <<>>
NoLine == [valid |-> FALSE]

(* What is known of a board; besides, shadow is EngineState.Value where     *)
(* ValidMask has the bit, and line is LineSurface.                          *)
EngineCard ==
  [accel   : {"READY", "FALLBACK", "UNSAFE"},   \* AccelState
   pending : {"NONE", "MMIO", "CP"},  \* AccelPending
   restore : BOOLEAN,                 \* Need2DRestore
   slipped : BOOLEAN,                 \* the baseline was owed and is forgotten, see Forgotten
   tried   : BOOLEAN,                 \* AccelRecoveryTried
   staging : BOOLEAN,                 \* TemplateStaging
   staged  : BOOLEAN,                 \* the engine may still read the stage
   ready   : BOOLEAN,                 \* HostTemplateReady
   limit   : {o[1] : o \in Openings},                  \* the least of the memory sizes
   host    : SUBSET {"swap", "endian", "clean"},  \* RBBM_GUICNTL, DP_DATATYPE, caches
   held    : {"no", "line", "stale"}] \* the aperture's read-ahead line
 
Fresh(l) ==
  [accel |-> "READY", pending |-> "NONE", restore |-> FALSE, slipped |-> FALSE, tried |-> FALSE, staging |-> FALSE, staged |-> FALSE,
   ready |-> FALSE, limit |-> l, host |-> {}, held |-> "no",
   regs |-> [r \in Register |-> Unknown], shadow |-> <<>>, line |-> NoLine]

\* Mutant: the shadow survives.
InvalidateNothing(c) == [c EXCEPT !.ready = FALSE]

InvalidateEngineState(c) == [c EXCEPT !.shadow = <<>>, !.ready = FALSE]

(* SetEngineState for a group of registers: what the shadow has already is  *)
(* not written again.                                                       *)
SetEngineState(c, values) ==
  [c EXCEPT !.regs = [r \in Register |->
                        IF r \in DOMAIN values
                           /\ ~(r \in DOMAIN c.shadow /\ c.shadow[r] = values[r])
                        THEN values[r] ELSE @[r]],
            !.shadow = [r \in DOMAIN values \cup DOMAIN @ |->
                          IF r \in DOMAIN values THEN values[r] ELSE @[r]]]

BeginEnginePath(c, hostTemplate) == [c EXCEPT !.ready = @ /\ hostTemplate]

(* The baseline that 3D work, a reset and a lease leave to be written.      *)
RestoreEngineState(c) ==
  SetEngineState(
    [BeginEnginePath(InvalidateEngineState(c), FALSE)
       EXCEPT !.host = @ \cup {"endian"}, !.slipped = FALSE],
    [r \in Register \ {"master", "dst", "src"} |->
       CASE r = "tl" -> <<0, 0>>
         [] r = "br" -> <<ScissorMax, ScissorMax>>
         [] r \in {"fg", "srcfg", "mask"} -> <<Plane>>
         [] r \in {"bg", "srcbg"} -> <<{}>>
         [] r = "cntl" -> <<TRUE, TRUE>>])

ResetEngine(c) ==
  [c EXCEPT !.regs = [r \in Register |-> Unknown], !.host = {}, !.held = "no", !.staged = FALSE]

DropApertureReadLine(c) == [c EXCEPT !.held = "no"]
------------------------------------------------------------------------------
(* Functions that wait for the hardware: from a state to the set of their   *)
(* outcomes.  mem is what the board's memory holds; no call reads more.     *)
Outcome(ok, c, mem) == [ok |-> ok, c |-> c, mem |-> mem]
AndThen(S, F(_, _)) == UNION {IF o.ok THEN F(o.c, o.mem) ELSE {o} : o \in S}

(* RecoverEngine: the engine stuck, without or with the command processor.  *)
RecoverEngine(c, mem) ==
  LET d == RestoreEngineState(ResetEngine([c EXCEPT !.tried = TRUE, !.pending = "NONE", !.restore = FALSE]))
  IN IF c.tried THEN {Outcome(FALSE, c, mem)}
     ELSE {Outcome(FALSE, [d EXCEPT !.accel = "UNSAFE"], mem),
           Outcome(TRUE, [d EXCEPT !.accel = "FALLBACK"], mem),
           Outcome(TRUE, [d EXCEPT !.accel = "READY", !.tried = FALSE], mem)}

(* Waiting for 2D work writes no baseline, owed or not.                     *)
Forgotten(c) == [c EXCEPT !.slipped = @ \/ c.restore]
SynchronizeEngine(c, mem) ==
  LET drained == [IF c.pending = "CP" THEN RestoreEngineState(c) ELSE Forgotten(c)
                  EXCEPT !.pending = "NONE", !.restore = FALSE, !.staged = FALSE]
  IN IF c.pending = "NONE" THEN {Outcome(c.accel # "UNSAFE", c, mem)}
     ELSE {Outcome(TRUE, DropApertureReadLine(drained), mem)} \cup RecoverEngine(c, mem)

(* A live lease refuses.  It is granted behind 3D work or on a drained      *)
(* engine; 2D work is pending under it after a call that submits nothing.   *)
LeaseBlocks(c) == BOOLEAN

PrepareMmioEngine(c, mem) ==
  IF c.accel # "READY" THEN {Outcome(FALSE, c, mem)}
  ELSE UNION {IF blocked THEN {Outcome(FALSE, c, mem)}
              ELSE IF c.restore THEN SynchronizeEngine(c, mem)
              ELSE {Outcome(TRUE, c, mem)} : blocked \in LeaseBlocks(c)}

------------------------------------------------------------------------------
(* The engine: the rectangle is walked from its first corner in the         *)
(* direction of DP_CNTL, each pixel read, combined and written in turn.  An *)
(* empty tuple is painting that nobody can foresee.                         *)
Mono == {"hostbg", "hostla", "stagebg", "stagela"}
Transparent == {"hostla", "stagela"}
Master(kind, f, rop) == <<kind, f, rop>>

Walk(from, i, forward) == IF forward THEN from + i ELSE from - i
Address(po, X, Y, bpp) == po[2] + Y * po[1] + X * bpp

(* Pixel i of a rectangle from the corner o, and its bit of the brush or of *)
(* the monochrome source, which bits has by column and row.                 *)
Column(c, o, size, i) == Walk(o[1], i % size[1], c.regs.cntl[1])
Row(c, o, size, i) == Walk(o[2], i \div size[1], c.regs.cntl[2])
AddressAt(c, po, o, size, i) ==
  Address(po, Column(c, o, size, i), Row(c, o, size, i), HardwareDatatype(c.regs.master[2]))
One(bits, size, i) == bits[<<i % size[1], i \div size[1]>>] = 1

\* It is painted: streams are clipped, and transparent where they have a zero.
Shown(c, X, Y, one) ==
  /\ IF c.regs.master[1] \in Mono
     THEN c.regs.tl[1] <= X /\ X < c.regs.br[1] /\ c.regs.tl[2] <= Y /\ Y < c.regs.br[2]
     ELSE X <= ScissorMax /\ Y <= ScissorMax
  /\ c.regs.master[1] \in Transparent => one

(* What becomes of old under the source pixel src, both in the processor's  *)
(* byte order and the engine working in its own.                            *)
Combined(c, one, src, old) ==
  LET kind == c.regs.master[1]
      f == c.regs.master[2]
      p == IF kind \in Mono \cup {"copy"} THEN {} ELSE IF kind = "solid" \/ one THEN c.regs.fg[1] ELSE c.regs.bg[1]
      s == IF kind = "copy" THEN HardwarePen(src, f)
           ELSE IF kind \notin Mono THEN {} ELSE IF one THEN c.regs.srcfg[1] ELSE c.regs.srcbg[1]
      new == HardwarePen(Rop3(c.regs.master[3], p, s, HardwarePen(old, f)), f)
  IN (new \cap c.regs.mask[1]) \cup (old \ c.regs.mask[1])

\* The registers that a drawing of a kind reads.
Needed(kind) ==
  {"master", "mask", "cntl", "dst"} \cup
    (IF kind = "copy" THEN {"src"} ELSE IF kind \in Mono THEN {"tl", "br", "srcfg", "srcbg"}
     ELSE IF kind = "solid" THEN {"fg"} ELSE {"fg", "bg"})

Paint(c, mem, at, size, from, bits) ==
  LET n    == size[1] * size[2]
      D(i) == AddressAt(c, c.regs.dst, at, size, i)
      S(i) == AddressAt(c, c.regs.src, from, size, i)
      In(i) == Shown(c, Column(c, at, size, i), Row(c, at, size, i), One(bits, size, i))
      Seen(val, a, i) ==
        LET J == {j \in 0..i-1 : In(j) /\ D(j) = a}
        IN IF J # {} THEN val[Max(J)] ELSE IF a \in DOMAIN mem THEN mem[a] ELSE {}
      val[i \in 0..n-1] ==
        Combined(c, One(bits, size, i), IF c.regs.master[1] = "copy" THEN Seen(val, S(i), i) ELSE {}, Seen(val, D(i), i))
  IN IF \/ \E r \in Needed(c.regs.master[1]) : c.regs[r] = Unknown
        \/ \E i \in 0..n-1 : In(i) /\ D(i) \notin DOMAIN mem
     THEN <<>>
     ELSE [a \in DOMAIN mem |-> Seen(val, a, n)]

(* A monochrome stream reaches the engine intact when byte swapping is as   *)
(* set up and the destination cache holds nothing of other operations.      *)
HostPathGood(c) == c.host = {"swap", "endian", "clean"}

(* Painting leaves the destination cache dirty, and VRAM newer than the     *)
(* line that the aperture may hold.                                         *)
Painted(c) ==
  [c EXCEPT !.host = IF c.regs.master[1] \in {"hostbg", "hostla"} THEN @ ELSE @ \ {"clean"},
            !.held = IF @ = "no" THEN "no" ELSE "stale"]
Draw(c, mem, at, size, from, bits) ==
  {Outcome(TRUE, Painted(c), IF mem = <<>> THEN <<>> ELSE Paint(c, mem, at, size, from, bits))}
NoBits == <<>>
------------------------------------------------------------------------------
(* Submissions: registers, then the write that starts the engine.  They are *)
(* given a surface s as ValidateSurface returns it.                         *)
Origin(s, x, y) == <<x + s.bias[1], y + s.bias[2]>>
LeftToRight == <<TRUE, TRUE>>

SubmitSolidRect(c, mem, s, x, y, w, h, pen, mask, f, rop) ==
  AndThen(PrepareMmioEngine(c, mem), LAMBDA d, m :
    LET e == SetEngineState(BeginEnginePath(d, FALSE),
               [master |-> Master("solid", f, rop), fg |-> <<HardwarePen(pen, f)>>,
                mask |-> <<WriteMask(mask, f)>>, cntl |-> LeftToRight, dst |-> s.po])
    IN Draw(e, m, Origin(s, x, y), <<w, h>>, <<0, 0>>, NoBits))

(* PrepareMonoPattern: JAM2, in ordinary memory, and no wider than the      *)
(* brush; data is the brush, the pattern's rows repeated.                   *)
PrepareMonoPattern(p) ==
  /\ p.size <= 3 /\ p.mode = "jam2" /\ ~p.onboard
  /\ \A row \in 1..Len(p.rows) : \A b \in 1..PatternEdge :
       p.rows[row][b] = p.rows[row][b + PatternEdge]
BrushBit(p, phase, X, Y) ==
  p.rows[1 + (((Y + phase[2]) % PatternEdge) % Len(p.rows))][1 + ((X + phase[1]) % PatternEdge)]

PatternPhase(p, at) ==
  <<((p.xoff % PatternEdge) + PatternEdge - (at[1] % PatternEdge)) % PatternEdge,
    ((p.yoff % PatternEdge) + PatternEdge - (at[2] % PatternEdge)) % PatternEdge>>

BrushBits(p, at, w, h) ==
  [ij \in (0..w-1) \X (0..h-1) |-> BrushBit(p, PatternPhase(p, at), at[1] + ij[1], at[2] + ij[2])]

SubmitPattern(c, mem, s, p, x, y, w, h, mask, f) ==
  AndThen(PrepareMmioEngine(c, mem), LAMBDA d, m :
    LET at == Origin(s, x, y)
        e == SetEngineState(BeginEnginePath(d, FALSE),
               [master |-> Master("pattern", f, ROP3_P), mask |-> <<WriteMask(mask, f)>>,
                fg |-> <<HardwarePen(p.fg, f)>>, bg |-> <<HardwarePen(p.bg, f)>>,
                cntl |-> LeftToRight, dst |-> s.po])
    IN Draw(e, m, at, <<w, h>>, <<0, 0>>, BrushBits(p, at, w, h)))

(* PrepareTemplate: a template in ordinary memory whose rows are as wide as *)
(* the rectangle.                                                           *)
RowBits(t) == Len(t.rows[1])
PrepareTemplate(t, w, h) ==
  /\ t.mode \in {"jam1", "jam2"} /\ ~t.onboard /\ t.xoff <= 15
  /\ w > 0 /\ h > 0 /\ t.xoff + w <= RowBits(t)

RoundUp(n, unit) == ((n + unit - 1) \div unit) * unit

\* The pitch of the widest row that is staged is one that the engine can hold.
ASSUME StageAssumption ==
  RoundUp(RoundUp(MaxCoord + 1, ByteBits) \div ByteBits, PitchAlign) <= MaxPitch

(* StageTemplateRows packs the rows into VRAM at a pitch of PitchAlign,     *)
(* every byte reversed, and reads back behind the writes.  0 if too large.  *)
MonoPitchPacked(w, h) ==   \* mutant: rows are packed without gaps
  LET pitch == RoundUp(w, ByteBits) \div ByteBits
  IN IF pitch = 0 \/ pitch > StageBytes \div h THEN 0 ELSE pitch
MonoPitch(w, h) ==
  LET pitch == RoundUp(RoundUp(w, ByteBits) \div ByteBits, PitchAlign)
  IN IF pitch = 0 \/ pitch > StageBytes \div h THEN 0 ELSE pitch
ReverseByte(i) == (i \div ByteBits) * ByteBits + ByteBits - 1 - (i % ByteBits)
StagedBit(t, w, i, j) ==
  LET k == ReverseByte(i) IN IF k < w THEN t.rows[j + 1][t.xoff + k + 1] ELSE 0

(* The engine takes a byte's lowest bit first.                              *)
StagedBits(t, w, h) == [ij \in (0..w-1) \X (0..h-1) |-> StagedBit(t, w, ReverseByte(ij[1]), ij[2])]
StageFilled(c) == [c EXCEPT !.staged = TRUE]

SubmitStagedTemplate(c, mem, s, t, x, y, w, h, mask, f) ==
  AndThen(PrepareMmioEngine(c, mem), LAMBDA d, m :
    LET at == Origin(s, x, y)
        e == SetEngineState(BeginEnginePath(StageFilled(d), FALSE),
               [master |-> Master(IF t.mode = "jam2" THEN "stagebg" ELSE "stagela", f, ROP3_S),
                mask |-> <<WriteMask(mask, f)>>,
                srcfg |-> <<HardwarePen(t.fg, f)>>, srcbg |-> <<HardwarePen(t.bg, f)>>,
                cntl |-> LeftToRight, dst |-> s.po, src |-> <<MonoPitch(w, h), c.limit>>,
                tl |-> at, br |-> <<at[1] + w, at[2] + h>>])
    IN Draw(e, m, at, <<w, h>>, <<0, 0>>, StagedBits(t, w, h)))

(* One upload through HOST_DATA, for templates and planes: whole words, the *)
(* last one filled up beyond the width, which the scissor cuts off.         *)
HostPathBroken(c) == [c EXCEPT !.ready = FALSE]
HostPathOpened(c) ==
  [IF c.ready THEN c ELSE [c EXCEPT !.host = @ \cup {"swap", "clean"}] EXCEPT !.ready = TRUE]

HostUpload(c, mem, s, x, y, w, h, fg, bg, writeMask, transparent, f, bits) ==
  AndThen(PrepareMmioEngine(c, mem), LAMBDA d, m :
    LET begun == BeginEnginePath(d, TRUE)
        at == Origin(s, x, y)
        e == SetEngineState(HostPathOpened(begun),
               [master |-> Master(IF transparent THEN "hostla" ELSE "hostbg", f, ROP3_S),
                mask |-> <<writeMask>>, srcfg |-> <<HardwarePen(fg, f)>>,
                srcbg |-> <<HardwarePen(bg, f)>>, cntl |-> LeftToRight, dst |-> s.po,
                tl |-> at, br |-> <<at[1] + w, at[2] + h>>])
    IN {Outcome(FALSE, HostPathBroken(begun), m)} \cup
       Draw(e, IF HostPathGood(e) THEN m ELSE <<>>, at, <<RoundUp(w, HostBits), h>>, <<0, 0>>, bits))

(* Beyond the template's own bits a word is filled with zeros.              *)
TemplateBits(t, w, h) ==
  [ij \in (0..RoundUp(w, HostBits)-1) \X (0..h-1) |->
     IF ij[1] < w THEN t.rows[ij[2] + 1][t.xoff + ij[1] + 1] ELSE 0]
SubmitTemplate(c, mem, s, t, x, y, w, h, mask, f) ==
  HostUpload(c, mem, s, x, y, w, h, t.fg, t.bg, WriteMask(mask, f), t.mode = "jam1", f,
             TemplateBits(t, w, h))

\* Mutant: copies always start at the first corner.
SubmitCopyForward(c, mem, s, d, sx, sy, dx, dy, w, h, mask, f, sameLayout, reverse, rop) ==
  AndThen(PrepareMmioEngine(c, mem), LAMBDA e, m :
    LET g == SetEngineState(BeginEnginePath(e, FALSE),
               [master |-> Master("copy", f, rop), mask |-> <<WriteMask(mask, f)>>,
                cntl |-> LeftToRight, src |-> s.po, dst |-> d.po])
    IN Draw(g, m, Origin(d, dx, dy), <<w, h>>, Origin(s, sx, sy), NoBits))

SubmitCopy(c, mem, s, d, sx, sy, dx, dy, w, h, mask, f, sameLayout, reverse, rop) ==
  AndThen(PrepareMmioEngine(c, mem), LAMBDA e, m :
    LET from == Origin(s, sx, sy)
        to   == Origin(d, dx, dy)
        forward == [k \in {1, 2} |-> \/ ~sameLayout /\ ~reverse
                                     \/ sameLayout /\ to[k] <= from[k]]
        Corner(o) == [k \in {1, 2} |-> IF forward[k] THEN o[k] ELSE o[k] + <<w, h>>[k] - 1]
        g == SetEngineState(BeginEnginePath(e, FALSE),
               [master |-> Master("copy", f, rop), mask |-> <<WriteMask(mask, f)>>,
                cntl |-> forward, src |-> s.po, dst |-> d.po])
    IN Draw(g, m, Corner(to), <<w, h>>, Corner(from), NoBits))
------------------------------------------------------------------------------
(* Planar sources: planes of no memory, of ones, or of rows of bits.        *)
Planes(p, kind) == {k \in 1..Len(p.planes) : p.planes[k].kind = kind}
PreparePlanarSource(p, sx, sy, w, h) ==
  /\ w > 0 /\ h > 0 /\ sx >= 0 /\ sy >= 0
  /\ sx + w <= p.rowBits /\ sy + h <= p.rowCount /\ Len(p.planes) <= 8
  /\ \A k \in Planes(p, "data") : ~p.planes[k].onboard
PlaneBit(p, k, i, j) ==
  CASE p.planes[k].kind = "zero" -> 0
    [] p.planes[k].kind = "ones" -> 1
    [] p.planes[k].kind = "data" -> p.planes[k].rows[j + 1][i + 1]

(* A streamed bit is set where every plane of all has a one and none of     *)
(* none; the fill beyond the width is complemented with its plane.          *)
PassBit(p, sx, sy, w, all, none, i, j) ==
  IF /\ \A k \in all : i < w /\ PlaneBit(p, k, sx + i, sy + j) = 1
     /\ \A k \in none : i < w => PlaneBit(p, k, sx + i, sy + j) = 0
  THEN 1 ELSE 0
PassBits(p, sx, sy, w, h, all, none) ==
  [ij \in (0..RoundUp(w, HostBits)-1) \X (0..h-1) |-> PassBit(p, sx, sy, w, all, none, ij[1], ij[2])]
SubmitPlanarPass(c, mem, s, p, sx, sy, x, y, w, h, all, none, fg, bg, writeMask, transparent, f) ==
  HostUpload(c, mem, s, x, y, w, h, fg, bg, writeMask, transparent, f,
             PassBits(p, sx, sy, w, h, all, none))

(* Bit k of the mask is plane k + 1 of the source.                          *)
Selected(p, mask) == {k \in 1..Len(p.planes) : k - 1 \in mask}

(* Passes one after the other, each if those before it went well.           *)
Pass(all, none, fg, bg, writeMask, transparent) ==
  [all |-> all, none |-> none, fg |-> fg, bg |-> bg, mask |-> writeMask, transparent |-> transparent]
PassBehind(begun, s, p, sx, sy, x, y, w, h, f, u) ==
  AndThen(begun, LAMBDA d, m :
    SubmitPlanarPass(d, m, s, p, sx, sy, x, y, w, h, u.all, u.none, u.fg, u.bg, u.mask, u.transparent, f))
SubmitPasses(begun, s, p, sx, sy, x, y, w, h, f, count, pass) ==
  LET upto[n \in 0..count] ==
        IF n = 0 THEN begun ELSE PassBehind(upto[n - 1], s, p, sx, sy, x, y, w, h, f, pass[n])
  IN upto[count]

(* The colours of cim by the set of planes that are one.                    *)
ConstBits(p, mask) == Selected(p, mask) \cap Planes(p, "ones")
DataBits(p, mask) == Selected(p, mask) \cap Planes(p, "data")
DataPlanes(p, mask) == SetToSortSeq(DataBits(p, mask), <)

FillBehind(begun, s, x, y, w, h, bits, pen) ==
  IF bits = {} THEN begun
  ELSE AndThen(begun, LAMBDA d, m : SubmitSolidRect(d, m, s, x, y, w, h, pen, bits, 1, ROP3_P))

SubmitPlanarChunky(c, mem, s, p, sx, sy, x, y, w, h, mask) ==
  LET Bits(kind) == {k - 1 : k \in Selected(p, mask) \cap Planes(p, kind)}
      cleared == FillBehind({Outcome(TRUE, c, mem)}, s, x, y, w, h, Bits("zero"), {})
      filled == FillBehind(cleared, s, x, y, w, h, Bits("ones"), Plane)
      count == Cardinality(DataBits(p, mask))
      plane(n) == DataPlanes(p, mask)[n]
  IN SubmitPasses(filled, s, p, sx, sy, x, y, w, h, 1, count,
                  [n \in 1..count |-> Pass({plane(n)}, {}, Plane, {}, {plane(n) - 1}, FALSE)])

(* The combinations of planes that the first pass painted in another colour,*)
(* the largest number first.                                                *)
Rest(cim, ones, data, first) ==
  {t \in SUBSET data : /\ t \ {first} # {}
                       /\ cim[ones \cup t] # cim[ones \cup (t \cap {first})]}
Number(planes) == SumSet({2^k : k \in planes})
RestInOrder(cim, ones, data, first) ==
  SetToSortSeq(Rest(cim, ones, data, first), LAMBDA a, b : Number(a) > Number(b))

SubmitPlanarDirect(c, mem, s, p, cim, sx, sy, x, y, w, h, mask, f) ==
  LET ones == ConstBits(p, mask)
      data == DataBits(p, mask)
      first == Min(data)
      count == Cardinality(Rest(cim, ones, data, first))
      t(n) == RestInOrder(cim, ones, data, first)[n]
  IN IF data = {}
     THEN SubmitSolidRect(c, mem, s, x, y, w, h, cim[ones], Plane, f, ROP3_P)
     ELSE SubmitPasses(SubmitPlanarPass(c, mem, s, p, sx, sy, x, y, w, h, {first}, {},
                                        cim[ones \cup {first}], cim[ones], Plane, FALSE, f),
                       s, p, sx, sy, x, y, w, h, f, count,
                       [n \in 1..count |-> Pass(t(n), data \ t(n), cim[ones \cup t(n)], {}, Plane, TRUE)])
------------------------------------------------------------------------------
(* Lines, on a surface that is worked out once and remembered.              *)
\* Mutant: the surface's bias is taken from its width.
LineLayoutNarrow(c, r, f) ==
  LET bias == Bias(r, f)
      rows == (c.limit - r.memory) \div r.pitch
  IN [valid |-> TRUE, r |-> r, f |-> f, bpp |-> f, bias |-> bias,
      po |-> <<r.pitch, r.memory - (r.memory % BaseAlign)>>,
      maxX |-> Min({r.pitch \div f - 1 - bias[1], MaxCoord}),
      maxY |-> Min({rows - 1, MaxCoord, MaxCoord - bias[2]})]

LineLayout(c, r, f) ==
  LET bias == Bias(r, f)
      rows == (c.limit - r.memory) \div r.pitch
  IN [valid |-> TRUE, r |-> r, f |-> f, bpp |-> f, bias |-> bias,
      po |-> <<r.pitch, r.memory - (r.memory % BaseAlign)>>,
      maxX |-> Min({r.pitch \div f - 1, MaxCoord, MaxCoord - bias[1]}),
      maxY |-> Min({rows - 1, MaxCoord, MaxCoord - bias[2]})]

(* The result of working the surface out, "good" where it is remembered.    *)
LineSurface(c, r, f) ==
  IF f = 0 \/ r.pitch <= 0 THEN SoftwareSurfaceResult(r).result
  ELSE IF IsOffboardMemory(r.memory) THEN "offboard"
  ELSE IF r.memory >= c.limit THEN "reject"
  ELSE IF r.pitch % PitchAlign # 0 \/ r.pitch > MaxPitch THEN "onboard"
  ELSE IF r.pitch < f \/ c.limit - r.memory < r.pitch THEN "reject"
  ELSE IF ((r.memory % BaseAlign) % r.pitch) % f # 0 THEN "onboard"
  ELSE IF Bias(r, f)[1] > MaxCoord \/ Bias(r, f)[2] > MaxCoord THEN "onboard"
  ELSE "good"

Hit(c, r, f) == c.line.valid /\ c.line.r = r /\ c.line.f = f

ValidateLineSurface(c, r, left, top, right, bottom, f) ==
  LET found == IF Hit(c, r, f) THEN "good" ELSE LineSurface(c, r, f)
      line  == IF Hit(c, r, f) THEN c.line
               ELSE IF found = "good" THEN LineLayout(c, r, f) ELSE NoLine
  IN [c |-> [c EXCEPT !.line = line],
      result |-> IF found # "good" THEN found
                 ELSE IF left < 0 \/ top < 0 THEN SoftwareSurfaceResult(r).result
                 ELSE IF right > line.maxX \/ bottom > line.maxY THEN "reject"
                 ELSE "hardware"]

LineRegisters(c, f, rop, pen, mask) ==
  [master |-> Master("solid", f, rop), dst |-> c.line.po, mask |-> <<WriteMask(mask, f)>>,
   fg |-> <<HardwarePen(pen, f)>>, cntl |-> LeftToRight,
   tl |-> <<0, 0>>, br |-> <<ScissorMax, ScissorMax>>]

SubmitSolidAxisRect(c, mem, x, y, w, h, pen, mask, f) ==
  AndThen(PrepareMmioEngine(c, mem), LAMBDA d, m :
    Draw(SetEngineState(BeginEnginePath(d, FALSE), LineRegisters(d, f, ROP3_P, pen, mask)),
         m, Origin(d.line, x, y), <<w, h>>, <<0, 0>>, NoBits))

(* The engine draws a line pixel by pixel; the lines here are diagonal.     *)
Sign(n) == IF n < 0 THEN -1 ELSE IF n = 0 THEN 0 ELSE 1
Length(l) == Max({l.dx, -l.dx, l.dy, -l.dy})
Point(l, i) == <<l.x + Sign(l.dx) * i, l.y + Sign(l.dy) * i>>
Dots(c, mem, l) ==
  LET upto[n \in 0..Length(l) + 1] ==
        IF n = 0 THEN mem
        ELSE Paint(c, upto[n - 1], Origin(c.line, Point(l, n - 1)[1], Point(l, n - 1)[2]), <<1, 1>>,
                   <<0, 0>>, NoBits)
  IN upto[Length(l) + 1]
SubmitLine(c, mem, l, rop, pen, mask, f) ==
  AndThen(PrepareMmioEngine(c, mem), LAMBDA d, m :
    LET begun == BeginEnginePath(d, FALSE)
        e == SetEngineState(begun, LineRegisters(d, f, rop, pen, mask))
    IN {Outcome(FALSE, begun, m), Outcome(TRUE, Painted(e), Dots(e, m, l))})
------------------------------------------------------------------------------
(* What Picasso96 asks for: V(i, j, old) in column i and row j.             *)
Pixel(r, f, x, y) == r.memory + y * r.pitch + x * f
Asked(r, f, q, V(_, _, _)) ==
  [a \in DOMAIN OnBoard |->
     IF \E i \in 0..q[3]-1, j \in 0..q[4]-1 : Pixel(r, f, q[1] + i, q[2] + j) = a
     THEN LET at == CHOOSE ij \in (0..q[3]-1) \X (0..q[4]-1) :
                      Pixel(r, f, q[1] + ij[1], q[2] + ij[2]) = a
          IN V(at[1], at[2], OnBoard[a])
     ELSE OnBoard[a]]
Masked(old, new, mask, f) == (new \cap WriteMask(mask, f)) \cup (old \ WriteMask(mask, f))

(* A rectangle of a bitmap that lies in memory Picasso96 manages.           *)
Legal(c, r, f, q) ==
  /\ q[3] > 0 /\ q[4] > 0 /\ q[1] >= 0 /\ q[2] >= 0 /\ r.memory >= 0 /\ f > 0
  /\ (q[1] + q[3]) * f <= r.pitch
  /\ r.memory + LastByte(r, q[1], q[2], q[3], q[4], f) <= c.limit
------------------------------------------------------------------------------
(* A callback.  It is dropped, or the engine draws and else the software    *)
(* callback of Picasso96 does, if the engine is known to be out of its way. *)
Finish(c, kept, asAsked, fresh, torn) ==
  [c |-> c, last |-> [kept |-> kept, asAsked |-> asAsked, fresh |-> fresh, torn |-> torn]]

(* The processor draws through the aperture, and its last read stays there. *)
SoftwareDraw(o, torn) ==
  IF o.ok THEN Finish([o.c EXCEPT !.held = "line"], TRUE, TRUE,
                      o.c.pending = "NONE" => o.c.held # "stale", torn)
  ELSE Finish(o.c, o.c.accel # "READY", TRUE, TRUE, torn)

PrepareSoftwareFallback(c, offboard) ==
  IF offboard THEN {Outcome(c.accel # "UNSAFE", c, <<>>)}
  ELSE UNION {IF blocked THEN {Outcome(c.accel # "UNSAFE", c, <<>>)}
              ELSE {[o EXCEPT !.ok = @ /\ o.c.accel # "UNSAFE"] : o \in SynchronizeEngine(c, <<>>)}
              : blocked \in LeaseBlocks(c)}

(* Softly: what comes of a call that the hardware is not asked to do.       *)
Softly(c, offboard) ==
  {IF offboard THEN Finish(o.c, o.ok \/ o.c.accel # "READY", TRUE, TRUE, FALSE)
   ELSE SoftwareDraw(o, FALSE) : o \in PrepareSoftwareFallback(c, offboard)}

(* Hardly: drawn holds the outcomes of the submission, asked the memory as  *)
(* Picasso96 wants it.                                                      *)
Drawn(drawn, asked, torn) ==
  UNION {IF o.ok THEN {Finish([o.c EXCEPT !.pending = "MMIO"], TRUE, o.mem = asked, TRUE, torn)}
         ELSE {SoftwareDraw(r, torn) : r \in RecoverEngine(o.c, <<>>)} : o \in drawn}

Dropped(c, legal) == {Finish(c, ~legal, TRUE, TRUE, FALSE)}
Happens(results) == \E f \in results : card' = f.c /\ last' = f.last

HardwareReady(s) == s.result = "hardware" /\ card.accel = "READY"
Offboard(s) == s.result = "offboard"

Pad(w) == RoundUp(w, HostBits)
FillRect(r, q, pen, mask, f) ==
  LET s == ValidateSurface(card, r, q[1], q[2], q[3], q[4], f)
  IN Happens(IF s.result = "reject" THEN Dropped(card, Legal(card, r, f, q))
             ELSE IF HardwareReady(s)
             THEN Drawn(SubmitSolidRect(card, OnBoard, s, q[1], q[2], q[3], q[4], pen, mask, f, ROP3_P),
                        Asked(r, f, q, LAMBDA i, j, old : Masked(old, pen, mask, f)), FALSE)
             ELSE Softly(card, Offboard(s)))

InvertRect(r, q, mask, f) ==
  LET s == ValidateSurface(card, r, q[1], q[2], q[3], q[4], f)
  IN Happens(IF s.result = "reject" THEN Dropped(card, Legal(card, r, f, q))
             ELSE IF HardwareReady(s)
             THEN Drawn(SubmitSolidRect(card, OnBoard, s, q[1], q[2], q[3], q[4], {}, mask, f, ROP3_Dn),
                        Asked(r, f, q, LAMBDA i, j, old : Masked(old, Plane \ old, mask, f)), FALSE)
             ELSE Softly(card, Offboard(s)))

(* The pattern's first row and column are those of its offsets at x and y.  *)
BlitPattern(r, q, p, mask, f) ==
  LET s == ValidateSurface(card, r, q[1], q[2], q[3], q[4], f)
      bit(i, j) == p.rows[1 + ((j + p.yoff) % Len(p.rows))][1 + ((i + p.xoff) % PatternEdge)]
  IN Happens(IF s.result = "reject" THEN Dropped(card, Legal(card, r, f, q))
             ELSE IF PrepareMonoPattern(p) /\ HardwareReady(s)
             THEN Drawn(SubmitPattern(card, OnBoard, s, p, q[1], q[2], q[3], q[4], mask, f),
                        Asked(r, f, q, LAMBDA i, j, old :
                                Masked(old, IF bit(i, j) = 1 THEN p.fg ELSE p.bg, mask, f)), FALSE)
             ELSE Softly(card, Offboard(s) /\ ~p.onboard))

(* StageTemplateRows writes the stage and reads it back before anything     *)
(* waits for the engine.                                                    *)
SubmitEitherTemplate(s, t, q, mask, f) ==
  LET host(c) == SubmitTemplate(c, OnBoard, s, t, q[1], q[2], q[3], q[4], mask, f)
      read == [card EXCEPT !.held = "line"]
  IN IF card.staging /\ MonoPitch(q[3], q[4]) # 0
     THEN UNION {IF o.ok THEN {o} ELSE host(o.c) :
                 o \in SubmitStagedTemplate(read, OnBoard, s, t, q[1], q[2], q[3], q[4], mask, f)}
     ELSE host(card)

BlitTemplate(r, q, t, mask, f) ==
  LET s == ValidateSurface(card, r, q[1], q[2], q[3], q[4], f)
      hardware == /\ PrepareTemplate(t, q[3], q[4]) /\ (f = 1 => mask = Plane) /\ HardwareReady(s)
                  /\ q[1] + s.bias[1] + Pad(q[3]) <= MaxCoord + 1
      asked(i, j, old) == IF t.rows[j + 1][t.xoff + i + 1] = 1 THEN t.fg
                          ELSE IF t.mode = "jam2" THEN t.bg ELSE old
  IN Happens(IF s.result = "reject" THEN Dropped(card, Legal(card, r, f, q))
             ELSE IF hardware
             THEN Drawn(SubmitEitherTemplate(s, t, q, mask, f), Asked(r, f, q, asked),
                        card.staging /\ MonoPitch(q[3], q[4]) # 0 /\ card.staged)
             ELSE Softly(card, Offboard(s) /\ ~t.onboard))

AskedPlanar(r, q, p, mask) ==
  Asked(r, 1, q, LAMBDA i, j, old :
    LET ones == {k - 1 : k \in {n \in Selected(p, mask) : PlaneBit(p, n, p.x + i, p.y + j) = 1}}
        all  == {k - 1 : k \in Selected(p, mask)}
    IN ones \cup (old \ all))

BlitPlanar2Chunky(r, q, p, mask, f) ==
  LET s == ValidateSurface(card, r, q[1], q[2], q[3], q[4], f)
  IN Happens(IF s.result = "reject" THEN Dropped(card, Legal(card, r, f, q))
             ELSE IF /\ f = 1 /\ p.copy /\ HardwareReady(s)
                     /\ PreparePlanarSource(p, p.x, p.y, q[3], q[4])
                     /\ q[1] + s.bias[1] + Pad(q[3]) <= MaxCoord + 1
             THEN Drawn(SubmitPlanarChunky(card, OnBoard, s, p, p.x, p.y, q[1], q[2], q[3], q[4], mask),
                        AskedPlanar(r, q, p, mask), FALSE)
             ELSE Softly(card, Offboard(s)))

PLANAR_MAX_PASS_PLANES == 3
BlitPlanar2Direct(r, q, p, cim, mask, f) ==
  LET s == ValidateSurface(card, r, q[1], q[2], q[3], q[4], f)
      index(i, j) == {n \in Selected(p, mask) : PlaneBit(p, n, p.x + i, p.y + j) = 1}
  IN Happens(IF s.result = "reject" THEN Dropped(card, Legal(card, r, f, q))
             ELSE IF /\ f \notin {0, 1} /\ p.copy /\ PreparePlanarSource(p, p.x, p.y, q[3], q[4])
                     /\ Cardinality(DataBits(p, mask)) <= PLANAR_MAX_PASS_PLANES
                     /\ HardwareReady(s) /\ q[1] + s.bias[1] + Pad(q[3]) <= MaxCoord + 1
             THEN Drawn(SubmitPlanarDirect(card, OnBoard, s, p, cim, p.x, p.y,
                                           q[1], q[2], q[3], q[4], mask, f),
                        Asked(r, f, q, LAMBDA i, j, old : cim[index(i, j)]), FALSE)
             ELSE Softly(card, Offboard(s)))

(* q is the destination; the source lies at a distance of shift.            *)
From(q, shift) == <<q[1] - shift[1], q[2] - shift[2], q[3], q[4]>>
BlitRect(r, q, shift, mask, f) ==
  LET p == From(q, shift)
      s == ValidateSurface(card, r, p[1], p[2], p[3], p[4], f)
      d == IF s.result = "hardware"
           THEN ValidateSameSurfaceRectangle(q[1], q[2], q[3], q[4], s)
           ELSE ValidateSurface(card, r, q[1], q[2], q[3], q[4], f)
  IN Happens(IF "reject" \in {s.result, d.result}
             THEN Dropped(card, Legal(card, r, f, p) /\ Legal(card, r, f, q))
             ELSE IF HardwareReady(s) /\ HardwareReady(d) /\ s.po = d.po
             THEN Drawn(SubmitCopy(card, OnBoard, s, d, p[1], p[2], q[1], q[2], q[3], q[4], mask, f,
                                   TRUE, FALSE, ROP3_S),
                        Asked(r, f, q, LAMBDA i, j, old :
                                Masked(old, OnBoard[Pixel(r, f, p[1] + i, p[2] + j)], mask, f)), FALSE)
             ELSE Softly(card, Offboard(s) /\ Offboard(d)))

(* Extents that the copy may take in any order.                             *)
Disjoint(s, d) == s.extent.end <= d.extent.start \/ d.extent.end <= s.extent.start
BlitRectNoMaskComplete(sr, dr, q, shift, opcode, f) ==
  LET p == From(q, shift)
      s == ValidateSurface(card, sr, p[1], p[2], p[3], p[4], f)
      d == ValidateSurface(card, dr, q[1], q[2], q[3], q[4], f)
      combine(i, j, old) ==
        LET src == OnBoard[Pixel(sr, f, p[1] + i, p[2] + j)]
        IN {b \in Plane : LET n == (IF b \in src THEN 2 ELSE 0) + (IF b \in old THEN 1 ELSE 0)
                          IN (opcode \div 2^n) % 2 = 1}
  IN Happens(IF "reject" \in {s.result, d.result}
             THEN Dropped(card, Legal(card, sr, f, p) /\ Legal(card, dr, f, q))
             ELSE IF /\ opcode < 16 /\ HardwareReady(s) /\ HardwareReady(d)
                     /\ Disjoint(s, d) \/ sr.pitch = dr.pitch
             THEN Drawn(SubmitCopy(card, OnBoard, s, d, p[1], p[2], q[1], q[2], q[3], q[4], Plane, f,
                                   s.po = d.po,
                                   ~Disjoint(s, d) /\ d.extent.start > s.extent.start,
                                   P96CopyRop3(opcode)),
                        Asked(dr, f, q, combine), FALSE)
             ELSE Softly(card, Offboard(s) /\ Offboard(d)))

(* Lines.  Without JAM2 the engine's ternary code has the source in it,     *)
(* which nobody set: what such a line paints is not foreseen here.          *)
Rectangle(l) == <<Min({l.x, l.x + l.dx}), Min({l.y, l.y + l.dy}),
                  Max({l.dx, -l.dx}) + 1, Max({l.dy, -l.dy}) + 1>>
SolidAxis(l) == (l.dx = 0 \/ l.dy = 0) /\ l.solid /\ ~l.inverse
OnLine(l, q, i, j) == \E k \in 0..Length(l) : Point(l, k) = <<q[1] + i, q[2] + j>>
(* Whole rows of the bitmap lie in that memory.                             *)
LegalLine(c, r, f, q) ==
  /\ Legal(c, r, f, q) /\ r.memory + (q[2] + q[4]) * r.pitch <= c.limit
  /\ q[1] + q[3] - 1 + Bias(r, f)[1] <= MaxCoord
  /\ q[2] + q[4] - 1 + Bias(r, f)[2] <= MaxCoord

Unforeseen(f) == [f EXCEPT !.last.asAsked = TRUE]

DrawLine(r, l, mask, f) ==
  LET q == Rectangle(l)
      v == ValidateLineSurface(card, r, q[1], q[2], q[1] + q[3] - 1, q[2] + q[4] - 1, f)
      asked == Asked(r, f, q, LAMBDA i, j, old :
                 IF SolidAxis(l) \/ OnLine(l, q, i, j) THEN Masked(old, l.pen, mask, f) ELSE old)
      drawn == IF SolidAxis(l) THEN SubmitSolidAxisRect(v.c, OnBoard, q[1], q[2], q[3], q[4], l.pen, mask, f)
               ELSE SubmitLine(v.c, OnBoard, l, IF l.jam2 THEN ROP3_P ELSE 123, l.pen, mask, f)
      foreseen == SolidAxis(l) \/ (l.jam2 /\ l.solid)
  IN Happens(IF l.complement THEN Softly(card, IsOffboardMemory(r.memory))
             ELSE IF v.result = "reject" THEN Dropped(v.c, LegalLine(card, r, f, q))
             ELSE IF v.result = "hardware" /\ card.accel = "READY"
             THEN LET D == Drawn(drawn, asked, FALSE)
                  IN IF foreseen THEN D ELSE {Unforeseen(d) : d \in D}
             ELSE Softly(v.c, IsOffboardMemory(r.memory)))
------------------------------------------------------------------------------
Nothing == [kept |-> TRUE, asAsked |-> TRUE, fresh |-> TRUE, torn |-> FALSE]

(* The blitter's end is awaited, unless a lease is live.                    *)
WaitBlitter ==
  /\ last' = Nothing /\ UNCHANGED drawCalls
  /\ \E blocked \in LeaseBlocks(card) :
       IF blocked THEN card' = card
       ELSE \E o \in SynchronizeEngine(card, <<>>) : card' = o.c

(* A submission of 3D work, whose commands leave the engine as they like:   *)
(* RadeonPrepare3D and RadeonMark3DSubmitted.                               *)
Submit3D ==
  /\ last' = Nothing /\ UNCHANGED drawCalls
  /\ \E o \in IF card.accel = "READY" /\ card.pending = "CP" THEN {Outcome(TRUE, card, <<>>)}
              ELSE SynchronizeEngine(card, <<>>) :
       card' = IF ~o.ok \/ o.c.accel # "READY" THEN o.c
               ELSE [o.c EXCEPT !.pending = "CP", !.restore = TRUE, !.regs = [g \in Register |-> Unknown],
                                !.host = {}, !.held = IF @ = "no" THEN "no" ELSE "stale"]

(* The board is closed, given other memory, and opened again.               *)
InitializeEngine(l, staging) ==
  [RestoreEngineState(Fresh(l)) EXCEPT !.staging = staging]
Reinit ==
  /\ last' = Nothing /\ drawCalls' = 0
  /\ \E o \in Openings : card' = InitializeEngine(o[1], o[2])

Draw2DInit ==
  /\ last = Nothing /\ drawCalls = 0
  /\ \E o \in Openings : card = InitializeEngine(o[1], o[2])

Call ==
  /\ drawCalls < MaxCalls /\ drawCalls' = drawCalls + 1
  /\ \E f \in DrawFormats, q \in Rects :
       \/ \E r \in Render, mask \in Masks :
            \/ \E pen \in Pens : FillRect(r, q, pen, mask, f)
            \/ InvertRect(r, q, mask, f)
            \/ \E p \in Patterns : BlitPattern(r, q, p, mask, f)
            \/ \E t \in Templates : BlitTemplate(r, q, t, mask, f)
            \/ \E p \in Planars : \/ BlitPlanar2Chunky(r, q, p, mask, f)
                                  \/ BlitPlanar2Direct(r, q, p, Cim, mask, f)
            \/ \E shift \in Shifts : BlitRect(r, q, shift, mask, f)
            \/ \E l \in Lines : DrawLine(r, l, mask, f)
       \/ \E pair \in Pairs, shift \in Shifts, opcode \in Opcodes :
            BlitRectNoMaskComplete(pair[1], pair[2], q, shift, opcode, f)

Draw2DNext == Call \/ WaitBlitter \/ Submit3D \/ Reinit
Draw2DSpec == Draw2DInit /\ [][Draw2DNext]_d2vars
------------------------------------------------------------------------------
(* Fields keep their types, and the engine's pitches and offsets are        *)
(* multiples of the granules that their registers can hold.                 *)
Draw2DTypeOK ==
  /\ [f \in {"accel", "pending", "restore", "slipped", "tried", "staging", "staged", "ready", "limit", "host", "held"} |-> card[f]]
       \in EngineCard
  /\ drawCalls \in 0..MaxCalls
  /\ DOMAIN card.regs = Register /\ DOMAIN card.shadow \subseteq Register
  /\ \A r \in {"dst", "src"} : card.regs[r] # Unknown =>
       /\ card.regs[r][1] \in {n \in 1..MaxPitch : n % PitchAlign = 0}
       /\ card.regs[r][2] \in {n \in 0..Aperture : n % BaseAlign = 0}
  /\ DOMAIN last = DOMAIN Nothing /\ \A k \in DOMAIN last : last[k] \in BOOLEAN

(* What the engine paints is what Picasso96 asked for, to every address of  *)
(* the aperture: the register values that were not written again, the bias  *)
(* of surfaces below the registers' granule, the order of overlapping       *)
(* copies, padding beyond the width, and the host data path's setup.  A     *)
(* template staged over one that the engine may still read is excepted, and *)
(* what a forgotten baseline spoils.                                        *)
PaintsAsAsked == last.asAsked \/ last.torn \/ card.slipped

(* The driver relies on what it remembers of the registers and paths unless *)
(* it owes them the baseline.  A planar blit that selects no plane notes    *)
(* its MMIO work in place of the 3D work under way, and waiting for that    *)
(* forgets the debt: from then to the next baseline nothing can be said.    *)
Reliable(c) == ~c.restore /\ ~c.slipped

(* The shadow of the registers tells what they hold, unless 3D work is      *)
(* under way, after which all are written again.                            *)
ShadowCoherent ==
  Reliable(card) => \A g \in DOMAIN card.shadow : card.regs[g] = card.shadow[g]

(* While the host data path counts as set up, it is: words arrive unswapped *)
(* and the destination cache holds nothing of another operation.            *)
HostPathReady == card.ready /\ Reliable(card) => HostPathGood(card)

(* A drawing within the memory is painted by engine or software; only a     *)
(* board in quarantine or in fallback may lose one.                         *)
NothingLost == last.kept

(* The line surface that is remembered is the one its bitmap would get now, *)
(* under the memory sizes of now.                                           *)
LineCacheFresh ==
  card.line.valid =>
    /\ LineSurface(card, card.line.r, card.line.f) = "good"
    /\ card.line = LineLayout(card, card.line.r, card.line.f)

(* Software that draws on a quiet engine does not read, through the         *)
(* aperture's read-ahead, pixels from before the engine's last work.        *)
ApertureFresh == last.fresh \/ card.slipped

(* What the driver believes of the engine's registers, of the path in use,  *)
(* of the staged line and of the aperture's read-ahead is so                *)
(* (radeon_accel.c's shadow, path, stage and DrawLine caches).              *)
CachesCoherent ==
  ShadowCoherent /\ HostPathReady /\ LineCacheFresh /\ ApertureFresh
==============================================================================
