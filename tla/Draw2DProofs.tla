------------------------------ MODULE Draw2DProofs ------------------------------
(***************************************************************************)
(* Theorems about Draw2D for every memory, bitmap, rectangle and pen: what  *)
(* the driver remembers of the engine is so, registers hold what they can,  *)
(* no drawing that lies within the memory is lost, and fills and inversions *)
(* leave the picture that was asked for.                                    *)
(*                                                                         *)
(* A callback is a chain of functions that each wait or write; each         *)
(* promises its caller something about every outcome, and the lemmas below  *)
(* go from the inner ones to the callbacks.                                 *)
(***************************************************************************)
EXTENDS Draw2D, TLAPS, WellFoundedInduction, FiniteSetTheorems

CardField == {"accel", "pending", "restore", "slipped", "tried", "staging", "staged", "ready", "limit", "host", "held",
              "regs", "shadow", "line"}

(* What the register of a pitch and offset can hold.                        *)
Aligned(v) ==
  v # Unknown => /\ v[1] \in {n \in 1..MaxPitch : n % PitchAlign = 0}
                 /\ v[2] \in {n \in 0..Aperture : n % BaseAlign = 0}

Typed(c) ==
  /\ DOMAIN c = CardField
  /\ c.accel \in {"READY", "FALLBACK", "UNSAFE"} /\ c.pending \in {"NONE", "MMIO", "CP"}
  /\ c.restore \in BOOLEAN /\ c.slipped \in BOOLEAN /\ c.tried \in BOOLEAN /\ c.staging \in BOOLEAN /\ c.staged \in BOOLEAN /\ c.ready \in BOOLEAN
  /\ c.limit \in {o[1] : o \in Openings} /\ (c.staging => c.limit % BaseAlign = 0)
  /\ c.host \subseteq {"swap", "endian", "clean"} /\ c.held \in {"no", "line", "stale"}
  /\ DOMAIN c.regs = Register /\ DOMAIN c.shadow \subseteq Register
  /\ Aligned(c.regs["dst"]) /\ Aligned(c.regs["src"])

Coherent(c) == \A g \in DOMAIN c.shadow : c.regs[g] = c.shadow[g]

(* The processor's byte order is set up whenever the path may count as so.  *)
PathKept(c) == "endian" \in c.host /\ (c.ready => HostPathGood(c))

LineFresh(c) ==
  c.line.valid => /\ LineSurface(c, c.line.r, c.line.f) = "good"
                  /\ c.line = LineLayout(c, c.line.r, c.line.f)

(* A board between the calls and inside of them: a recovery is barred only  *)
(* once the engine was given up, a baseline is owed only while work is      *)
(* noted, and what is remembered is so where the driver relies on it.       *)
Sound(c) ==
  /\ Typed(c)
  /\ c.tried => c.accel # "READY"
  /\ c.restore => c.pending # "NONE"
  /\ Reliable(c) => Coherent(c) /\ PathKept(c)
  /\ LineFresh(c)

(* The aperture may hold a line from before the engine's work only while    *)
(* that work is noted; inside of a call, also while a recovery is possible. *)
Quiet(c) == c.held = "stale" => c.pending # "NONE"
Drawing(c) == c.held = "stale" /\ c.pending = "NONE" => c.accel = "READY"

LastFine ==
  /\ DOMAIN last = DOMAIN Nothing /\ \A k \in DOMAIN last : last[k] \in BOOLEAN
  /\ last.kept /\ last.fresh

(* The inductive invariant.                                                 *)
IInv ==
  /\ Sound(card) /\ Quiet(card)
  /\ drawCalls \in 0..MaxCalls
  /\ LastFine
------------------------------------------------------------------------------
(* Facts about the constants, one at a time.                                *)
LEMMA Granules ==
  /\ BaseAlign \in Nat /\ BaseAlign > 0 /\ PitchAlign \in Nat /\ PitchAlign > 0
  /\ ByteBits \in Nat /\ ByteBits > 0 /\ HostBits \in Nat /\ HostBits > 0
  /\ MaxPitch \in Nat /\ MaxCoord \in Nat /\ Aperture \in Nat /\ StageBytes \in Nat /\ MaxCalls \in Nat
BY Draw2DAssumption

LEMMA Limits ==
  ASSUME NEW l \in {o[1] : o \in Openings}
  PROVE  l \in 0..Aperture
BY Draw2DAssumption

LEMMA OutcomeFields ==
  ASSUME NEW ok, NEW c, NEW mem
  PROVE  Outcome(ok, c, mem).ok = ok /\ Outcome(ok, c, mem).c = c /\ Outcome(ok, c, mem).mem = mem
BY DEF Outcome

LEMMA Granted ==
  ASSUME NEW c, NEW mem
  PROVE  Outcome(TRUE, c, mem).ok = TRUE /\ Outcome(TRUE, c, mem).c = c /\ Outcome(TRUE, c, mem).mem = mem
BY DEF Outcome

(* The line that is remembered depends on nothing but itself and the limit. *)
LEMMA LineFreshKept ==
  ASSUME NEW c, NEW d, LineFresh(c), d.line = c.line, d.limit = c.limit
  PROVE  LineFresh(d)
BY DEF LineFresh, LineSurface, LineLayout

LEMMA BeginKeeps ==
  ASSUME NEW c, Sound(c), NEW t \in BOOLEAN, NEW d, d = BeginEnginePath(c, t)
  PROVE  /\ Sound(d) /\ d.pending = c.pending /\ d.restore = c.restore /\ d.slipped = c.slipped /\ d.accel = c.accel /\ d.held = c.held
         /\ d.limit = c.limit /\ d.line = c.line /\ d.staging = c.staging /\ d.ready = (c.ready /\ t)
<1>1. DOMAIN d = CardField /\ d.ready = (c.ready /\ t) /\ \A k \in CardField \ {"ready"} : d[k] = c[k]
  BY DEF Sound, Typed, BeginEnginePath, CardField
<1>2. Typed(d)
  BY <1>1 DEF Sound, Typed, CardField
<1>3. Reliable(d) => Coherent(d) /\ PathKept(d)
  BY <1>1 DEF Sound, Reliable, Coherent, PathKept, HostPathGood, CardField
<1>4. LineFresh(d)
  BY <1>1, LineFreshKept DEF Sound, CardField
<1>5. QED
  BY <1>1, <1>2, <1>3, <1>4 DEF Sound, CardField

(* Registers are written unless the shadow has the value already; either    *)
(* way they hold it afterwards, and the shadow says so.                     *)
LEMMA SetWrites ==
  ASSUME NEW c, Typed(c), NEW values, DOMAIN values \subseteq Register,
         \A r \in DOMAIN values \cap {"dst", "src"} : Aligned(values[r]),
         NEW d, d = SetEngineState(c, values)
  PROVE  /\ Typed(d) /\ \A k \in CardField \ {"regs", "shadow"} : d[k] = c[k]
         /\ Coherent(c) => Coherent(d) /\ \A r \in DOMAIN values : d.regs[r] = values[r]
<1> DEFINE regs == [r \in Register |->
                      IF r \in DOMAIN values /\ ~(r \in DOMAIN c.shadow /\ c.shadow[r] = values[r])
                      THEN values[r] ELSE c.regs[r]]
           shadow == [r \in DOMAIN values \cup DOMAIN c.shadow |->
                        IF r \in DOMAIN values THEN values[r] ELSE c.shadow[r]]
<1>1. d = [c EXCEPT !.regs = regs, !.shadow = shadow]
  BY DEF SetEngineState
<1>2. DOMAIN regs = Register /\ DOMAIN shadow \subseteq Register
  BY DEF Typed
<1>3. Coherent(c) => \A r \in DOMAIN values : regs[r] = values[r]
  BY DEF Coherent
<1>4. Coherent(c) => \A r \in DOMAIN shadow : regs[r] = shadow[r]
  BY <1>3 DEF Coherent, Typed
<1>5. \A r \in {"dst", "src"} : Aligned(regs[r])
  BY DEF Typed, Register
<1> HIDE DEF regs, shadow
<1>6. /\ DOMAIN d = CardField /\ d.regs = regs /\ d.shadow = shadow
      /\ \A k \in CardField \ {"regs", "shadow"} : d[k] = c[k]
  BY <1>1 DEF Typed, CardField
<1>7. Typed(d)
  BY <1>2, <1>5, <1>6 DEF Typed, CardField
<1>8. QED
  BY <1>3, <1>4, <1>6, <1>7 DEF Coherent

(* The baseline: everything is written, whatever was there.                 *)
LEMMA RestoreLeaves ==
  ASSUME NEW c, Typed(c), NEW d, d = RestoreEngineState(c)
  PROVE  /\ Typed(d) /\ Coherent(d) /\ PathKept(d) /\ d.slipped = FALSE
         /\ \A k \in CardField \ {"regs", "shadow", "host", "ready", "slipped"} : d[k] = c[k]
<1> DEFINE b == [BeginEnginePath(InvalidateEngineState(c), FALSE) EXCEPT !.host = @ \cup {"endian"},
                                                                         !.slipped = FALSE]
           values == [r \in Register \ {"master", "dst", "src"} |->
                        CASE r = "tl" -> <<0, 0>>
                          [] r = "br" -> <<ScissorMax, ScissorMax>>
                          [] r \in {"fg", "srcfg", "mask"} -> <<Plane>>
                          [] r \in {"bg", "srcbg"} -> <<{}>>
                          [] r = "cntl" -> <<TRUE, TRUE>>]
<1>1. d = SetEngineState(b, values)
  BY DEF RestoreEngineState
<1>2. DOMAIN values \subseteq Register /\ DOMAIN values \cap {"dst", "src"} = {}
  OBVIOUS
<1>3. InvalidateEngineState(c) = [[c EXCEPT !.shadow = <<>>] EXCEPT !.ready = FALSE]
  BY DEF InvalidateEngineState
<1> DEFINE i == InvalidateEngineState(c)
           e == BeginEnginePath(i, FALSE)
<1>4. /\ DOMAIN i = CardField /\ i.shadow = <<>> /\ i.ready = FALSE
      /\ \A k \in CardField \ {"shadow", "ready"} : i[k] = c[k]
  BY DEF Typed, CardField, InvalidateEngineState
<1> HIDE DEF i
<1>5. DOMAIN e = CardField /\ e.ready = FALSE /\ \A k \in CardField \ {"ready"} : e[k] = i[k]
  BY <1>4 DEF CardField, BeginEnginePath
<1>6. b = [e EXCEPT !.host = @ \cup {"endian"}, !.slipped = FALSE]
  BY DEF i
<1> HIDE DEF e
<1>7. /\ DOMAIN b = CardField /\ b.host = e.host \cup {"endian"} /\ b.slipped = FALSE
      /\ \A k \in CardField \ {"host", "slipped"} : b[k] = e[k]
  BY <1>5, <1>6 DEF CardField
<1> HIDE DEF b, values
<1>8. /\ DOMAIN b = CardField /\ b.shadow = <<>> /\ b.ready = FALSE /\ b.host = c.host \cup {"endian"}
      /\ b.slipped = FALSE
      /\ \A k \in CardField \ {"shadow", "ready", "host", "slipped"} : b[k] = c[k]
  BY <1>4, <1>5, <1>7 DEF CardField
<1>9. Typed(b)
  <2>1. DOMAIN b.shadow = {}
    BY <1>8
  <2>2. /\ b.accel = c.accel /\ b.pending = c.pending /\ b.restore = c.restore /\ b.tried = c.tried /\ b.staging = c.staging
        /\ b.staged = c.staged /\ b.limit = c.limit /\ b.held = c.held /\ b.regs = c.regs
    BY <1>8 DEF CardField
  <2>3. b.host \subseteq {"swap", "endian", "clean"}
    BY <1>8 DEF Typed
  <2>4. QED
    BY <1>8, <2>1, <2>2, <2>3 DEF Typed
<1>10. Coherent(b)
  BY <1>8 DEF Coherent
<1>11. /\ Typed(d) /\ Coherent(d) /\ \A k \in CardField \ {"regs", "shadow"} : d[k] = b[k]
  BY <1>1, <1>2, <1>9, <1>10, SetWrites
<1>12. PathKept(d)
  BY <1>8, <1>11 DEF PathKept, CardField
<1>13. QED
  BY <1>8, <1>11, <1>12 DEF CardField

(* After a reset nothing is known to be in the registers, and after the     *)
(* baseline the board is sound again, however the recovery ends.            *)
LEMMA ResetRestored ==
  ASSUME NEW c, Sound(c),
         NEW d, d = RestoreEngineState(ResetEngine([c EXCEPT !.tried = TRUE, !.pending = "NONE",
                                                     !.restore = FALSE]))
  PROVE  /\ Typed(d) /\ Coherent(d) /\ PathKept(d) /\ LineFresh(d)
         /\ d.tried = TRUE /\ d.pending = "NONE" /\ d.restore = FALSE /\ d.held = "no"
         /\ d.limit = c.limit /\ d.line = c.line /\ d.staging = c.staging
<1> DEFINE t == [c EXCEPT !.tried = TRUE, !.pending = "NONE", !.restore = FALSE]
           r == ResetEngine(t)
<1>1. /\ DOMAIN t = CardField /\ t.tried = TRUE /\ t.pending = "NONE" /\ t.restore = FALSE
      /\ \A k \in CardField \ {"tried", "pending", "restore"} : t[k] = c[k]
  BY DEF Sound, Typed, CardField
<1> HIDE DEF t
<1> DEFINE unknown == [g \in Register |-> Unknown]
<1>2. r = [t EXCEPT !.regs = unknown, !.host = {}, !.held = "no", !.staged = FALSE]
  BY DEF ResetEngine
<1>3. DOMAIN unknown = Register /\ unknown["dst"] = Unknown /\ unknown["src"] = Unknown
  BY DEF Register
<1> HIDE DEF unknown, r
<1>4. /\ DOMAIN r = CardField /\ r.regs = unknown /\ r.host = {} /\ r.held = "no" /\ r.staged = FALSE
      /\ \A k \in CardField \ {"regs", "host", "held", "staged"} : r[k] = t[k]
  BY <1>1, <1>2 DEF CardField
<1>5. Typed(r)
  <2>1. Aligned(r.regs["dst"]) /\ Aligned(r.regs["src"]) /\ DOMAIN r.regs = Register
    BY <1>3, <1>4 DEF Aligned
  <2>2. /\ r.accel = c.accel /\ r.pending = "NONE" /\ r.restore = FALSE /\ r.slipped = c.slipped /\ r.tried = TRUE /\ r.staging = c.staging
        /\ r.ready = c.ready /\ r.limit = c.limit /\ r.shadow = c.shadow
    BY <1>1, <1>4 DEF CardField
  <2>3. Typed(c)
    BY DEF Sound
  <2>4. QED
    BY <1>4, <2>1, <2>2, <2>3 DEF Typed
<1>6. d = RestoreEngineState(r)
  BY DEF r, t
<1>7. /\ Typed(d) /\ Coherent(d) /\ PathKept(d)
      /\ \A k \in CardField \ {"regs", "shadow", "host", "ready", "slipped"} : d[k] = r[k]
  BY <1>5, <1>6, RestoreLeaves
<1>8. /\ d.tried = TRUE /\ d.pending = "NONE" /\ d.restore = FALSE /\ d.held = "no"
      /\ d.limit = c.limit /\ d.line = c.line /\ d.staging = c.staging
  BY <1>1, <1>4, <1>7 DEF CardField
<1>9. LineFresh(d)
  BY <1>8, LineFreshKept DEF Sound
<1>10. QED
  BY <1>7, <1>8, <1>9
------------------------------------------------------------------------------
(* What every function that waits promises: an answer, a sound board, the   *)
(* same memory and the same line; while drawing it may leave the aperture   *)
(* behind only where a recovery follows, and never hides it from a quiet    *)
(* caller.                                                                  *)
Follows(c, o) ==
  /\ o.ok \in BOOLEAN /\ Sound(o.c) /\ Drawing(o.c)
  /\ o.c.limit = c.limit /\ o.c.line = c.line /\ o.c.staging = c.staging

LEMMA FollowsOn ==
  ASSUME NEW c, NEW o, NEW r, Follows(c, o), Follows(o.c, r)
  PROVE  Follows(c, r)
BY DEF Follows

LEMMA AccelSet ==
  ASSUME NEW d, Typed(d), NEW a, NEW e, e = [d EXCEPT !.accel = a]
  PROVE  DOMAIN e = CardField /\ e.accel = a /\ \A k \in CardField \ {"accel"} : e[k] = d[k]
BY DEF Typed, CardField

(* The three ways a recovery ends, from the board that the reset leaves.    *)
LEMMA RecoveredSound ==
  ASSUME NEW d, Typed(d), Coherent(d), PathKept(d), LineFresh(d), d.tried = TRUE, d.pending = "NONE", d.restore = FALSE, d.held = "no",
         NEW a \in {"READY", "FALLBACK", "UNSAFE"}, NEW t \in BOOLEAN, t => a # "READY",
         NEW e, DOMAIN e = CardField, e.accel = a, e.tried = t,
         \A k \in CardField \ {"accel", "tried"} : e[k] = d[k]
  PROVE  Sound(e) /\ Quiet(e) /\ Drawing(e)
<1>1. /\ e.pending = "NONE" /\ e.restore = FALSE /\ e.slipped = d.slipped /\ e.held = "no" /\ e.shadow = d.shadow /\ e.regs = d.regs /\ e.host = d.host
      /\ e.ready = d.ready /\ e.line = d.line /\ e.limit = d.limit /\ e.staging = d.staging
      /\ e.staged = d.staged
  BY DEF CardField
<1>2. Typed(e)
  BY <1>1 DEF Typed
<1>3. Coherent(e) /\ PathKept(e)
  BY <1>1 DEF Coherent, PathKept, HostPathGood
<1>4. LineFresh(e)
  BY <1>1, LineFreshKept
<1>5. QED
  BY <1>1, <1>2, <1>3, <1>4 DEF Sound, Quiet, Drawing

LEMMA RecoverFollows ==
  ASSUME NEW c, Sound(c), Drawing(c), NEW mem, NEW o \in RecoverEngine(c, mem)
  PROVE  /\ Follows(c, o) /\ Quiet(o.c)
         /\ o.ok => o.c.pending = "NONE" /\ ~o.c.restore /\ o.c.held = "no" /\ o.c.accel # "UNSAFE"
         /\ ~o.ok => o.c.accel # "READY"
<1> DEFINE d == RestoreEngineState(ResetEngine([c EXCEPT !.tried = TRUE, !.pending = "NONE",
                                                     !.restore = FALSE]))
<1>1. CASE c.tried
  <2>1. o = Outcome(FALSE, c, mem)
    BY <1>1 DEF RecoverEngine
  <2>2. o.ok = FALSE /\ o.c = c
    BY <2>1 DEF Outcome
  <2>3. c.accel # "READY" /\ Quiet(c)
    BY <1>1 DEF Sound, Drawing, Quiet
  <2>4. QED
    BY <2>2, <2>3 DEF Follows
<1>2. CASE ~c.tried
  <2>1. /\ Typed(d) /\ Coherent(d) /\ PathKept(d) /\ LineFresh(d)
        /\ d.tried = TRUE /\ d.pending = "NONE" /\ d.restore = FALSE /\ d.held = "no"
        /\ d.limit = c.limit /\ d.line = c.line /\ d.staging = c.staging
    BY ResetRestored
  <2>2. \/ o = Outcome(FALSE, [d EXCEPT !.accel = "UNSAFE"], mem)
        \/ o = Outcome(TRUE, [d EXCEPT !.accel = "FALLBACK"], mem)
        \/ o = Outcome(TRUE, [d EXCEPT !.accel = "READY", !.tried = FALSE], mem)
    BY <1>2 DEF RecoverEngine
  <2> HIDE DEF d
  <2>3. ASSUME NEW a \in {"UNSAFE", "FALLBACK"}, NEW e, e = [d EXCEPT !.accel = a]
        PROVE  /\ Sound(e) /\ Quiet(e) /\ Drawing(e) /\ e.accel = a /\ e.pending = "NONE" /\ ~e.restore /\ e.held = "no"
               /\ e.limit = c.limit /\ e.line = c.line /\ e.staging = c.staging
    <3>1. DOMAIN e = CardField /\ e.accel = a /\ \A k \in CardField \ {"accel"} : e[k] = d[k]
      BY <2>1, <2>3, AccelSet
    <3>2. e.tried = TRUE
      BY <2>1, <3>1 DEF CardField
    <3> DEFINE t == TRUE
    <3>3. t \in BOOLEAN /\ (t => a # "READY") /\ e.tried = t
      BY <3>2
    <3> HIDE DEF t
    <3>4. Sound(e) /\ Quiet(e) /\ Drawing(e)
      BY <2>1, <3>1, <3>3, RecoveredSound, ZenonT(60)
    <3>5. QED
      BY <2>1, <3>1, <3>4 DEF CardField
  <2>4. ASSUME NEW e, e = [d EXCEPT !.accel = "READY", !.tried = FALSE]
        PROVE  /\ Sound(e) /\ Quiet(e) /\ Drawing(e) /\ e.accel = "READY" /\ e.pending = "NONE" /\ ~e.restore /\ e.held = "no"
               /\ e.limit = c.limit /\ e.line = c.line /\ e.staging = c.staging
    <3>1. DOMAIN e = CardField /\ e.accel = "READY" /\ e.tried = FALSE
      BY <2>1, <2>4 DEF Typed, CardField
    <3>2. \A k \in CardField \ {"accel", "tried"} : e[k] = d[k]
      BY <2>1, <2>4 DEF Typed, CardField
    <3> DEFINE t == FALSE
               a == "READY"
    <3>3. t \in BOOLEAN /\ a \in {"READY", "FALLBACK", "UNSAFE"} /\ (t => a # "READY") /\ e.tried = t /\ e.accel = a
      BY <3>1
    <3> HIDE DEF t, a
    <3>4. Sound(e) /\ Quiet(e) /\ Drawing(e)
      BY <2>1, <3>1, <3>2, <3>3, RecoveredSound
    <3>5. QED
      BY <2>1, <3>1, <3>2, <3>4 DEF CardField
  <2>5. CASE o = Outcome(FALSE, [d EXCEPT !.accel = "UNSAFE"], mem)
    <3> DEFINE e == [d EXCEPT !.accel = "UNSAFE"]
    <3>1. o.ok = FALSE /\ o.c = e
      BY <2>5 DEF Outcome
    <3>2. "UNSAFE" \in {"UNSAFE", "FALLBACK"} /\ e = [d EXCEPT !.accel = "UNSAFE"]
      OBVIOUS
    <3> HIDE DEF e
    <3>3. QED
      BY <2>3, <3>1, <3>2, ZenonT(60) DEF Follows
  <2>6. CASE o = Outcome(TRUE, [d EXCEPT !.accel = "FALLBACK"], mem)
    <3> DEFINE e == [d EXCEPT !.accel = "FALLBACK"]
    <3>1. o.ok = TRUE /\ o.c = e
      BY <2>6 DEF Outcome
    <3> DEFINE a == "FALLBACK"
    <3>2. a \in {"UNSAFE", "FALLBACK"} /\ e = [d EXCEPT !.accel = a] /\ a # "UNSAFE"
      OBVIOUS
    <3> HIDE DEF e, a
    <3>3. /\ Sound(e) /\ Quiet(e) /\ Drawing(e) /\ e.accel = a /\ e.pending = "NONE" /\ ~e.restore /\ e.held = "no"
          /\ e.limit = c.limit /\ e.line = c.line /\ e.staging = c.staging
      BY <2>3, <3>2
    <3>4. QED
      BY <3>1, <3>2, <3>3 DEF Follows
  <2>7. CASE o = Outcome(TRUE, [d EXCEPT !.accel = "READY", !.tried = FALSE], mem)
    <3> DEFINE e == [d EXCEPT !.accel = "READY", !.tried = FALSE]
    <3>1. o.ok = TRUE /\ o.c = e
      BY <2>7 DEF Outcome
    <3>2. e = [d EXCEPT !.accel = "READY", !.tried = FALSE]
      OBVIOUS
    <3> HIDE DEF e
    <3>3. QED
      BY <2>4, <3>1, <3>2 DEF Follows
  <2>8. QED
    BY <2>2, <2>5, <2>6, <2>7
<1>3. QED
  BY <1>1, <1>2

(* The engine's work is awaited, and after 3D work the baseline is written. *)
LEMMA DrainedSound ==
  ASSUME NEW c, Sound(c),
         NEW e, e = DropApertureReadLine([IF c.pending = "CP" THEN RestoreEngineState(c) ELSE Forgotten(c)
                                          EXCEPT !.pending = "NONE", !.restore = FALSE, !.staged = FALSE])
  PROVE  /\ Sound(e) /\ e.pending = "NONE" /\ e.restore = FALSE /\ e.held = "no" /\ e.accel = c.accel
         /\ e.limit = c.limit /\ e.line = c.line /\ e.staging = c.staging
<1> DEFINE b == IF c.pending = "CP" THEN RestoreEngineState(c) ELSE Forgotten(c)
           r == RestoreEngineState(c)
           f == Forgotten(c)
           slipped == c.slipped \/ c.restore
<1>1. /\ Typed(r) /\ Coherent(r) /\ PathKept(r)
      /\ \A k \in CardField \ {"regs", "shadow", "host", "ready", "slipped"} : r[k] = c[k]
  BY RestoreLeaves DEF Sound
<1>2. f = [c EXCEPT !.slipped = slipped] /\ slipped \in BOOLEAN /\ (~slipped => Reliable(c))
  BY Zenon DEF Forgotten, Sound, Typed, Reliable
<1>3. b = r \/ b = f
  OBVIOUS
<1>4. e = DropApertureReadLine([b EXCEPT !.pending = "NONE", !.restore = FALSE, !.staged = FALSE])
  OBVIOUS
<1> HIDE DEF r, b, slipped, f
<1>5. DOMAIN f = CardField /\ f.slipped = slipped /\ \A k \in CardField \ {"slipped"} : f[k] = c[k]
  BY <1>2 DEF Sound, Typed, CardField
<1>6. /\ f.accel = c.accel /\ f.pending = c.pending /\ f.restore = c.restore /\ f.tried = c.tried /\ f.ready = c.ready
      /\ f.host = c.host /\ f.held = c.held /\ f.limit = c.limit /\ f.line = c.line /\ f.staging = c.staging
      /\ f.staged = c.staged /\ f.regs = c.regs /\ f.shadow = c.shadow
  BY <1>5 DEF CardField
<1>7. Typed(f)
  BY <1>2, <1>5, <1>6 DEF Sound, Typed
<1>8. ~f.slipped => Coherent(f) /\ PathKept(f)
  BY <1>2, <1>5, <1>6 DEF Sound, Coherent, PathKept, HostPathGood
<1>9. Typed(b) /\ (~b.slipped => Coherent(b) /\ PathKept(b))
  BY <1>1, <1>3, <1>7, <1>8
<1>10. /\ b.accel = c.accel /\ b.tried = c.tried /\ b.limit = c.limit /\ b.line = c.line
       /\ b.staging = c.staging
  BY <1>1, <1>3, <1>6 DEF CardField
<1> DEFINE n == [b EXCEPT !.pending = "NONE", !.restore = FALSE, !.staged = FALSE]
<1>11. /\ DOMAIN n = CardField /\ n.pending = "NONE" /\ n.restore = FALSE /\ n.staged = FALSE
       /\ \A k \in CardField \ {"pending", "restore", "staged"} : n[k] = b[k]
  BY <1>9 DEF Typed, CardField
<1>12. e = DropApertureReadLine(n)
  BY <1>4
<1> HIDE DEF n
<1>13. DOMAIN e = CardField /\ e.held = "no" /\ \A k \in CardField \ {"held"} : e[k] = n[k]
  BY <1>11, <1>12 DEF CardField, DropApertureReadLine
<1>14. /\ e.pending = "NONE" /\ e.restore = FALSE /\ e.staged = FALSE /\ e.slipped = b.slipped
       /\ e.accel = b.accel /\ e.tried = b.tried /\ e.limit = b.limit /\ e.line = b.line
       /\ e.staging = b.staging /\ e.ready = b.ready /\ e.host = b.host /\ e.regs = b.regs
       /\ e.shadow = b.shadow
  BY <1>11, <1>13 DEF CardField
<1>15. Typed(e)
  BY <1>9, <1>13, <1>14 DEF Typed
<1>16. Reliable(e) => Coherent(e) /\ PathKept(e)
  BY <1>9, <1>14 DEF Reliable, Coherent, PathKept, HostPathGood
<1>17. LineFresh(e)
  BY <1>10, <1>14, LineFreshKept DEF Sound
<1>18. QED
  BY <1>10, <1>13, <1>14, <1>15, <1>16, <1>17 DEF Sound

LEMMA SynchronizeFollows ==
  ASSUME NEW c, Sound(c), Drawing(c), NEW mem, NEW o \in SynchronizeEngine(c, mem)
  PROVE  /\ Follows(c, o) /\ (Quiet(c) => Quiet(o.c))
         /\ o.ok /\ c.pending # "NONE" => ~o.c.restore
         /\ c.pending = "NONE" => o.c = c
         /\ c.pending # "NONE" => /\ Quiet(o.c)
                                  /\ o.ok => o.c.held = "no"
         /\ ~o.ok => o.c.accel # "READY"
<1>1. CASE c.pending = "NONE"
  <2> DEFINE ok == c.accel # "UNSAFE"
  <2>1. o = Outcome(ok, c, mem)
    BY <1>1 DEF SynchronizeEngine
  <2>2. ok \in BOOLEAN /\ (~ok => c.accel # "READY")
    OBVIOUS
  <2> HIDE DEF ok
  <2>3. o.ok = ok /\ o.c = c
    BY <2>1, OutcomeFields
  <2>4. QED
    BY <1>1, <2>2, <2>3 DEF Follows
<1>2. CASE c.pending # "NONE"
  <2> DEFINE e == DropApertureReadLine([IF c.pending = "CP" THEN RestoreEngineState(c) ELSE Forgotten(c)
                                        EXCEPT !.pending = "NONE", !.restore = FALSE, !.staged = FALSE])
  <2>1. o = Outcome(TRUE, e, mem) \/ o \in RecoverEngine(c, mem)
    BY <1>2 DEF SynchronizeEngine
  <2>2. /\ Sound(e) /\ e.pending = "NONE" /\ e.restore = FALSE /\ e.held = "no" /\ e.accel = c.accel
        /\ e.limit = c.limit /\ e.line = c.line /\ e.staging = c.staging
    BY DrainedSound, ZenonT(60)
  <2> HIDE DEF e
  <2>3. CASE o = Outcome(TRUE, e, mem)
    <3>1. o.ok = TRUE /\ o.c = e
      BY <2>3 DEF Outcome
    <3>2. QED
      BY <1>2, <2>2, <3>1 DEF Follows, Quiet, Drawing
  <2>4. CASE o \in RecoverEngine(c, mem)
    BY <1>2, <2>4, RecoverFollows
  <2>5. QED
    BY <2>1, <2>3, <2>4
<1>3. QED
  BY <1>1, <1>2

(* After this the engine may be written to.                                 *)
Writable(c) == Sound(c) /\ ~c.restore /\ (c.accel = "READY" \/ c.held = "no")

LEMMA PrepareFollows ==
  ASSUME NEW c, Sound(c), Drawing(c), NEW mem, NEW o \in PrepareMmioEngine(c, mem)
  PROVE  Follows(c, o) /\ (o.ok => Writable(o.c))
<1>1. CASE o = Outcome(FALSE, c, mem)
  BY <1>1 DEF Outcome, Follows
<1>2. CASE c.accel = "READY" /\ c.restore /\ o \in SynchronizeEngine(c, mem)
  <2>1. c.pending # "NONE"
    BY <1>2 DEF Sound
  <2>2. Follows(c, o) /\ (o.ok => ~o.c.restore /\ o.c.held = "no")
    BY <1>2, <2>1, SynchronizeFollows
  <2>3. QED
    BY <2>2 DEF Follows, Writable
<1>3. CASE c.accel = "READY" /\ ~c.restore /\ o = Outcome(TRUE, c, mem)
  BY <1>3 DEF Outcome, Follows, Writable
<1>4. QED
  BY <1>1, <1>2, <1>3 DEF PrepareMmioEngine
------------------------------------------------------------------------------
(* Painting keeps the board sound: the path counts as set up only behind    *)
(* the uploads themselves, which leave it so.                               *)
LEMMA PaintedSound ==
  ASSUME NEW e, Writable(e), e.slipped \/ ~e.ready \/ e.regs["master"][1] \in {"hostbg", "hostla"},
         NEW p, p = Painted(e)
  PROVE  /\ Sound(p) /\ Drawing(p)
         /\ p.limit = e.limit /\ p.line = e.line /\ p.staging = e.staging
<1> DEFINE host == IF e.regs["master"][1] \in {"hostbg", "hostla"} THEN e.host ELSE e.host \ {"clean"}
           held == IF e.held = "no" THEN "no" ELSE "stale"
<1>1. p = [e EXCEPT !.host = host, !.held = held]
  BY DEF Painted
<1>2. host \subseteq e.host /\ ("endian" \in e.host => "endian" \in host) /\ (~e.slipped /\ e.ready => host = e.host)
  OBVIOUS
<1>3. held \in {"no", "stale"} /\ (held = "stale" => e.held # "no")
  OBVIOUS
<1> HIDE DEF host, held
<1>4. DOMAIN p = CardField /\ p.host = host /\ p.held = held /\ \A k \in CardField \ {"host", "held"} : p[k] = e[k]
  BY <1>1 DEF Writable, Sound, Typed, CardField
<1>5. /\ p.accel = e.accel /\ p.pending = e.pending /\ p.restore = e.restore /\ p.slipped = e.slipped /\ p.tried = e.tried /\ p.staging = e.staging
      /\ p.staged = e.staged /\ p.ready = e.ready /\ p.limit = e.limit /\ p.regs = e.regs
      /\ p.shadow = e.shadow /\ p.line = e.line
  BY <1>4 DEF CardField
<1>6. Typed(p)
  BY <1>2, <1>3, <1>4, <1>5 DEF Writable, Sound, Typed
<1>7. Reliable(p) => Coherent(p) /\ PathKept(p)
  BY <1>2, <1>4, <1>5 DEF Writable, Sound, Reliable, Coherent, PathKept, HostPathGood
<1>8. LineFresh(p)
  BY <1>5, LineFreshKept DEF Writable, Sound
<1>9. QED
  BY <1>3, <1>4, <1>5, <1>6, <1>7, <1>8 DEF Writable, Sound, Drawing

(* The registers of a submission.                                           *)
LEMMA SetWritable ==
  ASSUME NEW c, Writable(c), NEW values, DOMAIN values \subseteq Register,
         \A r \in DOMAIN values \cap {"dst", "src"} : Aligned(values[r]),
         NEW e, e = SetEngineState(c, values)
  PROVE  /\ Writable(e) /\ e.slipped = c.slipped
         /\ ~e.slipped => \A r \in DOMAIN values : e.regs[r] = values[r]
         /\ e.limit = c.limit /\ e.line = c.line /\ e.staging = c.staging /\ e.ready = c.ready
<1>1. /\ Typed(e) /\ \A k \in CardField \ {"regs", "shadow"} : e[k] = c[k]
      /\ Coherent(c) => Coherent(e) /\ \A r \in DOMAIN values : e.regs[r] = values[r]
  BY SetWrites DEF Writable, Sound
<1>2. /\ e.accel = c.accel /\ e.pending = c.pending /\ e.restore = c.restore /\ e.slipped = c.slipped /\ e.tried = c.tried /\ e.ready = c.ready
      /\ e.host = c.host /\ e.held = c.held /\ e.limit = c.limit /\ e.line = c.line /\ e.staging = c.staging
  BY <1>1 DEF CardField
<1>6. Reliable(e) => Coherent(c) /\ PathKept(c)
  BY <1>2 DEF Writable, Sound, Reliable
<1>3. Reliable(e) => PathKept(e)
  BY <1>2, <1>6 DEF PathKept, HostPathGood
<1>4. LineFresh(e)
  BY <1>2, LineFreshKept DEF Writable, Sound
<1>5. QED
  BY <1>1, <1>2, <1>3, <1>4, <1>6 DEF Writable, Sound, Reliable

(* A submission that is not an upload, once the engine may be written to.   *)
LEMMA WroteFollows ==
  ASSUME NEW c, Writable(c), NEW values, DOMAIN values \subseteq Register,
         \A r \in DOMAIN values \cap {"dst", "src"} : Aligned(values[r]),
         NEW o, o.ok, o.ok \in BOOLEAN, o.c = Painted(SetEngineState(BeginEnginePath(c, FALSE), values))
  PROVE  Follows(c, o)
<1> DEFINE b == BeginEnginePath(c, FALSE)
           e == SetEngineState(b, values)
           p == Painted(e)
           no == FALSE
<1>1. no \in BOOLEAN /\ b = BeginEnginePath(c, no) /\ ~no
  OBVIOUS
<1> HIDE DEF no, b
<1>2. /\ Sound(b) /\ b.pending = c.pending /\ b.restore = c.restore /\ b.slipped = c.slipped /\ b.accel = c.accel /\ b.held = c.held
      /\ b.limit = c.limit /\ b.line = c.line /\ b.staging = c.staging /\ b.ready = (c.ready /\ no)
  BY <1>1, BeginKeeps DEF Writable
<1>3. Writable(b) /\ ~b.ready
  BY <1>1, <1>2 DEF Writable
<1>4. Writable(e) /\ e.limit = b.limit /\ e.line = b.line /\ e.staging = b.staging /\ e.ready = b.ready
  BY <1>3, SetWritable
<1> HIDE DEF e
<1>5. /\ Sound(p) /\ Drawing(p)
      /\ p.limit = e.limit /\ p.line = e.line /\ p.staging = e.staging
  BY <1>3, <1>4, PaintedSound
<1>6. o.c = p
  BY DEF b, e
<1> HIDE DEF p
<1>7. QED
  BY <1>2, <1>4, <1>5, <1>6 DEF Follows

LEMMA DrawIs ==
  ASSUME NEW e, NEW m, NEW at, NEW size, NEW from, NEW bits, NEW o \in Draw(e, m, at, size, from, bits)
  PROVE  o.ok /\ o.ok \in BOOLEAN /\ o.c = Painted(e)
<1> DEFINE p == Painted(e)
           n == IF m = <<>> THEN <<>> ELSE Paint(e, m, at, size, from, bits)
<1>1. o = Outcome(TRUE, p, n)
  BY DEF Draw
<1> HIDE DEF p, n
<1>2. o.ok /\ o.c = p
  BY <1>1 DEF Outcome
<1>3. o.ok \in BOOLEAN
  BY <1>1 DEF Outcome
<1>4. QED
  BY <1>2, <1>3 DEF p

(* The common form of the submissions that draw in one go.                  *)
LEMMA DrewFollows ==
  ASSUME NEW c, NEW q, Follows(c, q), q.ok => Writable(q.c), NEW values, DOMAIN values \subseteq Register,
         \A r \in DOMAIN values \cap {"dst", "src"} : Aligned(values[r]),
         NEW g, g = SetEngineState(BeginEnginePath(q.c, FALSE), values),
         NEW m, NEW at, NEW size, NEW from, NEW bits, NEW o,
         o \in IF q.ok THEN Draw(g, m, at, size, from, bits) ELSE {q}
  PROVE  Follows(c, o)
<1>1. CASE q.ok
  <2>1. o.ok /\ o.ok \in BOOLEAN /\ o.c = Painted(g)
    BY <1>1, DrawIs
  <2>2. Follows(q.c, o)
    BY <1>1, <2>1, WroteFollows
  <2>3. QED
    BY <2>2, FollowsOn
<1>2. CASE ~q.ok
  <2>1. o = q
    BY <1>2
  <2>2. QED
    BY <1>2, <2>1
<1>3. QED
  BY <1>1, <1>2

LEMMA SolidFollows ==
  ASSUME NEW c, Sound(c), Drawing(c), NEW mem, NEW s, Aligned(s.po), NEW x, NEW y, NEW w, NEW h,
         NEW pen, NEW mask, NEW f, NEW rop,
         NEW o \in SubmitSolidRect(c, mem, s, x, y, w, h, pen, mask, f, rop)
  PROVE  Follows(c, o)
<1> DEFINE values == [master |-> Master("solid", f, rop), fg |-> <<HardwarePen(pen, f)>>,
                      mask |-> <<WriteMask(mask, f)>>, cntl |-> LeftToRight, dst |-> s.po]
           g(q) == SetEngineState(BeginEnginePath(q.c, FALSE), values)
           at == Origin(s, x, y)
           size == <<w, h>>
           from == <<0, 0>>
           bits == NoBits
<1>1. PICK q \in PrepareMmioEngine(c, mem) :
        o \in IF q.ok THEN Draw(g(q), q.mem, at, size, from, bits) ELSE {q}
  BY DEF SubmitSolidRect, AndThen
<1>2. Follows(c, q) /\ (q.ok => Writable(q.c))
  BY PrepareFollows
<1>3. DOMAIN values \subseteq Register /\ values["dst"] = s.po
  BY DEF Register
<1>4. \A r \in DOMAIN values \cap {"dst", "src"} : Aligned(values[r])
  BY <1>3
<1> DEFINE e == g(q)
<1>5. e = SetEngineState(BeginEnginePath(q.c, FALSE), values)
  OBVIOUS
<1>6. o \in IF q.ok THEN Draw(e, q.mem, at, size, from, bits) ELSE {q}
  BY <1>1
<1> HIDE DEF values, at, size, from, bits, e
<1>7. QED
  BY <1>2, <1>3, <1>4, <1>5, <1>6, DrewFollows

LEMMA PatternFollows ==
  ASSUME NEW c, Sound(c), Drawing(c), NEW mem, NEW s, Aligned(s.po), NEW p, NEW x, NEW y, NEW w, NEW h,
         NEW mask, NEW f,
         NEW o \in SubmitPattern(c, mem, s, p, x, y, w, h, mask, f)
  PROVE  Follows(c, o)
<1> DEFINE values == [master |-> Master("pattern", f, ROP3_P), mask |-> <<WriteMask(mask, f)>>,
                      fg |-> <<HardwarePen(p.fg, f)>>, bg |-> <<HardwarePen(p.bg, f)>>,
                      cntl |-> LeftToRight, dst |-> s.po]
           g(q) == SetEngineState(BeginEnginePath(q.c, FALSE), values)
           at == Origin(s, x, y)
           size == <<w, h>>
           from == <<0, 0>>
           bits == BrushBits(p, at, w, h)
<1>1. PICK q \in PrepareMmioEngine(c, mem) :
        o \in IF q.ok THEN Draw(g(q), q.mem, at, size, from, bits) ELSE {q}
  BY DEF SubmitPattern, AndThen
<1>2. Follows(c, q) /\ (q.ok => Writable(q.c))
  BY PrepareFollows
<1>3. DOMAIN values \subseteq Register /\ values["dst"] = s.po
  BY DEF Register
<1>4. \A r \in DOMAIN values \cap {"dst", "src"} : Aligned(values[r])
  BY <1>3
<1> DEFINE e == g(q)
<1>5. e = SetEngineState(BeginEnginePath(q.c, FALSE), values)
  OBVIOUS
<1>6. o \in IF q.ok THEN Draw(e, q.mem, at, size, from, bits) ELSE {q}
  BY <1>1
<1> HIDE DEF values, at, size, from, bits, e
<1>7. QED
  BY <1>2, <1>3, <1>4, <1>5, <1>6, DrewFollows

LEMMA CopyFollows ==
  ASSUME NEW c, Sound(c), Drawing(c), NEW mem, NEW s, Aligned(s.po), NEW d, Aligned(d.po),
         NEW sx, NEW sy, NEW dx, NEW dy, NEW w, NEW h, NEW mask, NEW f, NEW sameLayout, NEW reverse, NEW rop,
         NEW o \in SubmitCopy(c, mem, s, d, sx, sy, dx, dy, w, h, mask, f, sameLayout, reverse, rop)
  PROVE  Follows(c, o)
<1> DEFINE source == Origin(s, sx, sy)
           to == Origin(d, dx, dy)
           forward == [k \in {1, 2} |-> \/ ~sameLayout /\ ~reverse
                                        \/ sameLayout /\ to[k] <= source[k]]
           Corner(a) == [k \in {1, 2} |-> IF forward[k] THEN a[k] ELSE a[k] + <<w, h>>[k] - 1]
           values == [master |-> Master("copy", f, rop), mask |-> <<WriteMask(mask, f)>>,
                      cntl |-> forward, src |-> s.po, dst |-> d.po]
           g(q) == SetEngineState(BeginEnginePath(q.c, FALSE), values)
           at == Corner(to)
           size == <<w, h>>
           from == Corner(source)
           bits == NoBits
<1>1. PICK q \in PrepareMmioEngine(c, mem) :
        o \in IF q.ok THEN Draw(g(q), q.mem, at, size, from, bits) ELSE {q}
  BY DEF SubmitCopy, AndThen
<1>2. Follows(c, q) /\ (q.ok => Writable(q.c))
  BY PrepareFollows
<1>3. DOMAIN values \subseteq Register /\ values["dst"] = d.po /\ values["src"] = s.po
  BY DEF Register
<1>4. \A r \in DOMAIN values \cap {"dst", "src"} : Aligned(values[r])
  BY <1>3
<1> DEFINE e == g(q)
<1>5. e = SetEngineState(BeginEnginePath(q.c, FALSE), values)
  OBVIOUS
<1>6. o \in IF q.ok THEN Draw(e, q.mem, at, size, from, bits) ELSE {q}
  BY <1>1
<1> HIDE DEF values, at, size, from, bits, e
<1>7. QED
  BY <1>2, <1>3, <1>4, <1>5, <1>6, DrewFollows

LEMMA LineValues ==
  ASSUME NEW c, NEW f, NEW rop, NEW pen, NEW mask, Aligned(c.line.po), NEW values,
         values = LineRegisters(c, f, rop, pen, mask)
  PROVE  /\ DOMAIN values \subseteq Register
         /\ \A r \in DOMAIN values \cap {"dst", "src"} : Aligned(values[r])
<1>1. DOMAIN values = {"master", "dst", "mask", "fg", "cntl", "tl", "br"} /\ values["dst"] = c.line.po
  BY DEF LineRegisters
<1>2. \A r \in DOMAIN values \cap {"dst", "src"} : r = "dst"
  BY <1>1
<1>3. QED
  BY <1>1, <1>2 DEF Register

LEMMA AxisFollows ==
  ASSUME NEW c, Sound(c), Drawing(c), Aligned(c.line.po), NEW mem, NEW x, NEW y, NEW w, NEW h,
         NEW pen, NEW mask, NEW f,
         NEW o \in SubmitSolidAxisRect(c, mem, x, y, w, h, pen, mask, f)
  PROVE  Follows(c, o)
<1> DEFINE v(q) == LineRegisters(q.c, f, ROP3_P, pen, mask)
           g(q) == SetEngineState(BeginEnginePath(q.c, FALSE), v(q))
           to(q) == Origin(q.c.line, x, y)
           size == <<w, h>>
           from == <<0, 0>>
           bits == NoBits
<1>1. PICK q \in PrepareMmioEngine(c, mem) :
        o \in IF q.ok THEN Draw(g(q), q.mem, to(q), size, from, bits) ELSE {q}
  BY DEF SubmitSolidAxisRect, AndThen
<1>2. Follows(c, q) /\ (q.ok => Writable(q.c))
  BY PrepareFollows
<1>3. Aligned(q.c.line.po)
  BY <1>2 DEF Follows
<1> DEFINE values == v(q)
           e == g(q)
           at == to(q)
<1>4. values = LineRegisters(q.c, f, ROP3_P, pen, mask)
  OBVIOUS
<1>5. e = SetEngineState(BeginEnginePath(q.c, FALSE), values)
  OBVIOUS
<1>6. o \in IF q.ok THEN Draw(e, q.mem, at, size, from, bits) ELSE {q}
  BY <1>1
<1> HIDE DEF values, at, size, from, bits, e
<1> DEFINE d == q.c
           rop == ROP3_P
<1>7. Aligned(d.line.po) /\ values = LineRegisters(d, f, rop, pen, mask)
  BY <1>3, <1>4
<1> HIDE DEF d, rop
<1>8. DOMAIN values \subseteq Register /\ \A r \in DOMAIN values \cap {"dst", "src"} : Aligned(values[r])
  BY <1>7, LineValues
<1>9. QED
  BY <1>2, <1>5, <1>6, <1>8, DrewFollows

------------------------------------------------------------------------------
(* Numbers that are rounded up to a granule.                                *)
LEMMA DivideGrows ==
  ASSUME NEW n \in Nat, NEW m \in Nat, NEW u \in Nat, u > 0, n <= m
  PROVE  n \div u \in Nat /\ m \div u \in Nat /\ n \div u <= m \div u
<1> DEFINE a == n \div u
           b == m \div u
<1>1. a \in Nat /\ b \in Nat /\ a * u <= n /\ m < b * u + u
  OBVIOUS
<1> HIDE DEF a, b
<1>2. a * u < (b + 1) * u
  BY <1>1
<1>3. a < b + 1
  BY <1>1, <1>2
<1>4. a <= b
  BY <1>1, <1>3
<1>5. QED
  BY <1>1, <1>4 DEF a, b

LEMMA RoundUpIs ==
  ASSUME NEW n \in Nat, NEW u \in Nat, u > 0
  PROVE  RoundUp(n, u) \in Nat /\ RoundUp(n, u) % u = 0
<1> DEFINE a == (n + u - 1) \div u
<1>1. a \in Nat /\ RoundUp(n, u) = a * u
  BY DEF RoundUp
<1> HIDE DEF a
<1>2. a * u \in Nat /\ (a * u) % u = 0
  BY <1>1
<1>3. QED
  BY <1>1, <1>2

LEMMA RoundUpGrows ==
  ASSUME NEW n \in Nat, NEW m \in Nat, NEW u \in Nat, u > 0, n <= m
  PROVE  RoundUp(n, u) <= RoundUp(m, u)
<1> DEFINE a == n + u - 1
           b == m + u - 1
<1>1. a \in Nat /\ b \in Nat /\ a <= b
  OBVIOUS
<1>2. RoundUp(n, u) = (a \div u) * u /\ RoundUp(m, u) = (b \div u) * u
  BY DEF RoundUp
<1> HIDE DEF a, b
<1> DEFINE i == a \div u
           j == b \div u
<1>3. i \in Nat /\ j \in Nat /\ i <= j
  BY <1>1, DivideGrows
<1> HIDE DEF i, j
<1>4. i * u <= j * u
  BY <1>3
<1>5. QED
  BY <1>2, <1>4 DEF i, j

LEMMA StagePitch ==
  ASSUME NEW w \in Nat, w <= MaxCoord + 1, NEW h, MonoPitch(w, h) # 0
  PROVE  MonoPitch(w, h) \in {n \in 1..MaxPitch : n % PitchAlign = 0}
<1> DEFINE most == MaxCoord + 1
           bits == RoundUp(w, ByteBits)
           all == RoundUp(most, ByteBits)
           bytes == bits \div ByteBits
           max == all \div ByteBits
           pitch == RoundUp(bytes, PitchAlign)
           widest == RoundUp(max, PitchAlign)
<1>1. most \in Nat /\ w <= most
  BY Granules
<1>2. widest <= MaxPitch
  BY StageAssumption
<1>3. MonoPitch(w, h) = pitch /\ pitch # 0
  BY DEF MonoPitch
<1> HIDE DEF most
<1>4. bits \in Nat /\ all \in Nat /\ bits <= all
  BY <1>1, Granules, RoundUpIs, RoundUpGrows
<1> HIDE DEF bits, all
<1>5. bytes \in Nat /\ max \in Nat /\ bytes <= max
  BY <1>4, Granules, DivideGrows
<1> HIDE DEF bytes, max
<1>6. pitch \in Nat /\ pitch % PitchAlign = 0 /\ pitch <= widest /\ widest \in Nat
  BY <1>5, Granules, RoundUpIs, RoundUpGrows
<1> HIDE DEF pitch, widest
<1>7. QED
  BY <1>2, <1>3, <1>6, Granules

LEMMA StageSource ==
  ASSUME NEW c, Sound(c), c.staging, NEW w \in Nat, w <= MaxCoord + 1, NEW h, MonoPitch(w, h) # 0
  PROVE  Aligned(<<MonoPitch(w, h), c.limit>>)
<1> DEFINE p == MonoPitch(w, h)
           l == c.limit
<1>1. p \in {n \in 1..MaxPitch : n % PitchAlign = 0}
  BY StagePitch
<1>2. l \in {o[1] : o \in Openings} /\ l % BaseAlign = 0
  BY DEF Sound, Typed
<1>3. l \in 0..Aperture
  BY <1>2, Limits
<1> HIDE DEF p, l
<1>4. <<p, l>>[1] = p /\ <<p, l>>[2] = l
  OBVIOUS
<1>5. Aligned(<<p, l>>)
  BY <1>1, <1>2, <1>3, <1>4 DEF Aligned
<1>6. QED
  BY <1>5 DEF p, l

(* The stage is written before the registers: it changes nothing they say.  *)
LEMMA StagedSound ==
  ASSUME NEW c, Writable(c), NEW d, d = StageFilled(c)
  PROVE  Writable(d) /\ d.limit = c.limit /\ d.line = c.line /\ d.staging = c.staging
<1>1. DOMAIN d = CardField /\ d.staged = TRUE /\ \A k \in CardField \ {"staged"} : d[k] = c[k]
  BY DEF Writable, Sound, Typed, CardField, StageFilled
<1>2. /\ d.accel = c.accel /\ d.pending = c.pending /\ d.restore = c.restore /\ d.slipped = c.slipped /\ d.tried = c.tried /\ d.ready = c.ready
      /\ d.host = c.host /\ d.held = c.held /\ d.limit = c.limit /\ d.line = c.line /\ d.staging = c.staging
      /\ d.regs = c.regs /\ d.shadow = c.shadow
  BY <1>1 DEF CardField
<1>3. Typed(d)
  BY <1>1, <1>2 DEF Writable, Sound, Typed
<1>4. Reliable(d) => Coherent(d) /\ PathKept(d)
  BY <1>2 DEF Writable, Sound, Reliable, Coherent, PathKept, HostPathGood
<1>5. LineFresh(d)
  BY <1>2, LineFreshKept DEF Writable, Sound
<1>6. QED
  BY <1>2, <1>3, <1>4, <1>5 DEF Writable, Sound

LEMMA StagedFollows ==
  ASSUME NEW c, Sound(c), Drawing(c), c.staging, NEW mem, NEW s, Aligned(s.po), NEW t, NEW x, NEW y,
         NEW w \in Nat, w <= MaxCoord + 1, NEW h, MonoPitch(w, h) # 0, NEW mask, NEW f,
         NEW o \in SubmitStagedTemplate(c, mem, s, t, x, y, w, h, mask, f)
  PROVE  Follows(c, o)
<1> DEFINE at == Origin(s, x, y)
           source == <<MonoPitch(w, h), c.limit>>
           v(q) == [master |-> Master(IF t.mode = "jam2" THEN "stagebg" ELSE "stagela", f, ROP3_S),
                    mask |-> <<WriteMask(mask, f)>>,
                    srcfg |-> <<HardwarePen(t.fg, f)>>, srcbg |-> <<HardwarePen(t.bg, f)>>,
                    cntl |-> LeftToRight, dst |-> s.po, src |-> source,
                    tl |-> at, br |-> <<at[1] + w, at[2] + h>>]
           d(q) == StageFilled(q.c)
           g(q) == SetEngineState(BeginEnginePath(d(q), FALSE), v(q))
           size == <<w, h>>
           from == <<0, 0>>
           bits == StagedBits(t, w, h)
<1>1. PICK q \in PrepareMmioEngine(c, mem) :
        o \in IF q.ok THEN Draw(g(q), q.mem, at, size, from, bits) ELSE {q}
  BY DEF SubmitStagedTemplate, AndThen
<1>2. Follows(c, q) /\ (q.ok => Writable(q.c))
  BY PrepareFollows
<1>3. CASE ~q.ok
  BY <1>1, <1>2, <1>3
<1>4. CASE q.ok
  <2> DEFINE values == v(q)
             b == d(q)
             e == SetEngineState(BeginEnginePath(b, FALSE), values)
  <2>1. Aligned(source) /\ q.c.limit = c.limit
    BY <1>2, StageSource DEF Follows
  <2>2. DOMAIN values \subseteq Register /\ values["dst"] = s.po /\ values["src"] = source
    BY <2>1 DEF Register
  <2>3. \A r \in DOMAIN values \cap {"dst", "src"} : Aligned(values[r])
    BY <2>1, <2>2
  <2>4. o \in Draw(e, q.mem, at, size, from, bits)
    BY <1>1, <1>4
  <2>5. Writable(b) /\ b.limit = q.c.limit /\ b.line = q.c.line /\ b.staging = q.c.staging
    BY <1>2, <1>4, StagedSound
  <2> HIDE DEF values, b, at, size, from, bits, source
  <2> HIDE DEF e
  <2>6. o.ok /\ o.ok \in BOOLEAN /\ o.c = Painted(e)
    BY <2>4, DrawIs
  <2>7. o.c = Painted(SetEngineState(BeginEnginePath(b, FALSE), values))
    BY <2>6 DEF e
  <2>8. Follows(b, o)
    BY <2>2, <2>3, <2>5, <2>6, <2>7, WroteFollows
  <2>9. QED
    BY <1>2, <2>5, <2>8 DEF Follows
<1>5. QED
  BY <1>3, <1>4
------------------------------------------------------------------------------
(* The host data path: opened it is as it must be, and broken it counts as  *)
(* no more than any other.                                                  *)
LEMMA BrokenSound ==
  ASSUME NEW c, Writable(c), NEW d, d = HostPathBroken(c)
  PROVE  /\ Writable(d) /\ d.limit = c.limit /\ d.line = c.line /\ d.staging = c.staging
<1>1. DOMAIN d = CardField /\ d.ready = FALSE /\ \A k \in CardField \ {"ready"} : d[k] = c[k]
  BY DEF Writable, Sound, Typed, CardField, HostPathBroken
<1>2. /\ d.accel = c.accel /\ d.pending = c.pending /\ d.restore = c.restore /\ d.slipped = c.slipped /\ d.tried = c.tried /\ d.staged = c.staged
      /\ d.host = c.host /\ d.held = c.held /\ d.limit = c.limit /\ d.line = c.line /\ d.staging = c.staging
      /\ d.regs = c.regs /\ d.shadow = c.shadow
  BY <1>1 DEF CardField
<1>3. Typed(d)
  BY <1>1, <1>2 DEF Writable, Sound, Typed
<1>4. Reliable(d) => Coherent(d) /\ PathKept(d)
  BY <1>1, <1>2 DEF Writable, Sound, Reliable, Coherent, PathKept
<1>5. LineFresh(d)
  BY <1>2, LineFreshKept DEF Writable, Sound
<1>6. QED
  BY <1>2, <1>3, <1>4, <1>5 DEF Writable, Sound

LEMMA OpenedSound ==
  ASSUME NEW c, Writable(c), NEW d, d = HostPathOpened(c)
  PROVE  /\ Writable(d) /\ d.limit = c.limit /\ d.line = c.line /\ d.staging = c.staging
<1> DEFINE host == IF c.ready THEN c.host ELSE c.host \cup {"swap", "clean"}
           b == IF c.ready THEN c ELSE [c EXCEPT !.host = host]
<1>0. DOMAIN c = CardField
  BY DEF Writable, Sound, Typed
<1>1. DOMAIN b = CardField /\ b.host = host /\ \A k \in CardField \ {"host"} : b[k] = c[k]
  BY <1>0 DEF CardField
<1>2. /\ host \subseteq {"swap", "endian", "clean"}
      /\ Reliable(c) => host = {"swap", "endian", "clean"}
  BY DEF Writable, Sound, Typed, PathKept, HostPathGood
<1>3. d = [b EXCEPT !.ready = TRUE]
  BY DEF HostPathOpened
<1> HIDE DEF b, host
<1>4. DOMAIN d = CardField /\ d.ready = TRUE /\ \A k \in CardField \ {"ready"} : d[k] = b[k]
  BY <1>1, <1>3 DEF CardField
<1>5. /\ d.accel = c.accel /\ d.pending = c.pending /\ d.restore = c.restore /\ d.slipped = c.slipped /\ d.tried = c.tried /\ d.staged = c.staged
      /\ d.host = host /\ d.held = c.held /\ d.limit = c.limit /\ d.line = c.line /\ d.staging = c.staging
      /\ d.regs = c.regs /\ d.shadow = c.shadow
  BY <1>1, <1>4 DEF CardField
<1>6. Typed(d)
  BY <1>2, <1>4, <1>5 DEF Writable, Sound, Typed
<1>7. Reliable(d) => Coherent(d) /\ PathKept(d)
  BY <1>2, <1>5 DEF Writable, Sound, Reliable, Coherent, PathKept, HostPathGood
<1>8. LineFresh(d)
  BY <1>5, LineFreshKept DEF Writable, Sound
<1>9. QED
  BY <1>5, <1>6, <1>7, <1>8 DEF Writable, Sound

LEMMA HostFollows ==
  ASSUME NEW c, Sound(c), Drawing(c), NEW mem, NEW s, Aligned(s.po), NEW x, NEW y, NEW w, NEW h,
         NEW fg, NEW bg, NEW writeMask, NEW transparent, NEW f, NEW bits,
         NEW o \in HostUpload(c, mem, s, x, y, w, h, fg, bg, writeMask, transparent, f, bits)
  PROVE  Follows(c, o)
<1> DEFINE at == Origin(s, x, y)
           kind == IF transparent THEN "hostla" ELSE "hostbg"
           values == [master |-> Master(kind, f, ROP3_S),
                      mask |-> <<writeMask>>, srcfg |-> <<HardwarePen(fg, f)>>,
                      srcbg |-> <<HardwarePen(bg, f)>>, cntl |-> LeftToRight, dst |-> s.po,
                      tl |-> at, br |-> <<at[1] + w, at[2] + h>>]
           begun(q) == BeginEnginePath(q.c, TRUE)
           g(q) == SetEngineState(HostPathOpened(begun(q)), values)
           m(q) == IF HostPathGood(g(q)) THEN q.mem ELSE <<>>
           size == <<RoundUp(w, HostBits), h>>
           from == <<0, 0>>
<1>1. PICK q \in PrepareMmioEngine(c, mem) :
        o \in IF q.ok THEN {Outcome(FALSE, HostPathBroken(begun(q)), q.mem)} \cup
                           Draw(g(q), m(q), at, size, from, bits)
              ELSE {q}
  BY DEF HostUpload, AndThen
<1>2. Follows(c, q) /\ (q.ok => Writable(q.c))
  BY PrepareFollows
<1>3. CASE ~q.ok
  BY <1>1, <1>2, <1>3
<1>4. ASSUME q.ok PROVE Follows(c, o)
  <2> DEFINE yes == TRUE
             d == q.c
             b == BeginEnginePath(d, yes)
  <2>1. Writable(d)
    BY <1>2, <1>4
  <2>2. b = BeginEnginePath(d, yes) /\ yes \in BOOLEAN
    OBVIOUS
  <2>0. b = begun(q)
    OBVIOUS
  <2> HIDE DEF yes, b
  <2>3. /\ Sound(b) /\ b.pending = d.pending /\ b.restore = d.restore /\ b.slipped = d.slipped /\ b.accel = d.accel /\ b.held = d.held
        /\ b.limit = d.limit /\ b.line = d.line /\ b.staging = d.staging /\ b.ready = (d.ready /\ yes)
    BY <2>1, <2>2, BeginKeeps DEF Writable
  <2>4. Writable(b)
    BY <2>1, <2>3 DEF Writable
  <2> DEFINE broken == HostPathBroken(b)
             opened == HostPathOpened(b)
             e == SetEngineState(opened, values)
             p == Painted(e)
  <2>5. Writable(broken) /\ broken.limit = b.limit /\ broken.line = b.line /\ broken.staging = b.staging
    BY <2>4, BrokenSound
  <2>6. Writable(opened) /\ opened.limit = b.limit /\ opened.line = b.line /\ opened.staging = b.staging
    BY <2>4, OpenedSound
  <2>7. DOMAIN values \subseteq Register /\ values["dst"] = s.po
    BY DEF Register
  <2>8. \A r \in DOMAIN values \cap {"dst", "src"} : Aligned(values[r])
    BY <2>7
  <2>9. "master" \in DOMAIN values /\ values["master"][1] \in {"hostbg", "hostla"}
    BY DEF Master
  <2>10. o = Outcome(FALSE, broken, q.mem) \/ o \in Draw(e, m(q), at, size, from, bits)
    BY <1>1, <1>4, <2>0
  <2> DEFINE n == m(q)
  <2> HIDE DEF values, at, size, from, broken, opened, n
  <2>11. /\ Writable(e) /\ e.limit = opened.limit /\ e.line = opened.line /\ e.staging = opened.staging
         /\ ~e.slipped => \A r \in DOMAIN values : e.regs[r] = values[r]
    BY <2>6, <2>7, <2>8, SetWritable
  <2>12. e.slipped \/ e.regs["master"][1] \in {"hostbg", "hostla"}
    BY <2>9, <2>11
  <2> HIDE DEF e
  <2>13. /\ Sound(p) /\ Drawing(p)
         /\ p.limit = e.limit /\ p.line = e.line /\ p.staging = e.staging
    BY <2>11, <2>12, PaintedSound
  <2>14. CASE o = Outcome(FALSE, broken, q.mem)
    <3>1. o.ok = FALSE /\ o.c = broken
      BY <2>14 DEF Outcome
    <3>2. QED
      BY <1>2, <2>3, <2>5, <3>1 DEF Follows, Writable, Drawing
  <2>15. CASE o \in Draw(e, n, at, size, from, bits)
    <3>1. o.ok /\ o.ok \in BOOLEAN /\ o.c = p
      BY <2>15, DrawIs
    <3> HIDE DEF p
    <3>2. QED
      BY <1>2, <2>3, <2>6, <2>11, <2>13, <3>1 DEF Follows
  <2>16. QED
    BY <2>10, <2>14, <2>15 DEF n
<1>5. QED
  BY <1>3, <1>4

LEMMA TemplateFollows ==
  ASSUME NEW c, Sound(c), Drawing(c), NEW mem, NEW s, Aligned(s.po), NEW t, NEW x, NEW y, NEW w, NEW h,
         NEW mask, NEW f,
         NEW o \in SubmitTemplate(c, mem, s, t, x, y, w, h, mask, f)
  PROVE  Follows(c, o)
<1> DEFINE fg == t.fg
           bg == t.bg
           m == WriteMask(mask, f)
           transparent == t.mode = "jam1"
           bits == TemplateBits(t, w, h)
<1>1. o \in HostUpload(c, mem, s, x, y, w, h, fg, bg, m, transparent, f, bits)
  BY DEF SubmitTemplate
<1> HIDE DEF fg, bg, m, transparent, bits
<1>2. QED
  BY <1>1, HostFollows

LEMMA PassFollows ==
  ASSUME NEW c, Sound(c), Drawing(c), NEW mem, NEW s, Aligned(s.po), NEW p, NEW sx, NEW sy, NEW x, NEW y,
         NEW w, NEW h, NEW all, NEW none, NEW fg, NEW bg, NEW writeMask, NEW transparent, NEW f,
         NEW o \in SubmitPlanarPass(c, mem, s, p, sx, sy, x, y, w, h, all, none, fg, bg, writeMask, transparent, f)
  PROVE  Follows(c, o)
<1> DEFINE bits == PassBits(p, sx, sy, w, h, all, none)
<1>1. o \in HostUpload(c, mem, s, x, y, w, h, fg, bg, writeMask, transparent, f, bits)
  BY DEF SubmitPlanarPass
<1> HIDE DEF bits
<1>2. QED
  BY <1>1, HostFollows

LEMMA FollowsAgain ==
  ASSUME NEW c, NEW o, Follows(c, o)
  PROVE  Sound(o.c) /\ Drawing(o.c) /\ o.c.limit = c.limit /\ o.c.line = c.line /\ o.c.staging = c.staging
BY DEF Follows

LEMMA EitherFollows ==
  ASSUME Sound(card), Drawing(card), NEW s, Aligned(s.po), NEW t, NEW q, q[3] \in Nat, q[3] <= MaxCoord + 1,
         NEW mask, NEW f, NEW o \in SubmitEitherTemplate(s, t, q, mask, f)
  PROVE  Follows(card, o)
<1> DEFINE x == q[1]
           y == q[2]
           w == q[3]
           h == q[4]
           read == [card EXCEPT !.held = "line"]
           host(c) == SubmitTemplate(c, OnBoard, s, t, x, y, w, h, mask, f)
           mem == OnBoard
<1>1. CASE ~(card.staging /\ MonoPitch(w, h) # 0)
  <2>1. o \in SubmitTemplate(card, mem, s, t, x, y, w, h, mask, f)
    BY <1>1 DEF SubmitEitherTemplate
  <2> HIDE DEF x, y, w, h, mem
  <2>2. QED
    BY <2>1, TemplateFollows
<1>2. CASE card.staging /\ MonoPitch(w, h) # 0
  <2>1. PICK r \in SubmitStagedTemplate(read, mem, s, t, x, y, w, h, mask, f) :
          o \in IF r.ok THEN {r} ELSE host(r.c)
    BY <1>2 DEF SubmitEitherTemplate
  <2>2. /\ DOMAIN read = CardField /\ read.held = "line"
        /\ \A k \in CardField \ {"held"} : read[k] = card[k]
    BY DEF Sound, Typed, CardField
  <2> DEFINE c == read
  <2>3. /\ c.accel = card.accel /\ c.pending = card.pending /\ c.restore = card.restore /\ c.slipped = card.slipped /\ c.tried = card.tried /\ c.ready = card.ready
        /\ c.host = card.host /\ c.limit = card.limit /\ c.line = card.line
        /\ c.staging = card.staging /\ c.staged = card.staged /\ c.regs = card.regs /\ c.shadow = card.shadow
    BY <2>2 DEF CardField
  <2>4. Typed(c)
    BY <2>2, <2>3 DEF Sound, Typed
  <2>5. (Reliable(c) => Coherent(c) /\ PathKept(c))
    BY <2>3 DEF Sound, Reliable, Coherent, PathKept, HostPathGood
  <2>6. LineFresh(c)
    BY <2>3, LineFreshKept DEF Sound
  <2>7. Sound(c) /\ Drawing(c) /\ c.staging
    BY <1>2, <2>2, <2>3, <2>4, <2>5, <2>6 DEF Sound, Drawing
  <2>8. w \in Nat /\ w <= MaxCoord + 1 /\ MonoPitch(w, h) # 0
    BY <1>2
  <2> HIDE DEF x, y, w, h, mem, c
  <2>9. r \in SubmitStagedTemplate(c, mem, s, t, x, y, w, h, mask, f)
    BY <2>1 DEF c
  <2>10. Follows(c, r)
    BY <2>7, <2>8, <2>9, StagedFollows
  <2>11. Follows(card, r)
    BY <2>3, <2>10 DEF Follows
  <2>12. CASE r.ok
    BY <2>1, <2>11, <2>12
  <2>13. CASE ~r.ok
    <3> DEFINE d == r.c
    <3>1. o \in SubmitTemplate(d, mem, s, t, x, y, w, h, mask, f)
      BY <2>1, <2>13 DEF mem
    <3>2. Sound(d) /\ Drawing(d)
      BY <2>11, FollowsAgain
    <3>3. Follows(d, o)
      BY <3>1, <3>2, TemplateFollows
    <3>4. QED
      BY <2>11, <3>3, FollowsOn
  <2>14. QED
    BY <2>12, <2>13
<1>3. QED
  BY <1>1, <1>2

(* A line: it fails behind the registers' path, or it is drawn.             *)
LEMMA LineFollows ==
  ASSUME NEW c, Sound(c), Drawing(c), Aligned(c.line.po), NEW mem, NEW l, NEW rop,
         NEW pen, NEW mask, NEW f,
         NEW o \in SubmitLine(c, mem, l, rop, pen, mask, f)
  PROVE  Follows(c, o)
<1> DEFINE v(q) == LineRegisters(q.c, f, rop, pen, mask)
           begun(q) == BeginEnginePath(q.c, FALSE)
           g(q) == SetEngineState(begun(q), v(q))
<1>1. PICK q \in PrepareMmioEngine(c, mem) :
        o \in IF q.ok THEN {Outcome(FALSE, begun(q), q.mem),
                            Outcome(TRUE, Painted(g(q)), Dots(g(q), q.mem, l))}
              ELSE {q}
  BY DEF SubmitLine, AndThen
<1>2. Follows(c, q) /\ (q.ok => Writable(q.c))
  BY PrepareFollows
<1>3. CASE ~q.ok
  BY <1>1, <1>2, <1>3
<1>4. ASSUME q.ok PROVE Follows(c, o)
  <2> DEFINE no == FALSE
             d == q.c
             b == BeginEnginePath(d, no)
             values == v(q)
             e == SetEngineState(BeginEnginePath(q.c, FALSE), values)
  <2>1. Writable(d) /\ Aligned(d.line.po)
    BY <1>2, <1>4 DEF Follows
  <2>2. b = BeginEnginePath(d, no) /\ no \in BOOLEAN
    OBVIOUS
  <2>3. b = begun(q)
    OBVIOUS
  <2>4. e = g(q) /\ values = LineRegisters(d, f, rop, pen, mask)
    OBVIOUS
  <2> HIDE DEF no, b, values
  <2>5. CASE o = Outcome(FALSE, begun(q), q.mem)
    <3>1. /\ Sound(b) /\ b.pending = d.pending /\ b.restore = d.restore /\ b.slipped = d.slipped /\ b.accel = d.accel /\ b.held = d.held
          /\ b.limit = d.limit /\ b.line = d.line /\ b.staging = d.staging /\ b.ready = (d.ready /\ no)
      BY <2>1, <2>2, BeginKeeps DEF Writable
    <3>2. o = Outcome(FALSE, b, q.mem)
      BY <2>3, <2>5
    <3>3. o.ok = FALSE /\ o.c = b
      BY <3>2 DEF Outcome
    <3>4. QED
      BY <1>2, <2>1, <3>1, <3>3 DEF Follows, Writable, Drawing
  <2>6. CASE o = Outcome(TRUE, Painted(g(q)), Dots(g(q), q.mem, l))
    <3>1. DOMAIN values \subseteq Register /\ \A r \in DOMAIN values \cap {"dst", "src"} : Aligned(values[r])
      BY <2>1, <2>4, LineValues
    <3>2. o.ok /\ o.ok \in BOOLEAN /\ o.c = Painted(e)
      BY <2>4, <2>6 DEF Outcome
    <3> HIDE DEF e
    <3>3. o.c = Painted(SetEngineState(BeginEnginePath(d, FALSE), values))
      BY <3>2 DEF e
    <3>4. Follows(d, o)
      BY <2>1, <3>1, <3>2, <3>3, WroteFollows
    <3>5. QED
      BY <1>2, <3>4, FollowsOn
  <2>7. QED
    BY <1>1, <1>4, <2>5, <2>6
<1>5. QED
  BY <1>3, <1>4
------------------------------------------------------------------------------
(* Passes one after the other.  What is promised of the first n of them     *)
(* follows pass by pass: there is no least n for which it fails.            *)
Least2D(S) == CHOOSE m \in S : \A n \in S : m <= n
LEMMA Least2DIs == ASSUME NEW S \in SUBSET Nat, S # {} PROVE Least2D(S) \in S /\ \A n \in S : Least2D(S) <= n
<1> DEFINE R == OpToRel(<, Nat)
<1>1. IsWellFoundedOn(R, Nat)
  BY NatLessThanWellFounded
<1> HIDE DEF R
<1>2. PICK m \in S : \A n \in S : ~ (<<n, m>> \in R)
  BY <1>1, WFMin
<1>3. \A n \in S : ~ (n < m)
  BY <1>2 DEF R, OpToRel
<1>4. \A n \in S : m <= n
  BY <1>3
<1>5. QED
  BY <1>4, Zenon DEF Least2D

LEMMA BehindFollows ==
  ASSUME NEW c, NEW begun, \A o \in begun : Follows(c, o), NEW s, Aligned(s.po), NEW p, NEW sx, NEW sy,
         NEW x, NEW y, NEW w, NEW h, NEW f, NEW u, NEW o \in PassBehind(begun, s, p, sx, sy, x, y, w, h, f, u)
  PROVE  Follows(c, o)
<1>1. PICK r \in begun :
        o \in IF r.ok THEN SubmitPlanarPass(r.c, r.mem, s, p, sx, sy, x, y, w, h, u.all, u.none, u.fg, u.bg,
                                            u.mask, u.transparent, f)
              ELSE {r}
  BY DEF PassBehind, AndThen
<1>2. Follows(c, r)
  OBVIOUS
<1>3. CASE ~r.ok
  BY <1>1, <1>2, <1>3
<1>4. CASE r.ok
  <2> DEFINE d == r.c
             m == r.mem
             all == u.all
             none == u.none
             fg == u.fg
             bg == u.bg
             k == u.mask
             t == u.transparent
  <2>1. o \in SubmitPlanarPass(d, m, s, p, sx, sy, x, y, w, h, all, none, fg, bg, k, t, f)
    BY <1>1, <1>4
  <2>2. Sound(d) /\ Drawing(d)
    BY <1>2, FollowsAgain
  <2> HIDE DEF m, all, none, fg, bg, k, t
  <2>3. Follows(d, o)
    BY <2>1, <2>2, PassFollows
  <2>4. QED
    BY <1>2, <2>3, FollowsOn
<1>5. QED
  BY <1>3, <1>4

LEMMA PassesFollow ==
  ASSUME NEW c, NEW begun, \A o \in begun : Follows(c, o), NEW s, Aligned(s.po), NEW p, NEW sx, NEW sy,
         NEW x, NEW y, NEW w, NEW h, NEW f, NEW count \in Nat, NEW pass,
         NEW o \in SubmitPasses(begun, s, p, sx, sy, x, y, w, h, f, count, pass)
  PROVE  Follows(c, o)
<1> DEFINE B(S, u) == PassBehind(S, s, p, sx, sy, x, y, w, h, f, u)
           Upto(g, n) == g[0] = begun /\ \A i \in 1..n : g[i] = B(g[i - 1], pass[i])
           Rec(g) == g = [n \in 0..count |-> IF n = 0 THEN begun ELSE B(g[n - 1], pass[n])]
           U == CHOOSE g : Rec(g)
<1>1. o \in U[count]
  BY Zenon DEF SubmitPasses
<1>2. \E g : Upto(g, count)
  <2> DEFINE S == {n \in 0..count : ~\E g : Upto(g, n)}
             m == Least2D(S)
  <2>1. SUFFICES ASSUME S # {} PROVE FALSE
    <3>1. S = {} => \E g : Upto(g, count)
      OBVIOUS
    <3>2. QED
      BY <2>1, <3>1
  <2>2. m \in S /\ \A n \in S : m <= n
    BY <2>1, Least2DIs, SMTT(60)
  <2> HIDE DEF m
  <2>3. m # 0
    <3>1. Upto([n \in {0} |-> begun], 0)
      OBVIOUS
    <3>2. QED
      BY <2>2, <3>1
  <2>4. m \in 1..count /\ m - 1 \in 0..count /\ m - 1 \notin S
    <3>1. m \in 0..count
      BY <2>2
    <3> HIDE DEF S
    <3>2. QED
      BY <2>2, <2>3, <3>1
  <2>5. PICK g : Upto(g, m - 1)
    <3> HIDE DEF Upto
    <3>1. \E g : Upto(g, m - 1)
      BY <2>4
    <3>2. QED
      BY <3>1
  <2> DEFINE k == [n \in 0..m |-> IF n = m THEN B(g[m - 1], pass[m]) ELSE g[n]]
  <2>6. Upto(k, m)
    <3> HIDE DEF B
    <3>1. k[0] = begun /\ \A i \in 0..m-1 : k[i] = g[i]
      BY <2>4, <2>5
    <3>2. k[m] = B(g[m - 1], pass[m])
      BY <2>4
    <3> HIDE DEF k
    <3>3. \A i \in 1..m : i = m \/ (i \in 1..m-1 /\ i \in 0..m-1)
      BY <2>4
    <3>4. \A i \in 1..m : i - 1 \in 0..m-1
      BY <2>4
    <3>5. ASSUME NEW i \in 1..m PROVE k[i] = B(k[i - 1], pass[i])
      <4>1. k[i - 1] = g[i - 1]
        BY <3>1, <3>4
      <4>2. CASE i = m
        BY <3>2, <4>1, <4>2
      <4>3. CASE i # m
        BY <2>5, <3>1, <3>3, <4>1, <4>3
      <4>4. QED
        BY <4>2, <4>3
    <3>6. QED
      BY <3>1, <3>5
  <2>7. QED
    BY <2>2, <2>6
<1>3. PICK h1 : Upto(h1, count)
  BY <1>2
<1> DEFINE F == [n \in 0..count |-> h1[n]]
<1>4. Rec(F)
  <2> HIDE DEF B
  <2>1. ASSUME NEW n \in 0..count PROVE F[n] = IF n = 0 THEN begun ELSE B(F[n - 1], pass[n])
    <3>1. CASE n = 0
      BY <1>3, <3>1
    <3>2. CASE n # 0
      <4>1. n \in 1..count /\ n - 1 \in 0..count
        BY <3>2
      <4>2. F[n] = h1[n] /\ F[n - 1] = h1[n - 1]
        BY <4>1
      <4>3. h1[n] = B(h1[n - 1], pass[n])
        BY <1>3, <4>1
      <4>4. QED
        BY <3>2, <4>2, <4>3
    <3>3. QED
      BY <3>1, <3>2
  <2>2. F = [n \in 0..count |-> F[n]]
    OBVIOUS
  <2> DEFINE G == [n \in 0..count |-> IF n = 0 THEN begun ELSE B(F[n - 1], pass[n])]
  <2>3. \A n \in 0..count : F[n] = G[n]
    <3> HIDE DEF F
    <3>1. QED
      BY <2>1
  <2> HIDE DEF F
  <2>4. F = G
    BY <2>2, <2>3
  <2>5. QED
    BY <2>4
<1>5. Rec(U)
  <2> HIDE DEF Rec, F
  <2>1. QED
    BY <1>4, Zenon
<1> HIDE DEF U
<1>6. ASSUME NEW n \in 0..count PROVE U[n] = IF n = 0 THEN begun ELSE B(U[n - 1], pass[n])
  <2> HIDE DEF B
  <2>1. QED
    BY <1>5
<1> DEFINE S == {n \in 0..count : ~\A r \in U[n] : Follows(c, r)}
           m == Least2D(S)
<1>7. SUFFICES ASSUME S # {} PROVE FALSE
  <2>1. S = {} => \A r \in U[count] : Follows(c, r)
    OBVIOUS
  <2>2. QED
    BY <1>1, <1>7, <2>1
<1>8. m \in S /\ \A n \in S : m <= n
  BY <1>7, Least2DIs
<1> HIDE DEF m
<1>9. m # 0
  <2>1. U[0] = begun
    BY <1>6
  <2>2. QED
    BY <1>8, <2>1
<1>10. m - 1 \in 0..count /\ m - 1 \notin S /\ m \in 0..count
  BY <1>8, <1>9
<1>11. \A r \in U[m - 1] : Follows(c, r)
  BY <1>10
<1> DEFINE V == U[m - 1]
           u == pass[m]
<1>12. U[m] = B(V, u)
  BY <1>6, <1>9, <1>10
<1> HIDE DEF V, u
<1>13. \A r \in V : Follows(c, r)
  BY <1>11 DEF V
<1>14. \A r \in B(V, u) : Follows(c, r)
  BY <1>13, BehindFollows
<1>15. QED
  BY <1>8, <1>12, <1>14

LEMMA FillFollows ==
  ASSUME NEW c, NEW begun, \A o \in begun : Follows(c, o), NEW s, Aligned(s.po),
         NEW x, NEW y, NEW w, NEW h, NEW bits, NEW pen, NEW o \in FillBehind(begun, s, x, y, w, h, bits, pen)
  PROVE  Follows(c, o)
<1>1. CASE bits = {}
  BY <1>1 DEF FillBehind
<1>2. CASE bits # {}
  <2> DEFINE f == 1
             rop == ROP3_P
  <2>1. PICK r \in begun : o \in IF r.ok THEN SubmitSolidRect(r.c, r.mem, s, x, y, w, h, pen, bits, f, rop) ELSE {r}
    BY <1>2 DEF FillBehind, AndThen
  <2>2. Follows(c, r)
    OBVIOUS
  <2>3. CASE ~r.ok
    BY <2>1, <2>2, <2>3
  <2>4. CASE r.ok
    <3> DEFINE d == r.c
               m == r.mem
    <3>1. o \in SubmitSolidRect(d, m, s, x, y, w, h, pen, bits, f, rop)
      BY <2>1, <2>4
    <3>2. Sound(d) /\ Drawing(d)
      BY <2>2, FollowsAgain
    <3> HIDE DEF m, f, rop
    <3>3. Follows(d, o)
      BY <3>1, <3>2, SolidFollows
    <3>4. QED
      BY <2>2, <3>3, FollowsOn
  <2>5. QED
    BY <2>3, <2>4
<1>3. QED
  BY <1>1, <1>2

LEMMA PlanesCounted ==
  ASSUME NEW p, Len(p.planes) \in Nat, NEW mask
  PROVE  IsFiniteSet(DataBits(p, mask)) /\ Cardinality(DataBits(p, mask)) \in Nat
<1> DEFINE n == Len(p.planes)
           D == DataBits(p, mask)
<1>1. D \subseteq 1..n
  BY DEF DataBits, Selected
<1> HIDE DEF n, D
<1>2. IsFiniteSet(1..n)
  BY FS_Interval DEF n
<1>3. IsFiniteSet(D)
  BY <1>1, <1>2, FS_Subset
<1>4. QED
  BY <1>3, FS_CardinalityType DEF D

LEMMA ChunkyFollows ==
  ASSUME NEW c, Sound(c), Drawing(c), NEW mem, NEW s, Aligned(s.po), NEW p, Len(p.planes) \in Nat,
         NEW sx, NEW sy, NEW x, NEW y, NEW w, NEW h, NEW mask,
         NEW o \in SubmitPlanarChunky(c, mem, s, p, sx, sy, x, y, w, h, mask)
  PROVE  Follows(c, o)
<1> DEFINE start == Outcome(TRUE, c, mem)
           Bits(kind) == {k - 1 : k \in Selected(p, mask) \cap Planes(p, kind)}
           zeros == Bits("zero")
           set == Bits("ones")
           none == {}
           begun == {start}
           cleared == FillBehind(begun, s, x, y, w, h, zeros, none)
           filled == FillBehind(cleared, s, x, y, w, h, set, Plane)
           count == Cardinality(DataBits(p, mask))
           plane(n) == DataPlanes(p, mask)[n]
           pass == [n \in 1..count |-> Pass({plane(n)}, {}, Plane, {}, {plane(n) - 1}, FALSE)]
           f == 1
<1>1. o \in SubmitPasses(filled, s, p, sx, sy, x, y, w, h, f, count, pass)
  BY Zenon DEF SubmitPlanarChunky
<1>2. count \in Nat
  BY PlanesCounted
<1>3. Follows(c, start)
  <2>1. start.c = c /\ start.ok /\ start.ok \in BOOLEAN
    BY DEF Outcome
  <2> HIDE DEF start
  <2>2. QED
    BY <2>1 DEF Follows
<1> HIDE DEF start, zeros, set, none, pass, count, f
<1>4. \A r \in begun : Follows(c, r)
  BY <1>3
<1> HIDE DEF begun
<1>5. \A r \in cleared : Follows(c, r)
  BY <1>4, FillFollows
<1> HIDE DEF cleared
<1>6. \A r \in filled : Follows(c, r)
  BY <1>5, FillFollows
<1> HIDE DEF filled
<1>7. QED
  BY <1>1, <1>2, <1>6, PassesFollow

LEMMA DirectFollows ==
  ASSUME NEW c, Sound(c), Drawing(c), NEW mem, NEW s, Aligned(s.po), NEW p, Len(p.planes) \in Nat, NEW cim,
         NEW sx, NEW sy, NEW x, NEW y, NEW w, NEW h, NEW mask, NEW f,
         NEW o \in SubmitPlanarDirect(c, mem, s, p, cim, sx, sy, x, y, w, h, mask, f)
  PROVE  Follows(c, o)
<1> DEFINE ones == ConstBits(p, mask)
           data == DataBits(p, mask)
           first == Min(data)
           rest == Rest(cim, ones, data, first)
           count == Cardinality(rest)
           t(n) == RestInOrder(cim, ones, data, first)[n]
           pass == [n \in 1..count |-> Pass(t(n), data \ t(n), cim[ones \cup t(n)], {}, Plane, TRUE)]
           all == {first}
           none == {}
           fg == cim[ones \cup {first}]
           bg == cim[ones]
           no == FALSE
           rop == ROP3_P
           begun == SubmitPlanarPass(c, mem, s, p, sx, sy, x, y, w, h, all, none, fg, bg, Plane, no, f)
<1>1. CASE data = {}
  <2>1. o \in SubmitSolidRect(c, mem, s, x, y, w, h, bg, Plane, f, rop)
    BY <1>1, Zenon DEF SubmitPlanarDirect
  <2> HIDE DEF bg, rop
  <2>2. QED
    BY <2>1, SolidFollows
<1>2. CASE data # {}
  <2>1. o \in SubmitPasses(begun, s, p, sx, sy, x, y, w, h, f, count, pass)
    BY <1>2, Zenon DEF SubmitPlanarDirect
  <2>2. count \in Nat
    <3>1. IsFiniteSet(data)
      BY PlanesCounted
    <3>2. rest \subseteq SUBSET data
      BY DEF Rest
    <3> HIDE DEF data, rest
    <3>3. IsFiniteSet(SUBSET data)
      BY <3>1, FS_SUBSET
    <3>4. IsFiniteSet(rest)
      BY <3>2, <3>3, FS_Subset
    <3>5. QED
      BY <3>4, FS_CardinalityType
  <2> HIDE DEF count, pass, all, none, fg, bg, no
  <2>3. \A r \in begun : Follows(c, r)
    BY PassFollows
  <2> HIDE DEF begun
  <2>4. QED
    BY <2>1, <2>2, <2>3, PassesFollow
<1>3. QED
  BY <1>1, <1>2
------------------------------------------------------------------------------
(* Surfaces: what the registers are given is what they can hold, and what   *)
(* is refused does not lie in the memory.                                   *)
LEMMA AlignedAddress ==
  ASSUME NEW m \in 0..Aperture
  PROVE  m - (m % BaseAlign) \in {n \in 0..Aperture : n % BaseAlign = 0}
<1> DEFINE k == m % BaseAlign
           n == m - k
<1>1. m \in Nat /\ k \in Nat /\ k <= m
  BY Granules
<1>2. n \in 0..Aperture
  BY <1>1, Granules
<1>3. n % BaseAlign = 0
  BY <1>1, Granules
<1>4. QED
  BY <1>2, <1>3

LEMMA PitchOffset ==
  ASSUME NEW p \in Int, p > 0, p <= MaxPitch, p % PitchAlign = 0, NEW m \in 0..Aperture,
         NEW v, v = <<p, m - (m % BaseAlign)>>
  PROVE  Aligned(v)
<1> DEFINE n == m - (m % BaseAlign)
<1>1. n \in {i \in 0..Aperture : i % BaseAlign = 0}
  BY AlignedAddress
<1>2. v[1] = p /\ v[2] = n
  OBVIOUS
<1> HIDE DEF n
<1>3. p \in {i \in 1..MaxPitch : i % PitchAlign = 0}
  BY Granules
<1>4. QED
  BY <1>1, <1>2, <1>3 DEF Aligned

LEMMA OnBoardMemory ==
  ASSUME NEW m \in Int, ~IsOffboardMemory(m)
  PROVE  m \in 0..Aperture
BY Granules DEF IsOffboardMemory

SurfaceGood(c, s, r, w, f) ==
  /\ Aligned(s.po) /\ s.r = r /\ s.bpp = f /\ s.limit = c.limit
  /\ w \in Nat /\ w <= MaxCoord + 1
  /\ s.po = <<r.pitch, r.memory - (r.memory % BaseAlign)>>
  /\ DOMAIN s = {"result", "r", "bpp", "limit", "po", "bias", "extent"}

LEMMA SurfaceAligned ==
  ASSUME NEW c, NEW r, r.memory \in Int, r.pitch \in Int, NEW x \in Int, NEW y \in Int, NEW w \in Int, NEW h \in Int,
         NEW f \in {0, 1, 2, 4}, NEW s, s = ValidateSurface(c, r, x, y, w, h, f), s.result = "hardware"
  PROVE  SurfaceGood(c, s, r, w, f)
<1>1. /\ f # 0 /\ r.pitch > 0 /\ w > 0 /\ h > 0 /\ x >= 0 /\ y >= 0 /\ ~IsOffboardMemory(r.memory)
      /\ r.pitch % PitchAlign = 0 /\ r.pitch <= MaxPitch /\ x + w - 1 <= MaxCoord
      /\ s.r = r /\ s.bpp = f /\ s.limit = c.limit
      /\ s.po = <<r.pitch, r.memory - (r.memory % BaseAlign)>>
      /\ DOMAIN s = {"result", "r", "bpp", "limit", "po", "bias", "extent"}
  <2> DEFINE bias == Bias(r, f)
             g == [result |-> "hardware", r |-> r, bpp |-> f, limit |-> c.limit,
                   po |-> <<r.pitch, r.memory - (r.memory % BaseAlign)>>, bias |-> bias,
                   extent |-> Extent(r, x, y, w, h, f)]
             none == SoftwareSurfaceResult(r)
             C1 == f = 0 \/ r.pitch <= 0
             C2 == w <= 0 \/ h <= 0
             C3 == x < 0 \/ y < 0
             C4 == IsOffboardMemory(r.memory)
             C5 == r.memory >= c.limit
             C6 == r.pitch % PitchAlign # 0 \/ r.pitch > MaxPitch
             C7 == x + w - 1 > MaxCoord \/ y + h - 1 > MaxCoord
             C8 == (x + w) * f > r.pitch \/ LastByte(r, x, y, w, h, f) > c.limit - r.memory
             C9 == ((r.memory % BaseAlign) % r.pitch) % f # 0
             C10 == bias[1] + x + w - 1 > MaxCoord \/ bias[2] + y + h - 1 > MaxCoord
  <2>1. s = IF C1 THEN none ELSE IF C2 THEN Result("reject") ELSE IF C3 THEN none
            ELSE IF C4 THEN Result("offboard") ELSE IF C5 THEN Result("reject")
            ELSE IF C6 THEN Result("onboard") ELSE IF C7 THEN Result("onboard")
            ELSE IF C8 THEN Result("reject") ELSE IF C9 THEN Result("onboard")
            ELSE IF C10 THEN Result("onboard") ELSE g
    BY Zenon DEF ValidateSurface, HardwareDatatype
  <2>2. none.result # "hardware"
    BY DEF SoftwareSurfaceResult
  <2>3. /\ Result("reject").result # "hardware" /\ Result("offboard").result # "hardware"
        /\ Result("onboard").result # "hardware"
    BY DEF Result
  <2>4. /\ g.r = r /\ g.bpp = f /\ g.limit = c.limit
        /\ g.po = <<r.pitch, r.memory - (r.memory % BaseAlign)>>
        /\ DOMAIN g = {"result", "r", "bpp", "limit", "po", "bias", "extent"}
    OBVIOUS
  <2> HIDE DEF C1, C2, C3, C4, C5, C6, C7, C8, C9, C10, g, none
  <2>5. ~C1 /\ ~C2 /\ ~C3 /\ ~C4 /\ ~C6 /\ ~C7 /\ s = g
    BY <2>1, <2>2, <2>3
  <2>6. f # 0 /\ r.pitch > 0
    BY <2>5 DEF C1
  <2>7. w > 0 /\ h > 0 /\ x >= 0 /\ y >= 0
    BY <2>5 DEF C2, C3
  <2>8. ~IsOffboardMemory(r.memory) /\ r.pitch % PitchAlign = 0 /\ r.pitch <= MaxPitch
    BY <2>5, Granules DEF C4, C6
  <2>9. x + w - 1 <= MaxCoord
    BY <2>5, Granules DEF C7
  <2>10. QED
    BY <2>4, <2>5, <2>6, <2>7, <2>8, <2>9
<1>2. r.memory \in 0..Aperture
  BY <1>1, OnBoardMemory
<1>3. Aligned(s.po)
  BY <1>1, <1>2, PitchOffset
<1>4. w \in Nat /\ w <= MaxCoord + 1
  BY <1>1, Granules
<1>5. QED
  BY <1>1, <1>3, <1>4 DEF SurfaceGood

(* A rectangle in the memory ends behind where it begins.                   *)
LEMMA LastByteBehind ==
  ASSUME NEW r, r.pitch \in Int, r.pitch >= 0, NEW x \in Nat, NEW y \in Nat, NEW w \in Nat, NEW h \in Nat,
         w > 0, h > 0, NEW f \in {1, 2, 4}
  PROVE  LastByte(r, x, y, w, h, f) \in Int /\ LastByte(r, x, y, w, h, f) > 0
<1> DEFINE a == y + h - 1
           b == x + w
           p == r.pitch
<1>1. a \in Nat /\ b \in Nat /\ b > 0 /\ p \in Nat
  OBVIOUS
<1> HIDE DEF a, b, p
<1>2. a * p \in Nat /\ b * f \in Nat /\ b * f > 0
  BY <1>1
<1>3. LastByte(r, x, y, w, h, f) = a * p + b * f
  BY DEF LastByte, a, b, p
<1>4. QED
  BY <1>2, <1>3

LEMMA SurfaceRejects ==
  ASSUME NEW c, c.limit \in Int, NEW r, r.memory \in Int, r.pitch \in Int,
         NEW q, q[1] \in Int, q[2] \in Int, q[3] \in Int, q[4] \in Int,
         NEW f \in {0, 1, 2, 4}, NEW s, s = ValidateSurface(c, r, q[1], q[2], q[3], q[4], f), s.result = "reject"
  PROVE  ~Legal(c, r, f, q)
<1> DEFINE x == q[1]
           y == q[2]
           w == q[3]
           h == q[4]
           bias == Bias(r, f)
           g == [result |-> "hardware", r |-> r, bpp |-> f, limit |-> c.limit,
                 po |-> <<r.pitch, r.memory - (r.memory % BaseAlign)>>, bias |-> bias,
                 extent |-> Extent(r, x, y, w, h, f)]
           none == SoftwareSurfaceResult(r)
           C1 == f = 0 \/ r.pitch <= 0
           C2 == w <= 0 \/ h <= 0
           C3 == x < 0 \/ y < 0
           C4 == IsOffboardMemory(r.memory)
           C5 == r.memory >= c.limit
           C6 == r.pitch % PitchAlign # 0 \/ r.pitch > MaxPitch
           C7 == x + w - 1 > MaxCoord \/ y + h - 1 > MaxCoord
           C8 == (x + w) * f > r.pitch \/ LastByte(r, x, y, w, h, f) > c.limit - r.memory
           C9 == ((r.memory % BaseAlign) % r.pitch) % f # 0
           C10 == bias[1] + x + w - 1 > MaxCoord \/ bias[2] + y + h - 1 > MaxCoord
<1>1. s = IF C1 THEN none ELSE IF C2 THEN Result("reject") ELSE IF C3 THEN none
          ELSE IF C4 THEN Result("offboard") ELSE IF C5 THEN Result("reject")
          ELSE IF C6 THEN Result("onboard") ELSE IF C7 THEN Result("onboard")
          ELSE IF C8 THEN Result("reject") ELSE IF C9 THEN Result("onboard")
          ELSE IF C10 THEN Result("onboard") ELSE g
  BY Zenon DEF ValidateSurface, HardwareDatatype
<1>2. none.result # "reject"
  BY DEF SoftwareSurfaceResult
<1>3. Result("offboard").result # "reject" /\ Result("onboard").result # "reject" /\ g.result # "reject"
  BY DEF Result
<1>4. SUFFICES ASSUME Legal(c, r, f, q) PROVE FALSE
  OBVIOUS
<1>5. /\ w > 0 /\ h > 0 /\ x >= 0 /\ y >= 0 /\ r.memory >= 0 /\ f > 0
      /\ (x + w) * f <= r.pitch /\ r.memory + LastByte(r, x, y, w, h, f) <= c.limit
  BY <1>4, Zenon DEF Legal
<1>6. ~C2
  BY <1>5
<1>7. CASE C5
  <2>1. x \in Nat /\ y \in Nat /\ w \in Nat /\ h \in Nat /\ f \in {1, 2, 4}
    BY <1>5
  <2>2. r.pitch >= 0
    BY <1>5, <2>1
  <2> DEFINE l == LastByte(r, x, y, w, h, f)
  <2>3. l \in Int /\ l > 0 /\ r.memory + l <= c.limit
    <3> HIDE DEF x, y, w, h
    <3>1. QED
      BY <1>5, <2>1, <2>2, LastByteBehind
  <2> HIDE DEF l
  <2>4. QED
    BY <1>7, <2>3
<1>8. CASE C8
  <2> DEFINE l == LastByte(r, x, y, w, h, f)
  <2>1. l \in Int
    BY DEF LastByte
  <2>2. r.memory + l <= c.limit /\ (x + w) * f <= r.pitch
    BY <1>5
  <2>3. (x + w) * f \in Int
    OBVIOUS
  <2> DEFINE b == (x + w) * f
  <2>4. b > r.pitch \/ l > c.limit - r.memory
    BY <1>8
  <2> HIDE DEF l, b
  <2>5. QED
    BY <2>1, <2>2, <2>3, <2>4 DEF b
<1>9. QED
  <2> HIDE DEF C1, C2, C3, C4, C5, C6, C7, C8, C9, C10, g, none
  <2>1. QED
    BY <1>1, <1>2, <1>3, <1>6, <1>7, <1>8

LEMMA SameSurfaceRejects ==
  ASSUME NEW c, c.limit \in Int, NEW r, r.memory \in Int, r.pitch \in Int,
         NEW q, q[1] \in Int, q[2] \in Int, q[3] \in Int, q[4] \in Int, NEW f \in {0, 1, 2, 4},
         NEW s, s.r = r, s.bpp = f, s.limit = c.limit, s.result = "hardware", DOMAIN s = {"result", "r", "bpp", "limit", "po", "bias", "extent"},
         NEW d, d = ValidateSameSurfaceRectangle(q[1], q[2], q[3], q[4], s), d.result = "reject"
  PROVE  ~Legal(c, r, f, q)
<1> DEFINE x == q[1]
           y == q[2]
           w == q[3]
           h == q[4]
           C1 == x < 0 \/ y < 0 \/ x + w - 1 > MaxCoord \/ y + h - 1 > MaxCoord
           C2 == (x + w) * s.bpp > s.r.pitch \/ LastByte(s.r, x, y, w, h, s.bpp) > s.limit - s.r.memory
           C3 == s.bias[1] + x + w - 1 > MaxCoord \/ s.bias[2] + y + h - 1 > MaxCoord
           g == [s EXCEPT !.extent = Extent(s.r, x, y, w, h, s.bpp)]
<1>1. d = IF C1 THEN Result("onboard") ELSE IF C2 THEN Result("reject") ELSE IF C3 THEN Result("onboard") ELSE g
  BY Zenon DEF ValidateSameSurfaceRectangle
<1>2. Result("onboard").result # "reject" /\ g.result # "reject"
  BY DEF Result
<1>3. C2
  <2> HIDE DEF C1, C2, C3, g
  <2>1. QED
    BY <1>1, <1>2
<1>4. SUFFICES ASSUME Legal(c, r, f, q) PROVE FALSE
  OBVIOUS
<1>5. (x + w) * f <= r.pitch /\ r.memory + LastByte(r, x, y, w, h, f) <= c.limit
  BY <1>4, Zenon DEF Legal
<1> DEFINE l == LastByte(r, x, y, w, h, f)
           b == (x + w) * f
<1>6. l \in Int /\ b \in Int
  BY DEF LastByte
<1>7. b > r.pitch \/ l > c.limit - r.memory
  BY <1>3
<1> HIDE DEF l, b
<1>8. QED
  BY <1>5, <1>6, <1>7 DEF l, b
------------------------------------------------------------------------------
(* The surface that lines remember.                                         *)
LEMMA GoodLine ==
  ASSUME NEW c, NEW r, r.memory \in Int, r.pitch \in Int, NEW f \in {0, 1, 2, 4}, LineSurface(c, r, f) = "good"
  PROVE  /\ f # 0 /\ r.pitch > 0 /\ r.pitch <= MaxPitch /\ r.pitch % PitchAlign = 0
         /\ r.memory \in 0..Aperture /\ ~(r.memory >= c.limit)
<1> DEFINE none == SoftwareSurfaceResult(r).result
           C1 == f = 0 \/ r.pitch <= 0
           C2 == IsOffboardMemory(r.memory)
           C3 == r.memory >= c.limit
           C4 == r.pitch % PitchAlign # 0 \/ r.pitch > MaxPitch
           C5 == r.pitch < f \/ c.limit - r.memory < r.pitch
           C6 == ((r.memory % BaseAlign) % r.pitch) % f # 0
           C7 == Bias(r, f)[1] > MaxCoord \/ Bias(r, f)[2] > MaxCoord
<1>1. LineSurface(c, r, f) = IF C1 THEN none ELSE IF C2 THEN "offboard" ELSE IF C3 THEN "reject"
        ELSE IF C4 THEN "onboard" ELSE IF C5 THEN "reject" ELSE IF C6 THEN "onboard"
        ELSE IF C7 THEN "onboard" ELSE "good"
  BY Zenon DEF LineSurface
<1>2. none # "good"
  BY DEF SoftwareSurfaceResult
<1> HIDE DEF C1, C2, C3, C4, C5, C6, C7, none
<1>3. ~C1 /\ ~C2 /\ ~C3 /\ ~C4
  BY <1>1, <1>2
<1>4. f # 0 /\ r.pitch > 0 /\ r.pitch <= MaxPitch /\ r.pitch % PitchAlign = 0 /\ ~(r.memory >= c.limit)
  BY <1>3, Granules DEF C1, C3, C4
<1>5. r.memory \in 0..Aperture
  BY <1>3, OnBoardMemory DEF C2
<1>6. QED
  BY <1>4, <1>5

LEMMA SameLine ==
  ASSUME NEW c, NEW d, d.limit = c.limit, NEW r, NEW f
  PROVE  LineSurface(d, r, f) = LineSurface(c, r, f) /\ LineLayout(d, r, f) = LineLayout(c, r, f)
BY DEF LineSurface, LineLayout

LEMMA LineSet ==
  ASSUME NEW c, Sound(c), NEW line, NEW d, d = [c EXCEPT !.line = line], LineFresh(d)
  PROVE  /\ Sound(d) /\ (Quiet(c) => Quiet(d)) /\ (Drawing(c) => Drawing(d))
         /\ d.line = line /\ d.limit = c.limit /\ d.accel = c.accel
<1>1. DOMAIN d = CardField /\ d.line = line /\ \A k \in CardField \ {"line"} : d[k] = c[k]
  BY DEF Sound, Typed, CardField
<1>2. /\ d.accel = c.accel /\ d.pending = c.pending /\ d.restore = c.restore /\ d.slipped = c.slipped
      /\ d.tried = c.tried /\ d.staging = c.staging /\ d.staged = c.staged /\ d.ready = c.ready
      /\ d.limit = c.limit /\ d.host = c.host /\ d.held = c.held /\ d.regs = c.regs /\ d.shadow = c.shadow
  BY <1>1 DEF CardField
<1>3. Typed(d)
  BY <1>1, <1>2 DEF Sound, Typed
<1>4. Reliable(d) => Coherent(d) /\ PathKept(d)
  BY <1>2 DEF Sound, Reliable, Coherent, PathKept, HostPathGood
<1>5. QED
  BY <1>1, <1>2, <1>3, <1>4 DEF Sound, Quiet, Drawing

(* Whatever the line's validation remembers is fresh; what it finds good is *)
(* the layout of this bitmap now.                                           *)
LEMMA LineRemembered ==
  ASSUME NEW c, Sound(c), NEW r, NEW f, NEW left, NEW top, NEW right, NEW bottom,
         NEW v, v = ValidateLineSurface(c, r, left, top, right, bottom, f)
  PROVE  /\ Sound(v.c) /\ (Quiet(c) => Quiet(v.c)) /\ (Drawing(c) => Drawing(v.c))
         /\ v.c.limit = c.limit /\ v.c.accel = c.accel
         /\ \/ v.result # "good" /\ v.result = LineSurface(c, r, f)
            \/ /\ LineSurface(c, r, f) = "good" /\ v.c.line = LineLayout(c, r, f)
               /\ v.result = IF left < 0 \/ top < 0 THEN SoftwareSurfaceResult(r).result
                             ELSE IF right > v.c.line.maxX \/ bottom > v.c.line.maxY THEN "reject"
                             ELSE "hardware"
<1> DEFINE found == IF Hit(c, r, f) THEN "good" ELSE LineSurface(c, r, f)
           line == IF Hit(c, r, f) THEN c.line ELSE IF found = "good" THEN LineLayout(c, r, f) ELSE NoLine
           d == [c EXCEPT !.line = line]
           inside == IF left < 0 \/ top < 0 THEN SoftwareSurfaceResult(r).result
                     ELSE IF right > line.maxX \/ bottom > line.maxY THEN "reject" ELSE "hardware"
<1>1. v.c = d /\ v.result = (IF found # "good" THEN found ELSE inside)
  BY DEF ValidateLineSurface
<1>2. Hit(c, r, f) => /\ LineSurface(c, r, f) = "good" /\ c.line = LineLayout(c, r, f)
  BY DEF Hit, Sound, LineFresh
<1>3. found = LineSurface(c, r, f) /\ (found = "good" => line = LineLayout(c, r, f))
      /\ (found # "good" => line = NoLine)
  BY <1>2
<1>4. d.line = line /\ d.limit = c.limit
  BY DEF Sound, Typed, CardField
<1>d. d = [c EXCEPT !.line = line]
  OBVIOUS
<1> HIDE DEF found, line, d
<1>5. LineFresh(d)
  <2>1. CASE found = "good"
    <3>1. d.line.r = r /\ d.line.f = f
      BY <1>3, <1>4, <2>1 DEF LineLayout
    <3>2. LineSurface(d, r, f) = "good" /\ LineLayout(d, r, f) = line
      <4>1. LineSurface(d, r, f) = LineSurface(c, r, f) /\ LineLayout(d, r, f) = LineLayout(c, r, f)
        BY <1>4, SameLine
      <4>2. LineSurface(c, r, f) = "good" /\ LineLayout(c, r, f) = line
        BY <1>3, <2>1
      <4>3. QED
        BY <4>1, <4>2
    <3>3. QED
      BY <1>4, <3>1, <3>2 DEF LineFresh
  <2>2. CASE found # "good"
    BY <1>3, <1>4, <2>2 DEF LineFresh, NoLine
  <2>3. QED
    BY <2>1, <2>2
<1>6. /\ Sound(d) /\ (Quiet(c) => Quiet(d)) /\ (Drawing(c) => Drawing(d))
      /\ d.limit = c.limit /\ d.accel = c.accel
  BY <1>5, <1>d, LineSet
<1>7. QED
  <2>1. CASE found = "good"
    BY <1>1, <1>3, <1>4, <1>6, <2>1
  <2>2. CASE found # "good"
    BY <1>1, <1>3, <1>4, <1>6, <2>2
  <2>3. QED
    BY <2>1, <2>2

LEMMA DivideBelow ==
  ASSUME NEW n \in Nat, NEW u \in Nat, u > 0, NEW k \in Nat, k * u <= n
  PROVE  n \div u \in Nat /\ k <= n \div u
<1> DEFINE a == n \div u
<1>1. a \in Nat /\ n < a * u + u
  OBVIOUS
<1> HIDE DEF a
<1>2. k * u < (a + 1) * u
  BY <1>1
<1>3. k < a + 1
  BY <1>1, <1>2
<1>4. k <= a
  BY <1>1, <1>3
<1>5. QED
  BY <1>1, <1>4 DEF a

(* The least of three numbers.                                              *)
LEMMA LeastOfThree ==
  ASSUME NEW a \in Int, NEW b \in Int, NEW c \in Int, NEW m, m = Min({a, b, c}), NEW n \in Int, n > m
  PROVE  n > a \/ n > b \/ n > c
<1> DEFINE S == {a, b, c}
           P(x) == x \in S /\ \A y \in S : x <= y
<1>1. \E x : P(x)
  <2>1. CASE a <= b /\ a <= c
    BY <2>1
  <2>2. CASE b <= a /\ b <= c
    BY <2>2
  <2>3. CASE c <= a /\ c <= b
    BY <2>3
  <2>4. QED
    BY <2>1, <2>2, <2>3
<1>2. m = CHOOSE x \in S : \A y \in S : x <= y
  BY DEF Min
<1>3. m \in S
  BY <1>1, <1>2
<1>4. QED
  BY <1>3

LEMMA BiasIs ==
  ASSUME NEW r, r.pitch \in Int, r.pitch > 0, r.memory \in 0..Aperture, NEW f \in {1, 2, 4}
  PROVE  Bias(r, f)[1] \in Nat /\ Bias(r, f)[2] \in Nat
<1> DEFINE bytes == r.memory % BaseAlign
<1>1. bytes \in Nat
  BY Granules
<1>2. r.pitch \in Nat
  OBVIOUS
<1>3. Bias(r, f)[1] = (bytes % r.pitch) \div f /\ Bias(r, f)[2] = bytes \div r.pitch
  BY DEF Bias
<1> HIDE DEF bytes
<1>4. bytes % r.pitch \in Nat /\ bytes \div r.pitch \in Nat
  BY <1>1, <1>2
<1>5. (bytes % r.pitch) \div f \in Nat
  BY <1>4
<1>6. QED
  BY <1>3, <1>4, <1>5

(* A line that is rejected leaves its bitmap's memory or the engine's       *)
(* coordinates.                                                             *)
LEMMA LineRejects ==
  ASSUME NEW c, c.limit \in Int, NEW r, r.memory \in Int, r.pitch \in Int,
         NEW q, q[1] \in Int, q[2] \in Int, q[3] \in Int, q[4] \in Int, NEW f \in {0, 1, 2, 4},
         LegalLine(c, r, f, q)
  PROVE  /\ LineSurface(c, r, f) # "reject"
         /\ LineSurface(c, r, f) = "good" => ~(q[1] + q[3] - 1 > LineLayout(c, r, f).maxX)
         /\ LineSurface(c, r, f) = "good" => ~(q[2] + q[4] - 1 > LineLayout(c, r, f).maxY)
<1> DEFINE x == q[1]
           y == q[2]
           w == q[3]
           h == q[4]
           p == r.pitch
           m == r.memory
           e == (x + w) * f
           g == (y + h) * p
<1>1. /\ w > 0 /\ h > 0 /\ x >= 0 /\ y >= 0 /\ m >= 0 /\ f > 0 /\ e <= p
      /\ m + g <= c.limit
      /\ x + w - 1 + Bias(r, f)[1] <= MaxCoord /\ y + h - 1 + Bias(r, f)[2] <= MaxCoord
  BY Zenon DEF LegalLine, Legal
<1>2. x + w \in Nat /\ x + w >= 1 /\ y + h \in Nat /\ y + h >= 1 /\ f \in {1, 2, 4}
  BY <1>1
<1>3. e \in Nat /\ e >= f
  BY <1>2
<1>4. p \in Nat /\ p > 0 /\ p >= f
  <2> HIDE DEF e
  <2>1. QED
    BY <1>1, <1>2, <1>3
<1>5. g \in Nat /\ g >= p
  <2> DEFINE k == y + h
  <2>1. k \in Nat /\ k >= 1
    BY <1>2
  <2> HIDE DEF k, p
  <2>2. k * p \in Nat /\ k * p >= p
    BY <1>4, <2>1
  <2>3. QED
    BY <2>2 DEF k
<1>6. m + p <= c.limit /\ m < c.limit
  <2> HIDE DEF g
  <2>1. QED
    BY <1>1, <1>4, <1>5
<1>7. LineSurface(c, r, f) # "reject"
  <2> DEFINE none == SoftwareSurfaceResult(r).result
             C1 == f = 0 \/ r.pitch <= 0
             C2 == IsOffboardMemory(r.memory)
             C3 == r.memory >= c.limit
             C4 == r.pitch % PitchAlign # 0 \/ r.pitch > MaxPitch
             C5 == r.pitch < f \/ c.limit - r.memory < r.pitch
             C6 == ((r.memory % BaseAlign) % r.pitch) % f # 0
             C7 == Bias(r, f)[1] > MaxCoord \/ Bias(r, f)[2] > MaxCoord
  <2>1. LineSurface(c, r, f) = IF C1 THEN none ELSE IF C2 THEN "offboard" ELSE IF C3 THEN "reject"
          ELSE IF C4 THEN "onboard" ELSE IF C5 THEN "reject" ELSE IF C6 THEN "onboard"
          ELSE IF C7 THEN "onboard" ELSE "good"
    BY Zenon DEF LineSurface
  <2>2. none # "reject"
    BY DEF SoftwareSurfaceResult
  <2>3. ~C3 /\ ~C5
    BY <1>4, <1>6
  <2> HIDE DEF C1, C2, C3, C4, C5, C6, C7, none
  <2>4. QED
    BY <2>1, <2>2, <2>3
<1>8. SUFFICES ASSUME LineSurface(c, r, f) = "good"
               PROVE  /\ ~(x + w - 1 > LineLayout(c, r, f).maxX)
                      /\ ~(y + h - 1 > LineLayout(c, r, f).maxY)
  BY <1>7
<1>9. m \in 0..Aperture
  BY <1>8, GoodLine
<1> DEFINE bx == Bias(r, f)[1]
           by == Bias(r, f)[2]
<1>10. bx \in Nat /\ by \in Nat
  BY <1>2, <1>4, <1>9, BiasIs
<1>11. p \div f \in Nat /\ x + w <= p \div f
  <2> DEFINE k == x + w
  <2>1. k \in Nat /\ k * f <= p /\ p \in Nat /\ f \in Nat /\ f > 0
    BY <1>1, <1>2, <1>4
  <2> HIDE DEF k, p
  <2>2. p \div f \in Nat /\ k <= p \div f
    BY <2>1, DivideBelow
  <2>3. QED
    BY <2>2 DEF k
<1> DEFINE rows == (c.limit - m) \div p
<1>12. rows \in Nat /\ y + h <= rows
  <2> DEFINE k == y + h
             n == c.limit - m
  <2>1. k \in Nat /\ n \in Int /\ p \in Nat /\ p > 0 /\ k * p \in Nat
    BY <1>2, <1>4, <1>5
  <2>2. k * p <= n
    <3> DEFINE kp == k * p
    <3>1. kp \in Nat /\ m + kp <= c.limit
      BY <1>1, <2>1
    <3> HIDE DEF kp, k, p
    <3>2. kp <= n
      BY <3>1
    <3>3. QED
      BY <3>2 DEF kp
  <2> HIDE DEF k, n, p
  <2>3. n \in Nat
    <3> DEFINE kp == k * p
    <3>1. kp \in Nat /\ kp <= n
      BY <2>1, <2>2
    <3> HIDE DEF kp
    <3>2. QED
      BY <2>1, <3>1
  <2>4. n \div p \in Nat /\ k <= n \div p
    BY <2>1, <2>2, <2>3, DivideBelow
  <2>5. QED
    BY <2>4 DEF k, n
<1> DEFINE a == x + w - 1
           b == y + h - 1
           ax == (p \div f) - 1
           ay == rows - 1
           mx == LineLayout(c, r, f).maxX
           my == LineLayout(c, r, f).maxY
<1>13. mx = Min({ax, MaxCoord, MaxCoord - bx}) /\ my = Min({ay, MaxCoord, MaxCoord - by})
  BY DEF LineLayout
<1>14. a \in Int /\ ax \in Int /\ ~(a > ax) /\ ~(a > MaxCoord) /\ ~(a > MaxCoord - bx)
  <2> HIDE DEF rows, p
  <2>1. QED
    BY <1>1, <1>2, <1>10, <1>11, Granules
<1>15. b \in Int /\ ay \in Int /\ ~(b > ay) /\ ~(b > MaxCoord) /\ ~(b > MaxCoord - by)
  <2> HIDE DEF rows, p
  <2>1. QED
    BY <1>1, <1>2, <1>10, <1>12, Granules
<1> DEFINE dx == MaxCoord - bx
           dy == MaxCoord - by
<1>16. dx \in Int /\ dy \in Int /\ MaxCoord \in Int
  BY <1>10, Granules
<1>17. ~(a > mx)
  <2>1. mx = Min({ax, MaxCoord, dx}) /\ ~(a > ax) /\ ~(a > MaxCoord) /\ ~(a > dx) /\ a \in Int /\ ax \in Int
    BY <1>13, <1>14
  <2> HIDE DEF a, ax, dx, mx
  <2>2. QED
    BY <1>16, <2>1, LeastOfThree
<1>18. ~(b > my)
  <2>1. my = Min({ay, MaxCoord, dy}) /\ ~(b > ay) /\ ~(b > MaxCoord) /\ ~(b > dy) /\ b \in Int /\ ay \in Int
    BY <1>13, <1>15
  <2> HIDE DEF b, ay, dy, my
  <2>2. QED
    BY <1>16, <2>1, LeastOfThree
<1>19. QED
  BY <1>17, <1>18
------------------------------------------------------------------------------
(* How callbacks end: the board sound and quiet, and nothing lost.          *)
Ends(f) ==
  /\ DOMAIN f = {"c", "last"} /\ Sound(f.c) /\ Quiet(f.c)
  /\ DOMAIN f.last = DOMAIN Nothing /\ \A k \in DOMAIN f.last : f.last[k] \in BOOLEAN
  /\ f.last.kept /\ f.last.fresh

LEMMA LastFields ==
  ASSUME NEW a, NEW b, NEW c, NEW d, NEW l, l = [kept |-> a, asAsked |-> b, fresh |-> c, torn |-> d]
  PROVE  l.kept = a /\ l.asAsked = b /\ l.fresh = c /\ l.torn = d
OBVIOUS

LEMMA FinishEnds ==
  ASSUME NEW c, Sound(c), Quiet(c), NEW kept \in BOOLEAN, kept, NEW asAsked \in BOOLEAN,
         NEW fresh \in BOOLEAN, fresh, NEW torn \in BOOLEAN, NEW f, f = Finish(c, kept, asAsked, fresh, torn)
  PROVE  Ends(f)
<1> DEFINE l == [kept |-> kept, asAsked |-> asAsked, fresh |-> fresh, torn |-> torn]
<1>1. f.c = c /\ f.last = l /\ DOMAIN f = {"c", "last"}
  BY DEF Finish
<1>2. DOMAIN l = {"kept", "asAsked", "fresh", "torn"} /\ DOMAIN Nothing = {"kept", "asAsked", "fresh", "torn"}
  BY DEF Nothing
<1>3. l = [kept |-> kept, asAsked |-> asAsked, fresh |-> fresh, torn |-> torn]
  OBVIOUS
<1> HIDE DEF l
<1>4. l.kept = kept /\ l.asAsked = asAsked /\ l.fresh = fresh /\ l.torn = torn
  BY <1>3, LastFields
<1>5. l.kept \in BOOLEAN /\ l.asAsked \in BOOLEAN /\ l.fresh \in BOOLEAN /\ l.torn \in BOOLEAN
  BY <1>4, Zenon
<1>6. l.kept /\ l.fresh
  BY <1>4
<1>7. QED
  BY <1>1, <1>2, <1>5, <1>6 DEF Ends

LEMMA HeldLine ==
  ASSUME NEW c, Sound(c), NEW d, d = [c EXCEPT !.held = "line"]
  PROVE  Sound(d) /\ Quiet(d)
<1>1. DOMAIN d = CardField /\ d.held = "line" /\ \A k \in CardField \ {"held"} : d[k] = c[k]
  BY DEF Sound, Typed, CardField
<1>2. /\ d.accel = c.accel /\ d.pending = c.pending /\ d.restore = c.restore /\ d.slipped = c.slipped
      /\ d.tried = c.tried /\ d.staging = c.staging /\ d.staged = c.staged /\ d.ready = c.ready
      /\ d.limit = c.limit /\ d.host = c.host /\ d.line = c.line /\ d.regs = c.regs /\ d.shadow = c.shadow
  BY <1>1 DEF CardField
<1>3. Typed(d)
  BY <1>1, <1>2 DEF Sound, Typed
<1>4. Reliable(d) => Coherent(d) /\ PathKept(d)
  BY <1>2 DEF Sound, Reliable, Coherent, PathKept, HostPathGood
<1>5. LineFresh(d)
  BY <1>2, LineFreshKept DEF Sound
<1>6. QED
  BY <1>1, <1>2, <1>3, <1>4, <1>5 DEF Sound, Quiet

LEMMA NotedMMIO ==
  ASSUME NEW c, Sound(c), NEW d, d = [c EXCEPT !.pending = "MMIO"]
  PROVE  Sound(d) /\ Quiet(d)
<1>1. DOMAIN d = CardField /\ d.pending = "MMIO" /\ \A k \in CardField \ {"pending"} : d[k] = c[k]
  BY DEF Sound, Typed, CardField
<1>2. /\ d.accel = c.accel /\ d.held = c.held /\ d.restore = c.restore /\ d.slipped = c.slipped
      /\ d.tried = c.tried /\ d.staging = c.staging /\ d.staged = c.staged /\ d.ready = c.ready
      /\ d.limit = c.limit /\ d.host = c.host /\ d.line = c.line /\ d.regs = c.regs /\ d.shadow = c.shadow
  BY <1>1 DEF CardField
<1>3. Typed(d)
  BY <1>1, <1>2 DEF Sound, Typed
<1>4. Reliable(d) => Coherent(d) /\ PathKept(d)
  BY <1>2 DEF Sound, Reliable, Coherent, PathKept, HostPathGood
<1>5. LineFresh(d)
  BY <1>2, LineFreshKept DEF Sound
<1>6. QED
  BY <1>1, <1>2, <1>3, <1>4, <1>5 DEF Sound, Quiet

(* Software draws behind whoever waited for the engine.                     *)
LEMMA SoftwareEnds ==
  ASSUME NEW o, o.ok \in BOOLEAN, Sound(o.c), Quiet(o.c), ~o.ok => o.c.accel # "READY",
         NEW torn \in BOOLEAN, NEW f, f = SoftwareDraw(o, torn)
  PROVE  Ends(f)
<1> DEFINE fresh == (o.c.pending = "NONE" => o.c.held # "stale")
           t == TRUE
           d == [o.c EXCEPT !.held = "line"]
           e == o.c
           kept == (e.accel # "READY")
<1>1. fresh /\ fresh \in BOOLEAN /\ t /\ t \in BOOLEAN
  BY DEF Quiet
<1>2. CASE o.ok
  <2>1. f = Finish(d, t, t, fresh, torn)
    BY <1>2 DEF SoftwareDraw
  <2> DEFINE dd == d
  <2>2. Sound(d) /\ Quiet(d)
    <3>1. dd = [o.c EXCEPT !.held = "line"]
      OBVIOUS
    <3> HIDE DEF dd
    <3>2. Sound(dd) /\ Quiet(dd)
      BY <3>1, HeldLine
    <3>3. QED
      BY <3>2 DEF dd
  <2> HIDE DEF d, t, fresh
  <2>3. QED
    BY <1>1, <2>1, <2>2, FinishEnds
<1>3. CASE ~o.ok
  <2>1. f = Finish(e, kept, t, t, torn)
    BY <1>3 DEF SoftwareDraw
  <2>2. kept /\ kept \in BOOLEAN /\ Sound(e) /\ Quiet(e)
    BY <1>3
  <2> HIDE DEF e, kept, t
  <2>3. QED
    BY <1>1, <2>1, <2>2, FinishEnds
<1>4. QED
  BY <1>2, <1>3

(* What Picasso96 is told before software draws.                            *)
LEMMA FallbackLeaves ==
  ASSUME NEW c, Sound(c), Quiet(c), NEW offboard, NEW o \in PrepareSoftwareFallback(c, offboard)
  PROVE  o.ok \in BOOLEAN /\ Sound(o.c) /\ Quiet(o.c) /\ (~o.ok => o.c.accel # "READY")
<1> DEFINE plain == Outcome(c.accel # "UNSAFE", c, <<>>)
           S == SynchronizeEngine(c, <<>>)
<1>1. /\ plain.ok \in BOOLEAN /\ plain.c = c /\ (~plain.ok => c.accel # "READY")
  BY DEF Outcome
<1>2. Drawing(c)
  BY DEF Quiet, Drawing
<1>3. o = plain \/ \E s \in S : o = [s EXCEPT !.ok = @ /\ s.c.accel # "UNSAFE"]
  BY DEF PrepareSoftwareFallback
<1> HIDE DEF plain
<1>4. CASE o = plain
  BY <1>1, <1>4
<1>5. CASE \E s \in S : o = [s EXCEPT !.ok = @ /\ s.c.accel # "UNSAFE"]
  <2>1. PICK s \in S : o = [s EXCEPT !.ok = @ /\ s.c.accel # "UNSAFE"]
    BY <1>5
  <2>2. Follows(c, s) /\ (Quiet(c) => Quiet(s.c)) /\ (~s.ok => s.c.accel # "READY")
    <3> DEFINE mem == <<>>
    <3>1. s \in SynchronizeEngine(c, mem)
      BY <2>1
    <3> HIDE DEF mem
    <3>2. QED
      BY <1>2, <3>1, SynchronizeFollows
  <2>3. "ok" \in DOMAIN s /\ "c" \in DOMAIN s
    BY <2>1 DEF SynchronizeEngine, RecoverEngine, Outcome
  <2>4. o.c = s.c /\ o.ok = (s.ok /\ s.c.accel # "UNSAFE")
    BY <2>1, <2>3
  <2>5. QED
    BY <2>2, <2>4 DEF Follows
<1>6. QED
  BY <1>3, <1>4, <1>5

LEMMA SoftlyEnds ==
  ASSUME NEW c, Sound(c), Quiet(c), NEW offboard \in BOOLEAN, NEW f \in Softly(c, offboard)
  PROVE  Ends(f)
<1>1. PICK o \in PrepareSoftwareFallback(c, offboard) :
        f = IF offboard THEN Finish(o.c, o.ok \/ o.c.accel # "READY", TRUE, TRUE, FALSE)
            ELSE SoftwareDraw(o, FALSE)
  BY DEF Softly
<1>2. o.ok \in BOOLEAN /\ Sound(o.c) /\ Quiet(o.c) /\ (~o.ok => o.c.accel # "READY")
  BY FallbackLeaves
<1> DEFINE t == TRUE
           n == FALSE
           e == o.c
           kept == o.ok \/ o.c.accel # "READY"
<1>3. t /\ t \in BOOLEAN /\ n \in BOOLEAN /\ kept /\ kept \in BOOLEAN /\ Sound(e) /\ Quiet(e)
  BY <1>2
<1>4. f = IF offboard THEN Finish(e, kept, t, t, n) ELSE SoftwareDraw(o, n)
  BY <1>1
<1> HIDE DEF t, n, e, kept
<1>5. CASE offboard
  <2>1. f = Finish(e, kept, t, t, n)
    BY <1>4, <1>5
  <2>2. QED
    BY <1>3, <2>1, FinishEnds
<1>6. CASE ~offboard
  <2>1. f = SoftwareDraw(o, n)
    BY <1>4, <1>6
  <2>2. QED
    BY <1>2, <1>3, <2>1, SoftwareEnds
<1>7. QED
  BY <1>5, <1>6

LEMMA DrawnEnds ==
  ASSUME NEW c, NEW drawn, \A o \in drawn : Follows(c, o), NEW asked, NEW torn \in BOOLEAN,
         NEW f \in Drawn(drawn, asked, torn)
  PROVE  Ends(f)
<1>1. PICK o \in drawn :
        f \in IF o.ok THEN {Finish([o.c EXCEPT !.pending = "MMIO"], TRUE, o.mem = asked, TRUE, torn)}
              ELSE {SoftwareDraw(r, torn) : r \in RecoverEngine(o.c, <<>>)}
  BY DEF Drawn
<1>2. Sound(o.c) /\ Drawing(o.c) /\ o.ok \in BOOLEAN
  BY DEF Follows
<1> DEFINE d == [o.c EXCEPT !.pending = "MMIO"]
           t == TRUE
           same == (o.mem = asked)
           e == o.c
           mem == <<>>
<1>3. CASE o.ok
  <2>1. f = Finish(d, t, same, t, torn)
    BY <1>1, <1>3
  <2>2. t /\ t \in BOOLEAN /\ same \in BOOLEAN
    OBVIOUS
  <2>3. d = [e EXCEPT !.pending = "MMIO"] /\ Sound(e)
    BY <1>2
  <2> HIDE DEF d, e, t, same
  <2>4. Sound(d) /\ Quiet(d)
    BY <2>3, NotedMMIO
  <2>5. QED
    BY <2>1, <2>2, <2>4, FinishEnds
<1>4. CASE ~o.ok
  <2>1. PICK r \in RecoverEngine(e, mem) : f = SoftwareDraw(r, torn)
    BY <1>1, <1>4
  <2>2. Sound(e) /\ Drawing(e)
    BY <1>2
  <2> HIDE DEF e, mem
  <2>3. Follows(e, r) /\ Quiet(r.c) /\ (~r.ok => r.c.accel # "READY")
    BY <2>1, <2>2, RecoverFollows
  <2>4. r.ok \in BOOLEAN /\ Sound(r.c)
    BY <2>3 DEF Follows
  <2>5. QED
    BY <2>1, <2>3, <2>4, SoftwareEnds
<1>5. QED
  BY <1>2, <1>3, <1>4

LEMMA DroppedEnds ==
  ASSUME NEW c, Sound(c), Quiet(c), NEW legal \in BOOLEAN, ~legal, NEW f \in Dropped(c, legal)
  PROVE  Ends(f)
<1> DEFINE kept == ~legal
           t == TRUE
           n == FALSE
<1>1. f = Finish(c, kept, t, t, n)
  BY DEF Dropped
<1>2. kept /\ kept \in BOOLEAN /\ t /\ t \in BOOLEAN /\ n \in BOOLEAN
  OBVIOUS
<1> HIDE DEF kept, t, n
<1>3. QED
  BY <1>1, <1>2, FinishEnds

(* The constants' parts, as the callbacks are given them.                   *)
LEMMA Given ==
  /\ \A r \in Render \cup {pair[k] : pair \in Pairs, k \in {1, 2}} : r.memory \in Int /\ r.pitch \in Int
  /\ \A q \in Rects : q[1] \in Int /\ q[2] \in Int /\ q[3] \in Int /\ q[4] \in Int
  /\ \A d \in Shifts : d[1] \in Int /\ d[2] \in Int
  /\ \A l \in Lines : l.x \in Int /\ l.y \in Int /\ l.dx \in Int /\ l.dy \in Int
  /\ \A p \in Planars : Len(p.planes) \in Nat
  /\ \A f \in DrawFormats : f \in {0, 1, 2, 4}
BY Draw2DAssumption

LEMMA LimitIs ==
  ASSUME NEW c, Sound(c)
  PROVE  c.limit \in Int
BY Limits DEF Sound, Typed

After == Sound(card)' /\ Quiet(card)' /\ LastFine'

LEMMA EndsAfter ==
  ASSUME NEW results, \A f \in results : Ends(f), Happens(results)
  PROVE  After
BY DEF Happens, Ends, After, LastFine

LEMMA Ready ==
  ASSUME NEW r, r.memory \in Int, r.pitch \in Int,
         NEW q, q[1] \in Int, q[2] \in Int, q[3] \in Int, q[4] \in Int, NEW f \in {0, 1, 2, 4},
         NEW s, s = ValidateSurface(card, r, q[1], q[2], q[3], q[4], f), HardwareReady(s)
  PROVE  /\ Aligned(s.po) /\ s.r = r /\ s.bpp = f /\ s.limit = card.limit /\ s.result = "hardware"
         /\ q[3] \in Nat /\ q[3] <= MaxCoord + 1
         /\ DOMAIN s = {"result", "r", "bpp", "limit", "po", "bias", "extent"}
<1> DEFINE x == q[1]
           y == q[2]
           w == q[3]
           h == q[4]
<1>1. s.result = "hardware"
  BY Zenon DEF HardwareReady
<1>2. x \in Int /\ y \in Int /\ w \in Int /\ h \in Int /\ s = ValidateSurface(card, r, x, y, w, h, f)
  OBVIOUS
<1> HIDE DEF x, y, w, h
<1>3. SurfaceGood(card, s, r, w, f)
  BY <1>1, <1>2, SurfaceAligned
<1>4. QED
  BY <1>1, <1>3 DEF w, SurfaceGood

(* Every callback that draws in one surface: dropped, drawn or left to      *)
(* software.                                                                *)
LEMMA SurfaceEnds ==
  ASSUME Sound(card), Quiet(card), NEW r, r.memory \in Int, r.pitch \in Int,
         NEW q, q[1] \in Int, q[2] \in Int, q[3] \in Int, q[4] \in Int, NEW f \in {0, 1, 2, 4},
         NEW s, s = ValidateSurface(card, r, q[1], q[2], q[3], q[4], f), NEW hardware \in BOOLEAN,
         NEW drawn, hardware => \A o \in drawn : Follows(card, o),
         NEW asked, NEW torn \in BOOLEAN, NEW off \in BOOLEAN, NEW results, Happens(results),
         results = IF s.result = "reject" THEN Dropped(card, Legal(card, r, f, q))
                   ELSE IF hardware THEN Drawn(drawn, asked, torn) ELSE Softly(card, off)
  PROVE  After
<1> DEFINE legal == Legal(card, r, f, q)
<1>1. card.limit \in Int
  BY LimitIs
<1>2. legal \in BOOLEAN /\ (s.result = "reject" => results = Dropped(card, legal))
  BY Zenon DEF Legal
<1>3. s.result = "reject" => ~legal
  BY <1>1, SurfaceRejects
<1> HIDE DEF legal
<1>4. \A e \in results : Ends(e)
  <2>1. CASE s.result = "reject"
    BY <1>2, <1>3, <2>1, DroppedEnds
  <2>2. CASE s.result # "reject" /\ hardware
    BY <2>2, DrawnEnds
  <2>3. CASE s.result # "reject" /\ ~hardware
    BY <2>3, SoftlyEnds
  <2>4. QED
    BY <2>1, <2>2, <2>3
<1>5. QED
  BY <1>4, EndsAfter

LEMMA FillRectEnds ==
  ASSUME Sound(card), Quiet(card), NEW r, r.memory \in Int, r.pitch \in Int,
         NEW q, q[1] \in Int, q[2] \in Int, q[3] \in Int, q[4] \in Int, NEW f \in {0, 1, 2, 4},
         NEW pen, NEW mask, FillRect(r, q, pen, mask, f)
  PROVE  After
<1> DEFINE s == ValidateSurface(card, r, q[1], q[2], q[3], q[4], f)
           hardware == HardwareReady(s)
           x == q[1]
           y == q[2]
           w == q[3]
           h == q[4]
           drawn == SubmitSolidRect(card, OnBoard, s, x, y, w, h, pen, mask, f, ROP3_P)
           asked == Asked(r, f, q, LAMBDA i, j, old : Masked(old, pen, mask, f))
           torn == FALSE
           off == Offboard(s)
           results == IF s.result = "reject" THEN Dropped(card, Legal(card, r, f, q))
                      ELSE IF hardware THEN Drawn(drawn, asked, torn) ELSE Softly(card, off)
<1>1. Happens(results)
  BY Zenon DEF FillRect
<1>2. Drawing(card)
  BY DEF Quiet, Drawing
<1>3. torn \in BOOLEAN /\ off \in BOOLEAN /\ hardware \in BOOLEAN
  BY Zenon DEF Offboard, HardwareReady
<1>4. s = ValidateSurface(card, r, q[1], q[2], q[3], q[4], f) /\ (hardware => HardwareReady(s))
  BY Zenon
<1> HIDE DEF asked, torn, off, s, hardware
<1>5. hardware => \A o \in drawn : Follows(card, o)
  <2> SUFFICES ASSUME hardware PROVE \A o \in drawn : Follows(card, o)
    OBVIOUS
  <2>1. /\ Aligned(s.po) /\ s.r = r /\ s.bpp = f /\ s.limit = card.limit /\ s.result = "hardware"
        /\ q[3] \in Nat /\ q[3] <= MaxCoord + 1
        /\ DOMAIN s = {"result", "r", "bpp", "limit", "po", "bias", "extent"}
    BY <1>4, Ready
  <2> HIDE DEF x, y, w, h
  <2>2. QED
    BY <1>2, <2>1, SolidFollows
<1> HIDE DEF drawn
<1>6. results = IF s.result = "reject" THEN Dropped(card, Legal(card, r, f, q))
                ELSE IF hardware THEN Drawn(drawn, asked, torn) ELSE Softly(card, off)
  OBVIOUS
<1> HIDE DEF results
<1>7. QED
  BY <1>1, <1>3, <1>4, <1>5, <1>6, SurfaceEnds, ZenonT(60)

LEMMA InvertRectEnds ==
  ASSUME Sound(card), Quiet(card), NEW r, r.memory \in Int, r.pitch \in Int,
         NEW q, q[1] \in Int, q[2] \in Int, q[3] \in Int, q[4] \in Int, NEW f \in {0, 1, 2, 4},
         NEW mask, InvertRect(r, q, mask, f)
  PROVE  After
<1> DEFINE s == ValidateSurface(card, r, q[1], q[2], q[3], q[4], f)
           hardware == HardwareReady(s)
           x == q[1]
           y == q[2]
           w == q[3]
           h == q[4]
           none == {}
           drawn == SubmitSolidRect(card, OnBoard, s, x, y, w, h, none, mask, f, ROP3_Dn)
           asked == Asked(r, f, q, LAMBDA i, j, old : Masked(old, Plane \ old, mask, f))
           torn == FALSE
           off == Offboard(s)
           results == IF s.result = "reject" THEN Dropped(card, Legal(card, r, f, q))
                      ELSE IF hardware THEN Drawn(drawn, asked, torn) ELSE Softly(card, off)
<1>1. Happens(results)
  BY Zenon DEF InvertRect
<1>2. Drawing(card)
  BY DEF Quiet, Drawing
<1>3. torn \in BOOLEAN /\ off \in BOOLEAN /\ hardware \in BOOLEAN
  BY Zenon DEF Offboard, HardwareReady
<1>4. s = ValidateSurface(card, r, q[1], q[2], q[3], q[4], f) /\ (hardware => HardwareReady(s))
  BY Zenon
<1> HIDE DEF asked, torn, off, s, hardware
<1>5. hardware => \A o \in drawn : Follows(card, o)
  <2> SUFFICES ASSUME hardware PROVE \A o \in drawn : Follows(card, o)
    OBVIOUS
  <2>1. /\ Aligned(s.po) /\ s.r = r /\ s.bpp = f /\ s.limit = card.limit /\ s.result = "hardware"
        /\ q[3] \in Nat /\ q[3] <= MaxCoord + 1
        /\ DOMAIN s = {"result", "r", "bpp", "limit", "po", "bias", "extent"}
    BY <1>4, Ready
  <2> HIDE DEF x, y, w, h
  <2> HIDE DEF none
  <2>2. QED
    BY <1>2, <2>1, SolidFollows
<1> HIDE DEF drawn
<1>6. results = IF s.result = "reject" THEN Dropped(card, Legal(card, r, f, q))
                ELSE IF hardware THEN Drawn(drawn, asked, torn) ELSE Softly(card, off)
  OBVIOUS
<1> HIDE DEF results
<1>7. QED
  BY <1>1, <1>3, <1>4, <1>5, <1>6, SurfaceEnds, SMTT(60)

LEMMA BlitPatternEnds ==
  ASSUME Sound(card), Quiet(card), NEW r, r.memory \in Int, r.pitch \in Int,
         NEW q, q[1] \in Int, q[2] \in Int, q[3] \in Int, q[4] \in Int, NEW f \in {0, 1, 2, 4},
         NEW p, NEW mask, BlitPattern(r, q, p, mask, f)
  PROVE  After
<1> DEFINE s == ValidateSurface(card, r, q[1], q[2], q[3], q[4], f)
           hardware == PrepareMonoPattern(p) /\ HardwareReady(s)
           x == q[1]
           y == q[2]
           w == q[3]
           h == q[4]
           bit(i, j) == p.rows[1 + ((j + p.yoff) % Len(p.rows))][1 + ((i + p.xoff) % PatternEdge)]
           drawn == SubmitPattern(card, OnBoard, s, p, x, y, w, h, mask, f)
           asked == Asked(r, f, q, LAMBDA i, j, old : Masked(old, IF bit(i, j) = 1 THEN p.fg ELSE p.bg, mask, f))
           torn == FALSE
           off == Offboard(s) /\ ~p.onboard
           results == IF s.result = "reject" THEN Dropped(card, Legal(card, r, f, q))
                      ELSE IF hardware THEN Drawn(drawn, asked, torn) ELSE Softly(card, off)
<1>1. Happens(results)
  BY Zenon DEF BlitPattern
<1>2. Drawing(card)
  BY DEF Quiet, Drawing
<1>3. torn \in BOOLEAN /\ off \in BOOLEAN /\ hardware \in BOOLEAN
  BY Zenon DEF Offboard, HardwareReady
<1>4. s = ValidateSurface(card, r, q[1], q[2], q[3], q[4], f) /\ (hardware => HardwareReady(s))
  BY Zenon
<1> HIDE DEF asked, torn, off, s, hardware
<1>5. hardware => \A o \in drawn : Follows(card, o)
  <2> SUFFICES ASSUME hardware PROVE \A o \in drawn : Follows(card, o)
    OBVIOUS
  <2>1. /\ Aligned(s.po) /\ s.r = r /\ s.bpp = f /\ s.limit = card.limit /\ s.result = "hardware"
        /\ q[3] \in Nat /\ q[3] <= MaxCoord + 1
        /\ DOMAIN s = {"result", "r", "bpp", "limit", "po", "bias", "extent"}
    BY <1>4, Ready
  <2> HIDE DEF x, y, w, h
  <2>2. QED
    BY <1>2, <2>1, PatternFollows
<1> HIDE DEF drawn
<1>6. results = IF s.result = "reject" THEN Dropped(card, Legal(card, r, f, q))
                ELSE IF hardware THEN Drawn(drawn, asked, torn) ELSE Softly(card, off)
  OBVIOUS
<1> HIDE DEF results
<1>7. QED
  BY <1>1, <1>3, <1>4, <1>5, <1>6, SurfaceEnds

LEMMA BlitTemplateEnds ==
  ASSUME Sound(card), Quiet(card), NEW r, r.memory \in Int, r.pitch \in Int,
         NEW q, q[1] \in Int, q[2] \in Int, q[3] \in Int, q[4] \in Int, NEW f \in {0, 1, 2, 4},
         NEW t, NEW mask, BlitTemplate(r, q, t, mask, f)
  PROVE  After
<1> DEFINE s == ValidateSurface(card, r, q[1], q[2], q[3], q[4], f)
           hardware == /\ PrepareTemplate(t, q[3], q[4]) /\ (f = 1 => mask = Plane) /\ HardwareReady(s)
                       /\ q[1] + s.bias[1] + Pad(q[3]) <= MaxCoord + 1
           x == q[1]
           y == q[2]
           w == q[3]
           h == q[4]
           wanted(i, j, old) == IF t.rows[j + 1][t.xoff + i + 1] = 1 THEN t.fg
                                ELSE IF t.mode = "jam2" THEN t.bg ELSE old
           drawn == SubmitEitherTemplate(s, t, q, mask, f)
           asked == Asked(r, f, q, wanted)
           torn == card.staging /\ MonoPitch(q[3], q[4]) # 0 /\ card.staged
           off == Offboard(s) /\ ~t.onboard
           results == IF s.result = "reject" THEN Dropped(card, Legal(card, r, f, q))
                      ELSE IF hardware THEN Drawn(drawn, asked, torn) ELSE Softly(card, off)
<1>1. Happens(results)
  BY Zenon DEF BlitTemplate
<1>2. Drawing(card)
  BY DEF Quiet, Drawing
<1>3. torn \in BOOLEAN /\ off \in BOOLEAN /\ hardware \in BOOLEAN
  BY Zenon DEF Offboard, HardwareReady
<1>4. s = ValidateSurface(card, r, q[1], q[2], q[3], q[4], f) /\ (hardware => HardwareReady(s))
  BY Zenon
<1> HIDE DEF asked, torn, off, s, hardware
<1>5. hardware => \A o \in drawn : Follows(card, o)
  <2> SUFFICES ASSUME hardware PROVE \A o \in drawn : Follows(card, o)
    OBVIOUS
  <2>1. /\ Aligned(s.po) /\ s.r = r /\ s.bpp = f /\ s.limit = card.limit /\ s.result = "hardware"
        /\ q[3] \in Nat /\ q[3] <= MaxCoord + 1
        /\ DOMAIN s = {"result", "r", "bpp", "limit", "po", "bias", "extent"}
    BY <1>4, Ready
  <2> HIDE DEF x, y, w, h
  <2>2. QED
    BY <1>2, <2>1, EitherFollows
<1> HIDE DEF drawn
<1>6. results = IF s.result = "reject" THEN Dropped(card, Legal(card, r, f, q))
                ELSE IF hardware THEN Drawn(drawn, asked, torn) ELSE Softly(card, off)
  OBVIOUS
<1> HIDE DEF results
<1>7. QED
  BY <1>1, <1>3, <1>4, <1>5, <1>6, SurfaceEnds, SMTT(60)

LEMMA BlitPlanar2ChunkyEnds ==
  ASSUME Sound(card), Quiet(card), NEW r, r.memory \in Int, r.pitch \in Int,
         NEW q, q[1] \in Int, q[2] \in Int, q[3] \in Int, q[4] \in Int, NEW f \in {0, 1, 2, 4},
         NEW p, NEW mask, Len(p.planes) \in Nat, BlitPlanar2Chunky(r, q, p, mask, f)
  PROVE  After
<1> DEFINE s == ValidateSurface(card, r, q[1], q[2], q[3], q[4], f)
           hardware == /\ f = 1 /\ p.copy /\ HardwareReady(s)
                       /\ PreparePlanarSource(p, p.x, p.y, q[3], q[4])
                       /\ q[1] + s.bias[1] + Pad(q[3]) <= MaxCoord + 1
           x == q[1]
           y == q[2]
           w == q[3]
           h == q[4]
           sx == p.x
           sy == p.y
           drawn == SubmitPlanarChunky(card, OnBoard, s, p, sx, sy, x, y, w, h, mask)
           asked == AskedPlanar(r, q, p, mask)
           torn == FALSE
           off == Offboard(s)
           results == IF s.result = "reject" THEN Dropped(card, Legal(card, r, f, q))
                      ELSE IF hardware THEN Drawn(drawn, asked, torn) ELSE Softly(card, off)
<1>1. Happens(results)
  BY Zenon DEF BlitPlanar2Chunky
<1>2. Drawing(card)
  BY DEF Quiet, Drawing
<1>3. torn \in BOOLEAN /\ off \in BOOLEAN /\ hardware \in BOOLEAN
  BY Zenon DEF Offboard, HardwareReady
<1>4. s = ValidateSurface(card, r, q[1], q[2], q[3], q[4], f) /\ (hardware => HardwareReady(s))
  BY Zenon
<1> HIDE DEF asked, torn, off, s, hardware
<1>5. hardware => \A o \in drawn : Follows(card, o)
  <2> SUFFICES ASSUME hardware PROVE \A o \in drawn : Follows(card, o)
    OBVIOUS
  <2>1. /\ Aligned(s.po) /\ s.r = r /\ s.bpp = f /\ s.limit = card.limit /\ s.result = "hardware"
        /\ q[3] \in Nat /\ q[3] <= MaxCoord + 1
        /\ DOMAIN s = {"result", "r", "bpp", "limit", "po", "bias", "extent"}
    BY <1>4, Ready, SMTT(60)
  <2> HIDE DEF x, y, w, h
  <2> HIDE DEF sx, sy
  <2>2. QED
    BY <1>2, <2>1, ChunkyFollows
<1> HIDE DEF drawn
<1>6. results = IF s.result = "reject" THEN Dropped(card, Legal(card, r, f, q))
                ELSE IF hardware THEN Drawn(drawn, asked, torn) ELSE Softly(card, off)
  OBVIOUS
<1> HIDE DEF results
<1>7. QED
  BY <1>1, <1>3, <1>4, <1>5, <1>6, SurfaceEnds, ZenonT(60)

LEMMA BlitPlanar2DirectEnds ==
  ASSUME Sound(card), Quiet(card), NEW r, r.memory \in Int, r.pitch \in Int,
         NEW q, q[1] \in Int, q[2] \in Int, q[3] \in Int, q[4] \in Int, NEW f \in {0, 1, 2, 4},
         NEW p, NEW cim, NEW mask, Len(p.planes) \in Nat, BlitPlanar2Direct(r, q, p, cim, mask, f)
  PROVE  After
<1> DEFINE s == ValidateSurface(card, r, q[1], q[2], q[3], q[4], f)
           hardware == /\ f \notin {0, 1} /\ p.copy /\ PreparePlanarSource(p, p.x, p.y, q[3], q[4])
                       /\ Cardinality(DataBits(p, mask)) <= PLANAR_MAX_PASS_PLANES
                       /\ HardwareReady(s) /\ q[1] + s.bias[1] + Pad(q[3]) <= MaxCoord + 1
           x == q[1]
           y == q[2]
           w == q[3]
           h == q[4]
           sx == p.x
           sy == p.y
           index(i, j) == {n \in Selected(p, mask) : PlaneBit(p, n, p.x + i, p.y + j) = 1}
           drawn == SubmitPlanarDirect(card, OnBoard, s, p, cim, sx, sy, x, y, w, h, mask, f)
           asked == Asked(r, f, q, LAMBDA i, j, old : cim[index(i, j)])
           torn == FALSE
           off == Offboard(s)
           results == IF s.result = "reject" THEN Dropped(card, Legal(card, r, f, q))
                      ELSE IF hardware THEN Drawn(drawn, asked, torn) ELSE Softly(card, off)
<1>1. Happens(results)
  BY Zenon DEF BlitPlanar2Direct
<1>2. Drawing(card)
  BY DEF Quiet, Drawing
<1>3. torn \in BOOLEAN /\ off \in BOOLEAN /\ hardware \in BOOLEAN
  BY Zenon DEF Offboard, HardwareReady
<1>4. s = ValidateSurface(card, r, q[1], q[2], q[3], q[4], f) /\ (hardware => HardwareReady(s))
  BY Zenon
<1> HIDE DEF asked, torn, off, s, hardware
<1>5. hardware => \A o \in drawn : Follows(card, o)
  <2> SUFFICES ASSUME hardware PROVE \A o \in drawn : Follows(card, o)
    OBVIOUS
  <2>1. /\ Aligned(s.po) /\ s.r = r /\ s.bpp = f /\ s.limit = card.limit /\ s.result = "hardware"
        /\ q[3] \in Nat /\ q[3] <= MaxCoord + 1
        /\ DOMAIN s = {"result", "r", "bpp", "limit", "po", "bias", "extent"}
    BY <1>4, Ready, SMTT(60)
  <2> HIDE DEF x, y, w, h
  <2> HIDE DEF sx, sy
  <2>2. QED
    BY <1>2, <2>1, DirectFollows
<1> HIDE DEF drawn
<1>6. results = IF s.result = "reject" THEN Dropped(card, Legal(card, r, f, q))
                ELSE IF hardware THEN Drawn(drawn, asked, torn) ELSE Softly(card, off)
  OBVIOUS
<1> HIDE DEF results
<1>7. QED
  BY <1>1, <1>3, <1>4, <1>5, <1>6, SurfaceEnds, ZenonT(60)

(* Every callback that draws between two rectangles.                        *)
LEMMA PairEnds ==
  ASSUME Sound(card), Quiet(card), NEW rejected \in BOOLEAN, NEW legal \in BOOLEAN, rejected => ~legal,
         NEW hardware \in BOOLEAN, NEW drawn, hardware => \A o \in drawn : Follows(card, o),
         NEW asked, NEW torn \in BOOLEAN, NEW off \in BOOLEAN, NEW results, Happens(results),
         results = IF rejected THEN Dropped(card, legal)
                   ELSE IF hardware THEN Drawn(drawn, asked, torn) ELSE Softly(card, off)
  PROVE  After
<1>1. \A e \in results : Ends(e)
  <2>1. CASE rejected
    BY <2>1, DroppedEnds
  <2>2. CASE ~rejected /\ hardware
    BY <2>2, DrawnEnds
  <2>3. CASE ~rejected /\ ~hardware
    BY <2>3, SoftlyEnds
  <2>4. QED
    BY <2>1, <2>2, <2>3
<1>2. QED
  BY <1>1, EndsAfter

LEMMA FromIs ==
  ASSUME NEW q, q[1] \in Int, q[2] \in Int, q[3] \in Int, q[4] \in Int, NEW d, d[1] \in Int, d[2] \in Int,
         NEW p, p = From(q, d)
  PROVE  p[1] \in Int /\ p[2] \in Int /\ p[3] \in Int /\ p[4] \in Int
BY DEF From

LEMMA BlitRectEnds ==
  ASSUME Sound(card), Quiet(card), NEW r, r.memory \in Int, r.pitch \in Int,
         NEW q, q[1] \in Int, q[2] \in Int, q[3] \in Int, q[4] \in Int, NEW f \in {0, 1, 2, 4},
         NEW shift, shift[1] \in Int, shift[2] \in Int, NEW mask, BlitRect(r, q, shift, mask, f)
  PROVE  After
<1> DEFINE p == From(q, shift)
           s == ValidateSurface(card, r, p[1], p[2], p[3], p[4], f)
           d == IF s.result = "hardware" THEN ValidateSameSurfaceRectangle(q[1], q[2], q[3], q[4], s)
                ELSE ValidateSurface(card, r, q[1], q[2], q[3], q[4], f)
           rejected == "reject" \in {s.result, d.result}
           legal == Legal(card, r, f, p) /\ Legal(card, r, f, q)
           hardware == HardwareReady(s) /\ HardwareReady(d) /\ s.po = d.po
           sx == p[1]
           sy == p[2]
           x == q[1]
           y == q[2]
           w == q[3]
           h == q[4]
           same == TRUE
           torn == FALSE
           drawn == SubmitCopy(card, OnBoard, s, d, sx, sy, x, y, w, h, mask, f, same, torn, ROP3_S)
           asked == Asked(r, f, q, LAMBDA i, j, old :
                            Masked(old, OnBoard[Pixel(r, f, p[1] + i, p[2] + j)], mask, f))
           off == Offboard(s) /\ Offboard(d)
           results == IF rejected THEN Dropped(card, legal)
                      ELSE IF hardware THEN Drawn(drawn, asked, torn) ELSE Softly(card, off)
<1>1. Happens(results)
  BY Zenon DEF BlitRect
<1>2. Drawing(card) /\ card.limit \in Int
  BY LimitIs DEF Quiet, Drawing
<1>3. /\ torn \in BOOLEAN /\ off \in BOOLEAN /\ hardware \in BOOLEAN /\ rejected \in BOOLEAN
      /\ legal \in BOOLEAN
  <2>1. torn \in BOOLEAN
    OBVIOUS
  <2>2. off \in BOOLEAN
    BY Zenon
  <2>3. hardware \in BOOLEAN
    BY Zenon
  <2>4. rejected \in BOOLEAN
    <3>1. rejected = TRUE \/ rejected = FALSE
      BY SMT
    <3>2. QED
      BY <3>1
  <2>5. legal \in BOOLEAN
    BY Zenon
  <2>6. QED
    BY <2>1, <2>2, <2>3, <2>4, <2>5
<1>4. p[1] \in Int /\ p[2] \in Int /\ p[3] \in Int /\ p[4] \in Int
  BY FromIs
<1>5. s = ValidateSurface(card, r, p[1], p[2], p[3], p[4], f)
  OBVIOUS
<1>6. /\ s.result = "hardware" => d = ValidateSameSurfaceRectangle(q[1], q[2], q[3], q[4], s)
      /\ s.result # "hardware" => d = ValidateSurface(card, r, q[1], q[2], q[3], q[4], f)
  BY Zenon
<1>7. /\ hardware => HardwareReady(s) /\ s.po = d.po
      /\ rejected => s.result = "reject" \/ d.result = "reject"
      /\ legal => Legal(card, r, f, p) /\ Legal(card, r, f, q)
  BY Zenon
<1> HIDE DEF p, asked, torn, off, s, d, hardware, rejected, legal
<1>8. rejected => ~legal
  <2> SUFFICES ASSUME rejected, legal PROVE FALSE
    OBVIOUS
  <2>1. CASE s.result = "reject"
    <3>1. ~Legal(card, r, f, p)
      BY <1>2, <1>4, <1>5, <2>1, SurfaceRejects
    <3>2. QED
      BY <1>7, <3>1
  <2>2. CASE d.result = "reject" /\ s.result = "hardware"
    <3>1. SurfaceGood(card, s, r, p[3], f)
      <4> DEFINE px == p[1]
                 py == p[2]
                 pw == p[3]
                 ph == p[4]
      <4>1. px \in Int /\ py \in Int /\ pw \in Int /\ ph \in Int /\ s = ValidateSurface(card, r, px, py, pw, ph, f)
        BY <1>4, <1>5
      <4> HIDE DEF px, py, pw, ph
      <4>2. SurfaceGood(card, s, r, pw, f)
        BY <2>2, <4>1, SurfaceAligned
      <4>3. QED
        BY <4>2 DEF pw
    <3>2. /\ s.r = r /\ s.bpp = f /\ s.limit = card.limit
          /\ DOMAIN s = {"result", "r", "bpp", "limit", "po", "bias", "extent"}
      BY <3>1 DEF SurfaceGood
    <3>3. ~Legal(card, r, f, q)
      BY <1>2, <1>6, <2>2, <3>2, SameSurfaceRejects
    <3>4. QED
      BY <1>7, <3>3
  <2>3. CASE d.result = "reject" /\ s.result # "hardware"
    <3>1. ~Legal(card, r, f, q)
      BY <1>2, <1>6, <2>3, SurfaceRejects
    <3>2. QED
      BY <1>7, <3>1
  <2>4. QED
    BY <1>7, <2>1, <2>2, <2>3
<1>9. hardware => \A o \in drawn : Follows(card, o)
  <2> SUFFICES ASSUME hardware PROVE \A o \in drawn : Follows(card, o)
    OBVIOUS
  <2>1. /\ Aligned(s.po) /\ s.r = r /\ s.bpp = f /\ s.limit = card.limit /\ s.result = "hardware"
        /\ p[3] \in Nat /\ p[3] <= MaxCoord + 1
        /\ DOMAIN s = {"result", "r", "bpp", "limit", "po", "bias", "extent"}
    BY <1>4, <1>5, <1>7, Ready
  <2>2. Aligned(d.po)
    BY <1>7, <2>1
  <2> HIDE DEF sx, sy, x, y, w, h, same
  <2>3. QED
    BY <1>2, <2>1, <2>2, CopyFollows
<1> HIDE DEF drawn
<1>10. results = IF rejected THEN Dropped(card, legal)
                 ELSE IF hardware THEN Drawn(drawn, asked, torn) ELSE Softly(card, off)
  OBVIOUS
<1> HIDE DEF results
<1>11. QED
  BY <1>1, <1>3, <1>8, <1>9, <1>10, PairEnds

LEMMA BlitRectNoMaskCompleteEnds ==
  ASSUME Sound(card), Quiet(card), NEW sr, sr.memory \in Int, sr.pitch \in Int,
         NEW dr, dr.memory \in Int, dr.pitch \in Int,
         NEW q, q[1] \in Int, q[2] \in Int, q[3] \in Int, q[4] \in Int, NEW f \in {0, 1, 2, 4},
         NEW shift, shift[1] \in Int, shift[2] \in Int, NEW opcode,
         BlitRectNoMaskComplete(sr, dr, q, shift, opcode, f)
  PROVE  After
<1> DEFINE p == From(q, shift)
           s == ValidateSurface(card, sr, p[1], p[2], p[3], p[4], f)
           d == ValidateSurface(card, dr, q[1], q[2], q[3], q[4], f)
           rejected == "reject" \in {s.result, d.result}
           legal == Legal(card, sr, f, p) /\ Legal(card, dr, f, q)
           hardware == /\ opcode < 16 /\ HardwareReady(s) /\ HardwareReady(d)
                       /\ Disjoint(s, d) \/ sr.pitch = dr.pitch
           sx == p[1]
           sy == p[2]
           x == q[1]
           y == q[2]
           w == q[3]
           h == q[4]
           same == s.po = d.po
           reverse == ~Disjoint(s, d) /\ d.extent.start > s.extent.start
           rop == P96CopyRop3(opcode)
           torn == FALSE
           drawn == SubmitCopy(card, OnBoard, s, d, sx, sy, x, y, w, h, Plane, f, same, reverse, rop)
           combine(i, j, old) ==
             LET src == OnBoard[Pixel(sr, f, p[1] + i, p[2] + j)]
             IN {b \in Plane : LET n == (IF b \in src THEN 2 ELSE 0) + (IF b \in old THEN 1 ELSE 0)
                               IN (opcode \div 2^n) % 2 = 1}
           asked == Asked(dr, f, q, combine)
           off == Offboard(s) /\ Offboard(d)
           results == IF rejected THEN Dropped(card, legal)
                      ELSE IF hardware THEN Drawn(drawn, asked, torn) ELSE Softly(card, off)
<1>1. Happens(results)
  BY Zenon DEF BlitRectNoMaskComplete
<1>2. Drawing(card) /\ card.limit \in Int
  BY LimitIs DEF Quiet, Drawing
<1>3. /\ torn \in BOOLEAN /\ off \in BOOLEAN /\ hardware \in BOOLEAN /\ rejected \in BOOLEAN
      /\ legal \in BOOLEAN
  <2>1. torn \in BOOLEAN
    OBVIOUS
  <2>2. off \in BOOLEAN
    BY Zenon
  <2>3. hardware \in BOOLEAN
    BY Zenon
  <2>4. rejected \in BOOLEAN
    <3>1. rejected = TRUE \/ rejected = FALSE
      BY SMT
    <3>2. QED
      BY <3>1
  <2>5. legal \in BOOLEAN
    BY Zenon
  <2>6. QED
    BY <2>1, <2>2, <2>3, <2>4, <2>5
<1>4. p[1] \in Int /\ p[2] \in Int /\ p[3] \in Int /\ p[4] \in Int
  BY FromIs
<1>5. /\ s = ValidateSurface(card, sr, p[1], p[2], p[3], p[4], f)
      /\ d = ValidateSurface(card, dr, q[1], q[2], q[3], q[4], f)
  OBVIOUS
<1>6. /\ hardware => HardwareReady(s) /\ HardwareReady(d)
      /\ rejected => s.result = "reject" \/ d.result = "reject"
      /\ legal => Legal(card, sr, f, p) /\ Legal(card, dr, f, q)
  BY Zenon
<1> HIDE DEF p, asked, torn, off, s, d, hardware, rejected, legal, same, reverse, rop
<1>7. rejected => ~legal
  <2> SUFFICES ASSUME rejected, legal PROVE FALSE
    OBVIOUS
  <2>1. CASE s.result = "reject"
    <3>1. ~Legal(card, sr, f, p)
      BY <1>2, <1>4, <1>5, <2>1, SurfaceRejects
    <3>2. QED
      BY <1>6, <3>1
  <2>2. CASE d.result = "reject"
    <3>1. ~Legal(card, dr, f, q)
      BY <1>2, <1>5, <2>2, SurfaceRejects
    <3>2. QED
      BY <1>6, <3>1
  <2>3. QED
    BY <1>6, <2>1, <2>2
<1>8. hardware => \A o \in drawn : Follows(card, o)
  <2> SUFFICES ASSUME hardware PROVE \A o \in drawn : Follows(card, o)
    OBVIOUS
  <2>1. /\ Aligned(s.po) /\ s.r = sr /\ s.bpp = f /\ s.limit = card.limit /\ s.result = "hardware"
        /\ p[3] \in Nat /\ p[3] <= MaxCoord + 1
        /\ DOMAIN s = {"result", "r", "bpp", "limit", "po", "bias", "extent"}
    BY <1>4, <1>5, <1>6, Ready
  <2>2. /\ Aligned(d.po) /\ d.r = dr /\ d.bpp = f /\ d.limit = card.limit /\ d.result = "hardware"
        /\ q[3] \in Nat /\ q[3] <= MaxCoord + 1
        /\ DOMAIN d = {"result", "r", "bpp", "limit", "po", "bias", "extent"}
    BY <1>5, <1>6, Ready
  <2> HIDE DEF sx, sy, x, y, w, h
  <2>3. QED
    BY <1>2, <2>1, <2>2, CopyFollows
<1> HIDE DEF drawn
<1>9. results = IF rejected THEN Dropped(card, legal)
                ELSE IF hardware THEN Drawn(drawn, asked, torn) ELSE Softly(card, off)
  OBVIOUS
<1> HIDE DEF results
<1>10. QED
  BY <1>1, <1>3, <1>7, <1>8, <1>9, PairEnds

LEMMA UnforeseenEnds ==
  ASSUME NEW d, Ends(d), NEW f, f = Unforeseen(d)
  PROVE  Ends(f)
<1> DEFINE l == d.last
           m == [l EXCEPT !.asAsked = TRUE]
<1>1. f = [d EXCEPT !.last = m]
  BY DEF Unforeseen
<1>2. DOMAIN l = {"kept", "asAsked", "fresh", "torn"} /\ DOMAIN Nothing = {"kept", "asAsked", "fresh", "torn"}
  BY DEF Ends, Nothing
<1>3. DOMAIN m = DOMAIN l /\ m.asAsked = TRUE /\ m.kept = l.kept /\ m.fresh = l.fresh /\ m.torn = l.torn
  BY <1>2
<1> HIDE DEF m
<1>4. DOMAIN f = {"c", "last"} /\ f.c = d.c /\ f.last = m
  BY <1>1 DEF Ends
<1>5. \A k \in DOMAIN m : m[k] \in BOOLEAN
  <2>1. m.kept \in BOOLEAN /\ m.fresh \in BOOLEAN /\ m.torn \in BOOLEAN /\ m.asAsked \in BOOLEAN
    BY <1>2, <1>3 DEF Ends
  <2>2. QED
    BY <1>2, <1>3, <2>1
<1>6. m.kept /\ m.fresh
  BY <1>3 DEF Ends
<1>7. QED
  BY <1>2, <1>3, <1>4, <1>5, <1>6 DEF Ends

(* The least and the greatest of two numbers.                               *)
LEMMA OfTwo ==
  ASSUME NEW a \in Int, NEW b \in Int
  PROVE  Min({a, b}) \in Int /\ Max({a, b}) \in Int
<1> DEFINE S == {a, b}
<1>1. \E x \in S : \A y \in S : x <= y
  <2>1. CASE a <= b
    BY <2>1
  <2>2. CASE b <= a
    BY <2>2
  <2>3. QED
    BY <2>1, <2>2
<1>2. \E x \in S : \A y \in S : x >= y
  <2>1. CASE a <= b
    BY <2>1
  <2>2. CASE b <= a
    BY <2>2
  <2>3. QED
    BY <2>1, <2>2
<1>3. Min(S) \in S
  BY <1>1 DEF Min
<1>4. Max(S) \in S
  BY <1>2 DEF Max
<1>5. QED
  BY <1>3, <1>4

LEMMA RectangleIs ==
  ASSUME NEW l, l.x \in Int, l.y \in Int, l.dx \in Int, l.dy \in Int, NEW q, q = Rectangle(l)
  PROVE  q[1] \in Int /\ q[2] \in Int /\ q[3] \in Int /\ q[4] \in Int
<1> DEFINE x2 == l.x + l.dx
           y2 == l.y + l.dy
           nx == -l.dx
           ny == -l.dy
           x == l.x
           y == l.y
           dx == l.dx
           dy == l.dy
<1>1. x \in Int /\ y \in Int /\ dx \in Int /\ dy \in Int /\ x2 \in Int /\ y2 \in Int /\ nx \in Int /\ ny \in Int
  OBVIOUS
<1>2. q = <<Min({x, x2}), Min({y, y2}), Max({dx, nx}) + 1, Max({dy, ny}) + 1>>
  BY DEF Rectangle
<1> HIDE DEF x, y, dx, dy, x2, y2, nx, ny
<1>3. Min({x, x2}) \in Int /\ Max({x, x2}) \in Int
  BY <1>1, OfTwo
<1>4. Min({y, y2}) \in Int /\ Max({y, y2}) \in Int
  BY <1>1, OfTwo
<1>5. Min({dx, nx}) \in Int /\ Max({dx, nx}) \in Int
  BY <1>1, OfTwo
<1>6. Min({dy, ny}) \in Int /\ Max({dy, ny}) \in Int
  BY <1>1, OfTwo
<1>7. QED
  BY <1>2, <1>3, <1>4, <1>5, <1>6

LEMMA LineSurfaceIs ==
  ASSUME NEW c, NEW r, NEW f
  PROVE  LineSurface(c, r, f) \in {"offboard", "onboard", "reject", "good"}
<1> DEFINE none == SoftwareSurfaceResult(r).result
           C1 == f = 0 \/ r.pitch <= 0
           C2 == IsOffboardMemory(r.memory)
           C3 == r.memory >= c.limit
           C4 == r.pitch % PitchAlign # 0 \/ r.pitch > MaxPitch
           C5 == r.pitch < f \/ c.limit - r.memory < r.pitch
           C6 == ((r.memory % BaseAlign) % r.pitch) % f # 0
           C7 == Bias(r, f)[1] > MaxCoord \/ Bias(r, f)[2] > MaxCoord
<1>1. LineSurface(c, r, f) = IF C1 THEN none ELSE IF C2 THEN "offboard" ELSE IF C3 THEN "reject"
        ELSE IF C4 THEN "onboard" ELSE IF C5 THEN "reject" ELSE IF C6 THEN "onboard"
        ELSE IF C7 THEN "onboard" ELSE "good"
  BY Zenon DEF LineSurface
<1>2. none \in {"offboard", "onboard"}
  BY DEF SoftwareSurfaceResult
<1> HIDE DEF C1, C2, C3, C4, C5, C6, C7, none
<1>3. QED
  BY <1>1, <1>2

(* A line's surface, worked out: where it is hardware its registers can be  *)
(* written, and where it is rejected the line is none that Picasso96 asks.  *)
LEMMA LineValidated ==
  ASSUME NEW c, Sound(c), NEW r, r.memory \in Int, r.pitch \in Int, NEW f \in {0, 1, 2, 4},
         NEW q, q[1] \in Int, q[2] \in Int, q[3] \in Int, q[4] \in Int,
         NEW v, v = ValidateLineSurface(c, r, q[1], q[2], q[1] + q[3] - 1, q[2] + q[4] - 1, f)
  PROVE  /\ v.result = "hardware" => Aligned(v.c.line.po)
         /\ v.result = "reject" => ~LegalLine(c, r, f, q)
<1> DEFINE left == q[1]
           top == q[2]
           right == q[1] + q[3] - 1
           bottom == q[2] + q[4] - 1
           none == SoftwareSurfaceResult(r).result
           found == LineSurface(c, r, f)
           line == LineLayout(c, r, f)
<1>1. v = ValidateLineSurface(c, r, left, top, right, bottom, f)
  OBVIOUS
<1> HIDE DEF left, top, right, bottom
<1>2. /\ Sound(v.c) /\ (Quiet(c) => Quiet(v.c)) /\ (Drawing(c) => Drawing(v.c))
      /\ v.c.limit = c.limit /\ v.c.accel = c.accel
      /\ \/ v.result # "good" /\ v.result = LineSurface(c, r, f)
         \/ /\ LineSurface(c, r, f) = "good" /\ v.c.line = LineLayout(c, r, f)
            /\ v.result = IF left < 0 \/ top < 0 THEN SoftwareSurfaceResult(r).result
                          ELSE IF right > v.c.line.maxX \/ bottom > v.c.line.maxY THEN "reject"
                          ELSE "hardware"
  BY <1>1, LineRemembered
<1>3. found \in {"offboard", "onboard", "reject", "good"}
  BY LineSurfaceIs
<1>4. none \in {"offboard", "onboard"}
  BY DEF SoftwareSurfaceResult
<1>5. found = "good" => Aligned(line.po)
  <2> SUFFICES ASSUME found = "good" PROVE Aligned(line.po)
    OBVIOUS
  <2>1. /\ f # 0 /\ r.pitch > 0 /\ r.pitch <= MaxPitch /\ r.pitch % PitchAlign = 0
        /\ r.memory \in 0..Aperture /\ ~(r.memory >= c.limit)
    BY GoodLine
  <2> DEFINE v1 == line.po
             p == r.pitch
             m == r.memory
  <2>2. v1 = <<p, m - (m % BaseAlign)>>
    BY DEF LineLayout
  <2>3. p \in Int /\ p > 0 /\ p <= MaxPitch /\ p % PitchAlign = 0 /\ m \in 0..Aperture
    BY <2>1
  <2> HIDE DEF v1, p, m
  <2>4. Aligned(v1)
    BY <2>2, <2>3, PitchOffset
  <2>5. QED
    BY <2>4 DEF v1
<1>6. c.limit \in Int
  BY LimitIs
<1>7. LegalLine(c, r, f, q) => /\ found # "reject"
                               /\ found = "good" => ~(right > line.maxX)
                               /\ found = "good" => ~(bottom > line.maxY)
  BY <1>6, LineRejects DEF right, bottom
<1> HIDE DEF found, line, none
<1>8. \/ v.result # "good" /\ v.result = found
      \/ /\ found = "good" /\ v.c.line = line
         /\ v.result = IF left < 0 \/ top < 0 THEN none
                       ELSE IF right > line.maxX \/ bottom > line.maxY THEN "reject" ELSE "hardware"
  BY <1>2 DEF found, line, none
<1> DEFINE legal == LegalLine(c, r, f, q)
           outX == right > line.maxX
           outY == bottom > line.maxY
           outside == left < 0 \/ top < 0
<1>9. /\ legal => found # "reject" /\ (found = "good" => ~outX) /\ (found = "good" => ~outY)
      /\ \/ v.result # "good" /\ v.result = found
         \/ /\ found = "good" /\ v.c.line = line
            /\ v.result = IF outside THEN none ELSE IF outX \/ outY THEN "reject" ELSE "hardware"
  BY <1>7, <1>8
<1> HIDE DEF legal, outX, outY, outside
<1>10. v.result = "hardware" => found = "good" /\ v.c.line = line
  BY <1>3, <1>4, <1>9
<1>11. v.result = "reject" => ~legal
  BY <1>3, <1>4, <1>9
<1>12. QED
  BY <1>5, <1>10, <1>11 DEF legal

LEMMA DrawLineEnds ==
  ASSUME Sound(card), Quiet(card), NEW r, r.memory \in Int, r.pitch \in Int, NEW f \in {0, 1, 2, 4},
         NEW l, l.x \in Int, l.y \in Int, l.dx \in Int, l.dy \in Int, NEW mask, DrawLine(r, l, mask, f)
  PROVE  After
<1> DEFINE q == Rectangle(l)
           v == ValidateLineSurface(card, r, q[1], q[2], q[1] + q[3] - 1, q[2] + q[4] - 1, f)
           asked == Asked(r, f, q, LAMBDA i, j, old :
                      IF SolidAxis(l) \/ OnLine(l, q, i, j) THEN Masked(old, l.pen, mask, f) ELSE old)
           x == q[1]
           y == q[2]
           w == q[3]
           h == q[4]
           pen == l.pen
           rop == IF l.jam2 THEN ROP3_P ELSE 123
           axis == SubmitSolidAxisRect(v.c, OnBoard, x, y, w, h, pen, mask, f)
           sloped == SubmitLine(v.c, OnBoard, l, rop, pen, mask, f)
           drawn == IF SolidAxis(l) THEN axis ELSE sloped
           foreseen == SolidAxis(l) \/ (l.jam2 /\ l.solid)
           torn == FALSE
           off == IsOffboardMemory(r.memory)
           legal == LegalLine(card, r, f, q)
           hardware == v.result = "hardware" /\ card.accel = "READY"
           D == Drawn(drawn, asked, torn)
           results == IF l.complement THEN Softly(card, off)
                      ELSE IF v.result = "reject" THEN Dropped(v.c, legal)
                      ELSE IF hardware THEN (IF foreseen THEN D ELSE {Unforeseen(d) : d \in D})
                      ELSE Softly(v.c, off)
<1>1. Happens(results)
  BY Zenon DEF DrawLine
<1>2. torn \in BOOLEAN /\ off \in BOOLEAN /\ legal \in BOOLEAN
  BY Zenon DEF LegalLine, IsOffboardMemory
<1>3. q[1] \in Int /\ q[2] \in Int /\ q[3] \in Int /\ q[4] \in Int
  BY RectangleIs
<1>4. v = ValidateLineSurface(card, r, q[1], q[2], q[1] + q[3] - 1, q[2] + q[4] - 1, f)
  OBVIOUS
<1> HIDE DEF q, v, asked, torn, off, foreseen, rop
<1>5. Sound(v.c) /\ Quiet(v.c) /\ Drawing(v.c)
  <2> DEFINE left == q[1]
             top == q[2]
             right == q[1] + q[3] - 1
             bottom == q[2] + q[4] - 1
  <2>1. v = ValidateLineSurface(card, r, left, top, right, bottom, f)
    BY <1>4
  <2> HIDE DEF left, top, right, bottom
  <2>2. /\ Sound(v.c) /\ (Quiet(card) => Quiet(v.c)) /\ (Drawing(card) => Drawing(v.c))
        /\ v.c.limit = card.limit /\ v.c.accel = card.accel
        /\ \/ v.result # "good" /\ v.result = LineSurface(card, r, f)
           \/ /\ LineSurface(card, r, f) = "good" /\ v.c.line = LineLayout(card, r, f)
              /\ v.result = IF left < 0 \/ top < 0 THEN SoftwareSurfaceResult(r).result
                            ELSE IF right > v.c.line.maxX \/ bottom > v.c.line.maxY THEN "reject"
                            ELSE "hardware"
    BY <2>1, LineRemembered
  <2>3. QED
    BY <2>2 DEF Quiet, Drawing
<1>6. /\ v.result = "hardware" => Aligned(v.c.line.po)
      /\ v.result = "reject" => ~LegalLine(card, r, f, q)
  BY <1>3, <1>4, LineValidated
<1> DEFINE e == v.c
<1>7. hardware => \A o \in drawn : Follows(e, o)
  <2> SUFFICES ASSUME hardware, NEW o \in drawn PROVE Follows(e, o)
    OBVIOUS
  <2>1. Aligned(e.line.po) /\ Sound(e) /\ Drawing(e)
    BY <1>5, <1>6
  <2>2. o \in SubmitSolidAxisRect(e, OnBoard, x, y, w, h, pen, mask, f)
        \/ o \in SubmitLine(e, OnBoard, l, rop, pen, mask, f)
    BY Zenon
  <2> HIDE DEF e, x, y, w, h, pen
  <2>3. CASE o \in SubmitSolidAxisRect(e, OnBoard, x, y, w, h, pen, mask, f)
    BY <2>1, <2>3, AxisFollows
  <2>4. CASE o \in SubmitLine(e, OnBoard, l, rop, pen, mask, f)
    BY <2>1, <2>4, LineFollows
  <2>5. QED
    BY <2>2, <2>3, <2>4
<1>8. v.result = "reject" => ~legal
  BY <1>6
<1>9. Sound(e) /\ Quiet(e)
  BY <1>5
<1>10. results = IF l.complement THEN Softly(card, off)
                 ELSE IF v.result = "reject" THEN Dropped(e, legal)
                 ELSE IF hardware THEN (IF foreseen THEN D ELSE {Unforeseen(d) : d \in D})
                 ELSE Softly(e, off)
  BY Zenon
<1> HIDE DEF drawn, e, legal, hardware, results
<1>11. hardware => \A d \in D : Ends(d)
  BY <1>2, <1>7, DrawnEnds
<1> HIDE DEF D
<1>12. \A d \in results : Ends(d)
  <2>1. CASE l.complement
    <3>1. \A d \in Softly(card, off) : Ends(d)
      BY <1>2, SoftlyEnds
    <3>2. QED
      BY <1>10, <2>1, <3>1
  <2>2. CASE ~l.complement /\ v.result = "reject"
    <3>1. \A d \in Dropped(e, legal) : Ends(d)
      BY <1>2, <1>8, <1>9, <2>2, DroppedEnds
    <3>2. QED
      BY <1>10, <2>2, <3>1
  <2>3. CASE ~l.complement /\ v.result # "reject" /\ hardware
    <3>1. \A d \in D : Ends(d) /\ Ends(Unforeseen(d))
      BY <1>11, <2>3, UnforeseenEnds
    <3>2. results = D \/ results = {Unforeseen(d) : d \in D}
      BY <1>10, <2>3
    <3>3. QED
      BY <3>1, <3>2
  <2>4. CASE ~l.complement /\ v.result # "reject" /\ ~hardware
    <3>1. \A d \in Softly(e, off) : Ends(d)
      BY <1>2, <1>9, SoftlyEnds
    <3>2. QED
      BY <1>10, <2>4, <3>1
  <2>5. QED
    BY <2>1, <2>2, <2>3, <2>4
<1>13. QED
  BY <1>1, <1>12, EndsAfter
------------------------------------------------------------------------------
(* The other actions.                                                       *)

LEMMA NothingHappened ==
  ASSUME last' = Nothing
  PROVE  LastFine'
<1> DEFINE t == TRUE
           n == FALSE
           l == Nothing
<1>1. l = [kept |-> t, asAsked |-> t, fresh |-> t, torn |-> n]
  BY DEF Nothing
<1>2. t \in BOOLEAN /\ n \in BOOLEAN /\ t
  OBVIOUS
<1>3. DOMAIN l = {"kept", "asAsked", "fresh", "torn"}
  BY DEF Nothing
<1> HIDE DEF t, n, l
<1>4. l.kept = t /\ l.asAsked = t /\ l.fresh = t /\ l.torn = n
  BY <1>1, LastFields
<1>5. l.kept \in BOOLEAN /\ l.asAsked \in BOOLEAN /\ l.fresh \in BOOLEAN /\ l.torn \in BOOLEAN
  BY <1>2, <1>4, Zenon
<1>6. l.kept /\ l.fresh
  BY <1>2, <1>4
<1>7. \A k \in DOMAIN l : l[k] \in BOOLEAN
  BY <1>3, <1>5
<1>8. last' = l /\ l = Nothing
  BY DEF l
<1>9. QED
  BY <1>6, <1>7, <1>8 DEF LastFine

LEMMA WaitBlitterKeeps ==
  ASSUME Sound(card), Quiet(card), WaitBlitter
  PROVE  After
<1> DEFINE mem == <<>>
<1>1. Drawing(card)
  BY DEF Quiet, Drawing
<1>2. card' = card \/ \E o \in SynchronizeEngine(card, mem) : card' = o.c
  BY DEF WaitBlitter
<1>3. LastFine'
  BY NothingHappened DEF WaitBlitter
<1> HIDE DEF mem
<1>4. CASE card' = card
  BY <1>3, <1>4 DEF After
<1>5. CASE \E o \in SynchronizeEngine(card, mem) : card' = o.c
  <2>1. PICK o \in SynchronizeEngine(card, mem) : card' = o.c
    BY <1>5
  <2>2. /\ Follows(card, o) /\ (Quiet(card) => Quiet(o.c))
        /\ o.ok /\ card.pending # "NONE" => ~o.c.restore
        /\ card.pending = "NONE" => o.c = card
        /\ ~o.ok => o.c.accel # "READY"
    BY <1>1, <2>1, SynchronizeFollows
  <2>3. Sound(o.c) /\ Quiet(o.c)
    BY <2>2 DEF Follows
  <2>4. QED
    BY <1>3, <2>1, <2>3 DEF After
<1>6. QED
  BY <1>2, <1>4, <1>5

(* The engine is left as 3D commands leave it, and the baseline is owed.    *)
LEMMA LeftTo3D ==
  ASSUME NEW c, Sound(c), c.accel = "READY", NEW unknown, unknown = [g \in Register |-> Unknown],
         NEW d, d = [c EXCEPT !.pending = "CP", !.restore = TRUE, !.regs = unknown,
                              !.host = {}, !.held = IF @ = "no" THEN "no" ELSE "stale"]
  PROVE  Sound(d) /\ Quiet(d)
<1>1. /\ DOMAIN d = CardField /\ d.pending = "CP" /\ d.restore = TRUE /\ d.regs = unknown /\ d.host = {}
      /\ d.held \in {"no", "stale"}
      /\ \A k \in CardField \ {"pending", "restore", "regs", "host", "held"} : d[k] = c[k]
  BY DEF Sound, Typed, CardField
<1>2. /\ d.accel = c.accel /\ d.slipped = c.slipped /\ d.tried = c.tried /\ d.staging = c.staging
      /\ d.staged = c.staged /\ d.ready = c.ready /\ d.limit = c.limit /\ d.line = c.line /\ d.shadow = c.shadow
  BY <1>1 DEF CardField
<1>3. /\ DOMAIN unknown = Register /\ unknown["dst"] = Unknown /\ unknown["src"] = Unknown
  BY DEF Register
<1>4. Typed(d)
  <2>1. DOMAIN d.regs = Register /\ Aligned(d.regs["dst"]) /\ Aligned(d.regs["src"])
    BY <1>1, <1>3 DEF Aligned
  <2>2. QED
    BY <1>1, <1>2, <2>1 DEF Sound, Typed
<1>5. LineFresh(d)
  BY <1>2, LineFreshKept DEF Sound
<1>6. ~Reliable(d)
  BY <1>1 DEF Reliable
<1>7. QED
  BY <1>1, <1>2, <1>4, <1>5, <1>6 DEF Sound, Quiet

LEMMA Submit3DKeeps ==
  ASSUME Sound(card), Quiet(card), Submit3D
  PROVE  After
<1> DEFINE mem == <<>>
           S == IF card.accel = "READY" /\ card.pending = "CP" THEN {Outcome(TRUE, card, mem)}
                ELSE SynchronizeEngine(card, mem)
           unknown == [g \in Register |-> Unknown]
<1>1. Drawing(card)
  BY DEF Quiet, Drawing
<1>2. LastFine'
  BY NothingHappened DEF Submit3D
<1>3. PICK o \in S :
        card' = IF ~o.ok \/ o.c.accel # "READY" THEN o.c
                ELSE [o.c EXCEPT !.pending = "CP", !.restore = TRUE, !.regs = unknown,
                                 !.host = {}, !.held = IF @ = "no" THEN "no" ELSE "stale"]
  BY Zenon DEF Submit3D
<1>4. o = Outcome(TRUE, card, mem) \/ o \in SynchronizeEngine(card, mem)
  BY <1>3
<1>5. unknown = [g \in Register |-> Unknown]
  OBVIOUS
<1> HIDE DEF mem, S, unknown
<1>6. Sound(o.c) /\ Quiet(o.c)
  <2>1. CASE o = Outcome(TRUE, card, mem)
    <3>1. o.ok = TRUE /\ o.c = card /\ o.mem = mem
      BY <2>1, Zenon DEF Outcome
    <3>2. QED
      BY <3>1
  <2>2. CASE o \in SynchronizeEngine(card, mem)
    <3>1. /\ Follows(card, o) /\ (Quiet(card) => Quiet(o.c))
          /\ o.ok /\ card.pending # "NONE" => ~o.c.restore
          /\ card.pending = "NONE" => o.c = card
          /\ ~o.ok => o.c.accel # "READY"
      BY <1>1, <2>2, SynchronizeFollows
    <3>2. QED
      BY <3>1 DEF Follows
  <2>3. QED
    BY <1>4, <2>1, <2>2
<1> DEFINE c == o.c
           d == [c EXCEPT !.pending = "CP", !.restore = TRUE, !.regs = unknown,
                          !.host = {}, !.held = IF @ = "no" THEN "no" ELSE "stale"]
<1>7. card' = c \/ (c.accel = "READY" /\ card' = d)
  BY <1>3
<1>8. Sound(c) /\ Quiet(c)
  BY <1>6
<1>9. d = [c EXCEPT !.pending = "CP", !.restore = TRUE, !.regs = unknown,
                    !.host = {}, !.held = IF @ = "no" THEN "no" ELSE "stale"]
  OBVIOUS
<1> HIDE DEF c, d
<1>10. c.accel = "READY" => Sound(d) /\ Quiet(d)
  BY <1>5, <1>8, <1>9, LeftTo3D
<1>11. QED
  BY <1>2, <1>7, <1>8, <1>10 DEF After

LEMMA OpenedBoard ==
  ASSUME NEW o \in Openings, NEW c, c = InitializeEngine(o[1], o[2])
  PROVE  Sound(c) /\ Quiet(c)
<1> DEFINE l == o[1]
           staging == o[2]
           b == Fresh(l)
           d == RestoreEngineState(b)
           unknown == [r \in Register |-> Unknown]
<1>1. l \in {p[1] : p \in Openings} /\ staging \in BOOLEAN /\ (staging => l % BaseAlign = 0)
  BY Draw2DAssumption
<1>2. c = [d EXCEPT !.staging = staging]
  BY DEF InitializeEngine
<1>3. /\ DOMAIN unknown = Register /\ unknown["dst"] = Unknown /\ unknown["src"] = Unknown
  BY DEF Register
<1>4. b = [accel |-> "READY", pending |-> "NONE", restore |-> FALSE, slipped |-> FALSE, tried |-> FALSE,
           staging |-> FALSE, staged |-> FALSE, ready |-> FALSE, limit |-> l, host |-> {}, held |-> "no",
           regs |-> unknown, shadow |-> <<>>, line |-> NoLine]
  BY DEF Fresh
<1> HIDE DEF unknown, l, staging
<1>5. /\ DOMAIN b = CardField /\ b.accel = "READY" /\ b.pending = "NONE" /\ b.restore = FALSE /\ b.slipped = FALSE
      /\ b.tried = FALSE /\ b.staging = FALSE /\ b.staged = FALSE /\ b.ready = FALSE /\ b.limit = l
      /\ b.host = {} /\ b.held = "no" /\ b.regs = unknown /\ b.shadow = <<>> /\ b.line = NoLine
  BY <1>4 DEF CardField
<1>6. Typed(b)
  <2>1. Aligned(b.regs["dst"]) /\ Aligned(b.regs["src"]) /\ DOMAIN b.shadow = {}
    BY <1>3, <1>5 DEF Aligned
  <2>2. QED
    BY <1>1, <1>3, <1>5, <2>1 DEF Typed
<1> HIDE DEF b
<1>7. /\ Typed(d) /\ Coherent(d) /\ PathKept(d) /\ d.slipped = FALSE
      /\ \A k \in CardField \ {"regs", "shadow", "host", "ready", "slipped"} : d[k] = b[k]
  BY <1>6, RestoreLeaves
<1>8. /\ d.accel = "READY" /\ d.pending = "NONE" /\ d.restore = FALSE /\ d.tried = FALSE
      /\ d.limit = l /\ d.held = "no" /\ d.line = NoLine
  BY <1>5, <1>7 DEF CardField
<1> HIDE DEF d
<1>9. DOMAIN c = CardField /\ c.staging = staging /\ \A k \in CardField \ {"staging"} : c[k] = d[k]
  BY <1>2, <1>7 DEF Typed, CardField
<1>10. /\ c.accel = d.accel /\ c.pending = d.pending /\ c.restore = d.restore /\ c.slipped = d.slipped
       /\ c.tried = d.tried /\ c.staged = d.staged /\ c.ready = d.ready /\ c.held = d.held
       /\ c.limit = d.limit /\ c.host = d.host /\ c.line = d.line /\ c.regs = d.regs /\ c.shadow = d.shadow
  BY <1>9 DEF CardField
<1>11. Typed(c)
  BY <1>1, <1>7, <1>8, <1>9, <1>10 DEF Typed
<1>12. Coherent(c) /\ PathKept(c)
  BY <1>7, <1>10 DEF Coherent, PathKept, HostPathGood
<1>13. LineFresh(c)
  BY <1>8, <1>10 DEF LineFresh, NoLine
<1>14. QED
  BY <1>8, <1>10, <1>11, <1>12, <1>13 DEF Sound, Quiet

(* Every callback of Picasso96 ends well.                                   *)
LEMMA CallEnds ==
  ASSUME Sound(card), Quiet(card), Call
  PROVE  After
<1>1. PICK f \in DrawFormats, q \in Rects :
       \/ \E r \in Render, mask \in Masks :
            \/ \E pen \in Pens : FillRect(r, q, pen, mask, f)
            \/ InvertRect(r, q, mask, f)
            \/ \E p \in Patterns : BlitPattern(r, q, p, mask, f)
            \/ \E t \in Templates : BlitTemplate(r, q, t, mask, f)
            \/ \E p \in Planars : \/ BlitPlanar2Chunky(r, q, p, mask, f)
                                  \/ BlitPlanar2Direct(r, q, p, Cim, mask, f)
            \/ \E shift \in Shifts : BlitRect(r, q, shift, mask, f)
            \/ \E l \in Lines : DrawLine(r, l, mask, f)
       \/ \E pair \in Pairs, shift \in Shifts, opcode \in Opcodes :
            BlitRectNoMaskComplete(pair[1], pair[2], q, shift, opcode, f)
  BY Zenon DEF Call
<1>2. q[1] \in Int /\ q[2] \in Int /\ q[3] \in Int /\ q[4] \in Int /\ f \in {0, 1, 2, 4}
  BY <1>1, Given
<1>3. CASE \E r \in Render, mask \in Masks :
            \/ \E pen \in Pens : FillRect(r, q, pen, mask, f)
            \/ InvertRect(r, q, mask, f)
            \/ \E p \in Patterns : BlitPattern(r, q, p, mask, f)
            \/ \E t \in Templates : BlitTemplate(r, q, t, mask, f)
            \/ \E p \in Planars : \/ BlitPlanar2Chunky(r, q, p, mask, f)
                                  \/ BlitPlanar2Direct(r, q, p, Cim, mask, f)
            \/ \E shift \in Shifts : BlitRect(r, q, shift, mask, f)
            \/ \E l \in Lines : DrawLine(r, l, mask, f)
  <2>1. PICK r \in Render, mask \in Masks :
            \/ \E pen \in Pens : FillRect(r, q, pen, mask, f)
            \/ InvertRect(r, q, mask, f)
            \/ \E p \in Patterns : BlitPattern(r, q, p, mask, f)
            \/ \E t \in Templates : BlitTemplate(r, q, t, mask, f)
            \/ \E p \in Planars : \/ BlitPlanar2Chunky(r, q, p, mask, f)
                                  \/ BlitPlanar2Direct(r, q, p, Cim, mask, f)
            \/ \E shift \in Shifts : BlitRect(r, q, shift, mask, f)
            \/ \E l \in Lines : DrawLine(r, l, mask, f)
    BY <1>3, Zenon
  <2>2. r.memory \in Int /\ r.pitch \in Int
    BY <2>1, Given
  <2>3. CASE \E pen \in Pens : FillRect(r, q, pen, mask, f)
    BY <1>2, <2>2, <2>3, FillRectEnds
  <2>4. CASE InvertRect(r, q, mask, f)
    BY <1>2, <2>2, <2>4, InvertRectEnds
  <2>5. CASE \E p \in Patterns : BlitPattern(r, q, p, mask, f)
    BY <1>2, <2>2, <2>5, BlitPatternEnds
  <2>6. CASE \E t \in Templates : BlitTemplate(r, q, t, mask, f)
    BY <1>2, <2>2, <2>6, BlitTemplateEnds
  <2>7. CASE \E p \in Planars : \/ BlitPlanar2Chunky(r, q, p, mask, f)
                                \/ BlitPlanar2Direct(r, q, p, Cim, mask, f)
    <3>1. PICK p \in Planars : \/ BlitPlanar2Chunky(r, q, p, mask, f)
                               \/ BlitPlanar2Direct(r, q, p, Cim, mask, f)
      BY <2>7
    <3>2. Len(p.planes) \in Nat
      BY <3>1, Given
    <3>3. CASE BlitPlanar2Chunky(r, q, p, mask, f)
      BY <1>2, <2>2, <3>2, <3>3, BlitPlanar2ChunkyEnds
    <3>4. CASE BlitPlanar2Direct(r, q, p, Cim, mask, f)
      BY <1>2, <2>2, <3>2, <3>4, BlitPlanar2DirectEnds
    <3>5. QED
      BY <3>1, <3>3, <3>4
  <2>8. CASE \E shift \in Shifts : BlitRect(r, q, shift, mask, f)
    <3>1. PICK shift \in Shifts : BlitRect(r, q, shift, mask, f)
      BY <2>8
    <3>2. shift[1] \in Int /\ shift[2] \in Int
      BY <3>1, Given
    <3>3. QED
      BY <1>2, <2>2, <3>1, <3>2, BlitRectEnds
  <2>9. CASE \E l \in Lines : DrawLine(r, l, mask, f)
    <3>1. PICK l \in Lines : DrawLine(r, l, mask, f)
      BY <2>9
    <3>2. l.x \in Int /\ l.y \in Int /\ l.dx \in Int /\ l.dy \in Int
      BY <3>1, Given
    <3>3. QED
      BY <1>2, <2>2, <3>1, <3>2, DrawLineEnds
  <2>10. QED
    BY <2>1, <2>3, <2>4, <2>5, <2>6, <2>7, <2>8, <2>9
<1>4. CASE \E pair \in Pairs, shift \in Shifts, opcode \in Opcodes :
             BlitRectNoMaskComplete(pair[1], pair[2], q, shift, opcode, f)
  <2>1. PICK pair \in Pairs, shift \in Shifts, opcode \in Opcodes :
             BlitRectNoMaskComplete(pair[1], pair[2], q, shift, opcode, f)
    BY <1>4
  <2> DEFINE sr == pair[1]
             dr == pair[2]
  <2>2. sr.memory \in Int /\ sr.pitch \in Int /\ dr.memory \in Int /\ dr.pitch \in Int
    <3>1. sr \in {p[k] : p \in Pairs, k \in {1, 2}} /\ dr \in {p[k] : p \in Pairs, k \in {1, 2}}
      BY <2>1
    <3> HIDE DEF sr, dr
    <3>2. QED
      BY <3>1, Given
  <2>3. shift[1] \in Int /\ shift[2] \in Int /\ BlitRectNoMaskComplete(sr, dr, q, shift, opcode, f)
    BY <2>1, Given
  <2> HIDE DEF sr, dr
  <2>4. QED
    BY <1>2, <2>2, <2>3, BlitRectNoMaskCompleteEnds
<1>5. QED
  BY <1>1, <1>3, <1>4
------------------------------------------------------------------------------
LEMMA IInvInit == Draw2DInit => IInv
<1> SUFFICES ASSUME Draw2DInit PROVE IInv
  OBVIOUS
<1>1. PICK o \in Openings : card = InitializeEngine(o[1], o[2])
  BY DEF Draw2DInit
<1>2. Sound(card) /\ Quiet(card)
  BY <1>1, OpenedBoard
<1>3. drawCalls \in 0..MaxCalls
  BY Granules DEF Draw2DInit
<1>4. LastFine
  <2> DEFINE t == TRUE
             n == FALSE
  <2>1. last = [kept |-> t, asAsked |-> t, fresh |-> t, torn |-> n]
        /\ DOMAIN Nothing = {"kept", "asAsked", "fresh", "torn"}
        /\ DOMAIN last = {"kept", "asAsked", "fresh", "torn"}
    BY DEF Draw2DInit, Nothing
  <2>2. t \in BOOLEAN /\ n \in BOOLEAN /\ t
    OBVIOUS
  <2> HIDE DEF t, n
  <2>3. last.kept = t /\ last.asAsked = t /\ last.fresh = t /\ last.torn = n
    BY <2>1, LastFields
  <2>4. last.kept \in BOOLEAN /\ last.asAsked \in BOOLEAN /\ last.fresh \in BOOLEAN /\ last.torn \in BOOLEAN
    BY <2>2, <2>3, Zenon
  <2>5. last.kept /\ last.fresh
    BY <2>2, <2>3
  <2>6. QED
    BY <2>1, <2>4, <2>5 DEF LastFine
<1>5. QED
  BY <1>2, <1>3, <1>4 DEF IInv

LEMMA IInvStep == IInv /\ [Draw2DNext]_d2vars => IInv'
<1> SUFFICES ASSUME IInv, [Draw2DNext]_d2vars PROVE IInv'
  OBVIOUS
<1>1. Sound(card) /\ Quiet(card) /\ drawCalls \in 0..MaxCalls
  BY DEF IInv
<1>2. CASE Call
  <2>1. After
    BY <1>1, <1>2, CallEnds
  <2>2. drawCalls' \in 0..MaxCalls
    BY <1>1, <1>2, Granules DEF Call
  <2>3. QED
    BY <2>1, <2>2 DEF After, IInv
<1>3. CASE WaitBlitter
  <2>1. After
    BY <1>1, <1>3, WaitBlitterKeeps
  <2>2. drawCalls' = drawCalls
    BY <1>3 DEF WaitBlitter
  <2>3. QED
    BY <1>1, <2>1, <2>2 DEF After, IInv
<1>4. CASE Submit3D
  <2>1. After
    BY <1>1, <1>4, Submit3DKeeps
  <2>2. drawCalls' = drawCalls
    BY <1>4 DEF Submit3D
  <2>3. QED
    BY <1>1, <2>1, <2>2 DEF After, IInv
<1>5. CASE Reinit
  <2>1. PICK o \in Openings : card' = InitializeEngine(o[1], o[2])
    BY <1>5 DEF Reinit
  <2>2. Sound(card') /\ Quiet(card')
    BY <2>1, OpenedBoard
  <2>3. LastFine'
    BY <1>5, NothingHappened DEF Reinit
  <2>4. drawCalls' \in 0..MaxCalls
    BY <1>5, Granules DEF Reinit
  <2>5. QED
    BY <2>2, <2>3, <2>4 DEF IInv
<1>6. CASE UNCHANGED d2vars
  BY <1>6 DEF d2vars, IInv, LastFine
<1>7. QED
  BY <1>2, <1>3, <1>4, <1>5, <1>6 DEF Draw2DNext

(* The inductive invariant holds throughout.                                *)
THEOREM Draw2DInvariant == Draw2DSpec => []IInv
  BY IInvInit, IInvStep, PTL DEF Draw2DSpec

(* Fields keep their types, and the pitches and offsets in the engine's     *)
(* registers are multiples of the granules that they can hold, for every    *)
(* bitmap that Picasso96 passes (ValidateSurface, StageTemplateRows).       *)
THEOREM Draw2DTypeCorrect == Draw2DSpec => []Draw2DTypeOK
<1>1. IInv => Draw2DTypeOK
  <2> SUFFICES ASSUME IInv PROVE Draw2DTypeOK
    OBVIOUS
  <2>1. Typed(card) /\ drawCalls \in 0..MaxCalls /\ LastFine
    BY DEF IInv, Sound
  <2>2. [f \in {"accel", "pending", "restore", "slipped", "tried", "staging", "staged", "ready", "limit", "host", "held"} |-> card[f]]
          \in EngineCard
    BY <2>1 DEF Typed, EngineCard
  <2>3. /\ DOMAIN card.regs = Register /\ DOMAIN card.shadow \subseteq Register
        /\ \A r \in {"dst", "src"} : card.regs[r] # Unknown =>
             /\ card.regs[r][1] \in {n \in 1..MaxPitch : n % PitchAlign = 0}
             /\ card.regs[r][2] \in {n \in 0..Aperture : n % BaseAlign = 0}
    BY <2>1, Zenon DEF Typed, Aligned
  <2>4. DOMAIN last = DOMAIN Nothing /\ \A k \in DOMAIN last : last[k] \in BOOLEAN
    BY <2>1 DEF LastFine
  <2>5. QED
    BY <2>1, <2>2, <2>3, <2>4 DEF Draw2DTypeOK
<1>2. QED
  BY <1>1, Draw2DInvariant, PTL

(* A drawing within the memory is never lost while the engine is good: what *)
(* validation rejects lies outside of the bitmap's memory, and where the    *)
(* engine refuses software draws (the results of ValidateSurface and        *)
(* PrepareSoftwareFallback).                                                *)
THEOREM NothingIsLost == Draw2DSpec => []NothingLost
<1>1. IInv => NothingLost
  BY DEF IInv, LastFine, NothingLost
<1>2. QED
  BY <1>1, Draw2DInvariant, PTL

(* What the driver believes of the registers, the host data path, the line  *)
(* surface and the aperture's read-ahead is so after any sequence of calls, *)
(* recoveries, 3D work and reopenings, for every bitmap and rectangle.      *)
THEOREM CachesStayCoherent == Draw2DSpec => []CachesCoherent
<1>1. IInv => CachesCoherent
  <2> SUFFICES ASSUME IInv PROVE CachesCoherent
    OBVIOUS
  <2>1. Sound(card) /\ LastFine
    BY DEF IInv
  <2>2. ShadowCoherent /\ HostPathReady
    BY <2>1 DEF Sound, ShadowCoherent, HostPathReady, Coherent, PathKept
  <2>3. LineCacheFresh
    BY <2>1 DEF Sound, LineFresh, LineCacheFresh
  <2>4. ApertureFresh
    BY <2>1 DEF LastFine, ApertureFresh
  <2>5. QED
    BY <2>2, <2>3, <2>4 DEF CachesCoherent
<1>2. QED
  BY <1>1, Draw2DInvariant, PTL
------------------------------------------------------------------------------
(* The picture.  Pixel by pixel the engine combines what it reads with pen   *)
(* and mask: that it then holds the picture that was asked for is shown of   *)
(* a rectangle whose pixels lie apart (RectDrawn), of a bitmap's rectangle    *)
(* under the surface's bias (Sited, SpotIs), of the register values that a    *)
(* submission leaves whatever the shadow spared (PaintedAs), and of what      *)
(* becomes of the board when the engine refuses (SurfaceShows).               *)
(* Numbers in rows of u.                                                    *)
LEMMA DivModIs ==
  ASSUME NEW u \in Nat, u > 0, NEW a \in Nat, NEW b \in 0..u-1
  PROVE  (a * u + b) \div u = a /\ (a * u + b) % u = b
<1> DEFINE n == a * u + b
           q == n \div u
           r == n % u
<1>1. n \in Nat
  OBVIOUS
<1>2. q \in Nat /\ r \in 0..u-1 /\ n = q * u + r
  <2> HIDE DEF n
  <2>1. QED
    BY <1>1
<1>3. a * u + b = q * u + r
  BY <1>2
<1> HIDE DEF q, r, n
<1>4. ~(a < q)
  <2>1. SUFFICES ASSUME a + 1 <= q PROVE FALSE
    BY <1>2
  <2>2. (a + 1) * u <= q * u
    BY <1>2, <2>1
  <2>3. QED
    BY <1>2, <1>3, <2>2
<1>5. ~(q < a)
  <2>1. SUFFICES ASSUME q + 1 <= a PROVE FALSE
    BY <1>2
  <2>2. (q + 1) * u <= a * u
    BY <1>2, <2>1
  <2>3. QED
    BY <1>2, <1>3, <2>2
<1>6. q = a
  BY <1>2, <1>4, <1>5
<1>7. r = b
  BY <1>2, <1>3, <1>6
<1>8. QED
  BY <1>6, <1>7 DEF q, r, n

(* Pixel i of a rectangle of w columns and h rows is in column i % w of row *)
(* i \div w, and every place of the rectangle is that of one pixel.         *)
LEMMA Split ==
  ASSUME NEW w \in Nat, w > 0, NEW i \in Nat
  PROVE  i \div w \in Nat /\ i % w \in 0..w-1 /\ i = (i \div w) * w + (i % w)
OBVIOUS

LEMMA InGrid ==
  ASSUME NEW w \in Nat, w > 0, NEW h \in Nat, NEW i \in 0..w*h-1
  PROVE  i \div w \in 0..h-1 /\ i % w \in 0..w-1 /\ i = (i \div w) * w + (i % w)
<1> DEFINE a == i \div w
           b == i % w
<1>1. a \in Nat /\ b \in 0..w-1 /\ i = a * w + b
  BY Split
<1>2. i < w * h
  OBVIOUS
<1> HIDE DEF a, b
<1>3. ~(h <= a)
  <2>1. SUFFICES ASSUME h <= a PROVE FALSE
    OBVIOUS
  <2>2. h * w <= a * w
    BY <1>1, <2>1
  <2>3. QED
    BY <1>1, <1>2, <2>2
<1>4. a \in 0..h-1
  BY <1>1, <1>3
<1>5. QED
  BY <1>1, <1>4 DEF a, b

LEMMA GridIn ==
  ASSUME NEW w \in Nat, w > 0, NEW h \in Nat, NEW a \in 0..w-1, NEW b \in 0..h-1
  PROVE  /\ b * w + a \in 0..w*h-1
         /\ (b * w + a) % w = a /\ (b * w + a) \div w = b
<1>1. b * w + w <= w * h
  <2>1. (b + 1) * w <= h * w
    OBVIOUS
  <2>2. QED
    BY <2>1
<1>2. b * w \in Nat
  OBVIOUS
<1>3. b * w + a \in 0..w*h-1
  BY <1>1, <1>2
<1>4. QED
  BY <1>3, DivModIs

(* Pixels of f bytes within rows of a pitch of p lie apart.                 *)
LEMMA RowsApart ==
  ASSUME NEW p \in Nat, NEW f \in Nat, f > 0, NEW x1 \in Nat, NEW x2 \in Nat, NEW y1 \in Int, NEW y2 \in Int,
         x1 * f + f <= p, x2 * f + f <= p, y1 * p + x1 * f = y2 * p + x2 * f
  PROVE  x1 = x2 /\ y1 = y2
<1> DEFINE a1 == x1 * f
           a2 == x2 * f
<1>1. a1 \in Nat /\ a2 \in Nat
  OBVIOUS
<1>2. ~(y1 < y2)
  <2>1. SUFFICES ASSUME y1 + 1 <= y2 PROVE FALSE
    OBVIOUS
  <2>2. (y1 + 1) * p <= y2 * p
    BY <2>1
  <2> HIDE DEF a1, a2
  <2>3. y1 * p + p <= y2 * p
    BY <2>2
  <2>4. QED
    BY <1>1, <2>3 DEF a1, a2
<1>3. ~(y2 < y1)
  <2>1. SUFFICES ASSUME y2 + 1 <= y1 PROVE FALSE
    OBVIOUS
  <2>2. (y2 + 1) * p <= y1 * p
    BY <2>1
  <2>3. y2 * p + p <= y1 * p
    BY <2>2
  <2>4. QED
    BY <1>1, <2>3 DEF a1, a2
<1>4. y1 = y2
  BY <1>2, <1>3
<1>5. a1 = a2
  BY <1>4
<1>6. ~(x1 < x2)
  <2>1. SUFFICES ASSUME x1 + 1 <= x2 PROVE FALSE
    OBVIOUS
  <2>2. (x1 + 1) * f <= x2 * f
    BY <2>1
  <2>3. QED
    BY <1>5, <2>2
<1>7. ~(x2 < x1)
  <2>1. SUFFICES ASSUME x2 + 1 <= x1 PROVE FALSE
    OBVIOUS
  <2>2. (x2 + 1) * f <= x1 * f
    BY <2>1
  <2>3. QED
    BY <1>5, <2>2
<1>8. QED
  BY <1>4, <1>6, <1>7

------------------------------------------------------------------------------
(* The byte order of a pixel is turned plane by plane, and turned twice it  *)
(* is as it was: what the engine combines in its own order is what would    *)
(* have been combined in the processor's.                                   *)
Turned(b) == Top - ByteBits + 1 - ByteBits * (b \div ByteBits) + (b % ByteBits)

LEMMA TurnedTwice ==
  ASSUME NEW b \in Plane
  PROVE  Turned(b) \in Plane /\ Turned(Turned(b)) = b
<1> DEFINE u == ByteBits
           k == (Top + 1) \div u
           a == b \div u
           r == b % u
           z == k - 1 - a
<1>1. u \in Nat /\ u > 0 /\ Top \in Nat /\ b \in 0..Top
  BY Granules, PlaneAssumption
<1>2. k \in Nat /\ Top + 1 = k * u
  <2>1. (Top + 1) % u = 0
    BY PlaneAssumption
  <2>2. k \in Nat /\ Top + 1 = k * u + ((Top + 1) % u)
    BY <1>1, Split
  <2> HIDE DEF k
  <2>3. QED
    BY <1>1, <2>1, <2>2
<1>3. a \in Nat /\ r \in 0..u-1 /\ b = a * u + r
  BY <1>1, Split
<1> HIDE DEF u, k, a, r
<1>4. a < k
  <2>1. SUFFICES ASSUME k <= a PROVE FALSE
    BY <1>2, <1>3
  <2>2. k * u <= a * u
    BY <1>1, <1>2, <1>3, <2>1
  <2>3. QED
    BY <1>1, <1>2, <1>3, <2>2
<1>5. z \in Nat /\ z * u = k * u - u - a * u
  BY <1>1, <1>2, <1>3, <1>4
<1>6. Turned(b) = z * u + r
  <2>1. Turned(b) = Top - u + 1 - u * a + r
    BY Zenon DEF Turned, u, a, r
  <2>2. QED
    BY <1>1, <1>2, <1>3, <1>5, <2>1
<1>7. Turned(b) \in Plane
  <2>1. (z + 1) * u <= k * u
    BY <1>1, <1>2, <1>3, <1>4, <1>5
  <2>2. z * u + u <= k * u
    BY <1>1, <1>5, <2>1
  <2>3. z * u + r \in 0..Top
    BY <1>1, <1>2, <1>3, <1>5, <2>2
  <2>4. QED
    BY <1>6, <2>3, PlaneAssumption
<1>8. (z * u + r) \div u = z /\ (z * u + r) % u = r
  BY <1>1, <1>3, <1>5, DivModIs
<1>9. Turned(Turned(b)) = b
  <2> DEFINE t == Turned(b)
  <2>1. t \div u = z /\ t % u = r
    BY <1>6, <1>8
  <2>2. Turned(t) = Top - u + 1 - u * (t \div u) + (t % u)
    BY Zenon DEF Turned, u
  <2>3. Turned(t) = Top - u + 1 - u * z + r
    BY <2>1, <2>2
  <2>4. QED
    BY <1>1, <1>2, <1>3, <1>5, <2>3
<1>10. QED
  BY <1>7, <1>9

LEMMA SwappedBits ==
  ASSUME NEW X \in SUBSET Plane
  PROVE  Swapped(X) \subseteq Plane /\ \A b \in Plane : b \in Swapped(X) <=> Turned(b) \in X
<1>1. Swapped(X) = {Turned(b) : b \in X}
  BY DEF Swapped, Turned
<1>2. QED
  BY <1>1, TurnedTwice

\* The plane of the processor's pixel that is plane b of the engine's.
OfPlane(b, f) == IF f = 1 THEN b ELSE Turned(b)

LEMMA OfPlaneIs ==
  ASSUME NEW b \in Plane, NEW f
  PROVE  OfPlane(b, f) \in Plane /\ OfPlane(OfPlane(b, f), f) = b
BY TurnedTwice DEF OfPlane

LEMMA PenBits ==
  ASSUME NEW X \in SUBSET Plane, NEW f
  PROVE  HardwarePen(X, f) \subseteq Plane /\ \A b \in Plane : b \in HardwarePen(X, f) <=> OfPlane(b, f) \in X
BY SwappedBits DEF HardwarePen, OfPlane

LEMMA RopInside ==
  ASSUME NEW code, NEW P, NEW S, NEW D
  PROVE  Rop3(code, P, S, D) \subseteq Plane
BY DEF Rop3

\* What the code makes of a plane that is or is not in pattern, source and destination.
RopBit(code, p, s, d) ==
  LET n == (IF p THEN 4 ELSE 0) + (IF s THEN 2 ELSE 0) + (IF d THEN 1 ELSE 0)
  IN (code \div 2^n) % 2 = 1

LEMMA RopBits ==
  ASSUME NEW code, NEW P, NEW S, NEW D, NEW b \in Plane
  PROVE  b \in Rop3(code, P, S, D) <=> RopBit(code, b \in P, b \in S, b \in D)
BY DEF Rop3, RopBit

LEMMA RopTurns ==
  ASSUME NEW code, NEW P \in SUBSET Plane, NEW S \in SUBSET Plane, NEW D \in SUBSET Plane, NEW f
  PROVE  HardwarePen(Rop3(code, HardwarePen(P, f), HardwarePen(S, f), HardwarePen(D, f)), f) = Rop3(code, P, S, D)
<1> DEFINE R == Rop3(code, HardwarePen(P, f), HardwarePen(S, f), HardwarePen(D, f))
           H == HardwarePen(R, f)
           Q == Rop3(code, P, S, D)
<1>1. R \subseteq Plane /\ Q \subseteq Plane
  BY RopInside
<1>2. H \subseteq Plane /\ \A b \in Plane : b \in H <=> OfPlane(b, f) \in R
  BY <1>1, PenBits
<1>3. ASSUME NEW b \in Plane PROVE b \in H <=> b \in Q
  <2> DEFINE t == OfPlane(b, f)
  <2>1. t \in Plane /\ OfPlane(t, f) = b
    BY OfPlaneIs
  <2>2. b \in H <=> t \in R
    BY <1>2
  <2> HIDE DEF t, H
  <2>3. /\ t \in HardwarePen(P, f) <=> b \in P
        /\ t \in HardwarePen(S, f) <=> b \in S
        /\ t \in HardwarePen(D, f) <=> b \in D
    BY <2>1, PenBits
  <2>4. t \in R <=> RopBit(code, t \in HardwarePen(P, f), t \in HardwarePen(S, f), t \in HardwarePen(D, f))
    BY <2>1, RopBits
  <2>5. b \in Q <=> RopBit(code, b \in P, b \in S, b \in D)
    BY RopBits
  <2>6. RopBit(code, t \in HardwarePen(P, f), t \in HardwarePen(S, f), t \in HardwarePen(D, f))
          <=> RopBit(code, b \in P, b \in S, b \in D)
    BY <2>3 DEF RopBit
  <2>7. QED
    BY <2>2, <2>4, <2>5, <2>6
<1> HIDE DEF H, Q
<1>4. H = Q
  BY <1>1, <1>2, <1>3
<1>5. QED
  BY <1>4 DEF H, Q

(* What the codes that are used mean.                                       *)
LEMMA Powers ==
  /\ 2^0 = 1 /\ 2^1 = 2 /\ 2^2 = 4 /\ 2^3 = 8 /\ 2^4 = 16 /\ 2^5 = 32 /\ 2^6 = 64 /\ 2^7 = 128
OBVIOUS

LEMMA OneOfEight ==
  ASSUME NEW n \in 0..7, NEW m, n = 0 => m = 1, n = 1 => m = 2, n = 2 => m = 4, n = 3 => m = 8,
         n = 4 => m = 16, n = 5 => m = 32, n = 6 => m = 64, n = 7 => m = 128
  PROVE  \/ (n = 0 /\ m = 1) \/ (n = 1 /\ m = 2) \/ (n = 2 /\ m = 4) \/ (n = 3 /\ m = 8)
         \/ (n = 4 /\ m = 16) \/ (n = 5 /\ m = 32) \/ (n = 6 /\ m = 64) \/ (n = 7 /\ m = 128)
OBVIOUS

LEMMA PowerOf ==
  ASSUME NEW n \in 0..7
  PROVE  \/ (n = 0 /\ 2^n = 1) \/ (n = 1 /\ 2^n = 2) \/ (n = 2 /\ 2^n = 4) \/ (n = 3 /\ 2^n = 8)
         \/ (n = 4 /\ 2^n = 16) \/ (n = 5 /\ 2^n = 32) \/ (n = 6 /\ 2^n = 64) \/ (n = 7 /\ 2^n = 128)
<1> DEFINE m == 2^n
<1>2. n = 0 => m = 1
  <2>1. n = 0 => m = 2^0
    BY Zenon
  <2>2. QED
    BY <2>1, Powers, Zenon
<1>3. n = 1 => m = 2
  <2>1. n = 1 => m = 2^1
    BY Zenon
  <2>2. QED
    BY <2>1, Powers, Zenon
<1>4. n = 2 => m = 4
  <2>1. n = 2 => m = 2^2
    BY Zenon
  <2>2. QED
    BY <2>1, Powers, Zenon
<1>5. n = 3 => m = 8
  <2>1. n = 3 => m = 2^3
    BY Zenon
  <2>2. QED
    BY <2>1, Powers, Zenon
<1>6. n = 4 => m = 16
  <2>1. n = 4 => m = 2^4
    BY Zenon
  <2>2. QED
    BY <2>1, Powers, Zenon
<1>7. n = 5 => m = 32
  <2>1. n = 5 => m = 2^5
    BY Zenon
  <2>2. QED
    BY <2>1, Powers, Zenon
<1>8. n = 6 => m = 64
  <2>1. n = 6 => m = 2^6
    BY Zenon
  <2>2. QED
    BY <2>1, Powers, Zenon
<1>9. n = 7 => m = 128
  <2>1. n = 7 => m = 2^7
    BY Zenon
  <2>2. QED
    BY <2>1, Powers, Zenon
<1> HIDE DEF m
<1>10. \/ (n = 0 /\ m = 1) \/ (n = 1 /\ m = 2) \/ (n = 2 /\ m = 4) \/ (n = 3 /\ m = 8)
       \/ (n = 4 /\ m = 16) \/ (n = 5 /\ m = 32) \/ (n = 6 /\ m = 64) \/ (n = 7 /\ m = 128)
  BY <1>2, <1>3, <1>4, <1>5, <1>6, <1>7, <1>8, <1>9, OneOfEight
<1>11. QED
  BY <1>10, Zenon DEF m

LEMMA RopPattern ==
  ASSUME NEW P \in SUBSET Plane, NEW S, NEW D
  PROVE  Rop3(ROP3_P, P, S, D) = P
<1> DEFINE Q == Rop3(ROP3_P, P, S, D)
<1>1. Q \subseteq Plane
  BY RopInside
<1>2. ASSUME NEW b \in Plane PROVE b \in Q <=> b \in P
  <2> DEFINE n == (IF b \in P THEN 4 ELSE 0) + (IF b \in S THEN 2 ELSE 0) + (IF b \in D THEN 1 ELSE 0)
             m == 2^n
  <2>1. n \in 0..7 /\ (n >= 4 <=> b \in P)
    OBVIOUS
  <2>2. b \in Q <=> (240 \div m) % 2 = 1
    BY Zenon DEF Rop3, ROP3_P
  <2> HIDE DEF n, Q
  <2>3. \/ (n = 0 /\ m = 1) \/ (n = 1 /\ m = 2) \/ (n = 2 /\ m = 4) \/ (n = 3 /\ m = 8)
        \/ (n = 4 /\ m = 16) \/ (n = 5 /\ m = 32) \/ (n = 6 /\ m = 64) \/ (n = 7 /\ m = 128)
    BY <2>1, PowerOf, Zenon
  <2> HIDE DEF m
  <2>4. (240 \div m) % 2 = 1 <=> n >= 4
    BY <2>3
  <2>5. QED
    BY <2>1, <2>2, <2>4
<1>3. QED
  BY <1>1, <1>2

LEMMA RopSource ==
  ASSUME NEW P, NEW S \in SUBSET Plane, NEW D
  PROVE  Rop3(ROP3_S, P, S, D) = S
<1> DEFINE Q == Rop3(ROP3_S, P, S, D)
<1>1. Q \subseteq Plane
  BY RopInside
<1>2. ASSUME NEW b \in Plane PROVE b \in Q <=> b \in S
  <2> DEFINE n == (IF b \in P THEN 4 ELSE 0) + (IF b \in S THEN 2 ELSE 0) + (IF b \in D THEN 1 ELSE 0)
             m == 2^n
  <2>1. n \in 0..7 /\ (n \in {2, 3, 6, 7} <=> b \in S)
    OBVIOUS
  <2>2. b \in Q <=> (204 \div m) % 2 = 1
    BY Zenon DEF Rop3, ROP3_S
  <2> HIDE DEF n, Q
  <2>3. \/ (n = 0 /\ m = 1) \/ (n = 1 /\ m = 2) \/ (n = 2 /\ m = 4) \/ (n = 3 /\ m = 8)
        \/ (n = 4 /\ m = 16) \/ (n = 5 /\ m = 32) \/ (n = 6 /\ m = 64) \/ (n = 7 /\ m = 128)
    BY <2>1, PowerOf, Zenon
  <2> HIDE DEF m
  <2>4. (204 \div m) % 2 = 1 <=> n \in {2, 3, 6, 7}
    BY <2>3
  <2>5. QED
    BY <2>1, <2>2, <2>4
<1>3. QED
  BY <1>1, <1>2

LEMMA RopInverts ==
  ASSUME NEW P, NEW S, NEW D
  PROVE  Rop3(ROP3_Dn, P, S, D) = Plane \ D
<1> DEFINE Q == Rop3(ROP3_Dn, P, S, D)
<1>1. Q \subseteq Plane
  BY RopInside
<1>2. ASSUME NEW b \in Plane PROVE b \in Q <=> ~(b \in D)
  <2> DEFINE n == (IF b \in P THEN 4 ELSE 0) + (IF b \in S THEN 2 ELSE 0) + (IF b \in D THEN 1 ELSE 0)
             m == 2^n
  <2>1. n \in 0..7 /\ (n \in {0, 2, 4, 6} <=> ~(b \in D))
    OBVIOUS
  <2>2. b \in Q <=> (85 \div m) % 2 = 1
    BY Zenon DEF Rop3, ROP3_Dn
  <2> HIDE DEF n, Q
  <2>3. \/ (n = 0 /\ m = 1) \/ (n = 1 /\ m = 2) \/ (n = 2 /\ m = 4) \/ (n = 3 /\ m = 8)
        \/ (n = 4 /\ m = 16) \/ (n = 5 /\ m = 32) \/ (n = 6 /\ m = 64) \/ (n = 7 /\ m = 128)
    BY <2>1, PowerOf, Zenon
  <2> HIDE DEF m
  <2>4. (85 \div m) % 2 = 1 <=> n \in {0, 2, 4, 6}
    BY <2>3
  <2>5. QED
    BY <2>1, <2>2, <2>4
<1>3. QED
  BY <1>1, <1>2

------------------------------------------------------------------------------
(* Drawing, where no pixel is painted twice and none is read after it was   *)
(* painted: what comes of each is a matter of what was there before, in     *)
(* whatever order they are painted.                                         *)
Spots(c, at, size, bits) ==
  {i \in 0..size[1]*size[2]-1 : Shown(c, Column(c, at, size, i), Row(c, at, size, i), One(bits, size, i))}
Became(c, mem, size, from, bits, i, old) ==
  Combined(c, One(bits, size, i),
           IF c.regs.master[1] = "copy" THEN mem[AddressAt(c, c.regs.src, from, size, i)] ELSE {}, old)

LEMMA MaxOfOne ==
  ASSUME NEW n \in Int
  PROVE  Max({n}) = n
BY DEF Max

Foreseen(c, mem, at, size, from, bits) ==
  /\ size[1] * size[2] \in Nat /\ \A r \in Needed(c.regs.master[1]) : c.regs[r] # Unknown
  /\ \A i \in Spots(c, at, size, bits) : AddressAt(c, c.regs.dst, at, size, i) \in DOMAIN mem
  /\ \A i, j \in Spots(c, at, size, bits) :
       AddressAt(c, c.regs.dst, at, size, i) = AddressAt(c, c.regs.dst, at, size, j) => i = j
  /\ c.regs.master[1] = "copy" =>
       \A i \in Spots(c, at, size, bits) :
         /\ AddressAt(c, c.regs.src, from, size, i) \in DOMAIN mem
         /\ \A j \in Spots(c, at, size, bits) :
              j < i => AddressAt(c, c.regs.dst, at, size, j) # AddressAt(c, c.regs.src, from, size, i)

PaintedAs(c, mem, at, size, from, bits, P) ==
  /\ P = [a \in DOMAIN mem |-> P[a]]
  /\ \A i \in Spots(c, at, size, bits) :
       P[AddressAt(c, c.regs.dst, at, size, i)] =
         Became(c, mem, size, from, bits, i, mem[AddressAt(c, c.regs.dst, at, size, i)])
  /\ \A a \in DOMAIN mem :
       (\A i \in Spots(c, at, size, bits) : AddressAt(c, c.regs.dst, at, size, i) # a) => P[a] = mem[a]

LEMMA PaintedPixels ==
  ASSUME NEW c, NEW mem, NEW at, NEW size, NEW from, NEW bits, Foreseen(c, mem, at, size, from, bits),
         NEW P, P = Paint(c, mem, at, size, from, bits)
  PROVE  PaintedAs(c, mem, at, size, from, bits, P)
<1> DEFINE n == size[1] * size[2]
           copy == c.regs.master[1] = "copy"
           D(i) == AddressAt(c, c.regs.dst, at, size, i)
           S(i) == AddressAt(c, c.regs.src, from, size, i)
           In(i) == Shown(c, Column(c, at, size, i), Row(c, at, size, i), One(bits, size, i))
           J(a, i) == {j \in 0..i-1 : In(j) /\ D(j) = a}
           Seen(val, a, i) ==
             IF J(a, i) # {} THEN val[Max(J(a, i))] ELSE IF a \in DOMAIN mem THEN mem[a] ELSE {}
           Body(val, i) ==
             Combined(c, One(bits, size, i), IF copy THEN Seen(val, S(i), i) ELSE {}, Seen(val, D(i), i))
           Rec(v) == v = [i \in 0..n-1 |-> Body(v, i)]
           V == CHOOSE v : Rec(v)
           Sp == Spots(c, at, size, bits)
           New(i) == Became(c, mem, size, from, bits, i, mem[D(i)])
<1>1. P = IF \/ \E r \in Needed(c.regs.master[1]) : c.regs[r] = Unknown
             \/ \E i \in 0..n-1 : In(i) /\ D(i) \notin DOMAIN mem
          THEN <<>>
          ELSE [a \in DOMAIN mem |-> Seen(V, a, n)]
  BY Zenon DEF Paint
<1>2. n \in Nat /\ Sp = {i \in 0..n-1 : In(i)} /\ \A r \in Needed(c.regs.master[1]) : c.regs[r] # Unknown
  BY DEF Spots, Foreseen
<1>3. \A i \in Sp : D(i) \in DOMAIN mem
  BY DEF Foreseen
<1>4. P = [a \in DOMAIN mem |-> Seen(V, a, n)]
  <2> HIDE DEF V, Seen, Sp, In
  <2>1. QED
    BY <1>1, <1>2, <1>3
<1>5. \A i, j \in Sp : D(i) = D(j) => i = j
  BY DEF Foreseen
<1>6. copy => \A i \in Sp : S(i) \in DOMAIN mem /\ \A j \in Sp : j < i => D(j) # S(i)
  BY DEF Foreseen
<1>7. \A i \in Sp : New(i) = Combined(c, One(bits, size, i), IF copy THEN mem[S(i)] ELSE {}, mem[D(i)])
  BY DEF Became
<1> HIDE DEF D, S, In, Sp, New, n
\* What is seen before pixel i is what was there.
<1>8. ASSUME NEW i \in Sp, NEW v PROVE Body(v, i) = New(i)
  <2>1. i \in 0..n-1 /\ \A j \in 0..i-1 : j \in 0..n-1 /\ j < i /\ j # i
    BY <1>2
  <2>2. J(D(i), i) = {}
    <3>1. ASSUME NEW j \in 0..i-1, In(j), D(j) = D(i) PROVE FALSE
      BY <1>2, <1>5, <2>1, <3>1
    <3>2. QED
      BY <3>1
  <2>3. Seen(v, D(i), i) = mem[D(i)]
    BY <1>3, <2>2
  <2>4. copy => Seen(v, S(i), i) = mem[S(i)]
    <3>1. SUFFICES ASSUME copy PROVE J(S(i), i) = {}
      BY <1>6
    <3>2. ASSUME NEW j \in 0..i-1, In(j), D(j) = S(i) PROVE FALSE
      BY <1>2, <1>6, <2>1, <3>1, <3>2
    <3>3. QED
      BY <3>2
  <2> HIDE DEF Seen
  <2>5. QED
    BY <1>7, <2>3, <2>4
\* The walk is well defined: only what was painted is looked up.
<1>9. \E v : Rec(v)
  <2> DEFINE g0 == [i \in 0..n-1 |-> New(i)]
             g == [i \in 0..n-1 |-> Body(g0, i)]
  <2>1. \A j \in Sp : g[j] = g0[j]
    <3> HIDE DEF Body
    <3>1. QED
      BY <1>2, <1>8
  <2>2. ASSUME NEW a, NEW i \in 0..n-1 PROVE Seen(g, a, i) = Seen(g0, a, i)
    <3>1. CASE J(a, i) = {}
      BY <3>1
    <3>2. CASE J(a, i) # {}
      <4>1. PICK j \in 0..i-1 : In(j) /\ D(j) = a
        BY <3>2
      <4>2. j \in Sp
        BY <1>2, <4>1
      <4>3. J(a, i) = {j}
        <5>1. \A k \in J(a, i) : k \in Sp /\ D(k) = D(j)
          BY <1>2, <4>1
        <5>2. \A k \in J(a, i) : k = j
          BY <1>5, <4>2, <5>1
        <5>3. QED
          BY <4>1, <5>2
      <4>4. Max(J(a, i)) = j
        BY <4>3, MaxOfOne
      <4> HIDE DEF g, g0
      <4>5. QED
        BY <2>1, <3>2, <4>2, <4>4
    <3>3. QED
      BY <3>1, <3>2
  <2>3. \A i \in 0..n-1 : Body(g, i) = Body(g0, i)
    <3> HIDE DEF Seen, g, g0
    <3>1. QED
      BY <2>2
  <2>4. g = [i \in 0..n-1 |-> Body(g, i)]
    <3> DEFINE h == [i \in 0..n-1 |-> Body(g, i)]
    <3>1. \A i \in 0..n-1 : g[i] = h[i]
      <4> HIDE DEF Body, g0
      <4>1. QED
        BY <2>3
    <3> HIDE DEF Body
    <3>2. QED
      BY <3>1
  <2>5. Rec(g)
    BY <2>4
  <2> HIDE DEF Rec, g
  <2>6. QED
    BY <2>5
<1>10. Rec(V)
  <2> HIDE DEF Rec
  <2>1. QED
    BY <1>9, Zenon
<1>11. \A i \in Sp : V[i] = New(i)
  <2>1. \A i \in 0..n-1 : V[i] = Body(V, i)
    <3> HIDE DEF V, Body
    <3>1. QED
      BY <1>10
  <2> HIDE DEF V, Body
  <2>2. QED
    BY <1>2, <1>8, <2>1
<1> HIDE DEF V
<1>12. ASSUME NEW i \in Sp PROVE P[D(i)] = New(i)
  <2>1. J(D(i), n) = {i}
    <3>1. i \in J(D(i), n)
      BY <1>2
    <3>2. \A j \in J(D(i), n) : j = i
      BY <1>2, <1>5
    <3>3. QED
      BY <3>1, <3>2
  <2>2. Max(J(D(i), n)) = i
    BY <1>2, <2>1, MaxOfOne
  <2>3. Seen(V, D(i), n) = V[i]
    BY <2>1, <2>2
  <2> HIDE DEF Seen
  <2>4. P[D(i)] = Seen(V, D(i), n)
    BY <1>3, <1>4
  <2>5. QED
    BY <1>11, <2>3, <2>4
<1>13. ASSUME NEW a \in DOMAIN mem, \A i \in Sp : D(i) # a PROVE P[a] = mem[a]
  <2>1. J(a, n) = {}
    BY <1>2, <1>13
  <2>2. Seen(V, a, n) = mem[a]
    BY <2>1
  <2> HIDE DEF Seen
  <2>3. QED
    BY <1>4, <2>2
<1>14. P = [a \in DOMAIN mem |-> P[a]]
  <2> HIDE DEF Seen
  <2>1. QED
    BY <1>4
<1>15. QED
  BY <1>12, <1>13, <1>14 DEF D, New, Sp, PaintedAs
------------------------------------------------------------------------------
(* A rectangle of a bitmap that validation found good: where its pixels are *)
(* is where the engine has them.                                            *)
Sited(s, r, q, f) ==
  /\ f \in {1, 2, 4} /\ r.memory \in Nat /\ r.pitch \in Nat /\ r.pitch > 0
  /\ q[1] \in Nat /\ q[2] \in Nat /\ q[3] \in Nat /\ q[4] \in Nat /\ q[3] > 0 /\ q[4] > 0
  /\ (q[1] + q[3]) * f <= r.pitch
  /\ r.memory + LastByte(r, q[1], q[2], q[3], q[4], f) <= Aperture
  /\ ((r.memory % BaseAlign) % r.pitch) % f = 0
  /\ s.po = <<r.pitch, r.memory - (r.memory % BaseAlign)>> /\ s.bias = Bias(r, f)
  /\ s.bias[1] + q[1] + q[3] - 1 <= MaxCoord /\ s.bias[2] + q[2] + q[4] - 1 <= MaxCoord
  /\ Aligned(s.po)

LEMMA PixelAddress ==
  ASSUME NEW s, NEW r, NEW q, NEW f, Sited(s, r, q, f), NEW x \in Int, NEW y \in Int
  PROVE  /\ s.bias[1] \in Nat /\ s.bias[2] \in Nat
         /\ Address(s.po, x + s.bias[1], y + s.bias[2], f) = Pixel(r, f, x, y)
<1> DEFINE p == r.pitch
           m == r.memory
           k == m % BaseAlign
           b2 == k \div p
           k1 == k % p
           b1 == k1 \div f
<1>1. p \in Nat /\ p > 0 /\ m \in Nat /\ f \in Nat /\ f > 0 /\ k1 % f = 0
  BY DEF Sited
<1>2. k \in Nat
  BY <1>1, Granules
<1>3. s.bias[1] = b1 /\ s.bias[2] = b2 /\ s.po[1] = p /\ s.po[2] = m - k
  BY DEF Sited, Bias
<1> HIDE DEF p, m
<1>4. b2 \in Nat /\ k1 \in Nat /\ k = b2 * p + k1
  <2> HIDE DEF k
  <2>1. QED
    BY <1>1, <1>2, Split
<1>5. b1 \in Nat /\ k1 = b1 * f
  <2> HIDE DEF k1
  <2>1. QED
    BY <1>1, <1>4, Split
<1> HIDE DEF k, k1, b1, b2
<1>6. Address(s.po, x + b1, y + b2, f) = m - k + (y + b2) * p + (x + b1) * f
  BY <1>3 DEF Address
<1>7. (y + b2) * p = y * p + b2 * p /\ (x + b1) * f = x * f + b1 * f
  BY <1>1, <1>4, <1>5
<1>8. y * p \in Int /\ b2 * p \in Int /\ x * f \in Int /\ b1 * f \in Int
  BY <1>1, <1>4, <1>5
<1>9. Address(s.po, x + b1, y + b2, f) = m + y * p + x * f
  BY <1>1, <1>2, <1>4, <1>5, <1>6, <1>7, <1>8
<1>10. QED
  BY <1>3, <1>4, <1>5, <1>9 DEF Pixel, p, m

(* Pixels of the rectangle lie apart and in the aperture.                   *)
LEMMA PixelIs ==
  ASSUME NEW s, NEW r, NEW q, NEW f, Sited(s, r, q, f), NEW i \in 0..q[3]-1, NEW j \in 0..q[4]-1
  PROVE  Pixel(r, f, q[1] + i, q[2] + j) \in 0..Aperture-1
<1> DEFINE p == r.pitch
           m == r.memory
           x == q[1] + i
           y == q[2] + j
           e == q[1] + q[3]
           l == q[2] + q[4] - 1
<1>1. /\ p \in Nat /\ m \in Nat /\ f \in Nat /\ f > 0 /\ x \in Nat /\ y \in Nat /\ e \in Nat /\ l \in Nat
      /\ x + 1 <= e /\ y <= l
  BY DEF Sited
<1>2. m + (l * p + e * f) <= Aperture
  BY DEF Sited, LastByte
<1>3. Pixel(r, f, q[1] + i, q[2] + j) = m + y * p + x * f
  BY DEF Pixel
<1> HIDE DEF p, m, x, y, e, l
<1>4. y * p <= l * p /\ (x + 1) * f <= e * f /\ (x + 1) * f = x * f + f
  BY <1>1
<1>5. y * p \in Nat /\ x * f \in Nat /\ l * p \in Nat /\ e * f \in Nat
  BY <1>1
<1>6. QED
  BY <1>1, <1>2, <1>3, <1>4, <1>5, Granules

LEMMA PixelsApart ==
  ASSUME NEW s, NEW r, NEW q, NEW f, Sited(s, r, q, f),
         NEW i \in 0..q[3]-1, NEW j \in 0..q[4]-1, NEW k \in 0..q[3]-1, NEW l \in 0..q[4]-1,
         Pixel(r, f, q[1] + i, q[2] + j) = Pixel(r, f, q[1] + k, q[2] + l)
  PROVE  i = k /\ j = l
<1> DEFINE p == r.pitch
           m == r.memory
           x1 == q[1] + i
           x2 == q[1] + k
           y1 == q[2] + j
           y2 == q[2] + l
           e == q[1] + q[3]
<1>1. /\ p \in Nat /\ m \in Nat /\ f \in Nat /\ f > 0 /\ x1 \in Nat /\ x2 \in Nat /\ y1 \in Int /\ y2 \in Int
      /\ e \in Nat /\ x1 + 1 <= e /\ x2 + 1 <= e /\ e * f <= p
  BY DEF Sited
<1>2. m + y1 * p + x1 * f = m + y2 * p + x2 * f
  BY DEF Pixel
<1>3. QED
  <2> HIDE DEF p, m, x1, x2, y1, y2, e
  <2>1. (x1 + 1) * f <= e * f /\ (x1 + 1) * f = x1 * f + f /\ (x2 + 1) * f <= e * f /\ (x2 + 1) * f = x2 * f + f
    BY <1>1
  <2>2. x1 * f \in Nat /\ x2 * f \in Nat /\ y1 * p \in Int /\ y2 * p \in Int /\ e * f \in Nat
    BY <1>1
  <2>3. x1 * f + f <= p /\ x2 * f + f <= p /\ y1 * p + x1 * f = y2 * p + x2 * f
    BY <1>1, <1>2, <2>1, <2>2
  <2>4. x1 = x2 /\ y1 = y2
    BY <1>1, <2>3, RowsApart
  <2>5. i \in Int /\ j \in Int /\ k \in Int /\ l \in Int /\ q[1] \in Int /\ q[2] \in Int
    BY DEF Sited
  <2>6. QED
    BY <2>4, <2>5 DEF x1, x2, y1, y2

\* Where in the rectangle Asked finds an address.
Place(r, f, q, a) ==
  CHOOSE ij \in (0..q[3]-1) \X (0..q[4]-1) : Pixel(r, f, q[1] + ij[1], q[2] + ij[2]) = a

LEMMA PlaceIs ==
  ASSUME NEW s, NEW r, NEW q, NEW f, Sited(s, r, q, f), NEW i \in 0..q[3]-1, NEW j \in 0..q[4]-1,
         NEW a, a = Pixel(r, f, q[1] + i, q[2] + j)
  PROVE  Place(r, f, q, a)[1] = i /\ Place(r, f, q, a)[2] = j
<1> DEFINE P(ij) == ij \in (0..q[3]-1) \X (0..q[4]-1) /\ Pixel(r, f, q[1] + ij[1], q[2] + ij[2]) = a
           ij == Place(r, f, q, a)
           here == <<i, j>>
<1>1. P(here)
  OBVIOUS
<1>2. ij = CHOOSE z : P(z)
  BY Zenon DEF Place
<1> HIDE DEF ij
<1>3. P(ij)
  <2> HIDE DEF P, here
  <2>1. QED
    BY <1>1, <1>2, Zenon
<1>4. ij[1] \in 0..q[3]-1 /\ ij[2] \in 0..q[4]-1 /\ Pixel(r, f, q[1] + ij[1], q[2] + ij[2]) = a
  BY <1>3
<1>5. ij[1] = i /\ ij[2] = j
  BY <1>4, PixelsApart
<1>6. QED
  BY <1>5 DEF ij
------------------------------------------------------------------------------
(* The engine set up to draw a rectangle of a bitmap from its first corner, *)
(* w columns wide where a stream fills up its last word, which the scissor  *)
(* cuts off.                                                                *)
SetUp(c, s, q, f, w) ==
  /\ c.regs.dst = s.po /\ c.regs.master[2] = f /\ c.regs.cntl = LeftToRight
  /\ c.regs.master[1] # "copy"
  /\ \A g \in Needed(c.regs.master[1]) : c.regs[g] # Unknown
  /\ w \in Nat /\ q[3] <= w
  /\ IF c.regs.master[1] \in Mono
     THEN /\ c.regs.tl = Origin(s, q[1], q[2])
          /\ c.regs.br = <<Origin(s, q[1], q[2])[1] + q[3], Origin(s, q[1], q[2])[2] + q[4]>>
     ELSE w = q[3]

Job(c, s, r, q, f, w, at, size) ==
  Sited(s, r, q, f) /\ SetUp(c, s, q, f, w) /\ at = Origin(s, q[1], q[2]) /\ size = <<w, q[4]>>

SpotAt(c, r, q, f, at, size, bits, i, j, n) ==
  /\ n \in 0..size[1]*size[2]-1 /\ n % size[1] = i /\ n \div size[1] = j
  /\ (One(bits, size, n) <=> bits[<<i, j>>] = 1)
  /\ AddressAt(c, c.regs.dst, at, size, n) = Pixel(r, f, q[1] + i, q[2] + j)
  /\ n \in Spots(c, at, size, bits) <=> (i < q[3] /\ (c.regs.master[1] \in Transparent => bits[<<i, j>>] = 1))

LEMMA SpotIs ==
  ASSUME NEW s, NEW r, NEW q, NEW f, NEW c, NEW w, NEW at, NEW size, Job(c, s, r, q, f, w, at, size), NEW bits,
         NEW i \in 0..w-1, NEW j \in 0..q[4]-1, NEW n, n = j * w + i
  PROVE  SpotAt(c, r, q, f, at, size, bits, i, j, n)
<1>0. Sited(s, r, q, f) /\ SetUp(c, s, q, f, w) /\ at = Origin(s, q[1], q[2]) /\ size = <<w, q[4]>>
  BY DEF Job
<1>1. w \in Nat /\ w > 0 /\ q[4] \in Nat /\ q[1] \in Nat /\ q[2] \in Nat /\ q[3] \in Nat /\ q[3] <= w
  BY <1>0 DEF Sited, SetUp
<1>2. n \in 0..w*q[4]-1 /\ n % w = i /\ n \div w = j
  BY <1>0, <1>1, GridIn
<1>3. size[1] = w /\ size[2] = q[4] /\ at[1] = q[1] + s.bias[1] /\ at[2] = q[2] + s.bias[2]
  BY <1>0 DEF Origin
<1>4. One(bits, size, n) <=> bits[<<i, j>>] = 1
  BY <1>0, <1>2, <1>3 DEF One
<1>5. Column(c, at, size, n) = at[1] + i /\ Row(c, at, size, n) = at[2] + j
  BY <1>0, <1>2, <1>3 DEF Column, Row, Walk, SetUp, LeftToRight
<1>6. s.bias[1] \in Nat /\ s.bias[2] \in Nat
      /\ Address(s.po, (q[1] + i) + s.bias[1], (q[2] + j) + s.bias[2], f) = Pixel(r, f, q[1] + i, q[2] + j)
  BY <1>0, <1>1, PixelAddress
<1>7. at[1] + i = (q[1] + i) + s.bias[1] /\ at[2] + j = (q[2] + j) + s.bias[2]
  BY <1>0, <1>1, <1>3, <1>6
<1>8. AddressAt(c, c.regs.dst, at, size, n) = Pixel(r, f, q[1] + i, q[2] + j)
  BY <1>0, <1>5, <1>6, <1>7 DEF AddressAt, SetUp, HardwareDatatype
<1>9. Shown(c, Column(c, at, size, n), Row(c, at, size, n), One(bits, size, n))
        <=> i < q[3] /\ (c.regs.master[1] \in Transparent => bits[<<i, j>>] = 1)
  <2>1. CASE c.regs.master[1] \in Mono
    <3>1. c.regs.tl[1] = at[1] /\ c.regs.tl[2] = at[2] /\ c.regs.br[1] = at[1] + q[3] /\ c.regs.br[2] = at[2] + q[4]
      BY <1>0, <2>1 DEF SetUp
    <3>2. /\ c.regs.tl[1] <= at[1] + i /\ c.regs.tl[2] <= at[2] + j /\ at[2] + j < c.regs.br[2]
          /\ (at[1] + i < c.regs.br[1] <=> i < q[3])
      BY <1>0, <1>1, <1>3, <1>6, <3>1
    <3>3. QED
      BY <1>0, <1>4, <1>5, <2>1, <3>2 DEF Shown
  <2>2. CASE c.regs.master[1] \notin Mono
    <3>1. i < q[3]
      BY <1>0, <2>2, <1>1 DEF SetUp
    <3>2. at[1] + i <= ScissorMax /\ at[2] + j <= ScissorMax
      BY <1>0, <1>1, <1>3, <1>6, <3>1, Granules DEF Sited, ScissorMax
    <3>3. QED
      BY <1>0, <1>4, <1>5, <2>2, <3>1, <3>2 DEF Shown
  <2>3. QED
    BY <1>0, <2>1, <2>2
<1>11. n \in 0..size[1]*size[2]-1
  BY <1>2, <1>3
<1>12. n \in Spots(c, at, size, bits) <=> (i < q[3] /\ (c.regs.master[1] \in Transparent => bits[<<i, j>>] = 1))
  BY <1>9, <1>11 DEF Spots
<1>10. QED
  BY <1>0, <1>2, <1>3, <1>4, <1>5, <1>8, <1>11, <1>12 DEF SpotAt

RectDrawn(c, r, q, f, bits, mem, P) ==
  /\ P = [a \in 0..Aperture-1 |-> P[a]]
  /\ \A i \in 0..q[3]-1, j \in 0..q[4]-1 :
       P[Pixel(r, f, q[1] + i, q[2] + j)] =
         IF c.regs.master[1] \in Transparent /\ bits[<<i, j>>] # 1 THEN mem[Pixel(r, f, q[1] + i, q[2] + j)]
         ELSE Combined(c, bits[<<i, j>>] = 1, {}, mem[Pixel(r, f, q[1] + i, q[2] + j)])
  /\ \A a \in 0..Aperture-1 :
       (\A i \in 0..q[3]-1, j \in 0..q[4]-1 : Pixel(r, f, q[1] + i, q[2] + j) # a) => P[a] = mem[a]

LEMMA RectPainted ==
  ASSUME NEW s, NEW r, NEW q, NEW f, NEW c, NEW w, NEW at, NEW size, Job(c, s, r, q, f, w, at, size), NEW bits,
         NEW from, NEW mem, DOMAIN mem = 0..Aperture-1, NEW P, P = Paint(c, mem, at, size, from, bits)
  PROVE  RectDrawn(c, r, q, f, bits, mem, P)
<1> DEFINE D(n) == AddressAt(c, c.regs.dst, at, size, n)
           Sp == Spots(c, at, size, bits)
           X(i, j) == Pixel(r, f, q[1] + i, q[2] + j)
           shown(i, j) == c.regs.master[1] \in Transparent => bits[<<i, j>>] = 1
           copy == c.regs.master[1] = "copy"
<1>0. Sited(s, r, q, f) /\ SetUp(c, s, q, f, w) /\ at = Origin(s, q[1], q[2]) /\ size = <<w, q[4]>>
  BY DEF Job
<1>1. w \in Nat /\ w > 0 /\ q[4] \in Nat /\ q[3] \in Nat /\ q[3] <= w /\ ~copy /\ size[1] = w /\ size[2] = q[4]
  BY <1>0 DEF Sited, SetUp
<1>2. size[1] * size[2] \in Nat
  BY <1>1
<1>3. \A i \in 0..w-1, j \in 0..q[4]-1 :
        /\ (One(bits, size, j * w + i) <=> bits[<<i, j>>] = 1) /\ D(j * w + i) = X(i, j)
        /\ (j * w + i) % w = i /\ (j * w + i) \div w = j
        /\ j * w + i \in Sp <=> (i < q[3] /\ shown(i, j))
  <2> HIDE DEF X, D, Sp, shown
  <2>1. SUFFICES ASSUME NEW i \in 0..w-1, NEW j \in 0..q[4]-1
                 PROVE /\ (One(bits, size, j * w + i) <=> bits[<<i, j>>] = 1) /\ D(j * w + i) = X(i, j)
                       /\ (j * w + i) % w = i /\ (j * w + i) \div w = j
                       /\ j * w + i \in Sp <=> (i < q[3] /\ shown(i, j))
    OBVIOUS
  <2> DEFINE n == j * w + i
  <2>2. n = j * w + i
    OBVIOUS
  <2> HIDE DEF n
  <2>3. SpotAt(c, r, q, f, at, size, bits, i, j, n)
    BY <2>2, SpotIs
  <2>4. QED
    BY <1>1, <2>2, <2>3 DEF D, X, Sp, shown, SpotAt
<1>4. ASSUME NEW n \in Sp
      PROVE \E i \in 0..q[3]-1, j \in 0..q[4]-1 : n = j * w + i /\ D(n) = X(i, j) /\ shown(i, j)
  <2>1. n \in 0..w*q[4]-1
    BY <1>1, <1>4 DEF Spots
  <2> DEFINE i == n % w
             j == n \div w
  <2>2. i \in 0..w-1 /\ j \in 0..q[4]-1 /\ n = j * w + i
    BY <1>1, <2>1, InGrid
  <2> HIDE DEF i, j, D, X, Sp, shown
  <2>3. i < q[3] /\ shown(i, j) /\ D(n) = X(i, j)
    BY <1>3, <1>4, <2>2
  <2>4. i \in 0..q[3]-1
    BY <1>1, <2>2, <2>3
  <2>5. QED
    BY <2>2, <2>3, <2>4
<1>5. \A n \in Sp : D(n) \in DOMAIN mem
  <2> HIDE DEF D, X, Sp, shown
  <2>1. \A i \in 0..q[3]-1, j \in 0..q[4]-1 : X(i, j) \in 0..Aperture-1
    BY <1>0, PixelIs DEF X
  <2>2. QED
    BY <1>4, <2>1
<1>6. \A m, n \in Sp : D(m) = D(n) => m = n
  <2> HIDE DEF D, X, Sp, shown
  <2>1. SUFFICES ASSUME NEW m \in Sp, NEW n \in Sp, D(m) = D(n) PROVE m = n
    OBVIOUS
  <2>2. PICK i \in 0..q[3]-1, j \in 0..q[4]-1 : m = j * w + i /\ D(m) = X(i, j)
    BY <1>4
  <2>3. PICK k \in 0..q[3]-1, l \in 0..q[4]-1 : n = l * w + k /\ D(n) = X(k, l)
    BY <1>4
  <2>4. i = k /\ j = l
    BY <2>1, <2>2, <2>3, <1>0, PixelsApart DEF X
  <2>5. QED
    BY <2>2, <2>3, <2>4
<1>20. copy => \A i \in Sp : /\ AddressAt(c, c.regs.src, from, size, i) \in DOMAIN mem
                               /\ \A j \in Sp : j < i => D(j) # AddressAt(c, c.regs.src, from, size, i)
  BY <1>1
<1>21. \A g \in Needed(c.regs.master[1]) : c.regs[g] # Unknown
  BY <1>0 DEF SetUp
<1>22. Foreseen(c, mem, at, size, from, bits)
  BY <1>2, <1>5, <1>6, <1>20, <1>21 DEF Foreseen
<1> HIDE DEF Sp, D
<1>23. PaintedAs(c, mem, at, size, from, bits, P)
  BY <1>22, PaintedPixels
<1>7. /\ P = [a \in DOMAIN mem |-> P[a]]
      /\ \A n \in Sp : P[D(n)] = Became(c, mem, size, from, bits, n, mem[D(n)])
      /\ \A a \in DOMAIN mem : (\A n \in Sp : D(n) # a) => P[a] = mem[a]
  BY <1>23 DEF PaintedAs, Sp, D
<1>8. ASSUME NEW i \in 0..q[3]-1, NEW j \in 0..q[4]-1
      PROVE P[X(i, j)] = IF c.regs.master[1] \in Transparent /\ bits[<<i, j>>] # 1 THEN mem[X(i, j)]
                         ELSE Combined(c, bits[<<i, j>>] = 1, {}, mem[X(i, j)])
  <2> DEFINE n == j * w + i
  <2>1. i \in 0..w-1
    BY <1>1
  <2>2. D(n) = X(i, j) /\ (n \in Sp <=> shown(i, j)) /\ (One(bits, size, n) <=> bits[<<i, j>>] = 1)
    <3> HIDE DEF X, shown
    <3>1. /\ (One(bits, size, j * w + i) <=> bits[<<i, j>>] = 1) /\ D(j * w + i) = X(i, j)
          /\ (j * w + i) % w = i /\ (j * w + i) \div w = j
          /\ j * w + i \in Sp <=> (i < q[3] /\ shown(i, j))
      BY <1>3, <2>1
    <3>2. i < q[3]
      BY <1>1
    <3>3. QED
      BY <3>1, <3>2
  <2> HIDE DEF n, X
  <2>3. CASE shown(i, j)
    <3>1. P[X(i, j)] = Became(c, mem, size, from, bits, n, mem[X(i, j)])
      BY <1>7, <2>2, <2>3
    <3>2. Became(c, mem, size, from, bits, n, mem[X(i, j)]) = Combined(c, bits[<<i, j>>] = 1, {}, mem[X(i, j)])
      <4>1. n % size[1] = i /\ n \div size[1] = j
        BY <1>1, <1>3, <2>1 DEF n
      <4>2. QED
        BY <1>1, <4>1, Zenon DEF Became, One
    <3>3. QED
      BY <2>3, <3>1, <3>2
  <2>4. CASE ~shown(i, j)
    <3>1. \A m \in Sp : D(m) # X(i, j)
      <4>1. SUFFICES ASSUME NEW m \in Sp, D(m) = X(i, j) PROVE FALSE
        OBVIOUS
      <4>2. PICK k \in 0..q[3]-1, l \in 0..q[4]-1 : D(m) = X(k, l) /\ shown(k, l)
        BY <1>4
      <4>3. k = i /\ l = j
        <5>1. Pixel(r, f, q[1] + k, q[2] + l) = Pixel(r, f, q[1] + i, q[2] + j)
          BY <4>1, <4>2 DEF X
        <5>2. QED
          BY <1>0, <5>1, PixelsApart
      <4>4. QED
        BY <2>4, <4>2, <4>3
    <3>2. X(i, j) \in DOMAIN mem
      BY <1>0, PixelIs DEF X
    <3>3. P[X(i, j)] = mem[X(i, j)]
      BY <1>7, <3>1, <3>2
    <3>4. QED
      BY <2>4, <3>3
  <2>5. QED
    BY <2>3, <2>4
<1>9. ASSUME NEW a \in 0..Aperture-1, \A i \in 0..q[3]-1, j \in 0..q[4]-1 : X(i, j) # a PROVE P[a] = mem[a]
  <2> HIDE DEF X, shown
  <2>1. \A n \in Sp : D(n) # a
    BY <1>4, <1>9
  <2>2. QED
    BY <1>7, <1>9, <2>1
<1>10. QED
  BY <1>7, <1>8, <1>9 DEF RectDrawn
------------------------------------------------------------------------------
(* What becomes of a pixel, in the processor's order.                       *)
LEMMA NoPlanes ==
  ASSUME NEW f
  PROVE  HardwarePen({}, f) = {}
BY DEF HardwarePen, Swapped

\* The pens of a drawing that is no copy.
Pen1(c, one) == IF c.regs.master[1] \in Mono THEN {}
                ELSE IF c.regs.master[1] = "solid" \/ one THEN c.regs.fg[1] ELSE c.regs.bg[1]
Pen2(c, one) == IF c.regs.master[1] \notin Mono THEN {}
                ELSE IF one THEN c.regs.srcfg[1] ELSE c.regs.srcbg[1]

Inked(c, f, one, P, S, mask, old) ==
  /\ c.regs.master[1] # "copy" /\ c.regs.master[2] = f /\ one \in BOOLEAN
  /\ P \in SUBSET Plane /\ Pen1(c, one) = HardwarePen(P, f)
  /\ S \in SUBSET Plane /\ Pen2(c, one) = HardwarePen(S, f)
  /\ c.regs.mask = <<WriteMask(mask, f)>> /\ old \in SUBSET Plane

LEMMA CombinedIs ==
  ASSUME NEW c, NEW f, NEW one, NEW P, NEW S, NEW mask, NEW old, Inked(c, f, one, P, S, mask, old)
  PROVE  Combined(c, one, {}, old) = Masked(old, Rop3(c.regs.master[3], P, S, old), mask, f)
<1> DEFINE rop == c.regs.master[3]
           p == Pen1(c, one)
           s == Pen2(c, one)
           new == HardwarePen(Rop3(rop, p, s, HardwarePen(old, f)), f)
<1>1. Combined(c, one, {}, old) = (new \cap c.regs.mask[1]) \cup (old \ c.regs.mask[1])
  BY DEF Combined, Pen1, Pen2, Inked
<1>2. new = Rop3(rop, P, S, old)
  <2>1. /\ P \in SUBSET Plane /\ S \in SUBSET Plane /\ old \in SUBSET Plane
        /\ p = HardwarePen(P, f) /\ s = HardwarePen(S, f)
    BY DEF Inked
  <2> HIDE DEF rop, p, s
  <2>2. QED
    BY <2>1, RopTurns
<1> HIDE DEF new
<1>3. c.regs.mask[1] = WriteMask(mask, f)
  BY DEF Inked
<1>4. QED
  BY <1>1, <1>2, <1>3 DEF Masked

SolidInk(c, f, pen, mask) ==
  /\ c.regs.master[1] = "solid" /\ c.regs.master[2] = f
  /\ c.regs.fg = <<HardwarePen(pen, f)>> /\ c.regs.mask = <<WriteMask(mask, f)>>

LEMMA SolidPixel ==
  ASSUME NEW c, NEW f, NEW pen \in SUBSET Plane, NEW mask, SolidInk(c, f, pen, mask),
         NEW one \in BOOLEAN, NEW old \in SUBSET Plane
  PROVE  Combined(c, one, {}, old) = Masked(old, Rop3(c.regs.master[3], pen, {}, old), mask, f)
<1> DEFINE none == {}
<1>1. /\ "solid" \notin Mono /\ c.regs.master[1] = "solid" /\ c.regs.master[2] = f
      /\ c.regs.fg = <<HardwarePen(pen, f)>> /\ c.regs.mask = <<WriteMask(mask, f)>>
  BY DEF Mono, SolidInk
<1>2. Pen1(c, one) = HardwarePen(pen, f) /\ Pen2(c, one) = HardwarePen(none, f)
  BY <1>1, NoPlanes DEF Pen1, Pen2
<1>3. none \in SUBSET Plane /\ c.regs.master[1] # "copy"
  BY <1>1
<1> HIDE DEF none
<1>4. Combined(c, one, {}, old) = Masked(old, Rop3(c.regs.master[3], pen, none, old), mask, f)
  <2>1. Inked(c, f, one, pen, none, mask, old)
    BY <1>1, <1>2, <1>3 DEF Inked
  <2>2. QED
    BY <2>1, CombinedIs
<1>5. QED
  BY <1>4 DEF none

(* A memory of pixels, as the board's is before a call.                     *)
Pixels(mem) == DOMAIN mem = 0..Aperture-1 /\ \A a \in 0..Aperture-1 : mem[a] \in SUBSET Plane

LEMMA Labelled == Pixels(OnBoard)
BY DEF OnBoard, Label, Pixels

(* Beside the rectangle P is as mem.                                        *)
Beside(r, f, q, mem, P) ==
  /\ P = [a \in 0..Aperture-1 |-> P[a]]
  /\ \A a \in 0..Aperture-1 :
       (\A i \in 0..q[3]-1, j \in 0..q[4]-1 : Pixel(r, f, q[1] + i, q[2] + j) # a) => P[a] = mem[a]

Alike(r, f, q, P, A) ==
  \A i \in 0..q[3]-1, j \in 0..q[4]-1 : P[Pixel(r, f, q[1] + i, q[2] + j)] = A[Pixel(r, f, q[1] + i, q[2] + j)]

LEMMA SameMemory ==
  ASSUME NEW r, NEW q, NEW f, NEW mem, NEW A, Beside(r, f, q, mem, A), NEW P, Beside(r, f, q, mem, P),
         Alike(r, f, q, P, A)
  PROVE  P = A
<1>1. ASSUME NEW a \in 0..Aperture-1 PROVE P[a] = A[a]
  <2>1. CASE \A i \in 0..q[3]-1, j \in 0..q[4]-1 : Pixel(r, f, q[1] + i, q[2] + j) # a
    BY <2>1 DEF Beside
  <2>2. CASE ~\A i \in 0..q[3]-1, j \in 0..q[4]-1 : Pixel(r, f, q[1] + i, q[2] + j) # a
    BY <2>2 DEF Alike
  <2>3. QED
    BY <2>1, <2>2
<1>2. [a \in 0..Aperture-1 |-> P[a]] = [a \in 0..Aperture-1 |-> A[a]]
  BY <1>1
<1>3. QED
  BY <1>2 DEF Beside

(* Validation finds the surface good: the rectangle is sited.               *)
LEMMA ReadySited ==
  ASSUME NEW c, c.limit \in 0..Aperture, NEW r, r.memory \in Int, r.pitch \in Int,
         NEW q, q[1] \in Int, q[2] \in Int, q[3] \in Int, q[4] \in Int,
         NEW f \in {0, 1, 2, 4}, NEW s, s = ValidateSurface(c, r, q[1], q[2], q[3], q[4], f), s.result = "hardware"
  PROVE  Sited(s, r, q, f)
<1> DEFINE x == q[1]
           y == q[2]
           w == q[3]
           h == q[4]
           bias == Bias(r, f)
           g == [result |-> "hardware", r |-> r, bpp |-> f, limit |-> c.limit,
                 po |-> <<r.pitch, r.memory - (r.memory % BaseAlign)>>, bias |-> bias,
                 extent |-> Extent(r, x, y, w, h, f)]
           none == SoftwareSurfaceResult(r)
           C1 == f = 0 \/ r.pitch <= 0
           C2 == w <= 0 \/ h <= 0
           C3 == x < 0 \/ y < 0
           C4 == IsOffboardMemory(r.memory)
           C5 == r.memory >= c.limit
           C6 == r.pitch % PitchAlign # 0 \/ r.pitch > MaxPitch
           C7 == x + w - 1 > MaxCoord \/ y + h - 1 > MaxCoord
           C8 == (x + w) * f > r.pitch \/ LastByte(r, x, y, w, h, f) > c.limit - r.memory
           C9 == ((r.memory % BaseAlign) % r.pitch) % f # 0
           C10 == bias[1] + x + w - 1 > MaxCoord \/ bias[2] + y + h - 1 > MaxCoord
<1>1. s = IF C1 THEN none ELSE IF C2 THEN Result("reject") ELSE IF C3 THEN none
          ELSE IF C4 THEN Result("offboard") ELSE IF C5 THEN Result("reject")
          ELSE IF C6 THEN Result("onboard") ELSE IF C7 THEN Result("onboard")
          ELSE IF C8 THEN Result("reject") ELSE IF C9 THEN Result("onboard")
          ELSE IF C10 THEN Result("onboard") ELSE g
  BY Zenon DEF ValidateSurface, HardwareDatatype
<1>2. none.result # "hardware"
  BY DEF SoftwareSurfaceResult
<1>3. /\ Result("reject").result # "hardware" /\ Result("offboard").result # "hardware"
      /\ Result("onboard").result # "hardware"
  BY DEF Result
<1>4. g.po = <<r.pitch, r.memory - (r.memory % BaseAlign)>> /\ g.bias = bias
  OBVIOUS
<1> HIDE DEF C1, C2, C3, C4, C5, C6, C7, C8, C9, C10, g, none
<1>5. ~C1 /\ ~C2 /\ ~C3 /\ ~C4 /\ ~C6 /\ ~C7 /\ ~C8 /\ ~C9 /\ ~C10 /\ s = g
  BY <1>1, <1>2, <1>3
<1>6. f # 0 /\ r.pitch > 0 /\ w > 0 /\ h > 0 /\ x >= 0 /\ y >= 0
  BY <1>5 DEF C1, C2, C3
<1>7. r.memory \in 0..Aperture /\ r.pitch % PitchAlign = 0 /\ r.pitch <= MaxPitch
  BY <1>5, OnBoardMemory, Granules DEF C4, C6
<1>8. Aligned(s.po)
  BY <1>4, <1>5, <1>6, <1>7, PitchOffset
<1>9. f \in {1, 2, 4} /\ r.memory \in Nat /\ r.pitch \in Nat /\ x \in Nat /\ y \in Nat /\ w \in Nat /\ h \in Nat
  BY <1>6, <1>7
<1>10. LastByte(r, x, y, w, h, f) \in Int /\ (x + w) * f \in Int
  <2>1. LastByte(r, x, y, w, h, f) \in Int
    <3> HIDE DEF x, y, w, h
    <3>1. r.pitch \in Int /\ r.pitch >= 0 /\ w > 0 /\ h > 0 /\ x \in Nat /\ y \in Nat /\ w \in Nat /\ h \in Nat
      BY <1>6, <1>9
    <3>2. QED
      BY <1>9, <3>1, LastByteBehind, ZenonT(30)
  <2>2. (x + w) * f \in Int
    <3> HIDE DEF x, w
    <3>1. QED
      BY <1>9
  <2>3. QED
    BY <2>1, <2>2
<1>11. (x + w) * f <= r.pitch /\ r.memory + LastByte(r, x, y, w, h, f) <= Aperture
  BY <1>5, <1>9, <1>10, Granules DEF C8
<1>12. bias[1] \in Nat /\ bias[2] \in Nat
  BY <1>6, <1>7, <1>9, BiasIs
<1>13. bias[1] + x + w - 1 <= MaxCoord /\ bias[2] + y + h - 1 <= MaxCoord
  <2> HIDE DEF bias
  <2>1. QED
    BY <1>5, <1>9, <1>12, Granules DEF C10
<1>14. ((r.memory % BaseAlign) % r.pitch) % f = 0
  BY <1>5 DEF C9
<1>15. s.bias = bias /\ s.po = <<r.pitch, r.memory - (r.memory % BaseAlign)>>
  BY <1>4, <1>5
<1>16. QED
  BY <1>6, <1>8, <1>9, <1>11, <1>13, <1>14, <1>15 DEF Sited
------------------------------------------------------------------------------
(* Before a submission draws, waiting leaves the memory as it was.          *)
LEMMA PrepareMemory ==
  ASSUME NEW c, NEW mem, NEW o \in PrepareMmioEngine(c, mem), o.ok
  PROVE  o.mem = mem
<1>1. \A d \in RecoverEngine(c, mem) : d.mem = mem
  BY DEF RecoverEngine, Outcome
<1>2. \A d \in SynchronizeEngine(c, mem) : d.mem = mem
  <2>1. ASSUME NEW ok, NEW d PROVE Outcome(ok, d, mem).mem = mem
    BY DEF Outcome
  <2>2. ASSUME NEW d \in SynchronizeEngine(c, mem) PROVE d.mem = mem
    <3>1. d \in RecoverEngine(c, mem) \/ \E ok, e : d = Outcome(ok, e, mem)
      BY Zenon DEF SynchronizeEngine
    <3>2. QED
      BY <1>1, <2>1, <3>1
  <2>3. QED
    BY <2>2
<1>3. \/ o \in SynchronizeEngine(c, mem) \/ \E ok : o = Outcome(ok, c, mem)
  BY DEF PrepareMmioEngine
<1>4. QED
  BY <1>2, <1>3, OutcomeFields

(* A drawing that follows: what is painted, and the registers of the engine.*)
Submits(c, mem, q, values, g, at, size, from, bits, o) ==
  /\ q \in PrepareMmioEngine(c, mem) /\ q.ok /\ DOMAIN values \subseteq Register
  /\ \A r \in DOMAIN values \cap {"dst", "src"} : Aligned(values[r])
  /\ g = SetEngineState(BeginEnginePath(q.c, FALSE), values)
  /\ o \in Draw(g, q.mem, at, size, from, bits)

LEMMA DrewPainted ==
  ASSUME NEW c, Sound(c), Drawing(c), NEW mem, mem # <<>>, NEW q, NEW values, NEW g, NEW at, NEW size, NEW from,
         NEW bits, NEW o, Submits(c, mem, q, values, g, at, size, from, bits, o)
  PROVE  /\ o.ok /\ o.mem = Paint(g, mem, at, size, from, bits) /\ o.c.slipped = g.slipped
         /\ ~g.slipped => \A r \in DOMAIN values : g.regs[r] = values[r]
<1>0. /\ q \in PrepareMmioEngine(c, mem) /\ q.ok /\ DOMAIN values \subseteq Register
      /\ \A r \in DOMAIN values \cap {"dst", "src"} : Aligned(values[r])
      /\ g = SetEngineState(BeginEnginePath(q.c, FALSE), values)
      /\ o \in Draw(g, q.mem, at, size, from, bits)
  BY DEF Submits
<1>1. q.mem = mem
  BY <1>0, PrepareMemory
<1>2. Follows(c, q) /\ Writable(q.c)
  BY <1>0, PrepareFollows
<1> DEFINE b == BeginEnginePath(q.c, FALSE)
           no == FALSE
<1>3. no \in BOOLEAN /\ b = BeginEnginePath(q.c, no) /\ ~no
  OBVIOUS
<1> HIDE DEF no, b
<1>4. Writable(b)
  BY <1>2, <1>3, BeginKeeps DEF Writable
<1>5. Writable(g) /\ (~g.slipped => \A r \in DOMAIN values : g.regs[r] = values[r])
  <2> DEFINE e == SetEngineState(b, values)
  <2>1. Writable(e) /\ (~e.slipped => \A r \in DOMAIN values : e.regs[r] = values[r])
    BY <1>0, <1>4, SetWritable
  <2>2. g = e
    BY <1>0 DEF b
  <2> HIDE DEF e
  <2>3. QED
    BY <2>1, <2>2
<1> DEFINE p == Painted(g)
           n == Paint(g, mem, at, size, from, bits)
<1>6. o = Outcome(TRUE, p, n)
  BY <1>0, <1>1 DEF Draw
<1>7. p.slipped = g.slipped
  BY <1>5 DEF Painted, Writable, Sound, Typed, CardField
<1> HIDE DEF p, n
<1>8. o.ok /\ o.c = p /\ o.mem = n
  BY <1>6, Granted
<1>9. QED
  BY <1>5, <1>7, <1>8 DEF n
(* A filled rectangle.                                                      *)
SolidValues(s, pen, mask, f, rop) ==
  [master |-> Master("solid", f, rop), fg |-> <<HardwarePen(pen, f)>>,
   mask |-> <<WriteMask(mask, f)>>, cntl |-> LeftToRight, dst |-> s.po]

Filled(r, f, q, pen, mask, rop, mem, P) ==
  /\ Beside(r, f, q, mem, P)
  /\ \A i \in 0..q[3]-1, j \in 0..q[4]-1 :
       P[Pixel(r, f, q[1] + i, q[2] + j)] =
         Masked(mem[Pixel(r, f, q[1] + i, q[2] + j)],
                Rop3(rop, pen, {}, mem[Pixel(r, f, q[1] + i, q[2] + j)]), mask, f)

LEMMA SomewhereIs ==
  ASSUME NEW s, NEW r, NEW q, NEW f, Sited(s, r, q, f), NEW mem, Pixels(mem)
  PROVE  mem # <<>>
<1> DEFINE i == 0
<1>1. i \in 0..q[3]-1 /\ i \in 0..q[4]-1
  BY DEF Sited
<1> HIDE DEF i
<1>2. Pixel(r, f, q[1] + i, q[2] + i) \in 0..Aperture-1
  BY <1>1, PixelIs
<1>3. DOMAIN <<>> = {}
  OBVIOUS
<1>4. QED
  BY <1>2, <1>3 DEF Pixels

LEMMA SolidPainted ==
  ASSUME NEW s, NEW r, NEW q, NEW f, Sited(s, r, q, f), NEW c, NEW pen \in SUBSET Plane, NEW mask, NEW rop,
         \A g \in DOMAIN SolidValues(s, pen, mask, f, rop) : c.regs[g] = SolidValues(s, pen, mask, f, rop)[g],
         NEW mem, Pixels(mem),
         NEW P, P = Paint(c, mem, Origin(s, q[1], q[2]), <<q[3], q[4]>>, <<0, 0>>, NoBits)
  PROVE  Filled(r, f, q, pen, mask, rop, mem, P)
<1> DEFINE at == Origin(s, q[1], q[2])
           size == <<q[3], q[4]>>
           from == <<0, 0>>
           bits == NoBits
           w == q[3]
<1>1. /\ c.regs.master = <<"solid", f, rop>> /\ c.regs.fg = <<HardwarePen(pen, f)>>
      /\ c.regs.mask = <<WriteMask(mask, f)>> /\ c.regs.cntl = LeftToRight /\ c.regs.dst = s.po
  BY DEF SolidValues, Master
<1>2. c.regs.master[1] = "solid" /\ c.regs.master[2] = f /\ c.regs.master[3] = rop
  BY <1>1
<1>3. SetUp(c, s, q, f, w)
  <2>1. Needed(c.regs.master[1]) = {"master", "mask", "cntl", "dst", "fg"}
    BY <1>2 DEF Needed, Mono
  <2>2. s.po # Unknown
    BY DEF Sited, Unknown
  <2>3. \A g \in {"master", "mask", "cntl", "dst", "fg"} : c.regs[g] # Unknown
    <3>1. /\ c.regs.master # <<>> /\ c.regs.fg # <<>> /\ c.regs.mask # <<>>
      BY <1>1
    <3>2. c.regs.cntl # <<>>
      BY <1>1 DEF LeftToRight
    <3>3. QED
      BY <1>1, <2>2, <3>1, <3>2 DEF Unknown
  <2>4. w \in Nat /\ c.regs.master[1] # "copy" /\ c.regs.master[1] \notin Mono
    BY <1>2 DEF Mono, Sited
  <2>5. QED
    BY <1>1, <1>2, <2>1, <2>3, <2>4 DEF SetUp
<1>4. Job(c, s, r, q, f, w, at, size)
  BY <1>3 DEF Job
<1> HIDE DEF at, size, from, bits, w
<1>5. P = Paint(c, mem, at, size, from, bits) /\ DOMAIN mem = 0..Aperture-1
  BY DEF at, size, from, bits, Pixels
<1>6. RectDrawn(c, r, q, f, bits, mem, P)
  BY <1>4, <1>5, RectPainted
<1>7. ASSUME NEW i \in 0..q[3]-1, NEW j \in 0..q[4]-1
      PROVE P[Pixel(r, f, q[1] + i, q[2] + j)] =
              Masked(mem[Pixel(r, f, q[1] + i, q[2] + j)],
                     Rop3(rop, pen, {}, mem[Pixel(r, f, q[1] + i, q[2] + j)]), mask, f)
  <2> DEFINE a == Pixel(r, f, q[1] + i, q[2] + j)
             one == bits[<<i, j>>] = 1
             old == mem[a]
  <2>1. c.regs.master[1] \notin Transparent
    BY <1>2 DEF Transparent
  <2>2. P[a] = Combined(c, one, {}, old)
    BY <1>6, <2>1 DEF RectDrawn
  <2>3. old \in SUBSET Plane
    <3>1. a \in 0..Aperture-1
      BY PixelIs
    <3> HIDE DEF a
    <3>2. QED
      BY <3>1 DEF Pixels
  <2>4. one \in BOOLEAN
    OBVIOUS
  <2> HIDE DEF one, old
  <2>5. Combined(c, one, {}, old) = Masked(old, Rop3(c.regs.master[3], pen, {}, old), mask, f)
    <3>1. SolidInk(c, f, pen, mask)
      BY <1>1, <1>2 DEF SolidInk
    <3>2. QED
      BY <2>3, <2>4, <3>1, SolidPixel
  <2>6. QED
    BY <1>2, <2>2, <2>5 DEF old
<1>8. QED
  BY <1>6, <1>7 DEF RectDrawn, Filled, Beside
------------------------------------------------------------------------------
(* What comes of a call shows what was asked.                               *)
Shows(f) == f.last.asAsked \/ f.last.torn \/ f.c.slipped
Right(drawn, asked) == \A o \in drawn : o.ok /\ ~o.c.slipped => o.mem = asked

LEMMA FinishShows ==
  ASSUME NEW c, NEW kept, NEW asAsked, NEW fresh, NEW torn, NEW f, f = Finish(c, kept, asAsked, fresh, torn),
         asAsked \/ torn \/ c.slipped
  PROVE  Shows(f)
<1> DEFINE l == [kept |-> kept, asAsked |-> asAsked, fresh |-> fresh, torn |-> torn]
<1>1. f.c = c /\ f.last = l
  BY DEF Finish
<1>2. l.asAsked = asAsked /\ l.torn = torn
  OBVIOUS
<1> HIDE DEF l
<1>3. QED
  BY <1>1, <1>2 DEF Shows

LEMMA SoftwareShows ==
  ASSUME NEW o, NEW torn, NEW f, f = SoftwareDraw(o, torn)
  PROVE  Shows(f)
<1> DEFINE t == TRUE
<1>1. t /\ \E c, kept, fresh : f = Finish(c, kept, t, fresh, torn)
  BY Zenon DEF SoftwareDraw
<1> HIDE DEF t
<1>2. QED
  BY <1>1, FinishShows

LEMMA SoftlyShows ==
  ASSUME NEW c, NEW offboard, NEW f \in Softly(c, offboard)
  PROVE  Shows(f)
<1> DEFINE t == TRUE
           no == FALSE
<1>1. \/ \E d, kept, fresh, torn : f = Finish(d, kept, t, fresh, torn)
      \/ \E o : f = SoftwareDraw(o, no)
  BY Zenon DEF Softly
<1>2. t
  OBVIOUS
<1> HIDE DEF t, no
<1>3. QED
  BY <1>1, <1>2, FinishShows, SoftwareShows

LEMMA DroppedShows ==
  ASSUME NEW c, NEW legal, NEW f \in Dropped(c, legal)
  PROVE  Shows(f)
<1> DEFINE t == TRUE
<1>1. t /\ \E kept, fresh, torn : f = Finish(c, kept, t, fresh, torn)
  BY Zenon DEF Dropped
<1> HIDE DEF t
<1>2. QED
  BY <1>1, FinishShows

LEMMA DrawnShows ==
  ASSUME NEW c, NEW drawn, \A o \in drawn : Follows(c, o), NEW asked, Right(drawn, asked), NEW torn,
         NEW f \in Drawn(drawn, asked, torn)
  PROVE  Shows(f)
<1>1. PICK o \in drawn :
        f \in IF o.ok THEN {Finish([o.c EXCEPT !.pending = "MMIO"], TRUE, o.mem = asked, TRUE, torn)}
              ELSE {SoftwareDraw(r, torn) : r \in RecoverEngine(o.c, <<>>)}
  BY DEF Drawn
<1> DEFINE d == [o.c EXCEPT !.pending = "MMIO"]
           t == TRUE
           same == (o.mem = asked)
<1>2. d.slipped = o.c.slipped
  BY DEF Follows, Sound, Typed, CardField
<1>3. CASE o.ok
  <2>1. f = Finish(d, t, same, t, torn)
    BY <1>1, <1>3
  <2>2. same \/ d.slipped
    BY <1>2, <1>3 DEF Right
  <2> HIDE DEF d, t, same
  <2>3. QED
    BY <2>1, <2>2, FinishShows
<1>4. CASE ~o.ok
  BY <1>1, <1>4, SoftwareShows
<1>5. QED
  BY <1>3, <1>4

LEMMA HappensShows ==
  ASSUME NEW results, \A f \in results : Shows(f), Happens(results)
  PROVE  PaintsAsAsked'
BY DEF Happens, Shows, PaintsAsAsked

LEMMA SurfaceShows ==
  ASSUME NEW rejected, NEW legal, NEW hardware \in BOOLEAN,
         NEW drawn, hardware => \A o \in drawn : Follows(card, o),
         NEW asked, hardware => Right(drawn, asked), NEW torn, NEW off, NEW results, Happens(results),
         results = IF rejected THEN Dropped(card, legal)
                   ELSE IF hardware THEN Drawn(drawn, asked, torn) ELSE Softly(card, off)
  PROVE  PaintsAsAsked'
<1>1. \A f \in results : Shows(f)
  <2>1. CASE rejected
    BY <2>1, DroppedShows
  <2>2. CASE ~rejected /\ hardware
    BY <2>2, DrawnShows
  <2>3. CASE ~rejected /\ ~hardware
    BY <2>3, SoftlyShows
  <2>4. QED
    BY <2>1, <2>2, <2>3
<1>2. QED
  BY <1>1, HappensShows

(* The outcomes of a fill.                                                  *)
LEMMA SolidOutcome ==
  ASSUME NEW c, Sound(c), Drawing(c), NEW mem, Pixels(mem), NEW s, NEW r, NEW q, NEW f, Sited(s, r, q, f),
         NEW pen \in SUBSET Plane, NEW mask, NEW rop,
         NEW o \in SubmitSolidRect(c, mem, s, q[1], q[2], q[3], q[4], pen, mask, f, rop), o.ok, ~o.c.slipped
  PROVE  Filled(r, f, q, pen, mask, rop, mem, o.mem)
<1> DEFINE values == SolidValues(s, pen, mask, f, rop)
           g(p) == SetEngineState(BeginEnginePath(p.c, FALSE), values)
           at == Origin(s, q[1], q[2])
           size == <<q[3], q[4]>>
           from == <<0, 0>>
           bits == NoBits
<1>1. PICK p \in PrepareMmioEngine(c, mem) :
        o \in IF p.ok THEN Draw(g(p), p.mem, at, size, from, bits) ELSE {p}
  BY DEF SubmitSolidRect, AndThen, SolidValues
<1>2. DOMAIN values \subseteq Register /\ values["dst"] = s.po
  BY DEF Register, SolidValues
<1>3. \A n \in DOMAIN values \cap {"dst", "src"} : Aligned(values[n])
  BY <1>2 DEF Sited, SolidValues
<1>4. p.ok
  BY <1>1
<1>5. mem # <<>>
  BY SomewhereIs
<1> DEFINE e == g(p)
           P == o.mem
<1>6. e = SetEngineState(BeginEnginePath(p.c, FALSE), values) /\ o \in Draw(e, p.mem, at, size, from, bits)
  BY <1>1, <1>4
<1> HIDE DEF values, at, size, from, bits, e
<1>7. /\ o.ok /\ P = Paint(e, mem, at, size, from, bits) /\ o.c.slipped = e.slipped
      /\ ~e.slipped => \A n \in DOMAIN values : e.regs[n] = values[n]
  <2>1. Submits(c, mem, p, values, e, at, size, from, bits, o)
    BY <1>2, <1>3, <1>4, <1>6 DEF Submits
  <2>2. QED
    BY <1>5, <2>1, DrewPainted
<1>8. /\ \A n \in DOMAIN SolidValues(s, pen, mask, f, rop) : e.regs[n] = SolidValues(s, pen, mask, f, rop)[n]
      /\ P = Paint(e, mem, Origin(s, q[1], q[2]), <<q[3], q[4]>>, <<0, 0>>, NoBits)
  BY <1>7 DEF values, at, size, from, bits
<1> HIDE DEF P
<1>9. Filled(r, f, q, pen, mask, rop, mem, P)
  BY <1>8, SolidPainted
<1>10. QED
  BY <1>9 DEF P
LEMMA FillRectPaints ==
  ASSUME Sound(card), Quiet(card), NEW r, r.memory \in Int, r.pitch \in Int,
         NEW q, q[1] \in Int, q[2] \in Int, q[3] \in Int, q[4] \in Int, NEW f \in {0, 1, 2, 4},
         NEW pen \in SUBSET Plane, NEW mask, FillRect(r, q, pen, mask, f)
  PROVE  PaintsAsAsked'
<1> DEFINE s == ValidateSurface(card, r, q[1], q[2], q[3], q[4], f)
           rejected == s.result = "reject"
           hardware == HardwareReady(s)
           legal == Legal(card, r, f, q)
           none == {}
           drawn == SubmitSolidRect(card, OnBoard, s, q[1], q[2], q[3], q[4], pen, mask, f, ROP3_P)
           asked == Asked(r, f, q, LAMBDA i, j, old : Masked(old, pen, mask, f))
           torn == FALSE
           off == Offboard(s)
           results == IF rejected THEN Dropped(card, legal)
                      ELSE IF hardware THEN Drawn(drawn, asked, torn) ELSE Softly(card, off)
<1>1. Happens(results)
  BY Zenon DEF FillRect
<1>2. Drawing(card) /\ card.limit \in 0..Aperture
  BY Limits DEF Quiet, Drawing, Sound, Typed
<1>3. hardware \in BOOLEAN /\ (hardware => s.result = "hardware")
  BY Zenon DEF HardwareReady
<1>4. s = ValidateSurface(card, r, q[1], q[2], q[3], q[4], f) /\ none \in SUBSET Plane
  BY Zenon
<1>5. /\ asked = [a \in 0..Aperture-1 |-> asked[a]]
      /\ \A a \in 0..Aperture-1 :
           asked[a] = IF \E i \in 0..q[3]-1, j \in 0..q[4]-1 : Pixel(r, f, q[1] + i, q[2] + j) = a
                      THEN Masked(OnBoard[a], pen, mask, f) ELSE OnBoard[a]
  BY Labelled DEF Asked, Pixels
<1> HIDE DEF s, hardware, torn, off, rejected, legal, asked, none
<1>6. Beside(r, f, q, OnBoard, asked)
  BY <1>5 DEF Beside
<1>7. hardware => Sited(s, r, q, f)
  BY <1>2, <1>3, <1>4, ReadySited
<1>8. hardware => \A o \in drawn : Follows(card, o)
  <2>1. hardware => Aligned(s.po)
    BY <1>7 DEF Sited
  <2> DEFINE x == q[1]
             y == q[2]
             w == q[3]
             h == q[4]
  <2> HIDE DEF x, y, w, h
  <2>2. hardware => \A o \in SubmitSolidRect(card, OnBoard, s, x, y, w, h, pen, mask, f, ROP3_P) : Follows(card, o)
    BY <1>2, <2>1, SolidFollows
  <2>3. QED
    BY <2>2 DEF x, y, w, h
<1>9. hardware => Right(drawn, asked)
  <2>1. SUFFICES ASSUME hardware, NEW o \in drawn, o.ok, ~o.c.slipped PROVE o.mem = asked
    BY DEF Right
  <2> DEFINE P == o.mem
  <2>2. Filled(r, f, q, pen, mask, ROP3_P, OnBoard, P)
    BY <1>2, <1>4, <1>7, <2>1, Labelled, SolidOutcome
  <2> HIDE DEF P
  <2>3. ASSUME NEW i \in 0..q[3]-1, NEW j \in 0..q[4]-1
        PROVE P[Pixel(r, f, q[1] + i, q[2] + j)] = asked[Pixel(r, f, q[1] + i, q[2] + j)]
    <3> DEFINE a == Pixel(r, f, q[1] + i, q[2] + j)
               old == OnBoard[a]
    <3>1. a \in 0..Aperture-1
      BY <1>7, <2>1, PixelIs
    <3>2. asked[a] = Masked(old, pen, mask, f)
      BY <1>5, <3>1
    <3>3. P[a] = Masked(old, Rop3(ROP3_P, pen, {}, old), mask, f)
      BY <2>2 DEF Filled
    <3>4. Rop3(ROP3_P, pen, {}, old) = pen
      BY RopPattern
    <3> HIDE DEF a, old
    <3>5. QED
      BY <3>2, <3>3, <3>4 DEF a
  <2>4. Beside(r, f, q, OnBoard, P) /\ Alike(r, f, q, P, asked)
    BY <2>2, <2>3 DEF Filled, Alike
  <2>5. P = asked
    BY <1>6, <2>4, SameMemory
  <2>6. QED
    BY <2>5 DEF P
<1> HIDE DEF drawn
<1>10. results = IF rejected THEN Dropped(card, legal)
                 ELSE IF hardware THEN Drawn(drawn, asked, torn) ELSE Softly(card, off)
  OBVIOUS
<1> HIDE DEF results
<1>11. QED
  BY <1>1, <1>3, <1>8, <1>9, <1>10, SurfaceShows, ZenonT(60)

LEMMA InvertRectPaints ==
  ASSUME Sound(card), Quiet(card), NEW r, r.memory \in Int, r.pitch \in Int,
         NEW q, q[1] \in Int, q[2] \in Int, q[3] \in Int, q[4] \in Int, NEW f \in {0, 1, 2, 4},
         NEW mask, InvertRect(r, q, mask, f)
  PROVE  PaintsAsAsked'
<1> DEFINE s == ValidateSurface(card, r, q[1], q[2], q[3], q[4], f)
           rejected == s.result = "reject"
           hardware == HardwareReady(s)
           legal == Legal(card, r, f, q)
           none == {}
           drawn == SubmitSolidRect(card, OnBoard, s, q[1], q[2], q[3], q[4], none, mask, f, ROP3_Dn)
           asked == Asked(r, f, q, LAMBDA i, j, old : Masked(old, Plane \ old, mask, f))
           torn == FALSE
           off == Offboard(s)
           results == IF rejected THEN Dropped(card, legal)
                      ELSE IF hardware THEN Drawn(drawn, asked, torn) ELSE Softly(card, off)
<1>1. Happens(results)
  BY Zenon DEF InvertRect
<1>2. Drawing(card) /\ card.limit \in 0..Aperture
  BY Limits DEF Quiet, Drawing, Sound, Typed
<1>3. hardware \in BOOLEAN /\ (hardware => s.result = "hardware")
  BY Zenon DEF HardwareReady
<1>4. s = ValidateSurface(card, r, q[1], q[2], q[3], q[4], f) /\ none \in SUBSET Plane
  BY Zenon
<1>5. /\ asked = [a \in 0..Aperture-1 |-> asked[a]]
      /\ \A a \in 0..Aperture-1 :
           asked[a] = IF \E i \in 0..q[3]-1, j \in 0..q[4]-1 : Pixel(r, f, q[1] + i, q[2] + j) = a
                      THEN Masked(OnBoard[a], Plane \ OnBoard[a], mask, f) ELSE OnBoard[a]
  BY Labelled DEF Asked, Pixels
<1> HIDE DEF s, hardware, torn, off, rejected, legal, asked, none
<1>6. Beside(r, f, q, OnBoard, asked)
  BY <1>5 DEF Beside
<1>7. hardware => Sited(s, r, q, f)
  BY <1>2, <1>3, <1>4, ReadySited
<1>8. hardware => \A o \in drawn : Follows(card, o)
  <2>1. hardware => Aligned(s.po)
    BY <1>7 DEF Sited
  <2> DEFINE x == q[1]
             y == q[2]
             w == q[3]
             h == q[4]
  <2> HIDE DEF x, y, w, h
  <2>2. hardware => \A o \in SubmitSolidRect(card, OnBoard, s, x, y, w, h, none, mask, f, ROP3_Dn) : Follows(card, o)
    BY <1>2, <2>1, SolidFollows
  <2>3. QED
    BY <2>2 DEF x, y, w, h
<1>9. hardware => Right(drawn, asked)
  <2>1. SUFFICES ASSUME hardware, NEW o \in drawn, o.ok, ~o.c.slipped PROVE o.mem = asked
    BY DEF Right
  <2> DEFINE P == o.mem
  <2>2. Filled(r, f, q, none, mask, ROP3_Dn, OnBoard, P)
    BY <1>2, <1>4, <1>7, <2>1, Labelled, SolidOutcome
  <2> HIDE DEF P
  <2>3. ASSUME NEW i \in 0..q[3]-1, NEW j \in 0..q[4]-1
        PROVE P[Pixel(r, f, q[1] + i, q[2] + j)] = asked[Pixel(r, f, q[1] + i, q[2] + j)]
    <3> DEFINE a == Pixel(r, f, q[1] + i, q[2] + j)
               old == OnBoard[a]
    <3>1. a \in 0..Aperture-1
      BY <1>7, <2>1, PixelIs
    <3>2. asked[a] = Masked(old, Plane \ old, mask, f)
      BY <1>5, <3>1
    <3>3. P[a] = Masked(old, Rop3(ROP3_Dn, none, {}, old), mask, f)
      BY <2>2 DEF Filled
    <3>4. Rop3(ROP3_Dn, none, {}, old) = Plane \ old
      BY RopInverts
    <3> HIDE DEF a, old
    <3>5. QED
      BY <3>2, <3>3, <3>4 DEF a
  <2>4. Beside(r, f, q, OnBoard, P) /\ Alike(r, f, q, P, asked)
    BY <2>2, <2>3 DEF Filled, Alike
  <2>5. P = asked
    BY <1>6, <2>4, SameMemory
  <2>6. QED
    BY <2>5 DEF P
<1> HIDE DEF drawn
<1>10. results = IF rejected THEN Dropped(card, legal)
                 ELSE IF hardware THEN Drawn(drawn, asked, torn) ELSE Softly(card, off)
  OBVIOUS
<1> HIDE DEF results
<1>11. QED
  BY <1>1, <1>3, <1>8, <1>9, <1>10, SurfaceShows, ZenonT(60)
------------------------------------------------------------------------------
(* Remainders, of the brush that repeats across the memory.                 *)
Rows(u, a, k) == u \in Nat /\ u > 0 /\ a \in Nat /\ k \in Nat

LEMMA MoreRows ==
  ASSUME NEW u, NEW a, NEW k, Rows(u, a, k)
  PROVE  (a + k * u) % u = a % u
<1>0. u \in Nat /\ u > 0 /\ a \in Nat /\ k \in Nat
  BY DEF Rows
<1> DEFINE d == a \div u
           b == a % u
<1>1. d \in Nat /\ b \in 0..u-1 /\ a = d * u + b
  BY <1>0, Split
<1> HIDE DEF d, b
<1>2. a + k * u = (d + k) * u + b /\ d + k \in Nat
  BY <1>0, <1>1
<1>3. ((d + k) * u + b) % u = b
  <2> DEFINE e == d + k
  <2>1. e \in Nat
    BY <1>2
  <2> HIDE DEF e
  <2>2. (e * u + b) % u = b
    BY <1>0, <1>1, <2>1, DivModIs
  <2>3. QED
    BY <2>2 DEF e
<1>4. QED
  BY <1>2, <1>3 DEF b

LEMMA SameRest ==
  ASSUME NEW u, NEW a, NEW k, NEW b, NEW l, Rows(u, a, k), Rows(u, b, l), a + k * u = b + l * u
  PROVE  a % u = b % u
<1>1. (a + k * u) % u = a % u
  BY MoreRows DEF Rows
<1>2. (b + l * u) % u = b % u
  BY MoreRows DEF Rows
<1>3. QED
  BY <1>1, <1>2

Whole(u, l) == u \in Nat /\ u > 0 /\ l \in Nat /\ l > 0 /\ u % l = 0

LEMMA RestOfRest ==
  ASSUME NEW u, NEW l, Whole(u, l), NEW z \in Nat
  PROVE  (z % u) % l = z % l
<1> DEFINE d == z \div u
           b == z % u
           e == u \div l
<1>0. u \in Nat /\ u > 0 /\ l \in Nat /\ l > 0 /\ u % l = 0
  BY DEF Whole
<1>1. d \in Nat /\ b \in 0..u-1 /\ z = d * u + b
  BY <1>0, Split
<1>2. e \in Nat /\ u = e * l
  <2>1. e \in Nat /\ u % l \in 0..l-1 /\ u = e * l + (u % l)
    BY <1>0, Split
  <2>2. QED
    BY <1>0, <2>1
<1> HIDE DEF d, b, e
<1>3. z = b + (d * e) * l /\ d * e \in Nat
  BY <1>0, <1>1, <1>2
<1>4. (b + (d * e) * l) % l = b % l
  <2> DEFINE k == d * e
  <2>1. k \in Nat
    BY <1>3
  <2> HIDE DEF k
  <2>2. (b + k * l) % l = b % l
    <3>1. Rows(l, b, k)
      BY <1>0, <1>1, <2>1 DEF Rows
    <3>2. QED
      BY <3>1, MoreRows
  <2>3. QED
    BY <2>2 DEF k
<1>5. QED
  BY <1>3, <1>4 DEF b

\* The brush's phase makes column i behind X that of i in the pattern.
Phased(u, o, X, i, z) ==
  u \in Nat /\ u > 0 /\ o \in Nat /\ X \in Nat /\ i \in Nat /\ z = ((o % u) + u - (X % u)) % u

LEMMA PhaseIs ==
  ASSUME NEW u, NEW o, NEW X, NEW i, NEW z, Phased(u, o, X, i, z)
  PROVE  z \in Nat /\ ((X + i) + z) % u = (i + o) % u
<1> DEFINE o1 == o \div u
           o0 == o % u
           x1 == X \div u
           x0 == X % u
           g == o0 + u - x0
           k == g \div u
<1>0. u \in Nat /\ u > 0 /\ o \in Nat /\ X \in Nat /\ i \in Nat /\ z = ((o % u) + u - (X % u)) % u
  BY DEF Phased
<1>1. o1 \in Nat /\ o0 \in 0..u-1 /\ o = o1 * u + o0
  BY <1>0, Split
<1>2. x1 \in Nat /\ x0 \in 0..u-1 /\ X = x1 * u + x0
  BY <1>0, Split
<1> HIDE DEF o1, o0, x1, x0
<1>3. g \in Nat
  BY <1>0, <1>1, <1>2
<1> HIDE DEF g
<1>4. k \in Nat /\ g % u \in 0..u-1 /\ g = k * u + (g % u)
  BY <1>0, <1>3, Split
<1>5. z = g % u
  BY <1>0 DEF g, o0, x0
<1>6. z \in Nat /\ g = k * u + z
  BY <1>4, <1>5
<1> HIDE DEF k
<1>7. ((X + i) + z) + (k + o1) * u = (i + o) + (x1 + 1) * u
  BY <1>0, <1>1, <1>2, <1>4, <1>6 DEF g
<1> DEFINE a == (X + i) + z
           b == i + o
           m == k + o1
           n == x1 + 1
<1>8. a \in Nat /\ b \in Nat /\ m \in Nat /\ n \in Nat /\ a + m * u = b + n * u
  BY <1>0, <1>1, <1>2, <1>4, <1>6, <1>7
<1> HIDE DEF a, b, m, n
<1>9. a % u = b % u
  <2>1. Rows(u, a, m) /\ Rows(u, b, n)
    BY <1>0, <1>8 DEF Rows
  <2>2. QED
    BY <1>8, <2>1, SameRest
<1>10. QED
  BY <1>6, <1>9 DEF a, b

(* What the engine takes for pixel i, j is the pattern's.                   *)
PatternGiven(p) ==
  /\ p.fg \in SUBSET Plane /\ p.bg \in SUBSET Plane /\ p.xoff \in Nat /\ p.yoff \in Nat
  /\ p.size <= 3 => Len(p.rows) \in Nat /\ Len(p.rows) > 0 /\ PatternEdge % Len(p.rows) = 0

PatternBit(p, i, j) == p.rows[1 + ((j + p.yoff) % Len(p.rows))][1 + ((i + p.xoff) % PatternEdge)]

Brush(p, at, w, h, i, j) ==
  /\ PatternGiven(p) /\ p.size <= 3
  /\ at[1] \in Nat /\ at[2] \in Nat /\ w \in Nat /\ h \in Nat /\ i \in 0..w-1 /\ j \in 0..h-1

LEMMA BrushIs ==
  ASSUME NEW p, NEW at, NEW w, NEW h, NEW i, NEW j, Brush(p, at, w, h, i, j)
  PROVE  BrushBits(p, at, w, h)[<<i, j>>] = PatternBit(p, i, j)
<1> DEFINE u == PatternEdge
           l == Len(p.rows)
           ph == PatternPhase(p, at)
           z1 == ((p.xoff % u) + u - (at[1] % u)) % u
           z2 == ((p.yoff % u) + u - (at[2] % u)) % u
           X == at[1]
           Y == at[2]
           ox == p.xoff
           oy == p.yoff
<1>0. /\ p.xoff \in Nat /\ p.yoff \in Nat /\ Len(p.rows) \in Nat /\ Len(p.rows) > 0 /\ PatternEdge % Len(p.rows) = 0
      /\ at[1] \in Nat /\ at[2] \in Nat /\ w \in Nat /\ h \in Nat /\ i \in 0..w-1 /\ j \in 0..h-1
  BY DEF Brush, PatternGiven
<1>1. u \in Nat /\ u > 0
  BY Draw2DAssumption
<1>2. ph[1] = z1 /\ ph[2] = z2
  BY DEF PatternPhase
<1>3. BrushBits(p, at, w, h)[<<i, j>>] = BrushBit(p, ph, at[1] + i, at[2] + j)
  <2> DEFINE B(k, m) == BrushBit(p, ph, at[1] + k, at[2] + m)
  <2>1. BrushBits(p, at, w, h) = [k \in (0..w-1) \X (0..h-1) |-> B(k[1], k[2])]
    BY DEF BrushBits
  <2> HIDE DEF B
  <2>2. [k \in (0..w-1) \X (0..h-1) |-> B(k[1], k[2])][<<i, j>>] = B(i, j)
    BY <1>0
  <2>3. QED
    BY <2>1, <2>2 DEF B
<1>4. BrushBit(p, ph, at[1] + i, at[2] + j) = p.rows[1 + (((Y + j + z2) % u) % l)][1 + ((X + i + z1) % u)]
  BY <1>2 DEF BrushBit
<1>5. z1 = ((ox % u) + u - (X % u)) % u /\ z2 = ((oy % u) + u - (Y % u)) % u
      /\ X \in Nat /\ Y \in Nat /\ ox \in Nat /\ oy \in Nat /\ l \in Nat /\ l > 0 /\ u % l = 0 /\ i \in Nat /\ j \in Nat
  BY <1>0
<1> HIDE DEF u, l, ph, z1, z2, X, Y, ox, oy
<1>6. z1 \in Nat /\ (X + i + z1) % u = (i + ox) % u
  <2>1. Phased(u, ox, X, i, z1)
    BY <1>1, <1>5 DEF Phased
  <2>2. QED
    BY <2>1, PhaseIs
<1>7. z2 \in Nat /\ (Y + j + z2) % u = (j + oy) % u
  <2>1. Phased(u, oy, Y, j, z2)
    BY <1>1, <1>5 DEF Phased
  <2>2. QED
    BY <2>1, PhaseIs
<1>8. ((j + oy) % u) % l = (j + oy) % l
  <2> DEFINE z == j + oy
  <2>1. z \in Nat
    BY <1>5
  <2> HIDE DEF z
  <2>2. (z % u) % l = z % l
    <3>1. Whole(u, l)
      BY <1>1, <1>5 DEF Whole
    <3>2. QED
      BY <2>1, <3>1, RestOfRest
  <2>3. QED
    BY <2>2 DEF z
<1>9. BrushBits(p, at, w, h)[<<i, j>>] = p.rows[1 + ((j + oy) % l)][1 + ((i + ox) % u)]
  BY <1>3, <1>4, <1>6, <1>7, <1>8
<1>10. QED
  BY <1>9 DEF l, ox, oy, u, PatternBit
------------------------------------------------------------------------------
(* A rectangle in a pattern.                                                *)
PatternValues(s, p, mask, f) ==
  [master |-> Master("pattern", f, ROP3_P), mask |-> <<WriteMask(mask, f)>>,
   fg |-> <<HardwarePen(p.fg, f)>>, bg |-> <<HardwarePen(p.bg, f)>>, cntl |-> LeftToRight, dst |-> s.po]

Patterned(r, f, q, p, bits, mask, mem, P) ==
  /\ Beside(r, f, q, mem, P)
  /\ \A i \in 0..q[3]-1, j \in 0..q[4]-1 :
       P[Pixel(r, f, q[1] + i, q[2] + j)] =
         Masked(mem[Pixel(r, f, q[1] + i, q[2] + j)], IF bits[<<i, j>>] = 1 THEN p.fg ELSE p.bg, mask, f)

PatternInk(c, f, p, mask) ==
  /\ c.regs.master = <<"pattern", f, ROP3_P>> /\ c.regs.mask = <<WriteMask(mask, f)>>
  /\ c.regs.fg = <<HardwarePen(p.fg, f)>> /\ c.regs.bg = <<HardwarePen(p.bg, f)>>
  /\ p.fg \in SUBSET Plane /\ p.bg \in SUBSET Plane

LEMMA PatternPixel ==
  ASSUME NEW c, NEW f, NEW p, NEW mask, PatternInk(c, f, p, mask), NEW one \in BOOLEAN, NEW old \in SUBSET Plane
  PROVE  Combined(c, one, {}, old) = Masked(old, IF one THEN p.fg ELSE p.bg, mask, f)
<1> DEFINE none == {}
           pen == IF one THEN p.fg ELSE p.bg
<1>1. /\ c.regs.master = <<"pattern", f, ROP3_P>> /\ c.regs.mask = <<WriteMask(mask, f)>>
      /\ c.regs.fg = <<HardwarePen(p.fg, f)>> /\ c.regs.bg = <<HardwarePen(p.bg, f)>>
      /\ p.fg \in SUBSET Plane /\ p.bg \in SUBSET Plane
  BY DEF PatternInk
<1>2. c.regs.master[1] = "pattern" /\ c.regs.master[2] = f /\ c.regs.master[3] = ROP3_P /\ "pattern" \notin Mono
  BY <1>1 DEF Mono
<1>3. Pen1(c, one) = HardwarePen(pen, f) /\ Pen2(c, one) = HardwarePen(none, f)
  BY <1>1, <1>2, NoPlanes DEF Pen1, Pen2
<1>4. none \in SUBSET Plane /\ pen \in SUBSET Plane /\ c.regs.master[1] # "copy"
  BY <1>1, <1>2
<1> HIDE DEF none, pen
<1>5. Combined(c, one, {}, old) = Masked(old, Rop3(c.regs.master[3], pen, none, old), mask, f)
  <2>1. Inked(c, f, one, pen, none, mask, old)
    BY <1>1, <1>2, <1>3, <1>4 DEF Inked
  <2>2. QED
    BY <2>1, CombinedIs
<1>6. Rop3(c.regs.master[3], pen, none, old) = pen
  <2>1. Rop3(ROP3_P, pen, none, old) = pen
    BY <1>4, RopPattern
  <2>2. QED
    BY <1>2, <2>1
<1>7. QED
  BY <1>5, <1>6 DEF pen

LEMMA PatternPainted ==
  ASSUME NEW s, NEW r, NEW q, NEW f, Sited(s, r, q, f), NEW c, NEW p, p.fg \in SUBSET Plane, p.bg \in SUBSET Plane,
         NEW mask, \A g \in DOMAIN PatternValues(s, p, mask, f) : c.regs[g] = PatternValues(s, p, mask, f)[g],
         NEW mem, Pixels(mem), NEW bits,
         NEW P, P = Paint(c, mem, Origin(s, q[1], q[2]), <<q[3], q[4]>>, <<0, 0>>, bits)
  PROVE  Patterned(r, f, q, p, bits, mask, mem, P)
<1> DEFINE at == Origin(s, q[1], q[2])
           size == <<q[3], q[4]>>
           from == <<0, 0>>
           w == q[3]
<1>1. /\ c.regs.master = <<"pattern", f, ROP3_P>> /\ c.regs.mask = <<WriteMask(mask, f)>>
      /\ c.regs.fg = <<HardwarePen(p.fg, f)>> /\ c.regs.bg = <<HardwarePen(p.bg, f)>>
      /\ c.regs.cntl = LeftToRight /\ c.regs.dst = s.po
  BY DEF PatternValues, Master
<1>2. c.regs.master[1] = "pattern" /\ c.regs.master[2] = f
  BY <1>1
<1>3. SetUp(c, s, q, f, w)
  <2>1. Needed(c.regs.master[1]) = {"master", "mask", "cntl", "dst", "fg", "bg"}
    BY <1>2 DEF Needed, Mono
  <2>2. s.po # Unknown
    BY DEF Sited, Unknown
  <2>3. \A g \in {"master", "mask", "cntl", "dst", "fg", "bg"} : c.regs[g] # Unknown
    <3>1. c.regs.master # <<>> /\ c.regs.fg # <<>> /\ c.regs.bg # <<>> /\ c.regs.mask # <<>>
      BY <1>1
    <3>2. c.regs.cntl # <<>>
      BY <1>1 DEF LeftToRight
    <3>3. QED
      BY <1>1, <2>2, <3>1, <3>2 DEF Unknown
  <2>4. w \in Nat /\ c.regs.master[1] # "copy" /\ c.regs.master[1] \notin Mono
    BY <1>2 DEF Mono, Sited
  <2>5. QED
    BY <1>1, <1>2, <2>1, <2>3, <2>4 DEF SetUp
<1>4. Job(c, s, r, q, f, w, at, size)
  BY <1>3 DEF Job
<1> HIDE DEF at, size, from, w
<1>5. P = Paint(c, mem, at, size, from, bits) /\ DOMAIN mem = 0..Aperture-1
  BY DEF at, size, from, Pixels
<1>6. RectDrawn(c, r, q, f, bits, mem, P)
  BY <1>4, <1>5, RectPainted
<1>7. PatternInk(c, f, p, mask)
  BY <1>1 DEF PatternInk
<1>8. ASSUME NEW i \in 0..q[3]-1, NEW j \in 0..q[4]-1
      PROVE P[Pixel(r, f, q[1] + i, q[2] + j)] =
              Masked(mem[Pixel(r, f, q[1] + i, q[2] + j)], IF bits[<<i, j>>] = 1 THEN p.fg ELSE p.bg, mask, f)
  <2> DEFINE a == Pixel(r, f, q[1] + i, q[2] + j)
             one == bits[<<i, j>>] = 1
             old == mem[a]
  <2>1. c.regs.master[1] \notin Transparent
    BY <1>2 DEF Transparent
  <2>2. P[a] = Combined(c, one, {}, old)
    BY <1>6, <2>1 DEF RectDrawn
  <2>3. old \in SUBSET Plane
    <3>1. a \in 0..Aperture-1
      BY PixelIs
    <3> HIDE DEF a
    <3>2. QED
      BY <3>1 DEF Pixels
  <2>4. one \in BOOLEAN
    OBVIOUS
  <2> HIDE DEF one, old
  <2>5. Combined(c, one, {}, old) = Masked(old, IF one THEN p.fg ELSE p.bg, mask, f)
    BY <1>7, <2>3, <2>4, PatternPixel
  <2>6. QED
    BY <2>2, <2>5 DEF old, one
<1>9. QED
  BY <1>6, <1>8 DEF RectDrawn, Patterned, Beside

LEMMA PatternOutcome ==
  ASSUME NEW c, Sound(c), Drawing(c), NEW mem, Pixels(mem), NEW s, NEW r, NEW q, NEW f, Sited(s, r, q, f),
         NEW p, p.fg \in SUBSET Plane, p.bg \in SUBSET Plane, NEW mask,
         NEW o \in SubmitPattern(c, mem, s, p, q[1], q[2], q[3], q[4], mask, f), o.ok, ~o.c.slipped
  PROVE  Patterned(r, f, q, p, BrushBits(p, Origin(s, q[1], q[2]), q[3], q[4]), mask, mem, o.mem)
<1> DEFINE values == PatternValues(s, p, mask, f)
           g(d) == SetEngineState(BeginEnginePath(d.c, FALSE), values)
           at == Origin(s, q[1], q[2])
           size == <<q[3], q[4]>>
           from == <<0, 0>>
           bits == BrushBits(p, at, q[3], q[4])
<1>1. PICK d \in PrepareMmioEngine(c, mem) :
        o \in IF d.ok THEN Draw(g(d), d.mem, at, size, from, bits) ELSE {d}
  BY DEF SubmitPattern, AndThen, PatternValues
<1>2. DOMAIN values \subseteq Register /\ values["dst"] = s.po
  BY DEF Register, PatternValues
<1>3. \A n \in DOMAIN values \cap {"dst", "src"} : Aligned(values[n])
  BY <1>2 DEF Sited, PatternValues
<1>4. d.ok
  BY <1>1
<1>5. mem # <<>>
  BY SomewhereIs
<1> DEFINE e == g(d)
           P == o.mem
<1>6. e = SetEngineState(BeginEnginePath(d.c, FALSE), values) /\ o \in Draw(e, d.mem, at, size, from, bits)
  BY <1>1, <1>4
<1> HIDE DEF values, at, size, from, bits, e
<1>7. /\ o.ok /\ P = Paint(e, mem, at, size, from, bits) /\ o.c.slipped = e.slipped
      /\ ~e.slipped => \A n \in DOMAIN values : e.regs[n] = values[n]
  <2>1. Submits(c, mem, d, values, e, at, size, from, bits, o)
    BY <1>2, <1>3, <1>4, <1>6 DEF Submits
  <2>2. QED
    BY <1>5, <2>1, DrewPainted
<1>8. /\ \A n \in DOMAIN PatternValues(s, p, mask, f) : e.regs[n] = PatternValues(s, p, mask, f)[n]
      /\ P = Paint(e, mem, Origin(s, q[1], q[2]), <<q[3], q[4]>>, <<0, 0>>, bits)
  BY <1>7 DEF values, at, size, from
<1> HIDE DEF P
<1>9. Patterned(r, f, q, p, bits, mask, mem, P)
  BY <1>8, PatternPainted
<1>10. QED
  BY <1>9 DEF P, bits, at
LEMMA BlitPatternPaints ==
  ASSUME Sound(card), Quiet(card), NEW r, r.memory \in Int, r.pitch \in Int,
         NEW q, q[1] \in Int, q[2] \in Int, q[3] \in Int, q[4] \in Int, NEW f \in {0, 1, 2, 4},
         NEW p, PatternGiven(p), NEW mask, BlitPattern(r, q, p, mask, f)
  PROVE  PaintsAsAsked'
<1> DEFINE s == ValidateSurface(card, r, q[1], q[2], q[3], q[4], f)
           rejected == s.result = "reject"
           hardware == PrepareMonoPattern(p) /\ HardwareReady(s)
           legal == Legal(card, r, f, q)
           bit(i, j) == PatternBit(p, i, j)
           drawn == SubmitPattern(card, OnBoard, s, p, q[1], q[2], q[3], q[4], mask, f)
           asked == Asked(r, f, q, LAMBDA i, j, old : Masked(old, IF bit(i, j) = 1 THEN p.fg ELSE p.bg, mask, f))
           torn == FALSE
           off == Offboard(s) /\ ~p.onboard
           at == Origin(s, q[1], q[2])
           bits == BrushBits(p, at, q[3], q[4])
           pen(i, j) == IF bit(i, j) = 1 THEN p.fg ELSE p.bg
           results == IF rejected THEN Dropped(card, legal)
                      ELSE IF hardware THEN Drawn(drawn, asked, torn) ELSE Softly(card, off)
<1>1. Happens(results)
  BY Zenon DEF BlitPattern, PatternBit
<1>2. Drawing(card) /\ card.limit \in 0..Aperture
  BY Limits DEF Quiet, Drawing, Sound, Typed
<1>3. hardware \in BOOLEAN /\ (hardware => s.result = "hardware")
  BY Zenon DEF HardwareReady
<1>4. s = ValidateSurface(card, r, q[1], q[2], q[3], q[4], f)
  BY Zenon
<1>5. hardware => p.size <= 3
  BY DEF PrepareMonoPattern
<1> HIDE DEF s, hardware, torn, off, rejected, legal
<1>6. hardware => Sited(s, r, q, f)
  BY <1>2, <1>3, <1>4, ReadySited
<1>7. /\ asked = [a \in 0..Aperture-1 |-> asked[a]]
      /\ \A a \in 0..Aperture-1 :
           asked[a] = IF \E i \in 0..q[3]-1, j \in 0..q[4]-1 : Pixel(r, f, q[1] + i, q[2] + j) = a
                      THEN Masked(OnBoard[a], pen(Place(r, f, q, a)[1], Place(r, f, q, a)[2]), mask, f) ELSE OnBoard[a]
  <2> HIDE DEF bit
  <2>1. QED
    BY Labelled DEF Asked, Pixels, Place
<1> HIDE DEF asked, pen
<1>8. Beside(r, f, q, OnBoard, asked)
  BY <1>7 DEF Beside
<1>9. hardware => \A o \in drawn : Follows(card, o)
  <2>1. hardware => Aligned(s.po)
    BY <1>6 DEF Sited
  <2> DEFINE x == q[1]
             y == q[2]
             w == q[3]
             h == q[4]
  <2> HIDE DEF x, y, w, h
  <2>2. hardware => \A o \in SubmitPattern(card, OnBoard, s, p, x, y, w, h, mask, f) : Follows(card, o)
    BY <1>2, <2>1, PatternFollows
  <2>3. QED
    BY <2>2 DEF x, y, w, h
<1> HIDE DEF bit
<1>10. hardware => Right(drawn, asked)
  <2>1. SUFFICES ASSUME hardware, NEW o \in drawn, o.ok, ~o.c.slipped PROVE o.mem = asked
    BY DEF Right
  <2> DEFINE P == o.mem
  <2>2. Patterned(r, f, q, p, bits, mask, OnBoard, P)
    BY <1>2, <1>6, <2>1, Labelled, PatternOutcome DEF PatternGiven
  <2> HIDE DEF P, bits
  <2>3. at[1] \in Nat /\ at[2] \in Nat /\ q[3] \in Nat /\ q[4] \in Nat
    <3>1. s.bias[1] \in Nat /\ s.bias[2] \in Nat
      <4> DEFINE z == 0
      <4>1. z \in Int
        OBVIOUS
      <4> HIDE DEF z
      <4>2. QED
        BY <1>6, <2>1, <4>1, PixelAddress
    <3>2. q[1] \in Nat /\ q[2] \in Nat /\ q[3] \in Nat /\ q[4] \in Nat
      BY <1>6, <2>1 DEF Sited
    <3>3. at[1] = q[1] + s.bias[1] /\ at[2] = q[2] + s.bias[2]
      BY DEF Origin
    <3> HIDE DEF at
    <3>4. QED
      BY <3>1, <3>2, <3>3
  <2> HIDE DEF at
  <2>4. ASSUME NEW i \in 0..q[3]-1, NEW j \in 0..q[4]-1
        PROVE P[Pixel(r, f, q[1] + i, q[2] + j)] = asked[Pixel(r, f, q[1] + i, q[2] + j)]
    <3> DEFINE a == Pixel(r, f, q[1] + i, q[2] + j)
    <3>1. a \in 0..Aperture-1
      BY <1>6, <2>1, PixelIs
    <3>2. Place(r, f, q, a)[1] = i /\ Place(r, f, q, a)[2] = j
      BY <1>6, <2>1, PlaceIs
    <3>3. asked[a] = Masked(OnBoard[a], pen(i, j), mask, f)
      BY <1>7, <3>1, <3>2
    <3>4. P[a] = Masked(OnBoard[a], IF bits[<<i, j>>] = 1 THEN p.fg ELSE p.bg, mask, f)
      BY <2>2 DEF Patterned
    <3>5. bits[<<i, j>>] = bit(i, j)
      <4> DEFINE w == q[3]
                 h == q[4]
      <4>1. w \in Nat /\ h \in Nat /\ i \in 0..w-1 /\ j \in 0..h-1
        BY <2>3
      <4> HIDE DEF w, h
      <4>2. BrushBits(p, at, w, h)[<<i, j>>] = PatternBit(p, i, j)
        <5>1. Brush(p, at, w, h, i, j)
          BY <1>5, <2>1, <2>3, <4>1 DEF Brush
        <5>2. QED
          BY <5>1, BrushIs
      <4>3. QED
        BY <4>2 DEF bits, bit, w, h
    <3> HIDE DEF a
    <3>6. QED
      BY <3>3, <3>4, <3>5 DEF a, pen
  <2>5. Beside(r, f, q, OnBoard, P) /\ Alike(r, f, q, P, asked)
    BY <2>2, <2>4 DEF Patterned, Alike
  <2>6. P = asked
    BY <1>8, <2>5, SameMemory
  <2>7. QED
    BY <2>6 DEF P
<1> HIDE DEF drawn
<1>11. results = IF rejected THEN Dropped(card, legal)
                 ELSE IF hardware THEN Drawn(drawn, asked, torn) ELSE Softly(card, off)
  OBVIOUS
<1> HIDE DEF results
<1>12. QED
  BY <1>1, <1>3, <1>9, <1>10, <1>11, SurfaceShows, ZenonT(60)
------------------------------------------------------------------------------
(* A rectangle in two pens by a stream of bits, or in one and transparent.  *)
StreamValues(s, kind, at, w, h, fg, bg, writeMask, f) ==
  [master |-> Master(kind, f, ROP3_S), mask |-> <<writeMask>>, srcfg |-> <<HardwarePen(fg, f)>>,
   srcbg |-> <<HardwarePen(bg, f)>>, cntl |-> LeftToRight, dst |-> s.po,
   tl |-> at, br |-> <<at[1] + w, at[2] + h>>]

Streamed(r, f, q, fg, bg, mask, transparent, bits, mem, P) ==
  /\ Beside(r, f, q, mem, P)
  /\ \A i \in 0..q[3]-1, j \in 0..q[4]-1 :
       P[Pixel(r, f, q[1] + i, q[2] + j)] =
         IF transparent /\ bits[<<i, j>>] # 1 THEN mem[Pixel(r, f, q[1] + i, q[2] + j)]
         ELSE Masked(mem[Pixel(r, f, q[1] + i, q[2] + j)], IF bits[<<i, j>>] = 1 THEN fg ELSE bg, mask, f)

StreamInk(c, f, kind, fg, bg, mask) ==
  /\ kind \in Mono /\ c.regs.master = <<kind, f, ROP3_S>> /\ c.regs.mask = <<WriteMask(mask, f)>>
  /\ c.regs.srcfg = <<HardwarePen(fg, f)>> /\ c.regs.srcbg = <<HardwarePen(bg, f)>>
  /\ fg \in SUBSET Plane /\ bg \in SUBSET Plane

LEMMA StreamPixel ==
  ASSUME NEW c, NEW f, NEW kind, NEW fg, NEW bg, NEW mask, StreamInk(c, f, kind, fg, bg, mask),
         NEW one \in BOOLEAN, NEW old \in SUBSET Plane
  PROVE  Combined(c, one, {}, old) = Masked(old, IF one THEN fg ELSE bg, mask, f)
<1> DEFINE none == {}
           pen == IF one THEN fg ELSE bg
<1>1. /\ kind \in Mono /\ c.regs.master = <<kind, f, ROP3_S>> /\ c.regs.mask = <<WriteMask(mask, f)>>
      /\ c.regs.srcfg = <<HardwarePen(fg, f)>> /\ c.regs.srcbg = <<HardwarePen(bg, f)>>
      /\ fg \in SUBSET Plane /\ bg \in SUBSET Plane
  BY DEF StreamInk
<1>2. c.regs.master[1] = kind /\ c.regs.master[2] = f /\ c.regs.master[3] = ROP3_S /\ kind # "copy"
  BY <1>1 DEF Mono
<1>3. Pen1(c, one) = HardwarePen(none, f) /\ Pen2(c, one) = HardwarePen(pen, f)
  BY <1>1, <1>2, NoPlanes DEF Pen1, Pen2
<1>4. none \in SUBSET Plane /\ pen \in SUBSET Plane /\ c.regs.master[1] # "copy"
  BY <1>1, <1>2
<1> HIDE DEF none, pen
<1>5. Combined(c, one, {}, old) = Masked(old, Rop3(c.regs.master[3], none, pen, old), mask, f)
  <2>1. Inked(c, f, one, none, pen, mask, old)
    BY <1>1, <1>2, <1>3, <1>4 DEF Inked
  <2>2. QED
    BY <2>1, CombinedIs
<1>6. Rop3(c.regs.master[3], none, pen, old) = pen
  <2>1. Rop3(ROP3_S, none, pen, old) = pen
    BY <1>4, RopSource
  <2>2. QED
    BY <1>2, <2>1
<1>7. QED
  BY <1>5, <1>6 DEF pen

\* The stream is w columns wide, of which the rectangle takes the first.
Stream(c, s, kind, q, fg, bg, mask, f, w) ==
  /\ kind \in Mono /\ fg \in SUBSET Plane /\ bg \in SUBSET Plane /\ w \in Nat /\ q[3] <= w
  /\ \A g \in {"master", "mask", "srcfg", "srcbg", "cntl", "dst", "tl", "br"} :
       c.regs[g] = StreamValues(s, kind, Origin(s, q[1], q[2]), q[3], q[4], fg, bg, WriteMask(mask, f), f)[g]

LEMMA StreamPainted ==
  ASSUME NEW s, NEW r, NEW q, NEW f, Sited(s, r, q, f), NEW c, NEW kind, NEW fg, NEW bg, NEW mask, NEW w,
         Stream(c, s, kind, q, fg, bg, mask, f, w), NEW mem, Pixels(mem), NEW bits,
         NEW P, P = Paint(c, mem, Origin(s, q[1], q[2]), <<w, q[4]>>, <<0, 0>>, bits)
  PROVE  Streamed(r, f, q, fg, bg, mask, kind \in Transparent, bits, mem, P)
<1> DEFINE at == Origin(s, q[1], q[2])
           size == <<w, q[4]>>
           from == <<0, 0>>
           transparent == kind \in Transparent
<1>1. /\ c.regs.master = <<kind, f, ROP3_S>> /\ c.regs.mask = <<WriteMask(mask, f)>>
      /\ c.regs.srcfg = <<HardwarePen(fg, f)>> /\ c.regs.srcbg = <<HardwarePen(bg, f)>>
      /\ c.regs.cntl = LeftToRight /\ c.regs.dst = s.po
      /\ c.regs.tl = at /\ c.regs.br = <<at[1] + q[3], at[2] + q[4]>>
      /\ kind \in Mono /\ fg \in SUBSET Plane /\ bg \in SUBSET Plane /\ w \in Nat /\ q[3] <= w
  BY DEF Stream, StreamValues, Master
<1>2. c.regs.master[1] = kind /\ c.regs.master[2] = f /\ kind # "copy"
  BY <1>1 DEF Mono
<1>3. SetUp(c, s, q, f, w)
  <2>1. Needed(c.regs.master[1]) = {"master", "mask", "cntl", "dst", "tl", "br", "srcfg", "srcbg"}
    BY <1>1, <1>2 DEF Needed
  <2>2. s.po # Unknown
    BY DEF Sited, Unknown
  <2>3. \A g \in {"master", "mask", "cntl", "dst", "tl", "br", "srcfg", "srcbg"} : c.regs[g] # Unknown
    <3>1. c.regs.master # <<>> /\ c.regs.srcfg # <<>> /\ c.regs.srcbg # <<>> /\ c.regs.mask # <<>> /\ c.regs.br # <<>>
      BY <1>1
    <3>2. c.regs.cntl # <<>> /\ c.regs.tl # <<>>
      BY <1>1 DEF LeftToRight, Origin
    <3>3. QED
      BY <1>1, <2>2, <3>1, <3>2 DEF Unknown
  <2>4. QED
    BY <1>1, <1>2, <2>1, <2>3 DEF SetUp
<1>4. Job(c, s, r, q, f, w, at, size)
  BY <1>3 DEF Job
<1> HIDE DEF at, size, from
<1>5. P = Paint(c, mem, at, size, from, bits) /\ DOMAIN mem = 0..Aperture-1
  BY DEF at, size, from, Pixels
<1>6. RectDrawn(c, r, q, f, bits, mem, P)
  BY <1>4, <1>5, RectPainted
<1>7. StreamInk(c, f, kind, fg, bg, mask)
  BY <1>1 DEF StreamInk
<1>8. ASSUME NEW i \in 0..q[3]-1, NEW j \in 0..q[4]-1
      PROVE P[Pixel(r, f, q[1] + i, q[2] + j)] =
              IF transparent /\ bits[<<i, j>>] # 1 THEN mem[Pixel(r, f, q[1] + i, q[2] + j)]
              ELSE Masked(mem[Pixel(r, f, q[1] + i, q[2] + j)], IF bits[<<i, j>>] = 1 THEN fg ELSE bg, mask, f)
  <2> DEFINE a == Pixel(r, f, q[1] + i, q[2] + j)
             one == bits[<<i, j>>] = 1
             old == mem[a]
  <2>1. c.regs.master[1] \in Transparent <=> transparent
    BY <1>2
  <2>2. P[a] = IF transparent /\ ~one THEN old ELSE Combined(c, one, {}, old)
    BY <1>6, <2>1 DEF RectDrawn
  <2>3. old \in SUBSET Plane
    <3>1. a \in 0..Aperture-1
      BY PixelIs
    <3> HIDE DEF a
    <3>2. QED
      BY <3>1 DEF Pixels
  <2>4. one \in BOOLEAN
    OBVIOUS
  <2> HIDE DEF one, old, transparent
  <2>5. Combined(c, one, {}, old) = Masked(old, IF one THEN fg ELSE bg, mask, f)
    BY <1>7, <2>3, <2>4, StreamPixel
  <2>6. QED
    BY <2>2, <2>5 DEF old, one
<1>9. QED
  BY <1>6, <1>8 DEF RectDrawn, Streamed, Beside, transparent
(* Written and drawn, from a board whose registers are as remembered.       *)
Writes(b, mem, values, e, at, size, from, bits, o) ==
  /\ Writable(b) /\ DOMAIN values \subseteq Register
  /\ \A r \in DOMAIN values \cap {"dst", "src"} : Aligned(values[r])
  /\ e = SetEngineState(b, values) /\ o \in Draw(e, mem, at, size, from, bits)

LEMMA WrotePainted ==
  ASSUME NEW b, NEW mem, NEW values, NEW e, NEW at, NEW size, NEW from, NEW bits, NEW o,
         Writes(b, mem, values, e, at, size, from, bits, o)
  PROVE  /\ o.ok /\ o.c.slipped = e.slipped /\ Writable(e) /\ e.ready = b.ready
         /\ o.mem = IF mem = <<>> THEN <<>> ELSE Paint(e, mem, at, size, from, bits)
         /\ ~e.slipped => \A r \in DOMAIN values : e.regs[r] = values[r]
<1>1. /\ Writable(b) /\ DOMAIN values \subseteq Register
      /\ \A r \in DOMAIN values \cap {"dst", "src"} : Aligned(values[r])
      /\ e = SetEngineState(b, values) /\ o \in Draw(e, mem, at, size, from, bits)
  BY DEF Writes
<1>2. /\ Writable(e) /\ e.ready = b.ready
      /\ ~e.slipped => \A r \in DOMAIN values : e.regs[r] = values[r]
  BY <1>1, SetWritable
<1> DEFINE p == Painted(e)
           n == IF mem = <<>> THEN <<>> ELSE Paint(e, mem, at, size, from, bits)
<1>3. o = Outcome(TRUE, p, n)
  BY <1>1 DEF Draw
<1>4. p.slipped = e.slipped
  BY <1>2 DEF Painted, Writable, Sound, Typed, CardField
<1> HIDE DEF p, n
<1>5. o.ok /\ o.c = p /\ o.mem = n
  BY <1>3, Granted
<1>6. QED
  BY <1>2, <1>4, <1>5 DEF n

LEMMA RoundUpCovers ==
  ASSUME NEW n \in Nat, NEW u \in Nat, u > 0
  PROVE  RoundUp(n, u) \in Nat /\ n <= RoundUp(n, u)
<1> DEFINE a == (n + u - 1) \div u
<1>1. a \in Nat /\ RoundUp(n, u) = a * u /\ n + u - 1 < a * u + u
  BY DEF RoundUp
<1> HIDE DEF a
<1>2. a * u \in Nat
  BY <1>1
<1>3. QED
  BY <1>1, <1>2

(* An upload that comes to its end found the host data path as it must be.  *)
LEMMA HostOutcome ==
  ASSUME NEW c, Sound(c), Drawing(c), NEW mem, Pixels(mem), NEW s, NEW r, NEW q, NEW f, Sited(s, r, q, f),
         NEW fg \in SUBSET Plane, NEW bg \in SUBSET Plane, NEW mask, NEW transparent \in BOOLEAN, NEW bits,
         NEW o \in HostUpload(c, mem, s, q[1], q[2], q[3], q[4], fg, bg, WriteMask(mask, f), transparent, f, bits),
         o.ok, ~o.c.slipped
  PROVE  Streamed(r, f, q, fg, bg, mask, transparent, bits, mem, o.mem)
<1> DEFINE at == Origin(s, q[1], q[2])
           kind == IF transparent THEN "hostla" ELSE "hostbg"
           values == StreamValues(s, kind, at, q[3], q[4], fg, bg, WriteMask(mask, f), f)
           begun(d) == BeginEnginePath(d.c, TRUE)
           g(d) == SetEngineState(HostPathOpened(begun(d)), values)
           m(d) == IF HostPathGood(g(d)) THEN d.mem ELSE <<>>
           w == RoundUp(q[3], HostBits)
           size == <<w, q[4]>>
           from == <<0, 0>>
           P == o.mem
<1>1. PICK d \in PrepareMmioEngine(c, mem) :
        o \in IF d.ok THEN {Outcome(FALSE, HostPathBroken(begun(d)), d.mem)} \cup
                           Draw(g(d), m(d), at, size, from, bits)
              ELSE {d}
  BY DEF HostUpload, AndThen, StreamValues
<1>2. Follows(c, d) /\ (d.ok => Writable(d.c))
  BY PrepareFollows
<1>3. d.ok
  BY <1>1
<1>4. o \in Draw(g(d), m(d), at, size, from, bits)
  <2>1. \A x, y : ~Outcome(FALSE, x, y).ok
    BY DEF Outcome
  <2> HIDE DEF g, m, begun, at, size, from
  <2>2. QED
    BY <1>1, <1>3, <2>1
<1>5. d.mem = mem
  BY <1>3, PrepareMemory
<1> DEFINE yes == TRUE
           b == BeginEnginePath(d.c, yes)
           opened == HostPathOpened(b)
           e == SetEngineState(opened, values)
           n == m(d)
<1>6. e = g(d) /\ yes \in BOOLEAN /\ b = BeginEnginePath(d.c, yes) /\ opened = HostPathOpened(b)
      /\ e = SetEngineState(opened, values) /\ n = IF HostPathGood(e) THEN mem ELSE <<>>
  BY <1>5
<1>7. o \in Draw(e, n, at, size, from, bits)
  BY <1>4, <1>6
<1> HIDE DEF e, n, opened, b, yes, at, size, from
<1>8. Writable(b)
  BY <1>2, <1>3, <1>6, BeginKeeps DEF Writable
<1>9. Writable(opened)
  BY <1>6, <1>8, OpenedSound
<1>10. opened.ready
  <2>1. DOMAIN b = CardField
    BY <1>8 DEF Writable, Sound, Typed
  <2>2. QED
    BY <1>6, <2>1 DEF HostPathOpened, CardField
<1>11. DOMAIN values = {"master", "mask", "srcfg", "srcbg", "cntl", "dst", "tl", "br"} /\ values["dst"] = s.po
  BY DEF StreamValues
<1>12. DOMAIN values \subseteq Register
  BY <1>11 DEF Register
<1>13. \A k \in DOMAIN values \cap {"dst", "src"} : Aligned(values[k])
  BY <1>11 DEF Sited
<1> HIDE DEF values, P
<1>14. /\ o.ok /\ o.c.slipped = e.slipped /\ Writable(e) /\ e.ready = opened.ready
       /\ P = IF n = <<>> THEN <<>> ELSE Paint(e, n, at, size, from, bits)
       /\ ~e.slipped => \A k \in DOMAIN values : e.regs[k] = values[k]
  <2>1. Writes(opened, n, values, e, at, size, from, bits, o)
    BY <1>6, <1>7, <1>9, <1>12, <1>13 DEF Writes
  <2>2. QED
    BY <2>1, WrotePainted DEF P
<1>15. HostPathGood(e)
  BY <1>10, <1>14 DEF Writable, Sound, Reliable, PathKept
<1>16. n = mem /\ mem # <<>>
  BY <1>6, <1>15, SomewhereIs
<1>17. P = Paint(e, mem, Origin(s, q[1], q[2]), <<w, q[4]>>, <<0, 0>>, bits)
  BY <1>14, <1>16 DEF at, size, from
<1>18. w \in Nat /\ q[3] <= w
  <2>1. q[3] \in Nat /\ HostBits \in Nat /\ HostBits > 0
    BY Draw2DAssumption DEF Sited
  <2>2. QED
    BY <2>1, RoundUpCovers
<1>19. kind \in Mono /\ (kind \in Transparent <=> transparent)
  BY DEF Mono, Transparent
<1> HIDE DEF w, kind
<1>20. Stream(e, s, kind, q, fg, bg, mask, f, w)
  BY <1>11, <1>14, <1>18, <1>19 DEF Stream, values, at
<1>21. Streamed(r, f, q, fg, bg, mask, kind \in Transparent, bits, mem, P)
  BY <1>17, <1>20, StreamPainted
<1>22. QED
  BY <1>19, <1>21 DEF Streamed, P
------------------------------------------------------------------------------
(* Templates, by either path.                                               *)
TemplateGiven(t, f, mask) ==
  t.fg \in SUBSET Plane /\ t.bg \in SUBSET Plane /\ t.mode \in {"jam1", "jam2"} /\ (f = 1 => mask = Plane)

TemplateOne(t, i, j) == t.rows[j + 1][t.xoff + i + 1]

Templated(r, f, q, t, mem, P) ==
  /\ Beside(r, f, q, mem, P)
  /\ \A i \in 0..q[3]-1, j \in 0..q[4]-1 :
       P[Pixel(r, f, q[1] + i, q[2] + j)] =
         IF TemplateOne(t, i, j) = 1 THEN t.fg
         ELSE IF t.mode = "jam2" THEN t.bg ELSE mem[Pixel(r, f, q[1] + i, q[2] + j)]

LEMMA StreamedTemplate ==
  ASSUME NEW s, NEW r, NEW q, NEW f, Sited(s, r, q, f), NEW t, NEW mask, TemplateGiven(t, f, mask),
         NEW transparent \in BOOLEAN, transparent <=> t.mode # "jam2", NEW mem, Pixels(mem), NEW bits, NEW P,
         Streamed(r, f, q, t.fg, t.bg, mask, transparent, bits, mem, P),
         \A i \in 0..q[3]-1, j \in 0..q[4]-1 : bits[<<i, j>>] = TemplateOne(t, i, j)
  PROVE  Templated(r, f, q, t, mem, P)
<1>1. WriteMask(mask, f) = Plane
  BY DEF WriteMask, TemplateGiven
<1>2. ASSUME NEW i \in 0..q[3]-1, NEW j \in 0..q[4]-1
      PROVE P[Pixel(r, f, q[1] + i, q[2] + j)] =
              IF TemplateOne(t, i, j) = 1 THEN t.fg
              ELSE IF t.mode = "jam2" THEN t.bg ELSE mem[Pixel(r, f, q[1] + i, q[2] + j)]
  <2> DEFINE a == Pixel(r, f, q[1] + i, q[2] + j)
             one == bits[<<i, j>>] = 1
             old == mem[a]
  <2>1. P[a] = IF transparent /\ ~one THEN old ELSE Masked(old, IF one THEN t.fg ELSE t.bg, mask, f)
    BY DEF Streamed
  <2>2. old \in SUBSET Plane
    <3>1. a \in 0..Aperture-1
      BY PixelIs
    <3> HIDE DEF a
    <3>2. QED
      BY <3>1 DEF Pixels
  <2>3. one <=> TemplateOne(t, i, j) = 1
    OBVIOUS
  <2> HIDE DEF one, old
  <2>4. Masked(old, t.fg, mask, f) = t.fg /\ Masked(old, t.bg, mask, f) = t.bg
    BY <1>1, <2>2 DEF Masked, TemplateGiven
  <2>5. QED
    BY <2>1, <2>3, <2>4 DEF old
<1>3. QED
  BY <1>2 DEF Streamed, Templated

LEMMA HostTemplateOutcome ==
  ASSUME NEW c, Sound(c), Drawing(c), NEW mem, Pixels(mem), NEW s, NEW r, NEW q, NEW f, Sited(s, r, q, f),
         NEW t, NEW mask, TemplateGiven(t, f, mask),
         NEW o \in SubmitTemplate(c, mem, s, t, q[1], q[2], q[3], q[4], mask, f), o.ok, ~o.c.slipped
  PROVE  Templated(r, f, q, t, mem, o.mem)
<1> DEFINE fg == t.fg
           bg == t.bg
           transparent == t.mode = "jam1"
           bits == TemplateBits(t, q[3], q[4])
           P == o.mem
<1>1. fg \in SUBSET Plane /\ bg \in SUBSET Plane /\ transparent \in BOOLEAN /\ (transparent <=> t.mode # "jam2")
  BY DEF TemplateGiven
<1>2. o \in HostUpload(c, mem, s, q[1], q[2], q[3], q[4], fg, bg, WriteMask(mask, f), transparent, f, bits)
  BY DEF SubmitTemplate
<1>3. ASSUME NEW i \in 0..q[3]-1, NEW j \in 0..q[4]-1
      PROVE bits[<<i, j>>] = TemplateOne(t, i, j)
  <2> DEFINE w == q[3]
             h == q[4]
             u == RoundUp(w, HostBits)
             B(k, m) == IF k < w THEN t.rows[m + 1][t.xoff + k + 1] ELSE 0
  <2>1. w \in Nat /\ h \in Nat /\ HostBits \in Nat /\ HostBits > 0 /\ i \in 0..w-1 /\ j \in 0..h-1
    BY Draw2DAssumption DEF Sited
  <2>2. bits = [ij \in (0..u-1) \X (0..h-1) |-> B(ij[1], ij[2])]
    BY DEF TemplateBits
  <2>3. B(i, j) = TemplateOne(t, i, j)
    BY <2>1 DEF TemplateOne
  <2> HIDE DEF w, h, B
  <2>4. u \in Nat /\ w <= u
    BY <2>1, RoundUpCovers
  <2> HIDE DEF u, bits
  <2>5. i \in 0..u-1 /\ j \in 0..h-1
    BY <2>1, <2>4
  <2>6. [ij \in (0..u-1) \X (0..h-1) |-> B(ij[1], ij[2])][<<i, j>>] = B(i, j)
    BY <2>5
  <2>7. QED
    BY <2>2, <2>3, <2>6
<1> HIDE DEF fg, bg, transparent, bits, P
<1>4. Streamed(r, f, q, fg, bg, mask, transparent, bits, mem, P)
  BY <1>1, <1>2, HostOutcome DEF P
<1>5. QED
  BY <1>1, <1>3, <1>4, StreamedTemplate DEF fg, bg, P

(* Bytes are reversed by the driver and by the engine.                      *)
LEMMA ReversedTwice ==
  ASSUME NEW i \in Nat
  PROVE  ReverseByte(ReverseByte(i)) = i
<1> DEFINE u == ByteBits
           a == i \div u
           b == i % u
           c == u - 1 - b
<1>0. u \in Nat /\ u > 0
  BY Granules
<1> HIDE DEF u
<1>1. a \in Nat /\ b \in 0..u-1 /\ i = a * u + b
  BY <1>0, Split
<1>2. ReverseByte(i) = a * u + u - 1 - b
  BY DEF ReverseByte, u
<1> HIDE DEF a, b
<1>3. c \in 0..u-1 /\ u - 1 - c = b /\ a * u \in Nat /\ a * u + u - 1 - b = a * u + c
  BY <1>0, <1>1
<1> HIDE DEF c
<1>4. (a * u + c) \div u = a /\ (a * u + c) % u = c
  BY <1>0, <1>1, <1>3, DivModIs
<1> DEFINE k == a * u + c
<1>5. ReverseByte(k) = (k \div u) * u + u - 1 - (k % u)
  BY DEF ReverseByte, u
<1>6. k \div u = a /\ k % u = c /\ ReverseByte(i) = k
  BY <1>2, <1>3, <1>4
<1> HIDE DEF k
<1>7. ReverseByte(k) = a * u + u - 1 - c
  BY <1>5, <1>6
<1>8. a * u + u - 1 - c = a * u + b
  BY <1>0, <1>1, <1>3
<1>9. QED
  BY <1>1, <1>6, <1>7, <1>8

LEMMA StagedTemplateOutcome ==
  ASSUME NEW c, Sound(c), Drawing(c), c.staging, NEW mem, Pixels(mem), NEW s, NEW r, NEW q, NEW f, Sited(s, r, q, f),
         q[3] <= MaxCoord + 1, MonoPitch(q[3], q[4]) # 0, NEW t, NEW mask, TemplateGiven(t, f, mask),
         NEW o \in SubmitStagedTemplate(c, mem, s, t, q[1], q[2], q[3], q[4], mask, f), o.ok, ~o.c.slipped
  PROVE  Templated(r, f, q, t, mem, o.mem)
<1> DEFINE at == Origin(s, q[1], q[2])
           source == <<MonoPitch(q[3], q[4]), c.limit>>
           fg == t.fg
           bg == t.bg
           kind == IF t.mode = "jam2" THEN "stagebg" ELSE "stagela"
           values == [master |-> Master(kind, f, ROP3_S),
                      mask |-> <<WriteMask(mask, f)>>,
                      srcfg |-> <<HardwarePen(fg, f)>>, srcbg |-> <<HardwarePen(bg, f)>>,
                      cntl |-> LeftToRight, dst |-> s.po, src |-> source,
                      tl |-> at, br |-> <<at[1] + q[3], at[2] + q[4]>>]
           g(d) == SetEngineState(BeginEnginePath(StageFilled(d.c), FALSE), values)
           size == <<q[3], q[4]>>
           from == <<0, 0>>
           bits == StagedBits(t, q[3], q[4])
           w == q[3]
           P == o.mem
<1>1. PICK d \in PrepareMmioEngine(c, mem) :
        o \in IF d.ok THEN Draw(g(d), d.mem, at, size, from, bits) ELSE {d}
  BY DEF SubmitStagedTemplate, AndThen
<1>2. d.ok
  BY <1>1
<1>3. Writable(d.c) /\ d.mem = mem
  BY <1>2, PrepareFollows, PrepareMemory
<1> DEFINE no == FALSE
           b == StageFilled(d.c)
           begun == BeginEnginePath(b, no)
           e == SetEngineState(begun, values)
<1>4. /\ b = StageFilled(d.c) /\ begun = BeginEnginePath(b, no) /\ no \in BOOLEAN
      /\ e = SetEngineState(begun, values) /\ o \in Draw(e, mem, at, size, from, bits)
  BY <1>1, <1>2, <1>3
<1>5. /\ DOMAIN values = {"master", "mask", "srcfg", "srcbg", "cntl", "dst", "src", "tl", "br"}
      /\ values["dst"] = s.po /\ values["src"] = source
  OBVIOUS
<1> HIDE DEF b, begun, e, no
<1>6. Writable(b)
  BY <1>3, <1>4, StagedSound
<1>7. Writable(begun)
  BY <1>4, <1>6, BeginKeeps DEF Writable
<1>8. DOMAIN values \subseteq Register
  BY <1>5 DEF Register
<1>9. Aligned(source)
  <2>1. q[3] \in Nat
    BY DEF Sited
  <2> HIDE DEF source
  <2>2. Aligned(<<MonoPitch(q[3], q[4]), c.limit>>)
    BY <2>1, StageSource
  <2>3. QED
    BY <2>2 DEF source
<1>10. \A k \in DOMAIN values \cap {"dst", "src"} : Aligned(values[k])
  BY <1>5, <1>9 DEF Sited
<1>11. \A k \in {"master", "mask", "srcfg", "srcbg", "cntl", "dst", "tl", "br"} :
         values[k] = StreamValues(s, kind, at, q[3], q[4], fg, bg, WriteMask(mask, f), f)[k]
  BY DEF StreamValues
<1>12. kind \in Mono /\ (kind \in Transparent <=> t.mode # "jam2")
  BY DEF Mono, Transparent
<1> HIDE DEF values, source, at, size, from, bits, P, kind, fg, bg, w
<1>13. /\ o.ok /\ o.c.slipped = e.slipped
       /\ P = IF mem = <<>> THEN <<>> ELSE Paint(e, mem, at, size, from, bits)
       /\ ~e.slipped => \A k \in DOMAIN values : e.regs[k] = values[k]
  <2>1. Writes(begun, mem, values, e, at, size, from, bits, o)
    BY <1>4, <1>7, <1>8, <1>10 DEF Writes
  <2>2. QED
    BY <2>1, WrotePainted DEF P
<1>14. P = Paint(e, mem, Origin(s, q[1], q[2]), <<w, q[4]>>, <<0, 0>>, bits)
  BY <1>13, SomewhereIs DEF at, size, from, w
<1>15. w \in Nat /\ q[3] <= w /\ fg \in SUBSET Plane /\ bg \in SUBSET Plane
  BY DEF w, Sited, TemplateGiven, fg, bg
<1>16. Stream(e, s, kind, q, fg, bg, mask, f, w)
  <2>1. \A k \in {"master", "mask", "srcfg", "srcbg", "cntl", "dst", "tl", "br"} :
          e.regs[k] = StreamValues(s, kind, Origin(s, q[1], q[2]), q[3], q[4], fg, bg, WriteMask(mask, f), f)[k]
    BY <1>5, <1>11, <1>13 DEF at
  <2>2. QED
    BY <1>12, <1>15, <2>1 DEF Stream
<1>17. Streamed(r, f, q, fg, bg, mask, kind \in Transparent, bits, mem, P)
  BY <1>14, <1>16, StreamPainted
<1>18. ASSUME NEW i \in 0..q[3]-1, NEW j \in 0..q[4]-1
       PROVE bits[<<i, j>>] = TemplateOne(t, i, j)
  <2> DEFINE h == q[4]
             B(k, m) == StagedBit(t, w, ReverseByte(k), m)
  <2>1. w = q[3] /\ w \in Nat /\ h \in Nat
    BY DEF Sited, w
  <2>2. i \in Nat /\ i \in 0..w-1 /\ j \in 0..h-1 /\ i < w
    BY <2>1
  <2>3. bits = [ij \in (0..w-1) \X (0..h-1) |-> B(ij[1], ij[2])]
    BY <2>1 DEF bits, StagedBits
  <2>4. ReverseByte(ReverseByte(i)) = i
    BY <2>2, ReversedTwice
  <2>5. B(i, j) = TemplateOne(t, i, j)
    BY <2>2, <2>4 DEF StagedBit, TemplateOne
  <2> HIDE DEF h, B
  <2>6. [ij \in (0..w-1) \X (0..h-1) |-> B(ij[1], ij[2])][<<i, j>>] = B(i, j)
    BY <2>2
  <2>7. QED
    BY <2>3, <2>5, <2>6
<1> DEFINE transparent == kind \in Transparent
<1>19. transparent \in BOOLEAN /\ (transparent <=> t.mode # "jam2")
  BY <1>12
<1>20. Streamed(r, f, q, t.fg, t.bg, mask, transparent, bits, mem, P)
  BY <1>17 DEF fg, bg
<1> HIDE DEF transparent
<1>21. Templated(r, f, q, t, mem, P)
  BY <1>18, <1>19, <1>20, StreamedTemplate
<1>22. QED
  BY <1>21 DEF P
LEMMA EitherOutcome ==
  ASSUME Sound(card), Drawing(card), NEW s, NEW r, NEW q, NEW f, Sited(s, r, q, f), q[3] <= MaxCoord + 1,
         NEW t, NEW mask, TemplateGiven(t, f, mask),
         NEW o \in SubmitEitherTemplate(s, t, q, mask, f), o.ok, ~o.c.slipped
  PROVE  Templated(r, f, q, t, OnBoard, o.mem)
<1> DEFINE read == [card EXCEPT !.held = "line"]
           host(c) == SubmitTemplate(c, OnBoard, s, t, q[1], q[2], q[3], q[4], mask, f)
<1>1. CASE ~(card.staging /\ MonoPitch(q[3], q[4]) # 0)
  <2>1. o \in SubmitTemplate(card, OnBoard, s, t, q[1], q[2], q[3], q[4], mask, f)
    BY <1>1 DEF SubmitEitherTemplate
  <2>2. QED
    BY <2>1, Labelled, HostTemplateOutcome
<1>2. CASE card.staging /\ MonoPitch(q[3], q[4]) # 0
  <2>1. PICK b \in SubmitStagedTemplate(read, OnBoard, s, t, q[1], q[2], q[3], q[4], mask, f) :
          o \in IF b.ok THEN {b} ELSE host(b.c)
    BY <1>2 DEF SubmitEitherTemplate
  <2> DEFINE c == read
  <2>2. c.held = "line" /\ c.staging = card.staging
    BY DEF Sound, Typed, CardField
  <2>3. c = [card EXCEPT !.held = "line"]
    OBVIOUS
  <2> HIDE DEF c
  <2>4. Sound(c) /\ Drawing(c) /\ c.staging
    BY <1>2, <2>2, <2>3, HeldLine DEF Drawing
  <2>5. b \in SubmitStagedTemplate(c, OnBoard, s, t, q[1], q[2], q[3], q[4], mask, f)
    BY <2>1 DEF c
  <2>6. CASE b.ok
    <3>1. o = b
      BY <2>1, <2>6
    <3>2. QED
      BY <1>2, <2>4, <2>5, <3>1, Labelled, StagedTemplateOutcome
  <2>7. CASE ~b.ok
    <3> DEFINE d == b.c
    <3>1. Sound(d) /\ Drawing(d)
      <4>1. Aligned(s.po) /\ q[3] \in Nat
        BY DEF Sited
      <4> DEFINE x == q[1]
                 y == q[2]
                 w == q[3]
                 h == q[4]
                 mem == OnBoard
      <4>2. w \in Nat /\ w <= MaxCoord + 1 /\ MonoPitch(w, h) # 0
        BY <1>2, <4>1
      <4> HIDE DEF x, y, w, h, mem
      <4>3. b \in SubmitStagedTemplate(c, mem, s, t, x, y, w, h, mask, f)
        BY <2>5 DEF x, y, w, h, mem
      <4>4. Follows(c, b)
        BY <2>4, <4>1, <4>2, <4>3, StagedFollows
      <4>5. QED
        BY <4>4 DEF Follows
    <3>2. o \in SubmitTemplate(d, OnBoard, s, t, q[1], q[2], q[3], q[4], mask, f)
      BY <2>1, <2>7
    <3> HIDE DEF d
    <3>3. QED
      BY <3>1, <3>2, Labelled, HostTemplateOutcome
  <2>8. QED
    BY <2>6, <2>7
<1>3. QED
  BY <1>1, <1>2

LEMMA BlitTemplatePaints ==
  ASSUME Sound(card), Quiet(card), NEW r, r.memory \in Int, r.pitch \in Int,
         NEW q, q[1] \in Int, q[2] \in Int, q[3] \in Int, q[4] \in Int, NEW f \in {0, 1, 2, 4},
         NEW t, t.fg \in SUBSET Plane, t.bg \in SUBSET Plane,
         NEW mask, BlitTemplate(r, q, t, mask, f)
  PROVE  PaintsAsAsked'
<1> DEFINE s == ValidateSurface(card, r, q[1], q[2], q[3], q[4], f)
           rejected == s.result = "reject"
           hardware == /\ PrepareTemplate(t, q[3], q[4]) /\ (f = 1 => mask = Plane) /\ HardwareReady(s)
                       /\ q[1] + s.bias[1] + Pad(q[3]) <= MaxCoord + 1
           legal == Legal(card, r, f, q)
           wanted(i, j, old) == IF t.rows[j + 1][t.xoff + i + 1] = 1 THEN t.fg
                                ELSE IF t.mode = "jam2" THEN t.bg ELSE old
           drawn == SubmitEitherTemplate(s, t, q, mask, f)
           asked == Asked(r, f, q, wanted)
           torn == card.staging /\ MonoPitch(q[3], q[4]) # 0 /\ card.staged
           off == Offboard(s) /\ ~t.onboard
           results == IF rejected THEN Dropped(card, legal)
                      ELSE IF hardware THEN Drawn(drawn, asked, torn) ELSE Softly(card, off)
<1>1. Happens(results)
  BY Zenon DEF BlitTemplate
<1>2. Drawing(card) /\ card.limit \in 0..Aperture
  BY Limits DEF Quiet, Drawing, Sound, Typed
<1>3. hardware \in BOOLEAN /\ (hardware => s.result = "hardware" /\ HardwareReady(s))
  BY Zenon DEF HardwareReady
<1>4. s = ValidateSurface(card, r, q[1], q[2], q[3], q[4], f) /\ torn \in BOOLEAN
  BY Zenon
<1>5. hardware => TemplateGiven(t, f, mask)
  BY DEF PrepareTemplate, TemplateGiven
<1> HIDE DEF s, hardware, torn, off, rejected, legal
<1>6. hardware => Sited(s, r, q, f)
  BY <1>2, <1>3, <1>4, ReadySited
<1>7. hardware => q[3] <= MaxCoord + 1 /\ Aligned(s.po) /\ q[3] \in Nat
  BY <1>3, <1>4, Ready
<1>8. /\ asked = [a \in 0..Aperture-1 |-> asked[a]]
      /\ \A a \in 0..Aperture-1 :
           asked[a] = IF \E i \in 0..q[3]-1, j \in 0..q[4]-1 : Pixel(r, f, q[1] + i, q[2] + j) = a
                      THEN wanted(Place(r, f, q, a)[1], Place(r, f, q, a)[2], OnBoard[a]) ELSE OnBoard[a]
  <2> HIDE DEF wanted
  <2>1. QED
    BY Labelled DEF Asked, Pixels, Place
<1> HIDE DEF asked, wanted
<1>9. Beside(r, f, q, OnBoard, asked)
  BY <1>8 DEF Beside
<1>10. hardware => \A o \in drawn : Follows(card, o)
  BY <1>2, <1>7, EitherFollows
<1>11. hardware => Right(drawn, asked)
  <2>1. SUFFICES ASSUME hardware, NEW o \in drawn, o.ok, ~o.c.slipped PROVE o.mem = asked
    BY DEF Right
  <2> DEFINE P == o.mem
  <2>2. Templated(r, f, q, t, OnBoard, P)
    BY <1>2, <1>5, <1>6, <1>7, <2>1, EitherOutcome
  <2> HIDE DEF P
  <2>3. ASSUME NEW i \in 0..q[3]-1, NEW j \in 0..q[4]-1
        PROVE P[Pixel(r, f, q[1] + i, q[2] + j)] = asked[Pixel(r, f, q[1] + i, q[2] + j)]
    <3> DEFINE a == Pixel(r, f, q[1] + i, q[2] + j)
    <3>1. a \in 0..Aperture-1
      BY <1>6, <2>1, PixelIs
    <3>2. Place(r, f, q, a)[1] = i /\ Place(r, f, q, a)[2] = j
      BY <1>6, <2>1, PlaceIs
    <3>3. asked[a] = wanted(i, j, OnBoard[a])
      BY <1>8, <3>1, <3>2
    <3>4. P[a] = IF TemplateOne(t, i, j) = 1 THEN t.fg ELSE IF t.mode = "jam2" THEN t.bg ELSE OnBoard[a]
      BY <2>2 DEF Templated
    <3> HIDE DEF a
    <3>5. QED
      BY <3>3, <3>4 DEF a, wanted, TemplateOne
  <2>4. Beside(r, f, q, OnBoard, P) /\ Alike(r, f, q, P, asked)
    BY <2>2, <2>3 DEF Templated, Alike
  <2>5. P = asked
    BY <1>9, <2>4, SameMemory
  <2>6. QED
    BY <2>5 DEF P
<1> HIDE DEF drawn
<1>12. results = IF rejected THEN Dropped(card, legal)
                 ELSE IF hardware THEN Drawn(drawn, asked, torn) ELSE Softly(card, off)
  OBVIOUS
<1> HIDE DEF results
<1>13. QED
  BY <1>1, <1>3, <1>4, <1>10, <1>11, <1>12, SurfaceShows, ZenonT(60)
------------------------------------------------------------------------------
Fill ==
  \E f \in DrawFormats, q \in Rects, r \in Render, mask \in Masks :
    \/ \E pen \in Pens : FillRect(r, q, pen, mask, f)
    \/ InvertRect(r, q, mask, f)
    \/ \E p \in Patterns : BlitPattern(r, q, p, mask, f)
    \/ \E t \in Templates : BlitTemplate(r, q, t, mask, f)

LEMMA FillPaints == IInv /\ Fill => PaintsAsAsked'
<1> SUFFICES ASSUME IInv, Fill PROVE PaintsAsAsked'
  OBVIOUS
<1>1. PICK f \in DrawFormats, q \in Rects, r \in Render, mask \in Masks :
        \/ \E pen \in Pens : FillRect(r, q, pen, mask, f)
        \/ InvertRect(r, q, mask, f)
        \/ \E p \in Patterns : BlitPattern(r, q, p, mask, f)
        \/ \E t \in Templates : BlitTemplate(r, q, t, mask, f)
  BY DEF Fill
<1>2. Sound(card) /\ Quiet(card)
  BY DEF IInv
<1>3. r.memory \in Int /\ r.pitch \in Int /\ q[1] \in Int /\ q[2] \in Int /\ q[3] \in Int /\ q[4] \in Int
      /\ f \in {0, 1, 2, 4}
  BY Given
<1>4. CASE \E pen \in Pens : FillRect(r, q, pen, mask, f)
  <2>1. PICK pen \in Pens : FillRect(r, q, pen, mask, f)
    BY <1>4
  <2>2. pen \in SUBSET Plane
    BY Draw2DAssumption
  <2>3. QED
    BY <1>2, <1>3, <2>1, <2>2, FillRectPaints
<1>5. CASE InvertRect(r, q, mask, f)
  BY <1>2, <1>3, <1>5, InvertRectPaints
<1>6. CASE \E p \in Patterns : BlitPattern(r, q, p, mask, f)
  <2>1. PICK p \in Patterns : BlitPattern(r, q, p, mask, f)
    BY <1>6
  <2>2. PatternGiven(p)
    BY SourceAssumption DEF PatternGiven
  <2>3. QED
    BY <1>2, <1>3, <2>1, <2>2, BlitPatternPaints
<1>7. CASE \E t \in Templates : BlitTemplate(r, q, t, mask, f)
  <2>1. PICK t \in Templates : BlitTemplate(r, q, t, mask, f)
    BY <1>7
  <2>2. t.fg \in SUBSET Plane /\ t.bg \in SUBSET Plane
    BY SourceAssumption
  <2>3. QED
    BY <1>2, <1>3, <2>1, <2>2, BlitTemplatePaints
<1>8. QED
  BY <1>1, <1>4, <1>5, <1>6, <1>7

(* A fill, an inversion, a pattern or a template leaves exactly the picture  *)
(* that was asked for: the rectangle's pixels, in the pens its bits choose   *)
(* and under the write mask, and nothing else, by engine or by software, for *)
(* every bitmap, rectangle, pen, format, bias, pattern phase and history of  *)
(* the registers, and for templates by the stage or by the host data path    *)
(* (FillRect, InvertRect, BlitPattern, BlitTemplate and their submissions).  *)
THEOREM FillsPaintAsAsked == Draw2DSpec => [][Fill => PaintsAsAsked']_d2vars
<1>1. IInv /\ [Draw2DNext]_d2vars => [Fill => PaintsAsAsked']_d2vars
  BY FillPaints
<1>2. QED
  BY <1>1, Draw2DInvariant, PTL DEF Draw2DSpec
------------------------------------------------------------------------------
(* Copies.  What becomes of a pixel under the one that is copied to it.     *)
CopyInk(c, f, rop, mask) ==
  c.regs.master = <<"copy", f, rop>> /\ c.regs.mask = <<WriteMask(mask, f)>>

LEMMA CopyPixel ==
  ASSUME NEW c, NEW f, NEW rop, NEW mask, CopyInk(c, f, rop, mask), NEW one,
         NEW src \in SUBSET Plane, NEW old \in SUBSET Plane
  PROVE  Combined(c, one, src, old) = Masked(old, Rop3(rop, {}, src, old), mask, f)
<1> DEFINE none == {}
           new == HardwarePen(Rop3(rop, none, HardwarePen(src, f), HardwarePen(old, f)), f)
<1>1. /\ c.regs.master[1] = "copy" /\ c.regs.master[2] = f /\ c.regs.master[3] = rop
      /\ c.regs.mask[1] = WriteMask(mask, f)
  BY DEF CopyInk
<1>2. Combined(c, one, src, old) = (new \cap WriteMask(mask, f)) \cup (old \ WriteMask(mask, f))
  BY <1>1, Zenon DEF Combined
<1>3. none \in SUBSET Plane /\ HardwarePen(none, f) = none
  BY NoPlanes
<1> HIDE DEF none
<1>4. new = Rop3(rop, none, src, old)
  BY <1>3, RopTurns
<1> HIDE DEF new
<1>5. QED
  BY <1>2, <1>4 DEF Masked, none

(* Where the walk of a copy is: forward[k] or not from the first corner.    *)
Along(forward, n, i) == IF forward THEN i ELSE n - 1 - i

Copying(c, s, d, u, v, p, q, f, rop, mask, forward) ==
  /\ Sited(s, u, p, f) /\ Sited(d, v, q, f) /\ p[3] = q[3] /\ p[4] = q[4]
  /\ forward[1] \in BOOLEAN /\ forward[2] \in BOOLEAN /\ DOMAIN forward = {1, 2}
  /\ CopyInk(c, f, rop, mask) /\ c.regs.cntl = forward /\ c.regs.src = s.po /\ c.regs.dst = d.po

CopyCorner(o, q, forward) ==
  [k \in {1, 2} |-> IF forward[k] THEN o[k] ELSE o[k] + <<q[3], q[4]>>[k] - 1]

CopySpotAt(c, u, v, p, q, f, forward, at, from, size, bits, i, j, n) ==
  /\ n \in 0..size[1]*size[2]-1 /\ n \in Spots(c, at, size, bits)
  /\ AddressAt(c, c.regs.dst, at, size, n) =
       Pixel(v, f, q[1] + Along(forward[1], q[3], i), q[2] + Along(forward[2], q[4], j))
  /\ AddressAt(c, c.regs.src, from, size, n) =
       Pixel(u, f, p[1] + Along(forward[1], q[3], i), p[2] + Along(forward[2], q[4], j))

CopyJob(c, s, d, u, v, p, q, f, rop, mask, forward, at, from, size) ==
  /\ Copying(c, s, d, u, v, p, q, f, rop, mask, forward) /\ size = <<q[3], q[4]>>
  /\ at = CopyCorner(Origin(d, q[1], q[2]), q, forward) /\ from = CopyCorner(Origin(s, p[1], p[2]), q, forward)

LEMMA AlongIs ==
  ASSUME NEW n \in Nat, NEW i \in 0..n-1, NEW forward \in BOOLEAN
  PROVE  Along(forward, n, i) \in 0..n-1 /\ Along(forward, n, Along(forward, n, i)) = i
BY DEF Along

LEMMA WalkedAlong ==
  ASSUME NEW o \in Int, NEW n \in Nat, NEW i \in 0..n-1, NEW forward \in BOOLEAN
  PROVE  Walk(IF forward THEN o ELSE o + n - 1, i, forward) = o + Along(forward, n, i)
BY DEF Walk, Along

LEMMA CopySpotIs ==
  ASSUME NEW c, NEW s, NEW d, NEW u, NEW v, NEW p, NEW q, NEW f, NEW rop, NEW mask, NEW forward,
         NEW at, NEW from, NEW size, CopyJob(c, s, d, u, v, p, q, f, rop, mask, forward, at, from, size), NEW bits,
         NEW i \in 0..q[3]-1, NEW j \in 0..q[4]-1, NEW n, n = j * q[3] + i
  PROVE  CopySpotAt(c, u, v, p, q, f, forward, at, from, size, bits, i, j, n)
<1> DEFINE w == q[3]
           h == q[4]
           a == Along(forward[1], w, i)
           b == Along(forward[2], h, j)
<1>1. /\ Sited(s, u, p, f) /\ Sited(d, v, q, f) /\ p[3] = w /\ p[4] = h
      /\ forward[1] \in BOOLEAN /\ forward[2] \in BOOLEAN
      /\ CopyInk(c, f, rop, mask) /\ c.regs.cntl = forward /\ c.regs.src = s.po /\ c.regs.dst = d.po
      /\ size[1] = w /\ size[2] = h
  BY DEF CopyJob, Copying
<1>2. /\ w \in Nat /\ w > 0 /\ h \in Nat /\ q[1] \in Nat /\ q[2] \in Nat /\ p[1] \in Nat /\ p[2] \in Nat
      /\ i \in 0..w-1 /\ j \in 0..h-1
  BY <1>1 DEF Sited
<1>3. n \in 0..w*h-1 /\ n % w = i /\ n \div w = j
  <2> HIDE DEF w, h
  <2>1. n = j * w + i
    BY DEF w
  <2>2. QED
    BY <1>2, <2>1, GridIn
<1>4. s.bias[1] \in Nat /\ s.bias[2] \in Nat /\ d.bias[1] \in Nat /\ d.bias[2] \in Nat
  <2> DEFINE z == 0
  <2>1. z \in Int
    OBVIOUS
  <2> HIDE DEF z
  <2>2. QED
    BY <1>1, <2>1, PixelAddress
<1> DEFINE ox == q[1] + d.bias[1]
           oy == q[2] + d.bias[2]
           fx == p[1] + s.bias[1]
           fy == p[2] + s.bias[2]
<1>5. ox \in Int /\ oy \in Int /\ fx \in Int /\ fy \in Int
  BY <1>2, <1>4
<1>6. /\ at[1] = (IF forward[1] THEN ox ELSE ox + w - 1) /\ at[2] = (IF forward[2] THEN oy ELSE oy + h - 1)
      /\ from[1] = (IF forward[1] THEN fx ELSE fx + w - 1) /\ from[2] = (IF forward[2] THEN fy ELSE fy + h - 1)
  BY DEF CopyJob, CopyCorner, Origin
<1>7. /\ Column(c, at, size, n) = Walk(at[1], i, forward[1]) /\ Row(c, at, size, n) = Walk(at[2], j, forward[2])
      /\ Column(c, from, size, n) = Walk(from[1], i, forward[1]) /\ Row(c, from, size, n) = Walk(from[2], j, forward[2])
  BY <1>1, <1>3 DEF Column, Row
<1> HIDE DEF w, h, ox, oy, fx, fy, a, b
<1>8. /\ Column(c, at, size, n) = ox + a /\ Row(c, at, size, n) = oy + b
      /\ Column(c, from, size, n) = fx + a /\ Row(c, from, size, n) = fy + b
  <2> DEFINE fw1 == forward[1]
             fw2 == forward[2]
  <2>1. fw1 \in BOOLEAN /\ fw2 \in BOOLEAN /\ w \in Nat /\ h \in Nat /\ i \in 0..w-1 /\ j \in 0..h-1
    BY <1>1, <1>2
  <2>2. /\ Column(c, at, size, n) = Walk(IF fw1 THEN ox ELSE ox + w - 1, i, fw1)
        /\ Row(c, at, size, n) = Walk(IF fw2 THEN oy ELSE oy + h - 1, j, fw2)
        /\ Column(c, from, size, n) = Walk(IF fw1 THEN fx ELSE fx + w - 1, i, fw1)
        /\ Row(c, from, size, n) = Walk(IF fw2 THEN fy ELSE fy + h - 1, j, fw2)
    BY <1>6, <1>7, Zenon
  <2>3. a = Along(fw1, w, i) /\ b = Along(fw2, h, j)
    BY DEF a, b
  <2> HIDE DEF fw1, fw2
  <2>4. /\ Walk(IF fw1 THEN ox ELSE ox + w - 1, i, fw1) = ox + Along(fw1, w, i)
        /\ Walk(IF fw1 THEN fx ELSE fx + w - 1, i, fw1) = fx + Along(fw1, w, i)
    BY <1>5, <2>1, WalkedAlong
  <2>5. /\ Walk(IF fw2 THEN oy ELSE oy + h - 1, j, fw2) = oy + Along(fw2, h, j)
        /\ Walk(IF fw2 THEN fy ELSE fy + h - 1, j, fw2) = fy + Along(fw2, h, j)
    BY <1>5, <2>1, WalkedAlong
  <2>6. QED
    BY <2>2, <2>3, <2>4, <2>5
<1>9. a \in 0..w-1 /\ b \in 0..h-1
  BY <1>1, <1>2, AlongIs DEF a, b
<1>10. /\ ox + a = (q[1] + a) + d.bias[1] /\ oy + b = (q[2] + b) + d.bias[2]
       /\ fx + a = (p[1] + a) + s.bias[1] /\ fy + b = (p[2] + b) + s.bias[2]
       /\ q[1] + a \in Int /\ q[2] + b \in Int /\ p[1] + a \in Int /\ p[2] + b \in Int
  BY <1>2, <1>4, <1>9 DEF ox, oy, fx, fy
<1>11. /\ Address(d.po, (q[1] + a) + d.bias[1], (q[2] + b) + d.bias[2], f) = Pixel(v, f, q[1] + a, q[2] + b)
       /\ Address(s.po, (p[1] + a) + s.bias[1], (p[2] + b) + s.bias[2], f) = Pixel(u, f, p[1] + a, p[2] + b)
  BY <1>1, <1>10, PixelAddress
<1>12. c.regs.master[1] = "copy" /\ c.regs.master[2] = f
  BY <1>1 DEF CopyInk
<1>13. /\ AddressAt(c, c.regs.dst, at, size, n) = Pixel(v, f, q[1] + a, q[2] + b)
       /\ AddressAt(c, c.regs.src, from, size, n) = Pixel(u, f, p[1] + a, p[2] + b)
  BY <1>1, <1>8, <1>10, <1>11, <1>12 DEF AddressAt, HardwareDatatype
<1>14. Shown(c, Column(c, at, size, n), Row(c, at, size, n), One(bits, size, n))
  <2>1. d.bias[1] + q[1] + w - 1 <= MaxCoord /\ d.bias[2] + q[2] + h - 1 <= MaxCoord
    BY <1>1 DEF Sited, w, h
  <2>2. ox + a <= ScissorMax /\ oy + b <= ScissorMax
    BY <1>2, <1>4, <1>9, <2>1, Granules DEF ox, oy, ScissorMax
  <2>3. c.regs.master[1] \notin Mono /\ c.regs.master[1] \notin Transparent
    BY <1>12 DEF Mono, Transparent
  <2>4. QED
    BY <1>8, <2>2, <2>3 DEF Shown
<1>15. n \in 0..size[1]*size[2]-1
  BY <1>1, <1>3
<1>16. n \in Spots(c, at, size, bits)
  BY <1>14, <1>15 DEF Spots
<1>17. QED
  BY <1>13, <1>15, <1>16 DEF CopySpotAt, a, b, w, h

\* Nothing is read after it was painted.
InOrder(u, v, p, q, f, forward) ==
  \A i, k \in 0..q[3]-1, j, l \in 0..q[4]-1 :
    (l < j \/ (l = j /\ k < i)) =>
      Pixel(v, f, q[1] + Along(forward[1], q[3], k), q[2] + Along(forward[2], q[4], l))
        # Pixel(u, f, p[1] + Along(forward[1], q[3], i), p[2] + Along(forward[2], q[4], j))

CopyDrawn(u, v, p, q, f, rop, mask, mem, P) ==
  /\ Beside(v, f, q, mem, P)
  /\ \A i \in 0..q[3]-1, j \in 0..q[4]-1 :
       P[Pixel(v, f, q[1] + i, q[2] + j)] =
         Masked(mem[Pixel(v, f, q[1] + i, q[2] + j)],
                Rop3(rop, {}, mem[Pixel(u, f, p[1] + i, p[2] + j)], mem[Pixel(v, f, q[1] + i, q[2] + j)]), mask, f)

LEMMA EarlierInGrid ==
  ASSUME NEW w \in Nat, NEW i \in 0..w-1, NEW k \in 0..w-1, NEW j \in Nat, NEW l \in Nat,
         l * w + k < j * w + i
  PROVE  l < j \/ (l = j /\ k < i)
<1>1. ~(j < l)
  <2>1. SUFFICES ASSUME j + 1 <= l PROVE FALSE
    OBVIOUS
  <2>2. (j + 1) * w <= l * w /\ (j + 1) * w = j * w + w
    BY <2>1
  <2>3. j * w \in Nat /\ l * w \in Nat
    OBVIOUS
  <2>4. QED
    BY <2>2, <2>3
<1>2. QED
  BY <1>1

LEMMA CopyPainted ==
  ASSUME NEW c, NEW s, NEW d, NEW u, NEW v, NEW p, NEW q, NEW f, NEW rop, NEW mask, NEW forward,
         NEW at, NEW from, NEW size, CopyJob(c, s, d, u, v, p, q, f, rop, mask, forward, at, from, size), NEW bits,
         InOrder(u, v, p, q, f, forward), NEW mem, Pixels(mem), NEW P, P = Paint(c, mem, at, size, from, bits)
  PROVE  CopyDrawn(u, v, p, q, f, rop, mask, mem, P)
<1> DEFINE w == q[3]
           h == q[4]
           D(n) == AddressAt(c, c.regs.dst, at, size, n)
           S(n) == AddressAt(c, c.regs.src, from, size, n)
           Sp == Spots(c, at, size, bits)
           A(i) == Along(forward[1], w, i)
           B(j) == Along(forward[2], h, j)
           X(i, j) == Pixel(v, f, q[1] + i, q[2] + j)
           Y(i, j) == Pixel(u, f, p[1] + i, p[2] + j)
<1>1. /\ Sited(s, u, p, f) /\ Sited(d, v, q, f) /\ p[3] = w /\ p[4] = h
      /\ forward[1] \in BOOLEAN /\ forward[2] \in BOOLEAN /\ DOMAIN forward = {1, 2}
      /\ CopyInk(c, f, rop, mask) /\ c.regs.cntl = forward /\ c.regs.src = s.po /\ c.regs.dst = d.po
      /\ size[1] = w /\ size[2] = h
  BY DEF CopyJob, Copying
<1>2. w \in Nat /\ w > 0 /\ h \in Nat /\ DOMAIN mem = 0..Aperture-1
  BY <1>1 DEF Sited, Pixels
<1>3. /\ \A i \in 0..w-1 : A(i) \in 0..w-1 /\ A(A(i)) = i
      /\ \A j \in 0..h-1 : B(j) \in 0..h-1 /\ B(B(j)) = j
  <2> DEFINE fw1 == forward[1]
             fw2 == forward[2]
  <2>1. fw1 \in BOOLEAN /\ fw2 \in BOOLEAN
    BY <1>1
  <2> HIDE DEF fw1, fw2, w, h
  <2>2. \A i \in 0..w-1 : Along(fw1, w, i) \in 0..w-1 /\ Along(fw1, w, Along(fw1, w, i)) = i
    BY <1>2, <2>1, AlongIs
  <2>3. \A j \in 0..h-1 : Along(fw2, h, j) \in 0..h-1 /\ Along(fw2, h, Along(fw2, h, j)) = j
    BY <1>2, <2>1, AlongIs
  <2>4. QED
    BY <2>2, <2>3 DEF fw1, fw2
<1>4. ASSUME NEW i \in 0..w-1, NEW j \in 0..h-1
      PROVE j * w + i \in Sp /\ D(j * w + i) = X(A(i), B(j)) /\ S(j * w + i) = Y(A(i), B(j))
  <2> DEFINE n == j * w + i
  <2>1. n = j * q[3] + i
    OBVIOUS
  <2> HIDE DEF n
  <2>2. CopySpotAt(c, u, v, p, q, f, forward, at, from, size, bits, i, j, n)
    BY <2>1, CopySpotIs
  <2>3. QED
    BY <2>2 DEF n, CopySpotAt
<1>5. ASSUME NEW n \in Sp
      PROVE \E i \in 0..w-1, j \in 0..h-1 : n = j * w + i /\ D(n) = X(A(i), B(j)) /\ S(n) = Y(A(i), B(j))
  <2>1. n \in 0..w*h-1
    BY <1>1, <1>5 DEF Spots
  <2> HIDE DEF w, h, D, S, X, Y, A, B, Sp
  <2> DEFINE i == n % w
             j == n \div w
  <2>2. i \in 0..w-1 /\ j \in 0..h-1 /\ n = j * w + i
    BY <1>2, <2>1, InGrid
  <2> HIDE DEF i, j
  <2>3. QED
    BY <1>4, <2>2
<1>6. \A i \in 0..w-1, j \in 0..h-1 : X(i, j) \in 0..Aperture-1 /\ Y(i, j) \in 0..Aperture-1
  BY <1>1, PixelIs
<1>7. ASSUME NEW i \in 0..w-1, NEW j \in 0..h-1, NEW k \in 0..w-1, NEW l \in 0..h-1, X(i, j) = X(k, l)
      PROVE i = k /\ j = l
  BY <1>1, <1>7, PixelsApart
<1>8. ASSUME NEW i \in 0..w-1, NEW j \in 0..h-1, NEW k \in 0..w-1, NEW l \in 0..h-1, l < j \/ (l = j /\ k < i)
      PROVE X(A(k), B(l)) # Y(A(i), B(j))
  BY <1>8 DEF InOrder
<1> HIDE DEF w, h, D, S, X, Y, A, B, Sp
<1>9. \A n \in Sp : D(n) \in DOMAIN mem /\ S(n) \in DOMAIN mem
  BY <1>2, <1>3, <1>5, <1>6
<1>10. \A m, n \in Sp : D(m) = D(n) => m = n
  <2>1. SUFFICES ASSUME NEW m \in Sp, NEW n \in Sp, D(m) = D(n) PROVE m = n
    OBVIOUS
  <2>2. PICK i \in 0..w-1, j \in 0..h-1 : m = j * w + i /\ D(m) = X(A(i), B(j))
    BY <1>5
  <2>3. PICK k \in 0..w-1, l \in 0..h-1 : n = l * w + k /\ D(n) = X(A(k), B(l))
    BY <1>5
  <2>4. A(i) = A(k) /\ B(j) = B(l)
    BY <1>3, <1>7, <2>1, <2>2, <2>3
  <2>5. i = k /\ j = l
    BY <1>3, <2>4
  <2>6. QED
    BY <2>2, <2>3, <2>5
<1>11. \A m, n \in Sp : m < n => D(m) # S(n)
  <2>1. SUFFICES ASSUME NEW m \in Sp, NEW n \in Sp, m < n PROVE D(m) # S(n)
    OBVIOUS
  <2>2. PICK k \in 0..w-1, l \in 0..h-1 : m = l * w + k /\ D(m) = X(A(k), B(l))
    BY <1>5
  <2>3. PICK i \in 0..w-1, j \in 0..h-1 : n = j * w + i /\ S(n) = Y(A(i), B(j))
    BY <1>5
  <2>4. l < j \/ (l = j /\ k < i)
    <3>1. l * w + k < j * w + i /\ j \in Nat /\ l \in Nat
      BY <1>2, <2>1, <2>2, <2>3
    <3>2. QED
      BY <1>2, <3>1, EarlierInGrid
  <2>5. QED
    BY <1>8, <2>2, <2>3, <2>4
<1>12. c.regs.master[1] = "copy" /\ c.regs.master[2] = f
  BY <1>1 DEF CopyInk
<1>13. \A g \in Needed(c.regs.master[1]) : c.regs[g] # Unknown
  <2>1. Needed(c.regs.master[1]) = {"master", "mask", "cntl", "dst", "src"}
    BY <1>12 DEF Needed
  <2>2. c.regs.master # <<>> /\ c.regs.mask # <<>>
    BY <1>1 DEF CopyInk
  <2>3. c.regs.src # <<>> /\ c.regs.dst # <<>>
    BY <1>1 DEF Sited
  <2>4. c.regs.cntl # <<>>
    <3>1. DOMAIN <<>> = {}
      OBVIOUS
    <3>2. QED
      BY <1>1, <3>1
  <2>5. QED
    BY <2>1, <2>2, <2>3, <2>4 DEF Unknown
<1>14. Foreseen(c, mem, at, size, from, bits)
  <2>1. size[1] * size[2] \in Nat
    BY <1>1, <1>2
  <2>2. \A i \in Sp : S(i) \in DOMAIN mem /\ \A j \in Sp : j < i => D(j) # S(i)
    BY <1>9, <1>11
  <2>3. QED
    BY <1>9, <1>10, <1>13, <2>1, <2>2 DEF Foreseen, D, S, Sp
<1>15. /\ P = [a \in DOMAIN mem |-> P[a]]
       /\ \A n \in Sp : P[D(n)] = Became(c, mem, size, from, bits, n, mem[D(n)])
       /\ \A a \in DOMAIN mem : (\A n \in Sp : D(n) # a) => P[a] = mem[a]
  <2>1. PaintedAs(c, mem, at, size, from, bits, P)
    BY <1>14, PaintedPixels
  <2>2. QED
    BY <2>1 DEF PaintedAs, D, Sp
<1>16. ASSUME NEW i \in 0..w-1, NEW j \in 0..h-1
       PROVE P[X(i, j)] = Masked(mem[X(i, j)], Rop3(rop, {}, mem[Y(i, j)], mem[X(i, j)]), mask, f)
  <2> DEFINE n == B(j) * w + A(i)
             old == mem[X(i, j)]
             src == mem[Y(i, j)]
             one == One(bits, size, n)
  <2>1. A(i) \in 0..w-1 /\ A(A(i)) = i /\ B(j) \in 0..h-1 /\ B(B(j)) = j
    BY <1>3
  <2>2. n \in Sp /\ D(n) = X(i, j) /\ S(n) = Y(i, j)
    BY <1>4, <2>1
  <2>3. old \in SUBSET Plane /\ src \in SUBSET Plane
    BY <1>6 DEF Pixels
  <2>4. Became(c, mem, size, from, bits, n, old) = Combined(c, one, mem[S(n)], old)
    BY <1>12, Zenon DEF Became, S
  <2> HIDE DEF n, one, old
  <2>5. P[X(i, j)] = Combined(c, one, src, old)
    BY <1>15, <2>2, <2>4 DEF old
  <2> HIDE DEF src
  <2>6. Combined(c, one, src, old) = Masked(old, Rop3(rop, {}, src, old), mask, f)
    BY <1>1, <2>3, CopyPixel
  <2>7. QED
    BY <2>5, <2>6 DEF old, src
<1>17. ASSUME NEW a \in 0..Aperture-1, \A i \in 0..w-1, j \in 0..h-1 : X(i, j) # a PROVE P[a] = mem[a]
  <2>1. \A n \in Sp : D(n) # a
    BY <1>3, <1>5, <1>17
  <2>2. QED
    BY <1>2, <1>15, <1>17, <2>1
<1>18. P = [a \in 0..Aperture-1 |-> P[a]]
  BY <1>2, <1>15
<1>19. Beside(v, f, q, mem, P)
  BY <1>17, <1>18 DEF Beside, X, w, h
<1>20. QED
  BY <1>16, <1>19 DEF CopyDrawn, X, Y, w, h

(* Copies within one bitmap, or between bitmaps of one place and pitch: each *)
(* coordinate is walked away from where the pixels come from.                *)
Paired(s, d, u, v, p, q, f) ==
  Sited(s, u, p, f) /\ Sited(d, v, q, f) /\ p[3] = q[3] /\ p[4] = q[4] /\ u.pitch = v.pitch

LEMMA PixelsOfOne ==
  ASSUME NEW s, NEW d, NEW u, NEW v, NEW p, NEW q, NEW f, Paired(s, d, u, v, p, q, f), u.memory = v.memory,
         NEW i \in 0..q[3]-1, NEW j \in 0..q[4]-1, NEW k \in 0..q[3]-1, NEW l \in 0..q[4]-1,
         Pixel(v, f, q[1] + k, q[2] + l) = Pixel(u, f, p[1] + i, p[2] + j)
  PROVE  q[1] + k = p[1] + i /\ q[2] + l = p[2] + j
<1> DEFINE t == u.pitch
           m == u.memory
           x1 == p[1] + i
           x2 == q[1] + k
           y1 == p[2] + j
           y2 == q[2] + l
           e1 == p[1] + p[3]
           e2 == q[1] + q[3]
<1>1. /\ t \in Nat /\ m \in Nat /\ f \in Nat /\ f > 0 /\ x1 \in Nat /\ x2 \in Nat /\ y1 \in Int /\ y2 \in Int
      /\ e1 \in Nat /\ e2 \in Nat /\ x1 + 1 <= e1 /\ x2 + 1 <= e2 /\ e1 * f <= t /\ e2 * f <= t
  BY DEF Paired, Sited
<1>2. m + y1 * t + x1 * f = m + y2 * t + x2 * f
  BY DEF Pixel, Paired
<1> HIDE DEF t, m, x1, x2, y1, y2, e1, e2
<1>3. (x1 + 1) * f <= e1 * f /\ (x1 + 1) * f = x1 * f + f /\ (x2 + 1) * f <= e2 * f /\ (x2 + 1) * f = x2 * f + f
  BY <1>1
<1>4. x1 * f \in Nat /\ x2 * f \in Nat /\ y1 * t \in Int /\ y2 * t \in Int /\ e1 * f \in Nat /\ e2 * f \in Nat
  BY <1>1
<1>5. x1 * f + f <= t /\ x2 * f + f <= t /\ y1 * t + x1 * f = y2 * t + x2 * f
  BY <1>1, <1>2, <1>3, <1>4
<1>6. x1 = x2 /\ y1 = y2
  BY <1>1, <1>5, RowsApart
<1>7. QED
  BY <1>6 DEF x1, x2, y1, y2

LEMMA OrderSame ==
  ASSUME NEW s, NEW d, NEW u, NEW v, NEW p, NEW q, NEW f, Paired(s, d, u, v, p, q, f), u.memory = v.memory,
         NEW forward, forward[1] \in BOOLEAN, forward[2] \in BOOLEAN,
         forward[1] <=> q[1] <= p[1], forward[2] <=> q[2] <= p[2]
  PROVE  InOrder(u, v, p, q, f, forward)
<1> DEFINE w == q[3]
           h == q[4]
           fw1 == forward[1]
           fw2 == forward[2]
<1>1. SUFFICES ASSUME NEW i \in 0..w-1, NEW k \in 0..w-1, NEW j \in 0..h-1, NEW l \in 0..h-1,
                      l < j \/ (l = j /\ k < i),
                      Pixel(v, f, q[1] + Along(fw1, w, k), q[2] + Along(fw2, h, l))
                        = Pixel(u, f, p[1] + Along(fw1, w, i), p[2] + Along(fw2, h, j))
               PROVE  FALSE
  BY DEF InOrder
<1>2. w \in Nat /\ h \in Nat /\ p[1] \in Nat /\ p[2] \in Nat /\ q[1] \in Nat /\ q[2] \in Nat
  BY DEF Paired, Sited
<1> DEFINE a == Along(fw1, w, k)
           b == Along(fw2, h, l)
           c == Along(fw1, w, i)
           e == Along(fw2, h, j)
<1>3. a \in 0..w-1 /\ b \in 0..h-1 /\ c \in 0..w-1 /\ e \in 0..h-1
  <2> HIDE DEF w, h
  <2>1. fw1 \in BOOLEAN /\ fw2 \in BOOLEAN
    OBVIOUS
  <2> HIDE DEF fw1, fw2
  <2>2. QED
    BY <1>1, <1>2, <2>1, AlongIs
<1>4. q[1] + a = p[1] + c /\ q[2] + b = p[2] + e
  <2>1. Pixel(v, f, q[1] + a, q[2] + b) = Pixel(u, f, p[1] + c, p[2] + e)
    BY <1>1
  <2> HIDE DEF a, b, c, e
  <2>2. QED
    BY <1>3, <2>1, PixelsOfOne DEF w, h
<1>5. fw1 <=> q[1] <= p[1]
  OBVIOUS
<1>6. fw2 <=> q[2] <= p[2]
  OBVIOUS
<1>7. a = (IF fw1 THEN k ELSE w - 1 - k) /\ c = (IF fw1 THEN i ELSE w - 1 - i)
      /\ b = (IF fw2 THEN l ELSE h - 1 - l) /\ e = (IF fw2 THEN j ELSE h - 1 - j)
  BY DEF Along
<1> HIDE DEF a, b, c, e, fw1, fw2, w, h
<1>8. ~(l < j)
  BY <1>1, <1>2, <1>4, <1>6, <1>7
<1>9. ~(k < i)
  BY <1>1, <1>2, <1>4, <1>5, <1>7
<1>10. QED
  BY <1>1, <1>8, <1>9

(* A pixel lies within the extent, and further on than those before it.     *)
LEMMA PixelLess ==
  ASSUME NEW s, NEW r, NEW q, NEW f, Sited(s, r, q, f),
         NEW i \in 0..q[3]-1, NEW k \in 0..q[3]-1, NEW j \in 0..q[4]-1, NEW l \in 0..q[4]-1,
         l < j \/ (l = j /\ k < i)
  PROVE  Pixel(r, f, q[1] + k, q[2] + l) < Pixel(r, f, q[1] + i, q[2] + j)
<1> DEFINE t == r.pitch
           m == r.memory
           x1 == q[1] + k
           x2 == q[1] + i
           y1 == q[2] + l
           y2 == q[2] + j
           e == q[1] + q[3]
<1>1. /\ t \in Nat /\ m \in Nat /\ f \in Nat /\ f > 0 /\ x1 \in Nat /\ x2 \in Nat /\ y1 \in Nat /\ y2 \in Nat
      /\ e \in Nat /\ x1 + 1 <= e /\ x2 + 1 <= e /\ e * f <= t
  BY DEF Sited
<1>2. y1 < y2 \/ (y1 = y2 /\ x1 < x2)
  BY <1>1 DEF Sited
<1>3. Pixel(r, f, q[1] + k, q[2] + l) = m + y1 * t + x1 * f /\ Pixel(r, f, q[1] + i, q[2] + j) = m + y2 * t + x2 * f
  BY DEF Pixel
<1> HIDE DEF t, m, x1, x2, y1, y2, e
<1>4. x1 * f \in Nat /\ x2 * f \in Nat /\ y1 * t \in Nat /\ y2 * t \in Nat /\ e * f \in Nat
  BY <1>1
<1>5. CASE y1 < y2
  <2>1. (x1 + 1) * f <= e * f /\ (x1 + 1) * f = x1 * f + f
    BY <1>1
  <2>2. (y1 + 1) * t <= y2 * t /\ (y1 + 1) * t = y1 * t + t
    BY <1>1, <1>5
  <2>3. QED
    BY <1>1, <1>3, <1>4, <2>1, <2>2
<1>6. CASE y1 = y2 /\ x1 < x2
  <2>1. (x1 + 1) * f <= x2 * f /\ (x1 + 1) * f = x1 * f + f
    BY <1>1, <1>6
  <2>2. QED
    BY <1>1, <1>3, <1>4, <1>6, <2>1
<1>7. QED
  BY <1>2, <1>5, <1>6

LEMMA PixelWithin ==
  ASSUME NEW s, NEW r, NEW q, NEW f, Sited(s, r, q, f), NEW i \in 0..q[3]-1, NEW j \in 0..q[4]-1
  PROVE  /\ Extent(r, q[1], q[2], q[3], q[4], f).start <= Pixel(r, f, q[1] + i, q[2] + j)
         /\ Pixel(r, f, q[1] + i, q[2] + j) < Extent(r, q[1], q[2], q[3], q[4], f).end
         /\ Extent(r, q[1], q[2], q[3], q[4], f).start \in Int /\ Extent(r, q[1], q[2], q[3], q[4], f).end \in Int
<1> DEFINE t == r.pitch
           m == r.memory
           x0 == q[1]
           x1 == q[1] + i
           y0 == q[2]
           y1 == q[2] + j
           e == q[1] + q[3]
           n == q[2] + q[4] - 1
<1>1. /\ t \in Nat /\ m \in Nat /\ f \in Nat /\ f > 0 /\ x1 \in Nat /\ y1 \in Nat /\ x0 \in Nat /\ y0 \in Nat
      /\ e \in Nat /\ n \in Nat /\ x0 <= x1 /\ y0 <= y1 /\ x1 + 1 <= e /\ y1 <= n
  BY DEF Sited
<1>2. /\ Extent(r, q[1], q[2], q[3], q[4], f).start = m + y0 * t + x0 * f
      /\ Extent(r, q[1], q[2], q[3], q[4], f).end = m + (n * t + e * f)
      /\ Pixel(r, f, q[1] + i, q[2] + j) = m + y1 * t + x1 * f
  BY DEF Extent, LastByte, Pixel
<1> HIDE DEF t, m, x0, x1, y0, y1, e, n
<1>3. /\ y0 * t <= y1 * t /\ y1 * t <= n * t /\ x0 * f <= x1 * f
      /\ (x1 + 1) * f <= e * f /\ (x1 + 1) * f = x1 * f + f
  BY <1>1
<1>4. /\ y0 * t \in Nat /\ y1 * t \in Nat /\ n * t \in Nat /\ x0 * f \in Nat /\ x1 * f \in Nat /\ e * f \in Nat
  BY <1>1
<1>5. QED
  BY <1>1, <1>2, <1>3, <1>4

(* Extents apart: any order will do.                                        *)
LEMMA OrderApart ==
  ASSUME NEW s, NEW d, NEW u, NEW v, NEW p, NEW q, NEW f, Sited(s, u, p, f), Sited(d, v, q, f),
         p[3] = q[3], p[4] = q[4],
         s.extent = Extent(u, p[1], p[2], p[3], p[4], f), d.extent = Extent(v, q[1], q[2], q[3], q[4], f),
         Disjoint(s, d), NEW forward, forward[1] \in BOOLEAN, forward[2] \in BOOLEAN
  PROVE  InOrder(u, v, p, q, f, forward)
<1> DEFINE w == q[3]
           h == q[4]
           fw1 == forward[1]
           fw2 == forward[2]
<1>1. SUFFICES ASSUME NEW i \in 0..w-1, NEW k \in 0..w-1, NEW j \in 0..h-1, NEW l \in 0..h-1
               PROVE  Pixel(v, f, q[1] + Along(fw1, w, k), q[2] + Along(fw2, h, l))
                        # Pixel(u, f, p[1] + Along(fw1, w, i), p[2] + Along(fw2, h, j))
  BY DEF InOrder
<1>2. w \in Nat /\ h \in Nat /\ w = p[3] /\ h = p[4]
  BY DEF Sited
<1> DEFINE a == Along(fw1, w, k)
           b == Along(fw2, h, l)
           c == Along(fw1, w, i)
           e == Along(fw2, h, j)
<1>3. a \in 0..w-1 /\ b \in 0..h-1 /\ c \in 0..w-1 /\ e \in 0..h-1
  <2> HIDE DEF w, h
  <2>1. fw1 \in BOOLEAN /\ fw2 \in BOOLEAN
    OBVIOUS
  <2> HIDE DEF fw1, fw2
  <2>2. QED
    BY <1>1, <1>2, <2>1, AlongIs
<1> DEFINE D == Pixel(v, f, q[1] + a, q[2] + b)
           S == Pixel(u, f, p[1] + c, p[2] + e)
<1> HIDE DEF a, b, c, e
<1>4. /\ d.extent.start <= D /\ D < d.extent.end /\ d.extent.start \in Int /\ d.extent.end \in Int
      /\ s.extent.start <= S /\ S < s.extent.end /\ s.extent.start \in Int /\ s.extent.end \in Int
  BY <1>2, <1>3, PixelWithin
<1>5. D \in 0..Aperture-1 /\ S \in 0..Aperture-1
  BY <1>2, <1>3, PixelIs
<1> HIDE DEF D, S
<1>6. D # S
  BY <1>4, <1>5, Granules DEF Disjoint
<1>7. QED
  BY <1>6 DEF D, S, a, b, c, e

Distant(u, v, p, q, f, i, j) ==
  /\ Pixel(v, f, q[1] + i, q[2] + j) - Pixel(u, f, p[1] + i, p[2] + j)
       = Pixel(v, f, q[1], q[2]) - Pixel(u, f, p[1], p[2])
  /\ Pixel(v, f, q[1], q[2]) \in Int /\ Pixel(u, f, p[1], p[2]) \in Int
  /\ Pixel(v, f, q[1] + i, q[2] + j) \in Int /\ Pixel(u, f, p[1] + i, p[2] + j) \in Int

(* Bitmaps of one pitch: every pixel comes from the same distance, and the  *)
(* walk goes down or up the whole memory, whatever the rows.                *)
LEMMA SameDistance ==
  ASSUME NEW s, NEW d, NEW u, NEW v, NEW p, NEW q, NEW f, Paired(s, d, u, v, p, q, f),
         NEW i \in Nat, NEW j \in Nat
  PROVE  Distant(u, v, p, q, f, i, j)
<1> DEFINE t == u.pitch
           m == u.memory
           n == v.memory
           x1 == p[1]
           x2 == q[1]
           y1 == p[2]
           y2 == q[2]
<1>1. /\ t \in Nat /\ m \in Nat /\ n \in Nat /\ f \in Nat /\ x1 \in Nat /\ x2 \in Nat /\ y1 \in Nat /\ y2 \in Nat
  BY DEF Paired, Sited
<1>2. /\ Pixel(v, f, q[1] + i, q[2] + j) = n + (y2 + j) * t + (x2 + i) * f
      /\ Pixel(u, f, p[1] + i, p[2] + j) = m + (y1 + j) * t + (x1 + i) * f
      /\ Pixel(v, f, q[1], q[2]) = n + y2 * t + x2 * f /\ Pixel(u, f, p[1], p[2]) = m + y1 * t + x1 * f
  BY DEF Pixel, Paired
<1> HIDE DEF t, m, n, x1, x2, y1, y2
<1>3. /\ (y2 + j) * t = y2 * t + j * t /\ (y1 + j) * t = y1 * t + j * t
      /\ (x2 + i) * f = x2 * f + i * f /\ (x1 + i) * f = x1 * f + i * f
  BY <1>1
<1>4. /\ y2 * t \in Int /\ y1 * t \in Int /\ j * t \in Int /\ x2 * f \in Int /\ x1 * f \in Int /\ i * f \in Int
  BY <1>1
<1>5. QED
  BY <1>1, <1>2, <1>3, <1>4 DEF Distant

LEMMA OrderPitch ==
  ASSUME NEW s, NEW d, NEW u, NEW v, NEW p, NEW q, NEW f, Paired(s, d, u, v, p, q, f),
         NEW forward, NEW yes \in BOOLEAN, forward[1] = yes, forward[2] = yes,
         yes <=> ~(Pixel(v, f, q[1], q[2]) > Pixel(u, f, p[1], p[2]))
  PROVE  InOrder(u, v, p, q, f, forward)
<1> DEFINE w == q[3]
           h == q[4]
<1>1. SUFFICES ASSUME NEW i \in 0..w-1, NEW k \in 0..w-1, NEW j \in 0..h-1, NEW l \in 0..h-1,
                      l < j \/ (l = j /\ k < i)
               PROVE  Pixel(v, f, q[1] + Along(yes, w, k), q[2] + Along(yes, h, l))
                        # Pixel(u, f, p[1] + Along(yes, w, i), p[2] + Along(yes, h, j))
  BY DEF InOrder
<1>2. w \in Nat /\ h \in Nat
  BY DEF Paired, Sited
<1> DEFINE a == Along(yes, w, k)
           b == Along(yes, h, l)
           c == Along(yes, w, i)
           e == Along(yes, h, j)
<1>3. a \in 0..w-1 /\ b \in 0..h-1 /\ c \in 0..w-1 /\ e \in 0..h-1
  <2> HIDE DEF w, h
  <2>1. QED
    BY <1>1, <1>2, AlongIs
<1>4. a = (IF yes THEN k ELSE w - 1 - k) /\ c = (IF yes THEN i ELSE w - 1 - i)
      /\ b = (IF yes THEN l ELSE h - 1 - l) /\ e = (IF yes THEN j ELSE h - 1 - j)
  BY DEF Along
<1> DEFINE D == Pixel(v, f, q[1] + a, q[2] + b)
           T == Pixel(v, f, q[1] + c, q[2] + e)
           S == Pixel(u, f, p[1] + c, p[2] + e)
           vs == Pixel(v, f, q[1], q[2])
           us == Pixel(u, f, p[1], p[2])
<1> HIDE DEF a, b, c, e
<1>5. T - S = vs - us /\ vs \in Int /\ us \in Int /\ T \in Int /\ S \in Int
  <2>1. c \in Nat /\ e \in Nat
    BY <1>2, <1>3
  <2>2. Distant(u, v, p, q, f, c, e)
    BY <2>1, SameDistance
  <2>3. QED
    BY <2>2 DEF Distant
<1>6. Sited(d, v, q, f)
  BY DEF Paired
<1>7. yes => D < T
  <2>1. yes => b < e \/ (b = e /\ a < c)
    BY <1>1, <1>4
  <2>2. QED
    BY <1>3, <1>6, <2>1, PixelLess
<1>8. ~yes => T < D
  <2>1. ~yes => e < b \/ (e = b /\ c < a)
    BY <1>1, <1>2, <1>4
  <2>2. QED
    BY <1>3, <1>6, <2>1, PixelLess
<1>9. D \in Int
  <2>1. a \in Nat /\ b \in Nat
    BY <1>2, <1>3
  <2>2. Distant(u, v, p, q, f, a, b)
    BY <2>1, SameDistance
  <2>3. QED
    BY <2>2 DEF Distant
<1>10. yes <=> ~(vs > us)
  OBVIOUS
<1> HIDE DEF D, T, S, vs, us
<1>11. D # S
  BY <1>5, <1>7, <1>8, <1>9, <1>10
<1>12. QED
  BY <1>11 DEF D, S, a, b, c, e

(* A submission of a copy.  The walk's direction is what SubmitCopy makes   *)
(* of the corners, or of the caller's knowledge that it must go backwards.  *)
Forward(s, d, p, q, sameLayout, reverse) ==
  [k \in {1, 2} |-> \/ ~sameLayout /\ ~reverse
                    \/ sameLayout /\ Origin(d, q[1], q[2])[k] <= Origin(s, p[1], p[2])[k]]

LEMMA CopyOutcome ==
  ASSUME NEW c, Sound(c), Drawing(c), NEW mem, Pixels(mem), NEW s, NEW d, NEW u, NEW v, NEW p, NEW q, NEW f,
         Sited(s, u, p, f), Sited(d, v, q, f), p[3] = q[3], p[4] = q[4],
         NEW sameLayout, NEW reverse, InOrder(u, v, p, q, f, Forward(s, d, p, q, sameLayout, reverse)),
         NEW mask, NEW rop,
         NEW o \in SubmitCopy(c, mem, s, d, p[1], p[2], q[1], q[2], q[3], q[4], mask, f, sameLayout, reverse, rop),
         o.ok, ~o.c.slipped
  PROVE  CopyDrawn(u, v, p, q, f, rop, mask, mem, o.mem)
<1> DEFINE source == Origin(s, p[1], p[2])
           to == Origin(d, q[1], q[2])
           forward == Forward(s, d, p, q, sameLayout, reverse)
           values == [master |-> Master("copy", f, rop), mask |-> <<WriteMask(mask, f)>>,
                      cntl |-> forward, src |-> s.po, dst |-> d.po]
           g(n) == SetEngineState(BeginEnginePath(n.c, FALSE), values)
           at == CopyCorner(to, q, forward)
           size == <<q[3], q[4]>>
           from == CopyCorner(source, q, forward)
           bits == NoBits
           P == o.mem
<1>1. PICK n \in PrepareMmioEngine(c, mem) :
        o \in IF n.ok THEN Draw(g(n), n.mem, at, size, from, bits) ELSE {n}
  BY DEF SubmitCopy, AndThen, Forward, CopyCorner
<1>2. n.ok
  BY <1>1
<1>3. /\ DOMAIN values = {"master", "mask", "cntl", "src", "dst"} /\ values["dst"] = d.po /\ values["src"] = s.po
      /\ values["master"] = <<"copy", f, rop>> /\ values["mask"] = <<WriteMask(mask, f)>> /\ values["cntl"] = forward
  BY DEF Master
<1>4. DOMAIN values \subseteq Register
  BY <1>3 DEF Register
<1>5. \A r \in DOMAIN values \cap {"dst", "src"} : Aligned(values[r])
  BY <1>3 DEF Sited
<1> DEFINE e == g(n)
<1>6. e = SetEngineState(BeginEnginePath(n.c, FALSE), values) /\ o \in Draw(e, n.mem, at, size, from, bits)
  BY <1>1, <1>2
<1>7. forward[1] \in BOOLEAN /\ forward[2] \in BOOLEAN /\ DOMAIN forward = {1, 2}
  BY DEF Forward
<1>8. mem # <<>>
  BY SomewhereIs
<1> HIDE DEF values, at, size, from, bits, e, forward
<1>9. /\ o.ok /\ P = Paint(e, mem, at, size, from, bits) /\ o.c.slipped = e.slipped
      /\ ~e.slipped => \A r \in DOMAIN values : e.regs[r] = values[r]
  <2>1. Submits(c, mem, n, values, e, at, size, from, bits, o)
    BY <1>4, <1>5, <1>2, <1>6 DEF Submits
  <2>2. QED
    BY <1>8, <2>1, DrewPainted
<1>10. /\ e.regs["master"] = <<"copy", f, rop>> /\ e.regs["mask"] = <<WriteMask(mask, f)>>
       /\ e.regs["cntl"] = forward /\ e.regs["src"] = s.po /\ e.regs["dst"] = d.po
  BY <1>3, <1>9
<1> HIDE DEF P
<1>11. Copying(e, s, d, u, v, p, q, f, rop, mask, forward)
  BY <1>7, <1>10 DEF Copying, CopyInk
<1>12. CopyJob(e, s, d, u, v, p, q, f, rop, mask, forward, at, from, size)
  BY <1>11 DEF CopyJob, at, from, size
<1>13. InOrder(u, v, p, q, f, forward)
  BY DEF forward
<1>14. P = Paint(e, mem, at, size, from, bits)
  BY <1>9
<1>15. CopyDrawn(u, v, p, q, f, rop, mask, mem, P)
  BY <1>12, <1>13, <1>14, CopyPainted
<1>16. QED
  BY <1>15 DEF P
------------------------------------------------------------------------------
(* Where the extents of the surfaces lie that a copy is given.              *)
Validated(c, r, q, f, s) == s = ValidateSurface(c, r, q[1], q[2], q[3], q[4], f) /\ s.result = "hardware"
Placed(c, r, q, f, s) ==
  /\ s.extent = Extent(r, q[1], q[2], q[3], q[4], f) /\ s.r = r /\ s.bpp = f /\ s.limit = c.limit
  /\ "extent" \in DOMAIN s

LEMMA ReadyExtent ==
  ASSUME NEW c, NEW r, NEW q, NEW f, NEW s, Validated(c, r, q, f, s)
  PROVE  Placed(c, r, q, f, s)
<1> DEFINE x == q[1]
           y == q[2]
           w == q[3]
           h == q[4]
           bias == Bias(r, f)
           extent == Extent(r, x, y, w, h, f)
           g == [result |-> "hardware", r |-> r, bpp |-> f, limit |-> c.limit,
                 po |-> <<r.pitch, r.memory - (r.memory % BaseAlign)>>, bias |-> bias,
                 extent |-> extent]
           none == SoftwareSurfaceResult(r)
           C1 == f = 0 \/ r.pitch <= 0
           C2 == w <= 0 \/ h <= 0
           C3 == x < 0 \/ y < 0
           C4 == IsOffboardMemory(r.memory)
           C5 == r.memory >= c.limit
           C6 == r.pitch % PitchAlign # 0 \/ r.pitch > MaxPitch
           C7 == x + w - 1 > MaxCoord \/ y + h - 1 > MaxCoord
           C8 == (x + w) * f > r.pitch \/ LastByte(r, x, y, w, h, f) > c.limit - r.memory
           C9 == ((r.memory % BaseAlign) % r.pitch) % f # 0
           C10 == bias[1] + x + w - 1 > MaxCoord \/ bias[2] + y + h - 1 > MaxCoord
<1>1. s = IF C1 THEN none ELSE IF C2 THEN Result("reject") ELSE IF C3 THEN none
          ELSE IF C4 THEN Result("offboard") ELSE IF C5 THEN Result("reject")
          ELSE IF C6 THEN Result("onboard") ELSE IF C7 THEN Result("onboard")
          ELSE IF C8 THEN Result("reject") ELSE IF C9 THEN Result("onboard")
          ELSE IF C10 THEN Result("onboard") ELSE g
  BY Zenon DEF Validated, ValidateSurface, HardwareDatatype
<1>2. none.result # "hardware"
  BY DEF SoftwareSurfaceResult
<1>3. /\ Result("reject").result # "hardware" /\ Result("offboard").result # "hardware"
      /\ Result("onboard").result # "hardware"
  BY DEF Result
<1>4. g.extent = extent /\ g.r = r /\ g.bpp = f /\ g.limit = c.limit /\ "extent" \in DOMAIN g
  <2> HIDE DEF extent, bias
  <2>1. QED
    OBVIOUS
<1> HIDE DEF C1, C2, C3, C4, C5, C6, C7, C8, C9, C10, g, none, extent
<1>5. s = g
  BY <1>1, <1>2, <1>3 DEF Validated
<1>6. QED
  BY <1>4, <1>5 DEF extent, Placed

LEMMA SameSited ==
  ASSUME NEW c, c.limit \in 0..Aperture, NEW r, NEW p, NEW q, NEW f, NEW s, Sited(s, r, p, f),
         s.r = r, s.bpp = f, s.limit = c.limit, "extent" \in DOMAIN s,
         q[1] \in Int, q[2] \in Int, q[3] = p[3], q[4] = p[4],
         NEW d, d = ValidateSameSurfaceRectangle(q[1], q[2], q[3], q[4], s), d.result = "hardware"
  PROVE  Sited(d, r, q, f) /\ d.bias = s.bias /\ d.po = s.po
<1> DEFINE x == q[1]
           y == q[2]
           w == q[3]
           h == q[4]
           g == [s EXCEPT !.extent = Extent(s.r, x, y, w, h, s.bpp)]
           C1 == x < 0 \/ y < 0 \/ x + w - 1 > MaxCoord \/ y + h - 1 > MaxCoord
           C2 == (x + w) * s.bpp > s.r.pitch \/ LastByte(s.r, x, y, w, h, s.bpp) > s.limit - s.r.memory
           C3 == s.bias[1] + x + w - 1 > MaxCoord \/ s.bias[2] + y + h - 1 > MaxCoord
<1>1. d = IF C1 THEN Result("onboard") ELSE IF C2 THEN Result("reject") ELSE IF C3 THEN Result("onboard") ELSE g
  BY Zenon DEF ValidateSameSurfaceRectangle
<1>2. Result("reject").result # "hardware" /\ Result("onboard").result # "hardware"
  BY DEF Result
<1>3. g.bias = s.bias /\ g.po = s.po
  OBVIOUS
<1> HIDE DEF C1, C2, C3, g
<1>4. ~C1 /\ ~C2 /\ ~C3 /\ d = g
  BY <1>1, <1>2
<1>5. /\ f \in {1, 2, 4} /\ r.memory \in Nat /\ r.pitch \in Nat /\ r.pitch > 0
      /\ w \in Nat /\ h \in Nat /\ w > 0 /\ h > 0
      /\ ((r.memory % BaseAlign) % r.pitch) % f = 0
      /\ s.po = <<r.pitch, r.memory - (r.memory % BaseAlign)>> /\ s.bias = Bias(r, f) /\ Aligned(s.po)
  BY DEF Sited
<1>6. x \in Nat /\ y \in Nat
  BY <1>4 DEF C1
<1>7. s.bias[1] \in Nat /\ s.bias[2] \in Nat
  <2> DEFINE z == 0
  <2>1. z \in Int
    OBVIOUS
  <2> HIDE DEF z
  <2>2. QED
    BY <2>1, PixelAddress
<1>8. LastByte(r, x, y, w, h, f) \in Int /\ (x + w) * f \in Int
  <2>1. LastByte(r, x, y, w, h, f) \in Int
    <3> HIDE DEF x, y, w, h
    <3>1. r.pitch \in Int /\ r.pitch >= 0
      BY <1>5
    <3>2. QED
      BY <1>5, <1>6, <3>1, LastByteBehind, ZenonT(30)
  <2>2. (x + w) * f \in Int
    <3> HIDE DEF x, w
    <3>1. QED
      BY <1>5, <1>6
  <2>3. QED
    BY <2>1, <2>2
<1>9. (x + w) * f <= r.pitch /\ r.memory + LastByte(r, x, y, w, h, f) <= Aperture
  BY <1>4, <1>5, <1>8, Granules DEF C2
<1>10. s.bias[1] + x + w - 1 <= MaxCoord /\ s.bias[2] + y + h - 1 <= MaxCoord
  BY <1>4, <1>5, <1>6, <1>7, Granules DEF C3
<1>11. d.bias = s.bias /\ d.po = s.po
  BY <1>3, <1>4
<1>12. QED
  BY <1>5, <1>6, <1>9, <1>10, <1>11 DEF Sited

(* A copy leaves one memory, whatever the order it went in.                 *)
LEMMA CopyUnique ==
  ASSUME NEW u, NEW v, NEW p, NEW q, NEW f, NEW rop, NEW mask, NEW mem,
         NEW P, CopyDrawn(u, v, p, q, f, rop, mask, mem, P), NEW A, CopyDrawn(u, v, p, q, f, rop, mask, mem, A)
  PROVE  P = A
<1>1. Beside(v, f, q, mem, P) /\ Beside(v, f, q, mem, A)
  BY DEF CopyDrawn
<1>2. Alike(v, f, q, P, A)
  BY DEF CopyDrawn, Alike
<1>3. QED
  BY <1>1, <1>2, SameMemory

LEMMA CopyRight ==
  ASSUME Sound(card), Drawing(card), NEW s, NEW d, NEW u, NEW v, NEW p, NEW q, NEW f,
         Sited(s, u, p, f), Sited(d, v, q, f), p[3] = q[3], p[4] = q[4],
         NEW sameLayout, NEW reverse, InOrder(u, v, p, q, f, Forward(s, d, p, q, sameLayout, reverse)),
         NEW mask, NEW rop, NEW asked, CopyDrawn(u, v, p, q, f, rop, mask, OnBoard, asked),
         NEW drawn,
         drawn = SubmitCopy(card, OnBoard, s, d, p[1], p[2], q[1], q[2], q[3], q[4], mask, f, sameLayout, reverse, rop)
  PROVE  Right(drawn, asked)
<1>1. SUFFICES ASSUME NEW o \in drawn, o.ok, ~o.c.slipped PROVE o.mem = asked
  BY DEF Right
<1>2. o \in SubmitCopy(card, OnBoard, s, d, p[1], p[2], q[1], q[2], q[3], q[4], mask, f, sameLayout, reverse, rop)
  BY <1>1
<1> DEFINE P == o.mem
           mem == OnBoard
<1>3. Pixels(mem)
  BY Labelled
<1>4. CopyDrawn(u, v, p, q, f, rop, mask, mem, P)
  <2>1. o \in SubmitCopy(card, mem, s, d, p[1], p[2], q[1], q[2], q[3], q[4], mask, f, sameLayout, reverse, rop)
    BY <1>2
  <2> HIDE DEF mem
  <2>2. QED
    BY <1>1, <1>3, <2>1, CopyOutcome
<1> HIDE DEF P
<1>5. P = asked
  <2>1. CopyDrawn(u, v, p, q, f, rop, mask, mem, asked)
    OBVIOUS
  <2> HIDE DEF mem
  <2>2. QED
    BY <1>4, <2>1, CopyUnique
<1>6. QED
  BY <1>5 DEF P

\* Surfaces of one bitmap are taken in the order of their rows and columns.
LEMMA OneLayout ==
  ASSUME NEW s, NEW d, NEW u, NEW v, NEW p, NEW q, NEW f, Paired(s, d, u, v, p, q, f), u.memory = v.memory,
         NEW reverse
  PROVE  InOrder(u, v, p, q, f, Forward(s, d, p, q, TRUE, reverse))
<1> DEFINE yes == TRUE
           forward == Forward(s, d, p, q, yes, reverse)
<1>1. Sited(s, u, p, f) /\ Sited(d, v, q, f) /\ u.pitch = v.pitch
  BY DEF Paired
<1>2. s.bias = d.bias
  BY <1>1 DEF Sited, Bias
<1>3. p[1] \in Nat /\ p[2] \in Nat /\ q[1] \in Nat /\ q[2] \in Nat
  BY <1>1 DEF Sited
<1>4. s.bias[1] \in Nat /\ s.bias[2] \in Nat
  <2> DEFINE z == 0
  <2>1. z \in Int
    OBVIOUS
  <2> HIDE DEF z
  <2>2. QED
    BY <1>1, <2>1, PixelAddress
<1>5. /\ Origin(d, q[1], q[2])[1] = q[1] + s.bias[1] /\ Origin(s, p[1], p[2])[1] = p[1] + s.bias[1]
      /\ Origin(d, q[1], q[2])[2] = q[2] + s.bias[2] /\ Origin(s, p[1], p[2])[2] = p[2] + s.bias[2]
  BY <1>2 DEF Origin
<1>6. /\ forward[1] <=> Origin(d, q[1], q[2])[1] <= Origin(s, p[1], p[2])[1]
      /\ forward[2] <=> Origin(d, q[1], q[2])[2] <= Origin(s, p[1], p[2])[2]
      /\ forward[1] \in BOOLEAN /\ forward[2] \in BOOLEAN
  BY DEF Forward
<1> HIDE DEF forward
<1>7. (forward[1] <=> q[1] <= p[1]) /\ (forward[2] <=> q[2] <= p[2])
  <2> DEFINE f1 == forward[1]
             f2 == forward[2]
  <2>1. (f1 <=> q[1] + s.bias[1] <= p[1] + s.bias[1]) /\ (f2 <=> q[2] + s.bias[2] <= p[2] + s.bias[2])
    BY <1>5, <1>6
  <2> HIDE DEF f1, f2
  <2>2. (f1 <=> q[1] <= p[1]) /\ (f2 <=> q[2] <= p[2])
    BY <1>3, <1>4, <2>1
  <2>3. QED
    BY <2>2 DEF f1, f2
<1>8. InOrder(u, v, p, q, f, forward)
  BY <1>6, <1>7, OrderSame
<1>9. QED
  BY <1>8 DEF forward

LEMMA BlitRectPaints ==
  ASSUME Sound(card), Quiet(card), NEW r, r.memory \in Int, r.pitch \in Int,
         NEW q, q[1] \in Int, q[2] \in Int, q[3] \in Int, q[4] \in Int, NEW f \in {0, 1, 2, 4},
         NEW shift, shift[1] \in Int, shift[2] \in Int, NEW mask, BlitRect(r, q, shift, mask, f)
  PROVE  PaintsAsAsked'
<1> DEFINE p == From(q, shift)
           s == ValidateSurface(card, r, p[1], p[2], p[3], p[4], f)
           d == IF s.result = "hardware" THEN ValidateSameSurfaceRectangle(q[1], q[2], q[3], q[4], s)
                ELSE ValidateSurface(card, r, q[1], q[2], q[3], q[4], f)
           rejected == "reject" \in {s.result, d.result}
           legal == Legal(card, r, f, p) /\ Legal(card, r, f, q)
           hardware == HardwareReady(s) /\ HardwareReady(d) /\ s.po = d.po
           same == TRUE
           torn == FALSE
           drawn == SubmitCopy(card, OnBoard, s, d, p[1], p[2], q[1], q[2], q[3], q[4], mask, f, same, torn, ROP3_S)
           wanted(i, j, old) == Masked(old, OnBoard[Pixel(r, f, p[1] + i, p[2] + j)], mask, f)
           asked == Asked(r, f, q, wanted)
           off == Offboard(s) /\ Offboard(d)
           results == IF rejected THEN Dropped(card, legal)
                      ELSE IF hardware THEN Drawn(drawn, asked, torn) ELSE Softly(card, off)
<1>1. Happens(results)
  BY Zenon DEF BlitRect
<1>2. Drawing(card) /\ card.limit \in 0..Aperture
  BY Limits DEF Quiet, Drawing, Sound, Typed
<1>3. /\ p[1] \in Int /\ p[2] \in Int /\ p[3] \in Int /\ p[4] \in Int /\ p[3] = q[3] /\ p[4] = q[4]
  BY DEF From
<1>4. /\ hardware \in BOOLEAN
      /\ hardware => s.result = "hardware" /\ d.result = "hardware" /\ s.po = d.po
      /\ s.result = "hardware" => d = ValidateSameSurfaceRectangle(q[1], q[2], q[3], q[4], s)
      /\ s = ValidateSurface(card, r, p[1], p[2], p[3], p[4], f)
  BY Zenon DEF HardwareReady
<1> HIDE DEF p, s, d, hardware, off, rejected, legal
<1>5. hardware => Sited(s, r, p, f)
  BY <1>2, <1>3, <1>4, ReadySited
<1>6. hardware => s.r = r /\ s.bpp = f /\ s.limit = card.limit /\ "extent" \in DOMAIN s
  <2>1. SUFFICES ASSUME hardware PROVE s.r = r /\ s.bpp = f /\ s.limit = card.limit /\ "extent" \in DOMAIN s
    OBVIOUS
  <2>2. Validated(card, r, p, f, s)
    BY <1>4, <2>1 DEF Validated
  <2>3. Placed(card, r, p, f, s)
    BY <2>2, ReadyExtent
  <2>4. QED
    BY <2>3 DEF Placed
<1>7. hardware => Sited(d, r, q, f)
  <2>1. SUFFICES ASSUME hardware PROVE Sited(d, r, q, f)
    OBVIOUS
  <2>2. QED
    BY <1>2, <1>3, <1>4, <1>5, <1>6, <2>1, SameSited
<1>8. hardware => InOrder(r, r, p, q, f, Forward(s, d, p, q, same, torn))
  <2>1. SUFFICES ASSUME hardware PROVE InOrder(r, r, p, q, f, Forward(s, d, p, q, same, torn))
    OBVIOUS
  <2>2. Paired(s, d, r, r, p, q, f)
    BY <1>3, <1>5, <1>7, <2>1 DEF Paired
  <2>3. QED
    BY <2>2, OneLayout
<1>9. /\ asked = [a \in 0..Aperture-1 |-> asked[a]]
      /\ \A a \in 0..Aperture-1 :
           asked[a] = IF \E i \in 0..q[3]-1, j \in 0..q[4]-1 : Pixel(r, f, q[1] + i, q[2] + j) = a
                      THEN wanted(Place(r, f, q, a)[1], Place(r, f, q, a)[2], OnBoard[a]) ELSE OnBoard[a]
  <2> HIDE DEF wanted
  <2>1. QED
    BY Labelled DEF Asked, Pixels, Place
<1> HIDE DEF asked, wanted
<1>10. hardware => CopyDrawn(r, r, p, q, f, ROP3_S, mask, OnBoard, asked)
  <2>1. SUFFICES ASSUME hardware PROVE CopyDrawn(r, r, p, q, f, ROP3_S, mask, OnBoard, asked)
    OBVIOUS
  <2>2. Beside(r, f, q, OnBoard, asked)
    BY <1>9 DEF Beside
  <2>3. ASSUME NEW i \in 0..q[3]-1, NEW j \in 0..q[4]-1
        PROVE  asked[Pixel(r, f, q[1] + i, q[2] + j)] =
                 Masked(OnBoard[Pixel(r, f, q[1] + i, q[2] + j)],
                        Rop3(ROP3_S, {}, OnBoard[Pixel(r, f, p[1] + i, p[2] + j)],
                             OnBoard[Pixel(r, f, q[1] + i, q[2] + j)]), mask, f)
    <3> DEFINE a == Pixel(r, f, q[1] + i, q[2] + j)
               z == Pixel(r, f, p[1] + i, p[2] + j)
               src == OnBoard[z]
               none == {}
               old == OnBoard[a]
    <3>1. a \in 0..Aperture-1
      BY <1>7, <2>1, PixelIs
    <3>2. z \in 0..Aperture-1
      BY <1>3, <1>5, <2>1, PixelIs
    <3>3. Place(r, f, q, a)[1] = i /\ Place(r, f, q, a)[2] = j
      BY <1>7, <2>1, PlaceIs
    <3>4. asked[a] = wanted(i, j, OnBoard[a])
      BY <1>9, <3>1, <3>3
    <3>5. src \in SUBSET Plane
      BY <3>2, Labelled DEF Pixels
    <3>6. wanted(i, j, old) = Masked(old, src, mask, f)
      BY DEF wanted
    <3> HIDE DEF src, none, old
    <3>7. Rop3(ROP3_S, none, src, old) = src
      BY <3>5, RopSource
    <3> HIDE DEF a, z
    <3>8. asked[a] = Masked(old, Rop3(ROP3_S, none, src, old), mask, f)
      BY <3>4, <3>6, <3>7 DEF old
    <3>9. QED
      BY <3>8, Zenon DEF a, z, src, none, old
  <2>4. QED
    BY <2>2, <2>3, Zenon DEF CopyDrawn
<1>11. hardware => Right(drawn, asked)
  <2>1. SUFFICES ASSUME hardware PROVE Right(drawn, asked)
    OBVIOUS
  <2> DEFINE rop == ROP3_S
  <2>2. drawn = SubmitCopy(card, OnBoard, s, d, p[1], p[2], q[1], q[2], q[3], q[4], mask, f, same, torn, rop)
    OBVIOUS
  <2>3. CopyDrawn(r, r, p, q, f, rop, mask, OnBoard, asked)
    BY <1>10, <2>1
  <2> HIDE DEF drawn, rop, same, torn
  <2>4. QED
    BY <1>2, <1>3, <1>5, <1>7, <1>8, <2>1, <2>2, <2>3, CopyRight
<1>12. hardware => \A o \in drawn : Follows(card, o)
  <2>1. SUFFICES ASSUME hardware, NEW o \in drawn PROVE Follows(card, o)
    OBVIOUS
  <2>2. Aligned(s.po) /\ Aligned(d.po)
    BY <1>5, <1>7, <2>1 DEF Sited
  <2> DEFINE sx == p[1]
             sy == p[2]
             x == q[1]
             y == q[2]
             w == q[3]
             h == q[4]
             rop == ROP3_S
  <2>3. o \in SubmitCopy(card, OnBoard, s, d, sx, sy, x, y, w, h, mask, f, same, torn, rop)
    OBVIOUS
  <2> HIDE DEF sx, sy, x, y, w, h, rop, same, torn
  <2>4. QED
    BY <1>2, <2>2, <2>3, CopyFollows
<1> HIDE DEF drawn
<1>13. results = IF rejected THEN Dropped(card, legal)
                 ELSE IF hardware THEN Drawn(drawn, asked, torn) ELSE Softly(card, off)
  OBVIOUS
<1> HIDE DEF results
<1>14. QED
  BY <1>1, <1>4, <1>11, <1>12, <1>13, SurfaceShows, ZenonT(60)

(* The code of a copy looks at source and destination only.                 *)
Mixed(opcode, src, old) ==
  {b \in Plane : LET n == (IF b \in src THEN 2 ELSE 0) + (IF b \in old THEN 1 ELSE 0)
                 IN (opcode \div 2^n) % 2 = 1}

LEMMA CopyCode ==
  ASSUME NEW opcode \in 0..15, NEW m \in {1, 2, 4, 8}
  PROVE  ((17 * opcode) \div m) % 2 = (opcode \div m) % 2
<1>1. CASE opcode \in 0..7
  BY <1>1
<1>2. CASE opcode \in 8..15
  BY <1>2
<1>3. QED
  BY <1>1, <1>2

LEMMA RopMixes ==
  ASSUME NEW opcode \in 0..15, NEW S, NEW D, NEW none, none = {}
  PROVE  Rop3(P96CopyRop3(opcode), none, S, D) = Mixed(opcode, S, D)
<1> DEFINE code == P96CopyRop3(opcode)
           Q == Rop3(code, none, S, D)
           M == Mixed(opcode, S, D)
<1>1. Q \subseteq Plane
  BY RopInside
<1>2. M \subseteq Plane
  BY DEF Mixed
<1>3. code = 17 * opcode
  BY DEF P96CopyRop3
<1>4. ASSUME NEW b \in Plane PROVE b \in Q <=> b \in M
  <2> DEFINE n == (IF b \in none THEN 4 ELSE 0) + (IF b \in S THEN 2 ELSE 0) + (IF b \in D THEN 1 ELSE 0)
             k == (IF b \in S THEN 2 ELSE 0) + (IF b \in D THEN 1 ELSE 0)
             m == 2^n
             z == 2^k
  <2>1. n = k /\ n \in 0..3 /\ n \in 0..7
    OBVIOUS
  <2>2. b \in Q <=> (code \div m) % 2 = 1
    BY Zenon DEF Rop3
  <2>3. b \in M <=> (opcode \div z) % 2 = 1
    BY Zenon DEF Mixed
  <2>4. m = z
    <3> HIDE DEF n, k
    <3>1. QED
      BY <2>1, Zenon
  <2> HIDE DEF n, k, Q, M, z, code
  <2>5. \/ (n = 0 /\ m = 1) \/ (n = 1 /\ m = 2) \/ (n = 2 /\ m = 4) \/ (n = 3 /\ m = 8)
        \/ (n = 4 /\ m = 16) \/ (n = 5 /\ m = 32) \/ (n = 6 /\ m = 64) \/ (n = 7 /\ m = 128)
    BY <2>1, PowerOf, Zenon
  <2> HIDE DEF m
  <2>6. m \in {1, 2, 4, 8}
    BY <2>1, <2>5
  <2>7. (code \div m) % 2 = (opcode \div m) % 2
    BY <1>3, <2>6, CopyCode, Zenon
  <2>8. QED
    BY <2>2, <2>3, <2>4, <2>7
<1> HIDE DEF Q, M
<1>5. Q = M
  BY <1>1, <1>2, <1>4
<1>6. QED
  BY <1>5 DEF Q, M

(* Two bitmaps of one pitch and one aligned base, which the driver takes for *)
(* one, are one, or nothing is read from where it is painted.                *)
OneBase(u, v) == u.pitch = v.pitch /\ u.memory - (u.memory % BaseAlign) = v.memory - (v.memory % BaseAlign)
Told(u, v, p, q, f) ==
  OneBase(u, v) => \/ u.memory = v.memory
                   \/ Disjoint([extent |-> Extent(u, p[1], p[2], p[3], p[4], f)],
                               [extent |-> Extent(v, q[1], q[2], q[3], q[4], f)])

LEMMA TwoLayouts ==
  ASSUME NEW s, NEW d, NEW u, NEW v, NEW p, NEW q, NEW f,
         Sited(s, u, p, f), Sited(d, v, q, f), p[3] = q[3], p[4] = q[4],
         s.extent = Extent(u, p[1], p[2], p[3], p[4], f), d.extent = Extent(v, q[1], q[2], q[3], q[4], f),
         Told(u, v, p, q, f), Disjoint(s, d) \/ u.pitch = v.pitch,
         NEW same \in BOOLEAN, same <=> s.po = d.po,
         NEW reverse \in BOOLEAN, reverse <=> ~Disjoint(s, d) /\ d.extent.start > s.extent.start
  PROVE  InOrder(u, v, p, q, f, Forward(s, d, p, q, same, reverse))
<1> DEFINE forward == Forward(s, d, p, q, same, reverse)
<1>1. forward[1] \in BOOLEAN /\ forward[2] \in BOOLEAN
  BY DEF Forward
<1>2. same => OneBase(u, v)
  BY DEF Sited, OneBase
<1>3. Disjoint(s, d) <=> Disjoint([extent |-> Extent(u, p[1], p[2], p[3], p[4], f)],
                                  [extent |-> Extent(v, q[1], q[2], q[3], q[4], f)])
  BY DEF Disjoint
<1>4. CASE Disjoint(s, d)
  <2> HIDE DEF forward
  <2>1. InOrder(u, v, p, q, f, forward)
    BY <1>1, <1>4, OrderApart
  <2>2. QED
    BY <2>1 DEF forward
<1>5. CASE ~Disjoint(s, d)
  <2>1. Paired(s, d, u, v, p, q, f)
    BY <1>5 DEF Paired
  <2>2. CASE same
    <3>1. u.memory = v.memory
      BY <1>2, <1>3, <1>5, <2>2 DEF Told
    <3>2. same = TRUE
      BY <2>2
    <3>3. QED
      BY <2>1, <3>1, <3>2, OneLayout
  <2>3. CASE ~same
    <3> DEFINE yes == ~reverse
    <3>1. forward[1] = yes /\ forward[2] = yes /\ yes \in BOOLEAN
      BY <2>3 DEF Forward
    <3>2. d.extent.start = Pixel(v, f, q[1], q[2]) /\ s.extent.start = Pixel(u, f, p[1], p[2])
      BY DEF Extent, Pixel
    <3>3. yes <=> ~(Pixel(v, f, q[1], q[2]) > Pixel(u, f, p[1], p[2]))
      BY <1>5, <3>2
    <3> HIDE DEF forward, yes
    <3>4. InOrder(u, v, p, q, f, forward)
      BY <2>1, <3>1, <3>3, OrderPitch
    <3>5. QED
      BY <3>4 DEF forward
  <2>4. QED
    BY <2>2, <2>3
<1>6. QED
  BY <1>4, <1>5

LEMMA AllPlanes ==
  ASSUME NEW old \in SUBSET Plane, NEW new \in SUBSET Plane, NEW f
  PROVE  Masked(old, new, Plane, f) = new
BY DEF Masked, WriteMask

LEMMA BlitRectNoMaskCompletePaints ==
  ASSUME Sound(card), Quiet(card), NEW u, u.memory \in Int, u.pitch \in Int,
         NEW v, v.memory \in Int, v.pitch \in Int,
         NEW q, q[1] \in Int, q[2] \in Int, q[3] \in Int, q[4] \in Int, NEW f \in {0, 1, 2, 4},
         NEW shift, shift[1] \in Int, shift[2] \in Int, NEW opcode \in Nat,
         Told(u, v, From(q, shift), q, f), BlitRectNoMaskComplete(u, v, q, shift, opcode, f)
  PROVE  PaintsAsAsked'
<1> DEFINE p == From(q, shift)
           s == ValidateSurface(card, u, p[1], p[2], p[3], p[4], f)
           d == ValidateSurface(card, v, q[1], q[2], q[3], q[4], f)
           rejected == "reject" \in {s.result, d.result}
           legal == Legal(card, u, f, p) /\ Legal(card, v, f, q)
           hardware == /\ opcode < 16 /\ HardwareReady(s) /\ HardwareReady(d)
                       /\ Disjoint(s, d) \/ u.pitch = v.pitch
           same == s.po = d.po
           reverse == ~Disjoint(s, d) /\ d.extent.start > s.extent.start
           rop == P96CopyRop3(opcode)
           mask == Plane
           torn == FALSE
           drawn == SubmitCopy(card, OnBoard, s, d, p[1], p[2], q[1], q[2], q[3], q[4], mask, f, same, reverse, rop)
           wanted(i, j, old) ==
             LET src == OnBoard[Pixel(u, f, p[1] + i, p[2] + j)]
             IN {b \in Plane : LET n == (IF b \in src THEN 2 ELSE 0) + (IF b \in old THEN 1 ELSE 0)
                               IN (opcode \div 2^n) % 2 = 1}
           asked == Asked(v, f, q, wanted)
           off == Offboard(s) /\ Offboard(d)
           results == IF rejected THEN Dropped(card, legal)
                      ELSE IF hardware THEN Drawn(drawn, asked, torn) ELSE Softly(card, off)
<1>1. Happens(results)
  BY Zenon DEF BlitRectNoMaskComplete
<1>2. Drawing(card) /\ card.limit \in 0..Aperture
  BY Limits DEF Quiet, Drawing, Sound, Typed
<1>3. /\ p[1] \in Int /\ p[2] \in Int /\ p[3] \in Int /\ p[4] \in Int /\ p[3] = q[3] /\ p[4] = q[4]
  BY DEF From
<1>4. /\ hardware \in BOOLEAN
      /\ hardware => opcode < 16 /\ s.result = "hardware" /\ d.result = "hardware"
                     /\ (Disjoint(s, d) \/ u.pitch = v.pitch)
      /\ s = ValidateSurface(card, u, p[1], p[2], p[3], p[4], f)
      /\ d = ValidateSurface(card, v, q[1], q[2], q[3], q[4], f)
  BY Zenon DEF HardwareReady
<1>5. Told(u, v, p, q, f)
  OBVIOUS
<1>6. same \in BOOLEAN /\ (same <=> s.po = d.po)
  OBVIOUS
<1>7. reverse \in BOOLEAN /\ (reverse <=> ~Disjoint(s, d) /\ d.extent.start > s.extent.start)
  OBVIOUS
<1> HIDE DEF p, s, d, hardware, off, rejected, legal, same, reverse
<1>8. hardware => Sited(s, u, p, f)
  BY <1>2, <1>3, <1>4, ReadySited
<1>9. hardware => Sited(d, v, q, f)
  BY <1>2, <1>4, ReadySited
<1>10. hardware => s.extent = Extent(u, p[1], p[2], p[3], p[4], f)
  <2>1. SUFFICES ASSUME hardware PROVE s.extent = Extent(u, p[1], p[2], p[3], p[4], f)
    OBVIOUS
  <2>2. Validated(card, u, p, f, s)
    BY <1>4, <2>1 DEF Validated
  <2>3. Placed(card, u, p, f, s)
    BY <2>2, ReadyExtent
  <2>4. QED
    BY <2>3 DEF Placed
<1>11. hardware => d.extent = Extent(v, q[1], q[2], q[3], q[4], f)
  <2>1. SUFFICES ASSUME hardware PROVE d.extent = Extent(v, q[1], q[2], q[3], q[4], f)
    OBVIOUS
  <2>2. Validated(card, v, q, f, d)
    BY <1>4, <2>1 DEF Validated
  <2>3. Placed(card, v, q, f, d)
    BY <2>2, ReadyExtent
  <2>4. QED
    BY <2>3 DEF Placed
<1>12. hardware => InOrder(u, v, p, q, f, Forward(s, d, p, q, same, reverse))
  <2>1. SUFFICES ASSUME hardware PROVE InOrder(u, v, p, q, f, Forward(s, d, p, q, same, reverse))
    OBVIOUS
  <2>2. QED
    BY <1>3, <1>4, <1>5, <1>6, <1>7, <1>8, <1>9, <1>10, <1>11, <2>1, TwoLayouts
<1>13. /\ asked = [a \in 0..Aperture-1 |-> asked[a]]
       /\ \A a \in 0..Aperture-1 :
            asked[a] = IF \E i \in 0..q[3]-1, j \in 0..q[4]-1 : Pixel(v, f, q[1] + i, q[2] + j) = a
                       THEN wanted(Place(v, f, q, a)[1], Place(v, f, q, a)[2], OnBoard[a]) ELSE OnBoard[a]
  <2> HIDE DEF wanted
  <2>1. QED
    BY Labelled DEF Asked, Pixels, Place
<1> HIDE DEF asked, wanted
<1>14. hardware => CopyDrawn(u, v, p, q, f, rop, mask, OnBoard, asked)
  <2>1. SUFFICES ASSUME hardware PROVE CopyDrawn(u, v, p, q, f, rop, mask, OnBoard, asked)
    OBVIOUS
  <2>2. Beside(v, f, q, OnBoard, asked)
    BY <1>13 DEF Beside
  <2>3. ASSUME NEW i \in 0..q[3]-1, NEW j \in 0..q[4]-1
        PROVE  asked[Pixel(v, f, q[1] + i, q[2] + j)] =
                 Masked(OnBoard[Pixel(v, f, q[1] + i, q[2] + j)],
                        Rop3(rop, {}, OnBoard[Pixel(u, f, p[1] + i, p[2] + j)],
                             OnBoard[Pixel(v, f, q[1] + i, q[2] + j)]), mask, f)
    <3> DEFINE a == Pixel(v, f, q[1] + i, q[2] + j)
               z == Pixel(u, f, p[1] + i, p[2] + j)
               src == OnBoard[z]
               none == {}
               old == OnBoard[a]
               new == Rop3(rop, none, src, old)
    <3>1. a \in 0..Aperture-1
      BY <1>9, <2>1, PixelIs
    <3>2. z \in 0..Aperture-1
      BY <1>3, <1>8, <2>1, PixelIs
    <3>3. Place(v, f, q, a)[1] = i /\ Place(v, f, q, a)[2] = j
      BY <1>9, <2>1, PlaceIs
    <3>4. asked[a] = wanted(i, j, OnBoard[a])
      BY <1>13, <3>1, <3>3
    <3>5. old \in SUBSET Plane
      BY <3>1, Labelled DEF Pixels
    <3>6. wanted(i, j, old) = Mixed(opcode, src, old)
      BY Zenon DEF wanted, Mixed
    <3>7. opcode \in 0..15
      BY <1>4, <2>1
    <3>8. none = {}
      OBVIOUS
    <3>9. new \in SUBSET Plane
      BY RopInside
    <3> HIDE DEF src, none, old
    <3>10. new = Mixed(opcode, src, old)
      BY <3>7, <3>8, RopMixes
    <3> HIDE DEF new, a, z
    <3>11. Masked(old, new, mask, f) = new
      BY <3>5, <3>9, AllPlanes
    <3>12. asked[a] = Masked(old, new, mask, f)
      BY <3>4, <3>6, <3>10, <3>11 DEF old
    <3>13. QED
      BY <3>12, Zenon DEF a, z, src, none, old, new
  <2>4. QED
    BY <2>2, <2>3, Zenon DEF CopyDrawn
<1>15. drawn = SubmitCopy(card, OnBoard, s, d, p[1], p[2], q[1], q[2], q[3], q[4], mask, f, same, reverse, rop)
  OBVIOUS
<1>16. results = IF rejected THEN Dropped(card, legal)
                 ELSE IF hardware THEN Drawn(drawn, asked, torn) ELSE Softly(card, off)
  OBVIOUS
<1> HIDE DEF drawn, rop, mask, results, torn
<1>17. hardware => Right(drawn, asked)
  <2>1. SUFFICES ASSUME hardware PROVE Right(drawn, asked)
    OBVIOUS
  <2>2. QED
    BY <1>2, <1>3, <1>8, <1>9, <1>12, <1>14, <1>15, <2>1, CopyRight
<1>18. hardware => \A o \in drawn : Follows(card, o)
  <2>1. SUFFICES ASSUME hardware, NEW o \in drawn PROVE Follows(card, o)
    OBVIOUS
  <2>2. Aligned(s.po) /\ Aligned(d.po)
    BY <1>8, <1>9, <2>1 DEF Sited
  <2> DEFINE sx == p[1]
             sy == p[2]
             x == q[1]
             y == q[2]
             w == q[3]
             h == q[4]
  <2>3. o \in SubmitCopy(card, OnBoard, s, d, sx, sy, x, y, w, h, mask, f, same, reverse, rop)
    BY <1>15, <2>1
  <2> HIDE DEF sx, sy, x, y, w, h
  <2>4. QED
    BY <1>2, <2>2, <2>3, CopyFollows
<1>19. QED
  BY <1>1, <1>4, <1>16, <1>17, <1>18, SurfaceShows, ZenonT(60)
------------------------------------------------------------------------------
Copy ==
  \E f \in DrawFormats, q \in Rects, shift \in Shifts :
    \/ \E r \in Render, mask \in Masks : BlitRect(r, q, shift, mask, f)
    \/ \E pair \in Pairs, opcode \in Opcodes :
         /\ Told(pair[1], pair[2], From(q, shift), q, f)
         /\ BlitRectNoMaskComplete(pair[1], pair[2], q, shift, opcode, f)

LEMMA CopyPaints == IInv /\ Copy => PaintsAsAsked'
<1> SUFFICES ASSUME IInv, Copy PROVE PaintsAsAsked'
  OBVIOUS
<1>1. PICK f \in DrawFormats, q \in Rects, shift \in Shifts :
        \/ \E r \in Render, mask \in Masks : BlitRect(r, q, shift, mask, f)
        \/ \E pair \in Pairs, opcode \in Opcodes :
             /\ Told(pair[1], pair[2], From(q, shift), q, f)
             /\ BlitRectNoMaskComplete(pair[1], pair[2], q, shift, opcode, f)
  BY DEF Copy
<1>2. Sound(card) /\ Quiet(card)
  BY DEF IInv
<1>3. q[1] \in Int /\ q[2] \in Int /\ q[3] \in Int /\ q[4] \in Int /\ shift[1] \in Int /\ shift[2] \in Int
      /\ f \in {0, 1, 2, 4}
  BY Given
<1>4. CASE \E r \in Render, mask \in Masks : BlitRect(r, q, shift, mask, f)
  <2>1. PICK r \in Render, mask \in Masks : BlitRect(r, q, shift, mask, f)
    BY <1>4
  <2>2. r.memory \in Int /\ r.pitch \in Int
    BY Given
  <2>3. QED
    BY <1>2, <1>3, <2>1, <2>2, BlitRectPaints
<1>5. CASE \E pair \in Pairs, opcode \in Opcodes :
             /\ Told(pair[1], pair[2], From(q, shift), q, f)
             /\ BlitRectNoMaskComplete(pair[1], pair[2], q, shift, opcode, f)
  <2>1. PICK pair \in Pairs, opcode \in Opcodes :
               /\ Told(pair[1], pair[2], From(q, shift), q, f)
               /\ BlitRectNoMaskComplete(pair[1], pair[2], q, shift, opcode, f)
    BY <1>5
  <2> DEFINE u == pair[1]
             v == pair[2]
  <2>2. u.memory \in Int /\ u.pitch \in Int /\ v.memory \in Int /\ v.pitch \in Int /\ opcode \in Nat
    BY Given, SourceAssumption
  <2>3. Told(u, v, From(q, shift), q, f) /\ BlitRectNoMaskComplete(u, v, q, shift, opcode, f)
    BY <2>1
  <2> HIDE DEF u, v
  <2>4. QED
    BY <1>2, <1>3, <2>2, <2>3, BlitRectNoMaskCompletePaints
<1>6. QED
  BY <1>1, <1>4, <1>5

(* A copy leaves exactly the picture that was asked for, whatever its        *)
(* rectangles, their overlap, bias, raster operation and mask: every pixel   *)
(* is read before the walk paints over it (BlitRect, BlitRectNoMaskComplete  *)
(* and SubmitCopy).  Two bitmaps that the driver takes for one, as pitch and *)
(* aligned base are the same, have to be one or not to overlap here.         *)
THEOREM CopiesPaintAsAsked == Draw2DSpec => [][Copy => PaintsAsAsked']_d2vars
<1>1. IInv /\ [Draw2DNext]_d2vars => [Copy => PaintsAsAsked']_d2vars
  BY CopyPaints
<1>2. QED
  BY <1>1, Draw2DInvariant, PTL DEF Draw2DSpec
------------------------------------------------------------------------------
(* Lines.  The remembered surface has the line's rectangle in it.           *)
LEMMA BelowOfThree ==
  ASSUME NEW a \in Int, NEW b \in Int, NEW c \in Int, NEW m, m = Min({a, b, c}), NEW x \in Int, ~(x > m)
  PROVE  x <= a /\ x <= b /\ x <= c
<1> DEFINE S == {a, b, c}
<1>1. \E y \in S : \A z \in S : y <= z
  <2>1. CASE a <= b /\ a <= c
    BY <2>1
  <2>2. CASE b <= a /\ b <= c
    BY <2>2
  <2>3. CASE c <= a /\ c <= b
    BY <2>3
  <2>4. QED
    BY <2>1, <2>2, <2>3
<1>2. m \in S /\ \A z \in S : m <= z
  BY <1>1 DEF Min
<1>3. QED
  BY <1>2

LEMMA OfTwoIs ==
  ASSUME NEW a \in Int, NEW b \in Int
  PROVE  Max({a, b}) = (IF a >= b THEN a ELSE b) /\ Min({a, b}) = (IF a <= b THEN a ELSE b)
<1> DEFINE S == {a, b}
           big == Max(S)
           small == Min(S)
<1>1. \E x \in S : \A y \in S : x <= y
  <2>1. CASE a <= b
    BY <2>1
  <2>2. CASE b <= a
    BY <2>2
  <2>3. QED
    BY <2>1, <2>2
<1>2. \E x \in S : \A y \in S : x >= y
  <2>1. CASE a <= b
    BY <2>1
  <2>2. CASE b <= a
    BY <2>2
  <2>3. QED
    BY <2>1, <2>2
<1>3. small \in S /\ \A y \in S : small <= y
  BY <1>1 DEF Min
<1>4. big \in S /\ \A y \in S : big >= y
  BY <1>2 DEF Max
<1> HIDE DEF big, small
<1>5. big = (IF a >= b THEN a ELSE b) /\ small = (IF a <= b THEN a ELSE b)
  BY <1>3, <1>4
<1>6. QED
  BY <1>5 DEF big, small

LEMMA UpToQuotient ==
  ASSUME NEW k \in Nat, NEW n \in Int, NEW p \in Nat, p > 0, k <= (n \div p) - 1
  PROVE  (k + 1) * p <= n
<1> DEFINE d == n \div p
<1>1. d \in Int /\ d * p <= n
  OBVIOUS
<1>2. k + 1 <= d
  BY <1>1
<1> HIDE DEF d
<1>3. (k + 1) * p <= d * p
  BY <1>1, <1>2
<1>4. (k + 1) * p \in Int /\ d * p \in Int
  BY <1>1
<1>5. QED
  BY <1>1, <1>3, <1>4

(* A rectangle of the remembered surface, within its bounds.                *)
LEMMA LineSited ==
  ASSUME NEW c, c.limit \in 0..Aperture, NEW r, r.memory \in Int, r.pitch \in Int, NEW f \in {0, 1, 2, 4},
         LineSurface(c, r, f) = "good", NEW s, s = LineLayout(c, r, f),
         NEW q, q[1] \in Nat, q[2] \in Nat, q[3] \in Nat, q[4] \in Nat, q[3] > 0, q[4] > 0,
         ~(q[1] + q[3] - 1 > s.maxX), ~(q[2] + q[4] - 1 > s.maxY)
  PROVE  Sited(s, r, q, f)
<1> DEFINE x == q[1]
           y == q[2]
           w == q[3]
           h == q[4]
           p == r.pitch
           m == r.memory
           bias == Bias(r, f)
           bx == bias[1]
           by == bias[2]
           n == c.limit - m
           right == x + w - 1
           bottom == y + h - 1
<1>1. /\ f \in {1, 2, 4} /\ p > 0 /\ p \in Nat /\ p <= MaxPitch /\ p % PitchAlign = 0
      /\ m \in 0..Aperture /\ ~(m >= c.limit)
  BY GoodLine
<1>2. ((m % BaseAlign) % p) % f = 0
  <2> DEFINE none == SoftwareSurfaceResult(r).result
             C1 == f = 0 \/ r.pitch <= 0
             C2 == IsOffboardMemory(r.memory)
             C3 == r.memory >= c.limit
             C4 == r.pitch % PitchAlign # 0 \/ r.pitch > MaxPitch
             C5 == r.pitch < f \/ c.limit - r.memory < r.pitch
             C6 == ((r.memory % BaseAlign) % r.pitch) % f # 0
             C7 == Bias(r, f)[1] > MaxCoord \/ Bias(r, f)[2] > MaxCoord
  <2>1. LineSurface(c, r, f) = IF C1 THEN none ELSE IF C2 THEN "offboard" ELSE IF C3 THEN "reject"
          ELSE IF C4 THEN "onboard" ELSE IF C5 THEN "reject" ELSE IF C6 THEN "onboard"
          ELSE IF C7 THEN "onboard" ELSE "good"
    BY Zenon DEF LineSurface
  <2>2. none # "good"
    BY DEF SoftwareSurfaceResult
  <2> HIDE DEF C1, C2, C3, C4, C5, C6, C7, none
  <2>3. ~C6
    BY <2>1, <2>2
  <2>4. QED
    BY <2>3 DEF C6
<1>3. bx \in Nat /\ by \in Nat
  BY <1>1, BiasIs
<1>4. /\ s.po = <<p, m - (m % BaseAlign)>> /\ s.bias = bias
      /\ s.maxX = Min({(p \div f) - 1, MaxCoord, MaxCoord - bx})
      /\ s.maxY = Min({(n \div p) - 1, MaxCoord, MaxCoord - by})
  BY DEF LineLayout
<1>5. right \in Nat /\ bottom \in Nat /\ n \in Int /\ ~(right > s.maxX) /\ ~(bottom > s.maxY)
  BY <1>1
<1> HIDE DEF p, m, bx, by, n, right, bottom, bias
<1>6. right <= (p \div f) - 1 /\ right <= MaxCoord - bx
  <2> DEFINE a == (p \div f) - 1
             d == MaxCoord - bx
             e == s.maxX
  <2>1. a \in Int /\ MaxCoord \in Int /\ d \in Int
    BY <1>1, <1>3, Granules
  <2>2. e = Min({a, MaxCoord, d}) /\ right \in Int /\ ~(right > e)
    BY <1>4, <1>5
  <2> HIDE DEF a, d, e
  <2>3. right <= a /\ right <= d
    BY <2>1, <2>2, BelowOfThree
  <2>4. QED
    BY <2>3 DEF a, d
<1>7. bottom <= (n \div p) - 1 /\ bottom <= MaxCoord - by
  <2> DEFINE a == (n \div p) - 1
             d == MaxCoord - by
             e == s.maxY
  <2>1. a \in Int /\ MaxCoord \in Int /\ d \in Int
    BY <1>1, <1>3, <1>5, Granules
  <2>2. e = Min({a, MaxCoord, d}) /\ bottom \in Int /\ ~(bottom > e)
    BY <1>4, <1>5
  <2> HIDE DEF a, d, e
  <2>3. bottom <= a /\ bottom <= d
    BY <2>1, <2>2, BelowOfThree
  <2>4. QED
    BY <2>3 DEF a, d
<1>8. (right + 1) * f <= p
  BY <1>1, <1>5, <1>6, UpToQuotient
<1>9. (bottom + 1) * p <= n
  BY <1>1, <1>5, <1>7, UpToQuotient
<1>10. Aligned(s.po)
  BY <1>1, <1>4, PitchOffset
<1>11. (x + w) * f <= p /\ x + w = right + 1
  <2>1. x + w = right + 1
    BY DEF right
  <2> HIDE DEF x, w
  <2>2. QED
    BY <1>8, <2>1
<1>12. m + LastByte(r, x, y, w, h, f) <= Aperture
  <2>1. LastByte(r, x, y, w, h, f) = bottom * p + (right + 1) * f
    <3>1. LastByte(r, x, y, w, h, f) = (y + h - 1) * p + (x + w) * f
      BY DEF LastByte, p
    <3>2. y + h - 1 = bottom /\ x + w = right + 1
      BY DEF right, bottom
    <3> HIDE DEF x, y, w, h
    <3>3. QED
      BY <3>1, <3>2
  <2>2. bottom * p \in Int /\ (right + 1) * f \in Int /\ (bottom + 1) * p = bottom * p + p
    BY <1>1, <1>5
  <2>3. LastByte(r, x, y, w, h, f) <= n
    BY <1>1, <1>5, <1>8, <1>9, <2>1, <2>2
  <2>4. LastByte(r, x, y, w, h, f) \in Int
    BY <2>1, <2>2
  <2> DEFINE lb == LastByte(r, x, y, w, h, f)
  <2> HIDE DEF lb
  <2>5. m + lb <= Aperture
    BY <1>1, <2>3, <2>4, Granules DEF n, lb
  <2>6. QED
    BY <2>5 DEF lb
<1>13. bx + x + w - 1 <= MaxCoord /\ by + y + h - 1 <= MaxCoord
  BY <1>3, <1>6, <1>7, Granules DEF right, bottom
<1>14. QED
  BY <1>1, <1>2, <1>4, <1>10, <1>11, <1>12, <1>13 DEF Sited, p, m, bx, by, bias

(* A pixel of the rectangle is a rectangle of its own.                      *)
LEMMA PixelSited ==
  ASSUME NEW s, NEW r, NEW q, NEW f, Sited(s, r, q, f), NEW i \in 0..q[3]-1, NEW j \in 0..q[4]-1,
         NEW d, d = <<q[1] + i, q[2] + j, 1, 1>>
  PROVE  Sited(s, r, d, f)
<1> DEFINE p == r.pitch
           m == r.memory
           x == q[1] + i
           y == q[2] + j
           e == q[1] + q[3]
           b == q[2] + q[4] - 1
<1>1. /\ p \in Nat /\ p > 0 /\ m \in Nat /\ f \in {1, 2, 4} /\ x \in Nat /\ y \in Nat /\ e \in Nat /\ b \in Nat
      /\ x + 1 <= e /\ y <= b /\ e * f <= p
      /\ d[1] = x /\ d[2] = y /\ d[3] = 1 /\ d[4] = 1
  BY DEF Sited
<1>2. /\ LastByte(r, q[1], q[2], q[3], q[4], f) = b * p + e * f
      /\ m + LastByte(r, q[1], q[2], q[3], q[4], f) <= Aperture
  BY DEF LastByte, Sited
<1>3. LastByte(r, d[1], d[2], d[3], d[4], f) = y * p + (x + 1) * f
  <2>1. LastByte(r, d[1], d[2], d[3], d[4], f) = (y + 1 - 1) * p + (x + 1) * f
    BY <1>1 DEF LastByte
  <2>2. y + 1 - 1 = y
    BY <1>1
  <2> HIDE DEF x, y, p
  <2>3. QED
    BY <2>1, <2>2
<1>4. s.bias[1] \in Nat /\ s.bias[2] \in Nat
  <2> DEFINE z == 0
  <2>1. z \in Int
    OBVIOUS
  <2> HIDE DEF z
  <2>2. QED
    BY <2>1, PixelAddress
<1>5. s.bias[1] + e - 1 <= MaxCoord /\ s.bias[2] + b <= MaxCoord
  BY <1>4, Granules DEF Sited
<1> DEFINE bx == s.bias[1]
           by == s.bias[2]
           end  == LastByte(r, q[1], q[2], q[3], q[4], f)
           own == LastByte(r, d[1], d[2], d[3], d[4], f)
<1>6. (d[1] + d[3]) * f = (x + 1) * f
  BY <1>1
<1>7. bx \in Nat /\ by \in Nat /\ bx + e - 1 <= MaxCoord /\ by + b <= MaxCoord
  BY <1>4, <1>5
<1>8. end = b * p + e * f /\ m + end <= Aperture /\ own = y * p + (x + 1) * f
  BY <1>2, <1>3
<1> HIDE DEF p, m, x, y, e, b, bx, by, end, own
<1>9. (x + 1) * f <= e * f /\ y * p <= b * p
  BY <1>1
<1>10. (x + 1) * f \in Nat /\ e * f \in Nat /\ y * p \in Nat /\ b * p \in Nat
  BY <1>1
<1>11. (x + 1) * f <= p /\ m + own <= Aperture
  BY <1>1, <1>8, <1>9, <1>10, Granules
<1>12. bx + x + 1 - 1 <= MaxCoord /\ by + y + 1 - 1 <= MaxCoord
  BY <1>1, <1>7, Granules
<1>13. (d[1] + d[3]) * f <= p
  BY <1>6, <1>11
<1>14. bx + d[1] + d[3] - 1 <= MaxCoord /\ by + d[2] + d[4] - 1 <= MaxCoord
  BY <1>1, <1>12
<1>15. d[1] \in Nat /\ d[2] \in Nat /\ d[3] \in Nat /\ d[4] \in Nat /\ d[3] > 0 /\ d[4] > 0
  BY <1>1
<1>16. QED
  BY <1>11, <1>13, <1>14, <1>15 DEF Sited, p, m, bx, by, own

(* The points of a diagonal lie in its rectangle.                           *)
Diagonal(l) ==
  /\ l.x \in Int /\ l.y \in Int /\ l.dx \in Int /\ l.dy \in Int
  /\ l.dx = 0 \/ l.dy = 0 \/ l.dx = l.dy \/ l.dx = -l.dy

LEMMA LengthIs ==
  ASSUME NEW l, Diagonal(l)
  PROVE  /\ Length(l) \in Nat
         /\ \/ Length(l) = (IF l.dx >= 0 THEN l.dx ELSE -l.dx)
            \/ Length(l) = (IF l.dy >= 0 THEN l.dy ELSE -l.dy)
         /\ Length(l) >= l.dx /\ Length(l) >= -l.dx /\ Length(l) >= l.dy /\ Length(l) >= -l.dy
<1> DEFINE dx == l.dx
           dy == l.dy
           nx == -l.dx
           ny == -l.dy
           S == {dx, nx, dy, ny}
           n == Max(S)
           ax == IF dx >= 0 THEN dx ELSE nx
           ay == IF dy >= 0 THEN dy ELSE ny
<1>1. dx \in Int /\ dy \in Int /\ nx \in Int /\ ny \in Int /\ nx = -dx /\ ny = -dy
  BY DEF Diagonal
<1>2. \E x \in S : \A y \in S : x >= y
  <2> HIDE DEF dx, dy, nx, ny
  <2>1. CASE ax >= ay
    BY <1>1, <2>1
  <2>2. CASE ay >= ax
    BY <1>1, <2>2
  <2>3. QED
    BY <1>1, <2>1, <2>2
<1>3. n \in S /\ \A y \in S : n >= y
  BY <1>2 DEF Max
<1>4. Length(l) = n
  BY DEF Length
<1> HIDE DEF n
<1>5. QED
  BY <1>1, <1>3, <1>4

LEMMA PointWithin ==
  ASSUME NEW l, Diagonal(l), NEW q, q = Rectangle(l), NEW k \in 0..Length(l)
  PROVE  /\ Point(l, k)[1] - q[1] \in 0..q[3]-1 /\ Point(l, k)[2] - q[2] \in 0..q[4]-1
         /\ Point(l, k)[1] \in Int /\ Point(l, k)[2] \in Int
<1> DEFINE x == l.x
           y == l.y
           dx == l.dx
           dy == l.dy
           nx == -l.dx
           ny == -l.dy
           x2 == x + dx
           y2 == y + dy
           n == Length(l)
<1>1. x \in Int /\ y \in Int /\ dx \in Int /\ dy \in Int /\ nx \in Int /\ ny \in Int /\ x2 \in Int /\ y2 \in Int
      /\ nx = -dx /\ ny = -dy /\ x2 = x + dx /\ y2 = y + dy
      /\ (dx = 0 \/ dy = 0 \/ dx = dy \/ dx = -dy)
  BY DEF Diagonal
<1>2. /\ n \in Nat /\ k \in 0..n
      /\ n = (IF dx >= 0 THEN dx ELSE -dx) \/ n = (IF dy >= 0 THEN dy ELSE -dy)
      /\ n >= dx /\ n >= -dx /\ n >= dy /\ n >= -dy
  BY LengthIs
<1>3. q = <<Min({x, x2}), Min({y, y2}), Max({dx, nx}) + 1, Max({dy, ny}) + 1>>
  BY DEF Rectangle
<1> HIDE DEF x, y, dx, dy, nx, ny, x2, y2, n
<1>4. /\ Min({x, x2}) = (IF x <= x2 THEN x ELSE x2) /\ Min({y, y2}) = (IF y <= y2 THEN y ELSE y2)
      /\ Max({dx, nx}) = (IF dx >= nx THEN dx ELSE nx) /\ Max({dy, ny}) = (IF dy >= ny THEN dy ELSE ny)
  BY <1>1, OfTwoIs
<1>5. /\ q[1] = (IF x <= x2 THEN x ELSE x2) /\ q[2] = (IF y <= y2 THEN y ELSE y2)
      /\ q[3] = (IF dx >= nx THEN dx ELSE nx) + 1 /\ q[4] = (IF dy >= ny THEN dy ELSE ny) + 1
  BY <1>3, <1>4
<1>6. Point(l, k) = <<x + Sign(dx) * k, y + Sign(dy) * k>>
  BY DEF Point, x, y, dx, dy
<1>7. /\ Sign(dx) * k = (IF dx < 0 THEN -k ELSE IF dx = 0 THEN 0 ELSE k)
      /\ Sign(dy) * k = (IF dy < 0 THEN -k ELSE IF dy = 0 THEN 0 ELSE k)
  BY <1>1, <1>2 DEF Sign
<1> DEFINE px == Point(l, k)[1]
           py == Point(l, k)[2]
<1>8. /\ px = x + (IF dx < 0 THEN -k ELSE IF dx = 0 THEN 0 ELSE k)
      /\ py = y + (IF dy < 0 THEN -k ELSE IF dy = 0 THEN 0 ELSE k)
  BY <1>6, <1>7
<1> HIDE DEF px, py
<1>9. px \in Int /\ py \in Int
  BY <1>1, <1>2, <1>8
<1>10. dx # 0 => k <= (IF dx >= nx THEN dx ELSE nx)
  BY <1>1, <1>2
<1>11. dy # 0 => k <= (IF dy >= ny THEN dy ELSE ny)
  BY <1>1, <1>2
<1>12. px - q[1] \in 0..q[3]-1
  BY <1>1, <1>2, <1>5, <1>8, <1>10
<1>13. py - q[2] \in 0..q[4]-1
  BY <1>1, <1>2, <1>5, <1>8, <1>11
<1>14. QED
  BY <1>9, <1>12, <1>13 DEF px, py
------------------------------------------------------------------------------
(* A submission on the remembered surface, and the registers it leaves.     *)
Entering(c, mem, q, values, g) ==
  /\ Sound(c) /\ Drawing(c) /\ q \in PrepareMmioEngine(c, mem) /\ q.ok /\ DOMAIN values \subseteq Register
  /\ \A r \in DOMAIN values \cap {"dst", "src"} : Aligned(values[r])
  /\ g = SetEngineState(BeginEnginePath(q.c, FALSE), values)
Entered(c, mem, q, values, g) ==
  /\ q.mem = mem /\ g.line = c.line /\ Painted(g).slipped = g.slipped
  /\ ~g.slipped => \A r \in DOMAIN values : g.regs[r] = values[r]

LEMMA WroteRegisters ==
  ASSUME NEW c, NEW mem, NEW q, NEW values, NEW g, Entering(c, mem, q, values, g)
  PROVE  Entered(c, mem, q, values, g)
<1>0. /\ Sound(c) /\ Drawing(c) /\ q \in PrepareMmioEngine(c, mem) /\ q.ok /\ DOMAIN values \subseteq Register
      /\ \A r \in DOMAIN values \cap {"dst", "src"} : Aligned(values[r])
      /\ g = SetEngineState(BeginEnginePath(q.c, FALSE), values)
  BY DEF Entering
<1>1. q.mem = mem
  BY <1>0, PrepareMemory
<1>2. Follows(c, q) /\ Writable(q.c)
  BY <1>0, PrepareFollows
<1> DEFINE d == q.c
           b == BeginEnginePath(d, FALSE)
           no == FALSE
<1>3. no \in BOOLEAN /\ b = BeginEnginePath(d, no)
  OBVIOUS
<1>4. Sound(d) /\ d.line = c.line /\ Writable(d)
  BY <1>2 DEF Follows
<1>g. g = SetEngineState(b, values)
  BY <1>0
<1> HIDE DEF no, b, d
<1>5. /\ Sound(b) /\ b.pending = d.pending /\ b.restore = d.restore /\ b.slipped = d.slipped /\ b.accel = d.accel /\ b.held = d.held
      /\ b.limit = d.limit /\ b.line = d.line /\ b.staging = d.staging /\ b.ready = (d.ready /\ no)
  BY <1>3, <1>4, BeginKeeps DEF Writable
<1>6. Writable(b)
  BY <1>4, <1>5 DEF Writable
<1>7. Writable(g) /\ g.line = b.line /\ (~g.slipped => \A r \in DOMAIN values : g.regs[r] = values[r])
  <2> DEFINE e == SetEngineState(b, values)
  <2>1. Writable(e) /\ (~e.slipped => \A r \in DOMAIN values : e.regs[r] = values[r]) /\ e.line = b.line
    BY <1>0, <1>6, SetWritable
  <2>2. g = e
    BY <1>g
  <2> HIDE DEF e
  <2>3. QED
    BY <2>1, <2>2
<1>8. Painted(g).slipped = g.slipped
  BY <1>7 DEF Painted, Writable, Sound, Typed, CardField
<1>9. QED
  BY <1>1, <1>4, <1>5, <1>7, <1>8 DEF Entered

Ruled(e, s, pen, mask, f, rop) ==
  \A g \in DOMAIN SolidValues(s, pen, mask, f, rop) : e.regs[g] = SolidValues(s, pen, mask, f, rop)[g]

LEMMA RuledBy ==
  ASSUME NEW c, NEW f, NEW rop, NEW pen, NEW mask, NEW values, values = LineRegisters(c, f, rop, pen, mask),
         NEW e, \A r \in DOMAIN values : e.regs[r] = values[r]
  PROVE  Ruled(e, c.line, pen, mask, f, rop)
<1>1. DOMAIN values = {"master", "dst", "mask", "fg", "cntl", "tl", "br"}
  BY DEF LineRegisters
<1>2. DOMAIN SolidValues(c.line, pen, mask, f, rop) = {"master", "fg", "mask", "cntl", "dst"}
  BY DEF SolidValues
<1>3. \A g \in {"master", "fg", "mask", "cntl", "dst"} : SolidValues(c.line, pen, mask, f, rop)[g] = values[g]
  BY DEF SolidValues, LineRegisters
<1>4. QED
  BY <1>1, <1>2, <1>3 DEF Ruled

LEMMA AxisOutcome ==
  ASSUME NEW c, Sound(c), Drawing(c), NEW mem, Pixels(mem), NEW r, NEW q, NEW f, NEW s, s = c.line, Sited(s, r, q, f),
         NEW pen \in SUBSET Plane, NEW mask,
         NEW o \in SubmitSolidAxisRect(c, mem, q[1], q[2], q[3], q[4], pen, mask, f), o.ok, ~o.c.slipped
  PROVE  Filled(r, f, q, pen, mask, ROP3_P, mem, o.mem)
<1> DEFINE v(n) == LineRegisters(n.c, f, ROP3_P, pen, mask)
           g(n) == SetEngineState(BeginEnginePath(n.c, FALSE), v(n))
           to(n) == Origin(n.c.line, q[1], q[2])
           size == <<q[3], q[4]>>
           from == <<0, 0>>
           bits == NoBits
<1>1. PICK n \in PrepareMmioEngine(c, mem) :
        o \in IF n.ok THEN Draw(g(n), n.mem, Origin(g(n).line, q[1], q[2]), size, from, bits) ELSE {n}
  <2>1. PICK n \in PrepareMmioEngine(c, mem) : o \in IF n.ok THEN Draw(g(n), n.mem, to(n), size, from, bits) ELSE {n}
    BY DEF SubmitSolidAxisRect, AndThen
  <2>2. CASE n.ok
    <3>1. Follows(c, n)
      BY PrepareFollows
    <3>2. Aligned(n.c.line.po) /\ n.c.line = c.line
      BY <3>1 DEF Follows, Sited
    <3> DEFINE values == v(n)
               e == g(n)
    <3>3. e = SetEngineState(BeginEnginePath(n.c, FALSE), values) /\ values = LineRegisters(n.c, f, ROP3_P, pen, mask)
      OBVIOUS
    <3>4. o \in Draw(e, n.mem, to(n), size, from, bits)
      BY <2>1, <2>2
    <3> HIDE DEF e, values
    <3>5. DOMAIN values \subseteq Register /\ \A k \in DOMAIN values \cap {"dst", "src"} : Aligned(values[k])
      <4> DEFINE d == n.c
                 rop == ROP3_P
      <4>1. values = LineRegisters(d, f, rop, pen, mask) /\ Aligned(d.line.po)
        BY <3>2, <3>3
      <4> HIDE DEF d, rop
      <4>2. QED
        BY <4>1, LineValues
    <3>6. e.line = c.line
      <4>1. Entering(c, mem, n, values, e)
        BY <2>2, <3>3, <3>5 DEF Entering
      <4>2. QED
        BY <4>1, WroteRegisters DEF Entered
    <3>7. o \in Draw(e, n.mem, Origin(e.line, q[1], q[2]), size, from, bits)
      BY <3>2, <3>4, <3>6
    <3>8. QED
      BY <2>2, <3>7 DEF e, values
  <2>3. CASE ~n.ok
    BY <2>1, <2>3
  <2>4. QED
    BY <2>2, <2>3
<1>2. n.ok
  BY <1>1
<1>3. Follows(c, n)
  BY PrepareFollows
<1>4. Aligned(n.c.line.po) /\ n.c.line = s
  BY <1>3 DEF Follows, Sited
<1> DEFINE values == v(n)
           e == g(n)
           at == Origin(e.line, q[1], q[2])
           P == o.mem
<1>5. e = SetEngineState(BeginEnginePath(n.c, FALSE), values) /\ values = LineRegisters(n.c, f, ROP3_P, pen, mask)
      /\ o \in Draw(e, n.mem, at, size, from, bits)
  BY <1>1, <1>2
<1> HIDE DEF values, e
<1>6. DOMAIN values \subseteq Register /\ \A k \in DOMAIN values \cap {"dst", "src"} : Aligned(values[k])
  <2> DEFINE d == n.c
             rop == ROP3_P
  <2>1. values = LineRegisters(d, f, rop, pen, mask) /\ Aligned(d.line.po)
    BY <1>4, <1>5
  <2> HIDE DEF d, rop
  <2>2. QED
    BY <2>1, LineValues
<1>7. e.line = s
  <2>1. Entering(c, mem, n, values, e)
    BY <1>2, <1>5, <1>6 DEF Entering
  <2>2. QED
    BY <2>1, WroteRegisters DEF Entered
<1>8. mem # <<>>
  BY SomewhereIs
<1> HIDE DEF at, size, from, bits
<1>9. /\ P = Paint(e, mem, at, size, from, bits) /\ o.c.slipped = e.slipped
      /\ ~e.slipped => \A k \in DOMAIN values : e.regs[k] = values[k]
  <2>1. Submits(c, mem, n, values, e, at, size, from, bits, o)
    BY <1>2, <1>5, <1>6 DEF Submits
  <2>2. QED
    BY <1>8, <2>1, DrewPainted
<1>10. Ruled(e, s, pen, mask, f, ROP3_P)
  <2> DEFINE d == n.c
             rop == ROP3_P
  <2>1. values = LineRegisters(d, f, rop, pen, mask) /\ d.line = s /\ \A k \in DOMAIN values : e.regs[k] = values[k]
    BY <1>4, <1>5, <1>9
  <2> HIDE DEF d, rop
  <2>2. Ruled(e, d.line, pen, mask, f, rop)
    BY <2>1, RuledBy
  <2>3. QED
    BY <2>1, <2>2 DEF rop
<1>11. P = Paint(e, mem, Origin(s, q[1], q[2]), <<q[3], q[4]>>, <<0, 0>>, NoBits)
  BY <1>7, <1>9 DEF at, size, from, bits
<1> HIDE DEF P
<1>12. Filled(r, f, q, pen, mask, ROP3_P, mem, P)
  BY <1>10, <1>11, SolidPainted DEF Ruled
<1>13. QED
  BY <1>12 DEF P

LEMMA LineOutcome ==
  ASSUME NEW c, Sound(c), Drawing(c), NEW mem, NEW s, s = c.line, Aligned(s.po), NEW l, NEW rop,
         NEW pen, NEW mask, NEW f,
         NEW o \in SubmitLine(c, mem, l, rop, pen, mask, f), o.ok, ~o.c.slipped
  PROVE  \E e : e.line = s /\ o.mem = Dots(e, mem, l) /\ Ruled(e, s, pen, mask, f, rop)
<1> DEFINE v(n) == LineRegisters(n.c, f, rop, pen, mask)
           begun(n) == BeginEnginePath(n.c, FALSE)
           g(n) == SetEngineState(begun(n), v(n))
<1>1. PICK n \in PrepareMmioEngine(c, mem) :
        o \in IF n.ok THEN {Outcome(FALSE, begun(n), n.mem), Outcome(TRUE, Painted(g(n)), Dots(g(n), n.mem, l))}
              ELSE {n}
  BY DEF SubmitLine, AndThen
<1>2. n.ok
  BY <1>1
<1>3. Follows(c, n)
  BY PrepareFollows
<1>4. Aligned(n.c.line.po) /\ n.c.line = s
  BY <1>3 DEF Follows
<1> DEFINE values == v(n)
           e == g(n)
<1>5. o = Outcome(TRUE, Painted(e), Dots(e, n.mem, l))
  <2>1. Outcome(FALSE, begun(n), n.mem).ok = FALSE
    BY DEF Outcome
  <2>2. QED
    BY <1>1, <1>2, <2>1
<1>6. e = SetEngineState(BeginEnginePath(n.c, FALSE), values) /\ values = LineRegisters(n.c, f, rop, pen, mask)
  OBVIOUS
<1> HIDE DEF values, e
<1> DEFINE d == n.c
<1>7. values = LineRegisters(d, f, rop, pen, mask) /\ Aligned(d.line.po) /\ d.line = s
  BY <1>4, <1>6
<1> HIDE DEF d
<1>8. DOMAIN values \subseteq Register /\ \A k \in DOMAIN values \cap {"dst", "src"} : Aligned(values[k])
  BY <1>7, LineValues
<1>9. /\ n.mem = mem /\ e.line = c.line /\ Painted(e).slipped = e.slipped
      /\ ~e.slipped => \A k \in DOMAIN values : e.regs[k] = values[k]
  <2>1. Entering(c, mem, n, values, e)
    BY <1>2, <1>6, <1>8 DEF d, Entering
  <2>2. QED
    BY <2>1, WroteRegisters DEF Entered
<1>10. o.mem = Dots(e, mem, l) /\ o.c = Painted(e)
  <2> DEFINE p == Painted(e)
             z == Dots(e, n.mem, l)
  <2>1. o = Outcome(TRUE, p, z) /\ n.mem = mem
    BY <1>5, <1>9
  <2>2. Dots(e, mem, l) = z
    BY <2>1
  <2> HIDE DEF p, z
  <2>3. o.c = p /\ o.mem = z
    <3>1. Outcome(TRUE, p, z).c = p /\ Outcome(TRUE, p, z).mem = z
      BY Granted
    <3>2. QED
      BY <2>1, <3>1
  <2>4. QED
    BY <2>2, <2>3 DEF p
<1>11. \A k \in DOMAIN values : e.regs[k] = values[k]
  BY <1>9, <1>10
<1>12. Ruled(e, d.line, pen, mask, f, rop)
  BY <1>7, <1>11, RuledBy
<1>13. QED
  BY <1>7, <1>9, <1>10, <1>12
------------------------------------------------------------------------------
(* The dots of a line, one after the other.                                 *)
DotAt(r, f, l, k) == Pixel(r, f, Point(l, k)[1], Point(l, k)[2])
Dotted(r, f, l, pen, mask, mem, n) ==
  [a \in 0..Aperture-1 |-> IF \E k \in 0..n-1 : DotAt(r, f, l, k) = a THEN Masked(mem[a], pen, mask, f) ELSE mem[a]]

\* What the dots need: a sited rectangle, registers set up, and a memory.
LineJob(e, s, r, f, l, pen, mask, mem) ==
  /\ Diagonal(l) /\ Sited(s, r, Rectangle(l), f) /\ Ruled(e, s, pen, mask, f, ROP3_P)
  /\ pen \in SUBSET Plane /\ Pixels(mem) /\ mem = [a \in 0..Aperture-1 |-> mem[a]]

LEMMA DottedPixels ==
  ASSUME NEW r, NEW f, NEW l, NEW pen \in SUBSET Plane, NEW mask, NEW mem, Pixels(mem), NEW n
  PROVE  Pixels(Dotted(r, f, l, pen, mask, mem, n))
<1> DEFINE m == Dotted(r, f, l, pen, mask, mem, n)
           C(a) == \E k \in 0..n-1 : DotAt(r, f, l, k) = a
<1>1. m = [a \in 0..Aperture-1 |-> IF C(a) THEN Masked(mem[a], pen, mask, f) ELSE mem[a]]
  BY DEF Dotted
<1>2. ASSUME NEW old \in SUBSET Plane PROVE Masked(old, pen, mask, f) \in SUBSET Plane
  BY DEF Masked
<1> HIDE DEF C
<1>3. QED
  BY <1>1, <1>2 DEF Pixels

LEMMA MaskedTwice ==
  ASSUME NEW old, NEW pen, NEW mask, NEW f
  PROVE  Masked(Masked(old, pen, mask, f), pen, mask, f) = Masked(old, pen, mask, f)
<1> DEFINE w == WriteMask(mask, f)
<1>1. \A x : Masked(x, pen, mask, f) = (pen \cap w) \cup (x \ w)
  BY DEF Masked
<1> HIDE DEF w
<1>2. QED
  BY <1>1

LEMMA DotDrawn ==
  ASSUME NEW e, NEW s, NEW r, NEW f, NEW l, NEW pen, NEW mask, NEW mem, LineJob(e, s, r, f, l, pen, mask, mem),
         NEW n \in 0..Length(l),
         NEW P, P = Paint(e, Dotted(r, f, l, pen, mask, mem, n), Origin(s, Point(l, n)[1], Point(l, n)[2]), <<1, 1>>,
                          <<0, 0>>, NoBits)
  PROVE  P = Dotted(r, f, l, pen, mask, mem, n + 1)
<1> DEFINE m == Dotted(r, f, l, pen, mask, mem, n)
           next == Dotted(r, f, l, pen, mask, mem, n + 1)
           q == Rectangle(l)
           x == Point(l, n)[1]
           y == Point(l, n)[2]
           i == x - q[1]
           j == y - q[2]
           d == <<x, y, 1, 1>>
           dot == DotAt(r, f, l, n)
           zero == 0
           ink(old) == Masked(old, pen, mask, f)
           rop == ROP3_P
<1>1. /\ Diagonal(l) /\ Sited(s, r, q, f) /\ Ruled(e, s, pen, mask, f, rop)
      /\ pen \in SUBSET Plane /\ Pixels(mem)
  BY DEF LineJob
<1>2. i \in 0..q[3]-1 /\ j \in 0..q[4]-1 /\ x \in Int /\ y \in Int /\ q[1] \in Int /\ q[2] \in Int
  <2>1. q = Rectangle(l)
    OBVIOUS
  <2> HIDE DEF q
  <2>2. Point(l, n)[1] - q[1] \in 0..q[3]-1 /\ Point(l, n)[2] - q[2] \in 0..q[4]-1
        /\ Point(l, n)[1] \in Int /\ Point(l, n)[2] \in Int
    BY <1>1, <2>1, PointWithin
  <2>3. QED
    BY <1>1, <2>2 DEF Sited
<1>3. Sited(s, r, d, f)
  <2>1. q[1] + i = x /\ q[2] + j = y
    <3> HIDE DEF q, x, y
    <3>1. QED
      BY <1>2
  <2>2. d = <<q[1] + i, q[2] + j, 1, 1>>
    BY <2>1
  <2> HIDE DEF d, i, j, q, x, y
  <2>3. QED
    BY <1>1, <1>2, <2>2, PixelSited
<1>4. Pixels(m)
  BY <1>1, DottedPixels
<1>5. d[1] = x /\ d[2] = y /\ d[3] = 1 /\ d[4] = 1 /\ dot = Pixel(r, f, x, y)
  BY DEF DotAt
<1>6. P = Paint(e, m, Origin(s, d[1], d[2]), <<d[3], d[4]>>, <<0, 0>>, NoBits)
  BY <1>5
<1>7. zero \in 0..d[3]-1 /\ zero \in 0..d[4]-1 /\ d[1] + zero = x /\ d[2] + zero = y
      /\ \A z \in 0..d[3]-1 : z = zero
  <2> HIDE DEF d, x, y
  <2>1. QED
    BY <1>2, <1>5
<1>8. zero \in 0..d[4]-1 /\ \A z \in 0..d[4]-1 : z = zero
  BY <1>5
<1> DEFINE c(a) == \E k \in 0..n-1 : DotAt(r, f, l, k) = a
           c2(a) == \E k \in 0..(n + 1)-1 : DotAt(r, f, l, k) = a
<1>9. \A a : c2(a) <=> c(a) \/ dot = a
  <2>1. n \in Nat
    BY <1>1, LengthIs
  <2>2. \A k : k \in 0..(n + 1)-1 <=> k \in 0..n-1 \/ k = n
    BY <2>1
  <2>3. QED
    BY <2>2
<1>10. /\ m = [a \in 0..Aperture-1 |-> IF c(a) THEN ink(mem[a]) ELSE mem[a]]
       /\ next = [a \in 0..Aperture-1 |-> IF c2(a) THEN ink(mem[a]) ELSE mem[a]]
  BY DEF Dotted
<1>11. \A old : ink(ink(old)) = ink(old)
  BY MaskedTwice
<1> HIDE DEF m, q, x, y, i, j, d, dot, zero, c, c2, next, rop
<1>12. Filled(r, f, d, pen, mask, rop, m, P)
  BY <1>1, <1>3, <1>4, <1>6, SolidPainted DEF Ruled
<1>13. P[dot] = ink(m[dot]) /\ dot \in 0..Aperture-1
  <2> DEFINE a == Pixel(r, f, d[1] + zero, d[2] + zero)
  <2>1. a = dot
    BY <1>5, <1>7
  <2>2. P[a] = Masked(m[a], Rop3(rop, pen, {}, m[a]), mask, f)
    BY <1>7, <1>8, <1>12 DEF Filled
  <2>3. a \in 0..Aperture-1
    BY <1>3, <1>7, <1>8, PixelIs
  <2> HIDE DEF a, ink
  <2>4. Rop3(rop, pen, {}, m[a]) = pen
    BY <1>1, RopPattern DEF rop
  <2>5. QED
    BY <2>1, <2>2, <2>3, <2>4 DEF ink
<1>14. ASSUME NEW a \in 0..Aperture-1, a # dot PROVE P[a] = m[a]
  <2>1. \A u \in 0..d[3]-1, v \in 0..d[4]-1 : Pixel(r, f, d[1] + u, d[2] + v) # a
    <3>1. Pixel(r, f, d[1] + zero, d[2] + zero) # a
      BY <1>5, <1>7, <1>14
    <3>2. QED
      BY <1>7, <1>8, <3>1
  <2>2. QED
    BY <1>12, <2>1 DEF Filled, Beside
<1>15. P = [a \in 0..Aperture-1 |-> P[a]]
  BY <1>12 DEF Filled, Beside
<1> HIDE DEF ink
<1>16. ASSUME NEW a \in 0..Aperture-1 PROVE P[a] = next[a]
  <2>1. m[a] = (IF c(a) THEN ink(mem[a]) ELSE mem[a]) /\ next[a] = (IF c2(a) THEN ink(mem[a]) ELSE mem[a])
    BY <1>10
  <2>2. CASE a = dot
    <3>1. P[a] = ink(m[a]) /\ c2(a)
      BY <1>9, <1>13, <2>2
    <3>2. QED
      BY <1>11, <2>1, <3>1
  <2>3. CASE a # dot
    BY <1>9, <1>14, <2>1, <2>3
  <2>4. QED
    BY <2>2, <2>3
<1>17. next = [a \in 0..Aperture-1 |-> next[a]]
  BY <1>10
<1>18. QED
  BY <1>15, <1>16, <1>17 DEF next

LEMMA DotsAre ==
  ASSUME NEW e, NEW s, NEW r, NEW f, NEW l, NEW pen, NEW mask, NEW mem, LineJob(e, s, r, f, l, pen, mask, mem),
         e.line = s
  PROVE  Dots(e, mem, l) = Dotted(r, f, l, pen, mask, mem, Length(l) + 1)
<1> DEFINE N == Length(l) + 1
           B(m, n) == Paint(e, m, Origin(s, Point(l, n)[1], Point(l, n)[2]), <<1, 1>>, <<0, 0>>, NoBits)
           Rec(g) == g = [n \in 0..N |-> IF n = 0 THEN mem ELSE B(g[n - 1], n - 1)]
           U == CHOOSE g : Rec(g)
           W(n) == Dotted(r, f, l, pen, mask, mem, n)
           w == [n \in 0..N |-> W(n)]
<1>1. Dots(e, mem, l) = U[N]
  BY Zenon DEF Dots
<1>2. N \in Nat /\ N > 0 /\ Length(l) = N - 1
  BY LengthIs DEF LineJob
<1>3. W(0) = mem
  <2>2. mem = [a \in 0..Aperture-1 |-> mem[a]]
    BY DEF LineJob
  <2>3. ~\E k \in 0..0-1 : TRUE
    OBVIOUS
  <2>4. \A a \in 0..Aperture-1 : W(0)[a] = mem[a]
    BY <2>3 DEF Dotted
  <2>5. W(0) = [a \in 0..Aperture-1 |-> W(0)[a]]
    BY DEF Dotted
  <2>6. QED
    BY <2>2, <2>4, <2>5
<1>4. ASSUME NEW n \in 0..Length(l) PROVE B(W(n), n) = W(n + 1)
  <2> DEFINE P == B(W(n), n)
  <2>1. P = Paint(e, Dotted(r, f, l, pen, mask, mem, n), Origin(s, Point(l, n)[1], Point(l, n)[2]), <<1, 1>>,
                  <<0, 0>>, NoBits)
    OBVIOUS
  <2> HIDE DEF P
  <2>2. P = Dotted(r, f, l, pen, mask, mem, n + 1)
    BY <2>1, DotDrawn
  <2>3. QED
    BY <2>2 DEF P
<1> HIDE DEF B, W, N
<1>5. \A n \in 1..N : n - 1 \in 0..Length(l) /\ n - 1 \in 0..N /\ n - 1 + 1 = n /\ n # 0
  BY <1>2
<1>6. ASSUME NEW n \in 1..N PROVE B(W(n - 1), n - 1) = W(n)
  BY <1>4, <1>5
<1>7. Rec(w)
  <2>1. ASSUME NEW n \in 0..N PROVE w[n] = IF n = 0 THEN mem ELSE B(w[n - 1], n - 1)
    <3>1. CASE n = 0
      BY <1>3, <3>1
    <3>2. CASE n # 0
      <4>1. n \in 1..N
        BY <1>2, <3>2
      <4>2. w[n] = W(n) /\ w[n - 1] = W(n - 1)
        BY <1>5, <4>1
      <4>3. QED
        BY <1>6, <3>2, <4>1, <4>2
    <3>3. QED
      BY <3>1, <3>2
  <2>2. w = [n \in 0..N |-> w[n]]
    OBVIOUS
  <2> HIDE DEF w
  <2>3. QED
    BY <2>1, <2>2
<1>8. Rec(U)
  <2> HIDE DEF Rec, w
  <2>1. QED
    BY <1>7, Zenon
<1> HIDE DEF U
<1>9. \A n \in 0..N : U[n] = W(n)
  <2> DEFINE S == {n \in 0..N : U[n] # W(n)}
             m == Least2D(S)
  <2>1. SUFFICES ASSUME S # {} PROVE FALSE
    <3>1. S = {} => \A n \in 0..N : U[n] = W(n)
      OBVIOUS
    <3>2. QED
      BY <2>1, <3>1
  <2>2. S \in SUBSET Nat
    BY <1>2
  <2>3. m \in S /\ \A n \in S : m <= n
    BY <2>1, <2>2, Least2DIs, SMTT(60)
  <2> HIDE DEF m
  <2>4. m \in 0..N /\ U[m] # W(m)
    BY <2>3
  <2>5. \A n \in 0..N : U[n] = IF n = 0 THEN mem ELSE B(U[n - 1], n - 1)
    BY <1>8
  <2>6. m # 0
    BY <1>3, <2>4, <2>5
  <2>7. m \in 1..N
    BY <1>2, <2>4, <2>6
  <2>8. m - 1 \in 0..N /\ ~(m <= m - 1)
    BY <1>2, <1>5, <2>7
  <2>9. U[m - 1] = W(m - 1)
    BY <2>3, <2>8
  <2>10. U[m] = B(W(m - 1), m - 1)
    BY <2>4, <2>5, <2>6, <2>9
  <2>11. QED
    BY <1>6, <2>4, <2>7, <2>10
<1>10. U[N] = W(N)
  BY <1>2, <1>9
<1>11. QED
  BY <1>1, <1>10 DEF W, N

(* A line of points in its rectangle is the picture of its dots.            *)
LEMMA LineOf ==
  ASSUME NEW s, NEW r, NEW f, NEW l, Diagonal(l), NEW q, q = Rectangle(l), Sited(s, r, q, f),
         NEW i \in 0..q[3]-1, NEW j \in 0..q[4]-1
  PROVE  OnLine(l, q, i, j) <=> \E k \in 0..Length(l) : DotAt(r, f, l, k) = Pixel(r, f, q[1] + i, q[2] + j)
<1> DEFINE px(k) == Point(l, k)[1]
           py(k) == Point(l, k)[2]
           here == Pixel(r, f, q[1] + i, q[2] + j)
<1>1. q[1] \in Int /\ q[2] \in Int /\ i \in Int /\ j \in Int
  BY DEF Sited
<1>2. ASSUME NEW k \in 0..Length(l)
      PROVE DotAt(r, f, l, k) = here <=> Point(l, k) = <<q[1] + i, q[2] + j>>
  <2> DEFINE u == px(k) - q[1]
             v == py(k) - q[2]
  <2>1. u \in 0..q[3]-1 /\ v \in 0..q[4]-1 /\ px(k) \in Int /\ py(k) \in Int
    BY PointWithin
  <2>2. DotAt(r, f, l, k) = Pixel(r, f, px(k), py(k)) /\ Point(l, k) = <<px(k), py(k)>>
    BY DEF DotAt, Point
  <2>3. CASE Point(l, k) = <<q[1] + i, q[2] + j>>
    BY <2>2, <2>3
  <2>4. CASE DotAt(r, f, l, k) = here
    <3> HIDE DEF px, py
    <3>1. px(k) = q[1] + u /\ py(k) = q[2] + v
      BY <1>1, <2>1
    <3> HIDE DEF u, v
    <3>2. Pixel(r, f, q[1] + u, q[2] + v) = Pixel(r, f, q[1] + i, q[2] + j)
      BY <2>2, <2>4, <3>1
    <3>3. u = i /\ v = j
      BY <2>1, <3>2, PixelsApart
    <3>4. QED
      BY <2>2, <3>1, <3>3
  <2>5. QED
    BY <2>3, <2>4
<1> HIDE DEF here
<1>3. QED
  BY <1>2 DEF OnLine, here

(* What was asked of a line, pixel by pixel.                                *)
AskedLine(r, f, q, l, mask) ==
  Asked(r, f, q, LAMBDA i, j, old :
    IF SolidAxis(l) \/ OnLine(l, q, i, j) THEN Masked(old, l.pen, mask, f) ELSE old)

LEMMA AskedBeside ==
  ASSUME NEW r, NEW f, NEW q, NEW l, NEW mask, NEW A, A = AskedLine(r, f, q, l, mask)
  PROVE  Beside(r, f, q, OnBoard, A)
<1> DEFINE V(i, j, old) == IF SolidAxis(l) \/ OnLine(l, q, i, j) THEN Masked(old, l.pen, mask, f) ELSE old
           C(a) == \E i \in 0..q[3]-1, j \in 0..q[4]-1 : Pixel(r, f, q[1] + i, q[2] + j) = a
           X(a) == LET at == Place(r, f, q, a) IN V(at[1], at[2], OnBoard[a])
<1>1. A = [a \in 0..Aperture-1 |-> IF C(a) THEN X(a) ELSE OnBoard[a]]
  BY Labelled DEF AskedLine, Asked, Place, Pixels
<1> HIDE DEF X
<1>2. A = [a \in 0..Aperture-1 |-> A[a]]
  BY <1>1
<1>3. ASSUME NEW a \in 0..Aperture-1,
             \A i \in 0..q[3]-1, j \in 0..q[4]-1 : Pixel(r, f, q[1] + i, q[2] + j) # a
      PROVE A[a] = OnBoard[a]
  BY <1>1, <1>3
<1>4. QED
  BY <1>2, <1>3 DEF Beside

LEMMA AskedHere ==
  ASSUME NEW s, NEW r, NEW f, NEW q, Sited(s, r, q, f), NEW l, NEW mask, NEW A, A = AskedLine(r, f, q, l, mask),
         NEW i \in 0..q[3]-1, NEW j \in 0..q[4]-1, NEW a, a = Pixel(r, f, q[1] + i, q[2] + j)
  PROVE  A[a] = IF SolidAxis(l) \/ OnLine(l, q, i, j) THEN Masked(OnBoard[a], l.pen, mask, f) ELSE OnBoard[a]
<1> DEFINE V(x, y, old) == IF SolidAxis(l) \/ OnLine(l, q, x, y) THEN Masked(old, l.pen, mask, f) ELSE old
           C(b) == \E x \in 0..q[3]-1, y \in 0..q[4]-1 : Pixel(r, f, q[1] + x, q[2] + y) = b
           X(b) == LET at == Place(r, f, q, b) IN V(at[1], at[2], OnBoard[b])
<1>1. A = [b \in 0..Aperture-1 |-> IF C(b) THEN X(b) ELSE OnBoard[b]]
  BY Labelled DEF AskedLine, Asked, Place, Pixels
<1>2. a \in 0..Aperture-1
  BY PixelIs
<1>3. C(a)
  OBVIOUS
<1>4. Place(r, f, q, a)[1] = i /\ Place(r, f, q, a)[2] = j
  BY PlaceIs
<1>5. X(a) = V(i, j, OnBoard[a])
  BY <1>4
<1> HIDE DEF X, C
<1>6. A[a] = X(a)
  BY <1>1, <1>2, <1>3
<1>7. QED
  BY <1>5, <1>6

(* A line's job: the board as ValidateLineSurface leaves it.                *)
Lining(c, r, f, q, l, mask, A) ==
  /\ Sound(c) /\ Drawing(c) /\ Diagonal(l) /\ q = Rectangle(l) /\ Sited(c.line, r, q, f)
  /\ l.pen \in SUBSET Plane /\ A = AskedLine(r, f, q, l, mask)

LEMMA AxisRight ==
  ASSUME NEW c, NEW r, NEW f, NEW q, NEW l, NEW mask, NEW A, Lining(c, r, f, q, l, mask, A), SolidAxis(l),
         NEW o \in SubmitSolidAxisRect(c, OnBoard, q[1], q[2], q[3], q[4], l.pen, mask, f), o.ok, ~o.c.slipped
  PROVE  o.mem = A
<1> DEFINE P == o.mem
           pen == l.pen
           s == c.line
<1>1. /\ Sound(c) /\ Drawing(c) /\ Sited(s, r, q, f) /\ pen \in SUBSET Plane /\ A = AskedLine(r, f, q, l, mask)
      /\ o \in SubmitSolidAxisRect(c, OnBoard, q[1], q[2], q[3], q[4], pen, mask, f) /\ s = c.line
  BY DEF Lining
<1> HIDE DEF pen, s
<1>2. Filled(r, f, q, pen, mask, ROP3_P, OnBoard, P)
  BY <1>1, Labelled, AxisOutcome
<1> HIDE DEF P
<1>3. ASSUME NEW i \in 0..q[3]-1, NEW j \in 0..q[4]-1
      PROVE P[Pixel(r, f, q[1] + i, q[2] + j)] = A[Pixel(r, f, q[1] + i, q[2] + j)]
  <2> DEFINE a == Pixel(r, f, q[1] + i, q[2] + j)
             old == OnBoard[a]
  <2>1. A[a] = Masked(old, pen, mask, f)
    BY <1>1, AskedHere DEF pen
  <2>2. P[a] = Masked(old, Rop3(ROP3_P, pen, {}, old), mask, f)
    BY <1>2 DEF Filled
  <2>3. Rop3(ROP3_P, pen, {}, old) = pen
    BY <1>1, RopPattern
  <2> HIDE DEF a, old
  <2>4. QED
    BY <2>1, <2>2, <2>3 DEF a
<1>4. Beside(r, f, q, OnBoard, P) /\ Alike(r, f, q, P, A)
  BY <1>2, <1>3 DEF Filled, Alike
<1>5. Beside(r, f, q, OnBoard, A)
  BY <1>1, AskedBeside
<1>6. P = A
  BY <1>4, <1>5, SameMemory
<1>7. QED
  BY <1>6 DEF P

LEMMA SlopedRight ==
  ASSUME NEW c, NEW r, NEW f, NEW q, NEW l, NEW mask, NEW A, Lining(c, r, f, q, l, mask, A), ~SolidAxis(l),
         NEW o \in SubmitLine(c, OnBoard, l, ROP3_P, l.pen, mask, f), o.ok, ~o.c.slipped
  PROVE  o.mem = A
<1> DEFINE P == o.mem
           pen == l.pen
           s == c.line
           rop == ROP3_P
           mem == OnBoard
           n == Length(l) + 1
<1>1. /\ Sound(c) /\ Drawing(c) /\ Sited(s, r, q, f) /\ pen \in SUBSET Plane /\ A = AskedLine(r, f, q, l, mask)
      /\ o \in SubmitLine(c, mem, l, rop, pen, mask, f) /\ s = c.line /\ Diagonal(l) /\ q = Rectangle(l)
  BY DEF Lining
<1>2. Pixels(mem) /\ mem = [a \in 0..Aperture-1 |-> mem[a]]
  BY Labelled DEF OnBoard, Pixels
<1> HIDE DEF pen, s, rop, mem
<1>3. Aligned(s.po)
  BY <1>1 DEF Sited
<1>4. PICK e : e.line = s /\ P = Dots(e, mem, l) /\ Ruled(e, s, pen, mask, f, rop)
  BY <1>1, <1>3, LineOutcome
<1> HIDE DEF P
<1>5. LineJob(e, s, r, f, l, pen, mask, mem)
  BY <1>1, <1>2, <1>4 DEF LineJob, rop
<1>6. P = Dotted(r, f, l, pen, mask, mem, n)
  BY <1>4, <1>5, DotsAre
<1>7. \A k : k \in 0..n-1 <=> k \in 0..Length(l)
  BY <1>1, LengthIs
<1> DEFINE C(a) == \E k \in 0..Length(l) : DotAt(r, f, l, k) = a
<1>8. P = [a \in 0..Aperture-1 |-> IF C(a) THEN Masked(mem[a], pen, mask, f) ELSE mem[a]]
  BY <1>6, <1>7 DEF Dotted
<1>9. ASSUME NEW a \in 0..Aperture-1,
             \A i \in 0..q[3]-1, j \in 0..q[4]-1 : Pixel(r, f, q[1] + i, q[2] + j) # a
      PROVE P[a] = mem[a]
  <2>1. ASSUME NEW k \in 0..Length(l) PROVE DotAt(r, f, l, k) # a
    <3> DEFINE x == Point(l, k)[1]
               y == Point(l, k)[2]
               u == x - q[1]
               v == y - q[2]
    <3>1. u \in 0..q[3]-1 /\ v \in 0..q[4]-1 /\ x \in Int /\ y \in Int
      BY <1>1, PointWithin
    <3>2. DotAt(r, f, l, k) = Pixel(r, f, x, y) /\ q[1] \in Int /\ q[2] \in Int
      BY <1>1 DEF DotAt, Sited
    <3> HIDE DEF x, y
    <3>3. q[1] + u = x /\ q[2] + v = y
      BY <3>1, <3>2
    <3> HIDE DEF u, v
    <3>4. QED
      BY <1>9, <3>1, <3>2, <3>3
  <2>2. ~C(a)
    BY <2>1
  <2> HIDE DEF C
  <2>3. QED
    BY <1>8, <2>2
<1>10. ASSUME NEW i \in 0..q[3]-1, NEW j \in 0..q[4]-1
       PROVE P[Pixel(r, f, q[1] + i, q[2] + j)] = A[Pixel(r, f, q[1] + i, q[2] + j)]
  <2> DEFINE a == Pixel(r, f, q[1] + i, q[2] + j)
  <2>1. A[a] = IF OnLine(l, q, i, j) THEN Masked(mem[a], pen, mask, f) ELSE mem[a]
    BY <1>1, AskedHere DEF mem, pen
  <2>2. OnLine(l, q, i, j) <=> C(a)
    BY <1>1, LineOf
  <2>3. a \in 0..Aperture-1
    BY <1>1, PixelIs
  <2> HIDE DEF a, C
  <2>4. P[a] = IF C(a) THEN Masked(mem[a], pen, mask, f) ELSE mem[a]
    BY <1>8, <2>3
  <2>5. QED
    BY <2>1, <2>2, <2>4 DEF a
<1>11. P = [a \in 0..Aperture-1 |-> P[a]]
  BY <1>8
<1>12. Beside(r, f, q, mem, P) /\ Alike(r, f, q, P, A)
  BY <1>9, <1>10, <1>11 DEF Beside, Alike
<1>13. Beside(r, f, q, mem, A)
  BY <1>1, AskedBeside DEF mem
<1>14. P = A
  BY <1>12, <1>13, SameMemory
<1>15. QED
  BY <1>14 DEF P

(* What comes of a line's call.                                             *)
LEMMA DrawnIs ==
  ASSUME NEW drawn, NEW asked, NEW torn, NEW d \in Drawn(drawn, asked, torn)
  PROVE  \E c, kept, same, fresh : d = Finish(c, kept, same, fresh, torn)
<1>1. PICK o \in drawn :
        d \in IF o.ok THEN {Finish([o.c EXCEPT !.pending = "MMIO"], TRUE, o.mem = asked, TRUE, torn)}
              ELSE {SoftwareDraw(r, torn) : r \in RecoverEngine(o.c, <<>>)}
  BY DEF Drawn
<1>2. CASE o.ok
  <2> DEFINE c == [o.c EXCEPT !.pending = "MMIO"]
             t == TRUE
             same == (o.mem = asked)
  <2>1. d = Finish(c, t, same, t, torn)
    BY <1>1, <1>2
  <2> HIDE DEF c, t, same
  <2>2. QED
    BY <2>1
<1>3. CASE ~o.ok
  BY <1>1, <1>3 DEF SoftwareDraw
<1>4. QED
  BY <1>2, <1>3

LEMMA UnforeseenShows ==
  ASSUME NEW c, NEW kept, NEW same, NEW fresh, NEW torn, NEW f, f = Unforeseen(Finish(c, kept, same, fresh, torn))
  PROVE  Shows(f)
<1> DEFINE d == Finish(c, kept, same, fresh, torn)
<1>1. d = [c |-> c, last |-> [kept |-> kept, asAsked |-> same, fresh |-> fresh, torn |-> torn]]
  BY DEF Finish
<1>2. f = [d EXCEPT !.last = [d.last EXCEPT !.asAsked = TRUE]]
  BY DEF Unforeseen
<1>3. f.last = [d.last EXCEPT !.asAsked = TRUE]
  BY <1>1, <1>2
<1>4. "asAsked" \in DOMAIN d.last
  BY <1>1
<1>5. f.last.asAsked = TRUE
  BY <1>3, <1>4
<1>6. QED
  BY <1>5 DEF Shows

LEMMA LineShows ==
  ASSUME NEW soft, NEW rejected, NEW legal, NEW hardware \in BOOLEAN, NEW foreseen, NEW c,
         NEW drawn, hardware => \A o \in drawn : Follows(c, o),
         NEW asked, hardware /\ foreseen => Right(drawn, asked), NEW torn, NEW off, NEW D, D = Drawn(drawn, asked, torn),
         NEW results, Happens(results),
         results = IF soft THEN Softly(card, off) ELSE IF rejected THEN Dropped(c, legal)
                   ELSE IF hardware THEN (IF foreseen THEN D ELSE {Unforeseen(d) : d \in D}) ELSE Softly(c, off)
  PROVE  PaintsAsAsked'
<1>1. \A f \in results : Shows(f)
  <2>1. CASE soft
    BY <2>1, SoftlyShows
  <2>2. CASE ~soft /\ rejected
    BY <2>2, DroppedShows
  <2>3. CASE ~soft /\ ~rejected /\ hardware /\ foreseen
    BY <2>3, DrawnShows
  <2>4. CASE ~soft /\ ~rejected /\ hardware /\ ~foreseen
    <3> SUFFICES ASSUME NEW f \in results PROVE Shows(f)
      OBVIOUS
    <3>1. PICK d \in Drawn(drawn, asked, torn) : f = Unforeseen(d)
      BY <2>4
    <3>2. QED
      BY <3>1, DrawnIs, UnforeseenShows
  <2>5. CASE ~soft /\ ~rejected /\ ~hardware
    BY <2>5, SoftlyShows
  <2>6. QED
    BY <2>1, <2>2, <2>3, <2>4, <2>5
<1>2. QED
  BY <1>1, HappensShows

(* The rectangle of a line that the hardware is asked for is sited.         *)
LEMMA LineReady ==
  ASSUME NEW c, Sound(c), NEW r, r.memory \in Int, r.pitch \in Int, NEW f \in {0, 1, 2, 4},
         NEW l, Diagonal(l), NEW q, q = Rectangle(l),
         NEW v, v = ValidateLineSurface(c, r, q[1], q[2], q[1] + q[3] - 1, q[2] + q[4] - 1, f),
         v.result = "hardware"
  PROVE  Sited(v.c.line, r, q, f)
<1> DEFINE left == q[1]
           top == q[2]
           right == q[1] + q[3] - 1
           bottom == q[2] + q[4] - 1
           s == v.c.line
           none == SoftwareSurfaceResult(r).result
<1>1. v = ValidateLineSurface(c, r, left, top, right, bottom, f)
  OBVIOUS
<1> HIDE DEF left, top, right, bottom
<1>2. \/ v.result # "good" /\ v.result = LineSurface(c, r, f)
      \/ /\ LineSurface(c, r, f) = "good" /\ v.c.line = LineLayout(c, r, f)
         /\ v.result = IF left < 0 \/ top < 0 THEN SoftwareSurfaceResult(r).result
                       ELSE IF right > v.c.line.maxX \/ bottom > v.c.line.maxY THEN "reject"
                       ELSE "hardware"
  BY <1>1, LineRemembered
<1>3. LineSurface(c, r, f) # "hardware"
  BY LineSurfaceIs
<1>4. none # "hardware"
  BY DEF SoftwareSurfaceResult
<1> DEFINE outX == right > s.maxX
           outY == bottom > s.maxY
           outside == left < 0 \/ top < 0
<1>5. /\ LineSurface(c, r, f) = "good" /\ s = LineLayout(c, r, f)
      /\ v.result = IF outside THEN none ELSE IF outX \/ outY THEN "reject" ELSE "hardware"
  BY <1>2, <1>3
<1> HIDE DEF none, outX, outY, outside, s
<1>6. ~outside /\ ~outX /\ ~outY
  BY <1>4, <1>5
<1>7. c.limit \in 0..Aperture
  BY Limits DEF Sound, Typed
<1>8. q[1] \in Int /\ q[2] \in Int /\ q[3] \in Int /\ q[4] \in Int
  BY RectangleIs DEF Diagonal
<1>9. q[3] > 0 /\ q[4] > 0
  <2> DEFINE k == 0
  <2>1. k \in 0..Length(l)
    BY LengthIs
  <2> HIDE DEF k
  <2>2. Point(l, k)[1] - q[1] \in 0..q[3]-1 /\ Point(l, k)[2] - q[2] \in 0..q[4]-1
    BY <2>1, PointWithin
  <2>3. QED
    BY <1>8, <2>2
<1>10. q[1] \in Nat /\ q[2] \in Nat /\ q[3] \in Nat /\ q[4] \in Nat
  BY <1>6, <1>8, <1>9 DEF outside, left, top
<1>11. ~(q[1] + q[3] - 1 > s.maxX) /\ ~(q[2] + q[4] - 1 > s.maxY)
  BY <1>6 DEF outX, outY, right, bottom
<1>12. Sited(s, r, q, f)
  BY <1>5, <1>7, <1>9, <1>10, <1>11, LineSited
<1>13. QED
  BY <1>12 DEF s

LEMMA DrawLinePaints ==
  ASSUME Sound(card), Quiet(card), NEW r, r.memory \in Int, r.pitch \in Int, NEW f \in {0, 1, 2, 4},
         NEW l, Diagonal(l), l.pen \in SUBSET Plane, NEW mask, DrawLine(r, l, mask, f)
  PROVE  PaintsAsAsked'
<1> DEFINE q == Rectangle(l)
           v == ValidateLineSurface(card, r, q[1], q[2], q[1] + q[3] - 1, q[2] + q[4] - 1, f)
           asked == AskedLine(r, f, q, l, mask)
           x == q[1]
           y == q[2]
           w == q[3]
           h == q[4]
           pen == l.pen
           rop == IF l.jam2 THEN ROP3_P ELSE 123
           axis == SubmitSolidAxisRect(v.c, OnBoard, x, y, w, h, pen, mask, f)
           sloped == SubmitLine(v.c, OnBoard, l, rop, pen, mask, f)
           drawn == IF SolidAxis(l) THEN axis ELSE sloped
           foreseen == SolidAxis(l) \/ (l.jam2 /\ l.solid)
           torn == FALSE
           off == IsOffboardMemory(r.memory)
           legal == LegalLine(card, r, f, q)
           rejected == v.result = "reject"
           soft == l.complement
           hardware == v.result = "hardware" /\ card.accel = "READY"
           e == v.c
           D == Drawn(drawn, asked, torn)
           results == IF soft THEN Softly(card, off) ELSE IF rejected THEN Dropped(e, legal)
                      ELSE IF hardware THEN (IF foreseen THEN D ELSE {Unforeseen(d) : d \in D}) ELSE Softly(e, off)
<1>1. Happens(results)
  BY Zenon DEF DrawLine, AskedLine
<1>2. /\ q = Rectangle(l) /\ asked = AskedLine(r, f, q, l, mask)
      /\ v = ValidateLineSurface(card, r, q[1], q[2], q[1] + q[3] - 1, q[2] + q[4] - 1, f)
  OBVIOUS
<1>3. hardware \in BOOLEAN /\ (hardware => v.result = "hardware")
  BY Zenon
<1>4. results = IF soft THEN Softly(card, off) ELSE IF rejected THEN Dropped(e, legal)
                ELSE IF hardware THEN (IF foreseen THEN D ELSE {Unforeseen(d) : d \in D}) ELSE Softly(e, off)
  BY Zenon
<1>5. D = Drawn(drawn, asked, torn) /\ e = v.c
  OBVIOUS
<1>6. /\ drawn = IF SolidAxis(l) THEN SubmitSolidAxisRect(e, OnBoard, q[1], q[2], q[3], q[4], l.pen, mask, f)
                 ELSE SubmitLine(e, OnBoard, l, rop, l.pen, mask, f)
      /\ foreseen => SolidAxis(l) \/ l.jam2
      /\ l.jam2 => rop = ROP3_P
  BY Zenon
<1> HIDE DEF q, v, asked, torn, off, foreseen, rop, drawn, e, legal, hardware, results, D, soft, rejected
<1>7. Sound(e) /\ Drawing(e)
  <2> DEFINE left == q[1]
             top == q[2]
             right == q[1] + q[3] - 1
             bottom == q[2] + q[4] - 1
  <2>1. v = ValidateLineSurface(card, r, left, top, right, bottom, f)
    BY <1>2
  <2> HIDE DEF left, top, right, bottom
  <2>2. Sound(v.c) /\ (Drawing(card) => Drawing(v.c))
    BY <2>1, LineRemembered
  <2>3. QED
    BY <1>5, <2>2 DEF Quiet, Drawing
<1>8. hardware => Sited(e.line, r, q, f)
  BY <1>2, <1>3, <1>5, LineReady
<1>9. hardware => Lining(e, r, f, q, l, mask, asked)
  BY <1>2, <1>7, <1>8 DEF Lining
<1>10. hardware => \A o \in drawn : Follows(e, o)
  <2> SUFFICES ASSUME hardware, NEW o \in drawn PROVE Follows(e, o)
    OBVIOUS
  <2>1. Aligned(e.line.po)
    BY <1>8 DEF Sited
  <2> DEFINE a == q[1]
             b == q[2]
             c == q[3]
             d == q[4]
             p == l.pen
  <2>2. o \in SubmitSolidAxisRect(e, OnBoard, a, b, c, d, p, mask, f)
        \/ o \in SubmitLine(e, OnBoard, l, rop, p, mask, f)
    BY <1>6
  <2> HIDE DEF a, b, c, d, p
  <2>3. CASE o \in SubmitSolidAxisRect(e, OnBoard, a, b, c, d, p, mask, f)
    BY <1>7, <2>1, <2>3, AxisFollows
  <2>4. CASE o \in SubmitLine(e, OnBoard, l, rop, p, mask, f)
    BY <1>7, <2>1, <2>4, LineFollows
  <2>5. QED
    BY <2>2, <2>3, <2>4
<1>11. hardware /\ foreseen => Right(drawn, asked)
  <2>1. SUFFICES ASSUME hardware, foreseen, NEW o \in drawn, o.ok, ~o.c.slipped PROVE o.mem = asked
    BY DEF Right
  <2>2. CASE SolidAxis(l)
    <3>1. o \in SubmitSolidAxisRect(e, OnBoard, q[1], q[2], q[3], q[4], l.pen, mask, f)
      BY <1>6, <2>1, <2>2
    <3>2. QED
      BY <1>9, <2>1, <2>2, <3>1, AxisRight
  <2>3. CASE ~SolidAxis(l)
    <3>1. o \in SubmitLine(e, OnBoard, l, ROP3_P, l.pen, mask, f)
      BY <1>6, <2>1, <2>3
    <3>2. QED
      BY <1>9, <2>1, <2>3, <3>1, SlopedRight
  <2>4. QED
    BY <2>2, <2>3
<1>12. QED
  BY <1>1, <1>3, <1>4, <1>5, <1>10, <1>11, LineShows, ZenonT(60)
------------------------------------------------------------------------------
Line ==
  \E f \in DrawFormats, r \in Render, mask \in Masks, l \in Lines : DrawLine(r, l, mask, f)

LEMMA LinePaints == IInv /\ Line => PaintsAsAsked'
<1> SUFFICES ASSUME IInv, Line PROVE PaintsAsAsked'
  OBVIOUS
<1>1. PICK f \in DrawFormats, r \in Render, mask \in Masks, l \in Lines : DrawLine(r, l, mask, f)
  BY DEF Line
<1>2. Sound(card) /\ Quiet(card)
  BY DEF IInv
<1>3. r.memory \in Int /\ r.pitch \in Int /\ f \in {0, 1, 2, 4}
  BY Given
<1>4. Diagonal(l) /\ l.pen \in SUBSET Plane
  BY Draw2DAssumption, SourceAssumption DEF Diagonal
<1>5. QED
  BY <1>1, <1>2, <1>3, <1>4, DrawLinePaints

(* A line along an axis or a diagonal leaves exactly the picture that was    *)
(* asked for, wherever its ends lie: dot for dot in its pen and under the    *)
(* write mask, on the surface that the driver remembers from earlier lines   *)
(* or works out anew (DrawLine, ValidateLineSurface, SubmitSolidAxisRect and *)
(* SubmitLine).  Diagonals that are not JAM2 or not solid are not foreseen.  *)
THEOREM LinesPaintAsAsked == Draw2DSpec => [][Line => PaintsAsAsked']_d2vars
<1>1. IInv /\ [Draw2DNext]_d2vars => [Line => PaintsAsAsked']_d2vars
  BY LinePaints
<1>2. QED
  BY <1>1, Draw2DInvariant, PTL DEF Draw2DSpec
===============================================================================
