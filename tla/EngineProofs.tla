------------------------------ MODULE EngineProofs -----------------------------
(***************************************************************************)
(* Theorems about Engine for every set of sessions and versions.           *)
(***************************************************************************)
EXTENDS Engine, TLAPS

(* The strengthening, of one engine state under interface v: a recovery is  *)
(* barred only with the command processor off, as it is for an engine that  *)
(* was given up; 2D work is tagged as such and never under a lease.         *)
(* Up to interface 18 no lease and no fence-less work exist, and            *)
(* what the ring holds is tagged, fenced and fetched unswapped.             *)
Early(e) ==
  /\ ~e.lease /\ ~e.unfenced /\ "bare" \notin e.flight /\ "ppc" \notin e.flight
  /\ e.accel # "UNSAFE" /\ e.flight \cap Covered # {} =>
       e.pending = "CP" /\ e.restore /\ e.fence
  /\ e.accel # "UNSAFE" /\ "ib" \in e.flight => ~e.host

SoundEngine(v, e) ==
  /\ e \in Board
  /\ e.tried => e.cp # "ready"
  /\ e.accel = "UNSAFE" => e.tried
  /\ e.accel # "UNSAFE" /\ "2d" \in e.flight => e.pending = "MMIO"
  /\ e.lease => "2d" \notin e.flight
  /\ v < 19 => Early(e)

IInv ==
  /\ TypeOK
  /\ SoundEngine(version, engine)
  /\ version < 19 /\ software => engine.flight = {}

(* What every function of the driver promises its caller: an answer, a      *)
(* sound engine, no new session or lease, and no way back from UNSAFE.      *)
Follows(v, e, r) ==
  /\ r.ok \in BOOLEAN /\ SoundEngine(v, r.e)
  /\ r.e.current \subseteq e.current /\ (r.e.lease => e.lease)
  /\ e.accel = "UNSAFE" => r.e.accel = "UNSAFE"

LEMMA OutcomeFields ==
  ASSUME NEW ok, NEW e
  PROVE  Outcome(ok, e).ok = ok /\ Outcome(ok, e).e = e
BY DEF Outcome

(* What an abort leaves.                                                    *)
LEMMA AbortLeaves ==
  ASSUME NEW e \in Board, NEW a, a = RadeonCpAbort(e)
  PROVE  /\ a \in Board /\ a.cp # "ready" /\ a.current \subseteq e.current
         /\ a.lease = e.lease /\ a.flight = e.flight /\ a.unfenced = e.unfenced
<1>1. CASE e.cp = "none"
  BY <1>1 DEF RadeonCpAbort
<1>2. CASE e.cp # "none"
  <2>1. a = [e EXCEPT !.cp = "off", !.fence = FALSE, !.current = {}]
    BY <1>2 DEF RadeonCpAbort
  <2>2. QED
    BY <2>1 DEF Board
<1>3. QED
  BY <1>1, <1>2

(* The three ways a recovery ends.                                          *)
LEMMA StuckSound ==
  ASSUME NEW v, NEW e, SoundEngine(v, e), NEW s, s = Stuck(e)
  PROVE  /\ SoundEngine(v, s) /\ s.current \subseteq e.current
         /\ s.accel = "UNSAFE" /\ s.lease = e.lease
<1> DEFINE a == RadeonCpAbort(e)
<1>1. /\ a \in Board /\ a.cp # "ready" /\ a.current \subseteq e.current
      /\ a.lease = e.lease /\ a.flight = e.flight /\ a.unfenced = e.unfenced
  BY AbortLeaves DEF SoundEngine
<1>2. s = [a EXCEPT !.tried = TRUE, !.pending = "NONE", !.restore = FALSE,
                    !.host = TRUE, !.accel = "UNSAFE"]
  BY DEF Stuck, Aborted, RestoreEngineState
<1> HIDE DEF a
<1>3. s \in Board
  BY <1>1, <1>2, ZenonT(60) DEF Board
<1>4. /\ s.tried /\ s.cp = a.cp /\ s.lease = a.lease /\ s.flight = a.flight
      /\ s.accel = "UNSAFE" /\ s.unfenced = a.unfenced /\ s.current = a.current
  BY <1>1, <1>2 DEF Board
<1>5. QED
  BY <1>1, <1>3, <1>4 DEF SoundEngine, Early, Covered

LEMMA FallbackSound ==
  ASSUME NEW v, NEW e, SoundEngine(v, e), NEW s, s = Fallback(e)
  PROVE  /\ SoundEngine(v, s) /\ s.current \subseteq e.current
         /\ s.accel = "FALLBACK" /\ s.flight = {} /\ s.lease = e.lease
<1> DEFINE a == RadeonCpAbort(e)
<1>1. /\ a \in Board /\ a.cp # "ready" /\ a.current \subseteq e.current
      /\ a.lease = e.lease /\ a.flight = e.flight /\ a.unfenced = e.unfenced
  BY AbortLeaves DEF SoundEngine
<1>2. s = [a EXCEPT !.tried = TRUE, !.pending = "NONE", !.restore = FALSE,
                    !.host = TRUE, !.flight = {}, !.accel = "FALLBACK"]
  BY DEF Fallback, Reset, Aborted, RestoreEngineState
<1> HIDE DEF a
<1>3. s \in Board
  BY <1>1, <1>2, ZenonT(60) DEF Board
<1>4. /\ s.cp = a.cp /\ s.lease = a.lease /\ s.flight = {}
      /\ s.accel = "FALLBACK" /\ s.unfenced = a.unfenced /\ s.current = a.current
  BY <1>1, <1>2 DEF Board
<1>5. QED
  BY <1>1, <1>3, <1>4 DEF SoundEngine, Early, Covered

LEMMA RecoveredSound ==
  ASSUME NEW v, NEW e, SoundEngine(v, e), NEW s, s = Recovered(e)
  PROVE  /\ SoundEngine(v, s) /\ s.current \subseteq e.current
         /\ s.accel = "READY" /\ s.flight = {} /\ s.lease = e.lease
<1> DEFINE a == RadeonCpAbort(e)
<1>1. /\ a \in Board /\ a.cp # "ready" /\ a.current \subseteq e.current
      /\ a.lease = e.lease /\ a.flight = e.flight /\ a.unfenced = e.unfenced
  BY AbortLeaves DEF SoundEngine
<1>2. s = [a EXCEPT !.pending = "NONE", !.restore = FALSE, !.host = TRUE,
                    !.flight = {}, !.accel = "READY", !.cp = "ready",
                    !.unfenced = FALSE, !.sync = TRUE, !.tried = FALSE]
  BY <1>1 DEF Recovered, Reset, Aborted, RestoreEngineState, Board
<1> HIDE DEF a
<1>3. s \in Board
  BY <1>1, <1>2, ZenonT(60) DEF Board
<1>4. /\ s.lease = a.lease /\ s.flight = {} /\ ~s.tried
      /\ s.accel = "READY" /\ ~s.unfenced /\ s.current = a.current
  BY <1>1, <1>2 DEF Board
<1>5. QED
  BY <1>1, <1>3, <1>4 DEF SoundEngine, Early, Covered

LEMMA FollowsTransitive ==
  ASSUME NEW v, NEW e, NEW r, NEW q, Follows(v, e, r), Follows(v, r.e, q)
  PROVE  Follows(v, e, q)
BY DEF Follows

LEMMA RecoverFollows ==
  ASSUME NEW v, NEW e, SoundEngine(v, e), NEW r \in RecoverEngine(e)
  PROVE  /\ Follows(v, e, r) /\ r.e.lease = e.lease
         /\ r.ok => r.e.flight = {} /\ r.e.accel # "UNSAFE"
<1>1. CASE e.tried
  <2>1. r = Outcome(FALSE, e)
    BY <1>1 DEF RecoverEngine
  <2>2. QED
    BY <2>1, OutcomeFields DEF Follows
<1>2. CASE ~e.tried
  <2>1. e.accel # "UNSAFE"
    BY <1>2 DEF SoundEngine
  <2>2. CASE r = Outcome(FALSE, Stuck(e))
    BY <2>1, <2>2, StuckSound, ZenonT(60) DEF Outcome, Follows
  <2>3. CASE r = Outcome(TRUE, Fallback(e))
    <3> DEFINE s == Fallback(e)
    <3>1. r.ok = TRUE /\ r.e = s
      BY <2>3, OutcomeFields
    <3>2. /\ SoundEngine(v, s) /\ s.current \subseteq e.current
          /\ s.accel = "FALLBACK" /\ s.flight = {} /\ s.lease = e.lease
      BY FallbackSound
    <3> HIDE DEF s
    <3>3. QED
      BY <2>1, <3>1, <3>2 DEF Follows
  <2>4. CASE r = Outcome(TRUE, Recovered(e))
    <3> DEFINE s == Recovered(e)
    <3>1. r.ok = TRUE /\ r.e = s
      BY <2>4, OutcomeFields
    <3>2. /\ SoundEngine(v, s) /\ s.current \subseteq e.current
          /\ s.accel = "READY" /\ s.flight = {} /\ s.lease = e.lease
      BY RecoveredSound
    <3> HIDE DEF s
    <3>3. QED
      BY <2>1, <3>1, <3>2 DEF Follows
  <2>5. QED
    BY <1>2, <2>2, <2>3, <2>4 DEF RecoverEngine
<1>3. QED
  BY <1>1, <1>2

(* Work that is waited for: it only gets less.                              *)
Lessened(e, d) ==
  /\ d \in Board
  /\ d.accel = e.accel /\ d.pending = e.pending /\ d.restore = e.restore
  /\ d.tried = e.tried /\ d.cp = e.cp /\ d.lease = e.lease /\ d.host = e.host
  /\ d.current = e.current /\ d.flight \subseteq e.flight
  /\ d.unfenced => e.unfenced
  /\ d.fence = e.fence \/ d.flight \cap Covered = {}

LEMMA LessenedSound ==
  ASSUME NEW v, NEW e, SoundEngine(v, e), NEW d, Lessened(e, d)
  PROVE  SoundEngine(v, d)
<1>1. d.flight \cap Covered # {} => e.flight \cap Covered # {}
  BY DEF Lessened
<1>2. QED
  BY <1>1 DEF Lessened, SoundEngine, Early

LEMMA LessenedFollows ==
  ASSUME NEW v, NEW e, SoundEngine(v, e), NEW d, Lessened(e, d), NEW ok \in BOOLEAN
  PROVE  Follows(v, e, Outcome(ok, d))
<1>1. SoundEngine(v, d)
  BY LessenedSound
<1>2. d.current = e.current /\ d.accel = e.accel /\ d.lease = e.lease
  BY DEF Lessened
<1>3. QED
  BY <1>1, <1>2, OutcomeFields DEF Follows

LEMMA CpWaitFollows ==
  ASSUME NEW v, NEW e, SoundEngine(v, e), NEW r \in RadeonCpWait(e)
  PROVE  /\ Follows(v, e, r) /\ Lessened(e, r.e)
         /\ r.ok /\ v < 19 /\ e.accel # "UNSAFE" => r.e.flight \cap Covered = {}
<1> DEFINE d == [e EXCEPT !.flight = @ \ Covered, !.fence = FALSE, !.unfenced = FALSE]
<1>1. Lessened(e, d) /\ d.flight \cap Covered = {}
  BY DEF Lessened, SoundEngine, Board
<1>2. Lessened(e, e)
  BY DEF Lessened, SoundEngine
<1> HIDE DEF d
<1>3. CASE r = Outcome(TRUE, d)
  BY <1>1, <1>3, LessenedFollows, OutcomeFields
<1>4. CASE r = Outcome(FALSE, e)
  BY <1>2, <1>4, OutcomeFields DEF Follows
<1>5. CASE r = Outcome(TRUE, e) /\ ~e.fence
  <2>1. v < 19 /\ e.accel # "UNSAFE" => e.flight \cap Covered = {}
    BY <1>5 DEF SoundEngine, Early
  <2>2. QED
    BY <1>2, <1>5, <2>1, LessenedFollows, OutcomeFields
<1>6. QED
  <2> DEFINE q == Outcome(TRUE, d)
  <2>1. RadeonCpWait(e) \subseteq {Outcome(FALSE, e), q} \cup {Outcome(TRUE, e) : n \in IF e.fence THEN {} ELSE {0}}
    BY DEF RadeonCpWait, Either, d
  <2>2. QED
    BY <1>3, <1>4, <1>5, <2>1

LEMMA CpWaitDrainedFollows ==
  ASSUME NEW v, NEW e, SoundEngine(v, e), NEW r \in RadeonCpWaitDrained(e)
  PROVE  Follows(v, e, r) /\ Lessened(e, r.e)
<1> DEFINE d == [e EXCEPT !.flight = {}, !.unfenced = FALSE]
<1>1. Lessened(e, d)
  BY DEF Lessened, SoundEngine, Board
<1>2. Lessened(e, e)
  BY DEF Lessened, SoundEngine
<1> HIDE DEF d
<1>3. CASE r = Outcome(TRUE, d)
  BY <1>1, <1>3, LessenedFollows, OutcomeFields
<1>4. CASE r = Outcome(FALSE, e)
  BY <1>2, <1>4, OutcomeFields DEF Follows
<1>5. CASE r = Outcome(TRUE, e)
  BY <1>2, <1>5, OutcomeFields, ZenonT(60) DEF Follows
<1>6. QED
  BY <1>3, <1>4, <1>5 DEF RadeonCpWaitDrained, Either, d

LEMMA GuiIdleFollows ==
  ASSUME NEW v, NEW e, SoundEngine(v, e), NEW r \in WaitGuiIdle(e)
  PROVE  Follows(v, e, r) /\ Lessened(e, r.e) /\ (r.ok => r.e.flight = {})
<1> DEFINE d == [e EXCEPT !.flight = {}]
<1>1. Lessened(e, d) /\ d.flight = {}
  BY DEF Lessened, SoundEngine, Board
<1>2. Lessened(e, e)
  BY DEF Lessened, SoundEngine
<1> HIDE DEF d
<1>3. CASE r = Outcome(TRUE, d)
  BY <1>1, <1>3, LessenedFollows, OutcomeFields
<1>4. CASE r = Outcome(FALSE, e)
  BY <1>2, <1>4, OutcomeFields DEF Follows
<1>5. QED
  BY <1>3, <1>4 DEF WaitGuiIdle, Either, d

(* The tag goes once what it stands for is done.                            *)
Settled(v, e) ==
  e.accel # "UNSAFE" => "2d" \notin e.flight /\ (v < 19 => e.flight = {})

Retagged(e, d) ==
  /\ d \in Board
  /\ d.accel = e.accel /\ d.tried = e.tried /\ d.cp = e.cp /\ d.lease = e.lease
  /\ d.current = e.current /\ d.flight = e.flight /\ d.unfenced = e.unfenced

LEMMA RetaggedFollows ==
  ASSUME NEW v, NEW e, NEW w, Follows(v, e, w), Settled(v, w.e), NEW d, Retagged(w.e, d)
  PROVE  Follows(v, e, Outcome(TRUE, d)) /\ Settled(v, d)
<1>1. Settled(v, d)
  BY DEF Retagged, Settled
<1>2. SoundEngine(v, d)
  BY <1>1 DEF Follows, Retagged, Settled, SoundEngine, Early
<1>3. d.current = w.e.current /\ d.accel = w.e.accel /\ d.lease = w.e.lease
  BY DEF Retagged
<1>4. Outcome(TRUE, d).ok = TRUE /\ Outcome(TRUE, d).e = d
  BY OutcomeFields
<1>5. QED
  BY <1>1, <1>2, <1>3, <1>4 DEF Follows

LEMMA OrRecovered ==
  ASSUME NEW R, NEW r \in OrElse(R, RecoverEngine)
  PROVE  \E t \in R : (t.ok /\ r = t) \/ (~t.ok /\ r \in RecoverEngine(t.e))
BY DEF OrElse

LEMMA SynchronizeFollows ==
  ASSUME NEW v, NEW e, SoundEngine(v, e), NEW r \in SynchronizeEngine(e)
  PROVE  Follows(v, e, r) /\ (r.ok => Settled(v, r.e))
<1> DEFINE Restored(d) == {Outcome(TRUE, RestoreEngineState(d))}
           Cleared(d) == {Outcome(TRUE, [d EXCEPT !.pending = "NONE", !.restore = FALSE])}
           waits == AndThen(RadeonCpWait(e), RadeonCpWaitDrained)
(* A failed wait is followed by a recovery.                                 *)
<1>1. ASSUME NEW w, Follows(v, e, w), r \in RecoverEngine(w.e)
      PROVE  Follows(v, e, r) /\ (r.ok => Settled(v, r.e))
  <2>1. SoundEngine(v, w.e)
    BY <1>1 DEF Follows
  <2>2. Follows(v, w.e, r) /\ (r.ok => r.e.flight = {})
    BY <1>1, <2>1, RecoverFollows
  <2>3. QED
    BY <1>1, <2>2, FollowsTransitive DEF Settled
<1>2. CASE e.pending = "NONE"
  <2>1. r = Outcome(e.accel # "UNSAFE", e)
    BY <1>2 DEF SynchronizeEngine
  <2>2. Settled(v, e)
    BY <1>2 DEF Settled, SoundEngine, Early, Board, Work, Covered
  <2>3. CASE e.accel = "UNSAFE"
    <3>1. r.e = e /\ r.ok = FALSE
      BY <2>1, <2>3, OutcomeFields
    <3>2. QED
      BY <3>1 DEF Follows
  <2>4. CASE e.accel # "UNSAFE"
    <3>1. r.e = e /\ r.ok = TRUE
      BY <2>1, <2>4, OutcomeFields
    <3>2. QED
      BY <2>2, <3>1 DEF Follows
  <2>5. QED
    BY <2>3, <2>4
<1>3. CASE e.pending = "CP"
  <2>1. PICK w \in waits :
          \/ ~w.ok /\ r \in RecoverEngine(w.e)
          \/ w.ok /\ r = Outcome(TRUE, [RestoreEngineState(w.e) EXCEPT
                                          !.pending = "NONE", !.restore = FALSE])
    <3> DEFINE R == AndThen(waits, Restored)
               Q == AndThen(R, Cleared)
    <3>1. r \in OrElse(Q, RecoverEngine)
      BY <1>3 DEF SynchronizeEngine
    <3> HIDE DEF waits
    <3>2. PICK t \in Q : (t.ok /\ r = t) \/ (~t.ok /\ r \in RecoverEngine(t.e))
      <4> HIDE DEF Q
      <4>1. QED
        BY <3>1, OrRecovered
    <3>3. PICK u \in R : (u.ok /\ t \in Cleared(u.e)) \/ (~u.ok /\ t = u)
      <4> HIDE DEF R
      <4>1. QED
        BY <3>2 DEF AndThen
    <3>4. PICK w \in waits : (w.ok /\ u = Outcome(TRUE, RestoreEngineState(w.e))) \/ (~w.ok /\ u = w)
      BY <3>3 DEF AndThen
    <3>5. CASE w.ok
      <4>1. u.ok /\ u.e = RestoreEngineState(w.e)
        BY <3>4, <3>5, OutcomeFields
      <4>2. t = Outcome(TRUE, [RestoreEngineState(w.e) EXCEPT !.pending = "NONE", !.restore = FALSE])
        BY <3>3, <4>1
      <4>3. t.ok
        BY <4>2, OutcomeFields
      <4>4. QED
        BY <3>2, <3>5, <4>2, <4>3
    <3>6. CASE ~w.ok
      BY <3>2, <3>3, <3>4, <3>6
    <3>7. QED
      BY <3>5, <3>6
  <2>2. Follows(v, e, w) /\ (w.ok => Settled(v, w.e))
    <3>1. PICK u \in RadeonCpWait(e) :
            IF u.ok THEN w \in RadeonCpWaitDrained(u.e) ELSE w = u
      BY DEF AndThen
    <3>2. /\ Follows(v, e, u) /\ Lessened(e, u.e)
          /\ u.ok /\ v < 19 /\ e.accel # "UNSAFE" => u.e.flight \cap Covered = {}
      BY CpWaitFollows
    <3>3. CASE ~u.ok
      BY <3>1, <3>2, <3>3
    <3>4. CASE u.ok
      <4>1. SoundEngine(v, u.e)
        BY <3>2 DEF Follows
      <4>2. Follows(v, u.e, w) /\ Lessened(u.e, w.e)
        BY <3>1, <3>4, <4>1, CpWaitDrainedFollows
      <4>3. w.e.accel = e.accel /\ w.e.pending = "CP" /\ w.e.flight \subseteq u.e.flight
        BY <1>3, <3>2, <4>2 DEF Lessened
      <4>4. Settled(v, w.e)
        BY <3>2, <3>4, <4>2, <4>3 DEF Follows, Settled, SoundEngine, Early, Board, Work, Covered
      <4>5. QED
        BY <3>2, <4>2, <4>4, FollowsTransitive
    <3>5. QED
      BY <3>3, <3>4
  <2>3. CASE ~w.ok /\ r \in RecoverEngine(w.e)
    BY <1>1, <2>2, <2>3
  <2>4. CASE w.ok /\ r = Outcome(TRUE, [RestoreEngineState(w.e) EXCEPT
                                          !.pending = "NONE", !.restore = FALSE])
    <3> DEFINE d == [RestoreEngineState(w.e) EXCEPT !.pending = "NONE", !.restore = FALSE]
    <3>1. Retagged(w.e, d)
      BY <2>2, ZenonT(60) DEF RestoreEngineState, Retagged, Follows, SoundEngine, Board
    <3> HIDE DEF d
    <3>2. r = Outcome(TRUE, d)
      BY <2>4 DEF d
    <3>3. Follows(v, e, Outcome(TRUE, d)) /\ Settled(v, d)
      BY <2>2, <2>4, <3>1, RetaggedFollows
    <3>4. QED
      BY <3>2, <3>3, OutcomeFields
  <2>5. QED
    BY <2>1, <2>3, <2>4
<1>4. CASE e.pending = "MMIO"
  <2>1. PICK w \in WaitGuiIdle(e) :
          \/ ~w.ok /\ r \in RecoverEngine(w.e)
          \/ w.ok /\ r = Outcome(TRUE, [w.e EXCEPT !.pending = "NONE", !.restore = FALSE])
    <3> DEFINE Q == AndThen(WaitGuiIdle(e), Cleared)
    <3>1. r \in OrElse(Q, RecoverEngine)
      BY <1>4 DEF SynchronizeEngine
    <3>2. PICK t \in Q : (t.ok /\ r = t) \/ (~t.ok /\ r \in RecoverEngine(t.e))
      <4> HIDE DEF Q
      <4>1. QED
        BY <3>1, OrRecovered
    <3>3. PICK w \in WaitGuiIdle(e) : (w.ok /\ t \in Cleared(w.e)) \/ (~w.ok /\ t = w)
      BY <3>2 DEF AndThen
    <3>4. QED
      BY <3>2, <3>3, OutcomeFields
  <2>2. Follows(v, e, w) /\ Lessened(e, w.e) /\ (w.ok => w.e.flight = {})
    BY GuiIdleFollows
  <2>3. CASE ~w.ok /\ r \in RecoverEngine(w.e)
    BY <1>1, <2>2, <2>3
  <2>4. CASE w.ok /\ r = Outcome(TRUE, [w.e EXCEPT !.pending = "NONE", !.restore = FALSE])
    <3> DEFINE d == [w.e EXCEPT !.pending = "NONE", !.restore = FALSE]
    <3>1. Retagged(w.e, d)
      BY <2>2, ZenonT(60) DEF Retagged, Follows, SoundEngine, Board
    <3>2. Settled(v, w.e)
      BY <2>2, <2>4 DEF Settled
    <3> HIDE DEF d
    <3>3. r = Outcome(TRUE, d)
      BY <2>4 DEF d
    <3>4. Follows(v, e, Outcome(TRUE, d)) /\ Settled(v, d)
      BY <2>2, <3>1, <3>2, RetaggedFollows
    <3>5. QED
      BY <3>3, <3>4, OutcomeFields
  <2>5. QED
    BY <2>1, <2>3, <2>4
<1>5. QED
  BY <1>2, <1>3, <1>4 DEF SoundEngine, Board

(* No 2D work is left when RadeonPrepare3D has succeeded.                   *)
Ordered(e) == e.accel # "UNSAFE" => "2d" \notin e.flight

LEMMA PrepareFollows ==
  ASSUME NEW v, NEW e, SoundEngine(v, e), NEW r \in RadeonPrepare3D(e)
  PROVE  Follows(v, e, r) /\ (r.ok => Ordered(r.e))
<1>1. CASE e.accel = "READY" /\ e.pending = "CP"
  <2>1. r = Outcome(TRUE, e)
    BY <1>1 DEF RadeonPrepare3D
  <2>2. r.ok = TRUE /\ r.e = e
    BY <2>1, OutcomeFields
  <2>3. QED
    BY <1>1, <2>2 DEF Follows, Ordered, SoundEngine
<1>2. CASE ~(e.accel = "READY" /\ e.pending = "CP")
  <2>1. r \in SynchronizeEngine(e)
    BY <1>2 DEF RadeonPrepare3D
  <2>2. QED
    BY <2>1, SynchronizeFollows DEF Settled, Ordered
<1>3. QED
  BY <1>1, <1>2

(* A stream that was submitted and marked.                                  *)
Queued(v, e, d, kind, addFence) ==
  /\ d \in Board /\ d.accel = e.accel /\ d.pending = "CP" /\ d.restore = TRUE
  /\ d.tried = e.tried /\ d.cp = e.cp /\ d.lease = e.lease /\ d.host = e.host
  /\ d.current = e.current
  /\ d.flight \subseteq e.flight \cup {"bare"} \cup Covered
  /\ addFence => d.fence /\ ~d.unfenced /\ "bare" \notin d.flight
  /\ "bare" \notin e.flight => ("ib" \in d.flight => "ib" \in e.flight \/ kind = "ib")

LEMMA QueuedSound ==
  ASSUME NEW v, NEW e, SoundEngine(v, e), Ordered(e), e.accel # "UNSAFE",
         NEW kind, NEW addFence \in BOOLEAN, addFence \/ ~(v < 19),
         v < 19 /\ kind = "ib" => ~e.host,
         NEW d, Queued(v, e, d, kind, addFence)
  PROVE  SoundEngine(v, d)
<1>1. "2d" \notin d.flight /\ ("ppc" \notin e.flight => "ppc" \notin d.flight)
  BY DEF Queued, Ordered, Covered
<1>2. v < 19 => Early(d)
  BY <1>1 DEF Queued, SoundEngine, Early
<1>3. QED
  BY <1>1, <1>2 DEF Queued, SoundEngine

LEMMA StreamQueued ==
  ASSUME NEW v, NEW e \in Board, NEW kind \in Covered, NEW addFence \in BOOLEAN,
         NEW r \in RadeonCpSubmitStream(e, kind, addFence)
  PROVE  \/ r = Outcome(FALSE, e)
         \/ /\ r.ok = TRUE /\ e.cp = "ready"
            /\ Queued(v, e, RadeonMark3DSubmitted(r.e), kind, addFence)
<1> DEFINE covers == IF "bare" \in e.flight THEN {"ib"} ELSE {}
           f == [e EXCEPT !.fence = TRUE, !.unfenced = FALSE,
                          !.flight = (@ \ {"bare"}) \cup covers \cup {kind}]
           u == [e EXCEPT !.unfenced = TRUE, !.flight = @ \cup {"bare"}]
<1>1. addFence => Queued(v, e, RadeonMark3DSubmitted(f), kind, addFence)
  BY ZenonT(60) DEF Queued, RadeonMark3DSubmitted, Board, Work, Covered
<1>2. ~addFence => Queued(v, e, RadeonMark3DSubmitted(u), kind, addFence)
  BY DEF Queued, RadeonMark3DSubmitted, Board, Work, Covered
<1>3. \/ r = Outcome(FALSE, e)
      \/ addFence /\ r = Outcome(TRUE, f) /\ e.cp = "ready"
      \/ ~addFence /\ r = Outcome(TRUE, u) /\ e.cp = "ready"
  BY DEF RadeonCpSubmitStream, Either
<1> HIDE DEF f, u
<1>4. CASE addFence /\ r = Outcome(TRUE, f) /\ e.cp = "ready"
  <2>1. r.ok = TRUE /\ r.e = f
    BY <1>4, OutcomeFields
  <2>2. QED
    BY <1>1, <1>4, <2>1
<1>5. CASE ~addFence /\ r = Outcome(TRUE, u) /\ e.cp = "ready"
  <2>1. r.ok = TRUE /\ r.e = u
    BY <1>5, OutcomeFields
  <2>2. QED
    BY <1>2, <1>5, <2>1
<1>6. QED
  BY <1>3, <1>4, <1>5

LEMMA SubmitFollows ==
  ASSUME NEW v, NEW e, SoundEngine(v, e), Ordered(e),
         NEW kind \in Covered, NEW addFence \in BOOLEAN, addFence \/ ~(v < 19),
         v < 19 /\ kind = "ib" => ~e.host,
         NEW r \in Finished(RadeonCpSubmitStream(e, kind, addFence))
  PROVE  Follows(v, e, r)
<1> DEFINE R == RadeonCpSubmitStream(e, kind, addFence)
<1> HIDE DEF R
<1>1. PICK w \in R : \/ w.ok /\ r = Outcome(TRUE, RadeonMark3DSubmitted(w.e))
                     \/ ~w.ok /\ \E q \in RecoverEngine(w.e) : r = Outcome(FALSE, q.e)
  BY DEF Finished, R
<1>2. e \in Board
  BY DEF SoundEngine
<1>3. \/ w = Outcome(FALSE, e)
      \/ /\ w.ok = TRUE /\ e.cp = "ready"
         /\ Queued(v, e, RadeonMark3DSubmitted(w.e), kind, addFence)
  BY <1>2, StreamQueued DEF R
<1>4. CASE w = Outcome(FALSE, e)
  <2>1. w.ok = FALSE /\ w.e = e
    BY <1>4, OutcomeFields
  <2>2. PICK q \in RecoverEngine(e) : r = Outcome(FALSE, q.e)
    BY <1>1, <2>1
  <2>3. r.ok = FALSE /\ r.e = q.e
    BY <2>2, OutcomeFields
  <2>4. Follows(v, e, q)
    BY RecoverFollows
  <2>5. QED
    BY <2>3, <2>4 DEF Follows
<1>5. CASE /\ w.ok = TRUE /\ e.cp = "ready"
           /\ Queued(v, e, RadeonMark3DSubmitted(w.e), kind, addFence)
  <2> DEFINE d == RadeonMark3DSubmitted(w.e)
  <2> HIDE DEF d
  <2>1. r.ok = TRUE /\ r.e = d
    BY <1>1, <1>5, OutcomeFields, ZenonT(60) DEF d
  <2>2. e.accel # "UNSAFE"
    BY <1>5 DEF SoundEngine
  <2>3. Queued(v, e, d, kind, addFence)
    BY <1>5 DEF d
  <2>4. SoundEngine(v, d)
    BY <2>2, <2>3, QueuedSound
  <2>5. QED
    BY <2>1, <2>2, <2>3, <2>4 DEF Follows, Queued
<1>6. QED
  BY <1>3, <1>4, <1>5

(* A change that takes nothing but the lease, sessions or the guarded bit.  *)
Eased(e, d) ==
  /\ d \in Board
  /\ d.accel = e.accel /\ d.pending = e.pending /\ d.restore = e.restore
  /\ d.tried = e.tried /\ d.cp = e.cp /\ (d.lease => e.lease)
  /\ (d.host => e.host) /\ d.flight = e.flight /\ d.unfenced = e.unfenced
  /\ d.fence = e.fence

LEMMA EasedSound ==
  ASSUME NEW v, NEW e, SoundEngine(v, e), NEW d, Eased(e, d)
  PROVE  SoundEngine(v, d)
BY DEF Eased, SoundEngine, Early

LEMMA CurrentSound ==
  ASSUME NEW v, NEW e, SoundEngine(v, e), NEW C \in SUBSET Session,
         NEW d, d = [e EXCEPT !.current = C]
  PROVE  SoundEngine(v, d) /\ d.accel = e.accel /\ d.flight = e.flight /\ d.current = C
<1>1. Eased(e, d) /\ d.current = C
  BY DEF Eased, SoundEngine, Board
<1>2. QED
  BY <1>1, EasedSound DEF Eased

LEMMA FetchGuardsSound ==
  ASSUME NEW v, NEW e, SoundEngine(v, e), Ordered(e), NEW d, d = FetchGuards(e)
  PROVE  /\ SoundEngine(v, d) /\ Ordered(d) /\ d.current = e.current /\ d.lease = e.lease
         /\ d.accel = e.accel /\ (v < 19 => ~d.host)
<1>1. CASE e.unfenced
  BY <1>1 DEF FetchGuards, SoundEngine, Early
<1>2. CASE ~e.unfenced
  <2>1. d = [e EXCEPT !.host = FALSE]
    BY <1>2 DEF FetchGuards
  <2>2. Eased(e, d) /\ d.current = e.current /\ d.lease = e.lease /\ ~d.host
    BY <2>1, ZenonT(60) DEF Eased, SoundEngine, Board
  <2>3. QED
    BY <2>2, EasedSound DEF Eased, Ordered
<1>3. QED
  BY <1>1, <1>2

LEMMA GuardedFollows ==
  ASSUME NEW v, v = version, NEW s, SoundEngine(v, engine),
         NEW kind \in Covered, NEW addFence \in BOOLEAN, addFence \/ ~(v < 19),
         NEW r \in Guarded(s, kind, addFence)
  PROVE  Follows(v, engine, r)
<1> DEFINE Stream(e) ==
      IF Recheck(s, e)
      THEN Finished(RadeonCpSubmitStream(FetchGuards(e), kind, addFence))
      ELSE {Outcome(FALSE, e)}
<1>1. PICK w \in RadeonPrepare3D(engine) : IF w.ok THEN r \in Stream(w.e) ELSE r = w
  BY DEF Guarded, AndThen
<1>2. Follows(v, engine, w) /\ (w.ok => Ordered(w.e))
  BY PrepareFollows
<1>3. CASE ~w.ok
  BY <1>1, <1>2, <1>3
<1>4. CASE w.ok /\ ~Recheck(s, w.e)
  <2>1. r = Outcome(FALSE, w.e)
    BY <1>1, <1>4
  <2>2. r.ok = FALSE /\ r.e = w.e
    BY <2>1, OutcomeFields
  <2>3. QED
    BY <1>2, <2>2 DEF Follows
<1>5. CASE w.ok /\ Recheck(s, w.e)
  <2> DEFINE d == FetchGuards(w.e)
  <2>1. r \in Finished(RadeonCpSubmitStream(d, kind, addFence))
    BY <1>1, <1>5
  <2>2. /\ SoundEngine(v, d) /\ Ordered(d) /\ d.current = w.e.current /\ d.lease = w.e.lease
        /\ d.accel = w.e.accel /\ (v < 19 => ~d.host)
    BY <1>2, <1>5, FetchGuardsSound DEF Follows
  <2> HIDE DEF d
  <2>3. Follows(v, d, r)
    BY <2>1, <2>2, SubmitFollows
  <2>4. QED
    BY <1>2, <2>2, <2>3 DEF Follows
<1>6. QED
  BY <1>3, <1>4, <1>5

(* A lease exists from interface 20 on: none is ended before.               *)
LEMMA AdoptedSound ==
  ASSUME NEW v, NEW e, SoundEngine(v, e), e.lease, NEW lastFence \in BOOLEAN,
         NEW d, d = RadeonCpAdoptFence(LeaseEnds(e), lastFence)
  PROVE  /\ SoundEngine(v, d) /\ ~d.lease /\ "2d" \notin d.flight
         /\ d.current = e.current /\ d.accel = e.accel /\ d.cp = e.cp
<1>1. ~(v < 19) /\ "2d" \notin e.flight
  BY DEF SoundEngine, Early
<1>2. /\ d \in Board /\ ~d.lease /\ d.flight = e.flight /\ d.current = e.current
      /\ d.accel = e.accel /\ d.tried = e.tried /\ d.cp = e.cp
  <2> DEFINE l == LeaseEnds(e)
  <2>1. l = [e EXCEPT !.lease = FALSE, !.holder = NoSession, !.stale = FALSE]
    BY DEF LeaseEnds
  <2>2. d = [l EXCEPT !.fence = FALSE, !.unfenced = FALSE, !.sync = l.sync \/ lastFence]
    BY DEF RadeonCpAdoptFence
  <2> HIDE DEF l
  <2>3. /\ l \in Board /\ ~l.lease /\ l.flight = e.flight /\ l.current = e.current
        /\ l.accel = e.accel /\ l.tried = e.tried /\ l.cp = e.cp
    BY <2>1 DEF SoundEngine, Board
  <2>4. QED
    BY <2>2, <2>3, ZenonT(60) DEF Board
<1>3. QED
  BY <1>1, <1>2 DEF SoundEngine

LEMMA LeaseBlocksFollows ==
  ASSUME NEW v, NEW e, SoundEngine(v, e), NEW r \in LeaseBlocks(e)
  PROVE  Follows(v, e, r) /\ (r.ok => e.lease) /\ (~r.ok => ~r.e.lease)
<1>1. CASE ~e.lease
  <2>1. r = Outcome(FALSE, e)
    BY <1>1 DEF LeaseBlocks
  <2>2. r.ok = FALSE /\ r.e = e
    BY <2>1, OutcomeFields
  <2>3. QED
    BY <1>1, <2>2 DEF Follows
<1>2. CASE e.lease /\ ~e.stale
  <2>1. r = Outcome(TRUE, e)
    BY <1>2 DEF LeaseBlocks
  <2>2. r.ok = TRUE /\ r.e = e
    BY <2>1, OutcomeFields
  <2>3. QED
    BY <1>2, <2>2 DEF Follows
<1>3. CASE e.lease /\ e.stale
  <2> DEFINE d == RadeonCpAdoptFence(LeaseEnds(e), FALSE)
  <2>1. PICK q \in RecoverEngine(d) : r = Outcome(FALSE, q.e)
    BY <1>3 DEF LeaseBlocks
  <2>2. SoundEngine(v, d) /\ ~d.lease /\ d.current = e.current /\ d.accel = e.accel
    BY <1>3, AdoptedSound, ZenonT(60)
  <2> HIDE DEF d
  <2>3. Follows(v, d, q)
    BY <2>2, RecoverFollows
  <2>4. r.ok = FALSE /\ r.e = q.e
    BY <2>1, OutcomeFields
  <2>5. QED
    BY <2>2, <2>3, <2>4 DEF Follows
<1>4. QED
  BY <1>1, <1>2, <1>3

(* The engine may be programmed: nobody holds it, and no CP work is left.   *)
Free(v, e) ==
  /\ ~e.lease
  /\ v < 19 /\ e.accel # "UNSAFE" => e.flight \cap Covered = {}

LEMMA PrepareMmioFollows ==
  ASSUME NEW v, NEW e, SoundEngine(v, e), NEW r \in PrepareMmioEngine(e)
  PROVE  Follows(v, e, r) /\ (r.ok => Free(v, r.e))
<1>1. CASE e.accel # "READY"
  <2>1. r = Outcome(FALSE, e)
    BY <1>1 DEF PrepareMmioEngine
  <2>2. r.ok = FALSE /\ r.e = e
    BY <2>1, OutcomeFields
  <2>3. QED
    BY <2>2 DEF Follows
<1>2. CASE e.accel = "READY"
  <2>1. PICK b \in LeaseBlocks(e) :
          \/ b.ok /\ r = Outcome(FALSE, b.e)
          \/ ~b.ok /\ b.e.restore /\ r \in SynchronizeEngine(b.e)
          \/ ~b.ok /\ ~b.e.restore /\ r = Outcome(TRUE, b.e)
    <3> DEFINE Ready(d) == IF d.restore THEN SynchronizeEngine(d) ELSE {Outcome(TRUE, d)}
               Then(b) == IF b.ok THEN {Outcome(FALSE, b.e)} ELSE Ready(b.e)
    <3>1. r \in UNION {Then(b) : b \in LeaseBlocks(e)}
      BY <1>2 DEF PrepareMmioEngine
    <3>2. PICK b \in LeaseBlocks(e) : r \in Then(b)
      BY <3>1
    <3>3. QED
      BY <3>2
  <2>2. Follows(v, e, b) /\ (~b.ok => ~b.e.lease) /\ SoundEngine(v, b.e)
    BY LeaseBlocksFollows DEF Follows
  <2>3. CASE b.ok /\ r = Outcome(FALSE, b.e)
    <3>1. r.ok = FALSE /\ r.e = b.e
      BY <2>3, OutcomeFields
    <3>2. QED
      BY <2>2, <3>1 DEF Follows
  <2>4. CASE ~b.ok /\ r \in SynchronizeEngine(b.e)
    <3>1. Follows(v, b.e, r) /\ (r.ok => Settled(v, r.e))
      BY <2>2, <2>4, SynchronizeFollows
    <3>2. Follows(v, e, r)
      BY <2>2, <3>1, FollowsTransitive
    <3>3. ~r.e.lease
      BY <2>2, <2>4, <3>1 DEF Follows
    <3>4. QED
      BY <3>1, <3>2, <3>3 DEF Settled, Free
  <2>5. CASE ~b.ok /\ ~b.e.restore /\ r = Outcome(TRUE, b.e)
    <3>1. r.ok = TRUE /\ r.e = b.e
      BY <2>5, OutcomeFields
    <3>2. Free(v, b.e)
      BY <2>2, <2>5 DEF SoundEngine, Early, Free
    <3>3. QED
      BY <2>2, <3>1, <3>2 DEF Follows
  <2>6. QED
    BY <2>1, <2>3, <2>4, <2>5
<1>3. QED
  BY <1>1, <1>2

LEMMA SoftwareFallbackFollows ==
  ASSUME NEW v, NEW e, SoundEngine(v, e), NEW r \in PrepareSoftwareFallback(e)
  PROVE  Follows(v, e, r) /\ (r.ok /\ v < 19 => r.e.flight = {})
<1> DEFINE Unless(d, ok) == {Outcome(ok /\ d.accel # "UNSAFE", d)}
           Then(b) == IF b.ok THEN Unless(b.e, TRUE)
                      ELSE UNION {Unless(q.e, q.ok) : q \in SynchronizeEngine(b.e)}
<1>1. PICK b \in LeaseBlocks(e) : r \in Then(b)
  BY DEF PrepareSoftwareFallback
<1>2. /\ Follows(v, e, b) /\ SoundEngine(v, b.e)
      /\ b.ok => e.lease
  BY LeaseBlocksFollows DEF Follows
<1>3. CASE b.ok
  <2>1. r = Outcome(TRUE /\ b.e.accel # "UNSAFE", b.e)
    BY <1>1, <1>3
  <2>2. r.e = b.e /\ r.ok = (TRUE /\ b.e.accel # "UNSAFE")
    BY <2>1, OutcomeFields
  <2>3. r.ok \in BOOLEAN
    BY <2>2
  <2>4. ~(v < 19)
    BY <1>2, <1>3 DEF SoundEngine, Early
  <2>5. QED
    BY <1>2, <2>2, <2>3, <2>4 DEF Follows
<1>4. CASE ~b.ok
  <2>1. PICK q \in SynchronizeEngine(b.e) : r = Outcome(q.ok /\ q.e.accel # "UNSAFE", q.e)
    BY <1>1, <1>4
  <2>2. Follows(v, b.e, q) /\ (q.ok => Settled(v, q.e))
    BY <1>2, SynchronizeFollows
  <2>3. r.e = q.e /\ r.ok = (q.ok /\ q.e.accel # "UNSAFE")
    BY <2>1, OutcomeFields
  <2>4. Follows(v, e, q)
    BY <1>2, <2>2, FollowsTransitive
  <2>5. r.ok \in BOOLEAN /\ (r.ok => q.ok /\ q.e.accel # "UNSAFE")
    BY <2>3
  <2>6. QED
    BY <2>2, <2>3, <2>4, <2>5 DEF Follows, Settled
<1>5. QED
  BY <1>3, <1>4

LEMMA LastFenceWaitFollows ==
  ASSUME NEW v, NEW e, SoundEngine(v, e), NEW s, NEW r \in LastFenceWait(s, e)
  PROVE  Follows(v, e, r)
<1> DEFINE d == [e EXCEPT !.flight = @ \ Covered, !.fence = FALSE]
           waited == {Outcome(FALSE, e), Outcome(TRUE, e), Outcome(TRUE, d)}
<1>1. Lessened(e, d) /\ Lessened(e, e)
  BY DEF Lessened, SoundEngine, Board
<1>2. r = Outcome(TRUE, e) \/ r \in OrElse(waited, RecoverEngine)
  BY DEF LastFenceWait
<1> HIDE DEF d
<1>3. ASSUME NEW t \in waited
      PROVE  Follows(v, e, t)
  <2>1. Follows(v, e, Outcome(FALSE, e)) /\ Follows(v, e, Outcome(TRUE, e))
    BY <1>1, LessenedFollows
  <2>2. Follows(v, e, Outcome(TRUE, d))
    BY <1>1, LessenedFollows
  <2>3. QED
    BY <1>3, <2>1, <2>2
<1>4. CASE r = Outcome(TRUE, e)
  BY <1>3, <1>4
<1>5. CASE r \in OrElse(waited, RecoverEngine)
  <2>1. PICK t \in waited : (t.ok /\ r = t) \/ (~t.ok /\ r \in RecoverEngine(t.e))
    <3> HIDE DEF waited
    <3>1. QED
      BY <1>5, OrRecovered
  <2>2. Follows(v, e, t)
    BY <1>3
  <2>3. CASE r \in RecoverEngine(t.e)
    <3>1. Follows(v, t.e, r)
      BY <2>2, <2>3, RecoverFollows DEF Follows
    <3>2. QED
      BY <2>2, <3>1, FollowsTransitive
  <2>4. QED
    BY <2>1, <2>2, <2>3
<1>6. QED
  BY <1>2, <1>4, <1>5

(* From interface 20 on the tag may be set at any time without 2D work.     *)
LEMMA MarkedSound ==
  ASSUME NEW v, ~(v < 19), NEW e, SoundEngine(v, e), "2d" \notin e.flight,
         NEW d, d = RadeonMark3DSubmitted(e)
  PROVE  /\ SoundEngine(v, d) /\ d.current = e.current /\ d.accel = e.accel
         /\ d.lease = e.lease /\ d.cp = e.cp /\ d.tried = e.tried /\ d.flight = e.flight
<1>1. /\ d \in Board /\ d.current = e.current /\ d.accel = e.accel /\ d.tried = e.tried
      /\ d.lease = e.lease /\ d.cp = e.cp /\ d.flight = e.flight
  BY DEF RadeonMark3DSubmitted, SoundEngine, Board
<1>2. QED
  BY <1>1 DEF SoundEngine

LEMMA CloseLeaseSound ==
  ASSUME NEW v, NEW e, SoundEngine(v, e), NEW s, NEW d \in CloseLease(s, e)
  PROVE  SoundEngine(v, d) /\ d.current = e.current /\ d.accel = e.accel
<1>1. CASE ~(e.lease /\ e.holder = s)
  BY <1>1 DEF CloseLease
<1>2. CASE e.lease /\ e.holder = s
  <2> DEFINE l == LeaseEnds(e)
  <2>1. ~(v < 19) /\ "2d" \notin e.flight
    BY <1>2 DEF SoundEngine, Early
  <2>2. /\ l \in Board /\ ~l.lease /\ l.flight = e.flight /\ l.current = e.current
        /\ l.accel = e.accel /\ l.tried = e.tried /\ l.cp = e.cp
    BY DEF LeaseEnds, SoundEngine, Board
  <2>3. SoundEngine(v, l)
    BY <2>1, <2>2 DEF SoundEngine
  <2>4. PICK r \in WaitGuiIdle(l) \cup {Outcome(FALSE, l)} :
          d = RadeonMark3DSubmitted(RadeonCpAdoptFence(r.e, FALSE))
    BY <1>2 DEF CloseLease
  <2> HIDE DEF l
  <2>5. Lessened(l, r.e)
    <3>1. Lessened(l, l)
      BY <2>2 DEF Lessened
    <3>2. CASE r \in WaitGuiIdle(l)
      BY <2>3, <3>2, GuiIdleFollows
    <3>3. CASE r = Outcome(FALSE, l)
      <4>1. r.e = l
        BY <3>3, OutcomeFields
      <4>2. QED
        BY <3>1, <4>1
    <3>4. QED
      BY <2>4, <3>2, <3>3
  <2> DEFINE a == RadeonCpAdoptFence(r.e, FALSE)
  <2>6. a = [r.e EXCEPT !.fence = FALSE, !.unfenced = FALSE, !.sync = r.e.sync \/ FALSE]
    BY DEF RadeonCpAdoptFence
  <2>7. d = RadeonMark3DSubmitted(a)
    BY <2>4
  <2> HIDE DEF a
  <2>8. /\ a \in Board /\ ~a.lease /\ a.flight \subseteq e.flight /\ a.current = e.current
        /\ a.accel = e.accel /\ a.tried = e.tried /\ a.cp = e.cp
    <3>1. /\ r.e \in Board /\ ~r.e.lease /\ r.e.flight \subseteq e.flight
          /\ r.e.current = e.current /\ r.e.accel = e.accel /\ r.e.tried = e.tried
          /\ r.e.cp = e.cp
      BY <2>2, <2>5 DEF Lessened
    <3>2. /\ a \in Board /\ a.lease = r.e.lease /\ a.flight = r.e.flight
          /\ a.current = r.e.current /\ a.accel = r.e.accel /\ a.tried = r.e.tried
          /\ a.cp = r.e.cp
      BY <2>6, <3>1, ZenonT(60) DEF Board
    <3>3. QED
      BY <3>1, <3>2
  <2>9. SoundEngine(v, a) /\ "2d" \notin a.flight
    BY <2>1, <2>8 DEF SoundEngine
  <2>10. QED
    BY <2>1, <2>7, <2>8, <2>9, MarkedSound
<1>3. QED
  BY <1>1, <1>2

LEMMA GrantedSound ==
  ASSUME NEW v, ~(v < 19), NEW e, SoundEngine(v, e), Ordered(e), e.cp = "ready",
         NEW s \in Session, NEW d, d = Granted(s, e)
  PROVE  SoundEngine(v, d) /\ d.current = e.current
<1>1. ~e.tried /\ "2d" \notin e.flight
  BY DEF SoundEngine, Ordered
<1>2. d = [[e EXCEPT !.host = FALSE] EXCEPT
            !.lease = TRUE, !.holder = s, !.stale = FALSE, !.accel = "FALLBACK"]
  BY DEF Granted, RadeonLeaseGrantGuards
<1>3. /\ d \in Board /\ d.flight = e.flight /\ d.current = e.current
      /\ d.accel = "FALLBACK" /\ d.tried = e.tried /\ d.cp = e.cp
  BY <1>2, ZenonT(60) DEF SoundEngine, Board
<1>4. QED
  BY <1>1, <1>3 DEF SoundEngine

LEMMA RearmedSound ==
  ASSUME NEW v, ~(v < 19), NEW e, SoundEngine(v, e), "2d" \notin e.flight,
         NEW ok \in BOOLEAN, NEW lastFence \in BOOLEAN,
         NEW d, d = Rearmed(Outcome(ok, RadeonCpAdoptFence(e, lastFence)))
  PROVE  SoundEngine(v, d) /\ d.current = e.current
<1> DEFINE a == RadeonCpAdoptFence(e, lastFence)
           l == LeaseEnds(a)
           m == RadeonMark3DSubmitted(l)
<1>1. a = [e EXCEPT !.fence = FALSE, !.unfenced = FALSE, !.sync = e.sync \/ lastFence]
  BY DEF RadeonCpAdoptFence
<1>2. d = IF ok /\ m.accel = "FALLBACK" THEN [m EXCEPT !.accel = "READY"] ELSE m
  BY OutcomeFields DEF Rearmed
<1>3. l = [a EXCEPT !.lease = FALSE, !.holder = NoSession, !.stale = FALSE]
  BY DEF LeaseEnds
<1> HIDE DEF a
<1>4. /\ a \in Board /\ a.flight = e.flight /\ a.current = e.current
      /\ a.accel = e.accel /\ a.tried = e.tried /\ a.cp = e.cp
  BY <1>1, ZenonT(60) DEF SoundEngine, Board
<1> HIDE DEF l
<1>5. /\ l \in Board /\ ~l.lease /\ l.flight = e.flight /\ l.current = e.current
      /\ l.accel = e.accel /\ l.tried = e.tried /\ l.cp = e.cp
  BY <1>3, <1>4 DEF Board
<1>6. SoundEngine(v, l)
  BY <1>5 DEF SoundEngine
<1>7. /\ SoundEngine(v, m) /\ m.current = e.current /\ m.lease = l.lease
      /\ m.tried = l.tried /\ m.cp = l.cp /\ m.flight = l.flight
  BY <1>5, <1>6, MarkedSound
<1> HIDE DEF m
<1>8. CASE d = m
  BY <1>7, <1>8
<1>9. CASE d = [m EXCEPT !.accel = "READY"]
  <2>1. /\ d \in Board /\ d.current = m.current /\ d.lease = m.lease /\ d.tried = m.tried
        /\ d.cp = m.cp /\ d.flight = m.flight /\ d.accel = "READY"
    BY <1>7, <1>9 DEF SoundEngine, Board
  <2>2. QED
    BY <1>5, <1>7, <2>1 DEF SoundEngine
<1>10. QED
  BY <1>2, <1>8, <1>9

(* The engine after a callback has programmed it.                           *)
Programmed(e) == [e EXCEPT !.pending = "MMIO", !.flight = @ \cup {"2d"}]

LEMMA DrawnSound ==
  ASSUME NEW v, NEW e, SoundEngine(v, e), Free(v, e),
         NEW d, d = Programmed(e)
  PROVE  SoundEngine(v, d) /\ d.current = e.current /\ d.accel = e.accel /\ ~d.lease
<1>1. /\ d \in Board /\ d.pending = "MMIO" /\ d.flight = e.flight \cup {"2d"}
      /\ d.current = e.current /\ d.accel = e.accel /\ d.lease = e.lease
      /\ d.tried = e.tried /\ d.cp = e.cp /\ d.unfenced = e.unfenced /\ d.host = e.host
      /\ d.restore = e.restore /\ d.fence = e.fence
  BY DEF Programmed, SoundEngine, Board, Work, Covered
<1>2. d.flight \cap Covered = e.flight \cap Covered
  BY <1>1 DEF Covered
<1>3. v < 19 => Early(d)
  BY <1>1, <1>2 DEF SoundEngine, Early, Free, Covered
<1>4. QED
  BY <1>1, <1>3 DEF SoundEngine, Free
------------------------------------------------------------------------------
(* What every step keeps.                                                   *)
Kept == IInv' /\ (engine.accel = "UNSAFE" => engine'.accel = "UNSAFE")

LEMMA InitInv == Init => IInv
<1> SUFFICES ASSUME Init PROVE IInv
  OBVIOUS
<1>1. PICK start \in {<<"OFF", "none">>, <<"READY", "none">>, <<"READY", "ready">>} :
        engine = [accel |-> start[1], pending |-> "NONE", restore |-> FALSE,
                  tried |-> FALSE, cp |-> start[2], fence |-> FALSE,
                  unfenced |-> FALSE, sync |-> TRUE, lease |-> FALSE,
                  holder |-> NoSession, stale |-> FALSE, current |-> {},
                  host |-> TRUE, flight |-> {}]
  BY DEF Init
<1>2. start[1] \in {"OFF", "READY"} /\ start[2] \in {"none", "ready"}
  OBVIOUS
<1>3. engine \in Board
  BY <1>1, <1>2 DEF Board
<1>4. SoundEngine(version, engine)
  BY <1>1, <1>2, <1>3 DEF SoundEngine, Early, Covered
<1>5. TypeOK
  BY <1>1, <1>3 DEF Init, TypeOK
<1>6. QED
  BY <1>4, <1>5 DEF Init, IInv

(* A call that returns while the CPU is not drawing.                        *)
LEMMA ReturnKeeps ==
  ASSUME IInv, ~software, NEW r, Follows(version, engine, r), engine' = r.e,
         version' = version, sessions' = sessions, software' = software,
         fenced' \subseteq sessions
  PROVE  Kept
<1>1. SoundEngine(version, engine)'
  BY DEF Follows
<1>2. TypeOK'
  BY DEF IInv, TypeOK, Follows, SoundEngine
<1>3. QED
  BY <1>1, <1>2 DEF IInv, Follows, Kept

(* What a call that submits may rely on: an interface of numbers, and an    *)
(* engine that was not given up.                                            *)
LEMMA UsableFacts ==
  ASSUME IInv
  PROVE  /\ version \in Nat /\ SoundEngine(version, engine)
         /\ \A s : Usable(s) => s \in Session /\ engine.accel # "UNSAFE"
BY EngineAssumption DEF IInv, TypeOK, Usable, SoundEngine

LEMMA ReturnsKeeps ==
  ASSUME IInv, ~software, NEW s, Usable(s), NEW R, NEW hasFence,
         \A r \in R : Follows(version, engine, r), Returns(R, s, hasFence)
  PROVE  Kept
<1>1. PICK r \in R : /\ engine' = r.e
                     /\ fenced' = IF r.ok /\ hasFence THEN fenced \cup {s} ELSE fenced
  BY DEF Returns
<1>2. fenced' \subseteq sessions
  BY <1>1 DEF IInv, TypeOK, Usable
<1>3. QED
  BY <1>1, <1>2, ReturnKeeps DEF Returns

LEMMA SubmitKeeps == ASSUME IInv, NEW s, Submit(s) PROVE Kept
<1> DEFINE Stream(e) == Finished(RadeonCpSubmitStream(e, "ring", TRUE))
           R == AndThen(RadeonPrepare3D(engine), Stream)
<1>1. ASSUME NEW r \in R
      PROVE  Follows(version, engine, r)
  <2>1. PICK w \in RadeonPrepare3D(engine) : IF w.ok THEN r \in Stream(w.e) ELSE r = w
    BY <1>1 DEF AndThen
  <2>2. Follows(version, engine, w) /\ (w.ok => Ordered(w.e))
    BY PrepareFollows DEF IInv
  <2>3. CASE w.ok
    <3>1. SoundEngine(version, w.e)
      BY <2>2 DEF Follows
    <3>2. Follows(version, w.e, r)
      BY <2>1, <2>2, <2>3, <3>1, SubmitFollows DEF Covered
    <3>3. QED
      BY <2>2, <3>2, FollowsTransitive
  <2>4. QED
    BY <2>1, <2>2, <2>3
<1>2. ~software /\ Usable(s) /\ Returns(R, s, TRUE)
  BY DEF Submit, MaySubmit
<1> HIDE DEF R
<1>3. QED
  BY <1>1, <1>2, ReturnsKeeps

LEMMA DispatchIndirectKeeps ==
  ASSUME IInv, NEW s, NEW flag \in Flags, DispatchIndirect(s, flag)
  PROVE  Kept
<1> DEFINE R == Guarded(s, "ib", flag = "fence")
<1>1. flag = "fence" \/ ~(version < 19)
  BY UsableFacts, EngineAssumption DEF DispatchIndirect
<1>2. ASSUME NEW r \in R
      PROVE  Follows(version, engine, r)
  BY <1>1, UsableFacts, GuardedFollows DEF Covered
<1>3. ~software /\ Usable(s) /\ Returns(R, s, flag = "fence")
  BY DEF DispatchIndirect, MaySubmit
<1> HIDE DEF R
<1>4. QED
  BY <1>2, <1>3, ReturnsKeeps

LEMMA SubmitFenceKeeps == ASSUME IInv, NEW s, SubmitFence(s) PROVE Kept
<1> DEFINE R == Guarded(s, "ring", TRUE)
<1>1. ASSUME NEW r \in R
      PROVE  Follows(version, engine, r)
  BY UsableFacts, GuardedFollows DEF Covered
<1>2. ~software /\ Usable(s) /\ Returns(R, s, TRUE)
  BY DEF SubmitFence, MaySubmit
<1> HIDE DEF R
<1>3. QED
  BY <1>1, <1>2, ReturnsKeeps

LEMMA OpenKeeps == ASSUME IInv, NEW s \in Session, Open(s) PROVE Kept
<1> DEFINE d == [engine EXCEPT !.current = @ \cup {s}]
           C == engine.current \cup {s}
<1>1. C \in SUBSET Session
  BY DEF IInv, TypeOK
<1>2. SoundEngine(version, d) /\ d.accel = engine.accel /\ d.flight = engine.flight /\ d.current = C
  BY <1>1, CurrentSound DEF IInv
<1>3. engine' = d
  BY DEF Open
<1> HIDE DEF d
<1>4. TypeOK'
  BY <1>2, <1>3 DEF IInv, TypeOK, Open, SoundEngine
<1>5. QED
  BY <1>2, <1>3, <1>4 DEF IInv, Open, Kept

LEMMA ReleaseSurfaceKeeps == ASSUME IInv, NEW s, ReleaseSurface(s) PROVE Kept
<1>1. PICK r \in LastFenceWait(s, engine) : engine' = r.e
  BY DEF ReleaseSurface
<1>2. Follows(version, engine, r)
  BY LastFenceWaitFollows DEF IInv
<1>3. fenced' \subseteq sessions
  BY DEF ReleaseSurface, IInv, TypeOK
<1>4. QED
  BY <1>1, <1>2, <1>3, ReturnKeeps DEF ReleaseSurface

LEMMA CloseKeeps == ASSUME IInv, NEW s, Close(s) PROVE Kept
<1>1. PICK e : /\ \/ e = engine
                  \/ \E r \in LastFenceWait(s, engine) : e \in CloseLease(s, r.e)
               /\ engine' = [e EXCEPT !.current = @ \ {s}]
  BY DEF Close
<1>2. /\ SoundEngine(version, e) /\ e.current \subseteq engine.current
      /\ engine.accel = "UNSAFE" => e.accel = "UNSAFE"
  <2>1. CASE e = engine
    BY <2>1 DEF IInv
  <2>2. ASSUME NEW r \in LastFenceWait(s, engine), e \in CloseLease(s, r.e)
        PROVE  <1>2!1 /\ <1>2!2
    <3>1. Follows(version, engine, r)
      BY LastFenceWaitFollows DEF IInv
    <3>2. SoundEngine(version, r.e)
      BY <3>1 DEF Follows
    <3>3. SoundEngine(version, e) /\ e.current = r.e.current /\ e.accel = r.e.accel
      BY <2>2, <3>2, CloseLeaseSound
    <3>4. QED
      BY <3>1, <3>3 DEF Follows
  <2>3. QED
    BY <1>1, <2>1, <2>2
<1> DEFINE d == [e EXCEPT !.current = e.current \ {s}]
<1>3. engine' = d
  BY <1>1
<1>4. e.current \ {s} \in SUBSET Session
  BY <1>2 DEF SoundEngine, Board
<1>5. SoundEngine(version, d) /\ d.accel = e.accel /\ d.current = e.current \ {s}
  BY <1>2, <1>4, CurrentSound
<1> HIDE DEF d
<1>6. TypeOK'
  BY <1>2, <1>3, <1>5 DEF IInv, TypeOK, Close, SoundEngine
<1>7. QED
  BY <1>2, <1>3, <1>5, <1>6 DEF IInv, Close, Kept

(* A step that replaces the engine alone.                                   *)
LEMMA EngineKeeps ==
  ASSUME IInv, NEW d, SoundEngine(version, d), d.current \subseteq engine.current,
         engine.accel = "UNSAFE" => d.accel = "UNSAFE",
         version < 19 /\ software => d.flight = {},
         engine' = d, UNCHANGED <<version, sessions, fenced, software>>
  PROVE  Kept
<1>1. TypeOK'
  BY DEF IInv, TypeOK, SoundEngine
<1>2. QED
  BY <1>1 DEF IInv, Kept

LEMMA AcquireLeaseKeeps == ASSUME IInv, NEW s, AcquireLease(s) PROVE Kept
<1>1. PICK r \in RadeonPrepare3D(engine) :
        engine' = IF r.ok /\ r.e.cp = "ready" THEN Granted(s, r.e) ELSE r.e
  BY DEF AcquireLease
<1>2. Follows(version, engine, r) /\ (r.ok => Ordered(r.e)) /\ SoundEngine(version, r.e)
  BY PrepareFollows DEF IInv, Follows
<1>3. s \in Session /\ ~software /\ ~(version < 19) /\ engine.accel # "UNSAFE"
  BY UsableFacts DEF AcquireLease, MaySubmit
<1>4. CASE r.ok /\ r.e.cp = "ready"
  <2> DEFINE d == Granted(s, r.e)
  <2>1. SoundEngine(version, d) /\ d.current = r.e.current
    BY <1>2, <1>3, <1>4, GrantedSound
  <2>2. engine' = d
    BY <1>1, <1>4
  <2> HIDE DEF d
  <2>3. d.current \subseteq engine.current
    BY <1>2, <2>1 DEF Follows
  <2>4. QED
    BY <1>3, <2>1, <2>2, <2>3, EngineKeeps DEF AcquireLease
<1>5. CASE engine' = r.e
  BY <1>2, <1>3, <1>5, EngineKeeps DEF AcquireLease, Follows
<1>6. QED
  BY <1>1, <1>4, <1>5

LEMMA ReleaseLeaseKeeps == ASSUME IInv, NEW s, ReleaseLease(s) PROVE Kept
<1> DEFINE submitted == ~engine.sync
           e == [engine EXCEPT !.flight = {}]
<1>1. /\ s \in Session /\ ~software /\ ~(version < 19) /\ engine.accel # "UNSAFE"
      /\ engine.lease /\ "2d" \notin engine.flight /\ SoundEngine(version, engine)
  BY UsableFacts DEF ReleaseLease, SoundEngine
<1>2. PICK r : /\ \/ r = Outcome(TRUE, engine)
                  \/ r = Outcome(TRUE, e)
                  \/ \E q \in RecoverEngine(engine) : r = Outcome(FALSE, q.e)
               /\ engine' = Rearmed(Outcome(r.ok, RadeonCpAdoptFence(r.e, submitted)))
  BY DEF ReleaseLease
<1>3. /\ r.ok \in BOOLEAN /\ SoundEngine(version, r.e) /\ "2d" \notin r.e.flight
      /\ r.e.current \subseteq engine.current
  <2>1. CASE r = Outcome(TRUE, engine)
    <3>1. r.ok = TRUE /\ r.e = engine
      BY <2>1, OutcomeFields
    <3>2. QED
      BY <1>1, <3>1
  <2>2. CASE r = Outcome(TRUE, e)
    <3>1. Lessened(engine, e) /\ e.flight = {} /\ e.current = engine.current
      BY <1>1 DEF Lessened, SoundEngine, Board
    <3> HIDE DEF e
    <3>2. r.ok = TRUE /\ r.e = e
      BY <2>2, OutcomeFields
    <3>3. QED
      BY <1>1, <3>1, <3>2, LessenedSound
  <2>3. ASSUME NEW q \in RecoverEngine(engine), r = Outcome(FALSE, q.e)
        PROVE  <1>3
    <3>1. r.ok = FALSE /\ r.e = q.e
      BY <2>3, OutcomeFields
    <3>2. Follows(version, engine, q) /\ q.e.lease = engine.lease
      BY <1>1, RecoverFollows
    <3>3. QED
      BY <1>1, <3>1, <3>2 DEF Follows, SoundEngine
  <2>4. QED
    BY <1>2, <2>1, <2>2, <2>3
<1>4. submitted \in BOOLEAN
  OBVIOUS
<1> HIDE DEF submitted
<1> DEFINE d == Rearmed(Outcome(r.ok, RadeonCpAdoptFence(r.e, submitted)))
<1>5. SoundEngine(version, d) /\ d.current = r.e.current
  BY <1>1, <1>3, <1>4, RearmedSound
<1>6. engine' = d
  BY <1>2
<1> HIDE DEF d
<1>7. QED
  BY <1>1, <1>3, <1>5, <1>6, EngineKeeps DEF ReleaseLease

LEMMA HeartbeatLeaseKeeps == ASSUME IInv, NEW s, HeartbeatLease(s) PROVE Kept
<1> DEFINE d == [engine EXCEPT !.stale = FALSE]
<1>1. /\ Eased(engine, d) /\ d.current = engine.current
      /\ d.flight = engine.flight /\ d.accel = engine.accel
  BY DEF IInv, Eased, SoundEngine, Board
<1>2. engine' = d /\ UNCHANGED <<version, sessions, fenced, software>>
  BY DEF HeartbeatLease
<1> HIDE DEF d
<1>3. SoundEngine(version, d)
  BY <1>1, EasedSound DEF IInv
<1>4. QED
  BY <1>1, <1>2, <1>3, EngineKeeps DEF IInv

LEMMA ExpireKeeps == ASSUME IInv, Expire PROVE Kept
<1> DEFINE d == [engine EXCEPT !.stale = TRUE]
<1>1. /\ Eased(engine, d) /\ d.current = engine.current
      /\ d.flight = engine.flight /\ d.accel = engine.accel
  BY DEF IInv, Eased, SoundEngine, Board
<1>2. engine' = d /\ UNCHANGED <<version, sessions, fenced, software>>
  BY DEF Expire
<1> HIDE DEF d
<1>3. SoundEngine(version, d)
  BY <1>1, EasedSound DEF IInv
<1>4. QED
  BY <1>1, <1>2, <1>3, EngineKeeps DEF IInv

LEMMA PpcSubmitKeeps == ASSUME IInv, PpcSubmit PROVE Kept
<1> DEFINE d == [engine EXCEPT !.sync = FALSE, !.flight = @ \cup {"ppc"}]
<1>1. ~(version < 19) /\ "2d" \notin engine.flight /\ SoundEngine(version, engine)
  BY DEF IInv, PpcSubmit, SoundEngine, Early
<1>2. /\ d \in Board /\ d.current = engine.current /\ d.accel = engine.accel
      /\ d.tried = engine.tried /\ d.cp = engine.cp /\ "2d" \notin d.flight
  BY <1>1 DEF SoundEngine, Board, Work, Covered
<1>3. engine' = d /\ UNCHANGED <<version, sessions, fenced, software>>
  BY DEF PpcSubmit
<1> HIDE DEF d
<1>4. SoundEngine(version, d)
  BY <1>1, <1>2 DEF SoundEngine
<1>5. QED
  BY <1>1, <1>2, <1>3, <1>4, EngineKeeps

LEMMA DoneKeeps == ASSUME IInv, NEW k \in Work, Done(k) PROVE Kept
<1> DEFINE d == [engine EXCEPT !.flight = @ \ {k}]
<1>1. Lessened(engine, d)
  BY DEF IInv, Lessened, SoundEngine, Board
<1>2. engine' = d /\ UNCHANGED <<version, sessions, fenced, software>>
  BY DEF Done
<1> HIDE DEF d
<1>3. SoundEngine(version, d)
  BY <1>1, LessenedSound DEF IInv
<1>4. d.flight \subseteq engine.flight
  BY <1>1 DEF Lessened
<1>5. version < 19 /\ software => d.flight = {}
  BY <1>4 DEF IInv
<1>6. d.current = engine.current /\ d.accel = engine.accel
  BY <1>1 DEF Lessened
<1>7. QED
  BY <1>2, <1>3, <1>5, <1>6, EngineKeeps

(* A callback that may leave the drawing to the CPU.                        *)
LEMMA CallbackKeeps ==
  ASSUME IInv, NEW r, Follows(version, engine, r), NEW draws \in BOOLEAN,
         version < 19 /\ draws => r.e.flight = {},
         engine' = r.e, software' = draws, UNCHANGED <<version, sessions, fenced>>
  PROVE  Kept
<1>1. TypeOK'
  BY DEF IInv, TypeOK, Follows, SoundEngine
<1>2. QED
  BY <1>1 DEF IInv, Kept, Follows

LEMMA FillRectKeeps == ASSUME IInv, FillRect PROVE Kept
<1> DEFINE Drawn(e) == {Outcome(TRUE, Programmed(e))}
           NoFifo(e) == Either(e, e)
           ready == AndThen(PrepareMmioEngine(engine), NoFifo)
           drawn == AndThen(ready, Drawn)
<1>1. PICK r \in drawn :
        \/ r.ok /\ engine' = r.e /\ UNCHANGED software
        \/ \E q \in RecoverEngine(r.e) : ~r.ok /\ engine' = q.e /\ software' = q.ok
  BY DEF FillRect, Programmed
<1>2. PICK u \in ready : (u.ok /\ r \in Drawn(u.e)) \/ (~u.ok /\ r = u)
  <2> HIDE DEF ready
  <2>1. QED
    BY DEF AndThen
<1>3. PICK w \in PrepareMmioEngine(engine) : IF w.ok THEN u \in NoFifo(w.e) ELSE u = w
  BY DEF AndThen
<1>4. /\ Follows(version, engine, w) /\ (w.ok => Free(version, w.e))
      /\ ~software /\ UNCHANGED <<version, sessions, fenced>>
  BY PrepareMmioFollows DEF IInv, FillRect
<1>5. Follows(version, engine, u) /\ (u.ok => Free(version, u.e))
  <2>1. CASE w.ok
    <3>1. u = Outcome(FALSE, w.e) \/ u = Outcome(TRUE, w.e)
      BY <1>3, <2>1 DEF Either
    <3>2. u.ok \in BOOLEAN /\ u.e = w.e
      <4>1. CASE u = Outcome(FALSE, w.e)
        <5>1. u.ok = FALSE /\ u.e = w.e
          BY <4>1, OutcomeFields
        <5>2. QED
          BY <5>1
      <4>2. CASE u = Outcome(TRUE, w.e)
        <5>1. u.ok = TRUE /\ u.e = w.e
          BY <4>2, OutcomeFields
        <5>2. QED
          BY <5>1
      <4>3. QED
        BY <3>1, <4>1, <4>2
    <3>3. QED
      BY <1>4, <2>1, <3>2 DEF Follows
  <2>2. CASE ~w.ok
    BY <1>3, <1>4, <2>2
  <2>3. QED
    BY <2>1, <2>2
<1>6. Follows(version, engine, r)
  <2>1. CASE u.ok /\ r \in Drawn(u.e)
    <3> DEFINE d == Programmed(u.e)
    <3>1. /\ SoundEngine(version, d) /\ d.current = u.e.current
          /\ d.accel = u.e.accel /\ ~d.lease
      <4>1. SoundEngine(version, u.e) /\ Free(version, u.e)
        BY <1>5, <2>1 DEF Follows
      <4>2. QED
        BY <4>1, DrawnSound
    <3>2. r.ok = TRUE /\ r.e = d
      BY <2>1, OutcomeFields
    <3> HIDE DEF d
    <3>3. QED
      BY <1>5, <3>1, <3>2 DEF Follows
  <2>2. QED
    BY <1>2, <1>5, <2>1
<1>7. CASE r.ok /\ engine' = r.e /\ UNCHANGED software
  <2>1. software' = FALSE
    BY <1>4, <1>7 DEF IInv, TypeOK
  <2>2. QED
    BY <1>4, <1>6, <1>7, <2>1, CallbackKeeps
<1>8. ASSUME NEW q \in RecoverEngine(r.e), engine' = q.e, software' = q.ok
      PROVE  Kept
  <2>1. SoundEngine(version, r.e)
    BY <1>6 DEF Follows
  <2>2. Follows(version, r.e, q) /\ (q.ok => q.e.flight = {})
    BY <2>1, RecoverFollows
  <2>3. Follows(version, engine, q) /\ q.ok \in BOOLEAN
    BY <1>6, <2>2, FollowsTransitive DEF Follows
  <2>4. QED
    BY <1>4, <1>8, <2>2, <2>3, CallbackKeeps
<1>9. QED
  BY <1>1, <1>7, <1>8

LEMMA SoftwareDrawKeeps == ASSUME IInv, SoftwareDraw PROVE Kept
<1>1. PICK r \in PrepareSoftwareFallback(engine) : engine' = r.e /\ software' = r.ok
  BY DEF SoftwareDraw
<1>2. Follows(version, engine, r) /\ (r.ok /\ version < 19 => r.e.flight = {})
  BY SoftwareFallbackFollows DEF IInv
<1>3. r.ok \in BOOLEAN
  BY <1>2 DEF Follows
<1>4. QED
  BY <1>1, <1>2, <1>3, CallbackKeeps DEF SoftwareDraw

LEMMA WaitBlitterKeeps == ASSUME IInv, WaitBlitter PROVE Kept
<1>1. PICK r \in LeaseBlocks(engine) :
        engine' \in IF r.ok THEN {r.e} ELSE {q.e : q \in SynchronizeEngine(r.e)}
  BY DEF WaitBlitter
<1>2. Follows(version, engine, r) /\ SoundEngine(version, r.e)
  BY LeaseBlocksFollows DEF IInv, Follows
<1>3. CASE engine' = r.e
  BY <1>2, <1>3, ReturnKeeps DEF WaitBlitter, IInv, TypeOK
<1>4. ASSUME NEW q \in SynchronizeEngine(r.e), engine' = q.e
      PROVE  Kept
  <2>1. Follows(version, r.e, q)
    BY <1>2, SynchronizeFollows
  <2>2. Follows(version, engine, q)
    BY <1>2, <2>1, FollowsTransitive
  <2>3. QED
    BY <1>4, <2>2, ReturnKeeps DEF WaitBlitter, IInv, TypeOK
<1>5. QED
  BY <1>1, <1>3, <1>4
------------------------------------------------------------------------------
LEMMA NextKeeps == IInv /\ [Next]_vars => Kept
<1> SUFFICES ASSUME IInv, [Next]_vars PROVE Kept
  OBVIOUS
<1>1. ASSUME NEW s \in Session,
             \/ Open(s) \/ Submit(s) \/ SubmitFence(s) \/ ReleaseSurface(s) \/ Close(s)
             \/ AcquireLease(s) \/ ReleaseLease(s) \/ HeartbeatLease(s)
             \/ \E flag \in Flags : DispatchIndirect(s, flag)
      PROVE  Kept
  BY <1>1, OpenKeeps, SubmitKeeps, SubmitFenceKeeps, ReleaseSurfaceKeeps, CloseKeeps,
     AcquireLeaseKeeps, ReleaseLeaseKeeps, HeartbeatLeaseKeeps, DispatchIndirectKeeps
<1>2. CASE Expire \/ PpcSubmit
  BY <1>2, ExpireKeeps, PpcSubmitKeeps
<1>3. CASE FillRect \/ SoftwareDraw \/ WaitBlitter
  BY <1>3, FillRectKeeps, SoftwareDrawKeeps, WaitBlitterKeeps
<1>4. CASE SoftwareDone
  BY <1>4 DEF SoftwareDone, IInv, TypeOK, Kept
<1>5. ASSUME NEW k \in Work, Done(k)
      PROVE  Kept
  BY <1>5, DoneKeeps
<1>6. CASE UNCHANGED vars
  BY <1>6 DEF vars, IInv, TypeOK, Kept
<1>7. QED
  BY <1>1, <1>2, <1>3, <1>4, <1>5, <1>6 DEF Next

(* The inductive invariant of the arbitration, whatever the sessions, the   *)
(* versions they negotiated and the failures of the hardware.               *)
THEOREM EngineInvariant == Spec => []IInv
<1>1. IInv /\ [Next]_vars => IInv'
  BY NextKeeps DEF Kept
<1>2. QED
  BY InitInv, <1>1, PTL DEF Spec

(* AccelRecoveryTried bars a recovery only while the command processor is   *)
(* off, and the holder of a lease never finds 2D work in the engine,        *)
(* whatever RecoverEngine did in between.                                   *)
THEOREM EngineStaysKept == Spec => []EngineKept
<1>1. IInv => EngineKept
  BY DEF IInv, SoundEngine, EngineKept, TriedMeansOff, LeaseQuiet
<1>2. QED
  BY EngineInvariant, <1>1, PTL

(* No recovery, release or grant brings an engine back that was given up.   *)
THEOREM UnsafeIsFinal == Spec => UnsafeStays
<1>1. IInv /\ [Next]_vars => [engine.accel = "UNSAFE" => engine'.accel = "UNSAFE"]_vars
  BY NextKeeps DEF Kept
<1>2. QED
  BY EngineInvariant, <1>1, PTL DEF Spec, UnsafeStays

(* Up to interface 18 no 2D state is restored under the fetch of an         *)
(* indirect buffer (RestoreEngineState, RadeonIndirectFetchGuards).         *)
THEOREM FetchStaysGuarded == Spec => []FetchGuarded
<1>1. IInv => FetchGuarded
  BY DEF IInv, SoundEngine, Early, FetchGuarded, Fencing
<1>2. QED
  BY EngineInvariant, <1>1, PTL

(* Up to interface 18 the one tag AccelPending stands for all unfinished    *)
(* work of both engines (SynchronizeEngine).                                *)
THEOREM TagAlwaysCovers == Spec => []TagCoversWork
<1>1. IInv => TagCoversWork
  BY DEF IInv, SoundEngine, Early, TagCoversWork, Fencing, Covered
<1>2. QED
  BY EngineInvariant, <1>1, PTL

(* Up to interface 18 the CPU draws only while neither engine works         *)
(* (PrepareSoftwareFallback).                                               *)
THEOREM SoftwareStaysAlone == Spec => []SoftwareAlone
<1>1. IInv => SoftwareAlone
  BY DEF IInv, SoftwareAlone, Fencing
<1>2. QED
  BY EngineInvariant, <1>1, PTL
================================================================================
