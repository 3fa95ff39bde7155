------------------------------- MODULE Engine --------------------------------
(***************************************************************************)
(* Who has the drawing engine: the 2D callbacks of radeon_accel.c, which   *)
(* write its registers directly or let the CPU draw, the 3D submissions of *)
(* radeon3d_service.c, which go through the command processor, and the     *)
(* PowerPC holder of an engine lease, which writes the ring itself.        *)
(*                                                                         *)
(* Calls and callbacks hold the board lock and are one step each, but for  *)
(* software drawing, which goes on while the engine, the clock and callers *)
(* that need no board lock go on.  A function of the driver that waits for *)
(* the hardware is an operator from the state it is called in to the set   *)
(* of its outcomes, what it returns and the state it leaves.  Sessions and *)
(* locks are in Service, fence numbers in CpFence, the ring in CpRing.     *)
(***************************************************************************)
EXTENDS Integers

CONSTANTS
  Session,     \* the memory a session structure can be allocated in
  NoSession,   \* the null pointer
  Versions,    \* the interface versions that sessions may negotiate
  Flags        \* flags of Radeon3DDispatchIndirect: "fence" or "nofence"

ASSUME EngineAssumption ==
  /\ NoSession \notin Session
  /\ Versions \subseteq Nat
  /\ Flags \subseteq {"fence", "nofence"}

VARIABLES
  version,     \* the version that the sessions use, one for all of them
  engine,      \* driver and hardware state under the board lock, see Board
  sessions,    \* the listed sessions
  fenced,      \* those whose LastFence is not 0
  software     \* the CPU is drawing into board memory

vars == <<version, engine, sessions, fenced, software>>

(* Work the engines have not finished: 2D operations, fenced streams and    *)
(* indirect buffers, indirect buffers submitted without a fence after the   *)
(* last fence, and what the lease holder submitted.                         *)
Work == {"2d", "ring", "ib", "bare", "ppc"}
Covered == {"ring", "ib"}

Board ==
  [accel    : {"OFF", "READY", "FALLBACK", "UNSAFE"},  \* AccelState
   pending  : {"NONE", "MMIO", "CP"},                  \* AccelPending
   restore  : BOOLEAN,           \* Need2DRestore
   tried    : BOOLEAN,           \* AccelRecoveryTried
   cp       : {"none", "off", "ready"},  \* CpState, and its Ready
   fence    : BOOLEAN,           \* PendingFence is not 0
   unfenced : BOOLEAN,           \* PendingUnfenced is not 0
   sync     : BOOLEAN,           \* WritePointer is where CP_RB_WPTR is
   lease    : BOOLEAN,           \* LeaseActive
   holder   : Session \cup {NoSession},  \* LeaseDevice
   stale    : BOOLEAN,           \* LeaseGrantTicks is older than the bound
   current  : SUBSET Session,    \* sessions with the current generation
   host     : BOOLEAN,           \* DP_DATATYPE has HOST_BIG_ENDIAN_EN
   flight   : SUBSET Work]       \* unfinished work

Init ==
  /\ \E start \in {<<"OFF", "none">>, <<"READY", "none">>, <<"READY", "ready">>} :
       engine = [accel |-> start[1], pending |-> "NONE", restore |-> FALSE,
                 tried |-> FALSE, cp |-> start[2], fence |-> FALSE,
                 unfenced |-> FALSE, sync |-> TRUE, lease |-> FALSE,
                 holder |-> NoSession, stale |-> FALSE, current |-> {},
                 host |-> TRUE, flight |-> {}]
  /\ sessions = {} /\ fenced = {} /\ software = FALSE /\ version \in Versions
------------------------------------------------------------------------------
Outcome(ok, e) == [ok |-> ok, e |-> e]
Either(e, done) == {Outcome(FALSE, e), Outcome(TRUE, done)}

(* a && F and a || F for a call with the outcomes S followed by F. *)
AndThen(S, F(_)) == UNION {IF r.ok THEN F(r.e) ELSE {r} : r \in S}
OrElse(S, F(_)) == UNION {IF r.ok THEN {r} ELSE F(r.e) : r \in S}

(* RadeonCpAbort: the service is invalidated and the command processor off. *)
RadeonCpAbort(e) ==
  IF e.cp = "none" THEN e
  ELSE [e EXCEPT !.cp = "off", !.fence = FALSE, !.current = {}]

(* RestoreEngineState writes the 2D baseline. *)
RestoreEngineState(e) == [e EXCEPT !.host = TRUE]

(* What RecoverEngine leaves: the engine still stuck, with the engine but   *)
(* not the command processor, or with both, the ring starting anew.         *)
Aborted(e) ==
  [RadeonCpAbort(e) EXCEPT !.tried = TRUE, !.pending = "NONE", !.restore = FALSE]
Reset(e) == [RestoreEngineState(Aborted(e)) EXCEPT !.flight = {}]
Stuck(e) == [RestoreEngineState(Aborted(e)) EXCEPT !.accel = "UNSAFE"]
Fallback(e) == [Reset(e) EXCEPT !.accel = "FALLBACK"]

Recovered(e) ==
  [Reset(e) EXCEPT !.accel = "READY", !.cp = "ready", !.unfenced = FALSE, !.sync = TRUE,
                   !.tried = FALSE]

\* Mutant: a recovery that failed is tried again.
RecoverEngineAgain(e) ==
  {Outcome(FALSE, Stuck(e)), Outcome(TRUE, Fallback(e))} \cup
    (IF e.cp = "none" THEN {} ELSE {Outcome(TRUE, Recovered(e))})

(* RecoverEngine, tried once until it succeeds altogether.                  *)
RecoverEngine(e) ==
  IF e.tried THEN {Outcome(FALSE, e)}
  ELSE {Outcome(FALSE, Stuck(e)), Outcome(TRUE, Fallback(e))} \cup
       (IF e.cp = "none" THEN {} ELSE {Outcome(TRUE, Recovered(e))})

(* RadeonCpWait: what the pending fence covers is done, or the wait fails.  *)
RadeonCpWait(e) ==
  IF e.cp # "ready" THEN {Outcome(FALSE, e)}
  ELSE IF ~e.fence THEN {Outcome(TRUE, e)}
  ELSE Either(e, [e EXCEPT !.flight = @ \ Covered, !.fence = FALSE, !.unfenced = FALSE])

(* RadeonCpWaitIdle, and the flush of WaitIdleAndFlush: all is done.        *)
WaitGuiIdle(e) == Either(e, [e EXCEPT !.flight = {}])

RadeonCpWaitDrained(e) ==
  IF e.cp # "ready" THEN {Outcome(FALSE, e)}
  ELSE IF ~e.unfenced THEN {Outcome(TRUE, e)}
  ELSE Either(e, [e EXCEPT !.flight = {}, !.unfenced = FALSE])

\* Mutant: the wait for fenced work is left out.
SynchronizeEngineNoWait(e) ==
  {Outcome(e.accel # "UNSAFE",
     IF e.pending = "NONE" THEN e
     ELSE [RestoreEngineState(e) EXCEPT !.pending = "NONE", !.restore = FALSE])}

(* SynchronizeEngine: wait for what AccelPending names; restore the 2D      *)
(* baseline after CP work; recover where the wait fails.                    *)
SynchronizeEngine(e) ==
  LET Restored(d) == {Outcome(TRUE, RestoreEngineState(d))}
      Cleared(d) == {Outcome(TRUE, [d EXCEPT !.pending = "NONE", !.restore = FALSE])}
      waited == IF e.pending = "CP"
                THEN AndThen(AndThen(RadeonCpWait(e), RadeonCpWaitDrained), Restored)
                ELSE WaitGuiIdle(e) IN
  IF e.pending = "NONE" THEN {Outcome(e.accel # "UNSAFE", e)}
  ELSE OrElse(AndThen(waited, Cleared), RecoverEngine)

\* Mutant: pending 2D work counts as ordered by the ring, too.
RadeonPrepare3DAnyPending(e) ==
  IF e.accel = "READY" /\ e.pending # "NONE" THEN {Outcome(TRUE, e)}
  ELSE SynchronizeEngine(e)

(* RadeonPrepare3D: behind CP work the ring keeps the order. *)
RadeonPrepare3D(e) ==
  IF e.accel = "READY" /\ e.pending = "CP" THEN {Outcome(TRUE, e)}
  ELSE SynchronizeEngine(e)

RadeonMark3DSubmitted(e) == [e EXCEPT !.restore = TRUE, !.pending = "CP"]

(* RadeonCpAdoptFence; the holder submitted work exactly when the write     *)
(* pointers differ.                                                         *)
RadeonCpAdoptFence(e, lastFence) ==
  [e EXCEPT !.fence = FALSE, !.unfenced = FALSE, !.sync = @ \/ lastFence]

LeaseEnds(e) == [e EXCEPT !.lease = FALSE, !.holder = NoSession, !.stale = FALSE]

(* LeaseBlocks: TRUE while an unexpired lease blocks the engine; an expired *)
(* one is reclaimed.                                                        *)
LeaseBlocks(e) ==
  IF ~e.lease THEN {Outcome(FALSE, e)}
  ELSE IF ~e.stale THEN {Outcome(TRUE, e)}
  ELSE {Outcome(FALSE, r.e) :
          r \in RecoverEngine(RadeonCpAdoptFence(LeaseEnds(e), FALSE))}

\* Mutant: the lease is not looked at.
PrepareMmioEngineUnleased(e) ==
  IF e.accel \notin {"READY", "FALLBACK"} THEN {Outcome(FALSE, e)}
  ELSE IF e.restore THEN SynchronizeEngine(e)
  ELSE {Outcome(TRUE, e)}

PrepareMmioEngine(e) ==
  LET Ready(d) == IF d.restore THEN SynchronizeEngine(d) ELSE {Outcome(TRUE, d)} IN
  IF e.accel # "READY" THEN {Outcome(FALSE, e)}
  ELSE UNION {IF r.ok THEN {Outcome(FALSE, r.e)} ELSE Ready(r.e) : r \in LeaseBlocks(e)}

(* PrepareSoftwareFallback for a surface in board memory. *)
PrepareSoftwareFallback(e) ==
  LET Unless(d, ok) == {Outcome(ok /\ d.accel # "UNSAFE", d)} IN
  UNION {IF r.ok THEN Unless(r.e, TRUE)
         ELSE UNION {Unless(q.e, q.ok) : q \in SynchronizeEngine(r.e)} :
           r \in LeaseBlocks(e)}

(* RadeonCpSubmitStream as CpFence describes it: a fence covers what was    *)
(* submitted without one before.                                            *)
RadeonCpSubmitStream(e, kind, addFence) ==
  LET covers == IF "bare" \in e.flight THEN {"ib"} ELSE {} IN
  IF e.cp # "ready" THEN {Outcome(FALSE, e)}
  ELSE Either(e,
    IF addFence
    THEN [e EXCEPT !.fence = TRUE, !.unfenced = FALSE,
                   !.flight = (@ \ {"bare"}) \cup covers \cup {kind}]
    ELSE [e EXCEPT !.unfenced = TRUE, !.flight = @ \cup {"bare"}])

\* Mutant: the guard is withheld while fenced work is pending, too.
FetchGuardsWithheld(e) ==
  IF e.unfenced \/ e.fence THEN e ELSE [e EXCEPT !.host = FALSE]

(* The guard before a dispatch: the host-endian bit is cleared unless       *)
(* fence-less work is pending.                                              *)
FetchGuards(e) == IF e.unfenced THEN e ELSE [e EXCEPT !.host = FALSE]

(* RadeonLeaseGrantGuards. *)
RadeonLeaseGrantGuards(e) == IF e.cp = "ready" THEN [e EXCEPT !.host = FALSE] ELSE e
------------------------------------------------------------------------------
(* IsUsableDevice, the test that LockServiceBoard makes for every call.     *)
Usable(s) == s \in sessions /\ s \in engine.current /\ engine.cp = "ready"

(* The calls that submit are refused (stage 122) while a lease is active.   *)
MaySubmit(s) == ~software /\ Usable(s) /\ ~engine.lease

(* The second look of DispatchIndirect and SubmitFence, after Prepare3D.    *)
Recheck(s, e) == s \in e.current /\ e.cp = "ready"

(* The end of a submission, with the outcomes R of RadeonCpSubmitStream:    *)
(* marked as submitted, or recovered.                                       *)
Finished(R) ==
  UNION {IF r.ok THEN {Outcome(TRUE, RadeonMark3DSubmitted(r.e))}
         ELSE {Outcome(FALSE, q.e) : q \in RecoverEngine(r.e)} : r \in R}

Returns(R, s, hasFence) ==
  /\ \E r \in R : /\ engine' = r.e
                 /\ fenced' = IF r.ok /\ hasFence THEN fenced \cup {s} ELSE fenced
  /\ UNCHANGED <<version, sessions, software>>

Open(s) ==
  /\ s \notin sessions /\ engine.cp = "ready"
  /\ sessions' = sessions \cup {s}
  /\ engine' = [engine EXCEPT !.current = @ \cup {s}]
  /\ UNCHANGED <<version, fenced, software>>

(* Radeon3DSubmit: Prepare3D is not followed by a second look.              *)
Submit(s) ==
  LET Stream(e) == Finished(RadeonCpSubmitStream(e, "ring", TRUE)) IN
  MaySubmit(s) /\ Returns(AndThen(RadeonPrepare3D(engine), Stream), s, TRUE)

(* DispatchIndirect and SubmitFence from Prepare3D on.                      *)
Guarded(s, kind, addFence) ==
  LET Stream(e) ==
        IF Recheck(s, e)
        THEN Finished(RadeonCpSubmitStream(FetchGuards(e), kind, addFence))
        ELSE {Outcome(FALSE, e)} IN
  AndThen(RadeonPrepare3D(engine), Stream)

DispatchIndirect(s, flag) ==
  /\ MaySubmit(s) /\ version >= 18 /\ (flag = "nofence" => version >= 19)
  /\ Returns(Guarded(s, "ib", flag = "fence"), s, flag = "fence")

SubmitFence(s) ==
  /\ MaySubmit(s) /\ version >= 19
  /\ Returns(Guarded(s, "ring", TRUE), s, TRUE)

(* Radeon3DReleaseSurface and Radeon3DClose first wait for the session's    *)
(* last fence, which is the pending one or an older one.                    *)
LastFenceWait(s, e) ==
  LET waited == {Outcome(FALSE, e), Outcome(TRUE, e),
                 Outcome(TRUE, [e EXCEPT !.flight = @ \ Covered, !.fence = FALSE])} IN
  IF s \notin fenced THEN {Outcome(TRUE, e)}
  ELSE OrElse(waited, RecoverEngine)

ReleaseSurface(s) ==
  /\ ~software /\ Usable(s)
  /\ \E r \in LastFenceWait(s, engine) : engine' = r.e
  /\ fenced' = fenced \ {s}
  /\ UNCHANGED <<version, sessions, software>>

(* Radeon3DClose: the fence and the lease of a usable session, then its     *)
(* structure is freed.  A holder's failed wait for idle is ignored.         *)
CloseLease(s, e) ==
  IF e.lease /\ e.holder = s
  THEN {RadeonMark3DSubmitted(RadeonCpAdoptFence(r.e, FALSE)) :
          r \in IF e.cp = "ready" THEN WaitGuiIdle(LeaseEnds(e))
                ELSE {Outcome(FALSE, LeaseEnds(e))}}
  ELSE {e}

\* Mutant: the fence of a session outlives it.
CloseKeepsFence(s) ==
  /\ s \in sessions /\ ~software /\ ~Usable(s)
  /\ sessions' = sessions \ {s} /\ UNCHANGED <<version, engine, fenced, software>>

Close(s) ==
  /\ s \in sessions /\ ~software
  /\ \E e \in IF Usable(s)
               THEN UNION {CloseLease(s, r.e) : r \in LastFenceWait(s, engine)}
               ELSE {engine} :
       engine' = [e EXCEPT !.current = @ \ {s}]
  /\ sessions' = sessions \ {s} /\ fenced' = fenced \ {s}
  /\ UNCHANGED <<version, software>>
------------------------------------------------------------------------------
(* The lease of interface 20.                                               *)

Granted(s, e) ==
  [RadeonLeaseGrantGuards(e) EXCEPT
     !.lease = TRUE, !.holder = s, !.stale = FALSE, !.accel = "FALLBACK"]

(* Prepare3D is not followed by a second look at the session.               *)
AcquireLease(s) ==
  /\ MaySubmit(s) /\ version >= 20
  /\ \E r \in RadeonPrepare3D(engine) :
       engine' = IF r.ok /\ r.e.cp = "ready" THEN Granted(s, r.e) ELSE r.e
  /\ UNCHANGED <<version, sessions, fenced, software>>

(* ReleaseLease after the wait for the holder's last fence with outcome r.  *)
Rearmed(r) ==
  LET e == RadeonMark3DSubmitted(LeaseEnds(r.e)) IN
  IF r.ok /\ e.accel = "FALLBACK" THEN [e EXCEPT !.accel = "READY"] ELSE e

(* The holder passes its last fence, or 0 where it submitted nothing.       *)
ReleaseLease(s) ==
  LET submitted == ~engine.sync
      waited == IF ~submitted THEN {Outcome(TRUE, engine)}
                ELSE {Outcome(TRUE, [engine EXCEPT !.flight = {}])} \cup
                     {Outcome(FALSE, r.e) : r \in RecoverEngine(engine)} IN
  /\ ~software /\ Usable(s) /\ version >= 20
  /\ engine.lease /\ engine.holder = s
  /\ \E r \in waited :
       engine' = Rearmed(Outcome(r.ok, RadeonCpAdoptFence(r.e, submitted)))
  /\ UNCHANGED <<version, sessions, fenced, software>>

(* HeartbeatLease holds ServiceLock only. *)
HeartbeatLease(s) ==
  /\ Usable(s) /\ engine.lease /\ engine.holder = s
  /\ engine' = [engine EXCEPT !.stale = FALSE]
  /\ UNCHANGED <<version, sessions, fenced, software>>

(* Five seconds have passed since the grant or the last heartbeat.          *)
Expire ==
  /\ engine.lease /\ ~engine.stale
  /\ engine' = [engine EXCEPT !.stale = TRUE]
  /\ UNCHANGED <<version, sessions, fenced, software>>

(* The holder appends to the ring and writes CP_RB_WPTR.                    *)
PpcSubmit ==
  /\ engine.lease /\ engine.cp = "ready"
  /\ engine' = [engine EXCEPT !.sync = FALSE, !.flight = @ \cup {"ppc"}]
  /\ UNCHANGED <<version, sessions, fenced, software>>
------------------------------------------------------------------------------
(* The 2D callbacks.                                                        *)

(* FillRect of a hardware surface: the engine draws, or the engine is       *)
(* recovered and the CPU draws where that succeeds.                         *)
FillRect ==
  LET Drawn(e) == {Outcome(TRUE, [e EXCEPT !.pending = "MMIO", !.flight = @ \cup {"2d"}])}
      NoFifo(e) == Either(e, e)     \* WaitFifo may time out
      drawn == AndThen(AndThen(PrepareMmioEngine(engine), NoFifo), Drawn) IN
  /\ ~software /\ engine.accel = "READY"
  /\ \/ \E r \in drawn : r.ok /\ engine' = r.e /\ UNCHANGED software
     \/ \E r \in drawn : /\ ~r.ok
                         /\ \E q \in RecoverEngine(r.e) :
                              engine' = q.e /\ software' = q.ok
  /\ UNCHANGED <<version, sessions, fenced>>

(* A callback that the CPU draws: a format or an operation the engine lacks, *)
(* or the engine is not READY.                                              *)
SoftwareDraw ==
  /\ ~software
  /\ \E r \in PrepareSoftwareFallback(engine) : engine' = r.e /\ software' = r.ok
  /\ UNCHANGED <<version, sessions, fenced>>

SoftwareDone ==
  /\ software /\ software' = FALSE
  /\ UNCHANGED <<version, engine, sessions, fenced>>

WaitBlitter ==
  /\ ~software
  /\ \E r \in LeaseBlocks(engine) :
       engine' \in IF r.ok THEN {r.e} ELSE {q.e : q \in SynchronizeEngine(r.e)}
  /\ UNCHANGED <<version, sessions, fenced, software>>

(* The engines finish work.  The ring keeps its order: work without a fence *)
(* is behind the fenced work, and the lease holder's behind both.           *)
Behind(k) == CASE k = "bare" -> Covered [] k = "ppc" -> Covered \cup {"bare"}
               [] OTHER -> {}

Done(k) ==
  /\ k \in engine.flight /\ Behind(k) \cap engine.flight = {}
  /\ engine' = [engine EXCEPT !.flight = @ \ {k}]
  /\ UNCHANGED <<version, sessions, fenced, software>>

Next ==
  \/ \E s \in Session :
       \/ Open(s) \/ Submit(s) \/ SubmitFence(s) \/ ReleaseSurface(s) \/ Close(s)
       \/ AcquireLease(s) \/ ReleaseLease(s) \/ HeartbeatLease(s)
       \/ \E flag \in Flags : DispatchIndirect(s, flag)
  \/ Expire \/ PpcSubmit
  \/ FillRect \/ SoftwareDraw \/ SoftwareDone \/ WaitBlitter
  \/ \E k \in Work : Done(k)

Spec == Init /\ [][Next]_vars
------------------------------------------------------------------------------
(* Types; LastFence goes with its session, and only listed sessions have    *)
(* the current generation.                                                  *)
TypeOK ==
  /\ version \in Versions
  /\ engine \in Board /\ engine.current \subseteq sessions
  /\ sessions \subseteq Session /\ fenced \subseteq sessions
  /\ software \in BOOLEAN

(* The next three hold up to interface 18: from 19 on RadeonCpWait forgets  *)
(* fence-less work (CpFence), from 20 on a lease may end with work pending. *)
Fencing == version < 19

(* RestoreEngineState never writes the host-endian bit under the fetch of   *)
(* an indirect buffer, and a dispatch always cleared it before.             *)
FetchGuarded ==
  Fencing /\ engine.accel # "UNSAFE" /\ "ib" \in engine.flight => ~engine.host

(* The one tag AccelPending covers the work of both engines: SynchronizeEngine *)
(* waits for whatever is unfinished, and 2D state is restored after CP work.  *)
TagCoversWork ==
  Fencing /\ engine.accel # "UNSAFE" =>
    /\ engine.flight \cap {"ring", "ib"} # {} => engine.pending = "CP" /\ engine.restore
    /\ "2d" \in engine.flight => engine.pending = "MMIO"

(* The CPU draws into board memory only while no engine does.               *)
SoftwareAlone == Fencing /\ software => engine.flight = {}

(* AccelRecoveryTried bars a recovery only while the command processor is   *)
(* off: a failing submission can always be recovered.                       *)
TriedMeansOff == engine.tried => engine.cp # "ready"

(* The holder of a lease never finds 2D work of the driver in the engine.   *)
LeaseQuiet == engine.lease => "2d" \notin engine.flight

(* Whatever a recovery in the middle of a lease resets, the bar on the next *)
(* one and the engine of the holder stay as they must (RecoverEngine).      *)
EngineKept == TriedMeansOff /\ LeaseQuiet

(* An engine that could not be reset stays UNSAFE: no recovery, release or  *)
(* grant brings it back.                                                    *)
UnsafeStays == [][engine.accel = "UNSAFE" => engine'.accel = "UNSAFE"]_vars

(* RadeonCpAdoptFence re-arms the write pointer after a lease: the driver   *)
(* never submits behind a pointer that is not the hardware's.               *)
RingInSync == ~engine.lease /\ engine.cp = "ready" => engine.sync

(* ReleaseLease re-arms after a CP fault so that the desktop keeps working: *)
(* it never leaves pending work that can neither be waited for nor          *)
(* recovered, behind which no callback may draw in software.                *)
ReleaseKeepsDesktop ==
  [][\A s \in Session :
       ReleaseLease(s) => ~(engine'.accel = "FALLBACK" /\ engine'.tried /\
                            engine'.pending = "CP")]_vars
=============================================================================
