------------------------------- MODULE Accounts -------------------------------
(***************************************************************************)
(* The counters a DEBUG build publishes (radeon_debug.c): a passive port   *)
(* whose stats are bumped by hooks all over the 2D callbacks, timed with a *)
(* timer.device that the first hook of a callback opens.  A call of        *)
(* Picasso96 enters, works and leaves along one of its return paths; each  *)
(* path has its own hooks (radeon_accel.c), and what happened is kept      *)
(* beside what was counted.  Wherever a path waits for the engine the wait *)
(* may fail, and the engine is recovered then and there: the accelerator   *)
(* is followed through every path with the counters of its own hooks.      *)
(***************************************************************************)
EXTENDS Integers, FiniteSets

CONSTANTS
  Ops,        \* the callbacks called: FILL, INVERT, TEMPLATE, COMPLETE, DRAIN; INVERT is of the shape of the others
  MaxCalls,   \* bound: calls while the stats are published, and recoveries after which the service asks no more
  MaxTicks    \* bound: EClock ticks of a behaviour

ASSUME AccountsAssumption ==
  /\ Ops \subseteq {"FILL", "INVERT", "TEMPLATE", "COMPLETE", "DRAIN"}
  /\ MaxCalls \in Nat /\ MaxTicks \in Nat

VARIABLES
  node,    \* DebugNode: allocated and published?
  timerbase,   \* TimerBase # NULL
  clock,   \* the EClock: what it shows, and what it showed when the stats began
  stats,   \* struct RadeonDebugStats: the counters of the callbacks, by name
  accel,   \* struct RadeonBoardData, the lease and the CP, with the counters of the engine's hooks: n
  call,    \* the callback under way, with its sample
  done     \* what really happened: the calls that returned, by callback and outcome, numbered in each

accountvars == <<node, timerbase, clock, stats, accel, call, done>>

Outcomes == {"rejected", "hardware", "staged", "recovered", "lost", "software", "blocked", "drained"}
StartTime == 7     \* what the EClock shows when the driver starts
NoStats == <<>>    \* they lie in the node
Idle == [op |-> "none", ticks |-> 0]
Counters ==
  ({"OpCalls", "OpHardware", "OpSoftware", "OpTicks"} \X Ops)
  \cup ({"FillCalls", "FillHardware", "FillSoftware", "FillCount", "DrainCount", "DrainTicks", "BoardLockChecks",
         "TemplateCalls", "TemplateSoftware", "CompleteCalls", "CompleteSurfaceReject", "CompleteSubmitCalls",
         "CompleteSubmitSuccess", "CompleteHardware", "CompleteSoftware", "PhaseTicks", "PhaseMaxTicks"} \X {"all"})
EngineCounters ==
  {"FifoWaitCalls", "FifoWaitFailures", "IdleWaitCalls", "IdleWaitFailures", "RecoveryCalls", "RecoverySuccess",
   "RecoveryFailure", "FallbackDrainRequired", "FallbackDrainSkipped", "TemplateHardware"}
NoAccel ==
  [AccelState |-> "OFF", RecoveryTried |-> FALSE, Pending |-> "NONE", Need2DRestore |-> FALSE,
   LeaseActive |-> FALSE, cp |-> "none", n |-> [c \in EngineCounters |-> 0]]

Times(ops, outcomes) == Cardinality({d \in done : d[1] \in ops /\ d[2] \in outcomes})
C(name) == <<name, "all">>
Bump(s, counters) == [c \in DOMAIN s |-> IF c \in counters THEN s[c] + 1 ELSE s[c]]
Add(s, c, n) == [s EXCEPT ![c] = @ + n]
------------------------------------------------------------------------------
(* The clock hooks read 0 as long as no timer is open.                      *)
Clock == IF timerbase THEN clock.now ELSE 0

(* InitCard opens the stats as soon as RadeonInitializeAcceleration is over: *)
(* 2D is off when it failed, and the CP does without when it is not asked    *)
(* for or does not start.                                                    *)
InitializedAccel ==
  {NoAccel} \cup {[NoAccel EXCEPT !.AccelState = "READY", !.cp = cp] : cp \in {"none", "ready"}}

OpenStats ==
  /\ ~node /\ call = Idle
  /\ node' = TRUE
  /\ stats' = [c \in Counters |-> 0]
  /\ done' = {}
  /\ accel' \in InitializedAccel
  /\ clock' = [clock EXCEPT !.opened = clock.now]
  /\ UNCHANGED <<timerbase, call>>

RadeonDebugClose ==
  /\ node /\ call = Idle
  /\ node' = FALSE /\ timerbase' = FALSE
  /\ stats' = NoStats /\ accel' = NoAccel /\ done' = {}
  /\ UNCHANGED <<clock, call>>

(* RadeonDebugBoardLock, then RadeonDebugBegin: the timer is open before a  *)
(* sample is taken, unless it cannot be opened at all.                      *)
SampledBefore(open) == Clock   \* mutant: the sample is taken before the timer is opened
Sampled(open) == IF open THEN clock.now ELSE 0

Enter(op) ==
  /\ node /\ call = Idle
  /\ Times(Ops, Outcomes) < MaxCalls
  /\ \E open \in {timerbase, TRUE} :
       /\ timerbase' = open
       /\ call' = [op |-> op, ticks |-> Sampled(open)]
  /\ stats' = Bump(stats, {C("BoardLockChecks")})
  /\ UNCHANGED <<node, clock, accel, done>>

TimePasses ==
  /\ clock.now < StartTime + MaxTicks
  /\ clock' = [clock EXCEPT !.now = @ + 1]
  /\ UNCHANGED <<node, timerbase, stats, accel, call, done>>
------------------------------------------------------------------------------
(* The hooks, as functions of the stats.                                    *)
Elapsed == Clock - call.ticks
RadeonDebugOpEnd(s, op, hardware) ==
  Add(Bump(s, {<<"OpCalls", op>>, <<IF hardware THEN "OpHardware" ELSE "OpSoftware", op>>}), <<"OpTicks", op>>, Elapsed)
RadeonDebugEndFill(s) == Bump(s, {C("FillCount")})
RadeonDebugEndCall(s, hardware) ==
  RadeonDebugOpEnd(Bump(s, {C("FillCalls"), C(IF hardware THEN "FillHardware" ELSE "FillSoftware")}), "FILL", hardware)
RadeonDebugEndDrain(s) ==
  LET t == Add(Bump(s, {C("DrainCount"), <<"OpCalls", "DRAIN">>}), C("DrainTicks"), Elapsed)
  IN [t EXCEPT ![<<"OpTicks", "DRAIN">>] = t[C("DrainTicks")]]
RadeonDebugTemplateCall(s) == Bump(s, {C("TemplateCalls")})
RadeonDebugTemplateSoftware(s) == Bump(s, {C("TemplateSoftware")})
RadeonDebugCompleteCall(s, rejected) ==
  Bump(s, {C("CompleteCalls")} \cup (IF rejected THEN {C("CompleteSurfaceReject")} ELSE {}))
RadeonDebugCompleteSubmit(s, success) ==
  Bump(s, {C("CompleteSubmitCalls")} \cup (IF success THEN {C("CompleteSubmitSuccess"), C("CompleteHardware")} ELSE {}))
RadeonDebugCompleteSoftware(s) == Bump(s, {C("CompleteSoftware")})
RadeonDebugCompletePhase(s) ==
  LET t == Add(s, C("PhaseTicks"), Elapsed)
  IN [t EXCEPT ![C("PhaseMaxTicks")] = IF Elapsed > @ THEN Elapsed ELSE @]
RadeonDebugWait(n, kind, success) ==
  Bump(n, IF kind = "FIFO" THEN {"FifoWaitCalls"} \cup (IF success THEN {} ELSE {"FifoWaitFailures"})
          ELSE {"IdleWaitCalls"} \cup (IF success THEN {} ELSE {"IdleWaitFailures"}))
RadeonDebugRecovery(n, success) ==
  Bump(n, {"RecoveryCalls", IF success THEN "RecoverySuccess" ELSE "RecoveryFailure"})
RadeonDebugFallbackDrain(n, skipped) ==
  Bump(n, {IF skipped THEN "FallbackDrainSkipped" ELSE "FallbackDrainRequired"})
RadeonDebugTemplateHardware(n) == Bump(n, {"TemplateHardware"})
------------------------------------------------------------------------------
(* The paths through radeon_accel.c, as what the accelerator x may be       *)
(* afterwards and whether the function returned TRUE.  A wait of the FIFO   *)
(* or for idle counts itself, on time or too late; the waits for the CP do  *)
(* not.                                                                     *)
Returned(ok, x) == [ok |-> ok, accel |-> x]

WaitFifo(x) ==
  {Returned(ok, [x EXCEPT !.n = RadeonDebugWait(@, "FIFO", ok)]) : ok \in BOOLEAN}

WaitIdleAndFlush(x) ==
  {w \in WaitFifo(x) : ~w.ok}
  \cup {Returned(ok, [x EXCEPT !.n = RadeonDebugWait(RadeonDebugWait(@, "FIFO", TRUE), "IDLE", ok)]) : ok \in BOOLEAN}

(* Silent once a recovery was tried and the CP has not come back since.     *)
CpAborted(x) ==
  [x EXCEPT !.RecoveryTried = TRUE, !.Pending = "NONE", !.Need2DRestore = FALSE,
            !.cp = IF @ = "none" THEN "none" ELSE "stopped"]
CpRecovered(x) == [x EXCEPT !.AccelState = "READY", !.RecoveryTried = FALSE, !.cp = "ready"]
Recovered(w) ==
  LET x == [w.accel EXCEPT !.n = RadeonDebugRecovery(@, w.ok)]
  IN IF ~w.ok THEN {[x EXCEPT !.AccelState = "UNSAFE"]}
     ELSE {[x EXCEPT !.AccelState = "FALLBACK"]} \cup (IF x.cp = "none" THEN {} ELSE {CpRecovered(x)})
RecoverEngine(x) ==
  IF x.RecoveryTried THEN {Returned(FALSE, x)}
  ELSE UNION {{Returned(w.ok, y) : y \in Recovered(w)} : w \in WaitIdleAndFlush(CpAborted(x))}

Drained(x) == [x EXCEPT !.Pending = "NONE", !.Need2DRestore = FALSE]
SynchronizeEngine(x) ==
  IF x.Pending = "NONE" THEN {Returned(x.AccelState # "UNSAFE", x)}
  ELSE UNION {IF w.ok THEN {Returned(TRUE, Drained(w.accel))} ELSE RecoverEngine(w.accel) :
              w \in IF x.Pending = "CP" THEN {Returned(ok, x) : ok \in BOOLEAN} ELSE WaitIdleAndFlush(x)}

(* A lease is live, or expired and reclaimed on the spot.                   *)
Reclaimed(x) == {Returned(FALSE, r.accel) : r \in RecoverEngine([x EXCEPT !.LeaseActive = FALSE])}
LeaseBlocks(x) == IF x.LeaseActive THEN {Returned(TRUE, x)} \cup Reclaimed(x) ELSE {Returned(FALSE, x)}

PrepareMmioEngine(x) ==
  IF x.AccelState # "READY" THEN {Returned(FALSE, x)}
  ELSE UNION {IF l.ok THEN {Returned(FALSE, l.accel)}
              ELSE IF l.accel.Need2DRestore THEN SynchronizeEngine(l.accel)
              ELSE {Returned(TRUE, l.accel)} : l \in LeaseBlocks(x)}

Safe(r) == Returned(r.ok /\ r.accel.AccelState # "UNSAFE", r.accel)
PrepareSoftwareFallback(x, allOffboard) ==
  LET y == [x EXCEPT !.n = RadeonDebugFallbackDrain(@, allOffboard)]
  IN IF allOffboard THEN {Safe(Returned(TRUE, y))}
     ELSE UNION {IF l.ok THEN {Safe(l)} ELSE {Safe(r) : r \in SynchronizeEngine(l.accel)} : l \in LeaseBlocks(y)}

(* Only host data waits for the FIFO: a rectangle, a copy and a staged      *)
(* template are written unconditionally once the engine is prepared.        *)
Streamed(w) == Returned(w.ok, IF w.ok THEN [w.accel EXCEPT !.n = RadeonDebugTemplateHardware(@)] ELSE w.accel)
SubmitTemplate(x) ==
  UNION {IF p.ok THEN {Streamed(w) : w \in WaitFifo(p.accel)} ELSE {p} : p \in PrepareMmioEngine(x)}

Way(outcome, x) == [outcome |-> outcome, accel |-> x]
Submitted(outcome, r) ==
  IF r.ok THEN {Way(outcome, [r.accel EXCEPT !.Pending = "MMIO"])}
  ELSE {Way(IF t.ok THEN "recovered" ELSE "lost", t.accel) : t \in RecoverEngine(r.accel)}
StagedFirst(x) ==
  UNION {IF p.ok THEN Submitted("staged", p)
         ELSE UNION {Submitted("hardware", r) : r \in SubmitTemplate(p.accel)} : p \in PrepareMmioEngine(x)}

HardwareWays(op, x) ==
  IF x.AccelState # "READY" THEN {}
  ELSE IF op = "TEMPLATE" THEN StagedFirst(x) \cup UNION {Submitted("hardware", r) : r \in SubmitTemplate(x)}
  ELSE UNION {Submitted("hardware", r) : r \in PrepareMmioEngine(x)}
SoftwareWays(x) ==
  UNION {{Way(IF r.ok THEN "software" ELSE "blocked", r.accel) : r \in PrepareSoftwareFallback(x, all)} : all \in BOOLEAN}
RadeonWaitBlitter(x) ==
  UNION {IF l.ok THEN {Way("drained", l.accel)} ELSE {Way("drained", r.accel) : r \in SynchronizeEngine(l.accel)} :
         l \in LeaseBlocks(x)}
Ways(op, x) ==
  IF op = "DRAIN" THEN RadeonWaitBlitter(x)
  ELSE {Way("rejected", x)} \cup HardwareWays(op, x) \cup SoftwareWays(x)

(* Between the calls of Picasso96 the 3D service uses the same accelerator: *)
(* it submits, recovers, grants the lease and ends it.  Every call of it    *)
(* needs a CP that is ready.                                                *)
Mark3DSubmitted(x) == [x EXCEPT !.Need2DRestore = TRUE, !.Pending = "CP"]
RadeonPrepare3D(x) ==
  IF x.AccelState = "READY" /\ x.Pending = "CP" THEN {Returned(TRUE, x)} ELSE SynchronizeEngine(x)

Submit3D(x) ==
  UNION {IF ~r.ok THEN {r.accel}
         ELSE {t.accel : t \in RecoverEngine(r.accel)}
              \cup (IF r.accel.cp = "ready" THEN {Mark3DSubmitted(r.accel)} ELSE {}) : r \in RadeonPrepare3D(x)}
AcquireLease(x) ==
  {IF r.ok /\ r.accel.cp = "ready" THEN [r.accel EXCEPT !.LeaseActive = TRUE, !.AccelState = "FALLBACK"] ELSE r.accel :
   r \in RadeonPrepare3D(x)}

(* The lease ends when its last fence is reached, or after a recovery when  *)
(* it is not; of the first two ways a release puts 2D back, a close does    *)
(* not.                                                                     *)
Ended(x) == [Mark3DSubmitted(x) EXCEPT !.LeaseActive = FALSE]
EndLease(x) ==
  {Ended([x EXCEPT !.AccelState = IF @ = "FALLBACK" THEN "READY" ELSE @]), Ended(x)}
  \cup {Ended(r.accel) : r \in RecoverEngine(x)}

ServiceUsesEngine ==
  /\ node /\ call = Idle
  /\ accel.cp = "ready"
  /\ accel.n["RecoveryCalls"] < MaxCalls
  /\ accel' \in {r.accel : r \in RecoverEngine(accel)}
        \cup (IF accel.LeaseActive THEN EndLease(accel)
              ELSE Submit3D(accel) \cup AcquireLease(accel))
  /\ UNCHANGED <<node, timerbase, clock, stats, call, done>>

Drew(outcome) == outcome \in {"hardware", "staged"}
Fell(outcome) == outcome \in {"recovered", "software"}

RadeonFillRect(s, outcome) ==
  IF outcome = "rejected" THEN s
  ELSE LET t == IF outcome \in {"software", "blocked"} THEN s ELSE RadeonDebugEndFill(s)
       IN RadeonDebugEndCall(t, Drew(outcome))

RadeonInvertRect(s, outcome) == RadeonDebugOpEnd(s, "INVERT", Drew(outcome))

RadeonBlitTemplate(s, outcome) ==
  LET t == RadeonDebugTemplateCall(s)
      u == IF Fell(outcome) THEN RadeonDebugTemplateSoftware(t) ELSE t
  IN RadeonDebugOpEnd(u, "TEMPLATE", Drew(outcome))

RadeonBlitRectNoMaskComplete(s, outcome) ==
  LET t == RadeonDebugCompleteCall(RadeonDebugCompletePhase(s), outcome = "rejected")
      u == IF outcome \in {"hardware", "recovered", "lost"} THEN RadeonDebugCompleteSubmit(t, Drew(outcome)) ELSE t
      v == IF Fell(outcome) THEN RadeonDebugCompletePhase(RadeonDebugCompleteSoftware(u)) ELSE u
  IN RadeonDebugOpEnd(v, "COMPLETE", Drew(outcome))

Leave(outcome) ==
  /\ call # Idle
  /\ \E way \in Ways(call.op, accel) : way.outcome = outcome /\ accel' = way.accel
  /\ stats' = CASE call.op = "FILL" -> RadeonFillRect(stats, outcome)
                [] call.op = "TEMPLATE" -> RadeonBlitTemplate(stats, outcome)
                [] call.op = "COMPLETE" -> RadeonBlitRectNoMaskComplete(stats, outcome)
                [] call.op = "DRAIN" -> RadeonDebugEndDrain(stats)
                [] OTHER -> RadeonInvertRect(stats, outcome)
  /\ done' = done \cup {<<call.op, outcome, Times({call.op}, {outcome}) + 1>>}
  /\ call' = Idle
  /\ UNCHANGED <<node, timerbase, clock>>
------------------------------------------------------------------------------
AccountsInit ==
  /\ node = FALSE /\ timerbase = FALSE
  /\ clock = [now |-> StartTime, opened |-> StartTime]
  /\ stats = NoStats /\ accel = NoAccel /\ done = {}
  /\ call = Idle

AccountsNext ==
  \/ OpenStats \/ RadeonDebugClose \/ TimePasses
  \/ \E op \in Ops : Enter(op)
  \/ \E outcome \in Outcomes : Leave(outcome)
  \/ ServiceUsesEngine

AccountsSpec == AccountsInit /\ [][AccountsNext]_accountvars
------------------------------------------------------------------------------
Accelerators ==
  [AccelState : {"OFF", "READY", "FALLBACK", "UNSAFE"}, RecoveryTried : BOOLEAN, Pending : {"NONE", "MMIO", "CP"},
   Need2DRestore : BOOLEAN, LeaseActive : BOOLEAN, cp : {"none", "ready", "stopped"}, n : [EngineCounters -> Nat]]

AccountsTypeOK ==
  /\ node \in BOOLEAN /\ timerbase \in BOOLEAN
  /\ clock.now \in StartTime .. StartTime + MaxTicks /\ clock.opened \in StartTime .. clock.now
  /\ done \subseteq Ops \X Outcomes \X (1 .. MaxCalls)
  /\ IF node THEN stats \in [Counters -> Nat] ELSE stats = NoStats /\ done = {}
  /\ accel \in Accelerators
  /\ call.op \in Ops \cup {"none"} /\ call.ticks \in 0 .. clock.now

Attributed(op) == IF op = "FILL" THEN Outcomes \ {"rejected"} ELSE Outcomes
Spent(op) == IF op \in Ops THEN stats[<<"OpTicks", op>>] ELSE 0

(* Whatever waits failed and wherever the engine was recovered: nothing     *)
(* waits for idle, and no template is streamed, but after a FIFO wait in    *)
(* time; the engine is handed on as recovered only after it was seen idle,  *)
(* and given up only after a wait that failed, once and for all; and no     *)
(* wait ever failed without a recovery being tried (radeon_accel.c).        *)
EngineAccounts(x) ==
  /\ x.n["FifoWaitFailures"] + x.n["IdleWaitCalls"] + x.n["TemplateHardware"] <= x.n["FifoWaitCalls"]
  /\ x.n["RecoverySuccess"] + x.n["IdleWaitFailures"] <= x.n["IdleWaitCalls"]
  /\ x.n["RecoveryFailure"] <= x.n["FifoWaitFailures"] + x.n["IdleWaitFailures"]
  /\ x.n["RecoveryFailure"] = IF x.AccelState = "UNSAFE" THEN 1 ELSE 0
  /\ x.n["FifoWaitFailures"] + x.n["IdleWaitFailures"] > 0 => x.n["RecoveryCalls"] > 0
  /\ x.n["RecoveryCalls"] = x.n["RecoverySuccess"] + x.n["RecoveryFailure"]

(* Between calls the counters add up to what happened, whatever return path *)
(* each call took: every call that took the board is attributed to its      *)
(* callback, a rejected FillRect alone excepted; hardware and software are  *)
(* told apart the same way by the tables of each version; the time          *)
(* attributed is time that passed since the stats began (radeon_debug.h,    *)
(* versions 2 to 9); and the engine's own counters agree with each other    *)
(* and with the state it was left in.                                       *)
AccountsBalance ==
  node /\ call = Idle =>
    /\ stats[C("BoardLockChecks")] = Times(Ops, Outcomes)
    /\ \A op \in Ops : stats[<<"OpCalls", op>>] = Times({op}, Attributed(op))
    /\ \A op \in Ops \ {"DRAIN"} : stats[<<"OpHardware", op>>] = Times({op}, {"hardware", "staged"})
    /\ stats[C("FillCalls")] = stats[C("FillHardware")] + stats[C("FillSoftware")]
    /\ stats[C("TemplateSoftware")] = Times({"TEMPLATE"}, {"recovered", "software"})
    /\ accel.n["TemplateHardware"] = Times({"TEMPLATE"}, {"hardware"})
    /\ stats[C("CompleteHardware")] = Times({"COMPLETE"}, {"hardware"})
    /\ Spent("FILL") + Spent("INVERT") + Spent("TEMPLATE") + Spent("COMPLETE") + Spent("DRAIN") <= clock.now - clock.opened
    /\ EngineAccounts(accel)
==============================================================================
