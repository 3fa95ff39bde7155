-------------------------------- MODULE Probes --------------------------------
(***************************************************************************)
(* The boot-time probes of a DEBUG build with RADEON_BOOT_PROBES:          *)
(* RadeonDebugOpen, called by InitRadeonFeatures, tries the command        *)
(* processor (RadeonCpDebugRunTests) and then its indirect buffers         *)
(* (TestIndirectBuffer), recovering the engine after a case that hangs it, *)
(* before the service is enabled; the 2D engine was tried before           *)
(* (ProbeMonoFromMemory), the callbacks are after                          *)
(* (RadeonDebugFallbackProbe).  One task probes; the command processor     *)
(* fetches meanwhile and stops where the card is faulty.  The ring is      *)
(* counted in units of CP_RING_ALIGNMENT dwords: every commit is whole     *)
(* units, and all but the no-operation fills are one.                      *)
(***************************************************************************)
EXTENDS Integers, Sequences

CONSTANTS
  ProbeUnits,    \* CP_RING_DWORDS, in units of CP_RING_ALIGNMENT
  DebugMax,     \* CP_DEBUG_MAX_DWORDS, in the same units
  Faults,       \* what a card may fail at: "wrap", "pool", "64", "48", "reset", "readback"
  OldScratch    \* what SCRATCH_REG1 may hold from before the boot

(* The fills, each of DebugMax behind the ring's setup and two fences, do   *)
(* not end at the ring's end: where they do the last of them passes the    *)
(* wrap's test without crossing it (radeon_cp.c:610).                      *)
ASSUME RingAssumption == /\ ProbeUnits \in Nat /\ DebugMax \in Nat
                         /\ 4 < DebugMax /\ 2 * DebugMax < ProbeUnits
                         /\ \A n \in 1 .. ProbeUnits : 4 + n * DebugMax # ProbeUnits
ASSUME ScratchAssumption == OldScratch \subseteq Int
ASSUME FaultsAssumption == Faults \subseteq {"wrap", "pool", "64", "48", "reset", "readback"}

VARIABLES
  cp,       \* struct RadeonCpState: Ready, WritePointer, NextFence, PendingFence, DebugSequence
  unread,   \* the commits between CP_RB_RPTR and CP_RB_WPTR
  card,     \* SCRATCH_REG0, SCRATCH_REG1, CP_CSQ_MODE; whether it hangs; what it fails at; what its 2D registers
            \* hold and what the shadow says they do
  state,    \* AccelState and ServiceState
  probe,    \* where the probing task is, and the locals it carries along
  results   \* struct RadeonDebugStats, and the slots of the indirect-buffer cases

probevars == <<cp, unread, card, state, probe, results>>

TestValue == -1                \* CP_TEST_AFTER and the value an indirect buffer writes, 0xdeadbeef
Production == "16/80"          \* CP_CSQ_CACHE_PARTITION, 0x5010
Quarter == 1000                \* 0x40000000: further than any fence of a boot
StartupUnits == 2              \* CpConfigureRing's and CpRingTest's commits
NotRun == [place |-> "none", dwords |-> 0, accepted |-> FALSE, fence |-> FALSE, scratch |-> 0, ready |-> FALSE]
------------------------------------------------------------------------------
(* The command processor takes the next commit, or stops at it.             *)
Works(place, dwords) ==
  /\ place = "pool" => "pool" \notin card.faults
  /\ dwords = 64 => "64" \notin card.faults
  /\ dwords = 48 => "48" \notin card.faults

Stops(c) == \/ c.what = "noops" /\ c.at + c.units > ProbeUnits /\ "wrap" \in card.faults
            \/ c.what = "ib" /\ ~(Works(c.place, c.dwords) /\ (c.dwords > 8 => card.partition = Production))

CpFetches ==
  /\ unread # <<>> /\ ~card.hung
  /\ LET c == Head(unread)
     IN IF Stops(c)
        THEN card' = [card EXCEPT !.hung = TRUE] /\ UNCHANGED unread
        ELSE /\ unread' = Tail(unread)
             /\ card' = [card EXCEPT !.scratch0 = IF c.what = "noops" THEN @ ELSE c.value,
                                     !.scratch1 = CASE c.what = "noops" -> c.value
                                                    [] c.what = "ib" -> TestValue
                                                    [] OTHER -> @,
                                     !.crossed = @ \/ c.at + c.units > ProbeUnits]
  /\ UNCHANGED <<cp, state, probe, results>>

Fetched == unread = <<>>
FenceReached(fence) == card.scratch0 >= fence
------------------------------------------------------------------------------
(* Commit(c, n): a commit of n units leaves c (CpReserve finds the room, the *)
(* ring being drained between the probes).                                   *)
Commit(c, n) ==
  /\ cp.Ready
  /\ unread' = Append(unread, [c EXCEPT !.units = n, !.at = cp.WritePointer])
  /\ cp' = [cp EXCEPT !.WritePointer = (@ + n) % ProbeUnits,
                      !.NextFence = IF c.what = "noops" THEN @ ELSE @ + 1,
                      !.PendingFence = IF c.what = "noops" THEN @ ELSE c.value]

Command(what, value) == [what |-> what, value |-> value, units |-> 1, at |-> 0, place |-> "none", dwords |-> 0]

(* RadeonCpAbort: the CP is off and its service withdrawn.                   *)
Aborted == [cp EXCEPT !.Ready = FALSE, !.PendingFence = 0]
AbortCp ==
  /\ cp' = Aborted /\ unread' = <<>>
  /\ card' = [card EXCEPT !.partition = "none"]
  /\ state' = [state EXCEPT !.service = IF @ = "READY" THEN "ATTACHED" ELSE @]

(* RadeonRecoverAcceleration: a card that resets gets its ring from the      *)
(* start, its fences from 1 and its service; another keeps software drawing  *)
(* or none.                                                                  *)
RadeonRecoverAcceleration ==
  IF state.tried THEN UNCHANGED <<cp, unread, card, state>>
  ELSE
    /\ unread' = <<>>
    /\ \/ /\ "reset" \notin card.faults
          /\ cp' = [cp EXCEPT !.WritePointer = StartupUnits, !.NextFence = 1, !.PendingFence = 0]
          /\ card' = [card EXCEPT !.hung = FALSE, !.scratch0 = TestValue, !.partition = Production,
                                  !.regs = "baseline", !.shadow = "baseline"]
          /\ state' = [accel |-> "READY", service |-> "READY", tried |-> FALSE]
       \/ /\ "reset" \in card.faults
          /\ cp' = Aborted
          /\ card' = [card EXCEPT !.partition = "none", !.shadow = "unknown"]
          /\ \E a \in {"UNSAFE", "FALLBACK"} :
               state' = [accel |-> a, service |-> "ATTACHED", tried |-> TRUE]
------------------------------------------------------------------------------
ProbeGoes(place) == probe' = [probe EXCEPT !.at = place]

(* ProbeMonoFromMemory, in a debug build's RadeonInitializeAcceleration:     *)
(* registers are written past their shadow, and restored behind it whatever *)
(* came of the expansion.                                                   *)
Restored2D == [regs : {"baseline"}, shadow : {"baseline"}]
LeftAsIs == [regs : {"probe", "baseline"}, shadow : {"unknown"}]     \* RestoreEngineState gave up

ProbeMonoFromMemory ==
  /\ probe.at = "mono"
  /\ \E mono \in IF card.faults = {} THEN {"expands", "wrong", "hangs", "small"}
                ELSE {"expands"} :                                \* bound: one kind of fault at a time
       /\ \E e \in IF mono = "hangs" THEN LeftAsIs ELSE Restored2D :
            card' = [card EXCEPT !.mono = mono, !.regs = e.regs, !.shadow = e.shadow]
       /\ results' = [results EXCEPT !.Mono = CASE mono = "small" -> "SKIPPED" [] mono = "hangs" -> "FAILED"
                                                [] mono = "wrong" -> "WRONG" [] OTHER -> "OK"]
  /\ ProbeGoes("open")
  /\ UNCHANGED <<cp, unread, state>>

(* RadeonDebugOpen: MeasureMmio and MeasureCpBatch return at once, the timer *)
(* they need being opened only by the first accounted call.                  *)
RadeonDebugOpen ==
  /\ probe.at = "open"
  /\ results' = [results EXCEPT !.CpActive = cp.Ready]
  /\ IF cp.Ready THEN ProbeGoes("first") ELSE ProbeGoes("indirect")
  /\ UNCHANGED <<cp, unread, card, state>>

(* RadeonCpDebugRunTests, up to the fences' wait.                            *)
TestFence(from, to) ==
  /\ probe.at = from /\ Commit(Command("fence", cp.NextFence), 1) /\ ProbeGoes(to)
  /\ results' = [results EXCEPT !.fences = Append(@, cp.NextFence)]
  /\ UNCHANGED <<card, state>>

TestFirstFence == TestFence("first", "second")
TestSecondFence == TestFence("second", "fences")

TestsFail == AbortCp /\ ProbeGoes("indirect") /\ UNCHANGED results

WaitTestFences ==
  /\ probe.at = "fences"
  /\ card.scratch0 = cp.PendingFence
  /\ cp' = [cp EXCEPT !.PendingFence = 0]
  /\ IF results.fences[1] # results.fences[2] /\ card.scratch0 = results.fences[2]
     THEN ProbeGoes("future") /\ results' = [results EXCEPT !.FenceOrder = TRUE]
     ELSE ProbeGoes("fail") /\ UNCHANGED results
  /\ UNCHANGED <<unread, card, state>>

(* A fence a quarter of the range ahead is not there, polled once or for     *)
(* 20 ms.                                                                    *)
TestFutureFence ==
  /\ probe.at = "future"
  /\ results' = [results EXCEPT !.Future = ~FenceReached(card.scratch0 + Quarter)]
  /\ IF FenceReached(card.scratch0 + Quarter) THEN ProbeGoes("fail") ELSE ProbeGoes("reserve")
  /\ UNCHANGED <<cp, unread, card, state>>

(* All but one dword of a drained ring can be reserved, and never all.       *)
TestReserve ==
  /\ probe.at = "reserve" /\ Fetched
  /\ results' = [results EXCEPT !.NearFull = TRUE]
  /\ ProbeGoes("fill")
  /\ UNCHANGED <<cp, unread, card, state>>

Remaining == ProbeUnits - cp.WritePointer
Crossing(remaining) == IF remaining = DebugMax THEN DebugMax ELSE remaining + 1

NextSequence(sequence) == sequence + 1

(* RadeonCpDebugSubmitNoops of n units.                                      *)
SubmitNoops(n, to) ==
  /\ cp.Ready
  /\ LET sequence == NextSequence(cp.DebugSequence)
     IN /\ unread' = Append(unread, [Command("noops", sequence) EXCEPT !.units = n, !.at = cp.WritePointer])
        /\ cp' = [cp EXCEPT !.WritePointer = (@ + n) % ProbeUnits, !.DebugSequence = sequence]
  /\ ProbeGoes(to)
  /\ UNCHANGED <<card, state>>

TestFill ==
  /\ probe.at = "fill"
  /\ Remaining > DebugMax
  /\ SubmitNoops(DebugMax, "filled") /\ UNCHANGED results

TestFilled ==
  /\ probe.at = "filled" /\ card.scratch1 = cp.DebugSequence
  /\ ProbeGoes("fill") /\ UNCHANGED <<cp, unread, card, state, results>>

TestCross ==
  /\ probe.at = "fill"
  /\ Remaining <= DebugMax
  /\ SubmitNoops(Crossing(Remaining), "crossed")
  /\ results' = [results EXCEPT !.WrapBefore = cp.WritePointer]

TestCrossed ==
  /\ probe.at = "crossed" /\ card.scratch1 = cp.DebugSequence
  /\ results' = [results EXCEPT !.Wrap = cp.WritePointer < results.WrapBefore]
  /\ IF cp.WritePointer < results.WrapBefore THEN ProbeGoes("indirect") ELSE ProbeGoes("fail")
  /\ UNCHANGED <<cp, unread, card, state>>

(* A wait of the tests ends unanswered only when the card hangs; a commit    *)
(* that does not read back is refused.                                       *)
TestsGiveUp ==
  /\ \/ probe.at = "fail"
     \/ probe.at \in {"first", "second", "fill"} /\ "readback" \in card.faults
     \/ probe.at \in {"fences", "reserve", "filled", "crossed"} /\ card.hung
  /\ TestsFail
------------------------------------------------------------------------------
(* TestIndirectBuffer.  Case 1: 8 dwords in the probe's own block.           *)
TestIndirectBuffer ==
  /\ probe.at = "indirect"
  /\ IF cp.Ready
     THEN \/ ProbeGoes("dispatch") /\ results' = [results EXCEPT !.held = TRUE]
          \/ ProbeGoes("fallback") /\ UNCHANGED results          \* no private memory left
     ELSE ProbeGoes("fallback") /\ UNCHANGED results
  /\ UNCHANGED <<cp, unread, card, state>>

IbPlace == IF probe.case = 1 \/ (probe.case = 3 /\ ~probe.poolFence) THEN "low" ELSE "pool"
IbDwords == CASE probe.case \in {1, 2} -> 8 [] probe.case \in {3, 4} -> 64 [] OTHER -> 48

(* RunIbCase: SCRATCH_REG1 is cleared and the buffer dispatched behind a     *)
(* fence.  A refused dispatch leaves the case's Fence as its memory was.     *)
RunIbCase ==
  /\ probe.at = "dispatch"
  /\ \/ /\ Commit([Command("ib", cp.NextFence) EXCEPT !.place = IbPlace, !.dwords = IbDwords], 1)
        /\ probe' = [probe EXCEPT !.at = "answer", !.accepted = TRUE]
     \/ /\ "readback" \in card.faults
        /\ \E garbage \in BOOLEAN : probe' = [probe EXCEPT !.at = "report", !.accepted = FALSE, !.fence = garbage]
        /\ cp' = [cp EXCEPT !.NextFence = @ + 1]
        /\ UNCHANGED unread
  /\ card' = [card EXCEPT !.scratch1 = 0, !.partition = IF probe.case = 4 THEN "16/80" ELSE @]
  /\ UNCHANGED <<state, results>>

IbAnswered ==
  /\ probe.at = "answer" /\ FenceReached(cp.PendingFence)
  /\ probe' = [probe EXCEPT !.at = "report", !.fence = TRUE]
  /\ cp' = [cp EXCEPT !.PendingFence = 0]
  /\ UNCHANGED <<unread, card, state, results>>

IbTimesOut ==
  /\ probe.at = "answer" /\ card.hung
  /\ RadeonRecoverAcceleration
  /\ probe' = [probe EXCEPT !.at = "report", !.fence = FALSE]
  /\ UNCHANGED results

Cases == IF probe.pool THEN 5 ELSE 1        \* without the streaming segments only the first

(* Where FillIb2 and FillIb3 report a case.                                  *)
Slot == CASE probe.case = 1 -> 1 [] probe.case \in {2, 4} -> 2 [] OTHER -> 3

RestoredPartition(partition) == IF probe.case = 4 THEN Production ELSE partition

IbReport ==
  /\ probe.at = "report"
  /\ results' = [results EXCEPT !.slots[Slot] =
       [place |-> IbPlace, dwords |-> IbDwords, accepted |-> probe.accepted, fence |-> probe.fence,
        scratch |-> card.scratch1, ready |-> cp.Ready]]
  /\ card' = [card EXCEPT !.partition = RestoredPartition(@)]
  /\ probe' = [probe EXCEPT !.at = IF cp.Ready /\ probe.case < Cases THEN "dispatch" ELSE "free",
                            !.case = IF cp.Ready /\ probe.case < Cases THEN @ + 1 ELSE @,
                            !.poolFence = IF probe.case = 2 THEN probe.fence ELSE @]
  /\ UNCHANGED <<cp, unread, state>>

(* Every way out gives the probe's block back.                               *)
IbFree ==
  /\ probe.at = "free"
  /\ results' = [results EXCEPT !.held = FALSE]
  /\ ProbeGoes("fallback")
  /\ UNCHANGED <<cp, unread, card, state>>

(* RadeonDebugFallbackProbe, when there is memory for its bitmap: fills off *)
(* the board, a copy onto it and one back, each drawn by software unless    *)
(* the engine is given up, and a copy past the end of its row, which is     *)
(* rejected; the two bytes of VRAM it borrows are put back.                 *)
Drawable == state.accel # "UNSAFE"
Verdict(passed) == IF passed THEN "passed" ELSE "failed"

RadeonDebugFallbackProbe ==
  /\ probe.at = "fallback"
  /\ LET filled == Drawable
         written == IF Drawable THEN "5a" ELSE "saved"
         readBack == IF Drawable THEN "a5" ELSE "5a"
     IN \/ results' = [results EXCEPT !.Fallback = Verdict(filled /\ written = "5a" /\ readBack = "a5")]
        \/ UNCHANGED results
  /\ ProbeGoes("enable")
  /\ UNCHANGED <<cp, unread, card, state>>

(* InitRadeonFeatures goes on: the service is ready when the CP is.          *)
ProbesDone ==
  /\ probe.at = "enable"
  /\ state' = [state EXCEPT !.service = IF cp.Ready THEN "READY" ELSE @]
  /\ results' = [results EXCEPT !.CpActive = cp.Ready]
  /\ ProbeGoes("done")
  /\ UNCHANGED <<cp, unread, card>>
------------------------------------------------------------------------------
ProbesInit ==
  /\ \E ready \in BOOLEAN :
       cp = [Ready |-> ready, WritePointer |-> IF ready THEN StartupUnits ELSE 0, NextFence |-> 1,
             PendingFence |-> 0, DebugSequence |-> 0]
  /\ unread = <<>>
  /\ \E faults \in SUBSET Faults, old \in OldScratch :
       card = [scratch0 |-> TestValue, scratch1 |-> old, hung |-> FALSE, crossed |-> FALSE,
               partition |-> IF cp.Ready THEN Production ELSE "none", faults |-> faults,
               mono |-> "expands", regs |-> "baseline", shadow |-> "baseline"]
  /\ state = [accel |-> "READY", service |-> "ATTACHED", tried |-> FALSE]
  /\ \E pool \in BOOLEAN :
       probe = [at |-> "mono", case |-> 1, accepted |-> FALSE, fence |-> FALSE, poolFence |-> FALSE, pool |-> pool]
  /\ results = [CpActive |-> FALSE, fences |-> <<>>, FenceOrder |-> FALSE, Future |-> FALSE, NearFull |-> FALSE,
              WrapBefore |-> 0, Wrap |-> FALSE, held |-> FALSE, Mono |-> "none", Fallback |-> "none",
              slots |-> [s \in 1 .. 3 |-> NotRun]]

ProbesNext ==
  \/ ProbeMonoFromMemory \/ CpFetches \/ RadeonDebugOpen \/ TestFirstFence \/ TestSecondFence \/ WaitTestFences \/ TestFutureFence
  \/ TestReserve \/ TestFill \/ TestFilled \/ TestCross \/ TestCrossed \/ TestsGiveUp
  \/ TestIndirectBuffer \/ RunIbCase \/ IbAnswered \/ IbTimesOut \/ IbReport \/ IbFree
  \/ RadeonDebugFallbackProbe \/ ProbesDone

ProbesSpec == ProbesInit /\ [][ProbesNext]_probevars
------------------------------------------------------------------------------
ProbesTypeOK ==
  /\ cp.WritePointer \in 0 .. ProbeUnits - 1
  /\ cp.NextFence \in Nat \ {0} /\ cp.PendingFence \in 0 .. cp.NextFence /\ cp.DebugSequence \in Nat
  /\ ~cp.Ready => cp.PendingFence = 0
  /\ card.faults \subseteq Faults /\ card.partition \in {Production, "none"}
  /\ state.service \in {"ATTACHED", "READY"} /\ probe.case \in 1 .. 5
  /\ DOMAIN results.slots = 1 .. 3

(* A passed wrap test means that the command processor itself went past the *)
(* ring's end, not that the driver's pointer did, and a card that can do    *)
(* everything passes everything (RadeonCpDebugRunTests).                    *)
WrapProven ==
  /\ results.Wrap => card.crossed
  /\ probe.at = "dispatch" /\ probe.case = 1 =>
       results.FenceOrder /\ results.Future /\ results.NearFull /\ results.Wrap

(* An accepted case reports its fence exactly when the card can run such a  *)
(* buffer in that place, whatever became of the cases before it, and the    *)
(* value read back is then the one this buffer wrote (RunIbCase).           *)
VerdictsRight ==
  \A s \in 1 .. 3 :
    LET r == results.slots[s]
    IN r.accepted => /\ r.fence <=> Works(r.place, r.dwords)
                     /\ r.fence => r.scratch = TestValue

(* The 2D probe says what the card can do, and leaves no register the       *)
(* shadow is wrong about (ProbeMonoExpand).                                 *)
MonoRight ==
  /\ results.Mono = "OK" => card.mono = "expands"
  /\ card.shadow = "baseline" => card.regs = "baseline"

(* After the probes nothing of them is left: the block is free, a ready CP  *)
(* has the production partition and an empty ring behind it, and the        *)
(* service is ready exactly when the CP is.                                 *)
NothingLeftOfProbes ==
  probe.at = "done" =>
    /\ ~results.held
    /\ cp.Ready => card.partition = Production /\ ~card.hung
    /\ (state.service = "READY") <=> cp.Ready
    /\ results.CpActive = cp.Ready
    /\ results.Fallback # "none" => results.Fallback = Verdict(state.accel # "UNSAFE")

ProbesSound == WrapProven /\ VerdictsRight /\ MonoRight /\ NothingLeftOfProbes
==============================================================================
