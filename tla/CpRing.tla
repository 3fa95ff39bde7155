------------------------------- MODULE CpRing --------------------------------
(***************************************************************************)
(* The command-processor ring of radeon_cp.c: one writer (the 68k, under   *)
(* the board lock) that reserves space, stores a padded stream through     *)
(* the VRAM aperture, reads the last dword back and moves CP_RB_WPTR; one  *)
(* reader (the command processor) that fetches at CP_RB_RPTR while the     *)
(* writer works.  Aperture stores are posted: they reach VRAM later, in    *)
(* any order, and only a read of the aperture waits for them.              *)
(*                                                                         *)
(* CpCommit and CpCommitStream differ in the staging buffer and in the     *)
(* fence tail; both are CpCommitStream here (CpCommit is the call without  *)
(* a fence).                                                               *)
(***************************************************************************)
EXTENDS Integers, Sequences

CONSTANTS
  RingDwords,     \* CP_RING_DWORDS
  RingAlignment,  \* CP_RING_ALIGNMENT
  MaxBatchDwords, \* RADEON3D_MAX_BATCH_DWORDS
  StallPolls,     \* CP_STALL_POLLS
  Dword,          \* what a ring slot can hold
  Batches,        \* the command sequences callers submit
  Fences,         \* the fence sequence numbers callers pass
  FenceCommands,  \* the fixed part of the fence tail
  Packet2,        \* the no-operation dword that pads a stream
  Startup,        \* the two dwords CpConfigureRing submits
  NoDword         \* what VRAM holds where no submission was ever stored

ASSUME RingAssumption ==
  /\ RingDwords \in Nat /\ RingDwords > 1
  /\ RingAlignment \in Nat \ {0}
  /\ MaxBatchDwords \in Nat
  /\ StallPolls \in Nat \ {0}

ASSUME DwordAssumption ==
  /\ {Packet2, NoDword} \subseteq Dword
  /\ Fences \subseteq Dword /\ Fences # {}
  /\ FenceCommands \in Seq(Dword)
  /\ Startup \in Seq(Dword)
  /\ Batches \subseteq Seq(Dword)

VARIABLES
  vram,         \* RingMemory as the command processor sees it
  posted,       \* the stream indices stored but not yet landed in vram
  writePointer, \* state->WritePointer
  rbWptr,       \* CP_RB_WPTR
  rbRptr,       \* CP_RB_RPTR
  csqOn,        \* CP_CSQ_CNTL lets the command processor fetch
  ready,        \* state->Ready
  pc,           \* where in the commit the writer is
  stream,       \* the padded stream being committed
  copied,       \* how many of its dwords are stored
  lastRead,     \* CpReserve's lastReadPointer
  stall,        \* CpReserve's stall
  quiet         \* history: polls since CpReserve last saw RB_RPTR move

busVars     == <<vram, posted>>
pointerVars == <<writePointer, rbWptr, rbRptr>>
pollVars    == <<lastRead, stall, quiet>>
cpVars      == <<csqOn, ready>>
vars == <<busVars, pointerVars, pollVars, cpVars, pc, stream, copied>>

Slot == 0 .. RingDwords - 1

------------------------------------------------------------------------------
(* Arithmetic on ring positions.  The code masks with CP_RING_MASK; both    *)
(* operands are below RingDwords, so one conditional subtraction is that    *)
(* mask.                                                                    *)

Wrap(p) == IF p < RingDwords THEN p ELSE p - RingDwords

(* The dwords between a read and a write position. *)
Used(r, w) == IF r <= w THEN w - r ELSE w - r + RingDwords

\* Mutant: RingDwords - (WritePointer - readPointer) - 1, not masked.
FreeDwordsUnmasked(r, w) == RingDwords - (w - r) - 1

(* (readPointer - WritePointer - 1) & CP_RING_MASK *)
FreeDwords(r, w) == IF r > w THEN r - w - 1 ELSE r - w - 1 + RingDwords

(* The slots the command processor has still to fetch. *)
Unread == {Wrap(rbRptr + k) : k \in 0 .. Used(rbRptr, rbWptr) - 1}

(* paddedCount: the stream length rounded up to the ring alignment. *)
PaddedCount(n) == ((n + RingAlignment - 1) \div RingAlignment) * RingAlignment

(* The commands, then the fence tail where one is asked for, then padding. *)
CpStreamDword(commands, addFence, sequence, index) ==
  LET tail == index - Len(commands) IN
  IF index < Len(commands) THEN commands[index + 1]
  ELSE IF addFence /\ tail < Len(FenceCommands) THEN FenceCommands[tail + 1]
  ELSE IF addFence /\ tail = Len(FenceCommands) THEN sequence
  ELSE Packet2

StreamCount(commands, addFence) ==
  Len(commands) + (IF addFence THEN Len(FenceCommands) + 1 ELSE 0)

PaddedStream(commands, addFence, sequence) ==
  [i \in 1 .. PaddedCount(StreamCount(commands, addFence)) |->
     CpStreamDword(commands, addFence, sequence, i - 1)]

(* Where the i-th dword of the stream goes: the segment from WritePointer   *)
(* to the end of the ring first, the rest from slot 0.                      *)
FirstCount == RingDwords - writePointer

SlotOf(i) ==
  IF i <= FirstCount THEN writePointer + i - 1 ELSE i - FirstCount - 1

(* VRAM after the stores in S have landed. *)
Landed(S) ==
  [s \in Slot |->
     IF \E i \in S : SlotOf(i) = s
     THEN stream[CHOOSE i \in S : SlotOf(i) = s]
     ELSE vram[s]]
------------------------------------------------------------------------------
Init ==
  /\ vram = [s \in Slot |-> NoDword]
  /\ posted = {}
  /\ writePointer = 0 /\ rbWptr = 0 /\ rbRptr = 0
  /\ csqOn = FALSE /\ ready = FALSE
  /\ pc = "idle" /\ stream = <<>> /\ copied = 0
  /\ lastRead = 0 /\ stall = 0 /\ quiet = 0

(* CpReserve samples RB_RPTR once before its loop. *)
EnterReserve(readPointer) ==
  /\ pc' = "reserve"
  /\ copied' = 0
  /\ lastRead' = readPointer
  /\ stall' = 0
  /\ quiet' = 0

(* CpCommitStream up to its call of CpReserve: a stream that is empty, too  *)
(* long or would not fit an empty ring is refused with nothing changed.     *)
CpCommitStream(commands, addFence, sequence) ==
  LET padded == PaddedStream(commands, addFence, sequence) IN
  /\ pc = "idle" /\ ready
  /\ Len(commands) \in 1 .. MaxBatchDwords
  /\ Len(padded) \in 1 .. RingDwords - 1
  /\ stream' = padded
  /\ EnterReserve(rbRptr)
  /\ UNCHANGED <<busVars, pointerVars, cpVars>>

HasRoom == FreeDwords(rbRptr, writePointer) >= Len(stream)

(* One turn of CpReserve's loop that finds room. *)
ReserveDone ==
  /\ pc = "reserve" /\ HasRoom
  /\ pc' = "copy"
  /\ UNCHANGED <<busVars, pointerVars, pollVars, cpVars, stream, copied>>

\* Mutant: the stall counter is too narrow for the budget and wraps.
ReservePollWraps ==
  /\ pc = "reserve" /\ ~HasRoom
  /\ lastRead' = rbRptr
  /\ stall' = IF rbRptr = lastRead THEN (stall + 1) % (StallPolls - 1) ELSE stall
  /\ UNCHANGED <<busVars, pointerVars, cpVars, pc, stream, copied, quiet>>

(* One turn that does not, and goes on: a read pointer that moved is noted, *)
(* one that did not uses up a poll of the stall budget.                     *)
ReservePoll ==
  /\ pc = "reserve" /\ ~HasRoom
  /\ \/ /\ rbRptr # lastRead
        /\ lastRead' = rbRptr
        /\ quiet' = 0
        /\ UNCHANGED stall
     \/ /\ rbRptr = lastRead
        /\ stall + 1 < StallPolls
        /\ stall' = stall + 1
        /\ quiet' = quiet + 1
        /\ UNCHANGED lastRead
  /\ UNCHANGED <<busVars, pointerVars, cpVars, pc, stream, copied>>

(* The commit returns and its local variables are gone. *)
CommitReturn ==
  /\ pc' = "idle"
  /\ stream' = <<>>
  /\ copied' = 0
  /\ lastRead' = 0
  /\ stall' = 0
  /\ quiet' = 0

(* It returns FALSE: WritePointer and RB_WPTR have not moved. *)
CommitFails ==
  /\ CommitReturn
  /\ UNCHANGED <<pointerVars, cpVars>>

(* The stall budget is used up. *)
ReserveStalled ==
  /\ pc = "reserve" /\ ~HasRoom
  /\ rbRptr = lastRead
  /\ stall + 1 >= StallPolls
  /\ CommitFails
  /\ UNCHANGED busVars

(* The EClock deadline passed; every sixteenth poll looks, so which poll    *)
(* finds it passed is left open.                                            *)
ReserveDeadline ==
  /\ pc = "reserve" /\ ~HasRoom
  /\ CommitFails
  /\ UNCHANGED busVars

(* One aperture store of the copy loops. *)
StoreDword ==
  /\ pc = "copy" /\ copied < Len(stream)
  /\ copied' = copied + 1
  /\ posted' = posted \cup {copied + 1}
  /\ UNCHANGED <<vram, pointerVars, pollVars, cpVars, pc, stream>>

(* The bus: a posted store reaches VRAM. *)
Land(i) ==
  /\ vram' = Landed({i})
  /\ posted' = posted \ {i}
  /\ UNCHANGED <<pointerVars, pollVars, cpVars, pc, stream, copied>>

\* Mutant: RB_WPTR is written without reading the aperture first.
NoReadback ==
  /\ pc = "copy" /\ copied = Len(stream)
  /\ pc' = "kick"
  /\ UNCHANGED <<busVars, pointerVars, pollVars, cpVars, stream, copied>>

(* The final-dword readback: it returns after every posted store landed.    *)
(* An aperture that does not answer gives another value, and the commit     *)
(* fails without moving RB_WPTR.                                            *)
Readback ==
  /\ pc = "copy" /\ copied = Len(stream)
  /\ vram' = Landed(posted)
  /\ posted' = {}
  /\ \/ /\ pc' = "kick"
        /\ UNCHANGED <<pointerVars, pollVars, cpVars, stream, copied>>
     \/ CommitFails

\* Mutant: the new write pointer is not masked.
KickWptrUnmasked ==
  /\ pc = "kick"
  /\ writePointer' = writePointer + Len(stream)
  /\ rbWptr' = writePointer + Len(stream)
  /\ CommitReturn
  /\ UNCHANGED <<busVars, rbRptr, cpVars>>

(* RB_WPTR and then WritePointer move past the stream. *)
KickWptr ==
  /\ pc = "kick"
  /\ writePointer' = Wrap(writePointer + Len(stream))
  /\ rbWptr' = Wrap(writePointer + Len(stream))
  /\ CommitReturn
  /\ UNCHANGED <<busVars, rbRptr, cpVars>>

(* The command processor fetches one dword. *)
CpFetch ==
  /\ csqOn /\ rbRptr # rbWptr
  /\ rbRptr' = Wrap(rbRptr + 1)
  /\ UNCHANGED <<busVars, writePointer, rbWptr, pollVars, cpVars, pc, stream,
                 copied>>

(* CpDisable as RadeonCpAbort calls it: the command stream is cut off where *)
(* it is.                                                                   *)
CpDisable ==
  /\ pc = "idle" /\ ready
  /\ ready' = FALSE
  /\ csqOn' = FALSE
  /\ UNCHANGED <<busVars, pointerVars, pollVars, pc, stream, copied>>

(* CpConfigureRing, with the command stream off: both pointers and the      *)
(* driver's copy return to 0, fetching is enabled, and the startup dwords   *)
(* are committed.                                                           *)
CpConfigureRing ==
  /\ pc = "idle" /\ ~ready
  /\ rbRptr' = 0 /\ rbWptr' = 0 /\ writePointer' = 0
  /\ csqOn' = TRUE
  /\ ready' = TRUE
  /\ stream' = PaddedStream(Startup, FALSE, Packet2)
  /\ EnterReserve(0)
  /\ UNCHANGED busVars

Submit ==
  \E commands \in Batches, addFence \in BOOLEAN, sequence \in Fences :
    CpCommitStream(commands, addFence, sequence)

(* The writer's next step inside a commit. *)
CommitStep ==
  \/ ReserveDone
  \/ ReservePoll
  \/ ReserveStalled
  \/ ReserveDeadline
  \/ StoreDword
  \/ Readback
  \/ KickWptr

LandStep == \E i \in posted : Land(i)

Next ==
  \/ Submit
  \/ CommitStep
  \/ LandStep
  \/ CpFetch
  \/ CpDisable
  \/ CpConfigureRing

Spec == Init /\ [][Next]_vars

(* The submitting task holds the processor or gets it back: once inside a   *)
(* commit it keeps executing.  Nothing is assumed of the command processor. *)
FairSpec == Spec /\ WF_vars(CommitStep)
------------------------------------------------------------------------------
Writing == pc \in {"copy", "kick"}

(* Every variable stays in its range; the pointers stay inside the ring.    *)
TypeOK ==
  /\ vram \in [Slot -> Dword]
  /\ stream \in Seq(Dword)
  /\ copied \in 0 .. Len(stream)
  /\ posted \subseteq 1 .. Len(stream)
  /\ writePointer \in Slot /\ rbWptr \in Slot /\ rbRptr \in Slot
  /\ csqOn \in BOOLEAN /\ ready \in BOOLEAN
  /\ pc \in {"idle", "reserve", "copy", "kick"}
  /\ lastRead \in Slot
  /\ stall \in Nat /\ quiet \in Nat

(* A store of the commit in progress never goes to a slot the command       *)
(* processor has still to fetch, however far it has got meanwhile: the      *)
(* space test of CpReserve and the two-segment copy agree.                  *)
NoOverwrite ==
  Writing => \A i \in 1 .. copied : SlotOf(i) \notin Unread

(* The ring is the queue the rest of the driver takes it for: seen from     *)
(* RB_RPTR and RB_WPTR a submission appears whole at the moment RB_WPTR     *)
(* moves, with every posted store already in VRAM, the command processor    *)
(* takes each dword once and in order, and the ring never holds more than   *)
(* RingDwords - 1 dwords, so that full and empty stay apart.                *)
UnreadDwords ==
  [k \in 1 .. Used(rbRptr, rbWptr) |-> vram[Wrap(rbRptr + k - 1)]]

RingStreams ==
  {PaddedStream(commands, addFence, sequence) :
     commands \in Batches \cup {Startup}, addFence \in BOOLEAN,
     sequence \in Fences}

Queue == INSTANCE CpQueue WITH
           queue <- UnreadDwords, Streams <- RingStreams,
           Capacity <- RingDwords - 1

RefinesQueue == Queue!Spec

(* A commit returns: a full ring whose command processor has stopped cannot *)
(* hold the submitting task, and with it the board lock, for ever.          *)
CommitReturns == (pc # "idle") ~> (pc = "idle")

(* "every read-pointer advance resets the stall budget": a reservation that *)
(* gives up as stalled has seen StallPolls polls in a row without movement. *)
StallMeansHung == [][ReserveStalled => quiet + 1 >= StallPolls]_vars
==============================================================================
